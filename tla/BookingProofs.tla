--------------------------- MODULE BookingProofs ---------------------------
(* Proofs about Booking: its types, that a booking shown as full is full, that *)
(* a place taken is backed by an assignment, that the end of a booking is      *)
(* overwritten only by who had read it before, and that every step is a step   *)
(* of BookingPlaces.                                                           *)
EXTENDS Booking, FiniteSetTheorems, TLAPS

-----------------------------------------------------------------------------
(* Types.  An acceptance is counted on a booking that had room when it was    *)
(* read, and its write matches the count it read: filled stays within Needed. *)

Ending == {"lower", "reopen", "commit", "free"}
Updating == {"write", "start", "end"}
Working == {"accept", "assign", "schedule"} \union Ending \union Updating
Sound(c) == /\ c.at \in Working => c.asg \in Assignments
            /\ c.at = "accept" => c.count < Needed
            /\ c.at \in Ending => c.to \in {"none", "driver_declined", "cancelled"}
            /\ c.at \in Updating => c.to # "none"
Bounds == /\ faults \in 0 .. MaxEvents /\ updates \in 0 .. MaxEvents
          /\ overwrites \in Nat
TypeInv == TypeOK /\ \A p \in Procs : Sound(call[p])

LEMMA IdleType == Idle \in Call /\ Sound(Idle)
BY BookingAssumption DEF Idle, Doing, Call, Stage, Sound, Working, Ending, Updating

LEMMA GoTypes ==
  ASSUME TypeInv, NEW p \in Procs, NEW c \in Call, Sound(c), Go(p, c)
  PROVE  /\ call' \in [Procs -> Call]
         /\ (\A q \in Procs : Sound(call[q]))'
<1>1. /\ call \in [Procs -> Call] /\ \A q \in Procs : Sound(call[q])
      /\ call' = [call EXCEPT ![p] = c]
  BY DEF TypeInv, TypeOK, Bounds, Go
<1>2. \A q \in Procs : call'[q] = IF q = p THEN c ELSE call[q]
  BY <1>1
<1>3. \A q \in Procs : Sound(call'[q])
  BY <1>1, <1>2
<1> QED
  BY <1>1, <1>3 DEF Sound

LEMMA StepTypes ==
  ASSUME TypeInv, NEW p \in Procs, NEW s \in Stage, s # "accept",
         s \in Working => call[p].at \in Working, s \in Ending => call[p].at \in Ending,
         s \in Updating => call[p].at \in Updating, Step(p, s)
  PROVE  /\ call' \in [Procs -> Call]
         /\ (\A q \in Procs : Sound(call[q]))'
<1> DEFINE c == [call[p] EXCEPT !.at = s]
<1>1. call[p] \in Call /\ Sound(call[p])
  BY DEF TypeInv, TypeOK, Bounds
<1>2. c \in Call /\ c.at = s /\ c.asg = call[p].asg /\ c.to = call[p].to
  BY <1>1 DEF Call
<1>3. Sound(c)
  BY <1>1, <1>2 DEF Sound
<1>4. Go(p, c)
  BY DEF Step, Go
<1> HIDE DEF c
<1> QED
  BY <1>2, <1>3, <1>4, GoTypes

LEMMA ReturnTypes ==
  ASSUME TypeInv, NEW p \in Procs, Return(p)
  PROVE  /\ call' \in [Procs -> Call]
         /\ (\A q \in Procs : Sound(call[q]))'
BY IdleType, GoTypes DEF Return

LEMMA StatusTypes ==
  ASSUME TypeOK, NEW s \in BookingStatus, SetStatus(s)
  PROVE  status' \in BookingStatus /\ ended' \in BOOLEAN
BY DEF SetStatus, TypeOK

LEMMA AsgTypes ==
  ASSUME TypeOK, NEW a, NEW s \in AsgStatus, SetAsg(a, s)
  PROVE  asg' \in [Assignments -> AsgStatus]
BY DEF SetAsg, TypeOK

LEMMA TypeInit == Init => TypeInv
<1> SUFFICES ASSUME Init PROVE TypeInv
  OBVIOUS
<1>1. call \in [Procs -> Call] /\ \A p \in Procs : Sound(call[p])
  BY IdleType DEF Init
<1>2. status \in BookingStatus /\ due \in BOOLEAN /\ ended \in BOOLEAN
  BY DEF Init, BookingStatus, Open
<1>3. filled \in 0 .. Needed /\ Bounds
  BY BookingAssumption DEF Init, Bounds
<1>4. asg \in [Assignments -> AsgStatus] /\ busy \subseteq Trucks
  BY DEF Init, AsgStatus
<1> QED
  BY <1>1, <1>2, <1>3, <1>4 DEF TypeInv, TypeOK, Bounds, Bounds

\* The parts of TypeInv an action leaves alone, in one place.
LEMMA Kept ==
  ASSUME TypeInv
  PROVE  /\ status \in BookingStatus /\ filled \in 0 .. Needed
         /\ due \in BOOLEAN /\ ended \in BOOLEAN
         /\ asg \in [Assignments -> AsgStatus] /\ busy \subseteq Trucks
         /\ call \in [Procs -> Call] /\ \A p \in Procs : Sound(call[p])
         /\ Bounds
BY DEF TypeInv, TypeOK, Bounds, Bounds

LEMMA BoundsKept ==
  ASSUME TypeInv, UNCHANGED <<faults, updates, overwrites>>
  PROVE  Bounds'
BY Kept DEF Bounds

LEMMA FaultBounds ==
  ASSUME TypeInv, Within, faults' = faults + 1, UNCHANGED <<updates, overwrites>>
  PROVE  Bounds'
BY Kept, BookingAssumption DEF Bounds, Within

\* The assignment of a call that works on one.
LEMMA WorkingOn ==
  ASSUME TypeInv, NEW p \in Procs, call[p].at \in Working
  PROVE  call[p].asg \in Assignments /\ TruckOf[call[p].asg] \in Trucks
BY BookingAssumption DEF TypeInv, Sound

\* A call that begins on an assignment.
LEMMA BeginType ==
  ASSUME NEW a \in Assignments, NEW s \in Stage, NEW n \in 0 .. Needed,
         NEW to \in {"none"} \union Updates, s = "accept" => n < Needed,
         s \in Ending => to \in {"none", "driver_declined", "cancelled"},
         s \in Updating => to # "none"
  PROVE  Doing(s, a, n, to) \in Call /\ Sound(Doing(s, a, n, to))
BY DEF Doing, Call, Sound

\* Finding trucks for the booking.
LEMMA TrucksTypes ==
  ASSUME TypeInv, NEW p \in Procs,
         \/ AcceptCommit(p) \/ AssignCommit(p) \/ Schedule(p) \/ ScheduleFails(p)
         \/ \E a \in Assignments : AcceptBegin(p, a) \/ AssignBegin(p, a)
  PROVE  TypeInv'
<1> USE BookingAssumption, Kept, BoundsKept DEF Updates, Ending, Updating
<1>1. CASE \E a \in Assignments : AcceptBegin(p, a)
  <2>1. PICK a \in Assignments : AcceptBegin(p, a)
    BY <1>1
  <2>2. filled \in 0 .. Needed /\ filled < Needed /\ Go(p, Doing("accept", a, filled, "none"))
    BY <2>1 DEF AcceptBegin
  <2>3. Doing("accept", a, filled, "none") \in Call /\ Sound(Doing("accept", a, filled, "none"))
    BY <2>2, BeginType DEF Stage
  <2> QED
    BY <2>1, <2>2, <2>3, GoTypes DEF AcceptBegin, TypeInv, TypeOK, Bounds
<1>2. CASE \E a \in Assignments : AssignBegin(p, a)
  <2>1. PICK a \in Assignments : AssignBegin(p, a)
    BY <1>2
  <2>2. 0 \in 0 .. Needed /\ "assign" \in Stage /\ "assign" # "accept"
    BY DEF Stage
  <2>3. Doing("assign", a, 0, "none") \in Call /\ Sound(Doing("assign", a, 0, "none"))
    BY <2>2, BeginType
  <2> QED
    BY <2>1, <2>3, GoTypes DEF AssignBegin, TypeInv, TypeOK, Bounds
<1>3. CASE AcceptCommit(p)
  <2> DEFINE a == call[p].asg
  <2>1. Return(p) /\ call[p].at = "accept" /\ UNCHANGED <<due, faults, updates, overwrites>>
    BY <1>3 DEF AcceptCommit
  <2>2. CASE UNCHANGED <<status, filled, ended, asg, busy>>
    BY <2>1, <2>2, ReturnTypes DEF TypeInv, TypeOK, Bounds
  <2>3. CASE /\ filled = call[p].count /\ filled' = filled + 1
             /\ SetStatus(IF filled + 1 >= Needed THEN "fully_filled" ELSE "partially_filled")
             /\ SetAsg(a, "pending")
             /\ busy' = busy \union {TruckOf[a]}
    <3>1. TruckOf[a] \in Trucks /\ filled < Needed
      BY <2>1, <2>3, WorkingOn DEF Working, Sound
    <3>2. filled' \in 0 .. Needed /\ busy' \subseteq Trucks
      BY <2>3, <3>1
    <3>3. (IF filled + 1 >= Needed THEN "fully_filled" ELSE "partially_filled") \in BookingStatus
      BY DEF BookingStatus, Open
    <3>4. status' \in BookingStatus /\ ended' \in BOOLEAN
      BY <2>3, <3>3, StatusTypes DEF TypeInv
    <3>5. asg' \in [Assignments -> AsgStatus]
      BY <2>3, AsgTypes DEF TypeInv, AsgStatus, LiveStatuses
    <3> QED
      BY <2>1, <3>2, <3>4, <3>5, ReturnTypes DEF TypeInv, TypeOK, Bounds
  <2> QED
    BY <1>3, <2>2, <2>3 DEF AcceptCommit
<1>4. CASE AssignCommit(p)
  <2> DEFINE a == call[p].asg
  <2>1. call[p].at = "assign" /\ UNCHANGED <<status, due, ended, faults, updates, overwrites>>
    BY <1>4 DEF AssignCommit
  <2>2. CASE Return(p) /\ UNCHANGED <<filled, asg, busy>>
    BY <2>1, <2>2, ReturnTypes DEF TypeInv, TypeOK, Bounds
  <2>3. CASE /\ SetAsg(a, "pending") /\ busy' = busy \union {TruckOf[a]}
             /\ filled' = IF filled < Needed THEN filled + 1 ELSE filled
             /\ Step(p, "schedule")
    <3>1. filled' \in 0 .. Needed
      BY <2>3
    <3>2. busy' \subseteq Trucks
      BY <2>1, <2>3, WorkingOn DEF Working
    <3>3. asg' \in [Assignments -> AsgStatus]
      BY <2>3, AsgTypes DEF TypeInv, AsgStatus, LiveStatuses
    <3>4. call' \in [Procs -> Call] /\ (\A q \in Procs : Sound(call[q]))'
      BY <2>1, <2>3, StepTypes DEF Stage, Working
    <3> QED
      BY <2>1, <3>1, <3>2, <3>3, <3>4 DEF TypeInv, TypeOK, Bounds
  <2> QED
    BY <1>4, <2>2, <2>3 DEF AssignCommit
<1>5. CASE Schedule(p)
  BY <1>5, ReturnTypes DEF Schedule, TypeInv, TypeOK, Bounds
<1>6. CASE ScheduleFails(p)
  <2> DEFINE s == IF asg[call[p].asg] = "pending" THEN "driver_declined" ELSE asg[call[p].asg]
  <2>1. s \in AsgStatus
    BY <1>6, WorkingOn DEF ScheduleFails, Working, AsgStatus
  <2>2. SetAsg(call[p].asg, s)
    BY <1>6 DEF ScheduleFails
  <2> HIDE DEF s
  <2>3. asg' \in [Assignments -> AsgStatus]
    BY <2>1, <2>2, AsgTypes DEF TypeInv
  <2>4. Bounds' /\ busy' \subseteq Trucks
    BY <1>6, FaultBounds DEF ScheduleFails
  <2> QED
    BY <1>6, <2>3, <2>4, ReturnTypes DEF ScheduleFails, TypeInv, TypeOK, Bounds
<1> QED
  BY <1>1, <1>2, <1>3, <1>4, <1>5, <1>6

\* The end of an assignment.
LEMMA AnswerTypes ==
  ASSUME TypeInv, NEW p \in Procs,
         \/ Lower(p) \/ Reopen(p) \/ CommitAnswer(p) \/ FreeAbandoned(p)
         \/ \E a \in Assignments : \E to \in {"driver_declined", "cancelled"} : Answer(p, a, to)
         \/ \E a \in Assignments : Abandon(p, a)
  PROVE  TypeInv'
<1> USE BookingAssumption, Kept, BoundsKept DEF Updates, Ending, Updating
<1>1. CASE \E a \in Assignments : \E to \in {"driver_declined", "cancelled"} : Answer(p, a, to)
  <2>1. PICK a \in Assignments, to \in {"driver_declined", "cancelled"} : Answer(p, a, to)
    BY <1>1
  <2>2. 0 \in 0 .. Needed /\ "lower" \in Stage /\ "lower" # "accept"
    BY DEF Stage
  <2>3. Doing("lower", a, 0, to) \in Call /\ Sound(Doing("lower", a, 0, to))
    BY <2>2, BeginType
  <2> QED
    BY <2>1, <2>3, GoTypes DEF Answer, TypeInv, TypeOK, Bounds
<1>2. CASE \E a \in Assignments : Abandon(p, a)
  <2>1. PICK a \in Assignments : Abandon(p, a)
    BY <1>2
  <2>2. 0 \in 0 .. Needed /\ "free" \in Stage /\ "free" # "accept"
    BY DEF Stage
  <2>3. Doing("free", a, 0, "none") \in Call /\ Sound(Doing("free", a, 0, "none"))
    BY <2>2, BeginType
  <2>4. asg' \in [Assignments -> AsgStatus]
    BY <2>1, AsgTypes DEF Abandon, TypeInv, AsgStatus
  <2> QED
    BY <2>1, <2>3, <2>4, GoTypes DEF Abandon, TypeInv, TypeOK, Bounds
<1>3. CASE Lower(p)
  <2> DEFINE n == OneLess(filled)
  <2>1. n \in 0 .. Needed
    BY DEF OneLess
  <2>2. call[p].at = "lower" /\ UNCHANGED <<status, due, ended, asg, busy, faults, updates, overwrites>>
    BY <1>3 DEF Lower
  <2>3. CASE Return(p) /\ UNCHANGED filled
    BY <2>2, <2>3, ReturnTypes DEF TypeInv, TypeOK, Bounds
  <2>4. CASE filled' = n /\ Go(p, Doing("reopen", call[p].asg, n, call[p].to))
    <3>1. call[p].asg \in Assignments
      BY <2>2, WorkingOn DEF Working
    <3>2. call[p].to \in {"none", "driver_declined", "cancelled"}
      BY <2>2 DEF Sound
    <3>3. "reopen" \in Stage /\ "reopen" # "accept"
      BY DEF Stage
    <3> HIDE DEF n
    <3>4. /\ Doing("reopen", call[p].asg, n, call[p].to) \in Call
          /\ Sound(Doing("reopen", call[p].asg, n, call[p].to))
      BY <2>1, <3>1, <3>2, <3>3, BeginType
    <3> QED
      BY <2>1, <2>2, <2>4, <3>4, GoTypes DEF TypeInv, TypeOK, Bounds
  <2> QED
    BY <1>3, <2>3, <2>4 DEF Lower
<1>4. CASE Reopen(p)
  <2>1. (IF status \in Closed THEN status ELSE Reopened(p)) \in BookingStatus
    BY DEF Reopened, BookingStatus, Open
  <2>2. status' \in BookingStatus /\ ended' \in BOOLEAN
    BY <1>4, <2>1, StatusTypes DEF Reopen, TypeInv
  <2>3. call' \in [Procs -> Call] /\ (\A q \in Procs : Sound(call[q]))'
    <3>1. Return(p) \/ Step(p, "commit")
      BY <1>4 DEF Reopen, AfterReopen
    <3>2. /\ call[p].at \in Working /\ "commit" \in Stage /\ "commit" # "accept"
          /\ call[p].at \in Ending /\ "commit" \notin Updating
      BY <1>4 DEF Reopen, Working, Stage
    <3> QED
      BY <3>1, <3>2, ReturnTypes, StepTypes
  <2> QED
    BY <1>4, <2>2, <2>3 DEF Reopen, TypeInv, TypeOK, Bounds
<1>5. CASE CommitAnswer(p)
  <2>1. call[p].to \in AsgStatus
    BY <1>5 DEF CommitAnswer, Sound, AsgStatus
  <2>2. asg' \in [Assignments -> AsgStatus]
    BY <1>5, <2>1, AsgTypes DEF CommitAnswer, TypeInv
  <2> QED
    BY <1>5, <2>2, ReturnTypes DEF CommitAnswer, TypeInv, TypeOK, Bounds
<1>6. CASE FreeAbandoned(p)
  <2>1. Return(p) \/ Step(p, "lower")
    BY <1>6 DEF FreeAbandoned
  <2>2. /\ call[p].at \in Working /\ "lower" \in Stage /\ "lower" # "accept"
        /\ call[p].at \in Ending /\ "lower" \notin Updating
    BY <1>6 DEF FreeAbandoned, Working, Stage
  <2>3. call' \in [Procs -> Call] /\ (\A q \in Procs : Sound(call[q]))'
    BY <2>1, <2>2, ReturnTypes, StepTypes
  <2> QED
    BY <1>6, <2>3 DEF FreeAbandoned, TypeInv, TypeOK, Bounds
<1> QED
  BY <1>1, <1>2, <1>3, <1>4, <1>5, <1>6

\* The end of the booking, and a call that dies.
LEMMA EndTypes ==
  ASSUME TypeInv, NEW p \in Procs,
         \/ CancelBooking(p) \/ (\E t \in Trucks : ReleaseVehicle(p, t))
         \/ ExpireBegin(p) \/ ExpireCommit(p) \/ (\E a \in Assignments : TripEnds(p, a))
         \/ CheckCompletion(p) \/ Complete(p) \/ Crash(p)
  PROVE  TypeInv'
<1> USE BookingAssumption, Kept, BoundsKept DEF Updates, Ending, Updating
<1>1. ASSUME NEW ts \in SUBSET Trucks
      PROVE  Releasing(ts) \in Call /\ Sound(Releasing(ts))
  BY DEF Releasing, Call, Stage, Sound, Working
<1>2. CASE CancelBooking(p)
  <2> DEFINE trucks == {TruckOf[a] : a \in {b \in Assignments : Live(b)}}
             c == IF trucks = {} THEN Idle ELSE Releasing(trucks)
  <2>1. c \in Call /\ Sound(c)
    <3>1. trucks \in SUBSET Trucks
      OBVIOUS
    <3> HIDE DEF trucks
    <3> QED
      BY <1>1, <3>1, IdleType
  <2>2. Go(p, c)
    BY <1>2 DEF CancelBooking
  <2> HIDE DEF c
  <2>3. "cancelled" \in BookingStatus /\ "cancelled" \in AsgStatus
    BY DEF BookingStatus, Closed, AsgStatus
  <2>4. status' \in BookingStatus /\ ended' \in BOOLEAN
    BY <1>2, <2>3, StatusTypes DEF CancelBooking, TypeInv
  <2>5. asg' \in [Assignments -> AsgStatus]
    BY <1>2, <2>3 DEF CancelBooking
  <2> QED
    BY <1>2, <2>1, <2>2, <2>4, <2>5, GoTypes DEF CancelBooking, TypeInv, TypeOK, Bounds
<1>3. CASE \E t \in Trucks : ReleaseVehicle(p, t)
  <2>1. PICK t \in Trucks : ReleaseVehicle(p, t)
    BY <1>3
  <2> DEFINE rest == call[p].trucks \ {t}
             c == IF call[p].trucks = {t} THEN Idle ELSE Releasing(rest)
  <2>2. rest \in SUBSET Trucks
    BY DEF Call
  <2>3. c \in Call /\ Sound(c)
    BY <1>1, <2>2, IdleType
  <2>4. Go(p, c)
    BY <2>1 DEF ReleaseVehicle
  <2> HIDE DEF c
  <2> QED
    BY <2>1, <2>3, <2>4, GoTypes DEF ReleaseVehicle, TypeInv, TypeOK, Bounds
<1>4. CASE ExpireBegin(p)
  <2>1. Doing("expire", None, filled, "none") \in Call /\ Sound(Doing("expire", None, filled, "none"))
    BY DEF Doing, Call, Stage, Sound, Working
  <2> QED
    BY <1>4, <2>1, GoTypes DEF ExpireBegin, TypeInv, TypeOK, Bounds
<1>5. CASE ExpireCommit(p)
  <2>1. (IF call[p].count < Needed /\ status \in Open THEN "expired" ELSE status) \in BookingStatus
    BY DEF BookingStatus, Closed
  <2>2. status' \in BookingStatus /\ ended' \in BOOLEAN
    BY <1>5, <2>1, StatusTypes DEF ExpireCommit, TypeInv
  <2> QED
    BY <1>5, <2>2, ReturnTypes DEF ExpireCommit, TypeInv, TypeOK, Bounds
<1>6. CASE \E a \in Assignments : TripEnds(p, a)
  <2>1. PICK a \in Assignments : TripEnds(p, a)
    BY <1>6
  <2>2. Doing("check", None, 0, "none") \in Call /\ Sound(Doing("check", None, 0, "none"))
    BY DEF Doing, Call, Stage, Sound, Working
  <2>3. asg' \in [Assignments -> AsgStatus]
    BY <2>1, AsgTypes DEF TripEnds, TypeInv, AsgStatus
  <2> QED
    BY <2>1, <2>2, <2>3, GoTypes DEF TripEnds, TypeInv, TypeOK, Bounds
<1>7. CASE CheckCompletion(p)
  <2>1. Return(p) \/ Step(p, "complete")
    BY <1>7 DEF CheckCompletion
  <2>2. "complete" \in Stage /\ "complete" # "accept" /\ "complete" \notin Working
    BY DEF Stage, Working
  <2>3. call' \in [Procs -> Call] /\ (\A q \in Procs : Sound(call[q]))'
    BY <2>1, <2>2, ReturnTypes, StepTypes
  <2> QED
    BY <1>7, <2>3 DEF CheckCompletion, TypeInv, TypeOK, Bounds
<1>8. CASE Complete(p)
  <2>1. "completed" \in BookingStatus
    BY DEF BookingStatus, Closed
  <2>2. status' \in BookingStatus /\ ended' \in BOOLEAN
    BY <1>8, <2>1, StatusTypes DEF Complete, TypeInv
  <2> QED
    BY <1>8, <2>2, ReturnTypes DEF Complete, TypeInv, TypeOK, Bounds
<1>9. CASE Crash(p)
  <2>1. Bounds'
    BY <1>9, FaultBounds DEF Crash
  <2> QED
    BY <1>9, <2>1, ReturnTypes DEF Crash, TypeInv, TypeOK, Bounds
<1> QED
  BY <1>2, <1>3, <1>4, <1>5, <1>6, <1>7, <1>8, <1>9

\* Status updates by id, and the end of a trip that the tracker has written.
LEMMA UpdateTypes ==
  ASSUME TypeInv, NEW p \in Procs,
         \/ StartBooking(p) \/ WriteAssignment(p) \/ EndTrip(p)
         \/ \E a \in Assignments : ReadAssignment(p, a)
  PROVE  TypeInv'
<1> USE BookingAssumption, Kept, BoundsKept DEF Ending, Updating
<1>1. CASE \E a \in Assignments : ReadAssignment(p, a)
  <2>1. PICK a \in Assignments : ReadAssignment(p, a)
    BY <1>1
  <2>2. PICK to \in Updates : Go(p, Doing("write", a, 0, to))
    BY <2>1 DEF ReadAssignment, MayWrite, Live, LiveStatuses, Updates
  <2>3. 0 \in 0 .. Needed /\ "write" \in Stage /\ to # "none"
    BY DEF Stage, Updates
  <2>4. Doing("write", a, 0, to) \in Call /\ Sound(Doing("write", a, 0, to))
    BY <2>3, BeginType
  <2>5. Bounds'
    BY <2>1 DEF ReadAssignment, Bounds, Within
  <2> QED
    BY <2>1, <2>2, <2>4, <2>5, GoTypes DEF ReadAssignment, TypeInv, TypeOK, Bounds
<1>2. CASE StartBooking(p)
  <2>1. (IF status \in {"fully_filled", "partially_filled"} THEN "in_progress" ELSE status) \in BookingStatus
    BY DEF BookingStatus
  <2>2. status' \in BookingStatus /\ ended' \in BOOLEAN
    BY <1>2, <2>1, StatusTypes DEF StartBooking, TypeInv
  <2>3. call' \in [Procs -> Call] /\ (\A q \in Procs : Sound(call[q]))'
    <3>1. CASE Return(p)
      BY <3>1, ReturnTypes
    <3>2. CASE call' = call
      BY <3>2
    <3> QED
      BY <1>2, <3>1, <3>2 DEF StartBooking
  <2> QED
    BY <1>2, <2>2, <2>3 DEF StartBooking, TypeInv, TypeOK, Bounds
<1>3. CASE WriteAssignment(p)
  <2> DEFINE a == call[p].asg
             s == Written(call[p].to)
  <2>1. call[p].at = "write" /\ call[p].to \in Updates
    BY <1>3 DEF WriteAssignment, Sound, Call
  <2>2. s \in AsgStatus /\ SetAsg(a, s)
    BY <1>3, <2>1 DEF WriteAssignment, Written, Updates, AsgStatus, LiveStatuses
  <2> HIDE DEF s
  <2>3. asg' \in [Assignments -> AsgStatus]
    BY <2>2, AsgTypes DEF TypeInv
  <2>4. call' \in [Procs -> Call] /\ (\A q \in Procs : Sound(call[q]))'
    <3>1. Return(p) \/ Step(p, "start") \/ Step(p, "end")
      BY <1>3 DEF WriteAssignment
    <3> QED
      BY <2>1, <3>1, ReturnTypes, StepTypes DEF Stage, Working
  <2>5. Bounds'
    BY <1>3 DEF WriteAssignment, Bounds
  <2> QED
    BY <1>3, <2>3, <2>4, <2>5 DEF WriteAssignment, TypeInv, TypeOK, Bounds
<1>4. CASE EndTrip(p)
  <2>1. Doing("check", None, 0, "none") \in Call /\ Sound(Doing("check", None, 0, "none"))
    BY DEF Doing, Call, Stage, Sound, Working
  <2>2. CASE Return(p) /\ UNCHANGED <<asg, busy>>
    BY <1>4, <2>2, ReturnTypes DEF EndTrip, TypeInv, TypeOK, Bounds
  <2>3. CASE /\ SetAsg(call[p].asg, "completed") /\ busy' = busy \ {TruckOf[call[p].asg]}
             /\ Go(p, Doing("check", None, 0, "none"))
    <3>1. asg' \in [Assignments -> AsgStatus]
      BY <2>3, AsgTypes DEF TypeInv, AsgStatus
    <3> QED
      BY <1>4, <2>1, <2>3, <3>1, GoTypes DEF EndTrip, TypeInv, TypeOK, Bounds
  <2> QED
    BY <1>4, <2>2, <2>3 DEF EndTrip
<1> QED
  BY <1>1, <1>2, <1>3, <1>4

\* What happens without a call.
LEMMA CalmTypes ==
  ASSUME TypeInv,
         \/ \E a \in Assignments : DriverAccepts(a)
         \/ \E t \in Trucks : FreeOrphan(t)
         \/ Tick
  PROVE  TypeInv'
<1> USE BookingAssumption, Kept
<1>0. UNCHANGED <<call, filled, faults, updates, overwrites>> =>
        /\ call' \in [Procs -> Call] /\ filled' \in 0 .. Needed
        /\ Bounds'
        /\ (\A p \in Procs : Sound(call[p]))'
  BY BoundsKept
<1>1. CASE \E a \in Assignments : DriverAccepts(a)
  <2>1. PICK a \in Assignments : DriverAccepts(a)
    BY <1>1
  <2>2. asg' \in [Assignments -> AsgStatus]
    BY <2>1, AsgTypes DEF DriverAccepts, TypeInv, AsgStatus, LiveStatuses
  <2> QED
    BY <1>0, <2>1, <2>2 DEF DriverAccepts, TypeInv, TypeOK, Bounds
<1>2. CASE \E t \in Trucks : FreeOrphan(t)
  BY <1>0, <1>2 DEF FreeOrphan, TypeInv, TypeOK, Bounds
<1>3. CASE Tick
  BY <1>0, <1>3 DEF Tick, TypeInv, TypeOK, Bounds
<1> QED
  BY <1>1, <1>2, <1>3

LEMMA TypeNext == TypeInv /\ [Next]_vars => TypeInv'
<1> SUFFICES ASSUME TypeInv, [Next]_vars PROVE TypeInv'
  OBVIOUS
<1>1. CASE \E p \in Procs : Continue(p) \/ ScheduleFails(p) \/ Crash(p)
  BY <1>1, TrucksTypes, AnswerTypes, EndTypes, UpdateTypes DEF Continue
<1>2. CASE \E p \in Procs : CancelBooking(p) \/ ExpireBegin(p)
  BY <1>2, EndTypes
<1>3. CASE \E p \in Procs, a \in Assignments :
             \/ AcceptBegin(p, a) \/ AssignBegin(p, a)
             \/ \E to \in {"driver_declined", "cancelled"} : Answer(p, a, to)
             \/ Abandon(p, a) \/ TripEnds(p, a) \/ ReadAssignment(p, a)
  BY <1>3, TrucksTypes, AnswerTypes, EndTypes, UpdateTypes
<1>4. CASE \/ \E a \in Assignments : DriverAccepts(a)
           \/ \E t \in Trucks : FreeOrphan(t)
           \/ Tick
  BY <1>4, CalmTypes
<1>5. CASE UNCHANGED vars
  BY <1>5 DEF vars, TypeInv, TypeOK, Bounds
<1> QED
  BY <1>1, <1>2, <1>3, <1>4, <1>5 DEF Next

\* Every variable keeps its type; the count never passes the places needed.
THEOREM BookingTypesCorrect == Spec => []TypeOK
<1>1. Spec => []TypeInv
  BY TypeInit, TypeNext, PTL DEF Spec
<1>2. TypeInv => TypeOK
  BY DEF TypeInv
<1> QED
  BY <1>1, <1>2, PTL

-----------------------------------------------------------------------------
(* A booking shown as full is full.  Only an acceptance shows it so, and only *)
(* with its last place; whoever takes a place away goes on to open the        *)
(* booking again, and nothing but a fault keeps it from doing so.             *)

Reopening == \E p \in Procs : call[p].at = "reopen"

\* A call that is not reopening the booking leaves those that are to it.
LEMMA ReopeningStays ==
  ASSUME TypeInv, NEW p \in Procs, NEW c, Go(p, c), call[p].at # "reopen", Reopening
  PROVE  Reopening'
<1>1. PICK q \in Procs : call[q].at = "reopen"
  BY DEF Reopening
<1>2. call'[q] = call[q]
  BY <1>1 DEF Go, TypeInv, TypeOK
<1> QED
  BY <1>1, <1>2 DEF Reopening

LEMMA StepIsGo ==
  ASSUME NEW p, NEW s, Step(p, s)
  PROVE  Go(p, [call[p] EXCEPT !.at = s])
BY DEF Step, Go

LEMMA StillFull ==
  ASSUME TypeInv, FullMeansFull, [Next]_vars
  PROVE  FullMeansFull'
<1> USE Kept
<1>0. faults \in Nat /\ Idle.at # "reopen"
  BY BookingAssumption DEF Idle, Doing, Bounds
<1>1. ASSUME Reopening => Reopening', faults' = faults,
             status' = status \/ status' # "fully_filled", filled' >= filled
      PROVE  FullMeansFull'
  <2>1. filled \in 0 .. Needed /\ filled' \in 0 .. Needed /\ Needed \in Nat
    BY TypeNext, BookingAssumption DEF TypeInv, TypeOK
  <2>2. SUFFICES ASSUME faults' = 0, status' = "fully_filled", filled' < Needed
                 PROVE  Reopening'
    BY DEF FullMeansFull, Reopening
  <2>3. faults = 0 /\ status = "fully_filled" /\ filled < Needed
    BY <1>1, <2>1, <2>2
  <2> QED
    BY <1>1, <2>3 DEF FullMeansFull, Reopening
<1>2. ASSUME faults' = faults + 1
      PROVE  FullMeansFull'
  BY <1>0, <1>2 DEF FullMeansFull
<1>3. ASSUME NEW p \in Procs, NEW a \in Assignments, AcceptBegin(p, a) \/ AssignBegin(p, a)
      PROVE  FullMeansFull'
  BY <1>0, <1>1, <1>3, ReopeningStays, BookingAssumption DEF AcceptBegin, AssignBegin
<1>4. ASSUME NEW p \in Procs, AcceptCommit(p)
      PROVE  FullMeansFull'
  <2>1. call[p].at # "reopen" /\ Go(p, Idle) /\ faults' = faults
    BY <1>4 DEF AcceptCommit, Return
  <2>2. Reopening => Reopening'
    BY <2>1, ReopeningStays
  <2>3. CASE UNCHANGED <<status, filled>>
    BY <1>1, <2>1, <2>2, <2>3, BookingAssumption
  <2>4. CASE /\ filled' = filled + 1
             /\ status' = IF filled + 1 >= Needed THEN "fully_filled" ELSE "partially_filled"
    BY <2>4, BookingAssumption DEF FullMeansFull
  <2> QED
    BY <1>4, <2>3, <2>4 DEF AcceptCommit, SetStatus
<1>5. ASSUME NEW p \in Procs, AssignCommit(p)
      PROVE  FullMeansFull'
  <2>1. call[p].at # "reopen" /\ faults' = faults /\ status' = status /\ filled' >= filled
    BY <1>5, BookingAssumption DEF AssignCommit
  <2>2. Reopening => Reopening'
    BY <1>5, <2>1, StepIsGo, ReopeningStays DEF AssignCommit, Return
  <2> QED
    BY <1>1, <2>1, <2>2
<1>6. ASSUME NEW p \in Procs, Lower(p)
      PROVE  FullMeansFull'
  <2>1. CASE Return(p) /\ UNCHANGED filled
    <3>1. Reopening => Reopening'
      BY <1>6, <2>1, ReopeningStays DEF Lower, Return
    <3> QED
      BY <1>1, <1>6, <2>1, <3>1, BookingAssumption DEF Lower
  <2>2. CASE Go(p, Doing("reopen", call[p].asg, OneLess(filled), call[p].to))
    <3>1. call'[p].at = "reopen"
      BY <2>2 DEF Go, Doing
    <3> QED
      BY <3>1 DEF FullMeansFull
  <2> QED
    BY <1>6, <2>1, <2>2 DEF Lower
<1>7. ASSUME NEW p \in Procs, Reopen(p)
      PROVE  FullMeansFull'
  <2>1. status' # "fully_filled"
    BY <1>7 DEF Reopen, SetStatus, Reopened, Closed
  <2> QED
    BY <2>1 DEF FullMeansFull
<1>8. ASSUME NEW p \in Procs,
             \/ Schedule(p) \/ CommitAnswer(p) \/ FreeAbandoned(p) \/ CheckCompletion(p)
             \/ ExpireCommit(p) \/ Complete(p)
      PROVE  FullMeansFull'
  <2>1. call[p].at # "reopen" /\ faults' = faults /\ filled' = filled
    BY <1>8 DEF Schedule, CommitAnswer, FreeAbandoned, CheckCompletion, ExpireCommit, Complete
  <2>2. status' = status \/ status' # "fully_filled"
    BY <1>8 DEF Schedule, CommitAnswer, FreeAbandoned, CheckCompletion, ExpireCommit, Complete,
                SetStatus
  <2>3. \E c : Go(p, c)
    BY <1>8, StepIsGo DEF Schedule, CommitAnswer, FreeAbandoned, CheckCompletion, ExpireCommit,
                Complete, Return
  <2> QED
    BY <1>1, <2>1, <2>2, <2>3, ReopeningStays, BookingAssumption
<1>9. ASSUME NEW p \in Procs,
             \/ CancelBooking(p) \/ (\E t \in Trucks : ReleaseVehicle(p, t)) \/ ExpireBegin(p)
             \/ \E a \in Assignments : TripEnds(p, a) \/ Abandon(p, a)
             \/ \E a \in Assignments : \E to \in {"driver_declined", "cancelled"} : Answer(p, a, to)
      PROVE  FullMeansFull'
  <2>1. call[p].at # "reopen" /\ faults' = faults /\ filled' = filled
    BY <1>0, <1>9 DEF CancelBooking, ReleaseVehicle, ExpireBegin, TripEnds, Abandon, Answer
  <2>2. status' = status \/ status' # "fully_filled"
    BY <1>9 DEF CancelBooking, ReleaseVehicle, ExpireBegin, TripEnds, Abandon, Answer, SetStatus
  <2>3. \E c : Go(p, c)
    BY <1>9 DEF CancelBooking, ReleaseVehicle, ExpireBegin, TripEnds, Abandon, Answer
  <2> QED
    BY <1>1, <2>1, <2>2, <2>3, ReopeningStays, BookingAssumption
<1>10. ASSUME \/ \E a \in Assignments : DriverAccepts(a)
              \/ \E t \in Trucks : FreeOrphan(t)
              \/ Tick
       PROVE  FullMeansFull'
  <2>1. faults' = faults /\ filled' = filled /\ call' = call
    BY <1>10 DEF DriverAccepts, FreeOrphan, Tick
  <2>2. status' = status \/ status' # "fully_filled"
    BY <1>10 DEF DriverAccepts, FreeOrphan, Tick, SetStatus
  <2> QED
    BY <1>1, <2>1, <2>2, BookingAssumption DEF Reopening
<1>11. ASSUME NEW p \in Procs, ScheduleFails(p) \/ Crash(p)
       PROVE  FullMeansFull'
  BY <1>2, <1>11 DEF ScheduleFails, Crash
<1>12. CASE UNCHANGED vars
  BY <1>12 DEF vars, FullMeansFull
<1>13. ASSUME NEW p \in Procs, WriteAssignment(p) \/ EndTrip(p) \/ \E a \in Assignments : ReadAssignment(p, a)
       PROVE  FullMeansFull'
  <2>1. call[p].at # "reopen" /\ faults' = faults /\ filled' = filled /\ status' = status
    BY <1>0, <1>13 DEF WriteAssignment, EndTrip, ReadAssignment
  <2>2. \E c : Go(p, c)
    BY <1>13, StepIsGo DEF WriteAssignment, EndTrip, ReadAssignment, Return
  <2> QED
    BY <1>1, <2>1, <2>2, ReopeningStays, BookingAssumption
<1>14. ASSUME NEW p \in Procs, StartBooking(p)
       PROVE  FullMeansFull'
  <2>1. call[p].at # "reopen" /\ faults' = faults /\ filled' = filled
    BY <1>14 DEF StartBooking
  <2>2. status' # "fully_filled"
    BY <1>14 DEF StartBooking, SetStatus
  <2> QED
    BY <2>2 DEF FullMeansFull
<1> QED
  BY <1>3, <1>4, <1>5, <1>6, <1>7, <1>8, <1>9, <1>10, <1>11, <1>12, <1>13, <1>14 DEF Next, Continue

\* While nothing fails, a booking that is neither offered nor expired because it
\* is shown as full has no place free, unless an answer is about to reopen it.
THEOREM FullIsFull == Spec => []FullMeansFull
<1>1. Init => FullMeansFull
  BY DEF Init, FullMeansFull
<1>2. Spec => []TypeInv
  BY TypeInit, TypeNext, PTL DEF Spec
<1> QED
  BY <1>1, <1>2, StillFull, PTL DEF Spec

-----------------------------------------------------------------------------
(* The end of a booking *)

\* A write to the status of a closed booking comes from a call that looked at
\* the booking before it was closed.
LEMMA EndIsKept ==
  ASSUME TypeInv, [Next]_vars, status \in Closed, status' # status
  PROVE  HadRead
<1> USE Kept
<1>1. ASSUME NEW p \in Procs, AcceptCommit(p) \/ Complete(p)
      PROVE  HadRead
  <2>1. call[p].at \in {"accept", "complete"} /\ Return(p)
    BY <1>1 DEF AcceptCommit, Complete
  <2>2. call'[p] = Idle
    BY <2>1 DEF Return, Go
  <2> QED
    BY <2>1, <2>2 DEF HadRead
<1>2. ASSUME NEW p \in Procs, Reopen(p) \/ ExpireCommit(p) \/ CancelBooking(p)
      PROVE  FALSE
  BY <1>2 DEF Reopen, ExpireCommit, CancelBooking, SetStatus, Open, Closed
<1>3. ASSUME NEW p \in Procs, StartBooking(p)
      PROVE  FALSE
  BY <1>3 DEF StartBooking, SetStatus, Closed
<1>4. ASSUME NEW p \in Procs,
             \/ AssignCommit(p) \/ Schedule(p) \/ Lower(p) \/ CommitAnswer(p) \/ FreeAbandoned(p)
             \/ (\E t \in Trucks : ReleaseVehicle(p, t)) \/ CheckCompletion(p)
             \/ ScheduleFails(p) \/ Crash(p) \/ ExpireBegin(p)
             \/ WriteAssignment(p) \/ EndTrip(p)
      PROVE  FALSE
  BY <1>4 DEF AssignCommit, Schedule, Lower, CommitAnswer, FreeAbandoned, ReleaseVehicle,
              CheckCompletion, ScheduleFails, Crash, ExpireBegin, WriteAssignment, EndTrip
<1>5. ASSUME NEW p \in Procs, NEW a \in Assignments,
             \/ AcceptBegin(p, a) \/ AssignBegin(p, a)
             \/ \E to \in {"driver_declined", "cancelled"} : Answer(p, a, to)
             \/ Abandon(p, a) \/ TripEnds(p, a) \/ ReadAssignment(p, a)
      PROVE  FALSE
  BY <1>5 DEF AcceptBegin, AssignBegin, Answer, Abandon, TripEnds, ReadAssignment
<1>6. ASSUME \/ \E a \in Assignments : DriverAccepts(a)
             \/ \E t \in Trucks : FreeOrphan(t)
             \/ Tick
             \/ UNCHANGED vars
      PROVE  FALSE
  BY <1>6 DEF DriverAccepts, FreeOrphan, Tick, vars
<1> QED
  BY <1>1, <1>2, <1>3, <1>4, <1>5, <1>6 DEF Next, Continue

\* However late a decline, a timeout, an expiry or the start of a trip comes, it
\* does not change how a booking was closed.
THEOREM TheEndStands == Spec => EndStands
<1>1. TypeInv /\ [Next]_vars => [(status \in Closed /\ status' # status) => HadRead]_vars
  BY EndIsKept
<1>2. Spec => []TypeInv
  BY TypeInit, TypeNext, PTL DEF Spec
<1> QED
  BY <1>1, <1>2, PTL DEF Spec, EndStands

-----------------------------------------------------------------------------
(* Every place counted as taken is backed                                    *)

Finds(c) == c.at \in {"accept", "assign"}
Answers(c) == c.to # "none" /\ c.at \in {"lower", "reopen", "commit"}
Writes(c) == c.at \in Updating

\* What a call relies on when the assignments are as in rows: its new assignment
\* is not made yet, the row it locks may be answered like this, the row it updates
\* was made, and accepted if its trip is to end.
Answerable(to) == IF to = "cancelled" THEN LiveStatuses ELSE {"pending"}
Fits(c, rows) ==
  /\ Finds(c) => rows[c.asg] = "none"
  /\ Answers(c) => rows[c.asg] \in Answerable(c.to)
  /\ Writes(c) => rows[c.asg] # "none" /\ (c.to = "completed" => rows[c.asg] # "pending")
  /\ c.at = "free" => c.to = "none"
  /\ c.at = "commit" => c.to # "none"
  /\ c.at = "end" => c.to = "completed"

\* Two calls do not make or lock the same assignment.
Apart(c, d) == c.asg = d.asg => /\ ~(Finds(c) /\ Finds(d))
                                /\ ~(Answers(c) /\ Answers(d))

CallInv ==
  /\ \A p \in Procs : Fits(call[p], asg)
  /\ \A p, q \in Procs : p # q => Apart(call[p], call[q])
  /\ status \in Closed => ended

\* An assignment for each place taken, except those a status update has lost: one
\* that stands and that no answer has counted down, or one that is given up.
Held == {a \in Backing : ~Spent(a)}
Covered == faults = 0 /\ ~ended =>
             filled <= Cardinality(Held) + Cardinality(GivingUp) + overwrites

\* The inductive invariant.
BackedInv == CallInv /\ Covered

LEMMA CallGoes ==
  ASSUME TypeInv, CallInv, NEW p \in Procs, NEW c, Go(p, c), Fits(c, asg'),
         \A q \in Procs \ {p} : Fits(call[q], asg') /\ Apart(c, call[q]),
         status' \in Closed => ended'
  PROVE  CallInv'
<1>1. \A q \in Procs : call'[q] = IF q = p THEN c ELSE call[q]
  BY DEF Go, TypeInv, TypeOK
<1>2. \A q \in Procs : Fits(call'[q], asg')
  BY <1>1
<1>3. ASSUME NEW q \in Procs, NEW r \in Procs, q # r
      PROVE  Apart(call'[q], call'[r])
  <2>1. Apart(call[q], call[r])
    BY <1>3 DEF CallInv
  <2>2. CASE q = p
    BY <1>1, <1>3, <2>2
  <2>3. CASE r = p
    <3>1. Apart(c, call[q])
      BY <1>3, <2>3
    <3> QED
      BY <1>1, <1>3, <2>3, <3>1 DEF Apart
  <2> QED
    BY <1>1, <2>1, <2>2, <2>3
<1> QED
  BY <1>2, <1>3 DEF CallInv

\* What the assignment of a call is, in short.
LEMMA RowOf ==
  ASSUME CallInv, NEW q \in Procs
  PROVE  /\ Finds(call[q]) => asg[call[q].asg] = "none"
         /\ Answers(call[q]) => asg[call[q].asg] \in LiveStatuses
         /\ Writes(call[q]) => asg[call[q].asg] # "none"
BY DEF CallInv, Fits, Answerable, LiveStatuses

\* The rows a call relies on stay so when one assignment is written.
LEMMA RowsStay ==
  ASSUME TypeInv, CallInv, NEW q \in Procs, NEW a \in Assignments, NEW s, SetAsg(a, s), s # "none",
         s = "pending" => asg[a] = "none",
         Finds(call[q]) => call[q].asg # a,
         Answers(call[q]) => call[q].asg # a
  PROVE  Fits(call[q], asg')
<1>1. \A b \in Assignments : asg'[b] = IF b = a THEN s ELSE asg[b]
  BY DEF SetAsg, TypeInv, TypeOK
<1>2. Fits(call[q], asg) /\ Sound(call[q])
  BY DEF CallInv, TypeInv
<1>3. call[q].at \in Working => call[q].asg \in Assignments
  BY <1>2 DEF Sound
<1>4. Finds(call[q]) \/ Answers(call[q]) \/ Writes(call[q]) => call[q].asg \in Assignments
  BY <1>3 DEF Finds, Answers, Writes, Working, Ending
<1> QED
  BY <1>1, <1>2, <1>4 DEF Fits

\* A call that neither finds, answers, gives up nor updates relies on nothing.
Neutral(c) == ~Finds(c) /\ ~Answers(c) /\ c.at \notin Ending \union Updating

LEMMA NeutralFits ==
  ASSUME NEW c, Neutral(c)
  PROVE  /\ \A rows : Fits(c, rows)
         /\ \A d : Apart(c, d) /\ Apart(d, c)
         /\ ~Spends(c) /\ ~GivesUp(c)
BY DEF Neutral, Fits, Apart, Spends, GivesUp, Writes, Ending, Updating

LEMMA IdleNeutral == Neutral(Idle)
BY DEF Neutral, Idle, Doing, Finds, Answers, Ending, Updating

\* A call that goes on with the same assignment.
LEMMA CallGoesOn ==
  ASSUME TypeInv, CallInv, NEW p \in Procs, NEW c, Go(p, c), asg' = asg,
         Neutral(c) \/ (c.asg = call[p].asg /\ (Finds(c) => Finds(call[p]))
                          /\ (Answers(c) => Answers(call[p]) /\ c.to = call[p].to)
                          /\ (Writes(c) => Writes(call[p]) /\ c.to = call[p].to)
                          /\ (c.at = "free" => c.to = "none") /\ (c.at = "commit" => c.to # "none")
                          /\ (c.at = "end" => c.to = "completed")),
         status' \in Closed => ended'
  PROVE  CallInv'
<1>1. Fits(call[p], asg) /\ \A q \in Procs \ {p} : Fits(call[q], asg) /\ Apart(call[p], call[q])
  BY DEF CallInv
<1>2. CASE Neutral(c)
  BY <1>1, <1>2, CallGoes, NeutralFits
<1>3. CASE ~Neutral(c)
  <2>1. Fits(c, asg) /\ \A q \in Procs \ {p} : Apart(c, call[q])
    BY <1>1, <1>3 DEF Fits, Apart
  <2> QED
    BY <1>1, <2>1, CallGoes
<1> QED
  BY <1>2, <1>3

LEMMA CallInit == Init => CallInv
<1> SUFFICES ASSUME Init PROVE CallInv
  OBVIOUS
<1>1. \A p \in Procs : call[p] = Idle
  BY DEF Init
<1> QED
  BY <1>1, IdleNeutral, NeutralFits DEF CallInv, Init, Closed

\* Nobody who works on an assignment that no call is about.
LEMMA FreshApart ==
  ASSUME NEW p \in Procs, NEW a, \A q \in Procs : call[q].asg # a, NEW c, c.asg = a
  PROVE  \A q \in Procs : Apart(c, call[q])
BY DEF Apart

\* Nobody else answers for an assignment whose row is not locked.
LEMMA UnlockedApart ==
  ASSUME NEW a, ~Locked(a), NEW q \in Procs, Answers(call[q])
  PROVE  call[q].asg # a
BY DEF Locked, Answers

\* Steps that leave the assignments alone and go on, or return.
LEMMA CallOn ==
  ASSUME TypeInv, CallInv, NEW p \in Procs,
         \/ Schedule(p) \/ Lower(p) \/ Reopen(p) \/ FreeAbandoned(p) \/ ExpireBegin(p)
         \/ (\E t \in Trucks : ReleaseVehicle(p, t)) \/ ExpireCommit(p)
         \/ CheckCompletion(p) \/ Complete(p) \/ Crash(p)
  PROVE  CallInv'
<1>0. Neutral(Idle) /\ (status \in Closed => ended) /\ Fits(call[p], asg)
  BY IdleNeutral DEF CallInv
<1>1. ASSUME Return(p), asg' = asg, status' \in Closed => ended'
      PROVE  CallInv'
  BY <1>0, <1>1, CallGoesOn DEF Return
<1>2. CASE Schedule(p)
  BY <1>0, <1>1, <1>2 DEF Schedule
<1>3. CASE Lower(p)
  <2>1. CASE Return(p)
    BY <1>0, <1>1, <1>3, <2>1 DEF Lower
  <2> DEFINE c == Doing("reopen", call[p].asg, OneLess(filled), call[p].to)
  <2>2. CASE Go(p, c)
    <3>1. c.asg = call[p].asg /\ c.to = call[p].to /\ c.at = "reopen"
      BY DEF Doing
    <3> HIDE DEF c
    <3>2. /\ ~Finds(c) /\ (Answers(c) => Answers(call[p])) /\ ~Writes(c)
      BY <1>3, <3>1 DEF Lower, Finds, Answers, Writes, Updating
    <3> QED
      BY <1>0, <1>3, <2>2, <3>1, <3>2, CallGoesOn DEF Lower
  <2> QED
    BY <1>3, <2>1, <2>2 DEF Lower
<1>4. CASE Reopen(p)
  <2>1. status' \in Closed => ended'
    BY <1>4 DEF Reopen, SetStatus
  <2> DEFINE c == [call[p] EXCEPT !.at = "commit"]
  <2>2. CASE call[p].to # "none" /\ Go(p, c)
    <3>1. c.asg = call[p].asg /\ c.to = call[p].to /\ c.at = "commit"
      BY DEF TypeInv, TypeOK, Call
    <3> HIDE DEF c
    <3>2. /\ ~Finds(c) /\ (Answers(c) => Answers(call[p])) /\ ~Writes(c)
      BY <1>4, <3>1 DEF Reopen, Finds, Answers, Writes, Updating
    <3> QED
      BY <1>4, <2>1, <2>2, <3>1, <3>2, CallGoesOn DEF Reopen
  <2> QED
    BY <1>1, <1>4, <2>1, <2>2 DEF Reopen, AfterReopen, Step, Go
<1>5. CASE FreeAbandoned(p)
  <2> DEFINE c == [call[p] EXCEPT !.at = "lower"]
  <2>1. CASE Step(p, "lower")
    <3>1. c.asg = call[p].asg /\ c.to = call[p].to /\ c.at = "lower" /\ call[p].to = "none"
      BY <1>0, <1>5 DEF TypeInv, TypeOK, Call, FreeAbandoned, Fits
    <3>2. Go(p, c)
      BY <2>1 DEF Step, Go
    <3> HIDE DEF c
    <3>3. /\ ~Finds(c) /\ ~Answers(c) /\ ~Writes(c)
      BY <1>5, <3>1 DEF FreeAbandoned, Finds, Answers, Writes, Updating
    <3> QED
      BY <1>0, <1>5, <3>1, <3>2, <3>3, CallGoesOn DEF FreeAbandoned
  <2> QED
    BY <1>0, <1>1, <1>5, <2>1 DEF FreeAbandoned
<1>6. CASE ExpireBegin(p)
  <2>1. Neutral(Doing("expire", None, filled, "none"))
    BY DEF Neutral, Doing, Finds, Answers, Ending, Updating
  <2> QED
    BY <1>0, <1>6, <2>1, CallGoesOn DEF ExpireBegin
<1>7. CASE \E t \in Trucks : ReleaseVehicle(p, t)
  <2>1. PICK t \in Trucks : ReleaseVehicle(p, t)
    BY <1>7
  <2>2. \A ts : Neutral(Releasing(ts))
    BY DEF Neutral, Releasing, Finds, Answers, Ending, Updating
  <2>3. PICK c : Go(p, c) /\ Neutral(c)
    BY <1>0, <2>1, <2>2 DEF ReleaseVehicle
  <2> QED
    BY <1>0, <2>1, <2>3, CallGoesOn DEF ReleaseVehicle
<1>8. CASE ExpireCommit(p)
  BY <1>1, <1>8 DEF ExpireCommit, SetStatus
<1>9. CASE CheckCompletion(p)
  <2> DEFINE c == [call[p] EXCEPT !.at = "complete"]
  <2>1. CASE Step(p, "complete")
    <3>1. Neutral(c)
      BY DEF TypeInv, TypeOK, Call, Neutral, Finds, Answers, Ending, Updating
    <3>2. Go(p, c)
      BY <2>1 DEF Step, Go
    <3> HIDE DEF c
    <3> QED
      BY <1>0, <1>9, <3>1, <3>2, CallGoesOn DEF CheckCompletion
  <2> QED
    BY <1>0, <1>1, <1>9, <2>1 DEF CheckCompletion
<1>10. CASE Complete(p)
  BY <1>1, <1>10 DEF Complete, SetStatus
<1>11. CASE Crash(p)
  BY <1>0, <1>1, <1>11 DEF Crash
<1> QED
  BY <1>2, <1>3, <1>4, <1>5, <1>6, <1>7, <1>8, <1>9, <1>10, <1>11

\* Calls that begin.
LEMMA CallBegins ==
  ASSUME TypeInv, CallInv, NEW p \in Procs, NEW a \in Assignments,
         \/ AcceptBegin(p, a) \/ AssignBegin(p, a) \/ Abandon(p, a) \/ TripEnds(p, a)
         \/ \E to \in {"driver_declined", "cancelled"} : Answer(p, a, to)
  PROVE  CallInv'
<1>0. (status \in Closed => ended) /\ \A q \in Procs : Fits(call[q], asg)
  BY DEF CallInv
<1>1. CASE AcceptBegin(p, a) \/ AssignBegin(p, a)
  <2>5. PICK s \in {"accept", "assign"} : \E n : Go(p, Doing(s, a, n, "none"))
    BY <1>1 DEF AcceptBegin, AssignBegin
  <2>1. PICK n : Go(p, Doing(s, a, n, "none"))
    BY <2>5
  <2> DEFINE c == Doing(s, a, n, "none")
  <2>2. c.at = s /\ c.asg = a /\ c.to = "none"
    BY DEF Doing
  <2> HIDE DEF c
  <2>3. Fresh(a) /\ asg' = asg /\ status' = status /\ ended' = ended
    BY <1>1 DEF AcceptBegin, AssignBegin
  <2>4. Fits(c, asg) /\ \A q \in Procs : Apart(c, call[q])
    BY <2>2, <2>3 DEF Fits, Fresh, Finds, Answers, Writes, Updating, Apart
  <2> QED
    BY <1>0, <2>1, <2>3, <2>4, CallGoes DEF c
<1>2. CASE Abandon(p, a)
  <2> DEFINE c == Doing("free", a, 0, "none")
  <2>1. c.at = "free" /\ c.asg = a /\ c.to = "none" /\ Go(p, c)
    BY <1>2 DEF Doing, Abandon
  <2> HIDE DEF c
  <2>2. asg' = [asg EXCEPT ![a] = "cancelled"] /\ SetAsg(a, "cancelled")
    BY <1>2 DEF Abandon, SetAsg
  <2>5. asg[a] = "driver_accepted"
    BY <1>2 DEF Abandon
  <2>3. Fits(c, asg') /\ \A q \in Procs : Apart(c, call[q])
    <3>1. ~Finds(c) /\ ~Answers(c) /\ Fits(c, asg')
      BY <2>1, <2>2, Kept DEF Fits, Finds, Answers, Writes, Updating
    <3> QED
      BY <3>1 DEF Apart
  <2>4. \A q \in Procs : Fits(call[q], asg')
    <3> SUFFICES ASSUME NEW q \in Procs PROVE Fits(call[q], asg')
      OBVIOUS
    <3>1. Finds(call[q]) => call[q].asg # a
      BY <1>0, <1>2 DEF Abandon, Fits
    <3>2. Answers(call[q]) => call[q].asg # a
      BY <1>2, UnlockedApart DEF Abandon
    <3> QED
      BY <2>2, <2>5, <3>1, <3>2, RowsStay
  <2> QED
    BY <1>0, <1>2, <2>1, <2>3, <2>4, CallGoes DEF Abandon
<1>3. CASE TripEnds(p, a)
  <2> DEFINE c == Doing("check", None, 0, "none")
  <2>1. Neutral(c) /\ Go(p, c) /\ SetAsg(a, "completed")
    BY <1>3 DEF Doing, TripEnds, Neutral, Finds, Answers, Ending, Updating
  <2> HIDE DEF c
  <2>2. \A q \in Procs : Fits(call[q], asg')
    <3> SUFFICES ASSUME NEW q \in Procs PROVE Fits(call[q], asg')
      OBVIOUS
    <3>1. Finds(call[q]) => call[q].asg # a
      BY <1>0, <1>3 DEF TripEnds, Fits
    <3>2. Answers(call[q]) => call[q].asg # a
      BY <1>3, UnlockedApart DEF TripEnds
    <3> QED
      BY <2>1, <3>1, <3>2, RowsStay
  <2> QED
    BY <1>0, <1>3, <2>1, <2>2, NeutralFits, CallGoes DEF TripEnds
<1>4. CASE \E to \in {"driver_declined", "cancelled"} : Answer(p, a, to)
  <2>1. PICK to \in {"driver_declined", "cancelled"} : Answer(p, a, to)
    BY <1>4
  <2> DEFINE c == Doing("lower", a, 0, to)
  <2>2. c.at = "lower" /\ c.asg = a /\ c.to = to /\ Go(p, c)
    BY <2>1 DEF Doing, Answer
  <2> HIDE DEF c
  <2>3. asg[a] \in Answerable(to) /\ ~Locked(a)
    BY <2>1 DEF Answer, Answerable
  <2>4. Fits(c, asg) /\ ~Finds(c)
    BY <2>2, <2>3 DEF Fits, Finds, Answers, Writes, Updating
  <2>5. \A q \in Procs : Apart(c, call[q])
    BY <2>2, <2>3, <2>4, UnlockedApart DEF Apart
  <2> QED
    BY <1>0, <2>1, <2>2, <2>4, <2>5, CallGoes DEF Answer
<1> QED
  BY <1>1, <1>2, <1>3, <1>4

\* Calls that write an assignment: their own, which nobody else makes or locks,
\* or one whose row is not locked.
LEMMA CallWrites ==
  ASSUME TypeInv, CallInv, NEW p \in Procs,
         AcceptCommit(p) \/ AssignCommit(p) \/ CommitAnswer(p) \/ ScheduleFails(p)
  PROVE  CallInv'
<1> DEFINE a == call[p].asg
<1>0. /\ status \in Closed => ended
      /\ \A q \in Procs : Fits(call[q], asg) /\ (q # p => Apart(call[p], call[q]))
      /\ Neutral(Idle)
  BY IdleNeutral DEF CallInv
<1>1. a \in Assignments
  BY WorkingOn DEF AcceptCommit, AssignCommit, CommitAnswer, ScheduleFails, Working, Ending
<1>2. ASSUME NEW s, s # "none", s = "pending" => asg[a] = "none", SetAsg(a, s),
             NEW c, Go(p, c), Neutral(c),
             \A q \in Procs \ {p} : /\ Finds(call[q]) => call[q].asg # a
                                    /\ Answers(call[q]) => call[q].asg # a,
             status' \in Closed => ended'
      PROVE  CallInv'
  <2> HIDE DEF a
  <2>1. \A q \in Procs \ {p} : Fits(call[q], asg')
    BY <1>1, <1>2, RowsStay
  <2> QED
    BY <1>2, <2>1, NeutralFits, CallGoes
<1>3. ASSUME Return(p), asg' = asg, status' \in Closed => ended'
      PROVE  CallInv'
  BY <1>0, <1>3, CallGoesOn DEF Return
\* a new assignment is made by one call and answered by none
<1>4. ASSUME Finds(call[p])
      PROVE  \A q \in Procs \ {p} : /\ Finds(call[q]) => call[q].asg # a
                                    /\ Answers(call[q]) => call[q].asg # a
  BY <1>0, <1>4, RowOf DEF Apart, LiveStatuses
<1>9. Finds(call[p]) => asg[a] = "none"
  BY RowOf
<1>5. CASE AcceptCommit(p)
  <2>1. CASE SetAsg(a, "pending")
    BY <1>0, <1>2, <1>4, <1>9, <1>5, <2>1 DEF AcceptCommit, Finds, Return, SetStatus
  <2> QED
    BY <1>0, <1>3, <1>5, <2>1 DEF AcceptCommit
<1>6. CASE AssignCommit(p)
  <2> DEFINE c == [call[p] EXCEPT !.at = "schedule"]
  <2>1. Neutral(c)
    BY DEF TypeInv, TypeOK, Call, Neutral, Finds, Answers, Ending, Updating
  <2>2. CASE SetAsg(a, "pending") /\ Step(p, "schedule")
    <3>1. Go(p, c)
      BY <2>2 DEF Step, Go
    <3> HIDE DEF c
    <3> QED
      BY <1>0, <1>2, <1>4, <1>9, <1>6, <2>1, <2>2, <3>1 DEF AssignCommit, Finds
  <2> QED
    BY <1>0, <1>3, <1>6, <2>2 DEF AssignCommit
<1>7. CASE CommitAnswer(p)
  <2>1. Answers(call[p])
    BY <1>0, <1>7 DEF CommitAnswer, Fits, Answers
  <2>2. \A q \in Procs \ {p} : /\ Finds(call[q]) => call[q].asg # a
                               /\ Answers(call[q]) => call[q].asg # a
    BY <1>0, <2>1, RowOf DEF Apart, LiveStatuses
  <2>3. /\ call[p].to \notin {"none", "pending"} /\ SetAsg(a, call[p].to) /\ Go(p, Idle)
        /\ status' = status /\ ended' = ended
    BY <2>1, <1>7, Kept DEF Answers, CommitAnswer, Return, Sound, Ending
  <2> QED
    BY <1>0, <1>2, <2>2, <2>3
<1>8. CASE ScheduleFails(p)
  <2> DEFINE s == IF asg[a] = "pending" THEN "driver_declined" ELSE asg[a]
  <2>1. SetAsg(a, s) /\ Return(p) /\ ~Locked(a) /\ UNCHANGED <<status, filled, due, ended>>
    BY <1>8 DEF ScheduleFails
  <2>2. CASE asg[a] = "pending"
    <3>1. \A q \in Procs \ {p} : /\ Finds(call[q]) => call[q].asg # a
                                 /\ Answers(call[q]) => call[q].asg # a
      BY <1>0, <2>1, <2>2, UnlockedApart DEF Fits
    <3>2. SetAsg(a, "driver_declined")
      BY <2>1, <2>2
    <3> QED
      BY <1>0, <1>2, <2>1, <2>2, <3>1, <3>2 DEF Return
  <2>3. CASE asg[a] # "pending"
    <3>1. asg' = asg
      BY <2>1, <2>3, Kept DEF SetAsg
    <3> QED
      BY <1>0, <1>3, <2>1, <3>1
  <2> QED
    BY <2>2, <2>3
<1> QED
  BY <1>5, <1>6, <1>7, <1>8

\* Steps of nobody's call, and the cancellation, which no answer is open in.
LEMMA CallStays ==
  ASSUME TypeInv, CallInv,
         \/ \E a \in Assignments : DriverAccepts(a)
         \/ \E t \in Trucks : FreeOrphan(t)
         \/ \E p \in Procs : CancelBooking(p)
         \/ Tick \/ UNCHANGED vars
  PROVE  CallInv'
<1>0. /\ status \in Closed => ended
      /\ \A p \in Procs : Fits(call[p], asg)
      /\ \A p, q \in Procs : p # q => Apart(call[p], call[q])
  BY DEF CallInv
<1>1. ASSUME call' = call, asg' = asg, status' \in Closed => ended'
      PROVE  CallInv'
  BY <1>0, <1>1 DEF CallInv
<1>2. CASE Tick \/ (UNCHANGED vars) \/ \E t \in Trucks : FreeOrphan(t)
  BY <1>0, <1>1, <1>2 DEF Tick, vars, FreeOrphan
<1>4. CASE \E a \in Assignments : DriverAccepts(a)
  <2>1. PICK a \in Assignments : DriverAccepts(a)
    BY <1>4
  <2>2. SetAsg(a, "driver_accepted")
    BY <2>1 DEF DriverAccepts
  <2>3. /\ call' = call /\ status' = status /\ ended' = ended
        /\ asg[a] \in LiveStatuses /\ ~Locked(a)
    BY <2>1 DEF DriverAccepts, LiveStatuses
  <2>4. \A p \in Procs : Fits(call[p], asg')
    <3> SUFFICES ASSUME NEW p \in Procs PROVE Fits(call[p], asg')
      OBVIOUS
    <3>1. Finds(call[p]) => call[p].asg # a
      BY <1>0, <2>3 DEF Fits, LiveStatuses
    <3>2. Answers(call[p]) => call[p].asg # a
      BY <2>3, UnlockedApart
    <3> QED
      BY <2>2, <3>1, <3>2, RowsStay
  <2> QED
    BY <1>0, <2>3, <2>4 DEF CallInv
<1>5. CASE \E p \in Procs : CancelBooking(p)
  <2>1. PICK p \in Procs : CancelBooking(p)
    BY <1>5
  <2>2. PICK c : Go(p, c) /\ Neutral(c)
    <3>1. \A ts : Neutral(Releasing(ts))
      BY DEF Neutral, Releasing, Finds, Answers, Ending, Updating
    <3> QED
      BY <2>1, <3>1, IdleNeutral DEF CancelBooking
  <2>3. \A a \in Assignments : asg'[a] = IF asg[a] \in LiveStatuses THEN "cancelled" ELSE asg[a]
    BY <2>1 DEF CancelBooking
  <2>4. ASSUME NEW q \in Procs
        PROVE  Fits(call[q], asg')
    <3>1. Fits(call[q], asg) /\ Sound(call[q])
      BY <1>0 DEF TypeInv
    <3>2. Finds(call[q]) \/ Answers(call[q]) \/ Writes(call[q]) => call[q].asg \in Assignments
      BY <3>1 DEF Sound, Finds, Answers, Writes, Working, Ending
    <3>3. ~Answers(call[q])
      BY <2>1, <3>2, RowOf, UnlockedApart DEF CancelBooking, Live
    <3> QED
      BY <2>3, <3>1, <3>2, <3>3 DEF Fits, LiveStatuses
  <2>5. status' \in Closed => ended'
    BY <2>1 DEF CancelBooking, SetStatus
  <2> QED
    BY <2>2, <2>4, <2>5, NeutralFits, CallGoes
<1> QED
  BY <1>2, <1>4, <1>5

\* Status updates: whoever makes or answers the assignment is left alone.
LEMMA CallUpdates ==
  ASSUME TypeInv, CallInv, NEW p \in Procs,
         \/ StartBooking(p) \/ WriteAssignment(p) \/ EndTrip(p)
         \/ \E a \in Assignments : ReadAssignment(p, a)
  PROVE  CallInv'
<1>0. /\ status \in Closed => ended
      /\ \A q \in Procs : Fits(call[q], asg)
      /\ \A q, r \in Procs : q # r => Apart(call[q], call[r])
      /\ Neutral(Idle)
  BY IdleNeutral DEF CallInv
<1>1. CASE \E a \in Assignments : ReadAssignment(p, a)
  <2>1. PICK a \in Assignments : ReadAssignment(p, a)
    BY <1>1
  <2>2. PICK to \in MayWrite[asg[a]] : Go(p, Doing("write", a, 0, to))
    BY <2>1 DEF ReadAssignment
  <2> DEFINE c == Doing("write", a, 0, to)
  <2>3. c.at = "write" /\ c.asg = a /\ c.to = to
    BY DEF Doing
  <2> HIDE DEF c
  <2>4. asg[a] # "none" /\ (to = "completed" => asg[a] # "pending")
    BY <2>1, <2>2 DEF ReadAssignment, Live, LiveStatuses, MayWrite
  <2>5. Fits(c, asg) /\ \A q \in Procs : Apart(c, call[q])
    BY <2>3, <2>4 DEF Fits, Finds, Answers, Writes, Apart
  <2> QED
    BY <1>0, <2>1, <2>2, <2>5, CallGoes DEF ReadAssignment, c
<1>2. CASE StartBooking(p)
  <2>1. status' \in Closed => ended'
    BY <1>2 DEF StartBooking, SetStatus
  <2>2. CASE Return(p)
    BY <1>0, <1>2, <2>1, <2>2, CallGoesOn DEF StartBooking, Return
  <2>3. CASE call' = call
    BY <1>0, <1>2, <2>1, <2>3 DEF StartBooking, CallInv
  <2> QED
    BY <1>2, <2>2, <2>3 DEF StartBooking
\* the writes: nobody makes or answers a
<1>3. ASSUME WriteAssignment(p) \/ EndTrip(p)
      PROVE  /\ call[p].asg \in Assignments
             /\ \A q \in Procs : /\ Finds(call[q]) => call[q].asg # call[p].asg
                                 /\ Answers(call[q]) => call[q].asg # call[p].asg
  <2>1. Writes(call[p]) /\ ~Locked(call[p].asg)
    BY <1>3 DEF WriteAssignment, EndTrip, Writes, Updating
  <2> QED
    BY <2>1, RowOf, UnlockedApart, WorkingOn DEF Writes, Working
<1>4. ASSUME NEW s \in AsgStatus \ {"none", "pending"}, SetAsg(call[p].asg, s), NEW c, Go(p, c), Fits(c, asg'),
             \A d : Apart(c, d), WriteAssignment(p) \/ EndTrip(p)
      PROVE  CallInv'
  <2>1. \A q \in Procs \ {p} : Fits(call[q], asg')
    BY <1>3, <1>4, RowsStay
  <2>2. status' = status /\ ended' = ended
    BY <1>4 DEF WriteAssignment, EndTrip
  <2> QED
    BY <1>0, <1>4, <2>1, <2>2, CallGoes
<1>5. CASE WriteAssignment(p)
  <2> DEFINE s == Written(call[p].to)
  <2>1. call[p] \in Call /\ call[p].at = "write" /\ call[p].to \in Updates
    BY <1>5, Kept DEF WriteAssignment, Sound, Updating, Call
  <2>2. /\ s \in AsgStatus \ {"none", "pending"}
        /\ call[p].to = "completed" => s = "completed"
    BY <2>1 DEF Written, Updates, AsgStatus, LiveStatuses
  <2>3. SetAsg(call[p].asg, s)
    BY <1>5 DEF WriteAssignment
  <2> HIDE DEF s
  <2>4. asg'[call[p].asg] = s
    BY <1>3, <1>5, <2>3, Kept DEF SetAsg
  <2>5. CASE Return(p)
    BY <1>0, <1>4, <1>5, <2>2, <2>3, <2>5, NeutralFits DEF Return
  <2>6. ASSUME NEW st, st = "start" \/ (st = "end" /\ call[p].to = "completed"), Step(p, st)
        PROVE  CallInv'
    <3> DEFINE c == [call[p] EXCEPT !.at = st]
    <3>1. c.at = st /\ c.asg = call[p].asg /\ c.to = call[p].to /\ Go(p, c)
      BY <2>1, <2>6 DEF Call, Step, Go
    <3> HIDE DEF c
    <3>2. ~Finds(c) /\ ~Answers(c)
      BY <2>6, <3>1 DEF Finds, Answers
    <3>3. \A d : Apart(c, d)
      BY <3>2 DEF Apart
    <3>4. Fits(c, asg')
      <4>1. asg'[c.asg] \notin {"none", "pending"}
        BY <2>2, <2>4, <3>1
      <4>2. c.at \in {"start", "end"} /\ (c.at = "end" => c.to = "completed")
        BY <2>6, <3>1
      <4> QED
        BY <3>2, <4>1, <4>2 DEF Fits
    <3> QED
      BY <1>4, <1>5, <2>2, <2>3, <3>1, <3>3, <3>4
  <2> QED
    BY <1>5, <2>5, <2>6 DEF WriteAssignment
<1>6. CASE EndTrip(p)
  <2>1. CASE Return(p) /\ UNCHANGED asg
    BY <1>0, <1>6, <2>1, CallGoesOn DEF EndTrip, Return
  <2>2. CASE SetAsg(call[p].asg, "completed") /\ Go(p, Doing("check", None, 0, "none"))
    <3>1. Neutral(Doing("check", None, 0, "none"))
      BY DEF Neutral, Doing, Finds, Answers, Ending, Updating
    <3> QED
      BY <1>4, <1>6, <2>2, <3>1, NeutralFits DEF AsgStatus, LiveStatuses
  <2> QED
    BY <1>6, <2>1, <2>2 DEF EndTrip
<1> QED
  BY <1>1, <1>2, <1>5, <1>6

LEMMA CallStep ==
  ASSUME TypeInv, CallInv, [Next]_vars
  PROVE  CallInv'
BY CallOn, CallBegins, CallWrites, CallUpdates, CallStays DEF Next, Continue

\* Counting.
LEMMA Sizes ==
  ASSUME NEW S, NEW T, IsFiniteSet(S), IsFiniteSet(T), NEW x
  PROVE  /\ Cardinality(S) \in Nat /\ Cardinality(T) \in Nat
         /\ S \subseteq T => Cardinality(S) <= Cardinality(T)
         /\ S \ {x} \subseteq T => Cardinality(S) <= Cardinality(T) + 1
         /\ S \union {x} \subseteq T /\ x \notin S => Cardinality(S) + 1 <= Cardinality(T)
<1>1. Cardinality(S) \in Nat /\ Cardinality(T) \in Nat
  BY FS_CardinalityType
<1>2. S \subseteq T => Cardinality(S) <= Cardinality(T)
  BY FS_Subset
<1>3. ASSUME S \ {x} \subseteq T
      PROVE  Cardinality(S) <= Cardinality(T) + 1
  <2>1. /\ IsFiniteSet(S \ {x})
        /\ Cardinality(S \ {x}) = IF x \in S THEN Cardinality(S) - 1 ELSE Cardinality(S)
    BY FS_RemoveElement
  <2>2. Cardinality(S \ {x}) <= Cardinality(T) /\ Cardinality(S \ {x}) \in Nat
    BY <1>3, <2>1, FS_Subset, FS_CardinalityType
  <2> QED
    BY <1>1, <2>1, <2>2
<1>4. ASSUME S \union {x} \subseteq T, x \notin S
      PROVE  Cardinality(S) + 1 <= Cardinality(T)
  <2>1. Cardinality(S \union {x}) = Cardinality(S) + 1
    BY <1>4, FS_AddElement
  <2> QED
    BY <1>4, <2>1, FS_Subset
<1> QED
  BY <1>1, <1>2, <1>3, <1>4

LEMMA Finite ==
  /\ IsFiniteSet(Held) /\ IsFiniteSet(GivingUp)
  /\ IsFiniteSet(Held') /\ IsFiniteSet(GivingUp')
<1>1. /\ Held \in SUBSET Assignments /\ GivingUp \in SUBSET Procs
      /\ Held' \in SUBSET Assignments /\ GivingUp' \in SUBSET Procs
  BY DEF Held, Backing, GivingUp
<1> QED
  BY <1>1, BookingAssumption, FS_Subset

\* The count stays covered when what covers it changes like this.
LEMMA CoverHolds ==
  ASSUME TypeInv, TypeInv', Covered, faults' = faults, ended' = ended, NEW x, NEW y,
         \/ /\ Held \subseteq Held' /\ GivingUp \subseteq GivingUp'
            /\ filled' <= filled /\ overwrites' = overwrites
         \/ /\ Held \union {x} \subseteq Held' /\ x \notin Held /\ GivingUp \subseteq GivingUp'
            /\ filled' <= filled + 1 /\ overwrites' = overwrites
         \/ /\ Held \ {x} \subseteq Held' /\ GivingUp \subseteq GivingUp'
            /\ filled' = OneLess(filled) /\ overwrites' = overwrites
         \/ /\ Held \subseteq Held' /\ GivingUp \ {y} \subseteq GivingUp'
            /\ filled' = OneLess(filled) /\ overwrites' = overwrites
         \/ /\ Held \ {x} \subseteq Held' /\ GivingUp \union {y} \subseteq GivingUp' /\ y \notin GivingUp
            /\ filled' <= filled /\ overwrites' = overwrites
         \/ /\ Held \ {x} \subseteq Held' /\ GivingUp \subseteq GivingUp'
            /\ filled' <= filled /\ overwrites' = overwrites + 1
  PROVE  Covered'
<1>1. filled \in Nat /\ filled' \in Nat /\ overwrites \in Nat /\ overwrites' \in Nat
  BY BookingAssumption DEF TypeInv, TypeOK
<1>2. PICK h, i : h = Cardinality(Held) /\ i = Cardinality(Held')
  OBVIOUS
<1>3. PICK g, k : g = Cardinality(GivingUp) /\ k = Cardinality(GivingUp')
  OBVIOUS
<1>4. /\ h \in Nat /\ i \in Nat
      /\ Held \subseteq Held' => h <= i
      /\ Held \ {x} \subseteq Held' => h <= i + 1
      /\ Held \union {x} \subseteq Held' /\ x \notin Held => h + 1 <= i
  BY <1>2, Finite, Sizes
<1>5. /\ g \in Nat /\ k \in Nat
      /\ GivingUp \subseteq GivingUp' => g <= k
      /\ GivingUp \ {y} \subseteq GivingUp' => g <= k + 1
      /\ GivingUp \union {y} \subseteq GivingUp' /\ y \notin GivingUp => g + 1 <= k
  BY <1>3, Finite, Sizes
<1>6. ASSUME filled <= h + g + overwrites
      PROVE  filled' <= i + k + overwrites'
  <2>1. CASE filled' <= filled /\ overwrites' = overwrites /\ h <= i /\ g <= k
    BY <1>1, <1>4, <1>5, <1>6, <2>1
  <2>2. CASE filled' <= filled + 1 /\ overwrites' = overwrites /\ h + 1 <= i /\ g <= k
    BY <1>1, <1>4, <1>5, <1>6, <2>2
  <2>3. CASE filled' = OneLess(filled) /\ overwrites' = overwrites /\ h <= i + 1 /\ g <= k
    BY <1>1, <1>4, <1>5, <1>6, <2>3 DEF OneLess
  <2>4. CASE filled' = OneLess(filled) /\ overwrites' = overwrites /\ h <= i /\ g <= k + 1
    BY <1>1, <1>4, <1>5, <1>6, <2>4 DEF OneLess
  <2>5. CASE filled' <= filled /\ overwrites' = overwrites /\ h <= i + 1 /\ g + 1 <= k
    BY <1>1, <1>4, <1>5, <1>6, <2>5
  <2>6. CASE filled' <= filled /\ overwrites' = overwrites + 1 /\ h <= i + 1 /\ g <= k
    BY <1>1, <1>4, <1>5, <1>6, <2>6
  <2> QED
    BY <1>4, <1>5, <2>1, <2>2, <2>3, <2>4, <2>5, <2>6
<1> QED
  BY <1>2, <1>3, <1>6 DEF Covered

Stands(s) == s \in LiveStatuses \union {"completed"}

\* What the call of p holds when it goes on as d, and only the row of x is lost or
\* counted down.
LEMMA KeepsHeld ==
  ASSUME TypeInv, NEW p \in Procs, NEW d, Go(p, d), NEW x,
         Spends(d) => (Spends(call[p]) /\ d.asg = call[p].asg) \/ d.asg = x,
         \A b \in Assignments : b # x /\ Stands(asg[b]) /\ ~Spent(b) => Stands(asg'[b])
  PROVE  Held \ {x} \subseteq Held'
<1>1. \A q \in Procs : call'[q] = IF q = p THEN d ELSE call[q]
  BY DEF Go, TypeInv, TypeOK
<1>2. SUFFICES ASSUME NEW b \in Held, b # x PROVE b \in Held'
  OBVIOUS
<1>3. b \in Assignments /\ Stands(asg[b]) /\ ~Spent(b)
  BY <1>2 DEF Held, Backing, Stands
<1>4. ~Spent(b)'
  <2>1. SUFFICES ASSUME NEW q \in Procs, call'[q].asg = b, Spends(call'[q])
                 PROVE  Spent(b)
    BY <1>3 DEF Spent, Spends
  <2>2. call[q].asg = b /\ Spends(call[q])
    BY <1>1, <1>2, <2>1
  <2> QED
    BY <2>2 DEF Spent
<1>5. Stands(asg'[b])
  BY <1>2, <1>3
<1> QED
  BY <1>3, <1>4, <1>5 DEF Held, Backing, Stands

\* The same when no row is.
LEMMA KeepsAllHeld ==
  ASSUME TypeInv, NEW p \in Procs, NEW d, Go(p, d),
         Spends(d) => Spends(call[p]) /\ d.asg = call[p].asg,
         \A b \in Assignments : Stands(asg[b]) /\ ~Spent(b) => Stands(asg'[b])
  PROVE  Held \subseteq Held'
<1>1. Held \ {None} \subseteq Held'
  BY KeepsHeld
<1>2. None \notin Held
  BY BookingAssumption DEF Held, Backing
<1> QED
  BY <1>1, <1>2

LEMMA KeepsGiving ==
  ASSUME TypeInv, NEW p \in Procs, NEW d, Go(p, d)
  PROVE  /\ GivingUp \ {p} \subseteq GivingUp'
         /\ (GivesUp(call[p]) => GivesUp(d)) => GivingUp \subseteq GivingUp'
         /\ GivesUp(d) => GivingUp \union {p} \subseteq GivingUp'
         /\ ~GivesUp(call[p]) => p \notin GivingUp
<1>1. \A q \in Procs : call'[q] = IF q = p THEN d ELSE call[q]
  BY DEF Go, TypeInv, TypeOK
<1>2. /\ \A q : q \in GivingUp <=> q \in Procs /\ GivesUp(call[q])
      /\ \A q : q \in GivingUp' <=> q \in Procs /\ GivesUp(call'[q])
  BY DEF GivingUp, GivesUp
<1> QED
  BY <1>1, <1>2

\* A call goes on and counts nothing.
LEMMA GoesUncounted ==
  ASSUME TypeInv, TypeInv', Covered, NEW p \in Procs, NEW d, Go(p, d),
         faults' = faults, overwrites' = overwrites, filled' = filled,
         ended' \/ ended' = ended,
         Spends(d) => Spends(call[p]) /\ d.asg = call[p].asg,
         GivesUp(call[p]) => GivesUp(d),
         \A b \in Assignments : Stands(asg[b]) /\ ~Spent(b) => Stands(asg'[b])
  PROVE  Covered'
<1>1. CASE ended'
  BY <1>1 DEF Covered
<1>2. CASE ended' = ended
  <2>1. Held \subseteq Held' /\ GivingUp \subseteq GivingUp'
    BY KeepsAllHeld, KeepsGiving
  <2>2. filled' <= filled
    BY BookingAssumption DEF TypeInv, TypeOK
  <2> QED
    BY <1>2, <2>1, <2>2, CoverHolds
<1> QED
  BY <1>1, <1>2

\* Nor does one that is past what it ends.
LEMMA PastUncounted ==
  ASSUME TypeInv, TypeInv', Covered, NEW p \in Procs, NEW d, Go(p, d), d.at \notin {"reopen", "commit"},
         call[p].at \notin {"free", "lower"},
         faults' = faults, overwrites' = overwrites, filled' = filled,
         ended' \/ ended' = ended,
         \A b \in Assignments : Stands(asg[b]) /\ ~Spent(b) => Stands(asg'[b])
  PROVE  Covered'
<1>1. ~Spends(d) /\ ~GivesUp(call[p])
  BY DEF Spends, GivesUp
<1> QED
  BY <1>1, GoesUncounted

\* A new assignment is counted.
LEMMA NewIsCounted ==
  ASSUME TypeInv, TypeInv', CallInv, Covered, NEW p \in Procs, Finds(call[p]), NEW d, Go(p, d), Neutral(d),
         SetAsg(call[p].asg, "pending"), faults' = faults, ended' = ended, overwrites' = overwrites,
         filled' <= filled + 1
  PROVE  Covered'
<1>0. PICK a \in Assignments : a = call[p].asg
  BY WorkingOn DEF Finds, Working
<1>1. asg[a] = "none"
  BY <1>0, RowOf
<1>2. \A q \in Procs : call[q].asg = a => ~Spends(call[q])
  BY <1>1, RowOf DEF LiveStatuses, Spends, Answers
<1>3. \A b \in Assignments : asg'[b] = IF b = a THEN "pending" ELSE asg[b]
  BY <1>0 DEF SetAsg, TypeInv, TypeOK
<1>4. ~Spends(d) /\ ~GivesUp(call[p])
  BY NeutralFits DEF Finds, GivesUp
<1>5. Held \subseteq Held' /\ GivingUp \subseteq GivingUp'
  BY <1>3, <1>4, KeepsAllHeld, KeepsGiving DEF Stands, LiveStatuses
<1>6. a \notin Held
  BY <1>1 DEF Held, Backing, LiveStatuses
<1>7. a \in Held'
  <2>1. \A q \in Procs : call'[q] = IF q = p THEN d ELSE call[q]
    BY DEF Go, TypeInv, TypeOK
  <2>2. \A q \in Procs : call'[q].asg = a => ~Spends(call'[q])
    BY <1>2, <1>4, <2>1
  <2>3. ~Spent(a)'
    BY <2>2 DEF Spent, Spends
  <2> QED
    BY <1>3, <2>3 DEF Held, Backing, LiveStatuses
<1> QED
  BY <1>5, <1>6, <1>7, CoverHolds

\* An acceptance or an assignment that finds the truck or the count changed.
LEMMA FindsCount ==
  ASSUME TypeInv, TypeInv', CallInv, Covered, NEW p \in Procs, AcceptCommit(p) \/ AssignCommit(p)
  PROVE  Covered'
<1>0. /\ faults' = faults /\ overwrites' = overwrites /\ Finds(call[p]) /\ Idle.at = "idle"
      /\ call[p].at \notin {"free", "lower"} /\ filled \in Nat
  BY BookingAssumption DEF AcceptCommit, AssignCommit, Finds, Idle, Doing, TypeInv, TypeOK
<1>1. CASE Return(p) /\ UNCHANGED <<filled, ended, asg>>
  BY <1>0, <1>1, PastUncounted DEF Return
<1>2. CASE AcceptCommit(p)
  <2>1. CASE /\ filled' = filled + 1 /\ SetAsg(call[p].asg, "pending")
             /\ SetStatus(IF filled + 1 >= Needed THEN "fully_filled" ELSE "partially_filled")
    <3>1. ended' = ended
      BY <2>1 DEF SetStatus, Closed, TypeInv, TypeOK
    <3>2. Go(p, Idle) /\ filled' <= filled + 1
      BY <1>0, <1>2, <2>1 DEF AcceptCommit, Return
    <3> QED
      BY <1>0, <2>1, <3>1, <3>2, IdleNeutral, NewIsCounted
  <2> QED
    BY <1>1, <1>2, <2>1 DEF AcceptCommit
<1>3. CASE AssignCommit(p)
  <2>1. CASE /\ SetAsg(call[p].asg, "pending") /\ Step(p, "schedule")
             /\ filled' = IF filled < Needed THEN filled + 1 ELSE filled
    <3> DEFINE d == [call[p] EXCEPT !.at = "schedule"]
    <3>1. Neutral(d) /\ Go(p, d)
      BY <2>1 DEF Neutral, Finds, Answers, Step, Go, TypeInv, TypeOK, Call, Ending, Updating
    <3>2. filled' <= filled + 1 /\ ended' = ended
      BY <1>0, <1>3, <2>1 DEF AssignCommit
    <3> HIDE DEF d
    <3> QED
      BY <1>0, <2>1, <3>1, <3>2, NewIsCounted
  <2> QED
    BY <1>1, <1>3, <2>1 DEF AssignCommit
<1> QED
  BY <1>2, <1>3

\* An answer, or the reconciliation, counts down what it takes away.
LEMMA LowerCounts ==
  ASSUME TypeInv, TypeInv', CallInv, Covered, NEW p \in Procs, Lower(p)
  PROVE  Covered'
<1> DEFINE a == call[p].asg
           d == Doing("reopen", a, OneLess(filled), call[p].to)
<1>1. CASE status \in Closed
  BY <1>1 DEF Lower, CallInv, Covered
<1>2. CASE status \notin Closed
  <2>1. /\ filled' = OneLess(filled) /\ Go(p, d) /\ UNCHANGED <<ended, asg, faults, overwrites>>
        /\ call[p].at = "lower"
    BY <1>2 DEF Lower
  <2>2. d.asg = a /\ d.at = "reopen" /\ d.to = call[p].to
    BY DEF Doing
  <2> HIDE DEF a, d
  <2>3. CASE call[p].to = "none"
    <3>1. ~Spends(d)
      BY <2>2, <2>3 DEF Spends
    <3>2. Held \subseteq Held'
      BY <2>1, <3>1, KeepsAllHeld
    <3>3. GivingUp \ {p} \subseteq GivingUp'
      BY <2>1, KeepsGiving
    <3> QED
      BY <2>1, <3>2, <3>3, CoverHolds
  <2>4. CASE call[p].to # "none"
    <3>1. ~GivesUp(call[p])
      BY <2>4 DEF GivesUp
    <3>2. Held \ {a} \subseteq Held' /\ GivingUp \subseteq GivingUp'
      BY <2>1, <2>2, <3>1, KeepsHeld, KeepsGiving
    <3> QED
      BY <2>1, <3>2, CoverHolds
  <2> QED
    BY <2>3, <2>4
<1> QED
  BY <1>1, <1>2

\* What an answer ends, it had counted down before.
LEMMA CommitCounts ==
  ASSUME TypeInv, TypeInv', CallInv, Covered, NEW p \in Procs, CommitAnswer(p)
  PROVE  Covered'
<1> DEFINE a == call[p].asg
<1>1. /\ Go(p, Idle) /\ SetAsg(a, call[p].to) /\ Idle.at = "idle"
      /\ UNCHANGED <<filled, ended, faults, overwrites>> /\ call[p].at = "commit"
  BY DEF CommitAnswer, Return, Idle, Doing
<1>2. call[p].to # "none" /\ Spent(a)
  BY <1>1 DEF CallInv, Fits, Spent, Spends
<1>3. \A b \in Assignments : asg'[b] = IF b = a THEN call[p].to ELSE asg[b]
  BY <1>1 DEF SetAsg, TypeInv, TypeOK
<1> HIDE DEF a
<1>4. \A b \in Assignments : Stands(asg[b]) /\ ~Spent(b) => Stands(asg'[b])
  BY <1>2, <1>3
<1> QED
  BY <1>1, <1>4, PastUncounted

\* A trip that is given up passes from the ones that stand to the ones given up.
LEMMA AbandonCounts ==
  ASSUME TypeInv, TypeInv', Covered, NEW p \in Procs, NEW a \in Assignments, Abandon(p, a)
  PROVE  Covered'
<1> DEFINE d == Doing("free", a, 0, "none")
<1>1. /\ d.at = "free" /\ d.asg = a /\ d.to = "none" /\ Go(p, d) /\ call[p].at = "idle"
      /\ UNCHANGED <<filled, ended, faults, overwrites>>
  BY DEF Doing, Abandon, Idle
<1> HIDE DEF d
<1>2. \A b \in Assignments : b # a => asg'[b] = asg[b]
  BY DEF Abandon, SetAsg, TypeInv, TypeOK
<1>3. ~Spends(d) /\ GivesUp(d) /\ ~GivesUp(call[p])
  BY <1>1 DEF Spends, GivesUp
<1>4. Held \ {a} \subseteq Held'
  BY <1>1, <1>2, <1>3, KeepsHeld
<1>5. GivingUp \union {p} \subseteq GivingUp' /\ p \notin GivingUp
  BY <1>1, <1>3, KeepsGiving
<1>6. filled' <= filled
  BY <1>1, BookingAssumption DEF TypeInv, TypeOK
<1> QED
  BY <1>1, <1>4, <1>5, <1>6, CoverHolds

\* A status update loses at most the place of what it writes.
LEMMA WriteCounts ==
  ASSUME TypeInv, TypeInv', CallInv, Covered, NEW p \in Procs, WriteAssignment(p)
  PROVE  Covered'
<1> DEFINE a == call[p].asg
           s == Written(call[p].to)
<1>1. /\ SetAsg(a, s) /\ UNCHANGED <<filled, ended, faults>> /\ call[p].at = "write"
      /\ overwrites' = IF Loses(a, s) THEN overwrites + 1 ELSE overwrites
      /\ filled \in Nat
  BY BookingAssumption DEF WriteAssignment, TypeInv, TypeOK
<1>2. PICK d : Go(p, d) /\ d.at \in {"idle", "start", "end"}
  <2>1. Idle.at = "idle" /\ \A st : [call[p] EXCEPT !.at = st].at = st
    BY DEF Idle, Doing, TypeInv, TypeOK, Call
  <2> QED
    BY <2>1 DEF WriteAssignment, Return, Step, Go
<1>3. ~Spends(d) /\ ~GivesUp(call[p])
  BY <1>1, <1>2 DEF Spends, GivesUp
<1> HIDE DEF a, s
<1>4. \A b \in Assignments : asg'[b] = IF b = a THEN s ELSE asg[b]
  BY <1>1 DEF SetAsg, TypeInv, TypeOK
<1>5. CASE Loses(a, s)
  <2>1. Held \ {a} \subseteq Held' /\ GivingUp \subseteq GivingUp'
    BY <1>2, <1>3, <1>4, KeepsHeld, KeepsGiving
  <2> QED
    BY <1>1, <1>5, <2>1, CoverHolds
<1>6. CASE ~Loses(a, s)
  <2>1. s \in AsgStatus \ {"none", "pending"}
    <3>1. call[p].to \in Updates
      BY <1>1, Kept DEF Sound, Updating, Call
    <3> QED
      BY <3>1 DEF s, Written, Updates, AsgStatus, LiveStatuses
  <2>2. asg[a] = s \/ Stands(s)
    BY <1>6, <2>1 DEF Loses, Stands, AsgStatus, LiveStatuses
  <2>3. \A b \in Assignments : Stands(asg[b]) => Stands(asg'[b])
    BY <1>4, <2>2
  <2> QED
    BY <1>1, <1>2, <1>6, <2>3, PastUncounted
<1> QED
  BY <1>5, <1>6

\* The other steps of a call.
LEMMA OthersCount ==
  ASSUME TypeInv, TypeInv', CallInv, Covered, NEW p \in Procs,
         \/ Schedule(p) \/ Reopen(p) \/ FreeAbandoned(p) \/ ExpireBegin(p)
         \/ (\E t \in Trucks : ReleaseVehicle(p, t)) \/ ExpireCommit(p)
         \/ CheckCompletion(p) \/ Complete(p) \/ StartBooking(p) \/ EndTrip(p)
         \/ \E a \in Assignments :
              \/ AcceptBegin(p, a) \/ AssignBegin(p, a) \/ TripEnds(p, a) \/ ReadAssignment(p, a)
              \/ \E to \in {"driver_declined", "cancelled"} : Answer(p, a, to)
  PROVE  Covered'
<1>0. /\ Fits(call[p], asg) /\ asg \in [Assignments -> AsgStatus] /\ call[p] \in Call
      /\ ended \in BOOLEAN /\ (status \in Closed => ended)
  BY DEF TypeInv, TypeOK, CallInv
<1>1. /\ filled' = filled /\ faults' = faults /\ overwrites' = overwrites
      /\ ended' \/ ended' = ended
  BY <1>0 DEF Schedule, Reopen, FreeAbandoned, ExpireBegin, ReleaseVehicle, ExpireCommit,
     CheckCompletion, Complete, StartBooking, EndTrip, AcceptBegin, AssignBegin, TripEnds,
     ReadAssignment, Answer, SetStatus
<1>2. /\ \A s, b, n, to : Doing(s, b, n, to).at = s
      /\ \A ts : Releasing(ts).at = "release"
      /\ Idle.at = "idle"
      /\ \A s : [call[p] EXCEPT !.at = s].at = s
  BY <1>0 DEF Doing, Releasing, Idle, Call
\* those that leave the assignments and go past
<1>3. CASE Schedule(p) \/ ExpireBegin(p) \/ ExpireCommit(p) \/ Complete(p)
             \/ (\E t \in Trucks : ReleaseVehicle(p, t)) \/ CheckCompletion(p)
             \/ \E a \in Assignments :
                  \/ AcceptBegin(p, a) \/ AssignBegin(p, a) \/ ReadAssignment(p, a)
                  \/ \E to \in {"driver_declined", "cancelled"} : Answer(p, a, to)
  <2>1. /\ asg' = asg /\ call[p].at \notin {"free", "lower"}
    BY <1>2, <1>3 DEF Schedule, ExpireBegin, ExpireCommit, Complete, ReleaseVehicle, CheckCompletion,
       AcceptBegin, AssignBegin, ReadAssignment, Answer
  <2>2. \E d : Go(p, d) /\ d.at \notin {"reopen", "commit"}
    <3>1. CASE Return(p)
      BY <1>2, <3>1 DEF Return
    <3>2. CASE CheckCompletion(p)
      <4>1. CASE Step(p, "complete")
        <5>1. Go(p, [call[p] EXCEPT !.at = "complete"])
          BY <4>1 DEF Step, Go
        <5>2. [call[p] EXCEPT !.at = "complete"].at = "complete"
          BY <1>2
        <5> QED
          BY <5>1, <5>2
      <4> QED
        BY <3>1, <3>2, <4>1 DEF CheckCompletion
    <3>3. CASE \E t \in Trucks : ReleaseVehicle(p, t)
      BY <1>2, <3>3 DEF ReleaseVehicle
    <3>4. CASE ExpireBegin(p) \/ \E a \in Assignments :
                  \/ AcceptBegin(p, a) \/ AssignBegin(p, a) \/ ReadAssignment(p, a)
                  \/ \E to \in {"driver_declined", "cancelled"} : Answer(p, a, to)
      BY <1>2, <3>4 DEF ExpireBegin, AcceptBegin, AssignBegin, ReadAssignment, Answer
    <3> QED
      BY <1>3, <3>1, <3>2, <3>3, <3>4 DEF Schedule, ExpireCommit, Complete
  <2> QED
    BY <1>1, <2>1, <2>2, PastUncounted
<1>4. CASE Reopen(p)
  <2> DEFINE c == [call[p] EXCEPT !.at = "commit"]
  <2>1. c.at = "commit" /\ c.asg = call[p].asg /\ c.to = call[p].to
    BY <1>0 DEF Call
  <2>2. asg' = asg /\ call[p].at = "reopen"
    BY <1>4 DEF Reopen
  <2>3. CASE Go(p, c)
    <3> HIDE DEF c
    <3> QED
      BY <1>1, <2>1, <2>2, <2>3, GoesUncounted DEF Spends, GivesUp
  <2>4. CASE Go(p, Idle)
    BY <1>1, <1>2, <2>2, <2>4, PastUncounted
  <2> QED
    BY <1>4, <2>3, <2>4 DEF Reopen, AfterReopen, Return, Step, Go
<1>5. CASE FreeAbandoned(p)
  <2> DEFINE c == [call[p] EXCEPT !.at = "lower"]
  <2>1. c.at = "lower" /\ c.asg = call[p].asg /\ c.to = call[p].to
    BY <1>0 DEF Call
  <2>2. asg' = asg /\ ended' = ended
    BY <1>5 DEF FreeAbandoned
  <2>3. CASE Go(p, c)
    <3> HIDE DEF c
    <3> QED
      BY <1>1, <2>1, <2>2, <2>3, GoesUncounted DEF Spends, GivesUp
  <2>4. CASE status \in {"cancelled", "completed"}
    BY <1>0, <2>2, <2>4 DEF Closed, Covered
  <2> QED
    BY <1>5, <2>3, <2>4 DEF FreeAbandoned, Step, Go
<1>6. CASE EndTrip(p) \/ \E a \in Assignments : TripEnds(p, a)
  <2>1. call[p].at \notin {"free", "lower"} /\ \E d : Go(p, d) /\ d.at \in {"idle", "check"}
    BY <1>2, <1>6 DEF EndTrip, TripEnds, Return
  <2>2. \A b \in Assignments : asg'[b] = asg[b] \/ asg'[b] = "completed"
    BY <1>0, <1>6 DEF EndTrip, TripEnds, SetAsg
  <2> QED
    BY <1>1, <2>1, <2>2, PastUncounted DEF Stands
<1>7. CASE StartBooking(p)
  <2>1. asg' = asg /\ call[p].at \notin {"free", "lower"}
    BY <1>7 DEF StartBooking
  <2>2. CASE Return(p)
    BY <1>1, <1>2, <2>1, <2>2, PastUncounted DEF Return
  <2>3. CASE call' = call
    <3>1. Go(p, call[p])
      BY <2>3 DEF Go, TypeInv, TypeOK
    <3> QED
      BY <1>1, <2>1, <3>1, GoesUncounted
  <2> QED
    BY <1>7, <2>2, <2>3 DEF StartBooking
<1> QED
  BY <1>3, <1>4, <1>5, <1>6, <1>7

LEMMA CountStep ==
  ASSUME TypeInv, TypeInv', CallInv, Covered, [Next]_vars
  PROVE  Covered'
<1>0. faults \in Nat /\ filled \in Nat
  BY BookingAssumption DEF TypeInv, TypeOK
<1>1. ASSUME faults' = faults + 1
      PROVE  Covered'
  BY <1>0, <1>1 DEF Covered
<1>2. ASSUME UNCHANGED <<call, faults, ended, filled, overwrites>>,
             \A a \in Assignments : Stands(asg[a]) => Stands(asg'[a])
      PROVE  Covered'
  <2>1. Held \subseteq Held' /\ GivingUp \subseteq GivingUp'
    BY <1>2 DEF Held, Backing, Spent, GivingUp, Spends, Stands
  <2> QED
    BY <1>0, <1>2, <2>1, CoverHolds
<1>3. CASE Tick \/ (UNCHANGED vars) \/ \E t \in Trucks : FreeOrphan(t)
  BY <1>2, <1>3 DEF Tick, vars, FreeOrphan
<1>4. CASE \E a \in Assignments : DriverAccepts(a)
  <2>1. \A b \in Assignments : asg'[b] = asg[b] \/ asg'[b] = "driver_accepted"
    BY <1>4 DEF DriverAccepts, SetAsg, TypeInv, TypeOK
  <2> QED
    BY <1>2, <1>4, <2>1 DEF DriverAccepts, Stands, LiveStatuses
<1>5. CASE \E p \in Procs : CancelBooking(p)
  BY <1>5 DEF CancelBooking, SetStatus, Closed, Covered
<1>6. CASE \E p \in Procs : ScheduleFails(p) \/ Crash(p)
  BY <1>1, <1>6 DEF ScheduleFails, Crash
<1>7. CASE \E p \in Procs : \/ AcceptCommit(p) \/ AssignCommit(p) \/ Lower(p) \/ CommitAnswer(p)
                            \/ WriteAssignment(p) \/ \E a \in Assignments : Abandon(p, a)
  BY <1>7, FindsCount, LowerCounts, CommitCounts, WriteCounts, AbandonCounts
<1>8. ASSUME NEW p \in Procs,
             \/ Schedule(p) \/ Reopen(p) \/ FreeAbandoned(p) \/ ExpireBegin(p)
             \/ (\E t \in Trucks : ReleaseVehicle(p, t)) \/ ExpireCommit(p)
             \/ CheckCompletion(p) \/ Complete(p) \/ StartBooking(p) \/ EndTrip(p)
             \/ \E a \in Assignments :
                  \/ AcceptBegin(p, a) \/ AssignBegin(p, a) \/ TripEnds(p, a) \/ ReadAssignment(p, a)
                  \/ \E to \in {"driver_declined", "cancelled"} : Answer(p, a, to)
      PROVE  Covered'
  BY <1>8, OthersCount
<1> QED
  BY <1>3, <1>4, <1>5, <1>6, <1>7, <1>8 DEF Next, Continue

\* While nothing fails and the booking has not been closed, a place taken has an
\* assignment that stands, or one the reconciliation is counting down, except one
\* place for each status update that has ended or revived an assignment.
THEOREM FilledBacked == Spec => []FilledIsBacked
<1>1. Init => BackedInv
  <2>1. Init => Covered
    <3> SUFFICES ASSUME Init PROVE 0 <= Cardinality(Held) + Cardinality(GivingUp) + 0
      BY DEF Init, Covered
    <3> QED
      BY Finite, FS_CardinalityType
  <2> QED
    BY <2>1, CallInit DEF BackedInv
<1>2. TypeInv /\ TypeInv' /\ BackedInv /\ [Next]_vars => BackedInv'
  <2> SUFFICES ASSUME TypeInv, TypeInv', BackedInv, [Next]_vars PROVE BackedInv'
    OBVIOUS
  <2>1. CallInv /\ Covered
    BY DEF BackedInv
  <2>2. CallInv' /\ Covered'
    BY <2>1, CallStep, CountStep
  <2> QED
    BY <2>2 DEF BackedInv
<1>3. TypeInv /\ BackedInv => FilledIsBacked
  <2> SUFFICES ASSUME TypeInv, BackedInv, faults = 0, ~ended
               PROVE  filled <= Cardinality(Backing) + Cardinality(GivingUp) + overwrites
    BY DEF FilledIsBacked
  <2>1. /\ filled <= Cardinality(Held) + Cardinality(GivingUp) + overwrites
        /\ filled \in Nat /\ overwrites \in Nat
    BY BookingAssumption DEF BackedInv, Covered, TypeInv, TypeOK
  <2>2. IsFiniteSet(Backing) /\ Held \subseteq Backing
    <3>1. Backing \in SUBSET Assignments
      BY DEF Backing
    <3> QED
      BY <3>1, BookingAssumption, FS_Subset DEF Held
  <2>3. /\ Cardinality(Held) \in Nat /\ Cardinality(Backing) \in Nat /\ Cardinality(GivingUp) \in Nat
        /\ Cardinality(Held) <= Cardinality(Backing)
    BY <2>2, Finite, FS_CardinalityType, FS_Subset
  <2> QED
    BY <2>1, <2>3
<1>4. Spec => []TypeInv
  BY TypeInit, TypeNext, PTL DEF Spec
<1> QED
  BY <1>1, <1>2, <1>3, <1>4, PTL DEF Spec

-----------------------------------------------------------------------------
(* The places of BookingPlaces                                               *)

\* The contract promises something of the count while nothing has disturbed it:
\* no fault, and no status update by id that ended or revived an assignment.
\* Then who gives up a place has cancelled the assignment, and does it alone.
GivenUpOnce ==
  /\ \A q \in Procs : GivesUp(call[q]) => asg[call[q].asg] = "cancelled"
  /\ \A q, r \in Procs : q # r /\ GivesUp(call[q]) /\ GivesUp(call[r]) => call[q].asg # call[r].asg
Quiet == faults = 0 /\ faults' = 0 /\ overwrites = 0 /\ overwrites' = 0 /\ GivenUpOnce

\* What a step of the contract looks like here, kind by kind.
LEMMA TakeIs ==
  ASSUME Quiet, NEW a \in Assignments, asg[a] = "none", SetAsg(a, "pending"),
         Counted' = Counted \union {a}, ended' = ended,
         filled' = IF filled < Needed THEN filled + 1 ELSE filled
  PROVE  Places!Undisturbed
<1>1. Places!Take(a)
  BY DEF Places!Take, Places!Becomes, Places!May, SetAsg
<1> QED
  BY <1>1 DEF Places!Undisturbed, Quiet

LEMMA AnsweredIs ==
  ASSUME Quiet, NEW a \in Assignments, NEW s, SetAsg(a, s),
         \/ asg[a] = "pending" /\ s = "driver_accepted"
         \/ asg[a] = "driver_accepted" /\ s \in {"completed", "cancelled"}
         \/ asg[a] = "pending" /\ s \in {"driver_declined", "cancelled"} /\ a \notin Counted,
         Counted' = Counted, filled' = filled, ended' = ended
  PROVE  Places!Undisturbed
<1>1. Places!Becomes(a, s)
  BY DEF Places!Becomes, Places!May, SetAsg
<1>2. Places!Answered(a)
  BY <1>1 DEF Places!Answered
<1> QED
  BY <1>2 DEF Places!Undisturbed, Quiet

LEMMA GiveBackIs ==
  ASSUME Quiet, NEW a \in Assignments, a \in Counted, asg[a] # "completed",
         Counted' = Counted \ {a}, filled' = OneLess(filled), asg' = asg, ended' = ended
  PROVE  Places!Undisturbed
<1>1. Places!GiveBack(a)
  BY DEF Places!GiveBack, OneLess
<1> QED
  BY <1>1 DEF Places!Undisturbed, Quiet

LEMMA ForfeitIs ==
  ASSUME Quiet, NEW a \in Assignments, ended, ended' = ended,
         Counted' = Counted \ {a}, filled' = filled, asg' = asg
  PROVE  Places!Undisturbed
<1>1. Places!Forfeit(a)
  BY DEF Places!Forfeit
<1> QED
  BY <1>1 DEF Places!Undisturbed, Quiet

\* The booking is closed by the step, or the step is none of the contract's.
LEMMA CloseIs ==
  ASSUME TypeInv, Quiet, ended' \/ ended' = ended,
         Counted' = Counted, filled' = filled, asg' = asg
  PROVE  Places!Undisturbed \/ UNCHANGED <<asg, Counted, filled, ended, faults > 0, overwrites>>
<1>1. CASE ended'
  BY <1>1 DEF Places!Undisturbed, Places!Close, Quiet
<1>2. CASE ended' = ended
  BY <1>2 DEF Quiet
<1> QED
  BY <1>1, <1>2

\* Who has or gives up a place, when the call of p goes on as d.
OthersSpend(p, a) == \E q \in Procs \ {p} : call[q].asg = a /\ Spends(call[q])
OthersGiveUp(p, a) == \E q \in Procs \ {p} : call[q].asg = a /\ GivesUp(call[q])

LEMMA CountOf ==
  ASSUME TypeInv, NEW p \in Procs, NEW d, Go(p, d), NEW a
  PROVE  /\ Spent(a) <=> (call[p].asg = a /\ Spends(call[p])) \/ OthersSpend(p, a)
         /\ GivenUp(a) <=> (call[p].asg = a /\ GivesUp(call[p])) \/ OthersGiveUp(p, a)
         /\ Spent(a)' <=> (d.asg = a /\ Spends(d)) \/ OthersSpend(p, a)
         /\ GivenUp(a)' <=> (d.asg = a /\ GivesUp(d)) \/ OthersGiveUp(p, a)
<1>1. call'[p] = d /\ \A q \in Procs \ {p} : call'[q] = call[q]
  BY DEF Go, TypeInv, TypeOK
<1>2. Spent(a) <=> (call[p].asg = a /\ Spends(call[p])) \/ OthersSpend(p, a)
  BY DEF Spent, OthersSpend
<1>3. GivenUp(a) <=> (call[p].asg = a /\ GivesUp(call[p])) \/ OthersGiveUp(p, a)
  BY DEF GivenUp, OthersGiveUp
<1>4. Spent(a)' <=> (d.asg = a /\ Spends(d)) \/ OthersSpend(p, a)
  BY <1>1 DEF Spent, OthersSpend, Spends
<1>5. GivenUp(a)' <=> (d.asg = a /\ GivesUp(d)) \/ OthersGiveUp(p, a)
  BY <1>1 DEF GivenUp, OthersGiveUp, GivesUp
<1> QED
  BY <1>2, <1>3, <1>4, <1>5

\* Which assignments other calls answer or give up: neither one that p makes or
\* answers, nor one that p gives up.
LEMMA OthersAre ==
  ASSUME CallInv, GivenUpOnce, NEW p \in Procs, NEW a
  PROVE  /\ OthersSpend(p, a) => asg[a] \in LiveStatuses /\ Locked(a)
         /\ OthersGiveUp(p, a) => asg[a] = "cancelled"
         /\ call[p].asg = a /\ Answers(call[p]) => ~OthersSpend(p, a)
         /\ call[p].asg = a /\ GivesUp(call[p]) => ~OthersGiveUp(p, a)
<1>1. \A q \in Procs : Spends(call[q]) => Answers(call[q])
  BY DEF Spends, Answers
<1>2. OthersSpend(p, a) => asg[a] \in LiveStatuses /\ Locked(a)
  BY <1>1, RowOf DEF OthersSpend, Locked, Spends
<1>3. OthersGiveUp(p, a) => asg[a] = "cancelled"
  BY DEF OthersGiveUp, GivenUpOnce
<1>4. call[p].asg = a /\ Answers(call[p]) => ~OthersSpend(p, a)
  BY <1>1 DEF OthersSpend, CallInv, Apart
<1>5. call[p].asg = a /\ GivesUp(call[p]) => ~OthersGiveUp(p, a)
  BY DEF OthersGiveUp, GivenUpOnce
<1> QED
  BY <1>2, <1>3, <1>4, <1>5

LEMMA CountedAt ==
  ASSUME NEW a \in Assignments
  PROVE  /\ a \in Counted <=> (Stands(asg[a]) /\ ~Spent(a)) \/ GivenUp(a)
         /\ a \in Counted' <=> (Stands(asg'[a]) /\ ~Spent(a)') \/ GivenUp(a)'
BY DEF Counted, Backing, Stands

\* A call that goes on and counts what it counted, while no assignment is written
\* or one is that stands before and after.
LEMMA SameCount ==
  ASSUME TypeInv, NEW p \in Procs, NEW d, Go(p, d),
         Spends(d) <=> Spends(call[p]), GivesUp(d) <=> GivesUp(call[p]),
         Spends(d) \/ GivesUp(d) => d.asg = call[p].asg,
         \A a \in Assignments : Stands(asg'[a]) <=> Stands(asg[a])
  PROVE  Counted' = Counted
<1>1. ASSUME NEW a \in Assignments
      PROVE  a \in Counted' <=> a \in Counted
  BY <1>1, CountOf, CountedAt
<1>2. Counted \subseteq Assignments /\ Counted' \subseteq Assignments
  BY DEF Counted
<1> QED
  BY <1>1, <1>2

\* The same when no call goes on.
LEMMA SameCalls ==
  ASSUME TypeInv, call' = call, \A a \in Assignments : Stands(asg'[a]) <=> Stands(asg[a])
  PROVE  Counted' = Counted
<1>1. ASSUME NEW a \in Assignments
      PROVE  a \in Counted' <=> a \in Counted
  BY <1>1, CountedAt DEF Spent, GivenUp, Spends, GivesUp
<1>2. Counted \subseteq Assignments /\ Counted' \subseteq Assignments
  BY DEF Counted
<1> QED
  BY <1>1, <1>2

\* A new assignment takes a place.
LEMMA NewTakes ==
  ASSUME TypeInv, CallInv, NEW p \in Procs, Finds(call[p]), NEW d, Go(p, d), Neutral(d),
         SetAsg(call[p].asg, "pending"), Quiet, ended' = ended,
         filled' = IF filled < Needed THEN filled + 1 ELSE filled
  PROVE  Places!Undisturbed
<1>0. PICK a \in Assignments : a = call[p].asg
  BY WorkingOn DEF Finds, Working
<1>1. asg[a] = "none" /\ ~Spends(call[p]) /\ ~GivesUp(call[p]) /\ ~Spends(d) /\ ~GivesUp(d)
  BY <1>0, RowOf, NeutralFits DEF Finds, Spends, GivesUp
<1>2. \A b \in Assignments : asg'[b] = IF b = a THEN "pending" ELSE asg[b]
  BY <1>0 DEF SetAsg, TypeInv, TypeOK
<1>3. ASSUME NEW b \in Assignments, b # a
      PROVE  b \in Counted' <=> b \in Counted
  BY <1>1, <1>2, <1>3, CountOf, CountedAt
<1>4. a \in Counted'
  <2>1. ~Spent(a)'
    BY <1>0, <1>1, CountOf, OthersAre DEF LiveStatuses, Quiet
  <2>2. Stands(asg'[a])
    BY <1>2 DEF Stands, LiveStatuses
  <2> QED
    BY <2>1, <2>2, CountedAt
<1>5. Counted' = Counted \union {a}
  <2>1. Counted \subseteq Assignments /\ Counted' \subseteq Assignments
    BY DEF Counted
  <2> QED
    BY <1>3, <1>4, <2>1
<1> QED
  BY <1>0, <1>1, <1>5, TakeIs

\* An answer, or the reconciliation, counts one place down.
LEMMA LowerGivesBack ==
  ASSUME TypeInv, CallInv, NEW p \in Procs, Lower(p), Quiet
  PROVE  Places!Undisturbed \/ UNCHANGED <<asg, Counted, filled, ended, faults > 0, overwrites>>
<1>0. PICK a \in Assignments : a = call[p].asg
  BY WorkingOn DEF Lower, Working, Ending
<1>1. /\ call[p].at = "lower" /\ ~Spends(call[p])
      /\ UNCHANGED <<status, ended, asg, overwrites>> /\ (faults > 0)' = (faults > 0)
  BY DEF Lower, Spends
<1>2. Answers(call[p]) <=> ~GivesUp(call[p])
  BY <1>1 DEF Answers, GivesUp
<1>3. ASSUME Answers(call[p])
      PROVE  /\ Stands(asg[a]) /\ asg[a] # "completed"
             /\ ~OthersSpend(p, a) /\ ~OthersGiveUp(p, a)
  BY <1>0, <1>3, RowOf, OthersAre DEF Stands, LiveStatuses, Quiet
<1>4. ASSUME GivesUp(call[p])
      PROVE  ~Stands(asg[a]) /\ asg[a] # "completed" /\ ~OthersGiveUp(p, a)
  BY <1>0, <1>4, OthersAre DEF Stands, LiveStatuses, Quiet, GivenUpOnce
<1>5. \A b \in Assignments : Stands(asg'[b]) <=> Stands(asg[b])
  BY <1>1
<1>6. Counted \subseteq Assignments /\ Counted' \subseteq Assignments
  BY DEF Counted
\* once p is past it, a has no place, and the others keep theirs
<1>7. ASSUME NEW d, Go(p, d), Spends(d) => d.asg = a, ~GivesUp(d),
             Answers(call[p]) => Spends(d) /\ d.asg = a
      PROVE  Counted' = Counted \ {a}
  <2>1. ASSUME NEW b \in Assignments, b # a
        PROVE  b \in Counted' <=> b \in Counted
    <3>1. /\ Spent(b)' <=> Spent(b)
          /\ GivenUp(b)' <=> GivenUp(b)
      BY <1>0, <1>1, <1>7, <2>1, CountOf
    <3> QED
      BY <1>5, <3>1, CountedAt
  <2>2. a \notin Counted'
    <3>1. CASE Answers(call[p])
      BY <1>0, <1>3, <1>7, <3>1, CountOf, CountedAt
    <3>2. CASE GivesUp(call[p])
      BY <1>0, <1>4, <1>5, <1>7, <3>2, CountOf, CountedAt
    <3> QED
      BY <1>2, <3>1, <3>2
  <2> QED
    BY <1>6, <2>1, <2>2
<1>8. CASE status \notin Closed
  <2> DEFINE d == Doing("reopen", call[p].asg, OneLess(filled), call[p].to)
  <2>1. filled' = OneLess(filled) /\ Go(p, d)
    BY <1>8 DEF Lower
  <2>2. d.at = "reopen" /\ d.asg = a /\ d.to = call[p].to
    BY <1>0 DEF Doing
  <2> HIDE DEF d
  <2>3. Counted' = Counted \ {a}
    BY <1>7, <2>1, <2>2 DEF Spends, GivesUp, Answers
  <2>4. a \in Counted /\ asg[a] # "completed"
    <3>1. CASE Answers(call[p])
      BY <1>0, <1>1, <1>3, <2>1, <3>1, CountOf, CountedAt
    <3>2. CASE GivesUp(call[p])
      BY <1>0, <1>4, <2>1, <3>2, CountOf, CountedAt
    <3> QED
      BY <1>2, <3>1, <3>2
  <2> QED
    BY <1>1, <2>1, <2>3, <2>4, GiveBackIs
<1>9. CASE status \in Closed
  <2>1. Return(p) /\ filled' = filled /\ ended
    BY <1>9 DEF Lower, CallInv
  <2>2. Go(p, Idle) /\ ~Spends(Idle) /\ ~GivesUp(Idle)
    BY <2>1, IdleNeutral, NeutralFits DEF Return
  <2>3. CASE GivesUp(call[p])
    <3>1. Counted' = Counted \ {a}
      BY <1>2, <1>7, <2>2, <2>3
    <3> QED
      BY <1>1, <2>1, <3>1, ForfeitIs
  <2>4. CASE ~GivesUp(call[p])
    <3>1. Counted' = Counted
      BY <1>1, <1>5, <2>2, <2>4, SameCount
    <3> QED
      BY <1>1, <2>1, <3>1
  <2> QED
    BY <2>3, <2>4
<1> QED
  BY <1>8, <1>9

\* An answer that commits had taken the place away before.
LEMMA CommitIsAnswered ==
  ASSUME TypeInv, CallInv, NEW p \in Procs, CommitAnswer(p), Quiet
  PROVE  Places!Undisturbed
<1>0. PICK a \in Assignments : a = call[p].asg
  BY WorkingOn DEF CommitAnswer, Working, Ending
<1>1. /\ Go(p, Idle) /\ SetAsg(a, call[p].to) /\ UNCHANGED <<filled, ended>>
      /\ ~Spends(Idle) /\ ~GivesUp(Idle)
  BY <1>0, IdleNeutral, NeutralFits DEF CommitAnswer, Return
<1>2. /\ call[p].at = "commit" /\ Answers(call[p]) /\ Spends(call[p]) /\ ~GivesUp(call[p])
      /\ asg[a] \in Answerable(call[p].to)
  BY <1>0 DEF CommitAnswer, CallInv, Fits, Answers, Spends, GivesUp
<1>3. call[p].to \in {"driver_declined", "cancelled"}
  BY <1>2 DEF Answers, TypeInv, Sound, Ending
<1>4. \A b \in Assignments : asg'[b] = IF b = a THEN call[p].to ELSE asg[b]
  BY <1>1 DEF SetAsg, TypeInv, TypeOK
<1>5. asg[a] \in LiveStatuses /\ ~OthersGiveUp(p, a)
  BY <1>0, <1>2, RowOf, OthersAre DEF LiveStatuses, Quiet
<1>6. ASSUME NEW b \in Assignments, b # a
      PROVE  b \in Counted' <=> b \in Counted
  BY <1>0, <1>1, <1>4, <1>6, CountOf, CountedAt
<1>7. a \notin Counted
  BY <1>0, <1>1, <1>2, <1>5, CountOf, CountedAt
<1>8. a \notin Counted'
  <2>1. ~Stands(asg'[a])
    BY <1>3, <1>4 DEF Stands, LiveStatuses
  <2> QED
    BY <1>1, <1>5, <2>1, CountOf, CountedAt
<1>9. Counted' = Counted
  <2>1. Counted \subseteq Assignments /\ Counted' \subseteq Assignments
    BY DEF Counted
  <2> QED
    BY <1>6, <1>7, <1>8, <2>1
<1>10. \/ asg[a] = "driver_accepted" /\ call[p].to = "cancelled"
       \/ asg[a] = "pending"
  BY <1>2, <1>3 DEF Answerable, LiveStatuses
<1> QED
  BY <1>1, <1>3, <1>7, <1>9, <1>10, AnsweredIs

\* The reconciliation gives an accepted trip up: it keeps its place until it is
\* counted down.
LEMMA AbandonIsAnswered ==
  ASSUME TypeInv, CallInv, NEW p \in Procs, NEW a \in Assignments, Abandon(p, a),
         Quiet
  PROVE  Places!Undisturbed
<1> DEFINE d == Doing("free", a, 0, "none")
<1>1. d.at = "free" /\ d.asg = a /\ d.to = "none" /\ Go(p, d)
  BY DEF Doing, Abandon
<1> HIDE DEF d
<1>2. /\ asg[a] = "driver_accepted" /\ ~Locked(a) /\ SetAsg(a, "cancelled")
      /\ filled' = filled /\ ended' = ended /\ call[p] = Idle
  BY DEF Abandon
<1>3. ~Spends(d) /\ GivesUp(d) /\ ~Spends(call[p]) /\ ~GivesUp(call[p])
  BY <1>1, <1>2, IdleNeutral, NeutralFits DEF Spends, GivesUp
<1>4. \A b \in Assignments : asg'[b] = IF b = a THEN "cancelled" ELSE asg[b]
  BY <1>2 DEF SetAsg, TypeInv, TypeOK
<1>5. ASSUME NEW b \in Assignments, b # a
      PROVE  b \in Counted' <=> b \in Counted
  BY <1>1, <1>3, <1>4, <1>5, CountOf, CountedAt
<1>6. a \in Counted
  <2>1. ~OthersSpend(p, a) /\ Stands(asg[a])
    BY <1>2, OthersAre DEF Stands, LiveStatuses, Quiet
  <2> QED
    BY <1>1, <1>3, <2>1, CountOf, CountedAt
<1>7. a \in Counted'
  BY <1>1, <1>3, CountOf, CountedAt
<1>8. Counted' = Counted
  <2>1. Counted \subseteq Assignments /\ Counted' \subseteq Assignments
    BY DEF Counted
  <2> QED
    BY <1>5, <1>6, <1>7, <2>1
<1> QED
  BY <1>2, <1>8, AnsweredIs

\* Accepting, and the ends of a trip.
LEMMA TripIsAnswered ==
  ASSUME TypeInv, NEW a \in Assignments, Quiet,
         DriverAccepts(a) \/ \E p \in Procs : TripEnds(p, a)
  PROVE  Places!Undisturbed
<1>1. PICK s : /\ \/ asg[a] = "pending" /\ s = "driver_accepted"
                  \/ asg[a] = "driver_accepted" /\ s = "completed"
               /\ SetAsg(a, s)
  BY DEF DriverAccepts, TripEnds
<1>2. filled' = filled /\ ended' = ended
  BY DEF DriverAccepts, TripEnds
<1>3. \A b \in Assignments : Stands(asg'[b]) <=> Stands(asg[b])
  <2>1. \A b \in Assignments : asg'[b] = IF b = a THEN s ELSE asg[b]
    BY <1>1 DEF SetAsg, TypeInv, TypeOK
  <2> QED
    BY <1>1, <2>1 DEF Stands, LiveStatuses
<1>4. Counted' = Counted
  <2>1. CASE DriverAccepts(a)
    BY <1>3, <2>1, SameCalls DEF DriverAccepts
  <2>2. CASE \E p \in Procs : TripEnds(p, a)
    <3>1. PICK p \in Procs : TripEnds(p, a)
      BY <2>2
    <3> DEFINE d == Doing("check", None, 0, "none")
    <3>2. d.at = "check" /\ Go(p, d) /\ call[p] = Idle
      BY <3>1 DEF Doing, TripEnds
    <3> HIDE DEF d
    <3>3. ~Spends(d) /\ ~GivesUp(d) /\ ~Spends(call[p]) /\ ~GivesUp(call[p])
      BY <3>2, IdleNeutral, NeutralFits DEF Spends, GivesUp
    <3> QED
      BY <1>3, <3>2, <3>3, SameCount
  <2> QED
    BY <2>1, <2>2
<1> QED
  BY <1>1, <1>2, <1>4, AnsweredIs

\* A status update by id that loses nothing accepts, delivers, or changes nothing.
UpdateEnd(p) == WriteAssignment(p) \/ EndTrip(p)

LEMMA UpdateIs ==
  ASSUME TypeInv, CallInv, NEW p \in Procs, UpdateEnd(p), overwrites' = overwrites
  PROVE  \/ asg' = asg
         \/ \E a \in Assignments : \E s :
              /\ \/ asg[a] = "pending" /\ s = "driver_accepted"
                 \/ asg[a] = "driver_accepted" /\ s = "completed"
              /\ SetAsg(a, s)
<1>0. PICK a \in Assignments : a = call[p].asg
  BY WorkingOn DEF UpdateEnd, WriteAssignment, EndTrip, Working, Updating
<1>1. /\ asg[a] \in AsgStatus /\ asg[a] # "none" /\ overwrites \in Nat
      /\ call[p].to = "completed" => asg[a] # "pending"
      /\ call[p].to \in Updates
  BY <1>0, Kept DEF UpdateEnd, WriteAssignment, EndTrip, CallInv, Fits, Writes, Updating,
     TypeInv, TypeOK, Sound, Call
<1>2. CASE WriteAssignment(p)
  <2> DEFINE s == Written(call[p].to)
  <2>1. SetAsg(a, s) /\ s \in Updates \ {"in_transit"}
    BY <1>0, <1>1, <1>2 DEF WriteAssignment, Written, Updates
  <2>2. ~Loses(a, s)
    BY <1>0, <1>1, <1>2 DEF WriteAssignment
  <2>3. s = "completed" => asg[a] # "pending"
    BY <1>1 DEF Written
  <2> HIDE DEF s
  <2>4. CASE asg[a] = s
    BY <2>1, <2>4, Kept DEF SetAsg
  <2>5. CASE asg[a] # s
    BY <2>1, <2>2, <2>3, <2>5 DEF Loses, LiveStatuses, Updates
  <2> QED
    BY <2>4, <2>5
<1>3. CASE EndTrip(p)
  <2>1. asg' = asg \/ (asg[a] \in LiveStatuses /\ SetAsg(a, "completed"))
    BY <1>0, <1>3 DEF EndTrip, Live
  <2>2. asg[a] # "pending"
    BY <1>0, <1>3, <1>1 DEF EndTrip, CallInv, Fits, Writes, Updating
  <2> QED
    BY <2>1, <2>2 DEF LiveStatuses
<1> QED
  BY <1>2, <1>3 DEF UpdateEnd

LEMMA UpdateIsAnswered ==
  ASSUME TypeInv, CallInv, NEW p \in Procs, UpdateEnd(p), Quiet
  PROVE  Places!Undisturbed \/ UNCHANGED <<asg, Counted, filled, ended, faults > 0, overwrites>>
<1>1. /\ filled' = filled /\ ended' = ended /\ overwrites' = overwrites
      /\ (faults > 0)' = (faults > 0) /\ call[p].at \in Updating
  BY DEF UpdateEnd, WriteAssignment, EndTrip, Quiet, Updating
<1>2. PICK d : Go(p, d) /\ d.at \in {"idle", "start", "end", "check"}
  <2>1. CASE WriteAssignment(p)
    <3>1. Return(p) \/ Step(p, "start") \/ Step(p, "end")
      BY <2>1 DEF WriteAssignment
    <3>2. /\ [call[p] EXCEPT !.at = "start"].at = "start"
          /\ [call[p] EXCEPT !.at = "end"].at = "end" /\ Idle.at = "idle"
      BY DEF TypeInv, TypeOK, Call, Idle, Doing
    <3>3. CASE Step(p, "start")
      <4>1. Go(p, [call[p] EXCEPT !.at = "start"])
        BY <3>3 DEF Step, Go
      <4> QED
        BY <3>2, <4>1
    <3>4. CASE Step(p, "end")
      <4>1. Go(p, [call[p] EXCEPT !.at = "end"])
        BY <3>4 DEF Step, Go
      <4> QED
        BY <3>2, <4>1
    <3> QED
      BY <3>1, <3>2, <3>3, <3>4 DEF Return
  <2>2. CASE EndTrip(p)
    <3>1. Go(p, Idle) \/ Go(p, Doing("check", None, 0, "none"))
      BY <2>2 DEF EndTrip, Return
    <3>2. Idle.at = "idle" /\ Doing("check", None, 0, "none").at = "check"
      BY DEF Idle, Doing
    <3> QED
      BY <3>1, <3>2
  <2> QED
    BY <2>1, <2>2 DEF UpdateEnd
<1>3. ~Spends(d) /\ ~GivesUp(d) /\ ~Spends(call[p]) /\ ~GivesUp(call[p])
  BY <1>1, <1>2 DEF Spends, GivesUp, Updating
<1>4. CASE asg' = asg
  <2>1. Counted' = Counted
    BY <1>2, <1>3, <1>4, SameCount
  <2> QED
    BY <1>1, <1>4, <2>1
<1>5. ASSUME NEW a \in Assignments, NEW s, SetAsg(a, s),
             \/ asg[a] = "pending" /\ s = "driver_accepted"
             \/ asg[a] = "driver_accepted" /\ s = "completed"
      PROVE  Places!Undisturbed
  <2>1. \A b \in Assignments : asg'[b] = IF b = a THEN s ELSE asg[b]
    BY <1>5 DEF SetAsg, TypeInv, TypeOK
  <2>2. \A b \in Assignments : Stands(asg'[b]) <=> Stands(asg[b])
    BY <1>5, <2>1 DEF Stands, LiveStatuses
  <2>3. Counted' = Counted
    BY <1>2, <1>3, <2>2, SameCount
  <2> QED
    BY <1>1, <1>5, <2>3, AnsweredIs
<1> QED
  BY <1>1, <1>4, <1>5, UpdateIs

\* One that loses something is an overwriting.
LEMMA WriteIsOverwrite ==
  ASSUME TypeInv, CallInv, NEW p \in Procs, WriteAssignment(p), overwrites' # overwrites
  PROVE  \E a \in Assignments : Places!Overwrite(a)
<1>0. PICK a \in Assignments : a = call[p].asg
  BY WorkingOn DEF WriteAssignment, Working, Updating
<1> DEFINE s == Written(call[p].to)
<1>1. /\ SetAsg(a, s) /\ Loses(a, s) /\ overwrites' = overwrites + 1
      /\ UNCHANGED <<filled, ended>> /\ (faults > 0)' = (faults > 0)
  BY <1>0 DEF WriteAssignment
<1>2. call[p].to \in Updates
  BY DEF TypeInv, TypeOK, Sound, Call, WriteAssignment, Updating
<1>3. s \in {"driver_accepted", "driver_declined", "cancelled", "completed"}
  BY <1>2 DEF Written, Updates
<1> HIDE DEF s
<1>4. s \in DOMAIN Places!May \ {"none", "pending", asg[a]}
  BY <1>1, <1>3 DEF Places!May, Loses
<1> QED
  BY <1>1, <1>4 DEF Places!Overwrite, SetAsg

\* The cancellation takes every place of an assignment that is live.
LEMMA CancelCloses ==
  ASSUME TypeInv, CallInv, NEW p \in Procs, CancelBooking(p), Quiet
  PROVE  Places!Undisturbed
<1> DEFINE live == {a \in Assignments : asg[a] \in {"pending", "driver_accepted"}}
<1>1. /\ filled' = filled /\ ended' /\ call[p] = Idle
      /\ asg' = [a \in Assignments |-> IF asg[a] \in LiveStatuses THEN "cancelled" ELSE asg[a]]
  BY DEF CancelBooking, SetStatus, Closed
<1>2. PICK d : Go(p, d) /\ ~Spends(d) /\ ~GivesUp(d)
  <2>1. \A ts : Neutral(Releasing(ts))
    BY DEF Neutral, Releasing, Finds, Answers, Ending, Updating
  <2> QED
    BY <2>1, IdleNeutral, NeutralFits DEF CancelBooking
<1>3. ~Spends(call[p]) /\ ~GivesUp(call[p])
  BY <1>1, IdleNeutral, NeutralFits
<1>4. ASSUME NEW a \in live
      PROVE  a \notin Counted'
  <2>1. ~Stands(asg'[a]) /\ ~OthersGiveUp(p, a) /\ a \in Assignments
    BY <1>1, <1>4, OthersAre DEF Stands, LiveStatuses, Quiet
  <2> QED
    BY <1>2, <2>1, CountOf, CountedAt
<1>5. ASSUME NEW a \in Assignments, a \notin live
      PROVE  a \in Counted' <=> a \in Counted
  <2>1. asg'[a] = asg[a]
    BY <1>1, <1>5 DEF LiveStatuses
  <2> QED
    BY <1>2, <1>3, <2>1, CountOf, CountedAt
<1>6. Counted' = Counted \ live
  <2>1. Counted \subseteq Assignments /\ Counted' \subseteq Assignments
    BY DEF Counted
  <2> HIDE DEF live
  <2> QED
    BY <1>4, <1>5, <2>1
<1>7. asg' = [a \in Assignments |-> IF a \in live THEN "cancelled" ELSE asg[a]]
  BY <1>1 DEF LiveStatuses
<1> QED
  BY <1>1, <1>6, <1>7 DEF Places!Undisturbed, Places!Close, Quiet

\* FreeAbandoned leaves a cancelled or completed booking alone: the place is lost
\* with the booking.
LEMMA FreeForfeits ==
  ASSUME TypeInv, CallInv, NEW p \in Procs, FreeAbandoned(p), Quiet
  PROVE  Places!Undisturbed \/ UNCHANGED <<asg, Counted, filled, ended, faults > 0, overwrites>>
<1>0. PICK a \in Assignments : a = call[p].asg
  BY WorkingOn DEF FreeAbandoned, Working, Ending
<1>1. /\ call[p].at = "free" /\ call[p].to = "none" /\ ~Spends(call[p]) /\ GivesUp(call[p])
      /\ UNCHANGED <<status, filled, ended, asg, overwrites>> /\ (faults > 0)' = (faults > 0)
  BY DEF FreeAbandoned, CallInv, Fits, Spends, GivesUp
<1>2. CASE Step(p, "lower")
  <2> DEFINE d == [call[p] EXCEPT !.at = "lower"]
  <2>1. d.at = "lower" /\ d.asg = call[p].asg /\ d.to = "none" /\ Go(p, d)
    BY <1>1, <1>2 DEF TypeInv, TypeOK, Call, Step, Go
  <2> HIDE DEF d
  <2>2. ~Spends(d) /\ GivesUp(d)
    BY <2>1 DEF Spends, GivesUp
  <2>3. Counted' = Counted
    BY <1>1, <2>1, <2>2, SameCount
  <2> QED
    BY <1>1, <2>3
<1>3. CASE status \in {"cancelled", "completed"} /\ Return(p)
  <2>1. Go(p, Idle) /\ ~Spends(Idle) /\ ~GivesUp(Idle) /\ ended
    BY <1>3, IdleNeutral, NeutralFits DEF Return, CallInv, Closed
  <2>2. ~Stands(asg[a]) /\ ~OthersGiveUp(p, a)
    BY <1>0, <1>1, OthersAre DEF Stands, LiveStatuses, Quiet, GivenUpOnce
  <2>3. ASSUME NEW b \in Assignments
        PROVE  b \in Counted' <=> b \in Counted /\ b # a
    <3>1. asg'[b] = asg[b]
      BY <1>1
    <3> QED
      BY <1>0, <1>1, <2>1, <2>2, <3>1, CountOf, CountedAt
  <2>4. Counted' = Counted \ {a}
    <3>1. Counted \subseteq Assignments /\ Counted' \subseteq Assignments
      BY DEF Counted
    <3> QED
      BY <2>3, <3>1
  <2> QED
    BY <1>1, <2>1, <2>4, ForfeitIs
<1> QED
  BY <1>2, <1>3 DEF FreeAbandoned

\* The calls that neither write an assignment nor count: the contract sees at most
\* that the booking has been closed.
LEMMA OthersClose ==
  ASSUME TypeInv, CallInv, NEW p \in Procs, Quiet,
         \/ Schedule(p) \/ Reopen(p) \/ ExpireBegin(p) \/ (\E t \in Trucks : ReleaseVehicle(p, t))
         \/ ExpireCommit(p) \/ CheckCompletion(p) \/ Complete(p) \/ StartBooking(p)
         \/ \E a \in Assignments :
              \/ AcceptBegin(p, a) \/ AssignBegin(p, a) \/ ReadAssignment(p, a)
              \/ \E to \in {"driver_declined", "cancelled"} : Answer(p, a, to)
  PROVE  Places!Undisturbed \/ UNCHANGED <<asg, Counted, filled, ended, faults > 0, overwrites>>
<1>1. /\ asg' = asg /\ filled' = filled
      /\ ended' \/ ended' = ended
  <2>1. ended \in BOOLEAN
    BY Kept
  <2> QED
    BY <2>1 DEF Schedule, Reopen, ExpireBegin, ReleaseVehicle, ExpireCommit, CheckCompletion,
       Complete, StartBooking, AcceptBegin, AssignBegin, ReadAssignment, Answer, SetStatus
<1>2. ASSUME NEW d, Go(p, d), Spends(d) <=> Spends(call[p]), GivesUp(d) <=> GivesUp(call[p]),
             Spends(d) \/ GivesUp(d) => d.asg = call[p].asg
      PROVE  Places!Undisturbed \/ UNCHANGED <<asg, Counted, filled, ended, faults > 0, overwrites>>
  <2>1. Counted' = Counted
    BY <1>1, <1>2, SameCount
  <2> QED
    BY <1>1, <2>1, CloseIs
<1>3. ASSUME NEW d, Go(p, d), d.at \notin {"free", "reopen", "commit"},
             d.at = "lower" => d.to # "none",
             call[p].at \notin {"free", "lower", "reopen", "commit"}
      PROVE  Places!Undisturbed \/ UNCHANGED <<asg, Counted, filled, ended, faults > 0, overwrites>>
  BY <1>2, <1>3 DEF Spends, GivesUp
<1>4. \A s, b, n, to : Doing(s, b, n, to).at = s /\ Doing(s, b, n, to).to = to
  BY DEF Doing
<1>5. Idle.at = "idle"
  BY <1>4 DEF Idle
<1>6. ASSUME Return(p), call[p].at \notin {"free", "lower", "reopen", "commit"}
      PROVE  Places!Undisturbed \/ UNCHANGED <<asg, Counted, filled, ended, faults > 0, overwrites>>
  BY <1>3, <1>5, <1>6 DEF Return
<1>7. CASE Schedule(p) \/ ExpireCommit(p) \/ Complete(p)
  BY <1>6, <1>7 DEF Schedule, ExpireCommit, Complete
<1>8. CASE CheckCompletion(p)
  <2>1. CASE Step(p, "complete")
    <3>1. Go(p, [call[p] EXCEPT !.at = "complete"]) /\ [call[p] EXCEPT !.at = "complete"].at = "complete"
      BY <2>1 DEF Step, Go, TypeInv, TypeOK, Call
    <3> QED
      BY <1>3, <1>8, <3>1 DEF CheckCompletion
  <2> QED
    BY <1>6, <1>8, <2>1 DEF CheckCompletion
<1>9. CASE \E t \in Trucks : ReleaseVehicle(p, t)
  <2>1. \A ts : Releasing(ts).at = "release"
    BY DEF Releasing
  <2>2. PICK d : Go(p, d) /\ d.at \in {"idle", "release"}
    BY <1>5, <1>9, <2>1 DEF ReleaseVehicle
  <2> QED
    BY <1>3, <1>9, <2>2 DEF ReleaseVehicle
<1>10. CASE \/ ExpireBegin(p)
            \/ \E a \in Assignments : AcceptBegin(p, a) \/ AssignBegin(p, a) \/ ReadAssignment(p, a)
  <2>1. call[p].at = "idle"
    BY <1>5, <1>10 DEF ExpireBegin, AcceptBegin, AssignBegin, ReadAssignment
  <2>2. PICK d : Go(p, d) /\ d.at \in {"expire", "accept", "assign", "write"}
    BY <1>4, <1>10 DEF ExpireBegin, AcceptBegin, AssignBegin, ReadAssignment
  <2> QED
    BY <1>3, <2>1, <2>2
<1>11. CASE \E a \in Assignments : \E to \in {"driver_declined", "cancelled"} : Answer(p, a, to)
  <2>1. PICK a \in Assignments, to \in {"driver_declined", "cancelled"} : Answer(p, a, to)
    BY <1>11
  <2>2. Go(p, Doing("lower", a, 0, to)) /\ call[p].at = "idle"
    BY <1>5, <2>1 DEF Answer
  <2> QED
    BY <1>3, <1>4, <2>2
<1>12. CASE Reopen(p)
  <2>1. call[p].at = "reopen" /\ AfterReopen(p)
    BY <1>12 DEF Reopen
  <2>2. CASE call[p].to = "none"
    <3>1. Go(p, Idle) /\ ~Spends(Idle) /\ ~GivesUp(Idle)
      BY <2>1, <2>2, IdleNeutral, NeutralFits DEF AfterReopen, Return
    <3>2. ~Spends(call[p]) /\ ~GivesUp(call[p])
      BY <2>1, <2>2 DEF Spends, GivesUp
    <3> QED
      BY <1>2, <3>1, <3>2
  <2>3. CASE call[p].to # "none"
    <3> DEFINE d == [call[p] EXCEPT !.at = "commit"]
    <3>1. d.at = "commit" /\ d.asg = call[p].asg /\ d.to = call[p].to /\ Go(p, d)
      BY <2>1, <2>3 DEF AfterReopen, Step, Go, TypeInv, TypeOK, Call
    <3> HIDE DEF d
    <3> QED
      BY <1>2, <2>1, <2>3, <3>1 DEF Spends, GivesUp
  <2> QED
    BY <2>2, <2>3
<1>13. CASE StartBooking(p)
  <2>1. call[p].at \in {"write", "start"}
    BY <1>13 DEF StartBooking
  <2>2. CASE call' = call
    <3>1. Go(p, call[p])
      BY <2>2 DEF Go, TypeInv, TypeOK
    <3> QED
      BY <1>2, <2>1, <3>1 DEF Spends, GivesUp
  <2> QED
    BY <1>6, <1>13, <2>1, <2>2 DEF StartBooking
<1> QED
  BY <1>7, <1>8, <1>9, <1>10, <1>11, <1>12, <1>13

\* An acceptance or an assignment takes a place, or finds that it may not.
LEMMA TrucksTake ==
  ASSUME TypeInv, CallInv, NEW p \in Procs, AcceptCommit(p) \/ AssignCommit(p),
         Quiet
  PROVE  Places!Undisturbed \/ UNCHANGED <<asg, Counted, filled, ended, faults > 0, overwrites>>
<1>0. /\ Finds(call[p]) /\ ~Spends(call[p]) /\ ~GivesUp(call[p])
      /\ ~Spends(Idle) /\ ~GivesUp(Idle) /\ Neutral(Idle)
  BY IdleNeutral, NeutralFits DEF AcceptCommit, AssignCommit, Finds, Spends, GivesUp
<1>1. ASSUME Return(p), UNCHANGED <<filled, asg, ended>>
      PROVE  UNCHANGED <<asg, Counted, filled, ended, faults > 0, overwrites>>
  <2>1. Counted' = Counted
    BY <1>0, <1>1, SameCount DEF Return
  <2> QED
    BY <1>1, <2>1 DEF Quiet
<1>2. CASE AcceptCommit(p)
  <2>1. CASE /\ filled = call[p].count /\ filled' = filled + 1
             /\ SetStatus(IF filled + 1 >= Needed THEN "fully_filled" ELSE "partially_filled")
             /\ SetAsg(call[p].asg, "pending")
    <3>1. ended' = ended
      BY <2>1, Kept DEF SetStatus, Closed
    <3>2. filled < Needed
      BY <1>2, <2>1 DEF TypeInv, Sound, AcceptCommit
    <3>3. Go(p, Idle)
      BY <1>2 DEF AcceptCommit, Return
    <3> QED
      BY <1>0, <2>1, <3>1, <3>2, <3>3, NewTakes
  <2> QED
    BY <1>1, <1>2, <2>1 DEF AcceptCommit
<1>3. CASE AssignCommit(p)
  <2>1. CASE /\ SetAsg(call[p].asg, "pending") /\ Step(p, "schedule")
             /\ filled' = IF filled < Needed THEN filled + 1 ELSE filled
    <3> DEFINE d == [call[p] EXCEPT !.at = "schedule"]
    <3>1. Neutral(d) /\ Go(p, d)
      BY <2>1 DEF Neutral, Finds, Answers, Ending, Updating, Step, Go, TypeInv, TypeOK, Call
    <3> HIDE DEF d
    <3>2. ended' = ended
      BY <1>3 DEF AssignCommit
    <3> QED
      BY <1>0, <2>1, <3>1, <3>2, NewTakes
  <2> QED
    BY <1>1, <1>3, <2>1 DEF AssignCommit
<1> QED
  BY <1>2, <1>3

\* Whatever fails, an assignment becomes what it may, and a closing is not undone.
MayBecome(s, t) == t = s \/ t \in Places!May[s]

LEMMA MayBe ==
  /\ \A s \in AsgStatus : MayBecome(s, s)
  /\ MayBecome("none", "pending")
  /\ \A t \in {"driver_accepted", "driver_declined", "cancelled"} : MayBecome("pending", t)
  /\ \A t \in {"completed", "cancelled"} : MayBecome("driver_accepted", t)
BY DEF MayBecome, Places!May

LEMMA WritesMay ==
  ASSUME TypeInv, CallInv, NEW p \in Procs,
         AcceptCommit(p) \/ AssignCommit(p) \/ CommitAnswer(p) \/ ScheduleFails(p)
  PROVE  \A b \in Assignments : MayBecome(asg[b], asg'[b])
<1>0. PICK a \in Assignments : a = call[p].asg
  BY WorkingOn DEF AcceptCommit, AssignCommit, CommitAnswer, ScheduleFails, Working, Ending
<1>1. ASSUME NEW s, SetAsg(a, s), MayBecome(asg[a], s)
      PROVE  \A b \in Assignments : MayBecome(asg[b], asg'[b])
  <2>1. \A b \in Assignments : asg'[b] = IF b = a THEN s ELSE asg[b]
    BY <1>1 DEF SetAsg, TypeInv, TypeOK
  <2> QED
    BY <1>1, <2>1, MayBe, Kept
<1>2. ASSUME asg' = asg
      PROVE  \A b \in Assignments : MayBecome(asg[b], asg'[b])
  BY <1>2, MayBe, Kept
<1>3. CASE AcceptCommit(p) \/ AssignCommit(p)
  <2>1. asg[a] = "none"
    BY <1>0, <1>3, RowOf DEF AcceptCommit, AssignCommit, Finds
  <2>2. asg' = asg \/ SetAsg(a, "pending")
    BY <1>0, <1>3 DEF AcceptCommit, AssignCommit
  <2> QED
    BY <1>1, <1>2, <2>1, <2>2, MayBe
<1>4. CASE CommitAnswer(p)
  <2>1. /\ asg[a] \in Answerable(call[p].to) /\ call[p].to # "none"
        /\ call[p].to \in {"none", "driver_declined", "cancelled"} /\ SetAsg(a, call[p].to)
    BY <1>0, <1>4, Kept DEF CommitAnswer, CallInv, Fits, Answers, TypeInv, Sound, Ending
  <2>2. \/ asg[a] = "driver_accepted" /\ call[p].to = "cancelled"
        \/ asg[a] = "pending" /\ call[p].to \in {"driver_declined", "cancelled"}
    BY <2>1 DEF Answerable, LiveStatuses
  <2> QED
    BY <1>1, <2>1, <2>2, MayBe
<1>5. CASE ScheduleFails(p)
  <2>1. SetAsg(a, IF asg[a] = "pending" THEN "driver_declined" ELSE asg[a])
    BY <1>0, <1>5 DEF ScheduleFails
  <2>2. CASE asg[a] = "pending"
    BY <1>1, <2>1, <2>2, MayBe
  <2>3. CASE asg[a] # "pending"
    <3>1. asg[a] \in AsgStatus /\ SetAsg(a, asg[a])
      BY <2>1, <2>3, Kept
    <3> QED
      BY <1>1, <3>1, MayBe
  <2> QED
    BY <2>2, <2>3
<1> QED
  BY <1>3, <1>4, <1>5

LEMMA AsgMay ==
  ASSUME TypeInv, CallInv, [Next]_vars, overwrites' = overwrites
  PROVE  \A b \in Assignments : MayBecome(asg[b], asg'[b])
<1>0. \A b \in Assignments : asg[b] \in AsgStatus
  BY Kept
<1>1. ASSUME asg' = asg
      PROVE  \A b \in Assignments : MayBecome(asg[b], asg'[b])
  BY <1>0, <1>1, MayBe
<1>2. ASSUME NEW a \in Assignments,
             DriverAccepts(a) \/ \E p \in Procs : TripEnds(p, a) \/ Abandon(p, a)
      PROVE  \A b \in Assignments : MayBecome(asg[b], asg'[b])
  <2>1. PICK s : SetAsg(a, s) /\ MayBecome(asg[a], s)
    BY <1>2, MayBe DEF DriverAccepts, TripEnds, Abandon
  <2>2. \A b \in Assignments : asg'[b] = IF b = a THEN s ELSE asg[b]
    BY <2>1 DEF SetAsg, TypeInv, TypeOK
  <2> QED
    BY <1>0, <2>1, <2>2, MayBe
<1>3. ASSUME NEW p \in Procs, CancelBooking(p)
      PROVE  \A b \in Assignments : MayBecome(asg[b], asg'[b])
  <2>1. \A b \in Assignments : asg'[b] = IF asg[b] \in LiveStatuses THEN "cancelled" ELSE asg[b]
    BY <1>3 DEF CancelBooking
  <2> QED
    BY <1>0, <2>1, MayBe DEF LiveStatuses
<1>4. ASSUME NEW p \in Procs,
             \/ Schedule(p) \/ Lower(p) \/ Reopen(p) \/ FreeAbandoned(p) \/ ExpireBegin(p)
             \/ (\E t \in Trucks : ReleaseVehicle(p, t)) \/ ExpireCommit(p)
             \/ CheckCompletion(p) \/ Complete(p) \/ Crash(p) \/ StartBooking(p)
             \/ \E a \in Assignments :
                  \/ AcceptBegin(p, a) \/ AssignBegin(p, a) \/ ReadAssignment(p, a)
                  \/ \E to \in {"driver_declined", "cancelled"} : Answer(p, a, to)
      PROVE  asg' = asg
  BY <1>4 DEF Schedule, Lower, Reopen, FreeAbandoned, ExpireBegin, ReleaseVehicle, ExpireCommit,
     CheckCompletion, Complete, Crash, StartBooking, AcceptBegin, AssignBegin, ReadAssignment, Answer
<1>5. ASSUME \/ Tick \/ UNCHANGED vars \/ \E t \in Trucks : FreeOrphan(t)
      PROVE  asg' = asg
  BY <1>5 DEF Tick, vars, FreeOrphan
<1>6. ASSUME NEW p \in Procs, UpdateEnd(p)
      PROVE  \A b \in Assignments : MayBecome(asg[b], asg'[b])
  <2>1. ASSUME NEW a \in Assignments, NEW s, SetAsg(a, s),
               \/ asg[a] = "pending" /\ s = "driver_accepted"
               \/ asg[a] = "driver_accepted" /\ s = "completed"
        PROVE  \A b \in Assignments : MayBecome(asg[b], asg'[b])
    <3>1. \A b \in Assignments : asg'[b] = IF b = a THEN s ELSE asg[b]
      BY <2>1 DEF SetAsg, TypeInv, TypeOK
    <3> QED
      BY <1>0, <2>1, <3>1, MayBe
  <2> QED
    BY <1>1, <1>6, <2>1, UpdateIs
<1> QED
  BY <1>1, <1>2, <1>3, <1>4, <1>5, <1>6, WritesMay DEF Next, Continue, UpdateEnd

LEMMA EndedStays ==
  ASSUME TypeInv, [Next]_vars, ended
  PROVE  ended'
BY DEF Next, Continue, vars, AcceptCommit, AssignCommit, Schedule, Lower, Reopen,
  CommitAnswer, FreeAbandoned, ReleaseVehicle, ExpireCommit, CheckCompletion, Complete, StartBooking,
  WriteAssignment, EndTrip, ScheduleFails, Crash, CancelBooking, ExpireBegin, AcceptBegin, AssignBegin,
  Answer, Abandon, TripEnds, ReadAssignment, DriverAccepts, FreeOrphan, Tick, SetStatus

\* Only a status update overwrites, and only a fault is counted as one.
LEMMA HistoryStep ==
  ASSUME [Next]_vars
  PROVE  /\ overwrites' # overwrites => \E p \in Procs : WriteAssignment(p)
         /\ faults' = faults \/ faults' = faults + 1
BY DEF Next, Continue, vars, AcceptCommit, AssignCommit, Schedule, Lower, Reopen,
  CommitAnswer, FreeAbandoned, ReleaseVehicle, ExpireCommit, CheckCompletion, Complete, StartBooking,
  WriteAssignment, EndTrip, ScheduleFails, Crash, CancelBooking, ExpireBegin, AcceptBegin, AssignBegin,
  Answer, Abandon, TripEnds, ReadAssignment, DriverAccepts, FreeOrphan, Tick

LEMMA PlacesStep ==
  ASSUME TypeInv, TypeInv', CallInv, overwrites = 0 => GivenUpOnce, [Next]_vars
  PROVE  \/ Places!PlaceNext
         \/ UNCHANGED <<asg, Counted, filled, ended, faults > 0, overwrites>>
<1>0. faults \in Nat /\ faults' \in Nat /\ overwrites \in Nat /\ overwrites' \in Nat
  BY BookingAssumption DEF TypeInv, TypeOK
<1>1. CASE overwrites' # overwrites
  <2>1. \E a \in Assignments : Places!Overwrite(a)
    BY <1>1, HistoryStep, WriteIsOverwrite
  <2> QED
    BY <2>1 DEF Places!PlaceNext
<1>2. CASE overwrites' = overwrites /\ (faults' # 0 \/ overwrites # 0)
  <2>1. \A b \in Assignments : asg'[b] \in {asg[b]} \union Places!May[asg[b]]
    BY <1>2, AsgMay DEF MayBecome
  <2>2. ended => ended'
    BY EndedStays
  <2>3. (faults' > 0 \/ overwrites > 0) /\ (faults > 0 => faults' > 0)
    BY <1>0, <1>2, HistoryStep
  <2> QED
    BY <1>2, <2>1, <2>2, <2>3 DEF Places!Disturbed, Places!PlaceNext
<1>3. CASE faults' = 0 /\ overwrites = 0 /\ overwrites' = 0
  <2>1. faults = 0 /\ \A p \in Procs : ~ScheduleFails(p) /\ ~Crash(p)
    <3>1. ASSUME NEW p \in Procs, ScheduleFails(p) \/ Crash(p)
          PROVE  faults' = faults + 1
      BY <3>1 DEF ScheduleFails, Crash
    <3> QED
      BY <1>0, <1>3, <3>1, HistoryStep
  <2>2. ASSUME Tick \/ (UNCHANGED vars) \/ (\E t \in Trucks : FreeOrphan(t))
          PROVE  UNCHANGED <<asg, Counted, filled, ended, faults > 0, overwrites>>
    <3>1. /\ call' = call /\ asg' = asg /\ filled' = filled /\ faults' = faults
          /\ overwrites' = overwrites
      BY <2>2 DEF Tick, vars, FreeOrphan
    <3>2. ended' = ended
      BY <2>2, Kept DEF Tick, vars, FreeOrphan, SetStatus, Closed
    <3>3. Counted' = Counted
      BY <3>1, SameCalls
    <3> QED
      BY <3>1, <3>2, <3>3
  <2>3. Quiet
    BY <1>3, <2>1 DEF Quiet
  <2>4. Places!Undisturbed \/ UNCHANGED <<asg, Counted, filled, ended, faults > 0, overwrites>>
    BY <2>1, <2>2, <2>3, LowerGivesBack, CommitIsAnswered, AbandonIsAnswered, TripIsAnswered,
       UpdateIsAnswered, CancelCloses, FreeForfeits, OthersClose, TrucksTake
       DEF Next, Continue, UpdateEnd
  <2> QED
    BY <2>4 DEF Places!PlaceNext
<1> QED
  BY <1>1, <1>2, <1>3

\* Only Abandon begins to give an assignment up, one that was accepted and that
\* nobody gives up; while no update revives it, it stays cancelled.
LEMMA GiveUpMoves ==
  ASSUME TypeInv, CallInv, [Next]_vars, NEW q \in Procs, GivesUp(call'[q])
  PROVE  \/ GivesUp(call[q]) /\ call'[q].asg = call[q].asg
         \/ \E a \in Assignments : Abandon(q, a) /\ call'[q].asg = a
<1>1. ASSUME call' = call
      PROVE  GivesUp(call[q]) /\ call'[q].asg = call[q].asg
  BY <1>1
<1>2. ASSUME NEW p \in Procs, NEW d, Go(p, d),
             GivesUp(d) => GivesUp(call[p]) /\ d.asg = call[p].asg
      PROVE  GivesUp(call[q]) /\ call'[q].asg = call[q].asg
  <2>1. \A r \in Procs : call'[r] = IF r = p THEN d ELSE call[r]
    BY <1>2 DEF Go, TypeInv, TypeOK
  <2> QED
    BY <1>2, <2>1
<1>3. ASSUME NEW p \in Procs, NEW d, Go(p, d), d.at \notin {"free", "lower"}
      PROVE  GivesUp(call[q]) /\ call'[q].asg = call[q].asg
  BY <1>2, <1>3 DEF GivesUp
<1>4. /\ \A s, b, n, to : Doing(s, b, n, to).at = s /\ Doing(s, b, n, to).asg = b /\ Doing(s, b, n, to).to = to
      /\ \A ts : Releasing(ts).at = "release"
      /\ Idle.at = "idle"
      /\ \A p \in Procs : \A s : /\ [call[p] EXCEPT !.at = s].at = s
                                  /\ [call[p] EXCEPT !.at = s].asg = call[p].asg
                                  /\ [call[p] EXCEPT !.at = s].to = call[p].to
  BY DEF Doing, Releasing, Idle, TypeInv, TypeOK, Call
<1>5. ASSUME NEW p \in Procs, Return(p)
      PROVE  GivesUp(call[q]) /\ call'[q].asg = call[q].asg
  BY <1>3, <1>4, <1>5 DEF Return
<1>6. ASSUME NEW p \in Procs, NEW s, s \notin {"free", "lower"}, Step(p, s)
      PROVE  GivesUp(call[q]) /\ call'[q].asg = call[q].asg
  <2> DEFINE d == [call[p] EXCEPT !.at = s]
  <2>1. Go(p, d) /\ d.at = s
    BY <1>4, <1>6 DEF Step, Go
  <2> HIDE DEF d
  <2> QED
    BY <1>3, <1>6, <2>1
<1>7. ASSUME NEW p \in Procs, FreeAbandoned(p)
      PROVE  GivesUp(call[q]) /\ call'[q].asg = call[q].asg
  <2>1. CASE Step(p, "lower")
    <3> DEFINE d == [call[p] EXCEPT !.at = "lower"]
    <3>1. GivesUp(call[p])
      BY <1>7 DEF FreeAbandoned, CallInv, Fits, GivesUp
    <3>2. Go(p, d) /\ d.asg = call[p].asg
      BY <1>4, <2>1 DEF Step, Go
    <3> HIDE DEF d
    <3> QED
      BY <1>2, <3>1, <3>2
  <2> QED
    BY <1>5, <1>7, <2>1 DEF FreeAbandoned
<1>8. ASSUME NEW p \in Procs, NEW a \in Assignments, Abandon(p, a)
      PROVE  \/ GivesUp(call[q]) /\ call'[q].asg = call[q].asg
             \/ \E b \in Assignments : Abandon(q, b) /\ call'[q].asg = b
  <2>1. \A r \in Procs : call'[r] = IF r = p THEN Doing("free", a, 0, "none") ELSE call[r]
    BY <1>8 DEF Abandon, Go, TypeInv, TypeOK
  <2> QED
    BY <1>4, <1>8, <2>1
<1>9. ASSUME NEW p \in Procs, NEW a \in Assignments, NEW to \in {"driver_declined", "cancelled"},
             Answer(p, a, to)
      PROVE  GivesUp(call[q]) /\ call'[q].asg = call[q].asg
  <2>1. Go(p, Doing("lower", a, 0, to))
    BY <1>9 DEF Answer
  <2>2. ~GivesUp(Doing("lower", a, 0, to))
    BY <1>4 DEF GivesUp
  <2> QED
    BY <1>2, <2>1, <2>2
<1>10. ASSUME NEW p \in Procs, \/ AcceptCommit(p) \/ Schedule(p) \/ ScheduleFails(p) \/ CommitAnswer(p)
                               \/ ExpireCommit(p) \/ Complete(p) \/ Crash(p)
       PROVE  Return(p)
  BY <1>10 DEF AcceptCommit, Schedule, ScheduleFails, CommitAnswer, ExpireCommit, Complete, Crash
<1>11. ASSUME NEW p \in Procs, \/ AssignCommit(p) \/ Reopen(p) \/ CheckCompletion(p)
                               \/ WriteAssignment(p) \/ StartBooking(p)
       PROVE  call' = call \/ Return(p) \/ \E s : s \notin {"free", "lower"} /\ Step(p, s)
  BY <1>11 DEF AssignCommit, Reopen, AfterReopen, CheckCompletion, WriteAssignment, StartBooking
<1>12. ASSUME NEW p \in Procs, \/ Lower(p) \/ EndTrip(p) \/ CancelBooking(p) \/ ExpireBegin(p)
                               \/ (\E t \in Trucks : ReleaseVehicle(p, t))
                               \/ \E a \in Assignments : \/ AcceptBegin(p, a) \/ AssignBegin(p, a)
                                                         \/ TripEnds(p, a) \/ ReadAssignment(p, a)
       PROVE  \E d : Go(p, d) /\ d.at \notin {"free", "lower"}
  <2>1. \/ \E s, b, n, to : s \notin {"free", "lower"} /\ Go(p, Doing(s, b, n, to))
        \/ Go(p, Idle) \/ \E ts : Go(p, Releasing(ts))
    BY <1>12 DEF Lower, EndTrip, CancelBooking, ExpireBegin, ReleaseVehicle, AcceptBegin, AssignBegin,
       TripEnds, ReadAssignment, Return
  <2> QED
    BY <1>4, <2>1
<1>13. ASSUME \/ Tick \/ (UNCHANGED vars) \/ (\E t \in Trucks : FreeOrphan(t))
              \/ \E a \in Assignments : DriverAccepts(a)
       PROVE  call' = call
  BY <1>13 DEF Tick, vars, FreeOrphan, DriverAccepts
<1> QED
  BY <1>1, <1>3, <1>5, <1>6, <1>7, <1>8, <1>9, <1>10, <1>11, <1>12, <1>13 DEF Next, Continue

LEMMA GivenUpStep ==
  ASSUME TypeInv, TypeInv', CallInv, overwrites = 0 => GivenUpOnce, [Next]_vars, overwrites' = 0
  PROVE  GivenUpOnce'
<1>1. overwrites = 0 /\ GivenUpOnce
  <2>1. \A p \in Procs : WriteAssignment(p) => overwrites' = overwrites \/ overwrites' = overwrites + 1
    BY DEF WriteAssignment
  <2>2. overwrites \in Nat
    BY DEF TypeInv, TypeOK
  <2> QED
    BY <2>1, <2>2, HistoryStep
<1>2. \A b \in Assignments : asg[b] = "cancelled" => asg'[b] = "cancelled"
  BY <1>1, AsgMay DEF MayBecome, Places!May
<1>3. \A r \in Procs : GivesUp(call[r]) => call[r].asg \in Assignments
  BY WorkingOn DEF GivesUp, Working, Ending
<1>4. ASSUME NEW q \in Procs, NEW a \in Assignments, Abandon(q, a)
      PROVE  /\ asg[a] # "cancelled" /\ asg'[a] = "cancelled"
             /\ \A r \in Procs : r # q => call'[r] = call[r]
  BY <1>4 DEF Abandon, SetAsg, Go, TypeInv, TypeOK
<1>5. ASSUME NEW q \in Procs, GivesUp(call'[q])
      PROVE  asg'[call'[q].asg] = "cancelled"
  BY <1>1, <1>2, <1>3, <1>4, <1>5, GiveUpMoves DEF GivenUpOnce
<1>6. ASSUME NEW q \in Procs, NEW r \in Procs, q # r, GivesUp(call'[q]), GivesUp(call'[r])
      PROVE  call'[q].asg # call'[r].asg
  <2>1. CASE GivesUp(call[q]) /\ call'[q].asg = call[q].asg /\ GivesUp(call[r]) /\ call'[r].asg = call[r].asg
    BY <1>1, <1>6, <2>1 DEF GivenUpOnce
  <2>2. ASSUME NEW u \in Procs, NEW v \in Procs, u # v, GivesUp(call'[v]),
               NEW a \in Assignments, Abandon(u, a), call'[u].asg = a
        PROVE  call'[u].asg # call'[v].asg
    <3>1. call'[v] = call[v] /\ asg[call[v].asg] = "cancelled"
      BY <1>1, <1>4, <2>2 DEF GivenUpOnce
    <3> QED
      BY <1>4, <2>2, <3>1
  <2> QED
    BY <1>6, <2>1, <2>2, GiveUpMoves
<1> QED
  BY <1>5, <1>6 DEF GivenUpOnce, GivesUp

LEMMA PlacesInit == Init => Places!PlaceInit
<1> SUFFICES ASSUME Init PROVE Places!PlaceInit
  OBVIOUS
<1>1. Counted = {}
  <2>1. \A p \in Procs : ~Spends(call[p]) /\ ~GivesUp(call[p])
    BY IdleNeutral, NeutralFits DEF Init
  <2>2. \A a \in Assignments : asg[a] = "none"
    BY DEF Init
  <2> QED
    BY <2>1, <2>2 DEF Counted, Backing, LiveStatuses, GivenUp
<1>2. ~(faults > 0)
  BY DEF Init
<1> QED
  BY <1>1, <1>2 DEF Init, Places!PlaceInit

\* Whoever makes, answers or ends an assignment, and in whatever order their calls
\* come, a place is taken and given back once for each assignment, and nobody
\* answers for an assignment that was answered.
THEOREM PlacesAreKept == Spec => KeepsPlaces
<1> DEFINE Once == overwrites = 0 => GivenUpOnce
<1>1. TypeInv /\ TypeInv' /\ CallInv /\ Once /\ [Next]_vars =>
        [Places!PlaceNext]_<<asg, Counted, filled, ended, faults > 0, overwrites>>
  BY PlacesStep
<1>2. Spec => []TypeInv
  BY TypeInit, TypeNext, PTL DEF Spec
<1>3. Spec => []CallInv
  <2>1. TypeInv /\ CallInv /\ [Next]_vars => CallInv'
    BY CallStep
  <2> QED
    BY <1>2, <2>1, CallInit, PTL DEF Spec
<1>4. Spec => []Once
  <2>1. Init => Once
    BY IdleNeutral, NeutralFits DEF Init, GivenUpOnce
  <2>2. TypeInv /\ TypeInv' /\ CallInv /\ Once /\ [Next]_vars => Once'
    BY GivenUpStep
  <2> QED
    BY <1>2, <1>3, <2>1, <2>2, PTL DEF Spec
<1> HIDE DEF Once
<1> QED
  BY <1>1, <1>2, <1>3, <1>4, PlacesInit, PTL DEF Spec, KeepsPlaces, Places!PlaceSpec
=============================================================================
