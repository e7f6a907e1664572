------------------------------ MODULE Booking ------------------------------
(***************************************************************************)
(* One booking of the legacy path and everyone who writes to it:           *)
(*   broadcast-accept.service.ts   acceptBroadcast                         *)
(*   assignment.service.ts         createAssignment, the driver's answer,  *)
(*                                 its timeout, cancelAssignment, and      *)
(*                                 updateStatus, for anybody               *)
(*   booking.service.ts            cancelBooking, handleBookingTimeout,    *)
(*                                 decrementTrucksFilled                   *)
(*   queue.service.ts              the reconciliation                      *)
(*   tracking.service.ts           updateTripStatus, the end of a booking  *)
(*                                                                         *)
(* The booking is one row (status and trucksFilled), its assignments are   *)
(* other rows and the vehicles others again; a transaction covers some of  *)
(* them.  A call is a process of Procs; what it read travels in its call.  *)
(*                                                                         *)
(* acceptBroadcast takes the lock lock:booking:<id>, whereas cancelBooking *)
(* and the expiry checker take lock:lock:booking:<id> (acquireLock adds    *)
(* the prefix itself): nobody who writes the same field excludes another,  *)
(* and the two keys are left out.                                          *)
(*                                                                         *)
(* The stages of a trip, from en_route_pickup to arrived_at_drop, are      *)
(* driver_accepted here; partial_delivery is completed.                    *)
(***************************************************************************)
EXTENDS Naturals, FiniteSets

CONSTANTS
  Assignments,   \* assignment ids, each used once
  Trucks,        \* a vehicle, with the driver its transporter sends with it
  TruckOf,       \* [Assignments -> Trucks]
  Needed,        \* trucksNeeded
  Procs,         \* calls in progress at one time
  None,
  MaxEvents      \* bound, together: crashes, failures to schedule a timeout, and
                 \* the status updates by id that are begun

ASSUME BookingAssumption ==
  /\ TruckOf \in [Assignments -> Trucks]
  /\ IsFiniteSet(Assignments) /\ IsFiniteSet(Procs)
  /\ Needed \in Nat \ {0} /\ MaxEvents \in Nat
  /\ None \notin Assignments

VARIABLES
  status,   \* the booking's status
  filled,   \* its trucksFilled
  due,      \* its expiresAt has passed
  ended,    \* history: it has been closed once
  asg,      \* [Assignments -> AsgStatus]
  busy,     \* the vehicles that are not available
  call,     \* [Procs -> Call]
  faults,
  updates,    \* status updates by id that were begun
  overwrites  \* history: status updates that ended or revived an assignment by id

vars == <<status, filled, due, ended, asg, busy, call, faults, updates, overwrites>>

Open == {"active", "partially_filled"}
Closed == {"cancelled", "expired", "completed"}
BookingStatus == Open \union Closed \union {"fully_filled", "in_progress"}
LiveStatuses == {"pending", "driver_accepted"}
AsgStatus == LiveStatuses \union {"none", "driver_declined", "cancelled", "completed"}

\* A call: where it is, its assignment, the count it read or wrote, what the
\* assignment becomes ("none" if the call does not write it), and the vehicles
\* it still has to release.
Stage == {"idle", "accept", "assign", "schedule", "lower", "reopen", "commit",
          "free", "expire", "release", "write", "start", "end", "check", "complete"}
Updates == {"driver_accepted", "in_transit", "driver_declined", "cancelled", "completed"}
Call == [at: Stage, asg: Assignments \union {None}, count: 0 .. Needed,
         to: {"none"} \union Updates, trucks: SUBSET Trucks]
Doing(s, a, n, to) == [at |-> s, asg |-> a, count |-> n, to |-> to, trucks |-> {}]
Releasing(ts) == [at |-> "release", asg |-> None, count |-> 0, to |-> "none", trucks |-> ts]
Idle == Doing("idle", None, 0, "none")

Live(a) == asg[a] \in LiveStatuses
LiveOn(t) == \E a \in Assignments : TruckOf[a] = t /\ Live(a)
Fresh(a) == asg[a] = "none" /\ \A p \in Procs : call[p].asg # a

\* the row of a is locked by a transaction that has not committed
Locked(a) == \E p \in Procs : /\ call[p].asg = a /\ call[p].to # "none"
                              /\ call[p].at \in {"lower", "reopen", "commit"}

Within == faults + updates < MaxEvents

SetStatus(s) == status' = s /\ ended' = (ended \/ s \in Closed)
SetAsg(a, s) == asg' = [asg EXCEPT ![a] = s]
Go(p, c) == call' = [call EXCEPT ![p] = c]
Step(p, stage) == call' = [call EXCEPT ![p].at = stage]
Return(p) == Go(p, Idle)

\* createBooking has announced the booking
Init ==
  /\ status = "active" /\ filled = 0 /\ due = FALSE /\ ended = FALSE
  /\ asg = [a \in Assignments |-> "none"]
  /\ busy = {}
  /\ call = [p \in Procs |-> Idle]
  /\ faults = 0 /\ updates = 0 /\ overwrites = 0

---------------------------------------------------------------------------
(* Trucks for the booking *)

\* acceptBroadcast, the checks of its transaction.  pg_advisory_xact_lock lets
\* one acceptance at a time through; at READ COMMITTED it holds nobody else up.
AcceptBegin(p, a) ==
  /\ call[p] = Idle /\ Fresh(a)
  /\ \A q \in Procs : call[q].at # "accept"
  /\ ~due /\ filled < Needed /\ status \in Open
  /\ ~LiveOn(TruckOf[a])
  /\ Go(p, Doing("accept", a, filled, "none"))
  /\ UNCHANGED <<status, filled, due, ended, asg, busy, faults, updates, overwrites>>

\* Its writes, from the vehicle's on.  The booking is matched by its count only,
\* and its status is written whatever it has become.
AcceptCommit(p) ==
  LET a == call[p].asg IN
  /\ call[p].at = "accept"
  /\ IF TruckOf[a] \notin busy /\ filled = call[p].count
     THEN /\ filled' = filled + 1
          /\ SetStatus(IF filled + 1 >= Needed THEN "fully_filled" ELSE "partially_filled")
          /\ SetAsg(a, "pending")
          /\ busy' = busy \union {TruckOf[a]}
     ELSE UNCHANGED <<status, filled, ended, asg, busy>>
  /\ Return(p)
  /\ UNCHANGED <<due, faults, updates, overwrites>>

\* createAssignment: the checks before its transaction
AssignBegin(p, a) ==
  /\ call[p] = Idle /\ Fresh(a)
  /\ status \in Open /\ TruckOf[a] \notin busy
  /\ Go(p, Doing("assign", a, 0, "none"))
  /\ UNCHANGED <<status, filled, due, ended, asg, busy, faults, updates, overwrites>>

\* The transaction checks the driver only; a vehicle taken meanwhile, or a
\* booking already full, is no error, and the status is left as it was.
AssignCommit(p) ==
  LET a == call[p].asg IN
  /\ call[p].at = "assign"
  /\ IF LiveOn(TruckOf[a])
     THEN Return(p) /\ UNCHANGED <<filled, asg, busy>>
     ELSE /\ SetAsg(a, "pending")
          /\ busy' = busy \union {TruckOf[a]}
          /\ filled' = IF filled < Needed THEN filled + 1 ELSE filled
          /\ Step(p, "schedule")
  /\ UNCHANGED <<status, due, ended, faults, updates, overwrites>>

\* the assignment's timeout is scheduled ...
Schedule(p) ==
  /\ call[p].at = "schedule"
  /\ Return(p)
  /\ UNCHANGED <<status, filled, due, ended, asg, busy, faults, updates, overwrites>>

\* ... or it is not: the assignment is given up, the count stays, and the
\* vehicle is released even when the driver has accepted in the meantime
ScheduleFails(p) ==
  LET a == call[p].asg IN
  /\ call[p].at = "schedule" /\ Within /\ ~Locked(a)
  /\ SetAsg(a, IF asg[a] = "pending" THEN "driver_declined" ELSE asg[a])
  /\ busy' = busy \ {TruckOf[a]}
  /\ faults' = faults + 1
  /\ Return(p)
  /\ UNCHANGED <<status, filled, due, ended, updates, overwrites>>

---------------------------------------------------------------------------
(* The end of an assignment *)

\* acceptAssignment
DriverAccepts(a) ==
  /\ asg[a] = "pending" /\ ~Locked(a)
  /\ SetAsg(a, "driver_accepted")
  /\ busy' = busy \union {TruckOf[a]}
  /\ UNCHANGED <<status, filled, due, ended, call, faults, updates, overwrites>>

AnswerLate(p, a, to) ==                                                 \* mutant
  /\ call[p] = Idle /\ ~Locked(a)
  /\ asg[a] \in LiveStatuses
  /\ Go(p, Doing("lower", a, 0, to))
  /\ UNCHANGED <<status, filled, due, ended, asg, busy, faults, updates, overwrites>>

\* The transaction of declineAssignment, handleAssignmentTimeout (to =
\* "driver_declined") and cancelAssignment: it locks the row of the assignment.
\* The timeout poller and the reconciliation run it again while it fails.
Answer(p, a, to) ==
  /\ call[p] = Idle /\ ~Locked(a)
  /\ asg[a] \in IF to = "cancelled" THEN LiveStatuses ELSE {"pending"}
  /\ Go(p, Doing("lower", a, 0, to))
  /\ UNCHANGED <<status, filled, due, ended, asg, busy, faults, updates, overwrites>>

OneLessUnfloored(n) == n - 1                                            \* mutant
OneLess(n) == IF n > 0 THEN n - 1 ELSE 0

\* decrementTrucksFilled runs on a connection of its own: its update commits at
\* once.  On a closed booking it throws: the transaction around it rolls back,
\* the reconciliation ignores it.
Lower(p) ==
  /\ call[p].at = "lower"
  /\ IF status \in Closed
     THEN Return(p) /\ UNCHANGED filled
     ELSE /\ filled' = OneLess(filled)
          /\ Go(p, Doing("reopen", call[p].asg, OneLess(filled), call[p].to))
  /\ UNCHANGED <<status, due, ended, asg, busy, faults, updates, overwrites>>

Reopened(p) == IF call[p].count = 0 THEN "active" ELSE "partially_filled"
AfterReopen(p) == IF call[p].to = "none" THEN Return(p) ELSE Step(p, "commit")

ReopenAnyway(p) ==                                                      \* mutant
  /\ call[p].at = "reopen" /\ SetStatus(Reopened(p)) /\ AfterReopen(p)
  /\ UNCHANGED <<filled, due, asg, busy, faults, updates, overwrites>>
ReopenFew(p) ==                                                         \* mutant
  /\ call[p].at = "reopen" /\ AfterReopen(p)
  /\ SetStatus(IF status = "active" THEN Reopened(p) ELSE status)
  /\ UNCHANGED <<filled, due, asg, busy, faults, updates, overwrites>>
\* its second statement, from the count the first one returned
Reopen(p) ==
  /\ call[p].at = "reopen"
  /\ SetStatus(IF status \in Closed THEN status ELSE Reopened(p))
  /\ AfterReopen(p)
  /\ UNCHANGED <<filled, due, asg, busy, faults, updates, overwrites>>

CommitAnswer(p) ==
  LET a == call[p].asg IN
  /\ call[p].at = "commit"
  /\ SetAsg(a, call[p].to)
  /\ busy' = busy \ {TruckOf[a]}
  /\ Return(p)
  /\ UNCHANGED <<status, filled, due, ended, faults, updates, overwrites>>

\* the reconciliation gives up a trip that has not moved for a day or two
Abandon(p, a) ==
  /\ call[p] = Idle /\ asg[a] = "driver_accepted" /\ ~Locked(a)
  /\ SetAsg(a, "cancelled")
  /\ Go(p, Doing("free", a, 0, "none"))
  /\ UNCHANGED <<status, filled, due, ended, busy, faults, updates, overwrites>>

FreeUncounted(p) ==                                                     \* mutant
  /\ call[p].at = "free"
  /\ busy' = busy \ {TruckOf[call[p].asg]}
  /\ \/ status \in Open /\ Step(p, "lower")
     \/ status \notin Open /\ Return(p)
  /\ UNCHANGED <<status, filled, due, ended, asg, faults, updates, overwrites>>
\* It frees the vehicle, then reads the booking: a cancelled or completed one
\* is left alone, unless it has been revived by then.
FreeAbandoned(p) ==
  /\ call[p].at = "free"
  /\ busy' = busy \ {TruckOf[call[p].asg]}
  /\ \/ Step(p, "lower")
     \/ status \in {"cancelled", "completed"} /\ Return(p)
  /\ UNCHANGED <<status, filled, due, ended, asg, faults, updates, overwrites>>

\* a vehicle busy for ten minutes with no live assignment: what some handler
\* has yet to free is never as old as that
FreeOrphan(t) ==
  /\ t \in busy /\ ~LiveOn(t)
  /\ \A p \in Procs : /\ t \notin call[p].trucks
                      /\ call[p].asg # None => TruckOf[call[p].asg] # t
  /\ busy' = busy \ {t}
  /\ UNCHANGED <<status, filled, due, ended, asg, call, faults, updates, overwrites>>

---------------------------------------------------------------------------
(* The end of the booking *)

\* cancelBooking: one transaction for the booking and its assignments, whose
\* locks it waits for, then the vehicles one at a time.  When it waits for an
\* answer that waits for it, in Lower or Reopen, the answer's transaction times
\* out and rolls back first (Crash).
CancelBooking(p) ==
  LET trucks == {TruckOf[a] : a \in {b \in Assignments : Live(b)}} IN
  /\ call[p] = Idle /\ status \notin Closed
  /\ \A a \in Assignments : Live(a) => ~Locked(a)
  /\ SetStatus("cancelled")
  /\ asg' = [a \in Assignments |-> IF asg[a] \in LiveStatuses THEN "cancelled" ELSE asg[a]]
  /\ Go(p, IF trucks = {} THEN Idle ELSE Releasing(trucks))
  /\ UNCHANGED <<filled, due, busy, faults, updates, overwrites>>

ReleaseVehicle(p, t) ==
  /\ call[p].at = "release" /\ t \in call[p].trucks
  /\ busy' = busy \ {t}
  /\ Go(p, IF call[p].trucks = {t} THEN Idle
           ELSE Releasing(call[p].trucks \ {t}))
  /\ UNCHANGED <<status, filled, due, ended, asg, faults, updates, overwrites>>

Tick ==
  /\ ~due /\ due' = TRUE
  /\ UNCHANGED <<status, filled, ended, asg, busy, call, faults, updates, overwrites>>

\* handleBookingTimeout, from the booking's timer or the sweep of the table: it
\* reads the booking ...
ExpireBegin(p) ==
  /\ call[p] = Idle /\ due /\ status \in Open
  /\ Go(p, Doing("expire", None, filled, "none"))
  /\ UNCHANGED <<status, filled, due, ended, asg, busy, faults, updates, overwrites>>

ExpireFilled(p) ==                                                      \* mutant
  /\ call[p].at = "expire"
  /\ SetStatus(IF call[p].count = 0 /\ status \in Open THEN "expired" ELSE status)
  /\ Return(p)
  /\ UNCHANGED <<filled, due, asg, busy, faults, updates, overwrites>>
\* ... and expires it if it lacked trucks and is still open
ExpireCommit(p) ==
  /\ call[p].at = "expire"
  /\ SetStatus(IF call[p].count < Needed /\ status \in Open THEN "expired" ELSE status)
  /\ Return(p)
  /\ UNCHANGED <<filled, due, asg, busy, faults, updates, overwrites>>

\* completeTrip, for updateStatus: the trip ends with its vehicle, then the booking
\* is looked at
TripEnds(p, a) ==
  /\ call[p] = Idle /\ asg[a] = "driver_accepted" /\ ~Locked(a)
  /\ SetAsg(a, "completed")
  /\ busy' = busy \ {TruckOf[a]}
  /\ Go(p, Doing("check", None, 0, "none"))
  /\ UNCHANGED <<status, filled, due, ended, faults, updates, overwrites>>

\* What updateStatus, and updateTripStatus of the tracker, may write by id.
MayWrite == [pending         |-> {"driver_accepted", "driver_declined", "cancelled"},
             driver_accepted |-> {"driver_accepted", "in_transit", "cancelled", "completed"}]

\* They read the assignment and check the transition ...
ReadAssignment(p, a) ==
  /\ call[p] = Idle /\ Live(a)
  /\ Within /\ updates' = updates + 1
  /\ \E to \in MayWrite[asg[a]] : Go(p, Doing("write", a, 0, to))
  /\ UNCHANGED <<status, filled, due, ended, asg, busy, faults, overwrites>>

\* ... the first trip that starts takes the booking along, before the assignment
\* is written or, from the tracker, after ...
StartBooking(p) ==
  /\ call[p].at \in {"write", "start"} /\ call[p].to = "in_transit"
  /\ SetStatus(IF status \in {"fully_filled", "partially_filled"} THEN "in_progress" ELSE status)
  /\ IF call[p].at = "start" THEN Return(p) ELSE UNCHANGED call
  /\ UNCHANGED <<filled, due, asg, busy, faults, updates, overwrites>>

Written(to) == IF to = "in_transit" THEN "driver_accepted" ELSE to

\* ... and the assignment is written, whatever it has become: an answer may be
\* overwritten, and nobody counts down or releases the vehicle of what ends.
Loses(a, s) == /\ asg[a] # s
               /\ asg[a] \notin LiveStatuses \/ s \in {"driver_declined", "cancelled"}
WriteAssignment(p) ==
  LET a == call[p].asg
      s == Written(call[p].to)
  IN
  /\ call[p].at = "write" /\ ~Locked(a)
  /\ SetAsg(a, s)
  /\ overwrites' = IF Loses(a, s) THEN overwrites + 1 ELSE overwrites
  /\ CASE call[p].to = "in_transit" -> Step(p, "start")
       [] call[p].to = "completed"  -> Step(p, "end")
       [] OTHER                     -> Return(p)
  /\ UNCHANGED <<status, filled, due, ended, busy, faults, updates>>

\* completeTrip, for the tracker: it has just written the end of the trip, and so
\* finds it ended, and leaves the vehicle and the booking as they are.
EndTrip(p) ==
  LET a == call[p].asg IN
  /\ call[p].at = "end" /\ ~Locked(a)
  /\ IF Live(a)
     THEN /\ SetAsg(a, "completed")
          /\ busy' = busy \ {TruckOf[a]}
          /\ Go(p, Doing("check", None, 0, "none"))
     ELSE Return(p) /\ UNCHANGED <<asg, busy>>
  /\ UNCHANGED <<status, filled, due, ended, faults, updates, overwrites>>

\* checkBookingCompletion reads; a declined assignment keeps it from completing
CheckCompletion(p) ==
  /\ call[p].at = "check"
  /\ IF /\ \A a \in Assignments : asg[a] \in {"none", "completed", "cancelled"}
        /\ status \notin {"completed", "cancelled"}
     THEN Step(p, "complete")
     ELSE Return(p)
  /\ UNCHANGED <<status, filled, due, ended, asg, busy, faults, updates, overwrites>>

\* and writes by id
Complete(p) ==
  /\ call[p].at = "complete"
  /\ SetStatus("completed")
  /\ Return(p)
  /\ UNCHANGED <<filled, due, asg, busy, faults, updates, overwrites>>

\* A call ends where it is: its process dies, a statement fails, its transaction
\* times out.  What has not committed is undone.
Crash(p) ==
  /\ call[p] # Idle /\ Within
  /\ faults' = faults + 1
  /\ Return(p)
  /\ UNCHANGED <<status, filled, due, ended, asg, busy, updates, overwrites>>

---------------------------------------------------------------------------
Continue(p) ==
  \/ AcceptCommit(p) \/ AssignCommit(p) \/ Schedule(p)
  \/ Lower(p) \/ Reopen(p) \/ CommitAnswer(p) \/ FreeAbandoned(p)
  \/ \E t \in Trucks : ReleaseVehicle(p, t)
  \/ ExpireCommit(p) \/ CheckCompletion(p) \/ Complete(p)
  \/ StartBooking(p) \/ WriteAssignment(p) \/ EndTrip(p)

Next ==
  \/ \E p \in Procs : Continue(p) \/ ScheduleFails(p) \/ Crash(p)
  \/ \E p \in Procs : CancelBooking(p) \/ ExpireBegin(p)
  \/ \E p \in Procs, a \in Assignments :
       \/ AcceptBegin(p, a) \/ AssignBegin(p, a)
       \/ \E to \in {"driver_declined", "cancelled"} : Answer(p, a, to)
       \/ Abandon(p, a) \/ TripEnds(p, a) \/ ReadAssignment(p, a)
  \/ \E a \in Assignments : DriverAccepts(a)
  \/ \E t \in Trucks : FreeOrphan(t)
  \/ Tick

Spec == Init /\ [][Next]_vars

\* A call that runs goes on, time passes, and the periodic work comes round: the
\* sweep of due bookings, the timeouts and their reconciliation, the orphaned
\* vehicles.  Strong where it needs a free process: the number of processes is
\* the model's, a handler of the code starts whatever else is running.
Fairness ==
  /\ \A p \in Procs : WF_vars(Continue(p))
  /\ WF_vars(Tick)
  /\ SF_vars(\E p \in Procs : ExpireBegin(p))
  /\ \A a \in Assignments : SF_vars(\E p \in Procs : Answer(p, a, "driver_declined"))
  /\ \A t \in Trucks : SF_vars(FreeOrphan(t))

FairSpec == Spec /\ Fairness

---------------------------------------------------------------------------
\* Every variable is of its type.
TypeOK ==
  /\ status \in BookingStatus
  /\ filled \in 0 .. Needed
  /\ due \in BOOLEAN /\ ended \in BOOLEAN
  /\ asg \in [Assignments -> AsgStatus]
  /\ busy \subseteq Trucks
  /\ call \in [Procs -> Call]
  /\ faults \in 0 .. MaxEvents /\ updates \in 0 .. MaxEvents /\ overwrites \in Nat

\* A booking shown as full has a truck for every place, unless the answer that
\* took one away is about to say so: nobody else would open it again, since a
\* full booking is neither offered nor expired.
FullMeansFull ==
  faults = 0 /\ status = "fully_filled" /\ filled < Needed =>
    \E p \in Procs : call[p].at = "reopen"

\* The places counted as taken have an assignment, live or delivered, or one
\* the reconciliation has ended and will yet count down, while the booking has
\* never been closed.  Apart from a fault, only a status update by id that ends
\* an assignment, or revives one and leaves it to another end, loses a place: one.
Backing == {a \in Assignments : asg[a] \in LiveStatuses \union {"completed"}}
GivingUp == {p \in Procs : call[p].to = "none" /\ call[p].at \in {"free", "lower"}}
FilledIsBacked ==
  faults = 0 /\ ~ended =>
    filled <= Cardinality(Backing) + Cardinality(GivingUp) + overwrites

\* A closed booking stays as it was closed, whatever declines, timeouts and
\* expiries come late: only an acceptance or a completion check that had read
\* the booking before can write over it.
HadRead == \E p \in Procs : call[p].at \in {"accept", "complete"} /\ call'[p] = Idle
EndStands == [][(status \in Closed /\ status' # status) => HadRead]_vars

\* The assignments that have a place: one that stands and no answer has counted
\* down, and one the reconciliation has ended and not counted down yet.
Spends(c) == c.to # "none" /\ c.at \in {"reopen", "commit"}
GivesUp(c) == c.to = "none" /\ c.at \in {"free", "lower"}
Spent(a) == \E p \in Procs : call[p].asg = a /\ Spends(call[p])
GivenUp(a) == \E p \in Procs : call[p].asg = a /\ GivesUp(call[p])
Counted == {a \in Assignments : (a \in Backing /\ ~Spent(a)) \/ GivenUp(a)}

Places == INSTANCE BookingPlaces WITH
            counted <- Counted, closed <- ended, disturbed <- faults > 0

\* Acceptances, assignments, answers, timeouts, the reconciliation, status updates
\* and the ends of trips and bookings implement the places of BookingPlaces,
\* although the count is written in a transaction of its own: a place is taken
\* and given back once for each assignment, and only a status update by id changes
\* an assignment that was answered, or ends one without giving its place back.
KeepsPlaces == Places!PlaceSpec

\* Nothing goes on for ever.  A booking whose time is up stops looking for
\* trucks, a vehicle that is busy has an assignment, and, as createAssignment
\* says, "Driver has 30s to accept/decline, then auto-expires": an assignment
\* that stays pending is one of a closed booking, which no answer can end any
\* more (Lower).
SearchIsOver == status \in Open => filled = Needed
BusyHasWork == \A t \in busy : LiveOn(t)
PendingIsOver == (\E a \in Assignments : asg[a] = "pending") => status \in Closed
Settles == <>[](SearchIsOver /\ BusyHasWork /\ PendingIsOver)
=============================================================================
