------------------------ MODULE DriverResponseProofs ------------------------
(* Proofs about DriverResponse: its types, one live assignment per truck      *)
(* request, the count that covers the live assignments, the acceptance that   *)
(* stands, the vehicles that nobody strands and the seats of TruckSeats.      *)
EXTENDS DriverResponse, FiniteSetTheorems, TLAPS

-----------------------------------------------------------------------------
(* What a handler in flight knows                                            *)

Single == Abandoning \union {"declineTruck", "declineVehicle", "undo", "write", "start", "end"}

\* A handler is about assignments that exist, most of them about one; the
\* transaction of a decline or a cancellation keeps its assignment live until it
\* commits; an abandoned trip is cancelled as long as it has not strayed.
Known(p) ==
  /\ \A a \in call[p].asgs : asg[a].status # "none"
  /\ call[p].at \in Single => \E a \in Assignments : call[p].asgs = {a}
  /\ call[p].at = "undo" =>
       /\ call[p].to \in {"driver_declined", "cancelled"}
       /\ \A a \in call[p].asgs :
            \/ asg[a].status = "pending"
            \/ asg[a].status = "driver_accepted" /\ call[p].to = "cancelled"
  /\ call[p].at = "write" => call[p].to \in Updates
  /\ call[p].at \in Abandoning =>
       \A a \in call[p].asgs : asg[a].status = "cancelled" \/ a \in strayed

\* An abandoned trip that has not strayed has one handler to free its vehicle and
\* count it out, and one transaction at most ends an assignment of an order.
CallInv ==
  /\ \A p \in Procs : Known(p)
  /\ \A p, q \in Procs : call[p].at \in Abandoning /\ call[q].at \in Abandoning =>
       \A a \in call[p].asgs \intersect call[q].asgs : p = q \/ a \in strayed
  /\ \A p, q \in Procs, a, b \in Assignments :
       Undoing(p, a) /\ Undoing(q, b) /\ OrderOf[asg[a].truck] = OrderOf[asg[b].truck] => p = q
  /\ \A a \in strayed : asg[a].status # "none"

-----------------------------------------------------------------------------
(* Types                                                                     *)

\* What is written into `call` keeps its type.
LEMMA CallTypes ==
  ASSUME NEW c \in Call, NEW s \in Stage, NEW o \in Orders \union {None},
         NEW A \in SUBSET Assignments, NEW T \in SUBSET Trucks, NEW V \in SUBSET Vehicles
  PROVE  /\ [c EXCEPT !.at = s] \in Call
         /\ [c EXCEPT !.asgs = A] \in Call
         /\ [c EXCEPT !.vehicles = V] \in Call
         /\ [[c EXCEPT !.at = s] EXCEPT !.trucks = T] \in Call
<1>1. [c EXCEPT !.at = s] \in Call
  BY DEF Call
<1>2. [c EXCEPT !.asgs = A] \in Call
  BY DEF Call
<1>3. [c EXCEPT !.vehicles = V] \in Call
  BY DEF Call
<1>4. \A d \in Call : [d EXCEPT !.trucks = T] \in Call
  BY DEF Call
<1> QED
  BY <1>1, <1>2, <1>3, <1>4

\* A handler begins from the idle record.
LEMMA IdleType == Idle \in Call
BY DEF Idle, Call, Stage

LEMMA BeginOnAsgs ==
  ASSUME NEW s \in Stage, NEW A \in SUBSET Assignments
  PROVE  [Idle EXCEPT !.at = s, !.asgs = A] \in Call
<1>1. \A c \in Call : [c EXCEPT !.at = s, !.asgs = A] \in Call
  BY DEF Call
<1> QED
  BY <1>1, IdleType

LEMMA BeginOnVehicles ==
  ASSUME NEW s \in Stage, NEW V \in SUBSET Vehicles
  PROVE  [Idle EXCEPT !.at = s, !.vehicles = V] \in Call
<1>1. \A c \in Call : [c EXCEPT !.at = s, !.vehicles = V] \in Call
  BY DEF Call
<1> QED
  BY <1>1, IdleType

LEMMA BeginOnOrder ==
  ASSUME NEW s \in Stage, NEW o \in Orders, NEW T \in SUBSET Trucks
  PROVE  /\ [Idle EXCEPT !.at = s, !.order = o] \in Call
         /\ [Idle EXCEPT !.at = s, !.order = o, !.trucks = T] \in Call
<1>1. \A c \in Call : [c EXCEPT !.at = s, !.order = o] \in Call
  BY DEF Call
<1>2. \A c \in Call : [c EXCEPT !.at = s, !.order = o, !.trucks = T] \in Call
  BY DEF Call
<1> QED
  BY <1>1, <1>2, IdleType

LEMMA StageTypes == 
  {"declineTruck", "declineVehicle", "holdExpiry", "expireTrucks", "expireOrder",
   "closeHolds", "findTrips", "cancelPending", "cancelRest", "refetch",
   "freeVehicles", "cleanOrder", "cleanTrucks", "freeAbandoned",
   "countAbandoned", "undo", "write", "start", "end"} \subseteq Stage
BY DEF Stage

\* What a call about one assignment begins with.
LEMMA WritingCall ==
  ASSUME TypeOK, NEW p \in Procs, NEW s \in Stage, NEW a \in Assignments, NEW to \in Updates,
         Writing(p, s, a, to)
  PROVE  /\ call' \in [Procs -> Call]
         /\ call'[p].at = s /\ call'[p].asgs = {a} /\ call'[p].to = to
         /\ \A q \in Procs : q # p => call'[q] = call[q]
<1> DEFINE d == [Idle EXCEPT !.at = s, !.asgs = {a}, !.to = to]
<1>1. \A c \in Call : /\ [c EXCEPT !.at = s, !.asgs = {a}, !.to = to] \in Call
                      /\ [c EXCEPT !.at = s, !.asgs = {a}, !.to = to].at = s
                      /\ [c EXCEPT !.at = s, !.asgs = {a}, !.to = to].asgs = {a}
                      /\ [c EXCEPT !.at = s, !.asgs = {a}, !.to = to].to = to
  BY DEF Call
<1>2. d \in Call /\ d.at = s /\ d.asgs = {a} /\ d.to = to
  BY <1>1, IdleType
<1>3. call' = [call EXCEPT ![p] = d]
  BY DEF Writing
<1> HIDE DEF d
<1> QED
  BY <1>2, <1>3 DEF TypeOK

LEMMA TypeInit == Init => TypeOK
<1> SUFFICES ASSUME Init PROVE TypeOK
  OBVIOUS
<1>1. call \in [Procs -> Call]
  BY DEF Init, Idle, Call, Stage
<1>2. asg \in [Assignments -> Row] /\ \A a \in Assignments : asg[a].status = "none"
  BY DEF Init, Row, NoRow, AsgStatus
<1> QED
  BY <1>1, <1>2, DriverResponseAssumption DEF Init, TypeOK, OrderStatus, TruckStatus, VehicleStatus

\* The assignments: which rows a step changes, and how.
LEMMA AsgRecord ==
  ASSUME TypeOK, NEW S \in SUBSET Assignments, NEW s \in AsgStatus \ {"none"},
         \A a \in S : asg[a].status # "none", SetAsgs(S, s)
  PROVE  /\ asg' \in [Assignments -> Row]
         /\ \A a \in Assignments : /\ asg'[a].status = IF a \in S THEN s ELSE asg[a].status
                                   /\ asg'[a].truck = asg[a].truck
                                   /\ asg'[a].vehicle = asg[a].vehicle
<1>1. \A a \in Assignments :
        asg'[a] = IF a \in S THEN [asg[a] EXCEPT !.status = s] ELSE asg[a]
  BY DEF SetAsgs
<1>2. \A a \in Assignments : [asg[a] EXCEPT !.status = s] \in Row
  BY DEF TypeOK, Row
<1>3. \A a \in Assignments :
        /\ [asg[a] EXCEPT !.status = s].status = s
        /\ [asg[a] EXCEPT !.status = s].truck = asg[a].truck
        /\ [asg[a] EXCEPT !.status = s].vehicle = asg[a].vehicle
  BY DEF TypeOK, Row
<1>4. asg' \in [Assignments -> Row]
  BY <1>2 DEF SetAsgs, TypeOK
<1> QED
  BY <1>1, <1>3, <1>4

LEMMA AsgTypes ==
  ASSUME TypeOK, NEW S \in SUBSET Assignments, NEW s \in AsgStatus \ {"none"},
         \A a \in S : asg[a].status # "none", SetAsgs(S, s)
  PROVE  /\ asg' \in [Assignments -> Row]
         /\ \A b \in Assignments : asg'[b].status # "none" =>
              asg'[b].truck \in Trucks /\ asg'[b].vehicle \in Vehicles
<1>1. /\ asg' \in [Assignments -> Row]
      /\ \A a \in Assignments : /\ asg'[a].status = IF a \in S THEN s ELSE asg[a].status
                                /\ asg'[a].truck = asg[a].truck
                                /\ asg'[a].vehicle = asg[a].vehicle
  BY AsgRecord
<1> QED
  BY <1>1 DEF TypeOK

LEMMA AnswerTypes ==
  ASSUME TypeOK,
         \/ \E t \in Trucks : Hold(t)
         \/ \E t \in Trucks, v \in Vehicles, a \in Assignments :
              Confirm(t, v, a) \/ AcceptRequest(t, v, a)
         \/ \E a \in Assignments : Answer(a),
         UNCHANGED history
  PROVE  TypeOK'
<1> USE DriverResponseAssumption DEF history
<1>1. ASSUME NEW t \in Trucks, Hold(t) PROVE TypeOK'
  BY <1>1 DEF Hold, TypeOK, TruckStatus
<1>2. ASSUME NEW t \in Trucks, NEW v \in Vehicles, NEW a \in Assignments,
             Confirm(t, v, a) \/ AcceptRequest(t, v, a)
      PROVE  TypeOK'
  <2> DEFINE o == OrderOf[t]
             filled == order[o].filled + 1
             new == [status |-> "pending", truck |-> t, vehicle |-> v]
  <2>1. Assign(t, v, a)
    BY <1>2 DEF Confirm, AcceptRequest
  <2>2. order' \in [Orders -> [status: OrderStatus, filled: Nat]]
    <3>1. o \in Orders /\ filled \in Nat
      BY DEF TypeOK
    <3>2. Cardinality(TrucksOf(o)) \in Nat
      BY FS_Subset, FS_CardinalityType DEF TrucksOf
    <3> QED
      BY <2>1, <3>1, <3>2 DEF Assign, TypeOK, OrderStatus
  <2>3. new \in Row
    BY DEF Row, AsgStatus
  <2>4. /\ asg' \in [Assignments -> Row]
        /\ \A b \in Assignments : asg'[b].status # "none" =>
             asg'[b].truck \in Trucks /\ asg'[b].vehicle \in Vehicles
    BY <2>1, <2>3 DEF Assign, TypeOK
  <2>5. truck' \in [Trucks -> TruckStatus] /\ vehicle' \in [Vehicles -> VehicleStatus]
    BY <2>1 DEF Assign, TypeOK, TruckStatus, VehicleStatus
  <2> QED
    BY <2>1, <2>2, <2>4, <2>5 DEF Assign, TypeOK
<1>3. ASSUME NEW a \in Assignments, Accept(a) \/ AcceptInHold(a) \/ Complete(a) PROVE TypeOK'
  <2>1. PICK s \in AsgStatus \ {"none"} : SetAsgs({a}, s) /\ asg[a].status # "none"
    BY <1>3 DEF Accept, AcceptInHold, Complete, AsgStatus
  <2>2. vehicle' \in [Vehicles -> VehicleStatus]
    BY <1>3 DEF Accept, AcceptInHold, Complete, FreeVehicle, TypeOK, VehicleStatus
  <2>3. /\ asg' \in [Assignments -> Row]
        /\ \A b \in Assignments : asg'[b].status # "none" =>
             asg'[b].truck \in Trucks /\ asg'[b].vehicle \in Vehicles
    BY <2>1, AsgTypes
  <2> QED
    BY <1>3, <2>2, <2>3 DEF Accept, AcceptInHold, Complete, TypeOK
<1>4. ASSUME NEW a \in Assignments, TimeOut(a) PROVE TypeOK'
  <2>1. SetAsgs({a}, "driver_declined") /\ asg[a].status # "none"
    BY <1>4 DEF TimeOut
  <2>2. "driver_declined" \in AsgStatus \ {"none"}
    BY DEF AsgStatus
  <2>3. order' \in [Orders -> [status: OrderStatus, filled: Nat]]
    BY <1>4 DEF TimeOut, Unfill, OneLess, TypeOK
  <2>4. truck' \in [Trucks -> TruckStatus] /\ vehicle' \in [Vehicles -> VehicleStatus]
    BY <1>4 DEF TimeOut, FreeVehicle, Reopen, TypeOK, TruckStatus, VehicleStatus
  <2>5. /\ asg' \in [Assignments -> Row]
        /\ \A b \in Assignments : asg'[b].status # "none" =>
             asg'[b].truck \in Trucks /\ asg'[b].vehicle \in Vehicles
    BY <2>1, <2>2, AsgTypes
  <2> QED
    BY <1>4, <2>3, <2>4, <2>5 DEF TimeOut, TypeOK
<1> QED
  BY <1>1, <1>2, <1>3, <1>4 DEF Answer

LEMMA BeginTypes ==
  ASSUME TypeOK, NEW p \in Procs, Begin(p), UNCHANGED history
  PROVE  TypeOK'
<1> USE DriverResponseAssumption DEF history
<1>1. ASSUME NEW a \in Assignments, DeclineInHold(p, a) \/ CancelAbandoned(p, a) PROVE TypeOK'
  <2>1. order' \in [Orders -> [status: OrderStatus, filled: Nat]]
    BY <1>1 DEF DeclineInHold, CancelAbandoned, Unfill, OneLess, TypeOK
  <2>2. /\ [Idle EXCEPT !.at = "declineTruck", !.asgs = {a}] \in Call
        /\ [Idle EXCEPT !.at = "freeAbandoned", !.asgs = {a}] \in Call
    BY BeginOnAsgs, StageTypes
  <2>3. call' \in [Procs -> Call]
    BY <1>1, <2>2 DEF DeclineInHold, CancelAbandoned, TypeOK
  <2>4. PICK s \in AsgStatus \ {"none"} : SetAsgs({a}, s) /\ asg[a].status # "none"
    BY <1>1 DEF DeclineInHold, CancelAbandoned, AsgStatus
  <2>5. /\ asg' \in [Assignments -> Row]
        /\ \A b \in Assignments : asg'[b].status # "none" =>
             asg'[b].truck \in Trucks /\ asg'[b].vehicle \in Vehicles
    BY <2>4, AsgTypes
  <2> QED
    BY <1>1, <2>1, <2>3, <2>5 DEF DeclineInHold, CancelAbandoned, TypeOK
<1>2. ASSUME FindOrphans(p) PROVE TypeOK'
  <2>1. [Idle EXCEPT !.at = "freeVehicles", !.vehicles = {v \in Vehicles : Orphaned(v)}] \in Call
    BY BeginOnVehicles, StageTypes
  <2>2. call' \in [Procs -> Call]
    BY <1>2, <2>1 DEF FindOrphans, TypeOK
  <2> QED
    BY <1>2, <2>2 DEF FindOrphans, TypeOK
<1>3. ASSUME NEW o \in Orders, BeginHoldExpiry(p, o) \/ ExpiryRead(p, o) \/ CleanupRead(p, o)
      PROVE  TypeOK'
  <2>1. LiveOf(o) \in SUBSET Assignments
    BY DEF LiveOf, OfOrder
  <2>2. [Idle EXCEPT !.at = "holdExpiry", !.asgs = LiveOf(o)] \in Call
    BY <2>1, BeginOnAsgs, StageTypes
  <2>3. {t \in TrucksOf(o) : truck[t] = "searching"} \in SUBSET Trucks
    BY DEF TrucksOf
  <2>4. [Idle EXCEPT !.at = "expireTrucks", !.order = o,
           !.trucks = {t \in TrucksOf(o) : truck[t] = "searching"}] \in Call
    BY <2>3, BeginOnOrder, StageTypes
  <2>5. [Idle EXCEPT !.at = "cleanOrder", !.order = o] \in Call
    BY BeginOnOrder, StageTypes
  <2>6. call' \in [Procs -> Call]
    BY <1>3, <2>2, <2>4, <2>5 DEF BeginHoldExpiry, ExpiryRead, CleanupRead, TypeOK
  <2> QED
    BY <1>3, <2>6 DEF BeginHoldExpiry, ExpiryRead, CleanupRead, TypeOK
<1>4. ASSUME NEW a \in Assignments, Decline(p, a) \/ CancelAssignment(p, a) PROVE TypeOK'
  <2>1. PICK to \in {"driver_declined", "cancelled"} : Undo(p, a, to)
    BY <1>4 DEF Decline, CancelAssignment
  <2>2. call' \in [Procs -> Call]
    BY <2>1, WritingCall, StageTypes DEF Undo, Updates
  <2>3. truck' \in [Trucks -> TruckStatus]
    BY <2>1 DEF Undo, Reopen, TypeOK, TruckStatus
  <2> QED
    BY <2>1, <2>2, <2>3 DEF Undo, TypeOK
<1> QED
  BY <1>1, <1>2, <1>3, <1>4 DEF Begin

\* An order that loses a truck or expires keeps its type.
LEMMA OrderTypes ==
  ASSUME TypeOK, NEW x
  PROVE  /\ [order EXCEPT ![x].status = "expired"] \in [Orders -> [status: OrderStatus, filled: Nat]]
         /\ [order EXCEPT ![x].filled = OneLess(@)] \in [Orders -> [status: OrderStatus, filled: Nat]]
<1>1. CASE x \in Orders
  <2>1. OneLess(order[x].filled) \in Nat
    BY <1>1 DEF OneLess, TypeOK
  <2> QED
    BY <1>1, <2>1 DEF TypeOK, OrderStatus
<1>2. CASE x \notin Orders
  BY <1>2 DEF TypeOK
<1> QED
  BY <1>1, <1>2

\* The two steps that write a call's own stage.
LEMMA StepTypes ==
  ASSUME TypeOK, NEW p \in Procs
  PROVE  /\ \A s \in Stage : Step(p, s) => call' \in [Procs -> Call]
         /\ Return(p) => call' \in [Procs -> Call]
<1>1. call[p] \in Call /\ call \in [Procs -> Call]
  BY DEF TypeOK
<1>2. ASSUME NEW s \in Stage PROVE [call EXCEPT ![p].at = s] \in [Procs -> Call]
  <2>1. [call[p] EXCEPT !.at = s] \in Call
    BY <1>1 DEF Call
  <2> QED
    BY <1>1, <2>1
<1> QED
  BY <1>1, <1>2, IdleType DEF Step, Return

LEMMA ContinueTypes ==
  ASSUME TypeOK, CallInv, NEW p \in Procs,
         Continue(p), UNCHANGED history
  PROVE  TypeOK'
<1> USE DriverResponseAssumption, StageTypes DEF history
<1>1. CASE KeepTruck(p) \/ ReleaseDeclined(p) \/ FreeAbandoned(p) \/ CountAbandoned(p)
  <2>1. call' \in [Procs -> Call]
    BY <1>1, StepTypes DEF KeepTruck, ReleaseDeclined, FreeAbandoned, CountAbandoned
  <2>2. truck' \in [Trucks -> TruckStatus] /\ vehicle' \in [Vehicles -> VehicleStatus]
    BY <1>1 DEF KeepTruck, ReleaseDeclined, FreeAbandoned, CountAbandoned, FreeVehicle,
                TypeOK, TruckStatus, VehicleStatus
  <2>3. order' \in [Orders -> [status: OrderStatus, filled: Nat]]
    <3>1. \A x : [order EXCEPT ![x].filled = OneLess(@)]
                     \in [Orders -> [status: OrderStatus, filled: Nat]]
      BY OrderTypes
    <3>2. CASE CountAbandoned(p)
      BY <3>1, <3>2 DEF CountAbandoned, Unfill
    <3> QED
      BY <1>1, <3>2 DEF KeepTruck, ReleaseDeclined, FreeAbandoned, TypeOK
  <2> QED
    BY <1>1, <2>1, <2>2, <2>3
    DEF KeepTruck, ReleaseDeclined, FreeAbandoned, CountAbandoned, TypeOK
<1>2. ASSUME NEW a \in Assignments, ReleaseOne(p, a) PROVE TypeOK'
  <2>1. call[p] \in Call
    BY DEF TypeOK
  <2>2. [call[p] EXCEPT !.asgs = call[p].asgs \ {a}] \in Call
    BY <2>1 DEF Call
  <2>3. call' \in [Procs -> Call]
    BY <1>2, <2>2, StepTypes DEF ReleaseOne, TypeOK
  <2>4. /\ asg' \in [Assignments -> Row]
        /\ \A b \in Assignments : asg'[b].status # "none" =>
             asg'[b].truck \in Trucks /\ asg'[b].vehicle \in Vehicles
    <3>1. CASE asg[a].status \in Releasable /\ SetAsgs({a}, "cancelled")
      <4>1. asg[a].status # "none" /\ "cancelled" \in AsgStatus \ {"none"}
        BY <3>1 DEF Releasable, AsgStatus
      <4> QED
        BY <3>1, <4>1, AsgTypes
    <3>2. CASE UNCHANGED asg
      BY <3>2 DEF TypeOK
    <3> QED
      BY <1>2, <3>1, <3>2 DEF ReleaseOne
  <2>5. vehicle' \in [Vehicles -> VehicleStatus]
    BY <1>2 DEF ReleaseOne, FreeVehicle, TypeOK, VehicleStatus
  <2> QED
    BY <1>2, <2>3, <2>4, <2>5 DEF ReleaseOne, TypeOK
<1>3. CASE ExpireTrucks(p)
  <2>1. call[p] \in Call
    BY DEF TypeOK
  <2>2. [[call[p] EXCEPT !.at = "expireOrder"] EXCEPT !.trucks = {}] \in Call
    BY <2>1 DEF Call
  <2>3. call' \in [Procs -> Call]
    BY <1>3, <2>2 DEF ExpireTrucks, TypeOK
  <2>4. truck' \in [Trucks -> TruckStatus]
    BY <1>3 DEF ExpireTrucks, SetTrucks, TypeOK, TruckStatus
  <2> QED
    BY <1>3, <2>3, <2>4 DEF ExpireTrucks, TypeOK
<1>4. CASE ExpireOrder(p) \/ CloseHolds(p) \/ CleanOrder(p) \/ CleanTrucks(p)
  <2>1. call' \in [Procs -> Call]
    BY <1>4, StepTypes DEF ExpireOrder, CloseHolds, CleanOrder, CleanTrucks
  <2>2. truck' \in [Trucks -> TruckStatus]
    BY <1>4 DEF ExpireOrder, CloseHolds, CleanOrder, CleanTrucks, SetTrucks, TypeOK, TruckStatus
  <2>3. order' \in [Orders -> [status: OrderStatus, filled: Nat]]
    <3>1. [order EXCEPT ![call[p].order].status = "expired"]
            \in [Orders -> [status: OrderStatus, filled: Nat]]
      BY OrderTypes
    <3> QED
      BY <1>4, <3>1 DEF ExpireOrder, CloseHolds, CleanOrder, CleanTrucks, TypeOK
  <2> QED
    BY <1>4, <2>1, <2>2, <2>3 DEF ExpireOrder, CloseHolds, CleanOrder, CleanTrucks, TypeOK
<1>5. CASE FindTrips(p)
  <2>1. PICK arrived \in SUBSET Assignments :
          call' = [call EXCEPT ![p] =
            IF LiveOf(call[p].order) \ arrived = {} THEN Idle
            ELSE [Idle EXCEPT !.at = "cancelPending",
                              !.asgs = LiveOf(call[p].order) \ arrived]]
    BY <1>5 DEF FindTrips, LiveOf, OfOrder
  <2>2. LiveOf(call[p].order) \ arrived \in SUBSET Assignments
    BY DEF LiveOf, OfOrder
  <2>3. [Idle EXCEPT !.at = "cancelPending", !.asgs = LiveOf(call[p].order) \ arrived] \in Call
    BY <2>2, BeginOnAsgs
  <2>4. call' \in [Procs -> Call]
    BY <2>1, <2>3, IdleType DEF TypeOK
  <2> QED
    BY <1>5, <2>4 DEF FindTrips, TypeOK
<1>6. CASE CancelPending(p) \/ CancelRest(p)
  <2>1. PICK S \in SUBSET Assignments :
          SetAsgs(S, "cancelled") /\ \A a \in S : asg[a].status # "none"
    <3>1. call[p].asgs \in SUBSET Assignments
      BY DEF TypeOK, Call
    <3>2. CASE CancelPending(p)
      BY <3>1, <3>2 DEF CancelPending
    <3>3. CASE CancelRest(p)
      BY <3>1, <3>3 DEF CancelRest
    <3> QED
      BY <1>6, <3>2, <3>3
  <2>2. /\ asg' \in [Assignments -> Row]
        /\ \A b \in Assignments : asg'[b].status # "none" =>
             asg'[b].truck \in Trucks /\ asg'[b].vehicle \in Vehicles
    <3>1. "cancelled" \in AsgStatus \ {"none"}
      BY DEF AsgStatus
    <3> QED
      BY <2>1, <3>1, AsgTypes
  <2>3. call' \in [Procs -> Call]
    BY <1>6, StepTypes DEF CancelPending, CancelRest
  <2> QED
    BY <1>6, <2>2, <2>3 DEF CancelPending, CancelRest, TypeOK
<1>7. CASE Refetch(p)
  <2> DEFINE ended == {asg[a].vehicle : a \in {b \in call[p].asgs : asg[b].status = "cancelled"}}
  <2>1. ended \in SUBSET Vehicles
    BY DEF TypeOK, Call
  <2>2. [Idle EXCEPT !.at = "freeVehicles", !.vehicles = ended] \in Call
    BY <2>1, BeginOnVehicles
  <2>3. call' \in [Procs -> Call]
    BY <1>7, <2>2, IdleType DEF Refetch, TypeOK
  <2> QED
    BY <1>7, <2>3 DEF Refetch, TypeOK
<1>8. ASSUME NEW v \in Vehicles, ReleaseNext(p, v) PROVE TypeOK'
  <2>1. call[p] \in Call
    BY DEF TypeOK
  <2>2. [call[p] EXCEPT !.vehicles = call[p].vehicles \ {v}] \in Call
    BY <2>1 DEF Call
  <2>3. call' \in [Procs -> Call]
    BY <1>8, <2>2, StepTypes DEF ReleaseNext, TypeOK
  <2>4. vehicle' \in [Vehicles -> VehicleStatus]
    BY <1>8 DEF ReleaseNext, FreeVehicle, TypeOK, VehicleStatus
  <2> QED
    BY <1>8, <2>3, <2>4 DEF ReleaseNext, TypeOK
<1>9. CASE CommitUndo(p)
  <2>1. PICK a \in call[p].asgs : /\ SetAsgs({a}, call[p].to) /\ FreeVehicle(asg[a].vehicle)
                                  /\ Unfill(OrderOf[asg[a].truck])
    BY <1>9 DEF CommitUndo
  <2>2. a \in Assignments /\ asg[a].status # "none" /\ call[p].to \in AsgStatus \ {"none"}
    BY <1>9 DEF CommitUndo, CallInv, Known, TypeOK, Call, AsgStatus
  <2>3. /\ asg' \in [Assignments -> Row]
        /\ \A b \in Assignments : asg'[b].status # "none" =>
             asg'[b].truck \in Trucks /\ asg'[b].vehicle \in Vehicles
    BY <2>1, <2>2, AsgTypes
  <2>4. order' \in [Orders -> [status: OrderStatus, filled: Nat]]
    BY <2>1, OrderTypes DEF Unfill
  <2>5. vehicle' \in [Vehicles -> VehicleStatus]
    BY <2>1 DEF FreeVehicle, TypeOK, VehicleStatus
  <2>6. call' \in [Procs -> Call]
    BY <1>9, StepTypes DEF CommitUndo
  <2> QED
    BY <1>9, <2>3, <2>4, <2>5, <2>6 DEF CommitUndo, TypeOK
<1>10. CASE StartOrder(p)
  <2>1. call' \in [Procs -> Call]
    BY <1>10, StepTypes DEF StartOrder, TypeOK
  <2>2. order' \in [Orders -> [status: OrderStatus, filled: Nat]]
    <3>1. PICK o : order' = [order EXCEPT ![o].status =
                    IF @ \in {"fully_filled", "partially_filled"} THEN "in_progress" ELSE @]
      BY <1>10 DEF StartOrder
    <3>2. CASE o \in Orders
      <4>1. order[o].status \in OrderStatus /\ "in_progress" \in OrderStatus
        BY <3>2 DEF TypeOK, OrderStatus
      <4>2. PICK x \in OrderStatus : order' = [order EXCEPT ![o].status = x]
        BY <3>1, <4>1
      <4> QED
        BY <3>2, <4>2 DEF TypeOK
    <3>3. CASE o \notin Orders
      BY <3>1, <3>3 DEF TypeOK
    <3> QED
      BY <3>2, <3>3
  <2> QED
    BY <1>10, <2>1, <2>2 DEF StartOrder, TypeOK
<1>11. CASE EndTrip(p)
  <2>1. call' \in [Procs -> Call]
    BY <1>11, StepTypes DEF EndTrip
  <2>2. PICK a \in call[p].asgs :
          \/ Live(a) /\ SetAsgs({a}, "completed") /\ FreeVehicle(asg[a].vehicle)
          \/ UNCHANGED <<asg, vehicle>>
    BY <1>11 DEF EndTrip
  <2>3. a \in Assignments
    BY DEF TypeOK, Call
  <2>4. CASE Live(a) /\ SetAsgs({a}, "completed") /\ FreeVehicle(asg[a].vehicle)
    <3>1. asg[a].status # "none" /\ "completed" \in AsgStatus \ {"none"}
      BY <2>4 DEF Live, LiveStatuses, AsgStatus
    <3>2. /\ asg' \in [Assignments -> Row]
          /\ \A b \in Assignments : asg'[b].status # "none" =>
               asg'[b].truck \in Trucks /\ asg'[b].vehicle \in Vehicles
      BY <2>3, <2>4, <3>1, AsgTypes
    <3>3. vehicle' \in [Vehicles -> VehicleStatus]
      BY <2>4 DEF FreeVehicle, TypeOK, VehicleStatus
    <3> QED
      BY <1>11, <2>1, <3>2, <3>3 DEF EndTrip, TypeOK
  <2> QED
    BY <1>11, <2>1, <2>2, <2>4 DEF EndTrip, TypeOK
<1> QED
  BY <1>1, <1>2, <1>3, <1>4, <1>5, <1>6, <1>7, <1>8, <1>9, <1>10, <1>11 DEF Continue

\* A status update by id, and what may fail.
LEMMA HistoryTypes ==
  ASSUME TypeOK, CallInv, NEW p \in Procs,
         \/ \E a \in Assignments : ReadAssignment(p, a)
         \/ WriteAssignment(p) \/ Abandon(p) \/ \E v \in Vehicles : SkipVehicle(p, v)
  PROVE  TypeOK'
<1> USE DriverResponseAssumption, StageTypes
<1>1. ASSUME NEW a \in Assignments, ReadAssignment(p, a) PROVE TypeOK'
  <2>1. PICK to \in Updates : Writing(p, "write", a, to)
    <3>1. MayWrite[asg[a].status] \subseteq Updates
      BY <1>1 DEF ReadAssignment, Live, LiveStatuses, MayWrite, Updates
    <3> QED
      BY <1>1, <3>1 DEF ReadAssignment
  <2>2. call' \in [Procs -> Call]
    BY <2>1, WritingCall
  <2>3. updates' \in 0 .. MaxEvents
    BY <1>1 DEF ReadAssignment, Within, TypeOK
  <2> QED
    BY <1>1, <2>2, <2>3 DEF ReadAssignment, TypeOK
<1>2. CASE WriteAssignment(p)
  <2> DEFINE s == Written(call[p].to)
  <2>1. PICK a \in call[p].asgs :
          /\ SetAsgs({a}, s)
          /\ strayed' = IF Strays(a, s) THEN strayed \union {a} ELSE strayed
          /\ revived' = [revived EXCEPT ![OrderOf[asg[a].truck]] =
                           IF ~Live(a) /\ s \in LiveStatuses THEN @ + 1 ELSE @]
    BY <1>2 DEF WriteAssignment
  <2>2. a \in Assignments /\ asg[a].status # "none" /\ s \in AsgStatus \ {"none"}
    BY <1>2 DEF WriteAssignment, CallInv, Known, Written, Updates, TypeOK, Call, AsgStatus
  <2>3. /\ asg' \in [Assignments -> Row]
        /\ \A b \in Assignments : asg'[b].status # "none" =>
             asg'[b].truck \in Trucks /\ asg'[b].vehicle \in Vehicles
    BY <2>1, <2>2, AsgTypes
  <2>4. call' \in [Procs -> Call]
    BY <1>2, StepTypes DEF WriteAssignment
  <2>5. strayed' \subseteq Assignments /\ revived' \in [Orders -> Nat]
    BY <2>1, <2>2 DEF TypeOK
  <2> QED
    BY <1>2, <2>3, <2>4, <2>5 DEF WriteAssignment, TypeOK
<1>3. CASE Abandon(p)
  <2>1. call' \in [Procs -> Call]
    BY <1>3, StepTypes DEF Abandon
  <2>2. faults' \in 0 .. MaxEvents
    BY <1>3 DEF Abandon, Fault, Within, TypeOK
  <2>3. strayed' \subseteq Assignments
    BY <1>3 DEF Abandon, TypeOK, Call
  <2> QED
    BY <1>3, <2>1, <2>2, <2>3 DEF Abandon, TypeOK
<1>4. ASSUME NEW v \in Vehicles, SkipVehicle(p, v) PROVE TypeOK'
  <2>1. [call[p] EXCEPT !.vehicles = call[p].vehicles \ {v}] \in Call
    BY DEF TypeOK, Call
  <2>2. call' \in [Procs -> Call]
    BY <1>4, <2>1, StepTypes DEF SkipVehicle, TypeOK
  <2>3. faults' \in 0 .. MaxEvents
    BY <1>4 DEF SkipVehicle, Fault, Within, TypeOK
  <2> QED
    BY <1>4, <2>2, <2>3 DEF SkipVehicle, TypeOK, history
<1> QED
  BY <1>1, <1>2, <1>3, <1>4

LEMMA TypeStep == TypeOK /\ CallInv /\ [Next]_vars => TypeOK'
<1> SUFFICES ASSUME TypeOK, CallInv, [Next]_vars PROVE TypeOK'
  OBVIOUS
<1>1. CASE UNCHANGED vars
  BY <1>1 DEF vars, history, TypeOK
<1>2. CASE Regular /\ UNCHANGED history
  BY <1>2, AnswerTypes, BeginTypes, ContinueTypes DEF Regular
<1>3. CASE Next /\ ~(Regular /\ UNCHANGED history)
  BY <1>3, HistoryTypes DEF Next
<1> QED
  BY <1>1, <1>2, <1>3

-----------------------------------------------------------------------------
(* How an assignment moves                                                   *)

\* The moves of an assignment's status by whoever looks at it, that is by
\* everybody but a status update by id.
Moves == {<<"pending", "driver_accepted">>, <<"pending", "driver_declined">>,
          <<"pending", "cancelled">>, <<"pending", "completed">>,
          <<"driver_accepted", "completed">>, <<"driver_accepted", "cancelled">>,
          <<"driver_declined", "cancelled">>}

MovesTo(S, s) == \A a \in S : <<asg[a].status, s>> \in Moves

\* The commit of a decline or a cancellation.
LEMMA CommitIs ==
  ASSUME TypeOK, CallInv, NEW p \in Procs, CommitUndo(p)
  PROVE  \E a \in Assignments, s \in {"driver_declined", "cancelled"} :
           /\ call[p].asgs = {a} /\ Undoing(p, a) /\ Live(a)
           /\ SetAsgs({a}, s) /\ <<asg[a].status, s>> \in Moves
           /\ FreeVehicle(asg[a].vehicle) /\ Unfill(OrderOf[asg[a].truck])
<1>1. /\ call[p].at = "undo" /\ Known(p)
      /\ \E a \in call[p].asgs : /\ SetAsgs({a}, call[p].to) /\ FreeVehicle(asg[a].vehicle)
                                 /\ Unfill(OrderOf[asg[a].truck])
  BY DEF CommitUndo, CallInv
<1>2. PICK a \in Assignments : call[p].asgs = {a}
  BY <1>1 DEF Known, Single
<1>3. /\ SetAsgs({a}, call[p].to) /\ FreeVehicle(asg[a].vehicle)
      /\ Unfill(OrderOf[asg[a].truck])
  BY <1>1, <1>2
<1>4. /\ call[p].to \in {"driver_declined", "cancelled"} /\ Live(a)
      /\ <<asg[a].status, call[p].to>> \in Moves
  BY <1>1, <1>2 DEF Known, Live, LiveStatuses, Moves
<1> QED
  BY <1>1, <1>2, <1>3, <1>4 DEF Undoing

\* The write of a status update by id.
Written4 == {"driver_accepted", "driver_declined", "cancelled", "completed"}
LEMMA WriteIs ==
  ASSUME TypeOK, CallInv, NEW p \in Procs, WriteAssignment(p)
  PROVE  \E a \in Assignments, s \in Written4 :
           /\ call[p].asgs = {a} /\ asg[a].status # "none" /\ ~Locked(a)
           /\ SetAsgs({a}, s)
           /\ strayed' = IF Strays(a, s) THEN strayed \union {a} ELSE strayed
           /\ revived' = [revived EXCEPT ![OrderOf[asg[a].truck]] =
                            IF ~Live(a) /\ s \in LiveStatuses THEN @ + 1 ELSE @]
           /\ call[p].at = "write" /\ call'[p] # call[p]
<1>1. Known(p) /\ call[p] \in Call /\ call \in [Procs -> Call] /\ call[p].at = "write"
  BY DEF CallInv, TypeOK, WriteAssignment
<1>2. PICK a \in Assignments : call[p].asgs = {a}
  BY <1>1 DEF Known, Single
<1>3. /\ ~Locked(a) /\ SetAsgs({a}, Written(call[p].to))
      /\ strayed' = IF Strays(a, Written(call[p].to)) THEN strayed \union {a} ELSE strayed
      /\ revived' = [revived EXCEPT ![OrderOf[asg[a].truck]] =
                       IF ~Live(a) /\ Written(call[p].to) \in LiveStatuses THEN @ + 1 ELSE @]
  BY <1>2 DEF WriteAssignment
<1>4. Written(call[p].to) \in Written4
  BY <1>1 DEF Known, Written, Updates, Written4
<1>5. call'[p] # call[p]
  BY <1>1 DEF WriteAssignment, Step, Return, Idle, Call
<1> QED
  BY <1>1, <1>2, <1>3, <1>4, <1>5 DEF Known

\* Every step leaves the rows alone, makes a new one, moves some that nobody has
\* locked, commits the end of one, or writes one by id.
LEMMA StepKinds ==
  ASSUME TypeOK, CallInv, [Next]_vars
  PROVE  \/ asg' = asg
         \/ \E t \in Trucks, v \in Vehicles, a \in Assignments :
              truck[t] \in {"searching", "held"} /\ Assign(t, v, a) /\ UNCHANGED history
         \/ \E S \in SUBSET Assignments, s \in AsgStatus :
              /\ SetAsgs(S, s) /\ MovesTo(S, s) /\ \A a \in S : ~Locked(a)
              /\ s = "driver_accepted" => \E a \in Assignments : Accept(a) \/ AcceptInHold(a)
              /\ UNCHANGED history
         \/ \E p \in Procs : CommitUndo(p) /\ UNCHANGED history
         \/ \E p \in Procs : WriteAssignment(p)
<1> DEFINE Made == \E t \in Trucks, v \in Vehicles, a \in Assignments :
                     truck[t] \in {"searching", "held"} /\ Assign(t, v, a)
           Moved == \E S \in SUBSET Assignments, s \in AsgStatus :
                      /\ SetAsgs(S, s) /\ MovesTo(S, s) /\ \A a \in S : ~Locked(a)
                      /\ s = "driver_accepted" => \E a \in Assignments : Accept(a) \/ AcceptInHold(a)
           Goal == asg' = asg \/ Made \/ Moved \/ \E p \in Procs : CommitUndo(p)
<1>1. ASSUME NEW t \in Trucks, NEW v \in Vehicles, NEW a \in Assignments,
             Confirm(t, v, a) \/ AcceptRequest(t, v, a)
      PROVE  Goal
  BY <1>1 DEF Confirm, AcceptRequest
<1>2. ASSUME NEW a \in Assignments, NEW s \in AsgStatus, SetAsgs({a}, s), ~Locked(a),
             <<asg[a].status, s>> \in Moves,
             s = "driver_accepted" => \E b \in Assignments : Accept(b) \/ AcceptInHold(b)
      PROVE  Moved
  <2>1. {a} \in SUBSET Assignments
    OBVIOUS
  <2>2. MovesTo({a}, s) /\ \A b \in {a} : ~Locked(b)
    BY <1>2 DEF MovesTo
  <2> QED
    BY <1>2, <2>1, <2>2
<1>3. ASSUME NEW a \in Assignments, Answer(a) PROVE Goal
  <2>1. CASE Accept(a) \/ AcceptInHold(a)
    <3>1. SetAsgs({a}, "driver_accepted") /\ asg[a].status = "pending" /\ ~Locked(a)
      BY <2>1 DEF Accept, AcceptInHold
    <3> QED
      BY <1>2, <2>1, <3>1 DEF Moves, AsgStatus
  <2>2. CASE TimeOut(a)
    <3>1. SetAsgs({a}, "driver_declined") /\ asg[a].status = "pending" /\ ~Locked(a)
      BY <2>2 DEF TimeOut
    <3> QED
      BY <1>2, <3>1 DEF Moves, AsgStatus
  <2>3. CASE Complete(a)
    <3>1. SetAsgs({a}, "completed") /\ asg[a].status = "driver_accepted" /\ ~Locked(a)
      BY <2>3 DEF Complete
    <3> QED
      BY <1>2, <3>1 DEF Moves, AsgStatus
  <2> QED
    BY <1>3, <2>1, <2>2, <2>3 DEF Answer
<1>4. ASSUME NEW p \in Procs, NEW a \in Assignments,
             DeclineInHold(p, a) \/ CancelAbandoned(p, a) \/ ReleaseOne(p, a)
      PROVE  Goal
  <2>1. CASE DeclineInHold(p, a)
    <3>1. SetAsgs({a}, "driver_declined") /\ asg[a].status = "pending" /\ ~Locked(a)
      BY <2>1 DEF DeclineInHold
    <3> QED
      BY <1>2, <3>1 DEF Moves, AsgStatus
  <2>2. CASE CancelAbandoned(p, a)
    <3>1. SetAsgs({a}, "cancelled") /\ asg[a].status = "driver_accepted" /\ ~Locked(a)
      BY <2>2 DEF CancelAbandoned
    <3> QED
      BY <1>2, <3>1 DEF Moves, AsgStatus
  <2>3. CASE ReleaseOne(p, a)
    <3>1. \/ asg' = asg
          \/ /\ SetAsgs({a}, "cancelled") /\ asg[a].status \in {"pending", "driver_declined"}
             /\ ~Locked(a)
      BY <2>3 DEF ReleaseOne, Releasable
    <3>2. CASE asg' = asg
      BY <3>2
    <3>3. CASE /\ SetAsgs({a}, "cancelled") /\ asg[a].status \in {"pending", "driver_declined"}
               /\ ~Locked(a)
      BY <1>2, <3>3 DEF Moves, AsgStatus
    <3> QED
      BY <3>1, <3>2, <3>3
  <2> QED
    BY <1>4, <2>1, <2>2, <2>3
<1>5. ASSUME NEW p \in Procs, CancelPending(p) \/ CancelRest(p) PROVE Goal
  <2>1. call[p].asgs \in SUBSET Assignments
    BY DEF TypeOK, Call
  <2>2. PICK from \in {"pending", "driver_accepted"} :
          /\ SetAsgs({a \in call[p].asgs : asg[a].status = from}, "cancelled")
          /\ \A a \in {b \in call[p].asgs : asg[b].status = from} : ~Locked(a)
    BY <1>5 DEF CancelPending, CancelRest
  <2>3. MovesTo({a \in call[p].asgs : asg[a].status = from}, "cancelled")
    BY DEF MovesTo, Moves
  <2>4. {a \in call[p].asgs : asg[a].status = from} \in SUBSET Assignments
    BY <2>1
  <2>5. "cancelled" \in AsgStatus
    BY DEF AsgStatus
  <2> QED
    BY <2>2, <2>3, <2>4, <2>5
<1>6. ASSUME NEW p \in Procs, EndTrip(p) PROVE Goal
  <2>1. PICK a \in call[p].asgs : \/ Live(a) /\ ~Locked(a) /\ SetAsgs({a}, "completed")
                                  \/ asg' = asg
    BY <1>6 DEF EndTrip
  <2>2. a \in Assignments
    BY DEF TypeOK, Call
  <2>3. CASE Live(a) /\ ~Locked(a) /\ SetAsgs({a}, "completed")
    <3>1. <<asg[a].status, "completed">> \in Moves
      BY <2>3 DEF Live, LiveStatuses, Moves
    <3> QED
      BY <1>2, <2>2, <2>3, <3>1 DEF AsgStatus
  <2> QED
    BY <2>1, <2>3
<1>7. ASSUME NEW p \in Procs,
             \/ \E a \in Assignments : Decline(p, a) \/ CancelAssignment(p, a)
             \/ FindOrphans(p) \/ KeepTruck(p) \/ ReleaseDeclined(p) \/ StartOrder(p)
             \/ \E o \in Orders : BeginHoldExpiry(p, o) \/ ExpiryRead(p, o) \/ CleanupRead(p, o)
             \/ ExpireTrucks(p) \/ ExpireOrder(p) \/ CloseHolds(p) \/ FindTrips(p)
             \/ Refetch(p) \/ CleanOrder(p) \/ CleanTrucks(p) \/ FreeAbandoned(p)
             \/ CountAbandoned(p) \/ \E v \in Vehicles : ReleaseNext(p, v)
      PROVE  asg' = asg
  BY <1>7 DEF Decline, CancelAssignment, Undo, FindOrphans, KeepTruck, ReleaseDeclined, StartOrder,
              BeginHoldExpiry, ExpiryRead, CleanupRead, ExpireTrucks, ExpireOrder, CloseHolds,
              FindTrips, Refetch, CleanOrder, CleanTrucks, FreeAbandoned, CountAbandoned,
              ReleaseNext
<1>8. ASSUME \E t \in Trucks : Hold(t) PROVE asg' = asg
  BY <1>8 DEF Hold
<1> HIDE DEF Made, Moved, Goal
<1>9. ASSUME Regular PROVE Goal
  <2>1. asg' = asg => Goal
    BY DEF Goal
  <2>2. ASSUME NEW p \in Procs, CommitUndo(p) PROVE Goal
    BY <2>2 DEF Goal
  <2>3. ASSUME NEW p \in Procs, Begin(p) PROVE Goal
    BY <1>4, <1>7, <2>1, <2>3 DEF Begin
  <2>4. ASSUME NEW p \in Procs, Continue(p) PROVE Goal
    BY <1>4, <1>5, <1>6, <1>7, <2>1, <2>2, <2>4 DEF Continue
  <2>5. CASE \E t \in Trucks, v \in Vehicles, a \in Assignments :
               Confirm(t, v, a) \/ AcceptRequest(t, v, a)
    BY <1>1, <2>5
  <2> QED
    BY <1>3, <1>8, <1>9, <2>1, <2>3, <2>4, <2>5 DEF Regular
<1>10. ASSUME NEW p \in Procs,
              \/ \E a \in Assignments : ReadAssignment(p, a)
              \/ Abandon(p) \/ \E v \in Vehicles : SkipVehicle(p, v)
       PROVE  asg' = asg
  BY <1>10 DEF ReadAssignment, Abandon, SkipVehicle
<1>11. CASE UNCHANGED vars
  BY <1>11 DEF vars
<1>12. CASE Regular /\ UNCHANGED history
  BY <1>9, <1>12 DEF Goal, Made, Moved
<1> QED
  BY <1>10, <1>11, <1>12 DEF Next

\* What has strayed has, and so has a truck request.
LEMMA StrayedGrows == [Next]_vars => strayed \subseteq strayed'
<1> SUFFICES ASSUME [Next]_vars PROVE strayed \subseteq strayed'
  OBVIOUS
<1>1. ASSUME NEW p \in Procs, WriteAssignment(p) \/ Abandon(p) PROVE strayed \subseteq strayed'
  BY <1>1 DEF WriteAssignment, Abandon
<1>2. ASSUME NEW p \in Procs,
             \/ \E a \in Assignments : ReadAssignment(p, a)
             \/ \E v \in Vehicles : SkipVehicle(p, v)
      PROVE  strayed' = strayed
  BY <1>2 DEF ReadAssignment, SkipVehicle, history
<1> QED
  BY <1>1, <1>2 DEF Next, vars, history

\* A row that exists keeps its truck request and its vehicle and moves by Moves,
\* or strays by a status update by id; a row that does not exist comes to be as
\* pending.
LEMMA RowMoves ==
  ASSUME TypeOK, CallInv, [Next]_vars, NEW a \in Assignments
  PROVE  /\ asg[a].status # "none" =>
              /\ asg'[a].truck = asg[a].truck
              /\ asg'[a].vehicle = asg[a].vehicle
              /\ \/ asg'[a].status = asg[a].status
                 \/ <<asg[a].status, asg'[a].status>> \in Moves
                 \/ a \in strayed' /\ UpdatesById(a) /\ asg'[a].status \in Written4
         /\ asg[a].status = "none" => asg'[a].status \in {"none", "pending"}
<1>1. CASE asg' = asg
  BY <1>1
<1>2. ASSUME NEW t \in Trucks, NEW v \in Vehicles, NEW b \in Assignments, Assign(t, v, b)
      PROVE  /\ asg[a].status # "none" => asg'[a] = asg[a]
             /\ asg[a].status = "none" => asg'[a].status \in {"none", "pending"}
  BY <1>2 DEF Assign, NoRow, TypeOK
<1>3. ASSUME NEW S \in SUBSET Assignments, NEW s \in AsgStatus, SetAsgs(S, s), MovesTo(S, s)
      PROVE  /\ asg'[a].truck = asg[a].truck
             /\ asg'[a].vehicle = asg[a].vehicle
             /\ asg'[a].status = asg[a].status \/ <<asg[a].status, asg'[a].status>> \in Moves
  <2>1. CASE a \notin S
    BY <1>3, <2>1 DEF SetAsgs
  <2>2. CASE a \in S
    <3>1. asg'[a] = [asg[a] EXCEPT !.status = s] /\ <<asg[a].status, s>> \in Moves
      BY <1>3, <2>2 DEF SetAsgs, MovesTo
    <3>2. asg[a] \in Row
      BY DEF TypeOK
    <3> QED
      BY <3>1, <3>2 DEF Row
  <2> QED
    BY <2>1, <2>2
<1>4. \A s : <<"none", s>> \notin Moves
  BY DEF Moves
<1>5. ASSUME NEW p \in Procs, CommitUndo(p)
      PROVE  \E S \in SUBSET Assignments, s \in AsgStatus : SetAsgs(S, s) /\ MovesTo(S, s)
  <2>1. PICK b \in Assignments, s \in {"driver_declined", "cancelled"} :
          SetAsgs({b}, s) /\ <<asg[b].status, s>> \in Moves
    BY <1>5, CommitIs
  <2>2. MovesTo({b}, s) /\ {b} \in SUBSET Assignments /\ s \in AsgStatus
    BY <2>1 DEF MovesTo, AsgStatus
  <2> QED
    BY <2>1, <2>2
<1>6. ASSUME NEW p \in Procs, WriteAssignment(p)
      PROVE  /\ asg'[a].truck = asg[a].truck
             /\ asg'[a].vehicle = asg[a].vehicle
             /\ \/ asg'[a].status = asg[a].status
                \/ <<asg[a].status, asg'[a].status>> \in Moves
                \/ a \in strayed' /\ UpdatesById(a) /\ asg'[a].status \in Written4
             /\ asg[a].status = "none" => asg'[a].status = "none"
  <2>1. PICK b \in Assignments, s \in Written4 :
          /\ call[p].asgs = {b} /\ asg[b].status # "none" /\ SetAsgs({b}, s)
          /\ strayed' = IF Strays(b, s) THEN strayed \union {b} ELSE strayed
          /\ call[p].at = "write" /\ call'[p] # call[p]
    BY <1>6, WriteIs
  <2>2. CASE a # b
    BY <2>1, <2>2 DEF SetAsgs
  <2>3. CASE a = b
    <3>1. asg'[a] = [asg[a] EXCEPT !.status = s] /\ asg[a] \in Row
      BY <2>1, <2>3 DEF SetAsgs, TypeOK
    <3>2. /\ asg'[a].status = s /\ asg'[a].truck = asg[a].truck
          /\ asg'[a].vehicle = asg[a].vehicle
      BY <3>1 DEF Row
    <3>3. CASE Strays(b, s)
      BY <2>1, <2>3, <3>2, <3>3 DEF UpdatesById
    <3>4. CASE ~Strays(b, s)
      BY <2>1, <2>3, <3>2, <3>4 DEF Strays, Live, LiveStatuses, Moves, Written4
    <3> QED
      BY <2>1, <2>3, <3>2, <3>3, <3>4
  <2> QED
    BY <2>2, <2>3
<1>7. ASSUME NEW S \in SUBSET Assignments, NEW s \in AsgStatus, SetAsgs(S, s), MovesTo(S, s),
             asg[a].status = "none"
      PROVE  asg'[a].status = "none"
  <2>1. a \notin S
    BY <1>4, <1>7 DEF MovesTo
  <2> QED
    BY <1>7, <2>1 DEF SetAsgs
<1> QED
  BY <1>1, <1>2, <1>3, <1>5, <1>6, <1>7, StepKinds

LEMMA AstrayGrows ==
  ASSUME TypeOK, CallInv, [Next]_vars, NEW t, Astray(t)
  PROVE  Astray(t)'
<1>1. PICK a \in strayed : asg[a].truck = t
  BY DEF Astray
<1>2. a \in Assignments /\ asg[a].status # "none"
  BY DEF TypeOK, CallInv
<1>3. a \in strayed' /\ asg'[a].truck = t
  BY <1>1, <1>2, RowMoves, StrayedGrows
<1> QED
  BY <1>3 DEF Astray

-----------------------------------------------------------------------------
(* How a call moves                                                          *)

Acts(p) ==
  \/ Begin(p) \/ Continue(p) \/ \E a \in Assignments : ReadAssignment(p, a)
  \/ WriteAssignment(p) \/ Abandon(p) \/ \E v \in Vehicles : SkipVehicle(p, v)

\* A handler's step leaves the other handlers where they are.
LEMMA StepOfOne ==
  ASSUME TypeOK, NEW q \in Procs, Acts(q), NEW p \in Procs, p # q
  PROVE  call'[p] = call[p]
<1>1. CASE Begin(q)
  BY <1>1 DEF TypeOK, Begin, Decline, CancelAssignment, Undo, Writing, DeclineInHold,
              CancelAbandoned, FindOrphans, BeginHoldExpiry, ExpiryRead, CleanupRead
<1>2. CASE \E b \in Assignments : ReleaseOne(q, b)
  BY <1>2 DEF TypeOK, ReleaseOne, Return
<1>3. CASE \E v \in Vehicles : ReleaseNext(q, v) \/ SkipVehicle(q, v)
  BY <1>3 DEF TypeOK, ReleaseNext, SkipVehicle, Return
<1>4. CASE \/ KeepTruck(q) \/ ReleaseDeclined(q) \/ ExpireTrucks(q) \/ ExpireOrder(q)
           \/ CloseHolds(q) \/ FindTrips(q) \/ CommitUndo(q) \/ StartOrder(q) \/ EndTrip(q)
  BY <1>4 DEF TypeOK, KeepTruck, ReleaseDeclined, ExpireTrucks, ExpireOrder, CloseHolds,
              FindTrips, CommitUndo, StartOrder, EndTrip, Step, Return
<1>5. CASE \/ CancelPending(q) \/ CancelRest(q) \/ Refetch(q) \/ CleanOrder(q)
           \/ CleanTrucks(q) \/ FreeAbandoned(q) \/ CountAbandoned(q) \/ Abandon(q)
  BY <1>5 DEF TypeOK, CancelPending, CancelRest, Refetch, CleanOrder, CleanTrucks,
              FreeAbandoned, CountAbandoned, Abandon, Step, Return
<1>6. CASE WriteAssignment(q) \/ \E a \in Assignments : ReadAssignment(q, a)
  BY <1>6 DEF TypeOK, WriteAssignment, ReadAssignment, Writing, Step, Return
<1> QED
  BY <1>1, <1>2, <1>3, <1>4, <1>5, <1>6 DEF Acts, Continue

\* A call moves only by the steps of its own handler, and one at a time.
LEMMA OwnSteps ==
  ASSUME TypeOK, [Next]_vars, NEW p \in Procs, call'[p] # call[p]
  PROVE  Acts(p) /\ \A q \in Procs : q # p => call'[q] = call[q]
<1>1. ASSUME NEW t \in Trucks, NEW v \in Vehicles, NEW b \in Assignments,
             Confirm(t, v, b) \/ AcceptRequest(t, v, b)
      PROVE  FALSE
  BY <1>1 DEF Confirm, AcceptRequest, Assign
<1>2. ASSUME NEW t \in Trucks, Hold(t) PROVE FALSE
  BY <1>2 DEF Hold
<1>3. ASSUME NEW b \in Assignments, Answer(b) PROVE FALSE
  BY <1>3 DEF Answer, Accept, AcceptInHold, TimeOut, Complete
<1>4. ASSUME UNCHANGED vars PROVE FALSE
  BY <1>4 DEF vars
<1>5. PICK q \in Procs : Acts(q)
  BY <1>1, <1>2, <1>3, <1>4 DEF Next, Regular, Acts
<1>6. p = q
  BY <1>5, StepOfOne
<1> QED
  BY <1>5, <1>6, StepOfOne

\* While a transaction in flight has not moved, its assignment stays as it is.
LEMMA LockedStays ==
  ASSUME TypeOK, CallInv, [Next]_vars, NEW p \in Procs, NEW a \in Assignments,
         Undoing(p, a), call'[p] = call[p]
  PROVE  asg'[a] = asg[a]
<1>1. Locked(a) /\ asg[a].status # "none" /\ call \in [Procs -> Call]
  BY DEF Locked, Undoing, CallInv, Known, TypeOK
<1>2. ASSUME NEW t \in Trucks, NEW v \in Vehicles, NEW b \in Assignments, Assign(t, v, b)
      PROVE  asg'[a] = asg[a]
  BY <1>1, <1>2 DEF Assign, NoRow, TypeOK
<1>3. ASSUME NEW S \in SUBSET Assignments, NEW s \in AsgStatus, SetAsgs(S, s),
             \A b \in S : ~Locked(b)
      PROVE  asg'[a] = asg[a]
  BY <1>1, <1>3 DEF SetAsgs
<1>4. ASSUME NEW q \in Procs, CommitUndo(q) PROVE asg'[a] = asg[a]
  <2>1. PICK b \in Assignments, s \in {"driver_declined", "cancelled"} :
          Undoing(q, b) /\ SetAsgs({b}, s)
    BY <1>4, CommitIs
  <2>2. q # p
    BY <1>1, <1>4, <2>1 DEF CommitUndo, Return, Idle, Undoing
  <2>3. a # b
    BY <2>1, <2>2 DEF CallInv
  <2> QED
    BY <2>1, <2>3 DEF SetAsgs
<1>5. ASSUME NEW q \in Procs, WriteAssignment(q) PROVE asg'[a] = asg[a]
  <2>1. PICK b \in Assignments, s \in Written4 : ~Locked(b) /\ SetAsgs({b}, s)
    BY <1>5, WriteIs
  <2> QED
    BY <1>1, <2>1 DEF SetAsgs
<1> QED
  BY <1>2, <1>3, <1>4, <1>5, StepKinds

\* A call moves to a new list of assignments, to a later stage about the same
\* ones, or to one assignment that its handler ends, is about to end, or has read.
LEMMA CallMoves ==
  ASSUME TypeOK, CallInv, [Next]_vars, NEW p \in Procs
  PROVE  \/ call'[p].at \notin Single /\ \A a \in call'[p].asgs : asg[a].status # "none"
         \/ /\ call'[p].asgs = call[p].asgs
            /\ call'[p].at \in Single => call[p].at \in Single
            /\ call'[p].at \in Abandoning => call[p].at \in Abandoning
            /\ call'[p].at \in {"undo", "write"} => call'[p] = call[p]
         \/ \E a \in Assignments :
              /\ asg[a].status = "pending" /\ SetAsgs({a}, "driver_declined")
              /\ call'[p].at = "declineTruck" /\ call'[p].asgs = {a}
         \/ \E a \in Assignments :
              /\ asg[a].status = "driver_accepted" /\ SetAsgs({a}, "cancelled") /\ ~Locked(a)
              /\ call'[p].at = "freeAbandoned" /\ call'[p].asgs = {a}
         \/ \E a \in Assignments :
              /\ UNCHANGED asg /\ ~LockedOrder(OrderOf[asg[a].truck])
              /\ \/ asg[a].status = "pending" /\ call'[p].to \in {"driver_declined", "cancelled"}
                 \/ asg[a].status = "driver_accepted" /\ call'[p].to = "cancelled"
              /\ call'[p].at = "undo" /\ call'[p].asgs = {a}
         \/ \E a \in Assignments :
              /\ UNCHANGED asg /\ asg[a].status # "none" /\ call'[p].to \in Updates
              /\ call'[p].at = "write" /\ call'[p].asgs = {a}
<1> DEFINE Fresh == call'[p].at \notin Single /\ \A a \in call'[p].asgs : asg[a].status # "none"
           Later == /\ call'[p].asgs = call[p].asgs
                    /\ call'[p].at \in Single => call[p].at \in Single
                    /\ call'[p].at \in Abandoning => call[p].at \in Abandoning
                    /\ call'[p].at \in {"undo", "write"} => call'[p] = call[p]
           Ends == \E a \in Assignments :
                     /\ UNCHANGED asg /\ ~LockedOrder(OrderOf[asg[a].truck])
                     /\ \/ asg[a].status = "pending"
                           /\ call'[p].to \in {"driver_declined", "cancelled"}
                        \/ asg[a].status = "driver_accepted" /\ call'[p].to = "cancelled"
                     /\ call'[p].at = "undo" /\ call'[p].asgs = {a}
           Reads == \E a \in Assignments :
                      /\ UNCHANGED asg /\ asg[a].status # "none" /\ call'[p].to \in Updates
                      /\ call'[p].at = "write" /\ call'[p].asgs = {a}
<1>1. call[p] \in Call /\ call \in [Procs -> Call]
  BY DEF TypeOK
<1>2. CASE call'[p] = call[p]
  BY <1>2
<1>3. ASSUME Return(p) PROVE Fresh
  BY <1>1, <1>3 DEF Return, Idle, Single, Abandoning
<1>4. ASSUME NEW s \in Stage, Step(p, s)
      PROVE  call'[p].at = s /\ call'[p].asgs = call[p].asgs
  BY <1>1, <1>4 DEF Step, Call
<1>5. ASSUME NEW a \in Assignments, DeclineInHold(p, a)
      PROVE  call'[p].at = "declineTruck" /\ call'[p].asgs = {a}
  BY <1>1, <1>5 DEF DeclineInHold, Idle
<1>6. ASSUME NEW a \in Assignments, CancelAbandoned(p, a)
      PROVE  call'[p].at = "freeAbandoned" /\ call'[p].asgs = {a}
  BY <1>1, <1>6 DEF CancelAbandoned, Idle
<1>7. ASSUME FindOrphans(p) PROVE Fresh
  BY <1>1, <1>7 DEF FindOrphans, Idle, Single, Abandoning
<1>8. ASSUME NEW o \in Orders, BeginHoldExpiry(p, o) PROVE Fresh
  BY <1>1, <1>8 DEF BeginHoldExpiry, Idle, Single, Abandoning, LiveOf, OfOrder
<1>9. ASSUME NEW o \in Orders, ExpiryRead(p, o) \/ CleanupRead(p, o) PROVE Fresh
  BY <1>1, <1>9 DEF ExpiryRead, CleanupRead, Idle, Single, Abandoning
<1>10. ASSUME NEW a \in Assignments, Decline(p, a) \/ CancelAssignment(p, a) PROVE Ends
  <2>1. PICK to \in {"driver_declined", "cancelled"} :
          /\ Undo(p, a, to)
          /\ \/ asg[a].status = "pending"
             \/ asg[a].status = "driver_accepted" /\ to = "cancelled"
    BY <1>10 DEF Decline, CancelAssignment, TypeOK, Row, AsgStatus, TERMINAL_ASSIGNMENT_STATUSES
  <2>2. Writing(p, "undo", a, to) /\ to \in Updates
    BY <2>1 DEF Undo, Updates
  <2>3. call'[p].at = "undo" /\ call'[p].asgs = {a} /\ call'[p].to = to
    BY <2>2, WritingCall, StageTypes
  <2> QED
    BY <1>10, <2>1, <2>3 DEF Undo
<1>11. ASSUME NEW a \in Assignments, ReadAssignment(p, a) PROVE Reads
  <2>1. PICK to \in Updates : Writing(p, "write", a, to)
    <3>1. MayWrite[asg[a].status] \subseteq Updates
      BY <1>11 DEF ReadAssignment, Live, LiveStatuses, MayWrite, Updates
    <3> QED
      BY <1>11, <3>1 DEF ReadAssignment
  <2>2. call'[p].at = "write" /\ call'[p].asgs = {a} /\ call'[p].to = to
    BY <2>1, WritingCall, StageTypes
  <2> QED
    BY <1>11, <2>2 DEF ReadAssignment, Live, LiveStatuses
<1>12. ASSUME \/ ReleaseDeclined(p) \/ CountAbandoned(p) \/ CleanTrucks(p) \/ Abandon(p)
              \/ CommitUndo(p) \/ EndTrip(p)
       PROVE  Fresh
  BY <1>3, <1>12 DEF ReleaseDeclined, CountAbandoned, CleanTrucks, Abandon, CommitUndo, EndTrip
<1>13. ASSUME KeepTruck(p) \/ FreeAbandoned(p) PROVE Later
  BY <1>4, <1>13, StageTypes DEF KeepTruck, FreeAbandoned, Single, Abandoning
<1>14. ASSUME \/ ExpireOrder(p) \/ CloseHolds(p) \/ CancelPending(p)
              \/ CancelRest(p) \/ CleanOrder(p)
       PROVE  Later
  BY <1>4, <1>14, StageTypes
  DEF ExpireOrder, CloseHolds, CancelPending, CancelRest, CleanOrder, Single, Abandoning
<1>15. ASSUME ExpireTrucks(p) PROVE Later
  BY <1>1, <1>15 DEF ExpireTrucks, Call, Single, Abandoning
<1>16. ASSUME FindTrips(p) PROVE Fresh
  <2>1. PICK A \in SUBSET LiveOf(call[p].order) :
          call'[p] = IF A = {} THEN Idle ELSE [Idle EXCEPT !.at = "cancelPending", !.asgs = A]
    BY <1>1, <1>16 DEF FindTrips
  <2> QED
    BY <2>1 DEF Idle, Single, Abandoning, LiveOf, OfOrder
<1>17. ASSUME Refetch(p) PROVE Fresh
  BY <1>1, <1>17 DEF Refetch, Idle, Single, Abandoning
<1>18. ASSUME NEW a \in Assignments, ReleaseOne(p, a) PROVE Fresh
  <2>1. CASE Return(p)
    BY <1>3, <2>1
  <2>2. CASE call' = [call EXCEPT ![p].asgs = @ \ {a}]
    <3>1. call'[p].at = call[p].at /\ call'[p].asgs = call[p].asgs \ {a}
      BY <1>1, <2>2 DEF Call
    <3> QED
      BY <1>18, <3>1 DEF ReleaseOne, CallInv, Known, Single, Abandoning
  <2> QED
    BY <1>18, <2>1, <2>2 DEF ReleaseOne
<1>19. ASSUME NEW v \in Vehicles, ReleaseNext(p, v) \/ SkipVehicle(p, v) PROVE Fresh
  <2>1. CASE Return(p)
    BY <1>3, <2>1
  <2>2. CASE call' = [call EXCEPT ![p].vehicles = @ \ {v}]
    <3>1. call'[p].at = call[p].at /\ call'[p].asgs = call[p].asgs
      BY <1>1, <2>2 DEF Call
    <3> QED
      BY <1>19, <3>1 DEF ReleaseNext, SkipVehicle, CallInv, Known, Single, Abandoning
  <2> QED
    BY <1>19, <2>1, <2>2 DEF ReleaseNext, SkipVehicle
<1>20. ASSUME StartOrder(p) PROVE Fresh \/ Later
  BY <1>3, <1>20 DEF StartOrder
<1>21. ASSUME WriteAssignment(p) PROVE Fresh \/ Later
  <2>1. CASE Return(p)
    BY <1>3, <2>1
  <2>2. ASSUME NEW s \in {"start", "end"}, Step(p, s) PROVE Later
    BY <1>4, <1>21, <2>2, StageTypes DEF WriteAssignment, Single, Abandoning
  <2> QED
    BY <1>21, <2>1, <2>2 DEF WriteAssignment
<1>22. ASSUME Continue(p) PROVE Fresh \/ Later
  BY <1>12, <1>13, <1>14, <1>15, <1>16, <1>17, <1>18, <1>19, <1>20, <1>22 DEF Continue
<1>23. ASSUME NEW a \in Assignments, DeclineInHold(p, a)
       PROVE  asg[a].status = "pending" /\ SetAsgs({a}, "driver_declined")
  BY <1>23 DEF DeclineInHold
<1>24. ASSUME NEW a \in Assignments, CancelAbandoned(p, a)
       PROVE  asg[a].status = "driver_accepted" /\ SetAsgs({a}, "cancelled") /\ ~Locked(a)
  BY <1>24 DEF CancelAbandoned
<1>25. CASE Begin(p)
  BY <1>5, <1>6, <1>7, <1>8, <1>9, <1>10, <1>23, <1>24, <1>25 DEF Begin
<1> QED
  BY <1>2, <1>11, <1>12, <1>19, <1>21, <1>22, <1>25, OwnSteps DEF Acts

LEMMA CallInvInit == Init => CallInv
BY DEF Init, CallInv, Known, Undoing, Idle, Single, Abandoning

\* What a handler knows stays true.
LEMMA KnownStep ==
  ASSUME TypeOK, CallInv, [Next]_vars, NEW p \in Procs
  PROVE  Known(p)'
<1>1. call[p].asgs \in SUBSET Assignments /\ Known(p)
  BY DEF TypeOK, Call, CallInv
<1>2. TypeOK' /\ call'[p].asgs \in SUBSET Assignments
  BY TypeStep DEF TypeOK, Call
<1>3. ASSUME NEW a \in Assignments PROVE
        /\ asg[a].status # "none" => asg'[a].status # "none"
        /\ asg[a].status = "cancelled" => asg'[a].status = "cancelled" \/ a \in strayed'
  BY RowMoves DEF Moves, Written4
<1>4. ASSUME NEW a \in Assignments, NEW s \in {"driver_declined", "cancelled"}, SetAsgs({a}, s)
      PROVE  asg'[a].status = s
  BY <1>4 DEF SetAsgs, TypeOK, Row
<1>5. strayed \subseteq strayed'
  BY StrayedGrows
<1>6. CASE call'[p].at \notin Single /\ \A a \in call'[p].asgs : asg[a].status # "none"
  BY <1>2, <1>3, <1>6 DEF Known, Single
<1>7. CASE call'[p] = call[p]
  <2>1. call[p].at = "undo" => \A a \in call[p].asgs : asg'[a] = asg[a]
    BY <1>1, <1>7, LockedStays DEF Undoing
  <2> QED
    BY <1>1, <1>3, <1>5, <1>7, <2>1 DEF Known
<1>8. CASE /\ call'[p].asgs = call[p].asgs
           /\ call'[p].at \in Single => call[p].at \in Single
           /\ call'[p].at \in Abandoning => call[p].at \in Abandoning
           /\ call'[p].at \notin {"undo", "write"}
  BY <1>1, <1>3, <1>5, <1>8 DEF Known
<1>9. ASSUME NEW a \in Assignments, SetAsgs({a}, "driver_declined"),
             call'[p].at = "declineTruck", call'[p].asgs = {a}
      PROVE  Known(p)'
  BY <1>4, <1>9 DEF Known, Abandoning
<1>10. ASSUME NEW a \in Assignments, SetAsgs({a}, "cancelled"),
              call'[p].at = "freeAbandoned", call'[p].asgs = {a}
       PROVE  Known(p)'
  BY <1>4, <1>10 DEF Known
<1>11. ASSUME NEW a \in Assignments, UNCHANGED asg,
              \/ asg[a].status = "pending" /\ call'[p].to \in {"driver_declined", "cancelled"}
              \/ asg[a].status = "driver_accepted" /\ call'[p].to = "cancelled",
              call'[p].at = "undo", call'[p].asgs = {a}
       PROVE  Known(p)'
  <2>1. asg'[a].status # "none" /\ call'[p].to \in {"driver_declined", "cancelled"}
    BY <1>11
  <2>2. \/ asg'[a].status = "pending"
        \/ asg'[a].status = "driver_accepted" /\ call'[p].to = "cancelled"
    BY <1>11
  <2>3. call'[p].at \notin Abandoning /\ call'[p].at # "write"
    BY <1>11 DEF Abandoning
  <2>4. \A b \in call'[p].asgs : b = a
    BY <1>11
  <2>5. \E b \in Assignments : call'[p].asgs = {b}
    BY <1>11
  <2> QED
    BY <2>1, <2>2, <2>3, <2>4, <2>5 DEF Known
<1>12. ASSUME NEW a \in Assignments, UNCHANGED asg, asg[a].status # "none",
              call'[p].to \in Updates, call'[p].at = "write", call'[p].asgs = {a}
       PROVE  Known(p)'
  BY <1>12 DEF Known, Abandoning
<1>13. CASE /\ call'[p].asgs = call[p].asgs
            /\ call'[p].at \in Single => call[p].at \in Single
            /\ call'[p].at \in Abandoning => call[p].at \in Abandoning
            /\ call'[p].at \in {"undo", "write"} => call'[p] = call[p]
  <2>1. CASE call'[p].at \in {"undo", "write"}
    BY <1>7, <1>13, <2>1
  <2>2. CASE call'[p].at \notin {"undo", "write"}
    BY <1>8, <1>13, <2>2
  <2> QED
    BY <2>1, <2>2
<1> QED
  BY <1>6, <1>9, <1>10, <1>11, <1>12, <1>13, CallMoves

\* The handlers of abandoned trips keep apart.
LEMMA AbandoningStep ==
  ASSUME TypeOK, CallInv, [Next]_vars, NEW p \in Procs, NEW q \in Procs,
         call'[p].at \in Abandoning, call'[q].at \in Abandoning,
         NEW a \in call'[p].asgs \intersect call'[q].asgs
  PROVE  p = q \/ a \in strayed'
<1> SUFFICES ASSUME p # q PROVE a \in strayed'
  OBVIOUS
<1>1. strayed \subseteq strayed'
  BY StrayedGrows
<1>2. ASSUME NEW r \in Procs, call'[r].at \in Abandoning, a \in call'[r].asgs
      PROVE  \/ a \in call[r].asgs /\ call[r].at \in Abandoning
             \/ asg[a].status = "driver_accepted" /\ call'[r] # call[r]
  <2>1. call'[r].at \in Single /\ call'[r].at \notin {"declineTruck", "undo", "write"}
    BY <1>2 DEF Single, Abandoning
  <2>2. \/ a \in call[r].asgs /\ call[r].at \in Abandoning
        \/ asg[a].status = "driver_accepted"
    BY <1>2, <2>1, CallMoves
  <2> QED
    BY <1>2, <2>2
<1>3. ASSUME NEW r \in Procs, NEW x \in Procs, r # x,
             asg[a].status = "driver_accepted", call'[r] # call[r],
             call'[x].at \in Abandoning, a \in call'[x].asgs
      PROVE  a \in strayed
  <2>1. call'[x] = call[x]
    BY <1>3, OwnSteps
  <2> QED
    BY <1>3, <2>1 DEF CallInv, Known
<1>4. CASE a \in call[p].asgs /\ call[p].at \in Abandoning
           /\ a \in call[q].asgs /\ call[q].at \in Abandoning
  BY <1>1, <1>4 DEF CallInv
<1> QED
  BY <1>1, <1>2, <1>3, <1>4

\* One transaction at most ends an assignment of an order.
LEMMA UndoingStep ==
  ASSUME TypeOK, CallInv, [Next]_vars, NEW p \in Procs, NEW q \in Procs,
         NEW a \in Assignments, NEW b \in Assignments, Undoing(p, a)', Undoing(q, b)',
         OrderOf[asg'[a].truck] = OrderOf[asg'[b].truck]
  PROVE  p = q
<1> SUFFICES ASSUME p # q PROVE FALSE
  OBVIOUS
<1>1. ASSUME NEW r \in Procs, NEW c \in Assignments, Undoing(r, c)'
      PROVE  \/ call'[r] = call[r] /\ Undoing(r, c) /\ asg'[c].truck = asg[c].truck
             \/ /\ call'[r] # call[r] /\ UNCHANGED asg
                /\ ~LockedOrder(OrderOf[asg[c].truck])
  <2>1. CASE call'[r] = call[r]
    <3>1. Undoing(r, c)
      BY <1>1, <2>1 DEF Undoing
    <3> QED
      BY <2>1, <3>1, LockedStays
  <2>2. CASE call'[r] # call[r]
    <3>1. call'[r].at = "undo" /\ c \in call'[r].asgs /\ call'[r].at \in Single
      BY <1>1 DEF Undoing, Single
    <3> QED
      BY <2>2, <3>1, CallMoves DEF Single, Abandoning
  <2> QED
    BY <2>1, <2>2
<1>2. ~(call'[p] # call[p] /\ call'[q] # call[q])
  BY OwnSteps
<1>3. CASE call'[p] = call[p] /\ call'[q] = call[q]
  BY <1>1, <1>3 DEF CallInv
<1>4. CASE call'[p] = call[p] /\ call'[q] # call[q]
  BY <1>1, <1>4 DEF LockedOrder
<1>5. CASE call'[p] # call[p] /\ call'[q] = call[q]
  BY <1>1, <1>5 DEF LockedOrder
<1> QED
  BY <1>2, <1>3, <1>4, <1>5

LEMMA CallInvStep == TypeOK /\ CallInv /\ [Next]_vars => CallInv'
<1> SUFFICES ASSUME TypeOK, CallInv, [Next]_vars PROVE CallInv'
  OBVIOUS
<1>1. ASSUME NEW a \in strayed' PROVE asg'[a].status # "none"
  <2>1. CASE a \in strayed
    <3>1. a \in Assignments /\ asg[a].status # "none"
      BY <2>1 DEF TypeOK, CallInv
    <3> QED
      BY <3>1, RowMoves DEF Moves, Written4
  <2>2. ASSUME NEW p \in Procs, WriteAssignment(p), a \notin strayed PROVE asg'[a].status # "none"
    <3>1. PICK b \in Assignments, s \in Written4 :
            /\ asg[b].status # "none"
            /\ strayed' = IF Strays(b, s) THEN strayed \union {b} ELSE strayed
      BY <2>2, WriteIs
    <3>2. a = b
      BY <2>2, <3>1
    <3> QED
      BY <3>1, <3>2, RowMoves DEF Moves, Written4
  <2>3. ASSUME NEW p \in Procs, Abandon(p), a \notin strayed PROVE asg'[a].status # "none"
    <3>1. a \in call[p].asgs /\ UNCHANGED asg
      BY <2>3 DEF Abandon
    <3> QED
      BY <3>1 DEF CallInv, Known
  <2>4. ASSUME NEW p \in Procs,
               \/ \E b \in Assignments : ReadAssignment(p, b)
               \/ \E v \in Vehicles : SkipVehicle(p, v)
        PROVE  strayed' = strayed
    BY <2>4 DEF ReadAssignment, SkipVehicle, history
  <2> QED
    BY <2>1, <2>2, <2>3, <2>4 DEF Next, vars, history
<1> QED
  BY <1>1, KnownStep, AbandoningStep, UndoingStep DEF CallInv

\* TypesCorrect - every variable keeps its type, for any orders, truck requests,
\* vehicles, assignments and handlers in flight.
THEOREM TypesCorrect == Spec => []TypeOK
BY TypeInit, TypeStep, CallInvInit, CallInvStep, PTL DEF Spec

-----------------------------------------------------------------------------
(* One live assignment per truck request                                     *)

\* A new row is made where there was none, and no other row moves.
LEMMA MadeIs ==
  ASSUME TypeOK, NEW t \in Trucks, NEW v \in Vehicles, NEW a \in Assignments, Assign(t, v, a)
  PROVE  /\ asg[a].status = "none" /\ asg'[a].status = "pending" /\ asg'[a].truck = t
         /\ ~Live(a) /\ Live(a)' /\ truck'[t] = "assigned"
         /\ \A b \in Assignments : b # a => asg'[b] = asg[b]
<1>1. /\ asg[a].status = "none" /\ asg'[a].status = "pending" /\ asg'[a].truck = t
      /\ truck'[t] = "assigned"
      /\ \A b \in Assignments : b # a => asg'[b] = asg[b]
  BY DEF Assign, NoRow, TypeOK
<1> QED
  BY <1>1 DEF Live, LiveStatuses

\* A live assignment was live already, with the same truck request and vehicle,
\* or has strayed, or is the one a step has just made, for a request that was free.
LEMMA LiveMoves ==
  ASSUME TypeOK, CallInv, [Next]_vars, NEW a \in Assignments, Live(a)'
  PROVE  \/ Live(a) /\ asg'[a].truck = asg[a].truck /\ asg'[a].vehicle = asg[a].vehicle
         \/ asg[a].status # "none" /\ asg'[a].truck = asg[a].truck /\ a \in strayed'
         \/ \E t \in Trucks, v \in Vehicles :
              truck[t] \in {"searching", "held"} /\ Assign(t, v, a)
<1>1. CASE asg[a].status # "none"
  <2>1. Live(a) \/ a \in strayed'
    <3>1. \/ asg'[a].status = asg[a].status \/ <<asg[a].status, asg'[a].status>> \in Moves
          \/ a \in strayed'
      BY <1>1, RowMoves
    <3> QED
      BY <3>1 DEF Moves, Live, LiveStatuses
  <2> QED
    BY <1>1, <2>1, RowMoves
<1>2. CASE asg[a].status = "none"
  <2>1. asg'[a].status = "pending" /\ asg'[a] # asg[a]
    BY <1>2, RowMoves DEF Live, LiveStatuses
  <2>2. ASSUME NEW S \in SUBSET Assignments, NEW s \in AsgStatus, SetAsgs(S, s), MovesTo(S, s)
        PROVE  FALSE
    <3>1. a \notin S
      BY <1>2, <2>2 DEF MovesTo, Moves
    <3> QED
      BY <2>1, <2>2, <3>1 DEF SetAsgs
  <2>3. ASSUME NEW p \in Procs, NEW b \in Assignments, NEW s, SetAsgs({b}, s),
               asg[b].status # "none"
        PROVE  FALSE
    BY <1>2, <2>1, <2>3 DEF SetAsgs
  <2>4. ASSUME NEW p \in Procs, CommitUndo(p) PROVE FALSE
    BY <2>3, <2>4, CommitIs DEF Live, LiveStatuses
  <2>5. ASSUME NEW p \in Procs, WriteAssignment(p) PROVE FALSE
    BY <2>3, <2>5, WriteIs
  <2>6. PICK t \in Trucks, v \in Vehicles, b \in Assignments :
          truck[t] \in {"searching", "held"} /\ Assign(t, v, b)
    BY <2>1, <2>2, <2>4, <2>5, StepKinds
  <2>7. a = b
    BY <2>1, <2>6, MadeIs
  <2> QED
    BY <2>6, <2>7
<1> QED
  BY <1>1, <1>2

\* What an assignment's end does: its row is no longer live.
LEMMA UndoEnds ==
  ASSUME TypeOK, NEW a \in Assignments, NEW s \in {"driver_declined", "cancelled", "completed"},
         SetAsgs({a}, s)
  PROVE  ~Live(a)' /\ asg'[a].status = s /\ asg'[a].truck = asg[a].truck
<1>1. asg'[a] = [asg[a] EXCEPT !.status = s] /\ asg[a] \in Row
  BY DEF SetAsgs, TypeOK
<1> QED
  BY <1>1 DEF Live, LiveStatuses, Row

\* A truck request that is free after a step was free before it, or the step has
\* ended the assignment it had, or begun a transaction that will.
LEMMA TruckMoves ==
  ASSUME TypeOK, CallInv, [Next]_vars, NEW t \in Trucks, truck'[t] \in {"searching", "held"}
  PROVE  \/ truck[t] \in {"searching", "held"}
         \/ \E a \in Assignments : /\ Live(a) /\ asg[a].truck = t
                                   /\ ~Live(a)' \/ Locked(a)'
<1> DEFINE Goal == \/ truck[t] \in {"searching", "held"}
                   \/ \E a \in Assignments : /\ Live(a) /\ asg[a].truck = t
                                             /\ ~Live(a)' \/ Locked(a)'
<1>1. ASSUME NEW u \in Trucks, NEW v \in Vehicles, NEW a \in Assignments,
             Confirm(u, v, a) \/ AcceptRequest(u, v, a)
      PROVE  Goal
  BY <1>1 DEF Confirm, AcceptRequest, Assign, TypeOK
<1>2. ASSUME NEW p \in Procs, NEW a \in Assignments, Decline(p, a) \/ CancelAssignment(p, a)
      PROVE  Goal
  <2>1. PICK to \in {"driver_declined", "cancelled"} : Undo(p, a, to) /\ Live(a)
    BY <1>2 DEF Decline, CancelAssignment, TypeOK, Row, AsgStatus, Live, LiveStatuses,
                TERMINAL_ASSIGNMENT_STATUSES
  <2>2. Writing(p, "undo", a, to) /\ to \in Updates /\ "undo" \in Stage
    BY <2>1, StageTypes DEF Undo, Updates
  <2>3. call'[p].at = "undo" /\ call'[p].asgs = {a}
    BY <2>2, WritingCall
  <2>4. Locked(a)'
    BY <2>3 DEF Locked, Undoing
  <2>5. t # asg[a].truck => truck'[t] = truck[t]
    BY <2>1 DEF Undo, Reopen, TypeOK
  <2> QED
    BY <2>1, <2>4, <2>5
<1>3. ASSUME NEW a \in Assignments, Accept(a) \/ AcceptInHold(a) \/ Complete(a) PROVE Goal
  BY <1>3 DEF Accept, AcceptInHold, Complete
<1>4. ASSUME NEW a \in Assignments, TimeOut(a) PROVE Goal
  <2>1. Live(a) /\ ~Live(a)'
    BY <1>4, UndoEnds DEF TimeOut, Live, LiveStatuses
  <2>2. t # asg[a].truck => truck'[t] = truck[t]
    BY <1>4 DEF TimeOut, Reopen, TypeOK
  <2> QED
    BY <2>1, <2>2
<1>5. ASSUME NEW p \in Procs,
             \/ \E a \in Assignments : DeclineInHold(p, a) \/ CancelAbandoned(p, a)
             \/ FindOrphans(p)
             \/ \E o \in Orders : BeginHoldExpiry(p, o) \/ ExpiryRead(p, o) \/ CleanupRead(p, o)
      PROVE  Goal
  BY <1>5 DEF DeclineInHold, CancelAbandoned, FindOrphans, BeginHoldExpiry, ExpiryRead,
              CleanupRead
<1>6. ASSUME NEW p \in Procs, KeepTruck(p) PROVE Goal
  BY <1>6 DEF KeepTruck, TypeOK
<1>7. ASSUME NEW p \in Procs, ExpireTrucks(p) \/ CloseHolds(p) \/ CleanTrucks(p) PROVE Goal
  <2>1. PICK S : SetTrucks(S, "expired")
    BY <1>7 DEF ExpireTrucks, CloseHolds, CleanTrucks
  <2> QED
    BY <2>1 DEF SetTrucks, TypeOK
<1>8. ASSUME NEW p \in Procs,
             \/ ReleaseDeclined(p) \/ \E a \in Assignments : ReleaseOne(p, a)
             \/ ExpireOrder(p) \/ FindTrips(p) \/ CancelPending(p) \/ CancelRest(p) \/ Refetch(p)
             \/ CleanOrder(p) \/ FreeAbandoned(p) \/ CountAbandoned(p) \/ CommitUndo(p)
             \/ StartOrder(p) \/ EndTrip(p) \/ \E v \in Vehicles : ReleaseNext(p, v)
      PROVE  Goal
  BY <1>8 DEF ReleaseDeclined, ReleaseOne, ExpireOrder, FindTrips, CancelPending, CancelRest,
              Refetch, CleanOrder, FreeAbandoned, CountAbandoned, CommitUndo, StartOrder, EndTrip,
              ReleaseNext
<1>9. ASSUME NEW p \in Procs,
             \/ \E a \in Assignments : ReadAssignment(p, a)
             \/ WriteAssignment(p) \/ Abandon(p) \/ \E v \in Vehicles : SkipVehicle(p, v)
      PROVE  Goal
  BY <1>9 DEF ReadAssignment, WriteAssignment, Abandon, SkipVehicle
<1>10. ASSUME UNCHANGED vars PROVE Goal
  BY <1>10 DEF vars
<1> SUFFICES Goal
  OBVIOUS
<1> HIDE DEF Goal
<1>11. ASSUME NEW a \in Assignments, Answer(a) PROVE Goal
  BY <1>3, <1>4, <1>11 DEF Answer
<1>12. ASSUME NEW p \in Procs, Begin(p) \/ Continue(p) PROVE Goal
  BY <1>2, <1>5, <1>6, <1>7, <1>8, <1>12 DEF Begin, Continue
<1>13. ASSUME NEW u \in Trucks, Hold(u) PROVE Goal
  BY <1>13 DEF Goal, Hold, TypeOK
<1>14. CASE Regular
  BY <1>1, <1>11, <1>12, <1>13, <1>14 DEF Regular
<1> QED
  BY <1>9, <1>10, <1>14 DEF Next

\* A transaction that has opened a truck request ends its assignment, or leaves
\* the request astray.
LEMMA LockedMoves ==
  ASSUME TypeOK, CallInv, [Next]_vars, NEW a \in Assignments, Locked(a), Live(a)',
         a \notin strayed'
  PROVE  Locked(a)'
<1>1. PICK p \in Procs : Undoing(p, a)
  BY DEF Locked
<1>2. CASE call'[p] = call[p]
  BY <1>1, <1>2 DEF Locked, Undoing
<1>3. CASE call'[p] # call[p]
  <2>1. Acts(p) /\ call[p].at = "undo" /\ a \in call[p].asgs
    BY <1>1, <1>3, OwnSteps DEF Undoing
  <2>2. ASSUME CommitUndo(p) PROVE FALSE
    BY <2>1, <2>2, CommitIs, UndoEnds
  <2>3. ASSUME Abandon(p) PROVE FALSE
    BY <2>1, <2>3 DEF Abandon
  <2>4. call[p] # Idle
    BY <2>1 DEF Idle
  <2>5. ASSUME Begin(p) \/ \E b \in Assignments : ReadAssignment(p, b) PROVE FALSE
    BY <2>4, <2>5 DEF Begin, Decline, CancelAssignment, Undo, DeclineInHold, CancelAbandoned,
                FindOrphans, BeginHoldExpiry, ExpiryRead, CleanupRead, ReadAssignment
  <2>6. ASSUME Continue(p), ~CommitUndo(p) PROVE FALSE
    BY <2>1, <2>6
    DEF Continue, KeepTruck, ReleaseDeclined, StartOrder, EndTrip, ReleaseOne, ExpireTrucks,
        ExpireOrder, CloseHolds, FindTrips, CancelPending, CancelRest, Refetch, ReleaseNext,
        CleanOrder, CleanTrucks, FreeAbandoned, CountAbandoned
  <2>7. ASSUME WriteAssignment(p) \/ \E v \in Vehicles : SkipVehicle(p, v) PROVE FALSE
    BY <2>1, <2>7 DEF WriteAssignment, SkipVehicle
  <2> QED
    BY <2>1, <2>2, <2>3, <2>5, <2>6, <2>7 DEF Acts
<1> QED
  BY <1>2, <1>3

\* The inductive invariant: the truck request of a live assignment is not free
\* to be held or assigned, in particular not by the late write of a decline,
\* unless a transaction in flight is about to end the assignment: it keeps the
\* order locked.
TruckInv ==
  /\ TypeOK /\ CallInv
  /\ OneLivePerTruck
  /\ \A a \in Assignments :
       Live(a) /\ ~Astray(asg[a].truck) =>
         truck[asg[a].truck] \notin {"searching", "held"} \/ Locked(a)

LEMMA TruckInvStep == TruckInv /\ [Next]_vars => TruckInv'
<1> SUFFICES ASSUME TruckInv, [Next]_vars PROVE TruckInv'
  OBVIOUS
<1>1. TypeOK /\ CallInv
  BY DEF TruckInv
<1>2. TypeOK' /\ CallInv'
  BY <1>1, TypeStep, CallInvStep
<1>3. ASSUME NEW a \in Assignments, NEW t, Live(a)', asg'[a].truck = t, ~Astray(t)'
      PROVE  /\ t \in Trucks /\ ~Astray(t)
             /\ \/ Live(a) /\ asg[a].truck = t
                \/ \E v \in Vehicles : truck[t] \in {"searching", "held"} /\ Assign(t, v, a)
  <2>1. a \notin strayed'
    BY <1>3 DEF Astray
  <2>2. t \in Trucks /\ ~Astray(t)
    BY <1>1, <1>2, <1>3, AstrayGrows DEF TypeOK, Live, LiveStatuses
  <2> QED
    BY <1>1, <1>3, <2>1, <2>2, LiveMoves, MadeIs
<1>4. ASSUME NEW a \in Assignments, NEW t, Live(a)', asg'[a].truck = t, ~Astray(t)',
             truck'[t] \in {"searching", "held"}
      PROVE  Locked(a)'
  <2>1. t \in Trucks /\ ~Astray(t) /\ Live(a) /\ asg[a].truck = t /\ a \notin strayed'
    BY <1>1, <1>3, <1>4, MadeIs DEF Astray
  <2>2. CASE truck[t] \in {"searching", "held"}
    <3>1. Locked(a)
      BY <2>1, <2>2 DEF TruckInv
    <3> QED
      BY <1>1, <1>4, <2>1, <3>1, LockedMoves
  <2>3. CASE truck[t] \notin {"searching", "held"}
    <3>1. PICK b \in Assignments : Live(b) /\ asg[b].truck = t /\ (~Live(b)' \/ Locked(b)')
      BY <1>1, <1>4, <2>1, <2>3, TruckMoves
    <3>2. b = a
      BY <2>1, <3>1 DEF TruckInv, OneLivePerTruck
    <3> QED
      BY <1>4, <3>1, <3>2
  <2> QED
    BY <2>2, <2>3
<1>5. ASSUME NEW a \in Assignments, NEW b \in Assignments, NEW t, Live(a)', Live(b)',
             asg'[a].truck = t, asg'[b].truck = t, ~Astray(t)', ~(Live(a) /\ asg[a].truck = t),
             a # b
      PROVE  FALSE
  <2>1. PICK v \in Vehicles : truck[t] \in {"searching", "held"} /\ Assign(t, v, a)
    BY <1>3, <1>5
  <2>2. t \in Trucks /\ ~Astray(t)
    BY <1>3, <1>5
  <2>3. asg'[b] = asg[b]
    BY <1>1, <1>5, <2>1, <2>2, MadeIs
  <2>4. Live(b) /\ asg[b].truck = t
    BY <1>5, <2>3 DEF Live
  <2>5. Locked(b)
    BY <2>1, <2>2, <2>4 DEF TruckInv
  <2>6. LockedOrder(OrderOf[t])
    BY <2>4, <2>5 DEF Locked, LockedOrder
  <2> QED
    BY <2>1, <2>6 DEF Assign
<1>6. ASSUME NEW a \in Assignments, NEW b \in Assignments, NEW t, Live(a)', Live(b)',
             asg'[a].truck = t, asg'[b].truck = t, ~Astray(t)'
      PROVE  a = b
  <2>1. CASE Live(a) /\ Live(b) /\ asg[a].truck = t /\ asg[b].truck = t
    <3>1. ~Astray(t)
      BY <1>3, <1>6
    <3> QED
      BY <2>1, <3>1 DEF TruckInv, OneLivePerTruck
  <2> QED
    BY <1>5, <1>6, <2>1
<1>7. OneLivePerTruck'
  <2> SUFFICES ASSUME NEW a \in Assignments, NEW b \in Assignments
               PROVE  (Live(a) /\ Live(b) /\ asg[a].truck = asg[b].truck
                         /\ ~Astray(asg[a].truck) => a = b)'
    BY DEF OneLivePerTruck
  <2>1. PICK t : t = asg'[a].truck
    OBVIOUS
  <2>2. Astray(asg[a].truck)' <=> Astray(t)'
    BY <2>1 DEF Astray
  <2> QED
    BY <1>6, <2>1, <2>2
<1>8. ASSUME NEW a \in Assignments
      PROVE  (Live(a) /\ ~Astray(asg[a].truck) =>
                truck[asg[a].truck] \notin {"searching", "held"} \/ Locked(a))'
  <2>1. PICK t : t = asg'[a].truck
    OBVIOUS
  <2>2. Astray(asg[a].truck)' <=> Astray(t)'
    BY <2>1 DEF Astray
  <2> QED
    BY <1>4, <2>1, <2>2
<1> QED
  BY <1>2, <1>7, <1>8 DEF TruckInv

LEMMA TruckInvInit == Init => TruckInv
<1> SUFFICES ASSUME Init PROVE TruckInv
  OBVIOUS
<1>1. TypeOK /\ CallInv
  BY TypeInit, CallInvInit
<1>2. \A a \in Assignments : ~Live(a)
  BY DEF Init, NoRow, Live, LiveStatuses
<1> QED
  BY <1>1, <1>2 DEF TruckInv, OneLivePerTruck

\* OneLiveAlways - no truck request has two live assignments, whatever answers,
\* expiries and late writes of declines meet, unless it has gone astray.
THEOREM OneLiveAlways == Spec => []OneLivePerTruck
<1>1. TruckInv => OneLivePerTruck
  BY DEF TruckInv
<1> QED
  BY <1>1, TruckInvInit, TruckInvStep, PTL DEF Spec

-----------------------------------------------------------------------------
(* The acceptance stands                                                     *)

\* The steps of a hold expiry leave an accepted assignment alone.
LEMMA ExpirySpares ==
  ASSUME TypeOK, [Next]_vars, NEW p \in Procs, call[p].at = "holdExpiry", call'[p] # call[p],
         NEW a \in Assignments, asg[a].status = "driver_accepted"
  PROVE  asg'[a].status = "driver_accepted"
<1>1. ASSUME NEW b \in Assignments, ReleaseOne(p, b) PROVE asg'[a] = asg[a]
  <2>1. CASE UNCHANGED asg
    BY <2>1
  <2>2. CASE asg[b].status \in Releasable /\ SetAsgs({b}, "cancelled")
    BY <2>2 DEF Releasable, SetAsgs
  <2> QED
    BY <1>1, <2>1, <2>2 DEF ReleaseOne
<1>2. CASE Abandon(p) \/ \E v \in Vehicles : SkipVehicle(p, v)
  BY <1>2 DEF Abandon, SkipVehicle
<1>3. ASSUME Begin(p) \/ \E b \in Assignments : ReadAssignment(p, b) PROVE FALSE
  <2>1. call[p] = Idle
    BY <1>3 DEF Begin, Decline, CancelAssignment, Undo, DeclineInHold, CancelAbandoned,
                FindOrphans, BeginHoldExpiry, ExpiryRead, CleanupRead, ReadAssignment
  <2> QED
    BY <2>1 DEF Idle
<1>4. ASSUME Continue(p) \/ WriteAssignment(p), ~\E b \in Assignments : ReleaseOne(p, b)
      PROVE  FALSE
  BY <1>4 DEF Continue, CommitUndo, StartOrder, EndTrip, KeepTruck, ReleaseDeclined, ExpireTrucks,
              ExpireOrder, CloseHolds, FindTrips, CancelPending, CancelRest, Refetch, ReleaseNext,
              CleanOrder, CleanTrucks, FreeAbandoned, CountAbandoned, WriteAssignment
<1> QED
  BY <1>1, <1>2, <1>3, <1>4, OwnSteps DEF Acts

\* AcceptanceIsKept - an accepted assignment is delivered or cancelled, never
\* declined, timed out or released by the expiry of its hold, unless a status
\* update by id, from an older read, writes over the acceptance.
THEOREM AcceptanceIsKept == Spec => AcceptanceStands
<1>1. ASSUME TypeOK, CallInv, [Next]_vars, NEW a \in Assignments,
             asg[a].status = "driver_accepted"
      PROVE  /\ asg'[a].status \in {"driver_accepted", "completed", "cancelled"} \/ UpdatesById(a)
             /\ \A p \in Procs : call[p].at = "holdExpiry" /\ call'[p] # call[p]
                                    => asg'[a].status = "driver_accepted"
  <2>1. \/ asg'[a].status = asg[a].status \/ <<asg[a].status, asg'[a].status>> \in Moves
        \/ UpdatesById(a)
    BY <1>1, RowMoves
  <2>2. asg'[a].status \in {"driver_accepted", "completed", "cancelled"} \/ UpdatesById(a)
    BY <1>1, <2>1 DEF Moves
  <2> QED
    BY <1>1, <2>2, ExpirySpares
<1>2. TypeOK /\ CallInv /\ [Next]_vars =>
        [\A a \in Assignments : asg[a].status = "driver_accepted" =>
           /\ asg'[a].status \in {"driver_accepted", "completed", "cancelled"} \/ UpdatesById(a)
           /\ \A p \in Procs : call[p].at = "holdExpiry" /\ call'[p] # call[p]
                                  => asg'[a].status = "driver_accepted"]_vars
  BY <1>1
<1> QED
  BY <1>2, TypeInit, TypeStep, CallInvInit, CallInvStep, PTL DEF Spec, AcceptanceStands

-----------------------------------------------------------------------------
(* The count covers the live assignments                                     *)

\* Who changes a count: a new assignment, the end of one in a transaction, and
\* the counting out of an abandoned trip.
Ends(a) ==
  /\ Live(a) /\ \E s \in {"driver_declined", "cancelled"} : SetAsgs({a}, s)
  /\ Unfill(OrderOf[asg[a].truck])
  /\ \A q \in Procs : call'[q].at \in Abandoning => call'[q] = call[q]
  /\ \A q \in Procs : call[q].at \in Abandoning => call'[q] = call[q]
  /\ UNCHANGED history

LEMMA CountKinds ==
  ASSUME TypeOK, CallInv, [Next]_vars
  PROVE  \/ \A o \in Orders : order'[o].filled = order[o].filled
         \/ \E t \in Trucks, v \in Vehicles, a \in Assignments :
              truck[t] \in {"searching", "held"} /\ Assign(t, v, a)
         \/ \E a \in Assignments : Ends(a)
         \/ \E p \in Procs : CountAbandoned(p) /\ UNCHANGED history
<1> DEFINE Same == \A o \in Orders : order'[o].filled = order[o].filled
           Goal == \/ Same
                   \/ \E t \in Trucks, v \in Vehicles, a \in Assignments :
                        truck[t] \in {"searching", "held"} /\ Assign(t, v, a)
                   \/ \E a \in Assignments : Ends(a)
                   \/ \E p \in Procs : CountAbandoned(p) /\ UNCHANGED history
<1>1. ASSUME UNCHANGED order PROVE Same
  BY <1>1
<1>2. ASSUME NEW t \in Trucks, NEW v \in Vehicles, NEW a \in Assignments,
             Confirm(t, v, a) \/ AcceptRequest(t, v, a)
      PROVE  Goal
  BY <1>2 DEF Confirm, AcceptRequest
<1>3. ASSUME NEW a \in Assignments, TimeOut(a), UNCHANGED history PROVE Ends(a)
  BY <1>3 DEF TimeOut, Ends, Live, LiveStatuses
<1>4. ASSUME NEW p \in Procs, NEW a \in Assignments, DeclineInHold(p, a), UNCHANGED history
      PROVE  Ends(a)
  <2>1. call[p].at \notin Abandoning /\ call'[p].at \notin Abandoning
    BY <1>4 DEF DeclineInHold, Idle, Abandoning, TypeOK
  <2>2. \A q \in Procs : q # p => call'[q] = call[q]
    BY <1>4 DEF DeclineInHold, TypeOK
  <2> QED
    BY <1>4, <2>1, <2>2 DEF DeclineInHold, Ends, Live, LiveStatuses
<1>5. ASSUME NEW p \in Procs, CommitUndo(p), UNCHANGED history
      PROVE  \E a \in Assignments : Ends(a)
  <2>1. PICK a \in Assignments, s \in {"driver_declined", "cancelled"} :
          Live(a) /\ SetAsgs({a}, s) /\ Unfill(OrderOf[asg[a].truck])
    BY <1>5, CommitIs
  <2>2. call[p].at \notin Abandoning /\ call'[p].at \notin Abandoning
    BY <1>5 DEF CommitUndo, Return, Idle, Abandoning, TypeOK
  <2>3. \A q \in Procs : q # p => call'[q] = call[q]
    BY <1>5 DEF CommitUndo, Return, TypeOK
  <2> QED
    BY <1>5, <2>1, <2>2, <2>3 DEF Ends
<1>6. ASSUME NEW p \in Procs, ExpireOrder(p) \/ CleanOrder(p) PROVE Same
  BY <1>6 DEF ExpireOrder, CleanOrder, TypeOK
<1>7. ASSUME NEW p \in Procs, StartOrder(p) PROVE Same
  <2>1. PICK x : order' = [order EXCEPT ![x].status =
                   IF @ \in {"fully_filled", "partially_filled"} THEN "in_progress" ELSE @]
    BY <1>7 DEF StartOrder
  <2> QED
    BY <2>1 DEF TypeOK
<1>8. ASSUME NEW p \in Procs,
             \/ \E a \in Assignments : \/ Decline(p, a) \/ CancelAssignment(p, a)
                                       \/ CancelAbandoned(p, a) \/ ReleaseOne(p, a)
             \/ FindOrphans(p) \/ KeepTruck(p) \/ ReleaseDeclined(p) \/ EndTrip(p)
             \/ \E o \in Orders : BeginHoldExpiry(p, o) \/ ExpiryRead(p, o) \/ CleanupRead(p, o)
             \/ ExpireTrucks(p) \/ CloseHolds(p) \/ FindTrips(p) \/ CancelPending(p)
             \/ CancelRest(p) \/ Refetch(p) \/ CleanTrucks(p) \/ FreeAbandoned(p)
             \/ \E v \in Vehicles : ReleaseNext(p, v)
      PROVE  UNCHANGED order
  BY <1>8 DEF Decline, CancelAssignment, Undo, CancelAbandoned, ReleaseOne, FindOrphans, KeepTruck,
              ReleaseDeclined, EndTrip, BeginHoldExpiry, ExpiryRead, CleanupRead, ExpireTrucks,
              CloseHolds, FindTrips, CancelPending, CancelRest, Refetch, CleanTrucks,
              FreeAbandoned, ReleaseNext
<1>9. ASSUME NEW p \in Procs,
             \/ \E a \in Assignments : ReadAssignment(p, a)
             \/ WriteAssignment(p) \/ Abandon(p) \/ \E v \in Vehicles : SkipVehicle(p, v)
      PROVE  UNCHANGED order
  BY <1>9 DEF ReadAssignment, WriteAssignment, Abandon, SkipVehicle
<1>10. ASSUME NEW a \in Assignments, Accept(a) \/ AcceptInHold(a) \/ Complete(a)
       PROVE  UNCHANGED order
  BY <1>10 DEF Accept, AcceptInHold, Complete
<1>11. ASSUME UNCHANGED vars \/ \E t \in Trucks : Hold(t) PROVE UNCHANGED order
  BY <1>11 DEF vars, Hold
<1> HIDE DEF Same
<1>12. ASSUME NEW p \in Procs, Begin(p) \/ Continue(p), UNCHANGED history PROVE Goal
  <2>1. UNCHANGED order => Goal
    BY <1>1
  <2>2. ASSUME NEW a \in Assignments, DeclineInHold(p, a) PROVE Goal
    BY <1>4, <1>12, <2>2
  <2>3. ASSUME CommitUndo(p) PROVE Goal
    BY <1>5, <1>12, <2>3
  <2>4. ASSUME CountAbandoned(p) PROVE Goal
    BY <1>12, <2>4
  <2>5. ASSUME ExpireOrder(p) \/ CleanOrder(p) \/ StartOrder(p) PROVE Goal
    BY <1>6, <1>7, <2>5
  <2> HIDE DEF Goal
  <2>6. CASE Begin(p)
    BY <1>8, <2>1, <2>2, <2>6 DEF Begin
  <2>7. CASE Continue(p)
    BY <1>8, <2>1, <2>3, <2>4, <2>5, <2>7 DEF Continue
  <2> QED
    BY <1>12, <2>6, <2>7
<1>13. ASSUME NEW a \in Assignments, Answer(a), UNCHANGED history PROVE Goal
  BY <1>1, <1>3, <1>10, <1>13 DEF Answer
<1>14. UNCHANGED order => Goal
  BY <1>1
<1> SUFFICES Goal
  BY DEF Same
<1> HIDE DEF Goal
<1>15. CASE Regular /\ UNCHANGED history
  BY <1>2, <1>11, <1>12, <1>13, <1>14, <1>15 DEF Regular
<1> QED
  BY <1>9, <1>11, <1>14, <1>15 DEF Next

\* Only a status update by id revives, and nothing else of its step counts.
LEMMA RevivedMoves ==
  ASSUME [Next]_vars, revived' # revived
  PROVE  \E p \in Procs : WriteAssignment(p)
BY DEF Next, vars, history, ReadAssignment, Abandon, SkipVehicle

\* The handlers of abandoned trips of o that have not counted them out.
Pending(o) ==
  {p \in Procs : /\ call[p].at \in Abandoning
                 /\ \E a \in call[p].asgs : OrderOf[asg[a].truck] = o}

LEMMA PendingMoves ==
  ASSUME TypeOK, CallInv, [Next]_vars, NEW o, NEW p \in Pending(o)'
  PROVE  \/ p \in Pending(o)
         \/ \E a \in Assignments : CancelAbandoned(p, a) /\ OrderOf[asg[a].truck] = o
<1>1. p \in Procs /\ call'[p].at \in Abandoning
  BY DEF Pending
<1>2. PICK a \in call'[p].asgs : OrderOf[asg'[a].truck] = o
  BY DEF Pending
<1>3. call[p] \in Call /\ call \in [Procs -> Call]
  BY <1>1 DEF TypeOK
<1>4. CASE call'[p].asgs = call[p].asgs /\ call[p].at \in Abandoning
  <2>1. a \in Assignments /\ asg[a].status # "none"
    BY <1>1, <1>2, <1>3, <1>4 DEF Call, CallInv, Known
  <2>2. asg'[a].truck = asg[a].truck
    BY <2>1, RowMoves
  <2> QED
    BY <1>1, <1>2, <1>4, <2>2 DEF Pending
<1>5. CASE call'[p] = call[p]
  BY <1>1, <1>4, <1>5
<1>6. ASSUME NEW b \in Assignments, CancelAbandoned(p, b)
      PROVE  \E c \in Assignments : CancelAbandoned(p, c) /\ OrderOf[asg[c].truck] = o
  <2>1. call'[p].asgs = {b} /\ asg[b].status # "none"
    BY <1>3, <1>6 DEF CancelAbandoned, Idle
  <2>2. asg'[b].truck = asg[b].truck
    BY <2>1, RowMoves
  <2> QED
    BY <1>2, <1>6, <2>1, <2>2
<1>7. ASSUME Return(p) PROVE FALSE
  BY <1>1, <1>3, <1>7 DEF Return, Idle, Abandoning
<1>8. ASSUME FreeAbandoned(p) PROVE call'[p].asgs = call[p].asgs /\ call[p].at \in Abandoning
  BY <1>3, <1>8 DEF FreeAbandoned, Step, Call, Abandoning
<1>9. ASSUME NEW b \in Assignments,
             Decline(p, b) \/ CancelAssignment(p, b) \/ ReadAssignment(p, b)
      PROVE  FALSE
  <2>1. ASSUME NEW s \in {"undo", "write"}, NEW to, Writing(p, s, b, to) PROVE FALSE
    <3> DEFINE d == [Idle EXCEPT !.at = s, !.asgs = {b}, !.to = to]
    <3>1. \A c \in Call : [c EXCEPT !.at = s, !.asgs = {b}, !.to = to].at = s
      BY DEF Call
    <3>2. d.at = s /\ call' = [call EXCEPT ![p] = d]
      BY <2>1, <3>1, IdleType DEF Writing
    <3> HIDE DEF d
    <3>3. call'[p].at = s
      BY <1>1, <1>3, <3>2
    <3> QED
      BY <1>1, <3>3 DEF Abandoning
  <2> QED
    BY <1>9, <2>1 DEF Decline, CancelAssignment, Undo, ReadAssignment
<1>10. ASSUME \/ \E b \in Assignments : DeclineInHold(p, b)
              \/ FindOrphans(p)
              \/ \E x \in Orders : BeginHoldExpiry(p, x) \/ ExpiryRead(p, x) \/ CleanupRead(p, x)
       PROVE  FALSE
  BY <1>1, <1>3, <1>10 DEF DeclineInHold, FindOrphans, BeginHoldExpiry, ExpiryRead, CleanupRead,
                           Idle, Abandoning
<1>11. ASSUME NEW s \in {"declineVehicle", "start", "end", "closeHolds", "findTrips", "cancelRest",
                          "refetch", "cleanTrucks"}, Step(p, s)
       PROVE  FALSE
  BY <1>1, <1>3, <1>11 DEF Step, Call, Abandoning
<1>12. ASSUME \/ KeepTruck(p) \/ ExpireOrder(p) \/ CloseHolds(p) \/ CancelPending(p)
              \/ CancelRest(p) \/ CleanOrder(p)
       PROVE  FALSE
  BY <1>11, <1>12 DEF KeepTruck, ExpireOrder, CloseHolds, CancelPending, CancelRest, CleanOrder
<1>13. ASSUME \/ CommitUndo(p) \/ ReleaseDeclined(p) \/ EndTrip(p) \/ CleanTrucks(p)
              \/ CountAbandoned(p) \/ Abandon(p)
       PROVE  FALSE
  BY <1>7, <1>13 DEF CommitUndo, ReleaseDeclined, EndTrip, CleanTrucks, CountAbandoned, Abandon
<1>14. ASSUME call'[p] # call[p], StartOrder(p) \/ WriteAssignment(p) PROVE FALSE
  BY <1>7, <1>11, <1>14 DEF StartOrder, WriteAssignment
<1>15. ASSUME ExpireTrucks(p) \/ FindTrips(p) \/ Refetch(p) PROVE FALSE
  <2>1. CASE ExpireTrucks(p)
    BY <1>1, <1>3, <2>1 DEF ExpireTrucks, Call, Abandoning
  <2>2. CASE FindTrips(p)
    <3>1. PICK A : call'[p] = IF A = {} THEN Idle
                              ELSE [Idle EXCEPT !.at = "cancelPending", !.asgs = A]
      BY <1>1, <1>3, <2>2 DEF FindTrips
    <3> QED
      BY <1>1, <3>1 DEF Idle, Abandoning
  <2>3. CASE Refetch(p)
    BY <1>1, <1>3, <2>3 DEF Refetch, Idle, Abandoning
  <2> QED
    BY <1>15, <2>1, <2>2, <2>3
<1>16. ASSUME \/ \E b \in Assignments : ReleaseOne(p, b)
              \/ \E v \in Vehicles : ReleaseNext(p, v) \/ SkipVehicle(p, v)
       PROVE  FALSE
  <2>1. call[p].at \in {"holdExpiry", "freeVehicles"}
    BY <1>16 DEF ReleaseOne, ReleaseNext, SkipVehicle
  <2>2. ASSUME NEW b, call' = [call EXCEPT ![p].asgs = @ \ {b}] PROVE call'[p].at = call[p].at
    BY <1>3, <2>2 DEF Call
  <2>3. ASSUME NEW v, call' = [call EXCEPT ![p].vehicles = @ \ {v}] PROVE call'[p].at = call[p].at
    BY <1>3, <2>3 DEF Call
  <2>4. ASSUME NEW b \in Assignments, ReleaseOne(p, b) PROVE call'[p].at = call[p].at
    BY <1>7, <2>2, <2>4 DEF ReleaseOne
  <2>5. ASSUME NEW v \in Vehicles, ReleaseNext(p, v) \/ SkipVehicle(p, v)
        PROVE  call'[p].at = call[p].at
    BY <1>7, <2>3, <2>5 DEF ReleaseNext, SkipVehicle
  <2> QED
    BY <1>1, <1>16, <2>1, <2>4, <2>5 DEF Abandoning
<1>17. CASE call'[p] # call[p] /\ Begin(p)
  BY <1>6, <1>9, <1>10, <1>17 DEF Begin
<1>18. CASE call'[p] # call[p] /\ Continue(p)
  BY <1>4, <1>8, <1>12, <1>13, <1>14, <1>15, <1>16, <1>18 DEF Continue
<1> QED
  BY <1>1, <1>5, <1>9, <1>13, <1>14, <1>16, <1>17, <1>18, OwnSteps DEF Acts

\* Only a new assignment, and a status update by id, makes one live that was not.
LEMMA LiveComes ==
  ASSUME TypeOK, CallInv, [Next]_vars, NEW a \in Assignments, Live(a)',
         \A p \in Procs : ~WriteAssignment(p),
         \A t \in Trucks, v \in Vehicles, b \in Assignments : ~Assign(t, v, b)
  PROVE  Live(a) /\ asg'[a].truck = asg[a].truck
<1>1. CASE asg' = asg
  BY <1>1 DEF Live
<1>2. ASSUME NEW S \in SUBSET Assignments, NEW s \in AsgStatus, SetAsgs(S, s), MovesTo(S, s)
      PROVE  Live(a)
  <2>1. CASE a \notin S
    BY <1>2, <2>1 DEF SetAsgs, Live
  <2>2. CASE a \in S
    <3>1. asg'[a].status = s /\ <<asg[a].status, s>> \in Moves
      BY <1>2, <2>2 DEF SetAsgs, MovesTo, TypeOK, Row
    <3> QED
      BY <3>1 DEF Live, LiveStatuses, Moves
  <2> QED
    BY <2>1, <2>2
<1>3. ASSUME NEW p \in Procs, CommitUndo(p) PROVE Live(a)
  <2>1. PICK b \in Assignments, s \in {"driver_declined", "cancelled"} :
          Live(b) /\ SetAsgs({b}, s)
    BY <1>3, CommitIs
  <2> QED
    BY <2>1, UndoEnds DEF SetAsgs, Live
<1>4. Live(a)
  BY <1>1, <1>2, <1>3, StepKinds
<1> QED
  BY <1>4, RowMoves DEF Live, LiveStatuses

\* What a step does to the count of o, and to what the count has to cover.
LEMMA FilledKinds ==
  ASSUME TypeOK, CallInv, [Next]_vars, NEW o \in Orders
  PROVE  \/ /\ order'[o].filled = order[o].filled /\ revived'[o] = revived[o]
            /\ LiveOf(o)' \subseteq LiveOf(o) /\ Pending(o)' \subseteq Pending(o)
         \/ \E a \in Assignments :
              /\ \/ order'[o].filled = order[o].filled + 1 /\ revived'[o] = revived[o]
                 \/ order'[o].filled = order[o].filled /\ revived'[o] = revived[o] + 1
              /\ LiveOf(o)' \subseteq LiveOf(o) \union {a} /\ Pending(o)' \subseteq Pending(o)
         \/ \E a \in LiveOf(o), p \in Procs :
              /\ order'[o].filled = order[o].filled /\ revived'[o] = revived[o]
              /\ LiveOf(o)' \subseteq LiveOf(o) \ {a}
              /\ Pending(o)' \subseteq Pending(o) \union {p}
         \/ \E a \in LiveOf(o) :
              /\ order'[o].filled = OneLess(order[o].filled) /\ revived'[o] = revived[o]
              /\ LiveOf(o)' \subseteq LiveOf(o) \ {a} /\ Pending(o)' \subseteq Pending(o)
         \/ \E p \in Pending(o) :
              /\ order'[o].filled = OneLess(order[o].filled) /\ revived'[o] = revived[o]
              /\ LiveOf(o)' \subseteq LiveOf(o) /\ Pending(o)' \subseteq Pending(o) \ {p}
<1> DEFINE Quiet == /\ order'[o].filled = order[o].filled /\ revived'[o] = revived[o]
                    /\ LiveOf(o)' \subseteq LiveOf(o) /\ Pending(o)' \subseteq Pending(o)
           Comes(a) == LiveOf(o)' \subseteq LiveOf(o) \union {a} /\ Pending(o)' \subseteq Pending(o)
<1>1. /\ \A a : a \in LiveOf(o) <=> /\ a \in Assignments /\ Live(a)
                                    /\ OrderOf[asg[a].truck] = o
      /\ \A a : a \in LiveOf(o)' <=> /\ a \in Assignments /\ Live(a)'
                                     /\ OrderOf[asg'[a].truck] = o
  BY DEF LiveOf, OfOrder, Live, LiveStatuses
<1>2. ASSUME NEW t \in Trucks, NEW v \in Vehicles, NEW a \in Assignments, Assign(t, v, a)
      PROVE  Quiet \/ (/\ order'[o].filled = order[o].filled + 1 /\ revived'[o] = revived[o]
                       /\ Comes(a))
  <2>1. order'[o].filled = IF OrderOf[t] = o THEN order[o].filled + 1 ELSE order[o].filled
    BY <1>2 DEF Assign, TypeOK
  <2>2. revived' = revived
    BY <1>2, WriteIs, RevivedMoves DEF Assign
  <2>3. Pending(o)' \subseteq Pending(o)
    BY <1>2, PendingMoves DEF Assign, CancelAbandoned, Idle, TypeOK
  <2>4. /\ asg'[a].truck = t
        /\ \A b \in Assignments : b # a => asg'[b] = asg[b]
    BY <1>2, MadeIs
  <2>5. LiveOf(o)' \subseteq LiveOf(o) \union (IF OrderOf[t] = o THEN {a} ELSE {})
    BY <1>1, <2>4 DEF Live
  <2> QED
    BY <2>1, <2>2, <2>3, <2>5
<1>3. ASSUME NEW p \in Procs, WriteAssignment(p)
      PROVE  Quiet \/ \E a \in Assignments : /\ order'[o].filled = order[o].filled
                                             /\ revived'[o] = revived[o] + 1 /\ Comes(a)
  <2>1. PICK a \in Assignments, s \in Written4 :
          /\ SetAsgs({a}, s) /\ call[p].at = "write" /\ call'[p] # call[p]
          /\ revived' = [revived EXCEPT ![OrderOf[asg[a].truck]] =
                           IF ~Live(a) /\ s \in LiveStatuses THEN @ + 1 ELSE @]
    BY <1>3, WriteIs
  <2>2. order' = order
    BY <1>3 DEF WriteAssignment
  <2>3. Pending(o)' \subseteq Pending(o)
    <3>1. \A q \in Procs, b \in Assignments : ~CancelAbandoned(q, b)
      <4> SUFFICES ASSUME NEW q \in Procs, NEW b \in Assignments, CancelAbandoned(q, b)
                   PROVE  FALSE
        OBVIOUS
      <4>1. call[q].at = "idle" /\ call'[q].at = "freeAbandoned"
        BY DEF CancelAbandoned, Idle, TypeOK
      <4> QED
        BY <2>1, <4>1, OwnSteps
    <3>2. ASSUME NEW q \in Pending(o)' PROVE q \in Pending(o)
      <4>1. q \in Procs
        BY DEF Pending
      <4> QED
        BY <3>1, <4>1, PendingMoves
    <3> QED
      BY <3>2
  <2>4. /\ asg'[a].truck = asg[a].truck /\ asg'[a].status = s
        /\ \A b \in Assignments : b # a => asg'[b] = asg[b]
    BY <2>1 DEF SetAsgs, TypeOK, Row
  <2>5. CASE OrderOf[asg[a].truck] = o /\ ~Live(a) /\ s \in LiveStatuses
    <3>1. revived'[o] = revived[o] + 1
      BY <2>1, <2>5 DEF TypeOK
    <3>2. LiveOf(o)' \subseteq LiveOf(o) \union {a}
      BY <1>1, <2>4 DEF Live
    <3> QED
      BY <2>2, <2>3, <3>1, <3>2
  <2>6. CASE ~(OrderOf[asg[a].truck] = o /\ ~Live(a) /\ s \in LiveStatuses)
    <3>1. revived'[o] = revived[o]
      BY <2>1, <2>6 DEF TypeOK
    <3>2. LiveOf(o)' \subseteq LiveOf(o)
      BY <1>1, <2>4, <2>6 DEF Live
    <3> QED
      BY <2>2, <2>3, <3>1, <3>2
  <2> QED
    BY <2>5, <2>6
<1>4. ASSUME NEW p \in Procs, NEW a \in Assignments, CancelAbandoned(p, a)
      PROVE  \/ Quiet
             \/ /\ a \in LiveOf(o)
                /\ order'[o].filled = order[o].filled /\ revived'[o] = revived[o]
                /\ LiveOf(o)' \subseteq LiveOf(o) \ {a}
                /\ Pending(o)' \subseteq Pending(o) \union {p}
  <2>1. /\ call[p].at = "idle" /\ call'[p].at = "freeAbandoned" /\ order' = order
        /\ asg[a].status = "driver_accepted" /\ SetAsgs({a}, "cancelled")
    BY <1>4 DEF CancelAbandoned, Idle, TypeOK
  <2>2. revived' = revived
    <3>1. ASSUME NEW q \in Procs, WriteAssignment(q) PROVE FALSE
      <4>1. call[q].at = "write" /\ call'[q] # call[q]
        BY <3>1, WriteIs
      <4> QED
        BY <2>1, <4>1, OwnSteps
    <3> QED
      BY <3>1, RevivedMoves
  <2>3. /\ ~Live(a)'
        /\ \A b \in Assignments : b # a => asg'[b] = asg[b]
    BY <2>1, UndoEnds DEF SetAsgs
  <2>4. LiveOf(o)' \subseteq LiveOf(o) \ {a}
    BY <1>1, <2>3 DEF Live
  <2>5. ASSUME NEW q \in Pending(o)', q \notin Pending(o)
        PROVE  q = p /\ OrderOf[asg[a].truck] = o
    <3>1. PICK b \in Assignments : CancelAbandoned(q, b) /\ OrderOf[asg[b].truck] = o
      BY <2>5, PendingMoves
    <3>2. asg[b].status = "driver_accepted" /\ SetAsgs({b}, "cancelled")
      BY <3>1 DEF CancelAbandoned
    <3>3. b = a
      BY <2>1, <2>3, <3>2, UndoEnds
    <3>4. q \in Procs /\ call'[q] # call[q] /\ call'[p] # call[p]
      BY <2>1, <2>5, <3>1 DEF Pending, CancelAbandoned, Idle, TypeOK
    <3> QED
      BY <3>1, <3>3, <3>4, OwnSteps
  <2>6. CASE OrderOf[asg[a].truck] = o
    <3>1. a \in LiveOf(o)
      BY <1>1, <2>1, <2>6 DEF Live, LiveStatuses
    <3> QED
      BY <2>1, <2>2, <2>4, <2>5, <3>1
  <2>7. CASE OrderOf[asg[a].truck] # o
    BY <2>1, <2>2, <2>4, <2>5, <2>7
  <2> QED
    BY <2>6, <2>7
<1>5. CASE /\ \A t \in Trucks, v \in Vehicles, a \in Assignments : ~Assign(t, v, a)
           /\ \A p \in Procs : ~WriteAssignment(p)
           /\ \A p \in Procs, a \in Assignments : ~CancelAbandoned(p, a)
  <2> DEFINE Ended(a) == /\ order'[o].filled = OneLess(order[o].filled) /\ revived'[o] = revived[o]
                         /\ LiveOf(o)' \subseteq LiveOf(o) \ {a} /\ Pending(o)' \subseteq Pending(o)
             Out(p) == /\ order'[o].filled = OneLess(order[o].filled) /\ revived'[o] = revived[o]
                       /\ LiveOf(o)' \subseteq LiveOf(o) /\ Pending(o)' \subseteq Pending(o) \ {p}
  <2>1. revived' = revived
    BY <1>5, RevivedMoves
  <2>2. LiveOf(o)' \subseteq LiveOf(o)
    BY <1>1, <1>5, LiveComes
  <2>3. Pending(o)' \subseteq Pending(o)
    <3>1. ASSUME NEW q \in Pending(o)' PROVE q \in Pending(o)
      <4>1. q \in Procs
        BY DEF Pending
      <4> QED
        BY <1>5, <4>1, PendingMoves
    <3> QED
      BY <3>1
  <2>4. ASSUME NEW x, Unfill(x) PROVE order'[o].filled = IF x = o THEN OneLess(order[o].filled)
                                                              ELSE order[o].filled
    BY <2>4 DEF Unfill, TypeOK
  <2>5. ASSUME NEW a \in Assignments, Ends(a)
        PROVE  Quiet \/ (a \in LiveOf(o) /\ Ended(a))
    <3>1. ~Live(a)' /\ Live(a)
      BY <2>5, UndoEnds DEF Ends
    <3> QED
      BY <1>1, <2>1, <2>2, <2>3, <2>4, <2>5, <3>1 DEF Ends
  <2>6. ASSUME NEW p \in Procs, CountAbandoned(p)
        PROVE  Quiet \/ (p \in Pending(o) /\ Out(p))
    <3>1. PICK a \in call[p].asgs : Unfill(OrderOf[asg[a].truck])
      BY <2>6 DEF CountAbandoned
    <3>2. OrderOf[asg[a].truck] = o => p \in Pending(o)
      BY <2>6 DEF CountAbandoned, Pending, Abandoning
    <3>3. p \notin Pending(o)'
      BY <2>6 DEF CountAbandoned, Return, Idle, Pending, Abandoning, TypeOK
    <3> QED
      BY <2>1, <2>2, <2>3, <2>4, <3>1, <3>2, <3>3
  <2>7. ASSUME order'[o].filled = order[o].filled PROVE Quiet
    BY <2>1, <2>2, <2>3, <2>7
  <2> SUFFICES Quiet \/ (\E a \in LiveOf(o) : Ended(a)) \/ (\E p \in Pending(o) : Out(p))
    OBVIOUS
  <2> HIDE DEF Quiet, Ended, Out
  <2>8. \/ order'[o].filled = order[o].filled
        \/ \E a \in Assignments : Ends(a)
        \/ \E p \in Procs : CountAbandoned(p)
    BY <1>5, CountKinds
  <2> QED
    BY <2>5, <2>6, <2>7, <2>8
<1> QED
  BY <1>2, <1>3, <1>4, <1>5

\* The inductive invariant: not only what is live, but also what the handlers of
\* abandoned trips still have to count out, is covered.
FilledInv ==
  \A o \in Orders : /\ IsFiniteSet(Pending(o))
                    /\ order[o].filled + revived[o] >= Cardinality(LiveOf(o)) + Cardinality(Pending(o))

\* What a finite set loses and gains.
LEMMA Covers ==
  ASSUME NEW S, NEW T, IsFiniteSet(S), NEW x
  PROVE  /\ T \subseteq S => IsFiniteSet(T) /\ Cardinality(T) <= Cardinality(S)
         /\ T \subseteq S \union {x} => IsFiniteSet(T) /\ Cardinality(T) <= Cardinality(S) + 1
         /\ x \in S /\ T \subseteq S \ {x} => IsFiniteSet(T) /\ Cardinality(T) <= Cardinality(S) - 1
<1>1. Cardinality(S) \in Nat
  BY FS_CardinalityType
<1>2. ASSUME T \subseteq S PROVE IsFiniteSet(T) /\ Cardinality(T) <= Cardinality(S)
  BY <1>2, FS_Subset
<1>3. ASSUME T \subseteq S \union {x}
      PROVE  IsFiniteSet(T) /\ Cardinality(T) <= Cardinality(S) + 1
  <2>1. /\ IsFiniteSet(S \union {x})
        /\ Cardinality(S \union {x}) = IF x \in S THEN Cardinality(S) ELSE Cardinality(S) + 1
    BY FS_AddElement
  <2>2. IsFiniteSet(T) /\ Cardinality(T) <= Cardinality(S \union {x})
    BY <1>3, <2>1, FS_Subset
  <2>3. Cardinality(T) \in Nat
    BY <2>2, FS_CardinalityType
  <2> QED
    BY <1>1, <2>1, <2>2, <2>3
<1>4. ASSUME x \in S, T \subseteq S \ {x}
      PROVE  IsFiniteSet(T) /\ Cardinality(T) <= Cardinality(S) - 1
  <2>1. IsFiniteSet(S \ {x}) /\ Cardinality(S \ {x}) = Cardinality(S) - 1
    BY <1>4, FS_RemoveElement
  <2> QED
    BY <1>4, <2>1, FS_Subset
<1> QED
  BY <1>2, <1>3, <1>4

LEMMA FilledStep ==
  ASSUME TypeOK, TypeOK', CallInv, FilledInv, [Next]_vars, NEW o \in Orders
  PROVE  /\ IsFiniteSet(Pending(o)')
         /\ order'[o].filled + revived'[o] >= Cardinality(LiveOf(o)') + Cardinality(Pending(o)')
<1> DEFINE n == Cardinality(LiveOf(o))
           k == Cardinality(Pending(o))
           m == Cardinality(LiveOf(o)')
           j == Cardinality(Pending(o)')
           Fin == IsFiniteSet(LiveOf(o)') /\ IsFiniteSet(Pending(o)')
<1>1. IsFiniteSet(LiveOf(o)) /\ IsFiniteSet(Pending(o))
  <2>1. LiveOf(o) \subseteq Assignments
    BY DEF LiveOf, OfOrder
  <2> QED
    BY <2>1, FS_Subset, DriverResponseAssumption DEF FilledInv
<1>2. /\ n \in Nat /\ k \in Nat /\ order[o].filled \in Nat /\ revived[o] \in Nat
      /\ order[o].filled + revived[o] >= n + k
  BY <1>1, FS_CardinalityType DEF TypeOK, FilledInv
<1>3. Fin => m \in Nat /\ j \in Nat
  BY FS_CardinalityType
<1>4. \E d \in {-1, 0, 1} : /\ Fin
                            /\ \/ d = 0 /\ m + j <= n + k
                               \/ d = 1 /\ m + j <= n + k + 1
                               \/ d = -1 /\ m + j <= n + k - 1
                            /\ \/ d = 1 /\ order'[o].filled + revived'[o] = order[o].filled + revived[o] + 1
                               \/ d = 0 /\ order'[o].filled + revived'[o] = order[o].filled + revived[o]
                               \/ /\ d = -1 /\ order'[o].filled = OneLess(order[o].filled)
                                  /\ revived'[o] = revived[o]
  <2>1. CASE /\ order'[o].filled = order[o].filled /\ revived'[o] = revived[o]
             /\ LiveOf(o)' \subseteq LiveOf(o) /\ Pending(o)' \subseteq Pending(o)
    <3>1. Fin /\ m <= n /\ j <= k
      BY <1>1, <2>1, Covers
    <3> QED
      BY <1>2, <1>3, <2>1, <3>1
  <2>2. ASSUME NEW a \in Assignments,
               \/ order'[o].filled = order[o].filled + 1 /\ revived'[o] = revived[o]
               \/ order'[o].filled = order[o].filled /\ revived'[o] = revived[o] + 1,
               LiveOf(o)' \subseteq LiveOf(o) \union {a}, Pending(o)' \subseteq Pending(o)
        PROVE  /\ Fin /\ m + j <= n + k + 1
               /\ order'[o].filled + revived'[o] = order[o].filled + revived[o] + 1
    <3>1. Fin /\ m <= n + 1 /\ j <= k
      BY <1>1, <2>2, Covers
    <3> QED
      BY <1>2, <1>3, <2>2, <3>1
  <2>3. ASSUME NEW a \in LiveOf(o), NEW p \in Procs,
               order'[o].filled = order[o].filled, revived'[o] = revived[o],
               LiveOf(o)' \subseteq LiveOf(o) \ {a}, Pending(o)' \subseteq Pending(o) \union {p}
        PROVE  /\ Fin /\ m + j <= n + k
               /\ order'[o].filled + revived'[o] = order[o].filled + revived[o]
    <3>1. IsFiniteSet(LiveOf(o)') /\ m <= n - 1
      BY <1>1, <2>3, Covers
    <3>2. IsFiniteSet(Pending(o)') /\ j <= k + 1
      BY <1>1, <2>3, Covers
    <3> QED
      BY <1>2, <1>3, <2>3, <3>1, <3>2
  <2>4. ASSUME NEW a \in LiveOf(o),
               LiveOf(o)' \subseteq LiveOf(o) \ {a}, Pending(o)' \subseteq Pending(o)
        PROVE  Fin /\ m + j <= n + k - 1
    <3>1. Fin /\ m <= n - 1 /\ j <= k
      BY <1>1, <2>4, Covers
    <3> QED
      BY <1>2, <1>3, <3>1
  <2>5. ASSUME NEW p \in Pending(o),
               LiveOf(o)' \subseteq LiveOf(o), Pending(o)' \subseteq Pending(o) \ {p}
        PROVE  Fin /\ m + j <= n + k - 1
    <3>1. Fin /\ m <= n /\ j <= k - 1
      BY <1>1, <2>5, Covers
    <3> QED
      BY <1>2, <1>3, <3>1
  <2> HIDE DEF Fin, m, n, j, k
  <2> QED
    BY <2>1, <2>2, <2>3, <2>4, <2>5, FilledKinds
<1> HIDE DEF m, n, j, k
<1>5. order'[o].filled + revived'[o] >= m + j
  <2>1. PICK d \in {-1, 0, 1} :
          /\ \/ d = 0 /\ m + j <= n + k
             \/ d = 1 /\ m + j <= n + k + 1
             \/ d = -1 /\ m + j <= n + k - 1
          /\ \/ d = 1 /\ order'[o].filled + revived'[o] = order[o].filled + revived[o] + 1
             \/ d = 0 /\ order'[o].filled + revived'[o] = order[o].filled + revived[o]
             \/ /\ d = -1 /\ order'[o].filled = OneLess(order[o].filled)
                /\ revived'[o] = revived[o]
    BY <1>4
  <2> QED
    BY <1>2, <1>3, <1>4, <2>1 DEF OneLess
<1> QED
  BY <1>4, <1>5 DEF m, j

LEMMA FilledInit == Init => FilledInv
<1> SUFFICES ASSUME Init, NEW o \in Orders
             PROVE  /\ IsFiniteSet(Pending(o))
                    /\ order[o].filled + revived[o] >= Cardinality(LiveOf(o)) + Cardinality(Pending(o))
  BY DEF FilledInv
<1>1. LiveOf(o) = {} /\ Pending(o) = {}
  BY DEF Init, NoRow, Idle, LiveOf, OfOrder, Pending, Abandoning
<1> QED
  BY <1>1, FS_EmptySet DEF Init

LEMMA FilledInvStep == TypeOK /\ CallInv /\ FilledInv /\ [Next]_vars => FilledInv'
<1> SUFFICES ASSUME TypeOK, CallInv, FilledInv, [Next]_vars, NEW o \in Orders
             PROVE  (/\ IsFiniteSet(Pending(o))
                     /\ order[o].filled + revived[o] >= Cardinality(LiveOf(o)) + Cardinality(Pending(o)))'
  BY DEF FilledInv
<1> QED
  BY FilledStep, TypeStep

\* CountCoversLive - trucksFilled never falls below the live assignments of its
\* order, save for one for each that a status update by id revived: whoever else
\* ends an assignment, it is subtracted once, and also when the reconciliation
\* ends it and counts it out only later.
THEOREM CountCoversLive == Spec => []FilledCoversLive
<1>1. TypeOK /\ FilledInv => FilledCoversLive
  <2> SUFFICES ASSUME TypeOK, FilledInv, NEW o \in Orders
               PROVE  order[o].filled + revived[o] >= Cardinality(LiveOf(o))
    BY DEF FilledCoversLive
  <2>1. LiveOf(o) \subseteq Assignments
    BY DEF LiveOf, OfOrder
  <2>2. Cardinality(LiveOf(o)) \in Nat /\ Cardinality(Pending(o)) \in Nat
    BY <2>1, FS_Subset, FS_CardinalityType, DriverResponseAssumption DEF FilledInv
  <2> QED
    BY <2>2 DEF FilledInv, TypeOK
<1> QED
  BY <1>1, FilledInit, FilledInvStep, TypeInit, TypeStep, CallInvInit, CallInvStep, PTL DEF Spec

-----------------------------------------------------------------------------
(* No vehicle is stranded                                                    *)

\* v has a live assignment, a handler that will free it, or an assignment that
\* has strayed.
Kept(v) ==
  \/ ~NotBusy(v)
  \/ \E p \in Procs : WillFree(p, v)
  \/ \E a \in strayed : asg[a].vehicle = v

\* A vehicle that is not available any longer has just been given to an
\* assignment, or its driver has just accepted.
LEMMA VehicleTaken ==
  ASSUME TypeOK, [Next]_vars, NEW v \in Vehicles, vehicle[v] = "available",
         vehicle'[v] # "available"
  PROVE  Kept(v)'
<1>1. ASSUME NEW t \in Trucks, NEW w \in Vehicles, NEW a \in Assignments,
             Confirm(t, w, a) \/ AcceptRequest(t, w, a)
      PROVE  Kept(v)'
  <2>1. asg'[a].status = "pending" /\ asg'[a].vehicle = v
    BY <1>1 DEF Confirm, AcceptRequest, Assign, TypeOK
  <2> QED
    BY <2>1 DEF Kept, NotBusy, Live, LiveStatuses
<1>2. ASSUME NEW a \in Assignments, Accept(a) PROVE Kept(v)'
  <2>1. asg[a].vehicle = v
    BY <1>2 DEF Accept, TypeOK
  <2>2. asg'[a].status = "driver_accepted" /\ asg'[a].vehicle = v
    BY <1>2, <2>1 DEF Accept, SetAsgs, TypeOK, Row
  <2> QED
    BY <2>2 DEF Kept, NotBusy, Live, LiveStatuses
<1>3. ASSUME NEW x, FreeVehicle(x) PROVE FALSE
  BY <1>3 DEF FreeVehicle, TypeOK
<1>4. ASSUME NEW a \in Assignments, Answer(a), ~Accept(a) PROVE FALSE
  BY <1>3, <1>4 DEF Answer, AcceptInHold, TimeOut, Complete
<1>5. ASSUME NEW p \in Procs, Begin(p) PROVE FALSE
  BY <1>5 DEF Begin, Decline, CancelAssignment, Undo, DeclineInHold, CancelAbandoned, FindOrphans,
              BeginHoldExpiry, ExpiryRead, CleanupRead
<1>6. ASSUME NEW p \in Procs, Continue(p) PROVE FALSE
  <2>1. CASE \/ ReleaseDeclined(p) \/ FreeAbandoned(p) \/ CommitUndo(p)
             \/ \E w \in Vehicles : ReleaseNext(p, w)
    BY <1>3, <2>1 DEF ReleaseDeclined, FreeAbandoned, CommitUndo, ReleaseNext
  <2>2. CASE EndTrip(p) \/ \E a \in Assignments : ReleaseOne(p, a)
    BY <1>3, <2>2 DEF EndTrip, ReleaseOne
  <2>3. CASE \/ KeepTruck(p) \/ ExpireTrucks(p) \/ ExpireOrder(p) \/ CloseHolds(p) \/ FindTrips(p)
             \/ CancelPending(p) \/ CancelRest(p) \/ Refetch(p) \/ CleanOrder(p)
             \/ CleanTrucks(p) \/ CountAbandoned(p) \/ StartOrder(p)
    BY <2>3 DEF KeepTruck, ExpireTrucks, ExpireOrder, CloseHolds, FindTrips, CancelPending,
                CancelRest, Refetch, CleanOrder, CleanTrucks, CountAbandoned, StartOrder
  <2> QED
    BY <1>6, <2>1, <2>2, <2>3 DEF Continue
<1>7. ASSUME NEW p \in Procs,
             \/ WriteAssignment(p) \/ Abandon(p)
             \/ \E a \in Assignments : ReadAssignment(p, a)
             \/ \E w \in Vehicles : SkipVehicle(p, w)
      PROVE  FALSE
  BY <1>7 DEF WriteAssignment, ReadAssignment, Abandon, SkipVehicle
<1>8. ASSUME UNCHANGED vars \/ \E t \in Trucks : Hold(t) PROVE FALSE
  BY <1>8 DEF vars, Hold
<1>9. CASE \E a \in Assignments : Answer(a)
  BY <1>2, <1>4, <1>9
<1>10. CASE \E t \in Trucks, w \in Vehicles, a \in Assignments :
              Confirm(t, w, a) \/ AcceptRequest(t, w, a)
  BY <1>1, <1>10
<1>11. ASSUME NEW p \in Procs, Begin(p) \/ Continue(p) PROVE FALSE
  BY <1>5, <1>6, <1>11
<1> QED
  BY <1>7, <1>8, <1>9, <1>10, <1>11 DEF Next, Regular

\* The end of v's live assignment frees v at once, leaves a handler to do so, or
\* strays.
LEMMA EndKeeps ==
  ASSUME TypeOK, CallInv, [Next]_vars, NEW b \in Assignments, Live(b), ~Live(b)',
         NEW v \in Vehicles, asg[b].vehicle = v, vehicle'[v] # "available"
  PROVE  Kept(v)'
<1>1. asg[b].status # "none" /\ asg'[b].vehicle = v /\ asg'[b] # asg[b]
  BY RowMoves DEF Live, LiveStatuses
<1>2. ASSUME FreeVehicle(v) PROVE FALSE
  BY <1>2 DEF FreeVehicle, TypeOK
<1>3. ASSUME NEW S, NEW s, SetAsgs(S, s) PROVE b \in S /\ asg'[b].status = s
  BY <1>1, <1>3 DEF SetAsgs, TypeOK, Row
<1>4. ASSUME NEW t \in Trucks, NEW w \in Vehicles, NEW a \in Assignments,
             Confirm(t, w, a) \/ AcceptRequest(t, w, a)
      PROVE  FALSE
  BY <1>1, <1>4 DEF Confirm, AcceptRequest, Assign, NoRow, TypeOK
<1>5. ASSUME NEW a \in Assignments, Answer(a) PROVE FALSE
  <2>1. CASE Accept(a) \/ AcceptInHold(a)
    BY <1>3, <2>1 DEF Accept, AcceptInHold, Live, LiveStatuses
  <2>2. CASE TimeOut(a)
    BY <1>2, <1>3, <2>2 DEF TimeOut
  <2>3. CASE Complete(a)
    BY <1>2, <1>3, <2>3 DEF Complete
  <2> QED
    BY <1>5, <2>1, <2>2, <2>3 DEF Answer
<1>6. ASSUME NEW p \in Procs, NEW a \in Assignments, DeclineInHold(p, a) \/ CancelAbandoned(p, a)
      PROVE  Kept(v)'
  <2>1. a = b
    BY <1>3, <1>6 DEF DeclineInHold, CancelAbandoned
  <2>2. call'[p].at \in {"declineTruck", "freeAbandoned"} /\ call'[p].asgs = {a}
    BY <1>6 DEF DeclineInHold, CancelAbandoned, Idle, TypeOK
  <2> QED
    BY <1>1, <2>1, <2>2 DEF WillFree, Kept
<1>7. ASSUME NEW p \in Procs, NEW a \in Assignments, ReleaseOne(p, a) PROVE FALSE
  BY <1>1, <1>2, <1>3, <1>7 DEF ReleaseOne
<1>8. ASSUME NEW p \in Procs, CancelPending(p) \/ CancelRest(p) PROVE Kept(v)'
  <2>1. b \in call[p].asgs /\ asg'[b].status = "cancelled"
    BY <1>3, <1>8 DEF CancelPending, CancelRest
  <2>2. call'[p].at \in {"cancelRest", "refetch"} /\ call'[p].asgs = call[p].asgs
    BY <1>8 DEF CancelPending, CancelRest, Step, TypeOK, Call
  <2> QED
    BY <1>1, <2>1, <2>2 DEF WillFree, Kept
<1>9. ASSUME NEW p \in Procs, CommitUndo(p) \/ EndTrip(p) PROVE FALSE
  <2>1. PICK a, s : SetAsgs({a}, s) /\ FreeVehicle(asg[a].vehicle)
    BY <1>1, <1>9 DEF CommitUndo, EndTrip
  <2> QED
    BY <1>2, <1>3, <2>1
<1>10. ASSUME NEW p \in Procs, WriteAssignment(p) PROVE Kept(v)'
  <2>1. PICK a \in Assignments, s \in Written4 :
          /\ SetAsgs({a}, s)
          /\ strayed' = IF Strays(a, s) THEN strayed \union {a} ELSE strayed
    BY <1>10, WriteIs
  <2>2. a = b /\ asg'[b].status = s
    BY <1>3, <2>1
  <2>3. Strays(b, s)
    BY <2>2 DEF Strays, Live
  <2> QED
    BY <1>1, <2>1, <2>2, <2>3 DEF Kept
<1>11. ASSUME NEW p \in Procs,
              \/ \E a \in Assignments : Decline(p, a) \/ CancelAssignment(p, a) \/ ReadAssignment(p, a)
              \/ FindOrphans(p) \/ KeepTruck(p) \/ ReleaseDeclined(p) \/ StartOrder(p)
              \/ \E o \in Orders : BeginHoldExpiry(p, o) \/ ExpiryRead(p, o) \/ CleanupRead(p, o)
              \/ ExpireTrucks(p) \/ ExpireOrder(p) \/ CloseHolds(p) \/ FindTrips(p)
              \/ Refetch(p) \/ CleanOrder(p) \/ CleanTrucks(p) \/ FreeAbandoned(p)
              \/ CountAbandoned(p) \/ Abandon(p)
              \/ \E w \in Vehicles : ReleaseNext(p, w) \/ SkipVehicle(p, w)
       PROVE  FALSE
  BY <1>1, <1>11
  DEF Decline, CancelAssignment, Undo, ReadAssignment, FindOrphans, KeepTruck, ReleaseDeclined,
      StartOrder, BeginHoldExpiry, ExpiryRead, CleanupRead, ExpireTrucks, ExpireOrder, CloseHolds,
      FindTrips, Refetch, CleanOrder, CleanTrucks, FreeAbandoned, CountAbandoned, Abandon,
      ReleaseNext, SkipVehicle
<1>12. ASSUME UNCHANGED vars \/ \E t \in Trucks : Hold(t) PROVE FALSE
  BY <1>1, <1>12 DEF vars, Hold
<1> HIDE DEF Kept
<1>13. ASSUME NEW p \in Procs, Begin(p) \/ Continue(p) PROVE Kept(v)'
  <2>1. CASE Begin(p)
    BY <1>6, <1>11, <2>1 DEF Begin
  <2>2. CASE Continue(p)
    BY <1>7, <1>8, <1>9, <1>11, <2>2 DEF Continue
  <2> QED
    BY <1>13, <2>1, <2>2
<1> QED
  BY <1>4, <1>5, <1>10, <1>11, <1>12, <1>13 DEF Next, Regular

\* A handler that will free v still will, or has just done so; only if what it
\* has cancelled strays, it may not find it.
LEMMA FreeKeeps ==
  ASSUME TypeOK, CallInv, [Next]_vars, faults' = faults, NEW p \in Procs, NEW v \in Vehicles,
         WillFree(p, v), vehicle'[v] # "available"
  PROVE  Kept(v)'
<1>1. call[p] \in Call /\ call \in [Procs -> Call]
  BY DEF TypeOK
<1>2. ASSUME NEW a \in call[p].asgs
      PROVE  /\ asg'[a].vehicle = asg[a].vehicle
             /\ asg[a].status = "cancelled" => asg'[a].status = "cancelled" \/ a \in strayed'
  <2>1. a \in Assignments /\ asg[a].status # "none"
    BY <1>1 DEF Call, CallInv, Known
  <2> QED
    BY <2>1, RowMoves DEF Moves
<1>3. ASSUME call'[p].at = call[p].at \/ (call[p].at = "cancelRest" /\ call'[p].at = "refetch")
                                      \/ (call[p].at = "declineTruck" /\ call'[p].at = "declineVehicle"),
             call'[p].asgs = call[p].asgs,
             call'[p].vehicles = call[p].vehicles \/ call[p].at # "freeVehicles"
      PROVE  Kept(v)'
  <2>1. CASE \/ call[p].at = "freeVehicles"
             \/ call[p].at \in {"declineTruck", "declineVehicle", "freeAbandoned"}
    <3>1. WillFree(p, v)'
      BY <1>2, <1>3, <2>1 DEF WillFree
    <3> QED
      BY <3>1 DEF Kept
  <2>2. CASE call[p].at \in {"cancelRest", "refetch"}
    <3>1. PICK a \in call[p].asgs : asg[a].vehicle = v /\ asg[a].status = "cancelled"
      BY <2>2 DEF WillFree
    <3>2. asg'[a].vehicle = v
      BY <1>2, <3>1
    <3>3. CASE a \in strayed'
      BY <3>2, <3>3 DEF Kept
    <3>4. CASE asg'[a].status = "cancelled"
      <4>1. WillFree(p, v)'
        BY <1>3, <2>2, <3>2, <3>4 DEF WillFree
      <4> QED
        BY <4>1 DEF Kept
    <3> QED
      BY <1>2, <3>1, <3>3, <3>4
  <2> QED
    BY <2>1, <2>2 DEF WillFree
<1>4. call[p].at \in {"declineTruck", "declineVehicle", "freeAbandoned", "cancelRest", "refetch",
                      "freeVehicles"}
  BY DEF WillFree
<1>5. ASSUME FreeVehicle(v) PROVE FALSE
  BY <1>5 DEF FreeVehicle, TypeOK
<1>6. ASSUME Begin(p) \/ \E a \in Assignments : ReadAssignment(p, a) PROVE FALSE
  <2>1. call[p] = Idle
    BY <1>6 DEF Begin, Decline, CancelAssignment, Undo, DeclineInHold, CancelAbandoned, FindOrphans,
                BeginHoldExpiry, ExpiryRead, CleanupRead, ReadAssignment
  <2> QED
    BY <1>4, <2>1 DEF Idle
<1>7. ASSUME Abandon(p) \/ \E w \in Vehicles : SkipVehicle(p, w) PROVE FALSE
  BY <1>7 DEF Abandon, SkipVehicle, Fault, TypeOK
<1>8. CASE KeepTruck(p) \/ CancelRest(p)
  <2>1. /\ call'[p].asgs = call[p].asgs
        /\ \/ call[p].at = "declineTruck" /\ call'[p].at = "declineVehicle"
           \/ call[p].at = "cancelRest" /\ call'[p].at = "refetch"
    BY <1>1, <1>8 DEF KeepTruck, CancelRest, Step, Call
  <2> QED
    BY <1>3, <2>1
<1>9. ASSUME ReleaseDeclined(p) \/ FreeAbandoned(p) PROVE FALSE
  <2>1. PICK a \in Assignments : call[p].asgs = {a}
    BY <1>9 DEF ReleaseDeclined, FreeAbandoned, CallInv, Known, Single, Abandoning
  <2>2. asg[a].vehicle = v
    BY <1>9, <2>1 DEF ReleaseDeclined, FreeAbandoned, WillFree
  <2> QED
    BY <1>5, <1>9, <2>1, <2>2 DEF ReleaseDeclined, FreeAbandoned
<1>10. CASE Refetch(p)
  <2> DEFINE ended == {asg[a].vehicle : a \in {b \in call[p].asgs : asg[b].status = "cancelled"}}
  <2>1. v \in ended
    BY <1>10 DEF Refetch, WillFree
  <2>2. call'[p].at = "freeVehicles" /\ call'[p].vehicles = ended
    BY <1>1, <1>10, <2>1 DEF Refetch, Idle
  <2> QED
    BY <2>1, <2>2 DEF WillFree, Kept
<1>11. ASSUME NEW w \in Vehicles, ReleaseNext(p, w) PROVE Kept(v)'
  <2>1. w # v
    BY <1>5, <1>11 DEF ReleaseNext
  <2>2. v \in call[p].vehicles
    BY <1>11 DEF ReleaseNext, WillFree
  <2>3. call' = [call EXCEPT ![p].vehicles = @ \ {w}]
    BY <1>11, <2>1, <2>2 DEF ReleaseNext
  <2>4. call'[p].at = call[p].at /\ call'[p].vehicles = call[p].vehicles \ {w}
    BY <1>1, <2>3 DEF Call
  <2> QED
    BY <1>11, <2>1, <2>2, <2>4 DEF ReleaseNext, WillFree, Kept
<1>12. ASSUME \/ ExpireTrucks(p) \/ ExpireOrder(p) \/ CloseHolds(p) \/ FindTrips(p)
              \/ CancelPending(p) \/ CleanOrder(p) \/ CleanTrucks(p) \/ CountAbandoned(p)
              \/ CommitUndo(p) \/ StartOrder(p) \/ EndTrip(p) \/ WriteAssignment(p)
              \/ \E a \in Assignments : ReleaseOne(p, a)
       PROVE  FALSE
  BY <1>4, <1>12 DEF ExpireTrucks, ExpireOrder, CloseHolds, FindTrips, CancelPending, CleanOrder,
                     CleanTrucks, CountAbandoned, ReleaseOne, CommitUndo, StartOrder, EndTrip,
                     WriteAssignment
<1>13. CASE Continue(p)
  BY <1>8, <1>9, <1>10, <1>11, <1>12, <1>13 DEF Continue
<1>14. CASE call'[p] = call[p]
  BY <1>3, <1>14
<1> QED
  BY <1>6, <1>7, <1>12, <1>13, <1>14, OwnSteps DEF Acts

LEMMA FaultsGrow ==
  ASSUME TypeOK, [Next]_vars, faults' = 0
  PROVE  faults = 0
<1>1. ASSUME NEW p \in Procs, Begin(p) \/ Continue(p) PROVE faults' = faults
  BY <1>1
  DEF Begin, Decline, CancelAssignment, Undo, DeclineInHold, CancelAbandoned, FindOrphans,
      BeginHoldExpiry, ExpiryRead, CleanupRead, Continue, CommitUndo, KeepTruck, ReleaseDeclined,
      StartOrder, EndTrip, ReleaseOne, ExpireTrucks, ExpireOrder, CloseHolds, FindTrips,
      CancelPending, CancelRest, Refetch, ReleaseNext, CleanOrder, CleanTrucks, FreeAbandoned,
      CountAbandoned
<1>2. ASSUME NEW a \in Assignments, Answer(a) PROVE faults' = faults
  BY <1>2 DEF Answer, Accept, AcceptInHold, TimeOut, Complete
<1>3. ASSUME NEW t \in Trucks, NEW v \in Vehicles, NEW a \in Assignments,
             Hold(t) \/ Confirm(t, v, a) \/ AcceptRequest(t, v, a)
      PROVE  faults' = faults
  BY <1>3 DEF Hold, Confirm, AcceptRequest, Assign
<1>4. ASSUME NEW t \in Trucks, Hold(t) PROVE faults' = faults
  BY <1>4 DEF Hold
<1>5. ASSUME NEW p \in Procs, WriteAssignment(p) \/ \E a \in Assignments : ReadAssignment(p, a)
      PROVE  faults' = faults
  BY <1>5 DEF WriteAssignment, ReadAssignment
<1>6. ASSUME NEW p \in Procs, Abandon(p) \/ \E v \in Vehicles : SkipVehicle(p, v)
      PROVE  faults' = faults + 1
  BY <1>6 DEF Abandon, SkipVehicle, Fault
<1>7. faults' = faults \/ faults' = faults + 1
  BY <1>1, <1>2, <1>3, <1>4, <1>5, <1>6 DEF Next, Regular, vars
<1> QED
  BY <1>7 DEF TypeOK

LEMMA StrandedStep ==
  ASSUME TypeOK, CallInv, NoVehicleStranded, [Next]_vars
  PROVE  NoVehicleStranded'
<1> SUFFICES ASSUME faults' = 0, NEW v \in Vehicles, vehicle'[v] # "available"
             PROVE  Kept(v)'
  BY DEF NoVehicleStranded, Kept
<1>1. faults = 0
  BY FaultsGrow
<1>2. CASE vehicle[v] = "available"
  BY <1>2, VehicleTaken
<1>3. CASE vehicle[v] # "available"
  <2>1. CASE \E p \in Procs : WillFree(p, v)
    BY <1>1, <2>1, FreeKeeps
  <2>2. ASSUME NEW b \in Assignments, Live(b), asg[b].vehicle = v PROVE Kept(v)'
    <3>1. CASE Live(b)'
      <4>1. asg'[b].vehicle = v
        BY <2>2, RowMoves DEF Live, LiveStatuses
      <4> QED
        BY <3>1, <4>1 DEF Kept, NotBusy
    <3>2. CASE ~Live(b)'
      BY <2>2, <3>2, EndKeeps
    <3> QED
      BY <3>1, <3>2
  <2>3. ASSUME NEW a \in strayed, asg[a].vehicle = v PROVE Kept(v)'
    <3>1. a \in Assignments /\ asg[a].status # "none"
      BY DEF TypeOK, CallInv
    <3>2. a \in strayed' /\ asg'[a].vehicle = v
      BY <2>3, <3>1, RowMoves, StrayedGrows
    <3> QED
      BY <3>2 DEF Kept
  <2> QED
    BY <1>1, <1>3, <2>1, <2>2, <2>3 DEF NoVehicleStranded, NotBusy
<1> QED
  BY <1>2, <1>3

\* NoneStranded - while no handler dies or skips a release, every vehicle that is
\* not available has a live assignment, a handler on its way to free it, or an
\* assignment that a status update by id has ended or revived.
THEOREM NoneStranded == Spec => []NoVehicleStranded
<1>1. Init => NoVehicleStranded
  BY DEF Init, NoVehicleStranded
<1>2. TypeOK /\ CallInv /\ NoVehicleStranded /\ [Next]_vars => NoVehicleStranded'
  BY StrandedStep
<1> QED
  BY <1>1, <1>2, TypeInit, TypeStep, CallInvInit, CallInvStep, PTL DEF Spec

-----------------------------------------------------------------------------
(* The seats of the truck requests (module TruckSeats)                       *)

SeatMap == [t \in Trucks |-> SeatOf(t)]
Accepted(a) == asg[a].status = "driver_accepted"
GoingSet == {t \in Trucks : \E a \in Seated(t) : asg[a].status = "driver_accepted"}
UsedSet == {a \in Assignments : asg[a].status # "none"}
CountedMap == [o \in Orders |-> Counted(o)]
FilledMap == [o \in Orders |-> order[o].filled]
AstraySet == {t \in Trucks : Astray(t)}

\* The seat of a truck request is its one live assignment, before a step and after it.
LEMMA SeatIs ==
  ASSUME OneLivePerTruck, NEW t
  PROVE  /\ \A a \in Seated(t) : SeatOf(t) = a /\ a # None
         /\ SeatOf(t) # None => SeatOf(t) \in Seated(t)
<1>1. \A a \in Seated(t) : a # None
  BY DriverResponseAssumption DEF Seated
<1>2. CASE Seated(t) # {}
  <2>1. PICK b \in Seated(t) : TRUE
    BY <1>2
  <2>2. \A a \in Seated(t) : a = b
    BY <2>1 DEF OneLivePerTruck, Seated
  <2>3. SeatOf(t) = b
    BY <1>2, <2>1, <2>2 DEF SeatOf
  <2> QED
    BY <1>1, <2>1, <2>2, <2>3
<1>3. CASE Seated(t) = {}
  BY <1>3 DEF SeatOf
<1> QED
  BY <1>2, <1>3

LEMMA SeatIsNext ==
  ASSUME OneLivePerTruck', NEW t
  PROVE  /\ \A a \in Seated(t)' : SeatOf(t)' = a /\ a # None
         /\ SeatOf(t)' # None => SeatOf(t)' \in Seated(t)'
<1>1. \A a \in Seated(t)' : a # None
  BY DriverResponseAssumption DEF Seated
<1>2. CASE Seated(t)' # {}
  <2>1. PICK b \in Seated(t)' : TRUE
    BY <1>2
  <2>2. \A a \in Seated(t)' : a = b
    BY <2>1 DEF OneLivePerTruck, Seated, Astray
  <2>3. SeatOf(t)' = b
    BY <1>2, <2>1, <2>2 DEF SeatOf
  <2> QED
    BY <1>1, <2>1, <2>2, <2>3
<1>3. CASE Seated(t)' = {}
  BY <1>3 DEF SeatOf
<1> QED
  BY <1>2, <1>3

LEMMA SeatKept ==
  ASSUME OneLivePerTruck, OneLivePerTruck', NEW t,
         \A a \in Assignments : a \in Seated(t)' <=> a \in Seated(t)
  PROVE  SeatOf(t)' = SeatOf(t)
<1>1. PICK x, y : x = SeatOf(t) /\ y = SeatOf(t)'
  OBVIOUS
<1>2. Seated(t) \subseteq Assignments /\ Seated(t)' \subseteq Assignments
  BY DEF Seated
<1>3. x # None => x = y
  BY <1>1, <1>2, SeatIs, SeatIsNext
<1>4. y # None => x = y
  BY <1>1, <1>2, SeatIs, SeatIsNext
<1> QED
  BY <1>1, <1>3, <1>4

\* A step that seats nobody and brings no acceptance only gives seats up.
LEMMA VacateIs ==
  ASSUME OneLivePerTruck, OneLivePerTruck',
         \A t \in Trucks, a \in Assignments :
           a \in Seated(t)' => a \in Seated(t) /\ (Accepted(a)' <=> Accepted(a))
  PROVE  Seats!Vacate
<1>1. ASSUME NEW t \in Trucks PROVE Seated(t) \subseteq Assignments /\ Seated(t)' \subseteq Assignments
  BY DEF Seated
<1>2. ASSUME NEW t \in Trucks PROVE SeatOf(t)' \in {SeatOf(t), None}
  <2>1. PICK x : x = SeatOf(t)'
    OBVIOUS
  <2>2. CASE x # None
    <3>1. x \in Seated(t)' /\ x \in Assignments
      BY <1>1, <2>1, <2>2, SeatIsNext
    <3>2. SeatOf(t) = x
      BY <3>1, SeatIs
    <3> QED
      BY <2>1, <3>2
  <2> QED
    BY <2>1, <2>2
<1>3. ASSUME NEW t \in Trucks PROVE t \in GoingSet' <=> t \in GoingSet /\ SeatOf(t)' # None
  <2>1. PICK x : x = SeatOf(t)'
    OBVIOUS
  <2>2. t \in GoingSet <=> \E a \in Seated(t) : Accepted(a)
    BY DEF GoingSet, Accepted
  <2>3. t \in GoingSet' <=> \E a \in Seated(t)' : Accepted(a)'
    BY DEF GoingSet, Accepted
  <2>4. ASSUME NEW a \in Seated(t)', Accepted(a)' PROVE t \in GoingSet /\ x # None
    BY <1>1, <2>1, <2>2, <2>4, SeatIsNext
  <2>5. ASSUME NEW a \in Seated(t), Accepted(a), x # None PROVE t \in GoingSet'
    <3>1. x \in Seated(t)' /\ x \in Assignments
      BY <1>1, <2>1, <2>5, SeatIsNext
    <3>2. x = a
      BY <3>1, SeatIs
    <3> QED
      BY <2>3, <2>5, <3>1, <3>2
  <2> QED
    BY <2>1, <2>2, <2>3, <2>4, <2>5
<1>4. \A t \in Trucks : SeatMap'[t] \in {SeatMap[t], None}
  BY <1>2 DEF SeatMap
<1>5. GoingSet' = {t \in GoingSet : SeatMap'[t] # None}
  <2>1. GoingSet \subseteq Trucks /\ GoingSet' \subseteq Trucks
    BY DEF GoingSet
  <2>2. \A t \in Trucks : SeatMap'[t] = SeatOf(t)'
    BY DEF SeatMap
  <2> QED
    BY <1>3, <2>1, <2>2
<1> QED
  BY <1>4, <1>5 DEF Seats!Vacate, SeatMap, GoingSet

\* A step that counts nothing new and lowers a count by what it counts no longer.
LEMMA DiscountIs ==
  ASSUME OneLivePerTruck',
         \A o \in Orders :
           /\ Counted(o)' \subseteq Counted(o)
           /\ \/ order'[o].filled = order[o].filled
              \/ Counted(o)' # Counted(o) /\ order'[o].filled = order[o].filled - 1
  PROVE  Seats!Discount
<1>1. ASSUME NEW o \in Orders
      PROVE  /\ CountedMap'[o] \subseteq CountedMap[o]
             /\ \/ FilledMap'[o] = FilledMap[o]
                \/ CountedMap'[o] # CountedMap[o] /\ FilledMap'[o] = FilledMap[o] - 1
  BY DEF CountedMap, FilledMap
<1>2. ASSUME NEW t \in Trucks, SeatMap'[t] # None PROVE SeatMap'[t] \in CountedMap'[OrderOf[t]]
  <2>1. PICK x : x = SeatOf(t)'
    OBVIOUS
  <2>2. x \in Seated(t)' /\ SeatMap'[t] = x
    BY <1>2, <2>1, SeatIsNext DEF SeatMap
  <2>3. x \in Counted(OrderOf[t])'
    BY <2>2 DEF Seated, Counted, OfOrder, Live, LiveStatuses, Astray
  <2> QED
    BY <2>2, <2>3, DriverResponseAssumption DEF CountedMap
<1> QED
  BY <1>1, <1>2 DEF Seats!Discount, SeatMap, CountedMap, FilledMap

\* The trips that a handler has cancelled as abandoned and not counted out.
Abandoned(a) == \E p \in Procs : call[p].at \in Abandoning /\ a \in call[p].asgs

\* A step about one assignment, that exists.
OneRow(a) ==
  /\ asg[a].status # "none" /\ asg'[a].status # "none" /\ asg'[a].truck = asg[a].truck
  /\ \A b \in Assignments : b # a => asg'[b] = asg[b] /\ (Abandoned(b)' <=> Abandoned(b))
  /\ strayed' \in {strayed, strayed \union {a}}

LEMMA OneRowIs ==
  ASSUME TypeOK, CallInv, NEW a \in Assignments, OneRow(a)
  PROVE  /\ \A u : Astray(u)' <=> Astray(u) \/ (a \in strayed' /\ u = asg[a].truck)
         /\ \A u : \A b \in Assignments : b # a /\ b \in Seated(u)' =>
              b \in Seated(u) /\ (Accepted(b)' <=> Accepted(b))
         /\ \A u : \A b \in Assignments : (u = asg[a].truck => b # a /\ ~Astray(u)') =>
              (b \in Seated(u)' <=> b \in Seated(u))
         /\ \A o : \A b \in Assignments : b # a /\ b \in Counted(o)' => b \in Counted(o)
         /\ \A o : \A b \in Assignments :
              OrderOf[asg[a].truck] # o \/ (b # a /\ ~Astray(asg[a].truck)') =>
                (b \in Counted(o)' <=> b \in Counted(o))
         /\ UsedSet' = UsedSet
<1>1. /\ \A b \in Assignments : /\ asg'[b].truck = asg[b].truck
                                /\ asg'[b].status # "none" <=> asg[b].status # "none"
                                /\ b # a => asg'[b] = asg[b]
      /\ strayed \subseteq Assignments /\ strayed \subseteq strayed'
      /\ strayed' \subseteq strayed \union {a}
  BY DEF OneRow, TypeOK
<1>2. ASSUME NEW u PROVE Astray(u)' <=> Astray(u) \/ (a \in strayed' /\ u = asg[a].truck)
  BY <1>1 DEF Astray
<1>3. \A b \in Assignments : b # a => (Live(b)' <=> Live(b)) /\ (Accepted(b)' <=> Accepted(b))
                                      /\ (Abandoned(b)' <=> Abandoned(b))
  BY DEF OneRow, Live, Accepted
<1>4. ASSUME NEW u, NEW b \in Assignments
      PROVE  /\ b \in Seated(u) <=> Live(b) /\ asg[b].truck = u /\ ~Astray(u)
             /\ b \in Seated(u)' <=> Live(b)' /\ asg'[b].truck = u /\ ~Astray(u)'
  BY DEF Seated
<1>5. ASSUME NEW o, NEW b \in Assignments, NEW u, u = asg[b].truck
      PROVE  /\ b \in Counted(o) <=> /\ asg[b].status # "none" /\ OrderOf[u] = o
                                     /\ ~Astray(u) /\ (Live(b) \/ Abandoned(b))
             /\ b \in Counted(o)' <=> /\ asg'[b].status # "none" /\ OrderOf[u] = o
                                      /\ ~Astray(u)' /\ (Live(b)' \/ Abandoned(b)')
  <2>1. asg'[b].truck = u
    BY <1>1, <1>5
  <2>2. Astray(asg[b].truck)' <=> Astray(u)'
    BY <2>1 DEF Astray
  <2> QED
    BY <1>5, <2>1, <2>2 DEF Counted, OfOrder, Abandoned
<1>6. \A u : \A b \in Assignments : b # a /\ b \in Seated(u)' =>
        b \in Seated(u) /\ (Accepted(b)' <=> Accepted(b))
  BY <1>1, <1>2, <1>3, <1>4
<1>7. \A u : \A b \in Assignments : (u = asg[a].truck => b # a /\ ~Astray(u)') =>
        (b \in Seated(u)' <=> b \in Seated(u))
  BY <1>1, <1>2, <1>3, <1>4
<1>8. \A o : \A b \in Assignments : b # a /\ b \in Counted(o)' => b \in Counted(o)
  BY <1>1, <1>2, <1>3, <1>5
<1>9. ASSUME NEW o, NEW b \in Assignments,
             OrderOf[asg[a].truck] # o \/ (b # a /\ ~Astray(asg[a].truck)')
      PROVE  b \in Counted(o)' <=> b \in Counted(o)
  <2>1. PICK u, t : u = asg[b].truck /\ t = asg[a].truck
    OBVIOUS
  <2>2. Astray(asg[a].truck)' <=> Astray(t)'
    BY <1>1, <2>1 DEF Astray
  <2>3. CASE b = a
    BY <1>5, <1>9, <2>1, <2>3
  <2>4. CASE b # a
    <3>1. OrderOf[u] = o => (Astray(u)' <=> Astray(u))
      BY <1>2, <1>9, <2>1, <2>2
    <3> QED
      BY <1>1, <1>3, <1>5, <2>1, <2>4, <3>1
  <2> QED
    BY <2>3, <2>4
<1>10. UsedSet' = UsedSet
  BY <1>1 DEF UsedSet
<1> QED
  BY <1>2, <1>6, <1>7, <1>8, <1>9, <1>10

\* A truck request goes astray with the assignment that does.
LEMMA GoesAstray ==
  ASSUME TruckInv, TruckInv', NEW a \in Assignments, OneRow(a), a \in strayed',
         ~Astray(asg[a].truck), \A o \in Orders : order'[o].filled = order[o].filled
  PROVE  Seats!SeatNext
<1>1. TypeOK /\ CallInv /\ OneLivePerTruck /\ OneLivePerTruck'
  BY DEF TruckInv
<1>2. PICK t \in Trucks : t = asg[a].truck
  BY <1>1 DEF TypeOK, OneRow
<1>3. AstraySet' = AstraySet \union {t} /\ t \notin AstraySet
  BY <1>1, <1>2, OneRowIs DEF AstraySet
<1>4. asg'[a].truck = t /\ Astray(t)'
  BY <1>2 DEF OneRow, Astray
<1>5. \A u \in Trucks : a \notin Seated(u)'
  BY <1>4 DEF Seated
<1>6. \A o \in Orders : a \notin Counted(o)'
  BY <1>4 DEF Counted, Astray
<1>7. Seats!Vacate
  BY <1>1, <1>5, OneRowIs, VacateIs
<1>8. ASSUME NEW o \in Orders PROVE Counted(o)' \subseteq Counted(o)
  <2>1. Counted(o)' \subseteq Assignments
    BY DEF Counted, OfOrder
  <2> QED
    BY <1>1, <1>6, <2>1, OneRowIs
<1>9. Seats!Discount
  BY <1>1, <1>8, DiscountIs
<1>10. ASSUME NEW u \in Trucks, u # t PROVE SeatOf(u)' = SeatOf(u)
  BY <1>1, <1>2, <1>10, OneRowIs, SeatKept
<1>11. ASSUME NEW o \in Orders, o # OrderOf[t] PROVE Counted(o)' = Counted(o)
  <2>1. Counted(o)' \subseteq Assignments /\ Counted(o) \subseteq Assignments
    BY DEF Counted, OfOrder
  <2>2. \A b \in Assignments : b \in Counted(o)' <=> b \in Counted(o)
    BY <1>1, <1>2, <1>11, OneRowIs
  <2> QED
    BY <2>1, <2>2
<1>12. \A u \in Trucks : SeatMap'[u] # SeatMap[u] => u = t
  BY <1>10 DEF SeatMap
<1>13. \A o \in Orders : CountedMap'[o] # CountedMap[o] => o = OrderOf[t]
  BY <1>11 DEF CountedMap
<1>14. UsedSet' = UsedSet /\ FilledMap' = FilledMap
  BY <1>1, OneRowIs DEF FilledMap
<1>15. Seats!Stray(t)
  BY <1>3, <1>7, <1>9, <1>12, <1>13, <1>14
  DEF Seats!Stray, SeatMap, CountedMap, UsedSet, FilledMap, AstraySet
<1> QED
  BY <1>15 DEF Seats!SeatNext

\* A step about an assignment of a request that is astray moves the count, if that.
LEMMA StaysAstray ==
  ASSUME TruckInv, TruckInv', NEW a \in Assignments, OneRow(a), Astray(asg[a].truck),
         \/ \A o \in Orders : order'[o].filled = order[o].filled
         \/ Unfill(OrderOf[asg[a].truck])
  PROVE  Seats!SeatNext
<1>1. TypeOK /\ CallInv /\ OneLivePerTruck /\ OneLivePerTruck'
  BY DEF TruckInv
<1>2. PICK t \in Trucks : t = asg[a].truck
  BY <1>1 DEF TypeOK, OneRow
<1>3. \A u \in Trucks : Astray(u)' <=> Astray(u)
  BY <1>1, <1>2, OneRowIs
<1>4. asg'[a].truck = t /\ Astray(t) /\ Astray(t)'
  BY <1>2, <1>3 DEF OneRow
<1>5. ASSUME NEW u \in Trucks
      PROVE  /\ \A b \in Assignments : b \in Seated(u)' <=> b \in Seated(u)
             /\ \A b \in Assignments : b \in Seated(u)' => (Accepted(b)' <=> Accepted(b))
  <2>1. a \notin Seated(u)' /\ a \notin Seated(u)
    BY <1>2, <1>4 DEF Seated
  <2>2. \A b \in Seated(t) : FALSE
    BY <1>4 DEF Seated
  <2>3. \A b \in Seated(t)' : FALSE
    BY <1>4 DEF Seated
  <2>4. CASE u = t
    BY <2>2, <2>3, <2>4
  <2>5. CASE u # t
    BY <1>1, <1>2, <2>1, <2>5, OneRowIs
  <2> QED
    BY <2>4, <2>5
<1>6. ASSUME NEW o \in Orders PROVE Counted(o)' = Counted(o)
  <2>1. ASSUME NEW b \in Assignments PROVE b \in Counted(o)' <=> b \in Counted(o)
    <3>1. CASE asg[b].truck = t
      <4>1. asg'[b].truck = t
        BY <1>4, <3>1 DEF OneRow
      <4> QED
        BY <1>4, <3>1, <4>1 DEF Counted, Astray
    <3>2. CASE asg[b].truck # t
      <4>1. b # a /\ asg'[b] = asg[b] /\ (Abandoned(b)' <=> Abandoned(b))
        BY <1>2, <3>2 DEF OneRow
      <4>2. Astray(asg[b].truck)' <=> Astray(asg[b].truck)
        <5>1. PICK u : u = asg[b].truck
          OBVIOUS
        <5>2. Astray(u)' <=> Astray(u)
          BY <1>1, <1>2, <3>2, <5>1, OneRowIs
        <5>3. Astray(asg[b].truck)' <=> Astray(u)'
          BY <4>1, <5>1 DEF Astray
        <5> QED
          BY <5>1, <5>2, <5>3
      <4>3. b \in Counted(o) <=> /\ asg[b].status # "none" /\ OrderOf[asg[b].truck] = o
                                 /\ ~Astray(asg[b].truck) /\ (Live(b) \/ Abandoned(b))
        BY DEF Counted, OfOrder, Abandoned
      <4>4. b \in Counted(o)' <=> /\ asg'[b].status # "none" /\ OrderOf[asg'[b].truck] = o
                                  /\ ~Astray(asg[b].truck)' /\ (Live(b)' \/ Abandoned(b)')
        BY DEF Counted, OfOrder, Abandoned
      <4>5. Live(b)' <=> Live(b)
        BY <4>1 DEF Live
      <4> QED
        BY <4>1, <4>2, <4>3, <4>4, <4>5
    <3> QED
      BY <3>1, <3>2
  <2>2. Counted(o)' \subseteq Assignments /\ Counted(o) \subseteq Assignments
    BY DEF Counted, OfOrder
  <2> QED
    BY <2>1, <2>2
<1>7. UsedSet' = UsedSet
  BY <1>1, OneRowIs
<1>8. AstraySet' = AstraySet /\ t \in AstraySet
  BY <1>3, <1>4 DEF AstraySet
<1>9. SeatMap' = SeatMap
  BY <1>1, <1>5, SeatKept DEF SeatMap
<1>10. GoingSet' = GoingSet
  <2>1. ASSUME NEW u \in Trucks PROVE u \in GoingSet' <=> u \in GoingSet
    <3>1. Seated(u) \subseteq Assignments /\ Seated(u)' \subseteq Assignments
      BY DEF Seated
    <3> QED
      BY <1>5, <3>1 DEF GoingSet, Accepted
  <2>2. GoingSet \subseteq Trucks /\ GoingSet' \subseteq Trucks
    BY DEF GoingSet
  <2> QED
    BY <2>1, <2>2
<1>11. CountedMap' = CountedMap
  BY <1>6 DEF CountedMap
<1>12. CASE \A o \in Orders : order'[o].filled = order[o].filled
  <2>1. Seats!Vacate
    BY <1>1, <1>5, VacateIs
  <2>2. Seats!Discount
    BY <1>1, <1>6, <1>12, DiscountIs
  <2> QED
    BY <1>7, <1>8, <2>1, <2>2 DEF Seats!SeatNext, Seats!Leave, UsedSet, AstraySet
<1>13. CASE ~\A o \in Orders : order'[o].filled = order[o].filled
  <2>1. order' = [order EXCEPT ![OrderOf[t]].filled = OneLess(@)]
    BY <1>2, <1>13 DEF Unfill
  <2>2. OrderOf[t] \in Orders /\ order \in [Orders -> [status: OrderStatus, filled: Nat]]
    BY <1>1, DriverResponseAssumption DEF TypeOK
  <2>3. \A o \in Orders :
          order'[o].filled = IF o = OrderOf[t] THEN OneLess(order[o].filled) ELSE order[o].filled
    BY <2>1, <2>2
  <2>4. OneLess(order[OrderOf[t]].filled) = order[OrderOf[t]].filled - 1
    <3>1. order[OrderOf[t]].filled \in Nat
      BY <2>2
    <3>2. OneLess(order[OrderOf[t]].filled) # order[OrderOf[t]].filled
      BY <1>13, <2>3
    <3> QED
      BY <3>1, <3>2 DEF OneLess
  <2>5. FilledMap' = [FilledMap EXCEPT ![OrderOf[t]] = @ - 1]
    BY <2>2, <2>3, <2>4 DEF FilledMap
  <2>6. Seats!CountAstray(t)
    BY <1>7, <1>8, <1>9, <1>10, <1>11, <2>5
    DEF Seats!CountAstray, SeatMap, GoingSet, UsedSet, CountedMap, FilledMap, AstraySet
  <2> QED
    BY <2>6 DEF Seats!SeatNext
<1> QED
  BY <1>12, <1>13

\* An acceptance keeps the seat.
LEMMA AcceptKeepsSeat ==
  ASSUME TruckInv, TruckInv', NEW a \in Assignments, OneRow(a), a \notin strayed',
         ~Astray(asg[a].truck), asg[a].status = "pending", Accepted(a)',
         \A o \in Orders : order'[o].filled = order[o].filled
  PROVE  Seats!SeatNext
<1>1. TypeOK /\ CallInv /\ OneLivePerTruck /\ OneLivePerTruck'
  BY DEF TruckInv
<1>2. PICK t \in Trucks : t = asg[a].truck
  BY <1>1 DEF TypeOK, OneRow
<1>3. \A u : Astray(u)' <=> Astray(u)
  BY <1>1, OneRowIs
<1>4. asg'[a].truck = t /\ ~Astray(t) /\ ~Astray(t)' /\ Live(a) /\ Live(a)'
  BY <1>2, <1>3 DEF OneRow, Accepted, Live, LiveStatuses
<1>5. a \in Seated(t) /\ a \in Seated(t)'
  BY <1>2, <1>4 DEF Seated
<1>6. ASSUME NEW u \in Trucks, NEW b \in Assignments PROVE b \in Seated(u)' <=> b \in Seated(u)
  <2>1. CASE b = a
    BY <1>2, <1>4, <1>5, <2>1 DEF Seated
  <2>2. CASE b # a
    BY <1>1, <1>2, <1>4, <2>2, OneRowIs
  <2> QED
    BY <2>1, <2>2
<1>7. SeatMap' = SeatMap /\ SeatMap[t] # None
  BY <1>1, <1>5, <1>6, SeatKept, SeatIs DEF SeatMap
<1>8. t \notin GoingSet
  BY <1>1, <1>5, SeatIs DEF GoingSet
<1>9. GoingSet' = GoingSet \union {t}
  <2>1. t \in GoingSet'
    BY <1>5 DEF GoingSet, Accepted
  <2>2. ASSUME NEW u \in Trucks, u # t PROVE u \in GoingSet' <=> u \in GoingSet
    <3>1. a \notin Seated(u)
      BY <1>2, <2>2 DEF Seated
    <3>2. \A b \in Assignments : b # a => asg'[b] = asg[b]
      BY DEF OneRow
    <3>3. Seated(u) \subseteq Assignments /\ Seated(u)' \subseteq Assignments
      BY DEF Seated
    <3> QED
      BY <1>6, <3>1, <3>2, <3>3 DEF GoingSet
  <2>3. GoingSet \subseteq Trucks /\ GoingSet' \subseteq Trucks
    BY DEF GoingSet
  <2> QED
    BY <2>1, <2>2, <2>3
<1>10. ASSUME NEW o \in Orders PROVE Counted(o)' = Counted(o)
  <2>1. a \in Counted(o) <=> OrderOf[t] = o
    BY <1>2, <1>4 DEF Counted, OfOrder, OneRow
  <2>2. a \in Counted(o)' <=> OrderOf[t] = o
    BY <1>2, <1>4 DEF Counted, OfOrder, OneRow, Astray
  <2>3. ~Astray(asg[a].truck)'
    BY <1>4 DEF Astray
  <2>4. \A b \in Assignments : b \in Counted(o)' <=> b \in Counted(o)
    BY <1>1, <2>1, <2>2, <2>3, OneRowIs
  <2>5. Counted(o)' \subseteq Assignments /\ Counted(o) \subseteq Assignments
    BY DEF Counted, OfOrder
  <2> QED
    BY <2>4, <2>5
<1>11. CountedMap' = CountedMap /\ FilledMap' = FilledMap
  BY <1>10 DEF CountedMap, FilledMap
<1>12. UsedSet' = UsedSet /\ AstraySet' = AstraySet
  BY <1>1, <1>3, OneRowIs DEF AstraySet
<1>13. Seats!AcceptSeat(t)
  BY <1>7, <1>8, <1>9, <1>11, <1>12
  DEF Seats!AcceptSeat, SeatMap, GoingSet, UsedSet, CountedMap, FilledMap, AstraySet
<1> QED
  BY <1>13 DEF Seats!SeatNext

\* The end of an assignment, or the counting out of an abandoned trip.
LEMMA EndLeavesSeat ==
  ASSUME TruckInv, TruckInv', NEW a \in Assignments, OneRow(a), a \notin strayed',
         ~Astray(asg[a].truck), Live(a) \/ Abandoned(a), ~Live(a)', ~Abandoned(a)',
         Unfill(OrderOf[asg[a].truck])
  PROVE  Seats!SeatNext
<1>1. TypeOK /\ CallInv /\ OneLivePerTruck /\ OneLivePerTruck'
  BY DEF TruckInv
<1>2. PICK t \in Trucks : t = asg[a].truck
  BY <1>1 DEF TypeOK, OneRow
<1>3. \A u : Astray(u)' <=> Astray(u)
  BY <1>1, OneRowIs
<1>4. Seats!Vacate
  <2>1. \A u \in Trucks : a \notin Seated(u)'
    BY DEF Seated
  <2> QED
    BY <1>1, <2>1, OneRowIs, VacateIs
<1>5. a \in Counted(OrderOf[t]) /\ \A o \in Orders : a \notin Counted(o)'
  BY <1>2 DEF Counted, OfOrder, OneRow, Abandoned
<1>6. ASSUME NEW o \in Orders PROVE Counted(o)' \subseteq Counted(o)
  <2>1. Counted(o)' \subseteq Assignments
    BY DEF Counted, OfOrder
  <2> QED
    BY <1>1, <1>5, <2>1, OneRowIs
<1>7. \A o \in Orders :
        order'[o].filled = IF o = OrderOf[t] THEN OneLess(order[o].filled) ELSE order[o].filled
  BY <1>1, <1>2 DEF Unfill, TypeOK
<1>8. Seats!Discount
  <2>1. ASSUME NEW o \in Orders
        PROVE  \/ order'[o].filled = order[o].filled
               \/ Counted(o)' # Counted(o) /\ order'[o].filled = order[o].filled - 1
    <3>1. CASE o = OrderOf[t]
      <4>1. order[o].filled \in Nat
        BY <1>1 DEF TypeOK
      <4>2. order'[o].filled = OneLess(order[o].filled)
        BY <1>7, <3>1
      <4>3. Counted(o)' # Counted(o)
        BY <1>5, <3>1
      <4> QED
        BY <4>1, <4>2, <4>3 DEF OneLess
    <3>2. CASE o # OrderOf[t]
      BY <1>7, <3>2
    <3> QED
      BY <3>1, <3>2
  <2> QED
    BY <1>1, <1>6, <2>1, DiscountIs
<1>9. UsedSet' = UsedSet /\ AstraySet' = AstraySet
  BY <1>1, <1>3, OneRowIs DEF AstraySet
<1> QED
  BY <1>4, <1>8, <1>9 DEF Seats!SeatNext, Seats!Leave, UsedSet, AstraySet

\* A new assignment takes a free seat, or counts on a request gone astray.
LEMMA AssignTakesSeat ==
  ASSUME TruckInv, TruckInv', NEW t \in Trucks, NEW v \in Vehicles, NEW a \in Assignments,
         truck[t] \in {"searching", "held"}, Assign(t, v, a), UNCHANGED history
  PROVE  Seats!SeatNext
<1>1. /\ TypeOK /\ CallInv /\ OneLivePerTruck /\ OneLivePerTruck'
      /\ asg[a].status = "none" /\ call' = call /\ strayed' = strayed
      /\ asg'[a].status = "pending" /\ asg'[a].truck = t
      /\ \A b \in Assignments : b # a => asg'[b] = asg[b]
  <2>1. TypeOK /\ CallInv /\ OneLivePerTruck /\ OneLivePerTruck'
    BY DEF TruckInv
  <2>2. call' = call /\ strayed' = strayed
    BY DEF Assign, history
  <2> QED
    BY <2>1, <2>2, MadeIs
<1>2. Live(a)' /\ ~Live(a) /\ \A b \in Assignments : b # a => (Live(b)' <=> Live(b))
  BY <1>1 DEF Live, LiveStatuses
<1>3. a \notin strayed /\ strayed \subseteq Assignments
  BY <1>1 DEF CallInv, TypeOK
<1>4. \A u : Astray(u)' <=> Astray(u)
  BY <1>1, <1>3 DEF Astray
<1>5. ASSUME NEW u, NEW b \in Assignments, b # a PROVE b \in Seated(u)' <=> b \in Seated(u)
  BY <1>1, <1>2, <1>4, <1>5 DEF Seated
<1>6. \A u : a \notin Seated(u) /\ (a \in Seated(u)' <=> u = t /\ ~Astray(t))
  BY <1>1, <1>2, <1>4 DEF Seated
<1>7. GoingSet' = GoingSet
  <2>1. ASSUME NEW u \in Trucks PROVE u \in GoingSet' <=> u \in GoingSet
    <3>1. Seated(u) \subseteq Assignments /\ Seated(u)' \subseteq Assignments
      BY DEF Seated
    <3> QED
      BY <1>1, <1>5, <1>6, <3>1 DEF GoingSet
  <2>2. GoingSet \subseteq Trucks /\ GoingSet' \subseteq Trucks
    BY DEF GoingSet
  <2> QED
    BY <2>1, <2>2
<1>8. UsedSet' = UsedSet \union {a} /\ a \notin UsedSet
  BY <1>1 DEF UsedSet
<1>9. AstraySet' = AstraySet /\ (t \in AstraySet <=> Astray(t))
  BY <1>4 DEF AstraySet
<1>10. ASSUME NEW o \in Orders
       PROVE  Counted(o)' = IF o = OrderOf[t] /\ ~Astray(t) THEN Counted(o) \union {a} ELSE Counted(o)
  <2>1. ASSUME NEW b \in Assignments, b # a PROVE b \in Counted(o)' <=> b \in Counted(o)
    <3>1. Astray(asg[b].truck)' <=> Astray(asg[b].truck)
      <4>1. PICK u : u = asg[b].truck
        OBVIOUS
      <4>2. Astray(asg[b].truck)' <=> Astray(u)'
        BY <1>1, <2>1, <4>1 DEF Astray
      <4> QED
        BY <1>4, <4>1, <4>2
    <3> QED
      BY <1>1, <1>2, <2>1, <3>1 DEF Counted, OfOrder
  <2>2. a \in Counted(o)' <=> o = OrderOf[t] /\ ~Astray(t)
    <3>1. Astray(asg[a].truck)' <=> Astray(t)
      BY <1>1, <1>4 DEF Astray
    <3> QED
      BY <1>1, <1>2, <3>1 DEF Counted, OfOrder
  <2>3. a \notin Counted(o)
    BY <1>1 DEF Counted, OfOrder
  <2>4. Counted(o) \subseteq Assignments /\ Counted(o)' \subseteq Assignments
    BY DEF Counted, OfOrder
  <2> QED
    BY <2>1, <2>2, <2>3, <2>4
<1>11. FilledMap' = [FilledMap EXCEPT ![OrderOf[t]] = @ + 1]
  <2>1. \A o \in Orders :
          order'[o].filled = IF o = OrderOf[t] THEN order[o].filled + 1 ELSE order[o].filled
    BY <1>1 DEF Assign, TypeOK
  <2> QED
    BY <2>1, DriverResponseAssumption DEF FilledMap
<1>12. ASSUME NEW u \in Trucks, u # t \/ Astray(t) PROVE SeatOf(u)' = SeatOf(u)
  <2>1. \A b \in Assignments : b \in Seated(u)' <=> b \in Seated(u)
    BY <1>5, <1>6, <1>12
  <2> QED
    BY <1>1, <2>1, SeatKept
<1>13. CASE Astray(t)
  <2>1. SeatMap' = SeatMap /\ CountedMap' = CountedMap
    BY <1>10, <1>12, <1>13 DEF SeatMap, CountedMap
  <2>2. Seats!GiveAstray(t, a)
    BY <1>7, <1>8, <1>9, <1>11, <1>13, <2>1
    DEF Seats!GiveAstray, SeatMap, GoingSet, UsedSet, CountedMap, FilledMap, AstraySet
  <2> QED
    BY <2>2 DEF Seats!SeatNext
<1>14. CASE ~Astray(t)
  <2>1. SeatOf(t) = None
    <3>1. PICK x : x = SeatOf(t)
      OBVIOUS
    <3>2. ASSUME x # None PROVE FALSE
      <4>1. x \in Assignments /\ Live(x) /\ asg[x].truck = t
        BY <1>1, <3>1, <3>2, SeatIs DEF Seated
      <4>2. Locked(x)
        BY <1>14, <4>1 DEF TruckInv
      <4>3. LockedOrder(OrderOf[t])
        BY <4>1, <4>2 DEF Locked, LockedOrder
      <4> QED
        BY <4>3 DEF Assign
    <3> QED
      BY <3>1, <3>2
  <2>2. SeatOf(t)' = a
    BY <1>1, <1>6, <1>14, SeatIsNext
  <2>3. SeatMap' = [SeatMap EXCEPT ![t] = a] /\ SeatMap[t] = None
    BY <1>12, <2>1, <2>2 DEF SeatMap
  <2>4. CountedMap' = [CountedMap EXCEPT ![OrderOf[t]] = @ \union {a}]
    BY <1>10, <1>14, DriverResponseAssumption DEF CountedMap
  <2>5. Seats!Give(t, a)
    BY <1>7, <1>8, <1>9, <1>11, <1>14, <2>3, <2>4
    DEF Seats!Give, SeatMap, GoingSet, UsedSet, CountedMap, FilledMap, AstraySet
  <2> QED
    BY <2>5 DEF Seats!SeatNext
<1> QED
  BY <1>13, <1>14

\* A live assignment of a request that is not astray had its seat already, and
\* nothing new is counted, unless a new assignment is made.
LEMMA NothingComes ==
  ASSUME TruckInv, TruckInv', [Next]_vars,
         \A t \in Trucks, v \in Vehicles, a \in Assignments :
           ~(truck[t] \in {"searching", "held"} /\ Assign(t, v, a))
  PROVE  /\ \A t \in Trucks, a \in Assignments : a \in Seated(t)' => a \in Seated(t) /\ a \notin strayed'
         /\ \A o \in Orders : Counted(o)' \subseteq Counted(o)
         /\ UsedSet' = UsedSet
<1>1. TypeOK /\ CallInv /\ TypeOK'
  BY DEF TruckInv
<1>2. \A a \in Assignments : Live(a)' =>
        /\ asg[a].status # "none" /\ asg'[a].truck = asg[a].truck
        /\ Live(a) \/ a \in strayed'
  BY <1>1, LiveMoves DEF Live, LiveStatuses
<1>3. ASSUME NEW a \in Assignments PROVE asg'[a].status # "none" <=> asg[a].status # "none"
  <2>1. CASE asg[a].status = "none"
    BY <1>1, <1>2, <2>1, RowMoves DEF Live, LiveStatuses
  <2>2. CASE asg[a].status # "none"
    BY <1>1, <2>2, RowMoves DEF Moves, Written4
  <2> QED
    BY <2>1, <2>2
<1>4. \A a \in Assignments : asg[a].status # "none" => asg'[a].truck = asg[a].truck
  BY <1>1, RowMoves
<1>5. \A u : Astray(u) => Astray(u)'
  BY <1>1, AstrayGrows
<1>6. ASSUME NEW t \in Trucks, NEW a \in Assignments, a \in Seated(t)'
      PROVE  a \in Seated(t) /\ a \notin strayed'
  <2>1. Live(a)' /\ asg'[a].truck = t /\ ~Astray(t)'
    BY <1>6 DEF Seated
  <2>2. a \notin strayed'
    BY <2>1 DEF Astray
  <2> QED
    BY <1>2, <1>5, <2>1, <2>2 DEF Seated
<1>7. ASSUME NEW o \in Orders, NEW a \in Counted(o)' PROVE a \in Counted(o)
  <2>1. /\ a \in Assignments /\ asg'[a].status # "none" /\ OrderOf[asg'[a].truck] = o
        /\ Live(a)' \/ \E p \in Procs : call'[p].at \in Abandoning /\ a \in call'[p].asgs
    BY DEF Counted, OfOrder
  <2>2. asg[a].status # "none" /\ asg'[a].truck = asg[a].truck
    BY <1>3, <1>4, <2>1
  <2>3. PICK u : u = asg[a].truck
    OBVIOUS
  <2>4. ~Astray(u)'
    BY <2>2, <2>3 DEF Counted, Astray
  <2>5. a \notin strayed' /\ ~Astray(u)
    BY <1>5, <2>2, <2>3, <2>4 DEF Astray
  <2>6. ASSUME NEW p \in Procs, call'[p].at \in Abandoning, a \in call'[p].asgs
        PROVE  Live(a) \/ (call[p].at \in Abandoning /\ a \in call[p].asgs)
    <3>1. call'[p].at \in Single /\ call'[p].at \notin {"declineTruck", "undo", "write"}
      BY <2>6 DEF Single, Abandoning
    <3>2. \/ a \in call[p].asgs /\ call[p].at \in Abandoning
          \/ asg[a].status = "driver_accepted"
      BY <1>1, <2>6, <3>1, CallMoves
    <3> QED
      BY <3>2 DEF Live, LiveStatuses
  <2>7. Live(a) \/ \E p \in Procs : call[p].at \in Abandoning /\ a \in call[p].asgs
    BY <1>2, <2>1, <2>5, <2>6
  <2> QED
    BY <2>1, <2>2, <2>3, <2>5, <2>7 DEF Counted, OfOrder
<1>8. UsedSet' = UsedSet
  BY <1>3 DEF UsedSet
<1> QED
  BY <1>6, <1>7, <1>8

\* A step that makes nothing, accepts nothing, strays nothing and counts nothing
\* at most ends assignments.
LEMMA OthersLeave ==
  ASSUME TruckInv, TruckInv', [Next]_vars, strayed' = strayed,
         \A t \in Trucks, v \in Vehicles, a \in Assignments :
           ~(truck[t] \in {"searching", "held"} /\ Assign(t, v, a)),
         \/ asg' = asg
         \/ /\ \A a \in Assignments : ~Accept(a) /\ ~AcceptInHold(a)
            /\ \A p \in Procs : ~WriteAssignment(p),
         \A o \in Orders : order'[o].filled = order[o].filled
  PROVE  Seats!SeatNext
<1>1. TypeOK /\ CallInv /\ OneLivePerTruck /\ OneLivePerTruck'
  BY DEF TruckInv
<1>2. ASSUME NEW t \in Trucks, NEW a \in Assignments, a \in Seated(t)'
      PROVE  a \in Seated(t) /\ (Accepted(a)' <=> Accepted(a))
  <2>1. a \in Seated(t) /\ a \notin strayed'
    BY <1>2, NothingComes
  <2>2. CASE asg' = asg
    BY <2>1, <2>2 DEF Accepted
  <2>3. ASSUME Accepted(a)', asg' # asg PROVE Accepted(a)
    <3>1. ASSUME NEW S \in SUBSET Assignments, NEW s \in AsgStatus, SetAsgs(S, s),
                 s # "driver_accepted"
          PROVE  Accepted(a)
      <4>1. asg[a] \in Row
        BY <1>1 DEF TypeOK
      <4> QED
        BY <2>3, <3>1, <4>1 DEF SetAsgs, Accepted, Row
    <3>2. ASSUME NEW p \in Procs, CommitUndo(p) PROVE Accepted(a)
      <4>1. PICK b \in Assignments, s \in {"driver_declined", "cancelled"} : SetAsgs({b}, s)
        BY <1>1, <3>2, CommitIs
      <4>2. {b} \in SUBSET Assignments /\ s \in AsgStatus /\ s # "driver_accepted"
        BY DEF AsgStatus
      <4> QED
        BY <3>1, <4>1, <4>2
    <3> QED
      BY <1>1, <2>3, <3>1, <3>2, StepKinds
  <2>4. ASSUME Accepted(a) PROVE Accepted(a)'
    <3>1. asg'[a].status = asg[a].status \/ <<asg[a].status, asg'[a].status>> \in Moves
      BY <1>1, <2>1, <2>4, RowMoves DEF Accepted
    <3>2. Live(a)'
      BY <1>2 DEF Seated
    <3> QED
      BY <2>4, <3>1, <3>2 DEF Accepted, Live, LiveStatuses, Moves
  <2> QED
    BY <2>1, <2>2, <2>3, <2>4
<1>3. Seats!Vacate
  BY <1>1, <1>2, VacateIs
<1>4. Seats!Discount
  BY <1>1, NothingComes, DiscountIs
<1>5. AstraySet' = AstraySet
  <2>1. ASSUME NEW t \in Trucks, Astray(t)' PROVE Astray(t)
    <3>1. PICK a \in strayed : asg'[a].truck = t
      BY <2>1 DEF Astray
    <3>2. a \in Assignments /\ asg[a].status # "none"
      BY <1>1 DEF TypeOK, CallInv
    <3> QED
      BY <1>1, <3>1, <3>2, RowMoves DEF Astray
  <2> QED
    BY <1>1, <2>1, AstrayGrows DEF AstraySet
<1> QED
  BY <1>3, <1>4, <1>5, NothingComes DEF Seats!SeatNext, Seats!Leave, UsedSet, AstraySet

\* Who strays an assignment, and that nobody does while one is made or accepted.
LEMMA StrayedMoves ==
  ASSUME TypeOK, CallInv, [Next]_vars, strayed' # strayed
  PROVE  \E p \in Procs : /\ call'[p] # call[p]
                          /\ WriteAssignment(p) \/ (Abandon(p) /\ call[p].at = "undo")
<1>1. PICK p \in Procs : WriteAssignment(p) \/ (Abandon(p) /\ call[p].at = "undo")
  BY DEF Next, vars, history, ReadAssignment, Abandon, SkipVehicle
<1>2. CASE WriteAssignment(p)
  BY <1>2, WriteIs
<1>3. CASE Abandon(p) /\ call[p].at = "undo"
  BY <1>3 DEF Abandon, Return, Idle, TypeOK
<1> QED
  BY <1>1, <1>2, <1>3

LEMMA AssignStraysNothing ==
  ASSUME TypeOK, CallInv, [Next]_vars, NEW t \in Trucks, NEW v \in Vehicles, NEW a \in Assignments,
         Assign(t, v, a)
  PROVE  UNCHANGED history
<1>1. asg' # asg /\ call' = call
  BY MadeIs DEF Assign
<1>2. \A p \in Procs : ~WriteAssignment(p)
  BY <1>1, WriteIs
<1> QED
  BY <1>1, <1>2, StepKinds

LEMMA SeatStep ==
  ASSUME TruckInv, TruckInv', [Next]_vars
  PROVE  Seats!SeatNext
<1>1. TypeOK /\ CallInv /\ call \in [Procs -> Call]
  BY DEF TruckInv, TypeOK
<1>2. ASSUME NEW a \in Assignments, NEW s \in AsgStatus \ {"none"}, SetAsgs({a}, s),
             asg[a].status # "none"
      PROVE  /\ asg'[a].status = s /\ asg'[a].truck = asg[a].truck
             /\ \A b \in Assignments : b # a => asg'[b] = asg[b]
  BY <1>1, <1>2 DEF SetAsgs, TypeOK, Row
<1>3. ASSUME \A q \in Procs : call[q].at \in Abandoning \/ call'[q].at \in Abandoning
                                => call'[q] = call[q]
      PROVE  \A b \in Assignments : Abandoned(b)' <=> Abandoned(b)
  BY <1>3 DEF Abandoned
<1>4. ASSUME NEW t \in Trucks, NEW v \in Vehicles, NEW a \in Assignments,
             truck[t] \in {"searching", "held"} /\ Assign(t, v, a)
      PROVE  Seats!SeatNext
  BY <1>1, <1>4, AssignStraysNothing, AssignTakesSeat
<1>5. ASSUME NEW a \in Assignments, Accept(a) \/ AcceptInHold(a) PROVE Seats!SeatNext
  <2>1. /\ asg[a].status = "pending" /\ SetAsgs({a}, "driver_accepted")
        /\ order' = order /\ call' = call
    BY <1>5 DEF Accept, AcceptInHold
  <2>2. strayed' = strayed
    BY <1>1, <2>1, StrayedMoves
  <2>3. /\ asg'[a].status = "driver_accepted" /\ asg'[a].truck = asg[a].truck
        /\ \A b \in Assignments : b # a => asg'[b] = asg[b]
    BY <1>2, <2>1 DEF AsgStatus
  <2>4. OneRow(a)
    BY <1>3, <2>1, <2>2, <2>3 DEF OneRow
  <2>5. CASE Astray(asg[a].truck)
    BY <2>1, <2>4, <2>5, StaysAstray
  <2>6. CASE ~Astray(asg[a].truck)
    <3>1. a \notin strayed'
      BY <2>2, <2>6 DEF Astray
    <3> QED
      BY <2>1, <2>3, <2>4, <2>6, <3>1, AcceptKeepsSeat DEF Accepted
  <2> QED
    BY <2>5, <2>6
<1>6. ASSUME NEW p \in Procs, WriteAssignment(p),
             \A t \in Trucks, v \in Vehicles, a \in Assignments :
               ~(truck[t] \in {"searching", "held"} /\ Assign(t, v, a))
      PROVE  Seats!SeatNext
  <2>1. PICK a \in Assignments, s \in Written4 :
          /\ call[p].asgs = {a} /\ asg[a].status # "none" /\ SetAsgs({a}, s)
          /\ strayed' = IF Strays(a, s) THEN strayed \union {a} ELSE strayed
          /\ call[p].at = "write" /\ call'[p] # call[p]
    BY <1>1, <1>6, WriteIs
  <2>2. order' = order
    BY <1>6 DEF WriteAssignment
  <2>3. /\ asg'[a].status = s /\ asg'[a].truck = asg[a].truck
        /\ \A b \in Assignments : b # a => asg'[b] = asg[b]
    <3>1. s \in AsgStatus \ {"none"}
      BY DEF Written4, AsgStatus
    <3> QED
      BY <1>2, <2>1, <3>1
  <2>4. call'[p].at \in {"start", "end", "idle"}
    <3>1. Step(p, "start") \/ Step(p, "end") \/ Return(p)
      BY <1>6 DEF WriteAssignment
    <3> QED
      BY <1>1, <3>1 DEF Step, Return, Idle, Call
  <2>5. OneRow(a)
    <3>1. \A b \in Assignments : Abandoned(b)' <=> Abandoned(b)
      BY <1>1, <1>3, <2>1, <2>4, OwnSteps DEF Abandoning
    <3>2. asg'[a].status # "none"
      BY <2>3 DEF Written4
    <3> QED
      BY <2>1, <2>3, <3>1, <3>2 DEF OneRow
  <2>6. CASE Astray(asg[a].truck)
    BY <2>2, <2>5, <2>6, StaysAstray
  <2>7. CASE ~Astray(asg[a].truck) /\ Strays(a, s)
    <3>1. a \in strayed'
      BY <2>1, <2>7
    <3> QED
      BY <2>2, <2>5, <2>7, <3>1, GoesAstray
  <2>8. CASE ~Astray(asg[a].truck) /\ ~Strays(a, s)
    <3>1. strayed' = strayed /\ a \notin strayed'
      BY <2>1, <2>8 DEF Astray
    <3>2. CASE asg[a].status = s
      <4>1. \A r \in Row : [r EXCEPT !.status = r.status] = r
        BY DEF Row
      <4>2. asg' = asg
        BY <1>1, <2>1, <3>2, <4>1 DEF SetAsgs, TypeOK
      <4> QED
        BY <1>6, <2>2, <3>1, <4>2, OthersLeave
    <3>3. CASE asg[a].status # s
      <4>1. asg[a].status = "pending" /\ Accepted(a)'
        BY <2>3, <2>8, <3>3 DEF Strays, Live, LiveStatuses, Written4, Accepted
      <4> QED
        BY <2>2, <2>5, <2>8, <3>1, <4>1, AcceptKeepsSeat
    <3> QED
      BY <3>2, <3>3
  <2> QED
    BY <2>6, <2>7, <2>8
<1>7. ASSUME NEW p \in Procs, Abandon(p), call[p].at = "undo" PROVE Seats!SeatNext
  <2>1. PICK a \in Assignments : call[p].asgs = {a} /\ asg[a].status # "none"
    BY <1>1, <1>7 DEF CallInv, Known, Single
  <2>2. asg' = asg /\ order' = order /\ strayed' = strayed \union {a} /\ call'[p] = Idle
    BY <1>1, <1>7, <2>1 DEF Abandon, Return
  <2>3. \A b \in Assignments : Abandoned(b)' <=> Abandoned(b)
    BY <1>1, <1>3, <1>7, <2>2, OwnSteps DEF Abandoning, Idle
  <2>4. OneRow(a)
    BY <2>1, <2>2, <2>3 DEF OneRow
  <2> QED
    BY <2>2, <2>4, GoesAstray, StaysAstray
<1>8. ASSUME NEW a \in Assignments, Ends(a) PROVE Seats!SeatNext
  <2>1. /\ Live(a) /\ Unfill(OrderOf[asg[a].truck]) /\ strayed' = strayed
        /\ asg[a].status # "none"
    BY <1>8 DEF Ends, history, Live, LiveStatuses
  <2>2. PICK s \in {"driver_declined", "cancelled"} : SetAsgs({a}, s)
    BY <1>8 DEF Ends
  <2>3. ~Live(a)'
    BY <1>1, <2>2, UndoEnds
  <2>4. OneRow(a)
    <3>1. \A b \in Assignments : Abandoned(b)' <=> Abandoned(b)
      BY <1>3, <1>8 DEF Ends
    <3>2. /\ asg'[a].status = s /\ asg'[a].truck = asg[a].truck
          /\ \A b \in Assignments : b # a => asg'[b] = asg[b]
      BY <1>2, <2>1, <2>2 DEF AsgStatus
    <3> QED
      BY <2>1, <3>1, <3>2 DEF OneRow
  <2>5. CASE Astray(asg[a].truck)
    BY <2>1, <2>4, <2>5, StaysAstray
  <2>6. CASE ~Astray(asg[a].truck)
    <3>1. a \notin strayed
      BY <2>6 DEF Astray
    <3>2. ~Abandoned(a)'
      BY <1>1, <1>8, <2>1, <3>1 DEF Abandoned, Ends, CallInv, Known, Live, LiveStatuses
    <3> QED
      BY <2>1, <2>3, <2>4, <2>6, <3>1, <3>2, EndLeavesSeat
  <2> QED
    BY <2>5, <2>6
<1>9. ASSUME NEW p \in Procs, CountAbandoned(p), UNCHANGED history PROVE Seats!SeatNext
  <2>1. call[p].at = "countAbandoned" /\ call[p].at \in Abandoning /\ call[p].at \in Single /\ Known(p)
    BY <1>1, <1>9 DEF CountAbandoned, Abandoning, Single, CallInv
  <2>2. PICK a \in Assignments : call[p].asgs = {a}
    BY <2>1 DEF Known
  <2>3. /\ asg' = asg /\ Unfill(OrderOf[asg[a].truck]) /\ strayed' = strayed
        /\ call' = [call EXCEPT ![p] = Idle]
    BY <1>9, <2>2 DEF CountAbandoned, Return, history
  <2>4. /\ call'[p].at \notin Abandoning
        /\ \A q \in Procs : q # p => call'[q] = call[q]
    BY <1>1, <2>3 DEF Idle, Abandoning
  <2>5. \A b \in Assignments : b # a => (Abandoned(b)' <=> Abandoned(b))
    BY <2>2, <2>4 DEF Abandoned
  <2>6. asg[a].status # "none" /\ (asg[a].status = "cancelled" \/ a \in strayed) /\ Abandoned(a)
    BY <2>1, <2>2 DEF Known, Abandoned
  <2>7. OneRow(a)
    BY <2>3, <2>5, <2>6 DEF OneRow
  <2>8. CASE Astray(asg[a].truck)
    BY <2>3, <2>7, <2>8, StaysAstray
  <2>9. CASE ~Astray(asg[a].truck)
    <3>1. a \notin strayed'
      BY <2>3, <2>9 DEF Astray
    <3>2. ~Live(a)'
      BY <2>3, <2>6, <3>1 DEF Live, LiveStatuses
    <3>3. ~Abandoned(a)'
      BY <1>1, <2>1, <2>2, <2>3, <2>4, <3>1 DEF Abandoned, CallInv
    <3> QED
      BY <2>3, <2>6, <2>7, <2>9, <3>1, <3>2, <3>3, EndLeavesSeat
  <2> QED
    BY <2>8, <2>9
<1>10. CASE /\ \A t \in Trucks, v \in Vehicles, a \in Assignments :
                 ~(truck[t] \in {"searching", "held"} /\ Assign(t, v, a))
            /\ \A a \in Assignments : ~Accept(a) /\ ~AcceptInHold(a)
            /\ \A p \in Procs : ~WriteAssignment(p) /\ ~(Abandon(p) /\ call[p].at = "undo")
  <2>1. strayed' = strayed
    BY <1>1, <1>10, StrayedMoves
  <2>2. \/ \A o \in Orders : order'[o].filled = order[o].filled
        \/ \E a \in Assignments : Ends(a)
        \/ \E p \in Procs : CountAbandoned(p) /\ UNCHANGED history
    BY <1>1, <1>10, CountKinds
  <2>3. ASSUME \A o \in Orders : order'[o].filled = order[o].filled PROVE Seats!SeatNext
    BY <1>10, <2>1, <2>3, OthersLeave
  <2> QED
    BY <1>8, <1>9, <2>2, <2>3
<1> QED
  BY <1>4, <1>5, <1>6, <1>7, <1>10

\* SeatsAreKept - the handlers implement TruckSeats, for any number of orders,
\* truck requests, assignments and handlers in flight, and whatever dies: a seat
\* passes on only through being free, an assignment has one seat once, and
\* trucksFilled goes down once for an assignment at most, as long as the truck
\* request has not gone astray.
THEOREM SeatsAreKept == Spec => KeepsSeats
<1>1. Init => Seats!SeatInit
  <2> SUFFICES ASSUME Init PROVE Seats!SeatInit
    OBVIOUS
  <2>1. \A a \in Assignments : asg[a].status = "none" /\ ~Live(a)
    BY DEF Init, NoRow, Live, LiveStatuses
  <2>2. \A t \in Trucks : Seated(t) = {} /\ SeatOf(t) = None /\ ~Astray(t)
    BY <2>1 DEF SeatOf, Seated, Astray, Init
  <2>3. \A o \in Orders : Counted(o) = {} /\ order[o].filled = 0
    BY <2>1 DEF Counted, OfOrder, Init
  <2> QED
    BY <2>1, <2>2, <2>3 DEF Seats!SeatInit
<1>2. TruckInv /\ [Next]_vars /\ TruckInv' =>
        [Seats!SeatNext]_<<SeatMap, GoingSet, UsedSet, CountedMap, FilledMap, AstraySet>>
  BY SeatStep
<1> QED
  BY <1>1, <1>2, TruckInvInit, TruckInvStep, PTL
  DEF Spec, KeepsSeats, Seats!SeatSpec, SeatMap, GoingSet, UsedSet, CountedMap, FilledMap, AstraySet
=============================================================================
