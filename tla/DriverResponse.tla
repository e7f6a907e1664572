--------------------------- MODULE DriverResponse ---------------------------
(***************************************************************************)
(* What becomes of an assignment once a transporter has confirmed a hold:  *)
(* the driver accepts or declines it through one of two services           *)
(* (assignment.service.ts and confirmed-hold.service.ts), the answer times *)
(* out, the transporter cancels it, its status is updated by id            *)
(* (updateStatus, and updateTripStatus of tracking.service.ts), its hold   *)
(* expires (hold-expiry-cleanup.service.ts), its order expires             *)
(* (handleOrderExpiry of order-lifecycle-outbox.service.ts), the           *)
(* two-minute job of cleanup-expired-orders.job.ts sweeps the order, or    *)
(* the reconciliation of queue.service.ts takes a trip for abandoned or a  *)
(* vehicle for lost.                                                       *)
(*                                                                         *)
(* A database transaction is one action, unless something of it commits    *)
(* apart (Undo).  A handler that writes outside a transaction is cut at    *)
(* its writes: `call` says how far it has come and what it has read.  A    *)
(* driver's trip stages after driver_accepted are one status here: the     *)
(* handlers treat them alike.  The per-assignment lock of                  *)
(* confirmed-hold.service.ts is left out: each answer is decided by a      *)
(* conditional update, with or without it.                                 *)
(***************************************************************************)
EXTENDS Integers, FiniteSets

CONSTANTS
  Orders, Trucks, Vehicles,
  Assignments,   \* ids of Assignment rows, used in order: bounds the run
  Procs,         \* handlers in flight at once
  None,
  OrderOf,       \* [Trucks -> Orders]
  MaxEvents      \* bound, together: handlers that die or skip a release, and the
                 \* status updates by id that are begun

ASSUME DriverResponseAssumption ==
  /\ Assignments \subseteq Nat
  /\ IsFiniteSet(Assignments) /\ IsFiniteSet(Trucks)
  /\ OrderOf \in [Trucks -> Orders]
  /\ MaxEvents \in Nat
  /\ None \notin Orders \union Trucks \union Vehicles \union Assignments

VARIABLES
  order,     \* [Orders -> [status, filled]]
  truck,     \* [Trucks -> status]                       (model TruckRequest)
  asg,       \* [Assignments -> [status, truck, vehicle]] (model Assignment)
  vehicle,   \* [Vehicles -> status]
  call,      \* [Procs -> the handler in flight]
  faults,
  updates,   \* status updates by id that were begun
  strayed,   \* history: assignments that such an update ended or revived, or whose
             \* truck request was opened though their end was rolled back
  revived    \* history, [Orders -> ended assignments made live again]

history == <<updates, strayed, revived>>
vars == <<order, truck, asg, vehicle, call, faults, history>>

OrderStatus == {"active", "partially_filled", "fully_filled", "in_progress", "expired"}
\* "kept": held again by a declined driver's transporter, whose hold is confirmed
\* by now, so that no hold hands it on.
TruckStatus == {"searching", "held", "kept", "assigned", "expired"}
AsgStatus == {"none", "pending", "driver_accepted", "driver_declined",
              "cancelled", "completed"}
TERMINAL_ASSIGNMENT_STATUSES == {"completed", "cancelled", "driver_declined"}
LiveStatuses == {"pending", "driver_accepted"}
VehicleStatus == {"available", "on_hold", "in_transit"}

Stage == {"idle", "declineTruck", "declineVehicle", "holdExpiry",
          "expireTrucks", "expireOrder", "closeHolds", "findTrips",
          "cancelPending", "cancelRest", "refetch", "freeVehicles",
          "cleanOrder", "cleanTrucks", "freeAbandoned", "countAbandoned",
          "undo", "write", "start", "end"}
Updates == {"driver_accepted", "in_transit", "driver_declined", "cancelled", "completed"}
Call == [at: Stage, order: Orders \union {None}, asgs: SUBSET Assignments, to: {"none"} \union Updates,
         trucks: SUBSET Trucks, vehicles: SUBSET Vehicles]
Idle == [at |-> "idle", order |-> None, asgs |-> {}, to |-> "none", trucks |-> {}, vehicles |-> {}]
Row == [status: AsgStatus, truck: Trucks \union {None}, vehicle: Vehicles \union {None}]
NoRow == [status |-> "none", truck |-> None, vehicle |-> None]

TrucksOf(o) == {t \in Trucks : OrderOf[t] = o}
Live(a) == asg[a].status \in LiveStatuses
OfOrder(o) == {a \in Assignments : asg[a].status # "none" /\ OrderOf[asg[a].truck] = o}
LiveOf(o) == {a \in OfOrder(o) : Live(a)}

EndAsgs(S, status) ==                                                    \* mutant
  asg' = [a \in Assignments |->
            IF a \in S THEN [asg[a] EXCEPT !.status = status, !.vehicle = None] ELSE asg[a]]
SetAsgs(S, status) ==
  asg' = [a \in Assignments |-> IF a \in S THEN [asg[a] EXCEPT !.status = status]
                                           ELSE asg[a]]
SetTrucks(S, status) == truck' = [t \in Trucks |-> IF t \in S THEN status ELSE truck[t]]
FreeVehicle(v) == vehicle' = [vehicle EXCEPT ![v] = "available"]
Step(p, stage) == call' = [call EXCEPT ![p].at = stage]
Return(p) == call' = [call EXCEPT ![p] = Idle]
Writing(p, stage, a, to) ==
  call' = [call EXCEPT ![p] = [Idle EXCEPT !.at = stage, !.asgs = {a}, !.to = to]]

\* Rows that a transaction in flight has locked: nobody else writes them before it
\* commits or rolls back.
Undoing(p, a) == call[p].at = "undo" /\ a \in call[p].asgs
Locked(a) == \E p \in Procs : Undoing(p, a)
LockedVehicle(v) == \E p \in Procs, a \in Assignments : Undoing(p, a) /\ asg[a].vehicle = v
LockedOrder(o) == \E p \in Procs, a \in Assignments : Undoing(p, a) /\ OrderOf[asg[a].truck] = o

Within == faults + updates < MaxEvents

Init ==
  /\ order = [o \in Orders |-> [status |-> "active", filled |-> 0]]
  /\ truck = [t \in Trucks |-> "searching"]
  /\ asg = [a \in Assignments |-> NoRow]
  /\ vehicle = [v \in Vehicles |-> "available"]
  /\ call = [p \in Procs |-> Idle]
  /\ faults = 0 /\ updates = 0
  /\ strayed = {} /\ revived = [o \in Orders |-> 0]

---------------------------------------------------------------------------
(* The hold (module TruckHold has it in full) *)

HoldUnassigned(t) ==                                                    \* mutant
  /\ truck[t] # "held" /\ order[OrderOf[t]].status # "expired"
  /\ truck' = [truck EXCEPT ![t] = "held"]
  /\ UNCHANGED <<order, asg, vehicle, call, faults>>

\* holdTrucks: a searching truck request of an order still open
Hold(t) ==
  /\ truck[t] = "searching"
  /\ order[OrderOf[t]].status \in {"active", "partially_filled"}
  /\ truck' = [truck EXCEPT ![t] = "held"]
  /\ UNCHANGED <<order, asg, vehicle, call, faults>>

NotBusy(v) == \A a \in Assignments : Live(a) => asg[a].vehicle # v

\* a truck of the order is given to v by the new assignment a
Assign(t, v, a) ==
  LET o == OrderOf[t]
      filled == order[o].filled + 1 IN
  /\ vehicle[v] = "available" /\ ~LockedVehicle(v) /\ ~LockedOrder(o)
  /\ asg[a] = NoRow /\ \A b \in Assignments : b < a => asg[b] # NoRow
  /\ truck' = [truck EXCEPT ![t] = "assigned"]
  /\ vehicle' = [vehicle EXCEPT ![v] = "on_hold"]
  /\ asg' = [asg EXCEPT ![a] = [status |-> "pending", truck |-> t, vehicle |-> v]]
  /\ order' = [order EXCEPT ![o] =
       [status |-> IF filled >= Cardinality(TrucksOf(o)) THEN "fully_filled"
                                                          ELSE "partially_filled",
        filled |-> filled]]
  /\ UNCHANGED <<call, faults>>

\* the transaction of confirmHoldWithAssignments: it does not look at the
\* order's status, and overwrites it
Confirm(t, v, a) == truck[t] = "held" /\ NotBusy(v) /\ Assign(t, v, a)

\* acceptTruckRequest of order-accept.service.ts, the way past the hold: it asks
\* for a free driver, and of the vehicle only that it is available.  Whether the
\* order's time is up is left open: the smart timeout ends an order before it.
AcceptRequest(t, v, a) ==
  /\ truck[t] = "searching"
  /\ order[OrderOf[t]].status \in {"active", "partially_filled"}
  /\ Assign(t, v, a)

---------------------------------------------------------------------------
(* assignment.service.ts *)

\* acceptAssignment
Accept(a) ==
  /\ asg[a].status = "pending" /\ ~Locked(a) /\ ~LockedVehicle(asg[a].vehicle)
  /\ SetAsgs({a}, "driver_accepted")
  /\ vehicle' = [vehicle EXCEPT ![asg[a].vehicle] =
                   IF @ \in {"on_hold", "available"} THEN "in_transit" ELSE @]
  /\ UNCHANGED <<order, truck, call, faults>>

\* GREATEST(0, trucksFilled - 1)
OneLess(n) == IF n > 0 THEN n - 1 ELSE 0
Unfill(o) == order' = [order EXCEPT ![o].filled = OneLess(@)]
Reopen(t) == truck' = [truck EXCEPT ![t] = "searching"]

\* The transaction of declineAssignment and of cancelAssignment: it locks the
\* assignment, the vehicle and the order, and opens the truck request again,
\* which restoreOrderTruckRequest does on a connection of its own ...
Undo(p, a, to) ==
  /\ call[p] = Idle /\ ~Locked(a) /\ ~LockedOrder(OrderOf[asg[a].truck])
  /\ Reopen(asg[a].truck)
  /\ Writing(p, "undo", a, to)
  /\ UNCHANGED <<order, asg, vehicle, faults>>

\* ... before the transaction commits, or rolls back (Abandon)
CommitUndo(p) ==
  /\ call[p].at = "undo"
  /\ \E a \in call[p].asgs :
       /\ SetAsgs({a}, call[p].to)
       /\ FreeVehicle(asg[a].vehicle)
       /\ Unfill(OrderOf[asg[a].truck])
  /\ Return(p)
  /\ UNCHANGED <<truck, faults>>

\* declineAssignment: only a pending assignment
Decline(p, a) == asg[a].status = "pending" /\ Undo(p, a, "driver_declined")

CancelTwice(p, a) == asg[a].status # "none" /\ Undo(p, a, "cancelled")   \* mutant
CancelAssignment(p, a) ==
  /\ asg[a].status \notin TERMINAL_ASSIGNMENT_STATUSES \union {"none"}
  /\ Undo(p, a, "cancelled")

\* handleAssignmentTimeout: the same, with the truck request in the transaction
TimeOut(a) ==
  LET t == asg[a].truck IN
  /\ asg[a].status = "pending" /\ ~Locked(a) /\ ~LockedOrder(OrderOf[t])
  /\ SetAsgs({a}, "driver_declined")
  /\ FreeVehicle(asg[a].vehicle)
  /\ Unfill(OrderOf[t])
  /\ Reopen(t)
  /\ UNCHANGED <<call, faults>>

\* completeTrip, for updateStatus: the trip is delivered
Complete(a) ==
  /\ asg[a].status = "driver_accepted" /\ ~Locked(a)
  /\ SetAsgs({a}, "completed")
  /\ FreeVehicle(asg[a].vehicle)
  /\ UNCHANGED <<order, truck, call, faults>>

---------------------------------------------------------------------------
(* Status updates by id: updateStatus, for the driver and the transporter's     *)
(* override, and updateTripStatus of tracking.service.ts                        *)

MayWrite == [pending         |-> {"driver_accepted", "driver_declined", "cancelled"},
             driver_accepted |-> {"driver_accepted", "in_transit", "cancelled", "completed"}]

\* They read the assignment and check the transition ...
ReadAssignment(p, a) ==
  /\ call[p] = Idle /\ Live(a)
  /\ Within /\ updates' = updates + 1
  /\ \E to \in MayWrite[asg[a].status] : Writing(p, "write", a, to)
  /\ UNCHANGED <<order, truck, asg, vehicle, faults, strayed, revived>>

\* ... the first trip that starts takes the order along, before the assignment is
\* written or, from the tracker, after ...
StartOrder(p) ==
  /\ call[p].at \in {"write", "start"} /\ call[p].to = "in_transit"
  /\ \E a \in call[p].asgs :
       LET o == OrderOf[asg[a].truck] IN
       /\ ~LockedOrder(o)
       /\ order' = [order EXCEPT ![o].status =
                      IF @ \in {"fully_filled", "partially_filled"} THEN "in_progress" ELSE @]
  /\ IF call[p].at = "start" THEN Return(p) ELSE UNCHANGED call
  /\ UNCHANGED <<truck, asg, vehicle, faults>>

Written(to) == IF to = "in_transit" THEN "driver_accepted" ELSE to
Strays(a, s) == asg[a].status # s /\ ~(Live(a) /\ s \in LiveStatuses)

\* ... and the assignment is written, whatever it has become.  Nobody counts, frees
\* the vehicle or opens the truck request of what ends.
WriteAssignment(p) ==
  LET s == Written(call[p].to) IN
  /\ call[p].at = "write"
  /\ \E a \in call[p].asgs :
       LET o == OrderOf[asg[a].truck] IN
       /\ ~Locked(a)
       /\ SetAsgs({a}, s)
       /\ strayed' = IF Strays(a, s) THEN strayed \union {a} ELSE strayed
       /\ revived' = [revived EXCEPT ![o] =
                        IF ~Live(a) /\ s \in LiveStatuses THEN @ + 1 ELSE @]
  /\ CASE call[p].to = "in_transit" -> Step(p, "start")
       [] call[p].to = "completed"  -> Step(p, "end")
       [] OTHER                     -> Return(p)
  /\ UNCHANGED <<order, truck, vehicle, faults, updates>>

\* completeTrip, for the tracker: it has just written the end of the trip, and so
\* finds it ended, and leaves the vehicle as it is.
EndTrip(p) ==
  /\ call[p].at = "end"
  /\ \E a \in call[p].asgs :
       \/ /\ Live(a) /\ ~Locked(a)
          /\ SetAsgs({a}, "completed")
          /\ FreeVehicle(asg[a].vehicle)
       \/ ~Live(a) /\ UNCHANGED <<asg, vehicle>>
  /\ Return(p)
  /\ UNCHANGED <<order, truck, faults>>

---------------------------------------------------------------------------
(* confirmed-hold.service.ts *)

\* handleDriverAcceptance: the vehicle's row stays on_hold
AcceptInHold(a) ==
  /\ asg[a].status = "pending" /\ ~Locked(a)
  /\ SetAsgs({a}, "driver_accepted")
  /\ UNCHANGED <<order, truck, vehicle, call, faults>>

\* handleDriverDecline: the transaction, then the truck request, then the vehicle
DeclineInHold(p, a) ==
  /\ call[p] = Idle /\ asg[a].status = "pending"
  /\ ~Locked(a) /\ ~LockedOrder(OrderOf[asg[a].truck])
  /\ SetAsgs({a}, "driver_declined")
  /\ Unfill(OrderOf[asg[a].truck])
  /\ call' = [call EXCEPT ![p] = [Idle EXCEPT !.at = "declineTruck", !.asgs = {a}]]
  /\ UNCHANGED <<truck, vehicle, faults>>

\* an update without a condition: the request stays with the transporter
KeepTruck(p) ==
  /\ call[p].at = "declineTruck"
  /\ \E a \in call[p].asgs : truck' = [truck EXCEPT ![asg[a].truck] = "kept"]
  /\ Step(p, "declineVehicle")
  /\ UNCHANGED <<order, asg, vehicle, faults>>

ForgetVehicle(p) ==                                                     \* mutant
  /\ call[p].at = "declineVehicle"
  /\ Return(p)
  /\ UNCHANGED <<order, truck, asg, vehicle, faults>>

\* releaseVehicle: whoever has the vehicle by now
ReleaseDeclined(p) ==
  /\ call[p].at = "declineVehicle"
  /\ \E a \in call[p].asgs : FreeVehicle(asg[a].vehicle)
  /\ Return(p)
  /\ UNCHANGED <<order, truck, asg, faults>>

---------------------------------------------------------------------------
(* hold-expiry-cleanup.service.ts: releaseConfirmedVehicles *)

\* the live assignments of the order: an accepted one is skipped later
BeginHoldExpiry(p, o) ==
  /\ call[p] = Idle /\ LiveOf(o) # {}
  /\ call' = [call EXCEPT ![p] = [Idle EXCEPT !.at = "holdExpiry", !.asgs = LiveOf(o)]]
  /\ UNCHANGED <<order, truck, asg, vehicle, faults>>

LiveAndDeclined == LiveStatuses \union {"driver_declined"}              \* mutant
Releasable == {"pending", "driver_declined"}

\* one transaction per assignment; neither the count nor the truck request
\* follows, and the vehicle is freed whoever has it
ReleaseOne(p, a) ==
  /\ call[p].at = "holdExpiry" /\ a \in call[p].asgs
  /\ IF call[p].asgs = {a} THEN Return(p) ELSE call' = [call EXCEPT ![p].asgs = @ \ {a}]
  /\ \/ /\ asg[a].status \in Releasable /\ ~Locked(a)
        /\ SetAsgs({a}, "cancelled")
        /\ FreeVehicle(asg[a].vehicle)
     \/ asg[a].status \notin Releasable /\ UNCHANGED <<asg, vehicle>>
  /\ UNCHANGED <<order, truck, faults>>

---------------------------------------------------------------------------
(* order-lifecycle-outbox.service.ts: handleOrderExpiry *)

ExpiryRead(p, o) ==
  /\ call[p] = Idle
  /\ order[o].status # "fully_filled"
  /\ call' = [call EXCEPT ![p] = [Idle EXCEPT
                !.at = "expireTrucks", !.order = o,
                !.trucks = {t \in TrucksOf(o) : truck[t] = "searching"}]]
  /\ UNCHANGED <<order, truck, asg, vehicle, faults>>

\* by id: what was searching when it was read
ExpireTrucks(p) ==
  /\ call[p].at = "expireTrucks"
  /\ SetTrucks(call[p].trucks, "expired")
  /\ call' = [call EXCEPT ![p].at = "expireOrder", ![p].trucks = {}]
  /\ UNCHANGED <<order, asg, vehicle, faults>>

\* by id: whatever the order has become
ExpireOrder(p) ==
  /\ call[p].at = "expireOrder" /\ ~LockedOrder(call[p].order)
  /\ order' = [order EXCEPT ![call[p].order].status = "expired"]
  /\ Step(p, "closeHolds")
  /\ UNCHANGED <<truck, asg, vehicle, faults>>

\* closeActiveHoldsForOrder
CloseHolds(p) ==
  /\ call[p].at = "closeHolds"
  /\ SetTrucks({t \in TrucksOf(call[p].order) : truck[t] = "held"}, "expired")
  /\ Step(p, "findTrips")
  /\ UNCHANGED <<order, asg, vehicle, faults>>

\* a trip that has arrived at its drop is left alone
FindTrips(p) ==
  /\ call[p].at = "findTrips"
  /\ \E arrived \in SUBSET {a \in LiveOf(call[p].order) : asg[a].status = "driver_accepted"} :
     LET trips == LiveOf(call[p].order) \ arrived IN
     call' = [call EXCEPT ![p] =
       IF trips = {} THEN Idle ELSE [Idle EXCEPT !.at = "cancelPending", !.asgs = trips]]
  /\ UNCHANGED <<order, truck, asg, vehicle, faults>>

CancelPending(p) ==
  LET pending == {a \in call[p].asgs : asg[a].status = "pending"} IN
  /\ call[p].at = "cancelPending" /\ \A a \in pending : ~Locked(a)
  /\ SetAsgs(pending, "cancelled")
  /\ Step(p, "cancelRest")
  /\ UNCHANGED <<order, truck, vehicle, faults>>

CancelRest(p) ==
  LET rest == {a \in call[p].asgs : asg[a].status = "driver_accepted"} IN
  /\ call[p].at = "cancelRest" /\ \A a \in rest : ~Locked(a)
  /\ SetAsgs(rest, "cancelled")
  /\ Step(p, "refetch")
  /\ UNCHANGED <<order, truck, vehicle, faults>>

\* the vehicles of those cancelled by now, by whomever
Refetch(p) ==
  /\ call[p].at = "refetch"
  /\ LET ended == {asg[a].vehicle : a \in {b \in call[p].asgs : asg[b].status = "cancelled"}} IN
     call' = [call EXCEPT ![p] =
       IF ended = {} THEN Idle ELSE [Idle EXCEPT !.at = "freeVehicles", !.vehicles = ended]]
  /\ UNCHANGED <<order, truck, asg, vehicle, faults>>

ReleaseNext(p, v) ==
  /\ call[p].at = "freeVehicles" /\ v \in call[p].vehicles
  /\ FreeVehicle(v)
  /\ IF call[p].vehicles = {v} THEN Return(p) ELSE call' = [call EXCEPT ![p].vehicles = @ \ {v}]
  /\ UNCHANGED <<order, truck, asg, faults>>

---------------------------------------------------------------------------
(* cleanup-expired-orders.job.ts *)

CleanupRead(p, o) ==
  /\ call[p] = Idle
  /\ order[o].status \notin {"fully_filled", "expired"}
  /\ call' = [call EXCEPT ![p] = [Idle EXCEPT !.at = "cleanOrder", !.order = o]]
  /\ UNCHANGED <<order, truck, asg, vehicle, faults>>

CleanOrder(p) ==
  /\ call[p].at = "cleanOrder" /\ ~LockedOrder(call[p].order)
  /\ order' = [order EXCEPT ![call[p].order].status = "expired"]
  /\ Step(p, "cleanTrucks")
  /\ UNCHANGED <<truck, asg, vehicle, faults>>

CleanTrucks(p) ==
  /\ call[p].at = "cleanTrucks"
  /\ SetTrucks({t \in TrucksOf(call[p].order) : truck[t] \in {"searching", "held", "kept"}},
               "expired")
  /\ Return(p)
  /\ UNCHANGED <<order, asg, vehicle, faults>>

---------------------------------------------------------------------------
(* The reconciliation of queue.service.ts: an overdue pending assignment is a   *)
(* timeout (TimeOut), a trip without an end for hours is cancelled              *)

CancelAbandoned(p, a) ==
  /\ call[p] = Idle /\ asg[a].status = "driver_accepted" /\ ~Locked(a)
  /\ SetAsgs({a}, "cancelled")
  /\ call' = [call EXCEPT ![p] = [Idle EXCEPT !.at = "freeAbandoned", !.asgs = {a}]]
  /\ UNCHANGED <<order, truck, vehicle, faults>>

FreeAbandoned(p) ==
  /\ call[p].at = "freeAbandoned"
  /\ \E a \in call[p].asgs : FreeVehicle(asg[a].vehicle)
  /\ Step(p, "countAbandoned")
  /\ UNCHANGED <<order, truck, asg, faults>>

CountAgain(p) ==                                                        \* mutant
  /\ call[p].at = "countAbandoned"
  /\ \E a \in call[p].asgs : /\ ~LockedOrder(OrderOf[asg[a].truck])
                             /\ Unfill(OrderOf[asg[a].truck])
  /\ Return(p) \/ UNCHANGED call
  /\ UNCHANGED <<truck, asg, vehicle, faults>>

CountAbandoned(p) ==
  /\ call[p].at = "countAbandoned"
  /\ \E a \in call[p].asgs : /\ ~LockedOrder(OrderOf[asg[a].truck])
                             /\ Unfill(OrderOf[asg[a].truck])
  /\ Return(p)
  /\ UNCHANGED <<truck, asg, vehicle, faults>>

\* A handler in flight that will free v: it has ended an assignment of v and not
\* come to the vehicle yet.
WillFree(p, v) ==
  \/ /\ call[p].at \in {"declineTruck", "declineVehicle", "freeAbandoned"}
     /\ \E a \in call[p].asgs : asg[a].vehicle = v
  \/ /\ call[p].at \in {"cancelRest", "refetch"}
     /\ \E a \in call[p].asgs : asg[a].vehicle = v /\ asg[a].status = "cancelled"
  \/ call[p].at = "freeVehicles" /\ v \in call[p].vehicles

\* busy without an assignment for minutes: no handler is about to free it
Orphaned(v) ==
  vehicle[v] # "available" /\ NotBusy(v) /\ \A p \in Procs : ~WillFree(p, v)

FindOrphans(p) ==
  /\ call[p] = Idle
  /\ LET orphans == {v \in Vehicles : Orphaned(v)} IN
     /\ orphans # {}
     /\ call' = [call EXCEPT ![p] =
          [Idle EXCEPT !.at = "freeVehicles", !.vehicles = orphans]]
  /\ UNCHANGED <<order, truck, asg, vehicle, faults>>

---------------------------------------------------------------------------
(* Faults *)

Fault == Within /\ faults' = faults + 1

\* an instance dies with its handlers, a write of theirs fails, or their
\* transaction is rolled back
Abandon(p) ==
  /\ Fault
  /\ call[p] # Idle /\ Return(p)
  /\ strayed' = IF call[p].at = "undo" THEN strayed \union call[p].asgs ELSE strayed
  /\ UNCHANGED <<order, truck, asg, vehicle, updates, revived>>

\* a release that fails is logged and skipped
SkipVehicle(p, v) ==
  /\ Fault
  /\ call[p].at = "freeVehicles" /\ v \in call[p].vehicles
  /\ IF call[p].vehicles = {v} THEN Return(p) ELSE call' = [call EXCEPT ![p].vehicles = @ \ {v}]
  /\ UNCHANGED <<order, truck, asg, vehicle, history>>

---------------------------------------------------------------------------

Answer(a) == Accept(a) \/ AcceptInHold(a) \/ TimeOut(a) \/ Complete(a)

Begin(p) ==
  \/ \E a \in Assignments : \/ Decline(p, a) \/ CancelAssignment(p, a)
                            \/ DeclineInHold(p, a) \/ CancelAbandoned(p, a)
  \/ FindOrphans(p)
  \/ \E o \in Orders : BeginHoldExpiry(p, o) \/ ExpiryRead(p, o) \/ CleanupRead(p, o)

Continue(p) ==
  \/ CommitUndo(p) \/ KeepTruck(p) \/ ReleaseDeclined(p) \/ StartOrder(p) \/ EndTrip(p)
  \/ \E a \in Assignments : ReleaseOne(p, a)
  \/ ExpireTrucks(p) \/ ExpireOrder(p) \/ CloseHolds(p) \/ FindTrips(p)
  \/ CancelPending(p) \/ CancelRest(p) \/ Refetch(p)
  \/ \E v \in Vehicles : ReleaseNext(p, v)
  \/ CleanOrder(p) \/ CleanTrucks(p) \/ FreeAbandoned(p) \/ CountAbandoned(p)

\* Everybody but a status update by id and a fault leaves the history alone.
Regular ==
  \/ \E t \in Trucks : Hold(t)
  \/ \E t \in Trucks, v \in Vehicles, a \in Assignments :
       Confirm(t, v, a) \/ AcceptRequest(t, v, a)
  \/ \E a \in Assignments : Answer(a)
  \/ \E p \in Procs : Begin(p) \/ Continue(p)

Next ==
  \/ Regular /\ UNCHANGED history
  \/ \E p \in Procs, a \in Assignments : ReadAssignment(p, a)
  \/ \E p \in Procs : WriteAssignment(p) \/ Abandon(p)
  \/ \E p \in Procs, v \in Vehicles : SkipVehicle(p, v)

Spec == Init /\ [][Next]_vars

---------------------------------------------------------------------------
(* Properties *)

\* Type invariant.
TypeOK ==
  /\ order \in [Orders -> [status: OrderStatus, filled: Nat]]
  /\ truck \in [Trucks -> TruckStatus]
  /\ asg \in [Assignments -> Row]
  /\ \A a \in Assignments : asg[a].status # "none" =>
       asg[a].truck \in Trucks /\ asg[a].vehicle \in Vehicles
  /\ vehicle \in [Vehicles -> VehicleStatus]
  /\ call \in [Procs -> Call]
  /\ faults \in 0 .. MaxEvents /\ updates \in 0 .. MaxEvents
  /\ strayed \subseteq Assignments /\ revived \in [Orders -> Nat]

\* A truck request is astray once an assignment of it has strayed.
Astray(t) == \E a \in strayed : asg[a].truck = t

\* No truck request has two live assignments, in whatever order declines,
\* cancellations, expiries and their late writes to the request arrive, although
\* a request is opened before the end of its assignment commits.  Only a request
\* gone astray may: a status update by id ended or revived an assignment of it,
\* or the end of one was rolled back after the request was opened.
OneLivePerTruck ==
  \A a, b \in Assignments :
    Live(a) /\ Live(b) /\ asg[a].truck = asg[b].truck /\ ~Astray(asg[a].truck) => a = b

\* OneLivePerVehicle - order-accept.service.ts: "Vehicle must be available (not
\* already on a trip)".  No vehicle has two live assignments.
OneLivePerVehicle ==
  \A a, b \in Assignments : Live(a) /\ Live(b) /\ asg[a].vehicle = asg[b].vehicle => a = b

\* trucksFilled never falls below the live assignments of its order: no
\* assignment is subtracted twice, by an answer, a timeout and a cancellation.
\* Each status update by id that revives one that was counted out costs one.
FilledCoversLive ==
  \A o \in Orders : order[o].filled + revived[o] >= Cardinality(LiveOf(o))

\* A driver's acceptance stands: it is followed by the delivery or a
\* cancellation, and never by the late decline, timeout or hold expiry of the
\* same assignment; only a status update by id that had read it still pending
\* declines over it.
UpdatesById(a) ==
  \E p \in Procs : call[p].at = "write" /\ a \in call[p].asgs /\ call'[p] # call[p]
AcceptanceStands ==
  [][\A a \in Assignments : asg[a].status = "driver_accepted" =>
       /\ asg'[a].status \in {"driver_accepted", "completed", "cancelled"} \/ UpdatesById(a)
       /\ \A p \in Procs : call[p].at = "holdExpiry" /\ call'[p] # call[p]
                              => asg'[a].status = "driver_accepted"]_vars

\* No vehicle is stranded: one that is not available has a live assignment, or a
\* handler that ended its assignment and still has to free it, although handlers
\* end assignments and free vehicles in separate steps and overtake each other.
\* Only a handler that dies in between, or a status update by id that has ended an
\* assignment of the vehicle, strands it, for the reconciliation to find.
NoVehicleStranded == faults = 0 =>
  \A v \in Vehicles : vehicle[v] # "available" =>
    \/ ~NotBusy(v) \/ \E p \in Procs : WillFree(p, v)
    \/ \E a \in strayed : asg[a].vehicle = v

\* The assignment that has the seat of a truck request; one astray has no seat.
Seated(t) == {a \in Assignments : Live(a) /\ asg[a].truck = t /\ ~Astray(t)}
SeatOf(t) == IF Seated(t) # {} THEN CHOOSE a \in Seated(t) : TRUE ELSE None

\* A trip the reconciliation has cancelled and not counted out yet is counted, too.
Abandoning == {"freeAbandoned", "countAbandoned"}
Counted(o) ==
  {a \in OfOrder(o) :
     /\ ~Astray(asg[a].truck)
     /\ Live(a) \/ \E p \in Procs : call[p].at \in Abandoning /\ a \in call[p].asgs}

Seats == INSTANCE TruckSeats WITH
           seat <- [t \in Trucks |-> SeatOf(t)],
           going <- {t \in Trucks : \E a \in Seated(t) : asg[a].status = "driver_accepted"},
           used <- {a \in Assignments : asg[a].status # "none"},
           counted <- [o \in Orders |-> Counted(o)],
           filled <- [o \in Orders |-> order[o].filled],
           astray <- {t \in Trucks : Astray(t)}

\* The handlers implement the seats of TruckSeats: however answers, timeouts,
\* cancellations, expiries and the reconciliation cut into each other, a truck
\* request that is not astray is given again only after its assignment has ended,
\* and no assignment of such a request is counted out twice.
KeepsSeats == Seats!SeatSpec

\* ORDER_VALID_TRANSITIONS of core/state-machines.ts, on the statuses in use here
OrderTransitions ==
  [active |-> {"partially_filled", "fully_filled", "expired"},
   partially_filled |-> {"active", "fully_filled", "expired"},
   fully_filled |-> {"in_progress"},
   in_progress |-> {},
   expired |-> {}]

\* An order only moves along its state machine; in particular a filled order
\* does not expire and an expired one stays expired.
OrderMovesAreValid ==
  [][\A o \in Orders : order'[o].status # order[o].status =>
       order'[o].status \in OrderTransitions[order[o].status]]_vars
=============================================================================
