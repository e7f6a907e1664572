----------------------------- MODULE TruckHold -----------------------------
(***************************************************************************)
(* The legacy ("single phase") truck hold of                               *)
(* src/src/modules/truck-hold/truck-hold.service.ts, with the customer's   *)
(* cancellation of order-cancel.service.ts that races with it.             *)
(*                                                                         *)
(* A transporter claims some truck requests of an order (holdTrucks), then *)
(* confirms the hold with a vehicle and a driver per truck                 *)
(* (confirmHoldWithAssignments) or gives it back (releaseHold); a 60 s     *)
(* sweep and a durable queue job look after the holds nobody closes.       *)
(*                                                                         *)
(* The database rows are the state.  Every interactive transaction of the  *)
(* code modelled here is SERIALIZABLE, so it is one atomic action; what a  *)
(* handler reads before its transaction, or writes after it, is an action  *)
(* of its own, and other requests interleave.  `call` is the in-flight     *)
(* request of each server worker: it survives nothing (Abort).             *)
(***************************************************************************)
EXTENDS Integers, FiniteSets

CONSTANTS
  Orders, Trucks,        \* Order rows and their TruckRequest rows
  Holds,                 \* ids a TruckHoldLedger row may get: bounds the holds of a run
  Transporters, Vehicles, Drivers,
  Workers,               \* requests in flight at once
  Sweeper,               \* the interval that runs processExpiredHoldsOnce
  None,
  OrderOf,               \* [Trucks -> Orders]
  FleetOf, CrewOf,       \* transporter a vehicle, a driver belongs to
  DurableJobs,           \* BOOLEAN: can the hold-expiry job be enqueued?
  ReleaseMayFail         \* BOOLEAN: can releaseHold's transaction give up?

Procs == Workers \union {Sweeper}

ASSUME TruckHoldAssumption ==
  /\ IsFiniteSet(Trucks)
  /\ OrderOf \in [Trucks -> Orders]
  /\ FleetOf \in [Vehicles -> Transporters]
  /\ CrewOf \in [Drivers -> Transporters]
  /\ Sweeper \notin Workers
  /\ None \notin Orders \union Holds \union Transporters
  /\ DurableJobs \in BOOLEAN
  /\ ReleaseMayFail \in BOOLEAN

VARIABLES
  order,       \* [Orders -> [status, filled]]              (model Order)
  truck,       \* [Trucks -> [status, heldBy]]              (model TruckRequest)
  ledger,      \* [Holds -> [status, transporter, order, trucks]] (TruckHoldLedger)
  vehicle,     \* [Vehicles -> status]                      (model Vehicle)
  assignments, \* the Assignment rows
  jobs,        \* [Holds -> state of its FLEX_HOLD_EXPIRED queue job]
  due,         \* holds whose expiresAt has passed
  orderDue,    \* orders whose expiresAt has passed
  call         \* [Procs -> what it is doing]

vars == <<order, truck, ledger, vehicle, assignments, jobs, due, orderDue, call>>
clock == <<due, orderDue>>

OrderStatus  == {"active", "partially_filled", "fully_filled", "cancelled"}
TruckStatus  == {"searching", "held", "assigned", "cancelled", "expired"}
LedgerStatus == {"none", "active", "confirmed", "released", "cancelled", "expired"}

\* created, broadcasting and active are one status here: no guard of these
\* handlers tells them apart.
ACTIVE_ORDER_STATUSES == {"active", "partially_filled"}
TERMINAL_ORDER_STATUSES == {"cancelled", "fully_filled"}
CancellableOrderStatuses == {"active", "partially_filled", "fully_filled"}
\* statuses the sweep's last write leaves alone
SweepTerminalStatuses == {"cancelled", "released", "expired"}

LedgerRow == [status: LedgerStatus, transporter: Transporters \union {None},
              order: Orders \union {None}, trucks: SUBSET Trucks]
Assignment == [truck: Trucks, vehicle: Vehicles, driver: Drivers,
               status: {"pending", "cancelled"}]
Stage == {"idle", "claim", "enqueue", "confirm", "mark", "release",
          "sweepRead", "sweepMark"}
Call == [at: Stage, hold: Holds \union {None},
         transporter: Transporters \union {None}, order: Orders \union {None}]

TrucksOf(o) == {x \in Trucks : OrderOf[x] = o}
Searching(o) == {x \in TrucksOf(o) : truck[x].status = "searching"}
Assigned(o) == {x \in TrucksOf(o) : truck[x].status = "assigned"}
AnyHeld(t) == {x \in Trucks : truck[x].status = "held"}                \* mutant
HeldBy(t) == {x \in Trucks : truck[x].status = "held" /\ truck[x].heldBy = t}
Live == {a \in assignments : a.status = "pending"}

CallFor(stage, h, t, o) == [at |-> stage, hold |-> h, transporter |-> t, order |-> o]
CallOn(stage, h) == CallFor(stage, h, None, None)
Idle == CallOn("idle", None)
Row(s, t, o, S) == [status |-> s, transporter |-> t, order |-> o, trucks |-> S]
NoRow == Row("none", None, None, {})
Booking(x, v, d, s) == [truck |-> x, vehicle |-> v, driver |-> d, status |-> s]

Init ==
  /\ order = [o \in Orders |-> [status |-> "active", filled |-> 0]]
  /\ truck = [x \in Trucks |-> [status |-> "searching", heldBy |-> None]]
  /\ ledger = [h \in Holds |-> NoRow]
  /\ vehicle = [v \in Vehicles |-> "available"]
  /\ assignments = {}
  /\ jobs = [h \in Holds |-> "none"]
  /\ due = {}
  /\ orderDue = {}
  /\ call = [p \in Procs |-> Idle]

-----------------------------------------------------------------------------
(* Writes shared by several handlers.                                      *)

SetStatus(h, s) == ledger' = [ledger EXCEPT ![h].status = s]

\* updateMany of the rows of S to status s, heldById: null
FreeTrucksKeepingHolder(S, s) ==                                     \* mutant
  truck' = [x \in Trucks |-> IF x \in S THEN [truck[x] EXCEPT !.status = s]
                                        ELSE truck[x]]

FreeTrucks(S, s) ==
  truck' = [x \in Trucks |-> IF x \in S THEN [status |-> s, heldBy |-> None]
                                        ELSE truck[x]]

\* The hold's rows whether or not they are still held.
HoldRows(h) == ledger[h].trucks \intersect TrucksOf(ledger[h].order)      \* mutant

\* The rows a hold still owns: its ids, its order, held, and
\* (FF_HOLD_SAFE_RELEASE_GUARD) held by its transporter.
OwnedBy(h) == ledger[h].trucks \intersect TrucksOf(ledger[h].order)
                               \intersect HeldBy(ledger[h].transporter)

-----------------------------------------------------------------------------
(* holdTrucks                                                              *)

\* The checks made before the transaction: no active hold of this transporter
\* on this order (an unexpired one is answered "already reserved", an expired
\* one has phase FLEX and is answered FLEX_HOLD_CONFLICT), order open and not due.
BeginHold(w, t, o) ==
  /\ call[w] = Idle
  /\ \A h \in Holds : ~(/\ ledger[h].status = "active"
                        /\ ledger[h].transporter = t /\ ledger[h].order = o)
  /\ order[o].status # "cancelled"
  /\ o \notin orderDue
  /\ call' = [call EXCEPT ![w] = CallFor("claim", None, t, o)]
  /\ UNCHANGED <<order, truck, ledger, vehicle, assignments, jobs, clock>>

\* The transaction: SELECT .. FOR UPDATE SKIP LOCKED LIMIT quantity, the
\* searching -> held flip and the ledger row, under a fresh hold id.
Claim(w) ==
  LET t == call[w].transporter
      o == call[w].order
  IN /\ call[w].at = "claim"
     /\ order[o].status \notin TERMINAL_ORDER_STATUSES
     /\ \E S \in (SUBSET Searching(o)) \ {{}}, h \in Holds :
          /\ ledger[h] = NoRow
          /\ truck' = [x \in Trucks |-> IF x \in S
                                          THEN [status |-> "held", heldBy |-> t]
                                          ELSE truck[x]]
          /\ ledger' = [ledger EXCEPT ![h] = Row("active", t, o, S)]
          /\ call' = [call EXCEPT ![w] = CallOn("enqueue", h)]
     /\ UNCHANGED <<order, vehicle, assignments, jobs, clock>>

\* scheduleFlexHoldCleanup, after the commit; its failure is only logged.
Enqueue(w) ==
  /\ call[w].at = "enqueue"
  /\ \/ DurableJobs /\ jobs' = [jobs EXCEPT ![call[w].hold] = "queued"]
     \/ UNCHANGED jobs
  /\ call' = [call EXCEPT ![w] = Idle]
  /\ UNCHANGED <<order, truck, ledger, vehicle, assignments, clock>>

-----------------------------------------------------------------------------
(* confirmHoldWithAssignments                                              *)

\* STEP 1: the hold is read outside the transaction.
BeginConfirm(w, h) ==
  /\ call[w] = Idle
  /\ ledger[h].status = "active"
  /\ h \notin due
  /\ call' = [call EXCEPT ![w] = CallOn("confirm", h)]
  /\ UNCHANGED <<order, truck, ledger, vehicle, assignments, jobs, clock>>

\* A vehicle and a driver per truck, none twice (STEP 2 rejects duplicates and
\* other transporters' vehicles and drivers).
Crews(h) ==
  {c \in [ledger[h].trucks -> Vehicles \X Drivers] :
     /\ \A x \in ledger[h].trucks : /\ FleetOf[c[x][1]] = ledger[h].transporter
                                    /\ CrewOf[c[x][2]] = ledger[h].transporter
     /\ \A x, y \in ledger[h].trucks :
          x # y => c[x][1] # c[y][1] /\ c[x][2] # c[y][2]}

NotBusyVehicle(c) == \A a \in Live, x \in DOMAIN c : a.vehicle # c[x][1]  \* mutant
NotBusy(c) == \A a \in Live, x \in DOMAIN c : a.vehicle # c[x][1] /\ a.driver # c[x][2]

\* STEP 3: the transaction.  It repeats STEP 2's checks, so those are not a
\* step of their own.  It looks at neither the hold's nor the order's status.
Confirm(w) ==
  LET h == call[w].hold
      o == ledger[h].order
      S == ledger[h].trucks
      filled == order[o].filled + Cardinality(S)
  IN /\ call[w].at = "confirm"
     /\ S \subseteq HeldBy(ledger[h].transporter)
     /\ \E c \in Crews(h) :
          /\ NotBusy(c)
          /\ \A x \in S : vehicle[c[x][1]] = "available"
          /\ vehicle' = [v \in Vehicles |-> IF \E x \in S : c[x][1] = v
                                              THEN "on_hold" ELSE vehicle[v]]
          /\ assignments' = assignments \union
               {Booking(x, c[x][1], c[x][2], "pending") : x \in S}
     /\ FreeTrucks(S, "assigned")
     /\ order' = [order EXCEPT ![o] =
                    [status |-> IF filled >= Cardinality(TrucksOf(o))
                                  THEN "fully_filled" ELSE "partially_filled",
                     filled |-> filled]]
     /\ call' = [call EXCEPT ![w] = CallOn("mark", h)]
     /\ UNCHANGED <<ledger, jobs, clock>>

\* STEP 7: the ledger is marked after the commit, whatever it says by now.
MarkConfirmed(w) ==
  /\ call[w].at = "mark"
  /\ SetStatus(call[w].hold, "confirmed")
  /\ call' = [call EXCEPT ![w] = Idle]
  /\ UNCHANGED <<order, truck, vehicle, assignments, jobs, clock>>

-----------------------------------------------------------------------------
(* releaseHold, from the API and from the sweep                            *)

BeginRelease(w, h) ==
  /\ call[w] = Idle
  /\ ledger[h].status = "active"
  /\ call' = [call EXCEPT ![w] = CallOn("release", h)]
  /\ UNCHANGED <<order, truck, ledger, vehicle, assignments, jobs, clock>>

AfterRelease(p) == IF p = Sweeper THEN CallOn("sweepMark", call[p].hold) ELSE Idle

\* The transaction: it does not look at the hold's status again.
Release(p) ==
  LET h == call[p].hold
      status == order[ledger[h].order].status
      open == status \in ACTIVE_ORDER_STATUSES
      closed == IF status = "cancelled" THEN "cancelled" ELSE "expired"
  IN /\ call[p].at = "release"
     /\ FreeTrucks(OwnedBy(h), IF open THEN "searching" ELSE closed)
     /\ SetStatus(h, IF open THEN "released" ELSE closed)
     /\ call' = [call EXCEPT ![p] = AfterRelease(p)]
     /\ UNCHANGED <<order, vehicle, assignments, jobs, clock>>

\* The transaction gives up; releaseHold answers { success: false }.
ReleaseFails(p) ==
  /\ ReleaseMayFail
  /\ call[p].at = "release"
  /\ call' = [call EXCEPT ![p] = AfterRelease(p)]
  /\ UNCHANGED <<order, truck, ledger, vehicle, assignments, jobs, clock>>

-----------------------------------------------------------------------------
(* processExpiredHoldsOnce, the 60 s interval                              *)

SweepFindUndue(h) ==                                                 \* mutant
  /\ call[Sweeper] = Idle
  /\ ledger[h].status = "active"
  /\ h \notin due
  /\ call' = [call EXCEPT ![Sweeper] = CallOn("sweepRead", h)]
  /\ UNCHANGED <<order, truck, ledger, vehicle, assignments, jobs, clock>>

SweepFind(h) ==
  /\ call[Sweeper] = Idle
  /\ ledger[h].status = "active"
  /\ h \in due
  /\ call' = [call EXCEPT ![Sweeper] = CallOn("sweepRead", h)]
  /\ UNCHANGED <<order, truck, ledger, vehicle, assignments, jobs, clock>>

\* releaseHold reads the row again; a hold no longer active is "already released".
SweepRead ==
  LET h == call[Sweeper].hold
  IN /\ call[Sweeper].at = "sweepRead"
     /\ call' = [call EXCEPT ![Sweeper] =
                   CallOn(IF ledger[h].status = "active" THEN "release"
                                                         ELSE "sweepMark", h)]
     /\ UNCHANGED <<order, truck, ledger, vehicle, assignments, jobs, clock>>

\* Whatever releaseHold answered, a row that is not terminal becomes expired.
SweepMark ==
  LET h == call[Sweeper].hold
  IN /\ call[Sweeper].at = "sweepMark"
     /\ IF ledger[h].status \in SweepTerminalStatuses
          THEN UNCHANGED ledger ELSE SetStatus(h, "expired")
     /\ call' = [call EXCEPT ![Sweeper] = Idle]
     /\ UNCHANGED <<order, truck, vehicle, assignments, jobs, clock>>

-----------------------------------------------------------------------------
(* processExpiredHold, the durable FLEX_HOLD_EXPIRED job                    *)

\* A terminal row is skipped, and so is a confirmed one: its phase is CONFIRMED.
JobRead(h) ==
  /\ jobs[h] = "queued"
  /\ h \in due
  /\ jobs' = [jobs EXCEPT ![h] = IF ledger[h].status = "active" THEN "running"
                                                                ELSE "none"]
  /\ UNCHANGED <<order, truck, ledger, vehicle, assignments, clock, call>>

\* The update is by holdId alone; a FLEX hold's truck requests are not touched.
JobExpire(h) ==
  /\ jobs[h] = "running"
  /\ SetStatus(h, "expired")
  /\ jobs' = [jobs EXCEPT ![h] = "none"]
  /\ UNCHANGED <<order, truck, vehicle, assignments, clock, call>>

-----------------------------------------------------------------------------
(* cancelOrder: one transaction                                            *)

CancellableSearching(o) == Searching(o)                              \* mutant
CancellableTrucks(o) ==
  {x \in TrucksOf(o) : truck[x].status \in {"searching", "held"}}

NoVehicles(o) == {}                                                  \* mutant
VehiclesOf(o) ==
  {v \in Vehicles : \E a \in Live : a.vehicle = v /\ OrderOf[a.truck] = o}

CancelledLedger(o) ==
  [h \in Holds |-> IF ledger[h].order = o /\ ledger[h].status = "active"
                     THEN Row("cancelled", ledger[h].transporter, o, ledger[h].trucks)
                     ELSE ledger[h]]

CancelOrder(o) ==
  /\ order[o].status \in CancellableOrderStatuses
  /\ order' = [order EXCEPT ![o].status = "cancelled"]
  /\ FreeTrucks(CancellableTrucks(o), "cancelled")
  /\ ledger' = CancelledLedger(o)
  /\ assignments' = {IF OrderOf[a.truck] = o
                        THEN Booking(a.truck, a.vehicle, a.driver, "cancelled")
                        ELSE a : a \in assignments}
  /\ vehicle' = [v \in Vehicles |-> IF v \in VehiclesOf(o) THEN "available"
                                                         ELSE vehicle[v]]
  /\ UNCHANGED <<jobs, clock, call>>

-----------------------------------------------------------------------------
(* The environment: time, and processes that die or transactions that throw *)

HoldDue(h) ==
  /\ ledger[h] # NoRow
  /\ due' = due \union {h}
  /\ UNCHANGED <<order, truck, ledger, vehicle, assignments, jobs, orderDue, call>>

\* A hold's lifetime is capped to its order's (AB3): its holds are due first.
OrderDue(o) ==
  /\ \A h \in Holds : ledger[h].order = o => h \in due
  /\ orderDue' = orderDue \union {o}
  /\ UNCHANGED <<order, truck, ledger, vehicle, assignments, jobs, due, call>>

\* The request ends here: its transaction threw, or its process died.
Abort(p) ==
  /\ call[p] # Idle
  /\ call' = [call EXCEPT ![p] = Idle]
  /\ UNCHANGED <<order, truck, ledger, vehicle, assignments, jobs, clock>>

Request(w) ==
  \/ \E t \in Transporters, o \in Orders : BeginHold(w, t, o)
  \/ Claim(w) \/ Enqueue(w)
  \/ \E h \in Holds : BeginConfirm(w, h) \/ BeginRelease(w, h)
  \/ Confirm(w) \/ MarkConfirmed(w)

Sweep == (\E h \in Holds : SweepFind(h)) \/ SweepRead \/ SweepMark

Next ==
  \/ \E w \in Workers : Request(w)
  \/ \E p \in Procs : Release(p) \/ ReleaseFails(p) \/ Abort(p)
  \/ Sweep
  \/ \E h \in Holds : JobRead(h) \/ JobExpire(h) \/ HoldDue(h)
  \/ \E o \in Orders : CancelOrder(o) \/ OrderDue(o)

Spec == Init /\ [][Next]_vars

\* The interval fires every minute for ever, so the sweep is fair; a crash or a
\* failed transaction may interrupt it, but not each time (strong fairness).
Fairness ==
  /\ \A h \in Holds : WF_vars(HoldDue(h))
  /\ WF_vars(\E h \in Holds : SweepFind(h))
  /\ SF_vars(SweepRead) /\ SF_vars(Release(Sweeper)) /\ SF_vars(SweepMark)

FairSpec == Spec /\ Fairness

-----------------------------------------------------------------------------
(* Properties                                                              *)

TypeOK ==
  /\ order \in [Orders -> [status: OrderStatus, filled: Nat]]
  /\ truck \in [Trucks -> [status: TruckStatus, heldBy: Transporters \union {None}]]
  /\ \A x \in Trucks : truck[x].heldBy \in Transporters <=> truck[x].status = "held"
  /\ ledger \in [Holds -> LedgerRow]
  /\ vehicle \in [Vehicles -> {"available", "on_hold"}]
  /\ assignments \subseteq Assignment
  /\ jobs \in [Holds -> {"none", "queued", "running"}]
  /\ due \subseteq Holds
  /\ orderDue \subseteq Orders
  /\ call \in [Procs -> Call]

\* "No double booking across concurrent hold races" (truck-hold.service.ts): two
\* live assignments never share a truck, a vehicle or a driver, whatever stale
\* holds are confirmed.
NoDoubleBooking ==
  \A a, b \in Live : a # b => /\ a.truck # b.truck
                              /\ a.vehicle # b.vehicle
                              /\ a.driver # b.driver

\* A vehicle is on hold exactly while a live assignment needs it: no path of
\* confirm, cancel or crash strands it.
VehicleHeldIffNeeded ==
  \A v \in Vehicles : vehicle[v] = "on_hold" <=> \E a \in Live : a.vehicle = v

\* Order.trucksFilled counts the trucks assigned, and an order is filled exactly
\* when all of its trucks are, through every race and failure.
FilledIsExact ==
  \A o \in Orders :
    /\ order[o].filled = Cardinality(Assigned(o))
    /\ order[o].status = "fully_filled" => Assigned(o) = TrucksOf(o)
    /\ order[o].status = "active" => Assigned(o) = {}

\* "Cancel-vs-hold race? Terminal order states win": a cancelled order has no
\* open or held truck, no active hold and no live assignment, and gets none back.
CancelWins ==
  \A o \in Orders : order[o].status = "cancelled" =>
    /\ \A x \in TrucksOf(o) : truck[x].status \notin {"searching", "held"}
    /\ \A h \in Holds : ledger[h].order = o => ledger[h].status # "active"
    /\ \A a \in Live : OrderOf[a.truck] # o

\* A held truck is in a hold of its holder that is active, so that the sweep can
\* find it, or that expired after its time: failed releases, stale marks and
\* a second hold of the same transporter cut no truck loose before that.
HeldIsCovered ==
  \A x \in Trucks : truck[x].status = "held" =>
    \E h \in Holds : /\ ledger[h].transporter = truck[x].heldBy
                     /\ x \in ledger[h].trucks
                     /\ \/ ledger[h].status = "active"
                        \/ ledger[h].status = "expired" /\ h \in due

\* "NEVER DO THIS: Re-open cancelled/expired rows to searching on release"; and no
\* release, however stale, takes a truck away from an assignment.
ClosedStaysClosed ==
  [][\A x \in Trucks : truck[x].status \in {"assigned", "cancelled", "expired"}
                         => truck'[x] = truck[x]]_vars

\* An active hold does not stay active for ever: whoever took it may vanish, the
\* sweep or the durable job closes it.
HoldIsClosed ==
  \A h \in Holds : ledger[h].status = "active" ~> ledger[h].status # "active"

\* A held truck does not stay held for ever: "Server crashes? Hold ledger + TTL
\* cleanup reconciles stale holds".
HeldIsReclaimed ==
  \A x \in Trucks : truck[x].status = "held" ~> truck[x].status # "held"

-----------------------------------------------------------------------------
(* What the subsystem promises: TruckClaims, where a claim is the whole     *)
(* state of a truck request and only its holder can turn it into a booking. *)

Claimant(x) == LET a == CHOOSE b \in assignments : b.truck = x
               IN FleetOf[a.vehicle]

ClaimOf(x) ==
  CASE truck[x].status = "searching" -> [state |-> "open", by |-> None]
    [] truck[x].status = "held"      -> [state |-> "held", by |-> truck[x].heldBy]
    [] truck[x].status = "assigned"  -> [state |-> "booked", by |-> Claimant(x)]
    [] OTHER                         -> [state |-> "closed", by |-> None]

Claims == INSTANCE TruckClaims WITH claim <- [x \in Trucks |-> ClaimOf(x)]

\* The handlers implement the claim contract, step by step.
ImplementsClaims == Claims!ClaimSpec

=============================================================================
