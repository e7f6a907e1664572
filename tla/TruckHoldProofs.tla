-------------------------- MODULE TruckHoldProofs --------------------------
(* Proofs about TruckHold, for every number of orders, trucks, transporters, *)
(* workers and holds.                                                        *)
EXTENDS TruckHold, FiniteSetTheorems, TLAPS

\* A ledger row is unused, or names a transporter, an order and some of its trucks.
LedgerOK ==
  \A h \in Holds : \/ ledger[h] = NoRow
                   \/ /\ ledger[h].status # "none"
                      /\ ledger[h].transporter \in Transporters
                      /\ ledger[h].order \in Orders
                      /\ ledger[h].trucks # {}
                      /\ ledger[h].trucks \subseteq TrucksOf(ledger[h].order)

\* A request past its first step carries what that step chose.
CallOK ==
  \A p \in Procs :
    /\ call[p].at = "claim" => /\ call[p].transporter \in Transporters
                               /\ call[p].order \in Orders
    /\ call[p].at \notin {"idle", "claim"} => /\ call[p].hold \in Holds
                                              /\ ledger[call[p].hold] # NoRow

\* Only a hold that exists has an expiry job.
JobsOK == \A h \in Holds : jobs[h] # "none" => ledger[h] # NoRow

Base == TypeOK /\ LedgerOK /\ CallOK /\ JobsOK

LEMMA BaseInit == Init => Base
BY TruckHoldAssumption
DEF Init, Base, TypeOK, LedgerOK, CallOK, JobsOK, Idle, NoRow, LedgerRow, Call, Stage, Row, CallFor,
    CallOn, OrderStatus, TruckStatus, LedgerStatus, Procs

\* Writing a status other than "none" into a row in use keeps the ledger well formed.
LEMMA SetStatusOK ==
  ASSUME Base, NEW h \in Holds, ledger[h] # NoRow,
         NEW s \in LedgerStatus \ {"none"}, SetStatus(h, s)
  PROVE  /\ ledger' \in [Holds -> LedgerRow]
         /\ LedgerOK'
         /\ \A g \in Holds : ledger'[g] = NoRow <=> ledger[g] = NoRow
<1>1. ledger[h].status # "none" /\ ledger[h] \in LedgerRow
  BY DEF Base, LedgerOK, TypeOK
<1>2. ledger' \in [Holds -> LedgerRow]
  BY <1>1 DEF Base, TypeOK, SetStatus, LedgerRow
<1>3. \A g \in Holds : g # h => ledger'[g] = ledger[g]
  BY DEF SetStatus, Base, TypeOK
<1>4. /\ ledger'[h].status = s
      /\ ledger'[h].transporter = ledger[h].transporter
      /\ ledger'[h].order = ledger[h].order
      /\ ledger'[h].trucks = ledger[h].trucks
  BY <1>1 DEF SetStatus, Base, TypeOK, LedgerRow
<1>5. ledger'[h] # NoRow
  BY <1>4 DEF NoRow, Row
<1>6. LedgerOK'
  BY <1>3, <1>4, <1>5 DEF LedgerOK, Base, TrucksOf
<1> QED
  BY <1>2, <1>3, <1>5, <1>6

\* Freeing rows keeps "held exactly when someone holds it".
LEMMA FreeTrucksOK ==
  ASSUME Base, NEW S \in SUBSET Trucks, NEW s \in TruckStatus \ {"held"}, FreeTrucks(S, s)
  PROVE  /\ truck' \in [Trucks -> [status: TruckStatus, heldBy: Transporters \union {None}]]
         /\ \A x \in Trucks : truck'[x].heldBy \in Transporters <=> truck'[x].status = "held"
BY TruckHoldAssumption DEF Base, TypeOK, FreeTrucks

\* So does the cancellation of an order, which writes several rows.
LEMMA CancelLedgerOK ==
  ASSUME Base, NEW o \in Orders, ledger' = CancelledLedger(o)
  PROVE  /\ ledger' \in [Holds -> LedgerRow]
         /\ LedgerOK'
         /\ \A h \in Holds : ledger'[h] = NoRow <=> ledger[h] = NoRow
<1>1. ASSUME NEW h \in Holds
      PROVE  /\ ledger'[h] \in LedgerRow
             /\ ledger'[h] = NoRow <=> ledger[h] = NoRow
             /\ ledger[h] # NoRow => ledger'[h].status # "none"
             /\ ledger'[h].transporter = ledger[h].transporter
             /\ ledger'[h].order = ledger[h].order
             /\ ledger'[h].trucks = ledger[h].trucks
  <2>1. ledger[h] \in LedgerRow /\ (ledger[h] # NoRow => ledger[h].status # "none")
    BY DEF Base, TypeOK, LedgerOK
  <2>2. CASE ledger[h].order = o /\ ledger[h].status = "active"
    <3>1. ledger'[h] = Row("cancelled", ledger[h].transporter, ledger[h].order, ledger[h].trucks)
      BY <2>2 DEF CancelledLedger
    <3> QED
      BY <2>1, <2>2, <3>1 DEF Row, NoRow, LedgerRow, LedgerStatus
  <2>3. CASE ~(ledger[h].order = o /\ ledger[h].status = "active")
    BY <2>1, <2>3 DEF CancelledLedger
  <2> QED
    BY <2>2, <2>3
<1>2. ledger' \in [Holds -> LedgerRow]
  BY <1>1 DEF CancelledLedger
<1>3. LedgerOK'
  BY <1>1 DEF LedgerOK, Base, TrucksOf
<1> QED
  BY <1>1, <1>2, <1>3

LEMMA BaseStep == Base /\ [Next]_vars => Base'
<1> SUFFICES ASSUME Base, [Next]_vars PROVE Base'
  OBVIOUS
<1> USE TruckHoldAssumption DEF Row, Booking, CallFor, CallOn, Idle, NoRow
<1>1. ASSUME NEW w \in Workers, NEW t \in Transporters, NEW o \in Orders, BeginHold(w, t, o)
      PROVE  Base'
  BY <1>1 DEF BeginHold, Base, TypeOK, LedgerOK, CallOK, JobsOK, Idle, Call, Stage, Procs, clock,
              TrucksOf
<1>2. ASSUME NEW w \in Workers, Claim(w)
      PROVE  Base'
  <2> DEFINE t == call[w].transporter
             o == call[w].order
  <2>1. t \in Transporters /\ o \in Orders
    BY <1>2 DEF Claim, Base, CallOK, Procs
  <2>2. PICK S \in (SUBSET Searching(o)) \ {{}}, h \in Holds :
          /\ ledger[h] = NoRow
          /\ truck' = [x \in Trucks |-> IF x \in S
                                          THEN [status |-> "held", heldBy |-> t]
                                          ELSE truck[x]]
          /\ ledger' = [ledger EXCEPT ![h] = Row("active", t, o, S)]
          /\ call' = [call EXCEPT ![w] = CallOn("enqueue", h)]
    BY <1>2 DEF Claim
  <2>3. S # {} /\ S \subseteq TrucksOf(o) /\ S \subseteq Trucks
    BY DEF Searching, TrucksOf
  <2>4. UNCHANGED <<order, vehicle, assignments, jobs, clock>>
    BY <1>2 DEF Claim
  <2>5. TypeOK'
    BY <2>1, <2>2, <2>3, <2>4
    DEF Base, TypeOK, LedgerRow, LedgerStatus, TruckStatus, CallOn, Idle, Call, Stage, Procs, clock
  <2>6. ledger'[h] # NoRow /\ \A g \in Holds : g # h => ledger'[g] = ledger[g]
    BY <2>2 DEF Base, TypeOK, NoRow
  <2>7. LedgerOK'
    BY <2>1, <2>2, <2>3 DEF Base, TypeOK, LedgerOK, TrucksOf
  <2>8. CallOK'
    BY <2>2, <2>6 DEF Base, TypeOK, CallOK, CallOn, Idle
  <2>9. JobsOK'
    BY <2>4, <2>6 DEF Base, JobsOK
  <2> QED
    BY <2>5, <2>7, <2>8, <2>9 DEF Base
<1>3. ASSUME NEW w \in Workers, Enqueue(w)
      PROVE  Base'
  <2>1. call[w].hold \in Holds /\ ledger[call[w].hold] # NoRow
    BY <1>3 DEF Enqueue, Base, CallOK, Procs
  <2>2. TypeOK' /\ CallOK'
    BY <1>3 DEF Enqueue, Base, TypeOK, CallOK, Call, Stage, Procs, clock
  <2>3. LedgerOK' /\ JobsOK'
    BY <1>3, <2>1 DEF Enqueue, Base, TypeOK, LedgerOK, JobsOK, TrucksOf
  <2> QED
    BY <2>2, <2>3 DEF Base
<1>4. ASSUME NEW w \in Workers, NEW h \in Holds, BeginConfirm(w, h) \/ BeginRelease(w, h)
      PROVE  Base'
  <2>1. ledger[h] # NoRow
    BY <1>4 DEF BeginConfirm, BeginRelease, NoRow
  <2>2. PICK s \in {"confirm", "release"} : call' = [call EXCEPT ![w] = CallOn(s, h)]
    BY <1>4 DEF BeginConfirm, BeginRelease
  <2>3. UNCHANGED <<order, truck, ledger, vehicle, assignments, jobs, clock>>
    BY <1>4 DEF BeginConfirm, BeginRelease
  <2>4. TypeOK'
    BY <2>2, <2>3 DEF Base, TypeOK, Call, Stage, Procs, clock
  <2>5. CallOK'
    BY <2>1, <2>2, <2>3 DEF Base, TypeOK, CallOK
  <2>6. LedgerOK' /\ JobsOK'
    BY <2>3 DEF Base, LedgerOK, JobsOK, TrucksOf
  <2> QED
    BY <2>4, <2>5, <2>6 DEF Base
<1>5. ASSUME NEW w \in Workers, Confirm(w)
      PROVE  Base'
  <2> DEFINE h == call[w].hold
             S == ledger[h].trucks
  <2>1. h \in Holds /\ ledger[h] # NoRow
    BY <1>5 DEF Confirm, Base, CallOK, Procs
  <2>2. S \in SUBSET Trucks /\ ledger[h].order \in Orders
    BY <2>1 DEF Base, LedgerOK, TypeOK, LedgerRow
  <2>3. IsFiniteSet(S) /\ Cardinality(S) \in Nat
    BY <2>2, FS_Subset, FS_CardinalityType
  <2>4. /\ FreeTrucks(S, "assigned")
        /\ UNCHANGED <<ledger, jobs, clock>>
        /\ call' = [call EXCEPT ![w] = CallOn("mark", h)]
    BY <1>5 DEF Confirm
  <2>5. order' \in [Orders -> [status: OrderStatus, filled: Nat]]
    BY <1>5, <2>2, <2>3 DEF Confirm, Base, TypeOK, OrderStatus
  <2>6. PICK c \in Crews(h) :
          /\ vehicle' = [v \in Vehicles |-> IF \E x \in S : c[x][1] = v
                                              THEN "on_hold" ELSE vehicle[v]]
          /\ assignments' = assignments \union
               {Booking(x, c[x][1], c[x][2], "pending") : x \in S}
    BY <1>5 DEF Confirm
  <2>7. c \in [S -> Vehicles \X Drivers]
    BY DEF Crews
  <2>8. assignments' \subseteq Assignment /\ vehicle' \in [Vehicles -> {"available", "on_hold"}]
    BY <2>2, <2>6, <2>7 DEF Base, TypeOK, Assignment
  <2>9. TypeOK'
    BY <2>1, <2>2, <2>4, <2>5, <2>8, FreeTrucksOK
    DEF Base, TypeOK, CallOn, Idle, Call, Stage, Procs, clock, TruckStatus
  <2>10. LedgerOK' /\ CallOK' /\ JobsOK'
    BY <2>1, <2>4 DEF Base, TypeOK, LedgerOK, CallOK, JobsOK, CallOn, Idle, TrucksOf
  <2> QED
    BY <2>9, <2>10 DEF Base
<1>6. ASSUME NEW w \in Workers, MarkConfirmed(w)
      PROVE  Base'
  <2>1. call[w].hold \in Holds /\ ledger[call[w].hold] # NoRow
    BY <1>6 DEF MarkConfirmed, Base, CallOK, Procs
  <2>2. /\ SetStatus(call[w].hold, "confirmed")
        /\ call' = [call EXCEPT ![w] = Idle]
        /\ UNCHANGED <<order, truck, vehicle, assignments, jobs, clock>>
    BY <1>6 DEF MarkConfirmed
  <2>3. /\ ledger' \in [Holds -> LedgerRow]
        /\ LedgerOK'
        /\ \A g \in Holds : ledger'[g] = NoRow <=> ledger[g] = NoRow
    BY <2>1, <2>2, SetStatusOK DEF LedgerStatus
  <2> QED
    BY <2>2, <2>3 DEF Base, TypeOK, CallOK, JobsOK, Idle, Call, Stage, Procs, clock
<1>7. ASSUME NEW p \in Procs, Release(p)
      PROVE  Base'
  <2> DEFINE h == call[p].hold
  <2>1. h \in Holds /\ ledger[h] # NoRow
    BY <1>7 DEF Release, Base, CallOK
  <2>2. PICK s \in {"searching", "cancelled", "expired"}, l \in {"released", "cancelled", "expired"} :
          FreeTrucks(OwnedBy(h), s) /\ SetStatus(h, l)
    BY <1>7 DEF Release
  <2>3. /\ call' = [call EXCEPT ![p] = AfterRelease(p)]
        /\ UNCHANGED <<order, vehicle, assignments, jobs, clock>>
    BY <1>7 DEF Release
  <2>4. OwnedBy(h) \in SUBSET Trucks
    BY DEF OwnedBy, HeldBy
  <2>5. /\ ledger' \in [Holds -> LedgerRow]
        /\ LedgerOK'
        /\ \A g \in Holds : ledger'[g] = NoRow <=> ledger[g] = NoRow
    BY <2>1, <2>2, SetStatusOK DEF LedgerStatus
  <2>6. TypeOK'
    BY <2>1, <2>2, <2>3, <2>4, <2>5, FreeTrucksOK
    DEF Base, TypeOK, AfterRelease, CallOn, Idle, Call, Stage, Procs, clock, TruckStatus
  <2> QED
    BY <2>1, <2>3, <2>5, <2>6 DEF Base, TypeOK, CallOK, JobsOK, AfterRelease, CallOn, Idle
<1>8. ASSUME NEW p \in Procs, ReleaseFails(p)
      PROVE  Base'
  <2>1. call[p].hold \in Holds /\ ledger[call[p].hold] # NoRow
    BY <1>8 DEF ReleaseFails, Base, CallOK
  <2> QED
    BY <1>8, <2>1 DEF ReleaseFails, AfterRelease, Base, TypeOK, LedgerOK, CallOK, JobsOK, CallOn,
                      Idle, Call, Stage, Procs, clock, TrucksOf
<1>9. ASSUME NEW p \in Procs, Abort(p)
      PROVE  Base'
  BY <1>9 DEF Abort, Base, TypeOK, LedgerOK, CallOK, JobsOK, Idle, Call, Stage, clock, TrucksOf
<1>10. ASSUME NEW h \in Holds, SweepFind(h)
       PROVE  Base'
  <2>1. ledger[h] # NoRow
    BY <1>10 DEF SweepFind, NoRow
  <2> QED
    BY <1>10, <2>1 DEF SweepFind, Base, TypeOK, LedgerOK, CallOK, JobsOK, CallOn,
                       Idle, Call, Stage, Procs, clock, TrucksOf
<1>11. CASE SweepRead
  <2>1. call[Sweeper].hold \in Holds /\ ledger[call[Sweeper].hold] # NoRow
    BY <1>11 DEF SweepRead, Base, CallOK, Procs
  <2> QED
    BY <1>11, <2>1 DEF SweepRead, Base, TypeOK, LedgerOK, CallOK, JobsOK, CallOn,
                       Idle, Call, Stage, Procs, clock, TrucksOf
<1>12. CASE SweepMark
  <2>1. call[Sweeper].hold \in Holds /\ ledger[call[Sweeper].hold] # NoRow
    BY <1>12 DEF SweepMark, Base, CallOK, Procs
  <2>2. ledger' = ledger \/ SetStatus(call[Sweeper].hold, "expired")
    BY <1>12 DEF SweepMark
  <2>3. /\ ledger' \in [Holds -> LedgerRow]
        /\ LedgerOK'
        /\ \A g \in Holds : ledger'[g] = NoRow <=> ledger[g] = NoRow
    BY <2>1, <2>2, SetStatusOK DEF LedgerStatus, Base, TypeOK, LedgerOK, TrucksOf
  <2> QED
    BY <1>12, <2>3 DEF SweepMark, Base, TypeOK, CallOK, JobsOK, Idle, Call, Stage, Procs, clock
<1>13. ASSUME NEW h \in Holds, JobRead(h)
       PROVE  Base'
  BY <1>13 DEF JobRead, Base, TypeOK, LedgerOK, CallOK, JobsOK, clock, TrucksOf
<1>14. ASSUME NEW h \in Holds, JobExpire(h)
       PROVE  Base'
  <2>1. ledger[h] # NoRow
    BY <1>14 DEF JobExpire, Base, JobsOK
  <2>2. /\ ledger' \in [Holds -> LedgerRow]
        /\ LedgerOK'
        /\ \A g \in Holds : ledger'[g] = NoRow <=> ledger[g] = NoRow
    BY <1>14, <2>1, SetStatusOK DEF JobExpire, LedgerStatus
  <2> QED
    BY <1>14, <2>2 DEF JobExpire, Base, TypeOK, CallOK, JobsOK, clock
<1>15. ASSUME NEW h \in Holds, HoldDue(h)
       PROVE  Base'
  BY <1>15 DEF HoldDue, Base, TypeOK, LedgerOK, CallOK, JobsOK, TrucksOf
<1>16. ASSUME NEW o \in Orders, CancelOrder(o)
       PROVE  Base'
  <2>1. CancellableTrucks(o) \in SUBSET Trucks
    BY DEF CancellableTrucks, TrucksOf
  <2>2. /\ truck' \in [Trucks -> [status: TruckStatus, heldBy: Transporters \union {None}]]
        /\ \A x \in Trucks : truck'[x].heldBy \in Transporters <=> truck'[x].status = "held"
    BY <1>16, <2>1, FreeTrucksOK DEF CancelOrder, TruckStatus
  <2>3. /\ ledger' \in [Holds -> LedgerRow]
        /\ LedgerOK'
        /\ \A h \in Holds : ledger'[h] = NoRow <=> ledger[h] = NoRow
    BY <1>16, CancelLedgerOK DEF CancelOrder, CancelledLedger
  <2>7. assignments' \subseteq Assignment
    BY <1>16 DEF CancelOrder, Base, TypeOK, Assignment
  <2>8. /\ order' \in [Orders -> [status: OrderStatus, filled: Nat]]
        /\ vehicle' \in [Vehicles -> {"available", "on_hold"}]
        /\ UNCHANGED <<jobs, due, orderDue, call>>
    BY <1>16 DEF CancelOrder, Base, TypeOK, OrderStatus, clock
  <2>9. TypeOK'
    BY <2>2, <2>3, <2>7, <2>8 DEF Base, TypeOK
  <2>10. CallOK' /\ JobsOK'
    BY <2>3, <2>8 DEF Base, CallOK, JobsOK
  <2> QED
    BY <2>3, <2>9, <2>10 DEF Base
<1>17. ASSUME NEW o \in Orders, OrderDue(o)
       PROVE  Base'
  BY <1>17 DEF OrderDue, Base, TypeOK, LedgerOK, CallOK, JobsOK, TrucksOf
<1>18. CASE UNCHANGED vars
  BY <1>18 DEF vars, Base, TypeOK, LedgerOK, CallOK, JobsOK, TrucksOf, clock
<1> QED
  BY <1>1, <1>2, <1>3, <1>4, <1>5, <1>6, <1>7, <1>8, <1>9, <1>10, <1>11, <1>12, <1>13, <1>14,
     <1>15, <1>16, <1>17, <1>18
  DEF Next, Request, Sweep

\* The types, and with them that ledger rows, requests and jobs are well formed.
THEOREM TypeCorrect == Spec => []TypeOK
<1>1. Spec => []Base
  BY BaseInit, BaseStep, PTL DEF Spec
<1>2. Base => TypeOK
  BY DEF Base
<1> QED
  BY <1>1, <1>2, PTL

-----------------------------------------------------------------------------
(* Bookings: what Confirm creates stays exclusive and nothing takes it back. *)

\* No step but a claim makes a hold active, and only four steps write trucks,
\* orders, vehicles or assignments.
Quiet ==
  /\ UNCHANGED <<order, truck, vehicle, assignments>>
  /\ \A h \in Holds : ledger'[h].status = "active" => ledger'[h] = ledger[h]

LEMMA Writers ==
  ASSUME Base, [Next]_vars
  PROVE  \/ \E w \in Workers : Claim(w) \/ Confirm(w)
         \/ \E p \in Procs : Release(p)
         \/ \E o \in Orders : CancelOrder(o)
         \/ Quiet
<1> USE TruckHoldAssumption
<1>1. ASSUME NEW h, NEW s \in LedgerStatus \ {"active"}, SetStatus(h, s)
      PROVE  \A g \in Holds : ledger'[g].status = "active" => ledger'[g] = ledger[g]
  BY <1>1 DEF SetStatus, Base, TypeOK, LedgerRow
<1>2. ASSUME NEW w \in Workers, MarkConfirmed(w)
      PROVE  Quiet
  BY <1>1, <1>2 DEF MarkConfirmed, Quiet, LedgerStatus
<1>3. ASSUME SweepMark
      PROVE  Quiet
  BY <1>1, <1>3 DEF SweepMark, Quiet, LedgerStatus
<1>4. ASSUME NEW h \in Holds, JobExpire(h)
      PROVE  Quiet
  BY <1>1, <1>4 DEF JobExpire, Quiet, LedgerStatus
<1>5. CASE UNCHANGED <<order, truck, vehicle, assignments, ledger>>
  BY <1>5 DEF Quiet
<1> QED
  BY <1>2, <1>3, <1>4, <1>5
  DEF Next, Request, Sweep, BeginHold, Enqueue, BeginConfirm, BeginRelease, ReleaseFails, Abort,
      SweepFind, SweepRead, JobRead, HoldDue, OrderDue, vars, clock

\* What a claim, a confirmation, a release and a cancellation do to a truck.
LEMMA TruckMoves ==
  ASSUME Base, NEW x \in Trucks
  PROVE  /\ \A w \in Workers : Claim(w) =>
              \/ truck'[x] = truck[x]
              \/ /\ truck[x].status = "searching"
                 /\ order[OrderOf[x]].status \notin TERMINAL_ORDER_STATUSES
                 /\ truck'[x].status = "held"
                 /\ truck'[x].heldBy = call[w].transporter
         /\ \A w \in Workers : Confirm(w) =>
              IF x \in ledger[call[w].hold].trucks
                THEN truck[x].status = "held" /\ truck'[x].status = "assigned"
                ELSE truck'[x] = truck[x]
         /\ \A p \in Procs : Release(p) =>
              IF x \in OwnedBy(call[p].hold)
                THEN /\ truck[x].status = "held"
                     /\ truck'[x].status \in {"searching", "cancelled", "expired"}
                     /\ OrderOf[x] = ledger[call[p].hold].order
                     /\ truck'[x].status = "searching"
                          => order[OrderOf[x]].status \in ACTIVE_ORDER_STATUSES
                ELSE truck'[x] = truck[x]
         /\ \A o \in Orders : CancelOrder(o) =>
              IF OrderOf[x] = o /\ truck[x].status \in {"searching", "held"}
                THEN truck'[x].status = "cancelled"
                ELSE truck'[x] = truck[x]
<1>1. ASSUME NEW w \in Workers, Claim(w)
      PROVE  \/ truck'[x] = truck[x]
             \/ /\ truck[x].status = "searching"
                /\ order[OrderOf[x]].status \notin TERMINAL_ORDER_STATUSES
                /\ truck'[x].status = "held"
                /\ truck'[x].heldBy = call[w].transporter
  BY <1>1 DEF Claim, Searching, TrucksOf
<1>2. ASSUME NEW w \in Workers, Confirm(w)
      PROVE  IF x \in ledger[call[w].hold].trucks
               THEN truck[x].status = "held" /\ truck'[x].status = "assigned"
               ELSE truck'[x] = truck[x]
  BY <1>2 DEF Confirm, FreeTrucks, HeldBy
<1>3. ASSUME NEW p \in Procs, Release(p)
      PROVE  IF x \in OwnedBy(call[p].hold)
               THEN /\ truck[x].status = "held"
                    /\ truck'[x].status \in {"searching", "cancelled", "expired"}
                    /\ OrderOf[x] = ledger[call[p].hold].order
                    /\ truck'[x].status = "searching"
                         => order[OrderOf[x]].status \in ACTIVE_ORDER_STATUSES
               ELSE truck'[x] = truck[x]
  BY <1>3 DEF Release, FreeTrucks, OwnedBy, HeldBy, TrucksOf
<1>4. ASSUME NEW o \in Orders, CancelOrder(o)
      PROVE  IF OrderOf[x] = o /\ truck[x].status \in {"searching", "held"}
               THEN truck'[x].status = "cancelled"
               ELSE truck'[x] = truck[x]
  BY <1>4 DEF CancelOrder, FreeTrucks, CancellableTrucks, TrucksOf
<1> QED
  BY <1>1, <1>2, <1>3, <1>4

\* Truck requests that are assigned, cancelled or expired are never written again:
\* releaseHold's guards keep a stale release away from them.
LEMMA ClosedStep ==
  ASSUME Base, [Next]_vars, NEW x \in Trucks,
         truck[x].status \in {"assigned", "cancelled", "expired"}
  PROVE  truck'[x] = truck[x]
BY Writers, TruckMoves DEF Quiet

THEOREM ClosedIsClosed == Spec => ClosedStaysClosed
<1>1. Spec => []Base
  BY BaseInit, BaseStep, PTL DEF Spec
<1>2. Base /\ [Next]_vars =>
        [\A x \in Trucks : truck[x].status \in {"assigned", "cancelled", "expired"}
                             => truck'[x] = truck[x]]_vars
  BY ClosedStep
<1> QED
  BY <1>1, <1>2, PTL DEF Spec, ClosedStaysClosed

-----------------------------------------------------------------------------
\* Every booking is of an assigned truck, every assigned truck has one booking.
BookingOK ==
  /\ \A a \in assignments : truck[a.truck].status = "assigned"
  /\ \A a, b \in assignments : a.truck = b.truck => a = b
  /\ \A x \in Trucks : truck[x].status = "assigned" => \E a \in assignments : a.truck = x

Books == BookingOK /\ NoDoubleBooking /\ VehicleHeldIffNeeded /\ CancelWins

LEMMA BooksInit == Init => Books
BY DEF Init, Books, BookingOK, NoDoubleBooking, VehicleHeldIffNeeded, CancelWins, Live

LEMMA BooksConfirm ==
  ASSUME Base, Books, NEW w \in Workers, Confirm(w)
  PROVE  Books'
<1> USE TruckHoldAssumption
<1> DEFINE h == call[w].hold
           o == ledger[h].order
           S == ledger[h].trucks
<1>1. /\ h \in Holds /\ o \in Orders
      /\ S \subseteq TrucksOf(o) /\ S \subseteq Trucks /\ S \subseteq HeldBy(ledger[h].transporter)
  BY DEF Confirm, Base, CallOK, LedgerOK, Procs, TrucksOf
<1>2. PICK c \in Crews(h) :
        /\ NotBusy(c)
        /\ \A x \in S : vehicle[c[x][1]] = "available"
        /\ vehicle' = [v \in Vehicles |-> IF \E x \in S : c[x][1] = v
                                            THEN "on_hold" ELSE vehicle[v]]
        /\ assignments' = assignments \union
             {Booking(x, c[x][1], c[x][2], "pending") : x \in S}
  BY DEF Confirm
<1>3. /\ c \in [S -> Vehicles \X Drivers]
      /\ \A x, y \in S : x # y => c[x][1] # c[y][1] /\ c[x][2] # c[y][2]
  BY DEF Crews
<1> DEFINE New == {Booking(x, c[x][1], c[x][2], "pending") : x \in S}
<1>4. \A a \in New : /\ a.truck \in S /\ a.status = "pending"
                     /\ a.vehicle = c[a.truck][1] /\ a.driver = c[a.truck][2]
                     /\ a = Booking(a.truck, c[a.truck][1], c[a.truck][2], "pending")
  BY DEF Booking
<1>5. \A x \in S : \E a \in New : a.truck = x /\ a.vehicle = c[x][1]
  <2>1. \A x \in S : Booking(x, c[x][1], c[x][2], "pending") \in New
    OBVIOUS
  <2>2. \A x \in S : /\ Booking(x, c[x][1], c[x][2], "pending").truck = x
                     /\ Booking(x, c[x][1], c[x][2], "pending").vehicle = c[x][1]
    BY DEF Booking
  <2> HIDE DEF New
  <2> QED
    BY <2>1, <2>2
<1>6. Live' = Live \union New
  BY <1>2, <1>4 DEF Live
<1>7. \A x \in Trucks : IF x \in S
                          THEN truck[x].status = "held" /\ truck'[x].status = "assigned"
                          ELSE truck'[x] = truck[x]
  BY TruckMoves
<1>8. \A a \in assignments : a.truck \in Trucks /\ a.truck \notin S
  BY <1>7 DEF Base, TypeOK, Assignment, Books, BookingOK
<1>9. BookingOK'
  <2>1. \A a \in assignments' : truck'[a.truck].status = "assigned"
    BY <1>1, <1>2, <1>4, <1>7, <1>8 DEF Books, BookingOK
  <2>2. \A a, b \in assignments' : a.truck = b.truck => a = b
    BY <1>2, <1>4, <1>8 DEF Books, BookingOK
  <2>3. \A x \in Trucks : truck'[x].status = "assigned" => \E a \in assignments' : a.truck = x
    BY <1>2, <1>5, <1>7 DEF Books, BookingOK
  <2> QED
    BY <2>1, <2>2, <2>3 DEF BookingOK
<1>10. NoDoubleBooking'
  <2>1. \A a \in Live, b \in New : /\ a.truck # b.truck
                                   /\ a.vehicle # b.vehicle
                                   /\ a.driver # b.driver
    BY <1>2, <1>3, <1>4, <1>8 DEF Live, NotBusy
  <2>2. \A a, b \in New : a # b => /\ a.truck # b.truck
                                   /\ a.vehicle # b.vehicle
                                   /\ a.driver # b.driver
    BY <1>3, <1>4
  <2> QED
    BY <1>6, <2>1, <2>2 DEF NoDoubleBooking, Books
<1>11. VehicleHeldIffNeeded'
  <2> HIDE DEF New
  <2>1. \A v \in Vehicles : (\E a \in Live' : a.vehicle = v) <=>
          (\E a \in Live : a.vehicle = v) \/ (\E x \in S : c[x][1] = v)
    BY <1>4, <1>5, <1>6
  <2>2. \A v \in Vehicles : vehicle'[v] = IF \E x \in S : c[x][1] = v
                                            THEN "on_hold" ELSE vehicle[v]
    BY <1>2
  <2>3. \A v \in Vehicles : vehicle[v] = "on_hold" <=> \E a \in Live : a.vehicle = v
    BY DEF Books, VehicleHeldIffNeeded
  <2> QED
    BY <2>1, <2>2, <2>3 DEF VehicleHeldIffNeeded
<1>12. CancelWins'
  <2>1. order'[o].status # "cancelled" /\ \A q \in Orders \ {o} : order'[q] = order[q]
    BY <1>1 DEF Confirm, Base, TypeOK
  <2>2. ledger' = ledger
    BY DEF Confirm
  <2>3. \A x \in S : OrderOf[x] = o
    BY <1>1 DEF TrucksOf
  <2>4. ASSUME NEW q \in Orders, order'[q].status = "cancelled"
        PROVE  /\ \A x \in TrucksOf(q) : truck'[x].status \notin {"searching", "held"}
               /\ \A g \in Holds : ledger'[g].order = q => ledger'[g].status # "active"
               /\ \A a \in Live' : OrderOf[a.truck] # q
    <3>1. q # o /\ order[q].status = "cancelled"
      BY <2>1, <2>4
    <3> QED
      BY <1>4, <1>6, <1>7, <2>2, <2>3, <3>1 DEF Books, CancelWins, TrucksOf
  <2> QED
    BY <2>4 DEF CancelWins, TrucksOf
<1> QED
  BY <1>9, <1>10, <1>11, <1>12 DEF Books

LEMMA BooksCancel ==
  ASSUME Base, Books, NEW o \in Orders, CancelOrder(o)
  PROVE  Books'
<1> USE TruckHoldAssumption
<1> DEFINE After(a) == IF OrderOf[a.truck] = o
                         THEN Booking(a.truck, a.vehicle, a.driver, "cancelled") ELSE a
<1>1. assignments' = {After(a) : a \in assignments}
  BY DEF CancelOrder
<1>2. \A a \in assignments : After(a).truck = a.truck /\ After(a) \in assignments'
  BY <1>1 DEF Booking
<1>3. \A b \in assignments' : \E a \in assignments : b = After(a) /\ b.truck = a.truck
  BY <1>1, <1>2
<1>4. \A x \in Trucks : IF OrderOf[x] = o /\ truck[x].status \in {"searching", "held"}
                          THEN truck'[x].status = "cancelled" ELSE truck'[x] = truck[x]
  BY TruckMoves
<1>5. \A a \in assignments : a.truck \in Trucks /\ a.vehicle \in Vehicles
  BY DEF Base, TypeOK, Assignment
<1>6. Live' = {a \in Live : OrderOf[a.truck] # o}
  <2>1. ASSUME NEW b \in Live' PROVE b \in Live /\ OrderOf[b.truck] # o
    <3>1. PICK a \in assignments : b = After(a)
      BY <1>3 DEF Live
    <3>2. b.status = "pending"
      BY DEF Live
    <3>3. OrderOf[a.truck] # o
      BY <3>1, <3>2 DEF Booking
    <3> QED
      BY <3>1, <3>2, <3>3 DEF Live
  <2>2. ASSUME NEW a \in Live, OrderOf[a.truck] # o PROVE a \in Live'
    BY <1>1, <2>2 DEF Live
  <2> QED
    BY <2>1, <2>2 DEF Live
<1>7. BookingOK'
  <2>1. \A b \in assignments' : truck'[b.truck].status = "assigned"
    BY <1>3, <1>4, <1>5 DEF Books, BookingOK
  <2>2. \A a, b \in assignments' : a.truck = b.truck => a = b
    BY <1>3 DEF Books, BookingOK
  <2>3. \A x \in Trucks : truck'[x].status = "assigned" => \E a \in assignments' : a.truck = x
    BY <1>2, <1>4 DEF Books, BookingOK
  <2> QED
    BY <2>1, <2>2, <2>3 DEF BookingOK
<1>8. NoDoubleBooking'
  BY <1>6 DEF Books, NoDoubleBooking
<1>9. VehicleHeldIffNeeded'
  <2>1. \A v \in Vehicles : vehicle'[v] = IF \E a \in Live : a.vehicle = v /\ OrderOf[a.truck] = o
                                            THEN "available" ELSE vehicle[v]
    BY DEF CancelOrder, VehiclesOf
  <2>2. \A a, b \in Live : a.vehicle = b.vehicle => a = b
    BY DEF Books, NoDoubleBooking
  <2> QED
    BY <1>6, <2>1, <2>2 DEF Books, VehicleHeldIffNeeded
<1>10. CancelWins'
  <2>1. \A q \in Orders \ {o} : order'[q] = order[q]
    BY DEF CancelOrder, Base, TypeOK
  <2>2. \A h \in Holds :
          IF ledger[h].order = o /\ ledger[h].status = "active"
            THEN ledger'[h].order = o /\ ledger'[h].status = "cancelled"
            ELSE ledger'[h] = ledger[h]
    BY DEF CancelOrder, CancelledLedger, Row
  <2>3. ASSUME NEW q \in Orders, order'[q].status = "cancelled"
        PROVE  /\ \A x \in TrucksOf(q) : truck'[x].status \notin {"searching", "held"}
               /\ \A h \in Holds : ledger'[h].order = q => ledger'[h].status # "active"
               /\ \A a \in Live' : OrderOf[a.truck] # q
    <3>1. CASE q = o
      BY <1>4, <1>6, <2>2, <3>1 DEF TrucksOf
    <3>2. CASE q # o
      BY <1>4, <1>6, <2>1, <2>2, <2>3, <3>2 DEF TrucksOf, Books, CancelWins
    <3> QED
      BY <3>1, <3>2
  <2> QED
    BY <2>3 DEF CancelWins, TrucksOf
<1> QED
  BY <1>7, <1>8, <1>9, <1>10 DEF Books

\* A step that writes no assignment, vehicle or order, and no truck but searching
\* or held ones of orders that are not cancelled.
LEMMA BooksKept ==
  ASSUME Base, Books, UNCHANGED <<assignments, vehicle, order>>,
         \A x \in Trucks : \/ truck'[x] = truck[x]
                           \/ /\ truck[x].status \in {"searching", "held"}
                              /\ truck'[x].status # "assigned",
         \A h \in Holds : ledger'[h].status = "active" =>
                            \/ ledger'[h] = ledger[h]
                            \/ order[ledger'[h].order].status # "cancelled"
  PROVE  Books'
<1> USE TruckHoldAssumption
<1>1. \A a \in assignments : a.truck \in Trucks
  BY DEF Base, TypeOK, Assignment
<1>2. BookingOK'
  BY <1>1 DEF Books, BookingOK
<1>3. NoDoubleBooking' /\ VehicleHeldIffNeeded'
  BY DEF Books, NoDoubleBooking, VehicleHeldIffNeeded, Live
<1>4. CancelWins'
  BY DEF Books, CancelWins, TrucksOf, Live
<1> QED
  BY <1>2, <1>3, <1>4 DEF Books

LEMMA BooksStep == Base /\ Books /\ [Next]_vars => Books'
<1> SUFFICES ASSUME Base, Books, [Next]_vars PROVE Books'
  OBVIOUS
<1> USE TruckHoldAssumption
<1>1. ASSUME NEW w \in Workers, Claim(w)
      PROVE  Books'
  <2>1. call[w].order \in Orders /\ order[call[w].order].status # "cancelled"
    BY <1>1 DEF Claim, TERMINAL_ORDER_STATUSES, Base, CallOK, Procs
  <2>2. \A h \in Holds : ledger'[h] = ledger[h] \/ ledger'[h].order = call[w].order
    BY <1>1 DEF Claim, Row, Base, TypeOK
  <2>3. UNCHANGED <<assignments, vehicle, order>>
    BY <1>1 DEF Claim
  <2> QED
    BY <1>1, <2>1, <2>2, <2>3, TruckMoves, BooksKept
<1>2. ASSUME NEW p \in Procs, Release(p)
      PROVE  Books'
  <2>1. \A h \in Holds : ledger'[h].status = "active" => ledger'[h] = ledger[h]
    BY <1>2 DEF Release, SetStatus, Base, TypeOK, LedgerRow
  <2>2. UNCHANGED <<assignments, vehicle, order>>
    BY <1>2 DEF Release
  <2> QED
    BY <1>2, <2>1, <2>2, TruckMoves, BooksKept
<1>3. CASE Quiet
  BY <1>3, BooksKept DEF Quiet
<1> QED
  BY <1>1, <1>2, <1>3, BooksConfirm, BooksCancel, Writers

\* The booking invariants hold in every reachable state of every instance.
THEOREM BookingsCorrect ==
  Spec => [](NoDoubleBooking /\ VehicleHeldIffNeeded /\ CancelWins)
<1>1. Base /\ Books => NoDoubleBooking /\ VehicleHeldIffNeeded /\ CancelWins
  BY DEF Books
<1> QED
  BY <1>1, BaseInit, BaseStep, BooksInit, BooksStep, PTL DEF Spec

\* Its two parts that are easy to lose sight of: a vehicle waits exactly for a
\* live assignment, and nothing is left of a cancelled order.
THEOREM VehiclesHeldIffNeeded == Spec => []VehicleHeldIffNeeded
BY BookingsCorrect, PTL

THEOREM CancellationWins == Spec => []CancelWins
BY BookingsCorrect, PTL

=============================================================================
