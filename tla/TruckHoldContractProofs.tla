---------------------- MODULE TruckHoldContractProofs ----------------------
(* More about TruckHold: the order's count of filled trucks, the cover of    *)
(* every held truck by a hold, and the contract TruckClaims.                 *)
EXTENDS TruckHoldProofs

-----------------------------------------------------------------------------
(* trucksFilled                                                            *)

LEMMA FilledInit == Init => FilledIsExact
<1> SUFFICES ASSUME Init PROVE FilledIsExact
  OBVIOUS
<1>1. \A o \in Orders : Assigned(o) = {}
  BY DEF Init, Assigned, TrucksOf
<1> QED
  BY <1>1, FS_EmptySet DEF Init, FilledIsExact

\* Confirming adds the hold's trucks, none of which was assigned.
LEMMA FilledConfirm ==
  ASSUME Base, FilledIsExact, NEW w \in Workers, Confirm(w)
  PROVE  FilledIsExact'
<1> USE TruckHoldAssumption
<1>1. PICK h \in Holds, o \in Orders, S \in SUBSET Trucks :
        /\ h = call[w].hold /\ o = ledger[h].order /\ S = ledger[h].trucks
        /\ S \subseteq TrucksOf(o)
  BY DEF Confirm, Base, CallOK, LedgerOK, Procs, TrucksOf
<1> DEFINE filled == order[o].filled + Cardinality(S)
<1>2. order' = [order EXCEPT ![o] =
                  [status |-> IF filled >= Cardinality(TrucksOf(o))
                                THEN "fully_filled" ELSE "partially_filled",
                   filled |-> filled]]
  BY <1>1 DEF Confirm
<1>3. order'[o].filled = filled /\ \A q \in Orders \ {o} : order'[q] = order[q]
  BY <1>1, <1>2 DEF Base, TypeOK
<1>4. /\ order'[o].status = "fully_filled" => filled >= Cardinality(TrucksOf(o))
      /\ order'[o].status # "active"
  BY <1>1, <1>2 DEF Base, TypeOK
<1>5. \A x \in Trucks : IF x \in S
                          THEN truck[x].status = "held" /\ truck'[x].status = "assigned"
                          ELSE truck'[x] = truck[x]
  BY <1>1, TruckMoves
<1>6. Assigned(o)' = Assigned(o) \union S /\ Assigned(o) \intersect S = {}
  <2>1. \A x \in TrucksOf(o) : x \in Assigned(o)' <=> x \in Assigned(o) \/ x \in S
    BY <1>5 DEF Assigned, TrucksOf
  <2>2. \A x \in TrucksOf(o) : ~(x \in Assigned(o) /\ x \in S)
    BY <1>5 DEF Assigned, TrucksOf
  <2>3. Assigned(o) \subseteq TrucksOf(o) /\ Assigned(o)' \subseteq TrucksOf(o)
    BY DEF Assigned, TrucksOf
  <2> QED
    BY <1>1, <2>1, <2>2, <2>3
<1>7. \A q \in Orders \ {o} : Assigned(q)' = Assigned(q)
  BY <1>1, <1>5 DEF Assigned, TrucksOf
<1>8. IsFiniteSet(TrucksOf(o)) /\ IsFiniteSet(Assigned(o)) /\ IsFiniteSet(S)
  <2>1. IsFiniteSet(TrucksOf(o))
    BY FS_Subset DEF TrucksOf
  <2> QED
    BY <1>1, <2>1, FS_Subset DEF Assigned
<1>9. Cardinality(Assigned(o)') = filled
  <2>1. Cardinality(Assigned(o) \union S) =
          Cardinality(Assigned(o)) + Cardinality(S) - Cardinality(Assigned(o) \intersect S)
    BY <1>8, FS_Union
  <2>2. Cardinality(Assigned(o) \intersect S) = 0
    BY <1>6, FS_EmptySet
  <2>3. Cardinality(Assigned(o)) \in Nat /\ Cardinality(S) \in Nat
    BY <1>8, FS_CardinalityType
  <2>4. order[o].filled = Cardinality(Assigned(o))
    BY <1>1 DEF FilledIsExact
  <2> QED
    BY <1>6, <2>1, <2>2, <2>3, <2>4
<1> HIDE DEF filled
<1>10. order'[o].status = "fully_filled" => Assigned(o)' = TrucksOf(o)
  <2> SUFFICES ASSUME order'[o].status = "fully_filled" PROVE Assigned(o)' = TrucksOf(o)
    OBVIOUS
  <2>1. Assigned(o)' \in SUBSET TrucksOf(o)
    BY DEF Assigned, TrucksOf
  <2>2. /\ Cardinality(Assigned(o)') <= Cardinality(TrucksOf(o))
        /\ Cardinality(TrucksOf(o)) = Cardinality(Assigned(o)') => TrucksOf(o) = Assigned(o)'
    BY <1>8, <2>1, FS_Subset
  <2>3. Cardinality(Assigned(o)') >= Cardinality(TrucksOf(o))
    BY <1>4, <1>9
  <2>4. Cardinality(TrucksOf(o)) \in Nat /\ Cardinality(Assigned(o)') \in Nat
    BY <1>8, <2>1, FS_Subset, FS_CardinalityType
  <2> QED
    BY <2>2, <2>3, <2>4
<1>11. \A q \in Orders : /\ order'[q].filled = Cardinality(Assigned(q)')
                         /\ order'[q].status = "fully_filled" => Assigned(q)' = TrucksOf(q)
                         /\ order'[q].status = "active" => Assigned(q)' = {}
  BY <1>3, <1>4, <1>7, <1>9, <1>10 DEF FilledIsExact
<1> QED
  BY <1>11 DEF FilledIsExact, TrucksOf

LEMMA FilledStep == Base /\ FilledIsExact /\ [Next]_vars => FilledIsExact'
<1> SUFFICES ASSUME Base, FilledIsExact, [Next]_vars,
                    ~ \E w \in Workers : Confirm(w)
             PROVE  FilledIsExact'
  BY FilledConfirm
<1>1. \A x \in Trucks : truck'[x].status = "assigned" <=> truck[x].status = "assigned"
  BY Writers, TruckMoves DEF Quiet
<1>2. \A o \in Orders : Assigned(o)' = Assigned(o)
  BY <1>1 DEF Assigned, TrucksOf
<1>3. \A o \in Orders : /\ order'[o].filled = order[o].filled
                        /\ order'[o].status = order[o].status \/ order'[o].status = "cancelled"
  <2>1. ASSUME NEW o \in Orders, CancelOrder(o)
        PROVE  \A q \in Orders : /\ order'[q].filled = order[q].filled
                                 /\ \/ order'[q].status = order[q].status
                                    \/ order'[q].status = "cancelled"
    BY <2>1 DEF CancelOrder, Base, TypeOK
  <2>2. CASE order' = order
    BY <2>2
  <2> QED
    BY <2>1, <2>2, Writers DEF Quiet, Claim, Release
<1> QED
  BY <1>2, <1>3 DEF FilledIsExact, TrucksOf

\* Order.trucksFilled is the number of assigned trucks, whatever is aborted,
\* released or cancelled meanwhile.
THEOREM FilledCorrect == Spec => []FilledIsExact
BY BaseInit, BaseStep, FilledInit, FilledStep, PTL DEF Spec

-----------------------------------------------------------------------------
(* Coverage of held trucks: what is confirmed is no longer held, and the     *)
(* sweep and the job close nothing before its time                           *)

Cover ==
  /\ HeldIsCovered
  /\ \A h \in Holds : jobs[h] = "running" => h \in due
  /\ \A p \in Procs : call[p].at = "mark" =>
       \A x \in ledger[call[p].hold].trucks : truck[x].status = "assigned"
  /\ call[Sweeper].at # "idle" => call[Sweeper].hold \in due

\* A row in use keeps its transporter, order and trucks, and is active later only
\* if it is active now.
LEMMA RowsKept ==
  ASSUME Base, [Next]_vars, NEW h \in Holds, ledger[h] # NoRow
  PROVE  /\ ledger'[h].transporter = ledger[h].transporter
         /\ ledger'[h].order = ledger[h].order
         /\ ledger'[h].trucks = ledger[h].trucks
         /\ ledger'[h].status = "active" => ledger[h].status = "active"
<1> USE TruckHoldAssumption
<1>1. ASSUME NEW g, NEW s \in LedgerStatus \ {"active"}, SetStatus(g, s)
      PROVE  /\ ledger'[h].transporter = ledger[h].transporter
             /\ ledger'[h].order = ledger[h].order
             /\ ledger'[h].trucks = ledger[h].trucks
             /\ ledger'[h].status = "active" => ledger[h].status = "active"
  BY <1>1 DEF SetStatus, Base, TypeOK, LedgerRow
<1>2. ASSUME NEW w \in Workers, Claim(w) PROVE ledger'[h] = ledger[h]
  BY <1>2 DEF Claim, Base, TypeOK
<1>3. ASSUME NEW o \in Orders, CancelOrder(o)
      PROVE  /\ ledger'[h].transporter = ledger[h].transporter
             /\ ledger'[h].order = ledger[h].order
             /\ ledger'[h].trucks = ledger[h].trucks
             /\ ledger'[h].status = "active" => ledger[h].status = "active"
  BY <1>3 DEF CancelOrder, CancelledLedger, Row
<1>4. \/ UNCHANGED ledger
      \/ \E g, s \in LedgerStatus \ {"active"} : SetStatus(g, s)
      \/ \E w \in Workers : Claim(w)
      \/ \E o \in Orders : CancelOrder(o)
      \/ \E g : \E s \in LedgerStatus \ {"active"} : SetStatus(g, s)
  <2>1. ASSUME NEW p \in Procs, Release(p)
        PROVE  \E g : \E s \in LedgerStatus \ {"active"} : SetStatus(g, s)
    BY <2>1 DEF Release, LedgerStatus
  <2>2. ASSUME NEW w \in Workers, MarkConfirmed(w)
        PROVE  \E g : \E s \in LedgerStatus \ {"active"} : SetStatus(g, s)
    BY <2>2 DEF MarkConfirmed, LedgerStatus
  <2>3. ASSUME SweepMark
        PROVE  \/ UNCHANGED ledger
               \/ \E g : \E s \in LedgerStatus \ {"active"} : SetStatus(g, s)
    BY <2>3 DEF SweepMark, LedgerStatus
  <2>4. ASSUME NEW g \in Holds, JobExpire(g)
        PROVE  \E k : \E s \in LedgerStatus \ {"active"} : SetStatus(k, s)
    BY <2>4 DEF JobExpire, LedgerStatus
  <2> QED
    BY <2>1, <2>2, <2>3, <2>4
    DEF Next, Request, Sweep, BeginHold, Enqueue, BeginConfirm, Confirm, BeginRelease,
        ReleaseFails, Abort, SweepFind, SweepRead, JobRead, HoldDue, OrderDue, vars
<1> QED
  BY <1>1, <1>2, <1>3, <1>4

LEMMA DueGrows ==
  ASSUME [Next]_vars
  PROVE  due \subseteq due'
BY DEF Next, Request, Sweep, BeginHold, Claim, Enqueue, BeginConfirm, Confirm, MarkConfirmed,
       BeginRelease, Release, ReleaseFails, Abort, SweepFind, SweepRead, SweepMark, JobRead,
       JobExpire, HoldDue, OrderDue, CancelOrder, vars, clock

\* Every held truck after a step was held and covered, and its cover is still
\* active or expired in time, or the step is the claim that holds it.
LEMMA CoverHeld ==
  ASSUME Base, Cover, [Next]_vars
  PROVE  HeldIsCovered'
<1> USE TruckHoldAssumption
<1> DEFINE Covers(h, x) == /\ ledger[h].transporter = truck[x].heldBy
                           /\ x \in ledger[h].trucks
                           /\ \/ ledger[h].status = "active"
                              \/ ledger[h].status = "expired" /\ h \in due
<1> SUFFICES ASSUME NEW x \in Trucks, truck'[x].status = "held"
             PROVE  \E h \in Holds : /\ ledger'[h].transporter = truck'[x].heldBy
                                     /\ x \in ledger'[h].trucks
                                     /\ \/ ledger'[h].status = "active"
                                        \/ ledger'[h].status = "expired" /\ h \in due'
  BY DEF HeldIsCovered
<1>1. CASE truck'[x] # truck[x]
  <2>1. PICK w \in Workers : Claim(w)
    BY <1>1, Writers, TruckMoves DEF Quiet
  <2> DEFINE t == call[w].transporter
             o == call[w].order
  <2>2. PICK S \in (SUBSET Searching(o)) \ {{}}, h \in Holds :
          /\ truck' = [y \in Trucks |-> IF y \in S
                                          THEN [status |-> "held", heldBy |-> t]
                                          ELSE truck[y]]
          /\ ledger' = [ledger EXCEPT ![h] = Row("active", t, o, S)]
    BY <2>1 DEF Claim
  <2>3. x \in S /\ truck'[x].heldBy = t
    BY <1>1, <2>2
  <2>4. ledger'[h] = Row("active", t, o, S)
    BY <2>2 DEF Base, TypeOK
  <2> QED
    BY <2>3, <2>4 DEF Row
<1>2. CASE truck'[x] = truck[x]
  <2>1. PICK h \in Holds : Covers(h, x)
    BY <1>2 DEF Cover, HeldIsCovered
  <2>2. ledger[h] # NoRow
    BY <2>1 DEF NoRow, Row
  <2>3. OrderOf[x] = ledger[h].order
    BY <2>1, <2>2 DEF Base, LedgerOK, TrucksOf
  <2>4. \/ ledger'[h].status = "active"
        \/ ledger'[h].status = "expired" /\ h \in due'
    <3>1. ASSUME NEW g \in Holds, NEW s, SetStatus(g, s), g # h
          PROVE  ledger'[h] = ledger[h]
      BY <3>1 DEF SetStatus, Base, TypeOK
    <3>2. ASSUME NEW w \in Workers, MarkConfirmed(w)
          PROVE  ledger'[h] = ledger[h]
      <4>1. call[w].hold \in Holds /\ call[w].hold # h
        BY <1>2, <2>1, <3>2 DEF MarkConfirmed, Cover, Base, CallOK, Procs
      <4> QED
        BY <3>1, <3>2, <4>1 DEF MarkConfirmed
    <3>3. ASSUME NEW p \in Procs, Release(p)
          PROVE  ledger'[h] = ledger[h]
      <4>1. x \notin OwnedBy(call[p].hold)
        BY <1>2, <3>3, TruckMoves
      <4>2. h # call[p].hold
        BY <1>2, <2>1, <2>3, <4>1 DEF OwnedBy, HeldBy, TrucksOf
      <4>3. call[p].hold \in Holds
        BY <3>3 DEF Release, Base, CallOK
      <4> QED
        BY <3>1, <3>3, <4>2, <4>3 DEF Release
    <3>8. ASSUME NEW g \in Holds, SetStatus(g, "expired"), g \in due
          PROVE  ledger'[h] = ledger[h] \/ (ledger'[h].status = "expired" /\ h \in due)
      BY <3>1, <3>8 DEF SetStatus, Base, TypeOK, LedgerRow
    <3>4. ASSUME SweepMark
          PROVE  ledger'[h] = ledger[h] \/ (ledger'[h].status = "expired" /\ h \in due)
      <4>1. call[Sweeper].hold \in Holds /\ call[Sweeper].hold \in due
        BY <3>4 DEF SweepMark, Cover, Base, CallOK, Procs
      <4> QED
        BY <3>4, <3>8, <4>1 DEF SweepMark
    <3>5. ASSUME NEW w \in Workers, Claim(w)
          PROVE  ledger'[h] = ledger[h]
      BY <2>2, <3>5 DEF Claim, Base, TypeOK
    <3>6. ASSUME NEW o \in Orders, CancelOrder(o)
          PROVE  ledger'[h] = ledger[h]
      <4>1. OrderOf[x] # o
        BY <1>2, <3>6, TruckMoves
      <4> QED
        BY <2>3, <3>6, <4>1 DEF CancelOrder, CancelledLedger
    <3>7. ASSUME NEW g \in Holds, JobExpire(g)
          PROVE  ledger'[h] = ledger[h] \/ (ledger'[h].status = "expired" /\ h \in due)
      BY <3>7, <3>8 DEF JobExpire, Cover
    <3> QED
      BY <2>1, DueGrows, <3>2, <3>3, <3>4, <3>5, <3>6, <3>7
      DEF Next, Request, Sweep, BeginHold, Enqueue, BeginConfirm, Confirm, BeginRelease,
          ReleaseFails, Abort, SweepFind, SweepRead, JobRead, HoldDue, OrderDue, vars
  <2> QED
    BY <1>2, <2>1, <2>2, <2>4, RowsKept
<1> QED
  BY <1>1, <1>2

\* Only these steps bring a request to the stages "mark" and "sweepMark".
LEMMA CallMoves ==
  ASSUME Base, [Next]_vars, NEW p \in Procs, call'[p] # call[p],
         call'[p].at \in {"mark", "sweepMark"}
  PROVE  \/ call'[p].at = "mark" /\ p \in Workers /\ Confirm(p)
         \/ call'[p].at = "sweepMark" /\ (Release(p) \/ ReleaseFails(p))
         \/ call'[p].at = "sweepMark" /\ p = Sweeper /\ SweepRead
<1> USE DEF CallFor, CallOn, Idle
<1>1. \A q \in Procs : \A c : call' = [call EXCEPT ![q] = c] => q = p /\ call'[p] = c
  BY DEF Base, TypeOK
<1>2. ASSUME NEW w \in Workers, Request(w)
      PROVE  p = w /\ call'[p].at = "mark" /\ Confirm(p)
  <2>1. w \in Procs
    BY DEF Procs
  <2>2. p = w
    BY <1>1, <1>2, <2>1
    DEF Request, BeginHold, Claim, Enqueue, BeginConfirm, Confirm, MarkConfirmed, BeginRelease
  <2>3. ~(\E t \in Transporters, o \in Orders : BeginHold(w, t, o))
    BY <1>1, <2>1 DEF BeginHold
  <2>4. ~Claim(w) /\ ~Enqueue(w) /\ ~MarkConfirmed(w)
    BY <1>1, <2>1 DEF Claim, Enqueue, MarkConfirmed
  <2>5. ~(\E h \in Holds : BeginConfirm(w, h) \/ BeginRelease(w, h))
    BY <1>1, <2>1 DEF BeginConfirm, BeginRelease
  <2>6. Confirm(w)
    BY <1>2, <2>3, <2>4, <2>5 DEF Request
  <2>7. call' = [call EXCEPT ![w] = CallOn("mark", call[w].hold)]
    BY <2>6 DEF Confirm
  <2>8. call'[p] = CallOn("mark", call[w].hold)
    BY <1>1, <2>1, <2>7
  <2> QED
    BY <2>2, <2>6, <2>8
<1>3. ASSUME NEW q \in Procs, Release(q)
      PROVE  p = q /\ call'[p].at = "sweepMark"
  <2>1. call' = [call EXCEPT ![q] = AfterRelease(q)]
    BY <1>3 DEF Release
  <2>2. p = q /\ call'[p] = AfterRelease(q)
    BY <1>1, <2>1
  <2> QED
    BY <2>2 DEF AfterRelease
<1>4. ASSUME NEW q \in Procs, ReleaseFails(q)
      PROVE  p = q /\ call'[p].at = "sweepMark"
  BY <1>1, <1>4 DEF ReleaseFails, AfterRelease
<1>5. ~ \E q \in Procs : Abort(q)
  BY <1>1 DEF Abort
<1>6. Sweeper \in Procs
  BY DEF Procs
<1>7. ~(\E h \in Holds : SweepFind(h)) /\ ~SweepMark
  BY <1>1, <1>6 DEF SweepFind, SweepMark
<1>8. ASSUME SweepRead
      PROVE  p = Sweeper /\ call'[p].at = "sweepMark"
  BY <1>1, <1>6, <1>8 DEF SweepRead
<1> QED
  BY <1>2, <1>3, <1>4, <1>5, <1>7, <1>8
  DEF Next, Sweep, JobRead, JobExpire, HoldDue, OrderDue, CancelOrder, vars

LEMMA CoverStep ==
  ASSUME Base, Cover, [Next]_vars
  PROVE  Cover'
<1> USE TruckHoldAssumption DEF CallFor, CallOn, Idle
<1>1. ASSUME NEW h \in Holds, jobs'[h] = "running"
      PROVE  h \in due'
  <2>1. \A w \in Workers : Enqueue(w) => (jobs'[h] = "running" => jobs[h] = "running")
    BY DEF Enqueue, Base, TypeOK
  <2>2. \A g \in Holds : JobRead(g) \/ JobExpire(g) =>
          (jobs'[h] = "running" => jobs[h] = "running" \/ h \in due)
    BY DEF JobRead, JobExpire, Base, TypeOK
  <2>3. jobs[h] = "running" \/ h \in due
    BY <1>1, <2>1, <2>2
    DEF Next, Request, Sweep, BeginHold, Claim, BeginConfirm, Confirm,
        MarkConfirmed, BeginRelease, Release, ReleaseFails, Abort, SweepFind, SweepRead,
        SweepMark, HoldDue, OrderDue, CancelOrder, vars
  <2> QED
    BY <2>3, DueGrows DEF Cover
<1>2. ASSUME NEW p \in Procs, call'[p].at = "mark"
      PROVE  \A x \in ledger'[call'[p].hold].trucks : truck'[x].status = "assigned"
  <2>1. \/ call'[p] = call[p]
        \/ p \in Workers /\ Confirm(p)
    BY <1>2, CallMoves
  <2>2. CASE call'[p] = call[p]
    <3>1. call[p].hold \in Holds /\ ledger[call[p].hold] # NoRow
      BY <1>2, <2>2 DEF Base, CallOK
    <3>2. \A x \in ledger[call[p].hold].trucks : x \in Trucks /\ truck[x].status = "assigned"
      BY <1>2, <2>2, <3>1 DEF Cover, Base, TypeOK, LedgerRow
    <3> QED
      BY <2>2, <3>1, <3>2, RowsKept, ClosedStep
  <2>3. CASE p \in Workers /\ Confirm(p)
    <3>1. call'[p].hold = call[p].hold /\ ledger' = ledger /\ call[p].hold \in Holds
      BY <2>3 DEF Confirm, Base, TypeOK, CallOK, Procs
    <3>2. \A x \in ledger[call[p].hold].trucks : x \in Trucks
      BY <3>1 DEF Base, TypeOK, LedgerRow
    <3> QED
      BY <2>3, <3>1, <3>2, TruckMoves
  <2> QED
    BY <2>1, <2>2, <2>3
\* the sweep stays with the hold it found
<1>3. ASSUME call'[Sweeper].at # "idle"
      PROVE  call'[Sweeper].hold \in due'
  <2>1. Sweeper \in Procs /\ Sweeper \notin Workers
    BY DEF Procs
  <2>2. \A q \in Procs : \A c : (call' = [call EXCEPT ![q] = c]) =>
          call'[Sweeper] = IF q = Sweeper THEN c ELSE call[Sweeper]
    BY <2>1 DEF Base, TypeOK
  <2>3. \A w \in Workers : Request(w) => call'[Sweeper] = call[Sweeper]
    <3> SUFFICES ASSUME NEW w \in Workers, Request(w) PROVE call'[Sweeper] = call[Sweeper]
      OBVIOUS
    <3>1. w \in Procs /\ w # Sweeper
      BY <2>1 DEF Procs
    <3> QED
      BY <2>2, <3>1
      DEF Request, BeginHold, Claim, Enqueue, BeginConfirm, Confirm, MarkConfirmed, BeginRelease
  <2>4. ASSUME NEW q \in Procs, Release(q) \/ ReleaseFails(q)
        PROVE  \/ call'[Sweeper] = call[Sweeper]
               \/ call[Sweeper].at = "release" /\ call'[Sweeper].hold = call[Sweeper].hold
    BY <2>2, <2>4 DEF Release, ReleaseFails, AfterRelease
  <2>5. ASSUME NEW q \in Procs, Abort(q)
        PROVE  call'[Sweeper] = call[Sweeper]
    BY <1>3, <2>2, <2>5 DEF Abort
  <2>6. ASSUME NEW h \in Holds, SweepFind(h)
        PROVE  call'[Sweeper].hold \in due
    <3>1. call'[Sweeper] = CallOn("sweepRead", h) /\ h \in due
      BY <2>1, <2>2, <2>6 DEF SweepFind
    <3> QED
      BY <3>1
  <2>7. SweepRead => call[Sweeper].at # "idle" /\ call'[Sweeper].hold = call[Sweeper].hold
    BY <2>1, <2>2 DEF SweepRead
  <2>8. ~SweepMark
    BY <1>3, <2>1, <2>2 DEF SweepMark
  <2>9. \/ call'[Sweeper] = call[Sweeper]
        \/ call'[Sweeper].hold \in due
        \/ call[Sweeper].at # "idle" /\ call'[Sweeper].hold = call[Sweeper].hold
    BY <2>3, <2>4, <2>5, <2>6, <2>7, <2>8
    DEF Next, Sweep, JobRead, JobExpire, HoldDue, OrderDue, CancelOrder, vars
  <2> QED
    BY <1>3, <2>9, DueGrows DEF Cover
<1> QED
  BY <1>1, <1>2, <1>3, CoverHeld DEF Cover

\* A held truck is in an active hold of its holder, or in one that was expired when
\* its time was up, whatever jobs run, requests race and releases fail.
THEOREM HeldCovered == Spec => []HeldIsCovered
<1>1. Init => Cover
  BY DEF Init, Cover, HeldIsCovered, Idle, CallOn, CallFor, Procs
<1>2. Base /\ Cover /\ [Next]_vars => Cover'
  BY CoverStep
<1>3. Cover => HeldIsCovered
  BY DEF Cover
<1> QED
  BY <1>1, <1>2, <1>3, BaseInit, BaseStep, PTL DEF Spec

-----------------------------------------------------------------------------
(* TruckHold implements TruckClaims                                        *)

C == [x \in Trucks |-> ClaimOf(x)]

\* A truck's claimant is the owner of the vehicle it is booked with.
LEMMA OnlyBooking ==
  ASSUME NEW A, \A a, b \in A : a.truck = b.truck => a = b, NEW a \in A
  PROVE  (CHOOSE b \in A : b.truck = a.truck) = a
<1>1. \E b \in A : b.truck = a.truck
  OBVIOUS
<1>2. LET b == CHOOSE b \in A : b.truck = a.truck IN b \in A /\ b.truck = a.truck
  BY <1>1
<1> QED
  BY <1>2

\* Trucks whose row and booking a step leaves alone keep their claim.
LEMMA ClaimKept ==
  ASSUME Base, NEW x \in Trucks, truck'[x] = truck[x],
         truck[x].status = "assigned" => Claimant(x)' = Claimant(x)
  PROVE  C'[x] = C[x]
BY DEF C, ClaimOf

LEMMA ClaimantConfirm ==
  ASSUME Base, Books, NEW w \in Workers, Confirm(w), NEW x \in Trucks
  PROVE  IF x \in ledger[call[w].hold].trucks
           THEN Claimant(x)' = ledger[call[w].hold].transporter
           ELSE truck[x].status = "assigned" => Claimant(x)' = Claimant(x)
<1> USE TruckHoldAssumption
<1>1. PICK h \in Holds, S \in SUBSET Trucks : h = call[w].hold /\ S = ledger[h].trucks
  BY DEF Confirm, Base, CallOK, TypeOK, LedgerRow, Procs
<1>2. PICK c \in Crews(h) :
        assignments' = assignments \union {Booking(y, c[y][1], c[y][2], "pending") : y \in S}
  BY <1>1 DEF Confirm
<1>3. BookingOK' /\ BookingOK
  BY BooksConfirm DEF Books
<1>4. \A a, b \in assignments' : a.truck = b.truck => a = b
  BY <1>3 DEF BookingOK
<1>5. CASE x \in S
  <2> DEFINE a == Booking(x, c[x][1], c[x][2], "pending")
  <2>1. a \in assignments' /\ a.truck = x /\ a.vehicle = c[x][1]
    BY <1>2, <1>5 DEF Booking
  <2>2. (CHOOSE b \in assignments' : b.truck = a.truck) = a
    BY <1>4, <2>1, OnlyBooking
  <2>3. FleetOf[c[x][1]] = ledger[h].transporter
    BY <1>1, <1>5 DEF Crews
  <2> HIDE DEF a
  <2> QED
    BY <1>1, <1>5, <2>1, <2>2, <2>3 DEF Claimant
<1>6. CASE x \notin S /\ truck[x].status = "assigned"
  <2>1. PICK a \in assignments : a.truck = x
    BY <1>3, <1>6 DEF BookingOK
  <2>2. a \in assignments'
    BY <1>2
  <2>3. (CHOOSE b \in assignments' : b.truck = a.truck) = a
    BY <1>4, <2>2, OnlyBooking
  <2>4. \A d, b \in assignments : d.truck = b.truck => d = b
    BY <1>3 DEF BookingOK
  <2>5. (CHOOSE b \in assignments : b.truck = a.truck) = a
    BY <2>4, OnlyBooking
  <2>6. Claimant(x)' = FleetOf[a.vehicle]
    BY <2>1, <2>3 DEF Claimant
  <2>7. Claimant(x) = FleetOf[a.vehicle]
    BY <2>1, <2>5 DEF Claimant
  <2>8. Claimant(x)' = Claimant(x)
    BY <2>6, <2>7
  <2> QED
    BY <1>1, <1>6, <2>8
<1> QED
  BY <1>1, <1>5, <1>6

LEMMA ClaimantCancel ==
  ASSUME Base, Books, NEW o \in Orders, CancelOrder(o), NEW x \in Trucks,
         truck[x].status = "assigned"
  PROVE  Claimant(x)' = Claimant(x)
<1>1. BookingOK' /\ BookingOK
  BY BooksCancel DEF Books
<1>2. PICK a \in assignments : a.truck = x
  BY <1>1 DEF BookingOK
<1>3. PICK b \in assignments' : b.truck = x /\ b.vehicle = a.vehicle
  <2> DEFINE After(e) == IF OrderOf[e.truck] = o
                           THEN Booking(e.truck, e.vehicle, e.driver, "cancelled")
                           ELSE e
  <2>1. assignments' = {After(e) : e \in assignments}
    BY DEF CancelOrder
  <2>2. After(a) \in assignments'
    BY <2>1
  <2>3. After(a).truck = x /\ After(a).vehicle = a.vehicle
    BY <1>2 DEF Booking
  <2> QED
    BY <2>2, <2>3
<1>4. \A d, e \in assignments : d.truck = e.truck => d = e
  BY <1>1 DEF BookingOK
<1>5. \A d, e \in assignments' : d.truck = e.truck => d = e
  BY <1>1 DEF BookingOK
<1>6. (CHOOSE e \in assignments : e.truck = a.truck) = a
  BY <1>4, OnlyBooking
<1>7. (CHOOSE e \in assignments' : e.truck = b.truck) = b
  BY <1>5, OnlyBooking
<1> QED
  BY <1>2, <1>3, <1>6, <1>7 DEF Claimant

LEMMA StepIsClaimStep == Base /\ Books /\ [Next]_vars => [Claims!ClaimNext]_C
<1> SUFFICES ASSUME Base, Books, [Next]_vars PROVE [Claims!ClaimNext]_C
  OBVIOUS
<1> USE TruckHoldAssumption
<1>1. ASSUME NEW w \in Workers, Claim(w)
      PROVE  Claims!ClaimNext
  <2> DEFINE t == call[w].transporter
  <2>1. t \in Transporters
    BY <1>1 DEF Claim, Base, CallOK, Procs
  <2>2. PICK S \in SUBSET Searching(call[w].order) :
          truck' = [x \in Trucks |-> IF x \in S THEN [status |-> "held", heldBy |-> t]
                                                ELSE truck[x]]
    BY <1>1 DEF Claim
  <2>3. S \in SUBSET Trucks /\ \A x \in S : truck[x].status = "searching"
    BY DEF Searching, TrucksOf
  <2>4. \A x \in S : C[x] = [state |-> "open", by |-> None]
    BY <2>3 DEF C, ClaimOf
  <2>5. \A x \in S : C'[x] = [state |-> "held", by |-> t]
    BY <2>2, <2>3 DEF C, ClaimOf
  <2>6. \A x \in Trucks \ S : C'[x] = C[x]
    BY <1>1, <2>2, ClaimKept DEF Claim, Claimant
  <2>7. Claims!Hold(t, S)
    BY <2>3, <2>4, <2>5, <2>6 DEF Claims!Hold, Claims!InState, Claims!Become, C
  <2> QED
    BY <2>1, <2>3, <2>7 DEF Claims!ClaimNext
<1>2. ASSUME NEW w \in Workers, Confirm(w)
      PROVE  Claims!ClaimNext
  <2>1. PICK h \in Holds, t \in Transporters, S \in SUBSET Trucks :
          /\ h = call[w].hold /\ t = ledger[h].transporter /\ S = ledger[h].trucks
          /\ S \subseteq HeldBy(t)
    BY <1>2 DEF Confirm, Base, CallOK, LedgerOK, TypeOK, LedgerRow, Procs
  <2>2. \A x \in S : C[x] = [state |-> "held", by |-> t]
    BY <2>1 DEF C, ClaimOf, HeldBy
  <2>3. \A x \in S : C'[x] = [state |-> "booked", by |-> t]
    BY <1>2, <2>1, TruckMoves, ClaimantConfirm DEF C, ClaimOf
  <2>4. \A x \in Trucks \ S : C'[x] = C[x]
    BY <1>2, <2>1, TruckMoves, ClaimantConfirm, ClaimKept
  <2>5. Claims!Book(t, S)
    BY <2>1, <2>2, <2>3, <2>4 DEF Claims!Book, Claims!InState, Claims!Become, C
  <2> QED
    BY <2>1, <2>5 DEF Claims!ClaimNext
<1>3. ASSUME NEW p \in Procs, Release(p)
      PROVE  Claims!ClaimNext
  <2>1. PICK h \in Holds, t \in Transporters, S \in SUBSET Trucks :
          h = call[p].hold /\ t = ledger[h].transporter /\ S = OwnedBy(h)
    BY <1>3 DEF Release, Base, CallOK, LedgerOK, OwnedBy, HeldBy
  <2>2. PICK s \in {"searching", "cancelled", "expired"} : FreeTrucks(S, s)
    BY <1>3, <2>1 DEF Release
  <2>3. \A x \in S : truck[x].status = "held" /\ truck[x].heldBy = t
    BY <2>1 DEF OwnedBy, HeldBy
  <2>4. \A x \in S : C[x] = [state |-> "held", by |-> t]
    BY <2>1, <2>3 DEF C, ClaimOf
  <2>5. \A x \in Trucks \ S : C'[x] = C[x]
    <3>1. assignments' = assignments
      BY <1>3 DEF Release
    <3>2. \A x \in Trucks \ S : truck'[x] = truck[x]
      BY <2>2 DEF FreeTrucks
    <3> QED
      BY <3>1, <3>2, ClaimKept DEF Claimant
  <2>6. CASE s = "searching"
    <3>1. \A x \in S : C'[x] = [state |-> "open", by |-> None]
      BY <2>1, <2>2, <2>6 DEF C, ClaimOf, FreeTrucks
    <3>2. Claims!GiveBack(t, S)
      BY <2>1, <2>4, <2>5, <3>1 DEF Claims!GiveBack, Claims!InState, Claims!Become, C
    <3> QED
      BY <2>1, <3>2 DEF Claims!ClaimNext
  <2>7. CASE s # "searching"
    <3>1. \A x \in S : truck'[x].status \in {"cancelled", "expired"}
      BY <2>1, <2>2, <2>7 DEF FreeTrucks
    <3>2. \A x \in S : C'[x] = [state |-> "closed", by |-> None]
      BY <2>1, <3>1 DEF C, ClaimOf
    <3>3. \A x \in S : C[x].state \in {"open", "held"}
      BY <2>4
    <3>4. Claims!Close(S)
      BY <2>1, <2>5, <3>2, <3>3 DEF Claims!Close, Claims!Become, C
    <3> QED
      BY <2>1, <3>4 DEF Claims!ClaimNext
  <2> QED
    BY <2>6, <2>7
<1>4. ASSUME NEW o \in Orders, CancelOrder(o)
      PROVE  Claims!ClaimNext
  <2> DEFINE S == CancellableTrucks(o)
  <2>1. /\ S \in SUBSET Trucks
        /\ \A x \in S : OrderOf[x] = o /\ truck[x].status \in {"searching", "held"}
        /\ \A x \in Trucks \ S : ~(OrderOf[x] = o /\ truck[x].status \in {"searching", "held"})
    BY DEF CancellableTrucks, TrucksOf
  <2>2. \A x \in S : C[x].state \in {"open", "held"}
    BY <2>1 DEF C, ClaimOf
  <2>3. \A x \in S : C'[x] = [state |-> "closed", by |-> None]
    <3>1. \A x \in S : truck'[x].status = "cancelled"
      BY <1>4, <2>1, TruckMoves
    <3> QED
      BY <2>1, <3>1 DEF C, ClaimOf
  <2>4. \A x \in Trucks \ S : C'[x] = C[x]
    BY <1>4, <2>1, TruckMoves, ClaimantCancel, ClaimKept
  <2> HIDE DEF S
  <2>5. \A x \in Trucks : C'[x] = IF x \in S THEN [state |-> "closed", by |-> None] ELSE C[x]
    BY <2>3, <2>4
  <2>6. PICK R \in SUBSET Trucks : R = S
    BY <2>1
  <2>7. Claims!Close(R)
    BY <2>2, <2>5, <2>6 DEF Claims!Close, Claims!Become, C
  <2> QED
    BY <2>7 DEF Claims!ClaimNext
<1>5. CASE Quiet
  BY <1>5 DEF Quiet, C, ClaimOf, Claimant
<1> QED
  BY <1>1, <1>2, <1>3, <1>4, <1>5, Writers

LEMMA InitIsClaimInit == Init => Claims!ClaimInit
BY DEF Init, Claims!ClaimInit, ClaimOf

\* The hold service implements the claim contract.
THEOREM ClaimsImplemented == Spec => ImplementsClaims
<1>1. Init => Claims!ClaimInit
  BY InitIsClaimInit
<1>2. Base /\ Books /\ [Next]_vars => [Claims!ClaimNext]_[x \in Trucks |-> ClaimOf(x)]
  BY StepIsClaimStep DEF C
<1> QED
  BY <1>1, <1>2, BaseInit, BaseStep, BooksInit, BooksStep, PTL
  DEF Spec, ImplementsClaims, Claims!ClaimSpec

=============================================================================
