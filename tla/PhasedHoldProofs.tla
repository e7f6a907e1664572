-------------------------- MODULE PhasedHoldProofs --------------------------
(* Proofs about PhasedHold: its types, the limits of the flex phase, and what *)
(* no request, job, reconciliation or sweep may do to a hold.                 *)
EXTENDS PhasedHold, TLAPS

-----------------------------------------------------------------------------
(* Types                                                                     *)

LEMMA DoingType ==
  ASSUME NEW s \in Stage, NEW h \in Holds \union {None}, NEW p \in Phases,
         NEW t \in Nat, NEW n \in Nat
  PROVE  Doing(s, h, p, t, n) \in Call
BY DEF Doing, Call

LEMMA OnType ==
  ASSUME NEW s \in Stage, NEW h \in Holds \union {None}
  PROVE  On(s, h) \in Call
BY DoingType DEF On, Phases

LEMMA IdleType == Idle \in Call
BY OnType DEF Idle, Stage

LEMMA JobType ==
  /\ NoJob \in [state: {"none", "queued", "running"}, at: Nat]
  /\ \A s \in {"none", "queued", "running"}, t \in Nat :
       [state |-> s, at |-> t] \in [state: {"none", "queued", "running"}, at: Nat]
BY DEF NoJob

LEMMA TypeInit == Init => TypeOK
<1> SUFFICES ASSUME Init PROVE TypeOK
  OBVIOUS
<1>1. call \in [Procs -> Call]
  BY IdleType DEF Init
<1>2. jobs \in [Holds \X Phases -> [state: {"none", "queued", "running"}, at: Nat]]
  BY JobType DEF Init
<1> QED
  BY <1>1, <1>2, PhasedHoldAssumption DEF Init, TypeOK, Status, Phases, Closer, Closing

LEMMA CreateTypes ==
  ASSUME TypeOK, NEW w \in Workers, BeginCreate(w) \/ Create(w) \/ Schedule(w) \/ Extend(w)
  PROVE  TypeOK'
<1> USE PhasedHoldAssumption DEF Procs, orderVars, row, clocks, Become, TypeOK
<1>1. CASE BeginCreate(w)
  <2> DEFINE left == orderExpires - now
             span == IF left > 0 THEN Least(Base, left) ELSE Base
  <2>1. span \in Nat
    BY <1>1 DEF BeginCreate, Least
  <2>2. Doing("create", None, "flex", now + span, now) \in Call
    BY <2>1, DoingType DEF Stage, Phases
  <2> QED
    BY <1>1, <2>2 DEF BeginCreate
<1>2. CASE Create(w)
  <2>1. PICK h \in Holds :
          /\ status' = [status EXCEPT ![h] = "active"]
          /\ created' = [created EXCEPT ![h] = call[w].count]
          /\ flexExpires' = [flexExpires EXCEPT ![h] = call[w].at]
          /\ expires' = [expires EXCEPT ![h] = call[w].at]
          /\ call' = [call EXCEPT ![w] = Doing("schedule", h, "flex", call[w].at, 0)]
    BY <1>2 DEF Create
  <2>2. call[w].at \in Nat /\ call[w].count \in Nat
    BY DEF Call
  <2>3. Doing("schedule", h, "flex", call[w].at, 0) \in Call
    BY <2>2, DoingType DEF Stage, Phases
  <2> QED
    BY <1>2, <2>1, <2>2, <2>3 DEF Create, Status
<1>3. CASE Schedule(w)
  <2>1. call[w].at \in Nat
    BY DEF Call
  <2>2. [state |-> "queued", at |-> call[w].at] \in [state: {"none", "queued", "running"}, at: Nat]
    BY <2>1, JobType
  <2> QED
    BY <1>3, <2>2, IdleType DEF Schedule
<1>4. CASE Extend(w)
  <2>1. call[w].at \in Nat /\ call[w].count \in Nat
    BY DEF Call
  <2> QED
    BY <1>4, <2>1, IdleType DEF Extend
<1> QED
  BY <1>1, <1>2, <1>3, <1>4

LEMMA HandlerTypes ==
  ASSUME TypeOK, NEW w \in Workers, NEW h \in Holds,
         BeginExtend(w, h) \/ Initialize(w, h) \/ BeginRelease(w, h)
  PROVE  TypeOK'
<1> USE PhasedHoldAssumption DEF Procs, orderVars, row, clocks, Become, TypeOK
<1>1. CASE BeginExtend(w, h)
  <2>1. NewExpiry(h) \in Nat /\ extended[h] + 1 \in Nat
    BY DEF NewExpiry, Least
  <2>2. Doing("extend", h, "flex", NewExpiry(h), extended[h] + 1) \in Call
    BY <2>1, DoingType DEF Stage, Phases
  <2> QED
    BY <1>1, <2>2 DEF BeginExtend
<1>2. CASE Initialize(w, h)
  <2>1. now + ConfirmedFor \in Nat
    OBVIOUS
  <2>2. Doing("schedule", h, "confirmed", now + ConfirmedFor, 0) \in Call
    BY <2>1, DoingType DEF Stage, Phases
  <2> QED
    BY <1>2, <2>1, <2>2 DEF Initialize, Status, Phases
<1>3. CASE BeginRelease(w, h)
  BY <1>3, OnType DEF BeginRelease, Stage
<1> QED
  BY <1>1, <1>2, <1>3

LEMMA TypeStep == TypeOK /\ [Next]_vars => TypeOK'
<1> SUFFICES ASSUME TypeOK, [Next]_vars PROVE TypeOK'
  OBVIOUS
<1> USE PhasedHoldAssumption DEF Procs, orderVars, row, clocks, Become
<1>1. ASSUME NEW w \in Workers, Request(w) PROVE TypeOK'
  BY <1>1, CreateTypes, HandlerTypes DEF Request
<1>2. ASSUME NEW p \in Procs, Release(p) PROVE TypeOK'
  <2>1. On("mark", call[p].hold) \in Call
    BY OnType DEF TypeOK, Call, Stage
  <2> QED
    BY <1>2, <2>1, IdleType DEF Release, TypeOK, Status, Terminal
<1>3. ASSUME NEW p \in Procs, Abort(p) PROVE TypeOK'
  BY <1>3, IdleType DEF Abort, TypeOK
<1>4. ASSUME NEW h \in Holds, NEW p \in Phases, Job(h, p) PROVE TypeOK'
  <2>1. <<h, p>> \in Holds \X Phases /\ jobs[<<h, p>>].at \in Nat
    BY DEF TypeOK
  <2>2. status' \in [Holds -> Status]
    BY <1>4 DEF Job, JobRead, JobWrite, JobFails, ExpireRow, TypeOK, Status, Terminal
  <2>3. jobs' \in [Holds \X Phases -> [state: {"none", "queued", "running"}, at: Nat]]
    <3>1. CASE JobRead(h, p)
      BY <2>1, <3>1, JobType DEF JobRead, TypeOK
    <3>2. CASE JobWrite(h, p)
      BY <2>1, <3>2, JobType DEF JobWrite, TypeOK
    <3>3. CASE JobFails(h, p)
      BY <2>1, <3>3, JobType DEF JobFails, TypeOK
    <3> QED
      BY <1>4, <3>1, <3>2, <3>3 DEF Job
  <2> QED
    BY <1>4, <2>2, <2>3 DEF Job, JobRead, JobWrite, JobFails, TypeOK
<1>5. ASSUME Reconcile \/ Sweep PROVE TypeOK'
  <2>1. status' \in [Holds -> Status]
    BY <1>5 DEF Reconcile, Sweep, ReconcileFind, ReconcileRead, ReconcileWrite, SweepFind,
         SweepRead, SweepMark, ExpireRow, TypeOK, Status, Terminal
  <2>2. \A p \in Procs, s \in Stage : On(s, call[p].hold) \in Call
    BY OnType DEF TypeOK, Call
  <2>3. call' \in [Procs -> Call]
    BY <1>5, <2>2, OnType, IdleType
    DEF Reconcile, Sweep, ReconcileFind, ReconcileRead, ReconcileWrite, SweepFind,
        SweepRead, SweepMark, TypeOK, Stage
  <2> QED
    BY <1>5, <2>1, <2>3 DEF Reconcile, Sweep, ReconcileFind, ReconcileRead, ReconcileWrite,
       SweepFind, SweepRead, SweepMark, TypeOK
<1>6. ASSUME CancelOrder \/ Tick \/ UNCHANGED vars PROVE TypeOK'
  BY <1>6 DEF CancelOrder, Tick, vars, TypeOK, Status, Terminal
<1>7. ASSUME CloseOrder PROVE TypeOK'
  <2>1. closer' \in Closer
    BY <1>7 DEF CloseOrder, OrderDue, ExpireOrder, FindActive, CloseHold, CloserStops,
         Closer, Closing, TypeOK
  <2>2. status' \in [Holds -> Status]
    BY <1>7 DEF CloseOrder, OrderDue, ExpireOrder, FindActive, CloseHold, CloserStops,
         ExpireRow, TypeOK, Status, Terminal
  <2> QED
    BY <1>7, <2>1, <2>2 DEF CloseOrder, OrderDue, ExpireOrder, FindActive, CloseHold,
       CloserStops, TypeOK
<1> QED
  BY <1>1, <1>2, <1>3, <1>4, <1>5, <1>6, <1>7 DEF Next

\* Every reachable state of the two-phase hold is well typed.
THEOREM PhasedTypeCorrect == Spec => []TypeOK
BY TypeInit, TypeStep, PTL DEF Spec

-----------------------------------------------------------------------------
(* The inductive invariant                                                   *)

\* An active hold is in its flex phase and keeps one deadline; a flex deadline is
\* never before the base period's end, and extensions are counted from 0.
RowOK(h) ==
  /\ status[h] \in {"none", "active"} => phase[h] = "flex"
  /\ status[h] = "active" => expires[h] = flexExpires[h]
  /\ Created(h) => BaseExpiry(h) <= flexExpires[h]
  /\ ~Created(h) => extended[h] = 0

\* It is late enough to expire h: its base period or its confirmed phase is over.
Ended(h) == phase[h] = "confirmed" /\ now >= confirmedExpires[h]
Late(h) == now >= BaseExpiry(h) \/ Ended(h)

\* A queued job is due no sooner than the end of the base period, or of the
\* confirmed phase of a confirmed hold.
JobOK(h) ==
  /\ jobs[<<h, "flex">>].state # "none" => Created(h) /\ BaseExpiry(h) <= jobs[<<h, "flex">>].at
  /\ jobs[<<h, "flex">>].state = "running" => Late(h)
  /\ jobs[<<h, "confirmed">>].state # "none" =>
       phase[h] = "confirmed" /\ confirmedExpires[h] <= jobs[<<h, "confirmed">>].at
  /\ jobs[<<h, "confirmed">>].state = "running" => Ended(h)

\* What a request, the reconciler or the sweep has read and not used yet.
CreateOK(c) ==
  /\ c.at <= c.count + MaxFlex
  /\ c.count < orderExpires => c.at <= orderExpires
  /\ Least(c.count + Base, orderExpires) <= c.at
ScheduleOK(c) == IF c.phase = "flex" THEN BaseExpiry(c.hold) <= c.at
                                     ELSE phase[c.hold] = "confirmed"
                                          /\ confirmedExpires[c.hold] <= c.at
ExtendOK(c) ==
  /\ BaseExpiry(c.hold) <= c.at /\ c.at <= created[c.hold] + MaxFlex
  /\ c.at <= orderExpires /\ c.count <= MaxExtensions
Waiting(p) == IF p = Sweeper THEN {"release"} ELSE {}
CallOK(p) ==
  LET c == call[p]
  IN /\ c.on \in Stage \ {"idle", "create"} => c.hold \in Holds /\ Created(c.hold)
     /\ c.on = "create" => CreateOK(c)
     /\ c.on = "schedule" => ScheduleOK(c)
     /\ c.on = "extend" => ExtendOK(c)
     /\ c.on \in {"read", "write", "mark"} \union Waiting(p) => Late(c.hold)

\* The order expires when it is due, and its expiry closes rows that are there.
CloserOK ==
  /\ orderStatus = "expired" \/ closer.on # "armed" => now >= orderExpires
  /\ closer.on = "armed" => closer.holds = {}
  /\ \A h \in closer.holds : Created(h)

\* The strengthening of FlexBounded and BaseHonoured that every step preserves.
PhasedInv ==
  /\ FlexBounded
  /\ CloserOK
  /\ \A h \in Holds : RowOK(h) /\ JobOK(h)
  /\ \A p \in Procs : CallOK(p)

LEMMA InvInit == Init => PhasedInv
<1> SUFFICES ASSUME Init PROVE PhasedInv
  OBVIOUS
<1>1. \A h \in Holds : ~Created(h) /\ phase[h] = "flex" /\ extended[h] = 0
  BY DEF Init, Created
<1>2. \A h \in Holds, p \in Phases : jobs[<<h, p>>] = NoJob
  BY DEF Init
<1>3. \A h \in Holds : JobOK(h)
  <2> TAKE h \in Holds
  <2>1. jobs[<<h, "flex">>].state = "none" /\ jobs[<<h, "confirmed">>].state = "none"
    BY <1>2 DEF NoJob, Phases
  <2> QED
    BY <2>1 DEF JobOK
<1>4. \A p \in Procs : call[p].on = "idle"
  BY DEF Init, Idle, On, Doing
<1>5. CloserOK
  BY DEF Init, CloserOK, Closing
<1> QED
  BY <1>1, <1>3, <1>4, <1>5 DEF PhasedInv, FlexBounded, RowOK, CallOK, Created, Waiting

\* A created row keeps its creation time, and a late hold stays late.
LEMMA Later ==
  ASSUME TypeOK, [Next]_vars, NEW h \in Holds, Created(h)
  PROVE  /\ Created(h)' /\ created'[h] = created[h]
         /\ orderExpires' = orderExpires
         /\ phase[h] = "confirmed" =>
              phase'[h] = "confirmed" /\ confirmedExpires'[h] = confirmedExpires[h]
         /\ BaseExpiry(h)' = BaseExpiry(h)
         /\ Ended(h) => Ended(h)'
         /\ Late(h) => Late(h)'
<1> USE DEF TypeOK
<1> DEFINE Kept == /\ orderExpires' = orderExpires /\ now' >= now
                   /\ Created(h)' /\ created'[h] = created[h]
                   /\ phase[h] = "confirmed" =>
                        phase'[h] = "confirmed" /\ confirmedExpires'[h] = confirmedExpires[h]
<1>k. Kept
  <2> USE DEF row, clocks, orderVars, Created
  <2>1. ASSUME NEW w \in Workers, Create(w) PROVE Kept
    BY <2>1 DEF Create
  <2>2. ASSUME NEW w \in Workers, NEW g \in Holds, Initialize(w, g) PROVE Kept
    BY <2>2 DEF Initialize
  <2>3. ASSUME NEW w \in Workers,
               BeginCreate(w) \/ Schedule(w) \/ Extend(w)
               \/ \E g \in Holds : BeginExtend(w, g) \/ BeginRelease(w, g)
        PROVE  Kept
    BY <2>3 DEF BeginCreate, Schedule, Extend, BeginExtend, BeginRelease
  <2>4. ASSUME NEW p \in Procs, Release(p) \/ Abort(p) PROVE Kept
    BY <2>4 DEF Release, Abort
  <2>5. ASSUME NEW g \in Holds, NEW p \in Phases, Job(g, p) PROVE Kept
    BY <2>5 DEF Job, JobRead, JobWrite, JobFails, ExpireRow
  <2>6. ASSUME Reconcile PROVE Kept
    BY <2>6 DEF Reconcile, ReconcileFind, ReconcileRead, ReconcileWrite, ExpireRow
  <2>7. ASSUME Sweep PROVE Kept
    BY <2>7 DEF Sweep, SweepFind, SweepRead, SweepMark, ExpireRow
  <2>8. ASSUME CancelOrder \/ Tick \/ UNCHANGED vars PROVE Kept
    BY <2>8 DEF CancelOrder, Tick, vars
  <2>9. ASSUME CloseOrder PROVE Kept
    <3>1. ASSUME NEW g \in Holds, CloseHold(g) PROVE Kept
      BY <3>1 DEF CloseHold, ExpireRow
    <3> QED
      BY <2>9, <3>1 DEF CloseOrder, OrderDue, ExpireOrder, FindActive, CloserStops
  <2> QED
    BY <2>1, <2>2, <2>3, <2>4, <2>5, <2>6, <2>7, <2>8, <2>9 DEF Next, Request
<1>1. orderExpires' = orderExpires /\ now' >= now
  BY <1>k
<1>2. Created(h)' /\ created'[h] = created[h]
  BY <1>k
<1>3. phase[h] = "confirmed" =>
        phase'[h] = "confirmed" /\ confirmedExpires'[h] = confirmedExpires[h]
  BY <1>k
<1>4. BaseExpiry(h)' = BaseExpiry(h)
  BY <1>1, <1>2 DEF BaseExpiry
<1>5. BaseExpiry(h) \in Nat
  BY PhasedHoldAssumption DEF BaseExpiry, Least
<1>6. now \in Nat /\ now' \in Int /\ confirmedExpires[h] \in Nat
  BY TypeStep
<1>7. Ended(h) => Ended(h)'
  BY <1>1, <1>3, <1>6 DEF Ended
<1>8. Late(h) => Late(h)'
  BY <1>1, <1>4, <1>5, <1>6, <1>7 DEF Late
<1> QED
  BY <1>1, <1>2, <1>3, <1>4, <1>7, <1>8

\* The steps that write the ledger row, apart from its status becoming terminal.
RowWritten(h) ==
  \/ \E w \in Workers : Create(w) /\ ~Created(h)
  \/ \E w \in Workers : Extend(w) /\ call[w].hold = h
  \/ \E w \in Workers : Initialize(w, h)

RowSame(h) ==
  /\ phase'[h] = phase[h] /\ created'[h] = created[h] /\ flexExpires'[h] = flexExpires[h]
  /\ extended'[h] = extended[h] /\ expires'[h] = expires[h]
  /\ confirmedExpires'[h] = confirmedExpires[h]
  /\ status'[h] \in {status[h]} \union Terminal
  /\ status[h] = "none" => status'[h] = "none"

LEMMA RowMoves ==
  ASSUME TypeOK, PhasedInv, [Next]_vars, NEW h \in Holds, ~RowWritten(h)
  PROVE  RowSame(h)
<1> USE DEF TypeOK, row, clocks, orderVars, RowSame
<1>1. ASSUME NEW w \in Workers, Create(w) PROVE RowSame(h)
  BY <1>1 DEF Create, RowWritten, Created
<1>2. ASSUME NEW w \in Workers, Extend(w) PROVE RowSame(h)
  BY <1>2 DEF Extend, RowWritten
<1>3. ASSUME NEW w \in Workers, NEW g \in Holds, Initialize(w, g) PROVE RowSame(h)
  BY <1>3 DEF Initialize, RowWritten
<1>4. ASSUME NEW p \in Procs, Release(p) PROVE RowSame(h)
  <2>1. call[p].hold \in Holds /\ Created(call[p].hold)
    BY <1>4 DEF Release, PhasedInv, CallOK, Stage
  <2> QED
    BY <1>4, <2>1 DEF Release, Created, Terminal
<1>5. ASSUME NEW g \in Holds, NEW p \in Phases, Job(g, p) PROVE RowSame(h)
  <2>1. jobs[<<g, p>>].state # "none" => Created(g)
    BY DEF PhasedInv, JobOK, RowOK, Phases, Created
  <2> QED
    BY <1>5, <2>1 DEF Job, JobRead, JobWrite, JobFails, ExpireRow, Created, Terminal
<1>6. ASSUME Reconcile PROVE RowSame(h)
  <2>1. Reconciler \in Procs
    BY DEF Procs
  <2>2. call[Reconciler].on = "write" => Created(call[Reconciler].hold)
    BY <2>1 DEF PhasedInv, CallOK, Stage
  <2> QED
    BY <1>6, <2>2 DEF Reconcile, ReconcileFind, ReconcileRead, ReconcileWrite, ExpireRow,
       Created, Terminal
<1>7. ASSUME Sweep PROVE RowSame(h)
  <2>1. Sweeper \in Procs
    BY DEF Procs
  <2>2. call[Sweeper].on = "mark" => Created(call[Sweeper].hold)
    BY <2>1 DEF PhasedInv, CallOK, Stage
  <2> QED
    BY <1>7, <2>2 DEF Sweep, SweepFind, SweepRead, SweepMark, ExpireRow, Created, Terminal
<1>8. ASSUME CancelOrder PROVE RowSame(h)
  BY <1>8 DEF CancelOrder, Terminal
<1>9. ASSUME CloseOrder PROVE RowSame(h)
  <2>1. \A g \in closer.holds : Created(g)
    BY DEF PhasedInv, CloserOK
  <2> QED
    BY <1>9, <2>1 DEF CloseOrder, OrderDue, ExpireOrder, FindActive, CloseHold, CloserStops,
       ExpireRow, Created, Terminal
<1> QED
  BY <1>1, <1>2, <1>3, <1>4, <1>5, <1>6, <1>7, <1>8, <1>9
  DEF Next, Request, BeginCreate, Schedule, BeginExtend, BeginRelease, Abort, Tick, vars

LEMMA RowStep ==
  ASSUME TypeOK, PhasedInv, [Next]_vars, NEW h \in Holds
  PROVE  RowOK(h)'
<1> USE PhasedHoldAssumption DEF TypeOK
<1>1. CASE RowSame(h) /\ Created(h)
  BY <1>1, Later DEF PhasedInv, RowOK, RowSame, Created, Terminal
<1>2. CASE RowSame(h) /\ ~Created(h)
  BY <1>2 DEF PhasedInv, RowOK, RowSame, Created
<1>3. ASSUME NEW w \in Workers, Create(w), ~Created(h) PROVE RowOK(h)'
  <2>1. w \in Procs /\ CreateOK(call[w])
    BY <1>3 DEF PhasedInv, CallOK, Create, Procs
  <2>2. phase'[h] = "flex" /\ orderExpires' = orderExpires
    BY <1>3 DEF Create, PhasedInv, RowOK, orderVars, Created
  <2>3. CASE status'[h] = "none"
    <3>1. extended'[h] = extended[h] /\ RowOK(h)
      BY <1>3 DEF Create, PhasedInv
    <3> QED
      BY <1>3, <2>2, <2>3, <3>1 DEF RowOK, Created
  <2>4. CASE status'[h] # "none"
    <3>1. /\ created'[h] = call[w].count
          /\ flexExpires'[h] = call[w].at /\ expires'[h] = call[w].at
      BY <1>3, <2>4 DEF Create, Created
    <3>2. call[w].count \in Nat /\ call[w].at \in Nat
      BY <2>1 DEF Call
    <3>3. BaseExpiry(h)' <= flexExpires'[h]
      BY <2>1, <2>2, <3>1, <3>2 DEF BaseExpiry, CreateOK, Least
    <3> QED
      BY <2>2, <2>4, <3>1, <3>3 DEF RowOK, Created
  <2> QED
    BY <2>3, <2>4
<1>4. ASSUME NEW w \in Workers, Extend(w), call[w].hold = h PROVE RowOK(h)'
  <2>1. ExtendOK(call[w]) /\ Created(h)
    BY <1>4 DEF PhasedInv, CallOK, Extend, Procs, Stage
  <2>2. /\ flexExpires'[h] = call[w].at /\ expires'[h] = call[w].at
        /\ status' = status /\ phase' = phase
    BY <1>4 DEF Extend
  <2>3. BaseExpiry(h) <= call[w].at /\ RowOK(h)
    BY <1>4, <2>1 DEF ExtendOK, PhasedInv
  <2>4. BaseExpiry(h)' <= flexExpires'[h]
    BY <2>1, <2>2, <2>3, Later
  <2> QED
    BY <2>1, <2>2, <2>3, <2>4 DEF RowOK, Created
<1>5. ASSUME NEW w \in Workers, Initialize(w, h) PROVE RowOK(h)'
  <2>1. Created(h)
    BY <1>5 DEF Initialize
  <2>2. status'[h] = "confirmed" /\ flexExpires' = flexExpires
    BY <1>5 DEF Initialize
  <2> QED
    BY <2>1, <2>2, Later DEF RowOK, PhasedInv
<1> QED
  BY <1>1, <1>2, <1>3, <1>4, <1>5, RowMoves DEF RowWritten

LEMMA FlexStep ==
  ASSUME TypeOK, PhasedInv, [Next]_vars
  PROVE  FlexBounded'
<1> USE PhasedHoldAssumption DEF TypeOK
<1> DEFINE Flex(h) ==
      /\ flexExpires[h] <= created[h] + MaxFlex
      /\ created[h] < orderExpires => flexExpires[h] <= orderExpires
      /\ extended[h] <= MaxExtensions
<1> SUFFICES ASSUME NEW h \in Holds, Created(h)' PROVE Flex(h)'
  BY DEF FlexBounded
<1>0. Created(h) => Flex(h)
  BY DEF PhasedInv, FlexBounded
<1>1. CASE RowSame(h)
  <2>1. Created(h)
    BY <1>1 DEF RowSame, Created
  <2> QED
    BY <1>0, <1>1, <2>1, Later DEF RowSame
<1>2. ASSUME NEW w \in Workers, Create(w), ~Created(h) PROVE Flex(h)'
  <2>1. w \in Procs /\ CreateOK(call[w]) /\ extended[h] = 0
    BY <1>2 DEF PhasedInv, CallOK, RowOK, Create, Procs
  <2>2. /\ created'[h] = call[w].count /\ flexExpires'[h] = call[w].at
        /\ extended'[h] = 0 /\ orderExpires' = orderExpires
    BY <1>2, <2>1 DEF Create, Created, orderVars
  <2> QED
    BY <2>1, <2>2 DEF CreateOK
<1>3. ASSUME NEW w \in Workers, Extend(w), call[w].hold = h PROVE Flex(h)'
  <2>1. ExtendOK(call[w]) /\ Created(h)
    BY <1>3 DEF PhasedInv, CallOK, Extend, Procs, Stage
  <2>2. flexExpires'[h] = call[w].at /\ extended'[h] = call[w].count
    BY <1>3 DEF Extend
  <2>3. /\ call[w].at <= created[h] + MaxFlex /\ call[w].at <= orderExpires
        /\ call[w].count <= MaxExtensions
    BY <1>3, <2>1 DEF ExtendOK
  <2> QED
    BY <2>1, <2>2, <2>3, Later
<1>4. ASSUME NEW w \in Workers, Initialize(w, h) PROVE Flex(h)'
  <2>1. Created(h) /\ flexExpires' = flexExpires /\ extended' = extended
    BY <1>4 DEF Initialize
  <2> QED
    BY <1>0, <2>1, Later
<1> QED
  BY <1>1, <1>2, <1>3, <1>4, RowMoves DEF RowWritten

LEMMA JobStep ==
  ASSUME TypeOK, PhasedInv, [Next]_vars, NEW h \in Holds
  PROVE  JobOK(h)'
<1> USE PhasedHoldAssumption DEF TypeOK, Phases
<1>0. JobOK(h) /\ RowOK(h)
  BY DEF PhasedInv
<1>1. CASE jobs'[<<h, "flex">>] = jobs[<<h, "flex">>]
           /\ jobs'[<<h, "confirmed">>] = jobs[<<h, "confirmed">>]
  <2>1. CASE Created(h)
    BY <1>0, <1>1, <2>1, Later DEF JobOK
  <2>2. CASE ~Created(h)
    BY <1>0, <1>1, <2>2 DEF JobOK, RowOK, Created
  <2> QED
    BY <2>1, <2>2
<1>2. ASSUME NEW w \in Workers, Schedule(w), call[w].hold = h PROVE JobOK(h)'
  <2>1. ScheduleOK(call[w]) /\ Created(h) /\ w \in Procs
    BY <1>2 DEF PhasedInv, CallOK, Schedule, Procs, Stage
  <2>2. jobs' = [jobs EXCEPT ![<<h, call[w].phase>>] = [state |-> "queued", at |-> call[w].at]]
    BY <1>2 DEF Schedule
  <2>3. CASE call[w].phase = "flex"
    <3>1. /\ jobs'[<<h, "flex">>].state = "queued" /\ jobs'[<<h, "flex">>].at = call[w].at
          /\ jobs'[<<h, "confirmed">>] = jobs[<<h, "confirmed">>]
      BY <2>2, <2>3
    <3>2. BaseExpiry(h)' <= call[w].at
      BY <1>2, <2>1, <2>3, Later DEF ScheduleOK
    <3> QED
      BY <1>0, <2>1, <3>1, <3>2, Later DEF JobOK
  <2>4. CASE call[w].phase = "confirmed"
    <3>1. jobs'[<<h, "flex">>] = jobs[<<h, "flex">>]
      BY <2>2, <2>4
    <3>2. phase'[h] = "confirmed" /\ confirmedExpires'[h] <= call[w].at
      BY <1>2, <2>1, <2>4, Later DEF ScheduleOK
    <3>3. /\ jobs'[<<h, "confirmed">>].state = "queued"
          /\ jobs'[<<h, "confirmed">>].at = call[w].at
      BY <2>2, <2>4
    <3> QED
      BY <1>0, <2>1, <3>1, <3>2, <3>3, Later DEF JobOK
  <2> QED
    BY <2>1, <2>3, <2>4 DEF Call
<1>3. ASSUME NEW p \in Phases, Job(h, p) PROVE JobOK(h)'
  <2>1. Created(h)
    BY <1>0, <1>3 DEF Job, JobRead, JobWrite, JobFails, JobOK, RowOK, Created
  <2>2. jobs'[<<h, p>>] = NoJob
        \/ /\ jobs'[<<h, p>>].at = jobs[<<h, p>>].at
           /\ jobs[<<h, p>>].state # "none"
           /\ jobs'[<<h, p>>].state = "running" => jobs[<<h, p>>].at <= now
    BY <1>3 DEF Job, JobRead, JobWrite, JobFails
  <2>3. \A q \in Phases \ {p} : jobs'[<<h, q>>] = jobs[<<h, q>>]
    BY <1>3 DEF Job, JobRead, JobWrite, JobFails
  <2>4. CASE p = "flex"
    <3>1. jobs[<<h, p>>].state # "none" => BaseExpiry(h) <= jobs[<<h, p>>].at
      BY <1>0, <2>4 DEF JobOK
    <3>2. BaseExpiry(h) \in Nat /\ jobs[<<h, p>>].at \in Nat
      BY DEF BaseExpiry, Least
    <3>3. jobs'[<<h, p>>].state = "running" => Late(h)
      BY <2>2, <3>1, <3>2 DEF Late, NoJob
    <3>4. jobs'[<<h, p>>].state # "none" => BaseExpiry(h)' <= jobs'[<<h, p>>].at
      BY <2>1, <2>2, <3>1, Later DEF NoJob
    <3> QED
      BY <1>0, <2>1, <2>3, <2>4, <3>3, <3>4, Later DEF JobOK
  <2>5. CASE p = "confirmed"
    <3>1. jobs[<<h, p>>].state # "none" =>
            phase[h] = "confirmed" /\ confirmedExpires[h] <= jobs[<<h, p>>].at
      BY <1>0, <2>5 DEF JobOK
    <3>2. jobs'[<<h, p>>].state = "running" => Ended(h)
      BY <2>2, <3>1 DEF Ended, NoJob
    <3>3. jobs'[<<h, p>>].state # "none" =>
            phase'[h] = "confirmed" /\ confirmedExpires'[h] <= jobs'[<<h, p>>].at
      BY <2>1, <2>2, <3>1, Later DEF NoJob
    <3> QED
      BY <1>0, <2>1, <2>3, <2>5, <3>2, <3>3, Later DEF JobOK
  <2> QED
    BY <2>4, <2>5
<1>4. ASSUME NEW w \in Workers, Schedule(w), call[w].hold # h PROVE JobOK(h)'
  BY <1>1, <1>4 DEF Schedule
<1>5. ASSUME NEW g \in Holds, NEW p \in Phases, Job(g, p), g # h PROVE JobOK(h)'
  BY <1>1, <1>5 DEF Job, JobRead, JobWrite, JobFails
<1>6. CASE UNCHANGED jobs
  BY <1>1, <1>6
<1>7. ASSUME NEW w \in Workers, Request(w), ~Schedule(w) PROVE UNCHANGED jobs
  BY <1>7 DEF Request, BeginCreate, Create, Extend, BeginExtend, Initialize, BeginRelease
<1>8. ASSUME NEW p \in Procs, Release(p) \/ Abort(p) PROVE UNCHANGED jobs
  BY <1>8 DEF Release, Abort
<1>9. ASSUME Reconcile \/ Sweep PROVE UNCHANGED jobs
  BY <1>9 DEF Reconcile, ReconcileFind, ReconcileRead, ReconcileWrite, Sweep, SweepFind,
     SweepRead, SweepMark
<1>10. ASSUME CancelOrder \/ CloseOrder \/ Tick \/ UNCHANGED vars PROVE UNCHANGED jobs
  BY <1>10 DEF CancelOrder, CloseOrder, OrderDue, ExpireOrder, FindActive, CloseHold,
     CloserStops, Tick, vars
<1>11. ASSUME NEW w \in Workers, Request(w) PROVE JobOK(h)'
  BY <1>2, <1>4, <1>6, <1>7, <1>11
<1>12. ASSUME NEW g \in Holds, NEW p \in Phases, Job(g, p) PROVE JobOK(h)'
  BY <1>3, <1>5, <1>12
<1> QED
  BY <1>6, <1>8, <1>9, <1>10, <1>11, <1>12 DEF Next

LEMMA CallIdle ==
  ASSUME NEW p \in Procs, call'[p] = Idle
  PROVE  CallOK(p)'
BY DEF CallOK, Idle, On, Doing, Waiting

\* A handler that has just read, found or released hold h.
LEMMA CallOnHold ==
  ASSUME NEW p \in Procs, NEW h \in Holds, NEW s \in {"read", "write", "mark", "release"},
         call'[p] = On(s, h), Created(h)', s # "release" \/ p = Sweeper => Late(h)'
  PROVE  CallOK(p)'
BY DEF CallOK, On, Doing, Waiting

\* What was read stays good whatever the others do.
LEMMA CallKept ==
  ASSUME TypeOK, PhasedInv, [Next]_vars, orderExpires' = orderExpires,
         NEW p \in Procs, call'[p] = call[p]
  PROVE  CallOK(p)'
<1> USE PhasedHoldAssumption DEF TypeOK
<1> DEFINE c == call[p]
<1>1. CallOK(p) /\ c \in Call /\ c' = c
  BY DEF PhasedInv
<1>2. CASE c.on \in {"idle", "create"}
  BY <1>1, <1>2 DEF CallOK, CreateOK, Waiting
<1>3. CASE c.on \in Stage \ {"idle", "create"}
  <2>1. c.hold \in Holds /\ Created(c.hold)
    BY <1>1, <1>3 DEF CallOK
  <2>2. PICK h \in Holds : h = c.hold
    BY <2>1
  <2>3. /\ Created(h)' /\ created'[h] = created[h] /\ BaseExpiry(h)' = BaseExpiry(h)
        /\ phase[h] = "confirmed" =>
             phase'[h] = "confirmed" /\ confirmedExpires'[h] = confirmedExpires[h]
        /\ Late(h) => Late(h)'
    BY <2>1, <2>2, Later
  <2>4. c.on = "schedule" => ScheduleOK(c)'
    <3>1. c.on = "schedule" => ScheduleOK(c)
      BY <1>1 DEF CallOK
    <3> QED
      BY <1>1, <2>2, <2>3, <3>1 DEF ScheduleOK
  <2>5. c.on = "extend" => ExtendOK(c)'
    <3>1. c.on = "extend" => ExtendOK(c)
      BY <1>1 DEF CallOK
    <3> QED
      BY <1>1, <2>2, <2>3, <3>1 DEF ExtendOK
  <2>6. c.on \in {"read", "write", "mark"} \union Waiting(p) => Late(h)'
    BY <1>1, <2>2, <2>3 DEF CallOK
  <2> QED
    BY <1>1, <1>3, <2>2, <2>3, <2>4, <2>5, <2>6 DEF CallOK, Waiting
<1> QED
  BY <1>1, <1>2, <1>3 DEF Call

LEMMA OrderSame == [Next]_vars => orderExpires' = orderExpires
<1> SUFFICES ASSUME [Next]_vars PROVE orderExpires' = orderExpires
  OBVIOUS
<1> USE DEF orderVars
<1>1. ASSUME NEW w \in Workers, Request(w) PROVE orderExpires' = orderExpires
  BY <1>1 DEF Request, BeginCreate, Create, Schedule, Extend, BeginExtend, Initialize,
     BeginRelease
<1>2. ASSUME NEW p \in Procs, Release(p) \/ Abort(p) PROVE orderExpires' = orderExpires
  BY <1>2 DEF Release, Abort
<1>3. ASSUME NEW h \in Holds, NEW p \in Phases, Job(h, p) PROVE orderExpires' = orderExpires
  BY <1>3 DEF Job, JobRead, JobWrite, JobFails
<1>4. ASSUME Reconcile \/ Sweep PROVE orderExpires' = orderExpires
  BY <1>4 DEF Reconcile, ReconcileFind, ReconcileRead, ReconcileWrite, Sweep, SweepFind,
     SweepRead, SweepMark
<1>5. ASSUME CancelOrder \/ CloseOrder \/ Tick \/ UNCHANGED vars
      PROVE  orderExpires' = orderExpires
  BY <1>5 DEF CancelOrder, CloseOrder, OrderDue, ExpireOrder, FindActive, CloseHold,
     CloserStops, Tick, vars
<1> QED
  BY <1>1, <1>2, <1>3, <1>4, <1>5 DEF Next

\* The requests, the release a request makes included.
LEMMA CallRequests ==
  ASSUME TypeOK, PhasedInv, [Next]_vars, NEW w \in Workers, Request(w)
  PROVE  CallOK(w)'
<1> USE PhasedHoldAssumption DEF TypeOK, Become
<1>0. w \in Procs /\ w # Sweeper /\ orderExpires' = orderExpires
  BY OrderSame DEF Procs
<1>1. CASE BeginCreate(w)
  <2> DEFINE left == orderExpires - now
             span == IF left > 0 THEN Least(Base, left) ELSE Base
             c == Doing("create", None, "flex", now + span, now)
  <2>1. call'[w] = c
    BY <1>0, <1>1 DEF BeginCreate
  <2>2. c.on = "create" /\ c.at = now + span /\ c.count = now
    BY DEF Doing
  <2>3. /\ now + span <= now + MaxFlex
        /\ now < orderExpires => now + span <= orderExpires
        /\ Least(now + Base, orderExpires) <= now + span
    BY DEF Least
  <2> HIDE DEF c, span
  <2>4. call'[w].at = now + span /\ call'[w].count = now /\ call'[w].on = "create"
    BY <2>1, <2>2
  <2>5. CreateOK(call[w])'
    BY <1>0, <2>3, <2>4 DEF CreateOK
  <2> QED
    BY <1>0, <2>4, <2>5 DEF CallOK, Waiting
<1>2. CASE Create(w)
  <2>1. PICK h \in Holds :
          /\ status' = [status EXCEPT ![h] = "active"]
          /\ flexExpires' = [flexExpires EXCEPT ![h] = call[w].at]
          /\ call' = [call EXCEPT ![w] = Doing("schedule", h, "flex", call[w].at, 0)]
    BY <1>2 DEF Create
  <2>2. RowOK(h)' /\ Created(h)'
    BY <2>1, RowStep DEF Created
  <2>3. /\ call'[w].on = "schedule" /\ call'[w].hold = h
        /\ call'[w].phase = "flex" /\ call'[w].at = flexExpires'[h]
    BY <1>0, <2>1 DEF Doing
  <2> QED
    BY <1>0, <2>2, <2>3 DEF CallOK, ScheduleOK, RowOK, Waiting
<1>3. CASE Schedule(w) \/ Extend(w)
  BY <1>0, <1>3, CallIdle DEF Schedule, Extend
<1>4. ASSUME NEW h \in Holds, BeginExtend(w, h) PROVE CallOK(w)'
  <2>1. /\ call'[w].on = "extend" /\ call'[w].hold = h
        /\ call'[w].at = NewExpiry(h) /\ call'[w].count = extended[h] + 1
    BY <1>0, <1>4 DEF BeginExtend, Doing
  <2>2. Created(h) /\ flexExpires[h] < NewExpiry(h) /\ extended[h] < MaxExtensions
    BY <1>4 DEF BeginExtend, NewExpiry, Least
  <2>3. NewExpiry(h) <= created[h] + MaxFlex /\ NewExpiry(h) <= orderExpires
        /\ NewExpiry(h) \in Nat
    BY DEF NewExpiry, Least
  <2>4. BaseExpiry(h) <= NewExpiry(h)
    <3>1. BaseExpiry(h) <= flexExpires[h] /\ BaseExpiry(h) \in Nat
      BY <2>2 DEF PhasedInv, RowOK, BaseExpiry, Least
    <3> QED
      BY <2>2, <2>3, <3>1
  <2>5. created'[h] = created[h] /\ BaseExpiry(h)' = BaseExpiry(h) /\ Created(h)'
    BY <2>2, Later
  <2>6. ExtendOK(call[w])'
    BY <1>0, <2>1, <2>2, <2>3, <2>4, <2>5 DEF ExtendOK
  <2> QED
    BY <1>0, <2>1, <2>5, <2>6 DEF CallOK, Waiting
<1>5. ASSUME NEW h \in Holds, Initialize(w, h) PROVE CallOK(w)'
  <2>1. /\ call'[w].on = "schedule" /\ call'[w].hold = h
        /\ call'[w].phase = "confirmed" /\ phase'[h] = "confirmed"
        /\ call'[w].at = confirmedExpires'[h] /\ confirmedExpires'[h] \in Nat
    BY <1>0, <1>5 DEF Initialize, Doing
  <2>2. Created(h)'
    BY <1>5, Later DEF Initialize
  <2> QED
    BY <1>0, <2>1, <2>2 DEF CallOK, ScheduleOK, Waiting
<1>6. ASSUME NEW h \in Holds, BeginRelease(w, h) PROVE CallOK(w)'
  <2>1. Created(h)
    BY <1>6 DEF BeginRelease, Created
  <2>2. call'[w] = On("release", h) /\ Created(h)'
    BY <1>0, <1>6, <2>1, Later DEF BeginRelease
  <2> QED
    BY <1>0, <2>2, CallOnHold
<1> QED
  BY <1>1, <1>2, <1>3, <1>4, <1>5, <1>6 DEF Request

LEMMA CallReconcile ==
  ASSUME TypeOK, PhasedInv, [Next]_vars, Reconcile
  PROVE  CallOK(Reconciler)'
<1> USE PhasedHoldAssumption DEF TypeOK, Become
<1>0. Reconciler \in Procs /\ Reconciler # Sweeper
  BY DEF Procs
<1>1. ASSUME NEW h \in Holds, ReconcileFind(h) PROVE CallOK(Reconciler)'
  <2>1. Created(h) /\ RowOK(h)
    BY <1>1 DEF ReconcileFind, Created, PhasedInv
  <2>2. BaseExpiry(h) \in Nat
    BY DEF BaseExpiry, Least
  <2>3. Late(h)
    BY <1>1, <2>1, <2>2 DEF ReconcileFind, RowOK, Late, Ended
  <2>4. call'[Reconciler] = On("read", h)
    BY <1>0, <1>1 DEF ReconcileFind
  <2> QED
    BY <1>0, <2>1, <2>3, <2>4, Later, CallOnHold
<1>2. CASE ReconcileRead
  <2>1. PICK h \in Holds : h = call[Reconciler].hold /\ Created(h) /\ Late(h)
    BY <1>0, <1>2 DEF ReconcileRead, PhasedInv, CallOK, Stage
  <2>2. call'[Reconciler] = On("write", h) \/ call'[Reconciler] = Idle
    BY <1>0, <1>2, <2>1 DEF ReconcileRead
  <2>3. Created(h)' /\ Late(h)'
    BY <2>1, Later
  <2> QED
    BY <1>0, <2>2, <2>3, CallOnHold, CallIdle
<1>3. CASE ReconcileWrite
  BY <1>0, <1>3, CallIdle DEF ReconcileWrite
<1> QED
  BY <1>1, <1>2, <1>3 DEF Reconcile

LEMMA CallSweep ==
  ASSUME TypeOK, PhasedInv, [Next]_vars, Sweep
  PROVE  CallOK(Sweeper)'
<1> USE PhasedHoldAssumption DEF TypeOK, Become
<1>0. Sweeper \in Procs
  BY DEF Procs
<1>1. ASSUME NEW h \in Holds, SweepFind(h) PROVE CallOK(Sweeper)'
  <2>1. Created(h) /\ RowOK(h)
    BY <1>1 DEF SweepFind, Created, PhasedInv
  <2>2. BaseExpiry(h) \in Nat
    BY DEF BaseExpiry, Least
  <2>3. Late(h)
    BY <1>1, <2>1, <2>2 DEF SweepFind, RowOK, Late
  <2>4. call'[Sweeper] = On("read", h)
    BY <1>0, <1>1 DEF SweepFind
  <2> QED
    BY <1>0, <2>1, <2>3, <2>4, Later, CallOnHold
<1>2. CASE SweepRead
  <2>1. PICK h \in Holds : h = call[Sweeper].hold /\ Created(h) /\ Late(h)
    BY <1>0, <1>2 DEF SweepRead, PhasedInv, CallOK, Stage
  <2>2. call'[Sweeper] = On("release", h) \/ call'[Sweeper] = On("mark", h)
    BY <1>0, <1>2, <2>1 DEF SweepRead
  <2>3. Created(h)' /\ Late(h)'
    BY <2>1, Later
  <2> QED
    BY <1>0, <2>2, <2>3, CallOnHold
<1>3. CASE SweepMark
  BY <1>0, <1>3, CallIdle DEF SweepMark
<1> QED
  BY <1>1, <1>2, <1>3 DEF Sweep

LEMMA CallRelease ==
  ASSUME TypeOK, PhasedInv, [Next]_vars, NEW p \in Procs, Release(p)
  PROVE  CallOK(p)'
<1> USE DEF TypeOK, Become
<1>1. PICK h \in Holds : /\ h = call[p].hold /\ Created(h)
                         /\ p = Sweeper => Late(h)
  BY DEF Release, PhasedInv, CallOK, Stage, Waiting
<1>2. CASE p = Sweeper
  <2>1. call'[p] = On("mark", h)
    BY <1>1, <1>2 DEF Release
  <2> QED
    BY <1>1, <1>2, <2>1, Later, CallOnHold
<1>3. CASE p # Sweeper
  BY <1>3, CallIdle DEF Release
<1> QED
  BY <1>2, <1>3

LEMMA CallStep ==
  ASSUME TypeOK, PhasedInv, [Next]_vars, NEW q \in Procs
  PROVE  CallOK(q)'
<1> USE DEF TypeOK, Become
<1>0. orderExpires' = orderExpires
  BY OrderSame
<1>1. ASSUME NEW w \in Workers, Request(w) PROVE CallOK(q)'
  <2>1. CASE q = w
    BY <1>1, <2>1, CallRequests
  <2>2. CASE q # w
    <3>1. call'[q] = call[q]
      BY <1>1, <2>2 DEF Request, BeginCreate, Create, Schedule, Extend, BeginExtend,
         Initialize, BeginRelease
    <3> QED
      BY <1>0, <3>1, CallKept
  <2> QED
    BY <2>1, <2>2
<1>2. ASSUME NEW p \in Procs, Release(p) PROVE CallOK(q)'
  <2>1. CASE q = p
    BY <1>2, <2>1, CallRelease
  <2>2. CASE q # p
    <3>1. call'[q] = call[q]
      BY <1>2, <2>2 DEF Release
    <3> QED
      BY <1>0, <3>1, CallKept
  <2> QED
    BY <2>1, <2>2
<1>3. ASSUME NEW p \in Procs, Abort(p) PROVE CallOK(q)'
  <2>1. call'[q] = Idle \/ call'[q] = call[q]
    BY <1>3 DEF Abort
  <2> QED
    BY <1>0, <2>1, CallIdle, CallKept
<1>4. ASSUME Reconcile PROVE CallOK(q)'
  <2>1. q = Reconciler \/ call'[q] = call[q]
    BY <1>4 DEF Reconcile, ReconcileFind, ReconcileRead, ReconcileWrite
  <2> QED
    BY <1>0, <1>4, <2>1, CallReconcile, CallKept
<1>5. ASSUME Sweep PROVE CallOK(q)'
  <2>1. q = Sweeper \/ call'[q] = call[q]
    BY <1>5 DEF Sweep, SweepFind, SweepRead, SweepMark
  <2> QED
    BY <1>0, <1>5, <2>1, CallSweep, CallKept
<1>6. ASSUME (\E h \in Holds, p \in Phases : Job(h, p)) \/ CancelOrder \/ CloseOrder
             \/ Tick \/ UNCHANGED vars
      PROVE  CallOK(q)'
  <2>1. call' = call
    BY <1>6 DEF Job, JobRead, JobWrite, JobFails, CancelOrder, CloseOrder, OrderDue,
       ExpireOrder, FindActive, CloseHold, CloserStops, Tick, vars
  <2> QED
    BY <1>0, <2>1, CallKept
<1> QED
  BY <1>1, <1>2, <1>3, <1>4, <1>5, <1>6 DEF Next

LEMMA CloserStep ==
  ASSUME TypeOK, PhasedInv, [Next]_vars
  PROVE  CloserOK'
<1> USE DEF TypeOK
<1>0. CloserOK /\ orderExpires' = orderExpires
  BY OrderSame DEF PhasedInv
<1>1. \A h \in Holds : Created(h) => Created(h)'
  BY Later
<1>2. CASE CloseOrder
  <2>1. now' = now
    BY <1>2 DEF CloseOrder, OrderDue, ExpireOrder, FindActive, CloseHold, CloserStops
  <2>2. orderStatus' = "expired" \/ closer'.on # "armed" => now >= orderExpires
    BY <1>0, <1>2 DEF CloseOrder, OrderDue, ExpireOrder, FindActive, CloseHold, CloserStops,
       CloserOK, Closing
  <2>3. closer'.on = "armed" => closer'.holds = {}
    BY <1>2 DEF CloseOrder, OrderDue, ExpireOrder, FindActive, CloseHold, CloserStops, Closing
  <2>4. closer'.holds \subseteq closer.holds \union {h \in Holds : Created(h)}
    BY <1>2 DEF CloseOrder, OrderDue, ExpireOrder, FindActive, CloseHold, CloserStops,
       Closing, Created
  <2>5. \A h \in closer'.holds : h \in Holds /\ Created(h)
    BY <1>0, <2>4 DEF CloserOK, Closer
  <2> QED
    BY <1>0, <1>1, <2>1, <2>2, <2>3, <2>5 DEF CloserOK
<1>3. CASE ~CloseOrder
  <2>1. /\ closer' = closer /\ now' >= now
        /\ orderStatus' = "expired" => orderStatus = "expired"
    <3> USE <1>3 DEF orderVars
    <3>1. ASSUME NEW w \in Workers, Request(w)
          PROVE  closer' = closer /\ now' = now /\ orderStatus' = orderStatus
      BY <3>1 DEF Request, BeginCreate, Create, Schedule, Extend, BeginExtend, Initialize,
         BeginRelease
    <3>2. ASSUME NEW p \in Procs, Release(p) \/ Abort(p)
          PROVE  closer' = closer /\ now' = now /\ orderStatus' = orderStatus
      BY <3>2 DEF Release, Abort
    <3>3. ASSUME NEW h \in Holds, NEW p \in Phases, Job(h, p)
          PROVE  closer' = closer /\ now' = now /\ orderStatus' = orderStatus
      BY <3>3 DEF Job, JobRead, JobWrite, JobFails
    <3>4. ASSUME Reconcile \/ Sweep
          PROVE  closer' = closer /\ now' = now /\ orderStatus' = orderStatus
      BY <3>4 DEF Reconcile, ReconcileFind, ReconcileRead, ReconcileWrite, Sweep, SweepFind,
         SweepRead, SweepMark
    <3>5. ASSUME CancelOrder \/ Tick \/ UNCHANGED vars
          PROVE  closer' = closer /\ now' >= now /\ (orderStatus' = "expired" => orderStatus = "expired")
      BY <3>5 DEF CancelOrder, Tick, vars
    <3> QED
      BY <3>1, <3>2, <3>3, <3>4, <3>5 DEF Next
  <2>2. now' \in Nat
    BY TypeStep
  <2>3. orderStatus' = "expired" \/ closer'.on # "armed" => now' >= orderExpires'
    BY <1>0, <2>1, <2>2 DEF CloserOK
  <2>4. \A h \in closer.holds : h \in Holds
    BY DEF Closer
  <2> QED
    BY <1>0, <1>1, <2>1, <2>3, <2>4 DEF CloserOK
<1> QED
  BY <1>2, <1>3

LEMMA InvStep == TypeOK /\ PhasedInv /\ [Next]_vars => PhasedInv'
<1> SUFFICES ASSUME TypeOK, PhasedInv, [Next]_vars PROVE PhasedInv'
  OBVIOUS
<1>1. \A h \in Holds : RowOK(h)'
  BY RowStep
<1>2. \A h \in Holds : JobOK(h)'
  BY JobStep
<1>3. \A p \in Procs : CallOK(p)'
  BY CallStep
<1> QED
  BY <1>1, <1>2, <1>3, FlexStep, CloserStep DEF PhasedInv

LEMMA PhasedInvariant == Spec => [](TypeOK /\ PhasedInv)
<1>1. Init => TypeOK /\ PhasedInv
  BY TypeInit, InvInit
<1>2. TypeOK /\ PhasedInv /\ [Next]_vars => (TypeOK /\ PhasedInv)'
  BY TypeStep, InvStep
<1> QED
  BY <1>1, <1>2, PTL DEF Spec

-----------------------------------------------------------------------------
(* What follows                                                              *)

\* However extensions race with each other and with everything that ends a hold,
\* the flex phase stays within its 130 s, its order and its extension count.
THEOREM FlexIsBounded == Spec => []FlexBounded
<1>1. PhasedInv => FlexBounded
  BY DEF PhasedInv
<1> QED
  BY <1>1, PhasedInvariant, PTL

LEMMA ConfirmedStep ==
  ASSUME TypeOK, PhasedInv, [Next]_vars, NEW h \in Holds, phase[h] = "confirmed"
  PROVE  /\ phase'[h] = "confirmed"
         /\ confirmedExpires'[h] = confirmedExpires[h]
         /\ status[h] \in Terminal => status'[h] \in Terminal
<1> USE DEF TypeOK
<1>1. CASE RowSame(h)
  BY <1>1 DEF RowSame
<1>2. ASSUME NEW w \in Workers, Create(w), ~Created(h) PROVE FALSE
  BY <1>2 DEF PhasedInv, RowOK, Created
<1>3. CASE \E w \in Workers : Extend(w)
  BY <1>3 DEF Extend
<1>4. ASSUME NEW w \in Workers, Initialize(w, h) PROVE FALSE
  BY <1>4 DEF Initialize
<1> QED
  BY <1>1, <1>2, <1>3, <1>4, RowMoves DEF RowWritten

\* A hold that entered its CONFIRMED phase keeps it and its deadline, and is not
\* revived once it ended.
THEOREM ConfirmedIsFixed == Spec => ConfirmedFixed
<1>1. TypeOK /\ PhasedInv /\ [Next]_vars =>
        [\A h \in Holds : phase[h] = "confirmed" =>
           /\ phase'[h] = "confirmed"
           /\ confirmedExpires'[h] = confirmedExpires[h]
           /\ status[h] \in Terminal => status'[h] \in Terminal]_vars
  BY ConfirmedStep
<1> QED
  BY <1>1, PhasedInvariant, PTL DEF Spec, ConfirmedFixed

\* Whoever expires a hold does it when it is late enough.
LEMMA ExpiredLate ==
  ASSUME TypeOK, PhasedInv, [Next]_vars, NEW h \in Holds,
         status[h] # "expired", status'[h] = "expired"
  PROVE  Created(h) /\ Late(h)
<1> USE DEF TypeOK
<1>0. RowOK(h) /\ JobOK(h)
  BY DEF PhasedInv
<1>c. Created(h)
  BY RowMoves DEF RowWritten, RowSame, Create, Extend, Initialize, Created
<1>2. ASSUME NEW w \in Workers, Request(w) PROVE FALSE
  BY <1>2 DEF Request, BeginCreate, Create, Schedule, Extend, BeginExtend, Initialize,
     BeginRelease, row, Created
<1>b. BaseExpiry(h) <= orderExpires /\ BaseExpiry(h) \in Nat
  BY PhasedHoldAssumption DEF BaseExpiry, Least
<1>3. ASSUME NEW p \in Procs, Release(p) \/ Abort(p) PROVE Late(h)
  <2>1. orderStatus = "expired"
    BY <1>3 DEF Release, Abort, row
  <2> QED
    BY <1>b, <2>1 DEF PhasedInv, CloserOK, Late
<1>4. ASSUME NEW g \in Holds, NEW p \in Phases, Job(g, p) PROVE Late(h)
  <2>1. g = h /\ jobs[<<h, p>>].state = "running"
    BY <1>4 DEF Job, JobRead, JobWrite, JobFails, ExpireRow, row
  <2> QED
    BY <1>0, <2>1 DEF JobOK, Phases, Late
<1>5. ASSUME Reconcile PROVE Late(h)
  <2>1. call[Reconciler].on = "write" /\ call[Reconciler].hold = h
    BY <1>5 DEF Reconcile, ReconcileFind, ReconcileRead, ReconcileWrite, ExpireRow, row
  <2> QED
    BY <2>1 DEF PhasedInv, CallOK, Procs
<1>6. ASSUME Sweep PROVE Late(h)
  <2>1. call[Sweeper].on = "mark" /\ call[Sweeper].hold = h
    BY <1>6 DEF Sweep, SweepFind, SweepRead, SweepMark, ExpireRow, row
  <2> QED
    BY <2>1 DEF PhasedInv, CallOK, Procs
<1>7. ASSUME CancelOrder \/ Tick \/ UNCHANGED vars PROVE FALSE
  BY <1>7 DEF CancelOrder, Tick, vars, row
<1>8. ASSUME CloseOrder PROVE Late(h)
  <2>1. closer.on # "armed"
    <3>1. closer.holds # {}
      BY <1>8 DEF CloseOrder, OrderDue, ExpireOrder, FindActive, CloseHold, CloserStops, row
    <3> QED
      BY <3>1 DEF PhasedInv, CloserOK
  <2> QED
    BY <1>b, <2>1 DEF PhasedInv, CloserOK, Late
<1> QED
  BY <1>c, <1>2, <1>3, <1>4, <1>5, <1>6, <1>7, <1>8 DEF Next

LEMMA BaseStep ==
  ASSUME TypeOK, PhasedInv, [Next]_vars, NEW h \in Holds,
         status[h] = "active", status'[h] = "expired"
  PROVE  now >= BaseExpiry(h)
<1>1. phase[h] = "flex"
  BY DEF PhasedInv, RowOK
<1> QED
  BY <1>1, ExpiredLate DEF Late, Ended

\* An active hold is never expired within its base period, cut short by the end of
\* its order, whichever of job, reconciler, sweep, release and order expiry gets to
\* it and however long ago that one read it.
THEOREM BaseIsHonoured == Spec => BaseHonoured
<1>1. TypeOK /\ PhasedInv /\ [Next]_vars =>
        [\A h \in Holds :
           status[h] = "active" /\ status'[h] = "expired" => now >= BaseExpiry(h)]_vars
  BY BaseStep
<1> QED
  BY <1>1, PhasedInvariant, PTL DEF Spec, BaseHonoured

-----------------------------------------------------------------------------
(* The times of a hold: HoldTimes is implemented                             *)

Stages == [h \in Holds |-> StageOf(h)]
Bases == [h \in Holds |-> BaseOf(h)]
Limits == [h \in Holds |-> LimitOf(h)]
Deadlines == [h \in Holds |-> DeadlineOf(h)]
Ends == [h \in Holds |-> EndOf(h)]

\* The step changes none of the hold's times.
Still(h) ==
  /\ StageOf(h)' = StageOf(h) /\ BaseOf(h)' = BaseOf(h)
  /\ LimitOf(h)' = LimitOf(h) /\ DeadlineOf(h)' = DeadlineOf(h)

LEMMA LimitKept ==
  ASSUME TypeOK, [Next]_vars, NEW h \in Holds, Created(h)
  PROVE  FlexLimit(h)' = FlexLimit(h)
BY Later DEF FlexLimit

LEMMA StillMoves ==
  ASSUME TypeOK, PhasedInv, [Next]_vars, NEW h \in Holds, ~RowWritten(h)
  PROVE  Still(h)
<1>1. RowSame(h)
  BY RowMoves
<1>2. CASE Created(h)
  <2>1. BaseExpiry(h)' = BaseExpiry(h) /\ FlexLimit(h)' = FlexLimit(h) /\ Created(h)'
    BY <1>2, LimitKept, Later
  <2> QED
    BY <1>1, <1>2, <2>1 DEF Still, StageOf, BaseOf, LimitOf, DeadlineOf, RowSame
<1>3. CASE ~Created(h)
  <2>1. ~Created(h)'
    BY <1>1, <1>3 DEF RowSame, Created
  <2> QED
    BY <1>3, <2>1 DEF Still, StageOf, BaseOf, LimitOf, DeadlineOf
<1> QED
  BY <1>2, <1>3

LEMMA AllStill ==
  ASSUME \A h \in Holds : Still(h)
  PROVE  UNCHANGED <<Stages, Bases, Limits, Deadlines>>
BY DEF Still, Stages, Bases, Limits, Deadlines

\* Only this row is written: the times of the others stand.
LEMMA OthersStill ==
  ASSUME NEW h \in Holds, NEW g \in Holds, g # h, orderExpires' = orderExpires,
         status'[g] = status[g], phase'[g] = phase[g], created'[g] = created[g],
         flexExpires'[g] = flexExpires[g], confirmedExpires'[g] = confirmedExpires[g]
  PROVE  Still(g) /\ EndOf(g)' = EndOf(g)
BY DEF Still, StageOf, BaseOf, LimitOf, DeadlineOf, EndOf, Created, BaseExpiry, FlexLimit

LEMMA FlexInBounds ==
  ASSUME TypeOK, PhasedInv, [Next]_vars, NEW h \in Holds, Created(h)', phase'[h] = "flex"
  PROVE  BaseOf(h)' <= DeadlineOf(h)' /\ DeadlineOf(h)' <= LimitOf(h)'
<1>1. TypeOK' /\ PhasedInv'
  BY TypeStep, InvStep
<1>2. BaseExpiry(h)' <= flexExpires'[h]
  BY <1>1 DEF PhasedInv, RowOK
<1>3. flexExpires'[h] <= FlexLimit(h)'
  BY <1>1, PhasedHoldAssumption DEF PhasedInv, FlexBounded, FlexLimit, TypeOK, Least
<1> QED
  BY <1>2, <1>3 DEF BaseOf, DeadlineOf, LimitOf

LEMMA CreateTimed ==
  ASSUME TypeOK, PhasedInv, [Next]_vars, NEW w \in Workers, Create(w)
  PROVE  \E h \in Holds : Times!Create(h)
<1> USE DEF TypeOK
<1>1. PICK h \in Holds :
        /\ ~Created(h)
        /\ status' = [status EXCEPT ![h] = "active"]
        /\ created' = [created EXCEPT ![h] = call[w].count]
        /\ flexExpires' = [flexExpires EXCEPT ![h] = call[w].at]
  BY DEF Create
<1>2. now' = now /\ phase' = phase /\ confirmedExpires' = confirmedExpires
  BY DEF Create
<1>3. \A g \in Holds \ {h} : Still(g) /\ EndOf(g)' = EndOf(g)
  BY <1>1, <1>2, OrderSame, OthersStill
<1>4. Created(h)' /\ phase[h] = "flex" /\ status[h] = "none" /\ status'[h] = "active"
  BY <1>1 DEF PhasedInv, RowOK, Created
<1>5. StageOf(h) = "none" /\ StageOf(h)' = "flex" /\ EndOf(h)' = EndOf(h)
  BY <1>1, <1>2, <1>4 DEF StageOf, EndOf, Terminal
<1>6. BaseOf(h)' <= DeadlineOf(h)' /\ DeadlineOf(h)' <= LimitOf(h)'
  BY <1>2, <1>4, FlexInBounds
<1>7. Times!Create(h)
  <2>1. Stages[h] = "none" /\ Stages' = [Stages EXCEPT ![h] = "flex"] /\ Ends' = Ends
    BY <1>3, <1>5 DEF Stages, Ends, Still
  <2>2. Bases' = [Bases EXCEPT ![h] = Bases'[h]]
    BY <1>3 DEF Bases, Still
  <2>3. Limits' = [Limits EXCEPT ![h] = Limits'[h]]
    BY <1>3 DEF Limits, Still
  <2>4. Deadlines' = [Deadlines EXCEPT ![h] = Deadlines'[h]]
    BY <1>3 DEF Deadlines, Still
  <2>5. Bases'[h] <= Deadlines'[h] /\ Deadlines'[h] <= Limits'[h]
    BY <1>6 DEF Bases, Limits, Deadlines
  <2> QED
    BY <1>2, <2>1, <2>2, <2>3, <2>4, <2>5
    DEF Times!Create, Times!InBounds, Stages, Bases, Limits, Deadlines, Ends
<1> QED
  BY <1>7

LEMMA ExtendTimed ==
  ASSUME TypeOK, PhasedInv, [Next]_vars, NEW w \in Workers, Extend(w)
  PROVE  \/ \E h \in Holds : Times!Extend(h)
         \/ UNCHANGED <<now, Stages, Bases, Limits, Deadlines, Ends>>
<1> USE DEF TypeOK
<1>1. PICK h \in Holds : h = call[w].hold /\ Created(h)
  BY DEF Extend, PhasedInv, CallOK, Procs, Stage
<1>2. /\ now' = now /\ status' = status /\ phase' = phase /\ created' = created
      /\ confirmedExpires' = confirmedExpires
      /\ flexExpires' = [flexExpires EXCEPT ![h] = call[w].at]
  BY <1>1 DEF Extend
<1>3. \A g \in Holds \ {h} : Still(g)
  BY <1>2, OrderSame, OthersStill
<1>4. StageOf(h)' = StageOf(h) /\ BaseOf(h)' = BaseOf(h) /\ LimitOf(h)' = LimitOf(h)
  <2>1. BaseExpiry(h)' = BaseExpiry(h) /\ FlexLimit(h)' = FlexLimit(h) /\ Created(h)'
    BY <1>1, LimitKept, Later
  <2> QED
    BY <1>1, <1>2, <2>1 DEF StageOf, BaseOf, LimitOf
<1>5. Ends' = Ends
  BY <1>2 DEF Ends, EndOf
<1>6. CASE phase[h] # "flex"
  <2>1. Still(h)
    BY <1>1, <1>2, <1>4, <1>6 DEF Still, DeadlineOf, Created
  <2> QED
    BY <1>2, <1>3, <1>5, <2>1, AllStill
<1>7. CASE phase[h] = "flex"
  <2>1. BaseOf(h)' <= DeadlineOf(h)' /\ DeadlineOf(h)' <= LimitOf(h)'
    BY <1>1, <1>2, <1>7, Later, FlexInBounds
  <2>2. Stages[h] = "flex" /\ UNCHANGED <<Stages, Bases, Limits>>
    BY <1>1, <1>3, <1>4, <1>7 DEF Stages, Bases, Limits, Still, StageOf
  <2>3. Deadlines' = [Deadlines EXCEPT ![h] = Deadlines'[h]]
    BY <1>3 DEF Deadlines, Still
  <2>4. Bases'[h] <= Deadlines'[h] /\ Deadlines'[h] <= Limits'[h]
    BY <2>1 DEF Bases, Limits, Deadlines
  <2>5. Times!Extend(h)
    BY <1>2, <1>5, <2>2, <2>3, <2>4
    DEF Times!Extend, Times!InBounds, Stages, Bases, Limits, Deadlines, Ends
  <2> QED
    BY <2>5
<1> QED
  BY <1>6, <1>7

LEMMA InitializeTimed ==
  ASSUME TypeOK, PhasedInv, [Next]_vars, NEW w \in Workers, NEW h \in Holds,
         Initialize(w, h)
  PROVE  Times!Confirm(h)
<1> USE DEF TypeOK
<1>1. /\ Created(h) /\ phase[h] = "flex" /\ now' = now
      /\ phase' = [phase EXCEPT ![h] = "confirmed"]
      /\ status' = [status EXCEPT ![h] = "confirmed"]
      /\ confirmedExpires' = [confirmedExpires EXCEPT ![h] = now + ConfirmedFor]
      /\ created' = created /\ flexExpires' = flexExpires
  BY DEF Initialize
<1>2. \A g \in Holds \ {h} : Still(g) /\ EndOf(g)' = EndOf(g)
  BY <1>1, OrderSame, OthersStill
<1>3. BaseOf(h)' = BaseOf(h) /\ LimitOf(h)' = LimitOf(h)
  <2>1. BaseExpiry(h)' = BaseExpiry(h) /\ FlexLimit(h)' = FlexLimit(h) /\ Created(h)'
    BY <1>1, LimitKept, Later
  <2> QED
    BY <1>1, <2>1 DEF BaseOf, LimitOf
<1>4. /\ StageOf(h) = "flex" /\ StageOf(h)' = "confirmed"
      /\ DeadlineOf(h)' = now + ConfirmedFor /\ EndOf(h)' = "open"
  BY <1>1 DEF StageOf, DeadlineOf, EndOf, Created, Terminal
<1>5. Stages[h] = "flex" /\ Stages' = [Stages EXCEPT ![h] = "confirmed"]
  BY <1>2, <1>4 DEF Stages, Still
<1>6. Deadlines' = [Deadlines EXCEPT ![h] = now + ConfirmedFor]
  BY <1>2, <1>4 DEF Deadlines, Still
<1>7. Ends' = [Ends EXCEPT ![h] = "open"]
  BY <1>2, <1>4 DEF Ends
<1>8. UNCHANGED <<Bases, Limits>>
  BY <1>2, <1>3 DEF Bases, Limits, Still
<1> QED
  BY <1>1, <1>5, <1>6, <1>7, <1>8 DEF Times!Confirm, Stages, Bases, Limits, Deadlines, Ends

\* Only statuses are written, and no row is created.
LEMMA StatusStill ==
  ASSUME TypeOK, UNCHANGED <<orderExpires, phase, clocks>>, NEW h \in Holds,
         status'[h] = "none" <=> status[h] = "none"
  PROVE  Still(h)
BY DEF clocks, Still, StageOf, BaseOf, LimitOf, DeadlineOf, Created, BaseExpiry, FlexLimit

LEMMA ExpireTimed ==
  ASSUME TypeOK, PhasedInv, [Next]_vars, NEW h \in Holds, Created(h), ExpireRow(h),
         UNCHANGED <<now, phase, clocks>>
  PROVE  Times!Expire(h) \/ UNCHANGED <<now, Stages, Bases, Limits, Deadlines, Ends>>
<1> USE DEF TypeOK
<1>1. \A g \in Holds : Still(g)
  BY OrderSame, StatusStill DEF ExpireRow, Created
<1>2. UNCHANGED <<Stages, Bases, Limits, Deadlines>>
  BY <1>1, AllStill
<1>3. CASE status[h] = "expired"
  <2>1. status' = status
    BY <1>3 DEF ExpireRow
  <2>2. Ends' = Ends
    BY <2>1 DEF Ends, EndOf
  <2> QED
    BY <1>2, <2>2
<1>4. CASE status[h] # "expired"
  <2>1. Late(h)
    BY <1>4, ExpiredLate DEF ExpireRow
  <2>2. Stages[h] # "none" /\ Bases[h] = BaseExpiry(h)
    BY DEF Stages, Bases, StageOf, BaseOf, Phases
  <2>3. now >= Bases[h] \/ (Stages[h] = "confirmed" /\ now >= Deadlines[h])
    BY <2>1, <2>2 DEF Late, Ended, Stages, StageOf, Deadlines, DeadlineOf
  <2>4. Ends' = [Ends EXCEPT ![h] = "expired"]
    BY DEF Ends, EndOf, ExpireRow
  <2>5. Times!Expire(h)
    BY <1>2, <2>2, <2>3, <2>4
    DEF Times!Expire, Times!Due, Stages, Bases, Limits, Deadlines, Ends
  <2> QED
    BY <2>5
<1> QED
  BY <1>3, <1>4

LEMMA ReleaseTimed ==
  ASSUME TypeOK, PhasedInv, [Next]_vars, NEW p \in Procs, Release(p)
  PROVE  \/ \E S \in SUBSET Holds : Times!GiveUp(S)
         \/ \E h \in Holds : Times!Expire(h)
         \/ UNCHANGED <<now, Stages, Bases, Limits, Deadlines, Ends>>
<1> USE DEF TypeOK
<1>1. PICK h \in Holds : h = call[p].hold /\ Created(h)
  BY DEF Release, PhasedInv, CallOK, Stage
<1>3. UNCHANGED <<now, phase, clocks>>
  BY DEF Release
<1>e. CASE ExpireRow(h)
  BY <1>1, <1>3, <1>e, ExpireTimed
<1>f. SUFFICES ASSUME ~ExpireRow(h) PROVE \E S \in SUBSET Holds : Times!GiveUp(S)
  BY <1>e
<1>2. PICK s \in {"released", "cancelled"} : status' = [status EXCEPT ![h] = s]
  BY <1>1, <1>f DEF Release, ExpireRow
<1>4. \A g \in Holds : Still(g)
  BY <1>1, <1>2, <1>3, OrderSame, StatusStill DEF Created
<1>5. Stages[h] # "none"
  BY <1>1 DEF Stages, StageOf, Phases
<1>6. Ends' = [g \in Holds |-> IF g \in {h} THEN "given up" ELSE Ends[g]]
  BY <1>2 DEF Ends, EndOf, Terminal
<1>7. Times!GiveUp({h})
  BY <1>3, <1>4, <1>5, <1>6, AllStill DEF Times!GiveUp, Stages, Bases, Limits, Deadlines, Ends
<1> QED
  BY <1>7

LEMMA CancelTimed ==
  ASSUME TypeOK, [Next]_vars, CancelOrder
  PROVE  \E S \in SUBSET Holds : Times!GiveUp(S)
<1> USE DEF TypeOK
<1> DEFINE S == {h \in Holds : status[h] = "active"}
<1>1. /\ UNCHANGED <<now, phase, clocks>>
      /\ status' = [h \in Holds |-> IF status[h] = "active" THEN "cancelled" ELSE status[h]]
  BY DEF CancelOrder
<1>2. \A g \in Holds : Still(g)
  BY <1>1, OrderSame, StatusStill
<1>3. \A g \in S : Stages[g] # "none"
  BY DEF Stages, StageOf, Phases, Created
<1>4. Ends' = [g \in Holds |-> IF g \in S THEN "given up" ELSE Ends[g]]
  BY <1>1 DEF Ends, EndOf, Terminal
<1>5. Times!GiveUp(S)
  BY <1>1, <1>2, <1>3, <1>4, AllStill DEF Times!GiveUp, Stages, Bases, Limits, Deadlines, Ends
<1> QED
  BY <1>5

\* A step that writes no row: time passes, or nothing does.
LEMMA QuietTimed ==
  ASSUME TypeOK, [Next]_vars, UNCHANGED row, now' = now \/ now' = now + 1
  PROVE  Times!Pass \/ UNCHANGED <<now, Stages, Bases, Limits, Deadlines, Ends>>
<1> USE DEF TypeOK
<1>1. \A g \in Holds : Still(g) /\ EndOf(g)' = EndOf(g)
  BY OrderSame, StatusStill DEF row, EndOf
<1>2. UNCHANGED <<Stages, Bases, Limits, Deadlines, Ends>>
  BY <1>1, AllStill DEF Ends
<1>3. now' = now \/ now' > now
  OBVIOUS
<1> QED
  BY <1>2, <1>3 DEF Times!Pass, Stages, Bases, Limits, Deadlines, Ends

LEMMA TimesStep ==
  ASSUME TypeOK, PhasedInv, [Next]_vars
  PROVE  [Times!TimeNext]_<<now, Stages, Bases, Limits, Deadlines, Ends>>
<1> USE DEF TypeOK
<1> DEFINE Timed == [Times!TimeNext]_<<now, Stages, Bases, Limits, Deadlines, Ends>>
<1>q. UNCHANGED row /\ (now' = now \/ now' = now + 1) => Timed
  BY QuietTimed DEF Times!TimeNext
<1>e. \A h \in Holds :
        Created(h) /\ ExpireRow(h) /\ UNCHANGED <<now, phase, clocks>> => Timed
  BY ExpireTimed DEF Times!TimeNext
<1>1. ASSUME NEW w \in Workers, Request(w) PROVE Timed
  <2>1. CASE Create(w)
    BY <2>1, CreateTimed DEF Times!TimeNext
  <2>2. CASE Extend(w)
    BY <2>2, ExtendTimed DEF Times!TimeNext
  <2>3. ASSUME NEW h \in Holds, Initialize(w, h) PROVE Timed
    BY <2>3, InitializeTimed DEF Times!TimeNext
  <2>4. CASE BeginCreate(w) \/ Schedule(w)
             \/ \E h \in Holds : BeginExtend(w, h) \/ BeginRelease(w, h)
    BY <1>q, <2>4 DEF BeginCreate, Schedule, BeginExtend, BeginRelease
  <2> QED
    BY <1>1, <2>1, <2>2, <2>3, <2>4 DEF Request
<1>2. ASSUME NEW p \in Procs, Release(p) PROVE Timed
  BY <1>2, ReleaseTimed DEF Times!TimeNext
<1>3. ASSUME NEW p \in Procs, Abort(p) PROVE Timed
  BY <1>q, <1>3 DEF Abort
<1>4. ASSUME NEW h \in Holds, NEW p \in Phases, Job(h, p) PROVE Timed
  <2>1. CASE JobWrite(h, p)
    <3>1. Created(h)
      BY <2>1 DEF JobWrite, PhasedInv, JobOK, RowOK, Phases, Created
    <3> QED
      BY <1>e, <2>1, <3>1 DEF JobWrite
  <2>2. CASE JobRead(h, p) \/ JobFails(h, p)
    BY <1>q, <2>2 DEF JobRead, JobFails
  <2> QED
    BY <1>4, <2>1, <2>2 DEF Job
<1>5. CASE Reconcile
  <2>1. CASE ReconcileWrite
    <3>1. PICK h \in Holds : h = call[Reconciler].hold /\ Created(h)
      BY <2>1 DEF ReconcileWrite, PhasedInv, CallOK, Stage, Procs
    <3> QED
      BY <1>e, <2>1, <3>1 DEF ReconcileWrite
  <2>2. CASE ReconcileRead \/ \E h \in Holds : ReconcileFind(h)
    BY <1>q, <2>2 DEF ReconcileRead, ReconcileFind
  <2> QED
    BY <1>5, <2>1, <2>2 DEF Reconcile
<1>6. CASE Sweep
  <2>1. CASE SweepMark
    <3>1. PICK h \in Holds : h = call[Sweeper].hold /\ Created(h)
      BY <2>1 DEF SweepMark, PhasedInv, CallOK, Stage, Procs
    <3> QED
      BY <1>e, <1>q, <2>1, <3>1 DEF SweepMark, row
  <2>2. CASE SweepRead \/ \E h \in Holds : SweepFind(h)
    BY <1>q, <2>2 DEF SweepRead, SweepFind
  <2> QED
    BY <1>6, <2>1, <2>2 DEF Sweep
<1>7. CASE CancelOrder
  BY <1>7, CancelTimed DEF Times!TimeNext
<1>8. CASE Tick \/ UNCHANGED vars
  BY <1>q, <1>8 DEF Tick, vars
<1>9. CASE CloseOrder
  <2>1. ASSUME NEW h \in Holds, CloseHold(h) PROVE Timed
    <3>1. Created(h)
      BY <2>1 DEF CloseHold, PhasedInv, CloserOK
    <3> QED
      BY <1>e, <1>q, <2>1, <3>1 DEF CloseHold, row
  <2>2. CASE OrderDue \/ ExpireOrder \/ FindActive \/ CloserStops
    BY <1>q, <2>2 DEF OrderDue, ExpireOrder, FindActive, CloserStops
  <2> QED
    BY <1>9, <2>1, <2>2 DEF CloseOrder
<1> QED
  BY <1>1, <1>2, <1>3, <1>4, <1>5, <1>6, <1>7, <1>8, <1>9 DEF Next

LEMMA TimesInit == Init => Times!TimeInit
<1> SUFFICES ASSUME Init PROVE Times!TimeInit
  OBVIOUS
<1>1. \A h \in Holds : /\ StageOf(h) = "none" /\ BaseOf(h) = 0 /\ LimitOf(h) = 0
                       /\ DeadlineOf(h) = 0 /\ EndOf(h) = "open"
  BY DEF Init, StageOf, BaseOf, LimitOf, DeadlineOf, EndOf, Created, Terminal
<1> QED
  BY <1>1 DEF Times!TimeInit, Init

\* The ledger, its two expiry jobs, the reconciler, the sweep, the releases, the
\* cancellation and the expiry of the order implement HoldTimes: the flex deadline
\* only moves within its bounds, the confirmed one never, and nobody expires a hold
\* that is not due, the end of the order making every first phase due.
THEOREM TimesAreKept == Spec => KeepsTimes
<1>1. TypeOK /\ PhasedInv /\ [Next]_vars =>
        [Times!TimeNext]_<<now, Stages, Bases, Limits, Deadlines, Ends>>
  BY TimesStep
<1> QED
  BY <1>1, TimesInit, PhasedInvariant, PTL
  DEF Spec, KeepsTimes, Times!TimeSpec, Stages, Bases, Limits, Deadlines, Ends

=============================================================================
