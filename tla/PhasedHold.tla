----------------------------- MODULE PhasedHold -----------------------------
(***************************************************************************)
(* The two-phase hold: FLEX (flex-hold.service.ts), which can be extended, *)
(* then CONFIRMED (confirmed-hold.service.ts), and what ends it: the       *)
(* durable expiry jobs (hold-expiry-cleanup.service.ts), the reconciler    *)
(* (hold-reconciliation.service.ts), the release and sweep of              *)
(* truck-hold.service.ts, the cancellation of the order and its expiry     *)
(* (handleOrderExpiry, closeActiveHoldsForOrder).  The order ends once:    *)
(* the customer's search-again, which gives it a new expiry, is left out.  *)
(*                                                                         *)
(* A flex hold claims no truck request, so the module is about the ledger  *)
(* row, its two phases and its clocks.  A handler that reads the row and   *)
(* writes it in a later call is two actions.  The Redis lock of            *)
(* extendFlexHold is not there: every extension uses the same holder id    *)
(* and acquireLock lets a holder in again, so it excludes nothing.  Nor is *)
(* the lease sweep and reconciler share: it may expire under a slow one.   *)
(***************************************************************************)
EXTENDS Integers

CONSTANTS
  Holds,              \* ids a TruckHoldLedger row may get
  Workers,            \* requests in flight at once
  Sweeper, Reconciler,
  None,
  Base, Extension, MaxFlex, MaxExtensions,  \* HOLD_CONFIG, flex
  ConfirmedFor,                             \* HOLD_CONFIG, confirmed
  OrderLives,         \* when the order may expire
  Horizon,            \* bound of the clock
  Faults              \* BOOLEAN: may calls to Redis fail and processes die?

Procs == Workers \union {Sweeper, Reconciler}
Phases == {"flex", "confirmed"}

ASSUME PhasedHoldAssumption ==
  /\ Base \in Nat /\ Extension \in Nat /\ MaxFlex \in Nat /\ Base <= MaxFlex
  /\ MaxExtensions \in Nat /\ ConfirmedFor \in Nat /\ Horizon \in Nat
  /\ OrderLives \subseteq Nat
  /\ Sweeper \notin Workers /\ Reconciler \notin Workers /\ Sweeper # Reconciler
  /\ None \notin Holds
  /\ Faults \in BOOLEAN

VARIABLES
  now,
  orderStatus,    \* "active", "cancelled" or "expired"
  orderExpires,   \* Order.expiresAt
  closer,         \* the order's expiry: its timer, then the handler
  status, phase,  \* [Holds -> ..]  TruckHoldLedger.status and .phase
  created, flexExpires, extended, confirmedExpires, expires,  \* [Holds -> Nat]
  jobs,           \* [Holds \X Phases -> [state, at]]: the two expiry jobs
  call            \* [Procs -> what it is doing]

clocks == <<created, flexExpires, extended, confirmedExpires, expires>>
row == <<status, phase, clocks>>
orderVars == <<orderStatus, orderExpires, closer>>
vars == <<now, orderVars, row, jobs, call>>

Terminal == {"expired", "released", "cancelled"}        \* TERMINAL_STATUSES
Status == {"none", "active", "confirmed"} \union Terminal
Stage == {"idle", "create", "schedule", "extend", "release", "mark", "read", "write"}

\* `at`, `count`: the expiry and the extension count a handler computed from its read
Call == [on: Stage, hold: Holds \union {None}, phase: Phases, at: Nat, count: Nat]
Doing(s, h, p, t, n) == [on |-> s, hold |-> h, phase |-> p, at |-> t, count |-> n]
On(s, h) == Doing(s, h, "flex", 0, 0)
Idle == On("idle", None)
NoJob == [state |-> "none", at |-> 0]

\* The expiry of the order: "armed" until its timer fires, "order" once the order
\* was read, "find" once it was written, then the holds that are left to close.
Closer == [on: {"armed", "order", "find", "close"}, holds: SUBSET Holds]
Closing(s, H) == [on |-> s, holds |-> H]

Least(a, b) == IF a <= b THEN a ELSE b
Created(h) == status[h] # "none"

Init ==
  /\ now = 0
  /\ orderStatus = "active"
  /\ orderExpires \in OrderLives
  /\ closer = Closing("armed", {})
  /\ status = [h \in Holds |-> "none"]
  /\ phase = [h \in Holds |-> "flex"]
  /\ created = [h \in Holds |-> 0]
  /\ flexExpires = [h \in Holds |-> 0]
  /\ extended = [h \in Holds |-> 0]
  /\ confirmedExpires = [h \in Holds |-> 0]
  /\ expires = [h \in Holds |-> 0]
  /\ jobs = [j \in Holds \X Phases |-> NoJob]
  /\ call = [p \in Procs |-> Idle]

\* Requests stop early enough for every hold to run out within the horizon.
Open == now + ConfirmedFor < Horizon

Become(p, c) == call' = [call EXCEPT ![p] = c]

-----------------------------------------------------------------------------
(* createFlexHold                                                          *)

\* No active flex hold of this transporter on this order, and the order is
\* open; the row's expiry is computed here and capped to the order's.
BeginCreate(w) ==
  /\ Open
  /\ call[w] = Idle
  /\ ~ \E h \in Holds : status[h] = "active" /\ phase[h] = "flex"
  /\ orderStatus = "active"
  /\ now <= orderExpires
  /\ LET left == orderExpires - now
         span == IF left > 0 THEN Least(Base, left) ELSE Base
     IN Become(w, Doing("create", None, "flex", now + span, now))
  /\ UNCHANGED <<now, orderVars, row, jobs>>

\* A row under a fresh id; neither the order nor other holds are looked at again.
Create(w) ==
  /\ call[w].on = "create"
  /\ \E h \in Holds :
       /\ ~Created(h)
       /\ status' = [status EXCEPT ![h] = "active"]
       /\ created' = [created EXCEPT ![h] = call[w].count]
       /\ flexExpires' = [flexExpires EXCEPT ![h] = call[w].at]
       /\ expires' = [expires EXCEPT ![h] = call[w].at]
       /\ Become(w, Doing("schedule", h, "flex", call[w].at, 0))
  /\ UNCHANGED <<now, orderVars, phase, extended, confirmedExpires, jobs>>

\* scheduleFlexHoldCleanup, scheduleConfirmedHoldCleanup, after the commit
Schedule(w) ==
  /\ call[w].on = "schedule"
  /\ jobs' = [jobs EXCEPT ![<<call[w].hold, call[w].phase>>] =
                [state |-> "queued", at |-> call[w].at]]
  /\ Become(w, Idle)
  /\ UNCHANGED <<now, orderVars, row>>

-----------------------------------------------------------------------------
(* extendFlexHold                                                          *)

NewExpiryUncapped(h) == now + Extension                                 \* mutant

NewExpiry(h) == Least(Least(now + Extension, created[h] + MaxFlex), orderExpires)

\* The read: the phase, the clock and the count are checked, the status is not.
BeginExtend(w, h) ==
  /\ Open
  /\ call[w] = Idle
  /\ Created(h)
  /\ phase[h] = "flex"
  /\ now <= flexExpires[h]
  /\ extended[h] < MaxExtensions
  /\ NewExpiry(h) > flexExpires[h]
  /\ Become(w, Doing("extend", h, "flex", NewExpiry(h), extended[h] + 1))
  /\ UNCHANGED <<now, orderVars, row, jobs>>

\* The write, by hold id alone.  The expiry job keeps its old time.
Extend(w) ==
  LET h == call[w].hold
  IN /\ call[w].on = "extend"
     /\ flexExpires' = [flexExpires EXCEPT ![h] = call[w].at]
     /\ expires' = [expires EXCEPT ![h] = call[w].at]
     /\ extended' = [extended EXCEPT ![h] = call[w].count]
     /\ Become(w, Idle)
     /\ UNCHANGED <<now, orderVars, status, phase, created, confirmedExpires, jobs>>

-----------------------------------------------------------------------------
(* initializeConfirmedHold: one transaction on the locked row, which checks *)
(* the phase only; a hold already CONFIRMED is answered as it is.          *)

InitializeAgain(w, h) ==                                                \* mutant
  /\ Open
  /\ call[w] = Idle
  /\ Created(h)
  /\ phase' = [phase EXCEPT ![h] = "confirmed"]
  /\ status' = [status EXCEPT ![h] = "confirmed"]
  /\ confirmedExpires' = [confirmedExpires EXCEPT ![h] = now + ConfirmedFor]
  /\ expires' = [expires EXCEPT ![h] = now + ConfirmedFor]
  /\ Become(w, Doing("schedule", h, "confirmed", now + ConfirmedFor, 0))
  /\ UNCHANGED <<now, orderVars, created, flexExpires, extended, jobs>>

Initialize(w, h) ==
  /\ Open
  /\ call[w] = Idle
  /\ Created(h)
  /\ phase[h] = "flex"
  /\ phase' = [phase EXCEPT ![h] = "confirmed"]
  /\ status' = [status EXCEPT ![h] = "confirmed"]
  /\ confirmedExpires' = [confirmedExpires EXCEPT ![h] = now + ConfirmedFor]
  /\ expires' = [expires EXCEPT ![h] = now + ConfirmedFor]
  /\ Become(w, Doing("schedule", h, "confirmed", now + ConfirmedFor, 0))
  /\ UNCHANGED <<now, orderVars, created, flexExpires, extended, jobs>>

-----------------------------------------------------------------------------
(* processExpiredHold, run for a queued job or for the reconciler          *)

ExpireRowUpper(h) == status' = [status EXCEPT ![h] = "EXPIRED"]          \* mutant

\* What the processor writes, by hold id alone.
ExpireRow(h) == status' = [status EXCEPT ![h] = "expired"]

\* A terminal hold, or one in another phase than the job's, is skipped; whether
\* the hold has expired by now is not looked at.
ToExpire(h, p) == status[h] \notin Terminal /\ phase[h] = p

JobReadEarly(h, p) ==                                                   \* mutant
  /\ jobs[<<h, p>>].state = "queued"
  /\ jobs' = [jobs EXCEPT ![<<h, p>>] =
                IF ToExpire(h, p) THEN [state |-> "running", at |-> @.at] ELSE NoJob]
  /\ UNCHANGED <<now, orderVars, row, call>>

JobRead(h, p) ==
  /\ jobs[<<h, p>>].state = "queued"
  /\ jobs[<<h, p>>].at <= now
  /\ jobs' = [jobs EXCEPT ![<<h, p>>] =
                IF ToExpire(h, p) THEN [state |-> "running", at |-> @.at] ELSE NoJob]
  /\ UNCHANGED <<now, orderVars, row, call>>

JobWrite(h, p) ==
  /\ jobs[<<h, p>>].state = "running"
  /\ ExpireRow(h)
  /\ jobs' = [jobs EXCEPT ![<<h, p>>] = NoJob]
  /\ UNCHANGED <<now, orderVars, phase, clocks, call>>

\* A failed attempt is retried, or the job is dead-lettered.
JobFails(h, p) ==
  /\ Faults
  /\ jobs[<<h, p>>].state = "running"
  /\ \E j \in {[state |-> "queued", at |-> jobs[<<h, p>>].at], NoJob} :
       jobs' = [jobs EXCEPT ![<<h, p>>] = j]
  /\ UNCHANGED <<now, orderVars, row, call>>

\* reconcileExpiredHolds finds the expired holds of both phases ..
ReconcileFind(h) ==
  /\ call[Reconciler] = Idle
  /\ status[h] \notin Terminal \union {"none"}
  /\ \/ phase[h] = "flex" /\ flexExpires[h] < now
     \/ phase[h] = "confirmed" /\ confirmedExpires[h] < now
  /\ Become(Reconciler, On("read", h))
  /\ UNCHANGED <<now, orderVars, row, jobs>>

ReconcileReadAsConfirmed ==                                             \* mutant
  LET h == call[Reconciler].hold
  IN /\ call[Reconciler].on = "read"
     /\ Become(Reconciler, IF ToExpire(h, "confirmed") THEN On("write", h) ELSE Idle)
     /\ UNCHANGED <<now, orderVars, row, jobs>>

\* .. but hands each over as a flex hold: 'CONFIRMED' === 'confirmed' is false.
ReconcileRead ==
  LET h == call[Reconciler].hold
  IN /\ call[Reconciler].on = "read"
     /\ Become(Reconciler, IF ToExpire(h, "flex") THEN On("write", h) ELSE Idle)
     /\ UNCHANGED <<now, orderVars, row, jobs>>

ReconcileWrite ==
  /\ call[Reconciler].on = "write"
  /\ ExpireRow(call[Reconciler].hold)
  /\ Become(Reconciler, Idle)
  /\ UNCHANGED <<now, orderVars, phase, clocks, jobs>>

-----------------------------------------------------------------------------
(* releaseHold and the 60 s sweep of truck-hold.service.ts                 *)

BeginRelease(w, h) ==
  /\ Open
  /\ call[w] = Idle
  /\ status[h] = "active"
  /\ Become(w, On("release", h))
  /\ UNCHANGED <<now, orderVars, row, jobs>>

\* The transaction, by hold id alone; the phase is left as it is.
Release(p) ==
  LET h == call[p].hold
  IN /\ call[p].on = "release"
     /\ status' = [status EXCEPT ![h] =
                     IF orderStatus = "active" THEN "released" ELSE orderStatus]
     /\ Become(p, IF p = Sweeper THEN On("mark", h) ELSE Idle)
     /\ UNCHANGED <<now, orderVars, phase, clocks, jobs>>

SweepFind(h) ==
  /\ call[Sweeper] = Idle
  /\ status[h] = "active"
  /\ expires[h] <= now
  /\ Become(Sweeper, On("read", h))
  /\ UNCHANGED <<now, orderVars, row, jobs>>

SweepRead ==
  LET h == call[Sweeper].hold
  IN /\ call[Sweeper].on = "read"
     /\ Become(Sweeper, On(IF status[h] = "active" THEN "release" ELSE "mark", h))
     /\ UNCHANGED <<now, orderVars, row, jobs>>

SweepMark ==
  LET h == call[Sweeper].hold
  IN /\ call[Sweeper].on = "mark"
     /\ IF status[h] \in Terminal THEN UNCHANGED status ELSE ExpireRow(h)
     /\ Become(Sweeper, Idle)
     /\ UNCHANGED <<now, orderVars, phase, clocks, jobs>>

-----------------------------------------------------------------------------
(* The order, the clock, and processes that die                            *)

CancelOrder ==
  /\ orderStatus = "active"
  /\ orderStatus' = "cancelled"
  /\ status' = [h \in Holds |-> IF status[h] = "active" THEN "cancelled" ELSE status[h]]
  /\ UNCHANGED <<now, orderExpires, closer, phase, clocks, jobs, call>>

CloseAtOnce ==                                                          \* mutant
  /\ closer.on = "armed"
  /\ closer' = IF orderStatus = "cancelled" THEN Closing("close", {})
                                            ELSE Closing("order", {})
  /\ UNCHANGED <<now, orderStatus, orderExpires, row, jobs, call>>

\* processExpiredOrderTimers, handleOrderExpiry: the timer is set after the order
\* and as long as it lives; the order is read ..
OrderDue ==
  /\ closer.on = "armed"
  /\ now >= orderExpires
  /\ closer' = IF orderStatus = "cancelled" THEN Closing("close", {})
                                            ELSE Closing("order", {})
  /\ UNCHANGED <<now, orderStatus, orderExpires, row, jobs, call>>

\* .. written by id, whatever has become of it ..
ExpireOrder ==
  /\ closer.on = "order"
  /\ orderStatus' = "expired"
  /\ closer' = Closing("find", {})
  /\ UNCHANGED <<now, orderExpires, row, jobs, call>>

\* .. and closeActiveHoldsForOrder reads its active holds ..
FindActive ==
  /\ closer.on = "find"
  /\ closer' = Closing("close", {h \in Holds : status[h] = "active"})
  /\ UNCHANGED <<now, orderStatus, orderExpires, row, jobs, call>>

\* .. and expires each by id, in a transaction of its own that may fail.
CloseHold(h) ==
  /\ h \in closer.holds
  /\ ExpireRow(h) \/ (Faults /\ UNCHANGED status)
  /\ closer' = Closing("close", closer.holds \ {h})
  /\ UNCHANGED <<now, orderStatus, orderExpires, phase, clocks, jobs, call>>

\* A handler that failed is over; one whose process died is found again by
\* recoverOrphanedStepTimers.
CloserStops ==
  /\ Faults
  /\ closer.on # "armed"
  /\ closer' \in {Closing("armed", {}), Closing("close", {})}
  /\ UNCHANGED <<now, orderStatus, orderExpires, row, jobs, call>>

Tick ==
  /\ now < Horizon
  /\ now' = now + 1
  /\ UNCHANGED <<orderVars, row, jobs, call>>

\* The process died, or the call it was making failed.
Abort(p) ==
  /\ Faults
  /\ call[p] # Idle
  /\ Become(p, Idle)
  /\ UNCHANGED <<now, orderVars, row, jobs>>

Request(w) ==
  \/ BeginCreate(w) \/ Create(w) \/ Schedule(w) \/ Extend(w)
  \/ \E h \in Holds : BeginExtend(w, h) \/ Initialize(w, h) \/ BeginRelease(w, h)

Job(h, p) == JobRead(h, p) \/ JobWrite(h, p) \/ JobFails(h, p)
Reconcile == (\E h \in Holds : ReconcileFind(h)) \/ ReconcileRead \/ ReconcileWrite
CloseOrder == OrderDue \/ ExpireOrder \/ FindActive \/ CloserStops \/ \E h \in Holds : CloseHold(h)
Sweep == (\E h \in Holds : SweepFind(h)) \/ SweepRead \/ SweepMark

Next ==
  \/ \E w \in Workers : Request(w)
  \/ \E p \in Procs : Release(p) \/ Abort(p)
  \/ \E h \in Holds, p \in Phases : Job(h, p)
  \/ Reconcile \/ Sweep
  \/ CancelOrder \/ CloseOrder \/ Tick

Spec == Init /\ [][Next]_vars

\* Time passes; the reconciler (30 s) and the queue workers run for ever, and a
\* fault may interrupt them, but not each time they handle the same hold.
Fairness ==
  /\ WF_vars(Tick)
  /\ \A h \in Holds, p \in Phases : WF_vars(JobRead(h, p)) /\ SF_vars(JobWrite(h, p))
  /\ \A h \in Holds : /\ SF_vars(ReconcileFind(h))
                      /\ SF_vars(call[Reconciler].hold = h /\ ReconcileRead)
                      /\ SF_vars(call[Reconciler].hold = h /\ ReconcileWrite)

FairSpec == Spec /\ Fairness

-----------------------------------------------------------------------------
(* Properties                                                              *)

TypeOK ==
  /\ now \in Nat
  /\ orderStatus \in {"active", "cancelled", "expired"}
  /\ orderExpires \in Nat
  /\ closer \in Closer
  /\ status \in [Holds -> Status]
  /\ phase \in [Holds -> Phases]
  /\ created \in [Holds -> Nat]
  /\ flexExpires \in [Holds -> Nat]
  /\ extended \in [Holds -> Nat]
  /\ confirmedExpires \in [Holds -> Nat]
  /\ expires \in [Holds -> Nat]
  /\ jobs \in [Holds \X Phases -> [state: {"none", "queued", "running"}, at: Nat]]
  /\ call \in [Procs -> Call]

\* The end of a flex hold's base period, which the end of its order cuts short.
BaseExpiry(h) == Least(created[h] + Base, orderExpires)

\* "90s base + up to N extensions of 30s (max 130s total)", "A hold must never
\* outlive its parent broadcast" (flex-hold.service.ts): however extensions race,
\* the flex phase stays within both limits and its extensions are counted within
\* theirs.  (A hold created in the very instant its order expires is not capped.)
FlexBounded ==
  \A h \in Holds : Created(h) =>
    /\ flexExpires[h] <= created[h] + MaxFlex
    /\ created[h] < orderExpires => flexExpires[h] <= orderExpires
    /\ extended[h] <= MaxExtensions

\* The CONFIRMED phase is entered once: no concurrent request, stale extension,
\* release or job moves its deadline, leaves the phase or revives the hold.
ConfirmedFixed ==
  [][\A h \in Holds : phase[h] = "confirmed" =>
       /\ phase'[h] = "confirmed"
       /\ confirmedExpires'[h] = confirmedExpires[h]
       /\ status[h] \in Terminal => status'[h] \in Terminal]_vars

\* Whichever of job, reconciler, sweep, release and order expiry gets to it, and
\* however stale its read, an active hold is never expired before its base period
\* or its order is over.
BaseHonoured ==
  [][\A h \in Holds :
       status[h] = "active" /\ status'[h] = "expired" => now >= BaseExpiry(h)]_vars

\* An extension counts: an active hold is not expired before flexExpiresAt
\* ("Transporter assigns driver -> +30s extension", flex-hold.service.ts).
ExtensionHonoured ==
  [][\A h \in Holds :
       status[h] = "active" /\ status'[h] = "expired" => now >= flexExpires[h]]_vars

\* The latest a flex phase may end.
FlexLimit(h) == IF created[h] < orderExpires
                  THEN Least(created[h] + MaxFlex, orderExpires)
                  ELSE created[h] + MaxFlex

StageOf(h) == IF Created(h) THEN phase[h] ELSE "none"
BaseOf(h) == IF Created(h) THEN BaseExpiry(h) ELSE 0
LimitOf(h) == IF Created(h) THEN FlexLimit(h) ELSE 0
DeadlineOf(h) == IF ~Created(h) THEN 0
                 ELSE IF phase[h] = "flex" THEN flexExpires[h] ELSE confirmedExpires[h]
EndOf(h) == IF status[h] = "expired" THEN "expired"
            ELSE IF status[h] \in Terminal THEN "given up" ELSE "open"

Times == INSTANCE HoldTimes WITH
           stage <- [h \in Holds |-> StageOf(h)], base <- [h \in Holds |-> BaseOf(h)],
           limit <- [h \in Holds |-> LimitOf(h)],
           deadline <- [h \in Holds |-> DeadlineOf(h)], end <- [h \in Holds |-> EndOf(h)]

\* The ledger, its jobs and everybody who ends a hold, the order's cancellation and
\* expiry included, implement the times of HoldTimes.  In particular a hold that is
\* confirmed while a job, the reconciler, the sweep or the order's expiry is at it
\* is not expired before its base period, its order or its confirmed phase is over.
KeepsTimes == Times!TimeSpec

\* A flex hold ends although jobs are lost and processes die: the reconciler is
\* its "defense-in-depth backup".
FlexEnds ==
  \A h \in Holds : status[h] = "active" ~> status[h] # "active"

\* So does a confirmed hold: "Reconcile expired holds that weren't cleaned by
\* Layer 1" (hold-reconciliation.service.ts).
ConfirmedEnds ==
  \A h \in Holds : status[h] = "confirmed" ~> status[h] # "confirmed"

=============================================================================
