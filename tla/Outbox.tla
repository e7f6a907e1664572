------------------------------- MODULE Outbox -------------------------------
(***************************************************************************)
(* The two transactional outboxes of an order: the dispatch row, written   *)
(* with the order and broadcast to the transporters                        *)
(* (order-dispatch-outbox.service.ts), and the lifecycle row, written with *)
(* its cancellation and announced to everybody concerned                   *)
(* (order-lifecycle-outbox.service.ts).                                    *)
(*                                                                         *)
(* A worker is one pass of a poller, or the request that processes its own *)
(* row at once.  It claims a batch, then takes row after row to its end;   *)
(* each database write is one action.  The leader lock of the dispatch     *)
(* poller is left out: when Redis fails every instance polls, and the      *)
(* request's own pass never asks for it.  Retry delays pass in no time.    *)
(* The claim's condition on lockedAt is left out: whatever makes a row     *)
(* pending or retrying also clears lockedAt.                               *)
(***************************************************************************)
EXTENDS Naturals, FiniteSets

CONSTANTS
  Orders, Workers,
  Admins,        \* callers of the redrive endpoint
  None,
  MaxAttempts,   \* row.maxAttempts
  MaxRedrives,   \* bound: redrives in a behaviour
  MaxFaults      \* bound: crashes and failed database calls in a behaviour

ASSUME OutboxAssumption ==
  /\ MaxAttempts \in Nat \ {0}
  /\ MaxRedrives \in Nat /\ MaxFaults \in Nat
  /\ IsFiniteSet(Workers)

Kinds == {"dispatch", "lifecycle"}
Rows == Orders \X Kinds
Dispatch(o) == <<o, "dispatch">>
Lifecycle(o) == <<o, "lifecycle">>

ASSUME NoneAssumption ==
  /\ None \notin Orders /\ None \notin [row: Rows, attempt: 1 .. MaxAttempts]
  /\ None \notin {"dispatched", "failed", "retrying"}

VARIABLES
  order,     \* [Orders -> status]
  row,       \* [Rows -> [status, attempts]]
  worker,    \* [Workers -> the batch it has claimed and the row in its hands]
  admin,     \* [Admins -> the order whose failed row was read, or None]
  tries,     \* [Rows -> 0..MaxAttempts+1]: emissions begun, more alike
  redrives, faults

vars == <<order, row, worker, admin, tries, redrives, faults>>

OrderStatus == {"active", "fully_filled", "cancelled"}
Open == {"pending", "retrying"}
Ended == {"dispatched", "failed"}
Unended == Open \union {"processing"}
RowStatus == {"none", "processing"} \union Open \union Ended
Row == [status: RowStatus, attempts: 0 .. MaxAttempts]
Task == [row: Rows, attempt: 1 .. MaxAttempts]
Stage == {"next", "read", "send", "record", "snapshot", "catch"}
Worker == [todo: SUBSET Task, at: Stage, task: Task \union {None},
           result: Ended \union {"retrying", None}]
Idle == [todo |-> {}, at |-> "next", task |-> None, result |-> None]

\* enqueueOrderDispatchOutbox, in the transaction that creates the order
Init ==
  /\ order = [o \in Orders |-> "active"]
  /\ row = [r \in Rows |-> [status |-> IF r[2] = "dispatch" THEN "pending" ELSE "none",
                            attempts |-> 0]]
  /\ worker = [w \in Workers |-> Idle]
  /\ admin = [a \in Admins |-> None]
  /\ tries = [r \in Rows |-> 0]
  /\ redrives = 0 /\ faults = 0

---------------------------------------------------------------------------
(* The order *)

Fill(o) ==
  /\ order[o] = "active"
  /\ order' = [order EXCEPT ![o] = "fully_filled"]
  /\ UNCHANGED <<row, worker, admin, tries, redrives, faults>>

CancelAnyDispatch(o) == [row[Dispatch(o)] EXCEPT !.status = "failed"]    \* mutant

\* A dispatch that has not ended fails with its order, also while a pass has it.
CancelDispatch(o) ==
  IF row[Dispatch(o)].status \in Unended THEN [row[Dispatch(o)] EXCEPT !.status = "failed"]
                                         ELSE row[Dispatch(o)]

\* the cancellation, its lifecycle row and the end of the dispatch are one transaction
Cancel(o) ==
  /\ order[o] # "cancelled"
  /\ order' = [order EXCEPT ![o] = "cancelled"]
  /\ row' = [row EXCEPT ![Lifecycle(o)] = [status |-> "pending", attempts |-> 0],
                         ![Dispatch(o)] = CancelDispatch(o)]
  /\ UNCHANGED <<worker, admin, tries, redrives, faults>>

---------------------------------------------------------------------------
(* A pass *)

OnlyPending == {"pending"}                                              \* mutant
Ready == Open

\* FOR UPDATE SKIP LOCKED, or the conditional update by id: any ready rows of
\* one outbox
Claim(w) ==
  /\ worker[w] = Idle
  /\ \E k \in Kinds : \E S \in SUBSET {r \in Rows : r[2] = k /\ row[r].status \in Ready} :
       /\ S # {}
       /\ row' = [r \in Rows |-> IF r \in S THEN [row[r] EXCEPT !.status = "processing"]
                                           ELSE row[r]]
       /\ worker' = [worker EXCEPT ![w].todo =
                       {[row |-> r, attempt |-> row[r].attempts + 1] : r \in S}]
  /\ UNCHANGED <<order, admin, tries, redrives, faults>>

Pick(w) ==
  /\ worker[w].at = "next"
  /\ \E t \in worker[w].todo :
       worker' = [worker EXCEPT ![w] =
         [Idle EXCEPT !.todo = worker[w].todo \ {t}, !.task = t,
                      !.at = IF t.row[2] = "dispatch" THEN "read" ELSE "send"]]
  /\ UNCHANGED <<order, row, admin, tries, redrives, faults>>

At(w, stage) == worker[w].at = stage
Current(w) == worker[w].task
Go(w, stage) == worker' = [worker EXCEPT ![w].at = stage]
Done(w) == worker' = [worker EXCEPT ![w] = [Idle EXCEPT !.todo = worker[w].todo]]
Write(w, status) ==
  row' = [row EXCEPT ![Current(w).row] = [status |-> status, attempts |-> Current(w).attempt]]

\* an order that is not active any more fails its dispatch
ReadOrder(w) ==
  /\ At(w, "read")
  /\ \/ /\ order[Current(w).row[1]] = "active"
        /\ Go(w, "send") /\ UNCHANGED row
     \/ /\ order[Current(w).row[1]] # "active"
        /\ Write(w, "failed") /\ Done(w)
  /\ UNCHANGED <<order, admin, tries, redrives, faults>>

RetryableLate(n) == n <= MaxAttempts                                    \* mutant
RetryableEarly(n) == n + 1 < MaxAttempts                                \* mutant
Retryable(n) == n < MaxAttempts
RetryOrFail(w) == IF Retryable(Current(w).attempt) THEN "retrying" ELSE "failed"

FailsAtOnce(w) == {"dispatched", "failed"}                                \* mutant

\* Emitted; or, for a broadcast, nobody online, or nobody reached for now.
Results(w) ==
  {"dispatched"} \union
    (IF Current(w).row[2] = "dispatch" THEN {"failed", RetryOrFail(w)} ELSE {})

Send(w) ==
  /\ At(w, "send")
  /\ tries' = [tries EXCEPT ![Current(w).row] = IF @ <= MaxAttempts THEN @ + 1 ELSE @]
  /\ \/ \E result \in Results(w) :
          worker' = [worker EXCEPT ![w].at = "record", ![w].result = result]
     \/ Go(w, "catch")
  /\ UNCHANGED <<order, row, admin, redrives, faults>>

\* a dispatch still has its outcome to save on the order, inside the same try
Record(w) ==
  /\ At(w, "record")
  /\ Write(w, worker[w].result)
  /\ IF Current(w).row[2] = "dispatch" THEN Go(w, "snapshot") ELSE Done(w)
  /\ UNCHANGED <<order, admin, tries, redrives, faults>>

Snapshot(w) ==
  /\ At(w, "snapshot")
  /\ Done(w)
  /\ UNCHANGED <<order, row, admin, tries, redrives, faults>>

Catch(w) ==
  /\ At(w, "catch")
  /\ Write(w, RetryOrFail(w)) /\ Done(w)
  /\ UNCHANGED <<order, admin, tries, redrives, faults>>

---------------------------------------------------------------------------
(* redriveFailedDispatch: a read, then an update by order id *)

Redrivable == {"failed"}

RedriveRead(a, o) ==
  /\ admin[a] = None /\ redrives < MaxRedrives
  /\ row[Dispatch(o)].status \in Redrivable
  /\ admin' = [admin EXCEPT ![a] = o]
  /\ redrives' = redrives + 1
  /\ UNCHANGED <<order, row, worker, tries, faults>>

RedriveWrite(a) ==
  /\ admin[a] # None
  /\ row' = [row EXCEPT ![Dispatch(admin[a])] = [status |-> "pending", attempts |-> 0]]
  /\ admin' = [admin EXCEPT ![a] = None]
  /\ UNCHANGED <<order, worker, tries, redrives, faults>>

---------------------------------------------------------------------------
(* Faults.  A call that fails may have been carried out. *)

Fault == faults < MaxFaults /\ faults' = faults + 1

\* nothing looks for a row left in processing
Crash(w) ==
  /\ Fault
  /\ worker[w] # Idle /\ worker' = [worker EXCEPT ![w] = Idle]
  /\ UNCHANGED <<order, row, admin, tries, redrives>>

\* outside the try: the row stays in processing
ReadFails(w) ==
  /\ Fault
  /\ At(w, "read") /\ Done(w)
  /\ UNCHANGED <<order, row, admin, tries, redrives>>

RecordFails(w) ==
  /\ Fault
  /\ At(w, "record") /\ Go(w, "catch")
  /\ Write(w, worker[w].result) \/ UNCHANGED row
  /\ UNCHANGED <<order, admin, tries, redrives>>

SnapshotFails(w) ==
  /\ Fault
  /\ At(w, "snapshot") /\ Go(w, "catch")
  /\ UNCHANGED <<order, row, admin, tries, redrives>>

CatchFails(w) ==
  /\ Fault
  /\ At(w, "catch") /\ Done(w)
  /\ Write(w, RetryOrFail(w)) \/ UNCHANGED row
  /\ UNCHANGED <<order, admin, tries, redrives>>

---------------------------------------------------------------------------

Process(w) == \/ Pick(w) \/ ReadOrder(w) \/ Send(w) \/ Record(w)
              \/ Snapshot(w) \/ Catch(w)
FaultStep(w) == \/ Crash(w) \/ ReadFails(w) \/ RecordFails(w)
                \/ SnapshotFails(w) \/ CatchFails(w)

Next ==
  \/ \E o \in Orders : Fill(o) \/ Cancel(o)
  \/ \E w \in Workers : Claim(w) \/ Process(w) \/ FaultStep(w)
  \/ \E a \in Admins : RedriveWrite(a) \/ \E o \in Orders : RedriveRead(a, o)

\* Some instance polls, and a pass goes on.  Nobody has to fill, cancel or redrive.
Fairness ==
  /\ WF_vars(\E w \in Workers : Claim(w))
  /\ \A w \in Workers : WF_vars(Process(w))

Spec == Init /\ [][Next]_vars /\ Fairness

---------------------------------------------------------------------------
(* Properties *)

\* Type invariant.  A row that is ready has an attempt left; a pass holds a task
\* exactly while it works on one.
TypeOK ==
  /\ order \in [Orders -> OrderStatus]
  /\ row \in [Rows -> Row]
  /\ \A r \in Rows : row[r].status \in Open => row[r].attempts < MaxAttempts
  /\ worker \in [Workers -> Worker]
  /\ \A w \in Workers : /\ worker[w].task = None <=> worker[w].at = "next"
                        /\ worker[w].at = "record" => worker[w].result # None
  /\ admin \in [Admins -> Orders \union {None}]
  /\ tries \in [Rows -> 0 .. MaxAttempts + 1]
  /\ redrives \in 0 .. MaxRedrives /\ faults \in 0 .. MaxFaults

\* w has claimed r and not written its outcome
Owns(w, r) ==
  \/ \E t \in worker[w].todo : t.row = r
  \/ worker[w].at \in {"read", "send", "record", "catch"} /\ worker[w].task.row = r

\* A dispatch that was redriven once, and not after its order was cancelled, or never.
Calm(o) == redrives = 0 \/ (redrives = 1 /\ order[o] # "cancelled")

\* No two passes work on one row.  For the announcement of a cancellation this
\* holds whatever crashes or fails.  A dispatch needs that nothing failed, no two
\* redrives met, and none met a cancellation: a snapshot that fails late, a late
\* redrive, or the redrive of a row that the cancellation failed while a pass was
\* sending it, re-opens a row that a pass still has.
OneOwner ==
  \A r \in Rows : (r[2] = "lifecycle" \/ (faults = 0 /\ Calm(r[1]))) =>
    \A v, w \in Workers : Owns(v, r) /\ Owns(w, r) => v = w

\* A cancellation is announced at most maxAttempts times, and given up only after
\* as many: no crash, failed write or second pass makes an attempt uncounted or
\* counted twice.  A dispatch is bounded in the same way while nothing fails.
DlqExhausted ==
  \A o \in Orders :
    /\ tries[Lifecycle(o)] <= MaxAttempts
    /\ row[Lifecycle(o)].status = "failed" => tries[Lifecycle(o)] = MaxAttempts
    /\ faults = 0 /\ redrives = 0 => tries[Dispatch(o)] <= MaxAttempts

\* A dispatched row is not written again, by its cancellation, a redrive or a late
\* pass, unless a write failed, two redrives met, or one met a cancellation.
DispatchedIsFinal ==
  [][\A r \in Rows : faults' = 0 /\ Calm(r[1]) =>
       (row[r].status = "dispatched" => row'[r] = row[r])]_vars

\* The announcement of a cancellation, as the contract sees it.  A row that was
\* dispatched by a write that is reported to have failed is still due: its pass
\* will write it again.  So is a row that a crash left in processing.
NoticeOf(o) ==
  LET s == row[Lifecycle(o)].status
  IN  CASE s = "none" -> "none"
        [] s \in Ended /\ (\A w \in Workers : ~Owns(w, Lifecycle(o))) -> s
        [] OTHER -> "due"

Notices == INSTANCE Announcements WITH
             notice <- [o \in Orders |-> NoticeOf(o)],
             sent   <- [o \in Orders |-> tries[Lifecycle(o)]]

\* The lifecycle outbox implements the announcement contract step by step, whatever
\* crashes, fails or runs twice: once ended it is neither sent nor changed again.
AnnouncesCancellations == Notices!NoticeSpec

\* Every row ends, in its dispatch or in the dead letters, unless something fails:
\* the retries of one row and the batches of others do not hold it up for ever.
EveryRowEnds ==
  \A r \in Rows : row[r].status \in Open \union {"processing"}
                    ~> row[r].status \in Ended \/ faults > 0
=============================================================================
