---------------------------- MODULE OutboxProofs ----------------------------
(* Proofs about Outbox: its types, that no two passes work on one row, that a  *)
(* dispatched row stays so, and that the announcements of a cancellation are   *)
(* counted.                                                                    *)
EXTENDS Outbox, TLAPS

-----------------------------------------------------------------------------
(* Types.  A result that is to be retried has an attempt left; a lifecycle row *)
(* is sent without being read, and its result is its dispatch.                 *)

Sound(c) ==
  /\ c.task = None <=> c.at = "next"
  /\ c.at = "record" => c.result # None
  /\ c.at = "record" /\ c.result = "retrying" => Retryable(c.task.attempt)
  /\ c.at # "next" /\ c.task.row[2] = "lifecycle" =>
       /\ c.at \in {"send", "record", "catch"}
       /\ c.at = "record" => c.result = "dispatched"

TypeInv == TypeOK /\ \A w \in Workers : Sound(worker[w])

-----------------------------------------------------------------------------
(* One owner *)

\* A pass that holds a row, as Owns, for a pass that is not stored yet.
Working(c) == c.at \in {"read", "send", "record", "catch"}
Has(c, r) == (\E t \in c.todo : t.row = r) \/ (Working(c) /\ c.task.row = r)

\* A pass has claimed a row once.
Neat(c) ==
  /\ \A t, u \in c.todo : t.row = u.row => t = u
  /\ c.at # "next" => \A t \in c.todo : t.row # c.task.row

Protected(r) == r[2] = "lifecycle" \/ (faults = 0 /\ Calm(r[1]))

\* An owned row is in processing, except that a write that was reported to have
\* failed may have dispatched it, and that the cancellation of its order fails it.
Marked(w, r) ==
  \/ row[r].status = "processing"
  \/ faults > 0 /\ worker[w].at = "catch" /\ worker[w].task.row = r /\ row[r].status = "dispatched"
  \/ r[2] = "dispatch" /\ order[r[1]] = "cancelled" /\ row[r].status = "failed"

OwnerInv ==
  /\ \A w \in Workers : Neat(worker[w])
  /\ \A r \in Rows : Protected(r) =>
       /\ \A v, w \in Workers : Has(worker[v], r) /\ Has(worker[w], r) => v = w
       /\ \A w \in Workers : Has(worker[w], r) => Marked(w, r)
  /\ \A o \in Orders : order[o] # "cancelled" => row[Lifecycle(o)].status = "none"
  /\ redrives = 0 => \A a \in Admins : admin[a] = None
  /\ faults = 0 /\ redrives <= 1 =>
       /\ \A a, b \in Admins : admin[a] # None /\ admin[b] # None => a = b
       /\ \A a \in Admins : admin[a] # None /\ order[admin[a]] # "cancelled" =>
            row[Dispatch(admin[a])].status = "failed"

-----------------------------------------------------------------------------
(* Attempts *)

Exact(r) == r[2] = "lifecycle" \/ (faults = 0 /\ redrives = 0)

\* The attempts of a row are what was sent of it, and the dead letters hold a
\* cancellation that was sent as often as it may be.
RowCount(r) ==
  /\ tries[r] <= MaxAttempts
  /\ row[r].status = "none" => tries[r] = 0
  /\ row[r].status \in Open => tries[r] = row[r].attempts
  /\ r[2] = "lifecycle" /\ row[r].status = "failed" => tries[r] = MaxAttempts

\* A pass counts one attempt more from its claim, and has made it once it has sent.
Counted(c, r, n) ==
  /\ \A t \in c.todo : t.row = r => n = t.attempt - 1
  /\ c.at \in {"read", "send"} /\ c.task.row = r => n = c.task.attempt - 1
  /\ c.at \in {"record", "catch"} /\ c.task.row = r => n = c.task.attempt

CountInv ==
  \A r \in Rows : Exact(r) =>
    RowCount(r) /\ \A w \in Workers : Counted(worker[w], r, tries[r])


-----------------------------------------------------------------------------
(* Moves of a pass *)

\* The pass w becomes d.
Moves(w, d) == worker' = [worker EXCEPT ![w] = d]

LEMMA MovesTo ==
  ASSUME TypeOK, NEW w \in Workers, NEW d, Moves(w, d)
  PROVE  /\ \A v \in Workers : worker'[v] = IF v = w THEN d ELSE worker[v]
         /\ d \in Worker => worker' \in [Workers -> Worker]
BY DEF Moves, TypeOK

LEMMA GoMoves ==
  ASSUME TypeOK, NEW w \in Workers, NEW s \in Stage, Go(w, s)
  PROVE  \E d \in Worker : /\ Moves(w, d)
                           /\ d.at = s /\ d.todo = worker[w].todo
                           /\ d.task = worker[w].task /\ d.result = worker[w].result
<1> DEFINE d == [worker[w] EXCEPT !.at = s]
<1>1. d \in Worker /\ d.at = s /\ d.todo = worker[w].todo
      /\ d.task = worker[w].task /\ d.result = worker[w].result
  BY DEF TypeOK, Worker
<1>2. Moves(w, d)
  BY DEF Go, Moves
<1> HIDE DEF d
<1> QED
  BY <1>1, <1>2

LEMMA DoneMoves ==
  ASSUME TypeOK, NEW w \in Workers, Done(w)
  PROVE  \E d \in Worker : /\ Moves(w, d)
                           /\ d.at = "next" /\ d.todo = worker[w].todo
                           /\ d.task = None /\ d.result = None
<1> DEFINE d == [Idle EXCEPT !.todo = worker[w].todo]
<1>1. d \in Worker /\ d.at = "next" /\ d.todo = worker[w].todo /\ d.task = None /\ d.result = None
  BY DEF TypeOK, Worker, Idle, Stage
<1>2. Moves(w, d)
  BY DEF Done, Moves
<1> HIDE DEF d
<1> QED
  BY <1>1, <1>2

\* The task in a pass's hands.
LEMMA TaskType ==
  ASSUME TypeInv, NEW w \in Workers, worker[w].at # "next"
  PROVE  /\ worker[w].task \in Task
         /\ worker[w].task.row \in Rows /\ worker[w].task.attempt \in 1 .. MaxAttempts
         /\ worker[w].task.row[2] \in Kinds
BY DEF TypeInv, Sound, TypeOK, Worker, Task, Rows

LEMMA StagesDiffer ==
  /\ "read" # "next" /\ "send" # "next" /\ "record" # "next" /\ "snapshot" # "next" /\ "catch" # "next"
  /\ {"next", "read", "send", "record", "snapshot", "catch"} \subseteq Stage
BY DEF Stage

LEMMA RetryOrFailType ==
  ASSUME NEW w
  PROVE  /\ RetryOrFail(w) \in {"retrying", "failed"}
         /\ RetryOrFail(w) = "retrying" => Retryable(worker[w].task.attempt)
BY DEF RetryOrFail, Current

LEMMA WriteTypes ==
  ASSUME TypeInv, NEW w \in Workers, worker[w].at # "next", NEW s \in RowStatus, Write(w, s),
         s \in Open => Retryable(worker[w].task.attempt)
  PROVE  /\ row' \in [Rows -> Row]
         /\ \A r \in Rows : row'[r].status \in Open => row'[r].attempts < MaxAttempts
<1> DEFINE n == worker[w].task.attempt
           new == [status |-> s, attempts |-> n]
<1>1. worker[w].task.row \in Rows /\ n \in 1 .. MaxAttempts
  BY TaskType
<1>2. new \in Row /\ new.status = s /\ new.attempts = n
  BY <1>1, OutboxAssumption DEF Row
<1>3. row' = [row EXCEPT ![worker[w].task.row] = new]
  BY DEF Write, Current
<1> HIDE DEF new
<1>4. \A r \in Rows : row'[r] = IF r = worker[w].task.row THEN new ELSE row[r]
  BY <1>3 DEF TypeInv, TypeOK
<1> QED
  BY <1>1, <1>2, <1>3, <1>4 DEF TypeInv, TypeOK, Retryable

\* What is left of TypeInv when a pass moves soundly.
LEMMA PassTypes ==
  ASSUME TypeInv, NEW w \in Workers, NEW d \in Worker, Moves(w, d), Sound(d),
         row' \in [Rows -> Row],
         \A r \in Rows : row'[r].status \in Open => row'[r].attempts < MaxAttempts,
         tries' \in [Rows -> 0 .. MaxAttempts + 1], faults' \in 0 .. MaxFaults,
         order' = order, admin' = admin, redrives' = redrives
  PROVE  TypeInv'
<1>1. /\ \A v \in Workers : worker'[v] = IF v = w THEN d ELSE worker[v]
      /\ worker' \in [Workers -> Worker]
  BY MovesTo DEF TypeInv
<1>2. \A v \in Workers : Sound(worker'[v])
  BY <1>1 DEF TypeInv
<1>3. \A v \in Workers : /\ worker'[v].task = None <=> worker'[v].at = "next"
                         /\ worker'[v].at = "record" => worker'[v].result # None
  BY <1>2 DEF Sound
<1> QED
  BY <1>1, <1>2, <1>3 DEF TypeInv, TypeOK, Sound

LEMMA TypeInit == Init => TypeInv
<1> SUFFICES ASSUME Init PROVE TypeInv
  OBVIOUS
<1>1. Idle \in Worker /\ Sound(Idle)
  BY DEF Idle, Worker, Stage, Sound
<1>2. worker \in [Workers -> Worker] /\ \A w \in Workers : worker[w] = Idle
  BY <1>1 DEF Init
<1>3. \A w \in Workers : Sound(worker[w])
  BY <1>1, <1>2
<1>4. /\ row \in [Rows -> Row]
      /\ \A r \in Rows : row[r].status \in Open => row[r].attempts < MaxAttempts
  BY OutboxAssumption DEF Init, Row, RowStatus, Open
<1>5. /\ order \in [Orders -> OrderStatus] /\ admin \in [Admins -> Orders \union {None}]
      /\ tries \in [Rows -> 0 .. MaxAttempts + 1]
      /\ redrives \in 0 .. MaxRedrives /\ faults \in 0 .. MaxFaults
  BY OutboxAssumption DEF Init, OrderStatus
<1> QED
  BY <1>2, <1>3, <1>4, <1>5 DEF TypeInv, TypeOK, Sound

\* The parts of the types, in one place.
LEMMA Types ==
  ASSUME TypeInv
  PROVE  /\ order \in [Orders -> OrderStatus]
         /\ row \in [Rows -> Row]
         /\ \A r \in Rows : row[r].status \in Open => row[r].attempts < MaxAttempts
         /\ worker \in [Workers -> Worker] /\ \A w \in Workers : Sound(worker[w])
         /\ admin \in [Admins -> Orders \union {None}]
         /\ tries \in [Rows -> 0 .. MaxAttempts + 1]
         /\ redrives \in 0 .. MaxRedrives /\ faults \in 0 .. MaxFaults
BY DEF TypeInv, TypeOK

\* A pass goes on or fails.
LEMMA ProcessTypes ==
  ASSUME TypeInv, NEW w \in Workers, Process(w) \/ FaultStep(w)
  PROVE  TypeInv'
<1> USE Types, OutboxAssumption
<1> DEFINE c == worker[w]
<1>0. c \in Worker /\ Sound(c) /\ TypeOK
  BY DEF TypeInv
<1>1. ASSUME NEW s \in {"send", "snapshot", "catch"}, Go(w, s), c.at \notin {"next"},
             c.task.row[2] = "lifecycle" => s # "snapshot",
             row' \in [Rows -> Row],
             \A r \in Rows : row'[r].status \in Open => row'[r].attempts < MaxAttempts,
             tries' \in [Rows -> 0 .. MaxAttempts + 1], faults' \in 0 .. MaxFaults,
             order' = order, admin' = admin, redrives' = redrives
      PROVE  TypeInv'
  <2>1. PICK d \in Worker : /\ Moves(w, d)
                            /\ d.at = s /\ d.todo = worker[w].todo
                            /\ d.task = worker[w].task /\ d.result = worker[w].result
    BY <1>0, <1>1, StagesDiffer, GoMoves
  <2>2. Sound(d)
    BY <1>0, <1>1, <2>1 DEF Sound
  <2> QED
    BY <1>1, <2>1, <2>2, PassTypes
<1>2. ASSUME Done(w), row' \in [Rows -> Row],
             \A r \in Rows : row'[r].status \in Open => row'[r].attempts < MaxAttempts,
             tries' \in [Rows -> 0 .. MaxAttempts + 1], faults' \in 0 .. MaxFaults,
             order' = order, admin' = admin, redrives' = redrives
      PROVE  TypeInv'
  <2>1. PICK d \in Worker : /\ Moves(w, d)
                            /\ d.at = "next" /\ d.todo = worker[w].todo
                            /\ d.task = None /\ d.result = None
    BY <1>0, <1>2, DoneMoves
  <2>2. Sound(d)
    BY <2>1 DEF Sound
  <2> QED
    BY <1>2, <2>1, <2>2, PassTypes
<1>3. CASE Pick(w)
  <2>1. PICK t \in c.todo : Moves(w, [Idle EXCEPT !.todo = c.todo \ {t}, !.task = t,
                                        !.at = IF t.row[2] = "dispatch" THEN "read" ELSE "send"])
    BY <1>3 DEF Pick, Moves
  <2> DEFINE d == [Idle EXCEPT !.todo = c.todo \ {t}, !.task = t,
                     !.at = IF t.row[2] = "dispatch" THEN "read" ELSE "send"]
  <2>2. /\ d.at = IF t.row[2] = "dispatch" THEN "read" ELSE "send"
        /\ d.task = t /\ d.todo = c.todo \ {t} /\ d.result = None /\ t \in Task
    BY <1>0 DEF Idle, Worker
  <2>3. d \in Worker
    BY <1>0, <2>2 DEF Idle, Worker, Stage
  <2> HIDE DEF d
  <2>4. Sound(d)
    BY <2>2, NoneAssumption DEF Sound, Task
  <2> QED
    BY <1>3, <2>1, <2>3, <2>4, PassTypes DEF Pick, d
<1>4. CASE ReadOrder(w)
  <2>1. /\ c.at = "read" /\ tries' = tries /\ faults' = faults
        /\ order' = order /\ admin' = admin /\ redrives' = redrives
    BY <1>4 DEF ReadOrder, At
  <2>2. CASE Go(w, "send") /\ UNCHANGED row
    BY <1>1, <2>1, <2>2
  <2>3. CASE Write(w, "failed") /\ Done(w)
    <3>1. "failed" \in RowStatus /\ "failed" \notin Open
      BY DEF RowStatus, Open, Ended
    <3> QED
      BY <1>2, <2>1, <2>3, <3>1, WriteTypes
  <2> QED
    BY <1>4, <2>2, <2>3 DEF ReadOrder
<1>5. CASE Send(w)
  <2>1. /\ c.at = "send" /\ row' = row /\ faults' = faults
        /\ order' = order /\ admin' = admin /\ redrives' = redrives
    BY <1>5 DEF Send, At
  <2>4. tries' \in [Rows -> 0 .. MaxAttempts + 1]
    <3> DEFINE x == Current(w).row
               k == IF tries[x] <= MaxAttempts THEN tries[x] + 1 ELSE tries[x]
    <3>1. tries' = [tries EXCEPT ![x] = k]
      BY <1>5 DEF Send
    <3>2. tries \in [Rows -> 0 .. MaxAttempts + 1]
      OBVIOUS
    <3>3. x \in Rows => k \in 0 .. MaxAttempts + 1
      BY <3>2
    <3> HIDE DEF x, k
    <3> QED
      BY <3>1, <3>2, <3>3
  <2>2. CASE Go(w, "catch")
    BY <1>1, <2>1, <2>2, <2>4
  <2>3. ASSUME NEW result \in Results(w),
               worker' = [worker EXCEPT ![w].at = "record", ![w].result = result]
        PROVE  TypeInv'
    <3> DEFINE d == [worker[w] EXCEPT !.at = "record", !.result = result]
    <3>1. /\ result \in Ended \union {"retrying"}
          /\ c.task.row[2] = "lifecycle" => result = "dispatched"
          /\ result = "retrying" => Retryable(c.task.attempt)
      BY <2>3, RetryOrFailType DEF Results, Ended, Current
    <3>2. /\ d.at = "record" /\ d.task = c.task /\ d.todo = c.todo /\ d.result = result
          /\ d \in Worker
      BY <1>0, <3>1 DEF Worker, Stage
    <3>3. Moves(w, d)
      BY <2>3 DEF Moves
    <3> HIDE DEF d
    <3>4. Sound(d)
      BY <1>0, <2>1, <3>1, <3>2, NoneAssumption DEF Sound, Ended
    <3> QED
      BY <2>1, <2>4, <3>2, <3>3, <3>4, PassTypes
  <2> QED
    BY <1>5, <2>2, <2>3 DEF Send
\* the outcome a pass writes
<1>6. ASSUME c.at = "record"
      PROVE  /\ c.result \in RowStatus
             /\ c.result \in Open => Retryable(c.task.attempt)
  <2>1. c.result \in Ended \union {"retrying"}
    BY <1>0, <1>6 DEF Sound, Worker
  <2> QED
    BY <1>0, <1>6, <2>1 DEF Sound, RowStatus, Open, Ended
<1>7. /\ RetryOrFail(w) \in RowStatus
      /\ RetryOrFail(w) \in Open => Retryable(c.task.attempt)
  BY RetryOrFailType DEF RowStatus, Open, Ended
<1>8. CASE Record(w)
  <2>1. /\ c.at = "record" /\ Write(w, c.result) /\ tries' = tries /\ faults' = faults
        /\ order' = order /\ admin' = admin /\ redrives' = redrives
        /\ (c.task.row[2] = "dispatch" /\ Go(w, "snapshot")) \/ Done(w)
    BY <1>8 DEF Record, At, Current
  <2> QED
    BY <1>1, <1>2, <1>6, <2>1, WriteTypes
<1>9. CASE Catch(w) \/ CatchFails(w)
  <2>1. /\ c.at = "catch" /\ tries' = tries /\ Done(w)
        /\ order' = order /\ admin' = admin /\ redrives' = redrives
        /\ Write(w, RetryOrFail(w)) \/ row' = row
    BY <1>9 DEF Catch, CatchFails, At
  <2>2. faults' \in 0 .. MaxFaults
    BY <1>9 DEF Catch, CatchFails, Fault
  <2> QED
    BY <1>2, <1>7, <2>1, <2>2, WriteTypes
<1>10. CASE Snapshot(w) \/ ReadFails(w)
  <2>1. /\ row' = row /\ tries' = tries /\ Done(w)
        /\ order' = order /\ admin' = admin /\ redrives' = redrives
        /\ faults' \in 0 .. MaxFaults
    BY <1>10 DEF Snapshot, ReadFails, Fault
  <2> QED
    BY <1>2, <2>1
<1>11. CASE RecordFails(w)
  <2>1. /\ c.at = "record" /\ tries' = tries /\ Go(w, "catch")
        /\ order' = order /\ admin' = admin /\ redrives' = redrives
        /\ Write(w, c.result) \/ row' = row
        /\ faults' \in 0 .. MaxFaults
    BY <1>11 DEF RecordFails, At, Fault
  <2> QED
    BY <1>1, <1>6, <2>1, WriteTypes
<1>12. CASE SnapshotFails(w)
  <2>1. /\ c.at = "snapshot" /\ tries' = tries /\ Go(w, "catch") /\ row' = row
        /\ order' = order /\ admin' = admin /\ redrives' = redrives
        /\ faults' \in 0 .. MaxFaults
    BY <1>12 DEF SnapshotFails, At, Fault
  <2> QED
    BY <1>1, <2>1
<1>13. CASE Crash(w)
  <2>1. Idle \in Worker /\ Sound(Idle) /\ Moves(w, Idle)
    BY <1>13 DEF Idle, Worker, Stage, Sound, Crash, Moves
  <2>2. faults' \in 0 .. MaxFaults
    BY <1>13 DEF Crash, Fault
  <2> QED
    BY <1>13, <2>1, <2>2, PassTypes DEF Crash
<1> QED
  BY <1>3, <1>4, <1>5, <1>8, <1>9, <1>10, <1>11, <1>12, <1>13 DEF Process, FaultStep

LEMMA ClaimTypes ==
  ASSUME TypeInv, NEW w \in Workers, Claim(w)
  PROVE  TypeInv'
<1> USE Types, OutboxAssumption
<1>1. PICK k \in Kinds : \E S \in SUBSET {r \in Rows : r[2] = k /\ row[r].status \in Ready} :
        /\ row' = [r \in Rows |-> IF r \in S THEN [row[r] EXCEPT !.status = "processing"] ELSE row[r]]
        /\ worker' = [worker EXCEPT ![w].todo = {[row |-> r, attempt |-> row[r].attempts + 1] : r \in S}]
  BY DEF Claim
<1>2. PICK S \in SUBSET {r \in Rows : r[2] = k /\ row[r].status \in Ready} :
        /\ row' = [r \in Rows |-> IF r \in S THEN [row[r] EXCEPT !.status = "processing"] ELSE row[r]]
        /\ worker' = [worker EXCEPT ![w].todo = {[row |-> r, attempt |-> row[r].attempts + 1] : r \in S}]
  BY <1>1
<1> DEFINE T == {[row |-> r, attempt |-> row[r].attempts + 1] : r \in S}
           d == [worker[w] EXCEPT !.todo = T]
<1>3. \A r \in S : r \in Rows /\ row[r].attempts + 1 \in 1 .. MaxAttempts
  BY <1>2 DEF Ready, Row
<1>4. T \in SUBSET Task
  BY <1>3 DEF Task
<1>5. Moves(w, d)
  BY <1>2 DEF Moves
<1>6. worker[w] = Idle
  BY DEF Claim
<1>7. d \in Worker /\ d.at = "next" /\ d.task = None
  BY <1>4, <1>6 DEF Worker, Idle, Stage
<1>8. Sound(d)
  BY <1>7 DEF Sound
<1>9. \A r \in Rows : row'[r] \in Row
        /\ (row'[r].status \in Open => row'[r].attempts < MaxAttempts)
  <2> SUFFICES ASSUME NEW r \in Rows
               PROVE  row'[r] \in Row /\ (row'[r].status \in Open => row'[r].attempts < MaxAttempts)
    OBVIOUS
  <2>1. CASE r \in S
    <3>1. row'[r] = [row[r] EXCEPT !.status = "processing"]
      BY <1>2, <2>1
    <3> QED
      BY <3>1 DEF Row, RowStatus, Open
  <2>2. CASE r \notin S
    BY <1>2, <2>2
  <2> QED
    BY <2>1, <2>2
<1>10. row' \in [Rows -> Row]
  <2>1. row' = [r \in Rows |-> IF r \in S THEN [row[r] EXCEPT !.status = "processing"] ELSE row[r]]
    BY <1>2
  <2> QED
    BY <1>9, <2>1
<1>11. /\ tries' \in [Rows -> 0 .. MaxAttempts + 1] /\ faults' \in 0 .. MaxFaults
       /\ order' = order /\ admin' = admin /\ redrives' = redrives
  BY DEF Claim
<1> HIDE DEF d
<1> QED
  BY <1>5, <1>7, <1>8, <1>9, <1>10, <1>11, PassTypes

\* The row r is rewritten, with no attempts yet.
LEMMA ReopenTypes ==
  ASSUME row \in [Rows -> Row],
         \A q \in Rows : row[q].status \in Open => row[q].attempts < MaxAttempts,
         NEW r \in Rows, row' = [row EXCEPT ![r] = [status |-> "pending", attempts |-> 0]]
  PROVE  /\ row' \in [Rows -> Row]
         /\ \A q \in Rows : row'[q].status \in Open => row'[q].attempts < MaxAttempts
<1> DEFINE new == [status |-> "pending", attempts |-> 0]
<1>1. new \in Row /\ new.attempts < MaxAttempts
  BY OutboxAssumption DEF Row, RowStatus, Open
<1> HIDE DEF new
<1>2. row' = [row EXCEPT ![r] = new]
  BY DEF new
<1>3. \A q \in Rows : row'[q] = IF q = r THEN new ELSE row[q]
  BY <1>2
<1> QED
  BY <1>1, <1>2, <1>3

\* A cancellation writes the two rows of its order.
Rewrites(o, new) ==
  /\ row' = [row EXCEPT ![Lifecycle(o)] = new, ![Dispatch(o)] = CancelDispatch(o)]
  /\ \A r \in Rows : row'[r] = IF r = Dispatch(o) THEN CancelDispatch(o)
                               ELSE IF r = Lifecycle(o) THEN new ELSE row[r]

LEMMA CancelledRow ==
  ASSUME TypeInv, NEW o \in Orders
  PROVE  /\ Dispatch(o) \in Rows /\ CancelDispatch(o) \in Row
         /\ CancelDispatch(o) # row[Dispatch(o)] =>
              /\ CancelDispatch(o).status = "failed"
              /\ row[Dispatch(o)].status \in Unended
         /\ row[Dispatch(o)].status \in Unended => CancelDispatch(o).status = "failed"
<1>1. Dispatch(o) \in Rows
  BY DEF Dispatch, Rows, Kinds
<1>2. row[Dispatch(o)] \in Row
  BY <1>1, Types
<1> QED
  BY <1>1, <1>2 DEF CancelDispatch, Row, RowStatus, Ended

LEMMA CancelRewrites ==
  ASSUME TypeInv, NEW o \in Orders, Cancel(o)
  PROVE  \E new \in Row : new.status = "pending" /\ new.attempts = 0 /\ Rewrites(o, new)
<1> DEFINE new == [status |-> "pending", attempts |-> 0]
<1>1. new \in Row /\ new.status = "pending" /\ new.attempts = 0
  BY OutboxAssumption DEF Row, RowStatus, Open
<1>2. row' = [row EXCEPT ![Lifecycle(o)] = new, ![Dispatch(o)] = CancelDispatch(o)]
  BY DEF Cancel
<1>3. Dispatch(o) \in Rows /\ Lifecycle(o) \in Rows /\ Dispatch(o) # Lifecycle(o)
  BY DEF Dispatch, Lifecycle, Rows, Kinds
<1> HIDE DEF new
<1>4. Rewrites(o, new)
  BY <1>2, <1>3, Types DEF Rewrites
<1> QED
  BY <1>1, <1>4

LEMMA OrderTypes ==
  ASSUME TypeInv, NEW o \in Orders, Fill(o) \/ Cancel(o)
  PROVE  TypeInv'
<1> USE Types
<1>1. /\ worker' = worker /\ admin' = admin /\ tries' = tries
      /\ redrives' = redrives /\ faults' = faults
  BY DEF Fill, Cancel
<1>2. order' \in [Orders -> OrderStatus]
  BY DEF Fill, Cancel, OrderStatus
<1>3. /\ row' \in [Rows -> Row]
      /\ \A r \in Rows : row'[r].status \in Open => row'[r].attempts < MaxAttempts
  <2>1. CASE Fill(o)
    BY <2>1 DEF Fill
  <2>2. CASE Cancel(o)
    <3> USE OutboxAssumption
    <3>1. PICK new \in Row : new.status = "pending" /\ new.attempts = 0 /\ Rewrites(o, new)
      BY <2>2, CancelRewrites
    <3>2. row' \in [Rows -> Row]
      BY <3>1, CancelledRow DEF Rewrites
    <3>3. ASSUME NEW r \in Rows, row'[r].status \in Open
          PROVE  row'[r].attempts < MaxAttempts
      BY <3>1, <3>3, CancelledRow DEF Rewrites, Open
    <3> QED
      BY <3>2, <3>3
  <2> QED
    BY <2>1, <2>2
<1> QED
  BY <1>1, <1>2, <1>3 DEF TypeInv, TypeOK

LEMMA RedriveTypes ==
  ASSUME TypeInv, NEW a \in Admins,
         RedriveWrite(a) \/ \E o \in Orders : RedriveRead(a, o)
  PROVE  TypeInv'
<1> USE Types, NoneAssumption, OutboxAssumption
<1>1. worker' = worker /\ order' = order /\ tries' = tries /\ faults' = faults
  BY DEF RedriveWrite, RedriveRead
<1>2. admin' \in [Admins -> Orders \union {None}] /\ redrives' \in 0 .. MaxRedrives
  BY DEF RedriveWrite, RedriveRead
<1>3. /\ row' \in [Rows -> Row]
      /\ \A r \in Rows : row'[r].status \in Open => row'[r].attempts < MaxAttempts
  <2>1. CASE row' = row
    BY <2>1
  <2>2. CASE RedriveWrite(a)
    <3>1. Dispatch(admin[a]) \in Rows
      BY <2>2 DEF RedriveWrite, Dispatch, Rows, Kinds
    <3> QED
      BY <2>2, <3>1, ReopenTypes DEF RedriveWrite
  <2> QED
    BY <2>1, <2>2 DEF RedriveRead
<1> QED
  BY <1>1, <1>2, <1>3 DEF TypeInv, TypeOK

LEMMA TypeNext == TypeInv /\ [Next]_vars => TypeInv'
<1> SUFFICES ASSUME TypeInv, [Next]_vars PROVE TypeInv'
  OBVIOUS
<1>1. CASE UNCHANGED vars
  BY <1>1 DEF vars, TypeInv, TypeOK, Sound
<1>2. CASE \E o \in Orders : Fill(o) \/ Cancel(o)
  BY <1>2, OrderTypes
<1>3. CASE \E w \in Workers : Claim(w) \/ Process(w) \/ FaultStep(w)
  BY <1>3, ClaimTypes, ProcessTypes
<1>4. CASE \E a \in Admins : RedriveWrite(a) \/ \E o \in Orders : RedriveRead(a, o)
  BY <1>4, RedriveTypes
<1> QED
  BY <1>1, <1>2, <1>3, <1>4 DEF Next

LEMMA TypeInvariant == Spec => []TypeInv
BY TypeInit, TypeNext, PTL DEF Spec

\* Every state is well typed: a row that is ready has an attempt left, whatever
\* crashes or fails.
THEOREM OutboxTypeOK == Spec => []TypeOK
<1>1. TypeInv => TypeOK
  BY DEF TypeInv
<1> QED
  BY <1>1, TypeInvariant, PTL

-----------------------------------------------------------------------------
(* What a step of a pass may do *)

\* w becomes d: it keeps rows it held, and writes only the row in its hands, and
\* that for the last time, unless its write is reported to have failed.
Holds(w, d) ==
  /\ d \in Worker /\ Moves(w, d) /\ Neat(d)
  /\ order' = order /\ admin' = admin /\ redrives' = redrives
  /\ faults' \in {faults, faults + 1}
  /\ \A r \in Rows : r[2] = "lifecycle" \/ faults' = 0 =>
       /\ Has(d, r) => Has(worker[w], r)
       /\ worker[w].at = "catch" /\ worker[w].task.row = r => ~Has(d, r)
       /\ row'[r] # row[r] /\ Has(d, r) =>
            /\ faults' > 0 /\ d.at = "catch" /\ d.task.row = r
            /\ row'[r].status = "dispatched"

\* It sends what it was going to send, and writes the attempts it knows of.
Counts(w, d) ==
  /\ d.todo \subseteq worker[w].todo
  /\ d.at \in {"read", "send"} =>
       \/ worker[w].at = "next" /\ d.task \in worker[w].todo
       \/ worker[w].at = "read" /\ d.task = worker[w].task
  /\ d.at \in {"record", "catch"} =>
       /\ d.task = worker[w].task
       /\ \/ worker[w].at \in {"send", "record"}
          \/ faults' > 0 /\ d.task.row[2] = "dispatch"
  /\ \A r \in Rows :
       tries'[r] = IF /\ worker[w].at = "send" /\ d.at \in {"record", "catch"}
                      /\ worker[w].task.row = r /\ tries[r] <= MaxAttempts
                   THEN tries[r] + 1 ELSE tries[r]

Writes(w) ==
  \A r \in Rows : row'[r] # row[r] =>
    /\ Working(worker[w]) /\ worker[w].task.row = r
    /\ r[2] = "lifecycle" => worker[w].at \in {"record", "catch"}
    /\ row'[r].status # "none"
    /\ row'[r].status \in Open =>
         worker[w].at \in {"record", "catch"} /\ row'[r].attempts = worker[w].task.attempt
    /\ row'[r].status = "failed" /\ r[2] = "lifecycle" =>
         worker[w].at = "catch" /\ worker[w].task.attempt = MaxAttempts

PassStep(w, d) == Holds(w, d) /\ Counts(w, d) /\ Writes(w)

LEMMA WriteWrites ==
  ASSUME TypeInv, NEW w \in Workers, worker[w].at # "next", NEW s \in RowStatus, Write(w, s)
  PROVE  \A r \in Rows :
           /\ r # worker[w].task.row => row'[r] = row[r]
           /\ r = worker[w].task.row =>
                row'[r].status = s /\ row'[r].attempts = worker[w].task.attempt
<1> DEFINE new == [status |-> s, attempts |-> worker[w].task.attempt]
<1>1. row' = [row EXCEPT ![worker[w].task.row] = new]
  BY DEF Write, Current
<1>2. new.status = s /\ new.attempts = worker[w].task.attempt
  OBVIOUS
<1> HIDE DEF new
<1> QED
  BY <1>1, <1>2, Types

LEMMA PassSteps ==
  ASSUME TypeInv, NEW w \in Workers, Neat(worker[w]), Process(w) \/ FaultStep(w)
  PROVE  \E d : PassStep(w, d)
<1> USE Types, OutboxAssumption
<1> DEFINE c == worker[w]
<1>0. c \in Worker /\ Sound(c) /\ TypeOK
  BY DEF TypeInv
<1>1. CASE Pick(w)
  <2>1. PICK t \in c.todo : Moves(w, [Idle EXCEPT !.todo = c.todo \ {t}, !.task = t,
                                        !.at = IF t.row[2] = "dispatch" THEN "read" ELSE "send"])
    BY <1>1 DEF Pick, Moves
  <2> DEFINE d == [Idle EXCEPT !.todo = c.todo \ {t}, !.task = t,
                     !.at = IF t.row[2] = "dispatch" THEN "read" ELSE "send"]
  <2>2. /\ d.at \in {"read", "send"}
        /\ d.task = t /\ d.todo = c.todo \ {t} /\ d.result = None /\ t \in Task
    BY <1>0 DEF Idle, Worker
  <2>3. d \in Worker
    BY <1>0, <2>2 DEF Idle, Worker, Stage
  <2>4. Moves(w, d)
    BY <2>1
  <2> HIDE DEF d
  <2>5. /\ c.at = "next" /\ row' = row /\ tries' = tries /\ order' = order
        /\ admin' = admin /\ redrives' = redrives /\ faults' = faults
    BY <1>1 DEF Pick
  <2>6. Neat(d)
    BY <2>2 DEF Neat
  <2>7. \A r \in Rows : Has(d, r) => Has(c, r)
    BY <2>2 DEF Has
  <2>8. Holds(w, d)
    BY <2>3, <2>4, <2>5, <2>6, <2>7 DEF Holds
  <2>9. Counts(w, d) /\ Writes(w)
    BY <2>2, <2>5 DEF Counts, Writes
  <2> QED
    BY <2>8, <2>9 DEF PassStep
\* the row in its hands is written and done, or nothing is
<1>2. ASSUME Done(w), tries' = tries, order' = order, admin' = admin, redrives' = redrives,
             faults' \in {faults, faults + 1}, Writes(w)
      PROVE  \E d : PassStep(w, d)
  <2>1. PICK d \in Worker : /\ Moves(w, d)
                            /\ d.at = "next" /\ d.todo = worker[w].todo
                            /\ d.task = None /\ d.result = None
    BY <1>0, <1>2, DoneMoves
  <2>2. Neat(d)
    BY <2>1 DEF Neat
  <2>3. \A r \in Rows : /\ Has(d, r) => Has(c, r)
                        /\ Working(c) /\ c.task.row = r => ~Has(d, r)
    BY <2>1 DEF Has, Working, Neat
  <2>4. Holds(w, d)
    BY <1>2, <2>1, <2>2, <2>3 DEF Holds, Writes, Working
  <2>5. Counts(w, d)
    BY <1>2, <2>1 DEF Counts
  <2> QED
    BY <1>2, <2>4, <2>5 DEF PassStep
\* a stage that leads to another one
<1>3. ASSUME NEW s \in {"send", "record", "snapshot", "catch"}, NEW d \in Worker, Moves(w, d),
             d.at = s, d.todo = c.todo, d.task = c.task,
             order' = order, admin' = admin, redrives' = redrives, faults' \in {faults, faults + 1},
             Writes(w),
             \/ c.at = "read" /\ s = "send" /\ tries' = tries /\ row' = row
             \/ /\ c.at = "send" /\ s \in {"record", "catch"} /\ row' = row
                /\ tries' = [tries EXCEPT ![c.task.row] = IF @ <= MaxAttempts THEN @ + 1 ELSE @]
             \/ c.at = "record" /\ s = "snapshot" /\ tries' = tries
             \/ /\ c.at = "record" /\ s = "catch" /\ tries' = tries /\ faults' > 0
                /\ \/ row' = row
                   \/ c.task.row[2] = "lifecycle" => row'[c.task.row].status = "dispatched"
             \/ /\ c.at = "snapshot" /\ s = "catch" /\ tries' = tries /\ row' = row
                /\ faults' > 0 /\ c.task.row[2] = "dispatch"
      PROVE  PassStep(w, d)
  <2>1. Neat(d)
    BY <1>3 DEF Neat
  <2>2. \A r \in Rows : r[2] = "lifecycle" \/ faults' = 0 =>
          /\ Has(d, r) => Has(c, r)
          /\ c.at = "catch" /\ c.task.row = r => ~Has(d, r)
    BY <1>3 DEF Has, Working
  <2>3. \A r \in Rows : r[2] = "lifecycle" \/ faults' = 0 =>
          (row'[r] # row[r] /\ Has(d, r) =>
            /\ faults' > 0 /\ d.at = "catch" /\ d.task.row = r
            /\ row'[r].status = "dispatched")
    <3> SUFFICES ASSUME NEW r \in Rows, r[2] = "lifecycle" \/ faults' = 0,
                        row'[r] # row[r], Has(d, r)
                 PROVE  /\ faults' > 0 /\ d.at = "catch" /\ d.task.row = r
                        /\ row'[r].status = "dispatched"
      OBVIOUS
    <3>1. Working(c) /\ c.task.row = r
      BY <1>3 DEF Writes
    <3>2. Working(d)
      BY <1>3, <3>1 DEF Has, Neat, Working
    <3> QED
      BY <1>3, <3>1, <3>2 DEF Working
  <2>4. Holds(w, d)
    BY <1>3, <2>1, <2>2, <2>3 DEF Holds
  <2>5. \A r \in Rows :
          tries'[r] = IF /\ c.at = "send" /\ d.at \in {"record", "catch"}
                         /\ c.task.row = r /\ tries[r] <= MaxAttempts
                      THEN tries[r] + 1 ELSE tries[r]
    BY <1>3
  <2>6. Counts(w, d)
    BY <1>3, <2>5 DEF Counts
  <2> QED
    BY <1>3, <2>4, <2>6 DEF PassStep
\* no write, or the write of an outcome
<1>4. row' = row => Writes(w)
  BY DEF Writes
<1>5. ASSUME NEW s \in RowStatus, Write(w, s), Working(c), s # "none",
             s \in Open => c.at \in {"record", "catch"},
             s = "failed" /\ c.task.row[2] = "lifecycle" =>
               c.at = "catch" /\ c.task.attempt = MaxAttempts,
             c.task.row[2] = "lifecycle" => c.at \in {"record", "catch"}
      PROVE  Writes(w)
  <2>1. c.at # "next"
    BY <1>5 DEF Working
  <2> QED
    BY <1>5, <2>1, WriteWrites DEF Writes
<1>6. ASSUME c.at = "record"
      PROVE  /\ c.result \in RowStatus /\ c.result # "none" /\ Working(c)
             /\ c.task.row[2] = "lifecycle" => c.result = "dispatched"
  BY <1>0, <1>6 DEF Sound, Worker, RowStatus, Ended, Open, Working
<1>7. ASSUME c.at = "record", Write(w, c.result)
      PROVE  Writes(w)
  BY <1>5, <1>6, <1>7 DEF Open
<1>8. ASSUME c.at = "catch", Write(w, RetryOrFail(w))
      PROVE  Writes(w)
  <2>1. /\ RetryOrFail(w) \in {"retrying", "failed"}
        /\ RetryOrFail(w) = "failed" => ~(c.task.attempt < MaxAttempts)
    BY DEF RetryOrFail, Retryable, Current
  <2>2. c.task.attempt \in 1 .. MaxAttempts
    BY <1>8, TaskType
  <2> QED
    BY <1>5, <1>8, <2>1, <2>2 DEF RowStatus, Open, Ended, Working
<1>9. c.at # "next" => c.task.row[2] \in Kinds /\ (c.at = "snapshot" => c.task.row[2] = "dispatch")
  BY <1>0, TaskType DEF Sound, Kinds
<1>10. CASE ReadOrder(w)
  <2>1. /\ c.at = "read" /\ tries' = tries /\ faults' = faults
        /\ order' = order /\ admin' = admin /\ redrives' = redrives
    BY <1>10 DEF ReadOrder, At
  <2>2. CASE Go(w, "send") /\ row' = row
    <3>1. PICK d \in Worker : /\ Moves(w, d) /\ d.at = "send" /\ d.todo = c.todo /\ d.task = c.task
      BY <1>0, <2>2, StagesDiffer, GoMoves
    <3> QED
      BY <1>3, <1>4, <2>1, <2>2, <3>1
  <2>3. CASE Write(w, "failed") /\ Done(w)
    <3>1. c.task.row[2] # "lifecycle"
      BY <1>0, <2>1 DEF Sound
    <3>2. "failed" \in RowStatus /\ "failed" \notin Open /\ Working(c)
      BY <2>1 DEF RowStatus, Ended, Open, Working
    <3>3. Writes(w)
      BY <1>5, <2>1, <2>3, <3>1, <3>2
    <3> QED
      BY <1>2, <2>1, <2>3, <3>3
  <2> QED
    BY <1>10, <2>2, <2>3 DEF ReadOrder
<1>11. CASE Send(w)
  <2>1. /\ c.at = "send" /\ row' = row /\ faults' = faults
        /\ order' = order /\ admin' = admin /\ redrives' = redrives
        /\ tries' = [tries EXCEPT ![c.task.row] = IF @ <= MaxAttempts THEN @ + 1 ELSE @]
    BY <1>11 DEF Send, At, Current
  <2>2. CASE Go(w, "catch")
    <3>1. PICK d \in Worker : /\ Moves(w, d) /\ d.at = "catch" /\ d.todo = c.todo /\ d.task = c.task
      BY <1>0, <2>2, StagesDiffer, GoMoves
    <3> QED
      BY <1>3, <1>4, <2>1, <3>1
  <2>3. ASSUME NEW result \in Results(w),
               worker' = [worker EXCEPT ![w].at = "record", ![w].result = result]
        PROVE  \E d : PassStep(w, d)
    <3> DEFINE d == [worker[w] EXCEPT !.at = "record", !.result = result]
    <3>1. result \in Ended \union {"retrying"}
      BY <2>3, RetryOrFailType DEF Results, Ended
    <3>2. d.at = "record" /\ d.task = c.task /\ d.todo = c.todo /\ d \in Worker
      BY <1>0, <3>1 DEF Worker, Stage
    <3>3. Moves(w, d)
      BY <2>3 DEF Moves
    <3> HIDE DEF d
    <3> QED
      BY <1>3, <1>4, <2>1, <3>2, <3>3
  <2> QED
    BY <1>11, <2>2, <2>3 DEF Send
<1>12. CASE Record(w)
  <2>1. /\ c.at = "record" /\ Write(w, c.result) /\ tries' = tries /\ faults' = faults
        /\ order' = order /\ admin' = admin /\ redrives' = redrives
        /\ Go(w, "snapshot") \/ Done(w)
    BY <1>12 DEF Record, At
  <2>2. CASE Go(w, "snapshot")
    <3>1. PICK d \in Worker : /\ Moves(w, d) /\ d.at = "snapshot" /\ d.todo = c.todo /\ d.task = c.task
      BY <1>0, <2>2, StagesDiffer, GoMoves
    <3> QED
      BY <1>3, <1>7, <2>1, <3>1
  <2> QED
    BY <1>2, <1>7, <2>1, <2>2
<1>13. CASE RecordFails(w)
  <2>1. /\ c.at = "record" /\ tries' = tries /\ Go(w, "catch")
        /\ order' = order /\ admin' = admin /\ redrives' = redrives
        /\ Write(w, c.result) \/ row' = row
        /\ faults' > 0 /\ faults' \in {faults, faults + 1}
    BY <1>13 DEF RecordFails, At, Fault
  <2>2. PICK d \in Worker : /\ Moves(w, d) /\ d.at = "catch" /\ d.todo = c.todo /\ d.task = c.task
    BY <1>0, <2>1, StagesDiffer, GoMoves
  <2>3. Writes(w)
    BY <1>4, <1>7, <2>1
  <2>4. \/ row' = row
        \/ c.task.row[2] = "lifecycle" => row'[c.task.row].status = "dispatched"
    BY <1>6, <2>1, WriteWrites, TaskType
  <2> QED
    BY <1>3, <2>1, <2>2, <2>3, <2>4
<1>14. CASE SnapshotFails(w)
  <2>1. /\ c.at = "snapshot" /\ tries' = tries /\ Go(w, "catch") /\ row' = row
        /\ order' = order /\ admin' = admin /\ redrives' = redrives
        /\ faults' > 0 /\ faults' \in {faults, faults + 1}
    BY <1>14 DEF SnapshotFails, At, Fault
  <2>2. PICK d \in Worker : /\ Moves(w, d) /\ d.at = "catch" /\ d.todo = c.todo /\ d.task = c.task
    BY <1>0, <2>1, StagesDiffer, GoMoves
  <2> QED
    BY <1>3, <1>4, <1>9, <2>1, <2>2
<1>15. CASE Catch(w) \/ CatchFails(w)
  <2>1. /\ c.at = "catch" /\ tries' = tries /\ Done(w)
        /\ order' = order /\ admin' = admin /\ redrives' = redrives
        /\ Write(w, RetryOrFail(w)) \/ row' = row
    BY <1>15 DEF Catch, CatchFails, At
  <2>2. faults' \in {faults, faults + 1}
    BY <1>15 DEF Catch, CatchFails, Fault
  <2> QED
    BY <1>2, <1>4, <1>8, <2>1, <2>2
<1>16. CASE Snapshot(w) \/ ReadFails(w)
  <2>1. /\ row' = row /\ tries' = tries /\ Done(w)
        /\ order' = order /\ admin' = admin /\ redrives' = redrives
        /\ faults' \in {faults, faults + 1}
    BY <1>16 DEF Snapshot, ReadFails, Fault
  <2> QED
    BY <1>2, <1>4, <2>1
<1>17. CASE Crash(w)
  <2>1. /\ Idle \in Worker /\ Idle.at = "next" /\ Idle.todo = {} /\ Neat(Idle)
        /\ \A r : ~Has(Idle, r)
    BY DEF Idle, Worker, Stage, Neat, Has, Working
  <2>2. /\ Moves(w, Idle) /\ row' = row /\ tries' = tries
        /\ order' = order /\ admin' = admin /\ redrives' = redrives
        /\ faults' \in {faults, faults + 1}
    BY <1>17 DEF Crash, Moves, Fault
  <2>3. Holds(w, Idle)
    BY <2>1, <2>2 DEF Holds
  <2>4. Counts(w, Idle) /\ Writes(w)
    BY <2>1, <2>2 DEF Counts, Writes
  <2> QED
    BY <2>3, <2>4 DEF PassStep
<1> QED
  BY <1>1, <1>10, <1>11, <1>12, <1>13, <1>14, <1>15, <1>16, <1>17 DEF Process, FaultStep

-----------------------------------------------------------------------------
(* One owner: the step *)

LEMMA OwnerInit == Init => OwnerInv
<1> SUFFICES ASSUME Init PROVE OwnerInv
  OBVIOUS
<1>1. \A w \in Workers : worker[w] = Idle
  BY DEF Init
<1>2. Neat(Idle) /\ \A r : ~Has(Idle, r)
  BY DEF Idle, Neat, Has, Working
<1>3. \A o \in Orders : row[Lifecycle(o)].status = "none"
  BY DEF Init, Lifecycle, Rows, Kinds
<1>4. \A a \in Admins : admin[a] = None
  BY DEF Init
<1> QED
  BY <1>1, <1>2, <1>3, <1>4 DEF OwnerInv

\* What is written is the row of a pass that holds it, in processing.
LEMMA WrittenIsHeld ==
  ASSUME TypeInv, OwnerInv, NEW w \in Workers, Writes(w), NEW r \in Rows, row'[r] # row[r],
         Protected(r)
  PROVE  Has(worker[w], r) /\ Marked(w, r)
BY DEF Writes, Has, OwnerInv

LEMMA OwnerPass ==
  ASSUME TypeInv, OwnerInv, NEW w \in Workers, NEW d, PassStep(w, d)
  PROVE  /\ OwnerInv'
         /\ \A r \in Rows : faults' = 0 /\ Calm(r[1]) =>
              (row[r].status = "dispatched" => row'[r] = row[r])
<1> USE Types
<1>0. /\ Holds(w, d) /\ Writes(w) /\ d \in Worker /\ Neat(d)
      /\ order' = order /\ admin' = admin /\ redrives' = redrives
      /\ faults' \in {faults, faults + 1} /\ faults \in Nat /\ (faults' = 0 => faults = 0)
      /\ \A v \in Workers : worker'[v] = IF v = w THEN d ELSE worker[v]
  BY MovesTo DEF PassStep, Holds, TypeInv
<1>1. \A v \in Workers : Neat(worker'[v])
  BY <1>0 DEF OwnerInv
<1>2. \A r \in Rows : Protected(r)' => Protected(r) /\ (r[2] = "lifecycle" \/ faults' = 0)
  BY <1>0 DEF Protected, Calm
<1>3. \A r \in Rows : Protected(r)' =>
        \A v \in Workers : Has(worker'[v], r) => Has(worker[v], r)
  BY <1>0, <1>2 DEF Holds
<1>4. \A r \in Rows : Protected(r)' =>
        \A u, v \in Workers : Has(worker'[u], r) /\ Has(worker'[v], r) => u = v
  BY <1>2, <1>3 DEF OwnerInv
<1>5. ASSUME NEW r \in Rows, Protected(r)', NEW v \in Workers, Has(worker'[v], r)
      PROVE  Marked(v, r)'
  <2>1. Protected(r) /\ Has(worker[v], r) /\ Marked(v, r)
    BY <1>2, <1>3, <1>5 DEF OwnerInv
  <2>2. CASE row'[r] = row[r]
    <3>1. CASE v = w
      <4>1. ~(worker[w].at = "catch" /\ worker[w].task.row = r)
        BY <1>0, <1>2, <1>5, <3>1 DEF Holds
      <4> QED
        BY <1>0, <2>1, <2>2, <3>1, <4>1 DEF Marked
    <3>2. CASE v # w
      BY <1>0, <2>1, <2>2, <3>2 DEF Marked
    <3> QED
      BY <3>1, <3>2
  <2>3. CASE row'[r] # row[r]
    <3>1. Has(worker[w], r)
      BY <1>0, <2>1, <2>3, WrittenIsHeld
    <3>2. v = w
      BY <2>1, <3>1 DEF OwnerInv
    <3>3. /\ faults' > 0 /\ d.at = "catch" /\ d.task.row = r
          /\ row'[r].status = "dispatched"
      BY <1>0, <1>2, <1>5, <2>3, <3>2 DEF Holds
    <3> QED
      BY <1>0, <3>2, <3>3 DEF Marked
  <2> QED
    BY <2>2, <2>3
<1>6. ASSUME NEW o \in Orders, order'[o] # "cancelled"
      PROVE  row'[Lifecycle(o)].status = "none"
  <2>1. Lifecycle(o) \in Rows /\ Protected(Lifecycle(o)) /\ Lifecycle(o)[2] = "lifecycle"
    BY DEF Lifecycle, Rows, Kinds, Protected
  <2>2. row[Lifecycle(o)].status = "none"
    BY <1>0, <1>6 DEF OwnerInv
  <2>3. row'[Lifecycle(o)] = row[Lifecycle(o)]
    BY <1>0, <2>1, <2>2, WrittenIsHeld DEF Marked
  <2> QED
    BY <2>2, <2>3
<1>7. redrives' = 0 => \A a \in Admins : admin'[a] = None
  BY <1>0 DEF OwnerInv
<1>8. faults' = 0 /\ redrives' <= 1 =>
        /\ \A a, b \in Admins : admin'[a] # None /\ admin'[b] # None => a = b
        /\ \A a \in Admins : admin'[a] # None /\ order'[admin'[a]] # "cancelled" =>
             row'[Dispatch(admin'[a])].status = "failed"
  <2> SUFFICES ASSUME faults' = 0, redrives' <= 1
               PROVE  /\ \A a, b \in Admins : admin'[a] # None /\ admin'[b] # None => a = b
                      /\ \A a \in Admins : admin'[a] # None /\ order'[admin'[a]] # "cancelled" =>
                           row'[Dispatch(admin'[a])].status = "failed"
    OBVIOUS
  <2>1. faults = 0 /\ redrives <= 1
    BY <1>0
  <2>2. \A a, b \in Admins : admin'[a] # None /\ admin'[b] # None => a = b
    BY <1>0, <2>1 DEF OwnerInv
  <2>3. ASSUME NEW a \in Admins, admin'[a] # None, order'[admin'[a]] # "cancelled"
        PROVE  row'[Dispatch(admin'[a])].status = "failed"
    <3> DEFINE r == Dispatch(admin[a])
    <3>1. /\ r \in Rows /\ Protected(r) /\ row[r].status = "failed"
          /\ order[r[1]] # "cancelled"
      <4>1. admin[a] \in Orders
        BY <1>0, <2>3
      <4>2. r \in Rows
        BY <4>1 DEF Dispatch, Rows, Kinds
      <4>3. Protected(r) /\ order[r[1]] # "cancelled"
        <5>1. r[1] = admin[a] /\ order[admin[a]] # "cancelled"
          BY <1>0, <2>3 DEF Dispatch
        <5>2. redrives \in Nat
          BY OutboxAssumption
        <5> QED
          BY <2>1, <5>1, <5>2 DEF Protected, Calm
      <4>4. row[r].status = "failed"
        BY <1>0, <2>1, <2>3 DEF OwnerInv
      <4> QED
        BY <4>2, <4>3, <4>4
    <3>2. row'[r] = row[r]
      <4> HIDE DEF r
      <4> QED
        BY <1>0, <2>1, <3>1, WrittenIsHeld DEF Marked
    <3> QED
      BY <1>0, <3>1, <3>2
  <2> QED
    BY <2>2, <2>3
<1>9. OwnerInv'
  BY <1>1, <1>4, <1>5, <1>6, <1>7, <1>8 DEF OwnerInv
<1>10. ASSUME NEW r \in Rows, faults' = 0, Calm(r[1]), row[r].status = "dispatched"
       PROVE  row'[r] = row[r]
  <2>1. faults = 0 /\ Protected(r)
    BY <1>0, <1>10 DEF Protected
  <2> QED
    BY <1>0, <1>10, <2>1, WrittenIsHeld DEF Marked
<1> QED
  BY <1>9, <1>10

LEMMA OwnerClaim ==
  ASSUME TypeInv, OwnerInv, NEW w \in Workers, Claim(w)
  PROVE  /\ OwnerInv'
         /\ \A r \in Rows : row[r].status = "dispatched" => row'[r] = row[r]
<1> USE Types
<1>1. PICK k \in Kinds : \E S \in SUBSET {r \in Rows : r[2] = k /\ row[r].status \in Ready} :
        /\ row' = [r \in Rows |-> IF r \in S THEN [row[r] EXCEPT !.status = "processing"] ELSE row[r]]
        /\ worker' = [worker EXCEPT ![w].todo = {[row |-> r, attempt |-> row[r].attempts + 1] : r \in S}]
  BY DEF Claim
<1>2. PICK S \in SUBSET {r \in Rows : r[2] = k /\ row[r].status \in Ready} :
        /\ row' = [r \in Rows |-> IF r \in S THEN [row[r] EXCEPT !.status = "processing"] ELSE row[r]]
        /\ worker' = [worker EXCEPT ![w].todo = {[row |-> r, attempt |-> row[r].attempts + 1] : r \in S}]
  BY <1>1
<1> DEFINE T == {[row |-> r, attempt |-> row[r].attempts + 1] : r \in S}
           d == [worker[w] EXCEPT !.todo = T]
<1>3. /\ order' = order /\ admin' = admin /\ redrives' = redrives /\ faults' = faults
      /\ worker[w] = Idle
  BY DEF Claim
<1>4. d.at = "next" /\ d.todo = T
  BY <1>3 DEF Idle
<1>5. Neat(d) /\ (\A r : Has(d, r) => r \in S)
  BY <1>4 DEF Neat, Has, Working
<1>6. \A v \in Workers : worker'[v] = IF v = w THEN d ELSE worker[v]
  BY <1>2
<1> HIDE DEF d, T
<1>7. \A r \in Rows : /\ r \notin S => row'[r] = row[r]
                      /\ r \in S => /\ row'[r].status = "processing"
                                    /\ row[r].status \in {"pending", "retrying"}
  <2> SUFFICES ASSUME NEW r \in Rows
               PROVE  /\ r \notin S => row'[r] = row[r]
                      /\ r \in S => /\ row'[r].status = "processing"
                                    /\ row[r].status \in {"pending", "retrying"}
    OBVIOUS
  <2>1. row'[r] = IF r \in S THEN [row[r] EXCEPT !.status = "processing"] ELSE row[r]
    BY <1>2
  <2>2. r \in S => row[r].status \in {"pending", "retrying"}
    BY <1>2 DEF Ready, Open
  <2> QED
    BY <2>1, <2>2 DEF Row
<1>8. \A r \in Rows : Protected(r)' <=> Protected(r)
  BY <1>3 DEF Protected, Calm
\* nobody holds what is ready
<1>9. \A r \in Rows : Protected(r) /\ r \in S => \A v \in Workers : ~Has(worker[v], r)
  BY <1>7 DEF OwnerInv, Marked
<1>10. \A v \in Workers : Neat(worker'[v])
  BY <1>5, <1>6 DEF OwnerInv
<1>11. ASSUME NEW r \in Rows, Protected(r)'
       PROVE  /\ \A u, v \in Workers : Has(worker'[u], r) /\ Has(worker'[v], r) => u = v
              /\ \A v \in Workers : Has(worker'[v], r) => Marked(v, r)'
  <2>1. Protected(r)
    BY <1>8, <1>11
  <2>2. CASE r \in S
    <3>1. \A v \in Workers : Has(worker'[v], r) => v = w
      BY <1>6, <1>9, <2>1, <2>2
    <3>2. row'[r].status = "processing"
      BY <1>7, <2>2
    <3> QED
      BY <3>1, <3>2 DEF Marked
  <2>3. CASE r \notin S
    <3>1. \A v \in Workers : Has(worker'[v], r) => v # w /\ Has(worker[v], r) /\ worker'[v] = worker[v]
      BY <1>5, <1>6, <2>3
    <3>2. row'[r] = row[r]
      BY <1>7, <2>3
    <3> QED
      BY <1>3, <2>1, <3>1, <3>2 DEF Marked, OwnerInv
  <2> QED
    BY <2>2, <2>3
<1>12. \A o \in Orders : order'[o] # "cancelled" => row'[Lifecycle(o)].status = "none"
  <2> SUFFICES ASSUME NEW o \in Orders, order'[o] # "cancelled"
               PROVE  row'[Lifecycle(o)].status = "none"
    OBVIOUS
  <2>1. row[Lifecycle(o)].status = "none"
    BY <1>3 DEF OwnerInv
  <2>2. Lifecycle(o) \in Rows
    BY DEF Lifecycle, Rows, Kinds
  <2> QED
    BY <1>7, <2>1, <2>2
<1>13. redrives' = 0 => \A a \in Admins : admin'[a] = None
  BY <1>3 DEF OwnerInv
<1>14. faults' = 0 /\ redrives' <= 1 =>
         /\ \A a, b \in Admins : admin'[a] # None /\ admin'[b] # None => a = b
         /\ \A a \in Admins : admin'[a] # None /\ order'[admin'[a]] # "cancelled" =>
              row'[Dispatch(admin'[a])].status = "failed"
  <2> SUFFICES ASSUME faults = 0, redrives <= 1
               PROVE  /\ \A a, b \in Admins : admin[a] # None /\ admin[b] # None => a = b
                      /\ \A a \in Admins : admin[a] # None /\ order[admin[a]] # "cancelled" =>
                           row'[Dispatch(admin[a])].status = "failed"
    BY <1>3
  <2>1. \A a, b \in Admins : admin[a] # None /\ admin[b] # None => a = b
    BY DEF OwnerInv
  <2>2. ASSUME NEW a \in Admins, admin[a] # None, order[admin[a]] # "cancelled"
        PROVE  row'[Dispatch(admin[a])].status = "failed"
    <3>1. row[Dispatch(admin[a])].status = "failed"
      BY <2>2 DEF OwnerInv
    <3>2. Dispatch(admin[a]) \in Rows
      BY <2>2 DEF Dispatch, Rows, Kinds
    <3> QED
      BY <1>7, <3>1, <3>2
  <2> QED
    BY <2>1, <2>2
<1>15. OwnerInv'
  BY <1>10, <1>11, <1>12, <1>13, <1>14 DEF OwnerInv
<1>16. \A r \in Rows : row[r].status = "dispatched" => row'[r] = row[r]
  BY <1>7
<1> QED
  BY <1>15, <1>16

\* A dispatch nobody holds is opened again; nothing else of the rows changes.
LEMMA OwnerReopen ==
  ASSUME TypeInv, OwnerInv, NEW q \in Rows,
         row' = [row EXCEPT ![q] = [status |-> "pending", attempts |-> 0]],
         q[2] = "dispatch", faults = 0 /\ Calm(q[1]) => row[q].status = "failed",
         worker' = worker, faults' = faults, redrives' = redrives, order' = order,
         redrives # 0
  PROVE  /\ \A r \in Rows : Protected(r)' =>
              /\ \A v, w \in Workers : Has(worker'[v], r) /\ Has(worker'[w], r) => v = w
              /\ \A w \in Workers : Has(worker'[w], r) => Marked(w, r)'
         /\ \A r \in Rows : faults' = 0 /\ Calm(r[1]) =>
              (row[r].status = "dispatched" => row'[r] = row[r])
<1> USE Types
<1>1. \A r \in Rows : /\ Protected(r)' <=> Protected(r)
                      /\ r # q => row'[r] = row[r]
  BY DEF Protected, Calm
<1>2. ASSUME Protected(q), NEW w \in Workers, Has(worker[w], q)
      PROVE  FALSE
  <2>1. faults = 0 /\ Calm(q[1]) /\ Marked(w, q)
    BY <1>2 DEF OwnerInv, Protected
  <2> QED
    BY <2>1 DEF Marked, Calm
<1>3. ASSUME NEW r \in Rows, Protected(r)'
      PROVE  /\ \A v, w \in Workers : Has(worker'[v], r) /\ Has(worker'[w], r) => v = w
             /\ \A w \in Workers : Has(worker'[w], r) => Marked(w, r)'
  <2>1. Protected(r)
    BY <1>1, <1>3
  <2>2. CASE r = q
    BY <1>2, <2>1, <2>2
  <2>3. CASE r # q
    BY <1>1, <2>1, <2>3 DEF OwnerInv, Marked
  <2> QED
    BY <2>2, <2>3
<1>4. ASSUME NEW r \in Rows, faults' = 0, Calm(r[1]), row[r].status = "dispatched"
      PROVE  row'[r] = row[r]
  BY <1>1, <1>4
<1> QED
  BY <1>3, <1>4

\* A cancellation leaves what is protected held by one pass.
LEMMA OwnerCancel ==
  ASSUME TypeInv, OwnerInv, NEW o \in Orders, Cancel(o)
  PROVE  /\ \A r \in Rows : Protected(r)' =>
              /\ \A v, w \in Workers : Has(worker'[v], r) /\ Has(worker'[w], r) => v = w
              /\ \A w \in Workers : Has(worker'[w], r) => Marked(w, r)'
         /\ \A r \in Rows : faults' = 0 /\ Calm(r[1]) =>
              (row[r].status = "dispatched" => row'[r] = row[r])
<1> USE Types
<1>1. /\ worker' = worker /\ redrives' = redrives /\ faults' = faults
      /\ order[o] # "cancelled" /\ order' = [order EXCEPT ![o] = "cancelled"]
  BY DEF Cancel
<1>2. PICK new \in Row : Rewrites(o, new)
  BY CancelRewrites
<1>3. /\ Lifecycle(o) \in Rows /\ Lifecycle(o)[2] = "lifecycle" /\ Dispatch(o) \in Rows
      /\ Dispatch(o)[1] = o /\ Dispatch(o)[2] = "dispatch"
      /\ row[Lifecycle(o)].status = "none"
  BY <1>1 DEF Lifecycle, Dispatch, Rows, Kinds, OwnerInv
<1>4. \A r \in Rows : r[1] \in Orders
  BY DEF Rows
<1>5. \A r \in Rows : Protected(r)' => Protected(r)
  BY <1>1, <1>4 DEF Protected, Calm
<1>6. ASSUME NEW r \in Rows, Protected(r)', NEW w \in Workers, Has(worker[w], r)
      PROVE  Marked(w, r)'
  <2>1. Protected(r) /\ Marked(w, r)
    BY <1>5, <1>6 DEF OwnerInv
  <2>2. CASE r = Dispatch(o)
    <3>1. faults = 0 /\ row[r].status = "processing"
      BY <1>1, <1>3, <2>1, <2>2 DEF Protected, Marked
    <3>2. row'[r].status = "failed"
      BY <1>2, <1>3, <2>2, <3>1, CancelledRow DEF Rewrites, Unended
    <3>3. order'[o] = "cancelled"
      BY <1>1
    <3> QED
      BY <1>3, <2>2, <3>2, <3>3 DEF Marked
  <2>3. CASE r = Lifecycle(o)
    BY <1>3, <2>1, <2>3 DEF Marked
  <2>4. CASE r # Dispatch(o) /\ r # Lifecycle(o)
    <3>1. row'[r] = row[r]
      BY <1>2, <2>4 DEF Rewrites
    <3>2. order[r[1]] = "cancelled" => order'[r[1]] = "cancelled"
      BY <1>1, <1>4
    <3> QED
      BY <1>1, <2>1, <3>1, <3>2 DEF Marked
  <2> QED
    BY <2>2, <2>3, <2>4
<1>7. ASSUME NEW r \in Rows, row[r].status = "dispatched"
      PROVE  row'[r] = row[r]
  BY <1>2, <1>3, <1>7, CancelledRow DEF Rewrites, Unended, Open
<1> QED
  BY <1>1, <1>5, <1>6, <1>7 DEF OwnerInv

LEMMA OwnerOrder ==
  ASSUME TypeInv, OwnerInv, NEW o \in Orders, Fill(o) \/ Cancel(o)
  PROVE  /\ OwnerInv'
         /\ \A r \in Rows : faults' = 0 /\ Calm(r[1]) =>
              (row[r].status = "dispatched" => row'[r] = row[r])
<1> USE Types
<1>1. CASE Fill(o)
  <2>1. /\ row' = row /\ worker' = worker /\ admin' = admin
        /\ redrives' = redrives /\ faults' = faults
    BY <1>1 DEF Fill
  <2>2. \A p \in Orders : order'[p] = "cancelled" <=> order[p] = "cancelled"
    BY <1>1 DEF Fill
  <2>3. \A r \in Rows : r[1] \in Orders
    BY DEF Rows
  <2>4. \A r \in Rows : Protected(r)' <=> Protected(r)
    BY <2>1, <2>2, <2>3 DEF Protected, Calm
  <2>5. \A r \in Rows : \A w \in Workers : Marked(w, r)' <=> Marked(w, r)
    BY <2>1, <2>2, <2>3 DEF Marked
  <2> QED
    BY <2>1, <2>2, <2>4, <2>5 DEF OwnerInv
<1>2. CASE Cancel(o)
  <2>1. /\ worker' = worker /\ admin' = admin
        /\ redrives' = redrives /\ faults' = faults
        /\ order[o] # "cancelled" /\ order' = [order EXCEPT ![o] = "cancelled"]
    BY <1>2 DEF Cancel
  <2>2. PICK new \in Row : Rewrites(o, new)
    BY <1>2, CancelRewrites
  <2>3. /\ \A r \in Rows : Protected(r)' =>
             /\ \A v, w \in Workers : Has(worker'[v], r) /\ Has(worker'[w], r) => v = w
             /\ \A w \in Workers : Has(worker'[w], r) => Marked(w, r)'
        /\ \A r \in Rows : faults' = 0 /\ Calm(r[1]) =>
             (row[r].status = "dispatched" => row'[r] = row[r])
    BY <1>2, OwnerCancel
  <2>4. \A p \in Orders : order'[p] # "cancelled" => row'[Lifecycle(p)].status = "none"
    <3> SUFFICES ASSUME NEW p \in Orders, order'[p] # "cancelled"
                 PROVE  row'[Lifecycle(p)].status = "none"
      OBVIOUS
    <3>1. p # o /\ order[p] # "cancelled"
      BY <2>1
    <3>2. /\ Lifecycle(p) # Lifecycle(o) /\ Lifecycle(p) # Dispatch(o)
          /\ Lifecycle(p) \in Rows
      BY <3>1 DEF Lifecycle, Dispatch, Rows, Kinds
    <3>3. row'[Lifecycle(p)] = row[Lifecycle(p)]
      BY <2>2, <3>2 DEF Rewrites
    <3> QED
      BY <3>1, <3>3 DEF OwnerInv
  <2>5. faults' = 0 /\ redrives' <= 1 =>
          \A a \in Admins : admin'[a] # None /\ order'[admin'[a]] # "cancelled" =>
            row'[Dispatch(admin'[a])].status = "failed"
    <3> SUFFICES ASSUME faults = 0, redrives <= 1, NEW a \in Admins, admin[a] # None,
                        order'[admin[a]] # "cancelled"
                 PROVE  row'[Dispatch(admin[a])].status = "failed"
      BY <2>1
    <3>1. admin[a] \in Orders /\ admin[a] # o /\ order[admin[a]] # "cancelled"
      BY <2>1
    <3>2. /\ Dispatch(admin[a]) \in Rows /\ Dispatch(admin[a]) # Lifecycle(o)
          /\ Dispatch(admin[a]) # Dispatch(o)
      BY <3>1 DEF Dispatch, Lifecycle, Rows, Kinds
    <3>3. row'[Dispatch(admin[a])] = row[Dispatch(admin[a])]
      BY <2>2, <3>2 DEF Rewrites
    <3> QED
      BY <3>1, <3>3 DEF OwnerInv
  <2>6. /\ \A w \in Workers : Neat(worker'[w])
        /\ redrives' = 0 => \A a \in Admins : admin'[a] = None
        /\ faults' = 0 /\ redrives' <= 1 =>
             \A a, b \in Admins : admin'[a] # None /\ admin'[b] # None => a = b
    BY <2>1 DEF OwnerInv
  <2>7. OwnerInv'
    BY <2>3, <2>4, <2>5, <2>6 DEF OwnerInv
  <2> QED
    BY <2>3, <2>7
<1> QED
  BY <1>1, <1>2

LEMMA OwnerRedrive ==
  ASSUME TypeInv, OwnerInv, NEW a \in Admins,
         RedriveWrite(a) \/ \E o \in Orders : RedriveRead(a, o)
  PROVE  /\ OwnerInv'
         /\ \A r \in Rows : faults' = 0 /\ Calm(r[1]) =>
              (row[r].status = "dispatched" => row'[r] = row[r])
<1> USE Types, OutboxAssumption, NoneAssumption
<1>1. ASSUME NEW o \in Orders, RedriveRead(a, o)
      PROVE  OwnerInv' /\ row' = row
  <2>1. /\ row' = row /\ worker' = worker /\ order' = order /\ faults' = faults
        /\ redrives' = redrives + 1 /\ admin' = [admin EXCEPT ![a] = o]
        /\ row[Dispatch(o)].status = "failed"
    BY <1>1 DEF RedriveRead, Redrivable
  <2>2. redrives \in Nat
    OBVIOUS
  <2>3. \A r \in Rows : Protected(r)' => Protected(r)
    BY <2>1, <2>2 DEF Protected, Calm
  <2>4. \A r \in Rows : Protected(r)' =>
          /\ \A v, w \in Workers : Has(worker'[v], r) /\ Has(worker'[w], r) => v = w
          /\ \A w \in Workers : Has(worker'[w], r) => Marked(w, r)'
    BY <2>1, <2>3 DEF OwnerInv, Marked
  <2>5. redrives' # 0
    BY <2>1, <2>2
  <2>6. redrives' <= 1 => \A b \in Admins : admin'[b] # None => b = a /\ admin'[b] = o
    <3>1. redrives' <= 1 => redrives = 0
      BY <2>1, <2>2
    <3> QED
      BY <2>1, <3>1 DEF OwnerInv
  <2> QED
    BY <2>1, <2>4, <2>5, <2>6 DEF OwnerInv
<1>2. CASE RedriveWrite(a)
  <2> DEFINE q == Dispatch(admin[a])
  <2>1. /\ worker' = worker /\ order' = order
        /\ redrives' = redrives /\ faults' = faults
        /\ admin[a] \in Orders /\ admin[a] # None /\ admin' = [admin EXCEPT ![a] = None]
        /\ row' = [row EXCEPT ![q] = [status |-> "pending", attempts |-> 0]]
    BY <1>2 DEF RedriveWrite
  <2>2. q \in Rows /\ q[2] = "dispatch" /\ q[1] = admin[a]
    BY <2>1 DEF Dispatch, Rows, Kinds
  <2>7. redrives # 0 /\ redrives' # 0
    BY <2>1 DEF OwnerInv
  <2>3. faults = 0 /\ Calm(q[1]) => row[q].status = "failed"
    BY <2>1, <2>2, <2>7 DEF OwnerInv, Calm
  <2>4. \A p \in Orders : Lifecycle(p) # q /\ Lifecycle(p) \in Rows
    BY DEF Dispatch, Lifecycle, Rows, Kinds
  <2> HIDE DEF q
  <2>5. /\ \A r \in Rows : Protected(r)' =>
             /\ \A v, w \in Workers : Has(worker'[v], r) /\ Has(worker'[w], r) => v = w
             /\ \A w \in Workers : Has(worker'[w], r) => Marked(w, r)'
        /\ \A r \in Rows : faults' = 0 /\ Calm(r[1]) =>
             (row[r].status = "dispatched" => row'[r] = row[r])
    BY <2>1, <2>2, <2>3, <2>7, OwnerReopen
  <2>6. \A p \in Orders : order'[p] # "cancelled" => row'[Lifecycle(p)].status = "none"
    <3>1. \A p \in Orders : row'[Lifecycle(p)] = row[Lifecycle(p)]
      BY <2>1, <2>4
    <3> QED
      BY <2>1, <3>1 DEF OwnerInv
  <2>8. faults' = 0 /\ redrives' <= 1 => \A b \in Admins : admin'[b] = None
    BY <2>1 DEF OwnerInv
  <2>9. \A w \in Workers : Neat(worker'[w])
    BY <2>1 DEF OwnerInv
  <2>10. OwnerInv'
    BY <2>5, <2>6, <2>7, <2>8, <2>9 DEF OwnerInv
  <2> QED
    BY <2>5, <2>10
<1> QED
  BY <1>1, <1>2

LEMMA OwnerNext ==
  ASSUME TypeInv, OwnerInv, [Next]_vars
  PROVE  /\ OwnerInv'
         /\ \A r \in Rows : faults' = 0 /\ Calm(r[1]) =>
              (row[r].status = "dispatched" => row'[r] = row[r])
<1>1. CASE UNCHANGED vars
  BY <1>1 DEF vars, OwnerInv, Protected, Calm, Marked
<1>2. CASE \E o \in Orders : Fill(o) \/ Cancel(o)
  BY <1>2, OwnerOrder
<1>3. ASSUME NEW w \in Workers, Process(w) \/ FaultStep(w)
      PROVE  /\ OwnerInv'
             /\ \A r \in Rows : faults' = 0 /\ Calm(r[1]) =>
                  (row[r].status = "dispatched" => row'[r] = row[r])
  <2>1. Neat(worker[w])
    BY DEF OwnerInv
  <2>2. PICK d : PassStep(w, d)
    BY <1>3, <2>1, PassSteps
  <2> QED
    BY <2>2, OwnerPass
<1>4. ASSUME NEW w \in Workers, Claim(w)
      PROVE  /\ OwnerInv'
             /\ \A r \in Rows : faults' = 0 /\ Calm(r[1]) =>
                  (row[r].status = "dispatched" => row'[r] = row[r])
  BY <1>4, OwnerClaim
<1>5. CASE \E a \in Admins : RedriveWrite(a) \/ \E o \in Orders : RedriveRead(a, o)
  BY <1>5, OwnerRedrive
<1> QED
  BY <1>1, <1>2, <1>3, <1>4, <1>5 DEF Next

LEMMA OwnerInvariant == Spec => []OwnerInv
BY OwnerInit, OwnerNext, TypeInvariant, PTL DEF Spec

\* No two passes work on one row: for a cancellation's announcement whatever
\* crashes or fails, for a dispatch while nothing fails, no two redrives meet and
\* none meets a cancellation.
THEOREM OutboxOneOwner == Spec => []OneOwner
<1>1. OwnerInv => OneOwner
  BY DEF OwnerInv, OneOwner, Protected, Owns, Has, Working
<1> QED
  BY <1>1, OwnerInvariant, PTL

\* A dispatched row stays as it is: whoever would write it again does not hold it.
THEOREM OutboxDispatchedIsFinal == Spec => DispatchedIsFinal
<1>1. TypeInv /\ OwnerInv /\ [Next]_vars =>
        [\A r \in Rows : faults' = 0 /\ Calm(r[1]) =>
           (row[r].status = "dispatched" => row'[r] = row[r])]_vars
  BY OwnerNext
<1> QED
  BY <1>1, OwnerInvariant, TypeInvariant, PTL DEF Spec, DispatchedIsFinal

-----------------------------------------------------------------------------
(* Attempts: the step *)

LEMMA CountInit == Init => CountInv
<1> SUFFICES ASSUME Init, NEW r \in Rows
             PROVE  RowCount(r) /\ \A w \in Workers : Counted(worker[w], r, tries[r])
  BY DEF CountInv
<1>1. tries[r] = 0 /\ row[r].attempts = 0 /\ row[r].status \in {"pending", "none"}
  BY DEF Init
<1>2. \A w \in Workers : worker[w].todo = {} /\ worker[w].at = "next"
  BY DEF Init, Idle
<1> QED
  BY <1>1, <1>2, OutboxAssumption DEF RowCount, Counted

\* Who counts a row holds it.
LEMMA UnheldCounted ==
  ASSUME NEW c, NEW r, ~Has(c, r), NEW n
  PROVE  Counted(c, r, n)
BY DEF Has, Working, Counted

LEMMA ExactIsProtected ==
  ASSUME TypeInv, NEW r, Exact(r)
  PROVE  Protected(r)
BY DEF Exact, Protected, Calm

LEMMA CountPass ==
  ASSUME TypeInv, OwnerInv, CountInv, NEW w \in Workers, NEW d, PassStep(w, d)
  PROVE  CountInv'
<1> USE Types, OutboxAssumption
<1> DEFINE c == worker[w]
<1>1. /\ Holds(w, d) /\ Counts(w, d) /\ Writes(w) /\ redrives' = redrives
      /\ c \in Worker /\ Neat(c) /\ Sound(c)
      /\ (faults' = 0 => faults = 0)
      /\ \A v \in Workers : worker'[v] = IF v = w THEN d ELSE worker[v]
  BY MovesTo DEF PassStep, Holds, TypeInv, OwnerInv
<1> SUFFICES ASSUME NEW r \in Rows, Exact(r)'
             PROVE  RowCount(r)' /\ \A v \in Workers : Counted(worker'[v], r, tries'[r])
  BY DEF CountInv
<1>2. Exact(r) /\ Protected(r) /\ (r[2] = "lifecycle" \/ faults' = 0)
  BY <1>1, ExactIsProtected DEF Exact
<1>3. RowCount(r) /\ \A v \in Workers : Counted(worker[v], r, tries[r])
  BY <1>2 DEF CountInv
<1>4. c.at # "next" => c.task.attempt \in 1 .. MaxAttempts
  BY TaskType
<1>5. tries[r] \in 0 .. MaxAttempts + 1
  OBVIOUS
\* the count changes only for the row that is sent
<1>6. ASSUME tries'[r] # tries[r]
      PROVE  /\ c.at = "send" /\ c.task.row = r /\ d.at \in {"record", "catch"}
             /\ tries[r] = c.task.attempt - 1 /\ tries'[r] = c.task.attempt
             /\ Has(c, r) /\ row[r].status \notin Open \union {"none"}
             /\ r[2] = "lifecycle" => row[r].status # "failed"
  <2>1. /\ c.at = "send" /\ c.task.row = r /\ d.at \in {"record", "catch"}
        /\ tries'[r] = tries[r] + 1
    BY <1>1, <1>6 DEF Counts
  <2>2. Has(c, r)
    BY <2>1 DEF Has, Working
  <2>3. /\ row[r].status \notin Open \union {"none"}
        /\ r[2] = "lifecycle" => row[r].status # "failed"
    BY <1>2, <2>1, <2>2 DEF OwnerInv, Marked, Open
  <2>4. tries[r] = c.task.attempt - 1
    BY <1>3, <2>1 DEF Counted
  <2> QED
    BY <1>4, <2>1, <2>2, <2>3, <2>4
<1>7. RowCount(r)'
  <2>1. CASE row'[r] = row[r]
    <3>1. CASE tries'[r] = tries[r]
      BY <1>3, <2>1, <3>1 DEF RowCount
    <3>2. CASE tries'[r] # tries[r]
      BY <1>4, <1>6, <2>1, <3>2 DEF RowCount, Open
    <3> QED
      BY <3>1, <3>2
  <2>2. CASE row'[r] # row[r]
    <3>1. /\ Working(c) /\ c.task.row = r
          /\ row'[r].status # "none"
          /\ row'[r].status \in Open => c.at \in {"record", "catch"} /\ row'[r].attempts = c.task.attempt
          /\ row'[r].status = "failed" /\ r[2] = "lifecycle" => c.at = "catch" /\ c.task.attempt = MaxAttempts
      BY <1>1, <2>2 DEF Writes
    <3>2. c.at \in {"record", "catch"} => tries'[r] = c.task.attempt
      BY <1>3, <1>6, <3>1 DEF Counted
    <3>3. tries'[r] <= MaxAttempts
      BY <1>3, <1>4, <1>6 DEF RowCount
    <3> QED
      BY <3>1, <3>2, <3>3 DEF RowCount
  <2> QED
    BY <2>1, <2>2
<1>8. ASSUME NEW v \in Workers, v # w
      PROVE  Counted(worker'[v], r, tries'[r])
  <2>1. worker'[v] = worker[v]
    BY <1>1, <1>8
  <2>2. CASE tries'[r] = tries[r]
    BY <1>3, <2>1, <2>2
  <2>3. CASE tries'[r] # tries[r]
    <3>1. ~Has(worker[v], r)
      BY <1>2, <1>6, <1>8, <2>3 DEF OwnerInv
    <3> QED
      BY <2>1, <3>1, UnheldCounted
  <2> QED
    BY <2>2, <2>3
<1>9. Counted(d, r, tries'[r])
  <2>1. \A t \in d.todo : t.row = r => tries'[r] = t.attempt - 1
    <3> SUFFICES ASSUME NEW t \in d.todo, t.row = r PROVE tries'[r] = t.attempt - 1
      OBVIOUS
    <3>1. t \in c.todo
      BY <1>1 DEF Counts
    <3>2. tries'[r] = tries[r]
      BY <1>1, <1>6, <3>1 DEF Neat
    <3> QED
      BY <1>3, <3>1, <3>2 DEF Counted
  <2>2. d.at \in {"read", "send"} /\ d.task.row = r => tries'[r] = d.task.attempt - 1
    <3> SUFFICES ASSUME d.at \in {"read", "send"}, d.task.row = r
                 PROVE  tries'[r] = d.task.attempt - 1
      OBVIOUS
    <3>1. \/ c.at = "next" /\ d.task \in c.todo
          \/ c.at = "read" /\ d.task = c.task
      BY <1>1 DEF Counts
    <3>2. tries'[r] = tries[r]
      BY <1>6, <3>1
    <3> QED
      BY <1>3, <3>1, <3>2 DEF Counted
  <2>3. d.at \in {"record", "catch"} /\ d.task.row = r => tries'[r] = d.task.attempt
    <3> SUFFICES ASSUME d.at \in {"record", "catch"}, d.task.row = r
                 PROVE  tries'[r] = d.task.attempt
      OBVIOUS
    <3>1. d.task = c.task /\ (c.at \in {"send", "record"} \/ (faults' > 0 /\ r[2] = "dispatch"))
      BY <1>1 DEF Counts
    <3>2. c.at \in {"send", "record"}
      BY <1>2, <3>1
    <3>3. CASE c.at = "record"
      BY <1>3, <1>6, <3>1, <3>3 DEF Counted
    <3>4. CASE c.at = "send"
      <4>1. tries[r] = c.task.attempt - 1
        BY <1>3, <3>1, <3>4 DEF Counted
      <4>2. tries'[r] = tries[r] + 1
        BY <1>1, <1>4, <3>1, <3>4, <4>1 DEF Counts
      <4> QED
        BY <1>4, <3>1, <3>4, <4>1, <4>2
    <3> QED
      BY <3>2, <3>3, <3>4
  <2> QED
    BY <2>1, <2>2, <2>3 DEF Counted
<1> QED
  BY <1>1, <1>7, <1>8, <1>9

LEMMA CountClaim ==
  ASSUME TypeInv, OwnerInv, CountInv, NEW w \in Workers, Claim(w)
  PROVE  CountInv'
<1> USE Types, OutboxAssumption
<1>1. PICK k \in Kinds : \E S \in SUBSET {r \in Rows : r[2] = k /\ row[r].status \in Ready} :
        /\ row' = [r \in Rows |-> IF r \in S THEN [row[r] EXCEPT !.status = "processing"] ELSE row[r]]
        /\ worker' = [worker EXCEPT ![w].todo = {[row |-> r, attempt |-> row[r].attempts + 1] : r \in S}]
  BY DEF Claim
<1>2. PICK S \in SUBSET {r \in Rows : r[2] = k /\ row[r].status \in Ready} :
        /\ row' = [r \in Rows |-> IF r \in S THEN [row[r] EXCEPT !.status = "processing"] ELSE row[r]]
        /\ worker' = [worker EXCEPT ![w].todo = {[row |-> r, attempt |-> row[r].attempts + 1] : r \in S}]
  BY <1>1
<1> DEFINE T == {[row |-> r, attempt |-> row[r].attempts + 1] : r \in S}
           d == [worker[w] EXCEPT !.todo = T]
<1>3. /\ redrives' = redrives /\ faults' = faults /\ tries' = tries
      /\ worker[w] = Idle
  BY DEF Claim
<1>4. d.at = "next" /\ d.todo = T
  BY <1>3 DEF Idle
<1>5. \A v \in Workers : worker'[v] = IF v = w THEN d ELSE worker[v]
  BY <1>2
<1>6. \A t \in T : t.row \in S /\ t.attempt = row[t.row].attempts + 1
  OBVIOUS
<1> HIDE DEF d, T
<1> SUFFICES ASSUME NEW r \in Rows, Exact(r)
             PROVE  RowCount(r)' /\ \A v \in Workers : Counted(worker'[v], r, tries'[r])
  BY <1>3 DEF CountInv, Exact
<1>7. RowCount(r) /\ \A v \in Workers : Counted(worker[v], r, tries[r])
  BY DEF CountInv
<1>8. row'[r] = IF r \in S THEN [row[r] EXCEPT !.status = "processing"] ELSE row[r]
  BY <1>2
<1>9. r \in S => row[r].status \in Open /\ row'[r].status = "processing"
  BY <1>2, <1>8 DEF Ready, Row
<1>10. RowCount(r)'
  BY <1>3, <1>7, <1>8, <1>9 DEF RowCount, Open
<1>11. Counted(d, r, tries[r])
  <2>1. \A t \in T : t.row = r => tries[r] = t.attempt - 1
    <3> SUFFICES ASSUME NEW t \in T, t.row = r PROVE tries[r] = t.attempt - 1
      OBVIOUS
    <3>1. r \in S /\ t.attempt = row[r].attempts + 1
      BY <1>6
    <3>2. tries[r] = row[r].attempts
      BY <1>7, <1>9, <3>1 DEF RowCount
    <3> QED
      BY <3>1, <3>2
  <2> QED
    BY <1>4, <2>1 DEF Counted
<1> QED
  BY <1>3, <1>5, <1>7, <1>10, <1>11

LEMMA CountOrder ==
  ASSUME TypeInv, OwnerInv, CountInv, NEW o \in Orders, Fill(o) \/ Cancel(o)
  PROVE  CountInv'
<1> USE Types
<1>1. /\ worker' = worker /\ tries' = tries /\ redrives' = redrives /\ faults' = faults
  BY DEF Fill, Cancel
<1>2. CASE Fill(o)
  <2>1. row' = row
    BY <1>2 DEF Fill
  <2> QED
    BY <1>1, <2>1 DEF CountInv, Exact, RowCount
<1>3. CASE Cancel(o)
  <2> DEFINE q == Lifecycle(o)
  <2>1. q \in Rows /\ row[q].status = "none" /\ Exact(q)
    BY <1>3 DEF Cancel, Lifecycle, Rows, Kinds, OwnerInv, Exact
  <2>2. PICK new \in Row : new.status = "pending" /\ new.attempts = 0 /\ Rewrites(o, new)
    BY <1>3, CancelRewrites
  <2>4. \A r \in Rows : \/ r = q /\ row'[r] = new
                        \/ row'[r] = row[r]
                        \/ r = Dispatch(o) /\ row'[r].status = "failed"
    BY <2>2, CancelledRow DEF Rewrites
  <2>3. Dispatch(o)[2] = "dispatch"
    BY DEF Dispatch
  <2> HIDE DEF q
  <2>5. tries[q] = 0
    BY <2>1 DEF CountInv, RowCount
  <2>6. \A r \in Rows : Exact(r) => RowCount(r)'
    BY <1>1, <2>2, <2>3, <2>4, <2>5, OutboxAssumption DEF CountInv, RowCount, Open
  <2> QED
    BY <1>1, <2>6 DEF CountInv, Exact
<1> QED
  BY <1>2, <1>3

LEMMA CountRedrive ==
  ASSUME TypeInv, OwnerInv, CountInv, NEW a \in Admins,
         RedriveWrite(a) \/ \E o \in Orders : RedriveRead(a, o)
  PROVE  CountInv'
<1> USE Types, OutboxAssumption
<1>1. worker' = worker /\ tries' = tries /\ faults' = faults
  BY DEF RedriveWrite, RedriveRead
<1>2. redrives' # 0
  <2>1. CASE RedriveWrite(a)
    BY <2>1 DEF RedriveWrite, OwnerInv
  <2>2. CASE \E o \in Orders : RedriveRead(a, o)
    BY <2>2 DEF RedriveRead
  <2> QED
    BY <2>1, <2>2
<1>3. \A r \in Rows : r[2] = "lifecycle" => row'[r] = row[r]
  <2>1. CASE row' = row
    BY <2>1
  <2>2. CASE RedriveWrite(a)
    <3> DEFINE new == [status |-> "pending", attempts |-> 0]
    <3>1. row' = [row EXCEPT ![Dispatch(admin[a])] = new]
      BY <2>2 DEF RedriveWrite
    <3>2. Dispatch(admin[a])[2] = "dispatch"
      BY DEF Dispatch
    <3> HIDE DEF new
    <3> QED
      BY <3>1, <3>2
  <2> QED
    BY <2>1, <2>2 DEF RedriveRead
<1>4. \A r \in Rows : Exact(r)' => r[2] = "lifecycle" /\ Exact(r)
  BY <1>2 DEF Exact
<1>5. \A r \in Rows : Exact(r)' => RowCount(r)'
  BY <1>1, <1>3, <1>4 DEF CountInv, RowCount
<1> QED
  BY <1>1, <1>4, <1>5 DEF CountInv

LEMMA CountNext == TypeInv /\ OwnerInv /\ CountInv /\ [Next]_vars => CountInv'
<1> SUFFICES ASSUME TypeInv, OwnerInv, CountInv, [Next]_vars PROVE CountInv'
  OBVIOUS
<1>1. CASE UNCHANGED vars
  BY <1>1 DEF vars, CountInv, Exact, RowCount
<1>2. CASE \E o \in Orders : Fill(o) \/ Cancel(o)
  BY <1>2, CountOrder
<1>3. ASSUME NEW w \in Workers, Process(w) \/ FaultStep(w)
      PROVE  CountInv'
  <2>1. Neat(worker[w])
    BY DEF OwnerInv
  <2>2. PICK d : PassStep(w, d)
    BY <1>3, <2>1, PassSteps
  <2> QED
    BY <2>2, CountPass
<1>4. ASSUME NEW w \in Workers, Claim(w)
      PROVE  CountInv'
  BY <1>4, CountClaim
<1>5. CASE \E a \in Admins : RedriveWrite(a) \/ \E o \in Orders : RedriveRead(a, o)
  BY <1>5, CountRedrive
<1> QED
  BY <1>1, <1>2, <1>3, <1>4, <1>5 DEF Next

LEMMA CountInvariant == Spec => []CountInv
BY CountInit, CountNext, TypeInvariant, OwnerInvariant, PTL DEF Spec

\* A cancellation is announced at most maxAttempts times and given up only after
\* as many, whatever crashes or fails.
THEOREM OutboxDlqExhausted == Spec => []DlqExhausted
<1>1. TypeInv /\ CountInv => DlqExhausted
  <2> SUFFICES ASSUME TypeInv, CountInv, NEW o \in Orders
               PROVE  /\ tries[Lifecycle(o)] <= MaxAttempts
                      /\ row[Lifecycle(o)].status = "failed" => tries[Lifecycle(o)] = MaxAttempts
                      /\ faults = 0 /\ redrives = 0 => tries[Dispatch(o)] <= MaxAttempts
    BY DEF DlqExhausted
  <2>1. /\ Lifecycle(o) \in Rows /\ Lifecycle(o)[2] = "lifecycle" /\ Dispatch(o) \in Rows
    BY DEF Lifecycle, Dispatch, Rows, Kinds
  <2> QED
    BY <2>1 DEF CountInv, RowCount, Exact
<1> QED
  BY <1>1, TypeInvariant, CountInvariant, PTL

-----------------------------------------------------------------------------
(* The announcement contract *)

Owned(r) == \E w \in Workers : Has(worker[w], r)

N == [o \in Orders |-> NoticeOf(o)]
S == [o \in Orders |-> tries[Lifecycle(o)]]

LEMMA NoticeIs ==
  \A o \in Orders :
    N[o] = IF row[Lifecycle(o)].status = "none" THEN "none"
           ELSE IF row[Lifecycle(o)].status \in Ended /\ ~Owned(Lifecycle(o))
             THEN row[Lifecycle(o)].status
             ELSE "due"
<1> SUFFICES ASSUME NEW o \in Orders
             PROVE  NoticeOf(o) = IF row[Lifecycle(o)].status = "none" THEN "none"
                                  ELSE IF row[Lifecycle(o)].status \in Ended /\ ~Owned(Lifecycle(o))
                                    THEN row[Lifecycle(o)].status
                                    ELSE "due"
  BY DEF N
<1>1. (\A w \in Workers : ~Owns(w, Lifecycle(o))) <=> ~Owned(Lifecycle(o))
  BY DEF Owned, Owns, Has, Working
<1> QED
  BY <1>1 DEF NoticeOf, Ended

LEMMA NoticeIsNext ==
  \A o \in Orders :
    N'[o] = IF row'[Lifecycle(o)].status = "none" THEN "none"
            ELSE IF row'[Lifecycle(o)].status \in Ended /\ ~Owned(Lifecycle(o))'
              THEN row'[Lifecycle(o)].status
              ELSE "due"
<1> SUFFICES ASSUME NEW o \in Orders
             PROVE  NoticeOf(o)' = IF row'[Lifecycle(o)].status = "none" THEN "none"
                                   ELSE IF row'[Lifecycle(o)].status \in Ended /\ ~Owned(Lifecycle(o))'
                                     THEN row'[Lifecycle(o)].status
                                     ELSE "due"
  BY DEF N
<1>1. (\A w \in Workers : ~Owns(w, Lifecycle(o))') <=> ~Owned(Lifecycle(o))'
  BY DEF Owned, Owns, Has, Working
<1> QED
  BY <1>1 DEF NoticeOf, Ended

LEMMA LifecycleRows ==
  \A o \in Orders :
    /\ Lifecycle(o) \in Rows /\ Lifecycle(o)[2] = "lifecycle"
    /\ Protected(Lifecycle(o)) /\ Exact(Lifecycle(o))
    /\ \A p \in Orders : Lifecycle(p) = Lifecycle(o) => p = o
    /\ \A p : Dispatch(p) # Lifecycle(o)
BY DEF Lifecycle, Dispatch, Rows, Kinds, Protected, Exact

\* A step changes the notice and the count of one order, as the contract allows.
Turned(o, before, after) == N[o] = before /\ N'[o] = after /\ S'[o] = S[o]
Allowed(o) ==
  \/ N'[o] = N[o] /\ S'[o] = S[o]
  \/ Turned(o, "none", "due")
  \/ Turned(o, "due", "dispatched") /\ S[o] > 0
  \/ Turned(o, "due", "failed") /\ S[o] = MaxAttempts
  \/ N[o] = "due" /\ N'[o] = "due" /\ S[o] < MaxAttempts /\ S'[o] = S[o] + 1

LEMMA OneNotice ==
  ASSUME NEW o \in Orders, Allowed(o),
         \A p \in Orders : p # o => N'[p] = N[p] /\ S'[p] = S[p]
  PROVE  [Notices!NoticeNext]_<<N, S>>
<1> USE DEF N, S
<1>1. ASSUME N'[o] = N[o], S'[o] = S[o]
      PROVE  N' = N /\ S' = S
  BY <1>1
<1>2. ASSUME NEW before, NEW after, Turned(o, before, after)
      PROVE  Notices!Turn(o, before, after)
  <2>1. S' = S
    BY <1>2 DEF Turned
  <2>2. N' = [N EXCEPT ![o] = after]
    BY <1>2 DEF Turned
  <2> QED
    BY <1>2, <2>1, <2>2 DEF Notices!Turn, Turned
<1>3. ASSUME N[o] = "due", N'[o] = "due", S[o] < MaxAttempts, S'[o] = S[o] + 1
      PROVE  Notices!Send(o)
  <2>1. N' = N
    BY <1>3
  <2>2. S' = [S EXCEPT ![o] = S[o] + 1]
    BY <1>3
  <2> QED
    BY <1>3, <2>1, <2>2 DEF Notices!Send
<1> HIDE DEF N, S
<1>4. ASSUME Notices!Turn(o, "none", "due")
      PROVE  Notices!NoticeNext
  BY <1>4 DEF Notices!NoticeNext, Notices!FallDue
<1>5. ASSUME Notices!Turn(o, "due", "dispatched"), S[o] > 0
      PROVE  Notices!NoticeNext
  BY <1>5 DEF Notices!NoticeNext, Notices!Deliver, S
<1>6. ASSUME Notices!Turn(o, "due", "failed"), S[o] = MaxAttempts
      PROVE  Notices!NoticeNext
  BY <1>6 DEF Notices!NoticeNext, Notices!GiveUp, S
<1>7. ASSUME Notices!Send(o)
      PROVE  Notices!NoticeNext
  BY <1>7 DEF Notices!NoticeNext
<1> QED
  BY <1>1, <1>2, <1>3, <1>4, <1>5, <1>6, <1>7 DEF Allowed

LEMMA SameNotices ==
  ASSUME \A o \in Orders : N'[o] = N[o] /\ S'[o] = S[o]
  PROVE  [Notices!NoticeNext]_<<N, S>>
<1>1. N' = N /\ S' = S
  BY DEF N, S
<1> QED
  BY <1>1

LEMMA NoticePass ==
  ASSUME TypeInv, OwnerInv, CountInv, NEW w \in Workers, NEW d, PassStep(w, d)
  PROVE  [Notices!NoticeNext]_<<N, S>>
<1> USE Types, OutboxAssumption, LifecycleRows
<1> DEFINE c == worker[w]
<1>1. /\ Holds(w, d) /\ Counts(w, d) /\ Writes(w) /\ OwnerInv'
      /\ \A v \in Workers : worker'[v] = IF v = w THEN d ELSE worker[v]
  BY MovesTo, OwnerPass DEF PassStep, Holds, TypeInv
<1>2. \A o \in Orders : /\ S[o] = tries[Lifecycle(o)]
                        /\ S'[o] = tries'[Lifecycle(o)]
  BY DEF S
\* a row that is not in its hands
<1>3. ASSUME NEW o \in Orders, ~(Working(c) /\ c.task.row = Lifecycle(o))
      PROVE  N'[o] = N[o] /\ S'[o] = S[o]
  <2> DEFINE r == Lifecycle(o)
  <2>1. row'[r] = row[r]
    BY <1>1, <1>3 DEF Writes
  <2>2. tries'[r] = tries[r]
    BY <1>1, <1>3 DEF Counts, Working
  <2>3. ASSUME row[r].status \in Ended
        PROVE  Owned(r)' <=> Owned(r)
    <3>1. ASSUME NEW v \in Workers, Has(worker[v], r)
          PROVE  v # w /\ Has(worker'[v], r)
      <4>1. Working(worker[v]) /\ worker[v].task.row = r
        BY <2>3, <3>1 DEF OwnerInv, Marked, Ended, Working
      <4> QED
        BY <1>1, <1>3, <3>1, <4>1
    <3>2. ASSUME NEW v \in Workers, Has(worker'[v], r)
          PROVE  Has(worker[v], r)
      BY <1>1, <3>2 DEF Holds
    <3> QED
      BY <3>1, <3>2 DEF Owned
  <2> QED
    BY <1>2, <2>1, <2>2, <2>3, NoticeIs, NoticeIsNext
\* the row in its hands
<1>4. ASSUME NEW o \in Orders, Working(c), c.task.row = Lifecycle(o)
      PROVE  Allowed(o)
  <2> DEFINE r == Lifecycle(o)
  <2>1. Has(c, r) /\ Owned(r)
    BY <1>4 DEF Has, Owned
  <2>2. /\ row[r].status \in {"processing", "dispatched"}
        /\ row[r].status = "dispatched" => c.at = "catch"
    BY <2>1 DEF OwnerInv, Marked
  <2>3. N[o] = "due"
    BY <2>1, <2>2, NoticeIs
  <2>4. /\ c.at = "send" => tries[r] = c.task.attempt - 1
        /\ c.at \in {"record", "catch"} => tries[r] = c.task.attempt
        /\ c.task.attempt \in 1 .. MaxAttempts
        /\ tries[r] \in 0 .. MaxAttempts + 1
    BY <1>4, TaskType DEF CountInv, Counted, Working
  <2>5. \A v \in Workers : Has(worker'[v], r) => v = w
    BY <1>1, <2>1 DEF OwnerInv
  <2>6. row'[r].status # row[r].status => row'[r] # row[r]
    OBVIOUS
  <2>7. CASE Has(d, r)
    <3>1. Owned(r)'
      BY <1>1, <2>7 DEF Owned
    <3>2. row'[r].status \in {"processing", "dispatched"}
      BY <1>1, <2>7 DEF OwnerInv, Marked, Protected
    <3>3. N'[o] = "due"
      BY <3>1, <3>2, NoticeIsNext
    <3>4. \/ tries'[r] = tries[r]
          \/ c.at = "send" /\ tries'[r] = tries[r] + 1
      BY <1>1 DEF Counts
    <3> QED
      BY <1>2, <2>3, <2>4, <3>3, <3>4 DEF Allowed
  <2>8. CASE ~Has(d, r)
    <3>1. ~Owned(r)'
      BY <1>1, <2>5, <2>8 DEF Owned
    <3>2. tries'[r] = tries[r]
      <4>1. CASE c.at = "send" /\ d.at \in {"record", "catch"}
        <5>1. d.task = c.task
          BY <1>1, <4>1 DEF Counts
        <5> QED
          BY <1>4, <2>8, <4>1, <5>1 DEF Has, Working
      <4>2. CASE ~(c.at = "send" /\ d.at \in {"record", "catch"})
        BY <1>1, <4>2 DEF Counts
      <4> QED
        BY <4>1, <4>2
    <3>3. row'[r].status # "none"
      BY <1>1, <2>2 DEF Writes
    <3>4. row'[r].status = "dispatched" => tries[r] > 0
      BY <1>1, <2>2, <2>4 DEF Writes
    <3>5. row'[r].status = "failed" => tries[r] = MaxAttempts
      BY <1>1, <2>2, <2>4 DEF Writes
    <3>6. \/ N'[o] = "due"
          \/ N'[o] \in {"dispatched", "failed"} /\ N'[o] = row'[r].status
      BY <3>1, <3>3, NoticeIsNext DEF Ended
    <3> QED
      BY <1>2, <2>3, <3>2, <3>4, <3>5, <3>6 DEF Allowed, Turned
  <2> QED
    BY <2>7, <2>8
<1>5. CASE \E o \in Orders : Working(c) /\ c.task.row = Lifecycle(o)
  <2>1. PICK o \in Orders : Working(c) /\ c.task.row = Lifecycle(o)
    BY <1>5
  <2>2. \A p \in Orders : p # o => N'[p] = N[p] /\ S'[p] = S[p]
    BY <1>3, <2>1
  <2> QED
    BY <1>4, <2>1, <2>2, OneNotice
<1>6. CASE ~ \E o \in Orders : Working(c) /\ c.task.row = Lifecycle(o)
  BY <1>3, <1>6, SameNotices
<1> QED
  BY <1>5, <1>6

LEMMA NoticeClaim ==
  ASSUME TypeInv, OwnerInv, NEW w \in Workers, Claim(w)
  PROVE  [Notices!NoticeNext]_<<N, S>>
<1> USE Types, LifecycleRows
<1>1. PICK k \in Kinds : \E X \in SUBSET {r \in Rows : r[2] = k /\ row[r].status \in Ready} :
        /\ row' = [r \in Rows |-> IF r \in X THEN [row[r] EXCEPT !.status = "processing"] ELSE row[r]]
        /\ worker' = [worker EXCEPT ![w].todo = {[row |-> r, attempt |-> row[r].attempts + 1] : r \in X}]
  BY DEF Claim
<1>2. PICK X \in SUBSET {r \in Rows : r[2] = k /\ row[r].status \in Ready} :
        /\ row' = [r \in Rows |-> IF r \in X THEN [row[r] EXCEPT !.status = "processing"] ELSE row[r]]
        /\ worker' = [worker EXCEPT ![w].todo = {[row |-> r, attempt |-> row[r].attempts + 1] : r \in X}]
  BY <1>1
<1> DEFINE T == {[row |-> r, attempt |-> row[r].attempts + 1] : r \in X}
           d == [worker[w] EXCEPT !.todo = T]
<1>3. worker[w] = Idle /\ tries' = tries
  BY DEF Claim
<1>4. /\ \A r : ~Has(worker[w], r)
      /\ \A r : Has(d, r) => r \in X
  BY <1>3 DEF Idle, Has, Working
<1>5. \A v \in Workers : worker'[v] = IF v = w THEN d ELSE worker[v]
  BY <1>2
<1> HIDE DEF d
<1> SUFFICES ASSUME NEW o \in Orders PROVE N'[o] = N[o] /\ S'[o] = S[o]
  BY SameNotices
<1> DEFINE r == Lifecycle(o)
<1>6. row'[r] = IF r \in X THEN [row[r] EXCEPT !.status = "processing"] ELSE row[r]
  BY <1>2
<1>7. r \in X => row[r].status \in {"pending", "retrying"} /\ row'[r].status = "processing"
  BY <1>2, <1>6 DEF Ready, Open, Row
<1>8. r \notin X => (Owned(r)' <=> Owned(r))
  BY <1>4, <1>5 DEF Owned
<1>9. N'[o] = N[o]
  <2>1. CASE r \in X
    BY <1>7, <2>1, NoticeIs, NoticeIsNext DEF Ended
  <2>2. CASE r \notin X
    BY <1>6, <1>8, <2>2, NoticeIs, NoticeIsNext
  <2> QED
    BY <2>1, <2>2
<1> QED
  BY <1>3, <1>9 DEF S

\* The passes stay as they are, and the lifecycle rows but for that of o.
LEMMA NoticeRest ==
  ASSUME TypeInv, NEW o \in Orders, worker' = worker, tries' = tries,
         \A p \in Orders : p # o => row'[Lifecycle(p)] = row[Lifecycle(p)]
  PROVE  \A p \in Orders : p # o => N'[p] = N[p] /\ S'[p] = S[p]
<1> SUFFICES ASSUME NEW p \in Orders, p # o PROVE N'[p] = N[p] /\ S'[p] = S[p]
  OBVIOUS
<1>1. Owned(Lifecycle(p))' <=> Owned(Lifecycle(p))
  BY DEF Owned
<1> QED
  BY <1>1, NoticeIs, NoticeIsNext DEF S

LEMMA NoticeOrder ==
  ASSUME TypeInv, OwnerInv, NEW o \in Orders, Fill(o) \/ Cancel(o)
  PROVE  [Notices!NoticeNext]_<<N, S>>
<1> USE Types, LifecycleRows
<1>1. CASE Fill(o)
  <2>1. worker' = worker /\ tries' = tries /\ row' = row
    BY <1>1 DEF Fill
  <2> QED
    BY <2>1, SameNotices DEF N, S, NoticeOf, Owns
<1>2. CASE Cancel(o)
  <2>1. worker' = worker /\ tries' = tries
    BY <1>2 DEF Cancel
  <2>2. PICK new \in Row : new.status = "pending" /\ Rewrites(o, new)
    BY <1>2, CancelRewrites
  <2>3. \A p \in Orders : p # o => row'[Lifecycle(p)] = row[Lifecycle(p)]
    BY <2>2 DEF Rewrites
  <2>4. row[Lifecycle(o)].status = "none" /\ row'[Lifecycle(o)].status = "pending"
    BY <1>2, <2>2 DEF Cancel, OwnerInv, Rewrites
  <2>5. Turned(o, "none", "due")
    BY <2>1, <2>4, NoticeIs, NoticeIsNext DEF Turned, Ended, S
  <2> QED
    BY <2>1, <2>3, <2>5, NoticeRest, OneNotice DEF Allowed
<1> QED
  BY <1>1, <1>2

LEMMA NoticeRedrive ==
  ASSUME TypeInv, NEW a \in Admins,
         RedriveWrite(a) \/ \E o \in Orders : RedriveRead(a, o)
  PROVE  [Notices!NoticeNext]_<<N, S>>
<1> USE Types, LifecycleRows
<1>1. worker' = worker /\ tries' = tries
  BY DEF RedriveWrite, RedriveRead
<1>2. \A p \in Orders : row'[Lifecycle(p)] = row[Lifecycle(p)]
  <2>1. CASE row' = row
    BY <2>1
  <2>2. CASE RedriveWrite(a)
    <3> DEFINE new == [status |-> "pending", attempts |-> 0]
    <3>1. row' = [row EXCEPT ![Dispatch(admin[a])] = new]
      BY <2>2 DEF RedriveWrite
    <3> HIDE DEF new
    <3> QED
      BY <3>1
  <2> QED
    BY <2>1, <2>2 DEF RedriveRead
<1>3. \A p \in Orders : Owned(Lifecycle(p))' <=> Owned(Lifecycle(p))
  BY <1>1 DEF Owned
<1>4. \A p \in Orders : N'[p] = N[p] /\ S'[p] = S[p]
  BY <1>1, <1>2, <1>3, NoticeIs, NoticeIsNext DEF S
<1> QED
  BY <1>4, SameNotices

LEMMA NoticeStep ==
  ASSUME TypeInv, OwnerInv, CountInv, [Next]_vars
  PROVE  [Notices!NoticeNext]_<<N, S>>
<1>1. CASE UNCHANGED vars
  BY <1>1, SameNotices DEF vars, N, S, NoticeOf, Owns
<1>2. CASE \E o \in Orders : Fill(o) \/ Cancel(o)
  BY <1>2, NoticeOrder
<1>3. ASSUME NEW w \in Workers, Process(w) \/ FaultStep(w)
      PROVE  [Notices!NoticeNext]_<<N, S>>
  <2>1. Neat(worker[w])
    BY DEF OwnerInv
  <2>2. PICK d : PassStep(w, d)
    BY <1>3, <2>1, PassSteps
  <2> QED
    BY <2>2, NoticePass
<1>4. ASSUME NEW w \in Workers, Claim(w)
      PROVE  [Notices!NoticeNext]_<<N, S>>
  BY <1>4, NoticeClaim
<1>5. CASE \E a \in Admins : RedriveWrite(a) \/ \E o \in Orders : RedriveRead(a, o)
  BY <1>5, NoticeRedrive
<1> QED
  BY <1>1, <1>2, <1>3, <1>4, <1>5 DEF Next

\* The lifecycle outbox implements the announcement contract: a cancellation falls
\* due once, is sent while it is due and at most maxAttempts times, and ends for
\* good, delivered or given up, whatever passes interleave, crash or fail.
THEOREM CancellationsAreAnnounced == Spec => AnnouncesCancellations
<1>1. Init => Notices!NoticeInit
  <2> SUFFICES ASSUME Init PROVE Notices!NoticeInit
    OBVIOUS
  <2>1. \A o \in Orders : row[Lifecycle(o)].status = "none" /\ tries[Lifecycle(o)] = 0
    BY DEF Init, Lifecycle, Rows, Kinds
  <2>2. \A o \in Orders : N[o] = "none" /\ S[o] = 0
    BY <2>1, NoticeIs DEF S
  <2>3. N = [o \in Orders |-> "none"] /\ S = [o \in Orders |-> 0]
    BY <2>2 DEF N, S
  <2> QED
    BY <2>3 DEF Notices!NoticeInit, N, S
<1>2. TypeInv /\ OwnerInv /\ CountInv /\ [Next]_vars => [Notices!NoticeNext]_<<N, S>>
  BY NoticeStep
<1>3. [Notices!NoticeNext]_<<N, S>> <=>
        [Notices!NoticeNext]_<<[o \in Orders |-> NoticeOf(o)], [o \in Orders |-> tries[Lifecycle(o)]]>>
  BY DEF N, S
<1> QED
  BY <1>1, <1>2, <1>3, TypeInvariant, OwnerInvariant, CountInvariant, PTL
     DEF Spec, AnnouncesCancellations, Notices!NoticeSpec
=============================================================================
