------------------------------ MODULE JobQueue ------------------------------
(***************************************************************************)
(* The Redis job queue of src/src/shared/services/queue.service.ts (class  *)
(* RedisQueue), for one queue name served by several server instances.     *)
(*                                                                         *)
(* A job travels through Redis structures: one list per priority level, a  *)
(* sorted set of delayed jobs, a hash of the jobs being processed and a    *)
(* dead-letter list.  Every Redis command is one action; what lies between *)
(* two commands is where another instance interleaves or this one dies.    *)
(* Each instance runs a worker loop, a poller that moves delayed jobs, and *)
(* at its start a recovery that re-queues what a dead instance left in the *)
(* processing hash.                                                        *)
(*                                                                         *)
(* The legacy list without a priority suffix is drained first but nothing  *)
(* is pushed to it any more: it is left out.                               *)
(***************************************************************************)
EXTENDS Naturals, Sequences

CONSTANTS
  Jobs,          \* the jobs that may be added
  Instances,     \* the server instances
  None,
  Lowest,        \* number of priority levels; the worker blocks on the last
  Normal,        \* the level of an unknown priority
  PriorityOf,    \* [Jobs -> Nat]: options.priority, 0 when absent
  MaxAttempts,   \* job.maxAttempts
  Twins,         \* bound: members of the sorted set alike but for their times
  MaxUpsets,     \* bound: polls that overlap another one, entries that grow stale
  MaxFaults      \* bound: crashes and failed Redis commands in a behaviour

Levels == 1 .. Lowest

ASSUME JobQueueAssumption ==
  /\ Lowest \in Nat \ {0}
  /\ Normal \in Levels
  /\ PriorityOf \in [Jobs -> Nat]
  /\ MaxAttempts \in Nat \ {0}
  /\ Twins \subseteq Nat
  /\ MaxUpsets \in Nat /\ MaxFaults \in Nat
  /\ None \notin Jobs

VARIABLES
  list,        \* [Levels -> Seq(Copy)]: LPUSH at the end, RPOP at the head
  delayed,     \* the members of the sorted set
  processing,  \* [Jobs -> Entry or None]: the processing hash
  dead,        \* jobs in the dead-letter list
  done,        \* jobs whose processor has returned
  added,       \* jobs some caller has added
  runs,        \* [Jobs -> 0..MaxAttempts]: processor calls, MaxAttempts and more alike
  worker,      \* [Instances -> the worker loop]
  poll,        \* [Instances -> the poller: what it read, what it has to push]
  scan,        \* [Instances -> recovery: what it has to push, what to delete]
  upsets,      \* overlapping polls and stale entries so far
  faults       \* crashes and failed commands so far

vars == <<list, delayed, processing, dead, done, added, runs, worker, poll,
          scan, upsets, faults>>

\* A serialised job, and a member of the sorted set: `twin` stands for the
\* timestamps that keep two retries of one job apart.
Copy == [job: Jobs, attempts: 0 .. MaxAttempts - 1]
Member == [copy: Copy, twin: Twins]
Entry == [copy: Copy, stale: BOOLEAN]
Stage == {"down", "look", "popped", "running", "won", "failed", "park"}
Worker == [at: Stage, level: Levels, copy: Copy \union {None}]
Idle == [at |-> "look", level |-> 1, copy |-> None]
Down == [at |-> "down", level |-> 1, copy |-> None]
NoPoll == [todo |-> {}, batch |-> {}]
NoScan == [todo |-> {}, pushed |-> None]

ASSUME NoneAssumption == None \notin Copy \union Entry

\* Two events that copy jobs are counted, to bound the copies.
Upset == upsets < MaxUpsets /\ upsets' = upsets + 1

LevelOf(j) == IF PriorityOf[j] \in Levels THEN PriorityOf[j] ELSE Normal

Push(c) == list' = [list EXCEPT ![LevelOf(c.job)] = Append(@, c)]

Init ==
  /\ list = [l \in Levels |-> <<>>]
  /\ delayed = {}
  /\ processing = [j \in Jobs |-> None]
  /\ dead = {} /\ done = {} /\ added = {}
  /\ runs = [j \in Jobs |-> 0]
  /\ worker = [i \in Instances |-> Down]
  /\ poll = [i \in Instances |-> NoPoll]
  /\ scan = [i \in Instances |-> NoScan]
  /\ upsets = 0 /\ faults = 0

---------------------------------------------------------------------------
(* Callers *)

NewCopy(j) == [job |-> j, attempts |-> 0]

\* ZADD of a member that no poller has read yet
Delay(c) ==
  \E t \in Twins :
    LET taken(n) == \/ [copy |-> c, twin |-> n] \in delayed
                    \/ \E i \in Instances : [copy |-> c, twin |-> n] \in poll[i].batch IN
    /\ ~taken(t) /\ \A n \in Twins : n < t => taken(n)
    /\ delayed' = delayed \union {[copy |-> c, twin |-> t]}

Add(j) ==
  /\ j \notin added
  /\ added' = added \union {j}
  /\ \/ Push(NewCopy(j)) /\ UNCHANGED delayed
     \/ Delay(NewCopy(j)) /\ UNCHANGED list
  /\ UNCHANGED <<processing, dead, done, runs, worker, poll, scan, upsets, faults>>

---------------------------------------------------------------------------
(* runWorkerLoop and processJob *)

StuckLevel(l) == IF l = Lowest THEN l ELSE l + 1                        \* mutant
NextLevel(l) == IF l = Lowest THEN 1 ELSE l + 1

\* RPOP of one list, BRPOP of the last one; an empty list sends the worker on
\* to the next, the timeout of the last one back to the first.
Look(i) ==
  LET l == worker[i].level IN
  /\ worker[i].at = "look"
  /\ \/ /\ list[l] = <<>>
        /\ worker' = [worker EXCEPT ![i].level = NextLevel(l)]
        /\ UNCHANGED list
     \/ /\ list[l] # <<>>
        /\ list' = [list EXCEPT ![l] = Tail(@)]
        /\ worker' = [worker EXCEPT ![i] = [at |-> "popped", level |-> 1,
                                            copy |-> Head(list[l])]]
  /\ UNCHANGED <<delayed, processing, dead, done, added, runs, poll, scan, upsets, faults>>

\* processJob calls the processor right after the HSET
Run(i, j) ==
  /\ worker[i].at = "popped" /\ worker[i].copy.job = j
  /\ runs' = [runs EXCEPT ![j] = IF @ < MaxAttempts THEN @ + 1 ELSE @]
  /\ worker' = [worker EXCEPT ![i].at = "running"]

Record(i, j) ==
  /\ Run(i, j)
  /\ processing' = [processing EXCEPT ![j] = [copy |-> worker[i].copy, stale |-> FALSE]]
  /\ UNCHANGED <<list, delayed, dead, done, added, poll, scan, upsets, faults>>

Succeed(i) ==
  /\ worker[i].at = "running"
  /\ done' = done \union {worker[i].copy.job}
  /\ worker' = [worker EXCEPT ![i].at = "won"]
  /\ UNCHANGED <<list, delayed, processing, dead, added, runs, poll, scan, upsets, faults>>

Fail(i) ==
  /\ worker[i].at = "running"
  /\ worker' = [worker EXCEPT ![i].at = "failed"]
  /\ UNCHANGED <<list, delayed, processing, dead, done, added, runs, poll, scan, upsets, faults>>

ParkAll(i) ==                                                           \* mutant
  /\ worker[i].at \in {"won", "failed"}
  /\ worker' = [worker EXCEPT ![i].at = "park"]

\* HDEL by job id, whoever wrote the entry; then a failed job goes on to "park"
Settle(i) ==
  /\ worker[i].at \in {"won", "failed"}
  /\ worker' = IF worker[i].at = "won" THEN [worker EXCEPT ![i] = Idle]
                                       ELSE [worker EXCEPT ![i].at = "park"]

ForgetNothing(i) ==                                                     \* mutant
  /\ Settle(i)
  /\ UNCHANGED <<list, delayed, processing, dead, done, added, runs, poll, scan, upsets, faults>>

Forget(i) ==
  /\ Settle(i)
  /\ processing' = [processing EXCEPT ![worker[i].copy.job] = None]
  /\ UNCHANGED <<list, delayed, dead, done, added, runs, poll, scan, upsets, faults>>

\* the job after the failed attempt
Tried(i) == [job |-> worker[i].copy.job, attempts |-> worker[i].copy.attempts + 1]

ExhaustedLate(c) == c.attempts > MaxAttempts                            \* mutant
ExhaustedEarly(c) == c.attempts + 1 >= MaxAttempts                      \* mutant
Exhausted(c) == c.attempts >= MaxAttempts

Park(i) ==
  /\ worker[i].at = "park"
  /\ \/ /\ Exhausted(Tried(i))
        /\ dead' = dead \union {Tried(i).job}
        /\ UNCHANGED delayed
     \/ /\ ~Exhausted(Tried(i))
        /\ Delay(Tried(i))
        /\ UNCHANGED dead
  /\ worker' = [worker EXCEPT ![i] = Idle]
  /\ UNCHANGED <<list, processing, done, added, runs, poll, scan, upsets, faults>>

---------------------------------------------------------------------------
(* startDelayPoller: every instance polls, nothing keeps two polls apart.   *)
(* The back-off of a retry is at least two seconds, so no member is         *)
(* due before it has landed, and ZREMRANGEBYSCORE removes what was read.    *)

PollRead(i) ==
  /\ worker[i].at # "down" /\ poll[i] = NoPoll
  /\ \E due \in SUBSET delayed \ {{}} :
       poll' = [poll EXCEPT ![i] = [todo |-> due, batch |-> due]]
  /\ IF \A k \in Instances : poll[k] = NoPoll THEN UNCHANGED upsets ELSE Upset
  /\ UNCHANGED <<list, delayed, processing, dead, done, added, runs, worker, scan, faults>>

PollPush(i) ==
  /\ \E m \in poll[i].todo :
       /\ Push(m.copy)
       /\ poll' = [poll EXCEPT ![i].todo = @ \ {m}]
  /\ UNCHANGED <<delayed, processing, dead, done, added, runs, worker, scan, upsets, faults>>

WholeSet(i) == delayed                                                  \* mutant
RangeRead(i) == poll[i].batch

PollRemove(i) ==
  /\ poll[i].todo = {} /\ poll[i].batch # {}
  /\ delayed' = delayed \ RangeRead(i)
  /\ poll' = [poll EXCEPT ![i] = NoPoll]
  /\ UNCHANGED <<list, processing, dead, done, added, runs, worker, scan, upsets, faults>>

---------------------------------------------------------------------------
(* recoverStaleProcessingJobs: once, at the start of an instance *)

\* an entry has been in the hash for STALE_PROCESSING_THRESHOLD_MS
GrowStale(j) ==
  /\ Upset
  /\ processing[j] # None /\ ~processing[j].stale
  /\ processing' = [processing EXCEPT ![j].stale = TRUE]
  /\ UNCHANGED <<list, delayed, dead, done, added, runs, worker, poll, scan, faults>>

EveryEntry == {processing[j].copy : j \in {k \in Jobs : processing[k] # None}} \* mutant
StaleEntries == {processing[j].copy : j \in {k \in Jobs : processing[k] # None /\ processing[k].stale}}

Start(i) ==
  /\ worker[i].at = "down"
  /\ worker' = [worker EXCEPT ![i] = Idle]
  /\ scan' = [scan EXCEPT ![i].todo = StaleEntries]
  /\ UNCHANGED <<list, delayed, processing, dead, done, added, runs, poll, upsets, faults>>

Requeue(i) ==
  /\ scan[i].pushed = None
  /\ \E c \in scan[i].todo :
       /\ Push(c)
       /\ scan' = [scan EXCEPT ![i] = [todo |-> @.todo \ {c}, pushed |-> c.job]]
  /\ UNCHANGED <<delayed, processing, dead, done, added, runs, worker, poll, upsets, faults>>

\* HDEL by job id: the entry may be a newer one by now
DropEntry(i) ==
  /\ scan[i].pushed # None
  /\ processing' = [processing EXCEPT ![scan[i].pushed] = None]
  /\ scan' = [scan EXCEPT ![i].pushed = None]
  /\ UNCHANGED <<list, delayed, dead, done, added, runs, worker, poll, upsets, faults>>

---------------------------------------------------------------------------
(* Faults.  gracefulShutdown of server.ts stops the loops and exits without *)
(* waiting for the jobs being processed: a deployment is a Crash too.       *)

Fault == faults < MaxFaults /\ faults' = faults + 1

Crash(i) ==
  /\ Fault
  /\ worker[i].at # "down"
  /\ worker' = [worker EXCEPT ![i] = Down]
  /\ poll' = [poll EXCEPT ![i] = NoPoll]
  /\ scan' = [scan EXCEPT ![i] = NoScan]
  /\ UNCHANGED <<list, delayed, processing, dead, done, added, runs, upsets>>

\* the HSET fails: .catch(() => {}) lets the job run without its entry
RecordFails(i, j) ==
  /\ Fault /\ Run(i, j)
  /\ UNCHANGED <<list, delayed, processing, dead, done, added, poll, scan, upsets>>

\* the HDEL fails and is swallowed too: the entry of a finished job stays
ForgetFails(i) ==
  /\ Fault /\ Settle(i)
  /\ UNCHANGED <<list, delayed, processing, dead, done, added, runs, poll, scan, upsets>>

\* the LPUSH or ZADD fails: the worker loop logs the error and goes on
ParkFails(i) ==
  /\ Fault
  /\ worker[i].at = "park"
  /\ worker' = [worker EXCEPT ![i] = Idle]
  /\ UNCHANGED <<list, delayed, processing, dead, done, added, runs, poll, scan, upsets>>

\* an LPUSH fails half way: the members stay, those pushed will be pushed again
PollFails(i) ==
  /\ Fault
  /\ poll[i].todo # {}
  /\ poll' = [poll EXCEPT ![i] = NoPoll]
  /\ UNCHANGED <<list, delayed, processing, dead, done, added, runs, worker, scan, upsets>>

\* the LPUSH of a recovery fails: the catch takes the entry for a corrupt one and
\* deletes it all the same
RequeueFails(i) ==
  /\ Fault
  /\ scan[i].pushed = None
  /\ \E c \in scan[i].todo :
       scan' = [scan EXCEPT ![i] = [todo |-> @.todo \ {c}, pushed |-> c.job]]
  /\ UNCHANGED <<list, delayed, processing, dead, done, added, runs, worker, poll, upsets>>

---------------------------------------------------------------------------

WorkerStep(i) == \/ Look(i) \/ Succeed(i) \/ Fail(i) \/ Forget(i) \/ Park(i)
                 \/ \E j \in Jobs : Record(i, j)
PollerStep(i) == PollRead(i) \/ PollPush(i) \/ PollRemove(i)
RecoveryStep(i) == Requeue(i) \/ DropEntry(i)
FaultStep(i) == \/ Crash(i) \/ ForgetFails(i) \/ ParkFails(i) \/ PollFails(i)
                \/ RequeueFails(i) \/ \E j \in Jobs : RecordFails(i, j)

Next ==
  \/ \E j \in Jobs : Add(j) \/ GrowStale(j)
  \/ \E i \in Instances : \/ Start(i) \/ WorkerStep(i) \/ PollerStep(i)
                          \/ RecoveryStep(i) \/ FaultStep(i)

\* Started instances run their loops; an instance that is down is started again
\* (the orchestrator keeps the service at its size).  Nobody has to add a job,
\* and no entry has to grow stale.
Fairness ==
  \A i \in Instances : /\ WF_vars(Start(i)) /\ WF_vars(WorkerStep(i))
                       /\ WF_vars(PollerStep(i)) /\ WF_vars(RecoveryStep(i))

Spec == Init /\ [][Next]_vars /\ Fairness

---------------------------------------------------------------------------
(* Properties *)

\* Type invariant.  A job that waits always has an attempt left, and a worker
\* holds a copy exactly when it is between its pop and its next look.
TypeOK ==
  /\ list \in [Levels -> Seq(Copy)]
  /\ delayed \subseteq Member
  /\ processing \in [Jobs -> Entry \union {None}]
  /\ dead \subseteq Jobs /\ done \subseteq Jobs /\ added \subseteq Jobs
  /\ runs \in [Jobs -> 0 .. MaxAttempts]
  /\ worker \in [Instances -> Worker]
  /\ \A i \in Instances : worker[i].copy = None <=> worker[i].at \in {"down", "look"}
  /\ poll \in [Instances -> [todo: SUBSET Member, batch: SUBSET Member]]
  /\ scan \in [Instances -> [todo: SUBSET Copy, pushed: Jobs \union {None}]]
  /\ upsets \in 0 .. MaxUpsets /\ faults \in 0 .. MaxFaults

InList(j) == \E l \in Levels : \E k \in 1 .. Len(list[l]) : list[l][k].job = j
Held(j) == \E i \in Instances : worker[i].copy # None /\ worker[i].copy.job = j
Ended(j) == j \in done \union dead

\* Some record of the job is left from which it can still be run, or it has run
\* to its end.
Accounted(j) ==
  \/ Ended(j) \/ InList(j) \/ Held(j)
  \/ \E m \in delayed : m.copy.job = j
  \/ processing[j] # None

\* The comment of runWorkerLoop: "If ECS crashes after BRPOP but before
\* completion, this job will be recovered from the processing hash".  It is not
\* when the crash falls between the pop and the HSET, or between the HDEL and the
\* push of a retry.
NotLost == \A j \in added : Accounted(j)

\* As long as no instance dies and no Redis command fails, an added job is never
\* dropped: not by two pollers that read the same members and delete each
\* other's, not by a recovery that re-queues a job that is still running, not by
\* the HDEL of one copy while another runs.
NothingLostWithoutFault == faults = 0 => NotLost

\* A job lands in the dead-letter list only after its processor has been called
\* maxAttempts times, whatever copies, recoveries and crashes happened on the
\* way: a waiting copy never carries more attempts than there were calls.
DeadLetterExhausted ==
  /\ \A j \in dead : runs[j] = MaxAttempts
  /\ \A m \in delayed : m.copy.attempts <= runs[m.copy.job]
  /\ \A l \in Levels : \A k \in 1 .. Len(list[l]) :
       list[l][k].attempts <= runs[list[l][k].job]

\* The queue delivers at least once; it is the faults, two polls that overlap and
\* a recovery that takes a slow job for a stranded one that deliver twice.  In
\* their absence no two workers have a copy of one job in hand, no worker runs a
\* job that has ended, a popped copy knows how often its processor was called, and
\* no job both succeeds and lands in the dead-letter list.
RunsAlone ==
  faults = 0 /\ upsets = 0 =>
    /\ \A i, k \in Instances :
         worker[i].copy # None /\ worker[k].copy # None /\ worker[i].copy.job = worker[k].copy.job
           => i = k
    /\ \A i \in Instances : worker[i].at \in {"popped", "running"} =>
         ~Ended(worker[i].copy.job)
    /\ \A i \in Instances : worker[i].at = "popped" =>
         runs[worker[i].copy.job] = worker[i].copy.attempts
    /\ done \cap dead = {}

\* A worker has the job in hand, at one of the stages.
AtStage(j, stages) == \E i \in Instances : worker[i].at \in stages /\ worker[i].copy.job = j

\* In the same calm the processing hash is an exact record: it has an entry for
\* each job between the call of its processor and the HDEL after it, with the copy
\* the worker has, so that a crash in between leaves the job to the recovery; and no
\* entry for any other job, which a recovery would run again.
HashIsExact ==
  faults = 0 /\ upsets = 0 =>
    /\ \A i \in Instances : worker[i].at \in {"running", "won", "failed"} =>
         processing[worker[i].copy.job] = [copy |-> worker[i].copy, stale |-> FALSE]
    /\ \A j \in Jobs : processing[j] # None => AtStage(j, {"running", "won", "failed"})

\* Where a job stands in its life.
LifeOf(j) ==
  CASE j \in dead        -> "dead"
    [] j \in done \ dead -> "done"
    [] ~Ended(j) /\ AtStage(j, {"running"}) -> "running"
    [] ~Ended(j) /\ ~AtStage(j, {"running"}) /\ AtStage(j, {"failed", "park"}) -> "failed"
    [] OTHER -> IF j \in added THEN "waiting" ELSE "new"

Lives == INSTANCE JobLives WITH
           life <- [j \in Jobs |-> LifeOf(j)],
           calls <- runs,
           disturbed <- faults > 0 \/ upsets > 0

\* The queue implements the life of a job of JobLives, although a copy of it goes
\* through lists, a sorted set, a hash and several instances.
KeepsLives == Lives!LifeSpec

\* Every added job ends, in the processor or in the dead-letter list, unless
\* something breaks: no schedule of workers, pollers and recoveries starves it.
EveryJobEnds == \A j \in Jobs : j \in added ~> Ended(j) \/ faults > 0
=============================================================================
