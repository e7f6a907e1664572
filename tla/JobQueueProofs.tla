--------------------------- MODULE JobQueueProofs ---------------------------
(* Proofs about JobQueue: its types, the attempts behind a dead letter, and   *)
(* that no job is dropped while nothing breaks.                               *)
EXTENDS JobQueue, TLAPS

-----------------------------------------------------------------------------
(* Types                                                                     *)

\* The priority of a job always names a list.
LEMMA LevelType ==
  ASSUME NEW j \in Jobs
  PROVE  LevelOf(j) \in Levels
BY JobQueueAssumption DEF LevelOf

LEMMA PushType ==
  ASSUME list \in [Levels -> Seq(Copy)], NEW c \in Copy, Push(c)
  PROVE  list' \in [Levels -> Seq(Copy)]
<1>1. LevelOf(c.job) \in Levels
  BY LevelType DEF Copy
<1>2. Append(list[LevelOf(c.job)], c) \in Seq(Copy)
  BY <1>1
<1> QED
  BY <1>2 DEF Push

LEMMA DelayType ==
  ASSUME delayed \subseteq Member, NEW c \in Copy, Delay(c)
  PROVE  delayed' \subseteq Member
<1>1. PICK t \in Twins : delayed' = delayed \union {[copy |-> c, twin |-> t]}
  BY DEF Delay
<1>2. [copy |-> c, twin |-> t] \in Member
  BY DEF Member
<1> QED
  BY <1>1, <1>2

LEMMA NewCopyType ==
  ASSUME NEW j \in Jobs
  PROVE  NewCopy(j) \in Copy
BY JobQueueAssumption DEF NewCopy, Copy

LEMMA TypeInit == Init => TypeOK
<1> SUFFICES ASSUME Init PROVE TypeOK
  OBVIOUS
<1> USE JobQueueAssumption
<1>1. list \in [Levels -> Seq(Copy)]
  <2>1. <<>> \in Seq(Copy)
    OBVIOUS
  <2> QED
    BY <2>1 DEF Init
<1>2. Down \in Worker
  BY DEF Down, Worker, Stage, Levels
<1>3. worker \in [Instances -> Worker] /\ \A i \in Instances : worker[i] = Down
  BY <1>2 DEF Init
<1>4. \A i \in Instances : worker[i].copy = None <=> worker[i].at \in {"down", "look"}
  BY <1>3 DEF Down
<1>5. /\ poll \in [Instances -> [todo: SUBSET Member, batch: SUBSET Member]]
      /\ scan \in [Instances -> [todo: SUBSET Copy, pushed: Jobs \union {None}]]
  BY DEF Init, NoPoll, NoScan
<1>6. runs \in [Jobs -> 0 .. MaxAttempts] /\ upsets \in 0 .. MaxUpsets /\ faults \in 0 .. MaxFaults
  BY DEF Init
<1>7. delayed \subseteq Member /\ processing \in [Jobs -> Entry \union {None}]
  BY DEF Init
<1>8. dead \subseteq Jobs /\ done \subseteq Jobs /\ added \subseteq Jobs
  BY DEF Init
<1> QED
  BY <1>1, <1>3, <1>4, <1>5, <1>6, <1>7, <1>8 DEF TypeOK

\* The copy a worker has in hand.
LEMMA HeldCopy ==
  ASSUME TypeOK, NEW i \in Instances, worker[i].at \notin {"down", "look"}
  PROVE  worker[i].copy \in Copy /\ worker[i].copy.job \in Jobs /\ worker[i].copy # None
<1>1. worker[i] \in Worker /\ worker[i].copy # None
  BY DEF TypeOK
<1>2. worker[i].copy \in Copy
  BY <1>1 DEF Worker
<1> QED
  BY <1>1, <1>2 DEF Copy

\* A worker goes to look again, or on to the next stage with what it has.
LEMMA WorkerTypes ==
  ASSUME TypeOK, NEW i \in Instances
  PROVE  /\ worker' = [worker EXCEPT ![i] = Idle] \/ worker' = [worker EXCEPT ![i] = Down]
              => /\ worker' \in [Instances -> Worker]
                 /\ \A k \in Instances : worker'[k].copy = None <=> worker'[k].at \in {"down", "look"}
         /\ \A s \in Stage \ {"down", "look"} :
              worker[i].at \notin {"down", "look"} /\ worker' = [worker EXCEPT ![i].at = s]
                => /\ worker' \in [Instances -> Worker]
                   /\ \A k \in Instances :
                        worker'[k].copy = None <=> worker'[k].at \in {"down", "look"}
<1>1. worker \in [Instances -> Worker] /\ worker[i] \in Worker
  BY DEF TypeOK
<1>2. Idle \in Worker /\ Down \in Worker
  BY JobQueueAssumption DEF Idle, Down, Worker, Stage, Levels
<1>3. Idle.copy = None /\ Idle.at = "look" /\ Down.copy = None /\ Down.at = "down"
  BY DEF Idle, Down
<1>4. ASSUME NEW s \in Stage
      PROVE  /\ [worker[i] EXCEPT !.at = s] \in Worker
             /\ [worker[i] EXCEPT !.at = s].at = s
             /\ [worker[i] EXCEPT !.at = s].copy = worker[i].copy
  BY <1>1 DEF Worker
<1>5. ASSUME NEW s \in Stage \ {"down", "look"}, worker[i].at \notin {"down", "look"},
             worker' = [worker EXCEPT ![i].at = s]
      PROVE  /\ worker' \in [Instances -> Worker]
             /\ \A k \in Instances : worker'[k].copy = None <=> worker'[k].at \in {"down", "look"}
  <2>1. worker' = [worker EXCEPT ![i] = [worker[i] EXCEPT !.at = s]]
    BY <1>5
  <2>2. [worker[i] EXCEPT !.at = s].copy # None
    BY <1>4, <1>5 DEF TypeOK
  <2> QED
    BY <1>1, <1>4, <1>5, <2>1, <2>2 DEF TypeOK
<1>6. ASSUME worker' = [worker EXCEPT ![i] = Idle] \/ worker' = [worker EXCEPT ![i] = Down]
      PROVE  /\ worker' \in [Instances -> Worker]
             /\ \A k \in Instances : worker'[k].copy = None <=> worker'[k].at \in {"down", "look"}
  BY <1>1, <1>2, <1>3, <1>6 DEF TypeOK
<1> QED
  BY <1>5, <1>6

LEMMA WorkerStepTypes ==
  ASSUME TypeOK, NEW i \in Instances, WorkerStep(i)
  PROVE  TypeOK'
<1> USE JobQueueAssumption
<1>1. CASE Look(i)
  <2> DEFINE l == worker[i].level
  <2>1. l \in Levels /\ worker[i] \in Worker
    BY DEF TypeOK, Worker
  <2>2. CASE list[l] = <<>> /\ worker' = [worker EXCEPT ![i].level = NextLevel(l)] /\ UNCHANGED list
    <3>1. NextLevel(l) \in Levels
      BY <2>1 DEF NextLevel, Levels
    <3>2. /\ [worker[i] EXCEPT !.level = NextLevel(l)] \in Worker
          /\ [worker[i] EXCEPT !.level = NextLevel(l)].at = worker[i].at
          /\ [worker[i] EXCEPT !.level = NextLevel(l)].copy = worker[i].copy
      BY <2>1, <3>1 DEF Worker
    <3> QED
      BY <1>1, <2>2, <3>2 DEF Look, TypeOK
  <2>3. CASE /\ list[l] # <<>>
             /\ list' = [list EXCEPT ![l] = Tail(@)]
             /\ worker' = [worker EXCEPT ![i] = [at |-> "popped", level |-> 1,
                                                 copy |-> Head(list[l])]]
    <3>1. list[l] \in Seq(Copy) /\ list[l] # <<>>
      BY <2>1, <2>3 DEF TypeOK
    <3>2. Head(list[l]) \in Copy /\ Tail(list[l]) \in Seq(Copy)
      BY <3>1
    <3>3. list' \in [Levels -> Seq(Copy)]
      BY <2>3, <3>2 DEF TypeOK
    <3>4. Head(list[l]) # None
      BY <3>2, NoneAssumption
    <3>5. [at |-> "popped", level |-> 1, copy |-> Head(list[l])] \in Worker
      BY <3>2 DEF Worker, Stage, Levels
    <3>6. /\ worker' \in [Instances -> Worker]
          /\ \A k \in Instances : worker'[k].copy = None <=> worker'[k].at \in {"down", "look"}
      BY <2>3, <3>4, <3>5 DEF TypeOK
    <3> QED
      BY <1>1, <3>3, <3>6 DEF Look, TypeOK
  <2> QED
    BY <1>1, <2>2, <2>3 DEF Look
<1>2. ASSUME NEW j \in Jobs, Record(i, j) PROVE TypeOK'
  <2>1. worker[i].copy \in Copy
    BY <1>2, HeldCopy DEF Record, Run
  <2>2. [copy |-> worker[i].copy, stale |-> FALSE] \in Entry
    BY <2>1 DEF Entry
  <2>3. processing' \in [Jobs -> Entry \union {None}]
    BY <1>2, <2>2 DEF Record, TypeOK
  <2>4. runs' \in [Jobs -> 0 .. MaxAttempts]
    BY <1>2 DEF Record, Run, TypeOK
  <2>5. /\ worker' \in [Instances -> Worker]
        /\ \A k \in Instances : worker'[k].copy = None <=> worker'[k].at \in {"down", "look"}
    BY <1>2, WorkerTypes DEF Record, Run, Stage
  <2> QED
    BY <1>2, <2>3, <2>4, <2>5 DEF Record, TypeOK
<1>3. CASE Succeed(i) \/ Fail(i)
  <2>1. worker[i].copy.job \in Jobs
    BY <1>3, HeldCopy DEF Succeed, Fail
  <2>2. /\ worker' \in [Instances -> Worker]
        /\ \A k \in Instances : worker'[k].copy = None <=> worker'[k].at \in {"down", "look"}
    BY <1>3, WorkerTypes DEF Succeed, Fail, Stage
  <2> QED
    BY <1>3, <2>1, <2>2 DEF Succeed, Fail, TypeOK
<1>4. CASE Forget(i)
  <2>1. /\ worker' \in [Instances -> Worker]
        /\ \A k \in Instances : worker'[k].copy = None <=> worker'[k].at \in {"down", "look"}
    BY <1>4, WorkerTypes DEF Forget, Settle, Stage
  <2>2. processing' \in [Jobs -> Entry \union {None}]
    BY <1>4 DEF Forget, TypeOK
  <2> QED
    BY <1>4, <2>1, <2>2 DEF Forget, TypeOK
<1>5. CASE Park(i)
  <2>1. worker[i].copy \in Copy
    BY <1>5, HeldCopy DEF Park
  <2>2. Tried(i).job \in Jobs
    BY <2>1 DEF Tried, Copy
  <2>3. ~Exhausted(Tried(i)) => Tried(i) \in Copy
    BY <2>1 DEF Tried, Copy, Exhausted
  <2>4. dead' \subseteq Jobs /\ delayed' \subseteq Member
    BY <1>5, <2>2, <2>3, DelayType DEF Park, TypeOK
  <2>5. /\ worker' \in [Instances -> Worker]
        /\ \A k \in Instances : worker'[k].copy = None <=> worker'[k].at \in {"down", "look"}
    BY <1>5, WorkerTypes DEF Park
  <2> QED
    BY <1>5, <2>4, <2>5 DEF Park, TypeOK
<1> QED
  BY <1>1, <1>2, <1>3, <1>4, <1>5 DEF WorkerStep

LEMMA LoopStepTypes ==
  ASSUME TypeOK, NEW i \in Instances,
         Start(i) \/ PollerStep(i) \/ RecoveryStep(i)
  PROVE  TypeOK'
<1> USE JobQueueAssumption
<1> DEFINE Poll == [todo: SUBSET Member, batch: SUBSET Member]
           Scan == [todo: SUBSET Copy, pushed: Jobs \union {None}]
<1>1. poll[i] \in Poll /\ scan[i] \in Scan
  BY DEF TypeOK
<1>2. CASE PollRead(i)
  <2>1. PICK due \in SUBSET delayed : poll' = [poll EXCEPT ![i] = [todo |-> due, batch |-> due]]
    BY <1>2 DEF PollRead
  <2>2. [todo |-> due, batch |-> due] \in Poll
    BY DEF TypeOK
  <2>3. poll' \in [Instances -> Poll]
    BY <2>1, <2>2 DEF TypeOK
  <2>4. upsets' \in 0 .. MaxUpsets
    BY <1>2 DEF PollRead, Upset, TypeOK
  <2> QED
    BY <1>2, <2>3, <2>4 DEF PollRead, TypeOK
<1>3. CASE PollPush(i)
  <2>1. PICK m \in poll[i].todo : Push(m.copy) /\ poll' = [poll EXCEPT ![i].todo = @ \ {m}]
    BY <1>3 DEF PollPush
  <2>2. m.copy \in Copy
    BY <1>1, <2>1 DEF Member
  <2>3. list' \in [Levels -> Seq(Copy)]
    BY <2>1, <2>2, PushType DEF TypeOK
  <2>4. [poll[i] EXCEPT !.todo = poll[i].todo \ {m}] \in Poll
    BY <1>1
  <2>5. poll' \in [Instances -> Poll]
    BY <2>1, <2>4 DEF TypeOK
  <2> QED
    BY <1>3, <2>3, <2>5 DEF PollPush, TypeOK
<1>4. CASE PollRemove(i)
  <2>1. NoPoll \in Poll
    BY DEF NoPoll
  <2>2. poll' \in [Instances -> Poll]
    BY <1>4, <2>1 DEF PollRemove, TypeOK
  <2> QED
    BY <1>4, <2>2 DEF PollRemove, TypeOK
<1>5. CASE Start(i)
  <2>1. StaleEntries \subseteq Copy
    BY DEF StaleEntries, TypeOK, Entry
  <2>2. [scan[i] EXCEPT !.todo = StaleEntries] \in Scan
    BY <1>1, <2>1
  <2>3. scan' \in [Instances -> Scan]
    BY <1>5, <2>2 DEF Start, TypeOK
  <2>4. /\ worker' \in [Instances -> Worker]
        /\ \A k \in Instances : worker'[k].copy = None <=> worker'[k].at \in {"down", "look"}
    BY <1>5, WorkerTypes DEF Start
  <2> QED
    BY <1>5, <2>3, <2>4 DEF Start, TypeOK
<1>6. CASE Requeue(i)
  <2>1. PICK c \in scan[i].todo :
          Push(c) /\ scan' = [scan EXCEPT ![i] = [todo |-> scan[i].todo \ {c}, pushed |-> c.job]]
    BY <1>6 DEF Requeue
  <2>2. c \in Copy /\ c.job \in Jobs
    BY <1>1, <2>1 DEF Copy
  <2>3. list' \in [Levels -> Seq(Copy)]
    BY <2>1, <2>2, PushType DEF TypeOK
  <2>4. [todo |-> scan[i].todo \ {c}, pushed |-> c.job] \in Scan
    BY <1>1, <2>2
  <2>5. scan' \in [Instances -> Scan]
    BY <2>1, <2>4 DEF TypeOK
  <2> QED
    BY <1>6, <2>3, <2>5 DEF Requeue, TypeOK
<1>7. CASE DropEntry(i)
  <2>1. [scan[i] EXCEPT !.pushed = None] \in Scan
    BY <1>1
  <2>2. scan' \in [Instances -> Scan]
    BY <1>7, <2>1 DEF DropEntry, TypeOK
  <2>3. processing' \in [Jobs -> Entry \union {None}]
    BY <1>7 DEF DropEntry, TypeOK
  <2> QED
    BY <1>7, <2>2, <2>3 DEF DropEntry, TypeOK
<1> QED
  BY <1>2, <1>3, <1>4, <1>5, <1>6, <1>7 DEF PollerStep, RecoveryStep

LEMMA FaultStepTypes ==
  ASSUME TypeOK, NEW i \in Instances, FaultStep(i)
  PROVE  TypeOK'
<1> USE JobQueueAssumption
<1>1. faults' \in 0 .. MaxFaults
  BY DEF FaultStep, Crash, ForgetFails, ParkFails, PollFails, RequeueFails, RecordFails, Fault, TypeOK
<1>2. /\ NoPoll \in [todo: SUBSET Member, batch: SUBSET Member]
      /\ NoScan \in [todo: SUBSET Copy, pushed: Jobs \union {None}]
  BY DEF NoPoll, NoScan
<1>3. /\ poll' \in [Instances -> [todo: SUBSET Member, batch: SUBSET Member]]
      /\ scan' \in [Instances -> [todo: SUBSET Copy, pushed: Jobs \union {None}]]
  <2>1. poll' = poll \/ poll' = [poll EXCEPT ![i] = NoPoll]
    BY DEF FaultStep, Crash, ForgetFails, ParkFails, PollFails, RequeueFails, RecordFails
  <2>2. \/ scan' = scan \/ scan' = [scan EXCEPT ![i] = NoScan]
        \/ \E c \in scan[i].todo :
             scan' = [scan EXCEPT ![i] = [todo |-> scan[i].todo \ {c}, pushed |-> c.job]]
    BY DEF FaultStep, Crash, ForgetFails, ParkFails, PollFails, RequeueFails, RecordFails
  <2>3. poll' \in [Instances -> [todo: SUBSET Member, batch: SUBSET Member]]
    BY <1>2, <2>1 DEF TypeOK
  <2>4. ASSUME NEW c \in scan[i].todo
        PROVE  [todo |-> scan[i].todo \ {c}, pushed |-> c.job]
                 \in [todo: SUBSET Copy, pushed: Jobs \union {None}]
    <3>1. scan[i].todo \subseteq Copy
      BY DEF TypeOK
    <3>2. c \in Copy /\ c.job \in Jobs
      BY <3>1 DEF Copy
    <3> QED
      BY <3>1, <3>2
  <2>5. scan' \in [Instances -> [todo: SUBSET Copy, pushed: Jobs \union {None}]]
    <3>1. \E sc \in [todo: SUBSET Copy, pushed: Jobs \union {None}] :
            scan' = scan \/ scan' = [scan EXCEPT ![i] = sc]
      BY <1>2, <2>2, <2>4
    <3> QED
      BY <3>1 DEF TypeOK
  <2> QED
    BY <2>3, <2>5
<1>4. runs' \in [Jobs -> 0 .. MaxAttempts]
  <2>1. ASSUME NEW j \in Jobs, Run(i, j) PROVE runs' \in [Jobs -> 0 .. MaxAttempts]
    BY <2>1 DEF Run, TypeOK
  <2> QED
    BY <2>1 DEF FaultStep, Crash, ForgetFails, ParkFails, PollFails, RequeueFails, RecordFails, TypeOK
<1>5. /\ worker' \in [Instances -> Worker]
      /\ \A k \in Instances : worker'[k].copy = None <=> worker'[k].at \in {"down", "look"}
  <2>1. CASE Crash(i) \/ ParkFails(i)
    BY <2>1, WorkerTypes DEF Crash, ParkFails
  <2>2. CASE ForgetFails(i) \/ \E j \in Jobs : RecordFails(i, j)
    BY <2>2, WorkerTypes DEF ForgetFails, RecordFails, Settle, Run, Stage
  <2>3. CASE PollFails(i) \/ RequeueFails(i)
    BY <2>3 DEF PollFails, RequeueFails, TypeOK
  <2> QED
    BY <2>1, <2>2, <2>3 DEF FaultStep
<1> QED
  BY <1>1, <1>3, <1>4, <1>5
  DEF FaultStep, Crash, ForgetFails, ParkFails, PollFails, RequeueFails, RecordFails, TypeOK

LEMMA TypeStep == TypeOK /\ [Next]_vars => TypeOK'
<1> SUFFICES ASSUME TypeOK, [Next]_vars PROVE TypeOK'
  OBVIOUS
<1>1. CASE UNCHANGED vars
  BY <1>1 DEF vars, TypeOK
<1>2. ASSUME NEW j \in Jobs, Add(j) PROVE TypeOK'
  <2>1. list' \in [Levels -> Seq(Copy)] /\ delayed' \subseteq Member
    BY <1>2, NewCopyType, PushType, DelayType DEF Add, TypeOK
  <2> QED
    BY <1>2, <2>1 DEF Add, TypeOK
<1>3. ASSUME NEW j \in Jobs, GrowStale(j) PROVE TypeOK'
  <2>1. processing[j] \in Entry
    BY <1>3 DEF GrowStale, TypeOK
  <2>2. [processing[j] EXCEPT !.stale = TRUE] \in Entry
    BY <2>1 DEF Entry
  <2>3. processing' \in [Jobs -> Entry \union {None}]
    BY <1>3, <2>2 DEF GrowStale, TypeOK
  <2>4. upsets' \in 0 .. MaxUpsets
    BY <1>3, JobQueueAssumption DEF GrowStale, Upset, TypeOK
  <2> QED
    BY <1>3, <2>3, <2>4 DEF GrowStale, TypeOK
<1> QED
  BY <1>1, <1>2, <1>3, WorkerStepTypes, LoopStepTypes, FaultStepTypes DEF Next

\* QueueTypesCorrect - in every reachable state the structures of the queue have
\* their types: a waiting job has an attempt left, and a worker has a job in hand
\* exactly between its pop and its next look.
THEOREM QueueTypesCorrect == Spec => []TypeOK
BY TypeInit, TypeStep, PTL DEF Spec

-----------------------------------------------------------------------------
(* The lists                                                                 *)

\* A copy waits in one of the lists.
Waits(c) == \E l \in Levels : \E k \in 1 .. Len(list[l]) : list[l][k] = c

LEMMA AppendElements ==
  ASSUME NEW S, NEW s \in Seq(S), NEW c \in S
  PROVE  /\ Len(Append(s, c)) = Len(s) + 1 /\ Len(s) \in Nat
         /\ \A k \in 1 .. Len(s) : Append(s, c)[k] = s[k]
         /\ Append(s, c)[Len(s) + 1] = c
OBVIOUS

LEMMA TailElements ==
  ASSUME NEW S, NEW s \in Seq(S), s # <<>>
  PROVE  /\ Len(Tail(s)) = Len(s) - 1 /\ Len(s) \in Nat \ {0}
         /\ \A k \in 1 .. Len(s) - 1 : Tail(s)[k] = s[k + 1]
         /\ Head(s) = s[1]
OBVIOUS

\* A push adds its copy to what waits.
LEMMA PushWaits ==
  ASSUME TypeOK, NEW c \in Copy, Push(c), NEW d
  PROVE  Waits(d)' <=> Waits(d) \/ d = c
<1> DEFINE n == LevelOf(c.job)
           s == list[n]
<1>1. n \in Levels /\ s \in Seq(Copy)
  BY LevelType DEF TypeOK, Copy
<1>2. list'[n] = Append(s, c) /\ \A l \in Levels : l # n => list'[l] = list[l]
  BY <1>1 DEF Push, TypeOK
<1>3. /\ Len(list'[n]) = Len(s) + 1 /\ Len(s) \in Nat
      /\ \A k \in 1 .. Len(s) : list'[n][k] = s[k]
      /\ list'[n][Len(s) + 1] = c
  BY <1>1, <1>2, AppendElements
<1>4. ASSUME NEW l \in Levels, NEW k \in 1 .. Len(list'[l]), list'[l][k] = d
      PROVE  Waits(d) \/ d = c
  <2>1. CASE l # n
    BY <1>2, <1>4, <2>1 DEF Waits
  <2>2. CASE l = n /\ k = Len(s) + 1
    BY <1>3, <1>4, <2>2
  <2>3. CASE l = n /\ k # Len(s) + 1
    <3>1. k \in 1 .. Len(s)
      BY <1>3, <2>3
    <3>2. list[n][k] = d
      BY <1>3, <1>4, <2>3, <3>1
    <3> QED
      BY <1>1, <3>1, <3>2 DEF Waits
  <2> QED
    BY <2>1, <2>2, <2>3
<1>5. ASSUME NEW l \in Levels, NEW k \in 1 .. Len(list[l]), list[l][k] = d
      PROVE  Waits(d)'
  <2>1. CASE l # n
    BY <1>2, <1>5, <2>1 DEF Waits
  <2>2. CASE l = n
    <3>1. k \in 1 .. Len(list'[n]) /\ list'[n][k] = d
      BY <1>3, <1>5, <2>2
    <3> QED
      BY <1>1, <3>1 DEF Waits
  <2> QED
    BY <2>1, <2>2
<1>6. Waits(c)'
  <2>1. Len(s) + 1 \in 1 .. Len(list'[n])
    BY <1>3
  <2> QED
    BY <1>1, <1>3, <2>1 DEF Waits
<1> QED
  BY <1>4, <1>5, <1>6 DEF Waits

\* A worker that looks leaves what waits, or takes one copy of it.
LEMMA LookWaits ==
  ASSUME TypeOK, NEW i \in Instances, Look(i)
  PROVE  \/ list' = list /\ worker'[i].copy = None
         \/ /\ worker'[i].at = "popped" /\ Waits(worker'[i].copy)
            /\ \A d : Waits(d)' => Waits(d)
            /\ \A d : Waits(d) => Waits(d)' \/ d = worker'[i].copy
<1> DEFINE n == worker[i].level
           s == list[n]
<1>1. n \in Levels /\ s \in Seq(Copy) /\ worker[i] \in Worker
  BY DEF TypeOK, Worker
<1>2. CASE list[n] = <<>> /\ worker' = [worker EXCEPT ![i].level = NextLevel(n)] /\ UNCHANGED list
  <2>1. worker'[i].copy = worker[i].copy
    BY <1>1, <1>2 DEF TypeOK, Worker
  <2>2. worker[i].copy = None
    BY DEF Look, TypeOK
  <2> QED
    BY <1>2, <2>1, <2>2
<1>3. CASE /\ s # <<>>
           /\ list' = [list EXCEPT ![n] = Tail(@)]
           /\ worker' = [worker EXCEPT ![i] = [at |-> "popped", level |-> 1, copy |-> Head(s)]]
  <2>1. worker'[i].at = "popped" /\ worker'[i].copy = Head(s)
    BY <1>3 DEF TypeOK
  <2>2. list'[n] = Tail(s) /\ \A l \in Levels : l # n => list'[l] = list[l]
    BY <1>1, <1>3 DEF TypeOK
  <2>3. /\ Len(list'[n]) = Len(s) - 1 /\ Len(s) \in Nat \ {0}
        /\ \A k \in 1 .. Len(s) - 1 : list'[n][k] = s[k + 1]
        /\ Head(s) = s[1]
    <3>1. s \in Seq(Copy) /\ s # <<>>
      BY <1>1, <1>3
    <3> HIDE DEF s
    <3>2. /\ Len(Tail(s)) = Len(s) - 1 /\ Len(s) \in Nat \ {0}
          /\ \A k \in 1 .. Len(s) - 1 : Tail(s)[k] = s[k + 1]
          /\ Head(s) = s[1]
      BY <3>1, TailElements
    <3> QED
      BY <2>2, <3>2
  <2>4. Waits(Head(s))
    <3>1. 1 \in 1 .. Len(s)
      BY <2>3
    <3> QED
      BY <1>1, <2>3, <3>1 DEF Waits
  <2>5. ASSUME NEW d, Waits(d)' PROVE Waits(d)
    <3>3. PICK l \in Levels : \E k \in 1 .. Len(list'[l]) : list'[l][k] = d
      BY <2>5 DEF Waits
    <3>4. PICK k \in 1 .. Len(list'[l]) : list'[l][k] = d
      BY <3>3
    <3>1. CASE l # n
      BY <2>2, <3>1, <3>4 DEF Waits
    <3>2. CASE l = n
      <4>1. k + 1 \in 1 .. Len(s) /\ s[k + 1] = d
        BY <2>3, <3>2, <3>4
      <4> QED
        BY <1>1, <4>1 DEF Waits
    <3> QED
      BY <3>1, <3>2
  <2>6. ASSUME NEW d, Waits(d), d # Head(s) PROVE Waits(d)'
    <3>3. PICK l \in Levels : \E k \in 1 .. Len(list[l]) : list[l][k] = d
      BY <2>6 DEF Waits
    <3>4. PICK k \in 1 .. Len(list[l]) : list[l][k] = d
      BY <3>3
    <3>1. CASE l # n
      BY <2>2, <3>1, <3>4 DEF Waits
    <3>2. CASE l = n
      <4>1. k # 1
        BY <2>3, <2>6, <3>2, <3>4
      <4>2. k - 1 \in 1 .. Len(list'[n]) /\ list'[n][k - 1] = s[k]
        BY <2>3, <3>2, <4>1
      <4> QED
        BY <1>1, <3>2, <3>4, <4>2 DEF Waits
    <3> QED
      BY <3>1, <3>2
  <2> QED
    BY <2>1, <2>4, <2>5, <2>6
<1> QED
  BY <1>2, <1>3 DEF Look

\* Where the copies that are pushed come from.
LEMMA PushSources ==
  ASSUME TypeOK, [Next]_vars
  PROVE  \/ list' = list
         \/ \E i \in Instances : Look(i)
         \/ \E c \in Copy : /\ Push(c)
                            /\ \/ \E j \in Jobs : c = NewCopy(j)
                               \/ \E i \in Instances : \E m \in poll[i].todo : c = m.copy
                               \/ \E i \in Instances : c \in scan[i].todo
<1>1. ASSUME NEW j \in Jobs, Add(j) PROVE list' = list \/ (NewCopy(j) \in Copy /\ Push(NewCopy(j)))
  <2>1. NewCopy(j) \in Copy
    BY NewCopyType
  <2>2. list' = list \/ Push(NewCopy(j))
    BY <1>1 DEF Add
  <2> QED
    BY <2>1, <2>2
<1>2. ASSUME NEW i \in Instances, PollPush(i)
      PROVE  \E m \in poll[i].todo : m.copy \in Copy /\ Push(m.copy)
  <2>1. poll[i].todo \subseteq Member
    BY DEF TypeOK
  <2> QED
    BY <1>2, <2>1 DEF PollPush, Member
<1>3. ASSUME NEW i \in Instances, Requeue(i) PROVE \E c \in scan[i].todo : c \in Copy /\ Push(c)
  <2>1. scan[i].todo \subseteq Copy
    BY DEF TypeOK
  <2> QED
    BY <1>3, <2>1 DEF Requeue
<1>4. ASSUME NEW i \in Instances, WorkerStep(i), ~Look(i) PROVE list' = list
  BY <1>4 DEF WorkerStep, Record, Succeed, Fail, Forget, Park
<1>5. ASSUME NEW i \in Instances, PollRead(i) \/ PollRemove(i) \/ DropEntry(i) \/ Start(i)
      PROVE  list' = list
  BY <1>5 DEF PollRead, PollRemove, DropEntry, Start
<1>6. ASSUME NEW i \in Instances, FaultStep(i) PROVE list' = list
  BY <1>6 DEF FaultStep, Crash, ForgetFails, ParkFails, PollFails, RequeueFails, RecordFails
<1>7. ASSUME UNCHANGED vars \/ \E j \in Jobs : GrowStale(j) PROVE list' = list
  BY <1>7 DEF vars, GrowStale
<1>8. ASSUME NEW i \in Instances, PollerStep(i) \/ RecoveryStep(i)
      PROVE  PollPush(i) \/ Requeue(i) \/ list' = list
  BY <1>5, <1>8 DEF PollerStep, RecoveryStep
<1> QED
  BY <1>1, <1>2, <1>3, <1>4, <1>5, <1>6, <1>7, <1>8 DEF Next

-----------------------------------------------------------------------------
(* The attempts behind a dead letter                                         *)

\* A copy carries no more attempts than there were calls.
Bounded(c) == c.attempts <= runs[c.job]
StillBounded(c) == c.attempts <= runs'[c.job]

\* The inductive invariant: every copy is bounded, wherever it is, and a copy
\* whose processor has been called by one attempt more.
BoundInv ==
  /\ \A c \in Copy : Waits(c) => Bounded(c)
  /\ \A m \in delayed : Bounded(m.copy)
  /\ \A i \in Instances : \A m \in poll[i].todo : Bounded(m.copy)
  /\ \A j \in Jobs : processing[j] # None => Bounded(processing[j].copy)
  /\ \A i \in Instances : \A c \in scan[i].todo : Bounded(c)
  /\ \A i \in Instances : worker[i].at = "popped" => Bounded(worker[i].copy)
  /\ \A i \in Instances : worker[i].at \in {"running", "won", "failed", "park"} =>
       worker[i].copy.attempts + 1 <= runs[worker[i].copy.job]
  /\ \A j \in dead : runs[j] = MaxAttempts

\* Processor calls are only ever added.
LEMMA RunsGrow ==
  ASSUME TypeOK, [Next]_vars, NEW j \in Jobs
  PROVE  runs[j] <= runs'[j] /\ runs[j] \in Nat /\ runs'[j] \in 0 .. MaxAttempts
<1>1. runs[j] \in 0 .. MaxAttempts /\ runs'[j] \in 0 .. MaxAttempts
  BY TypeStep DEF TypeOK
<1>2. ASSUME NEW i \in Instances, NEW k \in Jobs, Run(i, k) PROVE runs[j] <= runs'[j]
  BY <1>1, <1>2, JobQueueAssumption DEF Run, TypeOK
<1>3. runs' = runs \/ \E i \in Instances, k \in Jobs : Run(i, k)
  <2>1. ASSUME NEW i \in Instances, WorkerStep(i)
        PROVE  runs' = runs \/ \E k \in Jobs : Run(i, k)
    BY <2>1 DEF WorkerStep, Look, Record, Succeed, Fail, Forget, Park
  <2>2. ASSUME NEW i \in Instances, Start(i) \/ PollerStep(i) \/ RecoveryStep(i)
        PROVE  runs' = runs
    BY <2>2 DEF Start, PollerStep, PollRead, PollPush, PollRemove, RecoveryStep, Requeue, DropEntry
  <2>3. ASSUME NEW i \in Instances, FaultStep(i)
        PROVE  runs' = runs \/ \E k \in Jobs : Run(i, k)
    BY <2>3 DEF FaultStep, Crash, ForgetFails, ParkFails, PollFails, RequeueFails, RecordFails
  <2>4. ASSUME UNCHANGED vars \/ \E k \in Jobs : Add(k) \/ GrowStale(k) PROVE runs' = runs
    BY <2>4 DEF vars, Add, GrowStale
  <2> QED
    BY <2>1, <2>2, <2>3, <2>4 DEF Next
<1> QED
  BY <1>1, <1>2, <1>3

LEMMA BoundedStays ==
  ASSUME TypeOK, [Next]_vars, NEW c \in Copy, Bounded(c)
  PROVE  StillBounded(c)
<1>1. c.job \in Jobs /\ c.attempts \in Nat
  BY JobQueueAssumption DEF Copy
<1>2. runs[c.job] <= runs'[c.job] /\ runs[c.job] \in Nat /\ runs'[c.job] \in 0 .. MaxAttempts
  BY <1>1, RunsGrow
<1> QED
  BY <1>1, <1>2, JobQueueAssumption DEF Bounded, StillBounded

LEMMA NewCopyBounded ==
  ASSUME TypeOK, NEW j \in Jobs
  PROVE  Bounded(NewCopy(j))
BY JobQueueAssumption DEF NewCopy, Bounded, TypeOK

\* What a worker has in hand: its copy and the job after the attempt.
LEMMA TriedBounded ==
  ASSUME TypeOK, BoundInv, NEW i \in Instances, worker[i].at = "park"
  PROVE  /\ Tried(i).job \in Jobs
         /\ Bounded(Tried(i))
         /\ Exhausted(Tried(i)) => runs[Tried(i).job] = MaxAttempts
<1>1. worker[i].copy \in Copy /\ worker[i].copy.job \in Jobs
  BY HeldCopy
<1>2. worker[i].copy.attempts + 1 <= runs[worker[i].copy.job]
  BY DEF BoundInv
<1>3. runs[worker[i].copy.job] \in 0 .. MaxAttempts /\ worker[i].copy.attempts \in Nat
  BY <1>1, JobQueueAssumption DEF TypeOK, Copy
<1> QED
  BY <1>1, <1>2, <1>3, JobQueueAssumption DEF Tried, Bounded, Exhausted

LEMMA WaitsType ==
  ASSUME TypeOK, NEW c, Waits(c)
  PROVE  c \in Copy
<1>1. PICK l \in Levels : \E k \in 1 .. Len(list[l]) : list[l][k] = c
  BY DEF Waits
<1>2. list[l] \in Seq(Copy)
  BY DEF TypeOK
<1> QED
  BY <1>1, <1>2

LEMMA BoundList ==
  ASSUME TypeOK, BoundInv, [Next]_vars, NEW c \in Copy, Waits(c)'
  PROVE  StillBounded(c)
<1>1. CASE Waits(c)
  BY <1>1, BoundedStays DEF BoundInv
<1>2. CASE list' = list
  <2>1. Waits(c)
    BY <1>2 DEF Waits
  <2> QED
    BY <1>1, <2>1
<1>3. CASE \E i \in Instances : Look(i)
  <2>1. list' = list \/ Waits(c)
    BY <1>3, LookWaits
  <2> QED
    BY <1>1, <1>2, <2>1
<1>4. ASSUME NEW d \in Copy, Push(d),
             \/ \E j \in Jobs : d = NewCopy(j)
             \/ \E i \in Instances : \E m \in poll[i].todo : d = m.copy
             \/ \E i \in Instances : d \in scan[i].todo
      PROVE  StillBounded(c)
  <2>1. Bounded(d)
    BY <1>4, NewCopyBounded DEF BoundInv
  <2>2. Waits(c) \/ c = d
    BY <1>4, PushWaits
  <2> QED
    BY <1>1, <2>1, <2>2, BoundedStays
<1> QED
  BY <1>2, <1>3, <1>4, PushSources

\* Where the members of the sorted set come from.
LEMMA DelayedSources ==
  ASSUME TypeOK, [Next]_vars, NEW m \in delayed'
  PROVE  \/ m \in delayed
         \/ \E j \in Jobs : m.copy = NewCopy(j)
         \/ \E i \in Instances : /\ worker[i].at = "park" /\ m.copy = Tried(i)
                                 /\ ~Exhausted(Tried(i))
<1>1. ASSUME NEW c, Delay(c) PROVE m \in delayed \/ m.copy = c
  BY <1>1 DEF Delay
<1>2. ASSUME NEW j \in Jobs, Add(j) PROVE m \in delayed \/ m.copy = NewCopy(j)
  BY <1>1, <1>2 DEF Add
<1>3. ASSUME NEW i \in Instances, Park(i)
      PROVE  \/ m \in delayed
             \/ worker[i].at = "park" /\ m.copy = Tried(i) /\ ~Exhausted(Tried(i))
  BY <1>1, <1>3 DEF Park
<1>4. ASSUME NEW i \in Instances, WorkerStep(i), ~Park(i) PROVE m \in delayed
  BY <1>4 DEF WorkerStep, Look, Record, Succeed, Fail, Forget
<1>5. ASSUME NEW i \in Instances, Start(i) \/ PollerStep(i) \/ RecoveryStep(i)
      PROVE  m \in delayed
  BY <1>5 DEF Start, PollerStep, PollRead, PollPush, PollRemove, RecoveryStep, Requeue, DropEntry
<1>6. ASSUME NEW i \in Instances, FaultStep(i) PROVE m \in delayed
  BY <1>6 DEF FaultStep, Crash, ForgetFails, ParkFails, PollFails, RequeueFails, RecordFails
<1>7. ASSUME UNCHANGED vars \/ \E j \in Jobs : GrowStale(j) PROVE m \in delayed
  BY <1>7 DEF vars, GrowStale
<1> QED
  BY <1>2, <1>3, <1>4, <1>5, <1>6, <1>7 DEF Next

LEMMA BoundDelayed ==
  ASSUME TypeOK, BoundInv, [Next]_vars, NEW m \in delayed'
  PROVE  StillBounded(m.copy)
<1>1. m.copy \in Copy
  <2>1. delayed' \subseteq Member
    BY TypeStep DEF TypeOK
  <2> QED
    BY <2>1 DEF Member
<1>2. CASE m \in delayed
  BY <1>1, <1>2, BoundedStays DEF BoundInv
<1>3. ASSUME NEW j \in Jobs, m.copy = NewCopy(j) PROVE StillBounded(m.copy)
  BY <1>1, <1>3, NewCopyBounded, BoundedStays
<1>4. ASSUME NEW i \in Instances, worker[i].at = "park", m.copy = Tried(i)
      PROVE  StillBounded(m.copy)
  BY <1>1, <1>4, TriedBounded, BoundedStays
<1> QED
  BY <1>2, <1>3, <1>4, DelayedSources

\* Where the members a poller still has to push come from.
LEMMA BoundPoll ==
  ASSUME TypeOK, BoundInv, [Next]_vars, NEW i \in Instances, NEW m \in poll'[i].todo
  PROVE  StillBounded(m.copy)
<1>1. m.copy \in Copy
  <2>1. poll'[i].todo \subseteq Member
    BY TypeStep DEF TypeOK
  <2> QED
    BY <2>1 DEF Member
<1>2. poll \in [Instances -> [todo: SUBSET Member, batch: SUBSET Member]]
  BY DEF TypeOK
<1>3. ASSUME NEW k \in Instances, PollRead(k) PROVE m \in poll[i].todo \/ m \in delayed
  BY <1>2, <1>3 DEF PollRead
<1>4. ASSUME NEW k \in Instances, PollPush(k) PROVE m \in poll[i].todo
  BY <1>2, <1>4 DEF PollPush
<1>5. ASSUME NEW k \in Instances, PollRemove(k) \/ Crash(k) \/ PollFails(k) PROVE m \in poll[i].todo
  <2>1. poll' = [poll EXCEPT ![k] = NoPoll]
    BY <1>5 DEF PollRemove, Crash, PollFails
  <2> QED
    BY <1>2, <2>1 DEF NoPoll
<1>6. ASSUME NEW k \in Instances,
             WorkerStep(k) \/ Start(k) \/ RecoveryStep(k) \/ ForgetFails(k) \/ ParkFails(k)
             \/ RequeueFails(k)
      PROVE  m \in poll[i].todo
  BY <1>6 DEF WorkerStep, Look, Record, Succeed, Fail, Forget, Park, Start, RecoveryStep, Requeue,
              DropEntry, ForgetFails, ParkFails, RequeueFails
<1>7. ASSUME NEW k \in Instances, NEW j \in Jobs, RecordFails(k, j) PROVE m \in poll[i].todo
  BY <1>7 DEF RecordFails
<1>8. ASSUME UNCHANGED vars \/ \E j \in Jobs : Add(j) \/ GrowStale(j) PROVE m \in poll[i].todo
  BY <1>8 DEF vars, Add, GrowStale
<1>9. m \in poll[i].todo \/ m \in delayed
  BY <1>3, <1>4, <1>5, <1>6, <1>7, <1>8 DEF Next, PollerStep, FaultStep
<1> QED
  BY <1>1, <1>9, BoundedStays DEF BoundInv

\* An entry of the processing hash is an old one, or the copy a worker records.
LEMMA BoundProcessing ==
  ASSUME TypeOK, BoundInv, [Next]_vars, NEW j \in Jobs, processing'[j] # None
  PROVE  StillBounded(processing'[j].copy)
<1>1. processing'[j].copy \in Copy
  <2>1. processing'[j] \in Entry
    BY TypeStep DEF TypeOK
  <2> QED
    BY <2>1 DEF Entry
<1>2. processing \in [Jobs -> Entry \union {None}]
  BY DEF TypeOK
<1> DEFINE Old == processing[j] # None /\ processing'[j].copy = processing[j].copy
<1>3. ASSUME NEW i \in Instances, NEW k \in Jobs, Record(i, k)
      PROVE  Old \/ (worker[i].at = "popped" /\ processing'[j].copy = worker[i].copy)
  BY <1>2, <1>3 DEF Record, Run
<1>4. ASSUME NEW k, processing' = [processing EXCEPT ![k] = None] PROVE Old
  BY <1>2, <1>4
<1>5. ASSUME NEW k \in Jobs, GrowStale(k) PROVE Old
  <2>1. processing[k] \in Entry
    BY <1>2, <1>5 DEF GrowStale
  <2>2. [processing[k] EXCEPT !.stale = TRUE].copy = processing[k].copy
    BY <2>1 DEF Entry
  <2> QED
    BY <1>2, <1>5, <2>2 DEF GrowStale
<1>6. ASSUME NEW i \in Instances, Forget(i) \/ DropEntry(i) PROVE Old
  BY <1>4, <1>6 DEF Forget, DropEntry
<1>7. ASSUME NEW i \in Instances,
             Look(i) \/ Succeed(i) \/ Fail(i) \/ Park(i) \/ Start(i) \/ PollerStep(i) \/ Requeue(i)
      PROVE  Old
  BY <1>7 DEF Look, Succeed, Fail, Park, Start, PollerStep, PollRead, PollPush, PollRemove, Requeue
<1>8. ASSUME NEW i \in Instances, FaultStep(i) PROVE Old
  BY <1>8 DEF FaultStep, Crash, ForgetFails, ParkFails, PollFails, RequeueFails, RecordFails
<1>9. ASSUME UNCHANGED vars \/ \E k \in Jobs : Add(k) PROVE Old
  BY <1>9 DEF vars, Add
<1> DEFINE Source == Old \/ \E i \in Instances : /\ worker[i].at = "popped"
                                                  /\ processing'[j].copy = worker[i].copy
<1>10. Source
  <2> HIDE DEF Old
  <2>1. ASSUME NEW i \in Instances, WorkerStep(i) PROVE Source
    BY <1>3, <1>6, <1>7, <2>1 DEF WorkerStep
  <2>2. ASSUME NEW i \in Instances, Start(i) \/ PollerStep(i) \/ RecoveryStep(i) PROVE Source
    BY <1>6, <1>7, <2>2 DEF RecoveryStep
  <2> QED
    BY <1>5, <1>8, <1>9, <2>1, <2>2 DEF Next
<1>11. CASE Old
  BY <1>1, <1>11, BoundedStays DEF BoundInv
<1>12. ASSUME NEW i \in Instances, worker[i].at = "popped", processing'[j].copy = worker[i].copy
       PROVE  StillBounded(processing'[j].copy)
  BY <1>1, <1>12, BoundedStays DEF BoundInv
<1> QED
  BY <1>10, <1>11, <1>12

\* What a recovery has to push is stale entries of the hash.
LEMMA BoundScan ==
  ASSUME TypeOK, BoundInv, [Next]_vars, NEW i \in Instances, NEW c \in scan'[i].todo
  PROVE  StillBounded(c)
<1>1. c \in Copy
  BY TypeStep DEF TypeOK
<1>2. scan \in [Instances -> [todo: SUBSET Copy, pushed: Jobs \union {None}]]
  BY DEF TypeOK
<1>3. ASSUME NEW k \in Instances, Start(k) PROVE c \in scan[i].todo \/ c \in StaleEntries
  BY <1>2, <1>3 DEF Start
<1>4. ASSUME NEW k \in Instances, RecoveryStep(k) \/ RequeueFails(k) PROVE c \in scan[i].todo
  BY <1>2, <1>4 DEF RecoveryStep, Requeue, DropEntry, RequeueFails
<1>5. ASSUME NEW k \in Instances, Crash(k) PROVE c \in scan[i].todo
  BY <1>2, <1>5 DEF Crash, NoScan
<1>6. ASSUME NEW k \in Instances, WorkerStep(k) \/ PollerStep(k) PROVE c \in scan[i].todo
  BY <1>6 DEF WorkerStep, Look, Record, Succeed, Fail, Forget, Park, PollerStep, PollRead,
              PollPush, PollRemove
<1>7. ASSUME NEW k \in Instances, FaultStep(k), ~Crash(k) PROVE c \in scan[i].todo
  BY <1>4, <1>7 DEF FaultStep, ForgetFails, ParkFails, PollFails, RecordFails
<1>8. ASSUME UNCHANGED vars \/ \E j \in Jobs : Add(j) \/ GrowStale(j) PROVE c \in scan[i].todo
  BY <1>8 DEF vars, Add, GrowStale
<1>9. c \in scan[i].todo \/ c \in StaleEntries
  BY <1>3, <1>4, <1>5, <1>6, <1>7, <1>8 DEF Next
<1>10. ASSUME c \in StaleEntries PROVE Bounded(c)
  BY <1>10 DEF StaleEntries, BoundInv
<1> QED
  BY <1>1, <1>9, <1>10, BoundedStays DEF BoundInv

\* How a worker moves.
LEMMA WorkerMoves ==
  ASSUME TypeOK, [Next]_vars, NEW i \in Instances
  PROVE  \/ worker'[i] = worker[i]
         \/ worker'[i].copy = None
         \/ /\ worker[i].copy = None /\ Look(i)
            /\ worker'[i].at = "popped" /\ Waits(worker'[i].copy)
         \/ \E j \in Jobs : Run(i, j)
         \/ /\ worker'[i].copy = worker[i].copy
            /\ \/ worker[i].at = "running" /\ worker'[i].at = "failed"
               \/ worker[i].at = "running" /\ worker'[i].at = "won" /\ worker[i].copy.job \in done'
               \/ worker[i].at = "failed" /\ worker'[i].at = "park"
<1> DEFINE Goal == \/ worker'[i] = worker[i]
                   \/ worker'[i].copy = None
                   \/ /\ worker[i].copy = None /\ Look(i)
                      /\ worker'[i].at = "popped" /\ Waits(worker'[i].copy)
                   \/ \E j \in Jobs : Run(i, j)
                   \/ /\ worker'[i].copy = worker[i].copy
                      /\ \/ worker[i].at = "running" /\ worker'[i].at = "failed"
                         \/ /\ worker[i].at = "running" /\ worker'[i].at = "won"
                            /\ worker[i].copy.job \in done'
                         \/ worker[i].at = "failed" /\ worker'[i].at = "park"
<1> SUFFICES Goal
  OBVIOUS
<1>1. worker \in [Instances -> Worker]
  BY DEF TypeOK
<1>2. ASSUME NEW k, worker' = [worker EXCEPT ![k] = Idle] \/ worker' = [worker EXCEPT ![k] = Down]
      PROVE  worker'[i] = worker[i] \/ worker'[i].copy = None
  BY <1>1, <1>2 DEF Idle, Down
<1>3. ASSUME NEW k \in Instances, NEW s \in Stage, worker' = [worker EXCEPT ![k].at = s]
      PROVE  worker'[i] = worker[i]
               \/ (k = i /\ worker'[i].at = s /\ worker'[i].copy = worker[i].copy)
  BY <1>1, <1>3 DEF Worker
<1>4. ASSUME NEW k \in Instances, Look(k) PROVE Goal
  <2>1. CASE k = i
    <3>1. worker[i].copy = None
      BY <1>4, <2>1 DEF Look, TypeOK
    <3> QED
      BY <1>4, <2>1, <3>1, LookWaits
  <2>2. CASE k # i
    BY <1>1, <1>4, <2>2 DEF Look
  <2> QED
    BY <2>1, <2>2
<1>5. ASSUME NEW k \in Instances, NEW j \in Jobs, Run(k, j) PROVE Goal
  BY <1>1, <1>5 DEF Run
<1>6. ASSUME NEW k \in Instances, Succeed(k) PROVE Goal
  BY <1>3, <1>6 DEF Succeed, Stage
<1>7. ASSUME NEW k \in Instances, Fail(k) PROVE Goal
  BY <1>3, <1>7 DEF Fail, Stage
<1>8. ASSUME NEW k \in Instances, Settle(k) PROVE Goal
  BY <1>2, <1>3, <1>8 DEF Settle, Stage
<1>9. ASSUME NEW k \in Instances, Park(k) \/ ParkFails(k) \/ Crash(k) \/ Start(k) PROVE Goal
  BY <1>2, <1>9 DEF Park, ParkFails, Crash, Start
<1>10. ASSUME NEW k \in Instances,
              PollerStep(k) \/ RecoveryStep(k) \/ PollFails(k) \/ RequeueFails(k)
       PROVE  Goal
  BY <1>10 DEF PollerStep, PollRead, PollPush, PollRemove, RecoveryStep, Requeue, DropEntry,
               PollFails, RequeueFails
<1>11. ASSUME UNCHANGED vars \/ \E j \in Jobs : Add(j) \/ GrowStale(j) PROVE Goal
  BY <1>11 DEF vars, Add, GrowStale
<1> HIDE DEF Goal
<1>12. ASSUME NEW k \in Instances, WorkerStep(k) PROVE Goal
  BY <1>4, <1>5, <1>6, <1>7, <1>8, <1>9, <1>12 DEF WorkerStep, Record, Forget
<1>13. ASSUME NEW k \in Instances, FaultStep(k) PROVE Goal
  BY <1>5, <1>8, <1>9, <1>10, <1>13 DEF FaultStep, RecordFails, ForgetFails
<1> QED
  BY <1>9, <1>10, <1>11, <1>12, <1>13 DEF Next

LEMMA BoundWorker ==
  ASSUME TypeOK, BoundInv, [Next]_vars, NEW i \in Instances
  PROVE  /\ worker'[i].at = "popped" => StillBounded(worker'[i].copy)
         /\ worker'[i].at \in {"running", "won", "failed", "park"} =>
              worker'[i].copy.attempts + 1 <= runs'[worker'[i].copy.job]
<1>1. CASE worker'[i].copy = None
  <2>1. worker'[i].at \in {"down", "look"}
    BY <1>1, TypeStep DEF TypeOK
  <2> QED
    BY <2>1
<1>2. CASE worker[i].copy = None /\ worker'[i].at = "popped" /\ Waits(worker'[i].copy)
  <2>1. worker'[i].copy \in Copy
    BY <1>2, WaitsType
  <2> QED
    BY <1>2, <2>1, BoundedStays DEF BoundInv
<1>3. CASE worker[i].copy # None /\ worker'[i].copy = worker[i].copy
  <2> DEFINE c == worker[i].copy
  <2>1. c \in Copy /\ c.job \in Jobs /\ c.attempts \in 0 .. MaxAttempts - 1
    <3>1. worker[i].at \notin {"down", "look"}
      BY <1>3 DEF TypeOK
    <3> QED
      BY <3>1, HeldCopy DEF Copy
  <2>2. runs[c.job] <= runs'[c.job] /\ runs[c.job] \in Nat /\ runs'[c.job] \in 0 .. MaxAttempts
    BY <2>1, RunsGrow
  <2>3. CASE worker'[i] = worker[i]
    <3>1. worker[i].at = "popped" => StillBounded(c)
      BY <2>1, BoundedStays DEF BoundInv
    <3>2. worker[i].at \in {"running", "won", "failed", "park"} => c.attempts + 1 <= runs'[c.job]
      BY <2>1, <2>2, JobQueueAssumption DEF BoundInv
    <3> QED
      BY <2>3, <3>1, <3>2
  <2>4. CASE worker[i].at \in {"running", "failed"} /\ worker'[i].at \in {"won", "failed", "park"}
    BY <1>3, <2>1, <2>2, <2>4, JobQueueAssumption DEF BoundInv
  <2>5. ASSUME NEW j \in Jobs, Run(i, j)
        PROVE  worker'[i].at = "running" /\ c.attempts + 1 <= runs'[c.job]
    <3>1. worker'[i].at = "running" /\ j = c.job /\ c.attempts <= runs[j]
      BY <2>5 DEF Run, BoundInv, Bounded, TypeOK, Worker
    <3>2. runs'[j] = IF runs[j] < MaxAttempts THEN runs[j] + 1 ELSE runs[j]
      BY <2>5 DEF Run, TypeOK
    <3> QED
      BY <2>1, <2>2, <3>1, <3>2, JobQueueAssumption
  <2> QED
    BY <1>3, <2>3, <2>4, <2>5, WorkerMoves DEF Run
<1>4. ASSUME NEW j \in Jobs, Run(i, j)
      PROVE  worker[i].copy # None /\ worker'[i].copy = worker[i].copy
  BY <1>4 DEF Run, TypeOK, Worker
<1>5. CASE worker[i].copy = None /\ worker'[i].copy = worker[i].copy
  BY <1>1, <1>5
<1> QED
  BY <1>1, <1>2, <1>3, <1>4, <1>5, WorkerMoves

LEMMA BoundDead ==
  ASSUME TypeOK, BoundInv, [Next]_vars, NEW j \in dead'
  PROVE  runs'[j] = MaxAttempts
<1>1. ASSUME NEW i \in Instances, Park(i) PROVE j \in dead \/ runs[j] = MaxAttempts
  BY <1>1, TriedBounded DEF Park
<1>2. ASSUME NEW i \in Instances, WorkerStep(i), ~Park(i) PROVE j \in dead
  BY <1>2 DEF WorkerStep, Look, Record, Succeed, Fail, Forget
<1>3. ASSUME NEW i \in Instances, Start(i) \/ PollerStep(i) \/ RecoveryStep(i) PROVE j \in dead
  BY <1>3 DEF Start, PollerStep, PollRead, PollPush, PollRemove, RecoveryStep, Requeue, DropEntry
<1>4. ASSUME NEW i \in Instances, FaultStep(i) PROVE j \in dead
  BY <1>4 DEF FaultStep, Crash, ForgetFails, ParkFails, PollFails, RequeueFails, RecordFails
<1>5. ASSUME UNCHANGED vars \/ \E k \in Jobs : Add(k) \/ GrowStale(k) PROVE j \in dead
  BY <1>5 DEF vars, Add, GrowStale
<1>6. runs[j] = MaxAttempts
  BY <1>1, <1>2, <1>3, <1>4, <1>5 DEF Next, BoundInv
<1>7. j \in Jobs
  BY TypeStep DEF TypeOK
<1> QED
  BY <1>6, <1>7, RunsGrow, JobQueueAssumption

\* AttemptsAreUsed - a job is dead-lettered only after maxAttempts calls of its
\* processor, whatever copies, recoveries, crashes and failed commands met.
THEOREM AttemptsAreUsed == Spec => []DeadLetterExhausted
<1>1. Init => BoundInv
  <2> SUFFICES ASSUME Init PROVE BoundInv
    OBVIOUS
  <2>1. \A c : ~Waits(c)
    BY DEF Init, Waits
  <2> QED
    BY <2>1 DEF Init, BoundInv, NoPoll, NoScan, Down
<1>2. TypeOK /\ BoundInv /\ [Next]_vars => BoundInv'
  <2> SUFFICES ASSUME TypeOK, BoundInv, [Next]_vars PROVE BoundInv'
    OBVIOUS
  <2>1. \A c \in Copy : Waits(c)' => StillBounded(c)
    BY BoundList
  <2>2. \A m \in delayed' : StillBounded(m.copy)
    BY BoundDelayed
  <2>3. \A i \in Instances : \A m \in poll'[i].todo : StillBounded(m.copy)
    BY BoundPoll
  <2>4. \A j \in Jobs : processing'[j] # None => StillBounded(processing'[j].copy)
    BY BoundProcessing
  <2>5. \A i \in Instances : \A c \in scan'[i].todo : StillBounded(c)
    BY BoundScan
  <2>6. \A i \in Instances :
          /\ worker'[i].at = "popped" => StillBounded(worker'[i].copy)
          /\ worker'[i].at \in {"running", "won", "failed", "park"} =>
               worker'[i].copy.attempts + 1 <= runs'[worker'[i].copy.job]
    BY BoundWorker
  <2>7. \A j \in dead' : runs'[j] = MaxAttempts
    BY BoundDead
  <2> QED
    BY <2>1, <2>2, <2>3, <2>4, <2>5, <2>6, <2>7 DEF BoundInv, Bounded, StillBounded
<1>3. TypeOK /\ BoundInv => DeadLetterExhausted
  <2> SUFFICES ASSUME TypeOK, BoundInv PROVE DeadLetterExhausted
    OBVIOUS
  <2>1. ASSUME NEW l \in Levels, NEW k \in 1 .. Len(list[l])
        PROVE  list[l][k].attempts <= runs[list[l][k].job]
    <3>1. Waits(list[l][k])
      BY DEF Waits
    <3>2. Bounded(list[l][k])
      BY <3>1, WaitsType DEF BoundInv
    <3> QED
      BY <3>2 DEF Bounded
  <2> QED
    BY <2>1 DEF BoundInv, Bounded, DeadLetterExhausted
<1> QED
  BY <1>1, <1>2, <1>3, TypeInit, TypeStep, PTL DEF Spec

-----------------------------------------------------------------------------
(* Nothing is dropped                                                        *)

\* A delayed member of the job that no poller will remove without pushing it.
Safe(j) ==
  \E m \in delayed : /\ m.copy.job = j
                     /\ \A i \in Instances : m \in poll[i].batch => m \in poll[i].todo

Kept(j) == Ended(j) \/ InList(j) \/ Held(j) \/ Safe(j)

\* The inductive invariant: an added job is kept as long as nothing broke, and a
\* worker drops what it holds only when the job is done.
KeptInv ==
  /\ \A i \in Instances : worker[i].at = "won" => worker[i].copy.job \in done
  /\ faults = 0 => \A j \in added : Kept(j)

LEMMA InListWaits ==
  ASSUME NEW j
  PROVE  InList(j) <=> \E c : Waits(c) /\ c.job = j
BY DEF InList, Waits

LEMMA PushKeeps ==
  ASSUME TypeOK, NEW c \in Copy, Push(c), NEW j
  PROVE  /\ InList(j) => InList(j)'
         /\ c.job = j => InList(j)'
<1>1. \A d : Waits(d)' <=> Waits(d) \/ d = c
  BY PushWaits
<1>2. InList(j)' <=> \E d : Waits(d)' /\ d.job = j
  BY DEF InList, Waits
<1> QED
  BY <1>1, <1>2, InListWaits

\* What a look takes from a list it has in hand.
LEMMA LookKeeps ==
  ASSUME TypeOK, NEW i \in Instances, Look(i), NEW j, InList(j) \/ Held(j)
  PROVE  InList(j)' \/ Held(j)'
<1>1. InList(j)' <=> \E d : Waits(d)' /\ d.job = j
  BY DEF InList, Waits
<1>2. CASE Held(j)
  <2>1. PICK k \in Instances : worker[k].copy # None /\ worker[k].copy.job = j
    BY <1>2 DEF Held
  <2>2. worker[i].copy = None
    BY DEF Look, TypeOK
  <2>3. worker'[k] = worker[k]
    BY <2>1, <2>2 DEF Look, TypeOK
  <2> QED
    BY <2>1, <2>3 DEF Held
<1>3. CASE InList(j)
  <2>1. PICK c : Waits(c) /\ c.job = j
    BY <1>3, InListWaits
  <2>2. CASE list' = list
    BY <1>3, <2>2 DEF InList
  <2>3. CASE Waits(c)'
    BY <1>1, <2>1, <2>3
  <2>4. CASE c = worker'[i].copy
    <3>1. c # None
      BY <2>1, WaitsType, NoneAssumption
    <3> QED
      BY <2>1, <2>4, <3>1 DEF Held
  <2> QED
    BY <2>1, <2>2, <2>3, <2>4, LookWaits
<1> QED
  BY <1>2, <1>3

\* A member that is added to the sorted set is one that no poller has read.
LEMMA DelayKeeps ==
  ASSUME NEW c \in Copy, Delay(c), UNCHANGED poll, NEW j, Safe(j) \/ c.job = j
  PROVE  Safe(j)'
<1>1. PICK t \in Twins :
        /\ \A i \in Instances : [copy |-> c, twin |-> t] \notin poll[i].batch
        /\ delayed' = delayed \union {[copy |-> c, twin |-> t]}
  BY DEF Delay
<1>2. CASE Safe(j)
  BY <1>1, <1>2 DEF Safe
<1>3. CASE c.job = j
  <2>1. [copy |-> c, twin |-> t].copy.job = j
    BY <1>3
  <2> QED
    BY <1>1, <2>1 DEF Safe
<1> QED
  BY <1>2, <1>3

\* A step of a worker that goes on with what it holds keeps what is held.
LEMMA HeldKeeps ==
  ASSUME TypeOK, NEW i \in Instances, NEW s \in Stage, worker' = [worker EXCEPT ![i].at = s],
         NEW j, Held(j)
  PROVE  Held(j)'
<1>1. PICK k \in Instances : worker[k].copy # None /\ worker[k].copy.job = j
  BY DEF Held
<1>2. worker'[k].copy = worker[k].copy
  BY DEF TypeOK, Worker
<1> QED
  BY <1>1, <1>2 DEF Held

\* One that drops what it holds keeps what the others hold.
LEMMA DropKeeps ==
  ASSUME TypeOK, NEW i \in Instances, worker' = [worker EXCEPT ![i] = Idle],
         NEW j, Held(j), ~Held(j)'
  PROVE  worker[i].copy.job = j
<1>1. PICK k \in Instances : worker[k].copy # None /\ worker[k].copy.job = j
  BY DEF Held
<1>2. k # i => worker'[k] = worker[k]
  BY DEF TypeOK
<1> QED
  BY <1>1, <1>2 DEF Held

LEMMA WorkerKeeps ==
  ASSUME TypeOK, KeptInv, NEW i \in Instances, WorkerStep(i), NEW j, Kept(j)
  PROVE  Kept(j)'
<1>1. CASE Look(i)
  <2>1. Ended(j) => Ended(j)'
    BY <1>1 DEF Look, Ended
  <2>2. Safe(j) => Safe(j)'
    BY <1>1 DEF Look, Safe
  <2> QED
    BY <1>1, <2>1, <2>2, LookKeeps DEF Kept
<1>2. ASSUME UNCHANGED list PROVE InList(j) => InList(j)'
  BY <1>2 DEF InList
<1>3. ASSUME UNCHANGED <<delayed, poll>> PROVE Safe(j) => Safe(j)'
  BY <1>3 DEF Safe
<1>4. ASSUME NEW k \in Jobs, Record(i, k) PROVE Kept(j)'
  <2>1. Ended(j) => Ended(j)'
    BY <1>4 DEF Record, Ended
  <2>2. Held(j) => Held(j)'
    BY <1>4, HeldKeeps DEF Record, Run, Stage
  <2> QED
    BY <1>2, <1>3, <1>4, <2>1, <2>2 DEF Kept, Record
<1>5. CASE Succeed(i) \/ Fail(i)
  <2>1. Ended(j) => Ended(j)'
    BY <1>5 DEF Succeed, Fail, Ended
  <2>2. Held(j) => Held(j)'
    BY <1>5, HeldKeeps DEF Succeed, Fail, Stage
  <2> QED
    BY <1>2, <1>3, <1>5, <2>1, <2>2 DEF Kept, Succeed, Fail
<1>6. CASE Forget(i)
  <2>1. Ended(j) => Ended(j)'
    BY <1>6 DEF Forget, Ended
  <2>2. CASE worker[i].at = "won"
    <3>1. worker' = [worker EXCEPT ![i] = Idle]
      BY <1>6, <2>2 DEF Forget, Settle
    <3>2. Held(j) => Held(j)' \/ Ended(j)
      BY <2>2, <3>1, DropKeeps DEF KeptInv, Ended
    <3> QED
      BY <1>2, <1>3, <1>6, <2>1, <3>2 DEF Kept, Forget
  <2>3. CASE worker[i].at # "won"
    <3>1. worker' = [worker EXCEPT ![i].at = "park"]
      BY <1>6, <2>3 DEF Forget, Settle
    <3>2. Held(j) => Held(j)'
      BY <3>1, HeldKeeps DEF Stage
    <3> QED
      BY <1>2, <1>3, <1>6, <2>1, <3>2 DEF Kept, Forget
  <2> QED
    BY <2>2, <2>3
<1>7. CASE Park(i)
  <2>1. Ended(j) => Ended(j)'
    BY <1>7 DEF Park, Ended
  <2>2. Held(j) => Held(j)' \/ worker[i].copy.job = j
    BY <1>7, DropKeeps DEF Park
  <2>3. CASE Exhausted(Tried(i)) /\ dead' = dead \union {Tried(i).job} /\ UNCHANGED delayed
    <3>1. worker[i].copy.job = j => Ended(j)'
      BY <2>3 DEF Tried, Ended
    <3> QED
      BY <1>2, <1>3, <1>7, <2>1, <2>2, <2>3, <3>1 DEF Kept, Park
  <2>4. CASE ~Exhausted(Tried(i)) /\ Delay(Tried(i))
    <3>1. worker[i].copy \in Copy
      BY <1>7, HeldCopy DEF Park
    <3>2. Tried(i) \in Copy
      BY <2>4, <3>1, JobQueueAssumption DEF Tried, Copy, Exhausted
    <3>3. Safe(j) \/ worker[i].copy.job = j => Safe(j)'
      <4>1. Tried(i).job = worker[i].copy.job
        BY DEF Tried
      <4> QED
        BY <1>7, <2>4, <3>2, <4>1, DelayKeeps DEF Park
    <3> QED
      BY <1>2, <1>7, <2>1, <2>2, <3>3 DEF Kept, Park
  <2> QED
    BY <1>7, <2>3, <2>4 DEF Park
<1> QED
  BY <1>1, <1>4, <1>5, <1>6, <1>7 DEF WorkerStep

LEMMA PollerKeeps ==
  ASSUME TypeOK, NEW i \in Instances, PollerStep(i), NEW j, Kept(j)
  PROVE  Kept(j)'
<1> DEFINE Poll == [todo: SUBSET Member, batch: SUBSET Member]
<1>1. poll \in [Instances -> Poll]
  BY DEF TypeOK
<1>2. Ended(j) => Ended(j)'
  BY DEF PollerStep, PollRead, PollPush, PollRemove, Ended
<1>3. Held(j) => Held(j)'
  BY DEF PollerStep, PollRead, PollPush, PollRemove, Held
<1>4. CASE PollRead(i)
  <2>1. Safe(j) => Safe(j)'
    <3>1. PICK due : poll' = [poll EXCEPT ![i] = [todo |-> due, batch |-> due]]
      BY <1>4 DEF PollRead
    <3>2. poll'[i].batch = due /\ poll'[i].todo = due
      BY <1>1, <3>1
    <3>3. \A k \in Instances : k # i => poll'[k] = poll[k]
      BY <1>1, <3>1
    <3> QED
      BY <1>4, <3>2, <3>3 DEF Safe, PollRead
  <2>2. InList(j) => InList(j)'
    BY <1>4 DEF PollRead, InList
  <2> QED
    BY <1>2, <1>3, <2>1, <2>2 DEF Kept
<1>5. CASE PollPush(i)
  <2>1. PICK m \in poll[i].todo : Push(m.copy) /\ poll' = [poll EXCEPT ![i].todo = @ \ {m}]
    BY <1>5 DEF PollPush
  <2>2. m.copy \in Copy
    BY <1>1, <2>1 DEF Member
  <2>3. InList(j) \/ m.copy.job = j => InList(j)'
    BY <2>1, <2>2, PushKeeps
  <2>4. Safe(j) => Safe(j)' \/ m.copy.job = j
    <3>1. poll'[i].batch = poll[i].batch /\ poll'[i].todo = poll[i].todo \ {m}
      BY <1>1, <2>1
    <3>2. \A k \in Instances : k # i => poll'[k] = poll[k]
      BY <1>1, <2>1
    <3>3. UNCHANGED delayed
      BY <1>5 DEF PollPush
    <3> QED
      BY <3>1, <3>2, <3>3 DEF Safe
  <2> QED
    BY <1>2, <1>3, <2>3, <2>4 DEF Kept
<1>6. CASE PollRemove(i)
  <2>1. Safe(j) => Safe(j)'
    <3>1. ASSUME Safe(j) PROVE Safe(j)'
      <4>1. PICK m \in delayed : /\ m.copy.job = j
                                 /\ \A k \in Instances : m \in poll[k].batch => m \in poll[k].todo
        BY <3>1 DEF Safe
      <4>2. m \in delayed'
        BY <1>6, <4>1 DEF PollRemove, RangeRead
      <4>3. poll'[i].batch = {} /\ \A k \in Instances : k # i => poll'[k] = poll[k]
        BY <1>1, <1>6 DEF PollRemove, NoPoll
      <4> QED
        BY <4>1, <4>2, <4>3 DEF Safe
    <3> QED
      BY <3>1
  <2>2. InList(j) => InList(j)'
    BY <1>6 DEF PollRemove, InList
  <2> QED
    BY <1>2, <1>3, <2>1, <2>2 DEF Kept
<1> QED
  BY <1>4, <1>5, <1>6 DEF PollerStep

LEMMA RecoveryKeeps ==
  ASSUME TypeOK, NEW i \in Instances, Start(i) \/ RecoveryStep(i), NEW j, Kept(j)
  PROVE  Kept(j)'
<1>1. Ended(j) => Ended(j)'
  BY DEF Start, RecoveryStep, Requeue, DropEntry, Ended
<1>2. Safe(j) => Safe(j)'
  BY DEF Start, RecoveryStep, Requeue, DropEntry, Safe
<1>3. InList(j) => InList(j)'
  <2>1. CASE Requeue(i)
    <3>1. PICK c \in scan[i].todo : Push(c)
      BY <2>1 DEF Requeue
    <3>2. c \in Copy
      BY <3>1 DEF TypeOK
    <3> QED
      BY <3>1, <3>2, PushKeeps
  <2>2. CASE ~Requeue(i)
    BY <2>2 DEF Start, RecoveryStep, DropEntry, InList
  <2> QED
    BY <2>1, <2>2
<1>4. Held(j) => Held(j)'
  <2>1. CASE Start(i)
    <3>1. worker[i].copy = None /\ worker' = [worker EXCEPT ![i] = Idle]
      BY <2>1 DEF Start, TypeOK
    <3>2. \A k \in Instances : k # i => worker'[k] = worker[k]
      BY <3>1 DEF TypeOK
    <3> QED
      BY <3>1, <3>2 DEF Held
  <2>2. CASE RecoveryStep(i)
    BY <2>2 DEF RecoveryStep, Requeue, DropEntry, Held
  <2> QED
    BY <2>1, <2>2
<1> QED
  BY <1>1, <1>2, <1>3, <1>4 DEF Kept

\* A job is added to a list or, as a member nobody has read, to the sorted set.
LEMMA AddKeeps ==
  ASSUME TypeOK, NEW k \in Jobs, Add(k), NEW j, j = k \/ Kept(j)
  PROVE  Kept(j)'
<1>1. NewCopy(k) \in Copy /\ NewCopy(k).job = k
  BY NewCopyType DEF NewCopy
<1>2. Ended(j) => Ended(j)'
  BY DEF Add, Ended
<1>3. Held(j) => Held(j)'
  BY DEF Add, Held
<1>4. CASE Push(NewCopy(k)) /\ UNCHANGED delayed
  <2>1. Safe(j) => Safe(j)'
    BY <1>4 DEF Add, Safe
  <2>2. InList(j) \/ k = j => InList(j)'
    BY <1>1, <1>4, PushKeeps
  <2> QED
    BY <1>2, <1>3, <2>1, <2>2 DEF Kept
<1>5. CASE Delay(NewCopy(k)) /\ UNCHANGED list
  <2>1. InList(j) => InList(j)'
    BY <1>5 DEF InList
  <2>2. Safe(j) \/ k = j => Safe(j)'
    BY <1>1, <1>5, DelayKeeps DEF Add
  <2> QED
    BY <1>2, <1>3, <2>1, <2>2 DEF Kept
<1> QED
  BY <1>4, <1>5 DEF Add

\* A worker that has won has its job done.
LEMMA WonIsDone ==
  ASSUME TypeOK, KeptInv, [Next]_vars, NEW i \in Instances, worker'[i].at = "won"
  PROVE  worker'[i].copy.job \in done'
<1>1. done \subseteq done'
  <2>1. ASSUME NEW k \in Instances, WorkerStep(k) PROVE done \subseteq done'
    BY <2>1 DEF WorkerStep, Look, Record, Succeed, Fail, Forget, Park
  <2>2. ASSUME NEW k \in Instances, Start(k) \/ PollerStep(k) \/ RecoveryStep(k)
        PROVE  done \subseteq done'
    BY <2>2 DEF Start, PollerStep, PollRead, PollPush, PollRemove, RecoveryStep, Requeue, DropEntry
  <2>3. ASSUME NEW k \in Instances, FaultStep(k) PROVE done \subseteq done'
    BY <2>3 DEF FaultStep, Crash, ForgetFails, ParkFails, PollFails, RequeueFails, RecordFails
  <2>4. ASSUME UNCHANGED vars \/ \E k \in Jobs : Add(k) \/ GrowStale(k) PROVE done \subseteq done'
    BY <2>4 DEF vars, Add, GrowStale
  <2> QED
    BY <2>1, <2>2, <2>3, <2>4 DEF Next
<1>2. worker'[i].copy # None
  BY TypeStep DEF TypeOK
<1>3. ASSUME NEW j \in Jobs, Run(i, j) PROVE worker'[i].at = "running"
  BY <1>3 DEF Run, TypeOK, Worker
<1> QED
  BY <1>1, <1>2, <1>3, WorkerMoves DEF KeptInv

\* NothingIsLost - while no instance dies and no command fails, an added job that
\* has not ended can still be run, whatever overlapping polls and recoveries meet.
THEOREM NothingIsLost == Spec => []NothingLostWithoutFault
<1>1. Init => KeptInv
  BY DEF Init, KeptInv, Down
<1>2. TypeOK /\ KeptInv /\ [Next]_vars => KeptInv'
  <2> SUFFICES ASSUME TypeOK, KeptInv, [Next]_vars PROVE KeptInv'
    OBVIOUS
  <2>1. \A i \in Instances : worker'[i].at = "won" => worker'[i].copy.job \in done'
    BY WonIsDone
  <2>2. ASSUME faults' = 0, NEW j \in added' PROVE Kept(j)'
    <3>1. ASSUME NEW i \in Instances, FaultStep(i) PROVE FALSE
      BY <2>2, <3>1
      DEF FaultStep, Crash, ForgetFails, ParkFails, PollFails, RequeueFails, RecordFails, Fault, TypeOK
    <3>2. ASSUME NEW k \in Jobs, Add(k) PROVE Kept(j)'
      BY <2>2, <3>2, AddKeeps DEF Add, KeptInv
    <3>3. ASSUME faults' = faults, added' = added PROVE Kept(j)
      BY <2>2, <3>3 DEF KeptInv
    <3>4. ASSUME NEW i \in Instances, WorkerStep(i) PROVE Kept(j)'
      <4>1. faults' = faults /\ added' = added
        BY <3>4 DEF WorkerStep, Look, Record, Succeed, Fail, Forget, Park
      <4> QED
        BY <3>3, <3>4, <4>1, WorkerKeeps
    <3>5. ASSUME NEW i \in Instances, PollerStep(i) PROVE Kept(j)'
      <4>1. faults' = faults /\ added' = added
        BY <3>5 DEF PollerStep, PollRead, PollPush, PollRemove
      <4> QED
        BY <3>3, <3>5, <4>1, PollerKeeps
    <3>6. ASSUME NEW i \in Instances, Start(i) \/ RecoveryStep(i) PROVE Kept(j)'
      <4>1. faults' = faults /\ added' = added
        BY <3>6 DEF Start, RecoveryStep, Requeue, DropEntry
      <4> QED
        BY <3>3, <3>6, <4>1, RecoveryKeeps
    <3>7. ASSUME UNCHANGED vars \/ \E k \in Jobs : GrowStale(k) PROVE Kept(j)'
      <4>1. UNCHANGED <<list, delayed, dead, done, added, worker, poll, faults>>
        BY <3>7 DEF vars, GrowStale
      <4> QED
        BY <3>3, <4>1 DEF Kept, Ended, InList, Held, Safe
    <3> QED
      BY <3>1, <3>2, <3>4, <3>5, <3>6, <3>7 DEF Next
  <2> QED
    BY <2>1, <2>2 DEF KeptInv
<1>3. KeptInv => NothingLostWithoutFault
  BY DEF KeptInv, Kept, Safe, NothingLostWithoutFault, NotLost, Accounted
<1> QED
  BY <1>1, <1>2, <1>3, TypeInit, TypeStep, PTL DEF Spec

-----------------------------------------------------------------------------
(* A job runs alone                                                          *)

\* Nothing has failed, no polls have overlapped and no entry has grown stale.
Calm == faults = 0 /\ upsets = 0

\* A member of the sorted set that will be pushed: the poller that has pushed
\* one will remove it.
Pushed(m) == \E i \in Instances : m \in poll[i].batch /\ m \notin poll[i].todo
Due(m) == m \in delayed /\ ~Pushed(m)
DueOf(j) == {m \in Member : Due(m) /\ m.copy.job = j}
Takes(i, j) == worker[i].copy # None /\ worker[i].copy.job = j
Spot(l, k, j) == l \in Levels /\ k \in 1 .. Len(list[l]) /\ list[l][k].job = j

\* A copy of the job is in one place: in one list, in one worker or in the sorted
\* set, and there once.
OnceListed(j) == \A l1, l2, k1, k2 : Spot(l1, k1, j) /\ Spot(l2, k2, j) => l1 = l2 /\ k1 = k2
OnceHeld(j) == \A i, k \in Instances : Takes(i, j) /\ Takes(k, j) => i = k
OnceDue(j) == \A m, n \in DueOf(j) : m = n
OnePlace(j) == /\ ~(InList(j) /\ Held(j))
               /\ ~(InList(j) /\ DueOf(j) # {})
               /\ ~(Held(j) /\ DueOf(j) # {})
Placed(j) == InList(j) \/ Held(j) \/ DueOf(j) # {}

\* The attempts of a copy are the calls of the processor so far.
ListExact(j) == \A c : Waits(c) /\ c.job = j => c.attempts = runs[j]
DueExact(j) == \A m \in DueOf(j) : m.copy.attempts = runs[j]
HeldExact(j) ==
  \A i \in Instances : Takes(i, j) =>
    runs[j] = IF worker[i].at = "popped" THEN worker[i].copy.attempts
                                         ELSE worker[i].copy.attempts + 1

\* A job that has ended is nowhere, but in the hands of the worker that ended it.
Gone(j) == /\ ~InList(j) /\ DueOf(j) = {}
           /\ \A i \in Instances : Takes(i, j) => worker[i].at = "won" /\ j \notin dead
           /\ j \notin done \/ j \notin dead

JobInv(j) == /\ OnceListed(j) /\ OnceHeld(j) /\ OnceDue(j) /\ OnePlace(j)
             /\ ListExact(j) /\ DueExact(j) /\ HeldExact(j)
             /\ Ended(j) => Gone(j)
             /\ j \notin added => ~Ended(j) /\ ~Placed(j) /\ runs[j] = 0

\* One poll at a time, of members that stay until it ends, and no recovery.
Quiet ==
  /\ \A j \in Jobs : processing[j] # None => ~processing[j].stale
  /\ \A i \in Instances : /\ scan[i] = NoScan
                          /\ poll[i].todo \subseteq poll[i].batch
                          /\ poll[i].batch \subseteq delayed
  /\ \A i, k \in Instances : poll[i] # NoPoll /\ poll[k] # NoPoll => i = k

\* The inductive invariant.
AloneInv == Calm => Quiet /\ \A j \in Jobs : JobInv(j)

\* A push of one job's copy lists that job, and leaves the others.
LEMMA PushSpots ==
  ASSUME TypeOK, NEW c \in Copy, Push(c), NEW j
  PROVE  /\ c.job # j => (InList(j)' <=> InList(j)) /\ (OnceListed(j) => OnceListed(j)')
         /\ c.job = j /\ ~InList(j) => OnceListed(j)'
<1> DEFINE n == LevelOf(c.job)
           z == Len(list[n]) + 1
<1>1. n \in Levels /\ list[n] \in Seq(Copy)
  BY LevelType DEF TypeOK, Copy
<1>2. list'[n] = Append(list[n], c) /\ \A l \in Levels : l # n => list'[l] = list[l]
  BY <1>1 DEF Push, TypeOK
<1>3. /\ Len(list'[n]) = z /\ Len(list[n]) \in Nat
      /\ \A k \in 1 .. Len(list[n]) : list'[n][k] = list[n][k]
      /\ list'[n][z] = c
  BY <1>1, <1>2, AppendElements
<1>4. ASSUME NEW l, NEW k
      PROVE  Spot(l, k, j)' <=> Spot(l, k, j) \/ (l = n /\ k = z /\ c.job = j)
  <2>1. CASE l \notin Levels
    BY <1>1, <2>1 DEF Spot
  <2>2. CASE l \in Levels /\ l # n
    BY <1>2, <2>2 DEF Spot
  <2>3. CASE l = n /\ k = z
    BY <1>1, <1>3, <2>3 DEF Spot
  <2>4. CASE l = n /\ k # z
    <3>1. k \in 1 .. z <=> k \in 1 .. Len(list[n])
      BY <1>3, <2>4
    <3> QED
      BY <1>1, <1>3, <2>4, <3>1 DEF Spot
  <2> QED
    BY <2>1, <2>2, <2>3, <2>4
<1>5. /\ InList(j) <=> \E l, k : Spot(l, k, j)
      /\ InList(j)' <=> \E l, k : Spot(l, k, j)'
  BY DEF InList, Spot
<1> HIDE DEF n, z
<1> QED
  BY <1>4, <1>5 DEF OnceListed

\* A pop takes the only copy of its job, and leaves the other jobs.
LEMMA PopSpots ==
  ASSUME TypeOK, NEW n \in Levels, list[n] # <<>>,
         list' = [list EXCEPT ![n] = Tail(@)], NEW j
  PROVE  /\ list[n][1] = Head(list[n]) /\ Waits(Head(list[n])) /\ Head(list[n]) \in Copy
         /\ \A c : Waits(c)' => Waits(c)
         /\ InList(j)' => InList(j)
         /\ OnceListed(j) => OnceListed(j)'
         /\ OnceListed(j) /\ Head(list[n]).job = j => InList(j) /\ ~InList(j)'
<1> DEFINE At(l, k) == IF l = n THEN k + 1 ELSE k
<1>1. list[n] \in Seq(Copy)
  BY DEF TypeOK
<1>2. list'[n] = Tail(list[n]) /\ \A l \in Levels : l # n => list'[l] = list[l]
  BY DEF TypeOK
<1>3. /\ Len(list'[n]) = Len(list[n]) - 1 /\ Len(list[n]) \in Nat \ {0}
      /\ \A k \in 1 .. Len(list[n]) - 1 : list'[n][k] = list[n][k + 1]
      /\ Head(list[n]) = list[n][1]
  <2>1. /\ Len(Tail(list[n])) = Len(list[n]) - 1 /\ Len(list[n]) \in Nat \ {0}
        /\ \A k \in 1 .. Len(list[n]) - 1 : Tail(list[n])[k] = list[n][k + 1]
        /\ Head(list[n]) = list[n][1]
    BY <1>1, TailElements
  <2> QED
    BY <1>2, <2>1
<1>4. ASSUME NEW l \in Levels, NEW k \in 1 .. Len(list'[l])
      PROVE  /\ At(l, k) \in 1 .. Len(list[l]) /\ list[l][At(l, k)] = list'[l][k]
             /\ l = n => At(l, k) # 1
             /\ k \in Nat
  <2>1. CASE l = n
    BY <1>3, <2>1
  <2>2. CASE l # n
    BY <1>2, <2>2
  <2> QED
    BY <2>1, <2>2
<1>5. 1 \in 1 .. Len(list[n]) /\ Head(list[n]) = list[n][1] /\ Head(list[n]) \in Copy
  BY <1>1, <1>3
<1>6. ASSUME NEW l, NEW k, Spot(l, k, j)'
      PROVE  Spot(l, At(l, k), j) /\ (l = n => At(l, k) # 1) /\ k \in Nat
  BY <1>4, <1>6 DEF Spot
<1>7. ASSUME NEW l, NEW k1 \in Nat, NEW k2 \in Nat, At(l, k1) = At(l, k2)
      PROVE  k1 = k2
  BY <1>7
<1>8. /\ InList(j) <=> \E l, k : Spot(l, k, j)
      /\ InList(j)' <=> \E l, k : Spot(l, k, j)'
  BY DEF InList, Spot
<1>9. \A c : Waits(c)' => Waits(c)
  BY <1>4 DEF Waits
<1>10. Waits(Head(list[n])) /\ (Head(list[n]).job = j => Spot(n, 1, j))
  BY <1>5 DEF Waits, Spot
<1> HIDE DEF At
<1>11. OnceListed(j) => OnceListed(j)'
  <2> SUFFICES ASSUME OnceListed(j), NEW l1, NEW l2, NEW k1, NEW k2, Spot(l1, k1, j)', Spot(l2, k2, j)'
               PROVE  l1 = l2 /\ k1 = k2
    BY DEF OnceListed
  <2>1. Spot(l1, At(l1, k1), j) /\ Spot(l2, At(l2, k2), j) /\ k1 \in Nat /\ k2 \in Nat
    BY <1>6
  <2>2. l1 = l2 /\ At(l1, k1) = At(l2, k2)
    BY <2>1 DEF OnceListed
  <2> QED
    BY <1>7, <2>1, <2>2
<1>12. ASSUME OnceListed(j), Head(list[n]).job = j PROVE InList(j) /\ ~InList(j)'
  <2>1. ASSUME NEW l, NEW k, Spot(l, k, j)' PROVE FALSE
    <3>1. Spot(l, At(l, k), j) /\ Spot(n, 1, j) /\ (l = n => At(l, k) # 1)
      BY <1>6, <1>10, <1>12, <2>1
    <3> QED
      BY <1>12, <3>1 DEF OnceListed
  <2> QED
    BY <1>8, <1>10, <1>12, <2>1
<1> QED
  BY <1>5, <1>6, <1>8, <1>9, <1>10, <1>11, <1>12

\* A job that gets no new copy, call or end keeps its invariant.
LEMMA JobStays ==
  ASSUME NEW j, JobInv(j), InList(j)' => InList(j), OnceListed(j)',
         \A c : Waits(c)' => Waits(c) \/ c.job # j,
         DueOf(j)' \subseteq DueOf(j),
         \A k \in Instances : Takes(k, j)' => /\ Takes(k, j)
                                              /\ worker'[k].copy = worker[k].copy
                                              /\ worker'[k].at = worker[k].at,
         runs'[j] = runs[j], j \in done' <=> j \in done, j \in dead' <=> j \in dead,
         j \in added => j \in added'
  PROVE  JobInv(j)'
<1>1. Held(j)' => Held(j)
  BY DEF Held, Takes
<1>2. Ended(j)' <=> Ended(j)
  BY DEF Ended
<1>3. OnceHeld(j)' /\ OnceDue(j)' /\ OnePlace(j)'
  BY <1>1 DEF JobInv, OnceHeld, OnceDue, OnePlace
<1>4. ListExact(j)' /\ DueExact(j)' /\ HeldExact(j)'
  BY DEF JobInv, ListExact, DueExact, HeldExact
<1>5. Ended(j)' => Gone(j)'
  BY <1>2 DEF JobInv, Gone
<1>6. Placed(j)' => Placed(j)
  BY <1>1 DEF Placed
<1> QED
  BY <1>2, <1>3, <1>4, <1>5, <1>6 DEF JobInv

LEMMA SameList ==
  ASSUME UNCHANGED list, NEW j
  PROVE  /\ InList(j)' <=> InList(j)
         /\ OnceListed(j)' <=> OnceListed(j)
         /\ \A c : Waits(c)' <=> Waits(c)
BY DEF InList, OnceListed, Spot, Waits

LEMMA SameDue ==
  ASSUME UNCHANGED <<delayed, poll>>, NEW j
  PROVE  DueOf(j)' = DueOf(j)
BY DEF DueOf, Due, Pushed

\* A delayed copy is one more member that is due.
LEMMA DelayDue ==
  ASSUME NEW c \in Copy, Delay(c), UNCHANGED poll, NEW j
  PROVE  /\ c.job # j => DueOf(j)' = DueOf(j)
         /\ c.job = j /\ DueOf(j) = {} => \E m \in Member : m.copy = c /\ DueOf(j)' = {m}
<1>1. PICK t \in Twins :
        /\ \A i \in Instances : [copy |-> c, twin |-> t] \notin poll[i].batch
        /\ delayed' = delayed \union {[copy |-> c, twin |-> t]}
  BY DEF Delay
<1>2. PICK m : m = [copy |-> c, twin |-> t]
  OBVIOUS
<1>3. m \in Member /\ m.copy = c
  BY <1>2 DEF Member
<1>4. \A n : Due(n)' <=> Due(n) \/ n = m
  BY <1>1, <1>2 DEF Due, Pushed
<1>5. DueOf(j)' = DueOf(j) \union {n \in {m} : c.job = j}
  BY <1>3, <1>4 DEF DueOf
<1> QED
  BY <1>3, <1>5

\* The workers when one goes on to a stage with what it has.
LEMMA GoesOn ==
  ASSUME TypeOK, NEW i \in Instances, NEW s \in Stage, worker' = [worker EXCEPT ![i].at = s]
  PROVE  /\ worker'[i].at = s /\ worker'[i].copy = worker[i].copy
         /\ \A k \in Instances : k # i => worker'[k] = worker[k]
         /\ \A k \in Instances : \A j : Takes(k, j)' <=> Takes(k, j)
<1>1. worker'[i].at = s /\ worker'[i].copy = worker[i].copy
  BY DEF TypeOK, Worker
<1>2. \A k \in Instances : k # i => worker'[k] = worker[k]
  BY DEF TypeOK
<1> QED
  BY <1>1, <1>2 DEF Takes

\* When it goes on to a stage the job keeps its invariant if its calls and its
\* end agree with the stage.
LEMMA HolderAlone ==
  ASSUME TypeOK, NEW i \in Instances, NEW s \in Stage, worker' = [worker EXCEPT ![i].at = s],
         UNCHANGED <<list, delayed, poll, added>>, NEW j, JobInv(j),
         ~Takes(i, j) => /\ runs'[j] = runs[j] /\ (j \in done' <=> j \in done)
                         /\ (j \in dead' <=> j \in dead),
         Takes(i, j) => /\ runs'[j] = IF s = "popped" THEN worker[i].copy.attempts
                                                      ELSE worker[i].copy.attempts + 1
                        /\ Ended(j)' => s = "won" /\ j \notin dead'
  PROVE  JobInv(j)'
<1>1. /\ worker'[i].at = s /\ worker'[i].copy = worker[i].copy
      /\ \A k \in Instances : k # i => worker'[k] = worker[k]
      /\ \A k \in Instances : Takes(k, j)' <=> Takes(k, j)
  BY GoesOn
<1>2. /\ InList(j)' <=> InList(j)
      /\ OnceListed(j)'
      /\ \A c : Waits(c)' <=> Waits(c)
      /\ DueOf(j)' = DueOf(j)
  BY SameList, SameDue DEF JobInv
<1>3. CASE ~Takes(i, j)
  <2>1. \A k \in Instances : Takes(k, j)' => /\ Takes(k, j)
                                             /\ worker'[k].copy = worker[k].copy
                                             /\ worker'[k].at = worker[k].at
    BY <1>1, <1>3
  <2> QED
    BY <1>2, <1>3, <2>1, JobStays
<1>4. CASE Takes(i, j)
  <2>1. Held(j) /\ Held(j)' /\ Placed(j)
    BY <1>1, <1>4 DEF Held, Takes, Placed
  <2>2. ~InList(j) /\ DueOf(j) = {} /\ \A k \in Instances : Takes(k, j) => k = i
    BY <1>4, <2>1 DEF JobInv, OnePlace, OnceHeld
  <2>3. OnceHeld(j)' /\ OnceDue(j)' /\ OnePlace(j)'
    BY <1>1, <1>2, <2>2 DEF OnceHeld, OnceDue, OnePlace
  <2>4. ListExact(j)' /\ DueExact(j)' /\ HeldExact(j)'
    <3>1. \A c : Waits(c)' => c.job # j
      BY <1>2, <2>2, InListWaits
    <3> QED
      BY <1>1, <1>2, <1>4, <2>2, <3>1 DEF ListExact, DueExact, HeldExact
  <2>5. Ended(j)' => Gone(j)'
    BY <1>1, <1>2, <1>4, <2>2 DEF Gone
  <2>6. j \in added'
    BY <2>1 DEF JobInv
  <2> QED
    BY <1>2, <2>3, <2>4, <2>5, <2>6 DEF JobInv
<1> QED
  BY <1>3, <1>4

\* A worker takes the copy at the head of a list.
LEMMA PopAlone ==
  ASSUME TypeOK, NEW i \in Instances, Look(i), NEW j, JobInv(j)
  PROVE  JobInv(j)'
<1> DEFINE n == worker[i].level
           c == Head(list[n])
<1>1. n \in Levels /\ worker[i] \in Worker /\ worker[i].copy = None
  BY DEF TypeOK, Worker, Look
<1>2. DueOf(j)' = DueOf(j)
  BY SameDue DEF Look
<1>3. UNCHANGED <<runs, done, dead, added>>
  BY DEF Look
<1>4. CASE worker' = [worker EXCEPT ![i].level = NextLevel(n)] /\ UNCHANGED list
  <2>1. worker'[i].copy = None /\ \A k \in Instances : k # i => worker'[k] = worker[k]
    BY <1>1, <1>4 DEF TypeOK, Worker
  <2>2. \A k \in Instances : Takes(k, j)' => /\ Takes(k, j)
                                             /\ worker'[k].copy = worker[k].copy
                                             /\ worker'[k].at = worker[k].at
    BY <2>1 DEF Takes
  <2>3. (InList(j)' <=> InList(j)) /\ OnceListed(j)' /\ \A d : Waits(d)' <=> Waits(d)
    BY <1>4, SameList DEF JobInv
  <2> QED
    BY <1>2, <1>3, <2>2, <2>3, JobStays
<1>5. CASE /\ list[n] # <<>> /\ list' = [list EXCEPT ![n] = Tail(@)]
           /\ worker' = [worker EXCEPT ![i] = [at |-> "popped", level |-> 1, copy |-> c]]
  <2>1. /\ Waits(c) /\ c \in Copy /\ \A d : Waits(d)' => Waits(d)
        /\ InList(j)' => InList(j)
        /\ OnceListed(j)'
        /\ c.job = j => InList(j) /\ ~InList(j)'
    BY <1>1, <1>5, PopSpots DEF JobInv
  <2>2. /\ worker'[i].at = "popped" /\ worker'[i].copy = c /\ c # None
        /\ \A k \in Instances : k # i => worker'[k] = worker[k]
    BY <1>5, <2>1, NoneAssumption DEF TypeOK
  <2> HIDE DEF c, n
  <2>3. CASE c.job # j
    <3>1. \A k \in Instances : Takes(k, j)' => /\ Takes(k, j)
                                               /\ worker'[k].copy = worker[k].copy
                                               /\ worker'[k].at = worker[k].at
      BY <2>2, <2>3 DEF Takes
    <3> QED
      BY <1>2, <1>3, <2>1, <3>1, JobStays
  <2>4. CASE c.job = j
    <3>1. ~Held(j) /\ DueOf(j) = {} /\ c.attempts = runs[j] /\ ~Ended(j) /\ j \in added
      BY <2>1, <2>4 DEF JobInv, OnePlace, ListExact, Gone, Placed
    <3>2. \A k \in Instances : Takes(k, j)' <=> k = i
      BY <2>2, <2>4, <3>1 DEF Takes, Held
    <3>3. ~InList(j)' /\ \A d : Waits(d)' => d.job # j
      BY <2>1, <2>4 DEF InList, Waits
    <3>4. ~Ended(j)' /\ j \in added'
      BY <1>3, <3>1 DEF Ended
    <3>5. OnceHeld(j)' /\ OnceDue(j)' /\ OnePlace(j)'
      BY <1>2, <3>1, <3>2, <3>3 DEF OnceHeld, OnceDue, OnePlace
    <3>6. ListExact(j)' /\ DueExact(j)' /\ HeldExact(j)'
      BY <1>2, <1>3, <2>2, <3>1, <3>2, <3>3 DEF ListExact, DueExact, HeldExact
    <3> QED
      BY <2>1, <3>4, <3>5, <3>6 DEF JobInv
  <2> QED
    BY <2>3, <2>4
<1> QED
  BY <1>4, <1>5 DEF Look

\* The workers when one lets go of what it has.
LEMMA LetsGo ==
  ASSUME TypeOK, NEW i \in Instances, worker' = [worker EXCEPT ![i] = Idle], NEW j
  PROVE  /\ ~Takes(i, j)'
         /\ \A k \in Instances : Takes(k, j)' => /\ Takes(k, j) /\ k # i
                                                 /\ worker'[k].copy = worker[k].copy
                                                 /\ worker'[k].at = worker[k].at
<1>1. worker'[i].copy = None /\ \A k \in Instances : k # i => worker'[k] = worker[k]
  BY DEF TypeOK, Idle
<1> QED
  BY <1>1 DEF Takes

LEMMA FreedAlone ==
  ASSUME TypeOK, NEW i \in Instances, worker' = [worker EXCEPT ![i] = Idle],
         UNCHANGED <<list, delayed, poll, added, runs, done, dead>>, NEW j, JobInv(j)
  PROVE  JobInv(j)'
<1>1. /\ InList(j)' <=> InList(j)
      /\ OnceListed(j)'
      /\ \A c : Waits(c)' <=> Waits(c)
      /\ DueOf(j)' = DueOf(j)
  BY SameList, SameDue DEF JobInv
<1> QED
  BY <1>1, LetsGo, JobStays

\* A failed job goes to the dead-letter list or back to the sorted set.
LEMMA ParkAlone ==
  ASSUME TypeOK, NEW i \in Instances, Park(i), NEW j \in Jobs, JobInv(j)
  PROVE  JobInv(j)'
<1>1. worker[i].copy \in Copy /\ worker[i].copy # None
  BY HeldCopy DEF Park
<1>2. /\ ~Takes(i, j)'
      /\ \A k \in Instances : Takes(k, j)' => /\ Takes(k, j) /\ k # i
                                              /\ worker'[k].copy = worker[k].copy
                                              /\ worker'[k].at = worker[k].at
  BY LetsGo DEF Park
<1>3. /\ InList(j)' <=> InList(j)
      /\ OnceListed(j)'
      /\ \A c : Waits(c)' <=> Waits(c)
  BY SameList DEF JobInv, Park
<1>4. /\ Tried(i).job = worker[i].copy.job
      /\ Tried(i).attempts = worker[i].copy.attempts + 1
      /\ ~Exhausted(Tried(i)) => Tried(i) \in Copy
  BY <1>1, JobQueueAssumption DEF Tried, Exhausted, Copy
<1>5. CASE worker[i].copy.job # j
  <2>1. j \in dead' <=> j \in dead
    BY <1>4, <1>5 DEF Park
  <2>2. DueOf(j)' = DueOf(j)
    BY <1>4, <1>5, DelayDue, SameDue DEF Park
  <2> QED
    BY <1>2, <1>3, <2>1, <2>2, JobStays DEF Park
<1>6. CASE worker[i].copy.job = j
  <2>1. Takes(i, j) /\ Held(j) /\ Placed(j)
    BY <1>1, <1>6 DEF Takes, Held, Placed
  <2>2. /\ ~InList(j) /\ DueOf(j) = {} /\ ~Ended(j) /\ j \in added
        /\ \A k \in Instances : Takes(k, j) => k = i
        /\ runs[j] = Tried(i).attempts
    BY <1>4, <2>1 DEF JobInv, OnePlace, OnceHeld, Gone, HeldExact, Park
  <2>3. ~InList(j)' /\ ~Held(j)' /\ \A k \in Instances : ~Takes(k, j)'
    BY <1>2, <1>3, <2>2 DEF Held, Takes
  <2>4. \A c : Waits(c)' => c.job # j
    BY <1>3, <2>2, InListWaits
  <2>5. j \in added' /\ runs'[j] = runs[j] /\ j \notin done'
    BY <2>2 DEF Park, Ended
  <2>6. CASE dead' = dead \union {Tried(i).job} /\ UNCHANGED delayed
    <3>1. DueOf(j)' = {}
      BY <2>2, <2>6, SameDue DEF Park
    <3> QED
      BY <1>3, <2>3, <2>4, <2>5, <3>1
      DEF JobInv, OnceHeld, OnceDue, OnePlace, ListExact, DueExact, HeldExact, Gone
  <2>7. CASE ~Exhausted(Tried(i)) /\ Delay(Tried(i)) /\ UNCHANGED dead
    <3>1. PICK m \in Member : m.copy = Tried(i) /\ DueOf(j)' = {m}
      BY <1>4, <1>6, <2>2, <2>7, DelayDue DEF Park
    <3>2. ~Ended(j)'
      BY <2>2, <2>5, <2>7 DEF Ended
    <3> QED
      BY <1>3, <2>2, <2>3, <2>4, <2>5, <3>1, <3>2
      DEF JobInv, OnceHeld, OnceDue, OnePlace, ListExact, DueExact, HeldExact
  <2> QED
    BY <2>6, <2>7 DEF Park
<1> QED
  BY <1>5, <1>6

LEMMA WorkerAlone ==
  ASSUME TypeOK, NEW i \in Instances, WorkerStep(i), NEW j \in Jobs, JobInv(j)
  PROVE  JobInv(j)'
<1>1. ASSUME worker[i].at \notin {"down", "look"}
      PROVE  /\ worker[i].copy \in Copy /\ worker[i].copy # None
             /\ Takes(i, j) <=> worker[i].copy.job = j
             /\ Takes(i, j) => /\ j \in added /\ (Ended(j) => worker[i].at = "won" /\ j \notin dead)
                               /\ runs[j] = IF worker[i].at = "popped"
                                            THEN worker[i].copy.attempts
                                            ELSE worker[i].copy.attempts + 1
  <2>1. worker[i].copy \in Copy /\ worker[i].copy # None
    BY <1>1, HeldCopy
  <2>2. Takes(i, j) => Placed(j)
    BY DEF Takes, Held, Placed
  <2> QED
    BY <2>1, <2>2 DEF Takes, JobInv, Gone, HeldExact
<1>2. CASE Look(i)
  BY <1>2, PopAlone
<1>3. ASSUME NEW b \in Jobs, Record(i, b) PROVE JobInv(j)'
  <2>1. worker[i].at = "popped" /\ worker[i].copy.job = b
    BY <1>3 DEF Record, Run
  <2>2. Takes(i, j) => runs'[j] = worker[i].copy.attempts + 1 /\ ~Ended(j)'
    <3>1. Takes(i, j) => /\ j = b /\ runs[j] = worker[i].copy.attempts
                         /\ worker[i].copy.attempts \in 0 .. MaxAttempts - 1 /\ ~Ended(j)
      BY <1>1, <2>1 DEF Copy
    <3>2. Ended(j)' <=> Ended(j)
      BY <1>3 DEF Record, Ended
    <3> QED
      BY <1>3, <3>1, <3>2, JobQueueAssumption DEF Record, Run, TypeOK
  <2>3. ~Takes(i, j) => runs'[j] = runs[j]
    BY <1>1, <1>3, <2>1 DEF Record, Run, TypeOK
  <2>4. worker' = [worker EXCEPT ![i].at = "running"]
    BY <1>3 DEF Record, Run
  <2> QED
    BY <1>3, <2>2, <2>3, <2>4, HolderAlone DEF Record, Stage
<1>4. CASE Succeed(i)
  <2>1. worker[i].at = "running"
    BY <1>4 DEF Succeed
  <2>2. worker' = [worker EXCEPT ![i].at = "won"] /\ done' = done \union {worker[i].copy.job}
    BY <1>4 DEF Succeed
  <2>3. Takes(i, j) => runs[j] = worker[i].copy.attempts + 1 /\ j \notin dead
    BY <1>1, <2>1 DEF Ended
  <2>4. ~Takes(i, j) => (j \in done' <=> j \in done)
    BY <1>1, <2>1, <2>2
  <2> QED
    BY <1>4, <2>2, <2>3, <2>4, HolderAlone DEF Succeed, Stage
<1>5. CASE Fail(i)
  <2>1. worker[i].at = "running"
    BY <1>5 DEF Fail
  <2>2. Takes(i, j) => runs[j] = worker[i].copy.attempts + 1 /\ ~Ended(j)
    BY <1>1, <2>1
  <2> QED
    BY <1>5, <2>2, HolderAlone DEF Fail, Stage, Ended
<1>6. CASE Forget(i)
  <2>1. CASE worker[i].at = "won"
    <3>1. worker' = [worker EXCEPT ![i] = Idle]
      BY <1>6, <2>1 DEF Forget, Settle
    <3> QED
      BY <1>6, <3>1, FreedAlone DEF Forget
  <2>2. CASE worker[i].at = "failed"
    <3>1. worker' = [worker EXCEPT ![i].at = "park"]
      BY <1>6, <2>2 DEF Forget, Settle
    <3>2. Takes(i, j) => runs[j] = worker[i].copy.attempts + 1 /\ ~Ended(j)
      BY <1>1, <2>2
    <3> QED
      BY <1>6, <3>1, <3>2, HolderAlone DEF Forget, Stage, Ended
  <2> QED
    BY <1>6, <2>1, <2>2 DEF Forget, Settle
<1>7. CASE Park(i)
  BY <1>7, ParkAlone
<1> QED
  BY <1>2, <1>3, <1>4, <1>5, <1>6, <1>7 DEF WorkerStep

\* A job that is pushed is in its list and, so far, nowhere else.
LEMMA PushAlone ==
  ASSUME TypeOK, NEW c \in Copy, Push(c), NEW j, JobInv(j),
         c.job # j => DueOf(j)' \subseteq DueOf(j),
         c.job = j => /\ ~InList(j) /\ ~Held(j) /\ ~Ended(j)
                      /\ DueOf(j)' = {} /\ c.attempts = runs[j] /\ j \in added',
         UNCHANGED <<worker, runs, done, dead>>, added \subseteq added'
  PROVE  JobInv(j)'
<1>1. \A d : Waits(d)' <=> Waits(d) \/ d = c
  BY PushWaits
<1>2. \A k \in Instances : Takes(k, j)' <=> Takes(k, j)
  BY DEF Takes
<1>3. CASE c.job # j
  BY <1>1, <1>2, <1>3, PushSpots, JobStays DEF JobInv
<1>4. CASE c.job = j
  <2>1. OnceListed(j)'
    BY <1>4, PushSpots
  <2>2. \A k \in Instances : ~Takes(k, j)'
    BY <1>2, <1>4 DEF Held, Takes
  <2>3. ~Held(j)' /\ ~Ended(j)'
    BY <1>4 DEF Held, Ended
  <2>4. \A d : Waits(d)' => d.job # j \/ d = c
    BY <1>1, <1>4, InListWaits
  <2>5. OnceHeld(j)' /\ OnceDue(j)' /\ OnePlace(j)'
    BY <1>4, <2>2, <2>3 DEF OnceHeld, OnceDue, OnePlace
  <2>6. ListExact(j)' /\ DueExact(j)' /\ HeldExact(j)'
    BY <1>4, <2>2, <2>4 DEF ListExact, DueExact, HeldExact
  <2> QED
    BY <1>4, <2>1, <2>3, <2>5, <2>6 DEF JobInv
<1> QED
  BY <1>3, <1>4

LEMMA AddAlone ==
  ASSUME TypeOK, NEW b \in Jobs, Add(b), NEW j, JobInv(j)
  PROVE  JobInv(j)'
<1>1. NewCopy(b) \in Copy /\ NewCopy(b).job = b /\ NewCopy(b).attempts = 0
  BY NewCopyType DEF NewCopy
<1>2. /\ j = b => ~Ended(j) /\ ~InList(j) /\ ~Held(j) /\ DueOf(j) = {} /\ runs[j] = 0
      /\ j = b => j \in added'
      /\ added \subseteq added'
      /\ UNCHANGED <<worker, runs, done, dead, poll>>
  BY DEF Add, JobInv, Placed
<1>3. CASE Push(NewCopy(b)) /\ UNCHANGED delayed
  <2>1. DueOf(j)' = DueOf(j)
    BY <1>2, <1>3, SameDue
  <2> QED
    BY <1>1, <1>2, <1>3, <2>1, PushAlone
<1>4. CASE Delay(NewCopy(b)) /\ UNCHANGED list
  <2>1. /\ InList(j)' <=> InList(j)
        /\ OnceListed(j)'
        /\ \A c : Waits(c)' <=> Waits(c)
    BY <1>4, SameList DEF JobInv
  <2>2. \A k \in Instances : Takes(k, j)' <=> Takes(k, j)
    BY <1>2 DEF Takes
  <2>3. CASE j # b
    <3>1. DueOf(j)' = DueOf(j)
      BY <1>1, <1>2, <1>4, <2>3, DelayDue
    <3> QED
      BY <1>2, <2>1, <2>2, <3>1, JobStays
  <2>4. CASE j = b
    <3>1. PICK m \in Member : m.copy = NewCopy(b) /\ DueOf(j)' = {m}
      BY <1>1, <1>2, <1>4, <2>4, DelayDue
    <3>2. ~Ended(j)' /\ ~Held(j)' /\ \A k \in Instances : ~Takes(k, j)'
      BY <1>2, <2>2, <2>4 DEF Ended, Held, Takes
    <3>3. \A c : Waits(c)' => c.job # j
      BY <1>2, <2>1, <2>4, InListWaits
    <3> QED
      BY <1>1, <1>2, <2>1, <2>4, <3>1, <3>2, <3>3
      DEF JobInv, OnceHeld, OnceDue, OnePlace, ListExact, DueExact, HeldExact
  <2> QED
    BY <2>3, <2>4
<1> QED
  BY <1>3, <1>4 DEF Add

\* A poll reads members that stay due, pushes each of them once, and removes what
\* it has pushed.
LEMMA PollAlone ==
  ASSUME TypeOK, Quiet, Calm, Calm', NEW i \in Instances, PollerStep(i), NEW j, JobInv(j)
  PROVE  JobInv(j)'
<1>1. poll \in [Instances -> [todo: SUBSET Member, batch: SUBSET Member]]
  BY DEF TypeOK
<1>2. UNCHANGED <<worker, runs, done, dead, added>>
  BY DEF PollerStep, PollRead, PollPush, PollRemove
<1>3. \A k \in Instances : Takes(k, j)' <=> Takes(k, j)
  BY <1>2 DEF Takes
<1>4. ASSUME UNCHANGED list, DueOf(j)' \subseteq DueOf(j) PROVE JobInv(j)'
  <2>1. /\ InList(j)' <=> InList(j)
        /\ OnceListed(j)'
        /\ \A c : Waits(c)' <=> Waits(c)
    BY <1>4, SameList DEF JobInv
  <2> QED
    BY <1>2, <1>3, <1>4, <2>1, JobStays
<1>5. CASE PollRead(i)
  <2>1. \A k \in Instances : poll[k] = NoPoll
    BY <1>5, JobQueueAssumption DEF PollRead, Upset, Calm
  <2>2. \A m : ~Pushed(m)
    BY <2>1 DEF Pushed, NoPoll
  <2>3. DueOf(j)' \subseteq DueOf(j)
    BY <1>5, <2>2 DEF PollRead, DueOf, Due
  <2> QED
    BY <1>4, <1>5, <2>3 DEF PollRead
<1>6. CASE PollPush(i)
  <2>1. PICK m \in poll[i].todo : Push(m.copy) /\ poll' = [poll EXCEPT ![i].todo = @ \ {m}]
    BY <1>6 DEF PollPush
  <2>2. m \in Member /\ m.copy \in Copy /\ m \in poll[i].batch /\ m \in delayed
    BY <1>1, <2>1 DEF Member, Quiet
  <2>3. \A k \in Instances : k # i => poll[k].batch = {}
    <3>1. poll[i] # NoPoll
      BY <2>1 DEF NoPoll
    <3> QED
      BY <3>1 DEF Quiet, NoPoll
  <2>4. Due(m)
    BY <2>1, <2>2, <2>3 DEF Due, Pushed
  <2>5. /\ poll'[i].batch = poll[i].batch /\ poll'[i].todo = poll[i].todo \ {m}
        /\ \A k \in Instances : k # i => poll'[k] = poll[k]
    BY <1>1, <2>1
  <2>6. \A n : Due(n)' => Due(n) /\ n # m
    BY <1>6, <2>2, <2>5 DEF Due, Pushed, PollPush
  <2>7. DueOf(j)' \subseteq DueOf(j) \ {m}
    BY <2>6 DEF DueOf
  <2>8. ASSUME m.copy.job = j
        PROVE  /\ ~InList(j) /\ ~Held(j) /\ ~Ended(j)
               /\ DueOf(j)' = {} /\ m.copy.attempts = runs[j] /\ j \in added
    <3>1. m \in DueOf(j)
      BY <2>2, <2>4, <2>8 DEF DueOf
    <3>2. ~InList(j) /\ ~Held(j) /\ ~Ended(j) /\ j \in added /\ m.copy.attempts = runs[j]
      BY <3>1 DEF JobInv, OnePlace, Gone, Placed, DueExact
    <3>3. DueOf(j)' = {}
      BY <2>7, <3>1 DEF JobInv, OnceDue
    <3> QED
      BY <3>2, <3>3
  <2> QED
    BY <1>2, <2>1, <2>2, <2>7, <2>8, PushAlone
<1>7. CASE PollRemove(i)
  <2>1. /\ poll'[i].batch = {} /\ poll[i].todo = {}
        /\ \A k \in Instances : k # i => poll'[k] = poll[k]
    BY <1>1, <1>7 DEF PollRemove, NoPoll
  <2>2. \A m : Due(m)' => Due(m)
    BY <1>7, <2>1 DEF Due, Pushed, PollRemove, RangeRead
  <2> QED
    BY <1>4, <1>7, <2>2 DEF PollRemove, DueOf
<1> QED
  BY <1>5, <1>6, <1>7 DEF PollerStep

\* A starting instance finds no entry that has grown stale.
LEMMA StartAlone ==
  ASSUME TypeOK, Quiet, NEW i \in Instances, Start(i)
  PROVE  /\ \A j : JobInv(j) => JobInv(j)'
         /\ \A k \in Instances : scan'[k] = NoScan
<1>1. ASSUME NEW j, JobInv(j) PROVE JobInv(j)'
  BY <1>1, FreedAlone DEF Start
<1>2. StaleEntries = {}
  BY DEF StaleEntries, Quiet
<1>3. scan[i] = NoScan /\ \A k \in Instances : scan[k] = NoScan
  BY DEF Quiet
<1>4. scan' = [scan EXCEPT ![i] = [scan[i] EXCEPT !.todo = {}]]
  BY <1>2 DEF Start
<1>5. [scan[i] EXCEPT !.todo = {}] = NoScan
  BY <1>3 DEF NoScan
<1>6. \A k \in Instances : scan'[k] = NoScan
  BY <1>3, <1>4, <1>5 DEF TypeOK
<1> QED
  BY <1>1, <1>6

\* What was ever disturbed stays disturbed.
LEMMA CalmBefore ==
  ASSUME TypeOK, [Next]_vars, Calm'
  PROVE  Calm
<1>1. upsets \in Nat /\ faults \in Nat
  BY DEF TypeOK
<1>2. CASE UNCHANGED <<upsets, faults>>
  BY <1>2 DEF Calm
<1>3. CASE UNCHANGED vars
  BY <1>2, <1>3 DEF vars
<1>4. ASSUME NEW j \in Jobs, Add(j) PROVE Calm
  BY <1>2, <1>4 DEF Add
<1>5. ASSUME NEW j \in Jobs, GrowStale(j) PROVE Calm
  BY <1>1, <1>5 DEF GrowStale, Upset, Calm
<1>6. ASSUME NEW i \in Instances, Start(i) \/ RecoveryStep(i) PROVE Calm
  BY <1>2, <1>6 DEF Start, RecoveryStep, Requeue, DropEntry
<1>7. ASSUME NEW i \in Instances, WorkerStep(i) PROVE Calm
  BY <1>2, <1>7 DEF WorkerStep, Look, Record, Succeed, Fail, Forget, Park
<1>8. ASSUME NEW i \in Instances, PollerStep(i) PROVE Calm
  BY <1>1, <1>2, <1>8 DEF PollerStep, PollRead, PollPush, PollRemove, Upset, Calm
<1>9. ASSUME NEW i \in Instances, FaultStep(i) PROVE Calm
  BY <1>1, <1>9
  DEF FaultStep, Crash, ForgetFails, ParkFails, PollFails, RequeueFails, RecordFails, Fault, Calm
<1> QED
  BY <1>3, <1>4, <1>5, <1>6, <1>7, <1>8, <1>9 DEF Next

\* In a calm queue nothing fails, grows stale or is recovered.
LEMMA CalmSteps ==
  ASSUME Quiet, Calm, Calm', [Next]_vars
  PROVE  \/ UNCHANGED vars
         \/ \E b \in Jobs : Add(b)
         \/ \E i \in Instances : Start(i) \/ WorkerStep(i) \/ PollerStep(i)
<1>1. ASSUME NEW j \in Jobs, GrowStale(j) PROVE FALSE
  BY <1>1, JobQueueAssumption DEF GrowStale, Upset, Calm
<1>2. ASSUME NEW i \in Instances, FaultStep(i) PROVE FALSE
  BY <1>2, JobQueueAssumption
  DEF FaultStep, Crash, ForgetFails, ParkFails, PollFails, RequeueFails, RecordFails, Fault, Calm
<1>3. ASSUME NEW i \in Instances, RecoveryStep(i) PROVE FALSE
  BY <1>3 DEF RecoveryStep, Requeue, DropEntry, Quiet, NoScan
<1> QED
  BY <1>1, <1>2, <1>3 DEF Next

LEMMA QuietStep ==
  ASSUME TypeOK, Quiet, Calm, Calm', [Next]_vars
  PROVE  Quiet'
<1>1. poll \in [Instances -> [todo: SUBSET Member, batch: SUBSET Member]]
  BY DEF TypeOK
<1>2. ASSUME UNCHANGED <<processing, scan, poll>>, delayed \subseteq delayed' PROVE Quiet'
  BY <1>2 DEF Quiet
<1>3. CASE UNCHANGED vars
  BY <1>2, <1>3 DEF vars
<1>4. ASSUME NEW j \in Jobs, Add(j) PROVE Quiet'
  <2>1. delayed \subseteq delayed'
    BY <1>4 DEF Add, Delay
  <2> QED
    BY <1>2, <1>4, <2>1 DEF Add
<1>5. ASSUME NEW i \in Instances, Start(i) PROVE Quiet'
  BY <1>5, StartAlone DEF Quiet, Start
<1>6. ASSUME NEW i \in Instances, WorkerStep(i) PROVE Quiet'
  <2>1. delayed \subseteq delayed' /\ UNCHANGED <<scan, poll>>
    BY <1>6 DEF WorkerStep, Look, Record, Succeed, Fail, Forget, Park, Delay
  <2>2. \/ UNCHANGED processing
        \/ \E j \in Jobs : processing' = [processing EXCEPT ![j] = [copy |-> worker[i].copy, stale |-> FALSE]]
        \/ processing' = [processing EXCEPT ![worker[i].copy.job] = None]
    BY <1>6 DEF WorkerStep, Look, Record, Succeed, Fail, Forget, Park
  <2>3. \A j \in Jobs : processing'[j] # None => ~processing'[j].stale
    BY <2>2 DEF Quiet, TypeOK
  <2> QED
    BY <2>1, <2>3 DEF Quiet
<1>7. ASSUME NEW i \in Instances, PollerStep(i) PROVE Quiet'
  <2>1. UNCHANGED <<processing, scan>>
    BY <1>7 DEF PollerStep, PollRead, PollPush, PollRemove
  <2>2. \A k \in Instances : k # i => poll'[k] = poll[k]
    BY <1>1, <1>7 DEF PollerStep, PollRead, PollPush, PollRemove
  <2>3. \A k \in Instances : k # i => poll[k] = NoPoll
    <3>1. CASE PollRead(i)
      BY <3>1, JobQueueAssumption DEF PollRead, Upset, Calm
    <3>2. CASE PollPush(i) \/ PollRemove(i)
      <4>1. poll[i] # NoPoll
        BY <3>2 DEF PollPush, PollRemove, NoPoll
      <4> QED
        BY <4>1 DEF Quiet
    <3> QED
      BY <1>7, <3>1, <3>2 DEF PollerStep
  <2>4. poll'[i].todo \subseteq poll'[i].batch /\ poll'[i].batch \subseteq delayed'
    <3>1. CASE PollRead(i)
      BY <1>1, <3>1 DEF PollRead
    <3>2. CASE PollPush(i)
      BY <1>1, <3>2 DEF PollPush, Quiet
    <3>3. CASE PollRemove(i)
      BY <1>1, <3>3 DEF PollRemove, NoPoll
    <3> QED
      BY <1>7, <3>1, <3>2, <3>3 DEF PollerStep
  <2>5. \A k \in Instances : /\ poll'[k].todo \subseteq poll'[k].batch
                             /\ poll'[k].batch \subseteq delayed'
    BY <2>2, <2>3, <2>4 DEF NoPoll
  <2>6. \A k, k2 \in Instances : poll'[k] # NoPoll /\ poll'[k2] # NoPoll => k = k2
    BY <2>2, <2>3
  <2> QED
    BY <2>1, <2>5, <2>6 DEF Quiet
<1> QED
  BY <1>3, <1>4, <1>5, <1>6, <1>7, CalmSteps

LEMMA AloneInit == Init => AloneInv
<1> SUFFICES ASSUME Init PROVE AloneInv
  OBVIOUS
<1>1. Quiet
  BY DEF Init, Quiet, NoPoll, NoScan
<1>2. ASSUME NEW j \in Jobs PROVE JobInv(j)
  <2>1. ~InList(j) /\ \A c : ~Waits(c)
    BY DEF Init, InList, Waits
  <2>2. OnceListed(j)
    BY DEF Init, OnceListed, Spot
  <2>3. \A i \in Instances : ~Takes(i, j)
    BY DEF Init, Takes, Down
  <2>4. ~Held(j) /\ DueOf(j) = {} /\ ~Ended(j) /\ runs[j] = 0
    BY DEF Init, Held, Down, DueOf, Due, Ended
  <2> QED
    BY <2>1, <2>2, <2>3, <2>4
    DEF JobInv, OnceHeld, OnceDue, OnePlace, ListExact, DueExact, HeldExact, Placed
<1> QED
  BY <1>1, <1>2 DEF AloneInv

LEMMA AloneStep == TypeOK /\ AloneInv /\ [Next]_vars => AloneInv'
<1> SUFFICES ASSUME TypeOK, AloneInv, [Next]_vars, Calm' PROVE Quiet' /\ \A j \in Jobs : JobInv(j)'
  BY DEF AloneInv
<1>1. Calm
  BY CalmBefore
<1>2. Quiet /\ \A j \in Jobs : JobInv(j)
  BY <1>1 DEF AloneInv
<1>3. Quiet'
  BY <1>1, <1>2, QuietStep
<1>4. ASSUME NEW j \in Jobs PROVE JobInv(j)'
  <2>1. JobInv(j)
    BY <1>2
  <2>2. CASE UNCHANGED vars
    <3>1. /\ InList(j)' <=> InList(j)
          /\ OnceListed(j)'
          /\ \A c : Waits(c)' <=> Waits(c)
          /\ DueOf(j)' = DueOf(j)
      BY <2>1, <2>2, SameList, SameDue DEF vars, JobInv
    <3> QED
      BY <2>1, <2>2, <3>1, JobStays DEF vars, Takes
  <2>3. ASSUME NEW b \in Jobs, Add(b) PROVE JobInv(j)'
    BY <2>1, <2>3, AddAlone
  <2>4. ASSUME NEW i \in Instances, Start(i) PROVE JobInv(j)'
    BY <1>2, <2>1, <2>4, StartAlone
  <2>5. ASSUME NEW i \in Instances, WorkerStep(i) PROVE JobInv(j)'
    BY <2>1, <2>5, WorkerAlone
  <2>6. ASSUME NEW i \in Instances, PollerStep(i) PROVE JobInv(j)'
    BY <1>1, <1>2, <2>1, <2>6, PollAlone
  <2> QED
    BY <1>1, <1>2, <2>2, <2>3, <2>4, <2>5, <2>6, CalmSteps
<1> QED
  BY <1>3, <1>4

LEMMA AloneInvariant == Spec => []AloneInv
BY AloneInit, AloneStep, TypeInit, TypeStep, PTL DEF Spec

\* JobsRunAlone - while nothing fails, no polls overlap and no entry grows stale,
\* no two workers have one job, none runs a job that has ended, a popped copy knows
\* the calls of its processor, and no job both succeeds and is dead-lettered.
THEOREM JobsRunAlone == Spec => []RunsAlone
<1>1. TypeOK /\ AloneInv => RunsAlone
  <2> SUFFICES ASSUME TypeOK, Calm, \A j \in Jobs : JobInv(j) PROVE RunsAlone
    BY DEF AloneInv, RunsAlone, Calm
  <2>1. ASSUME NEW i \in Instances, worker[i].copy # None
        PROVE  worker[i].copy.job \in Jobs /\ Takes(i, worker[i].copy.job)
    BY <2>1, HeldCopy DEF TypeOK, Takes
  <2>2. ASSUME NEW i \in Instances, NEW k \in Instances, worker[i].copy # None,
               worker[k].copy # None, worker[i].copy.job = worker[k].copy.job
        PROVE  i = k
    <3>1. Takes(i, worker[i].copy.job) /\ Takes(k, worker[i].copy.job) /\ JobInv(worker[i].copy.job)
      BY <2>1, <2>2 DEF Takes
    <3> QED
      BY <3>1 DEF JobInv, OnceHeld
  <2>3. ASSUME NEW i \in Instances, worker[i].at \in {"popped", "running"}
        PROVE  /\ ~Ended(worker[i].copy.job)
               /\ worker[i].at = "popped" => runs[worker[i].copy.job] = worker[i].copy.attempts
    <3>1. Takes(i, worker[i].copy.job) /\ JobInv(worker[i].copy.job)
      BY <2>1, <2>3 DEF TypeOK
    <3> QED
      BY <2>3, <3>1 DEF JobInv, Gone, HeldExact
  <2>4. done \cap dead = {}
    BY DEF JobInv, Gone, Ended, TypeOK
  <2> QED
    BY <2>2, <2>3, <2>4 DEF RunsAlone
<1> QED
  BY <1>1, AloneInvariant, QueueTypesCorrect, PTL

-----------------------------------------------------------------------------
(* The processing hash                                                       *)

Recorded == {"running", "won", "failed"}
Records(i, j) == worker[i].at \in Recorded /\ worker[i].copy.job = j

HashInv(j) ==
  /\ \A i \in Instances : Records(i, j) => processing[j] = [copy |-> worker[i].copy, stale |-> FALSE]
  /\ processing[j] # None => \E i \in Instances : Records(i, j)

LEMMA HashStays ==
  ASSUME NEW j, HashInv(j), processing'[j] = processing[j],
         \A i \in Instances : Records(i, j)' <=> Records(i, j),
         \A i \in Instances : Records(i, j) => worker'[i].copy = worker[i].copy
  PROVE  HashInv(j)'
BY DEF HashInv

\* A worker adds the entry of its job, takes it away or leaves the hash as it is.
LEMMA HashWorker ==
  ASSUME TypeOK, NEW i \in Instances, WorkerStep(i), NEW j \in Jobs, JobInv(j), HashInv(j)
  PROVE  HashInv(j)'
<1>1. \A k \in Instances : k # i => worker'[k] = worker[k]
  <2>1. ASSUME NEW b \in Jobs, Record(i, b) PROVE \A k \in Instances : k # i => worker'[k] = worker[k]
    BY <2>1 DEF TypeOK, Record, Run
  <2>2. CASE Look(i)
    BY <2>2 DEF TypeOK, Look
  <2>3. CASE Succeed(i) \/ Fail(i) \/ Forget(i) \/ Park(i)
    BY <2>3 DEF TypeOK, Succeed, Fail, Forget, Settle, Park
  <2> QED
    BY <2>1, <2>2, <2>3 DEF WorkerStep
<1>2. \A k \in Instances : k # i => Records(k, j)' = Records(k, j)
  BY <1>1 DEF Records
<1>3. \A k \in Instances : Records(k, j) => Takes(k, j)
  BY DEF Records, Recorded, Takes, TypeOK
\* a step that neither records the job nor forgets it
<1>4. ASSUME UNCHANGED processing, worker[i].at \in Recorded <=> worker'[i].at \in Recorded,
             worker[i].at \in Recorded => worker'[i].copy = worker[i].copy
      PROVE  HashInv(j)'
  <2>1. Records(i, j)' <=> Records(i, j)
    BY <1>4 DEF Records
  <2>2. \A k \in Instances : Records(k, j) => worker'[k].copy = worker[k].copy
    BY <1>1, <1>4 DEF Records
  <2> QED
    BY <1>2, <1>4, <2>1, <2>2, HashStays
<1>5. CASE Look(i)
  <2>1. worker[i].at = "look" /\ worker'[i].at \in {"look", "popped"}
    BY <1>5 DEF Look, TypeOK, Worker
  <2> QED
    BY <1>4, <1>5, <2>1 DEF Look, Recorded
<1>6. CASE Succeed(i) \/ Fail(i)
  <2>1. worker[i].at = "running" /\ worker'[i].copy = worker[i].copy /\ worker'[i].at \in {"won", "failed"}
    BY <1>6, GoesOn DEF Succeed, Fail, Stage
  <2> QED
    BY <1>4, <1>6, <2>1 DEF Succeed, Fail, Recorded
<1>7. CASE Park(i)
  <2>1. worker[i].at = "park" /\ worker'[i].at = "look"
    BY <1>7 DEF Park, Idle, TypeOK
  <2> QED
    BY <1>4, <1>7, <2>1 DEF Park, Recorded
<1>8. ASSUME NEW b \in Jobs, Record(i, b) PROVE HashInv(j)'
  <2>1. /\ worker[i].at = "popped" /\ worker'[i].at = "running"
        /\ worker'[i].copy = worker[i].copy /\ worker[i].copy.job = b
    BY <1>8, GoesOn DEF Record, Run, Stage
  <2>2. processing' = [processing EXCEPT ![b] = [copy |-> worker[i].copy, stale |-> FALSE]]
    BY <1>8 DEF Record
  <2>3. CASE j # b
    <3>1. processing'[j] = processing[j] /\ ~Records(i, j) /\ ~Records(i, j)'
      BY <2>1, <2>2, <2>3 DEF TypeOK, Records
    <3> QED
      BY <1>1, <1>2, <3>1, HashStays
  <2>4. CASE j = b
    <3>1. Takes(i, j)
      BY <2>1, <2>4 DEF Takes, TypeOK
    <3>2. \A k \in Instances : Records(k, j)' => k = i
      BY <1>2, <1>3, <3>1 DEF JobInv, OnceHeld
    <3>3. processing'[j] = [copy |-> worker'[i].copy, stale |-> FALSE] /\ Records(i, j)'
      BY <2>1, <2>2, <2>4 DEF TypeOK, Records, Recorded
    <3> QED
      BY <3>2, <3>3 DEF HashInv
  <2> QED
    BY <2>3, <2>4
<1>9. CASE Forget(i)
  <2> DEFINE b == worker[i].copy.job
  <2>1. worker[i].at \in Recorded /\ worker[i].at \in {"won", "failed"} /\ b \in Jobs
    BY <1>9, HeldCopy DEF Forget, Settle, Recorded
  <2>2. worker'[i].at \in {"look", "park"}
    BY <1>9 DEF Forget, Settle, Idle, TypeOK, Worker
  <2>3. processing' = [processing EXCEPT ![b] = None]
    BY <1>9 DEF Forget
  <2>4. ~Records(i, j)'
    BY <2>2 DEF Records, Recorded
  <2>5. CASE j # b
    <3>1. processing'[j] = processing[j] /\ ~Records(i, j)
      BY <2>1, <2>3, <2>5 DEF TypeOK, Records
    <3> QED
      BY <1>1, <1>2, <2>4, <3>1, HashStays
  <2>6. CASE j = b
    <3>1. Takes(i, j)
      BY <2>1, <2>6, HeldCopy DEF Takes, Recorded
    <3>2. \A k \in Instances : ~Records(k, j)'
      BY <1>2, <1>3, <2>4, <3>1 DEF JobInv, OnceHeld
    <3>3. processing'[j] = None
      BY <2>1, <2>3, <2>6 DEF TypeOK
    <3> QED
      BY <3>2, <3>3 DEF HashInv
  <2> QED
    BY <2>5, <2>6
<1> QED
  BY <1>5, <1>6, <1>7, <1>8, <1>9 DEF WorkerStep

\* HashRecordsRuns - while nothing fails, no polls overlap and no entry grows
\* stale, the processing hash has an entry for each job between the call of its
\* processor and the HDEL after it, and for no other job.
THEOREM HashRecordsRuns == Spec => []HashIsExact
<1> DEFINE Inv == Calm => \A j \in Jobs : HashInv(j)
<1>1. Init => Inv
  <2> SUFFICES ASSUME Init, NEW j \in Jobs PROVE HashInv(j)
    OBVIOUS
  <2>1. processing[j] = None /\ \A i \in Instances : ~Records(i, j)
    BY DEF Init, Records, Recorded, Down
  <2> QED
    BY <2>1 DEF HashInv
<1>2. TypeOK /\ AloneInv /\ Inv /\ [Next]_vars => Inv'
  <2> SUFFICES ASSUME TypeOK, AloneInv, Inv, [Next]_vars, Calm', NEW j \in Jobs PROVE HashInv(j)'
    OBVIOUS
  <2>1. Calm /\ Quiet /\ JobInv(j) /\ HashInv(j)
    BY CalmBefore DEF AloneInv
  <2>2. ASSUME UNCHANGED <<processing, worker>> PROVE HashInv(j)'
    BY <2>1, <2>2 DEF HashInv, Records
  <2>3. CASE UNCHANGED vars
    BY <2>2, <2>3 DEF vars
  <2>4. ASSUME NEW b \in Jobs, Add(b) PROVE HashInv(j)'
    BY <2>2, <2>4 DEF Add
  <2>5. ASSUME NEW i \in Instances, PollerStep(i) PROVE HashInv(j)'
    BY <2>2, <2>5 DEF PollerStep, PollRead, PollPush, PollRemove
  <2>6. ASSUME NEW i \in Instances, Start(i) PROVE HashInv(j)'
    <3>1. worker[i].at = "down" /\ worker'[i].at = "look"
      BY <2>6 DEF Start, Idle, TypeOK
    <3>2. \A k \in Instances : k # i => worker'[k] = worker[k]
      BY <2>6 DEF Start, TypeOK
    <3>3. /\ \A k \in Instances : Records(k, j)' <=> Records(k, j)
          /\ \A k \in Instances : Records(k, j) => worker'[k].copy = worker[k].copy
      BY <3>1, <3>2 DEF Records, Recorded
    <3> QED
      BY <2>1, <2>6, <3>3, HashStays DEF Start
  <2>7. ASSUME NEW i \in Instances, WorkerStep(i) PROVE HashInv(j)'
    BY <2>1, <2>7, HashWorker
  <2> QED
    BY <2>1, <2>3, <2>4, <2>5, <2>6, <2>7, CalmSteps
<1>3. TypeOK /\ Inv => HashIsExact
  <2> SUFFICES ASSUME TypeOK, Calm, \A j \in Jobs : HashInv(j) PROVE HashIsExact
    BY DEF HashIsExact, Calm
  <2>1. \A i \in Instances : worker[i].at \in Recorded => worker[i].copy.job \in Jobs
    BY HeldCopy DEF Recorded
  <2> QED
    BY <2>1 DEF HashIsExact, HashInv, Records, Recorded, AtStage
<1> HIDE DEF Inv
<1> QED
  BY <1>1, <1>2, <1>3, AloneInvariant, QueueTypesCorrect, PTL DEF Spec

-----------------------------------------------------------------------------
(* The life of a job                                                         *)

LifeMap == [j \in Jobs |-> LifeOf(j)]
Unrest == faults > 0 \/ upsets > 0

\* LifeOf, with its cases in a row.
LEMMA LifeIs ==
  ASSUME NEW j
  PROVE  LifeOf(j) = IF j \in dead THEN "dead" ELSE IF j \in done THEN "done"
                     ELSE IF AtStage(j, {"running"}) THEN "running"
                     ELSE IF AtStage(j, {"failed", "park"}) THEN "failed"
                     ELSE IF j \in added THEN "waiting" ELSE "new"
BY DEF LifeOf, Ended

LEMMA LifeIsNext ==
  ASSUME NEW j
  PROVE  LifeOf(j)' = IF j \in dead' THEN "dead" ELSE IF j \in done' THEN "done"
                      ELSE IF AtStage(j, {"running"})' THEN "running"
                      ELSE IF AtStage(j, {"failed", "park"})' THEN "failed"
                      ELSE IF j \in added' THEN "waiting" ELSE "new"
<1>1. Ended(j)' <=> j \in done' \/ j \in dead'
  BY DEF Ended
<1> QED
  BY <1>1 DEF LifeOf

\* The stage of a job does not change with a worker that has it neither before
\* nor after.
LEMMA OtherStage ==
  ASSUME NEW i \in Instances, NEW j, NEW S,
         \A k \in Instances : k # i => worker'[k] = worker[k],
         ~(worker[i].at \in S /\ worker[i].copy.job = j),
         ~(worker'[i].at \in S /\ worker'[i].copy.job = j)
  PROVE  AtStage(j, S)' <=> AtStage(j, S)
BY DEF AtStage

\* The stage of a job is that of the one worker that has it.
LEMMA OwnStage ==
  ASSUME TypeOK, NEW i \in Instances, NEW j, JobInv(j), Takes(i, j),
         \A k \in Instances : k # i => worker'[k] = worker[k],
         NEW S, "down" \notin S, "look" \notin S
  PROVE  /\ AtStage(j, S) <=> worker[i].at \in S
         /\ AtStage(j, S)' <=> worker'[i].at \in S /\ worker'[i].copy.job = j
<1>1. ASSUME NEW k \in Instances, worker[k].at \in S, worker[k].copy.job = j PROVE k = i
  <2>1. worker[k].copy # None
    BY <1>1 DEF TypeOK
  <2> QED
    BY <1>1, <2>1 DEF Takes, JobInv, OnceHeld
<1> QED
  BY <1>1 DEF AtStage, Takes

\* A step in the life of one job, or of none, is one the contract allows.
LEMMA LifeTurns ==
  ASSUME NEW b \in Jobs, NEW before, NEW after, LifeOf(b) = before, LifeOf(b)' = after,
         \A j \in Jobs : j # b => LifeOf(j)' = LifeOf(j)
  PROVE  Lives!Becomes(b, before, after)
<1>1. LifeMap[b] = before
  BY DEF LifeMap
<1>2. LifeMap' = [LifeMap EXCEPT ![b] = after]
  BY DEF LifeMap
<1> QED
  BY <1>1, <1>2 DEF Lives!Becomes, LifeMap

LEMMA LifeRests ==
  ASSUME Calm, Calm', \A j \in Jobs : LifeOf(j)' = LifeOf(j), runs' = runs
  PROVE  UNCHANGED <<LifeMap, runs, Unrest>>
<1>1. LifeMap' = LifeMap
  BY DEF LifeMap
<1>2. Unrest' = Unrest
  <2>1. Unrest = FALSE /\ Unrest' = FALSE
    BY DEF Unrest, Calm
  <2> QED
    BY <2>1
<1> QED
  BY <1>1, <1>2

\* What one step may do to one job while the queue is calm.
Lived(b) ==
  \/ LifeOf(b) = "new" /\ LifeOf(b)' = "waiting" /\ runs' = runs
  \/ LifeOf(b) = "waiting" /\ LifeOf(b)' = "running" /\ runs' = [runs EXCEPT ![b] = runs[b] + 1]
  \/ LifeOf(b) = "running" /\ LifeOf(b)' \in {"done", "failed"} /\ runs' = runs
  \/ LifeOf(b) = "failed" /\ LifeOf(b)' = "waiting" /\ runs' = runs /\ runs[b] < MaxAttempts
  \/ LifeOf(b) = "failed" /\ LifeOf(b)' = "dead" /\ runs' = runs /\ runs[b] = MaxAttempts
  \/ LifeOf(b)' = LifeOf(b) /\ runs' = runs

LEMMA LivesOn ==
  ASSUME Calm, Calm', NEW b \in Jobs, Lived(b), \A j \in Jobs : j # b => LifeOf(j)' = LifeOf(j)
  PROVE  [Lives!Undisturbed \/ Lives!Disturbed]_<<LifeMap, runs, Unrest>>
<1>1. ~(faults > 0 \/ upsets > 0) /\ ~(faults > 0 \/ upsets > 0)'
  BY DEF Calm
<1>2. CASE LifeOf(b)' = LifeOf(b) /\ runs' = runs
  BY <1>2, LifeRests
<1>3. CASE ~(LifeOf(b)' = LifeOf(b) /\ runs' = runs)
  <2>1. Lives!Becomes(b, LifeOf(b), LifeOf(b)')
    <3>1. PICK x, y : LifeOf(b) = x /\ LifeOf(b)' = y
      OBVIOUS
    <3> QED
      BY <3>1, LifeTurns
  <2>2. \/ Lives!Submit(b) \/ Lives!Call(b) \/ Lives!Succeed(b)
        \/ Lives!Fail(b) \/ Lives!Retry(b) \/ Lives!Bury(b)
    BY <1>3, <2>1
    DEF Lived, Lives!Submit, Lives!Call, Lives!Succeed, Lives!Fail, Lives!Retry, Lives!Bury
  <2> QED
    BY <1>1, <2>2 DEF Lives!Undisturbed
<1> QED
  BY <1>2, <1>3

\* The stages of the jobs a worker does not have, before or after its step.
LEMMA OtherLife ==
  ASSUME NEW i \in Instances, NEW b,
         \A k \in Instances : k # i => worker'[k] = worker[k],
         worker[i].at \in {"running", "failed", "park"} => worker[i].copy.job = b,
         worker'[i].at \in {"running", "failed", "park"} => worker'[i].copy.job = b,
         NEW j, j # b, j \in done' <=> j \in done, j \in dead' <=> j \in dead,
         j \in added' <=> j \in added
  PROVE  LifeOf(j)' = LifeOf(j)
<1>1. AtStage(j, {"running"})' <=> AtStage(j, {"running"})
  BY OtherStage
<1>2. AtStage(j, {"failed", "park"})' <=> AtStage(j, {"failed", "park"})
  BY OtherStage
<1> QED
  BY <1>1, <1>2, LifeIs, LifeIsNext

\* A worker that runs nothing before or after its step turns no life.
LEMMA IdleLife ==
  ASSUME NEW i \in Instances,
         \A k \in Instances : k # i => worker'[k] = worker[k],
         worker[i].at \notin {"running", "failed", "park"},
         worker'[i].at \notin {"running", "failed", "park"},
         UNCHANGED <<done, dead, added>>, NEW j
  PROVE  LifeOf(j)' = LifeOf(j)
<1>1. AtStage(j, {"running"})' <=> AtStage(j, {"running"})
  BY OtherStage
<1>2. AtStage(j, {"failed", "park"})' <=> AtStage(j, {"failed", "park"})
  BY OtherStage
<1> QED
  BY <1>1, <1>2, LifeIs, LifeIsNext

\* A step that moves no worker turns the life of a job only by adding it.
LEMMA SameLife ==
  ASSUME UNCHANGED <<worker, done, dead>>, NEW j, j \in added' <=> j \in added
  PROVE  LifeOf(j)' = LifeOf(j)
<1>1. /\ AtStage(j, {"running"})' <=> AtStage(j, {"running"})
      /\ AtStage(j, {"failed", "park"})' <=> AtStage(j, {"failed", "park"})
  BY DEF AtStage
<1> QED
  BY <1>1, LifeIs, LifeIsNext

LEMMA AddLife ==
  ASSUME TypeOK, NEW b \in Jobs, Add(b), JobInv(b)
  PROVE  Lived(b) /\ \A j \in Jobs : j # b => LifeOf(j)' = LifeOf(j)
<1>1. b \notin added /\ added' = added \union {b} /\ UNCHANGED <<worker, done, dead, runs>>
  BY DEF Add
<1>2. ~Ended(b) /\ ~Held(b)
  BY <1>1 DEF JobInv, Placed
<1>3. ~AtStage(b, {"running"}) /\ ~AtStage(b, {"failed", "park"})
  BY <1>2 DEF AtStage, Held, TypeOK
<1>4. LifeOf(b) = "new"
  BY <1>1, <1>2, <1>3, LifeIs DEF Ended
<1>5. ~AtStage(b, {"running"})' /\ ~AtStage(b, {"failed", "park"})'
  BY <1>1, <1>3 DEF AtStage
<1>6. LifeOf(b)' = "waiting"
  BY <1>1, <1>2, <1>5, LifeIsNext DEF Ended
<1>7. \A j \in Jobs : j # b => LifeOf(j)' = LifeOf(j)
  BY <1>1, SameLife
<1> QED
  BY <1>1, <1>4, <1>6, <1>7 DEF Lived

\* A worker step turns the life of the job the worker has, and no other.
LEMMA WorkerLife ==
  ASSUME TypeOK, NEW i \in Instances, WorkerStep(i), ~Look(i),
         NEW b \in Jobs, b = worker[i].copy.job, JobInv(b)
  PROVE  Lived(b) /\ \A j \in Jobs : j # b => LifeOf(j)' = LifeOf(j)
<1> DEFINE w == worker[i].copy
<1>1. worker[i].at \notin {"down", "look"}
  BY DEF WorkerStep, Record, Run, Succeed, Fail, Forget, Settle, Park
<1>2. b = w.job /\ w \in Copy /\ w # None
  BY <1>1, HeldCopy
<1>3. \A k \in Instances : k # i => worker'[k] = worker[k]
  <2>1. ASSUME NEW c \in Jobs, Record(i, c) PROVE \A k \in Instances : k # i => worker'[k] = worker[k]
    BY <2>1 DEF TypeOK, Record, Run
  <2>2. CASE Succeed(i) \/ Fail(i) \/ Forget(i) \/ Park(i)
    BY <2>2 DEF TypeOK, Succeed, Fail, Forget, Settle, Park
  <2> QED
    BY <2>1, <2>2 DEF WorkerStep
<1>4. Takes(i, b) /\ JobInv(b)
  BY <1>2 DEF Takes
<1>5. /\ b \in added /\ (Ended(b) => worker[i].at = "won" /\ b \notin dead)
      /\ runs[b] = IF worker[i].at = "popped" THEN w.attempts ELSE w.attempts + 1
      /\ w.attempts \in 0 .. MaxAttempts - 1 /\ runs[b] \in 0 .. MaxAttempts
  <2>1. Placed(b)
    BY <1>4 DEF Takes, Held, Placed
  <2> QED
    BY <1>2, <1>4, <2>1 DEF JobInv, Gone, HeldExact, TypeOK, Copy
<1>6. /\ AtStage(b, {"running"}) <=> worker[i].at = "running"
      /\ AtStage(b, {"failed", "park"}) <=> worker[i].at \in {"failed", "park"}
      /\ AtStage(b, {"running"})' <=> worker'[i].at = "running" /\ worker'[i].copy.job = b
      /\ AtStage(b, {"failed", "park"})' <=>
           worker'[i].at \in {"failed", "park"} /\ worker'[i].copy.job = b
  <2>1. /\ AtStage(b, {"running"}) <=> worker[i].at \in {"running"}
        /\ AtStage(b, {"running"})' <=> worker'[i].at \in {"running"} /\ worker'[i].copy.job = b
    BY <1>3, <1>4, OwnStage
  <2>2. /\ AtStage(b, {"failed", "park"}) <=> worker[i].at \in {"failed", "park"}
        /\ AtStage(b, {"failed", "park"})' <=>
             worker'[i].at \in {"failed", "park"} /\ worker'[i].copy.job = b
    BY <1>3, <1>4, OwnStage
  <2> QED
    BY <2>1, <2>2
<1>7. added' = added
  BY DEF WorkerStep, Look, Record, Succeed, Fail, Forget, Park
<1> HIDE DEF w
<1>8. ASSUME NEW c \in Jobs, Record(i, c)
      PROVE  Lived(b) /\ \A j \in Jobs : j # b => LifeOf(j)' = LifeOf(j)
  <2>1. /\ worker[i].at = "popped" /\ worker'[i].at = "running" /\ worker'[i].copy.job = b
        /\ runs' = [runs EXCEPT ![c] = IF @ < MaxAttempts THEN @ + 1 ELSE @]
        /\ UNCHANGED <<done, dead>> /\ c = b
    BY <1>2, <1>8, GoesOn DEF Record, Run, Stage, w
  <2>2. LifeOf(b) = "waiting" /\ LifeOf(b)' = "running"
    BY <1>5, <1>6, <2>1, LifeIs, LifeIsNext DEF Ended
  <2>3. runs' = [runs EXCEPT ![b] = runs[b] + 1]
    <3>1. runs[b] < MaxAttempts
      BY <1>5, <2>1, JobQueueAssumption
    <3> QED
      BY <2>1, <3>1
  <2>4. \A j \in Jobs : j # b => LifeOf(j)' = LifeOf(j)
    BY <1>3, <1>7, <2>1, OtherLife
  <2> QED
    BY <2>2, <2>3, <2>4 DEF Lived
<1>9. CASE Succeed(i) \/ Fail(i)
  <2>1. /\ worker[i].at = "running" /\ worker'[i].at \in {"won", "failed"}
        /\ worker'[i].copy.job = b /\ UNCHANGED <<runs, dead>>
        /\ \/ worker'[i].at = "won" /\ done' = done \union {b}
           \/ worker'[i].at = "failed" /\ done' = done
    BY <1>2, <1>9, GoesOn DEF Succeed, Fail, Stage, w
  <2>2. LifeOf(b) = "running" /\ LifeOf(b)' \in {"done", "failed"}
    BY <1>5, <1>6, <2>1, LifeIs, LifeIsNext DEF Ended
  <2>3. \A j \in Jobs : j # b => LifeOf(j)' = LifeOf(j)
    BY <1>2, <1>3, <1>7, <2>1, OtherLife DEF w
  <2> QED
    BY <2>1, <2>2, <2>3 DEF Lived
<1>10. CASE Forget(i)
  <2>1. /\ UNCHANGED <<runs, done, dead>>
        /\ \/ worker[i].at = "won" /\ worker'[i].at = "look"
           \/ worker[i].at = "failed" /\ worker'[i].at = "park" /\ worker'[i].copy.job = b
    BY <1>2, <1>10, GoesOn DEF Forget, Settle, Idle, Stage, TypeOK, w
  <2>2. LifeOf(b)' = LifeOf(b)
    BY <1>6, <1>7, <2>1, LifeIs, LifeIsNext
  <2>3. \A j \in Jobs : j # b => LifeOf(j)' = LifeOf(j)
    BY <1>2, <1>3, <1>7, <2>1, OtherLife DEF w
  <2> QED
    BY <2>1, <2>2, <2>3 DEF Lived
<1>11. CASE Park(i)
  <2>1. worker[i].at = "park" /\ worker'[i].at = "look" /\ UNCHANGED <<runs, done>>
    BY <1>11 DEF Park, Idle, TypeOK
  <2>2. Tried(i).job = b /\ Tried(i).attempts = runs[b]
    BY <1>2, <1>5, <2>1 DEF Tried, w
  <2>3. \/ dead' = dead \union {b} /\ runs[b] >= MaxAttempts
        \/ dead' = dead /\ ~(runs[b] >= MaxAttempts)
    BY <1>11, <2>2 DEF Park, Exhausted
  <2>4. LifeOf(b) = "failed"
    BY <1>5, <1>6, <2>1, LifeIs DEF Ended
  <2>5. LifeOf(b)' = IF b \in dead' THEN "dead" ELSE "waiting"
    BY <1>5, <1>6, <1>7, <2>1, LifeIsNext DEF Ended
  <2>6. \A j \in Jobs : j # b => LifeOf(j)' = LifeOf(j)
    BY <1>2, <1>3, <1>7, <2>1, <2>3, OtherLife DEF w
  <2>7. b \notin dead
    BY <1>5, <2>1 DEF Ended
  <2>8. \/ b \in dead' /\ runs[b] = MaxAttempts
        \/ b \notin dead' /\ runs[b] < MaxAttempts
    BY <1>5, <2>3, <2>7, JobQueueAssumption
  <2> QED
    BY <2>1, <2>4, <2>5, <2>6, <2>8 DEF Lived
<1> QED
  BY <1>2, <1>8, <1>9, <1>10, <1>11 DEF WorkerStep, w

LEMMA LifeStep ==
  ASSUME TypeOK, AloneInv, [Next]_vars, DeadLetterExhausted'
  PROVE  [Lives!Undisturbed \/ Lives!Disturbed]_<<LifeMap, runs, Unrest>>
<1>1. CASE ~Calm'
  <2>1. (faults > 0 \/ upsets > 0)'
    BY <1>1, TypeStep DEF Calm, TypeOK
  <2>2. \A j \in Jobs : runs'[j] >= runs[j]
    BY RunsGrow, TypeStep DEF TypeOK
  <2>3. dead \subseteq dead'
    <3>1. ASSUME NEW i \in Instances, WorkerStep(i) PROVE dead \subseteq dead'
      BY <3>1 DEF WorkerStep, Look, Record, Succeed, Fail, Forget, Park
    <3>2. ASSUME NEW i \in Instances, Start(i) \/ PollerStep(i) \/ RecoveryStep(i)
          PROVE  dead \subseteq dead'
      BY <3>2 DEF Start, PollerStep, PollRead, PollPush, PollRemove, RecoveryStep, Requeue, DropEntry
    <3>3. ASSUME NEW i \in Instances, FaultStep(i) PROVE dead \subseteq dead'
      BY <3>3 DEF FaultStep, Crash, ForgetFails, ParkFails, PollFails, RequeueFails, RecordFails
    <3>4. ASSUME UNCHANGED vars \/ \E k \in Jobs : Add(k) \/ GrowStale(k) PROVE dead \subseteq dead'
      BY <3>4 DEF vars, Add, GrowStale
    <3> QED
      BY <3>1, <3>2, <3>3, <3>4 DEF Next
  <2>4. \A j \in Jobs : /\ LifeMap[j] = "dead" <=> j \in dead
                        /\ LifeMap'[j] = "dead" <=> j \in dead'
    BY LifeIs, LifeIsNext DEF LifeMap
  <2>5. \A j \in dead' : runs'[j] = MaxAttempts
    BY DEF DeadLetterExhausted
  <2> QED
    BY <2>1, <2>2, <2>3, <2>4, <2>5 DEF Lives!Disturbed, LifeMap
<1>2. CASE Calm'
  <2>1. Calm /\ Quiet /\ \A j \in Jobs : JobInv(j)
    BY <1>2, CalmBefore DEF AloneInv
  <2>2. ASSUME NEW b \in Jobs, Add(b)
        PROVE  [Lives!Undisturbed \/ Lives!Disturbed]_<<LifeMap, runs, Unrest>>
    BY <1>2, <2>1, <2>2, AddLife, LivesOn
  <2>3. ASSUME \A j \in Jobs : LifeOf(j)' = LifeOf(j), runs' = runs
        PROVE  [Lives!Undisturbed \/ Lives!Disturbed]_<<LifeMap, runs, Unrest>>
    BY <1>2, <2>1, <2>3, LifeRests
  <2>4. CASE UNCHANGED vars \/ \E i \in Instances : PollerStep(i)
    <3>1. UNCHANGED <<worker, done, dead, added, runs>>
      BY <2>4 DEF vars, PollerStep, PollRead, PollPush, PollRemove
    <3> QED
      BY <2>3, <3>1, SameLife
  <2>5. ASSUME NEW i \in Instances, Start(i) \/ Look(i)
        PROVE  [Lives!Undisturbed \/ Lives!Disturbed]_<<LifeMap, runs, Unrest>>
    <3>1. /\ worker[i].at \in {"down", "look"} /\ worker'[i].at \in {"look", "popped"}
          /\ UNCHANGED <<done, dead, added, runs>>
      BY <2>5 DEF Start, Look, Idle, TypeOK, Worker
    <3>2. \A k \in Instances : k # i => worker'[k] = worker[k]
      BY <2>5 DEF Start, Look, TypeOK
    <3>3. \A j \in Jobs : LifeOf(j)' = LifeOf(j)
      BY <3>1, <3>2, IdleLife
    <3> QED
      BY <2>3, <3>1, <3>3
  <2>6. ASSUME NEW i \in Instances, WorkerStep(i), ~Look(i)
        PROVE  [Lives!Undisturbed \/ Lives!Disturbed]_<<LifeMap, runs, Unrest>>
    <3>1. worker[i].at \notin {"down", "look"}
      BY <2>6 DEF WorkerStep, Record, Run, Succeed, Fail, Forget, Settle, Park
    <3>2. PICK b \in Jobs : b = worker[i].copy.job
      BY <3>1, HeldCopy
    <3>3. Lived(b) /\ \A j \in Jobs : j # b => LifeOf(j)' = LifeOf(j)
      BY <2>1, <2>6, <3>2, WorkerLife
    <3> QED
      BY <1>2, <2>1, <3>3, LivesOn
  <2> QED
    BY <1>2, <2>1, <2>2, <2>4, <2>5, <2>6, CalmSteps
<1> QED
  BY <1>1, <1>2

\* LivesAreKept - the queue implements JobLives: while nothing disturbs it each job
\* is called once at a time until it is done or has had its attempts, and never
\* again; once disturbed, it forgets no call and buries no job before its time.
THEOREM LivesAreKept == Spec => KeepsLives
<1>1. Init => Lives!LifeInit
  <2> SUFFICES ASSUME Init PROVE Lives!LifeInit
    OBVIOUS
  <2>1. \A j \in Jobs : LifeOf(j) = "new" /\ runs[j] = 0
    <3>1. \A j : ~AtStage(j, {"running"}) /\ ~AtStage(j, {"failed", "park"})
      BY DEF Init, AtStage, Down
    <3> QED
      BY <3>1, LifeIs DEF Init
  <2>2. runs = [j \in Jobs |-> 0] /\ ~(faults > 0 \/ upsets > 0)
    BY DEF Init
  <2> QED
    BY <2>1, <2>2 DEF Lives!LifeInit
<1>2. TypeOK /\ AloneInv /\ [Next]_vars /\ DeadLetterExhausted'
        => [Lives!Undisturbed \/ Lives!Disturbed]_<<LifeMap, runs, Unrest>>
  BY LifeStep
<1>3. [Lives!Undisturbed \/ Lives!Disturbed]_<<LifeMap, runs, Unrest>> <=>
        [Lives!Undisturbed \/ Lives!Disturbed]_<<[j \in Jobs |-> LifeOf(j)], runs, faults > 0 \/ upsets > 0>>
  BY DEF LifeMap, Unrest
<1> QED
  BY <1>1, <1>2, <1>3, AloneInvariant, QueueTypesCorrect, AttemptsAreUsed, PTL
  DEF Spec, KeepsLives, Lives!LifeSpec
=============================================================================
