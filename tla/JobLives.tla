----------------------------- MODULE JobLives -----------------------------
(***************************************************************************)
(* What the job queue promises about a job, with no lists, instances or    *)
(* commands (class RedisQueue of queue.service.ts).  Its processor is      *)
(* called once at a time; a failed call is repeated until the job has had  *)
(* its attempts; a job that is done or dead is not called again.           *)
(*                                                                         *)
(* Delivery is at least once: when a crash, a failed command, overlapping  *)
(* polls or an outdated entry disturb the queue there may be two copies of *)
(* a job from then on.  What is still promised then is that calls are not  *)
(* forgotten and that only a job that has had its attempts is dead.        *)
(***************************************************************************)
EXTENDS Naturals

CONSTANTS Jobs, MaxAttempts

VARIABLES
  life,       \* [Jobs -> "new", "waiting", "running", "failed", "done" or "dead"]
  calls,      \* [Jobs -> 0 .. MaxAttempts]: calls of the processor
  disturbed

LifeInit ==
  /\ life = [j \in Jobs |-> "new"]
  /\ calls = [j \in Jobs |-> 0]
  /\ disturbed = FALSE

Becomes(j, before, after) ==
  /\ life[j] = before
  /\ life' = [life EXCEPT ![j] = after]

Submit(j)  == Becomes(j, "new", "waiting") /\ UNCHANGED calls
Call(j)    == Becomes(j, "waiting", "running") /\ calls' = [calls EXCEPT ![j] = @ + 1]
Succeed(j) == Becomes(j, "running", "done") /\ UNCHANGED calls
Fail(j)    == Becomes(j, "running", "failed") /\ UNCHANGED calls
Retry(j)   == calls[j] < MaxAttempts /\ Becomes(j, "failed", "waiting") /\ UNCHANGED calls
Bury(j)    == calls[j] = MaxAttempts /\ Becomes(j, "failed", "dead") /\ UNCHANGED calls

Undisturbed ==
  /\ ~disturbed /\ ~disturbed'
  /\ \E j \in Jobs : Submit(j) \/ Call(j) \/ Succeed(j) \/ Fail(j) \/ Retry(j) \/ Bury(j)

Disturbed ==
  /\ disturbed'
  /\ \A j \in Jobs : /\ calls'[j] >= calls[j]
                     /\ life[j] = "dead" => life'[j] = "dead"
                     /\ life'[j] = "dead" => calls'[j] = MaxAttempts

LifeSpec == LifeInit /\ [][Undisturbed \/ Disturbed]_<<life, calls, disturbed>>
=============================================================================
