----------------------------- MODULE HoldTimes -----------------------------
(***************************************************************************)
(* What a two-phase hold promises about its times, with no rows, jobs,     *)
(* requests, sweeps or faults (flex-hold.service.ts,                       *)
(* confirmed-hold.service.ts, hold-expiry-cleanup.service.ts,              *)
(* hold-reconciliation.service.ts, truck-hold.service.ts).  The first      *)
(* phase has a deadline between the end of its base period, which the end  *)
(* of the order cuts short, and a limit, and may be given another one; the *)
(* second is entered once, for a fixed time.                               *)
(* A hold may be given up whenever somebody wants to, but is expired only  *)
(* when it is due.  It may be confirmed although it has ended: only the    *)
(* phase decides that.                                                     *)
(***************************************************************************)
EXTENDS Naturals

CONSTANTS Holds, ConfirmedFor

VARIABLES
  now,
  stage,      \* [Holds -> "none", "flex" or "confirmed"]
  base,       \* [Holds -> Nat]: the end of the base period
  limit,      \* [Holds -> Nat]: the latest end of the first phase
  deadline,   \* [Holds -> Nat]: the end of the phase the hold is in
  end         \* [Holds -> "open", "given up" or "expired"]

TimeInit ==
  /\ now = 0
  /\ stage = [h \in Holds |-> "none"]
  /\ base = [h \in Holds |-> 0] /\ limit = [h \in Holds |-> 0]
  /\ deadline = [h \in Holds |-> 0]
  /\ end = [h \in Holds |-> "open"]

InBounds(h) == base[h] <= deadline[h] /\ deadline[h] <= limit[h]

Create(h) ==
  /\ stage[h] = "none"
  /\ stage' = [stage EXCEPT ![h] = "flex"]
  /\ base' = [base EXCEPT ![h] = base'[h]]
  /\ limit' = [limit EXCEPT ![h] = limit'[h]]
  /\ deadline' = [deadline EXCEPT ![h] = deadline'[h]]
  /\ InBounds(h)'
  /\ UNCHANGED <<now, end>>

Extend(h) ==
  /\ stage[h] = "flex"
  /\ deadline' = [deadline EXCEPT ![h] = deadline'[h]]
  /\ InBounds(h)'
  /\ UNCHANGED <<now, stage, base, limit, end>>

Confirm(h) ==
  /\ stage[h] = "flex"
  /\ stage' = [stage EXCEPT ![h] = "confirmed"]
  /\ deadline' = [deadline EXCEPT ![h] = now + ConfirmedFor]
  /\ end' = [end EXCEPT ![h] = "open"]
  /\ UNCHANGED <<now, base, limit>>

GiveUp(S) ==
  /\ \A h \in S : stage[h] # "none"
  /\ end' = [h \in Holds |-> IF h \in S THEN "given up" ELSE end[h]]
  /\ UNCHANGED <<now, stage, base, limit, deadline>>

Due(h) == now >= base[h] \/ (stage[h] = "confirmed" /\ now >= deadline[h])

Expire(h) ==
  /\ stage[h] # "none" /\ Due(h)
  /\ end' = [end EXCEPT ![h] = "expired"]
  /\ UNCHANGED <<now, stage, base, limit, deadline>>

Pass == now' > now /\ UNCHANGED <<stage, base, limit, deadline, end>>

TimeNext ==
  \/ \E h \in Holds : Create(h) \/ Extend(h) \/ Confirm(h) \/ Expire(h)
  \/ \E S \in SUBSET Holds : GiveUp(S)
  \/ Pass

TimeSpec == TimeInit /\ [][TimeNext]_<<now, stage, base, limit, deadline, end>>
=============================================================================
