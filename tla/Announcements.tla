--------------------------- MODULE Announcements ---------------------------
(***************************************************************************)
(* What the lifecycle outbox promises about the announcement of an order's *)
(* cancellation, with no rows, passes, claims or faults.  It falls due     *)
(* once, with the cancellation; while it is due it is sent again and again *)
(* but at most maxAttempts times; it ends for good, delivered after at     *)
(* least one sending or given up after the last one                        *)
(* (order-lifecycle-outbox.service.ts).                                    *)
(***************************************************************************)
EXTENDS Naturals

CONSTANTS Orders, MaxAttempts

VARIABLES
  notice,   \* [Orders -> "none", "due", "dispatched" or "failed"]
  sent      \* [Orders -> Nat]: how often it has been sent

NoticeInit ==
  /\ notice = [o \in Orders |-> "none"]
  /\ sent = [o \in Orders |-> 0]

Turn(o, before, after) ==
  /\ notice[o] = before
  /\ notice' = [notice EXCEPT ![o] = after]
  /\ UNCHANGED sent

FallDue(o) == Turn(o, "none", "due")
Deliver(o) == sent[o] > 0 /\ Turn(o, "due", "dispatched")
GiveUp(o)  == sent[o] = MaxAttempts /\ Turn(o, "due", "failed")

Send(o) ==
  /\ notice[o] = "due" /\ sent[o] < MaxAttempts
  /\ sent' = [sent EXCEPT ![o] = @ + 1]
  /\ UNCHANGED notice

NoticeNext == \E o \in Orders : FallDue(o) \/ Deliver(o) \/ GiveUp(o) \/ Send(o)

NoticeSpec == NoticeInit /\ [][NoticeNext]_<<notice, sent>>
=============================================================================
