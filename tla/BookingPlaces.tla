--------------------------- MODULE BookingPlaces ---------------------------
(***************************************************************************)
(* What everybody who makes, answers or ends an assignment owes to the     *)
(* places of a booking, with no calls, row locks, vehicles or status       *)
(* (broadcast-accept.service.ts, assignment.service.ts,                    *)
(* booking.service.ts, queue.service.ts, tracking.service.ts).  A new      *)
(* assignment takes a place; it gives it back once, before it is declined; *)
(* a delivered one keeps it.  trucksFilled follows: one up, one down.      *)
(* Nobody answers for an assignment that was answered: a driver who has    *)
(* accepted does not decline, and what has ended stays so; the exception   *)
(* is a status update by id, which may end or revive any assignment.       *)
(*                                                                         *)
(* The places of a booking that has been closed may be forfeited.  After a *)
(* fault, a crash within an answer or a timeout that is not scheduled, the *)
(* count is no longer promised, because it commits apart from the answer,  *)
(* nor is it after such an update; the answers still are.                  *)
(***************************************************************************)
EXTENDS Naturals

CONSTANTS Assignments, Needed

VARIABLES
  asg,        \* [Assignments -> status]
  counted,    \* the assignments that have a place
  filled,     \* trucksFilled
  closed,     \* it has been closed once
  disturbed,
  overwrites  \* the status updates by id that ended or revived an assignment

\* What an assignment may become.
May == [none            |-> {"pending"},
        pending         |-> {"driver_accepted", "driver_declined", "cancelled"},
        driver_accepted |-> {"completed", "cancelled"},
        driver_declined |-> {}, cancelled |-> {}, completed |-> {}]

PlaceInit ==
  /\ asg = [a \in Assignments |-> "none"]
  /\ counted = {} /\ filled = 0
  /\ closed = FALSE /\ disturbed = FALSE /\ overwrites = 0

Becomes(a, s) == s \in May[asg[a]] /\ asg' = [asg EXCEPT ![a] = s]

Take(a) ==
  /\ Becomes(a, "pending")
  /\ counted' = counted \union {a}
  /\ filled' = IF filled < Needed THEN filled + 1 ELSE filled
  /\ UNCHANGED closed

\* The answer of a pending assignment takes its place away first.
Answered(a) ==
  /\ \/ Becomes(a, "driver_accepted") \/ Becomes(a, "completed")
     \/ asg[a] = "driver_accepted" /\ Becomes(a, "cancelled")
     \/ a \notin counted /\ \E s \in {"driver_declined", "cancelled"} : Becomes(a, s)
  /\ UNCHANGED <<counted, filled, closed>>

GiveBack(a) ==
  /\ a \in counted /\ asg[a] # "completed"
  /\ counted' = counted \ {a}
  /\ filled' = IF filled > 0 THEN filled - 1 ELSE 0
  /\ UNCHANGED <<asg, closed>>

Forfeit(a) == closed /\ counted' = counted \ {a} /\ UNCHANGED <<asg, filled, closed>>

Close ==
  /\ closed'
  /\ UNCHANGED filled
  /\ \/ UNCHANGED <<asg, counted>>
     \/ LET live == {a \in Assignments : asg[a] \in {"pending", "driver_accepted"}}
        IN  /\ asg' = [a \in Assignments |-> IF a \in live THEN "cancelled" ELSE asg[a]]
            /\ counted' = counted \ live

Undisturbed ==
  /\ ~disturbed' /\ overwrites = 0
  /\ \/ \E a \in Assignments : Take(a) \/ Answered(a) \/ GiveBack(a) \/ Forfeit(a)
     \/ Close
  /\ UNCHANGED <<disturbed, overwrites>>

Disturbed ==
  /\ disturbed' \/ overwrites > 0
  /\ closed => closed'
  /\ disturbed => disturbed'
  /\ \A a \in Assignments : asg'[a] \in {asg[a]} \union May[asg[a]]
  /\ UNCHANGED overwrites

\* Nobody counts up or down, or closes the booking, with it.
Overwrite(a) ==
  /\ overwrites' = overwrites + 1
  /\ \E s \in DOMAIN May \ {"none", "pending", asg[a]} : asg' = [asg EXCEPT ![a] = s]
  /\ UNCHANGED <<filled, closed, disturbed>>

PlaceNext == Undisturbed \/ Disturbed \/ \E a \in Assignments : Overwrite(a)

PlaceSpec == PlaceInit /\ [][PlaceNext]_<<asg, counted, filled, closed, disturbed, overwrites>>
=============================================================================
