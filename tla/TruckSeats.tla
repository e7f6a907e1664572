---------------------------- MODULE TruckSeats ----------------------------
(***************************************************************************)
(* What everybody who answers or ends an assignment owes to the truck      *)
(* requests of an order, with no rows, handlers or faults                  *)
(* (assignment.service.ts, confirmed-hold.service.ts,                      *)
(* hold-expiry-cleanup.service.ts, order-lifecycle-outbox.service.ts,      *)
(* queue.service.ts).  A request has one seat.  An assignment takes a free *)
(* seat, once, and counts as filled from then on; a seat passes from one   *)
(* assignment to another only by being given up in between; trucksFilled   *)
(* goes down by one at a time, and for no assignment twice.  It may fail   *)
(* to go down: a delivered trip keeps its place, and an expiry or a        *)
(* handler that dies leaves it.                                            *)
(*                                                                         *)
(* A request goes astray when a status update by id ends or revives an     *)
(* assignment of it, or the end of one is rolled back with the request     *)
(* open already.  It has no seat any longer; what is given and counted on  *)
(* it moves trucksFilled all the same.                                     *)
(***************************************************************************)
EXTENDS Integers

CONSTANTS Orders, Trucks, Assignments, OrderOf, None

VARIABLES
  seat,      \* [Trucks -> the live assignment of the truck request, or None]
  going,     \* the truck requests whose driver has accepted
  used,      \* the assignments there have been
  counted,   \* [Orders -> assignments still counted as filled]
  filled,    \* [Orders -> Nat]: trucksFilled
  astray     \* the truck requests that have gone astray

SeatInit ==
  /\ seat = [t \in Trucks |-> None]
  /\ going = {} /\ used = {}
  /\ counted = [o \in Orders |-> {}]
  /\ filled = [o \in Orders |-> 0]
  /\ astray = {}

Give(t, a) ==
  /\ seat[t] = None /\ t \notin astray /\ a \notin used
  /\ seat' = [seat EXCEPT ![t] = a]
  /\ used' = used \union {a}
  /\ counted' = [counted EXCEPT ![OrderOf[t]] = @ \union {a}]
  /\ filled' = [filled EXCEPT ![OrderOf[t]] = @ + 1]
  /\ UNCHANGED <<going, astray>>

AcceptSeat(t) ==
  /\ seat[t] # None /\ t \notin going
  /\ going' = going \union {t}
  /\ UNCHANGED <<seat, used, counted, filled, astray>>

\* Some seats, or none, are given up.
Vacate ==
  /\ \A t \in Trucks : seat'[t] \in {seat[t], None}
  /\ going' = {t \in going : seat'[t] # None}

\* Assignments that are counted no longer, with their place or without it; who
\* has a seat is counted.
Discount ==
  /\ \A o \in Orders :
       /\ counted'[o] \subseteq counted[o]
       /\ \/ filled'[o] = filled[o]
          \/ counted'[o] # counted[o] /\ filled'[o] = filled[o] - 1
  /\ \A t \in Trucks : seat'[t] # None => seat'[t] \in counted'[OrderOf[t]]

Leave == UNCHANGED <<used, astray>> /\ Vacate /\ Discount

Stray(t) ==
  /\ t \notin astray /\ astray' = astray \union {t}
  /\ Vacate /\ \A u \in Trucks : seat'[u] # seat[u] => u = t
  /\ Discount /\ \A o \in Orders : counted'[o] # counted[o] => o = OrderOf[t]
  /\ UNCHANGED <<used, filled>>

GiveAstray(t, a) ==
  /\ t \in astray /\ a \notin used
  /\ used' = used \union {a}
  /\ filled' = [filled EXCEPT ![OrderOf[t]] = @ + 1]
  /\ UNCHANGED <<seat, going, counted, astray>>

CountAstray(t) ==
  /\ t \in astray
  /\ filled' = [filled EXCEPT ![OrderOf[t]] = @ - 1]
  /\ UNCHANGED <<seat, going, used, counted, astray>>

SeatNext ==
  \/ Leave
  \/ \E t \in Trucks : AcceptSeat(t) \/ Stray(t) \/ CountAstray(t)
  \/ \E t \in Trucks, a \in Assignments : Give(t, a) \/ GiveAstray(t, a)

SeatSpec == SeatInit /\ [][SeatNext]_<<seat, going, used, counted, filled, astray>>
=============================================================================
