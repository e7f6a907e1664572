---------------------------- MODULE TruckClaims ----------------------------
(***************************************************************************)
(* What a hold promises about truck requests, with no ledger, no requests  *)
(* in flight and no faults: an open truck is held by one transporter at a  *)
(* time, only the holder books it, a booking is never taken back, and a    *)
(* truck the order closed is never open again.  One step moves any number  *)
(* of trucks of one transporter ("transition exactly N rows from searching *)
(* -> held with owner preconditions", truck-hold.service.ts).              *)
(***************************************************************************)
CONSTANTS Trucks, Transporters, None

VARIABLE claim    \* [Trucks -> [state, by]]

Claim == [state: {"open", "held", "booked", "closed"},
          by: Transporters \union {None}]

InState(S, s, t) == \A x \in S : claim[x] = [state |-> s, by |-> t]

Become(S, s, t) ==
  claim' = [x \in Trucks |-> IF x \in S THEN [state |-> s, by |-> t] ELSE claim[x]]

ClaimInit == claim = [x \in Trucks |-> [state |-> "open", by |-> None]]

Hold(t, S)     == InState(S, "open", None) /\ Become(S, "held", t)
Book(t, S)     == InState(S, "held", t) /\ Become(S, "booked", t)
GiveBack(t, S) == InState(S, "held", t) /\ Become(S, "open", None)

\* The order ends: what is open or held is closed, whoever held it.
Close(S) ==
  /\ \A x \in S : claim[x].state \in {"open", "held"}
  /\ Become(S, "closed", None)

ClaimNext ==
  \E S \in SUBSET Trucks :
    \/ \E t \in Transporters : Hold(t, S) \/ Book(t, S) \/ GiveBack(t, S)
    \/ Close(S)

ClaimSpec == ClaimInit /\ [][ClaimNext]_claim

=============================================================================
