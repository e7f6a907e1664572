---------------------------- MODULE MCPhasedHold ----------------------------
(* Instances of PhasedHold.  The order lives long enough for one full flex   *)
(* phase and cuts the later ones short; two workers are interchangeable.     *)
EXTENDS PhasedHold, TLC

MCOrderLives == {4}
Symmetric == Permutations(Workers)
=============================================================================
