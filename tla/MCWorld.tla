------------------------------ MODULE MCWorld ------------------------------
(* Instances of WorldHistory for TLC. *)
EXTENDS WorldHistory, TLC

CONSTANTS p1, p2

TwoPeers == {p1, p2}
Symmetry == Permutations(TwoPeers)
=============================================================================
