--------------------------- MODULE MCReleaseDrain ---------------------------
(* One trigger and two chains for TLC. *)
EXTENDS ReleaseDrain, TLC

CONSTANTS c1, c2

MCChains == {c1, c2}

Symmetry == Permutations(MCChains)

=============================================================================
