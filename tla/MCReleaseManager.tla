-------------------------- MODULE MCReleaseManager --------------------------
(* Two releases for TLC. *)
EXTENDS ReleaseManager, TLC

CONSTANTS a, b

MCReleases == {a, b}
Symmetry == Permutations(MCReleases)

=============================================================================
