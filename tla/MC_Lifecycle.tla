---------------------------- MODULE MC_Lifecycle ----------------------------
(* Small instances of Lifecycle for TLC.                                   *)
EXTENDS Lifecycle, TLC

CONSTANTS w1, w2

MC_Workers == {w1, w2}

\* Workers are interchangeable.
MC_Symmetry == Permutations(MC_Workers)

=============================================================================
