------------------------------ MODULE MC_Client ------------------------------
(* Small instances of Client for TLC.                                      *)
EXTENDS Client, TLC

CONSTANTS r1, r2

MC_Reqs == {r1, r2}

\* One request: the liveness of a request depends on the others only through
\* the clock and the reaper, which are always enabled.
MC_OneReq == {r1}

\* Request ids are interchangeable model values.
MC_Symmetry == Permutations(MC_Reqs)

=============================================================================
