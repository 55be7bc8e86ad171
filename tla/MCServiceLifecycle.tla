------------------------- MODULE MCServiceLifecycle -------------------------
(* Values of the constants of ServiceLifecycle for TLC. *)
EXTENDS ServiceLifecycle, TLC

CONSTANTS p1, p2, p3
MCPids == {p1, p2, p3}
WebOn == {TRUE}
Symmetry == Permutations(MCPids)
=============================================================================
