--------------------------- MODULE MCConnPoolUse ---------------------------
(* Small instances of ConnPoolUse for TLC. *)
EXTENDS ConnPoolUse, TLC

Symmetry == Permutations(Conns) \cup Permutations(Callers)
=============================================================================
