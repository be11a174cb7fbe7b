----------------------------- MODULE MCConnPool -----------------------------
(* Small instances of ConnPool for TLC. *)
EXTENDS ConnPool, TLC

Symmetry == Permutations(Conns) \cup Permutations(Callers)
=============================================================================
