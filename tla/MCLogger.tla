------------------------------ MODULE MCLogger ------------------------------
(* Small instances of Logger for TLC. *)
EXTENDS Logger, TLC

Symmetry == Permutations(Writers)
=============================================================================
