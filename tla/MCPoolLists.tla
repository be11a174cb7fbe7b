----------------------------- MODULE MCPoolLists -----------------------------
(* A small instance of PoolLists for TLC: three connections are kept, so    *)
(* that one in the middle of the list can be removed or moved.             *)
EXTENDS PoolLists
=============================================================================
