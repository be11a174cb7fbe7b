--------------------------- MODULE MCClientCalls ---------------------------
(* Small instances of ClientCalls for TLC. *)
EXTENDS ClientCalls, TLC
=============================================================================
