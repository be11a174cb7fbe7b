--------------------------- MODULE MCStreamSession ---------------------------
(* Small instances of StreamSession for TLC. *)
EXTENDS StreamSession, TLC
=============================================================================
