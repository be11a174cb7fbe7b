---------------------------- MODULE MCGateRequest ----------------------------
(* Small instances of GateRequest for TLC. *)
EXTENDS GateRequest, TLC
=============================================================================
