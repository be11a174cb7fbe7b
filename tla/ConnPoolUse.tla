----------------------------- MODULE ConnPoolUse -----------------------------
(***************************************************************************)
(* ConnPool with the outcome of the calls: client.Invoke and the close of  *)
(* a stream (src/grpcclient/client.go) give the connection back with the   *)
(* error that their RPC ended in, or none.                                 *)
(***************************************************************************)
EXTENDS ConnPool

VARIABLE errored   \* open connections given back with an error

uvars == <<vars, errored>>

UInit == Init /\ errored = {}

(* Any other step of the pool; a connection's record goes when it is closed. *)
Ended ==
  /\ \/ \E p \in Callers : Begin(p) \/ GetStep(p) \/ CloseConn(p) \/ Release(p, FALSE)
     \/ \E c \in Conns : Expire(c)
  /\ errored' = errored \cap open'

(* release was called with the error of the RPC. *)
EndedInError(p) ==
  /\ Release(p, TRUE)
  /\ errored' = errored \cup {held[p]}

UNext == Ended \/ \E p \in Callers : EndedInError(p)

USpec == UInit /\ [][UNext]_uvars

-----------------------------------------------------------------------------
(* client.go:146 says of the release after a call that a connection with   *)
(* an error is closed: it is not given to a later call.                    *)
ErroredNotReused ==
  [][\A p \in Callers : held[p] = NoConn /\ held'[p] # NoConn
                          => held'[p] \notin errored]_uvars
=============================================================================
