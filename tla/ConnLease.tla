------------------------------ MODULE ConnLease ------------------------------
(***************************************************************************)
(* What the connection pool promises to its callers, whatever it keeps     *)
(* and however it looks for a connection: a call gets a live connection    *)
(* that it may share with those who have it, keeps it until it gives it    *)
(* back, and a connection is closed only when nobody has it.               *)
(***************************************************************************)
CONSTANTS
  Conns, Callers,
  Groups   \* the sets of calls that may share a connection

VARIABLES
  live,    \* the open connections
  lease    \* for each connection, the calls that have it

vars == <<live, lease>>

Init == live = {} /\ lease = [c \in Conns |-> {}]

HasNone(p) == \A c \in Conns : p \notin lease[c]

(* A new connection for p. *)
Open(p, c) ==
  /\ HasNone(p) /\ c \notin live /\ {p} \in Groups
  /\ live'  = live \cup {c}
  /\ lease' = [lease EXCEPT ![c] = {p}]

(* A connection that is open already. *)
Share(p, c) ==
  /\ HasNone(p) /\ c \in live /\ lease[c] \cup {p} \in Groups
  /\ lease' = [lease EXCEPT ![c] = @ \cup {p}]
  /\ UNCHANGED live

Return(p, c) ==
  /\ p \in lease[c]
  /\ lease' = [lease EXCEPT ![c] = @ \ {p}]
  /\ UNCHANGED live

Close(c) ==
  /\ c \in live /\ lease[c] = {}
  /\ live' = live \ {c}
  /\ UNCHANGED lease

Next == \E c \in Conns : \/ Close(c)
                         \/ \E p \in Callers : Open(p, c) \/ Share(p, c) \/ Return(p, c)

Spec == Init /\ [][Next]_vars
=============================================================================
