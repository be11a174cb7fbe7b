------------------------------ MODULE NatsClient ------------------------------
(***************************************************************************)
(* The NATS client of package natsx (src/natsx/natsx.go).  Goroutines that *)
(* publish share its field conn without a lock.  One whose publish fails   *)
(* because the connection is closed makes a new one, stores it in conn,    *)
(* hands it to the application's connectedHandler and publishes again.     *)
(*                                                                         *)
(* The library reconnects by itself for a while and keeps its              *)
(* subscriptions: such a connection counts as open.  It closes a           *)
(* connection for good when that fails too often, or when told to.         *)
(* connectedHandler is one that subscribes on the connection it is given.  *)
(* Subscribe of the client itself is remembered by the connection alone.   *)
(*                                                                         *)
(* A definition that comes right before one it resembles (StoredForgotten  *)
(* before Stored) is the same code with a bug: no action uses it, and the  *)
(* properties are known to notice when it takes the other's place.         *)
(***************************************************************************)
EXTENDS Integers

CONSTANTS
  Publishers,
  MaxConn     \* bound: connections that are ever made, numbered from 1

ASSUME SomeConn == MaxConn \in Nat \ {0}

VARIABLES
  conn,        \* NatsClient.conn
  opened,      \* number of connections made so far
  closed,      \* those that the library has closed
  handlerSet,  \* connectedHandler is not nil
  subscribed,  \* connections on which connectedHandler has subscribed
  pc,          \* per publisher: where it is
  used,        \* per publisher: the value of conn it publishes on
  failed,      \* per publisher: the connection that was closed when it published
  fresh,       \* per publisher: the connection it has made
  overtaken,   \* connections replaced by a publisher that had used another
  unhandled    \* connections stored while there was no connectedHandler

library == <<opened, closed, subscribed>>
local   == <<used, failed, fresh>>
history == <<overtaken, unhandled>>
natsVars == <<conn, handlerSet, library, pc, local, history>>

NoConn == 0
Conns  == 1..opened
None   == [p \in Publishers |-> NoConn]

(* NewNatsClient: it connects before a handler can be set. *)
NatsInit ==
  /\ conn = 1 /\ opened = 1 /\ closed = {}
  /\ handlerSet = FALSE /\ subscribed = {}
  /\ pc = [p \in Publishers |-> "idle"]
  /\ used = None /\ failed = None /\ fresh = None
  /\ overtaken = {} /\ unhandled = {1}

Go(p, from, to) == pc[p] = from /\ pc' = [pc EXCEPT ![p] = to]

SetConnectedHandler ==
  /\ handlerSet' = TRUE
  /\ UNCHANGED <<conn, library, pc, local, history>>

-----------------------------------------------------------------------------
(* Publish, PublishMsg and PublishRequest *)

(* The value of the.conn, for the first and for the second publish. *)
Load(p) ==
  /\ Go(p, "idle", "publish") \/ Go(p, "again", "republish")
  /\ used' = [used EXCEPT ![p] = conn]
  /\ UNCHANGED <<conn, handlerSet, library, failed, fresh, history>>

(* It returns, with or without an error. *)
Return(p, from) ==
  /\ Go(p, from, "idle")
  /\ used'   = [used EXCEPT ![p] = NoConn]
  /\ failed' = [failed EXCEPT ![p] = NoConn]
  /\ fresh'  = [fresh EXCEPT ![p] = NoConn]
  /\ UNCHANGED <<conn, handlerSet, library, history>>

Published(p) == used[p] \notin closed /\ Return(p, "publish")

(* Published, or an error that is handed to the caller. *)
Republished(p) == Return(p, "republish")

(* The publish fails for another reason than a closed connection, such as  *)
(* a full buffer: TryReconnect returns nil.                                *)
OtherErrorReconnects == "connect"
OtherError           == "again"
FailsOpen(p) ==
  /\ used[p] \notin closed
  /\ Go(p, "publish", OtherError)
  /\ UNCHANGED <<conn, handlerSet, library, local, history>>

(* ErrConnectionClosed *)
FailsClosed(p) ==
  /\ used[p] \in closed
  /\ Go(p, "publish", "connect")
  /\ failed' = [failed EXCEPT ![p] = used[p]]
  /\ UNCHANGED <<conn, handlerSet, library, used, fresh, history>>

(* nats.Connect *)
Connect(p) ==
  /\ opened < MaxConn
  /\ Go(p, "connect", "store")
  /\ opened' = opened + 1
  /\ fresh'  = [fresh EXCEPT ![p] = opened']
  /\ UNCHANGED <<conn, handlerSet, closed, subscribed, used, failed, history>>

ConnectFails(p) == Return(p, "connect")

(* the.conn = conn, over whatever another publisher has put there; then    *)
(* the look at connectedHandler.                                           *)
StoredForgotten(p) == conn
Stored(p)          == fresh[p]

Store(p) ==
  /\ Go(p, "store", IF handlerSet THEN "handle" ELSE "again")
  /\ conn' = Stored(p)
  /\ overtaken' = IF conn = used[p] THEN overtaken ELSE overtaken \cup {conn}
  /\ unhandled' = IF handlerSet THEN unhandled ELSE unhandled \cup {fresh[p]}
  /\ UNCHANGED <<handlerSet, library, local>>

(* connectedHandler gets the connection that was made. *)
GivenReplaced(p) == used[p]
Given(p)         == fresh[p]

Handle(p) ==
  /\ Go(p, "handle", "again")
  /\ subscribed' = subscribed \cup ({Given(p)} \ closed)
  /\ UNCHANGED <<conn, handlerSet, opened, closed, local, history>>

(* The library gives up, or somebody calls Close. *)
Closes(c) ==
  /\ c \in Conns \ closed
  /\ closed' = closed \cup {c}
  /\ UNCHANGED <<conn, handlerSet, opened, subscribed, pc, local, history>>

-----------------------------------------------------------------------------
PublisherStep(p) ==
  \/ Load(p) \/ Published(p) \/ Republished(p) \/ FailsOpen(p) \/ FailsClosed(p)
  \/ ConnectFails(p) \/ Connect(p)
  \/ Store(p) \/ Handle(p)

NatsNext ==
  \/ SetConnectedHandler
  \/ \E p \in Publishers : PublisherStep(p)
  \/ \E c \in Conns : Closes(c)

NatsSpec == NatsInit /\ [][NatsNext]_natsVars

-----------------------------------------------------------------------------
(* Every variable is of its type; a connection is closed or stored only    *)
(* after it was made.                                                      *)
NatsTypeOK ==
  /\ opened \in 1..MaxConn /\ conn \in Conns
  /\ closed \subseteq Conns /\ subscribed \subseteq Conns
  /\ overtaken \subseteq Conns /\ unhandled \subseteq Conns
  /\ handlerSet \in BOOLEAN
  /\ pc \in [Publishers -> {"idle", "publish", "connect", "store", "handle", "again", "republish"}]
  /\ used \in [Publishers -> Conns \cup {NoConn}]
  /\ failed \in [Publishers -> Conns \cup {NoConn}]
  /\ fresh \in [Publishers -> Conns \cup {NoConn}]

(* An open connection that is not the client's any more, which nobody will *)
(* ever close, is left behind only by publishers that reconnect at the     *)
(* same time: what a single one replaces was closed (natsx.go:48, 105).    *)
Stray(c) == c \in Conns \ closed /\ c # conn /\ \A p \in Publishers : ~(pc[p] = "store" /\ fresh[p] = c)
StraysWereOvertaken == \A c \in Conns : Stray(c) => c \in overtaken

(* A publish that failed on a closed connection is never tried again on    *)
(* that one, whatever other publishers store meanwhile (natsx.go:74).      *)
RetriesElsewhere ==
  \A p \in Publishers : pc[p] = "republish" /\ failed[p] # NoConn => used[p] # failed[p]

(* Every connection of the client that was stored since the handler was    *)
(* set has the handler's subscriptions once Conn is through with it:       *)
(* reconnections at the same time do not lose them (natsx.go:48-51).       *)
HandlerResubscribes ==
  \/ conn \in closed \cup unhandled \cup subscribed
  \/ \E p \in Publishers : pc[p] = "handle" /\ fresh[p] = conn
=============================================================================
