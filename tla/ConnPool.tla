------------------------------ MODULE ConnPool ------------------------------
(***************************************************************************)
(* The connection pool of package grpcclient (src/grpcclient/pool.go).     *)
(*                                                                         *)
(* A client shares a few gRPC connections between its concurrent calls.    *)
(* Every call takes a connection with getConn, uses it for one request or  *)
(* one stream, and gives it back with release.  The pool keeps two lists:  *)
(* head (connections worth looking at) and busy (connections found with no *)
(* stream to spare), and two counters of what the lists hold.              *)
(*                                                                         *)
(* getConn holds the mutex while it walks the head list, so the walk is    *)
(* one step per connection; it dials outside of the mutex and takes it     *)
(* again to add the new connection.  release is one critical section, and  *)
(* closes a connection it drops only after it unlocked.                    *)
(*                                                                         *)
(* Abstractions.  A list is the set of its connections, and the walk       *)
(* visits them in any order: PoolLists has the pointers.  Time is the set  *)
(* of the connections older than the ttl.  Connections are identities that *)
(* may be dialled again once they are closed and nobody refers to them.    *)
(*                                                                         *)
(* A definition that comes right before one it resembles (HasRoomForOneMore*)
(* before HasRoom) is the same code with a bug: no action uses it, and the *)
(* properties are known to notice when it takes the place of the original. *)
(***************************************************************************)
EXTENDS Integers, FiniteSets

CONSTANTS
  Conns,          \* identities of connections, a bound on those open at once
  Callers,        \* the goroutines that call getConn and release
  Size,           \* newPool's arguments: how many connections are kept
  MaxStreamsArg,  \*   how many calls may share one
  MaxIdleArg,     \*   how many may stay without a call
  NoConn, NoCaller

ASSUME ConnsFinite   == IsFiniteSet(Conns)
ASSUME CallersFinite == IsFiniteSet(Callers)
ASSUME SizeInt       == Size \in Int
ASSUME ArgsInt       == MaxStreamsArg \in Int /\ MaxIdleArg \in Int
ASSUME NoneOutside   == NoConn \notin Conns /\ NoCaller \notin Callers

VARIABLES
  head,     \* connections on the head list
  busy,     \* connections on the busy list
  count,    \* streamsPool.count
  idle,     \* streamsPool.idle
  streams,  \* poolConn.streams of each connection
  open,     \* dialled and not closed
  aged,     \* open and created more than ttl ago
  lock,     \* holder of the pool's mutex
  todo,     \* connections the walk of the lock holder has still to visit
  now,      \* per caller: what was older than ttl when it read the clock
  pc,       \* per caller: where it is
  held      \* per caller: the connection it has

vars == <<head, busy, count, idle, streams, open, aged, lock, todo, now, pc, held>>

-----------------------------------------------------------------------------
(* newPool corrects two of its arguments. *)

maxStreams == IF MaxStreamsArg <= 0 THEN 1 ELSE MaxStreamsArg
maxIdle    == IF MaxIdleArg < 0 THEN 0 ELSE MaxIdleArg

Pooled == head \cup busy          \* the connections with in = true

Unused == {c \in Pooled : streams[c] = 0}

(* The calls that have connection c to use. *)
Users(c) == {p \in Callers : held[p] = c /\ pc[p] \in {"add", "using"}}

(* What ClientConn.GetState may answer, with Ready standing for Idle too. *)
States(c) == IF c \in open THEN {"Ready", "Connecting", "TransientFailure"}
                           ELSE {"Shutdown"}

(* What is left of the walk after c. *)
Rest(c) == todo \ {c}

InUseIgnored(c) == FALSE
InUse(c)        == streams[c] # 0

IsFullOneMore(c) == streams[c] > maxStreams
IsFull(c)        == streams[c] >= maxStreams

(* The walk passes over a connection that failed or outlived its ttl. *)
Unfit(p, c, s) == s \in {"TransientFailure", "Shutdown"} \/ c \in now[p]

HasRoomForOneMore == count <= Size
HasRoom           == count < Size

(* A connection taken while nobody uses it is idle no more. *)
IdleAfterTake(c) == IF streams[c] = 0 THEN idle - 1 ELSE idle

(* The connections release does not keep once their last call returned. *)
Discards(c, err) == err \/ idle >= maxIdle \/ c \in aged

-----------------------------------------------------------------------------
Init ==
  /\ head = {} /\ busy = {} /\ count = 0 /\ idle = 0
  /\ streams = [c \in Conns |-> 0]
  /\ open = {} /\ aged = {}
  /\ lock = NoCaller /\ todo = {}
  /\ now  = [p \in Callers |-> {}]
  /\ pc   = [p \in Callers |-> "idle"]
  /\ held = [p \in Callers |-> NoConn]

(* ClientConn.Close: nothing refers to the age of c any more. *)
Close(c) ==
  /\ open' = open \ {c}
  /\ aged' = aged \ {c}
  /\ now'  = [p \in Callers |-> now[p] \ {c}]

(* getConn reads the clock before it takes the mutex. *)
Begin(p) ==
  /\ pc[p] = "idle"
  /\ pc'  = [pc EXCEPT ![p] = "get"]
  /\ now' = [now EXCEPT ![p] = aged]
  /\ UNCHANGED <<head, busy, count, idle, streams, open, aged, lock, todo, held>>

Lock(p) ==
  /\ pc[p] = "get" /\ lock = NoCaller
  /\ lock' = p
  /\ todo' = head
  /\ pc'   = [pc EXCEPT ![p] = "scan"]
  /\ UNCHANGED <<head, busy, count, idle, streams, open, aged, now, held>>

(* The walk leaves c where it is: it is connecting, or unfit but in use. *)
Skip(p, c, s) ==
  /\ s = "Connecting" \/ (Unfit(p, c, s) /\ InUse(c))
  /\ todo' = Rest(c)
  /\ UNCHANGED <<head, busy, count, idle, streams, open, aged, lock, now, pc, held>>

(* It removes and closes an unfit connection that nobody uses. *)
Evict(p, c, s) ==
  /\ s # "Connecting" /\ Unfit(p, c, s) /\ ~InUse(c)
  /\ head'  = head \ {c}
  /\ count' = count - 1
  /\ idle'  = idle - 1
  /\ todo'  = Rest(c)
  /\ Close(c)
  /\ UNCHANGED <<busy, streams, lock, pc, held>>

(* It moves a connection with no stream to spare to the busy list. *)
ParkBusy(p, c, s) ==
  /\ s = "Ready" /\ ~Unfit(p, c, s) /\ IsFull(c)
  /\ head' = head \ {c}
  /\ busy' = busy \cup {c}
  /\ todo' = Rest(c)
  /\ UNCHANGED <<count, idle, streams, open, aged, lock, now, pc, held>>

(* It takes the first good connection and unlocks. *)
Take(p, c, s) ==
  /\ s = "Ready" /\ ~Unfit(p, c, s) /\ ~IsFull(c)
  /\ idle'    = IdleAfterTake(c)
  /\ streams' = [streams EXCEPT ![c] = @ + 1]
  /\ lock' = NoCaller
  /\ todo' = {}
  /\ now'  = [now EXCEPT ![p] = {}]
  /\ pc'   = [pc EXCEPT ![p] = "using"]
  /\ held' = [held EXCEPT ![p] = c]
  /\ UNCHANGED <<head, busy, count, open, aged>>

Visit(p) ==
  /\ pc[p] = "scan"
  /\ \E c \in todo : \E s \in States(c) :
       \/ Skip(p, c, s)
       \/ Evict(p, c, s)
       \/ ParkBusy(p, c, s)
       \/ Take(p, c, s)

(* The walk found nothing: unlock, and go and dial. *)
ScanEnd(p) ==
  /\ pc[p] = "scan" /\ todo = {}
  /\ lock' = NoCaller
  /\ now'  = [now EXCEPT ![p] = {}]
  /\ pc'   = [pc EXCEPT ![p] = "dial"]
  /\ UNCHANGED <<head, busy, count, idle, streams, open, aged, todo, held>>

(* grpc.Dial gives a connection that counts its caller as first stream. *)
Dial(p) ==
  /\ pc[p] = "dial"
  /\ \E c \in Conns \ (open \cup Pooled) :
       /\ \A q \in Callers : held[q] # c
       /\ open'    = open \cup {c}
       /\ streams' = [streams EXCEPT ![c] = 1]
       /\ held'    = [held EXCEPT ![p] = c]
  /\ pc' = [pc EXCEPT ![p] = "add"]
  /\ UNCHANGED <<head, busy, count, idle, aged, lock, todo, now>>

DialFails(p) ==
  /\ pc[p] = "dial"
  /\ pc' = [pc EXCEPT ![p] = "idle"]
  /\ UNCHANGED <<head, busy, count, idle, streams, open, aged, lock, todo, now, held>>

(* The new connection is pooled if there is room, and used in any case. *)
AddNew(p) ==
  /\ pc[p] = "add" /\ lock = NoCaller
  /\ head'  = IF HasRoom THEN head \cup {held[p]} ELSE head
  /\ count' = IF HasRoom THEN count + 1 ELSE count
  /\ pc'    = [pc EXCEPT ![p] = "using"]
  /\ UNCHANGED <<busy, idle, streams, open, aged, lock, todo, now, held>>

-----------------------------------------------------------------------------
(* release.  Its outcomes share their first half: a connection that is not *)
(* pooled joins the head list if there is room, and one that was full goes *)
(* to the front of the head list, from whichever list it is on.            *)

Joins(c) == c \notin Pooled /\ HasRoom

HeadAfterUnlisted(c) == IF c \in Pooled /\ IsFull(c) THEN head \cup {c} ELSE head
HeadAfter(c) == IF Joins(c) \/ (c \in Pooled /\ IsFull(c)) THEN head \cup {c} ELSE head

BusyAfter(c) == IF IsFull(c) THEN busy \ {c} ELSE busy

CountAfter(c) == IF Joins(c) THEN count + 1 ELSE count

(* The mutex is free and p gives back c, with or without an error. *)
Releasing(p, c) == pc[p] = "using" /\ lock = NoCaller /\ held[p] = c

(* Not pooled and no room: unlock and close. *)
Reject(p, c) ==
  /\ Releasing(p, c)
  /\ c \notin Pooled /\ ~HasRoom
  /\ pc' = [pc EXCEPT ![p] = "closing"]
  /\ UNCHANGED <<head, busy, count, idle, streams, open, aged, lock, todo, now, held>>

(* Other calls still use c. *)
Return(p, c) ==
  /\ Releasing(p, c)
  /\ c \in Pooled \/ HasRoom
  /\ streams[c] # 1
  /\ head'    = HeadAfter(c)
  /\ busy'    = BusyAfter(c)
  /\ count'   = CountAfter(c)
  /\ streams' = [streams EXCEPT ![c] = @ - 1]
  /\ pc'      = [pc EXCEPT ![p] = "idle"]
  /\ held'    = [held EXCEPT ![p] = NoConn]
  /\ UNCHANGED <<idle, open, aged, lock, todo, now>>

(* p was the last user and c stays, without a call. *)
Keep(p, c, err) ==
  /\ Releasing(p, c)
  /\ c \in Pooled \/ HasRoom
  /\ streams[c] = 1 /\ ~Discards(c, err)
  /\ head'    = HeadAfter(c)
  /\ busy'    = BusyAfter(c)
  /\ count'   = CountAfter(c)
  /\ idle'    = idle + 1
  /\ streams' = [streams EXCEPT ![c] = 0]
  /\ pc'      = [pc EXCEPT ![p] = "idle"]
  /\ held'    = [held EXCEPT ![p] = NoConn]
  /\ UNCHANGED <<open, aged, lock, todo, now>>

(* p was the last user and c goes: unlock, then close. *)
Discard(p, c, err) ==
  /\ Releasing(p, c)
  /\ c \in Pooled \/ HasRoom
  /\ streams[c] = 1 /\ Discards(c, err)
  /\ head'    = HeadAfter(c) \ {c}
  /\ busy'    = BusyAfter(c) \ {c}
  /\ count'   = CountAfter(c) - 1
  /\ streams' = [streams EXCEPT ![c] = 0]
  /\ pc'      = [pc EXCEPT ![p] = "closing"]
  /\ UNCHANGED <<idle, open, aged, lock, todo, now, held>>

Release(p, err) ==
  \E c \in Conns :
    \/ Reject(p, c)
    \/ Return(p, c)
    \/ Keep(p, c, err)
    \/ Discard(p, c, err)

(* The ClientConn.Close after release's unlock. *)
CloseConn(p) ==
  /\ pc[p] = "closing"
  /\ Close(held[p])
  /\ pc'   = [pc EXCEPT ![p] = "idle"]
  /\ held' = [held EXCEPT ![p] = NoConn]
  /\ UNCHANGED <<head, busy, count, idle, streams, lock, todo>>

(* Time passes: c is now older than the ttl. *)
Expire(c) ==
  /\ c \in open \ aged
  /\ aged' = aged \cup {c}
  /\ UNCHANGED <<head, busy, count, idle, streams, open, lock, todo, now, pc, held>>

-----------------------------------------------------------------------------
GetStep(p) == \/ Lock(p) \/ Visit(p) \/ ScanEnd(p)
              \/ Dial(p) \/ DialFails(p) \/ AddNew(p)

Next == \/ \E p \in Callers : \/ Begin(p) \/ GetStep(p) \/ CloseConn(p)
                              \/ \E err \in BOOLEAN : Release(p, err)
        \/ \E c \in Conns : Expire(c)

Spec == Init /\ [][Next]_vars

-----------------------------------------------------------------------------
(* Every variable is of its type; the two counters never go negative.      *)
TypeOK ==
  /\ head \subseteq Conns /\ busy \subseteq Conns
  /\ count \in Nat /\ idle \in Nat
  /\ streams \in [Conns -> Nat]
  /\ open \subseteq Conns /\ aged \subseteq open
  /\ lock \in Callers \cup {NoCaller}
  /\ todo \subseteq Conns
  /\ now \in [Callers -> SUBSET open]
  /\ pc \in [Callers -> {"idle", "get", "scan", "dial", "add", "using", "closing"}]
  /\ held \in [Callers -> Conns \cup {NoConn}]

(* The counters tell the truth, though they are adjusted in a dozen places *)
(* and never recomputed: count is the length of the two lists, idle the    *)
(* number of listed connections without a call, a connection's streams the *)
(* number of the calls that have it; count and idle stay within the limits *)
(* that newPool was given; and a connection on the busy list, which        *)
(* getConn never reads, has no stream to spare (pool.go:67-216).           *)
CountExact   == count = Cardinality(Pooled)
IdleExact    == idle = Cardinality(Unused)
StreamsExact == \A c \in Pooled : streams[c] = Cardinality(Users(c))
LimitsHeld   == count <= Size \/ count = 0
IdleLimit    == idle <= maxIdle

CountersOK ==
  /\ CountExact /\ IdleExact /\ StreamsExact
  /\ \A c \in Pooled : streams[c] <= maxStreams
  /\ \A c \in busy : streams[c] = maxStreams
  /\ LimitsHeld /\ IdleLimit

(* No more than maxStreams calls share a connection (pool.go:117).         *)
Capacity == \A c \in Conns : Cardinality(Users(c)) <= maxStreams

(* A call never has a connection that another one closed.                  *)
NoUseAfterClose == \A p \in Callers : held[p] # NoConn => held[p] \in open

(* An open connection is on a list or in a call's hands: none is leaked,   *)
(* and no listed connection is closed.                                     *)
NoLeak == /\ \A c \in open : c \in Pooled \/ \E p \in Callers : held[p] = c
          /\ Pooled \subseteq open

-----------------------------------------------------------------------------
(* The inductive invariant behind the above: what the code keeps true      *)
(* between any two of its steps.                                           *)

(* The lists are disjoint, and only the lock holder is in the walk.        *)
ListsOK ==
  /\ head \cap busy = {}
  /\ Pooled \subseteq open
  /\ todo \subseteq head
  /\ lock = NoCaller => todo = {}
  /\ \A p \in Callers : lock = p <=> pc[p] = "scan"

(* A connection outside of the lists belongs to one call alone.            *)
HoldersOK ==
  /\ \A p \in Callers : held[p] = NoConn <=> pc[p] \in {"idle", "get", "scan", "dial"}
  /\ \A p \in Callers : pc[p] \in {"add", "closing"} => held[p] \notin Pooled
  /\ \A p, q \in Callers : p # q /\ held[p] = held[q] /\ held[p] # NoConn
                              => held[p] \in Pooled
  /\ \A p \in Callers : pc[p] \in {"add", "using"} /\ held[p] \notin Pooled
                              => streams[held[p]] = 1

(* Together with the properties above they are inductive.                  *)
IInv == TypeOK /\ ListsOK /\ HoldersOK /\ NoUseAfterClose /\ CountersOK /\ NoLeak

-----------------------------------------------------------------------------
(* The pool implements ConnLease: the live connections are the open ones,  *)
(* a call's lease ends when release decides, before any close, and up to   *)
(* maxStreams calls may share (pool.go:67-186).                            *)
Groups == {S \in SUBSET Callers : Cardinality(S) <= maxStreams}

Lease == INSTANCE ConnLease WITH
  live  <- open,
  lease <- [c \in Conns |-> Users(c)]

ImplementsLease == Lease!Spec

(* Every call of getConn returns, however the others use the pool.         *)
GetReturns == \A p \in Callers : pc[p] = "get" ~> pc[p] \in {"using", "idle"}
=============================================================================
