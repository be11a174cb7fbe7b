------------------------------ MODULE PoolLists ------------------------------
(***************************************************************************)
(* ConnPool with its linked lists (src/grpcclient/pool.go:25-49,192-216).  *)
(*                                                                         *)
(* ConnPool knows a list by the set of its connections and lets the walk   *)
(* visit them in any order.  Here are the nodes: every action of ConnPool  *)
(* is taken together with what it does to the pointers and to the variable *)
(* of getConn that the walk is at.  ListsLinked says that the two accounts *)
(* never part, so that ConnPool's guards on its sets (todo in ScanEnd,     *)
(* Pooled in release) never hold back a step of the pointers.              *)
(***************************************************************************)
EXTENDS ConnPool

CONSTANTS HeadNode, BusyNode   \* the two nodes of a streamsPool that are no connection

ASSUME NodesApart ==
  /\ HeadNode # BusyNode
  /\ HeadNode \notin Conns \cup {NoConn} /\ BusyNode \notin Conns \cup {NoConn}

VARIABLES
  link,    \* pre, next and in of every node
  cursor   \* conn of getConn: the node its walk has still to look at

listVars == <<vars, link, cursor>>

Nodes    == Conns \cup {HeadNode, BusyNode}
Detached == [pre |-> NoConn, next |-> NoConn, in |-> FALSE]

-----------------------------------------------------------------------------
(* removeConn and addConnAfter, on the links l. *)

SetNext(l, n, m) == IF n = NoConn THEN l ELSE [l EXCEPT ![n].next = m]
SetPre(l, n, m)  == IF n = NoConn THEN l ELSE [l EXCEPT ![n].pre = m]

RemoveOneSided(l, c) == [SetNext(l, l[c].pre, l[c].next) EXCEPT ![c] = Detached]
RemoveConn(l, c) ==
  [SetPre(SetNext(l, l[c].pre, l[c].next), l[c].next, l[c].pre) EXCEPT ![c] = Detached]

AddConnAfter(l, c, after) ==
  LET second == l[after].next
  IN [SetNext(SetPre(l, second, c), after, c)
        EXCEPT ![c] = [pre |-> after, next |-> second, in |-> TRUE]]

(* The node the walk goes to after c, read before c is taken off its list. *)
NextStays(c) == c
NextNode(c)  == link[c].next

(* The lists after the first half of release. *)
Joined(c) == IF Joins(c) THEN AddConnAfter(link, c, HeadNode) ELSE link
Moved(c)  == IF Joined(c)[c].in /\ IsFull(c)
             THEN AddConnAfter(RemoveConn(Joined(c), c), c, HeadNode)
             ELSE Joined(c)

-----------------------------------------------------------------------------
ListsInit == Init /\ link = [n \in Nodes |-> Detached] /\ cursor = NoConn

WalkStart(p) == Lock(p) /\ cursor' = link[HeadNode].next /\ UNCHANGED link

WalkStep(p) ==
  /\ pc[p] = "scan" /\ cursor # NoConn
  /\ \E s \in States(cursor) :
       \/ Skip(p, cursor, s) /\ cursor' = NextNode(cursor) /\ UNCHANGED link
       \/ /\ Evict(p, cursor, s)
          /\ cursor' = NextNode(cursor) /\ link' = RemoveConn(link, cursor)
       \/ /\ ParkBusy(p, cursor, s)
          /\ cursor' = NextNode(cursor)
          /\ link'   = AddConnAfter(RemoveConn(link, cursor), cursor, BusyNode)
       \/ Take(p, cursor, s) /\ cursor' = NoConn /\ UNCHANGED link

WalkEnd(p) == ScanEnd(p) /\ cursor = NoConn /\ UNCHANGED <<link, cursor>>

(* A dialled connection is a new node, on no list. *)
DialNode(p) ==
  /\ Dial(p)
  /\ link' = [link EXCEPT ![held'[p]] = Detached] /\ UNCHANGED cursor

AddNode(p) ==
  /\ AddNew(p)
  /\ link' = IF HasRoom THEN AddConnAfter(link, held[p], HeadNode) ELSE link
  /\ UNCHANGED cursor

ReleaseNode(p, c, err) ==
  /\ \/ Reject(p, c) /\ UNCHANGED link
     \/ (Return(p, c) \/ Keep(p, c, err)) /\ link' = Moved(c)
     \/ Discard(p, c, err) /\ link' = RemoveConn(Moved(c), c)
  /\ UNCHANGED cursor

(* The steps that touch no list. *)
Elsewhere ==
  /\ \/ \E p \in Callers : Begin(p) \/ DialFails(p) \/ CloseConn(p)
     \/ \E c \in Conns : Expire(c)
  /\ UNCHANGED <<link, cursor>>

ListsNext ==
  \/ \E p \in Callers : WalkStart(p) \/ WalkStep(p) \/ WalkEnd(p) \/ DialNode(p) \/ AddNode(p)
  \/ \E p \in Callers, c \in Conns, err \in BOOLEAN : ReleaseNode(p, c, err)
  \/ Elsewhere

ListsSpec == ListsInit /\ [][ListsNext]_listVars

(* A goroutine that can run does; sync.Mutex hands itself over to a waiter  *)
(* it has starved for a millisecond, so taking it is strongly fair.  When a *)
(* call gives its connection back is up to the server: not fair.            *)
ListsFairness ==
  \A p \in Callers :
    /\ WF_listVars(WalkStep(p) \/ WalkEnd(p))
    /\ WF_listVars(DialNode(p) \/ (DialFails(p) /\ UNCHANGED <<link, cursor>>))
    /\ SF_listVars(WalkStart(p))
    /\ SF_listVars(AddNode(p))

FairListsSpec == ListsSpec /\ ListsFairness

-----------------------------------------------------------------------------
(* With pointers l, the list that starts at node has the members S.        *)
Linked(l, node, S) ==
  /\ l[node].pre = NoConn
  /\ \A n \in S \cup {node} :
       /\ l[n].next \in S \cup {NoConn}
       /\ l[n].next # NoConn => l[l[n].next].pre = n
  /\ \A n \in S : l[n].pre \in S \cup {node} /\ l[l[n].pre].next = n /\ l[n].in

Links == [Nodes -> [pre : Nodes \cup {NoConn}, next : Conns \cup {NoConn}, in : BOOLEAN]]

(* H and B are the members of the two lists, and no other node is linked.  *)
Wired(l, H, B) ==
  /\ l \in Links
  /\ Linked(l, HeadNode, H) /\ Linked(l, BusyNode, B)
  /\ \A c \in Conns \ (H \cup B) : l[c] = Detached

(* The lists are linked alike in both directions, in is true of their      *)
(* connections alone, and the walk, which goes on from a node it has just  *)
(* removed or moved to the other list, never leaves the head list, meets   *)
(* no connection twice, and ends when it has met all (pool.go:77-132).     *)
ListsLinked ==
  /\ Wired(link, head, busy)
  /\ cursor \in head \cup {NoConn}
  /\ cursor = NoConn => todo = {}
  /\ cursor # NoConn => cursor \in todo
=============================================================================
