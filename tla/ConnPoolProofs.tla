--------------------------- MODULE ConnPoolProofs ---------------------------
(***************************************************************************)
(* Proofs about ConnPool, for every set of connections and callers and     *)
(* every value of newPool's arguments: IInv is an inductive invariant.     *)
(* The lemmas come in three groups: facts about the sets the counters      *)
(* count, one lemma per action, and the theorems.  After them, that the    *)
(* linked lists of PoolLists implement ConnPool's sets: facts about the    *)
(* two functions on pointers, one lemma per action, and the theorems.      *)
(***************************************************************************)
EXTENDS PoolLists, FiniteSetTheorems, TLAPS

-----------------------------------------------------------------------------
(* The sets that are counted are finite.                                   *)
LEMMA Finite ==
  ASSUME TypeOK
  PROVE  /\ IsFiniteSet(Pooled) /\ Cardinality(Pooled) \in Nat
         /\ IsFiniteSet(Unused) /\ Cardinality(Unused) \in Nat
         /\ \A c \in Conns : IsFiniteSet(Users(c)) /\ Cardinality(Users(c)) \in Nat
<1>1. Pooled \in SUBSET Conns /\ Unused \in SUBSET Conns
  BY DEF TypeOK, Pooled, Unused
<1>2. \A c \in Conns : Users(c) \in SUBSET Callers
  BY DEF Users
<1>3. IsFiniteSet(Pooled) /\ IsFiniteSet(Unused)
  BY <1>1, FS_Subset, ConnsFinite
<1>4. \A c \in Conns : IsFiniteSet(Users(c))
  BY <1>2, FS_Subset, CallersFinite
<1> QED
  BY <1>3, <1>4, FS_CardinalityType

(* newPool's corrections leave sensible limits.                            *)
LEMMA Limits == maxStreams \in Nat \ {0} /\ maxIdle \in Nat
BY ArgsInt DEF maxStreams, maxIdle

(* A call that gets c joins the users of c and of nothing else.            *)
LEMMA UserAdded ==
  ASSUME TypeOK, NEW p \in Callers, NEW c \in Conns,
         held[p] = NoConn,
         held' = [held EXCEPT ![p] = c],
         \E l \in {"add", "using"} : pc' = [pc EXCEPT ![p] = l]
  PROVE  /\ p \notin Users(c) /\ Users(c)' = Users(c) \cup {p}
         /\ \A d \in Conns \ {c} : Users(d)' = Users(d)
BY NoneOutside DEF TypeOK, Users

(* A call that gives c back leaves the users of c and of nothing else.     *)
LEMMA UserRemoved ==
  ASSUME TypeOK, NEW p \in Callers, NEW c \in Conns,
         held[p] = c, pc[p] = "using",
         \/ held' = [held EXCEPT ![p] = NoConn] /\ pc' = [pc EXCEPT ![p] = "idle"]
         \/ held' = held /\ pc' = [pc EXCEPT ![p] = "closing"]
  PROVE  /\ p \in Users(c) /\ Users(c)' = Users(c) \ {p}
         /\ \A d \in Conns \ {c} : Users(d)' = Users(d)
BY NoneOutside DEF TypeOK, Users

-----------------------------------------------------------------------------
(* The pool starts empty.                                                  *)
LEMMA InitIInv == Init => IInv
<1> SUFFICES ASSUME Init PROVE IInv
  OBVIOUS
<1>1. TypeOK
  BY DEF Init, TypeOK
<1>2. Pooled = {} /\ Unused = {}
  BY DEF Init, Pooled, Unused
<1>3. CountersOK
  BY <1>2, FS_EmptySet, Limits
  DEF Init, CountersOK, CountExact, IdleExact, StreamsExact, LimitsHeld, IdleLimit, Pooled
<1>4. ListsOK /\ HoldersOK /\ NoUseAfterClose /\ NoLeak
  BY <1>2, NoneOutside DEF Init, ListsOK, HoldersOK, NoUseAfterClose, NoLeak
<1> QED
  BY <1>1, <1>3, <1>4 DEF IInv

(* Steps that touch neither the lists, the counters nor the connections.   *)
LEMMA QuietPreserves ==
  ASSUME IInv, TypeOK', ListsOK', HoldersOK',
         UNCHANGED <<head, busy, count, idle, streams, open, held>>,
         \A q \in Callers : pc'[q] \in {"add", "using"} <=> pc[q] \in {"add", "using"}
  PROVE  IInv'
<1>1. Pooled' = Pooled /\ Unused' = Unused
  BY DEF Pooled, Unused
<1>2. \A c \in Conns : Users(c)' = Users(c)
  BY DEF Users
<1>3. CountersOK'
  BY <1>1, <1>2 DEF IInv, TypeOK, CountersOK, CountExact, IdleExact, StreamsExact,
                    LimitsHeld, IdleLimit, Pooled
<1>4. NoUseAfterClose' /\ NoLeak'
  BY <1>1 DEF IInv, NoUseAfterClose, NoLeak
<1> QED
  BY <1>3, <1>4 DEF IInv

-----------------------------------------------------------------------------
(* One lemma per action: it preserves the invariant.                       *)

LEMMA BeginPreserves ==
  ASSUME IInv, NEW p \in Callers, Begin(p)
  PROVE  IInv'
<1>1. TypeOK'
  BY DEF IInv, Begin, TypeOK
<1>2. ListsOK' /\ HoldersOK'
  BY DEF IInv, TypeOK, Begin, ListsOK, HoldersOK, Pooled
<1> QED
  BY <1>1, <1>2, QuietPreserves DEF IInv, TypeOK, Begin

LEMMA LockPreserves ==
  ASSUME IInv, NEW p \in Callers, Lock(p)
  PROVE  IInv'
<1>1. TypeOK'
  BY DEF IInv, Lock, TypeOK
<1>2. ListsOK' /\ HoldersOK'
  BY NoneOutside DEF IInv, TypeOK, Lock, ListsOK, HoldersOK, Pooled
<1> QED
  BY <1>1, <1>2, QuietPreserves DEF IInv, TypeOK, Lock

LEMMA SkipPreserves ==
  ASSUME IInv, NEW p \in Callers, NEW c \in todo, NEW s, Skip(p, c, s)
  PROVE  IInv'
<1>1. TypeOK'
  BY DEF IInv, Skip, TypeOK, Rest
<1>2. ListsOK' /\ HoldersOK'
  BY DEF IInv, TypeOK, Skip, ListsOK, HoldersOK, Pooled, Rest
<1> QED
  BY <1>1, <1>2, QuietPreserves DEF Skip

LEMMA ScanEndPreserves ==
  ASSUME IInv, NEW p \in Callers, ScanEnd(p)
  PROVE  IInv'
<1>1. TypeOK'
  BY DEF IInv, ScanEnd, TypeOK
<1>2. ListsOK' /\ HoldersOK'
  BY NoneOutside DEF IInv, TypeOK, ScanEnd, ListsOK, HoldersOK, Pooled
<1> QED
  BY <1>1, <1>2, QuietPreserves DEF IInv, TypeOK, ScanEnd

LEMMA DialFailsPreserves ==
  ASSUME IInv, NEW p \in Callers, DialFails(p)
  PROVE  IInv'
<1>1. TypeOK'
  BY DEF IInv, DialFails, TypeOK
<1>2. ListsOK' /\ HoldersOK'
  BY DEF IInv, TypeOK, DialFails, ListsOK, HoldersOK, Pooled
<1> QED
  BY <1>1, <1>2, QuietPreserves DEF IInv, TypeOK, DialFails

LEMMA ExpirePreserves ==
  ASSUME IInv, NEW c \in Conns, Expire(c)
  PROVE  IInv'
<1>1. TypeOK'
  BY DEF IInv, Expire, TypeOK
<1>2. ListsOK' /\ HoldersOK'
  BY DEF IInv, Expire, ListsOK, HoldersOK, Pooled
<1> QED
  BY <1>1, <1>2, QuietPreserves DEF Expire

(* An evicted connection has no user, so nobody holds it.                  *)
LEMMA EvictPreserves ==
  ASSUME IInv, NEW p \in Callers, NEW c \in todo, NEW s,
         pc[p] = "scan", Evict(p, c, s)
  PROVE  IInv'
<1> USE DEF IInv
<1>1. c \in head /\ c \in Conns /\ c \notin busy /\ c \in Pooled /\ c \in Unused
  BY DEF TypeOK, ListsOK, Pooled, Unused, Evict, InUse
<1>2. Users(c) = {}
  <2>1. Cardinality(Users(c)) = 0
    BY <1>1 DEF CountersOK, StreamsExact, Evict, InUse
  <2> QED
    BY <1>1, <2>1, Finite, FS_EmptySet
<1>3. \A q \in Callers : held[q] # c
  BY <1>1, <1>2, NoneOutside DEF TypeOK, HoldersOK, Users
<1>4. Pooled' = Pooled \ {c} /\ Unused' = Unused \ {c}
  BY <1>1 DEF Evict, Pooled, Unused
<1>5. count' = Cardinality(Pooled') /\ idle' = Cardinality(Unused')
  BY <1>1, <1>4, Finite, FS_RemoveElement
  DEF Evict, CountersOK, CountExact, IdleExact
<1>6. count' \in Nat /\ idle' \in Nat
  <2>1. IsFiniteSet(Pooled') /\ IsFiniteSet(Unused')
    BY <1>4, Finite, FS_RemoveElement
  <2> QED
    BY <1>5, <2>1, FS_CardinalityType
<1>7. TypeOK'
  BY <1>6 DEF TypeOK, Evict, Close, Rest
<1>8. ListsOK' /\ HoldersOK' /\ NoUseAfterClose' /\ NoLeak'
  <2>1. ListsOK'
    BY <1>1, <1>4 DEF ListsOK, Evict, Close, Pooled, Rest
  <2>2. HoldersOK'
    BY <1>3, <1>4 DEF HoldersOK, Evict
  <2>3. NoUseAfterClose' /\ NoLeak'
    BY <1>3, <1>4 DEF NoUseAfterClose, NoLeak, Evict, Close
  <2> QED
    BY <2>1, <2>2, <2>3
<1>9. CountersOK'
  <2>1. \A d \in Conns : Users(d)' = Users(d)
    BY DEF Users, Evict
  <2>2. \A d \in Pooled' : d \in Pooled /\ d \in Conns
    BY <1>4 DEF TypeOK, Pooled
  <2>3. StreamsExact' /\ (\A d \in Pooled' : streams'[d] <= maxStreams)
                     /\ (\A d \in busy' : streams'[d] = maxStreams)
    BY <2>1, <2>2 DEF CountersOK, StreamsExact, Evict
  <2>4. LimitsHeld' /\ IdleLimit'
    BY <1>6, SizeInt, Limits DEF TypeOK, CountersOK, LimitsHeld, IdleLimit, Evict
  <2> QED
    BY <1>5, <2>3, <2>4 DEF CountersOK, CountExact, IdleExact
<1> QED
  BY <1>7, <1>8, <1>9

LEMMA ParkBusyPreserves ==
  ASSUME IInv, NEW p \in Callers, NEW c \in todo, NEW s,
         pc[p] = "scan", ParkBusy(p, c, s)
  PROVE  IInv'
<1> USE DEF IInv
<1>1. c \in head /\ c \in Conns /\ c \in Pooled
  BY DEF TypeOK, ListsOK, Pooled
<1>2. Pooled' = Pooled /\ Unused' = Unused
  BY <1>1 DEF ParkBusy, Pooled, Unused
<1>3. TypeOK'
  BY <1>1 DEF TypeOK, ParkBusy, Rest
<1>4. ListsOK'
  BY <1>1, <1>2 DEF ListsOK, ParkBusy, Rest
<1>5. HoldersOK' /\ NoUseAfterClose' /\ NoLeak'
  BY <1>2 DEF HoldersOK, NoUseAfterClose, NoLeak, ParkBusy
<1>6. CountersOK'
  <2>1. \A d \in Conns : Users(d)' = Users(d)
    BY DEF Users, ParkBusy
  <2>2. StreamsExact'
    BY <1>2, <2>1 DEF TypeOK, Pooled, CountersOK, StreamsExact, ParkBusy
  <2>3. streams[c] = maxStreams
    BY <1>1, Limits DEF TypeOK, CountersOK, ParkBusy, IsFull
  <2> QED
    BY <1>2, <2>2, <2>3
    DEF CountersOK, CountExact, IdleExact, LimitsHeld, IdleLimit, ParkBusy
<1> QED
  BY <1>3, <1>4, <1>5, <1>6

(* The connection taken gets one user more, and is not full before.        *)
LEMMA TakePreserves ==
  ASSUME IInv, NEW p \in Callers, NEW c \in todo, NEW s,
         pc[p] = "scan", Take(p, c, s)
  PROVE  IInv'
<1> USE DEF IInv
<1>1. c \in head /\ c \in Conns /\ c \in Pooled /\ c \notin busy /\ c \in open
  BY DEF TypeOK, ListsOK, Pooled
<1>2. held[p] = NoConn
  BY DEF HoldersOK
<1>3. Pooled' = Pooled /\ Unused' = Unused \ {c}
  BY <1>1 DEF TypeOK, Take, Pooled, Unused
<1>4. /\ p \notin Users(c) /\ Users(c)' = Users(c) \cup {p}
      /\ \A d \in Conns \ {c} : Users(d)' = Users(d)
  BY <1>1, <1>2, UserAdded DEF Take
<1>5. idle' = Cardinality(Unused') /\ idle' \in Nat
  <2>1. idle' = IF c \in Unused THEN idle - 1 ELSE idle
    BY <1>1 DEF Take, Unused, IdleAfterTake
  <2>2. IsFiniteSet(Unused') /\ idle' = Cardinality(Unused')
    BY <1>3, <2>1, Finite, FS_RemoveElement DEF CountersOK, IdleExact
  <2> QED
    BY <2>2, FS_CardinalityType
<1>6. TypeOK'
  BY <1>1, <1>5 DEF TypeOK, Take
<1>7. ListsOK'
  BY <1>3, NoneOutside DEF TypeOK, ListsOK, Take
<1>8. HoldersOK'
  BY <1>1, <1>2, <1>3, NoneOutside DEF TypeOK, HoldersOK, Take
<1>9. NoUseAfterClose' /\ NoLeak'
  BY <1>1, <1>2, <1>3, NoneOutside DEF TypeOK, NoUseAfterClose, NoLeak, Take
<1>10. CountersOK'
  <2>1. Cardinality(Users(c)') = streams[c] + 1
    BY <1>1, <1>4, Finite, FS_AddElement DEF CountersOK, StreamsExact
  <2>2. StreamsExact'
    BY <1>1, <1>3, <1>4, <2>1 DEF TypeOK, Pooled, CountersOK, StreamsExact, Take
  <2>3. /\ \A d \in Pooled' : streams'[d] <= maxStreams
        /\ \A d \in busy' : streams'[d] = maxStreams
    BY <1>1, <1>3, Limits DEF TypeOK, Pooled, CountersOK, Take, IsFull
  <2>4. LimitsHeld' /\ IdleLimit'
    BY <1>5, Limits DEF TypeOK, CountersOK, LimitsHeld, IdleLimit, Take, IdleAfterTake
  <2> QED
    BY <1>3, <1>5, <2>2, <2>3, <2>4 DEF CountersOK, CountExact, IdleExact, Take
<1> QED
  BY <1>6, <1>7, <1>8, <1>9, <1>10

(* A dialled connection is fresh: outside of the lists, with one user.     *)
LEMMA DialPreserves ==
  ASSUME IInv, NEW p \in Callers, Dial(p)
  PROVE  IInv'
<1> USE DEF IInv
<1>1. PICK c \in Conns \ (open \cup Pooled) :
        /\ \A q \in Callers : held[q] # c
        /\ open'    = open \cup {c}
        /\ streams' = [streams EXCEPT ![c] = 1]
        /\ held'    = [held EXCEPT ![p] = c]
  BY DEF Dial
<1>2. held[p] = NoConn
  BY DEF Dial, HoldersOK
<1>3. Pooled' = Pooled /\ Unused' = Unused
  BY <1>1 DEF TypeOK, Dial, Pooled, Unused
<1>4. \A d \in Conns \ {c} : Users(d)' = Users(d)
  BY <1>1, <1>2, UserAdded DEF Dial
<1>5. TypeOK'
  BY <1>1 DEF TypeOK, Dial
<1>6. ListsOK'
  BY <1>1, <1>3 DEF TypeOK, ListsOK, Dial
<1>7. HoldersOK'
  BY <1>1, <1>2, <1>3, NoneOutside DEF TypeOK, HoldersOK, Dial
<1>8. NoUseAfterClose' /\ NoLeak'
  BY <1>1, <1>2, <1>3, NoneOutside DEF TypeOK, NoUseAfterClose, NoLeak, Dial
<1>9. CountersOK'
  <2>1. \A d \in Pooled : d \in Conns \ {c} /\ streams'[d] = streams[d]
    BY <1>1 DEF TypeOK, Pooled
  <2>2. StreamsExact'
    BY <1>3, <1>4, <2>1 DEF CountersOK, StreamsExact
  <2>3. /\ \A d \in Pooled' : streams'[d] <= maxStreams
        /\ \A d \in busy' : streams'[d] = maxStreams
    BY <1>3, <2>1 DEF CountersOK, Dial, Pooled
  <2> QED
    BY <1>3, <2>2, <2>3
    DEF CountersOK, CountExact, IdleExact, LimitsHeld, IdleLimit, Dial
<1> QED
  BY <1>5, <1>6, <1>7, <1>8, <1>9

(* It joins the head list with its one user, if there is room.             *)
LEMMA AddNewPreserves ==
  ASSUME IInv, NEW p \in Callers, AddNew(p)
  PROVE  IInv'
<1> USE DEF IInv
<1> DEFINE c == held[p]
<1>1. c \in Conns /\ c # NoConn /\ c \in open /\ c \notin Pooled /\ streams[c] = 1
  BY DEF TypeOK, AddNew, HoldersOK, NoUseAfterClose
<1>2. \A d \in Conns : Users(d)' = Users(d)
  BY DEF TypeOK, Users, AddNew
<1>3. Users(c) = {p}
  BY <1>1 DEF TypeOK, AddNew, HoldersOK, Users
<1>4. /\ Pooled' = IF HasRoom THEN Pooled \cup {c} ELSE Pooled
      /\ Unused' = Unused
  BY <1>1 DEF TypeOK, AddNew, Pooled, Unused
<1>5. count' = Cardinality(Pooled') /\ count' \in Nat
  <2>1. CASE HasRoom
    <3>1. Cardinality(Pooled \cup {c}) = Cardinality(Pooled) + 1
      BY <1>1, Finite, FS_AddElement
    <3> QED
      BY <1>4, <2>1, <3>1, Finite DEF CountersOK, CountExact, AddNew
  <2>2. CASE ~HasRoom
    BY <1>4, <2>2, Finite DEF CountersOK, CountExact, AddNew
  <2> QED
    BY <2>1, <2>2
<1>6. TypeOK'
  BY <1>1, <1>5 DEF TypeOK, AddNew
<1>7. ListsOK'
  BY <1>1, <1>4 DEF TypeOK, ListsOK, AddNew, Pooled
<1>8. HoldersOK'
  BY <1>1, <1>4 DEF TypeOK, HoldersOK, AddNew
<1>9. NoUseAfterClose' /\ NoLeak'
  BY <1>1, <1>4 DEF TypeOK, NoUseAfterClose, NoLeak, AddNew
<1>10. CountersOK'
  <2>1. \A d \in Pooled' : d \in Conns /\ (d \in Pooled \/ d = c)
    BY <1>1, <1>4 DEF TypeOK, Pooled
  <2>2. StreamsExact'
    BY <1>1, <1>2, <1>3, <2>1, FS_Singleton DEF CountersOK, StreamsExact, AddNew
  <2>3. /\ \A d \in Pooled' : streams'[d] <= maxStreams
        /\ \A d \in busy' : streams'[d] = maxStreams
    BY <1>1, <2>1, Limits DEF CountersOK, AddNew
  <2>4. LimitsHeld' /\ IdleLimit'
    BY SizeInt DEF TypeOK, CountersOK, LimitsHeld, IdleLimit, AddNew, HasRoom
  <2> QED
    BY <1>4, <1>5, <2>2, <2>3, <2>4 DEF CountersOK, CountExact, IdleExact, AddNew
<1> QED
  BY <1>6, <1>7, <1>8, <1>9, <1>10

-----------------------------------------------------------------------------
(* The first half of release, for a connection that is or gets pooled:     *)
(* it ends on a list, on the head list if it was full, and is counted.     *)
PlacedOK(p, c) ==
  /\ HeadAfter(c) \cup BusyAfter(c) = Pooled \cup {c}
  /\ HeadAfter(c) \cap BusyAfter(c) = {}
  /\ HeadAfter(c) \subseteq head \cup {c}
  /\ c \notin BusyAfter(c) /\ BusyAfter(c) \subseteq busy
  /\ CountAfter(c) = Cardinality(Pooled \cup {c})
  /\ CountAfter(c) \in Nat
  /\ CountAfter(c) <= Size \/ CountAfter(c) = 0
  /\ held[p] = c /\ c # NoConn /\ c \in open /\ pc[p] = "using" /\ p \in Users(c)
  /\ streams[c] = Cardinality(Users(c)) /\ streams[c] \in Nat
  /\ streams[c] <= maxStreams
  /\ lock = NoCaller /\ todo = {}

LEMMA Placed ==
  ASSUME IInv, NEW p \in Callers, NEW c \in Conns,
         Releasing(p, c), c \in Pooled \/ HasRoom
  PROVE  PlacedOK(p, c)
<1> USE DEF IInv
<1>1. c # NoConn /\ c \in open /\ held[p] = c /\ pc[p] = "using" /\ p \in Users(c)
  BY NoneOutside DEF Releasing, NoUseAfterClose, Users
<1>2. streams[c] = Cardinality(Users(c)) /\ streams[c] \in Nat
  <2>1. CASE c \in Pooled
    BY <2>1 DEF TypeOK, CountersOK, StreamsExact
  <2>2. CASE c \notin Pooled
    <3>1. Users(c) = {p}
      BY <1>1, <2>2 DEF HoldersOK, Users
    <3> QED
      BY <1>1, <2>2, <3>1, FS_Singleton DEF HoldersOK
  <2> QED
    BY <2>1, <2>2
<1>3. c \in busy <=> (c \in Pooled /\ c \notin head)
  BY DEF ListsOK, Pooled
<1>4. c \in busy => streams[c] = maxStreams
  BY DEF CountersOK
<1>5. c \notin BusyAfter(c) /\ BusyAfter(c) \subseteq busy
  BY <1>2, <1>4, Limits DEF BusyAfter, IsFull
<1>6. HeadAfter(c) \subseteq head \cup {c} /\ HeadAfter(c) \cap BusyAfter(c) = {}
  BY <1>5 DEF HeadAfter, ListsOK
<1>7. HeadAfter(c) \cup BusyAfter(c) = Pooled \cup {c}
  BY <1>2, <1>3, <1>4, Limits DEF HeadAfter, BusyAfter, Joins, Pooled
<1>8. CountAfter(c) = Cardinality(Pooled \cup {c}) /\ CountAfter(c) \in Nat
  <2>1. CASE c \in Pooled
    <3>1. Pooled \cup {c} = Pooled
      BY <2>1
    <3> QED
      BY <2>1, <3>1 DEF CountAfter, Joins, TypeOK, CountersOK, CountExact
  <2>2. CASE c \notin Pooled
    <3>1. Cardinality(Pooled \cup {c}) = Cardinality(Pooled) + 1
      BY <2>2, Finite, FS_AddElement
    <3> QED
      BY <2>2, <3>1 DEF CountAfter, Joins, TypeOK, CountersOK, CountExact
  <2> QED
    BY <2>1, <2>2
<1>9. CountAfter(c) <= Size \/ CountAfter(c) = 0
  BY SizeInt DEF CountAfter, Joins, HasRoom, TypeOK, CountersOK, LimitsHeld
<1>10. streams[c] <= maxStreams /\ lock = NoCaller /\ todo = {}
  BY <1>1, Limits DEF Releasing, ListsOK, CountersOK, HoldersOK
<1> QED
  BY <1>1, <1>2, <1>5, <1>6, <1>7, <1>8, <1>9, <1>10 DEF PlacedOK

LEMMA RejectPreserves ==
  ASSUME IInv, NEW p \in Callers, NEW c \in Conns, Reject(p, c)
  PROVE  IInv'
<1> USE DEF IInv
<1>1. Pooled' = Pooled /\ Unused' = Unused
  BY DEF Reject, Pooled, Unused
<1>2. \A d \in Pooled : Users(d)' = Users(d)
  BY DEF TypeOK, Reject, Releasing, Users
<1>3. TypeOK' /\ ListsOK'
  BY <1>1 DEF TypeOK, ListsOK, Reject, Releasing
<1>4. HoldersOK' /\ NoUseAfterClose' /\ NoLeak'
  BY <1>1, NoneOutside
  DEF TypeOK, HoldersOK, NoUseAfterClose, NoLeak, Reject, Releasing
<1>5. CountersOK'
  BY <1>1, <1>2 DEF TypeOK, Pooled, CountersOK, CountExact, IdleExact, StreamsExact,
                    LimitsHeld, IdleLimit, Reject
<1> QED
  BY <1>3, <1>4, <1>5

LEMMA ReturnPreserves ==
  ASSUME IInv, NEW p \in Callers, NEW c \in Conns, Return(p, c)
  PROVE  IInv'
<1> USE DEF IInv
<1>0. PlacedOK(p, c)
  BY Placed DEF Return
<1>1. Pooled' = Pooled \cup {c} /\ c \notin busy' /\ head' \cap busy' = {}
  BY <1>0 DEF PlacedOK, Return, Pooled
<1>2. /\ p \in Users(c) /\ Users(c)' = Users(c) \ {p}
      /\ \A d \in Conns \ {c} : Users(d)' = Users(d)
  BY UserRemoved DEF Return, Releasing
<1>3. Cardinality(Users(c)') = streams[c] - 1 /\ streams[c] - 1 \in Nat \ {0}
  <2> DEFINE others == Users(c) \ {p}
  <2>1. Cardinality(others) = streams[c] - 1 /\ IsFiniteSet(others)
    BY <1>2, Finite, <1>0, FS_RemoveElement DEF PlacedOK, Return
  <2>2. Cardinality(others) \in Nat
    BY <2>1, FS_CardinalityType
  <2> QED
    BY <1>2, <2>1, <2>2, <1>0 DEF PlacedOK, Return
<1>4. Unused' = Unused
  BY <1>1, <1>3, <1>0 DEF PlacedOK, TypeOK, Return, Unused, Pooled, HoldersOK, Releasing
<1>5. TypeOK'
  BY <1>3, <1>0 DEF PlacedOK, TypeOK, Return
<1>6. ListsOK'
  BY <1>1, <1>0 DEF PlacedOK, ListsOK, TypeOK, Return, Releasing
<1>7. HoldersOK' /\ NoUseAfterClose' /\ NoLeak'
  BY <1>1, <1>0, NoneOutside
  DEF PlacedOK, TypeOK, HoldersOK, NoUseAfterClose, NoLeak, Return, Releasing
<1>8. CountersOK'
  <2>1. \A d \in Pooled' : d \in Conns /\ (d \in Pooled \/ d = c)
    BY <1>1 DEF TypeOK, Pooled
  <2>2. StreamsExact'
    BY <1>2, <1>3, <2>1 DEF TypeOK, CountersOK, StreamsExact, Return
  <2>3. /\ \A d \in Pooled' : streams'[d] <= maxStreams
        /\ \A d \in busy' : streams'[d] = maxStreams
    BY <1>1, <1>3, <2>1, Limits, <1>0 DEF PlacedOK, TypeOK, CountersOK, Return
  <2>4. LimitsHeld' /\ IdleLimit'
    BY <1>0 DEF PlacedOK, CountersOK, LimitsHeld, IdleLimit, Return
  <2>5. CountExact' /\ IdleExact'
    BY <1>1, <1>4, <1>0 DEF PlacedOK, CountersOK, CountExact, IdleExact, Return
  <2> QED
    BY <2>2, <2>3, <2>4, <2>5 DEF CountersOK
<1> QED
  BY <1>5, <1>6, <1>7, <1>8

(* The last user leaves a connection without a call on the head list.      *)
LEMMA KeepPreserves ==
  ASSUME IInv, NEW p \in Callers, NEW c \in Conns, NEW err, Keep(p, c, err)
  PROVE  IInv'
<1> USE DEF IInv
<1>0. PlacedOK(p, c)
  BY Placed DEF Keep
<1>1. Pooled' = Pooled \cup {c} /\ c \notin busy' /\ head' \cap busy' = {}
  BY <1>0 DEF PlacedOK, Keep, Pooled
<1>2. /\ p \in Users(c) /\ Users(c)' = Users(c) \ {p}
      /\ \A d \in Conns \ {c} : Users(d)' = Users(d)
  BY UserRemoved DEF Keep, Releasing
<1>3. Cardinality(Users(c)') = 0
  <2>1. Cardinality(Users(c)) = 1 /\ IsFiniteSet(Users(c))
    BY <1>0, Finite DEF PlacedOK, Keep
  <2>2. Cardinality(Users(c) \ {p}) = 0
    BY <1>2, <2>1, FS_RemoveElement
  <2> QED
    BY <1>2, <2>2
<1>4. Unused' = Unused \cup {c} /\ c \notin Unused
  BY <1>1 DEF TypeOK, Keep, Unused, Pooled
<1>5. idle' = Cardinality(Unused')
  <2>1. Cardinality(Unused \cup {c}) = Cardinality(Unused) + 1
    BY <1>4, Finite, FS_AddElement
  <2> QED
    BY <1>4, <2>1 DEF CountersOK, IdleExact, Keep
<1>6. TypeOK'
  BY <1>0 DEF PlacedOK, TypeOK, Keep
<1>7. ListsOK'
  BY <1>1, <1>0 DEF PlacedOK, ListsOK, TypeOK, Keep, Releasing
<1>8. HoldersOK' /\ NoUseAfterClose' /\ NoLeak'
  BY <1>1, <1>0, NoneOutside
  DEF PlacedOK, TypeOK, HoldersOK, NoUseAfterClose, NoLeak, Keep, Releasing
<1>9. CountersOK'
  <2>1. \A d \in Pooled' : d \in Conns /\ (d \in Pooled \/ d = c)
    BY <1>1 DEF TypeOK, Pooled
  <2>2. StreamsExact'
    BY <1>2, <1>3, <2>1 DEF TypeOK, CountersOK, StreamsExact, Keep
  <2>3. /\ \A d \in Pooled' : streams'[d] <= maxStreams
        /\ \A d \in busy' : streams'[d] = maxStreams
    BY <1>1, <2>1, Limits, <1>0 DEF PlacedOK, TypeOK, CountersOK, Keep
  <2>4. LimitsHeld' /\ IdleLimit'
    BY <1>0, Limits DEF PlacedOK, TypeOK, CountersOK, LimitsHeld, IdleLimit, Keep, Discards
  <2>5. CountExact'
    BY <1>1, <1>0 DEF PlacedOK, CountExact, Keep
  <2> QED
    BY <1>5, <2>2, <2>3, <2>4, <2>5 DEF CountersOK, IdleExact
<1> QED
  BY <1>6, <1>7, <1>8, <1>9

(* The last user takes the connection off the lists, to close it.          *)
LEMMA DiscardPreserves ==
  ASSUME IInv, NEW p \in Callers, NEW c \in Conns, NEW err, Discard(p, c, err)
  PROVE  IInv'
<1> USE DEF IInv
<1>0. PlacedOK(p, c)
  BY Placed DEF Discard
<1>1. Pooled' = Pooled \ {c} /\ head' \cap busy' = {} /\ busy' \subseteq busy
  BY <1>0 DEF PlacedOK, Discard, Pooled
<1>2. Users(c) = {p} /\ \A d \in Conns \ {c} : Users(d)' = Users(d)
  <2>1. p \in Users(c) /\ \A d \in Conns \ {c} : Users(d)' = Users(d)
    BY UserRemoved DEF Discard, Releasing
  <2>2. Cardinality(Users(c)) = 1 /\ IsFiniteSet(Users(c))
    BY <1>0, Finite DEF PlacedOK, Discard
  <2>3. PICK x : Users(c) = {x}
    BY <2>2, FS_Singleton
  <2> QED
    BY <2>1, <2>3
<1>3. \A q \in Callers : held[q] = c => q = p
  BY <1>2, NoneOutside DEF TypeOK, HoldersOK, Users, Discard, Releasing
<1>4. Unused' = Unused
  BY <1>1 DEF TypeOK, Discard, Unused, Pooled
<1>5. count' = Cardinality(Pooled') /\ count' \in Nat
  <2> DEFINE placed == Pooled \cup {c}
  <2>1. IsFiniteSet(placed) /\ c \in placed
    BY Finite, FS_AddElement
  <2>2. IsFiniteSet(placed \ {c}) /\ Cardinality(placed \ {c}) = Cardinality(placed) - 1
    <3> HIDE DEF placed
    <3> QED
      BY <2>1, FS_RemoveElement
  <2>3. placed \ {c} = Pooled'
    BY <1>1
  <2>4. Cardinality(Pooled') = CountAfter(c) - 1 /\ IsFiniteSet(Pooled')
    BY <2>2, <2>3, <1>0 DEF PlacedOK
  <2>5. Cardinality(Pooled') \in Nat
    BY <2>4, FS_CardinalityType
  <2> QED
    BY <2>4, <2>5 DEF Discard
<1>6. TypeOK'
  BY <1>5, <1>0 DEF PlacedOK, TypeOK, Discard
<1>7. ListsOK'
  BY <1>1, <1>0 DEF PlacedOK, ListsOK, TypeOK, Discard, Releasing
<1>8. HoldersOK' /\ NoUseAfterClose' /\ NoLeak'
  <2>1. HoldersOK'
    BY <1>1, <1>3, NoneOutside DEF TypeOK, HoldersOK, Discard, Releasing
  <2>2. NoUseAfterClose' /\ NoLeak'
    BY <1>1 DEF TypeOK, NoUseAfterClose, NoLeak, Discard, Releasing
  <2> QED
    BY <2>1, <2>2
<1>9. CountersOK'
  <2>1. \A d \in Pooled' : d \in Conns \ {c} /\ d \in Pooled
    BY <1>1 DEF TypeOK, Pooled
  <2>2. StreamsExact' /\ (\A d \in Pooled' : streams'[d] <= maxStreams)
    BY <1>2, <2>1 DEF TypeOK, CountersOK, StreamsExact, Discard
  <2>3. \A d \in busy' : streams'[d] = maxStreams
    BY <1>1, <2>1 DEF TypeOK, CountersOK, Discard, Pooled
  <2>4. LimitsHeld' /\ IdleLimit'
    BY <1>5, SizeInt, <1>0
    DEF PlacedOK, TypeOK, CountersOK, LimitsHeld, IdleLimit, Discard
  <2> QED
    BY <1>4, <1>5, <2>2, <2>3, <2>4 DEF CountersOK, CountExact, IdleExact, Discard
<1> QED
  BY <1>6, <1>7, <1>8, <1>9

(* A connection being closed is on no list and in no other call's hands.   *)
LEMMA CloseConnPreserves ==
  ASSUME IInv, NEW p \in Callers, CloseConn(p)
  PROVE  IInv'
<1> USE DEF IInv
<1> DEFINE c == held[p]
<1>1. c # NoConn /\ c \in Conns /\ c \notin Pooled
  BY DEF TypeOK, HoldersOK, CloseConn
<1>2. \A q \in Callers : held[q] = c => q = p
  BY <1>1 DEF HoldersOK
<1>3. Pooled' = Pooled /\ Unused' = Unused
  BY DEF CloseConn, Pooled, Unused
<1>4. \A d \in Conns : Users(d)' = Users(d)
  BY NoneOutside DEF TypeOK, Users, CloseConn
<1>5. TypeOK'
  BY DEF TypeOK, CloseConn, Close
<1>6. ListsOK'
  BY <1>1, <1>3 DEF TypeOK, ListsOK, CloseConn, Close
<1>7. HoldersOK'
  BY <1>3 DEF TypeOK, HoldersOK, CloseConn
<1>8. NoUseAfterClose' /\ NoLeak'
  BY <1>1, <1>2, <1>3 DEF TypeOK, NoUseAfterClose, NoLeak, CloseConn, Close
<1>9. CountersOK'
  BY <1>3, <1>4 DEF TypeOK, Pooled, CountersOK, CountExact, IdleExact, StreamsExact,
                    LimitsHeld, IdleLimit, CloseConn
<1> QED
  BY <1>5, <1>6, <1>7, <1>8, <1>9

-----------------------------------------------------------------------------
LEMMA StutterPreserves ==
  ASSUME IInv, UNCHANGED vars
  PROVE  IInv'
<1>1. TypeOK' /\ ListsOK' /\ HoldersOK'
  BY DEF IInv, vars, TypeOK, ListsOK, HoldersOK, Pooled
<1> QED
  BY <1>1, QuietPreserves DEF vars

LEMMA NextPreserves == IInv /\ [Next]_vars => IInv'
<1> SUFFICES ASSUME IInv, [Next]_vars PROVE IInv'
  OBVIOUS
<1>1. ASSUME NEW p \in Callers, Visit(p) PROVE IInv'
  BY <1>1, SkipPreserves, EvictPreserves, ParkBusyPreserves, TakePreserves DEF Visit
<1>2. ASSUME NEW p \in Callers, NEW err \in BOOLEAN, Release(p, err) PROVE IInv'
  BY <1>2, RejectPreserves, ReturnPreserves, KeepPreserves, DiscardPreserves DEF Release
<1>3. ASSUME NEW p \in Callers, GetStep(p) PROVE IInv'
  BY <1>1, <1>3, LockPreserves, ScanEndPreserves, DialPreserves, DialFailsPreserves,
     AddNewPreserves DEF GetStep
<1> QED
  BY <1>2, <1>3, BeginPreserves, CloseConnPreserves, ExpirePreserves, StutterPreserves
  DEF Next

(* The inductive invariant holds of every reachable state of the pool.     *)
THEOREM Invariant == Spec => []IInv
<1>1. Init => IInv
  BY InitIInv
<1>2. IInv /\ [Next]_vars => IInv'
  BY NextPreserves
<1> QED
  BY <1>1, <1>2, PTL DEF Spec

(* The variables keep their types and the counters never go negative.      *)
THEOREM TypeCorrect == Spec => []TypeOK
<1>1. IInv => TypeOK
  BY DEF IInv
<1> QED
  BY <1>1, Invariant, PTL

(* count and idle are what they claim to be, and within the limits, after  *)
(* any interleaving of getConn and release (pool.go:67-186).               *)
THEOREM CountersCorrect == Spec => []CountersOK
<1>1. IInv => CountersOK
  BY DEF IInv
<1> QED
  BY <1>1, Invariant, PTL

(* No connection carries more calls than maxStreams (pool.go:117).         *)
THEOREM CapacityCorrect == Spec => []Capacity
<1>1. IInv => Capacity
  <2> SUFFICES ASSUME IInv, NEW c \in Conns
               PROVE  Cardinality(Users(c)) <= maxStreams
    BY DEF Capacity
  <2> USE DEF IInv
  <2>1. CASE c \in Pooled
    BY <2>1 DEF CountersOK, StreamsExact
  <2>2. CASE c \notin Pooled /\ Users(c) = {}
    BY <2>2, FS_EmptySet, Limits
  <2>3. CASE c \notin Pooled /\ Users(c) # {}
    <3>1. PICK p \in Callers : p \in Users(c)
      BY <2>3 DEF Users
    <3>2. Users(c) = {p}
      BY <2>3, <3>1, NoneOutside DEF Users, HoldersOK
    <3> QED
      BY <3>2, FS_Singleton, Limits
  <2> QED
    BY <2>1, <2>2, <2>3
<1> QED
  BY <1>1, Invariant, PTL

(* A call's connection is not closed by another (pool.go:91-113,156-181).  *)
THEOREM NoUseAfterCloseCorrect == Spec => []NoUseAfterClose
<1>1. IInv => NoUseAfterClose
  BY DEF IInv
<1> QED
  BY <1>1, Invariant, PTL

(* Every open connection is on a list or in a call's hands, whatever path  *)
(* it took through getConn and release (pool.go:91-113,156-181).           *)
THEOREM NothingLost == Spec => []NoLeak
<1>1. IInv => NoLeak
  BY DEF IInv
<1> QED
  BY <1>1, Invariant, PTL

-----------------------------------------------------------------------------
(* The pool implements ConnLease.  Every step below maps to a step of the  *)
(* abstract specification or to a stutter.                                 *)

LEMMA LeaseUnchanged ==
  ASSUME UNCHANGED open, \A c \in Conns : Users(c)' = Users(c)
  PROVE  UNCHANGED Lease!vars
BY DEF Lease!vars

LEMMA LeaseStep ==
  ASSUME IInv, Next
  PROVE  [Lease!Next]_(Lease!vars)
<1> USE DEF IInv
<1> DEFINE lease == [c \in Conns |-> Users(c)]
<1>1. ASSUME NEW p \in Callers, held[p] = NoConn PROVE Lease!HasNone(p)
  BY <1>1, NoneOutside DEF Lease!HasNone, Users
<1>2. ASSUME NEW p \in Callers, NEW c \in todo, NEW s, pc[p] = "scan", Take(p, c, s)
      PROVE  Lease!Next
  <2>1. c \in Conns /\ c \in open /\ c \in Pooled /\ held[p] = NoConn
    BY <1>2 DEF TypeOK, ListsOK, HoldersOK, Pooled
  <2>2. Users(c)' = Users(c) \cup {p} /\ \A d \in Conns \ {c} : Users(d)' = Users(d)
    BY <1>2, <2>1, UserAdded DEF Take
  <2>3. Users(c) \cup {p} \in Groups
    <3>1. Cardinality(Users(c)) + 1 <= maxStreams
      BY <1>2, <2>1, Limits DEF TypeOK, Take, CountersOK, StreamsExact, IsFull
    <3>2. IsFiniteSet(Users(c)) /\ p \notin Users(c)
      BY <2>1, Finite, NoneOutside DEF Users
    <3>3. Cardinality(Users(c) \cup {p}) = Cardinality(Users(c)) + 1
      BY <3>2, FS_AddElement
    <3> QED
      BY <3>1, <3>3 DEF Groups, Users
  <2>4. lease' = [lease EXCEPT ![c] = @ \cup {p}]
    BY <2>1, <2>2
  <2>5. lease[c] = Users(c)
    BY <2>1
  <2>6. Lease!HasNone(p) /\ open' = open
    BY <1>1, <1>2, <2>1 DEF Take
  <2>7. Lease!Share(p, c)
    BY <2>1, <2>3, <2>4, <2>5, <2>6 DEF Lease!Share
  <2> QED
    BY <2>1, <2>7 DEF Lease!Next
<1>3. ASSUME NEW p \in Callers, Dial(p)
      PROVE  Lease!Next
  <2>1. PICK c \in Conns \ (open \cup Pooled) :
          /\ \A q \in Callers : held[q] # c
          /\ open'    = open \cup {c}
          /\ held'    = [held EXCEPT ![p] = c]
    BY <1>3 DEF Dial
  <2>2. held[p] = NoConn
    BY <1>3 DEF Dial, HoldersOK
  <2>3. Users(c)' = Users(c) \cup {p} /\ \A d \in Conns \ {c} : Users(d)' = Users(d)
    BY <1>3, <2>1, <2>2, UserAdded DEF Dial
  <2>4. Users(c) = {}
    BY <2>1 DEF Users
  <2>5. lease' = [lease EXCEPT ![c] = {p}]
    BY <2>1, <2>3, <2>4
  <2>6. {p} \in Groups
    <3>1. Cardinality({p}) = 1
      BY FS_Singleton
    <3> QED
      BY <3>1, Limits DEF Groups
  <2>7. Lease!Open(p, c)
    BY <1>1, <2>1, <2>2, <2>5, <2>6 DEF Lease!Open
  <2> QED
    BY <2>1, <2>7 DEF Lease!Next
<1>4. ASSUME NEW p \in Callers, NEW c \in Conns, NEW err,
             Reject(p, c) \/ Return(p, c) \/ Keep(p, c, err) \/ Discard(p, c, err)
      PROVE  Lease!Next
  <2>1. /\ p \in Users(c) /\ Users(c)' = Users(c) \ {p}
        /\ \A d \in Conns \ {c} : Users(d)' = Users(d)
    BY <1>4, UserRemoved DEF Reject, Return, Keep, Discard, Releasing
  <2>2. lease' = [lease EXCEPT ![c] = @ \ {p}] /\ open' = open
    BY <1>4, <2>1 DEF Reject, Return, Keep, Discard
  <2>3. Lease!Return(p, c)
    BY <2>1, <2>2 DEF Lease!Return
  <2> QED
    BY <2>3 DEF Lease!Next
<1>5. ASSUME NEW c \in open, Close(c), Users(c) = {}, \A d \in Conns : Users(d)' = Users(d)
      PROVE  Lease!Next
  <2>1. Lease!Close(c)
    BY <1>5 DEF Lease!Close, Close, TypeOK
  <2> QED
    BY <2>1 DEF Lease!Next, TypeOK
<1>6. ASSUME NEW p \in Callers, NEW c \in todo, NEW s, pc[p] = "scan", Evict(p, c, s)
      PROVE  Lease!Next
  <2>1. c \in Conns /\ c \in Pooled /\ c \in open
    BY <1>6 DEF TypeOK, ListsOK, Pooled
  <2>2. Users(c) = {}
    BY <1>6, <2>1, Finite, FS_EmptySet DEF CountersOK, StreamsExact, Evict, InUse
  <2>3. \A d \in Conns : Users(d)' = Users(d)
    BY <1>6 DEF Evict, Users
  <2> QED
    BY <1>5, <1>6, <2>1, <2>2, <2>3 DEF Evict
<1>7. ASSUME NEW p \in Callers, CloseConn(p)
      PROVE  Lease!Next
  <2>1. held[p] \in open /\ held[p] \in Conns /\ held[p] \notin Pooled
    BY <1>7 DEF TypeOK, HoldersOK, NoUseAfterClose, CloseConn
  <2>2. Users(held[p]) = {}
    BY <1>7, <2>1, NoneOutside DEF TypeOK, HoldersOK, Users, CloseConn
  <2>3. \A d \in Conns : Users(d)' = Users(d)
    BY <1>7, NoneOutside DEF TypeOK, Users, CloseConn
  <2> QED
    BY <1>5, <1>7, <2>1, <2>2, <2>3 DEF CloseConn
<1>8. ASSUME NEW p \in Callers,
             Begin(p) \/ Lock(p) \/ ScanEnd(p) \/ DialFails(p) \/ AddNew(p)
      PROVE  UNCHANGED Lease!vars
  <2>1. \A d \in Conns : Users(d)' = Users(d)
    BY <1>8 DEF TypeOK, Users, Begin, Lock, ScanEnd, DialFails, AddNew
  <2> QED
    BY <1>8, <2>1, LeaseUnchanged DEF Begin, Lock, ScanEnd, DialFails, AddNew
<1>9. ASSUME NEW p \in Callers, Visit(p)
      PROVE  [Lease!Next]_(Lease!vars)
  <2>1. PICK c \in todo : \E s \in States(c) :
          Skip(p, c, s) \/ Evict(p, c, s) \/ ParkBusy(p, c, s) \/ Take(p, c, s)
    BY <1>9 DEF Visit
  <2>2. PICK s \in States(c) :
          Skip(p, c, s) \/ Evict(p, c, s) \/ ParkBusy(p, c, s) \/ Take(p, c, s)
    BY <2>1
  <2>3. ASSUME Skip(p, c, s) \/ ParkBusy(p, c, s)
        PROVE  UNCHANGED Lease!vars
    <3>1. \A d \in Conns : Users(d)' = Users(d)
      BY <2>3 DEF Users, Skip, ParkBusy
    <3> QED
      BY <2>3, <3>1, LeaseUnchanged DEF Skip, ParkBusy
  <2> QED
    BY <1>2, <1>6, <1>9, <2>2, <2>3 DEF Visit
<1>10. ASSUME NEW c \in Conns, Expire(c)
       PROVE  UNCHANGED Lease!vars
  <2>1. \A d \in Conns : Users(d)' = Users(d)
    BY <1>10 DEF Users, Expire
  <2> QED
    BY <1>10, <2>1, LeaseUnchanged DEF Expire
<1> QED
  BY <1>3, <1>4, <1>7, <1>8, <1>9, <1>10 DEF Next, GetStep, Release

(* The pool keeps the promise ConnLease makes to its callers.              *)
THEOREM PoolImplementsLease == Spec => ImplementsLease
<1>1. Init => Lease!Init
  BY NoneOutside DEF Init, Lease!Init, Users
<1>2. IInv /\ [Next]_vars => [Lease!Next]_(Lease!vars)
  <2>1. ASSUME UNCHANGED vars PROVE UNCHANGED Lease!vars
    BY <2>1, LeaseUnchanged DEF vars, Users
  <2> QED
    BY <2>1, LeaseStep
<1> QED
  BY <1>1, <1>2, Invariant, PTL DEF Spec, ImplementsLease, Lease!Spec

-----------------------------------------------------------------------------
(* The linked lists.  What removeConn leaves in each node but the removed. *)
LEMMA Removed ==
  ASSUME NEW l \in Links, NEW c \in Conns, l[c].pre # NoConn
  PROVE  /\ RemoveConn(l, c) \in Links
         /\ RemoveConn(l, c)[c] = Detached
         /\ \A n \in Nodes \ {c} :
              /\ RemoveConn(l, c)[n].next = IF n = l[c].pre THEN l[c].next ELSE l[n].next
              /\ RemoveConn(l, c)[n].pre = IF n = l[c].next THEN l[c].pre ELSE l[n].pre
              /\ RemoveConn(l, c)[n].in = l[n].in
              /\ n \notin {l[c].pre, l[c].next} => RemoveConn(l, c)[n] = l[n]
<1> DEFINE p == l[c].pre
           q == l[c].next
           a == SetNext(l, p, q)
           b == SetPre(a, q, p)
<1>1. c \in Nodes /\ p \in Nodes /\ q \in Conns \cup {NoConn} /\ NoConn \notin Nodes
  BY NoneOutside, NodesApart DEF Links, Nodes
<1>2. Detached \in [pre : Nodes \cup {NoConn}, next : Conns \cup {NoConn}, in : BOOLEAN]
  BY DEF Detached
<1>3. /\ a \in Links
      /\ \A n \in Nodes : /\ a[n].next = IF n = p THEN q ELSE l[n].next
                          /\ a[n].pre = l[n].pre /\ a[n].in = l[n].in
                          /\ n # p => a[n] = l[n]
  BY <1>1 DEF SetNext, Links
<1> HIDE DEF a
<1>4. /\ b \in Links
      /\ \A n \in Nodes : /\ b[n].pre = IF n = q THEN p ELSE a[n].pre
                          /\ b[n].next = a[n].next /\ b[n].in = a[n].in
                          /\ n # q => b[n] = a[n]
  BY <1>1, <1>3 DEF SetPre, Links, Nodes
<1> HIDE DEF b
<1>5. RemoveConn(l, c) = [b EXCEPT ![c] = Detached]
  BY DEF RemoveConn, a, b
<1>6. [b EXCEPT ![c] = Detached] \in Links
  BY <1>1, <1>2, <1>4 DEF Links
<1> QED
  BY <1>1, <1>3, <1>4, <1>5, <1>6 DEF Links

(* What addConnAfter leaves in each node.                                  *)
LEMMA Added ==
  ASSUME NEW l \in Links, NEW c \in Conns, NEW h \in Nodes,
         NEW A, A = AddConnAfter(l, c, h)
  PROVE  /\ A \in Links
         /\ A[c].pre = h /\ A[c].next = l[h].next /\ A[c].in
         /\ \A n \in Nodes \ {c} :
              /\ A[n].next = IF n = h THEN c ELSE l[n].next
              /\ A[n].pre = IF n = l[h].next THEN c ELSE l[n].pre
              /\ A[n].in = l[n].in
              /\ n \notin {h, l[h].next} => A[n] = l[n]
<1> DEFINE q == l[h].next
           a == SetPre(l, q, c)
           b == SetNext(a, h, c)
           r == [pre |-> h, next |-> q, in |-> TRUE]
<1>1. c \in Nodes /\ q \in Conns \cup {NoConn} /\ NoConn \notin Nodes
  BY NoneOutside, NodesApart DEF Links, Nodes
<1>2. r \in [pre : Nodes \cup {NoConn}, next : Conns \cup {NoConn}, in : BOOLEAN]
  BY <1>1
<1>3. /\ a \in Links
      /\ \A n \in Nodes : /\ a[n].pre = IF n = q THEN c ELSE l[n].pre
                          /\ a[n].next = l[n].next /\ a[n].in = l[n].in
                          /\ n # q => a[n] = l[n]
  BY <1>1 DEF SetPre, Links, Nodes
<1> HIDE DEF a
<1>4. /\ b \in Links
      /\ \A n \in Nodes : /\ b[n].next = IF n = h THEN c ELSE a[n].next
                          /\ b[n].pre = a[n].pre /\ b[n].in = a[n].in
                          /\ n # h => b[n] = a[n]
  BY <1>1, <1>3 DEF SetNext, Links
<1> HIDE DEF b
<1>5. A = [b EXCEPT ![c] = r]
  BY DEF AddConnAfter, a, b
<1>6. [b EXCEPT ![c] = r] \in Links
  BY <1>1, <1>2, <1>4 DEF Links
<1> QED
  BY <1>1, <1>3, <1>4, <1>5, <1>6 DEF Links

(* A list loses the member that is removed.                                *)
LEMMA RemoveOwn ==
  ASSUME NEW l \in Links, NEW h \in Nodes \ Conns, NEW S \in SUBSET Conns,
         Linked(l, h, S), NEW c \in S
  PROVE  l[c].pre # NoConn /\ Linked(RemoveConn(l, c), h, S \ {c})
<1> DEFINE R == RemoveConn(l, c)
           p == l[c].pre
           q == l[c].next
<1>1. p # NoConn /\ c \in Conns /\ NoConn \notin Nodes /\ S \subseteq Nodes /\ c # h
  BY NoneOutside, NodesApart DEF Linked, Nodes
<1>2. \A n \in Nodes \ {c} : /\ R[n].next = IF n = p THEN q ELSE l[n].next
                             /\ R[n].pre = IF n = q THEN p ELSE l[n].pre
                             /\ R[n].in = l[n].in
  BY <1>1, Removed
<1> HIDE DEF R
<1>3. /\ \A n \in S \cup {h} : /\ l[n].next \in S \cup {NoConn}
                               /\ l[n].next # NoConn => l[l[n].next].pre = n
      /\ \A n \in S : l[n].pre \in S \cup {h} /\ l[l[n].pre].next = n /\ l[n].in
      /\ l[h].pre = NoConn
  BY DEF Linked
<1>4. \A n \in (S \ {c}) \cup {h} : n \in Nodes \ {c} /\ n \in S \cup {h}
  BY <1>1
<1>5. R[h].pre = NoConn
  BY <1>1, <1>2, <1>3
<1>6. ASSUME NEW n \in (S \ {c}) \cup {h}
      PROVE  /\ R[n].next \in (S \ {c}) \cup {NoConn}
             /\ R[n].next # NoConn => R[R[n].next].pre = n
  BY <1>1, <1>2, <1>3, <1>4
<1>7. ASSUME NEW n \in S \ {c}
      PROVE  R[n].pre \in (S \ {c}) \cup {h} /\ R[R[n].pre].next = n /\ R[n].in
  BY <1>1, <1>2, <1>3, <1>4
<1>8. Linked(R, h, S \ {c})
  BY <1>5, <1>6, <1>7 DEF Linked
<1> QED
  BY <1>1, <1>8 DEF R

(* The other list stays as it is.                                          *)
LEMMA RemoveOther ==
  ASSUME NEW l \in Links, NEW h \in Nodes \ Conns, NEW g \in Nodes \ Conns, g # h,
         NEW S \in SUBSET Conns, NEW T \in SUBSET Conns, S \cap T = {},
         Linked(l, h, S), Linked(l, g, T), NEW c \in S
  PROVE  Linked(RemoveConn(l, c), g, T)
<1> DEFINE R == RemoveConn(l, c)
<1>1. c \in Conns /\ NoConn \notin Nodes /\ T \cup {g} \subseteq Nodes /\ l[c].pre # NoConn
  BY NoneOutside, NodesApart DEF Linked, Nodes
<1>2. l[c].pre \notin T \cup {g} /\ l[c].next \notin T \cup {g} /\ c \notin T \cup {g}
  BY NoneOutside, NodesApart DEF Linked, Nodes
<1>3. \A n \in T \cup {g} : R[n].next = l[n].next /\ R[n].pre = l[n].pre /\ R[n].in = l[n].in
  BY <1>1, <1>2, Removed
<1> HIDE DEF R
<1>4. Linked(R, g, T)
  BY <1>1, <1>3 DEF Linked
<1> QED
  BY <1>4 DEF R

(* A detached node joins a list at its front.                              *)
LEMMA AddOwn ==
  ASSUME NEW l \in Links, NEW h \in Nodes \ Conns, NEW S \in SUBSET Conns,
         Linked(l, h, S), NEW c \in Conns \ S
  PROVE  Linked(AddConnAfter(l, c, h), h, S \cup {c})
<1> DEFINE A == AddConnAfter(l, c, h)
           q == l[h].next
<1>1. NoConn \notin Nodes /\ S \cup {h} \subseteq Nodes \ {c} /\ c \in Nodes /\ c # NoConn
  BY NoneOutside, NodesApart DEF Nodes
<1>2. /\ A[c].pre = h /\ A[c].next = q /\ A[c].in
      /\ \A n \in Nodes \ {c} : /\ A[n].next = IF n = h THEN c ELSE l[n].next
                                /\ A[n].pre = IF n = q THEN c ELSE l[n].pre
                                /\ A[n].in = l[n].in
  <2>1. c \in Conns /\ h \in Nodes /\ A = AddConnAfter(l, c, h)
    OBVIOUS
  <2> HIDE DEF A
  <2>3. A[c].pre = h /\ A[c].next = q /\ A[c].in
    BY <2>1, Added
  <2>4. \A n \in Nodes \ {c} : /\ A[n].next = IF n = h THEN c ELSE l[n].next
                               /\ A[n].pre = IF n = q THEN c ELSE l[n].pre
                               /\ A[n].in = l[n].in
    BY <2>1, Added
  <2> QED
    BY <2>3, <2>4
<1> HIDE DEF A
<1>3. /\ \A n \in S \cup {h} : /\ l[n].next \in S \cup {NoConn}
                               /\ l[n].next # NoConn => l[l[n].next].pre = n
      /\ \A n \in S : l[n].pre \in S \cup {h} /\ l[l[n].pre].next = n /\ l[n].in
      /\ l[h].pre = NoConn
  BY DEF Linked
<1>4. h \notin S
  OBVIOUS
<1>5. A[h].pre = NoConn
  BY <1>1, <1>2, <1>3, <1>4
<1>6. ASSUME NEW n \in S \cup {c} \cup {h}
      PROVE  /\ A[n].next \in S \cup {c} \cup {NoConn}
             /\ A[n].next # NoConn => A[A[n].next].pre = n
  BY <1>1, <1>2, <1>3, <1>4
<1>7. ASSUME NEW n \in S \cup {c}
      PROVE  A[n].pre \in S \cup {c} \cup {h} /\ A[A[n].pre].next = n /\ A[n].in
  BY <1>1, <1>2, <1>3, <1>4
<1>8. Linked(A, h, S \cup {c})
  BY <1>5, <1>6, <1>7 DEF Linked
<1> QED
  BY <1>8 DEF A

LEMMA AddOther ==
  ASSUME NEW l \in Links, NEW h \in Nodes \ Conns, NEW g \in Nodes \ Conns, g # h,
         NEW S \in SUBSET Conns, NEW T \in SUBSET Conns, S \cap T = {},
         Linked(l, h, S), Linked(l, g, T), NEW c \in Conns \ T
  PROVE  Linked(AddConnAfter(l, c, h), g, T)
<1> DEFINE A == AddConnAfter(l, c, h)
<1>1. NoConn \notin Nodes /\ T \cup {g} \subseteq Nodes \ {c} /\ h \notin T \cup {g}
  BY NoneOutside, NodesApart DEF Nodes
<1>2. l[h].next \notin T \cup {g}
  BY NoneOutside, NodesApart DEF Linked, Nodes
<1>3. \A n \in T \cup {g} : A[n].next = l[n].next /\ A[n].pre = l[n].pre /\ A[n].in = l[n].in
  <2>1. c \in Conns /\ h \in Nodes /\ A = AddConnAfter(l, c, h)
    OBVIOUS
  <2> HIDE DEF A
  <2>2. \A n \in Nodes \ {c} : /\ A[n].next = IF n = h THEN c ELSE l[n].next
                               /\ A[n].pre = IF n = l[h].next THEN c ELSE l[n].pre
                               /\ A[n].in = l[n].in
    BY <2>1, Added
  <2> QED
    BY <1>1, <1>2, <2>2
<1> HIDE DEF A
<1>4. Linked(A, g, T)
  BY <1>1, <1>3 DEF Linked
<1> QED
  BY <1>4 DEF A

-----------------------------------------------------------------------------
(* r numbers a list in its order: next is the member with the next number. *)
Ordered(l, h, S, r) ==
  /\ \A n \in S : r[h] < r[n]
  /\ \A n, m \in S : r[n] = r[m] => n = m
  /\ \A n \in S \cup {h} :
       /\ l[n].next # NoConn => r[n] < r[l[n].next]
       /\ \A m \in S : r[n] < r[m] => l[n].next # NoConn /\ r[l[n].next] <= r[m]

(* Two lists with nothing in common but their pointers' array.             *)
Two(l, h, S, g, T, r) ==
  /\ l \in Links /\ r \in [Nodes -> Int]
  /\ S \subseteq Conns /\ T \subseteq Conns /\ S \cap T = {}
  /\ Linked(l, h, S) /\ Linked(l, g, T)
  /\ Ordered(l, h, S, r) /\ Ordered(l, g, T, r)
  /\ \A c \in Conns \ (S \cup T) : l[c] = Detached

LEMMA OrderedSame ==
  ASSUME NEW l, NEW k, NEW g, NEW T, NEW r, NEW s, Ordered(l, g, T, r),
         \A n \in T \cup {g} : k[n].next = l[n].next /\ s[n] = r[n],
         \A n \in T \cup {g} : l[n].next # NoConn => l[n].next \in T
  PROVE  Ordered(k, g, T, s)
BY DEF Ordered

LEMMA OrderedRemove ==
  ASSUME NEW l \in Links, NEW h \in Nodes \ Conns, NEW S \in SUBSET Conns,
         NEW r \in [Nodes -> Int], Linked(l, h, S), Ordered(l, h, S, r), NEW c \in S
  PROVE  Ordered(RemoveConn(l, c), h, S \ {c}, r)
<1> DEFINE R == RemoveConn(l, c)
           p == l[c].pre
           q == l[c].next
<1>1. p # NoConn /\ c \in Conns /\ c # h /\ S \cup {h} \subseteq Nodes
  BY NoneOutside, NodesApart DEF Linked, Nodes
<1>2. \A n \in Nodes \ {c} : R[n].next = IF n = p THEN q ELSE l[n].next
  BY <1>1, Removed
<1> HIDE DEF R
<1>3. /\ \A n \in S \cup {h} : /\ l[n].next \in S \cup {NoConn}
                               /\ l[n].next # NoConn => l[l[n].next].pre = n
      /\ l[p].next = c /\ p \in S \cup {h}
  BY DEF Linked
<1>4. /\ \A n \in S : r[h] < r[n]
      /\ \A n, m \in S : r[n] = r[m] => n = m
      /\ \A n \in S \cup {h} :
           /\ l[n].next # NoConn => r[n] < r[l[n].next]
           /\ \A m \in S : r[n] < r[m] => l[n].next # NoConn /\ r[l[n].next] <= r[m]
  BY DEF Ordered
<1>5. \A n \in S \cup {h} : r[n] \in Int
  BY <1>1
<1>6. ASSUME NEW n \in (S \ {c}) \cup {h}
      PROVE  /\ R[n].next # NoConn => r[n] < r[R[n].next]
             /\ \A m \in S \ {c} : r[n] < r[m] => R[n].next # NoConn /\ r[R[n].next] <= r[m]
  <2>1. n \in Nodes \ {c} /\ n \in S \cup {h} /\ c \in S \cup {h}
    BY <1>1
  <2>2. CASE n = p
    <3>1. R[n].next = q /\ r[n] < r[c] /\ (q # NoConn => r[c] < r[q] /\ q \in S)
      <4>1. R[n].next = q
        BY <1>2, <2>1, <2>2
      <4>2. l[n].next = c /\ c # NoConn
        BY <1>1, <1>3, <2>2, NoneOutside
      <4>3. r[n] < r[c]
        BY <1>4, <2>1, <4>2
      <4>4. q # NoConn => r[c] < r[q] /\ q \in S
        BY <1>3, <1>4, <2>1
      <4> QED
        BY <4>1, <4>3, <4>4
    <3>2. \A m \in S \ {c} : r[n] < r[m] => r[c] < r[m]
      BY <1>1, <1>3, <1>4, <1>5, <2>1, <2>2
    <3>3. \A m \in S \ {c} : r[n] < r[m] => q # NoConn /\ r[q] <= r[m]
      BY <1>4, <2>1, <3>2
    <3>4. q # NoConn => r[n] < r[q]
      BY <1>5, <2>1, <3>1
    <3> QED
      BY <3>1, <3>3, <3>4
  <2>3. CASE n # p
    BY <1>2, <1>4, <2>1, <2>3
  <2> QED
    BY <2>2, <2>3
<1>7. Ordered(R, h, S \ {c}, r)
  BY <1>4, <1>6 DEF Ordered
<1> QED
  BY <1>7 DEF R

(* A list loses a member, in its order.                                    *)
LEMMA TwoRemove ==
  ASSUME NEW l, NEW h \in Nodes \ Conns, NEW g \in Nodes \ Conns, g # h, NEW S, NEW T, NEW r,
         Two(l, h, S, g, T, r), NEW c \in S
  PROVE  Two(RemoveConn(l, c), h, S \ {c}, g, T, r)
<1> DEFINE R == RemoveConn(l, c)
<1> USE DEF Two
<1>1. l \in Links /\ S \in SUBSET Conns /\ T \in SUBSET Conns /\ S \cap T = {} /\ c \in Conns
  OBVIOUS
<1>2. l[c].pre # NoConn /\ Linked(R, h, S \ {c}) /\ Linked(R, g, T)
  BY <1>1, RemoveOwn, RemoveOther
<1>3. Ordered(R, h, S \ {c}, r)
  BY <1>1, OrderedRemove
<1>4. /\ R \in Links /\ R[c] = Detached
      /\ \A n \in Nodes \ {c} :
           /\ R[n].next = IF n = l[c].pre THEN l[c].next ELSE l[n].next
           /\ R[n].pre = IF n = l[c].next THEN l[c].pre ELSE l[n].pre
           /\ R[n].in = l[n].in
           /\ n \notin {l[c].pre, l[c].next} => R[n] = l[n]
  BY <1>1, <1>2, Removed
<1>5. NoConn \notin Nodes /\ T \cup {g} \subseteq Nodes \ {c} /\ l[c].pre \notin T \cup {g}
  BY <1>1, NoneOutside, NodesApart DEF Linked, Nodes
<1>6. \A n \in T \cup {g} : l[n].next # NoConn => l[n].next \in T
  BY DEF Linked
<1> HIDE DEF R
<1>7. Ordered(R, g, T, r)
  BY <1>4, <1>5, <1>6, OrderedSame
<1>8. ASSUME NEW d \in Conns \ ((S \ {c}) \cup T) PROVE R[d] = Detached
  <2>1. CASE d = c
    BY <1>4, <2>1
  <2>2. CASE d # c
    <3>1. d \in Nodes \ {c} /\ d \notin S \cup {h} /\ d # NoConn /\ l[d] = Detached
      BY <1>1, <2>2, NoneOutside DEF Nodes
    <3>2. l[c].pre \in S \cup {h} /\ l[c].next \in S \cup {NoConn}
      BY DEF Linked
    <3>3. R[d] = l[d]
      BY <1>4, <3>1, <3>2
    <3> QED
      BY <3>1, <3>3
  <2> QED
    BY <2>1, <2>2
<1>9. Two(R, h, S \ {c}, g, T, r)
  BY <1>1, <1>2, <1>3, <1>4, <1>7, <1>8
<1> QED
  BY <1>9 DEF R

(* The node added in front takes the number of the list's own node, which  *)
(* takes a smaller one.                                                    *)
Renumbered(r, c, h) == [r EXCEPT ![c] = r[h], ![h] = r[h] - 1]

LEMMA OrderedAdd ==
  ASSUME NEW l \in Links, NEW h \in Nodes \ Conns, NEW S \in SUBSET Conns,
         NEW r \in [Nodes -> Int], Linked(l, h, S), Ordered(l, h, S, r), NEW c \in Conns \ S
  PROVE  Ordered(AddConnAfter(l, c, h), h, S \cup {c}, Renumbered(r, c, h))
<1> DEFINE A == AddConnAfter(l, c, h)
           s == Renumbered(r, c, h)
           q == l[h].next
<1>1. c \in Conns /\ h \in Nodes /\ c # h /\ A = AddConnAfter(l, c, h) /\ c # NoConn
  BY NoneOutside
<1>2. S \cup {h} \subseteq Nodes \ {c} /\ NoConn \notin Nodes /\ c \in Nodes /\ h \notin S
  BY NoneOutside, NodesApart DEF Nodes
<1>3. s[c] = r[h] /\ s[h] = r[h] - 1 /\ \A n \in Nodes \ {c, h} : s[n] = r[n]
  BY <1>1, <1>2 DEF Renumbered
<1> HIDE DEF A, s
<1>4. /\ A[c].next = q
      /\ \A n \in Nodes \ {c} : A[n].next = IF n = h THEN c ELSE l[n].next
  BY <1>1, Added
<1>5. \A n \in S \cup {h} : l[n].next \in S \cup {NoConn}
  BY DEF Linked
<1>6. /\ \A n \in S : r[h] < r[n]
      /\ \A n, m \in S : r[n] = r[m] => n = m
      /\ \A n \in S \cup {h} :
           /\ l[n].next # NoConn => r[n] < r[l[n].next]
           /\ \A m \in S : r[n] < r[m] => l[n].next # NoConn /\ r[l[n].next] <= r[m]
  BY DEF Ordered
<1>7. r[h] \in Int /\ \A n \in S : r[n] \in Int /\ s[n] = r[n]
  BY <1>2, <1>3
<1>8. \A n \in S \cup {c} : s[h] < s[n]
  BY <1>3, <1>6, <1>7
<1>9. \A n, m \in S \cup {c} : s[n] = s[m] => n = m
  BY <1>3, <1>6, <1>7
<1>10. ASSUME NEW n \in S \cup {c} \cup {h}
       PROVE  /\ A[n].next # NoConn => s[n] < s[A[n].next]
              /\ \A m \in S \cup {c} : s[n] < s[m] => A[n].next # NoConn /\ s[A[n].next] <= s[m]
  <2>1. CASE n = h
    <3>1. A[n].next = c
      BY <1>1, <1>4, <2>1
    <3>2. \A m \in S \cup {c} : s[c] <= s[m]
      BY <1>3, <1>6, <1>7
    <3> QED
      BY <1>1, <1>8, <2>1, <3>1, <3>2
  <2>2. CASE n = c
    <3>1. A[n].next = q /\ q \in S \cup {NoConn}
      BY <1>4, <1>5, <2>2
    <3>2. q # NoConn => s[n] < s[q]
      BY <1>3, <1>6, <1>7, <2>2, <3>1
    <3>3. \A m \in S : s[m] = r[m] /\ r[h] < r[m] /\ q # NoConn /\ r[q] <= r[m]
      BY <1>6, <1>7
    <3>4. \A m \in S : q # NoConn /\ s[q] <= s[m]
      BY <1>7, <3>1, <3>3
    <3> QED
      BY <1>3, <1>7, <2>2, <3>1, <3>2, <3>4
  <2>3. CASE n \in S
    <3>1. A[n].next = l[n].next /\ l[n].next \in S \cup {NoConn}
      BY <1>2, <1>4, <1>5, <2>3
    <3>2. ~(s[n] < s[c])
      BY <1>3, <1>6, <1>7, <2>3
    <3> QED
      BY <1>6, <1>7, <2>3, <3>1, <3>2
  <2> QED
    BY <2>1, <2>2, <2>3
<1>11. Ordered(A, h, S \cup {c}, s)
  BY <1>8, <1>9, <1>10 DEF Ordered
<1> QED
  BY <1>11 DEF A, s

(* A list gets a first member.                                             *)
LEMMA TwoAdd ==
  ASSUME NEW l, NEW h \in Nodes \ Conns, NEW g \in Nodes \ Conns, g # h, NEW S, NEW T, NEW r,
         Two(l, h, S, g, T, r), NEW c \in Conns, c \notin S, c \notin T
  PROVE  Two(AddConnAfter(l, c, h), h, S \cup {c}, g, T, Renumbered(r, c, h))
<1> DEFINE A == AddConnAfter(l, c, h)
           s == Renumbered(r, c, h)
<1> USE DEF Two
<1>1. /\ l \in Links /\ r \in [Nodes -> Int] /\ h \in Nodes /\ c \in Nodes
      /\ S \in SUBSET Conns /\ T \in SUBSET Conns /\ S \cap T = {}
      /\ c \in Conns \ S /\ c \in Conns \ T /\ A = AddConnAfter(l, c, h)
  BY DEF Nodes
<1>2. Linked(A, h, S \cup {c}) /\ Linked(A, g, T)
  BY <1>1, AddOwn, AddOther
<1>3. Ordered(A, h, S \cup {c}, s)
  BY <1>1, OrderedAdd
<1>4. s \in [Nodes -> Int] /\ \A n \in Nodes \ {c, h} : s[n] = r[n]
  BY <1>1 DEF Renumbered
<1> HIDE DEF A, s
<1>5. /\ A \in Links
      /\ \A n \in Nodes \ {c} : /\ A[n].next = IF n = h THEN c ELSE l[n].next
                                /\ n \notin {h, l[h].next} => A[n] = l[n]
  BY <1>1, Added
<1>6. T \cup {g} \subseteq Nodes \ {c, h}
  BY <1>1 DEF Nodes
<1>7. \A n \in T \cup {g} : l[n].next # NoConn => l[n].next \in T
  BY DEF Linked
<1>8. Ordered(A, g, T, s)
  BY <1>4, <1>5, <1>6, <1>7, OrderedSame
<1>9. ASSUME NEW d \in Conns \ (S \cup {c} \cup T) PROVE A[d] = Detached
  <2>1. d \in Nodes \ {c} /\ d # h /\ d # NoConn /\ d \notin S /\ l[d] = Detached
    BY <1>1, NoneOutside DEF Nodes
  <2>2. l[h].next \in S \cup {NoConn}
    BY DEF Linked
  <2> QED
    BY <1>5, <2>1, <2>2
<1>10. Two(A, h, S \cup {c}, g, T, s)
  BY <1>1, <1>2, <1>3, <1>4, <1>5, <1>8, <1>9
<1> QED
  BY <1>10 DEF A, s

-----------------------------------------------------------------------------
(* The walk of PoolLists is one that ConnPool allows: what ConnPool holds  *)
(* still to be visited is the rest of the list from the cursor on.         *)
Walk(r) ==
  /\ Two(link, HeadNode, head, BusyNode, busy, r)
  /\ cursor \in head \cup {NoConn}
  /\ todo = IF cursor = NoConn THEN {} ELSE {m \in head : r[cursor] <= r[m]}

ListsInv == IInv /\ \E r : Walk(r)

LEMMA TwoNodes ==
  /\ HeadNode \in Nodes \ Conns /\ BusyNode \in Nodes \ Conns /\ HeadNode # BusyNode
  /\ NoConn \notin Nodes
BY NoneOutside, NodesApart DEF Nodes

(* The two lists in the other order.                                       *)
LEMMA TwoSwap ==
  ASSUME NEW l, NEW h, NEW S, NEW g, NEW T, NEW r, Two(l, h, S, g, T, r)
  PROVE  Two(l, g, T, h, S, r)
BY DEF Two

LEMMA ListsInitInv == ListsInit => ListsInv
<1> SUFFICES ASSUME ListsInit PROVE ListsInv
  OBVIOUS
<1> DEFINE r == [n \in Nodes |-> 0]
<1>1. IInv
  BY InitIInv DEF ListsInit
<1>2. \A n \in Nodes : link[n] = Detached
  BY DEF ListsInit
<1>3. Detached.pre = NoConn /\ Detached.next = NoConn /\ Detached.in = FALSE
  BY DEF Detached
<1>4. link \in Links
  BY <1>3 DEF ListsInit, Links, Detached
<1>5. \A h \in Nodes : Linked(link, h, {}) /\ Ordered(link, h, {}, r)
  BY <1>2, <1>3 DEF Linked, Ordered
<1>6. Walk(r)
  BY <1>2, <1>4, <1>5, TwoNodes DEF Walk, Two, ListsInit, Init, Nodes
<1> QED
  BY <1>1, <1>6 DEF ListsInv

(* The walk begins at the first node, and the whole list is before it.     *)
LEMMA WalkStartKeeps ==
  ASSUME IInv, NEW r, Walk(r), NEW p \in Callers, WalkStart(p)
  PROVE  Walk(r)'
<1>1. UNCHANGED <<head, busy, link>> /\ todo' = head /\ cursor' = link[HeadNode].next
  BY DEF WalkStart, Lock
<1>2. /\ link[HeadNode].next \in head \cup {NoConn}
      /\ \A m \in head : r[HeadNode] < r[m]
      /\ \A m \in head : link[HeadNode].next # NoConn /\ r[link[HeadNode].next] <= r[m]
  BY DEF Walk, Two, Linked, Ordered
<1>3. Two(link, HeadNode, head, BusyNode, busy, r)'
  BY <1>1 DEF Walk, Two, Linked, Ordered
<1>4. todo' = IF cursor' = NoConn THEN {} ELSE {m \in head : r[cursor'] <= r[m]}
  BY <1>1, <1>2
<1> QED
  BY <1>1, <1>2, <1>3, <1>4 DEF Walk

(* Where the walk is: at a node still to be visited, with a next one that  *)
(* is not itself and has what is left behind it.                           *)
LEMMA AtCursor ==
  ASSUME IInv, NEW r, Walk(r), cursor # NoConn
  PROVE  /\ cursor \in todo /\ cursor \in head /\ cursor \in Conns
         /\ NextNode(cursor) \in (head \ {cursor}) \cup {NoConn}
         /\ todo \ {cursor} = IF NextNode(cursor) = NoConn THEN {}
                              ELSE {m \in head \ {cursor} : r[NextNode(cursor)] <= r[m]}
<1> DEFINE q == link[cursor].next
<1>1. cursor \in head /\ cursor \in Conns /\ head \subseteq Nodes /\ r \in [Nodes -> Int]
  BY DEF Walk, Two, Nodes
<1>2. \A m \in head : r[m] \in Int
  BY <1>1
<1>3. /\ q \in head \cup {NoConn}
      /\ q # NoConn => r[cursor] < r[q]
      /\ \A n, m \in head : r[n] = r[m] => n = m
      /\ \A m \in head : r[cursor] < r[m] => q # NoConn /\ r[q] <= r[m]
  BY <1>1 DEF Walk, Two, Linked, Ordered
<1>4. todo = {m \in head : r[cursor] <= r[m]}
  BY DEF Walk
<1>5. cursor \in todo
  BY <1>1, <1>2, <1>4
<1>6. \A m \in head : m \in todo \ {cursor} <=> r[cursor] < r[m]
  BY <1>1, <1>2, <1>3, <1>4
<1>7. \A m \in head : r[cursor] < r[m] <=> (q # NoConn /\ r[q] <= r[m])
  BY <1>1, <1>2, <1>3
<1>8. q # cursor
  BY <1>1, <1>2, <1>3, TwoNodes
<1>9. \A m : m \in todo \ {cursor} <=> m \in head /\ q # NoConn /\ r[q] <= r[m]
  BY <1>4, <1>6, <1>7
<1>10. ~(q # NoConn /\ r[q] <= r[cursor])
  BY <1>1, <1>2, <1>3
<1>11. todo \ {cursor} = IF q = NoConn THEN {} ELSE {m \in head \ {cursor} : r[q] <= r[m]}
  BY <1>1, <1>9, <1>10
<1> QED
  BY <1>1, <1>3, <1>5, <1>8, <1>11 DEF NextNode

(* Every case of the walk's step is one of ConnPool's Visit.               *)
LEMMA WalkStepKeeps ==
  ASSUME IInv, NEW r, Walk(r), NEW p \in Callers, WalkStep(p)
  PROVE  Visit(p) /\ \E s : Walk(s)'
<1> DEFINE c == cursor
           q == NextNode(cursor)
<1>1. /\ c \in todo /\ c \in head /\ c \in Conns /\ c \notin busy
      /\ q \in (head \ {c}) \cup {NoConn}
      /\ todo \ {c} = IF q = NoConn THEN {} ELSE {m \in head \ {c} : r[q] <= r[m]}
  BY AtCursor DEF WalkStep, IInv, ListsOK
<1>2. Visit(p)
  BY <1>1 DEF WalkStep, Visit
<1>3. PICK st \in States(c) :
        \/ Skip(p, c, st) /\ cursor' = q /\ UNCHANGED link
        \/ Evict(p, c, st) /\ cursor' = q /\ link' = RemoveConn(link, c)
        \/ /\ ParkBusy(p, c, st) /\ cursor' = q
           /\ link' = AddConnAfter(RemoveConn(link, c), c, BusyNode)
        \/ Take(p, c, st) /\ cursor' = NoConn /\ UNCHANGED link
  BY DEF WalkStep
<1>4. Two(link, HeadNode, head, BusyNode, busy, r)
  BY DEF Walk
<1>5. Two(RemoveConn(link, c), HeadNode, head \ {c}, BusyNode, busy, r)
  BY <1>1, <1>4, TwoNodes, TwoRemove
<1> HIDE DEF c, q
<1>6. CASE Skip(p, c, st) /\ cursor' = q /\ UNCHANGED link
  <2>1. UNCHANGED <<head, busy>> /\ todo' = todo \ {c}
    BY <1>6 DEF Skip, Rest
  <2>2. todo \ {c} = IF q = NoConn THEN {} ELSE {m \in head : r[q] <= r[m]}
    <3>1. c = cursor /\ q = link[c].next
      BY DEF c, q, NextNode
    <3>2. q # NoConn => r[c] < r[q]
      BY <1>1, <1>4, <3>1 DEF Two, Ordered
    <3>3. q # NoConn => ~(r[q] <= r[c])
      BY <1>1, <1>4, <3>2 DEF Two, Nodes
    <3> QED
      BY <1>1, <3>3
  <2>3. Two(link', HeadNode, head', BusyNode, busy', r)
    BY <1>4, <1>6, <2>1
  <2>4. Walk(r)'
    BY <1>1, <1>6, <2>1, <2>2, <2>3 DEF Walk
  <2> QED
    BY <1>2, <2>4
<1>7. CASE Evict(p, c, st) /\ cursor' = q /\ link' = RemoveConn(link, c)
  <2>1. head' = head \ {c} /\ busy' = busy /\ todo' = todo \ {c}
    BY <1>7 DEF Evict, Rest
  <2>2. Walk(r)'
    BY <1>1, <1>5, <1>7, <2>1 DEF Walk
  <2> QED
    BY <1>2, <2>2
<1>8. CASE /\ ParkBusy(p, c, st) /\ cursor' = q
           /\ link' = AddConnAfter(RemoveConn(link, c), c, BusyNode)
  <2>0. PICK s : s = Renumbered(r, c, BusyNode)
    OBVIOUS
  <2>1. head' = head \ {c} /\ busy' = busy \cup {c} /\ todo' = todo \ {c}
    BY <1>8 DEF ParkBusy, Rest
  <2>2. Two(RemoveConn(link, c), BusyNode, busy, HeadNode, head \ {c}, r)
    BY <1>5, TwoSwap
  <2>3. Two(link', BusyNode, busy \cup {c}, HeadNode, head \ {c}, s)
    BY <1>1, <1>8, <2>0, <2>2, TwoNodes, TwoAdd
  <2>4. Two(link', HeadNode, head', BusyNode, busy', s)
    BY <2>1, <2>3, TwoSwap
  <2>5. \A m \in head \ {c} : s[m] = r[m]
    BY <1>4, <2>0, TwoNodes DEF Renumbered, Two, Nodes
  <2>6. todo \ {c} = IF q = NoConn THEN {} ELSE {m \in head \ {c} : s[q] <= s[m]}
    BY <1>1, <2>5
  <2>7. Walk(s)'
    BY <1>1, <1>8, <2>1, <2>4, <2>6 DEF Walk
  <2> QED
    BY <1>2, <2>7
<1>9. CASE Take(p, c, st) /\ cursor' = NoConn /\ UNCHANGED link
  <2>1. UNCHANGED <<head, busy>> /\ todo' = {}
    BY <1>9 DEF Take
  <2>2. Walk(r)'
    BY <1>4, <1>9, <2>1 DEF Walk
  <2> QED
    BY <1>2, <2>2
<1> QED
  BY <1>3, <1>6, <1>7, <1>8, <1>9

(* With the mutex free no walk is under way, and the numbers are free too. *)
LEMMA NotWalking ==
  ASSUME IInv, NEW r, Walk(r), lock = NoCaller
  PROVE  cursor = NoConn /\ todo = {}
BY AtCursor DEF IInv, ListsOK

LEMMA AddNodeKeeps ==
  ASSUME IInv, NEW r, Walk(r), NEW p \in Callers, AddNode(p)
  PROVE  \E s : Walk(s)'
<1> DEFINE c == held[p]
<1>1. cursor = NoConn /\ todo = {} /\ cursor' = cursor /\ todo' = todo /\ busy' = busy
  BY NotWalking DEF AddNode, AddNew
<1>2. c \in Conns /\ c \notin head /\ c \notin busy
  BY DEF IInv, TypeOK, HoldersOK, AddNode, AddNew, Pooled
<1>3. Two(link, HeadNode, head, BusyNode, busy, r)
  BY DEF Walk
<1>4. CASE HasRoom
  <2>1. head' = head \cup {c} /\ link' = AddConnAfter(link, c, HeadNode)
    BY <1>4 DEF AddNode, AddNew
  <2>2. PICK s : s = Renumbered(r, c, HeadNode)
    OBVIOUS
  <2>3. Two(link', HeadNode, head', BusyNode, busy', s)
    BY <1>1, <1>2, <1>3, <2>1, <2>2, TwoNodes, TwoAdd
  <2>4. Walk(s)'
    BY <1>1, <2>3 DEF Walk
  <2> QED
    BY <2>4
<1>5. CASE ~HasRoom
  <2>1. UNCHANGED <<head, link>>
    BY <1>5 DEF AddNode, AddNew
  <2>2. Walk(r)'
    BY <1>1, <1>3, <2>1 DEF Walk
  <2> QED
    BY <2>2
<1> QED
  BY <1>4, <1>5

(* A dialled connection is on no list, so its node is detached already.    *)
LEMMA DialNodeKeeps ==
  ASSUME IInv, NEW r, Walk(r), NEW p \in Callers, DialNode(p)
  PROVE  Walk(r)'
<1>1. PICK c \in Conns \ (open \cup Pooled) : held' = [held EXCEPT ![p] = c]
  BY DEF DialNode, Dial
<1>2. held'[p] = c
  BY <1>1 DEF IInv, TypeOK
<1>3. link[c] = Detached
  BY <1>1 DEF Walk, Two, Pooled
<1>4. link' = link
  BY <1>1, <1>2, <1>3 DEF DialNode, Walk, Two, Links
<1>5. UNCHANGED <<head, busy, todo, cursor>>
  BY DEF DialNode, Dial
<1> QED
  BY <1>4, <1>5 DEF Walk

(* On one list or on none, a connection is moved to the front of the head  *)
(* list.                                                                   *)
LEMMA ToFront ==
  ASSUME NEW l, NEW S, NEW T, NEW r, NEW c \in Conns,
         Two(l, HeadNode, S, BusyNode, T, r), c \in S \cup T
  PROVE  \E s : Two(AddConnAfter(RemoveConn(l, c), c, HeadNode),
                    HeadNode, S \cup {c}, BusyNode, T \ {c}, s)
<1>1. Two(RemoveConn(l, c), HeadNode, S \ {c}, BusyNode, T \ {c}, r)
  <2>1. CASE c \in S
    <3>1. T \ {c} = T
      BY <2>1 DEF Two
    <3> QED
      BY <2>1, <3>1, TwoNodes, TwoRemove
  <2>2. CASE c \in T
    <3>1. S \ {c} = S
      BY <2>2 DEF Two
    <3>2. Two(l, BusyNode, T, HeadNode, S, r)
      BY TwoSwap
    <3>3. Two(RemoveConn(l, c), BusyNode, T \ {c}, HeadNode, S, r)
      BY <2>2, <3>2, TwoNodes, TwoRemove
    <3> QED
      BY <3>1, <3>3, TwoSwap
  <2> QED
    BY <2>1, <2>2
<1>2. (S \ {c}) \cup {c} = S \cup {c} /\ c \notin S \ {c} /\ c \notin T \ {c}
  OBVIOUS
<1> QED
  BY <1>1, <1>2, TwoNodes, TwoAdd

(* The first half of release on the pointers is HeadAfter and BusyAfter.   *)
LEMMA MovedKeeps ==
  ASSUME IInv, NEW r, Two(link, HeadNode, head, BusyNode, busy, r),
         NEW c \in Conns, c \in Pooled \/ HasRoom
  PROVE  \E s : Two(Moved(c), HeadNode, HeadAfter(c), BusyNode, BusyAfter(c), s)
<1>1. head \cap busy = {} /\ link \in Links /\ c \in Nodes
  BY DEF Two, Nodes
<1>2. CASE c \notin Pooled
  <2>1. Joined(c) = AddConnAfter(link, c, HeadNode) /\ HeadAfter(c) = head \cup {c}
        /\ c \notin head /\ c \notin busy
    BY <1>2 DEF Joined, HeadAfter, Joins, Pooled
  <2>2. BusyAfter(c) = busy /\ busy \ {c} = busy
    BY <2>1 DEF BusyAfter
  <2>3. PICK t : t = Renumbered(r, c, HeadNode)
    OBVIOUS
  <2>4. Two(Joined(c), HeadNode, head \cup {c}, BusyNode, busy, t)
    BY <2>1, <2>3, TwoNodes, TwoAdd
  <2>5. CASE Joined(c)[c].in /\ IsFull(c)
    <3>1. Moved(c) = AddConnAfter(RemoveConn(Joined(c), c), c, HeadNode)
      BY <2>5 DEF Moved
    <3>2. (head \cup {c}) \cup {c} = head \cup {c} /\ c \in (head \cup {c}) \cup busy
      OBVIOUS
    <3>3. \E s : Two(Moved(c), HeadNode, (head \cup {c}) \cup {c}, BusyNode, busy \ {c}, s)
      BY <2>4, <3>1, <3>2, ToFront
    <3> QED
      BY <2>1, <2>2, <3>2, <3>3
  <2>6. CASE ~(Joined(c)[c].in /\ IsFull(c))
    BY <2>1, <2>2, <2>4, <2>6 DEF Moved
  <2> QED
    BY <2>5, <2>6
<1>3. CASE c \in Pooled
  <2>1. Joined(c) = link /\ link[c].in
    BY <1>3 DEF Joined, Joins, Two, Linked, Pooled
  <2>2. CASE IsFull(c)
    <3>1. Moved(c) = AddConnAfter(RemoveConn(link, c), c, HeadNode)
      BY <2>1, <2>2 DEF Moved
    <3>2. HeadAfter(c) = head \cup {c} /\ BusyAfter(c) = busy \ {c} /\ c \in head \cup busy
      BY <1>3, <2>2 DEF HeadAfter, BusyAfter, Pooled
    <3>3. \E s : Two(AddConnAfter(RemoveConn(link, c), c, HeadNode),
                     HeadNode, head \cup {c}, BusyNode, busy \ {c}, s)
      BY <3>2, ToFront
    <3> QED
      BY <3>1, <3>2, <3>3
  <2>3. CASE ~IsFull(c)
    <3>1. Moved(c) = link /\ HeadAfter(c) = head /\ BusyAfter(c) = busy
      BY <1>3, <2>1, <2>3 DEF Moved, HeadAfter, BusyAfter, Joins
    <3> QED
      BY <3>1
  <2> QED
    BY <2>2, <2>3
<1> QED
  BY <1>2, <1>3

LEMMA ReleaseNodeKeeps ==
  ASSUME IInv, NEW r, Walk(r),
         NEW p \in Callers, NEW c \in Conns, NEW err \in BOOLEAN, ReleaseNode(p, c, err)
  PROVE  Release(p, err) /\ \E s : Walk(s)'
<1>1. Release(p, err)
  BY DEF ReleaseNode, Release
<1>2. lock = NoCaller /\ cursor' = cursor /\ todo' = todo
  BY DEF ReleaseNode, Reject, Return, Keep, Discard, Releasing
<1>3. cursor' = NoConn /\ todo' = {}
  BY <1>2, NotWalking
<1>4. Two(link, HeadNode, head, BusyNode, busy, r)
  BY DEF Walk
<1>5. CASE Reject(p, c) /\ UNCHANGED link
  <2>1. UNCHANGED <<head, busy>>
    BY <1>5 DEF Reject
  <2>2. Walk(r)'
    BY <1>3, <1>4, <1>5, <2>1 DEF Walk
  <2> QED
    BY <1>1, <2>2
<1>6. CASE (Return(p, c) \/ Keep(p, c, err)) /\ link' = Moved(c)
  <2>1. (c \in Pooled \/ HasRoom) /\ head' = HeadAfter(c) /\ busy' = BusyAfter(c)
    BY <1>6 DEF Return, Keep
  <2>2. PICK s : Two(Moved(c), HeadNode, HeadAfter(c), BusyNode, BusyAfter(c), s)
    BY <1>4, <2>1, MovedKeeps
  <2>3. Walk(s)'
    BY <1>3, <1>6, <2>1, <2>2 DEF Walk
  <2> QED
    BY <1>1, <2>3
<1>7. CASE Discard(p, c, err) /\ link' = RemoveConn(Moved(c), c)
  <2>1. /\ c \in Pooled \/ HasRoom
        /\ head' = HeadAfter(c) \ {c} /\ busy' = BusyAfter(c) \ {c} /\ Releasing(p, c)
    BY <1>7 DEF Discard
  <2>2. PICK s : Two(Moved(c), HeadNode, HeadAfter(c), BusyNode, BusyAfter(c), s)
    BY <1>4, <2>1, MovedKeeps
  <2>3. PlacedOK(p, c)
    BY <2>1, Placed
  <2>4. c \in HeadAfter(c) /\ BusyAfter(c) \ {c} = BusyAfter(c)
    BY <2>3 DEF PlacedOK
  <2>5. Two(link', HeadNode, head', BusyNode, busy', s)
    BY <1>7, <2>1, <2>2, <2>4, TwoNodes, TwoRemove
  <2>6. Walk(s)'
    BY <1>3, <2>5 DEF Walk
  <2> QED
    BY <1>1, <2>6
<1> QED
  BY <1>5, <1>6, <1>7 DEF ReleaseNode

(* A step of the lists is one of the sets, and the two stay in agreement.  *)
LEMMA ListsStep == ListsInv /\ [ListsNext]_listVars => [Next]_vars /\ ListsInv'
<1> SUFFICES ASSUME ListsInv, [ListsNext]_listVars PROVE [Next]_vars /\ ListsInv'
  OBVIOUS
<1>1. IInv
  BY DEF ListsInv
<1>2. PICK r : Walk(r)
  BY DEF ListsInv
<1>3. ASSUME UNCHANGED <<head, busy, todo, link, cursor>> PROVE Walk(r)'
  BY <1>2, <1>3 DEF Walk
<1>4. ASSUME NEW p \in Callers, WalkStart(p) PROVE Next /\ \E s : Walk(s)'
  BY <1>1, <1>2, <1>4, WalkStartKeeps DEF WalkStart, Next, GetStep
<1>5. ASSUME NEW p \in Callers, WalkStep(p) PROVE Next /\ \E s : Walk(s)'
  BY <1>1, <1>2, <1>5, WalkStepKeeps DEF Next, GetStep
<1>6. ASSUME NEW p \in Callers, WalkEnd(p) PROVE Next /\ \E s : Walk(s)'
  BY <1>3, <1>6 DEF WalkEnd, ScanEnd, Next, GetStep
<1>7. ASSUME NEW p \in Callers, DialNode(p) PROVE Next /\ \E s : Walk(s)'
  BY <1>1, <1>2, <1>7, DialNodeKeeps DEF DialNode, Next, GetStep
<1>8. ASSUME NEW p \in Callers, AddNode(p) PROVE Next /\ \E s : Walk(s)'
  BY <1>1, <1>2, <1>8, AddNodeKeeps DEF AddNode, Next, GetStep
<1>9. ASSUME NEW p \in Callers, NEW c \in Conns, NEW err \in BOOLEAN, ReleaseNode(p, c, err)
      PROVE  Next /\ \E s : Walk(s)'
  BY <1>1, <1>2, <1>9, ReleaseNodeKeeps DEF Next
<1>10. ASSUME Elsewhere PROVE Next /\ \E s : Walk(s)'
  <2>1. UNCHANGED <<head, busy, todo, link, cursor>>
    BY <1>10 DEF Elsewhere, Begin, DialFails, CloseConn, Expire
  <2>2. Next
    BY <1>10 DEF Elsewhere, Next, GetStep
  <2> QED
    BY <1>3, <2>1, <2>2
<1>11. ASSUME UNCHANGED listVars PROVE UNCHANGED vars /\ \E s : Walk(s)'
  BY <1>3, <1>11 DEF listVars, vars
<1>12. [Next]_vars /\ \E s : Walk(s)'
  BY <1>4, <1>5, <1>6, <1>7, <1>8, <1>9, <1>10, <1>11 DEF ListsNext
<1>13. IInv'
  BY <1>1, <1>12, NextPreserves
<1> QED
  BY <1>12, <1>13 DEF ListsInv

(* The pool with its linked lists is a pool of sets: what holds of the     *)
(* sets, IInv and ImplementsLease with it, holds of the code's lists.      *)
THEOREM ListsImplementSets == ListsSpec => Spec
<1>1. ListsInit => Init /\ ListsInv
  BY ListsInitInv DEF ListsInit
<1> QED
  BY <1>1, ListsStep, PTL DEF ListsSpec, Spec

(* The pointers are those of two lists, and the walk stays on the first    *)
(* until nothing of it is left to visit.                                   *)
THEOREM ListsLinkedCorrect == ListsSpec => []ListsLinked
<1>1. ListsInit => ListsInv
  BY ListsInitInv
<1>2. ListsInv => ListsLinked
  <2> SUFFICES ASSUME ListsInv PROVE ListsLinked
    OBVIOUS
  <2>1. PICK r : Walk(r)
    BY DEF ListsInv
  <2>2. Wired(link, head, busy) /\ cursor \in head \cup {NoConn}
    BY <2>1 DEF Walk, Two, Wired
  <2>3. cursor = NoConn => todo = {}
    BY <2>1 DEF Walk
  <2>4. cursor # NoConn => cursor \in todo
    BY <2>1, AtCursor DEF ListsInv
  <2> QED
    BY <2>2, <2>3, <2>4 DEF ListsLinked
<1> QED
  BY <1>1, <1>2, ListsStep, PTL DEF ListsSpec
=============================================================================
