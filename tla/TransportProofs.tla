-------------------------- MODULE TransportProofs ---------------------------
(***************************************************************************)
(* Proofs about what carries a call besides the gRPC client: NatsClient,   *)
(* Metadata, Endpoints and Deadlines, in this order.  They share no        *)
(* variable, and no lemma of one is used for another.                      *)
(***************************************************************************)
EXTENDS NatsClient, Metadata, Endpoints, Deadlines, SequenceTheorems, TLAPS

-----------------------------------------------------------------------------
(***************************************************************************)
(* NatsClient, for every set of publishers and every number                *)
(* of connections.  What makes the retries and the resubscriptions right   *)
(* is that a connection is stored once: one that a publisher has made and  *)
(* not stored yet is known to nobody else.                                 *)
(***************************************************************************)

(* A connection that waits to be stored is nobody else's.                  *)
FreshIsNew ==
  \A q \in Publishers : pc[q] = "store" =>
    /\ fresh[q] \in Conns \ {conn}
    /\ \A p \in Publishers : /\ fresh[q] # used[p] /\ fresh[q] # failed[p]
                             /\ p # q => fresh[q] # fresh[p]

(* A publisher reconnects only after its connection was closed, and from   *)
(* then on the client has another one.                                     *)
FailedIsGone ==
  \A p \in Publishers :
    /\ pc[p] \in {"idle", "publish"} => failed[p] = NoConn
    /\ pc[p] \in {"connect", "store"} => used[p] \in closed /\ failed[p] = used[p]
    /\ pc[p] \in {"handle", "again"} /\ failed[p] # NoConn => conn # failed[p]
    /\ pc[p] = "handle" => fresh[p] \in Conns

NatsInv == NatsTypeOK /\ FreshIsNew /\ FailedIsGone /\ RetriesElsewhere

-----------------------------------------------------------------------------
LEMMA InitNatsInv == NatsInit => NatsInv
<1> SUFFICES ASSUME NatsInit PROVE NatsInv
  OBVIOUS
<1> USE SomeConn DEF NatsInit, None, NoConn, Conns
<1>1. NatsTypeOK
  <2>1. opened \in 1..MaxConn /\ conn \in Conns /\ unhandled \subseteq Conns
    OBVIOUS
  <2>2. /\ closed \subseteq Conns /\ subscribed \subseteq Conns /\ overtaken \subseteq Conns
        /\ handlerSet \in BOOLEAN
    OBVIOUS
  <2>3. /\ used \in [Publishers -> Conns \cup {NoConn}]
        /\ failed \in [Publishers -> Conns \cup {NoConn}]
        /\ fresh \in [Publishers -> Conns \cup {NoConn}]
    OBVIOUS
  <2> QED
    BY <2>1, <2>2, <2>3 DEF NatsTypeOK
<1>2. FreshIsNew /\ FailedIsGone /\ RetriesElsewhere
  BY DEF FreshIsNew, FailedIsGone, RetriesElsewhere
<1> QED
  BY <1>1, <1>2 DEF NatsInv

(* The end of a publish, successful or not.                                *)
LEMMA ReturnPreserves ==
  ASSUME NatsInv, NEW p \in Publishers, NEW from, Return(p, from)
  PROVE  NatsInv'
<1> USE DEF NatsInv, NatsTypeOK, Conns, NoConn, Return, Go, library, history
<1>1. NatsTypeOK'
  OBVIOUS
<1>2. FreshIsNew'
  BY DEF FreshIsNew
<1>3. FailedIsGone' /\ RetriesElsewhere'
  BY DEF FailedIsGone, RetriesElsewhere
<1> QED
  BY <1>1, <1>2, <1>3

LEMMA LoadPreserves ==
  ASSUME NatsInv, NEW p \in Publishers, Load(p)
  PROVE  NatsInv'
<1> USE DEF NatsInv, NatsTypeOK, Conns, NoConn, Load, Go, library, history
<1>1. NatsTypeOK'
  OBVIOUS
<1>2. FreshIsNew'
  BY DEF FreshIsNew
<1>3. FailedIsGone' /\ RetriesElsewhere'
  BY DEF FailedIsGone, RetriesElsewhere
<1> QED
  BY <1>1, <1>2, <1>3

LEMMA FailsPreserves ==
  ASSUME NatsInv, NEW p \in Publishers, FailsOpen(p) \/ FailsClosed(p)
  PROVE  NatsInv'
<1> USE DEF NatsInv, NatsTypeOK, Conns, NoConn, FailsOpen, FailsClosed, OtherError, Go,
            library, local, history
<1>1. NatsTypeOK'
  OBVIOUS
<1>2. FreshIsNew'
  BY DEF FreshIsNew
<1>3. FailedIsGone' /\ RetriesElsewhere'
  BY DEF FailedIsGone, RetriesElsewhere
<1> QED
  BY <1>1, <1>2, <1>3

(* nats.Connect gives a connection with a number nobody has.               *)
LEMMA ConnectPreserves ==
  ASSUME NatsInv, NEW p \in Publishers, Connect(p)
  PROVE  NatsInv'
<1> USE SomeConn DEF NatsInv, NatsTypeOK, Conns, NoConn, Connect, Go, library, history
<1>1. NatsTypeOK'
  OBVIOUS
<1>2. FreshIsNew'
  <2> SUFFICES ASSUME NEW q \in Publishers, pc'[q] = "store"
               PROVE  /\ fresh'[q] \in Conns' \ {conn'}
                      /\ \A r \in Publishers : /\ fresh'[q] # used'[r] /\ fresh'[q] # failed'[r]
                                               /\ r # q => fresh'[q] # fresh'[r]
    BY DEF FreshIsNew
  <2>1. CASE q = p
    BY <2>1
  <2>2. CASE q # p
    BY <2>2 DEF FreshIsNew
  <2> QED
    BY <2>1, <2>2
<1>3. FailedIsGone' /\ RetriesElsewhere'
  BY DEF FailedIsGone, RetriesElsewhere
<1> QED
  BY <1>1, <1>2, <1>3

(* Storing gives the client a connection that has never failed anybody.    *)
LEMMA StorePreserves ==
  ASSUME NatsInv, NEW p \in Publishers, Store(p)
  PROVE  NatsInv'
<1> USE DEF NatsInv, NatsTypeOK, Conns, NoConn, Store, Stored, Go, library, local
<1>1. fresh[p] \in Conns \ {conn}
  BY DEF FreshIsNew
<1>2. NatsTypeOK'
  BY <1>1
<1>3. FreshIsNew'
  BY DEF FreshIsNew
<1>4. FailedIsGone' /\ RetriesElsewhere'
  BY DEF FreshIsNew, FailedIsGone, RetriesElsewhere
<1> QED
  BY <1>2, <1>3, <1>4

LEMMA HandlePreserves ==
  ASSUME NatsInv, NEW p \in Publishers, Handle(p)
  PROVE  NatsInv'
<1> USE DEF NatsInv, NatsTypeOK, Conns, NoConn, Handle, Given, Go, local, history
<1>1. NatsTypeOK'
  BY DEF FailedIsGone
<1>2. FreshIsNew'
  BY DEF FreshIsNew
<1>3. FailedIsGone' /\ RetriesElsewhere'
  BY DEF FailedIsGone, RetriesElsewhere
<1> QED
  BY <1>1, <1>2, <1>3

(* The environment's steps: a handler is set, a connection is closed.      *)
LEMMA OthersPreserve ==
  ASSUME NatsInv, SetConnectedHandler \/ (\E c \in Conns : Closes(c)) \/ UNCHANGED natsVars
  PROVE  NatsInv'
<1> USE DEF NatsInv, NatsTypeOK, Conns, NoConn, SetConnectedHandler, Closes, natsVars,
            library, local, history
<1>1. NatsTypeOK'
  OBVIOUS
<1>2. FreshIsNew'
  BY DEF FreshIsNew
<1>3. FailedIsGone' /\ RetriesElsewhere'
  BY DEF FailedIsGone, RetriesElsewhere
<1> QED
  BY <1>1, <1>2, <1>3

LEMMA NatsNextPreserves == NatsInv /\ [NatsNext]_natsVars => NatsInv'
<1> SUFFICES ASSUME NatsInv, [NatsNext]_natsVars PROVE NatsInv'
  OBVIOUS
<1>1. ASSUME NEW p \in Publishers, PublisherStep(p) PROVE NatsInv'
  BY <1>1, ReturnPreserves, LoadPreserves, FailsPreserves, ConnectPreserves, StorePreserves,
     HandlePreserves DEF PublisherStep, Published, Republished, ConnectFails
<1> QED
  BY <1>1, OthersPreserve DEF NatsNext

(* What every reachable state of the client satisfies.                     *)
THEOREM NatsInvariant == NatsSpec => []NatsInv
<1> QED
  BY InitNatsInv, NatsNextPreserves, PTL DEF NatsSpec

(* The variables keep their types.                                         *)
THEOREM NatsTypeCorrect == NatsSpec => []NatsTypeOK
<1>1. NatsInv => NatsTypeOK
  BY DEF NatsInv
<1> QED
  BY <1>1, NatsInvariant, PTL

(* A publish that failed because its connection was closed is never        *)
(* repeated on that connection (natsx.go:67-79, 103-109).                  *)
THEOREM RetriesCorrect == NatsSpec => []RetriesElsewhere
<1>1. NatsInv => RetriesElsewhere
  BY DEF NatsInv
<1> QED
  BY <1>1, NatsInvariant, PTL

-----------------------------------------------------------------------------
(* An open connection that is neither the client's nor about to be was     *)
(* overtaken: what Store replaces is either that publisher's own closed    *)
(* connection or another's (natsx.go:33-53, 105).                          *)
THEOREM StraysCorrect == NatsSpec => []StraysWereOvertaken
<1>1. NatsInit => StraysWereOvertaken
  BY DEF NatsInit, StraysWereOvertaken, Stray, Conns
<1>2. NatsInv /\ StraysWereOvertaken /\ [NatsNext]_natsVars => StraysWereOvertaken'
  <2> SUFFICES ASSUME NatsInv, StraysWereOvertaken, [NatsNext]_natsVars,
                      NEW c \in Conns', Stray(c)'
               PROVE  c \in overtaken'
    BY DEF StraysWereOvertaken
  <2> USE DEF NatsInv, NatsTypeOK, Conns, NoConn, StraysWereOvertaken, Stray, Go, library, local, history
  <2>1. ASSUME NEW p \in Publishers, Connect(p) PROVE c \in overtaken'
    BY <2>1 DEF Connect
  <2>2. ASSUME NEW p \in Publishers, Store(p) PROVE c \in overtaken'
    BY <2>2 DEF Store, Stored, FailedIsGone
  <2>3. ASSUME NEW p \in Publishers, NEW from \in {"publish", "republish", "connect"}, Return(p, from)
        PROVE  c \in overtaken'
    BY <2>3 DEF Return
  <2>4. ASSUME NEW p \in Publishers, Load(p) \/ FailsOpen(p) \/ FailsClosed(p) \/ Handle(p)
        PROVE  c \in overtaken'
    BY <2>4 DEF Load, FailsOpen, FailsClosed, OtherError, Handle
  <2>5. ASSUME SetConnectedHandler \/ (\E d \in Conns : Closes(d)) \/ UNCHANGED natsVars
        PROVE  c \in overtaken'
    BY <2>5 DEF SetConnectedHandler, Closes, natsVars
  <2> QED
    BY <2>1, <2>2, <2>3, <2>4, <2>5
    DEF NatsNext, PublisherStep, Published, Republished, ConnectFails
<1> QED
  BY <1>1, <1>2, NatsInvariant, PTL DEF NatsSpec

(* The client's connection has the handler's subscriptions, or its         *)
(* publisher is about to hand it to the handler, unless it was stored      *)
(* before there was a handler (natsx.go:48-51).                            *)
THEOREM ResubscribesCorrect == NatsSpec => []HandlerResubscribes
<1>1. NatsInit => HandlerResubscribes
  BY DEF NatsInit, HandlerResubscribes
<1>2. NatsInv /\ HandlerResubscribes /\ [NatsNext]_natsVars => HandlerResubscribes'
  <2> SUFFICES ASSUME NatsInv, HandlerResubscribes, [NatsNext]_natsVars PROVE HandlerResubscribes'
    OBVIOUS
  <2> USE DEF NatsInv, NatsTypeOK, HandlerResubscribes, Go, library, local, history
  <2>1. ASSUME NEW p \in Publishers, Connect(p) PROVE HandlerResubscribes'
    BY <2>1 DEF Connect
  <2>2. ASSUME NEW p \in Publishers, Store(p) PROVE HandlerResubscribes'
    BY <2>2 DEF Store, Stored
  <2>3. ASSUME NEW p \in Publishers, NEW from \in {"publish", "republish", "connect"}, Return(p, from)
        PROVE  HandlerResubscribes'
    BY <2>3 DEF Return
  <2>4. ASSUME NEW p \in Publishers, Load(p) \/ FailsOpen(p) \/ FailsClosed(p)
        PROVE  HandlerResubscribes'
    BY <2>4 DEF Load, FailsOpen, FailsClosed, OtherError
  <2>5. ASSUME NEW p \in Publishers, Handle(p) PROVE HandlerResubscribes'
    BY <2>5 DEF Handle, Given
  <2>6. ASSUME SetConnectedHandler \/ (\E d \in Conns : Closes(d)) \/ UNCHANGED natsVars
        PROVE  HandlerResubscribes'
    BY <2>6 DEF SetConnectedHandler, Closes, natsVars
  <2> QED
    BY <2>1, <2>2, <2>3, <2>4, <2>5, <2>6
    DEF NatsNext, PublisherStep, Published, Republished, ConnectFails
<1> QED
  BY <1>1, <1>2, NatsInvariant, PTL DEF NatsSpec

-----------------------------------------------------------------------------
(***************************************************************************)
(* Metadata, for every set of keys, of values, and every way               *)
(* to capitalise keys.                                                     *)
(***************************************************************************)

(* What the heap and the contexts are made of.                             *)
HeapOK ==
  /\ maps \in Seq(Map) /\ mine \subseteq 1..Len(maps)
  /\ contexts \in Seq([map : Nat, made : Map, for : SUBSET MdKeys])

(* A map the application cannot reach is as the context was made with it.  *)
SharedIsConstant ==
  \A c \in 1..Len(contexts) :
    /\ contexts[c].map \in 1..Len(maps)
    /\ contexts[c].map \notin mine => maps[contexts[c].map] = contexts[c].made

(* No key is mistaken for one that Set or Delete was called with.          *)
KeysAreUnambiguous ==
  \A c \in 1..Len(contexts) : \A k \in contexts[c].for :
    \A j \in DOMAIN contexts[c].made : Title[k] = k /\ Title[j] = k => j = k

MetadataInv == HeapOK /\ SharedIsConstant /\ KeysAreUnambiguous

-----------------------------------------------------------------------------
(* Contents *)

LEMMA MapHas ==
  ASSUME NEW m
  PROVE  m \in Map <=> /\ m = [j \in DOMAIN m |-> m[j]] /\ DOMAIN m \subseteq MdKeys
                       /\ \A j \in DOMAIN m : m[j] \in MdValues
<1>1. ASSUME m \in Map
      PROVE  /\ m = [j \in DOMAIN m |-> m[j]] /\ DOMAIN m \subseteq MdKeys
             /\ \A j \in DOMAIN m : m[j] \in MdValues
  <2> PICK K \in SUBSET MdKeys : m \in [K -> MdValues]
    BY <1>1 DEF Map
  <2> QED
    OBVIOUS
<1>2. ASSUME m = [j \in DOMAIN m |-> m[j]], DOMAIN m \subseteq MdKeys,
             \A j \in DOMAIN m : m[j] \in MdValues
      PROVE  m \in Map
  <2>1. m \in [DOMAIN m -> MdValues]
    BY <1>2
  <2> QED
    BY <1>2, <2>1 DEF Map
<1> QED
  BY <1>1, <1>2

LEMMA WithIsMap ==
  ASSUME NEW m \in Map, NEW k \in MdKeys, NEW v \in MdValues
  PROVE  With(m, k, v) \in Map
<1>1. DOMAIN m \subseteq MdKeys /\ \A j \in DOMAIN m : m[j] \in MdValues
  BY MapHas
<1>2. With(m, k, v) \in [DOMAIN m \cup {k} -> MdValues]
  BY <1>1 DEF With
<1> QED
  BY <1>1, <1>2 DEF Map

LEMMA WithoutIsMap ==
  ASSUME NEW m \in Map, NEW K
  PROVE  Without(m, K) \in Map
<1>1. DOMAIN m \subseteq MdKeys /\ \A j \in DOMAIN m : m[j] \in MdValues
  BY MapHas
<1>2. Without(m, K) \in [DOMAIN m \ K -> MdValues]
  BY <1>1 DEF Without
<1> QED
  BY <1>1, <1>2 DEF Map

LEMMA MergeIsMap ==
  ASSUME NEW old \in Map, NEW new \in Map
  PROVE  [k \in DOMAIN old \cup DOMAIN new |-> IF k \in DOMAIN new THEN new[k] ELSE old[k]] \in Map
<1>1. /\ DOMAIN old \subseteq MdKeys /\ \A j \in DOMAIN old : old[j] \in MdValues
      /\ DOMAIN new \subseteq MdKeys /\ \A j \in DOMAIN new : new[j] \in MdValues
  BY MapHas
<1>2. [k \in DOMAIN old \cup DOMAIN new |-> IF k \in DOMAIN new THEN new[k] ELSE old[k]]
        \in [DOMAIN old \cup DOMAIN new -> MdValues]
  BY <1>1
<1> QED
  BY <1>1, <1>2 DEF Map

(* FromContext capitalises every key.                                      *)
LEMMA TitledIsMap ==
  ASSUME NEW m \in Map, NEW r \in Titled(m)
  PROVE  r \in Map /\ \A t \in DOMAIN r : Title[t] = t
<1>1. DOMAIN m \subseteq MdKeys
  BY MapHas
<1>2. /\ r \in [{Title[k] : k \in DOMAIN m} -> MdValues]
      /\ {Title[k] : k \in DOMAIN m} \subseteq MdKeys
  BY <1>1, TitleIdempotent DEF Titled
<1>3. r \in Map
  BY <1>2 DEF Map
<1> QED
  BY <1>1, <1>2, <1>3, TitleIdempotent

(* Whatever the order of its walk, FromContext makes some map.             *)
LEMMA TitledExists ==
  ASSUME NEW m \in Map
  PROVE  Titled(m) # {}
<1> DEFINE of(t) == CHOOSE k \in DOMAIN m : Title[k] = t
           r == [t \in {Title[k] : k \in DOMAIN m} |-> m[of(t)]]
<1>1. \A j \in DOMAIN m : m[j] \in MdValues
  BY MapHas
<1>2. \A t \in {Title[k] : k \in DOMAIN m} : of(t) \in DOMAIN m /\ Title[of(t)] = t
  OBVIOUS
<1> HIDE DEF of
<1>3. r \in [{Title[k] : k \in DOMAIN m} -> MdValues]
  BY <1>1, <1>2
<1>4. \A t \in DOMAIN r : of(t) \in DOMAIN m /\ Title[of(t)] = t /\ r[t] = m[of(t)]
  BY <1>2
<1>5. r \in Titled(m)
  BY <1>3, <1>4 DEF Titled
<1> QED
  BY <1>5

(* A key that no other is mistaken for is found with its own value.        *)
LEMMA GetFinds ==
  ASSUME NEW m \in Map, NEW k \in MdKeys, Title[k] = k,
         \A j \in DOMAIN m : Title[j] = k => j = k
  PROVE  UNION {GetFrom(r, k) : r \in Titled(m)} = IF k \in DOMAIN m THEN {m[k]} ELSE {}
<1>1. ASSUME NEW r \in Titled(m)
      PROVE  GetFrom(r, k) = IF k \in DOMAIN m THEN {m[k]} ELSE {}
  <2>1. DOMAIN r = {Title[j] : j \in DOMAIN m}
    BY DEF Titled
  <2>2. \A t \in DOMAIN r : \E j \in DOMAIN m : Title[j] = t /\ r[t] = m[j]
    BY DEF Titled
  <2>3. CASE k \in DOMAIN m
    <3>1. k \in DOMAIN r
      BY <2>1, <2>3
    <3>2. r[k] = m[k]
      BY <2>2, <3>1
    <3> QED
      BY <2>3, <3>1, <3>2 DEF GetFrom
  <2>4. CASE k \notin DOMAIN m
    <3>1. k \notin DOMAIN r
      BY <2>1, <2>4
    <3> QED
      BY <2>4, <3>1 DEF GetFrom
  <2> QED
    BY <2>3, <2>4
<1>2. PICK r : r \in Titled(m)
  BY TitledExists
<1>3. {GetFrom(s, k) : s \in Titled(m)} = {IF k \in DOMAIN m THEN {m[k]} ELSE {}}
  BY <1>1, <1>2
<1> QED
  BY <1>3

-----------------------------------------------------------------------------
(* Steps *)

LEMMA ContentIsMap ==
  ASSUME HeapOK, SharedIsConstant, NEW c \in Contexts
  PROVE  Content(c) \in Map
<1>1. CASE c = 0
  <2>1. <<>> \in [{} -> MdValues]
    OBVIOUS
  <2> QED
    BY <1>1, <2>1 DEF Content, Map
<1>2. CASE c # 0
  <2>1. c \in 1..Len(contexts)
    BY <1>2 DEF Contexts, HeapOK
  <2>2. contexts[c].map \in 1..Len(maps)
    BY <2>1 DEF SharedIsConstant
  <2> QED
    BY <1>2, <2>2 DEF Content, HeapOK
<1> QED
  BY <1>1, <1>2

(* A map that nobody has yet changes no context.                           *)
LEMMA NewMapPreserves ==
  ASSUME MetadataInv, NEW m \in Map, NewMap(m), UNCHANGED contexts
  PROVE  MetadataInv'
<1>1. /\ maps' \in Seq(Map) /\ Len(maps') = Len(maps) + 1
      /\ \A i \in 1..Len(maps) : maps'[i] = maps[i]
  BY AppendProperties DEF NewMap, MetadataInv, HeapOK
<1>2. HeapOK'
  <2>1. Len(maps) \in Nat /\ mine \subseteq 1..Len(maps) /\ mine' = mine \cup {Len(maps) + 1}
    BY DEF NewMap, MetadataInv, HeapOK
  <2>2. mine' \subseteq 1..Len(maps) + 1
    <3>1. ASSUME NEW i \in mine' PROVE i \in 1..Len(maps) + 1
      <4>1. i \in 1..Len(maps) \/ i = Len(maps) + 1
        BY <2>1
      <4> QED
        BY <2>1, <4>1
    <3> QED
      BY <3>1
  <2> QED
    BY <1>1, <2>2 DEF MetadataInv, HeapOK
<1>3. SharedIsConstant'
  <2> SUFFICES ASSUME NEW c \in 1..Len(contexts)
               PROVE  /\ contexts[c].map \in 1..Len(maps')
                      /\ contexts[c].map \notin mine' => maps'[contexts[c].map] = contexts[c].made
    BY DEF SharedIsConstant
  <2> QED
    BY <1>1 DEF NewMap, MetadataInv, HeapOK, SharedIsConstant
<1>4. KeysAreUnambiguous'
  BY DEF MetadataInv, KeysAreUnambiguous
<1> QED
  BY <1>2, <1>3, <1>4 DEF MetadataInv

(* Nor does the application's change to a map of its own.                  *)
LEMMA ChangePreserves ==
  ASSUME MetadataInv, NEW i \in mine, NEW m \in Map,
         maps' = [maps EXCEPT ![i] = m], UNCHANGED <<mine, contexts>>
  PROVE  MetadataInv'
<1>1. /\ maps' \in Seq(Map) /\ Len(maps') = Len(maps)
      /\ \A j \in 1..Len(maps) : j # i => maps'[j] = maps[j]
  BY ExceptSeq DEF MetadataInv, HeapOK
<1>2. HeapOK'
  BY <1>1 DEF MetadataInv, HeapOK
<1>3. SharedIsConstant'
  BY <1>1 DEF MetadataInv, SharedIsConstant
<1>4. KeysAreUnambiguous'
  BY DEF MetadataInv, KeysAreUnambiguous
<1> QED
  BY <1>2, <1>3, <1>4 DEF MetadataInv

LEMMA NewContextPreserves ==
  ASSUME MetadataInv, NEW i \in mine, NewContext(i)
  PROVE  MetadataInv'
<1> DEFINE ctx == [map |-> i, made |-> maps[i], for |-> {}]
<1>1. ctx \in [map : Nat, made : Map, for : SUBSET MdKeys]
  BY DEF MetadataInv, HeapOK
<1>2. /\ contexts' \in Seq([map : Nat, made : Map, for : SUBSET MdKeys])
      /\ Len(contexts') = Len(contexts) + 1
      /\ \A c \in 1..Len(contexts) : contexts'[c] = contexts[c]
      /\ contexts'[Len(contexts) + 1] = ctx
  BY <1>1, AppendProperties DEF NewContext, MetadataInv, HeapOK
<1>3. \A c \in 1..Len(contexts') : c \in 1..Len(contexts) \/ c = Len(contexts) + 1
  BY <1>2 DEF MetadataInv, HeapOK
<1>4. UNCHANGED <<maps, mine>>
  BY DEF NewContext
<1>5. HeapOK'
  BY <1>2, <1>4 DEF MetadataInv, HeapOK
<1>6. SharedIsConstant'
  <2>1. i \in 1..Len(maps) /\ contexts'[Len(contexts) + 1].map = i
    BY <1>2 DEF MetadataInv, HeapOK
  <2>2. ASSUME NEW c \in 1..Len(contexts)
        PROVE  /\ contexts'[c].map \in 1..Len(maps)
               /\ contexts'[c].map \notin mine => maps[contexts'[c].map] = contexts'[c].made
    BY <1>2 DEF MetadataInv, SharedIsConstant
  <2> QED
    BY <1>3, <1>4, <2>1, <2>2 DEF SharedIsConstant
<1>7. KeysAreUnambiguous'
  BY <1>2, <1>3 DEF MetadataInv, KeysAreUnambiguous
<1> QED
  BY <1>5, <1>6, <1>7 DEF MetadataInv

(* A derived context has a map that nobody else has.                       *)
LEMMA DerivePreserves ==
  ASSUME MetadataInv, NEW c, NEW m \in Map, NEW K \in SUBSET MdKeys, Derive(c, m, K),
         \A k \in K : \A j \in DOMAIN m : Title[k] = k /\ Title[j] = k => j = k
  PROVE  MetadataInv'
<1> DEFINE ctx == [map |-> Len(maps) + 1, made |-> m, for |-> K]
<1>1. maps \in Seq(Map) /\ Len(maps) \in Nat /\ mine \subseteq 1..Len(maps)
  BY DEF MetadataInv, HeapOK
<1>2. maps' = [i \in 1..Len(maps) + 1 |-> IF i = Len(maps) + 1 THEN m ELSE maps[i]]
  <2>1. 1..Len(maps) \cup {Len(maps) + 1} = 1..Len(maps) + 1
    BY <1>1
  <2> QED
    BY <2>1 DEF Derive, Target
<1>3. /\ maps' \in Seq(Map) /\ Len(maps') = Len(maps) + 1
      /\ \A i \in 1..Len(maps) : maps'[i] = maps[i]
      /\ maps'[Len(maps) + 1] = m
  BY <1>1, <1>2
<1>4. ctx \in [map : Nat, made : Map, for : SUBSET MdKeys]
  BY <1>1
<1>5. /\ contexts' \in Seq([map : Nat, made : Map, for : SUBSET MdKeys])
      /\ Len(contexts') = Len(contexts) + 1
      /\ \A d \in 1..Len(contexts) : contexts'[d] = contexts[d]
      /\ contexts'[Len(contexts) + 1] = ctx
  BY <1>4, AppendProperties DEF Derive, Target, MetadataInv, HeapOK
<1>6. \A d \in 1..Len(contexts') : d \in 1..Len(contexts) \/ d = Len(contexts) + 1
  BY <1>5 DEF MetadataInv, HeapOK
<1>7. mine' = mine
  BY DEF Derive
<1>8. HeapOK'
  BY <1>1, <1>3, <1>5, <1>7 DEF HeapOK
<1>9. SharedIsConstant'
  BY <1>1, <1>3, <1>5, <1>6, <1>7 DEF MetadataInv, SharedIsConstant
<1>10. KeysAreUnambiguous'
  BY <1>5, <1>6 DEF MetadataInv, KeysAreUnambiguous
<1> QED
  BY <1>8, <1>9, <1>10 DEF MetadataInv

LEMMA SetPreserves ==
  ASSUME MetadataInv, NEW c \in Contexts, NEW k \in MdKeys, NEW v \in MdValues, Set(c, k, v)
  PROVE  MetadataInv'
<1>1. PICK m \in Titled(Content(c)) : Derive(c, With(m, k, v), {k})
  BY DEF Set
<1>2. m \in Map /\ \A j \in DOMAIN m : Title[j] = j
  BY ContentIsMap, TitledIsMap DEF MetadataInv
<1>3. With(m, k, v) \in Map
  BY <1>2, WithIsMap
<1>4. \A j \in DOMAIN With(m, k, v) : Title[j] = k => j = k
  BY <1>2 DEF With
<1> QED
  BY <1>1, <1>3, <1>4, DerivePreserves

LEMMA DeletePreserves ==
  ASSUME MetadataInv, NEW c \in Contexts, NEW k \in MdKeys, Delete(c, k)
  PROVE  MetadataInv'
<1>1. PICK m \in Titled(Content(c)) : Derive(c, Without(m, {k}), {k})
  BY DEF Delete
<1>2. m \in Map /\ \A j \in DOMAIN m : Title[j] = j
  BY ContentIsMap, TitledIsMap DEF MetadataInv
<1>3. Without(m, {k}) \in Map
  BY <1>2, WithoutIsMap
<1>4. \A j \in DOMAIN Without(m, {k}) : Title[j] = k => j = k
  BY <1>2 DEF Without
<1> QED
  BY <1>1, <1>3, <1>4, DerivePreserves

LEMMA MergePreserves ==
  ASSUME MetadataInv, NEW c \in Contexts, NEW patch \in Map, NEW gone \in SUBSET MdKeys,
         NEW b \in BOOLEAN, MergeContext(c, patch, gone, b)
  PROVE  MetadataInv'
<1> DEFINE old == Content(c)
           new == Without(patch, IF b THEN gone ELSE gone \cup DOMAIN old)
           all == [k \in DOMAIN old \cup DOMAIN new |-> IF k \in DOMAIN new THEN new[k] ELSE old[k]]
           result == IF b THEN Without(all, gone) ELSE all
<1>1. Derive(c, result, {})
  BY DEF MergeContext
<1>2. old \in Map /\ new \in Map
  BY ContentIsMap, WithoutIsMap DEF MetadataInv
<1> HIDE DEF old, new
<1>3. all \in Map
  BY <1>2, MergeIsMap
<1> HIDE DEF all
<1>4. result \in Map
  BY <1>3, WithoutIsMap
<1> HIDE DEF result
<1> QED
  BY <1>1, <1>4, DerivePreserves

LEMMA MetadataNextPreserves == MetadataInv /\ [MetadataNext]_metadataVars => MetadataInv'
<1> SUFFICES ASSUME MetadataInv, [MetadataNext]_metadataVars PROVE MetadataInv'
  OBVIOUS
<1>1. ASSUME NEW m \in Map, Make(m) PROVE MetadataInv'
  BY <1>1, NewMapPreserves DEF Make
<1>2. ASSUME NEW i \in mine, NEW k \in MdKeys, MdDelete(i, k) PROVE MetadataInv'
  <2>1. maps[i] \in Map
    BY DEF MetadataInv, HeapOK
  <2> QED
    BY <1>2, <2>1, WithoutIsMap, ChangePreserves DEF MdDelete
<1>3. ASSUME NEW i \in mine, NEW k \in MdKeys, NEW v \in MdValues, MdSet(i, k, v) PROVE MetadataInv'
  <2>1. maps[i] \in Map
    BY DEF MetadataInv, HeapOK
  <2> QED
    BY <1>3, <2>1, WithIsMap, ChangePreserves DEF MdSet
<1>4. ASSUME NEW c \in Contexts, FromContext(c) PROVE MetadataInv'
  BY <1>4, ContentIsMap, TitledIsMap, NewMapPreserves DEF FromContext, MetadataInv
<1>5. CASE UNCHANGED metadataVars
  BY <1>5 DEF metadataVars, MetadataInv, HeapOK, SharedIsConstant, KeysAreUnambiguous
<1> QED
  BY <1>1, <1>2, <1>3, <1>4, <1>5, NewContextPreserves, SetPreserves, DeletePreserves, MergePreserves
  DEF MetadataNext

(* What every reachable state of the maps and contexts satisfies.          *)
THEOREM MetadataInvariant == MetadataSpec => []MetadataInv
<1>1. MetadataInit => MetadataInv
  BY EmptySeq DEF MetadataInit, MetadataInv, HeapOK, SharedIsConstant, KeysAreUnambiguous
<1> QED
  BY <1>1, MetadataNextPreserves, PTL DEF MetadataSpec

(* A context keeps the headers it was made with, whatever is derived from  *)
(* it, and a capitalised key that it was made for has exactly its value    *)
(* (metadata.go:53-64, 85-125).                                            *)
THEOREM ContextsKeptCorrect == MetadataSpec => []ContextsKept
<1>1. MetadataInv => ContextsKept
  <2> SUFFICES ASSUME MetadataInv, NEW c \in Contexts \ {0}, contexts[c].map \notin mine
               PROVE  /\ Content(c) = contexts[c].made
                      /\ \A k \in contexts[c].for : Title[k] = k =>
                           Get(c, k) = IF k \in DOMAIN contexts[c].made THEN {contexts[c].made[k]} ELSE {}
    BY DEF ContextsKept
  <2>1. c \in 1..Len(contexts) /\ contexts[c].for \subseteq MdKeys /\ contexts[c].made \in Map
    <3>1. contexts \in Seq([map : Nat, made : Map, for : SUBSET MdKeys])
      BY DEF MetadataInv, HeapOK
    <3>2. c \in 1..Len(contexts)
      BY <3>1 DEF Contexts
    <3>3. contexts[c] \in [map : Nat, made : Map, for : SUBSET MdKeys]
      BY <3>1, <3>2, ElementOfSeq
    <3> QED
      BY <3>2, <3>3
  <2>2. Content(c) = contexts[c].made
    BY <2>1 DEF MetadataInv, SharedIsConstant, Content
  <2>3. ASSUME NEW k \in contexts[c].for, Title[k] = k
        PROVE  Get(c, k) = IF k \in DOMAIN contexts[c].made THEN {contexts[c].made[k]} ELSE {}
    <3>1. \A j \in DOMAIN contexts[c].made : Title[j] = k => j = k
      BY <2>1, <2>3 DEF MetadataInv, KeysAreUnambiguous
    <3>2. k \in MdKeys
      BY <2>1
    <3>3. UNION {GetFrom(r, k) : r \in Titled(contexts[c].made)}
            = IF k \in DOMAIN contexts[c].made THEN {contexts[c].made[k]} ELSE {}
      BY <2>1, <2>3, <3>1, <3>2, GetFinds
    <3> QED
      BY <2>2, <3>3 DEF Get
  <2> QED
    BY <2>2, <2>3
<1> QED
  BY <1>1, MetadataInvariant, PTL

-----------------------------------------------------------------------------
(***************************************************************************)
(* Endpoints, for every set of methods and of descriptors                  *)
(* that a generator may make, and every order of registration.             *)
(***************************************************************************)

(* The latest registration of those that have the method.                  *)
Latest(r, m) == r \in Providers(m) /\ \A s \in Providers(m) \ {r} : <<r, s>> \in newer

(* The handler that r made of its method with m's name.                    *)
HandlerOf(h, r, m) ==
  /\ h.method \in Methods /\ h.method.pkg = r.pkg /\ MethodKey(h.method) = MethodKey(m)
  /\ h.stream = (r.described /\ h.method.streams)

(* The table has the latest registration's methods, and the URL of none    *)
(* that it does not also have by its name.                                 *)
TableIsLatest ==
  \A m \in Methods :
    /\ EndpointUrl(m) \in DOMAIN handlers => MethodKey(m) \in DOMAIN handlers
    /\ MethodKey(m) \in DOMAIN handlers <=> Providers(m) # {}
    /\ Providers(m) # {} => \E r \in registered : Latest(r, m) /\ HandlerOf(handlers[MethodKey(m)], r, m)

EndpointsInv ==
  /\ registered \subseteq [pkg : {m.pkg : m \in Methods}, svc : {m.svc : m \in Methods}, described : BOOLEAN]
  /\ called \in Methods \cup {NoMethod}
  /\ TableIsLatest /\ ReachesTheLast

-----------------------------------------------------------------------------
(* A name is never a URL. *)
LEMMA KeysDiffer == ASSUME NEW m, NEW n PROVE MethodKey(m) # EndpointUrl(n)
<1>1. DOMAIN MethodKey(m) = 1..2 /\ DOMAIN EndpointUrl(n) = 1..4
  BY DEF MethodKey, EndpointUrl
<1>2. 4 \in 1..4 /\ 4 \notin 1..2
  OBVIOUS
<1> QED
  BY <1>1, <1>2

LEMMA KeysAre ==
  ASSUME NEW m, NEW n, NEW described \in BOOLEAN
  PROVE  /\ MethodKey(m) \in Keys(n, described) <=> MethodKey(n) = MethodKey(m)
         /\ EndpointUrl(m) \in Keys(n, described) => EndpointUrl(n) = EndpointUrl(m)
  BY KeysDiffer DEF Keys

LEMMA UrlHasName ==
  ASSUME NEW m, NEW n, EndpointUrl(m) = EndpointUrl(n)
  PROVE  MethodKey(m) = MethodKey(n)
  BY DEF EndpointUrl, MethodKey

-----------------------------------------------------------------------------
LEMMA RegisterPreserves ==
  ASSUME EndpointsInv, NEW pkg \in {m.pkg : m \in Methods}, NEW svc \in {m.svc : m \in Methods},
         NEW described \in BOOLEAN, Register(pkg, svc, described)
  PROVE  EndpointsInv'
<1> DEFINE own == {m \in Methods : m.pkg = pkg /\ m.svc = svc /\ (described => MethodKey(m) \in Described)}
           new == UNION {Keys(m, described) : m \in own}
           at(k) == CHOOSE m \in own : k \in Keys(m, described)
           this == [pkg |-> pkg, svc |-> svc, described |-> described]
<1>1. /\ handlers' = [k \in DOMAIN handlers \cup new |->
                        IF k \in new THEN [method |-> at(k), stream |-> described /\ at(k).streams]
                        ELSE handlers[k]]
      /\ registered' = registered \cup {this}
      /\ newer' = {p \in newer : this \notin {p[1], p[2]}} \cup {this} \X (registered \ {this})
      /\ called' = NoMethod
  BY DEF Register
<1>2. this.pkg = pkg /\ this.svc = svc /\ this.described = described
  OBVIOUS
<1>3. this \in [pkg : {m.pkg : m \in Methods}, svc : {m.svc : m \in Methods}, described : BOOLEAN]
  OBVIOUS
<1>4. \A k \in new : at(k) \in own /\ k \in Keys(at(k), described)
  OBVIOUS
<1> HIDE DEF at
<1>5. ASSUME NEW m \in Methods
      PROVE  Provides(this, m) <=> MethodKey(m) \in new
  <2>1. Provides(this, m) <=> \E n \in own : MethodKey(n) = MethodKey(m)
    BY <1>2 DEF Provides, MethodKey
  <2>2. MethodKey(m) \in new <=> \E n \in own : MethodKey(n) = MethodKey(m)
    BY KeysAre
  <2> QED
    BY <2>1, <2>2
<1> HIDE DEF this
<1>6. DOMAIN handlers' = DOMAIN handlers \cup new
  BY <1>1
<1>7. ASSUME NEW m \in Methods
      PROVE  EndpointUrl(m) \in DOMAIN handlers' => MethodKey(m) \in DOMAIN handlers'
  <2>1. ASSUME EndpointUrl(m) \in new PROVE MethodKey(m) \in new
    <3>1. PICK n \in own : EndpointUrl(m) \in Keys(n, described)
      BY <2>1
    <3>2. MethodKey(m) = MethodKey(n)
      BY <3>1, KeysAre, UrlHasName
    <3>3. MethodKey(m) \in Keys(n, described)
      BY <3>2, KeysAre
    <3> QED
      BY <3>1, <3>3
  <2> QED
    BY <1>6, <2>1 DEF EndpointsInv, TableIsLatest
<1>8. ASSUME NEW m \in Methods
      PROVE  Providers(m)' = IF MethodKey(m) \in new THEN Providers(m) \cup {this} ELSE Providers(m)
  BY <1>1, <1>5 DEF Providers, Provides
<1>9. ASSUME NEW m \in Methods
      PROVE  /\ MethodKey(m) \in DOMAIN handlers' <=> Providers(m)' # {}
             /\ Providers(m)' # {} =>
                  \E r \in registered' : Latest(r, m)' /\ HandlerOf(handlers'[MethodKey(m)], r, m)
  <2>1. CASE MethodKey(m) \in new
    <3> DEFINE k == MethodKey(m)
    <3>1. at(k) \in own /\ MethodKey(at(k)) = k
      BY <1>4, <2>1, KeysAre
    <3>2. handlers'[k] = [method |-> at(k), stream |-> described /\ at(k).streams]
      BY <1>1, <2>1
    <3>3. HandlerOf(handlers'[k], this, m)
      BY <1>2, <3>1, <3>2 DEF HandlerOf, this
    <3>4. \A s \in Providers(m)' \ {this} : <<this, s>> \in newer'
      BY <1>1, <1>8, <2>1 DEF Providers
    <3>5. Latest(this, m)'
      BY <1>8, <2>1, <3>4 DEF Latest
    <3> QED
      BY <1>1, <1>6, <1>8, <2>1, <3>3, <3>5
  <2>2. CASE MethodKey(m) \notin new
    <3>1. Providers(m)' = Providers(m) /\ this \notin Providers(m)
      BY <1>5, <1>8, <2>2 DEF Providers
    <3>2. MethodKey(m) \in DOMAIN handlers => handlers'[MethodKey(m)] = handlers[MethodKey(m)]
      BY <1>1, <2>2
    <3>3. ASSUME NEW r \in registered, Latest(r, m) PROVE Latest(r, m)'
      BY <1>1, <3>1, <3>3 DEF Latest
    <3> QED
      BY <1>1, <1>6, <2>2, <3>1, <3>2, <3>3 DEF EndpointsInv, TableIsLatest
  <2> QED
    BY <2>1, <2>2
<1>10. TableIsLatest'
  BY <1>7, <1>9 DEF TableIsLatest
<1> QED
  BY <1>1, <1>3, <1>10 DEF EndpointsInv, ReachesTheLast

-----------------------------------------------------------------------------
(* A call finds the handler of the latest registration. *)
LEMMA FoundIsLatest ==
  ASSUME EndpointsInv, NEW m \in Methods
  PROVE  /\ Found(m) = {} <=> Providers(m) = {}
         /\ \A h \in Found(m) : \E r \in registered : Latest(r, m) /\ HandlerOf(h, r, m)
  BY DEF Found, EndpointsInv, TableIsLatest

LEMMA AnswerKeeps ==
  ASSUME EndpointsInv, NEW m \in Methods, NEW who, NEW what, Answer(m, who, what)
  PROVE  /\ TableIsLatest' /\ registered' = registered /\ newer' = newer
         /\ called' = m /\ reached' = who /\ outcome' = what
         /\ Providers(called)' = Providers(m)
         /\ called' \in Methods \cup {NoMethod}
  BY DEF EndpointsInv, Answer, TableIsLatest, Latest, Providers

(* What is answered once a handler is found.                               *)
LEMMA AnswerPreserves ==
  ASSUME EndpointsInv, NEW m \in Methods, NEW who, NEW what, Answer(m, who, what),
         NEW h \in Found(m), what # "unknown", who \in {NoMethod, h.method},
         what = "ok" => who = h.method,
         ~h.stream /\ ~h.method.request => who = NoMethod /\ what = "panic"
  PROVE  EndpointsInv'
<1>1. PICK r \in registered : Latest(r, m) /\ HandlerOf(h, r, m)
  BY FoundIsLatest
<1>2. Providers(m) # {} /\ r \in Providers(m)
  BY <1>1 DEF Latest
<1>3. h.method.request = m.request
  BY <1>1, Generated DEF HandlerOf, MethodKey
<1>4. who # NoMethod => MethodKey(who) = MethodKey(m) /\ who.pkg = r.pkg
  BY <1>1 DEF HandlerOf
<1>5. what = "ok" => who # NoMethod
  BY <1>1, Generated DEF HandlerOf
<1>6. ~m.request /\ ~r.described => who = NoMethod /\ what = "panic"
  BY <1>1, <1>3 DEF HandlerOf
<1>7. ReachesTheLast'
  BY <1>1, <1>2, <1>4, <1>5, <1>6, AnswerKeeps DEF ReachesTheLast, Latest
<1> QED
  BY <1>7, AnswerKeeps DEF EndpointsInv

LEMMA UnknownPreserves ==
  ASSUME EndpointsInv, NEW m \in Methods, Unknown(m)
  PROVE  EndpointsInv'
<1>1. Providers(m) = {} /\ Answer(m, NoMethod, "unknown")
  BY FoundIsLatest DEF Unknown
<1>2. ReachesTheLast'
  BY <1>1, AnswerKeeps DEF ReachesTheLast
<1> QED
  BY <1>1, <1>2, AnswerKeeps DEF EndpointsInv

LEMMA ProcessStreamPreserves ==
  ASSUME EndpointsInv, NEW m \in Methods, ProcessStream(m)
  PROVE  EndpointsInv'
<1>1. PICK h \in Found(m) : \E who \in {NoMethod, h.method}, what \in {"ok"} \cup Failures :
        h.stream /\ Answer(m, who, what) /\ (what = "ok" => who = h.method)
  BY DEF ProcessStream, Failures
<1>2. PICK who \in {NoMethod, h.method}, what \in {"ok"} \cup Failures :
        h.stream /\ Answer(m, who, what) /\ (what = "ok" => who = h.method)
  BY <1>1
<1> QED
  BY <1>2, AnswerPreserves DEF Failures

LEMMA ProcessRequestPreserves ==
  ASSUME EndpointsInv, NEW m \in Methods, ProcessRequest(m)
  PROVE  EndpointsInv'
<1>1. PICK h \in Found(m) : \E who \in {NoMethod, h.method}, what \in {"ok"} \cup Failures :
        /\ Answer(m, who, what) /\ (what = "ok" => who = h.method)
        /\ ~h.method.request => who = NoMethod /\ what = "panic"
  BY DEF ProcessRequest, Failures
<1>2. PICK who \in {NoMethod, h.method}, what \in {"ok"} \cup Failures :
        /\ Answer(m, who, what) /\ (what = "ok" => who = h.method)
        /\ ~h.method.request => who = NoMethod /\ what = "panic"
  BY <1>1
<1> QED
  BY <1>2, AnswerPreserves DEF Failures

LEMMA EndpointsNextPreserves == EndpointsInv /\ [EndpointsNext]_endpointsVars => EndpointsInv'
<1> SUFFICES ASSUME EndpointsInv, [EndpointsNext]_endpointsVars PROVE EndpointsInv'
  OBVIOUS
<1>1. ASSUME NEW s \in Services, NEW described \in BOOLEAN, Register(s[1], s[2], described)
      PROVE  EndpointsInv'
  <2>1. s[1] \in {m.pkg : m \in Methods} /\ s[2] \in {m.svc : m \in Methods}
    BY DEF Services
  <2> QED
    BY <1>1, <2>1, RegisterPreserves
<1>2. CASE UNCHANGED endpointsVars
  BY <1>2 DEF endpointsVars, EndpointsInv, TableIsLatest, ReachesTheLast, Latest, Providers
<1> QED
  BY <1>1, <1>2, UnknownPreserves, ProcessStreamPreserves, ProcessRequestPreserves DEF EndpointsNext

(* What every reachable state of the table of handlers satisfies.          *)
THEOREM EndpointsInvariant == EndpointsSpec => []EndpointsInv
<1>1. EndpointsInit => EndpointsInv
  BY DEF EndpointsInit, EndpointsInv, TableIsLatest, ReachesTheLast, Providers
<1> QED
  BY <1>1, EndpointsNextPreserves, PTL DEF EndpointsSpec

(* However services are registered, a call runs the method it names of the *)
(* service registered last among those that have it, or none; it succeeds  *)
(* only if the method ran, and is unknown only if no registered service    *)
(* has it (grpcserver.go:141-272, 328-390).                                *)
THEOREM ReachesTheLastCorrect == EndpointsSpec => []ReachesTheLast
<1>1. EndpointsInv => ReachesTheLast
  BY DEF EndpointsInv
<1> QED
  BY <1>1, EndpointsInvariant, PTL

-----------------------------------------------------------------------------
(***************************************************************************)
(* Deadlines, for all times, widths of a Duration and lengths of a chain.  *)
(***************************************************************************)

(* What a client knows and sends: its header and gRPC's time left lead to  *)
(* a deadline that is later than its own by the time on the way.           *)
DeadlinesInv ==
  /\ clock \in Int /\ client \in Int /\ header \in Int /\ carried \in Int
  /\ began \in Int /\ first \in Int /\ late \in Int
  /\ context \subseteq Int /\ server \subseteq Int /\ began <= clock /\ 0 <= late
  /\ place = "server" => context # {}
  /\ place \in {"client", "wire"} =>
       header = client - began /\ first <= client /\ client <= first + late
  /\ place = "wire" => 0 < header /\ client <= clock + carried
  /\ ServerDeadline

LEMMA RemainderIsInt == ASSUME NEW x \in Int, NEW m \in Nat \ {0} PROVE x % m \in Int
  OBVIOUS

LEMMA SumIsLater == ASSUME NEW x \in Int, NEW y \in Int, 0 <= y PROVE x <= x /\ x <= x + y
  OBVIOUS

LEMMA TimeoutsAreInts == \A t \in Timeouts : t \in Int
<1>1. RequestTimeout \in Int
  BY TimesOK DEF Durations
<1>2. ASSUME NEW s \in Seconds PROVE Wrap(s * NanosPerSecond) \in Int
  <2>1. s \in Int /\ NanosPerSecond \in Int /\ MaxDuration \in Nat
    BY TimesOK DEF Durations
  <2>2. s * NanosPerSecond \in Int
    BY <2>1
  <2>3. ASSUME NEW n \in Int PROVE Wrap(n) \in Int
    BY <2>1, RemainderIsInt DEF Wrap
  <2> QED
    BY <2>2, <2>3
<1> QED
  BY <1>1, <1>2 DEF Timeouts

LEMMA InvokePreserves == ASSUME DeadlinesInv, Invoke PROVE DeadlinesInv'
<1>1. /\ place \in {"caller", "server"} /\ place' = "client"
      /\ first' = IF place = "caller" THEN client' ELSE first
      /\ header' = client' - clock /\ began' = clock
      /\ UNCHANGED <<clock, context, carried, server, late>>
  BY DEF Invoke
<1>2. client' \in IF context = {} THEN {clock + t : t \in Timeouts} ELSE context
  BY DEF Invoke
<1>3. clock \in Int /\ context \subseteq Int /\ first \in Int /\ late \in Int /\ 0 <= late
  BY DEF DeadlinesInv
<1>4. client' \in Int
  <2>1. CASE context = {}
    <3>1. PICK t \in Timeouts : client' = clock + t
      BY <1>2, <2>1
    <3> QED
      BY <1>3, <3>1, TimeoutsAreInts
  <2>2. CASE context # {}
    BY <1>3, <1>2, <2>2
  <2> QED
    BY <2>1, <2>2
<1>5. first' \in Int /\ first' <= client' /\ client' <= first' + late
  <2>1. CASE place = "caller"
    <3>1. first' = client'
      BY <1>1, <2>1
    <3>2. client' <= client' /\ client' <= client' + late
      BY <1>3, <1>4, SumIsLater, Zenon
    <3> QED
      BY <1>4, <3>1, <3>2
  <2>2. CASE place = "server"
    <3>1. client' \in context /\ first' = first
      BY <1>1, <1>2, <2>2 DEF DeadlinesInv
    <3> QED
      BY <1>3, <2>2, <3>1 DEF DeadlinesInv, ServerDeadline
  <2> QED
    BY <1>1, <2>1, <2>2
<1>6. header' = client' - began' /\ header' \in Int /\ began' \in Int /\ began' <= clock'
  BY <1>1, <1>3, <1>4
<1>7. ServerDeadline' /\ place' # "server" /\ place' # "wire"
  BY <1>1 DEF ServerDeadline
<1>8. UNCHANGED clock /\ UNCHANGED context /\ UNCHANGED carried /\ UNCHANGED server /\ UNCHANGED late
  BY <1>1
<1> QED
  BY <1>4, <1>5, <1>6, <1>7, <1>8 DEF DeadlinesInv

LEMMA SendPreserves == ASSUME DeadlinesInv, Send PROVE DeadlinesInv'
  BY DEF DeadlinesInv, ServerDeadline, Send

LEMMA ArrivePreserves == ASSUME DeadlinesInv, Arrive PROVE DeadlinesInv'
<1> USE DEF Arrive
<1> DEFINE own == clock + header
           grpc == clock + carried
<1>1. /\ place = "wire" /\ header = client - began /\ 0 < header /\ began <= clock
      /\ first <= client /\ client <= first + late /\ client <= grpc /\ own \in Int /\ grpc \in Int
  BY DEF DeadlinesInv
<1>2. server' = {own}
  BY <1>1 DEF ServerTimeout, DeadlinesInv
<1>3. late' = late + clock - began /\ late' \in Int /\ 0 <= late'
  BY DEF DeadlinesInv
<1>4. first <= own /\ own <= first + late'
  BY <1>1, <1>3 DEF DeadlinesInv
<1>5. context' = {d \in {grpc, own} : \A e \in {grpc, own} : d <= e}
  BY <1>2
<1>6. place' = "server" /\ UNCHANGED <<clock, client, header, carried, began, first>>
  OBVIOUS
<1> HIDE DEF own, grpc, Arrive
<1>7. (grpc \in context' \/ own \in context') /\ \A d \in context' : d \in {grpc, own} /\ d <= own
  <2>1. CASE grpc <= own
    <3>1. grpc \in context'
      BY <1>1, <1>5, <2>1
    <3> QED
      BY <1>5, <3>1
  <2>2. CASE ~(grpc <= own)
    <3>1. own \in context' /\ grpc \notin context'
      BY <1>1, <1>5, <2>2
    <3> QED
      BY <1>1, <1>5, <3>1
  <2> QED
    BY <2>1, <2>2
<1>8. ASSUME NEW d \in context' PROVE d \in Int /\ first <= d /\ d <= first + late'
  BY <1>1, <1>3, <1>4, <1>7, <1>8 DEF DeadlinesInv
<1> QED
  BY <1>1, <1>2, <1>3, <1>4, <1>7, <1>8, <1>6 DEF DeadlinesInv, ServerDeadline

LEMMA DeadlinesNextPreserves == DeadlinesInv /\ [DeadlinesNext]_deadlineVars => DeadlinesInv'
<1>1. ASSUME DeadlinesInv, TimePasses PROVE DeadlinesInv'
  BY <1>1 DEF TimePasses, DeadlinesInv, ServerDeadline
<1>2. ASSUME DeadlinesInv, UNCHANGED deadlineVars PROVE DeadlinesInv'
  BY <1>2 DEF deadlineVars, DeadlinesInv, ServerDeadline
<1> QED
  BY <1>1, <1>2, InvokePreserves, SendPreserves, ArrivePreserves DEF DeadlinesNext

(* What every reachable state of a chain of calls satisfies.               *)
THEOREM DeadlinesInvariant == DeadlinesSpec => []DeadlinesInv
<1>1. DeadlinesInit => DeadlinesInv
  BY TimesOK DEF DeadlinesInit, DeadlinesInv, ServerDeadline, Durations
<1> QED
  BY <1>1, DeadlinesNextPreserves, PTL DEF DeadlinesSpec

(* No method of a chain gives up before the first caller, or works on for  *)
(* longer than the requests were on their way, whatever the header, the    *)
(* context or the option said (client.go:100-119, grpcserver.go:105-139).  *)
THEOREM ServerDeadlineCorrect == DeadlinesSpec => []ServerDeadline
<1>1. DeadlinesInv => ServerDeadline
  BY DEF DeadlinesInv
<1> QED
  BY <1>1, DeadlinesInvariant, PTL
=============================================================================
