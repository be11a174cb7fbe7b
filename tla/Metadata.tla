------------------------------ MODULE Metadata ------------------------------
(***************************************************************************)
(* Package metadata (src/metadata/metadata.go): maps of headers that       *)
(* travel in contexts.  A Go map is shared by all that refer to it, so the *)
(* maps are on a heap: NewContext keeps the caller's map, and the other    *)
(* functions make a new one.  FromContext capitalises the keys; where two  *)
(* keys become one, the order in which Go walks a map decides between      *)
(* their values.                                                           *)
(*                                                                         *)
(* A definition that comes right before one it resembles (TargetInPlace    *)
(* before Target) is the same code with a bug: no action uses it, and the  *)
(* properties are known to notice when it takes the other's place.         *)
(***************************************************************************)
EXTENDS Integers, Sequences

CONSTANTS
  MdKeys, MdValues,
  Title,        \* strings.Title, per key
  MaxMaps,      \* bound: maps that are ever made
  MaxContexts   \* bound: contexts with metadata that are ever made

ASSUME TitleIdempotent ==
  Title \in [MdKeys -> MdKeys] /\ \A k \in MdKeys : Title[Title[k]] = Title[k]

VARIABLES
  maps,      \* the heap: the maps made so far
  mine,      \* those that the application may change: it made them or was given them
  contexts   \* per context: its map, the content it was made with, the keys Set or Delete made it for

metadataVars == <<maps, mine, contexts>>

Map == UNION {[K -> MdValues] : K \in SUBSET MdKeys}

MetadataInit == maps = <<>> /\ mine = {} /\ contexts = <<>>

-----------------------------------------------------------------------------
With(m, k, v) == [j \in DOMAIN m \cup {k} |-> IF j = k THEN v ELSE m[j]]
Without(m, K) == [j \in DOMAIN m \ K |-> m[j]]

(* FromContext: what the walk over the map may make of it. *)
Titled(m) ==
  {r \in [{Title[k] : k \in DOMAIN m} -> MdValues] :
     \A t \in DOMAIN r : \E k \in DOMAIN m : Title[k] = t /\ r[t] = m[k]}

(* Background is context 0: nothing in it. *)
Contexts == 0 .. Len(contexts)
Content(c) == IF c = 0 THEN <<>> ELSE maps[contexts[c].map]

(* Get: the key, else its capitalised form, of a copy with capitalised keys. *)
GetFrom(m, k) == IF k \in DOMAIN m THEN {m[k]}
                 ELSE IF Title[k] \in DOMAIN m THEN {m[Title[k]]} ELSE {}
Get(c, k) == UNION {GetFrom(m, k) : m \in Titled(Content(c))}

-----------------------------------------------------------------------------
NewMap(m) == Len(maps) < MaxMaps /\ maps' = Append(maps, m) /\ mine' = mine \cup {Len(maps) + 1}

(* A map of the application's own, or a Copy. *)
Make(m) == NewMap(m) /\ UNCHANGED contexts

FromContext(c) == /\ c # 0
                  /\ \E m \in Titled(Content(c)) : NewMap(m)
                  /\ UNCHANGED contexts

(* Metadata.Set and Metadata.Delete, in place. *)
MdSet(i, k, v) == /\ maps' = [maps EXCEPT ![i] = With(maps[i], k, v)]
                  /\ UNCHANGED <<mine, contexts>>
MdDelete(i, k) == /\ maps' = [maps EXCEPT ![i] = Without(maps[i], {k, Title[k]})]
                  /\ UNCHANGED <<mine, contexts>>

NewContext(i) ==
  /\ Len(contexts) < MaxContexts
  /\ contexts' = Append(contexts, [map |-> i, made |-> maps[i], for |-> {}])
  /\ UNCHANGED <<maps, mine>>

(* The map that a context derived from c gets, and its content. *)
TargetInPlace(c) == IF c = 0 THEN Len(maps) + 1 ELSE contexts[c].map
Target(c)        == Len(maps) + 1

Derive(c, m, k) ==
  /\ Len(contexts) < MaxContexts /\ Target(c) <= MaxMaps
  /\ maps' = [i \in 1..Len(maps) \cup {Target(c)} |-> IF i = Target(c) THEN m ELSE maps[i]]
  /\ contexts' = Append(contexts, [map |-> Target(c), made |-> m, for |-> k])
  /\ UNCHANGED mine

(* Set, and Delete, which is a Set of no value: of the key as it is. *)
Set(c, k, v)  == \E m \in Titled(Content(c)) : Derive(c, With(m, k, v), {k})
Delete(c, k)  == \E m \in Titled(Content(c)) : Derive(c, Without(m, {k}), {k})

(* MergeContext capitalises nothing.  The keys in gone are those to which  *)
(* the patch gives the empty value.                                        *)
MergeContext(c, patch, gone, overwrite) ==
  LET old == Content(c)
      new == Without(patch, IF overwrite THEN gone ELSE gone \cup DOMAIN old)
      all == [k \in DOMAIN old \cup DOMAIN new |-> IF k \in DOMAIN new THEN new[k] ELSE old[k]]
  IN  Derive(c, IF overwrite THEN Without(all, gone) ELSE all, {})

MetadataNext ==
  \/ \E m \in Map : Make(m)
  \/ \E i \in mine : NewContext(i)
  \/ \E i \in mine, k \in MdKeys : MdDelete(i, k) \/ \E v \in MdValues : MdSet(i, k, v)
  \/ \E c \in Contexts : FromContext(c)
  \/ \E c \in Contexts, k \in MdKeys : Delete(c, k) \/ \E v \in MdValues : Set(c, k, v)
  \/ \E c \in Contexts, patch \in Map, gone \in SUBSET MdKeys, b \in BOOLEAN :
       MergeContext(c, patch, gone, b)

MetadataSpec == MetadataInit /\ [][MetadataNext]_metadataVars

-----------------------------------------------------------------------------
(* A context keeps the headers it was made with, whatever is derived from  *)
(* it or done to maps that FromContext gave out, unless the application    *)
(* changes the map it gave to NewContext itself (metadata.go:53-64,        *)
(* 85-103, 106-125); and one that Set or Delete made for a capitalised key *)
(* has exactly the value set, or none, whatever keys were merged before.   *)
ContextsKept ==
  \A c \in Contexts \ {0} :
    LET ctx == contexts[c] IN
      ctx.map \notin mine =>
        /\ Content(c) = ctx.made
        /\ \A k \in ctx.for : Title[k] = k =>
             Get(c, k) = IF k \in DOMAIN ctx.made THEN {ctx.made[k]} ELSE {}
=============================================================================
