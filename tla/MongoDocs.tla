------------------------------ MODULE MongoDocs ------------------------------
(***************************************************************************)
(* Documents of a collection and a query that reads them, of package       *)
(* mongox: the writing methods of MongoClient (mongox.go), each one        *)
(* command under the time-out of mongo.go, and Query, PipeQuery and        *)
(* iterate (internal.go), which decode one document after the other into   *)
(* the elements of the caller's slice while others write.  The slice may   *)
(* be one that an earlier query has filled.                                *)
(*                                                                         *)
(* A definition that comes right before one it resembles (WholeSlice       *)
(* before Answered) is the same code with a bug: no action uses it, and    *)
(* the properties are known to notice when it takes the other's place.     *)
(***************************************************************************)
EXTENDS Integers, Sequences

CONSTANTS
  MaxId,       \* bound: documents; a cursor returns them by their numbers
  DocFields,   \* fields of the struct type
  DocValues    \* non-zero values

ASSUME DocNumbers == MaxId \in Nat /\ DocValues \subseteq Nat \ {0}

VARIABLES
  docs,       \* the documents: per number, some fields and their values
  elems,      \* the caller's slice up to its capacity: every element has all fields
  len,        \* its length
  newSlice,   \* the caller made it for this query
  reading,    \* Query is between Find and its return
  position,   \* number of the document the cursor is at
  decoded,    \* the documents decoded so far, with their numbers
  lasting,    \* numbers of documents that have been there since Find
  answer      \* what Query has returned: "none", "ok", "short" (ok, but the cursor failed), "error"

collVars  == <<docs, lasting>>
sliceVars == <<elems, len, newSlice>>
queryVars == <<reading, position, decoded, answer>>
docsVars  == <<collVars, sliceVars, queryVars>>

Ids    == 1..MaxId
Struct == [DocFields -> DocValues \cup {0}]
Doc    == UNION {[F -> DocValues \cup {0}] : F \in SUBSET DocFields}
ZeroStruct == [f \in DocFields |-> 0]

(* What $set does, and what decoding into an element that is there does.   *)
Overwrite(new, old) ==
  [f \in DOMAIN new \cup DOMAIN old |-> IF f \in DOMAIN new THEN new[f] ELSE old[f]]

DocsInit ==
  /\ docs = <<>> /\ lasting = {}
  /\ elems = <<>> /\ len = 0 /\ newSlice = TRUE
  /\ reading = FALSE /\ position = 0 /\ decoded = <<>> /\ answer = "none"

-----------------------------------------------------------------------------
(* Writers *)

Keep == UNCHANGED <<sliceVars, queryVars>>

PutDoc(n, doc) == docs' = [m \in DOMAIN docs \cup {n} |-> IF m = n THEN doc ELSE docs[m]] /\ Keep

(* Insert: InsertOne, InsertMany.  Fields may be omitted when empty. *)
Insert(n, doc) == n \in Ids \ DOMAIN docs /\ PutDoc(n, doc) /\ UNCHANGED lasting

(* UpdateAll, UpdateSingleById, UpdateSingle with a bson.M *)
Update(n, doc) == n \in DOMAIN docs /\ PutDoc(n, Overwrite(doc, docs[n])) /\ UNCHANGED lasting

(* The same with a struct: struct2BsonM makes a $set of every field, also  *)
(* of those in ignoreField (its `continue` goes on with the inner loop).   *)
UpdateStruct(n, s) == Update(n, s)

Upsert(n, doc) == (Update(n, doc) \/ Insert(n, doc))

(* DeleteById, Delete, DeleteMany *)
DeleteDocs(N) ==
  /\ N # {} /\ N \subseteq DOMAIN docs
  /\ docs' = [m \in DOMAIN docs \ N |-> docs[m]]
  /\ lasting' = lasting \ N /\ Keep

-----------------------------------------------------------------------------
(* Query and PipeQuery, with iterate *)

Find(reuse) ==
  /\ ~reading /\ reading' = TRUE
  /\ position' = 0 /\ decoded' = <<>> /\ answer' = "none"
  /\ lasting' = DOMAIN docs
  /\ newSlice' = ~reuse
  /\ IF reuse THEN UNCHANGED <<elems, len>> ELSE elems' = <<>> /\ len' = 0
  /\ UNCHANGED docs

Ahead == {n \in DOMAIN docs : n > position}

Element(i) == IF i <= Len(elems) THEN elems[i] ELSE ZeroStruct

(* cur.Next and cur.Decode, into the element that is there or a new one. *)
DecodeNext(n) ==
  /\ reading /\ n \in Ahead /\ \A m \in Ahead : n <= m
  /\ position' = n
  /\ decoded' = Append(decoded, [id |-> n, doc |-> docs[n]])
  /\ LET i == Len(decoded) + 1
     IN  elems' = [j \in 1 .. (IF i > Len(elems) THEN i ELSE Len(elems)) |->
                     IF j = i THEN Overwrite(docs[n], Element(i)) ELSE elems[j]]
  /\ UNCHANGED <<collVars, len, newSlice, reading, answer>>

(* cur.Next is false at the end, and also on an error, at which iterate    *)
(* does not look: the slice gets the length of what was decoded.           *)
WholeSlice == Len(elems)
Answered   == Len(decoded)

Returns(what) == reading /\ reading' = FALSE /\ answer' = what /\ UNCHANGED <<collVars, elems, newSlice, position, decoded>>

CursorEnds  == Ahead = {} /\ Returns("ok") /\ len' = Answered
CursorFails == Returns("short") /\ len' = Answered

(* Find or Decode fails: the caller's slice keeps its length. *)
QueryError == Returns("error") /\ UNCHANGED len

DocsNext ==
  \/ \E n \in Ids : (\E doc \in Doc : Insert(n, doc) \/ Update(n, doc) \/ Upsert(n, doc))
                    \/ (\E s \in Struct : UpdateStruct(n, s)) \/ DecodeNext(n)
  \/ \E N \in SUBSET Ids : DeleteDocs(N)
  \/ \E reuse \in BOOLEAN : Find(reuse)
  \/ CursorEnds \/ CursorFails \/ QueryError

DocsSpec == DocsInit /\ [][DocsNext]_docsVars

-----------------------------------------------------------------------------
(* A query that returns no error has as many elements as it read           *)
(* documents, each with the values its document had when it was read,      *)
(* whatever the slice held before; a slice made for the query shows zero   *)
(* for what a document lacks; and every document that was there all the    *)
(* time is among them, unless the cursor failed (internal.go:45-83).       *)
QueryShowsDocs ==
  answer \in {"ok", "short"} =>
    /\ len = Len(decoded)
    /\ \A i \in 1..len : \A f \in DocFields :
         IF f \in DOMAIN decoded[i].doc THEN elems[i][f] = decoded[i].doc[f]
                                        ELSE newSlice => elems[i][f] = 0
    /\ answer = "ok" => \A n \in lasting : \E i \in 1..len : decoded[i].id = n
=============================================================================
