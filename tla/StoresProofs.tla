---------------------------- MODULE StoresProofs ----------------------------
(***************************************************************************)
(* Proofs about the clients of the stores: RedisClient, MinioClient,       *)
(* MongoDocs and PagedQuery, in this order.  They share no variable, and   *)
(* no lemma of one is used for another.                                    *)
(***************************************************************************)
EXTENDS RedisClient, MinioClient, MongoDocs, PagedQuery,
        SequenceTheorems, FiniteSetTheorems, FunctionTheorems, TLAPS

-----------------------------------------------------------------------------
(***************************************************************************)
(* RedisClient, for every set of callers and of keys.  The                 *)
(* typing already holds what HashesExpire needs: only keys that hold       *)
(* something last, and a caller between its two commands has a key.        *)
(***************************************************************************)

RedisInv == RedisTypeOK /\ HashesExpire

LEMMA InitRedisInv == RedisInit => RedisInv
  BY DEF RedisInit, RedisInv, RedisTypeOK, HashesExpire

(* A command that leaves every caller where it was.                        *)
LEMMA OneCommandPreserves ==
  ASSUME RedisInv, NEW c \in RedisCallers, NEW k \in FullKeys, NEW yes \in BOOLEAN,
         SetString(c, k, yes) \/ GetSet(c, k) \/ IncrBy(c, k) \/ Del(c, k)
  PROVE  RedisInv'
<1> USE DEF RedisInv, RedisTypeOK, HashesExpire, Put, Lasts, Gone
<1>1. CASE SetString(c, k, yes)
  BY <1>1 DEF SetString
<1>2. CASE GetSet(c, k)
  BY <1>2 DEF GetSet
<1>3. CASE IncrBy(c, k)
  BY <1>3 DEF IncrBy
<1>4. CASE Del(c, k)
  BY <1>4 DEF Del
<1> QED
  BY <1>1, <1>2, <1>3, <1>4

(* The first of two commands: from here on the caller owes the expiry.     *)
LEMMA HashWritePreserves ==
  ASSUME RedisInv, NEW c \in RedisCallers, NEW k \in FullKeys, NEW yes \in BOOLEAN, HashWrite(c, k, yes)
  PROVE  RedisInv'
<1> USE NoKeyIsNone DEF RedisInv, HashWrite, Free, Put, Lasts
<1>1. RedisTypeOK'
  BY DEF RedisTypeOK
<1>2. CASE yes
  <2>1. toExpire'[c] = k /\ \A d \in RedisCallers \ {c} : toExpire'[d] = toExpire[d]
    BY <1>2 DEF RedisTypeOK
  <2>2. \A d \in RedisCallers : toExpire[d] # NoKey => toExpire'[d] = toExpire[d]
    BY <2>1
  <2> QED
    BY <1>2, <2>1, <2>2 DEF RedisTypeOK, HashesExpire
<1>3. CASE ~yes
  BY <1>3 DEF RedisTypeOK, HashesExpire
<1> QED
  BY <1>1, <1>2, <1>3

(* The second one, done or lost.                                           *)
LEMMA ExpirePreserves ==
  ASSUME RedisInv, NEW c \in RedisCallers, Expire(c) \/ ExpireLost(c)
  PROVE  RedisInv'
<1> USE NoKeyIsNone DEF RedisInv, Free, Lasts, Expires
<1>1. toExpire[c] \in FullKeys
  BY DEF RedisTypeOK, Expire, ExpireLost
<1>2. RedisTypeOK'
  BY <1>1 DEF RedisTypeOK, Expire, ExpireLost
<1>3. /\ \A d \in RedisCallers \ {c} : toExpire'[d] = toExpire[d]
      /\ held' = held
  BY DEF RedisTypeOK, Expire, ExpireLost
<1>4. CASE Expire(c)
  <2>1. toExpire[c] \notin forever' /\ forever' \subseteq forever /\ unasked' = unasked \ {toExpire[c]}
    BY <1>1, <1>4 DEF Expire, RedisTypeOK
  <2> QED
    BY <1>2, <1>3, <2>1 DEF HashesExpire
<1>5. CASE ExpireLost(c)
  <2>1. /\ forever' = forever /\ unasked \subseteq unasked'
        /\ held[toExpire[c]] = "hash" => toExpire[c] \in unasked'
    BY <1>5 DEF ExpireLost
  <2> QED
    BY <1>2, <1>3, <2>1 DEF HashesExpire
<1> QED
  BY <1>4, <1>5

LEMMA TimeToLiveEndsPreserves ==
  ASSUME RedisInv, NEW k \in FullKeys, TimeToLiveEnds(k)
  PROVE  RedisInv'
  BY DEF RedisInv, RedisTypeOK, HashesExpire, TimeToLiveEnds, Gone, Put, Lasts

LEMMA RedisNextPreserves == RedisInv /\ [RedisNext]_redisVars => RedisInv'
<1>1. ASSUME RedisInv, UNCHANGED redisVars PROVE RedisInv'
  BY <1>1 DEF redisVars, RedisInv, RedisTypeOK, HashesExpire
<1>2. ASSUME RedisInv, NEW c \in RedisCallers, RedisCall(c) PROVE RedisInv'
  BY <1>2, OneCommandPreserves, HashWritePreserves, ExpirePreserves DEF RedisCall
<1> QED
  BY <1>1, <1>2, TimeToLiveEndsPreserves DEF RedisNext

-----------------------------------------------------------------------------
(* The variables keep their types; only a key that holds something lasts,  *)
(* and only a hash can have been left without an expiry (redisx.go:52-153).*)
THEOREM RedisTypeCorrect == RedisSpec => []RedisTypeOK
<1>1. RedisInv => RedisTypeOK
  BY DEF RedisInv
<1> QED
  BY <1>1, InitRedisInv, RedisNextPreserves, PTL DEF RedisSpec

(* Whatever other callers do between its two commands, a hash that stays   *)
(* for ever is one whose Expire was lost, not asked for or still to come   *)
(* (redisx.go:123-153).                                                    *)
THEOREM HashesExpireCorrect == RedisSpec => []HashesExpire
<1>1. RedisInv => HashesExpire
  BY DEF RedisInv
<1> QED
  BY <1>1, InitRedisInv, RedisNextPreserves, PTL DEF RedisSpec

-----------------------------------------------------------------------------
(***************************************************************************)
(* MinioClient, for every set of processes, object names and               *)
(* paths of DoMain.  The point is that Url is injective where DoMain has   *)
(* no path, and that every link was made by it.                            *)
(***************************************************************************)

LinksAreUrls ==
  /\ domainPath \in DomainPaths
  /\ stored \subseteq ObjectNames /\ owed \subseteq ObjectNames /\ unsure \subseteq ObjectNames
  /\ \A url \in links : \E o \in ObjectNames : url = Url(o)

MinioInv == LinksAreUrls /\ UrlFindsObject

-----------------------------------------------------------------------------
LEMMA OnePart ==
  ASSUME NEW S, NEW b \in S
  PROVE  <<b>> \in Seq(S) /\ Len(<<b>>) = 1
  OBVIOUS

LEMMA HeadAndTail ==
  ASSUME NEW S, NEW b \in S, NEW o \in Seq(S)
  PROVE  Head(<<b>> \o o) = b /\ Tail(<<b>> \o o) = o
  OBVIOUS

LEMMA HeadOfBoth ==
  ASSUME NEW S, NEW d \in Seq(S), d # <<>>, NEW u \in Seq(S)
  PROVE  Head(d \o u) = Head(d)
  OBVIOUS

(* Without a path in DoMain, bucket and object are found in the URL.       *)
LEMMA UrlSplits ==
  ASSUME NEW o \in ObjectNames, domainPath = <<>>
  PROVE  BucketOf(Url(o)) = Bucket /\ ObjectOf(Url(o)) = o
<1>1. o \in Seq(STRING) /\ Bucket \in STRING
  BY NamesAreSequences
<1>2. Url(o) = <<Bucket>> \o o
  BY <1>1 DEF Url
<1> QED
  BY <1>1, <1>2, HeadAndTail DEF BucketOf, ObjectOf

(* With one, the path's first part is taken for the bucket, and is not it. *)
LEMMA UrlMissesBucket ==
  ASSUME NEW o \in ObjectNames, domainPath \in DomainPaths, domainPath # <<>>
  PROVE  BucketOf(Url(o)) # Bucket
<1>1. o \in Seq(STRING) /\ Bucket \in STRING
  BY NamesAreSequences
<1>2. domainPath \in Seq(STRING) /\ Head(domainPath) # Bucket
  BY NamesAreSequences
<1>3. /\ domainPath \o <<Bucket>> \in Seq(STRING) \ {<<>>}
      /\ Head(domainPath \o <<Bucket>>) = Head(domainPath)
  <2>1. <<Bucket>> \in Seq(STRING) /\ Len(<<Bucket>>) = 1
    BY <1>1, OnePart
  <2>2. domainPath \o <<Bucket>> \in Seq(STRING)
    BY <1>2, <2>1
  <2>3. Len(domainPath \o <<Bucket>>) = Len(domainPath) + 1
    BY <1>2, <2>1
  <2>4. domainPath \o <<Bucket>> # <<>>
    BY <1>2, <2>2, <2>3
  <2> QED
    BY <1>2, <2>1, <2>2, <2>4, HeadOfBoth
<1>4. Head((domainPath \o <<Bucket>>) \o o) = Head(domainPath \o <<Bucket>>)
  BY <1>1, <1>3, HeadOfBoth
<1> QED
  BY <1>2, <1>3, <1>4 DEF BucketOf, Url

-----------------------------------------------------------------------------
LEMMA InitMinioInv == MinioInit => MinioInv
  BY DEF MinioInit, MinioInv, LinksAreUrls, UrlFindsObject

LEMMA StartPreserves ==
  ASSUME MinioInv, NEW p \in Processes, NEW err \in BOOLEAN, BucketExists(p, err) \/ MakeBucket(p, err)
  PROVE  MinioInv'
  BY DEF MinioInv, LinksAreUrls, UrlFindsObject, Url, BucketExists, MakeBucket

LEMMA UploadPreserves ==
  ASSUME MinioInv, NEW o \in ObjectNames, Upload(o) \/ DeleteFile(o)
  PROVE  MinioInv'
  BY DEF MinioInv, LinksAreUrls, UrlFindsObject, Url, Using, Upload, DeleteFile

LEMMA FailurePreserves ==
  ASSUME MinioInv, NEW o \in ObjectNames, NEW stays \in BOOLEAN, UploadFails(o, stays) \/ DeleteFails(o, stays)
  PROVE  MinioInv'
  BY DEF MinioInv, LinksAreUrls, UrlFindsObject, Url, Using, UploadFails, DeleteFails

(* A link deletes its own object or nothing.                               *)
LEMMA DeleteFileByUrlPreserves ==
  ASSUME MinioInv, NEW url \in links, DeleteFileByUrl(url)
  PROVE  MinioInv'
<1> USE DEF MinioInv, LinksAreUrls, UrlFindsObject, DeleteFileByUrl, Using
<1>1. PICK p \in ObjectNames : url = Url(p)
  OBVIOUS
<1>2. LinksAreUrls'
  BY DEF Url
<1>3. CASE domainPath = <<>>
  <2>1. BucketOf(url) = Bucket /\ ObjectOf(url) = p
    BY <1>1, <1>3, UrlSplits
  <2>2. \A o \in owed \cup unsure : Url(o) = url <=> o = p
    BY <1>1, <1>3, UrlSplits
  <2> QED
    BY <1>2, <1>3, <2>1, <2>2
<1>4. CASE domainPath # <<>>
  <2>1. BucketOf(url) # Bucket
    BY <1>1, <1>4, UrlMissesBucket
  <2> QED
    BY <1>2, <1>4, <2>1
<1> QED
  BY <1>3, <1>4

LEMMA MinioNextPreserves == MinioInv /\ [MinioNext]_minioVars => MinioInv'
<1>1. ASSUME MinioInv, UNCHANGED minioVars PROVE MinioInv'
  BY <1>1 DEF minioVars, MinioInv, LinksAreUrls, UrlFindsObject, Url
<1> QED
  BY <1>1, StartPreserves, UploadPreserves, FailurePreserves, DeleteFileByUrlPreserves DEF MinioNext

-----------------------------------------------------------------------------
(* The URL of one object never deletes another, whatever slashes their     *)
(* names have and whatever path DoMain has, and deletes its own where it   *)
(* has none (miniox.go:81-133).                                            *)
THEOREM UrlFindsObjectCorrect == MinioSpec => []UrlFindsObject
<1>1. MinioInv => UrlFindsObject
  BY DEF MinioInv
<1> QED
  BY <1>1, InitMinioInv, MinioNextPreserves, PTL DEF MinioSpec

-----------------------------------------------------------------------------
(***************************************************************************)
(* MongoDocs, for every number of documents and every set of               *)
(* fields and of values.                                                   *)
(***************************************************************************)

DocsTypeOK ==
  /\ DOMAIN docs \subseteq Ids /\ (\A n \in DOMAIN docs : docs[n] \in Doc)
  /\ elems \in Seq(Struct) /\ len \in Nat /\ newSlice \in BOOLEAN
  /\ reading \in BOOLEAN /\ position \in 0..MaxId
  /\ decoded \in Seq([id : Ids, doc : Doc]) /\ lasting \subseteq DOMAIN docs
  /\ answer \in {"none", "ok", "short", "error"}

(* What the element shows of the document it was decoded from.             *)
Shows(elem, doc, made) ==
  \A f \in DocFields : IF f \in DOMAIN doc THEN elem[f] = doc[f] ELSE made => elem[f] = 0

(* The elements so far, and none besides in a slice made for the query.    *)
ElementsShow ==
  /\ Len(decoded) <= Len(elems)
  /\ newSlice => Len(decoded) = Len(elems)
  /\ \A i \in 1..Len(decoded) : Shows(elems[i], decoded[i].doc, newSlice)

Decoded(n) == \E i \in 1..Len(decoded) : decoded[i].id = n

(* The cursor has passed no document that was there all the time.          *)
NonePassed ==
  /\ reading => answer = "none"
  /\ reading => \A n \in lasting : n <= position => Decoded(n)
  /\ answer = "ok" => \A n \in lasting : Decoded(n)
  /\ answer \in {"ok", "short"} => len = Len(decoded)

DocsInv == DocsTypeOK /\ ElementsShow /\ NonePassed

-----------------------------------------------------------------------------
(* Contents *)

LEMMA DocHas ==
  ASSUME NEW d
  PROVE  d \in Doc => DOMAIN d \subseteq DocFields /\ \A f \in DOMAIN d : d[f] \in DocValues \cup {0}
  BY DEF Doc

LEMMA OverwriteIsDoc ==
  ASSUME NEW new \in Doc, NEW old \in Doc
  PROVE  Overwrite(new, old) \in Doc
<1>1. Overwrite(new, old) \in [DOMAIN new \cup DOMAIN old -> DocValues \cup {0}]
  BY DocHas DEF Overwrite
<1>2. DOMAIN new \cup DOMAIN old \subseteq DocFields
  BY DocHas
<1> QED
  BY <1>1, <1>2 DEF Doc

LEMMA StructIsDoc == Struct \subseteq Doc
  BY DEF Struct, Doc

(* Decoding into an element: the document's fields and those that were     *)
(* there.                                                                  *)
LEMMA DecodedElement ==
  ASSUME NEW doc \in Doc, NEW elem \in Struct
  PROVE  /\ Overwrite(doc, elem) \in Struct
         /\ \A f \in DocFields : Overwrite(doc, elem)[f] = IF f \in DOMAIN doc THEN doc[f] ELSE elem[f]
<1>1. DOMAIN doc \cup DOMAIN elem = DocFields
  BY DocHas DEF Struct
<1>2. \A f \in DocFields : Overwrite(doc, elem)[f] = IF f \in DOMAIN doc THEN doc[f] ELSE elem[f]
  BY <1>1 DEF Overwrite
<1>3. Overwrite(doc, elem) = [f \in DocFields |-> IF f \in DOMAIN doc THEN doc[f] ELSE elem[f]]
  BY <1>1 DEF Overwrite
<1>4. \A f \in DocFields : (IF f \in DOMAIN doc THEN doc[f] ELSE elem[f]) \in DocValues \cup {0}
  BY DocHas DEF Struct
<1> QED
  BY <1>2, <1>3, <1>4 DEF Struct

-----------------------------------------------------------------------------
(* Steps *)

(* A writer leaves the query alone, and what it deletes does not last.     *)
LEMMA WriterPreserves ==
  ASSUME DocsInv, Keep, lasting' \subseteq lasting, lasting' \subseteq DOMAIN docs',
         DOMAIN docs' \subseteq Ids, \A n \in DOMAIN docs' : docs'[n] \in Doc
  PROVE  DocsInv'
<1>1. UNCHANGED <<elems, len, newSlice, reading, position, decoded, answer>>
  BY DEF Keep, sliceVars, queryVars
<1>2. DocsTypeOK'
  BY <1>1 DEF DocsInv, DocsTypeOK
<1>3. ElementsShow'
  BY <1>1 DEF DocsInv, ElementsShow, Shows
<1>4. NonePassed'
  BY <1>1 DEF DocsInv, NonePassed, Decoded
<1> QED
  BY <1>2, <1>3, <1>4 DEF DocsInv

LEMMA PutDocPreserves ==
  ASSUME DocsInv, NEW n \in Ids, NEW doc \in Doc, PutDoc(n, doc), UNCHANGED lasting
  PROVE  DocsInv'
<1>1. /\ DOMAIN docs' = DOMAIN docs \cup {n}
      /\ \A m \in DOMAIN docs' : docs'[m] = IF m = n THEN doc ELSE docs[m]
  BY DEF PutDoc
<1>2. DOMAIN docs' \subseteq Ids /\ \A m \in DOMAIN docs' : docs'[m] \in Doc
  BY <1>1 DEF DocsInv, DocsTypeOK
<1>3. lasting' \subseteq lasting /\ lasting' \subseteq DOMAIN docs'
  BY <1>1 DEF DocsInv, DocsTypeOK
<1> QED
  BY <1>2, <1>3, WriterPreserves DEF PutDoc

LEMMA UpdatePreserves ==
  ASSUME DocsInv, NEW n \in Ids, NEW doc \in Doc, Update(n, doc)
  PROVE  DocsInv'
<1>1. Overwrite(doc, docs[n]) \in Doc
  BY OverwriteIsDoc DEF Update, DocsInv, DocsTypeOK
<1> QED
  BY <1>1, PutDocPreserves DEF Update

LEMMA DeletePreserves ==
  ASSUME DocsInv, NEW N \in SUBSET Ids, DeleteDocs(N)
  PROVE  DocsInv'
<1>1. DOMAIN docs' = DOMAIN docs \ N /\ \A m \in DOMAIN docs' : docs'[m] = docs[m]
  BY DEF DeleteDocs
<1>2. DOMAIN docs' \subseteq Ids /\ \A m \in DOMAIN docs' : docs'[m] \in Doc
  BY <1>1 DEF DocsInv, DocsTypeOK
<1>3. lasting' \subseteq lasting /\ lasting' \subseteq DOMAIN docs'
  BY <1>1 DEF DocsInv, DocsTypeOK, DeleteDocs
<1> QED
  BY <1>2, <1>3, WriterPreserves DEF DeleteDocs

LEMMA FindPreserves ==
  ASSUME DocsInv, NEW reuse \in BOOLEAN, Find(reuse)
  PROVE  DocsInv'
<1>1. /\ reading' = TRUE /\ position' = 0 /\ decoded' = <<>> /\ answer' = "none"
      /\ lasting' = DOMAIN docs /\ newSlice' = ~reuse /\ docs' = docs
  BY DEF Find
<1>2. elems' \in Seq(Struct) /\ len' \in Nat /\ (newSlice' => elems' = <<>>)
  <2>1. CASE reuse
    BY <2>1 DEF Find, DocsInv, DocsTypeOK
  <2>2. CASE ~reuse
    BY <2>2, EmptySeq DEF Find
  <2> QED
    BY <2>1, <2>2
<1>3. decoded' \in Seq([id : Ids, doc : Doc]) /\ Len(decoded') = 0
  BY <1>1, EmptySeq
<1>4. DocsTypeOK'
  <2>1. 0 \in 0..MaxId
    BY DocNumbers
  <2> QED
    BY <1>1, <1>2, <1>3, <2>1 DEF DocsInv, DocsTypeOK
<1>5. ElementsShow'
  <2>1. Len(decoded') <= Len(elems') /\ (newSlice' => Len(decoded') = Len(elems'))
    BY <1>2, <1>3, LenProperties
  <2> QED
    BY <1>3, <2>1 DEF ElementsShow
<1>6. NonePassed'
  <2>1. \A n \in lasting' : ~(n <= position')
    BY <1>1, DocNumbers DEF DocsInv, DocsTypeOK, Ids
  <2> QED
    BY <1>1, <2>1 DEF NonePassed
<1> QED
  BY <1>4, <1>5, <1>6 DEF DocsInv

(* The next document in the order of the numbers.                          *)
LEMMA DecodeNextPreserves ==
  ASSUME DocsInv, NEW n \in Ids, DecodeNext(n)
  PROVE  DocsInv'
<1> DEFINE d == [id |-> n, doc |-> docs[n]]
           i == Len(decoded) + 1
           last == IF i > Len(elems) THEN i ELSE Len(elems)
           elem == Overwrite(docs[n], Element(i))
<1>1. /\ reading /\ n \in Ahead /\ (\A m \in Ahead : n <= m) /\ position' = n
      /\ decoded' = Append(decoded, d)
      /\ elems' = [j \in 1..last |-> IF j = i THEN elem ELSE elems[j]]
      /\ UNCHANGED <<docs, lasting, len, newSlice, reading, answer>>
  BY DEF DecodeNext, collVars
<1>2. /\ Len(decoded) \in Nat /\ Len(elems) \in Nat /\ Len(decoded) <= Len(elems)
      /\ i \in Nat \ {0} /\ last \in Nat /\ i \in 1..last
      /\ elems \in Seq(Struct) /\ decoded \in Seq([id : Ids, doc : Doc])
  BY DEF DocsInv, DocsTypeOK, ElementsShow
<1>3. docs[n] \in Doc /\ d \in [id : Ids, doc : Doc]
  BY <1>1 DEF DocsInv, DocsTypeOK, Ahead
<1>4. /\ decoded' \in Seq([id : Ids, doc : Doc]) /\ Len(decoded') = i
      /\ \A j \in 1..Len(decoded) : decoded'[j] = decoded[j]
      /\ decoded'[i] = d
  BY <1>1, <1>2, <1>3, AppendProperties
<1>5. Element(i) \in Struct
  <2>1. ZeroStruct \in Struct
    BY DEF ZeroStruct, Struct
  <2>2. i <= Len(elems) => elems[i] \in Struct
    BY <1>2, ElementOfSeq
  <2> QED
    BY <2>1, <2>2 DEF Element
<1>6. /\ elem \in Struct
      /\ \A f \in DocFields : elem[f] = IF f \in DOMAIN docs[n] THEN docs[n][f] ELSE Element(i)[f]
  BY <1>3, <1>5, DecodedElement
<1>7. newSlice => Element(i) = ZeroStruct
  BY <1>2 DEF DocsInv, ElementsShow, Element
<1> HIDE DEF elem, i, last
<1>8. /\ elems' \in Seq(Struct) /\ Len(elems') = last
      /\ elems'[i] = elem /\ \A j \in 1..Len(decoded) : elems'[j] = elems[j]
  <2>1. \A j \in 1..last : j # i => elems[j] \in Struct
    BY <1>2, ElementOfSeq DEF i, last
  <2>2. elems' \in Seq(Struct) /\ Len(elems') = last
    BY <1>1, <1>2, <1>6, <2>1
  <2>3. \A j \in 1..Len(decoded) : j \in 1..last /\ j # i
    BY <1>2 DEF i, last
  <2> QED
    BY <1>1, <1>2, <2>2, <2>3
<1>9. DocsTypeOK'
  <2>1. n \in 0..MaxId
    BY DEF Ids
  <2> QED
    BY <1>1, <1>4, <1>8, <2>1 DEF DocsInv, DocsTypeOK
<1>10. \A j \in 1..i : j \in 1..Len(decoded) \/ j = i
  BY <1>2 DEF i
<1>11. ElementsShow'
  <2>1. Len(decoded') <= Len(elems') /\ (newSlice' => Len(decoded') = Len(elems'))
    <3>1. newSlice => Len(decoded) = Len(elems)
      BY DEF DocsInv, ElementsShow
    <3> QED
      BY <1>1, <1>2, <1>4, <1>8, <3>1 DEF i, last
  <2>2. Shows(elem, docs[n], newSlice)
    <3>1. newSlice => \A f \in DocFields : Element(i)[f] = 0
      BY <1>7 DEF ZeroStruct
    <3> QED
      BY <1>6, <3>1 DEF Shows
  <2>3. \A j \in 1..Len(decoded) : Shows(elems[j], decoded[j].doc, newSlice)
    BY DEF DocsInv, ElementsShow
  <2>4. \A j \in 1..i : Shows(elems'[j], decoded'[j].doc, newSlice)
    BY <1>4, <1>8, <1>10, <2>2, <2>3
  <2> QED
    BY <1>1, <1>4, <2>1, <2>4 DEF ElementsShow
<1>12. NonePassed'
  <2>1. answer' = "none" /\ answer = "none"
    BY <1>1 DEF DocsInv, NonePassed
  <2>2. ASSUME NEW m \in lasting', m <= position' PROVE Decoded(m)'
    <3>1. m \in lasting /\ m \in Ids /\ m \in DOMAIN docs
      BY <1>1 DEF DocsInv, DocsTypeOK
    <3>2. m <= position \/ m = n
      BY <1>1, <2>2, <3>1, DocNumbers DEF Ahead, Ids, DocsInv, DocsTypeOK
    <3>3. CASE m <= position
      <4>1. PICK j \in 1..Len(decoded) : decoded[j].id = m
        BY <1>1, <3>1, <3>3 DEF DocsInv, NonePassed, Decoded
      <4>2. j \in 1..i /\ decoded'[j].id = m
        BY <1>2, <1>4, <4>1 DEF i
      <4> QED
        BY <1>4, <4>2 DEF Decoded
    <3>4. CASE m = n
      BY <1>2, <1>4, <3>4 DEF Decoded, i
    <3> QED
      BY <3>2, <3>3, <3>4
  <2> QED
    BY <2>1, <2>2 DEF NonePassed
<1> QED
  BY <1>9, <1>11, <1>12 DEF DocsInv

LEMMA ReturnPreserves ==
  ASSUME DocsInv, CursorEnds \/ CursorFails \/ QueryError
  PROVE  DocsInv'
<1>1. /\ UNCHANGED <<docs, lasting, elems, newSlice, position, decoded>> /\ reading /\ reading' = FALSE
      /\ answer' \in {"ok", "short", "error"}
      /\ answer' = "ok" => Ahead = {}
      /\ answer' \in {"ok", "short"} => len' = Len(decoded)
      /\ len' \in Nat
  BY DEF CursorEnds, CursorFails, QueryError, Returns, Answered, collVars, DocsInv, DocsTypeOK
<1>2. DocsTypeOK'
  BY <1>1 DEF DocsInv, DocsTypeOK
<1>3. ElementsShow'
  BY <1>1 DEF DocsInv, ElementsShow, Shows
<1>4. NonePassed'
  <2>1. ASSUME answer' = "ok", NEW n \in lasting PROVE Decoded(n)
    BY <1>1, <2>1 DEF Ahead, DocsInv, DocsTypeOK, NonePassed, Ids
  <2> QED
    BY <1>1, <2>1 DEF NonePassed, Decoded
<1> QED
  BY <1>2, <1>3, <1>4 DEF DocsInv

LEMMA DocsNextPreserves == DocsInv /\ [DocsNext]_docsVars => DocsInv'
<1> SUFFICES ASSUME DocsInv, [DocsNext]_docsVars PROVE DocsInv'
  OBVIOUS
<1>1. ASSUME NEW n \in Ids, NEW doc \in Doc, Insert(n, doc) \/ Update(n, doc) \/ Upsert(n, doc)
      PROVE  DocsInv'
  BY <1>1, PutDocPreserves, UpdatePreserves DEF Insert, Upsert
<1>2. ASSUME NEW n \in Ids, NEW s \in Struct, UpdateStruct(n, s) PROVE DocsInv'
  BY <1>2, StructIsDoc, UpdatePreserves DEF UpdateStruct
<1>3. CASE UNCHANGED docsVars
  BY <1>3 DEF docsVars, collVars, sliceVars, queryVars, DocsInv, DocsTypeOK, ElementsShow, Shows,
              NonePassed, Decoded
<1> QED
  BY <1>1, <1>2, <1>3, DecodeNextPreserves, DeletePreserves, FindPreserves, ReturnPreserves DEF DocsNext

(* What every reachable state of a collection and its query satisfies.     *)
THEOREM DocsInvariant == DocsSpec => []DocsInv
<1>1. DocsInit => DocsInv
  <2> SUFFICES ASSUME DocsInit PROVE DocsInv
    OBVIOUS
  <2>1. elems \in Seq(Struct) /\ decoded \in Seq([id : Ids, doc : Doc]) /\ Len(decoded) = 0 /\ Len(elems) = 0
    BY EmptySeq DEF DocsInit
  <2>2. DOMAIN docs = {} /\ position \in 0..MaxId
    BY DocNumbers DEF DocsInit
  <2>3. DocsTypeOK
    BY <2>1, <2>2 DEF DocsInit, DocsTypeOK
  <2> QED
    BY <2>1, <2>3 DEF DocsInit, DocsInv, ElementsShow, NonePassed
<1> QED
  BY <1>1, DocsNextPreserves, PTL DEF DocsSpec

(* A query that returns no error shows the documents it read, with their   *)
(* values, and every document that was there all the time                  *)
(* (internal.go:45-83).                                                    *)
THEOREM QueryShowsDocsCorrect == DocsSpec => []QueryShowsDocs
<1>1. DocsInv => QueryShowsDocs
  BY DEF DocsInv, ElementsShow, Shows, NonePassed, Decoded, QueryShowsDocs
<1> QED
  BY <1>1, DocsInvariant, PTL

-----------------------------------------------------------------------------
(***************************************************************************)
(* PagedQuery, for every width of the integers, every set of               *)
(* pages and sizes and every number of rows.                               *)
(***************************************************************************)

-----------------------------------------------------------------------------
(* The arithmetic *)

(* Powers of two are numbers that double.  The library knows of them as    *)
(* the numbers of subsets.                                                 *)
LEMMA PowersDouble ==
  ASSUME NEW n \in Nat
  PROVE  2^n \in Nat /\ 2^(n + 1) = 2 * 2^n
<1> DEFINE A == SUBSET (1..n)
           B == {X \cup {n + 1} : X \in A}
           f == [X \in A |-> X \cup {n + 1}]
<1>1. IsFiniteSet(1..n) /\ Cardinality(1..n) = n /\ IsFiniteSet(1..n + 1) /\ Cardinality(1..n + 1) = n + 1
  BY FS_Interval
<1>2. IsFiniteSet(A) /\ Cardinality(A) = 2^n
  BY <1>1, FS_SUBSET
<1>3. Cardinality(SUBSET (1..n + 1)) = 2^(n + 1)
  <2>1. Cardinality(SUBSET (1..n + 1)) = 2^Cardinality(1..n + 1)
    BY <1>1, FS_SUBSET
  <2> QED
    BY <1>1, <2>1
<1>4. n + 1 \notin 1..n /\ 1..n + 1 = 1..n \cup {n + 1}
  OBVIOUS
<1>5. SUBSET (1..n + 1) = A \cup B
  <2>1. ASSUME NEW X \in SUBSET (1..n + 1) PROVE X \in A \cup B
    <3>1. CASE n + 1 \in X
      <4>1. X \ {n + 1} \in A /\ X = (X \ {n + 1}) \cup {n + 1}
        BY <1>4, <3>1
      <4> QED
        BY <4>1
    <3>2. CASE n + 1 \notin X
      BY <1>4, <3>2
    <3> QED
      BY <3>1, <3>2
  <2>2. A \cup B \subseteq SUBSET (1..n + 1)
    BY <1>4
  <2> QED
    BY <2>1, <2>2
<1>6. A \cap B = {}
  BY <1>4
<1>7. f \in Bijection(A, B)
  <2>1. ASSUME NEW X \in A, NEW Y \in A, f[X] = f[Y] PROVE X = Y
    BY <1>4, <2>1
  <2>2. f \in [A -> B] /\ \A Z \in B : \E X \in A : f[X] = Z
    OBVIOUS
  <2> QED
    BY <2>1, <2>2, Fun_IsBij
<1>8. IsFiniteSet(B) /\ Cardinality(B) = Cardinality(A)
  BY <1>2, <1>7, FS_Bijection DEF ExistsBijection
<1>9. Cardinality(A \cup B) = Cardinality(A) + Cardinality(B) - Cardinality(A \cap B)
  BY <1>2, <1>8, FS_Union
<1>10. Cardinality(A) \in Nat /\ Cardinality({}) = 0
  BY <1>2, FS_CardinalityType, FS_EmptySet
<1> HIDE DEF A, B
<1>11. 2^(n + 1) = Cardinality(A) + Cardinality(A)
  <2>1. Cardinality(A \cup B) = Cardinality(A) + Cardinality(A) - 0
    BY <1>6, <1>8, <1>9, <1>10
  <2>2. 2^(n + 1) = Cardinality(A \cup B)
    BY <1>3, <1>5
  <2> QED
    BY <1>10, <2>1, <2>2
<1>12. \A c \in Nat : c + c = 2 * c
  OBVIOUS
<1> QED
  BY <1>2, <1>10, <1>11, <1>12

LEMMA SmallRemainder == ASSUME NEW a \in Nat, NEW b \in Nat, a < b PROVE a % b = a
  OBVIOUS

(* A number below half the range is itself in 32 bits.                     *)
LEMMA Int32Fits ==
  ASSUME NEW n \in Nat, n < 2^(Width - 1)
  PROVE  Int32(n) = n
<1> DEFINE H == 2^(Width - 1)
<1>1. H \in Nat /\ 2^Width = 2 * H
  <2>1. Width - 1 \in Nat /\ (Width - 1) + 1 = Width
    BY PagedNumbers
  <2> QED
    BY <2>1, PowersDouble
<1>2. Int32(n) = ((n + H) % (2 * H)) - H
  BY <1>1 DEF Int32
<1> HIDE DEF H
<1>3. (n + H) % (2 * H) = n + H
  BY <1>1, SmallRemainder DEF H
<1> QED
  BY <1>1, <1>2, <1>3

LEMMA PageIs ==
  ASSUME NEW q, q.page \in Int, q.size \in Int
  PROVE  PageOf(q) \in Nat \ {0} /\ SizeOf(q) \in Nat \ {0}
  BY DEF PageOf, SizeOf

LEMMA Products ==
  ASSUME NEW p \in Nat \ {0}, NEW s \in Nat \ {0}
  PROVE  /\ p * s \in Nat /\ (p - 1) * s \in Nat /\ p * s = (p - 1) * s + s
         /\ (p + 1) * s = p * s + s /\ (p + 1) - 1 = p
  OBVIOUS

-----------------------------------------------------------------------------
(* Ranks *)

LEMMA RankIs ==
  ASSUME NEW in \in SUBSET Nat, IsFiniteSet(in), NEW r
  PROVE  /\ IsFiniteSet({x \in in : x <= r})
         /\ Rank(r, in) \in Nat /\ Rank(r, in) <= Cardinality(in)
<1>1. {x \in in : x <= r} \in SUBSET in
  OBVIOUS
<1>2. IsFiniteSet({x \in in : x <= r}) /\ Cardinality({x \in in : x <= r}) <= Cardinality(in)
  BY <1>1, FS_Subset
<1> QED
  BY <1>2, FS_CardinalityType DEF Rank

(* The larger of two rows has the larger rank. *)
LEMMA RankGrows ==
  ASSUME NEW in \in SUBSET Nat, IsFiniteSet(in), NEW r \in in, NEW s \in in, r < s
  PROVE  Rank(r, in) < Rank(s, in)
<1> DEFINE R == {x \in in : x <= r}
           S == {x \in in : x <= s}
<1>1. IsFiniteSet(R) /\ IsFiniteSet(S)
  BY RankIs
<1>2. R \in SUBSET S /\ R # S
  <2>1. \A x \in in : x \in R => x \in S
    OBVIOUS
  <2>2. s \in S /\ s \notin R
    OBVIOUS
  <2> QED
    BY <2>1, <2>2
<1>3. Cardinality(R) <= Cardinality(S) /\ Cardinality(R) # Cardinality(S)
  BY <1>1, <1>2, FS_Subset
<1>4. Cardinality(R) \in Nat /\ Cardinality(S) \in Nat
  BY <1>1, FS_CardinalityType
<1> QED
  BY <1>3, <1>4 DEF Rank

LEMMA RankUnique ==
  ASSUME NEW in \in SUBSET Nat, IsFiniteSet(in), NEW r \in in, NEW s \in in, Rank(r, in) = Rank(s, in)
  PROVE  r = s
<1>1. Rank(r, in) \in Nat
  BY RankIs
<1> QED
  BY <1>1, RankGrows

(* A row that comes last changes no rank, and one that goes lowers by one  *)
(* at most.                                                                *)
LEMMA RankAdded ==
  ASSUME NEW in \in SUBSET Nat, NEW r \in in, NEW new \in Nat, \A x \in in : x < new
  PROVE  Rank(r, in \cup {new}) = Rank(r, in)
<1>1. {x \in in \cup {new} : x <= r} = {x \in in : x <= r}
  OBVIOUS
<1> QED
  BY <1>1 DEF Rank

LEMMA RankRemoved ==
  ASSUME NEW in \in SUBSET Nat, IsFiniteSet(in), NEW r \in in, NEW gone \in in
  PROVE  Rank(r, in \ {gone}) <= Rank(r, in) /\ Rank(r, in) <= Rank(r, in \ {gone}) + 1
<1> DEFINE R == {x \in in : x <= r}
<1>1. IsFiniteSet(R) /\ Cardinality(R) \in Nat
  BY RankIs DEF Rank
<1>2. {x \in in \ {gone} : x <= r} = R \ {gone}
  OBVIOUS
<1>3. Cardinality(R \ {gone}) = IF gone \in R THEN Cardinality(R) - 1 ELSE Cardinality(R)
  BY <1>1, FS_RemoveElement
<1> HIDE DEF R
<1>4. Rank(r, in \ {gone}) = Cardinality(R \ {gone}) /\ Rank(r, in) = Cardinality(R)
  BY <1>2 DEF Rank, R
<1> QED
  BY <1>1, <1>3, <1>4

(* The rows from an offset on are no more than those there are after it.   *)
LEMMA PageFits ==
  ASSUME NEW in \in SUBSET Nat, IsFiniteSet(in), NEW from \in Nat, NEW size \in Nat,
         NEW page, page = {r \in in : Rank(r, in) \in from + 1 .. from + size}
  PROVE  IsFiniteSet(page) /\ (page # {} => from + Cardinality(page) <= Cardinality(in))
<1>1. page \in SUBSET in /\ IsFiniteSet(page) /\ Cardinality(page) \in Nat /\ Cardinality(in) \in Nat
  BY FS_Subset, FS_CardinalityType
<1>2. ASSUME page # {} PROVE from + Cardinality(page) <= Cardinality(in)
  <2> DEFINE ranks == from + 1 .. Cardinality(in)
             f == [r \in page |-> Rank(r, in)]
  <2>1. ASSUME NEW r \in page
        PROVE  Rank(r, in) \in ranks /\ from + 1 <= Cardinality(in)
    <3>1. Rank(r, in) \in from + 1 .. from + size
      OBVIOUS
    <3>2. Rank(r, in) \in Nat /\ Rank(r, in) <= Cardinality(in)
      BY RankIs
    <3> QED
      BY <1>1, <3>1, <3>2
  <2>2. f \in Injection(page, ranks)
    <3>1. f \in [page -> ranks]
      BY <2>1
    <3>2. \A r, s \in page : f[r] = f[s] => r = s
      BY <1>1, RankUnique
    <3> QED
      BY <3>1, <3>2, Fun_IsInj
  <2>3. from + 1 <= Cardinality(in)
    BY <1>2, <2>1
  <2>4. IsFiniteSet(ranks) /\ Cardinality(ranks) = Cardinality(in) - from
    BY <1>1, <2>3, FS_Interval
  <2>5. Cardinality(page) <= Cardinality(ranks)
    BY <2>2, <2>4, FS_Injection
  <2> QED
    BY <1>1, <2>4, <2>5
<1> QED
  BY <1>1, <1>2

-----------------------------------------------------------------------------
(* The invariant *)

PagedTypeOK ==
  /\ lastRow \in Nat /\ table \subseteq 1..lastRow /\ snapshot \subseteq 1..lastRow
  /\ ask \in [api : Apis, page : Int, size : Int, inTx : BOOLEAN]
  /\ ask.inTx => CountsFirst /\ between = 0
  /\ stage \in {"none", "half", "full", "failed"}
  /\ total \in Nat /\ between \in Nat /\ deleted \in Nat /\ IsFiniteSet(rows)
  /\ stable \subseteq table \cap snapshot

(* Between the two queries: what the first one saw is at most as many      *)
(* rows away from the table as there were changes since.                   *)
HalfFits ==
  stage = "half" =>
    /\ CountsFirst => Cardinality(View) <= total + between
    /\ ~CountsFirst /\ rows # {} /\ Fits32 =>
         (Page - 1) * Size + Cardinality(rows) <= Cardinality(View) + between

(* The walk has had the rows of the ranks so far, but for those that moved *)
(* behind it: one for each row that was deleted.                           *)
HasRead == stage = "full" \/ (stage = "half" /\ ~CountsFirst)
Covered == IF HasRead THEN Page * Size ELSE (Page - 1) * Size
Behind  == {r \in stable \ got : Rank(r, View) <= Covered}
BehindWereMoved ==
  stage # "failed" /\ Fits32 => Cardinality(Behind) <= IF ask.inTx THEN 0 ELSE deleted

(* The number counts every row that was there all the time.                *)
HasCounted == stage = "full" \/ (stage = "half" /\ CountsFirst)
StableCounted == HasCounted => \A r \in stable : Rank(r, View) <= total

PagedInv == PagedTypeOK /\ HalfFits /\ TotalFits /\ BehindWereMoved /\ StableCounted

-----------------------------------------------------------------------------
LEMMA TableIs ==
  ASSUME PagedTypeOK
  PROVE  /\ table \in SUBSET Nat /\ IsFiniteSet(table) /\ Cardinality(table) \in Nat
         /\ snapshot \in SUBSET Nat /\ IsFiniteSet(snapshot) /\ Cardinality(snapshot) \in Nat
         /\ View \in SUBSET Nat /\ IsFiniteSet(View) /\ Cardinality(View) \in Nat
         /\ stable \subseteq View /\ IsFiniteSet(stable)
<1>1. IsFiniteSet(1..lastRow) /\ 1..lastRow \subseteq Nat
  BY FS_Interval DEF PagedTypeOK
<1>2. /\ table \in SUBSET (1..lastRow) /\ snapshot \in SUBSET (1..lastRow)
      /\ View \in SUBSET (1..lastRow) /\ stable \in SUBSET (1..lastRow) /\ stable \subseteq View
  BY DEF PagedTypeOK, View
<1> QED
  BY <1>1, <1>2, FS_Subset, FS_CardinalityType

LEMMA AskIs ==
  ASSUME PagedTypeOK
  PROVE  /\ Page \in Nat \ {0} /\ Size \in Nat \ {0}
         /\ Page * Size \in Nat /\ (Page - 1) * Size \in Nat /\ Page * Size = (Page - 1) * Size + Size
<1>1. Page \in Nat \ {0} /\ Size \in Nat \ {0}
  BY PageIs DEF PagedTypeOK, Page, Size
<1> QED
  BY <1>1, Products

(* Where the product fits, the page begins where it should.                *)
LEMMA OffsetIs ==
  ASSUME PagedTypeOK, Fits32
  PROVE  Offset = (Page - 1) * Size
<1>1. (Page - 1) * Size < 2^(Width - 1)
  <2>1. Width - 1 \in Nat
    BY PagedNumbers
  <2>2. 2^(Width - 1) \in Nat
    BY <2>1, PowersDouble
  <2> QED
    BY <2>2, AskIs DEF Fits32
<1>2. Skip = (Page - 1) * Size
  BY <1>1, AskIs, Int32Fits DEF Skip
<1> QED
  BY <1>2, AskIs DEF Offset

(* Fewer rows behind, or as many, are as good.                             *)
LEMMA FewerBehind ==
  ASSUME PagedTypeOK, NEW S \in SUBSET Behind
  PROVE  /\ IsFiniteSet(Behind) /\ Cardinality(Behind) \in Nat
         /\ IsFiniteSet(S) /\ Cardinality(S) \in Nat /\ Cardinality(S) <= Cardinality(Behind)
<1>1. Behind \in SUBSET stable
  BY DEF Behind
<1> QED
  BY <1>1, TableIs, FS_Subset, FS_CardinalityType

-----------------------------------------------------------------------------
(* The caller's steps *)

LEMMA BeginPreserves ==
  ASSUME PagedInv, NEW api \in Apis, NEW page \in Pages, NEW size \in Sizes, NEW inTx \in BOOLEAN,
         Begin(api, page, size, inTx)
  PROVE  PagedInv'
<1>1. /\ ask' = [api |-> api, page |-> page, size |-> size, inTx |-> inTx]
      /\ inTx => api \in {"FindPage", "FindRawPage"}
      /\ stage' = "none" /\ rows' = {} /\ total' = 0 /\ between' = 0
      /\ snapshot' = table /\ got' = {} /\ deleted' = 0
      /\ stable' = {r \in table : Rank(r, table) > (PageOf(ask') - 1) * SizeOf(ask')}
      /\ UNCHANGED <<table, lastRow>>
  BY DEF Begin
<1>2. page \in Int /\ size \in Int
  BY PagedNumbers
<1>3. PagedTypeOK'
  <2>1. ask' \in [api : Apis, page : Int, size : Int, inTx : BOOLEAN]
    BY <1>1, <1>2
  <2>2. ask'.inTx => CountsFirst'
    BY <1>1 DEF CountsFirst
  <2> QED
    BY <1>1, <2>1, <2>2, FS_EmptySet DEF PagedInv, PagedTypeOK
<1>4. View' = table /\ Covered' = (PageOf(ask') - 1) * SizeOf(ask')
  BY <1>1 DEF View, Covered, HasRead, Page, Size
<1>5. Behind' = {}
  <2>1. \A r \in table : Rank(r, table) \in Nat
    BY TableIs, RankIs DEF PagedInv
  <2>2. Covered' \in Nat
    <3>1. PageOf(ask') \in Nat \ {0} /\ SizeOf(ask') \in Nat \ {0}
      BY <1>3, PageIs DEF PagedTypeOK
    <3> QED
      BY <1>4, <3>1, Products
  <2> QED
    BY <1>1, <1>4, <2>1, <2>2 DEF Behind
<1>6. BehindWereMoved'
  BY <1>1, <1>5, FS_EmptySet DEF BehindWereMoved
<1>7. HalfFits' /\ TotalFits' /\ StableCounted'
  BY <1>1 DEF HalfFits, TotalFits, StableCounted, HasCounted
<1> QED
  BY <1>3, <1>6, <1>7 DEF PagedInv

(* The next page begins where the last one ended.                          *)
LEMMA NextPagePreserves ==
  ASSUME PagedInv, NextPage
  PROVE  PagedInv'
<1>1. /\ stage = "full" /\ ask' = [ask EXCEPT !.page = Page + 1]
      /\ stage' = "none" /\ rows' = {} /\ total' = 0 /\ between' = 0
      /\ UNCHANGED <<table, lastRow, snapshot, stable, got, deleted>>
  BY DEF NextPage, tableVars, walkVars
<1>2. PagedTypeOK /\ Page \in Nat \ {0} /\ Size \in Nat \ {0} /\ Page * Size \in Nat
  BY AskIs DEF PagedInv
<1>3. /\ ask' \in [api : Apis, page : Int, size : Int, inTx : BOOLEAN]
      /\ ask'.page = Page + 1 /\ ask'.size = ask.size /\ ask'.api = ask.api /\ ask'.inTx = ask.inTx
  BY <1>1, <1>2 DEF PagedTypeOK
<1>4. Page' = Page + 1 /\ Size' = Size
  BY <1>2, <1>3 DEF Page, Size, PageOf, SizeOf
<1>5. PagedTypeOK'
  BY <1>1, <1>2, <1>3, FS_EmptySet DEF PagedTypeOK, CountsFirst
<1>6. Covered' = Page * Size /\ Covered = Page * Size /\ Page' * Size' = Page * Size + Size
  <2>1. (Page' - 1) * Size' = Page * Size /\ Page' * Size' = Page * Size + Size
    BY <1>2, <1>4, Products
  <2> QED
    BY <1>1, <2>1 DEF Covered, HasRead
<1>7. Behind' = Behind
  BY <1>1, <1>3, <1>6 DEF Behind, View
<1>8. Fits32' => Fits32
  <2>1. Width - 1 \in Nat
    BY PagedNumbers
  <2>2. 2^(Width - 1) \in Nat
    BY <2>1, PowersDouble
  <2> QED
    BY <1>2, <1>6, <2>2 DEF Fits32
<1>9. BehindWereMoved'
  BY <1>1, <1>3, <1>7, <1>8 DEF PagedInv, BehindWereMoved
<1>10. HalfFits' /\ TotalFits' /\ StableCounted'
  BY <1>1 DEF HalfFits, TotalFits, StableCounted, HasCounted
<1> QED
  BY <1>5, <1>9, <1>10 DEF PagedInv

(* What a query leaves alone. *)
LEMMA SameAsk ==
  ASSUME UNCHANGED <<tableVars, ask>>
  PROVE  /\ View' = View /\ Page' = Page /\ Size' = Size /\ Fits32' = Fits32
         /\ CountsFirst' = CountsFirst /\ ask' = ask
         /\ table' = table /\ lastRow' = lastRow /\ snapshot' = snapshot
  BY DEF tableVars, View, Page, Size, Fits32, CountsFirst

(* The query that counts.                                                  *)
LEMMA CountsPreserves ==
  ASSUME PagedInv, Counts, UNCHANGED <<tableVars, ask, stable, deleted>>,
         \/ CountsFirst /\ stage = "none" /\ stage' = "half" /\ between' = 0
         \/ ~CountsFirst /\ stage = "half" /\ stage' = "full" /\ between' = between
  PROVE  PagedInv'
<1>1. total' = Cardinality(View) /\ UNCHANGED <<rows, got, stable, deleted>>
  BY DEF Counts
<1>2. PagedTypeOK'
  <2>1. total' \in Nat /\ stage' \in {"half", "full"}
    BY <1>1, TableIs DEF PagedInv
  <2>2. between' \in Nat /\ (ask.inTx => CountsFirst /\ between' = 0)
    BY DEF PagedInv, PagedTypeOK
  <2> QED
    BY <1>1, <2>1, <2>2, SameAsk DEF PagedInv, PagedTypeOK
<1>3. Behind' = Behind
  <2>1. Covered' = Covered
    BY SameAsk DEF Covered, HasRead
  <2> QED
    BY <1>1, <2>1, SameAsk DEF Behind
<1>4. BehindWereMoved'
  BY <1>1, <1>3, SameAsk DEF PagedInv, BehindWereMoved
<1>5. StableCounted'
  <2>1. \A r \in stable : Rank(r, View) <= Cardinality(View)
    BY TableIs, RankIs DEF PagedInv
  <2> QED
    BY <1>1, <2>1, SameAsk DEF StableCounted
<1>6. HalfFits' /\ TotalFits'
  <2>1. CASE CountsFirst /\ stage' = "half" /\ between' = 0
    <3>1. Cardinality(View) <= Cardinality(View) + 0
      BY TableIs DEF PagedInv
    <3> QED
      BY <1>1, <2>1, <3>1, SameAsk DEF HalfFits, TotalFits
  <2>2. CASE ~CountsFirst /\ stage = "half" /\ stage' = "full" /\ between' = between
    BY <1>1, <2>2, SameAsk DEF PagedInv, HalfFits, TotalFits
  <2> QED
    BY <2>1, <2>2
<1> QED
  BY <1>2, <1>4, <1>5, <1>6 DEF PagedInv

(* The query that reads the page.                                          *)
LEMMA ReadsPreserves ==
  ASSUME PagedInv, Reads, UNCHANGED <<tableVars, ask, stable, deleted>>,
         \/ ~CountsFirst /\ stage = "none" /\ stage' = "half" /\ between' = 0
         \/ CountsFirst /\ stage = "half" /\ stage' = "full" /\ between' = between
  PROVE  PagedInv'
<1>1. rows' = PageRows /\ got' = got \cup PageRows /\ UNCHANGED <<total, stable, deleted>>
  BY DEF Reads
<1>2. PagedTypeOK'
  <2>1. IsFiniteSet(rows') /\ stage' \in {"half", "full"}
    <3>1. PageRows \in SUBSET View
      BY DEF PageRows
    <3> QED
      BY <1>1, <3>1, TableIs, FS_Subset DEF PagedInv
  <2>2. between' \in Nat /\ (ask.inTx => CountsFirst /\ between' = 0)
    BY DEF PagedInv, PagedTypeOK
  <2> QED
    BY <1>1, <2>1, <2>2, SameAsk DEF PagedInv, PagedTypeOK
<1>3. /\ Covered = (Page - 1) * Size /\ Covered' = Page * Size
      /\ Covered \in Nat /\ Covered' = Covered + Size /\ Size \in Nat
  BY SameAsk, AskIs DEF Covered, HasRead, PagedInv
<1>4. ASSUME Fits32 PROVE Behind' \subseteq Behind
  <2> SUFFICES ASSUME NEW r \in stable \ got', Rank(r, View) <= Covered'
               PROVE  Rank(r, View) <= Covered
    BY <1>1, SameAsk DEF Behind
  <2>1. Offset = Covered
    BY <1>3, <1>4, OffsetIs DEF PagedInv
  <2>2. r \in View /\ r \notin PageRows /\ Rank(r, View) \in Nat
    BY <1>1, TableIs, RankIs DEF PagedInv
  <2>3. Rank(r, View) \notin Offset + 1 .. Offset + Size
    BY <2>2 DEF PageRows
  <2> QED
    BY <1>3, <2>1, <2>2, <2>3
<1>5. BehindWereMoved'
  <2> SUFFICES ASSUME Fits32
               PROVE  Cardinality(Behind') <= IF ask.inTx THEN 0 ELSE deleted
    BY <1>1, SameAsk DEF BehindWereMoved
  <2>1. Cardinality(Behind) <= IF ask.inTx THEN 0 ELSE deleted
    BY DEF PagedInv, BehindWereMoved
  <2>2. Cardinality(Behind') \in Nat /\ Cardinality(Behind) \in Nat /\ Cardinality(Behind') <= Cardinality(Behind)
    BY <1>4, FewerBehind DEF PagedInv
  <2>3. deleted \in Nat
    BY DEF PagedInv, PagedTypeOK
  <2> QED
    BY <2>1, <2>2, <2>3
<1>6. StableCounted'
  BY <1>1, SameAsk DEF PagedInv, StableCounted, HasCounted
<1>7. ASSUME Fits32, PageRows # {} PROVE (Page - 1) * Size + Cardinality(PageRows) <= Cardinality(View)
  <2>1. PageRows = {r \in View : Rank(r, View) \in Offset + 1 .. Offset + Size}
    BY DEF PageRows
  <2>2. Offset = (Page - 1) * Size /\ Offset \in Nat /\ Size \in Nat
    BY <1>3, <1>7, OffsetIs DEF PagedInv
  <2>3. View \in SUBSET Nat /\ IsFiniteSet(View)
    BY TableIs DEF PagedInv
  <2> QED
    BY <1>7, <2>1, <2>2, <2>3, PageFits
<1>8. /\ Cardinality(View) \in Nat /\ total \in Nat /\ between \in Nat
      /\ (Page - 1) * Size \in Nat /\ Cardinality(PageRows) \in Nat
  <2>1. PageRows \in SUBSET View
    BY DEF PageRows
  <2> QED
    BY <2>1, TableIs, AskIs, FS_Subset, FS_CardinalityType DEF PagedInv, PagedTypeOK
<1>9. CASE ~CountsFirst /\ stage' = "half" /\ between' = 0
  <2>1. HalfFits'
    BY <1>1, <1>7, <1>8, <1>9, SameAsk DEF HalfFits
  <2>2. TotalFits'
    BY <1>9 DEF TotalFits
  <2> QED
    BY <1>2, <1>5, <1>6, <2>1, <2>2 DEF PagedInv
<1>10. CASE CountsFirst /\ stage = "half" /\ stage' = "full" /\ between' = between
  <2>1. Cardinality(View) <= total + between
    BY <1>10 DEF PagedInv, HalfFits
  <2>2. TotalFits'
    <3> SUFFICES ASSUME PageRows # {}, Fits32
                 PROVE  (Page - 1) * Size + Cardinality(PageRows) <= total + between
      BY <1>1, <1>10, SameAsk DEF TotalFits
    <3>1. (Page - 1) * Size + Cardinality(PageRows) <= Cardinality(View)
      BY <1>7
    <3> QED
      BY <1>8, <2>1, <3>1
  <2>3. HalfFits'
    BY <1>10 DEF HalfFits
  <2> QED
    BY <1>2, <1>5, <1>6, <2>2, <2>3 DEF PagedInv
<1> QED
  BY <1>9, <1>10

LEMMA QueryPreserves ==
  ASSUME PagedInv, FirstQuery \/ SecondQuery \/ QueryFails
  PROVE  PagedInv'
<1>1. CASE FirstQuery
  <2>1. CASE CountsFirst
    BY <1>1, <2>1, CountsPreserves DEF FirstQuery
  <2>2. CASE ~CountsFirst
    BY <1>1, <2>2, ReadsPreserves DEF FirstQuery
  <2> QED
    BY <2>1, <2>2
<1>2. CASE SecondQuery
  <2>1. CASE CountsFirst
    BY <1>2, <2>1, ReadsPreserves DEF SecondQuery
  <2>2. CASE ~CountsFirst
    BY <1>2, <2>2, CountsPreserves DEF SecondQuery
  <2> QED
    BY <2>1, <2>2
<1>3. CASE QueryFails
  <2>1. /\ stage' = "failed" /\ rows' = {}
        /\ UNCHANGED <<table, lastRow, snapshot, ask, total, between, stable, got, deleted>>
    BY <1>3 DEF QueryFails, tableVars, walkVars
  <2>2. PagedTypeOK'
    BY <2>1, FS_EmptySet DEF PagedInv, PagedTypeOK, CountsFirst
  <2> QED
    BY <2>1, <2>2 DEF PagedInv, HalfFits, TotalFits, BehindWereMoved, StableCounted, HasCounted
<1> QED
  BY <1>1, <1>2, <1>3

-----------------------------------------------------------------------------
(* The others' steps *)

(* Another's change is counted while it matters.                           *)
LEMMA ChangeIs ==
  ASSUME PagedInv, Change
  PROVE  /\ UNCHANGED <<snapshot, ask, stage, rows, total, got>>
         /\ Page' = Page /\ Size' = Size /\ Fits32' = Fits32 /\ CountsFirst' = CountsFirst
         /\ Covered' = Covered /\ between' \in Nat
         /\ between' = IF stage = "half" /\ ~ask.inTx THEN between + 1 ELSE between
  BY DEF Change, PagedInv, PagedTypeOK, Page, Size, Fits32, CountsFirst, Covered, HasRead

(* The table does not move further than the changes that are counted.      *)
LEMMA FitsAfterChange ==
  ASSUME PagedInv, Change, Cardinality(View') \in Nat,
         ~ask.inTx => /\ Cardinality(View') <= Cardinality(View) + 1
                      /\ Cardinality(View) <= Cardinality(View') + 1,
         ask.inTx => Cardinality(View') = Cardinality(View)
  PROVE  HalfFits' /\ TotalFits'
<1>1. /\ Cardinality(View) \in Nat /\ total \in Nat /\ between \in Nat /\ Cardinality(rows) \in Nat
      /\ (Page - 1) * Size \in Nat /\ ask.inTx \in BOOLEAN
  BY TableIs, AskIs, FS_CardinalityType DEF PagedInv, PagedTypeOK
<1>2. HalfFits'
  <2> SUFFICES ASSUME stage = "half"
               PROVE  /\ CountsFirst => Cardinality(View') <= total + between'
                      /\ ~CountsFirst /\ rows # {} /\ Fits32 =>
                           (Page - 1) * Size + Cardinality(rows) <= Cardinality(View') + between'
    BY ChangeIs DEF HalfFits
  <2>1. /\ Cardinality(View') + between <= Cardinality(View) + between'
        /\ Cardinality(View) + between <= Cardinality(View') + between'
        /\ between' \in Nat
    <3>1. CASE ask.inTx
      BY <1>1, <3>1, ChangeIs
    <3>2. CASE ~ask.inTx
      BY <1>1, <3>2, ChangeIs
    <3> QED
      BY <3>1, <3>2
  <2>2. ASSUME CountsFirst PROVE Cardinality(View') <= total + between'
    <3>1. Cardinality(View) <= total + between
      BY <2>2 DEF PagedInv, HalfFits
    <3> QED
      BY <1>1, <2>1, <3>1
  <2>3. ASSUME ~CountsFirst, rows # {}, Fits32
        PROVE  (Page - 1) * Size + Cardinality(rows) <= Cardinality(View') + between'
    <3>1. (Page - 1) * Size + Cardinality(rows) <= Cardinality(View) + between
      BY <2>3 DEF PagedInv, HalfFits
    <3> QED
      BY <1>1, <2>1, <3>1
  <2> QED
    BY <2>2, <2>3
<1>3. TotalFits'
  <2>1. stage = "full" => between' = between
    BY ChangeIs
  <2> QED
    BY <2>1, ChangeIs DEF PagedInv, TotalFits
<1> QED
  BY <1>2, <1>3

LEMMA AddPreserves ==
  ASSUME PagedInv, Add
  PROVE  PagedInv'
<1>1. /\ lastRow' = lastRow + 1 /\ table' = table \cup {lastRow'} /\ Change /\ UNCHANGED <<stable, deleted>>
  BY DEF Add
<1>2. /\ lastRow \in Nat /\ lastRow' \in Nat
      /\ table \subseteq 1..lastRow /\ snapshot \subseteq 1..lastRow
  BY <1>1 DEF PagedInv, PagedTypeOK
<1>3. PagedTypeOK'
  <2>1. 1..lastRow \subseteq 1..lastRow' /\ lastRow' \in 1..lastRow'
    BY <1>1, <1>2
  <2>2. table' \subseteq 1..lastRow' /\ snapshot' \subseteq 1..lastRow'
    BY <1>1, <1>2, <2>1, ChangeIs
  <2> QED
    BY <1>1, <1>2, <2>2, ChangeIs DEF PagedInv, PagedTypeOK
<1>4. View' = IF ask.inTx THEN View ELSE View \cup {lastRow'}
  BY <1>1, ChangeIs DEF View
<1>5. \A x \in View : x < lastRow'
  BY <1>1, <1>2 DEF View
<1>6. ASSUME NEW r \in stable PROVE Rank(r, View') = Rank(r, View)
  <2>1. r \in View /\ View \in SUBSET Nat
    BY TableIs DEF PagedInv
  <2> QED
    BY <1>2, <1>4, <1>5, <2>1, RankAdded
<1>7. Behind' = Behind
  BY <1>1, <1>6, ChangeIs DEF Behind
<1>8. BehindWereMoved' /\ StableCounted'
  BY <1>1, <1>6, <1>7, ChangeIs DEF PagedInv, BehindWereMoved, StableCounted, HasCounted
<1>9. HalfFits' /\ TotalFits'
  <2>1. lastRow' \notin View
    BY <1>2, <1>5
  <2>2. Cardinality(View \cup {lastRow'}) = Cardinality(View) + 1 /\ Cardinality(View) \in Nat
    BY <2>1, TableIs, FS_AddElement DEF PagedInv
  <2>3. CASE ask.inTx
    BY <1>1, <1>4, <2>2, <2>3, FitsAfterChange
  <2>4. CASE ~ask.inTx
    BY <1>1, <1>4, <2>2, <2>4, FitsAfterChange
  <2> QED
    BY <2>3, <2>4
<1> QED
  BY <1>3, <1>8, <1>9 DEF PagedInv

(* A row that goes moves at most one other behind the walk: the first that *)
(* was ahead.                                                              *)
LEMMA RemovePreserves ==
  ASSUME PagedInv, NEW gone \in table, Remove(gone)
  PROVE  PagedInv'
<1>1. /\ table' = table \ {gone} /\ stable' = stable \ {gone} /\ deleted' = deleted + 1
      /\ Change /\ lastRow' = lastRow
  BY DEF Remove
<1>2. PagedTypeOK'
  <2>1. ask.inTx => between' = between
    BY <1>1, ChangeIs
  <2>2. table' \subseteq 1..lastRow' /\ stable' \subseteq table' \cap snapshot' /\ deleted' \in Nat
    BY <1>1, ChangeIs DEF PagedInv, PagedTypeOK
  <2> QED
    BY <1>1, <2>1, <2>2, ChangeIs DEF PagedInv, PagedTypeOK
<1>3. View' = IF ask.inTx THEN View ELSE View \ {gone}
  BY <1>1, ChangeIs DEF View
<1>4. /\ View \in SUBSET Nat /\ IsFiniteSet(View) /\ stable \subseteq View /\ Cardinality(View) \in Nat
      /\ ~ask.inTx => gone \in View
  BY TableIs DEF PagedInv, View
<1>5. ASSUME NEW r \in stable
      PROVE  /\ Rank(r, View) \in Nat /\ Rank(r, View') \in Nat
             /\ Rank(r, View') <= Rank(r, View) /\ Rank(r, View) <= Rank(r, View') + 1
             /\ ask.inTx => Rank(r, View') = Rank(r, View)
  <2>1. r \in View /\ Rank(r, View) \in Nat
    BY <1>4, RankIs
  <2>2. CASE ask.inTx
    BY <1>3, <2>1, <2>2
  <2>3. CASE ~ask.inTx
    <3>1. View \ {gone} \in SUBSET Nat /\ IsFiniteSet(View \ {gone})
      BY <1>4, FS_RemoveElement
    <3>2. Rank(r, View \ {gone}) \in Nat
      BY <3>1, RankIs
    <3> QED
      BY <1>3, <1>4, <2>1, <2>3, <3>2, RankRemoved
  <2> QED
    BY <2>2, <2>3
<1>6. BehindWereMoved'
  <2> SUFFICES ASSUME stage # "failed", Fits32
               PROVE  Cardinality(Behind') <= IF ask.inTx THEN 0 ELSE deleted + 1
    BY <1>1, ChangeIs DEF BehindWereMoved
  <2>1. Cardinality(Behind) <= IF ask.inTx THEN 0 ELSE deleted
    BY DEF PagedInv, BehindWereMoved
  <2>2. /\ IsFiniteSet(Behind) /\ Cardinality(Behind) \in Nat /\ deleted \in Nat
        /\ PagedTypeOK /\ Covered \in Nat
    BY FewerBehind, AskIs DEF PagedInv, PagedTypeOK, Covered
  <2>3. Behind' = {r \in (stable \ {gone}) \ got : Rank(r, View') <= Covered}
    BY <1>1, ChangeIs DEF Behind
  <2>4. CASE ask.inTx
    <3>1. Behind' \in SUBSET Behind
      BY <1>5, <2>3, <2>4 DEF Behind
    <3>2. Cardinality(Behind') \in Nat /\ Cardinality(Behind') <= Cardinality(Behind)
      BY <2>2, <3>1, FewerBehind
    <3> QED
      BY <2>1, <2>2, <2>4, <3>2
  <2>5. CASE ~ask.inTx
    <3>1. CASE Behind' \subseteq Behind
      <4>1. Cardinality(Behind') \in Nat /\ Cardinality(Behind') <= Cardinality(Behind)
        BY <2>2, <3>1, FewerBehind
      <4> QED
        BY <2>1, <2>2, <2>5, <4>1
    <3>2. CASE ~(Behind' \subseteq Behind)
      <4>1. PICK y \in Behind' : y \notin Behind
        BY <3>2
      <4>2. ASSUME NEW r \in Behind', r \notin Behind
            PROVE  r \in View /\ Rank(r, View) = Covered + 1
        <5>1. r \in stable \ got /\ Rank(r, View') <= Covered
          BY <2>3
        <5>2. ~(Rank(r, View) <= Covered)
          BY <4>2, <5>1 DEF Behind
        <5> QED
          BY <1>4, <1>5, <2>2, <5>1, <5>2
      <4>3. \A r \in Behind' : r \in Behind \/ r = y
        BY <1>4, <4>1, <4>2, RankUnique
      <4>4. Behind' \in SUBSET (Behind \cup {y})
        BY <4>3
      <4>5. /\ IsFiniteSet(Behind \cup {y})
            /\ Cardinality(Behind \cup {y}) = Cardinality(Behind) + 1
        BY <2>2, <4>1, FS_AddElement
      <4>6. Cardinality(Behind') \in Nat /\ Cardinality(Behind') <= Cardinality(Behind) + 1
        BY <4>4, <4>5, FS_Subset, FS_CardinalityType
      <4> QED
        BY <2>1, <2>2, <2>5, <4>6
    <3> QED
      BY <3>1, <3>2
  <2> QED
    BY <2>4, <2>5
<1>7. StableCounted'
  <2> SUFFICES ASSUME HasCounted, NEW r \in stable
               PROVE  Rank(r, View') <= total
    BY <1>1, ChangeIs DEF StableCounted, HasCounted
  <2>1. Rank(r, View) <= total /\ total \in Nat
    BY DEF PagedInv, PagedTypeOK, StableCounted
  <2> QED
    BY <1>5, <2>1
<1>8. HalfFits' /\ TotalFits'
  <2>1. CASE ask.inTx
    BY <1>1, <1>3, <1>4, <2>1, FitsAfterChange
  <2>2. CASE ~ask.inTx
    <3>1. Cardinality(View \ {gone}) = Cardinality(View) - 1
      BY <1>4, <2>2, FS_RemoveElement
    <3>2. Cardinality(View') = Cardinality(View) - 1 /\ Cardinality(View') \in Nat
      <4>1. IsFiniteSet(View \ {gone})
        BY <1>4, FS_RemoveElement
      <4> QED
        BY <1>3, <2>2, <3>1, <4>1, FS_CardinalityType
    <3> QED
      BY <1>1, <1>4, <2>2, <3>2, FitsAfterChange
  <2> QED
    BY <2>1, <2>2
<1> QED
  BY <1>2, <1>6, <1>7, <1>8 DEF PagedInv

-----------------------------------------------------------------------------
LEMMA PagedNextPreserves == PagedInv /\ [PagedNext]_pagedVars => PagedInv'
<1> SUFFICES ASSUME PagedInv, [PagedNext]_pagedVars PROVE PagedInv'
  OBVIOUS
<1>1. CASE UNCHANGED pagedVars
  BY <1>1 DEF pagedVars, tableVars, walkVars, PagedInv, PagedTypeOK, HalfFits, TotalFits, BehindWereMoved,
              StableCounted, HasCounted, Behind, Covered, HasRead, View, Page, Size, Fits32, CountsFirst
<1> QED
  BY <1>1, BeginPreserves, NextPagePreserves, QueryPreserves, AddPreserves, RemovePreserves DEF PagedNext

(* What every reachable state of a walk through the pages satisfies.       *)
THEOREM PagedInvariant == PagedSpec => []PagedInv
<1>1. PagedInit => PagedInv
  <2> SUFFICES ASSUME PagedInit PROVE PagedInv
    OBVIOUS
  <2>1. PagedTypeOK
    BY FS_EmptySet DEF PagedInit, PagedTypeOK, Apis, CountsFirst
  <2>2. Behind = {}
    BY DEF PagedInit, Behind
  <2>3. BehindWereMoved
    BY <2>2, FS_EmptySet DEF PagedInit, BehindWereMoved
  <2> QED
    BY <2>1, <2>3 DEF PagedInit, PagedInv, HalfFits, TotalFits, StableCounted, HasCounted
<1> QED
  BY <1>1, PagedNextPreserves, PTL DEF PagedSpec

(* The rows and the total of one answer agree, but for the changes made    *)
(* between its two queries (mysqlx.go:76-86, mongox.go:116-139).           *)
THEOREM TotalFitsCorrect == PagedSpec => []TotalFits
<1>1. PagedInv => TotalFits
  BY DEF PagedInv
<1> QED
  BY <1>1, PagedInvariant, PTL

(* A walk through the pages misses no more of the rows that are there all  *)
(* the time than were deleted under it, and none in a transaction          *)
(* (mysqlx.go:76-86, mongox.go:116-139).                                   *)
THEOREM WalkCorrect == PagedSpec => []WalkMissesOnlyDeleted
<1>1. PagedInv => WalkMissesOnlyDeleted
  <2> SUFFICES ASSUME PagedInv, stage = "full", ~More, Fits32
               PROVE  Cardinality(stable \ got) <= IF ask.inTx THEN 0 ELSE deleted
    BY DEF WalkMissesOnlyDeleted
  <2>1. total <= Covered /\ total \in Nat /\ Covered \in Nat
    BY AskIs DEF More, Covered, HasRead, PagedInv, PagedTypeOK
  <2>2. \A r \in stable : Rank(r, View) \in Nat /\ Rank(r, View) <= total
    BY TableIs, RankIs DEF PagedInv, StableCounted, HasCounted
  <2>3. stable \ got = Behind
    BY <2>1, <2>2 DEF Behind
  <2> QED
    BY <2>3 DEF PagedInv, BehindWereMoved
<1> QED
  BY <1>1, PagedInvariant, PTL
=============================================================================
