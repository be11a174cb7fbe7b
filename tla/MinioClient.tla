----------------------------- MODULE MinioClient -----------------------------
(***************************************************************************)
(* The client of an object store (src/miniox/miniox.go).  Processes that   *)
(* start at the same time look for the bucket and make it if it is         *)
(* missing; an upload returns a URL, and DeleteFileByUrl finds bucket and  *)
(* object in one.  A name is the sequence of its parts between slashes,    *)
(* without characters that mean something in a URL ("?", "#", "%").        *)
(* PresignedUrl changes nothing here and is left out.                      *)
(*                                                                         *)
(* A definition that comes right before one it resembles (BaseName before  *)
(* ObjectOf) is the same code with a bug: no action uses it, and the       *)
(* properties are known to notice when it takes the other's place.         *)
(***************************************************************************)
EXTENDS Sequences, Integers

CONSTANTS
  Processes,
  ObjectNames,   \* sequences of parts
  Bucket,        \* MinioClient.BucketName
  DomainPaths    \* paths that MinioClient.DoMain may have

ASSUME NamesAreSequences ==
  /\ ObjectNames \subseteq Seq(STRING) \ {<<>>} /\ Bucket \in STRING
  /\ \A d \in DomainPaths : d \in Seq(STRING) /\ (d = <<>> \/ Head(d) # Bucket)

VARIABLES
  domainPath,   \* the one this installation has
  bucketMade,
  start,        \* per process: "new", "missing" after BucketExists, "ready", "failed"
  stored,       \* names in the bucket
  links,        \* URLs that uploads returned: their paths
  owed,         \* names uploaded and since then neither deleted nor asked to be
  unsure        \* names of which the last upload or deletion returned an error

minioVars == <<domainPath, bucketMade, start, stored, links, owed, unsure>>

MinioInit ==
  /\ domainPath \in DomainPaths /\ bucketMade \in BOOLEAN
  /\ start = [p \in Processes |-> "new"]
  /\ stored = {} /\ links = {} /\ owed = {} /\ unsure = {}

-----------------------------------------------------------------------------
(* NewClient *)

Starts(p, from, to) == start[p] = from /\ start' = [start EXCEPT ![p] = to]

(* An error of BucketExists counts as a missing bucket. *)
BucketExists(p, err) ==
  /\ Starts(p, "new", IF bucketMade /\ ~err THEN "ready" ELSE "missing")
  /\ UNCHANGED <<domainPath, bucketMade, stored, links, owed, unsure>>

(* The store refuses to make a bucket that is there. *)
MakeBucket(p, err) ==
  /\ Starts(p, "missing", IF bucketMade \/ err THEN "failed" ELSE "ready")
  /\ bucketMade' = (bucketMade \/ ~err)
  /\ UNCHANGED <<domainPath, stored, links, owed, unsure>>

-----------------------------------------------------------------------------
(* The methods of a client *)

Using == /\ \E p \in Processes : start[p] = "ready"
         /\ UNCHANGED <<domainPath, bucketMade, start>>

Url(o) == domainPath \o <<Bucket>> \o o

(* UploadLocalFile, UploadStreamFile *)
Upload(o) ==
  /\ Using
  /\ stored' = stored \cup {o} /\ owed' = owed \cup {o} /\ unsure' = unsure \ {o}
  /\ links' = links \cup {Url(o)}

DeleteFile(o) ==
  /\ Using
  /\ stored' = stored \ {o} /\ owed' = owed \ {o} /\ unsure' = unsure \ {o}
  /\ UNCHANGED links

(* An error, after which the store may have done it all the same.          *)
UploadFails(o, stays) ==
  /\ Using
  /\ stored' = IF stays THEN stored \cup {o} ELSE stored
  /\ unsure' = unsure \cup {o}
  /\ UNCHANGED <<links, owed>>

DeleteFails(o, stays) ==
  /\ Using
  /\ stored' = IF stays THEN stored ELSE stored \ {o}
  /\ owed' = owed \ {o} /\ unsure' = unsure \cup {o}
  /\ UNCHANGED links

(* The path without its first, empty, part: bucket, then object. *)
BucketOf(url) == Head(url)
BaseName(url) == <<url[Len(url)]>>
ObjectOf(url) == Tail(url)

DeleteFileByUrl(url) ==
  /\ Using
  /\ stored' = IF BucketOf(url) = Bucket THEN stored \ {ObjectOf(url)} ELSE stored
  /\ owed' = {o \in owed : Url(o) # url} /\ unsure' = {o \in unsure : Url(o) # url}
  /\ UNCHANGED links

MinioNext ==
  \/ \E p \in Processes, err \in BOOLEAN : BucketExists(p, err) \/ MakeBucket(p, err)
  \/ \E o \in ObjectNames : Upload(o) \/ DeleteFile(o)
  \/ \E o \in ObjectNames, stays \in BOOLEAN : UploadFails(o, stays) \/ DeleteFails(o, stays)
  \/ \E url \in links : DeleteFileByUrl(url)

MinioSpec == MinioInit /\ [][MinioNext]_minioVars

-----------------------------------------------------------------------------
(* What was uploaded is there until its deletion is asked for, by name or  *)
(* by its own URL: the URL of one object never deletes another.  Where     *)
(* DoMain has no path, a URL deletes its object too, and nothing stays but *)
(* what is wanted and what an error was returned for (miniox.go:81-133).   *)
UrlFindsObject ==
  /\ owed \subseteq stored
  /\ domainPath = <<>> => stored \subseteq owed \cup unsure
=============================================================================
