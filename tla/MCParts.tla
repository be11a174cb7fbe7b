------------------------------ MODULE MCParts ------------------------------
(***************************************************************************)
(* The parts of the toolkit that share nothing with each other, in one     *)
(* instance: a behaviour is one of the part chosen at its start, and the   *)
(* variables of the others keep their first values.                        *)
(***************************************************************************)
EXTENDS NatsClient, RedisClient, PagedQuery, MongoDocs, MinioClient, Metadata, Endpoints, Deadlines

VARIABLE part

Parts == {"nats", "redis", "paged", "docs", "minio", "metadata", "endpoints", "deadlines"}

PartsInit ==
  /\ part \in Parts
  /\ NatsInit /\ RedisInit /\ PagedInit /\ DocsInit /\ MinioInit /\ MetadataInit
  /\ EndpointsInit /\ DeadlinesInit
  /\ part = "minio" \/ (domainPath = <<>> /\ bucketMade)
  /\ part = "deadlines" \/ context = {}

PartsNext ==
  \/ part = "nats" /\ NatsNext
     /\ UNCHANGED <<part, redisVars, pagedVars, docsVars, minioVars, metadataVars, endpointsVars, deadlineVars>>
  \/ part = "redis" /\ RedisNext
     /\ UNCHANGED <<part, natsVars, pagedVars, docsVars, minioVars, metadataVars, endpointsVars, deadlineVars>>
  \/ part = "paged" /\ PagedNext
     /\ UNCHANGED <<part, natsVars, redisVars, docsVars, minioVars, metadataVars, endpointsVars, deadlineVars>>
  \/ part = "docs" /\ DocsNext
     /\ UNCHANGED <<part, natsVars, redisVars, pagedVars, minioVars, metadataVars, endpointsVars, deadlineVars>>
  \/ part = "minio" /\ MinioNext
     /\ UNCHANGED <<part, natsVars, redisVars, pagedVars, docsVars, metadataVars, endpointsVars, deadlineVars>>
  \/ part = "metadata" /\ MetadataNext
     /\ UNCHANGED <<part, natsVars, redisVars, pagedVars, docsVars, minioVars, endpointsVars, deadlineVars>>
  \/ part = "endpoints" /\ EndpointsNext
     /\ UNCHANGED <<part, natsVars, redisVars, pagedVars, docsVars, minioVars, metadataVars, deadlineVars>>
  \/ part = "deadlines" /\ DeadlinesNext
     /\ UNCHANGED <<part, natsVars, redisVars, pagedVars, docsVars, minioVars, metadataVars, endpointsVars>>

PartsVars == <<part, natsVars, redisVars, pagedVars, docsVars,
               minioVars, metadataVars, endpointsVars, deadlineVars>>

PartsSpec == PartsInit /\ [][PartsNext]_PartsVars

(* Times in units of which a second has 3 and a Duration holds 7: so 3     *)
(* seconds wrap to a negative Duration and 6 to a positive one.            *)
MCSeconds         == {-1, 0, 1, 3, 6}
MCCallerDeadlines == {-1, 0, 3}

MCPages       == {0, 2, 17}
MCTitle       == [k \in MdKeys |-> "Foo"]
MCObjectNames == {<<"a">>, <<"b">>, <<"a", "b">>, <<"b", "a", "b">>}
MCDomainPaths == {<<>>, <<"s3">>}

(* Two packages with a service User of which one has a method more, and an *)
(* undescribed one.                                                        *)
Method(pkg, name, request, streams) ==
  [pkg |-> pkg, svc |-> "User", name |-> name, request |-> request, streams |-> streams]
MCMethods ==
  {Method(p, n, TRUE, FALSE) : p \in {"a", "b"}, n \in {"Get", "helper"}}
  \cup {Method("a", "Watch", TRUE, TRUE), Method("a", "Talk", FALSE, TRUE), Method("b", "Talk", FALSE, TRUE)}
MCDescribed == {<<"User", "Get">>, <<"User", "Watch">>, <<"User", "Talk">>}
=============================================================================
