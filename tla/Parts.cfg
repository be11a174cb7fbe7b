SPECIFICATION PartsSpec
CONSTANTS
  Publishers = {p1, p2}
  MaxConn = 4
  RedisCallers = {r1, r2, r3}
  FullKeys = {k1}
  NoKey = NoKey
  MaxRow = 3
  MaxDeleted = 2
  Pages <- MCPages
  Sizes = {0, 2}
  Width = 5
  MaxId = 2
  DocFields = {"a"}
  DocValues = {1, 2}
  Processes = {s1, s2}
  ObjectNames <- MCObjectNames
  Bucket = "bucket"
  DomainPaths <- MCDomainPaths
  MdKeys = {"foo", "Foo"}
  MdValues = {1, 2}
  Title <- MCTitle
  MaxMaps = 2
  MaxContexts = 2
  Methods <- MCMethods
  Described <- MCDescribed
  NoMethod = NoMethod
  NanosPerSecond = 3
  MaxDuration = 7
  Seconds <- MCSeconds
  RequestTimeout = 4
  CallerDeadlines <- MCCallerDeadlines
  MaxHops = 3
  MaxClock = 7
INVARIANT StraysWereOvertaken
INVARIANT RetriesElsewhere
INVARIANT HandlerResubscribes
INVARIANT HashesExpire
INVARIANT WalkMissesOnlyDeleted
INVARIANT TotalFits
INVARIANT QueryShowsDocs
INVARIANT UrlFindsObject
INVARIANT ContextsKept
INVARIANT ReachesTheLast
INVARIANT ServerDeadline
CHECK_DEADLOCK FALSE
