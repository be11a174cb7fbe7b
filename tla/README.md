# A verification development of go-vkit

go-vkit is a Go toolkit for micro services: an HTTP/websocket gate, a gRPC
client with a connection pool, a gRPC server built on reflection, and thin
clients for logging, NATS, redis, MySQL, MongoDB and MinIO. This directory
holds TLA+ models of the parts whose correctness depends on interleavings,
limits and failures, the TLC runs that check them, and TLAPS proofs.

`PROJECT.json` lists, in machine-readable form, the components, the runs, the
source lines of every definition, the mutants each property is known to
notice, the hazards, the findings and the theorems.

## 1. Inventory

| Component (source) | State | Operations | What is hard |
|---|---|---|---|
| connection pool (`grpcclient/pool.go`) | per address: head list, busy list, `count`, `idle`; per connection: `streams`, `created`, `in`; the mutex | `getConn`, `release`, `newPool` | counters adjusted in a dozen places; the dial outside the mutex; close outside the mutex; limits |
| client registry and unary calls (`grpcclient/client.go`) | `addr2conn`, a mutex | `GetConnClient`, `DelConnClient`, `Invoke` | double-checked creation; answer against deadline; the worker goroutine; giving the slot back on all paths |
| client streams (`grpcclient/stream.go`, `client.go`) | `closed`, `err`, the mutex | `Send`, `Recv`, `Error`, `Close` | Close from several goroutines; which error is on record |
| gate stream session (`gate/streamhandler.go`) | two channels of length 10, two stop contexts, a WaitGroup, `isClose` | `Handle` with its set-up, the four workers, `Close` | the close of one side must reach the other; blocked sends; set-up that fails half-way |
| gate invocation helpers (`grpcclient/utils.go`) | map service -> address | `InvokeByGate`, `StreamByGate`, `SetServerName2Addr` | the map has no lock |
| gate HTTP handlers (`gate/grpchandler.go`, `nativehandler.go`, `function.go`, ...) | the table of native methods | `Handle`, `Register` | the order of checks and error replies |
| gRPC server (`grpcserver/`) | the table of methods | `Register`, `RegisterApiEndpoint`, `handler`, `processRequest`, `processStream` | which of several services answers; error replies; deadline header; panics |
| logger (`logger/logger.go`) | file, date, date of the last clean-up, write lock | `Init`, `Errorf`..., rotation, clean-up | rotation under concurrent writes, the clean-up's window |
| metadata (`metadata/metadata.go`) | maps that contexts carry | `Get`, `Set`, `Delete`, `Copy`, `FromContext`, `NewContext`, `MergeContext` | shared maps; keys that differ by case only |
| errors (`errorsx/`) | none | `NewErrno`, `Parse`, the kinds of `NetError` | an error's code must survive two hops |
| NATS client (`natsx/natsx.go`) | the connection, the connected handler | `Conn`, `Publish`..., `TryReconnect` | several publishers replace a closed connection at once, without a lock |
| redis client (`redisx/redisx.go`) | none; keys and their time to live in redis | `Set`, `IncrBy`, `SetHashJson`... | two commands of which the second may be lost |
| MySQL client (`mysqlx/`) | none; a table | `FindPage`, `FindRawPage`, `Transaction`, builders | two queries make one answer; 32-bit paging |
| MongoDB client (`mongox/`) | none; a collection, the caller's slice | `Insert`, `Update...`, `Query`, `QueryPaging`... | the same; a slice that was used before |
| MinIO client (`miniox/miniox.go`) | none; a bucket | `NewClient`, uploads, deletions | start-up of several processes; a name taken out of a URL |
| codec, buffer pool, utilities, `main.go` | none | pure calls | nothing stateful |

How they interact: gate's handlers call `InvokeByGate`/`StreamByGate`, which
find the client of an address in the registry; the client takes a connection
of its pool for each call or stream and gives it back when the call returns or
the stream is closed; a streaming session of the gate is two pumps around one
client stream. The server side is reached through gRPC only.

Correctness, per component: the pool neither loses nor over-shares a
connection, never closes one in use, and its counters agree with its lists;
the registry makes one client per address; a call gives its slot back once and
leaves no goroutine behind; a stream does too, and reports its error; a session
that loses one side closes the other and ends; a call reaches the method it
names; a publish is never retried on a dead connection; what is meant to expire
does; a page query loses no rows it could have shown; no context sees a header
that was set for another.

## 2. Modules

| Module | Models | Relation |
|---|---|---|
| `ConnLease` | what the pool promises: live connections, who has which | abstract |
| `ConnPool` | `pool.go` | implements `ConnLease` (`ImplementsLease`) |
| `PoolLists` | the nodes and pointers of the pool's lists | extends `ConnPool`, and implements it (`ListsImplementSets`) |
| `ConnPoolProofs` | theorems about `ConnPool` and `PoolLists` | TLAPS |
| `ConnPoolUse` | `ConnPool` with the outcome of the calls | extends `ConnPool` |
| `ClientCalls` | `GetConnClient`, `DelConnClient`, `Invoke` | uses a pool slot as `ConnLease` describes it |
| `GrpcStream` | `grpcStream` | the slot again |
| `StreamSession` | the session of `StreamHandler` | uses the stream as `GrpcStream` describes it |
| `GateRequest` | a unary request through gate, client and server: `GrpcHandler.Handle`, `NativeHandler.Handle`, `InvokeByGate`, `Invoke`, `handler`, `processRequest` | composes them; the client's connections and goroutines are those of `ClientCalls` |
| `Deadlines` | the header `timeout` and the contexts' deadlines in `Invoke` and `handler`, along a chain of calls | the times that `GateRequest` leaves out |
| `Endpoints` | registration and lookup of methods in `GrpcServer` and `NativeHandler`, `processStream` | `GateRequest` has what happens after a lookup that succeeds |
| `Logger` | `logger.go` | alone |
| `NatsClient` | `natsx.go` | alone |
| `RedisClient` | `redisx.go` | alone |
| `PagedQuery` | the paging queries of `mysqlx` and `mongox` | alone |
| `MongoDocs` | the writing methods, `Query` and `iterate` of `mongox` | alone |
| `MinioClient` | `miniox.go` | alone |
| `Metadata` | `metadata.go` | alone |
| `ClientCallsProofs`, `GrpcStreamProofs`, `StreamSessionProofs`, `GateRequestProofs`, `LoggerProofs` | theorems about the module of that name | TLAPS; each extends its module |
| `StoresProofs` | theorems about `RedisClient`, `MinioClient`, `MongoDocs`, `PagedQuery` | TLAPS; the four side by side |
| `TransportProofs` | theorems about `NatsClient`, `Metadata`, `Endpoints`, `Deadlines` | TLAPS; the four side by side |
| `MCParts` | the sum of the eight modules from `Deadlines` on, `Logger` apart: a behaviour is one of them | an instance for TLC |
| other `MC*` | the instances for TLC: symmetry sets | |

Some definitions come in pairs, such as `HasRoomForOneMore` and `HasRoom`. The
second is the code; the first, which nothing uses, is the code with a plausible
bug. The `mutants` of PROJECT.json say which property notices which of them.

### ConnPool

A caller's program counter follows the code: `idle`, `get` (waiting for the
mutex), `scan` (walking the head list with it), `dial`, `add` (about to take
the mutex again), `using`, `closing` (release has unlocked and is to close the
connection). `Lock` is `p.Lock` and the start of the walk; each `Visit` is one
turn of the loop at `pool.go:78`, by cases `Skip`, `Evict`, `ParkBusy`, `Take`;
`Dial`/`DialFails` is `grpc.Dial`, `AddNew` the second critical section;
`Release` the whole critical section of `release`, by cases `Reject`, `Keep`,
`Discard`; `CloseConn` the close after the unlock.

A list is the set of its members, and the walk visits them in any order;
`PoolLists` shows that the code's pointers do no more. The state `GetState` reports is chosen
at each visit (the channel is the library's), except that only a closed
connection reports Shutdown. Time is the set `aged` of connections older than
the ttl; `now[p]` is what was old when `p` read the clock, before it waited for
the mutex.

Properties: the counters are exact and within the limits (`CountersOK`, whose
parts are `CountExact`, `IdleExact`, `StreamsExact`, `LimitsHeld` and
`IdleLimit`; `Capacity`), and so a parked connection is full and has a user: it
is not stranded on the list that `getConn` never reads. No connection is used
after another call closed it (`NoUseAfterClose`) nor leaked (`NoLeak`). Nothing
is said of the ttl: a connection that gets too old while a call waits for the
mutex is handed out, as the code has it.

### PoolLists

`link` is `pre`, `next` and `in` of every node, the two that are no connections
included; `cursor` is `conn` of `getConn`. `RemoveConn` and `AddConnAfter` are
the functions of that name, assignment by assignment. Every action of `ConnPool`
is taken together with its effect on the pointers, and the walk goes to the node
that `next` named before the current one was removed or moved. `ListsLinked`:
the pointers are those of two disjoint lists, linked alike in both directions,
and the walk is always at a connection of the head list that it has still to
visit, or has visited all. So no guard of `ConnPool` ever stops a step that the
pointers would take.

### ClientCalls

One address. A call is a goroutine (`pc`) and a worker goroutine (`worker`)
joined by a channel of length one. `LoadFast`, `LoadMiss`, `Lock`, `LoadAgain`,
`CheckMiss`, `Store` are `GetConnClient`; `Start`/`StartFails` are `getConn` and
the `go` statement; `SelectAnswer`/`SelectTimeout` the select; `Release` and
`Delete` the deferred function. `Delete` is by address, without the mutex, and
may delete a newer client than the one the call used.

### GrpcStream

A receiver, a sender and any number of closers share a stream. `Close` holds
the stream's mutex from its first line to its last (`CloseFirst`,
`ReleaseConn`, `CloseSend`); the receiver closes after a failed `RecvMsg` and
then runs the deferred `setError`, whose argument was evaluated on entry, hence
`Clear`. `Send` only records its error: closing after that is up to the stream's
user, who may never do it. `SlotReturned` therefore speaks of a `Recv` that has
failed and of a `Close` that was called.

### StreamSession

`Handle` begins with authentication and the upgrade (`Refuse`, `Upgrade`) and
`connectGrpcServer` (`ConnectFails`, `Connect`). The answer to an unknown
content type cannot be written any more after the upgrade and set-up goes on, so
`Upgrade` stands for both. Then the four workers with their loops and their
deferred functions, line by line; messages are counted. `Stuck` names the states
in which a reader waits to put into a full channel whose consumer is gone: the
send is in no select, so that reader, the WaitGroup and the handler stay for
ever. `SessionEnds` says this is the only way a session fails to end;
`SessionCloses` that the websocket is closed and the pool slot is back even then.
A worker calls `Done` before its `Close`, so the handler may return first:
`NoWorkAfterReturn` says that a stream still open then is in the hands of a
worker that has yet to close it.

### GateRequest

One request from the HTTP caller to a business method and back. `pc` is the
gate, `srv` the side of the method: a server in another process (`handler`
"grpc"), or the gate itself ("native"). `Front`, `Enter`, `Invoke`, `Hears`,
`WorkerPanics`, `TransportFails` and `TimesOut` are the gate with its client; `Dispatch`,
`Decode`, `ServerFn` the server, which works on when the gate has given up;
`NativeDecode`, `NativeFn` the body of `NativeHandler`. An error is its kind,
its HTTP status and its code, and each hop does to it what the code does:
`WrapError` what the server makes of the method's error, `ReadError` what the
client reads out of the gRPC status, `Answer` what `ErrorResponse` writes.
`answers` is what the caller gets. A request carries the wrappers it will meet:
one that passes, one that swallows errors, two that deny.

The client looks for `{"` in the text of any error, and takes what follows for
the error. So `Texts`, what a denying wrapper of the server may say, has texts
without it, texts that quote a `NetError`, an `Errno` or nothing readable
(status 0), and "wide" ones: a byte index is used on runes, and with enough
letters of several bytes before the `{"` the slice is out of range. That panics
in the worker goroutine, where nobody recovers, and the gate's process ends
(`WorkerPanics`, `pc` "dead"), also when the caller has had a timeout meanwhile.
`AnsweredOnce` says that nothing but a wrapper's text leads there.

An `Errno` that a wrapper of the server returns comes back as a `NetError`
without a status, for which `net/http` panics: the caller gets a 500 from
`ErrHandler`. With no `ErrHandler` configured a panic leaves an implicit 200
with no body, so `AnsweredOnce` is checked with the handler set, which is the
default of the options.

### Deadlines

A request on its way through any number of servers, each of whose methods calls
on with the context it was given. `Invoke` takes the deadline of the context, or
else the header's seconds (negative, or so many that the product wraps), or else
the option, and puts nanoseconds into the header; `Send` is gRPC, which sends
nothing that is late already and carries the time left itself, rounded up;
`Arrive` is what `handler` makes of the header, which is no deadline if the
number is negative. `ServerDeadline`: every method has a deadline of its
server's making, never before that of the first caller, and after it by no more
than the time the requests were on their way.

### Logger

Time is in hours and never goes back, and `splitType`, by date or by hour, is
chosen once and for all in `Init`; `files` keeps every file ever made with
its lines, also the removed ones. A writer's steps are those between which
another goroutine can matter: `Log` (before the lock), `Lock`, `WriteConsole`,
`WriteFile`, `Rotate` (with the deferred unlock). The clean-up takes no lock:
`TickDue` notes the day, `ReadDir` lists, `Judge` looks at the modification
time, `RemoveFile` removes by name. Making a file may fail and then panics; in
`InitFails` it does so inside `sync.Once`, which counts as done, so that the
logger runs with no file and no clean-up until the next rotation.

Properties bound what rotation and removal may cost: the files read one after
the other are the console, minus the lines before a successful start
(`FilesMatchConsole`; `Filed` are the lines in the files, `UpTo` those up to
one of them); a file has one line of another period and one above its limit
each time it is opened (`RotatedInTime`); a removed file took at most one recent
line with it (`OneLostPerFile`); a clean-up leaves nothing older than the keep
time but what it failed on (`CleanupComplete`). Each of the first three allows
for one more per failed attempt to start a file. A period is a day or an hour;
`Cycle`, `MostLost` and `KeepsPeriod` say where the code forgets which period it
is in (section 4).

### Endpoints

`handlers` is the table, with two keys for a method that has a descriptor and
one for a method that was registered without. `Register` is one service of the
list, `Found` the lookup by `Service.Method`, without the package, and then by
URL. A method takes a request, a stream or both; which way it is served
(`ProcessStream`, `ProcessRequest`) is the registration's word, not the
method's, and a stream registered without descriptors panics. Before the method
runs, a call may fail over `SetStream`, its message, validation or a wrapper
(`Failures`), and a wrapper may drop an error. `registered`
and `newer` remember the registrations and their order; `ReachesTheLast` says
which method may run, for every order, and that a call which succeeds has run it.

### NatsClient

Every read and write of `conn`, which no lock protects, is a step of its own:
`Load`, `Store`. `FailsClosed` is `ErrConnectionClosed`, for which
`TryReconnect` makes a connection, `FailsOpen` any other error, which is tried
once more on the same one. Publishers that fail together each connect, and each
overwrites the other's `conn`: the connection overwritten stays open with nobody
to close it. `StraysWereOvertaken` says that this is the only way to leave one
behind, `RetriesElsewhere` that the second attempt is never on the connection
that failed, `HandlerResubscribes` that the connection that wins has the
handler's subscriptions.

### RedisClient

A key holds nothing, a string or a hash, for a time or for ever. `SetHashJson`
and `HIncrBy` are `HashWrite` and then `Expire`, whose error nobody looks at
(`ExpireLost`, which also stands for a process that dies in between), and
anything may happen to the key in between. `HashesExpire` names every way in
which a hash stays for ever.

### PagedQuery

A walk through pages: `Begin`, then two queries per page, `NextPage` while the
total says that there is one. MySQL counts first, MongoDB last. `Change` is what
others write meanwhile; a caller in a transaction of `MysqlClient` reads the
`snapshot`. Arithmetic is that of integers of `Width` bits. `TotalFits` relates
the two queries of one answer, `WalkMissesOnlyDeleted` the whole walk to the
table; both hold only while page times size fits the width, and say so.

### MongoDocs

`Find` with a new slice or one that was used, `DecodeNext` into the element that
is there, the end, an error of the cursor (`CursorFails`: `iterate` does not ask
`cur.Err`, so the answer is short and says nothing) or of a decoding. Others
insert, update and delete documents meanwhile.

### MinioClient, Metadata

`MinioClient`: processes find or make the bucket, objects are stored under names
with slashes, and a URL is taken apart again. An upload or a deletion may return
an error and the store have done it all the same: such an object is in `unsure`.
`Metadata`: Go maps on a heap, `mine` the ones the application may still change;
`Titled` is every map that `FromContext` may produce, since two keys may become
one and the order of the walk decides. `ContextsKept` says that what is derived
from a context leaves it as it was.

## 3. Runs

| Run | Instance | Shows |
|---|---|---|
| `pool_safety` | 3 calls, 5 connections, size 2, 2 streams, 1 idle | all safety properties, `ImplementsLease` |
| `pool_liveness` | `PoolLists`: 2 calls, size 3, 2 idle, `maxStreams` given as 0 | `ListsLinked`, `GetReturns`; the correction to 1 stream is needed and enough |
| `pool_errored` | 2 calls, size 1 | finding: an errored connection is handed out again |
| `client` | 3 calls, 3 clients | creation, slots, answer against deadline; both goroutines of a call end |
| `stream_safety` | receiver, sender, 2 closers | slot given back once, Close returns |
| `stream_error` | the same | finding: a failed `Recv` leaves no error on record |
| `session` | channels of length 1 | set-up, close cascade and end of the session |
| `gate` | one request of every kind to either handler, one error code, every kind of error text | one answer, no false success, the code arrives, the gate answers |
| `gate_dropped` | a request type with fields `Code` and `Msg` | finding: the error is lost |
| `logger_safety` | 2 writers, 3 lines, 5 hours in days of 2, keep 1 hour, 1 failure, files of 2 lines | the bounds above, for both ways to split |
| `logger_lost` | an hour of silence | finding: lines go to a removed file |
| `parts` | see below | the eleven properties of `Deadlines`, `Endpoints` and `NatsClient` to `Metadata` |

Why the bounds are enough. Three calls and size 2 with two streams reach a
kept, a parked, a shared and an unkept connection at the same time, and one
call more than the kept connections can serve alone; five connections cover
two on the lists and one in each of the three calls' hands, so
`Dial` is never disabled for want of an identity. `pool_liveness` keeps three,
so that a connection in the middle of the list is removed or moved, while two
calls are enough for one to walk and one to hold. The proofs remove these
bounds for safety. Three calls make two misses and a deletion overlap. With
channels of length 1 a reader blocks after two messages, as it does after
eleven with the code's length 10; the behaviours between are repetitions. A
gate request touches no state of another, so one at a time is enough; a second
makes no difference to an error. In the logger, two writers show
each order of a write and a rotation, three lines with files of two force a
rotation by count, and five hours in days of two contain two changes of day and
a file older than the keep time, and three hours that are midnight's;
`MaxClock`, `MaxLines` and `MaxFailures` are its bounds. A shorter day changes
only how often a day changes. A year is too long for the run: what happens after
it is for the proofs.

`parts` has two publishers and four connections (each publisher replaces one
that the other has replaced); three redis callers on one key (one between its
two commands, one that deletes, one that writes again; keys do not influence
each other); three rows of which two may be deleted during a walk, pages 0, 2
and 17, sizes 0 and 2, and numbers of five bits (corrected, ordinary, and a page
whose offset wraps); two documents with one field (one more than a used slice
shows, or one less); two processes and four names of which one contains the
others, with and without a path in the domain; the keys `foo` and `Foo` in two
maps and two contexts; and a service `User` in two packages that share some
methods, one of them a stream; three calls in a chain, on a clock up to 7, with
seconds of 3 ns and durations of 4 bits, so that headers are negative, zero,
ordinary and wrapped, and contexts come with deadlines that are past and to come.
The parts share nothing, so their sum has every
state of each and no product of them.

Fairness. Goroutines that can run do (weak). Locks are `sync.Mutex`, which
hands itself to a waiter starved for a millisecond, so acquiring is strongly
fair. gRPC ends an RPC whose context is done, and fails on a closed connection;
before that no RPC, peer or caller is assumed to do anything. In particular a
call may keep its connection for ever in `pool_liveness`. In `GateRequest` the
gate's own steps and its deadline are weakly fair (a timer), the server's and
the network's are not. Runs other than those of `ConnPool` and `PoolLists` switch
deadlock checking off where the system stops: all calls returned, the stream done, the request
answered, the clock at its bound.

## 4. Findings

- `ErroredNotReused` (`pool.go:171`, comment at `client.go:146`): a connection
  given back with an error is closed only by its last user. While another call
  shares it the error is forgotten and it is handed out again.
- `ErrorReported` (`stream.go:35`; `grpcx/model.go:29`): `defer
  g.setError(err)` evaluates `err` on entry, so `Recv` always records nil.
- `LineInFile` (`logger.go:188`; README line 143): after the keep time without
  a line the current file is removed while open, and lines go to it.
- `CodeArrives` in `gate_dropped` (`grpcserver.go:306`, comments at 280, 305):
  an error is set in the request's fields `Code` and `Msg` and the reply sent
  as if there were none. `NativeHandler` returns it.

Seen while modelling, without a run:

- `client.go:172-178`: an error whose text quotes JSON is taken for that JSON,
  with status 0 if it cannot be read; and the index of a byte is used on runes,
  so that text in, say, Chinese before the `{"` shifts the slice or makes the
  worker panic, which ends the process (`WorkerPanics`). The errors of the
  server's methods are wrapped in JSON and never come to this.
- `client.go:104-112`: a negative number of seconds, or one that wraps, is sent
  on as it is. The client gives up at once, so no server sees it
  (`ServerDeadline`). `NewStream` (198-217) passes a caller's `timeout` on
  unchanged, in seconds, and the server takes it for nanoseconds.
- `pool.go:68`: the clock is read before the mutex is waited for, so a connection
  may be handed out that the wait has made too old.
- `stream.go:26-32`: a failed `Send` does not close the stream; its slot stays
  taken until its user closes it.
- `streamhandler.go:219, 302`: the readers' plain sends (`Stuck`).
- `natsx.go:105`: publishers that reconnect at the same time leave all their
  connections but one open (`StraysWereOvertaken`).
- `function.go:64` drops the error of `ParseForm`: a form that cannot be read goes
  on with the fields that could.
- `client.go:188-195`, `stream.go:59-70` against `pool.go:14` and README line
  41: a call that timed out gives its slot back while its RPC still runs, so a
  connection may carry more RPCs than `maxStreams`.
- `logger.go:187` builds the path to remove as `LogDir + name` where
  `logger.go:138` writes to `LogDir/name`, so that no file is ever removed
  unless `LogDir` ends with a slash, as the default does and `Logger` assumes.
- `logger.go:133-134` compare the day of the year, or the hour of the day: when
  nobody logs in between, a file is continued at the same hour of a later day, or
  on the same day of a later year. `Late` and `Fresh` count up to that `Cycle`.
- `logger.go:59-60`, `logger.go:134`: splitting by hour, the initial zero of
  `createFileHour` is midnight's hour. If the first file could not be made and
  lines follow in that hour, the check finds nothing to do and up to
  `FileMaxLine` lines more go to no file (`MostLost`); no day has the number 0,
  so splitting by date is not concerned.
- `logger.go:215` with a `KeepSecond` shorter than the day that a file is
  written to: a file that the clean-up has removed stays the current one until
  the next day, and takes with it all that is logged until then. Hence
  `KeepsPeriod` in `OneLostPerFile`; the default is seven days.
- `streamhandler.go:70-78` recovers twice, so `ErrHandler` is never called for a
  panic; a failed upgrade is answered by the upgrader and again by
  `ErrorResponse`; the error for an unknown content type (102-105) is written to
  a connection that is a websocket by then.
- `natsx.go:36` speaks of 60 attempts to reconnect, line 39 sets 180.
- `redisx.go:82`: `GetInt` ignores `sub`. `GetSet` drops the time to live, and
  an `Expire` that comes late may hit a string that another caller has set
  meanwhile.
- `mongox/internal.go:115-120`: the `continue` is the inner loop's, so fields
  that are to be ignored are written all the same; `mongo.go:118` gives the
  field's name as the filter; `mongo.go:29-47` use a result that is nil after an
  error; `UseSession` starts a transaction and leaves its end to the call-back.
- `metadata.go:53-64`: `Set` and `Delete` of a key that is not capitalised act
  on that key, while everything in the context is capitalised: `Set` leaves two
  keys of which a later `Get` may return either, `Delete` does nothing.
- `RegisterWithUrl` without descriptors knows of no streams: calling one panics.
- `miniox.go:49-55`: of two processes that start on a missing bucket one fails;
  URLs of a domain with a path do not delete their object (`UrlFindsObject` says
  that they delete no other).
- `errno.go:25`: a negative code of one project is a code of the one before.
- `mysqlx.go:76`, `mongox.go:116`: the offset wraps at 2^31; gorm then reads from
  the first row (`PagedQuery`).

## 5. Proofs

`ConnPoolProofs` proves, for every finite set of connections and callers and
all integer arguments of `newPool`:

- `Invariant`: `Spec => []IInv`. The properties are not inductive alone. That
  `count` survives `release` needs that a connection outside the lists belongs
  to one call and has `streams` 1 (`HoldersOK`), that `idle` survives the walk
  needs the walk's remaining work to lie within the head list (`ListsOK`), and
  that a removed connection is not closed under a user needs `StreamsExact`.
  `IInv` is the conjunction of the type invariant, `ListsOK`, `HoldersOK`,
  `NoUseAfterClose`, `CountersOK` and `NoLeak`.
- `TypeCorrect`, `CountersCorrect`, `CapacityCorrect`, `NoUseAfterCloseCorrect`,
  `NothingLost`: the safety properties, from `Invariant`.
- `PoolImplementsLease`: each step of `ConnPool` is a step of `ConnLease` or
  leaves its variables alone, under `live <- open`, `lease[c] <- Users(c)`.

- `ListsImplementSets`: `ListsSpec => Spec`, so that all of the above holds of the
  linked lists; and `ListsLinkedCorrect`: `ListsSpec => []ListsLinked`. The
  invariant `ListsInv` adds to `IInv` that some numbering of the nodes grows
  along `next` in each list without leaving a member out (`Ordered`), and that
  the walk has still to visit what is numbered from `cursor` on. Pointers that
  agree locally could still form a ring; the numbering excludes it. `removeConn`
  keeps the numbers; a node added in front takes the number of the list's own
  node, which takes a smaller one (`Renumbered`).

The argument is one lemma per action, each by the parts of `IInv` it can
disturb; finiteness and the cardinality of a set with one element more or less
come from the library's `FiniteSetTheorems`. The assumptions are the `ASSUME`s
of `ConnPool` and `PoolLists`: finite sets, integer arguments, and values for
nothing and for the lists' own nodes that are no connections.

The other modules are laid out alike: an inductive invariant (`Inv`, or named for
its module where one file has several), one lemma per action or group of actions,
then a theorem per property. Besides the `ASSUME`s
of their modules they assume only what is named here.

- `ClientCallsProofs`, for finite sets of calls and of clients. `Inv` adds to the
  properties that the mutex has one owner between the second look and `Store`
  (`MutexOK`), what the caller's goroutine knows of its worker's (`WorkerOK`:
  nothing in the channel before the worker is done, and a late answer only for
  a call that timed out), and that clients exceed deletions by one only while
  the registry has one (`CountOK`). Theorems: `OneClientCorrect`,
  `SlotCorrect`, `OkHasReplyCorrect`, and the action property
  `NoLateReplyCorrect`.
- `GrpcStreamProofs`, for any set of closers. `LockOK`: the mutex is held
  through the close function and nowhere else; `CloseOK`: how far that is.
  Theorem: `ReleasedOnce`.
- `StreamSessionProofs`, for channels of any length. `SetUpOK`: before the
  workers start there is nothing to close but the websocket; `CloseOK`: the
  closer holds the lock and what it has done so far. The wait group is the
  number of workers that have not called `Done` (`TypeOK`), so a handler that
  returns has none at work (`HandlerOK`), and those left are in `Close`: if all
  were at its end, the one that closed would have given the stream back. Theorems: `NoWorkAfterReturnCorrect`,
  `CloseOnceCorrect`.
- `GateRequestProofs`, for any codes and settings. `ProgressOK` ties
  `pc` to `srv` and to the part of the request already checked, and a text that
  ends the gate to a wrapper before any method; `WireOK` ties what the server
  returned to what the method did. Theorems: `AnsweredOnceCorrect`
  if `ErrHandlerSet`; `SuccessCorrect` and `CodeArrivesCorrect` if
  `~ReqHasCodeMsg` (`gate_dropped` shows that this is needed).
- `LoggerProofs`, for any number of writers, lines, hours and failures, days of
  any length and both ways to split. `LoggerInv` is a conjunction of nine parts.
  `MutexOK`: one writer is between its console line and its check for a new
  file. `FilesOK` is `FilesMatchConsole` and that a writer on its way to the
  file has written the console's last line, so the new line is the last in both;
  `LostOK`: while there is no file, every line since the failed `Init` is lost
  and counted, which is what the next start adds to `lost`. `StampsOK` ties the
  two stamps to the current file's time, and `LateOK` and `LengthOK` give each
  bound twice: for every file, and one less for the current file unless a writer
  has still to check it. Arithmetic of quotients (`Quotients`) turns equal stamps
  into equal periods within a cycle. `CleanupOK`: the clean-up has looked at
  every file it is done with, and at its time `date` a file it is to remove had
  been left alone for the keep time (`OldBy`), so that whatever recent lines it
  has came later; these are of a later period, and `LateOK` counts them.
  Theorems: `FilesMatchConsoleCorrect`, `RotatedInTimeCorrect`,
  `OneLostPerFileCorrect`, and the action property `CleanupCompleteCorrect`.
- `TransportProofs`
  - `NatsClient`, for any publishers and any number of connections.
    `FreshIsNew`: a connection that waits to be stored is nobody else's;
    `FailedIsGone`: after its `Store` a publisher's failed connection is not the
    client's. Theorems: `RetriesCorrect`, `StraysCorrect`, `ResubscribesCorrect`.
  - `Metadata`, for any keys and values and any idempotent capitalisation.
    `SharedIsConstant`: a map that the application cannot reach is as it was
    when its context was made; `KeysAreUnambiguous`: the walk of `FromContext`
    cannot confuse two keys one of which `Set` was asked for. Theorem:
    `ContextsKeptCorrect`.
  - `Endpoints`, for any methods that a generator makes. `TableIsLatest`: under a
    name the table has the method of the latest of the registrations that have
    one, and it has no URL without the name. So the second look-up of `handler`
    never finds what the first did not. Theorem: `ReachesTheLastCorrect`.
  - `Deadlines`, for any clock, header, caller's deadline, width of a duration
    and length of the chain. `DeadlinesInv`: the header is the time left when
    `Invoke` looked, positive once sent, and gRPC's own deadline is not before the
    client's; so the earlier of the two that a server hands on is neither before
    the first caller's nor later by more than the time on the way. Theorem:
    `ServerDeadlineCorrect`.
- `StoresProofs`
  - `RedisClient`, for any callers and keys: the property is inductive with the
    types. Theorem: `HashesExpireCorrect`.
  - `MinioClient`, for any names, processes and domains whose path does not begin
    with the bucket's name. `LinksAreUrls` and the injectivity of `Url`. Theorem:
    `UrlFindsObjectCorrect`.
  - `MongoDocs`, for any fields, values and number of documents. `ElementsShow`:
    what is decoded so far shows its documents, with fields left over only in a
    slice that was used; `NonePassed`: the cursor is past no document that was
    there all the time and is not decoded. Theorem: `QueryShowsDocsCorrect`.
  - `PagedQuery`, for integers of any width, any pages, sizes and rows.
    `HalfFits` compares the first query of a page with the table, which has moved
    by as many rows as were changed since (`between`); `BehindWereMoved` counts
    the lasting rows that the walk has passed without reading: each deletion
    lowers the ranks above it by one and moves one row at most behind the walk.
    Powers of two have no recursive definition to reason from, so what `2^w` is
    comes from the number of subsets (`FiniteSetTheorems`). Theorems:
    `TotalFitsCorrect`, `WalkCorrect`.

The parts of one file share no variable and no lemma; they stand together
because their modules do in `MCParts`. The type invariants of these modules are
conjuncts of the invariants, proved and not listed in the runs.

Every invariant and action property of the passing runs is a theorem. Model-checked
only are the liveness properties `GetReturns`, `GoroutinesEnd`, `SlotReturned`,
`CloseReturns`, `SessionCloses`, `SessionEnds` and `Answers`, since fairness and
ENABLED are beyond TLAPS 1.4.5; and the four findings, which are
counterexamples.

Conditions that the proofs asked for. Short forms of the properties of `Logger`,
by date and within the bounds of a run, hold; for all values of the constants and
both ways to split, `FilesMatchConsole` fails after a failed start at midnight
(hence `MostLost`), `RotatedInTime` after a cycle (hence `Within`), and
`OneLostPerFile` with a keep time shorter than a day (hence `KeepsPeriod`). All
three are what the code does, and are listed in section 4.

## 6. Not modelled

- Codec, utilities, `main.go`: no state. The buffer pool of the server: used by
  no code of the repository.
- Marshalling, headers' wording, parsing of URLs and forms, option setters and
  log texts: data that no property is about. The logger's call-back runs under
  the lock: one that logs blocks for ever, which needs no model.
- The chain builders of `mysqlx` and the filters of `bsonx` hand their arguments
  on to gorm and to the driver; `UseSession` hands over to the call-back;
  `FindOne` and its variants are one call of the driver.
- `Subscribe` of the NATS client changes the library's connection only.
- `SetServerName2Addr` writes a map without a lock: it is meant for start-up,
  and called while requests run it is a data race, not a matter for a model.
- The numbering of `NewErrno`: one line of arithmetic, see section 4.
