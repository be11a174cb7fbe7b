------------------------------ MODULE Deadlines ------------------------------
(***************************************************************************)
(* The deadline of a unary request and of the requests that its method     *)
(* makes: Invoke of the client (src/grpcclient/client.go) puts a number of *)
(* nanoseconds into the header "timeout", handler of the server            *)
(* (src/grpcserver/grpcserver.go) makes a deadline of it, and the method   *)
(* hands its context to the next Invoke.  The first caller's context may   *)
(* have a deadline, or its metadata a number of seconds, or neither.       *)
(*                                                                         *)
(* One clock counts nanoseconds for all processes; only times between its  *)
(* readings are ever used.  gRPC is external: it does not send what is     *)
(* late already, and carries the client's deadline itself, as time left.   *)
(*                                                                         *)
(* ServerTimeoutInSeconds, before ServerTimeout, is the same code with a   *)
(* bug: no action uses it, and ServerDeadline is known to notice when it   *)
(* takes the other's place.                                                *)
(***************************************************************************)
EXTENDS Integers

CONSTANTS
  NanosPerSecond,   \* scaled down
  MaxDuration,      \* the largest time.Duration, scaled down
  Seconds,          \* the numbers in a caller's header
  RequestTimeout,   \* the client's option, in ns
  CallerDeadlines,  \* of a context that has one when the first call is made
  MaxHops,          \* bound: calls in a chain
  MaxClock          \* bound on the clock

Durations == -(MaxDuration + 1) .. MaxDuration

ASSUME TimesOK ==
  /\ NanosPerSecond \in Nat \ {0} /\ MaxDuration \in Nat
  /\ Seconds \subseteq Durations                     \* Atoi refuses others
  /\ RequestTimeout \in Durations /\ CallerDeadlines \subseteq Durations
  /\ MaxHops \in Nat /\ MaxClock \in Nat

VARIABLES
  clock,
  place,    \* where the request is: "caller", "client", "wire", "server"
  hop,      \* calls made so far
  context,  \* the deadline of the context that the next Invoke gets, if any
  client,   \* the deadline that Invoke waits for
  header,   \* the number in the header
  carried,  \* the time left that gRPC sends
  began,    \* when Invoke looked at its context
  server,   \* the deadline that the server makes of the header, if any
  first,    \* the deadline of the first client
  late      \* how long the calls were on their way to their servers

deadlineVars == <<clock, place, hop, context, client, header, carried, began, server, first, late>>

DeadlinesInit ==
  /\ context \in {{}} \cup {{d} : d \in CallerDeadlines}
  /\ clock = 0 /\ place = "caller" /\ hop = 0 /\ server = {}
  /\ client = 0 /\ header = 0 /\ carried = 0 /\ began = 0 /\ first = 0 /\ late = 0

-----------------------------------------------------------------------------
(* time.Duration is an int64. *)
Wrap(n) == ((n + MaxDuration + 1) % (2 * (MaxDuration + 1))) - (MaxDuration + 1)

(* The seconds of the header, negative or too many for a Duration as they  *)
(* may be; the option if there is none or it is no number.                 *)
Timeouts == {RequestTimeout} \cup {Wrap(s * NanosPerSecond) : s \in Seconds}

(* A deadline of the context goes before the header, in ns for the server. *)
Invoke ==
  /\ place \in {"caller", "server"} /\ hop < MaxHops
  /\ client' \in IF context = {} THEN {clock + t : t \in Timeouts} ELSE context
  /\ header' = client' - clock
  /\ began'  = clock
  /\ first'  = IF place = "caller" THEN client' ELSE first
  /\ place' = "client" /\ hop' = hop + 1
  /\ UNCHANGED <<clock, context, carried, server, late>>

(* After the codec and the connection were looked up.  gRPC rounds up.     *)
Send ==
  /\ place = "client" /\ clock < client
  /\ \E r \in 0..1 : carried' = client - clock + r
  /\ place' = "wire"
  /\ UNCHANGED <<clock, hop, context, client, header, began, server, first, late>>

(* What ParseUint and WithTimeout make of the header. *)
ServerTimeoutInSeconds(n) == IF n >= 0 THEN {n * NanosPerSecond} ELSE {}
ServerTimeout(n)          == IF n >= 0 THEN {n} ELSE {}

(* The stream's context has gRPC's deadline, and the earlier one counts.   *)
Arrive ==
  /\ place = "wire"
  /\ server'  = {clock + n : n \in ServerTimeout(header)}
  /\ context' = {d \in {clock + carried} \cup server' : \A e \in {clock + carried} \cup server' : d <= e}
  /\ late'    = late + clock - began
  /\ place' = "server"
  /\ UNCHANGED <<clock, hop, client, header, carried, began, first>>

TimePasses ==
  /\ clock < MaxClock /\ clock' = clock + 1
  /\ UNCHANGED <<place, hop, context, client, header, carried, began, server, first, late>>

DeadlinesNext == Invoke \/ Send \/ Arrive \/ TimePasses

DeadlinesSpec == DeadlinesInit /\ [][DeadlinesNext]_deadlineVars

-----------------------------------------------------------------------------
(* Whatever the caller's header or context said, every method of the chain *)
(* has a deadline of its server's making: it does not give up before the   *)
(* first caller does, and works on for no longer than the requests were on *)
(* their way (client.go:100-119, grpcserver.go:105-139).                   *)
ServerDeadline ==
  place = "server" =>
    /\ server # {}
    /\ \A d \in server \cup context : first <= d /\ d <= first + late
=============================================================================
