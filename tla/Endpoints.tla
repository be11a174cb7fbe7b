------------------------------ MODULE Endpoints ------------------------------
(***************************************************************************)
(* Which method answers a call: the table of handlers that GrpcServer      *)
(* (src/grpcserver/grpcserver.go) and NativeHandler                        *)
(* (src/gate/nativehandler.go) fill in the same way, the lookup in it, and *)
(* processStream.  A service is known by the name of its Go type: where    *)
(* two packages have one of the same name, the one registered last answers *)
(* for both.  A method takes a request and a reply (or a stream), or only  *)
(* a stream.                                                               *)
(*                                                                         *)
(* A definition that comes right before one it resembles (KeysUrlOnly      *)
(* before Keys) is the same code with a bug: no action uses it, and the    *)
(* properties are known to notice when it takes the other's place.         *)
(***************************************************************************)
EXTENDS Integers

CONSTANTS
  Methods,    \* records: pkg, svc, name, request (it has one), streams (by its descriptor)
  Described,  \* <<svc, name>> of the methods that have a descriptor
  NoMethod

(* A generator makes methods and descriptors: without a request only in a  *)
(* stream, and methods of the same name of the same kind.                  *)
ASSUME Generated ==
  /\ NoMethod \notin Methods
  /\ \A m \in Methods : m.request \/ m.streams
  /\ \A m, n \in Methods :
       m.svc = n.svc /\ m.name = n.name => m.request = n.request /\ m.streams = n.streams

VARIABLES
  handlers,    \* per key: the method and whether it is served as a stream
  registered,  \* the registrations, each the last of its like: pkg, svc, described
  newer,       \* pairs of them: the first was made after the second
  called,      \* the method the last call named
  reached,     \* the one whose code ran
  outcome      \* "none", "unknown", "panic" (answered as a bad request), "error", "dropped", "ok"

endpointsVars == <<handlers, registered, newer, called, reached, outcome>>

EndpointsInit ==
  /\ handlers = <<>> /\ registered = {} /\ newer = {}
  /\ called = NoMethod /\ reached = NoMethod /\ outcome = "none"

-----------------------------------------------------------------------------
(* RegisterApiEndpoint and RegisterWithUrl; Register without descriptors *)

MethodKey(m)   == <<m.svc, m.name>>
EndpointUrl(m) == <<"/rpc", m.pkg, m.svc, m.name>>

KeysUrlOnly(m, described) == IF described THEN {EndpointUrl(m)} ELSE {MethodKey(m)}
Keys(m, described)        == {MethodKey(m)} \cup IF described THEN {EndpointUrl(m)} ELSE {}

(* One service of the list.  Methods without a descriptor are passed over, *)
(* and Register knows of no streams.                                       *)
Register(pkg, svc, described) ==
  LET own == {m \in Methods : m.pkg = pkg /\ m.svc = svc /\ (described => MethodKey(m) \in Described)}
      new == UNION {Keys(m, described) : m \in own}
      at(k) == CHOOSE m \in own : k \in Keys(m, described)
      this == [pkg |-> pkg, svc |-> svc, described |-> described]
  IN  /\ handlers' = [k \in DOMAIN handlers \cup new |->
                        IF k \in new THEN [method |-> at(k), stream |-> described /\ at(k).streams]
                        ELSE handlers[k]]
      /\ registered' = registered \cup {this}
      /\ newer' = {p \in newer : this \notin {p[1], p[2]}} \cup {this} \X (registered \ {this})
      /\ called' = NoMethod /\ reached' = NoMethod /\ outcome' = "none"

-----------------------------------------------------------------------------
(* handler: the method by its own name without the package (ServiceMethod), *)
(* else by the full name, which is a URL.                                   *)
Found(m) == IF MethodKey(m) \in DOMAIN handlers THEN {handlers[MethodKey(m)]}
            ELSE IF EndpointUrl(m) \in DOMAIN handlers THEN {handlers[EndpointUrl(m)]} ELSE {}

Answer(m, who, what) ==
  /\ called' = m /\ reached' = who /\ outcome' = what
  /\ UNCHANGED <<handlers, registered, newer>>

Unknown(m) == Found(m) = {} /\ Answer(m, NoMethod, "unknown")

(* How a call ends whose handler is known: "dropped" is an answer without  *)
(* an error though there was one, or the method did not run, which is what *)
(* a wrapper can make of it.                                               *)
Failures == {"error", "dropped", "panic"}

(* processStream: SetStream, then the wrappers, and inside them the first  *)
(* message, if the method has a request, and then the method.              *)
ProcessStream(m) ==
  \E h \in Found(m) :
    /\ h.stream
    /\ \/ \E what \in Failures : Answer(m, NoMethod, what)
       \/ \E what \in {"ok"} \cup Failures : Answer(m, h.method, what)

(* processRequest (GateRequest models it): without a request type there is *)
(* nothing to make a request of; else the message, the wrappers, inside    *)
(* them validation, and then the method, which panics as soon as it wants  *)
(* the stream that it does not have.                                       *)
ProcessRequest(m) ==
  \E h \in Found(m) :
    /\ ~h.stream
    /\ \/ ~h.method.request /\ Answer(m, NoMethod, "panic")
       \/ h.method.request /\ \E what \in Failures : Answer(m, NoMethod, what)
       \/ h.method.request /\ \E what \in {"ok"} \cup Failures : Answer(m, h.method, what)

Services == {<<m.pkg, m.svc>> : m \in Methods}

EndpointsNext ==
  \/ \E s \in Services, described \in BOOLEAN : Register(s[1], s[2], described)
  \/ \E m \in Methods : Unknown(m) \/ ProcessStream(m) \/ ProcessRequest(m)

EndpointsSpec == EndpointsInit /\ [][EndpointsNext]_endpointsVars

-----------------------------------------------------------------------------
(* However services are registered, again or under the same name, a call   *)
(* runs the method it names, of the service that was registered last among *)
(* those of that name that have it, or none, and is unknown only if there  *)
(* is none; it succeeds only if the method ran; and a stream without a     *)
(* request cannot be called at all if that registration was without        *)
(* descriptors (grpcserver.go:141-272, 328-390).                           *)
Provides(r, m) ==
  /\ r.svc = m.svc
  /\ \E n \in Methods : /\ n.pkg = r.pkg /\ MethodKey(n) = MethodKey(m)
                        /\ r.described => MethodKey(n) \in Described

Providers(m) == {r \in registered : Provides(r, m)}

ReachesTheLast ==
  called # NoMethod =>
    /\ outcome = "unknown" <=> Providers(called) = {}
    /\ Providers(called) # {} => \E r \in Providers(called) :
         /\ \A s \in Providers(called) \ {r} : <<r, s>> \in newer
         /\ reached # NoMethod => MethodKey(reached) = MethodKey(called) /\ reached.pkg = r.pkg
         /\ outcome = "ok" => reached # NoMethod
         /\ ~called.request /\ ~r.described => reached = NoMethod /\ outcome = "panic"
=============================================================================
