----------------------------- MODULE GateRequest -----------------------------
(***************************************************************************)
(* A unary request from the HTTP caller to a business method and back.     *)
(*                                                                         *)
(* With handler = "grpc" it passes gate's GrpcHandler (grpchandler.go),    *)
(* InvokeByGate and Invoke of the client, and handler and processRequest   *)
(* of the server, in two processes: the gate may stop waiting while the    *)
(* server works on.  With handler = "native" the gate's NativeHandler      *)
(* calls the method itself.  What ClientCalls says of connections and      *)
(* goroutines is not repeated here: this module is about what becomes of   *)
(* the errors and the answer on the way (Deadlines has the times).         *)
(*                                                                         *)
(* An error is its kind, HTTP status and code: a NetError ("net"), an      *)
(* errorsx.Errno ("errno"), or another one with a text, of which Invoke    *)
(* tells four kinds apart.  A Content-Type stands for those that the       *)
(* gate's reader and the codecs treat alike.                               *)
(*                                                                         *)
(* A definition that comes right before one it resembles (PanicsSilently   *)
(* before Panics) is the same code with a bug: no action uses it, and the  *)
(* properties are known to notice when it takes the other's place.         *)
(***************************************************************************)
EXTENDS Integers, Sequences

CONSTANTS
  ErrHandlerSet,    \* HttpOptions.ErrHandler is not nil
  ReqHasCodeMsg,    \* the request type has settable fields Code int32 and Msg string
  Codes             \* error codes of the business method

ASSUME Flags        == {ErrHandlerSet, ReqHasCodeMsg} \subseteq BOOLEAN
ASSUME CodesNonZero == Codes \subseteq Int \ {0}

VARIABLES
  req,         \* the request and the wrappers it will meet
  pc,          \* the gate
  srv,         \* the side of the method
  ran,         \* what the method returned, None before
  wire,        \* what the server returned, None before
  via,         \* how the gate learnt the outcome
  answers      \* what the gate wrote to its caller

vars == <<req, pc, srv, ran, wire, via, answers>>

-----------------------------------------------------------------------------
(* Errors (neterrors.go) *)

Net(status, code)  == [kind |-> "net", status |-> status, code |-> code]
BadRequest         == Net(400, -1)
Unauthorized       == Net(401, -1)
NotFound           == Net(404, -1)
Timeout            == Net(408, -1)
ServiceUnavailable == Net(503, -1)
BusinessError(c)   == Net(200, c)
Errno(c)           == [kind |-> "errno", status |-> 0, code |-> c]
OK                 == Net(200, 0)
None               == [kind |-> "none", status |-> 0, code |-> 0]
Panic              == [kind |-> "panic", status |-> 0, code |-> 0]

(* The texts of errors that are neither: one with '{"' in it quotes a      *)
(* NetError, an Errno or nothing that Parse can read, unless so many       *)
(* letters of several bytes come before it that Invoke, which takes the    *)
(* place of the byte for that of the letter, slices beyond the text.       *)
Text(kind)  == [kind |-> kind, status |-> 0, code |-> 0]
Words       == Text("words")
Quoting(e)  == [kind |-> "quote", status |-> e.status, code |-> e.code]
Texts       == {Words, Text("unavailable"), Text("wide")}
               \cup {Quoting(e) : e \in {NotFound, Net(0, 0)} \cup {BusinessError(c) : c \in Codes}
                                                            \cup {Errno(c) : c \in Codes}}

(* What Invoke makes of the server's error: the JSON of a NetError comes   *)
(* back as it was, that of an Errno as a NetError without a status; what a *)
(* text quotes is taken for the error.                                     *)
ReadErrorAsText(e) == BadRequest
ReadError(e) ==
  CASE e.kind = "net"                -> e
    [] e.kind \in {"errno", "quote"} -> Net(e.status, e.code)
    [] e.kind = "unavailable"        -> ServiceUnavailable
    [] OTHER                         -> BadRequest

-----------------------------------------------------------------------------
(* Content types: requestPayload, DefaultGRPCCodecs *)

ContentTypes == {"json", "form", "multipart", "jsonlike", "proto", "unknown"}
Readable     == {"json", "form", "multipart", "jsonlike"}
Codec(ct)    == CASE ct \in {"json", "form", "multipart"} -> "json"
                  [] ct = "proto" -> "proto"
                  [] OTHER -> "none"

Wrappers == {"pass", "swallow", "denyErrno", "denyText"}

(* A request, the handler its URL is routed to and the wrappers it meets.  *)
Requests == [handler : {"grpc", "native"},
             method : {"POST", "OPTIONS", "GET"}, uri : {"full", "short"},
             ctype : ContentTypes, body : {"ok", "undecodable", "unreadable"},
             gateWrap : Wrappers, srvWrap : Wrappers]

Init ==
  /\ req \in Requests
  /\ pc = "start" /\ srv = "off" /\ ran = None /\ wire = None /\ via = "none"
  /\ answers = <<>>

-----------------------------------------------------------------------------
(* The gate's answer: ErrorResponse, or the content with status 200.       *)

(* The deferred recover of Handle. *)
PanicsSilently == pc' = "end" /\ UNCHANGED answers
Panics ==
  /\ answers' = IF ErrHandlerSet THEN Append(answers, Net(500, -1)) ELSE answers
  /\ pc' = "end"

(* net/http panics on a status that is none. *)
Answer(e) ==
  IF e.kind = "net" /\ e.status \notin 100..999
    THEN Panics
    ELSE /\ answers' = Append(answers, IF e.kind = "net" THEN e ELSE BadRequest)
         /\ pc' = "end"

(* The end of fn, seen through the gate's wrapper. *)
Finish(e) == Answer(IF req.gateWrap = "swallow" THEN OK ELSE e)

(* The gate's method, authentication and path checks. *)
AuthPasses == pc' = "fn" /\ UNCHANGED answers

Front ==
  /\ pc = "start"
  /\ \/ /\ req.method = "OPTIONS" /\ pc' = "end" /\ UNCHANGED answers
     \/ /\ req.method = "GET" /\ Answer(BadRequest)
     \/ /\ req.method = "POST"
        /\ \/ Panics                                       \* AuthHandler does
           \/ \E e \in {Unauthorized, Words} : Answer(e)
           \/ IF req.uri = "full" THEN AuthPasses ELSE Answer(BadRequest)
  /\ UNCHANGED <<req, srv, ran, wire, via>>

(* The wrapper may deny the request; then fn reads the body, but does not  *)
(* look whether it could parse a form.                                     *)
Enter ==
  /\ pc = "fn"
  /\ IF req.gateWrap \in {"denyErrno", "denyText"} THEN Answer(BadRequest)
     ELSE IF \/ req.ctype \notin Readable
             \/ req.body = "unreadable" /\ req.ctype # "form" THEN Finish(BadRequest)
     ELSE pc' = "call" /\ UNCHANGED answers
  /\ UNCHANGED <<req, srv, ran, wire, via>>

-----------------------------------------------------------------------------
(* Invoke *)

Invoke ==
  /\ req.handler = "grpc" /\ pc = "call"
  /\ \/ /\ Codec(req.ctype) = "none" /\ Finish(BadRequest)
        /\ UNCHANGED <<srv, via>>
     \/ /\ Codec(req.ctype) # "none"
        /\ \/ Finish(BadRequest) /\ via' = "transport" /\ UNCHANGED srv      \* no connection
           \/ pc' = "wait" /\ srv' = "dispatch" /\ UNCHANGED <<via, answers>>
  /\ UNCHANGED <<req, ran, wire>>

(* The select, and what the RPC's error becomes. *)
Hears ==
  /\ pc = "wait" /\ wire # None /\ wire.kind # "wide"
  /\ Finish(ReadError(wire)) /\ via' = "wire"
  /\ UNCHANGED <<req, srv, ran, wire>>

(* The worker panics, and nothing recovers in its goroutine: the gate's    *)
(* process ends, be it that its caller has had a timeout meanwhile.        *)
WorkerPanics ==
  /\ wire.kind = "wide"
  /\ pc = "wait" \/ (pc = "end" /\ via = "timeout")
  /\ pc' = "dead"
  /\ UNCHANGED <<req, srv, ran, wire, via, answers>>

TransportFails ==
  /\ pc = "wait"
  /\ \E e \in {ServiceUnavailable, BadRequest} : Finish(e)
  /\ via' = "transport"
  /\ UNCHANGED <<req, srv, ran, wire>>

DeadlineIgnored == FALSE
Deadline        == req.handler = "grpc" /\ pc = "wait"

TimesOut ==
  /\ Deadline
  /\ Finish(Timeout) /\ via' = "timeout"
  /\ UNCHANGED <<req, srv, ran, wire>>

-----------------------------------------------------------------------------
(* The server: handler and processRequest *)

Return(e) == wire' = e /\ srv' = "over"
Step(to)  == srv' = to /\ UNCHANGED wire

(* The lookup of the method. *)
Dispatch ==
  /\ srv = "dispatch"
  /\ Return(NotFound) \/ Step("decode")
  /\ UNCHANGED <<req, pc, ran, via, answers>>

(* RecvMsg may fail, then the wrapper may deny; validation is in fn. *)
Decode ==
  /\ srv = "decode"
  /\ \/ Return(BadRequest)
     \/ /\ req.body # "undecodable"
        /\ CASE req.srvWrap = "denyErrno" -> \E c \in Codes : Return(Errno(c))
             [] req.srvWrap = "denyText"  -> \E e \in Texts : Return(e)
             [] OTHER                     -> Step("validate")
  /\ UNCHANGED <<req, pc, ran, via, answers>>

(* The error of fn: BusinessError, unless the wrapper drops it or it goes  *)
(* into the request that has fields for it; otherwise the reply is sent.   *)
Reply(e) ==
  IF e # OK /\ req.srvWrap # "swallow" /\ ~ReqHasCodeMsg
    THEN Return(e)
    ELSE Return(OK) \/ Return(BusinessError(-2))

(* How the method's error is wrapped: an Errno keeps its code (one with code  *)
(* 0 is no error, as if the method had returned nil).                      *)
Outcomes == {OK, Words} \cup {Errno(c) : c \in Codes}
WrapErrorDropped(o) == IF o.kind = "errno" THEN BusinessError(o.code) ELSE OK
WrapError(o) ==
  CASE o.kind = "errno" -> BusinessError(o.code)
    [] o.kind = "words" -> BusinessError(-2)
    [] OTHER            -> OK

ServerFn ==
  /\ req.handler = "grpc"
  /\ \/ /\ srv = "validate"
        /\ Reply(BusinessError(-1)) \/ Step("method")
        /\ UNCHANGED ran
     \/ /\ srv = "method"
        /\ \/ \E o \in Outcomes : ran' = o /\ Reply(WrapError(o))
           \/ ran' = Panic /\ Return(BadRequest)        \* handler recovers
  /\ UNCHANGED <<req, pc, via, answers>>

-----------------------------------------------------------------------------
(* NativeHandler: lookup, codec, decoding, validation, method, marshalling *)

NativeDecode ==
  /\ req.handler = "native" /\ pc = "call"
  /\ \/ Finish(BadRequest) /\ UNCHANGED srv                 \* unknown method
     \/ Panics /\ UNCHANGED srv                             \* a method without a request
     \/ IF Codec(req.ctype) = "none" THEN Panics /\ UNCHANGED srv
        ELSE \/ req.body # "ok" /\ Finish(BadRequest) /\ UNCHANGED srv
             \/ req.body # "undecodable" /\ pc' = "local" /\ srv' = "validate" /\ UNCHANGED answers
  /\ UNCHANGED <<req, ran, wire, via>>

NativeFn ==
  /\ req.handler = "native" /\ pc = "local"
  /\ \/ /\ srv = "validate"
        /\ \/ Finish(BusinessError(-1)) /\ srv' = "over"
           \/ srv' = "method" /\ UNCHANGED <<pc, answers>>
        /\ UNCHANGED <<ran, via>>
     \/ /\ srv = "method" /\ srv' = "over" /\ via' = "local"
        /\ \/ \E o \in Outcomes : ran' = o /\ Finish(WrapError(o))
           \/ ran' = OK /\ Finish(BadRequest)             \* Marshal fails
           \/ ran' = Panic /\ Panics
  /\ UNCHANGED <<req, wire>>

-----------------------------------------------------------------------------
Gate   == Front \/ Enter \/ Invoke \/ Hears \/ WorkerPanics \/ TransportFails \/ TimesOut
Server == Dispatch \/ Decode \/ ServerFn
Native == NativeDecode \/ NativeFn

Next == Gate \/ Server \/ Native

Spec == Init /\ [][Next]_vars

(* The gate runs and deadlines pass; the server and the network owe it     *)
(* nothing.                                                                *)
FairSpec == Spec /\ WF_vars(Front) /\ WF_vars(Enter) /\ WF_vars(Invoke) /\ WF_vars(TimesOut)

-----------------------------------------------------------------------------
(* Every variable is of its type; the method runs only for a request that  *)
(* came through the gate's checks with a codec.                            *)
TypeOK ==
  /\ req \in Requests
  /\ pc \in {"start", "fn", "call", "wait", "local", "end", "dead"}
  /\ srv \in {"off", "dispatch", "decode", "validate", "method", "over"}
  /\ ran \in Outcomes \cup {None, Panic}
  /\ via \in {"none", "wire", "transport", "timeout", "local"}
  /\ srv # "off" => req.method = "POST" /\ req.uri = "full" /\ Codec(req.ctype) = "json"

(* Whatever fails or panics on the way, the caller gets one answer: never  *)
(* an implicit 200, never a second header after the first.  The exception: *)
(* the gate itself ends, which only the text of a server wrapper's error   *)
(* can make it do, never what the method or the request is (function.go:   *)
(* 20-47, client.go:160-185).                                              *)
AnsweredOnce ==
  /\ pc = "end" => Len(answers) = IF req.method = "OPTIONS" THEN 0 ELSE 1
  /\ pc = "dead" => Len(answers) <= 1 /\ req.srvWrap = "denyText" /\ ran = None

(* A caller that is told of success has had its method run successfully,   *)
(* unless a wrapper swallows errors.                                       *)
SuccessIsReal ==
  answers = <<OK>> /\ "swallow" \notin {req.gateWrap, req.srvWrap} => ran = OK

(* An error code of the method crosses two processes, a gRPC status text   *)
(* and JSON, and is the one that the caller gets (grpcserver.go:274-288:   *)
(* business errors are handled, all others wrapped).                       *)
CodeArrives ==
  /\ pc = "end" /\ ran.kind = "errno" /\ via \in {"wire", "local"}
  /\ "swallow" \notin {req.gateWrap, req.srvWrap}
  => answers = <<BusinessError(ran.code)>>

(* The gate answers although the server or the network does not (or ends,  *)
(* as above); a native method that does not return keeps it                *)
(* (client.go:187-192).                                                    *)
Answers == req.handler = "grpc" => <>(pc \in {"end", "dead"})
=============================================================================
