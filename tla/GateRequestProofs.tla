-------------------------- MODULE GateRequestProofs --------------------------
(***************************************************************************)
(* Proofs about GateRequest, for all error codes.  Where a                 *)
(* property depends on the installation the theorem says so: AnsweredOnce  *)
(* on an ErrHandler, SuccessIsReal and CodeArrives on request types        *)
(* without fields Code and Msg, whose errors the server would swallow.     *)
(***************************************************************************)
EXTENDS GateRequest, TLAPS

(* What a server may return. *)
Returned ==
  {None, OK, NotFound, BadRequest, BusinessError(-1), BusinessError(-2)} \cup Texts
  \cup {BusinessError(c) : c \in Codes} \cup {Errno(c) : c \in Codes}

(* How far the gate and the method's side have come.                       *)
ProgressOK ==
  /\ pc \notin {"end", "dead"} => answers = <<>> /\ via = "none"
  /\ pc \in {"start", "fn", "call"} => srv = "off"
  /\ pc \in {"fn", "call", "wait", "local"} => req.method = "POST" /\ req.uri = "full"
  /\ pc \in {"call", "wait", "local"} => req.ctype \in Readable
  /\ req.handler = "native" => pc # "wait" /\ srv \notin {"dispatch", "decode"} /\ wire = None
  /\ req.handler = "grpc" => pc # "local"
  /\ wire # None \/ ran # None \/ via \in {"wire", "local"} => srv = "over"
  /\ wire \in Returned
  /\ wire.kind = "wide" => req.srvWrap = "denyText" /\ ran = None
  /\ pc = "dead" => wire.kind = "wide"

(* What the server returned says what the method did.                      *)
WireOK ==
  req.srvWrap # "swallow" =>
    /\ wire = OK => ran = OK
    /\ wire # None /\ ran.kind = "errno" => wire = BusinessError(ran.code)

Inv ==
  /\ TypeOK /\ ProgressOK
  /\ ErrHandlerSet => AnsweredOnce
  /\ ~ReqHasCodeMsg => WireOK /\ SuccessIsReal /\ CodeArrives

-----------------------------------------------------------------------------
(* Facts about the answer.                                                 *)

LEMMA AnswerFacts ==
  ASSUME answers = <<>>, NEW e, Answer(e)
  PROVE  /\ pc' = "end"
         /\ ErrHandlerSet => Len(answers') = 1
         /\ answers' = <<OK>> => e = OK
         /\ e.kind = "net" /\ e.status \in 100..999 => answers' = <<e>>
<1>1. \A x : Append(<<>>, x) = <<x>> /\ Len(<<x>>) = 1
  OBVIOUS
<1>2. BadRequest # OK /\ Net(500, -1) # OK
  BY DEF BadRequest, OK, Net
<1>3. \A x, y : <<x>> = <<y>> => x = y
  OBVIOUS
<1>4. CASE e.kind = "net" /\ e.status \notin 100..999
  <2>1. pc' = "end" /\ answers' = IF ErrHandlerSet THEN <<Net(500, -1)>> ELSE <<>>
    BY <1>1, <1>4 DEF Answer, Panics
  <2> QED
    BY <1>1, <1>2, <1>3, <1>4, <2>1
<1>5. CASE e.kind = "net" /\ e.status \in 100..999
  <2>1. pc' = "end" /\ answers' = <<e>>
    BY <1>1, <1>5 DEF Answer
  <2> QED
    BY <1>1, <1>3, <1>5, <2>1
<1>6. CASE e.kind # "net"
  <2>1. pc' = "end" /\ answers' = <<BadRequest>>
    BY <1>1, <1>6 DEF Answer
  <2> QED
    BY <1>1, <1>2, <1>3, <1>6, <2>1
<1> QED
  BY <1>4, <1>5, <1>6

LEMMA FinishFacts ==
  ASSUME answers = <<>>, NEW e, Finish(e)
  PROVE  /\ pc' = "end"
         /\ ErrHandlerSet => Len(answers') = 1
         /\ answers' = <<OK>> /\ req.gateWrap # "swallow" => e = OK
         /\ e.kind = "net" /\ e.status \in 100..999 /\ req.gateWrap # "swallow" => answers' = <<e>>
<1>1. CASE req.gateWrap = "swallow"
  <2>1. Answer(OK)
    BY <1>1 DEF Finish
  <2> QED
    BY <1>1, <2>1, AnswerFacts
<1>2. CASE req.gateWrap # "swallow"
  <2>1. Answer(e)
    BY <1>2 DEF Finish
  <2> QED
    BY <1>2, <2>1, AnswerFacts
<1> QED
  BY <1>1, <1>2

LEMMA PanicFacts ==
  ASSUME answers = <<>>, Panics
  PROVE  pc' = "end" /\ (ErrHandlerSet => Len(answers') = 1) /\ answers' # <<OK>>
<1>1. \A x : Append(<<>>, x) = <<x>> /\ Len(<<x>>) = 1 /\ <<x>> # <<>>
  OBVIOUS
<1>2. Net(500, -1) # OK
  BY DEF OK, Net
<1>3. answers' = <<>> \/ answers' = <<Net(500, -1)>>
  BY <1>1 DEF Panics
<1> QED
  BY <1>1, <1>2, <1>3 DEF Panics

(* None of the errors that the gate makes itself is a success.             *)
LEMMA NotOK ==
  /\ BadRequest # OK /\ Unauthorized # OK /\ Words # OK /\ Timeout # OK /\ ServiceUnavailable # OK
  /\ None # OK /\ NotFound # OK /\ BusinessError(-1) # OK /\ BusinessError(-2) # OK
  /\ \A c \in Codes : BusinessError(c) # OK /\ Errno(c) # OK
  /\ \A e \in Texts : e # OK
BY CodesNonZero
DEF BadRequest, Unauthorized, Words, Text, Texts, Quoting, Timeout, ServiceUnavailable, NotFound, OK, None, Net, BusinessError, Errno

(* Nor is what Invoke reads into another error of a server.                *)
LEMMA ReadNotOK == ASSUME NEW e \in Returned, ReadError(e) = OK PROVE e = OK
<1>1. CASE e \in {OK, NotFound, BadRequest, BusinessError(-1), BusinessError(-2)} \cup {BusinessError(c) : c \in Codes}
  BY <1>1 DEF ReadError, OK, NotFound, BadRequest, BusinessError, Net
<1>2. CASE e \in {Errno(c) : c \in Codes}
  BY <1>2 DEF ReadError, Errno, OK, Net
<1>3. CASE e = None
  BY <1>3 DEF ReadError, None, OK, Net, BadRequest
<1>4. CASE e \in {Words, Text("unavailable"), Text("wide")}
  BY <1>4 DEF ReadError, Words, Text, OK, Net, BadRequest, ServiceUnavailable
<1>5. CASE \E q \in {NotFound, Net(0, 0)} \cup {BusinessError(c) : c \in Codes} \cup {Errno(c) : c \in Codes} :
              e = Quoting(q)
  <2>1. PICK q \in {NotFound, Net(0, 0)} \cup {BusinessError(c) : c \in Codes} \cup {Errno(c) : c \in Codes} :
               e = Quoting(q)
    BY <1>5
  <2>2. ReadError(e) = Net(q.status, q.code)
    BY <2>1 DEF ReadError, Quoting
  <2>3. q.status # 200 \/ q.code # 0
    BY CodesNonZero DEF NotFound, BusinessError, Errno, Net
  <2> QED
    BY <2>2, <2>3 DEF OK, Net
<1> QED
  BY <1>1, <1>2, <1>3, <1>4, <1>5 DEF Returned, Texts

(* Errors that are no texts, and may be returned.                          *)
Plain == {None, OK, NotFound, BadRequest, BusinessError(-1), BusinessError(-2)}
         \cup {BusinessError(c) : c \in Codes} \cup {Errno(c) : c \in Codes}

LEMMA PlainFacts ==
  /\ \A e \in Plain : e \in Returned /\ e.kind # "wide"
  /\ \A o \in Outcomes : WrapError(o) \in Plain
<1>1. \A e \in Plain : e \in Returned
  BY DEF Plain, Returned
<1>2. \A e \in {None, OK, NotFound, BadRequest, BusinessError(-1), BusinessError(-2)} : e.kind # "wide"
  BY DEF None, OK, NotFound, BadRequest, BusinessError, Net
<1>3. \A c \in Codes : BusinessError(c).kind # "wide" /\ Errno(c).kind # "wide"
  BY DEF BusinessError, Errno, Net
<1>4. \A o \in Outcomes : WrapError(o) \in Plain
  BY DEF Outcomes, WrapError, Plain, Errno, Words, Text, OK, Net
<1> QED
  BY <1>1, <1>2, <1>3, <1>4 DEF Plain

-----------------------------------------------------------------------------
LEMMA InitInv == Init => Inv
<1> SUFFICES ASSUME Init PROVE Inv
  OBVIOUS
<1>1. TypeOK
  BY DEF Init, TypeOK
<1>2. ProgressOK /\ AnsweredOnce
  BY DEF Init, ProgressOK, AnsweredOnce, Returned, None
<1>3. <<>> # <<OK>>
  OBVIOUS
<1>4. WireOK /\ SuccessIsReal /\ CodeArrives
  BY <1>3, NotOK DEF Init, WireOK, SuccessIsReal, CodeArrives
<1> QED
  BY <1>1, <1>2, <1>4 DEF Inv

(* A step that ends with an answer other than success, before the method   *)
(* ran or without regard to it.                                            *)
LEMMA EndsUnsuccessful ==
  ASSUME Inv, pc \notin {"end", "dead"}, pc' = "end", ErrHandlerSet => Len(answers') = 1,
         req.method # "OPTIONS", answers' = <<OK>> => req.gateWrap = "swallow",
         UNCHANGED <<req, srv, ran, wire>>,
         via' \in {"none", "transport", "timeout"}
  PROVE  Inv'
<1>1. TypeOK'
  BY DEF Inv, TypeOK
<1>2. ProgressOK'
  BY DEF Inv, ProgressOK
<1>3. (ErrHandlerSet => AnsweredOnce')
  BY DEF Inv, AnsweredOnce
<1>4. ~ReqHasCodeMsg => WireOK' /\ SuccessIsReal' /\ CodeArrives'
  BY DEF Inv, WireOK, SuccessIsReal, CodeArrives
<1> QED
  BY <1>1, <1>2, <1>3, <1>4 DEF Inv

(* The checks before the target: each refusal is the one answer.           *)
LEMMA FrontPreserves ==
  ASSUME Inv, Front
  PROVE  Inv'
<1> USE DEF Front
<1>1. answers = <<>> /\ pc = "start" /\ srv = "off" /\ via = "none" /\ ran = None /\ wire = None
  BY DEF Inv, ProgressOK
<1>2. CASE req.method = "OPTIONS"
  <2>1. pc' = "end" /\ answers' = <<>> /\ UNCHANGED <<req, srv, ran, wire, via>>
    BY <1>1, <1>2
  <2>2. <<>> # <<OK>> /\ Len(<<>>) = 0
    OBVIOUS
  <2>3. TypeOK' /\ ProgressOK'
    BY <1>1, <2>1 DEF Inv, TypeOK, ProgressOK
  <2>4. AnsweredOnce' /\ WireOK' /\ SuccessIsReal' /\ CodeArrives'
    BY <1>1, <1>2, <2>1, <2>2, NotOK DEF AnsweredOnce, WireOK, SuccessIsReal, CodeArrives
  <2> QED
    BY <2>3, <2>4 DEF Inv
<1>3. CASE AuthPasses /\ req.method = "POST" /\ req.uri = "full"
  <2>1. pc' = "fn" /\ answers' = <<>> /\ UNCHANGED <<req, srv, ran, wire, via>>
    BY <1>1, <1>3 DEF AuthPasses
  <2>2. <<>> # <<OK>>
    OBVIOUS
  <2>3. TypeOK' /\ ProgressOK' /\ AnsweredOnce'
    BY <1>1, <1>3, <2>1 DEF Inv, TypeOK, ProgressOK, AnsweredOnce
  <2>4. WireOK' /\ SuccessIsReal' /\ CodeArrives'
    BY <1>1, <2>1, <2>2, NotOK DEF WireOK, SuccessIsReal, CodeArrives
  <2> QED
    BY <2>3, <2>4 DEF Inv
<1>4. CASE req.method # "OPTIONS" /\ (Panics \/ \E e \in {BadRequest, Unauthorized, Words} : Answer(e))
  BY <1>1, <1>4, AnswerFacts, PanicFacts, NotOK, EndsUnsuccessful
<1>5. \/ req.method = "OPTIONS"
      \/ AuthPasses /\ req.method = "POST" /\ req.uri = "full"
      \/ req.method # "OPTIONS" /\ (Panics \/ \E e \in {BadRequest, Unauthorized, Words} : Answer(e))
  BY <1>1
<1> QED
  BY <1>2, <1>3, <1>4, <1>5

LEMMA EnterPreserves ==
  ASSUME Inv, Enter
  PROVE  Inv'
<1> USE DEF Enter
<1>1. /\ answers = <<>> /\ pc = "fn" /\ srv = "off" /\ via = "none" /\ ran = None /\ wire = None
      /\ req.method = "POST" /\ req.uri = "full"
  BY DEF Inv, ProgressOK
<1>2. CASE Answer(BadRequest) \/ Finish(BadRequest)
  BY <1>1, <1>2, AnswerFacts, FinishFacts, NotOK, EndsUnsuccessful
<1>3. CASE pc' = "call" /\ UNCHANGED answers /\ req.ctype \in Readable
  <2>1. <<>> # <<OK>>
    OBVIOUS
  <2>2. TypeOK' /\ ProgressOK' /\ AnsweredOnce'
    BY <1>1, <1>3 DEF Inv, TypeOK, ProgressOK, AnsweredOnce
  <2>3. WireOK' /\ SuccessIsReal' /\ CodeArrives'
    BY <1>1, <1>3, <2>1, NotOK DEF WireOK, SuccessIsReal, CodeArrives
  <2> QED
    BY <2>2, <2>3 DEF Inv
<1> QED
  BY <1>1, <1>2, <1>3

LEMMA InvokePreserves ==
  ASSUME Inv, Invoke
  PROVE  Inv'
<1> USE DEF Invoke
<1>1. /\ answers = <<>> /\ pc = "call" /\ srv = "off" /\ via = "none" /\ ran = None /\ wire = None
      /\ req.method = "POST" /\ req.uri = "full" /\ req.ctype \in Readable
  BY DEF Inv, ProgressOK
<1>2. CASE Finish(BadRequest)
  BY <1>1, <1>2, FinishFacts, NotOK, EndsUnsuccessful
<1>3. CASE pc' = "wait" /\ srv' = "dispatch" /\ UNCHANGED <<via, answers>> /\ Codec(req.ctype) # "none"
  <2>1. <<>> # <<OK>>
    OBVIOUS
  <2>2. TypeOK' /\ ProgressOK' /\ AnsweredOnce'
    BY <1>1, <1>3 DEF Inv, TypeOK, ProgressOK, AnsweredOnce, Codec, Readable
  <2>3. WireOK' /\ SuccessIsReal' /\ CodeArrives'
    BY <1>1, <1>3, <2>1, NotOK DEF WireOK, SuccessIsReal, CodeArrives
  <2> QED
    BY <2>2, <2>3 DEF Inv
<1> QED
  BY <1>1, <1>2, <1>3

(* The gate gives up: what the method does is not told to the caller.      *)
LEMMA GivesUpPreserves ==
  ASSUME Inv, TransportFails \/ TimesOut
  PROVE  Inv'
<1> USE DEF TransportFails, TimesOut, Deadline
<1>1. answers = <<>> /\ pc = "wait" /\ req.method = "POST"
  BY DEF Inv, ProgressOK
<1>2. PICK e \in {ServiceUnavailable, BadRequest, Timeout} : Finish(e)
  OBVIOUS
<1>3. e # OK
  BY NotOK
<1> QED
  BY <1>1, <1>2, <1>3, FinishFacts, EndsUnsuccessful

(* The gate hears what the server returned: the two agree on success and   *)
(* on the code.                                                            *)
LEMMA HearsPreserves ==
  ASSUME Inv, Hears
  PROVE  Inv'
<1> USE DEF Hears
<1>1. /\ answers = <<>> /\ pc = "wait" /\ req.method = "POST" /\ srv = "over" /\ wire # None
      /\ req.handler # "native"
  BY DEF Inv, ProgressOK
<1>2. /\ pc' = "end" /\ (ErrHandlerSet => Len(answers') = 1)
      /\ answers' = <<OK>> /\ req.gateWrap # "swallow" => ReadError(wire) = OK
  BY <1>1, FinishFacts
<1>3. ReadError(wire) = OK => wire = OK
  BY ReadNotOK DEF Inv, ProgressOK
<1>4. \A c : ReadError(BusinessError(c)) = BusinessError(c)
  BY DEF ReadError, BusinessError, Net
<1>5. \A c : BusinessError(c).kind = "net" /\ BusinessError(c).status \in 100..999
  BY DEF BusinessError, Net
<1>6. TypeOK' /\ ProgressOK'
  BY <1>1, <1>2 DEF Inv, TypeOK, ProgressOK
<1>7. ErrHandlerSet => AnsweredOnce'
  BY <1>1, <1>2 DEF AnsweredOnce
<1>8. ~ReqHasCodeMsg => WireOK' /\ SuccessIsReal'
  BY <1>2, <1>3 DEF Inv, WireOK, SuccessIsReal
<1>9. ASSUME ~ReqHasCodeMsg PROVE CodeArrives'
  <2> SUFFICES ASSUME ran.kind = "errno", "swallow" \notin {req.gateWrap, req.srvWrap}
               PROVE  answers' = <<BusinessError(ran.code)>>
    BY DEF CodeArrives
  <2>1. wire = BusinessError(ran.code)
    BY <1>1, <1>9 DEF Inv, WireOK
  <2> QED
    BY <1>1, <1>4, <1>5, <2>1, FinishFacts
<1> QED
  BY <1>6, <1>7, <1>8, <1>9 DEF Inv

(* The gate ends; its caller may have had its answer before.               *)
LEMMA WorkerPanicsPreserves ==
  ASSUME Inv, WorkerPanics
  PROVE  Inv'
<1> USE DEF WorkerPanics
<1>1. TypeOK' /\ ProgressOK'
  BY DEF Inv, TypeOK, ProgressOK, None
<1>2. Len(<<>>) = 0 /\ <<>> # <<OK>>
  OBVIOUS
<1>3. ErrHandlerSet => AnsweredOnce'
  BY <1>2 DEF Inv, TypeOK, ProgressOK, AnsweredOnce
<1>4. ~ReqHasCodeMsg => WireOK' /\ SuccessIsReal' /\ CodeArrives'
  BY DEF Inv, WireOK, SuccessIsReal, CodeArrives
<1> QED
  BY <1>1, <1>3, <1>4 DEF Inv

-----------------------------------------------------------------------------
(* The server *)

(* It returns e or goes on, and the gate, which waits or has given up,     *)
(* learns nothing yet.                                                     *)
LEMMA ServerPreserves ==
  ASSUME Inv, req.handler = "grpc", srv \notin {"off", "over"},
         srv' \in {"decode", "validate", "method", "over"},
         ran' \in Outcomes \cup {None, Panic},
         wire' # None \/ ran' # None => srv' = "over",
         wire' \in Returned, wire'.kind = "wide" => req.srvWrap = "denyText" /\ ran' = None,
         UNCHANGED <<req, pc, via, answers>>,
         ~ReqHasCodeMsg => WireOK'
  PROVE  Inv'
<1>1. pc \in {"wait", "end"} /\ ran = None /\ via \notin {"wire", "local"}
  BY DEF Inv, TypeOK, ProgressOK, None
<1>2. TypeOK'
  BY DEF Inv, TypeOK
<1>3. ProgressOK' /\ (ErrHandlerSet => AnsweredOnce')
  BY <1>1 DEF Inv, TypeOK, ProgressOK, AnsweredOnce
<1>4. ~ReqHasCodeMsg => SuccessIsReal' /\ CodeArrives'
  BY <1>1, NotOK DEF Inv, SuccessIsReal, CodeArrives
<1> QED
  BY <1>2, <1>3, <1>4 DEF Inv

LEMMA DispatchPreserves ==
  ASSUME Inv, Dispatch
  PROVE  Inv'
<1> USE DEF Dispatch, Return, Step
<1>1. req.handler = "grpc" /\ ran = None /\ wire = None
  BY DEF Inv, TypeOK, ProgressOK, Requests
<1>2. WireOK'
  BY <1>1, NotOK DEF WireOK, None
<1> QED
  BY <1>1, <1>2, PlainFacts, ServerPreserves DEF Plain

LEMMA DecodePreserves ==
  ASSUME Inv, Decode
  PROVE  Inv'
<1> USE DEF Decode, Return, Step
<1>1. req.handler = "grpc" /\ ran = None /\ wire = None
  BY DEF Inv, TypeOK, ProgressOK, Requests
<1>2. wire' # OK /\ srv' \in {"validate", "over"} /\ (wire' # None => srv' = "over")
  BY <1>1, NotOK
<1>3. WireOK'
  BY <1>1, <1>2 DEF WireOK, None
<1>4. wire' \in Plain \/ (wire' \in Texts /\ req.srvWrap = "denyText")
  BY <1>1 DEF Plain
<1>5. wire' \in Returned /\ (wire'.kind = "wide" => req.srvWrap = "denyText")
  BY <1>4, PlainFacts DEF Returned
<1> QED
  BY <1>1, <1>2, <1>3, <1>5, ServerPreserves DEF Inv, TypeOK

LEMMA ServerFnPreserves ==
  ASSUME Inv, ServerFn
  PROVE  Inv'
<1> USE DEF ServerFn
<1>1. ran = None /\ wire = None /\ srv \in {"validate", "method"}
  BY DEF Inv, TypeOK, ProgressOK
<1>2. \A e : Reply(e) => srv' = "over" /\ wire' \in {e, OK, BusinessError(-2)}
                         /\ (~ReqHasCodeMsg /\ req.srvWrap # "swallow" /\ e # OK => wire' = e)
  BY DEF Reply, Return
<1>3. CASE srv = "validate"
  <2>1. ran' = None /\ srv' \in {"method", "over"} /\ (wire' # None => srv' = "over")
    BY <1>1, <1>2, <1>3 DEF Step
  <2>2. ~ReqHasCodeMsg /\ req.srvWrap # "swallow" => wire' # OK
    BY <1>1, <1>2, <1>3, NotOK DEF Step
  <2>3. ~ReqHasCodeMsg => WireOK'
    BY <2>1, <2>2 DEF WireOK, None
  <2>4. wire' \in Plain
    BY <1>1, <1>2, <1>3 DEF Step, Plain
  <2> QED
    BY <1>1, <2>1, <2>3, <2>4, PlainFacts, ServerPreserves
<1>4. CASE srv = "method" /\ \E o \in Outcomes : ran' = o /\ Reply(WrapError(o))
  <2>1. PICK o \in Outcomes : ran' = o /\ Reply(WrapError(o))
    BY <1>4
  <2>2. o # OK => WrapError(o) # OK
    BY NotOK DEF Outcomes, WrapError, Errno, Words, Text
  <2>3. o.kind = "errno" => WrapError(o) = BusinessError(o.code)
    BY DEF WrapError
  <2>4. o.kind = "errno" => o # OK
    BY DEF OK, Net
  <2>5. ~ReqHasCodeMsg => WireOK'
    BY <1>2, <2>1, <2>2, <2>3, <2>4 DEF WireOK
  <2>6. wire' \in Plain
    BY <1>2, <2>1, PlainFacts DEF Plain
  <2> QED
    BY <1>1, <1>2, <2>1, <2>5, <2>6, PlainFacts, ServerPreserves
<1>5. CASE srv = "method" /\ ran' = Panic /\ Return(BadRequest)
  <2>1. ~ReqHasCodeMsg => WireOK'
    BY <1>5, NotOK DEF WireOK, Return, Panic
  <2>2. wire' \in Plain
    BY <1>5 DEF Return, Plain
  <2> QED
    BY <1>1, <1>5, <2>1, <2>2, PlainFacts, ServerPreserves DEF Return
<1> QED
  BY <1>1, <1>3, <1>4, <1>5

-----------------------------------------------------------------------------
(* NativeHandler *)

LEMMA NativeDecodePreserves ==
  ASSUME Inv, NativeDecode
  PROVE  Inv'
<1> USE DEF NativeDecode
<1>1. /\ answers = <<>> /\ pc = "call" /\ srv = "off" /\ via = "none" /\ ran = None /\ wire = None
      /\ req.method = "POST" /\ req.uri = "full" /\ req.ctype \in Readable
  BY DEF Inv, ProgressOK
<1>2. CASE (Finish(BadRequest) \/ Panics) /\ UNCHANGED srv
  BY <1>1, <1>2, FinishFacts, PanicFacts, NotOK, EndsUnsuccessful
<1>3. CASE pc' = "local" /\ srv' = "validate" /\ UNCHANGED answers /\ Codec(req.ctype) # "none"
  <2>1. <<>> # <<OK>>
    OBVIOUS
  <2>2. TypeOK' /\ ProgressOK' /\ AnsweredOnce'
    BY <1>1, <1>3 DEF Inv, TypeOK, ProgressOK, AnsweredOnce, Codec, Readable
  <2>3. WireOK' /\ SuccessIsReal' /\ CodeArrives'
    BY <1>1, <1>3, <2>1, NotOK DEF WireOK, SuccessIsReal, CodeArrives
  <2> QED
    BY <2>2, <2>3 DEF Inv
<1> QED
  BY <1>2, <1>3

(* The end of a native request, told as it went.                           *)
LEMMA NativeEnds ==
  ASSUME Inv, pc = "local", srv \in {"validate", "method"}, req.handler = "native", srv' = "over", pc' = "end",
         ran' \in Outcomes \cup {None, Panic}, via' \in {"none", "local"},
         UNCHANGED <<req, wire>>,
         ErrHandlerSet => Len(answers') = 1,
         answers' = <<OK>> /\ req.gateWrap # "swallow" => ran' = OK,
         ran'.kind = "errno" /\ req.gateWrap # "swallow" => answers' = <<BusinessError(ran'.code)>>
  PROVE  Inv'
<1>1. req.method = "POST" /\ wire = None /\ srv # "off"
  BY DEF Inv, ProgressOK, TypeOK
<1>2. TypeOK' /\ ProgressOK' /\ (ErrHandlerSet => AnsweredOnce')
  BY <1>1 DEF Inv, TypeOK, ProgressOK, AnsweredOnce, None
<1>3. WireOK' /\ SuccessIsReal' /\ CodeArrives'
  BY <1>1, NotOK DEF Inv, WireOK, SuccessIsReal, CodeArrives
<1> QED
  BY <1>2, <1>3 DEF Inv

LEMMA NativeFnPreserves ==
  ASSUME Inv, NativeFn
  PROVE  Inv'
<1> USE DEF NativeFn
<1>1. answers = <<>> /\ pc = "local" /\ via = "none" /\ wire = None /\ req.method = "POST"
  BY DEF Inv, ProgressOK
<1>2. CASE srv = "validate" /\ Finish(BusinessError(-1)) /\ srv' = "over"
  <2>1. ran = None
    BY <1>2 DEF Inv, ProgressOK
  <2>2. ran' = None /\ via' = "none" /\ None.kind # "errno"
    BY <1>1, <1>2, <2>1 DEF None
  <2>3. /\ pc' = "end" /\ (ErrHandlerSet => Len(answers') = 1)
        /\ answers' = <<OK>> => req.gateWrap = "swallow"
    BY <1>1, <1>2, FinishFacts, NotOK
  <2> QED
    BY <1>1, <1>2, <2>2, <2>3, NativeEnds
<1>3. CASE srv = "validate" /\ srv' = "method" /\ UNCHANGED <<pc, answers>>
  <2>1. ran = None
    BY <1>3 DEF Inv, ProgressOK
  <2>2. <<>> # <<OK>>
    OBVIOUS
  <2>3. TypeOK' /\ ProgressOK' /\ AnsweredOnce'
    BY <1>1, <1>3, <2>1 DEF Inv, TypeOK, ProgressOK, AnsweredOnce
  <2>4. WireOK' /\ SuccessIsReal' /\ CodeArrives'
    BY <1>1, <1>3, <2>1, <2>2, NotOK DEF WireOK, SuccessIsReal, CodeArrives
  <2> QED
    BY <2>3, <2>4 DEF Inv
<1>4. CASE srv = "method" /\ \E o \in Outcomes : ran' = o /\ Finish(WrapError(o))
  <2>1. PICK o \in Outcomes : ran' = o /\ Finish(WrapError(o))
    BY <1>4
  <2>2. o # OK => WrapError(o) # OK
    BY NotOK DEF Outcomes, WrapError, Errno, Words, Text
  <2>3. o.kind = "errno" => /\ WrapError(o) = BusinessError(o.code)
                            /\ WrapError(o).kind = "net" /\ WrapError(o).status \in 100..999
    BY DEF WrapError, BusinessError, Net
  <2>4. /\ pc' = "end" /\ (ErrHandlerSet => Len(answers') = 1)
        /\ answers' = <<OK>> /\ req.gateWrap # "swallow" => o = OK
        /\ o.kind = "errno" /\ req.gateWrap # "swallow" => answers' = <<BusinessError(o.code)>>
    BY <1>1, <2>1, <2>2, <2>3, FinishFacts
  <2> QED
    BY <1>1, <1>4, <2>1, <2>4, NativeEnds
<1>5. CASE srv = "method" /\ ran' = OK /\ Finish(BadRequest)
  <2>1. OK.kind # "errno" /\ OK \in Outcomes
    BY DEF OK, Net, Outcomes
  <2>2. pc' = "end" /\ (ErrHandlerSet => Len(answers') = 1)
    BY <1>1, <1>5, FinishFacts
  <2> QED
    BY <1>1, <1>5, <2>1, <2>2, NativeEnds
<1>6. CASE srv = "method" /\ ran' = Panic /\ Panics
  <2>1. Panic.kind # "errno"
    BY DEF Panic
  <2>2. pc' = "end" /\ (ErrHandlerSet => Len(answers') = 1) /\ answers' # <<OK>>
    BY <1>1, <1>6, PanicFacts
  <2> QED
    BY <1>1, <1>6, <2>1, <2>2, NativeEnds
<1> QED
  BY <1>2, <1>3, <1>4, <1>5, <1>6

-----------------------------------------------------------------------------
LEMMA NextPreserves == Inv /\ [Next]_vars => Inv'
<1>1. ASSUME Inv, UNCHANGED vars PROVE Inv'
  BY <1>1 DEF vars, Inv, TypeOK, ProgressOK, AnsweredOnce, WireOK, SuccessIsReal, CodeArrives
<1> QED
  BY <1>1, FrontPreserves, EnterPreserves, InvokePreserves, HearsPreserves, WorkerPanicsPreserves, GivesUpPreserves,
     DispatchPreserves, DecodePreserves, ServerFnPreserves, NativeDecodePreserves, NativeFnPreserves
  DEF Next, Gate, Server, Native

(* What every reachable state of a request satisfies.                      *)
THEOREM RequestInvariant == Spec => []Inv
<1> QED
  BY InitInv, NextPreserves, PTL DEF Spec

(* The variables keep their types, and the method's side is asked only for *)
(* a request that passed the gate's checks.                                *)
THEOREM RequestTypeCorrect == Spec => []TypeOK
<1>1. Inv => TypeOK
  BY DEF Inv
<1> QED
  BY <1>1, RequestInvariant, PTL

(* With an ErrHandler the caller gets one answer, whatever fails or panics *)
(* (grpchandler.go:33-39, function.go:20-47).                              *)
THEOREM AnsweredOnceCorrect ==
  ASSUME ErrHandlerSet
  PROVE  Spec => []AnsweredOnce
<1>1. Inv => AnsweredOnce
  BY DEF Inv
<1> QED
  BY <1>1, RequestInvariant, PTL

(* The caller is not told of a success that the method did not have, if    *)
(* the server has no request fields to put the error into                  *)
(* (grpcserver.go:279-326).                                                *)
THEOREM SuccessCorrect ==
  ASSUME ~ReqHasCodeMsg
  PROVE  Spec => []SuccessIsReal
<1>1. Inv => SuccessIsReal
  BY DEF Inv
<1> QED
  BY <1>1, RequestInvariant, PTL

(* Then the method's error code arrives, through JSON and a gRPC status    *)
(* (client.go:168-185, grpcserver.go:279-294).                             *)
THEOREM CodeArrivesCorrect ==
  ASSUME ~ReqHasCodeMsg
  PROVE  Spec => []CodeArrives
<1>1. Inv => CodeArrives
  BY DEF Inv
<1> QED
  BY <1>1, RequestInvariant, PTL
=============================================================================
