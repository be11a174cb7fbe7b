---------------------------- MODULE StreamSession ----------------------------
(***************************************************************************)
(* One websocket session of gate's StreamHandler                           *)
(* (src/gate/streamhandler.go): four goroutines copy messages between the  *)
(* websocket and a gRPC stream through two bounded channels, and the       *)
(* handler waits for all four.                                             *)
(*                                                                         *)
(*    websocket -> wsRead -> wsReadCh -> grpcWrite -> gRPC stream          *)
(*    websocket <- wsWrite <- wsWriteCh <- grpcRead <- gRPC stream         *)
(*                                                                         *)
(* A goroutine that leaves its loop cancels the stop context it shares     *)
(* with the other one of its side (wsRead with wsWrite, grpcRead with      *)
(* grpcWrite), counts down the wait group and then closes the session:     *)
(* the context, the websocket, the stream.  The readers put into their     *)
(* channel with a plain send: while it is full they hear of nothing.       *)
(* Before that the handler sets the session up: authentication, upgrade to *)
(* a websocket, gRPC stream; each may fail.                                *)
(*                                                                         *)
(* Messages are counted, not told apart.  The peers may send, stay silent  *)
(* or go away at any time; a closed websocket and a cancelled stream fail. *)
(*                                                                         *)
(* A definition that comes right before one it resembles (WaitForFewer     *)
(* before WaitFor) is the same code with a bug: no action uses it, and the *)
(* properties are known to notice when it takes the other's place.         *)
(***************************************************************************)
EXTENDS Naturals, FiniteSets

CONSTANT Cap      \* length of wsReadCh and wsWriteCh

ASSUME CapPositive == Cap \in Nat \ {0}

Workers == {"wsRead", "wsWrite", "grpcRead", "grpcWrite"}

(* The stop contexts: stopWsCtx and stopGrpcCtx. *)
Side(w)  == IF w \in {"wsRead", "wsWrite"} THEN "ws" ELSE "grpc"

VARIABLES
  wsReadCh, wsWriteCh,   \* messages in the channels
  stopped,               \* the sides whose stop context is cancelled
  ctxDone,               \* the session's context
  connClosed,            \* there is no open websocket
  streamErr,             \* grpcStream.err: an error is on record
  streamCtxDone,         \* the stream's own context
  streamClosed,          \* there is no stream, or grpcStream.closed: its slot is given back
  isClose, closeLock,    \* the session's once-only Close
  waiting,               \* the wait group
  handler,               \* the handler's goroutine
  pc                     \* per worker: where it is, or "off" before it is started

vars == <<wsReadCh, wsWriteCh, stopped, ctxDone, connClosed, streamErr, streamCtxDone,
          streamClosed, isClose, closeLock, waiting, handler, pc>>

chans   == <<wsReadCh, wsWriteCh>>
session == <<ctxDone, connClosed, isClose, closeLock>>
stream  == <<streamErr, streamCtxDone, streamClosed>>
others  == <<stopped, waiting, handler>>

(* wg.Add *)
WaitForFewer == Cardinality(Workers) - 1
WaitFor      == Cardinality(Workers)

Init ==
  /\ wsReadCh = 0 /\ wsWriteCh = 0 /\ stopped = {}
  /\ ctxDone = FALSE /\ connClosed = TRUE
  /\ streamErr = FALSE /\ streamCtxDone = FALSE /\ streamClosed = TRUE
  /\ isClose = FALSE /\ closeLock = "none"
  /\ waiting = 0 /\ handler = "start"
  /\ pc = [w \in Workers |-> "off"]

Go(w, from, to) == pc[w] = from /\ pc' = [pc EXCEPT ![w] = to]

StreamDone == ctxDone \/ streamCtxDone      \* the stream's context derives from the session's

-----------------------------------------------------------------------------
(* Setting up *)

(* Authentication fails or panics, or the upgrade fails. *)
Refuse ==
  /\ handler = "start" /\ handler' = "returned"
  /\ UNCHANGED <<chans, stream, session, stopped, waiting, pc>>

(* A content type other than JSON makes no difference from here on: the    *)
(* error reply for it can no longer be written, and set-up goes on.        *)
Upgrade ==
  /\ handler = "start" /\ handler' = "upgraded"
  /\ connClosed' = FALSE
  /\ UNCHANGED <<chans, stream, ctxDone, isClose, closeLock, stopped, waiting, pc>>

(* No service or endpoint in the URL, no codec, no connection, no stream:  *)
(* the deferred cancel and conn.Close.                                     *)
ConnectFails ==
  /\ handler = "upgraded" /\ handler' = "returned"
  /\ ctxDone' = TRUE /\ connClosed' = TRUE
  /\ UNCHANGED <<chans, stream, isClose, closeLock, stopped, waiting, pc>>

Connect ==
  /\ handler = "upgraded" /\ handler' = "waiting"
  /\ streamClosed' = FALSE
  /\ waiting' = WaitFor
  /\ pc' = [w \in Workers |-> "loop"]
  /\ UNCHANGED <<chans, streamErr, streamCtxDone, session, stopped>>

-----------------------------------------------------------------------------
(* The top of a reader's loop: leave if the side was stopped.              *)
ReaderLoop(w) ==
  /\ w \in {"wsRead", "grpcRead"}
  /\ Go(w, "loop", IF Side(w) \in stopped THEN "cancel" ELSE "read")
  /\ UNCHANGED <<chans, stream, session, others>>

(* ReadMessage *)
WsReadOk ==
  /\ ~connClosed
  /\ Go("wsRead", "read", "push")
  /\ UNCHANGED <<chans, stream, session, others>>

WsReadFails ==
  /\ Go("wsRead", "read", "cancel")
  /\ UNCHANGED <<chans, stream, session, others>>

WsReadPush ==
  /\ wsReadCh < Cap
  /\ Go("wsRead", "push", "loop")
  /\ wsReadCh' = wsReadCh + 1
  /\ UNCHANGED <<wsWriteCh, stream, session, others>>

(* stream.Recv: it clears the stream's error in any case, and closes the   *)
(* stream when it fails (GrpcStream has the details).                      *)
GrpcReadOk ==
  /\ ~StreamDone
  /\ Go("grpcRead", "read", "push")
  /\ streamErr' = FALSE
  /\ UNCHANGED <<chans, streamCtxDone, streamClosed, session, others>>

CloseStream ==
  /\ streamClosed'  = TRUE
  /\ streamCtxDone' = (streamCtxDone \/ (~streamClosed /\ streamErr))

GrpcReadFails ==
  /\ Go("grpcRead", "read", "cancel")
  /\ CloseStream
  /\ streamErr' = FALSE
  /\ UNCHANGED <<chans, session, others>>

GrpcReadPush ==
  /\ wsWriteCh < Cap
  /\ Go("grpcRead", "push", "loop")
  /\ wsWriteCh' = wsWriteCh + 1
  /\ UNCHANGED <<wsReadCh, stream, session, others>>

-----------------------------------------------------------------------------
(* wsWrite's select: a done context... *)
WsWriteStops ==
  /\ "ws" \in stopped \/ StreamDone
  /\ Go("wsWrite", "loop", "cancel")
  /\ UNCHANGED <<chans, stream, session, others>>

(* ...or the ticker, or a message: then it writes. *)
WsWritePing ==
  /\ Go("wsWrite", "loop", "write")
  /\ UNCHANGED <<chans, stream, session, others>>

WsWritePop ==
  /\ wsWriteCh > 0
  /\ Go("wsWrite", "loop", "write")
  /\ wsWriteCh' = wsWriteCh - 1
  /\ UNCHANGED <<wsReadCh, stream, session, others>>

WsWriteOk ==
  /\ ~connClosed
  /\ Go("wsWrite", "write", "loop")
  /\ UNCHANGED <<chans, stream, session, others>>

WsWriteFails ==
  /\ Go("wsWrite", "write", "cancel")
  /\ UNCHANGED <<chans, stream, session, others>>

(* grpcWrite's select and stream.Send, which records its error. *)
GrpcWriteStops ==
  /\ "grpc" \in stopped
  /\ Go("grpcWrite", "loop", "cancel")
  /\ UNCHANGED <<chans, stream, session, others>>

GrpcWritePop ==
  /\ wsReadCh > 0
  /\ Go("grpcWrite", "loop", "write")
  /\ wsReadCh' = wsReadCh - 1
  /\ UNCHANGED <<wsWriteCh, stream, session, others>>

GrpcWriteOk ==
  /\ ~StreamDone
  /\ Go("grpcWrite", "write", "loop")
  /\ UNCHANGED <<chans, stream, session, others>>

GrpcWriteFails ==
  /\ Go("grpcWrite", "write", "cancel")
  /\ streamErr' = TRUE
  /\ UNCHANGED <<chans, streamCtxDone, streamClosed, session, others>>

-----------------------------------------------------------------------------
(* The deferred function of a worker, then StreamHandler.Close             *)

Cancel(w) ==
  /\ Go(w, "cancel", "done")
  /\ stopped' = stopped \cup {Side(w)}
  /\ UNCHANGED <<chans, stream, session, waiting, handler>>

Done(w) ==
  /\ Go(w, "done", "close")
  /\ waiting' = waiting - 1
  /\ UNCHANGED <<chans, stream, session, stopped, handler>>

(* The look at isClose without the lock... *)
CloseLook(w) ==
  /\ Go(w, "close", IF isClose THEN "end" ELSE "lock")
  /\ UNCHANGED <<chans, stream, session, others>>

(* ...and the one with it. *)
CloseAgain(w) ==
  /\ closeLock = "none" /\ isClose
  /\ Go(w, "lock", "end")
  /\ UNCHANGED <<chans, stream, session, others>>

CloseFirstUnlocked(w) ==
  /\ Go(w, "lock", "ctxCancel")
  /\ isClose' = TRUE
  /\ UNCHANGED <<chans, stream, ctxDone, connClosed, closeLock, others>>

CloseFirst(w) ==
  /\ closeLock = "none" /\ ~isClose
  /\ Go(w, "lock", "ctxCancel")
  /\ isClose' = TRUE /\ closeLock' = w
  /\ UNCHANGED <<chans, stream, ctxDone, connClosed, others>>

CtxCancel(w) ==
  /\ Go(w, "ctxCancel", "connClose")
  /\ ctxDone' = TRUE
  /\ UNCHANGED <<chans, stream, connClosed, isClose, closeLock, others>>

ConnCloseForgotten(w) ==
  /\ Go(w, "connClose", "streamClose")
  /\ UNCHANGED <<chans, stream, session, others>>

ConnClose(w) ==
  /\ Go(w, "connClose", "streamClose")
  /\ connClosed' = TRUE
  /\ UNCHANGED <<chans, stream, ctxDone, isClose, closeLock, others>>

StreamCloseForgotten(w) ==
  /\ Go(w, "streamClose", "end")
  /\ closeLock' = "none"
  /\ UNCHANGED <<chans, stream, ctxDone, connClosed, isClose, others>>

StreamClose(w) ==
  /\ Go(w, "streamClose", "end")
  /\ CloseStream
  /\ closeLock' = "none"
  /\ UNCHANGED <<chans, streamErr, ctxDone, connClosed, isClose, others>>

(* wg.Wait returns; Handle's deferred cancel and conn.Close follow. *)
HandlerReturns ==
  /\ handler = "waiting" /\ waiting = 0
  /\ handler' = "returned"
  /\ ctxDone' = TRUE /\ connClosed' = TRUE
  /\ UNCHANGED <<chans, stream, isClose, closeLock, stopped, waiting, pc>>

-----------------------------------------------------------------------------
Exit(w) == \/ Cancel(w) \/ Done(w) \/ CloseLook(w)
           \/ CtxCancel(w) \/ ConnClose(w) \/ StreamClose(w)

LockClose(w) == CloseAgain(w) \/ CloseFirst(w)

Copy == \/ WsReadOk \/ WsReadFails \/ WsReadPush
        \/ GrpcReadOk \/ GrpcReadFails \/ GrpcReadPush
        \/ WsWriteStops \/ WsWritePing \/ WsWritePop \/ WsWriteOk \/ WsWriteFails
        \/ GrpcWriteStops \/ GrpcWritePop \/ GrpcWriteOk \/ GrpcWriteFails

SetUp == Refuse \/ Upgrade \/ ConnectFails \/ Connect

Next == \/ SetUp \/ Copy \/ HandlerReturns
        \/ \E w \in Workers : ReaderLoop(w) \/ Exit(w) \/ LockClose(w)

Spec == Init /\ [][Next]_vars

(* Goroutines run and take free locks; a select with a ready case goes on; *)
(* what is closed or cancelled fails.  Nothing is assumed of the peers.    *)
Fairness ==
  /\ WF_vars(WsReadPush) /\ WF_vars(GrpcReadPush) /\ WF_vars(HandlerReturns)
  /\ WF_vars(connClosed /\ WsReadFails) /\ WF_vars(connClosed /\ WsWriteFails)
  /\ WF_vars(StreamDone /\ GrpcReadFails) /\ WF_vars(StreamDone /\ GrpcWriteFails)
  /\ WF_vars(WsWriteStops \/ WsWritePop) /\ WF_vars(GrpcWriteStops \/ GrpcWritePop)
  /\ \A w \in Workers : WF_vars(ReaderLoop(w)) /\ WF_vars(Exit(w)) /\ SF_vars(LockClose(w))

FairSpec == Spec /\ Fairness

-----------------------------------------------------------------------------
Working(w) == pc[w] \in {"loop", "read", "push", "write"}
Leaving(w) == ~Working(w) /\ pc[w] # "off"

(* Every variable is of its type; the wait group counts the workers that   *)
(* have not called Done.                                                   *)
TypeOK ==
  /\ wsReadCh \in 0..Cap /\ wsWriteCh \in 0..Cap
  /\ stopped \subseteq {"ws", "grpc"}
  /\ {ctxDone, connClosed, streamErr, streamCtxDone, streamClosed, isClose} \subseteq BOOLEAN
  /\ closeLock \in Workers \cup {"none"} /\ handler \in {"start", "upgraded", "waiting", "returned"}
  /\ pc \in [Workers -> {"off", "loop", "read", "push", "write", "cancel", "done", "close", "lock",
                         "ctxCancel", "connClose", "streamClose", "end"}]
  /\ waiting = Cardinality({w \in Workers : Working(w) \/ pc[w] \in {"cancel", "done"}})

(* The handler returns, and net/http takes the connection back, only when  *)
(* no worker reads or writes any more, and then the websocket is closed    *)
(* however the session ended or set-up failed.  Workers may still be in    *)
(* Close, which comes after wg.Done: a stream that is not given back by    *)
(* then is in the hands of one of them.                                    *)
LateClose == {"close", "lock", "ctxCancel", "connClose", "streamClose"}

NoWorkAfterReturn ==
  handler = "returned" =>
    /\ connClosed /\ \A w \in Workers : ~Working(w)
    /\ streamClosed \/ \E w \in Workers : pc[w] \in LateClose

(* One worker at most runs the close sequence, and whoever skipped it      *)
(* because of isClose leaves the session to one that finishes it.          *)
CloseOnce ==
  /\ Cardinality({w \in Workers : pc[w] \in {"ctxCancel", "connClose", "streamClose"}}) <= 1
  /\ isClose /\ closeLock = "none" => ctxDone /\ connClosed /\ streamClosed

(* A reader whose channel is full and whose consumer is gone: nothing will *)
(* ever wake it up, since its send is in no select (lines 219 and 302).    *)
WsReadStuck   == pc["wsRead"] = "push" /\ wsReadCh = Cap /\ Leaving("grpcWrite")
GrpcReadStuck == pc["grpcRead"] = "push" /\ wsWriteCh = Cap /\ Leaving("wsWrite")
Stuck == WsReadStuck \/ GrpcReadStuck

(* As soon as one worker leaves or the handler gives up, the slot of the   *)
(* pool comes back and the websocket is closed, even in a session that     *)
(* never ends.                                                             *)
SessionCloses ==
  handler = "returned" \/ (\E w \in Workers : Leaving(w)) ~> streamClosed /\ connClosed

(* And the session ends with all four workers and the handler, unless a    *)
(* reader is stuck: no other lock, channel or select keeps it.             *)
SessionEnds ==
  (\E w \in Workers : Leaving(w))
    ~> Stuck \/ (handler = "returned" /\ \A w \in Workers : pc[w] = "end")
=============================================================================
