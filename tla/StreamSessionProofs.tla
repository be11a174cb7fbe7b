------------------------- MODULE StreamSessionProofs -------------------------
(***************************************************************************)
(* Proofs about StreamSession, for channels of every length: the wait      *)
(* group counts the workers that may still use the session, and the lock   *)
(* of Close is held by the worker that closes.                             *)
(***************************************************************************)
EXTENDS StreamSession, FiniteSetTheorems, TLAPS

(* The workers that have not called wg.Done.                               *)
Busy == {w \in Workers : Working(w) \/ pc[w] \in {"cancel", "done"}}

Closing(w) == pc[w] \in {"ctxCancel", "connClose", "streamClose"}

(* Before the workers are started there is nothing to close but the        *)
(* websocket.  Once there is a stream, all of them are.                    *)
SetUpOK ==
  /\ handler \in {"start", "upgraded"} => /\ \A w \in Workers : pc[w] = "off"
                                          /\ ~isClose /\ closeLock = "none"
                                          /\ streamClosed
  /\ handler = "start" => connClosed

(* One worker closes, step by step.                                        *)
CloseOK ==
  /\ \A w \in Workers : /\ closeLock = w <=> Closing(w)
                        /\ Closing(w) \/ pc[w] = "end" => isClose
                        /\ pc[w] \in {"connClose", "streamClose"} => ctxDone
                        /\ pc[w] = "streamClose" => connClosed
  /\ isClose /\ closeLock = "none" => ctxDone /\ connClosed /\ streamClosed

(* A handler that returned waited for every worker it started to call      *)
(* Done.                                                                   *)
HandlerOK ==
  /\ handler = "returned" => connClosed /\ \A w \in Workers : ~Working(w) /\ pc[w] \notin {"cancel", "done"}
  /\ streamClosed \/ \A w \in Workers : pc[w] # "off"

Inv == TypeOK /\ SetUpOK /\ CloseOK /\ HandlerOK

-----------------------------------------------------------------------------
LEMMA BusyFinite ==
  /\ IsFiniteSet(Workers) /\ Cardinality(Workers) \in Nat
  /\ IsFiniteSet(Busy) /\ Cardinality(Busy) \in Nat
<1>1. Workers = {"wsRead"} \cup {"wsWrite"} \cup {"grpcRead"} \cup {"grpcWrite"}
  BY DEF Workers
<1>2. IsFiniteSet(Workers)
  BY <1>1, FS_Singleton, FS_Union
<1>3. Busy \in SUBSET Workers
  BY DEF Busy
<1> QED
  BY <1>2, <1>3, FS_Subset, FS_CardinalityType

LEMMA InitInv == Init => Inv
<1> SUFFICES ASSUME Init PROVE Inv
  OBVIOUS
<1>1. Busy = {}
  BY DEF Init, Busy, Working
<1>2. waiting = Cardinality(Busy)
  BY <1>1, FS_EmptySet DEF Init
<1>3. TypeOK
  <2>1. wsReadCh \in 0..Cap /\ wsWriteCh \in 0..Cap
    BY CapPositive DEF Init
  <2> QED
    BY <1>2, <2>1 DEF Init, TypeOK, Busy
<1>4. SetUpOK /\ CloseOK /\ HandlerOK
  BY DEF Init, SetUpOK, CloseOK, HandlerOK, Closing, Workers
<1> QED
  BY <1>3, <1>4 DEF Inv

-----------------------------------------------------------------------------
(* Setting up.                                                             *)
LEMMA SetUpPreserves ==
  ASSUME Inv, SetUp
  PROVE  Inv'
<1> USE DEF Refuse, Upgrade, ConnectFails, chans, stream, session
<1>1. CASE Refuse \/ Upgrade \/ ConnectFails
  <2>1. TypeOK'
    BY <1>1 DEF Inv, TypeOK, Working
  <2>2. SetUpOK' /\ CloseOK' /\ HandlerOK'
    BY <1>1 DEF Inv, TypeOK, SetUpOK, CloseOK, HandlerOK, Closing, Working
  <2> QED
    BY <2>1, <2>2 DEF Inv
<1>2. CASE Connect
  <2>1. Busy' = Workers
    BY <1>2 DEF Connect, Busy, Working
  <2>2. waiting' = Cardinality(Busy')
    BY <1>2, <2>1 DEF Connect, WaitFor
  <2>3. TypeOK'
    BY <1>2, <2>2 DEF Connect, Inv, TypeOK, Busy
  <2>4. SetUpOK' /\ CloseOK' /\ HandlerOK'
    BY <1>2 DEF Connect, Inv, TypeOK, SetUpOK, CloseOK, HandlerOK, Closing, Workers
  <2> QED
    BY <2>3, <2>4 DEF Inv
<1> QED
  BY <1>1, <1>2 DEF SetUp

(* A worker that stays one that has not called Done, or one that has.      *)
LEMMA BusyKept ==
  ASSUME TypeOK, NEW w \in Workers, NEW to, pc' = [pc EXCEPT ![w] = to], waiting' = waiting,
         (Working(w) \/ pc[w] \in {"cancel", "done"})
           <=> to \in {"loop", "read", "push", "write", "cancel", "done"}
  PROVE  waiting' = Cardinality(Busy')
<1>1. Busy' = Busy
  BY DEF TypeOK, Busy, Working
<1> QED
  BY <1>1 DEF TypeOK, Busy

(* The loops: a worker that works goes on, or is about to leave.           *)
LEMMA CopyPreserves ==
  ASSUME Inv, Copy \/ \E w \in Workers : ReaderLoop(w)
  PROVE  Inv'
<1>1. PICK w \in Workers, to \in {"loop", "read", "push", "write", "cancel"} :
           Working(w) /\ pc' = [pc EXCEPT ![w] = to]
  BY DEF Copy, ReaderLoop, WsReadOk, WsReadFails, WsReadPush, GrpcReadOk, GrpcReadFails, GrpcReadPush,
     WsWriteStops, WsWritePing, WsWritePop, WsWriteOk, WsWriteFails, GrpcWriteStops, GrpcWritePop,
     GrpcWriteOk, GrpcWriteFails, Go, Working, Workers
<1>2. wsReadCh' \in 0..Cap /\ wsWriteCh' \in 0..Cap
  BY CapPositive
  DEF Copy, ReaderLoop, WsReadOk, WsReadFails, WsReadPush, GrpcReadOk, GrpcReadFails, GrpcReadPush,
     WsWriteStops, WsWritePing, WsWritePop, WsWriteOk, WsWriteFails, GrpcWriteStops, GrpcWritePop,
     GrpcWriteOk, GrpcWriteFails, chans, Inv, TypeOK
<1>3. /\ streamErr' \in BOOLEAN /\ streamCtxDone' \in BOOLEAN /\ streamClosed' \in BOOLEAN
      /\ streamClosed => streamClosed'
  <2>1. \/ UNCHANGED stream
        \/ streamErr' \in BOOLEAN /\ UNCHANGED <<streamCtxDone, streamClosed>>
        \/ streamErr' = FALSE /\ CloseStream
    BY DEF Copy, ReaderLoop, WsReadOk, WsReadFails, WsReadPush, GrpcReadOk, GrpcReadFails, GrpcReadPush,
       WsWriteStops, WsWritePing, WsWritePop, WsWriteOk, WsWriteFails, GrpcWriteStops, GrpcWritePop,
       GrpcWriteOk, GrpcWriteFails, stream
  <2>2. streamErr \in BOOLEAN /\ streamCtxDone \in BOOLEAN /\ streamClosed \in BOOLEAN
    BY DEF Inv, TypeOK
  <2> QED
    BY <2>1, <2>2 DEF stream, CloseStream
<1>4. UNCHANGED <<session, others>>
  BY DEF Copy, ReaderLoop, WsReadOk, WsReadFails, WsReadPush, GrpcReadOk, GrpcReadFails, GrpcReadPush,
     WsWriteStops, WsWritePing, WsWritePop, WsWriteOk, WsWriteFails, GrpcWriteStops, GrpcWritePop,
     GrpcWriteOk, GrpcWriteFails
<1>5. waiting' = Cardinality(Busy')
  BY <1>1, <1>4, BusyKept DEF others, Inv
<1>6. TypeOK'
  BY <1>1, <1>2, <1>4, <1>5, <1>3 DEF Inv, TypeOK, Busy, session, others
<1>7. handler = "waiting"
  BY <1>1 DEF Inv, TypeOK, SetUpOK, HandlerOK, Working
<1>8. SetUpOK' /\ CloseOK' /\ HandlerOK'
  BY <1>1, <1>4, <1>7, <1>3
  DEF Inv, TypeOK, SetUpOK, CloseOK, HandlerOK, Closing, Working, session, others
<1> QED
  BY <1>6, <1>8 DEF Inv

-----------------------------------------------------------------------------
(* Leaving.  Done is the one step that counts down.                        *)
LEMMA DonePreserves ==
  ASSUME Inv, NEW w \in Workers, Done(w)
  PROVE  Inv'
<1> USE DEF Done, Go, chans, stream, session
<1>1. w \in Busy /\ Busy' = Busy \ {w}
  BY DEF Inv, TypeOK, Busy, Working
<1>2. Cardinality(Busy') = Cardinality(Busy) - 1
  BY <1>1, BusyFinite, FS_RemoveElement
<1>3. waiting' = Cardinality(Busy')
  BY <1>2 DEF Inv, TypeOK, Busy
<1>4. TypeOK'
  BY <1>3 DEF Inv, TypeOK, Busy
<1>5. SetUpOK' /\ CloseOK' /\ HandlerOK'
  BY DEF Inv, TypeOK, SetUpOK, CloseOK, HandlerOK, Closing, Working
<1> QED
  BY <1>4, <1>5 DEF Inv

(* The other steps of the deferred function, up to the lock.               *)
LEMMA LeavePreserves ==
  ASSUME Inv, NEW w \in Workers, Cancel(w) \/ CloseLook(w) \/ CloseAgain(w) \/ CloseFirst(w)
  PROVE  Inv'
<1> USE DEF Cancel, CloseLook, CloseAgain, CloseFirst, Go, chans, stream, session, others
<1>1. waiting' = Cardinality(Busy')
  BY BusyKept DEF Inv, TypeOK, Working
<1>2. TypeOK'
  BY <1>1 DEF Inv, TypeOK, Busy, Side
<1>3. SetUpOK' /\ HandlerOK'
  BY DEF Inv, TypeOK, SetUpOK, HandlerOK, Working
<1>4. CloseOK'
  BY DEF Inv, TypeOK, CloseOK, Closing, Workers
<1> QED
  BY <1>2, <1>3, <1>4 DEF Inv

(* The close sequence.                                                     *)
LEMMA ClosePreserves ==
  ASSUME Inv, NEW w \in Workers, CtxCancel(w) \/ ConnClose(w) \/ StreamClose(w)
  PROVE  Inv'
<1> USE DEF CtxCancel, ConnClose, StreamClose, CloseStream, Go, chans, stream, session, others
<1>1. waiting' = Cardinality(Busy')
  BY BusyKept DEF Inv, TypeOK, Working
<1>2. TypeOK'
  BY <1>1 DEF Inv, TypeOK, Busy
<1>3. SetUpOK' /\ HandlerOK'
  BY DEF Inv, TypeOK, SetUpOK, HandlerOK, Working
<1>4. CloseOK'
  BY DEF Inv, TypeOK, CloseOK, Closing, Workers
<1> QED
  BY <1>2, <1>3, <1>4 DEF Inv

(* wg.Wait returns when nobody is busy any more.                           *)
LEMMA HandlerReturnsPreserves ==
  ASSUME Inv, HandlerReturns
  PROVE  Inv'
<1> USE DEF HandlerReturns, chans, stream
<1>1. Busy = {}
  BY BusyFinite, FS_EmptySet DEF Inv, TypeOK, Busy
<1>2. \A w \in Workers : ~Working(w) /\ pc[w] \notin {"cancel", "done"}
  BY <1>1 DEF Busy
<1>3. TypeOK'
  BY DEF Inv, TypeOK, Working
<1>4. SetUpOK' /\ CloseOK' /\ HandlerOK'
  BY <1>2 DEF Inv, TypeOK, SetUpOK, CloseOK, HandlerOK, Closing, Working
<1> QED
  BY <1>3, <1>4 DEF Inv

LEMMA NextPreserves == Inv /\ [Next]_vars => Inv'
<1>1. ASSUME Inv, UNCHANGED vars PROVE Inv'
  BY <1>1 DEF vars, Inv, TypeOK, SetUpOK, CloseOK, HandlerOK, Closing, Working
<1> QED
  BY <1>1, SetUpPreserves, CopyPreserves, DonePreserves, LeavePreserves, ClosePreserves,
     HandlerReturnsPreserves
  DEF Next, Exit, LockClose

-----------------------------------------------------------------------------
(* What every reachable state of a session satisfies.                      *)
THEOREM SessionInvariant == Spec => []Inv
<1> QED
  BY InitInv, NextPreserves, PTL DEF Spec

(* The variables keep their types, and the wait group counts the workers   *)
(* that have not called Done.                                              *)
THEOREM SessionTypeCorrect == Spec => []TypeOK
<1>1. Inv => TypeOK
  BY DEF Inv
<1> QED
  BY <1>1, SessionInvariant, PTL

(* When the handler returns nobody uses the session any more, the          *)
(* websocket is closed, and a stream that is not given back yet has a      *)
(* worker that is about to (streamhandler.go:94-134, 136-152, 180-199).    *)
THEOREM NoWorkAfterReturnCorrect == Spec => []NoWorkAfterReturn
<1>1. Inv => NoWorkAfterReturn
  <2> SUFFICES ASSUME Inv, handler = "returned", ~streamClosed,
                      \A w \in Workers : pc[w] \notin LateClose
               PROVE  FALSE
    BY DEF Inv, HandlerOK, NoWorkAfterReturn
  <2>1. \A w \in Workers : pc[w] = "end"
    BY DEF Inv, TypeOK, HandlerOK, Working, LateClose
  <2>2. isClose
    BY <2>1 DEF Inv, CloseOK, Workers
  <2>3. closeLock = "none"
    BY <2>1 DEF Inv, TypeOK, CloseOK, Closing
  <2> QED
    BY <2>2, <2>3 DEF Inv, CloseOK
<1> QED
  BY <1>1, SessionInvariant, PTL

(* One worker closes the session, and whoever skips that leaves it to one  *)
(* that finishes (streamhandler.go:136-152).                               *)
THEOREM CloseOnceCorrect == Spec => []CloseOnce
<1>1. Inv => CloseOnce
  <2> DEFINE Those == {w \in Workers : Closing(w)}
  <2> SUFFICES ASSUME Inv PROVE Cardinality(Those) <= 1
    BY DEF Inv, CloseOK, CloseOnce, Closing
  <2>1. CASE Those = {}
    BY <2>1, FS_EmptySet
  <2>2. CASE Those # {}
    <3>1. Those = {closeLock}
      BY <2>2 DEF Inv, CloseOK
    <3> QED
      BY <3>1, FS_Singleton
  <2> QED
    BY <2>1, <2>2
<1> QED
  BY <1>1, SessionInvariant, PTL
=============================================================================
