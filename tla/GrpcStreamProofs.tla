-------------------------- MODULE GrpcStreamProofs --------------------------
(***************************************************************************)
(* Proofs about GrpcStream, for any number of goroutines that close the    *)
(* stream: the mutex makes one of them run the close function, entirely.   *)
(***************************************************************************)
EXTENDS GrpcStream, TLAPS

(* The mutex is held through the close function and nowhere else.          *)
LockOK == \A a \in Actors : lock = a <=> pc[a] \in {"release", "closesend"}

(* How far the close function has come.                                    *)
CloseOK ==
  /\ ~closed => lock = NoActor /\ released = 0 /\ ~cancelled
  /\ \A a \in Actors : /\ pc[a] = "release" => closed /\ released = 0 /\ (cancelled <=> err)
                       /\ pc[a] = "closesend" => closed /\ released = 1 /\ (releasedErr <=> cancelled)

Inv == TypeOK /\ LockOK /\ CloseOK /\ ClosedIsReleased

-----------------------------------------------------------------------------
LEMMA InitInv == Init => Inv
<1> SUFFICES ASSUME Init PROVE Inv
  OBVIOUS
<1>1. TypeOK
  BY DEF Init, TypeOK
<1>2. LockOK /\ CloseOK /\ ClosedIsReleased
  BY ActorsDistinct DEF Init, LockOK, CloseOK, ClosedIsReleased
<1> QED
  BY <1>1, <1>2 DEF Inv

(* Steps outside of the close function.                                    *)
LEMMA OutsidePreserves ==
  ASSUME Inv,
         \/ RecvOk \/ RecvEnds \/ RecvFails \/ Clear \/ SendFails \/ SetError
         \/ \E a \in Actors : WantsClose(a) \/ CloseAgain(a)
  PROVE  Inv'
<1> USE DEF RecvOk, RecvEnds, RecvFails, Clear, SendFails, SetError, WantsClose, CloseAgain,
            AfterClose, Go
<1>1. TypeOK'
  BY DEF Inv, TypeOK, Actors
<1>2. LockOK'
  BY ActorsDistinct DEF Inv, TypeOK, LockOK, Actors
<1>3. CloseOK' /\ ClosedIsReleased'
  BY ActorsDistinct DEF Inv, TypeOK, LockOK, CloseOK, ClosedIsReleased, Actors
<1> QED
  BY <1>1, <1>2, <1>3 DEF Inv

(* The first Close takes the mutex, which nobody has, ...                  *)
LEMMA CloseFirstPreserves ==
  ASSUME Inv, NEW a \in Actors, CloseFirst(a)
  PROVE  Inv'
<1> USE DEF CloseFirst, MustClose, Cancels, Go
<1>1. TypeOK'
  BY DEF Inv, TypeOK
<1>2. LockOK'
  BY ActorsDistinct DEF Inv, TypeOK, LockOK
<1>3. CloseOK' /\ ClosedIsReleased'
  BY ActorsDistinct DEF Inv, TypeOK, LockOK, CloseOK, ClosedIsReleased
<1> QED
  BY <1>1, <1>2, <1>3 DEF Inv

(* ... gives the slot back, with the error that it cancelled for, ...      *)
LEMMA ReleaseConnPreserves ==
  ASSUME Inv, NEW a \in Actors, ReleaseConn(a)
  PROVE  Inv'
<1> USE DEF ReleaseConn, Go
<1>1. TypeOK'
  BY DEF Inv, TypeOK
<1>2. LockOK'
  BY ActorsDistinct DEF Inv, TypeOK, LockOK
<1>3. CloseOK' /\ ClosedIsReleased'
  BY ActorsDistinct DEF Inv, TypeOK, LockOK, CloseOK, ClosedIsReleased
<1> QED
  BY <1>1, <1>2, <1>3 DEF Inv

(* ... and half-closes the stream.                                         *)
LEMMA CloseSendPreserves ==
  ASSUME Inv, NEW a \in Actors, CloseSend(a)
  PROVE  Inv'
<1> USE DEF CloseSend, AfterClose, Go
<1>1. TypeOK'
  BY DEF Inv, TypeOK
<1>2. LockOK'
  BY ActorsDistinct DEF Inv, TypeOK, LockOK
<1>3. CloseOK' /\ ClosedIsReleased'
  BY ActorsDistinct DEF Inv, TypeOK, LockOK, CloseOK, ClosedIsReleased
<1> QED
  BY <1>1, <1>2, <1>3 DEF Inv

LEMMA NextPreserves == Inv /\ [Next]_vars => Inv'
<1>1. ASSUME Inv, UNCHANGED vars PROVE Inv'
  BY <1>1 DEF vars, Inv, TypeOK, LockOK, CloseOK, ClosedIsReleased
<1> QED
  BY <1>1, OutsidePreserves, CloseFirstPreserves, ReleaseConnPreserves, CloseSendPreserves
  DEF Next, CloseStep

-----------------------------------------------------------------------------
(* What every reachable state of the stream satisfies.                     *)
THEOREM StreamInvariant == Spec => []Inv
<1> QED
  BY InitInv, NextPreserves, PTL DEF Spec

(* The variables keep their types.                                         *)
THEOREM StreamTypeCorrect == Spec => []TypeOK
<1>1. Inv => TypeOK
  BY DEF Inv
<1> QED
  BY <1>1, StreamInvariant, PTL

(* Whoever closes the stream, and however many do, its slot is given back  *)
(* once, and with an error exactly if it was cancelled (stream.go:59-70).  *)
THEOREM ReleasedOnce == Spec => []ClosedIsReleased
<1>1. Inv => ClosedIsReleased
  BY DEF Inv
<1> QED
  BY <1>1, StreamInvariant, PTL
=============================================================================
