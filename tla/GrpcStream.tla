----------------------------- MODULE GrpcStream -----------------------------
(***************************************************************************)
(* A client stream of package grpcclient (src/grpcclient/stream.go and the *)
(* close function that client.go:258-265 gives it), used at once by a      *)
(* goroutine that receives, one that sends, and any number that close it:  *)
(* that is how gate's StreamHandler uses it.                               *)
(*                                                                         *)
(* The connection's slot in the pool must be given back once, by whichever *)
(* Close is the first, with the error that is on record at that time.      *)
(* RecvMsg, SendMsg and CloseSend are gRPC's; they may fail at any time,   *)
(* and fail once the context is cancelled.                                 *)
(*                                                                         *)
(* A definition that comes right before one it resembles (RecvFailsOpen    *)
(* before RecvFails) is the same code with a bug: no action uses it, and   *)
(* the properties are known to notice when it takes the other's place.     *)
(***************************************************************************)
EXTENDS Naturals

CONSTANTS Receiver, Sender, Closers, NoActor

Actors == {Receiver, Sender} \cup Closers

ASSUME ActorsDistinct == Receiver # Sender /\ Receiver \notin Closers
                         /\ Sender \notin Closers /\ NoActor \notin Actors

VARIABLES
  closed,      \* grpcStream.closed
  err,         \* grpcStream.err: an error is on record
  lock,        \* holder of the stream's mutex
  cancelled,   \* the stream's context
  released,    \* how often the slot was given back
  releasedErr, \* the error it was given back with
  halfClosed,  \* CloseSend was called
  pc,          \* per actor: where it is
  sawErr       \* actors whose RecvMsg or SendMsg has failed

vars == <<closed, err, lock, cancelled, released, releasedErr, halfClosed, pc, sawErr>>

Init ==
  /\ closed = FALSE /\ err = FALSE /\ lock = NoActor
  /\ cancelled = FALSE /\ released = 0 /\ releasedErr = FALSE /\ halfClosed = FALSE
  /\ pc = [a \in Actors |-> "run"]
  /\ sawErr = {}

Go(a, from, to) == pc[a] = from /\ pc' = [pc EXCEPT ![a] = to]

-----------------------------------------------------------------------------
(* Recv: the deferred setError has its argument from before RecvMsg.       *)

RecvOk ==
  /\ ~cancelled
  /\ Go(Receiver, "run", "clear")
  /\ UNCHANGED <<closed, err, lock, cancelled, released, releasedErr, halfClosed, sawErr>>

(* The server ended the stream: RecvMsg returns io.EOF, Recv closes. *)
RecvEnds ==
  /\ ~cancelled
  /\ Go(Receiver, "run", "close")
  /\ UNCHANGED <<closed, err, lock, cancelled, released, releasedErr, halfClosed, sawErr>>

(* Any other error of RecvMsg: Recv closes too. *)
RecvFailsOpen ==
  /\ Go(Receiver, "run", "clearlast")
  /\ sawErr' = sawErr \cup {Receiver}
  /\ UNCHANGED <<closed, err, lock, cancelled, released, releasedErr, halfClosed>>

RecvFails ==
  /\ Go(Receiver, "run", "close")
  /\ sawErr' = sawErr \cup {Receiver}
  /\ UNCHANGED <<closed, err, lock, cancelled, released, releasedErr, halfClosed>>

(* setError(nil), whatever RecvMsg returned. *)
Clear ==
  /\ lock = NoActor
  /\ Go(Receiver, "clear", "run") \/ Go(Receiver, "clearlast", "done")
  /\ err' = FALSE
  /\ UNCHANGED <<closed, lock, cancelled, released, releasedErr, halfClosed, sawErr>>

-----------------------------------------------------------------------------
(* Send *)

SendFails ==
  /\ Go(Sender, "run", "set")
  /\ sawErr' = sawErr \cup {Sender}
  /\ UNCHANGED <<closed, err, lock, cancelled, released, releasedErr, halfClosed>>

(* setError(err), and no more: Send does not close the stream. *)
SetError ==
  /\ lock = NoActor
  /\ Go(Sender, "set", "run")
  /\ err' = TRUE
  /\ UNCHANGED <<closed, lock, cancelled, released, releasedErr, halfClosed, sawErr>>

(* The stream's user closes it, in the goroutine that sends or another. *)
WantsClose(a) ==
  /\ a \in Closers \cup {Sender}
  /\ Go(a, "run", "close")
  /\ UNCHANGED <<closed, err, lock, cancelled, released, releasedErr, halfClosed, sawErr>>

-----------------------------------------------------------------------------
(* Close, with the mutex held from its first line to its last *)

AfterClose(a) == IF a = Receiver THEN "clearlast" ELSE "done"

(* Somebody closed it before. *)
CloseAgainLocked(a) ==
  /\ lock = NoActor /\ closed
  /\ lock' = a
  /\ Go(a, "close", AfterClose(a))
  /\ UNCHANGED <<closed, err, cancelled, released, releasedErr, halfClosed, sawErr>>
CloseAgain(a) ==
  /\ lock = NoActor /\ closed
  /\ Go(a, "close", AfterClose(a))
  /\ UNCHANGED <<closed, err, lock, cancelled, released, releasedErr, halfClosed, sawErr>>

MustCloseAlways == TRUE
MustClose       == ~closed

CancelsNever == FALSE
Cancels      == err

CloseFirst(a) ==
  /\ lock = NoActor /\ MustClose
  /\ Go(a, "close", "release")
  /\ lock'   = a
  /\ closed' = TRUE
  /\ cancelled' = (cancelled \/ Cancels)
  /\ UNCHANGED <<err, released, releasedErr, halfClosed, sawErr>>

(* The pool's release, under the stream's mutex. *)
ReleaseConn(a) ==
  /\ Go(a, "release", "closesend")
  /\ released'    = released + 1
  /\ releasedErr' = err
  /\ UNCHANGED <<closed, err, lock, cancelled, halfClosed, sawErr>>

CloseSend(a) ==
  /\ Go(a, "closesend", AfterClose(a))
  /\ halfClosed' = TRUE
  /\ lock' = NoActor
  /\ UNCHANGED <<closed, err, cancelled, released, releasedErr, sawErr>>

CloseStep(a) == CloseAgain(a) \/ CloseFirst(a)

-----------------------------------------------------------------------------
Next ==
  \/ RecvOk \/ RecvEnds \/ RecvFails \/ Clear \/ SendFails \/ SetError
  \/ \E a \in Actors : WantsClose(a) \/ CloseStep(a) \/ ReleaseConn(a) \/ CloseSend(a)

Spec == Init /\ [][Next]_vars

(* The mutex is handed over; a running goroutine runs; RecvMsg fails once  *)
(* the context is cancelled.                                               *)
Fairness ==
  /\ SF_vars(Clear) /\ SF_vars(SetError)
  /\ WF_vars(cancelled /\ RecvFails)
  /\ \A a \in Actors : SF_vars(CloseStep(a)) /\ WF_vars(ReleaseConn(a)) /\ WF_vars(CloseSend(a))

FairSpec == Spec /\ Fairness

-----------------------------------------------------------------------------
(* Every variable is of its type.                                          *)
TypeOK ==
  /\ closed \in BOOLEAN /\ err \in BOOLEAN /\ cancelled \in BOOLEAN
  /\ releasedErr \in BOOLEAN /\ halfClosed \in BOOLEAN
  /\ lock \in Actors \cup {NoActor} /\ released \in Nat
  /\ pc \in [Actors -> {"run", "clear", "clearlast", "set", "close", "release", "closesend", "done"}]
  /\ sawErr \subseteq {Receiver, Sender}

(* However many goroutines close the stream at the same time, its slot is  *)
(* given back once, and the close function runs entirely or not at all: a  *)
(* closed stream that nobody is closing has given the slot back and is     *)
(* half-closed; the pool hears of an error if and only if the context was  *)
(* cancelled with it (stream.go:59-70, client.go:258-265).                 *)
ClosedIsReleased ==
  /\ released <= 1
  /\ closed /\ lock = NoActor => released = 1 /\ halfClosed /\ (releasedErr <=> cancelled)

(* A stream whose Recv found the end or an error gives its slot back,      *)
(* although its user never closes it, and so does one that anybody closes  *)
(* at any time; a Send that failed leaves that to the user                 *)
(* (stream.go:26-45,59-70).  And every Close returns: nobody waits for     *)
(* ever for the mutex that Close, Recv and Send share.                     *)
SlotReturned ==
  Receiver \in sawErr \/ (\E a \in Actors : pc[a] = "close") ~> released = 1
CloseReturns == \A a \in Actors : pc[a] = "close" ~> pc[a] \notin {"close", "release", "closesend"}

(* grpcx/model.go:29 says of Error that it returns the stream's error: it  *)
(* has one after a Recv that failed with an error other than EOF.          *)
ErrorReported == pc[Receiver] = "done" /\ Receiver \in sawErr => err
=============================================================================
