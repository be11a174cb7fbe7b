-------------------------- MODULE ClientCallsProofs --------------------------
(***************************************************************************)
(* Proofs about ClientCalls, for every set of calls and enough clients.    *)
(* The invariant has a part for the registry with its mutex, one for the   *)
(* two goroutines of a call with their channel, and one that counts        *)
(* clients against deletions.                                              *)
(***************************************************************************)
EXTENDS ClientCalls, FiniteSetTheorems, TLAPS

Before == {"start", "lock", "check", "store", "invoke"}
After  == {"release", "delete", "done"}

(* Between its second look and its Store a call has the registry for       *)
(* itself, but for deletions.                                              *)
MutexOK ==
  \A k \in Calls : /\ pc[k] \in {"check", "store"} => mutex = k
                   /\ pc[k] = "store" => registry = NoClient

(* What the caller's goroutine knows of the worker's.                      *)
WorkerOK ==
  \A k \in Calls :
    /\ pc[k] \in Before => worker[k] = "none"
    /\ worker[k] = "send" => answer[k] \in Answers
    /\ worker[k] # "done" => ch[k] = <<>>
    /\ ch[k] # <<>> => ch[k] = <<answer[k]>>
    /\ answer[k] = "ok" => k \in reply
    /\ worker[k] \in {"rpc", "send"} /\ pc[k] \in After => result[k] = "timeout"
    /\ pc[k] = "delete" => result[k] = "unavailable"

(* A client more than deletions only while the registry has one.           *)
CountOK ==
  Cardinality(made) <= IF registry = NoClient THEN Cardinality(Deleted) ELSE 1 + Cardinality(Deleted)

Inv == TypeOK /\ MutexOK /\ WorkerOK /\ OkHasReply /\ SlotExact /\ CountOK

-----------------------------------------------------------------------------
LEMMA Finite ==
  ASSUME TypeOK
  PROVE  /\ IsFiniteSet(made) /\ Cardinality(made) \in Nat
         /\ IsFiniteSet(Deleted) /\ Cardinality(Deleted) \in Nat
<1>1. made \in SUBSET Clients /\ Deleted \in SUBSET Calls
  BY DEF TypeOK, Deleted
<1> QED
  BY <1>1, FS_Subset, FS_CardinalityType, ClientsEnough

(* A call that has still to store finds a client that nobody has made.     *)
LEMMA NewClientIsNew ==
  ASSUME Inv, NEW k \in Calls, pc[k] = "store"
  PROVE  NewClient \in Clients \ made
<1>1. Deleted \in SUBSET Calls /\ Deleted # Calls
  BY DEF Deleted
<1>2. Cardinality(Deleted) < Cardinality(Calls)
  BY <1>1, FS_Subset, ClientsEnough, FS_CardinalityType
<1>3. Cardinality(made) <= Cardinality(Deleted)
  BY DEF Inv, MutexOK, CountOK
<1>4. Cardinality(made) < Cardinality(Clients)
  BY <1>2, <1>3, Finite, FS_CardinalityType, ClientsEnough DEF Inv
<1>5. made # Clients /\ made \subseteq Clients
  BY <1>4, FS_CardinalityType, ClientsEnough DEF Inv, TypeOK
<1> QED
  BY <1>5 DEF NewClient

LEMMA InitInv == Init => Inv
<1> SUFFICES ASSUME Init PROVE Inv
  OBVIOUS
<1>1. TypeOK
  BY DEF Init, TypeOK
<1>2. MutexOK /\ WorkerOK /\ OkHasReply /\ SlotExact
  BY DEF Init, MutexOK, WorkerOK, OkHasReply, SlotExact, After, Answers
<1>3. Deleted = {}
  BY DEF Init, Deleted
<1>4. CountOK
  BY <1>3, FS_EmptySet DEF Init, CountOK
<1> QED
  BY <1>1, <1>2, <1>4 DEF Inv

(* Steps after which the registry has what it had, and as many deletions.  *)
LEMMA CountKept ==
  ASSUME TypeOK, CountOK, UNCHANGED <<registry, made>>, Deleted' = Deleted
  PROVE  CountOK'
BY DEF CountOK

-----------------------------------------------------------------------------
(* GetConnClient *)

LEMMA LookupPreserves ==
  ASSUME Inv, NEW k \in Calls, LoadFast(k) \/ LoadMiss(k) \/ Lock(k) \/ LoadAgain(k) \/ CheckMiss(k)
  PROVE  Inv'
<1> USE DEF LoadFast, LoadMiss, Lock, LoadAgain, CheckMiss, Found, Go
<1>1. TypeOK'
  BY DEF Inv, TypeOK
<1>2. MutexOK'
  BY NoneDistinct DEF Inv, TypeOK, MutexOK
<1>3. WorkerOK' /\ OkHasReply' /\ SlotExact'
  BY DEF Inv, TypeOK, WorkerOK, OkHasReply, SlotExact, Before, After
<1>4. Deleted' = Deleted
  BY DEF Inv, TypeOK, Deleted
<1>5. CountOK'
  BY <1>4, CountKept DEF Inv
<1> QED
  BY <1>1, <1>2, <1>3, <1>5 DEF Inv

LEMMA StorePreserves ==
  ASSUME Inv, NEW k \in Calls, Store(k)
  PROVE  Inv'
<1> DEFINE c == NewClient
<1>1. c \in Clients \ made
  BY NewClientIsNew DEF Store, Go
<1> HIDE DEF c
<1>2. /\ pc[k] = "store" /\ pc' = [pc EXCEPT ![k] = "invoke"]
      /\ registry' = c /\ made' = made \cup {c} /\ client' = [client EXCEPT ![k] = c]
      /\ mutex' = NoCall /\ UNCHANGED <<worker, answer, ch, expired, slot, reply, result>>
  BY DEF Store, Go, c
<1>3. TypeOK'
  BY <1>1, <1>2 DEF Inv, TypeOK
<1>4. MutexOK'
  BY <1>2 DEF Inv, TypeOK, MutexOK
<1>5. WorkerOK' /\ OkHasReply' /\ SlotExact'
  BY <1>2 DEF Inv, TypeOK, WorkerOK, OkHasReply, SlotExact, Before, After
<1>6. Deleted' = Deleted
  BY <1>2 DEF Inv, TypeOK, Deleted
<1>7. Cardinality(made') = Cardinality(made) + 1
  BY <1>1, <1>2, Finite, FS_AddElement DEF Inv
<1>8. registry = NoClient /\ c # NoClient
  BY <1>1, <1>2, NoneDistinct DEF Inv, MutexOK
<1>9. CountOK'
  BY <1>2, <1>6, <1>7, <1>8, Finite DEF Inv, CountOK
<1> QED
  BY <1>3, <1>4, <1>5, <1>9 DEF Inv

-----------------------------------------------------------------------------
(* Invoke *)

(* The channel gives what the worker put in, once.                         *)
LEMMA Received ==
  ASSUME Inv, NEW k \in Calls, ch[k] # <<>>
  PROVE  /\ Head(ch[k]) = answer[k] /\ Tail(ch[k]) = <<>>
         /\ answer[k] \in Answers /\ worker[k] = "done"
<1>1. ch[k] = <<answer[k]>> /\ worker[k] = "done"
  BY DEF Inv, WorkerOK
<1>2. PICK a \in Answers : ch[k] = <<a>>
  BY DEF Inv, TypeOK
<1>3. answer[k] = a
  BY <1>1, <1>2
<1> QED
  BY <1>1, <1>2, <1>3

LEMMA SelectAnswerPreserves ==
  ASSUME Inv, NEW k \in Calls, SelectAnswer(k)
  PROVE  Inv'
<1> DEFINE a == answer[k]
<1>1. /\ ch[k] # <<>> /\ pc[k] = "select" /\ a \in Answers /\ worker[k] = "done"
      /\ a = "ok" => k \in reply
  BY Received DEF SelectAnswer, Go, Inv, WorkerOK
<1>2. /\ pc' = [pc EXCEPT ![k] = "release"] /\ result' = [result EXCEPT ![k] = a]
      /\ ch' = [ch EXCEPT ![k] = <<>>]
      /\ UNCHANGED <<registry, mutex, made, client, worker, answer, expired, slot, reply>>
  BY Received DEF SelectAnswer, Go
<1>3. TypeOK'
  BY <1>1, <1>2 DEF Inv, TypeOK, Answers
<1> HIDE DEF a
<1>4. MutexOK' /\ SlotExact'
  BY <1>1, <1>2 DEF Inv, TypeOK, MutexOK, SlotExact
<1>5. OkHasReply'
  BY <1>1, <1>2 DEF Inv, TypeOK, OkHasReply
<1>6. WorkerOK'
  BY <1>1, <1>2 DEF Inv, TypeOK, WorkerOK, Before, After
<1>7. Deleted' = Deleted
  BY <1>1, <1>2 DEF Inv, TypeOK, Deleted
<1>8. CountOK'
  BY <1>2, <1>7, CountKept DEF Inv
<1> QED
  BY <1>3, <1>4, <1>5, <1>6, <1>8 DEF Inv

LEMMA InvokePreserves ==
  ASSUME Inv, NEW k \in Calls, Start(k) \/ StartFails(k) \/ SelectTimeout(k) \/ Release(k)
  PROVE  Inv'
<1> USE DEF Start, StartFails, SelectTimeout, Release, AfterRelease, Go
<1>1. TypeOK'
  BY DEF Inv, TypeOK, Answers
<1>2. MutexOK'
  BY DEF Inv, TypeOK, MutexOK
<1>3. WorkerOK' /\ OkHasReply'
  BY DEF Inv, TypeOK, WorkerOK, OkHasReply, Before, After, Answers
<1>4. SlotExact'
  BY DEF Inv, TypeOK, SlotExact
<1>5. Deleted' = Deleted
  BY DEF Inv, TypeOK, Deleted
<1>6. CountOK'
  BY <1>5, CountKept DEF Inv
<1> QED
  BY <1>1, <1>2, <1>3, <1>4, <1>6 DEF Inv

(* The only step that counts a deletion.                                   *)
LEMMA DeletePreserves ==
  ASSUME Inv, NEW k \in Calls, Delete(k)
  PROVE  Inv'
<1> USE DEF Delete, Go
<1>1. TypeOK'
  BY DEF Inv, TypeOK
<1>2. MutexOK'
  BY DEF Inv, TypeOK, MutexOK
<1>3. WorkerOK' /\ OkHasReply' /\ SlotExact'
  BY DEF Inv, TypeOK, WorkerOK, OkHasReply, SlotExact, Before, After
<1>4. k \notin Deleted /\ Deleted' = Deleted \cup {k}
  BY DEF Inv, TypeOK, WorkerOK, Deleted
<1>5. Cardinality(Deleted') = Cardinality(Deleted) + 1
  BY <1>4, Finite, FS_AddElement DEF Inv
<1>6. CountOK'
  BY <1>5, Finite DEF Inv, CountOK
<1> QED
  BY <1>1, <1>2, <1>3, <1>6 DEF Inv

(* The worker, and the clock.                                              *)
LEMMA SendPreserves ==
  ASSUME Inv, NEW k \in Calls, Send(k)
  PROVE  Inv'
<1> DEFINE a == answer[k]
<1>1. worker[k] = "send" /\ ch[k] = <<>> /\ a \in Answers
  BY DEF Send, Inv, WorkerOK
<1>2. /\ ch' = [ch EXCEPT ![k] = <<a>>] /\ worker' = [worker EXCEPT ![k] = "done"]
      /\ UNCHANGED <<registry, mutex, made, client, pc, answer, expired, slot, reply, result>>
  BY <1>1 DEF Send
<1>3. TypeOK'
  BY <1>1, <1>2 DEF Inv, TypeOK
<1>4. MutexOK' /\ SlotExact' /\ OkHasReply'
  BY <1>2 DEF Inv, TypeOK, MutexOK, SlotExact, OkHasReply
<1>5. WorkerOK'
  BY <1>1, <1>2 DEF Inv, TypeOK, WorkerOK, Before, After
<1>6. Deleted' = Deleted
  BY <1>2 DEF Deleted
<1>7. CountOK'
  BY <1>2, <1>6, CountKept DEF Inv
<1> QED
  BY <1>3, <1>4, <1>5, <1>7 DEF Inv

LEMMA AnswerPreserves ==
  ASSUME Inv, NEW k \in Calls, Expire(k) \/ \E a \in Answers : Answer(k, a)
  PROVE  Inv'
<1> USE DEF Expire, Answer
<1>1. TypeOK'
  BY DEF Inv, TypeOK
<1>2. MutexOK' /\ SlotExact'
  BY DEF Inv, TypeOK, MutexOK, SlotExact
<1>3. WorkerOK' /\ OkHasReply'
  BY DEF Inv, TypeOK, WorkerOK, OkHasReply, Before, After, Answers
<1>4. Deleted' = Deleted
  BY DEF Deleted
<1>5. CountOK'
  BY <1>4, CountKept DEF Inv
<1> QED
  BY <1>1, <1>2, <1>3, <1>5 DEF Inv

LEMMA NextPreserves == Inv /\ [Next]_vars => Inv'
<1> SUFFICES ASSUME Inv, [Next]_vars PROVE Inv'
  OBVIOUS
<1>1. CASE UNCHANGED vars
  <2>1. Deleted' = Deleted
    BY <1>1 DEF vars, Deleted
  <2>2. CountOK'
    BY <1>1, <2>1, CountKept DEF vars, Inv
  <2> QED
    BY <1>1, <2>2 DEF vars, Inv, TypeOK, MutexOK, WorkerOK, OkHasReply, SlotExact
<1>2. CASE Next
  BY <1>2, LookupPreserves, StorePreserves, SelectAnswerPreserves, InvokePreserves, DeletePreserves,
     SendPreserves, AnswerPreserves
  DEF Next, CallStep
<1> QED
  BY <1>1, <1>2

-----------------------------------------------------------------------------
(* What every reachable state of the calls satisfies.                      *)
THEOREM CallsInvariant == Spec => []Inv
<1> QED
  BY InitInv, NextPreserves, PTL DEF Spec

(* The variables keep their types, and a call past its select has a result.*)
THEOREM CallsTypeCorrect == Spec => []TypeOK
<1>1. Inv => TypeOK
  BY DEF Inv
<1> QED
  BY <1>1, CallsInvariant, PTL

(* However many calls miss at the same time, each client beyond the first  *)
(* has a deletion to answer for (client.go:60-80).                         *)
THEOREM OneClientCorrect == Spec => []OneClientPerDeletion
<1>1. Inv => OneClientPerDeletion
  BY Finite DEF Inv, CountOK, OneClientPerDeletion
<1> QED
  BY <1>1, CallsInvariant, PTL

(* A slot is held exactly from getConn to release (client.go:138-158).     *)
THEOREM SlotCorrect == Spec => []SlotExact
<1>1. Inv => SlotExact
  BY DEF Inv
<1> QED
  BY <1>1, CallsInvariant, PTL

(* Success is never reported without a reply (client.go:162-193).          *)
THEOREM OkHasReplyCorrect == Spec => []OkHasReply
<1>1. Inv => OkHasReply
  BY DEF Inv
<1> QED
  BY <1>1, CallsInvariant, PTL

(* Nor is a reply written behind a call that returned, unless with Timeout *)
(* (client.go:162-193).                                                    *)
THEOREM NoLateReplyCorrect == Spec => NoLateReply
<1>1. ASSUME Inv, [Next]_vars
      PROVE  [\A k \in Calls : pc[k] = "done" /\ reply' # reply /\ k \in reply' \ reply
                                 => result[k] = "timeout"]_vars
  <2> SUFFICES ASSUME Next, NEW k \in Calls, pc[k] = "done", k \in reply' \ reply
               PROVE  result[k] = "timeout"
    BY <1>1
  <2>1. ASSUME NEW j \in Calls, CallStep(j) \/ Lock(j) \/ Send(j) \/ Expire(j) PROVE reply' = reply
    BY <2>1 DEF CallStep, Lock, Send, Expire, LoadFast, LoadMiss, LoadAgain, CheckMiss, Found, Store,
                Start, StartFails, SelectAnswer, SelectTimeout, Release, Delete
  <2>2. ASSUME NEW j \in Calls, NEW a \in Answers, Answer(j, a) PROVE j = k /\ worker[k] = "rpc"
    BY <2>2 DEF Answer
  <2>3. worker[k] = "rpc"
    BY <2>1, <2>2 DEF Next
  <2> QED
    BY <1>1, <2>3 DEF Inv, WorkerOK, After
<1> QED
  BY <1>1, CallsInvariant, PTL DEF Spec, NoLateReply
=============================================================================
