----------------------------- MODULE ClientCalls -----------------------------
(***************************************************************************)
(* Calls through the client registry of package grpcclient                 *)
(* (src/grpcclient/client.go): GetConnClient finds or makes the client of  *)
(* an address with a double-checked lock, Invoke runs the RPC in a worker  *)
(* goroutine and waits for its answer or for the deadline, and a call that *)
(* ends in ServiceUnavailable deletes the client of its address, without   *)
(* taking the mutex.                                                       *)
(*                                                                         *)
(* One address; the registry's entry of another one is independent.  The   *)
(* connection pool of a client is what ConnLease says: here a call has a   *)
(* slot of it or has not.  gRPC decides how and when an RPC ends, but ends *)
(* it once its context is done.                                            *)
(*                                                                         *)
(* A definition that comes right before one it resembles (ReleaseIfOk      *)
(* before Release) is the same code with a bug: no action uses it, and the *)
(* properties are known to notice when it takes the other's place.         *)
(***************************************************************************)
EXTENDS Naturals, FiniteSets, Sequences

CONSTANTS
  Calls,               \* concurrent calls to the address
  Clients,             \* identities of the clients that may be made
  NoClient, NoCall

ASSUME ClientsEnough == IsFiniteSet(Calls) /\ IsFiniteSet(Clients)
                        /\ Cardinality(Clients) >= Cardinality(Calls)
ASSUME NoneDistinct  == NoClient \notin Clients /\ NoCall \notin Calls

VARIABLES
  registry,  \* addr2conn's client of the address
  mutex,     \* holder of the package's mutex
  made,      \* clients made so far
  client,    \* per call: its client
  pc,        \* per call: where the caller's goroutine is
  worker,    \* per call: where the worker goroutine is
  answer,    \* per call: how the RPC ended, known to the worker
  ch,        \* per call: the channel between the two
  expired,   \* calls whose context is done
  slot,      \* calls that have a slot of their client's pool
  reply,     \* calls whose reply the RPC has filled in
  result     \* per call: what Invoke returns

vars == <<registry, mutex, made, client, pc, worker, answer, ch, expired, slot, reply, result>>

Answers == {"ok", "unavailable", "failed"}

(* make(chan error, 1) *)
ChanCapUnbuffered == 0
ChanCap           == 1

Init ==
  /\ registry = NoClient /\ mutex = NoCall /\ made = {}
  /\ client = [k \in Calls |-> NoClient]
  /\ pc     = [k \in Calls |-> "start"]
  /\ worker = [k \in Calls |-> "none"]
  /\ answer = [k \in Calls |-> "none"]
  /\ ch     = [k \in Calls |-> <<>>]
  /\ expired = {} /\ slot = {} /\ reply = {}
  /\ result = [k \in Calls |-> "none"]

Go(k, from, to) == pc[k] = from /\ pc' = [pc EXCEPT ![k] = to]

-----------------------------------------------------------------------------
(* GetConnClient *)

Found(k, from) ==
  /\ registry # NoClient
  /\ client' = [client EXCEPT ![k] = registry]
  /\ Go(k, from, "invoke")
  /\ UNCHANGED <<registry, made, worker, answer, ch, expired, slot, reply, result>>

LoadFast(k) == Found(k, "start") /\ UNCHANGED mutex

LoadMiss(k) ==
  /\ registry = NoClient
  /\ Go(k, "start", "lock")
  /\ UNCHANGED <<registry, mutex, made, client, worker, answer, ch, expired, slot, reply, result>>

Lock(k) ==
  /\ mutex = NoCall
  /\ mutex' = k
  /\ Go(k, "lock", "check")
  /\ UNCHANGED <<registry, made, client, worker, answer, ch, expired, slot, reply, result>>

(* The double check: somebody else made the client meanwhile. *)
LoadAgain(k) == Found(k, "check") /\ mutex' = NoCall

CheckMissUnchecked(k) ==
  /\ Go(k, "check", "store")
  /\ UNCHANGED <<registry, mutex, made, client, worker, answer, ch, expired, slot, reply, result>>

CheckMiss(k) ==
  /\ registry = NoClient
  /\ Go(k, "check", "store")
  /\ UNCHANGED <<registry, mutex, made, client, worker, answer, ch, expired, slot, reply, result>>

NewClient == CHOOSE c \in Clients : c \notin made

(* NewClient, Store and the deferred Unlock. *)
Store(k) ==
  /\ Go(k, "store", "invoke")
  /\ registry' = NewClient
  /\ made'     = made \cup {NewClient}
  /\ client'   = [client EXCEPT ![k] = NewClient]
  /\ mutex' = NoCall
  /\ UNCHANGED <<worker, answer, ch, expired, slot, reply, result>>

-----------------------------------------------------------------------------
(* Invoke: the caller's goroutine *)

(* getConn lends a slot and the worker starts. *)
Start(k) ==
  /\ Go(k, "invoke", "select")
  /\ slot'   = slot \cup {k}
  /\ worker' = [worker EXCEPT ![k] = "rpc"]
  /\ UNCHANGED <<registry, mutex, made, client, answer, ch, expired, reply, result>>

(* getConn could not dial: no release, no deletion. *)
StartFails(k) ==
  /\ Go(k, "invoke", "done")
  /\ result' = [result EXCEPT ![k] = "failed"]
  /\ UNCHANGED <<registry, mutex, made, client, worker, answer, ch, expired, slot, reply>>

(* The worker's answer wins the select... *)
SelectAnswer(k) ==
  /\ ch[k] # <<>>
  /\ Go(k, "select", "release")
  /\ result' = [result EXCEPT ![k] = Head(ch[k])]
  /\ ch'     = [ch EXCEPT ![k] = Tail(@)]
  /\ UNCHANGED <<registry, mutex, made, client, worker, answer, expired, slot, reply>>

(* ...or the deadline does, even if the answer is there. *)
SelectTimeoutSilent(k) ==
  /\ k \in expired
  /\ Go(k, "select", "release")
  /\ UNCHANGED <<registry, mutex, made, client, worker, answer, ch, expired, slot, reply, result>>

SelectTimeout(k) ==
  /\ k \in expired
  /\ Go(k, "select", "release")
  /\ result' = [result EXCEPT ![k] = "timeout"]
  /\ UNCHANGED <<registry, mutex, made, client, worker, answer, ch, expired, slot, reply>>

(* The deferred function: release, then the look at the error. *)
AfterRelease(k) == IF result[k] = "unavailable" THEN "delete" ELSE "done"

ReleaseIfOk(k) ==
  /\ Go(k, "release", AfterRelease(k))
  /\ slot' = IF result[k] = "ok" THEN slot \ {k} ELSE slot
  /\ UNCHANGED <<registry, mutex, made, client, worker, answer, ch, expired, reply, result>>

Release(k) ==
  /\ Go(k, "release", AfterRelease(k))
  /\ slot' = slot \ {k}
  /\ UNCHANGED <<registry, mutex, made, client, worker, answer, ch, expired, reply, result>>

(* DelConnClient: whatever client the address has now. *)
Delete(k) ==
  /\ Go(k, "delete", "done")
  /\ registry' = NoClient
  /\ UNCHANGED <<mutex, made, client, worker, answer, ch, expired, slot, reply, result>>

-----------------------------------------------------------------------------
(* Invoke: the worker *)

(* The RPC ends with answer a; gRPC fills in the reply before it says ok. *)
AnswerElsewhere(k, a) ==
  /\ worker[k] = "rpc"
  /\ worker' = [worker EXCEPT ![k] = "send"]
  /\ answer' = [answer EXCEPT ![k] = a]
  /\ UNCHANGED <<registry, mutex, made, client, pc, ch, expired, slot, reply, result>>

Answer(k, a) ==
  /\ worker[k] = "rpc"
  /\ worker' = [worker EXCEPT ![k] = "send"]
  /\ answer' = [answer EXCEPT ![k] = a]
  /\ reply'  = IF a = "ok" THEN reply \cup {k} ELSE reply
  /\ UNCHANGED <<registry, mutex, made, client, pc, ch, expired, slot, result>>

Send(k) ==
  /\ worker[k] = "send" /\ Len(ch[k]) < ChanCap
  /\ ch'     = [ch EXCEPT ![k] = Append(@, answer[k])]
  /\ worker' = [worker EXCEPT ![k] = "done"]
  /\ UNCHANGED <<registry, mutex, made, client, pc, answer, expired, slot, reply, result>>

(* The deadline passes: from the caller's context, the timeout header or   *)
(* the client's default, every call has one.  Before Invoke looks at its   *)
(* context the deadline makes no difference.                               *)
Expire(k) ==
  /\ k \notin expired /\ pc[k] \notin {"start", "lock", "check", "store"}
  /\ expired' = expired \cup {k}
  /\ UNCHANGED <<registry, mutex, made, client, pc, worker, answer, ch, slot, reply, result>>

-----------------------------------------------------------------------------
CallStep(k) ==
  \/ LoadFast(k) \/ LoadMiss(k) \/ LoadAgain(k) \/ CheckMiss(k) \/ Store(k)
  \/ Start(k) \/ StartFails(k) \/ SelectAnswer(k) \/ SelectTimeout(k)
  \/ Release(k) \/ Delete(k)

Next == \E k \in Calls : \/ CallStep(k) \/ Lock(k) \/ Send(k) \/ Expire(k)
                         \/ \E a \in Answers : Answer(k, a)

Spec == Init /\ [][Next]_vars

(* The goroutines run, the mutex is handed over, deadlines pass, and gRPC  *)
(* ends an RPC whose context is done; before that it need not.             *)
Fairness ==
  \A k \in Calls :
    /\ WF_vars(CallStep(k)) /\ SF_vars(Lock(k)) /\ WF_vars(Send(k)) /\ WF_vars(Expire(k))
    /\ WF_vars(k \in expired /\ \E a \in Answers : Answer(k, a))

FairSpec == Spec /\ Fairness

-----------------------------------------------------------------------------
(* Every variable is of its type; a call that is past its select has a     *)
(* result.                                                                 *)
TypeOK ==
  /\ registry \in Clients \cup {NoClient} /\ mutex \in Calls \cup {NoCall}
  /\ made \subseteq Clients
  /\ client \in [Calls -> Clients \cup {NoClient}]
  /\ pc \in [Calls -> {"start", "lock", "check", "store", "invoke", "select",
                       "release", "delete", "done"}]
  /\ worker \in [Calls -> {"none", "rpc", "send", "done"}]
  /\ answer \in [Calls -> Answers \cup {"none"}]
  /\ \A k \in Calls : ch[k] \in {<<>>} \cup {<<a>> : a \in Answers}
  /\ expired \subseteq Calls /\ slot \subseteq Calls /\ reply \subseteq Calls
  /\ result \in [Calls -> Answers \cup {"timeout", "none"}]
  /\ \A k \in Calls : pc[k] \in {"release", "delete", "done"} => result[k] # "none"

(* The calls that have deleted the address' client. *)
Deleted == {k \in Calls : pc[k] = "done" /\ result[k] = "unavailable"}

(* A client, with its connections, is made only if there was none: the     *)
(* first time and after a deletion.  Two calls that miss at the same time  *)
(* do not make two (client.go:65-80).                                      *)
OneClientPerDeletion == Cardinality(made) <= 1 + Cardinality(Deleted)

(* Whatever the race between the answer and the deadline: a call that      *)
(* returned ok has its reply, and the reply of a call that returned is     *)
(* still being written only if it returned Timeout (client.go:162-193).    *)
OkHasReply == \A k \in Calls : result[k] = "ok" => k \in reply
NoLateReply ==
  [][\A k \in Calls : pc[k] = "done" /\ reply' # reply /\ k \in reply' \ reply
                        => result[k] = "timeout"]_vars

(* A call has its slot exactly while it waits, on every path through       *)
(* Invoke: what is lent is given back, once.                               *)
SlotExact == \A k \in Calls : k \in slot <=> pc[k] \in {"select", "release"}

(* The channel's buffer lets the worker go although nobody will receive:   *)
(* every call returns and neither goroutine of a call is left behind       *)
(* (client.go:160).                                                        *)
GoroutinesEnd == <>(\A k \in Calls : pc[k] = "done" /\ worker[k] \in {"none", "done"})
=============================================================================
