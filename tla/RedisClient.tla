----------------------------- MODULE RedisClient -----------------------------
(***************************************************************************)
(* The redis client of package redisx (src/redisx/redisx.go), used at the  *)
(* same time by goroutines of several processes: what a full key (code, or *)
(* code:sub) holds and whether redis will ever forget it.  The methods     *)
(* that only read are left out.  Most others are one command; SetHashJson  *)
(* and HIncrBy are two, of which the second may be lost: its error is      *)
(* dropped, or the process dies before it.                                 *)
(*                                                                         *)
(* A definition that comes right before one it resembles (ExpiresAgain     *)
(* before Expires) is the same code with a bug: no action uses it, and the *)
(* properties are known to notice when it takes the other's place.         *)
(***************************************************************************)
CONSTANTS RedisCallers, FullKeys, NoKey

ASSUME NoKeyIsNone == NoKey \notin FullKeys

VARIABLES
  held,      \* per key: "none", "string" or "hash"
  forever,   \* keys that hold something without a time to live
  toExpire,  \* per caller: the key it is between its two commands for
  unasked    \* hashes whose last writer lost its Expire, or sent none

redisVars == <<held, forever, toExpire, unasked>>

RedisInit ==
  /\ held = [k \in FullKeys |-> "none"] /\ forever = {}
  /\ toExpire = [c \in RedisCallers |-> NoKey] /\ unasked = {}

Free(c) == toExpire[c] = NoKey
Put(k, what) == held' = [held EXCEPT ![k] = what]
Lasts(k, yes) == forever' = IF yes THEN forever \cup {k} ELSE forever \ {k}

(* Set, SetJson: the value, and its time to live or none. *)
SetString(c, k, expire) ==
  /\ Free(c)
  /\ Put(k, "string") /\ Lasts(k, ~expire)
  /\ unasked' = unasked \ {k} /\ UNCHANGED toExpire

(* GetSet forgets the time to live. *)
GetSet(c, k) ==
  /\ Free(c) /\ held[k] # "hash"
  /\ Put(k, "string") /\ Lasts(k, TRUE)
  /\ UNCHANGED <<toExpire, unasked>>

(* IncrBy keeps it, and a new counter has none. *)
IncrBy(c, k) ==
  /\ Free(c) /\ held[k] # "hash"
  /\ Put(k, "string") /\ Lasts(k, held[k] = "none" \/ k \in forever)
  /\ UNCHANGED <<toExpire, unasked>>

Gone(k) == Put(k, "none") /\ Lasts(k, FALSE) /\ unasked' = unasked \ {k} /\ UNCHANGED toExpire

Del(c, k) == Free(c) /\ Gone(k)

(* SetHashJson and HIncrBy: HSet or HIncrBy, which redis refuses for a     *)
(* string, and if RedisKey.Expire > 0 and no error came back (one may come *)
(* although redis has done it)...                                          *)
HashWrite(c, k, expire) ==
  /\ Free(c) /\ held[k] # "string"
  /\ Put(k, "hash") /\ Lasts(k, held[k] = "none" \/ k \in forever)
  /\ IF expire THEN toExpire' = [toExpire EXCEPT ![c] = k] /\ UNCHANGED unasked
               ELSE unasked' = unasked \cup {k} /\ UNCHANGED toExpire

(* ...Expire, for whatever the key holds by now. *)
ExpiresAgain(k) == held[k] # "none" /\ k \notin forever
Expires(k)      == held[k] # "none"

Expire(c) ==
  /\ ~Free(c)
  /\ toExpire' = [toExpire EXCEPT ![c] = NoKey]
  /\ Lasts(toExpire[c], ~Expires(toExpire[c]) /\ toExpire[c] \in forever)
  /\ unasked' = unasked \ {toExpire[c]} /\ UNCHANGED held

(* Its error is not looked at. *)
ExpireLost(c) ==
  /\ ~Free(c)
  /\ toExpire' = [toExpire EXCEPT ![c] = NoKey]
  /\ unasked' = IF held[toExpire[c]] = "hash" THEN unasked \cup {toExpire[c]} ELSE unasked
  /\ UNCHANGED <<held, forever>>

TimeToLiveEnds(k) == held[k] # "none" /\ k \notin forever /\ Gone(k)

-----------------------------------------------------------------------------
RedisCall(c) ==
  \/ Expire(c) \/ ExpireLost(c)
  \/ \E k \in FullKeys : GetSet(c, k) \/ IncrBy(c, k) \/ Del(c, k)
  \/ \E k \in FullKeys, b \in BOOLEAN : SetString(c, k, b) \/ HashWrite(c, k, b)

RedisNext == \/ \E c \in RedisCallers : RedisCall(c)
             \/ \E k \in FullKeys : TimeToLiveEnds(k)

RedisSpec == RedisInit /\ [][RedisNext]_redisVars

(* Every variable is of its type; only what is there lasts. *)
RedisTypeOK ==
  /\ held \in [FullKeys -> {"none", "string", "hash"}]
  /\ forever \subseteq {k \in FullKeys : held[k] # "none"}
  /\ unasked \subseteq {k \in FullKeys : held[k] = "hash"}
  /\ toExpire \in [RedisCallers -> FullKeys \cup {NoKey}]

(* A hash that redis will keep for ever is one whose expiry was lost or    *)
(* never asked for, or one that a caller is about to give its expiry: no   *)
(* deletion, expiry or overwriting between the two commands of other       *)
(* callers makes another (redisx.go:129-136, 143-150).                     *)
HashesExpire ==
  \A k \in forever : held[k] = "hash" => k \in unasked \/ \E c \in RedisCallers : toExpire[c] = k
=============================================================================
