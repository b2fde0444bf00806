----------------------------- MODULE ResponseCache -----------------------------
(* api/cache.py: the response cache all workers share in Redis. A value lives    *)
(* under its key until its TTL is over; a sorted set scores each key with the    *)
(* time of its last use, for LRU eviction. The two are separate Redis keys.      *)
(*                                                                               *)
(* A client is one call of get, put, invalidate or clear in some worker. Each    *)
(* action is one command, or one MULTI block, inside Redis, with the client's    *)
(* code up to the next await; other clients' commands fall in between.           *)
EXTENDS Integers, FiniteSets

CONSTANTS Keys,
          Clients,
          MaxSize,      \* max_size
          MaxClock,     \* bound: readings of time.time()
          Maintenance,  \* does anyone call invalidate and clear? The server does not
          Crashes       \* may a worker die between two commands?

ASSUME KeysAssumption == IsFiniteSet(Keys)
ASSUME MaxSizeAssumption == MaxSize \in Nat \ {0}
ASSUME MaxClockAssumption == MaxClock \in Nat
ASSUME MaintenanceAssumption == Maintenance \in BOOLEAN
ASSUME CrashesAssumption == Crashes \in BOOLEAN

VARIABLES live,     \* keys whose value Redis still has
          score,    \* the sorted set: key -> score, 0 if not a member
          clock,    \* the last reading of time.time(); readings differ
          local     \* what each client is about to send

vars == <<live, score, clock, local>>

Idle == [at |-> "idle"]

TypeOK ==
  /\ live \subseteq Keys
  /\ score \in [Keys -> 0..MaxClock]
  /\ clock \in 0..MaxClock
  /\ local \in [Clients ->
        {Idle, [at |-> "count"], [at |-> "unset"]}
          \cup [at : {"touch", "store"}, key : Keys, stamp : 1..MaxClock]
          \cup [at : {"hit", "forget"}, key : Keys]
          \cup [at : {"range"}, overflow : 1..Cardinality(Keys)]
          \cup [at : {"drop", "untrack", "wipe"}, keys : SUBSET Keys]]

Tracked == {k \in Keys : score[k] > 0}

Init ==
  /\ live = {}
  /\ score = [k \in Keys |-> 0]
  /\ clock = 0
  /\ local = [c \in Clients |-> Idle]

At(c, stage) == local[c].at = stage
Then(c, next) == local' = [local EXCEPT ![c] = next]

(* Reads the wall clock and goes on to a command that uses the reading.          *)
Stamped(c, stage, k) ==
  /\ clock < MaxClock
  /\ clock' = clock + 1
  /\ Then(c, [at |-> stage, key |-> k, stamp |-> clock'])

--------------------------------------------------------------------------------
(* get: GET, and on a hit the clock is read, when the reply is there, and ZADD is *)
(* sent. A miss changes nothing and has no action.                               *)

GetHit(c, k) ==
  /\ At(c, "idle")
  /\ k \in live
  /\ Then(c, [at |-> "hit", key |-> k])
  /\ UNCHANGED <<live, score, clock>>

Refresh(c) ==
  /\ At(c, "hit")
  /\ Stamped(c, "touch", local[c].key)
  /\ UNCHANGED <<live, score>>

\* Slip for the mutation runs: time.monotonic(), which reads far lower.
TouchMonotonic(c) ==
  /\ At(c, "touch")
  /\ score' = [score EXCEPT ![local[c].key] = 1]
  /\ Then(c, Idle)
  /\ UNCHANGED <<live, clock>>

Touch(c) ==
  /\ At(c, "touch")
  /\ score' = [score EXCEPT ![local[c].key] = local[c].stamp]
  /\ Then(c, Idle)
  /\ UNCHANGED <<live, clock>>

(* put: the score is read first, SET EX and ZADD run in one MULTI block, then    *)
(* the eviction. int(ttl_seconds) is taken to be 1 or more: Redis refuses EX 0.  *)

Put(c, k) ==
  /\ At(c, "idle")
  /\ Stamped(c, "store", k)
  /\ UNCHANGED <<live, score>>

\* Slip for the mutation runs: SET EX alone, the ZADD forgotten.
StoreWithoutScore(c) ==
  /\ At(c, "store")
  /\ live' = live \cup {local[c].key}
  /\ Then(c, [at |-> "count"])
  /\ UNCHANGED <<score, clock>>

Store(c) ==
  /\ At(c, "store")
  /\ score' = [score EXCEPT ![local[c].key] = local[c].stamp]
  /\ live' = live \cup {local[c].key}
  /\ Then(c, [at |-> "count"])
  /\ UNCHANGED clock

(* _evict_if_needed: ZCARD, ZRANGE, DEL and ZREM, one at a time.                 *)

\* Slips for the mutation runs: the early return dropped, and off by one.
CountWithoutReturn(c) ==
  /\ At(c, "count")
  /\ Then(c, [at |-> "range", overflow |-> Cardinality(Tracked) - MaxSize])
  /\ UNCHANGED <<live, score, clock>>

CountOffByOne(c) ==
  /\ At(c, "count")
  /\ LET n == Cardinality(Tracked) IN
       Then(c, IF n <= MaxSize + 1 THEN Idle
               ELSE [at |-> "range", overflow |-> n - MaxSize])
  /\ UNCHANGED <<live, score, clock>>

Count(c) ==
  /\ At(c, "count")
  /\ LET n == Cardinality(Tracked) IN
       Then(c, IF n <= MaxSize THEN Idle
               ELSE [at |-> "range", overflow |-> n - MaxSize])
  /\ UNCHANGED <<live, score, clock>>

\* Slip for the mutation runs: the inclusive end of ZRANGE counted as exclusive.
OldestButOne(n) ==
  {k \in Tracked : Cardinality({j \in Tracked : score[j] < score[k]}) < n - 1}

\* Slip for the mutation runs: ZREVRANGE.
Newest(n) ==
  {k \in Tracked : Cardinality({j \in Tracked : score[j] > score[k]}) < n}

(* The members with the n lowest scores, or all if there are fewer.              *)
Oldest(n) ==
  {k \in Tracked : Cardinality({j \in Tracked : score[j] < score[k]}) < n}

ListOldest(c) ==
  /\ At(c, "range")
  /\ LET victims == Oldest(local[c].overflow) IN
       Then(c, IF victims = {} THEN Idle ELSE [at |-> "drop", keys |-> victims])
  /\ UNCHANGED <<live, score, clock>>

Drop(c) ==
  /\ At(c, "drop")
  /\ live' = live \ local[c].keys
  /\ Then(c, [at |-> "untrack", keys |-> local[c].keys])
  /\ UNCHANGED <<score, clock>>

Untrack(c) ==
  /\ At(c, "untrack")
  /\ score' = [k \in Keys |-> IF k \in local[c].keys THEN 0 ELSE score[k]]
  /\ Then(c, Idle)
  /\ UNCHANGED <<live, clock>>

(* invalidate: DEL, then ZREM.                                                   *)

Invalidate(c, k) ==
  /\ Maintenance
  /\ At(c, "idle")
  /\ live' = live \ {k}
  /\ Then(c, [at |-> "forget", key |-> k])
  /\ UNCHANGED <<score, clock>>

Forget(c) ==
  /\ At(c, "forget")
  /\ score' = [score EXCEPT ![local[c].key] = 0]
  /\ Then(c, Idle)
  /\ UNCHANGED <<live, clock>>

(* clear: ZRANGE, DEL of the members it listed, DEL of the set.                  *)

Clear(c) ==
  /\ Maintenance
  /\ At(c, "idle")
  /\ Then(c, IF Tracked = {} THEN [at |-> "unset"] ELSE [at |-> "wipe", keys |-> Tracked])
  /\ UNCHANGED <<live, score, clock>>

Wipe(c) ==
  /\ At(c, "wipe")
  /\ live' = live \ local[c].keys
  /\ Then(c, [at |-> "unset"])
  /\ UNCHANGED <<score, clock>>

Unset(c) ==
  /\ At(c, "unset")
  /\ score' = [k \in Keys |-> 0]
  /\ Then(c, Idle)
  /\ UNCHANGED <<live, clock>>

(* A value's TTL is over. Nothing removes its member from the sorted set.        *)
Expire(k) ==
  /\ k \in live
  /\ live' = live \ {k}
  /\ UNCHANGED <<score, clock, local>>

(* The client's worker dies, or Redis refuses the command: the rest of the call  *)
(* is never sent.                                                                *)
Abandon(c) ==
  /\ Crashes
  /\ local[c] # Idle
  /\ Then(c, Idle)
  /\ UNCHANGED <<live, score, clock>>

Step(c) ==
  \/ \E k \in Keys : GetHit(c, k) \/ Put(c, k) \/ Invalidate(c, k)
  \/ Refresh(c) \/ Touch(c) \/ Store(c) \/ Count(c) \/ ListOldest(c) \/ Drop(c) \/ Untrack(c)
  \/ Forget(c) \/ Clear(c) \/ Wipe(c) \/ Unset(c)

Next ==
  \/ \E c \in Clients : Step(c) \/ Abandon(c)
  \/ \E k \in Keys : Expire(k)

Spec == Init /\ [][Next]_vars

--------------------------------------------------------------------------------

Settled == \A c \in Clients : local[c] = Idle

(* When no call is in progress the sorted set is within max_size, the maximum    *)
(* number of entries of line 46, also after values have expired, whose members   *)
(* nobody removes. Calls that overlap break it.                                  *)
SettledWithinMaxSize == Settled => Cardinality(Tracked) <= MaxSize

================================================================================
