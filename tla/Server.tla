--------------------------------- MODULE Server ---------------------------------
(* api/server.py: the requests of one worker, from admission to response, and    *)
(* the pool, cache, throttler and fallback router they share.                     *)
(*                                                                                *)
(* The pool is BackendPool itself: a request's steps contain the pool's. Of the   *)
(* coalescer (module Coalescer) a request sees whether it produces, as claimant   *)
(* or after giving up waiting, or fails with what the claimant published. A       *)
(* claimant always fails: what the server's producers return is a BackendResult,  *)
(* which json.dumps refuses. Of the cache (ResponseCache) one key is kept, which  *)
(* all requests ask for, and of the throttler whether it says REJECT: QUEUE is    *)
(* treated as ACCEPT.                                                             *)
EXTENDS CircuitBreaker, FiniteSets

CONSTANTS N, MaxCalls,   \* of the pool
          Requests,
          Kinds,         \* subset of {"completion", "chat", "stream"}
          OtherModel,    \* is the fallback model another than the requests'?
          Faults         \* subset of {"disconnect", "redis"}

ASSUME BackendsAssumption == N \in Nat \ {0}
ASSUME KindsAssumption == Kinds \subseteq {"completion", "chat", "stream"}
ASSUME MaxCallsSuffices ==
  IsFiniteSet(Requests) /\ MaxCalls \in Nat \ {0} /\ MaxCalls >= Cardinality(Requests)

VARIABLES breaker, cursor, inflight,   \* the pool
          pc,         \* where each request stands
          kind,
          target,     \* the backend of its call, N for none
          claimant,   \* does it hold the coalescing claim?
          active,     \* _active_requests of the throttler
          cached,     \* does the cache hold the key?
          rejecting   \* does check() say REJECT?

Pool == INSTANCE BackendPool

pool == <<breaker, cursor, inflight>>
shared == <<active, cached, rejecting>>
vars == <<pool, pc, kind, target, claimant, shared>>

Producing == {"calling", "fallback", "calling_fallback", "fallback_lookup"}
Plain == Producing \cup {"lookup", "coalesce", "publish", "publish_503"}
Streaming == {"unstarted", "stream_lookup", "streaming", "stream_store"}
Calling == {"calling", "calling_fallback", "streaming"}
Ended == {"rejected", "ok", "failed", "unavailable", "timeout", "gone", "leaked"}

(* Those between increment_active and decrement_active.                           *)
Counted == Plain \cup Streaming

TypeOK ==
  /\ Pool!TypeOK
  /\ pc \in [Requests -> {"new", "store"} \cup Counted \cup Ended]
  /\ kind \in [Requests -> {"completion", "chat", "stream"}]
  /\ target \in [Requests -> 0..N]
  /\ claimant \in [Requests -> BOOLEAN]
  /\ active \in Nat
  /\ cached \in BOOLEAN /\ rejecting \in BOOLEAN

Init ==
  /\ Pool!Init
  /\ pc = [r \in Requests |-> "new"]
  /\ kind \in [Requests -> Kinds]
  /\ target = [r \in Requests |-> N]
  /\ claimant = [r \in Requests |-> FALSE]
  /\ active = 0
  /\ cached = FALSE /\ rejecting = FALSE

Goto(r, to) == pc' = [pc EXCEPT ![r] = to]
IncrementActive == active' = active + 1 /\ UNCHANGED <<cached, rejecting>>
DecrementActive ==
  /\ active' = IF active > 0 THEN active - 1 ELSE 0
  /\ UNCHANGED <<cached, rejecting>>

--------------------------------------------------------------------------------
(* Admission: _check_admission comes before the look into the cache.              *)

Reject(r) ==
  /\ pc[r] = "new" /\ rejecting
  /\ Goto(r, "rejected")
  /\ UNCHANGED <<pool, kind, target, claimant, shared>>

(* A stream is counted before its generator runs.                                 *)
Admit(r) ==
  /\ pc[r] = "new" /\ ~rejecting
  /\ Goto(r, IF kind[r] = "stream" THEN "unstarted" ELSE "lookup")
  /\ IncrementActive
  /\ UNCHANGED <<pool, kind, target, claimant>>

(* The backend the request calls: get_healthy_backend.                            *)
Call(r, from, to) ==
  /\ pc[r] = from
  /\ Goto(r, to)
  /\ \E b \in Pool!Backends :
       Pool!GetHealthyBackend(b) /\ target' = [target EXCEPT ![r] = b]

NoHealthyBackend == \A b \in Pool!Backends : ~IsAvailable(breaker[b])

--------------------------------------------------------------------------------
(* Completions and chat completions.                                              *)

CacheHit(r) ==
  /\ pc[r] = "lookup" /\ cached
  /\ Goto(r, "ok")
  /\ DecrementActive
  /\ UNCHANGED <<pool, kind, target, claimant>>

CacheMiss(r) ==
  /\ pc[r] = "lookup" /\ ~cached
  /\ Goto(r, "coalesce")
  /\ UNCHANGED <<pool, kind, target, claimant, shared>>

(* An exception on the way out through the finally clause.                        *)
Leave(r, to) ==
  /\ Goto(r, to)
  /\ DecrementActive
  /\ UNCHANGED <<kind, target, claimant>>

(* The cache or the coalescer's Redis fails, or the claimant published an error.  *)
LookupRaises(r) ==
  /\ "redis" \in Faults
  /\ pc[r] = "lookup"
  /\ Leave(r, "failed") /\ UNCHANGED pool

CoalesceRaises(r) ==
  /\ pc[r] = "coalesce"
  /\ Leave(r, "failed") /\ UNCHANGED pool

(* _do_generate and _do_chat, for the claimant or for a waiter that gave up.      *)
Produce(r) ==
  /\ Call(r, "coalesce", "calling")
  /\ claimant' \in {claimant, [claimant EXCEPT ![r] = TRUE]}
  /\ UNCHANGED <<kind, shared>>

ProduceFallback(r) ==
  /\ pc[r] = "coalesce" /\ NoHealthyBackend
  /\ Goto(r, "fallback")
  /\ claimant' \in {claimant, [claimant EXCEPT ![r] = TRUE]}
  /\ UNCHANGED <<pool, kind, target, shared>>

(* What the producer ended with: the claimant has an error to publish, whatever   *)
(* it was; a waiter has its result, to store, or its exception.                   *)
Returns(r) ==
  IF claimant[r]
  THEN Goto(r, "publish") /\ UNCHANGED <<kind, target, claimant, shared>>
  ELSE Leave(r, "store")

Raises(r, outcome) ==
  IF claimant[r]
  THEN /\ Goto(r, IF outcome = "unavailable" THEN "publish_503" ELSE "publish")
       /\ UNCHANGED <<kind, target, claimant, shared>>
  ELSE Leave(r, outcome)

CallReturns(r) ==
  /\ pc[r] \in {"calling", "calling_fallback"}
  /\ Pool!CallSucceeds(target[r])
  /\ Returns(r)

CallRaises(r) ==
  /\ pc[r] = "calling"
  /\ Pool!CallFails(target[r])
  /\ Raises(r, "failed")

(* FallbackRouter: the same pool is asked again before anything else can run. Only *)
(* a cooldown that ends between the two scans gives the fallback model a backend. *)
FallbackModel(r) ==
  /\ OtherModel
  /\ Call(r, "fallback", "calling_fallback")
  /\ UNCHANGED <<kind, claimant, shared>>

(* Slip for the mutation runs: completions skip the stale cache as chats do.      *)
GiveUpFallbackAlways(r) == Raises(r, "unavailable")

(* route goes on to the stale cache; route_chat has only the 503 left.            *)
GiveUpFallback(r) ==
  IF kind[r] = "completion"
  THEN Goto(r, "fallback_lookup") /\ UNCHANGED <<kind, target, claimant, shared>>
  ELSE Raises(r, "unavailable")

NoFallbackModel(r) ==
  /\ pc[r] = "fallback"
  /\ OtherModel => NoHealthyBackend
  /\ GiveUpFallback(r)
  /\ UNCHANGED pool

FallbackRaises(r) ==
  /\ pc[r] = "calling_fallback"
  /\ Pool!CallFails(target[r])
  /\ GiveUpFallback(r)

StaleHit(r) ==
  /\ pc[r] = "fallback_lookup" /\ cached
  /\ Returns(r) /\ UNCHANGED pool

StaleMiss(r) ==
  /\ pc[r] = "fallback_lookup" /\ ~cached
  /\ Raises(r, "unavailable") /\ UNCHANGED pool

StaleRaises(r) ==
  /\ "redis" \in Faults
  /\ pc[r] = "fallback_lookup"
  /\ Raises(r, "failed") /\ UNCHANGED pool

(* Slips for the mutation runs: publishing inside the try of the call, so that    *)
(* its failure is charged to the backend, or reported a second time.              *)
PublishRaisesCharged(r) ==
  /\ pc[r] = "publish" /\ target[r] # N
  /\ Leave(r, "failed")
  /\ breaker' = [breaker EXCEPT ![target[r]] = RecordFailure(@)]
  /\ UNCHANGED <<cursor, inflight>>

PublishRaisesReported(r) ==
  /\ pc[r] = "publish" /\ target[r] # N
  /\ Leave(r, "failed")
  /\ Pool!CallFails(target[r])

(* The claimant publishes a sentinel, frees the lock and raises what it had --    *)
(* unless Redis fails, which raises instead.                                      *)
PublishRaises(r) ==
  /\ UNCHANGED pool
  /\ \/ pc[r] = "publish" /\ Leave(r, "failed")
     \/ pc[r] = "publish_503" /\ Leave(r, "unavailable")
     \/ "redis" \in Faults /\ pc[r] = "publish_503" /\ Leave(r, "failed")

(* wait_for, around the coalescer only: 504, and nothing is recorded.             *)
Deadline(r) ==
  /\ pc[r] \in {"coalesce", "publish", "publish_503"} \cup (Producing \ {"fallback"})
  /\ Leave(r, "timeout")
  /\ IF pc[r] \in Calling THEN Pool!CallCancelled(target[r]) ELSE UNCHANGED pool

Store(r) ==
  /\ pc[r] = "store"
  /\ Goto(r, "ok")
  /\ cached' = TRUE
  /\ UNCHANGED <<pool, kind, target, claimant, active, rejecting>>

StoreRaises(r) ==
  /\ "redis" \in Faults
  /\ pc[r] = "store"
  /\ Goto(r, "failed")
  /\ UNCHANGED <<pool, kind, target, claimant, shared>>

--------------------------------------------------------------------------------
(* _stream_completion and _stream_chat_completion, which take the same steps.     *)

StreamStarts(r) ==
  /\ pc[r] = "unstarted"
  /\ Goto(r, "stream_lookup")
  /\ UNCHANGED <<pool, kind, target, claimant, shared>>

StreamHit(r) ==
  /\ pc[r] = "stream_lookup" /\ cached
  /\ Leave(r, "ok") /\ UNCHANGED pool

(* The generator ends before its try: "leaked" requests stay counted.             *)
StreamLookupRaises(r) ==
  /\ "redis" \in Faults
  /\ pc[r] = "stream_lookup"
  /\ Goto(r, "leaked")
  /\ UNCHANGED <<pool, kind, target, claimant, shared>>

StreamCall(r) ==
  /\ ~cached
  /\ Call(r, "stream_lookup", "streaming")
  /\ UNCHANGED <<kind, claimant, shared>>

StreamFindsNone(r) ==
  /\ pc[r] = "stream_lookup" /\ ~cached /\ NoHealthyBackend
  /\ Leave(r, "unavailable") /\ UNCHANGED pool

(* The stream ends: its text, if any came, is stored inside the same try.         *)
StreamEnds(r) ==
  /\ pc[r] = "streaming"
  /\ Pool!CallSucceeds(target[r])
  /\ \/ Leave(r, "ok")
     \/ Goto(r, "stream_store") /\ UNCHANGED <<kind, target, claimant, shared>>

StreamRaises(r) ==
  /\ pc[r] = "streaming"
  /\ Pool!CallFails(target[r])
  /\ Leave(r, "failed")

StreamStore(r) ==
  /\ pc[r] = "stream_store"
  /\ Goto(r, "ok")
  /\ cached' = TRUE
  /\ active' = IF active > 0 THEN active - 1 ELSE 0
  /\ UNCHANGED <<pool, kind, target, claimant, rejecting>>

(* Slip for the mutation runs: the handler ends the count and so does finally.    *)
StreamStoreRaisesTwice(r) ==
  /\ "redis" \in Faults
  /\ pc[r] = "stream_store"
  /\ breaker' = [breaker EXCEPT ![target[r]] = RecordFailure(@)]
  /\ Goto(r, "failed")
  /\ active' = IF active > 1 THEN active - 2 ELSE 0
  /\ UNCHANGED <<cursor, inflight, kind, target, claimant, cached, rejecting>>

(* The handler meant for the backend's errors gets the cache's.                   *)
StreamStoreRaises(r) ==
  /\ "redis" \in Faults
  /\ pc[r] = "stream_store"
  /\ breaker' = [breaker EXCEPT ![target[r]] = RecordFailure(@)]
  /\ Leave(r, "failed")
  /\ UNCHANGED <<cursor, inflight>>

(* The client goes away. The finally clause runs only if the try was reached.     *)
Disconnect(r) ==
  /\ "disconnect" \in Faults
  /\ pc[r] \in Streaming
  /\ IF pc[r] \in {"streaming", "stream_store"}
     THEN Leave(r, "gone")
     ELSE Goto(r, "leaked") /\ UNCHANGED <<kind, target, claimant, shared>>
  /\ IF pc[r] \in Calling THEN Pool!CallCancelled(target[r]) ELSE UNCHANGED pool

--------------------------------------------------------------------------------

Rest == UNCHANGED <<pc, kind, target, claimant>>

(* A poll of the throttler; expiry, eviction or invalidation of the key; the put  *)
(* of another worker, which shares the cache.                                     *)
Poll == rejecting' = ~rejecting /\ UNCHANGED <<pool, active, cached>> /\ Rest
Forget == cached /\ cached' = FALSE /\ UNCHANGED <<pool, active, rejecting>> /\ Rest
Share == ~cached /\ cached' = TRUE /\ UNCHANGED <<pool, active, rejecting>> /\ Rest
Health == Pool!HealthyCount /\ UNCHANGED shared /\ Rest
Tick == Pool!Tick /\ UNCHANGED shared /\ Rest

PlainStep(r) ==
  \/ CacheHit(r) \/ CacheMiss(r) \/ LookupRaises(r) \/ CoalesceRaises(r)
  \/ Produce(r) \/ ProduceFallback(r) \/ CallReturns(r) \/ CallRaises(r)
  \/ FallbackRaises(r) \/ StaleHit(r) \/ StaleMiss(r) \/ StaleRaises(r) \/ PublishRaises(r)
  \/ Deadline(r) \/ Store(r) \/ StoreRaises(r)

StreamStep(r) ==
  \/ StreamStarts(r) \/ StreamHit(r) \/ StreamLookupRaises(r) \/ StreamCall(r)
  \/ StreamFindsNone(r) \/ StreamEnds(r) \/ StreamRaises(r) \/ StreamStore(r)
  \/ StreamStoreRaises(r) \/ Disconnect(r)

(* A request in "fallback" runs without an await: only time may pass.             *)
Idle == \A r \in Requests : pc[r] # "fallback"

Next ==
  \/ \E r \in Requests : FallbackModel(r) \/ NoFallbackModel(r)
  \/ Idle /\ \E r \in Requests : Reject(r) \/ Admit(r) \/ PlainStep(r) \/ StreamStep(r)
  \/ Idle /\ (Poll \/ Forget \/ Share \/ Health)
  \/ Tick

Spec == Init /\ [][Next]_vars

--------------------------------------------------------------------------------

(* The server uses the pool as BackendPool's environment must: every call it was  *)
(* handed is reported at most once, by success or failure or not at all, through  *)
(* every handler, fallback, stream and cancellation. One step alone is no step of *)
(* BackendPool: a stream whose text cannot be stored reports a backend that has   *)
(* already been reported (the except clause of _stream_completion).               *)
UsesPool ==
  Pool!Init /\ [][Pool!Next \/ \E r \in Requests : StreamStoreRaises(r)]_pool

(* inflight, which BackendPool leaves to its environment, is the calls the        *)
(* requests are waiting for.                                                      *)
CallsAreTracked ==
  \A b \in Pool!Backends :
    inflight[b] = Cardinality({r \in Requests : pc[r] \in Calling /\ target[r] = b})

(* The gauge counts the requests being served and those that left before the try *)
(* of their generator, once each: no other path through the handlers, the         *)
(* fallback, the deadline or a disconnect forgets to lower it, and none lowers it *)
(* twice, which the max(0, ...) of decrement_active would hide.                   *)
ActiveIsExact ==
  active = Cardinality({r \in Requests : pc[r] \in Counted \cup {"leaked"}})

(* A completion is given up with 503 only when the cache holds no stale answer    *)
(* for it at that moment, whatever was stored or expired since it missed the      *)
(* cache on arrival (FallbackRouter.route).                                       *)
CompletionsTryStaleCache ==
  [][\A r \in Requests :
       kind[r] = "completion" /\ pc[r] \in Producing
         /\ pc'[r] \in {"unavailable", "publish_503"} => ~cached]_vars

(* Failed Threshold times in a row, and not yet left alone for the cooldown.      *)
Cooling(b) == breaker[b].failures >= Threshold /\ breaker[b].age < Cooldown

(* No request of any kind, stream or fallback, is sent to a backend that is       *)
(* cooling down, although the server also reports to breakers that are owed no    *)
(* report (a stream whose text cannot be stored) and in any circuit state.        *)
SparesCoolingBackends ==
  [][\A b \in Pool!Backends : inflight'[b] > inflight[b] => ~Cooling(b)]_vars

(* A request turns to the fallback, and a stream ends with 503, only while every  *)
(* backend is cooling down: a circuit that has cooled down is tried first, and    *)
(* no report or health check before that hides one (get_healthy_backend).         *)
FallsBackInOutageOnly ==
  [][\A r \in Requests :
       \/ pc[r] = "coalesce" /\ pc'[r] = "fallback"
       \/ pc[r] = "stream_lookup" /\ pc'[r] = "unavailable"
       => \A b \in Pool!Backends : Cooling(b)]_vars

(* When every request has ended, none is counted (architecture.md, line 132: the  *)
(* counter tracks what is in flight). The code leaks the count of a stream whose  *)
(* client leaves before its generator reaches the try, and of one whose cache     *)
(* lookup fails.                                                                  *)
ActiveSettles ==
  (\A r \in Requests : pc[r] \in Ended \cup {"new", "store"}) => active = 0

================================================================================
