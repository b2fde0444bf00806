------------------------------ MODULE ServerProofs ------------------------------
(* The server is a proper environment of the pool, and its gauge of active         *)
(* requests is exact: for any finite set of requests, any number of backends, any  *)
(* threshold and cooldown.                                                         *)
EXTENDS Server, FiniteSetTheorems, TLAPS

Stages == {"new", "store"} \cup Counted \cup Ended

(* The inductive invariant: a request that waits for a call knows the backend it   *)
(* will report on.                                                                 *)
CallInv ==
  /\ pc \in [Requests -> Stages]
  /\ target \in [Requests -> 0..N]
  /\ \A r \in Requests : pc[r] \in Calling => target[r] \in Pool!Backends

(* No request is calling at first.                                                 *)
LEMMA CallInvInit == Init => CallInv
<1> SUFFICES ASSUME Init PROVE CallInv
  OBVIOUS
<1>1. N \in 0..N
  BY BackendsAssumption
<1>2. QED
  BY <1>1 DEF Init, CallInv, Stages, Counted, Ended, Plain, Producing, Streaming, Calling

(* A request that starts to call takes its target from the pool.                   *)
LEMMA CallStarts ==
  ASSUME CallInv, NEW r \in Requests, NEW from, NEW to \in Calling, Call(r, from, to)
  PROVE  CallInv'
<1>1. PICK b \in Pool!Backends : target' = [target EXCEPT ![r] = b]
  BY DEF Call
<1>2. b \in 0..N
  BY BackendsAssumption DEF Pool!Backends
<1>3. pc' = [pc EXCEPT ![r] = to]
  BY DEF Call, Goto
<1>4. QED
  BY <1>1, <1>2, <1>3
     DEF CallInv, Stages, Counted, Ended, Plain, Producing, Streaming, Calling

(* A request that moves to a stage without a call keeps the invariant.             *)
LEMMA MovesOn ==
  ASSUME CallInv, NEW r \in Requests, NEW to \in Stages \ Calling,
         Goto(r, to), target' = target
  PROVE  CallInv'
  BY DEF CallInv, Goto

(* So does a step in which no request moves.                                       *)
LEMMA StaysThere ==
  ASSUME CallInv, pc' = pc, target' = target
  PROVE  CallInv'
  BY DEF CallInv

(* The steps of a completion or a chat completion.                                 *)
LEMMA PlainKeeps ==
  ASSUME CallInv, NEW r \in Requests, PlainStep(r)
  PROVE  CallInv'
<1> USE DEF Stages, Counted, Ended, Plain, Producing, Streaming, Calling
<1>1. CASE CacheHit(r)
  BY <1>1, MovesOn DEF CacheHit
<1>2. CASE CacheMiss(r)
  BY <1>2, MovesOn DEF CacheMiss
<1>3. CASE LookupRaises(r) \/ CoalesceRaises(r)
  BY <1>3, MovesOn DEF LookupRaises, CoalesceRaises, Leave
<1>4. CASE Produce(r)
  BY <1>4, CallStarts DEF Produce
<1>5. CASE ProduceFallback(r)
  BY <1>5, MovesOn DEF ProduceFallback
<1>6. CASE CallReturns(r)
  BY <1>6, MovesOn DEF CallReturns, Returns, Leave
<1>7. CASE CallRaises(r)
  BY <1>7, MovesOn DEF CallRaises, Raises, Leave
<1>8. CASE FallbackRaises(r)
  BY <1>8, MovesOn DEF FallbackRaises, GiveUpFallback, Raises, Leave
<1>9. CASE StaleHit(r)
  BY <1>9, MovesOn DEF StaleHit, Returns, Leave
<1>10. CASE StaleMiss(r) \/ StaleRaises(r)
  BY <1>10, MovesOn DEF StaleMiss, StaleRaises, Raises, Leave
<1>11. CASE PublishRaises(r)
  BY <1>11, MovesOn DEF PublishRaises, Leave
<1>12. CASE Deadline(r)
  BY <1>12, MovesOn DEF Deadline, Leave
<1>13. CASE Store(r) \/ StoreRaises(r)
  BY <1>13, MovesOn DEF Store, StoreRaises
<1>14. QED
  BY <1>1, <1>2, <1>3, <1>4, <1>5, <1>6, <1>7, <1>8, <1>9, <1>10, <1>11, <1>12,
     <1>13 DEF PlainStep

(* The steps of a stream.                                                          *)
LEMMA StreamKeeps ==
  ASSUME CallInv, NEW r \in Requests, StreamStep(r)
  PROVE  CallInv'
<1> USE DEF Stages, Counted, Ended, Plain, Producing, Streaming, Calling
<1>1. CASE StreamStarts(r) \/ StreamLookupRaises(r)
  BY <1>1, MovesOn DEF StreamStarts, StreamLookupRaises
<1>2. CASE StreamHit(r) \/ StreamFindsNone(r)
  BY <1>2, MovesOn DEF StreamHit, StreamFindsNone, Leave
<1>3. CASE StreamCall(r)
  BY <1>3, CallStarts DEF StreamCall
<1>4. CASE StreamEnds(r)
  BY <1>4, MovesOn DEF StreamEnds, Leave
<1>5. CASE StreamRaises(r) \/ StreamStoreRaises(r)
  BY <1>5, MovesOn DEF StreamRaises, StreamStoreRaises, Leave
<1>6. CASE StreamStore(r)
  BY <1>6, MovesOn DEF StreamStore
<1>7. CASE Disconnect(r)
  BY <1>7, MovesOn DEF Disconnect, Leave
<1>8. QED
  BY <1>1, <1>2, <1>3, <1>4, <1>5, <1>6, <1>7 DEF StreamStep

(* The steps of the fallback router that run without an await.                     *)
LEMMA FallbackKeeps ==
  ASSUME CallInv, NEW r \in Requests, FallbackModel(r) \/ NoFallbackModel(r)
  PROVE  CallInv'
<1> USE DEF Stages, Counted, Ended, Plain, Producing, Streaming, Calling
<1>1. CASE FallbackModel(r)
  BY <1>1, CallStarts DEF FallbackModel
<1>2. CASE NoFallbackModel(r)
  BY <1>2, MovesOn DEF NoFallbackModel, GiveUpFallback, Raises, Leave
<1>3. QED
  BY <1>1, <1>2

(* CallInv is inductive.                                                           *)
LEMMA CallInvStep == CallInv /\ [Next]_vars => CallInv'
<1> SUFFICES ASSUME CallInv, [Next]_vars PROVE CallInv'
  OBVIOUS
<1>1. ASSUME NEW r \in Requests, FallbackModel(r) \/ NoFallbackModel(r) PROVE CallInv'
  BY <1>1, FallbackKeeps
<1>2. ASSUME NEW r \in Requests, Reject(r) \/ Admit(r) PROVE CallInv'
  BY <1>2, MovesOn
     DEF Reject, Admit, Stages, Counted, Ended, Plain, Producing, Streaming, Calling
<1>3. ASSUME NEW r \in Requests, PlainStep(r) \/ StreamStep(r) PROVE CallInv'
  BY <1>3, PlainKeeps, StreamKeeps
<1>4. CASE Poll \/ Forget \/ Share \/ Health \/ Tick
  BY <1>4, StaysThere DEF Poll, Forget, Share, Health, Tick, Rest
<1>5. CASE UNCHANGED vars
  BY <1>5, StaysThere DEF vars
<1>6. QED
  BY <1>1, <1>2, <1>3, <1>4, <1>5 DEF Next

--------------------------------------------------------------------------------
(* A call that starts is a pick of the pool.                                       *)
LEMMA CallIsPick ==
  ASSUME NEW r \in Requests, NEW from, NEW to, Call(r, from, to)
  PROVE  Pool!Next
  BY DEF Call, Pool!Next

(* A call that ends is a report to the pool.                                       *)
LEMMA ReportIsReport ==
  ASSUME NEW b \in Pool!Backends,
         Pool!CallSucceeds(b) \/ Pool!CallFails(b) \/ Pool!CallCancelled(b)
  PROVE  Pool!Next
  BY DEF Pool!Next

(* A step of a completion is a step of the pool or leaves the pool alone.          *)
LEMMA PlainUses ==
  ASSUME CallInv, NEW r \in Requests, PlainStep(r)
  PROVE  Pool!Next \/ UNCHANGED pool
<1>1. CASE Produce(r)
  BY <1>1, CallIsPick DEF Produce
<1>2. CASE CallReturns(r) \/ CallRaises(r) \/ FallbackRaises(r)
  BY <1>2, ReportIsReport DEF CallReturns, CallRaises, FallbackRaises, CallInv, Calling
<1>3. CASE Deadline(r)
  BY <1>3, ReportIsReport DEF Deadline, CallInv
<1>4. CASE \/ CacheHit(r) \/ CacheMiss(r) \/ LookupRaises(r) \/ CoalesceRaises(r)
           \/ ProduceFallback(r) \/ StaleHit(r) \/ StaleMiss(r) \/ StaleRaises(r)
           \/ PublishRaises(r) \/ Store(r) \/ StoreRaises(r)
  BY <1>4 DEF CacheHit, CacheMiss, LookupRaises, CoalesceRaises, ProduceFallback,
     StaleHit, StaleMiss, StaleRaises, PublishRaises, Store, StoreRaises
<1>5. QED
  BY <1>1, <1>2, <1>3, <1>4 DEF PlainStep

(* So is a step of a stream, unless its text cannot be stored.                     *)
LEMMA StreamUses ==
  ASSUME CallInv, NEW r \in Requests, StreamStep(r)
  PROVE  Pool!Next \/ StreamStoreRaises(r) \/ UNCHANGED pool
<1>1. CASE StreamCall(r)
  BY <1>1, CallIsPick DEF StreamCall
<1>2. CASE StreamEnds(r) \/ StreamRaises(r)
  BY <1>2, ReportIsReport DEF StreamEnds, StreamRaises, CallInv, Calling
<1>3. CASE Disconnect(r)
  BY <1>3, ReportIsReport DEF Disconnect, CallInv
<1>4. CASE StreamStarts(r) \/ StreamHit(r) \/ StreamLookupRaises(r)
           \/ StreamFindsNone(r) \/ StreamStore(r)
  BY <1>4 DEF StreamStarts, StreamHit, StreamLookupRaises, StreamFindsNone, StreamStore
<1>5. QED
  BY <1>1, <1>2, <1>3, <1>4 DEF StreamStep

(* A step of the pool, or the report of a stream whose text cannot be stored.      *)
PoolStep == Pool!Next \/ \E r \in Requests : StreamStoreRaises(r)

(* Every step of the server is one, or leaves the pool alone.                      *)
LEMMA UsesPoolStep == CallInv /\ [Next]_vars => [PoolStep]_pool
<1> SUFFICES ASSUME CallInv, [Next]_vars PROVE PoolStep \/ UNCHANGED pool
  OBVIOUS
<1>1. ASSUME NEW r \in Requests, FallbackModel(r) PROVE PoolStep
  BY <1>1, CallIsPick DEF FallbackModel, PoolStep
<1>2. ASSUME NEW r \in Requests, NoFallbackModel(r) \/ Reject(r) \/ Admit(r)
      PROVE  UNCHANGED pool
  BY <1>2 DEF NoFallbackModel, Reject, Admit
<1>3. ASSUME NEW r \in Requests, PlainStep(r) \/ StreamStep(r)
      PROVE  PoolStep \/ UNCHANGED pool
  BY <1>3, PlainUses, StreamUses DEF PoolStep
<1>4. CASE Poll \/ Forget \/ Share
  BY <1>4 DEF Poll, Forget, Share
<1>5. CASE Health \/ Tick
  BY <1>5 DEF Health, Tick, Pool!Next, PoolStep
<1>6. CASE UNCHANGED vars
  BY <1>6 DEF vars
<1>7. QED
  BY <1>1, <1>2, <1>3, <1>4, <1>5, <1>6 DEF Next

(* Whatever fails, the pool in the server starts and moves as BackendPool says a   *)
(* pool does: each call handed out is reported at most once, to the backend it was *)
(* sent to. The one other step is the report of a stream whose text cannot be      *)
(* stored (ServerImplementsPool: without Redis errors it is never taken).          *)
THEOREM ServerUsesPool == Spec => UsesPool
<1>1. Init => Pool!Init
  BY DEF Init
<1>2. CallInv /\ [Next]_vars => [PoolStep]_pool
  BY UsesPoolStep
<1>3. Spec => Pool!Init /\ [][PoolStep]_pool
  BY <1>1, <1>2, CallInvInit, CallInvStep, PTL DEF Spec
<1>4. QED
  BY <1>3 DEF UsesPool, PoolStep

(* While Redis does not fail, the server implements BackendPool: every behaviour   *)
(* of its pool is one of the pool's specification, so that all BackendPoolProofs   *)
(* shows of such behaviours is true of the pool in the server.                     *)
THEOREM ServerImplementsPool ==
  ASSUME "redis" \notin Faults
  PROVE  Spec => Pool!Spec
<1>1. Init => Pool!Init
  BY DEF Init
<1>2. PoolStep => Pool!Next
  BY DEF PoolStep, StreamStoreRaises
<1>3. CallInv /\ [Next]_vars => [Pool!Next]_(Pool!vars)
  BY <1>2, UsesPoolStep DEF pool, Pool!vars
<1>4. QED
  BY <1>1, <1>3, CallInvInit, CallInvStep, PTL DEF Spec, Pool!Spec

--------------------------------------------------------------------------------
(* What the gauge should show: who is being served, and who leaked.                *)
Gauged == Counted \cup {"leaked"}
Serving == {r \in Requests : pc[r] \in Gauged}

CountInv == active \in Nat /\ ActiveIsExact

(* Nobody is served at first.                                                      *)
LEMMA CountInvInit == Init => CountInv
<1> SUFFICES ASSUME Init PROVE CountInv
  OBVIOUS
<1>1. {r \in Requests : pc[r] \in Counted \cup {"leaked"}} = {}
  BY DEF Init, Counted, Plain, Producing, Streaming
<1>2. QED
  BY <1>1, FS_EmptySet DEF Init, CountInv, ActiveIsExact

(* A request that stays on its side of the gauge leaves the gauge right.           *)
LEMMA GoesOn ==
  ASSUME CallInv, CountInv, NEW r \in Requests, NEW to, Goto(r, to),
         pc[r] \in Gauged <=> to \in Gauged,
         active' = active
  PROVE  CountInv'
<1>1. Serving' = Serving
  BY DEF Serving, Goto, CallInv
<1>2. QED
  BY <1>1 DEF CountInv, ActiveIsExact, Serving, Gauged

(* So does one that is admitted and counted ...                                    *)
LEMMA Enters ==
  ASSUME CallInv, CountInv, NEW r \in Requests, NEW to \in Gauged, Goto(r, to),
         pc[r] \notin Gauged,
         active' = active + 1
  PROVE  CountInv'
<1>1. Serving' = Serving \cup {r} /\ r \notin Serving
  BY DEF Serving, Goto, CallInv
<1>2. IsFiniteSet(Serving)
  BY MaxCallsSuffices, FS_Subset DEF Serving
<1>3. Cardinality(Serving') = Cardinality(Serving) + 1
  BY <1>1, <1>2, FS_AddElement
<1>4. QED
  BY <1>3 DEF CountInv, ActiveIsExact, Serving, Gauged

(* ... and one that leaves and is uncounted: the count it lowers is not 0.         *)
LEMMA Leaves ==
  ASSUME CallInv, CountInv, NEW r \in Requests, NEW to, Goto(r, to),
         pc[r] \in Gauged, to \notin Gauged,
         active' = IF active > 0 THEN active - 1 ELSE 0
  PROVE  CountInv'
<1>1. Serving' = Serving \ {r} /\ r \in Serving
  BY DEF Serving, Goto, CallInv
<1>2. IsFiniteSet(Serving)
  BY MaxCallsSuffices, FS_Subset DEF Serving
<1>3. Cardinality(Serving') = Cardinality(Serving) - 1 /\ Cardinality(Serving') \in Nat
  BY <1>1, <1>2, FS_RemoveElement, FS_CardinalityType
<1>4. active = Cardinality(Serving) /\ active \in Nat
  BY DEF CountInv, ActiveIsExact, Serving, Gauged
<1>5. active' = Cardinality(Serving') /\ active' \in Nat
  BY <1>3, <1>4
<1>6. QED
  BY <1>5 DEF CountInv, ActiveIsExact, Serving, Gauged

(* A step in which no request moves leaves the gauge alone.                        *)
LEMMA GaugeStays ==
  ASSUME CountInv, pc' = pc, active' = active
  PROVE  CountInv'
  BY DEF CountInv, ActiveIsExact

(* The steps of a completion or a chat completion.                                 *)
LEMMA PlainCounts ==
  ASSUME CallInv, CountInv, NEW r \in Requests, PlainStep(r)
  PROVE  CountInv'
<1> USE DEF Gauged, Counted, Plain, Producing, Streaming, Calling
<1>1. CASE CacheHit(r)
  BY <1>1, Leaves DEF CacheHit, DecrementActive
<1>2. CASE CacheMiss(r)
  BY <1>2, GoesOn DEF CacheMiss, shared
<1>3. CASE LookupRaises(r) \/ CoalesceRaises(r)
  BY <1>3, Leaves DEF LookupRaises, CoalesceRaises, Leave, DecrementActive
<1>4. CASE Produce(r)
  BY <1>4, GoesOn DEF Produce, Call, shared
<1>5. CASE ProduceFallback(r)
  BY <1>5, GoesOn DEF ProduceFallback, shared
<1>6. CASE CallReturns(r)
  BY <1>6, GoesOn, Leaves DEF CallReturns, Returns, Leave, DecrementActive, shared
<1>7. CASE CallRaises(r)
  BY <1>7, GoesOn, Leaves DEF CallRaises, Raises, Leave, DecrementActive, shared
<1>8. CASE FallbackRaises(r)
  BY <1>8, GoesOn, Leaves
     DEF FallbackRaises, GiveUpFallback, Raises, Leave, DecrementActive, shared
<1>9. CASE StaleHit(r)
  BY <1>9, GoesOn, Leaves DEF StaleHit, Returns, Leave, DecrementActive, shared
<1>10. CASE StaleMiss(r) \/ StaleRaises(r)
  BY <1>10, GoesOn, Leaves
     DEF StaleMiss, StaleRaises, Raises, Leave, DecrementActive, shared
<1>11. CASE PublishRaises(r)
  BY <1>11, Leaves DEF PublishRaises, Leave, DecrementActive
<1>12. CASE Deadline(r)
  BY <1>12, Leaves DEF Deadline, Leave, DecrementActive
<1>13. CASE Store(r) \/ StoreRaises(r)
  BY <1>13, GoesOn DEF Store, StoreRaises, shared
<1>14. QED
  BY <1>1, <1>2, <1>3, <1>4, <1>5, <1>6, <1>7, <1>8, <1>9, <1>10, <1>11, <1>12,
     <1>13 DEF PlainStep

(* The steps of a stream.                                                          *)
LEMMA StreamCounts ==
  ASSUME CallInv, CountInv, NEW r \in Requests, StreamStep(r)
  PROVE  CountInv'
<1> USE DEF Gauged, Counted, Plain, Producing, Streaming, Calling
<1>1. CASE StreamStarts(r) \/ StreamLookupRaises(r)
  BY <1>1, GoesOn DEF StreamStarts, StreamLookupRaises, shared
<1>2. CASE StreamHit(r) \/ StreamFindsNone(r)
  BY <1>2, Leaves DEF StreamHit, StreamFindsNone, Leave, DecrementActive
<1>3. CASE StreamCall(r)
  BY <1>3, GoesOn DEF StreamCall, Call, shared
<1>4. CASE StreamEnds(r)
  BY <1>4, GoesOn, Leaves DEF StreamEnds, Leave, DecrementActive, shared
<1>5. CASE StreamRaises(r) \/ StreamStoreRaises(r)
  BY <1>5, Leaves DEF StreamRaises, StreamStoreRaises, Leave, DecrementActive
<1>6. CASE StreamStore(r)
  BY <1>6, Leaves DEF StreamStore
<1>7. CASE Disconnect(r)
  BY <1>7, GoesOn, Leaves DEF Disconnect, Leave, DecrementActive, shared
<1>8. QED
  BY <1>1, <1>2, <1>3, <1>4, <1>5, <1>6, <1>7 DEF StreamStep

(* CountInv is inductive, next to CallInv.                                         *)
LEMMA CountInvStep == CallInv /\ CountInv /\ [Next]_vars => CountInv'
<1> SUFFICES ASSUME CallInv, CountInv, [Next]_vars PROVE CountInv'
  OBVIOUS
<1> USE DEF Gauged, Counted, Plain, Producing, Streaming, Calling
<1>1. ASSUME NEW r \in Requests, FallbackModel(r) PROVE CountInv'
  BY <1>1, GoesOn DEF FallbackModel, Call, shared
<1>2. ASSUME NEW r \in Requests, NoFallbackModel(r) PROVE CountInv'
  BY <1>2, GoesOn, Leaves
     DEF NoFallbackModel, GiveUpFallback, Raises, Leave, DecrementActive, shared
<1>3. ASSUME NEW r \in Requests, Reject(r) PROVE CountInv'
  BY <1>3, GoesOn DEF Reject, shared
<1>4. ASSUME NEW r \in Requests, Admit(r) PROVE CountInv'
  BY <1>4, Enters DEF Admit, IncrementActive
<1>5. ASSUME NEW r \in Requests, PlainStep(r) \/ StreamStep(r) PROVE CountInv'
  BY <1>5, PlainCounts, StreamCounts
<1>6. CASE Poll \/ Forget \/ Share \/ Health \/ Tick
  BY <1>6, GaugeStays DEF Poll, Forget, Share, Health, Tick, Rest, shared
<1>7. CASE UNCHANGED vars
  BY <1>7, GaugeStays DEF vars, shared
<1>8. QED
  BY <1>1, <1>2, <1>3, <1>4, <1>5, <1>6, <1>7 DEF Next

(* The gauge of active requests is exact, whatever fails, for any finite set of    *)
(* requests: every path but those that end a generator before its try lowers it    *)
(* exactly once.                                                                   *)
THEOREM GaugeIsExact == Spec => []ActiveIsExact
<1>1. CountInv => ActiveIsExact
  BY DEF CountInv
<1>2. QED
  BY <1>1, CallInvInit, CallInvStep, CountInvInit, CountInvStep, PTL DEF Spec

--------------------------------------------------------------------------------
(* What the gauge's leak takes: a stream, and a client that leaves or a Redis that *)
(* fails.                                                                          *)
NoLeaks == "stream" \notin Kinds \/ ("disconnect" \notin Faults /\ "redis" \notin Faults)

SettleInv ==
  /\ kind \in [Requests -> Kinds]
  /\ \A r \in Requests : pc[r] # "leaked"
  /\ "stream" \notin Kinds => \A r \in Requests : pc[r] \notin Streaming

(* A request that moves on, and neither leaks nor streams without being a stream.  *)
LEMMA MovesUnleaked ==
  ASSUME CallInv, SettleInv, NEW r \in Requests, NEW to, Goto(r, to), kind' = kind,
         to # "leaked", to \in Streaming => "stream" \in Kinds
  PROVE  SettleInv'
<1>1. pc'[r] = to /\ \A q \in Requests \ {r} : pc'[q] = pc[q]
  BY DEF CallInv, Goto
<1>2. QED
  BY <1>1 DEF SettleInv

(* A completion or a chat completion never streams.                                *)
LEMMA PlainSettles ==
  ASSUME CallInv, SettleInv, NEW r \in Requests, PlainStep(r)
  PROVE  SettleInv'
<1> USE DEF Streaming
<1>1. CASE CacheHit(r) \/ CacheMiss(r) \/ LookupRaises(r) \/ CoalesceRaises(r)
  BY <1>1, MovesUnleaked DEF CacheHit, CacheMiss, LookupRaises, CoalesceRaises, Leave
<1>2. CASE Produce(r) \/ ProduceFallback(r)
  BY <1>2, MovesUnleaked DEF Produce, ProduceFallback, Call
<1>3. CASE CallReturns(r) \/ StaleHit(r)
  BY <1>3, MovesUnleaked DEF CallReturns, StaleHit, Returns, Leave
<1>4. CASE CallRaises(r) \/ FallbackRaises(r)
  BY <1>4, MovesUnleaked DEF CallRaises, FallbackRaises, GiveUpFallback, Raises, Leave
<1>5. CASE StaleMiss(r) \/ StaleRaises(r)
  BY <1>5, MovesUnleaked DEF StaleMiss, StaleRaises, Raises, Leave
<1>6. CASE PublishRaises(r)
  BY <1>6, MovesUnleaked DEF PublishRaises, Leave
<1>7. CASE Deadline(r) \/ Store(r) \/ StoreRaises(r)
  BY <1>7, MovesUnleaked DEF Deadline, Leave, Store, StoreRaises
<1>8. QED
  BY <1>1, <1>2, <1>3, <1>4, <1>5, <1>6, <1>7 DEF PlainStep

(* A stream leaks by its client or by Redis, and there may be none.                *)
LEMMA StreamSettles ==
  ASSUME NoLeaks, CallInv, SettleInv, NEW r \in Requests, StreamStep(r)
  PROVE  SettleInv'
<1>1. pc[r] \in Streaming
  BY DEF StreamStep, StreamStarts, StreamHit, StreamLookupRaises, StreamCall, Call,
     StreamFindsNone, StreamEnds, StreamRaises, StreamStore, StreamStoreRaises, Disconnect,
     Streaming
<1>2. "stream" \in Kinds /\ "disconnect" \notin Faults /\ "redis" \notin Faults
  BY <1>1 DEF SettleInv, NoLeaks
<1>3. CASE StreamStarts(r) \/ StreamHit(r) \/ StreamCall(r) \/ StreamFindsNone(r)
  BY <1>2, <1>3, MovesUnleaked DEF StreamStarts, StreamHit, StreamCall, Call,
     StreamFindsNone, Leave
<1>4. CASE StreamEnds(r) \/ StreamRaises(r) \/ StreamStore(r)
  BY <1>2, <1>4, MovesUnleaked DEF StreamEnds, StreamRaises, StreamStore, Leave
<1>5. CASE StreamLookupRaises(r) \/ StreamStoreRaises(r) \/ Disconnect(r)
  BY <1>2, <1>5 DEF StreamLookupRaises, StreamStoreRaises, Disconnect
<1>6. QED
  BY <1>3, <1>4, <1>5 DEF StreamStep

(* Without such faults, or without streams, nothing leaks.                         *)
LEMMA SettleStep ==
  ASSUME NoLeaks, CallInv, SettleInv, [Next]_vars
  PROVE  SettleInv'
<1>1. ASSUME NEW r \in Requests, FallbackModel(r) \/ NoFallbackModel(r) PROVE SettleInv'
  BY <1>1, MovesUnleaked DEF FallbackModel, Call, NoFallbackModel, GiveUpFallback, Raises,
     Leave, Streaming
<1>2. ASSUME NEW r \in Requests, Reject(r) \/ Admit(r) PROVE SettleInv'
  <2>1. kind[r] = "stream" => "stream" \in Kinds
    BY DEF SettleInv
  <2>2. QED
    BY <1>2, <2>1, MovesUnleaked DEF Reject, Admit, Streaming
<1>3. ASSUME NEW r \in Requests, PlainStep(r) \/ StreamStep(r) PROVE SettleInv'
  BY <1>3, PlainSettles, StreamSettles
<1>4. CASE Poll \/ Forget \/ Share \/ Health \/ Tick \/ UNCHANGED vars
  BY <1>4 DEF Poll, Forget, Share, Health, Tick, Rest, vars, SettleInv
<1>5. QED
  BY <1>1, <1>2, <1>3, <1>4 DEF Next

(* The counter returns to 0 with the last request, as architecture.md says it      *)
(* does, in a server that streams nothing, whatever fails, and in one whose        *)
(* clients stay and whose Redis does not fail.                                     *)
THEOREM ActiveSettlesWithoutLeaks ==
  ASSUME NoLeaks
  PROVE  Spec => []ActiveSettles
<1>1. Init => SettleInv
  BY DEF Init, SettleInv, Streaming
<1>2. CallInv /\ SettleInv /\ [Next]_vars => SettleInv'
  BY SettleStep
<1>3. CountInv /\ SettleInv => ActiveSettles
  <2> SUFFICES ASSUME CountInv, SettleInv,
                      \A r \in Requests : pc[r] \in Ended \cup {"new", "store"}
               PROVE  active = 0
    BY DEF ActiveSettles
  <2>1. {r \in Requests : pc[r] \in Counted \cup {"leaked"}} = {}
    BY DEF SettleInv, Ended, Counted, Plain, Producing, Streaming
  <2>2. QED
    BY <2>1, FS_EmptySet DEF CountInv, ActiveIsExact
<1>4. QED
  BY <1>1, <1>2, <1>3, CallInvInit, CallInvStep, CountInvInit, CountInvStep, PTL DEF Spec

--------------------------------------------------------------------------------
(* Who waits for a backend, by the requests' own account.                          *)
Callers(b) == {r \in Requests : pc[r] \in Calling /\ target[r] = b}

TrackInv == inflight \in [Pool!Backends -> Nat] /\ CallsAreTracked

(* Nobody calls at first.                                                          *)
LEMMA TrackInvInit == Init => TrackInv
<1> SUFFICES ASSUME Init PROVE TrackInv
  OBVIOUS
<1>1. \A b \in Pool!Backends : {r \in Requests : pc[r] \in Calling /\ target[r] = b} = {}
  BY DEF Init, Calling
<1>2. inflight = [b \in Pool!Backends |-> 0]
  BY DEF Init, Pool!Init
<1>3. QED
  BY <1>1, <1>2, FS_EmptySet DEF TrackInv, CallsAreTracked

(* A request that begins a call joins the callers of the backend it picked ...     *)
LEMMA BeginsCall ==
  ASSUME CallInv, TrackInv, NEW r \in Requests, NEW from, NEW to \in Calling,
         from \notin Calling, Call(r, from, to)
  PROVE  TrackInv'
<1>1. PICK b \in Pool!Backends : Pool!GetHealthyBackend(b) /\ target' = [target EXCEPT ![r] = b]
  BY DEF Call
<1>2. inflight' = [inflight EXCEPT ![b] = @ + 1]
  BY <1>1 DEF Pool!GetHealthyBackend
<1>3. Callers(b)' = Callers(b) \cup {r} /\ r \notin Callers(b)
  BY <1>1 DEF Callers, Call, Goto, CallInv
<1>4. \A c \in Pool!Backends \ {b} : Callers(c)' = Callers(c)
  BY <1>1 DEF Callers, Call, Goto, CallInv
<1>5. IsFiniteSet(Callers(b))
  BY MaxCallsSuffices, FS_Subset DEF Callers
<1>6. Cardinality(Callers(b)') = Cardinality(Callers(b)) + 1
  BY <1>3, <1>5, FS_AddElement
<1>7. \A c \in Pool!Backends : inflight'[c] = Cardinality(Callers(c)')
  BY <1>1, <1>2, <1>4, <1>6 DEF TrackInv, CallsAreTracked, Callers
<1>8. QED
  BY <1>1, <1>2, <1>7 DEF TrackInv, CallsAreTracked, Callers

(* ... and one that ends a call leaves those of the backend it reports on.         *)
LEMMA EndsCall ==
  ASSUME CallInv, TrackInv, NEW r \in Requests, NEW to, to \notin Calling, Goto(r, to),
         pc[r] \in Calling, target' = target, Pool!CallEnds(target[r])
  PROVE  TrackInv'
<1>1. PICK b \in Pool!Backends : b = target[r]
  BY DEF CallInv
<1>2. inflight' = [inflight EXCEPT ![b] = @ - 1]
  BY <1>1 DEF Pool!CallEnds
<1>3. Callers(b)' = Callers(b) \ {r} /\ r \in Callers(b)
  BY <1>1 DEF Callers, Goto, CallInv
<1>4. \A c \in Pool!Backends \ {b} : Callers(c)' = Callers(c)
  BY <1>1 DEF Callers, Goto, CallInv
<1>5. IsFiniteSet(Callers(b))
  BY MaxCallsSuffices, FS_Subset DEF Callers
<1>6. Cardinality(Callers(b)') = Cardinality(Callers(b)) - 1 /\ Cardinality(Callers(b)') \in Nat
  BY <1>3, <1>5, FS_RemoveElement, FS_CardinalityType
<1>7. inflight[b] = Cardinality(Callers(b))
  BY <1>1 DEF TrackInv, CallsAreTracked, Callers
<1>8. \A c \in Pool!Backends : inflight'[c] = Cardinality(Callers(c)')
  BY <1>1, <1>2, <1>4, <1>6, <1>7 DEF TrackInv, CallsAreTracked, Callers
<1>9. QED
  BY <1>1, <1>2, <1>6, <1>7, <1>8 DEF TrackInv, CallsAreTracked, Callers

(* Other moves of a request leave the callers as they are.                         *)
LEMMA CallsNobody ==
  ASSUME CallInv, TrackInv, NEW r \in Requests, NEW to, to \notin Calling, Goto(r, to),
         pc[r] \notin Calling, target' = target, inflight' = inflight
  PROVE  TrackInv'
<1>1. \A b \in Pool!Backends : Callers(b)' = Callers(b)
  BY DEF Callers, Goto, CallInv
<1>2. QED
  BY <1>1 DEF TrackInv, CallsAreTracked, Callers

LEMMA CallersStay ==
  ASSUME TrackInv, pc' = pc, target' = target, inflight' = inflight
  PROVE  TrackInv'
  BY DEF TrackInv, CallsAreTracked

(* The steps of a completion or a chat completion.                                 *)
LEMMA PlainTracks ==
  ASSUME CallInv, TrackInv, NEW r \in Requests, PlainStep(r)
  PROVE  TrackInv'
<1>1. CASE CacheHit(r) \/ CacheMiss(r) \/ LookupRaises(r) \/ CoalesceRaises(r)
  BY <1>1, CallsNobody
     DEF CacheHit, CacheMiss, LookupRaises, CoalesceRaises, Leave, Calling, pool
<1>2. CASE Produce(r)
  BY <1>2, BeginsCall DEF Produce, Calling
<1>3. CASE ProduceFallback(r)
  BY <1>3, CallsNobody DEF ProduceFallback, Calling, pool
<1>4. CASE CallReturns(r)
  BY <1>4, EndsCall DEF CallReturns, Returns, Leave, Calling, Pool!CallSucceeds
<1>5. CASE CallRaises(r)
  BY <1>5, EndsCall DEF CallRaises, Raises, Leave, Calling, Pool!CallFails
<1>6. CASE FallbackRaises(r)
  BY <1>6, EndsCall
     DEF FallbackRaises, GiveUpFallback, Raises, Leave, Calling, Pool!CallFails
<1>7. CASE StaleHit(r)
  BY <1>7, CallsNobody DEF StaleHit, Returns, Leave, Calling, pool
<1>8. CASE StaleMiss(r) \/ StaleRaises(r)
  BY <1>8, CallsNobody DEF StaleMiss, StaleRaises, Raises, Leave, Calling, pool
<1>9. CASE PublishRaises(r)
  BY <1>9, CallsNobody DEF PublishRaises, Leave, Calling, pool
<1>10. CASE Deadline(r)
  <2>1. CASE pc[r] \in Calling
    BY <1>10, <2>1, EndsCall DEF Deadline, Leave, Calling, Pool!CallCancelled
  <2>2. CASE pc[r] \notin Calling
    BY <1>10, <2>2, CallsNobody DEF Deadline, Leave, Calling, pool
  <2>3. QED
    BY <2>1, <2>2
<1>11. CASE Store(r) \/ StoreRaises(r)
  BY <1>11, CallsNobody DEF Store, StoreRaises, Calling, pool
<1>12. QED
  BY <1>1, <1>2, <1>3, <1>4, <1>5, <1>6, <1>7, <1>8, <1>9, <1>10, <1>11 DEF PlainStep

(* The steps of a stream.                                                          *)
LEMMA StreamTracks ==
  ASSUME CallInv, TrackInv, NEW r \in Requests, StreamStep(r)
  PROVE  TrackInv'
<1>1. CASE StreamStarts(r) \/ StreamHit(r) \/ StreamLookupRaises(r) \/ StreamFindsNone(r)
  BY <1>1, CallsNobody
     DEF StreamStarts, StreamHit, StreamLookupRaises, StreamFindsNone, Leave, Calling, pool
<1>2. CASE StreamCall(r)
  BY <1>2, BeginsCall DEF StreamCall, Calling
<1>3. CASE StreamEnds(r)
  BY <1>3, EndsCall DEF StreamEnds, Leave, Calling, Pool!CallSucceeds
<1>4. CASE StreamRaises(r)
  BY <1>4, EndsCall DEF StreamRaises, Leave, Calling, Pool!CallFails
<1>5. CASE StreamStore(r) \/ StreamStoreRaises(r)
  BY <1>5, CallsNobody DEF StreamStore, StreamStoreRaises, Leave, Calling, pool
<1>6. CASE Disconnect(r)
  <2>1. CASE pc[r] \in Calling
    BY <1>6, <2>1, EndsCall DEF Disconnect, Leave, Calling, Pool!CallCancelled
  <2>2. CASE pc[r] \notin Calling
    BY <1>6, <2>2, CallsNobody DEF Disconnect, Leave, Calling, pool
  <2>3. QED
    BY <2>1, <2>2
<1>7. QED
  BY <1>1, <1>2, <1>3, <1>4, <1>5, <1>6 DEF StreamStep

(* TrackInv is inductive, next to CallInv.                                         *)
LEMMA TrackInvStep == CallInv /\ TrackInv /\ [Next]_vars => TrackInv'
<1> SUFFICES ASSUME CallInv, TrackInv, [Next]_vars PROVE TrackInv'
  OBVIOUS
<1>1. ASSUME NEW r \in Requests, FallbackModel(r) PROVE TrackInv'
  BY <1>1, BeginsCall DEF FallbackModel, Calling
<1>2. ASSUME NEW r \in Requests, NoFallbackModel(r) PROVE TrackInv'
  BY <1>2, CallsNobody
     DEF NoFallbackModel, GiveUpFallback, Raises, Leave, Calling, pool
<1>3. ASSUME NEW r \in Requests, Reject(r) \/ Admit(r) PROVE TrackInv'
  BY <1>3, CallsNobody DEF Reject, Admit, Calling, pool
<1>4. ASSUME NEW r \in Requests, PlainStep(r) \/ StreamStep(r) PROVE TrackInv'
  BY <1>4, PlainTracks, StreamTracks
<1>5. CASE Poll \/ Forget \/ Share \/ Health \/ Tick
  BY <1>5, CallersStay
     DEF Poll, Forget, Share, Health, Tick, Rest, pool, Pool!HealthyCount, Pool!Tick
<1>6. CASE UNCHANGED vars
  BY <1>6, CallersStay DEF vars, pool
<1>7. QED
  BY <1>1, <1>2, <1>3, <1>4, <1>5, <1>6 DEF Next

(* The pool counts as in flight exactly the calls that requests are waiting for:   *)
(* no handler, fallback, stream, deadline or disconnect forgets a call, ends one   *)
(* twice, or ends it at another backend.                                           *)
THEOREM CallsStayTracked == Spec => []CallsAreTracked
<1>1. TrackInv => CallsAreTracked
  BY DEF TrackInv
<1>2. QED
  BY <1>1, CallInvInit, CallInvStep, TrackInvInit, TrackInvStep, PTL DEF Spec

--------------------------------------------------------------------------------
(* What a breaker's methods return is a breaker: those the pool calls, and the one *)
(* call by the server itself, on a stream whose text cannot be stored.             *)
LEMMA BreakerMethods ==
  ASSUME NEW br \in Pool!Breaker
  PROVE  /\ Pool!Refreshed(br) \in Pool!Breaker
         /\ Pool!Aged(br) \in Pool!Breaker
         /\ Pool!RecordSuccess(br) \in Pool!Breaker
         /\ Pool!RecordFailure(br) \in Pool!Breaker
         /\ RecordFailure(br) \in Pool!Breaker
<1> USE ThresholdAssumption, CooldownAssumption DEF Pool!Breaker, Pool!CircuitState
<1>1. Pool!Refreshed(br) \in Pool!Breaker
  BY DEF Pool!Refreshed
<1>2. Pool!Aged(br) \in Pool!Breaker
  BY DEF Pool!Aged
<1>3. Pool!RecordSuccess(br) \in Pool!Breaker
  BY DEF Pool!RecordSuccess
<1>4. Pool!RecordFailure(br) \in Pool!Breaker
  BY DEF Pool!RecordFailure
<1>5. RecordFailure(br) \in Pool!Breaker
  BY DEF RecordFailure
<1>6. QED
  BY <1>1, <1>2, <1>3, <1>4, <1>5

(* The pool in the server is well-typed at first ...                               *)
LEMMA PoolTypedInit == Init => Pool!TypeOK
<1>1. Pool!NewBreaker \in Pool!Breaker
  BY ThresholdAssumption, CooldownAssumption
     DEF Pool!NewBreaker, Pool!Breaker, Pool!CircuitState
<1>2. 0 \in Pool!Backends /\ 0 \in 0..MaxCalls
  BY BackendsAssumption, MaxCallsSuffices DEF Pool!Backends
<1>3. QED
  BY <1>1, <1>2 DEF Init, Pool!Init, Pool!TypeOK

(* ... and after every step, also the one the pool does not know.                  *)
LEMMA PoolTypedStep == Pool!TypeOK /\ [PoolStep]_pool => Pool!TypeOK'
<1> SUFFICES ASSUME Pool!TypeOK, [PoolStep]_pool PROVE Pool!TypeOK'
  OBVIOUS
<1>0. ASSUME breaker' \in [Pool!Backends -> Pool!Breaker], cursor' \in Pool!Backends,
             inflight' \in [Pool!Backends -> 0..MaxCalls]
      PROVE  Pool!TypeOK'
  BY <1>0 DEF Pool!TypeOK, Pool!Backends, Pool!Breaker, Pool!CircuitState
<1>1. ASSUME NEW b \in Pool!Backends, Pool!GetHealthyBackend(b) PROVE Pool!TypeOK'
  <2>1. breaker' \in [Pool!Backends -> Pool!Breaker]
    BY <1>1, BreakerMethods DEF Pool!GetHealthyBackend, Pool!TypeOK
  <2>2. cursor' \in Pool!Backends
    BY <1>1, BackendsAssumption DEF Pool!GetHealthyBackend, Pool!Backends
  <2>3. inflight' \in [Pool!Backends -> 0..MaxCalls]
    BY <1>1, MaxCallsSuffices DEF Pool!GetHealthyBackend, Pool!TypeOK
  <2>4. QED
    BY <1>0, <2>1, <2>2, <2>3
<1>2. ASSUME NEW b \in Pool!Backends,
             Pool!CallSucceeds(b) \/ Pool!CallFails(b) \/ Pool!CallCancelled(b)
      PROVE  Pool!TypeOK'
  <2>1. breaker' \in [Pool!Backends -> Pool!Breaker]
    BY <1>2, BreakerMethods
       DEF Pool!CallSucceeds, Pool!CallFails, Pool!CallCancelled, Pool!TypeOK
  <2>2. Pool!CallEnds(b)
    BY <1>2 DEF Pool!CallSucceeds, Pool!CallFails, Pool!CallCancelled
  <2>3. cursor' \in Pool!Backends /\ inflight' \in [Pool!Backends -> 0..MaxCalls]
    BY <2>2, MaxCallsSuffices DEF Pool!CallEnds, Pool!TypeOK
  <2>4. QED
    BY <1>0, <2>1, <2>3
<1>3. CASE Pool!HealthyCount \/ Pool!Tick
  BY <1>0, <1>3, BreakerMethods DEF Pool!HealthyCount, Pool!Tick, Pool!TypeOK
<1>4. ASSUME NEW r \in Requests, StreamStoreRaises(r) PROVE Pool!TypeOK'
  BY <1>0, <1>4, BreakerMethods DEF StreamStoreRaises, Pool!TypeOK
<1>5. CASE UNCHANGED pool
  BY <1>0, <1>5 DEF pool, Pool!TypeOK
<1>6. QED
  BY <1>1, <1>2, <1>3, <1>4, <1>5 DEF PoolStep, Pool!Next

(* The rest of the state: what a request is, and what the workers share.           *)
FlagInv ==
  /\ kind \in [Requests -> {"completion", "chat", "stream"}]
  /\ claimant \in [Requests -> BOOLEAN]
  /\ cached \in BOOLEAN /\ rejecting \in BOOLEAN

LEMMA FlagInvInit == Init => FlagInv
  BY KindsAssumption DEF Init, FlagInv

(* Kinds never change; only producing makes a claimant.                            *)
LEMMA FlagInvStep == FlagInv /\ [Next]_vars => FlagInv'
<1> SUFFICES ASSUME FlagInv, [Next]_vars PROVE FlagInv'
  OBVIOUS
<1> USE DEF shared
<1>1. ASSUME NEW r \in Requests, FallbackModel(r) \/ NoFallbackModel(r) PROVE FlagInv'
  BY <1>1 DEF FallbackModel, NoFallbackModel, GiveUpFallback, Raises, Leave,
     DecrementActive, FlagInv
<1>2. ASSUME NEW r \in Requests, Reject(r) \/ Admit(r) PROVE FlagInv'
  BY <1>2 DEF Reject, Admit, IncrementActive, FlagInv
<1>3. ASSUME NEW r \in Requests, PlainStep(r) PROVE FlagInv'
  <2>1. CASE CacheHit(r) \/ CacheMiss(r) \/ LookupRaises(r) \/ CoalesceRaises(r)
    BY <2>1 DEF CacheHit, CacheMiss, LookupRaises, CoalesceRaises, Leave,
       DecrementActive, FlagInv
  <2>2. CASE Produce(r) \/ ProduceFallback(r)
    BY <2>2 DEF Produce, ProduceFallback, FlagInv
  <2>3. CASE CallReturns(r) \/ StaleHit(r)
    BY <2>3 DEF CallReturns, StaleHit, Returns, Leave, DecrementActive, FlagInv
  <2>4. CASE CallRaises(r) \/ FallbackRaises(r) \/ StaleMiss(r) \/ StaleRaises(r)
    BY <2>4 DEF CallRaises, FallbackRaises, StaleMiss, StaleRaises, GiveUpFallback, Raises,
       Leave, DecrementActive, FlagInv
  <2>5. CASE PublishRaises(r) \/ Deadline(r)
    BY <2>5 DEF PublishRaises, Deadline, Leave, DecrementActive, FlagInv
  <2>6. CASE Store(r) \/ StoreRaises(r)
    BY <2>6 DEF Store, StoreRaises, FlagInv
  <2>7. QED
    BY <1>3, <2>1, <2>2, <2>3, <2>4, <2>5, <2>6 DEF PlainStep
<1>4. ASSUME NEW r \in Requests, StreamStep(r) PROVE FlagInv'
  BY <1>4 DEF StreamStep, StreamStarts, StreamHit, StreamLookupRaises, StreamCall,
     StreamFindsNone, StreamEnds, StreamRaises, StreamStore, StreamStoreRaises, Disconnect,
     Leave, DecrementActive, FlagInv
<1>5. CASE Poll \/ Forget \/ Share \/ Health \/ Tick
  BY <1>5 DEF Poll, Forget, Share, Health, Tick, Rest, FlagInv
<1>6. CASE UNCHANGED vars
  BY <1>6 DEF vars, FlagInv
<1>7. QED
  BY <1>1, <1>2, <1>3, <1>4, <1>5, <1>6 DEF Next

(* Type correctness, of the pool in the server as well.                            *)
THEOREM ServerTypes == Spec => []TypeOK
<1>1. CallInv /\ CountInv /\ FlagInv /\ Pool!TypeOK => TypeOK
  BY DEF CallInv, CountInv, FlagInv, TypeOK, Stages
<1>2. QED
  BY <1>1, CallInvInit, CallInvStep, CountInvInit, CountInvStep, FlagInvInit, FlagInvStep,
     PoolTypedInit, PoolTypedStep, UsesPoolStep, PTL DEF Spec

--------------------------------------------------------------------------------
(* What CompletionsTryStaleCache says of one request.                              *)
TriesStale(q) ==
  kind[q] = "completion" /\ pc[q] \in Producing
    /\ pc'[q] \in {"unavailable", "publish_503"} => ~cached

(* Only the moving request can be given up, and only by going to a 503.            *)
LEMMA OneGivesUp ==
  ASSUME CallInv, NEW r \in Requests, NEW to, Goto(r, to),
         \/ to \notin {"unavailable", "publish_503"}
         \/ pc[r] \notin Producing
         \/ ~cached
  PROVE  \A q \in Requests : TriesStale(q)
<1>1. pc'[r] = to /\ \A q \in Requests \ {r} : pc'[q] = pc[q]
  BY DEF CallInv, Goto
<1>2. "unavailable" \notin Producing /\ "publish_503" \notin Producing
  BY DEF Producing
<1>3. QED
  BY <1>1, <1>2 DEF TriesStale

(* So is none in a step in which no request moves.                                 *)
LEMMA NoneGivesUp == pc' = pc => \A q \in Requests : TriesStale(q)
  BY DEF TriesStale, Producing

(* A completion whose fallback model has failed as well goes on to the cache; a    *)
(* chat completion has no stale answer to try.                                     *)
LEMMA GivesUpFallback ==
  ASSUME CallInv, NEW r \in Requests, GiveUpFallback(r)
  PROVE  \A q \in Requests : TriesStale(q)
<1>1. CASE kind[r] = "completion"
  BY <1>1, OneGivesUp DEF GiveUpFallback
<1>2. CASE kind[r] # "completion"
  <2>1. \A q \in Requests \ {r} : pc'[q] = pc[q]
    BY <1>2 DEF GiveUpFallback, Raises, Leave, Goto, CallInv
  <2>2. QED
    BY <1>2, <2>1 DEF TriesStale, Producing
<1>3. QED
  BY <1>1, <1>2

(* Every step of a completion or a chat completion tries the stale cache first.    *)
LEMMA PlainTries ==
  ASSUME CallInv, NEW r \in Requests, PlainStep(r)
  PROVE  \A q \in Requests : TriesStale(q)
<1>1. CASE CacheHit(r) \/ CacheMiss(r) \/ LookupRaises(r) \/ CoalesceRaises(r)
  BY <1>1, OneGivesUp DEF CacheHit, CacheMiss, LookupRaises, CoalesceRaises, Leave
<1>2. CASE Produce(r) \/ ProduceFallback(r)
  BY <1>2, OneGivesUp DEF Produce, ProduceFallback, Call
<1>3. CASE CallReturns(r) \/ StaleHit(r)
  BY <1>3, OneGivesUp DEF CallReturns, StaleHit, Returns, Leave
<1>4. CASE CallRaises(r) \/ StaleRaises(r)
  BY <1>4, OneGivesUp DEF CallRaises, StaleRaises, Raises, Leave
<1>5. CASE FallbackRaises(r)
  BY <1>5, GivesUpFallback DEF FallbackRaises
<1>6. CASE StaleMiss(r)
  BY <1>6, OneGivesUp DEF StaleMiss, Raises, Leave
<1>7. CASE PublishRaises(r)
  BY <1>7, OneGivesUp DEF PublishRaises, Leave, Producing
<1>8. CASE Deadline(r) \/ Store(r) \/ StoreRaises(r)
  BY <1>8, OneGivesUp DEF Deadline, Leave, Store, StoreRaises
<1>9. QED
  BY <1>1, <1>2, <1>3, <1>4, <1>5, <1>6, <1>7, <1>8 DEF PlainStep

(* A stream never was producing.                                                   *)
LEMMA StreamTries ==
  ASSUME CallInv, NEW r \in Requests, StreamStep(r)
  PROVE  \A q \in Requests : TriesStale(q)
<1>1. pc[r] \notin Producing
  BY DEF StreamStep, StreamStarts, StreamHit, StreamLookupRaises, StreamCall, Call,
     StreamFindsNone, StreamEnds, StreamRaises, StreamStore, StreamStoreRaises, Disconnect,
     Streaming, Producing
<1>2. PICK to : Goto(r, to)
  BY DEF StreamStep, StreamStarts, StreamHit, StreamLookupRaises, StreamCall, Call,
     StreamFindsNone, StreamEnds, StreamRaises, StreamStore, StreamStoreRaises, Disconnect,
     Leave
<1>3. QED
  BY <1>1, <1>2, OneGivesUp

(* A completion is given up with 503 only at a moment when the cache holds no      *)
(* stale answer for it, whatever other requests and workers store or forget.       *)
THEOREM StaleCacheIsTried == Spec => CompletionsTryStaleCache
<1>1. CallInv /\ [Next]_vars => \A q \in Requests : TriesStale(q)
  <2> SUFFICES ASSUME CallInv, [Next]_vars PROVE \A q \in Requests : TriesStale(q)
    OBVIOUS
  <2>1. ASSUME NEW r \in Requests, FallbackModel(r) PROVE \A q \in Requests : TriesStale(q)
    BY <2>1, OneGivesUp DEF FallbackModel, Call
  <2>2. ASSUME NEW r \in Requests, NoFallbackModel(r) PROVE \A q \in Requests : TriesStale(q)
    BY <2>2, GivesUpFallback DEF NoFallbackModel
  <2>3. ASSUME NEW r \in Requests, Reject(r) \/ Admit(r)
        PROVE  \A q \in Requests : TriesStale(q)
    BY <2>3, OneGivesUp DEF Reject, Admit
  <2>4. ASSUME NEW r \in Requests, PlainStep(r) \/ StreamStep(r)
        PROVE  \A q \in Requests : TriesStale(q)
    BY <2>4, PlainTries, StreamTries
  <2>5. CASE Poll \/ Forget \/ Share \/ Health \/ Tick
    BY <2>5, NoneGivesUp DEF Poll, Forget, Share, Health, Tick, Rest
  <2>6. CASE UNCHANGED vars
    BY <2>6, NoneGivesUp DEF vars
  <2>7. QED
    BY <2>1, <2>2, <2>3, <2>4, <2>5, <2>6 DEF Next
<1>2. CallInv /\ [Next]_vars
        => [\A r \in Requests :
              kind[r] = "completion" /\ pc[r] \in Producing
                /\ pc'[r] \in {"unavailable", "publish_503"} => ~cached]_vars
  BY <1>1 DEF TriesStale
<1>3. QED
  BY <1>2, CallInvInit, CallInvStep, PTL DEF Spec, CompletionsTryStaleCache

--------------------------------------------------------------------------------
(* The breakers of the pool in the server: also a report that the pool is not     *)
(* owed leaves a circuit off "closed" exactly at the threshold, and half-open      *)
(* only after the cooldown.                                                        *)
Shaped(br) ==
  /\ br.state # "closed" <=> br.failures = Threshold
  /\ br.state = "half_open" => br.age >= Cooldown

ShapeInv == Pool!TypeOK /\ \A b \in Pool!Backends : Shaped(breaker[b])

(* What the methods of a well-shaped breaker return is well shaped.                *)
LEMMA MethodsShape ==
  ASSUME NEW br \in Pool!Breaker, Shaped(br)
  PROVE  /\ Shaped(Pool!Refreshed(br))
         /\ Shaped(Pool!Aged(br))
         /\ Shaped(Pool!RecordSuccess(br))
         /\ Shaped(Pool!RecordFailure(br))
         /\ Shaped(RecordFailure(br))
<1> USE ThresholdAssumption, CooldownAssumption DEF Shaped, Pool!Breaker, Pool!CircuitState
<1>1. Shaped(Pool!Refreshed(br))
  BY DEF Pool!Refreshed
<1>2. Shaped(Pool!Aged(br))
  BY DEF Pool!Aged
<1>3. Shaped(Pool!RecordSuccess(br))
  BY DEF Pool!RecordSuccess
<1>4. Shaped(Pool!RecordFailure(br))
  BY DEF Pool!RecordFailure
<1>5. Shaped(RecordFailure(br))
  BY DEF RecordFailure
<1>6. QED
  BY <1>1, <1>2, <1>3, <1>4, <1>5

(* Then the requests find a backend available unless it is cooling down.           *)
LEMMA AvailableUnlessCooling ==
  ASSUME ShapeInv, NEW b \in Pool!Backends
  PROVE  /\ Pool!IsAvailable(breaker[b]) <=> ~Cooling(b)
         /\ IsAvailable(breaker[b]) <=> ~Cooling(b)
<1>1. breaker[b] \in Pool!Breaker /\ Shaped(breaker[b])
  BY DEF ShapeInv, Pool!TypeOK
<1> USE <1>1, ThresholdAssumption, CooldownAssumption
    DEF Shaped, Cooling, Pool!Breaker, Pool!CircuitState
<1>2. Pool!IsAvailable(breaker[b]) <=> ~Cooling(b)
  BY DEF Pool!IsAvailable, Pool!Refreshed
<1>3. IsAvailable(breaker[b]) <=> ~Cooling(b)
  BY DEF IsAvailable, Refreshed
<1>4. QED
  BY <1>2, <1>3

(* Every circuit is closed at first.                                               *)
LEMMA ShapeInvInit == Init => ShapeInv
<1> SUFFICES ASSUME Init PROVE ShapeInv
  OBVIOUS
<1>1. Shaped(Pool!NewBreaker)
  BY ThresholdAssumption DEF Shaped, Pool!NewBreaker
<1>2. \A b \in Pool!Backends : Shaped(breaker[b])
  BY <1>1 DEF Init, Pool!Init
<1>3. QED
  BY <1>2, PoolTypedInit DEF ShapeInv

(* A step that sets one breaker to what a method returns.                          *)
LEMMA OneBreakerReports ==
  ASSUME ShapeInv, NEW b, NEW br, Shaped(br), breaker' = [breaker EXCEPT ![b] = br]
  PROVE  \A c \in Pool!Backends : Shaped(breaker'[c])
  BY DEF ShapeInv, Pool!TypeOK

(* Every step keeps the shape of every breaker, the stray report included.         *)
LEMMA ShapeInvStep == ShapeInv /\ [PoolStep]_pool => ShapeInv'
<1> SUFFICES ASSUME ShapeInv, [PoolStep]_pool
             PROVE  \A b \in Pool!Backends : Shaped(breaker'[b])
  BY PoolTypedStep DEF ShapeInv
<1>0. \A b \in Pool!Backends : breaker[b] \in Pool!Breaker /\ Shaped(breaker[b])
  BY DEF ShapeInv, Pool!TypeOK
<1>1. ASSUME NEW b \in Pool!Backends,
             \/ Pool!GetHealthyBackend(b) \/ Pool!CallSucceeds(b) \/ Pool!CallFails(b)
      PROVE  \A c \in Pool!Backends : Shaped(breaker'[c])
  BY <1>0, <1>1, MethodsShape, OneBreakerReports
     DEF Pool!GetHealthyBackend, Pool!CallSucceeds, Pool!CallFails
<1>2. ASSUME NEW b \in Pool!Backends, Pool!CallCancelled(b)
      PROVE  \A c \in Pool!Backends : Shaped(breaker'[c])
  BY <1>0, <1>2 DEF Pool!CallCancelled
<1>3. CASE Pool!HealthyCount \/ Pool!Tick
  BY <1>0, <1>3, MethodsShape DEF Pool!HealthyCount, Pool!Tick
<1>4. ASSUME NEW r \in Requests, StreamStoreRaises(r)
      PROVE  \A c \in Pool!Backends : Shaped(breaker'[c])
  <2>1. CASE target[r] \in Pool!Backends
    BY <1>0, <1>4, <2>1, MethodsShape, OneBreakerReports DEF StreamStoreRaises
  <2>2. CASE target[r] \notin Pool!Backends
    BY <1>0, <1>4, <2>2 DEF StreamStoreRaises, ShapeInv, Pool!TypeOK
  <2>3. QED
    BY <2>1, <2>2
<1>5. CASE UNCHANGED pool
  BY <1>0, <1>5 DEF pool
<1>6. QED
  BY <1>1, <1>2, <1>3, <1>4, <1>5 DEF PoolStep, Pool!Next

(* Only a pick adds to the calls of a backend.                                     *)
LEMMA PicksSpareCooling ==
  ASSUME ShapeInv, [PoolStep]_pool, NEW b \in Pool!Backends, inflight'[b] > inflight[b]
  PROVE  ~Cooling(b)
<1>0. inflight \in [Pool!Backends -> 0..MaxCalls]
  BY DEF ShapeInv, Pool!TypeOK
<1>1. ASSUME NEW c \in Pool!Backends, Pool!CallEnds(c) PROVE FALSE
  BY <1>0, <1>1, MaxCallsSuffices DEF Pool!CallEnds
<1>2. ASSUME inflight' = inflight PROVE FALSE
  BY <1>0, <1>2, MaxCallsSuffices
<1>3. PICK c \in Pool!Backends : Pool!GetHealthyBackend(c)
  BY <1>1, <1>2 DEF PoolStep, Pool!Next, Pool!CallSucceeds, Pool!CallFails,
     Pool!CallCancelled, Pool!HealthyCount, Pool!Tick, StreamStoreRaises, pool
<1>4. b = c
  <2>1. inflight' = [inflight EXCEPT ![c] = @ + 1]
    BY <1>3 DEF Pool!GetHealthyBackend
  <2>2. QED
    BY <1>0, <2>1, MaxCallsSuffices
<1>5. Pool!IsAvailable(breaker[b])
  BY <1>3, <1>4 DEF Pool!GetHealthyBackend, Pool!ScanFinds
<1>6. QED
  BY <1>5, AvailableUnlessCooling

(* No request of any kind is sent to a backend that is cooling down, whatever the  *)
(* server reports, for any requests, backends, threshold and cooldown.             *)
THEOREM CoolingBackendsAreSpared == Spec => SparesCoolingBackends
<1>1. CallInv /\ ShapeInv /\ [Next]_vars
        => [\A b \in Pool!Backends : inflight'[b] > inflight[b] => ~Cooling(b)]_vars
  BY UsesPoolStep, PicksSpareCooling
<1>2. CallInv /\ ShapeInv /\ [Next]_vars => ShapeInv'
  BY UsesPoolStep, ShapeInvStep
<1>3. QED
  BY <1>1, <1>2, CallInvInit, CallInvStep, ShapeInvInit, PTL
     DEF Spec, SparesCoolingBackends

--------------------------------------------------------------------------------
(* What FallsBackInOutageOnly says of one request.                                 *)
FallsBack(q) ==
  \/ pc[q] = "coalesce" /\ pc'[q] = "fallback"
  \/ pc[q] = "stream_lookup" /\ pc'[q] = "unavailable"

NobodyFallsBack == \A q \in Requests : ~FallsBack(q)

(* Only the moving request can fall back, from one of two places to another two.   *)
LEMMA OneFallsBack ==
  ASSUME CallInv, NEW r \in Requests, NEW to, Goto(r, to),
         pc[r] = "coalesce" => to # "fallback",
         pc[r] = "stream_lookup" => to # "unavailable"
  PROVE  NobodyFallsBack
<1>1. pc'[r] = to /\ \A q \in Requests \ {r} : pc'[q] = pc[q]
  BY DEF CallInv, Goto
<1>2. QED
  BY <1>1 DEF NobodyFallsBack, FallsBack

(* A completion or a chat completion falls back when no backend is available.      *)
LEMMA PlainFallsBack ==
  ASSUME CallInv, NEW r \in Requests, PlainStep(r)
  PROVE  NobodyFallsBack \/ NoHealthyBackend
<1>1. CASE CacheHit(r) \/ CacheMiss(r) \/ LookupRaises(r) \/ CoalesceRaises(r)
  BY <1>1, OneFallsBack DEF CacheHit, CacheMiss, LookupRaises, CoalesceRaises, Leave
<1>2. CASE Produce(r)
  BY <1>2, OneFallsBack DEF Produce, Call
<1>3. CASE ProduceFallback(r)
  BY <1>3 DEF ProduceFallback
<1>4. CASE CallReturns(r) \/ StaleHit(r)
  BY <1>4, OneFallsBack DEF CallReturns, StaleHit, Returns, Leave
<1>5. CASE CallRaises(r) \/ FallbackRaises(r)
  BY <1>5, OneFallsBack DEF CallRaises, FallbackRaises, GiveUpFallback, Raises, Leave
<1>6. CASE StaleMiss(r) \/ StaleRaises(r)
  BY <1>6, OneFallsBack DEF StaleMiss, StaleRaises, Raises, Leave
<1>7. CASE PublishRaises(r)
  BY <1>7, OneFallsBack DEF PublishRaises, Leave
<1>8. CASE Deadline(r) \/ Store(r) \/ StoreRaises(r)
  BY <1>8, OneFallsBack DEF Deadline, Leave, Store, StoreRaises
<1>9. QED
  BY <1>1, <1>2, <1>3, <1>4, <1>5, <1>6, <1>7, <1>8 DEF PlainStep

(* A stream ends with 503 when no backend is available.                            *)
LEMMA StreamFallsBack ==
  ASSUME CallInv, NEW r \in Requests, StreamStep(r)
  PROVE  NobodyFallsBack \/ NoHealthyBackend
<1>1. CASE StreamFindsNone(r)
  BY <1>1 DEF StreamFindsNone
<1>2. CASE StreamStarts(r) \/ StreamHit(r) \/ StreamLookupRaises(r) \/ StreamCall(r)
  BY <1>2, OneFallsBack DEF StreamStarts, StreamHit, StreamLookupRaises, StreamCall, Call,
     Leave
<1>3. CASE StreamEnds(r) \/ StreamRaises(r) \/ StreamStore(r) \/ StreamStoreRaises(r)
  BY <1>3, OneFallsBack DEF StreamEnds, StreamRaises, StreamStore, StreamStoreRaises, Leave
<1>4. CASE Disconnect(r)
  BY <1>4, OneFallsBack DEF Disconnect, Leave
<1>5. QED
  BY <1>1, <1>2, <1>3, <1>4 DEF StreamStep

(* Nobody else does, in any step.                                                  *)
LEMMA FallsBackOnce == CallInv /\ [Next]_vars => NobodyFallsBack \/ NoHealthyBackend
<1> SUFFICES ASSUME CallInv, [Next]_vars PROVE NobodyFallsBack \/ NoHealthyBackend
  OBVIOUS
<1>1. ASSUME NEW r \in Requests, FallbackModel(r) PROVE NobodyFallsBack
  BY <1>1, OneFallsBack DEF FallbackModel, Call
<1>2. ASSUME NEW r \in Requests, NoFallbackModel(r) PROVE NobodyFallsBack
  BY <1>2, OneFallsBack DEF NoFallbackModel, GiveUpFallback, Raises, Leave
<1>3. ASSUME NEW r \in Requests, Reject(r) \/ Admit(r) PROVE NobodyFallsBack
  BY <1>3, OneFallsBack DEF Reject, Admit
<1>4. ASSUME NEW r \in Requests, PlainStep(r) \/ StreamStep(r)
      PROVE  NobodyFallsBack \/ NoHealthyBackend
  BY <1>4, PlainFallsBack, StreamFallsBack
<1>5. CASE Poll \/ Forget \/ Share \/ Health \/ Tick \/ UNCHANGED vars
  <2>1. pc' = pc
    BY <1>5 DEF Poll, Forget, Share, Health, Tick, Rest, vars
  <2>2. QED
    BY <2>1 DEF NobodyFallsBack, FallsBack
<1>6. QED
  BY <1>1, <1>2, <1>3, <1>4, <1>5 DEF Next

(* Fallback and 503 mean an outage: at that moment every backend has failed as     *)
(* often in a row as the threshold says and is inside its cooldown.                *)
THEOREM FallbackMeansOutage == Spec => FallsBackInOutageOnly
<1>1. ShapeInv /\ NoHealthyBackend => \A b \in Pool!Backends : Cooling(b)
  BY AvailableUnlessCooling DEF NoHealthyBackend
<1>2. CallInv /\ ShapeInv /\ [Next]_vars
        => [\A r \in Requests :
              \/ pc[r] = "coalesce" /\ pc'[r] = "fallback"
              \/ pc[r] = "stream_lookup" /\ pc'[r] = "unavailable"
              => \A b \in Pool!Backends : Cooling(b)]_vars
  BY <1>1, FallsBackOnce DEF NobodyFallsBack, FallsBack
<1>3. CallInv /\ ShapeInv /\ [Next]_vars => ShapeInv'
  BY UsesPoolStep, ShapeInvStep
<1>4. QED
  BY <1>2, <1>3, CallInvInit, CallInvStep, ShapeInvInit, PTL
     DEF Spec, FallsBackInOutageOnly

================================================================================
