--------------------------- MODULE ResponseCacheProofs ---------------------------
(* What the cache keeps, for any finite set of keys, any clients and any max_size: *)
(* no value out of reach of eviction without overlap, the bound of the sorted set   *)
(* without ghosts, and what an undisturbed use or eviction leaves.                  *)
EXTENDS ResponseCacheHistory, FiniteSetTheorems, TLAPS

(* What a client can be about to send, as TypeOK has it.                           *)
Locals ==
  {Idle, [at |-> "count"], [at |-> "unset"]}
    \cup [at : {"touch", "store"}, key : Keys, stamp : 1..MaxClock]
    \cup [at : {"hit", "forget"}, key : Keys]
    \cup [at : {"range"}, overflow : 1..Cardinality(Keys)]
    \cup [at : {"drop", "untrack", "wipe"}, keys : SUBSET Keys]

--------------------------------------------------------------------------------
(* Types.                                                                          *)

LEMMA CacheTypedInit == Init => TypeOK
<1>1. 0 \in 0..MaxClock
  BY MaxClockAssumption
<1>2. QED
  BY <1>1 DEF Init, TypeOK

(* What a command finds in its client's arguments.                                 *)
LEMMA Arguments ==
  ASSUME TypeOK, NEW c \in Clients
  PROVE  /\ At(c, "touch") \/ At(c, "store") =>
              local[c].key \in Keys /\ local[c].stamp \in 1..MaxClock
         /\ At(c, "hit") \/ At(c, "forget") => local[c].key \in Keys
         /\ At(c, "drop") \/ At(c, "untrack") \/ At(c, "wipe") => local[c].keys \subseteq Keys
         /\ At(c, "idle") <=> local[c] = Idle
<1>1. local[c] \in Locals
  BY DEF TypeOK, Locals
<1>2. QED
  BY <1>1 DEF Locals, At, Idle

(* The members counted are keys, and their surplus is no larger than their number. *)
LEMMA SurplusTyped ==
  ASSUME TypeOK, ~(Cardinality(Tracked) <= MaxSize)
  PROVE  Cardinality(Tracked) - MaxSize \in 1..Cardinality(Keys)
<1>1. Tracked \subseteq Keys
  BY DEF Tracked
<1>2. /\ IsFiniteSet(Tracked)
      /\ Cardinality(Tracked) <= Cardinality(Keys)
  BY <1>1, KeysAssumption, FS_Subset
<1>3. Cardinality(Tracked) \in Nat /\ Cardinality(Keys) \in Nat
  BY <1>2, KeysAssumption, FS_CardinalityType
<1>4. QED
  BY <1>2, <1>3, MaxSizeAssumption

(* A step of the cache that leaves its client with a typed stage keeps the types.  *)
LEMMA ThenTyped ==
  ASSUME TypeOK, NEW c \in Clients, NEW next \in Locals, Then(c, next),
         live' \subseteq Keys, score' \in [Keys -> 0..MaxClock], clock' \in 0..MaxClock
  PROVE  TypeOK'
<1>1. local \in [Clients -> Locals]
  BY DEF TypeOK, Locals
<1>2. local' \in [Clients -> Locals]
  BY <1>1 DEF Then
<1>3. QED
  BY <1>2 DEF TypeOK, Locals

(* Every command keeps the types.                                                  *)
LEMMA CacheTypedStep ==
  ASSUME TypeOK, NEW c \in Clients, Step(c) \/ Abandon(c)
  PROVE  TypeOK'
<1>0. /\ live \subseteq Keys /\ score \in [Keys -> 0..MaxClock] /\ clock \in 0..MaxClock
      /\ MaxClock \in Nat /\ 0 \in 0..MaxClock
  BY MaxClockAssumption DEF TypeOK
<1>a. Idle \in Locals /\ [at |-> "count"] \in Locals /\ [at |-> "unset"] \in Locals
  BY DEF Locals
<1>1. ASSUME NEW k \in Keys, NEW stage \in {"touch", "store"}, Stamped(c, stage, k),
             UNCHANGED <<live, score>>
      PROVE  TypeOK'
  <2>1. clock' = clock + 1 /\ clock' \in 1..MaxClock
    BY <1>0, <1>1 DEF Stamped
  <2>2. [at |-> stage, key |-> k, stamp |-> clock'] \in Locals
    BY <2>1 DEF Locals
  <2>3. QED
    BY <1>0, <1>1, <2>1, <2>2, ThenTyped DEF Stamped
<1>b. CASE Refresh(c)
  BY <1>1, <1>b, Arguments DEF Refresh
<1>c. ASSUME NEW k \in Keys, Put(c, k) PROVE TypeOK'
  BY <1>1, <1>c DEF Put
<1>2. ASSUME NEW k \in Keys, GetHit(c, k) \/ Invalidate(c, k) PROVE TypeOK'
  <2>1. [at |-> "forget", key |-> k] \in Locals /\ [at |-> "hit", key |-> k] \in Locals
    BY DEF Locals
  <2>2. QED
    BY <1>0, <1>2, <2>1, ThenTyped DEF GetHit, Invalidate
<1>3. CASE Touch(c)
  BY <1>0, <1>3, <1>a, Arguments, ThenTyped DEF Touch
<1>4. CASE Store(c)
  <2>1. local[c].key \in Keys /\ local[c].stamp \in 0..MaxClock
    BY <1>4, Arguments DEF Store
  <2>2. QED
    BY <1>0, <1>4, <1>a, <2>1, ThenTyped DEF Store
<1>5. CASE Count(c)
  <2>1. CASE Cardinality(Tracked) <= MaxSize
    BY <1>0, <1>5, <1>a, <2>1, ThenTyped DEF Count
  <2>2. CASE ~(Cardinality(Tracked) <= MaxSize)
    <3> DEFINE surplus == Cardinality(Tracked) - MaxSize
    <3>1. surplus \in 1..Cardinality(Keys)
      BY <2>2, SurplusTyped
    <3>2. Then(c, [at |-> "range", overflow |-> surplus])
      BY <1>5, <2>2 DEF Count
    <3> HIDE DEF surplus
    <3>3. [at |-> "range", overflow |-> surplus] \in Locals
      BY <3>1 DEF Locals
    <3>4. QED
      BY <1>0, <1>5, <3>2, <3>3, ThenTyped DEF Count
  <2>3. QED
    BY <2>1, <2>2
<1>6. CASE ListOldest(c)
  <2> DEFINE victims == Oldest(local[c].overflow)
  <2>1. victims \subseteq Keys
    BY DEF Oldest, Tracked
  <2>2. Then(c, IF victims = {} THEN Idle ELSE [at |-> "drop", keys |-> victims])
    BY <1>6 DEF ListOldest
  <2> HIDE DEF victims
  <2>3. [at |-> "drop", keys |-> victims] \in Locals
    BY <2>1 DEF Locals
  <2>4. QED
    BY <1>0, <1>6, <1>a, <2>2, <2>3, ThenTyped DEF ListOldest
<1>7. CASE Drop(c)
  <2>1. [at |-> "untrack", keys |-> local[c].keys] \in Locals
    BY <1>7, Arguments DEF Drop, Locals
  <2>2. QED
    BY <1>0, <1>7, <2>1, ThenTyped DEF Drop
<1>8. CASE Untrack(c)
  BY <1>0, <1>8, <1>a, ThenTyped DEF Untrack
<1>9. CASE Forget(c)
  BY <1>0, <1>9, <1>a, ThenTyped DEF Forget
<1>10. CASE Clear(c)
  <2>1. [at |-> "wipe", keys |-> Tracked] \in Locals
    BY DEF Tracked, Locals
  <2>2. QED
    BY <1>0, <1>10, <1>a, <2>1, ThenTyped DEF Clear
<1>11. CASE Wipe(c)
  BY <1>0, <1>11, <1>a, ThenTyped DEF Wipe
<1>12. CASE Unset(c)
  BY <1>0, <1>12, <1>a, ThenTyped DEF Unset
<1>13. CASE Abandon(c)
  BY <1>0, <1>13, <1>a, ThenTyped DEF Abandon
<1>14. QED
  BY <1>b, <1>c, <1>2, <1>3, <1>4, <1>5, <1>6, <1>7, <1>8, <1>9, <1>10, <1>11, <1>12, <1>13
     DEF Step

--------------------------------------------------------------------------------
(* Calls one after another.                                                        *)

(* Between two commands of a call the other Redis key is already, or still, right: *)
(* a member is only removed when its value is gone.                                *)
HalfDone(c) ==
  /\ At(c, "forget") => local[c].key \notin live
  /\ At(c, "untrack") => local[c].keys \cap live = {}
  /\ At(c, "wipe") => live \subseteq local[c].keys
  /\ At(c, "unset") => live = {}

(* As long as no calls have overlapped, at most one is in progress.                *)
Sequential == \A c, d \in Clients : local[c] # Idle /\ local[d] # Idle => c = d

QuietInv ==
  ~overlapped => /\ Sequential
                 /\ live \subseteq Tracked
                 /\ \A c \in Clients : HalfDone(c)

LEMMA QuietInit == HInit => QuietInv
  BY DEF HInit, Init, QuietInv, Sequential, HalfDone, At, Idle

(* Every command belongs to a call that was in progress, or begins one.            *)
LEMMA CallInProgress ==
  ASSUME TypeOK, NEW c \in Clients, Step(c) \/ Abandon(c)
  PROVE  local[c] # Idle \/ local'[c] # Idle
<1>0. local \in [Clients -> Locals]
  BY DEF TypeOK, Locals
<1>1. ASSUME NEW k \in Keys, Put(c, k) PROVE local'[c] # Idle
  BY <1>0, <1>1 DEF Put, Stamped, Then, Idle
<1>2. ASSUME NEW k \in Keys, GetHit(c, k) \/ Invalidate(c, k) PROVE local'[c] # Idle
  BY <1>0, <1>2 DEF GetHit, Invalidate, Then, Idle
<1>3. CASE Clear(c)
  BY <1>0, <1>3 DEF Clear, Then, Idle
<1>4. CASE Abandon(c)
  BY <1>4 DEF Abandon
<1>5. CASE Refresh(c) \/ Touch(c) \/ Store(c) \/ Count(c) \/ ListOldest(c) \/ Drop(c)
           \/ Untrack(c) \/ Forget(c) \/ Wipe(c) \/ Unset(c)
  BY <1>5 DEF Refresh, Touch, Store, Count, ListOldest, Drop, Untrack, Forget, Wipe, Unset, At, Idle
<1>6. QED
  BY <1>1, <1>2, <1>3, <1>4, <1>5 DEF Step

(* If it overlaps no other, all other clients are idle.                            *)
LEMMA OthersAreIdle ==
  ASSUME TypeOK, QuietInv, NEW c \in Clients, Step(c) \/ Abandon(c), HNext, ~overlapped'
  PROVE  /\ ~overlapped
         /\ \A d \in Clients \ {c} : local[d] = Idle /\ local'[d] = Idle
<1>1. ~overlapped /\ \A b \in Clients : local'[b] # Idle => ~Overlaps(b)
  BY DEF HNext
<1>2. \A d \in Clients \ {c} : local'[d] = local[d]
  <2>1. PICK next : Then(c, next)
    BY DEF Step, Abandon, GetHit, Refresh, Put, Stamped, Invalidate, Touch, Store, Count,
       ListOldest, Drop, Untrack, Forget, Clear, Wipe, Unset
  <2>2. QED
    BY <2>1 DEF TypeOK, Then
<1>3. CASE local'[c] # Idle
  BY <1>1, <1>2, <1>3 DEF Overlaps
<1>4. CASE local[c] # Idle
  BY <1>1, <1>2, <1>4 DEF QuietInv, Sequential
<1>5. QED
  BY <1>1, <1>3, <1>4, CallInProgress

(* So the invariant is about the client whose command it is alone.                 *)
LEMMA AloneIsEnough ==
  ASSUME NEW c \in Clients, \A d \in Clients \ {c} : local'[d] = Idle,
         (live \subseteq Tracked)', HalfDone(c)'
  PROVE  QuietInv'
<1>1. \A d \in Clients \ {c} : HalfDone(d)'
  BY DEF HalfDone, At, Idle
<1>2. QED
  BY <1>1 DEF QuietInv, Sequential

(* A command of a call that has Redis to itself keeps every value tracked.         *)
LEMMA QuietCommand ==
  ASSUME TypeOK, QuietInv, NEW c \in Clients, Step(c) \/ Abandon(c), HNext, ~overlapped'
  PROVE  (live \subseteq Tracked)' /\ HalfDone(c)'
<1>0. /\ live \subseteq Tracked /\ HalfDone(c)
      /\ live \subseteq Keys /\ score \in [Keys -> 0..MaxClock]
      /\ local \in [Clients -> Locals] /\ MaxClock \in Nat
  BY OthersAreIdle, MaxClockAssumption DEF QuietInv, TypeOK, Locals
<1>1. CASE Refresh(c) \/ \E k \in Keys : GetHit(c, k) \/ Put(c, k)
  BY <1>0, <1>1 DEF GetHit, Refresh, Put, Stamped, Then, HalfDone, At, Tracked
<1>2. ASSUME NEW k \in Keys, Invalidate(c, k) PROVE (live \subseteq Tracked)' /\ HalfDone(c)'
  BY <1>0, <1>2 DEF Invalidate, Then, HalfDone, At, Tracked
<1>3. CASE Touch(c) \/ Store(c)
  <2>1. local[c].key \in Keys /\ local[c].stamp \in 1..MaxClock
    BY <1>3, Arguments DEF Touch, Store
  <2>2. score'[local[c].key] > 0
        /\ \A k \in Keys : k # local[c].key => score'[k] = score[k]
    BY <1>0, <1>3, <2>1 DEF Touch, Store
  <2>3. live' \subseteq live \cup {local[c].key}
    BY <1>3 DEF Touch, Store
  <2>4. (live \subseteq Tracked)'
    BY <1>0, <2>1, <2>2, <2>3 DEF Tracked
  <2>5. HalfDone(c)'
    BY <1>0, <1>3 DEF Touch, Store, Then, HalfDone, At, Idle
  <2>6. QED
    BY <2>4, <2>5
<1>4. CASE Count(c) \/ ListOldest(c)
  <2>1. live' = live /\ score' = score
    BY <1>4 DEF Count, ListOldest
  <2>2. local'[c] = Idle \/ At(c, "range")' \/ At(c, "drop")'
    BY <1>0, <1>4 DEF Count, ListOldest, Then, At
  <2>3. HalfDone(c)'
    BY <2>2 DEF HalfDone, At, Idle
  <2>4. QED
    BY <1>0, <2>1, <2>3 DEF Tracked
<1>5. CASE Drop(c)
  BY <1>0, <1>5 DEF Drop, Then, HalfDone, At, Tracked
<1>6. CASE Untrack(c)
  <2>1. local[c].keys \cap live = {} /\ live' = live
    BY <1>0, <1>6 DEF Untrack, HalfDone
  <2>2. (live \subseteq Tracked)'
    BY <1>0, <1>6, <2>1 DEF Untrack, Tracked
  <2>3. HalfDone(c)'
    BY <1>0, <1>6 DEF Untrack, Then, HalfDone, At, Idle
  <2>4. QED
    BY <2>2, <2>3
<1>7. CASE Forget(c)
  <2>1. local[c].key \notin live /\ live' = live
    BY <1>0, <1>7 DEF Forget, HalfDone
  <2>2. (live \subseteq Tracked)'
    BY <1>0, <1>7, <2>1 DEF Forget, Tracked
  <2>3. HalfDone(c)'
    BY <1>0, <1>7 DEF Forget, Then, HalfDone, At, Idle
  <2>4. QED
    BY <2>2, <2>3
<1>8. CASE Clear(c)
  BY <1>0, <1>8 DEF Clear, Then, HalfDone, At, Tracked
<1>9. CASE Wipe(c)
  <2>1. live' = {}
    BY <1>0, <1>9 DEF Wipe, HalfDone
  <2>2. HalfDone(c)'
    BY <2>1 DEF HalfDone
  <2>3. QED
    BY <2>1, <2>2
<1>10. CASE Unset(c)
  <2>1. live' = {}
    BY <1>0, <1>10 DEF Unset, HalfDone
  <2>2. HalfDone(c)'
    BY <2>1 DEF HalfDone
  <2>3. QED
    BY <2>1, <2>2
<1>11. CASE Abandon(c)
  BY <1>0, <1>11 DEF Abandon, Then, HalfDone, At, Idle, Tracked
<1>12. QED
  BY <1>1, <1>2, <1>3, <1>4, <1>5, <1>6, <1>7, <1>8, <1>9, <1>10, <1>11 DEF Step

(* TypeOK and QuietInv are inductive.                                              *)
LEMMA QuietStep == TypeOK /\ QuietInv /\ [HNext]_hvars => TypeOK' /\ QuietInv'
<1> SUFFICES ASSUME TypeOK, QuietInv, [HNext]_hvars PROVE TypeOK' /\ QuietInv'
  OBVIOUS
<1>1. ASSUME HNext, NEW c \in Clients, Step(c) \/ Abandon(c) PROVE TypeOK' /\ QuietInv'
  <2>1. CASE overlapped'
    BY <1>1, <2>1, CacheTypedStep DEF QuietInv
  <2>2. CASE ~overlapped'
    BY <1>1, <2>2, CacheTypedStep, OthersAreIdle, QuietCommand, AloneIsEnough
  <2>3. QED
    BY <2>1, <2>2
<1>2. ASSUME HNext, NEW k \in Keys, Expire(k) PROVE TypeOK' /\ QuietInv'
  <2>1. ~overlapped' => ~overlapped
    BY <1>2 DEF HNext
  <2>2. QED
    BY <1>2, <2>1 DEF Expire, TypeOK, QuietInv, Sequential, HalfDone, At, Tracked
<1>3. CASE UNCHANGED hvars
  BY <1>3 DEF hvars, TypeOK, QuietInv, Sequential, HalfDone, At, Tracked
<1>4. QED
  BY <1>1, <1>2, <1>3 DEF HNext

--------------------------------------------------------------------------------
(* What ZRANGE lists.                                                              *)

(* Those members of T that have fewer than n others below them.                    *)
Lowest(T, f, n) == {k \in T : Cardinality({j \in T : f[j] < f[k]}) < n}

(* Of a finite set whose members have different scores, n have fewer than n others *)
(* below them: ranks are a bijection with 0..Cardinality(T)-1.                     *)
LEMMA LowestAreN ==
  ASSUME NEW T, IsFiniteSet(T), NEW f \in [T -> Nat],
         \A j, k \in T : f[j] = f[k] => j = k,
         NEW n \in Nat, n <= Cardinality(T)
  PROVE  IsFiniteSet(Lowest(T, f, n)) /\ Cardinality(Lowest(T, f, n)) = n
<1> DEFINE Below(k) == {j \in T : f[j] < f[k]}
           m == Cardinality(T)
           rank == [k \in T |-> Cardinality(Below(k))]
           low == {k \in T : rank[k] < n}
           g == [k \in low |-> rank[k]]
<1>0. m \in Nat
  BY FS_CardinalityType
<1>1. ASSUME NEW k \in T PROVE IsFiniteSet(Below(k)) /\ Cardinality(Below(k)) \in 0..(m-1)
  <2>1. IsFiniteSet(T \ {k}) /\ Cardinality(T \ {k}) = m - 1
    BY FS_RemoveElement
  <2>2. Below(k) \subseteq T \ {k}
    OBVIOUS
  <2>3. IsFiniteSet(Below(k)) /\ Cardinality(Below(k)) <= m - 1
    BY <2>1, <2>2, FS_Subset
  <2>4. QED
    BY <1>0, <2>3, FS_CardinalityType
<1>2. ASSUME NEW j \in T, NEW k \in T, f[j] < f[k]
      PROVE  Cardinality(Below(j)) # Cardinality(Below(k))
  <2>1. Below(j) \subseteq Below(k)
    BY <1>2
  <2>2. j \in Below(k) /\ j \notin Below(j)
    BY <1>2
  <2>3. QED
    BY <1>1, <2>1, <2>2, FS_Subset
<1>3. ASSUME NEW j \in T, NEW k \in T, rank[j] = rank[k] PROVE j = k
  <2>1. f[j] \in Nat /\ f[k] \in Nat
    OBVIOUS
  <2>2. ~(f[j] < f[k]) /\ ~(f[k] < f[j])
    BY <1>2, <1>3
  <2>3. f[j] = f[k]
    BY <2>1, <2>2
  <2>4. QED
    BY <2>3
<1>4. rank \in [T -> 0..(m-1)]
  BY <1>1
<1>5. rank \in Injection(T, 0..(m-1))
  BY <1>3, <1>4 DEF Injection, IsInjective
<1>6. IsFiniteSet(0..(m-1)) /\ Cardinality(0..(m-1)) = m
  <2>1. m - 1 \in Int /\ 0 \in Int
    BY <1>0
  <2> HIDE DEF m
  <2>2. /\ IsFiniteSet(0..(m-1))
        /\ Cardinality(0..(m-1)) = IF 0 > m - 1 THEN 0 ELSE (m - 1) - 0 + 1
    BY <2>1, FS_Interval
  <2>3. QED
    BY <1>0, <2>2
<1> HIDE DEF rank
<1>7. rank \in Surjection(T, 0..(m-1))
  BY <1>5, <1>6, FS_Injection
<1>8. ASSUME NEW i \in 0..(n-1) PROVE \E k \in low : g[k] = i
  <2>1. i \in 0..(m-1) /\ i < n
    BY <1>0
  <2>2. PICK k \in T : rank[k] = i
    BY <1>7, <2>1 DEF Surjection
  <2>3. k \in low
    BY <2>1, <2>2
  <2>4. QED
    BY <2>2, <2>3
<1>9. g \in [low -> 0..(n-1)]
  <2>1. ASSUME NEW k \in low PROVE rank[k] \in 0..(n-1)
    BY <1>0, <1>4
  <2>2. QED
    BY <2>1
<1>10. \A j, k \in low : g[j] = g[k] => j = k
  BY <1>3
<1>11. IsFiniteSet(low)
  <2>1. low \subseteq T
    OBVIOUS
  <2>2. QED
    BY <2>1, FS_Subset
<1> HIDE DEF low, g
<1>12. g \in Bijection(low, 0..(n-1))
  BY <1>8, <1>9, <1>10 DEF Bijection, Injection, IsInjective, Surjection
<1>13. Cardinality(0..(n-1)) = Cardinality(low)
  BY <1>11, <1>12, FS_Bijection DEF ExistsBijection
<1>14. Cardinality(0..(n-1)) = n
  BY FS_Interval
<1>15. low = Lowest(T, f, n)
  BY DEF low, rank, Lowest
<1>16. QED
  BY <1>11, <1>13, <1>14, <1>15

--------------------------------------------------------------------------------
(* Scores are readings of a clock that never reads the same twice.                 *)

Pending(c) == At(c, "touch") \/ At(c, "store")

StampInv ==
  /\ \A k \in Keys : score[k] <= clock
  /\ \A j, k \in Keys : score[j] = score[k] /\ score[j] > 0 => j = k
  /\ \A c \in Clients : Pending(c) =>
       /\ local[c].stamp <= clock
       /\ \A k \in Keys : score[k] # local[c].stamp
       /\ \A d \in Clients \ {c} : Pending(d) => local[d].stamp # local[c].stamp

LEMMA StampInit == Init => StampInv
  BY DEF Init, StampInv, Pending, At, Idle

(* A step that reads no clock and writes no score, or forgets some, keeps them so. *)
LEMMA NothingStamped ==
  ASSUME TypeOK, StampInv, NEW c \in Clients, NEW next \in Locals, Then(c, next),
         next.at \notin {"touch", "store"}, clock' = clock,
         \A k \in Keys : score'[k] \in {0, score[k]}
  PROVE  StampInv'
<1>1. local \in [Clients -> Locals] /\ score \in [Keys -> 0..MaxClock] /\ clock \in Nat
  BY DEF TypeOK, Locals
<1>2. ~Pending(c)' /\ \A d \in Clients \ {c} : local'[d] = local[d]
  BY <1>1 DEF Then, Pending, At
<1>3. \A d \in Clients : Pending(d)' => Pending(d) /\ local'[d] = local[d]
  BY <1>2 DEF Pending, At
<1>4. \A d \in Clients : Pending(d) => local[d].stamp \in 1..MaxClock
  BY Arguments DEF Pending
<1>5. \A k \in Keys : score'[k] <= clock'
  BY <1>1 DEF StampInv
<1>6. \A j, k \in Keys : score'[j] = score'[k] /\ score'[j] > 0 => j = k
  BY <1>1 DEF StampInv
<1>7. ASSUME NEW d \in Clients, Pending(d)'
      PROVE  /\ local'[d].stamp <= clock'
             /\ \A k \in Keys : score'[k] # local'[d].stamp
             /\ \A b \in Clients \ {d} : Pending(b)' => local'[b].stamp # local'[d].stamp
  BY <1>1, <1>3, <1>4, <1>7 DEF StampInv
<1>8. QED
  BY <1>5, <1>6, <1>7 DEF StampInv

(* A reading is later than all that went before ...                                *)
LEMMA ReadingIsNew ==
  ASSUME TypeOK, StampInv, NEW c \in Clients, Refresh(c) \/ \E k \in Keys : Put(c, k)
  PROVE  StampInv'
<1>1. local \in [Clients -> Locals] /\ score \in [Keys -> 0..MaxClock] /\ clock \in Nat
  BY DEF TypeOK, Locals
<1>2. clock' = clock + 1 /\ score' = score
  BY DEF Refresh, Put, Stamped
<1>3. local'[c].stamp = clock + 1 /\ \A d \in Clients \ {c} : local'[d] = local[d]
  BY <1>1, <1>2 DEF Refresh, Put, Stamped, Then
<1>4. \A d \in Clients \ {c} : Pending(d)' <=> Pending(d)
  BY <1>3 DEF Pending, At
<1>5. \A d \in Clients : Pending(d) => local[d].stamp \in 1..MaxClock
  BY Arguments DEF Pending
<1>6. \A j \in Keys : score[j] \in Nat /\ score[j] <= clock
  BY <1>1 DEF StampInv
<1>7. ASSUME NEW d \in Clients, Pending(d)'
      PROVE  /\ local'[d].stamp <= clock'
             /\ \A j \in Keys : score'[j] # local'[d].stamp
             /\ \A b \in Clients \ {d} : Pending(b)' => local'[b].stamp # local'[d].stamp
  <2>1. CASE d = c
    <3>1. ASSUME NEW b \in Clients \ {c}, Pending(b)' PROVE local'[b].stamp # clock + 1
      BY <1>1, <1>3, <1>4, <1>5, <3>1 DEF StampInv
    <3>2. QED
      BY <1>1, <1>2, <1>3, <1>6, <2>1, <3>1
  <2>2. CASE d # c
    <3>1. Pending(d) /\ local'[d] = local[d] /\ local[d].stamp \in Nat
          /\ local[d].stamp <= clock
      BY <1>3, <1>4, <1>5, <1>7, <2>2 DEF StampInv
    <3>2. QED
      BY <1>1, <1>2, <1>3, <1>4, <3>1 DEF StampInv
  <2>3. QED
    BY <2>1, <2>2
<1>8. QED
  BY <1>1, <1>2, <1>6, <1>7 DEF StampInv

(* ... and becomes the score of one key.                                           *)
LEMMA ReadingIsUsed ==
  ASSUME TypeOK, StampInv, NEW c \in Clients, Touch(c) \/ Store(c)
  PROVE  StampInv'
<1>1. local \in [Clients -> Locals] /\ score \in [Keys -> 0..MaxClock] /\ clock \in Nat
  BY DEF TypeOK, Locals
<1>2. Pending(c) /\ local[c].key \in Keys /\ local[c].stamp \in 1..MaxClock
  BY Arguments DEF Touch, Store, Pending
<1>3. clock' = clock /\ score' = [score EXCEPT ![local[c].key] = local[c].stamp]
  BY DEF Touch, Store
<1>4. ~Pending(c)' /\ \A d \in Clients \ {c} : local'[d] = local[d]
  BY <1>1 DEF Touch, Store, Then, Pending, At, Idle
<1>5. \A d \in Clients : Pending(d)' => d # c /\ Pending(d) /\ local'[d] = local[d]
  BY <1>4 DEF Pending, At
<1>6. PICK k \in Keys, t \in Nat : /\ k = local[c].key /\ t = local[c].stamp /\ t <= clock
                                 /\ \A j \in Keys : score[j] # t
                                 /\ score' = [score EXCEPT ![k] = t]
  <2>1. local[c].stamp \in Nat /\ local[c].stamp <= clock
        /\ \A j \in Keys : score[j] # local[c].stamp
    BY <1>2 DEF StampInv
  <2>2. QED
    BY <1>2, <1>3, <2>1
<1>7. \A j \in Keys : score'[j] <= clock'
  BY <1>1, <1>3, <1>6 DEF StampInv
<1>8. \A i, j \in Keys : score'[i] = score'[j] /\ score'[i] > 0 => i = j
  BY <1>1, <1>6 DEF StampInv
<1>9. ASSUME NEW d \in Clients, Pending(d)'
      PROVE  /\ local'[d].stamp <= clock'
             /\ \A j \in Keys : score'[j] # local'[d].stamp
             /\ \A b \in Clients \ {d} : Pending(b)' => local'[b].stamp # local'[d].stamp
  <2>1. local[d].stamp # t
    BY <1>2, <1>5, <1>6, <1>9 DEF StampInv
  <2>2. \A j \in Keys : score'[j] # local[d].stamp
    BY <1>1, <1>5, <1>6, <1>9, <2>1 DEF StampInv
  <2>3. QED
    BY <1>3, <1>5, <1>9, <2>2 DEF StampInv
<1>10. QED
  BY <1>7, <1>8, <1>9 DEF StampInv

(* Every step of a client keeps the scores different.                              *)
LEMMA StampStep ==
  ASSUME TypeOK, StampInv, NEW c \in Clients, Step(c) \/ Abandon(c)
  PROVE  StampInv'
<1>0. TypeOK'
  BY CacheTypedStep
<1>1. local \in [Clients -> Locals] /\ local' \in [Clients -> Locals]
      /\ score \in [Keys -> 0..MaxClock]
  BY <1>0 DEF TypeOK, Locals
<1>2. CASE Touch(c) \/ Store(c) \/ Refresh(c) \/ \E k \in Keys : Put(c, k)
  BY <1>2, ReadingIsNew, ReadingIsUsed
<1>3. ASSUME NEW next, Then(c, next), next.at \notin {"touch", "store"}, clock' = clock,
             \A k \in Keys : score'[k] \in {0, score[k]}
      PROVE  StampInv'
  <2>1. next \in Locals
    BY <1>1, <1>3 DEF Then
  <2>2. QED
    BY <1>3, <2>1, NothingStamped
<1>4. CASE Count(c) \/ ListOldest(c) \/ Clear(c)
  BY <1>3, <1>4 DEF Count, ListOldest, Clear, Idle
<1>5. CASE \/ Drop(c) \/ Wipe(c) \/ Abandon(c)
           \/ \E k \in Keys : GetHit(c, k) \/ Invalidate(c, k)
  BY <1>3, <1>5 DEF Drop, Wipe, Abandon, GetHit, Invalidate, Idle
<1>6. CASE Untrack(c) \/ Forget(c) \/ Unset(c)
  BY <1>1, <1>3, <1>6 DEF Untrack, Forget, Unset, Idle
<1>7. QED
  BY <1>2, <1>4, <1>5, <1>6 DEF Step

(* The n oldest members are n.                                                     *)
LEMMA OldestAreN ==
  ASSUME TypeOK, StampInv, NEW n \in Nat, n <= Cardinality(Tracked)
  PROVE  /\ Oldest(n) \subseteq Tracked
         /\ IsFiniteSet(Oldest(n)) /\ Cardinality(Oldest(n)) = n
<1> DEFINE f == [k \in Tracked |-> score[k]]
<1>1. Tracked \subseteq Keys /\ \A k \in Keys : score[k] \in Nat
  BY DEF Tracked, TypeOK
<1>2. IsFiniteSet(Tracked)
  BY <1>1, KeysAssumption, FS_Subset
<1>3. f \in [Tracked -> Nat] /\ \A k \in Tracked : f[k] = score[k]
  BY <1>1
<1>4. \A j, k \in Tracked : f[j] = f[k] => j = k
  BY <1>1 DEF StampInv, Tracked
<1>5. Oldest(n) = Lowest(Tracked, f, n)
  <2>1. ASSUME NEW k \in Tracked
        PROVE  {j \in Tracked : f[j] < f[k]} = {j \in Tracked : score[j] < score[k]}
    BY <1>3
  <2>2. QED
    BY <2>1 DEF Oldest, Lowest
<1>6. Oldest(n) \subseteq Tracked
  BY DEF Oldest
<1> HIDE DEF f
<1>7. QED
  BY <1>2, <1>3, <1>4, <1>5, <1>6, LowestAreN

--------------------------------------------------------------------------------
(* An eviction nobody interferes with removes the surplus it counted.              *)

Surplus(c) ==
  /\ At(c, "range") => Cardinality(Tracked) = MaxSize + local[c].overflow
  /\ At(c, "drop") \/ At(c, "untrack") =>
       /\ local[c].keys \subseteq Tracked
       /\ Cardinality(Tracked) = MaxSize + Cardinality(local[c].keys)

AloneInv == \A c \in alone : c \in Clients /\ Surplus(c)

LEMMA AloneInit == HInit => AloneInv
  BY DEF HInit, AloneInv

(* The members are finitely many.                                                  *)
LEMMA TrackedIsFinite == IsFiniteSet(Tracked) /\ Cardinality(Tracked) \in Nat
<1>1. Tracked \subseteq Keys
  BY DEF Tracked
<1>2. QED
  BY <1>1, KeysAssumption, FS_Subset, FS_CardinalityType

(* What ZREM leaves of them when all it removes are members.                       *)
LEMMA UntrackedSize ==
  ASSUME TypeOK, NEW c \in Clients, Untrack(c), local[c].keys \subseteq Tracked,
         Cardinality(Tracked) = MaxSize + Cardinality(local[c].keys)
  PROVE  Cardinality(Tracked') = MaxSize
<1> DEFINE K == local[c].keys
           R == Tracked \ K
<1>1. score \in [Keys -> 0..MaxClock]
  BY DEF TypeOK
<1>2. Tracked' = R
  BY <1>1 DEF Untrack, Tracked
<1>3. IsFiniteSet(K) /\ IsFiniteSet(R) /\ IsFiniteSet(Tracked)
  BY TrackedIsFinite, FS_Subset
<1>4. R \cup K = Tracked /\ R \cap K = {}
  OBVIOUS
<1>5. Cardinality(R) \in Nat /\ Cardinality(K) \in Nat
  BY <1>3, FS_CardinalityType
<1> HIDE DEF R
<1>6. Cardinality(Tracked) = Cardinality(R) + Cardinality(K) - 0
  BY <1>3, <1>4, FS_Union, FS_EmptySet
<1>7. Cardinality(R) = MaxSize
  BY <1>5, <1>6, MaxSizeAssumption
<1>8. QED
  BY <1>2, <1>7

(* The commands of an eviction, one by one.                                        *)
LEMMA SurplusStep ==
  ASSUME TypeOK, StampInv, NEW c \in Clients, Step(c) \/ Abandon(c),
         local[c] # Idle => Surplus(c)
  PROVE  Surplus(c)'
<1>0. local \in [Clients -> Locals] /\ score \in [Keys -> 0..MaxClock]
  BY DEF TypeOK, Locals
<1>1. CASE Count(c)
  <2>1. Tracked' = Tracked
    BY <1>1 DEF Count, Tracked
  <2>2. Cardinality(Tracked) \in Nat /\ MaxSize \in Nat
    BY TrackedIsFinite, MaxSizeAssumption
  <2>3. local'[c] = IF Cardinality(Tracked) <= MaxSize THEN Idle
                    ELSE [at |-> "range", overflow |-> Cardinality(Tracked) - MaxSize]
    BY <1>0, <1>1 DEF Count, Then
  <2>4. CASE Cardinality(Tracked) <= MaxSize
    BY <2>3, <2>4 DEF Surplus, At, Idle
  <2>5. CASE ~(Cardinality(Tracked) <= MaxSize)
    BY <2>1, <2>2, <2>3, <2>5 DEF Surplus, At
  <2>6. QED
    BY <2>4, <2>5
<1>2. CASE ListOldest(c)
  <2>1. PICK n : n = local[c].overflow
    OBVIOUS
  <2>2. At(c, "range") /\ n \in Nat
    BY <1>0, <1>2, <2>1 DEF ListOldest, At, Locals, Idle
  <2>3. Cardinality(Tracked) = MaxSize + n
    BY <1>2, <2>1, <2>2 DEF Surplus, At, Idle
  <2>4. Oldest(n) \subseteq Tracked /\ Cardinality(Oldest(n)) = n
    BY <2>2, <2>3, OldestAreN, MaxSizeAssumption
  <2>5. Tracked' = Tracked
    BY <1>2 DEF ListOldest, Tracked
  <2>6. local'[c] = Idle \/ local'[c] = [at |-> "drop", keys |-> Oldest(n)]
    BY <1>0, <1>2, <2>1 DEF ListOldest, Then
  <2>7. QED
    BY <2>3, <2>4, <2>5, <2>6 DEF Surplus, At, Idle
<1>3. CASE Drop(c)
  <2>1. Surplus(c) /\ At(c, "drop")
    BY <1>3 DEF Drop, At, Idle
  <2>2. Tracked' = Tracked
    BY <1>3 DEF Drop, Tracked
  <2>3. local'[c] = [at |-> "untrack", keys |-> local[c].keys]
    BY <1>0, <1>3 DEF Drop, Then
  <2>4. QED
    BY <2>1, <2>2, <2>3 DEF Surplus, At
<1>4. CASE \/ Refresh(c) \/ Touch(c) \/ Store(c) \/ Untrack(c) \/ Forget(c) \/ Clear(c)
           \/ Wipe(c) \/ Unset(c) \/ Abandon(c)
           \/ \E k \in Keys : GetHit(c, k) \/ Put(c, k) \/ Invalidate(c, k)
  <2>1. local'[c].at \notin {"range", "drop", "untrack"}
    BY <1>0, <1>4 DEF Touch, Store, Untrack, Forget, Clear, Wipe, Unset, Abandon, GetHit,
       Refresh, Put, Stamped, Invalidate, Then, Idle
  <2>2. QED
    BY <2>1 DEF Surplus, At
<1>5. QED
  BY <1>1, <1>2, <1>3, <1>4 DEF Step

(* Commands of others, in whose presence no call stays alone, cannot disturb it.   *)
LEMMA AloneStep == TypeOK /\ StampInv /\ AloneInv /\ [HNext]_hvars => AloneInv'
<1> SUFFICES ASSUME TypeOK, StampInv, AloneInv, [HNext]_hvars PROVE AloneInv'
  OBVIOUS
<1>1. ASSUME HNext, NEW c \in Clients, Step(c) \/ Abandon(c) PROVE AloneInv'
  <2>1. ASSUME NEW d \in Clients \ {c} PROVE d \notin alone'
    BY <1>1, CallInProgress DEF HNext, Overlaps
  <2>2. c \in alone' /\ local[c] # Idle => c \in alone
    BY <1>1 DEF HNext
  <2>3. alone' \subseteq Clients
    BY <1>1 DEF HNext
  <2>4. c \in alone' => Surplus(c)'
    BY <1>1, <2>2, SurplusStep DEF AloneInv
  <2>5. QED
    BY <2>1, <2>3, <2>4 DEF AloneInv
<1>2. ASSUME HNext, NEW k \in Keys, Expire(k) PROVE AloneInv'
  <2>1. local' = local /\ Tracked' = Tracked
    BY <1>2 DEF Expire, Tracked
  <2>2. alone' \subseteq alone
    BY <1>2, <2>1 DEF HNext
  <2>3. QED
    BY <2>1, <2>2 DEF AloneInv, Surplus, At
<1>3. CASE UNCHANGED hvars
  BY <1>3 DEF hvars, AloneInv, Surplus, At, Tracked
<1>4. QED
  BY <1>1, <1>2, <1>3 DEF HNext

(* The scores stay different, with the history.                                    *)
LEMMA StampHStep == TypeOK /\ StampInv /\ [HNext]_hvars => StampInv'
<1> SUFFICES ASSUME TypeOK, StampInv, [HNext]_hvars PROVE StampInv'
  OBVIOUS
<1>1. ASSUME NEW c \in Clients, Step(c) \/ Abandon(c) PROVE StampInv'
  BY <1>1, StampStep
<1>2. ASSUME UNCHANGED <<score, clock, local>> PROVE StampInv'
  BY <1>2 DEF StampInv, Pending, At
<1>3. QED
  BY <1>1, <1>2 DEF HNext, Expire, hvars

--------------------------------------------------------------------------------
(* The bound between calls.                                                        *)

(* An eviction that, from what it has counted or listed, will remove the excess.   *)
Covers(c) ==
  \/ At(c, "count")
  \/ At(c, "range") /\ Cardinality(Tracked) <= MaxSize + local[c].overflow
  \/ At(c, "drop") /\ Cardinality(Tracked \ local[c].keys) <= MaxSize
  \/ At(c, "untrack") /\ Cardinality(Tracked \ local[c].keys) <= MaxSize

Covered == Cardinality(Tracked) <= MaxSize \/ \E c \in Clients : Covers(c)

(* Calls may overlap: only a hit that adds a member is followed by no eviction.    *)
BoundInv == ~ghosts /\ ~abandoned => Covered

(* Calls one after another have no such hit.                                       *)
FoundMember(c) == At(c, "hit") \/ At(c, "touch") => local[c].key \in Tracked

GhostInv == ~overlapped => ~ghosts /\ \A c \in Clients : FoundMember(c)

LEMMA BoundInit == HInit => BoundInv /\ GhostInv
<1> SUFFICES ASSUME HInit PROVE BoundInv /\ GhostInv
  OBVIOUS
<1>1. Tracked = {}
  BY DEF HInit, Init, Tracked
<1>2. Cardinality(Tracked) <= MaxSize
  BY <1>1, FS_EmptySet, MaxSizeAssumption
<1>3. QED
  BY <1>2 DEF HInit, Init, BoundInv, Covered, GhostInv, FoundMember, At, Idle

(* A command of one call is about that call and the members.                       *)
LEMMA OnlyItsOwn ==
  ASSUME TypeOK, NEW c \in Clients, Step(c) \/ Abandon(c)
  PROVE  \A d \in Clients \ {c} : local'[d] = local[d]
<1>1. PICK next : Then(c, next)
  BY DEF Step, Abandon, GetHit, Refresh, Put, Stamped, Invalidate, Touch, Store, Count,
     ListOldest, Drop, Untrack, Forget, Clear, Wipe, Unset
<1>2. QED
  BY <1>1 DEF TypeOK, Then

(* Fewer members are no more in number.                                            *)
LEMMA FewerMembers ==
  ASSUME NEW S, NEW T, T \subseteq S, IsFiniteSet(S)
  PROVE  Cardinality(T) <= Cardinality(S) /\ Cardinality(T) \in Nat /\ Cardinality(S) \in Nat
<1>1. IsFiniteSet(T) /\ Cardinality(T) <= Cardinality(S)
  BY FS_Subset
<1>2. QED
  BY <1>1, FS_CardinalityType

(* What removes members, or none, leaves the evictions of others enough.           *)
LEMMA StaysCovered ==
  ASSUME TypeOK, NEW d \in Clients, Covers(d), local'[d] = local[d], Tracked' \subseteq Tracked
  PROVE  Covers(d)'
<1>1. Cardinality(Tracked') <= Cardinality(Tracked)
      /\ Cardinality(Tracked') \in Nat /\ Cardinality(Tracked) \in Nat
  BY TrackedIsFinite, FewerMembers
<1>2. At(d, "range") => local[d].overflow \in Nat
  BY DEF TypeOK, At, Idle
<1>3. CASE At(d, "range")
  BY <1>1, <1>2, <1>3, MaxSizeAssumption DEF Covers, At
<1>4. CASE At(d, "drop") \/ At(d, "untrack")
  <2> DEFINE K == local[d].keys
  <2>1. IsFiniteSet(Tracked \ K)
    BY TrackedIsFinite, FS_Subset
  <2>2. Tracked' \ K \subseteq Tracked \ K
    OBVIOUS
  <2>3. Cardinality(Tracked' \ K) <= Cardinality(Tracked \ K)
        /\ Cardinality(Tracked' \ K) \in Nat /\ Cardinality(Tracked \ K) \in Nat
    BY <2>1, <2>2, FewerMembers
  <2>4. Cardinality(Tracked \ K) <= MaxSize
    BY <1>4 DEF Covers, At
  <2>5. Cardinality(Tracked' \ K) <= MaxSize
    BY <2>3, <2>4, MaxSizeAssumption
  <2>6. QED
    BY <1>4, <2>5 DEF Covers, At
<1>5. QED
  BY <1>3, <1>4 DEF Covers, At

(* ZRANGE lists the excess, if there is still one.                                 *)
LEMMA ListCovers ==
  ASSUME TypeOK, StampInv, NEW c \in Clients, ListOldest(c), Covers(c)
  PROVE  Cardinality(Tracked) <= MaxSize \/ Covers(c)'
<1>0. local \in [Clients -> Locals]
  BY DEF TypeOK, Locals
<1>1. PICK n : n = local[c].overflow
  OBVIOUS
<1>2. At(c, "range") /\ n \in Nat /\ n >= 1
  BY <1>0, <1>1 DEF ListOldest, At, Locals, Idle
<1>3. Cardinality(Tracked) <= MaxSize + n
  BY <1>1, <1>2 DEF Covers, At
<1>4. Tracked' = Tracked
  BY DEF ListOldest, Tracked
<1>5. local'[c] = IF Oldest(n) = {} THEN Idle ELSE [at |-> "drop", keys |-> Oldest(n)]
  BY <1>0, <1>1 DEF ListOldest, Then
<1>6. Cardinality(Tracked) \in Nat /\ MaxSize \in Nat
  BY TrackedIsFinite, MaxSizeAssumption
<1>7. ASSUME ~(Cardinality(Tracked) <= MaxSize)
      PROVE  Oldest(n) # {} /\ Cardinality(Tracked \ Oldest(n)) <= MaxSize
  <2>1. CASE n <= Cardinality(Tracked)
    <3>1. /\ Oldest(n) \subseteq Tracked /\ IsFiniteSet(Oldest(n))
          /\ Cardinality(Oldest(n)) = n
      BY <1>2, <2>1, OldestAreN
    <3>2. Oldest(n) # {}
      BY <1>2, <3>1, FS_EmptySet
    <3>3. Cardinality(Tracked \ Oldest(n)) = Cardinality(Tracked) - Cardinality(Tracked \cap Oldest(n))
      BY TrackedIsFinite, FS_Difference
    <3>4. Tracked \cap Oldest(n) = Oldest(n)
      BY <3>1
    <3>5. QED
      BY <1>2, <1>3, <1>6, <3>1, <3>2, <3>3, <3>4
  <2>2. CASE ~(n <= Cardinality(Tracked))
    <3>1. ASSUME NEW k \in Tracked PROVE k \in Oldest(n)
      <4> DEFINE Below == {j \in Tracked : score[j] < score[k]}
      <4>1. Below \subseteq Tracked
        OBVIOUS
      <4> HIDE DEF Below
      <4>2. Cardinality(Below) <= Cardinality(Tracked) /\ Cardinality(Below) \in Nat
        BY <4>1, TrackedIsFinite, FewerMembers
      <4>3. Cardinality(Below) < n
        BY <1>2, <1>6, <2>2, <4>2
      <4>4. QED
        BY <4>3 DEF Oldest, Below
    <3>2. Tracked \ Oldest(n) = {}
      BY <3>1
    <3>3. Tracked # {}
      BY <1>6, <1>7, FS_EmptySet
    <3>4. QED
      BY <1>6, <3>1, <3>2, <3>3, FS_EmptySet
  <2>3. QED
    BY <2>1, <2>2
<1>8. QED
  BY <1>4, <1>5, <1>7 DEF Covers, At

(* The commands that are no part of an eviction.                                   *)
LEMMA OthersCovered ==
  ASSUME TypeOK, Covered, NEW c \in Clients, ~Covers(c),
         \A d \in Clients \ {c} : local'[d] = local[d], Tracked' \subseteq Tracked
  PROVE  Covered'
<1>1. Cardinality(Tracked') <= Cardinality(Tracked)
      /\ Cardinality(Tracked') \in Nat /\ Cardinality(Tracked) \in Nat
  BY TrackedIsFinite, FewerMembers
<1>2. CASE Cardinality(Tracked) <= MaxSize
  <2>1. Cardinality(Tracked') <= MaxSize
    BY <1>1, <1>2, MaxSizeAssumption
  <2>2. QED
    BY <2>1 DEF Covered
<1>3. CASE \E d \in Clients : Covers(d)
  <2>1. PICK d \in Clients \ {c} : Covers(d)
    BY <1>3
  <2>2. Covers(d)'
    BY <2>1, StaysCovered
  <2>3. QED
    BY <2>2 DEF Covered
<1>4. QED
  BY <1>2, <1>3 DEF Covered

(* Every command of every call, unless it is a hit that adds a member.             *)
LEMMA CoveredCommand ==
  ASSUME TypeOK, StampInv, Covered, NEW c \in Clients, Step(c),
         Touch(c) => local[c].key \in Tracked
  PROVE  Covered'
<1>0. local \in [Clients -> Locals] /\ score \in [Keys -> 0..MaxClock]
      /\ \A d \in Clients \ {c} : local'[d] = local[d]
  BY OnlyItsOwn DEF TypeOK, Locals
<1>1. ASSUME Covers(c)' PROVE Covered'
  BY <1>1 DEF Covered
<1>2. CASE Store(c)
  <2>1. At(c, "count")'
    BY <1>0, <1>2 DEF Store, Then, At
  <2>2. QED
    BY <1>1, <2>1 DEF Covers
<1>3. CASE Touch(c)
  <2>1. local[c].key \in Keys /\ local[c].stamp \in 1..MaxClock
    BY <1>3, Arguments DEF Touch
  <2>2. Tracked' = Tracked
    BY <1>0, <1>3, <2>1 DEF Touch, Tracked
  <2>3. ~Covers(c)
    BY <1>3 DEF Touch, At, Covers
  <2>4. QED
    BY <1>0, <2>2, <2>3, OthersCovered
<1>4. CASE Refresh(c) \/ Forget(c) \/ Unset(c) \/ Wipe(c) \/ Clear(c)
           \/ \E k \in Keys : GetHit(c, k) \/ Put(c, k) \/ Invalidate(c, k)
  <2>1. Tracked' \subseteq Tracked
    <3>1. ASSUME UNCHANGED score PROVE Tracked' \subseteq Tracked
      BY <3>1 DEF Tracked
    <3>2. CASE Forget(c) \/ Unset(c)
      BY <1>0, <3>2 DEF Forget, Unset, Tracked
    <3>3. CASE \/ Refresh(c) \/ Wipe(c) \/ Clear(c)
               \/ \E k \in Keys : GetHit(c, k) \/ Put(c, k) \/ Invalidate(c, k)
      BY <3>1, <3>3 DEF Refresh, Wipe, Clear, GetHit, Put, Invalidate
    <3>4. QED
      BY <1>4, <3>2, <3>3
  <2>2. ~Covers(c)
    BY <1>4 DEF Refresh, Forget, Unset, Wipe, Clear, GetHit, Put, Invalidate, At, Idle,
       Covers
  <2>3. QED
    BY <1>0, <2>1, <2>2, OthersCovered
<1>5. CASE Count(c)
  <2>1. Tracked' = Tracked
    BY <1>5 DEF Count, Tracked
  <2>2. Cardinality(Tracked) \in Nat /\ MaxSize \in Nat
    BY TrackedIsFinite, MaxSizeAssumption
  <2>3. CASE Cardinality(Tracked) <= MaxSize
    BY <2>1, <2>3 DEF Covered
  <2>4. CASE ~(Cardinality(Tracked) <= MaxSize)
    <3>1. local'[c] = [at |-> "range", overflow |-> Cardinality(Tracked) - MaxSize]
      BY <1>0, <1>5, <2>4 DEF Count, Then
    <3>2. QED
      BY <1>1, <2>1, <2>2, <3>1 DEF Covers, At
  <2>5. QED
    BY <2>3, <2>4
<1>6. CASE ListOldest(c)
  <2>1. Tracked' = Tracked
    BY <1>6 DEF ListOldest, Tracked
  <2>2. CASE Covers(c)
    <3>1. Cardinality(Tracked) <= MaxSize \/ Covers(c)'
      BY <1>6, <2>2, ListCovers
    <3>2. QED
      BY <1>1, <2>1, <3>1 DEF Covered
  <2>3. CASE ~Covers(c)
    BY <1>0, <2>1, <2>3, OthersCovered
  <2>4. QED
    BY <2>2, <2>3
<1>7. CASE Drop(c)
  <2>1. Tracked' = Tracked
    BY <1>7 DEF Drop, Tracked
  <2>2. local'[c] = [at |-> "untrack", keys |-> local[c].keys]
    BY <1>0, <1>7 DEF Drop, Then
  <2>3. CASE Covers(c)
    BY <1>1, <1>7, <2>1, <2>2, <2>3 DEF Drop, Covers, At
  <2>4. CASE ~Covers(c)
    BY <1>0, <2>1, <2>4, OthersCovered
  <2>5. QED
    BY <2>3, <2>4
<1>8. CASE Untrack(c)
  <2>1. Tracked' = Tracked \ local[c].keys
    BY <1>0, <1>8 DEF Untrack, Tracked
  <2>2. CASE Covers(c)
    BY <1>8, <2>1, <2>2 DEF Untrack, Covers, Covered, At
  <2>3. CASE ~Covers(c)
    BY <1>0, <2>1, <2>3, OthersCovered
  <2>4. QED
    BY <2>2, <2>3
<1>9. QED
  BY <1>2, <1>3, <1>4, <1>5, <1>6, <1>7, <1>8 DEF Step

(* With the history: a step that leaves no ghost and abandons nothing.             *)
LEMMA BoundStep == TypeOK /\ StampInv /\ BoundInv /\ [HNext]_hvars => BoundInv'
<1> SUFFICES ASSUME TypeOK, StampInv, BoundInv, [HNext]_hvars, ~ghosts', ~abandoned'
             PROVE  Covered'
  BY DEF BoundInv
<1>1. CASE UNCHANGED <<score, local, ghosts, abandoned>>
  BY <1>1 DEF BoundInv, Covered, Covers, At, Tracked
<1>2. ASSUME HNext, NEW c \in Clients, Step(c), ~ghosts, ~abandoned PROVE Covered'
  <2>1. Touch(c) => local[c].key \in Tracked
    BY <1>2 DEF HNext
  <2>2. QED
    BY <1>2, <2>1, CoveredCommand DEF BoundInv
<1>3. ASSUME HNext, NEW k \in Keys, Expire(k), ~ghosts, ~abandoned PROVE Covered'
  <2>1. local' = local /\ Tracked' = Tracked
    BY <1>3 DEF Expire, Tracked
  <2>2. QED
    BY <1>3, <2>1 DEF BoundInv, Covered, Covers, At
<1>4. ASSUME HNext PROVE ~ghosts /\ ~abandoned
  <2>1. ~ghosts
    BY <1>4 DEF HNext
  <2>2. ~abandoned
    BY <1>4 DEF HNext
  <2>3. QED
    BY <2>1, <2>2
<1>5. QED
  BY <1>1, <1>2, <1>3, <1>4 DEF HNext, hvars

(* A hit whose GET nobody has followed refreshes the member it found.              *)
LEMMA GhostStep == TypeOK /\ QuietInv /\ GhostInv /\ [HNext]_hvars => GhostInv'
<1> SUFFICES ASSUME TypeOK, QuietInv, GhostInv, [HNext]_hvars, ~overlapped'
             PROVE  ~ghosts' /\ \A d \in Clients : FoundMember(d)'
  BY DEF GhostInv
<1>a. ~overlapped
  BY DEF HNext, hvars
<1>0. live \subseteq Tracked /\ ~ghosts /\ \A d \in Clients : FoundMember(d)
  BY <1>a DEF QuietInv, GhostInv
<1>1. ~ghosts'
  <2>1. CASE UNCHANGED hvars
    BY <1>0, <2>1 DEF hvars
  <2>2. CASE HNext
    <3>1. ghosts' = (ghosts \/ \E c \in Clients : Touch(c) /\ local[c].key \notin Tracked)
      BY <2>2 DEF HNext
    <3>2. \A c \in Clients : ~(Touch(c) /\ local[c].key \notin Tracked)
      BY <1>0 DEF Touch, FoundMember
    <3>3. QED
      BY <1>0, <3>1, <3>2
  <2>3. QED
    BY <2>1, <2>2
<1>2. ASSUME HNext, NEW c \in Clients, Step(c) \/ Abandon(c) PROVE FoundMember(c)'
  <2>0. local \in [Clients -> Locals]
    BY DEF TypeOK, Locals
  <2>1. ASSUME NEW k \in Keys, GetHit(c, k) PROVE FoundMember(c)'
    BY <1>0, <2>0, <2>1 DEF GetHit, Then, FoundMember, At, Tracked
  <2>2. CASE Refresh(c)
    BY <1>0, <2>0, <2>2 DEF Refresh, Stamped, Then, FoundMember, At, Tracked
  <2>3. ASSUME NEW next, Then(c, next), next.at \notin {"hit", "touch"} PROVE FoundMember(c)'
    BY <2>0, <2>3 DEF Then, FoundMember, At
  <2>4. CASE Touch(c) \/ Store(c) \/ Untrack(c) \/ Forget(c) \/ Unset(c) \/ Abandon(c)
    BY <2>3, <2>4 DEF Touch, Store, Untrack, Forget, Unset, Abandon, Idle
  <2>5. CASE Count(c) \/ ListOldest(c) \/ Clear(c)
    BY <2>3, <2>5 DEF Count, ListOldest, Clear, Idle
  <2>6. CASE Drop(c) \/ Wipe(c) \/ \E k \in Keys : Put(c, k) \/ Invalidate(c, k)
    BY <2>3, <2>6 DEF Drop, Wipe, Put, Stamped, Invalidate
  <2>7. QED
    BY <1>2, <2>1, <2>2, <2>4, <2>5, <2>6 DEF Step
<1>3. ASSUME HNext, NEW c \in Clients, Step(c) \/ Abandon(c), NEW d \in Clients \ {c}
      PROVE  FoundMember(d)'
  BY <1>3, OthersAreIdle DEF FoundMember, At, Idle
<1>4. ASSUME UNCHANGED <<score, local>>, NEW d \in Clients PROVE FoundMember(d)'
  BY <1>0, <1>4 DEF FoundMember, Tracked, At
<1>5. QED
  BY <1>1, <1>2, <1>3, <1>4 DEF HNext, Expire, hvars

--------------------------------------------------------------------------------
(* The inductive invariant: types; different scores; what calls one after another  *)
(* keep; what an undisturbed eviction has counted; who will remove an excess.       *)
CacheInv == TypeOK /\ StampInv /\ QuietInv /\ AloneInv /\ BoundInv /\ GhostInv

(* It holds of every behaviour, with the history.                                  *)
THEOREM CacheInvariant == HSpec => []CacheInv
<1>1. HInit => CacheInv
  BY CacheTypedInit, StampInit, QuietInit, AloneInit, BoundInit DEF CacheInv, HInit
<1>2. CacheInv /\ [HNext]_hvars => CacheInv'
  BY QuietStep, StampHStep, AloneStep, BoundStep, GhostStep DEF CacheInv
<1>3. QED
  BY <1>1, <1>2, PTL DEF HSpec

(* Type correctness of the cache, whatever overlaps and whoever dies.              *)
THEOREM CacheTypes == HSpec => []TypeOK
<1>1. CacheInv => TypeOK
  BY DEF CacheInv
<1>2. QED
  BY <1>1, CacheInvariant, PTL

(* As long as calls come one after another, every value in Redis is within reach   *)
(* of eviction, even if workers die between any two commands.                      *)
THEOREM LiveStaysTracked == HSpec => []LiveIsTracked
<1>1. CacheInv => LiveIsTracked
  BY DEF CacheInv, QuietInv, LiveIsTracked
<1>2. QED
  BY <1>1, CacheInvariant, PTL

(* Calls that come to their end leave at most max_size members, overlapping or     *)
(* not, unless the ZADD of a hit has added one; calls one after another never do.  *)
THEOREM BoundedWhenSettled == HSpec => []BoundedBetweenCalls
<1>1. CacheInv => BoundedBetweenCalls
  <2> SUFFICES ASSUME CacheInv, ~abandoned, ~(overlapped /\ ghosts), Settled
               PROVE  Cardinality(Tracked) <= MaxSize
    BY DEF BoundedBetweenCalls, SettledWithinMaxSize
  <2>1. ~ghosts
    BY DEF CacheInv, GhostInv
  <2>2. \A c \in Clients : ~Covers(c)
    BY DEF Settled, Covers, At, Idle
  <2>3. QED
    BY <2>1, <2>2 DEF CacheInv, BoundInv, Covered
<1>2. QED
  BY <1>1, CacheInvariant, PTL

(* Whatever overlapped or died before, an eviction nobody interferes with leaves   *)
(* exactly max_size members.                                                       *)
THEOREM LoneEvictionRestoresBound == HSpec => LonePutRestoresBound
<1>1. CacheInv /\ [HNext]_hvars
        => [\A c \in alone : Untrack(c) => Cardinality(Tracked') = MaxSize]_hvars
  <2> SUFFICES ASSUME CacheInv, NEW c \in alone, Untrack(c)
               PROVE  Cardinality(Tracked') = MaxSize
    OBVIOUS
  <2>1. c \in Clients /\ Surplus(c) /\ At(c, "untrack") /\ TypeOK
    BY DEF CacheInv, AloneInv, Untrack
  <2>2. QED
    BY <2>1, UntrackedSize DEF Surplus
<1>2. QED
  BY <1>1, CacheInvariant, PTL DEF HSpec, LonePutRestoresBound

--------------------------------------------------------------------------------
(* The order of use.                                                               *)

(* Who has Redis to itself sends the last reading of the clock, and the members it *)
(* is about to remove are the oldest.                                              *)
Ordered(c) ==
  /\ Pending(c) => local[c].stamp = clock
  /\ At(c, "drop") \/ At(c, "untrack") =>
       \A k \in local[c].keys, j \in Tracked \ local[c].keys : score[k] < score[j]

OrderInv == \A c \in alone : c \in Clients /\ Ordered(c)

LEMMA OrderInit == HInit => OrderInv
  BY DEF HInit, OrderInv

(* What ZRANGE lists is older than what it does not list: a member no older than a *)
(* listed one has no more members below it.                                        *)
LEMMA OldestAreBelow ==
  ASSUME TypeOK, NEW n \in Nat, NEW k \in Oldest(n), NEW j \in Tracked \ Oldest(n)
  PROVE  score[k] < score[j]
<1> DEFINE Below(i) == {h \in Tracked : score[h] < score[i]}
<1>1. k \in Keys /\ j \in Keys /\ \A i \in Keys : score[i] \in Nat
  BY DEF Oldest, Tracked, TypeOK
<1>2. \A h \in Tracked : score[h] \in Nat
  BY <1>1 DEF Tracked
<1>3. ASSUME score[j] <= score[k] PROVE FALSE
  <2>1. Below(j) \subseteq Below(k)
    BY <1>1, <1>2, <1>3
  <2>2. Below(k) \subseteq Tracked
    OBVIOUS
  <2>3. IsFiniteSet(Below(k))
    BY <2>2, TrackedIsFinite, FS_Subset
  <2>4. IsFiniteSet(Below(j)) /\ Cardinality(Below(j)) <= Cardinality(Below(k))
    BY <2>1, <2>3, FS_Subset
  <2>5. Cardinality(Below(j)) \in Nat /\ Cardinality(Below(k)) \in Nat
    BY <2>3, <2>4, FS_CardinalityType
  <2>6. Cardinality(Below(k)) < n /\ ~(Cardinality(Below(j)) < n)
    BY DEF Oldest
  <2> HIDE DEF Below
  <2>7. QED
    BY <2>4, <2>5, <2>6
<1>4. QED
  BY <1>1, <1>3

(* The commands of one call, one by one.                                           *)
LEMMA OrderedStep ==
  ASSUME TypeOK, NEW c \in Clients, Step(c) \/ Abandon(c), local[c] # Idle => Ordered(c)
  PROVE  Ordered(c)'
<1>0. local \in [Clients -> Locals]
  BY DEF TypeOK, Locals
<1>1. CASE Refresh(c) \/ \E k \in Keys : Put(c, k)
  BY <1>0, <1>1 DEF Refresh, Put, Stamped, Then, Ordered, Pending, At
<1>2. CASE ListOldest(c)
  <2>1. PICK n : n = local[c].overflow
    OBVIOUS
  <2>2. n \in Nat
    BY <1>0, <1>2, <2>1 DEF ListOldest, At, Locals, Idle
  <2>3. Tracked' = Tracked /\ score' = score
    BY <1>2 DEF ListOldest, Tracked
  <2>4. local'[c] = Idle \/ local'[c] = [at |-> "drop", keys |-> Oldest(n)]
    BY <1>0, <1>2, <2>1 DEF ListOldest, Then
  <2>5. \A k \in Oldest(n), j \in Tracked \ Oldest(n) : score[k] < score[j]
    BY <2>2, OldestAreBelow
  <2>6. QED
    BY <2>3, <2>4, <2>5 DEF Ordered, Pending, At, Idle
<1>3. CASE Drop(c)
  <2>1. Ordered(c) /\ At(c, "drop")
    BY <1>3 DEF Drop, At, Idle
  <2>2. Tracked' = Tracked /\ score' = score
    BY <1>3 DEF Drop, Tracked
  <2>3. local'[c] = [at |-> "untrack", keys |-> local[c].keys]
    BY <1>0, <1>3 DEF Drop, Then
  <2>4. QED
    BY <2>1, <2>2, <2>3 DEF Ordered, Pending, At
<1>4. CASE \/ Touch(c) \/ Store(c) \/ Count(c) \/ Untrack(c) \/ Forget(c) \/ Clear(c)
           \/ Wipe(c) \/ Unset(c) \/ Abandon(c)
           \/ \E k \in Keys : GetHit(c, k) \/ Invalidate(c, k)
  <2>1. local'[c].at \notin {"touch", "store", "drop", "untrack"}
    BY <1>0, <1>4 DEF Touch, Store, Count, Untrack, Forget, Clear, Wipe, Unset, Abandon,
       GetHit, Invalidate, Then, Idle
  <2>2. QED
    BY <2>1 DEF Ordered, Pending, At
<1>5. QED
  BY <1>1, <1>2, <1>3, <1>4 DEF Step

(* Commands of others end the call's being alone, and expiry scores nothing.       *)
LEMMA OrderStep == TypeOK /\ OrderInv /\ [HNext]_hvars => OrderInv'
<1> SUFFICES ASSUME TypeOK, OrderInv, [HNext]_hvars PROVE OrderInv'
  OBVIOUS
<1>1. ASSUME HNext, NEW c \in Clients, Step(c) \/ Abandon(c) PROVE OrderInv'
  <2>1. ASSUME NEW d \in Clients \ {c} PROVE d \notin alone'
    BY <1>1, CallInProgress DEF HNext, Overlaps
  <2>2. c \in alone' /\ local[c] # Idle => c \in alone
    BY <1>1 DEF HNext
  <2>3. alone' \subseteq Clients
    BY <1>1 DEF HNext
  <2>4. c \in alone' => Ordered(c)'
    BY <1>1, <2>2, OrderedStep DEF OrderInv
  <2>5. QED
    BY <2>1, <2>3, <2>4 DEF OrderInv
<1>2. ASSUME HNext, NEW k \in Keys, Expire(k) PROVE OrderInv'
  <2>1. local' = local /\ score' = score /\ clock' = clock /\ Tracked' = Tracked
    BY <1>2 DEF Expire, Tracked
  <2>2. alone' \subseteq alone
    BY <1>2, <2>1 DEF HNext
  <2>3. QED
    BY <2>1, <2>2 DEF OrderInv, Ordered, Pending, At
<1>3. CASE UNCHANGED hvars
  BY <1>3 DEF hvars, OrderInv, Ordered, Pending, At, Tracked
<1>4. QED
  BY <1>1, <1>2, <1>3 DEF HNext

(* It holds of every behaviour.                                                    *)
LEMMA OrderIsKept == HSpec => []OrderInv
<1>1. CacheInv /\ OrderInv /\ [HNext]_hvars => OrderInv'
  BY OrderStep DEF CacheInv
<1>2. QED
  BY <1>1, OrderInit, CacheInvariant, PTL DEF HSpec

(* The ZADD of a call with nobody in between makes its key the newest member.      *)
THEOREM LoneUsesAreNewest == HSpec => LoneUseIsNewest
<1>1. ASSUME CacheInv, OrderInv, NEW c \in alone, Touch(c) \/ Store(c),
             NEW k \in Keys \ {local[c].key}
      PROVE  score'[k] < score'[local[c].key]
  <2>1. /\ score \in [Keys -> 0..MaxClock] /\ clock \in Nat
        /\ TypeOK /\ StampInv /\ c \in Clients /\ Pending(c) /\ local[c].stamp = clock
    BY <1>1 DEF CacheInv, TypeOK, OrderInv, Ordered, Pending, Touch, Store
  <2>2. local[c].key \in Keys
    BY <1>1, <2>1, Arguments DEF Touch, Store
  <2>3. score'[local[c].key] = clock /\ score'[k] = score[k]
    BY <1>1, <2>1, <2>2 DEF Touch, Store
  <2>4. score[k] <= clock /\ score[k] # clock /\ score[k] \in Nat
    BY <2>1 DEF StampInv
  <2>5. QED
    BY <2>1, <2>3, <2>4
<1>2. CacheInv /\ OrderInv /\ [HNext]_hvars
        => [\A c \in alone :
              Touch(c) \/ Store(c)
                => \A k \in Keys \ {local[c].key} : score'[k] < score'[local[c].key]]_hvars
  BY <1>1
<1>3. QED
  BY <1>2, CacheInvariant, OrderIsKept, PTL DEF HSpec, LoneUseIsNewest

(* An eviction nobody interferes with takes the least recently used, for every     *)
(* max_size and any finite set of keys, whatever overlapped or died before.        *)
THEOREM LoneEvictionsAreLRU == HSpec => LoneEvictionIsLRU
<1>1. CacheInv /\ OrderInv /\ [HNext]_hvars
        => [\A c \in alone :
              Drop(c) \/ Untrack(c)
                => \A k \in local[c].keys, j \in Tracked \ local[c].keys :
                     score[k] < score[j]]_hvars
  BY DEF OrderInv, Ordered, Drop, Untrack
<1>2. QED
  BY <1>1, CacheInvariant, OrderIsKept, PTL DEF HSpec, LoneEvictionIsLRU

================================================================================
