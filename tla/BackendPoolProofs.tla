--------------------------- MODULE BackendPoolProofs ---------------------------
(* Theorems about BackendPool for any number of backends, any threshold and     *)
(* any cooldown, and about the order of picks (BackendPoolHistory).             *)
EXTENDS BackendPoolHistory, TLAPS

--------------------------------------------------------------------------------
(* What the breaker's methods return.                                           *)

(* "closed" and "below the threshold" are the same thing, and a half-open       *)
(* circuit has its cooldown behind it.                                          *)
Shaped(br) ==
  /\ br.state # "closed" <=> br.failures = Threshold
  /\ br.state = "half_open" => br.age >= Cooldown

(* Every method of circuit_breaker.py returns a breaker of the right type.      *)
LEMMA BreakerTypes ==
  ASSUME NEW br \in Breaker
  PROVE  /\ Refreshed(br) \in Breaker
         /\ RecordSuccess(br) \in Breaker
         /\ RecordFailure(br) \in Breaker
         /\ Aged(br) \in Breaker
<1> USE ThresholdAssumption, CooldownAssumption DEF Breaker, CircuitState
<1>1. Refreshed(br) \in Breaker
  BY DEF Refreshed
<1>2. RecordSuccess(br) \in Breaker
  BY DEF RecordSuccess
<1>3. RecordFailure(br) \in Breaker
  BY DEF RecordFailure
<1>4. Aged(br) \in Breaker
  BY DEF Aged
<1>5. QED
  BY <1>1, <1>2, <1>3, <1>4

(* Every method keeps a breaker well shaped: a failure in half-open reopens the *)
(* circuit although record_failure never looks at the state it starts from.     *)
LEMMA BreakerShapes ==
  ASSUME NEW br \in Breaker, Shaped(br)
  PROVE  /\ Shaped(Refreshed(br))
         /\ Shaped(RecordSuccess(br))
         /\ Shaped(RecordFailure(br))
         /\ Shaped(Aged(br))
<1> USE ThresholdAssumption, CooldownAssumption DEF Shaped, Breaker, CircuitState
<1>1. Shaped(Refreshed(br))
  BY DEF Refreshed
<1>2. Shaped(RecordSuccess(br))
  BY DEF RecordSuccess
<1>3. Shaped(RecordFailure(br))
  BY DEF RecordFailure
<1>4. Shaped(Aged(br))
  BY DEF Aged
<1>5. QED
  BY <1>1, <1>2, <1>3, <1>4

(* The breaker every backend starts with.                                       *)
LEMMA NewBreakerShaped == NewBreaker \in Breaker /\ Shaped(NewBreaker)
  BY ThresholdAssumption, CooldownAssumption
     DEF NewBreaker, Breaker, CircuitState, Shaped

(* For a well-shaped breaker, "available" is what the abstract pool calls       *)
(* usable: the circuit state adds nothing to the count and the age.             *)
LEMMA AvailableIsUsable ==
  ASSUME NEW br \in Breaker, Shaped(br)
  PROVE  IsAvailable(br) <=> br.failures < Threshold \/ br.age >= Cooldown
  BY ThresholdAssumption, CooldownAssumption
     DEF IsAvailable, Refreshed, Shaped, Breaker, CircuitState

(* Reading a breaker's state changes neither its count nor its age.             *)
LEMMA RefreshKeepsCounts ==
  ASSUME NEW br \in Breaker
  PROVE  Refreshed(br).failures = br.failures /\ Refreshed(br).age = br.age
  BY DEF Refreshed, Breaker

(* The position the cursor moves to, and those a scan visits, are backends.     *)
LEMMA ModInBackends ==
  ASSUME NEW k \in Nat
  PROVE  k % N \in Backends
  BY NAssumption DEF Backends

--------------------------------------------------------------------------------
(* The inductive invariant: types, and every breaker well shaped.               *)

PoolInv == TypeOK /\ \A b \in Backends : Shaped(breaker[b])

(* The pool starts with every circuit closed.                                   *)
LEMMA PoolInvInit == Init => PoolInv
<1> SUFFICES ASSUME Init PROVE PoolInv
  OBVIOUS
<1>1. TypeOK
  BY NewBreakerShaped, NAssumption, MaxCallsAssumption DEF Init, TypeOK, Backends
<1>2. \A b \in Backends : Shaped(breaker[b])
  BY NewBreakerShaped DEF Init
<1>3. QED
  BY <1>1, <1>2 DEF PoolInv

(* A step that replaces one breaker by a well-shaped one keeps the breakers'    *)
(* part of the invariant.                                                       *)
LEMMA OneBreakerChanges ==
  ASSUME PoolInv, NEW b \in Backends, NEW br \in Breaker, Shaped(br),
         breaker' = [breaker EXCEPT ![b] = br]
  PROVE  /\ breaker' \in [Backends -> Breaker]
         /\ \A c \in Backends : Shaped(breaker'[c])
  BY DEF PoolInv, TypeOK

(* Every step of the pool keeps the invariant.                                   *)
LEMMA PoolInvStep == PoolInv /\ [Next]_vars => PoolInv'
<1> SUFFICES ASSUME PoolInv, [Next]_vars PROVE PoolInv'
  OBVIOUS
<1> USE DEF Backends
<1>0. /\ \A b \in Backends : breaker[b] \in Breaker /\ Shaped(breaker[b])
      /\ inflight \in [Backends -> 0..MaxCalls]
      /\ cursor \in Backends
  BY DEF PoolInv, TypeOK
<1>1. ASSUME NEW b \in Backends, GetHealthyBackend(b) PROVE PoolInv'
  <2>1. breaker' \in [Backends -> Breaker] /\ \A c \in Backends : Shaped(breaker'[c])
    BY <1>0, <1>1, OneBreakerChanges, BreakerTypes, BreakerShapes DEF GetHealthyBackend
  <2>2. cursor' \in Backends
    BY <1>1, ModInBackends, NAssumption DEF GetHealthyBackend
  <2>3. inflight' \in [Backends -> 0..MaxCalls]
    BY <1>0, <1>1, MaxCallsAssumption DEF GetHealthyBackend
  <2>4. QED
    BY <2>1, <2>2, <2>3 DEF PoolInv, TypeOK
<1>2. ASSUME NEW b \in Backends, CallEnds(b)
      PROVE  inflight' \in [Backends -> 0..MaxCalls] /\ cursor' \in Backends
  BY <1>0, <1>2, MaxCallsAssumption DEF CallEnds
<1>3. ASSUME NEW b \in Backends, CallSucceeds(b) PROVE PoolInv'
  <2>1. breaker' \in [Backends -> Breaker] /\ \A c \in Backends : Shaped(breaker'[c])
    BY <1>0, <1>3, OneBreakerChanges, BreakerTypes, BreakerShapes DEF CallSucceeds
  <2>2. QED
    BY <1>2, <1>3, <2>1 DEF CallSucceeds, PoolInv, TypeOK
<1>4. ASSUME NEW b \in Backends, CallFails(b) PROVE PoolInv'
  <2>1. breaker' \in [Backends -> Breaker] /\ \A c \in Backends : Shaped(breaker'[c])
    BY <1>0, <1>4, OneBreakerChanges, BreakerTypes, BreakerShapes DEF CallFails
  <2>2. QED
    BY <1>2, <1>4, <2>1 DEF CallFails, PoolInv, TypeOK
<1>5. ASSUME NEW b \in Backends, CallCancelled(b) PROVE PoolInv'
  BY <1>2, <1>5 DEF CallCancelled, PoolInv, TypeOK
<1>6. CASE HealthyCount
  BY <1>0, <1>6, BreakerTypes, BreakerShapes DEF HealthyCount, PoolInv, TypeOK
<1>7. CASE Tick
  BY <1>0, <1>7, BreakerTypes, BreakerShapes DEF Tick, PoolInv, TypeOK
<1>8. CASE UNCHANGED vars
  BY <1>8 DEF vars, PoolInv, TypeOK
<1>9. QED
  BY <1>1, <1>3, <1>4, <1>5, <1>6, <1>7, <1>8 DEF Next

(* The invariant holds of every reachable state.                                *)
THEOREM PoolInvariant == Spec => []PoolInv
  BY PoolInvInit, PoolInvStep, PTL DEF Spec

(* Type correctness, for any number of backends.                                *)
THEOREM TypeCorrect == Spec => []TypeOK
<1>1. PoolInv => TypeOK
  BY DEF PoolInv
<1>2. QED
  BY <1>1, PoolInvariant, PTL

(* The circuit is off "closed" exactly when the failure count stands at the     *)
(* threshold, so a failed probe reopens it.                                     *)
THEOREM BreakersAreShaped == Spec => []BreakerShape
<1>1. PoolInv => BreakerShape
  BY DEF PoolInv, BreakerShape, Shaped
<1>2. QED
  BY <1>1, PoolInvariant, PTL

--------------------------------------------------------------------------------
(* What the invariant means for the requests.                                   *)

(* A step that picks a backend picks one that is usable by count and age.      *)
LEMMA PicksUsable ==
  ASSUME PoolInv, NEW b \in Backends, GetHealthyBackend(b)
  PROVE  breaker[b].failures < Threshold \/ breaker[b].age >= Cooldown
<1>1. breaker[b] \in Breaker /\ Shaped(breaker[b])
  BY DEF PoolInv, TypeOK
<1>2. IsAvailable(breaker[b])
  BY DEF GetHealthyBackend, ScanFinds
<1>3. QED
  BY <1>1, <1>2, AvailableIsUsable

(* No request is sent to a backend that failed Threshold times in a row and     *)
(* is inside its cooldown, whichever late reports came in between.              *)
THEOREM CoolingBackendsAreLeftAlone == Spec => NeverPicksCoolingBackend
<1> DEFINE Kept == \A b \in Backends :
              inflight'[b] > inflight[b]
                => breaker[b].failures < Threshold \/ breaker[b].age >= Cooldown
<1>1. ASSUME PoolInv, [Next]_vars PROVE [Kept]_vars
  <2>0. inflight \in [Backends -> 0..MaxCalls]
    BY <1>1 DEF PoolInv, TypeOK
  <2>1. ASSUME NEW p \in Backends, GetHealthyBackend(p) PROVE Kept
    <3>1. \A b \in Backends \ {p} : inflight'[b] = inflight[b]
      BY <2>0, <2>1 DEF GetHealthyBackend
    <3>2. breaker[p].failures < Threshold \/ breaker[p].age >= Cooldown
      BY <1>1, <2>1, PicksUsable
    <3>3. QED
      BY <2>0, <3>1, <3>2
  <2>2. ASSUME NEW p \in Backends, CallEnds(p) PROVE Kept
    BY <2>0, <2>2, MaxCallsAssumption DEF CallEnds
  <2>3. ASSUME UNCHANGED inflight PROVE Kept
    BY <2>0, <2>3
  <2>4. CASE HealthyCount
    BY <2>3, <2>4 DEF HealthyCount
  <2>5. CASE Tick
    BY <2>3, <2>5 DEF Tick
  <2>6. QED
    BY <1>1, <2>1, <2>2, <2>4, <2>5 DEF Next, CallSucceeds, CallFails, CallCancelled
<1>2. QED
  BY <1>1, PoolInvariant, PTL DEF Spec, NeverPicksCoolingBackend

--------------------------------------------------------------------------------
(* Why the comment that an open circuit rejects all requests for the cooldown   *)
(* fails, for any number of overlapping calls: every other step leaves the      *)
(* circuit open, a scan, a health check or a failure reported late included.    *)

(* Reading an open circuit leaves it open until its cooldown is over.           *)
LEMMA ReadingWaitsForCooldown ==
  ASSUME NEW br \in Breaker, br.state = "open", br.age < Cooldown
  PROVE  Refreshed(br).state = "open"
  BY CooldownAssumption DEF Breaker, Refreshed

(* A failure reported to an open circuit leaves it open: the count stands at    *)
(* the threshold already.                                                       *)
LEMMA LateFailureLeavesOpen ==
  ASSUME NEW br \in Breaker, Shaped(br), br.state = "open"
  PROVE  RecordFailure(br).state = "open"
  BY ThresholdAssumption DEF Breaker, CircuitState, Shaped, RecordFailure

(* Inside its cooldown a circuit leaves "open" only by the report of a success  *)
(* of its own backend (record_success, circuit_breaker.py:68): OpenLastsFor-    *)
(* Cooldown without the one step that breaks it.                                *)
THEOREM OnlyLateSuccessesCutShort ==
  Spec => [][\A b \in Backends :
               breaker[b].state = "open" /\ breaker'[b].state # "open"
                 => breaker[b].age >= Cooldown \/ CallSucceeds(b)]_vars
<1> DEFINE Kept(b) == breaker[b].state = "open" /\ breaker'[b].state # "open"
                        => breaker[b].age >= Cooldown \/ CallSucceeds(b)
<1>1. ASSUME PoolInv, [Next]_vars, NEW b \in Backends PROVE Kept(b)
  <2> SUFFICES ASSUME breaker[b].state = "open", breaker'[b].state # "open",
                      breaker[b].age < Cooldown
               PROVE  CallSucceeds(b)
    BY <1>1, CooldownAssumption DEF PoolInv, TypeOK, Breaker
  <2>0. /\ breaker \in [Backends -> Breaker] /\ breaker[b] \in Breaker
        /\ Shaped(breaker[b])
    BY <1>1 DEF PoolInv, TypeOK
  <2>1. Refreshed(breaker[b]).state = "open"
    BY <2>0, ReadingWaitsForCooldown
  <2>2. ASSUME NEW p \in Backends, GetHealthyBackend(p) PROVE FALSE
    BY <2>0, <2>1, <2>2 DEF GetHealthyBackend
  <2>3. ASSUME NEW p \in Backends, CallSucceeds(p) PROVE p = b
    BY <2>0, <2>3 DEF CallSucceeds
  <2>4. ASSUME NEW p \in Backends, CallFails(p) PROVE FALSE
    BY <2>0, <2>4, LateFailureLeavesOpen DEF CallFails
  <2>5. ASSUME NEW p \in Backends, CallCancelled(p) PROVE FALSE
    BY <2>5 DEF CallCancelled
  <2>6. CASE HealthyCount
    BY <2>1, <2>6 DEF HealthyCount
  <2>7. CASE Tick
    <3>1. Aged(breaker[b]).state = breaker[b].state
      BY <2>0 DEF Aged, Breaker
    <3>2. QED
      BY <2>7, <3>1 DEF Tick
  <2>8. CASE UNCHANGED vars
    BY <2>8 DEF vars
  <2>9. QED
    BY <1>1, <2>2, <2>3, <2>4, <2>5, <2>6, <2>7, <2>8 DEF Next
<1>2. PoolInv /\ [Next]_vars => [\A b \in Backends : Kept(b)]_vars
  BY <1>1
<1>3. QED
  BY <1>2, PoolInvariant, PTL DEF Spec

--------------------------------------------------------------------------------
(* The pool implements the one without circuit states.                          *)

(* The pool starts where the pool without circuit states does.                 *)
LEMMA AbstractInit == Init => Abstract!Init
  BY DEF Init, Abstract!Init, NewBreaker, Backends, Abstract!Backends

(* Both pools call the same backends usable.                                   *)
LEMMA AbstractUsable ==
  ASSUME PoolInv, NEW b \in Backends
  PROVE  Abstract!Usable(b) <=> IsAvailable(breaker[b])
<1>1. breaker[b] \in Breaker /\ Shaped(breaker[b])
  BY DEF PoolInv, TypeOK
<1>2. QED
  BY <1>1, AvailableIsUsable DEF Abstract!Usable

(* Every step of the pool is a step or a stutter of the abstract one.          *)
LEMMA AbstractStep ==
  ASSUME PoolInv, [Next]_vars
  PROVE  [Abstract!Next]_(Abstract!vars)
<1> DEFINE failures == [b \in Backends |-> breaker[b].failures]
           age == [b \in Backends |-> breaker[b].age]
<1>0. /\ \A b \in Backends : breaker[b] \in Breaker /\ Shaped(breaker[b])
      /\ breaker \in [Backends -> Breaker]
      /\ cursor \in Backends
      /\ Backends = Abstract!Backends
  BY DEF PoolInv, TypeOK, Backends, Abstract!Backends
<1>1. ASSUME NEW b \in Backends, GetHealthyBackend(b) PROVE Abstract!Pick(b)
  <2>1. failures' = failures /\ age' = age
    BY <1>0, <1>1, RefreshKeepsCounts DEF GetHealthyBackend
  <2>2. PICK i \in Backends : /\ b = At(i)
                              /\ \A j \in 0..(i-1) : ~IsAvailable(breaker[At(j)])
    BY <1>1 DEF GetHealthyBackend, ScanFinds
  <2>3. \A j \in 0..(i-1) : At(j) \in Backends
    <3>1. ASSUME NEW j \in 0..(i-1) PROVE cursor + j \in Nat
      BY <1>0, NAssumption DEF Backends
    <3>2. QED
      BY <3>1, ModInBackends DEF At
  <2>4. \A j \in 0..(i-1) : ~Abstract!Usable((cursor + j) % N)
    BY <2>2, <2>3, AbstractUsable DEF At
  <2>5. Abstract!Usable(b)
    BY <1>1, AbstractUsable DEF GetHealthyBackend, ScanFinds
  <2>6. QED
    BY <1>0, <1>1, <2>1, <2>2, <2>4, <2>5 DEF Abstract!Pick, GetHealthyBackend, At
<1>2. ASSUME NEW b \in Backends, CallSucceeds(b) PROVE Abstract!Report(b)
  <2>1. failures' = [failures EXCEPT ![b] = 0] /\ age' = age
    BY <1>0, <1>2 DEF CallSucceeds, RecordSuccess
  <2>2. QED
    BY <1>2, <2>1 DEF CallSucceeds, CallEnds, Abstract!Report
<1>3. ASSUME NEW b \in Backends, CallFails(b) PROVE Abstract!Report(b)
  <2>1. breaker' = [breaker EXCEPT ![b] = RecordFailure(breaker[b])]
    BY <1>3 DEF CallFails
  <2>2. /\ RecordFailure(breaker[b]).age = 0
        /\ RecordFailure(breaker[b]).failures =
             IF breaker[b].failures < Threshold THEN breaker[b].failures + 1
             ELSE breaker[b].failures
    BY <1>0, ThresholdAssumption DEF RecordFailure, Breaker
  <2>3. /\ failures' = [failures EXCEPT ![b] = IF @ < Threshold THEN @ + 1 ELSE @]
        /\ age' = [age EXCEPT ![b] = 0]
    BY <1>0, <2>1, <2>2
  <2>4. QED
    BY <1>3, <2>3 DEF CallFails, CallEnds, Abstract!Report
<1>4. ASSUME NEW b \in Backends, CallCancelled(b) PROVE Abstract!Report(b)
  BY <1>4 DEF CallCancelled, CallEnds, Abstract!Report
<1>5. CASE HealthyCount
  <2>1. failures' = failures /\ age' = age
    BY <1>0, <1>5, RefreshKeepsCounts DEF HealthyCount
  <2>2. QED
    BY <1>5, <2>1 DEF HealthyCount, Abstract!vars
<1>6. CASE Tick
  <2>1. failures' = failures
    BY <1>0, <1>6 DEF Tick, Aged
  <2>2. age' = [b \in Backends |-> IF age[b] < Cooldown THEN age[b] + 1 ELSE age[b]]
    BY <1>0, <1>6 DEF Tick, Aged, Breaker
  <2>3. QED
    BY <1>0, <1>6, <2>1, <2>2 DEF Tick, Abstract!Tick, Abstract!Next
<1>7. CASE UNCHANGED vars
  BY <1>7 DEF vars, Abstract!vars
<1>8. QED
  BY <1>0, <1>1, <1>2, <1>3, <1>4, <1>5, <1>6, <1>7 DEF Next, Abstract!Next

(* Half-open, and whoever observes it first, never decides which backend a      *)
(* request gets: counts, ages and the cursor do.                                *)
THEOREM PoolImplementsStatelessPool == Spec => ImplementsStatelessPool
  BY AbstractInit, AbstractStep, PoolInvariant, PTL
     DEF Spec, ImplementsStatelessPool, Abstract!Spec

--------------------------------------------------------------------------------
(* The remainders the scan meets: at most one turn past the end.                *)

(* Below n the remainder is the number itself.                                 *)
LEMMA ModSmall ==
  ASSUME NEW n \in Nat \ {0}, NEW x \in 0..(n-1)
  PROVE  x % n = x
  BY SMT

(* One turn past the end the remainder is the number less n.                   *)
LEMMA ModOneTurn ==
  ASSUME NEW n \in Nat \ {0}, NEW x \in n..(2*n-1)
  PROVE  x % n = x - n
  BY SMT

(* Sums and differences of two positions fall into one of the two cases.       *)
LEMMA ModCases ==
  ASSUME NEW x \in 0..(2*N-1)
  PROVE  x % N = IF x < N THEN x ELSE x - N
<1>1. CASE x < N
  BY <1>1, ModSmall, NAssumption
<1>2. CASE x >= N
  BY <1>2, ModOneTurn, NAssumption
<1>3. QED
  BY <1>1, <1>2, NAssumption

(* Going i places on from x, and the way from y on to x.                        *)
LEMMA AroundTheRing ==
  ASSUME NEW x \in Backends, NEW y \in Backends
  PROVE  /\ (x + y) % N = IF x + y < N THEN x + y ELSE x + y - N
         /\ (x + N - y) % N = IF x >= y THEN x - y ELSE x + N - y
         /\ (x + N - y) % N \in Backends
<1> DEFINE on == x + y
           back == x + N - y
<1>1. on \in 0..(2*N-1) /\ back \in 0..(2*N-1)
  BY NAssumption DEF Backends
<1> HIDE DEF on, back
<1>2. on % N = IF on < N THEN on ELSE on - N
  BY <1>1, ModCases
<1>3. back % N = IF back < N THEN back ELSE back - N
  BY <1>1, ModCases
<1>4. QED
  BY <1>1, <1>2, <1>3, NAssumption DEF Backends, on, back

(* Distance is the number of scan turns before b's.                             *)
LEMMA DistanceIs ==
  ASSUME cursor \in Backends, NEW b \in Backends
  PROVE  /\ Distance(b) = IF b >= cursor THEN b - cursor ELSE b + N - cursor
         /\ Distance(b) \in Backends
         /\ At(Distance(b)) = b
<1>1. /\ Distance(b) = IF b >= cursor THEN b - cursor ELSE b + N - cursor
      /\ Distance(b) \in Backends
  BY AroundTheRing DEF Distance
<1>2. At(Distance(b)) = IF cursor + Distance(b) < N THEN cursor + Distance(b)
                        ELSE cursor + Distance(b) - N
  BY <1>1, AroundTheRing DEF At
<1>3. QED
  BY <1>1, <1>2, NAssumption DEF Backends

(* A scan that stops at p before it comes to b leaves the cursor behind p,      *)
(* nearer to b.                                                                 *)
LEMMA PickComesCloser ==
  ASSUME cursor \in Backends, NEW p \in Backends, NEW b \in Backends,
         Distance(p) < Distance(b), cursor' = (p + 1) % N
  PROVE  Distance(b)' < Distance(b)
<1>1. cursor' = IF p + 1 < N THEN p + 1 ELSE 0
  BY ModCases, NAssumption DEF Backends
<1>2. cursor' \in Backends
  BY <1>1, NAssumption DEF Backends
<1>3. Distance(b)' = IF b >= cursor' THEN b - cursor' ELSE b + N - cursor'
  BY <1>2, AroundTheRing DEF Distance
<1>4. /\ Distance(b) = IF b >= cursor THEN b - cursor ELSE b + N - cursor
      /\ Distance(p) = IF p >= cursor THEN p - cursor ELSE p + N - cursor
  BY DistanceIs
<1>5. QED
  BY <1>1, <1>3, <1>4, NAssumption DEF Backends

(* The scan finds no available backend before the one it picks.                 *)
LEMMA PickIsNearest ==
  ASSUME cursor \in Backends, NEW p \in Backends, NEW b \in Backends,
         ScanFinds(p), b # p, IsAvailable(breaker[b])
  PROVE  Distance(p) < Distance(b)
<1>1. PICK i \in Backends : /\ p = At(i)
                            /\ \A j \in 0..(i-1) : ~IsAvailable(breaker[At(j)])
  BY DEF ScanFinds
<1>2. /\ Distance(b) \in Backends /\ At(Distance(b)) = b
      /\ Distance(p) = IF p >= cursor THEN p - cursor ELSE p + N - cursor
  BY DistanceIs
<1>3. Distance(b) \notin 0..(i-1)
  BY <1>1, <1>2
<1>4. Distance(p) = i
  <2>1. p = IF cursor + i < N THEN cursor + i ELSE cursor + i - N
    BY <1>1, AroundTheRing DEF At
  <2>2. QED
    BY <1>2, <2>1, NAssumption DEF Backends
<1>5. Distance(b) # Distance(p)
  BY <1>1, <1>2, <1>4
<1>6. QED
  BY <1>2, <1>3, <1>4, <1>5 DEF Backends

--------------------------------------------------------------------------------
(* History variables do not change what the pool does.                          *)

(* A step with history variables is a step of the pool, or none.               *)
LEMMA HistoryStep == [HNext]_hvars => [Next]_vars
  BY DEF HNext, HOther, HPick, Next, hvars, vars

(* The pool's invariant holds with the history variables too.                  *)
LEMMA HistoryIsPool == HSpec => []PoolInv
<1>1. HInit => Init
  BY DEF HInit
<1>2. HSpec => Spec
  BY <1>1, HistoryStep, PTL DEF HSpec, Spec
<1>3. QED
  BY <1>2, PoolInvariant, PTL

(* Picks that passed b over, plus the turns the scan still needs to reach it,   *)
(* stay below N.                                                                *)
ScanInv == passed \in [Backends -> Nat] /\ ScanDebt

(* No backend has been passed over at the start.                               *)
LEMMA ScanInvInit == HInit => ScanInv
<1> SUFFICES ASSUME HInit PROVE ScanInv
  OBVIOUS
<1>1. cursor \in Backends
  BY NAssumption DEF HInit, Init, Backends
<1>2. \A b \in Backends : Distance(b) \in Backends
  BY <1>1, DistanceIs
<1>3. QED
  BY <1>2, NAssumption DEF HInit, ScanInv, ScanDebt, Backends

(* Every step keeps each backend's debt within its distance from the cursor.   *)
LEMMA ScanInvStep == PoolInv /\ PoolInv' /\ ScanInv /\ [HNext]_hvars => ScanInv'
<1> SUFFICES ASSUME PoolInv, PoolInv', ScanInv, [HNext]_hvars PROVE ScanInv'
  OBVIOUS
<1>0. cursor \in Backends /\ cursor' \in Backends
  BY DEF PoolInv, TypeOK
<1>1. ASSUME UNCHANGED <<cursor, passed>> PROVE ScanInv'
  BY <1>1 DEF ScanInv, ScanDebt, Distance
<1>2. ASSUME NEW p \in Backends, HPick(p) PROVE ScanInv'
  <2>1. passed' \in [Backends -> Nat]
    BY <1>2 DEF HPick, ScanInv
  <2>2. ASSUME NEW b \in Backends PROVE passed'[b] + Distance(b)' < N
    <3>1. Distance(b)' \in Backends
      BY <1>0, AroundTheRing DEF Distance
    <3>2. CASE b # p /\ IsAvailable(breaker[b])
      <4>1. Distance(p) < Distance(b)
        BY <1>0, <1>2, <3>2, PickIsNearest DEF HPick, GetHealthyBackend
      <4>2. Distance(b)' < Distance(b)
        BY <1>0, <1>2, <4>1, PickComesCloser DEF HPick, GetHealthyBackend
      <4>3. passed'[b] = passed[b] + 1
        BY <1>2, <3>2 DEF HPick
      <4>4. passed[b] + Distance(b) < N /\ Distance(b) \in Backends
        BY <1>0, DistanceIs DEF ScanInv, ScanDebt
      <4>5. QED
        BY <3>1, <4>2, <4>3, <4>4, NAssumption DEF ScanInv, Backends
    <3>3. CASE ~(b # p /\ IsAvailable(breaker[b]))
      <4>1. passed'[b] = 0
        BY <1>2, <3>3 DEF HPick
      <4>2. QED
        BY <3>1, <4>1, NAssumption DEF Backends
    <3>4. QED
      BY <3>2, <3>3
  <2>3. QED
    BY <2>1, <2>2 DEF ScanInv, ScanDebt
<1>3. CASE HOther
  BY <1>1, <1>3 DEF HOther, CallSucceeds, CallFails, CallCancelled, CallEnds,
                    HealthyCount, Tick
<1>4. QED
  BY <1>1, <1>2, <1>3 DEF HNext, hvars

(* A backend every scan finds available is picked within N picks, for any       *)
(* number of backends.                                                          *)
THEOREM RoundRobinServesEveryone == HSpec => []NoStarvation
<1>1. HSpec => []ScanInv
  BY ScanInvInit, ScanInvStep, HistoryIsPool, PTL DEF HSpec
<1>2. PoolInv /\ ScanInv => NoStarvation
  <2>1. ASSUME PoolInv, ScanInv, NEW b \in Backends PROVE passed[b] < N
    <3>1. cursor \in Backends
      BY <2>1 DEF PoolInv, TypeOK
    <3>2. Distance(b) \in Backends
      BY <3>1, DistanceIs
    <3>3. QED
      BY <2>1, <3>2, NAssumption DEF ScanInv, ScanDebt, Backends
  <2>2. QED
    BY <2>1 DEF NoStarvation
<1>3. QED
  BY <1>1, <1>2, HistoryIsPool, PTL

================================================================================
