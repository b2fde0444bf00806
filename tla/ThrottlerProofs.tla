---------------------------- MODULE ThrottlerProofs ----------------------------
(* The throttler's variables keep their types and its decisions are fresh, for    *)
(* any limits, interval and timeout, however often a fetch waits, and whichever   *)
(* polls fail.                                                                    *)
EXTENDS Throttler, TLAPS

Cycle == Interval + FetchLimit

(* What the waits before the w-th took at most, each with a timeout of t.         *)
WaitCost(w, t) == (w - 1) * t

LEMMA WaitCosts ==
  ASSUME NEW t \in Nat, NEW w \in 1..Waits
  PROVE  /\ Waits * t \in Nat /\ WaitCost(1, t) = 0
         /\ WaitCost(w, t) \in Nat /\ WaitCost(w, t) + t <= Waits * t
         /\ WaitCost(w + 1, t) = WaitCost(w, t) + t
<1>1. Waits \in Nat /\ w \in Nat /\ 1 <= w /\ w <= Waits
  BY TimesAssumption
<1>2. WaitCost(w, t) \in Nat /\ WaitCost(w, t) + t = w * t
  BY <1>1 DEF WaitCost
<1>3. Waits * t = w * t + (Waits - w) * t /\ (Waits - w) * t \in Nat /\ w * t \in Nat
  BY <1>1
<1>4. WaitCost(w + 1, t) = w * t /\ WaitCost(1, t) = 0
  BY <1>1 DEF WaitCost
<1>5. QED
  BY <1>2, <1>3, <1>4

LEMMA FetchLimitType == FetchLimit \in Nat
  BY TimesAssumption, WaitCosts DEF FetchLimit

(* AgeAllowed grows by one cycle per poll that failed.                            *)
LEMMA AgePerMiss ==
  ASSUME NEW n \in Nat
  PROVE  /\ AgeAllowed(n) \in Nat
         /\ AgeAllowed(0) = FetchLimit + Cycle
         /\ AgeAllowed(n + 1) = AgeAllowed(n) + Cycle
<1>1. Cycle \in Nat /\ FetchLimit \in Nat
  BY TimesAssumption, FetchLimitType DEF Cycle
<1>2. AgeAllowed(n) = FetchLimit + (n + 1) * Cycle
  BY DEF AgeAllowed, Cycle
<1>3. AgeAllowed(n + 1) = FetchLimit + ((n + 1) + 1) * Cycle
  BY DEF AgeAllowed, Cycle
<1>4. \A m, c \in Nat : m * c \in Nat /\ (m + 1) * c = m * c + c
  OBVIOUS
<1>5. QED
  BY <1>1, <1>2, <1>3, <1>4 DEF AgeAllowed, Cycle

LEMMA MaxAgeType == MaxAge \in Nat /\ \A n \in 0..MaxMisses : AgeAllowed(n) \in Nat
<1>1. MaxMisses - 1 \in Nat
  BY TimesAssumption
<1>2. AgeAllowed(MaxMisses - 1) \in Nat
  BY <1>1, AgePerMiss
<1>3. QED
  BY <1>2, AgePerMiss DEF MaxAge

--------------------------------------------------------------------------------
(* What a fetch can return was vLLM's usage during that fetch, which lasts no     *)
(* longer than its waits so far unless the reply trickles; the value used is      *)
(* younger than allowed by what the running phase may still take.                 *)
Timed ==
  /\ phase = "fetching" => waited <= FetchTimeout
  /\ phase = "sleeping" => waited <= Interval

Fetched == WaitCost(wait, FetchTimeout) + waited

Recent ==
  /\ phase \in {"off", "starting"} => ago[usage] = 0 /\ misses = 0
  /\ phase = "fetching" /\ trickled # "this" => \A u \in during : ago[u] <= Fetched
  /\ trickled = "no" /\ misses < MaxMisses =>
       /\ phase = "fetching" => ago[usage] + FetchLimit <= AgeAllowed(misses) + Fetched
       /\ phase = "sleeping" => ago[usage] + Cycle <= AgeAllowed(misses) + waited

ThrottlerInv == TypeOK /\ Timed /\ Recent

(* The parts of TypeOK the solver needs as facts about single numbers.            *)
LEMMA Numbers ==
  ASSUME ThrottlerInv
  PROVE  /\ wait \in 1..Waits /\ waited \in Nat
         /\ WaitCost(wait, FetchTimeout) \in Nat
         /\ WaitCost(wait, FetchTimeout) + FetchTimeout <= FetchLimit
         /\ usage \in Usage /\ actual \in Usage /\ during \subseteq Usage
         /\ \A u \in Usage : ago[u] \in Nat
         /\ misses \in Nat /\ misses <= MaxMisses /\ MaxMisses \in Nat \ {0}
         /\ AgeAllowed(misses) \in Nat
         /\ Interval \in Nat \ {0} /\ FetchTimeout \in Nat \ {0}
         /\ FetchLimit \in Nat /\ Cycle \in Nat
         /\ 0 \in Usage
<1>1. waited \in Nat /\ misses \in Nat /\ misses <= MaxMisses
  BY TimesAssumption DEF ThrottlerInv, TypeOK
<1>2. \A u \in Usage : ago[u] \in Nat
  BY MaxAgeType DEF ThrottlerInv, TypeOK
<1>3. usage \in Usage /\ actual \in Usage /\ during \subseteq Usage
  BY DEF ThrottlerInv, TypeOK
<1>4. 0 \in Usage
  BY LimitsAssumption DEF Usage
<1>5. Interval \in Nat \ {0} /\ FetchTimeout \in Nat \ {0} /\ FetchLimit \in Nat
      /\ Cycle \in Nat
  BY TimesAssumption, FetchLimitType DEF Cycle
<1>6. wait \in 1..Waits
  BY DEF ThrottlerInv, TypeOK
<1>7. WaitCost(wait, FetchTimeout) \in Nat
      /\ WaitCost(wait, FetchTimeout) + FetchTimeout <= FetchLimit
  BY <1>5, <1>6, WaitCosts DEF FetchLimit
<1>8. QED
  BY <1>1, <1>2, <1>3, <1>4, <1>5, <1>6, <1>7, AgePerMiss, TimesAssumption

(* Within its waits a fetch is within its limit.                                  *)
LEMMA FetchedInTime ==
  ASSUME ThrottlerInv
  PROVE  Fetched \in Nat /\ (phase = "fetching" => Fetched <= FetchLimit)
  BY Numbers DEF ThrottlerInv, Timed, Fetched

LEMMA ThrottlerInit == Init => ThrottlerInv
<1> SUFFICES ASSUME Init PROVE ThrottlerInv
  OBVIOUS
<1>1. actual \in Usage /\ usage = 0 /\ 0 \in Usage
  BY LimitsAssumption DEF Init, Usage
<1>2. TypeOK
  <2>1. ago \in [Usage -> 0..MaxAge] /\ ago[actual] = 0
    BY <1>1, MaxAgeType DEF Init
  <2>2. 0 \in 0..(IF Interval > FetchTimeout THEN Interval ELSE FetchTimeout)
        /\ 1 \in 1..Waits
    BY TimesAssumption
  <2>3. QED
    BY <1>1, <2>1, <2>2, TimesAssumption DEF Init, TypeOK
<1>3. Timed /\ Recent
  BY <1>1 DEF Init, Timed, Recent
<1>4. QED
  BY <1>2, <1>3 DEF ThrottlerInv

LEMMA StartKeeps == ThrottlerInv /\ Start => ThrottlerInv'
  BY DEF Start, ThrottlerInv, TypeOK, Timed, Recent

LEMMA StopKeeps == ThrottlerInv /\ Stop => ThrottlerInv'
<1> SUFFICES ASSUME ThrottlerInv, Stop PROVE ThrottlerInv'
  OBVIOUS
<1>1. ago' \in [Usage -> 0..MaxAge] /\ ago'[actual] = 0
  BY Numbers, MaxAgeType DEF Stop
<1>2. TypeOK'
  BY <1>1, TimesAssumption DEF Stop, ThrottlerInv, TypeOK
<1>3. Timed' /\ Recent'
  BY DEF Stop, Timed, Recent
<1>4. QED
  BY <1>2, <1>3 DEF ThrottlerInv

(* A wait that is over cost its timeout at most, and parts are no longer told.    *)
LEMMA WaitingKeeps == ThrottlerInv /\ (NextWait \/ Trickle) => ThrottlerInv'
<1> SUFFICES ASSUME ThrottlerInv, NextWait \/ Trickle PROVE ThrottlerInv'
  OBVIOUS
<1>1. phase = "fetching" /\ waited' = 0
      /\ UNCHANGED <<phase, usage, actual, during, ago, misses>>
  BY DEF NextWait, Trickle, Reading
<1>2. wait' \in 1..Waits /\ trickled' \in {"no", "this", "before"}
  BY Numbers, TimesAssumption DEF NextWait, Trickle, ThrottlerInv, TypeOK
<1>3. TypeOK'
  BY <1>1, <1>2, TimesAssumption DEF ThrottlerInv, TypeOK
<1>4. Timed'
  BY <1>1, TimesAssumption DEF Timed
<1>5. CASE NextWait
  <2>1. wait' = wait + 1 /\ trickled' = trickled
    BY <1>5 DEF NextWait
  <2>2. WaitCost(wait', FetchTimeout) = WaitCost(wait, FetchTimeout) + FetchTimeout
    BY <2>1, Numbers, WaitCosts
  <2>3. Fetched' \in Nat /\ Fetched <= Fetched' /\ Fetched \in Nat
    BY <1>1, <2>2, Numbers DEF Fetched, ThrottlerInv, Timed
  <2>4. Recent'
    BY <1>1, <2>1, <2>3, Numbers DEF ThrottlerInv, Recent
  <2>5. QED
    BY <1>3, <1>4, <2>4 DEF ThrottlerInv
<1>6. CASE Trickle
  <2>1. Recent'
    BY <1>1, <1>6 DEF Trickle, Recent
  <2>2. QED
    BY <1>3, <1>4, <2>1 DEF ThrottlerInv
<1>7. QED
  BY <1>5, <1>6

(* A fetch begins after at most an interval of sleep.                             *)
LEMMA FetchKeeps == ThrottlerInv /\ Fetch => ThrottlerInv'
<1> SUFFICES ASSUME ThrottlerInv, Fetch PROVE ThrottlerInv'
  OBVIOUS
<1>1. TypeOK'
  BY TimesAssumption DEF Fetch, ThrottlerInv, TypeOK
<1>2. Timed'
  BY TimesAssumption DEF Fetch, Timed
<1>3. Recent'
  <2>0. Fetched' \in Nat
    <3>1. wait' \in 1..Waits /\ waited' = 0
      BY DEF Fetch
    <3>2. WaitCost(wait', FetchTimeout) \in Nat
      BY <3>1, Numbers, WaitCosts
    <3>3. QED
      BY <3>1, <3>2 DEF Fetched
  <2>1. phase' = "fetching" /\ \A u \in during' : ago'[u] <= Fetched'
    BY <2>0 DEF Fetch, ThrottlerInv, TypeOK
  <2>2. CASE phase = "starting"
    BY <2>0, <2>1, <2>2, Numbers, AgePerMiss DEF Fetch, ThrottlerInv, Recent
  <2>3. CASE phase = "sleeping"
    BY <2>0, <2>1, <2>3, Numbers DEF Fetch, ThrottlerInv, Recent, Timed, Cycle
  <2>4. QED
    BY <2>2, <2>3 DEF Fetch
<1>4. QED
  BY <1>1, <1>2, <1>3 DEF ThrottlerInv

(* A good poll leaves a value seen in the fetch, at most FetchLimit old; one that *)
(* finds no gauge a 0 taken for just seen; one that fails, one failure more.      *)
LEMMA PollKeeps ==
  ThrottlerInv /\ (PollSucceeds \/ PollFindsNothing \/ PollFails) => ThrottlerInv'
<1> SUFFICES ASSUME ThrottlerInv, PollSucceeds \/ PollFindsNothing \/ PollFails
             PROVE  ThrottlerInv'
  OBVIOUS
<1>1. phase = "fetching" /\ phase' = "sleeping" /\ wait' = 1 /\ waited' = 0
      /\ UNCHANGED actual
  BY DEF PollSucceeds, PollFindsNothing, PollFails, Sleep
<1>2. Timed'
  BY <1>1, TimesAssumption DEF Timed
<1>3. CASE PollSucceeds
  <2>1. usage' \in Usage /\ ago' = ago /\ misses' = 0
        /\ (trickled' = "no" => ago[usage'] <= FetchLimit)
    BY <1>1, <1>3, Numbers, FetchedInTime DEF PollSucceeds, ThrottlerInv, Recent
  <2>2. TypeOK'
    BY <1>1, <1>3, <2>1, Numbers, TimesAssumption
    DEF PollSucceeds, Sleep, ThrottlerInv, TypeOK
  <2>3. Recent'
    BY <1>1, <2>1, Numbers, AgePerMiss DEF Recent
  <2>4. QED
    BY <1>2, <2>2, <2>3 DEF ThrottlerInv
<1>4. CASE PollFindsNothing
  <2>1. usage' = 0 /\ ago' = [ago EXCEPT ![0] = 0] /\ misses' = 0
    BY <1>4 DEF PollFindsNothing
  <2>2. TypeOK'
    BY <1>1, <1>4, <2>1, Numbers, MaxAgeType, TimesAssumption
    DEF PollFindsNothing, Sleep, ThrottlerInv, TypeOK
  <2>3. ago'[usage'] = 0
    BY <2>1, Numbers DEF ThrottlerInv, TypeOK
  <2>4. Recent'
    BY <1>1, <2>1, <2>3, Numbers, AgePerMiss DEF Recent
  <2>5. QED
    BY <1>2, <2>2, <2>4 DEF ThrottlerInv
<1>5. CASE PollFails
  <2>1. UNCHANGED <<usage, ago>> /\ misses' = IF misses < MaxMisses THEN misses + 1 ELSE misses
    BY <1>5 DEF PollFails
  <2>2. TypeOK'
    BY <1>1, <1>5, <2>1, Numbers, TimesAssumption DEF PollFails, Sleep, ThrottlerInv, TypeOK
  <2>3. trickled' = "no" /\ misses' < MaxMisses => ago[usage] + Cycle <= AgeAllowed(misses')
    <3>1. SUFFICES ASSUME trickled' = "no", misses' < MaxMisses
                   PROVE  ago[usage] + Cycle <= AgeAllowed(misses')
      OBVIOUS
    <3>2. misses < MaxMisses /\ misses' = misses + 1 /\ trickled = "no"
      BY <1>5, <2>1, <3>1, Numbers DEF PollFails
    <3>3. AgeAllowed(misses') = AgeAllowed(misses) + Cycle
      BY <3>2, Numbers, AgePerMiss
    <3>4. ago[usage] + FetchLimit <= AgeAllowed(misses) + Fetched
          /\ Fetched <= FetchLimit /\ Fetched \in Nat
      BY <1>1, <3>2, FetchedInTime DEF ThrottlerInv, Recent
    <3>5. QED
      BY <3>3, <3>4, Numbers
  <2>4. Recent'
    BY <1>1, <2>1, <2>3, Numbers, AgePerMiss DEF Recent
  <2>5. QED
    BY <1>2, <2>2, <2>4 DEF ThrottlerInv
<1>6. QED
  BY <1>3, <1>4, <1>5

(* A new usage is as young as can be, and the others keep their age.              *)
LEMMA PressureKeeps == ThrottlerInv /\ Pressure => ThrottlerInv'
<1> SUFFICES ASSUME ThrottlerInv, Pressure PROVE ThrottlerInv'
  OBVIOUS
<1>1. actual' \in Usage /\ ago' = [ago EXCEPT ![actual'] = 0]
      /\ UNCHANGED <<phase, wait, waited, usage, misses, trickled>>
  BY DEF Pressure
<1>2. \A u \in Usage : ago'[u] <= ago[u] /\ ago'[u] \in Nat
  BY <1>1, Numbers DEF ThrottlerInv, TypeOK
<1>3. TypeOK'
  BY <1>1, MaxAgeType DEF Pressure, ThrottlerInv, TypeOK
<1>4. Timed'
  BY <1>1 DEF ThrottlerInv, Timed
<1>a. Fetched' = Fetched /\ Fetched \in Nat
  BY <1>1, FetchedInTime DEF Fetched
<1>5. phase = "fetching" /\ trickled # "this" => \A u \in during' : ago'[u] <= Fetched
  BY <1>1, <1>2, <1>a, Numbers DEF Pressure, ThrottlerInv, TypeOK, Recent
<1>6. Recent'
  BY <1>1, <1>2, <1>5, <1>a, Numbers DEF ThrottlerInv, Recent, Pressure, Running
<1>7. QED
  BY <1>3, <1>4, <1>6 DEF ThrottlerInv

(* A tick ages every value by one at most, and the phase by one.                  *)
LEMMA TickKeeps == ThrottlerInv /\ Tick => ThrottlerInv'
<1> SUFFICES ASSUME ThrottlerInv, Tick PROVE ThrottlerInv'
  OBVIOUS
<1>1. phase \in {"fetching", "sleeping"} /\ waited' = waited + 1
      /\ UNCHANGED <<phase, wait, usage, actual, during, misses, trickled>>
  BY DEF Tick, Running, ThrottlerInv, TypeOK
<1>2. \A u \in Usage : ago'[u] \in 0..MaxAge /\ ago'[u] <= ago[u] + 1
  BY Numbers, MaxAgeType DEF Tick, ThrottlerInv, TypeOK
<1>3. TypeOK'
  <2>1. ago' \in [Usage -> 0..MaxAge] /\ ago'[actual'] = 0
    BY <1>1, <1>2 DEF Tick, ThrottlerInv, TypeOK
  <2>2. waited' \in 0..(IF Interval > FetchTimeout THEN Interval ELSE FetchTimeout)
    BY <1>1, Numbers DEF Tick
  <2>3. QED
    BY <1>1, <2>1, <2>2 DEF ThrottlerInv, TypeOK
<1>4. Timed'
  BY <1>1, Numbers DEF Tick, Timed
<1>a. Fetched' = Fetched + 1 /\ Fetched \in Nat
  BY <1>1, Numbers, FetchedInTime DEF Fetched
<1>5. phase = "fetching" /\ trickled # "this" => \A u \in during : ago'[u] <= Fetched + 1
  BY <1>2, <1>a, Numbers DEF ThrottlerInv, Recent
<1>6. Recent'
  BY <1>1, <1>2, <1>5, <1>a, Numbers DEF ThrottlerInv, Recent
<1>7. QED
  BY <1>3, <1>4, <1>6 DEF ThrottlerInv

LEMMA ThrottlerStep == ThrottlerInv /\ [Next]_vars => ThrottlerInv'
<1> SUFFICES ASSUME ThrottlerInv, [Next]_vars PROVE ThrottlerInv'
  OBVIOUS
<1>1. CASE UNCHANGED vars
  BY <1>1 DEF vars, ThrottlerInv, TypeOK, Timed, Recent, Fetched
<1>2. CASE Next
  BY <1>2, StartKeeps, StopKeeps, FetchKeeps, WaitingKeeps, PollKeeps, PressureKeeps, TickKeeps DEF Next
<1>3. QED
  BY <1>1, <1>2

(* What is left of the phase is within the allowance.                             *)
LEMMA RecentIsFresh == ThrottlerInv => DecisionsAreFresh
<1> SUFFICES ASSUME ThrottlerInv, phase \in {"fetching", "sleeping"},
                    trickled = "no", misses < MaxMisses
             PROVE  ago[usage] <= AgeAllowed(misses)
  BY DEF DecisionsAreFresh
<1>1. QED
  BY Numbers, FetchedInTime DEF ThrottlerInv, Timed, Recent, Cycle

(* Theorem: the decision to admit rests on a value as young as the polls that     *)
(* failed since allow, for any limits and interval, any timeout of a wait and any *)
(* number of waits in a fetch, as long as no reply is sent in parts.              *)
THEOREM DecisionsStayFresh == Spec => [](TypeOK /\ DecisionsAreFresh)
<1>1. ThrottlerInv => TypeOK
  BY DEF ThrottlerInv
<1>2. QED
  BY <1>1, ThrottlerInit, ThrottlerStep, RecentIsFresh, PTL DEF Spec

================================================================================
