------------------------------ MODULE BackendPool ------------------------------
(* integration/backend_pool.py: the round-robin pool of backends, a breaker    *)
(* for each, shared by every request of the worker's event loop.               *)
(*                                                                             *)
(* The pool's methods never await, so each is one action. A request picks a    *)
(* backend, awaits the call and only then reports the outcome; any number of   *)
(* picks, reports and clock ticks may fall in between, so a report can be      *)
(* about a breaker that has opened, cooled down or closed meanwhile.           *)
EXTENDS CircuitBreaker

CONSTANTS N,         \* len(backends)
          MaxCalls   \* bound: calls in flight to one backend

ASSUME NAssumption == N \in Nat \ {0}
ASSUME MaxCallsAssumption == MaxCalls \in Nat \ {0}

VARIABLES breaker,   \* _breakers: backend -> breaker
          cursor,    \* _index
          inflight   \* calls handed out and not yet reported on, per backend

vars == <<breaker, cursor, inflight>>

Backends == 0 .. N-1

TypeOK ==
  /\ breaker \in [Backends -> Breaker]
  /\ cursor \in Backends
  /\ inflight \in [Backends -> 0..MaxCalls]

Init ==
  /\ breaker = [b \in Backends |-> NewBreaker]
  /\ cursor = 0
  /\ inflight = [b \in Backends |-> 0]

(* The backend the scan of get_healthy_backend looks at in its i-th turn.      *)
At(i) == (cursor + i) % N

(* b is the first available backend from the cursor on.                        *)
ScanFinds(b) ==
  \E i \in Backends :
    /\ b = At(i)
    /\ IsAvailable(breaker[b])
    /\ \A j \in 0..(i-1) : ~IsAvailable(breaker[At(j)])

(* Slips for the mutation runs: a cursor that never wraps, and one that stays.   *)
GetHealthyBackendNoWrap(b) ==
  /\ ScanFinds(b)
  /\ inflight[b] < MaxCalls
  /\ breaker' = [breaker EXCEPT ![b] = Refreshed(@)]
  /\ cursor' = b + 1
  /\ inflight' = [inflight EXCEPT ![b] = @ + 1]

GetHealthyBackendSticky(b) ==
  /\ ScanFinds(b)
  /\ inflight[b] < MaxCalls
  /\ breaker' = [breaker EXCEPT ![b] = Refreshed(@)]
  /\ cursor' = b
  /\ inflight' = [inflight EXCEPT ![b] = @ + 1]

(* Breakers scanned before b were found open, which leaves them unchanged.     *)
GetHealthyBackend(b) ==
  /\ ScanFinds(b)
  /\ inflight[b] < MaxCalls
  /\ breaker' = [breaker EXCEPT ![b] = Refreshed(@)]
  /\ cursor' = (b + 1) % N
  /\ inflight' = [inflight EXCEPT ![b] = @ + 1]

(* A call ends and its caller reports it, or was cancelled and reports nothing *)
CallEnds(b) ==
  /\ inflight[b] > 0
  /\ inflight' = [inflight EXCEPT ![b] = @ - 1]
  /\ UNCHANGED cursor

CallSucceeds(b) ==
  /\ CallEnds(b)
  /\ breaker' = [breaker EXCEPT ![b] = RecordSuccess(@)]

CallFails(b) ==
  /\ CallEnds(b)
  /\ breaker' = [breaker EXCEPT ![b] = RecordFailure(@)]

CallCancelled(b) ==
  /\ CallEnds(b)
  /\ UNCHANGED breaker

(* /health and /metrics count healthy backends by reading every breaker.       *)
HealthyCount ==
  /\ breaker' = [b \in Backends |-> Refreshed(breaker[b])]
  /\ UNCHANGED <<cursor, inflight>>

Tick ==
  /\ breaker' = [b \in Backends |-> Aged(breaker[b])]
  /\ UNCHANGED <<cursor, inflight>>

Next ==
  \/ \E b \in Backends :
       \/ GetHealthyBackend(b)
       \/ CallSucceeds(b)
       \/ CallFails(b)
       \/ CallCancelled(b)
  \/ HealthyCount
  \/ Tick

Spec == Init /\ [][Next]_vars

(* Time passes and requests keep arriving; a backend that is asked again and   *)
(* again answers one of the calls in the end, not every caller is cancelled.   *)
Fairness ==
  /\ WF_vars(Tick)
  /\ WF_vars(\E b \in Backends : GetHealthyBackend(b))
  /\ \A b \in Backends : SF_vars(CallSucceeds(b) \/ CallFails(b))

FairSpec == Spec /\ Fairness

--------------------------------------------------------------------------------

(* The circuit is off "closed" exactly when Threshold failures were recorded   *)
(* with no success in between. record_failure relies on it: it has no branch   *)
(* for half-open, and a failed probe reopens the circuit only because the      *)
(* counter still stands at the threshold.                                      *)
BreakerShape ==
  \A b \in Backends :
    breaker[b].state # "closed" <=> breaker[b].failures = Threshold

(* A request is never sent to a backend whose last Threshold reports were      *)
(* failures and whose latest failure is younger than the cooldown, whichever   *)
(* late reports and health checks came in between (get_healthy_backend).       *)
NeverPicksCoolingBackend ==
  [][\A b \in Backends :
       inflight'[b] > inflight[b]
         => breaker[b].failures < Threshold \/ breaker[b].age >= Cooldown]_vars

(* The abstract pool keeps the failure counts and ages of the breakers only.   *)
Abstract == INSTANCE StatelessPool WITH
  failures <- [b \in Backends |-> breaker[b].failures],
  age      <- [b \in Backends |-> breaker[b].age]

(* Seen through failure counts and ages alone, the pool behaves like one that  *)
(* has no circuit states: half-open, and whether a request or a health check   *)
(* observes it first, never decides which backend a request gets.              *)
ImplementsStatelessPool == Abstract!Spec

(* Once a backend stops failing, its circuit closes and stays closed, however  *)
(* many circuits were open and whatever health checks do in the meantime.      *)
RecoversWhenFailuresStop ==
  \A b \in Backends :
    <>[][~CallFails(b)]_vars => <>[](breaker[b].state = "closed")

(* What the comment in circuit_breaker.py (lines 6-7) says: an open circuit    *)
(* rejects every request for cooldown_seconds. The code lets the late success  *)
(* of a call sent earlier close it at once.                                    *)
OpenLastsForCooldown ==
  [][\A b \in Backends :
       breaker[b].state = "open" /\ breaker'[b].state # "open"
         => breaker[b].age >= Cooldown]_vars

================================================================================
