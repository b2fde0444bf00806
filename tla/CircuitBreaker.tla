---------------------------- MODULE CircuitBreaker ----------------------------
(* One circuit breaker, api/circuit_breaker.py, as operators on its value.   *)
(* Every method of the class runs without an await, so a call is atomic and   *)
(* the modules that hold breakers use these operators inside their actions.   *)
(*                                                                            *)
(* failures  saturates at Threshold: the code compares it with >= only.       *)
(* age       is monotonic() - _last_failure_time in ticks, saturated at       *)
(*           Cooldown, again because the code only compares with >=.          *)
EXTENDS Integers

CONSTANTS Threshold,   \* failure_threshold, validated > 0 (config.py)
          Cooldown     \* cooldown_seconds in ticks, validated >= 0

ASSUME ThresholdAssumption == Threshold \in Nat \ {0}
ASSUME CooldownAssumption == Cooldown \in Nat

CircuitState == {"closed", "open", "half_open"}

Breaker == [state : CircuitState, failures : 0..Threshold, age : 0..Cooldown]

NewBreaker == [state |-> "closed", failures |-> 0, age |-> Cooldown]

(* Slips for the mutation runs: half-open one tick early; half-open with a fresh *)
(* count; an opening that resets the count.                                      *)
RefreshedTooEarly(br) ==
  IF br.state = "open" /\ br.age + 1 >= Cooldown
  THEN [br EXCEPT !.state = "half_open"] ELSE br

RefreshedCountingAnew(br) ==
  IF br.state = "open" /\ br.age >= Cooldown
  THEN [state |-> "half_open", failures |-> 0, age |-> br.age] ELSE br

RecordFailureCountingAnew(br) ==
  IF br.failures + 1 >= Threshold
  THEN [state |-> "open", failures |-> 0, age |-> 0]
  ELSE [br EXCEPT !.failures = @ + 1, !.age = 0]

(* Reading .state moves an open breaker whose cooldown is over to half-open.  *)
Refreshed(br) ==
  IF br.state = "open" /\ br.age >= Cooldown
  THEN [br EXCEPT !.state = "half_open"] ELSE br

(* Slip for the mutation runs: the field is looked at, not the property.       *)
IsAvailableByField(br) == br.state # "open"

IsAvailable(br) == Refreshed(br).state # "open"

RecordSuccess(br) == [state |-> "closed", failures |-> 0, age |-> br.age]

RecordFailure(br) ==
  LET n == IF br.failures < Threshold THEN br.failures + 1 ELSE Threshold
  IN  [state    |-> IF n >= Threshold THEN "open" ELSE br.state,
       failures |-> n,
       age      |-> 0]

(* One tick of time.monotonic() as this breaker sees it.                      *)
Aged(br) == [br EXCEPT !.age = IF @ < Cooldown THEN @ + 1 ELSE @]

===============================================================================
