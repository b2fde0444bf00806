------------------------------ MODULE StatelessPool ------------------------------
(* What a pool of circuit breakers promises, without any circuit state: every    *)
(* backend has a count of consecutive failures and the age of the latest one,    *)
(* and may be used when the count is below the threshold or the cooldown is      *)
(* over. Nothing else is remembered, so reading the health of the pool changes   *)
(* nothing. BackendPool, whose reads move breakers to half-open, implements it.  *)
EXTENDS Integers

CONSTANTS N, Threshold, Cooldown, MaxCalls

VARIABLES failures, age, cursor, inflight

vars == <<failures, age, cursor, inflight>>

Backends == 0 .. N-1

Usable(b) == failures[b] < Threshold \/ age[b] >= Cooldown

Init ==
  /\ failures = [b \in Backends |-> 0]
  /\ age = [b \in Backends |-> Cooldown]
  /\ cursor = 0
  /\ inflight = [b \in Backends |-> 0]

Pick(b) ==
  /\ Usable(b)
  /\ \E i \in Backends :
       /\ b = (cursor + i) % N
       /\ \A j \in 0..(i-1) : ~Usable((cursor + j) % N)
  /\ inflight[b] < MaxCalls
  /\ inflight' = [inflight EXCEPT ![b] = @ + 1]
  /\ cursor' = (b + 1) % N
  /\ UNCHANGED <<failures, age>>

(* Each outcome of a call: a success forgets the failures, a failure is one     *)
(* more and the latest, a cancelled call leaves no trace.                       *)
Report(b) ==
  /\ inflight[b] > 0
  /\ inflight' = [inflight EXCEPT ![b] = @ - 1]
  /\ UNCHANGED cursor
  /\ \/ failures' = [failures EXCEPT ![b] = 0] /\ UNCHANGED age
     \/ /\ failures' = [failures EXCEPT ![b] = IF @ < Threshold THEN @ + 1 ELSE @]
        /\ age' = [age EXCEPT ![b] = 0]
     \/ UNCHANGED <<failures, age>>

Tick ==
  /\ age' = [b \in Backends |-> IF age[b] < Cooldown THEN age[b] + 1 ELSE age[b]]
  /\ UNCHANGED <<failures, cursor, inflight>>

Next == Tick \/ \E b \in Backends : Pick(b) \/ Report(b)

Spec == Init /\ [][Next]_vars

==================================================================================
