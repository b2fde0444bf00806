--------------------------- MODULE BackendPoolHistory ---------------------------
(* BackendPool with a history variable, which no action of the pool reads: what *)
(* the order of picks looks like from outside.                                   *)
EXTENDS BackendPool

VARIABLE passed   \* picks of others since b was last picked or found open

hvars == <<breaker, cursor, inflight, passed>>

HInit == Init /\ passed = [b \in Backends |-> 0]

HPick(p) ==
  /\ GetHealthyBackend(p)
  /\ passed' = [b \in Backends |->
                  IF b # p /\ IsAvailable(breaker[b]) THEN passed[b] + 1 ELSE 0]

HOther ==
  /\ \/ \E b \in Backends : CallSucceeds(b) \/ CallFails(b) \/ CallCancelled(b)
     \/ HealthyCount
     \/ Tick
  /\ UNCHANGED passed

HNext == HOther \/ \E b \in Backends : HPick(b)

HSpec == HInit /\ [][HNext]_hvars

FairHSpec == HSpec /\ Fairness

--------------------------------------------------------------------------------

(* Round robin: a backend that each scan finds available is passed over by     *)
(* fewer than N picks in a row, whichever circuits open, close or are skipped  *)
(* around it (get_healthy_backend moves the cursor behind the picked one).     *)
NoStarvation == \A b \in Backends : passed[b] < N

(* How far the cursor is from b in the scan order.                              *)
Distance(b) == (b + N - cursor) % N

(* The reason for NoStarvation: each pick that passes over an available b       *)
(* brings the cursor closer to it.                                              *)
ScanDebt == \A b \in Backends : passed[b] + Distance(b) < N

================================================================================
