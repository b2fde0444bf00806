------------------------------- MODULE Throttler -------------------------------
(* optimization/throttler.py: the task that polls vLLM's /metrics for the use of  *)
(* its KV cache, and the admission decision taken from the last value it saw.     *)
(* A throttler is started at most once, where it is made, and stopped at most once *)
(* (module Lifespan).                                                             *)
(*                                                                                *)
(* httpx's 5 s are those of each wait for the network: for a connection, to       *)
(* connect, to write, to read. A /metrics that keeps sending something is never   *)
(* timed out, and its gauge may be as old as the whole fetch.                     *)
EXTENDS Integers

CONSTANTS Full,          \* usage is a fraction of Full
          SoftLimit, HardLimit,
          Interval,      \* poll_interval_seconds, in ticks
          Waits,         \* how often a fetch waits until a reply has begun
          FetchTimeout,  \* httpx's 5 s for each wait, in ticks
          Faults,        \* subset of {"unreachable", "no_metric", "dribble"}
          MaxMisses      \* bound: polls counted as failed in a row

(* The check of __init__.                                                         *)
ASSUME LimitsAssumption ==
  /\ SoftLimit \in Nat \ {0} /\ HardLimit \in Nat /\ Full \in Nat
  /\ SoftLimit < HardLimit /\ HardLimit <= Full
ASSUME TimesAssumption ==
  /\ Interval \in Nat \ {0} /\ MaxMisses \in Nat \ {0}
  /\ Waits \in Nat \ {0} /\ FetchTimeout \in Nat \ {0}

Usage == 0..Full

VARIABLES phase,    \* what the poll task is doing
          wait,     \* which of the waits of a fetch; the last is for the reply
          waited,   \* ticks in this wait, or in the sleep
          usage,    \* _kv_usage
          actual,   \* vLLM's usage now
          during,   \* its values since the running fetch began
          ago,      \* history: ticks since vLLM's usage was each value
          misses,   \* history: polls that failed since the last good one
          trickled  \* history: has a reply been sent in parts, in this fetch or
                    \* from the one that brought the usage on?

vars == <<phase, wait, waited, usage, actual, during, ago, misses, trickled>>

(* The longest a fetch lasts whose reply comes at once when it comes.             *)
FetchLimit == Waits * FetchTimeout

(* A value observed may be one fetch old on arrival; it is used until the next    *)
(* good poll, an interval and a fetch away for every poll that fails.             *)
AgeAllowed(n) == FetchLimit + (n + 1) * (Interval + FetchLimit)
MaxAge == AgeAllowed(MaxMisses - 1) + 1   \* bound: ages saturate here

Running == phase \notin {"off", "stopped"}

TypeOK ==
  /\ phase \in {"off", "starting", "fetching", "sleeping", "stopped"}
  /\ wait \in 1..Waits
  /\ waited \in 0..(IF Interval > FetchTimeout THEN Interval ELSE FetchTimeout)
  /\ usage \in Usage
  /\ actual \in during /\ during \subseteq Usage
  /\ ago \in [Usage -> 0..MaxAge] /\ ago[actual] = 0
  /\ misses \in 0..MaxMisses
  /\ trickled \in {"no", "this", "before"}

Init ==
  /\ phase = "off"
  /\ wait = 1 /\ waited = 0
  /\ usage = 0
  /\ actual \in Usage
  /\ during = {actual}
  /\ ago = [u \in Usage |-> IF u \in {0, actual} THEN 0 ELSE MaxAge]
  /\ misses = 0 /\ trickled = "no"

Check ==
  IF usage >= HardLimit THEN "reject" ELSE IF usage >= SoftLimit THEN "queue" ELSE "accept"

(* start() follows __init__ at once; the usage assumed until the first poll is 0.  *)
Start ==
  /\ phase = "off"
  /\ phase' = "starting"
  /\ UNCHANGED <<wait, waited, usage, actual, during, ago, misses, trickled>>

(* The client of the loop keeps its connection, so a fetch may begin at any wait. *)
Fetch ==
  /\ phase = "starting" \/ (phase = "sleeping" /\ waited >= Interval)
  /\ phase' = "fetching"
  /\ wait' \in 1..Waits
  /\ waited' = 0
  /\ during' = {actual}
  /\ UNCHANGED <<usage, actual, ago, misses, trickled>>

Reading == phase = "fetching" /\ wait = Waits

(* The connection is there, or the request is written.                            *)
NextWait ==
  /\ phase = "fetching" /\ wait < Waits
  /\ wait' = wait + 1
  /\ waited' = 0
  /\ UNCHANGED <<phase, usage, actual, during, ago, misses, trickled>>

(* A part of the reply arrives, and the wait for more begins.                     *)
Trickle ==
  /\ "dribble" \in Faults
  /\ Reading /\ waited > 0
  /\ waited' = 0
  /\ trickled' = "this"
  /\ UNCHANGED <<phase, wait, usage, actual, during, ago, misses>>

Sleep ==
  /\ phase = "fetching"
  /\ phase' = "sleeping"
  /\ wait' = 1 /\ waited' = 0
  /\ during' = {actual}

(* A reply of status 200 says what the usage was at some point of the fetch.      *)
PollSucceeds ==
  /\ Reading
  /\ Sleep
  /\ usage' \in during
  /\ misses' = 0
  /\ trickled' = IF trickled = "this" THEN "before" ELSE "no"
  /\ UNCHANGED <<actual, ago>>

(* Slip for the mutation runs: an error ends the loop.                            *)
PollFailsAndEnds ==
  /\ "unreachable" \in Faults
  /\ phase = "fetching"
  /\ phase' = "ended"
  /\ wait' = 1 /\ waited' = 0
  /\ during' = {actual}
  /\ misses' = IF misses < MaxMisses THEN misses + 1 ELSE misses
  /\ trickled' = IF trickled = "no" THEN "no" ELSE "before"
  /\ UNCHANGED <<usage, actual, ago>>

(* An error, a timeout or any other status: the last value is kept.               *)
PollFails ==
  /\ "unreachable" \in Faults
  /\ Sleep
  /\ misses' = IF misses < MaxMisses THEN misses + 1 ELSE misses
  /\ trickled' = IF trickled = "no" THEN "no" ELSE "before"
  /\ UNCHANGED <<usage, actual, ago>>

(* A text without the gauge, or with an unreadable one, counts as no use at all:  *)
(* ago takes that 0, like the one of __init__, for just seen.                     *)
PollFindsNothing ==
  /\ "no_metric" \in Faults
  /\ Reading
  /\ Sleep
  /\ usage' = 0
  /\ misses' = 0 /\ trickled' = "no"
  /\ ago' = [ago EXCEPT ![0] = 0]
  /\ UNCHANGED actual

(* stop() cancels the task, at either of its awaits or before its first step. No  *)
(* decision is taken from then on, and the histories end.                         *)
Stop ==
  /\ Running
  /\ phase' = "stopped"
  /\ wait' = 1 /\ waited' = 0
  /\ during' = {actual}
  /\ ago' = [u \in Usage |-> 0] /\ misses' = 0 /\ trickled' = "no"
  /\ UNCHANGED <<usage, actual>>

(* Before the start and after the stop nobody looks at vLLM.                      *)
Pressure ==
  /\ Running
  /\ actual' \in Usage \ {actual}
  /\ during' = IF phase = "fetching" THEN during \cup {actual'} ELSE {actual'}
  /\ ago' = [ago EXCEPT ![actual'] = 0]
  /\ UNCHANGED <<phase, wait, waited, usage, misses, trickled>>

(* Slip for the mutation runs: the fetch is not given a timeout.                  *)
TickWithoutTimeout ==
  /\ Running /\ phase # "starting"
  /\ phase = "sleeping" => waited < Interval
  /\ waited' = IF phase \in {"fetching", "sleeping"} THEN waited + 1 ELSE waited
  /\ ago' = [u \in Usage |-> IF u = actual THEN 0
                             ELSE IF ago[u] < MaxAge THEN ago[u] + 1 ELSE MaxAge]
  /\ UNCHANGED <<phase, wait, usage, actual, during, misses, trickled>>

Tick ==
  /\ Running /\ phase # "starting"
  /\ phase = "fetching" => waited < FetchTimeout
  /\ phase = "sleeping" => waited < Interval
  /\ waited' = IF phase \in {"fetching", "sleeping"} THEN waited + 1 ELSE waited
  /\ ago' = [u \in Usage |-> IF u = actual THEN 0
                             ELSE IF ago[u] < MaxAge THEN ago[u] + 1 ELSE MaxAge]
  /\ UNCHANGED <<phase, wait, usage, actual, during, misses, trickled>>

Next ==
  \/ Start \/ Fetch \/ NextWait \/ Trickle
  \/ PollSucceeds \/ PollFails \/ PollFindsNothing
  \/ Stop \/ Pressure \/ Tick

Spec == Init /\ [][Next]_vars

(* Time passes, a due poll is made, and a backend asked for ever takes a          *)
(* connection and answers at times, so that no reply dribbles for ever: strong    *)
(* fairness is what "reachable now and then" means for a loop that leaves the     *)
(* fetch between two polls.                                                       *)
FairSpec ==
  /\ Spec
  /\ WF_vars(Tick) /\ WF_vars(Fetch)
  /\ \A w \in 1..Waits : SF_vars(NextWait /\ wait = w)
  /\ SF_vars(PollSucceeds)

--------------------------------------------------------------------------------

(* The value decisions are taken from was the true one, or the 0 assumed for want *)
(* of one, at most two fetches and an interval ago, and one interval and fetch    *)
(* more for each poll that failed since, as long as /metrics sends at once what   *)
(* it sends: no timeout of httpx bounds a reply in parts (the poll loop;          *)
(* check()).                                                                      *)
DecisionsAreFresh ==
  phase \in {"fetching", "sleeping"} /\ trickled = "no" /\ misses < MaxMisses
    => ago[usage] <= AgeAllowed(misses)

(* When vLLM's pressure is gone for good, requests are accepted again and stay    *)
(* accepted, however many polls fail, as long as some succeed (the handler inside *)
(* the loop of _poll_loop).                                                       *)
PressurePasses ==
  <>[](actual < SoftLimit /\ Running) => <>[](Check = "accept")

================================================================================
