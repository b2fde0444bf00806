------------------------------ MODULE VLLMBackend ------------------------------
(* integration/vllm_backend.py: the calls and streams of one backend object,     *)
(* against the clock. A call (generate, chat) runs a retry loop, which the       *)
(* caller's wait_for (api/server.py) cancels at its deadline; a stream has       *)
(* neither, but its client may go away.                                          *)
(*                                                                               *)
(* httpx applies timeout to each wait for the network, not to the whole call: an *)
(* attempt waits for a connection of the client's pool, to connect, to write and *)
(* to read, and each wait may take up to timeout. A backend that keeps sending   *)
(* something is never timed out. The caller's deadline counts from the call of   *)
(* coalesce, which may have waited for another worker first.                     *)
EXTENDS Integers

CONSTANTS Requests,
          MaxRetries,    \* retry_count
          Waits,         \* how often an attempt waits until a reply has begun
          Timeout,       \* timeout_seconds, in ticks, of each wait
          Backoff,       \* retry_backoff_seconds, in ticks
          HeldUp,        \* the most that can be gone of a deadline before the call
          Deadline       \* timeout_seconds of the request, default 300 s

ASSUME RetryAssumption == MaxRetries \in Nat /\ Backoff \in Nat
ASSUME TimeoutAssumption ==
  /\ Waits \in Nat \ {0} /\ Timeout \in Nat \ {0}
  /\ HeldUp \in Nat /\ Deadline \in Nat \ {0}

VARIABLES kind,      \* "call" or "stream"
          stage,     \* where each request stands
          attempt,   \* the loop variable
          wait,      \* which of the waits of an attempt; the last is for the reply
          spent,     \* ticks in the current wait
          elapsed,   \* ticks gone of the deadline; a stream has none
          silent,    \* has the backend not answered this request with anything?
          client     \* is there an open client? All requests share it

call == <<kind, attempt, wait, spent, elapsed, silent>>
vars == <<stage, call, client>>

Kinds == {"call", "stream"}
Active(r) == stage[r] \in {"posting", "sleeping"}

(* The longest of the sleeps before the last attempt.                            *)
LongestWait == IF Backoff * MaxRetries > Timeout THEN Backoff * MaxRetries ELSE Timeout

TypeOK ==
  /\ kind \in [Requests -> Kinds]
  /\ stage \in [Requests -> {"new", "posting", "sleeping", "returned", "failed", "cancelled"}]
  /\ attempt \in [Requests -> 0..MaxRetries]
  /\ wait \in [Requests -> 1..Waits]
  /\ spent \in [Requests -> 0..LongestWait]
  /\ elapsed \in [Requests -> 0..Deadline]
  /\ silent \in [Requests -> BOOLEAN]
  /\ client \in BOOLEAN

Init ==
  /\ kind \in [Requests -> Kinds]
  /\ stage = [r \in Requests |-> "new"]
  /\ attempt = [r \in Requests |-> 0]
  /\ wait = [r \in Requests |-> 1]
  /\ spent = [r \in Requests |-> 0]
  /\ elapsed = [r \in Requests |-> 0]
  /\ silent = [r \in Requests |-> TRUE]
  /\ client = FALSE

Goto(r, to) == stage' = [stage EXCEPT ![r] = to]
Restart(r) == spent' = [spent EXCEPT ![r] = 0]

Reading(r) == stage[r] = "posting" /\ wait[r] = Waits

(* An attempt begins; one that finds a connection open does not wait for it.     *)
Attempt(r) == \E w \in 1..Waits : wait' = [wait EXCEPT ![r] = w]

(* _get_client has no await of its own: it reuses the open client or makes one.  *)
(* Of the deadline some may be gone already, waiting in the coalescer.           *)
Start(r) ==
  /\ stage[r] = "new"
  /\ Goto(r, "posting")
  /\ Attempt(r)
  /\ \E gone \in 0..HeldUp :
       /\ gone < Deadline
       /\ kind[r] = "stream" => gone = 0
       /\ elapsed' = [elapsed EXCEPT ![r] = gone]
  /\ client' = TRUE
  /\ UNCHANGED <<kind, attempt, spent, silent>>

(* The server closes its backends after the last request (lifespan).             *)
Close ==
  /\ client
  /\ \A r \in Requests : ~Active(r)
  /\ client' = FALSE
  /\ UNCHANGED <<stage, call>>

--------------------------------------------------------------------------------
(* One round of the loop, or the stream.                                         *)

(* The connection is there, or the request is written: the next wait begins, and *)
(* the backend has said nothing yet.                                             *)
Advance(r) ==
  /\ stage[r] = "posting" /\ wait[r] < Waits
  /\ wait' = [wait EXCEPT ![r] = @ + 1]
  /\ Restart(r)
  /\ UNCHANGED <<kind, stage, attempt, elapsed, silent, client>>

(* Slip for the mutation runs: a deadline that starts anew with every chunk.     *)
ProgressRestartsDeadline(r) ==
  /\ Reading(r)
  /\ spent[r] > 0
  /\ Restart(r)
  /\ silent' = [silent EXCEPT ![r] = FALSE]
  /\ elapsed' = [elapsed EXCEPT ![r] = 0]
  /\ UNCHANGED <<kind, stage, attempt, wait, client>>

(* Something arrives, and the wait for more begins.                              *)
Progress(r) ==
  /\ Reading(r)
  /\ spent[r] > 0
  /\ Restart(r)
  /\ silent' = [silent EXCEPT ![r] = FALSE]
  /\ UNCHANGED <<kind, stage, attempt, wait, elapsed, client>>

Answered(r) ==
  /\ Reading(r)
  /\ Goto(r, "returned")
  /\ UNCHANGED <<call, client>>

(* A status of 400 or more, a reply that is no JSON, an error of httpx of        *)
(* another kind: raised at once, without another attempt. A stream skips the     *)
(* lines that are no JSON.                                                       *)
NotRetried(r) ==
  /\ stage[r] = "posting"
  /\ Goto(r, "failed")
  /\ UNCHANGED <<call, client>>

(* Slips for the mutation runs: one attempt too many; a stream without timeout.  *)
TransientOnceMore(r) ==
  /\ stage[r] = "posting"
  /\ Goto(r, IF kind[r] = "call" /\ attempt[r] <= MaxRetries THEN "sleeping" ELSE "failed")
  /\ Restart(r)
  /\ UNCHANGED <<kind, attempt, wait, elapsed, silent, client>>

TransientForCalls(r) ==
  /\ stage[r] = "posting" /\ kind[r] = "call"
  /\ Goto(r, IF attempt[r] < MaxRetries THEN "sleeping" ELSE "failed")
  /\ Restart(r)
  /\ UNCHANGED <<kind, attempt, wait, elapsed, silent, client>>

(* NetworkError, at any time, or TimeoutException. A stream is not retried.      *)
Transient(r) ==
  /\ stage[r] = "posting"
  /\ Goto(r, IF kind[r] = "call" /\ attempt[r] < MaxRetries THEN "sleeping" ELSE "failed")
  /\ Restart(r)
  /\ UNCHANGED <<kind, attempt, wait, elapsed, silent, client>>

(* Slip for the mutation runs: the loop variable is not advanced.                *)
WakeSameAttempt(r) ==
  /\ stage[r] = "sleeping"
  /\ spent[r] >= Backoff * (attempt[r] + 1)
  /\ Goto(r, "posting")
  /\ Attempt(r)
  /\ Restart(r)
  /\ UNCHANGED <<kind, attempt, elapsed, silent, client>>

(* The sleep grows with the attempt.                                             *)
Wake(r) ==
  /\ stage[r] = "sleeping"
  /\ spent[r] >= Backoff * (attempt[r] + 1)
  /\ Goto(r, "posting")
  /\ attempt' = [attempt EXCEPT ![r] = @ + 1]
  /\ Attempt(r)
  /\ Restart(r)
  /\ UNCHANGED <<kind, elapsed, silent, client>>

(* wait_for: CancelledError passes every except clause of the loop and of the    *)
(* server, so neither success nor failure is reported to the breaker.            *)
Cancel(r) ==
  /\ Active(r) /\ kind[r] = "call"
  /\ elapsed[r] >= Deadline
  /\ Goto(r, "cancelled")
  /\ UNCHANGED <<call, client>>

(* The client of a stream goes away.                                             *)
Disconnect(r) ==
  /\ Active(r) /\ kind[r] = "stream"
  /\ Goto(r, "cancelled")
  /\ UNCHANGED <<call, client>>

--------------------------------------------------------------------------------
(* Timers fire on time.                                                          *)
Tick ==
  /\ \E r \in Requests : Active(r)
  /\ \A r \in Requests :
       /\ stage[r] = "posting" => spent[r] < Timeout
       /\ stage[r] = "sleeping" => spent[r] < Backoff * (attempt[r] + 1)
       /\ Active(r) => elapsed[r] < Deadline
  /\ spent' = [r \in Requests |-> IF Active(r) THEN spent[r] + 1 ELSE spent[r]]
  /\ elapsed' = [r \in Requests |->
                   IF Active(r) /\ kind[r] = "call" THEN elapsed[r] + 1 ELSE elapsed[r]]
  /\ UNCHANGED <<kind, stage, attempt, wait, silent, client>>

Next ==
  \/ \E r \in Requests :
       \/ Start(r) \/ Advance(r) \/ Progress(r) \/ Answered(r) \/ NotRetried(r)
       \/ Transient(r) \/ Wake(r) \/ Cancel(r) \/ Disconnect(r)
  \/ Close \/ Tick

Spec == Init /\ [][Next]_vars

(* Time passes and timers fire; nothing is assumed of the backend.               *)
TimerFires(r) == (spent[r] >= Timeout /\ Transient(r)) \/ Wake(r) \/ Cancel(r)

FairSpec == Spec /\ WF_vars(Tick) /\ \A r \in Requests : WF_vars(TimerFires(r))

--------------------------------------------------------------------------------

(* The longest a backend that says nothing can keep the loop: every wait of an   *)
(* attempt takes its whole timeout, the last beyond it, and every sleep is taken.*)
AttemptLimit == Waits * Timeout
SilentBudget == (MaxRetries + 1) * AttemptLimit + Backoff * ((MaxRetries * (MaxRetries + 1)) \div 2)

(* A backend that says nothing, although it takes connections and requests, is   *)
(* reported as failed -- the loop gives up before the caller does -- provided    *)
(* the budget of the loop fits what the coalescer has left of the deadline.      *)
(* Otherwise the request is cancelled, nothing is recorded, and the breaker may  *)
(* never open.                                                                   *)
SilenceIsReported ==
  HeldUp + SilentBudget < Deadline =>
    \A r \in Requests : kind[r] = "call" /\ stage[r] = "cancelled" => ~silent[r]

(* Every call ends, also one whose backend sends something now and then for      *)
(* ever, which no timeout of httpx ends: the caller's deadline does.             *)
EveryCallEnds == \A r \in Requests : kind[r] = "call" /\ Active(r) ~> ~Active(r)

(* A stream, which nobody sets a deadline, ends once its backend stops sending.  *)
QuietStreamsEnd ==
  \A r \in Requests :
    kind[r] = "stream" /\ <>[][~Progress(r)]_vars => <>[](~Active(r))

================================================================================
