------------------------------- MODULE Coalescer -------------------------------
(* api/coalescer.py: requests for one hash, in any number of workers, that share *)
(* one inference through a Redis lock and a pub/sub channel. Requests with other *)
(* hashes use other keys and never meet these, so one hash is the whole story.   *)
(*                                                                               *)
(* An action is what happens between two awaits, or one command inside Redis.    *)
(* Between any two of them other requests run, time passes, and the request may  *)
(* be cancelled (wait_for in the server), its worker may die, or Redis may       *)
(* refuse the command.                                                           *)
EXTENDS Integers, FiniteSets

CONSTANTS Requests,
          Results,       \* what a producer may return, a subset of ResultKinds
          LockTTL,       \* _LOCK_TTL_MS in ticks
          WaitTimeout,   \* _WAIT_TIMEOUT_SECONDS in ticks
          MaxHold,       \* bound: ticks a producer runs, with its Redis calls
          Faults         \* which of "cancel", "crash", "redis" may happen

(* "text" is a str that is not JSON, "json_text" one that is ("42"), "null_text" *)
(* the str null, "object" a value json.dumps refuses, such as BackendResult.     *)
ResultKinds == {"text", "json_text", "null_text", "object"}

ASSUME ResultsAssumption == Results \subseteq ResultKinds /\ Results # {}
ASSUME TimesAssumption ==
  LockTTL \in Nat \ {0} /\ WaitTimeout \in Nat \ {0} /\ MaxHold \in Nat
ASSUME FaultsAssumption == Faults \subseteq {"cancel", "crash", "redis"}

VARIABLES lock,     \* the lock key: Free, or its age in ticks
          pc,       \* where each request stands in coalesce()
          clock,    \* ticks since the request claimed, subscribed or went direct
          inbox,    \* the first message its subscription has received
          made,     \* what its own producer returned
          answer    \* what coalesce() returned or raised

vars == <<lock, pc, clock, inbox, made, answer>>

Free == LockTTL
None == <<>>
Error == <<"error">>
Lost == <<"lost">>      \* cancelled, or gone with its worker
Broken == <<"broken">>  \* Redis failed
NoResult == "none"

Claimant(r) == pc[r] \in {"claimed", "produce", "publish", "sentinel", "unlock"}
Timed(r) == Claimant(r) \/ pc[r] \in {"wait", "direct"}

(* A shared answer names the request whose producer made it.                     *)
Answers == {None, Error, Lost, Broken} \cup (Requests \X (ResultKinds \cup {"parsed"}))

TypeOK ==
  /\ lock \in 0..LockTTL
  /\ pc \in [Requests -> {"start", "claimed", "produce", "publish", "sentinel",
                          "unlock", "refused", "wait", "direct", "done"}]
  /\ clock \in [Requests -> Nat]
  /\ inbox \in [Requests -> {None, Error} \cup (Requests \X Results)]
  /\ made \in [Requests -> {NoResult} \cup Results]
  /\ answer \in [Requests -> Answers]

Init ==
  /\ lock = Free
  /\ pc = [r \in Requests |-> "start"]
  /\ clock = [r \in Requests |-> 0]
  /\ inbox = [r \in Requests |-> None]
  /\ made = [r \in Requests |-> NoResult]
  /\ answer = [r \in Requests |-> None]

Goto(r, from, to) ==
  /\ pc[r] = from
  /\ pc' = [pc EXCEPT ![r] = to]

Restart(r) == clock' = [clock EXCEPT ![r] = 0]

Ends(r, a) == answer' = [answer EXCEPT ![r] = a] /\ Restart(r)

--------------------------------------------------------------------------------
(* SET NX PX, executed by Redis; "claimed" is the reply on its way back.         *)

\* Slip for the mutation runs: SET without NX.
ClaimWithoutNX(r) ==
  /\ Goto(r, "start", "claimed")
  /\ lock' = 0
  /\ UNCHANGED <<clock, inbox, made, answer>>

Claim(r) ==
  /\ lock = Free
  /\ Goto(r, "start", "claimed")
  /\ lock' = 0
  /\ UNCHANGED <<clock, inbox, made, answer>>

Refused(r) ==
  /\ lock # Free
  /\ Goto(r, "start", "refused")
  /\ UNCHANGED <<lock, clock, inbox, made, answer>>

(* _execute_and_publish                                                          *)

BeginProducing(r) ==
  /\ Goto(r, "claimed", "produce")
  /\ UNCHANGED <<lock, clock, inbox, made, answer>>

(* json.dumps raises on an object inside the try, so the sentinel follows.       *)
ProducerReturns(r) ==
  \E k \in Results :
    /\ Goto(r, "produce", IF k = "object" THEN "sentinel" ELSE "publish")
    /\ made' = [made EXCEPT ![r] = k]
    /\ UNCHANGED <<lock, clock, inbox, answer>>

ProducerRaises(r) ==
  /\ Goto(r, "produce", "sentinel")
  /\ UNCHANGED <<lock, clock, inbox, made, answer>>

(* PUBLISH reaches the subscriptions that exist at that moment.                  *)
Deliver(m) ==
  inbox' = [w \in Requests |->
              IF pc[w] = "wait" /\ inbox[w] = None THEN m ELSE inbox[w]]

Publish(r) ==
  /\ Goto(r, "publish", "unlock")
  /\ Deliver(<<r, made[r]>>)
  /\ answer' = [answer EXCEPT ![r] = <<r, made[r]>>]
  /\ UNCHANGED <<lock, clock, made>>

\* Slip for the mutation runs: the failing path returns without the finally.
PublishSentinelAndReturn(r) ==
  /\ Goto(r, "sentinel", "done")
  /\ Deliver(Error)
  /\ Ends(r, Error)
  /\ UNCHANGED <<lock, made>>

PublishSentinel(r) ==
  /\ Goto(r, "sentinel", "unlock")
  /\ Deliver(Error)
  /\ answer' = [answer EXCEPT ![r] = Error]
  /\ UNCHANGED <<lock, clock, made>>

(* DEL removes the key whoever set it.                                           *)
Unlock(r) ==
  /\ Goto(r, "unlock", "done")
  /\ lock' = Free
  /\ Restart(r)
  /\ UNCHANGED <<inbox, made, answer>>

(* _wait_for_result                                                              *)

Subscribe(r) ==
  /\ Goto(r, "refused", "wait")
  /\ UNCHANGED <<lock, clock, inbox, made, answer>>

(* json.loads of the payload: a text that is JSON does not come back as sent.    *)
Decoded(m) == IF m[2] = "json_text" THEN <<m[1], "parsed">> ELSE m

ReceiveAnswer(r) ==
  /\ inbox[r] \notin {None, Error}
  /\ inbox[r][2] # "null_text"
  /\ Goto(r, "wait", "done")
  /\ Ends(r, Decoded(inbox[r]))
  /\ UNCHANGED <<lock, inbox, made>>

ReceiveSentinel(r) ==
  /\ inbox[r] = Error
  /\ Goto(r, "wait", "done")
  /\ Ends(r, Error)
  /\ UNCHANGED <<lock, inbox, made>>

\* Slip for the mutation runs: a wait without a deadline.
GiveUpOnNullOnly(r) ==
  /\ inbox[r] \notin {None, Error} /\ inbox[r][2] = "null_text"
  /\ Goto(r, "wait", "direct")
  /\ Restart(r)
  /\ UNCHANGED <<lock, inbox, made, answer>>

(* No message in time, or one that decodes to None: the request produces itself, *)
(* without the lock and without telling anyone.                                  *)
GiveUpWaiting(r) ==
  /\ \/ inbox[r] = None /\ clock[r] >= WaitTimeout
     \/ inbox[r] \notin {None, Error} /\ inbox[r][2] = "null_text"
  /\ Goto(r, "wait", "direct")
  /\ Restart(r)
  /\ UNCHANGED <<lock, inbox, made, answer>>

\* Slip for the mutation runs: who gave up waiting publishes what it made.
DirectReturnsPublished(r) ==
  \E k \in Results :
    /\ Goto(r, "direct", "done")
    /\ made' = [made EXCEPT ![r] = k]
    /\ Deliver(<<r, k>>)
    /\ Ends(r, <<r, k>>)
    /\ UNCHANGED lock

DirectReturns(r) ==
  \E k \in Results :
    /\ Goto(r, "direct", "done")
    /\ made' = [made EXCEPT ![r] = k]
    /\ Ends(r, <<r, k>>)
    /\ UNCHANGED <<lock, inbox>>

DirectRaises(r) ==
  /\ Goto(r, "direct", "done")
  /\ Ends(r, Error)
  /\ UNCHANGED <<lock, inbox, made>>

--------------------------------------------------------------------------------
(* What can go wrong at an await.                                                *)

(* CancelledError is no Exception: nothing is published. Only the try block of   *)
(* _execute_and_publish deletes the lock on the way out; a request cancelled     *)
(* before it entered the block, or inside the DEL, leaves the lock behind.       *)
Cancel(r) ==
  /\ "cancel" \in Faults
  /\ \/ \E from \in {"produce", "publish", "sentinel"} : Goto(r, from, "unlock")
     \/ \E from \in {"start", "claimed", "unlock", "refused", "wait", "direct"} :
          Goto(r, from, "done")
  /\ answer' = [answer EXCEPT ![r] = Lost]
  /\ IF pc'[r] = "done" THEN Restart(r) ELSE UNCHANGED clock
  /\ UNCHANGED <<lock, inbox, made>>

Crash(r) ==
  /\ "crash" \in Faults
  /\ pc[r] # "done"
  /\ Goto(r, pc[r], "done")
  /\ Ends(r, Lost)
  /\ UNCHANGED <<lock, inbox, made>>

(* Redis refuses the command the request is about to send. A refused publish of  *)
(* the result is answered by trying the sentinel; a refused DEL leaves the lock, *)
(* and so does a connection that breaks before the reply to SET arrives.         *)
RedisError(r) ==
  /\ "redis" \in Faults
  /\ \/ Goto(r, "publish", "sentinel") /\ UNCHANGED <<clock, answer>>
     \/ Goto(r, "sentinel", "unlock") /\ answer' = [answer EXCEPT ![r] = Error]
          /\ UNCHANGED clock
     \/ /\ \E from \in {"start", "claimed", "unlock", "refused", "wait"} :
             Goto(r, from, "done")
        /\ Ends(r, Broken)
  /\ UNCHANGED <<lock, inbox, made>>

(* Redis executes the PUBLISH of the result, but the request never reads the     *)
(* reply: the connection breaks, or the request is cancelled.                    *)
ReplyLost(r) ==
  /\ \/ /\ "redis" \in Faults
        /\ Goto(r, "publish", "sentinel")
        /\ UNCHANGED answer
     \/ /\ "cancel" \in Faults
        /\ Goto(r, "publish", "unlock")
        /\ answer' = [answer EXCEPT ![r] = Lost]
  /\ Deliver(<<r, made[r]>>)
  /\ UNCHANGED <<lock, clock, made>>

(* The same at the two commands that follow. A cancelled request still deletes   *)
(* the lock after its sentinel; one whose DEL is executed leaves none.           *)
SentinelReplyLost(r) ==
  /\ "cancel" \in Faults
  /\ Goto(r, "sentinel", "unlock")
  /\ Deliver(Error)
  /\ answer' = [answer EXCEPT ![r] = Lost]
  /\ UNCHANGED <<lock, clock, made>>

UnlockReplyLost(r) ==
  /\ Goto(r, "unlock", "done")
  /\ lock' = Free
  /\ \/ "cancel" \in Faults /\ Ends(r, Lost)
     \/ "redis" \in Faults /\ Ends(r, Broken)
  /\ UNCHANGED <<inbox, made>>

\* Slips for the mutation runs: SET without PX, and a TTL that is not an end.
TickWithoutExpiry ==
  /\ \A r \in Requests :
       /\ Claimant(r) \/ pc[r] = "direct" => clock[r] < MaxHold
       /\ pc[r] = "wait" => clock[r] < WaitTimeout
  /\ clock' = [r \in Requests |-> IF Timed(r) THEN clock[r] + 1 ELSE clock[r]]
  /\ UNCHANGED <<lock, pc, inbox, made, answer>>

TickPastExpiry ==
  /\ \A r \in Requests :
       /\ Claimant(r) \/ pc[r] = "direct" => clock[r] < MaxHold
       /\ pc[r] = "wait" => clock[r] < WaitTimeout
  /\ lock' = lock + 1
  /\ clock' = [r \in Requests |-> IF Timed(r) THEN clock[r] + 1 ELSE clock[r]]
  /\ UNCHANGED <<pc, inbox, made, answer>>

(* Timers fire on time: a waiter never waits longer than WaitTimeout, a producer *)
(* never runs longer than MaxHold. The lock expires when its TTL is over.        *)
Tick ==
  /\ \A r \in Requests :
       /\ Claimant(r) \/ pc[r] = "direct" => clock[r] < MaxHold
       /\ pc[r] = "wait" => clock[r] < WaitTimeout
  /\ lock' = IF lock = Free THEN Free ELSE lock + 1
  /\ clock' = [r \in Requests |-> IF Timed(r) THEN clock[r] + 1 ELSE clock[r]]
  /\ UNCHANGED <<pc, inbox, made, answer>>

Step(r) ==
  \/ Claim(r) \/ Refused(r)
  \/ BeginProducing(r) \/ ProducerReturns(r) \/ ProducerRaises(r)
  \/ Publish(r) \/ PublishSentinel(r) \/ Unlock(r)
  \/ Subscribe(r) \/ ReceiveAnswer(r) \/ ReceiveSentinel(r) \/ GiveUpWaiting(r)
  \/ DirectReturns(r) \/ DirectRaises(r)

Next ==
  \/ \E r \in Requests :
       \/ Step(r) \/ Cancel(r) \/ Crash(r) \/ RedisError(r)
       \/ ReplyLost(r) \/ SentinelReplyLost(r) \/ UnlockReplyLost(r)
  \/ Tick

Spec == Init /\ [][Next]_vars

(* Each request's task is scheduled, its producer returns or raises in the end   *)
(* (the server wraps every call in wait_for), and time passes.                   *)
FairSpec == Spec /\ WF_vars(Tick) /\ \A r \in Requests : WF_vars(Step(r))

--------------------------------------------------------------------------------

(* As long as every claimant is done within the TTL, no two requests hold the    *)
(* claim at once, whoever is cancelled, crashes or cannot reach Redis: the DEL,  *)
(* which checks no owner, then only ever removes the caller's own lock.          *)
ExclusiveClaim ==
  \A r, s \in Requests : Claimant(r) /\ Claimant(s) => r = s

(* A lock without a claimant is what a winner cancelled, dead or cut off from     *)
(* Redis left behind: no request that came to its own end leaves one for the TTL *)
(* to clean up, whatever its producer returned or raised (the finally clause of  *)
(* _execute_and_publish).                                                        *)
LockHasHolder ==
  lock # Free /\ (\A r \in Requests : answer[r] \notin {Lost, Broken})
    => \E r \in Requests : Claimant(r)

(* Redis, the messages and the clocks left out.                                   *)
Abstract == INSTANCE SingleFlight WITH
  holders   <- {r \in Requests : Claimant(r)},
  shared    <- {inbox[r] : r \in Requests} \ {None, Error},
  Exclusive <- MaxHold < LockTTL

(* A claim is exclusive if claimants are done within the TTL, and always every    *)
(* request runs its producer at most once, what it gets from others was published *)
(* by one that held the claim at that moment, and an answer once returned is      *)
(* final (coalesce and both of its helpers).                                      *)
ImplementsSingleFlight == Abstract!Spec

(* Every request comes to an end: no lock, lost message, dead winner or missed   *)
(* sentinel keeps a waiter in coalesce() for ever.                               *)
EveryRequestEnds == \A r \in Requests : pc[r] # "start" ~> pc[r] = "done"

(* A lock left behind by a dead or cancelled winner does not block the hash for  *)
(* ever.                                                                         *)
LockIsFreed == []<>(lock = Free)

--------------------------------------------------------------------------------
(* What the comments of coalescer.py say and the code does not do.               *)

(* Lines 3-6: all others subscribe and receive the result when it is published.  *)
WaitersHaveAProducer ==
  \A w \in Requests :
    pc[w] = "wait" /\ inbox[w] = None
      => \E r \in Requests : Claimant(r) /\ pc[r] # "unlock"

(* Line 78: coalesce returns whatever the producer returns.                      *)
ProducedIsReturned ==
  \A r \in Requests : made[r] # NoResult => answer[r] # Error

================================================================================
