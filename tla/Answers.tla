-------------------------------- MODULE Answers --------------------------------
(* Which answer a request gets, made by which model and how long ago: routing     *)
(* (api/model_router.py), the key of the cache (api/cache.py), the handlers of    *)
(* api/server.py and the fallback chain (api/fallback_router.py), in one worker   *)
(* that has the cache to itself. What a claimant of the coalescer produces is     *)
(* lost (Coalescer, ProducedIsReturned), so those who produce here are the        *)
(* waiters that gave up, and a claimant is a request that fails. Redis answers    *)
(* within a tick.                                                                 *)
EXTENDS Integers

CONSTANTS Requests,
          Models, FastModel, LargeModel, FallbackModel,
          TokenThreshold,
          Questions,          \* what a model is asked: a text or the messages of a
                              \* chat with their roles, and a temperature
          Prompts,            \* texts
          Text,               \* of a question: a chat's contents joined by spaces
          Normal, Length,     \* of a text: its lower-cased, stripped form; characters
          Bodies,             \* of requests: records of endpoint, model, question
          TTL, Deadline,      \* ticks
          None

ASSUME ModelsAssumption ==
  /\ {FastModel, LargeModel, FallbackModel} \subseteq Models /\ None \notin Models
  /\ TokenThreshold \in Nat \ {0}
ASSUME PromptsAssumption ==
  /\ Text \in [Questions -> Prompts]
  /\ Length \in [Prompts -> Nat] /\ DOMAIN Normal = Prompts
ASSUME BodiesAssumption ==
  Bodies \subseteq [endpoint : {"completion", "chat", "stream"},
                    model : Models \cup {None}, question : Questions]
ASSUME ClocksAssumption == TTL \in Nat \ {0} /\ Deadline \in Nat \ {0}

VARIABLES pc, body,
          since,     \* ticks since the request arrived, a stream's not counted
          answer,    \* what it was or will be answered
          store,     \* the cache: per key an answer with the ticks it has left
          up,        \* has the pool an available backend?
          upFor      \* history: ticks since it last had none

vars == <<pc, body, since, answer, store, up, upFor>>

--------------------------------------------------------------------------------
(* estimate_prompt_tokens, ModelRouter.route and route_chat; None stands for no   *)
(* model named.                                                                   *)
EstimateTokens(length) ==
  IF length = 0 THEN 0 ELSE IF length < 8 THEN 1 ELSE length \div 4

Route(b) ==
  IF b.model # None THEN b.model
  ELSE IF EstimateTokens(Length[Text[b.question]]) < TokenThreshold THEN FastModel ELSE LargeModel

(* Slip for the mutation runs: a key of the prompt alone.                         *)
CacheKeyOfPrompt(b) == [model |-> FastModel, prompt |-> Normal[Text[b.question]]]

(* The hash of _cache_key tells all such pairs apart, as long as no model's name  *)
(* has a colon in it. The endpoint, a chat's roles and where its messages end,    *)
(* and the sampling parameters are no part of it.                                 *)
CacheKey(b) == [model |-> Route(b), prompt |-> Normal[Text[b.question]]]

Keys == [model : Models, prompt : {Normal[p] : p \in Prompts}]

(* An answer: which model made it, to which question, how many ticks ago.         *)
Ages == 0..TTL + Deadline   \* bound: ages stop here
AnswerSet == [by : Models, question : Questions, age : Ages]
EntrySet == [by : Models, question : Questions, age : Ages, left : 1..TTL]
FreshAnswer(m, q) == [by |-> m, question |-> q, age |-> 0]
AnswerOf(e) == [by |-> e.by, question |-> e.question, age |-> e.age]
Entry(a) == [by |-> a.by, question |-> a.question, age |-> a.age, left |-> TTL]

Resting == {"idle", "done", "failed"}
Waited == {"waiting", "calling", "calling_fallback"}     \* inside wait_for, and wait
Momentary == {"fallback", "stale_lookup", "storing"}     \* less than a tick
MaxUp == TTL + Deadline + 1                              \* bound: upFor stops here

TypeOK ==
  /\ pc \in [Requests -> Resting \cup Waited \cup Momentary \cup {"streaming"}]
  /\ body \in [Requests -> Bodies \cup {None}]
  /\ since \in [Requests -> 0..Deadline]
  /\ answer \in [Requests -> AnswerSet \cup {None}]
  /\ store \in [Keys -> EntrySet \cup {None}]
  /\ up \in BOOLEAN
  /\ upFor \in 0..MaxUp

Init ==
  /\ pc = [r \in Requests |-> "idle"]
  /\ body = [r \in Requests |-> None]
  /\ since = [r \in Requests |-> 0]
  /\ answer = [r \in Requests |-> None]
  /\ store = [k \in Keys |-> None]
  /\ up = TRUE
  /\ upFor = 0

Goto(r, to) == pc' = [pc EXCEPT ![r] = to]
Answer(r, a) == answer' = [answer EXCEPT ![r] = a]
Cached(b) == store[CacheKey(b)]

--------------------------------------------------------------------------------
(* A request arrives, is routed and looks into the cache.                         *)

Ask(r, b) ==
  /\ pc[r] \in Resting
  /\ body' = [body EXCEPT ![r] = b]
  /\ since' = [since EXCEPT ![r] = 0]
  /\ UNCHANGED <<up, upFor>>

(* Slip for the mutation runs: a hit gives the value a new lease.                 *)
HitRenewing(r, b) ==
  /\ Ask(r, b)
  /\ Cached(b) # None
  /\ Answer(r, AnswerOf(Cached(b)))
  /\ store' = [store EXCEPT ![CacheKey(b)].left = TTL]
  /\ Goto(r, "done")

Hit(r, b) ==
  /\ Ask(r, b)
  /\ Cached(b) # None
  /\ Answer(r, AnswerOf(Cached(b)))
  /\ Goto(r, "done")
  /\ UNCHANGED store

(* A stream asks the pool at once and has no fallback.                            *)
Miss(r, b) ==
  /\ Ask(r, b)
  /\ Cached(b) = None
  /\ Answer(r, None)
  /\ Goto(r, IF b.endpoint # "stream" THEN "waiting" ELSE IF up THEN "streaming" ELSE "failed")
  /\ UNCHANGED store

Rest == UNCHANGED <<body, since, store, up, upFor>>

GiveUp(r) ==
  /\ Goto(r, "failed")
  /\ Answer(r, None)
  /\ body' = [body EXCEPT ![r] = None]
  /\ UNCHANGED <<since, store, up, upFor>>

Produce(r) ==
  /\ pc[r] = "waiting"
  /\ Goto(r, IF up THEN "calling" ELSE "fallback")
  /\ UNCHANGED answer /\ Rest

(* Without an await between the two scans, but the clock can end a cooldown.      *)
FallbackToModel(r) ==
  /\ pc[r] = "fallback"
  /\ up /\ Route(body[r]) # FallbackModel
  /\ Goto(r, "calling_fallback")
  /\ UNCHANGED answer /\ Rest

(* Only route looks for a stale answer; route_chat ends in 503.                   *)
FallbackToCache(r) ==
  /\ \/ pc[r] = "fallback" /\ ~(up /\ Route(body[r]) # FallbackModel)
     \/ pc[r] = "calling_fallback"
  /\ IF body[r].endpoint = "completion"
     THEN Goto(r, "stale_lookup") /\ UNCHANGED answer /\ Rest
     ELSE GiveUp(r)

CallReturns(r) ==
  /\ pc[r] \in {"calling", "calling_fallback", "streaming"}
  /\ LET by == IF pc[r] = "calling_fallback" THEN FallbackModel ELSE Route(body[r])
     IN Answer(r, FreshAnswer(by, body[r].question))
  /\ Goto(r, "storing")
  /\ Rest

StaleHit(r) ==
  /\ pc[r] = "stale_lookup"
  /\ Cached(body[r]) # None
  /\ Answer(r, AnswerOf(Cached(body[r])))
  /\ Goto(r, "storing")
  /\ Rest

(* The result is stored under the request's key, wherever it came from.           *)
Put(r) ==
  /\ pc[r] = "storing"
  /\ store' = [store EXCEPT ![CacheKey(body[r])] = Entry(answer[r])]
  /\ Goto(r, "done")
  /\ UNCHANGED <<body, since, answer, up, upFor>>

(* The backend's error, Redis's, the claimant's, the deadline, no stale answer.   *)
Fail(r) ==
  /\ pc[r] \in Waited \cup {"stale_lookup", "storing", "streaming"}
  /\ GiveUp(r)

--------------------------------------------------------------------------------

(* Eviction or invalidation.                                                      *)
Drop(k) ==
  /\ store[k] # None
  /\ store' = [store EXCEPT ![k] = None]
  /\ UNCHANGED <<pc, body, since, answer, up, upFor>>

(* Circuits open, and cool down.                                                  *)
Outage == up /\ up' = FALSE /\ upFor' = 0 /\ UNCHANGED <<pc, body, since, answer, store>>
Recovery == ~up /\ up' = TRUE /\ UNCHANGED <<pc, body, since, answer, store, upFor>>

Older(e) == [e EXCEPT !.age = IF @ < TTL + Deadline THEN @ + 1 ELSE @]

(* Slip for the mutation runs: a value is kept one tick longer.                   *)
AgedLate(e) == IF e = None \/ e.left = 0 THEN None ELSE [Older(e) EXCEPT !.left = @ - 1]

(* Redis forgets a value whose time is over.                                      *)
Aged(e) == IF e = None \/ e.left = 1 THEN None ELSE [Older(e) EXCEPT !.left = @ - 1]

Tick ==
  /\ \A r \in Requests : pc[r] \notin Momentary
  /\ \A r \in Requests : pc[r] \in Waited => since[r] < Deadline
  /\ since' = [r \in Requests |-> IF pc[r] \in Waited THEN since[r] + 1 ELSE since[r]]
  /\ store' = [k \in Keys |-> Aged(store[k])]
  /\ upFor' = IF up /\ upFor < MaxUp THEN upFor + 1 ELSE upFor
  /\ UNCHANGED <<pc, body, answer, up>>

Next ==
  \/ \E r \in Requests :
       \/ \E b \in Bodies : Hit(r, b) \/ Miss(r, b)
       \/ Produce(r) \/ FallbackToModel(r) \/ FallbackToCache(r)
       \/ CallReturns(r) \/ StaleHit(r) \/ Put(r) \/ Fail(r)
  \/ \E k \in Keys : Drop(k)
  \/ Outage \/ Recovery \/ Tick

Spec == Init /\ [][Next]_vars

--------------------------------------------------------------------------------

(* Whoever is answered gets an answer to a question of the same text, up to case  *)
(* and outer space, by the model it was routed to or the fallback model: for      *)
(* whichever request or endpoint it was made, and however often it was passed on  *)
(* from the cache to the cache. It need not be the question asked: chats, and a   *)
(* chat and a text, are taken for one if their contents joined by spaces agree.   *)
AnswersFit ==
  \A r \in Requests :
    pc[r] \in {"done", "storing"} =>
      /\ Normal[Text[answer[r].question]] = Normal[Text[body[r].question]]
      /\ answer[r].by \in {Route(body[r]), FallbackModel}

(* What an outage leaves in the cache, answers of the fallback model under the    *)
(* keys of others and old answers stored again with a new lease, is gone one      *)
(* deadline and one lifetime after it, no matter how often it is asked for.       *)
OutagesAreForgotten ==
  upFor > TTL + Deadline =>
    \A k \in Keys : store[k] # None => store[k].by = k.model /\ store[k].age < TTL

================================================================================
