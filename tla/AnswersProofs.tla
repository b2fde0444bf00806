----------------------------- MODULE AnswersProofs -----------------------------
(* Every answer fits the question, and what an outage leaves in the cache goes,   *)
(* for any requests, models, texts, routing threshold, lifetime and deadline.     *)
EXTENDS Answers, TLAPS

Stages == Resting \cup Waited \cup Momentary \cup {"streaming"}

(* Who is on the way has asked something, and who is answered has an answer.      *)
Known ==
  /\ \A r \in Requests : pc[r] \notin {"idle", "failed"} => body[r] \in Bodies
  /\ \A r \in Requests : pc[r] \in {"storing", "done"} => answer[r] \in AnswerSet

Typed == TypeOK /\ Known

(* A body is routed to one of the models and has a key of the cache.              *)
LEMMA Routed ==
  ASSUME NEW b \in Bodies
  PROVE  Route(b) \in Models /\ CacheKey(b) \in Keys /\ b.question \in Questions
<1>1. b.model \in Models \cup {None} /\ b.question \in Questions
  BY BodiesAssumption
<1>a. Text[b.question] \in Prompts
  BY <1>1, PromptsAssumption
<1>2. Route(b) \in Models
  BY <1>1, ModelsAssumption DEF Route
<1>3. QED
  BY <1>1, <1>a, <1>2 DEF CacheKey, Keys

(* An answer taken from an entry, and an entry made of an answer.                 *)
LEMMA AnswerFromEntry ==
  ASSUME NEW e \in EntrySet
  PROVE  /\ AnswerOf(e) \in AnswerSet
         /\ AnswerOf(e).by = e.by /\ AnswerOf(e).question = e.question
         /\ AnswerOf(e).age = e.age
  BY DEF EntrySet, AnswerSet, AnswerOf

LEMMA EntryFromAnswer ==
  ASSUME NEW a \in AnswerSet
  PROVE  /\ Entry(a) \in EntrySet
         /\ Entry(a).by = a.by /\ Entry(a).question = a.question
         /\ Entry(a).age = a.age /\ Entry(a).left = TTL
  BY ClocksAssumption DEF EntrySet, AnswerSet, Entry

LEMMA FreshAnswerType ==
  ASSUME NEW m \in Models, NEW q \in Questions
  PROVE  /\ FreshAnswer(m, q) \in AnswerSet
         /\ FreshAnswer(m, q).by = m /\ FreshAnswer(m, q).question = q
         /\ FreshAnswer(m, q).age = 0
  BY ClocksAssumption DEF FreshAnswer, AnswerSet, Ages

(* An entry one tick later is gone, or the same with one tick less to go.         *)
LEMMA AgedEntry ==
  ASSUME NEW e \in EntrySet \cup {None}
  PROVE  /\ Aged(e) \in EntrySet \cup {None}
         /\ Aged(e) # None =>
              /\ e \in EntrySet /\ e # None
              /\ Aged(e).by = e.by /\ Aged(e).question = e.question
              /\ Aged(e).left = e.left - 1 /\ Aged(e).age <= e.age + 1
<1>1. CASE e = None \/ e.left = 1
  BY <1>1 DEF Aged
<1>2. CASE e # None /\ e.left # 1
  <2>1. e \in EntrySet
    BY <1>2
  <2> DEFINE age == IF e.age < TTL + Deadline THEN e.age + 1 ELSE e.age
  <2>2. e = [by |-> e.by, question |-> e.question, age |-> e.age, left |-> e.left]
    BY <2>1 DEF EntrySet
  <2>3. Aged(e) = [by |-> e.by, question |-> e.question, age |-> age, left |-> e.left - 1]
    BY <1>2, <2>1 DEF Aged, Older, EntrySet
  <2>4. /\ e.age \in Ages /\ e.left \in 1..TTL /\ e.by \in Models /\ e.question \in Questions
    BY <2>1 DEF EntrySet
  <2>5. age \in Ages /\ age <= e.age + 1 /\ e.left - 1 \in 1..TTL
    BY <1>2, <2>4, ClocksAssumption DEF Ages
  <2>6. QED
    BY <1>2, <2>1, <2>3, <2>4, <2>5 DEF EntrySet
<1>3. QED
  BY <1>1, <1>2

--------------------------------------------------------------------------------
(* Types hold at first.                                                           *)
LEMMA TypedInit == Init => Typed
<1> SUFFICES ASSUME Init PROVE Typed
  OBVIOUS
<1>1. TypeOK
  BY ClocksAssumption DEF Init, TypeOK, MaxUp, Resting, Waited, Momentary
<1>2. Known
  BY DEF Init, Known
<1>3. QED
  BY <1>1, <1>2 DEF Typed

(* A request that asks keeps them, with its answer or without.                    *)
LEMMA AskKeepsTypes ==
  ASSUME Typed, NEW r \in Requests, NEW b \in Bodies, Hit(r, b) \/ Miss(r, b)
  PROVE  Typed'
<1> USE DEF Resting, Waited, Momentary
<1>1. body' = [body EXCEPT ![r] = b] /\ since' = [since EXCEPT ![r] = 0]
      /\ UNCHANGED <<up, upFor, store>>
  BY DEF Hit, Miss, Ask
<1>2. CASE Hit(r, b)
  <2>1. Cached(b) \in EntrySet
    BY <1>2, Routed DEF Hit, Cached, Typed, TypeOK
  <2>2. AnswerOf(Cached(b)) \in AnswerSet
    BY <2>1, AnswerFromEntry
  <2>3. TypeOK'
    BY <1>1, <1>2, <2>2, ClocksAssumption DEF Hit, Goto, Answer, Typed, TypeOK
  <2>4. Known'
    BY <1>1, <1>2, <2>2 DEF Hit, Goto, Answer, Typed, TypeOK, Known
  <2>5. QED
    BY <2>3, <2>4 DEF Typed
<1>3. CASE Miss(r, b)
  <2>1. TypeOK'
    BY <1>1, <1>3, ClocksAssumption DEF Miss, Goto, Answer, Typed, TypeOK
  <2>2. Known'
    BY <1>1, <1>3 DEF Miss, Goto, Answer, Typed, TypeOK, Known
  <2>3. QED
    BY <2>1, <2>2 DEF Typed
<1>4. QED
  BY <1>2, <1>3

(* So does one that gives up ...                                                  *)
LEMMA GiveUpKeepsTypes ==
  ASSUME Typed, NEW r \in Requests, GiveUp(r)
  PROVE  Typed'
<1> USE DEF Resting, Waited, Momentary
<1>1. TypeOK'
  BY DEF GiveUp, Goto, Answer, Typed, TypeOK
<1>2. Known'
  BY DEF GiveUp, Goto, Answer, Typed, TypeOK, Known
<1>3. QED
  BY <1>1, <1>2 DEF Typed

(* ... one that only moves on, not yet to an answer ...                           *)
LEMMA MoveKeepsTypes ==
  ASSUME Typed, NEW r \in Requests, pc[r] \notin {"idle", "failed"},
         NEW to \in Stages \ {"storing", "done"}, Goto(r, to), UNCHANGED answer, Rest
  PROVE  Typed'
<1> USE DEF Resting, Waited, Momentary
<1>1. TypeOK'
  BY DEF Goto, Rest, Typed, TypeOK, Stages
<1>2. Known'
  BY DEF Goto, Rest, Typed, TypeOK, Known
<1>3. QED
  BY <1>1, <1>2 DEF Typed

(* ... and one that has got an answer.                                            *)
LEMMA AnswerKeepsTypes ==
  ASSUME Typed, NEW r \in Requests, pc[r] \notin {"idle", "failed"},
         NEW a \in AnswerSet, Answer(r, a), Goto(r, "storing"), Rest
  PROVE  Typed'
<1> USE DEF Resting, Waited, Momentary
<1>1. TypeOK'
  BY DEF Answer, Goto, Rest, Typed, TypeOK
<1>2. Known'
  BY DEF Answer, Goto, Rest, Typed, TypeOK, Known
<1>3. QED
  BY <1>1, <1>2 DEF Typed

(* What a call returns and what a stale hit finds are answers.                    *)
LEMMA CallAnswers ==
  ASSUME Typed, NEW r \in Requests, CallReturns(r)
  PROVE  \E by \in {Route(body[r]), FallbackModel} :
           /\ Answer(r, FreshAnswer(by, body[r].question))
           /\ FreshAnswer(by, body[r].question) \in AnswerSet
           /\ pc[r] # "calling_fallback" => by = Route(body[r])
<1>1. body[r] \in Bodies
  BY DEF CallReturns, Typed, Known
<1>2. Route(body[r]) \in Models /\ FallbackModel \in Models /\ body[r].question \in Questions
  BY <1>1, Routed, ModelsAssumption
<1>3. QED
  BY <1>2, FreshAnswerType DEF CallReturns

LEMMA StaleAnswers ==
  ASSUME Typed, NEW r \in Requests, StaleHit(r)
  PROVE  /\ Answer(r, AnswerOf(Cached(body[r])))
         /\ Cached(body[r]) \in EntrySet
         /\ AnswerOf(Cached(body[r])) \in AnswerSet
<1>1. body[r] \in Bodies
  BY DEF StaleHit, Typed, Known
<1>2. Cached(body[r]) \in EntrySet
  BY <1>1, Routed DEF StaleHit, Cached, Typed, TypeOK
<1>3. QED
  BY <1>2, AnswerFromEntry DEF StaleHit

(* The steps of a request keep the types.                                         *)
LEMMA RequestKeepsTypes ==
  ASSUME Typed, NEW r \in Requests,
         \/ Produce(r) \/ FallbackToModel(r) \/ FallbackToCache(r) \/ CallReturns(r)
         \/ StaleHit(r) \/ Put(r) \/ Fail(r)
  PROVE  Typed'
<1> USE DEF Resting, Waited, Momentary, Stages
<1>1. CASE Produce(r)
  BY <1>1, MoveKeepsTypes DEF Produce
<1>2. CASE FallbackToModel(r)
  BY <1>2, MoveKeepsTypes DEF FallbackToModel
<1>3. CASE FallbackToCache(r)
  BY <1>3, MoveKeepsTypes, GiveUpKeepsTypes DEF FallbackToCache
<1>4. CASE CallReturns(r)
  <2>1. PICK by \in {Route(body[r]), FallbackModel} :
          /\ Answer(r, FreshAnswer(by, body[r].question))
          /\ FreshAnswer(by, body[r].question) \in AnswerSet
    BY <1>4, CallAnswers
  <2>2. QED
    BY <1>4, <2>1, AnswerKeepsTypes DEF CallReturns
<1>5. CASE StaleHit(r)
  <2>1. Answer(r, AnswerOf(Cached(body[r]))) /\ AnswerOf(Cached(body[r])) \in AnswerSet
    BY <1>5, StaleAnswers
  <2>2. QED
    BY <1>5, <2>1, AnswerKeepsTypes DEF StaleHit
<1>6. CASE Put(r)
  <2>1. Entry(answer[r]) \in EntrySet /\ body[r] \in Bodies
    BY <1>6, EntryFromAnswer DEF Put, Typed, Known
  <2>2. TypeOK'
    BY <1>6, <2>1 DEF Put, Goto, Typed, TypeOK
  <2>3. Known'
    BY <1>6 DEF Put, Goto, Typed, TypeOK, Known
  <2>4. QED
    BY <2>2, <2>3 DEF Typed
<1>7. CASE Fail(r)
  BY <1>7, GiveUpKeepsTypes DEF Fail
<1>8. QED
  BY <1>1, <1>2, <1>3, <1>4, <1>5, <1>6, <1>7

(* So do time, evictions and outages.                                             *)
LEMMA WorldKeepsTypes ==
  ASSUME Typed, (\E k \in Keys : Drop(k)) \/ Outage \/ Recovery \/ Tick
  PROVE  Typed'
<1> USE DEF Resting, Waited, Momentary
<1>1. CASE \E k \in Keys : Drop(k)
  BY <1>1 DEF Drop, Typed, TypeOK, Known
<1>2. CASE Outage \/ Recovery
  <2>1. upFor' \in 0..MaxUp
    BY <1>2, ClocksAssumption DEF Outage, Recovery, Typed, TypeOK, MaxUp
  <2>2. QED
    BY <1>2, <2>1 DEF Outage, Recovery, Typed, TypeOK, Known
<1>3. CASE Tick
  <2>1. since' \in [Requests -> 0..Deadline]
    BY <1>3, ClocksAssumption DEF Tick, Typed, TypeOK
  <2>2. store' \in [Keys -> EntrySet \cup {None}]
    BY <1>3, AgedEntry DEF Tick, Typed, TypeOK
  <2>3. upFor' \in 0..MaxUp
    BY <1>3, ClocksAssumption DEF Tick, Typed, TypeOK, MaxUp
  <2>4. QED
    BY <1>3, <2>1, <2>2, <2>3 DEF Tick, Typed, TypeOK, Known
<1>4. QED
  BY <1>1, <1>2, <1>3

(* Types are inductive.                                                           *)
LEMMA TypedStep == Typed /\ [Next]_vars => Typed'
<1> SUFFICES ASSUME Typed, [Next]_vars PROVE Typed'
  OBVIOUS
<1>1. CASE UNCHANGED vars
  BY <1>1 DEF vars, Typed, TypeOK, Known
<1>2. CASE Next
  BY <1>2, AskKeepsTypes, RequestKeepsTypes, WorldKeepsTypes DEF Next
<1>3. QED
  BY <1>1, <1>2

(* Theorem: every variable of Answers keeps its type, for any requests, texts,    *)
(* models and times.                                                              *)
THEOREM AnswersTyped == Spec => []TypeOK
<1>1. Typed => TypeOK
  BY DEF Typed
<1>2. QED
  BY <1>1, TypedInit, TypedStep, PTL DEF Spec

THEOREM AlwaysTyped == Spec => []Typed
  BY TypedInit, TypedStep, PTL DEF Spec

--------------------------------------------------------------------------------
(* What a key holds answers the key's prompt, by the key's model or the fallback. *)
EntriesFit ==
  \A k \in Keys : store[k] # None =>
    Normal[Text[store[k].question]] = k.prompt /\ store[k].by \in {k.model, FallbackModel}

FitInv == AnswersFit /\ EntriesFit

(* An answer that fits the question makes an entry that fits its key, and back.   *)
LEMMA EntryFits ==
  ASSUME Typed, EntriesFit, NEW b \in Bodies, Cached(b) # None
  PROVE  /\ Normal[Text[AnswerOf(Cached(b)).question]] = Normal[Text[b.question]]
         /\ AnswerOf(Cached(b)).by \in {Route(b), FallbackModel}
<1>1. CacheKey(b) \in Keys
  BY Routed
<1>2. CacheKey(b).model = Route(b) /\ CacheKey(b).prompt = Normal[Text[b.question]]
  BY DEF CacheKey
<1>3. Cached(b) \in EntrySet
  BY <1>1 DEF Cached, Typed, TypeOK
<1>4. QED
  BY <1>1, <1>2, <1>3, AnswerFromEntry DEF Cached, EntriesFit

LEMMA FitInit == Init => FitInv
  BY DEF Init, FitInv, AnswersFit, EntriesFit

(* The steps that leave the cache alone and answer nobody.                        *)
LEMMA MoveFits ==
  ASSUME Typed, FitInv, NEW r \in Requests, NEW to \in Stages \ {"storing", "done"},
         Goto(r, to), UNCHANGED store,
         \A q \in Requests \ {r} : body'[q] = body[q] /\ answer'[q] = answer[q]
  PROVE  FitInv'
<1>1. EntriesFit'
  BY DEF FitInv, EntriesFit
<1>2. AnswersFit'
  BY DEF FitInv, AnswersFit, Goto, Typed, TypeOK
<1>3. QED
  BY <1>1, <1>2 DEF FitInv

(* Those that answer somebody, fittingly.                                         *)
LEMMA AnswerFits ==
  ASSUME Typed, FitInv, NEW r \in Requests, NEW b \in Bodies, NEW a \in AnswerSet,
         NEW to \in {"storing", "done"},
         Goto(r, to), Answer(r, a), body' = [body EXCEPT ![r] = b], UNCHANGED store,
         Normal[Text[a.question]] = Normal[Text[b.question]], a.by \in {Route(b), FallbackModel}
  PROVE  FitInv'
<1>1. EntriesFit'
  BY DEF FitInv, EntriesFit
<1>2. ASSUME NEW q \in Requests, pc'[q] \in {"done", "storing"}
      PROVE  /\ Normal[Text[answer'[q].question]] = Normal[Text[body'[q].question]]
             /\ answer'[q].by \in {Route(body'[q]), FallbackModel}
  <2>1. CASE q = r
    BY <2>1 DEF Answer, Typed, TypeOK
  <2>2. CASE q # r
    BY <1>2, <2>2 DEF FitInv, AnswersFit, Goto, Answer, Typed, TypeOK
  <2>3. QED
    BY <2>1, <2>2
<1>3. AnswersFit'
  BY <1>2 DEF AnswersFit
<1>4. QED
  BY <1>1, <1>3 DEF FitInv

(* A step of one request.                                                         *)
LEMMA RequestFits ==
  ASSUME Typed, FitInv, NEW r \in Requests,
         \/ \E b \in Bodies : Hit(r, b) \/ Miss(r, b)
         \/ Produce(r) \/ FallbackToModel(r) \/ FallbackToCache(r) \/ CallReturns(r)
         \/ StaleHit(r) \/ Put(r) \/ Fail(r)
  PROVE  FitInv'
<1> USE DEF Resting, Waited, Momentary, Stages
<1>1. CASE \E b \in Bodies : Hit(r, b)
  <2>1. PICK b \in Bodies : Hit(r, b)
    BY <1>1
  <2>2. Cached(b) \in EntrySet
    BY <2>1, Routed DEF Hit, Cached, Typed, TypeOK
  <2>3. AnswerOf(Cached(b)) \in AnswerSet
    BY <2>2, AnswerFromEntry
  <2>4. /\ Normal[Text[AnswerOf(Cached(b)).question]] = Normal[Text[b.question]]
        /\ AnswerOf(Cached(b)).by \in {Route(b), FallbackModel}
    BY <2>1, EntryFits DEF Hit, FitInv
  <2>5. /\ Goto(r, "done") /\ Answer(r, AnswerOf(Cached(b)))
        /\ body' = [body EXCEPT ![r] = b] /\ UNCHANGED store
    BY <2>1 DEF Hit, Ask
  <2> HIDE DEF Resting, Waited, Momentary, Stages
  <2>6. QED
    BY <2>3, <2>4, <2>5, AnswerFits
<1>2. CASE \E b \in Bodies : Miss(r, b)
  BY <1>2, MoveFits DEF Miss, Ask, Answer, Typed, TypeOK
<1>3. CASE Produce(r) \/ FallbackToModel(r)
  BY <1>3, MoveFits DEF Produce, FallbackToModel, Rest, Typed, TypeOK
<1>4. CASE FallbackToCache(r) \/ Fail(r)
  BY <1>4, MoveFits DEF FallbackToCache, Fail, GiveUp, Answer, Rest, Typed, TypeOK
<1>5. CASE CallReturns(r)
  <2>1. PICK by \in {Route(body[r]), FallbackModel} :
          /\ Answer(r, FreshAnswer(by, body[r].question))
          /\ FreshAnswer(by, body[r].question) \in AnswerSet
    BY <1>5, CallAnswers
  <2>2. body[r] \in Bodies /\ body' = [body EXCEPT ![r] = body[r]]
    BY <1>5 DEF CallReturns, Rest, Typed, TypeOK, Known
  <2>3. /\ FreshAnswer(by, body[r].question).by = by
        /\ FreshAnswer(by, body[r].question).question = body[r].question
    BY DEF FreshAnswer
  <2>4. Goto(r, "storing") /\ UNCHANGED store
    BY <1>5 DEF CallReturns, Rest
  <2> HIDE DEF Resting, Waited, Momentary, Stages
  <2>5. QED
    BY <2>1, <2>2, <2>3, <2>4, AnswerFits
<1>6. CASE StaleHit(r)
  <2>1. body[r] \in Bodies /\ body' = [body EXCEPT ![r] = body[r]]
    BY <1>6 DEF StaleHit, Rest, Typed, TypeOK, Known
  <2>2. Answer(r, AnswerOf(Cached(body[r]))) /\ AnswerOf(Cached(body[r])) \in AnswerSet
    BY <1>6, StaleAnswers
  <2>3. /\ Normal[Text[AnswerOf(Cached(body[r])).question]] = Normal[Text[body[r].question]]
        /\ AnswerOf(Cached(body[r])).by \in {Route(body[r]), FallbackModel}
    BY <1>6, <2>1, EntryFits DEF StaleHit, FitInv
  <2>4. Goto(r, "storing") /\ UNCHANGED store
    BY <1>6 DEF StaleHit, Rest
  <2> HIDE DEF Resting, Waited, Momentary, Stages
  <2>5. QED
    BY <2>1, <2>2, <2>3, <2>4, AnswerFits
<1>7. CASE Put(r)
  <2> DEFINE key == CacheKey(body[r])
  <2>1. body[r] \in Bodies /\ answer[r] \in AnswerSet
    BY <1>7 DEF Put, Typed, Known
  <2>2. key \in Keys /\ key.model = Route(body[r]) /\ key.prompt = Normal[Text[body[r].question]]
    BY <2>1, Routed DEF CacheKey
  <2>3. store' = [store EXCEPT ![key] = Entry(answer[r])]
    BY <1>7 DEF Put
  <2>4. EntriesFit'
    BY <1>7, <2>1, <2>2, <2>3, EntryFromAnswer
    DEF Put, FitInv, AnswersFit, EntriesFit, Typed, TypeOK
  <2>5. AnswersFit'
    BY <1>7 DEF Put, Goto, FitInv, AnswersFit, Typed, TypeOK
  <2>6. QED
    BY <2>4, <2>5 DEF FitInv
<1>8. QED
  BY <1>1, <1>2, <1>3, <1>4, <1>5, <1>6, <1>7

(* Evictions and time take entries away or leave what they say.                   *)
LEMMA WorldFits ==
  ASSUME Typed, FitInv, (\E k \in Keys : Drop(k)) \/ Outage \/ Recovery \/ Tick
  PROVE  FitInv'
<1>1. UNCHANGED <<pc, body, answer>>
  BY DEF Drop, Outage, Recovery, Tick
<1>2. AnswersFit'
  BY <1>1 DEF FitInv, AnswersFit
<1>3. ASSUME NEW k \in Keys, store'[k] # None
      PROVE  /\ store[k] # None
             /\ store'[k].question = store[k].question /\ store'[k].by = store[k].by
  <2>1. CASE Tick
    BY <1>3, <2>1, AgedEntry DEF Tick, Typed, TypeOK
  <2>2. CASE ~Tick
    BY <1>3, <2>2 DEF Drop, Outage, Recovery, Typed, TypeOK
  <2>3. QED
    BY <2>1, <2>2
<1>4. EntriesFit'
  BY <1>3 DEF FitInv, EntriesFit
<1>5. QED
  BY <1>2, <1>4 DEF FitInv

(* Theorem: whoever is answered gets an answer to a question of the same text,    *)
(* by the model it was routed to or the fallback model, for any requests, models, *)
(* questions, and way to make them texts.                                         *)
THEOREM AnswersAreFitting == Spec => []AnswersFit
<1>1. Typed /\ FitInv /\ [Next]_vars => FitInv'
  <2> SUFFICES ASSUME Typed, FitInv, [Next]_vars PROVE FitInv'
    OBVIOUS
  <2>1. CASE UNCHANGED vars
    BY <2>1 DEF vars, FitInv, AnswersFit, EntriesFit
  <2>2. CASE Next
    BY <2>2, RequestFits, WorldFits DEF Next
  <2>3. QED
    BY <2>1, <2>2
<1>2. FitInv => AnswersFit
  BY DEF FitInv
<1>3. QED
  BY <1>1, <1>2, FitInit, AlwaysTyped, PTL DEF Spec

--------------------------------------------------------------------------------
(* How late after an outage a request can still bring something of it back: into  *)
(* the fallback only while the pool has nothing, out of it within its deadline.   *)
LateFor(r) ==
  /\ pc[r] = "fallback" => upFor = 0
  /\ pc[r] = "calling_fallback" => upFor <= since[r]
  /\ pc[r] = "stale_lookup" => upFor <= Deadline
  /\ pc[r] = "storing" =>
       upFor <= Deadline \/ (answer[r].by = Route(body[r]) /\ answer[r].age = 0)

(* An entry was stored within a deadline of an outage, or is the asked model's    *)
(* own and as old as its lease.                                                   *)
Lasting(m, e) ==
  \/ upFor <= Deadline + TTL - e.left
  \/ e.by = m /\ e.age + e.left <= TTL

ForgetInv ==
  /\ ~up => upFor = 0
  /\ \A r \in Requests : LateFor(r)
  /\ \A k \in Keys : store[k] # None => Lasting(k.model, store[k])

LEMMA ForgetInit == Init => ForgetInv
  BY DEF Init, ForgetInv, LateFor

(* The invariant gives the property, because a lease has a tick left at least.    *)
LEMMA ForgetEnough == Typed /\ ForgetInv => OutagesAreForgotten
<1> SUFFICES ASSUME Typed, ForgetInv, upFor > TTL + Deadline,
                    NEW k \in Keys, store[k] # None
             PROVE  store[k].by = k.model /\ store[k].age < TTL
  BY DEF OutagesAreForgotten
<1>1. store[k] \in EntrySet
  BY DEF Typed, TypeOK
<1>2. store[k].left \in 1..TTL /\ store[k].age \in Nat /\ upFor \in Nat
  BY <1>1, ClocksAssumption DEF EntrySet, Ages, Typed, TypeOK, MaxUp
<1>3. Lasting(k.model, store[k])
  BY DEF ForgetInv
<1>4. QED
  BY <1>2, <1>3, ClocksAssumption DEF Lasting

(* A step of one request that leaves the cache alone has to answer for itself.    *)
LEMMA OwnForget ==
  ASSUME Typed, ForgetInv, NEW r \in Requests, LateFor(r)',
         \A q \in Requests \ {r} : /\ pc'[q] = pc[q] /\ body'[q] = body[q]
                                   /\ since'[q] = since[q] /\ answer'[q] = answer[q],
         UNCHANGED <<up, upFor, store>>
  PROVE  ForgetInv'
<1>1. ASSUME NEW q \in Requests
      PROVE  LateFor(q)'
  <2>1. CASE q = r
    BY <2>1
  <2>2. CASE q # r
    BY <2>2 DEF ForgetInv, LateFor
  <2>3. QED
    BY <2>1, <2>2
<1>2. ASSUME NEW k \in Keys, store'[k] # None
      PROVE  Lasting(k.model, store[k])'
  BY <1>2 DEF ForgetInv, Lasting
<1>3. QED
  BY <1>1, <1>2 DEF ForgetInv

(* The steps of a request that leave the cache alone.                             *)
LEMMA RequestForgets ==
  ASSUME Typed, ForgetInv, NEW r \in Requests,
         \/ \E b \in Bodies : Hit(r, b) \/ Miss(r, b)
         \/ Produce(r) \/ FallbackToModel(r) \/ FallbackToCache(r) \/ CallReturns(r)
         \/ StaleHit(r) \/ Fail(r)
  PROVE  ForgetInv'
<1> USE DEF Resting, Waited, Momentary
<1>1. since[r] \in 0..Deadline /\ upFor \in Nat /\ LateFor(r) /\ (~up => upFor = 0)
  BY ClocksAssumption DEF Typed, TypeOK, MaxUp, ForgetInv
<1>2. CASE \E b \in Bodies : Hit(r, b) \/ Miss(r, b)
  <2>1. LateFor(r)'
    BY <1>2 DEF Hit, Miss, Ask, Goto, LateFor, Typed, TypeOK
  <2>2. QED
    BY <1>2, <2>1, OwnForget DEF Hit, Miss, Ask, Goto, Answer, Typed, TypeOK
<1>3. CASE Produce(r) \/ FallbackToModel(r)
  <2>1. LateFor(r)'
    BY <1>1, <1>3, ClocksAssumption DEF Produce, FallbackToModel, Goto, Rest, LateFor, Typed, TypeOK
  <2>2. QED
    BY <1>3, <2>1, OwnForget DEF Produce, FallbackToModel, Goto, Rest, Typed, TypeOK
<1>4. CASE FallbackToCache(r)
  <2>1. LateFor(r)'
    BY <1>1, <1>4, ClocksAssumption
    DEF FallbackToCache, GiveUp, Goto, Rest, LateFor, Typed, TypeOK
  <2>2. QED
    BY <1>4, <2>1, OwnForget DEF FallbackToCache, GiveUp, Goto, Answer, Rest, Typed, TypeOK
<1>5. CASE CallReturns(r)
  <2>1. CASE pc[r] = "calling_fallback"
    <3>1. upFor' <= Deadline
      BY <1>1, <1>5, <2>1, ClocksAssumption DEF LateFor, CallReturns, Rest
    <3>2. LateFor(r)'
      BY <1>5, <3>1 DEF CallReturns, Goto, LateFor, Typed, TypeOK
    <3>3. QED
      BY <1>5, <3>2, OwnForget DEF CallReturns, Goto, Answer, Rest, Typed, TypeOK
  <2>2. CASE pc[r] # "calling_fallback"
    <3>1. answer'[r] = FreshAnswer(Route(body[r]), body[r].question)
      BY <1>5, <2>2 DEF CallReturns, Answer, Typed, TypeOK
    <3>2. Route(body[r])' = Route(body[r])
      BY <1>5 DEF CallReturns, Rest, Route
    <3>3. answer'[r].by = Route(body[r])' /\ answer'[r].age = 0
      BY <3>1, <3>2 DEF FreshAnswer
    <3>4. LateFor(r)'
      BY <1>5, <3>3 DEF CallReturns, Goto, LateFor, Typed, TypeOK
    <3>5. QED
      BY <1>5, <3>4, OwnForget DEF CallReturns, Goto, Answer, Rest, Typed, TypeOK
  <2>3. QED
    BY <2>1, <2>2
<1>6. CASE StaleHit(r)
  <2>1. LateFor(r)'
    BY <1>1, <1>6 DEF StaleHit, Goto, Rest, LateFor, Typed, TypeOK
  <2>2. QED
    BY <1>6, <2>1, OwnForget DEF StaleHit, Goto, Answer, Rest, Typed, TypeOK
<1>7. CASE Fail(r)
  <2>1. LateFor(r)'
    BY <1>7 DEF Fail, GiveUp, Goto, LateFor, Typed, TypeOK
  <2>2. QED
    BY <1>7, <2>1, OwnForget DEF Fail, GiveUp, Goto, Answer, Typed, TypeOK
<1>8. QED
  BY <1>2, <1>3, <1>4, <1>5, <1>6, <1>7

(* A put makes an entry as late as the request that stores it, or a fresh one.    *)
LEMMA PutForgets ==
  ASSUME Typed, ForgetInv, NEW r \in Requests, Put(r)
  PROVE  ForgetInv'
<1> DEFINE key == CacheKey(body[r])
           entry == Entry(answer[r])
<1>1. answer[r] \in AnswerSet /\ body[r] \in Bodies /\ pc[r] = "storing"
  BY DEF Put, Typed, Known
<1>2. key \in Keys /\ key.model = Route(body[r])
  BY <1>1, Routed DEF CacheKey
<1>3. entry.by = answer[r].by /\ entry.age = answer[r].age /\ entry.left = TTL
  BY <1>1, EntryFromAnswer
<1>4. upFor \in Nat
  BY ClocksAssumption DEF Typed, TypeOK, MaxUp
<1>5. upFor <= Deadline \/ (answer[r].by = Route(body[r]) /\ answer[r].age = 0)
  BY <1>1 DEF ForgetInv, LateFor
<1>6. Lasting(key.model, entry)
  BY <1>2, <1>3, <1>4, <1>5, ClocksAssumption DEF Lasting
<1>7. upFor' = upFor /\ up' = up /\ store' = [store EXCEPT ![key] = entry]
  BY DEF Put
<1>8. ASSUME NEW k \in Keys, store'[k] # None
      PROVE  Lasting(k.model, store[k])'
  <2>1. CASE k = key
    BY <1>2, <1>6, <1>7, <2>1 DEF Lasting, Typed, TypeOK
  <2>2. CASE k # key
    BY <1>7, <1>8, <2>2 DEF ForgetInv, Lasting, Typed, TypeOK
  <2>3. QED
    BY <2>1, <2>2
<1>9. \A q \in Requests : LateFor(q)'
  BY DEF Put, Goto, ForgetInv, LateFor, Typed, TypeOK
<1>10. QED
  BY <1>7, <1>8, <1>9 DEF ForgetInv

(* A tick brings every entry nearer to its end, and every request that waits.     *)
LEMMA TickForgets ==
  ASSUME Typed, ForgetInv, Tick
  PROVE  ForgetInv'
<1> USE DEF Waited, Momentary
<1>1. upFor \in Nat /\ upFor' <= upFor + 1 /\ upFor' \in Nat /\ (~up => upFor' = upFor)
  BY ClocksAssumption DEF Tick, Typed, TypeOK, MaxUp
<1>2. ASSUME NEW r \in Requests
      PROVE  LateFor(r)'
  <2>1. pc'[r] = pc[r] /\ pc[r] \notin Momentary /\ since[r] \in Nat
    BY ClocksAssumption DEF Tick, Typed, TypeOK
  <2>2. pc[r] = "calling_fallback" => since'[r] = since[r] + 1
    BY DEF Tick
  <2>3. pc[r] = "calling_fallback" => upFor <= since[r]
    BY DEF ForgetInv, LateFor
  <2>4. QED
    BY <1>1, <2>1, <2>2, <2>3 DEF LateFor
<1>3. ASSUME NEW k \in Keys, store'[k] # None
      PROVE  Lasting(k.model, store[k])'
  <2>1. store[k] \in EntrySet \cup {None} /\ store'[k] = Aged(store[k])
    BY DEF Tick, Typed, TypeOK
  <2>2. /\ store[k] \in EntrySet /\ store[k] # None /\ store'[k].by = store[k].by
        /\ store'[k].left = store[k].left - 1 /\ store'[k].age <= store[k].age + 1
        /\ store'[k] \in EntrySet
    BY <1>3, <2>1, AgedEntry
  <2>3. /\ store[k].left \in Nat /\ store[k].age \in Nat
        /\ store'[k].left \in Nat /\ store'[k].age \in Nat
    BY <2>2, ClocksAssumption DEF EntrySet, Ages
  <2>4. Lasting(k.model, store[k])
    BY <2>2 DEF ForgetInv
  <2>5. QED
    BY <1>1, <2>2, <2>3, <2>4, ClocksAssumption DEF Lasting
<1>4. ~up' => upFor' = 0
  BY <1>1 DEF Tick, ForgetInv
<1>5. QED
  BY <1>2, <1>3, <1>4 DEF ForgetInv

(* Evictions take away, and an outage starts the count anew.                      *)
LEMMA PoolForgets ==
  ASSUME Typed, ForgetInv, (\E k \in Keys : Drop(k)) \/ Outage \/ Recovery
  PROVE  ForgetInv'
<1>1. CASE \E k \in Keys : Drop(k)
  BY <1>1 DEF Drop, ForgetInv, LateFor, Lasting, Typed, TypeOK
<1>2. CASE Outage
  <2>1. \A r \in Requests : LateFor(r)'
    BY <1>2, ClocksAssumption DEF Outage, LateFor, Typed, TypeOK
  <2>2. ASSUME NEW k \in Keys, store[k] # None
        PROVE  0 <= Deadline + TTL - store[k].left
    BY <2>2, ClocksAssumption DEF Typed, TypeOK, EntrySet
  <2>3. QED
    BY <1>2, <2>1, <2>2 DEF Outage, ForgetInv, Lasting
<1>3. CASE Recovery
  BY <1>3 DEF Recovery, ForgetInv, LateFor, Lasting
<1>4. QED
  BY <1>1, <1>2, <1>3

(* Theorem: what an outage leaves in the cache is gone one deadline and one       *)
(* lifetime after it, for any lifetime, deadline, requests and models.            *)
THEOREM OutagesPass == Spec => []OutagesAreForgotten
<1>1. Typed /\ ForgetInv /\ [Next]_vars => ForgetInv'
  <2> SUFFICES ASSUME Typed, ForgetInv, [Next]_vars PROVE ForgetInv'
    OBVIOUS
  <2>1. CASE UNCHANGED vars
    BY <2>1 DEF vars, ForgetInv, LateFor, Lasting, Route
  <2>2. CASE Next
    BY <2>2, RequestForgets, PutForgets, TickForgets, PoolForgets DEF Next
  <2>3. QED
    BY <2>1, <2>2
<1>2. QED
  BY <1>1, ForgetInit, ForgetEnough, AlwaysTyped, PTL DEF Spec

================================================================================
