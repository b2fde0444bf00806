------------------------------ MODULE SingleFlight ------------------------------
(* What coalesce() promises the requests for one hash, without Redis, messages    *)
(* or time: some requests hold the claim, each runs its producer at most once,    *)
(* and what one is answered is its own product, a product some holder of the      *)
(* claim shared while it held it, an error, or nothing at all. Coalescer, with    *)
(* its lock, channel, timers and faults, implements it.                            *)
CONSTANTS Requests, Results,
          Exclusive   \* is the claim held by one request at a time?

VARIABLES holders,   \* those that hold the claim
          shared,    \* the products others may be answered with: <<maker, result>>
          made,      \* what each request's own producer returned
          answer     \* what each request's call returned or raised

vars == <<holders, shared, made, answer>>

None == <<>>
Error == <<"error">>
Lost == <<"lost">>
Broken == <<"broken">>
NoResult == "none"

Init ==
  /\ holders = {}
  /\ shared = {}
  /\ made = [r \in Requests |-> NoResult]
  /\ answer = [r \in Requests |-> None]

Open(r) == answer[r] = None
Idle(r) == made[r] = NoResult
Answer(r, a) == answer' = [answer EXCEPT ![r] = a]
Produce(r, k) == made' = [made EXCEPT ![r] = k]

Take(r) ==
  /\ Open(r) /\ Idle(r)
  /\ Exclusive => holders = {}
  /\ holders' = holders \cup {r}
  /\ UNCHANGED <<shared, made, answer>>

Make(r) ==
  /\ r \in holders
  /\ Open(r) /\ Idle(r)
  /\ \E k \in Results : Produce(r, k)
  /\ UNCHANGED <<holders, shared, answer>>

(* The holder answers with its product, which somebody else may have received,    *)
(* even if the holder is lost meanwhile or does not know; a product that cannot be *)
(* sent is no answer.                                                              *)
Share(r) ==
  /\ r \in holders
  /\ Open(r) /\ ~Idle(r) /\ made[r] # "object"
  /\ shared' \in {shared, shared \cup {<<r, made[r]>>}}
  /\ Answer(r, <<r, made[r]>>) \/ Answer(r, Lost) \/ UNCHANGED answer
  /\ UNCHANGED <<holders, made>>

(* A text arrives as it is or, if it happens to be JSON, parsed; "null" is lost.   *)
Receive(r) ==
  /\ r \notin holders
  /\ Open(r)
  /\ \E m \in shared :
       /\ m[2] # "null_text"
       /\ Answer(r, IF m[2] = "json_text" THEN <<m[1], "parsed">> ELSE m)
  /\ UNCHANGED <<holders, shared, made>>

(* Who holds no claim can produce for itself, and shares nothing.                  *)
Alone(r) ==
  /\ r \notin holders
  /\ Open(r) /\ Idle(r)
  /\ \E k \in Results : Produce(r, k) /\ Answer(r, <<r, k>>)
  /\ UNCHANGED <<holders, shared>>

Fail(r) ==
  /\ Open(r)
  /\ Answer(r, Error)
  /\ UNCHANGED <<holders, shared, made>>

Release(r) ==
  /\ r \in holders
  /\ ~Open(r)
  /\ holders' = holders \ {r}
  /\ UNCHANGED <<shared, made, answer>>

(* Cancelled, dead or cut off. Who holds no claim and has its answer is through.   *)
Lose(r) ==
  /\ Open(r) \/ r \in holders
  /\ Answer(r, Lost) \/ Answer(r, Broken)
  /\ holders' \in {holders, holders \ {r}}
  /\ UNCHANGED <<shared, made>>

Next ==
  \E r \in Requests :
    \/ Take(r) \/ Make(r) \/ Share(r) \/ Receive(r)
    \/ Alone(r) \/ Fail(r) \/ Release(r) \/ Lose(r)

Spec == Init /\ [][Next]_vars

================================================================================
