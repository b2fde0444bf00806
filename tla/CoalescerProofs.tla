----------------------------- MODULE CoalescerProofs -----------------------------
(* Theorems about Coalescer for any set of requests, any times and any faults.    *)
EXTENDS Coalescer, TLAPS

(* Stages that keep no time leave the clock at 0, and a claimant's clock never   *)
(* runs past MaxHold.                                                            *)
ClockInv ==
  \A r \in Requests :
    /\ ~Timed(r) => clock[r] = 0
    /\ Claimant(r) => clock[r] <= MaxHold

(* A claimant's lock is in Redis, exactly as old as the claim.                   *)
LockIsMine == \A r \in Requests : Claimant(r) => lock = clock[r]

(* There is a result to publish.                                                 *)
MadeInv == \A r \in Requests : pc[r] = "publish" => made[r] \in Results

CoalescerInv ==
  /\ TypeOK
  /\ MadeInv
  /\ ClockInv
  /\ MaxHold < LockTTL => LockIsMine /\ ExclusiveClaim

Stages == {"start", "claimed", "produce", "publish", "sentinel", "unlock",
           "refused", "wait", "direct", "done"}

(* No request has claimed anything in an initial state.                          *)
LEMMA CoalescerInit == Init => CoalescerInv
  BY TimesAssumption
     DEF Init, CoalescerInv, TypeOK, MadeInv, ClockInv, LockIsMine, ExclusiveClaim,
         Claimant, Timed, Free, Answers, NoResult, None

--------------------------------------------------------------------------------
(* Types: one step per action of Next.                                            *)

(* Every step keeps the types, whatever fails.                                 *)
LEMMA TypeStep == TypeOK /\ MadeInv /\ [Next]_vars => TypeOK' /\ MadeInv'
<1> SUFFICES ASSUME TypeOK, MadeInv, [Next]_vars PROVE TypeOK' /\ MadeInv'
  OBVIOUS
<1> DEFINE Inboxes == {None, Error} \cup (Requests \X Results)
           Mades == {NoResult} \cup Results
<1>0. /\ lock \in 0..LockTTL
      /\ pc \in [Requests -> Stages]
      /\ clock \in [Requests -> Nat]
      /\ inbox \in [Requests -> Inboxes]
      /\ made \in [Requests -> Mades]
      /\ answer \in [Requests -> Answers]
      /\ \A r \in Requests : pc[r] = "publish" => made[r] \in Results
  BY DEF TypeOK, MadeInv, Stages
<1>a. ASSUME /\ lock' \in 0..LockTTL
             /\ pc' \in [Requests -> Stages]
             /\ clock' \in [Requests -> Nat]
             /\ inbox' \in [Requests -> Inboxes]
             /\ made' \in [Requests -> Mades]
             /\ answer' \in [Requests -> Answers]
             /\ \A r \in Requests : pc'[r] = "publish" => made'[r] \in Results
      PROVE  TypeOK' /\ MadeInv'
  BY <1>a DEF TypeOK, MadeInv, Stages
<1>b. None \in Answers /\ Error \in Answers /\ Lost \in Answers /\ Broken \in Answers
  BY DEF Answers
<1>c. ASSUME NEW r \in Requests, NEW k \in Results PROVE <<r, k>> \in Answers
  BY <1>c, ResultsAssumption DEF Answers
<1>d. 0 \in 0..LockTTL /\ Free \in 0..LockTTL
  BY TimesAssumption DEF Free
<1>e. ASSUME NEW r \in Requests, NEW from \in Stages, NEW to \in Stages \ {"publish"},
             Goto(r, from, to), UNCHANGED made
      PROVE  /\ pc' \in [Requests -> Stages]
             /\ \A q \in Requests : pc'[q] = "publish" => made'[q] \in Results
  BY <1>0, <1>e DEF Goto
<1>f. ASSUME NEW r \in Requests, NEW a \in Answers, Ends(r, a)
      PROVE  answer' \in [Requests -> Answers] /\ clock' \in [Requests -> Nat]
  BY <1>0, <1>f DEF Ends, Restart
<1>g. ASSUME NEW m \in Inboxes, Deliver(m) PROVE inbox' \in [Requests -> Inboxes]
  BY <1>0, <1>g DEF Deliver
<1>1. ASSUME NEW r \in Requests, Claim(r) \/ Refused(r) \/ BeginProducing(r) \/ Subscribe(r)
      PROVE  TypeOK' /\ MadeInv'
  BY <1>0, <1>1, <1>a, <1>d, <1>e
     DEF Claim, Refused, BeginProducing, Subscribe, Stages
<1>2. ASSUME NEW r \in Requests, ProducerReturns(r) PROVE TypeOK' /\ MadeInv'
  BY <1>0, <1>2, <1>a DEF ProducerReturns, Goto, Stages
<1>3. ASSUME NEW r \in Requests, ProducerRaises(r) PROVE TypeOK' /\ MadeInv'
  BY <1>0, <1>3, <1>a, <1>e DEF ProducerRaises, Stages
<1>4. ASSUME NEW r \in Requests, Publish(r) PROVE TypeOK' /\ MadeInv'
  <2>1. made[r] \in Results
    BY <1>0, <1>4 DEF Publish, Goto
  <2>2. answer' \in [Requests -> Answers] /\ inbox' \in [Requests -> Inboxes]
    BY <1>0, <1>4, <1>c, <1>g, <2>1 DEF Publish
  <2>3. QED
    BY <1>0, <1>4, <1>a, <1>e, <2>2 DEF Publish, Stages
<1>5. ASSUME NEW r \in Requests, PublishSentinel(r) PROVE TypeOK' /\ MadeInv'
  <2>1. answer' \in [Requests -> Answers] /\ inbox' \in [Requests -> Inboxes]
    BY <1>0, <1>5, <1>b, <1>g DEF PublishSentinel
  <2>2. QED
    BY <1>0, <1>5, <1>a, <1>e, <2>1 DEF PublishSentinel, Stages
<1>6. ASSUME NEW r \in Requests, Unlock(r) PROVE TypeOK' /\ MadeInv'
  BY <1>0, <1>6, <1>a, <1>d, <1>e DEF Unlock, Restart, Stages
<1>7. ASSUME NEW r \in Requests, ReceiveAnswer(r) PROVE TypeOK' /\ MadeInv'
  <2>1. inbox[r] \in Requests \X Results
    BY <1>0, <1>7 DEF ReceiveAnswer
  <2>2. Decoded(inbox[r]) \in Answers
    BY <2>1, ResultsAssumption DEF Decoded, Answers
  <2>3. QED
    BY <1>0, <1>7, <1>a, <1>e, <1>f, <2>2 DEF ReceiveAnswer, Stages
<1>8. ASSUME NEW r \in Requests, ReceiveSentinel(r) PROVE TypeOK' /\ MadeInv'
  BY <1>0, <1>8, <1>a, <1>b, <1>e, <1>f DEF ReceiveSentinel, Stages
<1>9. ASSUME NEW r \in Requests, GiveUpWaiting(r) PROVE TypeOK' /\ MadeInv'
  BY <1>0, <1>9, <1>a, <1>e DEF GiveUpWaiting, Restart, Stages
<1>10. ASSUME NEW r \in Requests, DirectReturns(r) PROVE TypeOK' /\ MadeInv'
  <2>1. PICK k \in Results : /\ Goto(r, "direct", "done")
                             /\ made' = [made EXCEPT ![r] = k]
                             /\ Ends(r, <<r, k>>)
    BY <1>10 DEF DirectReturns
  <2>2. answer' \in [Requests -> Answers] /\ clock' \in [Requests -> Nat]
    BY <1>c, <1>f, <2>1
  <2>3. pc' \in [Requests -> Stages] /\ made' \in [Requests -> Mades]
    BY <1>0, <2>1 DEF Goto, Stages
  <2>4. \A q \in Requests : pc'[q] = "publish" => made'[q] \in Results
    BY <1>0, <2>1 DEF Goto
  <2>5. QED
    BY <1>0, <1>10, <1>a, <2>2, <2>3, <2>4 DEF DirectReturns
<1>11. ASSUME NEW r \in Requests, DirectRaises(r) PROVE TypeOK' /\ MadeInv'
  BY <1>0, <1>11, <1>a, <1>b, <1>e, <1>f DEF DirectRaises, Stages
<1>12. ASSUME NEW r \in Requests, Cancel(r) PROVE TypeOK' /\ MadeInv'
  <2>1. /\ pc' \in [Requests -> Stages]
        /\ \A q \in Requests : pc'[q] = "publish" => made'[q] \in Results
    BY <1>0, <1>12, <1>e DEF Cancel, Stages
  <2>2. answer' \in [Requests -> Answers] /\ clock' \in [Requests -> Nat]
    BY <1>0, <1>12, <1>b DEF Cancel, Restart
  <2>3. QED
    BY <1>0, <1>12, <1>a, <2>1, <2>2 DEF Cancel
<1>13. ASSUME NEW r \in Requests, Crash(r) PROVE TypeOK' /\ MadeInv'
  BY <1>0, <1>13, <1>a, <1>b, <1>e, <1>f DEF Crash, Stages
<1>14. ASSUME NEW r \in Requests, RedisError(r) PROVE TypeOK' /\ MadeInv'
  <2>1. /\ pc' \in [Requests -> Stages]
        /\ \A q \in Requests : pc'[q] = "publish" => made'[q] \in Results
    BY <1>0, <1>14, <1>e DEF RedisError, Stages
  <2>2. answer' \in [Requests -> Answers] /\ clock' \in [Requests -> Nat]
    BY <1>0, <1>14, <1>b, <1>f DEF RedisError
  <2>3. QED
    BY <1>0, <1>14, <1>a, <2>1, <2>2 DEF RedisError
<1>15. CASE Tick
  <2>1. lock' \in 0..LockTTL
    BY <1>0, <1>15, TimesAssumption DEF Tick, Free
  <2>2. clock' \in [Requests -> Nat]
    BY <1>0, <1>15 DEF Tick
  <2>3. QED
    BY <1>0, <1>15, <1>a, <2>1, <2>2 DEF Tick
<1>16. CASE UNCHANGED vars
  BY <1>0, <1>16, <1>a DEF vars
<1>17. ASSUME NEW r \in Requests, ReplyLost(r) PROVE TypeOK' /\ MadeInv'
  <2>1. made[r] \in Results
    BY <1>0, <1>17 DEF ReplyLost, Goto
  <2>2. answer' \in [Requests -> Answers] /\ inbox' \in [Requests -> Inboxes]
    BY <1>0, <1>17, <1>b, <1>g, <2>1 DEF ReplyLost
  <2>3. /\ pc' \in [Requests -> Stages]
        /\ \A q \in Requests : pc'[q] = "publish" => made'[q] \in Results
    BY <1>0, <1>17, <1>e DEF ReplyLost, Stages
  <2>4. QED
    BY <1>0, <1>17, <1>a, <2>2, <2>3 DEF ReplyLost
<1>18. ASSUME NEW r \in Requests, SentinelReplyLost(r) PROVE TypeOK' /\ MadeInv'
  <2>1. answer' \in [Requests -> Answers] /\ inbox' \in [Requests -> Inboxes]
    BY <1>0, <1>18, <1>b, <1>g DEF SentinelReplyLost
  <2>2. QED
    BY <1>0, <1>18, <1>a, <1>e, <2>1 DEF SentinelReplyLost, Stages
<1>19. ASSUME NEW r \in Requests, UnlockReplyLost(r) PROVE TypeOK' /\ MadeInv'
  <2>1. answer' \in [Requests -> Answers] /\ clock' \in [Requests -> Nat]
    BY <1>19, <1>b, <1>f DEF UnlockReplyLost
  <2>2. QED
    BY <1>0, <1>19, <1>a, <1>d, <1>e, <2>1 DEF UnlockReplyLost, Stages
<1>20. QED
  BY <1>1, <1>2, <1>3, <1>4, <1>5, <1>6, <1>7, <1>8, <1>9, <1>10, <1>11, <1>12, <1>13,
     <1>14, <1>15, <1>16, <1>17, <1>18, <1>19 DEF Next, Step

--------------------------------------------------------------------------------
(* The claim: what each kind of step does to a request's stage, its clock and    *)
(* the lock.                                                                      *)

Claiming == {"claimed", "produce", "publish", "sentinel", "unlock"}

ClaimInv == ClockInv /\ (MaxHold < LockTTL => LockIsMine /\ ExclusiveClaim)

(* A claimant goes on: the claim and its clock stay as they are.                 *)
LEMMA ClaimantGoesOn ==
  ASSUME TypeOK, ClaimInv, NEW r \in Requests, NEW from \in Claiming, NEW to \in Claiming,
         Goto(r, from, to), UNCHANGED <<lock, clock>>
  PROVE  ClaimInv'
<1>1. pc \in [Requests -> Stages] /\ clock \in [Requests -> Nat]
  BY DEF TypeOK, Stages
<1>2. \A q \in Requests : (Claimant(q)' <=> Claimant(q)) /\ (Timed(q)' <=> Timed(q))
  BY <1>1 DEF Goto, Claimant, Timed, Claiming
<1>3. QED
  BY <1>2 DEF ClaimInv, ClockInv, LockIsMine, ExclusiveClaim

(* A request leaves its stage, claimant or not, for one that is no claim: its    *)
(* clock starts anew, and a lock it may hold stays behind.                       *)
LEMMA RequestLeaves ==
  ASSUME TypeOK, ClaimInv, NEW r \in Requests, NEW from, NEW to \in {"direct", "done"},
         Goto(r, from, to), Restart(r), UNCHANGED lock
  PROVE  ClaimInv'
<1>1. pc \in [Requests -> Stages] /\ clock \in [Requests -> Nat]
  BY DEF TypeOK, Stages
<1>2. /\ ~Claimant(r)'
      /\ \A q \in Requests \ {r} : /\ Claimant(q)' <=> Claimant(q)
                                   /\ Timed(q)' <=> Timed(q)
                                   /\ clock'[q] = clock[q]
      /\ clock'[r] = 0
  BY <1>1 DEF Goto, Restart, Claimant, Timed
<1>3. ClockInv'
  BY <1>1, <1>2 DEF ClaimInv, ClockInv
<1>4. QED
  BY <1>2, <1>3 DEF ClaimInv, LockIsMine, ExclusiveClaim

(* A request that found the lock taken subscribes.                               *)
LEMMA RefusedGoesOn ==
  ASSUME TypeOK, ClaimInv, NEW r \in Requests, NEW from \in {"start", "refused"},
         NEW to \in {"refused", "wait"}, Goto(r, from, to), UNCHANGED <<lock, clock>>
  PROVE  ClaimInv'
<1>1. pc \in [Requests -> Stages] /\ clock \in [Requests -> Nat]
  BY DEF TypeOK, Stages
<1>2. /\ \A q \in Requests : Claimant(q)' <=> Claimant(q)
      /\ \A q \in Requests : Timed(q) => Timed(q)'
  BY <1>1 DEF Goto, Claimant, Timed
<1>3. QED
  BY <1>2 DEF ClaimInv, ClockInv, LockIsMine, ExclusiveClaim

(* SET NX succeeds only when no claimant is left: each of them has a lock.       *)
LEMMA ClaimFindsNobody ==
  ASSUME TypeOK, ClaimInv, NEW r \in Requests, Claim(r), MaxHold < LockTTL
  PROVE  \A q \in Requests : ~Claimant(q)
  BY TimesAssumption DEF TypeOK, Claim, Free, ClaimInv, ClockInv, LockIsMine

(* So the new claimant is the only one.                                          *)
LEMMA ClaimKeeps ==
  ASSUME TypeOK, ClaimInv, NEW r \in Requests, Claim(r)
  PROVE  ClaimInv'
<1>1. pc \in [Requests -> Stages] /\ clock \in [Requests -> Nat]
  BY DEF TypeOK, Stages
<1>2. /\ clock[r] = 0 /\ clock' = clock
      /\ Claimant(r)' /\ lock' = 0
      /\ \A q \in Requests \ {r} : /\ Claimant(q)' <=> Claimant(q)
                                   /\ Timed(q)' <=> Timed(q)
  BY <1>1 DEF Claim, Goto, Claimant, Timed, ClaimInv, ClockInv
<1>3. ClockInv'
  BY <1>1, <1>2, TimesAssumption DEF ClaimInv, ClockInv, Timed
<1>4. ASSUME MaxHold < LockTTL, NEW q \in Requests PROVE ~Claimant(q)
  BY <1>4, ClaimFindsNobody
<1>5. QED
  BY <1>2, <1>3, <1>4 DEF ClaimInv, LockIsMine, ExclusiveClaim

(* The DEL removes the caller's own lock: the caller is the only claimant.       *)
LEMMA UnlockKeeps ==
  ASSUME TypeOK, ClaimInv, NEW r \in Requests, Unlock(r) \/ UnlockReplyLost(r)
  PROVE  ClaimInv'
<1>1. pc \in [Requests -> Stages] /\ clock \in [Requests -> Nat]
  BY DEF TypeOK, Stages
<1>2. /\ Claimant(r) /\ ~Claimant(r)'
      /\ \A q \in Requests \ {r} : /\ Claimant(q)' <=> Claimant(q)
                                   /\ Timed(q)' <=> Timed(q)
                                   /\ clock'[q] = clock[q]
      /\ clock'[r] = 0
  BY <1>1 DEF Unlock, UnlockReplyLost, Ends, Goto, Restart, Claimant, Timed
<1>3. ClockInv'
  BY <1>1, <1>2 DEF ClaimInv, ClockInv
<1>4. ASSUME MaxHold < LockTTL, NEW q \in Requests PROVE ~Claimant(q)'
  BY <1>2, <1>4 DEF ClaimInv, ExclusiveClaim
<1>5. QED
  BY <1>3, <1>4 DEF ClaimInv, LockIsMine, ExclusiveClaim

(* Lock and clock age together, and the lock does not expire under a claimant.   *)
LEMMA TickKeeps ==
  ASSUME TypeOK, ClaimInv, Tick
  PROVE  ClaimInv'
<1>1. clock \in [Requests -> Nat] /\ lock \in 0..LockTTL
  BY DEF TypeOK
<1>2. \A q \in Requests : (Claimant(q)' <=> Claimant(q)) /\ (Timed(q)' <=> Timed(q))
  BY DEF Tick, Claimant, Timed
<1>3. \A q \in Requests :
         /\ Claimant(q) => clock'[q] = clock[q] + 1 /\ clock[q] < MaxHold
         /\ ~Timed(q) => clock'[q] = clock[q]
  BY <1>1 DEF Tick, Timed
<1>4. ClockInv'
  BY <1>1, <1>2, <1>3, TimesAssumption DEF ClaimInv, ClockInv
<1>5. ASSUME MaxHold < LockTTL PROVE LockIsMine' /\ ExclusiveClaim'
  <2>1. \A q \in Requests : Claimant(q) => lock = clock[q] /\ lock # Free
    BY <1>1, <1>3, <1>5, TimesAssumption DEF ClaimInv, LockIsMine, Free
  <2>2. LockIsMine'
    BY <1>2, <1>3, <2>1 DEF Tick, LockIsMine
  <2>3. ExclusiveClaim'
    BY <1>2, <1>5 DEF ClaimInv, ExclusiveClaim
  <2>4. QED
    BY <2>2, <2>3
<1>6. QED
  BY <1>4, <1>5 DEF ClaimInv

(* Every step keeps at most one claimant and its lock in place.                *)
LEMMA ClaimStep == TypeOK /\ ClaimInv /\ [Next]_vars => ClaimInv'
<1> SUFFICES ASSUME TypeOK, ClaimInv, [Next]_vars PROVE ClaimInv'
  OBVIOUS
<1>1. ASSUME NEW r \in Requests,
             \/ BeginProducing(r) \/ ProducerReturns(r) \/ ProducerRaises(r)
             \/ Publish(r) \/ PublishSentinel(r) \/ ReplyLost(r) \/ SentinelReplyLost(r)
      PROVE  ClaimInv'
  BY <1>1, ClaimantGoesOn
     DEF BeginProducing, ProducerReturns, ProducerRaises, Publish, PublishSentinel,
         ReplyLost, SentinelReplyLost, Claiming
<1>2. ASSUME NEW r \in Requests,
             \/ ReceiveAnswer(r) \/ ReceiveSentinel(r) \/ GiveUpWaiting(r)
             \/ DirectReturns(r) \/ DirectRaises(r) \/ Crash(r)
      PROVE  ClaimInv'
  BY <1>2, RequestLeaves
     DEF ReceiveAnswer, ReceiveSentinel, GiveUpWaiting, DirectReturns, DirectRaises,
         Crash, Ends
<1>3. ASSUME NEW r \in Requests, Refused(r) \/ Subscribe(r) PROVE ClaimInv'
  BY <1>3, RefusedGoesOn DEF Refused, Subscribe
<1>4. ASSUME NEW r \in Requests, Cancel(r) PROVE ClaimInv'
  <2>1. pc \in [Requests -> Stages]
    BY DEF TypeOK, Stages
  <2>2. ASSUME NEW from \in {"produce", "publish", "sentinel"}, Goto(r, from, "unlock")
        PROVE  ClaimInv'
    <3>1. pc'[r] # "done"
      BY <2>1, <2>2 DEF Goto
    <3>2. QED
      BY <1>4, <2>2, <3>1, ClaimantGoesOn DEF Cancel, Claiming
  <2>3. ASSUME NEW from \in {"start", "claimed", "unlock", "refused", "wait", "direct"},
               Goto(r, from, "done")
        PROVE  ClaimInv'
    <3>1. pc'[r] = "done"
      BY <2>1, <2>3 DEF Goto
    <3>2. QED
      BY <1>4, <2>3, <3>1, RequestLeaves DEF Cancel
  <2>4. QED
    BY <1>4, <2>2, <2>3 DEF Cancel
<1>5. ASSUME NEW r \in Requests, RedisError(r) PROVE ClaimInv'
  BY <1>5, ClaimantGoesOn, RequestLeaves DEF RedisError, Claiming, Ends
<1>6. CASE UNCHANGED vars
  BY <1>6 DEF vars, ClaimInv, ClockInv, LockIsMine, ExclusiveClaim, Claimant, Timed
<1>7. QED
  BY <1>1, <1>2, <1>3, <1>4, <1>5, <1>6, ClaimKeeps, UnlockKeeps, TickKeeps DEF Next, Step

--------------------------------------------------------------------------------

(* The inductive invariant holds of every behaviour, whatever fails.             *)
THEOREM CoalescerInvariant == Spec => []CoalescerInv
<1>1. CoalescerInv /\ [Next]_vars => CoalescerInv'
  BY TypeStep, ClaimStep DEF CoalescerInv, ClaimInv
<1>2. QED
  BY CoalescerInit, <1>1, PTL DEF Spec

(* Type correctness, for any set of requests.                                    *)
THEOREM CoalescerTypes == Spec => []TypeOK
<1>1. CoalescerInv => TypeOK
  BY DEF CoalescerInv
<1>2. QED
  BY <1>1, CoalescerInvariant, PTL

(* If every claimant is done within the TTL, at most one request at a time holds *)
(* the claim, whatever is cancelled, crashes or fails in Redis.                  *)
THEOREM ClaimsAreExclusive ==
  ASSUME MaxHold < LockTTL
  PROVE  Spec => []ExclusiveClaim
<1>1. CoalescerInv => ExclusiveClaim
  BY DEF CoalescerInv
<1>2. QED
  BY <1>1, CoalescerInvariant, PTL

--------------------------------------------------------------------------------
(* Who leaves a lock behind.                                                      *)

(* A request that was lost or cut off has nothing more to do than the DEL.       *)
GoneInv == \A r \in Requests : answer[r] \in {Lost, Broken} => pc[r] \in {"unlock", "done"}

HolderInv == GoneInv /\ LockHasHolder

(* The lock is free and nobody is gone in an initial state.                      *)
LEMMA HolderInit == Init => HolderInv
  BY DEF Init, HolderInv, GoneInv, LockHasHolder, None, Lost, Broken

(* A claimant that goes on, gone or not, keeps the lock accounted for.           *)
LEMMA HolderGoesOn ==
  ASSUME TypeOK, HolderInv, NEW r \in Requests,
         NEW from \in Claiming \ {"unlock"}, NEW to \in Claiming,
         Goto(r, from, to), UNCHANGED lock,
         \A q \in Requests \ {r} : answer'[q] = answer[q],
         answer'[r] = answer[r] \/ to = "unlock"
  PROVE  HolderInv'
<1>1. pc \in [Requests -> Stages]
  BY DEF TypeOK, Stages
<1>2. Claimant(r)' /\ pc[r] = from /\ pc'[r] = to
      /\ \A q \in Requests \ {r} : pc'[q] = pc[q]
  BY <1>1 DEF Goto, Claimant, Claiming
<1>3. GoneInv'
  BY <1>2 DEF HolderInv, GoneInv, Claiming
<1>4. QED
  BY <1>2, <1>3 DEF HolderInv, LockHasHolder

(* A request that never held the lock leaves no trace of it.                     *)
LEMMA OthersGoOn ==
  ASSUME TypeOK, HolderInv, NEW r \in Requests, ~Claimant(r), NEW to \in Stages,
         pc[r] # "done", pc' = [pc EXCEPT ![r] = to], UNCHANGED lock,
         \A q \in Requests \ {r} : answer'[q] = answer[q],
         answer'[r] \in {Lost, Broken} => to = "done"
  PROVE  HolderInv'
<1>1. pc \in [Requests -> Stages]
  BY DEF TypeOK, Stages
<1>2. pc[r] \notin {"unlock", "done"} /\ answer[r] \notin {Lost, Broken}
  BY DEF HolderInv, GoneInv, Claimant
<1>3. GoneInv'
  BY <1>1 DEF HolderInv, GoneInv
<1>4. \A q \in Requests : Claimant(q) => Claimant(q)'
  BY <1>1 DEF Claimant
<1>5. QED
  BY <1>2, <1>3, <1>4 DEF HolderInv, LockHasHolder

(* A request that is lost or cut off may leave a lock, and is known by it.       *)
LEMMA GoneIsKnown ==
  ASSUME TypeOK, HolderInv, NEW r \in Requests, NEW a \in {Lost, Broken},
         pc' = [pc EXCEPT ![r] = "done"], answer' = [answer EXCEPT ![r] = a]
  PROVE  HolderInv'
<1>1. pc \in [Requests -> Stages] /\ answer \in [Requests -> Answers]
  BY DEF TypeOK, Stages
<1>2. answer'[r] \in {Lost, Broken} /\ GoneInv'
  BY <1>1 DEF HolderInv, GoneInv
<1>3. QED
  BY <1>2 DEF HolderInv, LockHasHolder

(* Every step leaves a lock that has a claimant or was left by one that is gone. *)
LEMMA HolderStep == TypeOK /\ HolderInv /\ [Next]_vars => HolderInv'
<1> SUFFICES ASSUME TypeOK, HolderInv, [Next]_vars PROVE HolderInv'
  OBVIOUS
<1>0. pc \in [Requests -> Stages] /\ answer \in [Requests -> Answers]
  BY DEF TypeOK, Stages
<1>1. ASSUME NEW r \in Requests, Claim(r) PROVE HolderInv'
  <2>1. Claimant(r)'
    BY <1>0, <1>1 DEF Claim, Goto, Claimant
  <2>2. GoneInv'
    BY <1>0, <1>1 DEF Claim, Goto, HolderInv, GoneInv
  <2>3. QED
    BY <2>1, <2>2 DEF HolderInv, LockHasHolder
<1>2. ASSUME NEW r \in Requests,
             BeginProducing(r) \/ ProducerReturns(r) \/ ProducerRaises(r)
      PROVE  HolderInv'
  BY <1>2, HolderGoesOn
     DEF BeginProducing, ProducerReturns, ProducerRaises, Goto, Claiming
<1>3. ASSUME NEW r \in Requests,
             Publish(r) \/ PublishSentinel(r) \/ ReplyLost(r) \/ SentinelReplyLost(r)
      PROVE  HolderInv'
  BY <1>0, <1>3, HolderGoesOn
     DEF Publish, PublishSentinel, ReplyLost, SentinelReplyLost, Claiming
<1>4. ASSUME NEW r \in Requests, Unlock(r) \/ UnlockReplyLost(r) PROVE HolderInv'
  <2>1. lock' = Free
    BY <1>4 DEF Unlock, UnlockReplyLost
  <2>2. GoneInv'
    BY <1>0, <1>4 DEF Unlock, UnlockReplyLost, Ends, Goto, HolderInv, GoneInv
  <2>3. QED
    BY <2>1, <2>2 DEF HolderInv, LockHasHolder, Free
<1>5. ASSUME NEW r \in Requests, Refused(r) \/ Subscribe(r) \/ GiveUpWaiting(r)
      PROVE  HolderInv'
  <2>1. ~Claimant(r) /\ answer[r] \notin {Lost, Broken} /\ answer' = answer
    BY <1>5 DEF Refused, Subscribe, GiveUpWaiting, Goto, Claimant, HolderInv, GoneInv
  <2>2. QED
    BY <1>5, <2>1, OthersGoOn DEF Refused, Subscribe, GiveUpWaiting, Goto, Stages
<1>6. ASSUME NEW r \in Requests,
             ReceiveAnswer(r) \/ ReceiveSentinel(r) \/ DirectReturns(r) \/ DirectRaises(r)
      PROVE  HolderInv'
  BY <1>0, <1>6, OthersGoOn
     DEF ReceiveAnswer, ReceiveSentinel, DirectReturns, DirectRaises, Ends, Goto,
         Claimant, Stages
<1>7. ASSUME NEW r \in Requests, Cancel(r) PROVE HolderInv'
  BY <1>0, <1>7, HolderGoesOn, GoneIsKnown DEF Cancel, Goto, Claiming
<1>8. ASSUME NEW r \in Requests, Crash(r) PROVE HolderInv'
  BY <1>8, GoneIsKnown DEF Crash, Ends, Goto
<1>9. ASSUME NEW r \in Requests, RedisError(r) PROVE HolderInv'
  <2>1. CASE Goto(r, "publish", "sentinel") /\ UNCHANGED <<clock, answer>>
    BY <1>9, <2>1, HolderGoesOn DEF RedisError, Claiming
  <2>2. CASE Goto(r, "sentinel", "unlock") /\ answer' = [answer EXCEPT ![r] = Error]
    BY <1>0, <1>9, <2>2, HolderGoesOn DEF RedisError, Claiming
  <2>3. CASE \E from \in {"start", "claimed", "unlock", "refused", "wait"} :
               Goto(r, from, "done") /\ Ends(r, Broken)
    BY <2>3, GoneIsKnown DEF Goto, Ends
  <2>4. QED
    BY <1>9, <2>1, <2>2, <2>3 DEF RedisError
<1>10. CASE Tick
  BY <1>10 DEF Tick, HolderInv, GoneInv, LockHasHolder, Claimant
<1>11. CASE UNCHANGED vars
  BY <1>11 DEF vars, HolderInv, GoneInv, LockHasHolder, Claimant
<1>12. QED
  BY <1>1, <1>2, <1>3, <1>4, <1>5, <1>6, <1>7, <1>8, <1>9, <1>10, <1>11 DEF Next, Step

(* A lock without a claimant was left behind by a request that was cancelled,    *)
(* died or lost Redis, whatever the times: this does not rest on claimants being *)
(* done within the TTL, for who deletes another's lock leaves none at all.       *)
THEOREM LocksHaveHolders == Spec => []LockHasHolder
<1>1. HolderInv => LockHasHolder
  BY DEF HolderInv
<1>2. QED
  BY <1>1, HolderInit, HolderStep, CoalescerTypes, PTL DEF Spec

--------------------------------------------------------------------------------
(* What a request has made and answered, for the refinement of SingleFlight.      *)

(* Nothing is made or answered before its place in coalesce(); what is published *)
(* can be sent; only the DEL follows an answer.                                   *)
ProductInv ==
  \A r \in Requests :
    /\ pc[r] \notin {"publish", "sentinel", "unlock", "done"} => made[r] = NoResult
    /\ pc[r] \notin {"unlock", "done"} => answer[r] = None
    /\ pc[r] = "publish" => made[r] \in Results \ {"object"}
    /\ pc[r] = "unlock" => answer[r] # None

(* What is no answer differs from every answer, and an error from every product. *)
LEMMA AnswersDiffer ==
  /\ None # Error /\ None # Lost /\ None # Broken
  /\ \A a, b : <<a, b>> # None /\ <<a, b>> # Error
  BY DEF None, Error, Lost, Broken

(* No request has begun in an initial state.                                     *)
LEMMA ProductInit == Init => ProductInv
  BY DEF Init, ProductInv

(* A step of one request is about that request alone.                            *)
LEMMA ProductOfOne ==
  ASSUME TypeOK, ProductInv, NEW r \in Requests, NEW to \in Stages,
         pc' = [pc EXCEPT ![r] = to],
         \A q \in Requests \ {r} : made'[q] = made[q] /\ answer'[q] = answer[q],
         to \notin {"publish", "sentinel", "unlock", "done"} => made'[r] = NoResult,
         to \notin {"unlock", "done"} => answer'[r] = None,
         to = "publish" => made'[r] \in Results \ {"object"},
         to = "unlock" => answer'[r] # None
  PROVE  ProductInv'
<1>1. pc \in [Requests -> Stages]
  BY DEF TypeOK, Stages
<1>2. QED
  BY <1>1 DEF ProductInv

(* Every step keeps products and answers in their places.                        *)
LEMMA ProductStep == TypeOK /\ ProductInv /\ [Next]_vars => ProductInv'
<1> SUFFICES ASSUME TypeOK, ProductInv, [Next]_vars PROVE ProductInv'
  OBVIOUS
<1>0. /\ pc \in [Requests -> Stages] /\ answer \in [Requests -> Answers]
      /\ made \in [Requests -> {NoResult} \cup Results]
      /\ "object" \notin Results \ {"object"}
  BY DEF TypeOK, Stages
<1>1. ASSUME NEW r \in Requests,
             \/ Claim(r) \/ Refused(r) \/ BeginProducing(r) \/ ProducerRaises(r)
             \/ Subscribe(r) \/ GiveUpWaiting(r)
      PROVE  ProductInv'
  BY <1>1, ProductOfOne
     DEF Claim, Refused, BeginProducing, ProducerRaises, Subscribe, GiveUpWaiting, Goto,
         ProductInv, Stages
<1>2. ASSUME NEW r \in Requests, ProducerReturns(r) PROVE ProductInv'
  <2>1. PICK k \in Results : /\ Goto(r, "produce", IF k = "object" THEN "sentinel" ELSE "publish")
                             /\ made' = [made EXCEPT ![r] = k]
                             /\ answer' = answer
    BY <1>2 DEF ProducerReturns
  <2>2. made'[r] = k /\ answer'[r] = None /\ \A q \in Requests \ {r} : made'[q] = made[q]
    BY <1>0, <2>1 DEF Goto, ProductInv
  <2>3. CASE k = "object"
    BY <2>1, <2>2, <2>3, ProductOfOne DEF Goto, Stages
  <2>4. CASE k # "object"
    BY <2>1, <2>2, <2>4, ProductOfOne DEF Goto, Stages
  <2>5. QED
    BY <2>3, <2>4
<1>3. ASSUME NEW r \in Requests, Publish(r) \/ PublishSentinel(r) \/ SentinelReplyLost(r)
      PROVE  ProductInv'
  <2>1. \E a : a # None /\ answer' = [answer EXCEPT ![r] = a]
    BY <1>3, AnswersDiffer DEF Publish, PublishSentinel, SentinelReplyLost
  <2>2. QED
    BY <1>0, <1>3, <2>1, ProductOfOne
       DEF Publish, PublishSentinel, SentinelReplyLost, Goto, Stages
<1>4. ASSUME NEW r \in Requests,
             \/ Unlock(r) \/ UnlockReplyLost(r) \/ ReceiveAnswer(r) \/ ReceiveSentinel(r)
             \/ DirectReturns(r) \/ DirectRaises(r) \/ Crash(r)
      PROVE  ProductInv'
  <2>1. /\ pc' = [pc EXCEPT ![r] = "done"]
        /\ \A q \in Requests \ {r} : made'[q] = made[q] /\ answer'[q] = answer[q]
    BY <1>0, <1>4 DEF Unlock, UnlockReplyLost, ReceiveAnswer, ReceiveSentinel, DirectReturns,
       DirectRaises, Crash, Ends, Goto
  <2>2. QED
    BY <2>1, ProductOfOne DEF Stages
<1>5. ASSUME NEW r \in Requests, Cancel(r) PROVE ProductInv'
  <2>1. /\ answer'[r] # None /\ made' = made
        /\ \A q \in Requests \ {r} : answer'[q] = answer[q]
    BY <1>0, <1>5, AnswersDiffer DEF Cancel
  <2>2. pc' = [pc EXCEPT ![r] = "unlock"] \/ pc' = [pc EXCEPT ![r] = "done"]
    BY <1>5 DEF Cancel, Goto
  <2>3. QED
    BY <2>1, <2>2, ProductOfOne DEF Stages
<1>6. ASSUME NEW r \in Requests, RedisError(r) PROVE ProductInv'
  <2>1. CASE Goto(r, "publish", "sentinel") /\ UNCHANGED <<clock, answer>>
    BY <1>6, <2>1, ProductOfOne DEF RedisError, Goto, ProductInv, Stages
  <2>2. CASE Goto(r, "sentinel", "unlock") /\ answer' = [answer EXCEPT ![r] = Error]
    <3>1. answer'[r] # None /\ \A q \in Requests \ {r} : answer'[q] = answer[q]
      BY <1>0, <2>2, AnswersDiffer
    <3>2. QED
      BY <1>6, <2>2, <3>1, ProductOfOne DEF RedisError, Goto, Stages
  <2>3. CASE \E from \in {"start", "claimed", "unlock", "refused", "wait"} :
               Goto(r, from, "done") /\ Ends(r, Broken)
    <3>1. /\ pc' = [pc EXCEPT ![r] = "done"] /\ made' = made
          /\ \A q \in Requests \ {r} : answer'[q] = answer[q]
      BY <1>0, <1>6, <2>3 DEF RedisError, Goto, Ends
    <3>2. QED
      BY <3>1, ProductOfOne DEF Stages
  <2>4. QED
    BY <1>6, <2>1, <2>2, <2>3 DEF RedisError
<1>7. CASE Tick \/ UNCHANGED vars
  BY <1>7 DEF Tick, vars, ProductInv
<1>8. ASSUME NEW r \in Requests, ReplyLost(r) PROVE ProductInv'
  <2>1. /\ pc[r] = "publish" /\ answer[r] = None /\ made' = made
        /\ \A q \in Requests \ {r} : answer'[q] = answer[q]
    BY <1>0, <1>8 DEF ReplyLost, Goto, ProductInv
  <2>2. \/ pc' = [pc EXCEPT ![r] = "sentinel"] /\ answer'[r] = None
        \/ pc' = [pc EXCEPT ![r] = "unlock"] /\ answer'[r] # None
    BY <1>0, <1>8, <2>1, AnswersDiffer DEF ReplyLost, Goto
  <2>3. QED
    BY <2>1, <2>2, ProductOfOne DEF Stages
<1>9. QED
  BY <1>1, <1>2, <1>3, <1>4, <1>5, <1>6, <1>7, <1>8 DEF Next, Step

--------------------------------------------------------------------------------
(* The refinement of SingleFlight, step by step.                                  *)

Holding == {r \in Requests : Claimant(r)}
Sharing == {inbox[r] : r \in Requests} \ {None, Error}

AbstractStep == [Abstract!Next]_(Abstract!vars)

(* A request that moves between stages on the same side of the claim.            *)
LEMMA HoldingStays ==
  ASSUME TypeOK, NEW r \in Requests, NEW to \in Stages, pc' = [pc EXCEPT ![r] = to],
         Claimant(r) <=> to \in Claiming
  PROVE  Holding' = Holding
<1>1. pc \in [Requests -> Stages]
  BY DEF TypeOK, Stages
<1>2. \A q \in Requests : Claimant(q)' <=> Claimant(q)
  BY <1>1 DEF Claimant, Claiming
<1>3. QED
  BY <1>2 DEF Holding

(* One that takes the claim, and one that ends.                                  *)
LEMMA HoldingChanges ==
  ASSUME TypeOK, NEW r \in Requests
  PROVE  /\ Claim(r) => Holding' = Holding \cup {r}
         /\ pc' = [pc EXCEPT ![r] = "done"] => Holding' = Holding \ {r}
<1>1. pc \in [Requests -> Stages]
  BY DEF TypeOK, Stages
<1>2. ASSUME Claim(r) PROVE Holding' = Holding \cup {r}
  <2>1. Claimant(r)' /\ \A q \in Requests \ {r} : Claimant(q)' <=> Claimant(q)
    BY <1>1, <1>2 DEF Claim, Goto, Claimant
  <2>2. QED
    BY <2>1 DEF Holding
<1>3. ASSUME pc' = [pc EXCEPT ![r] = "done"] PROVE Holding' = Holding \ {r}
  <2>1. ~Claimant(r)' /\ \A q \in Requests \ {r} : Claimant(q)' <=> Claimant(q)
    BY <1>1, <1>3 DEF Claimant
  <2>2. QED
    BY <2>1 DEF Holding
<1>4. QED
  BY <1>2, <1>3

(* A published message is shared if somebody listens; no message is forgotten.   *)
LEMMA DeliverShares ==
  ASSUME TypeOK, NEW m, Deliver(m)
  PROVE  /\ m = Error => Sharing' = Sharing
         /\ Sharing' \in {Sharing, Sharing \cup {m}} \/ m = Error \/ m = None
<1>1. \A w \in Requests : inbox'[w] = inbox[w] \/ (inbox[w] = None /\ inbox'[w] = m)
  BY DEF Deliver
<1>2. Sharing \subseteq Sharing' /\ Sharing' \subseteq Sharing \cup {m}
  BY <1>1 DEF Sharing
<1>3. m = Error => m \notin Sharing'
  BY DEF Sharing
<1>4. QED
  BY <1>2, <1>3

(* A step that changes none of what SingleFlight sees is a stutter.              *)
LEMMA Stutters ==
  ASSUME Holding' = Holding, Sharing' = Sharing, made' = made, answer' = answer
  PROVE  AbstractStep
  BY DEF AbstractStep, Abstract!vars, Holding, Sharing

(* SET NX that succeeds takes the claim: nobody holds it if claimants are done    *)
(* within the TTL.                                                                *)
LEMMA ClaimTakes ==
  ASSUME TypeOK, ClaimInv, ProductInv, NEW r \in Requests, Claim(r)
  PROVE  Abstract!Take(r)
<1>1. made[r] = NoResult /\ answer[r] = None
  BY DEF Claim, Goto, ProductInv
<1>2. MaxHold < LockTTL => Holding = {}
  BY ClaimFindsNobody DEF Holding
<1>3. Holding' = Holding \cup {r}
  BY HoldingChanges
<1>4. Sharing' = Sharing
  BY DEF Claim, Sharing
<1>5. QED
  BY <1>1, <1>2, <1>3, <1>4
     DEF Claim, Abstract!Take, Abstract!Open, Abstract!Idle, Abstract!None, None,
         Abstract!NoResult, NoResult, Holding, Sharing

(* The producer of a claimant runs once.                                          *)
LEMMA ReturnMakes ==
  ASSUME TypeOK, ProductInv, NEW r \in Requests, ProducerReturns(r)
  PROVE  Abstract!Make(r)
<1>1. made[r] = NoResult /\ answer[r] = None /\ r \in Holding
  BY DEF ProducerReturns, Goto, ProductInv, Claimant, Holding
<1>2. Holding' = Holding
  BY HoldingStays DEF ProducerReturns, Goto, Claimant, Claiming, Stages
<1>3. Sharing' = Sharing
  BY DEF ProducerReturns, Sharing
<1>4. QED
  BY <1>1, <1>2, <1>3
     DEF ProducerReturns, Abstract!Make, Abstract!Open, Abstract!Idle, Abstract!Produce,
         Abstract!None, None, Abstract!NoResult, NoResult, Holding, Sharing

(* PUBLISH shares the claimant's product while the claim is held.                 *)
LEMMA PublishShares ==
  ASSUME TypeOK, ProductInv, NEW r \in Requests, Publish(r)
  PROVE  Abstract!Share(r)
<1>1. answer[r] = None /\ r \in Holding
  BY DEF Publish, Goto, ProductInv, Claimant, Holding
<1>2. made[r] \in Results \ {"object"}
  BY DEF Publish, Goto, ProductInv
<1>3. made[r] # NoResult
  BY <1>2, ResultsAssumption DEF NoResult, ResultKinds
<1>4. Holding' = Holding
  BY HoldingStays DEF Publish, Goto, Claimant, Claiming, Stages
<1>5. Sharing' \in {Sharing, Sharing \cup {<<r, made[r]>>}}
  BY DeliverShares, AnswersDiffer DEF Publish
<1>6. QED
  BY <1>1, <1>2, <1>3, <1>4, <1>5
     DEF Publish, Abstract!Share, Abstract!Open, Abstract!Idle, Abstract!Answer,
         Abstract!None, None, Abstract!NoResult, NoResult, Holding, Sharing

(* So does one whose reply is lost, although it answers with something else.       *)
LEMMA ReplyLostShares ==
  ASSUME TypeOK, ProductInv, NEW r \in Requests, ReplyLost(r)
  PROVE  Abstract!Share(r)
<1>1. answer[r] = None /\ r \in Holding
  BY DEF ReplyLost, Goto, ProductInv, Claimant, Holding
<1>2. made[r] \in Results \ {"object"}
  BY DEF ReplyLost, Goto, ProductInv
<1>3. made[r] # NoResult
  BY <1>2, ResultsAssumption DEF NoResult, ResultKinds
<1>4. Holding' = Holding
  BY HoldingStays DEF ReplyLost, Goto, Claimant, Claiming, Stages
<1>5. Sharing' \in {Sharing, Sharing \cup {<<r, made[r]>>}}
  BY DeliverShares, AnswersDiffer DEF ReplyLost
<1>6. QED
  BY <1>1, <1>2, <1>3, <1>4, <1>5
     DEF ReplyLost, Abstract!Share, Abstract!Open, Abstract!Idle, Abstract!Answer,
         Abstract!None, None, Abstract!Lost, Lost, Abstract!NoResult, NoResult, Holding,
         Sharing

(* Who answers with an error, of its own producer or of the one it waited for,    *)
(* had not answered yet.                                                           *)
LEMMA ErrorFails ==
  ASSUME NEW r \in Requests, answer[r] = None, answer' = [answer EXCEPT ![r] = Error],
         Holding' = Holding, Sharing' = Sharing, made' = made
  PROVE  Abstract!Fail(r)
  BY DEF Abstract!Fail, Abstract!Open, Abstract!Answer, Abstract!None, None,
         Abstract!Error, Error, Holding, Sharing

(* A claimant that could not publish, or whose producer raised.                   *)
LEMMA SentinelFails ==
  ASSUME TypeOK, ProductInv, NEW r \in Requests, PublishSentinel(r)
  PROVE  Abstract!Fail(r)
<1>1. answer[r] = None
  BY DEF PublishSentinel, Goto, ProductInv
<1>2. Holding' = Holding
  BY HoldingStays DEF PublishSentinel, Goto, Claimant, Claiming, Stages
<1>3. Sharing' = Sharing
  BY DeliverShares DEF PublishSentinel
<1>4. QED
  BY <1>1, <1>2, <1>3, ErrorFails DEF PublishSentinel

(* A request that ends without a claim: holders and products stay as they are.    *)
LEMMA LeavesUnclaimed ==
  ASSUME TypeOK, NEW r \in Requests, ~Claimant(r), pc' = [pc EXCEPT ![r] = "done"],
         inbox' = inbox
  PROVE  Holding' = Holding /\ Sharing' = Sharing
<1>1. Holding' = Holding
  BY HoldingStays DEF Claiming, Stages
<1>2. QED
  BY <1>1 DEF Sharing

(* A waiter is told of a failure, or its own producer raises.                     *)
LEMMA WaiterFails ==
  ASSUME TypeOK, ProductInv, NEW r \in Requests, ReceiveSentinel(r) \/ DirectRaises(r)
  PROVE  Abstract!Fail(r)
<1>1. answer[r] = None /\ ~Claimant(r)
  BY DEF ReceiveSentinel, DirectRaises, Goto, ProductInv, Claimant
<1>2. QED
  BY <1>1, LeavesUnclaimed, ErrorFails DEF ReceiveSentinel, DirectRaises, Goto, Ends

(* The DEL gives the claim up, after an answer.                                   *)
LEMMA UnlockReleases ==
  ASSUME TypeOK, ProductInv, NEW r \in Requests, Unlock(r)
  PROVE  Abstract!Release(r)
<1>1. answer[r] # None /\ r \in Holding
  BY DEF Unlock, Goto, ProductInv, Claimant, Holding
<1>2. Holding' = Holding \ {r}
  BY HoldingChanges DEF Unlock, Goto
<1>3. Sharing' = Sharing
  BY DEF Unlock, Sharing
<1>4. QED
  BY <1>1, <1>2, <1>3
     DEF Unlock, Abstract!Release, Abstract!Open, Abstract!None, None, Holding, Sharing

(* A waiter's answer was shared, and it holds no claim.                           *)
LEMMA WaiterReceives ==
  ASSUME TypeOK, ProductInv, NEW r \in Requests, ReceiveAnswer(r)
  PROVE  Abstract!Receive(r)
<1>1. answer[r] = None /\ ~Claimant(r)
  BY DEF ReceiveAnswer, Goto, ProductInv, Claimant
<1>2. inbox[r] \in Sharing
  BY DEF ReceiveAnswer, Sharing
<1>3. Holding' = Holding /\ Sharing' = Sharing
  BY <1>1, LeavesUnclaimed DEF ReceiveAnswer, Goto
<1>4. r \notin Holding
  BY <1>1 DEF Holding
<1>5. QED
  BY <1>1, <1>2, <1>3, <1>4
     DEF ReceiveAnswer, Ends, Decoded, Abstract!Receive, Abstract!Open, Abstract!Answer,
         Abstract!None, None, Holding, Sharing

(* Who gave up waiting answers with its own product, and shares it with nobody.   *)
LEMMA DirectIsAlone ==
  ASSUME TypeOK, ProductInv, NEW r \in Requests, DirectReturns(r)
  PROVE  Abstract!Alone(r)
<1>1. answer[r] = None /\ made[r] = NoResult /\ ~Claimant(r)
  BY DEF DirectReturns, Goto, ProductInv, Claimant
<1>2. Holding' = Holding /\ Sharing' = Sharing
  BY <1>1, LeavesUnclaimed DEF DirectReturns, Goto
<1>3. r \notin Holding
  BY <1>1 DEF Holding
<1>4. QED
  BY <1>1, <1>2, <1>3
     DEF DirectReturns, Ends, Abstract!Alone, Abstract!Open, Abstract!Idle, Abstract!Answer,
         Abstract!Produce, Abstract!None, None, Abstract!NoResult, NoResult, Holding, Sharing

(* Cancelled, dead or cut off: an answer not yet returned is lost, and the claim  *)
(* may be.                                                                         *)
LEMMA EndLoses ==
  ASSUME TypeOK, ProductInv, NEW r \in Requests, pc[r] # "done", NEW to \in {"unlock", "done"},
         pc' = [pc EXCEPT ![r] = to], to = "unlock" => Claimant(r),
         UNCHANGED <<inbox, made>>, NEW a \in {Lost, Broken},
         answer' = [answer EXCEPT ![r] = a]
  PROVE  Abstract!Lose(r)
<1>1. answer[r] = None \/ r \in Holding
  BY DEF ProductInv, Holding, Claimant
<1>2. Holding' \in {Holding, Holding \ {r}}
  BY HoldingChanges, HoldingStays DEF Claiming, Stages
<1>3. Sharing' = Sharing
  BY DEF Sharing
<1>4. QED
  BY <1>1, <1>2, <1>3
     DEF Abstract!Lose, Abstract!Open, Abstract!Answer, Abstract!None, None, Abstract!Lost,
         Lost, Abstract!Broken, Broken, Holding, Sharing

(* So is one whose sentinel or DEL was executed without its knowing.              *)
LEMMA EndReplyLoses ==
  ASSUME TypeOK, ProductInv, NEW r \in Requests, SentinelReplyLost(r) \/ UnlockReplyLost(r)
  PROVE  Abstract!Lose(r)
<1>1. r \in Holding /\ made' = made
  BY DEF SentinelReplyLost, UnlockReplyLost, Goto, Holding, Claimant
<1>2. Sharing' = Sharing
  BY DeliverShares DEF SentinelReplyLost, UnlockReplyLost, Sharing
<1>3. Holding' \in {Holding, Holding \ {r}}
  BY HoldingChanges, HoldingStays
     DEF SentinelReplyLost, UnlockReplyLost, Goto, Claimant, Claiming, Stages
<1>4. PICK a \in {Lost, Broken} : answer' = [answer EXCEPT ![r] = a]
  BY DEF SentinelReplyLost, UnlockReplyLost, Ends
<1>5. QED
  BY <1>1, <1>2, <1>3, <1>4
     DEF Abstract!Lose, Abstract!Answer, Abstract!Lost, Lost, Abstract!Broken, Broken,
         Holding, Sharing

(* Every step is one of SingleFlight's, or changes nothing it sees.               *)
LEMMA CoalescerStep ==
  ASSUME TypeOK, ClaimInv, ProductInv, [Next]_vars
  PROVE  AbstractStep
<1>0. ASSUME NEW r \in Requests,
             \/ Abstract!Take(r) \/ Abstract!Make(r) \/ Abstract!Share(r)
             \/ Abstract!Receive(r) \/ Abstract!Alone(r) \/ Abstract!Fail(r)
             \/ Abstract!Release(r) \/ Abstract!Lose(r)
      PROVE  AbstractStep
  BY <1>0 DEF AbstractStep, Abstract!Next
<1>1. ASSUME NEW r \in Requests,
             \/ Refused(r) \/ BeginProducing(r) \/ ProducerRaises(r)
             \/ Subscribe(r) \/ GiveUpWaiting(r)
      PROVE  AbstractStep
  <2>1. Holding' = Holding
    BY <1>1, HoldingStays
       DEF Refused, BeginProducing, ProducerRaises, Subscribe, GiveUpWaiting, Goto,
           Claimant, Claiming, Stages
  <2>2. Sharing' = Sharing /\ made' = made /\ answer' = answer
    BY <1>1
       DEF Refused, BeginProducing, ProducerRaises, Subscribe, GiveUpWaiting, Sharing
  <2>3. QED
    BY <2>1, <2>2, Stutters
<1>2. ASSUME NEW r \in Requests, Step(r) PROVE AbstractStep
  BY <1>0, <1>1, <1>2, ClaimTakes, ReturnMakes, PublishShares, SentinelFails,
     UnlockReleases, WaiterReceives, WaiterFails, DirectIsAlone DEF Step
<1>3. ASSUME NEW r \in Requests, Cancel(r) PROVE AbstractStep
  <2>1. PICK to \in {"unlock", "done"} :
           /\ pc' = [pc EXCEPT ![r] = to]
           /\ pc[r] # "done"
           /\ to = "unlock" => Claimant(r)
    BY <1>3 DEF Cancel, Goto, Claimant
  <2>2. Abstract!Lose(r)
    BY <1>3, <2>1, EndLoses DEF Cancel
  <2>3. QED
    BY <1>0, <2>2
<1>4. ASSUME NEW r \in Requests, Crash(r) PROVE AbstractStep
  <2>1. Abstract!Lose(r)
    BY <1>4, EndLoses DEF Crash, Goto, Ends
  <2>2. QED
    BY <1>0, <2>1
<1>5. ASSUME NEW r \in Requests, RedisError(r) PROVE AbstractStep
  <2>1. CASE Goto(r, "publish", "sentinel") /\ UNCHANGED <<clock, answer>>
    <3>1. Holding' = Holding
      BY <2>1, HoldingStays DEF Goto, Claimant, Claiming, Stages
    <3>2. QED
      BY <1>5, <2>1, <3>1, Stutters DEF RedisError, Sharing
  <2>2. CASE Goto(r, "sentinel", "unlock") /\ answer' = [answer EXCEPT ![r] = Error]
    <3>1. Holding' = Holding /\ answer[r] = None
      BY <2>2, HoldingStays DEF Goto, Claimant, Claiming, Stages, ProductInv
    <3>2. Sharing' = Sharing /\ made' = made
      BY <1>5 DEF RedisError, Sharing
    <3>3. QED
      BY <1>0, <2>2, <3>1, <3>2, ErrorFails
  <2>3. CASE \E from \in {"start", "claimed", "unlock", "refused", "wait"} :
               Goto(r, from, "done") /\ Ends(r, Broken)
    <3>1. Abstract!Lose(r)
      BY <1>5, <2>3, EndLoses DEF RedisError, Goto, Ends
    <3>2. QED
      BY <1>0, <3>1
  <2>4. QED
    BY <1>5, <2>1, <2>2, <2>3 DEF RedisError
<1>6. CASE Tick \/ UNCHANGED vars
  <2>1. pc' = pc /\ inbox' = inbox /\ made' = made /\ answer' = answer
    BY <1>6 DEF Tick, vars
  <2>2. QED
    BY <2>1, Stutters DEF Holding, Sharing, Claimant
<1>7. ASSUME NEW r \in Requests, ReplyLost(r) PROVE AbstractStep
  BY <1>0, <1>7, ReplyLostShares
<1>8. ASSUME NEW r \in Requests, SentinelReplyLost(r) \/ UnlockReplyLost(r) PROVE AbstractStep
  BY <1>0, <1>8, EndReplyLoses
<1>9. QED
  BY <1>2, <1>3, <1>4, <1>5, <1>6, <1>7, <1>8 DEF Next

(* Nobody holds a claim, and nothing has been shared.                              *)
LEMMA CoalescerStarts == Init => Abstract!Init
  BY DEF Init, Abstract!Init, Claimant, None, Abstract!None, NoResult, Abstract!NoResult

(* Whatever Redis loses, forgets or answers too late, and however requests are    *)
(* cancelled or die: everybody's answer is its own product, an error, nothing, or *)
(* a product shared by one that held the claim, and each producer runs once.      *)
THEOREM CoalescerImplementsSingleFlight == Spec => ImplementsSingleFlight
<1>1. CoalescerInv => TypeOK /\ ClaimInv
  BY DEF CoalescerInv, ClaimInv
<1>2. CoalescerInv /\ ProductInv /\ [Next]_vars => ProductInv'
  BY <1>1, ProductStep
<1>3. CoalescerInv /\ ProductInv /\ [Next]_vars => AbstractStep
  BY <1>1, CoalescerStep
<1>4. QED
  BY <1>2, <1>3, ProductInit, CoalescerStarts, CoalescerInvariant, PTL
     DEF Spec, ImplementsSingleFlight, Abstract!Spec, AbstractStep

--------------------------------------------------------------------------------
(* What Server takes from this module. Its producers return a BackendResult,      *)
(* which json.dumps refuses: then a claimant never answers with a product, and    *)
(* nobody is ever answered with another's.                                        *)

NothingIsShared ==
  \A r \in Requests :
    /\ inbox[r] \in {None, Error}
    /\ pc[r] # "publish"
    /\ Claimant(r) => answer[r] \in {None, Error, Lost}
    /\ answer[r] \in {None, Error, Lost, Broken} \cup {<<r, k>> : k \in Results}

(* A step of one request is about that request, and the messages it sends.        *)
LEMMA SharesNothing ==
  ASSUME TypeOK, NothingIsShared, NEW r \in Requests, NEW to \in Stages \ {"publish"},
         pc' = [pc EXCEPT ![r] = to],
         \A q \in Requests : inbox'[q] \in {inbox[q], Error},
         \A q \in Requests \ {r} : answer'[q] = answer[q],
         to \in Claiming => answer'[r] \in {None, Error, Lost},
         answer'[r] \in {None, Error, Lost, Broken} \cup {<<r, k>> : k \in Results}
  PROVE  NothingIsShared'
<1>1. pc \in [Requests -> Stages]
  BY DEF TypeOK, Stages
<1>2. pc'[r] = to /\ \A q \in Requests \ {r} : pc'[q] = pc[q]
  BY <1>1
<1>3. QED
  BY <1>2 DEF NothingIsShared, Claimant, Claiming

(* Without a product that can be sent, every step keeps it so.                    *)
LEMMA NothingIsSharedStep ==
  ASSUME Results = {"object"}, TypeOK, ProductInv, NothingIsShared, [Next]_vars
  PROVE  NothingIsShared'
<1>0. pc \in [Requests -> Stages] /\ answer \in [Requests -> Answers]
  BY DEF TypeOK, Stages
<1>1. ASSUME NEW r \in Requests,
             \/ Claim(r) \/ Refused(r) \/ BeginProducing(r) \/ ProducerRaises(r)
             \/ Subscribe(r) \/ GiveUpWaiting(r)
      PROVE  NothingIsShared'
  <2>1. \E to \in Stages \ {"publish"} : pc' = [pc EXCEPT ![r] = to]
    BY <1>1 DEF Claim, Refused, BeginProducing, ProducerRaises, Subscribe, GiveUpWaiting,
       Goto, Stages
  <2>2. answer[r] = None /\ answer' = answer /\ inbox' = inbox
    BY <1>1 DEF Claim, Refused, BeginProducing, ProducerRaises, Subscribe, GiveUpWaiting,
       Goto, ProductInv
  <2>3. QED
    BY <2>1, <2>2, SharesNothing
<1>2. ASSUME NEW r \in Requests, ProducerReturns(r) PROVE NothingIsShared'
  <2>1. pc' = [pc EXCEPT ![r] = "sentinel"]
    BY <1>2 DEF ProducerReturns, Goto
  <2>2. answer[r] = None /\ answer' = answer /\ inbox' = inbox
    BY <1>2 DEF ProducerReturns, Goto, ProductInv
  <2>3. QED
    BY <2>1, <2>2, SharesNothing DEF Stages
<1>3. ASSUME NEW r \in Requests, Publish(r) \/ ReplyLost(r) PROVE NothingIsShared'
  BY <1>3 DEF Publish, ReplyLost, Goto, NothingIsShared
<1>4. ASSUME NEW r \in Requests, PublishSentinel(r) \/ SentinelReplyLost(r)
      PROVE  NothingIsShared'
  <2>1. \A q \in Requests : inbox'[q] \in {inbox[q], Error}
    BY <1>4 DEF PublishSentinel, SentinelReplyLost, Deliver
  <2>2. answer'[r] \in {Error, Lost} /\ \A q \in Requests \ {r} : answer'[q] = answer[q]
    BY <1>0, <1>4 DEF PublishSentinel, SentinelReplyLost
  <2>3. QED
    BY <1>4, <2>1, <2>2, SharesNothing DEF PublishSentinel, SentinelReplyLost, Goto, Stages
<1>5. ASSUME NEW r \in Requests,
             Unlock(r) \/ UnlockReplyLost(r) \/ RedisError(r) \/ Crash(r) \/ Cancel(r)
      PROVE  NothingIsShared'
  <2>1. /\ inbox' = inbox
        /\ \A q \in Requests \ {r} : answer'[q] = answer[q]
        /\ answer'[r] \in {answer[r], Error, Lost, Broken}
    BY <1>0, <1>5 DEF Unlock, UnlockReplyLost, RedisError, Crash, Cancel, Ends
  <2>2. PICK to \in Stages \ {"publish"} :
           /\ pc' = [pc EXCEPT ![r] = to]
           /\ to \in Claiming => Claimant(r) /\ answer'[r] \in {answer[r], Error, Lost}
    BY <1>0, <1>5 DEF Unlock, UnlockReplyLost, RedisError, Crash, Cancel, Ends, Goto, Stages,
       Claiming, Claimant
  <2>3. answer[r] \in {None, Error, Lost, Broken} \cup {<<r, k>> : k \in Results}
    BY DEF NothingIsShared
  <2>4. Claimant(r) => answer[r] \in {None, Error, Lost}
    BY DEF NothingIsShared
  <2>5. answer'[r] \in {None, Error, Lost, Broken} \cup {<<r, k>> : k \in Results}
    BY <2>1, <2>3
  <2>6. QED
    BY <2>1, <2>2, <2>4, <2>5, SharesNothing
<1>6. ASSUME NEW r \in Requests, ReceiveAnswer(r) PROVE NothingIsShared'
  BY <1>6 DEF ReceiveAnswer, NothingIsShared
<1>7. ASSUME NEW r \in Requests, ReceiveSentinel(r) \/ DirectRaises(r) \/ DirectReturns(r)
      PROVE  NothingIsShared'
  <2>1. /\ inbox' = inbox /\ pc' = [pc EXCEPT ![r] = "done"]
        /\ \A q \in Requests \ {r} : answer'[q] = answer[q]
        /\ answer'[r] \in {Error} \cup {<<r, k>> : k \in Results}
    BY <1>0, <1>7 DEF ReceiveSentinel, DirectRaises, DirectReturns, Ends, Goto
  <2>2. QED
    BY <2>1, SharesNothing DEF Stages, Claiming
<1>8. CASE Tick \/ UNCHANGED vars
  BY <1>8 DEF Tick, vars, NothingIsShared, Claimant
<1>9. QED
  BY <1>1, <1>2, <1>3, <1>4, <1>5, <1>6, <1>7, <1>8 DEF Next, Step

(* Producers that return an object leave the coalescer with nothing to share: a    *)
(* claimant's call returns no product, and any other's answer is what it produced  *)
(* itself. So a request of Server fails, or produces without the claim.            *)
THEOREM ObjectsAreNotShared ==
  ASSUME Results = {"object"}
  PROVE  Spec => []NothingIsShared
<1>1. Init => NothingIsShared
  BY DEF Init, NothingIsShared
<1>2. CoalescerInv /\ ProductInv /\ [Next]_vars => ProductInv'
  BY ProductStep DEF CoalescerInv
<1>3. CoalescerInv /\ ProductInv /\ NothingIsShared /\ [Next]_vars => NothingIsShared'
  BY NothingIsSharedStep DEF CoalescerInv
<1>4. QED
  BY <1>1, <1>2, <1>3, ProductInit, CoalescerInvariant, PTL DEF Spec

--------------------------------------------------------------------------------
(* Line 78 of coalescer.py promises that coalesce returns what its producer        *)
(* returned. Who breaks it: the server's producers return objects, and a request   *)
(* that produces without the claim gets its own all the same.                      *)

(* A product on the way to the sentinel is one that could not be serialised, or     *)
(* was refused by Redis.                                                           *)
UnsentInv ==
  \A r \in Requests :
    pc[r] = "sentinel" => made[r] \in {NoResult, "object"} \/ "redis" \in Faults

LEMMA UnsentInvStep ==
  ASSUME TypeOK, ProductInv, UnsentInv, [Next]_vars
  PROVE  UnsentInv'
<1>0. pc \in [Requests -> Stages] /\ made \in [Requests -> {NoResult} \cup Results]
  BY DEF TypeOK, Stages
<1>1. ASSUME NEW r \in Requests, NEW to \in Stages \ {"sentinel"},
             pc' = [pc EXCEPT ![r] = to], \A q \in Requests \ {r} : made'[q] = made[q]
      PROVE  UnsentInv'
  BY <1>0, <1>1 DEF UnsentInv
<1>2. ASSUME NEW r \in Requests,
             \/ Claim(r) \/ Refused(r) \/ BeginProducing(r) \/ Publish(r) \/ PublishSentinel(r)
             \/ Unlock(r) \/ Subscribe(r) \/ ReceiveAnswer(r) \/ ReceiveSentinel(r)
             \/ GiveUpWaiting(r) \/ DirectRaises(r) \/ Crash(r)
             \/ SentinelReplyLost(r) \/ UnlockReplyLost(r)
      PROVE  UnsentInv'
  BY <1>1, <1>2
     DEF SentinelReplyLost, UnlockReplyLost, Claim, Refused, BeginProducing, Publish, PublishSentinel, Unlock, Subscribe,
         ReceiveAnswer, ReceiveSentinel, GiveUpWaiting, DirectRaises, Crash, Goto, Stages
<1>3. ASSUME NEW r \in Requests, Cancel(r) PROVE UnsentInv'
  BY <1>1, <1>3 DEF Cancel, Goto, Stages
<1>4. ASSUME NEW r \in Requests, DirectReturns(r) PROVE UnsentInv'
  <2>1. pc' = [pc EXCEPT ![r] = "done"] /\ \A q \in Requests \ {r} : made'[q] = made[q]
    BY <1>0, <1>4 DEF DirectReturns, Goto
  <2>2. QED
    BY <1>1, <2>1 DEF Stages
<1>5. ASSUME NEW r \in Requests, ProducerReturns(r) PROVE UnsentInv'
  <2>1. PICK k \in Results : /\ Goto(r, "produce", IF k = "object" THEN "sentinel" ELSE "publish")
                             /\ made' = [made EXCEPT ![r] = k]
    BY <1>5 DEF ProducerReturns
  <2>2. made'[r] = k /\ \A q \in Requests \ {r} : made'[q] = made[q] /\ pc'[q] = pc[q]
    BY <1>0, <2>1 DEF Goto
  <2>3. pc'[r] = "sentinel" => k = "object"
    BY <1>0, <2>1 DEF Goto
  <2>4. QED
    BY <2>2, <2>3 DEF UnsentInv
<1>6. ASSUME NEW r \in Requests, ProducerRaises(r) PROVE UnsentInv'
  <2>1. made[r] = NoResult /\ made' = made /\ \A q \in Requests \ {r} : pc'[q] = pc[q]
    BY <1>0, <1>6 DEF ProducerRaises, Goto, ProductInv
  <2>2. QED
    BY <2>1 DEF UnsentInv
<1>7. ASSUME NEW r \in Requests, RedisError(r) \/ ReplyLost(r) PROVE UnsentInv'
  <2>1. CASE "redis" \in Faults
    BY <2>1 DEF UnsentInv
  <2>2. CASE "redis" \notin Faults
    <3>1. pc' = [pc EXCEPT ![r] = "unlock"] /\ made' = made
      BY <1>7, <2>2 DEF RedisError, ReplyLost, Goto
    <3>2. QED
      BY <1>1, <3>1 DEF Stages
  <2>3. QED
    BY <2>1, <2>2
<1>8. CASE Tick \/ UNCHANGED vars
  BY <1>8 DEF Tick, vars, UnsentInv
<1>9. QED
  BY <1>2, <1>3, <1>4, <1>5, <1>6, <1>7, <1>8 DEF Next, Step

(* A request that has produced is told of an error.                                *)
LosesProduct(r) == answer[r] # Error /\ answer'[r] = Error /\ made[r] # NoResult

(* Only a claimant loses its product, and only one json.dumps refuses or Redis     *)
(* does not take: whatever the producers return, objects included, no order of     *)
(* requests, cancellation or death breaks the promise for anybody else.            *)
THEOREM OnlyClaimantsLoseProducts ==
  Spec => [][\A r \in Requests :
               LosesProduct(r) => Claimant(r) /\ (made[r] = "object" \/ "redis" \in Faults)]_vars
<1>1. Init => UnsentInv
  BY DEF Init, UnsentInv
<1>2. CoalescerInv /\ ProductInv /\ [Next]_vars => ProductInv'
  BY ProductStep DEF CoalescerInv
<1>3. CoalescerInv /\ ProductInv /\ UnsentInv /\ [Next]_vars => UnsentInv'
  BY UnsentInvStep DEF CoalescerInv
<1>4. ASSUME CoalescerInv, ProductInv, UnsentInv, [Next]_vars, NEW r \in Requests, LosesProduct(r)
      PROVE  Claimant(r) /\ (made[r] = "object" \/ "redis" \in Faults)
  <2>0. /\ answer \in [Requests -> Answers] /\ Lost # Error /\ Broken # Error
        /\ \A a, b : <<a, b>> # Error
    BY <1>4, AnswersDiffer DEF CoalescerInv, TypeOK, Lost, Broken, Error
  <2>1. pc[r] = "sentinel" \/ pc[r] \in {"wait", "direct"}
    <3>1. ASSUME NEW q \in Requests, answer' = [answer EXCEPT ![q] = Error] PROVE q = r
      BY <1>4, <2>0, <3>1 DEF LosesProduct
    <3>2. ASSUME NEW q \in Requests, NEW a, answer' = [answer EXCEPT ![q] = a] PROVE a = Error /\ q = r
      BY <1>4, <2>0, <3>2 DEF LosesProduct
    <3>3. answer' # answer
      BY <1>4 DEF LosesProduct
    <3>4. PICK q \in Requests : \/ Step(q) \/ Cancel(q) \/ Crash(q) \/ RedisError(q)
                               \/ ReplyLost(q) \/ SentinelReplyLost(q)
                               \/ UnlockReplyLost(q)
      BY <1>4, <3>3 DEF Next, Tick, vars
    <3>5. CASE PublishSentinel(q) \/ ReceiveSentinel(q) \/ DirectRaises(q)
      BY <3>1, <3>5 DEF PublishSentinel, ReceiveSentinel, DirectRaises, Ends, Goto
    <3>6. CASE RedisError(q)
      BY <2>0, <3>1, <3>2, <3>3, <3>6 DEF RedisError, Ends, Goto
    <3>7. CASE \/ Publish(q) \/ Cancel(q) \/ Crash(q) \/ DirectReturns(q)
               \/ ReplyLost(q) \/ SentinelReplyLost(q) \/ UnlockReplyLost(q)
      BY <2>0, <3>2, <3>3, <3>7 DEF Publish, Cancel, Crash, DirectReturns, ReplyLost,
         SentinelReplyLost, UnlockReplyLost, Ends
    <3>8. CASE ReceiveAnswer(q)
      <4>1. Decoded(inbox[q]) # Error
        BY <1>4, <2>0, <3>8 DEF ReceiveAnswer, Decoded, CoalescerInv, TypeOK
      <4>2. QED
        BY <3>2, <3>8, <4>1 DEF ReceiveAnswer, Ends
    <3>9. QED
      BY <3>3, <3>4, <3>5, <3>6, <3>7, <3>8
         DEF Step, Claim, Refused, BeginProducing, ProducerReturns, ProducerRaises, Unlock,
             Subscribe, GiveUpWaiting
  <2>2. pc[r] = "sentinel"
    BY <1>4, <2>1 DEF LosesProduct, ProductInv
  <2>3. QED
    BY <1>4, <2>2 DEF LosesProduct, UnsentInv, Claimant
<1>5. CoalescerInv /\ ProductInv /\ UnsentInv /\ [Next]_vars
        => [\A r \in Requests :
              LosesProduct(r) => Claimant(r) /\ (made[r] = "object" \/ "redis" \in Faults)]_vars
  BY <1>4
<1>6. QED
  BY <1>1, <1>2, <1>3, <1>5, ProductInit, CoalescerInvariant, PTL DEF Spec

--------------------------------------------------------------------------------
(* Why the comment that all others receive the result fails: only for those that   *)
(* subscribe after it was published.                                              *)

InTime(w) == Subscribe(w) => \E r \in Requests : Claimant(r) /\ pc[r] # "unlock"

(* No claimant stops producing without a message to everybody who waits.           *)
LEMMA WaitersStep ==
  ASSUME Faults = {}, TypeOK, WaitersHaveAProducer, [Next]_vars,
         \A w \in Requests : InTime(w)
  PROVE  WaitersHaveAProducer'
<1> DEFINE Producing(r) == Claimant(r) /\ pc[r] # "unlock"
           Waiting(w) == pc[w] = "wait" /\ inbox[w] = None
<1>0. pc \in [Requests -> Stages] /\ \A w \in Requests : Waiting(w) => \E r \in Requests : Producing(r)
  BY DEF TypeOK, Stages, WaitersHaveAProducer
<1>1. ASSUME NEW r \in Requests, Publish(r) \/ PublishSentinel(r) PROVE WaitersHaveAProducer'
  <2>1. \A w \in Requests : pc'[w] = "wait" => pc[w] = "wait" /\ inbox'[w] # None
    BY <1>0, <1>1, AnswersDiffer DEF Publish, PublishSentinel, Goto, Deliver
  <2>2. QED
    BY <2>1 DEF WaitersHaveAProducer
<1>2. ASSUME NEW r \in Requests, NEW from, NEW to, Goto(r, from, to), inbox' = inbox,
             to # "wait", from \in {"claimed", "produce"} => to \in {"produce", "publish", "sentinel"},
             from \notin {"publish", "sentinel"}
      PROVE  WaitersHaveAProducer'
  <2>1. \A s \in Requests : Producing(s) => Producing(s)'
    BY <1>0, <1>2 DEF Goto, Claimant
  <2>2. \A w \in Requests : Waiting(w)' => Waiting(w)
    BY <1>0, <1>2 DEF Goto
  <2>3. QED
    BY <1>0, <2>1, <2>2 DEF WaitersHaveAProducer
<1>3. ASSUME NEW r \in Requests, Subscribe(r) PROVE WaitersHaveAProducer'
  <2>1. PICK s \in Requests : Producing(s)
    BY <1>3 DEF InTime
  <2>2. Producing(s)'
    BY <1>0, <1>3, <2>1 DEF Subscribe, Goto, Claimant
  <2>3. QED
    BY <2>2 DEF WaitersHaveAProducer
<1>4. ASSUME NEW r \in Requests,
             \/ Claim(r) \/ Refused(r) \/ BeginProducing(r) \/ ProducerRaises(r) \/ Unlock(r)
             \/ ReceiveAnswer(r) \/ ReceiveSentinel(r) \/ GiveUpWaiting(r) \/ DirectRaises(r)
      PROVE  WaitersHaveAProducer'
  <2> HIDE DEF Producing, Waiting
  <2>1. CASE Claim(r) \/ Refused(r) \/ BeginProducing(r) \/ ProducerRaises(r)
    BY <1>2, <2>1 DEF Claim, Refused, BeginProducing, ProducerRaises
  <2>2. CASE Unlock(r) \/ ReceiveAnswer(r) \/ ReceiveSentinel(r)
    BY <1>2, <2>2 DEF Unlock, ReceiveAnswer, ReceiveSentinel
  <2>3. CASE GiveUpWaiting(r) \/ DirectRaises(r)
    BY <1>2, <2>3 DEF GiveUpWaiting, DirectRaises
  <2>4. QED
    BY <1>4, <2>1, <2>2, <2>3
<1>5. ASSUME NEW r \in Requests, ProducerReturns(r) \/ DirectReturns(r)
      PROVE  WaitersHaveAProducer'
  BY <1>2, <1>5 DEF ProducerReturns, DirectReturns
<1>6. CASE Tick \/ UNCHANGED vars
  BY <1>6 DEF Tick, vars, WaitersHaveAProducer, Claimant
<1>7. ASSUME NEW r \in Requests
      PROVE  /\ ~Cancel(r) /\ ~Crash(r) /\ ~RedisError(r)
             /\ ~ReplyLost(r) /\ ~SentinelReplyLost(r) /\ ~UnlockReplyLost(r)
  BY DEF Cancel, Crash, RedisError, ReplyLost, SentinelReplyLost, UnlockReplyLost
<1>8. QED
  BY <1>1, <1>3, <1>4, <1>5, <1>6, <1>7 DEF Next, Step

(* If nothing fails and nobody subscribes late, whoever waits will be told: the    *)
(* gap between SET and SUBSCRIBE is all that is wrong with what lines 3-6 say.     *)
THEOREM TimelySubscribersAreServed ==
  ASSUME Faults = {}
  PROVE  Spec /\ [][\A w \in Requests : InTime(w)]_vars => []WaitersHaveAProducer
<1>1. Init => WaitersHaveAProducer
  BY DEF Init, WaitersHaveAProducer
<1>2. TypeOK /\ WaitersHaveAProducer /\ [Next]_vars /\ [\A w \in Requests : InTime(w)]_vars
        => WaitersHaveAProducer'
  <2>1. CASE UNCHANGED vars
    BY <2>1 DEF vars, WaitersHaveAProducer, Claimant
  <2>2. QED
    BY <2>1, WaitersStep
<1>3. QED
  BY <1>1, <1>2, CoalescerTypes, PTL DEF Spec

================================================================================
