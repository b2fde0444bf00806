---------------------------- MODULE VLLMBackendProofs ----------------------------
(* A silent backend is reported before the caller gives up, for any number of      *)
(* requests, retries and waits of an attempt, and any timeout, backoff, wait in    *)
(* the coalescer and deadline the budget fits in.                                  *)
EXTENDS VLLMBackend, TLAPS

--------------------------------------------------------------------------------
(* The budget of the loop, attempt by attempt.                                     *)

Steps(a) == (a * (a + 1)) \div 2

(* What can be gone of the deadline before attempt a: the wait in the coalescer, a *)
(* attempts, and the sleeps after them.                                            *)
Cost(a) == HeldUp + a * AttemptLimit + Backoff * Steps(a)

(* ... and what an attempt has cost before its wait w.                             *)
WaitCost(w) == (w - 1) * Timeout

LEMMA Constants ==
  /\ Waits \in Nat \ {0} /\ Timeout \in Nat \ {0} /\ AttemptLimit \in Nat
  /\ HeldUp \in Nat /\ Deadline \in Nat \ {0} /\ MaxRetries \in Nat /\ Backoff \in Nat
  BY TimeoutAssumption, RetryAssumption DEF AttemptLimit

(* Each wait costs a timeout, and all of them what an attempt may cost.            *)
LEMMA WaitCosts ==
  ASSUME NEW w \in 1..Waits
  PROVE  /\ WaitCost(w) \in Nat /\ WaitCost(w) + Timeout <= AttemptLimit
         /\ WaitCost(w + 1) = WaitCost(w) + Timeout
<1>1. Waits \in Nat /\ Timeout \in Nat /\ w \in Nat /\ 1 <= w /\ w <= Waits
  BY Constants
<1>2. WaitCost(w) \in Nat /\ WaitCost(w) + Timeout = w * Timeout
  BY <1>1 DEF WaitCost
<1>3. w * Timeout <= AttemptLimit
  BY <1>1 DEF AttemptLimit
<1>4. WaitCost(w + 1) = w * Timeout
  BY <1>1 DEF WaitCost
<1>5. QED
  BY <1>2, <1>3, <1>4

(* The sleeps up to one attempt more are as many steps longer.                     *)
LEMMA StepsGrow ==
  ASSUME NEW a \in Nat
  PROVE  Steps(a) \in Nat /\ Steps(a + 1) = Steps(a) + (a + 1)
<1> DEFINE p == a * (a + 1)
<1>1. p \in Nat
  OBVIOUS
<1>2. (a + 1) * (a + 2) = p + 2 * (a + 1)
  OBVIOUS
<1>3. (a + 1) + 1 = a + 2
  OBVIOUS
<1>4. Steps(a) = p \div 2 /\ Steps(a + 1) = (p + 2 * (a + 1)) \div 2
  BY <1>2, <1>3 DEF Steps
<1> HIDE DEF p
<1>5. p \div 2 \in Nat /\ (p + 2 * (a + 1)) \div 2 = p \div 2 + (a + 1)
  BY <1>1
<1>6. QED
  BY <1>4, <1>5

(* ... and there are no fewer of them before a later attempt.                      *)
LEMMA StepsOrdered ==
  ASSUME NEW a \in Nat, NEW b \in Nat, a <= b
  PROVE  Steps(a) <= Steps(b)
<1> DEFINE p == a * (a + 1)
           q == b * (b + 1)
<1>1. p \in Nat /\ q \in Nat
  OBVIOUS
<1>2. p <= q
  OBVIOUS
<1>3. Steps(a) = p \div 2 /\ Steps(b) = q \div 2
  BY DEF Steps
<1> HIDE DEF p, q
<1>4. p \div 2 <= q \div 2
  BY <1>1, <1>2
<1>5. QED
  BY <1>3, <1>4

(* One attempt more costs its waits and the sleep after it.                        *)
LEMMA CostGrows ==
  ASSUME NEW a \in Nat
  PROVE  /\ Cost(a) \in Nat /\ HeldUp <= Cost(a)
         /\ Cost(a + 1) = Cost(a) + AttemptLimit + Backoff * (a + 1)
<1>1. AttemptLimit \in Nat /\ Backoff \in Nat /\ HeldUp \in Nat
  BY Constants
<1>2. PICK s \in Nat : Steps(a) = s /\ Steps(a + 1) = s + (a + 1)
  BY StepsGrow
<1>3. Backoff * (s + (a + 1)) = Backoff * s + Backoff * (a + 1)
  BY <1>1
<1>4. (a + 1) * AttemptLimit = a * AttemptLimit + AttemptLimit
  BY <1>1
<1>5. a * AttemptLimit \in Nat /\ Backoff * s \in Nat /\ Backoff * (a + 1) \in Nat
  BY <1>1
<1>6. Cost(a) = HeldUp + a * AttemptLimit + Backoff * s
  BY <1>2 DEF Cost
<1>7. Cost(a + 1) = HeldUp + (a * AttemptLimit + AttemptLimit)
                    + (Backoff * s + Backoff * (a + 1))
  BY <1>2, <1>3, <1>4 DEF Cost
<1>8. QED
  BY <1>1, <1>5, <1>6, <1>7

(* A later attempt has cost no less.                                               *)
LEMMA CostOrdered ==
  ASSUME NEW a \in Nat, NEW b \in Nat, a <= b
  PROVE  Cost(a) <= Cost(b)
<1>1. AttemptLimit \in Nat /\ Backoff \in Nat /\ HeldUp \in Nat
  BY Constants
<1>2. PICK s \in Nat, t \in Nat : Steps(a) = s /\ Steps(b) = t /\ s <= t
  BY StepsGrow, StepsOrdered
<1>3. a * AttemptLimit <= b * AttemptLimit
  BY <1>1
<1>4. Backoff * s <= Backoff * t
  BY <1>1, <1>2
<1>5. a * AttemptLimit \in Nat /\ b * AttemptLimit \in Nat
      /\ Backoff * s \in Nat /\ Backoff * t \in Nat
  BY <1>1
<1>6. QED
  BY <1>1, <1>2, <1>3, <1>4, <1>5 DEF Cost

(* The budget is what the loop costs up to the last attempt, and that attempt.     *)
LEMMA BudgetIsCost == HeldUp + SilentBudget = Cost(MaxRetries) + AttemptLimit
<1>1. AttemptLimit \in Nat /\ Backoff \in Nat /\ MaxRetries \in Nat /\ HeldUp \in Nat
  BY Constants
<1>2. (MaxRetries + 1) * AttemptLimit = MaxRetries * AttemptLimit + AttemptLimit
  BY <1>1
<1>3. PICK s \in Nat : Steps(MaxRetries) = s
  BY <1>1, StepsGrow
<1>4. MaxRetries * AttemptLimit \in Nat /\ Backoff * s \in Nat
  BY <1>1
<1>5. QED
  BY <1>1, <1>2, <1>3, <1>4 DEF SilentBudget, Cost, Steps

(* A sleep is no longer than the longest.                                          *)
LEMMA SleepsAreBounded ==
  ASSUME NEW a \in Nat, a < MaxRetries
  PROVE  /\ Backoff * (a + 1) \in Nat
         /\ Backoff * (a + 1) <= LongestWait
<1>1. Backoff \in Nat /\ MaxRetries \in Nat /\ Timeout \in Nat
  BY RetryAssumption, TimeoutAssumption
<1>2. Backoff * (a + 1) <= Backoff * MaxRetries
  BY <1>1
<1>3. Backoff * (a + 1) \in Nat /\ Backoff * MaxRetries \in Nat
  BY <1>1
<1>4. QED
  BY <1>1, <1>2, <1>3 DEF LongestWait

LEMMA TimeoutIsBounded == LongestWait \in Nat /\ Timeout <= LongestWait
<1>1. Backoff \in Nat /\ MaxRetries \in Nat /\ Timeout \in Nat
  BY RetryAssumption, TimeoutAssumption
<1>2. Backoff * MaxRetries \in Nat
  BY <1>1
<1>3. QED
  BY <1>1, <1>2 DEF LongestWait

--------------------------------------------------------------------------------
(* What is known of one request: how long it may still wait, and, as long as its   *)
(* backend has been silent, that no more of its deadline is gone than the budget   *)
(* allows. So it was not the deadline that ended it.                               *)
RetryOf(r) ==
  /\ stage[r] = "new" => attempt[r] = 0 /\ spent[r] = 0 /\ elapsed[r] = 0
  /\ stage[r] = "posting" => spent[r] <= Timeout
  /\ stage[r] = "sleeping" =>
       /\ kind[r] = "call" /\ attempt[r] < MaxRetries
       /\ spent[r] <= Backoff * (attempt[r] + 1)
  /\ kind[r] = "call" /\ silent[r] =>
       /\ stage[r] = "posting" =>
            elapsed[r] <= Cost(attempt[r]) + WaitCost(wait[r]) + spent[r]
       /\ stage[r] = "sleeping" => elapsed[r] <= Cost(attempt[r]) + AttemptLimit + spent[r]
       /\ HeldUp + SilentBudget < Deadline => stage[r] # "cancelled"

RetryInv == TypeOK /\ \A r \in Requests : RetryOf(r)

(* At first no request has cost anything.                                          *)
LEMMA RetryInit == Init => RetryInv
<1> SUFFICES ASSUME Init PROVE RetryInv
  OBVIOUS
<1>1. 0 \in 0..MaxRetries /\ 0 \in 0..LongestWait /\ 0 \in 0..Deadline /\ 1 \in 1..Waits
  BY Constants, TimeoutIsBounded
<1>2. TypeOK
  BY <1>1 DEF Init, TypeOK
<1>3. \A r \in Requests : RetryOf(r)
  BY DEF Init, RetryOf
<1>4. QED
  BY <1>2, <1>3 DEF RetryInv

(* What is known of a request depends on its own values.                           *)
LEMMA OneMoves ==
  ASSUME RetryInv, NEW r \in Requests, kind' = kind,
         \A q \in Requests \ {r} : /\ stage'[q] = stage[q] /\ attempt'[q] = attempt[q]
                                  /\ wait'[q] = wait[q] /\ spent'[q] = spent[q]
                                  /\ elapsed'[q] = elapsed[q] /\ silent'[q] = silent[q],
         RetryOf(r)'
  PROVE  \A q \in Requests : RetryOf(q)'
  BY DEF RetryInv, RetryOf

(* The values of one request, as the steps below change them.                      *)
LEMMA Values ==
  ASSUME TypeOK, NEW r \in Requests
  PROVE  /\ attempt[r] \in Nat /\ attempt[r] <= MaxRetries
         /\ wait[r] \in 1..Waits /\ spent[r] \in Nat /\ elapsed[r] \in Nat
         /\ MaxRetries \in Nat /\ Timeout \in Nat /\ Backoff \in Nat
         /\ AttemptLimit \in Nat /\ HeldUp \in Nat /\ Deadline \in Nat
         /\ Cost(attempt[r]) \in Nat
         /\ WaitCost(wait[r]) \in Nat /\ WaitCost(wait[r]) + Timeout <= AttemptLimit
<1>1. /\ attempt[r] \in 0..MaxRetries /\ wait[r] \in 1..Waits
      /\ spent[r] \in 0..LongestWait /\ elapsed[r] \in 0..Deadline
  BY DEF TypeOK
<1>2. attempt[r] \in Nat /\ attempt[r] <= MaxRetries
  BY <1>1, Constants
<1>3. spent[r] \in Nat /\ elapsed[r] \in Nat
  BY <1>1, Constants, TimeoutIsBounded
<1>4. Cost(attempt[r]) \in Nat
  BY <1>2, CostGrows
<1>5. WaitCost(wait[r]) \in Nat /\ WaitCost(wait[r]) + Timeout <= AttemptLimit
  BY <1>1, WaitCosts
<1>6. QED
  BY <1>1, <1>2, <1>3, <1>4, <1>5, Constants

(* The deadline finds no call whose backend has been silent, if the budget fits.   *)
LEMMA DeadlineIsLate ==
  ASSUME TypeOK, NEW r \in Requests, RetryOf(r), Active(r), kind[r] = "call", silent[r],
         HeldUp + SilentBudget < Deadline
  PROVE  elapsed[r] < Deadline
<1> DEFINE a == attempt[r]
           w == WaitCost(wait[r])
<1>1. a \in Nat /\ elapsed[r] \in Nat /\ spent[r] \in Nat /\ a <= MaxRetries
      /\ Timeout \in Nat /\ Deadline \in Nat /\ MaxRetries \in Nat /\ Backoff \in Nat
      /\ AttemptLimit \in Nat /\ w \in Nat /\ w + Timeout <= AttemptLimit
  BY Values
<1>2. Cost(a) \in Nat /\ Cost(MaxRetries) \in Nat /\ Cost(a) <= Cost(MaxRetries)
  BY <1>1, CostGrows, CostOrdered
<1>3. Cost(MaxRetries) + AttemptLimit < Deadline
  BY BudgetIsCost
<1>4. CASE stage[r] = "posting"
  <2>1. elapsed[r] <= Cost(a) + w + spent[r] /\ spent[r] <= Timeout
    BY <1>4 DEF RetryOf
  <2> HIDE DEF a, w
  <2>2. QED
    BY <1>1, <1>2, <1>3, <2>1
<1>5. CASE stage[r] = "sleeping"
  <2>1. a < MaxRetries /\ spent[r] <= Backoff * (a + 1)
        /\ elapsed[r] <= Cost(a) + AttemptLimit + spent[r]
    BY <1>5 DEF RetryOf
  <2>2. /\ a + 1 \in Nat /\ a + 1 <= MaxRetries
        /\ Backoff * (a + 1) \in Nat
    BY <1>1, <2>1, SleepsAreBounded
  <2>3. Cost(a + 1) = Cost(a) + AttemptLimit + Backoff * (a + 1) /\ Cost(a + 1) \in Nat
        /\ Cost(a + 1) <= Cost(MaxRetries)
    BY <1>1, <2>2, CostGrows, CostOrdered
  <2> HIDE DEF a
  <2>4. PICK k \in Nat : k = Backoff * (a + 1)
    BY <2>2
  <2>5. elapsed[r] <= Cost(a + 1)
    BY <1>1, <1>2, <2>1, <2>3, <2>4
  <2>6. QED
    BY <1>1, <1>2, <1>3, <2>3, <2>5
<1>6. QED
  BY <1>4, <1>5 DEF Active

--------------------------------------------------------------------------------
(* One lemma per kind of step.                                                     *)

(* A call begins with what the coalescer has left of the deadline.                 *)
LEMMA StartKeeps ==
  ASSUME RetryInv, NEW r \in Requests, Start(r)
  PROVE  RetryInv'
<1>1. PICK gone \in 0..HeldUp :
        /\ gone < Deadline
        /\ elapsed' = [elapsed EXCEPT ![r] = gone]
  BY DEF Start
<1>2. PICK w \in 1..Waits : wait' = [wait EXCEPT ![r] = w]
  BY DEF Start, Attempt
<1>3. gone \in 0..Deadline /\ gone \in Nat /\ gone <= HeldUp
  BY <1>1, Constants
<1>4. TypeOK'
  BY <1>1, <1>2, <1>3 DEF RetryInv, TypeOK, Start, Goto
<1>5. /\ stage'[r] = "posting" /\ elapsed'[r] = gone /\ wait'[r] = w
      /\ attempt'[r] = attempt[r] /\ spent'[r] = spent[r]
      /\ \A q \in Requests \ {r} : /\ stage'[q] = stage[q] /\ elapsed'[q] = elapsed[q]
                                   /\ wait'[q] = wait[q]
  BY <1>1, <1>2 DEF RetryInv, TypeOK, Start, Goto
<1>6. RetryOf(r)'
  <2>1. attempt[r] = 0 /\ spent[r] = 0
    BY DEF RetryInv, RetryOf, Start
  <2>2. Cost(attempt[r]) \in Nat /\ HeldUp <= Cost(attempt[r]) /\ HeldUp \in Nat
    BY <2>1, CostGrows, Constants
  <2>3. WaitCost(w) \in Nat /\ Timeout \in Nat
    BY WaitCosts, Constants
  <2>4. gone <= Cost(attempt[r]) + WaitCost(w) + 0
    BY <1>3, <2>2, <2>3
  <2>5. QED
    BY <1>5, <2>1, <2>3, <2>4 DEF RetryOf
<1>7. QED
  BY <1>4, <1>5, <1>6, OneMoves DEF RetryInv, Start

(* A request leaves the loop for good.                                             *)
LEMMA StageMoves ==
  ASSUME RetryInv, NEW r \in Requests, NEW to \in {"returned", "failed", "cancelled"},
         Goto(r, to), UNCHANGED <<call, client>>,
         to = "cancelled" /\ kind[r] = "call" /\ silent[r] => ~(HeldUp + SilentBudget < Deadline)
  PROVE  RetryInv'
<1>1. TypeOK'
  BY DEF RetryInv, TypeOK, Goto, call
<1>2. stage'[r] = to /\ \A q \in Requests \ {r} : stage'[q] = stage[q]
  BY DEF RetryInv, TypeOK, Goto
<1>3. RetryOf(r)'
  BY <1>2 DEF RetryInv, RetryOf, call
<1>4. QED
  BY <1>1, <1>2, <1>3, OneMoves DEF RetryInv, call

(* The next wait of an attempt begins, and the one before has cost a timeout.      *)
LEMMA AdvanceKeeps ==
  ASSUME RetryInv, NEW r \in Requests, Advance(r)
  PROVE  RetryInv'
<1>0. 0 \in 0..LongestWait
  BY TimeoutIsBounded
<1>a. RetryOf(r) /\ stage[r] = "posting" /\ wait[r] < Waits
  BY DEF RetryInv, Advance
<1>b. /\ wait[r] \in 1..Waits /\ spent[r] \in Nat /\ elapsed[r] \in Nat /\ Timeout \in Nat
      /\ Cost(attempt[r]) \in Nat /\ WaitCost(wait[r]) \in Nat
  BY Values DEF RetryInv
<1>c. wait[r] + 1 \in 1..Waits
  BY <1>a, <1>b, Constants
<1>1. TypeOK'
  BY <1>0, <1>c DEF RetryInv, TypeOK, Advance, Restart
<1>2. /\ spent'[r] = 0 /\ wait'[r] = wait[r] + 1
      /\ \A q \in Requests \ {r} : spent'[q] = spent[q] /\ wait'[q] = wait[q]
  BY DEF RetryInv, TypeOK, Advance, Restart
<1>3. RetryOf(r)'
  <2>1. WaitCost(wait[r] + 1) = WaitCost(wait[r]) + Timeout
    BY <1>b, WaitCosts
  <2>2. kind[r] = "call" /\ silent[r] =>
          elapsed[r] <= Cost(attempt[r]) + WaitCost(wait[r] + 1) + 0
    BY <1>a, <1>b, <2>1 DEF RetryOf
  <2>3. QED
    BY <1>b, <1>2, <2>2 DEF RetryOf, Advance
<1>4. QED
  BY <1>1, <1>2, <1>3, OneMoves DEF RetryInv, Advance

(* Something arrives: the backend is no longer silent.                             *)
LEMMA ProgressKeeps ==
  ASSUME RetryInv, NEW r \in Requests, Progress(r)
  PROVE  RetryInv'
<1>0. 0 \in 0..LongestWait /\ Timeout \in Nat
  BY TimeoutIsBounded, TimeoutAssumption
<1>1. TypeOK'
  BY <1>0 DEF RetryInv, TypeOK, Progress, Restart
<1>2. spent'[r] = 0 /\ ~silent'[r]
      /\ \A q \in Requests \ {r} : spent'[q] = spent[q] /\ silent'[q] = silent[q]
  BY DEF RetryInv, TypeOK, Progress, Restart
<1>3. RetryOf(r)'
  BY <1>0, <1>2 DEF Progress, Reading, RetryOf
<1>4. QED
  BY <1>1, <1>2, <1>3, OneMoves DEF RetryInv, Progress

(* An attempt has failed, after all its waits at the latest.                       *)
LEMMA TransientKeeps ==
  ASSUME RetryInv, NEW r \in Requests, Transient(r)
  PROVE  RetryInv'
<1>0. 0 \in 0..LongestWait
  BY TimeoutIsBounded
<1>1. TypeOK'
  BY <1>0 DEF RetryInv, TypeOK, Transient, Goto, Restart
<1>2. /\ spent'[r] = 0
      /\ stage'[r] = IF kind[r] = "call" /\ attempt[r] < MaxRetries THEN "sleeping" ELSE "failed"
      /\ \A q \in Requests \ {r} : spent'[q] = spent[q] /\ stage'[q] = stage[q]
  BY DEF RetryInv, TypeOK, Transient, Goto, Restart
<1>3. RetryOf(r)'
  <2>1. RetryOf(r) /\ stage[r] = "posting"
    BY DEF RetryInv, Transient
  <2>2. /\ attempt[r] \in Nat /\ spent[r] \in Nat /\ elapsed[r] \in Nat
        /\ Cost(attempt[r]) \in Nat /\ WaitCost(wait[r]) \in Nat
        /\ WaitCost(wait[r]) + Timeout <= AttemptLimit
        /\ Timeout \in Nat /\ AttemptLimit \in Nat
    BY Values DEF RetryInv
  <2>3. kind[r] = "call" /\ silent[r] => elapsed[r] <= Cost(attempt[r]) + AttemptLimit + 0
    BY <2>1, <2>2 DEF RetryOf
  <2>4. attempt[r] < MaxRetries => 0 <= Backoff * (attempt[r] + 1)
    BY <2>2, SleepsAreBounded
  <2>5. QED
    BY <1>2, <2>3, <2>4 DEF RetryOf, Transient
<1>4. QED
  BY <1>1, <1>2, <1>3, OneMoves DEF RetryInv, Transient

(* The next attempt begins when the sleep is over, and it cost that sleep.         *)
LEMMA WakeKeeps ==
  ASSUME RetryInv, NEW r \in Requests, Wake(r)
  PROVE  RetryInv'
<1>0. 0 \in 0..LongestWait /\ Timeout \in Nat /\ AttemptLimit \in Nat
  BY TimeoutIsBounded, Constants
<1>a. RetryOf(r) /\ stage[r] = "sleeping" /\ attempt[r] < MaxRetries
  BY DEF RetryInv, RetryOf, Wake
<1>b. /\ attempt[r] \in Nat /\ spent[r] \in Nat /\ elapsed[r] \in Nat
      /\ Cost(attempt[r]) \in Nat /\ MaxRetries \in Nat
  BY Values DEF RetryInv
<1>c. PICK w \in 1..Waits : wait' = [wait EXCEPT ![r] = w]
  BY DEF Wake, Attempt
<1>1. TypeOK'
  <2>1. attempt' \in [Requests -> 0..MaxRetries]
    BY <1>a, <1>b DEF RetryInv, TypeOK, Wake
  <2>2. QED
    BY <1>0, <1>c, <2>1 DEF RetryInv, TypeOK, Wake, Goto, Restart
<1>2. /\ spent'[r] = 0 /\ stage'[r] = "posting" /\ attempt'[r] = attempt[r] + 1
      /\ wait'[r] = w
      /\ \A q \in Requests \ {r} : /\ spent'[q] = spent[q] /\ stage'[q] = stage[q]
                                   /\ attempt'[q] = attempt[q] /\ wait'[q] = wait[q]
  BY <1>c DEF RetryInv, TypeOK, Wake, Goto, Restart
<1>3. RetryOf(r)'
  <2>1. PICK k \in Nat : k = Backoff * (attempt[r] + 1)
    BY <1>a, <1>b, SleepsAreBounded
  <2>2. spent[r] <= k
    BY <1>a, <2>1 DEF RetryOf
  <2>3. Cost(attempt[r] + 1) = Cost(attempt[r]) + AttemptLimit + k
    BY <1>b, <2>1, CostGrows
  <2>4. WaitCost(w) \in Nat
    BY WaitCosts
  <2>5. kind[r] = "call" /\ silent[r] =>
          elapsed[r] <= Cost(attempt[r] + 1) + WaitCost(w) + 0
    BY <1>0, <1>a, <1>b, <2>2, <2>3, <2>4 DEF RetryOf
  <2>6. QED
    BY <1>0, <1>2, <2>5 DEF RetryOf, Wake
<1>4. QED
  BY <1>1, <1>2, <1>3, OneMoves DEF RetryInv, Wake

(* Time passes for each request alike, and no timer is overdue.                    *)
LEMMA TickKeeps ==
  ASSUME RetryInv, Tick
  PROVE  RetryInv'
<1>1. ASSUME NEW r \in Requests
      PROVE  /\ spent'[r] \in 0..LongestWait /\ elapsed'[r] \in 0..Deadline
             /\ RetryOf(r)'
  <2>1. /\ attempt[r] \in Nat /\ spent[r] \in Nat /\ elapsed[r] \in Nat
        /\ Cost(attempt[r]) \in Nat /\ WaitCost(wait[r]) \in Nat
        /\ Timeout \in Nat /\ Deadline \in Nat /\ AttemptLimit \in Nat
    BY Values DEF RetryInv
  <2>2. RetryOf(r) /\ spent[r] \in 0..LongestWait /\ elapsed[r] \in 0..Deadline
    BY DEF RetryInv, TypeOK
  <2>3. /\ spent'[r] = IF Active(r) THEN spent[r] + 1 ELSE spent[r]
        /\ elapsed'[r] = IF Active(r) /\ kind[r] = "call" THEN elapsed[r] + 1 ELSE elapsed[r]
        /\ attempt'[r] = attempt[r] /\ stage'[r] = stage[r] /\ wait'[r] = wait[r]
        /\ kind'[r] = kind[r] /\ silent'[r] = silent[r]
    BY DEF Tick
  <2>4. CASE ~Active(r)
    BY <2>2, <2>3, <2>4 DEF RetryOf, Active
  <2>5. CASE stage[r] = "posting"
    <3>1. spent[r] < Timeout /\ elapsed[r] < Deadline
      BY <2>5 DEF Tick, Active
    <3>2. LongestWait \in Nat /\ Timeout <= LongestWait
      BY TimeoutIsBounded
    <3>3. QED
      BY <2>1, <2>2, <2>3, <2>5, <3>1, <3>2 DEF RetryOf, Active
  <2>6. CASE stage[r] = "sleeping"
    <3>1. attempt[r] < MaxRetries
      BY <2>2, <2>6 DEF RetryOf
    <3>2. PICK k \in Nat : k = Backoff * (attempt[r] + 1) /\ k <= LongestWait
      BY <2>1, <3>1, SleepsAreBounded
    <3>3. spent[r] < k /\ elapsed[r] < Deadline
      BY <2>6, <3>2 DEF Tick, Active
    <3>4. LongestWait \in Nat
      BY TimeoutIsBounded
    <3>5. QED
      BY <2>1, <2>2, <2>3, <2>6, <3>1, <3>2, <3>3, <3>4 DEF RetryOf, Active
  <2>7. QED
    BY <2>4, <2>5, <2>6 DEF Active
<1>2. TypeOK'
  BY <1>1 DEF RetryInv, TypeOK, Tick
<1>3. QED
  BY <1>1, <1>2 DEF RetryInv

(* RetryInv is inductive.                                                          *)
LEMMA RetryStep == RetryInv /\ [Next]_vars => RetryInv'
<1> SUFFICES ASSUME RetryInv, [Next]_vars PROVE RetryInv'
  OBVIOUS
<1>1. ASSUME NEW r \in Requests, Answered(r) \/ NotRetried(r) PROVE RetryInv'
  BY <1>1, StageMoves DEF Answered, NotRetried
<1>2. ASSUME NEW r \in Requests, Cancel(r) PROVE RetryInv'
  <2>1. silent[r] => ~(HeldUp + SilentBudget < Deadline)
    <3>1. elapsed[r] \in Nat /\ Deadline \in Nat /\ elapsed[r] >= Deadline
      BY <1>2, Values DEF RetryInv, Cancel
    <3>2. QED
      BY <1>2, <3>1, DeadlineIsLate DEF RetryInv, Cancel
  <2>2. QED
    BY <1>2, <2>1, StageMoves DEF Cancel
<1>3. ASSUME NEW r \in Requests, Disconnect(r) PROVE RetryInv'
  BY <1>3, StageMoves DEF Disconnect
<1>4. ASSUME NEW r \in Requests, Start(r) \/ Advance(r) \/ Progress(r) PROVE RetryInv'
  BY <1>4, StartKeeps, AdvanceKeeps, ProgressKeeps
<1>5. ASSUME NEW r \in Requests, Transient(r) \/ Wake(r) PROVE RetryInv'
  BY <1>5, TransientKeeps, WakeKeeps
<1>6. CASE Close
  BY <1>6 DEF Close, RetryInv, TypeOK, RetryOf, call
<1>7. CASE UNCHANGED vars
  BY <1>7 DEF vars, RetryInv, TypeOK, RetryOf, call
<1>8. QED
  BY <1>1, <1>2, <1>3, <1>4, <1>5, <1>6, <1>7, TickKeeps DEF Next

(* The inductive invariant holds of every behaviour.                               *)
THEOREM RetryInvariant == Spec => []RetryInv
  BY RetryInit, RetryStep, PTL DEF Spec

(* Type correctness: no attempt beyond the last, no wait beyond its timer, no call *)
(* beyond its deadline.                                                            *)
THEOREM VLLMBackendTypes == Spec => []TypeOK
<1>1. RetryInv => TypeOK
  BY DEF RetryInv
<1>2. QED
  BY <1>1, RetryInvariant, PTL

(* If the budget of the retry loop fits what the coalescer leaves of the deadline, *)
(* for any number of waits an attempt makes, a call that is cancelled had          *)
(* something from its backend, however slow: one that says nothing is always       *)
(* reported to the breaker.                                                        *)
THEOREM SilenceIsAlwaysReported == Spec => []SilenceIsReported
<1>1. RetryInv => SilenceIsReported
  <2> SUFFICES ASSUME RetryInv, HeldUp + SilentBudget < Deadline, NEW r \in Requests,
                      kind[r] = "call" /\ stage[r] = "cancelled"
               PROVE  ~silent[r]
    BY DEF SilenceIsReported
  <2>1. silent[r] \in BOOLEAN
    BY DEF RetryInv, TypeOK
  <2>2. QED
    BY <2>1 DEF RetryInv, RetryOf
<1>2. QED
  BY <1>1, RetryInvariant, PTL

================================================================================
