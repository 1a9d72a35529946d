------------------------- MODULE RateLimiterProofs -------------------------
(***************************************************************************)
(* Proofs about RateLimiter, for every rate, cost, burst and bound of the  *)
(* clock: it behaves like a token bucket, and grants within its window.    *)
(***************************************************************************)
EXTENDS RateLimiter, TLAPS

(* What a call at the end of the window may still be granted: since any    *)
(* earlier grant, the calls granted and the tokens left are covered by the *)
(* burst and the refill.                                                   *)
Budget ==
    \A i \in DOMAIN grants :
        Cost * (Len(grants) - i + 1) + tokens
            <= Capacity + Rate * (lastRefill - grants[i])

LimiterInv == LimiterOK /\ Budget /\ RateKept

(* The refilled bucket is never over its capacity, and has at most what    *)
(* the time since the last refill adds to it.                              *)
LEMMA RefillBounds ==
    ASSUME LimiterOK
    PROVE  /\ Capacity \in Nat
           /\ Refilled \in 0..Capacity
           /\ Refilled <= tokens + Rate * (now - lastRefill)
<1>1. Capacity \in Nat
  BY LimiterAssumption DEF Capacity
<1>2. /\ now - lastRefill \in Nat
      /\ (now - lastRefill) * Rate \in Nat
      /\ (now - lastRefill) * Rate = Rate * (now - lastRefill)
  BY LimiterAssumption DEF LimiterOK
<1> QED
  BY <1>1, <1>2 DEF LimiterOK, Refilled

(* The limiter's state stays within its types.                             *)
LEMMA LimiterOKStep ==
    ASSUME LimiterOK, [NextLimiter]_limiterVars
    PROVE  LimiterOK'
<1> USE LimiterAssumption, RefillBounds
<1>1. CASE Allow
  BY <1>1 DEF LimiterOK, Allow, Capacity
<1>2. CASE Deny
  BY <1>2 DEF LimiterOK, Deny, Capacity
<1>3. CASE ResetLimiter
  BY <1>3 DEF LimiterOK, ResetLimiter, Capacity
<1>4. CASE Tick
  <2>1. 0..now \subseteq 0..(now + 1)
    BY DEF LimiterOK
  <2> QED
    BY <1>4, <2>1 DEF LimiterOK, Tick, Capacity
<1>5. CASE UNCHANGED limiterVars
  BY <1>5 DEF LimiterOK, limiterVars, Capacity
<1> QED
  BY <1>1, <1>2, <1>3, <1>4, <1>5 DEF NextLimiter

(* The tokens, the refill time, the clock and the grants have their types  *)
(* in every reachable state, and the bucket is never over-full.            *)
THEOREM LimiterTypes == LimiterSpec => []LimiterOK
<1>1. InitLimiter => LimiterOK
  BY LimiterAssumption DEF InitLimiter, LimiterOK, Capacity
<1> QED
  BY <1>1, LimiterOKStep, PTL DEF LimiterSpec

(* Grants carry the times at which they were made, in order of the clock.  *)
LEMMA GrantTimes ==
    ASSUME LimiterOK
    PROVE  /\ Len(grants) \in Nat
           /\ DOMAIN grants = 1..Len(grants)
           /\ \A i \in DOMAIN grants : grants[i] \in 0..now
  BY DEF LimiterOK

(* A refill adds to the budget of every earlier grant what its time adds.  *)
LEMMA BudgetRefilled ==
    ASSUME LimiterOK, Budget, NEW i \in DOMAIN grants
    PROVE  Cost * (Len(grants) - i + 1) + Refilled <= Capacity + Rate * (now - grants[i])
<1> DEFINE age == lastRefill - grants[i]
           wait == now - lastRefill
           calls == Len(grants) - i + 1
<1>1. age \in Int /\ wait \in Int /\ calls \in Int /\ now - grants[i] = age + wait
  BY GrantTimes DEF LimiterOK
<1>2. Cost * calls + tokens <= Capacity + Rate * age
  BY DEF Budget
<1>3. Rate * (age + wait) = Rate * age + Rate * wait
  BY <1>1, LimiterAssumption
<1>4. Refilled <= tokens + Rate * wait
  BY RefillBounds
<1>5. Cost * calls \in Int /\ Rate * age \in Int /\ Rate * wait \in Int
  BY <1>1, LimiterAssumption
<1> HIDE DEF age, wait, calls
<1>6. Cost * calls + Refilled <= Capacity + Rate * (age + wait)
  BY <1>2, <1>3, <1>4, <1>5, RefillBounds DEF LimiterOK
<1> QED
  BY <1>1, <1>6 DEF calls

LEMMA OneMoreCall ==
    ASSUME NEW n \in Int
    PROVE  Cost * (n + 1) = Cost * n + Cost /\ Cost * n \in Int
  BY LimiterAssumption

(* Allowing a call keeps the budget and the window bound.                  *)
LEMMA AllowKeepsWindow ==
    ASSUME LimiterInv, Allow
    PROVE  Budget' /\ RateKept'
<1> DEFINE n == Len(grants)
<1>1. /\ n \in Nat
      /\ Len(grants') = n + 1
      /\ DOMAIN grants' = 1..(n + 1)
      /\ \A i \in 1..n : grants'[i] = grants[i] /\ grants[i] \in 0..now
      /\ grants'[n + 1] = now
  BY GrantTimes DEF LimiterInv, LimiterOK, Allow
<1>2. tokens' = Refilled - Cost /\ lastRefill' = now /\ Refilled >= Cost
  BY DEF Allow
<1>3. /\ Capacity \in Nat /\ Capacity' = Capacity /\ Refilled \in 0..Capacity
      /\ now \in Nat
  BY RefillBounds DEF LimiterInv, LimiterOK, Capacity
<1>4. \A i \in 1..n :
          Cost * (n - i + 1) + Refilled <= Capacity + Rate * (now - grants[i])
  BY BudgetRefilled, GrantTimes DEF LimiterInv
<1>5. \A i \in 1..n : /\ Cost * (n - i + 1) \in Int
                       /\ Cost * (n + 1 - i + 1) = Cost * (n - i + 1) + Cost
                       /\ Rate * (now - grants[i]) \in Int
  <2> SUFFICES ASSUME NEW i \in 1..n
               PROVE  /\ Cost * (n - i + 1) \in Int
                      /\ Cost * (n + 1 - i + 1) = Cost * (n - i + 1) + Cost
                      /\ Rate * (now - grants[i]) \in Int
    OBVIOUS
  <2>1. n - i + 1 \in Int /\ n + 1 - i + 1 = (n - i + 1) + 1 /\ now - grants[i] \in Int
    BY <1>1, <1>3
  <2> HIDE DEF n
  <2> QED
    BY <2>1, OneMoreCall, LimiterAssumption
<1> HIDE DEF n
<1>6. Budget'
  <2> SUFFICES ASSUME NEW i \in 1..(n + 1)
               PROVE  Cost * (n + 1 - i + 1) + (Refilled - Cost)
                        <= Capacity + Rate * (now - grants'[i])
    BY <1>1, <1>2, <1>3 DEF Budget
  <2>1. CASE i \in 1..n
    BY <2>1, <1>1, <1>3, <1>4, <1>5, LimiterAssumption
  <2>2. CASE i = n + 1
    <3>1. n + 1 - i + 1 = 1 /\ now - grants'[i] = 0
      BY <2>2, <1>1, <1>3
    <3> QED
      BY <3>1, <1>3, LimiterAssumption
  <2> QED
    BY <2>1, <2>2, <1>1
<1>7. RateKept'
  <2> SUFFICES ASSUME NEW i \in 1..(n + 1), NEW j \in 1..(n + 1), i <= j
               PROVE  Cost * (j - i + 1) <= Capacity + Rate * (grants'[j] - grants'[i])
    BY <1>1, <1>3 DEF RateKept, Bucket!WindowBound, Bucket!Full, Capacity
  <2>1. CASE j \in 1..n
    <3>1. i \in 1..n
      BY <2>1, <1>1
    <3>2. Cost * (j - i + 1) <= Capacity + Rate * (grants[j] - grants[i])
      BY <2>1, <3>1, <1>1, GrantTimes
         DEF LimiterInv, RateKept, Bucket!WindowBound, Bucket!Full, Capacity, n
    <3> QED
      BY <2>1, <3>1, <3>2, <1>1
  <2>2. CASE j = n + 1 /\ i \in 1..n
    BY <2>2, <1>1, <1>2, <1>3, <1>4, <1>5, LimiterAssumption
  <2>3. CASE j = n + 1 /\ i = n + 1
    <3>1. j - i + 1 = 1 /\ grants'[j] - grants'[i] = 0
      BY <2>3, <1>1, <1>3
    <3> QED
      BY <3>1, <1>2, <1>3, LimiterAssumption
  <2> QED
    BY <2>1, <2>2, <2>3, <1>1
<1> QED
  BY <1>6, <1>7

(* Every step keeps the limiter's invariant.                               *)
LEMMA LimiterInvStep ==
    ASSUME LimiterInv, [NextLimiter]_limiterVars
    PROVE  LimiterInv'
<1>1. LimiterOK'
  BY LimiterOKStep DEF LimiterInv
<1>2. CASE Allow
  BY <1>1, <1>2, AllowKeepsWindow DEF LimiterInv
<1>3. CASE Deny
  <2>1. UNCHANGED <<grants, now>> /\ tokens' = Refilled /\ lastRefill' = now
    BY <1>3 DEF Deny
  <2>2. Budget'
    BY <2>1, BudgetRefilled DEF Budget, LimiterInv, Capacity
  <2>3. RateKept'
    BY <2>1 DEF LimiterInv, RateKept, Bucket!WindowBound, Bucket!Full
  <2> QED
    BY <1>1, <2>2, <2>3 DEF LimiterInv
<1>4. CASE ResetLimiter
  <2>1. DOMAIN grants' = {}
    BY <1>4 DEF ResetLimiter
  <2> QED
    BY <1>1, <2>1 DEF LimiterInv, Budget, RateKept, Bucket!WindowBound
<1>5. CASE Tick \/ UNCHANGED limiterVars
  BY <1>1, <1>5
     DEF Tick, limiterVars, LimiterInv, Budget, RateKept, Bucket!WindowBound,
         Bucket!Full, Capacity
<1> QED
  BY <1>2, <1>3, <1>4, <1>5 DEF NextLimiter

(* No interval of time sees more granted calls than the burst and what the *)
(* interval refills.                                                       *)
THEOREM GrantsWithinRate == LimiterSpec => []RateKept
<1>1. InitLimiter => LimiterInv
  <2> SUFFICES ASSUME InitLimiter PROVE LimiterInv
    OBVIOUS
  <2>1. LimiterOK
    BY LimiterAssumption DEF InitLimiter, LimiterOK, Capacity
  <2>2. DOMAIN grants = {}
    BY DEF InitLimiter
  <2> QED
    BY <2>1, <2>2 DEF LimiterInv, Budget, RateKept, Bucket!WindowBound
<1>2. LimiterInv => RateKept
  BY DEF LimiterInv
<1> QED
  BY <1>1, <1>2, LimiterInvStep, PTL DEF LimiterSpec

(* Refilling at once or in two parts comes to the same, up to the capacity.*)
LEMMA RefillInParts ==
    ASSUME LimiterOK
    PROVE  /\ Bucket!Full = Capacity
           /\ tokens + (now + 1 - lastRefill) * Rate
                = tokens + (now - lastRefill) * Rate + Rate
           /\ (now - lastRefill) * Rate \in Nat
<1>1. now - lastRefill \in Nat /\ now + 1 - lastRefill = (now - lastRefill) + 1
  BY DEF LimiterOK
<1>2. \A n \in Nat : (n + 1) * Rate = n * Rate + Rate /\ n * Rate \in Nat
  BY LimiterAssumption
<1>3. tokens \in Int
  BY RefillBounds DEF LimiterOK
<1> QED
  BY <1>1, <1>2, <1>3, LimiterAssumption DEF Bucket!Full, Capacity

(* A step of the limiter is a step of the bucket with the refilled level.  *)
LEMMA BucketStep ==
    ASSUME LimiterOK, [NextLimiter]_limiterVars
    PROVE  [Bucket!Next]_(Bucket!bucketVars)
<1>1. /\ Capacity' = Capacity /\ Capacity \in Nat /\ Refilled \in 0..Capacity
      /\ Bucket!Full = Capacity
      /\ tokens \in 0..Capacity /\ now \in Nat
  BY RefillBounds, RefillInParts DEF LimiterOK, Capacity
(* Whenever the refill is up to date, the level is what the tokens say.    *)
<1>2. ASSUME lastRefill' = now, now' = now, tokens' \in 0..Capacity
      PROVE  Refilled' = tokens'
  <2>1. (now' - lastRefill') * Rate = 0
    BY <1>1, <1>2, LimiterAssumption
  <2> QED
    BY <1>1, <1>2, <2>1 DEF Refilled
<1>3. CASE Allow
  <2>1. tokens' \in 0..Capacity
    BY <1>1, <1>3, LimiterAssumption DEF Allow
  <2>2. Bucket!Grant
    BY <1>2, <1>3, <2>1 DEF Allow, Bucket!Grant
  <2> QED
    BY <2>2 DEF Bucket!Next
<1>4. CASE Deny
  BY <1>1, <1>2, <1>4 DEF Deny, Bucket!bucketVars
<1>5. CASE ResetLimiter
  <2>1. Bucket!Fill
    BY <1>1, <1>2, <1>5 DEF ResetLimiter, Bucket!Fill
  <2> QED
    BY <2>1 DEF Bucket!Next
<1>6. CASE Tick
  <2>1. /\ now < MaxTime /\ now' = now + 1
        /\ UNCHANGED <<tokens, lastRefill, grants>>
    BY <1>6 DEF Tick
  <2>2. Refilled' = Bucket!AtMostFull(tokens + (now + 1 - lastRefill) * Rate)
    BY <1>1, <2>1, LimiterAssumption DEF LimiterOK, Refilled, Bucket!AtMostFull
  <2>3. Refilled' = Bucket!AtMostFull(Refilled + Rate)
    BY <1>1, <2>2, RefillInParts, LimiterAssumption DEF Refilled, Bucket!AtMostFull
  <2>4. Bucket!Tick
    BY <2>1, <2>3 DEF Bucket!Tick
  <2> QED
    BY <2>4 DEF Bucket!Next
<1>7. CASE UNCHANGED limiterVars
  BY <1>1, <1>7 DEF limiterVars, Refilled, Bucket!bucketVars
<1> QED
  BY <1>3, <1>4, <1>5, <1>6, <1>7 DEF NextLimiter

(* RateLimiter implements the token bucket: the lazily refilled tokens     *)
(* are, at every moment, those of a bucket that is refilled all the time.  *)
THEOREM ImplementsTokenBucket == LimiterSpec => IsTokenBucket
<1>1. InitLimiter => Bucket!Init
  <2> SUFFICES ASSUME InitLimiter PROVE Bucket!Init
    OBVIOUS
  <2>1. LimiterOK
    BY LimiterAssumption DEF InitLimiter, LimiterOK, Capacity
  <2>2. tokens = Capacity /\ (now - lastRefill) * Rate = 0
    BY LimiterAssumption DEF InitLimiter
  <2>3. Refilled = Capacity
    BY <2>1, <2>2, RefillBounds DEF Refilled
  <2> QED
    BY <2>1, <2>3, RefillInParts DEF InitLimiter, Bucket!Init
<1>2. LimiterOK /\ [NextLimiter]_limiterVars => [Bucket!Next]_(Bucket!bucketVars)
  BY BucketStep
<1> QED
  BY <1>1, <1>2, LimiterTypes, PTL DEF LimiterSpec, IsTokenBucket, Bucket!Spec
=============================================================================
