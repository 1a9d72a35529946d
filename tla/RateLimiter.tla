---------------------------- MODULE RateLimiter ----------------------------
(***************************************************************************)
(* RateLimiter (rate_limiter.cpp): a token bucket that is refilled lazily, *)
(* when Allow is called, by the time since the last call.  Tokens are      *)
(* counted in units, Cost to a token, and time in ticks that refill Rate   *)
(* units.  Allow and Reset hold the limiter's mutex: each is one step.     *)
(***************************************************************************)
EXTENDS Integers, Sequences

CONSTANTS Rate, Cost, Burst, MaxTime

ASSUME LimiterAssumption ==
    /\ Rate \in Nat
    /\ Cost \in Nat \ {0}
    /\ Burst \in Nat
    /\ MaxTime \in Nat

VARIABLES
    now,         (* steady_clock                                               *)
    tokens,      (* tokens_                                                    *)
    lastRefill,  (* last_refill_                                               *)
    grants       (* history: when calls were allowed since the last Reset      *)

limiterVars == <<now, tokens, lastRefill, grants>>

Capacity == Burst * Cost

InitLimiter ==
    /\ now = 0
    /\ tokens = Capacity
    /\ lastRefill = 0
    /\ grants = <<>>

(* Seeded fault: the bucket has no upper limit. *)
RefilledUncapped == tokens + (now - lastRefill) * Rate

(* The tokens after the refill with which every Allow begins. *)
Refilled ==
    LET more == tokens + (now - lastRefill) * Rate
    IN  IF more <= Capacity THEN more ELSE Capacity

(* Allow returns true ... *)
Allow ==
    /\ Refilled >= Cost
    /\ tokens' = Refilled - Cost
    /\ lastRefill' = now
    /\ grants' = Append(grants, now)
    /\ UNCHANGED now

(* Seeded fault: a refused call takes the refill with it. *)
DenyAndForget ==
    /\ Refilled < Cost
    /\ lastRefill' = now
    /\ UNCHANGED <<now, tokens, grants>>

(* ... or false, which keeps the refill. *)
Deny ==
    /\ Refilled < Cost
    /\ tokens' = Refilled
    /\ lastRefill' = now
    /\ UNCHANGED <<now, grants>>

ResetLimiter ==
    /\ tokens' = Capacity
    /\ lastRefill' = now
    /\ grants' = <<>>
    /\ UNCHANGED now

Tick == /\ now < MaxTime
        /\ now' = now + 1
        /\ UNCHANGED <<tokens, lastRefill, grants>>

NextLimiter == Allow \/ Deny \/ ResetLimiter \/ Tick

LimiterSpec == InitLimiter /\ [][NextLimiter]_limiterVars

-----------------------------------------------------------------------------
(* The lazily refilled bucket is the bucket that is refilled all the time. *)
Bucket == INSTANCE TokenBucket WITH level <- Refilled

LimiterOK ==
    /\ now \in Nat
    /\ tokens \in 0..Capacity
    /\ lastRefill \in 0..now
    /\ grants \in Seq(0..now)

(* Whatever the callers do, the limiter behaves like a token bucket: no    *)
(* refill is lost or counted twice, whether calls are allowed or refused.  *)
IsTokenBucket == Bucket!Spec

(* No interval sees more calls than burst and refill allow: what the       *)
(* gateway promises the endpoint with rate_limit_rps and rate_limit_burst. *)
RateKept == Bucket!WindowBound
=============================================================================
