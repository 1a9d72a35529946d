---------------------------- MODULE TokenBucket ----------------------------
(***************************************************************************)
(* What a token bucket promises: its level rises with every tick of the    *)
(* clock up to the burst, a call takes one token, and a call is refused    *)
(* only when less than one token is left.  RateLimiter implements it.      *)
(***************************************************************************)
EXTENDS Integers, Sequences

CONSTANTS
    Rate,     (* units that one tick adds to the bucket                        *)
    Cost,     (* units in a token                                              *)
    Burst,    (* tokens in a full bucket                                       *)
    MaxTime   (* bound: ticks of the clock                                     *)

VARIABLES
    now,      (* the clock                                                     *)
    level,    (* units in the bucket                                           *)
    grants    (* when each call was allowed since the bucket was last filled   *)

bucketVars == <<now, level, grants>>

Full == Burst * Cost
AtMostFull(x) == IF x <= Full THEN x ELSE Full

Init == now = 0 /\ level = Full /\ grants = <<>>

Tick == /\ now < MaxTime
        /\ now' = now + 1
        /\ level' = AtMostFull(level + Rate)
        /\ UNCHANGED grants

Grant == /\ level >= Cost
         /\ level' = level - Cost
         /\ grants' = Append(grants, now)
         /\ UNCHANGED now

Refuse == level < Cost /\ UNCHANGED bucketVars

Fill == level' = Full /\ grants' = <<>> /\ UNCHANGED now

Next == Tick \/ Grant \/ Refuse \/ Fill

Spec == Init /\ [][Next]_bucketVars

-----------------------------------------------------------------------------
(* In every interval of time that begins and ends with an allowed call, no *)
(* more calls are allowed than the burst and what the interval refills.    *)
WindowBound ==
    \A i, j \in DOMAIN grants :
        i <= j => Cost * (j - i + 1) <= Full + Rate * (grants[j] - grants[i])
=============================================================================
