---------------------------- MODULE ModelRouter ----------------------------
(***************************************************************************)
(* ModelRouter and CircuitBreaker (model_router.cpp).  A request tries the *)
(* enabled providers by descending weight until one answers; a breaker per *)
(* provider keeps requests away from one that keeps failing.  Each of the  *)
(* breaker's methods holds its mutex and is one step, but no lock is held  *)
(* from AllowRequest to the outcome it is told: a call may end long after  *)
(* the breaker that admitted it has changed its mind.                      *)
(***************************************************************************)
EXTENDS Integers, FiniteSets

CONSTANTS
    Threads,           (* IO threads that serve POST /router/chat              *)
    Providers,         (* providers_                                           *)
    Enabled,           (* those whose configuration enables them               *)
    Weight,            (* weight of each                                       *)
    FailureThreshold,  (* failure_threshold_                                   *)
    RecoveryTimeout,   (* recovery_timeout_seconds_, in ticks of the clock     *)
    HalfOpenMax,       (* half_open_max_                                       *)
    NoProvider         (* no provider                                          *)

ASSUME RouterAssumption ==
    /\ Enabled \subseteq Providers
    /\ Weight \in [Providers -> Int]
    /\ FailureThreshold \in Nat \ {0}
    /\ RecoveryTimeout \in Nat
    /\ HalfOpenMax \in Nat
    /\ NoProvider \notin Providers

VARIABLES
    breaker,  (* the circuit breaker of each provider                          *)
    request,  (* how far each thread's request has come                        *)
    up        (* providers whose gateway answers: neither the endpoint nor the *)
              (* gateway's own rate limiter fails the call                     *)

routerVars == <<breaker, request, up>>

(* failures counts up to the threshold: the code only asks whether it has  *)
(* been reached.  age is the time since last_failure_time_, up to the      *)
(* recovery timeout and only while the breaker is open, where it is read.  *)
Breakers == [state: {"closed", "open", "half-open"},
             failures: 0..FailureThreshold,
             probes: 0..HalfOpenMax,
             age: 0..RecoveryTimeout]

RequestStates == [stage: {"idle", "choosing", "calling"},
                  tried: SUBSET Providers,
                  provider: Providers \cup {NoProvider}]

AtMost(bound, n) == IF n <= bound THEN n ELSE bound

-----------------------------------------------------------------------------
(* CircuitBreaker.  Admits(b) says whether AllowRequest returns true, and  *)
(* Admitted(b) is the breaker after it has.                                *)

(* Seeded fault: a half-open breaker admits everybody. *)
AdmitsMore(b) ==
    \/ b.state # "open"
    \/ b.state = "open" /\ b.age >= RecoveryTimeout

Admits(b) ==
    \/ b.state = "closed"
    \/ b.state = "open" /\ b.age >= RecoveryTimeout
    \/ b.state = "half-open" /\ b.probes < HalfOpenMax

Admitted(b) ==
    CASE b.state = "closed" -> b
      [] b.state = "open" -> [b EXCEPT !.state = "half-open", !.probes = 0, !.age = 0]
      [] b.state = "half-open" -> [b EXCEPT !.probes = @ + 1]

(* Seeded fault: closing forgets to forgive the failures. *)
OnSuccessUnforgiving(b) ==
    IF b.state = "half-open" THEN [b EXCEPT !.state = "closed", !.probes = 0] ELSE b

(* Seeded fault: a breaker that was half-open stays so. *)
OnSuccessUndecided(b) == [b EXCEPT !.failures = 0]

OnSuccess(b) ==
    IF b.state = "half-open"
    THEN [b EXCEPT !.failures = 0, !.state = "closed", !.probes = 0]
    ELSE [b EXCEPT !.failures = 0]

(* Seeded fault: a failed probe is only counted. *)
OnFailureCounts(b) ==
    LET count == AtMost(FailureThreshold, b.failures + 1)
    IN  [b EXCEPT !.failures = count, !.age = 0,
                  !.state = IF b.state = "closed" /\ count >= FailureThreshold
                            THEN "open" ELSE @]

OnFailure(b) ==
    LET count == AtMost(FailureThreshold, b.failures + 1)
    IN  [b EXCEPT !.failures = count, !.age = 0,
                  !.state = IF b.state = "half-open" \/ count >= FailureThreshold
                            THEN "open" ELSE @]

-----------------------------------------------------------------------------
Idle == [stage |-> "idle", tried |-> {}, provider |-> NoProvider]

InitRouter ==
    /\ breaker = [p \in Providers |-> [state |-> "closed", failures |-> 0,
                                       probes |-> 0, age |-> 0]]
    /\ request = [t \in Threads |-> Idle]
    /\ up = Providers

Begin(t) ==
    /\ request[t].stage = "idle"
    /\ request' = [request EXCEPT ![t].stage = "choosing"]
    /\ UNCHANGED <<breaker, up>>

(* The sort leaves providers of equal weight in any order. *)
IsNext(t, p) ==
    LET untried == Enabled \ request[t].tried
    IN  /\ request[t].stage = "choosing"
        /\ p \in untried
        /\ \A q \in untried : Weight[q] <= Weight[p]

Skip(t, p) ==
    /\ IsNext(t, p)
    /\ ~Admits(breaker[p])
    /\ request' = [request EXCEPT ![t].tried = @ \cup {p}]
    /\ UNCHANGED <<breaker, up>>

Call(t, p) ==
    /\ IsNext(t, p)
    /\ Admits(breaker[p])
    /\ breaker' = [breaker EXCEPT ![p] = Admitted(@)]
    /\ request' = [request EXCEPT ![t].stage = "calling", ![t].provider = p]
    /\ UNCHANGED up

Succeeds(t) ==
    LET p == request[t].provider
    IN  /\ request[t].stage = "calling"
        /\ p \in up
        /\ breaker' = [breaker EXCEPT ![p] = OnSuccess(@)]
        /\ request' = [request EXCEPT ![t] = Idle]
        /\ UNCHANGED up

(* Seeded fault: the provider that failed is not marked as tried. *)
FailsUnmarked(t) ==
    LET p == request[t].provider
    IN  /\ request[t].stage = "calling"
        /\ p \notin up
        /\ breaker' = [breaker EXCEPT ![p] = OnFailure(@)]
        /\ request' = [request EXCEPT ![t].stage = "choosing", ![t].provider = NoProvider]
        /\ UNCHANGED up

(* The provider failed: on to the next. *)
Fails(t) ==
    LET p == request[t].provider
    IN  /\ request[t].stage = "calling"
        /\ p \notin up
        /\ breaker' = [breaker EXCEPT ![p] = OnFailure(@)]
        /\ request' = [request EXCEPT ![t] =
               [stage |-> "choosing", tried |-> @.tried \cup {p}, provider |-> NoProvider]]
        /\ UNCHANGED up

(* "all providers failed", or none was enabled. *)
GiveUp(t) ==
    /\ request[t].stage = "choosing"
    /\ Enabled \subseteq request[t].tried
    /\ request' = [request EXCEPT ![t] = Idle]
    /\ UNCHANGED <<breaker, up>>

(* A second passes. *)
SecondPasses ==
    /\ breaker' = [p \in Providers |->
           IF breaker[p].state = "open"
           THEN [breaker[p] EXCEPT !.age = AtMost(RecoveryTimeout, @ + 1)]
           ELSE breaker[p]]
    /\ UNCHANGED <<request, up>>

GoesDown(p) == p \in up /\ up' = up \ {p} /\ UNCHANGED <<breaker, request>>
ComesUp(p) == p \notin up /\ up' = up \cup {p} /\ UNCHANGED <<breaker, request>>

NextRouter ==
    \/ \E t \in Threads :
           \/ Begin(t)
           \/ \E p \in Providers : Skip(t, p) \/ Call(t, p)
           \/ Succeeds(t)
           \/ Fails(t)
           \/ GiveUp(t)
    \/ SecondPasses
    \/ \E p \in Providers : GoesDown(p) \/ ComesUp(p)

RouterSpec == InitRouter /\ [][NextRouter]_routerVars

(* A thread that serves a request goes on with it, and a call ends: curl   *)
(* gives up after timeout_seconds.  That requests come is not assumed.     *)
Progress(t) ==
    \/ \E p \in Providers : Skip(t, p) \/ Call(t, p)
    \/ Succeeds(t)
    \/ Fails(t)
    \/ GiveUp(t)

FairRouterSpec ==
    /\ RouterSpec
    /\ \A t \in Threads : WF_routerVars(Progress(t))
    /\ WF_routerVars(SecondPasses)

-----------------------------------------------------------------------------
RouterOK ==
    /\ breaker \in [Providers -> Breakers]
    /\ request \in [Threads -> RequestStates]
    /\ up \subseteq Providers

Calling(p) == {t \in Threads : request[t].stage = "calling" /\ request[t].provider = p}

(* A breaker that admits every request has seen fewer failures in a row    *)
(* than the threshold, also after a probe or a late success has closed it. *)
ClosedMeansHealthy ==
    \A p \in Providers :
        breaker[p].state = "closed" => breaker[p].failures < FailureThreshold

(* A half-open breaker is waiting for a call that is being made: it can    *)
(* never wait, refusing everything, for an outcome that nobody will report.*)
HalfOpenHasProbe ==
    \A p \in Providers : breaker[p].state = "half-open" => Calling(p) # {}

(* A request ends, answered or given up: no thread is busy for ever. *)
EachEnds == \A t \in Threads : []<>(request[t].stage = "idle")

Best == {p \in Enabled : \A q \in Enabled \ {p} : Weight[q] < Weight[p]}

(* A provider of highest weight that has recovered for good is used again  *)
(* for good, if requests keep coming.                                      *)
Recovers ==
    \A p \in Best :
        ([]<>(\E t \in Threads : request[t].stage = "choosing" /\ request[t].tried = {})
         /\ <>[](p \in up))
            => <>[](breaker[p].state = "closed")
=============================================================================
