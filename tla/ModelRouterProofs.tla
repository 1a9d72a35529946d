------------------------- MODULE ModelRouterProofs -------------------------
(***************************************************************************)
(* Proofs about ModelRouter for every number of threads and providers, any *)
(* weights, and every threshold, timeout and number of probes.             *)
(***************************************************************************)
EXTENDS ModelRouter, TLAPS

(* What the breaker's methods return.                                      *)
LEMMA BreakerTypes ==
    ASSUME NEW b \in Breakers
    PROVE  /\ Admits(b) => Admitted(b) \in Breakers
           /\ OnSuccess(b) \in Breakers
           /\ OnFailure(b) \in Breakers
<1>1. /\ b.state \in {"closed", "open", "half-open"}
      /\ b.failures \in 0..FailureThreshold
      /\ b.probes \in 0..HalfOpenMax
      /\ 0 \in 0..FailureThreshold /\ 0 \in 0..HalfOpenMax /\ 0 \in 0..RecoveryTimeout
  BY RouterAssumption DEF Breakers
<1>2. Admits(b) => Admitted(b) \in Breakers
  <2>1. CASE b.state = "closed"
    BY <2>1 DEF Admitted
  <2>2. CASE b.state = "open"
    <3>1. Admitted(b) = [b EXCEPT !.state = "half-open", !.probes = 0, !.age = 0]
      BY <2>2 DEF Admitted
    <3> QED
      BY <1>1, <3>1 DEF Breakers
  <2>3. CASE b.state = "half-open" /\ Admits(b)
    <3>1. Admitted(b) = [b EXCEPT !.probes = b.probes + 1]
      BY <2>3 DEF Admitted
    <3>2. b.probes + 1 \in 0..HalfOpenMax
      BY <1>1, <2>3, RouterAssumption DEF Admits
    <3> QED
      BY <3>1, <3>2 DEF Breakers
  <2> QED
    BY <1>1, <2>1, <2>2, <2>3
<1>3. OnSuccess(b) \in Breakers
  BY <1>1 DEF OnSuccess, Breakers
<1>4. OnFailure(b) \in Breakers
  <2>1. AtMost(FailureThreshold, b.failures + 1) \in 0..FailureThreshold
    BY <1>1, RouterAssumption DEF AtMost
  <2> QED
    BY <1>1, <2>1 DEF OnFailure, Breakers
<1> QED
  BY <1>2, <1>3, <1>4

(* A thread in a call is calling a provider.                               *)
CallsSomebody ==
    \A t \in Threads : request[t].stage = "calling" => request[t].provider \in Providers

RouterInv == RouterOK /\ CallsSomebody

(* The breaker of one provider changes as the method called on it says.    *)
LEMMA BreakerChange ==
    ASSUME RouterOK, NEW p \in Providers, NEW b \in Breakers,
           breaker' = [breaker EXCEPT ![p] = b]
    PROVE  /\ breaker' \in [Providers -> Breakers]
           /\ breaker'[p] = b
           /\ \A q \in Providers \ {p} : breaker'[q] = breaker[q]
  BY DEF RouterOK

LEMMA RequestTypes ==
    ASSUME RouterInv, NEW t \in Threads, NEW r \in RequestStates,
           r.stage = "calling" => r.provider \in Providers,
           request' = [request EXCEPT ![t] = r]
    PROVE  request' \in [Threads -> RequestStates] /\ CallsSomebody'
  BY DEF RouterInv, RouterOK, CallsSomebody

(* A call's outcome changes the breaker of the provider that was called.   *)
LEMMA RouterInvThread ==
    ASSUME RouterInv, NEW t \in Threads,
           \/ Begin(t)
           \/ \E p \in Providers : Skip(t, p) \/ Call(t, p)
           \/ Succeeds(t) \/ Fails(t) \/ GiveUp(t)
    PROVE  RouterInv'
<1>1. /\ request[t] \in RequestStates /\ breaker \in [Providers -> Breakers]
      /\ request \in [Threads -> RequestStates] /\ up \subseteq Providers
      /\ Idle \in RequestStates
  BY DEF RouterInv, RouterOK, Idle, RequestStates
<1>2. CASE Begin(t)
  <2>1. request' = [request EXCEPT ![t] = [request[t] EXCEPT !.stage = "choosing"]]
    BY <1>1, <1>2 DEF Begin
  <2>2. [request[t] EXCEPT !.stage = "choosing"] \in RequestStates
    BY <1>1 DEF RequestStates
  <2>3. [request[t] EXCEPT !.stage = "choosing"].stage # "calling"
    BY <1>1 DEF RequestStates
  <2>4. request' \in [Threads -> RequestStates] /\ CallsSomebody'
    BY <2>1, <2>2, <2>3, RequestTypes
  <2> QED
    BY <1>1, <1>2, <2>4 DEF Begin, RouterInv, RouterOK
<1>3. ASSUME NEW p \in Providers, Skip(t, p)
      PROVE  RouterInv'
  <2> DEFINE r == [request[t] EXCEPT !.tried = request[t].tried \cup {p}]
  <2>1. request' = [request EXCEPT ![t] = r] /\ UNCHANGED <<breaker, up>>
    BY <1>1, <1>3 DEF Skip
  <2>2. r \in RequestStates
    BY <1>1 DEF RequestStates
  <2>3. r.stage # "calling"
    BY <1>1, <1>3 DEF Skip, IsNext, RequestStates
  <2> HIDE DEF r
  <2>4. request' \in [Threads -> RequestStates] /\ CallsSomebody'
    BY <2>1, <2>2, <2>3, RequestTypes
  <2> QED
    BY <1>1, <2>1, <2>4 DEF RouterInv, RouterOK
<1>4. ASSUME NEW p \in Providers, Call(t, p)
      PROVE  RouterInv'
  <2> DEFINE r == [request[t] EXCEPT !.stage = "calling", !.provider = p]
  <2>1. /\ request' = [request EXCEPT ![t] = r]
        /\ breaker' = [breaker EXCEPT ![p] = Admitted(breaker[p])]
        /\ UNCHANGED up
    BY <1>1, <1>4 DEF Call
  <2>2. r \in RequestStates /\ r.provider \in Providers
    BY <1>1 DEF RequestStates
  <2> HIDE DEF r
  <2>3. request' \in [Threads -> RequestStates] /\ CallsSomebody'
    BY <2>1, <2>2, RequestTypes
  <2>4. Admitted(breaker[p]) \in Breakers
    BY <1>1, <1>4, BreakerTypes DEF Call
  <2>5. breaker' \in [Providers -> Breakers]
    BY <1>1, <2>1, <2>4
  <2> QED
    BY <1>1, <2>1, <2>3, <2>5 DEF RouterInv, RouterOK
<1>5. CASE Succeeds(t)
  <2> DEFINE p == request[t].provider
  <2>1. /\ request' = [request EXCEPT ![t] = Idle]
        /\ breaker' = [breaker EXCEPT ![p] = OnSuccess(breaker[p])]
        /\ UNCHANGED up /\ p \in Providers
    BY <1>1, <1>5 DEF Succeeds
  <2>2. request' \in [Threads -> RequestStates] /\ CallsSomebody'
    BY <1>1, <2>1, RequestTypes DEF Idle
  <2>3. OnSuccess(breaker[p]) \in Breakers
    BY <1>1, <2>1, BreakerTypes
  <2> HIDE DEF p
  <2>4. breaker' \in [Providers -> Breakers]
    BY <1>1, <2>1, <2>3
  <2> QED
    BY <1>1, <2>1, <2>2, <2>4 DEF RouterInv, RouterOK
<1>6. CASE Fails(t)
  <2> DEFINE p == request[t].provider
             r == [stage |-> "choosing", tried |-> request[t].tried \cup {p},
                   provider |-> NoProvider]
  <2>1. p \in Providers
    BY <1>6 DEF Fails, RouterInv, CallsSomebody
  <2>2. /\ request' = [request EXCEPT ![t] = r]
        /\ breaker' = [breaker EXCEPT ![p] = OnFailure(breaker[p])]
        /\ UNCHANGED up
    BY <1>1, <1>6 DEF Fails
  <2>3. r \in RequestStates /\ r.stage # "calling"
    BY <1>1, <2>1 DEF RequestStates
  <2>4. OnFailure(breaker[p]) \in Breakers
    BY <1>1, <2>1, BreakerTypes
  <2> HIDE DEF p, r
  <2>5. request' \in [Threads -> RequestStates] /\ CallsSomebody'
    BY <2>2, <2>3, RequestTypes
  <2>6. breaker' \in [Providers -> Breakers]
    BY <1>1, <2>2, <2>4
  <2> QED
    BY <1>1, <2>2, <2>5, <2>6 DEF RouterInv, RouterOK
<1>7. CASE GiveUp(t)
  <2>1. request' \in [Threads -> RequestStates] /\ CallsSomebody'
    BY <1>1, <1>7, RequestTypes DEF GiveUp, Idle
  <2> QED
    BY <1>1, <1>7, <2>1 DEF GiveUp, RouterInv, RouterOK
<1> QED
  BY <1>2, <1>3, <1>4, <1>5, <1>6, <1>7

LEMMA RouterInvStep ==
    ASSUME RouterInv, [NextRouter]_routerVars
    PROVE  RouterInv'
<1>1. CASE SecondPasses
  <2>1. ASSUME NEW b \in Breakers
        PROVE  [b EXCEPT !.age = AtMost(RecoveryTimeout, b.age + 1)] \in Breakers
    <3>1. AtMost(RecoveryTimeout, b.age + 1) \in 0..RecoveryTimeout
      BY RouterAssumption DEF AtMost, Breakers
    <3> QED
      BY <3>1 DEF Breakers
  <2>2. breaker' \in [Providers -> Breakers]
    BY <1>1, <2>1 DEF SecondPasses, RouterInv, RouterOK
  <2> QED
    BY <1>1, <2>2 DEF SecondPasses, RouterInv, RouterOK, CallsSomebody
<1>2. ASSUME NEW p \in Providers, GoesDown(p) \/ ComesUp(p)
      PROVE  RouterInv'
  BY <1>2 DEF GoesDown, ComesUp, RouterInv, RouterOK, CallsSomebody
<1>3. CASE UNCHANGED routerVars
  BY <1>3 DEF routerVars, RouterInv, RouterOK, CallsSomebody
<1> QED
  BY <1>1, <1>2, <1>3, RouterInvThread DEF NextRouter

LEMMA RouterInitially == InitRouter => RouterInv
<1> SUFFICES ASSUME InitRouter PROVE RouterInv
  OBVIOUS
<1>1. Idle \in RequestStates /\ Idle.stage # "calling"
  BY DEF Idle, RequestStates
<1>2. [state |-> "closed", failures |-> 0, probes |-> 0, age |-> 0] \in Breakers
  BY RouterAssumption DEF Breakers
<1> QED
  BY <1>1, <1>2 DEF InitRouter, RouterInv, RouterOK, CallsSomebody

LEMMA RouterInvHolds == RouterSpec => []RouterInv
  BY RouterInitially, RouterInvStep, PTL DEF RouterSpec

(* Breakers and requests have their types in every reachable state.        *)
THEOREM RouterTypes == RouterSpec => []RouterOK
<1>1. RouterInv => RouterOK
  BY DEF RouterInv
<1> QED
  BY <1>1, RouterInvHolds, PTL

-----------------------------------------------------------------------------
(* A step changes breakers by their methods, or by the passing of time.    *)
ByMethod(b, c) ==
    \/ c = b
    \/ Admits(b) /\ c = Admitted(b)
    \/ c = OnSuccess(b)
    \/ c = OnFailure(b)
    \/ c = [b EXCEPT !.age = AtMost(RecoveryTimeout, @ + 1)]

LEMMA BreakersChangeByMethod ==
    ASSUME RouterInv, [NextRouter]_routerVars
    PROVE  \A p \in Providers : ByMethod(breaker[p], breaker'[p])
<1>1. breaker \in [Providers -> Breakers]
  BY DEF RouterInv, RouterOK
<1>2. CASE UNCHANGED breaker
  BY <1>2 DEF ByMethod
<1>3. ASSUME NEW q \in Providers, NEW c,
             breaker' = [breaker EXCEPT ![q] = c], ByMethod(breaker[q], c)
      PROVE  \A p \in Providers : ByMethod(breaker[p], breaker'[p])
  <2> SUFFICES ASSUME NEW p \in Providers
               PROVE  ByMethod(breaker[p], breaker'[p])
    OBVIOUS
  <2>1. CASE p = q
    <3>1. breaker'[q] = c
      BY <1>1, <1>3
    <3> QED
      BY <1>3, <2>1, <3>1
  <2>2. CASE p # q
    <3>1. breaker'[p] = breaker[p]
      BY <1>1, <1>3, <2>2
    <3> QED
      BY <3>1 DEF ByMethod
  <2> QED
    BY <2>1, <2>2
<1>4. ASSUME NEW t \in Threads, NEW p \in Providers, Call(t, p)
      PROVE  \A q \in Providers : ByMethod(breaker[q], breaker'[q])
  <2>1. breaker' = [breaker EXCEPT ![p] = Admitted(breaker[p])] /\ Admits(breaker[p])
    BY <1>1, <1>4 DEF Call
  <2>2. ByMethod(breaker[p], Admitted(breaker[p]))
    BY <2>1 DEF ByMethod
  <2> QED
    BY <1>3, <2>1, <2>2
<1>5. ASSUME NEW t \in Threads, Succeeds(t) \/ Fails(t)
      PROVE  \A q \in Providers : ByMethod(breaker[q], breaker'[q])
  <2> DEFINE p == request[t].provider
  <2>1. /\ p \in Providers
        /\ \/ breaker' = [breaker EXCEPT ![p] = OnSuccess(breaker[p])]
           \/ breaker' = [breaker EXCEPT ![p] = OnFailure(breaker[p])]
    BY <1>1, <1>5 DEF Succeeds, Fails, RouterInv, CallsSomebody
  <2>2. ByMethod(breaker[p], OnSuccess(breaker[p]))
        /\ ByMethod(breaker[p], OnFailure(breaker[p]))
    BY DEF ByMethod
  <2> HIDE DEF p
  <2> QED
    BY <1>3, <2>1, <2>2
<1>6. CASE SecondPasses
  <2> SUFFICES ASSUME NEW p \in Providers
               PROVE  ByMethod(breaker[p], breaker'[p])
    OBVIOUS
  <2>1. breaker'[p] = IF breaker[p].state = "open"
                      THEN [breaker[p] EXCEPT !.age = AtMost(RecoveryTimeout, @ + 1)]
                      ELSE breaker[p]
    BY <1>6 DEF SecondPasses
  <2> QED
    BY <2>1 DEF ByMethod
<1> QED
  BY <1>2, <1>4, <1>5, <1>6
     DEF NextRouter, Begin, Skip, GiveUp, GoesDown, ComesUp, routerVars

Healthy(b) == b.state = "closed" => b.failures < FailureThreshold

(* No method leaves a breaker closed at its threshold: OnFailure opens it  *)
(* there, and OnSuccess, the only one to close it, forgives the failures.  *)
LEMMA MethodsKeepHealth ==
    ASSUME NEW b \in Breakers, NEW c, Healthy(b), ByMethod(b, c)
    PROVE  Healthy(c)
<1>1. b.state \in {"closed", "open", "half-open"} /\ b.failures \in 0..FailureThreshold
  BY DEF Breakers
<1>2. CASE Admits(b) /\ c = Admitted(b)
  BY <1>1, <1>2 DEF Admitted, Healthy, Breakers
<1>3. CASE c = OnSuccess(b)
  <2>1. c.failures = 0
    BY <1>3 DEF OnSuccess, Breakers
  <2> QED
    BY <2>1, RouterAssumption DEF Healthy
<1>4. CASE c = OnFailure(b)
  <2> DEFINE count == AtMost(FailureThreshold, b.failures + 1)
  <2>1. /\ c.failures = count
        /\ c.state = IF b.state = "half-open" \/ count >= FailureThreshold
                     THEN "open" ELSE b.state
    BY <1>4 DEF OnFailure, Breakers
  <2>2. count \in Nat
    BY <1>1, RouterAssumption DEF AtMost
  <2> QED
    BY <2>1, <2>2, RouterAssumption DEF Healthy
<1>5. CASE c = [b EXCEPT !.age = AtMost(RecoveryTimeout, @ + 1)]
  BY <1>5 DEF Healthy, Breakers
<1> QED
  BY <1>2, <1>3, <1>4, <1>5 DEF ByMethod

(* A breaker that admits every request has not reached its threshold.      *)
THEOREM ClosedIsHealthy == RouterSpec => []ClosedMeansHealthy
<1>1. InitRouter => ClosedMeansHealthy
  BY RouterAssumption DEF InitRouter, ClosedMeansHealthy
<1>2. RouterInv /\ ClosedMeansHealthy /\ [NextRouter]_routerVars => ClosedMeansHealthy'
  <2> SUFFICES ASSUME RouterInv, ClosedMeansHealthy, [NextRouter]_routerVars,
                      NEW p \in Providers
               PROVE  Healthy(breaker'[p])
    BY DEF ClosedMeansHealthy, Healthy
  <2>1. breaker[p] \in Breakers /\ Healthy(breaker[p])
    BY DEF RouterInv, RouterOK, ClosedMeansHealthy, Healthy
  <2>2. ByMethod(breaker[p], breaker'[p])
    BY BreakersChangeByMethod
  <2> QED
    BY <2>1, <2>2, MethodsKeepHealth
<1> QED
  BY <1>1, <1>2, RouterInvHolds, PTL DEF RouterSpec

-----------------------------------------------------------------------------
(* An outcome, whichever call it belongs to, ends the half-open state.     *)
LEMMA OutcomeDecides ==
    ASSUME NEW b \in Breakers
    PROVE  OnSuccess(b).state # "half-open" /\ OnFailure(b).state # "half-open"
  BY DEF OnSuccess, OnFailure, Breakers

LEMMA ProbeStep ==
    ASSUME RouterInv, HalfOpenHasProbe, [NextRouter]_routerVars
    PROVE  HalfOpenHasProbe'
<1>1. /\ breaker \in [Providers -> Breakers] /\ request \in [Threads -> RequestStates]
  BY DEF RouterInv, RouterOK
<1>2. ASSUME NEW t \in Threads, request[t].stage # "calling", UNCHANGED breaker,
             \A u \in Threads \ {t} : request'[u] = request[u]
      PROVE  HalfOpenHasProbe'
  BY <1>2 DEF HalfOpenHasProbe, Calling
<1>3. ASSUME NEW t \in Threads, Begin(t) \/ GiveUp(t) \/ \E p \in Providers : Skip(t, p)
      PROVE  HalfOpenHasProbe'
  <2>1. /\ request[t].stage # "calling" /\ UNCHANGED breaker
        /\ \A u \in Threads \ {t} : request'[u] = request[u]
    BY <1>1, <1>3 DEF Begin, GiveUp, Skip, IsNext
  <2> QED
    BY <1>2, <2>1
<1>4. ASSUME NEW t \in Threads, NEW p \in Providers, Call(t, p)
      PROVE  HalfOpenHasProbe'
  <2>1. /\ request[t].stage # "calling"
        /\ request'[t].stage = "calling" /\ request'[t].provider = p
        /\ \A u \in Threads \ {t} : request'[u] = request[u]
        /\ \A q \in Providers \ {p} : breaker'[q] = breaker[q]
    BY <1>1, <1>4 DEF Call, IsNext, RequestStates
  <2> QED
    BY <2>1 DEF HalfOpenHasProbe, Calling
<1>5. ASSUME NEW t \in Threads, Succeeds(t) \/ Fails(t)
      PROVE  HalfOpenHasProbe'
  <2> DEFINE p == request[t].provider
  <2>1. /\ p \in Providers
        /\ breaker'[p] = OnSuccess(breaker[p]) \/ breaker'[p] = OnFailure(breaker[p])
        /\ \A q \in Providers \ {p} : breaker'[q] = breaker[q]
        /\ \A u \in Threads \ {t} : request'[u] = request[u]
    BY <1>1, <1>5 DEF Succeeds, Fails, RouterInv, CallsSomebody
  <2>2. breaker'[p].state # "half-open"
    BY <1>1, <2>1, OutcomeDecides
  <2> QED
    BY <2>1, <2>2 DEF HalfOpenHasProbe, Calling
<1>6. CASE SecondPasses
  <2>1. UNCHANGED request /\ \A p \in Providers : breaker'[p].state = breaker[p].state
    BY <1>1, <1>6 DEF SecondPasses, Breakers
  <2> QED
    BY <2>1 DEF HalfOpenHasProbe, Calling
<1>7. CASE UNCHANGED <<breaker, request>>
  BY <1>7 DEF HalfOpenHasProbe, Calling
<1> QED
  BY <1>3, <1>4, <1>5, <1>6, <1>7 DEF NextRouter, GoesDown, ComesUp, routerVars

(* A half-open breaker always waits for a call that is under way: it never *)
(* refuses requests while nobody is left to decide its state.              *)
THEOREM HalfOpenIsProbed == RouterSpec => []HalfOpenHasProbe
<1>1. InitRouter => HalfOpenHasProbe
  BY DEF InitRouter, HalfOpenHasProbe
<1>2. RouterInv /\ HalfOpenHasProbe /\ [NextRouter]_routerVars => HalfOpenHasProbe'
  BY ProbeStep
<1> QED
  BY <1>1, <1>2, RouterInvHolds, PTL DEF RouterSpec
=============================================================================
