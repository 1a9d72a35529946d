-------------------------- MODULE AiGatewayProofs --------------------------
(***************************************************************************)
(* Proofs about AiGateway for every number of callers and questions, every *)
(* key function, cache size, time to live and rate.                        *)
(***************************************************************************)
EXTENDS AiGateway, RateLimiterProofs, FiniteSetTheorems

(* A step of the gateway does to the limiter one step of the limiter.      *)
LEMMA LimiterStep ==
    ASSUME NextGateway
    PROVE  [NextLimiter]_limiterVars
<1>1. ASSUME NEW c \in Callers, NEW q \in Questions,
             CallRefused(c, q) \/ ChatAllowed(c, q) \/ StreamAllowed(c, q)
      PROVE  NextLimiter
  BY <1>1 DEF CallRefused, ChatAllowed, StreamAllowed, NextLimiter
<1>2. ASSUME NEW c \in Callers,
             \/ CacheHit(c) \/ CacheMiss(c) \/ EndpointFails(c) \/ StreamEnds(c)
             \/ \E final \in BOOLEAN : EndpointAnswers(c, final)
             \/ \E kept \in SUBSET Keys : Store(c, kept)
      PROVE  UNCHANGED limiterVars
  BY <1>2 DEF CacheHit, CacheMiss, EndpointFails, StreamEnds, EndpointAnswers, Store
<1>3. ASSUME Elapse
      PROVE  NextLimiter
  BY <1>3 DEF Elapse, NextLimiter
<1> QED
  BY <1>1, <1>2, <1>3 DEF NextGateway

(* Whatever races in the gateway, its limiter is the limiter of            *)
(* RateLimiter: every call to the endpoint is one that Allow has granted.  *)
THEOREM GatewayLimits == GatewaySpec => LimiterSpec
<1>1. InitGateway => InitLimiter
  BY DEF InitGateway
<1>2. [NextGateway]_gatewayVars => [NextLimiter]_limiterVars
  BY LimiterStep DEF gatewayVars, limiterVars
<1> QED
  BY <1>1, <1>2, PTL DEF GatewaySpec, LimiterSpec

(* The gateway's grants stay within burst and rate.                        *)
THEOREM GatewayWithinRate == GatewaySpec => []RateKept
  BY GatewayLimits, GrantsWithinRate, PTL

-----------------------------------------------------------------------------
(* A call under way has a question; what is about to be stored is a        *)
(* response.                                                               *)
CallsUnderWay ==
    \A c \in Callers :
        /\ call[c].stage # "idle" => call[c].question \in Questions
        /\ call[c].stage = "answered" => call[c].response \in Responses

GatewayInv == GatewayOK /\ CallsUnderWay

LEMMA CallStarts ==
    ASSUME GatewayInv, NEW c \in Callers, NEW q \in Questions,
           NEW stage \in {"idle", "allowed", "streaming"}, Starts(c, q, stage)
    PROVE  call' \in [Callers -> Calls] /\ CallsUnderWay'
  BY DEF GatewayInv, GatewayOK, CallsUnderWay, Starts, Calls

LEMMA CallBecomes ==
    ASSUME GatewayInv, NEW c \in Callers, call[c].stage # "idle",
           NEW stage \in {"idle", "asked", "answered"},
           NEW response \in Responses \cup {None},
           stage = "answered" => response \in Responses,
           Becomes(c, stage, response)
    PROVE  call' \in [Callers -> Calls] /\ CallsUnderWay'
  BY DEF GatewayInv, GatewayOK, CallsUnderWay, Becomes, Calls

(* The actions of one caller between its start and its end.                *)
LEMMA GatewayInvAction ==
    ASSUME GatewayInv, NEW c \in Callers,
           \/ CacheHit(c) \/ CacheMiss(c) \/ EndpointFails(c) \/ StreamEnds(c)
           \/ \E final \in BOOLEAN : EndpointAnswers(c, final)
           \/ \E kept \in SUBSET Keys : Store(c, kept)
    PROVE  /\ call' \in [Callers -> Calls] /\ CallsUnderWay'
           /\ cache' \in [Keys -> Entries \cup {None}]
<1>1. cache \in [Keys -> Entries \cup {None}] /\ now \in Nat
  BY DEF GatewayInv, GatewayOK, LimiterOK
<1>2. CASE CacheHit(c)
  <2> DEFINE k == CacheKey[call[c].question]
             response == [content |-> cache[k].content, toolCalls |-> FALSE]
  <2>1. k \in Keys /\ cache[k] \in Entries
    BY <1>1, <1>2, GatewayAssumption DEF CacheHit, Fresh, GatewayInv, CallsUnderWay
  <2>2. response \in Responses
    BY <2>1 DEF Entries, Responses
  <2>3. Becomes(c, "idle", response) /\ UNCHANGED cache
    BY <1>2 DEF CacheHit
  <2>4. call[c].stage # "idle"
    BY <1>2 DEF CacheHit
  <2> HIDE DEF response
  <2> QED
    BY <1>1, <2>2, <2>3, <2>4, CallBecomes
<1>3. CASE CacheMiss(c)
  <2>1. call[c].stage # "idle" /\ Becomes(c, "asked", None)
    BY <1>3 DEF CacheMiss
  <2> QED
    BY <1>1, <1>3, <2>1, CallBecomes DEF CacheMiss
<1>4. CASE EndpointFails(c) \/ StreamEnds(c)
  <2>1. call[c].stage # "idle" /\ Becomes(c, "idle", None) /\ UNCHANGED cache
    BY <1>4 DEF EndpointFails, StreamEnds
  <2> QED
    BY <1>1, <2>1, CallBecomes
<1>5. ASSUME NEW final \in BOOLEAN, EndpointAnswers(c, final)
      PROVE  /\ call' \in [Callers -> Calls] /\ CallsUnderWay'
             /\ cache' \in [Keys -> Entries \cup {None}]
  <2> DEFINE response == [content |-> [question |-> call[c].question, final |-> final],
                          toolCalls |-> ~final]
  <2>1. call[c].stage # "idle" /\ Becomes(c, "answered", response) /\ UNCHANGED cache
    BY <1>5 DEF EndpointAnswers
  <2>2. call[c].question \in Questions
    BY <2>1 DEF GatewayInv, CallsUnderWay
  <2>3. response \in Responses
    BY <2>2 DEF Responses, Contents
  <2> HIDE DEF response
  <2> QED
    BY <1>1, <2>1, <2>3, CallBecomes
<1>6. ASSUME NEW kept \in SUBSET Keys, Store(c, kept)
      PROVE  /\ call' \in [Callers -> Calls] /\ CallsUnderWay'
             /\ cache' \in [Keys -> Entries \cup {None}]
  <2>1. /\ call[c].stage = "answered"
        /\ call' = [call EXCEPT ![c].stage = "idle"]
        /\ cache' = [k \in Keys |->
               IF k = CacheKey[call[c].question]
               THEN [content |-> call[c].response.content, createdAt |-> now]
               ELSE IF k \in kept THEN cache[k] ELSE None]
    BY <1>6 DEF Store
  <2>2. [content |-> call[c].response.content, createdAt |-> now] \in Entries
    BY <1>1, <2>1 DEF GatewayInv, CallsUnderWay, Responses, Entries
  <2>3. cache' \in [Keys -> Entries \cup {None}]
    BY <1>1, <2>1, <2>2
  <2>4. call' \in [Callers -> Calls] /\ CallsUnderWay'
    BY <2>1 DEF GatewayInv, GatewayOK, CallsUnderWay, Calls
  <2> QED
    BY <2>3, <2>4
<1> QED
  BY <1>2, <1>3, <1>4, <1>5, <1>6

LEMMA GatewayInvStep ==
    ASSUME GatewayInv, [NextGateway]_gatewayVars
    PROVE  GatewayInv'
<1>1. LimiterOK'
  BY LimiterStep, LimiterOKStep DEF GatewayInv, GatewayOK, gatewayVars, limiterVars
<1>2. ASSUME NEW c \in Callers, NEW q \in Questions,
             CallRefused(c, q) \/ ChatAllowed(c, q) \/ StreamAllowed(c, q)
      PROVE  GatewayInv'
  <2>1. /\ Starts(c, q, "idle") \/ Starts(c, q, "allowed") \/ Starts(c, q, "streaming")
        /\ UNCHANGED cache
    BY <1>2 DEF CallRefused, ChatAllowed, StreamAllowed
  <2>2. call' \in [Callers -> Calls] /\ CallsUnderWay'
    BY <2>1, CallStarts
  <2> QED
    BY <1>1, <2>1, <2>2 DEF GatewayInv, GatewayOK
<1>3. ASSUME NEW c \in Callers,
             \/ CacheHit(c) \/ CacheMiss(c) \/ EndpointFails(c) \/ StreamEnds(c)
             \/ \E final \in BOOLEAN : EndpointAnswers(c, final)
             \/ \E kept \in SUBSET Keys : Store(c, kept)
      PROVE  GatewayInv'
  BY <1>1, <1>3, GatewayInvAction DEF GatewayInv, GatewayOK
<1>4. CASE UNCHANGED <<call, cache>>
  BY <1>1, <1>4 DEF GatewayInv, GatewayOK, CallsUnderWay
<1> QED
  BY <1>2, <1>3, <1>4 DEF NextGateway, Elapse, gatewayVars

LEMMA GatewayInvInit == InitGateway => GatewayInv
<1> SUFFICES ASSUME InitGateway PROVE GatewayInv
  OBVIOUS
<1>1. LimiterOK
  BY LimiterAssumption DEF InitGateway, InitLimiter, LimiterOK, Capacity
<1> QED
  BY <1>1 DEF InitGateway, GatewayInv, GatewayOK, CallsUnderWay, Calls

(* The gateway's state has its types in every reachable state.             *)
THEOREM GatewayTypes == GatewaySpec => []GatewayOK
<1>1. GatewayInv => GatewayOK
  BY DEF GatewayInv
<1> QED
  BY <1>1, GatewayInvInit, GatewayInvStep, PTL DEF GatewaySpec

-----------------------------------------------------------------------------
(* The cache is finite, whatever the keys are, and bounded.                *)
SmallCache == IsFiniteSet(Stored) /\ CacheBounded

LEMMA StoreKeepsSmall ==
    ASSUME SmallCache, NEW c \in Callers, NEW kept \in SUBSET Keys, Store(c, kept)
    PROVE  SmallCache'
<1> DEFINE key == CacheKey[call[c].question]
<1>1. IsFiniteSet(kept) /\ Cardinality(kept) \in Nat /\ Cardinality(kept) <= MaxEntries - 1
  <2>1. kept \subseteq Stored
    BY DEF Store, Survives
  <2>2. IsFiniteSet(kept) /\ Cardinality(kept) \in Nat /\ Cardinality(Stored) \in Nat
    BY <2>1, FS_Subset, FS_CardinalityType DEF SmallCache
  <2>3. Cardinality(kept) = IF Cardinality(Stored) < MaxEntries
                            THEN Cardinality(Stored) ELSE MaxEntries - 1
    BY DEF Store, Survives
  <2> QED
    BY <2>2, <2>3, GatewayAssumption
<1>2. Stored' \subseteq kept \cup {key}
  BY DEF Store, Stored
<1>3. /\ IsFiniteSet(kept \cup {key})
      /\ Cardinality(kept \cup {key}) \in Nat
      /\ Cardinality(kept \cup {key}) <= Cardinality(kept) + 1
  <2> HIDE DEF key
  <2>1. /\ IsFiniteSet(kept \cup {key})
        /\ Cardinality(kept \cup {key}) =
               IF key \in kept THEN Cardinality(kept) ELSE Cardinality(kept) + 1
    BY <1>1, FS_AddElement, Zenon
  <2> QED
    BY <1>1, <2>1
<1>4. IsFiniteSet(Stored') /\ Cardinality(Stored') <= Cardinality(kept \cup {key})
  BY <1>2, <1>3, FS_Subset
<1>5. Cardinality(Stored') \in Nat
  BY <1>4, FS_CardinalityType
<1> QED
  BY <1>1, <1>3, <1>4, <1>5, GatewayAssumption DEF SmallCache, CacheBounded

(* However the callers race, the cache never outgrows cache_max_entries.   *)
THEOREM CacheStaysBounded == GatewaySpec => []CacheBounded
<1>1. InitGateway => SmallCache
  <2> SUFFICES ASSUME InitGateway PROVE SmallCache
    OBVIOUS
  <2>1. Stored = {}
    BY DEF InitGateway, Stored
  <2> QED
    BY <2>1, FS_EmptySet, GatewayAssumption DEF SmallCache, CacheBounded
<1>2. SmallCache /\ [NextGateway]_gatewayVars => SmallCache'
  <2> SUFFICES ASSUME SmallCache, [NextGateway]_gatewayVars PROVE SmallCache'
    OBVIOUS
  <2>1. ASSUME Stored' \subseteq Stored
        PROVE  SmallCache'
    <3>1. /\ IsFiniteSet(Stored') /\ Cardinality(Stored') <= Cardinality(Stored)
      BY <2>1, FS_Subset DEF SmallCache
    <3>2. Cardinality(Stored') \in Nat /\ Cardinality(Stored) \in Nat
      BY <3>1, FS_CardinalityType DEF SmallCache
    <3> QED
      BY <3>1, <3>2, GatewayAssumption DEF SmallCache, CacheBounded
  <2>2. CASE UNCHANGED cache
    BY <2>1, <2>2 DEF Stored
  <2>3. ASSUME NEW c \in Callers, CacheMiss(c)
        PROVE  SmallCache'
    <3>1. Stored' \subseteq Stored
      <4> SUFFICES ASSUME NEW k \in Keys, cache'[k] # None
                   PROVE  cache[k] # None
        BY DEF Stored
      <4>1. cache' = [cache EXCEPT ![CacheKey[call[c].question]] = None]
        BY <2>3 DEF CacheMiss
      <4>2. CASE k \in DOMAIN cache
        BY <4>1, <4>2
      <4> QED
        BY <2>3 DEF CacheMiss
    <3> QED
      BY <2>1, <3>1
  <2>4. ASSUME NEW c \in Callers, NEW kept \in SUBSET Keys, Store(c, kept)
        PROVE  SmallCache'
    BY <2>4, StoreKeepsSmall
  <2> QED
    BY <2>2, <2>3, <2>4
       DEF NextGateway, CallRefused, ChatAllowed, StreamAllowed, CacheHit,
           EndpointFails, EndpointAnswers, StreamEnds, Elapse, gatewayVars
<1> QED
  BY <1>1, <1>2, PTL DEF GatewaySpec, SmallCache

-----------------------------------------------------------------------------
(* A cached content was written under the key it is stored at, and so was  *)
(* the one that a caller is about to store.                                *)
CachedUnderKey ==
    /\ \A k \in Keys : cache[k] # None => CacheKey[cache[k].content.question] = k
    /\ \A c \in Callers :
          call[c].stage = "answered" =>
              CacheKey[call[c].response.content.question] = CacheKey[call[c].question]

KeyInv == GatewayInv /\ CachedUnderKey /\ OwnAnswer

LEMMA BecomesFields ==
    ASSUME GatewayOK, NEW c \in Callers, NEW stage, NEW response,
           Becomes(c, stage, response)
    PROVE  /\ call'[c].stage = stage
           /\ call'[c].response = response
           /\ call'[c].question = call[c].question
           /\ \A d \in Callers \ {c} : call'[d] = call[d]
  BY DEF GatewayOK, Calls, Becomes

LEMMA KeyInvAction ==
    ASSUME KeyInv, NEW c \in Callers,
           \/ CacheHit(c) \/ CacheMiss(c) \/ EndpointFails(c) \/ StreamEnds(c)
           \/ \E final \in BOOLEAN : EndpointAnswers(c, final)
           \/ \E kept \in SUBSET Keys : Store(c, kept)
    PROVE  CachedUnderKey' /\ OwnAnswer'
<1> USE DEF KeyInv, GatewayInv, GatewayOK, CachedUnderKey, OwnAnswer
<1>1. call \in [Callers -> Calls] /\ cache \in [Keys -> Entries \cup {None}]
  OBVIOUS
<1>2. CASE CacheHit(c)
  <2> DEFINE k == CacheKey[call[c].question]
  <2>1. /\ k \in Keys /\ CacheKey[cache[k].content.question] = k
        /\ Becomes(c, "idle", [content |-> cache[k].content, toolCalls |-> FALSE])
        /\ UNCHANGED cache
    BY <1>2, GatewayAssumption DEF CacheHit, Fresh, CallsUnderWay
  <2>2. /\ call'[c].stage = "idle"
        /\ call'[c].response.content = cache[k].content
        /\ call'[c].question = call[c].question
        /\ \A d \in Callers \ {c} : call'[d] = call[d]
    BY <2>1, BecomesFields
  <2> QED
    BY <2>1, <2>2
<1>3. CASE CacheMiss(c)
  BY <1>1, <1>3 DEF CacheMiss, Becomes, Calls
<1>4. CASE EndpointFails(c) \/ StreamEnds(c)
  BY <1>1, <1>4 DEF EndpointFails, StreamEnds, Becomes, Calls
<1>5. ASSUME NEW final \in BOOLEAN, EndpointAnswers(c, final)
      PROVE  CachedUnderKey' /\ OwnAnswer'
  <2> DEFINE response == [content |-> [question |-> call[c].question, final |-> final],
                          toolCalls |-> ~final]
  <2>1. Becomes(c, "answered", response) /\ UNCHANGED cache
    BY <1>5 DEF EndpointAnswers
  <2>2. response.content.question = call[c].question
    OBVIOUS
  <2> HIDE DEF response
  <2>3. /\ call'[c].response = response
        /\ call'[c].question = call[c].question
        /\ \A d \in Callers \ {c} : call'[d] = call[d]
    BY <2>1, BecomesFields
  <2> QED
    BY <2>1, <2>2, <2>3
<1>6. ASSUME NEW kept \in SUBSET Keys, Store(c, kept)
      PROVE  CachedUnderKey' /\ OwnAnswer'
  <2>1. /\ call[c].stage = "answered"
        /\ call' = [call EXCEPT ![c].stage = "idle"]
        /\ cache' = [k \in Keys |->
               IF k = CacheKey[call[c].question]
               THEN [content |-> call[c].response.content, createdAt |-> now]
               ELSE IF k \in kept THEN cache[k] ELSE None]
    BY <1>6 DEF Store
  <2> QED
    BY <1>1, <2>1 DEF Calls
<1> QED
  BY <1>2, <1>3, <1>4, <1>5, <1>6

(* Whoever fills the cache, a caller is given content that was written for *)
(* a conversation with its own key.                                        *)
THEOREM AnswersAreOwn == GatewaySpec => []OwnAnswer
<1>1. InitGateway => KeyInv
  <2> SUFFICES ASSUME InitGateway PROVE KeyInv
    OBVIOUS
  <2> QED
    BY GatewayInvInit DEF InitGateway, KeyInv, CachedUnderKey, OwnAnswer
<1>2. KeyInv /\ [NextGateway]_gatewayVars => KeyInv'
  <2> SUFFICES ASSUME KeyInv, [NextGateway]_gatewayVars PROVE KeyInv'
    OBVIOUS
  <2>1. GatewayInv'
    BY GatewayInvStep DEF KeyInv
  <2>2. ASSUME NEW c \in Callers, NEW q \in Questions,
               CallRefused(c, q) \/ ChatAllowed(c, q) \/ StreamAllowed(c, q)
        PROVE  KeyInv'
    <3>1. /\ Starts(c, q, "idle") \/ Starts(c, q, "allowed") \/ Starts(c, q, "streaming")
          /\ UNCHANGED cache
      BY <2>2 DEF CallRefused, ChatAllowed, StreamAllowed
    <3> QED
      BY <2>1, <3>1
         DEF Starts, KeyInv, CachedUnderKey, OwnAnswer, GatewayInv, GatewayOK, Calls
  <2>3. ASSUME NEW c \in Callers,
               \/ CacheHit(c) \/ CacheMiss(c) \/ EndpointFails(c) \/ StreamEnds(c)
               \/ \E final \in BOOLEAN : EndpointAnswers(c, final)
               \/ \E kept \in SUBSET Keys : Store(c, kept)
        PROVE  KeyInv'
    BY <2>1, <2>3, KeyInvAction DEF KeyInv
  <2>4. CASE UNCHANGED <<call, cache>>
    BY <2>1, <2>4 DEF KeyInv, CachedUnderKey, OwnAnswer
  <2> QED
    BY <2>2, <2>3, <2>4 DEF NextGateway, Elapse, gatewayVars
<1> QED
  BY <1>1, <1>2, PTL DEF GatewaySpec, KeyInv
=============================================================================
