----------------------------- MODULE AiGateway -----------------------------
(***************************************************************************)
(* AiGateway (ai_gateway.cpp): the proxy in front of the model's endpoint, *)
(* with the rate limiter of RateLimiter and a response cache.  Callers are *)
(* the threads that serve requests; between two steps of one, others run:  *)
(* only the limiter and the cache are locked, each on its own.             *)
(***************************************************************************)
EXTENDS RateLimiter, FiniteSets

CONSTANTS
    Callers,     (* threads that call Chat or ChatStream                       *)
    Questions,   (* conversations that callers send                            *)
    Keys,        (* cache keys                                                 *)
    CacheKey,    (* the key of each question: BuildCacheKey leaves out         *)
                 (* what tools are offered and whose endpoint is asked         *)
    MaxEntries,  (* cache_max_entries                                          *)
    TTL,         (* cache_ttl_seconds, in ticks                                *)
    None         (* nothing                                                    *)

ASSUME GatewayAssumption ==
    /\ CacheKey \in [Questions -> Keys]
    /\ MaxEntries \in Nat \ {0}
    /\ TTL \in Nat
    /\ None \notin Questions

VARIABLES
    call,      (* what each caller is doing, and what its last call gave       *)
    cache      (* cache_: by key, None or [content, createdAt]                 *)

gatewayVars == <<limiterVars, call, cache>>

(* What the endpoint wrote: a final answer, or words that accompany a      *)
(* request to call tools (most often none at all).                         *)
Contents == [question: Questions, final: BOOLEAN]

(* AiChatResponse, when success is true. *)
Responses == [content: Contents, toolCalls: BOOLEAN]

Calls == [stage: {"idle", "allowed", "asked", "answered", "streaming"},
          question: Questions \cup {None},
          response: Responses \cup {None}]

Entries == [content: Contents, createdAt: Nat]

InitGateway ==
    /\ InitLimiter
    /\ call = [c \in Callers |->
                 [stage |-> "idle", question |-> None, response |-> None]]
    /\ cache = [k \in Keys |-> None]

Becomes(c, stage, response) ==
    call' = [call EXCEPT ![c].stage = stage, ![c].response = response]

Starts(c, q, stage) ==
    call' = [call EXCEPT ![c] = [stage |-> stage, question |-> q, response |-> None]]

(* Chat and ChatStream begin with the limiter; a refused call ends at once *)
(* with the error "rate limit exceeded".                                   *)
CallRefused(c, q) ==
    /\ call[c].stage = "idle"
    /\ Deny
    /\ Starts(c, q, "idle")
    /\ UNCHANGED cache

ChatAllowed(c, q) ==
    /\ call[c].stage = "idle"
    /\ Allow
    /\ Starts(c, q, "allowed")
    /\ UNCHANGED cache

StreamAllowed(c, q) ==
    /\ call[c].stage = "idle"
    /\ Allow
    /\ Starts(c, q, "streaming")
    /\ UNCHANGED cache

Fresh(k) == cache[k] # None /\ now - cache[k].createdAt < TTL

(* A hit restores the content of the response and nothing else of it. *)
CacheHit(c) ==
    LET k == CacheKey[call[c].question]
    IN  /\ call[c].stage = "allowed"
        /\ Fresh(k)
        /\ Becomes(c, "idle", [content |-> cache[k].content, toolCalls |-> FALSE])
        /\ UNCHANGED <<limiterVars, cache>>

(* A miss drops the entry if it has expired, and asks the endpoint. *)
CacheMiss(c) ==
    LET k == CacheKey[call[c].question]
    IN  /\ call[c].stage = "allowed"
        /\ ~Fresh(k)
        /\ Becomes(c, "asked", None)
        /\ cache' = [cache EXCEPT ![k] = None]
        /\ UNCHANGED limiterVars

(* No connection, a timeout, a status other than 200, or a body that is no *)
(* answer: nothing is stored.                                              *)
EndpointFails(c) ==
    /\ call[c].stage = "asked"
    /\ Becomes(c, "idle", None)
    /\ UNCHANGED <<limiterVars, cache>>

EndpointAnswers(c, final) ==
    /\ call[c].stage = "asked"
    /\ Becomes(c, "answered",
               [content |-> [question |-> call[c].question, final |-> final],
                toolCalls |-> ~final])
    /\ UNCHANGED <<limiterVars, cache>>

Stored == {k \in Keys : cache[k] # None}

(* Seeded fault: one entry too many survives. *)
SurvivesOneMore(kept) ==
    /\ kept \subseteq Stored
    /\ Cardinality(kept) =
           IF Cardinality(Stored) <= MaxEntries THEN Cardinality(Stored) ELSE MaxEntries
    /\ \A k \in kept, d \in Stored \ kept : cache[d].createdAt <= cache[k].createdAt

(* Before it stores, Set evicts the oldest entries until there is room for *)
(* one more, also when it is about to replace an entry.  The order of the  *)
(* hash table decides between entries of the same age.                     *)
Survives(kept) ==
    /\ kept \subseteq Stored
    /\ Cardinality(kept) =
           IF Cardinality(Stored) < MaxEntries THEN Cardinality(Stored)
                                               ELSE MaxEntries - 1
    /\ \A k \in kept, d \in Stored \ kept : cache[d].createdAt <= cache[k].createdAt

(* Seeded fault: the answer is stored under the key of another question. *)
StoreAnywhere(c, kept) ==
    /\ call[c].stage = "answered"
    /\ Survives(kept)
    /\ \E key \in Keys :
           cache' = [k \in Keys |->
               IF k = key
               THEN [content |-> call[c].response.content, createdAt |-> now]
               ELSE IF k \in kept THEN cache[k] ELSE None]
    /\ call' = [call EXCEPT ![c].stage = "idle"]
    /\ UNCHANGED limiterVars

Store(c, kept) ==
    LET key == CacheKey[call[c].question]
    IN  /\ call[c].stage = "answered"
        /\ Survives(kept)
        /\ cache' = [k \in Keys |->
             IF k = key
             THEN [content |-> call[c].response.content, createdAt |-> now]
             ELSE IF k \in kept THEN cache[k] ELSE None]
        /\ call' = [call EXCEPT ![c].stage = "idle"]
        /\ UNCHANGED limiterVars

(* ChatStream neither reads nor fills the cache. *)
StreamEnds(c) ==
    /\ call[c].stage = "streaming"
    /\ Becomes(c, "idle", None)
    /\ UNCHANGED <<limiterVars, cache>>

Elapse == Tick /\ UNCHANGED <<call, cache>>

NextGateway ==
    \/ \E c \in Callers, q \in Questions :
           \/ CallRefused(c, q)
           \/ ChatAllowed(c, q)
           \/ StreamAllowed(c, q)
    \/ \E c \in Callers :
           \/ CacheHit(c)
           \/ CacheMiss(c)
           \/ EndpointFails(c)
           \/ \E final \in BOOLEAN : EndpointAnswers(c, final)
           \/ \E kept \in SUBSET Keys : Store(c, kept)
           \/ StreamEnds(c)
    \/ Elapse

GatewaySpec == InitGateway /\ [][NextGateway]_gatewayVars

-----------------------------------------------------------------------------
GatewayOK ==
    /\ LimiterOK
    /\ call \in [Callers -> Calls]
    /\ cache \in [Keys -> Entries \cup {None}]

(* However callers that missed the same key race to store their answers,   *)
(* the cache never holds more than cache_max_entries.                      *)
CacheBounded == Cardinality(Stored) <= MaxEntries

(* The content that a caller is given, by the endpoint or by the cache,    *)
(* was written for a conversation with the same key as its own.            *)
OwnAnswer ==
    \A c \in Callers :
        call[c].response # None =>
            CacheKey[call[c].response.content.question] = CacheKey[call[c].question]

(* A response without tool calls is what ends the agent's loop, so it must *)
(* be a final answer: ChatAgent::Process "Returns the final natural        *)
(* language response" (chat_agent.h:25).  A cached response lost its calls.*)
FinalAnswer ==
    \A c \in Callers :
        call[c].response # None =>
            (call[c].response.toolCalls \/ call[c].response.content.final)
=============================================================================
