---------------------------- MODULE ChatHistory ----------------------------
(***************************************************************************)
(* The conversation kept by ChatAgent (chat_agent.h, history_) as a        *)
(* sequence of messages, and MemoryManager::TrimContext, which drops its   *)
(* oldest part without splitting a tool-call group.                        *)
(*                                                                         *)
(* Message texts are abstracted to the request that produced them.  An     *)
(* assistant message whose tool_calls field is set has the role "calls"    *)
(* and the number n of calls it announces; each call is answered by one    *)
(* message of role "tool".                                                 *)
(***************************************************************************)
EXTENDS Integers, Sequences

CONSTANTS
    TrimThreshold,   (* trim_threshold_: histories up to this length are kept  *)
    MaxContext       (* max_context_messages_: what a trim tries to leave      *)

(* memory_manager.h: trim_threshold_ = 30 and max_context_messages_ = 20.  *)
ASSUME TrimAssumption ==
    /\ TrimThreshold \in Nat
    /\ MaxContext \in Nat
    /\ MaxContext <= TrimThreshold

Roles == {"user", "assistant", "calls", "tool"}

Message(role, of, n) == [role |-> role, of |-> of, n |-> n]

-----------------------------------------------------------------------------
(* Trimming                                                                *)

(* Seeded fault: any cut is as good as another. *)
SplitsNothing(h, c) == FALSE

(* The first c messages end inside the group that starts at i: h[i] is an  *)
(* assistant message with tool_calls, and everything after it up to and    *)
(* including the first kept message answers one of its calls.              *)
SplitsGroup(h, c) ==
    /\ c < Len(h)
    /\ \E i \in 1..c : /\ h[i].role = "calls"
                       /\ \A j \in (i + 1)..(c + 1) : h[j].role = "tool"

(* The number of messages above the limit, 0 when the threshold is not     *)
(* passed.                                                                 *)
Excess(h) == IF Len(h) <= TrimThreshold THEN 0 ELSE Len(h) - MaxContext

(* TrimContext walks from the oldest message, a message or a whole group   *)
(* at a time, while what it has passed does not exceed Excess(h).  It      *)
(* stops at c: no group is split there, and the next place where no group  *)
(* is split is past the excess.                                            *)
IsTrimPoint(h, c) ==
    /\ c <= Excess(h)
    /\ ~SplitsGroup(h, c)
    /\ \A d \in (c + 1)..Excess(h) : SplitsGroup(h, d)

DropFirst(h, c) == SubSeq(h, c + 1, Len(h))

-----------------------------------------------------------------------------
(* Every assistant message with tool_calls is followed by exactly as many  *)
(* tool messages as it has calls, and there is no other tool message: what *)
(* the chat-completions endpoint accepts.                                  *)
WellFormed(h) ==
    /\ \A i \in DOMAIN h : h[i].role = "calls" =>
          /\ i + h[i].n <= Len(h)
          /\ \A j \in (i + 1)..(i + h[i].n) : h[j].role = "tool"
    /\ \A j \in DOMAIN h : h[j].role = "tool" =>
          \E i \in 1..(j - 1) : h[i].role = "calls" /\ j - i <= h[i].n
=============================================================================
