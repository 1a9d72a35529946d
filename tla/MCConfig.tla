------------------------------- MODULE MCConfig -------------------------------
(***************************************************************************)
(* server.conf for TLC.  v1s is v1 with its suffix; the value vm, the name *)
(* deepseek.api_key and a comment contain the name of a key.               *)
(***************************************************************************)
EXTENDS ServerConfig

CONSTANTS v1, v1s, vm,              \* values
          deepseek, comment         \* other beginnings of a line

MCValues == {v1, v1s, vm}
MCV1 == [v \in MCValues |-> IF v = v1 THEN v1s ELSE v]
MCConfigBodies ==
    {[api_key |-> v1s, model |-> vm], [api_key |-> v1, api_base |-> v1]}
MCForeign == {deepseek, comment}
MCMentions == {<<vm, "model">>, <<comment, "model">>, <<deepseek, "api_key">>}
=============================================================================
