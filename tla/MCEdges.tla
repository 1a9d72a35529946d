------------------------------- MODULE MCEdges -------------------------------
(* The edges for TLC, with the inputs that each of them has for itself. *)
EXTENDS Edges, MCHttp, MCGateway, MCRouter
=============================================================================
