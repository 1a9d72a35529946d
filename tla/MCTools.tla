------------------------------- MODULE MCTools -------------------------------
(***************************************************************************)
(* Texts for TLC: one with a repeated token, and a shorter one that leaves *)
(* its tail when it is written over it.                                    *)
(***************************************************************************)
EXTENDS Tools

CONSTANTS tokA, tokB

MCWritten == {<<tokA>>, <<tokA, tokB, tokA>>}
================================================================================
