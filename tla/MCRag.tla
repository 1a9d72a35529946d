--------------------------------- MODULE MCRag ---------------------------------
(***************************************************************************)
(* Texts for TLC: without a space, with spaces between the chunks, and     *)
(* with the only space behind the first chunk.                             *)
(***************************************************************************)
EXTENDS Rag

T(n, spaces) == [len |-> n, spaces |-> spaces]
MCTexts == {T(2, {1}), T(3, {}), T(5, {2, 3}), T(6, {5})}
================================================================================
