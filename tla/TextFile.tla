------------------------------ MODULE TextFile ------------------------------
(***************************************************************************)
(* What std::ofstream does to a file that several threads write without a  *)
(* lock: opening empties it, and the text goes to its start when the       *)
(* stream is flushed.                                                      *)
(***************************************************************************)
EXTENDS Naturals, Sequences

\* A text written over one that another stream has put there meanwhile leaves
\* the tail of the longer one.
Overlay(new, old) == new \o SubSeq(old, Len(new) + 1, Len(old))
=============================================================================
