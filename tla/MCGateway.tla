------------------------------ MODULE MCGateway ------------------------------
(* Bounds for AiGateway: see README.md, "Runs and bounds". *)
EXTENDS AiGateway, TLC

CONSTANTS c1, c2, m1, m2, m3, k1, k2

TwoCallers == {c1, c2}
OneCaller == {c1}
ThreeQuestions == {m1, m2, m3}
TwoKeys == {k1, k2}
(* m1 and m2 are the same messages, sent to different endpoints. *)
KeyOf == [q \in Questions |-> IF q = m3 THEN k2 ELSE k1]
=============================================================================
