------------------------------ MODULE MCRouter ------------------------------
(* Bounds for ModelRouter: see README.md, "Runs and bounds". *)
EXTENDS ModelRouter, TLC

CONSTANTS t1, t2, t3, p1, p2, p3

ThreeThreads == {t1, t2, t3}
TwoThreads == {t1, t2}
ThreeProviders == {p1, p2, p3}
TwoProviders == {p1, p2}
(* p3 is configured and disabled. *)
AllButOne == Providers \ {p3}
Preference == [p \in Providers |-> CASE p = p1 -> 100 [] p = p2 -> 50 [] OTHER -> 200]
=============================================================================
