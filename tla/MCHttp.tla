------------------------------- MODULE MCHttp -------------------------------
(* Bounds for HttpConnection: see README.md, "Runs and bounds". *)
EXTENDS HttpConnection, TLC

CONSTANTS a1, q1, q2, q3, q4

OneAddress == {a1}
AllRequests == {q1, q2, q3, q4}
TwoRequests == {q1, q2}
(* q1 has a body of two pieces, q2 of one, which may be too long; q3       *)
(* closes, and q4 has a method that is refused.                            *)
Lengths == [q \in Requests |-> CASE q = q1 -> 2 [] q = q2 -> 1 [] OTHER -> 0]
OneCloser == {q3}
OneOversized == {q2}
OneBarred == {q4}
NoRequest == {}
=============================================================================
