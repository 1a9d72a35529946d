------------------------------- MODULE MCChat -------------------------------
(* Bounds for ChatPipeline: see README.md, "Runs and bounds". *)
EXTENDS ChatPipeline, TLC

CONSTANTS r1, r2, r3, sA, sB

TwoRequests == {r1, r2}
ThreeRequests == {r1, r2, r3}
TwoSessions == {sA, sB}
MemoryOnly == {"memory"}
MemoryAndClear == {"memory", "clear"}
NoRequest == {}
OneRequest == {r1}
Interchangeable == Permutations(ThreeRequests) \cup Permutations(TwoSessions)
=============================================================================
