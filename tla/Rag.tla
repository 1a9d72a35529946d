--------------------------------- MODULE Rag ---------------------------------
(***************************************************************************)
(* POST /rag/upload and the splitting of its text by RAGPipeline           *)
(* (src/src/http/rag_pipeline.cpp).  A text is its length and the          *)
(* positions of its spaces.  With the overlap that the route uses no text  *)
(* is ever split to its end, so what comes after it, embedding, storing    *)
(* and saving the chunks and answering "ok", is never reached.             *)
(***************************************************************************)
EXTENDS Integers, FiniteSetsExt

CONSTANTS RagThreads,   \* IO threads that handle the route
          Texts,        \* [len : Nat, spaces : SUBSET Nat]
          ChunkSize,    \* chunk_size (500)
          Overlap,      \* chunk_overlap (50)
          Memory,       \* how many chunks fit into memory
          MaxUploads    \* bound

ASSUME RagAssumption ==
    /\ Texts \subseteq [len : Nat \ {0}, spaces : SUBSET Nat]   \* none is empty
    /\ ChunkSize \in Nat \ {0} /\ Overlap \in Nat \ {0}
    /\ Memory \in Nat /\ MaxUploads \in Nat

VARIABLES job,       \* per thread, the upload it handles
          uploads    \* uploads so far (bound)

ragVars == <<job, uploads>>

IdleJob == [pc |-> "idle", text |-> <<>>, start |-> 0, chunks |-> 0]

RagTypeOK ==
    /\ \A t \in RagThreads :
          /\ job[t].pc \in {"idle", "split", "failed"}
          /\ job[t].start \in Nat /\ job[t].chunks \in 0..Memory
    /\ uploads \in 0..MaxUploads

InitRag == job = [t \in RagThreads |-> IdleJob] /\ uploads = 0

-----------------------------------------------------------------------------
(* AddDocumentChunked *)

\* The first guess at the end of a chunk is moved back to the last space
\* before it, if that is after its start.  When the text has no space up to
\* there rfind gives npos, which is greater than any start: the chunk then
\* takes all the rest, and the end is -1.
ChunkEnd(text, start) ==
    LET guess == Min({start + ChunkSize, text.len})
        before == {i \in text.spaces : i <= guess}
    IN  IF guess = text.len THEN guess
        ELSE IF before = {} THEN -1
        ELSE IF Max(before) > start THEN Max(before) ELSE guess

\* Seeded fault: not clamped.
NextStartUnclamped(end) == end - Overlap
NextStart(end) == Max({end - Overlap, 0})

Upload(t) ==
    /\ job[t].pc = "idle" /\ uploads < MaxUploads
    /\ \E x \in Texts : job' = [job EXCEPT ![t] = [IdleJob EXCEPT !.pc = "split", !.text = x]]
    /\ uploads' = uploads + 1

SplitOne(t) ==
    /\ job[t].pc = "split"
    /\ job[t].start < job[t].text.len /\ job[t].chunks < Memory
    /\ job' = [job EXCEPT ![t].chunks = @ + 1,
                          ![t].start = NextStart(ChunkEnd(job[t].text, @))]
    /\ UNCHANGED uploads

\* bad_alloc: the handler answers 400.
SplitNoMemory(t) ==
    /\ job[t].pc = "split"
    /\ job[t].start < job[t].text.len /\ job[t].chunks = Memory
    /\ job' = [job EXCEPT ![t].pc = "failed"]
    /\ UNCHANGED uploads

Answered(t) ==
    /\ job[t].pc = "failed"
    /\ job' = [job EXCEPT ![t] = IdleJob]
    /\ UNCHANGED uploads

NextRag ==
    \E t \in RagThreads : Upload(t) \/ SplitOne(t) \/ SplitNoMemory(t) \/ Answered(t)

RagSpec == InitRag /\ [][NextRag]_ragVars

-----------------------------------------------------------------------------
\* What main.cpp says of the route, "add document to knowledge base": an upload
\* fails for want of memory only if there is not even room for as many chunks
\* as the text has characters.
UploadFits ==
    \A t \in RagThreads : job[t].pc = "failed" => job[t].text.len > Memory
=============================================================================
