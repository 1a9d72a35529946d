------------------------------- MODULE Uploads -------------------------------
(***************************************************************************)
(* POST /api/upload (main.cpp) with MultipartParser (multipart_parser.cpp).*)
(* Several IO threads parse their bodies and write the files found in them *)
(* to uploads/<user>/, without a lock.  A body is the sequence of what     *)
(* stands between its boundaries, a part's data a sequence of cells, one   *)
(* of which is a line end.  Requests that are refused before the parser    *)
(* change nothing and are left out.                                        *)
(***************************************************************************)
EXTENDS TextFile, FiniteSets

CONSTANTS Uploaders,    \* IO threads that handle the route
          Owners,       \* users, "anonymous" among them
          FileNames, NoName,
          Cells, Crlf,
          Multiparts,   \* the bodies: [parts, closed]
          MaxBodies     \* bound: uploads that are ever made

Shapes == {"whole",       \* headers, an empty line, and data
           "empty",       \* nothing between two boundaries
           "headless",    \* no empty line
           "undisposed"}  \* no Content-Disposition header
Parts == [shape : Shapes, file : FileNames \union {NoName}, data : Seq(Cells)]

ASSUME UploadsAssumption ==
    /\ Multiparts \subseteq [parts : Seq(Parts), closed : BOOLEAN]
    /\ Crlf \in Cells /\ NoName \notin FileNames
    /\ MaxBodies \in Nat

VARIABLES up,        \* what each thread is doing
          disk,      \* the uploaded files
          reported,  \* per file, the data last reported as stored (history)
          spoilt,    \* files whose last report followed a failed open or write (history)
          mixed,     \* files that were opened while another thread had them open,
                     \* until one has them open alone again (history)
          bodies     \* uploads so far (bound)

uploadVars == <<up, disk, reported, spoilt, mixed, bodies>>

Paths == Owners \X FileNames
IdleUpload == [pc |-> "idle", owner |-> NoName, body |-> <<>>, pos |-> 1,
               fields |-> <<>>, open |-> FALSE]

UploadsTypeOK ==
    /\ \A u \in Uploaders :
          /\ up[u].pc \in {"idle", "parse", "save", "write"}
          /\ up[u].fields \in Seq(Parts) /\ up[u].open \in BOOLEAN
          /\ up[u].pc # "idle" => /\ up[u].owner \in Owners /\ up[u].body \in Multiparts
                                  /\ up[u].pos \in 1..(Len(up[u].body.parts) + 1)
          /\ up[u].pc = "write" => up[u].fields # <<>>
    /\ DOMAIN disk \subseteq Paths /\ \A p \in DOMAIN disk : disk[p] \in Seq(Cells)
    /\ DOMAIN reported \subseteq Paths
    /\ spoilt \subseteq Paths /\ mixed \subseteq Paths /\ bodies \in 0..MaxBodies

NoFiles == [p \in {} |-> <<>>]
SetAt(f, p, x) == [q \in DOMAIN f \union {p} |-> IF q = p THEN x ELSE f[q]]

InitUploads ==
    /\ up = [u \in Uploaders |-> IdleUpload]
    /\ disk = NoFiles /\ reported = NoFiles
    /\ spoilt = {} /\ mixed = {} /\ bodies = 0

BeginUpload(u) ==
    /\ up[u].pc = "idle" /\ bodies < MaxBodies
    /\ \E b \in Multiparts, o \in Owners :
          up' = [up EXCEPT ![u] = [IdleUpload EXCEPT !.pc = "parse", !.owner = o, !.body = b]]
    /\ bodies' = bodies + 1
    /\ UNCHANGED <<disk, reported, spoilt, mixed>>

-----------------------------------------------------------------------------
(* MultipartParser::Parse *)

\* The loop ends at the closing boundary, at a part that no boundary follows,
\* and at an empty part.
Continues(b, pos) ==
    /\ pos \in DOMAIN b.parts
    /\ pos < Len(b.parts) \/ b.closed
    /\ b.parts[pos].shape # "empty"

\* Seeded fault: only parts with a file name move the position on.
AdvancesFiles(part) == part.shape = "whole" /\ part.file # NoName
\* A part without its empty line or its disposition is met by `continue' with
\* the position where it was: the loop goes round for ever, which is no step.
Advances(part) == part.shape = "whole"

ParsePart(u) ==
    LET b == up[u].body
    IN  /\ up[u].pc = "parse" /\ Continues(b, up[u].pos)
        /\ Advances(b.parts[up[u].pos])
        /\ up' = [up EXCEPT ![u].pos = @ + 1,
                            ![u].fields = Append(@, b.parts[up[u].pos])]
        /\ UNCHANGED <<disk, reported, spoilt, mixed, bodies>>

\* Without any field the route answers "Parse failed".
ParseEnds(u) ==
    /\ up[u].pc = "parse" /\ ~Continues(up[u].body, up[u].pos)
    /\ up' = IF up[u].fields = <<>> THEN [up EXCEPT ![u] = IdleUpload]
                                    ELSE [up EXCEPT ![u].pc = "save"]
    /\ UNCHANGED <<disk, reported, spoilt, mixed, bodies>>

-----------------------------------------------------------------------------
(* Writing the files, in the order of the fields *)

\* Seeded fault: the last cell goes whatever it is.
StoredLess(data) == SubSeq(data, 1, Len(data) - 1)
\* A line end that closes the data is taken for the one before the boundary,
\* which was cut off already.
Stored(data) ==
    IF data # <<>> /\ data[Len(data)] = Crlf THEN SubSeq(data, 1, Len(data) - 1) ELSE data

Target(u) == <<up[u].owner, Head(up[u].fields).file>>
SharesTarget(u) ==
    \E w \in Uploaders \ {u} : up[w].pc = "write" /\ up[w].open /\ Target(w) = Target(u)

SkipField(u) ==
    /\ up[u].pc = "save" /\ up[u].fields # <<>> /\ Head(up[u].fields).file = NoName
    /\ up' = [up EXCEPT ![u].fields = Tail(@)]
    /\ UNCHANGED <<disk, reported, spoilt, mixed, bodies>>

\* std::ofstream out(file_path): empties the file, or fails unnoticed.
OpenTarget(u) ==
    /\ up[u].pc = "save" /\ up[u].fields # <<>> /\ Head(up[u].fields).file # NoName
    /\ \E ok \in BOOLEAN :
          /\ up' = [up EXCEPT ![u].pc = "write", ![u].open = ok]
          /\ disk' = IF ok THEN SetAt(disk, Target(u), <<>>) ELSE disk
          /\ mixed' = IF ~ok THEN mixed
                      ELSE IF SharesTarget(u) THEN mixed \union {Target(u)}
                      ELSE mixed \ {Target(u)}
    /\ UNCHANGED <<reported, spoilt, bodies>>

\* The write may fail too (a full disk); the file is reported all the same.
WriteTarget(u) ==
    LET data == Head(up[u].fields).data
    IN  /\ up[u].pc = "write"
        /\ \/ /\ up[u].open
              /\ disk' = SetAt(disk, Target(u), Overlay(Stored(data), disk[Target(u)]))
              /\ spoilt' = spoilt \ {Target(u)}
           \/ spoilt' = spoilt \union {Target(u)} /\ UNCHANGED disk
        /\ reported' = SetAt(reported, Target(u), data)
        /\ up' = [up EXCEPT ![u].pc = "save", ![u].open = FALSE, ![u].fields = Tail(@)]
        /\ UNCHANGED <<mixed, bodies>>

AnswerUpload(u) ==
    /\ up[u].pc = "save" /\ up[u].fields = <<>>
    /\ up' = [up EXCEPT ![u] = IdleUpload]
    /\ UNCHANGED <<disk, reported, spoilt, mixed, bodies>>

GoesOn(u) ==
    ParsePart(u) \/ ParseEnds(u) \/ SkipField(u) \/ OpenTarget(u) \/ WriteTarget(u) \/ AnswerUpload(u)

NextUploads == \E u \in Uploaders : BeginUpload(u) \/ GoesOn(u)

\* A thread goes on with the upload it handles.
UploadsFairness == \A u \in Uploaders : WF_uploadVars(GoesOn(u))

UploadsSpec == InitUploads /\ [][NextUploads]_uploadVars /\ UploadsFairness

-----------------------------------------------------------------------------
Writing(p) == \E u \in Uploaders : up[u].pc = "write" /\ Target(u) = p

\* Unless the open or the write before its last report failed, a file that was
\* reported and is not being written begins with the data that was reported
\* last, up to one line end at its end, which the parser takes for its own though
\* it means to "keep raw data" (multipart_parser.cpp:90); and that is the whole
\* file unless uploads of one user have overlapped on it, which may leave the
\* tail of a longer text behind it.
UploadsStored ==
    \A p \in (DOMAIN reported) \ spoilt : ~Writing(p) =>
        /\ p \in DOMAIN disk
        /\ \E n \in 0..Len(disk[p]) :
              /\ \/ reported[p] = SubSeq(disk[p], 1, n)
                 \/ reported[p] = Append(SubSeq(disk[p], 1, n), Crlf)
              /\ p \notin mixed => n = Len(disk[p])

\* An upload is answered, however its threads and others' interleave, if the
\* loop of the parser ends before it meets a part without headers or without
\* disposition.
ParsesToEnd(b) ==
    \A i \in DOMAIN b.parts :
        (\A j \in 1..i : Continues(b, j)) => b.parts[i].shape = "whole"
UploadAnswered ==
    \A u \in Uploaders :
        []<>(up[u].pc # "idle" => ~ParsesToEnd(up[u].body))
=============================================================================
