-------------------------------- MODULE Tools --------------------------------
(***************************************************************************)
(* The tools of main.cpp that change something, as called through          *)
(* ToolRegistry::CallTool by the agent's workers and by POST /mcp/message  *)
(* on the IO threads: write_file, edit_file and execute_command.  Nothing  *)
(* keeps two callers apart.  A text is a sequence of tokens.  The tools    *)
(* that only read (read_file, search_files, ...), calls that are refused   *)
(* for their arguments, and unknown tools change nothing and are left out. *)
(***************************************************************************)
EXTENDS TextFile, FiniteSetsExt

CONSTANTS Callers,    \* workers and IO threads
          ToolFiles,
          Tokens, Nothing,
          Written,    \* texts that write_file may be given
          MaxCalls    \* bound: tool calls that are ever made

ASSUME ToolsAssumption ==
    /\ Nothing \notin Tokens \union Seq(Tokens) /\ MaxCalls \in Nat
    /\ Written \subseteq Seq(Tokens)

VARIABLES call,     \* what each caller is doing
          texts,    \* per existing file, its text
          expected, \* per file, its text had the successful calls run one by one,
                    \* in the order of their results (history)
          shared,   \* files on which calls have overlapped (history)
          failed,   \* files whose last call failed to write (history)
          calls     \* tool calls so far (bound)

toolVars == <<call, texts, expected, shared, failed, calls>>

IdleCall == [pc |-> "idle", tool |-> Nothing, file |-> Nothing, old |-> Nothing, new |-> <<>>,
             text |-> <<>>, open |-> FALSE, child |-> "none"]

ToolsTypeOK ==
    /\ \A c \in Callers :
          /\ call[c].pc \in {"idle", "writeOpen", "editRead", "editOpen", "write", "output", "wait"}
          /\ call[c].new \in Seq(Tokens) /\ call[c].text \in Seq(Tokens)
          /\ call[c].child \in {"none", "alive", "exited"}
          /\ call[c].pc \in {"output", "wait"} <=> call[c].child # "none"
    /\ DOMAIN texts = ToolFiles /\ DOMAIN expected = ToolFiles
    /\ \A f \in ToolFiles : texts[f] \in Seq(Tokens) \union {Nothing}
    /\ shared \subseteq ToolFiles /\ failed \subseteq ToolFiles /\ calls \in 0..MaxCalls

InitTools ==
    /\ call = [c \in Callers |-> IdleCall]
    /\ texts \in [ToolFiles -> Written \union {Nothing}]
    /\ expected = texts
    /\ shared = {} /\ failed = {} /\ calls = 0

AtWork(c) == call[c].pc \notin {"idle", "output", "wait"}
Touches(c, f) == AtWork(c) /\ call[c].file = f

\* The histories are about a file from when a call finds it left alone: then
\* what it holds is what it is expected to hold, also after a fault.
Begin(c, k) ==
    /\ call[c].pc = "idle" /\ calls < MaxCalls
    /\ call' = [call EXCEPT ![c] = k]
    /\ calls' = calls + 1
    /\ LET mine == {k.file} \intersect ToolFiles
           met == {f \in mine : \E d \in Callers \ {c} : Touches(d, f)}
           alone == mine \ met
       IN  /\ shared' = (shared \union met) \ alone
           /\ failed' = failed \ alone
           /\ expected' = [f \in ToolFiles |->
                              IF f \in alone \intersect (shared \union failed) THEN texts[f]
                              ELSE expected[f]]
    /\ UNCHANGED texts

CallWrite(c) ==
    \E f \in ToolFiles, w \in Written :
        Begin(c, [IdleCall EXCEPT !.pc = "writeOpen", !.tool = "write_file",
                            !.file = f, !.new = w, !.text = w])

CallEdit(c) ==
    \E f \in ToolFiles, o \in Tokens \union {Nothing}, n \in Tokens :
        Begin(c, [IdleCall EXCEPT !.pc = "editRead", !.tool = "edit_file",
                            !.file = f, !.old = o, !.new = <<n>>])

CallCommand(c) ==
    Begin(c, [IdleCall EXCEPT !.pc = "output", !.tool = "execute_command", !.child = "alive"])

Result(c) == call' = [call EXCEPT ![c] = IdleCall]

-----------------------------------------------------------------------------
(* write_file *)

WriteOpens(c) ==
    /\ call[c].pc = "writeOpen"
    /\ \/ /\ texts' = [texts EXCEPT ![call[c].file] = <<>>]
          /\ call' = [call EXCEPT ![c].pc = "write", ![c].open = TRUE]
       \/ Result(c) /\ UNCHANGED texts    \* an error
    /\ UNCHANGED <<expected, shared, failed, calls>>

-----------------------------------------------------------------------------
(* edit_file *)

Found(text, old) == {i \in DOMAIN text : text[i] = old}

\* Seeded fault: every match is replaced.
ReplacedAll(text, old, new) ==
    IF old = Nothing THEN new \o text
    ELSE [i \in DOMAIN text |-> IF text[i] = old THEN new[1] ELSE text[i]]
\* The first match is replaced, however many there are; an empty old_text is
\* found before the first character.
Replaced(text, old, new) ==
    IF old = Nothing THEN new \o text
    ELSE [text EXCEPT ![Min(Found(text, old))] = new[1]]

Matches(text, old) == text # Nothing /\ (old = Nothing \/ Found(text, old) # {})

EditReads(c) ==
    LET k == call[c]
    IN  /\ k.pc = "editRead" /\ Matches(texts[k.file], k.old)
        /\ call' = [call EXCEPT ![c].pc = "editOpen",
                                ![c].text = Replaced(texts[k.file], k.old, k.new)]
        /\ UNCHANGED <<texts, expected, shared, failed, calls>>

EditFails(c) ==
    /\ call[c].pc = "editRead" /\ ~Matches(texts[call[c].file], call[c].old)
    /\ Result(c)
    /\ UNCHANGED <<texts, expected, shared, failed, calls>>

\* Whether the stream is open is not looked at.
EditOpens(c) ==
    /\ call[c].pc = "editOpen"
    /\ \/ /\ texts' = [texts EXCEPT ![call[c].file] = <<>>]
          /\ call' = [call EXCEPT ![c].pc = "write", ![c].open = TRUE]
       \/ call' = [call EXCEPT ![c].pc = "write"] /\ UNCHANGED texts
    /\ UNCHANGED <<expected, shared, failed, calls>>

-----------------------------------------------------------------------------
(* The end of both: the text is written, or not, and success is reported *)

\* What a call that reports success makes of a text when it is alone with it: an
\* edit puts the new text in the place of the first match, though there may be
\* more: that old_text must match once (main.cpp:504) is asked and never checked.
Cut(text, i, new) == SubSeq(text, 1, i - 1) \o new \o SubSeq(text, i + 1, Len(text))
Effect(k, text) ==
    CASE k.tool = "write_file" -> k.new
      [] k.tool = "edit_file" /\ k.old = Nothing -> k.new \o text
      [] k.tool = "edit_file" /\ k.old # Nothing ->
            IF Found(text, k.old) = {} THEN text
            ELSE LET first == CHOOSE i \in Found(text, k.old) :
                                  \A j \in Found(text, k.old) : i <= j
                 IN  Cut(text, first, k.new)

WriteText(c) ==
    LET k == call[c]
    IN  /\ k.pc = "write"
        /\ \/ /\ k.open
              /\ texts' = [texts EXCEPT ![k.file] = Overlay(k.text, @)]
              /\ failed' = failed \ {k.file}
           \/ failed' = failed \union {k.file} /\ UNCHANGED texts
        /\ expected' = [expected EXCEPT ![k.file] =
                            IF k.file \in shared THEN k.text ELSE Effect(k, @)]
        /\ Result(c)
        /\ UNCHANGED <<shared, calls>>

-----------------------------------------------------------------------------
(* execute_command *)

Waits(c, guard) ==
    /\ call[c].pc = "output" /\ guard
    /\ call' = [call EXCEPT ![c].pc = "wait"]
    /\ UNCHANGED <<texts, expected, shared, failed, calls>>

\* fgets returns a line, and only then are the time and the length looked at.
ReadsLine(c) == Waits(c, call[c].child = "alive")
ReadsEnd(c) == Waits(c, call[c].child = "exited")

ChildExits(c) ==
    /\ call[c].child = "alive"
    /\ call' = [call EXCEPT ![c].child = "exited"]
    /\ UNCHANGED <<texts, expected, shared, failed, calls>>

\* pclose waits for the child, after a timeout too.
CommandEnds(c) ==
    /\ call[c].pc = "wait" /\ call[c].child = "exited"
    /\ Result(c)
    /\ UNCHANGED <<texts, expected, shared, failed, calls>>

Works(c) ==
    \/ WriteOpens(c) \/ EditReads(c) \/ EditFails(c) \/ EditOpens(c) \/ WriteText(c)
    \/ ReadsEnd(c) \/ CommandEnds(c)

NextTools ==
    \E c \in Callers :
        \/ CallWrite(c) \/ CallEdit(c) \/ CallCommand(c)
        \/ Works(c) \/ ReadsLine(c) \/ ChildExits(c)

ToolsSpec == InitTools /\ [][NextTools]_toolVars

-----------------------------------------------------------------------------
\* Unless the write of the last call on a file has failed, a file that nobody is
\* at work on is what the calls that reported success have made of it one after
\* the other, since the last fault on it: no reported write or edit is lost, and
\* none that reported an error has left a trace.  Calls that overlapped may lose
\* each other's edits and leave a tail of each other's text, but the text that
\* the last of them has reported is there, from the start of the file.
ReportedEditsKept ==
    \A f \in ToolFiles \ failed : (\A c \in Callers : ~Touches(c, f)) =>
        IF f \in shared /\ expected[f] # Nothing
        THEN texts[f] = Overlay(expected[f], texts[f])
        ELSE texts[f] = expected[f]
=============================================================================
