---------------------------- MODULE ChatPipeline ----------------------------
(***************************************************************************)
(* The chat service of main.cpp: POST /chat/memory hands a task to the     *)
(* "ai-workers" pool, whose threads take worker_lock and drive the one     *)
(* ChatAgent through MemoryManager::Process; its clear form, POST /chat    *)
(* and POST /api/config touch the same agent and the same AiGateway from   *)
(* the IO threads without that lock.  One step is one call on the shared   *)
(* objects; the interleaving of steps is that of the threads.              *)
(***************************************************************************)
EXTENDS ChatHistory, FiniteSets

CONSTANTS
    Requests,        (* HTTP requests, each on a connection of its own         *)
    Sessions,        (* chat sessions, namespaced by user                      *)
    None,            (* no request, no session                                 *)
    Routes,          (* the routes clients use, a subset of AllRoutes          *)
    IoThreads,       (* number of IO loops (thread_num)                        *)
    Workers,         (* size of worker_pool                                    *)
    Leavers,         (* bound: the requests whose client may close early       *)
    Failing,         (* bound: the requests whose save may fail                *)
    MaxToolCalls,    (* max_tool_calls_: rounds of tool calls per message      *)
    MaxCallsPerReply,(* bound: tool calls in one answer of the model           *)
    MaxCrashes       (* bound: how often the process dies and restarts         *)

(* The ways a request enters the service.  "clear" and "reset" are the     *)
(* clear forms of /chat/memory and /chat; "unparsable" and "blank" are     *)
(* /chat/memory bodies that are not JSON, or have no message; "mistyped"   *)
(* is JSON whose fields have another type than the handler asks for.       *)
AllRoutes == {"memory", "clear", "unparsable", "blank", "mistyped",
              "chat", "reset", "config"}

ASSUME PipelineAssumption ==
    /\ None \notin Requests
    /\ None \notin Sessions
    /\ Routes \subseteq AllRoutes
    /\ Leavers \subseteq Requests
    /\ Failing \subseteq Requests
    /\ IoThreads \in Nat \ {0}
    /\ Workers \in Nat \ {0}
    /\ MaxToolCalls \in Nat \ {0}
    /\ MaxCallsPerReply \in Nat \ {0}
    /\ MaxCrashes \in Nat

VARIABLES
    pc,           (* the next step of each request                             *)
    task,         (* what each request asks for                                *)
    rounds,       (* tool_calls counter of ChatAgent::Process, per request     *)
    pending,      (* tool calls of the current answer still to execute         *)
    queue,        (* worker_pool's queue of tasks                              *)
    lock,         (* holder of worker_lock                                     *)
    prompt,       (* system_prompt_: the request it was built for              *)
    history,      (* history_ of the agent                                     *)
    agentSession, (* session_id_ of the agent                                  *)
    gateway,      (* whose API key and base the gateway's AiConfig holds       *)
    files,        (* memory/chat_<session>.json: the conversation in it, or on *)
                  (* its way into it while a save has the file torn            *)
    outbox,       (* functors runInLoop has queued on the main loop            *)
    wire,         (* the connection of each request and what was sent on it    *)
    crashes,
    lost          (* history: sessions whose conversation was cut since the    *)
                  (* last save that opened their file, by a save that failed   *)
                  (* or by a crash during one                                  *)

agentVars == <<prompt, history, agentSession>>
loopVars  == <<rounds, pending>>
hostVars  == <<crashes, lost>>
vars == <<pc, task, rounds, pending, queue, lock, prompt, history,
          agentSession, gateway, files, outbox, wire, crashes, lost>>

-----------------------------------------------------------------------------
(* Tasks                                                                   *)

Task(route, session, key) == [route |-> route, session |-> session, key |-> key]

NoTask == Task("none", None, FALSE)

(* Only /chat/memory resolves an API key, which may come out empty (key is *)
(* FALSE), and only it and its clear form name a session.                  *)
Tasks == {t \in [route : Routes, session : Sessions \cup {None}, key : BOOLEAN] :
            /\ t.session # None <=> t.route \in {"memory", "clear"}
            /\ t.key => t.route = "memory"}

IsMemory(r) == task[r].route = "memory"
SessionOf(r) == task[r].session

(* Where a request of a worker task, or of /chat, runs ChatAgent::Process. *)
AgentSteps == {"push", "ask", "llm", "tool"}
LockedSteps == AgentSteps \cup {"key", "base", "enter", "load", "trim",
                                "open", "write", "post"}
WorkerSteps == LockedSteps \cup {"prompt", "lock"}
Steps == WorkerSteps \cup {"new", "queued", "unlink", "rebase", "reply",
                           "posted", "done", "lost"}

OnWorker == {r \in Requests : IsMemory(r) /\ pc[r] \in WorkerSteps}
OnIoThread == {r \in Requests : ~IsMemory(r) /\ pc[r] \notin {"new", "done", "lost"}}

Goto(r, step) == pc' = [pc EXCEPT ![r] = step]

-----------------------------------------------------------------------------
(* Connections: muduo drops what is sent once shutdown was called.         *)

FreshWire == [state |-> "up", sent |-> <<>>]

Send(w, frame) == IF w.state = "up" THEN [w EXCEPT !.sent = Append(@, frame)] ELSE w
Shutdown(w) == IF w.state = "up" THEN [w EXCEPT !.state = "closing"] ELSE w

(* The handler formats a response with Connection: close itself. *)
RawReplyStaysOpen(w) == Send(w, "full")   (* seeded fault: shutdown forgotten *)
RawReply(w) == Shutdown(Send(w, "full"))

(* HttpServer::handleRequest sends the HttpResponse of the handler. *)
HttpReply(w) == Send(w, "full")

(* StreamWriter::WriteChunk, which sends the headers first, and End. *)
WriteChunk(w) == Send(Send(w, "head"), "chunk")
End(w) == Shutdown(Send(w, "last"))
StreamReply(w) == End(WriteChunk(w))

Reply(r, w) == wire' = [wire EXCEPT ![r] = w]

-----------------------------------------------------------------------------
Init ==
    /\ pc = [r \in Requests |-> "new"]
    /\ task = [r \in Requests |-> NoTask]
    /\ rounds = [r \in Requests |-> 0]
    /\ pending = [r \in Requests |-> 0]
    /\ queue = <<>>
    /\ lock = None
    /\ prompt = None
    /\ history = <<>>
    /\ agentSession = None
    /\ gateway = [key |-> None, base |-> None]
    /\ files = [s \in Sessions |-> [text |-> <<>>, state |-> "absent"]]
    /\ outbox = <<>>
    /\ wire = [r \in Requests |-> FreshWire]
    /\ crashes = 0
    /\ lost = {}

-----------------------------------------------------------------------------
(* IO threads                                                              *)

(* An idle IO thread reads request r. *)
Arrive(r, t) ==
    /\ pc[r] = "new"
    /\ wire[r].state = "up"
    /\ Cardinality(OnIoThread) < IoThreads
    /\ task' = [task EXCEPT ![r] = t]

(* POST /chat/memory: the stream is created and the task is queued; the    *)
(* handler touches nothing that is shared.                                 *)
PostMemory(r, t) ==
    /\ t.route = "memory"
    /\ Arrive(r, t)
    /\ queue' = Append(queue, r)
    /\ Goto(r, "queued")
    /\ UNCHANGED <<loopVars, lock, agentVars, gateway, files, outbox, wire, hostVars>>

(* A body that is not JSON: the handler answers 400 itself and does not    *)
(* set req.stream, so HttpServer sends its own response as well.           *)
(* A blank message is answered the same way with req.stream set.           *)
(* A field of another type makes body.value throw after req.stream was     *)
(* set: the 500 that HttpServer builds is not sent.                        *)
RejectMemory(r, t) ==
    /\ Arrive(r, t)
    /\ \/ t.route = "unparsable" /\ Reply(r, HttpReply(RawReply(wire[r])))
       \/ t.route = "blank" /\ Reply(r, RawReply(wire[r]))
       \/ t.route = "mistyped" /\ UNCHANGED wire
    /\ Goto(r, "done")
    /\ UNCHANGED <<loopVars, queue, lock, agentVars, gateway, files, outbox, hostVars>>

(* The clear form of /chat/memory calls MemoryManager::ClearSession, which *)
(* clears the agent's history whatever session it belongs to ...           *)
ClearMemory(r, t) ==
    /\ t.route = "clear"
    /\ Arrive(r, t)
    /\ history' = <<>>
    /\ Goto(r, "unlink")
    /\ UNCHANGED <<loopVars, queue, lock, prompt, agentSession, gateway, files,
                   outbox, wire, hostVars>>

(* ... and then removes the session's file; the handler answers itself. *)
RemoveFile(r) ==
    /\ pc[r] = "unlink"
    /\ files' = [files EXCEPT ![SessionOf(r)] = [text |-> <<>>, state |-> "absent"]]
    /\ Reply(r, RawReply(wire[r]))
    /\ Goto(r, "done")
    /\ UNCHANGED <<task, loopVars, queue, lock, agentVars, gateway, outbox, hostVars>>

(* POST /chat runs ChatAgent::Process on the IO thread. *)
PostChat(r, t) ==
    /\ t.route = "chat"
    /\ Arrive(r, t)
    /\ Goto(r, "push")
    /\ UNCHANGED <<loopVars, queue, lock, agentVars, gateway, files, outbox, wire, hostVars>>

(* A body that is not JSON, or has no message. *)
RejectChat(r, t) ==
    /\ t.route = "chat"
    /\ Arrive(r, t)
    /\ Goto(r, "reply")
    /\ UNCHANGED <<loopVars, queue, lock, agentVars, gateway, files, outbox, wire, hostVars>>

(* The clear form of /chat. *)
ResetChat(r, t) ==
    /\ t.route = "reset"
    /\ Arrive(r, t)
    /\ history' = <<>>
    /\ Reply(r, HttpReply(wire[r]))
    /\ Goto(r, "done")
    /\ UNCHANGED <<loopVars, queue, lock, prompt, agentSession, gateway, files,
                   outbox, hostVars>>

(* HttpServer sends the response of /chat. *)
AnswerChat(r) ==
    /\ pc[r] = "reply"
    /\ Reply(r, HttpReply(wire[r]))
    /\ Goto(r, "done")
    /\ UNCHANGED <<task, loopVars, queue, lock, agentVars, gateway, files, outbox, hostVars>>

(* POST /api/config sets the running gateway's key (and model) if the body *)
(* has one ...                                                             *)
PostConfig(r, t) ==
    /\ t.route = "config"
    /\ Arrive(r, t)
    /\ gateway' \in {gateway, [gateway EXCEPT !.key = r]}
    /\ Goto(r, "rebase")
    /\ UNCHANGED <<loopVars, queue, lock, agentVars, files, outbox, wire, hostVars>>

(* ... and then its base, again if there is one. *)
ConfigBase(r) ==
    /\ pc[r] = "rebase"
    /\ gateway' \in {gateway, [gateway EXCEPT !.base = r]}
    /\ Reply(r, HttpReply(wire[r]))
    /\ Goto(r, "done")
    /\ UNCHANGED <<task, loopVars, queue, lock, agentVars, files, outbox, hostVars>>

(* The client closes its connection; the server's work on it goes on. *)
Disconnect(r) ==
    /\ r \in Leavers
    /\ wire[r].state # "down"
    /\ Reply(r, [wire[r] EXCEPT !.state = "down"])
    /\ UNCHANGED <<pc, task, loopVars, queue, lock, agentVars, gateway, files,
                   outbox, hostVars>>

-----------------------------------------------------------------------------
(* Worker threads: the task of POST /chat/memory                           *)

(* A worker takes the oldest task. *)
StartTask(r) ==
    /\ pc[r] = "queued"
    /\ queue # <<>> /\ r = Head(queue)
    /\ Cardinality(OnWorker) < Workers
    /\ queue' = Tail(queue)
    /\ Goto(r, "prompt")
    /\ UNCHANGED <<task, loopVars, lock, agentVars, gateway, files, outbox, wire, hostVars>>

(* set_system_prompt is called before worker_lock is taken. *)
SetSystemPrompt(r) ==
    /\ pc[r] = "prompt"
    /\ prompt' = r
    /\ Goto(r, "lock")
    /\ UNCHANGED <<task, loopVars, queue, lock, history, agentSession, gateway,
                   files, outbox, wire, hostVars>>

(* Seeded fault: no lock. *)
AcquireUnguarded(r) ==
    /\ pc[r] = "lock"
    /\ lock' = r
    /\ Goto(r, "key")
    /\ UNCHANGED <<task, loopVars, queue, agentVars, gateway, files, outbox, wire, hostVars>>

AcquireWorkerLock(r) ==
    /\ pc[r] = "lock"
    /\ lock = None
    /\ lock' = r
    /\ Goto(r, "key")
    /\ UNCHANGED <<task, loopVars, queue, agentVars, gateway, files, outbox, wire, hostVars>>

(* Seeded fault: the base of the previous task is kept. *)
SetApiKeyOnly(r) ==
    /\ pc[r] = "key"
    /\ gateway' = IF task[r].key THEN [gateway EXCEPT !.key = r] ELSE gateway
    /\ Goto(r, "enter")
    /\ UNCHANGED <<task, loopVars, queue, lock, agentVars, files, outbox, wire, hostVars>>

(* The gateway keeps the configuration it has when no key was resolved. *)
SetApiKey(r) ==
    /\ pc[r] = "key"
    /\ gateway' = IF task[r].key THEN [gateway EXCEPT !.key = r] ELSE gateway
    /\ Goto(r, IF task[r].key THEN "base" ELSE "enter")
    /\ UNCHANGED <<task, loopVars, queue, lock, agentVars, files, outbox, wire, hostVars>>

SetApiBase(r) ==
    /\ pc[r] = "base"
    /\ gateway' = [gateway EXCEPT !.base = r]
    /\ Goto(r, "enter")
    /\ UNCHANGED <<task, loopVars, queue, lock, agentVars, files, outbox, wire, hostVars>>

-----------------------------------------------------------------------------
(* MemoryManager::Process                                                  *)

(* Seeded fault: the session is switched and the history kept. *)
EnterKeepingHistory(r) ==
    /\ pc[r] = "enter"
    /\ agentSession' = SessionOf(r)
    /\ Goto(r, "load")
    /\ UNCHANGED <<task, loopVars, queue, lock, prompt, history, gateway, files,
                   outbox, wire, hostVars>>

TornSessions == {s \in Sessions : files[s].state = "torn"}

(* A task of another session than the agent's drops the history, and with  *)
(* it what a failed write has kept from the file.                          *)
EnterSession(r) ==
    /\ pc[r] = "enter"
    /\ IF agentSession = SessionOf(r)
       THEN UNCHANGED <<history, lost>>
       ELSE history' = <<>> /\ lost' = lost \cup TornSessions
    /\ agentSession' = SessionOf(r)
    /\ Goto(r, "load")
    /\ UNCHANGED <<task, loopVars, queue, lock, prompt, gateway, files, outbox,
                   wire, crashes>>

(* Seeded fault: the file is never read back. *)
LoadNothing(r) ==
    /\ pc[r] = "load"
    /\ Goto(r, "trim")
    /\ UNCHANGED <<task, loopVars, queue, lock, agentVars, gateway, files, outbox,
                   wire, hostVars>>

(* An empty history is read back from the session's file; a missing or     *)
(* torn file leaves it empty.                                              *)
LoadHistory(r) ==
    /\ pc[r] = "load"
    /\ history' = IF history = <<>> /\ files[SessionOf(r)].state = "whole"
                  THEN files[SessionOf(r)].text ELSE history
    /\ Goto(r, "trim")
    /\ UNCHANGED <<task, loopVars, queue, lock, prompt, agentSession, gateway,
                   files, outbox, wire, hostVars>>

TrimContext(r) ==
    /\ pc[r] = "trim"
    /\ \E c \in 0..Len(history) : /\ IsTrimPoint(history, c)
                                  /\ history' = DropFirst(history, c)
    /\ Goto(r, "push")
    /\ UNCHANGED <<task, loopVars, queue, lock, prompt, agentSession, gateway,
                   files, outbox, wire, hostVars>>

(* SaveHistory copies the history, opens the file, which truncates it ...  *)
TruncateFile(r) ==
    /\ pc[r] = "open"
    /\ files' = [files EXCEPT ![SessionOf(r)] = [text |-> history, state |-> "torn"]]
    /\ lost' = lost \ {SessionOf(r)}
    /\ Goto(r, "write")
    /\ UNCHANGED <<task, loopVars, queue, lock, agentVars, gateway, outbox, wire, crashes>>

(* ... and writes the copy; what is written to a file that was removed in  *)
(* between is gone with it.                                                *)
WriteFile(r) ==
    /\ pc[r] = "write"
    /\ files' = IF files[SessionOf(r)].state = "absent" THEN files
                ELSE [files EXCEPT ![SessionOf(r)].state = "whole"]
    /\ Goto(r, "post")
    /\ UNCHANGED <<task, loopVars, queue, lock, agentVars, gateway, outbox, wire, hostVars>>

(* The stream is not asked whether it opened, so all that is written to it *)
(* is dropped and the file keeps what it had; MemoryManager does not look  *)
(* at the result.                                                          *)
OpenFails(r) ==
    /\ r \in Failing
    /\ pc[r] = "open"
    /\ lost' = lost \cup {SessionOf(r)}
    /\ Goto(r, "post")
    /\ UNCHANGED <<task, loopVars, queue, lock, agentVars, gateway, files, outbox,
                   wire, crashes>>

(* The write fails, or dump(2) throws on a text that is not UTF-8 once the *)
(* file is open: it stays torn, and nobody is told.                        *)
WriteFails(r) ==
    /\ r \in Failing
    /\ pc[r] = "write"
    /\ Goto(r, "post")
    /\ UNCHANGED <<task, loopVars, queue, lock, agentVars, gateway, files, outbox,
                   wire, hostVars>>

(* Seeded fault: worker_lock is not released. *)
PostWithoutUnlock(r) ==
    /\ pc[r] = "post"
    /\ outbox' = Append(outbox, r)
    /\ Goto(r, "posted")
    /\ UNCHANGED <<task, loopVars, queue, lock, agentVars, gateway, files, wire, hostVars>>

(* The response is handed to the main loop and the lock is released. *)
PostResponse(r) ==
    /\ pc[r] = "post"
    /\ outbox' = Append(outbox, r)
    /\ lock' = None
    /\ Goto(r, "posted")
    /\ UNCHANGED <<task, loopVars, queue, agentVars, gateway, files, wire, hostVars>>

(* The main loop runs the oldest functor: WriteChunk, then End. *)
DeliverResponse(r) ==
    /\ pc[r] = "posted"
    /\ outbox # <<>> /\ r = Head(outbox)
    /\ outbox' = Tail(outbox)
    /\ Reply(r, StreamReply(wire[r]))
    /\ Goto(r, "done")
    /\ UNCHANGED <<task, loopVars, queue, lock, agentVars, gateway, files, hostVars>>

-----------------------------------------------------------------------------
(* ChatAgent::Process, on a worker for /chat/memory and on an IO thread    *)
(* for /chat                                                               *)

Push(m) == history' = Append(history, m)

AfterAgent(r) == IF IsMemory(r) THEN "open" ELSE "reply"

PushUser(r) ==
    /\ pc[r] = "push"
    /\ Push(Message("user", r, 0))
    /\ rounds' = [rounds EXCEPT ![r] = 0]
    /\ Goto(r, "ask")
    /\ UNCHANGED <<task, pending, queue, lock, prompt, agentSession, gateway,
                   files, outbox, wire, hostVars>>

(* Another request to the model, built from the system prompt and the      *)
(* history of this moment.                                                 *)
AskModel(r) ==
    /\ pc[r] = "ask"
    /\ rounds[r] < MaxToolCalls
    /\ Goto(r, "llm")
    /\ UNCHANGED <<task, loopVars, queue, lock, agentVars, gateway, files, outbox,
                   wire, hostVars>>

(* The loop ends at the limit with a message of the agent's own. *)
GiveUp(r) ==
    /\ pc[r] = "ask"
    /\ rounds[r] >= MaxToolCalls
    /\ Push(Message("assistant", r, 0))
    /\ Goto(r, AfterAgent(r))
    /\ UNCHANGED <<task, loopVars, queue, lock, prompt, agentSession, gateway,
                   files, outbox, wire, hostVars>>

(* The call fails: nothing is added to the history. *)
ModelFails(r) ==
    /\ pc[r] = "llm"
    /\ Goto(r, AfterAgent(r))
    /\ UNCHANGED <<task, loopVars, queue, lock, agentVars, gateway, files, outbox,
                   wire, hostVars>>

ModelAnswers(r) ==
    /\ pc[r] = "llm"
    /\ Push(Message("assistant", r, 0))
    /\ Goto(r, AfterAgent(r))
    /\ UNCHANGED <<task, loopVars, queue, lock, prompt, agentSession, gateway,
                   files, outbox, wire, hostVars>>

ModelCallsTools(r, n) ==
    /\ pc[r] = "llm"
    /\ Push(Message("calls", r, n))
    /\ pending' = [pending EXCEPT ![r] = n]
    /\ Goto(r, "tool")
    /\ UNCHANGED <<task, rounds, queue, lock, prompt, agentSession, gateway,
                   files, outbox, wire, hostVars>>

(* Seeded fault: off by one in the loop over the tool calls. *)
RunToolOnceMore(r) ==
    /\ pc[r] = "tool"
    /\ Push(Message("tool", r, 0))
    /\ pending' = [pending EXCEPT ![r] = @ - 1]
    /\ IF pending[r] > 0
       THEN UNCHANGED <<rounds, pc>>
       ELSE rounds' = [rounds EXCEPT ![r] = @ + 1] /\ Goto(r, "ask")
    /\ UNCHANGED <<task, queue, lock, prompt, agentSession, gateway, files, outbox,
                   wire, hostVars>>

(* One tool runs and its result is recorded; after the last one of the     *)
(* answer the loop goes round.                                             *)
RunTool(r) ==
    /\ pc[r] = "tool"
    /\ Push(Message("tool", r, 0))
    /\ pending' = [pending EXCEPT ![r] = @ - 1]
    /\ IF pending[r] > 1
       THEN UNCHANGED <<rounds, pc>>
       ELSE rounds' = [rounds EXCEPT ![r] = @ + 1] /\ Goto(r, "ask")
    /\ UNCHANGED <<task, queue, lock, prompt, agentSession, gateway, files, outbox,
                   wire, hostVars>>

-----------------------------------------------------------------------------
(* The process dies and is started again: threads, queues and the agent's  *)
(* state are gone, connections are closed, the files stay as they are.     *)
Crash ==
    /\ crashes < MaxCrashes
    /\ crashes' = crashes + 1
    /\ pc' = [r \in Requests |-> IF pc[r] \in {"new", "done"} THEN pc[r] ELSE "lost"]
    /\ wire' = [r \in Requests |->
                  IF pc[r] = "new" THEN wire[r] ELSE [wire[r] EXCEPT !.state = "down"]]
    /\ queue' = <<>>
    /\ outbox' = <<>>
    /\ lock' = None
    /\ prompt' = None
    /\ history' = <<>>
    /\ agentSession' = None
    /\ gateway' = [key |-> None, base |-> None]
    /\ lost' = lost \cup TornSessions
    /\ UNCHANGED <<task, loopVars, files>>

(* The steps of a thread that has begun on r, and of the main loop. *)
Progress(r) ==
    \/ StartTask(r) \/ SetSystemPrompt(r) \/ AcquireWorkerLock(r)
    \/ SetApiKey(r) \/ SetApiBase(r)
    \/ EnterSession(r) \/ LoadHistory(r) \/ TrimContext(r)
    \/ PushUser(r) \/ AskModel(r) \/ GiveUp(r)
    \/ ModelFails(r) \/ ModelAnswers(r)
    \/ \E n \in 1..MaxCallsPerReply : ModelCallsTools(r, n)
    \/ RunTool(r)
    \/ TruncateFile(r) \/ WriteFile(r) \/ OpenFails(r) \/ WriteFails(r)
    \/ PostResponse(r) \/ DeliverResponse(r)
    \/ RemoveFile(r) \/ AnswerChat(r) \/ ConfigBase(r)

Next ==
    \/ \E r \in Requests :
          \/ \E t \in Tasks :
                \/ PostMemory(r, t) \/ RejectMemory(r, t) \/ ClearMemory(r, t)
                \/ PostChat(r, t) \/ RejectChat(r, t) \/ ResetChat(r, t)
                \/ PostConfig(r, t)
          \/ Progress(r)
          \/ Disconnect(r)
    \/ Crash

Spec == Init /\ [][Next]_vars

(* Every thread that can take a step takes one in the end: curl's timeout  *)
(* ends each call to the model, and tools return.                          *)
FairSpec == Spec /\ \A r \in Requests : WF_vars(Progress(r))
-----------------------------------------------------------------------------
(* Properties                                                              *)

Frames == {"full", "head", "chunk", "last"}
Messages == [role : Roles, of : Requests, n : Nat]

Wires == [state : {"up", "closing", "down"}, sent : Seq(Frames)]
Files == [text : Seq(Messages), state : {"absent", "torn", "whole"}]

ControlOK == /\ pc \in [Requests -> Steps]
             /\ task \in [Requests -> Tasks \cup {NoTask}]
             /\ rounds \in [Requests -> Nat]
             /\ pending \in [Requests -> Nat]
             /\ crashes \in Nat
QueuesOK == /\ queue \in Seq(Requests)
            /\ outbox \in Seq(Requests)
            /\ lock \in Requests \cup {None}
AgentOK == /\ prompt \in Requests \cup {None}
           /\ history \in Seq(Messages)
           /\ agentSession \in Sessions \cup {None}
           /\ gateway \in [key : Requests \cup {None}, base : Requests \cup {None}]
StoreOK == /\ files \in [Sessions -> Files]
           /\ lost \in SUBSET Sessions
WireOK == wire \in [Requests -> Wires]

TypeOK == ControlOK /\ QueuesOK /\ AgentOK /\ StoreOK /\ WireOK

(* Between taking worker_lock and handing over its response a task is the  *)
(* only one there: gateway configuration, session switch, conversation     *)
(* with the model and save of two tasks never interleave.                  *)
OneTaskAtATime ==
    \A r \in Requests : IsMemory(r) /\ pc[r] \in LockedSteps => lock = r

(* No session's conversation reaches another session: what /chat/memory    *)
(* adds to the agent's history while the agent is in session s, and what   *)
(* is kept in the file of s, comes from requests for s, however tasks,     *)
(* clears and crashes interleave.  (Messages of /chat name no session.)    *)
OwnedBy(h, s) == \A i \in DOMAIN h : IsMemory(h[i].of) => SessionOf(h[i].of) = s

SessionIsolation ==
    /\ OwnedBy(history, agentSession)
    /\ \A s \in Sessions : OwnedBy(files[s].text, s)

(* Every request to the model, and every saved conversation, has each      *)
(* tool-call group whole: trimming, the switch of sessions, reloading and  *)
(* a crash never leave half of one ("never split them",                    *)
(* memory_manager.cpp:62-64).                                              *)
ToolGroupsWhole ==
    /\ \A r \in Requests : pc[r] \in {"ask", "llm", "open"} => WellFormed(history)
    /\ \A s \in Sessions : WellFormed(files[s].text)

(* A save loses nothing but what TrimContext is allowed to drop: it        *)
(* continues the conversation of the last save that opened the session's   *)
(* file, whole if that was not longer than the threshold and from at most  *)
(* MaxContext messages before its end otherwise, and it has the user's     *)
(* message.  A failed write is made good by the next save while the agent  *)
(* stays in the session; exempt is the first save after a file did not     *)
(* open, or after the agent left a session, or died, with a file torn.     *)
Continues(old, new) ==
    \E c \in 0..Excess(old) :
        LET kept == DropFirst(old, c) IN
        Len(kept) < Len(new) /\ SubSeq(new, 1, Len(kept)) = kept

SavesContinue ==
    [][\A r \in Requests :
          pc[r] = "open" /\ pc'[r] = "write" /\ SessionOf(r) \notin lost =>
             LET s == SessionOf(r) IN
             /\ Continues(files[s].text, files'[s].text)
             /\ \E i \in DOMAIN files'[s].text :
                    files'[s].text[i] = Message("user", r, 0)]_vars

(* A task whose user has an API key calls the model with that key, at the  *)
(* base that belongs to it.                                                *)
OwnKeyUsed ==
    \A r \in Requests : pc[r] = "llm" /\ task[r].key =>
        gateway = [key |-> r, base |-> r]

(* main.cpp:1686: "Lock shared state - only one AI request at a time       *)
(* (prevents race)": the model is asked under the system prompt that was   *)
(* built for the task's own message.                                       *)
PromptOfOwnMessage ==
    [][\A r \in Requests : pc[r] = "ask" /\ pc'[r] = "llm" /\ IsMemory(r) =>
          prompt = r]_vars

(* memory_manager.h:21, "Clear all memory for a session": a conversation   *)
(* that starts over after its file was removed holds nothing but the       *)
(* messages of the task that starts it.                                    *)
ClearForgets ==
    [][\A r \in Requests :
          /\ pc[r] = "open" /\ pc'[r] = "write"
          /\ files[SessionOf(r)].text = <<>>
          => \A i \in DOMAIN files'[SessionOf(r)].text :
                files'[SessionOf(r)].text[i].of = r]_vars

(* What a client receives on its connection is one response: one message,  *)
(* or one chunked stream with its headers first and its last chunk, never  *)
(* both and never twice, whichever of handler, HttpServer and worker send. *)
OneResponse ==
    \A r \in Requests :
        wire[r].sent \in {<<>>, <<"full">>, <<"head", "chunk", "last">>}

(* A request the service has accepted is answered, or its connection is    *)
(* gone: no task is forgotten in the pool, none waits for the lock for     *)
(* ever, and no response stays on the main loop.                           *)
AcceptedIsAnswered ==
    \A r \in Requests :
        []<>(\/ task[r].route \in {"none", "mistyped"}
             \/ wire[r].sent # <<>> \/ wire[r].state = "down")
=============================================================================
