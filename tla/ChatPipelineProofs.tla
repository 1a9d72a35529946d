------------------------- MODULE ChatPipelineProofs -------------------------
(***************************************************************************)
(* Proofs about ChatPipeline for every number of requests, sessions, IO    *)
(* threads and workers, and every bound: types, mutual exclusion of the    *)
(* worker tasks, and isolation of the sessions' conversations.             *)
(***************************************************************************)
EXTENDS ChatPipeline, SequenceTheorems, TLAPS

(* The steps of a worker task from the switch of sessions to the save. *)
InSession == AgentSteps \cup {"load", "trim", "open", "write"}

(* A thread in the loop over the tool calls has one left to run. *)
ToolCallsPending == \A r \in Requests : pc[r] = "tool" => pending[r] >= 1

(* A request has a task once it has left "new", and only tasks of a route  *)
(* take the steps of that route.                                           *)
RouteSteps ==
    \A r \in Requests :
        /\ pc[r] # "new" => task[r] \in Tasks
        /\ pc[r] \in (WorkerSteps \ AgentSteps) \cup {"queued", "posted"} => IsMemory(r)
        /\ pc[r] = "unlink" => task[r].route = "clear"
        /\ pc[r] \in {"reply", "rebase"} => ~IsMemory(r)

TypeInv == TypeOK /\ ToolCallsPending /\ RouteSteps

-----------------------------------------------------------------------------
(* What the operators return                                               *)

LEMMA MessageType ==
    ASSUME NEW role \in Roles, NEW of \in Requests, NEW n \in Nat
    PROVE  Message(role, of, n) \in Messages
  BY DEF Message, Messages

(* A task of a route that works on a session names one. *)
LEMMA TaskSession ==
    ASSUME NEW t \in Tasks, t.route \in {"memory", "clear"}
    PROVE  t.session \in Sessions
  BY DEF Tasks

LEMMA SendType ==
    ASSUME NEW w \in Wires, NEW f \in Frames
    PROVE  Send(w, f) \in Wires
  <1>1. Append(w.sent, f) \in Seq(Frames)
    BY DEF Wires
  <1>2. QED
    BY <1>1 DEF Send, Wires

(* Sending and shutting down keep a connection's record well typed. *)
LEMMA WireType ==
    ASSUME NEW w \in Wires
    PROVE  /\ RawReply(w) \in Wires
           /\ HttpReply(w) \in Wires
           /\ StreamReply(w) \in Wires
           /\ HttpReply(RawReply(w)) \in Wires
  <1>1. ASSUME NEW v \in Wires
        PROVE  Shutdown(v) \in Wires
    BY DEF Shutdown, Wires
  <1>2. "full" \in Frames /\ "head" \in Frames /\ "chunk" \in Frames /\ "last" \in Frames
    BY DEF Frames
  <1>3. RawReply(w) \in Wires /\ HttpReply(w) \in Wires /\ StreamReply(w) \in Wires
    BY <1>1, <1>2, SendType DEF RawReply, HttpReply, StreamReply, WriteChunk, End
  <1>4. HttpReply(RawReply(w)) \in Wires
    BY <1>2, <1>3, SendType DEF HttpReply
  <1>5. QED
    BY <1>3, <1>4

-----------------------------------------------------------------------------
(* Which steps leave a variable alone                                      *)

(* Only the replies, a lost client and a crash touch a connection. *)
LEMMA WireFrame ==
    ASSUME NEW r \in Requests,
           \/ \E t \in Tasks : \/ PostMemory(r, t) \/ ClearMemory(r, t)
                              \/ PostChat(r, t) \/ RejectChat(r, t) \/ PostConfig(r, t)
           \/ StartTask(r) \/ SetSystemPrompt(r) \/ AcquireWorkerLock(r)
           \/ SetApiKey(r) \/ SetApiBase(r) \/ EnterSession(r) \/ LoadHistory(r)
           \/ TrimContext(r) \/ PushUser(r) \/ AskModel(r) \/ GiveUp(r)
           \/ ModelFails(r) \/ ModelAnswers(r)
           \/ \E n \in 1..MaxCallsPerReply : ModelCallsTools(r, n)
           \/ RunTool(r) \/ TruncateFile(r) \/ WriteFile(r)
           \/ OpenFails(r) \/ WriteFails(r) \/ PostResponse(r)
    PROVE  wire' = wire
  BY DEF PostMemory, ClearMemory, PostChat, RejectChat, PostConfig, StartTask, SetSystemPrompt,
     AcquireWorkerLock, SetApiKey, SetApiBase, EnterSession, LoadHistory, TrimContext,
     PushUser, AskModel, GiveUp, ModelFails, ModelAnswers, ModelCallsTools, RunTool,
     TruncateFile, WriteFile, OpenFails, WriteFails, PostResponse

(* Only tasks, tool results and the switch of sessions touch the agent. *)
LEMMA AgentFrame ==
    ASSUME NEW r \in Requests,
           \/ \E t \in Tasks : PostMemory(r, t) \/ RejectMemory(r, t)
                               \/ PostChat(r, t) \/ RejectChat(r, t)
           \/ StartTask(r) \/ AcquireWorkerLock(r) \/ AskModel(r) \/ ModelFails(r)
           \/ TruncateFile(r) \/ WriteFile(r) \/ OpenFails(r) \/ WriteFails(r)
           \/ PostResponse(r) \/ DeliverResponse(r)
           \/ RemoveFile(r) \/ AnswerChat(r) \/ Disconnect(r)
    PROVE  UNCHANGED <<agentVars, gateway>>
  BY DEF PostMemory, RejectMemory, PostChat, RejectChat, StartTask, AcquireWorkerLock, AskModel,
     ModelFails, TruncateFile, WriteFile, OpenFails, WriteFails, PostResponse, DeliverResponse,
     RemoveFile, AnswerChat, Disconnect, agentVars

(* Only the save and the removal of a file touch a file. *)
LEMMA FilesFrame ==
    ASSUME NEW r \in Requests,
           \/ \E t \in Tasks : \/ PostMemory(r, t) \/ RejectMemory(r, t) \/ ClearMemory(r, t)
                              \/ PostChat(r, t) \/ RejectChat(r, t) \/ ResetChat(r, t)
               \/ PostConfig(r, t)
           \/ StartTask(r) \/ SetSystemPrompt(r) \/ AcquireWorkerLock(r)
           \/ SetApiKey(r) \/ SetApiBase(r) \/ EnterSession(r) \/ LoadHistory(r)
           \/ TrimContext(r) \/ PushUser(r) \/ AskModel(r) \/ GiveUp(r)
           \/ ModelFails(r) \/ ModelAnswers(r)
           \/ \E n \in 1..MaxCallsPerReply : ModelCallsTools(r, n)
           \/ RunTool(r) \/ OpenFails(r) \/ WriteFails(r) \/ PostResponse(r)
           \/ DeliverResponse(r) \/ AnswerChat(r) \/ ConfigBase(r) \/ Disconnect(r)
    PROVE  files' = files
  BY DEF PostMemory, RejectMemory, ClearMemory, PostChat, RejectChat, ResetChat, PostConfig,
     StartTask, SetSystemPrompt, AcquireWorkerLock, SetApiKey, SetApiBase, EnterSession,
     LoadHistory, TrimContext, PushUser, AskModel, GiveUp, ModelFails, ModelAnswers,
     ModelCallsTools, RunTool, OpenFails, WriteFails, PostResponse, DeliverResponse,
     AnswerChat, ConfigBase, Disconnect

-----------------------------------------------------------------------------
(* Types are kept by every step                                            *)

LEMMA WireStep == WireOK /\ [Next]_vars => WireOK'
  <1> SUFFICES ASSUME WireOK, [Next]_vars
               PROVE  WireOK'
    OBVIOUS
  <1>1. ASSUME NEW r \in Requests, NEW t \in Tasks,
               RejectMemory(r, t) \/ ResetChat(r, t)
        PROVE  WireOK'
    BY <1>1, WireType DEF RejectMemory, ResetChat, Reply, WireOK
  <1>2. ASSUME NEW r \in Requests,
               RemoveFile(r) \/ AnswerChat(r) \/ ConfigBase(r) \/ DeliverResponse(r)
        PROVE  WireOK'
    BY <1>2, WireType DEF RemoveFile, AnswerChat, ConfigBase, DeliverResponse, Reply, WireOK
  <1>3. ASSUME NEW r \in Requests, Disconnect(r)
        PROVE  WireOK'
    BY <1>3 DEF Disconnect, Reply, WireOK, Wires
  <1>4. CASE Crash
    BY <1>4 DEF Crash, WireOK, Wires
  <1>5. CASE UNCHANGED vars
    BY <1>5 DEF vars, WireOK
  <1>6. QED
    BY <1>1, <1>2, <1>3, <1>4, <1>5, WireFrame DEF Next, Progress, WireOK

LEMMA AgentStep == ControlOK /\ AgentOK /\ StoreOK /\ RouteSteps /\ [Next]_vars => AgentOK'
  <1> SUFFICES ASSUME ControlOK, AgentOK, StoreOK, RouteSteps, [Next]_vars
               PROVE  AgentOK'
    OBVIOUS
  <1>1. ASSUME NEW r \in Requests, NEW m \in Messages, Push(m),
               UNCHANGED <<prompt, agentSession, gateway>>
        PROVE  AgentOK'
    BY <1>1 DEF Push, AgentOK
  <1>2. ASSUME NEW r \in Requests, PushUser(r) \/ GiveUp(r) \/ ModelAnswers(r) \/ RunTool(r)
        PROVE  AgentOK'
    <2>1. \A role \in Roles : Message(role, r, 0) \in Messages
      BY MessageType
    <2>2. {"user", "assistant", "tool"} \subseteq Roles
      BY DEF Roles
    <2>3. QED
      BY <1>1, <1>2, <2>1, <2>2 DEF PushUser, GiveUp, ModelAnswers, RunTool
  <1>3. ASSUME NEW r \in Requests, NEW n \in 1..MaxCallsPerReply, ModelCallsTools(r, n)
        PROVE  AgentOK'
    <2>1. Message("calls", r, n) \in Messages
      BY MessageType, PipelineAssumption DEF Roles
    <2>2. QED
      BY <1>1, <1>3, <2>1 DEF ModelCallsTools
  <1>4. ASSUME NEW r \in Requests, NEW t \in Tasks,
               ClearMemory(r, t) \/ ResetChat(r, t) \/ PostConfig(r, t)
        PROVE  AgentOK'
    <2>1. <<>> \in Seq(Messages)
      OBVIOUS
    <2>2. QED
      BY <1>4, <2>1 DEF ClearMemory, ResetChat, PostConfig, AgentOK, agentVars
  <1>5. ASSUME NEW r \in Requests,
               SetSystemPrompt(r) \/ SetApiKey(r) \/ SetApiBase(r) \/ ConfigBase(r)
        PROVE  AgentOK'
    BY <1>5 DEF SetSystemPrompt, SetApiKey, SetApiBase, ConfigBase, AgentOK, agentVars
  <1>6. ASSUME NEW r \in Requests, EnterSession(r) \/ LoadHistory(r)
        PROVE  AgentOK'
    <2>1. SessionOf(r) \in Sessions
      BY <1>6, TaskSession DEF EnterSession, LoadHistory, RouteSteps, WorkerSteps,
         LockedSteps, AgentSteps, IsMemory, SessionOf
    <2>2. <<>> \in Seq(Messages) /\ files[SessionOf(r)].text \in Seq(Messages)
      BY <2>1 DEF StoreOK, Files
    <2>3. history' \in Seq(Messages) /\ agentSession' \in Sessions \cup {None}
      BY <1>6, <2>1, <2>2 DEF EnterSession, LoadHistory, AgentOK
    <2>4. QED
      BY <1>6, <2>3 DEF EnterSession, LoadHistory, AgentOK
  <1>7. ASSUME NEW r \in Requests, TrimContext(r)
        PROVE  AgentOK'
    <2>1. \A c \in 0..Len(history) : DropFirst(history, c) \in Seq(Messages)
      BY DEF DropFirst, AgentOK
    <2>2. QED
      BY <1>7, <2>1 DEF TrimContext, AgentOK
  <1>8. CASE Crash
    BY <1>8 DEF Crash, AgentOK
  <1>9. CASE UNCHANGED vars
    BY <1>9 DEF vars, AgentOK
  <1>10. QED
    BY <1>2, <1>3, <1>4, <1>5, <1>6, <1>7, <1>8, <1>9, AgentFrame
       DEF Next, Progress, AgentOK, agentVars

LEMMA StoreStep == AgentOK /\ StoreOK /\ RouteSteps /\ [Next]_vars => StoreOK'
  <1> SUFFICES ASSUME AgentOK, StoreOK, RouteSteps, [Next]_vars
               PROVE  StoreOK'
    OBVIOUS
  <1>1. ASSUME NEW r \in Requests, RemoveFile(r) \/ TruncateFile(r) \/ WriteFile(r)
        PROVE  files' \in [Sessions -> Files]
    <2>1. <<>> \in Seq(Messages)
      OBVIOUS
    <2>2. ASSUME NEW f \in Files, files' = [files EXCEPT ![SessionOf(r)] = f]
          PROVE  files' \in [Sessions -> Files]
      BY <2>2 DEF StoreOK
    <2>3. SessionOf(r) \in Sessions
      BY <1>1, TaskSession DEF RemoveFile, TruncateFile, WriteFile, RouteSteps,
         WorkerSteps, LockedSteps, AgentSteps, IsMemory, SessionOf
    <2>4. CASE RemoveFile(r)
      BY <2>1, <2>2, <2>4 DEF RemoveFile, Files
    <2>5. CASE TruncateFile(r)
      BY <2>2, <2>5 DEF TruncateFile, AgentOK, Files
    <2>6. CASE WriteFile(r)
      BY <2>3, <2>6 DEF WriteFile, StoreOK, Files
    <2>7. QED
      BY <1>1, <2>4, <2>5, <2>6
  <1>2. CASE Crash
    BY <1>2 DEF Crash, StoreOK, TornSessions
  <1>3. CASE UNCHANGED vars
    BY <1>3 DEF vars, StoreOK
  <1>4. ASSUME \E r \in Requests : \/ \E t \in Tasks :
                                         \/ PostMemory(r, t) \/ RejectMemory(r, t)
                                         \/ ClearMemory(r, t) \/ PostChat(r, t)
                                         \/ RejectChat(r, t) \/ ResetChat(r, t)
                                         \/ PostConfig(r, t)
                                   \/ Progress(r) \/ Disconnect(r)
        PROVE  StoreOK'
    <2>1. CASE \E r \in Requests : EnterSession(r) \/ TruncateFile(r) \/ OpenFails(r)
      <3>1. PICK r \in Requests : EnterSession(r) \/ TruncateFile(r) \/ OpenFails(r)
        BY <2>1
      <3>2. SessionOf(r) \in Sessions
        BY <3>1, TaskSession DEF EnterSession, TruncateFile, OpenFails, RouteSteps,
           WorkerSteps, LockedSteps, AgentSteps, IsMemory, SessionOf
      <3>3. lost' \in SUBSET Sessions
        BY <3>1, <3>2 DEF EnterSession, TruncateFile, OpenFails, TornSessions, StoreOK
      <3>4. files' \in [Sessions -> Files]
        BY <1>1, <3>1, FilesFrame DEF StoreOK
      <3>5. QED
        BY <3>3, <3>4 DEF StoreOK
    <2>2. CASE ~\E r \in Requests : EnterSession(r) \/ TruncateFile(r) \/ OpenFails(r)
      <3>1. lost' = lost
        BY <1>4, <2>2 DEF Progress, hostVars, PostMemory, RejectMemory, ClearMemory, PostChat,
           RejectChat, ResetChat, PostConfig, RemoveFile, AnswerChat, ConfigBase, Disconnect,
           StartTask, SetSystemPrompt, AcquireWorkerLock, SetApiKey, SetApiBase, LoadHistory,
           TrimContext, PushUser, AskModel, GiveUp, ModelFails, ModelAnswers,
           ModelCallsTools, RunTool, WriteFile, WriteFails, PostResponse, DeliverResponse
      <3>2. files' \in [Sessions -> Files]
        BY <1>1, <1>4, FilesFrame DEF Progress, StoreOK
      <3>3. QED
        BY <3>1, <3>2 DEF StoreOK
    <2>3. QED
      BY <2>1, <2>2
  <1>5. QED
    BY <1>2, <1>3, <1>4 DEF Next

LEMMA QueuesStep == QueuesOK /\ [Next]_vars => QueuesOK'
  <1> SUFFICES ASSUME QueuesOK, [Next]_vars
               PROVE  QueuesOK'
    OBVIOUS
  <1>1. ASSUME NEW r \in Requests, NEW t \in Tasks, PostMemory(r, t)
        PROVE  QueuesOK'
    BY <1>1 DEF PostMemory, QueuesOK
  <1>2. ASSUME NEW r \in Requests,
               \/ StartTask(r) \/ AcquireWorkerLock(r) \/ PostResponse(r) \/ DeliverResponse(r)
        PROVE  QueuesOK'
    <2>1. CASE StartTask(r)
      BY <2>1 DEF StartTask, QueuesOK
    <2>2. CASE AcquireWorkerLock(r)
      BY <2>2 DEF AcquireWorkerLock, QueuesOK
    <2>3. CASE PostResponse(r)
      BY <2>3 DEF PostResponse, QueuesOK
    <2>4. CASE DeliverResponse(r)
      BY <2>4 DEF DeliverResponse, QueuesOK
    <2>5. QED
      BY <1>2, <2>1, <2>2, <2>3, <2>4
  <1>3. CASE Crash
    BY <1>3 DEF Crash, QueuesOK
  <1>4. ASSUME NEW r \in Requests,
               \/ \E t \in Tasks : \/ RejectMemory(r, t) \/ ClearMemory(r, t) \/ PostChat(r, t)
                                   \/ RejectChat(r, t) \/ ResetChat(r, t)
                                   \/ PostConfig(r, t)
               \/ RemoveFile(r) \/ AnswerChat(r) \/ ConfigBase(r) \/ Disconnect(r)
               \/ SetSystemPrompt(r) \/ SetApiKey(r) \/ SetApiBase(r) \/ EnterSession(r)
               \/ LoadHistory(r) \/ TrimContext(r) \/ PushUser(r) \/ AskModel(r)
               \/ GiveUp(r) \/ ModelFails(r) \/ ModelAnswers(r)
               \/ \E n \in 1..MaxCallsPerReply : ModelCallsTools(r, n)
               \/ RunTool(r) \/ TruncateFile(r) \/ WriteFile(r)
               \/ OpenFails(r) \/ WriteFails(r)
        PROVE  UNCHANGED <<queue, outbox, lock>>
    BY <1>4 DEF RejectMemory, ClearMemory, PostChat, RejectChat, ResetChat, PostConfig,
       RemoveFile, AnswerChat, ConfigBase, Disconnect, SetSystemPrompt, SetApiKey, SetApiBase,
       EnterSession, LoadHistory, TrimContext, PushUser, AskModel, GiveUp, ModelFails,
       ModelAnswers, ModelCallsTools, RunTool, TruncateFile, WriteFile, OpenFails, WriteFails
  <1>5. CASE UNCHANGED vars
    BY <1>5 DEF vars, QueuesOK
  <1>6. QED
    BY <1>1, <1>2, <1>3, <1>4, <1>5 DEF Next, Progress, QueuesOK

(* The control state of a request, with what ties it to its task. *)
LEMMA ControlStep ==
    ControlOK /\ ToolCallsPending /\ RouteSteps /\ [Next]_vars =>
        ControlOK' /\ ToolCallsPending' /\ RouteSteps'
  <1> SUFFICES ASSUME ControlOK, ToolCallsPending, RouteSteps, [Next]_vars
               PROVE  ControlOK' /\ ToolCallsPending' /\ RouteSteps'
    OBVIOUS
  <1> USE DEF ControlOK, ToolCallsPending, RouteSteps, Steps, WorkerSteps, LockedSteps,
              AgentSteps, IsMemory, Goto, loopVars, hostVars
  <1>1. ASSUME NEW r \in Requests, NEW t \in Tasks,
               \/ PostMemory(r, t) \/ RejectMemory(r, t) \/ ClearMemory(r, t)
               \/ PostChat(r, t) \/ RejectChat(r, t) \/ ResetChat(r, t)
               \/ PostConfig(r, t)
        PROVE  ControlOK' /\ ToolCallsPending' /\ RouteSteps'
    <2>1. CASE PostMemory(r, t)
      BY <1>1, <2>1 DEF PostMemory, Arrive
    <2>2. CASE RejectMemory(r, t)
      BY <1>1, <2>2 DEF RejectMemory, Arrive
    <2>3. CASE ClearMemory(r, t)
      BY <1>1, <2>3 DEF ClearMemory, Arrive
    <2>4. CASE PostChat(r, t)
      BY <1>1, <2>4 DEF PostChat, Arrive
    <2>5. CASE ResetChat(r, t)
      BY <1>1, <2>5 DEF ResetChat, Arrive
    <2>6. CASE PostConfig(r, t)
      BY <1>1, <2>6 DEF PostConfig, Arrive
    <2>7. CASE RejectChat(r, t)
      BY <1>1, <2>7 DEF RejectChat, Arrive
    <2>8. QED
      BY <1>1, <2>1, <2>2, <2>3, <2>4, <2>5, <2>6, <2>7
  <1>2. ASSUME NEW r \in Requests, RemoveFile(r) \/ AnswerChat(r) \/ ConfigBase(r)
        PROVE  ControlOK' /\ ToolCallsPending' /\ RouteSteps'
    BY <1>2 DEF RemoveFile, AnswerChat, ConfigBase
  <1>3. ASSUME NEW r \in Requests, Disconnect(r)
        PROVE  ControlOK' /\ ToolCallsPending' /\ RouteSteps'
    BY <1>3 DEF Disconnect
  <1>4. ASSUME NEW r \in Requests,
               \/ StartTask(r) \/ SetSystemPrompt(r) \/ AcquireWorkerLock(r) \/ SetApiKey(r)
               \/ SetApiBase(r) \/ EnterSession(r) \/ LoadHistory(r) \/ TrimContext(r)
        PROVE  ControlOK' /\ ToolCallsPending' /\ RouteSteps'
    <2>1. CASE StartTask(r) \/ SetSystemPrompt(r) \/ AcquireWorkerLock(r)
      BY <2>1 DEF StartTask, SetSystemPrompt, AcquireWorkerLock
    <2>2. CASE SetApiKey(r) \/ SetApiBase(r)
      BY <2>2 DEF SetApiKey, SetApiBase
    <2>3. CASE EnterSession(r) \/ LoadHistory(r) \/ TrimContext(r)
      BY <2>3 DEF EnterSession, LoadHistory, TrimContext
    <2>4. QED
      BY <1>4, <2>1, <2>2, <2>3
  <1>5. ASSUME NEW r \in Requests,
               \/ TruncateFile(r) \/ WriteFile(r) \/ OpenFails(r) \/ WriteFails(r)
               \/ PostResponse(r) \/ DeliverResponse(r)
        PROVE  ControlOK' /\ ToolCallsPending' /\ RouteSteps'
    <2>1. CASE TruncateFile(r) \/ WriteFile(r)
      BY <2>1 DEF TruncateFile, WriteFile
    <2>2. CASE OpenFails(r) \/ WriteFails(r)
      BY <2>2 DEF OpenFails, WriteFails
    <2>3. CASE PostResponse(r) \/ DeliverResponse(r)
      BY <2>3 DEF PostResponse, DeliverResponse
    <2>4. QED
      BY <1>5, <2>1, <2>2, <2>3
  <1>6. ASSUME NEW r \in Requests,
               PushUser(r) \/ AskModel(r) \/ GiveUp(r) \/ ModelFails(r) \/ ModelAnswers(r)
        PROVE  ControlOK' /\ ToolCallsPending' /\ RouteSteps'
    BY <1>6 DEF PushUser, AskModel, GiveUp, ModelFails, ModelAnswers, AfterAgent
  <1>7. ASSUME NEW r \in Requests, NEW n \in 1..MaxCallsPerReply, ModelCallsTools(r, n)
        PROVE  ControlOK' /\ ToolCallsPending' /\ RouteSteps'
    BY <1>7, PipelineAssumption DEF ModelCallsTools
  <1>8. ASSUME NEW r \in Requests, RunTool(r)
        PROVE  ControlOK' /\ ToolCallsPending' /\ RouteSteps'
    BY <1>8 DEF RunTool
  <1>9. CASE Crash
    BY <1>9 DEF Crash
  <1>10. CASE UNCHANGED vars
    BY <1>10 DEF vars
  <1>11. QED
    BY <1>1, <1>2, <1>3, <1>4, <1>5, <1>6, <1>7, <1>8, <1>9, <1>10 DEF Next, Progress

LEMMA InitType == Init => TypeInv
  <1> SUFFICES ASSUME Init
               PROVE  TypeInv
    OBVIOUS
  <1>1. FreshWire \in Wires
    BY DEF FreshWire, Wires
  <1>2. [text |-> <<>>, state |-> "absent"] \in Files
    BY DEF Files
  <1>3. TypeOK
    BY <1>1, <1>2 DEF Init, TypeOK, ControlOK, QueuesOK, AgentOK, StoreOK, WireOK, Steps
  <1>4. ToolCallsPending /\ RouteSteps
    BY DEF Init, ToolCallsPending, RouteSteps, WorkerSteps, LockedSteps, AgentSteps
  <1>5. QED
    BY <1>3, <1>4 DEF TypeInv

(* Every variable of the chat service keeps its type: the handlers, worker *)
(* tasks and crashes of main.cpp's chat routes never leave it.             *)
THEOREM TypeCorrect == Spec => []TypeOK
  <1>1. TypeInv /\ [Next]_vars => TypeInv'
    BY WireStep, AgentStep, StoreStep, QueuesStep, ControlStep DEF TypeInv, TypeOK
  <1>2. TypeInv => TypeOK
    BY DEF TypeInv
  <1>3. QED
    BY InitType, <1>1, <1>2, PTL DEF Spec

-----------------------------------------------------------------------------
(* Mutual exclusion of the worker tasks                                    *)

LEMMA MutexStep ==
    TypeInv /\ OneTaskAtATime /\ [Next]_vars => OneTaskAtATime'
  <1> SUFFICES ASSUME TypeInv, OneTaskAtATime, [Next]_vars
               PROVE  OneTaskAtATime'
    OBVIOUS
  <1> USE DEF OneTaskAtATime, TypeInv, TypeOK, ControlOK, RouteSteps, LockedSteps,
              WorkerSteps, AgentSteps, IsMemory, Goto
  <1>1. ASSUME NEW r \in Requests, NEW t \in Tasks,
               \/ PostMemory(r, t) \/ RejectMemory(r, t) \/ ClearMemory(r, t)
               \/ PostChat(r, t) \/ RejectChat(r, t) \/ ResetChat(r, t)
               \/ PostConfig(r, t)
        PROVE  OneTaskAtATime'
    <2>1. pc[r] = "new" /\ task' = [task EXCEPT ![r] = t] /\ lock' = lock
      BY <1>1 DEF PostMemory, RejectMemory, ClearMemory, PostChat, RejectChat, ResetChat,
         PostConfig, Arrive
    <2>2. \/ pc' \in {[pc EXCEPT ![r] = "queued"], [pc EXCEPT ![r] = "done"],
                      [pc EXCEPT ![r] = "unlink"], [pc EXCEPT ![r] = "rebase"],
                      [pc EXCEPT ![r] = "reply"]}
          \/ t.route = "chat" /\ pc' = [pc EXCEPT ![r] = "push"]
      BY <1>1 DEF PostMemory, RejectMemory, ClearMemory, PostChat, RejectChat, ResetChat,
         PostConfig
    <2>3. QED
      BY <2>1, <2>2
  <1>2. ASSUME NEW r \in Requests,
               \/ RemoveFile(r) \/ AnswerChat(r) \/ ConfigBase(r) \/ Disconnect(r)
               \/ StartTask(r) \/ SetSystemPrompt(r) \/ DeliverResponse(r)
        PROVE  OneTaskAtATime'
    BY <1>2 DEF RemoveFile, AnswerChat, ConfigBase, Disconnect, StartTask,
       SetSystemPrompt, DeliverResponse
  <1>3. ASSUME NEW r \in Requests, AcquireWorkerLock(r) \/ PostResponse(r)
        PROVE  OneTaskAtATime'
    BY <1>3, PipelineAssumption DEF AcquireWorkerLock, PostResponse
  <1>4. ASSUME NEW r \in Requests,
               \/ SetApiKey(r) \/ SetApiBase(r) \/ EnterSession(r) \/ LoadHistory(r)
               \/ TrimContext(r) \/ TruncateFile(r) \/ WriteFile(r)
               \/ OpenFails(r) \/ WriteFails(r)
        PROVE  OneTaskAtATime'
    BY <1>4 DEF SetApiKey, SetApiBase, EnterSession, LoadHistory, TrimContext,
       TruncateFile, WriteFile, OpenFails, WriteFails
  <1>5. ASSUME NEW r \in Requests,
               \/ PushUser(r) \/ AskModel(r) \/ GiveUp(r) \/ ModelFails(r) \/ ModelAnswers(r)
               \/ \E n \in 1..MaxCallsPerReply : ModelCallsTools(r, n)
               \/ RunTool(r)
        PROVE  OneTaskAtATime'
    BY <1>5 DEF PushUser, AskModel, GiveUp, ModelFails, ModelAnswers, ModelCallsTools,
       RunTool, AfterAgent
  <1>6. CASE Crash
    BY <1>6 DEF Crash
  <1>7. CASE UNCHANGED vars
    BY <1>7 DEF vars
  <1>8. QED
    BY <1>1, <1>2, <1>3, <1>4, <1>5, <1>6, <1>7 DEF Next, Progress

(* However many workers, requests and routes there are, no two worker      *)
(* tasks are between taking worker_lock and posting their responses.       *)
THEOREM WorkerExclusion == Spec => []OneTaskAtATime
  <1>1. Init => TypeInv /\ OneTaskAtATime
    BY InitType DEF Init, OneTaskAtATime, LockedSteps, AgentSteps
  <1>2. TypeInv /\ OneTaskAtATime /\ [Next]_vars => TypeInv' /\ OneTaskAtATime'
    BY MutexStep, WireStep, AgentStep, StoreStep, QueuesStep, ControlStep DEF TypeInv, TypeOK
  <1>3. QED
    BY <1>1, <1>2, PTL DEF Spec

-----------------------------------------------------------------------------
(* Isolation of the sessions                                               *)

(* SessionIsolation is not inductive by itself: a message must be appended *)
(* while the agent is in the session of its request, and the request of a  *)
(* recorded message must have its task fixed.                              *)
Sound(m, s) == pc[m.of] # "new" /\ (IsMemory(m.of) => SessionOf(m.of) = s)

SoundHistory == \A i \in DOMAIN history : Sound(history[i], agentSession)
SoundFiles == \A s \in Sessions : \A i \in DOMAIN files[s].text : Sound(files[s].text[i], s)

HolderInSession ==
    \A r \in Requests : IsMemory(r) /\ pc[r] \in InSession => agentSession = SessionOf(r)

IsolationInv == SoundHistory /\ SoundFiles /\ HolderInSession

(* Tasks are assigned once, and no request becomes new again. *)
LEMMA TasksFixed ==
    ASSUME TypeInv, [Next]_vars, NEW r \in Requests, pc[r] # "new"
    PROVE  pc'[r] # "new" /\ task'[r] = task[r]
  <1> USE DEF TypeInv, TypeOK, ControlOK, Goto
  <1>1. ASSUME NEW q \in Requests, NEW t \in Tasks,
               \/ PostMemory(q, t) \/ RejectMemory(q, t) \/ ClearMemory(q, t)
               \/ PostChat(q, t) \/ RejectChat(q, t) \/ ResetChat(q, t) \/ PostConfig(q, t)
        PROVE  pc'[r] # "new" /\ task'[r] = task[r]
    BY <1>1 DEF PostMemory, RejectMemory, ClearMemory, PostChat, RejectChat, ResetChat,
       PostConfig, Arrive
  <1>2. ASSUME NEW q \in Requests, Progress(q) \/ Disconnect(q)
        PROVE  pc'[r] # "new" /\ task'[r] = task[r]
    BY <1>2 DEF Progress, Disconnect, StartTask, SetSystemPrompt, AcquireWorkerLock,
       SetApiKey, SetApiBase, EnterSession, LoadHistory, TrimContext, PushUser, AskModel,
       GiveUp, ModelFails, ModelAnswers, ModelCallsTools, RunTool, AfterAgent, TruncateFile,
       WriteFile, OpenFails, WriteFails, PostResponse, DeliverResponse, RemoveFile, AnswerChat,
       ConfigBase
  <1>3. CASE Crash
    BY <1>3 DEF Crash
  <1>4. CASE UNCHANGED vars
    BY <1>4 DEF vars
  <1>5. QED
    BY <1>1, <1>2, <1>3, <1>4 DEF Next

(* What was sound stays sound. *)
LEMMA SoundStays ==
    ASSUME TypeInv, [Next]_vars
    PROVE  \A m \in Messages : \A s : Sound(m, s) => Sound(m, s)'
  BY TasksFixed DEF Sound, IsMemory, SessionOf, Messages

(* The agent's session is that of the task that works in it. *)
LEMMA HolderStep ==
    TypeInv /\ OneTaskAtATime /\ HolderInSession /\ [Next]_vars => HolderInSession'
  <1> SUFFICES ASSUME TypeInv, OneTaskAtATime, HolderInSession, [Next]_vars
               PROVE  HolderInSession'
    OBVIOUS
  <1> USE DEF TypeInv, TypeOK, ControlOK, RouteSteps, HolderInSession, InSession,
              AgentSteps, IsMemory, SessionOf, Goto
  <1>1. ASSUME NEW r \in Requests, NEW t \in Tasks,
               \/ PostMemory(r, t) \/ RejectMemory(r, t) \/ ClearMemory(r, t)
               \/ PostChat(r, t) \/ RejectChat(r, t) \/ ResetChat(r, t)
               \/ PostConfig(r, t)
        PROVE  HolderInSession'
    <2>1. /\ pc[r] = "new" /\ task' = [task EXCEPT ![r] = t]
          /\ agentSession' = agentSession
      BY <1>1 DEF PostMemory, RejectMemory, ClearMemory, PostChat, RejectChat, ResetChat,
         PostConfig, Arrive, agentVars
    <2>2. \/ pc' \in {[pc EXCEPT ![r] = "queued"], [pc EXCEPT ![r] = "done"],
                      [pc EXCEPT ![r] = "unlink"], [pc EXCEPT ![r] = "rebase"],
                      [pc EXCEPT ![r] = "reply"]}
          \/ t.route = "chat" /\ pc' = [pc EXCEPT ![r] = "push"]
      BY <1>1 DEF PostMemory, RejectMemory, ClearMemory, PostChat, RejectChat, ResetChat,
         PostConfig
    <2>3. QED
      BY <2>1, <2>2
  <1>2. ASSUME NEW r \in Requests, EnterSession(r)
        PROVE  HolderInSession'
    <2>1. lock = r /\ IsMemory(r)
      BY <1>2 DEF EnterSession, OneTaskAtATime, LockedSteps, WorkerSteps
    <2>2. \A q \in Requests : IsMemory(q) /\ pc[q] \in InSession => q = r
      BY <2>1 DEF OneTaskAtATime, LockedSteps
    <2>3. QED
      BY <1>2, <2>2 DEF EnterSession
  <1>3. ASSUME NEW r \in Requests,
               \/ StartTask(r) \/ SetSystemPrompt(r) \/ AcquireWorkerLock(r)
               \/ SetApiKey(r) \/ SetApiBase(r) \/ LoadHistory(r) \/ TrimContext(r)
               \/ TruncateFile(r) \/ WriteFile(r) \/ OpenFails(r) \/ WriteFails(r)
               \/ PostResponse(r) \/ DeliverResponse(r)
        PROVE  HolderInSession'
    BY <1>3 DEF StartTask, SetSystemPrompt, AcquireWorkerLock, SetApiKey, SetApiBase,
       LoadHistory, TrimContext, TruncateFile, WriteFile, OpenFails, WriteFails, PostResponse,
       DeliverResponse, agentVars
  <1>4. ASSUME NEW r \in Requests,
               \/ PushUser(r) \/ AskModel(r) \/ GiveUp(r) \/ ModelFails(r) \/ ModelAnswers(r)
               \/ \E n \in 1..MaxCallsPerReply : ModelCallsTools(r, n)
               \/ RunTool(r)
        PROVE  HolderInSession'
    BY <1>4 DEF PushUser, AskModel, GiveUp, ModelFails, ModelAnswers, ModelCallsTools,
       RunTool, AfterAgent, agentVars
  <1>5. ASSUME NEW r \in Requests,
               RemoveFile(r) \/ AnswerChat(r) \/ ConfigBase(r) \/ Disconnect(r)
        PROVE  HolderInSession'
    BY <1>5 DEF RemoveFile, AnswerChat, ConfigBase, Disconnect, agentVars
  <1>6. CASE Crash
    BY <1>6 DEF Crash
  <1>7. CASE UNCHANGED vars
    BY <1>7 DEF vars
  <1>8. QED
    BY <1>1, <1>2, <1>3, <1>4, <1>5, <1>6, <1>7 DEF Next, Progress

(* Whatever is in the agent's history belongs to the agent's session. *)
LEMMA SoundHistoryStep == TypeInv /\ IsolationInv /\ [Next]_vars => SoundHistory'
  <1> SUFFICES ASSUME TypeInv, SoundHistory, SoundFiles, HolderInSession, [Next]_vars
               PROVE  SoundHistory'
    BY DEF IsolationInv
  <1>1. history \in Seq(Messages) /\ files \in [Sessions -> Files]
    BY DEF TypeInv, TypeOK, AgentOK, StoreOK
  <1>2. \A m \in Messages : \A s : Sound(m, s) => Sound(m, s)'
    BY SoundStays
  <1>3. ASSUME UNCHANGED <<history, agentSession>>
        PROVE  SoundHistory'
    BY <1>1, <1>2, <1>3 DEF SoundHistory
  <1>4. ASSUME history' = <<>>
        PROVE  SoundHistory'
    BY <1>4 DEF SoundHistory
  <1>5. ASSUME NEW r \in Requests, NEW role \in Roles, NEW n \in Nat, pc[r] \in AgentSteps,
               Push(Message(role, r, n)), agentSession' = agentSession
        PROVE  SoundHistory'
    <2>1. Message(role, r, n) \in Messages
      BY MessageType
    <2>2. Sound(Message(role, r, n), agentSession)
      BY <1>5 DEF Sound, Message, HolderInSession, InSession, AgentSteps
    <2>3. ASSUME NEW i \in DOMAIN history'
          PROVE  \/ i \in DOMAIN history /\ history'[i] = history[i]
                 \/ history'[i] = Message(role, r, n)
      BY <1>1, <1>5, <2>1, <2>3 DEF Push
    <2>4. QED
      BY <1>1, <1>2, <1>5, <2>1, <2>2, <2>3 DEF SoundHistory
  <1>6. ASSUME NEW r \in Requests,
               PushUser(r) \/ GiveUp(r) \/ ModelAnswers(r) \/ RunTool(r)
        PROVE  SoundHistory'
    <2>1. \E role \in Roles : Push(Message(role, r, 0))
      BY <1>6 DEF PushUser, GiveUp, ModelAnswers, RunTool, Roles
    <2>2. pc[r] \in AgentSteps /\ agentSession' = agentSession
      BY <1>6 DEF PushUser, GiveUp, ModelAnswers, RunTool, AgentSteps
    <2>3. QED
      BY <1>5, <2>1, <2>2
  <1>7. ASSUME NEW r \in Requests, NEW n \in 1..MaxCallsPerReply, ModelCallsTools(r, n)
        PROVE  SoundHistory'
    BY <1>5, <1>7, PipelineAssumption DEF ModelCallsTools, AgentSteps, Roles
  <1>8. ASSUME NEW r \in Requests, EnterSession(r)
        PROVE  SoundHistory'
    BY <1>3, <1>4, <1>8 DEF EnterSession
  <1>9. ASSUME NEW r \in Requests, LoadHistory(r)
        PROVE  SoundHistory'
    <2> DEFINE text == files[SessionOf(r)].text
    <2>1. IsMemory(r) /\ pc[r] \in InSession /\ agentSession' = agentSession
      BY <1>9 DEF LoadHistory, InSession, TypeInv, RouteSteps, WorkerSteps, LockedSteps,
         AgentSteps
    <2>2. SessionOf(r) \in Sessions /\ agentSession = SessionOf(r)
      BY <2>1, TaskSession DEF HolderInSession, TypeInv, RouteSteps, IsMemory, SessionOf,
         InSession, AgentSteps
    <2>3. CASE history' = history
      BY <1>3, <2>1, <2>3
    <2>4. CASE history' = text
      <3>1. text \in Seq(Messages)
        BY <1>1, <2>2 DEF Files
      <3>2. \A i \in DOMAIN text : Sound(text[i], agentSession)
        BY <2>2 DEF SoundFiles
      <3>3. \A i \in DOMAIN text : text[i] \in Messages
        BY <3>1
      <3>4. QED
        BY <1>2, <2>1, <2>4, <3>2, <3>3 DEF SoundHistory
    <2>5. QED
      BY <1>9, <2>3, <2>4 DEF LoadHistory
  <1>10. ASSUME NEW r \in Requests, TrimContext(r)
         PROVE  SoundHistory'
    <2>1. PICK c \in 0..Len(history) : history' = DropFirst(history, c)
      BY <1>10 DEF TrimContext
    <2>2. ASSUME NEW i \in DOMAIN history'
          PROVE  c + i \in DOMAIN history /\ history'[i] = history[c + i]
      BY <1>1, <2>1, <2>2 DEF DropFirst
    <2>3. agentSession' = agentSession
      BY <1>10 DEF TrimContext
    <2>4. QED
      BY <1>1, <1>2, <2>2, <2>3 DEF SoundHistory
  <1>11. ASSUME NEW r \in Requests, NEW t \in Tasks,
                ClearMemory(r, t) \/ ResetChat(r, t) \/ PostConfig(r, t)
         PROVE  SoundHistory'
    BY <1>3, <1>4, <1>11 DEF ClearMemory, ResetChat, PostConfig, agentVars
  <1>12. ASSUME NEW r \in Requests,
                SetSystemPrompt(r) \/ SetApiKey(r) \/ SetApiBase(r) \/ ConfigBase(r)
         PROVE  SoundHistory'
    BY <1>3, <1>12 DEF SetSystemPrompt, SetApiKey, SetApiBase, ConfigBase, agentVars
  <1>13. CASE Crash
    BY <1>4, <1>13 DEF Crash
  <1>14. CASE UNCHANGED vars
    BY <1>3, <1>14 DEF vars
  <1>15. QED
    BY <1>3, <1>6, <1>7, <1>8, <1>9, <1>10, <1>11, <1>12, <1>13, <1>14, AgentFrame
       DEF Next, Progress, agentVars

(* Whatever is in a session's file belongs to that session. *)
LEMMA SoundFilesStep == TypeInv /\ IsolationInv /\ [Next]_vars => SoundFiles'
  <1> SUFFICES ASSUME TypeInv, SoundHistory, SoundFiles, HolderInSession, [Next]_vars
               PROVE  SoundFiles'
    BY DEF IsolationInv
  <1>1. history \in Seq(Messages) /\ files \in [Sessions -> Files]
    BY DEF TypeInv, TypeOK, AgentOK, StoreOK
  <1>2. \A m \in Messages : \A s : Sound(m, s) => Sound(m, s)'
    BY SoundStays
  <1>3. \A s \in Sessions : \A i \in DOMAIN files[s].text : files[s].text[i] \in Messages
    BY <1>1 DEF Files
  <1>4. ASSUME \A s \in Sessions : files'[s].text \in {files[s].text, <<>>}
        PROVE  SoundFiles'
    BY <1>2, <1>3, <1>4 DEF SoundFiles
  <1>5. ASSUME files' = files
        PROVE  SoundFiles'
    BY <1>4, <1>5
  <1>6. ASSUME NEW r \in Requests, RemoveFile(r) \/ WriteFile(r)
        PROVE  SoundFiles'
    <2>1. CASE RemoveFile(r)
      <3>1. \A s \in Sessions : files'[s].text \in {files[s].text, <<>>}
        BY <1>1, <2>1 DEF RemoveFile
      <3>2. QED
        BY <1>4, <3>1
    <2>2. CASE WriteFile(r)
      <3>1. files'[SessionOf(r)].text = files[SessionOf(r)].text \/ files' = files
        BY <1>1, <2>2 DEF WriteFile, Files
      <3>2. \A s \in Sessions : files'[s].text = files[s].text
        BY <1>1, <2>2, <3>1 DEF WriteFile
      <3>3. QED
        BY <1>4, <3>2
    <2>3. QED
      BY <1>6, <2>1, <2>2
  <1>7. ASSUME NEW r \in Requests, TruncateFile(r)
        PROVE  SoundFiles'
    <2>1. agentSession = SessionOf(r) /\ agentSession' = agentSession
      BY <1>7 DEF TruncateFile, HolderInSession, InSession, TypeInv, RouteSteps,
         WorkerSteps, LockedSteps, AgentSteps, agentVars
    <2>2. \A s \in Sessions : \/ files'[s].text = files[s].text
                              \/ s = agentSession /\ files'[s].text = history
      BY <1>1, <1>7, <2>1 DEF TruncateFile
    <2>3. \A i \in DOMAIN history : history[i] \in Messages
      BY <1>1
    <2>4. QED
      BY <1>2, <1>3, <2>2, <2>3 DEF SoundFiles, SoundHistory
  <1>8. CASE Crash
    BY <1>5, <1>8 DEF Crash
  <1>9. CASE UNCHANGED vars
    BY <1>5, <1>9 DEF vars
  <1>10. QED
    BY <1>5, <1>6, <1>7, <1>8, <1>9, FilesFrame DEF Next, Progress

(* However tasks, clears, tool loops and crashes interleave, nothing that  *)
(* /chat/memory records for one session is kept for another one.           *)
THEOREM SessionsIsolated == Spec => []SessionIsolation
  <1> DEFINE Inv == TypeInv /\ OneTaskAtATime /\ IsolationInv
  <1>1. Init => Inv
    <2>1. Init => OneTaskAtATime
      BY DEF Init, OneTaskAtATime, LockedSteps, AgentSteps
    <2>2. Init => IsolationInv
      BY DEF Init, IsolationInv, SoundHistory, SoundFiles, HolderInSession, InSession,
         AgentSteps
    <2>3. QED
      BY InitType, <2>1, <2>2
  <1>2. Inv /\ [Next]_vars => Inv'
    <2>1. TypeInv /\ [Next]_vars => TypeInv'
      BY WireStep, AgentStep, StoreStep, QueuesStep, ControlStep DEF TypeInv, TypeOK
    <2>2. QED
      BY <2>1, MutexStep, HolderStep, SoundHistoryStep, SoundFilesStep DEF IsolationInv
  <1>3. Inv => SessionIsolation
    BY DEF IsolationInv, SoundHistory, SoundFiles, Sound, SessionIsolation, OwnedBy
  <1>4. QED
    BY <1>1, <1>2, <1>3, PTL DEF Spec

-----------------------------------------------------------------------------
(* One response on each connection                                         *)

Responses == {<<>>, <<"full">>, <<"head", "chunk", "last">>}

(* What OneResponse rests on: nothing is sent before the step that answers *)
(* the request, which is its last, and only that step shuts a connection.  *)
ResponseInv ==
    \A r \in Requests :
        /\ wire[r].sent \in Responses
        /\ pc[r] # "done" => wire[r].sent = <<>>
        /\ pc[r] \notin {"done", "lost"} => wire[r].state # "closing"

(* Tuples of frames, built one frame at a time. *)
LEMMA AppendedPair ==
    ASSUME NEW S, NEW a \in S, NEW b \in S
    PROVE  Append(<<a>>, b) = <<a, b>>
  <1>1. Append(<<a>>, b) \in Seq(S) /\ <<a, b>> \in Seq(S)
    OBVIOUS
  <1>2. \A i \in 1..2 : i = 1 \/ i = 2
    OBVIOUS
  <1>3. /\ Append(<<a>>, b)[1] = <<a, b>>[1]
        /\ Append(<<a>>, b)[2] = <<a, b>>[2]
    OBVIOUS
  <1>4. Len(Append(<<a>>, b)) = 2 /\ Len(<<a, b>>) = 2
    OBVIOUS
  <1>5. QED
    BY <1>1, <1>2, <1>3, <1>4, SeqEqual

LEMMA AppendedTriple ==
    ASSUME NEW S, NEW a \in S, NEW b \in S, NEW c \in S
    PROVE  Append(<<a, b>>, c) = <<a, b, c>>
  <1> DEFINE s == Append(<<a, b>>, c)
             t == <<a, b, c>>
  <1>1. s \in Seq(S) /\ t \in Seq(S)
    OBVIOUS
  <1>2. \A i \in 1..3 : i = 1 \/ i = 2 \/ i = 3
    OBVIOUS
  <1>3. s[1] = t[1] /\ s[2] = t[2] /\ s[3] = t[3]
    OBVIOUS
  <1>4. Len(s) = 3 /\ Len(t) = 3
    OBVIOUS
  <1> HIDE DEF s, t
  <1>5. \A i \in 1..Len(s) : s[i] = t[i]
    BY <1>2, <1>3, <1>4
  <1>6. s = t
    BY <1>1, <1>4, <1>5, SeqEqual
  <1>7. QED
    BY <1>6 DEF s, t

(* Each way to answer sends one response on a connection that has none,    *)
(* the second answer of an unparsable body included: it meets a connection *)
(* that is closing.                                                        *)
LEMMA OneReply ==
    ASSUME NEW w \in Wires, w.sent = <<>>, w.state # "closing"
    PROVE  \A x \in {w, RawReply(w), HttpReply(w), HttpReply(RawReply(w)), StreamReply(w)} :
               x.sent \in Responses
  <1>1. CASE w.state = "up"
    <2>1. w = [state |-> "up", sent |-> <<>>]
      BY <1>1 DEF Wires
    <2>2. /\ Append(<<>>, "full") = <<"full">>
          /\ Append(<<>>, "head") = <<"head">>
          /\ Append(<<"head">>, "chunk") = <<"head", "chunk">>
          /\ Append(<<"head", "chunk">>, "last") = <<"head", "chunk", "last">>
      <3>1. {"head", "chunk", "last"} \subseteq Frames
        BY DEF Frames
      <3>2. Append(<<>>, "full") = <<"full">> /\ Append(<<>>, "head") = <<"head">>
        OBVIOUS
      <3>3. QED
        BY <3>1, <3>2, AppendedPair, AppendedTriple
    <2>3. HttpReply(w) = [state |-> "up", sent |-> <<"full">>]
      BY <2>1, <2>2 DEF HttpReply, Send
    <2>4. RawReply(w) = [state |-> "closing", sent |-> <<"full">>]
      BY <2>3 DEF RawReply, HttpReply, Shutdown
    <2>5. HttpReply(RawReply(w)) = RawReply(w)
      BY <2>4 DEF HttpReply, Send
    <2>6. WriteChunk(w) = [state |-> "up", sent |-> <<"head", "chunk">>]
      BY <2>1, <2>2 DEF WriteChunk, Send
    <2>7. StreamReply(w) = [state |-> "closing", sent |-> <<"head", "chunk", "last">>]
      <3>1. Send(WriteChunk(w), "last") = [state |-> "up", sent |-> <<"head", "chunk", "last">>]
        BY <2>2, <2>6 DEF Send
      <3>2. QED
        BY <3>1 DEF StreamReply, End, Shutdown
    <2>8. QED
      BY <2>3, <2>4, <2>5, <2>7 DEF Responses
  <1>2. CASE w.state # "up"
    BY <1>2 DEF RawReply, HttpReply, StreamReply, WriteChunk, End, Send, Shutdown, Responses
  <1>3. QED
    BY <1>1, <1>2

(* A request that is done, or lost in a crash, has no step left. *)
LEMMA EndedStays ==
    ASSUME ControlOK, [Next]_vars, NEW r \in Requests
    PROVE  /\ pc[r] = "done" => pc'[r] = "done"
           /\ pc[r] = "lost" => pc'[r] = "lost"
  <1> USE DEF ControlOK, Goto
  <1>1. ASSUME NEW q \in Requests, NEW t \in Tasks,
               \/ PostMemory(q, t) \/ RejectMemory(q, t) \/ ClearMemory(q, t)
               \/ PostChat(q, t) \/ RejectChat(q, t) \/ ResetChat(q, t) \/ PostConfig(q, t)
        PROVE  r # q \/ pc[r] = "new"
    BY <1>1 DEF PostMemory, RejectMemory, ClearMemory, PostChat, RejectChat, ResetChat,
       PostConfig, Arrive
  <1>2. ASSUME NEW q \in Requests, NEW t \in Tasks, r # q,
               \/ PostMemory(q, t) \/ RejectMemory(q, t) \/ ClearMemory(q, t)
               \/ PostChat(q, t) \/ RejectChat(q, t) \/ ResetChat(q, t) \/ PostConfig(q, t)
        PROVE  pc'[r] = pc[r]
    BY <1>2 DEF PostMemory, RejectMemory, ClearMemory, PostChat, RejectChat, ResetChat,
       PostConfig
  <1>3. ASSUME NEW q \in Requests, Progress(q) \/ Disconnect(q)
        PROVE  pc[r] \in {"done", "lost"} => pc'[r] = pc[r]
    BY <1>3 DEF Progress, Disconnect, StartTask, SetSystemPrompt, AcquireWorkerLock,
       SetApiKey, SetApiBase, EnterSession, LoadHistory, TrimContext, PushUser, AskModel,
       GiveUp, ModelFails, ModelAnswers, ModelCallsTools, RunTool, TruncateFile,
       WriteFile, OpenFails, WriteFails, PostResponse, DeliverResponse, RemoveFile, AnswerChat,
       ConfigBase
  <1>4. CASE Crash
    BY <1>4 DEF Crash
  <1>5. CASE UNCHANGED vars
    BY <1>5 DEF vars
  <1>6. QED
    BY <1>1, <1>2, <1>3, <1>4, <1>5 DEF Next

LEMMA ResponseStep == TypeInv /\ ResponseInv /\ [Next]_vars => ResponseInv'
  <1> SUFFICES ASSUME TypeInv, ResponseInv, [Next]_vars
               PROVE  ResponseInv'
    OBVIOUS
  <1> USE DEF ResponseInv
  <1>1. ControlOK /\ wire \in [Requests -> Wires]
    BY DEF TypeInv, TypeOK, WireOK
  <1>2. ASSUME wire' = wire
        PROVE  ResponseInv'
    BY <1>1, <1>2, EndedStays
  <1>3. ASSUME NEW r \in Requests,
               NEW x \in {wire[r], RawReply(wire[r]), HttpReply(wire[r]),
                          HttpReply(RawReply(wire[r])), StreamReply(wire[r])},
               pc[r] \notin {"done", "lost"}, wire' = [wire EXCEPT ![r] = x],
               pc' = [pc EXCEPT ![r] = "done"]
        PROVE  ResponseInv'
    <2>1. x.sent \in Responses
      BY <1>1, <1>3, OneReply
    <2>2. wire'[r] = x /\ pc'[r] = "done"
      BY <1>1, <1>3 DEF ControlOK
    <2>3. \A q \in Requests \ {r} : wire'[q] = wire[q] /\ pc'[q] = pc[q]
      BY <1>1, <1>3 DEF ControlOK
    <2>4. QED
      BY <2>1, <2>2, <2>3
  <1>4. ASSUME NEW r \in Requests, NEW t \in Tasks, RejectMemory(r, t) \/ ResetChat(r, t)
        PROVE  ResponseInv'
    <2>1. pc[r] = "new" /\ pc' = [pc EXCEPT ![r] = "done"]
      BY <1>4 DEF RejectMemory, ResetChat, Arrive, Goto
    <2>2. \E x \in {wire[r], RawReply(wire[r]), HttpReply(wire[r]),
    HttpReply(RawReply(wire[r]))} :
              wire' = [wire EXCEPT ![r] = x]
      BY <1>1, <1>4 DEF RejectMemory, ResetChat, Reply
    <2>3. QED
      BY <1>3, <2>1, <2>2
  <1>5. ASSUME NEW r \in Requests,
               RemoveFile(r) \/ AnswerChat(r) \/ ConfigBase(r) \/ DeliverResponse(r)
        PROVE  ResponseInv'
    <2>1. pc[r] \notin {"done", "lost"} /\ pc' = [pc EXCEPT ![r] = "done"]
      BY <1>5 DEF RemoveFile, AnswerChat, ConfigBase, DeliverResponse, Goto
    <2>2. \E x \in {RawReply(wire[r]), HttpReply(wire[r]), StreamReply(wire[r])} :
              wire' = [wire EXCEPT ![r] = x]
      BY <1>5 DEF RemoveFile, AnswerChat, ConfigBase, DeliverResponse, Reply
    <2>3. QED
      BY <1>3, <2>1, <2>2
  <1>6. ASSUME NEW r \in Requests, Disconnect(r)
        PROVE  ResponseInv'
    BY <1>1, <1>6 DEF Disconnect, Reply, Wires
  <1>7. CASE Crash
    BY <1>1, <1>7 DEF Crash, ControlOK, Wires
  <1>8. CASE UNCHANGED vars
    BY <1>2, <1>8 DEF vars
  <1>9. QED
    BY <1>2, <1>4, <1>5, <1>6, <1>7, <1>8, WireFrame DEF Next, Progress

(* Whichever of handler, HttpServer, worker and main loop answer, and      *)
(* whenever the client leaves or the process dies, a client never receives *)
(* two responses, or part of one and then another.                         *)
THEOREM OneResponseEach == Spec => []OneResponse
  <1>1. Init => TypeInv /\ ResponseInv
    BY InitType DEF Init, ResponseInv, Responses, FreshWire
  <1>2. TypeInv /\ ResponseInv /\ [Next]_vars => TypeInv' /\ ResponseInv'
    BY ResponseStep, WireStep, AgentStep, StoreStep, QueuesStep, ControlStep DEF TypeInv, TypeOK
  <1>3. ResponseInv => OneResponse
    BY DEF ResponseInv, Responses, OneResponse
  <1>4. QED
    BY <1>1, <1>2, <1>3, PTL DEF Spec

-----------------------------------------------------------------------------
(* A task calls the model with its own user's key                          *)

(* From SetApiKey to the save the gateway has the configuration of the     *)
(* task that holds the lock, if that task has a key.                       *)
KeyInv ==
    \A r \in Requests : IsMemory(r) /\ task[r].key =>
        /\ pc[r] = "base" => gateway.key = r
        /\ pc[r] \in InSession \cup {"enter"} => gateway = [key |-> r, base |-> r]

NoConfig == \A r \in Requests : pc[r] # "rebase"

(* Steps that leave the gateway as it is take no task into its locked part *)
(* past SetApiBase.                                                        *)
LEMMA KeyFrame ==
    ASSUME TypeInv, KeyInv, NEW r \in Requests, gateway' = gateway,
           \A q \in Requests \ {r} : pc'[q] = pc[q] /\ task'[q] = task[q],
           \/ pc'[r] = pc[r] /\ task'[r] = task[r]
           \/ /\ task'[r] = task[r]
              /\ pc[r] \in InSession \cup {"enter"}
           \/ /\ pc'[r] # "base" /\ pc'[r] \notin InSession \cup {"enter"}
           \/ ~IsMemory(r)'
    PROVE  KeyInv'
  BY DEF KeyInv, IsMemory, InSession, AgentSteps

LEMMA KeyStep ==
    ASSUME "config" \notin Routes
    PROVE  TypeInv /\ OneTaskAtATime /\ KeyInv /\ NoConfig /\ [Next]_vars => KeyInv' /\ NoConfig'
  <1> SUFFICES ASSUME TypeInv, OneTaskAtATime, KeyInv, NoConfig, [Next]_vars
               PROVE  KeyInv' /\ NoConfig'
    OBVIOUS
  <1>0. /\ pc \in [Requests -> Steps]
        /\ task \in [Requests -> Tasks \cup {NoTask}]
        /\ gateway \in [key : Requests \cup {None}, base : Requests \cup {None}]
    BY DEF TypeInv, TypeOK, ControlOK, AgentOK
  <1>1. ASSUME NEW r \in Requests, NEW t \in Tasks,
               \/ PostMemory(r, t) \/ RejectMemory(r, t) \/ ClearMemory(r, t)
               \/ PostChat(r, t) \/ RejectChat(r, t) \/ ResetChat(r, t)
               \/ PostConfig(r, t)
        PROVE  KeyInv' /\ NoConfig'
    <2>1. t.route # "config"
      BY DEF Tasks
    <2>2. /\ pc[r] = "new" /\ task' = [task EXCEPT ![r] = t]
          /\ gateway' = gateway
      BY <1>1, <2>1 DEF PostMemory, RejectMemory, ClearMemory, PostChat, RejectChat, ResetChat,
         PostConfig, Arrive
    <2>3. \/ pc' \in {[pc EXCEPT ![r] = "queued"], [pc EXCEPT ![r] = "done"],
                      [pc EXCEPT ![r] = "unlink"], [pc EXCEPT ![r] = "reply"]}
          \/ t.route = "chat" /\ pc' = [pc EXCEPT ![r] = "push"]
      BY <1>1, <2>1 DEF PostMemory, RejectMemory, ClearMemory, PostChat, RejectChat, ResetChat,
         PostConfig, Goto
    <2>4. \A q \in Requests \ {r} : pc'[q] = pc[q] /\ task'[q] = task[q]
      BY <1>0, <2>2, <2>3
    <2>5. \/ pc'[r] \in {"queued", "done", "unlink", "reply"}
          \/ pc'[r] = "push" /\ ~IsMemory(r)'
      BY <1>0, <2>2, <2>3 DEF IsMemory
    <2>6. KeyInv'
      BY <2>2, <2>4, <2>5, KeyFrame DEF InSession, AgentSteps
    <2>7. NoConfig'
      BY <2>4, <2>5 DEF NoConfig
    <2>8. QED
      BY <2>6, <2>7
  <1>2. ASSUME NEW r \in Requests, SetApiKey(r) \/ SetApiBase(r)
        PROVE  KeyInv' /\ NoConfig'
    <2>1. IsMemory(r) /\ lock = r
      BY <1>2 DEF SetApiKey, SetApiBase, TypeInv, RouteSteps, OneTaskAtATime, WorkerSteps,
         LockedSteps, AgentSteps
    <2>2. \A q \in Requests \ {r} : IsMemory(q) =>
              pc[q] # "base" /\ pc[q] \notin InSession \cup {"enter"}
      BY <2>1 DEF OneTaskAtATime, LockedSteps, InSession
    <2>3. \A q \in Requests \ {r} : pc'[q] = pc[q]
      BY <1>0, <1>2 DEF SetApiKey, SetApiBase, Goto
    <2>4. task' = task /\ pc'[r] \in {"base", "enter"}
      BY <1>0, <1>2 DEF SetApiKey, SetApiBase, Goto
    <2>5. task[r].key => /\ pc'[r] = "base" => gateway'.key = r
                         /\ pc'[r] = "enter" => gateway' = [key |-> r, base |-> r]
      <3>1. CASE SetApiKey(r)
        BY <1>0, <3>1 DEF SetApiKey, Goto
      <3>2. CASE SetApiBase(r)
        BY <1>0, <2>1, <3>2 DEF SetApiBase, Goto, KeyInv
      <3>3. QED
        BY <1>2, <3>1, <3>2
    <2>6. KeyInv'
      BY <2>2, <2>3, <2>4, <2>5 DEF KeyInv, IsMemory, InSession, AgentSteps
    <2>7. NoConfig'
      BY <2>3, <2>4 DEF NoConfig
    <2>8. QED
      BY <2>6, <2>7
  <1>3. ASSUME NEW r \in Requests,
               \/ StartTask(r) \/ SetSystemPrompt(r) \/ AcquireWorkerLock(r)
               \/ PostResponse(r) \/ DeliverResponse(r) \/ RemoveFile(r) \/ AnswerChat(r)
               \/ Disconnect(r)
        PROVE  KeyInv' /\ NoConfig'
    <2>1. gateway' = gateway /\ task' = task
      BY <1>3 DEF StartTask, SetSystemPrompt, AcquireWorkerLock, PostResponse, DeliverResponse,
         RemoveFile, AnswerChat, Disconnect
    <2>2. /\ \A q \in Requests \ {r} : pc'[q] = pc[q]
          /\ pc'[r] = pc[r] \/ pc'[r] \in {"prompt", "lock", "key", "posted", "done"}
      BY <1>0, <1>3 DEF StartTask, SetSystemPrompt, AcquireWorkerLock, PostResponse,
         DeliverResponse, RemoveFile, AnswerChat, Disconnect, Goto
    <2>3. QED
      BY <2>1, <2>2, KeyFrame DEF NoConfig, InSession, AgentSteps
  <1>4. ASSUME NEW r \in Requests,
               \/ EnterSession(r) \/ LoadHistory(r) \/ TrimContext(r)
               \/ PushUser(r) \/ AskModel(r) \/ GiveUp(r) \/ ModelFails(r) \/ ModelAnswers(r)
               \/ \E n \in 1..MaxCallsPerReply : ModelCallsTools(r, n)
               \/ RunTool(r) \/ TruncateFile(r) \/ WriteFile(r)
               \/ OpenFails(r) \/ WriteFails(r)
        PROVE  KeyInv' /\ NoConfig'
    <2>1. gateway' = gateway /\ task' = task
      BY <1>4 DEF EnterSession, LoadHistory, TrimContext, PushUser, AskModel, GiveUp,
         ModelFails, ModelAnswers, ModelCallsTools, RunTool, TruncateFile, WriteFile, OpenFails,
         WriteFails
    <2>2. pc[r] \in InSession \cup {"enter"}
      BY <1>4 DEF EnterSession, LoadHistory, TrimContext, PushUser, AskModel, GiveUp,
         ModelFails, ModelAnswers, ModelCallsTools, RunTool, TruncateFile, WriteFile, OpenFails,
         WriteFails, InSession, AgentSteps
    <2>3. /\ \A q \in Requests \ {r} : pc'[q] = pc[q]
          /\ pc'[r] # "rebase"
      BY <1>0, <1>4, <2>2 DEF EnterSession, LoadHistory, TrimContext, PushUser, AskModel,
         GiveUp,
         ModelFails, ModelAnswers, ModelCallsTools, RunTool, TruncateFile, WriteFile, OpenFails,
         WriteFails, Goto, AfterAgent, InSession, AgentSteps
    <2>4. QED
      BY <2>1, <2>2, <2>3, KeyFrame DEF NoConfig
  <1>5. ASSUME NEW r \in Requests, ConfigBase(r)
        PROVE  FALSE
    BY <1>5 DEF ConfigBase, NoConfig
  <1>6. CASE Crash
    <2>1. \A r \in Requests : pc'[r] \in {"new", "done", "lost"}
      BY <1>6 DEF Crash
    <2>2. QED
      BY <2>1 DEF KeyInv, NoConfig, InSession, AgentSteps
  <1>7. CASE UNCHANGED vars
    BY <1>7 DEF vars, KeyInv, NoConfig, IsMemory
  <1>8. QED
    BY <1>1, <1>2, <1>3, <1>4, <1>5, <1>6, <1>7 DEF Next, Progress

(* While no client uses POST /api/config, whose handler writes the running *)
(* gateway without worker_lock, every task with a key asks the model with  *)
(* that key at its own base, however many users' tasks share the gateway.  *)
THEOREM OwnKeyIsUsed ==
    ASSUME "config" \notin Routes
    PROVE  Spec => []OwnKeyUsed
  <1> DEFINE Inv == TypeInv /\ OneTaskAtATime /\ KeyInv /\ NoConfig
  <1>1. Init => Inv
    BY InitType DEF Init, OneTaskAtATime, KeyInv, NoConfig, LockedSteps, InSession, AgentSteps
  <1>2. Inv /\ [Next]_vars => Inv'
    <2>1. TypeInv /\ [Next]_vars => TypeInv'
      BY WireStep, AgentStep, StoreStep, QueuesStep, ControlStep DEF TypeInv, TypeOK
    <2>2. QED
      BY <2>1, MutexStep, KeyStep
  <1>3. Inv => OwnKeyUsed
    <2> SUFFICES ASSUME TypeInv, KeyInv, NEW r \in Requests, pc[r] = "llm", task[r].key
                 PROVE  gateway = [key |-> r, base |-> r]
      BY DEF OwnKeyUsed
    <2>1. IsMemory(r)
      BY DEF TypeInv, RouteSteps, Tasks, IsMemory
    <2>2. QED
      BY <2>1 DEF KeyInv, InSession, AgentSteps
  <1>4. QED
    BY <1>1, <1>2, <1>3, PTL DEF Spec

-----------------------------------------------------------------------------
(* Tool-call groups stay whole                                             *)

(* h with k more messages of role "tool" is well formed, and its last      *)
(* group is the one that lacks them.                                       *)
Completes(h, k) ==
    /\ \A i \in DOMAIN h : h[i].role = "calls" =>
          /\ i + h[i].n <= Len(h) + k
          /\ \A j \in (i + 1)..(i + h[i].n) : j <= Len(h) => h[j].role = "tool"
    /\ \A j \in DOMAIN h : h[j].role = "tool" =>
          \E i \in 1..(j - 1) : h[i].role = "calls" /\ j - i <= h[i].n
    /\ k > 0 => \E i \in DOMAIN h : h[i].role = "calls" /\ i + h[i].n = Len(h) + k

(* What is known of a conversation, of one with a message added and of one *)
(* with its oldest messages dropped.                                       *)
LEMMA HistoryFacts ==
    ASSUME NEW h \in Seq(Messages)
    PROVE  /\ Len(h) \in Nat
           /\ DOMAIN h = 1..Len(h)
           /\ \A i \in 1..Len(h) : h[i] \in Messages /\ h[i].n \in Nat
  <1>1. Len(h) \in Nat /\ DOMAIN h = 1..Len(h) /\ \A i \in 1..Len(h) : h[i] \in Messages
    OBVIOUS
  <1>2. \A m \in Messages : m.n \in Nat
    BY DEF Messages
  <1>3. QED
    BY <1>1, <1>2

LEMMA AppendFacts ==
    ASSUME NEW h \in Seq(Messages), NEW m \in Messages
    PROVE  /\ Len(Append(h, m)) = Len(h) + 1
           /\ DOMAIN Append(h, m) = 1..(Len(h) + 1)
           /\ \A i \in 1..Len(h) : Append(h, m)[i] = h[i]
           /\ Append(h, m)[Len(h) + 1] = m
  OBVIOUS

LEMMA DropFacts ==
    ASSUME NEW h \in Seq(Messages), NEW c \in 0..Len(h)
    PROVE  /\ DropFirst(h, c) \in Seq(Messages)
           /\ Len(DropFirst(h, c)) = Len(h) - c
           /\ DOMAIN DropFirst(h, c) = 1..(Len(h) - c)
           /\ \A i \in 1..(Len(h) - c) : DropFirst(h, c)[i] = h[c + i]
  <1>1. Len(h) \in Nat /\ \A i \in (c + 1)..Len(h) : h[i] \in Messages
    OBVIOUS
  <1>2. /\ DropFirst(h, c) \in Seq(Messages)
        /\ Len(DropFirst(h, c)) = Len(h) - c
        /\ \A i \in 1..(Len(h) - c) : DropFirst(h, c)[i] = h[c + i]
    BY <1>1 DEF DropFirst
  <1>3. QED
    BY <1>2

LEMMA WholeIsComplete ==
    ASSUME NEW h \in Seq(Messages)
    PROVE  Completes(h, 0) <=> WellFormed(h)
  <1>1. \A i \in DOMAIN h : /\ i + h[i].n <= Len(h) + 0 <=> i + h[i].n <= Len(h)
                            /\ i + h[i].n <= Len(h) =>
                                  \A j \in (i + 1)..(i + h[i].n) : j <= Len(h)
    BY HistoryFacts
  <1>2. QED
    BY <1>1 DEF Completes, WellFormed

LEMMA EmptyIsWhole == WellFormed(<<>>)
  BY DEF WellFormed

(* A message that calls no tool and answers none leaves the groups whole.  *)
LEMMA PlainKeepsWhole ==
    ASSUME NEW h \in Seq(Messages), NEW m \in Messages, WellFormed(h),
           m.role \notin {"calls", "tool"}
    PROVE  WellFormed(Append(h, m))
  <1> DEFINE g == Append(h, m)
  <1>1. /\ Len(h) \in Nat /\ Len(g) = Len(h) + 1
        /\ DOMAIN h = 1..Len(h) /\ DOMAIN g = 1..(Len(h) + 1)
        /\ \A i \in 1..Len(h) : g[i] = h[i] /\ h[i].n \in Nat
        /\ g[Len(h) + 1] = m
    BY HistoryFacts, AppendFacts
  <1> HIDE DEF g
  <1>2. ASSUME NEW i \in DOMAIN g, g[i].role = "calls"
        PROVE  /\ i + g[i].n <= Len(g)
               /\ \A j \in (i + 1)..(i + g[i].n) : g[j].role = "tool"
    <2>1. i \in 1..Len(h) /\ h[i].role = "calls"
      BY <1>1, <1>2
    <2>2. /\ i + h[i].n <= Len(h)
          /\ \A j \in (i + 1)..(i + h[i].n) : h[j].role = "tool"
      BY <1>1, <2>1 DEF WellFormed
    <2>3. QED
      BY <1>1, <2>1, <2>2
  <1>3. ASSUME NEW j \in DOMAIN g, g[j].role = "tool"
        PROVE  \E i \in 1..(j - 1) : g[i].role = "calls" /\ j - i <= g[i].n
    <2>1. j \in 1..Len(h) /\ h[j].role = "tool"
      BY <1>1, <1>3
    <2>2. \E i \in 1..(j - 1) : h[i].role = "calls" /\ j - i <= h[i].n
      BY <1>1, <2>1 DEF WellFormed
    <2>3. QED
      BY <1>1, <2>1, <2>2
  <1>4. QED
    BY <1>2, <1>3 DEF WellFormed, g

(* An answer with n calls opens a group that lacks n results. *)
LEMMA CallsOpenGroup ==
    ASSUME NEW h \in Seq(Messages), NEW m \in Messages, WellFormed(h), m.role = "calls"
    PROVE  Completes(Append(h, m), m.n)
  <1> DEFINE g == Append(h, m)
  <1>1. /\ Len(h) \in Nat /\ Len(g) = Len(h) + 1
        /\ DOMAIN h = 1..Len(h) /\ DOMAIN g = 1..(Len(h) + 1)
        /\ \A i \in 1..Len(h) : g[i] = h[i] /\ h[i].n \in Nat
        /\ g[Len(h) + 1] = m /\ m.n \in Nat
    <2>1. m.n \in Nat
      BY DEF Messages
    <2>2. QED
      BY <2>1, HistoryFacts, AppendFacts
  <1> HIDE DEF g
  <1>2. ASSUME NEW i \in DOMAIN g, g[i].role = "calls"
        PROVE  /\ i + g[i].n <= Len(g) + m.n
               /\ \A j \in (i + 1)..(i + g[i].n) : j <= Len(g) => g[j].role = "tool"
    <2>1. CASE i = Len(h) + 1
      BY <1>1, <2>1
    <2>2. CASE i \in 1..Len(h)
      <3>1. /\ i + h[i].n <= Len(h)
            /\ \A j \in (i + 1)..(i + h[i].n) : h[j].role = "tool"
        BY <1>1, <1>2, <2>2 DEF WellFormed
      <3>2. QED
        BY <1>1, <2>2, <3>1
    <2>3. QED
      BY <1>1, <2>1, <2>2
  <1>3. ASSUME NEW j \in DOMAIN g, g[j].role = "tool"
        PROVE  \E i \in 1..(j - 1) : g[i].role = "calls" /\ j - i <= g[i].n
    <2>1. j \in 1..Len(h) /\ h[j].role = "tool"
      BY <1>1, <1>3
    <2>2. \E i \in 1..(j - 1) : h[i].role = "calls" /\ j - i <= h[i].n
      BY <1>1, <2>1 DEF WellFormed
    <2>3. QED
      BY <1>1, <2>1, <2>2
  <1>4. \E i \in DOMAIN g : g[i].role = "calls" /\ i + g[i].n = Len(g) + m.n
    BY <1>1
  <1>5. QED
    BY <1>2, <1>3, <1>4 DEF Completes, g

(* A tool's result is one of those the open group lacks. *)
LEMMA ToolFillsGroup ==
    ASSUME NEW h \in Seq(Messages), NEW m \in Messages, m.role = "tool",
           NEW k \in Nat \ {0}, Completes(h, k)
    PROVE  Completes(Append(h, m), k - 1)
  <1> DEFINE g == Append(h, m)
  <1>1. /\ Len(h) \in Nat /\ Len(g) = Len(h) + 1
        /\ DOMAIN h = 1..Len(h) /\ DOMAIN g = 1..(Len(h) + 1)
        /\ \A i \in 1..Len(h) : g[i] = h[i] /\ h[i].n \in Nat
        /\ g[Len(h) + 1] = m
    BY HistoryFacts, AppendFacts
  <1>2. PICK o \in 1..Len(h) : h[o].role = "calls" /\ o + h[o].n = Len(h) + k
    BY <1>1 DEF Completes
  <1> HIDE DEF g
  <1>3. ASSUME NEW i \in DOMAIN g, g[i].role = "calls"
        PROVE  /\ i + g[i].n <= Len(g) + (k - 1)
               /\ \A j \in (i + 1)..(i + g[i].n) : j <= Len(g) => g[j].role = "tool"
    <2>1. i \in 1..Len(h) /\ h[i].role = "calls" /\ g[i] = h[i]
      BY <1>1, <1>3
    <2>2. /\ i + h[i].n <= Len(h) + k
          /\ \A j \in (i + 1)..(i + h[i].n) : j <= Len(h) => h[j].role = "tool"
      BY <1>1, <2>1 DEF Completes
    <2>3. \A j \in (i + 1)..(i + h[i].n) : j <= Len(g) => j <= Len(h) \/ j = Len(h) + 1
      BY <1>1, <2>1
    <2>4. ASSUME NEW j \in (i + 1)..(i + g[i].n), j <= Len(g)
          PROVE  g[j].role = "tool"
      <3>1. CASE j = Len(h) + 1
        BY <1>1, <3>1
      <3>2. CASE j <= Len(h)
        <4>1. j \in 1..Len(h) /\ h[j].role = "tool"
          BY <1>1, <2>1, <2>2, <2>4, <3>2
        <4>2. QED
          BY <1>1, <4>1
      <3>3. QED
        BY <2>1, <2>3, <2>4, <3>1, <3>2
    <2>5. i + g[i].n <= Len(g) + (k - 1)
      BY <1>1, <2>1, <2>2
    <2>6. QED
      BY <2>4, <2>5
  <1>4. ASSUME NEW j \in DOMAIN g, g[j].role = "tool"
        PROVE  \E i \in 1..(j - 1) : g[i].role = "calls" /\ j - i <= g[i].n
    <2>0. j \in 1..(Len(h) + 1)
      BY <1>1, <1>4
    <2>1. CASE j = Len(h) + 1
      BY <1>1, <1>2, <2>1
    <2>2. CASE j \in 1..Len(h)
      <3>1. \E i \in 1..(j - 1) : h[i].role = "calls" /\ j - i <= h[i].n
        BY <1>1, <1>4, <2>2 DEF Completes
      <3>2. QED
        BY <1>1, <2>2, <3>1
    <2>3. j = Len(h) + 1 \/ j \in 1..Len(h)
      BY <1>1, <2>0
    <2>4. QED
      BY <2>1, <2>2, <2>3
  <1>5. \E i \in DOMAIN g : g[i].role = "calls" /\ i + g[i].n = Len(g) + (k - 1)
    BY <1>1, <1>2
  <1>6. QED
    BY <1>3, <1>4, <1>5 DEF Completes, g

(* Where TrimContext may cut, it leaves whole groups. *)
LEMMA TrimKeepsWhole ==
    ASSUME NEW h \in Seq(Messages), WellFormed(h), NEW c \in 0..Len(h), ~SplitsGroup(h, c)
    PROVE  WellFormed(DropFirst(h, c))
  <1> DEFINE g == DropFirst(h, c)
  <1>1. /\ Len(h) \in Nat /\ Len(g) = Len(h) - c
        /\ DOMAIN h = 1..Len(h) /\ DOMAIN g = 1..(Len(h) - c)
        /\ \A i \in 1..(Len(h) - c) : g[i] = h[c + i]
        /\ \A i \in 1..Len(h) : h[i].n \in Nat
    BY HistoryFacts, DropFacts
  <1> HIDE DEF g
  <1>2. ASSUME NEW i \in DOMAIN g, g[i].role = "calls"
        PROVE  /\ i + g[i].n <= Len(g)
               /\ \A j \in (i + 1)..(i + g[i].n) : g[j].role = "tool"
    <2> DEFINE n == h[c + i].n
    <2>0. c + i \in DOMAIN h /\ h[c + i].role = "calls"
      BY <1>1, <1>2
    <2>1. i \in 1..(Len(h) - c) /\ g[i].n = n /\ n \in Nat
      BY <1>1, <1>2
    <2>2. c + i + n <= Len(h)
      BY <2>0 DEF WellFormed
    <2>3. \A j \in (c + i + 1)..(c + i + n) : h[j].role = "tool"
      BY <2>0, Zenon DEF WellFormed
    <2> HIDE DEF n
    <2>4. Len(h) \in Nat /\ Len(g) = Len(h) - c
      BY <1>1
    <2>5. ASSUME NEW j \in (i + 1)..(i + n)
          PROVE  g[j].role = "tool"
      <3>1. c + j \in (c + i + 1)..(c + i + n) /\ j \in 1..(Len(h) - c)
        BY <2>1, <2>2, <2>4
      <3>2. QED
        BY <1>1, <2>3, <3>1
    <2>6. i + n <= Len(g)
      BY <2>1, <2>2, <2>4
    <2>7. QED
      BY <2>1, <2>5, <2>6
  <1>3. ASSUME NEW j \in DOMAIN g, g[j].role = "tool"
        PROVE  \E i \in 1..(j - 1) : g[i].role = "calls" /\ j - i <= g[i].n
    <2> DEFINE d == c + j
    <2>1. j \in 1..(Len(h) - c) /\ d \in 1..Len(h) /\ h[d].role = "tool"
      BY <1>1, <1>3
    <2> HIDE DEF d
    <2>2. PICK i \in 1..(d - 1) : h[i].role = "calls" /\ d - i <= h[i].n
      BY <1>1, <2>1 DEF WellFormed
    <2>3. i \in 1..Len(h) /\ h[i].n \in Nat /\ d = c + j
      BY <1>1, <2>1 DEF d
    <2>4. CASE i <= c
      <3>1. \A k \in (i + 1)..(i + h[i].n) : h[k].role = "tool"
        BY <1>1, <2>2, <2>3 DEF WellFormed
      <3>2. c < Len(h) /\ c + 1 <= i + h[i].n
        BY <1>1, <2>1, <2>2, <2>3, <2>4
      <3>3. i \in 1..c /\ \A k \in (i + 1)..(c + 1) : h[k].role = "tool"
        BY <2>3, <2>4, <3>1, <3>2
      <3>4. QED
        BY <2>2, <3>2, <3>3 DEF SplitsGroup
    <2>5. CASE i > c
      <3>1. i - c \in 1..(j - 1) /\ g[i - c] = h[i]
        BY <1>1, <2>1, <2>3, <2>5
      <3>2. g[i - c].role = "calls" /\ j - (i - c) <= g[i - c].n
        BY <2>1, <2>2, <2>3, <3>1
      <3>3. QED
        BY <3>1, <3>2
    <2>6. QED
      BY <2>3, <2>4, <2>5
  <1>4. QED
    BY <1>2, <1>3 DEF WellFormed, g

(* No route but /chat/memory touches the agent's history. *)
MemoryAlone == Routes \cap {"clear", "chat", "reset"} = {}

InTool(r) == pc[r] = "tool"

(* While a task runs the tools of an answer, the history lacks exactly the *)
(* results still to come; otherwise every group in it is whole, and so are *)
(* the groups of every file.                                               *)
GroupInv ==
    /\ \A r \in Requests : pc[r] \in AgentSteps => IsMemory(r)
    /\ \A r \in Requests : InTool(r) => Completes(history, pending[r])
    /\ (\A r \in Requests : ~InTool(r)) => WellFormed(history)
    /\ \A s \in Sessions : WellFormed(files[s].text)

(* A task that holds the lock and is not running a tool finds the history  *)
(* well formed: nobody else is running one.                                *)
LEMMA WholeForHolder ==
    ASSUME TypeInv, OneTaskAtATime, GroupInv, NEW r \in Requests,
           IsMemory(r), pc[r] \in LockedSteps, ~InTool(r)
    PROVE  WellFormed(history) /\ \A q \in Requests : ~InTool(q)
  <1>1. \A q \in Requests : InTool(q) => q = r
    BY DEF OneTaskAtATime, GroupInv, InTool, LockedSteps, AgentSteps
  <1>2. QED
    BY <1>1 DEF GroupInv

(* A step that changes neither the history nor the files, and neither      *)
(* begins nor ends the run of a tool, keeps the invariant.                 *)
LEMMA GroupFrame ==
    ASSUME GroupInv, UNCHANGED <<history, pending, files>>,
           \A q \in Requests : /\ InTool(q)' <=> InTool(q)
                               /\ (pc[q] \in AgentSteps)' => IsMemory(q)'
    PROVE  GroupInv'
  BY DEF GroupInv

LEMMA GroupStep ==
    ASSUME MemoryAlone
    PROVE  TypeInv /\ OneTaskAtATime /\ GroupInv /\ [Next]_vars => GroupInv'
  <1> SUFFICES ASSUME TypeInv, OneTaskAtATime, GroupInv, [Next]_vars
               PROVE  GroupInv'
    OBVIOUS
  <1>0. /\ pc \in [Requests -> Steps] /\ task \in [Requests -> Tasks \cup {NoTask}]
        /\ pending \in [Requests -> Nat] /\ history \in Seq(Messages)
        /\ files \in [Sessions -> Files]
    BY DEF TypeInv, TypeOK, ControlOK, AgentOK, StoreOK
  <1>1. ASSUME NEW r \in Requests, NEW t \in Tasks,
               \/ PostMemory(r, t) \/ RejectMemory(r, t) \/ ClearMemory(r, t)
               \/ PostChat(r, t) \/ RejectChat(r, t) \/ ResetChat(r, t)
               \/ PostConfig(r, t)
        PROVE  GroupInv'
    <2>1. t.route \notin {"clear", "chat", "reset"}
      BY DEF Tasks, MemoryAlone
    <2>2. /\ pc[r] = "new" /\ task' = [task EXCEPT ![r] = t]
          /\ UNCHANGED <<history, pending, files>>
      BY <1>1, <2>1 DEF PostMemory, RejectMemory, ClearMemory, PostChat, RejectChat, ResetChat,
         PostConfig, Arrive, loopVars, agentVars
    <2>3. pc' \in {[pc EXCEPT ![r] = "queued"], [pc EXCEPT ![r] = "done"],
                   [pc EXCEPT ![r] = "rebase"]}
      BY <1>1, <2>1 DEF PostMemory, RejectMemory, ClearMemory, PostChat, RejectChat, ResetChat,
         PostConfig, Goto
    <2>4. \A q \in Requests : /\ InTool(q)' <=> InTool(q)
                              /\ (pc[q] \in AgentSteps)' => IsMemory(q)'
      BY <1>0, <2>2, <2>3 DEF InTool, AgentSteps, IsMemory, GroupInv
    <2>5. QED
      BY <2>2, <2>4, GroupFrame
  <1>2. ASSUME NEW r \in Requests,
               \/ StartTask(r) \/ SetSystemPrompt(r) \/ AcquireWorkerLock(r)
               \/ SetApiKey(r) \/ SetApiBase(r) \/ AskModel(r) \/ ModelFails(r)
               \/ OpenFails(r) \/ WriteFails(r) \/ PostResponse(r) \/ DeliverResponse(r)
               \/ AnswerChat(r) \/ ConfigBase(r) \/ Disconnect(r)
        PROVE  GroupInv'
    <2>1. UNCHANGED <<history, pending, files, task>>
      BY <1>2 DEF StartTask, SetSystemPrompt, AcquireWorkerLock, SetApiKey, SetApiBase,
         AskModel, ModelFails, OpenFails, WriteFails, PostResponse, DeliverResponse, AnswerChat,
         ConfigBase, Disconnect, loopVars, agentVars
    <2>2. \A q \in Requests : /\ InTool(q)' <=> InTool(q)
                              /\ (pc[q] \in AgentSteps)' => pc[q] \in AgentSteps
      BY <1>0, <1>2 DEF StartTask, SetSystemPrompt, AcquireWorkerLock, SetApiKey, SetApiBase,
         AskModel, ModelFails, OpenFails, WriteFails, PostResponse, DeliverResponse,
         AnswerChat, ConfigBase, Disconnect, Goto, AfterAgent, InTool, AgentSteps
    <2>3. QED
      BY <2>1, <2>2, GroupFrame DEF GroupInv, IsMemory
  <1>3. ASSUME NEW r \in Requests, IsMemory(r), pc[r] \in LockedSteps, ~InTool(r), ~InTool(r)',
               WellFormed(history'), UNCHANGED <<task, files>>,
               \A q \in Requests \ {r} : pc'[q] = pc[q]
        PROVE  GroupInv'
    <2>1. \A q \in Requests : ~InTool(q)'
      BY <1>3, WholeForHolder DEF InTool
    <2>2. \A q \in Requests : (pc[q] \in AgentSteps)' => IsMemory(q)'
      BY <1>3 DEF GroupInv, IsMemory
    <2>3. QED
      BY <1>3, <2>1, <2>2 DEF GroupInv
  <1>4. ASSUME NEW r \in Requests, EnterSession(r) \/ LoadHistory(r) \/ TrimContext(r)
        PROVE  GroupInv'
    <2>1. /\ IsMemory(r) /\ pc[r] \in LockedSteps /\ ~InTool(r) /\ ~InTool(r)'
          /\ UNCHANGED <<task, files>> /\ \A q \in Requests \ {r} : pc'[q] = pc[q]
      BY <1>0, <1>4 DEF EnterSession, LoadHistory, TrimContext, Goto, InTool, TypeInv,
         RouteSteps, WorkerSteps, LockedSteps, AgentSteps
    <2>2. WellFormed(history)
      BY <2>1, WholeForHolder
    <2>3. SessionOf(r) \in Sessions
      BY <2>1, TaskSession DEF TypeInv, RouteSteps, IsMemory, SessionOf, LockedSteps, AgentSteps
    <2>4. CASE EnterSession(r)
      BY <1>3, <2>1, <2>2, <2>4, EmptyIsWhole DEF EnterSession
    <2>5. CASE LoadHistory(r)
      <3>1. WellFormed(files[SessionOf(r)].text)
        BY <2>3 DEF GroupInv
      <3>2. QED
        BY <1>3, <2>1, <2>2, <2>5, <3>1 DEF LoadHistory
    <2>6. CASE TrimContext(r)
      <3>1. \A c \in 0..Len(history) :
                IsTrimPoint(history, c) => WellFormed(DropFirst(history, c))
        BY <1>0, <2>2, TrimKeepsWhole DEF IsTrimPoint
      <3>2. QED
        BY <1>3, <2>1, <2>6, <3>1 DEF TrimContext
    <2>7. QED
      BY <1>4, <2>4, <2>5, <2>6
  <1>5. ASSUME NEW r \in Requests, PushUser(r) \/ GiveUp(r) \/ ModelAnswers(r)
        PROVE  GroupInv'
    <2>1. /\ IsMemory(r) /\ pc[r] \in LockedSteps /\ ~InTool(r) /\ ~InTool(r)'
          /\ UNCHANGED <<task, files>> /\ \A q \in Requests \ {r} : pc'[q] = pc[q]
      BY <1>0, <1>5 DEF PushUser, GiveUp, ModelAnswers, AfterAgent, Goto, InTool, GroupInv,
         LockedSteps, AgentSteps
    <2>2. PICK m \in Messages : m.role \notin {"calls", "tool"} /\ history' = Append(history, m)
      <3>1. /\ Message("user", r, 0) \in Messages /\ Message("user", r, 0).role = "user"
            /\ Message("assistant", r, 0) \in Messages
            /\ Message("assistant", r, 0).role = "assistant"
        BY DEF Message, Messages, Roles
      <3>2. QED
        BY <1>5, <3>1 DEF PushUser, GiveUp, ModelAnswers, Push
    <2>3. WellFormed(history')
      BY <1>0, <2>1, <2>2, WholeForHolder, PlainKeepsWhole
    <2>4. QED
      BY <1>3, <2>1, <2>3
  <1>6. ASSUME NEW r \in Requests, NEW n \in 1..MaxCallsPerReply, ModelCallsTools(r, n)
        PROVE  GroupInv'
    <2> DEFINE m == Message("calls", r, n)
    <2>1. /\ IsMemory(r) /\ pc[r] \in LockedSteps /\ ~InTool(r) /\ InTool(r)'
          /\ UNCHANGED <<task, files>> /\ \A q \in Requests \ {r} : pc'[q] = pc[q]
          /\ pending'[r] = n
      BY <1>0, <1>6 DEF ModelCallsTools, Goto, InTool, GroupInv, LockedSteps, AgentSteps
    <2>2. m \in Messages /\ m.role = "calls" /\ m.n = n
      BY PipelineAssumption DEF Message, Messages, Roles
    <2>3. WellFormed(history) /\ \A q \in Requests : ~InTool(q)
      BY <2>1, WholeForHolder
    <2>4. history' = Append(history, m)
      BY <1>6 DEF ModelCallsTools, Push
    <2> HIDE DEF m
    <2>5. Completes(history', n)
      BY <1>0, <2>2, <2>3, <2>4, CallsOpenGroup
    <2>6. \A q \in Requests \ {r} : ~InTool(q)'
      BY <2>1, <2>3 DEF InTool
    <2>7. \A q \in Requests : (pc[q] \in AgentSteps)' => IsMemory(q)'
      BY <2>1 DEF GroupInv, IsMemory
    <2>8. \A s \in Sessions : WellFormed(files'[s].text)
      BY <2>1 DEF GroupInv
    <2>9. QED
      BY <2>1, <2>5, <2>6, <2>7, <2>8 DEF GroupInv
  <1>7. ASSUME NEW r \in Requests, RunTool(r)
        PROVE  GroupInv'
    <2> DEFINE m == Message("tool", r, 0)
               k == pending[r]
    <2>1. /\ InTool(r) /\ IsMemory(r) /\ k \in Nat \ {0} /\ Completes(history, k)
          /\ UNCHANGED <<task, files>> /\ \A q \in Requests \ {r} : pc'[q] = pc[q]
          /\ pending'[r] = k - 1
          /\ k > 1 => InTool(r)'
          /\ k = 1 => ~InTool(r)'
      BY <1>0, <1>7 DEF RunTool, Goto, InTool, GroupInv, AgentSteps, TypeInv, ToolCallsPending
    <2>2. m \in Messages /\ m.role = "tool"
      BY DEF Message, Messages, Roles
    <2>3. history' = Append(history, m)
      BY <1>7 DEF RunTool, Push
    <2> HIDE DEF m, k
    <2>4. Completes(history', k - 1) /\ history' \in Seq(Messages)
      BY <1>0, <2>1, <2>2, <2>3, ToolFillsGroup
    <2>5. \A q \in Requests \ {r} : ~InTool(q) /\ ~InTool(q)'
      BY <2>1 DEF OneTaskAtATime, GroupInv, InTool, LockedSteps, AgentSteps
    <2>6. k = 1 => WellFormed(history')
      BY <2>4, WholeIsComplete
    <2>7. \A q \in Requests : (pc[q] \in AgentSteps)' => IsMemory(q)'
      BY <2>1 DEF GroupInv, IsMemory
    <2>8. \A s \in Sessions : WellFormed(files'[s].text)
      BY <2>1 DEF GroupInv
    <2>9. k = 1 \/ k > 1
      BY <2>1
    <2>10. QED
      BY <2>1, <2>4, <2>5, <2>6, <2>7, <2>8, <2>9 DEF GroupInv
  <1>8. ASSUME NEW r \in Requests, TruncateFile(r) \/ WriteFile(r) \/ RemoveFile(r)
        PROVE  GroupInv'
    <2>1. /\ UNCHANGED <<history, pending, task>>
          /\ \A q \in Requests : InTool(q)' <=> InTool(q)
          /\ \A q \in Requests : (pc[q] \in AgentSteps)' => pc[q] \in AgentSteps
      BY <1>0, <1>8 DEF TruncateFile, WriteFile, RemoveFile, Goto, InTool, AgentSteps, loopVars,
         agentVars
    <2>2. \A s \in Sessions : WellFormed(files'[s].text)
      <3>1. CASE TruncateFile(r)
        <4>1. WellFormed(history)
          <5>1. IsMemory(r) /\ pc[r] \in LockedSteps /\ ~InTool(r)
            BY <3>1 DEF TruncateFile, InTool, TypeInv, RouteSteps, WorkerSteps, LockedSteps,
               AgentSteps
          <5>2. QED
            BY <5>1, WholeForHolder
        <4>2. \A s \in Sessions : files'[s].text = files[s].text \/ files'[s].text = history
          BY <1>0, <3>1 DEF TruncateFile
        <4>3. QED
          BY <4>1, <4>2 DEF GroupInv
      <3>2. CASE WriteFile(r)
        <4>1. \A s \in Sessions : files'[s].text = files[s].text
          BY <1>0, <3>2 DEF WriteFile, Files
        <4>2. QED
          BY <4>1 DEF GroupInv
      <3>3. CASE RemoveFile(r)
        <4>1. \A s \in Sessions : files'[s].text = files[s].text \/ files'[s].text = <<>>
          BY <1>0, <3>3 DEF RemoveFile
        <4>2. QED
          BY <4>1, EmptyIsWhole DEF GroupInv
      <3>4. QED
        BY <1>8, <3>1, <3>2, <3>3
    <2>3. QED
      BY <2>1, <2>2 DEF GroupInv, IsMemory
  <1>9. CASE Crash
    <2>1. \A r \in Requests : pc'[r] \in {"new", "done", "lost"}
      BY <1>9 DEF Crash
    <2>2. history' = <<>> /\ files' = files
      BY <1>9 DEF Crash
    <2>3. QED
      BY <2>1, <2>2, EmptyIsWhole DEF GroupInv, InTool, AgentSteps
  <1>10. CASE UNCHANGED vars
    BY <1>10 DEF vars, GroupInv, InTool, IsMemory
  <1>11. QED
    BY <1>1, <1>2, <1>4, <1>5, <1>6, <1>7, <1>8, <1>9, <1>10 DEF Next, Progress

(* While only /chat/memory works on the agent, trimming, switching and     *)
(* reloading of sessions and crashes leave no half tool-call group in what *)
(* the model is asked, nor in any saved conversation.                      *)
THEOREM ToolGroupsStayWhole ==
    ASSUME MemoryAlone
    PROVE  Spec => []ToolGroupsWhole
  <1> DEFINE Inv == TypeInv /\ OneTaskAtATime /\ GroupInv
  <1>1. Init => Inv
    <2>1. Init => OneTaskAtATime
      BY DEF Init, OneTaskAtATime, LockedSteps, AgentSteps
    <2>2. Init => GroupInv
      BY EmptyIsWhole DEF Init, GroupInv, InTool, AgentSteps
    <2>3. QED
      BY <2>1, <2>2, InitType
  <1>2. Inv /\ [Next]_vars => Inv'
    <2>1. TypeInv /\ [Next]_vars => TypeInv'
      BY WireStep, AgentStep, StoreStep, QueuesStep, ControlStep DEF TypeInv, TypeOK
    <2>2. QED
      BY <2>1, MutexStep, GroupStep
  <1>3. Inv => ToolGroupsWhole
    <2> SUFFICES ASSUME Inv
                 PROVE  ToolGroupsWhole
      OBVIOUS
    <2>1. ASSUME NEW r \in Requests, pc[r] \in {"ask", "llm", "open"}
          PROVE  WellFormed(history)
      <3>1. IsMemory(r) /\ pc[r] \in LockedSteps /\ ~InTool(r)
        BY <2>1 DEF GroupInv, InTool, TypeInv, RouteSteps, WorkerSteps, LockedSteps, AgentSteps
      <3>2. QED
        BY <3>1, WholeForHolder
    <2>2. QED
      BY <2>1 DEF ToolGroupsWhole, GroupInv
  <1>4. QED
    BY <1>1, <1>2, <1>3, PTL DEF Spec

-----------------------------------------------------------------------------
(* A save continues what was saved before                                  *)

(* h is what a trim of old may leave, and a conversation has the message   *)
(* of request r.                                                           *)
Kept(old, h) == \E c \in 0..Excess(old) : h = DropFirst(old, c)
HasUser(h, r) == \E i \in DOMAIN h : h[i] = Message("user", r, 0)

TalkSteps == {"ask", "llm", "tool", "open"}

(* A torn file is one of a session whose conversation was cut, or that is  *)
(* being written, or of the agent's session, and a file that is not there  *)
(* keeps nothing.                                                          *)
FilesSound ==
    \A s \in Sessions :
        /\ files[s].state = "absent" => files[s].text = <<>>
        /\ files[s].state = "torn" =>
              \/ s \in lost
              \/ s = agentSession
              \/ \E r \in Requests : IsMemory(r) /\ pc[r] = "write" /\ SessionOf(r) = s

(* What the agent's history has to do with the conversation last saved for *)
(* its session, from one save to the next, if nothing cut it: between two  *)
(* tasks it is that conversation, or was dropped and is read back, which a *)
(* torn file does not allow.                                               *)
SavedBefore == files[agentSession].text
AtRest ==
    \/ history = SavedBefore
    \/ history = <<>> /\ files[agentSession].state # "torn"

HistoryFollows ==
    agentSession \in Sessions \ lost =>
        /\ \A r \in Requests :
              /\ pc[r] = "trim" => history = SavedBefore
              /\ pc[r] = "push" => Kept(SavedBefore, history)
              /\ pc[r] \in TalkSteps =>
                    Continues(SavedBefore, history) /\ HasUser(history, r)
        /\ (\A r \in Requests : pc[r] \notin TalkSteps \cup {"trim", "push"}) => AtRest

SaveInv == FilesSound /\ HistoryFollows

LEMMA ExcessBound ==
    ASSUME NEW h \in Seq(Messages)
    PROVE  Excess(h) \in 0..Len(h)
  <1>1. Len(h) \in Nat
    OBVIOUS
  <1>2. QED
    BY <1>1, TrimAssumption DEF Excess

(* The first message after a trim makes it a continuation ...              *)
LEMMA KeptThenMore ==
    ASSUME NEW old \in Seq(Messages), NEW h \in Seq(Messages), NEW m \in Messages,
           Kept(old, h)
    PROVE  Continues(old, Append(h, m))
  <1>1. PICK c \in 0..Excess(old) : h = DropFirst(old, c)
    BY DEF Kept
  <1>2. Len(h) < Len(Append(h, m)) /\ SubSeq(Append(h, m), 1, Len(h)) = h
    OBVIOUS
  <1>3. QED
    BY <1>1, <1>2 DEF Continues

(* ... and further messages keep it one.                                   *)
LEMMA ContinuesMore ==
    ASSUME NEW old \in Seq(Messages), NEW h \in Seq(Messages), NEW m \in Messages,
           Continues(old, h)
    PROVE  Continues(old, Append(h, m))
  <1> DEFINE g == Append(h, m)
  <1>1. PICK c \in 0..Excess(old) :
            /\ Len(DropFirst(old, c)) < Len(h)
            /\ SubSeq(h, 1, Len(DropFirst(old, c))) = DropFirst(old, c)
    BY DEF Continues
  <1> DEFINE k == DropFirst(old, c)
  <1>2. k \in Seq(Messages) /\ Len(k) \in Nat
    <2>1. Excess(old) \in 0..Len(old) /\ Len(old) \in Nat
      BY ExcessBound, HistoryFacts
    <2>2. c \in 0..Len(old)
      BY <2>1
    <2>3. QED
      BY <2>2, DropFacts, HistoryFacts
  <1>3. Len(k) < Len(g) /\ SubSeq(g, 1, Len(k)) = SubSeq(h, 1, Len(k))
    <2>1. Len(k) < Len(h)
      BY <1>1
    <2> HIDE DEF k
    <2>2. QED
      BY <1>2, <2>1
  <1>4. QED
    BY <1>1, <1>3 DEF Continues

LEMMA HasUserMore ==
    ASSUME NEW h \in Seq(Messages), NEW m \in Messages, NEW r \in Requests, HasUser(h, r)
    PROVE  HasUser(Append(h, m), r)
  BY HistoryFacts, AppendFacts DEF HasUser

LEMMA HasUserNow ==
    ASSUME NEW h \in Seq(Messages), NEW r \in Requests
    PROVE  HasUser(Append(h, Message("user", r, 0)), r)
  <1>1. Message("user", r, 0) \in Messages
    BY MessageType DEF Roles
  <1>2. QED
    BY <1>1, HistoryFacts, AppendFacts DEF HasUser

LEMMA FilesSoundStep ==
    TypeInv /\ OneTaskAtATime /\ HolderInSession /\ FilesSound /\ [Next]_vars => FilesSound'
  <1> SUFFICES ASSUME TypeInv, OneTaskAtATime, HolderInSession, FilesSound, [Next]_vars
               PROVE  FilesSound'
    OBVIOUS
  <1>0. /\ pc \in [Requests -> Steps] /\ task \in [Requests -> Tasks \cup {NoTask}]
        /\ files \in [Sessions -> Files] /\ RouteSteps
    BY DEF TypeInv, TypeOK, ControlOK, StoreOK
  <1>1. ASSUME UNCHANGED <<files, agentSession>>, lost \subseteq lost',
               \A r \in Requests : pc[r] = "write" =>
                   pc'[r] = "write" /\ task'[r] = task[r]
        PROVE  FilesSound'
    BY <1>1 DEF FilesSound, IsMemory, SessionOf
  <1>2. ASSUME NEW r \in Requests, NEW t \in Tasks,
               \/ PostMemory(r, t) \/ RejectMemory(r, t) \/ ClearMemory(r, t)
               \/ PostChat(r, t) \/ RejectChat(r, t) \/ ResetChat(r, t)
               \/ PostConfig(r, t)
        PROVE  FilesSound'
    <2>1. /\ UNCHANGED <<files, agentSession>> /\ lost \subseteq lost'
          /\ \A q \in Requests : pc[q] = "write" => pc'[q] = "write" /\ task'[q] = task[q]
      BY <1>0, <1>2 DEF PostMemory, RejectMemory, ClearMemory, PostChat, RejectChat, ResetChat,
         PostConfig, Arrive, Goto, agentVars, hostVars
    <2>2. QED
      BY <1>1, <2>1
  <1>3. ASSUME NEW r \in Requests,
               \/ StartTask(r) \/ SetSystemPrompt(r) \/ AcquireWorkerLock(r)
               \/ SetApiKey(r) \/ SetApiBase(r) \/ LoadHistory(r)
               \/ TrimContext(r) \/ PushUser(r) \/ AskModel(r) \/ GiveUp(r)
               \/ ModelFails(r) \/ ModelAnswers(r)
               \/ \E n \in 1..MaxCallsPerReply : ModelCallsTools(r, n)
               \/ RunTool(r) \/ OpenFails(r) \/ PostResponse(r) \/ DeliverResponse(r)
               \/ AnswerChat(r) \/ ConfigBase(r) \/ Disconnect(r)
        PROVE  FilesSound'
    <2>1. /\ UNCHANGED <<files, agentSession>> /\ lost \subseteq lost'
          /\ \A q \in Requests : pc[q] = "write" => pc'[q] = "write" /\ task'[q] = task[q]
      BY <1>0, <1>3 DEF StartTask, SetSystemPrompt, AcquireWorkerLock, SetApiKey, SetApiBase,
         LoadHistory, TrimContext, PushUser, AskModel, GiveUp, ModelFails, ModelAnswers,
         ModelCallsTools, RunTool, OpenFails, PostResponse, DeliverResponse, AnswerChat,
         ConfigBase, Disconnect, Goto, AfterAgent, agentVars, hostVars
    <2>2. QED
      BY <1>1, <2>1
  <1>4. ASSUME NEW r \in Requests, TruncateFile(r) \/ WriteFile(r) \/ RemoveFile(r)
        PROVE  FilesSound'
    <2>1. /\ SessionOf(r) \in Sessions /\ UNCHANGED <<task, agentSession>>
          /\ lost' \in {lost, lost \ {SessionOf(r)}}
          /\ \A q \in Requests \ {r} : pc'[q] = pc[q]
          /\ \A q \in Requests : SessionOf(q)' = SessionOf(q) /\ (IsMemory(q)' <=> IsMemory(q))
      BY <1>0, <1>4, TaskSession DEF TruncateFile, WriteFile, RemoveFile, Goto, agentVars,
         hostVars, RouteSteps, WorkerSteps, LockedSteps, AgentSteps, IsMemory, SessionOf
    <2>2. CASE TruncateFile(r)
      <3>1. IsMemory(r) /\ pc'[r] = "write"
        BY <1>0, <2>2 DEF TruncateFile, Goto, RouteSteps, WorkerSteps, LockedSteps, AgentSteps
      <3>2. files'[SessionOf(r)].state = "torn"
        BY <1>0, <2>1, <2>2 DEF TruncateFile
      <3>3. \A s \in Sessions \ {SessionOf(r)} : files'[s] = files[s]
        BY <1>0, <2>2 DEF TruncateFile
      <3>4. pc[r] # "write"
        BY <2>2 DEF TruncateFile
      <3>5. QED
        BY <2>1, <3>1, <3>2, <3>3, <3>4 DEF FilesSound
    <2>3. CASE WriteFile(r)
      <3>1. \A s \in Sessions \ {SessionOf(r)} : files'[s] = files[s]
        BY <1>0, <2>3 DEF WriteFile
      <3>2. \/ files'[SessionOf(r)].state = "whole"
            \/ files' = files /\ files[SessionOf(r)].state = "absent"
        BY <1>0, <2>1, <2>3 DEF WriteFile, Files
      <3>3. QED
        BY <2>1, <3>1, <3>2 DEF FilesSound
    <2>4. CASE RemoveFile(r)
      <3>1. \A s \in Sessions \ {SessionOf(r)} : files'[s] = files[s]
        BY <1>0, <2>4 DEF RemoveFile
      <3>2. files'[SessionOf(r)] = [text |-> <<>>, state |-> "absent"]
        BY <1>0, <2>1, <2>4 DEF RemoveFile
      <3>3. pc[r] # "write"
        BY <2>4 DEF RemoveFile
      <3>4. QED
        BY <2>1, <3>1, <3>2, <3>3 DEF FilesSound
    <2>5. QED
      BY <1>4, <2>2, <2>3, <2>4
  <1>5. CASE Crash
    <2>1. files' = files /\ lost' = lost \cup {s \in Sessions : files[s].state = "torn"}
      BY <1>5 DEF Crash, TornSessions
    <2>2. QED
      BY <2>1 DEF FilesSound
  <1>6. CASE UNCHANGED vars
    BY <1>1, <1>6 DEF vars
  <1>7. ASSUME NEW r \in Requests, EnterSession(r)
        PROVE  FilesSound'
    <2>1. CASE agentSession = SessionOf(r)
      <3>1. /\ UNCHANGED <<files, agentSession, lost>>
            /\ \A q \in Requests : pc[q] = "write" => pc'[q] = "write" /\ task'[q] = task[q]
        BY <1>0, <1>7, <2>1 DEF EnterSession, Goto
      <3>2. QED
        BY <1>1, <3>1
    <2>2. CASE agentSession # SessionOf(r)
      <3>1. files' = files /\ lost' = lost \cup {s \in Sessions : files[s].state = "torn"}
        BY <1>7, <2>2 DEF EnterSession, TornSessions
      <3>2. QED
        BY <3>1 DEF FilesSound
    <2>3. QED
      BY <2>1, <2>2
  <1>8. ASSUME NEW r \in Requests, WriteFails(r)
        PROVE  FilesSound'
    <2>1. /\ pc[r] = "write" /\ IsMemory(r) /\ agentSession = SessionOf(r)
          /\ UNCHANGED <<files, lost, agentSession, task>>
          /\ \A q \in Requests \ {r} : pc'[q] = pc[q]
      BY <1>0, <1>8 DEF WriteFails, Goto, agentVars, hostVars, RouteSteps, WorkerSteps,
         LockedSteps, AgentSteps, HolderInSession, InSession
    <2>2. QED
      BY <2>1 DEF FilesSound, IsMemory, SessionOf
  <1>9. QED
    BY <1>2, <1>3, <1>4, <1>5, <1>6, <1>7, <1>8 DEF Next, Progress

WorkSteps == TalkSteps \cup {"trim", "push"}

(* Steps that change neither the history nor a file, and move no request   *)
(* into or out of a conversation, keep HistoryFollows.                     *)
LEMMA FollowFrame ==
    ASSUME HistoryFollows, UNCHANGED <<history, agentSession, files, lost>>,
           \A q \in Requests : \/ pc'[q] = pc[q]
                               \/ pc[q] \in TalkSteps /\ pc'[q] \in TalkSteps
                               \/ pc[q] \notin WorkSteps /\ pc'[q] \notin WorkSteps
    PROVE  HistoryFollows'
  <1> SUFFICES ASSUME agentSession \in Sessions \ lost
               PROVE  HistoryFollows'
    BY DEF HistoryFollows
  <1>1. ASSUME NEW r \in Requests
        PROVE  /\ pc'[r] = "trim" => pc[r] = "trim"
               /\ pc'[r] = "push" => pc[r] = "push"
               /\ pc'[r] \in TalkSteps => pc[r] \in TalkSteps
               /\ pc[r] \in WorkSteps => pc'[r] \in WorkSteps
    BY DEF WorkSteps, TalkSteps
  <1>2. QED
    BY <1>1 DEF HistoryFollows, WorkSteps, SavedBefore, AtRest

(* No other request is in a conversation with the agent while r holds the  *)
(* lock.                                                                   *)
LEMMA AloneInWork ==
    ASSUME TypeInv, OneTaskAtATime, GroupInv, NEW r \in Requests,
           IsMemory(r), pc[r] \in LockedSteps
    PROVE  \A q \in Requests \ {r} : pc[q] \notin WorkSteps
  <1>1. ASSUME NEW q \in Requests, pc[q] \in WorkSteps
        PROVE  IsMemory(q) /\ pc[q] \in LockedSteps
    BY <1>1 DEF WorkSteps, TalkSteps, LockedSteps, WorkerSteps, AgentSteps, GroupInv, TypeInv,
       RouteSteps
  <1>2. QED
    BY <1>1 DEF OneTaskAtATime

(* What a step of the holder of the lock has to establish. *)
LEMMA FollowHolder ==
    ASSUME NEW r \in Requests,
           \A q \in Requests \ {r} : pc[q] \notin WorkSteps /\ pc'[q] = pc[q],
           (agentSession \in Sessions \ lost)' =>
               /\ pc'[r] = "trim" => history' = SavedBefore'
               /\ pc'[r] = "push" => Kept(SavedBefore', history')
               /\ pc'[r] \in TalkSteps =>
                     Continues(SavedBefore', history') /\ HasUser(history', r)
               /\ pc'[r] \notin WorkSteps => AtRest'
    PROVE  HistoryFollows'
  BY DEF HistoryFollows, WorkSteps, TalkSteps

LEMMA HistoryFollowsStep ==
    ASSUME MemoryAlone
    PROVE  TypeInv /\ OneTaskAtATime /\ HolderInSession /\ GroupInv /\ SaveInv /\ [Next]_vars
               => HistoryFollows'
  <1> SUFFICES ASSUME TypeInv, OneTaskAtATime, HolderInSession, GroupInv, FilesSound,
                      HistoryFollows, [Next]_vars
               PROVE  HistoryFollows'
    BY DEF SaveInv
  <1>0. /\ pc \in [Requests -> Steps] /\ task \in [Requests -> Tasks \cup {NoTask}]
        /\ files \in [Sessions -> Files] /\ history \in Seq(Messages)
        /\ RouteSteps
    BY DEF TypeInv, TypeOK, ControlOK, StoreOK, AgentOK
  <1>1. ASSUME NEW r \in Requests, NEW t \in Tasks,
               \/ PostMemory(r, t) \/ RejectMemory(r, t) \/ ClearMemory(r, t)
               \/ PostChat(r, t) \/ RejectChat(r, t) \/ ResetChat(r, t)
               \/ PostConfig(r, t)
        PROVE  HistoryFollows'
    <2>1. t.route \notin {"clear", "chat", "reset"}
      BY DEF Tasks, MemoryAlone
    <2>2. pc[r] = "new" /\ UNCHANGED <<history, agentSession, files, lost>>
      BY <1>1, <2>1 DEF PostMemory, RejectMemory, ClearMemory, PostChat, RejectChat, ResetChat,
         PostConfig, Arrive, agentVars, hostVars
    <2>3. pc' \in {[pc EXCEPT ![r] = "queued"], [pc EXCEPT ![r] = "done"],
                   [pc EXCEPT ![r] = "rebase"]}
      BY <1>1, <2>1 DEF PostMemory, RejectMemory, ClearMemory, PostChat, RejectChat, ResetChat,
         PostConfig, Goto
    <2>4. \A q \in Requests : \/ pc'[q] = pc[q]
                              \/ pc[q] \notin WorkSteps /\ pc'[q] \notin WorkSteps
      BY <1>0, <2>2, <2>3 DEF WorkSteps, TalkSteps
    <2>5. QED
      BY <2>2, <2>4, FollowFrame
  <1>2. ASSUME NEW r \in Requests,
               \/ StartTask(r) \/ SetSystemPrompt(r) \/ AcquireWorkerLock(r)
               \/ SetApiKey(r) \/ SetApiBase(r) \/ AskModel(r) \/ ModelFails(r)
               \/ WriteFails(r) \/ PostResponse(r) \/ DeliverResponse(r)
               \/ AnswerChat(r) \/ ConfigBase(r) \/ Disconnect(r)
        PROVE  HistoryFollows'
    <2>1. UNCHANGED <<history, agentSession, files, lost>>
      BY <1>2 DEF StartTask, SetSystemPrompt, AcquireWorkerLock, SetApiKey, SetApiBase,
         AskModel,
         ModelFails, WriteFails, PostResponse, DeliverResponse, AnswerChat, ConfigBase,
         Disconnect, agentVars, hostVars
    <2>2. pc[r] = "llm" => IsMemory(r)
      BY DEF GroupInv, AgentSteps
    <2>3. \A q \in Requests : \/ pc'[q] = pc[q]
                              \/ pc[q] \in TalkSteps /\ pc'[q] \in TalkSteps
                              \/ pc[q] \notin WorkSteps /\ pc'[q] \notin WorkSteps
      BY <1>0, <1>2, <2>2 DEF StartTask, SetSystemPrompt, AcquireWorkerLock, SetApiKey,
         SetApiBase, AskModel, ModelFails, WriteFails, PostResponse, DeliverResponse,
         AnswerChat, ConfigBase, Disconnect, Goto, AfterAgent, WorkSteps, TalkSteps
    <2>4. QED
      BY <2>1, <2>3, FollowFrame
  <1>3. ASSUME NEW r \in Requests, EnterSession(r)
        PROVE  HistoryFollows'
    <2>1. IsMemory(r) /\ pc[r] \in LockedSteps /\ pc[r] \notin WorkSteps
      BY <1>0, <1>3 DEF EnterSession, RouteSteps, WorkerSteps, LockedSteps, AgentSteps,
         WorkSteps, TalkSteps
    <2>2. \A q \in Requests \ {r} : pc[q] \notin WorkSteps /\ pc'[q] = pc[q]
      BY <1>0, <1>3, <2>1, AloneInWork DEF EnterSession, Goto
    <2>3. /\ pc'[r] = "load" /\ pc'[r] \notin WorkSteps /\ files' = files
          /\ \/ UNCHANGED <<history, agentSession, lost>>
             \/ history' = <<>> /\ lost' = lost \cup TornSessions
      BY <1>0, <1>3 DEF EnterSession, Goto, WorkSteps, TalkSteps
    <2>4. (agentSession \in Sessions \ lost)' => AtRest'
      <3>1. CASE UNCHANGED <<history, agentSession, lost>>
        BY <2>1, <2>2, <2>3, <3>1 DEF HistoryFollows, WorkSteps, SavedBefore, AtRest
      <3>2. CASE history' = <<>> /\ lost' = lost \cup TornSessions
        BY <2>3, <3>2 DEF TornSessions, AtRest
      <3>3. QED
        BY <2>3, <3>1, <3>2
    <2>5. QED
      BY <2>2, <2>3, <2>4, FollowHolder DEF TalkSteps
  <1>4. ASSUME NEW r \in Requests, LoadHistory(r)
        PROVE  HistoryFollows'
    <2>1. /\ IsMemory(r) /\ pc[r] \in LockedSteps /\ pc[r] \notin WorkSteps
          /\ pc[r] \in InSession /\ pc[r] = "load"
      BY <1>0, <1>4 DEF LoadHistory, RouteSteps, WorkerSteps, LockedSteps, AgentSteps,
         WorkSteps, TalkSteps, InSession
    <2>2. \A q \in Requests \ {r} : pc[q] \notin WorkSteps /\ pc'[q] = pc[q]
      BY <1>0, <1>4, <2>1, AloneInWork DEF LoadHistory, Goto
    <2>3. /\ pc'[r] = "trim" /\ agentSession' = agentSession
          /\ files' = files /\ lost' = lost /\ agentSession = SessionOf(r)
      BY <1>0, <1>4, <2>1 DEF LoadHistory, Goto, hostVars, HolderInSession
    <2>4. ASSUME agentSession \in Sessions \ lost
          PROVE  history' = SavedBefore
      <3>1. AtRest
        BY <2>1, <2>2, <2>4 DEF HistoryFollows, WorkSteps
      <3>2. files[agentSession].state = "absent" => SavedBefore = <<>>
        BY <2>4 DEF FilesSound, SavedBefore
      <3>3. files[agentSession].state \in {"absent", "torn", "whole"}
        BY <1>0, <2>4 DEF Files
      <3>4. QED
        BY <1>4, <2>3, <3>1, <3>2, <3>3 DEF LoadHistory, SavedBefore, AtRest
    <2>5. QED
      BY <2>2, <2>3, <2>4, FollowHolder DEF TalkSteps, WorkSteps, SavedBefore
  <1>5. ASSUME NEW r \in Requests, TrimContext(r)
        PROVE  HistoryFollows'
    <2>1. IsMemory(r) /\ pc[r] \in LockedSteps /\ pc[r] = "trim"
      BY <1>0, <1>5 DEF TrimContext, RouteSteps, WorkerSteps, LockedSteps, AgentSteps
    <2>2. \A q \in Requests \ {r} : pc[q] \notin WorkSteps /\ pc'[q] = pc[q]
      BY <1>0, <1>5, <2>1, AloneInWork DEF TrimContext, Goto
    <2>3. pc'[r] = "push" /\ UNCHANGED <<agentSession, files, lost>>
      BY <1>0, <1>5 DEF TrimContext, Goto, hostVars
    <2>4. ASSUME agentSession \in Sessions \ lost
          PROVE  Kept(SavedBefore, history')
      <3>1. history = SavedBefore
        BY <2>1, <2>4 DEF HistoryFollows
      <3>2. PICK c \in 0..Len(history) : IsTrimPoint(history,
      c) /\ history' = DropFirst(history, c)
        BY <1>5 DEF TrimContext
      <3>3. Excess(history) \in 0..Len(history) /\ Len(history) \in Nat
        BY <1>0, ExcessBound, HistoryFacts
      <3>4. c \in 0..Excess(history)
        BY <3>2, <3>3 DEF IsTrimPoint
      <3>5. QED
        BY <3>1, <3>2, <3>4 DEF Kept
    <2>5. QED
      BY <2>2, <2>3, <2>4, FollowHolder DEF TalkSteps, WorkSteps, SavedBefore
  <1>6. ASSUME NEW r \in Requests, NEW m \in Messages, pc[r] \in AgentSteps, Push(m),
               UNCHANGED <<agentSession, files, lost>>, pc'[r] \in TalkSteps,
               \A q \in Requests \ {r} : pc'[q] = pc[q],
               \/ pc[r] = "push" /\ m = Message("user", r, 0)
               \/ pc[r] \in TalkSteps
        PROVE  HistoryFollows'
    <2>1. IsMemory(r) /\ pc[r] \in LockedSteps
      BY <1>6 DEF GroupInv, LockedSteps
    <2>2. \A q \in Requests \ {r} : pc[q] \notin WorkSteps /\ pc'[q] = pc[q]
      BY <1>6, <2>1, AloneInWork
    <2>3. ASSUME agentSession \in Sessions \ lost
          PROVE  Continues(SavedBefore, history') /\ HasUser(history', r)
      <3>1. SavedBefore \in Seq(Messages) /\ history' = Append(history, m)
        BY <1>0, <1>6, <2>3 DEF Files, SavedBefore, Push
      <3>2. CASE pc[r] = "push" /\ m = Message("user", r, 0)
        BY <1>0, <2>3, <3>1, <3>2, KeptThenMore, HasUserNow DEF HistoryFollows
      <3>3. CASE pc[r] \in TalkSteps
        BY <1>0, <2>3, <3>1, <3>3, ContinuesMore, HasUserMore DEF HistoryFollows
      <3>4. QED
        BY <1>6, <3>2, <3>3
    <2>4. QED
      BY <1>6, <2>2, <2>3, FollowHolder DEF TalkSteps, WorkSteps, SavedBefore
  <1>7. ASSUME NEW r \in Requests, PushUser(r) \/ GiveUp(r) \/ ModelAnswers(r)
        PROVE  HistoryFollows'
    <2>1. IsMemory(r)
      BY <1>7 DEF PushUser, GiveUp, ModelAnswers, GroupInv, AgentSteps
    <2>2. Message("user", r, 0) \in Messages /\ Message("assistant", r, 0) \in Messages
      BY MessageType DEF Roles
    <2>3. /\ pc[r] \in AgentSteps /\ UNCHANGED <<agentSession, files, lost>>
          /\ pc'[r] \in TalkSteps /\ \A q \in Requests \ {r} : pc'[q] = pc[q]
          /\ \/ pc[r] = "push" /\ Push(Message("user", r, 0))
             \/ pc[r] \in TalkSteps /\ Push(Message("assistant", r, 0))
      BY <1>0, <1>7, <2>1 DEF PushUser, GiveUp, ModelAnswers, Goto, AfterAgent, AgentSteps,
         TalkSteps, hostVars
    <2>4. QED
      BY <1>6, <2>2, <2>3
  <1>8. ASSUME NEW r \in Requests, NEW n \in 1..MaxCallsPerReply, ModelCallsTools(r, n)
        PROVE  HistoryFollows'
    <2>1. Message("calls", r, n) \in Messages
      BY MessageType, PipelineAssumption DEF Roles
    <2>2. /\ pc[r] \in AgentSteps /\ UNCHANGED <<agentSession, files, lost>>
          /\ pc'[r] \in TalkSteps /\ \A q \in Requests \ {r} : pc'[q] = pc[q]
          /\ pc[r] \in TalkSteps /\ Push(Message("calls", r, n))
      BY <1>0, <1>8 DEF ModelCallsTools, Goto, AgentSteps, TalkSteps, hostVars
    <2>3. QED
      BY <1>6, <2>1, <2>2
  <1>9. ASSUME NEW r \in Requests, RunTool(r)
        PROVE  HistoryFollows'
    <2>1. Message("tool", r, 0) \in Messages
      BY MessageType DEF Roles
    <2>2. /\ pc[r] \in AgentSteps /\ UNCHANGED <<agentSession, files, lost>>
          /\ pc'[r] \in TalkSteps /\ \A q \in Requests \ {r} : pc'[q] = pc[q]
          /\ pc[r] \in TalkSteps /\ Push(Message("tool", r, 0))
      BY <1>0, <1>9 DEF RunTool, Goto, AgentSteps, TalkSteps, hostVars
    <2>3. QED
      BY <1>6, <2>1, <2>2
  <1>10. ASSUME NEW r \in Requests, TruncateFile(r) \/ WriteFile(r)
         PROVE  HistoryFollows'
    <2>1. /\ IsMemory(r) /\ pc[r] \in LockedSteps /\ pc[r] \in InSession
          /\ pc[r] \in {"open", "write"}
      BY <1>0, <1>10 DEF TruncateFile, WriteFile, RouteSteps, WorkerSteps, LockedSteps,
         AgentSteps, InSession
    <2>2. \A q \in Requests \ {r} : pc[q] \notin WorkSteps /\ pc'[q] = pc[q]
      BY <1>0, <1>10, <2>1, AloneInWork DEF TruncateFile, WriteFile, Goto
    <2>3. /\ pc'[r] \notin WorkSteps /\ UNCHANGED <<history, agentSession>>
          /\ agentSession = SessionOf(r)
      BY <1>0, <1>10, <2>1 DEF TruncateFile, WriteFile, Goto, agentVars, WorkSteps,
         TalkSteps, HolderInSession
    <2>4. ASSUME agentSession \in Sessions \ lost'
          PROVE  AtRest'
      <3>1. CASE TruncateFile(r)
        BY <1>0, <2>3, <2>4, <3>1 DEF TruncateFile, SavedBefore, AtRest
      <3>2. CASE WriteFile(r)
        <4>1. /\ SavedBefore' = SavedBefore /\ lost' = lost
              /\ \/ files'[agentSession].state # "torn"
                 \/ files' = files
          BY <1>0, <2>3, <2>4, <3>2 DEF WriteFile, SavedBefore, Files, hostVars
        <4>2. pc[r] \notin WorkSteps
          BY <3>2 DEF WriteFile, WorkSteps, TalkSteps
        <4>3. AtRest
          BY <2>2, <2>4, <4>1, <4>2 DEF HistoryFollows, WorkSteps
        <4>4. QED
          BY <2>3, <4>1, <4>3 DEF AtRest
      <3>3. QED
        BY <1>10, <3>1, <3>2
    <2>5. QED
      BY <2>2, <2>3, <2>4, FollowHolder DEF TalkSteps, WorkSteps
  <1>11. ASSUME NEW r \in Requests, RemoveFile(r)
         PROVE  FALSE
    BY <1>0, <1>11 DEF RemoveFile, RouteSteps, Tasks, MemoryAlone
  <1>12. CASE Crash
    BY <1>12, PipelineAssumption DEF Crash, HistoryFollows
  <1>13. CASE UNCHANGED vars
    BY <1>13, FollowFrame DEF vars
  <1>14. ASSUME NEW r \in Requests, OpenFails(r)
         PROVE  HistoryFollows'
    <2>1. agentSession' = SessionOf(r) /\ SessionOf(r) \in lost'
      BY <1>0, <1>14 DEF OpenFails, agentVars, RouteSteps, WorkerSteps, LockedSteps, AgentSteps,
         HolderInSession, InSession
    <2>2. QED
      BY <2>1 DEF HistoryFollows
  <1>15. QED
    BY <1>1, <1>2, <1>3, <1>4, <1>5, <1>7, <1>8, <1>9, <1>10, <1>11, <1>12, <1>13, <1>14
       DEF Next, Progress

(* Only TruncateFile takes a task from "open" to "write". *)
LEMMA OpenedBySave ==
    ASSUME TypeInv, [Next]_vars, NEW r \in Requests, pc[r] = "open", pc'[r] = "write"
    PROVE  TruncateFile(r)
  <1>0. pc \in [Requests -> Steps]
    BY DEF TypeInv, TypeOK, ControlOK
  <1>1. ASSUME NEW q \in Requests, NEW t \in Tasks,
               \/ PostMemory(q, t) \/ RejectMemory(q, t) \/ ClearMemory(q, t)
               \/ PostChat(q, t) \/ RejectChat(q, t) \/ ResetChat(q, t)
               \/ PostConfig(q, t)
        PROVE  FALSE
    BY <1>0, <1>1 DEF PostMemory, RejectMemory, ClearMemory, PostChat, RejectChat, ResetChat,
       PostConfig, Arrive, Goto
  <1>2. ASSUME NEW q \in Requests,
               \/ StartTask(q) \/ SetSystemPrompt(q) \/ AcquireWorkerLock(q)
               \/ SetApiKey(q) \/ SetApiBase(q) \/ EnterSession(q) \/ LoadHistory(q)
               \/ TrimContext(q) \/ PushUser(q) \/ AskModel(q) \/ GiveUp(q)
               \/ ModelFails(q) \/ ModelAnswers(q)
               \/ \E n \in 1..MaxCallsPerReply : ModelCallsTools(q, n)
               \/ RunTool(q) \/ WriteFile(q) \/ OpenFails(q) \/ WriteFails(q)
               \/ PostResponse(q) \/ DeliverResponse(q)
               \/ RemoveFile(q) \/ AnswerChat(q) \/ ConfigBase(q) \/ Disconnect(q)
        PROVE  FALSE
    BY <1>0, <1>2 DEF StartTask, SetSystemPrompt, AcquireWorkerLock, SetApiKey, SetApiBase,
       EnterSession, LoadHistory, TrimContext, PushUser, AskModel, GiveUp, ModelFails,
       ModelAnswers, ModelCallsTools, RunTool, WriteFile, OpenFails, WriteFails,
       PostResponse, DeliverResponse, RemoveFile, AnswerChat, ConfigBase, Disconnect, Goto,
       AfterAgent
  <1>3. ASSUME NEW q \in Requests, TruncateFile(q)
        PROVE  q = r
    BY <1>0, <1>3 DEF TruncateFile, Goto
  <1>4. ~Crash
    BY DEF Crash
  <1>5. ~UNCHANGED vars
    BY DEF vars
  <1>6. QED
    BY <1>1, <1>2, <1>3, <1>4, <1>5 DEF Next, Progress

SaveStep ==
    \A r \in Requests :
        pc[r] = "open" /\ pc'[r] = "write" /\ SessionOf(r) \notin lost =>
           LET s == SessionOf(r) IN
           /\ Continues(files[s].text, files'[s].text)
           /\ \E i \in DOMAIN files'[s].text : files'[s].text[i] = Message("user", r, 0)

LEMMA SaveContinuesStep ==
    TypeInv /\ HolderInSession /\ SaveInv /\ [Next]_vars => SaveStep
  <1> SUFFICES ASSUME TypeInv, HolderInSession, SaveInv, [Next]_vars, NEW r \in Requests,
                      pc[r] = "open", pc'[r] = "write", SessionOf(r) \notin lost
               PROVE  LET s == SessionOf(r) IN
                      /\ Continues(files[s].text, files'[s].text)
                      /\ HasUser(files'[s].text, r)
    BY DEF SaveStep, HasUser
  <1>1. TruncateFile(r)
    BY OpenedBySave
  <1>2. IsMemory(r) /\ SessionOf(r) \in Sessions /\ agentSession = SessionOf(r)
    BY TaskSession DEF TypeInv, RouteSteps, IsMemory, SessionOf, WorkerSteps, LockedSteps,
       AgentSteps, InSession, HolderInSession
  <1>3. files'[SessionOf(r)].text = history
    BY <1>1, <1>2 DEF TruncateFile, TypeInv, TypeOK, StoreOK
  <1>4. Continues(SavedBefore, history) /\ HasUser(history, r)
    BY <1>2 DEF SaveInv, HistoryFollows, TalkSteps
  <1>5. QED
    BY <1>2, <1>3, <1>4 DEF SavedBefore

(* While only /chat/memory works on the agent, no save drops anything but  *)
(* what TrimContext may, and none drops the message it answers, however    *)
(* the tasks of several sessions take turns, whichever writes fail and     *)
(* whenever the process dies.  Exempt is the first save after the agent's  *)
(* session changed, or the process died, with a torn file, and after a     *)
(* file that did not open.                                                 *)
THEOREM SavesAreContinued ==
    ASSUME MemoryAlone
    PROVE  Spec => SavesContinue
  <1> DEFINE Inv == /\ TypeInv /\ OneTaskAtATime /\ HolderInSession /\ GroupInv /\ SaveInv
  <1>1. Init => Inv
    <2>1. Init => OneTaskAtATime /\ HolderInSession
      BY DEF Init, OneTaskAtATime, LockedSteps, AgentSteps, HolderInSession, InSession
    <2>2. Init => GroupInv
      BY EmptyIsWhole DEF Init, GroupInv, InTool, AgentSteps
    <2>3. Init => SaveInv
      BY PipelineAssumption DEF Init, SaveInv, FilesSound, HistoryFollows
    <2>4. QED
      BY <2>1, <2>2, <2>3, InitType
  <1>2. Inv /\ [Next]_vars => Inv'
    <2>1. TypeInv /\ [Next]_vars => TypeInv'
      BY WireStep, AgentStep, StoreStep, QueuesStep, ControlStep DEF TypeInv, TypeOK
    <2>2. QED
      BY <2>1, MutexStep, HolderStep, GroupStep, FilesSoundStep, HistoryFollowsStep DEF SaveInv
  <1>3. Inv /\ [Next]_vars => [SaveStep]_vars
    BY SaveContinuesStep
  <1>4. Spec => [][SaveStep]_vars
    BY <1>1, <1>2, <1>3, PTL DEF Spec
  <1>5. QED
    BY <1>4 DEF SavesContinue, SaveStep
=============================================================================
