# Verification of the muduo HTTP AI server

TLA+ models of the server in `src/`, their TLC runs, and theorems about them
checked by TLAPS. `PROJECT.json` is the machine-readable index: components, runs,
mutants, the source lines behind every definition, findings, hazards and theorems.

## 1. The system

The program is one process. `main.cpp` builds every component as a shared object,
registers the HTTP routes as lambdas that capture them, and runs a muduo event loop.

| Thread | Runs |
|---|---|
| main loop | accepts connections, runs functors that workers queue with `runInLoop`, the shutdown timer |
| IO threads (`thread_num`, 4) | `HttpServer::onMessage`, middlewares, router and the handlers themselves |
| `ai-workers` (8) | the tasks of `POST /chat/memory` |
| HTTPS thread | accepts and serves one TLS connection at a time |

| Component | State | Operations | What makes it correct |
|---|---|---|---|
| HTTP connections (`http_server`, `http_context`, `stream_writer`) | `partial_requests_` per connection, streams held by workers | onMessage, ParseRequest, handleRequest, WriteChunk/End, onConnection | one answer per request, in order; a handler sees a whole request of its own connection |
| Chat (`main.cpp` chat routes, `chat_agent`, `memory_manager`) | the one agent's `history_`, `session_id_`, `system_prompt_`; the running `AiConfig`; conversation files; `worker_lock`; the pool's queue | the chat routes, Process, tools, TrimContext, Save/LoadHistory, ClearSession, `/api/config` | tasks do not mix; sessions do not mix; conversations stay acceptable to the endpoint and are not lost; every task is answered |
| AI gateway (`ai_gateway`, `rate_limiter`) | token bucket, response cache | Chat, ChatStream, Allow, Get, Set | rate and cache limits hold; an answer belongs to its question |
| Model router (`model_router`) | a circuit breaker per provider | Chat, AllowRequest, OnSuccess, OnFailure | requests end; no breaker is stuck; recovery |
| Accounts (`user_manager`) | codes, tokens, user files | SendSmsCode, Register, Login, UpdateUser | a code is used once; passwords and tokens are earned; a user's file is not destroyed |
| Lifecycle (`main.cpp`, `graceful_shutdown`, `https_server`) | the signal flag, the timer, registered callbacks, the pool's queue at the end, the HTTPS thread | Install, Shutdown, Start and Stop, the destruction of main's locals | nothing is lost before the loop ends; locals outlive their users; the callbacks run; the process ends |
| Configuration (`config_manager`, `/api/config`) | `server.conf`, the running gateway's settings | Load, GET and POST `/api/config` | the file holds what was saved and the gateway runs with it; no key vanishes |
| Sessions, middleware and router (`session`, `middleware`, `router`) | the session map, the routes | Get, Create, the chain of middlewares, Route | who has logged in stays known, for the configured time; a request reaches the handler that fits, or none |
| DbConnectionPool | idle queue, active count | Get, Return, Drain | never more than `max_connections` |
| Uploads (`multipart_parser`, `/api/upload`) | files of each user | Parse, the route | what is reported as stored is stored; the parser ends |
| Knowledge base (`rag_pipeline`, `/rag/*`) | chunks in memory, `vectors.json` | AddDocumentChunked, Search, Save, Load | an uploaded document is split and stored |
| Tools (`main.cpp`, `mcp_tool`, `/mcp/message`) | files of the workspace, child processes | the tools that change something | successful edits take effect, on the match that was meant; a command ends within its timeout |
| MCP server class, static files, logging, `UserAuth` | little or none, or unused | | see section 8 |

How they interact. IO threads call handlers, and handlers call the shared objects
directly; the only hand-over is `POST /chat/memory`, which queues a task on the pool
and gets its answer back onto the connection through the main loop. The agent calls
the gateway, and tools; the router calls gateways of its own. Locks exist inside the
limiter, the cache, each breaker and the user manager, plus `worker_lock` around the
body of a worker's task; the vector store and the pool of connections have one each.
`history_`, `system_prompt_`, the gateway's `config_`, `partial_requests_` and the
session map have none.

What is hard here: worker tasks, `/chat`, clears and configuration changes on one
agent; requests cut by TCP; streams that outlive connections; addresses reused as
keys; a crash between truncating and writing a file; callers that race through
limiter and cache; breaker outcomes that arrive after the breaker changed its mind;
handlers that read and rewrite one file (a user's, `server.conf`, an upload, a file of
the workspace) at the same time; a process that is asked to stop while all of this runs.
`PROJECT.json` lists each as a hazard at its line, with the property that covers it.

## 2. Modules

| Module | Models | Composes |
|---|---|---|
| `ChatHistory` | messages, tool-call groups, what TrimContext may cut | |
| `ChatPipeline` | chat routes, worker tasks, agent, memory manager, files, delivery | extends `ChatHistory` |
| `ChatPipelineProofs` | theorems about it | |
| `HttpConnection`, `HttpConnectionProofs` | accumulation, parsing, dispatch and answering per connection; theorems | |
| `TokenBucket` | abstract specification of a rate limiter | |
| `RateLimiter` | `RateLimiter::Allow` with lazy refill | instantiates `TokenBucket` with `level <- Refilled` |
| `AiGateway` | Chat and ChatStream over limiter and cache | extends `RateLimiter` |
| `RateLimiterProofs`, `AiGatewayProofs` | theorems about them | |
| `ModelRouter`, `ModelRouterProofs` | provider choice and circuit breakers, theorems | |
| `Edges` | connections, gateway and router side by side, one behaviour exercising one of them | extends `HttpConnection`, `AiGateway`, `ModelRouter` |
| `Accounts`, `AccountsProofs` | codes, registration, login, tokens, updates of user files; theorems | |
| `DbPool` | the pool of MySQL connections | |
| `Lifecycle` | start, signal, timer, the end of main, the HTTPS thread, IO threads that are stuck | |
| `TextFile` | what an `ofstream` does to a file that others write too | |
| `ServerConfig` | reading and rewriting `server.conf`, the gateway's settings, the tasks that read and set them | extends `TextFile` |
| `Routing` | matching of paths (functions) | |
| `Dispatch` | a request through session, CORS, token, router and session routes | extends `Routing` |
| `Rag` | the splitting of an uploaded document | |
| `Uploads` | `MultipartParser` and the writing of uploads | extends `TextFile` |
| `Tools` | `write_file`, `edit_file`, `execute_command` | extends `TextFile` |
| `MCChat`, `MCHttp`, `MCGateway`, `MCRouter`, `MCAccounts`, `MCConfig`, `MCDispatch`, `MCRag`, `MCUploads`, `MCTools` | values of the constants for TLC | extend the module each is named for |
| `MCEdges` | the same for `Edges` | extends `Edges`, `MCHttp`, `MCGateway`, `MCRouter` |
| `MCServices` | the same for `Services` | extends `Services` and the last five of these |
| `Services` | the seven components from `DbPool` to `Tools` side by side, one behaviour exercising one of them | extends them |
| `ServicesProofs` | theorems about `DbPool`, `Lifecycle`, `Dispatch` with `Routing`, and `Rag` | extends them |
| `FilesProofs` | theorems about `Uploads`, `Tools` and `ServerConfig`, and the composition | extends `Services` and `ServicesProofs` |

### Chat

`pc[r]` is the next call that the thread serving request `r` makes on a shared
object, so the interleaving of actions is the interleaving of threads. One action is
one call: `SetSystemPrompt`, `AcquireWorkerLock` (the constructor of the lock guard),
`SetApiKey`, `SetApiBase`, `EnterSession` to `TrimContext` (the parts of
`MemoryManager::Process`), `PushUser` to `RunTool` (`ChatAgent::Process`),
`TruncateFile` and `WriteFile` (`SaveHistory`, split where a crash matters),
`PostResponse` (the queued functor and the release of the lock) and
`DeliverResponse` (the functor itself). The clear form, `/chat` and `/api/config`
run on IO threads with the same agent and gateway and without the lock, as in the
code. Texts are abstracted to the request they come from; a message is
`[role, of, n]`, with `n` the number of tool calls it announces.

`TrimContext` is a loop in the code and a condition on the cut in the model
(`IsTrimPoint`): the cut is the last place, not past the excess, at which no
tool-call group is split.

A save may fail and nobody is told (`memory_manager.cpp:43` ignores the result):
`OpenFails` leaves the file as it was, `WriteFails` leaves it truncated, also when
`dump(2)` throws on a text that is not UTF-8. `Failing` is the set of requests whose
saves may fail. `Crash` loses everything but the files. A torn file reads as no
conversation, as `LoadHistory` has it. The history variable `lost` has the sessions
whose file did not open at the last save, or which the agent left, or lost by a crash,
with their file torn: only for these `SavesContinue` exempts the next save. As long as
the agent stays in the session the next save makes a failed write good.

### HTTP connections

Bytes are pieces: the request line and the length header in two pieces each, the
empty line, and the body. TCP delivers any prefix. `IsBad`, `IsIncomplete` and
`Parsed` are the verdict of `ParseRequest` on what has been collected. What the
handler does is a choice: an ordinary answer, an answer it sends itself without
saying so, a stream, or an exception after it asked for a stream. An address is the
key of `partial_requests_`; it is free again when the connection is down and no
stream holds it, which is what the `shared_ptr` in `StreamWriter` gives. `odd`
records what was unusual on a connection (its head was cut, requests were pipelined,
its address came with old bytes, it was refused with
body still to come), so that properties can say what holds without it.

### Gateway

`tokens` counts in units of 1/Cost of a call and time in ticks, which makes the
code's double an integer. `Refilled` is what each `Allow` first computes. A caller's
call is a short sequence of steps (limiter, cache look-up, endpoint, store), each
atomic because each holds its component's mutex, with anything in between.
`CacheKey` is a constant function from conversations to keys: what the key leaves
out is two conversations with one key.

### Model router

A breaker is a record, its three methods are operators on it, and each call of one
is one step. Failures count up to the threshold and ages up to the timeout, because
the code asks no more of them; this keeps the model finite without a bound.

### Accounts

`call[t]` is what the handler on thread `t` is doing. The sections under `mutex_` are
one action each (`StoreCode`, `AcceptCode` and `RefuseCode`, `IssueToken`,
`BeginUpdate` for VerifyToken); everything on files is outside the mutex, so a
registration or an update is several steps: reading (`LoadForUpdate`), opening with
truncation (`OpenFile`, or `SaveFails`), and writing (`WriteFile`, or `WriteFails`:
the stream is never asked, so the operation goes on). `Register` makes the user from
nothing; for a phone that has one this is the reset of the password, and resets the
settings too. After it the route logs in, and a login that fails is not noticed.

`UserPath` keeps only the digits of a number while codes and tokens are kept by the
number as it was typed, so the file of a phone is a constant function `PathOf` that
need not be one-to-one. A write replaces the file, also after another writer: both
write from the start, and the JSON reader stops at the end of the first value, so
what a longer writer leaves behind is not seen. Passwords stand for their hashes.

The history variables say what the properties need: how many codes were stored and
spent, the passwords that were set with them, and the files that a crash or a full
disk may have torn.

### The pool of connections

Each method of `DbConnectionPool` holds the mutex from its first to its last line, so
each is one action; the environment may break a connection between any two. Dead
connections are popped by a look for one that is alive, so finding an idle one is an
action about the first live one in the queue. `Drain` sets the count to zero whoever
still holds a connection; the history variable `strays` remembers how many did, and
the limit is stated against it. `main.cpp` makes no pool: the class is modelled as a
library for any caller.

### Lifecycle

`phase` is where the main thread is, from the start of the loop to the end of main.
`TimerFires` is the whole timer callback: it marks the service as shutting down, calls
`Shutdown` (which returns at once because of that mark, before its callbacks), and
quits the loop, whose last round still runs the queued replies. Then main's locals
are destroyed in reverse order: `PoolStop` and `PoolJoined` are the pool's
destructor, `DestroyHttps` and `HttpsJoined` the HTTPS server's, `Exit` the HTTP
server's, which joins the IO threads. Tasks are counted by where they are, and IO
threads whose handler never ends by `stuck` (`IoSticks`: the loop of the multipart
parser, the splitting of a document, a command without output). Posting to the
destroyed pool is undefined and may end the process, and so may a request served after
the locals its handler refers to are gone (`IoServesGone`). The HTTPS thread has one
step per call of `Serve`, and waits in three of them for a client.

### server.conf

A section is its sequence of `key = value` lines, comments and other names included
(`Foreign`). `EditLine` is a POST's edit: it searches for the key's *name*, which is
also found inside another line's name or comment or value (`Mentions` says in which),
and overwrites from there to the end of the line. A POST is then three kinds of step:
`Truncate` (opening the stream), one `SetGateway` per key, and `CloseConf`, for a text
shorter than the stream's buffer is written when the stream is destroyed at the end of
the handler (the shipped file has 655 bytes), or not: the stream is never asked, and
`WriteFails` leaves nothing or the first lines of it. The tasks of `/chat/memory` read
the same file for their key (`TaskResolves`) and set the same gateway, one key after
the other (`TaskSets`); `worker_lock` keeps them from each other but not from a POST.
`tasked` has the keys that a task was the last to set. `excuse` records what else has
happened (an overlap of POSTs, a death in between, an unopened file, a failed write, no
`[ai]` section, a name met inside another line): the properties say what holds without it.

### Routing and sessions

A path is the sequence of what stands between its slashes. `MatchStatic` compares the
whole, `MatchDynamic` the non-empty parts, `AllowedMethods` looks at static paths only,
as the code does. In `Dispatch` a thread's look-up of a session (`Find`), the question
whether it has expired (`Check`), its refresh or its erasure (`Refresh`, `Erase`) and the
insertion of a new one (`Create`) are separate steps, because `SessionManager` has no
lock: when one of them writes to the map while another thread is inside it, that is
undefined behaviour, and the model raises `torn` and stops there. Two look-ups may also
differ over one session at the moment it expires without a race on the map: one finds
it expired and erases it after the other has refreshed it, or logged in on it. `raced`
has these sessions. `timeouts` has the time-out of the manager the middleware has
captured and of the one that `set_session_timeout` makes afterwards.
`Serve` is CORS, token, router and handler, which touch nothing that is shared except
the session object of the request.

### Knowledge base

A text is its length and the positions of its spaces. `ChunkEnd` and `NextStart` are the
arithmetic of `AddDocumentChunked`, with `npos` where `rfind` gives it. An upload splits
its text in memory that runs out at last, and is then answered with an error. With the
overlap that the route uses, as with any other but zero, this is the only way it ends:
the model stops where the program does, and has no embedding, no store and no file,
which no upload reaches.

### Uploads and tools

A multipart body is the sequence of what stands between its boundaries, and the parser
goes on, ends, or is met by a part on which its `continue` leaves the position
unchanged: that part takes no step, and the upload hangs. Data is a sequence of cells,
one of which is a line end, because the route cuts one that the parser has cut already.
The files are written by several threads at once: `Overlay` is a text written over a
longer one. Opens and writes may fail and are reported as a success all the same.
`spoilt` has the files whose last report was such a one, until a write succeeds, and
`mixed` those that were opened while another upload had them open, until one has them
alone: both are about what a file holds now and not about all that ever happened to it.
A tool call reads, opens and writes in steps of its own; `expected` is what the calls
that reported success make of a file when run one after the other, beginning with what
the file held when a call last found it alone (`Begin`). `shared` and `failed` are to
the tools what `mixed` and `spoilt` are to the uploads. `Effect` is what the code
means an edit to do, the replacement of the first match; its description asks for more
than that (section 8). A child process writes and exits when it likes, and
`execute_command` waits for it.

### Compositions

The seven components of `Services` share no state, so interleaving them would only
multiply their states. `Services` chooses in the initial state the one that is
`exercised`; the others stand still. `Edges` does the same for connections, gateway and
router: a connection hands its request to a handler, of which it sees the answer only,
and each of the router's providers has a gateway of its own. The components' own
next-state relations are what `NextServices` and `NextEdges` consist of, and their
fairness is that of the components. The chat routes, the one place where components
do share state, are one module, `ChatPipeline`.

## 3. Runs and bounds

| Run | Asks | Bounds |
|---|---|---|
| `chat_memory` | exclusion, keys, tool groups and saves of worker tasks | 3 tasks, 2 sessions, 2 workers, 1 round of up to 2 tool calls, threshold 4 and context 2, 1 crash, any save may fail |
| `chat_routes` | responses, isolation and liveness over all routes | 2 requests, 2 sessions, 2 IO threads, 2 workers, 1 client that may leave, 1 request whose save may fail, 1 crash |
| `edges` | connections: answers, whole bodies, liveness | 1 address (reused), 4 requests: of two pieces of body, of one that is too long, of HTTP/1.0, and of a refused method; 2 per connection |
| | gateway: limiter refinement, rate, cache | 2 callers, 3 questions on 2 keys, 1 entry, TTL 2, rate 1 per tick with 2 per call, burst 2, 3 ticks |
| | router: breakers and recovery | 3 threads, 2 providers of weights 100 and 50, threshold 2, timeout 1, 1 probe |
| `accounts` | codes, passwords, tokens, files | 2 threads, 2 phones of 1 file, 2 passwords, 2 codes, 1 token (so that tokens collide), 1 field of 2 values, 1 code per phone, 1 second, 1 crash |
| `services` | the pool's limit, an orderly end, sessions and routing, what `server.conf` and the gateway hold after POSTs, uploads, tools | 4 connections and a limit of 2; 2 workers, 2 IO threads and 3 tasks; 8 routes, 2 IO threads, 10 requests, 2 sessions, time-outs of 2, 2 ticks; 2 POSTs by 2 threads of 2 bodies with 3 values, 2 foreign names, 1 task; 2 document uploads by 2 threads of 4 texts with overlap 1, chunks of 3 and memory for 8; 3 uploads of 5 bodies by 2 threads; 3 tool calls of 2 callers on 1 file |
| `chat_prompt`, `chat_clear`, `http_fragment`, `http_stale`, `gateway_final`, `shutdown`, `rag_upload` | a claim of a comment or a description, found violated | the same, smaller |

Why they are enough. Two workers and three tasks give a task in the lock, one at the
lock and one in the queue. A threshold of 4 with groups of up to 3 messages makes
trims that would split a group, trims of nothing, and a trim after a reload, within
three messages. Two sessions make a switch and a return. One reusable address is a map
entry with a past; the isolation of different addresses is the map's. One cache slot
and two keys make every store an eviction or a replacement. Three threads on one
breaker are a probe, the admitted extra request and a stale one. Two phones of one
file are two codes, two passwords and an update whose writes overlap in any order, and
a code that lives for the current second has both sides of its expiry. The bounds that
are not the code's own (`Leavers`, `MaxCallsPerReply`, `MaxCrashes`, `MaxAsked`,
`MaxTime`, `MaxCodes`, `MaxTasks`, `MaxPosts`, `MaxChats`, `MaxSessions`,
`MaxUploads`, `MaxBodies`, `MaxCalls`, and `Failing`, which bounds the failing saves) are
constants with a comment that says so; each is a guard of an action.

In `services`, four connections under a limit of two are loans that outlive a drain
beside two new ones; three tasks on two workers are one queued, one at work and one
stuck when the pool stops; the routes have a static and a dynamic pattern that both
take a path, one path with another method, and trailing slashes; two sessions on two
threads are a look-up, a refresh and an erasure of one beside the creation of another;
the four texts are one shorter than a chunk, one that is a chunk, one with spaces in
reach and one whose space comes late; the five bodies have each shape of part in a place
where the parser goes on, ends, and hangs. The two time-outs are equal, as they are as
shipped. Two POSTs overlap at every step, one of the three values and both foreign
lines contain the name of a key, and a task
reads and sets between any two of their steps.

`chat_memory` uses symmetry in requests and sessions; its `SavesContinue` is an action
property with no liveness in it. `accounts` uses symmetry in threads, phones (of one
file), passwords and codes, with invariants only. No run with a liveness property uses
symmetry.

Deadlock is checked in `gateway_final` only, since the gateway never stops. The chat and
HTTP models stop when every request has been served, the account model when the
bounds are used up, and the services when the process has exited, an upload hangs, the
map is torn or the bounds are used up.

What `services` shows, property by property. `PoolWithinLimit`: no order of
deaths, refusals, returns and drains lets the pool pass its limit by more than what was
lent at the last drain. `ShutdownInOrder`: main's locals outlive the workers that use
them, and nothing is lost while the loop runs. `SavedIsRunning`: file and gateway agree
after a save unless one of the named faults has come about, or a task has set that key
of the gateway since. `StoredKeysSafe`: only an overlap, a failed write or a death half
way loses a key. `LoginKept`: a login lasts as long as both time-outs allow, until
threads race on the map; exempt is the session on which two look-ups raced at its
expiry, whose login the code does lose. `ServedRight`: only the handler that fits runs,
and a 404 or 405 hides none; what a path is was defined a second time (`FilledIn`) to
say so. `UploadsStored`, `ReportedEditsKept`: unless its last write failed, which nobody
looks at, a file holds what was reported; after an overlap it holds at least, from its
start, what was reported last. A line end at the end of the data is granted to
`UploadsStored`: the code loses it (section 8). `SignalEndsProcess`:
after a signal the process ends or waits for good at one of its three joins, for a TLS
client, a child, or a handler that never ends. `UploadAnswered`: an upload is answered
unless its body has a part that the parser circles at.

### What the violations show

| Run | Finding |
|---|---|
| `chat_prompt` | the system prompt is set before the lock that is meant to keep tasks apart, so a task's model call can run under another task's prompt |
| `chat_clear` | a clear while a task of the session runs is undone, in part, when the task saves |
| `http_fragment` | a head cut by TCP after a whole line is dispatched without its body; other cuts are refused |
| `http_stale` | bytes of a closed connection are put in front of those of the next one at its address |
| `gateway_final` | a cache hit loses the tool calls and the agent takes what is left for the final answer |
| `shutdown` | the timer sets the mark that makes `Shutdown` return at once; no registered callback is called |
| `rag_upload` | with the overlap of the route no document is split to its end; an upload ends when memory does |

The handlers that never end (the splitting of `rag_upload`, a command without output,
and the parser's circling) are what `SignalEndsProcess` names as waits. The violated
properties are stated as the texts promise them, so that a repair of the code, and of
the model with it, turns them into properties that hold.

## 4. Fairness

`ChatPipeline!FairSpec`: weak fairness of the steps of each request that a thread has
begun. An enabled step of a thread is taken because the operating system schedules
it; curl's timeout bounds each call to the model. It also means that tools return,
which `execute_command` does not guarantee for a command that prints nothing: the
property holds of tasks whose tools do. Weak fairness is enough for the lock because
tasks are finite: with as many requests as the model has, waiters cannot be passed
for ever. Arrivals, disconnects and crashes have no fairness.

`HttpConnection!FairSpec`: the IO loop reads what has arrived, workers end their
streams. Clients are not fair. How much a read finds is not fair either: a body may
arrive piece by piece.

`ModelRouter!FairRouterSpec`: each thread goes on with the request it serves, calls end,
time passes. That requests arrive, and that a provider stays up, are hypotheses of
`Recovers` itself. `EdgesFairness` is these two, each where its component is exercised.

`ServicesFairness`: of `Lifecycle`, the main thread's steps, those of the HTTPS thread
that wait for no client, and the ends of tasks that wait for no child; of `Uploads`,
the handler's own steps. Signals, clients and child
processes are not fair, so whoever waits for one of them may wait for ever, and the
liveness properties name those waits.

## 5. What is proved

All theorems hold for every value of the constants that satisfies the named
assumptions, with no bound on requests, callers, time or crashes.

* `ChatPipelineProofs`. `TypeCorrect`. `WorkerExclusion`: `OneTaskAtATime`, by
  induction from the type invariant alone, because only `AcquireWorkerLock` enters
  the section and `PostResponse` leaves it. `SessionsIsolated`: not inductive as
  stated, because a save copies the history into the file of the task's session, not
  of the agent's. The inductive invariant `IsolationInv` adds that a task in the
  locked section after `EnterSession` finds the agent in its own session
  (`HolderInSession`), which in turn needs exclusion: the only actions that change
  `agentSession` are `EnterSession`, of the lock's holder, and `Crash`.
* `RateLimiterProofs`. `LimiterTypes`. `GrantsWithinRate`: the bound on every interval
  is not inductive; the invariant `Budget` says, for each earlier grant, that the
  calls since then and the tokens left together fit burst and refill.
  `ImplementsTokenBucket`: `Allow` and `Deny` map to a grant and a refusal of the
  bucket at its current level, `Tick` to its refill.
* `AiGatewayProofs`. `GatewayLimits`: every step of the gateway is a step of its
  limiter or leaves it alone, so the limiter's theorems carry over
  (`GatewayWithinRate`). `GatewayTypes`, `CacheStaysBounded` (with finiteness of what
  is stored as part of the invariant, for any set of keys) and `AnswersAreOwn` (the
  invariant adds that each entry was written for its key).
* `ModelRouterProofs`. `RouterTypes`, `ClosedIsHealthy`, and `HalfOpenIsProbed`,
  which holds because the request that makes a breaker half-open is itself a call
  under way, and whichever call ends first decides the state.

* `AccountsProofs`. `TypeCorrect`; `CodesAreSpentOnce`, from the types alone.
  `PasswordsAreEarned` needs `EarnedInv`: the user that a thread is about to save has
  a password granted for that file already, and a login that was accepted has found a
  file; it rests on `FilesOnlyGrow` (grants and files do not go away, and what is
  whole was so or has just been written). `TornFilesAreWritten`: a thread that tears a
  file is its writer, and the only step that takes a writer away leaves the file
  whole or records why not.
* `ChatPipelineProofs`, continued. `OneResponseEach`: nothing is sent before the step
  that ends a request (`ResponseInv`). `OwnKeyIsUsed`: from `SetApiKey` on, the gateway
  has the key of the task in the locked section (`KeyInv`). `ToolGroupsStayWhole`:
  while a task runs the tools of an answer the history lacks exactly the results still
  to come, and otherwise every group is whole (`GroupInv`); the cut of `TrimContext`
  is at a trim point, and what is behind a trim point of a well-formed history is well
  formed. `SavesAreContinued`, an action property: what the holder of the lock has in
  memory continues what the last save of its session had (`HistoryFollows`), and a torn
  file is being written, is of the agent's session, or is recorded in `lost`
  (`FilesSound`).
* `HttpConnectionProofs`. `TypeCorrect`. `ResponsesInOrder` needs `OrderInv`: a
  connection without an oddity is idle, or has one request arriving whose pieces so
  far are in `partial`, or one being served, and `asked` is `sent` plus that request.
  The same invariant gives `BodiesWhole`.
* `ServicesProofs`.
  - `PoolKeepsLimit` and `PoolCountsLoans`, for any set of connections.
    `PoolWithinLimit` is not inductive: `Get` decides by `active_count_`, which is not
    the number of loans after a drain. `PoolInv` adds that it is that number less what
    the drain wrote off (`ActiveIsLoans`), and that a connection is lent or queued,
    once, but not both (`OnePlace`), without which a loan would not add one to what is
    open.
  - `ShutdownKeepsOrder`. `LifecycleInv` adds at which phase of main's end the pool is
    still there, and that a pool that is stopped has no queue and one that is gone has
    no worker left (`PoolOrder`).
  - `LoginsAreKept`. The invariant has to say, for a thread that serves, that its session
    is in the table or in `raced` and has not idled too long (`Held`), that nobody is
    ahead of the clock, and that the middleware has the constructor's manager
    (`OwnTimeout`). A thread that erases or inserts while another holds an iterator sets
    `torn`, with which the property ends.
  - `RequestsAreServedRight`. `MatchedIsFilledIn` proves, for any pattern and path, that
    `MatchPath` is the reference definition `FilledIn`; `RoutesRight` is what `Route`
    returns; `AnswersFit` ties each reply to the request that its thread holds.
  - `SplittingNeverEnds`: an upload that is being split has its next chunk start inside
    its text (`Unfinished`), for every text and every overlap but zero. So the
    counterexample of `rag_upload` is not one of its small texts.
* `FilesProofs`. The three components write files without a lock, and the argument is
  the same: who has emptied a file has it to itself until its text is there, or a
  history variable says that it was not so.
  - `UploadsAreStored`, from `HasFile`: who has a file open that is not mixed has it
    alone and finds it empty. In one that is mixed the last write still puts its data
    at the start.
  - `EditsAreKept`, from `HasText`: a call at work on a file that is not shared is alone
    there and knows the text that is expected; and from `SharedKept`: a shared file that
    nobody holds open starts with the text that was reported last.
  - `SavedIsWhatRuns` and `StoredKeysAreSafe`. `ConfigInv` says of the POST on its way
    that its text holds what will have been saved, and the gateway has it but for the
    keys still to be set and those that a task has set since (`OnItsWay`). That the
    text does rests on `EditAll`, a lemma about the edit alone: with a line per key at
    most, none of them spoilt, and no other line that mentions a key, the edit sets the
    keys of the body and nothing else; and whatever it meets it takes no key away.
  - `ServicesTypes`: a step of one component is a stutter of the others
    (`EachStepsAlone`), so their invariants hold side by side.

The assumptions are on constants only. Those of the modules (`AccountsAssumption`,
`PoolAssumption`, `LifecycleAssumption`, `ConfigAssumption`, `RoutingAssumption`,
`DispatchAssumption`, `RagAssumption`, `UploadsAssumption`, `ToolsAssumption`,
`TrimAssumption`, `PipelineAssumption`, `LimiterAssumption`, `GatewayAssumption`,
`RouterAssumption`, `ConnectionAssumption`) say what kind of thing a constant is, and
TLC evaluates them on every run. Three theorems have a hypothesis of their own, which
they state:

* `ToolGroupsStayWhole` and `SavesAreContinued` assume that clients use none of the
  three routes that change the agent's history without `worker_lock` (`MemoryAlone`).
  With them the properties do not hold of the code: a clear between an answer and its
  tool results leaves half a group. `chat_memory` checks them under the same restriction.
* `OwnKeyIsUsed` assumes that nobody uses `POST /api/config` meanwhile, whose handler
  writes the key of the running gateway without that lock.

Only model-checked: the liveness properties (`AcceptedIsAnswered`, `EachAnswered`,
`EachEnds`, `Recovers`, `SignalEndsProcess`, `UploadAnswered`), which are out of the
prover's reach, and the seven claims that runs find violated. Every invariant and
action property of a passing run is proved. No definition that a theorem uses is
recursive; two helpers are written so that they can be proved about without induction
over data: `SplitPath` names the n-th non-empty part by the number of parts up to it,
and `KeysOf` lists three keys one by one.

## 6. Mutants

Every property of a passing run has a mutant: a definition of the model replaced by
one with a plausible bug (defined just before it, marked "Seeded fault"), under which
TLC finds the property violated. `PROJECT.json` pairs them.

## 7. Plan

1. Done: chat, HTTP connections, gateway, router, accounts, the services; theorems for
   every safety property that a passing run checks.
2. Proofs: what the chat service and the gateway promise together. `ChatPipeline` calls
   the model in one step; `AiGateway` has that step in detail. A refinement of the one
   by the other would carry `OwnAnswer` to the worker tasks.
3. Proofs: safety lemmas behind the liveness properties (who is waited for is at work),
   so that only the fairness argument itself is left to TLC.

## 8. Not modelled

* JSON, HTTP and SSE text, except where a cut of it matters; logging; static files;
  `HttpResponse`. `json.hpp` is a vendored library, and 26,085 of the repository's 33,361
  lines; of the other 7,276 the map covers 31%, and what is left is mostly
  headers, read-only routes and tools, building and parsing of text, logging and dead code.
* Data races inside a container or a string (`history_`, `partial_requests_`,
  `config_`): the models interleave whole calls. Where whole calls already interleave
  badly, a run shows it. The race on the session map is an outcome of its own (`torn`).
* `McpServer`'s transport, sessions and `HandleRequest` (`main.cpp` uses the class as a
  registry of tools and answers JSON-RPC itself), `UserAuth` (no file includes it),
  `RateLimiter::Reset` in compositions, `AiResponseCache::Clear`,
  `SessionManager::Destroy` and `Cleanup`, `HttpServer::TrackResponseTime`,
  `RAGPipeline::AddDocument`: nobody calls them.
* Routes and tools that only read.
* Embedding, the vector store, `vectors.json` and its start-up load, and the queries: no
  upload gets that far, so the store stays what the file held at the start.
* Of connections: header lines that are malformed by themselves (they are refused as a
  cut one is), chunked bodies, and the displayed counters; a second
  request in the same read is erased with the first (`http_server.cpp:140`), which the
  model has and `AnsweredInOrder` excuses; so it does the body of a refused request that
  comes after the refusal and is taken for requests.
* The cache key leaves out endpoint and tools (`ai_gateway.cpp:322`), which is the
  freedom of `CacheKey`; text that is not UTF-8 makes `dump()` throw in an answer too
  (`main.cpp:1752`); at the limit of tool calls the agent leaves `success` false
  (`chat_agent.cpp:88`).

Smaller disagreements met while modelling, of code with itself or with its texts: a
dynamic route called with another method gives 404 and not 405, since methods are
tracked for static paths only; `GET /echo` falls to the dynamic `/:path`; `/health/`
is no static path but matches dynamic patterns; the comment at `main.cpp:94` against
the 401 for other static files; `X-Auth-Token` is not among the allowed CORS headers.

Disagreements with more behind them, which the models contain and the properties of
the passing runs leave out by name:

* `session_timeout` of `server.conf` (`server.conf.example:20`) has no effect:
  `set_session_timeout` (`http_server.cpp:173`) makes a new manager, and the middleware
  keeps the one it was built with. `Dispatch` has both (`timeouts`); `LoginKept` promises
  a login for no longer than both allow.
* A line end at the end of an uploaded file is lost, although the data is meant to be
  kept raw (`multipart_parser.cpp:90`): the one that belongs to the boundary is cut off
  already at `multipart_parser.cpp:48`.
* `edit_file` replaces the first of several matches (`main.cpp:522`), where its
  description asks for a unique one (唯一匹配, `main.cpp:504`). `ReportedEditsKept` is
  about what the code means to do, and about whether it lasts.
* The timeout of `execute_command` (`main.cpp:539`) is looked at only after a line of
  output (`main.cpp:554`), and `pclose` waits for the child after it too.
* A task of `/chat/memory` that falls back on `server.conf` (`main.cpp:1707`) finds no
  key while a POST has the file emptied, or after a POST whose write failed.
