------------------------------ MODULE Lifecycle ------------------------------
(***************************************************************************)
(* From start to exit: main()'s HTTP loop, the signal flag and the timer   *)
(* of GracefulShutdown, the worker pool of main.cpp, and the thread of     *)
(* HttpsServer with its SslContext.  Returning from main destroys the      *)
(* locals in reverse order: worker_pool (stop, join), then https_server    *)
(* (Stop, join), last of these the HTTP server (quit and join of its IO    *)
(* threads).  Until then the IO threads run, so chat requests keep         *)
(* arriving in every phase.                                                *)
(***************************************************************************)
EXTENDS Naturals

CONSTANTS Workers,    \* threads of worker_pool (8 in main.cpp)
          IoLoops,    \* IO threads of the HTTP server (server.threads)
          MaxTasks    \* bound: chat tasks that are ever posted

ASSUME LifecycleAssumption ==
    Workers \in Nat \ {0} /\ IoLoops \in Nat \ {0} /\ MaxTasks \in Nat

VARIABLES
    phase,         \* of the main thread
    signalled,     \* g_shutdown_requested
    shuttingDown,  \* GracefulShutdown::shutting_down_
    callbacksRun,  \* the registered callback has been called
    tls,           \* where the HTTPS thread is
    running,       \* HttpsServer::running_
    listening,     \* listen_fd_ >= 0
    pool,          \* worker_pool: "running", "stopped", then "gone"
    stuck,         \* IO threads in a request whose handler never ends
    queued, busy, hung,       \* tasks queued, executed, and stuck in a child
    pending, answered, lost   \* replies handed to the loop, sent, and lost

lifecycleVars == <<phase, signalled, shuttingDown, callbacksRun, tls, running,
                   listening, pool, stuck, queued, busy, hung, pending, answered,
                   lost>>
shutdownVars == <<signalled, shuttingDown, callbacksRun>>
tlsVars == <<tls, running, listening>>
taskVars == <<stuck, queued, busy, hung, pending, answered, lost>>

Phases == {"starting", "looping", "returned", "joining", "closing", "exited", "crashed"}
TlsBlocked == {"accept", "handshake", "read"}
TlsSteps == {"none", "check", "call", "ended"} \union TlsBlocked

LifecycleTypeOK ==
    /\ phase \in Phases
    /\ signalled \in BOOLEAN /\ shuttingDown \in BOOLEAN /\ callbacksRun \in BOOLEAN
    /\ tls \in TlsSteps /\ running \in BOOLEAN /\ listening \in BOOLEAN
    /\ pool \in {"running", "stopped", "gone"}
    /\ \A n \in {queued, busy, hung, pending, answered, lost} : n \in 0..MaxTasks
    /\ busy + hung <= Workers
    /\ stuck \in 0..IoLoops

Accepted == queued + busy + hung + pending + answered + lost

InitLifecycle ==
    /\ phase = "starting"
    /\ signalled = FALSE /\ shuttingDown = FALSE /\ callbacksRun = FALSE
    /\ tls = "none" /\ running = FALSE /\ listening = FALSE
    /\ pool = "running"
    /\ stuck = 0
    /\ queued = 0 /\ busy = 0 /\ hung = 0
    /\ pending = 0 /\ answered = 0 /\ lost = 0

-----------------------------------------------------------------------------
(* main() up to server.Start(), and the end of the loop *)

\* The HTTPS thread exists only if the certificate loads and the port is free.
HttpsStart(ok) ==
    /\ running' = ok /\ listening' = ok
    /\ tls' = IF ok THEN "check" ELSE "none"

StartServer ==
    /\ phase = "starting"
    /\ phase' = "looping"
    /\ \E ok \in BOOLEAN : HttpsStart(ok)
    /\ UNCHANGED <<shutdownVars, pool, taskVars>>

\* The handler of SIGINT and SIGTERM only raises the flag.
Signal ==
    /\ phase # "starting" /\ ~signalled
    /\ signalled' = TRUE
    /\ UNCHANGED <<phase, shuttingDown, callbacksRun, tlsVars, pool, taskVars>>

\* Shutdown() returns at once when shutting_down_ is set, and calls the
\* callbacks otherwise; the timer sets it and then calls Shutdown().
Shutdown(already) == callbacksRun' = (callbacksRun \/ ~already)
TimerShutdown == shuttingDown' = TRUE /\ Shutdown(TRUE)

\* The timer quits the loop, whose last round still runs what is pending.
TimerFires ==
    /\ phase = "looping"
    /\ signalled /\ ~shuttingDown
    /\ TimerShutdown
    /\ phase' = "returned"
    /\ answered' = answered + pending /\ pending' = 0
    /\ UNCHANGED <<signalled, tlsVars, pool, stuck, queued, busy, hung, lost>>

LoopRunsPending ==
    /\ phase = "looping" /\ pending > 0
    /\ answered' = answered + pending /\ pending' = 0
    /\ UNCHANGED <<phase, shutdownVars, tlsVars, pool, stuck, queued, busy, hung, lost>>

\* ~ThreadPool: stop() drops what is queued, then joins every worker.
PoolStop ==
    /\ phase = "returned" /\ pool = "running"
    /\ pool' = "stopped"
    /\ lost' = lost + queued /\ queued' = 0
    /\ UNCHANGED <<phase, shutdownVars, tlsVars, stuck, busy, hung, pending, answered>>

\* Seeded fault: the workers that wait for a child are not joined.
PoolJoinedWithoutHung ==
    /\ pool = "stopped" /\ busy = 0
    /\ pool' = "gone"
    /\ UNCHANGED <<phase, shutdownVars, tlsVars, taskVars>>
PoolJoined ==
    /\ pool = "stopped" /\ busy + hung = 0
    /\ pool' = "gone"
    /\ UNCHANGED <<phase, shutdownVars, tlsVars, taskVars>>

\* Seeded fault: running_ stays set.
HttpsStopForgets == UNCHANGED running /\ listening' = FALSE
\* Stop(): running_ is cleared and the descriptor closed, then the thread joined.
HttpsStop == running' = FALSE /\ listening' = FALSE

DestroyHttps ==
    /\ phase = "returned" /\ pool = "gone"
    /\ phase' = "joining"
    /\ HttpsStop
    /\ UNCHANGED <<shutdownVars, tls, pool, taskVars>>

HttpsJoined ==
    /\ phase = "joining" /\ tls \in {"none", "ended"}
    /\ phase' = "closing"
    /\ UNCHANGED <<shutdownVars, tlsVars, pool, taskVars>>

\* ~HttpServer: the IO loops are told to quit, and each thread is joined when
\* the request it is at has ended.
Exit ==
    /\ phase = "closing" /\ stuck = 0
    /\ phase' = "exited"
    /\ UNCHANGED <<shutdownVars, tlsVars, pool, taskVars>>

-----------------------------------------------------------------------------
(* Chat tasks: the IO threads post them, the workers run them *)

Up == phase \notin {"starting", "exited", "crashed"}

Post ==
    /\ Up /\ Accepted < MaxTasks /\ stuck < IoLoops
    /\ CASE pool = "running" -> queued' = queued + 1 /\ UNCHANGED <<phase, lost>>
         [] pool = "stopped" -> lost' = lost + 1 /\ UNCHANGED <<phase, queued>>
         [] pool = "gone" ->   \* run() on a destroyed ThreadPool is undefined
              /\ \/ lost' = lost + 1 /\ UNCHANGED phase
                 \/ phase' = "crashed" /\ UNCHANGED lost
              /\ UNCHANGED queued
    /\ UNCHANGED <<shutdownVars, tlsVars, pool, stuck, busy, hung, pending, answered>>

Take ==
    /\ Up /\ pool = "running" /\ queued > 0 /\ busy + hung < Workers
    /\ queued' = queued - 1 /\ busy' = busy + 1
    /\ UNCHANGED <<phase, shutdownVars, tlsVars, pool, stuck, hung, pending, answered, lost>>

\* The end of a task hands its reply to the main loop; once that has quit
\* nobody runs it.
Finish ==
    /\ Up /\ busy > 0
    /\ busy' = busy - 1
    /\ IF phase = "looping" THEN pending' = pending + 1 /\ UNCHANGED lost
                            ELSE lost' = lost + 1 /\ UNCHANGED pending
    /\ UNCHANGED <<phase, shutdownVars, tlsVars, pool, stuck, queued, hung, answered>>

\* execute_command: the child neither writes nor exits, so fgets and pclose
\* wait and the timeout that is tested between them is never looked at.
ChildHangs ==
    /\ Up /\ busy > 0
    /\ busy' = busy - 1 /\ hung' = hung + 1
    /\ UNCHANGED <<phase, shutdownVars, tlsVars, pool, stuck, queued, pending, answered, lost>>

-----------------------------------------------------------------------------
(* The IO threads' other requests *)

\* A request whose handler never ends: an upload that the multipart parser or
\* SplitText circles in, or execute_command with a child that neither writes
\* nor exits.
IoSticks ==
    /\ Up /\ phase # "closing" /\ stuck < IoLoops
    /\ stuck' = stuck + 1
    /\ UNCHANGED <<phase, shutdownVars, tlsVars, pool, queued, busy, hung, pending,
                   answered, lost>>

\* The handlers refer to locals of main, and to the router, that are destroyed
\* while requests are still served: undefined, and one outcome is a crash.
IoServesGone ==
    /\ Up /\ pool = "gone" /\ stuck < IoLoops
    /\ phase' = "crashed"
    /\ UNCHANGED <<shutdownVars, tlsVars, pool, taskVars>>

-----------------------------------------------------------------------------
(* HttpsServer::Serve, one connection at a time *)

TlsMove(from, to) ==
    /\ Up /\ tls = from /\ tls' = to
    /\ UNCHANGED <<phase, shutdownVars, running, listening, pool, taskVars>>

TlsCheck == TlsMove("check", IF running THEN "call" ELSE "ended")

\* accept() on a closed descriptor fails at once; a call that waits already is
\* not woken by the close.
TlsCall == TlsMove("call", IF listening THEN "accept" ELSE "check")

\* The clients' moves: each may succeed or end the connection.
TlsConnects   == TlsMove("accept", "handshake") \/ TlsMove("accept", "check")
TlsHandshakes == TlsMove("handshake", "read") \/ TlsMove("handshake", "check")
TlsRequests   == TlsMove("read", "check")

NextLifecycle ==
    \/ StartServer \/ Signal \/ TimerFires \/ LoopRunsPending
    \/ PoolStop \/ PoolJoined \/ DestroyHttps \/ HttpsJoined \/ Exit
    \/ Post \/ Take \/ Finish \/ ChildHangs \/ IoSticks \/ IoServesGone
    \/ TlsCheck \/ TlsCall \/ TlsConnects \/ TlsHandshakes \/ TlsRequests

\* What the program itself keeps doing: the main thread, the HTTPS thread
\* where it does not wait for a client, and the workers where they do not wait
\* for a child.  Clients, signals and children owe nothing.
MainMoves == \/ StartServer \/ TimerFires \/ PoolStop \/ PoolJoined \/ DestroyHttps
             \/ HttpsJoined \/ Exit
TlsMoves == TlsCheck \/ TlsCall
LifecycleFairness ==
    /\ WF_lifecycleVars(MainMoves)
    /\ WF_lifecycleVars(TlsMoves)
    /\ WF_lifecycleVars(Finish)

LifecycleSpec == InitLifecycle /\ [][NextLifecycle]_lifecycleVars /\ LifecycleFairness

-----------------------------------------------------------------------------
\* ShutdownInOrder, in two parts.  main's locals, which the tasks refer to, go
\* away only after the last worker has ended: the HTTPS server is stopped with
\* no task queued or at work.
WorkersEndFirst == phase \in {"joining", "closing", "exited"} => queued + busy + hung = 0

\* No reply is lost and no task dropped as long as the loop runs, so a signal
\* costs nothing before the timer has seen it.
LostAfterLoop == phase \in {"starting", "looping"} => lost = 0 /\ pool = "running"

ShutdownInOrder == WorkersEndFirst /\ LostAfterLoop

\* graceful_shutdown.h:17, "Register a cleanup callback (e.g. stop server, drain
\* connection pool)": when the loop has been quit, the registered callbacks
\* have been called.
CallbacksCalled == phase \in {"returned", "joining", "closing", "exited"} => callbacksRun

\* After a signal the process ends, unless it waits for good at one of its
\* three joins: for the HTTPS thread, which a TLS client keeps; for a worker,
\* which a child of execute_command keeps; for an IO thread, which a handler
\* that never ends keeps.
WaitsForTls == phase = "joining" /\ tls \in TlsBlocked
WaitsForChild == pool = "stopped" /\ hung > 0
WaitsForIo == phase = "closing" /\ stuck > 0
SignalEndsProcess ==
    <>[](signalled => \/ phase \in {"exited", "crashed"}
                      \/ WaitsForTls \/ WaitsForChild \/ WaitsForIo)
=============================================================================
