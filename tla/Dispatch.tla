------------------------------- MODULE Dispatch -------------------------------
(***************************************************************************)
(* A parsed request on its IO thread: the middleware chain (session,       *)
(* logging, CORS, token), the router and the session routes of main.cpp.   *)
(* The SessionManager is one map without a lock that every IO thread uses. *)
(* A write to it while another thread is between its lookup and the use of *)
(* what it found is a data race; `torn' is then raised and the behaviour   *)
(* is not followed any further.                                            *)
(***************************************************************************)
EXTENDS Routing

CONSTANTS IoThreads,
          Requests,           \* per IO thread, what its clients send: sets of
                              \* [method, path, token : BOOLEAN]
          PublicPaths,        \* paths that need no token
          LoginPath, LogoutPath, CrashPath,
          Users,
          DefaultTimeout,     \* of SessionManager's constructor
          ConfiguredTimeout,  \* session.timeout of server.conf
          MaxSessions, MaxTime,   \* bounds
          NoSession, Nobody

ASSUME DispatchAssumption ==
    /\ DefaultTimeout \in Nat /\ ConfiguredTimeout \in Nat
    /\ MaxSessions \in Nat /\ MaxTime \in Nat
    /\ NoSession \notin Nat /\ Nobody \notin Users
    /\ \A t \in IoThreads : \A r \in Requests[t] : IsPath(r.path)

VARIABLES th,        \* what each IO thread is doing
          reply,     \* the last answer of each: status, route that ran, Allow
          table,     \* ids in the captured manager's sessions_
          session,   \* per id issued: its username and last access
          timeouts,  \* of the manager in the middleware and in the server
          now, torn,
          raced      \* sessions that one look-up erased and another kept (history)

dispatchVars == <<th, reply, table, session, timeouts, now, torn, raced>>

Ids == 1..MaxSessions
Steps == {"idle", "find", "check", "refresh", "erase", "create", "serve", "done"}
IdleThread == [pc |-> "idle", req |-> <<>>, cookie |-> NoSession, sess |-> NoSession]
NoReply == [code |-> 0, route |-> 0, allow |-> {}]

Threads == [pc : Steps, req : (UNION {Requests[t] : t \in IoThreads}) \union {<<>>},
            cookie : Ids \union {NoSession}, sess : Ids \union {NoSession}]
Sessions == [user : Users \union {Nobody}, last : 0..MaxTime]

DispatchTypeOK ==
    /\ th \in [IoThreads -> Threads]
    /\ \A t \in IoThreads :
          /\ reply[t].code \in {0, 200, 204, 401, 404, 405, 500}
          /\ reply[t].route \in 0..Len(Routes)
    /\ session \in Seq(Sessions) /\ Len(session) <= MaxSessions
    /\ table \subseteq DOMAIN session /\ raced \subseteq DOMAIN session
    /\ now \in 0..MaxTime /\ torn \in BOOLEAN

-----------------------------------------------------------------------------
(* Start: the constructor gives the middleware the manager it makes; main    *)
(* calls set_session_timeout later, which makes the server another one.      *)

NewServer == [middleware |-> DefaultTimeout, server |-> DefaultTimeout]
SetSessionTimeout(s, n) == [s EXCEPT !.server = n]

InitDispatch ==
    /\ th = [t \in IoThreads |-> IdleThread]
    /\ reply = [t \in IoThreads |-> NoReply]
    /\ table = {} /\ session = <<>>
    /\ timeouts = IF ConfiguredTimeout > 0 THEN SetSessionTimeout(NewServer, ConfiguredTimeout)
                                           ELSE NewServer
    /\ now = 0 /\ torn = FALSE /\ raced = {}

-----------------------------------------------------------------------------
(* The session middleware *)

Receive(t) ==
    /\ th[t].pc = "idle"
    /\ \E r \in Requests[t], c \in DOMAIN session \union {NoSession} :
          th' = [th EXCEPT ![t] = [IdleThread EXCEPT !.pc = "find", !.req = r, !.cookie = c]]
    /\ UNCHANGED <<reply, table, session, timeouts, now, torn, raced>>

\* SessionManager::Get looks the id up ...
Find(t) ==
    /\ th[t].pc = "find"
    /\ th' = [th EXCEPT ![t].pc = IF th[t].cookie \in table THEN "check" ELSE "create"]
    /\ UNCHANGED <<reply, table, session, timeouts, now, torn, raced>>

\* Seeded fault: off by one.
ExpiredEarly(s) == now - session[s].last + 1 >= timeouts.middleware
Expired(s) == now - session[s].last >= timeouts.middleware

\* ... asks whether the session has expired ...
Check(t) ==
    /\ th[t].pc = "check"
    /\ th' = [th EXCEPT ![t].pc = IF Expired(th[t].cookie) THEN "erase" ELSE "refresh"]
    /\ UNCHANGED <<reply, table, session, timeouts, now, torn, raced>>

\* ... and refreshes it, erased meanwhile or not, ...
Refresh(t) ==
    LET s == th[t].cookie
    IN  /\ th[t].pc = "refresh"
        /\ session' = [session EXCEPT ![s].last = now]
        /\ raced' = IF s \in table THEN raced ELSE raced \union {s}
        /\ th' = [th EXCEPT ![t].pc = "serve", ![t].sess = s]
        /\ UNCHANGED <<reply, table, timeouts, now, torn>>

\* Another thread is inside the map, or holds an iterator into it.
OthersInside(t) == \E u \in IoThreads \ {t} : th[u].pc \in {"check", "erase", "create"}

\* ... or erases it, refreshed meanwhile or not.
Erase(t) ==
    LET s == th[t].cookie
    IN  /\ th[t].pc = "erase"
        /\ table' = table \ {s}
        /\ raced' = IF Expired(s) THEN raced ELSE raced \union {s}
        /\ torn' = OthersInside(t)
        /\ th' = [th EXCEPT ![t].pc = "create"]
        /\ UNCHANGED <<reply, session, timeouts, now>>

\* A request without a live session gets a new one, whatever it asks for.
Create(t) ==
    /\ th[t].pc = "create" /\ Len(session) < MaxSessions
    /\ session' = Append(session, [user |-> Nobody, last |-> now])
    /\ table' = table \union {Len(session')}
    /\ torn' = OthersInside(t)
    /\ th' = [th EXCEPT ![t].pc = "serve", ![t].sess = Len(session')]
    /\ UNCHANGED <<reply, timeouts, now, raced>>

-----------------------------------------------------------------------------
(* CORS, token, router, handler *)

NeedsToken(r) == r.path \notin PublicPaths

Outcome(r) ==
    CASE r.method = "OPTIONS" -> [code |-> 204, route |-> 0, allow |-> {}]
      [] r.method # "OPTIONS" /\ NeedsToken(r) /\ ~r.token ->
            [code |-> 401, route |-> 0, allow |-> {}]
      [] OTHER -> Route(r.method, r.path)

\* What the handler does to the session object that the request holds.
Handled(path, s) ==
    CASE path = LoginPath  -> {[user |-> u, last |-> now] : u \in Users}
      [] path = LogoutPath -> {[user |-> Nobody, last |-> now]}
      [] OTHER -> {session[s]}

Serve(t) ==
    LET r == th[t].req
        out == Outcome(r)
        code == IF out.route # 0 /\ r.path = CrashPath THEN 500 ELSE out.code
    IN  /\ th[t].pc = "serve"
        /\ th' = [th EXCEPT ![t].pc = "done"]
        /\ reply' = [reply EXCEPT ![t] = [out EXCEPT !.code = code]]
        /\ IF out.route # 0
           THEN \E new \in Handled(Routes[out.route].path, th[t].sess) :
                   session' = [session EXCEPT ![th[t].sess] = new]
           ELSE UNCHANGED session
        /\ UNCHANGED <<table, timeouts, now, torn, raced>>

Answer(t) ==
    /\ th[t].pc = "done"
    /\ th' = [th EXCEPT ![t] = IdleThread]
    /\ reply' = [reply EXCEPT ![t] = NoReply]
    /\ UNCHANGED <<table, session, timeouts, now, torn, raced>>

\* A request is served in less time than a session may idle.
RequestsAreShort ==
    \A t \in IoThreads :
        th[t].pc = "serve" => now' - session[th[t].sess].last < timeouts.middleware

Tick ==
    /\ now < MaxTime
    /\ now' = now + 1
    /\ RequestsAreShort
    /\ UNCHANGED <<th, reply, table, session, timeouts, torn, raced>>

NextDispatch ==
    /\ ~torn
    /\ \/ \E t \in IoThreads :
             \/ Receive(t) \/ Find(t) \/ Check(t) \/ Refresh(t) \/ Erase(t)
             \/ Create(t) \/ Serve(t) \/ Answer(t)
       \/ Tick

DispatchSpec == InitDispatch /\ [][NextDispatch]_dispatchVars

-----------------------------------------------------------------------------
\* What the configuration promises.
Promised == IF ConfiguredTimeout > 0 THEN ConfiguredTimeout ELSE DefaultTimeout

\* Up to the first data race on the map, who has logged in stays known for the
\* time that is configured, if that is no longer than the default (as shipped
\* they are the same; the middleware only knows the default): the session that
\* an answered login was stored in is in the table.  Excepted is the session on
\* which two look-ups race at the moment it expires, so that one keeps and uses
\* it and the other erases it.
LoginKept ==
    ~torn => \A s \in DOMAIN session \ raced :
        /\ session[s].user # Nobody
        /\ now - session[s].last < DefaultTimeout /\ now - session[s].last < Promised
        => s \in table

\* The path is the pattern with some part in the place of each parameter.
FilledIn(pattern, path) ==
    LET want == SplitPath(pattern) have == SplitPath(path)
    IN  \E fill \in [DOMAIN want -> {have[i] : i \in DOMAIN have}] :
           have = [i \in DOMAIN want |-> IF want[i] \in Params THEN fill[i] ELSE want[i]]

\* ServedRight: a request is served exactly if it may be and can be.  A handler
\* runs only for a request with the token, or for a public path, and never for a
\* preflight; and it is a handler of that method whose pattern the path matches.
OnlyAllowedHandlersRun ==
    \A t \in IoThreads : reply[t].route # 0 =>
        /\ th[t].req.token \/ th[t].req.path \in PublicPaths
        /\ th[t].req.method # "OPTIONS"
        /\ Routes[reply[t].route].method = th[t].req.method
        /\ \/ Routes[reply[t].route].path = th[t].req.path
           \/ FilledIn(Routes[reply[t].route].path, th[t].req.path)

\* A refusal is right: a 404 or 405 is given only when no route of the method
\* takes the path, and every method that a 405 lists under Allow would be served.
RefusalIsRight ==
    \A t \in IoThreads : reply[t].code \in {404, 405} =>
        LET r == th[t].req
        IN  /\ \A i \in DOMAIN Routes :
                  Routes[i].method = r.method =>
                      /\ Routes[i].path # r.path
                      /\ IsDynamicPattern(Routes[i].path) => ~FilledIn(Routes[i].path, r.path)
            /\ \A m \in reply[t].allow : Route(m, r.path).code = 200
            /\ (reply[t].code = 405) <=> (reply[t].allow # {})

ServedRight == OnlyAllowedHandlersRun /\ RefusalIsRight
===============================================================================
