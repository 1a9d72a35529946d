----------------------------- MODULE ServerConfig -----------------------------
(***************************************************************************)
(* server.conf: ConfigManager, the choice of the file in main(), GET and   *)
(* POST /api/config.  A POST reads the file, edits the text of its [ai]    *)
(* section, reopens the file (which empties it), hands the values to the   *)
(* running gateway and writes the text when the stream is closed; nothing  *)
(* locks the file, so the POSTs of two IO threads overlap freely, a write  *)
(* may fail unnoticed, and the process may die between any two steps.  The *)
(* tasks of /chat/memory set the same gateway, one at a time, and read the *)
(* file for their key.                                                     *)
(*                                                                         *)
(* A section is its sequence of `key = value' lines, comments included.    *)
(* The text is edited by a search for the key's name, which also finds it  *)
(* inside another line's name or value: Mentions says which contain which. *)
(***************************************************************************)
EXTENDS TextFile, FiniteSetsExt

CONSTANTS Posters,     \* IO threads that handle POST /api/config
          Values,      \* the values a body may carry
          Bodies,      \* the bodies: functions from some Keys to Values
          Foreign,     \* what other lines begin with: other names, comments
          ProviderKey, \* the provider's own key, one of Foreign
          Mentions,    \* pairs <<value or foreign name, key>>: the text contains the key
          MaxPosts,    \* bound: POSTs that are ever made
          MaxChats,    \* bound: tasks that are ever run
          Account,     \* a value of the user's account or of the provider table
          V1,          \* a value with the "/v1" suffix added
          Unset, Garbled, Example  \* no value; a spoilt one; that of the example file

Keys == {"api_key", "api_base", "model"}

ASSUME ConfigAssumption ==
    /\ {Unset, Garbled, Example, Account} \intersect Values = {} /\ Garbled # Unset
    /\ Bodies \subseteq UNION {[ks -> Values] : ks \in SUBSET Keys}
    /\ Keys \intersect (Values \union Foreign) = {} /\ ProviderKey \in Foreign
    /\ Mentions \subseteq (Values \union Foreign) \X Keys
    /\ V1 \in [Values -> Values]
    /\ MaxPosts \in Nat /\ MaxChats \in Nat

VARIABLES conf,     \* server.conf
          gw,       \* what the running AiGateway uses
          post,     \* what each IO thread is doing
          task,     \* the task on the worker lock: its key, what it has yet to set
          chats,    \* how many tasks were run (bound)
          tasked,   \* the keys of gw that a task was the last to set (history)
          sent,     \* the last value saved per key since the start (history)
          stored,   \* the keys that the closed file has ever held (history)
          posts,    \* how many POSTs were made (bound)
          excuse    \* what has gone wrong with the file so far (history)

taskState == <<task, chats, tasked>>
configVars == <<conf, gw, post, taskState, sent, stored, posts, excuse>>

Names == Keys \union Foreign
GwValues == Values \union {Unset, Garbled, Example, Account}
Lines == Seq([key : Names, val : Values \union {Garbled}])
Confs == [exists : BOOLEAN, ai : BOOLEAN, lines : Lines]
Empty == [exists |-> TRUE, ai |-> FALSE, lines |-> <<>>]
Missing == [Empty EXCEPT !.exists = FALSE]
IdlePost == [pc |-> "idle", body |-> <<>>, text |-> Empty, open |-> FALSE, todo |-> <<>>]
NoTask == [key |-> Unset, todo |-> <<>>]

ConfigTypeOK ==
    /\ conf \in Confs
    /\ gw \in [Keys -> GwValues]
    /\ \A p \in Posters :
          /\ post[p].pc \in {"idle", "read", "set"}
          /\ post[p].text \in Confs /\ post[p].open \in BOOLEAN
          /\ post[p].todo \in Seq(Keys)
    /\ task \in [key : GwValues, todo : Seq(Keys)]
    /\ chats \in 0..MaxChats /\ tasked \subseteq Keys
    /\ sent \in [Keys -> Values \union {Unset}]
    /\ stored \subseteq Keys /\ posts \in 0..MaxPosts
    /\ excuse \subseteq {"overlap", "unopened", "unwritten", "nosection", "mention", "crash"}

\* ConfigManager::LoadString keeps the last line of a key.  What a POST inserts
\* without an [ai] section stands before every section and is not read back.
FileValue(c, k) ==
    LET at == {i \in DOMAIN c.lines : c.lines[i].key = k}
    IN  IF c.ai /\ at # {} THEN c.lines[Max(at)].val ELSE Unset

\* main() falls back on server.conf.example, which has the section, when there
\* is no server.conf.
Loaded(c) == [k \in Keys |-> IF c.exists THEN FileValue(c, k) ELSE Example]

InitConfig ==
    /\ \/ conf \in {Missing, [Empty EXCEPT !.ai = TRUE]}
       \/ \E n \in Names, v \in Values :
             conf = [Empty EXCEPT !.ai = TRUE, !.lines = <<[key |-> n, val |-> v]>>]
    /\ gw = Loaded(conf)
    /\ post = [p \in Posters |-> IdlePost]
    /\ task = NoTask /\ chats = 0 /\ tasked = {}
    /\ sent = [k \in Keys |-> Unset]
    /\ stored = {k \in Keys : FileValue(conf, k) # Unset} /\ posts = 0
    /\ excuse = {}

-----------------------------------------------------------------------------
(* Editing the text *)

\* The lines of the section in which a search for the key's name succeeds.
Hits(lines, k) ==
    {i \in DOMAIN lines : \/ lines[i].key = k
                          \/ lines[i].val = Garbled
                          \/ <<lines[i].key, k>> \in Mentions
                          \/ <<lines[i].val, k>> \in Mentions}

\* Seeded fault: the line is put in although there is one.
EditLineAlways(lines, k, v) == <<[key |-> k, val |-> v]>> \o lines
\* The first hit is overwritten from the name to the end of its line, whatever
\* the line begins with; without a hit the line goes right after the header.
EditLine(lines, k, v) ==
    LET i == Min(Hits(lines, k))
    IN  IF Hits(lines, k) = {} THEN <<[key |-> k, val |-> v]>> \o lines
        ELSE IF lines[i].key = k \/ <<lines[i].key, k>> \in Mentions
             THEN [lines EXCEPT ![i].val = v]
        ELSE [lines EXCEPT ![i].val = Garbled]

EditKey(c, body, k) ==
    IF c.ai /\ k \in DOMAIN body THEN [c EXCEPT !.lines = EditLine(@, k, body[k])] ELSE c

Edited(c, body) ==
    EditKey(EditKey(EditKey(c, body, "api_key"), body, "model"), body, "api_base")

\* Another name or a value in the file, or a value in the body, contains the
\* name of a key that is set.
Mentioned(c, body) ==
    \E k \in DOMAIN body :
        \/ \E i \in DOMAIN c.lines : \/ <<c.lines[i].key, k>> \in Mentions
                                     \/ <<c.lines[i].val, k>> \in Mentions
        \/ \E j \in DOMAIN body : <<body[j], k>> \in Mentions

EditExcuse(c, body) ==
    (IF c.ai THEN {} ELSE {"nosection"}) \union (IF Mentioned(c, body) THEN {"mention"} ELSE {})

-----------------------------------------------------------------------------
(* POST /api/config *)

InProgress == {p \in Posters : post[p].pc # "idle"}

\* The keys of a body in the order of the setters.
OnlyIf(k, body) == IF k \in DOMAIN body THEN <<k>> ELSE <<>>
KeysOf(body) == OnlyIf("api_key", body) \o OnlyIf("model", body) \o OnlyIf("api_base", body)

ReadConf(p) ==
    /\ post[p].pc = "idle" /\ posts < MaxPosts
    /\ posts' = posts + 1
    /\ \E body \in Bodies :
          post' = [post EXCEPT ![p] = [pc |-> "read", body |-> body, open |-> FALSE,
                                       todo |-> KeysOf(body),
                                       text |-> Edited([conf EXCEPT !.exists = TRUE], body)]]
    /\ excuse' = excuse \union EditExcuse(conf, post'[p].body)
                        \union (IF InProgress = {} THEN {} ELSE {"overlap"})
    /\ UNCHANGED <<conf, gw, taskState, sent, stored>>

\* std::ofstream out("server.conf"): empties the file, or fails unnoticed.
Truncate(p) ==
    /\ post[p].pc = "read"
    /\ \/ /\ conf' = Empty
          /\ post' = [post EXCEPT ![p].pc = "set", ![p].open = TRUE]
          /\ UNCHANGED excuse
       \/ /\ post' = [post EXCEPT ![p].pc = "set"]
          /\ excuse' = excuse \union {"unopened"}
          /\ UNCHANGED conf
    /\ UNCHANGED <<gw, taskState, sent, stored, posts>>

Suffixed(k, v) == IF k = "api_base" THEN V1[v] ELSE v

\* The gateway's setters, one after the other.
SetGateway(p) ==
    LET k == Head(post[p].todo)
    IN  /\ post[p].pc = "set" /\ post[p].todo # <<>>
        /\ gw' = [gw EXCEPT ![k] = Suffixed(k, post[p].body[k])]
        /\ tasked' = tasked \ {k}
        /\ post' = [post EXCEPT ![p].todo = Tail(@)]
        /\ UNCHANGED <<conf, task, chats, sent, stored, posts, excuse>>

\* Seeded fault: the text is never written.
CloseDropsText(p) == conf' = conf
WriteBack(p) ==
    conf' = IF post[p].open
            THEN [post[p].text EXCEPT !.lines = Overlay(@, conf.lines)] ELSE conf

\* The write fails, as on a full disk: nothing of the text lands, or its first lines.
WriteFails(p) ==
    \/ UNCHANGED conf
    \/ \E n \in DOMAIN post[p].text.lines :
          conf' = [post[p].text EXCEPT !.lines = Overlay(SubSeq(@, 1, n - 1), conf.lines)]

\* The end of the handler closes the stream; nobody looks whether it wrote.
CloseConf(p) ==
    /\ post[p].pc = "set" /\ post[p].todo = <<>>
    /\ \/ WriteBack(p) /\ UNCHANGED excuse
       \/ /\ post[p].open /\ WriteFails(p)
          /\ excuse' = excuse \union {"unwritten"}
    /\ sent' = [k \in Keys |-> IF k \in DOMAIN post[p].body THEN post[p].body[k] ELSE sent[k]]
    /\ stored' = stored \union {k \in Keys : FileValue(conf', k) # Unset}
    /\ post' = [post EXCEPT ![p] = IdlePost]
    /\ UNCHANGED <<gw, taskState, posts>>

-----------------------------------------------------------------------------
(* A task of /chat/memory, under the lock of the worker pool *)

\* The key of the user's account or, without one, the provider's key in
\* server.conf as it is now, or else the file's api_key.
TaskKey(own) ==
    IF own THEN Account
    ELSE IF FileValue(conf, ProviderKey) # Unset THEN FileValue(conf, ProviderKey)
    ELSE FileValue(conf, "api_key")

\* Without a key the gateway stays as it is.
TaskResolves ==
    /\ task.todo = <<>> /\ chats < MaxChats
    /\ chats' = chats + 1
    /\ \E own \in BOOLEAN :
          task' = IF TaskKey(own) = Unset THEN NoTask
                  ELSE [key |-> TaskKey(own), todo |-> <<"api_key", "model", "api_base">>]
    /\ UNCHANGED <<conf, gw, post, tasked, sent, stored, posts, excuse>>

TaskSets ==
    LET k == Head(task.todo)
    IN  /\ task.todo # <<>>
        /\ gw' = [gw EXCEPT ![k] = IF k = "api_key" THEN task.key ELSE Account]
        /\ tasked' = tasked \union {k}
        /\ task' = [task EXCEPT !.todo = Tail(@)]
        /\ UNCHANGED <<conf, post, chats, sent, stored, posts, excuse>>

-----------------------------------------------------------------------------
(* The program *)

\* The process dies and is started again on what is left of the file.
Restart ==
    /\ gw' = Loaded(conf)
    /\ post' = [p \in Posters |-> IdlePost]
    /\ task' = NoTask /\ tasked' = {}
    /\ sent' = [k \in Keys |-> Unset]
    /\ excuse' = excuse \union (IF InProgress = {} THEN {} ELSE {"crash"})
    /\ UNCHANGED <<conf, stored, posts, chats>>

NextConfig ==
    \/ \E p \in Posters : ReadConf(p) \/ Truncate(p) \/ SetGateway(p) \/ CloseConf(p)
    \/ TaskResolves \/ TaskSets
    \/ Restart

ConfigSpec == InitConfig /\ [][NextConfig]_configVars

-----------------------------------------------------------------------------
\* When no POST is at work, and none has overlapped another, failed to open or
\* to write the file, met a file without [ai] (as after a death half way) or a
\* key's name inside another line's name or value, the file holds for every key
\* what was saved last since the start, and the gateway runs with it (api_base
\* with its suffix) as long as no task has set that key of the gateway since.
SavedIsRunning ==
    InProgress = {} /\ excuse \subseteq {"crash"} =>
        \A k \in Keys : sent[k] # Unset =>
            /\ FileValue(conf, k) = sent[k]
            /\ k \notin tasked => gw[k] = Suffixed(k, sent[k])

\* A key that the file once held is never lost without an overlap, a failed
\* write or a death in the middle of a POST: it is in the file, or in the text
\* that the POST which emptied the file is going to write.  A file that does
\* not open, a missing section and a name inside another line lose none.
StoredKeysSafe ==
    excuse \intersect {"overlap", "unwritten", "crash"} = {} =>
        \A k \in stored :
            \/ FileValue(conf, k) # Unset
            \/ \E p \in Posters : post[p].open /\ FileValue(post[p].text, k) # Unset
=============================================================================
