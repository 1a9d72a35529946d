------------------------------ MODULE Accounts ------------------------------
(***************************************************************************)
(* UserManager (user_manager.cpp) behind the account routes of main.cpp:   *)
(* verification codes, registration, login, tokens and the settings of a   *)
(* user.  Codes and tokens are in maps under one mutex; a user is a file   *)
(* that is read and rewritten without any lock, by handlers on several IO  *)
(* threads.                                                                *)
(***************************************************************************)
EXTENDS Integers, FiniteSets

CONSTANTS
    Threads,     (* IO threads, each with one handler at a time                *)
    Phones,      (* phone numbers                                              *)
    Paths,       (* files of users                                             *)
    PathOf,      (* UserPath: the file of each phone, from its digits only     *)
    Passwords,   (* passwords; HashPassword keeps them apart                   *)
    Codes,       (* verification codes                                         *)
    Tokens,      (* what GenerateToken may give                                *)
    Fields,      (* api_key, model and api_base                                *)
    Values,      (* values of a field                                          *)
    Default,     (* the value a new user has                                   *)
    CodeLife,    (* seconds that a code is good for                            *)
    MaxCodes,    (* bound: no code is asked for once this many are stored       *)
    MaxTime,     (* bound: seconds that pass                                   *)
    MaxCrashes,  (* bound: how often the process dies and restarts             *)
    None         (* nothing                                                    *)

ASSUME AccountsAssumption ==
    /\ PathOf \in [Phones -> Paths]
    /\ Default \in Values
    /\ None \notin Values
    /\ None \notin Phones
    /\ CodeLife \in Nat
    /\ MaxCodes \in Nat
    /\ MaxTime \in Nat
    /\ MaxCrashes \in Nat

VARIABLES
    now,       (* time(nullptr)                                                *)
    codes,     (* sms_codes_ and sms_expiry_, by phone                         *)
    tokens,    (* tokens_: the phone of each token                             *)
    files,     (* the file of each user: its state, and the user in it or, if  *)
               (* it is torn, nothing that can be read                         *)
    call,      (* what each thread is doing                                    *)
    crashes,
    stored,    (* history: codes stored for each phone                         *)
    spent,     (* history: registrations that presented the phone's code       *)
    granted,   (* history: the passwords of those, by file                     *)
    lost       (* history: files that a crash or a full disk may have torn,    *)
               (* and that were not rewritten since                            *)

historyVars == <<stored, spent, granted, lost>>
vars == <<now, codes, tokens, files, call, crashes, historyVars>>

-----------------------------------------------------------------------------
Users == [password: Passwords, settings: [Fields -> Values]]
Changes == [Fields -> Values \cup {None}]

NewUser(pw) == [password |-> pw, settings |-> [f \in Fields |-> Default]]

(* UpdateUser: an empty value leaves the field as it is. *)
Changed(user, changes) ==
    [user EXCEPT !.settings =
        [f \in Fields |-> IF changes[f] = None THEN @[f] ELSE changes[f]]]

Untouched == [f \in Fields |-> None]

Absent == [state |-> "absent", user |-> None]
Torn == [state |-> "torn", user |-> None]
Whole(user) == [state |-> "whole", user |-> user]
Files == {Absent, Torn} \cup [state: {"whole"}, user: Users]

(* What a thread is doing: the operation and its next step, its arguments, *)
(* and the user it is about to save.                                       *)
Idle == [op |-> "none", step |-> "idle", phone |-> None, password |-> None,
         code |-> None, changes |-> Untouched, user |-> None]

Goto(t, step) == call' = [call EXCEPT ![t].step = step]
Ends(t) == call' = [call EXCEPT ![t] = Idle]

FileOf(t) == PathOf[call[t].phone]

-----------------------------------------------------------------------------
Init ==
    /\ now = 0
    /\ codes = [p \in Phones |-> None]
    /\ tokens = [k \in Tokens |-> None]
    /\ files = [f \in Paths |-> Absent]
    /\ call = [t \in Threads |-> Idle]
    /\ crashes = 0
    /\ stored = [p \in Phones |-> 0]
    /\ spent = [p \in Phones |-> 0]
    /\ granted = [f \in Paths |-> {}]
    /\ lost = {}

-----------------------------------------------------------------------------
(* POST /api/sms/send                                                      *)

(* The code goes out, by SMS or to the log, before it is stored ...        *)
SendCode(t, p, code) ==
    /\ call[t].step = "idle"
    /\ stored[p] < MaxCodes
    /\ call' = [call EXCEPT ![t] =
           [Idle EXCEPT !.op = "sms", !.step = "store", !.phone = p, !.code = code]]
    /\ UNCHANGED <<now, codes, tokens, files, crashes, historyVars>>

(* ... in the place of the phone's code of before. *)
StoreCode(t) ==
    LET p == call[t].phone
    IN  /\ call[t].step = "store"
        /\ codes' = [codes EXCEPT ![p] = [code |-> call[t].code, expiry |-> now + CodeLife]]
        /\ stored' = [stored EXCEPT ![p] = @ + 1]
        /\ Ends(t)
        /\ UNCHANGED <<now, tokens, files, crashes, spent, granted, lost>>

-----------------------------------------------------------------------------
(* POST /api/auth/register                                                 *)

Expired(p) == now > codes[p].expiry

(* No code was sent, or another one, or it has expired, which erases it.   *)
RefuseCode(t, p, code) ==
    /\ call[t].step = "idle"
    /\ \/ codes[p] = None /\ UNCHANGED codes
       \/ codes[p] # None /\ Expired(p) /\ codes' = [codes EXCEPT ![p] = None]
       \/ codes[p] # None /\ ~Expired(p) /\ codes[p].code # code /\ UNCHANGED codes
    /\ UNCHANGED <<now, tokens, files, call, crashes, historyVars>>

(* The phone's code is there and has not expired; what the history notes.  *)
Presents(t, p, code, pw) ==
    /\ call[t].step = "idle"
    /\ codes[p] # None /\ ~Expired(p)
    /\ codes[p].code = code
    /\ spent' = [spent EXCEPT ![p] = @ + 1]
    /\ granted' = [granted EXCEPT ![PathOf[p]] = @ \cup {pw}]
    /\ call' = [call EXCEPT ![t] =
           [Idle EXCEPT !.op = "register", !.step = "open", !.phone = p,
                        !.password = pw, !.user = NewUser(pw)]]
    /\ UNCHANGED <<now, tokens, files, crashes, stored, lost>>

(* Seeded fault: the code stays after it was used. *)
AcceptCodeAgain(t, p, code, pw) == Presents(t, p, code, pw) /\ UNCHANGED codes

(* The code is erased and the user is made from nothing, whether the phone *)
(* already has one or not.                                                 *)
AcceptCode(t, p, code, pw) ==
    /\ Presents(t, p, code, pw)
    /\ codes' = [codes EXCEPT ![p] = None]

-----------------------------------------------------------------------------
(* SaveUser, for a registration and for an update                          *)

(* Where a call goes when its user is saved: a registration logs in. *)
AfterSave(t) ==
    IF call[t].op = "register"
    THEN call' = [call EXCEPT ![t].step = "login", ![t].user = None]
    ELSE Ends(t)

(* Seeded fault: a save that fails has truncated the file. *)
SaveFailsLate(t) ==
    /\ call[t].step = "open"
    /\ files' = [files EXCEPT ![FileOf(t)] = Torn]
    /\ Ends(t)
    /\ UNCHANGED <<now, codes, tokens, crashes, historyVars>>

(* The file cannot be opened: the operation fails. *)
SaveFails(t) ==
    /\ call[t].step = "open"
    /\ Ends(t)
    /\ UNCHANGED <<now, codes, tokens, files, crashes, historyVars>>

(* Seeded fault: the user was moved away when the file was opened. *)
OpenFileMoved(t) ==
    /\ call[t].step = "open"
    /\ files' = [files EXCEPT ![FileOf(t)] = Torn]
    /\ call' = [call EXCEPT ![t].step = "write", ![t].user = None]
    /\ UNCHANGED <<now, codes, tokens, crashes, historyVars>>

OpenFile(t) ==
    /\ call[t].step = "open"
    /\ files' = [files EXCEPT ![FileOf(t)] = Torn]
    /\ Goto(t, "write")
    /\ UNCHANGED <<now, codes, tokens, crashes, historyVars>>

(* The whole user is written in one go, over whatever others wrote.        *)
WriteFile(t) ==
    /\ call[t].step = "write"
    /\ files' = [files EXCEPT ![FileOf(t)] = Whole(call[t].user)]
    /\ lost' = lost \ {FileOf(t)}
    /\ AfterSave(t)
    /\ UNCHANGED <<now, codes, tokens, crashes, stored, spent, granted>>

(* The disk is full.  Nobody asks the stream whether it could write, and   *)
(* the operation goes on as if it had.                                     *)
WriteFails(t) ==
    /\ call[t].step = "write"
    /\ \/ UNCHANGED files
       \/ files' = [files EXCEPT ![FileOf(t)] = Torn]
    /\ lost' = lost \cup {FileOf(t)}
    /\ AfterSave(t)
    /\ UNCHANGED <<now, codes, tokens, crashes, stored, spent, granted>>

-----------------------------------------------------------------------------
(* Login: POST /api/auth/login, and the end of a registration              *)

BeginLogin(t, p, pw) ==
    /\ call[t].step = "idle"
    /\ call' = [call EXCEPT ![t] =
           [Idle EXCEPT !.op = "login", !.step = "login", !.phone = p, !.password = pw]]
    /\ UNCHANGED <<now, codes, tokens, files, crashes, historyVars>>

(* Seeded fault: that no user could be read goes unnoticed. *)
PasswordFitsNobody(t) ==
    files[FileOf(t)].state = "whole" => files[FileOf(t)].user.password = call[t].password

(* A missing or torn file is no user. *)
PasswordFits(t) ==
    /\ files[FileOf(t)].state = "whole"
    /\ files[FileOf(t)].user.password = call[t].password

RefuseLogin(t) ==
    /\ call[t].step = "login"
    /\ ~PasswordFits(t)
    /\ Ends(t)
    /\ UNCHANGED <<now, codes, tokens, files, crashes, historyVars>>

AcceptLogin(t) ==
    /\ call[t].step = "login"
    /\ PasswordFits(t)
    /\ Goto(t, "token")
    /\ UNCHANGED <<now, codes, tokens, files, crashes, historyVars>>

(* A token is made from the second and rand(), and may have been given     *)
(* before; it then changes hands.  Tokens do not expire.                   *)
IssueToken(t, k) ==
    /\ call[t].step = "token"
    /\ tokens' = [tokens EXCEPT ![k] = call[t].phone]
    /\ Ends(t)
    /\ UNCHANGED <<now, codes, files, crashes, historyVars>>

-----------------------------------------------------------------------------
(* POST /api/user/config                                                   *)

(* VerifyToken gives the phone. *)
BeginUpdate(t, k, changes) ==
    /\ call[t].step = "idle"
    /\ tokens[k] # None
    /\ call' = [call EXCEPT ![t] =
           [Idle EXCEPT !.op = "update", !.step = "load", !.phone = tokens[k],
                        !.changes = changes]]
    /\ UNCHANGED <<now, codes, tokens, files, crashes, historyVars>>

(* LoadUser fails. *)
RefuseUpdate(t) ==
    /\ call[t].step = "load"
    /\ files[FileOf(t)].state # "whole"
    /\ Ends(t)
    /\ UNCHANGED <<now, codes, tokens, files, crashes, historyVars>>

LoadForUpdate(t) ==
    /\ call[t].step = "load"
    /\ files[FileOf(t)].state = "whole"
    /\ call' = [call EXCEPT ![t].step = "open",
                            ![t].user = Changed(files[FileOf(t)].user, call[t].changes)]
    /\ UNCHANGED <<now, codes, tokens, files, crashes, historyVars>>

-----------------------------------------------------------------------------
Tick ==
    /\ now < MaxTime
    /\ now' = now + 1
    /\ UNCHANGED <<codes, tokens, files, call, crashes, historyVars>>

(* The process dies and is started again: the files stay as they are. *)
Crash ==
    /\ crashes < MaxCrashes
    /\ crashes' = crashes + 1
    /\ codes' = [p \in Phones |-> None]
    /\ tokens' = [k \in Tokens |-> None]
    /\ call' = [t \in Threads |-> Idle]
    /\ lost' = lost \cup {f \in Paths : files[f].state = "torn"}
    /\ UNCHANGED <<now, files, stored, spent, granted>>

Saves(t) == SaveFails(t) \/ OpenFile(t) \/ WriteFile(t) \/ WriteFails(t)
LogsIn(t) == RefuseLogin(t) \/ AcceptLogin(t) \/ \E k \in Tokens : IssueToken(t, k)

Next ==
    \/ \E t \in Threads :
          \/ \E p \in Phones, code \in Codes :
                \/ SendCode(t, p, code)
                \/ RefuseCode(t, p, code)
                \/ \E pw \in Passwords : AcceptCode(t, p, code, pw)
          \/ \E p \in Phones, pw \in Passwords : BeginLogin(t, p, pw)
          \/ \E k \in Tokens, changes \in Changes : BeginUpdate(t, k, changes)
          \/ StoreCode(t)
          \/ Saves(t)
          \/ LogsIn(t)
          \/ RefuseUpdate(t)
          \/ LoadForUpdate(t)
    \/ Tick
    \/ Crash

Spec == Init /\ [][Next]_vars

-----------------------------------------------------------------------------
(* Properties                                                              *)

Ops == {"none", "sms", "register", "login", "update"}
Steps == {"idle", "store", "open", "write", "login", "token", "load"}

Call == [op: Ops, step: Steps, phone: Phones \cup {None},
         password: Passwords \cup {None}, code: Codes \cup {None},
         changes: Changes, user: Users \cup {None}]

(* A call that is under way has a phone, one that is about to store a code *)
(* has it, and one that is saving has a user to save.                      *)
GoodCall(c) ==
    /\ c \in Call
    /\ c.step # "idle" => c.phone \in Phones
    /\ c.step = "store" => c.code \in Codes
    /\ c.step \in {"open", "write"} => c.user \in Users

CallOK == call \in [Threads -> Call] /\ \A t \in Threads : GoodCall(call[t])

MapsOK ==
    /\ now \in Nat
    /\ codes \in [Phones -> [code: Codes, expiry: Nat] \cup {None}]
    /\ tokens \in [Tokens -> Phones \cup {None}]
    /\ files \in [Paths -> Files]
    /\ crashes \in Nat
    /\ stored \in [Phones -> Nat]
    /\ spent \in [Phones -> Nat]
    /\ granted \in [Paths -> SUBSET Passwords]
    /\ lost \subseteq Paths

TypeOK == MapsOK /\ CallOK

(* A code that was stored is good for one registration, however many are   *)
(* made with it at the same time ("Code correct, remove it",               *)
(* user_manager.cpp:87).                                                   *)
CodesSpentOnce ==
    \A p \in Phones :
        spent[p] + (IF codes[p] = None THEN 0 ELSE 1) <= stored[p]

(* A password works only if somebody set it with a code that was sent to   *)
(* a phone of that file, also after an update has written back an older    *)
(* user, and a phone has a token only if a user of its file was made.      *)
AccountsEarned ==
    /\ \A f \in Paths :
          files[f].state = "whole" => files[f].user.password \in granted[f]
    /\ \A k \in Tokens :
          tokens[k] # None => files[PathOf[tokens[k]]].state # "absent"

Writers(f) == {t \in Threads : call[t].step = "write" /\ FileOf(t) = f}

(* A user that cannot be read is being written at the moment, or a crash   *)
(* or a full disk came in between: an update that is refused destroys      *)
(* nobody's account, and the last of several writers leaves a whole one.   *)
TornHasWriter ==
    \A f \in Paths : files[f].state = "torn" => Writers(f) # {} \/ f \in lost
=============================================================================
