--------------------------- MODULE AccountsProofs ---------------------------
(***************************************************************************)
(* Proofs about Accounts, for any number of threads, phones, files, codes, *)
(* tokens and crashes, and any mapping of phones to files.                 *)
(***************************************************************************)
EXTENDS Accounts, TLAPS

-----------------------------------------------------------------------------
(* Types                                                                   *)

(* A thread whose call changes to a good one leaves all calls good.        *)
LEMMA OneCallChanges ==
    ASSUME CallOK, NEW t \in Threads, NEW c, GoodCall(c),
           call' = [call EXCEPT ![t] = c]
    PROVE  CallOK'
<1>1. call' \in [Threads -> Call]
  BY DEF CallOK, GoodCall
<1>2. ASSUME NEW u \in Threads PROVE GoodCall(call'[u])
  <2>1. CASE u = t
    BY <2>1 DEF CallOK
  <2>2. CASE u # t
    BY <2>2 DEF CallOK
  <2> QED
    BY <2>1, <2>2
<1>3. \A u \in Threads : GoodCall(call[u])'
  BY <1>2 DEF GoodCall
<1> QED
  BY <1>1, <1>3 DEF CallOK

LEMMA IdleIsGood == GoodCall(Idle)
<1>1. Untouched \in Changes
  BY DEF Untouched, Changes
<1> QED
  BY <1>1 DEF GoodCall, Idle, Call, Ops, Steps

(* A thread goes from one step of its operation to another.                *)
LEMMA StepIsGood ==
    ASSUME NEW c, GoodCall(c), c.step # "idle", NEW s \in Steps,
           s # "store", s \in {"open", "write"} => c.user \in Users
    PROVE  GoodCall([c EXCEPT !.step = s])
  BY DEF GoodCall, Call

(* New users and changed users are users.                                  *)
LEMMA UsersAreMade ==
    /\ \A pw \in Passwords : NewUser(pw) \in Users
    /\ \A u \in Users, c \in Changes :
          Changed(u, c) \in Users /\ Changed(u, c).password = u.password
<1>1. \A pw \in Passwords : NewUser(pw) \in Users
  BY AccountsAssumption DEF NewUser, Users
<1>2. ASSUME NEW u \in Users, NEW c \in Changes
      PROVE  Changed(u, c) \in Users /\ Changed(u, c).password = u.password
  <2> DEFINE s == [f \in Fields |-> IF c[f] = None THEN u.settings[f] ELSE c[f]]
  <2>1. s \in [Fields -> Values]
    BY DEF Users, Changes
  <2>2. Changed(u, c) = [u EXCEPT !.settings = s]
    BY DEF Changed
  <2> HIDE DEF s
  <2> QED
    BY <2>1, <2>2 DEF Users
<1> QED
  BY <1>1, <1>2

LEMMA FileOfIsPath ==
    ASSUME CallOK, NEW t \in Threads, call[t].step # "idle"
    PROVE  call[t].phone \in Phones /\ FileOf(t) \in Paths
  BY AccountsAssumption DEF CallOK, GoodCall, FileOf

(* What an update loads is a user.                                         *)
LEMMA LoadedUser ==
    ASSUME TypeOK, NEW t \in Threads, call[t].step # "idle",
           files[FileOf(t)].state = "whole"
    PROVE  files[FileOf(t)].user \in Users /\ call[t].changes \in Changes
<1>1. FileOf(t) \in Paths
  BY FileOfIsPath DEF TypeOK
<1>2. files[FileOf(t)] \in Files
  BY <1>1 DEF TypeOK, MapsOK
<1> QED
  BY <1>2 DEF TypeOK, CallOK, GoodCall, Call, Files, Absent, Torn

LEMMA FilesAreMade == \A u \in Users : Whole(u) \in Files
  BY DEF Whole, Files

-----------------------------------------------------------------------------
LEMMA TypeStep ==
    ASSUME TypeOK, [Next]_vars
    PROVE  TypeOK'
<1> USE DEF TypeOK
<1>1. ASSUME NEW t \in Threads, NEW p \in Phones, NEW code \in Codes,
             SendCode(t, p, code)
      PROVE  TypeOK'
  <2> DEFINE c == [Idle EXCEPT !.op = "sms", !.step = "store", !.phone = p, !.code = code]
  <2>1. GoodCall(c)
    BY IdleIsGood DEF GoodCall, Idle, Call, Ops, Steps
  <2>2. call' = [call EXCEPT ![t] = c]
    BY <1>1 DEF SendCode
  <2> HIDE DEF c
  <2>3. CallOK'
    BY <2>1, <2>2, OneCallChanges
  <2> QED
    BY <1>1, <2>3 DEF SendCode, MapsOK, historyVars
<1>2. ASSUME NEW t \in Threads, StoreCode(t)
      PROVE  TypeOK'
  <2>1. CallOK'
    BY <1>2, IdleIsGood, OneCallChanges DEF StoreCode, Ends
  <2>2. call[t].phone \in Phones /\ call[t].code \in Codes
    BY <1>2 DEF StoreCode, CallOK, GoodCall, Call
  <2>3. [code |-> call[t].code, expiry |-> now + CodeLife] \in [code: Codes, expiry: Nat]
    BY <2>2, AccountsAssumption DEF MapsOK
  <2> QED
    BY <1>2, <2>1, <2>2, <2>3 DEF StoreCode, MapsOK
<1>3. ASSUME NEW t \in Threads, NEW p \in Phones, NEW code \in Codes,
             RefuseCode(t, p, code)
      PROVE  TypeOK'
  <2>1. CallOK'
    BY <1>3 DEF RefuseCode, CallOK, GoodCall
  <2> QED
    BY <1>3, <2>1 DEF RefuseCode, MapsOK, historyVars
<1>4. ASSUME NEW t \in Threads, NEW p \in Phones, NEW code \in Codes,
             NEW pw \in Passwords, AcceptCode(t, p, code, pw)
      PROVE  TypeOK'
  <2> DEFINE c == [Idle EXCEPT !.op = "register", !.step = "open", !.phone = p,
                               !.password = pw, !.user = NewUser(pw)]
  <2>1. GoodCall(c)
    BY IdleIsGood, UsersAreMade DEF GoodCall, Idle, Call, Ops, Steps
  <2>2. call' = [call EXCEPT ![t] = c]
    BY <1>4 DEF AcceptCode, Presents
  <2> HIDE DEF c
  <2>3. CallOK'
    BY <2>1, <2>2, OneCallChanges
  <2> QED
    <3>1. PathOf[p] \in Paths
      BY AccountsAssumption
    <3>2. granted' \in [Paths -> SUBSET Passwords]
      BY <1>4, <3>1 DEF Presents, AcceptCode, MapsOK
    <3>3. spent' \in [Phones -> Nat]
      BY <1>4 DEF Presents, AcceptCode, MapsOK
    <3>4. codes' \in [Phones -> [code: Codes, expiry: Nat] \cup {None}]
      BY <1>4 DEF AcceptCode, MapsOK
    <3> QED
      BY <1>4, <2>3, <3>2, <3>3, <3>4 DEF AcceptCode, Presents, MapsOK
<1>5. ASSUME NEW t \in Threads, Saves(t)
      PROVE  TypeOK'
  <2>1. call[t].step \in {"open", "write"} /\ FileOf(t) \in Paths /\ call[t].user \in Users
    BY <1>5, FileOfIsPath DEF Saves, SaveFails, OpenFile, WriteFile, WriteFails, CallOK, GoodCall
  <2>2. CASE SaveFails(t)
    <3>1. CallOK'
      BY <2>2, IdleIsGood, OneCallChanges DEF SaveFails, Ends
    <3> QED
      BY <2>2, <3>1 DEF SaveFails, MapsOK, historyVars
  <2>3. CASE OpenFile(t)
    <3> DEFINE c == [call[t] EXCEPT !.step = "write"]
    <3>1. GoodCall(c)
      BY <2>1, StepIsGood DEF CallOK, Steps
    <3>2. call' = [call EXCEPT ![t] = c]
      BY <2>3 DEF OpenFile, Goto
    <3> HIDE DEF c
    <3>3. CallOK'
      BY <3>1, <3>2, OneCallChanges
    <3> QED
      BY <2>3, <3>3 DEF OpenFile, MapsOK, historyVars, Files
  <2>4. ASSUME AfterSave(t) PROVE CallOK'
    <3>1. ASSUME call[t].op = "register" PROVE CallOK'
      <4> DEFINE c == [call[t] EXCEPT !.step = "login", !.user = None]
      <4>1. GoodCall(c)
        BY <2>1 DEF CallOK, GoodCall, Call, Steps
      <4>2. call' = [call EXCEPT ![t] = c]
        BY <2>4, <3>1 DEF AfterSave
      <4> HIDE DEF c
      <4> QED
        BY <4>1, <4>2, OneCallChanges
    <3>2. ASSUME call[t].op # "register" PROVE CallOK'
      BY <2>4, <3>2, IdleIsGood, OneCallChanges DEF AfterSave, Ends
    <3> QED
      BY <3>1, <3>2
  <2>5. CASE WriteFile(t)
    <3>1. CallOK'
      BY <2>4, <2>5 DEF WriteFile
    <3> QED
      BY <2>1, <2>5, <3>1, FilesAreMade DEF WriteFile, MapsOK
  <2>6. CASE WriteFails(t)
    <3>1. CallOK'
      BY <2>4, <2>6 DEF WriteFails
    <3> QED
      BY <2>1, <2>6, <3>1 DEF WriteFails, MapsOK, Files
  <2> QED
    BY <1>5, <2>2, <2>3, <2>5, <2>6 DEF Saves
<1>6. ASSUME NEW t \in Threads, LogsIn(t)
      PROVE  TypeOK'
  <2>1. CASE RefuseLogin(t)
    <3>1. CallOK'
      BY <2>1, IdleIsGood, OneCallChanges DEF RefuseLogin, Ends
    <3> QED
      BY <2>1, <3>1 DEF RefuseLogin, MapsOK, historyVars
  <2>2. CASE AcceptLogin(t)
    <3> DEFINE c == [call[t] EXCEPT !.step = "token"]
    <3>1. GoodCall(c)
      BY <2>2, StepIsGood DEF AcceptLogin, CallOK, Steps
    <3>2. call' = [call EXCEPT ![t] = c]
      BY <2>2 DEF AcceptLogin, Goto
    <3> HIDE DEF c
    <3>3. CallOK'
      BY <3>1, <3>2, OneCallChanges
    <3> QED
      BY <2>2, <3>3 DEF AcceptLogin, MapsOK, historyVars
  <2>3. ASSUME NEW k \in Tokens, IssueToken(t, k)
        PROVE  TypeOK'
    <3>1. CallOK'
      BY <2>3, IdleIsGood, OneCallChanges DEF IssueToken, Ends
    <3>2. call[t].phone \in Phones
      BY <2>3, FileOfIsPath DEF IssueToken
    <3> QED
      BY <2>3, <3>1, <3>2 DEF IssueToken, MapsOK, historyVars
  <2> QED
    BY <1>6, <2>1, <2>2, <2>3 DEF LogsIn
<1>7. ASSUME NEW t \in Threads, NEW k \in Tokens, NEW changes \in Changes,
             BeginUpdate(t, k, changes)
      PROVE  TypeOK'
  <2> DEFINE c == [Idle EXCEPT !.op = "update", !.step = "load", !.phone = tokens[k],
                               !.changes = changes]
  <2>1. tokens[k] \in Phones
    BY <1>7 DEF BeginUpdate, MapsOK
  <2>2. GoodCall(c)
    BY <2>1, IdleIsGood DEF GoodCall, Idle, Call, Ops, Steps
  <2>3. call' = [call EXCEPT ![t] = c]
    BY <1>7 DEF BeginUpdate
  <2> HIDE DEF c
  <2>4. CallOK'
    BY <2>2, <2>3, OneCallChanges
  <2> QED
    BY <1>7, <2>4 DEF BeginUpdate, MapsOK, historyVars
<1>8. ASSUME NEW t \in Threads, RefuseUpdate(t)
      PROVE  TypeOK'
  <2>1. CallOK'
    BY <1>8, IdleIsGood, OneCallChanges DEF RefuseUpdate, Ends
  <2> QED
    BY <1>8, <2>1 DEF RefuseUpdate, MapsOK, historyVars
<1>9. ASSUME NEW t \in Threads, LoadForUpdate(t)
      PROVE  TypeOK'
  <2> DEFINE u == Changed(files[FileOf(t)].user, call[t].changes)
             c == [call[t] EXCEPT !.step = "open", !.user = u]
  <2>1. u \in Users
    BY <1>9, LoadedUser, UsersAreMade DEF LoadForUpdate
  <2> HIDE DEF u
  <2>2. GoodCall(c)
    BY <1>9, <2>1 DEF LoadForUpdate, CallOK, GoodCall, Call, Steps
  <2>3. call' = [call EXCEPT ![t] = c]
    BY <1>9 DEF LoadForUpdate, u
  <2> HIDE DEF c
  <2>4. CallOK'
    BY <2>2, <2>3, OneCallChanges
  <2> QED
    BY <1>9, <2>4 DEF LoadForUpdate, MapsOK, historyVars
<1>10. CASE Tick
  <2>1. CallOK'
    BY <1>10 DEF Tick, CallOK, GoodCall
  <2> QED
    BY <1>10, <2>1 DEF Tick, MapsOK, historyVars
<1>11. CASE Crash
  <2>1. call' = [t \in Threads |-> Idle]
    BY <1>11 DEF Crash
  <2>2. call' \in [Threads -> Call] /\ \A t \in Threads : call'[t] = Idle
    BY <2>1, IdleIsGood DEF GoodCall
  <2>3. CallOK'
    BY <2>2, IdleIsGood DEF CallOK, GoodCall
  <2> QED
    BY <1>11, <2>3 DEF Crash, MapsOK
<1>12. CASE UNCHANGED vars
  <2>1. CallOK'
    BY <1>12 DEF vars, CallOK, GoodCall
  <2> QED
    BY <1>12, <2>1 DEF vars, historyVars, MapsOK
<1>13. ASSUME NEW t \in Threads, NEW p \in Phones, NEW pw \in Passwords,
              BeginLogin(t, p, pw)
       PROVE  TypeOK'
  <2> DEFINE c == [Idle EXCEPT !.op = "login", !.step = "login", !.phone = p,
                               !.password = pw]
  <2>1. GoodCall(c)
    BY IdleIsGood DEF GoodCall, Idle, Call, Ops, Steps
  <2>2. call' = [call EXCEPT ![t] = c]
    BY <1>13 DEF BeginLogin
  <2> HIDE DEF c
  <2>3. CallOK'
    BY <2>1, <2>2, OneCallChanges
  <2> QED
    BY <1>13, <2>3 DEF BeginLogin, MapsOK, historyVars
<1> HIDE DEF TypeOK
<1> QED
  BY <1>1, <1>2, <1>3, <1>4, <1>5, <1>6, <1>7, <1>8, <1>9, <1>10, <1>11,
     <1>12, <1>13 DEF Next

(* Every variable keeps its type; a call that saves has a user to save.    *)
THEOREM TypeCorrect == Spec => []TypeOK
<1>1. Init => TypeOK
  <2> SUFFICES ASSUME Init PROVE TypeOK
    OBVIOUS
  <2>1. CallOK
    BY IdleIsGood DEF Init, CallOK, GoodCall
  <2> QED
    BY <2>1, AccountsAssumption DEF Init, TypeOK, MapsOK, Files
<1> QED
  BY <1>1, TypeStep, PTL DEF Spec

-----------------------------------------------------------------------------
(* Codes                                                                   *)

(* A code that was stored is good for one registration, however many       *)
(* handlers are given it at the same time.                                 *)
THEOREM CodesAreSpentOnce == Spec => []CodesSpentOnce
<1>1. Init => CodesSpentOnce
  BY DEF Init, CodesSpentOnce
<1>2. TypeOK /\ CodesSpentOnce /\ [Next]_vars => CodesSpentOnce'
  <2> SUFFICES ASSUME TypeOK, CodesSpentOnce, [Next]_vars
               PROVE  CodesSpentOnce'
    OBVIOUS
  <2> USE DEF TypeOK, MapsOK
  <2>1. ASSUME NEW t \in Threads, StoreCode(t)
        PROVE  CodesSpentOnce'
    <3>1. \A p \in Phones : spent[p] <= stored[p]
      BY DEF CodesSpentOnce
    <3> QED
      BY <2>1, <3>1 DEF StoreCode, CodesSpentOnce
  <2>2. ASSUME NEW t \in Threads, NEW p \in Phones, NEW code \in Codes,
               NEW pw \in Passwords, AcceptCode(t, p, code, pw)
        PROVE  CodesSpentOnce'
    BY <2>2 DEF AcceptCode, Presents, CodesSpentOnce
  <2>3. ASSUME NEW t \in Threads, NEW p \in Phones, NEW code \in Codes,
               RefuseCode(t, p, code)
        PROVE  CodesSpentOnce'
    BY <2>3 DEF RefuseCode, historyVars, CodesSpentOnce
  <2>4. CASE Crash
    BY <2>4 DEF Crash, CodesSpentOnce
  <2>5. ASSUME UNCHANGED <<codes, stored, spent>>
        PROVE  CodesSpentOnce'
    BY <2>5 DEF CodesSpentOnce
  <2> HIDE DEF TypeOK, MapsOK
  <2> QED
    BY <2>1, <2>2, <2>3, <2>4, <2>5
    DEF Next, vars, historyVars, SendCode, BeginLogin, BeginUpdate, Saves, SaveFails,
        OpenFile, WriteFile, WriteFails, LogsIn, RefuseLogin, AcceptLogin, IssueToken, RefuseUpdate,
        LoadForUpdate, Tick
<1> QED
  BY <1>1, <1>2, TypeCorrect, PTL DEF Spec

-----------------------------------------------------------------------------
(* Files                                                                   *)

(* Whoever is about to make a file readable has not written it yet, and    *)
(* what tears a file is a thread that goes on to write it, or dies.        *)
THEOREM TornFilesAreWritten == Spec => []TornHasWriter
<1>1. Init => TornHasWriter
  BY DEF Init, TornHasWriter, Absent
<1>2. TypeOK /\ TornHasWriter /\ [Next]_vars => TornHasWriter'
  <2> SUFFICES ASSUME TypeOK, TornHasWriter, [Next]_vars, NEW f \in Paths,
                      files'[f].state = "torn"
               PROVE  Writers(f)' # {} \/ f \in lost'
    BY DEF TornHasWriter
  <2>0. call \in [Threads -> Call] /\ files \in [Paths -> Files]
    BY DEF TypeOK, MapsOK, CallOK
  <2>1. files[f].state = "torn" => (\E t \in Threads : call[t].step = "write" /\ FileOf(t) = f)
                                   \/ f \in lost
    BY DEF TornHasWriter, Writers
  <2>2. ASSUME NEW t \in Threads, call'[t].step = "write", FileOf(t)' = f
        PROVE  Writers(f)' # {}
    BY <2>2 DEF Writers
  <2>3. ASSUME NEW t \in Threads, OpenFile(t)
        PROVE  Writers(f)' # {} \/ f \in lost'
    <3>1. call'[t].step = "write" /\ FileOf(t)' = FileOf(t)
      BY <2>0, <2>3 DEF OpenFile, Goto, FileOf, Call
    <3>2. CASE FileOf(t) = f
      BY <2>2, <3>1, <3>2
    <3>3. CASE FileOf(t) # f
      <4>1. files'[f] = files[f] /\ lost' = lost
        BY <2>0, <2>3, <3>3 DEF OpenFile, historyVars
      <4>2. ASSUME NEW u \in Threads, call[u].step = "write", FileOf(u) = f
            PROVE  Writers(f)' # {}
        <5>1. call'[u] = call[u]
          BY <2>0, <2>3, <4>2 DEF OpenFile, Goto
        <5> QED
          BY <2>2, <4>2, <5>1 DEF FileOf
      <4> QED
        BY <2>1, <4>1, <4>2
    <3> QED
      BY <3>2, <3>3
  <2>4. ASSUME NEW t \in Threads, WriteFile(t)
        PROVE  Writers(f)' # {} \/ f \in lost'
    <3>1. FileOf(t) # f
      <4>1. SUFFICES ASSUME FileOf(t) = f PROVE FALSE
        OBVIOUS
      <4>2. files'[f] = Whole(call[t].user)
        BY <2>0, <2>4, <4>1 DEF WriteFile
      <4> QED
        BY <4>2 DEF Whole
    <3>2. files'[f] = files[f] /\ (f \in lost => f \in lost')
      BY <2>0, <2>4, <3>1 DEF WriteFile
    <3>3. ASSUME NEW u \in Threads, call[u].step = "write", FileOf(u) = f
          PROVE  Writers(f)' # {}
      <4>1. u # t
        BY <3>1, <3>3
      <4>2. call'[u] = call[u]
        BY <2>0, <2>4, <4>1 DEF WriteFile, AfterSave, Ends
      <4> QED
        BY <2>2, <3>3, <4>2 DEF FileOf
    <3> QED
      BY <2>1, <3>2, <3>3
  <2>10. ASSUME NEW t \in Threads, WriteFails(t)
         PROVE  Writers(f)' # {} \/ f \in lost'
    <3>1. CASE FileOf(t) = f
      BY <2>10, <3>1 DEF WriteFails
    <3>2. CASE FileOf(t) # f
      <4>1. files'[f] = files[f] /\ (f \in lost => f \in lost')
        BY <2>0, <2>10, <3>2 DEF WriteFails
      <4>2. ASSUME NEW u \in Threads, call[u].step = "write", FileOf(u) = f
            PROVE  Writers(f)' # {}
        <5>1. u # t
          BY <3>2, <4>2
        <5>2. call'[u] = call[u]
          BY <2>0, <2>10, <5>1 DEF WriteFails, AfterSave, Ends
        <5> QED
          BY <2>2, <4>2, <5>2 DEF FileOf
      <4> QED
        BY <2>1, <4>1, <4>2
    <3> QED
      BY <3>1, <3>2
  <2>5. CASE Crash
    BY <2>0, <2>5 DEF Crash
  <2>6. ASSUME UNCHANGED <<files, lost>>,
               \A u \in Threads : call[u].step = "write" => call'[u] = call[u]
        PROVE  Writers(f)' # {} \/ f \in lost'
    BY <2>1, <2>2, <2>6 DEF FileOf
  <2>7. ASSUME NEW t \in Threads, UNCHANGED <<files, lost>>, call[t].step # "write",
               \E c : call' = [call EXCEPT ![t] = c]
        PROVE  Writers(f)' # {} \/ f \in lost'
    <3>1. \A u \in Threads : call[u].step = "write" => call'[u] = call[u]
      BY <2>0, <2>7
    <3> QED
      BY <2>6, <2>7, <3>1
  <2>8. ASSUME NEW t \in Threads,
               \/ \E p \in Phones, code \in Codes : SendCode(t, p, code)
               \/ \E p \in Phones, code \in Codes, pw \in Passwords : AcceptCode(t, p, code, pw)
               \/ \E p \in Phones, pw \in Passwords : BeginLogin(t, p, pw)
               \/ \E k \in Tokens, changes \in Changes : BeginUpdate(t, k, changes)
               \/ StoreCode(t) \/ SaveFails(t) \/ RefuseLogin(t) \/ AcceptLogin(t)
               \/ \E k \in Tokens : IssueToken(t, k)
               \/ RefuseUpdate(t) \/ LoadForUpdate(t)
        PROVE  Writers(f)' # {} \/ f \in lost'
    <3>1. /\ UNCHANGED <<files, lost>>
          /\ call[t].step # "write"
          /\ \E c : call' = [call EXCEPT ![t] = c]
      BY <2>8, Zenon
      DEF SendCode, AcceptCode, Presents, BeginLogin, BeginUpdate, StoreCode, SaveFails,
          RefuseLogin, AcceptLogin, IssueToken, RefuseUpdate, LoadForUpdate, Goto, Ends,
          historyVars
    <3> QED
      BY <2>7, <3>1
  <2>9. ASSUME UNCHANGED <<files, lost, call>>
        PROVE  Writers(f)' # {} \/ f \in lost'
    BY <2>6, <2>9
  <2> QED
    BY <2>3, <2>4, <2>5, <2>8, <2>9, <2>10
    DEF Next, vars, historyVars, RefuseCode, Tick, Saves, LogsIn
<1> QED
  BY <1>1, <1>2, TypeCorrect, PTL DEF Spec

-----------------------------------------------------------------------------
(* Passwords and tokens                                                    *)

(* A user on its way into a file has a password that was granted for it,   *)
(* and a login that was accepted has found a file.                         *)
CallEarned(t) ==
    /\ call[t].step \in {"open", "write"} => call[t].user.password \in granted[FileOf(t)]
    /\ call[t].step = "token" => files[FileOf(t)].state # "absent"

EarnedInv == AccountsEarned /\ \A t \in Threads : CallEarned(t)

(* Grants are for ever, and so are files; what is whole after a step was   *)
(* so before, or has just been written.                                    *)
LEMMA FilesOnlyGrow ==
    ASSUME TypeOK, [Next]_vars, NEW f \in Paths
    PROVE  /\ granted[f] \subseteq granted'[f]
           /\ files[f].state # "absent" => files'[f].state # "absent"
           /\ files'[f].state = "whole" =>
                 \/ files'[f] = files[f]
                 \/ \E t \in Threads : /\ call[t].step = "write" /\ FileOf(t) = f
                                        /\ files'[f] = Whole(call[t].user)
<1> DEFINE Goal ==
      /\ granted[f] \subseteq granted'[f]
      /\ files[f].state # "absent" => files'[f].state # "absent"
      /\ files'[f].state = "whole" =>
            \/ files'[f] = files[f]
            \/ \E t \in Threads : /\ call[t].step = "write" /\ FileOf(t) = f
                                   /\ files'[f] = Whole(call[t].user)
<1>0. files \in [Paths -> Files] /\ granted \in [Paths -> SUBSET Passwords]
  BY DEF TypeOK, MapsOK
<1>1. ASSUME UNCHANGED <<files, granted>> PROVE Goal
  BY <1>1
<1>2. ASSUME NEW t \in Threads, NEW p \in Phones, NEW code \in Codes,
             NEW pw \in Passwords, AcceptCode(t, p, code, pw)
      PROVE  Goal
  BY <1>0, <1>2 DEF AcceptCode, Presents
<1>3. ASSUME NEW t \in Threads, OpenFile(t) PROVE Goal
  BY <1>0, <1>3 DEF OpenFile, Torn, historyVars
<1>4. ASSUME NEW t \in Threads, WriteFile(t) PROVE Goal
  <2>1. CASE FileOf(t) = f
    BY <1>0, <1>4, <2>1 DEF WriteFile, Whole
  <2>2. CASE FileOf(t) # f
    BY <1>0, <1>4, <2>2 DEF WriteFile
  <2> QED
    BY <2>1, <2>2
<1>5. ASSUME NEW t \in Threads, WriteFails(t) PROVE Goal
  BY <1>0, <1>5 DEF WriteFails, Torn
<1> HIDE DEF Goal
<1>6. Goal
  BY <1>1, <1>2, <1>3, <1>4, <1>5
  DEF Next, vars, historyVars, SendCode, StoreCode, RefuseCode, BeginLogin, BeginUpdate,
      Saves, SaveFails, LogsIn, RefuseLogin, AcceptLogin, IssueToken, RefuseUpdate,
      LoadForUpdate, Tick, Crash
<1> QED
  BY <1>6 DEF Goal

(* A call that does not move, or moves on with the same user and phone,    *)
(* stays earned.                                                           *)
LEMMA CallStaysEarned ==
    ASSUME TypeOK, [Next]_vars, NEW t \in Threads, CallEarned(t),
           call'[t].phone = call[t].phone, call'[t].user = call[t].user,
           call[t].step # "idle",
           \/ call'[t].step = call[t].step
           \/ call[t].step \in {"open", "write"} /\ call'[t].step \in {"open", "write"}
    PROVE  CallEarned(t)'
<1>1. FileOf(t)' = FileOf(t) /\ FileOf(t) \in Paths
  BY FileOfIsPath DEF TypeOK, FileOf
<1>2. /\ granted[FileOf(t)] \subseteq granted'[FileOf(t)]
      /\ files[FileOf(t)].state # "absent" => files'[FileOf(t)].state # "absent"
  BY <1>1, FilesOnlyGrow
<1> QED
  BY <1>1, <1>2 DEF CallEarned

LEMMA IdleIsEarned ==
    ASSUME NEW t \in Threads, call'[t].step \notin {"open", "write", "token"}
    PROVE  CallEarned(t)'
  BY DEF CallEarned

LEMMA CallsStayEarned ==
    ASSUME TypeOK, EarnedInv, [Next]_vars, NEW t \in Threads
    PROVE  CallEarned(t)'
<1>0. call \in [Threads -> Call] /\ files \in [Paths -> Files]
      /\ granted \in [Paths -> SUBSET Passwords] /\ CallEarned(t)
  BY DEF TypeOK, MapsOK, CallOK, EarnedInv
<1>1. ASSUME call'[t] = call[t] PROVE CallEarned(t)'
  <2>1. CASE call[t].step = "idle"
    BY <1>1, <2>1, IdleIsEarned
  <2>2. CASE call[t].step # "idle"
    BY <1>0, <1>1, <2>2, CallStaysEarned
  <2> QED
    BY <2>1, <2>2
<1>2. ASSUME NEW p \in Phones, NEW code \in Codes, NEW pw \in Passwords,
             AcceptCode(t, p, code, pw)
      PROVE  CallEarned(t)'
  <2>1. call'[t] = [Idle EXCEPT !.op = "register", !.step = "open", !.phone = p,
                                !.password = pw, !.user = NewUser(pw)]
    BY <1>0, <1>2 DEF AcceptCode, Presents
  <2>2. /\ call'[t].step = "open" /\ call'[t].phone = p /\ call'[t].user = NewUser(pw)
    BY <2>1 DEF Idle
  <2>3. PathOf[p] \in Paths
    BY AccountsAssumption
  <2>4. pw \in granted'[PathOf[p]]
    BY <1>0, <1>2, <2>3 DEF AcceptCode, Presents
  <2> QED
    BY <2>2, <2>4 DEF CallEarned, FileOf, NewUser
<1>3. ASSUME OpenFile(t) PROVE CallEarned(t)'
  <2>1. /\ call[t].step = "open" /\ call'[t].step = "write"
        /\ call'[t].phone = call[t].phone /\ call'[t].user = call[t].user
    BY <1>0, <1>3 DEF OpenFile, Goto, Call
  <2> QED
    BY <1>0, <2>1, CallStaysEarned
<1>4. ASSUME AcceptLogin(t) PROVE CallEarned(t)'
  <2>1. /\ call'[t].step = "token" /\ call'[t].phone = call[t].phone
    BY <1>0, <1>4 DEF AcceptLogin, Goto, Call
  <2> QED
    BY <1>4, <2>1 DEF AcceptLogin, PasswordFits, CallEarned, FileOf
<1>5. ASSUME LoadForUpdate(t) PROVE CallEarned(t)'
  <2> DEFINE old == files[FileOf(t)].user
             u == Changed(old, call[t].changes)
  <2>1. FileOf(t) \in Paths
    BY <1>5, FileOfIsPath DEF LoadForUpdate, TypeOK
  <2>2. u.password = old.password
    BY <1>5, LoadedUser, UsersAreMade DEF LoadForUpdate
  <2>3. old.password \in granted[FileOf(t)]
    BY <1>5, <2>1 DEF LoadForUpdate, EarnedInv, AccountsEarned
  <2>4. call' = [call EXCEPT ![t].step = "open", ![t].user = u] /\ granted' = granted
    BY <1>5 DEF LoadForUpdate, historyVars
  <2> HIDE DEF u, old
  <2>5. call'[t].step = "open" /\ call'[t].phone = call[t].phone /\ call'[t].user = u
    BY <1>0, <2>4 DEF Call
  <2> QED
    BY <2>2, <2>3, <2>4, <2>5 DEF CallEarned, FileOf
<1>6. ASSUME call'[t].step \notin {"open", "write", "token"} PROVE CallEarned(t)'
  BY <1>6, IdleIsEarned
<1>7. ASSUME \/ \E p \in Phones, code \in Codes : SendCode(t, p, code)
             \/ \E p \in Phones, pw \in Passwords : BeginLogin(t, p, pw)
             \/ \E k \in Tokens, changes \in Changes : BeginUpdate(t, k, changes)
      PROVE  call'[t].step \notin {"open", "write", "token"}
  BY <1>0, <1>7 DEF SendCode, BeginLogin, BeginUpdate, Idle
<1>8. ASSUME \/ StoreCode(t) \/ SaveFails(t) \/ RefuseLogin(t) \/ RefuseUpdate(t)
             \/ \E k \in Tokens : IssueToken(t, k)
      PROVE  call'[t].step \notin {"open", "write", "token"}
  BY <1>0, <1>8 DEF StoreCode, SaveFails, RefuseLogin, RefuseUpdate, IssueToken, Ends, Idle
<1>9. ASSUME WriteFile(t) \/ WriteFails(t)
      PROVE  call'[t].step \notin {"open", "write", "token"}
  <2>1. AfterSave(t)
    BY <1>9 DEF WriteFile, WriteFails
  <2> QED
    BY <1>0, <2>1 DEF AfterSave, Ends, Idle, Call
<1>10. ASSUME NEW u \in Threads, u # t, \E c : call' = [call EXCEPT ![u] = c]
       PROVE  call'[t] = call[t]
  BY <1>0, <1>10
<1>11. ASSUME Crash PROVE call'[t].step \notin {"open", "write", "token"}
  BY <1>11 DEF Crash, Idle
<1>12. ASSUME UNCHANGED call PROVE call'[t] = call[t]
  BY <1>12
<1>13. ASSUME NEW u \in Threads,
              \/ \E p \in Phones, code \in Codes : SendCode(u, p, code)
              \/ \E p \in Phones, code \in Codes, pw \in Passwords : AcceptCode(u, p, code, pw)
              \/ \E p \in Phones, pw \in Passwords : BeginLogin(u, p, pw)
              \/ \E k \in Tokens, changes \in Changes : BeginUpdate(u, k, changes)
              \/ StoreCode(u) \/ Saves(u) \/ LogsIn(u) \/ RefuseUpdate(u) \/ LoadForUpdate(u)
       PROVE  CallEarned(t)'
  <2>1. CASE u # t
    <3>1. \E c : call' = [call EXCEPT ![u] = c]
      BY <1>13, Zenon
      DEF SendCode, AcceptCode, Presents, BeginLogin, BeginUpdate, StoreCode, Saves,
          SaveFails, OpenFile, WriteFile, WriteFails, AfterSave, LogsIn, RefuseLogin,
          AcceptLogin, IssueToken, RefuseUpdate, LoadForUpdate, Goto, Ends
    <3> QED
      BY <1>1, <1>10, <2>1, <3>1
  <2>2. CASE u = t
    BY <1>2, <1>3, <1>4, <1>5, <1>6, <1>7, <1>8, <1>9, <1>13, <2>2 DEF Saves, LogsIn
  <2> QED
    BY <2>1, <2>2
<1> QED
  BY <1>1, <1>6, <1>11, <1>12, <1>13 DEF Next, vars, RefuseCode, Tick

(* A password works only if it was set with a code that was sent, and a    *)
(* token only if a user of its file was made, whatever updates write back. *)
THEOREM PasswordsAreEarned == Spec => []AccountsEarned
<1>1. Init => EarnedInv
  BY DEF Init, EarnedInv, AccountsEarned, CallEarned, Absent, Idle
<1>2. TypeOK /\ EarnedInv /\ [Next]_vars => EarnedInv'
  <2> SUFFICES ASSUME TypeOK, EarnedInv, [Next]_vars
               PROVE  AccountsEarned'
    BY CallsStayEarned DEF EarnedInv
  <2>1. ASSUME NEW f \in Paths, files'[f].state = "whole"
        PROVE  files'[f].user.password \in granted'[f]
    <3>1. granted[f] \subseteq granted'[f]
      BY FilesOnlyGrow
    <3>2. CASE files'[f] = files[f]
      BY <2>1, <3>1, <3>2 DEF EarnedInv, AccountsEarned
    <3>3. CASE \E t \in Threads : /\ call[t].step = "write" /\ FileOf(t) = f
                                  /\ files'[f] = Whole(call[t].user)
      BY <3>1, <3>3 DEF EarnedInv, CallEarned, Whole
    <3> QED
      BY <2>1, <3>2, <3>3, FilesOnlyGrow
  <2>2. ASSUME NEW k \in Tokens, tokens'[k] # None
        PROVE  files'[PathOf[tokens'[k]]].state # "absent"
    <3>1. tokens \in [Tokens -> Phones \cup {None}]
      BY DEF TypeOK, MapsOK
    <3>2. CASE tokens'[k] = tokens[k]
      <4>1. PathOf[tokens[k]] \in Paths
        BY <2>2, <3>1, <3>2, AccountsAssumption
      <4> QED
        BY <2>2, <3>2, <4>1, FilesOnlyGrow DEF EarnedInv, AccountsEarned
    <3>3. ASSUME NEW t \in Threads, IssueToken(t, k), tokens'[k] = call[t].phone
          PROVE  files'[PathOf[tokens'[k]]].state # "absent"
      <4>1. files[FileOf(t)].state # "absent" /\ FileOf(t) \in Paths
        BY <3>3, FileOfIsPath DEF EarnedInv, CallEarned, IssueToken, TypeOK
      <4> QED
        BY <3>3, <4>1, FilesOnlyGrow DEF FileOf
    <3>4. ASSUME NEW t \in Threads, NEW j \in Tokens, IssueToken(t, j)
          PROVE  files'[PathOf[tokens'[k]]].state # "absent"
      <4>1. CASE j = k
        BY <3>1, <3>3, <3>4, <4>1 DEF IssueToken
      <4>2. CASE j # k
        BY <3>1, <3>2, <3>4, <4>2 DEF IssueToken
      <4> QED
        BY <4>1, <4>2
    <3>5. CASE UNCHANGED tokens
      BY <3>2, <3>5
    <3>6. CASE Crash
      BY <2>2, <3>6 DEF Crash
    <3>7. ASSUME NEW t \in Threads,
                 Saves(t) \/ RefuseLogin(t) \/ AcceptLogin(t) \/ StoreCode(t)
                 \/ RefuseUpdate(t) \/ LoadForUpdate(t)
          PROVE  UNCHANGED tokens
      BY <3>7
      DEF Saves, SaveFails, OpenFile, WriteFile, WriteFails, RefuseLogin, AcceptLogin,
          StoreCode, RefuseUpdate, LoadForUpdate
    <3>8. ASSUME NEW t \in Threads,
                 \/ \E p \in Phones, code \in Codes :
                       \/ SendCode(t, p, code)
                       \/ RefuseCode(t, p, code)
                       \/ \E pw \in Passwords : AcceptCode(t, p, code, pw)
                 \/ \E p \in Phones, pw \in Passwords : BeginLogin(t, p, pw)
                 \/ \E j \in Tokens, changes \in Changes : BeginUpdate(t, j, changes)
          PROVE  UNCHANGED tokens
      BY <3>8
      DEF SendCode, RefuseCode, AcceptCode, Presents, BeginLogin, BeginUpdate
    <3>9. Tick \/ UNCHANGED vars => UNCHANGED tokens
      BY DEF Tick, vars
    <3> QED
      BY <3>4, <3>5, <3>6, <3>7, <3>8, <3>9 DEF Next, LogsIn
  <2> QED
    BY <2>1, <2>2 DEF AccountsEarned
<1>3. EarnedInv => AccountsEarned
  BY DEF EarnedInv
<1> QED
  BY <1>1, <1>2, <1>3, TypeCorrect, PTL DEF Spec
=============================================================================
