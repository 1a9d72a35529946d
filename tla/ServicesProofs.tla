--------------------------- MODULE ServicesProofs ---------------------------
(***************************************************************************)
(* Proofs about the services around the chat: the connection pool, start   *)
(* and shutdown, sessions and dispatch, the knowledge base.                *)
(***************************************************************************)
EXTENDS DbPool, Lifecycle, Dispatch, Rag, SequenceTheorems, FiniteSetTheorems,
        WellFoundedInduction, TLAPS

-----------------------------------------------------------------------------
(* Least and greatest elements: the natural numbers are well-founded.      *)

LEMMA LeastOf ==
    ASSUME NEW S, S \subseteq Nat, S # {}
    PROVE  Min(S) \in S /\ \A y \in S : Min(S) <= y
  <1>1. PICK x \in S : \A y \in S : ~(<<y, x>> \in OpToRel(<, Nat))
    BY NatLessThanWellFounded, WFMin
  <1>2. ASSUME NEW y \in S
        PROVE  x <= y
    <2>1. ~(<<y, x>> \in {ss \in Nat \X Nat : ss[1] < ss[2]})
      BY <1>1 DEF OpToRel
    <2>2. x \in Nat /\ y \in Nat
      OBVIOUS
    <2>3. <<y, x>> \in Nat \X Nat /\ <<y, x>>[1] = y /\ <<y, x>>[2] = x
      BY <2>2
    <2>4. ~(y < x)
      BY <2>1, <2>3
    <2>5. QED
      BY <2>2, <2>4
  <1>3. QED
    BY <1>2 DEF Min

LEMMA GreatestOf ==
    ASSUME NEW S, NEW n \in Nat, S \subseteq 0..n, S # {}
    PROVE  Max(S) \in S /\ \A y \in S : y <= Max(S)
  <1> DEFINE D == {n - y : y \in S}
  <1>1. D \subseteq Nat
    BY \A y \in 0..n : n - y \in Nat
  <1>2. D # {}
    <2>1. PICK z \in S : TRUE
      OBVIOUS
    <2>2. n - z \in D
      OBVIOUS
    <2>3. QED
      BY <2>2
  <1>3. Min(D) \in D /\ \A d \in D : Min(D) <= d
    BY <1>1, <1>2, LeastOf
  <1>4. PICK x \in S : Min(D) = n - x
    BY <1>3
  <1>5. \A y \in S : n - y \in D
    OBVIOUS
  <1>6. \A y \in S : n - x <= n - y
    BY <1>3, <1>4, <1>5
  <1> HIDE DEF D
  <1>7. \A y \in S : x >= y
    <2>1. \A y \in S : y \in Int
      OBVIOUS
    <2>2. QED
      BY <1>6, <2>1
  <1>8. Max(S) \in S /\ \A y \in S : Max(S) >= y
    BY <1>7 DEF Max
  <1>9. QED
    <2>1. \A y \in S : y \in Int
      OBVIOUS
    <2>2. QED
      BY <1>8, <2>1

-----------------------------------------------------------------------------
(* DbPool, for any set of connections, also an infinite one, and any limit *)

(* active_count_ is the number of loans minus the ones that Drain wrote    *)
(* off, so it goes below zero when those are returned.                     *)
ActiveIsLoans == active = Cardinality(lent) - strays

(* A connection is in one place only.                                      *)
OnePlace ==
    /\ \A i \in 1..Len(idle) : idle[i] \notin lent
    /\ \A i, j \in 1..Len(idle) : idle[i] = idle[j] => i = j

PoolInv == PoolTypeOK /\ PoolWithinLimit /\ ActiveIsLoans /\ OnePlace

LEMMA PoolInitially == InitPool => PoolInv
  BY FS_EmptySet, EmptySeq, PoolAssumption
  DEF InitPool, PoolInv, PoolTypeOK, PoolWithinLimit, ActiveIsLoans, OnePlace

(* A loan is taken from the front part of the queue, which is popped.      *)
LEMMA GetIdleKeeps == PoolInv /\ GetIdle => PoolInv'
<1> SUFFICES ASSUME PoolInv, GetIdle PROVE PoolInv'
  OBVIOUS
<1> USE DEF PoolInv, PoolTypeOK
<1>1. PICK i \in 1..Len(idle) :
          /\ idle' = SubSeq(idle, i + 1, Len(idle))
          /\ active' = active + 1
          /\ lent' = lent \union {idle[i]}
          /\ UNCHANGED <<alive, strays>>
  BY DEF GetIdle
<1>2. /\ Len(idle) \in Nat /\ i \in Nat /\ idle[i] \in Conns
      /\ i + 1 \in 1..(Len(idle) + 1)
  BY LenProperties, ElementOfSeq
<1>3. /\ idle' \in Seq(Conns)
      /\ Len(idle') = Len(idle) - i
      /\ \A j \in 1..Len(idle') : idle'[j] = idle[i + j]
  <2>1. /\ SubSeq(idle, i + 1, Len(idle)) \in Seq(Conns)
        /\ Len(SubSeq(idle, i + 1, Len(idle)))
             = IF i + 1 <= Len(idle) THEN Len(idle) - (i + 1) + 1 ELSE 0
        /\ \A j \in 1..(Len(idle) - (i + 1) + 1) :
              SubSeq(idle, i + 1, Len(idle))[j] = idle[(i + 1) + j - 1]
    BY <1>2, SubSeqProperties
  <2> QED
    BY <1>1, <1>2, <2>1
<1>4. /\ IsFiniteSet(lent') /\ Cardinality(lent) \in Nat
      /\ Cardinality(lent') = Cardinality(lent) + 1
  BY <1>1, FS_AddElement, FS_CardinalityType DEF OnePlace
<1>5. PoolTypeOK'
  BY <1>1, <1>2, <1>3, <1>4
<1>6. PoolWithinLimit' /\ ActiveIsLoans'
  BY <1>1, <1>2, <1>3, <1>4, PoolAssumption DEF PoolWithinLimit, ActiveIsLoans
<1>7. OnePlace'
  BY <1>1, <1>2, <1>3 DEF OnePlace
<1> QED
  BY <1>5, <1>6, <1>7

(* A connection is opened only below the limit, with an empty queue.       *)
LEMMA GetConnectsKeeps == PoolInv /\ GetConnects => PoolInv'
<1> SUFFICES ASSUME PoolInv, GetConnects PROVE PoolInv'
  OBVIOUS
<1> USE DEF PoolInv, PoolTypeOK
<1>1. PICK c \in Conns : c \notin lent /\ lent' = lent \union {c} /\ alive' = alive \union {c}
  BY DEF GetConnects
<1>2. /\ active < MaxConnections /\ active' = active + 1
      /\ idle' = <<>> /\ strays' = strays
  BY PoolAssumption DEF GetConnects, AtLimit
<1>3. /\ IsFiniteSet(lent') /\ Cardinality(lent) \in Nat
      /\ Cardinality(lent') = Cardinality(lent) + 1
  BY <1>1, FS_AddElement, FS_CardinalityType
<1>4. Len(idle') = 0 /\ idle' \in Seq(Conns)
  BY <1>2, EmptySeq
<1> QED
  BY <1>1, <1>2, <1>3, <1>4, PoolAssumption DEF PoolWithinLimit, ActiveIsLoans, OnePlace

(* A returned connection moves from the loans to the end of the queue.     *)
LEMMA ReturnKeeps == ASSUME NEW c \in Conns PROVE PoolInv /\ Return(c) => PoolInv'
<1> SUFFICES ASSUME PoolInv, Return(c) PROVE PoolInv'
  OBVIOUS
<1> USE DEF PoolInv, PoolTypeOK
<1>1. /\ c \in lent /\ lent' = lent \ {c} /\ active' = active - 1
      /\ idle' = IF c \in alive THEN Append(idle, c) ELSE idle
      /\ UNCHANGED <<alive, strays>>
  BY DEF Return
<1>2. /\ IsFiniteSet(lent') /\ Cardinality(lent) \in Nat
      /\ Cardinality(lent') = Cardinality(lent) - 1
  BY <1>1, FS_RemoveElement, FS_CardinalityType
<1>3. /\ Len(idle) \in Nat
      /\ Append(idle, c) \in Seq(Conns) /\ Len(Append(idle, c)) = Len(idle) + 1
      /\ \A i \in 1..Len(idle) : Append(idle, c)[i] = idle[i]
      /\ Append(idle, c)[Len(idle) + 1] = c
  BY AppendProperties, LenProperties
<1>4. PoolTypeOK'
  BY <1>1, <1>2, <1>3
<1>5. PoolWithinLimit' /\ ActiveIsLoans'
  BY <1>1, <1>2, <1>3, PoolAssumption DEF PoolWithinLimit, ActiveIsLoans
<1>6. OnePlace'
  <2>1. CASE c \in alive
    BY <1>1, <1>3, <2>1 DEF OnePlace
  <2>2. CASE c \notin alive
    BY <1>1, <2>2 DEF OnePlace
  <2> QED
    BY <2>1, <2>2
<1> QED
  BY <1>4, <1>5, <1>6

(* What only empties the queue keeps the invariant; Drain also writes the  *)
(* loans off, so that the limit starts anew from them.                     *)
LEMMA EmptyingKeeps == PoolInv /\ (GetRefused \/ Drain) => PoolInv'
<1> SUFFICES ASSUME PoolInv, GetRefused \/ Drain PROVE PoolInv'
  OBVIOUS
<1> USE DEF PoolInv, PoolTypeOK
<1>1. Cardinality(lent) \in Nat /\ Len(idle) \in Nat
  BY FS_CardinalityType, LenProperties
<1>2. Len(<<>>) = 0 /\ <<>> \in Seq(Conns)
  BY EmptySeq
<1>3. CASE GetRefused
  BY <1>1, <1>2, <1>3, PoolAssumption DEF GetRefused, PoolWithinLimit, ActiveIsLoans, OnePlace
<1>4. CASE Drain
  BY <1>1, <1>2, <1>4, PoolAssumption DEF Drain, PoolWithinLimit, ActiveIsLoans, OnePlace
<1> QED
  BY <1>3, <1>4

LEMMA PoolStep == PoolInv /\ [NextPool]_poolVars => PoolInv'
<1> SUFFICES ASSUME PoolInv, [NextPool]_poolVars PROVE PoolInv'
  OBVIOUS
<1>1. CASE GetIdle
  BY <1>1, GetIdleKeeps
<1>2. CASE GetConnects
  BY <1>2, GetConnectsKeeps
<1>3. CASE GetRefused \/ Drain
  BY <1>3, EmptyingKeeps
<1>4. ASSUME NEW c \in Conns, Return(c) PROVE PoolInv'
  BY <1>4, ReturnKeeps
<1>5. ASSUME NEW c \in Conns, Break(c) PROVE PoolInv'
  BY <1>5 DEF Break, PoolInv, PoolTypeOK, PoolWithinLimit, ActiveIsLoans, OnePlace
<1>6. CASE UNCHANGED poolVars
  BY <1>6 DEF poolVars, PoolInv, PoolTypeOK, PoolWithinLimit, ActiveIsLoans, OnePlace
<1> QED
  BY <1>1, <1>2, <1>3, <1>4, <1>5, <1>6 DEF NextPool

LEMMA PoolInvariant == PoolSpec => []PoolInv
  BY PoolInitially, PoolStep, PTL DEF PoolSpec

(* The variables of DbPool keep their types.                               *)
THEOREM PoolTypes == PoolSpec => []PoolTypeOK
  BY PoolInvariant, PTL DEF PoolInv

(* The pool never keeps more connections open than its limit and the loans *)
(* that were written off by the last Drain.                                *)
THEOREM PoolKeepsLimit == PoolSpec => []PoolWithinLimit
<1>1. PoolInv => PoolWithinLimit
  BY DEF PoolInv
<1> QED
  BY <1>1, PoolInvariant, PTL

(* active_count_ differs from the number of loans by exactly what the last *)
(* Drain wrote off: nothing else in Get and Return lets it drift.          *)
THEOREM PoolCountsLoans == PoolSpec => []ActiveIsLoans
<1>1. PoolInv => ActiveIsLoans
  BY DEF PoolInv
<1> QED
  BY <1>1, PoolInvariant, PTL

-----------------------------------------------------------------------------
(* Lifecycle, for any number of workers, IO threads and tasks              *)

(* Every task posted is counted once. *)
Counted == Accepted <= MaxTasks

(* worker_pool is destroyed after the loop has returned and before the     *)
(* HTTPS server, and a destroyed pool has nothing left.                    *)
PoolOrder ==
    /\ phase \in {"starting", "looping"} => pool = "running"
    /\ phase \in {"joining", "closing", "exited"} => pool = "gone"
    /\ pool # "running" => queued = 0
    /\ pool = "gone" => busy + hung = 0

LifecycleInv == LifecycleTypeOK /\ Counted /\ PoolOrder /\ LostAfterLoop

LEMMA LifecycleInitially == InitLifecycle => LifecycleInv
  <1> SUFFICES ASSUME InitLifecycle
               PROVE  LifecycleInv
    OBVIOUS
  <1>1. LifecycleTypeOK
    <2>1. 0 \in 0..MaxTasks /\ 0 \in 0..IoLoops /\ 0 + 0 <= Workers
      BY LifecycleAssumption
    <2>2. QED
      BY <2>1 DEF InitLifecycle, LifecycleTypeOK, Phases, TlsSteps
  <1>2. Counted
    BY LifecycleAssumption DEF InitLifecycle, Counted, Accepted
  <1>3. QED
    BY <1>1, <1>2 DEF InitLifecycle, LifecycleInv, PoolOrder, LostAfterLoop

(* The steps that leave the tasks where they are. *)
LEMMA MainStep ==
    ASSUME LifecycleInv,
           \/ StartServer \/ Signal \/ PoolJoined \/ DestroyHttps \/ HttpsJoined \/ Exit
           \/ IoServesGone
    PROVE  LifecycleInv'
  <1>1. UNCHANGED taskVars /\ callbacksRun' = callbacksRun
    BY DEF StartServer, Signal, PoolJoined, DestroyHttps, HttpsJoined, Exit, IoServesGone,
       shutdownVars, taskVars
  <1>2. Counted' /\ LostAfterLoop'
    BY <1>1 DEF StartServer, Signal, PoolJoined, DestroyHttps, HttpsJoined, Exit, IoServesGone,
       Up, taskVars, LifecycleInv,
       Counted, Accepted, LostAfterLoop
  <1>3. PoolOrder'
    BY <1>1 DEF StartServer, Signal, PoolJoined, DestroyHttps, HttpsJoined, Exit, IoServesGone,
       Up, taskVars, LifecycleInv,
       PoolOrder, LifecycleTypeOK
  <1>4. LifecycleTypeOK'
    BY <1>1 DEF StartServer, Signal, PoolJoined, DestroyHttps, HttpsJoined, Exit, IoServesGone,
       taskVars, shutdownVars,
       tlsVars, HttpsStart, HttpsStop, LifecycleInv, LifecycleTypeOK, Phases, TlsSteps
  <1>5. QED
    BY <1>2, <1>3, <1>4 DEF LifecycleInv

LEMMA TlsStep ==
    ASSUME LifecycleInv, TlsCheck \/ TlsCall \/ TlsConnects \/ TlsHandshakes \/ TlsRequests
    PROVE  LifecycleInv'
  <1>1. /\ tls' \in TlsSteps
        /\ UNCHANGED <<phase, shutdownVars, running, listening, pool, taskVars>>
    BY DEF TlsCheck, TlsCall, TlsConnects, TlsHandshakes, TlsRequests, TlsMove, TlsSteps, TlsBlocked
  <1>2. QED
    BY <1>1 DEF shutdownVars, taskVars, LifecycleInv, LifecycleTypeOK, Counted, Accepted,
       PoolOrder, LostAfterLoop

LEMMA StickStep ==
    ASSUME LifecycleInv, IoSticks
    PROVE  LifecycleInv'
  <1>1. /\ stuck' \in 0..IoLoops
        /\ UNCHANGED <<phase, shutdownVars, tlsVars, pool, queued, busy, hung, pending,
                       answered, lost>>
    BY LifecycleAssumption DEF IoSticks, LifecycleInv, LifecycleTypeOK
  <1>2. QED
    BY <1>1 DEF shutdownVars, tlsVars, LifecycleInv, LifecycleTypeOK, Counted, Accepted,
       PoolOrder, LostAfterLoop

(* The numbers of tasks, as far as steps depend on them. *)
TasksFit ==
    /\ queued \in Nat /\ busy \in Nat /\ hung \in Nat
    /\ pending \in Nat /\ answered \in Nat /\ lost \in Nat
    /\ queued + busy + hung + pending + answered + lost <= MaxTasks
    /\ busy + hung <= Workers

LEMMA PartsOfSum ==
    ASSUME NEW n1 \in Nat, NEW n2 \in Nat, NEW n3 \in Nat, NEW n4 \in Nat, NEW n5 \in Nat,
           NEW n6 \in Nat, n1 + n2 + n3 + n4 + n5 + n6 <= MaxTasks
    PROVE  \A n \in {n1, n2, n3, n4, n5, n6} : n \in 0..MaxTasks
  <1>1. /\ n1 <= MaxTasks /\ n2 <= MaxTasks /\ n3 <= MaxTasks
        /\ n4 <= MaxTasks /\ n5 <= MaxTasks /\ n6 <= MaxTasks
    BY LifecycleAssumption
  <1>2. QED
    BY <1>1, LifecycleAssumption

(* The steps that move tasks. *)
LEMMA TaskStep ==
    ASSUME LifecycleInv,
           TimerFires \/ LoopRunsPending \/ PoolStop \/ Post \/ Take \/ Finish \/ ChildHangs
    PROVE  LifecycleInv'
  <1>0. /\ TasksFit /\ PoolOrder /\ LostAfterLoop
        /\ MaxTasks \in Nat /\ Workers \in Nat
        /\ phase \in Phases /\ pool \in {"running", "stopped", "gone"}
    BY LifecycleAssumption DEF LifecycleInv, LifecycleTypeOK, Counted, Accepted, TasksFit
  <1>1. ASSUME TimerFires
       PROVE  TasksFit' /\ PoolOrder' /\ LostAfterLoop' /\ phase' \in Phases
              /\ pool' \in {"running", "stopped", "gone"}
    BY <1>0, <1>1 DEF TimerFires, TasksFit, PoolOrder, LostAfterLoop, Phases
  <1>2. ASSUME LoopRunsPending
       PROVE  TasksFit' /\ PoolOrder' /\ LostAfterLoop' /\ phase' \in Phases
              /\ pool' \in {"running", "stopped", "gone"}
    BY <1>0, <1>2 DEF LoopRunsPending, TasksFit, PoolOrder, LostAfterLoop, Phases
  <1>3. ASSUME PoolStop
       PROVE  TasksFit' /\ PoolOrder' /\ LostAfterLoop' /\ phase' \in Phases
              /\ pool' \in {"running", "stopped", "gone"}
    BY <1>0, <1>3 DEF PoolStop, TasksFit, PoolOrder, LostAfterLoop, Phases
  <1>4. ASSUME Post
        PROVE  TasksFit' /\ PoolOrder' /\ LostAfterLoop' /\ phase' \in Phases
               /\ pool' \in {"running", "stopped", "gone"}
    <2>1. /\ queued + busy + hung + pending + answered + lost < MaxTasks
          /\ UNCHANGED <<pool, busy, hung, pending, answered>>
          /\ phase \notin {"starting", "exited", "crashed"}
      BY <1>4 DEF Post, Accepted, Up
    <2>2. \/ pool = "running" /\ queued' = queued + 1 /\ UNCHANGED <<phase, lost>>
          \/ pool # "running" /\ UNCHANGED queued
             /\ \/ lost' = lost + 1 /\ UNCHANGED phase
                \/ phase' = "crashed" /\ UNCHANGED lost
      BY <1>0, <1>4 DEF Post
    <2>3. QED
      BY <1>0, <2>1, <2>2 DEF TasksFit, PoolOrder, LostAfterLoop, Phases
  <1>5. ASSUME Take
       PROVE  TasksFit' /\ PoolOrder' /\ LostAfterLoop' /\ phase' \in Phases
              /\ pool' \in {"running", "stopped", "gone"}
    BY <1>0, <1>5 DEF Take, TasksFit, PoolOrder, LostAfterLoop, Phases
  <1>6. ASSUME Finish
       PROVE  TasksFit' /\ PoolOrder' /\ LostAfterLoop' /\ phase' \in Phases
              /\ pool' \in {"running", "stopped", "gone"}
    BY <1>0, <1>6 DEF Finish, Up, TasksFit, PoolOrder, LostAfterLoop, Phases
  <1>7. ASSUME ChildHangs
       PROVE  TasksFit' /\ PoolOrder' /\ LostAfterLoop' /\ phase' \in Phases
              /\ pool' \in {"running", "stopped", "gone"}
    BY <1>0, <1>7 DEF ChildHangs, TasksFit, PoolOrder, LostAfterLoop, Phases
  <1>8. TasksFit' /\ PoolOrder' /\ LostAfterLoop' /\ phase' \in Phases
        /\ pool' \in {"running", "stopped", "gone"}
    BY <1>1, <1>2, <1>3, <1>4, <1>5, <1>6, <1>7
  <1>9. /\ signalled' = signalled /\ stuck' = stuck /\ UNCHANGED tlsVars
        /\ shuttingDown' \in BOOLEAN /\ callbacksRun' \in BOOLEAN
    BY DEF TimerFires, LoopRunsPending, PoolStop, Post, Take, Finish, ChildHangs, TimerShutdown,
       Shutdown, shutdownVars, LifecycleInv, LifecycleTypeOK
  <1>10. LifecycleTypeOK'
    <2>1. \A n \in {queued', busy', hung', pending', answered', lost'} : n \in 0..MaxTasks
      BY <1>8, PartsOfSum DEF TasksFit
    <2>2. QED
      BY <1>8, <1>9, <2>1 DEF tlsVars, LifecycleInv, LifecycleTypeOK, TasksFit
  <1>11. Counted'
    BY <1>8 DEF TasksFit, Counted, Accepted
  <1>12. QED
    BY <1>8, <1>9, <1>10, <1>11 DEF LifecycleInv

LEMMA LifecycleStep == LifecycleInv /\ [NextLifecycle]_lifecycleVars => LifecycleInv'
  <1> SUFFICES ASSUME LifecycleInv, [NextLifecycle]_lifecycleVars
               PROVE  LifecycleInv'
    OBVIOUS
  <1>1. CASE NextLifecycle
    BY <1>1, MainStep, TlsStep, StickStep, TaskStep DEF NextLifecycle
  <1>2. CASE UNCHANGED lifecycleVars
    BY <1>2 DEF lifecycleVars, LifecycleInv, LifecycleTypeOK, Counted, Accepted, PoolOrder,
       LostAfterLoop
  <1>3. QED
    BY <1>1, <1>2

LEMMA LifecycleHolds == LifecycleSpec => []LifecycleInv
  BY LifecycleInitially, LifecycleStep, PTL DEF LifecycleSpec

(* The variables of Lifecycle keep their types.                            *)
THEOREM LifecycleTypes == LifecycleSpec => []LifecycleTypeOK
  BY LifecycleHolds, PTL DEF LifecycleInv

(* For any number of workers, and whatever tasks do: the workers have all  *)
(* ended before main goes on to stop the HTTPS server, and no reply is     *)
(* lost and no task dropped while the loop runs.                           *)
THEOREM ShutdownKeepsOrder == LifecycleSpec => []ShutdownInOrder
  <1>1. LifecycleInv => ShutdownInOrder
    BY DEF LifecycleInv, LifecycleTypeOK, PoolOrder, ShutdownInOrder, WorkersEndFirst
  <1>2. QED
    BY <1>1, LifecycleHolds, PTL

-----------------------------------------------------------------------------
(* Dispatch, for any IO threads, routes, requests and timeouts             *)

Codes == {0, 200, 204, 401, 404, 405, 500}

LEMMA RouteType ==
    ASSUME NEW m, NEW p
    PROVE  /\ Route(m, p).code \in Codes /\ Route(m, p).route \in 0..Len(Routes)
           /\ DOMAIN Route(m, p) = {"code", "route", "allow"}
  <1> DEFINE S == MatchStatic(m, p)
             D == MatchDynamic(m, p)
             A == AllowedMethods(p)
  <1>1. Len(Routes) \in Nat /\ S \subseteq 1..Len(Routes) /\ D \subseteq 1..Len(Routes)
    BY RoutingAssumption DEF MatchStatic, MatchDynamic
  <1>2. S # {} => Max(S) \in 1..Len(Routes)
    <2>1. S \subseteq 0..Len(Routes)
      BY <1>1
    <2>2. QED
      BY <1>1, <2>1, GreatestOf
  <1>3. D # {} => Min(D) \in 1..Len(Routes)
    <2>1. D \subseteq Nat
      BY <1>1
    <2>2. QED
      BY <1>1, <2>1, LeastOf
  <1> HIDE DEF S, D, A
  <1>4. Route(m, p) =
          CASE S # {} -> [code |-> 200, route |-> Max(S), allow |-> {}]
            [] S = {} /\ D # {} -> [code |-> 200, route |-> Min(D), allow |-> {}]
            [] S = {} /\ D = {} /\ A # {} -> [code |-> 405, route |-> 0, allow |-> A]
            [] OTHER -> [code |-> 404, route |-> 0, allow |-> {}]
    BY DEF Route, S, D, A
  <1>5. \/ Route(m, p) = [code |-> 200, route |-> Max(S), allow |-> {}] /\ S # {}
        \/ Route(m, p) = [code |-> 200, route |-> Min(D), allow |-> {}] /\ D # {}
        \/ Route(m, p) = [code |-> 405, route |-> 0, allow |-> A]
        \/ Route(m, p) = [code |-> 404, route |-> 0, allow |-> {}]
    BY <1>4
  <1>6. 0 \in 0..Len(Routes) /\ 1..Len(Routes) \subseteq 0..Len(Routes)
    BY <1>1
  <1>7. QED
    BY <1>2, <1>3, <1>5, <1>6 DEF Codes

LEMMA OutcomeType ==
    ASSUME NEW r
    PROVE  /\ Outcome(r).code \in Codes /\ Outcome(r).route \in 0..Len(Routes)
           /\ DOMAIN Outcome(r) = {"code", "route", "allow"}
  <1>1. 0 \in 0..Len(Routes)
    BY RoutingAssumption
  <1>2. \/ Outcome(r) = [code |-> 204, route |-> 0, allow |-> {}]
        \/ Outcome(r) = [code |-> 401, route |-> 0, allow |-> {}]
        \/ Outcome(r) = Route(r.method, r.path)
    BY DEF Outcome
  <1>3. QED
    BY <1>1, <1>2, RouteType DEF Codes

(* The middleware's manager is the one the constructor made. *)
OwnTimeout == timeouts.middleware = DefaultTimeout

RepliesTyped ==
    /\ reply = [t \in IoThreads |-> reply[t]]
    /\ \A t \in IoThreads : DOMAIN reply[t] = {"code", "route", "allow"}

NotAhead == \A s \in DOMAIN session : session[s].last <= now

(* A request is served with a session that was issued. *)
Issued(t) ==
    /\ th[t].pc = "serve" => th[t].sess \in DOMAIN session
    /\ th[t].pc \in {"check", "refresh", "erase"} => th[t].cookie \in DOMAIN session
AllIssued == \A t \in IoThreads : Issued(t)

(* Up to the first race: the session that a thread has looked up, or was   *)
(* given, is still in the table, unless two look-ups race for it, and it   *)
(* has not idled too long (without a timeout every session has).           *)
Held(t) ==
    th[t].pc = "serve" /\ DefaultTimeout # 0 =>
          th[t].sess \in table \union raced /\ now - session[th[t].sess].last < DefaultTimeout

SessionsHeld == ~torn => \A t \in IoThreads : Held(t)

DispatchInv ==
    /\ DispatchTypeOK /\ RepliesTyped /\ OwnTimeout /\ NotAhead /\ AllIssued
    /\ SessionsHeld /\ LoginKept

LEMMA DispatchInitially == InitDispatch => DispatchInv
  <1> SUFFICES ASSUME InitDispatch
               PROVE  DispatchInv
    OBVIOUS
  <1>1. OwnTimeout
    BY DEF InitDispatch, OwnTimeout, SetSessionTimeout, NewServer
  <1>2. session = <<>> /\ DOMAIN session = {} /\ Len(session) = 0 /\ session \in Seq(Sessions)
    BY DEF InitDispatch
  <1>3. DispatchTypeOK
    <2>1. th \in [IoThreads -> Threads]
      BY DEF InitDispatch, IdleThread, Threads, Steps
    <2>2. \A t \in IoThreads : reply[t] = NoReply
      BY DEF InitDispatch
    <2>3. 0 \in 0..Len(Routes) /\ 0 \in 0..MaxTime /\ 0 <= MaxSessions
      BY RoutingAssumption, DispatchAssumption
    <2>4. QED
      BY <1>2, <2>1, <2>2, <2>3 DEF InitDispatch, DispatchTypeOK, NoReply
  <1>4. RepliesTyped
    BY DEF InitDispatch, RepliesTyped, NoReply
  <1>5. SessionsHeld /\ AllIssued
    BY DEF InitDispatch, SessionsHeld, Held, AllIssued, Issued, IdleThread
  <1>6. NotAhead /\ LoginKept
    BY <1>2 DEF NotAhead, LoginKept
  <1>7. QED
    BY <1>1, <1>3, <1>4, <1>5, <1>6 DEF DispatchInv

(* The steps that leave the table and the sessions alone. *)
LEMMA ThreadOnlyStep ==
    ASSUME DispatchInv, ~torn, NEW t \in IoThreads, Receive(t) \/ Find(t) \/ Check(t) \/ Answer(t)
    PROVE  DispatchInv'
  <1>0. /\ th \in [IoThreads -> Threads] /\ session \in Seq(Sessions) /\ Len(session) <= MaxSessions
        /\ table \subseteq DOMAIN session /\ reply = [u \in IoThreads |-> reply[u]]
        /\ MaxSessions \in Nat /\ Len(session) \in Nat
    BY DispatchAssumption DEF DispatchInv, DispatchTypeOK, RepliesTyped
  <1>1. UNCHANGED <<table, session, timeouts, now, torn, raced>>
    BY DEF Receive, Find, Check, Answer
  <1>2. \A u \in IoThreads \ {t} : th'[u] = th[u] /\ reply'[u] = reply[u]
    BY <1>0 DEF Receive, Find, Check, Answer
  <1>3. th' \in [IoThreads -> Threads] /\ Held(t)' /\ Issued(t)'
    <2>1. IdleThread \in Threads
      BY DEF IdleThread, Threads, Steps
    <2>2. CASE Receive(t)
      <3>1. PICK r \in Requests[t], c \in DOMAIN session \union {NoSession} :
                th' = [th EXCEPT ![t] = [IdleThread EXCEPT !.pc = "find", !.req = r, !.cookie = c]]
        BY <2>2 DEF Receive
      <3>2. c \in Ids \union {NoSession}
        BY <1>0 DEF Ids
      <3>3. [IdleThread EXCEPT !.pc = "find", !.req = r, !.cookie = c] \in Threads
        BY <3>2 DEF IdleThread, Threads, Steps
      <3>4. th'[t].pc = "find"
        BY <1>0, <3>1 DEF IdleThread
      <3>5. QED
        BY <1>0, <3>1, <3>3, <3>4 DEF Held, Issued
    <2>3. CASE Find(t)
      <3>1. \/ th' = [th EXCEPT ![t].pc = "check"] /\ th[t].cookie \in table
            \/ th' = [th EXCEPT ![t].pc = "create"]
        BY <2>3 DEF Find
      <3>2. th[t] \in Threads
        BY <1>0
      <3>3. [th[t] EXCEPT !.pc = "check"] \in Threads /\ [th[t] EXCEPT !.pc = "create"] \in Threads
        BY <3>2 DEF Threads, Steps
      <3>4. /\ th'[t] \in Threads /\ th'[t].cookie = th[t].cookie
            /\ th'[t].pc = "create" \/ (th'[t].pc = "check" /\ th[t].cookie \in table)
        BY <1>0, <3>1, <3>2, <3>3 DEF Threads
      <3>5. QED
        BY <1>0, <1>1, <3>1, <3>3, <3>4 DEF Held, Issued
    <2>6. CASE Check(t)
      <3>1. /\ th[t].pc = "check"
            /\ \/ th' = [th EXCEPT ![t].pc = "erase"]
               \/ th' = [th EXCEPT ![t].pc = "refresh"]
        BY <2>6 DEF Check
      <3>2. th[t] \in Threads /\ th[t].cookie \in DOMAIN session
        BY <1>0, <3>1 DEF DispatchInv, AllIssued, Issued
      <3>3. [th[t] EXCEPT !.pc = "erase"] \in Threads /\ [th[t] EXCEPT !.pc = "refresh"] \in Threads
        BY <3>2 DEF Threads, Steps
      <3>4. /\ th'[t] \in Threads /\ th'[t].cookie = th[t].cookie
            /\ th'[t].pc = "erase" \/ th'[t].pc = "refresh"
        BY <1>0, <3>1, <3>2, <3>3 DEF Threads
      <3>5. QED
        BY <1>0, <1>1, <3>1, <3>2, <3>3, <3>4 DEF Held, Issued
    <2>4. CASE Answer(t)
      <3>1. th' = [th EXCEPT ![t] = IdleThread]
        BY <2>4 DEF Answer
      <3>2. QED
        BY <1>0, <2>1, <3>1 DEF Held, Issued, IdleThread
    <2>5. QED
      BY <2>2, <2>3, <2>4, <2>6
  <1>4. /\ reply' = [u \in IoThreads |-> reply'[u]]
        /\ reply'[t] = reply[t] \/ reply'[t] = NoReply
    BY <1>0 DEF Receive, Find, Check, Answer
  <1>5. RepliesTyped'
    BY <1>2, <1>4 DEF DispatchInv, RepliesTyped, NoReply
  <1>6. DispatchTypeOK'
    <2>1. \A u \in IoThreads : /\ reply'[u].code \in Codes
                               /\ reply'[u].route \in 0..Len(Routes)
      <3>1. 0 \in 0..Len(Routes)
        BY RoutingAssumption
      <3>2. QED
        BY <1>2, <1>4, <3>1 DEF DispatchInv, DispatchTypeOK, NoReply, Codes
    <2>2. QED
      BY <1>1, <1>3, <2>1 DEF DispatchInv, DispatchTypeOK, Codes
  <1>7. SessionsHeld' /\ AllIssued'
    BY <1>1, <1>2, <1>3 DEF DispatchInv, SessionsHeld, Held, AllIssued, Issued
  <1>8. QED
    BY <1>1, <1>5, <1>6, <1>7 DEF DispatchInv, OwnTimeout, NotAhead, LoginKept

(* What the steps on the map keep of the thread's own record. *)
LEMMA ThreadMoves ==
    ASSUME NEW k \in Threads, NEW c \in Steps, NEW s \in Ids \union {NoSession}
    PROVE  /\ [k EXCEPT !.pc = c] \in Threads
           /\ [k EXCEPT !.pc = c, !.sess = s] \in Threads
           /\ [k EXCEPT !.pc = c].pc = c /\ [k EXCEPT !.pc = c].cookie = k.cookie
           /\ [k EXCEPT !.pc = c, !.sess = s].pc = c
           /\ [k EXCEPT !.pc = c, !.sess = s].sess = s
  BY DEF Threads

(* A session that is refreshed after another look-up erased it is raced.   *)
LEMMA RefreshStep ==
    ASSUME DispatchInv, ~torn, NEW t \in IoThreads, Refresh(t)
    PROVE  DispatchInv'
  <1> DEFINE s == th[t].cookie
  <1>0. /\ th \in [IoThreads -> Threads] /\ session \in Seq(Sessions) /\ Len(session) <= MaxSessions
        /\ table \subseteq DOMAIN session /\ raced \subseteq DOMAIN session
        /\ now \in 0..MaxTime /\ torn \in BOOLEAN
        /\ MaxSessions \in Nat /\ Len(session) \in Nat /\ DOMAIN session = 1..Len(session)
        /\ DefaultTimeout \in Nat /\ MaxTime \in Nat
    BY DispatchAssumption DEF DispatchInv, DispatchTypeOK
  <1>1. /\ th[t].pc = "refresh" /\ UNCHANGED <<reply, table, timeouts, now, torn>>
        /\ session' = [session EXCEPT ![s].last = now]
        /\ raced' = IF s \in table THEN raced ELSE raced \union {s}
        /\ th' = [th EXCEPT ![t].pc = "serve", ![t].sess = s]
    BY DEF Refresh
  <1>2. s \in DOMAIN session /\ session[s] \in Sessions /\ s \in Ids
    <2>1. s \in DOMAIN session
      BY <1>1 DEF DispatchInv, AllIssued, Issued
    <2>2. session[s] \in Sessions
      BY <1>0, <2>1, ElementOfSeq
    <2>3. s \in Ids
      BY <1>0, <2>1 DEF Ids
    <2>4. QED
      BY <2>1, <2>2, <2>3
  <1> HIDE DEF s
  <1>3. raced \subseteq raced' /\ s \in table \union raced' /\ raced' \subseteq DOMAIN session
    BY <1>0, <1>1, <1>2
  <1>4. [session[s] EXCEPT !.last = now] \in Sessions
    BY <1>0, <1>2 DEF Sessions
  <1>5. /\ session' \in Seq(Sessions) /\ Len(session') = Len(session)
        /\ DOMAIN session' = DOMAIN session
        /\ \A r \in DOMAIN session \ {s} : session'[r] = session[r]
        /\ session'[s].last = now /\ session'[s].user = session[s].user
    <2>1. session' = [session EXCEPT ![s] = [session[s] EXCEPT !.last = now]]
      BY <1>1
    <2>2. session' \in Seq(Sessions) /\ Len(session') = Len(session)
      BY <1>0, <1>2, <1>4, <2>1, ExceptSeq
    <2>3. QED
      BY <1>0, <1>2, <1>4, <2>1, <2>2 DEF Sessions
  <1>6. /\ th' \in [IoThreads -> Threads] /\ th'[t].pc = "serve" /\ th'[t].sess = s
        /\ \A u \in IoThreads \ {t} : th'[u] = th[u]
    <2> DEFINE k == [th[t] EXCEPT !.pc = "serve", !.sess = s]
    <2>1. k \in Threads /\ k.pc = "serve" /\ k.sess = s
      <3>1. th[t] \in Threads /\ "serve" \in Steps /\ s \in Ids \union {NoSession}
        BY <1>0, <1>2 DEF Steps
      <3>2. QED
        BY <3>1 DEF Threads
    <2>2. th' = [th EXCEPT ![t] = k]
      BY <1>0, <1>1
    <2> HIDE DEF k
    <2>3. QED
      BY <1>0, <2>1, <2>2
  <1>7. DispatchTypeOK'
    BY <1>0, <1>1, <1>3, <1>5, <1>6 DEF DispatchInv, DispatchTypeOK
  <1>8. now - now = 0 /\ \A r \in DOMAIN session : session'[r].last = session[r].last
                                                   \/ session'[r].last = now
    BY <1>0, <1>5
  <1>9. Held(t)'
    <2>1. DefaultTimeout # 0 => now - now < DefaultTimeout
      BY <1>0
    <2>2. QED
      BY <1>1, <1>3, <1>5, <1>6, <2>1 DEF Held
  <1>10. ASSUME NEW u \in IoThreads \ {t}
         PROVE  Held(u)'
    <2>1. Held(u) /\ th'[u] = th[u]
      BY <1>6 DEF DispatchInv, SessionsHeld
    <2>2. th[u].pc = "serve" => th[u].sess \in DOMAIN session
      BY DEF DispatchInv, AllIssued, Issued
    <2>3. QED
      BY <1>0, <1>1, <1>3, <1>8, <2>1, <2>2 DEF Held
  <1>11. LoginKept'
    BY <1>1, <1>3, <1>5 DEF DispatchInv, LoginKept
  <1>12. NotAhead'
    BY <1>0, <1>1, <1>5, <1>8 DEF DispatchInv, NotAhead
  <1>13. AllIssued'
    BY <1>2, <1>5, <1>6 DEF DispatchInv, AllIssued, Issued
  <1>14. QED
    BY <1>1, <1>7, <1>9, <1>10, <1>11, <1>12, <1>13
    DEF DispatchInv, RepliesTyped, OwnTimeout, SessionsHeld

(* A session that is erased after another look-up refreshed it is raced.   *)
LEMMA EraseStep ==
    ASSUME DispatchInv, ~torn, NEW t \in IoThreads, Erase(t)
    PROVE  DispatchInv'
  <1> DEFINE s == th[t].cookie
  <1>0. /\ th \in [IoThreads -> Threads] /\ session \in Seq(Sessions)
        /\ table \subseteq DOMAIN session /\ raced \subseteq DOMAIN session
        /\ now \in 0..MaxTime /\ torn \in BOOLEAN
        /\ DefaultTimeout \in Nat /\ timeouts.middleware = DefaultTimeout
    BY DispatchAssumption DEF DispatchInv, DispatchTypeOK, OwnTimeout
  <1>1. /\ th[t].pc = "erase" /\ UNCHANGED <<reply, session, timeouts, now>>
        /\ table' = table \ {s} /\ torn' = OthersInside(t)
        /\ raced' = IF Expired(s) THEN raced ELSE raced \union {s}
        /\ th' = [th EXCEPT ![t].pc = "create"]
    BY DEF Erase
  <1>2. s \in DOMAIN session
    BY <1>1 DEF DispatchInv, AllIssued, Issued
  <1>3. Expired(s) <=> now - session[s].last >= DefaultTimeout
    BY <1>0 DEF Expired
  <1> HIDE DEF s
  <1>4. /\ raced \subseteq raced' /\ raced' \subseteq DOMAIN session
        /\ s \in raced' \/ now - session[s].last >= DefaultTimeout
    BY <1>0, <1>1, <1>2, <1>3
  <1>5. /\ th' \in [IoThreads -> Threads] /\ th'[t].pc = "create"
        /\ \A u \in IoThreads \ {t} : th'[u] = th[u]
    <2>1. [th[t] EXCEPT !.pc = "create"] \in Threads
          /\ [th[t] EXCEPT !.pc = "create"].pc = "create"
      <3>1. th[t] \in Threads
        BY <1>0
      <3>2. QED
        BY <3>1 DEF Threads, Steps
    <2>2. QED
      BY <1>0, <1>1, <2>1
  <1>6. DispatchTypeOK'
    BY <1>0, <1>1, <1>4, <1>5 DEF DispatchInv, DispatchTypeOK, OthersInside
  <1>7. session[s].last \in Int /\ now \in Int
    <2>1. session[s] \in Sessions
      BY <1>0, <1>2, ElementOfSeq
    <2>2. QED
      BY <1>0, <2>1 DEF Sessions
  <1>8. s \in raced' \/ ~(now - session[s].last < DefaultTimeout)
    BY <1>0, <1>4, <1>7
  <1>9. SessionsHeld'
    <2>1. ASSUME NEW u \in IoThreads \ {t}
          PROVE  Held(u)'
      <3>1. th'[u] = th[u] /\ Held(u)
        BY <1>5 DEF DispatchInv, SessionsHeld
      <3>2. th[u].pc = "serve" /\ DefaultTimeout # 0 => th[u].sess \in table' \union raced'
        BY <1>1, <1>4, <1>8, <3>1 DEF Held
      <3>3. QED
        BY <1>1, <3>1, <3>2 DEF Held
    <2>2. Held(t)'
      BY <1>5 DEF Held
    <2>3. QED
      BY <2>1, <2>2 DEF SessionsHeld
  <1>10. LoginKept'
    BY <1>1, <1>4, <1>8 DEF DispatchInv, LoginKept
  <1>11. AllIssued'
    BY <1>1, <1>5 DEF DispatchInv, AllIssued, Issued
  <1>12. QED
    BY <1>1, <1>6, <1>9, <1>10, <1>11 DEF DispatchInv, RepliesTyped, OwnTimeout, NotAhead

LEMMA CreateStep ==
    ASSUME DispatchInv, ~torn, NEW t \in IoThreads, Create(t)
    PROVE  DispatchInv'
  <1> DEFINE n == Len(session) + 1
             new == [user |-> Nobody, last |-> now]
  <1>0. /\ th \in [IoThreads -> Threads] /\ session \in Seq(Sessions)
        /\ table \subseteq DOMAIN session /\ raced \subseteq DOMAIN session
        /\ now \in 0..MaxTime /\ torn \in BOOLEAN
        /\ MaxSessions \in Nat /\ Len(session) \in Nat /\ DOMAIN session = 1..Len(session)
        /\ DefaultTimeout \in Nat /\ MaxTime \in Nat
    BY DispatchAssumption DEF DispatchInv, DispatchTypeOK
  <1>1. /\ th[t].pc = "create" /\ Len(session) < MaxSessions
        /\ session' = Append(session, new)
        /\ table' = table \union {Len(session')}
        /\ torn' = OthersInside(t)
        /\ th' = [th EXCEPT ![t].pc = "serve", ![t].sess = Len(session')]
        /\ UNCHANGED <<reply, timeouts, now, raced>>
    BY DEF Create
  <1>2. new \in Sessions /\ new.last = now /\ new.user = Nobody
    BY <1>0 DEF Sessions
  <1> HIDE DEF new
  <1>3. /\ session' \in Seq(Sessions) /\ Len(session') = n
        /\ \A r \in DOMAIN session : session'[r] = session[r]
        /\ session'[n] = new
    BY <1>0, <1>1, <1>2, AppendProperties
  <1>4. /\ n \in Ids /\ n <= MaxSessions /\ n \in Nat
        /\ DOMAIN session' = DOMAIN session \union {n}
    BY <1>0, <1>1, <1>3 DEF Ids
  <1> HIDE DEF n
  <1>5. /\ th' \in [IoThreads -> Threads] /\ th'[t].pc = "serve" /\ th'[t].sess = n
        /\ \A u \in IoThreads \ {t} : th'[u] = th[u]
    <2> DEFINE k == [th[t] EXCEPT !.pc = "serve", !.sess = n]
    <2>1. th[t] \in Threads /\ "serve" \in Steps /\ n \in Ids \union {NoSession}
      BY <1>0, <1>4 DEF Steps
    <2>2. k \in Threads /\ k.pc = "serve" /\ k.sess = n
      BY <2>1 DEF Threads
    <2>3. th' = [th EXCEPT ![t] = k]
      BY <1>0, <1>1, <1>3
    <2> HIDE DEF k
    <2>4. QED
      BY <1>0, <2>2, <2>3
  <1>6. DispatchTypeOK'
    <2>1. table' \subseteq DOMAIN session' /\ raced \subseteq DOMAIN session'
      BY <1>0, <1>1, <1>3, <1>4
    <2>2. QED
      BY <1>0, <1>1, <1>3, <1>4, <1>5, <2>1 DEF DispatchInv, DispatchTypeOK, OthersInside
  <1>7. Held(t)'
    <2>1. DefaultTimeout # 0 => now - now < DefaultTimeout
      BY <1>0
    <2>2. QED
      BY <1>1, <1>2, <1>3, <1>4, <1>5, <2>1 DEF Held
  <1>8. ASSUME NEW u \in IoThreads \ {t}
        PROVE  Held(u)' /\ Issued(u)'
    <2>1. Held(u) /\ Issued(u) /\ th'[u] = th[u]
      BY <1>5 DEF DispatchInv, SessionsHeld, AllIssued
    <2>2. QED
      BY <1>1, <1>3, <1>4, <2>1 DEF Held, Issued
  <1>9. Issued(t)'
    BY <1>4, <1>5 DEF Issued
  <1>10. LoginKept'
    BY <1>1, <1>2, <1>3, <1>4 DEF DispatchInv, LoginKept
  <1>11. NotAhead'
    <2>1. now <= now
      BY <1>0
    <2>2. QED
      BY <1>1, <1>2, <1>3, <1>4, <2>1 DEF DispatchInv, NotAhead
  <1>12. QED
    BY <1>1, <1>6, <1>7, <1>8, <1>9, <1>10, <1>11
    DEF DispatchInv, RepliesTyped, OwnTimeout, SessionsHeld, AllIssued

(* The handler writes to the session that the request holds. *)
LEMMA ServeStep ==
    ASSUME DispatchInv, ~torn, NEW t \in IoThreads, Serve(t)
    PROVE  DispatchInv'
  <1> DEFINE s == th[t].sess
             out == Outcome(th[t].req)
  <1>0. /\ th \in [IoThreads -> Threads] /\ session \in Seq(Sessions) /\ Len(session) <= MaxSessions
        /\ table \subseteq DOMAIN session /\ now \in 0..MaxTime
        /\ Len(session) \in Nat /\ DOMAIN session = 1..Len(session)
        /\ DefaultTimeout \in Nat /\ MaxTime \in Nat
        /\ reply = [u \in IoThreads |-> reply[u]]
    BY DispatchAssumption DEF DispatchInv, DispatchTypeOK, RepliesTyped
  <1>1. th[t].pc = "serve" /\ UNCHANGED <<table, timeouts, now, torn, raced>>
        /\ th' = [th EXCEPT ![t].pc = "done"]
    BY DEF Serve
  <1>2. /\ s \in DOMAIN session
        /\ DefaultTimeout # 0 =>
              s \in table \union raced /\ now - session[s].last < DefaultTimeout
    BY <1>1 DEF DispatchInv, AllIssued, Issued, SessionsHeld, Held
  <1>3. session[s] \in Sessions /\ session[s].last <= now
    <2>1. session[s] \in Sessions
      BY <1>0, <1>2, ElementOfSeq
    <2>2. QED
      BY <1>2, <2>1 DEF DispatchInv, NotAhead
  <1>4. /\ th' \in [IoThreads -> Threads] /\ th'[t].pc = "done"
        /\ \A u \in IoThreads \ {t} : th'[u] = th[u]
    <2>1. th[t] \in Threads /\ "done" \in Steps
      BY <1>0 DEF Steps
    <2>2. [th[t] EXCEPT !.pc = "done"] \in Threads /\ [th[t] EXCEPT !.pc = "done"].pc = "done"
      BY <2>1, ThreadMoves
    <2>3. QED
      BY <1>0, <1>1, <2>2
  <1>5. \/ session' = session
        \/ \E new \in Sessions :
              /\ session' = [session EXCEPT ![s] = new]
              /\ new.last = now \/ new = session[s]
    <2>1. ASSUME NEW path, NEW new \in Handled(path, s)
          PROVE  new \in Sessions /\ (new.last = now \/ new = session[s])
      <3>1. \/ \E u \in Users : new = [user |-> u, last |-> now]
            \/ new = [user |-> Nobody, last |-> now]
            \/ new = session[s]
        BY <2>1 DEF Handled
      <3>2. QED
        BY <1>0, <1>3, <3>1 DEF Sessions
    <2>2. \/ session' = session
          \/ \E new \in Handled(Routes[out.route].path, s) : session' = [session EXCEPT ![s] = new]
      BY DEF Serve
    <2>3. QED
      BY <2>1, <2>2
  <1> HIDE DEF s
  <1>6. /\ session' \in Seq(Sessions) /\ Len(session') = Len(session)
        /\ DOMAIN session' = DOMAIN session
        /\ \A r \in DOMAIN session \ {s} : session'[r] = session[r]
        /\ session'[s].last = now \/ session'[s] = session[s]
    <2>1. CASE session' = session
      BY <1>0, <2>1
    <2>2. ASSUME NEW new \in Sessions, session' = [session EXCEPT ![s] = new],
                 new.last = now \/ new = session[s]
          PROVE  /\ session' \in Seq(Sessions) /\ Len(session') = Len(session)
                 /\ DOMAIN session' = DOMAIN session
                 /\ \A r \in DOMAIN session \ {s} : session'[r] = session[r]
                 /\ session'[s].last = now \/ session'[s] = session[s]
      <3>1. session' \in Seq(Sessions) /\ Len(session') = Len(session)
        BY <1>0, <1>2, <2>2, ExceptSeq
      <3>2. QED
        BY <1>0, <1>2, <2>2, <3>1
    <2>3. QED
      BY <1>5, <2>1, <2>2
  <1>7. /\ reply' = [u \in IoThreads |-> reply'[u]]
        /\ \A u \in IoThreads : /\ DOMAIN reply'[u] = {"code", "route", "allow"}
                                /\ reply'[u].code \in Codes
                                /\ reply'[u].route \in 0..Len(Routes)
    <2>1. PICK code : /\ reply' = [reply EXCEPT ![t] = [out EXCEPT !.code = code]]
                      /\ code = 500 \/ code = out.code
      BY DEF Serve
    <2>2. /\ out.code \in Codes /\ out.route \in 0..Len(Routes)
          /\ DOMAIN out = {"code", "route", "allow"}
      BY OutcomeType
    <2> HIDE DEF out
    <2>3. code \in Codes
      BY <2>1, <2>2 DEF Codes
    <2>4. ASSUME NEW u \in IoThreads \ {t}
          PROVE  /\ DOMAIN reply[u] = {"code", "route", "allow"}
                 /\ reply[u].code \in Codes /\ reply[u].route \in 0..Len(Routes)
      BY DEF DispatchInv, DispatchTypeOK, RepliesTyped, Codes
    <2> DEFINE k == [out EXCEPT !.code = code]
    <2>5. DOMAIN k = {"code", "route", "allow"} /\ k.code = code /\ k.route = out.route
      BY <2>2
    <2>6. /\ reply' = [reply EXCEPT ![t] = k]
          /\ k.code \in Codes /\ k.route \in 0..Len(Routes)
      BY <2>1, <2>2, <2>3, <2>5
    <2> HIDE DEF k
    <2>7. QED
      BY <1>0, <2>4, <2>5, <2>6
  <1>8. DispatchTypeOK' /\ RepliesTyped'
    BY <1>0, <1>1, <1>4, <1>6, <1>7 DEF DispatchInv, DispatchTypeOK, RepliesTyped, Codes
  <1>9. now <= now /\ (DefaultTimeout # 0 => now - now < DefaultTimeout)
    BY <1>0
  <1>10. ASSUME NEW u \in IoThreads \ {t}
         PROVE  Held(u)' /\ Issued(u)'
    <2>1. Held(u) /\ Issued(u) /\ th'[u] = th[u]
      BY <1>4 DEF DispatchInv, SessionsHeld, AllIssued
    <2>2. QED
      BY <1>1, <1>6, <1>9, <2>1 DEF Held, Issued
  <1>11. Held(t)' /\ Issued(t)'
    BY <1>4 DEF Held, Issued
  <1>12. NotAhead'
    BY <1>1, <1>6, <1>9 DEF DispatchInv, NotAhead
  <1>13. LoginKept'
    <2>1. ASSUME session'[s].user # Nobody, now - session'[s].last < DefaultTimeout
          PROVE  s \in table \union raced
      <3>1. DefaultTimeout # 0
        <4>1. session'[s].last <= now /\ session'[s].last \in Int /\ now \in Int
          BY <1>0, <1>3, <1>6 DEF Sessions
        <4>2. now - session'[s].last >= 0
          BY <4>1
        <4>3. QED
          BY <2>1, <4>1, <4>2
      <3>2. QED
        BY <1>2, <3>1
    <2>2. QED
      BY <1>1, <1>6, <2>1 DEF DispatchInv, LoginKept
  <1>14. QED
    BY <1>1, <1>8, <1>10, <1>11, <1>12, <1>13
    DEF DispatchInv, OwnTimeout, SessionsHeld, AllIssued

LEMMA TickStep ==
    ASSUME DispatchInv, Tick
    PROVE  DispatchInv'
  <1>0. /\ now \in 0..MaxTime /\ now' = now + 1 /\ now < MaxTime
        /\ UNCHANGED <<th, reply, table, session, timeouts, torn, raced>>
        /\ session \in Seq(Sessions) /\ DefaultTimeout \in Nat /\ MaxTime \in Nat
    BY DispatchAssumption DEF Tick, DispatchInv, DispatchTypeOK
  <1>1. \A s \in DOMAIN session : session[s].last \in Nat
    <2>1. \A s \in DOMAIN session : session[s] \in Sessions
      BY <1>0
    <2>2. QED
      BY <2>1 DEF Sessions
  <1>2. now' \in 0..MaxTime
    BY <1>0
  <1>3. DispatchTypeOK'
    BY <1>0, <1>2 DEF DispatchInv, DispatchTypeOK
  <1>4. NotAhead'
    BY <1>0, <1>1 DEF DispatchInv, NotAhead
  <1>5. SessionsHeld'
    BY <1>0 DEF Tick, RequestsAreShort, DispatchInv, OwnTimeout, SessionsHeld, Held
  <1>6. LoginKept'
    <2>1. ASSUME NEW s \in DOMAIN session, now' - session[s].last < DefaultTimeout
          PROVE  now - session[s].last < DefaultTimeout
      BY <1>0, <1>1, <2>1
    <2>2. ASSUME NEW s \in DOMAIN session, now' - session[s].last < Promised
          PROVE  now - session[s].last < Promised
      BY <1>0, <1>1, <2>2, DispatchAssumption DEF Promised
    <2>3. QED
      BY <1>0, <2>1, <2>2 DEF DispatchInv, LoginKept
  <1>7. QED
    BY <1>0, <1>3, <1>4, <1>5, <1>6 DEF DispatchInv, RepliesTyped, OwnTimeout, AllIssued, Issued

LEMMA DispatchStep == DispatchInv /\ [NextDispatch]_dispatchVars => DispatchInv'
  <1> SUFFICES ASSUME DispatchInv, [NextDispatch]_dispatchVars
               PROVE  DispatchInv'
    OBVIOUS
  <1>1. CASE NextDispatch
    BY <1>1, ThreadOnlyStep, RefreshStep, EraseStep, CreateStep, ServeStep, TickStep DEF NextDispatch
  <1>2. CASE UNCHANGED dispatchVars
    BY <1>2 DEF dispatchVars, DispatchInv, DispatchTypeOK, RepliesTyped, OwnTimeout, NotAhead,
       SessionsHeld, Held, AllIssued, Issued, LoginKept
  <1>3. QED
    BY <1>1, <1>2

(* For any number of IO threads and sessions and any timeouts: until two   *)
(* threads are in the session map at once, a session somebody logged in    *)
(* with stays in the table as long as it has not idled for the configured  *)
(* time or the default, unless two look-ups race for it as it expires.     *)
THEOREM LoginsAreKept == DispatchSpec => []LoginKept
  <1>1. DispatchInv => LoginKept
    BY DEF DispatchInv
  <1>2. QED
    BY <1>1, DispatchInitially, DispatchStep, PTL DEF DispatchSpec

(* Answers.  The parts of a path are a sequence, so that a pattern takes a *)
(* path exactly if the path is the pattern filled in.                      *)
LEMMA PartsInOrder ==
    ASSUME NEW p, IsPath(p)
    PROVE  /\ Len(SplitPath(p)) \in Nat /\ DOMAIN SplitPath(p) = 1..Len(SplitPath(p))
           /\ SplitPath(p) = [n \in DOMAIN SplitPath(p) |-> SplitPath(p)[n]]
  <1> DEFINE kept == {i \in DOMAIN p : p[i] # ""}
             UpTo(i) == {j \in kept : j <= i}
             e(n) == p[CHOOSE i \in kept : Cardinality(UpTo(i)) = n]
             c == Cardinality(kept)
             s == [n \in 1..c |-> e(n)]
  <1>1. SplitPath(p) = s
    BY DEF SplitPath
  <1>2. c \in Nat
    <2>1. Len(p) \in Nat /\ DOMAIN p = 1..Len(p)
      BY DEF IsPath
    <2>2. kept \subseteq 1..Len(p)
      BY <2>1
    <2> HIDE DEF kept
    <2>3. 1 \in Int /\ Len(p) \in Int
      BY <2>1
    <2>4. IsFiniteSet(1..Len(p))
      BY <2>3, FS_Interval
    <2>5. IsFiniteSet(kept)
      BY <2>2, <2>4, FS_Subset
    <2>6. QED
      BY <2>5, FS_CardinalityType
  <1> HIDE DEF c, e
  <1>3. s \in Seq({e(n) : n \in 1..c})
    BY <1>2
  <1>4. Len(s) = c
    BY <1>2, <1>3
  <1>5. DOMAIN s = 1..c
    OBVIOUS
  <1> HIDE DEF s
  <1>6. s = [n \in DOMAIN s |-> s[n]]
    BY DEF s
  <1>7. QED
    BY <1>1, <1>2, <1>4, <1>5, <1>6

LEMMA MatchedIsFilledIn ==
    ASSUME NEW pattern, NEW path, IsPath(pattern), IsPath(path)
    PROVE  MatchPath(pattern, path) <=> FilledIn(pattern, path)
  <1> DEFINE want == SplitPath(pattern)
             have == SplitPath(path)
  <1>1. /\ Len(want) \in Nat /\ DOMAIN want = 1..Len(want)
        /\ Len(have) \in Nat /\ DOMAIN have = 1..Len(have)
        /\ have = [n \in DOMAIN have |-> have[n]]
    BY PartsInOrder
  <1>2. MatchPath(pattern, path) <=>
           /\ Len(want) = Len(have)
           /\ \A i \in DOMAIN want : want[i] \in Params \/ want[i] = have[i]
    BY DEF MatchPath
  <1>3. FilledIn(pattern, path) <=>
           \E fill \in [DOMAIN want -> {have[i] : i \in DOMAIN have}] :
              have = [i \in DOMAIN want |-> IF want[i] \in Params THEN fill[i] ELSE want[i]]
    BY DEF FilledIn
  <1> HIDE DEF want, have
  <1>4. ASSUME Len(want) = Len(have), \A i \in DOMAIN want : want[i] \in Params \/ want[i] = have[i]
        PROVE  FilledIn(pattern, path)
    <2>1. DOMAIN want = DOMAIN have
      BY <1>1, <1>4
    <2>2. have \in [DOMAIN want -> {have[i] : i \in DOMAIN have}]
      BY <1>1, <2>1
    <2>3. have = [i \in DOMAIN want |-> IF want[i] \in Params THEN have[i] ELSE want[i]]
      BY <1>1, <1>4, <2>1
    <2>4. QED
      BY <1>3, <2>2, <2>3
  <1>5. ASSUME NEW fill,
               have = [i \in DOMAIN want |-> IF want[i] \in Params THEN fill[i] ELSE want[i]]
        PROVE  MatchPath(pattern, path)
    <2>1. DOMAIN have = DOMAIN want
      BY <1>5
    <2>2. Len(want) = Len(have)
      <3>1. \A i, j \in Nat : 1..i = 1..j => i = j
        <4>1. SUFFICES ASSUME NEW i \in Nat, NEW j \in Nat, 1..i = 1..j
                       PROVE  i = j
          OBVIOUS
        <4>2. (i > 0 => i \in 1..j) /\ (j > 0 => j \in 1..i)
          BY <4>1
        <4>3. QED
          BY <4>1, <4>2
      <3>2. QED
        BY <1>1, <2>1, <3>1
    <2>3. \A i \in DOMAIN want : want[i] \in Params \/ want[i] = have[i]
      BY <1>5
    <2>4. QED
      BY <1>2, <2>2, <2>3
  <1>6. QED
    BY <1>2, <1>3, <1>4, <1>5

(* The router serves with a route of the method that takes the path, and   *)
(* refuses only when there is none.                                        *)
LEMMA RoutesRight ==
    ASSUME NEW m, NEW p, IsPath(p)
    PROVE  LET o == Route(m, p)
           IN  /\ o.route # 0 =>
                    /\ o.route \in DOMAIN Routes /\ o.code = 200 /\ Routes[o.route].method = m
                    /\ Routes[o.route].path = p \/ FilledIn(Routes[o.route].path, p)
               /\ o.code \in {404, 405} =>
                    /\ \A i \in DOMAIN Routes : Routes[i].method = m =>
                          /\ Routes[i].path # p
                          /\ IsDynamicPattern(Routes[i].path) => ~FilledIn(Routes[i].path, p)
                    /\ \A n \in o.allow : Route(n, p).code = 200
                    /\ (o.code = 405) <=> (o.allow # {})
  <1> DEFINE S == MatchStatic(m, p)
             D == MatchDynamic(m, p)
             A == AllowedMethods(p)
             o == Route(m, p)
  <1>1. /\ Len(Routes) \in Nat /\ DOMAIN Routes = 1..Len(Routes)
        /\ S \subseteq DOMAIN Routes /\ D \subseteq DOMAIN Routes
    BY RoutingAssumption DEF MatchStatic, MatchDynamic
  <1>2. S # {} => Max(S) \in S
    <2>1. S \subseteq 0..Len(Routes)
      BY <1>1
    <2> HIDE DEF S
    <2>2. QED
      BY <1>1, <2>1, GreatestOf
  <1>3. D # {} => Min(D) \in D
    <2>1. D \subseteq Nat
      BY <1>1
    <2> HIDE DEF D
    <2>2. QED
      BY <2>1, LeastOf
  <1>4. \A i \in S : Routes[i].method = m /\ Routes[i].path = p
    BY DEF MatchStatic
  <1>5. \A i \in DOMAIN Routes : IsPath(Routes[i].path)
    BY RoutingAssumption
  <1>6. \A i \in D : Routes[i].method = m /\ FilledIn(Routes[i].path, p)
    BY <1>5, MatchedIsFilledIn DEF MatchDynamic
  <1>7. \A i \in DOMAIN Routes :
           Routes[i].method = m /\ IsDynamicPattern(Routes[i].path) /\ FilledIn(Routes[i].path, p) => i \in D
    BY <1>5, MatchedIsFilledIn DEF MatchDynamic
  <1>8. \A i \in DOMAIN Routes : Routes[i].method = m /\ Routes[i].path = p => i \in S \/ i \in D
    <2>1. MatchPath(p, p)
      BY DEF MatchPath
    <2>2. \A i \in DOMAIN Routes : Routes[i] = [method |-> Routes[i].method, path |-> Routes[i].path]
      BY RoutingAssumption
    <2>3. QED
      BY <2>1, <2>2 DEF MatchStatic, MatchDynamic
  <1>9. ASSUME NEW n \in A
        PROVE  Route(n, p).code = 200
    <2>1. PICK i \in DOMAIN Routes : n = Routes[i].method /\ Routes[i].path = p /\ ~IsDynamicPattern(p)
      BY DEF AllowedMethods
    <2>2. Routes[i] = [method |-> n, path |-> p]
      BY <2>1, RoutingAssumption
    <2>3. MatchStatic(n, p) # {}
      BY <2>1, <2>2 DEF MatchStatic
    <2>4. QED
      BY <2>3 DEF Route
  <1> HIDE DEF S, D, A
  <1>10. o = CASE S # {} -> [code |-> 200, route |-> Max(S), allow |-> {}]
               [] S = {} /\ D # {} -> [code |-> 200, route |-> Min(D), allow |-> {}]
               [] S = {} /\ D = {} /\ A # {} -> [code |-> 405, route |-> 0, allow |-> A]
               [] OTHER -> [code |-> 404, route |-> 0, allow |-> {}]
    BY DEF Route, S, D, A
  <1>11. \/ o = [code |-> 200, route |-> Max(S), allow |-> {}] /\ S # {}
         \/ o = [code |-> 200, route |-> Min(D), allow |-> {}] /\ D # {}
         \/ o = [code |-> 405, route |-> 0, allow |-> A] /\ S = {} /\ D = {} /\ A # {}
         \/ o = [code |-> 404, route |-> 0, allow |-> {}] /\ S = {} /\ D = {}
    BY <1>10
  <1> HIDE DEF o
  <1>12. o.route # 0 =>
            /\ o.route \in DOMAIN Routes /\ o.code = 200 /\ Routes[o.route].method = m
            /\ Routes[o.route].path = p \/ FilledIn(Routes[o.route].path, p)
    BY <1>1, <1>2, <1>3, <1>4, <1>6, <1>11
  <1>13. o.code \in {404, 405} =>
            /\ \A i \in DOMAIN Routes : Routes[i].method = m =>
                  /\ Routes[i].path # p
                  /\ IsDynamicPattern(Routes[i].path) => ~FilledIn(Routes[i].path, p)
            /\ \A n \in o.allow : Route(n, p).code = 200
            /\ (o.code = 405) <=> (o.allow # {})
    BY <1>7, <1>8, <1>9, <1>11
  <1>14. QED
    BY <1>12, <1>13 DEF o

AllRequests == UNION {Requests[t] : t \in IoThreads}

(* The reply to a request that was served. *)
ReplyTo(r) ==
    LET out == Outcome(r)
    IN  [out EXCEPT !.code = IF out.route # 0 /\ r.path = CrashPath THEN 500 ELSE out.code]

AnswerFits(k, a) ==
    /\ k.pc # "idle" => k.req \in AllRequests
    /\ a = IF k.pc = "done" THEN ReplyTo(k.req) ELSE NoReply

AnswersFit == \A t \in IoThreads : AnswerFits(th[t], reply[t])

LEMMA AnswersInitially == InitDispatch => AnswersFit
  BY DEF InitDispatch, AnswersFit, AnswerFits, IdleThread

LEMMA AnswerStep == DispatchInv /\ AnswersFit /\ [NextDispatch]_dispatchVars => AnswersFit'
  <1> SUFFICES ASSUME DispatchInv, AnswersFit, [NextDispatch]_dispatchVars
               PROVE  AnswersFit'
    OBVIOUS
  <1>1. /\ th \in [IoThreads -> Threads] /\ reply = [u \in IoThreads |-> reply[u]]
        /\ \A t \in IoThreads : AnswerFits(th[t], reply[t])
    BY DEF DispatchInv, DispatchTypeOK, RepliesTyped, AnswersFit
  <1>2. ASSUME NEW t \in IoThreads,
               \/ Receive(t) \/ Find(t) \/ Check(t) \/ Refresh(t) \/ Erase(t)
               \/ Create(t) \/ Serve(t) \/ Answer(t)
        PROVE  AnswersFit'
    <2>1. \A u \in IoThreads \ {t} : th'[u] = th[u] /\ reply'[u] = reply[u]
      BY <1>1, <1>2 DEF Receive, Find, Check, Refresh, Erase, Create, Serve, Answer
    <2>2. th[t] \in Threads
      BY <1>1
    <2>3. AnswerFits(th'[t], reply'[t])
      <3>1. CASE Receive(t)
        <4>1. PICK r \in Requests[t], c \in DOMAIN session \union {NoSession} :
                  th' = [th EXCEPT ![t] = [IdleThread EXCEPT !.pc = "find", !.req = r, !.cookie = c]]
          BY <3>1 DEF Receive
        <4>2. th'[t].pc = "find" /\ th'[t].req = r
          BY <1>1, <4>1 DEF IdleThread
        <4>3. reply'[t] = reply[t] /\ th[t].pc = "idle"
          BY <3>1 DEF Receive
        <4>4. QED
          BY <1>1, <4>2, <4>3 DEF AnswerFits, AllRequests
      <3>2. CASE Find(t) \/ Check(t) \/ Refresh(t) \/ Erase(t) \/ Create(t)
        <4>1. /\ th'[t].pc \in {"check", "refresh", "erase", "create", "serve"}
              /\ th'[t].req = th[t].req /\ th[t].pc \notin {"idle", "done"}
          <5>1. CASE Find(t) \/ Check(t)
            BY <1>1, <2>2, <5>1 DEF Find, Check, Threads
          <5>2. CASE Refresh(t)
            BY <1>1, <2>2, <5>2 DEF Refresh, Threads
          <5>3. CASE Erase(t) \/ Create(t)
            BY <1>1, <2>2, <5>3 DEF Erase, Create, Threads
          <5>4. QED
            BY <3>2, <5>1, <5>2, <5>3
        <4>2. reply'[t] = reply[t]
          BY <3>2 DEF Find, Check, Refresh, Erase, Create
        <4>3. QED
          BY <1>1, <4>1, <4>2 DEF AnswerFits
      <3>3. CASE Serve(t)
        <4>1. th'[t].pc = "done" /\ th'[t].req = th[t].req /\ th[t].pc = "serve"
          BY <1>1, <2>2, <3>3 DEF Serve, Threads
        <4>2. reply'[t] = ReplyTo(th[t].req)
          BY <1>1, <3>3 DEF Serve, ReplyTo
        <4>3. QED
          BY <1>1, <4>1, <4>2 DEF AnswerFits
      <3>4. CASE Answer(t)
        BY <1>1, <3>4 DEF Answer, AnswerFits, IdleThread
      <3>5. QED
        BY <1>2, <3>1, <3>2, <3>3, <3>4
    <2>4. QED
      BY <1>1, <2>1, <2>3 DEF AnswersFit
  <1>3. CASE Tick
    BY <1>1, <1>3 DEF Tick, AnswersFit
  <1>4. CASE UNCHANGED dispatchVars
    BY <1>1, <1>4 DEF dispatchVars, AnswersFit
  <1>5. QED
    BY <1>2, <1>3, <1>4 DEF NextDispatch

(* For any routes, requests and number of IO threads: a handler runs only  *)
(* for a request with the token or to a public path, never for a preflight,*)
(* and is one of that method whose pattern the path fills in; a 404 or 405 *)
(* is given only when there is none, and each method that a 405 lists      *)
(* would be served.                                                        *)
THEOREM RequestsAreServedRight == DispatchSpec => []ServedRight
  <1>1. DispatchInv /\ AnswersFit => ServedRight
    <2>1. SUFFICES ASSUME DispatchInv, AnswersFit, NEW t \in IoThreads
                   PROVE  LET r == th[t].req
                          IN  /\ reply[t].route # 0 =>
                                   /\ r.token \/ r.path \in PublicPaths
                                   /\ r.method # "OPTIONS"
                                   /\ Routes[reply[t].route].method = r.method
                                   /\ \/ Routes[reply[t].route].path = r.path
                                      \/ FilledIn(Routes[reply[t].route].path, r.path)
                              /\ reply[t].code \in {404, 405} =>
                                   /\ \A i \in DOMAIN Routes :
                                         Routes[i].method = r.method =>
                                            /\ Routes[i].path # r.path
                                            /\ IsDynamicPattern(Routes[i].path) =>
                                                  ~FilledIn(Routes[i].path, r.path)
                                   /\ \A m \in reply[t].allow : Route(m, r.path).code = 200
                                   /\ (reply[t].code = 405) <=> (reply[t].allow # {})
      BY DEF ServedRight, OnlyAllowedHandlersRun, RefusalIsRight
    <2> DEFINE r == th[t].req
               o == Outcome(r)
    <2>2. AnswerFits(th[t], reply[t])
      BY <2>1 DEF AnswersFit
    <2>3. CASE th[t].pc # "done"
      <3>1. reply[t] = NoReply
        BY <2>2, <2>3 DEF AnswerFits
      <3>2. QED
        BY <3>1 DEF NoReply
    <2>4. CASE th[t].pc = "done"
      <3>1. r \in AllRequests /\ reply[t] = ReplyTo(r)
        BY <2>2, <2>4 DEF AnswerFits
      <3>2. IsPath(r.path)
        BY <3>1, DispatchAssumption DEF AllRequests
      <3>3. DOMAIN o = {"code", "route", "allow"}
        BY OutcomeType
      <3>4. /\ o = [c \in DOMAIN o |-> o[c]]
            /\ \/ o = [code |-> 204, route |-> 0, allow |-> {}]
               \/ o = [code |-> 401, route |-> 0, allow |-> {}]
               \/ /\ o = Route(r.method, r.path)
                  /\ r.method # "OPTIONS" /\ (r.token \/ r.path \in PublicPaths)
        <4>1. \/ o = [code |-> 204, route |-> 0, allow |-> {}]
              \/ o = [code |-> 401, route |-> 0, allow |-> {}]
              \/ /\ o = Route(r.method, r.path)
                 /\ r.method # "OPTIONS" /\ (r.token \/ r.path \in PublicPaths)
          BY DEF Outcome, NeedsToken
        <4>2. Route(r.method, r.path) = [c \in DOMAIN Route(r.method, r.path) |-> Route(r.method, r.path)[c]]
          BY DEF Route
        <4>3. QED
          BY <4>1, <4>2
      <3>5. /\ reply[t].route = o.route /\ reply[t].allow = o.allow
            /\ reply[t].code = IF o.route # 0 /\ r.path = CrashPath THEN 500 ELSE o.code
        <4>1. reply[t] = [o EXCEPT !.code = IF o.route # 0 /\ r.path = CrashPath THEN 500 ELSE o.code]
          BY <3>1 DEF ReplyTo
        <4> HIDE DEF o, r
        <4>2. QED
          BY <3>3, <4>1
      <3>6. CASE o.route = 0 /\ o.code \notin {404, 405}
        BY <3>5, <3>6
      <3>7. CASE /\ o = Route(r.method, r.path)
                 /\ r.method # "OPTIONS" /\ (r.token \/ r.path \in PublicPaths)
        <4>1. /\ o.route # 0 =>
                    /\ o.route \in DOMAIN Routes /\ o.code = 200 /\ Routes[o.route].method = r.method
                    /\ Routes[o.route].path = r.path \/ FilledIn(Routes[o.route].path, r.path)
              /\ o.code \in {404, 405} =>
                    /\ \A i \in DOMAIN Routes : Routes[i].method = r.method =>
                          /\ Routes[i].path # r.path
                          /\ IsDynamicPattern(Routes[i].path) => ~FilledIn(Routes[i].path, r.path)
                    /\ \A n \in o.allow : Route(n, r.path).code = 200
                    /\ (o.code = 405) <=> (o.allow # {})
          BY <3>2, <3>7, RoutesRight
        <4> HIDE DEF o, r
        <4>2. reply[t].code \in {404, 405} => reply[t].code = o.code
          BY <3>5
        <4>3. reply[t].route = o.route /\ reply[t].allow = o.allow
          BY <3>5
        <4>4. /\ reply[t].route # 0 =>
                    /\ r.token \/ r.path \in PublicPaths
                    /\ r.method # "OPTIONS"
                    /\ Routes[reply[t].route].method = r.method
                    /\ \/ Routes[reply[t].route].path = r.path
                       \/ FilledIn(Routes[reply[t].route].path, r.path)
              /\ reply[t].code \in {404, 405} =>
                    /\ \A i \in DOMAIN Routes :
                          Routes[i].method = r.method =>
                             /\ Routes[i].path # r.path
                             /\ IsDynamicPattern(Routes[i].path) => ~FilledIn(Routes[i].path, r.path)
                    /\ \A m \in reply[t].allow : Route(m, r.path).code = 200
                    /\ (reply[t].code = 405) <=> (reply[t].allow # {})
          BY <3>7, <4>1, <4>2, <4>3
        <4>5. QED
          BY <4>4 DEF r
      <3>8. QED
        BY <3>4, <3>6, <3>7
    <2>5. QED
      BY <2>3, <2>4
  <1>2. QED
    BY <1>1, DispatchInitially, DispatchStep, AnswersInitially, AnswerStep, PTL DEF DispatchSpec

(* The variables of Dispatch keep their types.                             *)
THEOREM DispatchTypes == DispatchSpec => []DispatchTypeOK
  <1>1. DispatchInv => DispatchTypeOK
    BY DEF DispatchInv
  <1>2. QED
    BY <1>1, DispatchInitially, DispatchStep, PTL DEF DispatchSpec

-----------------------------------------------------------------------------
(* Rag, for any threads, texts, overlaps and chunk sizes                   *)

LEMMA SmallerOf ==
    ASSUME NEW m \in Int, NEW n \in Int
    PROVE  Min({m, n}) = IF m <= n THEN m ELSE n
  <1>1. PICK l \in {m, n} : \A z \in {m, n} : l <= z
    OBVIOUS
  <1>2. Min({m, n}) \in {m, n} /\ \A z \in {m, n} : Min({m, n}) <= z
    BY <1>1 DEF Min
  <1>3. QED
    BY <1>2

LEMMA LargerOf ==
    ASSUME NEW m \in Int, NEW n \in Int
    PROVE  Max({m, n}) = IF m >= n THEN m ELSE n
  <1>1. PICK l \in {m, n} : \A z \in {m, n} : l >= z
    OBVIOUS
  <1>2. Max({m, n}) \in {m, n} /\ \A z \in {m, n} : Max({m, n}) >= z
    BY <1>1 DEF Max
  <1>3. QED
    BY <1>2

(* Where a chunk ends: in the text, or nowhere (-1).                       *)
LEMMA ChunkEnds ==
    ASSUME NEW x \in Texts, NEW start \in Nat, start < x.len
    PROVE  /\ ChunkEnd(x, start) \in Int /\ ChunkEnd(x, start) <= x.len
           /\ x.len \in Nat
  <1> DEFINE guess == Min({start + ChunkSize, x.len})
             before == {i \in x.spaces : i <= guess}
  <1>1. x.len \in Nat \ {0} /\ x.spaces \subseteq Nat /\ ChunkSize \in Nat \ {0}
    BY RagAssumption
  <1>2. guess \in Nat /\ guess <= x.len
    BY <1>1, SmallerOf
  <1>3. ChunkEnd(x, start) = IF guess = x.len THEN guess
                             ELSE IF before = {} THEN -1
                             ELSE IF Max(before) > start THEN Max(before) ELSE guess
    BY DEF ChunkEnd
  <1> HIDE DEF guess
  <1>4. before # {} => Max(before) \in Nat /\ Max(before) <= guess
    <2>1. before \subseteq 0..guess
      BY <1>1, <1>2
    <2> HIDE DEF before
    <2>2. ASSUME before # {}
          PROVE  Max(before) \in 0..guess
      BY <1>2, <2>1, <2>2, GreatestOf
    <2>3. QED
      BY <1>2, <2>2
  <1> HIDE DEF before
  <1>5. QED
    BY <1>1, <1>2, <1>3, <1>4

(* The next chunk starts inside the text, overlap and all.                 *)
LEMMA NextStarts ==
    ASSUME NEW e \in Int, NEW n \in Nat, e <= n, n > 0
    PROVE  NextStart(e) \in Nat /\ NextStart(e) < n
  <1>1. e - Overlap \in Int /\ 0 \in Int /\ Overlap \in Nat \ {0}
    BY RagAssumption
  <1>2. NextStart(e) = IF e - Overlap >= 0 THEN e - Overlap ELSE 0
    BY <1>1, LargerOf DEF NextStart
  <1>3. QED
    BY <1>1, <1>2

Jobs == [pc : {"idle", "split", "failed"}, text : Texts \union {<<>>}, start : Nat,
         chunks : 0..Memory]

(* An upload is never at the end of its text.                              *)
Splitting(k) ==
    k.pc \in {"split", "failed"} => k.text \in Texts /\ k.start < k.text.len
Unfinished == \A t \in RagThreads : Splitting(job[t])

RagInv ==
    /\ job \in [RagThreads -> Jobs] /\ uploads \in 0..MaxUploads
    /\ Unfinished

LEMMA IdleJobs == IdleJob \in Jobs /\ IdleJob.pc = "idle"
  <1>1. Memory \in Nat
    BY RagAssumption
  <1>2. QED
    BY <1>1 DEF IdleJob, Jobs

LEMMA RagInitially == InitRag => RagInv
  <1>1. 0 \in 0..MaxUploads
    BY RagAssumption
  <1>2. QED
    BY <1>1, IdleJobs DEF InitRag, RagInv, Unfinished, Splitting

LEMMA RagStep == RagInv /\ [NextRag]_ragVars => RagInv'
  <1> SUFFICES ASSUME RagInv, [NextRag]_ragVars
               PROVE  RagInv'
    OBVIOUS
  <1>1. /\ job \in [RagThreads -> Jobs] /\ uploads \in 0..MaxUploads
        /\ \A u \in RagThreads : Splitting(job[u])
        /\ Memory \in Nat /\ MaxUploads \in Nat
    BY RagAssumption DEF RagInv, Unfinished
  <1>2. ASSUME NEW t \in RagThreads, NEW k \in Jobs, Splitting(k),
               job' = [job EXCEPT ![t] = k], uploads' \in 0..MaxUploads
        PROVE  RagInv'
    BY <1>1, <1>2 DEF RagInv, Unfinished
  <1>3. ASSUME NEW t \in RagThreads, Upload(t)
        PROVE  RagInv'
    <2>1. PICK x \in Texts :
            job' = [job EXCEPT ![t] = [IdleJob EXCEPT !.pc = "split", !.text = x]]
      BY <1>3 DEF Upload
    <2> DEFINE k == [IdleJob EXCEPT !.pc = "split", !.text = x]
    <2>2. IdleJob \in Jobs /\ IdleJob.start = 0
      BY IdleJobs DEF IdleJob
    <2>3. x.len \in Nat \ {0}
      BY RagAssumption
    <2>4. k \in Jobs /\ k.pc = "split" /\ k.text = x /\ k.start = 0
      BY <2>2 DEF Jobs
    <2>5. k \in Jobs /\ Splitting(k)
      BY <2>3, <2>4 DEF Splitting
    <2>6. uploads' \in 0..MaxUploads
      BY <1>1, <1>3 DEF Upload
    <2>7. job' = [job EXCEPT ![t] = k]
      BY <2>1
    <2> HIDE DEF k
    <2>8. QED
      BY <1>2, <2>5, <2>6, <2>7
  <1>4. ASSUME NEW t \in RagThreads, SplitOne(t)
        PROVE  RagInv'
    <2> DEFINE j == job[t]
               s == NextStart(ChunkEnd(j.text, j.start))
               k == [j EXCEPT !.chunks = j.chunks + 1, !.start = s]
    <2>1. /\ j \in Jobs /\ j.pc = "split" /\ Splitting(j)
          /\ j.start < j.text.len /\ j.chunks < Memory /\ uploads' = uploads
      BY <1>1, <1>4 DEF SplitOne
    <2>2. job' = [job EXCEPT ![t] = k]
      BY <1>1, <1>4 DEF SplitOne
    <2>3. j.text \in Texts /\ j.start \in Nat /\ j.chunks \in 0..Memory
      BY <2>1 DEF Jobs, Splitting
    <2> HIDE DEF j
    <2>4. /\ ChunkEnd(j.text, j.start) \in Int /\ ChunkEnd(j.text, j.start) <= j.text.len
          /\ j.text.len \in Nat /\ j.text.len > 0
      BY <2>1, <2>3, ChunkEnds
    <2>5. s \in Nat /\ s < j.text.len
      BY <2>4, NextStarts
    <2> HIDE DEF s
    <2>6. j.chunks + 1 \in 0..Memory
      BY <1>1, <2>1, <2>3
    <2>7. k \in Jobs /\ k.text = j.text /\ k.start = s
      BY <2>1, <2>5, <2>6 DEF Jobs
    <2> HIDE DEF k
    <2>8. Splitting(k)
      BY <2>3, <2>5, <2>7 DEF Splitting
    <2>9. QED
      BY <1>1, <1>2, <2>1, <2>2, <2>7, <2>8
  <1>5. ASSUME NEW t \in RagThreads, SplitNoMemory(t)
        PROVE  RagInv'
    <2> DEFINE k == [job[t] EXCEPT !.pc = "failed"]
    <2>1. /\ job[t] \in Jobs /\ job[t].pc = "split" /\ Splitting(job[t])
          /\ job' = [job EXCEPT ![t] = k] /\ uploads' = uploads
      BY <1>1, <1>5 DEF SplitNoMemory
    <2>2. k \in Jobs /\ Splitting(k)
      BY <2>1 DEF Jobs, Splitting
    <2> HIDE DEF k
    <2>3. QED
      BY <1>1, <1>2, <2>1, <2>2
  <1>6. ASSUME NEW t \in RagThreads, Answered(t)
        PROVE  RagInv'
    <2>1. job' = [job EXCEPT ![t] = IdleJob] /\ uploads' = uploads
      BY <1>6 DEF Answered
    <2>2. IdleJob \in Jobs /\ Splitting(IdleJob)
      BY IdleJobs DEF Splitting
    <2>3. QED
      BY <1>1, <1>2, <2>1, <2>2
  <1>7. CASE UNCHANGED ragVars
    BY <1>7 DEF ragVars, RagInv, Unfinished
  <1>8. QED
    BY <1>3, <1>4, <1>5, <1>6, <1>7 DEF NextRag

LEMMA RagHolds == RagSpec => []RagInv
  BY RagInitially, RagStep, PTL DEF RagSpec

LEMMA RagTyped == RagInv => RagTypeOK
  BY DEF RagInv, RagTypeOK, Jobs

(* The variables of Rag keep their types.                                  *)
THEOREM RagTypes == RagSpec => []RagTypeOK
  BY RagTyped, RagHolds, PTL

(* While the text of an upload is split, its end is not reached: whatever  *)
(* the text, the chunk size and the memory, with an overlap the next chunk *)
(* starts inside the text.  UploadFits is violated for this reason.        *)
THEOREM SplittingNeverEnds == RagSpec => []Unfinished
  <1>1. RagInv => Unfinished
    BY DEF RagInv
  <1>2. QED
    BY <1>1, RagHolds, PTL
=============================================================================
