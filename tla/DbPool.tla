------------------------------- MODULE DbPool -------------------------------
(***************************************************************************)
(* DbConnectionPool (src/src/http/db_connection_pool.cpp).  Every method   *)
(* runs under mutex_ from its first to its last line, the pings and the    *)
(* connect included, so each is one atomic step here.  A connection is its *)
(* identity: whether the MySQL server still answers it is `alive', which   *)
(* the environment takes away at any time.                                 *)
(***************************************************************************)
EXTENDS Integers, Sequences, FiniteSets

CONSTANTS Conns,           \* the connections that can ever be opened
          MaxConnections   \* DbConfig::max_connections

ASSUME PoolAssumption == MaxConnections \in Nat

VARIABLES idle,    \* idle_: the queue of returned connections
          active,  \* active_count_
          lent,    \* the connections that callers hold
          alive,   \* the open connections that still answer a ping
          strays   \* how many loans the last Drain wrote off (history)

poolVars == <<idle, active, lent, alive, strays>>

PoolTypeOK ==
    /\ idle \in Seq(Conns)
    /\ active \in Int
    /\ lent \in SUBSET Conns /\ IsFiniteSet(lent)
    /\ alive \in SUBSET Conns
    /\ strays \in Nat

InitPool ==
    /\ idle = <<>> /\ active = 0
    /\ lent = {} /\ alive = {} /\ strays = 0

InIdle(c) == \E i \in 1..Len(idle) : idle[i] = c

-----------------------------------------------------------------------------
(* Get *)

\* The first idle connection that answers is lent; the dead ones before it are
\* popped and closed.
GetIdle ==
    \E i \in 1..Len(idle) :
        /\ idle[i] \in alive
        /\ \A j \in 1..(i - 1) : idle[j] \notin alive
        /\ idle' = SubSeq(idle, i + 1, Len(idle))
        /\ active' = active + 1
        /\ lent' = lent \union {idle[i]}
        /\ UNCHANGED <<alive, strays>>

AllIdleDead == \A i \in 1..Len(idle) : idle[i] \notin alive

\* Seeded fault: one connection too many.
AtLimitLate == active > MaxConnections
\* By the time the limit is tested idle_ is empty.
AtLimit == active >= MaxConnections

GetConnects ==
    /\ AllIdleDead
    /\ ~AtLimit
    /\ \E c \in Conns :
          /\ c \notin lent /\ ~InIdle(c)
          /\ lent' = lent \union {c}
          /\ alive' = alive \union {c}
    /\ idle' = <<>>
    /\ active' = active + 1
    /\ UNCHANGED strays

\* Nothing is lent: the limit is reached, or Connect fails.  The dead
\* connections are gone all the same.
GetRefused ==
    /\ AllIdleDead
    /\ idle' = <<>>
    /\ UNCHANGED <<active, lent, alive, strays>>

-----------------------------------------------------------------------------
(* Return, Drain and the environment *)

Return(c) ==
    /\ c \in lent
    /\ lent' = lent \ {c}
    /\ active' = active - 1
    /\ idle' = IF c \in alive THEN Append(idle, c) ELSE idle
    /\ UNCHANGED <<alive, strays>>

\* Drain closes what is idle and resets the count, whoever still holds a
\* connection: those loans are written off.
Drain ==
    /\ idle' = <<>>
    /\ active' = 0
    /\ strays' = Cardinality(lent)
    /\ UNCHANGED <<lent, alive>>

\* The server drops a connection (wait_timeout, restart, network).
Break(c) ==
    /\ c \in alive
    /\ alive' = alive \ {c}
    /\ UNCHANGED <<idle, active, lent, strays>>

NextPool ==
    \/ GetIdle \/ GetConnects \/ GetRefused \/ Drain
    \/ \E c \in Conns : Return(c) \/ Break(c)

PoolSpec == InitPool /\ [][NextPool]_poolVars

-----------------------------------------------------------------------------
\* However it is used, the pool keeps at most max_connections connections
\* open beyond those that were lent when it was last drained: no order of
\* deaths, refusals, returns and drains makes the count drift further.  It is
\* exact (max_connections) as long as nothing was lent at a Drain.
PoolWithinLimit == Cardinality(lent) + Len(idle) <= MaxConnections + strays
=============================================================================
