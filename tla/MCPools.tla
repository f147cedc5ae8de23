-------------------------------- MODULE MCPools --------------------------------
(* The thread pool on two workers and two callers, and the idle pool on two     *)
(* items, two users and two reapers: one or the other per behaviour, since they *)
(* share nothing; see README, "Runs".                                           *)
EXTENDS ThreadPool, IdlePool, TLC

CONSTANTS t1, t2, a1, a2, r1, r2

VARIABLE which    \* the pool this behaviour is of

\* Two chunks with a short last one, one chunk, and nothing (a zero grain).
MCRanges == {[begin |-> 1, end |-> 4, grain |-> 2], [begin |-> 0, end |-> 1, grain |-> 0],
             [begin |-> 2, end |-> 2, grain |-> 1]}

\* Two items under one key.
MCKeyOf == a1 :> "key" @@ a2 :> "key"

ASSUME PoolAssumption

MCSymmetry == Permutations({t1, t2}) \cup Permutations({a1, a2}) \cup Permutations({r1, r2})

Start ==
    /\ which \in {"threads", "idle"} /\ Init /\ IdleInit
    \* one initial state of the other, and an idle pool that parks
    /\ maxIdle = 1 \/ (which = "idle" /\ maxIdle = 2)
    /\ which = "idle" => \A c \in Callers : job[c] = NewJob(CHOOSE r \in Ranges : TRUE, 0)

Step ==
    \/ which = "threads" /\ UNCHANGED <<which, idleVars>> /\ Next
    \/ which = "idle" /\ UNCHANGED <<which, vars>> /\ IdleNext

PoolsSpec == Start /\ [][Step]_<<which, vars, idleVars>>
=============================================================================
