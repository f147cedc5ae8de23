----------------------------- MODULE ParallelFor -----------------------------
(***************************************************************************)
(* What osv::ThreadPool promises its callers (ThreadPool.h, the comment of *)
(* parallelFor): calls run one at a time, each visits every index of its   *)
(* range, and it returns an error exactly when its body threw.             *)
(***************************************************************************)
EXTENDS Integers

CONSTANTS Callers,   \* threads that call
          Sets       \* the sets of indices they may ask for

VARIABLES phase,     \* "idle", "queued" or "running"
          left,      \* the indices of the call not visited yet
          threw,     \* whether the body of the call threw
          result     \* what the caller's last call returned

vars == <<phase, left, threw, result>>

Init ==
    /\ phase = [c \in Callers |-> "idle"]
    /\ left = [c \in Callers |-> {}]
    /\ threw = [c \in Callers |-> FALSE]
    /\ result = [c \in Callers |-> "none"]

\* A call that has nothing to do is answered at once.
Trivial(c) ==
    /\ phase[c] = "idle"
    /\ \E answer \in {"ok", "invalid"} : result' = [result EXCEPT ![c] = answer]
    /\ UNCHANGED <<phase, left, threw>>

Enter(c) ==
    /\ phase[c] = "idle"
    /\ phase' = [phase EXCEPT ![c] = "queued"]
    /\ \E S \in Sets : left' = [left EXCEPT ![c] = S]
    /\ result' = [result EXCEPT ![c] = "none"]
    /\ UNCHANGED threw

\* One call at a time.
Begin(c) ==
    /\ phase[c] = "queued" /\ \A d \in Callers : phase[d] # "running"
    /\ phase' = [phase EXCEPT ![c] = "running"]
    /\ UNCHANGED <<left, threw, result>>

\* Somebody visits some of the indices; the body may throw.
Visit(c) ==
    /\ phase[c] = "running"
    /\ \E S \in SUBSET left[c] : left' = [left EXCEPT ![c] = @ \ S]
    /\ \E t \in {threw[c], TRUE} : threw' = [threw EXCEPT ![c] = t]
    /\ UNCHANGED <<phase, result>>

\* The call returns: everything visited, unless the body threw.
Finish(c) ==
    /\ phase[c] = "running" /\ (left[c] = {} \/ threw[c])
    /\ phase' = [phase EXCEPT ![c] = "idle"]
    /\ left' = [left EXCEPT ![c] = {}]
    /\ threw' = [threw EXCEPT ![c] = FALSE]
    /\ result' = [result EXCEPT ![c] = IF threw[c] THEN "error" ELSE "ok"]

Next == \E c \in Callers : Trivial(c) \/ Enter(c) \/ Begin(c) \/ Visit(c) \/ Finish(c)

Spec == Init /\ [][Next]_vars
=============================================================================
