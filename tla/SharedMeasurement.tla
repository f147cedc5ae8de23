--------------------------- MODULE SharedMeasurement ---------------------------
(***************************************************************************)
(* What the instances of a clip promise each other: an answer everyone     *)
(* needs is measured by one worker at a time, never while it is known, and *)
(* a worker that gives up leaves the key to whoever comes next.            *)
(***************************************************************************)
EXTENDS FiniteSets

CONSTANTS Workers, Keys,
          Evictable    \* among them, the keys whose answers a full cache may forget

VARIABLES
    answered,    \* the keys whose answer is known
    measuring    \* which workers hold which keys, as pairs

vars == <<answered, measuring>>

Held == {hold[2] : hold \in measuring}

Init == answered \in SUBSET Keys /\ measuring = {}

Claim(w, k) ==
    /\ k \notin answered /\ k \notin Held
    /\ measuring' = measuring \cup {<<w, k>>}
    /\ UNCHANGED answered

\* The answer and the end of the claim are one step: nobody finds neither.
Answer(w, k) ==
    /\ <<w, k>> \in measuring
    /\ measuring' = measuring \ {<<w, k>>}
    /\ k \in answered' /\ answered' \subseteq answered \cup {k}
    /\ answered \ answered' \subseteq Evictable

Abandon(w, k) ==
    /\ <<w, k>> \in measuring
    /\ measuring' = measuring \ {<<w, k>>}
    /\ UNCHANGED answered

Next == \E w \in Workers, k \in Keys : Claim(w, k) \/ Answer(w, k) \/ Abandon(w, k)

Spec == Init /\ [][Next]_vars
=============================================================================
