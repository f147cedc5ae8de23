-------------------------- MODULE MCGpuSlotRelease --------------------------
(***************************************************************************)
(* One slot that is refilled, trimmed and leased by two consumers, with a  *)
(* copy stream per lens.                                                   *)
(***************************************************************************)
EXTENDS GpuSlotRelease, TLC

CONSTANTS c1, c2, q0, q1, e1, e2, e3

MCConsumers == {c1, c2}
MCStreams == {q0, q1}
MCStreamOf == [l \in {0, 1} |-> IF l = 0 THEN q0 ELSE q1]
MCEvents == {e1, e2, e3}

Symmetric == Permutations(MCConsumers) \cup Permutations(MCEvents) \cup Permutations(Memory)
==============================================================================
