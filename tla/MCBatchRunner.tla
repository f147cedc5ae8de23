---------------------------- MODULE MCBatchRunner ----------------------------
(* BatchRunner on one or two clips of one name, as a camera gives it to clips in *)
(* two folders; see README, "Runs".                                              *)
EXTENDS BatchRunner, TLC

CONSTANTS k1, k2

MCNameOf == [i \in Items |-> "a_360.mp4"]
MCItems == Permutations({k1, k2})
==============================================================================
