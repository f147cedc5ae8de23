---------------------------- MODULE MCSteadyStage ----------------------------
(* Two instances of one clip; see README, "Runs". *)
EXTENDS SteadyStage, TLC

CONSTANTS s1, s2, rig, blend, params

\* A correction through a turned rig, and one through a mount mask.
MCRequests == {[rotation |-> rig, mount |-> None, clip |-> params],
               [rotation |-> None, mount |-> blend, clip |-> params]}
=============================================================================
