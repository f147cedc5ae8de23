--------------------------- MODULE MCGpuFrameCache ---------------------------
(***************************************************************************)
(* Small clips for TLC.  In Clip both lenses can start at frame 0; lens 0  *)
(* lost its picture at frame 2 and starts again at 3, lens 1 starts at 2.  *)
(***************************************************************************)
EXTENDS GpuFrameCache, TLC

CONSTANTS c1, c2

MCCallers == {c1, c2}
MCSyncs == [l \in {0, 1} |-> IF l = 0 THEN {0, 3} ELSE {0, 2}]
MCRuns == {[first |-> 2, end |-> 3]}
==============================================================================
