------------------------------ MODULE FrameOutput ------------------------------
(***************************************************************************)
(* What osvtool render promises of its output: the frames asked for, in    *)
(* order, each with its own picture; success only when all are there.      *)
(***************************************************************************)
EXTENDS Sequences, Naturals

CONSTANTS Last,          \* how many frames are asked for
          Picture        \* the picture of each: Picture[tf]

VARIABLES output,        \* the pictures in the output so far
          result         \* "none" until the command ends, then "ok" or "error"

vars == <<output, result>>

Init == output = <<>> /\ result = "none"

Write ==
    /\ result = "none" /\ Len(output) < Last
    /\ output' = Append(output, Picture[Len(output) + 1])
    /\ UNCHANGED result

Succeed == result = "none" /\ Len(output) = Last /\ result' = "ok" /\ UNCHANGED output
Fail == result = "none" /\ result' = "error" /\ UNCHANGED output

Next == Write \/ Succeed \/ Fail

Spec == Init /\ [][Next]_vars
=============================================================================
