----------------------------- MODULE ChildProcess -----------------------------
(***************************************************************************)
(* osvgui::ChildProcess (POSIX): the tool that renders, the ffmpeg it      *)
(* starts, the pipe both write to, and how they are ended and waited for.  *)
(*                                                                         *)
(* The operating system is external: processes run, print, exit, and obey  *)
(* or ignore SIGTERM as the constants say; nobody survives SIGKILL.  A     *)
(* line of output is counted, not shown.  The modules that extend this one *)
(* give the threads that use the object.                                   *)
(***************************************************************************)
EXTENDS Integers, FiniteSets

CONSTANTS Stubborn,   \* processes that ignore SIGTERM
          Resident,   \* processes that need not end unless they are told to
          MaxLines,   \* bound: lines one run prints
          PipeSize    \* lines the pipe holds before its writers block

Procs == {"leader", "helper"}

ASSUME ChildAssumption ==
    Stubborn \subseteq Procs /\ Resident \subseteq Procs /\ MaxLines \in Nat /\ PipeSize \in Nat \ {0}

VARIABLES
    proc,       \* each process: none, alive, ending (SIGTERM took), dead
    code,       \* how the leader exited
    pipe,       \* lines written and not read
    printed,    \* lines written by this run
    child       \* ChildProcess::Impl: reaped, killRequested, escalated, and whether 3 s have passed since

os == <<proc, code, pipe, printed>>

NewChild == [reaped |-> FALSE, killRequested |-> FALSE, escalated |-> FALSE, graceOver |-> FALSE]

NoProcess == proc = [p \in Procs |-> "none"] /\ code = "none" /\ pipe = 0 /\ printed = 0 /\ child = NewChild

Writers == {p \in Procs : proc[p] \in {"alive", "ending"}}
EndOfStream == pipe = 0 /\ Writers = {}

\* posix_spawn: a process group of its own, its output in the pipe.
Spawn ==
    /\ proc' = [p \in Procs |-> IF p = "leader" THEN "alive" ELSE "none"]
    /\ code' = "none" /\ pipe' = 0 /\ printed' = 0 /\ child' = NewChild

-----------------------------------------------------------------------------
(* The operating system. *)

Fork ==
    /\ proc["leader"] = "alive" /\ proc["helper"] = "none"
    /\ proc' = [proc EXCEPT !["helper"] = "alive"]
    /\ UNCHANGED <<code, pipe, printed, child>>

Write ==
    /\ Writers # {} /\ pipe < PipeSize /\ printed < MaxLines
    /\ pipe' = pipe + 1 /\ printed' = printed + 1
    /\ UNCHANGED <<proc, code, child>>

\* A process ends: by itself, successfully or not, or because it was told to.
Exit(p) ==
    /\ p \in Writers
    /\ proc' = [proc EXCEPT ![p] = "dead"]
    /\ code' \in IF p # "leader" THEN {code}
                 ELSE IF proc[p] = "ending" THEN {"killed"} ELSE {"ok", "failed"}
    /\ UNCHANGED <<pipe, printed, child>>

\* What must end some day.
ExitInTime(p) == (proc[p] = "ending" \/ p \notin Resident) /\ Exit(p)

GraceOver ==
    /\ child.killRequested /\ ~child.graceOver
    /\ child' = [child EXCEPT !.graceOver = TRUE]
    /\ UNCHANGED os

\* A process works without a word.
Works == Writers # {} /\ UNCHANGED <<proc, code, pipe, printed, child>>

-----------------------------------------------------------------------------
(* The calls.  Each names the whole next state of proc, code and child. *)

Signalled(group) == [p \in Procs |-> IF p \in group \cap (Writers \ Stubborn) THEN "ending" ELSE proc[p]]

\* Mutant: the leader alone is told.
KillLeader ==
    IF child.reaped \/ child.killRequested THEN UNCHANGED <<proc, code, child>>
    ELSE /\ proc' = Signalled({"leader"})
         /\ child' = [child EXCEPT !.killRequested = TRUE]
         /\ UNCHANGED code

\* kill(): SIGTERM to the group, once and not after the child was reaped.
Kill ==
    IF child.reaped \/ child.killRequested THEN UNCHANGED <<proc, code, child>>
    ELSE /\ proc' = Signalled(Procs)
         /\ child' = [child EXCEPT !.killRequested = TRUE]
         /\ UNCHANGED code

\* SIGKILL to the group.
Slay ==
    /\ proc' = [p \in Procs |-> IF p \in Writers THEN "dead" ELSE proc[p]]
    /\ code' = IF "leader" \in Writers THEN "killed" ELSE code

LeaderGone == child.reaped \/ proc["leader"] = "dead"

\* wait(): the leader is gone, its exit code is kept.
Reap == LeaderGone /\ child' = [child EXCEPT !.reaped = TRUE] /\ UNCHANGED <<proc, code>>

\* Mutant: wait() trusts SIGTERM.
NeverEscalate == FALSE /\ UNCHANGED <<proc, code, child>>

\* One pass of wait()'s loop that does not find the leader gone: a child that
\* ignores SIGTERM for 3 s gets SIGKILL.
Escalate ==
    /\ ~LeaderGone
    /\ child.killRequested /\ child.graceOver /\ ~child.escalated
    /\ Slay /\ child' = [child EXCEPT !.escalated = TRUE]

\* The destructor: a child that was not waited for is killed first.
Destruct ==
    IF LeaderGone THEN Reap ELSE Slay /\ child' = [child EXCEPT !.reaped = TRUE]

ChildTypeOK ==
    /\ proc \in [Procs -> {"none", "alive", "ending", "dead"}]
    /\ code \in {"none", "ok", "failed", "killed"}
    /\ pipe \in 0 .. PipeSize /\ printed \in 0 .. MaxLines
    /\ child \in [reaped : BOOLEAN, killRequested : BOOLEAN, escalated : BOOLEAN, graceOver : BOOLEAN]
==============================================================================
