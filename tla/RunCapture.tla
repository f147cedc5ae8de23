------------------------------ MODULE RunCapture ------------------------------
(***************************************************************************)
(* osvgui::runCapture: a short command (the start-up probes) run to its    *)
(* end.  The caller waits, at most its time; a reader thread empties the   *)
(* pipe beside it.  What is left of the child afterwards is ended too.     *)
(***************************************************************************)
EXTENDS ChildProcess, FiniteSetsExt

CONSTANT MaxBytes    \* the cap on what is kept, in lines

ASSUME CaptureAssumption == MaxBytes \in Nat

VARIABLES
    caller,      \* where runCapture is
    reader,      \* reading, done
    result       \* timedOut, and how many lines of the output were kept

captureVars == <<proc, code, pipe, printed, child, caller, reader, result>>

\* The child was started and so was the reader.
CaptureInit ==
    /\ proc = [p \in Procs |-> IF p = "leader" THEN "alive" ELSE "none"]
    /\ code = "none" /\ pipe = 0 /\ printed = 0 /\ child = NewChild
    /\ caller = "wait" /\ reader = "reading"
    /\ result = [timedOut |-> FALSE, output |-> 0]

Keep(got) == Min({result.output + got, MaxBytes})

Read ==
    /\ reader = "reading" /\ pipe > 0
    /\ \E got \in 1 .. pipe :
          pipe' = pipe - got /\ result' = [result EXCEPT !.output = Keep(got)]
    /\ UNCHANGED <<proc, code, printed, child, caller, reader>>

CaptureEnd ==
    /\ reader = "reading" /\ EndOfStream
    /\ reader' = "done"
    /\ UNCHANGED <<os, child, caller, result>>

\* child.wait(timeoutMs) finds it gone; child.kill() then does nothing,
\* because the child was reaped.
Waited ==
    /\ caller = "wait" /\ LeaderGone
    /\ Reap /\ caller' = "kill"
    /\ UNCHANGED <<pipe, printed, reader, result>>

TimesOut ==
    /\ caller = "wait" /\ ~LeaderGone
    /\ result' = [result EXCEPT !.timedOut = TRUE] /\ caller' = "kill"
    /\ UNCHANGED <<os, child, reader>>

KillTree ==
    /\ caller = "kill"
    /\ Kill /\ caller' = IF result.timedOut THEN "rewait" ELSE "join"
    /\ UNCHANGED <<pipe, printed, reader, result>>

\* child.wait(10000): the grace period is over long before it.
Rewaited ==
    /\ caller = "rewait" /\ LeaderGone
    /\ Reap /\ caller' = "join"
    /\ UNCHANGED <<pipe, printed, reader, result>>

CallerEscalates ==
    /\ caller = "rewait" /\ Escalate
    /\ UNCHANGED <<pipe, printed, caller, reader, result>>

\* Mutant: the reader is not waited for.
ReturnAtOnce ==
    /\ caller = "join"
    /\ Destruct /\ caller' = "returned"
    /\ UNCHANGED <<pipe, printed, reader, result>>

\* reader.join(), and the destructor.
Return ==
    /\ caller = "join" /\ reader = "done"
    /\ Destruct /\ caller' = "returned"
    /\ UNCHANGED <<pipe, printed, reader, result>>

Caller == Waited \/ TimesOut \/ KillTree \/ Rewaited \/ CallerEscalates \/ Return
Reader == Read \/ CaptureEnd

Command == Fork \/ Write \/ Works \/ GraceOver \/ (\E p \in Procs : Exit(p))

CaptureDone == caller = "returned" /\ UNCHANGED captureVars

CaptureNext == Caller \/ Reader \/ (Command /\ UNCHANGED <<caller, reader, result>>) \/ CaptureDone
CaptureSpec == CaptureInit /\ [][CaptureNext]_captureVars

\* Both threads run, time passes, and what is to end ends.
CaptureFairness ==
    /\ WF_captureVars(Caller) /\ WF_captureVars(Reader)
    /\ WF_captureVars(GraceOver /\ UNCHANGED <<caller, reader, result>>)
    /\ \A p \in Procs : WF_captureVars(ExitInTime(p) /\ UNCHANGED <<caller, reader, result>>)

FairCaptureSpec == CaptureSpec /\ CaptureFairness

-----------------------------------------------------------------------------
(* Properties. *)

\* The types of the variables; the output never passes its cap.
CaptureTypeOK ==
    /\ ChildTypeOK
    /\ caller \in {"wait", "kill", "rewait", "join", "returned"}
    /\ reader \in {"reading", "done"}
    /\ result \in [timedOut : BOOLEAN, output : 0 .. MaxBytes]

\* What runCapture returns is the whole output up to the cap, with nobody left
\* who could still print, and a command that was in time has its own exit code.
CaptureIsComplete ==
    caller = "returned" =>
        /\ EndOfStream /\ child.reaped
        /\ result.output = Min({printed, MaxBytes})
        /\ code # "none" /\ (~result.timedOut => code \in {"ok", "failed"})

\* runCapture returns.  Runner.cpp:685: "It exited; anything it left behind
\* holding the pipe open would keep the reader waiting forever, so the tree is
\* ended too."
CallerReturns == <>(caller = "returned")
==============================================================================
