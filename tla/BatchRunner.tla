------------------------------ MODULE BatchRunner ------------------------------
(***************************************************************************)
(* The batch of the Studio app: App's queue and batch on the UI thread,    *)
(* ProcessRunner and its worker thread, and the child process it reads.    *)
(*                                                                         *)
(* The UI thread is a loop: take the new log lines, look at the runner's   *)
(* state, settle a finished clip, start the next ones, then draw a frame   *)
(* in which the user may press one button.  The queue's order is the       *)
(* user's to change at any time, so the first queued clip is any of them.  *)
(***************************************************************************)
EXTENDS ChildProcess, Absence, FiniteSetsExt

CONSTANTS Items,       \* the clips the user may queue
          NameOf,      \* outputPathFor(): where each clip's render goes
          MaxSuffix,   \* how many names one path gives: itself, " (2)", .. (999 in the code)
          LineCap      \* lines kept for a UI that does not take them

ASSUME BatchAssumption ==
    None \notin Items /\ IsFiniteSet(Items) /\ MaxSuffix \in Nat \ {0} /\ LineCap \in Nat \ {0}

Outputs == {NameOf[c] : c \in Items} \X (1 .. MaxSuffix)

VARIABLES
    ui,        \* where the UI thread is
    batch,     \* m_batch: active, pauseAfterCurrent, skipExisting, currentId, outputExisted, outputs
    status,    \* each clip: absent from the queue, or its ClipStatus
    output,    \* each clip's ClipItem::output, a file
    onDisk,      \* each file: absent, unfinished, finished
    overtaken, \* not in the code: the clips shown as Done whose file was given to another since
    picked,    \* the clip the child was started for
    seen,      \* the RunnerState that finishClip() decides by
    runner,    \* m_state: finished, stopRequested, exitCode
    runnerBusy, \* m_busy
    workerAt,  \* where the worker thread is
    held,      \* an incomplete line in the worker's LineSplitter
    lines      \* how many of the run's lines are in m_lines

files == <<output, onDisk, overtaken>>
app == <<ui, batch, status, files, picked, seen>>
run == <<runner, runnerBusy, workerAt, held, lines>>
batchVars == <<proc, code, pipe, printed, child, app, run>>

NewRunner == [finished |-> FALSE, stopRequested |-> FALSE, exitCode |-> "none"]
NoBatch == [active |-> FALSE, pauseAfter |-> FALSE, skip |-> FALSE, current |-> None, existed |-> FALSE,
            outputs |-> {}]

Queued == {c \in Items : status[c] = "Queued"}
FinishedStatus == {"Done", "Failed", "Stopped", "Skipped"}

BatchInit ==
    /\ NoProcess
    /\ ui = "poll" /\ batch = NoBatch
    /\ status = [c \in Items |-> "absent"] /\ output = [c \in Items |-> None]
    /\ onDisk = [f \in Outputs |-> "absent"] /\ overtaken = {}
    /\ picked = None /\ seen = NewRunner
    /\ runner = NewRunner /\ runnerBusy = FALSE /\ workerAt = "none" /\ held = 0 /\ lines = 0

-----------------------------------------------------------------------------
(* The tool: its ffmpeg (-y) opens the output, a successful exit completes *)
(* it.                                                                     *)

ToolForks ==
    /\ Fork /\ onDisk' = [onDisk EXCEPT ![output[picked]] = "unfinished"]
    /\ UNCHANGED <<ui, batch, status, output, overtaken, picked, seen, run>>

ToolExits(p) ==
    /\ Exit(p)
    /\ onDisk' = IF p = "leader" /\ code' = "ok" THEN [onDisk EXCEPT ![output[picked]] = "finished"] ELSE onDisk
    /\ UNCHANGED <<ui, batch, status, output, overtaken, picked, seen, run>>

ToolWrites == Write /\ UNCHANGED <<app, run>>
Grace == GraceOver /\ UNCHANGED <<app, run>>
ToolWorks == Works /\ UNCHANGED <<app, run>>

-----------------------------------------------------------------------------
(* ProcessRunner::worker *)

\* publish(): a UI that stopped taking lines loses those over the cap.
PublishLines(whole) == lines' = Min({lines + whole, LineCap})

\* read(): some of the pipe, of which the last line may be incomplete.
ReadPipe ==
    /\ workerAt = "reading" /\ pipe > 0
    /\ \E got \in 1 .. pipe, rest \in {0, 1} :
          /\ pipe' = pipe - got
          /\ held' = rest
          /\ PublishLines(held + got - rest)
    /\ UNCHANGED <<proc, code, printed, child, app, runner, runnerBusy, workerAt>>

\* Mutant: the worker waits for the tool alone, not for everyone who prints.
ReadUntilLeaderGone ==
    /\ workerAt = "reading" /\ LeaderGone
    /\ PublishLines(held) /\ held' = 0 /\ workerAt' = "waiting"
    /\ UNCHANGED <<proc, code, pipe, printed, child, app, runner, runnerBusy>>

\* The end of the stream: every writer is gone.
ReadEnd ==
    /\ workerAt = "reading" /\ EndOfStream
    /\ PublishLines(held) /\ held' = 0 /\ workerAt' = "waiting"
    /\ UNCHANGED <<proc, code, pipe, printed, child, app, runner, runnerBusy>>

\* Out of memory with a piece of the pipe in hand: end the child, report a failure.
ReadThrows ==
    /\ workerAt = "reading" /\ pipe > 0
    /\ pipe' \in 0 .. pipe - 1 /\ held' = 0
    /\ Kill /\ workerAt' = "failing"
    /\ UNCHANGED <<printed, app, runner, runnerBusy, lines>>

WorkerReaps ==
    /\ workerAt \in {"waiting", "failing"}
    /\ Reap
    /\ workerAt' = IF workerAt = "waiting" THEN "exited" ELSE "failed"
    /\ UNCHANGED <<pipe, printed, app, runner, runnerBusy, held, lines>>

WorkerEscalates ==
    /\ workerAt \in {"waiting", "failing"}
    /\ Escalate
    /\ UNCHANGED <<pipe, printed, app, run>>

\* Mutant: the worker leaves without saying so.
WorkerEndsSilently ==
    /\ workerAt \in {"exited", "failed"}
    /\ workerAt' = "done" /\ UNCHANGED <<os, child, app, runner, runnerBusy, held, lines>>

WorkerEnds ==
    /\ workerAt \in {"exited", "failed"}
    /\ runner' = [runner EXCEPT !.finished = TRUE, !.exitCode = IF workerAt = "exited" THEN code ELSE "none"]
    /\ workerAt' = "done"
    /\ UNCHANGED <<os, child, app, runnerBusy, held, lines>>

WorkerStep == ReadPipe \/ ReadEnd \/ WorkerReaps \/ WorkerEscalates \/ WorkerEnds

-----------------------------------------------------------------------------
(* pollBackground *)

\* takeLines(), then the clip in flight if there is one.
Poll ==
    /\ ui = "poll"
    /\ lines' = 0
    /\ ui' = IF batch.current = None THEN "next" ELSE "look"
    /\ UNCHANGED <<os, child, batch, status, files, picked, seen, runner, runnerBusy, workerAt, held>>

\* state(): a copy, and finishClip() decides by one.
LookAtRunner ==
    /\ ui = "look"
    /\ IF runner.finished THEN ui' = "finish" /\ seen' = runner ELSE ui' = "next" /\ UNCHANGED seen
    /\ UNCHANGED <<os, child, batch, status, files, picked, run>>

Outcome == IF seen.stopRequested THEN "Stopped" ELSE IF seen.exitCode = "ok" THEN "Done" ELSE "Failed"

Tidied == IF ~batch.existed THEN [onDisk EXCEPT ![output[batch.current]] = "absent"] ELSE onDisk

\* The batch after a clip: a stop or a pause ends it, and what an ended batch held is
\* not read again.
After ==
    IF batch.active /\ Outcome # "Stopped" /\ ~batch.pauseAfter THEN [batch EXCEPT !.current = None]
    ELSE NoBatch

\* finishClip(): reset() joins the worker and destroys the child.
FinishClip ==
    /\ ui = "finish" /\ workerAt = "done"
    /\ Destruct
    /\ runnerBusy' = FALSE /\ workerAt' = "none"
    /\ status' = [status EXCEPT ![batch.current] = Outcome]
    /\ onDisk' = IF Outcome = "Stopped" THEN Tidied ELSE onDisk
    /\ batch' = After
    /\ ui' = "next" /\ picked' = None /\ seen' = NewRunner
    /\ UNCHANGED <<pipe, printed, output, overtaken, runner, held, lines>>

NextWanted == batch.active /\ ~runnerBusy /\ batch.current = None

\* finishBatch(): nothing is queued any more.
FinishBatch ==
    /\ ui = "next" /\ NextWanted /\ Queued = {}
    /\ batch' = NoBatch
    /\ UNCHANGED <<os, child, ui, status, files, picked, seen, run>>

\* Mutant: names are not kept apart.
FirstName(c) == {<<NameOf[c], 1>>}

\* Two clips never share an output within a batch: the first name that none of its
\* clips was given, or else the last.
OutputFor(c) ==
    LET Taken(n) == <<NameOf[c], n>> \in batch.outputs
        Suffix == {n \in 1 .. MaxSuffix : (\A m \in 1 .. n - 1 : Taken(m)) /\ (Taken(n) => n = MaxSuffix)}
    IN  {NameOf[c]} \X Suffix

\* The clips shown as Done that lose the file f to clip c: those of earlier batches,
\* and any once the names ran out.
LosersOf(c, f) ==
    {d \in Items \ {c} : /\ status[d] = "Done" /\ output[d] = f
                         /\ f \in batch.outputs => {NameOf[c]} \X (1 .. MaxSuffix) \subseteq batch.outputs}

Given(c, f) ==
    /\ ui = "next" /\ NextWanted /\ c \in Queued /\ f \in OutputFor(c)
    /\ output' = [output EXCEPT ![c] = f]

\* "Skip clips already rendered": the file exists and is not empty.
SkipClip(c, f) ==
    /\ Given(c, f) /\ batch.skip /\ onDisk[f] # "absent"
    /\ status' = [status EXCEPT ![c] = "Skipped"]
    /\ batch' = [batch EXCEPT !.outputs = @ \cup {f}]
    /\ UNCHANGED <<os, child, ui, onDisk, overtaken, picked, seen, run>>

\* What ffmpeg has only opened may still be empty.
NotSkipped(f) == batch.skip => onDisk[f] # "finished"

\* The output folder, or the child, cannot be created.
StartFails(c, f) ==
    /\ Given(c, f) /\ NotSkipped(f)
    /\ status' = [status EXCEPT ![c] = "Failed"]
    /\ batch' = [batch EXCEPT !.outputs = @ \cup {f}]
    /\ UNCHANGED <<os, child, ui, onDisk, overtaken, picked, seen, run>>

\* ProcessRunner::start() up to its worker thread.
StartChild(c, f) ==
    /\ Given(c, f) /\ NotSkipped(f)
    /\ Spawn /\ runner' = NewRunner /\ lines' = 0 /\ runnerBusy' = TRUE
    /\ picked' = c /\ overtaken' = overtaken \cup LosersOf(c, f)
    /\ batch' = [batch EXCEPT !.outputs = @ \cup {f}, !.existed = onDisk[f] # "absent"]
    /\ ui' = "thread"
    /\ UNCHANGED <<status, onDisk, seen, workerAt, held>>

StartThread ==
    /\ ui = "thread"
    /\ workerAt' = "reading"
    /\ status' = [status EXCEPT ![picked] = "Rendering"]
    /\ batch' = [batch EXCEPT !.current = picked]
    /\ ui' = "next"
    /\ UNCHANGED <<os, child, files, picked, seen, runner, runnerBusy, held, lines>>

\* No thread: end the child right away.
NoThread ==
    /\ ui = "thread"
    /\ Kill /\ ui' = "unthread"
    /\ UNCHANGED <<pipe, printed, batch, status, files, picked, seen, run>>

NoThreadEscalates ==
    /\ ui = "unthread" /\ Escalate
    /\ UNCHANGED <<pipe, printed, app, run>>

\* wait(5000): the grace period is over before it, so the leader is gone.
NoThreadReaps ==
    /\ ui = "unthread" /\ Reap
    /\ runnerBusy' = FALSE /\ status' = [status EXCEPT ![picked] = "Failed"]
    /\ ui' = "next" /\ picked' = None
    /\ UNCHANGED <<pipe, printed, batch, files, seen, runner, workerAt, held, lines>>

ToFrame ==
    /\ ui = "next" /\ ~NextWanted
    /\ ui' = "frame"
    /\ UNCHANGED <<os, child, batch, status, files, picked, seen, run>>

-----------------------------------------------------------------------------
(* The frame: at most one button. *)

NoButton ==
    /\ ui = "frame" /\ ui' = "poll"
    /\ UNCHANGED <<os, child, batch, status, files, picked, seen, run>>

\* startBatch(): the settings are a snapshot; the first clip starts at once.
StartBatch(skip) ==
    /\ ui = "frame" /\ ~batch.active /\ Queued # {}
    /\ batch' = [NoBatch EXCEPT !.active = TRUE, !.skip = skip]
    /\ ui' = "next"
    /\ UNCHANGED <<os, child, status, files, picked, seen, run>>

TogglePause ==
    /\ ui = "frame" /\ batch.active
    /\ batch' = [batch EXCEPT !.pauseAfter = ~@]
    /\ ui' = "poll"
    /\ UNCHANGED <<os, child, status, files, picked, seen, run>>

\* ProcessRunner::stop()
AskToStop == runnerBusy /\ runner' = [runner EXCEPT !.stopRequested = TRUE] /\ Kill

\* Mutant: the batch ends at once, its clip later.
StopBatchNow ==
    /\ ui = "frame" /\ batch.active
    /\ AskToStop
    /\ batch' = [batch EXCEPT !.active = FALSE] /\ ui' = "poll"
    /\ UNCHANGED <<pipe, printed, status, files, picked, seen, runnerBusy, workerAt, held, lines>>

StopBatch ==
    /\ ui = "frame" /\ batch.active
    /\ AskToStop
    /\ ui' = "poll"
    /\ UNCHANGED <<pipe, printed, batch, status, files, picked, seen, runnerBusy, workerAt, held, lines>>

AddClip(c) ==
    /\ ui = "frame" /\ status[c] = "absent"
    /\ status' = [status EXCEPT ![c] = "Queued"] /\ ui' = "poll"
    /\ UNCHANGED <<os, child, batch, files, picked, seen, run>>

RemoveClip(c) ==
    /\ ui = "frame" /\ status[c] \notin {"absent", "Rendering"}
    /\ status' = [status EXCEPT ![c] = "absent"] /\ output' = [output EXCEPT ![c] = None]
    /\ overtaken' = overtaken \ {c} /\ ui' = "poll"
    /\ UNCHANGED <<os, child, batch, onDisk, picked, seen, run>>

RenderAgain(c) ==
    /\ ui = "frame" /\ status[c] \in FinishedStatus
    /\ status' = [status EXCEPT ![c] = "Queued"] /\ overtaken' = overtaken \ {c} /\ ui' = "poll"
    /\ UNCHANGED <<os, child, batch, output, onDisk, picked, seen, run>>

\* "Stop and quit", then ~App: stop() and reset().
Quit ==
    /\ ui = "frame"
    /\ IF runnerBusy THEN AskToStop /\ ui' = "join" ELSE UNCHANGED <<proc, code, child, runner>> /\ ui' = "gone"
    /\ batch' = [batch EXCEPT !.active = FALSE]
    /\ UNCHANGED <<pipe, printed, status, files, picked, seen, runnerBusy, workerAt, held, lines>>

JoinWorker ==
    /\ ui = "join" /\ workerAt = "done"
    /\ Destruct
    /\ runnerBusy' = FALSE /\ workerAt' = "none"
    /\ onDisk' = Tidied
    /\ ui' = "gone" /\ picked' = None
    /\ UNCHANGED <<pipe, printed, batch, status, output, overtaken, seen, runner, held, lines>>

AppGone == ui = "gone" /\ UNCHANGED batchVars

StartNext == \E c \in Items, f \in Outputs : SkipClip(c, f) \/ StartFails(c, f) \/ StartChild(c, f)

App ==
    \/ Poll \/ LookAtRunner \/ FinishClip \/ FinishBatch \/ StartNext \/ StartThread
    \/ NoThread \/ NoThreadEscalates \/ NoThreadReaps \/ ToFrame \/ NoButton \/ JoinWorker

User ==
    \/ \E skip \in BOOLEAN : StartBatch(skip)
    \/ TogglePause \/ StopBatch \/ Quit
    \/ \E c \in Items : AddClip(c) \/ RemoveClip(c) \/ RenderAgain(c)

Tool == ToolForks \/ ToolWrites \/ ToolWorks \/ (\E p \in Procs : ToolExits(p)) \/ Grace

BatchNext == App \/ User \/ WorkerStep \/ ReadThrows \/ Tool \/ AppGone
BatchSpec == BatchInit /\ [][BatchNext]_batchVars

\* Both threads run, time passes, and what is to end ends.
BatchFairness ==
    /\ WF_batchVars(App \/ User) /\ WF_batchVars(WorkerStep) /\ WF_batchVars(Grace)
    /\ \A p \in Procs : WF_batchVars(ExitInTime(p) /\ ToolExits(p))

FairBatchSpec == BatchSpec /\ BatchFairness

-----------------------------------------------------------------------------
(* Properties. *)

\* The types of the variables: the states of the two threads, of the child and
\* of the files; m_lines never holds more than its cap (publish()).
BatchTypeOK ==
    /\ ChildTypeOK
    /\ ui \in {"poll", "look", "finish", "next", "thread", "unthread", "frame", "join", "gone"}
    /\ batch \in [active : BOOLEAN, pauseAfter : BOOLEAN, skip : BOOLEAN,
                  current : Items \cup {None}, existed : BOOLEAN, outputs : SUBSET Outputs]
    /\ status \in [Items -> FinishedStatus \cup {"absent", "Queued", "Rendering"}]
    /\ output \in [Items -> Outputs \cup {None}] /\ overtaken \subseteq Items
    /\ onDisk \in [Outputs -> {"absent", "unfinished", "finished"}]
    /\ picked \in Items \cup {None} /\ runnerBusy \in BOOLEAN
    /\ {runner, seen} \subseteq [finished : BOOLEAN, stopRequested : BOOLEAN,
                                 exitCode : {"none", "ok", "failed", "killed"}]
    /\ workerAt \in {"none", "reading", "waiting", "failing", "exited", "failed", "done"}
    /\ held \in {0, 1} /\ lines \in 0 .. LineCap

\* RunnerState.finished: the tool exited and everything it and its ffmpeg
\* printed was read, unless the worker itself failed; the code is the tool's.
FinishedIsComplete ==
    runnerBusy /\ runner.finished /\ runner.exitCode # "none" =>
        /\ child.reaped /\ EndOfStream /\ held = 0
        /\ runner.exitCode = code

\* One clip renders at a time, the batch's current one, for as long as the
\* runner is busy with it; and in a frame an active batch is one that renders.
OneRender ==
    /\ ui # "gone" => {c \in Items : status[c] = "Rendering"} = {batch.current} \ {None}
    /\ ui \notin {"thread", "unthread", "gone"} => (runnerBusy <=> batch.current # None)
    /\ ui = "frame" => (runnerBusy <=> batch.active)

\* A runner that is not busy has left nobody rendering: what its child started
\* has ended or was told to (kill() reaches the whole group, also where the
\* worker or its thread failed).
NoOrphans == ~runnerBusy => \A p \in Procs : proc[p] # "alive"

\* A clip shown as Done has a complete output file: the outcome is of its own run,
\* not of the run before it, and no clip of the same batch is given its file, unless
\* the names ran out.  A clip of a later batch may be (Batch{} forgets the outputs).
DoneIsFinished ==
    \A c \in Items : status[c] = "Done" /\ c \notin overtaken => onDisk[output[c]] = "finished"

\* A render whose tool has ended, was told to stop, or could not be read ends with
\* its clip settled, or with the app: the worker, the UI's poll and the child's
\* escalation leave nothing out.
RenderEnds ==
    \A c \in Items :
        status[c] = "Rendering" /\ (Writers = {} \/ runner.stopRequested \/ workerAt = "failing")
            ~> (status[c] # "Rendering" \/ ui = "gone")

\* STUDIO.md:37: "Stop ends the clip now and deletes its unfinished file." -
\* never a finished one.
FinishedFilesStay == [][\A f \in Outputs : onDisk[f] = "finished" => onDisk'[f] # "absent"]_batchVars
==============================================================================
