--------------------------- MODULE BatchRunnerProofs ---------------------------
(***************************************************************************)
(* Theorems about BatchRunner, for any number of clips, any pipe, any cap  *)
(* on the lines and any number of lines; and about RunCapture, for any     *)
(* cap and whoever ignores SIGTERM or never ends.                          *)
(***************************************************************************)
EXTENDS BatchRunner, RunCapture, FiniteSetTheorems, TLAPS

-----------------------------------------------------------------------------
(* The inductive invariant, in parts. *)

Starting == ui \in {"thread", "unthread"}

\* The UI thread and the runner agree: the runner is busy exactly with the
\* batch's current clip, the worker exists exactly while it is, and the batch
\* is active as long as the user did not quit.
InFlight ==
    /\ Starting => /\ runnerBusy /\ batch.current = None /\ workerAt = "none"
                   /\ picked \in Items /\ status[picked] = "Queued"
    /\ ~Starting /\ ui # "gone" =>
          /\ runnerBusy <=> batch.current # None
          /\ runnerBusy <=> workerAt # "none"
          /\ runnerBusy => batch.current = picked /\ picked \in Items
    /\ ui = "gone" => ~runnerBusy /\ workerAt = "none"
    /\ ui \in {"look", "finish", "join"} => runnerBusy
    /\ runnerBusy /\ ui # "join" => batch.active
    /\ ui = "frame" /\ batch.active => runnerBusy
    /\ ui # "gone" => \A c \in Items : status[c] = "Rendering" <=> c = batch.current

\* The leader and what is known of it: only a dead one is reaped and has a
\* code; nobody outlives the runner's interest in him.
LeaderKnown ==
    /\ child.reaped => proc["leader"] = "dead"
    /\ code = "none" <=> proc["leader"] # "dead"
    /\ "leader" \in Writers => runnerBusy
    /\ ui = "thread" => ~child.reaped /\ ~child.killRequested
    /\ workerAt = "reading" => ~child.reaped

\* What the worker has established when it is where it is.
WorkerKnows ==
    /\ workerAt \in {"waiting", "exited"} => EndOfStream /\ held = 0
    /\ workerAt \in {"exited", "failed", "done"} => child.reaped
    /\ runnerBusy /\ workerAt # "done" => ~runner.finished /\ runner.exitCode = "none"
    /\ workerAt = "done" /\ runner.exitCode # "none" => EndOfStream /\ held = 0 /\ runner.exitCode = code
    /\ workerAt = "done" => runner.finished

\* What the UI copied is still so; a tool that succeeded completed its output.
OutcomeKnown ==
    /\ ui = "finish" => seen = runner /\ runner.finished
    /\ runnerBusy /\ code = "ok" => onDisk[output[picked]] = "finished"
    /\ DoneIsFinished

\* The child writes a file that is no other clip's, of those shown as Done, unless
\* that one was overtaken.
OwnFile ==
    /\ runnerBusy => output[picked] \in Outputs
    /\ \A c \in Items : status[c] = "Done" =>
          /\ output[c] \in Outputs
          /\ runnerBusy /\ c \notin overtaken => output[c] # output[picked]

\* SIGTERM reaches everyone, so nobody is left to fork again.
ToldToEnd ==
    /\ child.killRequested => \A p \in Procs : proc[p] # "alive"
    /\ ui = "unthread" => child.killRequested
    /\ workerAt \in {"failing", "failed"} => child.killRequested
    /\ workerAt = "done" /\ runner.exitCode = "none" => child.killRequested
    /\ NoOrphans

BatchInv == InFlight /\ LeaderKnown /\ WorkerKnows /\ OutcomeKnown /\ OwnFile

-----------------------------------------------------------------------------
(* Type correctness. *)

\* publish() keeps the lines within the cap.
LEMMA PublishType ==
  ASSUME BatchTypeOK, NEW whole \in Nat, PublishLines(whole) PROVE lines' \in 0 .. LineCap
  <1>. DEFINE S == {lines + whole, LineCap}
  <1>1. lines + whole \in Nat /\ LineCap \in Nat
    BY BatchAssumption DEF BatchTypeOK
  <1>2. \E x \in S : \A y \in S : x <= y
    <2>1. CASE lines + whole <= LineCap
      BY <1>1, <2>1
    <2>2. CASE ~(lines + whole <= LineCap)
      BY <1>1, <2>2
    <2>. QED BY <2>1, <2>2
  <1>3. Min(S) \in S /\ \A y \in S : Min(S) <= y
    BY <1>2 DEF Min
  <1>. QED BY <1>1, <1>3 DEF PublishLines

ChildRecord == [reaped : BOOLEAN, killRequested : BOOLEAN, escalated : BOOLEAN, graceOver : BOOLEAN]

\* The operating system and the calls on the child keep its types.
LEMMA ChildTypeStep ==
  ASSUME ChildTypeOK, ChildAssumption
  PROVE  /\ Fork \/ Write \/ GraceOver \/ Works => ChildTypeOK'
         /\ \A p \in Procs : Exit(p) => ChildTypeOK'
         /\ Spawn => ChildTypeOK'
         /\ pipe' \in 0 .. PipeSize /\ printed' = printed /\ (Kill \/ Reap \/ Escalate \/ Destruct) => ChildTypeOK'
  <1>. USE DEF ChildTypeOK, Writers
  <1>0. /\ [child EXCEPT !.graceOver = TRUE] \in ChildRecord
        /\ [child EXCEPT !.killRequested = TRUE] \in ChildRecord
        /\ [child EXCEPT !.escalated = TRUE] \in ChildRecord
        /\ [child EXCEPT !.reaped = TRUE] \in ChildRecord
        /\ child \in ChildRecord
    BY Zenon DEF ChildRecord
  <1>1. Fork \/ Write \/ GraceOver \/ Works => ChildTypeOK'
    <2>1. Fork => ChildTypeOK'
      BY DEF Fork, Procs
    <2>2. Write => ChildTypeOK'
      BY ChildAssumption DEF Write
    <2>3. GraceOver => ChildTypeOK'
      BY <1>0 DEF GraceOver, os, ChildRecord
    <2>4. Works => ChildTypeOK'
      BY DEF Works
    <2>. QED BY <2>1, <2>2, <2>3, <2>4
  <1>2. ASSUME NEW p \in Procs, Exit(p) PROVE ChildTypeOK'
    BY <1>2 DEF Exit
  <1>3. Spawn => ChildTypeOK'
    BY ChildAssumption DEF Spawn, NewChild
  <1>. DEFINE Kept == pipe' \in 0 .. PipeSize /\ printed' = printed
  <1>4. Kept /\ Kill => ChildTypeOK'
    <2>1. ASSUME Kept, Kill, child.reaped \/ child.killRequested PROVE ChildTypeOK'
      BY <2>1 DEF Kill
    <2>2. ASSUME Kept, Kill, ~(child.reaped \/ child.killRequested) PROVE ChildTypeOK'
      <3>1. proc' = Signalled(Procs) /\ child' = [child EXCEPT !.killRequested = TRUE] /\ code' = code
        BY <2>2 DEF Kill
      <3>. QED BY <1>0, <2>2, <3>1 DEF Signalled, ChildRecord
    <2>. QED BY <2>1, <2>2
  <1>5. Kept /\ Reap => ChildTypeOK'
    BY <1>0 DEF Reap, ChildRecord
  <1>6. Kept /\ Escalate => ChildTypeOK'
    BY <1>0 DEF Escalate, Slay, ChildRecord
  <1>7. Kept /\ Destruct => ChildTypeOK'
    <2>1. CASE LeaderGone
      BY <2>1, <1>5 DEF Destruct
    <2>2. ASSUME Kept, ~LeaderGone, Destruct PROVE ChildTypeOK'
      <3>1. Slay /\ child' = [child EXCEPT !.reaped = TRUE]
        BY <2>2 DEF Destruct
      <3>. QED BY <1>0, <2>2, <3>1 DEF Slay, ChildRecord
    <2>. QED BY <2>1, <2>2
  <1>. QED BY <1>1, <1>2, <1>3, <1>4, <1>5, <1>6, <1>7

RunnerRecord == [finished : BOOLEAN, stopRequested : BOOLEAN, exitCode : {"none", "ok", "failed", "killed"}]
BatchRecord == [active : BOOLEAN, pauseAfter : BOOLEAN, skip : BOOLEAN, current : Items \cup {None}, existed : BOOLEAN,
                outputs : SUBSET Outputs]

\* The types hold when the Studio starts.
LEMMA TypeInit == BatchInit => BatchTypeOK
  <1>. SUFFICES ASSUME BatchInit PROVE BatchTypeOK
    OBVIOUS
  <1>1. ChildTypeOK
    BY ChildAssumption DEF BatchInit, ChildTypeOK, NoProcess, NewChild
  <1>2. batch \in BatchRecord /\ runner \in RunnerRecord /\ seen \in RunnerRecord
    BY DEF BatchInit, NoBatch, NewRunner, BatchRecord, RunnerRecord
  <1>3. lines \in 0 .. LineCap /\ held \in {0, 1}
    BY BatchAssumption DEF BatchInit
  <1>4. /\ status \in [Items -> FinishedStatus \cup {"absent", "Queued", "Rendering"}]
        /\ output \in [Items -> Outputs \cup {None}] /\ overtaken \subseteq Items
        /\ onDisk \in [Outputs -> {"absent", "unfinished", "finished"}]
    BY DEF BatchInit
  <1>. QED BY <1>1, <1>2, <1>3, <1>4 DEF BatchInit, BatchTypeOK, BatchRecord, RunnerRecord

\* Every action keeps the types.
LEMMA TypeStep == BatchTypeOK /\ [BatchNext]_batchVars => BatchTypeOK'
  <1>. SUFFICES ASSUME BatchTypeOK, [BatchNext]_batchVars PROVE BatchTypeOK'
    OBVIOUS
  <1>. USE ChildAssumption, BatchAssumption DEF BatchTypeOK, app, run, files
  <1>0. ChildTypeOK /\ pipe \in 0 .. PipeSize /\ pipe \in Nat /\ runner \in RunnerRecord /\ seen \in RunnerRecord
    BY DEF ChildTypeOK, RunnerRecord
  <1>b. \A v \in BOOLEAN :
           /\ [batch EXCEPT !.active = v] \in BatchRecord
           /\ [batch EXCEPT !.pauseAfter = v] \in BatchRecord
           /\ [batch EXCEPT !.existed = v] \in BatchRecord
    BY DEF BatchRecord
  <1>r. /\ \A k \in {"none", "ok", "failed", "killed"} :
              [runner EXCEPT !.finished = TRUE, !.exitCode = k] \in RunnerRecord
        /\ [runner EXCEPT !.stopRequested = TRUE] \in RunnerRecord
        /\ NewRunner \in RunnerRecord
    BY <1>0 DEF RunnerRecord, NewRunner
  <1>1. ASSUME ToolForks PROVE BatchTypeOK'
    <2>1. onDisk' \in [Outputs -> {"absent", "unfinished", "finished"}]
      BY <1>1 DEF ToolForks
    <2>. QED BY <1>1, <2>1, <1>0, ChildTypeStep DEF ToolForks
  <1>2. ASSUME NEW p \in Procs, ToolExits(p) PROVE BatchTypeOK'
    <2>1. onDisk' \in [Outputs -> {"absent", "unfinished", "finished"}]
      BY <1>2 DEF ToolExits
    <2>. QED BY <1>2, <2>1, <1>0, ChildTypeStep DEF ToolExits
  <1>3. ASSUME ToolWrites PROVE BatchTypeOK'
    BY <1>3, <1>0, ChildTypeStep DEF ToolWrites, AskToStop, FinishedStatus, RunnerRecord
  <1>4. ASSUME Grace PROVE BatchTypeOK'
    BY <1>4, <1>0, ChildTypeStep DEF Grace, AskToStop, FinishedStatus, RunnerRecord
  <1>5. ASSUME ToolWorks PROVE BatchTypeOK'
    BY <1>5, <1>0, ChildTypeStep DEF ToolWorks, AskToStop, FinishedStatus, RunnerRecord
  <1>6. ASSUME ReadPipe PROVE BatchTypeOK'
    BY <1>6, <1>0, PublishType DEF ReadPipe, ChildTypeOK
  <1>7. ASSUME ReadEnd PROVE BatchTypeOK'
    BY <1>7, <1>0, PublishType DEF ReadEnd, ChildTypeOK
  <1>8. ASSUME ReadThrows PROVE BatchTypeOK'
    BY <1>8, <1>0, ChildTypeStep DEF ReadThrows, AskToStop, FinishedStatus, RunnerRecord
  <1>9. ASSUME WorkerReaps PROVE BatchTypeOK'
    BY <1>9, <1>0, ChildTypeStep DEF WorkerReaps, AskToStop, FinishedStatus, RunnerRecord
  <1>10. ASSUME WorkerEscalates PROVE BatchTypeOK'
    BY <1>10, <1>0, ChildTypeStep DEF WorkerEscalates, AskToStop, FinishedStatus, RunnerRecord
  <1>11. ASSUME WorkerEnds PROVE BatchTypeOK'
    <2>1. runner' \in RunnerRecord
      BY <1>11, <1>r DEF WorkerEnds, ChildTypeOK
    <2>. QED BY <1>11, <2>1, <1>0 DEF WorkerEnds, ChildTypeOK, os, RunnerRecord
  <1>12. ASSUME Poll PROVE BatchTypeOK'
    BY <1>12, <1>0 DEF Poll, ChildTypeOK, os, batchVars, RunnerRecord, FinishedStatus, NoBatch
  <1>13. ASSUME LookAtRunner PROVE BatchTypeOK'
    BY <1>13, <1>0 DEF LookAtRunner, ChildTypeOK, os, batchVars, RunnerRecord, FinishedStatus, NoBatch
  <1>14. ASSUME FinishClip PROVE BatchTypeOK'
    <2>1. batch' \in BatchRecord
      <3>1. NoBatch \in BatchRecord /\ [batch EXCEPT !.current = None] \in BatchRecord
        BY DEF NoBatch, BatchRecord
      <3>. QED BY <1>14, <3>1 DEF FinishClip, After
    <2>2. status' \in [Items -> FinishedStatus \cup {"absent", "Queued", "Rendering"}]
      BY <1>14 DEF FinishClip, Outcome, FinishedStatus
    <2>3. onDisk' \in [Outputs -> {"absent", "unfinished", "finished"}]
      BY <1>14 DEF FinishClip, Tidied
    <2>4. ChildTypeOK'
      BY <1>14, <1>0, ChildTypeStep DEF FinishClip
    <2>5. {runner', seen'} \subseteq RunnerRecord /\ picked' = None
      BY <1>14, <1>0, <1>r DEF FinishClip
    <2>. QED BY <1>14, <2>1, <2>2, <2>3, <2>4, <2>5 DEF FinishClip, BatchRecord, RunnerRecord
  <1>15. ASSUME FinishBatch PROVE BatchTypeOK'
    <2>1. batch' \in BatchRecord
      BY <1>15 DEF FinishBatch, BatchRecord, NoBatch
    <2>. QED BY <1>15, <2>1 DEF FinishBatch, ChildTypeOK, os, BatchRecord
  <1>n. ASSUME NEW c \in Items, NEW f \in Outputs, Given(c, f)
        PROVE  /\ output' \in [Items -> Outputs \cup {None}]
               /\ [batch EXCEPT !.outputs = @ \cup {f}] \in BatchRecord
               /\ \A v \in BOOLEAN : [batch EXCEPT !.outputs = @ \cup {f}, !.existed = v] \in BatchRecord
    BY <1>n DEF Given, BatchRecord
  <1>16. ASSUME NEW c \in Items, NEW f \in Outputs, SkipClip(c, f) PROVE BatchTypeOK'
    <2>1. batch' \in BatchRecord /\ output' \in [Items -> Outputs \cup {None}]
      BY <1>16, <1>n DEF SkipClip
    <2>2. status' \in [Items -> FinishedStatus \cup {"absent", "Queued", "Rendering"}]
      BY <1>16 DEF SkipClip, FinishedStatus
    <2>3. UNCHANGED <<os, child, ui, onDisk, overtaken, picked, seen, run>>
      BY <1>16 DEF SkipClip
    <2>. QED BY <2>1, <2>2, <2>3, <1>0 DEF ChildTypeOK, os, BatchRecord, RunnerRecord
  <1>17. ASSUME NEW c \in Items, NEW f \in Outputs, StartFails(c, f) PROVE BatchTypeOK'
    <2>1. batch' \in BatchRecord /\ output' \in [Items -> Outputs \cup {None}]
      BY <1>17, <1>n DEF StartFails
    <2>2. status' \in [Items -> FinishedStatus \cup {"absent", "Queued", "Rendering"}]
      BY <1>17 DEF StartFails, FinishedStatus
    <2>3. UNCHANGED <<os, child, ui, onDisk, overtaken, picked, seen, run>>
      BY <1>17 DEF StartFails
    <2>. QED BY <2>1, <2>2, <2>3, <1>0 DEF ChildTypeOK, os, BatchRecord, RunnerRecord
  <1>18. ASSUME NEW c \in Items, NEW f \in Outputs, StartChild(c, f) PROVE BatchTypeOK'
    <2>1. batch' \in BatchRecord /\ output' \in [Items -> Outputs \cup {None}]
      BY <1>18, <1>n DEF StartChild
    <2>2. overtaken' \subseteq Items
      BY <1>18 DEF StartChild, LosersOf
    <2>. QED BY <1>18, <2>1, <2>2, <1>0, <1>r, ChildTypeStep DEF StartChild, BatchRecord, RunnerRecord
  <1>19. ASSUME StartThread PROVE BatchTypeOK'
    BY <1>19, <1>0 DEF StartThread, ChildTypeOK, os, batchVars, RunnerRecord, FinishedStatus, NoBatch
  <1>20. ASSUME NoThread PROVE BatchTypeOK'
    BY <1>20, <1>0, ChildTypeStep DEF NoThread, AskToStop, FinishedStatus, RunnerRecord
  <1>21. ASSUME NoThreadEscalates PROVE BatchTypeOK'
    BY <1>21, <1>0, ChildTypeStep DEF NoThreadEscalates, AskToStop, FinishedStatus, RunnerRecord
  <1>22. ASSUME NoThreadReaps PROVE BatchTypeOK'
    BY <1>22, <1>0, ChildTypeStep DEF NoThreadReaps, AskToStop, FinishedStatus, RunnerRecord
  <1>23. ASSUME ToFrame PROVE BatchTypeOK'
    BY <1>23, <1>0 DEF ToFrame, ChildTypeOK, os, batchVars, RunnerRecord, FinishedStatus, NoBatch
  <1>24. ASSUME NoButton PROVE BatchTypeOK'
    BY <1>24, <1>0 DEF NoButton, ChildTypeOK, os, batchVars, RunnerRecord, FinishedStatus, NoBatch
  <1>25. ASSUME JoinWorker PROVE BatchTypeOK'
    <2>1. onDisk' \in [Outputs -> {"absent", "unfinished", "finished"}]
      BY <1>25 DEF JoinWorker, Tidied
    <2>. QED BY <1>25, <2>1, <1>0, ChildTypeStep DEF JoinWorker
  <1>26. ASSUME NEW skip \in BOOLEAN, StartBatch(skip) PROVE BatchTypeOK'
    <2>1. batch' \in BatchRecord
      BY <1>26 DEF StartBatch, NoBatch, BatchRecord
    <2>. QED BY <1>26, <2>1 DEF StartBatch, ChildTypeOK, os, BatchRecord
  <1>27. ASSUME TogglePause PROVE BatchTypeOK'
    <2>1. batch' \in BatchRecord
      BY <1>27, <1>b DEF TogglePause
    <2>. QED BY <1>27, <2>1 DEF TogglePause, ChildTypeOK, os, BatchRecord
  <1>28. ASSUME StopBatch PROVE BatchTypeOK'
    <2>1. runner' \in RunnerRecord
      BY <1>28, <1>r, <1>0 DEF StopBatch, AskToStop
    <2>2. ChildTypeOK'
      BY <1>28, <1>0, ChildTypeStep DEF StopBatch, AskToStop
    <2>. QED BY <1>28, <2>1, <2>2 DEF StopBatch, AskToStop, RunnerRecord
  <1>29. ASSUME Quit PROVE BatchTypeOK'
    <2>1. batch' \in BatchRecord
      BY <1>29, <1>b DEF Quit
    <2>2. runner' \in RunnerRecord
      BY <1>29, <1>r, <1>0 DEF Quit, AskToStop
    <2>3. ChildTypeOK'
      <3>1. (Kill \/ UNCHANGED <<proc, code, child>>) /\ UNCHANGED <<pipe, printed>>
        BY <1>29 DEF Quit, AskToStop
      <3>. QED BY <3>1, <1>0, ChildTypeStep DEF ChildTypeOK
    <2>. QED BY <1>29, <2>1, <2>2, <2>3 DEF Quit, AskToStop, BatchRecord, RunnerRecord
  <1>30. ASSUME NEW c \in Items, AddClip(c) PROVE BatchTypeOK'
    BY <1>30, <1>0 DEF AddClip, ChildTypeOK, os, batchVars, RunnerRecord, FinishedStatus, NoBatch
  <1>31. ASSUME NEW c \in Items, RemoveClip(c) PROVE BatchTypeOK'
    BY <1>31, <1>0 DEF RemoveClip, ChildTypeOK, os, batchVars, RunnerRecord, FinishedStatus, NoBatch
  <1>32. ASSUME NEW c \in Items, RenderAgain(c) PROVE BatchTypeOK'
    BY <1>32, <1>0 DEF RenderAgain, ChildTypeOK, os, batchVars, RunnerRecord, FinishedStatus, NoBatch
  <1>33. ASSUME AppGone PROVE BatchTypeOK'
    BY <1>33, <1>0 DEF AppGone, ChildTypeOK, os, batchVars, RunnerRecord, FinishedStatus, NoBatch
  <1>q. CASE UNCHANGED batchVars
    BY <1>q DEF batchVars, ChildTypeOK
  <1>. QED BY <1>1, <1>2, <1>3, <1>4, <1>5, <1>6, <1>7, <1>8, <1>9, <1>10, <1>11, <1>12, <1>13,
     <1>14, <1>15, <1>16, <1>17, <1>18, <1>19, <1>20, <1>21, <1>22, <1>23, <1>24, <1>25, <1>26,
     <1>27, <1>28, <1>29, <1>30, <1>31, <1>32, <1>33, <1>q DEF BatchNext, App, User, Tool, WorkerStep,
     StartNext

-----------------------------------------------------------------------------
(* Each part of the invariant. *)

\* So do the parts of the invariant.
LEMMA InvInit == BatchInit => BatchInv /\ ToldToEnd
  BY BatchAssumption DEF BatchInit, BatchInv, InFlight, LeaderKnown, WorkerKnows, OutcomeKnown,
     OwnFile, DoneIsFinished,
     ToldToEnd, NoOrphans, NoProcess, NewChild, NewRunner, NoBatch, Writers, Procs, Starting

\* The steps of the UI thread that leave the runner and its child alone.
Onlooking ==
    \/ Poll \/ LookAtRunner \/ FinishBatch \/ ToFrame \/ NoButton \/ TogglePause
    \/ \E skip \in BOOLEAN : StartBatch(skip)
    \/ \E c \in Items, f \in Outputs : SkipClip(c, f) \/ StartFails(c, f)
    \/ \E c \in Items : AddClip(c) \/ RemoveClip(c) \/ RenderAgain(c)

\* What such a step leaves as it was.
Unharmed ==
    /\ UNCHANGED <<proc, code, pipe, printed, child, onDisk, picked, runner, runnerBusy, workerAt, held>>
    /\ ui \notin {"thread", "unthread", "finish", "join", "gone"}
    /\ ui' \notin {"thread", "unthread", "join", "gone"}
    /\ ui' = "finish" => runner.finished /\ seen' = runner
    /\ \A c \in Items : status'[c] = "Done" =>
          status[c] = "Done" /\ output'[c] = output[c] /\ (c \in overtaken => c \in overtaken')
    /\ runnerBusy => output'[picked] = output[picked]

LEMMA OnlookingFrame == ASSUME BatchTypeOK, InFlight, Onlooking PROVE Unharmed
  <1>. USE BatchAssumption DEF app, run, files, os, BatchTypeOK, Unharmed
  <1>1. CASE Poll \/ LookAtRunner \/ FinishBatch \/ ToFrame \/ NoButton \/ TogglePause
             \/ \E skip \in BOOLEAN : StartBatch(skip)
    BY <1>1 DEF Poll, LookAtRunner, FinishBatch, ToFrame, NoButton, TogglePause, StartBatch
  <1>2. ASSUME NEW c \in Items, NEW f \in Outputs, SkipClip(c, f) \/ StartFails(c, f) PROVE Unharmed
    BY <1>2 DEF SkipClip, StartFails, Given, NextWanted, Queued
  <1>3. ASSUME NEW c \in Items, AddClip(c) PROVE Unharmed
    BY <1>3 DEF AddClip
  <1>4. ASSUME NEW c \in Items, RemoveClip(c) PROVE Unharmed
    <2>1. runnerBusy => picked # c
      BY <1>4 DEF RemoveClip, InFlight, Starting
    <2>. QED BY <1>4, <2>1 DEF RemoveClip
  <1>5. ASSUME NEW c \in Items, RenderAgain(c) PROVE Unharmed
    BY <1>5 DEF RenderAgain
  <1>. QED BY <1>1, <1>2, <1>3, <1>4, <1>5 DEF Onlooking

\* The UI thread keeps the clip in flight and the runner in step.
LEMMA InFlightStep ==
  ASSUME BatchTypeOK, InFlight, [BatchNext]_batchVars PROVE InFlight'
  <1>. USE BatchAssumption DEF BatchTypeOK, InFlight, Starting, app, run, files, os, batchVars
  <1>1. ASSUME Poll PROVE InFlight'
    BY <1>1 DEF Poll
  <1>2. ASSUME LookAtRunner PROVE InFlight'
    BY <1>2 DEF LookAtRunner
  <1>3. ASSUME FinishClip PROVE InFlight'
    BY <1>3 DEF FinishClip, Outcome, After, NoBatch
  <1>4. ASSUME FinishBatch PROVE InFlight'
    BY <1>4 DEF FinishBatch, NextWanted, Queued, NoBatch
  <1>5. ASSUME NEW c \in Items, NEW f \in Outputs, SkipClip(c, f) PROVE InFlight'
    BY <1>5 DEF SkipClip, Given, NextWanted, Queued
  <1>6. ASSUME NEW c \in Items, NEW f \in Outputs, StartFails(c, f) PROVE InFlight'
    BY <1>6 DEF StartFails, Given, NextWanted, Queued
  <1>7. ASSUME NEW c \in Items, NEW f \in Outputs, StartChild(c, f) PROVE InFlight'
    BY <1>7 DEF StartChild, Given, NextWanted, Queued, NewRunner
  <1>8. ASSUME StartThread PROVE InFlight'
    BY <1>8 DEF StartThread
  <1>9. ASSUME NoThread PROVE InFlight'
    BY <1>9 DEF NoThread
  <1>10. ASSUME NoThreadEscalates PROVE InFlight'
    BY <1>10 DEF NoThreadEscalates
  <1>11. ASSUME NoThreadReaps PROVE InFlight'
    BY <1>11 DEF NoThreadReaps
  <1>12. ASSUME ToFrame PROVE InFlight'
    BY <1>12 DEF ToFrame, NextWanted
  <1>13. ASSUME NoButton PROVE InFlight'
    BY <1>13 DEF NoButton
  <1>14. ASSUME JoinWorker PROVE InFlight'
    BY <1>14 DEF JoinWorker
  <1>15. ASSUME NEW skip \in BOOLEAN, StartBatch(skip) PROVE InFlight'
    BY <1>15 DEF StartBatch, Queued, NoBatch
  <1>16. ASSUME TogglePause PROVE InFlight'
    BY <1>16 DEF TogglePause
  <1>17. ASSUME StopBatch PROVE InFlight'
    BY <1>17 DEF StopBatch
  <1>18. ASSUME Quit PROVE InFlight'
    BY <1>18 DEF Quit
  <1>19. ASSUME NEW c \in Items, AddClip(c) PROVE InFlight'
    BY <1>19 DEF AddClip
  <1>20. ASSUME NEW c \in Items, RemoveClip(c) PROVE InFlight'
    BY <1>20 DEF RemoveClip
  <1>21. ASSUME NEW c \in Items, RenderAgain(c) PROVE InFlight'
    BY <1>21 DEF RenderAgain, FinishedStatus
  <1>22. ASSUME ReadPipe PROVE InFlight'
    BY <1>22 DEF ReadPipe
  <1>23. ASSUME ReadEnd PROVE InFlight'
    BY <1>23 DEF ReadEnd
  <1>24. ASSUME ReadThrows PROVE InFlight'
    BY <1>24 DEF ReadThrows
  <1>25. ASSUME WorkerReaps PROVE InFlight'
    BY <1>25 DEF WorkerReaps
  <1>26. ASSUME WorkerEscalates PROVE InFlight'
    BY <1>26 DEF WorkerEscalates
  <1>27. ASSUME WorkerEnds PROVE InFlight'
    BY <1>27 DEF WorkerEnds
  <1>28. ASSUME ToolForks PROVE InFlight'
    BY <1>28 DEF ToolForks
  <1>29. ASSUME NEW p \in Procs, ToolExits(p) PROVE InFlight'
    BY <1>29 DEF ToolExits
  <1>30. ASSUME ToolWrites PROVE InFlight'
    BY <1>30 DEF ToolWrites
  <1>31. ASSUME Grace PROVE InFlight'
    BY <1>31 DEF Grace
  <1>32. ASSUME ToolWorks PROVE InFlight'
    BY <1>32 DEF ToolWorks
  <1>33. CASE UNCHANGED batchVars
    BY <1>33
  <1>34. CASE AppGone
    BY <1>33, <1>34 DEF AppGone
  <1>. QED BY <1>1, <1>2, <1>3, <1>4, <1>5, <1>6, <1>7, <1>8, <1>9, <1>10, <1>11, <1>12, <1>13,
     <1>14, <1>15, <1>16, <1>17, <1>18, <1>19, <1>20, <1>21, <1>22, <1>23, <1>24, <1>25, <1>26,
     <1>27, <1>28, <1>29, <1>30, <1>31, <1>32, <1>33, <1>34 DEF BatchNext, App, User, Tool, WorkerStep,
     StartNext

\* No step loses track of the leader.
LEMMA LeaderKnownStep ==
  ASSUME BatchTypeOK, InFlight, LeaderKnown, WorkerKnows, [BatchNext]_batchVars PROVE LeaderKnown'
  <1>. USE BatchAssumption DEF BatchTypeOK, ChildTypeOK, LeaderKnown, InFlight, Starting, WorkerKnows,
     Writers, Procs, app, run, files, os, batchVars
  <1>1. CASE Onlooking
    BY <1>1, OnlookingFrame DEF Unharmed
  <1>2. ASSUME FinishClip PROVE LeaderKnown'
    BY <1>2 DEF FinishClip, Destruct, LeaderGone, Reap, Slay
  <1>3. ASSUME NEW c \in Items, NEW f \in Outputs, StartChild(c, f) PROVE LeaderKnown'
    BY <1>3 DEF StartChild, Spawn, NewChild
  <1>4. ASSUME StartThread PROVE LeaderKnown'
    BY <1>4 DEF StartThread
  <1>5. ASSUME NoThread PROVE LeaderKnown'
    BY <1>5 DEF NoThread, Kill, Signalled
  <1>6. ASSUME NoThreadEscalates PROVE LeaderKnown'
    BY <1>6 DEF NoThreadEscalates, Escalate, LeaderGone, Slay
  <1>7. ASSUME NoThreadReaps PROVE LeaderKnown'
    BY <1>7 DEF NoThreadReaps, Reap, LeaderGone
  <1>8. ASSUME JoinWorker PROVE LeaderKnown'
    BY <1>8 DEF JoinWorker, Destruct, LeaderGone, Reap, Slay
  <1>9. ASSUME StopBatch PROVE LeaderKnown'
    BY <1>9 DEF StopBatch, AskToStop, Kill, Signalled
  <1>10. ASSUME Quit PROVE LeaderKnown'
    BY <1>10 DEF Quit, AskToStop, Kill, Signalled
  <1>11. ASSUME ReadPipe PROVE LeaderKnown'
    BY <1>11 DEF ReadPipe
  <1>12. ASSUME ReadEnd PROVE LeaderKnown'
    BY <1>12 DEF ReadEnd
  <1>13. ASSUME ReadThrows PROVE LeaderKnown'
    BY <1>13 DEF ReadThrows, Kill, Signalled
  <1>14. ASSUME WorkerReaps PROVE LeaderKnown'
    BY <1>14 DEF WorkerReaps, Reap, LeaderGone
  <1>15. ASSUME WorkerEscalates PROVE LeaderKnown'
    BY <1>15 DEF WorkerEscalates, Escalate, LeaderGone, Slay
  <1>16. ASSUME WorkerEnds PROVE LeaderKnown'
    BY <1>16 DEF WorkerEnds
  <1>17. ASSUME ToolForks PROVE LeaderKnown'
    BY <1>17 DEF ToolForks, Fork
  <1>18. ASSUME NEW p \in Procs, ToolExits(p) PROVE LeaderKnown'
    <2>1. CASE p = "leader"
      <3>1. code' \in {"ok", "failed", "killed"} /\ proc' = [proc EXCEPT !["leader"] = "dead"]
        BY <1>18, <2>1 DEF ToolExits, Exit
      <3>. QED BY <1>18, <2>1, <3>1 DEF ToolExits, Exit
    <2>2. CASE p = "helper"
      <3>1. Exit("helper") /\ UNCHANGED <<child, ui, runnerBusy, workerAt>>
        BY <1>18, <2>2 DEF ToolExits, Exit
      <3>2. proc'["leader"] = proc["leader"] /\ code' = code
        BY <3>1 DEF Exit
      <3>. QED BY <3>1, <3>2
    <2>. QED BY <2>1, <2>2
  <1>19. ASSUME ToolWrites PROVE LeaderKnown'
    BY <1>19 DEF ToolWrites, Write
  <1>20. ASSUME Grace PROVE LeaderKnown'
    BY <1>20 DEF Grace, GraceOver
  <1>21. ASSUME ToolWorks PROVE LeaderKnown'
    BY <1>21 DEF ToolWorks, Works
  <1>22. CASE UNCHANGED batchVars
    BY <1>22
  <1>23. CASE AppGone
    BY <1>22, <1>23 DEF AppGone
  <1>. QED BY <1>1, <1>2, <1>3, <1>4, <1>5, <1>6, <1>7, <1>8, <1>9, <1>10, <1>11, <1>12, <1>13,
     <1>14, <1>15, <1>16, <1>17, <1>18, <1>19, <1>20, <1>21, <1>22, <1>23 DEF BatchNext, App, User, Tool,
     WorkerStep, StartNext, Onlooking

\* What the worker has established stays so: nobody is born after the end of the stream.
LEMMA WorkerKnowsStep ==
  ASSUME BatchTypeOK, InFlight, LeaderKnown, WorkerKnows, [BatchNext]_batchVars PROVE WorkerKnows'
  <1>. USE BatchAssumption DEF BatchTypeOK, ChildTypeOK, LeaderKnown, InFlight, Starting, WorkerKnows,
     EndOfStream, Writers, Procs, app, run, files, os, batchVars
  <1>1. CASE Onlooking
    BY <1>1, OnlookingFrame DEF Unharmed
  <1>2. ASSUME FinishClip PROVE WorkerKnows'
    BY <1>2 DEF FinishClip, Destruct, LeaderGone, Reap, Slay
  <1>3. ASSUME NEW c \in Items, NEW f \in Outputs, StartChild(c, f) PROVE WorkerKnows'
    BY <1>3 DEF StartChild, Given, NextWanted, Spawn, NewRunner, NewChild
  <1>4. ASSUME StartThread PROVE WorkerKnows'
    BY <1>4 DEF StartThread
  <1>5. ASSUME NoThread PROVE WorkerKnows'
    BY <1>5 DEF NoThread, Kill, Signalled
  <1>6. ASSUME NoThreadEscalates PROVE WorkerKnows'
    BY <1>6 DEF NoThreadEscalates, Escalate, LeaderGone, Slay
  <1>7. ASSUME NoThreadReaps PROVE WorkerKnows'
    BY <1>7 DEF NoThreadReaps, Reap, LeaderGone
  <1>8. ASSUME JoinWorker PROVE WorkerKnows'
    BY <1>8 DEF JoinWorker, Destruct, LeaderGone, Reap, Slay
  <1>9. ASSUME StopBatch PROVE WorkerKnows'
    BY <1>9 DEF StopBatch, AskToStop, Kill, Signalled
  <1>10. ASSUME Quit PROVE WorkerKnows'
    BY <1>10 DEF Quit, AskToStop, Kill, Signalled
  <1>11. ASSUME ReadPipe PROVE WorkerKnows'
    BY <1>11 DEF ReadPipe
  <1>12. ASSUME ReadEnd PROVE WorkerKnows'
    BY <1>12 DEF ReadEnd
  <1>13. ASSUME ReadThrows PROVE WorkerKnows'
    BY <1>13 DEF ReadThrows, Kill, Signalled
  <1>14. ASSUME WorkerReaps PROVE WorkerKnows'
    BY <1>14 DEF WorkerReaps, Reap, LeaderGone
  <1>15. ASSUME WorkerEscalates PROVE WorkerKnows'
    BY <1>15 DEF WorkerEscalates, Escalate, LeaderGone, Slay
  <1>16. ASSUME WorkerEnds PROVE WorkerKnows'
    BY <1>16 DEF WorkerEnds
  <1>17. ASSUME ToolForks PROVE WorkerKnows'
    BY <1>17 DEF ToolForks, Fork
  <1>18. ASSUME NEW p \in Procs, ToolExits(p) PROVE WorkerKnows'
    BY <1>18 DEF ToolExits, Exit
  <1>19. ASSUME ToolWrites PROVE WorkerKnows'
    BY <1>19 DEF ToolWrites, Write
  <1>20. ASSUME Grace PROVE WorkerKnows'
    BY <1>20 DEF Grace, GraceOver
  <1>21. ASSUME ToolWorks PROVE WorkerKnows'
    BY <1>21 DEF ToolWorks, Works
  <1>22. CASE UNCHANGED batchVars
    BY <1>22
  <1>23. CASE AppGone
    BY <1>22, <1>23 DEF AppGone
  <1>. QED BY <1>1, <1>2, <1>3, <1>4, <1>5, <1>6, <1>7, <1>8, <1>9, <1>10, <1>11, <1>12, <1>13,
     <1>14, <1>15, <1>16, <1>17, <1>18, <1>19, <1>20, <1>21, <1>22, <1>23 DEF BatchNext, App, User, Tool,
     WorkerStep, StartNext, Onlooking

\* The outcome the UI settles a clip by is the one of its own run.
LEMMA OutcomeKnownStep ==
  ASSUME BatchTypeOK, BatchInv, [BatchNext]_batchVars PROVE OutcomeKnown'
  <1>. USE BatchAssumption DEF BatchInv, BatchTypeOK, ChildTypeOK, LeaderKnown, InFlight, Starting,
     WorkerKnows, OutcomeKnown, OwnFile, DoneIsFinished, Writers, Procs, app, run, files, os, batchVars
  <1>1. CASE Onlooking
    BY <1>1, OnlookingFrame DEF Unharmed
  <1>2. ASSUME FinishClip PROVE OutcomeKnown'
    BY <1>2 DEF FinishClip, Destruct, Outcome, Tidied, After, LeaderGone, Reap, Slay
  <1>3. ASSUME NEW c \in Items, NEW f \in Outputs, StartChild(c, f) PROVE OutcomeKnown'
    BY <1>3 DEF StartChild, Given, NextWanted, Queued, Spawn, NewRunner, NewChild
  <1>4. ASSUME StartThread PROVE OutcomeKnown'
    BY <1>4 DEF StartThread
  <1>5. ASSUME NoThread PROVE OutcomeKnown'
    BY <1>5 DEF NoThread, Kill, Signalled
  <1>6. ASSUME NoThreadEscalates PROVE OutcomeKnown'
    BY <1>6 DEF NoThreadEscalates, Escalate, LeaderGone, Slay
  <1>7. ASSUME NoThreadReaps PROVE OutcomeKnown'
    BY <1>7 DEF NoThreadReaps, Reap, LeaderGone
  <1>8. ASSUME JoinWorker PROVE OutcomeKnown'
    BY <1>8 DEF JoinWorker, Destruct, Tidied, LeaderGone, Reap, Slay
  <1>9. ASSUME StopBatch PROVE OutcomeKnown'
    BY <1>9 DEF StopBatch, AskToStop, Kill, Signalled
  <1>10. ASSUME Quit PROVE OutcomeKnown'
    BY <1>10 DEF Quit, AskToStop, Kill, Signalled
  <1>11. ASSUME ReadPipe PROVE OutcomeKnown'
    BY <1>11 DEF ReadPipe
  <1>12. ASSUME ReadEnd PROVE OutcomeKnown'
    BY <1>12 DEF ReadEnd
  <1>13. ASSUME ReadThrows PROVE OutcomeKnown'
    BY <1>13 DEF ReadThrows, Kill, Signalled
  <1>14. ASSUME WorkerReaps PROVE OutcomeKnown'
    BY <1>14 DEF WorkerReaps, Reap, LeaderGone
  <1>15. ASSUME WorkerEscalates PROVE OutcomeKnown'
    BY <1>15 DEF WorkerEscalates, Escalate, LeaderGone, Slay
  <1>16. ASSUME WorkerEnds PROVE OutcomeKnown'
    BY <1>16 DEF WorkerEnds
  <1>17. ASSUME ToolForks PROVE OutcomeKnown'
    BY <1>17 DEF ToolForks, Fork
  <1>18. ASSUME NEW p \in Procs, ToolExits(p) PROVE OutcomeKnown'
    BY <1>18 DEF ToolExits, Exit
  <1>19. ASSUME ToolWrites PROVE OutcomeKnown'
    BY <1>19 DEF ToolWrites, Write
  <1>20. ASSUME Grace PROVE OutcomeKnown'
    BY <1>20 DEF Grace, GraceOver
  <1>21. ASSUME ToolWorks PROVE OutcomeKnown'
    BY <1>21 DEF ToolWorks, Works
  <1>22. CASE UNCHANGED batchVars
    BY <1>22
  <1>23. CASE AppGone
    BY <1>22, <1>23 DEF AppGone
  <1>. QED BY <1>1, <1>2, <1>3, <1>4, <1>5, <1>6, <1>7, <1>8, <1>9, <1>10, <1>11, <1>12, <1>13,
     <1>14, <1>15, <1>16, <1>17, <1>18, <1>19, <1>20, <1>21, <1>22, <1>23 DEF BatchNext, App, User, Tool,
     WorkerStep, StartNext, Onlooking

\* A file is given to one clip at a time: whoever loses it is marked.
LEMMA GivenToOne ==
  ASSUME NEW c \in Items, NEW f \in Outputs, f \in OutputFor(c), NEW d \in Items, d # c,
         status[d] = "Done", output[d] = f
  PROVE  d \in LosersOf(c, f)
  <1>1. ASSUME f \in batch.outputs PROVE {NameOf[c]} \X (1 .. MaxSuffix) \subseteq batch.outputs
    <2>1. PICK n \in 1 .. MaxSuffix : /\ f = <<NameOf[c], n>> /\ n = MaxSuffix
                                     /\ \A m \in 1 .. n - 1 : <<NameOf[c], m>> \in batch.outputs
      BY <1>1 DEF OutputFor
    <2>2. \A m \in 1 .. MaxSuffix : m \in 1 .. n - 1 \/ m = n
      BY <2>1, BatchAssumption
    <2>3. \A m \in 1 .. MaxSuffix : <<NameOf[c], m>> \in batch.outputs
      BY <1>1, <2>1, <2>2
    <2>. QED BY <2>3
  <1>. QED BY <1>1 DEF LosersOf

\* So the child's file stays its own.
LEMMA OwnFileStep ==
  ASSUME BatchTypeOK, BatchInv, [BatchNext]_batchVars PROVE OwnFile'
  <1>. USE BatchAssumption DEF BatchInv, BatchTypeOK, InFlight, Starting, OwnFile, app, run, files, os, batchVars
  <1>1. CASE Onlooking
    BY <1>1, OnlookingFrame DEF Unharmed
  <1>2. ASSUME FinishClip PROVE OwnFile'
    BY <1>2 DEF FinishClip
  <1>3. ASSUME NEW c \in Items, NEW f \in Outputs, StartChild(c, f) PROVE OwnFile'
    <2>1. /\ f \in OutputFor(c) /\ output' = [output EXCEPT ![c] = f] /\ picked' = c /\ status' = status
          /\ status[c] = "Queued" /\ overtaken' = overtaken \cup LosersOf(c, f)
      BY <1>3 DEF StartChild, Given, Queued
    <2>2. \A d \in Items : status[d] = "Done" => d # c /\ output'[d] = output[d]
      BY <2>1
    <2>3. \A d \in Items : status[d] = "Done" /\ output[d] = f => d \in overtaken'
      BY <2>1, <2>2, GivenToOne
    <2>. QED BY <2>1, <2>2, <2>3
  <1>4. ASSUME StartThread PROVE OwnFile'
    BY <1>4 DEF StartThread
  <1>5. ASSUME NoThread \/ NoThreadEscalates \/ NoThreadReaps \/ JoinWorker \/ StopBatch \/ Quit PROVE OwnFile'
    BY <1>5 DEF NoThread, NoThreadEscalates, NoThreadReaps, JoinWorker, StopBatch, Quit
  <1>6. ASSUME WorkerStep \/ ReadThrows PROVE OwnFile'
    BY <1>6 DEF WorkerStep, ReadPipe, ReadEnd, ReadThrows, WorkerReaps, WorkerEscalates, WorkerEnds
  <1>7. ASSUME Tool PROVE OwnFile'
    BY <1>7 DEF Tool, ToolForks, ToolExits, ToolWrites, Grace, ToolWorks
  <1>8. CASE UNCHANGED batchVars
    BY <1>8
  <1>9. CASE AppGone
    BY <1>8, <1>9 DEF AppGone
  <1>. QED BY <1>1, <1>2, <1>3, <1>4, <1>5, <1>6, <1>7, <1>8, <1>9 DEF BatchNext, App, User, StartNext, Onlooking

\* Where nobody ignores SIGTERM, one signal to the group leaves nobody who could fork again.
LEMMA ToldToEndStep ==
  ASSUME BatchTypeOK, Stubborn = {}, BatchInv, ToldToEnd, [BatchNext]_batchVars PROVE ToldToEnd'
  <1>. USE BatchAssumption DEF BatchInv, BatchTypeOK, ChildTypeOK, LeaderKnown, InFlight, Starting,
     WorkerKnows, EndOfStream, ToldToEnd, NoOrphans, Writers, Procs, app, run, files, os, batchVars
  <1>1. CASE Onlooking
    BY <1>1, OnlookingFrame DEF Unharmed
  <1>2. ASSUME FinishClip PROVE ToldToEnd'
    BY <1>2 DEF FinishClip, Destruct, LeaderGone, Reap, Slay
  <1>3. ASSUME NEW c \in Items, NEW f \in Outputs, StartChild(c, f) PROVE ToldToEnd'
    BY <1>3 DEF StartChild, Given, NextWanted, Spawn, NewRunner, NewChild
  <1>4. ASSUME StartThread PROVE ToldToEnd'
    BY <1>4 DEF StartThread
  <1>5. ASSUME NoThread PROVE ToldToEnd'
    BY <1>5 DEF NoThread, Kill, Signalled
  <1>6. ASSUME NoThreadEscalates PROVE ToldToEnd'
    BY <1>6 DEF NoThreadEscalates, Escalate, LeaderGone, Slay
  <1>7. ASSUME NoThreadReaps PROVE ToldToEnd'
    BY <1>7 DEF NoThreadReaps, Reap, LeaderGone
  <1>8. ASSUME JoinWorker PROVE ToldToEnd'
    BY <1>8 DEF JoinWorker, Destruct, LeaderGone, Reap, Slay
  <1>9. ASSUME StopBatch PROVE ToldToEnd'
    BY <1>9 DEF StopBatch, AskToStop, Kill, Signalled
  <1>10. ASSUME Quit PROVE ToldToEnd'
    BY <1>10 DEF Quit, AskToStop, Kill, Signalled
  <1>11. ASSUME ReadPipe PROVE ToldToEnd'
    BY <1>11 DEF ReadPipe
  <1>12. ASSUME ReadEnd PROVE ToldToEnd'
    BY <1>12 DEF ReadEnd
  <1>13. ASSUME ReadThrows PROVE ToldToEnd'
    BY <1>13 DEF ReadThrows, Kill, Signalled
  <1>14. ASSUME WorkerReaps PROVE ToldToEnd'
    BY <1>14 DEF WorkerReaps, Reap, LeaderGone
  <1>15. ASSUME WorkerEscalates PROVE ToldToEnd'
    BY <1>15 DEF WorkerEscalates, Escalate, LeaderGone, Slay
  <1>16. ASSUME WorkerEnds PROVE ToldToEnd'
    BY <1>16 DEF WorkerEnds
  <1>17. ASSUME ToolForks PROVE ToldToEnd'
    BY <1>17 DEF ToolForks, Fork
  <1>18. ASSUME NEW p \in Procs, ToolExits(p) PROVE ToldToEnd'
    BY <1>18 DEF ToolExits, Exit
  <1>19. ASSUME ToolWrites PROVE ToldToEnd'
    BY <1>19 DEF ToolWrites, Write
  <1>20. ASSUME Grace PROVE ToldToEnd'
    BY <1>20 DEF Grace, GraceOver
  <1>21. ASSUME ToolWorks PROVE ToldToEnd'
    BY <1>21 DEF ToolWorks, Works
  <1>22. CASE UNCHANGED batchVars
    BY <1>22
  <1>23. CASE AppGone
    BY <1>22, <1>23 DEF AppGone
  <1>. QED BY <1>1, <1>2, <1>3, <1>4, <1>5, <1>6, <1>7, <1>8, <1>9, <1>10, <1>11, <1>12, <1>13,
     <1>14, <1>15, <1>16, <1>17, <1>18, <1>19, <1>20, <1>21, <1>22, <1>23 DEF BatchNext, App, User, Tool,
     WorkerStep, StartNext, Onlooking

-----------------------------------------------------------------------------
(* The theorems. *)

\* The types of the variables, the lines within their cap among them, hold in
\* every state.
THEOREM BatchTypeCorrect == BatchSpec => []BatchTypeOK
  <1>. QED BY TypeInit, TypeStep, PTL DEF BatchSpec

\* The parts of the invariant hold together in every state.
LEMMA BatchInvariant == BatchSpec => [](BatchTypeOK /\ BatchInv)
  <1>1. BatchInit => BatchTypeOK /\ BatchInv
    BY TypeInit, InvInit
  <1>2. BatchTypeOK /\ BatchInv /\ [BatchNext]_batchVars => (BatchTypeOK /\ BatchInv)'
    BY TypeStep, InFlightStep, LeaderKnownStep, WorkerKnowsStep, OutcomeKnownStep, OwnFileStep DEF BatchInv
  <1>. QED BY <1>1, <1>2, PTL DEF BatchSpec

\* One clip renders at a time, the batch's current one, for as long as the
\* runner is busy with it (App::pollBatch).
THEOREM OneClipRenders == BatchSpec => []OneRender
  <1>1. BatchTypeOK /\ BatchInv => OneRender
    <2>. SUFFICES ASSUME BatchTypeOK, BatchInv PROVE OneRender
      OBVIOUS
    <2>1. ui # "gone" => {c \in Items : status[c] = "Rendering"} = {batch.current} \ {None}
      BY BatchAssumption DEF BatchTypeOK, BatchInv, InFlight
    <2>. QED BY <2>1 DEF BatchTypeOK, BatchInv, InFlight, OneRender, Starting
  <1>. QED BY <1>1, BatchInvariant, PTL

\* RunnerState.finished with an exit code: everything was read, and the code is
\* the tool's (ProcessRunner::worker).
THEOREM FinishedMeansAllRead == BatchSpec => []FinishedIsComplete
  <1>1. BatchTypeOK /\ BatchInv => FinishedIsComplete
    BY DEF BatchTypeOK, BatchInv, WorkerKnows, FinishedIsComplete
  <1>. QED BY <1>1, BatchInvariant, PTL

\* A clip shown as Done has a complete output file, unless its file was given to
\* another since, of a later batch or once the names ran out (App::startNextClip,
\* App::finishClip).
THEOREM DoneClipsAreFinished == BatchSpec => []DoneIsFinished
  <1>1. BatchInv => DoneIsFinished
    BY DEF BatchInv, OutcomeKnown
  <1>. QED BY <1>1, BatchInvariant, PTL

\* A runner that is not busy has left nobody rendering, as long as nobody
\* ignores SIGTERM; osvtool and ffmpeg do not (ChildProcess::kill).
THEOREM NobodyIsLeftBehind == ASSUME Stubborn = {} PROVE BatchSpec => []NoOrphans
  <1>1. BatchInit => BatchTypeOK /\ BatchInv /\ ToldToEnd
    BY TypeInit, InvInit
  <1>2. BatchTypeOK /\ BatchInv /\ ToldToEnd /\ [BatchNext]_batchVars => (BatchTypeOK /\ BatchInv /\ ToldToEnd)'
    BY TypeStep, InFlightStep, LeaderKnownStep, WorkerKnowsStep, OutcomeKnownStep, OwnFileStep,
       ToldToEndStep DEF BatchInv
  <1>3. ToldToEnd => NoOrphans
    BY DEF ToldToEnd
  <1>. QED BY <1>1, <1>2, <1>3, PTL DEF BatchSpec

-----------------------------------------------------------------------------
(* RunCapture: the inductive invariant, in parts. *)

\* What was read is kept up to the cap.
Captured == pipe <= printed /\ result.output = Min({printed - pipe, MaxBytes})

\* Where the caller and the reader are, they have seen what they waited for, and nobody
\* was told to end before the time was over.
CaptureKnows ==
    /\ code = "none" <=> proc["leader"] # "dead"
    /\ child.reaped => proc["leader"] = "dead"
    /\ reader = "done" => EndOfStream
    /\ caller = "wait" => ~result.timedOut
    /\ caller = "kill" /\ ~result.timedOut => child.reaped
    /\ caller = "rewait" => result.timedOut
    /\ caller \in {"join", "returned"} => child.reaped
    /\ caller = "returned" => reader = "done"
    /\ ~result.timedOut => proc["leader"] # "ending" /\ code # "killed"

CaptureInv == CaptureTypeOK /\ Captured /\ CaptureKnows

\* Min of two numbers, in the words the provers understand.
LEMMA LesserIs == ASSUME NEW a \in Int, NEW b \in Int PROVE Min({a, b}) = IF a <= b THEN a ELSE b
  <1>1. \E x \in {a, b} : \A y \in {a, b} : x <= y
    BY SMT
  <1>2. Min({a, b}) \in {a, b} /\ \A y \in {a, b} : Min({a, b}) <= y
    BY <1>1 DEF Min
  <1>. QED BY <1>2

LEMMA CaptureStart == CaptureInit => CaptureInv
  <1>. SUFFICES ASSUME CaptureInit PROVE CaptureInv
    OBVIOUS
  <1>1. CaptureTypeOK
    BY ChildAssumption, CaptureAssumption DEF CaptureInit, CaptureTypeOK, ChildTypeOK, NewChild
  <1>2. Captured
    BY LesserIs, CaptureAssumption DEF CaptureInit, Captured
  <1>3. CaptureKnows
    BY DEF CaptureInit, CaptureKnows, NewChild, Procs
  <1>. QED BY <1>1, <1>2, <1>3 DEF CaptureInv

\* The command, or what was left of it, works on.
LEMMA CommandStep ==
  ASSUME CaptureInv, Command, UNCHANGED <<caller, reader, result>> PROVE CaptureInv'
  <1>t. CaptureTypeOK /\ ChildTypeOK /\ Captured /\ CaptureKnows /\ pipe \in Int /\ printed \in Int
    BY ChildAssumption DEF CaptureInv, CaptureTypeOK, ChildTypeOK
  <1>1. CaptureTypeOK'
    BY <1>t, ChildTypeStep, ChildAssumption DEF Command, CaptureTypeOK
  <1>2. Captured'
    <2>1. pipe' <= printed' /\ printed' - pipe' = printed - pipe
      BY <1>t DEF Captured, Command, Fork, Write, Works, GraceOver, Exit, os
    <2>. QED BY <1>t, <2>1 DEF Captured
  <1>3. CaptureKnows'
    <2>1. CASE Fork
      BY <1>t, <2>1 DEF Fork, CaptureKnows, EndOfStream, Writers, Procs, ChildTypeOK
    <2>2. CASE Write
      BY <1>t, <2>2 DEF Write, CaptureKnows, EndOfStream, Writers
    <2>3. CASE Works
      BY <1>t, <2>3 DEF Works, CaptureKnows, EndOfStream, Writers
    <2>4. CASE GraceOver
      BY <1>t, <2>4 DEF GraceOver, CaptureKnows, EndOfStream, Writers, os, ChildTypeOK
    <2>5. ASSUME NEW p \in Procs, Exit(p) PROVE CaptureKnows'
      BY <1>t, <2>5 DEF Exit, CaptureKnows, EndOfStream, Writers, Procs, ChildTypeOK
    <2>. QED BY <2>1, <2>2, <2>3, <2>4, <2>5 DEF Command
  <1>. QED BY <1>1, <1>2, <1>3 DEF CaptureInv

\* The reader keeps what it got, as far as the cap, or sees the end.
LEMMA ReaderStep == ASSUME CaptureInv, Reader PROVE CaptureInv'
  <1>t. /\ CaptureTypeOK /\ ChildTypeOK /\ Captured /\ CaptureKnows /\ pipe \in Nat /\ printed \in Nat
        /\ pipe <= PipeSize /\ PipeSize \in Nat
        /\ result \in [timedOut : BOOLEAN, output : 0 .. MaxBytes] /\ MaxBytes \in Nat
    BY ChildAssumption, CaptureAssumption DEF CaptureInv, CaptureTypeOK, ChildTypeOK
  <1>1. ASSUME Read PROVE CaptureInv'
    <2>1. PICK got \in 1 .. pipe : pipe' = pipe - got /\ result' = [result EXCEPT !.output = Keep(got)]
      BY <1>1 DEF Read
    <2>2. Keep(got) = Min({printed - pipe', MaxBytes}) /\ Keep(got) \in 0 .. MaxBytes
      <3>1. printed - pipe \in Nat /\ printed - pipe' = printed - pipe + got /\ got \in Nat /\ pipe' \in 0 .. pipe
        BY <1>t, <2>1 DEF Captured
      <3>2. result.output = IF printed - pipe <= MaxBytes THEN printed - pipe ELSE MaxBytes
        BY <1>t, <3>1, LesserIs DEF Captured
      <3>3. result.output + got \in Int
        BY <3>1, <3>2, <1>t
      <3>4. Keep(got) = IF result.output + got <= MaxBytes THEN result.output + got ELSE MaxBytes
        BY <1>t, <3>3, LesserIs DEF Keep
      <3>5. PICK sum \in Int : sum = printed - pipe + got
        BY <1>t, <3>1
      <3>6. Min({sum, MaxBytes}) = IF sum <= MaxBytes THEN sum ELSE MaxBytes
        BY <1>t, LesserIs
      <3>7. Keep(got) = IF sum <= MaxBytes THEN sum ELSE MaxBytes
        BY <1>t, <3>1, <3>2, <3>4, <3>5
      <3>8. Keep(got) \in 0 .. MaxBytes
        BY <1>t, <3>1, <3>5, <3>7
      <3>9. {printed - pipe', MaxBytes} = {sum, MaxBytes}
        BY <3>1, <3>5
      <3>. QED BY <3>6, <3>7, <3>8, <3>9
    <2>3. /\ result'.output = Keep(got) /\ result'.timedOut = result.timedOut
          /\ result' \in [timedOut : BOOLEAN, output : 0 .. MaxBytes]
          /\ UNCHANGED <<proc, code, printed, child, caller, reader>> /\ reader = "reading"
      BY <1>1, <1>t, <2>1, <2>2 DEF Read
    <2>4. pipe' \in 0 .. PipeSize /\ pipe' <= printed'
      BY <1>t, <2>1, <2>3 DEF Captured
    <2>5. CaptureTypeOK' /\ Captured'
      BY <1>t, <2>2, <2>3, <2>4 DEF CaptureTypeOK, ChildTypeOK, Captured
    <2>6. CaptureKnows'
      BY <1>t, <2>3 DEF CaptureKnows, CaptureTypeOK
    <2>. QED BY <2>5, <2>6 DEF CaptureInv
  <1>2. ASSUME CaptureEnd PROVE CaptureInv'
    BY <1>2, <1>t DEF CaptureEnd, CaptureInv, CaptureTypeOK, ChildTypeOK, Captured, CaptureKnows, EndOfStream,
       Writers, os
  <1>. QED BY <1>1, <1>2 DEF Reader

\* The caller waits, loses its patience, ends what is left, and returns.
LEMMA CallerStep == ASSUME CaptureInv, Caller PROVE CaptureInv'
  <1>t. /\ CaptureTypeOK /\ ChildTypeOK /\ Captured /\ CaptureKnows /\ pipe \in 0 .. PipeSize
        /\ result \in [timedOut : BOOLEAN, output : 0 .. MaxBytes]
        /\ caller \in {"wait", "kill", "rewait", "join", "returned"} /\ reader \in {"reading", "done"}
    BY DEF CaptureInv, CaptureTypeOK, ChildTypeOK
  <1>1. /\ pipe' = pipe /\ printed' = printed /\ reader' = reader /\ result'.output = result.output
        /\ result' \in [timedOut : BOOLEAN, output : 0 .. MaxBytes]
        /\ caller' \in {"wait", "kill", "rewait", "join", "returned"}
    BY <1>t DEF Caller, Waited, TimesOut, KillTree, Rewaited, CallerEscalates, Return, os
  <1>2. ChildTypeOK'
    <2>1. CASE TimesOut
      BY <1>t, <2>1 DEF TimesOut, ChildTypeOK, os
    <2>2. CASE ~TimesOut
      <3>1. Kill \/ Reap \/ Escalate \/ Destruct
        BY <2>2 DEF Caller, Waited, KillTree, Rewaited, CallerEscalates, Return
      <3>. QED BY <3>1, <1>t, <1>1, ChildTypeStep, ChildAssumption
    <2>. QED BY <2>1, <2>2
  <1>3. CaptureTypeOK' /\ Captured'
    BY <1>t, <1>1, <1>2 DEF CaptureTypeOK, Captured
  <1>4. /\ \A p \in Procs : proc[p] \in {"none", "alive", "ending", "dead"}
        /\ proc \in [Procs -> {"none", "alive", "ending", "dead"}] /\ "leader" \in Procs
        /\ child \in [reaped : BOOLEAN, killRequested : BOOLEAN, escalated : BOOLEAN, graceOver : BOOLEAN]
    BY <1>t DEF ChildTypeOK, Procs
  <1>5. CaptureKnows'
    <2>1. CASE Waited \/ Rewaited
      BY <1>t, <1>1, <1>4, <2>1 DEF Waited, Rewaited, Reap, LeaderGone, CaptureKnows, EndOfStream, Writers
    <2>2. CASE TimesOut
      BY <1>t, <1>1, <1>4, <2>2 DEF TimesOut, CaptureKnows, EndOfStream, Writers, os
    <2>3. CASE KillTree
      <3>1. UNCHANGED result
        BY <2>3 DEF KillTree
      <3>2. CASE child.reaped \/ child.killRequested
        BY <1>t, <1>1, <1>4, <2>3, <3>1, <3>2 DEF KillTree, Kill, CaptureKnows, EndOfStream, Writers
      <3>3. CASE ~(child.reaped \/ child.killRequested)
        <4>1. /\ proc' = Signalled(Procs) /\ code' = code /\ result.timedOut /\ caller' = "rewait"
              /\ ~child'.reaped
          BY <1>t, <1>4, <2>3, <3>3 DEF KillTree, Kill, CaptureKnows
        <4>2. \A p \in Procs : proc'[p] = proc[p] \/ (p \in Writers /\ proc'[p] = "ending")
          BY <4>1 DEF Signalled
        <4>. QED BY <1>t, <1>1, <1>4, <3>1, <4>1, <4>2 DEF CaptureKnows, EndOfStream, Writers
      <3>. QED BY <3>2, <3>3
    <2>4. CASE CallerEscalates
      <3>1. /\ UNCHANGED <<caller, result>> /\ caller = "rewait" /\ result.timedOut /\ ~LeaderGone /\ Slay
            /\ child' = [child EXCEPT !.escalated = TRUE]
        BY <1>t, <2>4 DEF CallerEscalates, Escalate, CaptureKnows
      <3>2. /\ \A p \in Procs : proc'[p] = IF p \in Writers THEN "dead" ELSE proc[p]
            /\ code' = IF "leader" \in Writers THEN "killed" ELSE code
        BY <3>1 DEF Slay
      <3>3. child'.reaped <=> child.reaped
        BY <1>4, <3>1
      <3>. QED BY <1>t, <1>1, <1>4, <3>1, <3>2, <3>3 DEF CaptureKnows, EndOfStream, Writers
    <2>5. CASE Return
      <3>1. LeaderGone /\ caller = "join" /\ caller' = "returned" /\ reader = "done" /\ UNCHANGED result
        BY <1>t, <2>5 DEF Return, LeaderGone, CaptureKnows
      <3>2. Reap
        BY <2>5, <3>1 DEF Return, Destruct
      <3>. QED BY <1>t, <1>1, <1>4, <3>1, <3>2 DEF Reap, CaptureKnows, EndOfStream, Writers
    <2>. QED BY <2>1, <2>2, <2>3, <2>4, <2>5 DEF Caller
  <1>. QED BY <1>3, <1>5 DEF CaptureInv

LEMMA CaptureStep == CaptureInv /\ [CaptureNext]_captureVars => CaptureInv'
  <1>. SUFFICES ASSUME CaptureInv, [CaptureNext]_captureVars PROVE CaptureInv'
    OBVIOUS
  <1>1. CASE UNCHANGED captureVars
    BY <1>1 DEF captureVars, CaptureInv, CaptureTypeOK, ChildTypeOK, Captured, CaptureKnows, EndOfStream, Writers
  <1>2. CASE CaptureDone
    BY <1>1, <1>2 DEF CaptureDone
  <1>. QED BY <1>1, <1>2, CallerStep, ReaderStep, CommandStep DEF CaptureNext

\* The types of what runCapture keeps hold in every state: the output never passes
\* its cap, and the child is killed and reaped in the order of the calls.
THEOREM CaptureTypeCorrect == CaptureSpec => []CaptureTypeOK
  <1>1. CaptureInv => CaptureTypeOK
    BY DEF CaptureInv
  <1>. QED BY <1>1, CaptureStart, CaptureStep, PTL DEF CaptureSpec

\* What runCapture returns is the whole output, up to the cap, of a command of whose
\* processes none is left, reaped and with its code; and the code is the command's own
\* unless the time was over (runCapture's two waits, its kill and its join).
THEOREM CapturesAreComplete == CaptureSpec => []CaptureIsComplete
  <1>1. CaptureInv => CaptureIsComplete
    <2>. SUFFICES ASSUME CaptureInv, caller = "returned" PROVE
           /\ EndOfStream /\ child.reaped /\ result.output = Min({printed, MaxBytes})
           /\ code # "none" /\ (~result.timedOut => code \in {"ok", "failed"})
      BY DEF CaptureIsComplete
    <2>1. EndOfStream /\ child.reaped /\ code # "none" /\ (~result.timedOut => code # "killed")
          /\ code \in {"none", "ok", "failed", "killed"} /\ printed \in Nat
      BY DEF CaptureInv, CaptureKnows, CaptureTypeOK, ChildTypeOK
    <2>2. pipe = 0 /\ printed - pipe = printed
      BY <2>1 DEF EndOfStream
    <2>. QED BY <2>1, <2>2 DEF CaptureInv, Captured
  <1>. QED BY <1>1, CaptureStart, CaptureStep, PTL DEF CaptureSpec
================================================================================
