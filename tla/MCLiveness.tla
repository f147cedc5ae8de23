------------------------------ MODULE MCLiveness ------------------------------
(* Five small systems that share nothing, one per behaviour, so that one run   *)
(* of TLC shows of each that what it waits for comes: the render sink, the     *)
(* thread pool, the idle pool, the capture of a command and the Studio's batch;*)
(* see README, "Runs".                                                         *)
EXTENDS FrameSink, RunCapture, TLC

VARIABLES
    which,       \* the system this behaviour is of
    mutex, submit, currentJob, generation, job, pc, taken, seen, chunk, ran, jobResult,
    pool, spurious,
    entries, maxIdle, stats, reaperRunning, reaperThread, stopping, reaper, hand, dead,
    freed, sick, user, waitFor, poolFailures, timeouts, settings,
    toolProc, toolCode, toolPipe, toolPrinted, toolChild, ui, batch, status, clipOutput, onDisk,
    overtaken, picked, runnerSeen, runner, runnerBusy, workerAt, lineHeld, lines

threadVars == <<mutex, submit, currentJob, generation, job, pc, taken, seen, chunk, ran,
                jobResult, pool, spurious>>
idleVars == <<entries, maxIdle, stats, reaperRunning, reaperThread, stopping, reaper, hand,
              dead, freed, sick, user, waitFor, poolFailures, timeouts, settings>>
studioVars == <<toolProc, toolCode, toolPipe, toolPrinted, toolChild, ui, batch, status, clipOutput,
                onDisk, overtaken, picked, runnerSeen, runner, runnerBusy, workerAt, lineHeld, lines>>

\* Frames 3, 4 and 7 were dropped: 3 and 4 show frame 2's sample, 7 frame 6's.
MCSample == <<0, 1, 1, 1, 2, 3, 3>>

\* One chunk, which either side may get, so that every order of the last count,
\* the last departure and the owner's wait occurs.
Threads == INSTANCE ThreadPool WITH
    Workers <- {"w1", "w2"}, Callers <- {"c1", "c2"}, Word <- 4, MaxCalls <- 2,
    Ranges <- {[begin |-> 1, end |-> 2, grain |-> 2]}, MaxSpurious <- 0,
    result <- jobResult

\* One item that can be parked and one that has no key.
Idle == INSTANCE IdlePool WITH
    Items <- {"i1", "i2"}, Keys <- {"k1"}, KeyOf <- "i1" :> "k1" @@ "i2" :> "no key",
    NoKey <- "no key", Users <- {"u1"}, Reapers <- {"r1", "r2"}, NoReaper <- "no reaper",
    Limits <- {1}, MaxIdleCalls <- 3, MaxFailures <- 1, MaxTimeouts <- 1, MaxSettings <- 0,
    failures <- poolFailures

\* One clip, and a tool that need not end by itself, but on SIGTERM.
Batch == INSTANCE BatchRunner WITH
    Items <- {"clip"}, NameOf <- "clip" :> "file", MaxSuffix <- 1, LineCap <- 1,
    Stubborn <- {}, Resident <- {"leader", "helper"}, MaxLines <- 1, PipeSize <- 1,
    proc <- toolProc, code <- toolCode, pipe <- toolPipe, printed <- toolPrinted,
    child <- toolChild, output <- clipOutput, seen <- runnerSeen, held <- lineHeld

ASSUME Idle!PoolAssumption /\ Batch!BatchAssumption

Systems == {"sink", "threads", "idle", "capture", "batch"}

Start ==
    /\ which \in Systems
    /\ Init /\ Threads!Init /\ Idle!IdleInit /\ CaptureInit /\ Batch!BatchInit
    /\ video \/ which = "sink"    \* one initial state of the others

Stays(system) ==
    CASE system = "sink" -> UNCHANGED vars
      [] system = "threads" -> UNCHANGED threadVars
      [] system = "idle" -> UNCHANGED idleVars
      [] system = "capture" -> UNCHANGED captureVars
      [] system = "batch" -> UNCHANGED studioVars

Only(system) ==
    /\ which = system /\ which' = which
    /\ \A other \in Systems \ {system} : Stays(other)

Step ==
    \/ Only("sink") /\ Next
    \/ Only("threads") /\ Threads!Next
    \/ Only("idle") /\ Idle!IdleNext
    \/ Only("capture") /\ CaptureNext
    \/ Only("batch") /\ Batch!BatchNext

\* A process that is to end does.
Ends(p) == ExitInTime(p) /\ UNCHANGED <<caller, reader, result>>

all == <<which, vars, threadVars, idleVars, captureVars, studioVars>>

\* The fairness of each module: one system runs, so that the n-th conjunct is its
\* n-th one.
LiveSpec ==
    /\ Start /\ [][Step]_all
    /\ WF_all(\/ Only("sink") /\ Loop
              \/ Only("threads") /\ Threads!CallerStep("c1")
              \/ Only("idle") /\ Idle!UserStep("u1")
              \/ Only("capture") /\ Caller
              \/ Only("batch") /\ (Batch!App \/ Batch!User))
    /\ WF_all(\/ Only("sink") /\ Writer
              \/ Only("threads") /\ Threads!CallerStep("c2")
              \/ Only("idle") /\ Idle!ReaperStep("r1")
              \/ Only("capture") /\ Reader
              \/ Only("batch") /\ Batch!WorkerStep)
    /\ WF_all(\/ Only("sink") /\ Encoder
              \/ Only("threads") /\ Threads!WorkerStep("w1")
              \/ Only("idle") /\ Idle!ReaperStep("r2")
              \/ Only("capture") /\ GraceOver /\ UNCHANGED <<caller, reader, result>>
              \/ Only("batch") /\ Batch!Grace)
    /\ WF_all(\/ Only("threads") /\ Threads!WorkerStep("w2")
              \/ Only("idle") /\ Idle!TimePasses
              \/ Only("capture") /\ Ends("leader")
              \/ Only("batch") /\ Batch!ExitInTime("leader") /\ Batch!ToolExits("leader"))
    /\ WF_all(\/ Only("threads") /\ Threads!DestructorStep
              \/ Only("capture") /\ Ends("helper")
              \/ Only("batch") /\ Batch!ExitInTime("helper") /\ Batch!ToolExits("helper"))
-----------------------------------------------------------------------------
\* ThreadPool: every parallelFor that was called returns, and so does the
\* destructor: no worker sleeps through the stop.
CallsReturn == Threads!CallsReturn /\ Threads!DestructorJoins

\* IdlePool: a parked item is handed out or released in the end, unless no reaper
\* could be had.
NothingKeptForever == Idle!NothingKeptForever

\* RunCapture: it returns, though the command ignores SIGTERM and never ends by
\* itself, as long as what the command started does.  What stays behind a command
\* that exited is another question: see CallerReturns and its run.
CaptureReturns == which = "capture" => CallerReturns

\* FrameSink: the command ends, whoever fails while the other waits.
SinkEnds == which = "sink" => CommandEnds

\* BatchRunner: a render whose tool has ended, was told to stop, or could not be
\* read ends with its clip settled, or with the app.
RenderEnds == Batch!RenderEnds
=============================================================================
