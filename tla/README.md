# A verification of OpenOSV

OpenOSV reads the 360° video of a dual-fisheye camera (`.osv`: two lens streams, metadata and a
calibration in one MP4 container), stitches the lenses and hands the frames to editors (Premiere
Pro, OFX hosts, VEGAS), to a command line tool and to a batch app. This directory holds TLA+
modules that model the parts of it where threads, caches, processes and the GPU meet, TLC
configurations that check them on small instances, and TLAPS proofs for every one of them: the two
pools, the batch and the probing of commands, the GPU frame cache and the release of its slots, the importer
(reading of frames, settings, settle stage, flare models and seam correction), the file of the user's defaults
and the output of the command line tool.

Paths below are relative to the repository (`src/osv/...` is the core library); "model" is a
module here. `PROJECT.json` maps every definition to the lines it translates.

- [Inventory](#inventory)
- [Modules and how they correspond to the code](#modules)
- [Runs](#runs)
- [Fairness](#fairness)
- [Proofs](#proofs)
- [Disagreements between code and documents](#disagreements)
- [What is left out](#left-out)
- [Plan](#plan)

<a id="inventory"></a>
## Inventory

The libraries build on each other: core → container → meta → color → video → geom → render → io,
and `osvtool` on all of them. The plug-ins (Premiere importer, reframe effect, source settings,
OFX) link the libraries; the batch app (`tools/osvgui`, "Studio") and the Adobe panel start
`osvtool` as a child process.

| Component | State it keeps | Operations | Talks to | What is hard | What makes it correct |
|---|---|---|---|---|---|
| `ThreadPool` (core) | published job, generation, a `Job` on each caller's stack, condition variables | `parallelFor`, `parallelRows`, destructor; worker loop | every renderer, on several host threads at once | pointer to a stack object shared with workers; a wait on atomics written outside the lock; a chunk that throws | no `Job` touched after its owner returned; each index runs once; ok means all ran; every call returns |
| `IdlePool` (video) | entries with deadlines and LRU order, counters, reaper thread | take, park, trim, clear, setLimits, destructor; reaper pass | `ReaderPool`, `GpuDecoderPool` park their objects in it | reaper starts, fails and exits while items arrive; predicates that change while parked | one owner per item; nothing watched by nobody; limits hold; counters balance |
| `ReaderPool`, `GpuDecoderPool` (video) | keys: file identity and options | take, park, trim | importer, OFX source | an item that matches a file that has changed | a reader is reused for the same file and options only |
| `GpuClipDecoder` (video) | slots, frame map, recency, window of decode-ahead, engine owner, lease pins, release events, memory on its way out | acquire, release, releaseAfter, dropCachedFrames, trimForIdle, destructor; decode-ahead worker; courier | hosts' render threads; CUDA streams; `DualStreamReader`'s undecodable runs | one decode engine shared by a foreground and a worker; eviction against leases; GPU work still pending when the CPU side is done | leased frames stay, one writer per slot, worker yields, no copy or free under a pending kernel |
| Lens decoder, `DualStreamReader` (video) | position, damage in the group of pictures, undecodable runs met, the pair held in their place | open, read (seek or decode on) | `HwDeviceCache`, `ContainerSource`, importer's fallback to software | what a request decodes depends on every request before it; damage passed on the way; a file rewritten while it is opened | which frame is shown is a matter of the file alone; a picture predicted from a damaged one is refused; a warm reader is of the file as it is |
| `HwDeviceCache`, `ContainerSource` (video) | weak pointers under a lock | share or create | both lens decoders | two openers at once, a device on its way out | one live device, one parse per file |
| `ClipTimeline`, sample table, container parser | none (values) | mapping of times to frames; parsing | everything above | boundaries, drift of two tracks | agrees with the definition in the comments |
| Metadata, calibration selection | none | decode protobuf records, choose a calibration | importer, tool | missing fields | — |
| Colour, geometry, renderers (CPU, CUDA, OpenCL, Metal) | lookup tables; CUDA workspaces | pure per-pixel work | `ThreadPool`, CUDA | floating point; a pool of workspaces that callers wait for | — |
| Image and video output (io) | an `ffmpeg` pipe | write frames | `osvtool` | a writer that fails in the middle | — |
| `osvtool` | render loop, bounded frame queue, writer thread | commands | all libraries | queue full while the writer fails | every frame once and in order, or an error |
| Importer: instance and stages (`SteadyStage`, flare, scene light) | settings generation, measurements shared by instances of a clip, parallax worker | request, publish, reset, poll | Premiere's threads | single flight; results of a former generation; hand-over from an instance that ends | a result belongs to the settings it was measured for |
| Importer: engine, GPU frames, protector guard | published engine, readback registry | publish, look up, withdraw | the reframe effect, in another module | unload order, look-ups during withdrawal | nobody uses a withdrawn engine |
| Reframe effect, source settings, OFX plug-in, VEGAS scripts | host objects | host callbacks | importer's engine | host glue | — |
| `UserDefaults`, log, host context (plug-ins' common parts) | a settings file several processes write, a cache of it in each module | load, save, reset | all plug-ins, `osvtool` | two writers, a crash between steps, a file replaced while it is read | no torn file; a cache the file's stamp confirms is right |
| Studio: `ChildProcess`, `ProcessRunner`, `runCapture` | child's process group, pipe, worker thread, published lines, state | start, stop, state, takeLines, reset; capture with time-out | UI thread, `osvtool` | grandchildren that hold the pipe; escalation SIGTERM→SIGKILL; reaping; start that half fails | a finished run is complete, nobody is left rendering, stop and quit end |
| Studio: queue and batch (UI thread) | clip states, batch flags, output files | add, remove, start, skip, pause, stop, render again, quit, poll | `ProcessRunner` | the state of the runner changes between two looks of one frame | one render at a time; Done is a finished file; pause holds |
| Panel controller (JavaScript) | a poll of the importer's files | – | Adobe host | – | – |

The list of hazards in `PROJECT.json` names, line by line, what a test would hardly reach in these
components, and which property watches it.

<a id="modules"></a>
## Modules and how they correspond to the code

### ThreadPool, ParallelFor

`ThreadPool.tla` models `src/osv/core/ThreadPool.cpp`. A critical section of `m_mutex` is one step,
for what it touches is touched nowhere else. The exception is the owner's wait in `parallelFor`:
its predicate reads `remaining` and `inside`, atomics that workers change without the mutex, so the
lock is held over the steps *check remaining – check inside – sleep* (`CheckCount`, `CheckInside`,
`Block`). A chunk is: draw its number (`Grab`, a `fetch_add`), run the body or skip it after a failure (`Run`),
count down (`Count`); each a step. The `Job` is indexed by the caller whose stack it lives on; a worker that looks
at the job of a caller that returned is a use after scope. `Word` is the width of `size_t`:
chunk arithmetic wraps. `parallelRows` is a wrapper of `parallelFor`; a pool without workers runs
the same code on its caller.

`ParallelFor.tla` is what a caller may rely on: calls take effect one after another, in each the
indices run in any order, at most once, and the result is ok only if all ran. `ThreadPool`
implements it under the mapping at its end (`ImplementsParallelFor`); the abstract "current call"
is the holder of `m_submitMutex`.

### IdlePool

`IdlePool.tla` models `src/osv/video/IdlePool.cpp`: the list of parked entries in LRU order, the
four counters, the limits, the life of the reaper thread (not born, running its loop, on its way
out, gone), and users that take, park, trim, clear and change the limits. Each critical section of
the pool's state is one step, the destruction of the released items, which the code does outside
the lock, another (variable `dead`). Time is abstract: an entry becomes due at any moment after it
was parked, the oldest first. `mustRelease` is the verdict an item may turn to while parked. `clear()` waits for the
reaper as on Windows; its time-out (`MaxTimeouts`) covers the POSIX build, which does not wait.

### GpuFrameCache

`GpuFrameCache.tla` models the CPU side of `src/osv/video/GpuClipDecoder.cpp`: `acquire` with its
wait, its retry at an undecodable run and its frame held in place of one; `decodePair` (reserve,
allocate, publish, fail); the worker of decode-ahead with its predicate; pins; `dropCachedFrames`,
`trimForIdle` and the destructor. The engine (`engineBusy`) is owned by an acquire or by the
worker; `job` says how far its owner is. `PlanStart` is where a decode must begin to deliver a
frame, from the sync frames of both lenses. The courier that decodes the second lens in parallel is
one step with its owner, who waits for it. Evictable slots are chosen as the code does, least
recently used first, never one of the window while others are there. `lastUse` holds the order of the
slots' clock values as ranks, not the values; slots that were never used, or were emptied, have none. A
look-up runs the four rounds of `holdFor`'s loop.

### GpuSlotRelease

`GpuSlotRelease.tla` models the GPU side of the same file: how refilling and freeing a slot are
ordered behind the kernels that read it. A stream is the sequence of its pending operations; an
event stands for what was pending when it was recorded; a wait captures what its events stand for.
`TakeEvent`, `Record`, `Synchronize`, `Push` and `Unpin` are `releaseAfter`; `Reserve`, `Order`,
`Recycle`, `CopyLens`, `Settle` are `decodePair` with the calls on streams; `Trim`, `Free`,
`DestroyStore` give memory back. The CUDA driver is external and completes any operation whose turn
has come. Which free slot is reused is left open here; `GpuFrameCache` decides it.

### ChildProcess, BatchRunner, RunCapture

`ChildProcess.tla` models the POSIX child of `src/tools/osvgui/Runner.cpp`: a leader and the helper
it forks in its process group, a pipe with a capacity that both write to, `kill` to the group, the
grace period, `SIGKILL`, and reaping, after which `kill` does nothing. What the tool does is
external: it prints, forks, ends, ignores SIGTERM (`Stubborn`) or never ends by itself
(`Resident`), as the configuration says.

`BatchRunner.tla` EXTENDS it with `ProcessRunner` (its worker thread reads until the end of the
stream, reaps, reports) and with the batch on the UI thread (`Ui.cpp`, `Queue.cpp`). The UI is a
loop: take the lines, look at the runner's state, settle a finished clip, start the next, draw a
frame in which one button may be pressed. Each start gives the clip the file it renders to (`OutputFor`): of the
names its path gives, the first that no clip of the batch was given (`m_batch.outputs`); `Batch{}` forgets
the names. `overtaken` is not in the code: it records the clips shown as done whose file another start was given
since, where the code lets that happen. `RunCapture.tla` EXTENDS the same child with
`runCapture`: a reader thread and a wait with a time-out.

Abstractions that matter in them: the order of the queue is the user's to change at any time, so the next
clip is any queued one; counters for totals and the label of a paused batch are left out; the first
clip that `startBatch` starts inline is the same step sequence that `pollBackground` takes; the
limits of `wait(5000)` and `wait(10000)` never bite because SIGKILL comes after three seconds;
`finishClip`'s early return for a clip that left the queue is unreachable, for a rendering clip
cannot be removed; "already rendered" is the code's test (the file exists and is not empty), so an
opened output counts. A clip's path (`NameOf`) is the same in every batch: the settings that change it between
batches are not modelled.

### SteadyStage, SharedMeasurement

`SteadyStage.tla` models `src/plugins/importer/SteadyStage.cpp`: the lens rotation, the mount mask
and the clip correction an instance of a clip asks for. Each instance (*stage*) has a request, a
generation that grows with each request and each reset, a stop flag and one worker thread; the
answers and the keys in flight belong to the process. An answer is named by the key it was measured
for, so a stale answer is one whose name is not in the request. `request()` is the steps of the
caller's thread: look at the caches under the global mutex, stop the worker, join it, start it.
The worker's `runPhases` is the phases in turn, each *claim – wait while another holds the key –
measure – publish*: the claim is given up (a guard's destructor) when the measurement fails or is
cancelled, and the waiting stage takes it over. The store trims the clip corrections to
`MaxCachedClips`; rotations and mounts are never trimmed.

`SharedMeasurement.tla` is what the stages promise each other: a key is measured by one worker at a
time and never while its answer is known, and a worker that gives up leaves the key to others.
`SteadyStage` implements it (`MeasuresOnce`) with the mapping at its end.

### ParallaxWorker

`ParallaxWorker.tla` models the seam meshes of `src/plugins/importer/ImporterInstance.cpp`: the
render thread's `applyAnalyses` with `bucketCorrectionLocked` for exact, interactive and draft frames,
`queueParallaxJobLocked`, the background worker, `stopParallaxWorker` (which `releaseHeavy` calls), the two ways settings change, and the reuse of the last frame.
A mesh field is named by what it was solved from (bucket, frame, prior, generation), so "the
correction of an export depends on the order of frames" is a property of names. The cache of
buckets is trimmed as `trimAnalysisCache` does it: the lowest bucket goes first, never the one just stored.

### FlareStage

`FlareStage.tla` models `src/plugins/importer/FlareStage.cpp`: `decide()` with its look-up, its
sun check, adoption of models from buckets around, the fit on the spot or by the worker, `stop()`
and `reset()`. The sun's position is an integer and the tolerance a distance; what the fit computes is
external. `deciding` is where the render thread is inside `decide()` or `stop()`, and for which frame. The early
returns of `decide` that touch no state (flare removal off, no model) are left out.

### SettingsRegistry

`SettingsRegistry.tla` models how one file's settings travel through `Engine.cpp`,
(with its `LiveInstanceTable`) and `ImporterInstance.cpp`: publications, adoption when a clip opens
(`imOpenFile8`), the host's blob (`imGetPrefs8`, `applyPrefs`, `applyPrefsFromSourceSettings`), the push of an edit by the
Source Settings effect (`publishSourceSettingsFromEffect`) into a snapshot of the live instances with its dispatch lock, destruction of an
instance that waits for the dispatch, and frames of the engine's own instance that first apply what
is published. A push is `dispatch`: the edit, and the set of instances it has still to reach, of which the
oldest is next (`Target`). `history` is not in the code: it records which settings each generation stood for. One
file is modelled; which settings block is bound only decides whether an edit is taken; the seeding
of LRF proxies, the SDR start and failed allocations are left out.

### LensReader

`LensReader.tla` models the reading of a frame on the CPU path: `HevcStreamDecoder::decode` of
`Decoder.cpp` (`Decode`: the known run, the seek or the way on, the pictures passed, the skip that
is classified as a run, the damage refused), `DualStreamReader::open`, `read`, `holdFor` and
`heldRead` (`Look`, `DecodeLens` once per lens, `Hold`, `Deliver`), `ensureReader` and `readPair` of
`ImporterInstance.cpp` (`Take`, `Open`, `Refuse`, `FallBack`), and `ReaderPool::take` and `park`
with the identity of the file (`Warm`, `Quiet`). A track is the set of its samples with what is
true of each: listed as sync, really starting a decode, having lost its reference, flagged as
damaged by libavcodec in any decoder or only in a hardware one; libavcodec is what `Decodable`
says. The file (`disk`) may be rewritten at any time; each lens maps it in a step of its own, after
the reader has read its identity. One instance of the clip reads; the readers in the pool are those
it parked, which another instance of the clip (`Reopen`) may take. `ChainsDeeper` is what the four rounds of `holdFor`
do not reach: frames from which four steps back over the losses of the two lenses (`StepsBack`) end inside a loss.

Left out: the libavformat feed (every camera file uses the container's samples), side-by-side
proxies with their shadow check, tracks whose presentation times differ, device pictures, the
decoder's own `next()` and `seek()`, which no reader calls; `kMaxDecodeStartScan` is longer than the
tracks; one hardware back-end stands for the list of them; the format the hardware does not take is
found at a lens's first decode.

### FrameSink, FrameOutput

`FrameSink.tla` models the output side of `osvtool render` (`CmdRender.cpp`,
`FfmpegPipe.cpp`): the render loop with its held picture for dropped frames, the bounded queue, the
writer thread, the pipe to `ffmpeg` with the fallback codec, and the end of the command. `ffmpeg` is
external: it reads, may die, and ends with its input; its `-shortest`, which may end a video early
with sound, is left out. `FrameOutput.tla` is the promise: the frames in order, each with its own
picture, success only when all are there. `FrameSink` implements it (`OutputInOrder`).

### UserDefaults

`UserDefaults.tla` models `src/plugins/common/UserDefaults.cpp`: `currentUserDefaults` (`Stat`
outside the lock, `Hit`, `Miss`, then `TakeSize` and `Read` of `readWholeFile`), `saveUserDefaults` with
`writeAtomically` (`Save`, `Create`, `Write`, `Flush`, `Rename`, `Remember`) and `resetUserDefaults`,
under the lock of the module. Both builds are modelled, chosen by `windows`: Windows reads the file it opened, flushes to the disk
and refuses a sibling that exists; the portable code sizes the path before it opens it, flushes to the
system and truncates such a sibling. A stamp may get no answer (`StatFails`, `RememberFails`), and a file may not be opened, sized or read
(`ReadFails`): `currentUserDefaults` then remembers the built-in defaults under the stamp it has. That value has a
name of its own in the model, `Unread`, for the code cannot tell it from what a file said and the properties must. Any step of a save may fail, a process may end
and the power may go. The file system is external: a rename is atomic, an inode is not used again within a tick of its clock
(all stamps have one modification time here, the hard case), and a power cut loses content that
was not flushed, never a name. Left out: the location of the file (one path), the retries on Windows, which end in success
or failure, and the parsing of the document. A module is asked by one thread at a time.

### MC modules

They EXTEND what they check and give the constants values: model values, sets, symmetry. (`MCLiveness`
INSTANCEs its two pools and the batch; names that would clash, such as `IdleNext`, `FlareNext` and `BatchNext`, are
prefixed; `Absence.tla` declares the importer's one `None`.) Four of them put small systems that
share nothing into one run, one system per behaviour, chosen by the variable `which`: `MCPools`
(thread pool, idle pool), `MCLiveness` (sink, thread pool, idle pool, capture, batch), `MCImporter`
(reading of both lenses, settings, settings with frames, flare, and the batch of `MCBatchRunner`) and `MCParallaxWorker` (seam meshes, the
user's defaults). The variables of the other systems keep one initial value,
so the states of the run are the sum of those of its systems, not the product. `MCLensReader` has two files of its own, for the run
`reader_rounds`. Definitions
commented "Mutant" in the models are plausible bugs, which no specification uses: each property is
known to fail when the definition named in `PROJECT.json` is replaced by its mutant.

<a id="runs"></a>
## Runs

Distinct states as TLC counts them; with two TLC workers every run ends within five minutes. The
type invariants are proved or were checked while the models were written; no run lists one.

| Run | Configuration | States | Shows |
|---|---|---|---|
| `pools` | *threads*: 2 workers, 2 callers, 2 calls, ranges of two chunks, of one (zero grain) and of none, 1 spurious wake-up, `size_t` of 8 values. *idle*: 2 users, 2 items of one key, 2 reapers in turn, limits 0–2, 3 parks and takes, a failure, a change of limits | 633 k | `JobOutlivesWorkers`, `OneOwner`, `ReaperWatches`, and that ThreadPool implements `ParallelFor` |
| `liveness` | *sink*: 7 frames, 3 of them dropped, a queue of 3, a pipe of 1, 2 codecs, 2 failures. *threads*: 2 workers, 2 callers, one chunk. *idle*: 1 user, an item with a key and one without, a time-out. *capture*: a command that ignores SIGTERM and never ends, with a helper that does; 4 lines, a pipe of 2, a cap of 3. *batch*: 1 clip, a tool and a helper that end on SIGTERM only, 1 line, a pipe of 1 | 88 k | `SinkEnds`, `CallsReturn` (and the destructor joins), `NothingKeptForever`, `CaptureReturns`, `CaptureIsComplete`, `RenderEnds`, and that FrameSink implements `FrameOutput` (`OutputInOrder`) |
| `gpu_cache` | 2 callers with 2 leases each, 4 frames, 3 slots, an undecodable frame, 2 acquires, a failure, a trim, a drop | 186 k | `LeasedFrameStays`, `OneWriter`, and under fairness `AcquireReturns`, `WindowFills` |
| `gpu_cache_full` | the same cache with one lease a caller, no drops | – | violates `RefusedMeansLeased` |
| `gpu_release` | 1 slot, 2 allocations, 2 consumers with a stream each, 2 copy streams, 3 events, 4 operations pending, 2 fills, a failed driver call, a failed lens, a trim | 811 k | `CopiesWaitForReads`, `OneHome`, `LeaseIsComplete`, `FreedIsUnused` |
| `gpu_free_failed` | the same with 2 failed lenses | – | violates `FreedIsUnread` |
| `batch_late_stop` | 1 clip | – | violates `FinishedFilesStay` |
| `capture_helper` | `RunCapture` as it stands; a command that ends by itself, with a helper that never does; 2 lines, a pipe of 1, a cap of 1 | – | violates `CallerReturns`, under fairness |
| `reader_rounds` | 2 files of 7 samples, 1 warm reader, no failures | – | violates `FourRoundsSuffice` |
| `steady` | 2 stages of a clip, requests for a rotation with a clip correction and for a mount with one, 1 cached clip correction, 3 generations, a failure | 374 k | `SnapshotIsOfRequest`, `MeasuresOnce` (the refinement of SharedMeasurement), `RequestSettles` |
| `parallax` | *meshes*: frames 3 and 4, buckets of 2, 2 meshes cached, 2 upsets; *defaults*: 2 processes, settings of two lengths, 2 saves or resets, an upset (a failed step, read or stamp, a crash, a power cut) | 4.2 M | `FinalIsSequential`, `ExactIsFinal`, `StandInIsCurrent`; `NeverTorn`, `CacheFollowsFile` |
| `importer` | *settings*: 2 clips, 1 engine instance, 2 settings, 2 opens, 3 calls; *engine*: the same with a render and a call and an open less; *flare*: 5 frames of a slow pan, one without sun, buckets of 2, 1 model a bucket, 2 buckets, adoption over 1 bucket, 2 upsets; *lens*: 5 samples, 4 contents of the file and one it may be rewritten to, 1 warm reader, 1 failure; *batch*: 2 clips of one name, 2 names to a path, a run prints 1 line, which may be read in two pieces | 3.1 M | `NewestWins`, `FrameIsAsReported`, `EditStays`; `ModelsFit`, `AnswerIsKept`; `ShowsTheFrame`, `RefusalTeaches`, `DamageIsNotShown`, `WarmIsCurrent`; `FinishedIsComplete`, `OneRender`, `NoOrphans`, `DoneIsFinished` |

What the bounds leave room for:

- *pools, threads*: two workers are needed for one to leave a job while another still works, two
  callers for a `Job` to be replaced and for the submit lock to matter; a second call reuses the
  stack of the first caller or comes from the second. Two chunks let owner and worker each have one.
- *pools, idle*: two users take and park at once; a second reaper is born while the first is on its
  way out; two items with limit 1 evict. For liveness the second user is dropped: the first user
  and the reaper are what must make progress.
- *gpu_cache*: three slots are the least in which a leased frame, the frame decoded now and one
  frame of the window coexist. With two leases a caller, all slots can be pinned. An acquire that
  waits while another owns the engine and the worker wants it needs two callers.
- *gpu_release*: both consumers' reads with the wait and one copy are pending at a time, or a read,
  the wait and both copies. A second allocation lets a trimmed slot come back while its former
  memory is dying.
- *importer, batch*: two clips of one name let the second run see what the first left behind, in the same batch, where
  it gets another name or, when a clip is queued a third time, the last one, or in a later batch, where
  it gets the same. One line is enough to be left in the pipe, or in the worker's hands (`held`), when an exit is
  reported; the cap on lines kept is not reached (`BatchTypeCorrect` proves it for any). The safety run has no
  tool that ignores SIGTERM: such a leader may fork a helper after the signal was sent to the group,
  which `NoOrphans` would rightly report; `osvtool` installs no handler for it.
- *steady*: the third generation is a second request of one stage while the other waits for its
  measurement. One cached clip correction makes the two requests evict each other's answers.
- *parallax*: frames 3 and 4 lie in neighbouring buckets, of which the second's prior is the first;
  the frame before bucket 1 makes a third bucket, so that a cache of two trims while in use. In the
  defaults part two saves overlap in two processes, or a reset and a save, with a reader in either
  process; a document of two blocks can be half written, half read, or read with the other's length.
- *importer*: with two opens an instance is reopened while another is alive; three calls are a
  publication, an edit and a second edit, or an edit and two selectors around it. In the flare part two
  buckets of three fit, so that a model is trimmed and adopted again. In the lens part, the contents
  pair a lens that lost a key picture with damage that only hardware shows, two lenses whose runs
  chain, a track without its first key with one whose second key comes late, and a damaged track
  with one that never recovers; the rewritten file is clean. Five samples hold a group of pictures,
  a run and the start after it.
- *reader_rounds*: seven samples are the fewest in which losses one frame apart chain four steps back and a frame of both
  lenses is before them.
- *sink*: seven frames fill a queue of three, the picture in the writer's hands, the picture in the
  pipe and the one the encoder reads, with one to spare.

Deadlock is checked in every run but `steady`, `parallax` and `importer`, whose systems rest once
their bounds are used up and whose threads ask for nothing more; the batch of `importer` is checked for it in `liveness`. In the others the bounds of calls
stop users, who need not call again; each specification has a step for the end (`Gone`, `Finished`,
`Done`), so that a deadlock TLC reports is a thread that waits for something that cannot come.

<a id="fairness"></a>
## Fairness

Only in the `FairSpec`s, and only weak. The specification of `MCLiveness` names, conjunct by conjunct,
the fairness its modules' own `FairSpec`s state, and for the batch that of the UI thread (which draws on, whatever the user presses), the worker, the grace period and
processes that must end; `SteadyStage` is fair to the instance's thread and to its
worker; nothing is assumed of ParallaxWorker, FlareStage, SettingsRegistry, UserDefaults and LensReader, for which only safety
is checked.


- a thread that can take a step takes it (the OS schedules runnable threads). A thread that waits
  for a mutex several threads contend for needs more where others can overtake it for ever; the
  bounds on calls exclude that, and mutexes are not held for ever.
- a condition variable's waiter runs only after a notification; the spurious wake-ups of ThreadPool are
  allowed and never obliged.
- time passes: an idle entry becomes due, the grace period ends.
- a process that must end does: one killed by SIGKILL, or by SIGTERM when it does not ignore it, or
  one that is not `Resident`.
- a measurement of the settle stage ends, with an answer or without one; a process the sink writes
  to reads its input or dies.
- users, hosts and callers are never obliged to call anything; leases are never obliged to go.

<a id="proofs"></a>
## Proofs

`PoolProofs.tla` is about `ThreadPool` and `IdlePool`. Of `ThreadPool` it proves, for any finite set of workers, any set of callers, any ranges and
any width of `size_t`:

- `TypeCorrect`: `Spec => []TypeOK`
- `JobLifetime`: `Spec => []JobOutlivesWorkers` — no worker holds a `Job` whose owner has returned
  or which was replaced.
- `PoolImplementsParallelFor`: `NoWrap` implies `Spec => ImplementsParallelFor` — every call runs each index at most
  once, inside its own turn, and returns ok only if all ran.

The assumptions are the two of `ThreadPool.tla`: workers exist, are finitely many and are not
callers (`ThreadsAssumption`); ranges consist of values of `size_t`, the bounds are naturals
(`SizesAssumption`). The bounds on calls and spurious wake-ups are arbitrary.

`JobOutlivesWorkers` is not inductive. The owner returns when it has seen `inside = 0`, so the proof
needs that `inside` counts the workers that hold the pointer (`InsideCounted`); a worker takes the
pointer from the published job, so it needs that the published job is one whose owner is between
publication and withdrawal (`PublishedIsLive`); and that there is one such owner at a time is due
to the submit lock (`SubmitHeld`). The conjunction with the type invariant is `JobInv`; TLC agrees
that it is an invariant, and the proof shows that `Init` implies it and that every action preserves
it, action by action. The cardinality facts the count needs (a worker enters, a worker leaves) are
lemmas over `FiniteSetTheorems`.

The refinement holds only where the number of chunks does not wrap: `NoWrap` says that no range's end plus its
grain exceeds `Word` (the run's ranges satisfy it; what happens otherwise is under
[Disagreements](#disagreements)). Its invariant is `ChunkInv`, again checked by TLC first: `remaining` counts the
chunks not given out and those a thread holds (`Counted`); a chunk given out is held, was run, or was skipped after the
body threw (`Covered`); no index of a chunk a thread still holds was run (`Fresh`). An owner that sees `remaining = 0`
therefore has nothing left to run, unless the body threw. Under the mapping, `Call` is the abstract `Enter`, `Submit`
`Begin`, `Run` `Visit`, `Return` `Finish` and a call with an empty range `Trivial`; all other actions stutter.

`ImporterProofs.tla` is about `LensReader`, `SettingsRegistry` and `FlareStage`, one after the other. It proves
of the reader, for tracks of any length and content, any number of versions of the
file, of warm readers and of failures:

- `LensTypeCorrect`: `Spec => []LensTypeOK` (the type invariant of LensReader)
- `ShownFrame`: `Spec => []ShowsTheFrame` — a pair handed out is of the frame the file determines.
- `DamageHidden`: `Spec => []DamageIsNotShown` — no picture predicted from a damaged one is shown.
- `WarmReaderIsCurrent`: `Spec => []WarmIsCurrent` — no reader of an older file is taken as current.
- `RefusalsTeach`: `Spec => []RefusalTeaches` — a request for a frame with one of both lenses at or before it is refused only if
  it met a run that no request had met, or where the losses chain deeper than four steps (`ChainsDeeper`).

The assumption is `LensAssumption` of `LensReader.tla`: the bounds are naturals, a file has a version
and its contents are tracks, the first sample of a track is listed, and no sample starts a decode and
lacks its reference.

None of them is inductive: what a request is answered depends on what requests before it left
in the decoders. The invariant, `LensInv`, says what may be left: a run a decoder knows holds no
picture that decodes (`RunsSound`), a position of a hardware decoder was reached without damage
(`PositionSound`), a kept pair is a frame of both lenses (`PairSound`), what a reader has mapped is
what the file was at its identity or later (`OfItsTime`), and no frame both lenses have lies between
the frame asked for and the one decoded in its place (`NoneBetter`, `GotSound`). `DecodeSound` shows
that a decode keeps the first two, `ReachedClean` that damage is met on the way from the start of a
group of pictures or from a clean position, and `HoldForIsAsGood` that every round of `holdFor`
passes over nothing that could be shown. `RefusalTeaches` has an invariant of its own, `TeachInv`: as long as a request
met nothing new, its target is what `holdFor` gives for the runs known when it began, so a lens that refuses that target
would have had to know a run around it. A run begins right after a picture that its lens has, so every round of
`holdFor` steps back to such a picture (`RunLeadsBack`, `StepsBack`), and two lenses that refuse in turn make a chain
of such steps. The code stops after four rounds: a target still in a run after them is the end of four such steps, which is
what `ChainsDeeper` says, and without that disjunct the property is false; see [Disagreements](#disagreements). Maxima and minima exist by `Least`, from the library's
theorem on minimal elements. TLC agrees that `LensInv` is an invariant of the instance of run
`importer`. The step of every action is a lemma of its own.

Of the settings, for any set of instances, of the engine's instances, of threads that acquire frames and of
settings, and any number of opens and calls:

- `RegistryInvariant`: `SettingsSpec => []SettingsInv`
- `NewestIsInForce`: `SettingsSpec => []NewestWins` — what an instance was told is in the registry, or a younger
  instance has published since.
- `FramesAreAsReported`: `SettingsSpec => []FrameIsAsReported` — a frame is made with the settings of the generation it
  reports.
- `EditsStay`: `SettingsSpec => EditStays` — an action property: an edit that has reached all stays until the next.

The assumption is `SettingsAssumption`: Premiere's instances are not the engine's, `None` is none of the values it
stands for the absence of, and the defaults are settings. `NewestWins` compares an instance with the registry by
tokens, so `Tokens` says that a token is given to one instance, that none in the registry is newer than the last one
given, and what the registry holds of an instance that has told it (`Stands`), also while the instance has still to publish
something newer. That needs to know who may be about to publish: `Pushes` says that an instance of the engine, or
one that is being opened, publishes only as the target of the effect's push, and `Lives` who is registered, and whom the
engine holds on to. `Histories` says that the history has the settings of each generation up to the one in force,
and of each one a frame has read. It allows for the engine's instance that an edit reached before it was marked, the
exception in `FrameIsAsReported`. `EditStays` follows from the invariant in one step of each action: an edit in
force means that the instances that have something to publish are all Premiere's, open, and under the effect's settings, so
what they publish is the edit.

Of the flare models, for any frames and suns, any tolerance, buckets of any size, caches of any size and any number
of upsets:

- `FramesFit`: `FlareSpec => []ModelsFit` — a frame's model was fitted under the settings in force, for its own sun.
- `AnswersStay`: `FlareSpec => AnswerIsKept` — an action property: neither a store nor an adoption replaces an answer.

The assumption is `FlareAssumption`: frames are naturals, each with a sun or `None`, and the caches hold at least
one model and one bucket. The invariant `FlareInv` says that a job, pending or in the worker's hands, is of a frame with a
sun, and that a frame the render thread has found to lack an answer still lacks it when it gets one, though the
lock was free between and the worker may have stored: a store adds models, never answers (`StoredIs`). What each
operation does to the buckets is a lemma of its own (`TrimIs`, `StoredIs`, `AssignedIs`, `AdoptedIs`, `FindIs`). TLC
agrees that both invariants hold on the instance of run `importer`.

`BatchRunnerProofs.tla` proves, for any finite set of clips, any names and number of suffixes, any capacity of the pipe, any number of
lines and any cap on those kept:

- `BatchTypeCorrect`: `BatchSpec => []BatchTypeOK`
- `OneClipRenders`: `BatchSpec => []OneRender` — one clip renders, the one the batch settles.
- `FinishedMeansAllRead`: `BatchSpec => []FinishedIsComplete` — an exit code is reported after everything
  printed was read, and is the tool's.
- `DoneClipsAreFinished`: `BatchSpec => []DoneIsFinished` — a clip shown as done has its whole file, unless a clip
  of a later batch, or of its own once the names ran out, was given that file.
- `NobodyIsLeftBehind`: `BatchSpec => []NoOrphans`, if no process ignores SIGTERM.

The assumptions are `BatchAssumption` and `ChildAssumption`, and for the last theorem `Stubborn = {}`: the
escalation waits for the leader alone, so a helper that ignores SIGTERM would outlive a leader that obeys it
when the worker fails. `osvtool` and ffmpeg do not ignore it. None of the properties is
inductive. `BatchInv` relates the three threads of control: the runner is busy exactly with the batch's
current clip and its worker exists exactly as long (`InFlight`); a process is reaped only when dead, and
only dead ones have a code (`LeaderKnown`); where the worker stands says what it has seen: the end of
the stream, the exit (`WorkerKnows`); what the UI copied is still true when it acts on it, and a tool
that succeeded has completed the file of the clip it was started for (`OutcomeKnown`). That a start does not touch the file
of a clip that is done is `OwnFile`: the file being rendered is another than that of any such clip that was not
overtaken, which follows from how `OutputFor` picks a name, and from nothing else across batches.
`ToldToEnd` adds, for `NoOrphans`, that a group told to end stays ended: nobody is left to fork.

The same module proves of `RunCapture`, for any number of lines, any pipe, any cap and whatever the command and its
helper ignore:

- `CaptureTypeCorrect`: `CaptureSpec => []CaptureTypeOK`
- `CapturesAreComplete`: `CaptureSpec => []CaptureIsComplete`

The assumptions are `ChildAssumption` and `CaptureAssumption` (the cap is a natural number). The invariant `CaptureInv`
counts: what was printed is in the pipe or was read, and what was read is kept up to the cap (`Captured`). The rest is
`CaptureKnows`: the reader is done only at the end of the stream, which stays, for nobody is left to fork or print; and
before the time is over nobody is told to end, so the exit code is the command's own.

`GpuFrameCacheProofs.tla` proves, for films of any length with any sync frames and any undecodable runs,
any number of slots up to the film's frames, any finite set of callers, and any number of calls, failures,
trims and drops:

- `CacheTypeCorrect`: `Spec => []TypeOK`
- `EngineHasOneOwner`: `Spec => []OneWriter` — no failure, wait or trim leaves a slot marked as being
  filled, or two owners.
- `LeasesKeepTheirFrames`: `Spec => []LeasedFrameStays` — a slot under a lease keeps the frame it was
  leased for, and that was the right one to lease.

The assumption is `CacheAssumption`. `LeasedFrameStays` is far from inductive: that a slot is not refilled
or freed under a lease is due to its pins, so the invariant `CacheInv` has to count them: a slot's
pins are its leases, and the one that is being handed out (`PinsAreLeases`, with `LeaseTaken` and
`LeaseReturned` as the lemmas that count). The map of frames and the slots mirror each other
(`SlotsAgree`), the owner of the engine is at the frame and slot his job says (`EngineAgrees`), and a
caller who waits wants a frame that may be shown in place of the one asked for, or one inside a run he
will learn of (`WantsKnown`). That a frame leased in place of an undecodable one stays the right one as
more runs are met is `HoldStays`: a frame `holdFor` found and that can be decoded is what it finds
with any more runs. `CountersCount` says that the two counters count. TLC agrees that `CacheInv` is an
invariant of the instance of run `gpu_cache`. Each part has one lemma, with one step for every action;
what an action does to the parts of the state that matter is stated once, in lemmas of its own
(`ReservedIsFree`, `PublishFills`, `Contended`, `GivesBack`).

`SteadyStageProofs.tla` proves, for any set of instances and of requests, any size of the cache of corrections
and any number of generations and failures:

- `SteadyTypeCorrect`: `Spec => []TypeOK`
- `FrameReadsItsRequest`: `Spec => []SnapshotIsOfRequest` — a result of a former generation is never
  read, and a correction is read only with the rig it was measured through.
- `StagesMeasureOnce`: `Spec => MeasuresOnce` — the stages implement `SharedMeasurement`.

The assumptions are `SteadyAssumption` and `NoneAssumption`: a request asks for something, and None is
neither a request nor a key nor an answer. `SnapshotIsOfRequest` depends on the call that looks a request up,
on the job and on what is published at once. `SteadyInv` says of each that what it found was found for
its own request and under the key that follows from what else it found (`FoundFor`), in the order of the phases;
`JobIsCurrent` that a job of the generation in force has found what is published, for the phases it has
passed, and that no correction is there before the rig is complete (`Open`): otherwise a rotation
published later would turn the rig under it. The steps of one stage leave the others alone
(`OthersSpared`), so each part has one lemma about one stage, with one step for every action; `KeyFrom` and
`FoundOneMore` say that a phase's key does not depend on the phases after it. For the
refinement, `ClaimsHeld` says that each key in flight is the claim of one worker, and `ClaimsStep` what
a step does to the claims; `Touched` and `Trimmed` that using a correction forgets none, and
that a full cache never forgets the one that was stored.

`ParallaxWorkerProofs.tla` proves, for any set of frames, any size of the buckets and of the caches and any
number of upsets:

- `ParallaxTypeCorrect`: `Spec => []TypeOK`
- `FinalFieldsAreSequential`: `Spec => []FinalIsSequential` — until something fails, a final field is what
  the frames in sequence would give, and an exact frame shows those fields.
- `ExactRequestsEndFinal`: `Spec => []ExactIsFinal` — failures included.
- `StandInsAreCurrent`: `Spec => []StandInIsCurrent` — a stand-in is served again only while a new look would
  take the same.

The one assumption is `ParallaxAssumption`. What is final depends on what jobs were made of, so the inductive
invariant follows a field back to its anchor: `JobsRight` says that any job under way, pending, being solved or
waiting to be stored, is of its own bucket's anchor and has the prior of the generation it was made in;
`MeshesRight` that the cache holds the fields of the generation in force. A job of a former
generation satisfies the first and would break the second: that is what the test in `storeMeshResult` is
for. `TakenRight` carries this to what the frame under way has taken, `LastExact` to the frame rendered last.
For exact frames, `ExactGoesOn` follows a request from the look at a bucket through the fields it has to solve: a
field just measured is still there as the prior of the next, for trimming spares the bucket stored
(`StoredIn`) and only the worker's trims, which set `robbed`, can take another. For stand-ins, `TakenFresh`
says that while the serial has not moved every look is what a new look would be; a store that changes a cache
moves the serial (`StoreMoves`), even one that ends while the frame is between its two looks. The steps of the
render thread are stated field by field once (`SyncThread`, `TakeThread`, `LookThread`, `MiddleThread`,
`StoreNowThread`, `StoreSolvedThread`), and each part of the invariant is one lemma over them.

The same module proves of `UserDefaults`, for any modules loaded in any processes, any settings with documents of any
size, either build, and any number of saves, resets, failed calls, crashes and power cuts:

- `DefaultsInvariant`: `DefaultsSpec => []DefaultsInv` (its first part is the type of each variable)
- `FileIsNeverTorn`: `DefaultsSpec => []NeverTorn`
- `CachesFollowTheFile`: `DefaultsSpec => []CacheFollowsFile` — a cache whose stamp the file still has is what the file says, or
  what a failed read left, never the settings of another state, unless a save filled it under a stamp not of its own file.

The assumption is `DefaultsAssumption`: documents are not empty, and "no file", "refused", "unread" and None are no
settings. A file is *public* when it was written and is no sibling any more. Public files are never written again
(`FilesStay`), for a save writes to the file of a name of its own (`SavingRight`), and two siblings are never
one file (`Disk`). So a stamp that was *seen* of a public file stays its file's (`SeenStays`), although the
modification time tells nothing apart here: the file a cached stamp names is the defaults file again only
with the content it had. `AskedRight` carries this through a read: the stamp is taken before
the size and the content, so what is read under it is either of its file or of a later one, and then the stamp
is of no use to anybody. `SavingRight` carries it through a save whose stamp comes after the rename. That case is right
until somebody overtakes or the stamp gets no answer, which is the exception the property names (`misstamped`). `Counted` says that there is always an inode for a new file: without
it nothing could be said of what the file system chooses. `AskedStays`, `CacheStays` and `SaverKeeps` state once what a
step that leaves public files alone does to readers, caches and the other saves; each action is one lemma over
them. TLC agrees that `DefaultsInv` is an invariant of the defaults part of run `parallax`.

`GpuSlotReleaseProofs.tla` proves, for any slots, allocations, copy streams and events, any finite set of
consumers and any number of operations, fills, failures, failed decodes and trims:

- `SlotTypeCorrect`: `Spec => []TypeOK`
- `CopiesComeBehindReads`: `Spec => []CopiesWaitForReads` — failed decodes included.
- `EventsHaveOneHome`: `Spec => []OneHome`
- `LeasesShowCompletePictures`: `Spec => []LeaseIsComplete`
- `FreedMemoryIsUnused`: `Spec => []FreedIsUnused` — of decoders none of whose decodes failed.

The assumptions are `StreamAssumption` (the consumers' streams are not the copy streams) and
`ConsumersAssumption` (threads are finitely many, for their pins are counted). No order in which the driver
completes operations is assumed beyond that of each stream. `OneHome` is inductive up to
where each thread stands (`Homes`), `LeaseIsComplete` needs the count of pins (`Leases`) and, for the second
lease, that a copy pending into a published slot is covered by its ready events and leaves the slot
unconfirmed (`Copies`). The other two are about responsibility for a pending read handed on from one holder
to the next: the consumer that launched it, the event it was recorded in while that is in a slot's list,
the owner's waits, the memory on its way back, and at last the waits of both copy streams. `Guarded` says that
there always is one, and the properties follow from who it can be: a slot that is filled has no reader and no event left, so
only the streams can hold its reads (`Behind`). The events are gone from the slot then, so memory given back
after that waits for the reads only through the copies enqueued behind them: `ReadsBefore` says that each lens
has such a copy, or will have before the slot is published. That is where `badDecodes = 0` is needed, and
without it `gpu_free_failed` shows the counterexample. TLC agrees that each part of the invariant holds on the instance of run
`gpu_release`. `OpsCases` says which actions change a queue, `CompleteOps`, `AppendedAre` and `CompleteDying` how; the
lemmas named `...Moves`, `...Outlasts` and `...Added` carry one read or copy through a step, by action.

`PoolProofs.tla` proves of `IdlePool`, for any finite set of items, any keys, users, reapers and limits and any number of
calls and failures:

- `PoolTypeCorrect`: `IdleSpec => []IdleTypeOK`
- `ItemsHaveOneOwner`: `IdleSpec => []OneOwner` — whoever takes an item out has it alone.
- `ParkedItemsAreWatched`: `IdleSpec => []ReaperWatches` — also while the last reaper is on its way out.

The assumption is `PoolAssumption`, which each theorem names, and which `MCPools` assumes, so that TLC evaluates it. In the invariant `PoolInv`, `ParkedOnce` and `Divided` say `OneOwner` without
cardinalities, and `Busy` that only a thread that is at destroying has something to destroy: else a second
call would overwrite what the first took out. Each call that takes items out leaves what `Gives` says, whose lemma
`GivesDivides` is the one place where the division is shown to last; `DueIs`, `FoundIs` and `YoungerAre` say what
the reasons to release select. The entries that stay are counted off in their order, so `WithoutIs` rests on
`Ranked`: the members of a finite set of naturals have the ranks 1 to its size. `ReaperWatches` needs that a
pool that is gone holds nothing: a reaper that leaves because the pool stops leaves nothing behind. TLC
agrees that `PoolInv` is an invariant of the idle pool of run `pools`.

`FrameSinkProofs.tla` proves, for any number of frames, any samples, any capacity of the queue and of the pipe, with
or without a fallback codec, and any number of failures:

- `NothingIsLostOnTheWay`: `Spec => [](SinkInv /\ OutputGoesOn)` — the output holds the first frames, and what comes next is
  where the invariant says.
- `OutputKeepsOrder`: `Spec => OutputInOrder` — the render command implements `FrameOutput`.

The assumption is `SinkAssumption`. `FrameOutput` sees only the output and the exit code; what comes next is on its way
through four places, so the invariant `SinkInv` lines them up: the pipe goes on where the output ends (`PipeGoesOn`; `OutputGoesOn` then follows),
and the picture in the writer's hand and the queue go on from there to the frame the render loop is at
(`QueueGoesOn`). The second holds only while the writer lives: after a failed write the loop goes on pushing until
it sees the flag or the closed queue, and those pictures are lost. Why that never ends with exit code 0 is in the other
two parts. `ThreadsAgree`: the queue is closed only behind the last picture or by a writer that has set its flag first, and a
writer that ended without the flag has sent all that was pushed. `CodeAgrees`: a code that is still 0 before
`finish()` means that the loop came to the last frame or will see the flag at the join; after the join, that all frames were
sent; after the encoder was reaped, that it read them all. Each step then is one of `FrameOutput` or a stutter
(`Promised`): `Encode` and `WriteStill` are `Write`, the step to "exited" is `Succeed` or `Fail`. TLC agrees that
`SinkInv` is an invariant of the sink of run `liveness`.

Only model-checked: liveness, which is out of TLAPS's reach as `ENABLED` is (the temporal properties of `liveness`,
`gpu_cache` and `steady` but for the two refinements there). Every invariant and every action property of the
passing runs is proved, under the hypotheses its theorem names, and so are the three refinements (`ParallelFor`, `SharedMeasurement`, `FrameOutput`). The properties
of the runs that expect a violation cannot be proved, for the code does not have them.

<a id="disagreements"></a>
## Disagreements between code and documents

Five are runs that TLC must find violated (`PROJECT.json`, findings):

1. `gpu_cache_full`: after `trimForIdle(0)` one failed allocation sets `usableSlots` to zero for
   good; each later acquire is refused as if leases pinned every slot.
2. `gpu_free_failed`: a decode that fails after it took the slot's release events leaves a slot
   without them; a trim frees its memory while a kernel still reads it. `FreedIsUnused` is therefore
   stated for behaviours without a failed decode.
3. `batch_late_stop`: a Stop in the frame before the UI has seen a successful exit deletes the
   finished video.
4. `capture_helper`: a command exits and leaves a helper that holds its pipe; `wait()` has reaped it, so `kill()`
   does nothing, and `runCapture` waits for the reader for ever, although the comment at `Runner.cpp:685` says that
   the tree is ended so that it does not. `CaptureReturns` is therefore stated for helpers that end.
5. `reader_rounds`: "four rounds cover every arrangement" (`DualStreamReader.cpp:527`) does not hold. *Ladder*: lens 0 with key
   pictures 0, 2, 4, 6 and 1, 3, 5 lost, lens 1 with key pictures 0, 1, 3, 5 and 2, 4 lost: frame 5 is refused at every
   read, although frame 0 is of both lenses; the proof of `RefusalsTeach` found this. *Swing*: a run of lens 0 from frame 0
   whose end lies in a run of lens 1; the rounds alternate between the two, and the frames in them are refused at every read
   although later frames decode. TLC finds the violation on either file alone.

Others were seen with the same models and other bounds, and are described here only:

- `ThreadPool.cpp:146`: a grain within `total - 1` of `SIZE_MAX` makes the number of chunks wrap to
  0; the call returns ok and the body never ran (`ImplementsParallelFor` with a range `[0, 3)`, grain 7 and
  `Word = 8`). No caller passes such a grain.
- `IdlePool.cpp:515`: `clear()` waits while `reaperRunning`, which goes down before the thread has
  ended; `IdlePool.h:115` promises that the reaper has finished exiting.
- `Runner.cpp:621`: a tool that ignores SIGTERM *and* goes on printing or keeps its pipe open is
  never killed after a stop, because the escalation is in `wait()`, which comes after the end of the
  stream (`RenderEnds` with `Stubborn = Resident = {"leader"}`).
- `Runner.cpp:520`: lines published after the UI's `takeLines()` are cleared when the same poll
  starts the next clip.
- `Ui.cpp:746`: a stopped render over an existing file leaves the unfinished file, for `ffmpeg -y`
  has truncated the old one.
- `Ui.cpp:644`, `:661`: `docs/STUDIO.md:76` says that two clips that would write the same file in one batch get ` (2)`,
  ` (3)` "instead of overwriting each other". `Batch{}` forgets the names, and the `Resume` after a pause is a new batch too
  (`Ui.cpp:1976`). So a clip of the same name rendered later, with skipping off, overwrites (`ffmpeg -y`) the file of a clip that is still
  shown as done, and a stop then leaves it unfinished (`outputExisted`); with skipping on it is passed over, though it was never
  rendered. A clip queued again within a batch gets another file than the one it had. `DoneIsFinished` without `overtaken` is violated.
- `ImporterInstance.cpp:504`, `:2700`: the comment at `ImporterInstance.h:173` says that the work a
  frame lacked is queued; a job that failed or was overwritten by a newer one is queued again only by
  the next frame that asks, and a host that shows a still picture asks for none.
- `ImporterInstance.cpp:2582`, "An Exact frame always ends with this bucket known": the worker's
  store of another bucket may trim the one before while the frame is at work.
- `FlareStage.h:203`, a frame keeps its first answer: after the bucket was trimmed (64 are kept) the
  next answer is another fit, or an adopted model. `AnswerIsKept` excludes trims.
- `Engine.cpp:1128`: the engine's instance is registered before it is marked as the engine's; an
  edit the effect pushes in between binds it, and it ignores what is published later.
- `Engine.cpp:919` says that after a push all instances agree at once; an instance that opens with an
  older blob, or between the snapshot of the push and the flag that says an effect exists, differs
  until the host's next selector. An instance that looked up the edit before the push began may even publish that one
  after the push has reached it, under a token newer than the push's, and so put the older edit in force. `EditStays` speaks of states in which no such
  look-up is under way.
- `DualStreamReader.cpp`, "so the answer is never itself a frame no lens can decode": with
  undecodable runs [2, 3) of one lens and [1, 2) of the other, the first read of frame 2 holds
  frame 1, which fails with a timing error; the second read, which knows both runs, serves frame 0.
  `RefusalTeaches` is what remains of it: a refusal met a run that no request had met. What remains false of it
  after the runs are known is `reader_rounds`.
- `ImporterInstance.cpp:1203`: the reader falls back to software when hardware decoding fails, but the
  test asks lens 0 only. When lens 0 has fallen back by itself, lens 1's failure is returned, and the
  reader, whose hardware failed, is kept and parked.
- `Decoder.cpp:1100`: a run of lost pictures that reaches the end of the track ends in a Decoder
  error ("stream ended"), not in a Timing error like the others. The importer answers it with software,
  for the rest of the clip's life, and no decoder remembers the run.

- `UserDefaults.cpp:1338`: a save takes its stamp after the rename. When another process saves in
  between, this module keeps its own settings with the other file's stamp, and answers with them until
  the next save, although `UserDefaults.h:47` says that reads are "re-validated with the file's
  modification time, size and identity". The stamp taken after a save may also get no answer: the module then
  remembers its settings as those of "no file". `CacheFollowsFile` excludes both.
- `UserDefaults.cpp:977`, `:1295`: a file that could not be opened, sized or read (`:704`, `:730`, `:819`), for a sharing violation say, counts
  as one that says nothing: the built-in defaults are remembered under the stamp of the file, and stay until the file changes or
  this module saves. `UserDefaults.h:111` has them only "when no usable file exists". `CacheFollowsFile` allows that value (`Unread`) and no other.
- `UserDefaults.cpp:819`, the portable build: the size is the path's, the content that of what
  is opened afterwards. A save in between gives a truncated document, which is refused; the stamp of before makes the next
  call read again. `test_user_defaults.cpp:520` promises that readers never see a torn file. The
  same build flushes to the system only (line 843), so a power cut can leave a renamed empty file,
  where the Windows code (line 765) takes care of it. `NeverTorn` says what remains.
- `UserDefaults.cpp:676`, "unique per process and per call": `g_tempCounter` is one for each module, and
  modules of a process share its id. They save from the user interface, one at a time, which is what
  keeps the names apart. On Windows a sibling that a crashed process of the same id left makes a save
  fail, once for each.

<a id="left-out"></a>
## What is left out

- Arithmetic on pixels, colours and geometry: stateless and in floating point.
- Parsing and formatting (container, metadata, settings, command lines, progress).
- The Windows implementation of `ChildProcess` (job objects), host glue, user interfaces.
- Failing allocations of host memory, except where the code catches them (`ReadThrows`, the reaper).
- In `GpuFrameCache`, `dropCachedFrames` and a trim that had to wait notify nobody, and the window
  is refilled with the next request; `WindowFills` leaves those behaviours out.
- In FrameSink, options, progress output and the audio track of the video.
- In the importer, selectors that only report (info, audio, analysis), suites, memory of the host.
- Reported counters and timings.

<a id="plan"></a>
## Plan

In this order; the first group is done.

1. *Done*: ThreadPool with ParallelFor and its first proofs; IdlePool; GpuFrameCache;
   GpuSlotRelease; ChildProcess, BatchRunner, RunCapture; SteadyStage with SharedMeasurement;
   ParallaxWorker; FlareStage; SettingsRegistry; FrameSink with FrameOutput.
2. *Done*: LensReader and its proofs.
3. Reuse: shared parses, shared devices and the keys of GpuDecoderPool, composed with IdlePool.
4. *Done*: UserDefaults. Left: `WorkspacePool` (CUDA), the courier of GpuClipDecoder, `SceneLightStage`.
5. Algorithms over bounded inputs: `ClipTimeline`, expansion of the sample table, undecodable runs.
6. Proofs, each after TLC agreed with the strengthening. *Done*: ThreadPool, LensReader, BatchRunner,
   GpuFrameCache, GpuSlotRelease, SteadyStage, ParallaxWorker, IdlePool, SettingsRegistry, FlareStage, UserDefaults, RunCapture, FrameSink.

Runs for the new modules will have bounds of the same size; liveness runs are merged with safety
runs where the instance allows it.
