----------------------------- MODULE ParallaxWorker -----------------------------
(***************************************************************************)
(* The Premiere importer's seam correction: one mesh field per bucket of   *)
(* frames, solved on the bucket's first frame (its anchor) with the field  *)
(* of the bucket before, solved alone, as its prior.  Exact frames solve   *)
(* on the spot; interactive ones hand the solve to a background worker and *)
(* render with what there is; drafts only look.                            *)
(*                                                                         *)
(* A field is named by what it was solved from: the bucket, the frame it   *)
(* was measured on, its prior, and the settings (their generation).  The   *)
(* analysis serial, which is only ever compared with an earlier reading of *)
(* itself, is modelled by whether it has moved since ("fresh").            *)
(***************************************************************************)
EXTENDS Absence, Integers, SequencesExt

CONSTANTS
    Frames,           \* the frames the host asks for
    BucketFrames,     \* kParallaxBucketFrames
    MaxMeshes,        \* kMaxParallaxCache
    MaxUpsets         \* bound: settings changes, clip field changes, quiets, failed decodes
                      \* and measurements, threads that do not start

ASSUME ParallaxAssumption ==
    /\ Frames \subseteq Nat /\ BucketFrames \in Nat \ {0}
    /\ MaxMeshes \in Nat \ {0} /\ MaxUpsets \in Nat

Kinds == {"exact", "interactive", "draft"}

\* render::parallaxBucket
BucketOf(i) == i \div BucketFrames
Anchor(b) == b * BucketFrames

VARIABLES
    \* under m_parallaxMutex
    meshes,        \* m_meshes: bucket -> measured, alone, final, field; absent when not measured
    standIns,      \* m_standInGrids: bucket -> field
    pending,       \* m_parallaxPending: a job or None
    busy,          \* m_parallaxBusyBucket: a bucket or None
    stop,          \* m_parallaxStop
    generation,    \* m_parallaxGeneration
    \* under m_mutex, the render thread's
    lastFrame,     \* m_lastFrame, and whether the serial has not moved since
    \* control
    render,        \* the render thread, inside a frame or a quiet
    worker,        \* the background worker
    failures       \* failures so far

vars == <<meshes, standIns, pending, busy, stop, generation, lastFrame, render, worker, failures>>

NoMesh == [measured |-> FALSE, alone |-> None, final |-> FALSE, field |-> None]
NoFrame == [index |-> None, draft |-> FALSE, exact |-> FALSE, fresh |-> FALSE, robbed |-> FALSE,
            shows |-> <<>>]
Unknown == [known |-> FALSE, standIn |-> FALSE, grid |-> None]
Idle == [at |-> "idle", index |-> None, kind |-> "draft", fresh |-> FALSE, robbed |-> FALSE, side |-> "partner",
         partner |-> Unknown, own |-> Unknown, todo |-> <<>>, job |-> None, result |-> None]
Asleep == [at |-> "wait", job |-> None, result |-> None]

Init ==
    /\ meshes = <<>> /\ standIns = <<>> /\ pending = None /\ busy = None
    /\ stop = FALSE /\ generation = 0
    /\ lastFrame = NoFrame /\ render = Idle
    /\ worker = [Asleep EXCEPT !.at = "none"]
    /\ failures = 0
-----------------------------------------------------------------------------
Calm == generation + failures < MaxUpsets

\* The caches

Mesh(b) == IF b \in DOMAIN meshes THEN meshes[b] ELSE NoMesh
Measured(b) == b \in DOMAIN meshes /\ meshes[b].measured
Queued(b) == busy = b \/ (pending # None /\ pending.bucket = b)

\* bucketCorrectionLocked(): what a bucket renders with, as the caches stand.
Correction(b, kind) ==
    IF Mesh(b).final THEN [known |-> TRUE, standIn |-> FALSE, grid |-> Mesh(b).field]
    ELSE IF kind = "exact" THEN Unknown
    ELSE IF Mesh(b).measured THEN [known |-> TRUE, standIn |-> TRUE, grid |-> Mesh(b).alone]
    ELSE IF b \in DOMAIN standIns THEN [known |-> TRUE, standIn |-> TRUE, grid |-> standIns[b]]
    ELSE Unknown

With(cache, b, x) == [c \in DOMAIN cache \cup {b} |-> IF c = b THEN x ELSE cache[c]]

\* trimAnalysisCache(): the lowest bucket goes, or the highest when the lowest
\* is the one being kept.
Trim(cache, keep) ==
    LET lowest == Min(DOMAIN cache)
        victim == IF lowest = keep THEN Max(DOMAIN cache) ELSE lowest
    IN  IF Cardinality(DOMAIN cache) <= MaxMeshes \/ victim = keep THEN cache
        ELSE [b \in DOMAIN cache \ {victim} |-> cache[b]]

\* The bucket before, whose field alone is the prior, is measured.
HasPrior(b) == b = 0 \/ Measured(b - 1)

\* What is in a job, its temporal prior as it stands: fillTemporalPrior().
Job(b, frame, standIn) ==
    [bucket |-> b, on |-> frame, standIn |-> standIn, gen |-> generation,
     finalizes |-> ~standIn /\ HasPrior(b),
     prior |-> IF b = 0 THEN None
               ELSE IF standIn THEN IF b - 1 \in DOMAIN standIns THEN standIns[b - 1] ELSE None
               ELSE Mesh(b - 1).alone]

\* solveMeshJob(): the field with its prior and the field alone, or neither.
Solved(job) ==
    LET alone == [bucket |-> job.bucket, on |-> job.on, prior |-> None, gen |-> job.gen]
    IN  [alone |-> alone, field |-> [alone EXCEPT !.prior = job.prior]]
NotSolved == [alone |-> None, field |-> None]

\* Mutant: a result of before a reset is stored.
AnyGeneration(job) == ~stop

\* Nothing was reset since the job was made, and no quiet is under way.
Current(job) == job.gen = generation /\ ~stop

\* Mutant: a store does not move the serial.
MovesNothing(frame, thread) == lastFrame' = frame /\ render' = thread

\* The serial moves: what was rendered, or is being rendered, is no longer fresh.
Moves(frame, thread) ==
    /\ lastFrame' = [frame EXCEPT !.fresh = FALSE]
    /\ render' = [thread EXCEPT !.fresh = FALSE]

\* storeMeshResult(), its locked section; `thread` is the render thread's next state.
Store(job, result, thread) ==
    LET e == Mesh(job.bucket)
        measured == IF e.measured THEN e ELSE [e EXCEPT !.measured = TRUE, !.alone = result.alone]
        entry == IF job.finalizes /\ ~e.final
                 THEN [measured EXCEPT !.final = TRUE, !.field = result.field] ELSE measured
    IN  IF Current(job)
        THEN /\ IF job.standIn
                THEN /\ standIns' = Trim(With(standIns, job.bucket, result.field), job.bucket)
                     /\ UNCHANGED meshes
                ELSE /\ meshes' = Trim(With(meshes, job.bucket, entry), job.bucket)
                     /\ UNCHANGED standIns
             /\ Moves(lastFrame, thread)
        ELSE UNCHANGED <<meshes, standIns, lastFrame>> /\ render' = thread

\* resetParallaxLocked()
Reset ==
    /\ meshes' = <<>> /\ standIns' = <<>> /\ pending' = None
    /\ generation' = generation + 1

Outcome(job, result) ==
    \/ result = Solved(job) /\ UNCHANGED failures
    \/ /\ Calm /\ failures' = failures + 1
       /\ result = NotSolved
-----------------------------------------------------------------------------
\* The render thread.  It holds m_mutex throughout a frame.

Matches(i, kind) ==
    /\ lastFrame.index = i /\ lastFrame.draft = (kind = "draft")
    /\ lastFrame.exact \/ (kind # "exact" /\ lastFrame.fresh)

\* renderFrame(): the cached frame is returned, unless it is a stand-in that
\* something has landed since; else a frame is begun, the serial read first.
Ask(i, kind) ==
    /\ render.at = "idle" /\ ~Matches(i, kind)
    /\ render' = [Idle EXCEPT !.at = "sync", !.index = i, !.kind = kind, !.fresh = TRUE]
    /\ lastFrame' = IF ~lastFrame.exact /\ ~lastFrame.fresh THEN NoFrame ELSE lastFrame
    /\ UNCHANGED <<meshes, standIns, pending, busy, stop, generation, worker, failures>>

HasPartner == BucketOf(render.index) > 0
Bucket == IF render.side = "own" THEN BucketOf(render.index) ELSE BucketOf(render.index) - 1

\* syncPreferredClipLocked(): the clip's field may have changed by this frame.
Sync ==
    /\ render.at = "sync"
    /\ LET next == [render EXCEPT !.at = "look", !.side = IF HasPartner THEN "partner" ELSE "own"]
       IN  \/ render' = next /\ UNCHANGED <<meshes, standIns, pending, generation, lastFrame>>
           \/ /\ Calm
              /\ Reset /\ Moves(NoFrame, next)
    /\ UNCHANGED <<busy, stop, worker, failures>>

Take(c) ==
    render' = IF render.side = "partner"
              THEN [render EXCEPT !.partner = c, !.side = "own", !.at = "look"]
              ELSE [render EXCEPT !.own = c, !.at = "finish"]

\* An interactive frame of bucket b hands over a measurement of the anchor when
\* the anchor is to be had for nothing, else of itself when nothing better is
\* there.  A host frame's anchor is free only for the anchor itself; a device
\* frame's may be in the decoder's cache.
FromAnchor(b, free) == free /\ (~Mesh(b).measured \/ HasPrior(b))
FromItself(b) == /\ ~Mesh(b).measured /\ b \notin DOMAIN standIns
                 /\ b = 0 \/ ~HasPrior(b)
MayBeFree(i) == IF i = Anchor(BucketOf(i)) THEN {TRUE} ELSE BOOLEAN

Look ==
    LET c == Correction(Bucket, render.kind)
        final == Mesh(Bucket).final
        hands == /\ render.kind = "interactive" /\ render.side = "own"
                 /\ ~final /\ ~Queued(Bucket)
    IN  /\ render.at = "look"
        /\ \/ /\ render.kind = "exact" /\ ~final
              /\ render' = [render EXCEPT !.at = "prior"]
           \/ /\ render.kind # "exact" \/ final
              /\ ~hands /\ Take(c)
           \/ /\ hands
              /\ \E free \in MayBeFree(render.index) :
                    IF FromAnchor(Bucket, free)
                    THEN render' = [render EXCEPT !.own = c, !.at = "hand over"]
                    ELSE IF FromItself(Bucket)
                    THEN render' = [render EXCEPT !.own = c, !.at = "stand in"]
                    ELSE Take(c)
        /\ UNCHANGED <<meshes, standIns, pending, busy, stop, generation, lastFrame, worker, failures>>

\* prepareMeshJobLocked(), which may fail.
Prepare ==
    /\ render.at \in {"hand over", "stand in"}
    /\ LET standIn == render.at = "stand in"
           job == Job(Bucket, IF standIn THEN render.index ELSE Anchor(Bucket), standIn)
       IN  \/ render' = [render EXCEPT !.job = job, !.at = "queue"] /\ UNCHANGED failures
           \/ /\ Calm /\ failures' = failures + 1
              /\ render' = [render EXCEPT !.at = "finish"]
    /\ UNCHANGED <<meshes, standIns, pending, busy, stop, generation, lastFrame, worker>>

\* queueParallaxJobLocked(): the latest job wins; the worker starts on first use.
Queue ==
    /\ render.at = "queue"
    /\ pending' = render.job
    /\ render' = [render EXCEPT !.job = None,
                     !.at = IF worker.at = "none" THEN "start" ELSE "finish"]
    /\ UNCHANGED <<meshes, standIns, busy, stop, generation, lastFrame, worker, failures>>

StartWorker ==
    /\ render.at = "start"
    /\ \/ worker' = Asleep /\ UNCHANGED <<pending, failures>>
       \/ /\ Calm /\ failures' = failures + 1
          /\ pending' = None /\ UNCHANGED worker
    /\ render' = [render EXCEPT !.at = "finish"]
    /\ UNCHANGED <<meshes, standIns, busy, stop, generation, lastFrame>>

\* Mutant: the bucket alone.
SolveItself(b) == <<b>>

\* measureMeshNowLocked(): the bucket before first, when it was never measured.
ToSolve(b) == IF HasPrior(b) THEN <<b>> ELSE <<b - 1, b>>

Prior ==
    /\ render.at = "prior"
    /\ render' = [render EXCEPT !.at = "fill", !.todo = ToSolve(Bucket)]
    /\ UNCHANGED <<meshes, standIns, pending, busy, stop, generation, lastFrame, worker, failures>>

\* measureMeshOnAnchorLocked() up to the store.  An anchor that cannot be
\* decoded leaves a frame its own bucket measured on the frame itself.
Fill ==
    /\ render.at = "fill"
    /\ LET b == Head(render.todo) IN
       \/ \E result \in {Solved(Job(b, Anchor(b), FALSE)), NotSolved} :
             /\ Outcome(Job(b, Anchor(b), FALSE), result)
             /\ render' = [render EXCEPT !.job = Job(b, Anchor(b), FALSE), !.result = result,
                                         !.at = "store"]
       \/ /\ b = BucketOf(render.index) /\ render.index # Anchor(b)
          /\ Calm /\ failures' = failures + 1
          /\ LET job == Job(b, render.index, FALSE)
             IN  render' = [render EXCEPT !.job = job, !.result = Solved(job), !.at = "store"]
    /\ UNCHANGED <<meshes, standIns, pending, busy, stop, generation, lastFrame, worker>>

StoreNow ==
    /\ render.at = "store"
    /\ Store(render.job, render.result,
             [render EXCEPT !.job = None, !.result = None, !.todo = Tail(@),
                            !.at = IF Len(render.todo) > 1 THEN "fill" ELSE "again"])
    /\ UNCHANGED <<pending, busy, stop, generation, worker, failures>>

LookAgain ==
    /\ render.at = "again"
    /\ Take(Correction(Bucket, "exact"))
    /\ UNCHANGED <<meshes, standIns, pending, busy, stop, generation, lastFrame, worker, failures>>

\* applyAnalyses(): the fields glided between, oldest first, and whether the
\* frame is final.
Shows(i, partner, own) ==
    IF own.known
    THEN IF BucketOf(i) > 0 /\ partner.known THEN <<partner.grid, own.grid>> ELSE <<own.grid>>
    ELSE IF partner.known THEN <<partner.grid>> ELSE <<>>

Exact(i, kind, partner, own) ==
    /\ own.known /\ ~own.standIn
    /\ ~(partner.known /\ partner.standIn)
    /\ BucketOf(i) = 0 \/ partner.known \/ kind = "exact"

Finish ==
    /\ render.at = "finish"
    /\ lastFrame' = [index |-> render.index, draft |-> render.kind = "draft", fresh |-> render.fresh, robbed |-> render.robbed,
                     exact |-> Exact(render.index, render.kind, render.partner, render.own),
                     shows |-> Shows(render.index, render.partner, render.own)]
    /\ render' = Idle
    /\ UNCHANGED <<meshes, standIns, pending, busy, stop, generation, worker, failures>>

\* setPrefs(): the rendered frame and every analysis go.
SetPrefs ==
    /\ render.at = "idle" /\ Calm
    /\ Reset /\ Moves(NoFrame, render)
    /\ UNCHANGED <<busy, stop, worker, failures>>

\* releaseHeavy(): stopParallaxWorker(), then the caches go.
Quiet ==
    /\ render.at = "idle" /\ Calm
    /\ stop' = TRUE /\ pending' = None
    /\ render' = [render EXCEPT !.at = "join"]
    /\ UNCHANGED <<meshes, standIns, busy, generation, lastFrame, worker, failures>>

Quieted ==
    /\ render.at = "join" /\ worker.at \in {"none", "ended"}
    /\ stop' = FALSE /\ worker' = [Asleep EXCEPT !.at = "none"]
    /\ Reset /\ Moves(NoFrame, Idle)
    /\ UNCHANGED <<busy, failures>>

Render == Sync \/ Look \/ Prepare \/ Queue \/ StartWorker \/ Prior \/ Fill \/ StoreNow
          \/ LookAgain \/ Finish \/ Quieted
-----------------------------------------------------------------------------
\* The worker: parallaxWorkerLoop()

TakeJob ==
    /\ worker.at = "wait" /\ ~stop /\ pending # None
    /\ worker' = [worker EXCEPT !.at = "solve", !.job = pending]
    /\ busy' = pending.bucket /\ pending' = None
    /\ UNCHANGED <<meshes, standIns, stop, generation, lastFrame, render, failures>>

\* Solved with no lock held; the bucket is no longer busy before its result is stored.
Solve ==
    /\ worker.at = "solve"
    /\ \E result \in {Solved(worker.job), NotSolved} :
          /\ Outcome(worker.job, result)
          /\ worker' = [worker EXCEPT !.at = "store", !.result = result]
    /\ busy' = None
    /\ UNCHANGED <<meshes, standIns, pending, stop, generation, lastFrame, render>>

\* For the properties: the store takes a field out of the full cache while the
\* render thread is solving an exact frame.
Robs == render.kind = "exact" /\ \E b \in DOMAIN meshes : b \notin DOMAIN meshes'

StoreSolved ==
    /\ worker.at = "store"
    /\ Store(worker.job, worker.result, [render EXCEPT !.robbed = @ \/ Robs])
    /\ worker' = Asleep
    /\ UNCHANGED <<pending, busy, stop, generation, failures>>

WorkerExit ==
    /\ worker.at = "wait" /\ stop
    /\ worker' = [worker EXCEPT !.at = "ended"]
    /\ UNCHANGED <<meshes, standIns, pending, busy, stop, generation, lastFrame, render, failures>>

Worker == TakeJob \/ Solve \/ StoreSolved \/ WorkerExit

Next == \/ \E i \in Frames, kind \in Kinds : Ask(i, kind)
        \/ SetPrefs \/ Quiet \/ Render \/ Worker

Spec == Init /\ [][Next]_vars
-----------------------------------------------------------------------------
\* The field a bucket has whichever frame was asked for first, under the
\* settings in force: its anchor's, with the field alone of the bucket before.
Alone(b) == [bucket |-> b, on |-> Anchor(b), prior |-> None, gen |-> generation]
Sequential(b) == [Alone(b) EXCEPT !.prior = IF b = 0 THEN None ELSE Alone(b - 1)]

\* A final field depends on two anchors and the settings only, not on the
\* order of the frames, the worker's timing or what was trimmed; and a frame
\* reported exact shows what an export of that frame shows, the glide from the
\* bucket before included.
FinalIsSequential ==
    failures = 0 =>
        /\ \A b \in DOMAIN meshes :
              /\ meshes[b].measured => meshes[b].alone = Alone(b)
              /\ meshes[b].final => meshes[b].field = Sequential(b)
        /\ (lastFrame.exact /\ ~lastFrame.robbed) =>
              LET b == BucketOf(lastFrame.index)
              IN  lastFrame.shows = IF b = 0 THEN <<Sequential(b)>>
                                    ELSE <<Sequential(b - 1), Sequential(b)>>

\* An Exact request ends with its bucket and its partner known, whatever could
\* not be decoded or measured and whatever its own stores trim: only the
\* worker can take a field away from it.
ExactIsFinal ==
    (render.at = "finish" /\ render.kind = "exact" /\ ~render.robbed) =>
        /\ Exact(render.index, render.kind, render.partner, render.own)
        /\ HasPartner => render.partner.known

\* A stand-in that is still served from the cache is what a new look would
\* show: playing and parking meet.
StandInIsCurrent ==
    (lastFrame.index # None /\ ~lastFrame.exact /\ lastFrame.fresh /\ render.at = "idle") =>
        LET b == BucketOf(lastFrame.index)
            kind == IF lastFrame.draft THEN "draft" ELSE "interactive"
        IN  lastFrame.shows = Shows(lastFrame.index, IF b > 0 THEN Correction(b - 1, kind) ELSE Unknown,
                                    Correction(b, kind))
=============================================================================
