---------------------------- MODULE GpuFrameCache ----------------------------
(***************************************************************************)
(* osv::video::GpuClipDecoder: the VRAM frame cache, the one decoding      *)
(* engine that fills it, the acquire() calls that share that engine with   *)
(* the decode-ahead worker, and the calls that give memory back.           *)
(*                                                                         *)
(* A section under the store's mutex is one step.  The engine's owner      *)
(* works between its sections without the lock: it allocates VRAM and      *)
(* decodes one frame pair.  What the GPU still reads when a lease goes is  *)
(* the subject of GpuSlotRelease; here a release is complete.  Counters    *)
(* that are only reported are left out.  The destructor must not run       *)
(* during a call, so only the worker can meet the stopping flag.           *)
(***************************************************************************)
EXTENDS Integers, Sequences, FiniteSets

CONSTANTS FrameCount,   \* frame pairs of the clip
          LensSyncs,    \* for each lens, the samples its decode can start at
          Runs,         \* undecodable runs [first, end) of a lens
          Capacity,     \* slots the VRAM budget allows
          DecodeAhead,  \* options.decodeAhead
          MaxSequentialStep,  \* kMaxSequentialStep
          Callers,      \* threads that call acquire()
          Keeps,        \* values of keepFrames given to trimForIdle
          MaxHeld,      \* bound: leases one caller holds at a time
          MaxAcquires,  \* bound: calls of acquire
          MaxFailures,  \* bound: decodes that fail and allocations that find no memory
          MaxTrims,     \* bound: calls of trimForIdle
          MaxDrops      \* bound: calls of dropCachedFrames

Frames == 0 .. FrameCount - 1
Slots == 0 .. Capacity - 1
None == -1

LastOf(S) == CHOOSE m \in S : \A n \in S : n <= m
FirstOf(S) == CHOOSE m \in S : \A n \in S : m <= n

ASSUME CacheAssumption ==
    /\ FrameCount \in Nat \ {0} /\ Capacity \in 1 .. FrameCount
    /\ LensSyncs \in [{0, 1} -> SUBSET Frames] /\ 0 \in LensSyncs[0] \cap LensSyncs[1]
    /\ Runs \subseteq [first : Frames \ {0}, end : Frames]
    /\ IsFiniteSet(Callers) /\ "worker" \notin Callers
    /\ DecodeAhead \in Nat /\ MaxSequentialStep \in Nat /\ Keeps \subseteq Nat
    /\ {MaxHeld, MaxAcquires, MaxFailures, MaxTrims, MaxDrops} \subseteq Nat

VARIABLES
    slot,           \* GpuSlot: VRAM or not, frame held, pins, being filled
    frameToSlot,    \* the slot of each cached frame
    lastUse,        \* each slot's LRU stamp, as its rank among the stamps; 0 without a frame
    usableSlots, allocatedSlots,
    engineBusy,
    engineNext,     \* what the lens decoders produce next, None when not engineValid
    met,            \* undecodable runs a lens decoder has crossed
    foregroundWaiters,
    lastRequest,
    ahead,          \* the decode-ahead window, NoAhead while not aheadActive
    stopping,
    job,            \* what the engine's owner is doing, NoJob when nobody owns it
    pc, want,       \* where each caller is, and what it asked for
    leases,         \* the leases each caller holds
    worker,         \* where the decode-ahead thread is
    trimmer,        \* where the thread that trims is
    acquires, failures, trims, drops    \* bounded by the constants Max...

cache == <<slot, frameToSlot, lastUse, usableSlots, allocatedSlots>>
engine == <<engineBusy, engineNext, met, job>>
window == <<lastRequest, ahead>>
calls == <<pc, want, leases>>
threads == <<worker, trimmer>>
bounds == <<acquires, failures, trims, drops>>
vars == <<cache, engine, foregroundWaiters, window, stopping, calls, threads, bounds>>

NoAhead == [base |-> None, end |-> None]
NoJob == [owner |-> "nobody", target |-> None, at |-> None, slot |-> None, phase |-> "none"]
NoWant == [frame |-> None, asked |-> None, retry |-> FALSE]
EmptySlot == [base |-> FALSE, frame |-> None, pins |-> 0, writing |-> FALSE]

\* The effective window leaves two slots to the host.
aheadWindow ==
    IF Capacity <= 2 THEN 0 ELSE FirstOf({DecodeAhead, Capacity - 2})

\* open() leaves frame 0 in slot 0 and the engine on frame 1.
Init ==
    /\ slot = [s \in Slots |-> IF s = 0 THEN [EmptySlot EXCEPT !.base = TRUE, !.frame = 0]
                               ELSE EmptySlot]
    /\ frameToSlot = [f \in Frames |-> IF f = 0 THEN 0 ELSE None]
    /\ lastUse = [s \in Slots |-> IF s = 0 THEN 1 ELSE 0]
    /\ usableSlots = Capacity /\ allocatedSlots = 1
    /\ engineBusy = FALSE /\ engineNext = 1 /\ met = {} /\ job = NoJob
    /\ foregroundWaiters = 0 /\ lastRequest = None /\ ahead = NoAhead /\ stopping = FALSE
    /\ pc = [c \in Callers |-> "idle"] /\ want = [c \in Callers |-> NoWant]
    /\ leases = [c \in Callers |-> <<>>]
    /\ worker = IF aheadWindow > 0 THEN "check" ELSE "gone"
    /\ trimmer = "idle"
    /\ acquires = 0 /\ failures = 0 /\ trims = 0 /\ drops = 0

-----------------------------------------------------------------------------
(* The lens decoders. *)

InRun(f, runs) == \E r \in runs : r.first <= f /\ f < r.end

\* One round of holdFor: the last frame before the earliest run around f.
BeforeRun(f) ==
    LET around == {r \in met : r.first <= f /\ f < r.end}
    IN  IF around = {} THEN f ELSE FirstOf({r.first : r \in around}) - 1

\* holdFor: four rounds, in case another run covers the frame found.
HoldFor(f) == BeforeRun(BeforeRun(BeforeRun(BeforeRun(f))))

\* Where a lens's decode of f starts.
LensStart(l, f) == LastOf({s \in LensSyncs[l] : s <= f})

PlanStart(target) ==
    LET starts == {LensStart(l, target) : l \in {0, 1}}
    IN  IF engineNext # None /\ engineNext <= target /\ FirstOf(starts) <= engineNext
           /\ ~InRun(engineNext, met)
        THEN engineNext
        ELSE LastOf(starts)

-----------------------------------------------------------------------------
(* The decode-ahead window. *)

InAheadWindow(f) == ahead # NoAhead /\ ahead.base <= f /\ f <= ahead.end

FirstMissingAhead ==
    LET missing == {f \in Frames : /\ InAheadWindow(f) /\ f > ahead.base
                                   /\ frameToSlot[f] = None /\ ~InRun(f, met)}
    IN  IF missing = {} THEN None ELSE FirstOf(missing)

WindowFrom(base) ==
    [base |-> base, end |-> FirstOf({base + aheadWindow, FrameCount - 1})]

\* noteAccessLocked, for a request of k.
NoteAccess(k) ==
    LET inWindow == ahead # NoAhead /\ k + MaxSequentialStep >= ahead.base /\ k <= ahead.end
        stepForward == lastRequest # None /\ k > lastRequest
                       /\ k - lastRequest <= MaxSequentialStep
    IN  /\ lastRequest' = k
        /\ ahead' = IF aheadWindow = 0 \/ (k = lastRequest /\ ~inWindow) THEN ahead
                    ELSE IF inWindow THEN WindowFrom(LastOf({ahead.base, k}))
                    ELSE IF stepForward THEN WindowFrom(k)
                    ELSE NoAhead

-----------------------------------------------------------------------------
(* The slots. *)

\* Mutant: pins are not looked at.
EvictPinned(s, speculative) ==
    /\ slot[s].base /\ ~slot[s].writing
    /\ ~(speculative /\ slot[s].frame # None /\ InAheadWindow(slot[s].frame))

Evictable(s, speculative) ==
    /\ slot[s].base /\ slot[s].pins = 0 /\ ~slot[s].writing
    /\ ~(speculative /\ slot[s].frame # None /\ InAheadWindow(slot[s].frame))

MayGrow == allocatedSlots < usableSlots

SpeculativeSlotAvailable == MayGrow \/ \E s \in Slots : Evictable(s, TRUE)

\* The clock's values only order the slots: they are kept as ranks.
Ranked(use) == [s \in Slots |-> Cardinality({t \in Slots : 0 < use[t] /\ use[t] <= use[s]})]
Touch(s) == lastUse' = Ranked([lastUse EXCEPT ![s] = Capacity + 1])
Forget(S) == lastUse' = Ranked([s \in Slots |-> IF s \in S THEN 0 ELSE lastUse[s]])

\* The frames of the slots S are no longer cached.
Unmap(S) == frameToSlot' = [f \in Frames |-> IF frameToSlot[f] \in S THEN None ELSE frameToSlot[f]]

\* The three choices of reserveSlotLocked: an empty slot with VRAM, else a slot
\* without VRAM while the capacity allows, else the least recently used one.
EmptySlots(speculative) == {s \in Slots : Evictable(s, speculative) /\ slot[s].frame = None}
UnusedSlots == {s \in Slots : ~slot[s].base /\ ~slot[s].writing}
Victims(speculative) == {s \in Slots : Evictable(s, speculative)}

Reserved(speculative) ==
    IF EmptySlots(speculative) # {} THEN FirstOf(EmptySlots(speculative))
    ELSE IF MayGrow /\ UnusedSlots # {} THEN FirstOf(UnusedSlots)
    ELSE IF Victims(speculative) # {}
         THEN CHOOSE s \in Victims(speculative) : \A t \in Victims(speculative) : lastUse[s] <= lastUse[t]
    ELSE None

-----------------------------------------------------------------------------
(* cv.notify_all wakes every thread that waits.  A step that also moves one *)
(* of the threads itself names the waiters it wakes.                       *)

Woken(p) == [c \in Callers |-> IF p[c] = "waiting" THEN "awake" ELSE p[c]]
WokenWorker == IF worker = "asleep" THEN "check" ELSE worker
WokenTrimmer == IF trimmer = "waiting" THEN "awake" ELSE trimmer
NotifyThreads == worker' = WokenWorker /\ trimmer' = WokenTrimmer

-----------------------------------------------------------------------------
(* acquire(). *)

\* acquire asks whether a lens already met a run around the frame.
Ask(c, k) ==
    /\ pc[c] = "idle" /\ ~stopping
    /\ Len(leases[c]) < MaxHeld /\ acquires < MaxAcquires
    /\ acquires' = acquires + 1
    /\ want' = [want EXCEPT ![c] = [frame |-> HoldFor(k), asked |-> k,
                                    retry |-> HoldFor(k) = k]]
    /\ pc' = [pc EXCEPT ![c] = "call"]
    /\ UNCHANGED <<cache, engine, foregroundWaiters, window, stopping, leases, threads,
                   failures, trims, drops>>

Lease(c, s) == [slot |-> s, frame |-> want[c].frame, asked |-> want[c].asked]

\* The body of acquireExact's loop, entered with p as the callers' places and
\* n callers waiting: the frame is cached, or the engine is free, or wait.
Contend(c, p, n) ==
    LET f == want[c].frame
        s == frameToSlot[f]
    IN  \/ /\ s # None
           /\ slot' = [slot EXCEPT ![s].pins = @ + 1]
           /\ Touch(s)
           /\ leases' = [leases EXCEPT ![c] = Append(@, Lease(c, s))]
           /\ pc' = [p EXCEPT ![c] = "idle"] /\ want' = [want EXCEPT ![c] = NoWant]
           /\ foregroundWaiters' = n
           /\ UNCHANGED <<frameToSlot, engineBusy, job>>
        \/ /\ s = None /\ ~engineBusy
           /\ engineBusy' = TRUE
           /\ job' = [owner |-> c, target |-> f, at |-> PlanStart(f), slot |-> None,
                      phase |-> "reserve"]
           /\ pc' = [p EXCEPT ![c] = "engine"]
           /\ foregroundWaiters' = n
           /\ UNCHANGED <<slot, frameToSlot, lastUse, want, leases>>
        \/ /\ s = None /\ engineBusy
           /\ pc' = [p EXCEPT ![c] = "waiting"]
           /\ foregroundWaiters' = n + 1
           /\ UNCHANGED <<slot, frameToSlot, lastUse, engineBusy, job, want, leases>>

Enter(c) ==
    /\ pc[c] = "call"
    /\ NoteAccess(want[c].asked)
    /\ IF aheadWindow = 0
       THEN Contend(c, pc, foregroundWaiters) /\ UNCHANGED threads
       ELSE Contend(c, Woken(pc), foregroundWaiters) /\ NotifyThreads
    /\ UNCHANGED <<usableSlots, allocatedSlots, engineNext, met, stopping, bounds>>

OneFewerWaits(n) == n - 1

\* Mutant: the worker is not told that nobody waits any more.
WakeSilently(c) ==
    /\ pc[c] = "awake"
    /\ Contend(c, pc, OneFewerWaits(foregroundWaiters))
    /\ UNCHANGED <<usableSlots, allocatedSlots, engineNext, met, window, stopping, threads, bounds>>

\* Back from cv.wait: the last one to leave wakes the worker.
Wake(c) ==
    /\ pc[c] = "awake"
    /\ LET n == OneFewerWaits(foregroundWaiters) IN
       /\ Contend(c, IF n = 0 THEN Woken(pc) ELSE pc, n)
       /\ IF n = 0 THEN NotifyThreads ELSE UNCHANGED threads
    /\ UNCHANGED <<usableSlots, allocatedSlots, engineNext, met, window, stopping, bounds>>

-----------------------------------------------------------------------------
(* decodePair, by the engine's owner. *)

IsWorkers == job.owner = "worker"
Pinned == ~IsWorkers /\ job.at = job.target

\* A home for the frame: none when it is cached already, or when there is no
\* slot and no caller needs one.  (The frame a caller waits for is never cached
\* here, see OneWriter: the code's branch for that is dead.)
Reserve ==
    /\ job.phase = "reserve"
    /\ LET s == IF frameToSlot[job.at] # None THEN None ELSE Reserved(IsWorkers) IN
       \/ /\ s = None /\ Pinned
          /\ job' = [job EXCEPT !.phase = "refused"]
          /\ UNCHANGED cache
       \/ /\ s = None /\ ~Pinned
          /\ job' = [job EXCEPT !.slot = None, !.phase = "decode"]
          /\ UNCHANGED cache
       \/ /\ s # None
          /\ job' = [job EXCEPT !.slot = s, !.phase = IF slot[s].base THEN "decode" ELSE "allocate"]
          /\ slot' = [slot EXCEPT ![s].frame = None, ![s].writing = TRUE]
          /\ Unmap({s})
          /\ Forget({s})
          /\ UNCHANGED <<usableSlots, allocatedSlots>>
    /\ UNCHANGED <<engineBusy, engineNext, met, foregroundWaiters, window, stopping, calls,
                   threads, bounds>>

\* Memory for the slot; without it the cache stops growing and tries again.
Allocate ==
    /\ job.phase = "allocate"
    /\ \/ /\ slot' = [slot EXCEPT ![job.slot].base = TRUE]
          /\ allocatedSlots' = allocatedSlots + 1
          /\ job' = [job EXCEPT !.phase = "decode"]
          /\ UNCHANGED <<usableSlots, failures>>
       \/ /\ failures < MaxFailures /\ failures' = failures + 1
          /\ slot' = [slot EXCEPT ![job.slot].writing = FALSE]
          /\ usableSlots' = allocatedSlots
          /\ job' = [job EXCEPT !.slot = None, !.phase = "reserve"]
          /\ UNCHANGED allocatedSlots
    /\ UNCHANGED <<frameToSlot, lastUse, engineBusy, engineNext, met, foregroundWaiters, window,
                   stopping, calls, threads, acquires, trims, drops>>

\* Both lenses delivered the pair: publish it and go on towards the target.
Publish ==
    /\ job.phase = "decode" /\ ~InRun(job.at, Runs)
    /\ engineNext' = job.at + 1
    /\ job' = IF Pinned THEN [job EXCEPT !.phase = "served"]
              ELSE IF IsWorkers THEN [job EXCEPT !.phase = "done"]
              ELSE [job EXCEPT !.at = @ + 1, !.slot = None, !.phase = "reserve"]
    /\ IF job.slot = None THEN UNCHANGED <<slot, frameToSlot, lastUse>>
       ELSE /\ slot' = [slot EXCEPT ![job.slot].frame = job.at, ![job.slot].writing = FALSE,
                                    ![job.slot].pins = IF Pinned THEN @ + 1 ELSE @]
            /\ frameToSlot' = [frameToSlot EXCEPT ![job.at] = job.slot]
            /\ Touch(job.slot)
    /\ pc' = Woken(pc) /\ NotifyThreads
    /\ UNCHANGED <<usableSlots, allocatedSlots, engineBusy, met, foregroundWaiters, window,
                   stopping, want, leases, bounds>>

\* Mutant: the slot stays marked as being filled.
FailedSlotKept == UNCHANGED slot
FailedSlot ==
    IF job.slot = None THEN UNCHANGED slot
    ELSE slot' = [slot EXCEPT ![job.slot].writing = FALSE, ![job.slot].frame = None]

\* A lens failed: the engine's position is lost.  A lens that crossed an
\* undecodable run remembers it.
FailDecode ==
    /\ job.phase = "decode"
    /\ \/ /\ InRun(job.at, Runs)
          /\ met' = met \cup {r \in Runs : r.first <= job.at /\ job.at < r.end}
          /\ UNCHANGED failures
       \/ /\ failures < MaxFailures /\ failures' = failures + 1
          /\ UNCHANGED met
    /\ engineNext' = None
    /\ FailedSlot
    /\ job' = [job EXCEPT !.slot = None, !.phase = IF IsWorkers THEN "giveup" ELSE "failed"]
    /\ UNCHANGED <<frameToSlot, lastUse, usableSlots, allocatedSlots, engineBusy,
                   foregroundWaiters, window, stopping, calls, threads, acquires, trims, drops>>

\* The worker stops decoding ahead after a failure.
GiveUp ==
    /\ job.phase = "giveup"
    /\ ahead' = NoAhead
    /\ job' = [job EXCEPT !.phase = "done"]
    /\ UNCHANGED <<cache, engineBusy, engineNext, met, foregroundWaiters, lastRequest, stopping,
                   calls, threads, bounds>>

\* Mutant: the engine is given back without a notification.
LetGoSilently(p) == pc' = p /\ trimmer' = trimmer
\* The guard's notify_all reaches everyone who waits.
LetGo(p) == pc' = Woken(p) /\ trimmer' = WokenTrimmer

\* EngineGuard::release by an acquire(): it has its lease, or it asks again for
\* the frame held in the place of a run that this request has met, or it fails.
Finish ==
    /\ job.phase \in {"served", "failed", "refused"}
    /\ LET c == job.owner
           held == HoldFor(want[c].asked)
           again == job.phase # "served" /\ want[c].retry /\ held # want[c].asked
       IN  /\ engineBusy' = FALSE /\ job' = NoJob
           /\ leases' = IF job.phase = "served"
                        THEN [leases EXCEPT ![c] = Append(@, Lease(c, job.slot))] ELSE leases
           /\ want' = [want EXCEPT ![c] = IF again THEN [@ EXCEPT !.frame = held, !.retry = FALSE]
                                          ELSE NoWant]
           /\ LetGo([pc EXCEPT ![c] = IF again THEN "call" ELSE "idle"])
    /\ worker' = WokenWorker
    /\ UNCHANGED <<cache, engineNext, met, foregroundWaiters, window, stopping, bounds>>

-----------------------------------------------------------------------------
(* The decode-ahead worker. *)

WorkerHasWork ==
    /\ ahead # NoAhead /\ ~engineBusy /\ foregroundWaiters = 0
    /\ FirstMissingAhead # None
    /\ \/ frameToSlot[PlanStart(FirstMissingAhead)] # None
       \/ SpeculativeSlotAvailable

\* The wait's predicate, evaluated under the lock: one pair per ownership.
WorkerCheck ==
    /\ worker = "check"
    /\ \/ /\ stopping
          /\ worker' = "gone" /\ UNCHANGED <<engineBusy, job>>
       \/ /\ ~stopping /\ ~WorkerHasWork
          /\ worker' = "asleep" /\ UNCHANGED <<engineBusy, job>>
       \/ /\ ~stopping /\ WorkerHasWork
          /\ worker' = "engine" /\ engineBusy' = TRUE
          /\ job' = [owner |-> "worker", target |-> FirstMissingAhead,
                     at |-> PlanStart(FirstMissingAhead), slot |-> None, phase |-> "reserve"]
    /\ UNCHANGED <<cache, engineNext, met, foregroundWaiters, window, stopping, calls, trimmer,
                   bounds>>

WorkerFinish ==
    /\ job.phase = "done"
    /\ engineBusy' = FALSE /\ job' = NoJob
    /\ worker' = "check" /\ LetGo(pc)
    /\ UNCHANGED <<cache, engineNext, met, foregroundWaiters, window, stopping, want, leases,
                   bounds>>

-----------------------------------------------------------------------------
(* Leases and the calls that give memory back. *)

\* release() or the lease's destructor, on any thread, even after the decoder's end.
Release(c) ==
    \E i \in DOMAIN leases[c] :
        /\ slot' = [slot EXCEPT ![leases[c][i].slot].pins = @ - 1]
        /\ Touch(leases[c][i].slot)
        /\ leases' = [leases EXCEPT ![c] = SubSeq(@, 1, i - 1) \o SubSeq(@, i + 1, Len(@))]
        /\ pc' = Woken(pc) /\ NotifyThreads
        /\ UNCHANGED <<frameToSlot, usableSlots, allocatedSlots, engine, foregroundWaiters, window,
                       stopping, want, bounds>>

Unheld(s) == slot[s].base /\ slot[s].pins = 0 /\ ~slot[s].writing

DropCachedFrames ==
    LET S == {s \in Slots : Unheld(s) /\ slot[s].frame # None} IN
    /\ ~stopping /\ drops < MaxDrops /\ drops' = drops + 1
    /\ slot' = [s \in Slots |-> IF s \in S THEN [slot[s] EXCEPT !.frame = None] ELSE slot[s]]
    /\ Unmap(S)
    /\ Forget(S)
    /\ UNCHANGED <<usableSlots, allocatedSlots, engine, foregroundWaiters, window, stopping,
                   calls, threads, acquires, failures, trims>>

\* The frame asked for last and its neighbours first, forward before back; the
\* most recently used first when nothing was asked for yet.
Rank(s) ==
    LET d == slot[s].frame - lastRequest IN
    IF lastRequest = None THEN Capacity - lastUse[s]
    ELSE IF d >= 0 THEN 2 * d ELSE -2 * d + 1

\* The slots that lose their VRAM: empty ones, and all but the first k by rank.
Detached(k) ==
    LET cached == {s \in Slots : Unheld(s) /\ slot[s].frame # None}
    IN  {s \in Slots : Unheld(s) /\ slot[s].frame = None}
            \cup {s \in cached : Cardinality({t \in cached : Rank(t) < Rank(s)}) >= k}

Detach(k) ==
    LET S == Detached(k) IN
    /\ slot' = [s \in Slots |-> IF s \in S THEN EmptySlot ELSE slot[s]]
    /\ Unmap(S)
    /\ Forget(S)
    /\ allocatedSlots' = allocatedSlots - Cardinality(S)

\* trimForIdle: end the run of decode-ahead, then wait for the engine.
Trim ==
    /\ trimmer = "idle" /\ ~stopping /\ trims < MaxTrims /\ trims' = trims + 1
    /\ ahead' = NoAhead
    /\ pc' = Woken(pc) /\ worker' = WokenWorker
    /\ \/ /\ engineBusy /\ trimmer' = "waiting"
          /\ UNCHANGED <<slot, frameToSlot, lastUse, allocatedSlots>>
       \/ /\ ~engineBusy /\ trimmer' = "idle"
          /\ \E k \in Keeps : Detach(k)
    /\ UNCHANGED <<usableSlots, engine, foregroundWaiters, lastRequest, stopping, want, leases,
                   acquires, failures, drops>>

\* The waiting trimmer is woken, or two seconds are over.
TrimWake ==
    /\ trimmer \in {"waiting", "awake"}
    /\ \/ /\ trimmer = "awake" /\ ~engineBusy /\ trimmer' = "idle"
          /\ \E k \in Keeps : Detach(k)
       \/ /\ trimmer = "awake" /\ engineBusy /\ trimmer' = "waiting"
          /\ UNCHANGED <<slot, frameToSlot, lastUse, allocatedSlots>>
       \/ /\ engineBusy /\ trimmer' = "idle"
          /\ UNCHANGED <<slot, frameToSlot, lastUse, allocatedSlots>>
    /\ UNCHANGED <<usableSlots, engine, foregroundWaiters, window, stopping, calls, worker, bounds>>

\* ~GpuClipDecoder: no call may be running; leases may outlive it.
Shutdown ==
    /\ ~stopping /\ trimmer = "idle" /\ \A c \in Callers : pc[c] = "idle"
    /\ stopping' = TRUE /\ ahead' = NoAhead
    /\ worker' = WokenWorker
    /\ UNCHANGED <<cache, engine, foregroundWaiters, lastRequest, calls, trimmer, bounds>>

-----------------------------------------------------------------------------

OwnerStep == Reserve \/ Allocate \/ Publish \/ FailDecode \/ GiveUp \/ Finish \/ WorkerFinish

\* Nothing is left to do: the decoder is gone and so is every lease.
Finished ==
    /\ stopping /\ worker = "gone" /\ \A c \in Callers : leases[c] = <<>>
    /\ UNCHANGED vars

Next ==
    \/ \E c \in Callers : \/ \E k \in Frames : Ask(c, k)
                          \/ Enter(c) \/ Wake(c) \/ Release(c)
    \/ OwnerStep \/ WorkerCheck
    \/ DropCachedFrames \/ Trim \/ TrimWake \/ Shutdown \/ Finished

Spec == Init /\ [][Next]_vars

\* The threads keep running; what the host does is up to the host.
Fairness ==
    /\ \A c \in Callers : WF_vars(Enter(c)) /\ WF_vars(Wake(c))
    /\ WF_vars(OwnerStep) /\ WF_vars(WorkerCheck) /\ WF_vars(TrimWake)

FairSpec == Spec /\ Fairness

-----------------------------------------------------------------------------
(* Properties. *)

Places == {"idle", "call", "waiting", "awake", "engine"}
Phases == {"none", "reserve", "allocate", "decode", "served", "failed", "refused", "giveup", "done"}
OrNone(S) == S \cup {None}

\* Every variable has its type: the frames and slots that are named exist.
TypeOK ==
    /\ slot \in [Slots -> [base : BOOLEAN, frame : OrNone(Frames), pins : Nat, writing : BOOLEAN]]
    /\ frameToSlot \in [Frames -> OrNone(Slots)]
    /\ lastUse \in [Slots -> 0 .. Capacity]
    /\ usableSlots \in 0 .. Capacity /\ allocatedSlots \in 0 .. Capacity
    /\ engineBusy \in BOOLEAN /\ engineNext \in OrNone(0 .. FrameCount) /\ met \subseteq Runs
    /\ foregroundWaiters \in 0 .. Cardinality(Callers)
    /\ lastRequest \in OrNone(Frames)
    /\ ahead \in {NoAhead} \cup [base : Frames, end : Frames]
    /\ stopping \in BOOLEAN
    /\ job \in {NoJob} \cup [owner : Callers \cup {"worker"}, target : Frames, at : Frames,
                             slot : OrNone(Slots), phase : Phases \ {"none"}]
    /\ pc \in [Callers -> Places]
    /\ want \in [Callers -> [frame : OrNone(Frames), asked : OrNone(Frames), retry : BOOLEAN]]
    /\ leases \in [Callers -> Seq([slot : Slots, frame : Frames, asked : Frames])]
    /\ worker \in {"check", "asleep", "engine", "gone"}
    /\ trimmer \in {"idle", "waiting", "awake"}
    /\ acquires \in 0 .. MaxAcquires /\ failures \in 0 .. MaxFailures
    /\ trims \in 0 .. MaxTrims /\ drops \in 0 .. MaxDrops

AllLeases == UNION {{<<c, i>> : i \in DOMAIN leases[c]} : c \in Callers}
LeaseOf(l) == leases[l[1]][l[2]]

\* A lease keeps the pixels it was given: whatever other callers, the worker, a
\* trim or a drop do, its slot keeps its memory and the frame, which is the frame
\* asked for, or the one held in the place of an undecodable run that contains it.
LeasedFrameStays ==
    \A l \in AllLeases :
        LET lease == LeaseOf(l) IN
        /\ slot[lease.slot].base /\ slot[lease.slot].frame = lease.frame
        /\ ~slot[lease.slot].writing
        /\ \/ lease.frame = lease.asked
           \/ InRun(lease.asked, met) /\ lease.frame = HoldFor(lease.asked)

\* Only the owner of the engine fills a slot, one at a time: no failure, whatever
\* its moment, leaves a slot marked as being filled, where it would be lost for good.
\* The frame an acquire decodes for is not put in the cache by anyone else.
OneWriter ==
    /\ engineBusy <=> job # NoJob
    /\ {s \in Slots : slot[s].writing}
        = (IF job.phase \in {"allocate", "decode"} THEN {job.slot} \ {None} ELSE {})
    /\ job.phase \in {"reserve", "allocate", "decode"} /\ ~IsWorkers
        => frameToSlot[job.target] = None

\* What the error says (GpuClipDecoder.h, acquire: "every cache slot is pinned by a
\* live lease so the frame has nowhere to go - release leases and retry"): some lease
\* is there to be released.
RefusedMeansLeased ==
    [][job.phase = "reserve" /\ job'.phase = "refused" => AllLeases # {}]_vars

\* Every acquire returns, through waits, evictions, failures and retries.
AcquireReturns == \A c \in Callers : pc[c] # "idle" ~> pc[c] = "idle"

\* What the worker could do for the window while the engine is free.
WindowPending ==
    /\ ahead # NoAhead /\ ~stopping /\ FirstMissingAhead # None
    /\ frameToSlot[PlanStart(FirstMissingAhead)] # None \/ SpeculativeSlotAvailable

\* The window does not stay unfilled while there is room for it: no wake-up of the
\* worker is lost when a waiting acquire leaves, a frame is published or a pin dropped.
\* (A drop, or a trim that waited, takes frames from a window and wakes nobody.)
WindowFills == WindowPending ~> (~WindowPending \/ trims + drops > 0)

==============================================================================
