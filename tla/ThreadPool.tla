------------------------------ MODULE ThreadPool ------------------------------
(***************************************************************************)
(* osv::ThreadPool: a fixed set of worker threads, a blocking parallelFor  *)
(* that any number of callers may enter at once, and the destructor.       *)
(*                                                                         *)
(* A critical section of m_mutex is one step, for nothing it touches is    *)
(* touched without the lock; the exception is the owner's wait for its     *)
(* job, whose predicate reads two atomics that others change without the   *)
(* lock: there the lock is held (variable mutex) over several steps.       *)
(* A Job lives on its caller's stack, so job is indexed by the caller, and *)
(* a step that touches job[c] after c returned is a use after free.        *)
(***************************************************************************)
EXTENDS Integers, FiniteSets

CONSTANTS Workers,      \* the threads of m_workers
          Callers,      \* host threads that share the pool
          Ranges,       \* the [begin, end, grain] arguments they may pass
          Word,         \* size_t is 0 .. Word - 1 and wraps
          MaxCalls,     \* bound: parallelFor calls that publish a job
          MaxSpurious   \* bound: wake-ups of a condition variable nobody notified

Nobody == "nobody"

ASSUME ThreadsAssumption ==
    /\ Workers # {} /\ IsFiniteSet(Workers)
    /\ Workers \cap Callers = {}
    /\ Nobody \notin Workers \cup Callers

ASSUME SizesAssumption ==
    /\ Word \in Nat \ {0}
    /\ Ranges \subseteq [begin: 0 .. Word - 1, end: 0 .. Word - 1, grain: 0 .. Word - 1]
    /\ MaxCalls \in Nat /\ MaxSpurious \in Nat

Threads == Workers \cup Callers

VARIABLES
    mutex,        \* who holds m_mutex between steps: a caller in its wait, or Nobody
    submit,       \* who holds m_submitMutex
    currentJob,   \* m_currentJob: the caller whose Job is published, or Nobody
    generation,   \* m_generation
    job,          \* the Job on each caller's stack
    pc,           \* where each thread is
    taken,        \* the worker's job pointer
    seen,         \* the worker's seenGeneration
    chunk,        \* the chunk a thread holds
    ran,          \* history: how often the body ran on each index, per call
    result,       \* what the caller's last call returned
    pool,         \* where the destructor is: "up", "stopping", "joining", "gone"
    spurious      \* spurious wake-ups so far

board == <<currentJob, generation>>
workerVars == <<taken, seen>>
outcome == <<ran, result>>
ends == <<pool, spurious>>
vars == <<mutex, submit, board, job, pc, workerVars, chunk, outcome, ends>>

\* m_stop, which only the destructor sets.
stop == pool # "up"

-----------------------------------------------------------------------------
(* The arithmetic of the chunks, in size_t. *)

\* (total + grain - 1) / grain; a zero grain counts as one.
Grain(r) == IF r.grain = 0 THEN 1 ELSE r.grain
ChunkCount(r) == ((r.end - r.begin + Grain(r) - 1) % Word) \div Grain(r)

\* The slice [b, e) of chunk i.
ChunkBegin(r, i) == (r.begin + i * Grain(r)) % Word
ChunkEnd(r, i) == LET e == (ChunkBegin(r, i) + Grain(r)) % Word
                  IN IF e < r.end THEN e ELSE r.end
Slice(r, i) == {x \in 0 .. Word - 1 : ChunkBegin(r, i) <= x /\ x < ChunkEnd(r, i)}

Indices == 0 .. Word - 1
NotRun == [x \in Indices |-> 0]

\* A Job, and the fields it starts with.
Job == [range: Ranges, gen: Nat, next: Nat, remaining: Int, failed: BOOLEAN, inside: Int]
NewJob(r, g) == [range |-> r, gen |-> g, next |-> 0, remaining |-> ChunkCount(r),
                 failed |-> FALSE, inside |-> 0]

-----------------------------------------------------------------------------
Init ==
    /\ mutex = Nobody /\ submit = Nobody
    /\ currentJob = Nobody /\ generation = 0
    /\ \E r \in Ranges : job = [c \in Callers |-> NewJob(r, 0)]
    /\ pc = [t \in Threads |-> IF t \in Workers THEN "look" ELSE "idle"]
    /\ taken = [w \in Workers |-> Nobody]
    /\ seen = [w \in Workers |-> 0]
    /\ chunk = [t \in Threads |-> 0]
    /\ ran = [c \in Callers |-> NotRun]
    /\ result = [c \in Callers |-> "none"]
    /\ pool = "up" /\ spurious = 0

At(t, here) == pc[t] = here
Goto(t, there) == pc' = [pc EXCEPT ![t] = there]

\* notify_all: workers sleep on m_wake only, callers on m_done only.
NotifyWake(p) == [t \in Threads |-> IF t \in Workers /\ p[t] = "asleep" THEN "look" ELSE p[t]]
NotifyDone(p) == [t \in Threads |-> IF t \in Callers /\ p[t] = "asleep" THEN "relock" ELSE p[t]]

\* The Job that thread t works on.
JobOf(t) == IF t \in Callers THEN t ELSE taken[t]

-----------------------------------------------------------------------------
(* parallelFor up to the published job. *)

\* A call with an empty range, or without a body, returns at once.
CallNothing(c, r) ==
    /\ pool = "up" /\ At(c, "idle")
    /\ \/ r.end <= r.begin /\ result' = [result EXCEPT ![c] = "ok"]
       \/ result' = [result EXCEPT ![c] = "invalid"]
    /\ ran' = [ran EXCEPT ![c] = NotRun]
    /\ job' = [job EXCEPT ![c] = NewJob(r, 0)]
    /\ UNCHANGED <<mutex, submit, board, pc, workerVars, chunk, ends>>

\* A call with work queues for m_submitMutex.
Call(c, r) ==
    /\ pool = "up" /\ At(c, "idle") /\ r.begin < r.end
    /\ generation + Cardinality({d \in Callers : pc[d] \in {"submit", "publish"}}) < MaxCalls
    /\ Goto(c, "submit")
    /\ job' = [job EXCEPT ![c] = NewJob(r, 0)]
    /\ result' = [result EXCEPT ![c] = "none"]
    /\ ran' = [ran EXCEPT ![c] = NotRun]
    /\ UNCHANGED <<mutex, submit, board, workerVars, chunk, ends>>

\* Mutant: parallelFor without m_submitMutex.
SubmitUnlocked(c) ==
    /\ At(c, "submit")
    /\ submit' = c
    /\ Goto(c, "publish")
    /\ UNCHANGED <<mutex, board, job, workerVars, chunk, outcome, ends>>

\* The caller gets m_submitMutex.
Submit(c) ==
    /\ At(c, "submit") /\ submit = Nobody
    /\ submit' = c
    /\ Goto(c, "publish")
    /\ UNCHANGED <<mutex, board, job, workerVars, chunk, outcome, ends>>

\* Under m_mutex the new Job becomes the current one, of a new generation.
Publish(c) ==
    /\ At(c, "publish") /\ mutex = Nobody
    /\ currentJob' = c
    /\ generation' = generation + 1
    /\ job' = [job EXCEPT ![c].gen = generation + 1]
    /\ Goto(c, "notify")
    /\ UNCHANGED <<mutex, submit, workerVars, chunk, outcome, ends>>

\* m_wake.notify_all, without the lock.
WakeWorkers(c) ==
    /\ At(c, "notify")
    /\ pc' = [NotifyWake(pc) EXCEPT ![c] = "grab"]
    /\ UNCHANGED <<mutex, submit, board, job, workerVars, chunk, outcome, ends>>

-----------------------------------------------------------------------------
(* runChunks, by the caller and by every worker that took the job. *)

\* nextChunk.fetch_add; past the last chunk the thread leaves the loop.
Grab(t) ==
    /\ At(t, "grab")
    /\ LET j == JobOf(t) IN
         /\ job' = [job EXCEPT ![j].next = @ + 1]
         /\ IF job[j].next < ChunkCount(job[j].range)
            THEN /\ chunk' = [chunk EXCEPT ![t] = job[j].next]
                 /\ Goto(t, "run")
            ELSE /\ Goto(t, IF t \in Callers THEN "retract" ELSE "leave")
                 /\ UNCHANGED chunk
    /\ UNCHANGED <<mutex, submit, board, workerVars, outcome, ends>>

\* The body runs on the slice and may throw; after a failure it is skipped, but
\* the relaxed load of failed may still miss another thread's store.
Run(t) ==
    /\ At(t, "run")
    /\ LET j == JobOf(t)
           body == [ran EXCEPT ![j] = [x \in Indices |->
                        @[x] + IF x \in Slice(job[j].range, chunk[t]) THEN 1 ELSE 0]]
       IN \/ ran' = body /\ UNCHANGED job
          \/ ran' = body /\ job' = [job EXCEPT ![j].failed = TRUE]
          \/ job[j].failed /\ UNCHANGED <<ran, job>>
    /\ Goto(t, "count")
    /\ UNCHANGED <<mutex, submit, board, workerVars, chunk, result, ends>>

\* remainingChunks.fetch_sub; who takes it to zero signals.
Count(t) ==
    /\ At(t, "count")
    /\ LET j == JobOf(t) IN
         /\ job' = [job EXCEPT ![j].remaining = @ - 1]
         /\ Goto(t, IF job[j].remaining = 1 THEN "signal" ELSE "grab")
    /\ chunk' = [chunk EXCEPT ![t] = 0]
    /\ UNCHANGED <<mutex, submit, board, workerVars, outcome, ends>>

\* m_done.notify_all under m_mutex.
Signal(t) ==
    /\ At(t, "signal") /\ mutex = Nobody
    /\ pc' = [NotifyDone(pc) EXCEPT ![t] = "grab"]
    /\ UNCHANGED <<mutex, submit, board, job, workerVars, chunk, outcome, ends>>

-----------------------------------------------------------------------------
(* workerLoop. *)

HasWork(w) == currentJob # Nobody /\ generation # seen[w]

\* Under m_mutex: stop, or take the job and register in it, or sleep.
Look(w) ==
    /\ At(w, "look") /\ mutex = Nobody
    /\ \/ /\ stop
          /\ Goto(w, "exited")
          /\ UNCHANGED <<job, workerVars>>
       \/ /\ ~stop /\ HasWork(w)
          /\ taken' = [taken EXCEPT ![w] = currentJob]
          /\ seen' = [seen EXCEPT ![w] = generation]
          /\ job' = [job EXCEPT ![currentJob].inside = @ + 1]
          /\ Goto(w, "grab")
       \/ /\ ~stop /\ ~HasWork(w)
          /\ Goto(w, "asleep")
          /\ UNCHANGED <<job, workerVars>>
    /\ UNCHANGED <<mutex, submit, board, chunk, outcome, ends>>

\* workersInside.fetch_sub: the last access of the worker to the Job.
Leave(w) ==
    /\ At(w, "leave")
    /\ LET j == taken[w] IN
         /\ job' = [job EXCEPT ![j].inside = @ - 1]
         /\ Goto(w, IF job[j].inside = 1 THEN "signalLeft" ELSE "look")
    /\ taken' = [taken EXCEPT ![w] = Nobody]
    /\ UNCHANGED <<mutex, submit, board, seen, chunk, outcome, ends>>

\* Mutant: notify_all without taking m_mutex.
SignalLeftUnlocked(w) ==
    /\ At(w, "signalLeft")
    /\ pc' = [NotifyDone(pc) EXCEPT ![w] = "look"]
    /\ UNCHANGED <<mutex, submit, board, job, workerVars, chunk, outcome, ends>>

\* The last worker out notifies m_done under m_mutex.
SignalLeft(w) ==
    /\ At(w, "signalLeft") /\ mutex = Nobody
    /\ pc' = [NotifyDone(pc) EXCEPT ![w] = "look"]
    /\ UNCHANGED <<mutex, submit, board, job, workerVars, chunk, outcome, ends>>

-----------------------------------------------------------------------------
(* parallelFor from the caller's last chunk to its return. *)

\* Lock m_mutex and withdraw the job: no new worker may take it.
Retract(c) ==
    /\ At(c, "retract") /\ mutex = Nobody
    /\ mutex' = c
    /\ currentJob' = Nobody
    /\ Goto(c, "checkCount")
    /\ UNCHANGED <<submit, generation, job, workerVars, chunk, outcome, ends>>

\* The predicate of m_done.wait, one atomic load after the other.
CheckCount(c) ==
    /\ At(c, "checkCount")
    /\ Goto(c, IF job[c].remaining = 0 THEN "checkInside" ELSE "block")
    /\ UNCHANGED <<mutex, submit, board, job, workerVars, chunk, outcome, ends>>

\* Mutant: the predicate without workersInside.
CheckNothing(c) ==
    /\ At(c, "checkInside")
    /\ mutex' = Nobody /\ Goto(c, "return")
    /\ UNCHANGED <<submit, board, job, workerVars, chunk, outcome, ends>>

CheckInside(c) ==
    /\ At(c, "checkInside")
    /\ IF job[c].inside = 0
       THEN mutex' = Nobody /\ Goto(c, "return")
       ELSE mutex' = mutex /\ Goto(c, "block")
    /\ UNCHANGED <<submit, board, job, workerVars, chunk, outcome, ends>>

\* The wait releases m_mutex as it goes to sleep, and takes it again to look.
Block(c) ==
    /\ At(c, "block")
    /\ mutex' = Nobody
    /\ Goto(c, "asleep")
    /\ UNCHANGED <<submit, board, job, workerVars, chunk, outcome, ends>>

Relock(c) ==
    /\ At(c, "relock") /\ mutex = Nobody
    /\ mutex' = c
    /\ Goto(c, "checkCount")
    /\ UNCHANGED <<submit, board, job, workerVars, chunk, outcome, ends>>

\* The Job leaves the stack and m_submitMutex is released.
Return(c) ==
    /\ At(c, "return")
    /\ result' = [result EXCEPT ![c] = IF job[c].failed THEN "error" ELSE "ok"]
    /\ job' = [job EXCEPT ![c] = NewJob(@.range, 0)]
    /\ submit' = Nobody
    /\ Goto(c, "idle")
    /\ UNCHANGED <<mutex, board, workerVars, chunk, ran, ends>>

\* A condition variable may wake a thread that nobody notified.
Spurious(t) ==
    /\ At(t, "asleep") /\ spurious < MaxSpurious
    /\ spurious' = spurious + 1
    /\ Goto(t, IF t \in Workers THEN "look" ELSE "relock")
    /\ UNCHANGED <<mutex, submit, board, job, workerVars, chunk, outcome, pool>>

-----------------------------------------------------------------------------
(* ~ThreadPool, run by whoever owns the pool once no call is in flight. *)

Destroy ==
    /\ pool = "up" /\ \A c \in Callers : At(c, "idle")
    /\ mutex = Nobody
    /\ pool' = "stopping"
    /\ UNCHANGED <<mutex, submit, board, job, pc, workerVars, chunk, outcome, spurious>>

DestroyNotify ==
    /\ pool = "stopping"
    /\ pool' = "joining"
    /\ pc' = NotifyWake(pc)
    /\ UNCHANGED <<mutex, submit, board, job, workerVars, chunk, outcome, spurious>>

Join ==
    /\ pool = "joining" /\ \A w \in Workers : At(w, "exited")
    /\ pool' = "gone"
    /\ UNCHANGED <<mutex, submit, board, job, pc, workerVars, chunk, outcome, spurious>>

\* Nothing is left to do: the pool is gone.
Gone == pool = "gone" /\ UNCHANGED vars

-----------------------------------------------------------------------------
CallerStep(c) ==
    \/ Submit(c) \/ Publish(c) \/ WakeWorkers(c)
    \/ Grab(c) \/ Run(c) \/ Count(c) \/ Signal(c)
    \/ Retract(c) \/ CheckCount(c) \/ CheckInside(c) \/ Block(c) \/ Relock(c)
    \/ Return(c)

WorkerStep(w) ==
    \/ Look(w) \/ Grab(w) \/ Run(w) \/ Count(w) \/ Signal(w)
    \/ Leave(w) \/ SignalLeft(w)

DestructorStep == DestroyNotify \/ Join

Next ==
    \/ \E c \in Callers : CallerStep(c)
    \/ \E c \in Callers, r \in Ranges : CallNothing(c, r) \/ Call(c, r)
    \/ \E w \in Workers : WorkerStep(w)
    \/ \E t \in Threads : Spurious(t)
    \/ Destroy \/ DestructorStep \/ Gone

Spec == Init /\ [][Next]_vars

\* A runnable thread runs; nobody is obliged to call or to destroy the pool.
FairSpec ==
    /\ Spec
    /\ \A c \in Callers : WF_vars(CallerStep(c))
    /\ \A w \in Workers : WF_vars(WorkerStep(w))
    /\ WF_vars(DestructorStep)

-----------------------------------------------------------------------------
(* Properties. *)

CallerPlaces == {"idle", "submit", "publish", "notify", "grab", "run", "count",
                 "signal", "retract", "checkCount", "checkInside", "block",
                 "asleep", "relock", "return"}
WorkerPlaces == {"look", "asleep", "grab", "run", "count", "signal", "leave",
                 "signalLeft", "exited"}

\* The places where a thread may touch the Job it works on.
InRunChunks == {"grab", "run", "count", "signal"}
InJob == InRunChunks \cup {"leave"}

\* A caller between taking and releasing m_submitMutex.
InCall == CallerPlaces \ {"idle", "submit"}

\* Every thread is in its own code, and a worker in runChunks has a Job.
PlacesOK ==
    /\ pc \in [Threads -> CallerPlaces \cup WorkerPlaces]
    /\ \A c \in Callers : pc[c] \in CallerPlaces
    /\ \A w \in Workers : pc[w] \in WorkerPlaces
    /\ \A w \in Workers : pc[w] \in InJob => taken[w] \in Callers

\* Every variable keeps its type (the members of ThreadPool and of Job).
TypeOK ==
    /\ mutex \in Callers \cup {Nobody}
    /\ submit \in Callers \cup {Nobody}
    /\ currentJob \in Callers \cup {Nobody}
    /\ generation \in Nat
    /\ job \in [Callers -> Job]
    /\ PlacesOK
    /\ taken \in [Workers -> Callers \cup {Nobody}]
    /\ seen \in [Workers -> Nat]
    /\ chunk \in [Threads -> Nat]
    /\ ran \in [Callers -> [Indices -> Nat]]
    /\ result \in [Callers -> {"none", "ok", "error", "invalid"}]
    /\ pool \in {"up", "stopping", "joining", "gone"}
    /\ spurious \in Nat

\* A worker that still holds the pointer of a Job holds the one of a call in
\* progress, and of the very call it took it from: the Job is on its owner's
\* stack and the next Job may reuse its address (ThreadPool.h, workersInside).
JobOutlivesWorkers ==
    \A w \in Workers : pc[w] \in InJob =>
        /\ pc[taken[w]] \in InCall \ {"publish", "return"}
        /\ job[taken[w]].gen = seen[w]

\* Why that holds, as an inductive invariant. Only the holder of m_submitMutex
\* has a Job, a published Job is one its owner has not withdrawn, and
\* workersInside counts exactly the workers that hold its pointer.
Holders(c) == {w \in Workers : pc[w] \in InJob /\ taken[w] = c}

SubmitHeld == \A c \in Callers : pc[c] \in InCall => submit = c
PublishedIsLive ==
    currentJob # Nobody =>
        /\ pc[currentJob] \in {"notify"} \cup InRunChunks \cup {"retract"}
        /\ job[currentJob].gen = generation
InsideCounted == \A c \in Callers : job[c].inside = Cardinality(Holders(c))

JobInv == TypeOK /\ SubmitHeld /\ PublishedIsLive /\ InsideCounted /\ JobOutlivesWorkers

\* The pool implements ParallelFor: a call runs while its caller holds
\* m_submitMutex, and the indices left are those the body did not run on.
RangeIndices(r) == {x \in Indices : r.begin <= x /\ x < r.end}

Abstract == INSTANCE ParallelFor WITH
    Sets <- {RangeIndices(r) : r \in Ranges} \ {{}},
    phase <- [c \in Callers |-> IF pc[c] = "idle" THEN "idle"
                                ELSE IF pc[c] = "submit" THEN "queued" ELSE "running"],
    left <- [c \in Callers |-> IF pc[c] = "idle" THEN {}
                               ELSE {x \in RangeIndices(job[c].range) : ran[c][x] = 0}],
    threw <- [c \in Callers |-> job[c].failed]

\* Every behaviour of the threads is one of the calls as ParallelFor.tla states
\* them: calls serialised, an error exactly when the body threw, ok only after
\* every index was visited.
ImplementsParallelFor == Abstract!Spec

\* Every parallelFor that was called returns.
CallsReturn == \A c \in Callers : pc[c] = "submit" ~> pc[c] = "idle"

\* The destructor returns: no worker sleeps through the stop.
DestructorJoins == pool = "stopping" ~> pool = "gone"
=============================================================================
