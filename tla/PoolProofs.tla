------------------------------ MODULE PoolProofs ------------------------------
(***************************************************************************)
(* Theorems about the two pools: ThreadPool, for any number of workers,    *)
(* callers and calls; IdlePool, for any finite set of items, any keys,     *)
(* users, reapers and limits.                                              *)
(***************************************************************************)
EXTENDS ThreadPool, IdlePool, FiniteSetTheorems, WellFoundedInduction, TLAPS

-----------------------------------------------------------------------------
(* Lemmas about Jobs and places. *)

\* A new Job is a Job: the chunk count is a natural number.
LEMMA NewJobType == ASSUME NEW r \in Ranges, NEW g \in Nat PROVE NewJob(r, g) \in Job
  <1>1. Grain(r) \in Nat \ {0} /\ r.end - r.begin + Grain(r) - 1 \in Int
    BY SizesAssumption DEF Grain
  <1>2. (r.end - r.begin + Grain(r) - 1) % Word \in Nat
    BY <1>1, SizesAssumption
  <1>3. ChunkCount(r) \in Nat
    BY <1>1, <1>2 DEF ChunkCount
  <1>. QED BY <1>3 DEF NewJob, Job

\* The thread in runChunks has a Job to work on.
LEMMA JobOfType ==
  ASSUME TypeOK, NEW t \in Threads, pc[t] \in InJob PROVE JobOf(t) \in Callers
  BY DEF TypeOK, PlacesOK, JobOf, Threads

\* A thread that moves to a place of its own code leaves the others where they are.
LEMMA Move ==
  ASSUME TypeOK, NEW t \in Threads, NEW p, pc' = [pc EXCEPT ![t] = p], taken' = taken,
         t \in Callers => p \in CallerPlaces,
         t \in Workers => p \in WorkerPlaces /\ (p \in InJob => taken[t] \in Callers)
  PROVE  PlacesOK'
  <1>1. /\ pc' \in [Threads -> CallerPlaces \cup WorkerPlaces]
        /\ \A u \in Threads : pc'[u] = IF u = t THEN p ELSE pc[u]
    BY DEF TypeOK, PlacesOK, Threads
  <1>2. \A c \in Callers : pc'[c] \in CallerPlaces
    BY <1>1 DEF TypeOK, PlacesOK, Threads
  <1>3. \A w \in Workers : pc'[w] \in WorkerPlaces /\ (pc'[w] \in InJob => taken'[w] \in Callers)
    BY <1>1 DEF TypeOK, PlacesOK, Threads
  <1>. QED BY <1>1, <1>2, <1>3 DEF PlacesOK

-----------------------------------------------------------------------------
(* Type correctness. *)

LEMMA TypeInit == Init => TypeOK
  <1>. SUFFICES ASSUME Init PROVE TypeOK
    OBVIOUS
  <1>1. job \in [Callers -> Job]
    BY NewJobType DEF Init
  <1>2. PlacesOK
    BY ThreadsAssumption DEF Init, PlacesOK, Threads, CallerPlaces, WorkerPlaces, InJob, InRunChunks
  <1>. QED BY <1>1, <1>2 DEF Init, TypeOK, NotRun

\* Every action keeps the types.
LEMMA TypeStep == TypeOK /\ [Next]_vars => TypeOK'
  <1>. SUFFICES ASSUME TypeOK, [Next]_vars PROVE TypeOK'
    OBVIOUS
  <1>. USE ThreadsAssumption DEF Goto, At, board, workerVars, outcome, ends
  <1>1. ASSUME NEW c \in Callers, Submit(c) PROVE TypeOK'
    <2>1. PlacesOK'
      BY <1>1, Move DEF Submit, Threads, CallerPlaces, WorkerPlaces, InJob, InRunChunks
    <2>. QED BY <1>1, <2>1 DEF Submit, TypeOK
  <1>2. ASSUME NEW c \in Callers, Publish(c) PROVE TypeOK'
    <2>1. PlacesOK'
      BY <1>2, Move DEF Publish, Threads, CallerPlaces, WorkerPlaces, InJob, InRunChunks
    <2>2. [job[c] EXCEPT !.gen = generation + 1] \in Job
      <3>1. job[c] \in Job /\ generation + 1 \in Nat
        BY DEF TypeOK
      <3>. QED BY <3>1 DEF Job
    <2>3. job' = [job EXCEPT ![c] = [job[c] EXCEPT !.gen = generation + 1]]
      BY <1>2 DEF Publish
    <2>. QED BY <1>2, <2>1, <2>2, <2>3 DEF Publish, TypeOK
  <1>3. ASSUME NEW c \in Callers, WakeWorkers(c) PROVE TypeOK'
    <2>1. PlacesOK'
      BY <1>3 DEF WakeWorkers, NotifyWake, TypeOK, PlacesOK, Threads, CallerPlaces, WorkerPlaces, InJob, InRunChunks
    <2>. QED BY <1>3, <2>1 DEF WakeWorkers, TypeOK
  <1>4. ASSUME NEW c \in Callers, Retract(c) PROVE TypeOK'
    <2>1. PlacesOK'
      BY <1>4, Move DEF Retract, Threads, CallerPlaces, WorkerPlaces, InJob, InRunChunks
    <2>. QED BY <1>4, <2>1 DEF Retract, TypeOK
  <1>5. ASSUME NEW c \in Callers, CheckCount(c) PROVE TypeOK'
    <2>1. PlacesOK'
      BY <1>5, Move DEF CheckCount, Threads, CallerPlaces, WorkerPlaces, InJob, InRunChunks
    <2>. QED BY <1>5, <2>1 DEF CheckCount, TypeOK
  <1>6. ASSUME NEW c \in Callers, CheckInside(c) PROVE TypeOK'
    <2>1. PlacesOK' /\ mutex' \in Callers \cup {Nobody}
      BY <1>6, Move DEF CheckInside, TypeOK, Threads, CallerPlaces, WorkerPlaces, InJob, InRunChunks
    <2>. QED BY <1>6, <2>1 DEF CheckInside, TypeOK
  <1>7. ASSUME NEW c \in Callers, Block(c) PROVE TypeOK'
    <2>1. PlacesOK'
      BY <1>7, Move DEF Block, Threads, CallerPlaces, WorkerPlaces, InJob, InRunChunks
    <2>. QED BY <1>7, <2>1 DEF Block, TypeOK
  <1>8. ASSUME NEW c \in Callers, Relock(c) PROVE TypeOK'
    <2>1. PlacesOK'
      BY <1>8, Move DEF Relock, Threads, CallerPlaces, WorkerPlaces, InJob, InRunChunks
    <2>. QED BY <1>8, <2>1 DEF Relock, TypeOK
  <1>9. ASSUME NEW c \in Callers, Return(c) PROVE TypeOK'
    <2>1. PlacesOK'
      BY <1>9, Move DEF Return, Threads, CallerPlaces, WorkerPlaces, InJob, InRunChunks
    <2>2. NewJob(job[c].range, 0) \in Job
      BY NewJobType DEF TypeOK, Job
    <2>3. job' = [job EXCEPT ![c] = NewJob(job[c].range, 0)]
      BY <1>9 DEF Return
    <2>. QED BY <1>9, <2>1, <2>2, <2>3 DEF Return, TypeOK
  <1>10. ASSUME NEW t \in Threads, Grab(t) PROVE TypeOK'
    <2>. DEFINE j == JobOf(t)
    <2>1. j \in Callers /\ job[j] \in Job
      BY <1>10, JobOfType DEF Grab, TypeOK, InJob, InRunChunks
    <2>2. [job[j] EXCEPT !.next = job[j].next + 1] \in Job /\ job[j].next \in Nat
      BY <2>1 DEF Job
    <2>3. job' = [job EXCEPT ![j] = [job[j] EXCEPT !.next = job[j].next + 1]]
      BY <1>10 DEF Grab
    <2>4. PlacesOK'
      <3>1. t \in Workers => taken[t] \in Callers
        BY <1>10 DEF Grab, TypeOK, PlacesOK, InJob, InRunChunks
      <3>2. PICK p \in {"run", "retract", "leave"} :
               /\ pc' = [pc EXCEPT ![t] = p]
               /\ p = "retract" => t \in Callers
               /\ p = "leave" => t \notin Callers
        BY <1>10 DEF Grab
      <3>. QED BY <1>10, <3>1, <3>2, Move DEF Grab, Threads, CallerPlaces, WorkerPlaces, InJob, InRunChunks
    <2>5. chunk' \in [Threads -> Nat]
      BY <1>10, <2>2 DEF Grab, TypeOK
    <2>. QED BY <1>10, <2>1, <2>2, <2>3, <2>4, <2>5 DEF Grab, TypeOK
  <1>11. ASSUME NEW t \in Threads, Run(t) PROVE TypeOK'
    <2>. DEFINE j == JobOf(t)
    <2>1. j \in Callers /\ job[j] \in Job
      BY <1>11, JobOfType DEF Run, TypeOK, InJob, InRunChunks
    <2>2. [job[j] EXCEPT !.failed = TRUE] \in Job
      BY <2>1 DEF Job
    <2>3. job' = job \/ job' = [job EXCEPT ![j] = [job[j] EXCEPT !.failed = TRUE]]
      BY <1>11 DEF Run
    <2>6. job' \in [Callers -> Job]
      BY <2>1, <2>2, <2>3 DEF TypeOK
    <2>4. PlacesOK'
      <3>1. t \in Workers => taken[t] \in Callers
        BY <1>11 DEF Run, TypeOK, PlacesOK, InJob, InRunChunks
      <3>. QED BY <1>11, <3>1, Move DEF Run, Threads, CallerPlaces, WorkerPlaces, InJob, InRunChunks
    <2>5. ran' \in [Callers -> [Indices -> Nat]]
      BY <1>11, <2>1 DEF Run, TypeOK
    <2>. QED BY <1>11, <2>4, <2>5, <2>6 DEF Run, TypeOK
  <1>12. ASSUME NEW t \in Threads, Count(t) PROVE TypeOK'
    <2>. DEFINE j == JobOf(t)
    <2>1. j \in Callers /\ job[j] \in Job
      BY <1>12, JobOfType DEF Count, TypeOK, InJob, InRunChunks
    <2>2. [job[j] EXCEPT !.remaining = job[j].remaining - 1] \in Job
      BY <2>1 DEF Job
    <2>3. job' = [job EXCEPT ![j] = [job[j] EXCEPT !.remaining = job[j].remaining - 1]]
      BY <1>12 DEF Count
    <2>4. PlacesOK'
      <3>1. t \in Workers => taken[t] \in Callers
        BY <1>12 DEF Count, TypeOK, PlacesOK, InJob, InRunChunks
      <3>. QED BY <1>12, <3>1, Move DEF Count, Threads, CallerPlaces, WorkerPlaces, InJob, InRunChunks
    <2>. QED BY <1>12, <2>1, <2>2, <2>3, <2>4 DEF Count, TypeOK
  <1>13. ASSUME NEW t \in Threads, Signal(t) PROVE TypeOK'
    <2>1. PlacesOK'
      BY <1>13 DEF Signal, NotifyDone, TypeOK, PlacesOK, Threads, CallerPlaces, WorkerPlaces, InJob, InRunChunks
    <2>. QED BY <1>13, <2>1 DEF Signal, TypeOK
  <1>14. ASSUME NEW w \in Workers, Look(w) PROVE TypeOK'
    <2>1. CASE stop
      <3>1. PlacesOK'
        BY <1>14, <2>1, Move DEF Look, Threads, CallerPlaces, WorkerPlaces, InJob, InRunChunks
      <3>. QED BY <1>14, <2>1, <3>1 DEF Look, TypeOK
    <2>2. CASE ~stop /\ HasWork(w)
      <3>1. currentJob \in Callers /\ job[currentJob] \in Job
        BY <2>2 DEF HasWork, TypeOK
      <3>2. [job[currentJob] EXCEPT !.inside = job[currentJob].inside + 1] \in Job
        BY <3>1 DEF Job
      <3>3. /\ job' = [job EXCEPT ![currentJob] = [job[currentJob] EXCEPT !.inside = job[currentJob].inside + 1]]
            /\ taken' = [taken EXCEPT ![w] = currentJob]
            /\ seen' = [seen EXCEPT ![w] = generation]
            /\ pc' = [pc EXCEPT ![w] = "grab"]
        BY <1>14, <2>2 DEF Look
      <3>4. PlacesOK'
        BY <3>1, <3>3 DEF TypeOK, PlacesOK, Threads, CallerPlaces, WorkerPlaces, InJob, InRunChunks
      <3>. QED BY <1>14, <3>1, <3>2, <3>3, <3>4 DEF Look, TypeOK
    <2>3. CASE ~stop /\ ~HasWork(w)
      <3>1. PlacesOK'
        BY <1>14, <2>3, Move DEF Look, Threads, CallerPlaces, WorkerPlaces, InJob, InRunChunks
      <3>. QED BY <1>14, <2>3, <3>1 DEF Look, TypeOK
    <2>. QED BY <2>1, <2>2, <2>3
  <1>15. ASSUME NEW w \in Workers, Leave(w) PROVE TypeOK'
    <2>. DEFINE j == taken[w]
    <2>1. j \in Callers /\ job[j] \in Job
      BY <1>15 DEF Leave, TypeOK, PlacesOK, InJob
    <2>2. [job[j] EXCEPT !.inside = job[j].inside - 1] \in Job
      BY <2>1 DEF Job
    <2>3. job' = [job EXCEPT ![j] = [job[j] EXCEPT !.inside = job[j].inside - 1]]
      BY <1>15 DEF Leave
    <2>4. PICK p \in {"signalLeft", "look"} : pc' = [pc EXCEPT ![w] = p]
      BY <1>15 DEF Leave
    <2>5. PlacesOK'
      BY <1>15, <2>4 DEF Leave, TypeOK, PlacesOK, Threads, CallerPlaces, WorkerPlaces, InJob, InRunChunks
    <2>. QED BY <1>15, <2>1, <2>2, <2>3, <2>5 DEF Leave, TypeOK
  <1>16. ASSUME NEW w \in Workers, SignalLeft(w) PROVE TypeOK'
    <2>1. PlacesOK'
      BY <1>16 DEF SignalLeft, NotifyDone, TypeOK, PlacesOK, Threads, CallerPlaces, WorkerPlaces, InJob, InRunChunks
    <2>. QED BY <1>16, <2>1 DEF SignalLeft, TypeOK
  <1>17. ASSUME NEW c \in Callers, NEW r \in Ranges, CallNothing(c, r) PROVE TypeOK'
    <2>1. PlacesOK'
      BY <1>17, Move DEF CallNothing, Threads, CallerPlaces, WorkerPlaces, InJob, InRunChunks, TypeOK, PlacesOK
    <2>2. NewJob(r, 0) \in Job /\ NotRun \in [Indices -> Nat]
      BY NewJobType DEF NotRun
    <2>. QED BY <1>17, <2>1, <2>2 DEF CallNothing, TypeOK
  <1>18. ASSUME NEW c \in Callers, NEW r \in Ranges, Call(c, r) PROVE TypeOK'
    <2>1. PlacesOK'
      BY <1>18, Move DEF Call, Threads, CallerPlaces, WorkerPlaces, InJob, InRunChunks
    <2>2. NewJob(r, 0) \in Job /\ NotRun \in [Indices -> Nat]
      BY NewJobType DEF NotRun
    <2>. QED BY <1>18, <2>1, <2>2 DEF Call, TypeOK
  <1>19. ASSUME NEW t \in Threads, Spurious(t) PROVE TypeOK'
    <2>1. PlacesOK'
      BY <1>19, Move DEF Spurious, Threads, CallerPlaces, WorkerPlaces, InJob, InRunChunks
    <2>. QED BY <1>19, <2>1 DEF Spurious, TypeOK
  <1>20. CASE Destroy
    BY <1>20 DEF Destroy, TypeOK, PlacesOK
  <1>21. CASE DestroyNotify
    <2>1. PlacesOK'
      BY <1>21 DEF DestroyNotify, NotifyWake, TypeOK, PlacesOK, Threads, CallerPlaces, WorkerPlaces, InJob, InRunChunks
    <2>. QED BY <1>21, <2>1 DEF DestroyNotify, TypeOK
  <1>22. CASE Join
    BY <1>22 DEF Join, TypeOK, PlacesOK
  <1>23. CASE UNCHANGED vars
    BY <1>23 DEF vars, TypeOK, PlacesOK
  <1>. QED
    BY <1>1, <1>2, <1>3, <1>4, <1>5, <1>6, <1>7, <1>8, <1>9, <1>10, <1>11, <1>12, <1>13, <1>14, <1>15, <1>16, <1>17, <1>18, <1>19, <1>20, <1>21, <1>22, <1>23
    DEF Next, CallerStep, WorkerStep, DestructorStep, Gone, Threads

\* The members of ThreadPool and of every Job keep their types, and a worker in
\* runChunks never holds a null job pointer.
THEOREM TypeCorrect == Spec => []TypeOK
  BY TypeInit, TypeStep, PTL DEF Spec

-----------------------------------------------------------------------------
(* A Job outlives every worker that holds it. *)

\* Where a published job's owner is.
LEMMA JobInvParts ==
  ASSUME JobInv PROVE TypeOK /\ SubmitHeld /\ PublishedIsLive /\ InsideCounted /\ JobOutlivesWorkers
  BY DEF JobInv

\* Steps that neither enter nor leave a Job or a call keep the invariant.
LEMMA Frame ==
  ASSUME JobInv, TypeOK',
         submit' = submit, generation' = generation, seen' = seen, taken' = taken,
         currentJob' = currentJob \/ currentJob' = Nobody,
         \A w \in Workers : pc'[w] \in InJob <=> pc[w] \in InJob,
         \A c \in Callers : job'[c].inside = job[c].inside /\ job'[c].gen = job[c].gen,
         \A c \in Callers : pc'[c] \in InCall <=> pc[c] \in InCall,
         \A c \in Callers : pc'[c] \in {"publish", "return"} => pc[c] \in {"publish", "return"},
         \A c \in Callers : c = currentJob' =>
             pc'[c] \in {"notify"} \cup InRunChunks \cup {"retract"}
  PROVE  JobInv'
  <1>1. SubmitHeld'
    BY JobInvParts DEF SubmitHeld
  <1>2. PublishedIsLive'
    BY JobInvParts DEF PublishedIsLive, TypeOK
  <1>3. \A c \in Callers : Holders(c)' = Holders(c)
    BY DEF Holders
  <1>4. InsideCounted'
    BY <1>3, JobInvParts DEF InsideCounted
  <1>5. JobOutlivesWorkers'
    BY JobInvParts DEF JobOutlivesWorkers, TypeOK, PlacesOK
  <1>. QED BY <1>1, <1>2, <1>4, <1>5 DEF JobInv

\* Only workers hold Jobs: a finite number of them.
LEMMA HoldersFinite == ASSUME NEW c PROVE IsFiniteSet(Holders(c)) /\ Cardinality(Holders(c)) \in Nat
  <1>1. Holders(c) \subseteq Workers
    BY DEF Holders
  <1>. QED BY <1>1, ThreadsAssumption, FS_Subset, FS_CardinalityType

LEMMA JobInvInit == Init => JobInv
  <1>. SUFFICES ASSUME Init PROVE JobInv
    OBVIOUS
  <1>1. TypeOK
    BY TypeInit
  <1>2. \A c \in Callers : Holders(c) = {} /\ pc[c] = "idle" /\ job[c].inside = 0
    BY ThreadsAssumption DEF Init, Holders, NewJob, Threads, InJob, InRunChunks
  <1>3. InsideCounted
    BY <1>2, FS_EmptySet DEF InsideCounted
  <1>4. SubmitHeld /\ PublishedIsLive /\ JobOutlivesWorkers
    BY <1>2, ThreadsAssumption DEF Init, SubmitHeld, PublishedIsLive, JobOutlivesWorkers,
       InCall, Threads, InJob, InRunChunks
  <1>. QED BY <1>1, <1>3, <1>4 DEF JobInv

LEMMA JobInvStep == JobInv /\ [Next]_vars => JobInv'
  <1>. SUFFICES ASSUME JobInv, [Next]_vars PROVE JobInv'
    OBVIOUS
  <1>0. TypeOK /\ TypeOK' /\ SubmitHeld /\ PublishedIsLive /\ InsideCounted /\ JobOutlivesWorkers
    BY JobInvParts, TypeStep
  <1>. USE ThreadsAssumption DEF Goto, At, board, workerVars, outcome, ends
  <1>1. ASSUME NEW c \in Callers, Submit(c) PROVE JobInv'
    <2>1. SubmitHeld'
      BY <1>1, <1>0 DEF Submit, SubmitHeld, InCall, TypeOK, PlacesOK, Threads, CallerPlaces, WorkerPlaces, InJob, InRunChunks
    <2>2. PublishedIsLive'
      BY <1>1, <1>0 DEF Submit, PublishedIsLive, TypeOK, PlacesOK, Threads, CallerPlaces, WorkerPlaces, InJob, InRunChunks
    <2>3. \A d \in Callers : Holders(d)' = Holders(d)
      BY <1>1, <1>0 DEF Submit, Holders, TypeOK, PlacesOK, Threads, CallerPlaces, WorkerPlaces, InJob, InRunChunks
    <2>4. InsideCounted'
      BY <1>1, <1>0, <2>3 DEF Submit, InsideCounted
    <2>5. JobOutlivesWorkers'
      BY <1>1, <1>0 DEF Submit, JobOutlivesWorkers, InCall, TypeOK, PlacesOK, Threads, CallerPlaces, WorkerPlaces, InJob, InRunChunks
    <2>. QED BY <1>0, <2>1, <2>2, <2>4, <2>5 DEF JobInv
  <1>2. ASSUME NEW c \in Callers, Publish(c) PROVE JobInv'
    <2>0. /\ \A d \in Callers : job'[d].inside = job[d].inside
          /\ \A d \in Callers : job'[d].gen = IF d = c THEN generation + 1 ELSE job[d].gen
      BY <1>2, <1>0 DEF Publish, TypeOK, Job
    <2>1. SubmitHeld'
      BY <1>2, <1>0 DEF Publish, SubmitHeld, InCall, TypeOK, PlacesOK, Threads, CallerPlaces, WorkerPlaces, InJob, InRunChunks
    <2>2. PublishedIsLive'
      BY <1>2, <1>0, <2>0 DEF Publish, PublishedIsLive, TypeOK, PlacesOK, Threads, CallerPlaces, WorkerPlaces, InJob, InRunChunks
    <2>3. \A d \in Callers : Holders(d)' = Holders(d)
      BY <1>2, <1>0 DEF Publish, Holders, TypeOK, PlacesOK, Threads, CallerPlaces, WorkerPlaces, InJob, InRunChunks
    <2>4. InsideCounted'
      BY <1>2, <1>0, <2>0, <2>3 DEF Publish, InsideCounted
    <2>5. JobOutlivesWorkers'
      BY <1>2, <1>0, <2>0 DEF Publish, JobOutlivesWorkers, InCall, TypeOK, PlacesOK, Threads, CallerPlaces, WorkerPlaces, InJob, InRunChunks
    <2>. QED BY <1>0, <2>1, <2>2, <2>4, <2>5 DEF JobInv
  <1>3. ASSUME NEW c \in Callers, WakeWorkers(c) PROVE JobInv'
    BY <1>3, <1>0, Frame DEF WakeWorkers, TypeOK, PlacesOK, PublishedIsLive, InCall, Threads, CallerPlaces, WorkerPlaces, InJob, InRunChunks, NotifyWake
  <1>4. ASSUME NEW c \in Callers, Retract(c) PROVE JobInv'
    BY <1>4, <1>0, Frame DEF Retract, TypeOK, PlacesOK, PublishedIsLive, InCall, Threads, CallerPlaces, WorkerPlaces, InJob, InRunChunks
  <1>5. ASSUME NEW c \in Callers, CheckCount(c) PROVE JobInv'
    BY <1>5, <1>0, Frame DEF CheckCount, TypeOK, PlacesOK, PublishedIsLive, InCall, Threads, CallerPlaces, WorkerPlaces, InJob, InRunChunks
  <1>6. ASSUME NEW c \in Callers, CheckInside(c) PROVE JobInv'
    <2>1. CASE job[c].inside = 0
      <3>0. \A w \in Workers : pc[w] \in InJob => taken[w] # c
        <4>1. Cardinality(Holders(c)) = 0
          BY <1>0, <2>1 DEF InsideCounted
        <4>2. Holders(c) = {}
          BY <4>1, HoldersFinite, FS_EmptySet
        <4>. QED BY <4>2 DEF Holders
      <3>1. SubmitHeld'
        BY <1>6, <1>0, <2>1 DEF CheckInside, SubmitHeld, InCall, TypeOK, PlacesOK, Threads, CallerPlaces, WorkerPlaces, InJob, InRunChunks
      <3>2. PublishedIsLive'
        BY <1>6, <1>0, <2>1 DEF CheckInside, PublishedIsLive, TypeOK, PlacesOK, Threads, CallerPlaces, WorkerPlaces, InJob, InRunChunks
      <3>3. \A d \in Callers : Holders(d)' = Holders(d)
        BY <1>6, <1>0, <2>1 DEF CheckInside, Holders, TypeOK, PlacesOK, Threads, CallerPlaces, WorkerPlaces, InJob, InRunChunks
      <3>4. InsideCounted'
        BY <1>6, <1>0, <3>3 DEF CheckInside, InsideCounted
      <3>5. JobOutlivesWorkers'
        BY <1>6, <1>0, <2>1, <3>0 DEF CheckInside, JobOutlivesWorkers, InCall, TypeOK, PlacesOK, Threads, CallerPlaces, WorkerPlaces, InJob, InRunChunks
      <3>. QED BY <1>0, <3>1, <3>2, <3>4, <3>5 DEF JobInv
    <2>2. CASE job[c].inside # 0
      BY <1>6, <1>0, <2>2, Frame DEF CheckInside, TypeOK, PlacesOK, PublishedIsLive, InCall, Threads, CallerPlaces, WorkerPlaces, InJob, InRunChunks
    <2>. QED BY <2>1, <2>2
  <1>7. ASSUME NEW c \in Callers, Block(c) PROVE JobInv'
    BY <1>7, <1>0, Frame DEF Block, TypeOK, PlacesOK, PublishedIsLive, InCall, Threads, CallerPlaces, WorkerPlaces, InJob, InRunChunks
  <1>8. ASSUME NEW c \in Callers, Relock(c) PROVE JobInv'
    BY <1>8, <1>0, Frame DEF Relock, TypeOK, PlacesOK, PublishedIsLive, InCall, Threads, CallerPlaces, WorkerPlaces, InJob, InRunChunks
  <1>9. ASSUME NEW c \in Callers, Return(c) PROVE JobInv'
    <2>0. \A w \in Workers : pc[w] \in InJob => taken[w] # c
      BY <1>9, <1>0 DEF Return, JobOutlivesWorkers
    <2>1. /\ job' = [job EXCEPT ![c] = NewJob(job[c].range, 0)]
          /\ NewJob(job[c].range, 0).inside = 0
      BY <1>9 DEF Return, NewJob
    <2>2. SubmitHeld'
      BY <1>9, <1>0 DEF Return, SubmitHeld, InCall, TypeOK, PlacesOK, Threads, CallerPlaces, WorkerPlaces, InJob, InRunChunks
    <2>3. PublishedIsLive'
      BY <1>9, <1>0, <2>1 DEF Return, PublishedIsLive, TypeOK, PlacesOK, Threads, CallerPlaces, WorkerPlaces, InJob, InRunChunks
    <2>4. /\ \A d \in Callers : Holders(d)' = Holders(d)
          /\ Holders(c) = {}
      BY <1>9, <1>0, <2>0 DEF Return, Holders, TypeOK, PlacesOK, Threads, CallerPlaces, WorkerPlaces, InJob, InRunChunks
    <2>5. InsideCounted'
      BY <1>0, <2>1, <2>4, FS_EmptySet DEF InsideCounted, TypeOK
    <2>6. JobOutlivesWorkers'
      BY <1>9, <1>0, <2>0, <2>1 DEF Return, JobOutlivesWorkers, InCall, TypeOK, PlacesOK, Threads, CallerPlaces, WorkerPlaces, InJob, InRunChunks
    <2>. QED BY <1>0, <2>2, <2>3, <2>5, <2>6 DEF JobInv
  <1>10. ASSUME NEW t \in Threads, Grab(t) PROVE JobInv'
    <2>1. \A c \in Callers : job'[c].inside = job[c].inside /\ job'[c].gen = job[c].gen
      BY <1>10, <1>0 DEF Grab, TypeOK, Job
    <2>. QED BY <1>10, <1>0, <2>1, Frame DEF Grab, TypeOK, PlacesOK, PublishedIsLive, InCall, Threads, CallerPlaces, WorkerPlaces, InJob, InRunChunks
  <1>11. ASSUME NEW t \in Threads, Run(t) PROVE JobInv'
    <2>. DEFINE j == JobOf(t)
    <2>1. j \in Callers /\ job[j] \in Job
      BY <1>11, <1>0, JobOfType DEF Run, TypeOK, InJob, InRunChunks
    <2>2. job' = job \/ job' = [job EXCEPT ![j] = [job[j] EXCEPT !.failed = TRUE]]
      BY <1>11 DEF Run
    <2>3. \A c \in Callers : job'[c].inside = job[c].inside /\ job'[c].gen = job[c].gen
      BY <1>0, <2>1, <2>2 DEF TypeOK, Job
    <2>. QED BY <1>11, <1>0, <2>3, Frame DEF Run, TypeOK, PlacesOK, PublishedIsLive, InCall, Threads, CallerPlaces, WorkerPlaces, InJob, InRunChunks
  <1>12. ASSUME NEW t \in Threads, Count(t) PROVE JobInv'
    <2>1. \A c \in Callers : job'[c].inside = job[c].inside /\ job'[c].gen = job[c].gen
      BY <1>12, <1>0 DEF Count, TypeOK, Job
    <2>. QED BY <1>12, <1>0, <2>1, Frame DEF Count, TypeOK, PlacesOK, PublishedIsLive, InCall, Threads, CallerPlaces, WorkerPlaces, InJob, InRunChunks
  <1>13. ASSUME NEW t \in Threads, Signal(t) PROVE JobInv'
    BY <1>13, <1>0, Frame DEF Signal, TypeOK, PlacesOK, PublishedIsLive, InCall, Threads, CallerPlaces, WorkerPlaces, InJob, InRunChunks, NotifyDone
  <1>14. ASSUME NEW w \in Workers, Look(w) PROVE JobInv'
    <2>1. CASE ~stop /\ HasWork(w)
      <3>0. PICK c \in Callers : c = currentJob
        BY <1>0, <2>1 DEF HasWork, TypeOK
      <3>1. /\ c = currentJob /\ job[c] \in Job
            /\ pc[c] \in {"notify"} \cup InRunChunks \cup {"retract"}
            /\ job[c].gen = generation
        BY <1>0, <2>1, <3>0 DEF HasWork, TypeOK, PublishedIsLive
      <3>2. /\ job' = [job EXCEPT ![c] = [job[c] EXCEPT !.inside = job[c].inside + 1]]
            /\ taken' = [taken EXCEPT ![w] = c]
            /\ seen' = [seen EXCEPT ![w] = generation]
            /\ pc' = [pc EXCEPT ![w] = "grab"] /\ pc[w] = "look"
            /\ UNCHANGED <<submit, currentJob, generation>>
        BY <1>14, <2>1, <3>0 DEF Look
      <3>3. \A d \in Callers : /\ job'[d].gen = job[d].gen
                              /\ job'[d].inside = IF d = c THEN job[d].inside + 1 ELSE job[d].inside
        BY <1>0, <3>1, <3>2 DEF TypeOK, Job
      <3>4. SubmitHeld'
        BY <1>0, <3>2 DEF SubmitHeld, InCall, TypeOK, PlacesOK, Threads, CallerPlaces, WorkerPlaces, InJob, InRunChunks
      <3>5. PublishedIsLive'
        BY <1>0, <3>1, <3>2, <3>3 DEF PublishedIsLive, TypeOK, PlacesOK, Threads, CallerPlaces, WorkerPlaces, InJob, InRunChunks
      <3>6. /\ w \notin Holders(c) /\ Holders(c)' = Holders(c) \cup {w}
            /\ \A d \in Callers \ {c} : Holders(d)' = Holders(d)
        BY <1>0, <3>1, <3>2 DEF Holders, TypeOK, PlacesOK, Threads, CallerPlaces, WorkerPlaces, InJob, InRunChunks
      <3>7. Cardinality(Holders(c) \cup {w}) = Cardinality(Holders(c)) + 1
        BY <3>6, HoldersFinite, FS_AddElement
      <3>8. InsideCounted'
        <4>1. job'[c].inside = Cardinality(Holders(c)')
          BY <1>0, <3>1, <3>3, <3>6, <3>7 DEF InsideCounted
        <4>2. \A d \in Callers \ {c} : job'[d].inside = Cardinality(Holders(d)')
          BY <1>0, <3>3, <3>6 DEF InsideCounted
        <4>. QED BY <4>1, <4>2 DEF InsideCounted
      <3>9. JobOutlivesWorkers'
        BY <1>0, <3>1, <3>2, <3>3 DEF JobOutlivesWorkers, InCall, TypeOK, PlacesOK, Threads, CallerPlaces, WorkerPlaces, InJob, InRunChunks
      <3>. QED BY <1>0, <3>4, <3>5, <3>8, <3>9 DEF JobInv
    <2>2. CASE stop \/ ~HasWork(w)
      BY <1>14, <1>0, <2>2, Frame DEF Look, TypeOK, PlacesOK, PublishedIsLive, InCall, Threads, CallerPlaces, WorkerPlaces, InJob, InRunChunks
    <2>. QED BY <2>1, <2>2
  <1>15. ASSUME NEW w \in Workers, Leave(w) PROVE JobInv'
    <2>0. PICK c \in Callers : c = taken[w]
      BY <1>15, <1>0 DEF Leave, TypeOK, PlacesOK, InJob
    <2>1. c = taken[w] /\ job[c] \in Job /\ pc[w] = "leave"
      BY <1>15, <1>0, <2>0 DEF Leave, TypeOK
    <2>2. PICK p \in {"signalLeft", "look"} : pc' = [pc EXCEPT ![w] = p]
      BY <1>15 DEF Leave
    <2>3. /\ job' = [job EXCEPT ![c] = [job[c] EXCEPT !.inside = job[c].inside - 1]]
          /\ taken' = [taken EXCEPT ![w] = Nobody]
          /\ UNCHANGED <<submit, currentJob, generation, seen>>
      BY <1>15, <2>0 DEF Leave
    <2>4. \A d \in Callers : /\ job'[d].gen = job[d].gen
                            /\ job'[d].inside = IF d = c THEN job[d].inside - 1 ELSE job[d].inside
      BY <1>0, <2>1, <2>3 DEF TypeOK, Job
    <2>5. SubmitHeld'
      BY <1>0, <2>2, <2>3 DEF SubmitHeld, InCall, TypeOK, PlacesOK, Threads, CallerPlaces, WorkerPlaces, InJob, InRunChunks
    <2>6. PublishedIsLive'
      BY <1>0, <2>2, <2>3, <2>4 DEF PublishedIsLive, TypeOK, PlacesOK, Threads, CallerPlaces, WorkerPlaces, InJob, InRunChunks
    <2>7. /\ w \in Holders(c) /\ Holders(c)' = Holders(c) \ {w}
          /\ \A d \in Callers \ {c} : Holders(d)' = Holders(d)
      <3>1. \A v \in Workers : /\ taken'[v] = IF v = w THEN Nobody ELSE taken[v]
                               /\ pc'[v] = IF v = w THEN p ELSE pc[v]
        BY <1>0, <2>2, <2>3 DEF TypeOK, PlacesOK, Threads
      <3>2. w \in Holders(c)
        BY <2>1 DEF Holders, InJob
      <3>3. Holders(c)' = Holders(c) \ {w}
        BY <2>1, <3>1 DEF Holders, InJob, InRunChunks
      <3>4. \A d \in Callers \ {c} : Holders(d)' = Holders(d)
        BY <2>1, <3>1 DEF Holders, InJob, InRunChunks
      <3>. QED BY <3>2, <3>3, <3>4
    <2>8. Cardinality(Holders(c) \ {w}) = Cardinality(Holders(c)) - 1
      BY <2>7, HoldersFinite, FS_RemoveElement
    <2>9. InsideCounted'
      <3>1. job'[c].inside = Cardinality(Holders(c)')
        BY <1>0, <2>1, <2>4, <2>7, <2>8 DEF InsideCounted
      <3>2. \A d \in Callers \ {c} : job'[d].inside = Cardinality(Holders(d)')
        BY <1>0, <2>4, <2>7 DEF InsideCounted
      <3>. QED BY <3>1, <3>2 DEF InsideCounted
    <2>10. JobOutlivesWorkers'
      BY <1>0, <2>2, <2>3, <2>4 DEF JobOutlivesWorkers, InCall, TypeOK, PlacesOK, Threads, CallerPlaces, WorkerPlaces, InJob, InRunChunks
    <2>. QED BY <1>0, <2>5, <2>6, <2>9, <2>10 DEF JobInv
  <1>16. ASSUME NEW w \in Workers, SignalLeft(w) PROVE JobInv'
    BY <1>16, <1>0, Frame DEF SignalLeft, TypeOK, PlacesOK, PublishedIsLive, InCall, Threads, CallerPlaces, WorkerPlaces, InJob, InRunChunks, NotifyDone
  <1>17. ASSUME NEW c \in Callers, NEW r \in Ranges, CallNothing(c, r) PROVE JobInv'
    <2>0. \A w \in Workers : pc[w] \in InJob => taken[w] # c
      BY <1>17, <1>0 DEF CallNothing, JobOutlivesWorkers, InCall
    <2>1. job' = [job EXCEPT ![c] = NewJob(r, 0)] /\ NewJob(r, 0).inside = 0
      BY <1>17 DEF CallNothing, NewJob
    <2>2. SubmitHeld'
      BY <1>17, <1>0 DEF CallNothing, SubmitHeld, InCall, TypeOK, PlacesOK, Threads, CallerPlaces, WorkerPlaces, InJob, InRunChunks
    <2>3. PublishedIsLive'
      BY <1>17, <1>0, <2>1 DEF CallNothing, PublishedIsLive, TypeOK, PlacesOK, Threads, CallerPlaces, WorkerPlaces, InJob, InRunChunks
    <2>4. /\ \A d \in Callers : Holders(d)' = Holders(d)
          /\ Holders(c) = {}
      BY <1>17, <1>0, <2>0 DEF CallNothing, Holders, TypeOK, PlacesOK, Threads, CallerPlaces, WorkerPlaces, InJob, InRunChunks
    <2>5. InsideCounted'
      BY <1>0, <2>1, <2>4, FS_EmptySet DEF InsideCounted, TypeOK
    <2>6. JobOutlivesWorkers'
      BY <1>17, <1>0, <2>0, <2>1 DEF CallNothing, JobOutlivesWorkers, InCall, TypeOK, PlacesOK, Threads, CallerPlaces, WorkerPlaces, InJob, InRunChunks
    <2>. QED BY <1>0, <2>2, <2>3, <2>5, <2>6 DEF JobInv
  <1>18. ASSUME NEW c \in Callers, NEW r \in Ranges, Call(c, r) PROVE JobInv'
    <2>0. \A w \in Workers : pc[w] \in InJob => taken[w] # c
      BY <1>18, <1>0 DEF Call, JobOutlivesWorkers, InCall
    <2>1. job' = [job EXCEPT ![c] = NewJob(r, 0)] /\ NewJob(r, 0).inside = 0
      BY <1>18 DEF Call, NewJob
    <2>2. SubmitHeld'
      BY <1>18, <1>0 DEF Call, SubmitHeld, InCall, TypeOK, PlacesOK, Threads, CallerPlaces, WorkerPlaces, InJob, InRunChunks
    <2>3. PublishedIsLive'
      BY <1>18, <1>0, <2>1 DEF Call, PublishedIsLive, TypeOK, PlacesOK, Threads, CallerPlaces, WorkerPlaces, InJob, InRunChunks
    <2>4. /\ \A d \in Callers : Holders(d)' = Holders(d)
          /\ Holders(c) = {}
      BY <1>18, <1>0, <2>0 DEF Call, Holders, TypeOK, PlacesOK, Threads, CallerPlaces, WorkerPlaces, InJob, InRunChunks
    <2>5. InsideCounted'
      BY <1>0, <2>1, <2>4, FS_EmptySet DEF InsideCounted, TypeOK
    <2>6. JobOutlivesWorkers'
      BY <1>18, <1>0, <2>0, <2>1 DEF Call, JobOutlivesWorkers, InCall, TypeOK, PlacesOK, Threads, CallerPlaces, WorkerPlaces, InJob, InRunChunks
    <2>. QED BY <1>0, <2>2, <2>3, <2>5, <2>6 DEF JobInv
  <1>19. ASSUME NEW t \in Threads, Spurious(t) PROVE JobInv'
    BY <1>19, <1>0, Frame DEF Spurious, TypeOK, PlacesOK, PublishedIsLive, InCall, Threads, CallerPlaces, WorkerPlaces, InJob, InRunChunks
  <1>20. CASE Destroy
    BY <1>20, <1>0, Frame DEF Destroy, TypeOK, PlacesOK, PublishedIsLive, InCall, Threads, CallerPlaces, WorkerPlaces, InJob, InRunChunks
  <1>21. CASE DestroyNotify
    BY <1>21, <1>0, Frame DEF DestroyNotify, TypeOK, PlacesOK, PublishedIsLive, InCall, Threads, CallerPlaces, WorkerPlaces, InJob, InRunChunks, NotifyWake
  <1>22. CASE Join
    BY <1>22, <1>0, Frame DEF Join, TypeOK, PlacesOK, PublishedIsLive, InCall, Threads, CallerPlaces, WorkerPlaces, InJob, InRunChunks
  <1>23. CASE UNCHANGED vars
    BY <1>23, <1>0, Frame DEF vars, TypeOK, PlacesOK, PublishedIsLive, InCall, Threads, CallerPlaces, WorkerPlaces, InJob, InRunChunks
  <1>. QED
    BY <1>1, <1>2, <1>3, <1>4, <1>5, <1>6, <1>7, <1>8, <1>9, <1>10, <1>11, <1>12, <1>13, <1>14, <1>15, <1>16, <1>17, <1>18, <1>19, <1>20, <1>21, <1>22, <1>23
    DEF Next, CallerStep, WorkerStep, DestructorStep, Gone, Threads

\* For every number of workers, callers and calls: a worker that still holds the
\* pointer of a Job holds the Job of the very call it took it from, and that call
\* has not returned.
THEOREM JobLifetime == Spec => []JobOutlivesWorkers
  <1>1. JobInv => JobOutlivesWorkers
    BY DEF JobInv
  <1>. QED BY JobInvInit, JobInvStep, <1>1, PTL DEF Spec

-----------------------------------------------------------------------------
(* The chunks cover the range. *)

\* The arithmetic of parallelFor does not wrap: the size of a chunk beyond the end of
\* the range is still a size_t.
NoWrap == \A r \in Ranges : r.end + Grain(r) <= Word

LEMMA DivIs ==
  ASSUME NEW a \in Nat, NEW g \in Nat \ {0}
  PROVE  a \div g \in Nat /\ (a \div g) * g <= a /\ a < (a \div g) * g + g
  OBVIOUS

LEMMA DivAtLeast ==
  ASSUME NEW a \in Nat, NEW g \in Nat \ {0}, NEW k \in Nat, k * g <= a
  PROVE  k <= a \div g
  <1>1. PICK q \in Nat : q = a \div g /\ a < q * g + g
    BY DivIs
  <1>2. ASSUME q + 1 <= k PROVE FALSE
    <2>1. PICK d \in Nat : k = q + 1 + d
      <3>1. k - (q + 1) \in Nat /\ k = q + 1 + (k - (q + 1))
        BY <1>2
      <3>. QED BY <3>1
    <2>2. k * g = q * g + g + d * g /\ d * g \in Nat /\ q * g \in Nat
      BY <2>1
    <2>. QED BY <1>1, <2>2
  <1>. QED BY <1>1, <1>2

LEMMA ModIs == ASSUME NEW a \in Nat, NEW w \in Nat, a < w PROVE a % w = a
  OBVIOUS

\* What the range is made of.
LEMMA RangeIs ==
  ASSUME NEW r \in Ranges
  PROVE  r.begin \in Nat /\ r.end \in Nat /\ Grain(r) \in Nat \ {0} /\ Word \in Nat
  BY SizesAssumption DEF Grain

\* Each index of the range is in a chunk, if nothing wraps.
LEMMA SlicesCover ==
  ASSUME NoWrap, NEW r \in Ranges, NEW x \in RangeIndices(r)
  PROVE  \E i \in 0 .. ChunkCount(r) - 1 : x \in Slice(r, i)
  <1>0. /\ r.begin \in Nat /\ r.end \in Nat /\ Grain(r) \in Nat \ {0} /\ Word \in Nat
        /\ r.end + Grain(r) <= Word
    BY RangeIs DEF NoWrap
  <1>1. x \in Nat /\ r.begin <= x /\ x < r.end /\ x \in 0 .. Word - 1
    BY <1>0 DEF RangeIndices, Indices
  <1>2. PICK g \in Nat \ {0} : g = Grain(r)
    BY <1>0
  <1>3. PICK d \in Nat : x = r.begin + d
    <2>1. x - r.begin \in Nat /\ x = r.begin + (x - r.begin)
      BY <1>0, <1>1
    <2>. QED BY <2>1
  <1>4. PICK i \in Nat : i * g <= d /\ d < i * g + g
    BY DivIs
  <1>5. PICK m \in Nat : m = i * g
    OBVIOUS
  <1>6. ChunkBegin(r, i) = r.begin + m
    <2>1. r.begin + m \in Nat /\ r.begin + m < Word
      BY <1>0, <1>1, <1>3, <1>4, <1>5
    <2>2. (r.begin + m) % Word = r.begin + m
      BY <1>0, <2>1, ModIs
    <2>. QED BY <1>2, <1>5, <2>2 DEF ChunkBegin
  <1>7. (ChunkBegin(r, i) + Grain(r)) % Word = r.begin + m + g
    <2>1. r.begin + m + g \in Nat /\ r.begin + m + g < Word
      BY <1>0, <1>1, <1>2, <1>3, <1>4, <1>5
    <2>2. (r.begin + m + g) % Word = r.begin + m + g
      BY <1>0, <2>1, ModIs
    <2>. QED BY <1>2, <1>6, <2>2
  <1>8. x < ChunkEnd(r, i)
    BY <1>0, <1>1, <1>3, <1>4, <1>5, <1>7 DEF ChunkEnd
  <1>9. x \in Slice(r, i)
    <2>1. ChunkBegin(r, i) <= x
      BY <1>0, <1>3, <1>4, <1>5, <1>6
    <2>. QED BY <1>1, <1>8, <2>1 DEF Slice
  <1>10. i \in 0 .. ChunkCount(r) - 1
    <2>1. PICK total \in Nat : total = r.end - r.begin /\ d + 1 <= total
      BY <1>0, <1>1, <1>3
    <2>2. (total + g - 1) % Word = total + g - 1 /\ total + g - 1 \in Nat
      <3>1. total + g - 1 \in Nat /\ total + g - 1 < Word
        BY <1>0, <1>2, <2>1
      <3>. QED BY <1>0, <3>1, ModIs
    <2>3. ChunkCount(r) = (total + g - 1) \div g
      BY <1>2, <2>1, <2>2 DEF ChunkCount
    <2>4. (i + 1) * g = m + g
      BY <1>5
    <2>5. (i + 1) * g <= total + g - 1
      BY <1>4, <1>5, <2>1, <2>4
    <2>6. i + 1 <= (total + g - 1) \div g /\ (total + g - 1) \div g \in Nat
      BY <2>2, <2>5, DivIs, DivAtLeast
    <2>. QED BY <2>3, <2>6
  <1>. QED BY <1>9, <1>10

-----------------------------------------------------------------------------
(* Who returns has had its chunks run. *)

\* The threads that hold a chunk of caller c's Job, and the chunks given out so far.
Doing(c) == {t \in Threads : pc[t] \in {"run", "count"} /\ JobOf(t) = c}
Given(j) == IF j.next < ChunkCount(j.range) THEN j.next ELSE ChunkCount(j.range)

\* remainingChunks counts the chunks nobody has taken and those somebody holds.
Counted ==
    \A c \in Callers :
        job[c].remaining = ChunkCount(job[c].range) - Given(job[c]) + Cardinality(Doing(c))

\* A chunk given out was run on, or is being run on, unless the body threw.
Ran(c, i) == \A x \in Slice(job[c].range, i) : ran[c][x] # 0
Covered ==
    \A c \in Callers : \A i \in 0 .. Given(job[c]) - 1 :
        \/ \E t \in Threads : pc[t] = "run" /\ JobOf(t) = c /\ chunk[t] = i
        \/ job[c].failed \/ Ran(c, i)

\* The body throws in a published Job only.
Fresh == \A c \in Callers : pc[c] \in {"idle", "submit", "publish"} => ~job[c].failed

\* Who has seen remainingChunks at zero finds it there.
Emptied == \A c \in Callers : pc[c] \in {"checkInside", "return"} => job[c].remaining = 0

ChunkInv == JobInv /\ Counted /\ Covered /\ Fresh /\ Emptied

LEMMA ChunkInvParts ==
  ASSUME ChunkInv PROVE JobInv /\ TypeOK /\ JobOutlivesWorkers /\ SubmitHeld /\ Counted /\ Covered /\ Fresh /\ Emptied
  BY JobInvParts DEF ChunkInv

\* A range has a number of chunks, of which some were given out.
LEMMA GivenIs ==
  ASSUME NEW j \in Job
  PROVE  ChunkCount(j.range) \in Nat /\ Given(j) \in 0 .. ChunkCount(j.range) /\ j.range \in Ranges /\ j.next \in Nat
         /\ j.remaining \in Int /\ j.failed \in BOOLEAN
  <1>1. j.range \in Ranges /\ j.next \in Nat /\ j.remaining \in Int /\ j.failed \in BOOLEAN
    BY DEF Job
  <1>2. NewJob(j.range, 0) \in Job
    BY <1>1, NewJobType
  <1>3. ChunkCount(j.range) \in Nat
    <2>1. PICK r \in Ranges : r = j.range
      BY <1>1
    <2>2. Grain(r) \in Nat \ {0} /\ r.end - r.begin + Grain(r) - 1 \in Int
      BY SizesAssumption DEF Grain
    <2>3. (r.end - r.begin + Grain(r) - 1) % Word \in Nat
      BY <2>2, SizesAssumption
    <2>. QED BY <2>1, <2>2, <2>3 DEF ChunkCount
  <1>. QED BY <1>1, <1>3 DEF Given

\* Finitely many threads hold chunks of one Job: workers, and its owner.
LEMMA DoingFinite == ASSUME NEW c \in Callers PROVE IsFiniteSet(Doing(c)) /\ Cardinality(Doing(c)) \in Nat
  <1>1. Doing(c) \subseteq Workers \cup {c}
    BY DEF Doing, JobOf, Threads
  <1>2. IsFiniteSet(Workers \cup {c})
    BY ThreadsAssumption, FS_AddElement
  <1>. QED BY <1>1, <1>2, FS_Subset, FS_CardinalityType

\* Steps that give out no chunk, run none and count none keep what is said of chunks.
LEMMA ChunkFrame ==
  ASSUME ChunkInv, JobInv', ran' = ran,
         \A c \in Callers : /\ job'[c].range = job[c].range /\ Given(job'[c]) = Given(job[c])
                            /\ job'[c].remaining = job[c].remaining /\ job'[c].failed = job[c].failed,
         \A t \in Threads : pc'[t] \in {"run", "count"} \/ pc[t] \in {"run", "count"} =>
             pc'[t] = pc[t] /\ JobOf(t)' = JobOf(t) /\ chunk'[t] = chunk[t],
         \A c \in Callers : pc'[c] \in {"idle", "submit", "publish"} => pc[c] \in {"idle", "submit", "publish"},
         \A c \in Callers : pc'[c] \in {"checkInside", "return"} =>
             pc[c] \in {"checkInside", "return"} \/ job[c].remaining = 0
  PROVE  ChunkInv'
  <1>0. Counted /\ Covered /\ Fresh /\ Emptied
    BY ChunkInvParts
  <1>1. \A c \in Callers : Doing(c)' = Doing(c)
    BY DEF Doing
  <1>2. \A c \in Callers : Given(job[c])' = Given(job[c])
    OBVIOUS
  <1>3. Counted'
    BY <1>0, <1>1, <1>2 DEF Counted
  <1>4. Covered'
    <2>. SUFFICES ASSUME NEW c \in Callers, NEW i \in 0 .. Given(job[c])' - 1
                  PROVE  (\/ \E t \in Threads : pc[t] = "run" /\ JobOf(t) = c /\ chunk[t] = i
                          \/ job[c].failed \/ Ran(c, i))'
      BY DEF Covered
    <2>1. \/ \E t \in Threads : pc[t] = "run" /\ JobOf(t) = c /\ chunk[t] = i
          \/ job[c].failed \/ Ran(c, i)
      BY <1>0, <1>2 DEF Covered
    <2>2. Ran(c, i) => Ran(c, i)'
      BY DEF Ran
    <2>. QED BY <2>1, <2>2
  <1>5. Fresh' /\ Emptied'
    BY <1>0 DEF Fresh, Emptied
  <1>. QED BY <1>3, <1>4, <1>5 DEF ChunkInv

\* What a new Job starts with.
LEMMA NewJobIs ==
  ASSUME NEW r \in Ranges
  PROVE  /\ ChunkCount(r) \in Nat /\ NewJob(r, 0).range = r /\ NewJob(r, 0).next = 0
         /\ NewJob(r, 0).remaining = ChunkCount(r) /\ NewJob(r, 0).failed = FALSE
         /\ Given(NewJob(r, 0)) = 0
  <1>1. /\ NewJob(r, 0).range = r /\ NewJob(r, 0).next = 0
        /\ NewJob(r, 0).remaining = ChunkCount(r) /\ NewJob(r, 0).failed = FALSE
    BY DEF NewJob
  <1>2. NewJob(r, 0) \in Job
    BY NewJobType
  <1>3. ChunkCount(NewJob(r, 0).range) \in Nat
    BY <1>2, GivenIs
  <1>. QED BY <1>1, <1>3 DEF Given

LEMMA ChunkInvInit == Init => ChunkInv
  <1>. SUFFICES ASSUME Init PROVE ChunkInv
    OBVIOUS
  <1>1. JobInv /\ TypeOK
    BY JobInvInit, JobInvParts
  <1>2. PICK r \in Ranges : job = [c \in Callers |-> NewJob(r, 0)]
    BY DEF Init
  <1>3. \A t \in Threads : pc[t] \in {"look", "idle"}
    BY DEF Init
  <1>4. \A c \in Callers : Doing(c) = {} /\ pc[c] \in {"look", "idle"}
    BY <1>3 DEF Doing, Threads
  <1>5. /\ ChunkCount(r) \in Nat /\ NewJob(r, 0).range = r
        /\ NewJob(r, 0).remaining = ChunkCount(r) /\ NewJob(r, 0).failed = FALSE
    BY NewJobIs
  <1>6. Given(NewJob(r, 0)) = 0
    BY NewJobIs
  <1>7. Counted
    <2>. SUFFICES ASSUME NEW c \in Callers
                  PROVE  job[c].remaining = ChunkCount(job[c].range) - Given(job[c]) + Cardinality(Doing(c))
      BY DEF Counted
    <2>1. job[c] = NewJob(r, 0) /\ Cardinality(Doing(c)) = 0
      BY <1>2, <1>4, FS_EmptySet
    <2>. QED BY <1>5, <1>6, <2>1
  <1>8. Covered
    BY <1>2, <1>6 DEF Covered
  <1>9. Fresh /\ Emptied
    BY <1>2, <1>4, <1>5 DEF Fresh, Emptied
  <1>. QED BY <1>1, <1>7, <1>8, <1>9 DEF ChunkInv

\* A caller that begins or ends a call has a new Job, which nobody works on.
LEMMA ChunkReset ==
  ASSUME ChunkInv, JobInv', NEW c \in Callers, NEW r \in Ranges, pc[c] \in {"idle", "return"},
         NEW p \in {"idle", "submit"}, pc' = [pc EXCEPT ![c] = p],
         job' = [job EXCEPT ![c] = NewJob(r, 0)], taken' = taken, chunk' = chunk,
         \A d \in Callers \ {c} : ran'[d] = ran[d]
  PROVE  ChunkInv'
  <1>0. /\ TypeOK /\ JobOutlivesWorkers /\ Counted /\ Covered /\ Fresh /\ Emptied
    BY ChunkInvParts
  <1>1. /\ \A d \in Callers \ {c} : pc'[d] = pc[d] /\ job'[d] = job[d]
        /\ \A t \in Threads \ {c} : pc'[t] = pc[t]
        /\ pc'[c] = p /\ job'[c] = NewJob(r, 0) /\ c \notin Workers
    BY <1>0, ThreadsAssumption DEF TypeOK, PlacesOK, Threads
  <1>2. /\ ChunkCount(r) \in Nat /\ NewJob(r, 0).range = r
        /\ NewJob(r, 0).remaining = ChunkCount(r) /\ NewJob(r, 0).failed = FALSE
    BY NewJobIs
  <1>3. Given(NewJob(r, 0)) = 0
    BY NewJobIs
  <1>4. \A w \in Workers : pc[w] \in {"run", "count"} => taken[w] # c
    BY <1>0 DEF JobOutlivesWorkers, InJob, InRunChunks, InCall, CallerPlaces
  <1>5. Doing(c)' = {}
    BY <1>1, <1>4 DEF Doing, JobOf, Threads
  <1>6. \A d \in Callers \ {c} : Doing(d)' = Doing(d)
    <2>. SUFFICES ASSUME NEW d \in Callers \ {c} PROVE Doing(d)' = Doing(d)
      OBVIOUS
    <2>1. \A t \in Threads : t \in Doing(d)' <=> t \in Doing(d)
      BY <1>1 DEF Doing, JobOf
    <2>. QED BY <2>1 DEF Doing
  <1>7. Counted'
    <2>. SUFFICES ASSUME NEW d \in Callers
                  PROVE  (job[d].remaining = ChunkCount(job[d].range) - Given(job[d]) + Cardinality(Doing(d)))'
      BY DEF Counted
    <2>1. CASE d = c
      <3>1. Cardinality(Doing(c))' = 0
        BY <1>5, FS_EmptySet
      <3>. QED BY <1>1, <1>2, <1>3, <2>1, <3>1
    <2>2. CASE d # c
      BY <1>0, <1>1, <1>6, <2>2 DEF Counted
    <2>. QED BY <2>1, <2>2
  <1>8. Covered'
    <2>. SUFFICES ASSUME NEW d \in Callers, NEW i \in 0 .. Given(job[d])' - 1
                  PROVE  (\/ \E t \in Threads : pc[t] = "run" /\ JobOf(t) = d /\ chunk[t] = i
                          \/ job[d].failed \/ Ran(d, i))'
      BY DEF Covered
    <2>1. d # c
      BY <1>1, <1>3
    <2>2. \/ \E t \in Threads : pc[t] = "run" /\ JobOf(t) = d /\ chunk[t] = i
          \/ job[d].failed \/ Ran(d, i)
      BY <1>0, <1>1, <2>1 DEF Covered
    <2>3. Ran(d, i) => Ran(d, i)'
      BY <1>1, <2>1 DEF Ran
    <2>4. \A t \in Threads : pc[t] = "run" /\ JobOf(t) = d => pc'[t] = "run" /\ JobOf(t)' = d
      BY <1>1, <2>1 DEF JobOf
    <2>. QED BY <1>1, <2>1, <2>2, <2>3, <2>4
  <1>9. Fresh' /\ Emptied'
    BY <1>0, <1>1, <1>2 DEF Fresh, Emptied
  <1>. QED BY <1>7, <1>8, <1>9 DEF ChunkInv

\* A thread that takes a chunk holds it.
LEMMA ChunkGrab ==
  ASSUME ChunkInv, JobInv', NEW t \in Threads, Grab(t) PROVE ChunkInv'
  <1>0. /\ TypeOK /\ JobOutlivesWorkers /\ Counted /\ Covered /\ Fresh /\ Emptied
    BY ChunkInvParts
  <1>a. pc[t] = "grab" /\ taken' = taken /\ ran' = ran
    BY DEF Grab, At, workerVars, outcome
  <1>b. PICK j \in Callers : j = JobOf(t)
    BY <1>0, <1>a, JobOfType DEF InJob, InRunChunks
  <1>1. pc[t] = "grab" /\ j \in Callers /\ job[j] \in Job /\ taken' = taken /\ ran' = ran
    BY <1>0, <1>a DEF TypeOK
  <1>2. /\ ChunkCount(job[j].range) \in Nat /\ Given(job[j]) \in 0 .. ChunkCount(job[j].range)
        /\ job[j].next \in Nat
    BY <1>1, GivenIs
  <1>3. /\ job'[j].next = job[j].next + 1 /\ job'[j].range = job[j].range
        /\ job'[j].remaining = job[j].remaining /\ job'[j].failed = job[j].failed
        /\ \A d \in Callers \ {j} : job'[d] = job[d]
    <2>1. job' = [job EXCEPT ![j] = [job[j] EXCEPT !.next = job[j].next + 1]]
      BY <1>b DEF Grab
    <2>2. job'[j] = [job[j] EXCEPT !.next = job[j].next + 1] /\ \A d \in Callers \ {j} : job'[d] = job[d]
      BY <1>0, <1>1, <2>1 DEF TypeOK
    <2>. QED BY <1>1, <2>2 DEF Job
  <1>4. \A u \in Threads \ {t} : pc'[u] = pc[u] /\ chunk'[u] = chunk[u] /\ JobOf(u)' = JobOf(u)
    BY <1>0, <1>1 DEF Grab, Goto, TypeOK, PlacesOK, JobOf
  <1>5. JobOf(t)' = j
    BY <1>1, <1>b DEF JobOf
  <1>6. CASE job[j].next < ChunkCount(job[j].range)
    <2>1. pc'[t] = "run" /\ chunk'[t] = job[j].next
      BY <1>0, <1>6, <1>b DEF Grab, Goto, TypeOK, PlacesOK
    <2>2. Given(job[j]) = job[j].next /\ Given(job'[j]) = job[j].next + 1
      BY <1>2, <1>3, <1>6 DEF Given
    <2>3. Doing(j)' = Doing(j) \cup {t} /\ t \notin Doing(j)
      <3>1. \A u \in Threads : u \in Doing(j)' <=> u \in Doing(j) \/ u = t
        BY <1>4, <1>5, <2>1 DEF Doing
      <3>. QED BY <1>1, <3>1 DEF Doing
    <2>4. \A d \in Callers \ {j} : Doing(d)' = Doing(d)
      <3>. SUFFICES ASSUME NEW d \in Callers \ {j} PROVE Doing(d)' = Doing(d)
        OBVIOUS
      <3>1. \A u \in Threads : u \in Doing(d)' <=> u \in Doing(d)
        BY <1>1, <1>4, <1>5, <1>b DEF Doing
      <3>. QED BY <3>1 DEF Doing
    <2>5. Cardinality(Doing(j)') = Cardinality(Doing(j)) + 1 /\ Cardinality(Doing(j)) \in Nat
      BY <1>1, <2>3, DoingFinite, FS_AddElement
    <2>6. Counted'
      <3>. SUFFICES ASSUME NEW d \in Callers
                    PROVE  job'[d].remaining = ChunkCount(job'[d].range) - Given(job'[d]) + Cardinality(Doing(d)')
        BY DEF Counted
      <3>1. CASE d = j
        <4>1. job[j].remaining = ChunkCount(job[j].range) - Given(job[j]) + Cardinality(Doing(j))
          BY <1>0, <1>1 DEF Counted
        <4>. QED BY <1>2, <1>3, <2>2, <2>5, <3>1, <4>1
      <3>2. CASE d # j
        BY <1>0, <1>3, <2>4, <3>2 DEF Counted
      <3>. QED BY <3>1, <3>2
    <2>7. Covered'
      <3>. SUFFICES ASSUME NEW d \in Callers, NEW i \in 0 .. Given(job[d])' - 1
                    PROVE  (\/ \E u \in Threads : pc[u] = "run" /\ JobOf(u) = d /\ chunk[u] = i
                            \/ job[d].failed \/ Ran(d, i))'
        BY DEF Covered
      <3>1. CASE d = j /\ i = job[j].next
        BY <1>5, <2>1, <3>1
      <3>2. CASE ~(d = j /\ i = job[j].next)
        <4>1. i \in 0 .. Given(job[d]) - 1
          BY <1>2, <1>3, <2>2, <3>2
        <4>2. \/ \E u \in Threads : pc[u] = "run" /\ JobOf(u) = d /\ chunk[u] = i
              \/ job[d].failed \/ Ran(d, i)
          BY <1>0, <4>1 DEF Covered
        <4>3. job'[d].range = job[d].range /\ job'[d].failed = job[d].failed
          BY <1>3
        <4>4. Ran(d, i) => Ran(d, i)'
          BY <1>1, <4>3 DEF Ran
        <4>5. \A u \in Threads : pc[u] = "run" => u # t
          BY <1>1
        <4>. QED BY <1>4, <4>2, <4>3, <4>4, <4>5
      <3>. QED BY <3>1, <3>2
    <2>8. Fresh' /\ Emptied'
      <3>1. \A d \in Callers : job'[d].remaining = job[d].remaining /\ job'[d].failed = job[d].failed
        BY <1>3
      <3>2. \A d \in Callers : d = t \/ pc'[d] = pc[d]
        BY <1>4 DEF Threads
      <3>. QED BY <1>0, <2>1, <3>1, <3>2 DEF Fresh, Emptied
    <2>. QED BY <2>6, <2>7, <2>8 DEF ChunkInv
  <1>7. CASE ~(job[j].next < ChunkCount(job[j].range))
    <2>1. pc'[t] \in {"retract", "leave"} /\ chunk' = chunk
      BY <1>0, <1>7, <1>b DEF Grab, Goto, TypeOK, PlacesOK
    <2>2. Given(job'[j]) = Given(job[j])
      BY <1>2, <1>3, <1>7 DEF Given
    <2>3. \A c \in Callers : /\ job'[c].range = job[c].range /\ Given(job'[c]) = Given(job[c])
                             /\ job'[c].remaining = job[c].remaining /\ job'[c].failed = job[c].failed
      BY <1>3, <2>2
    <2>4. \A u \in Threads : pc'[u] \in {"run", "count"} \/ pc[u] \in {"run", "count"} =>
             pc'[u] = pc[u] /\ JobOf(u)' = JobOf(u) /\ chunk'[u] = chunk[u]
      BY <1>1, <1>4, <2>1
    <2>5. \A c \in Callers : c = t \/ pc'[c] = pc[c]
      BY <1>4 DEF Threads
    <2>6. /\ \A c \in Callers : pc'[c] \in {"idle", "submit", "publish"} => pc[c] \in {"idle", "submit", "publish"}
          /\ \A c \in Callers : pc'[c] \in {"checkInside", "return"} =>
                pc[c] \in {"checkInside", "return"} \/ job[c].remaining = 0
      BY <2>1, <2>5
    <2>. QED BY <1>1, <2>3, <2>4, <2>6, ChunkFrame
  <1>. QED BY <1>6, <1>7

\* The body ran on the chunk, or somebody's body threw.
LEMMA ChunkRun ==
  ASSUME ChunkInv, JobInv', NEW t \in Threads, Run(t) PROVE ChunkInv'
  <1>0. /\ TypeOK /\ JobOutlivesWorkers /\ Counted /\ Covered /\ Fresh /\ Emptied
    BY ChunkInvParts
  <1>a. pc[t] = "run" /\ taken' = taken /\ chunk' = chunk
    BY DEF Run, At, workerVars
  <1>b. PICK j \in Callers : j = JobOf(t)
    BY <1>0, <1>a, JobOfType DEF InJob, InRunChunks
  <1>1. job[j] \in Job
    BY <1>0 DEF TypeOK
  <1>2. /\ pc'[t] = "count" /\ \A u \in Threads \ {t} : pc'[u] = pc[u]
        /\ \A u \in Threads : JobOf(u)' = JobOf(u)
    BY <1>0, <1>a DEF Run, Goto, TypeOK, PlacesOK, JobOf
  <1>3. job' = job \/ job' = [job EXCEPT ![j] = [job[j] EXCEPT !.failed = TRUE]]
    BY <1>b DEF Run
  <1>4. \A d \in Callers :
            /\ job'[d].range = job[d].range /\ Given(job'[d]) = Given(job[d])
            /\ job'[d].remaining = job[d].remaining
            /\ (job[d].failed => job'[d].failed) /\ (job'[d].failed => job[d].failed \/ d = j)
    <2>. SUFFICES ASSUME NEW d \in Callers
                  PROVE  /\ job'[d].range = job[d].range /\ Given(job'[d]) = Given(job[d])
                         /\ job'[d].remaining = job[d].remaining
                         /\ (job[d].failed => job'[d].failed) /\ (job'[d].failed => job[d].failed \/ d = j)
      OBVIOUS
    <2>1. job'[d] = job[d] \/ (d = j /\ job'[d] = [job[j] EXCEPT !.failed = TRUE])
      BY <1>0, <1>3 DEF TypeOK
    <2>2. CASE job'[d] = job[d]
      BY <2>2
    <2>3. CASE d = j /\ job'[d] = [job[j] EXCEPT !.failed = TRUE]
      <3>1. job'[d].range = job[d].range /\ job'[d].next = job[d].next
            /\ job'[d].remaining = job[d].remaining /\ job'[d].failed = TRUE
        BY <1>1, <2>3 DEF Job
      <3>. QED BY <2>3, <3>1 DEF Given
    <2>. QED BY <2>1, <2>2, <2>3
  <1>5. \A d \in Callers : \A x \in Indices : ran[d][x] # 0 => ran'[d][x] # 0
    <2>. SUFFICES ASSUME NEW d \in Callers, NEW x \in Indices, ran[d][x] # 0, ran' # ran
                  PROVE  ran'[d][x] # 0
      OBVIOUS
    <2>1. ran[d][x] \in Nat
      BY <1>0 DEF TypeOK
    <2>2. ran' = [ran EXCEPT ![j] = [y \in Indices |->
                     ran[j][y] + IF y \in Slice(job[j].range, chunk[t]) THEN 1 ELSE 0]]
      BY <1>b DEF Run
    <2>3. ran'[d][x] = ran[d][x] \/ ran'[d][x] = ran[d][x] + 1
      <3>1. CASE d # j
        BY <2>2, <3>1 DEF TypeOK
      <3>2. CASE d = j
        <4>1. ran'[j] = [y \in Indices |-> ran[j][y] + IF y \in Slice(job[j].range, chunk[t]) THEN 1 ELSE 0]
          BY <1>0, <2>2 DEF TypeOK
        <4>2. ran'[j][x] = ran[j][x] + IF x \in Slice(job[j].range, chunk[t]) THEN 1 ELSE 0
          BY <4>1
        <4>. QED BY <2>1, <3>2, <4>2
      <3>. QED BY <3>1, <3>2
    <2>. QED BY <2>1, <2>3
  <1>6. Ran(j, chunk[t])' \/ job'[j].failed
    <2>1. CASE ran' = [ran EXCEPT ![j] = [y \in Indices |->
                     ran[j][y] + IF y \in Slice(job[j].range, chunk[t]) THEN 1 ELSE 0]]
      <3>. SUFFICES ASSUME NEW x \in Slice(job[j].range, chunk[t]) PROVE ran'[j][x] # 0
        BY <1>a, <1>4 DEF Ran
      <3>1. x \in Indices /\ ran[j][x] \in Nat
        BY <1>0 DEF TypeOK, Slice, Indices
      <3>2. ran'[j] = [y \in Indices |-> ran[j][y] + IF y \in Slice(job[j].range, chunk[t]) THEN 1 ELSE 0]
        BY <1>0, <2>1 DEF TypeOK
      <3>3. ran'[j][x] = ran[j][x] + 1
        BY <3>1, <3>2
      <3>. QED BY <3>1, <3>3
    <2>2. CASE job[j].failed /\ UNCHANGED <<ran, job>>
      BY <2>2
    <2>. QED BY <1>b, <2>1, <2>2 DEF Run
  <1>7. Counted'
    <2>. SUFFICES ASSUME NEW d \in Callers
                  PROVE  job'[d].remaining = ChunkCount(job'[d].range) - Given(job'[d]) + Cardinality(Doing(d)')
      BY DEF Counted
    <2>1. \A u \in Threads : u \in Doing(d)' <=> u \in Doing(d)
      BY <1>a, <1>2 DEF Doing
    <2>2. Doing(d)' = Doing(d)
      BY <2>1 DEF Doing
    <2>. QED BY <1>0, <1>4, <2>2 DEF Counted
  <1>8. Covered'
    <2>. SUFFICES ASSUME NEW d \in Callers, NEW i \in 0 .. Given(job[d])' - 1
                  PROVE  (\/ \E u \in Threads : pc[u] = "run" /\ JobOf(u) = d /\ chunk[u] = i
                          \/ job[d].failed \/ Ran(d, i))'
      BY DEF Covered
    <2>1. i \in 0 .. Given(job[d]) - 1
      BY <1>4
    <2>2. \/ \E u \in Threads : pc[u] = "run" /\ JobOf(u) = d /\ chunk[u] = i
          \/ job[d].failed \/ Ran(d, i)
      BY <1>0, <2>1 DEF Covered
    <2>3. CASE job[d].failed
      BY <1>4, <2>3
    <2>4. CASE Ran(d, i)
      <3>1. Ran(d, i)'
        BY <1>4, <1>5, <2>4 DEF Ran, Slice, Indices
      <3>. QED BY <3>1
    <2>5. ASSUME NEW u \in Threads, pc[u] = "run", JobOf(u) = d, chunk[u] = i
          PROVE  (\/ \E v \in Threads : pc[v] = "run" /\ JobOf(v) = d /\ chunk[v] = i
                  \/ job[d].failed \/ Ran(d, i))'
      <3>1. CASE u = t
        <4>1. d = j /\ chunk[t] = i /\ chunk' = chunk
          BY <1>a, <1>b, <2>5, <3>1
        <4>2. Ran(d, i)' \/ job'[d].failed
          BY <1>6, <4>1
        <4>. QED BY <4>2
      <3>2. CASE u # t
        BY <1>a, <1>2, <2>5, <3>2
      <3>. QED BY <3>1, <3>2
    <2>. QED BY <2>2, <2>3, <2>4, <2>5
  <1>9. Fresh'
    <2>. SUFFICES ASSUME NEW d \in Callers, pc'[d] \in {"idle", "submit", "publish"} PROVE ~job'[d].failed
      BY DEF Fresh
    <2>1. d # t /\ pc[d] \in {"idle", "submit", "publish"}
      BY <1>2 DEF Threads
    <2>2. d # j
      <3>1. CASE t \in Callers
        BY <1>b, <2>1, <3>1 DEF JobOf
      <3>2. CASE t \in Workers
        <4>1. j = taken[t] /\ pc[t] \in InJob
          BY <1>a, <1>b, <3>2, ThreadsAssumption DEF JobOf, InJob, InRunChunks
        <4>2. pc[j] \in InCall \ {"publish", "return"}
          BY <1>0, <3>2, <4>1 DEF JobOutlivesWorkers
        <4>. QED BY <2>1, <4>2 DEF InCall, CallerPlaces
      <3>. QED BY <3>1, <3>2 DEF Threads
    <2>. QED BY <1>0, <1>4, <2>1, <2>2 DEF Fresh
  <1>10. Emptied'
    <2>. SUFFICES ASSUME NEW d \in Callers, pc'[d] \in {"checkInside", "return"} PROVE job'[d].remaining = 0
      BY DEF Emptied
    <2>1. pc[d] \in {"checkInside", "return"}
      BY <1>2 DEF Threads
    <2>. QED BY <1>0, <1>4, <2>1 DEF Emptied
  <1>. QED BY <1>7, <1>8, <1>9, <1>10 DEF ChunkInv

\* A chunk counted is held by nobody, and the last one leaves nothing.
LEMMA ChunkCounted ==
  ASSUME ChunkInv, JobInv', NEW t \in Threads, Count(t) PROVE ChunkInv'
  <1>0. /\ TypeOK /\ JobOutlivesWorkers /\ Counted /\ Covered /\ Fresh /\ Emptied
    BY ChunkInvParts
  <1>a. pc[t] = "count" /\ taken' = taken /\ ran' = ran
    BY DEF Count, At, workerVars, outcome
  <1>b. PICK j \in Callers : j = JobOf(t)
    BY <1>0, <1>a, JobOfType DEF InJob, InRunChunks
  <1>1. job[j] \in Job
    BY <1>0 DEF TypeOK
  <1>2. /\ ChunkCount(job[j].range) \in Nat /\ Given(job[j]) \in 0 .. ChunkCount(job[j].range)
        /\ job[j].remaining \in Int
    BY <1>1, GivenIs
  <1>3. /\ job'[j].next = job[j].next /\ job'[j].range = job[j].range
        /\ job'[j].remaining = job[j].remaining - 1 /\ job'[j].failed = job[j].failed
        /\ \A d \in Callers \ {j} : job'[d] = job[d]
    <2>1. job' = [job EXCEPT ![j] = [job[j] EXCEPT !.remaining = job[j].remaining - 1]]
      BY <1>b DEF Count
    <2>2. job'[j] = [job[j] EXCEPT !.remaining = job[j].remaining - 1] /\ \A d \in Callers \ {j} : job'[d] = job[d]
      BY <1>0, <2>1 DEF TypeOK
    <2>. QED BY <1>1, <2>2 DEF Job
  <1>4. /\ \A u \in Threads \ {t} : pc'[u] = pc[u] /\ chunk'[u] = chunk[u]
        /\ \A u \in Threads : JobOf(u)' = JobOf(u)
        /\ pc'[t] \in {"signal", "grab"}
    BY <1>0, <1>a DEF Count, Goto, TypeOK, PlacesOK, JobOf
  <1>5. \A d \in Callers : /\ job'[d].range = job[d].range /\ Given(job'[d]) = Given(job[d])
                           /\ job'[d].failed = job[d].failed
    BY <1>3 DEF Given
  <1>6. Doing(j)' = Doing(j) \ {t} /\ t \in Doing(j)
    <2>1. \A u \in Threads : u \in Doing(j)' <=> u \in Doing(j) /\ u # t
      BY <1>4 DEF Doing
    <2>. QED BY <1>a, <1>b, <2>1 DEF Doing
  <1>7. Cardinality(Doing(j)') = Cardinality(Doing(j)) - 1 /\ Cardinality(Doing(j)) \in Nat \ {0}
    <2>1. Doing(j) # {} /\ IsFiniteSet(Doing(j)) /\ Cardinality(Doing(j)) \in Nat
      BY <1>6, DoingFinite
    <2>2. Cardinality(Doing(j)) # 0
      BY <2>1, FS_EmptySet
    <2>. QED BY <1>6, <2>1, <2>2, FS_RemoveElement
  <1>8. Counted'
    <2>. SUFFICES ASSUME NEW d \in Callers
                  PROVE  job'[d].remaining = ChunkCount(job'[d].range) - Given(job'[d]) + Cardinality(Doing(d)')
      BY DEF Counted
    <2>1. CASE d = j
      <3>1. job[j].remaining = ChunkCount(job[j].range) - Given(job[j]) + Cardinality(Doing(j))
        BY <1>0 DEF Counted
      <3>. QED BY <1>2, <1>3, <1>5, <1>7, <2>1, <3>1
    <2>2. CASE d # j
      <3>1. \A u \in Threads : u \in Doing(d)' <=> u \in Doing(d)
        BY <1>b, <1>4, <2>2 DEF Doing
      <3>2. Doing(d)' = Doing(d)
        BY <3>1 DEF Doing
      <3>. QED BY <1>0, <1>3, <2>2, <3>2 DEF Counted
    <2>. QED BY <2>1, <2>2
  <1>9. Covered'
    <2>. SUFFICES ASSUME NEW d \in Callers, NEW i \in 0 .. Given(job[d])' - 1
                  PROVE  (\/ \E u \in Threads : pc[u] = "run" /\ JobOf(u) = d /\ chunk[u] = i
                          \/ job[d].failed \/ Ran(d, i))'
      BY DEF Covered
    <2>1. \/ \E u \in Threads : pc[u] = "run" /\ JobOf(u) = d /\ chunk[u] = i
          \/ job[d].failed \/ Ran(d, i)
      BY <1>0, <1>5 DEF Covered
    <2>2. Ran(d, i) => Ran(d, i)'
      BY <1>a, <1>5 DEF Ran
    <2>. QED BY <1>a, <1>4, <1>5, <2>1, <2>2
  <1>10. Fresh'
    <2>. SUFFICES ASSUME NEW d \in Callers, pc'[d] \in {"idle", "submit", "publish"} PROVE ~job'[d].failed
      BY DEF Fresh
    <2>1. pc[d] = pc'[d]
      BY <1>4 DEF Threads
    <2>. QED BY <1>0, <1>5, <2>1 DEF Fresh
  <1>11. Emptied'
    <2>. SUFFICES ASSUME NEW d \in Callers, pc'[d] \in {"checkInside", "return"} PROVE job'[d].remaining = 0
      BY DEF Emptied
    <2>1. pc[d] = pc'[d]
      BY <1>4 DEF Threads
    <2>2. job[d].remaining = 0
      BY <1>0, <2>1 DEF Emptied
    <2>3. CASE d = j
      <3>1. job[j].remaining = ChunkCount(job[j].range) - Given(job[j]) + Cardinality(Doing(j))
        BY <1>0 DEF Counted
      <3>. QED BY <1>2, <1>7, <2>2, <2>3, <3>1
    <2>. QED BY <1>3, <2>2, <2>3
  <1>. QED BY <1>8, <1>9, <1>10, <1>11 DEF ChunkInv

\* What a step changes of a Job that has no say in its chunks.
LEMMA SameChunks ==
  ASSUME TypeOK, NEW j \in Callers, NEW n,
         job' = job \/ job' = [job EXCEPT ![j].gen = n] \/ job' = [job EXCEPT ![j].inside = n]
  PROVE  \A c \in Callers : /\ job'[c].range = job[c].range /\ Given(job'[c]) = Given(job[c])
                            /\ job'[c].remaining = job[c].remaining /\ job'[c].failed = job[c].failed
  <1>. SUFFICES ASSUME NEW c \in Callers
                PROVE  /\ job'[c].range = job[c].range /\ job'[c].next = job[c].next
                       /\ job'[c].remaining = job[c].remaining /\ job'[c].failed = job[c].failed
    BY DEF Given
  <1>1. job[c] \in Job
    BY DEF TypeOK
  <1>2. job'[c] = job[c] \/ job'[c] = [job[c] EXCEPT !.gen = n] \/ job'[c] = [job[c] EXCEPT !.inside = n]
    BY DEF TypeOK
  <1>. QED BY <1>1, <1>2 DEF Job

LEMMA ChunkInvStep == ChunkInv /\ [Next]_vars => ChunkInv'
  <1>. SUFFICES ASSUME ChunkInv, [Next]_vars PROVE ChunkInv'
    OBVIOUS
  <1>0. JobInv' /\ JobInv /\ TypeOK /\ JobOutlivesWorkers
    BY ChunkInvParts, JobInvStep DEF ChunkInv
  <1>. USE DEF Goto, At, board, workerVars, outcome, ends
  <1>1. ASSUME NEW c \in Callers, Submit(c) PROVE ChunkInv'
    BY <1>1, <1>0, ChunkFrame DEF Submit, TypeOK, PlacesOK, Threads, JobOf
  <1>2. ASSUME NEW c \in Callers, Publish(c) PROVE ChunkInv'
    <2>1. job' = [job EXCEPT ![c].gen = generation + 1] /\ chunk' = chunk /\ ran' = ran
      BY <1>2 DEF Publish
    <2>2. \A d \in Callers : /\ job'[d].range = job[d].range /\ Given(job'[d]) = Given(job[d])
                             /\ job'[d].remaining = job[d].remaining /\ job'[d].failed = job[d].failed
      BY <1>0, <2>1, SameChunks
    <2>3. /\ \A t \in Threads : pc'[t] \in {"run", "count"} \/ pc[t] \in {"run", "count"} =>
                pc'[t] = pc[t] /\ JobOf(t)' = JobOf(t)
          /\ \A d \in Callers : pc'[d] \in {"idle", "submit", "publish", "checkInside", "return"} => pc'[d] = pc[d]
      BY <1>2, <1>0 DEF Publish, TypeOK, PlacesOK, Threads, JobOf
    <2>. QED BY <1>0, <2>1, <2>2, <2>3, ChunkFrame
  <1>3. ASSUME NEW c \in Callers, WakeWorkers(c) PROVE ChunkInv'
    BY <1>3, <1>0, ChunkFrame DEF WakeWorkers, NotifyWake, TypeOK, PlacesOK, Threads, JobOf
  <1>4. ASSUME NEW t \in Threads, Grab(t) PROVE ChunkInv'
    BY <1>4, <1>0, ChunkGrab
  <1>5. ASSUME NEW t \in Threads, Run(t) PROVE ChunkInv'
    BY <1>5, <1>0, ChunkRun
  <1>6. ASSUME NEW t \in Threads, Count(t) PROVE ChunkInv'
    BY <1>6, <1>0, ChunkCounted
  <1>7. ASSUME NEW t \in Threads, Signal(t) PROVE ChunkInv'
    BY <1>7, <1>0, ChunkFrame DEF Signal, NotifyDone, TypeOK, PlacesOK, Threads, JobOf
  <1>8. ASSUME NEW c \in Callers, Retract(c) PROVE ChunkInv'
    BY <1>8, <1>0, ChunkFrame DEF Retract, TypeOK, PlacesOK, Threads, JobOf
  <1>9. ASSUME NEW c \in Callers, CheckCount(c) PROVE ChunkInv'
    BY <1>9, <1>0, ChunkFrame DEF CheckCount, TypeOK, PlacesOK, Threads, JobOf
  <1>10. ASSUME NEW c \in Callers, CheckInside(c) PROVE ChunkInv'
    BY <1>10, <1>0, ChunkFrame DEF CheckInside, TypeOK, PlacesOK, Threads, JobOf
  <1>11. ASSUME NEW c \in Callers, Block(c) PROVE ChunkInv'
    BY <1>11, <1>0, ChunkFrame DEF Block, TypeOK, PlacesOK, Threads, JobOf
  <1>12. ASSUME NEW c \in Callers, Relock(c) PROVE ChunkInv'
    BY <1>12, <1>0, ChunkFrame DEF Relock, TypeOK, PlacesOK, Threads, JobOf
  <1>13. ASSUME NEW c \in Callers, Return(c) PROVE ChunkInv'
    <2>1. PICK r \in Ranges : r = job[c].range
      BY <1>0 DEF TypeOK, Job
    <2>2. /\ pc[c] = "return" /\ pc' = [pc EXCEPT ![c] = "idle"] /\ taken' = taken /\ chunk' = chunk
          /\ ran' = ran /\ job' = [job EXCEPT ![c] = NewJob(r, 0)]
      BY <1>13, <2>1 DEF Return
    <2>. QED BY <1>0, <2>2, ChunkReset
  <1>14. ASSUME NEW w \in Workers, Look(w) PROVE ChunkInv'
    <2>1. PICK n : n = job[currentJob].inside + 1
      OBVIOUS
    <2>2. currentJob \in Callers \/ job' = job
      BY <1>14, <1>0 DEF Look, HasWork, TypeOK
    <2>3. /\ job' = job \/ job' = [job EXCEPT ![currentJob].inside = n]
          /\ chunk' = chunk /\ ran' = ran
      BY <1>14, <2>1 DEF Look
    <2>4. \A d \in Callers : /\ job'[d].range = job[d].range /\ Given(job'[d]) = Given(job[d])
                             /\ job'[d].remaining = job[d].remaining /\ job'[d].failed = job[d].failed
      BY <1>0, <2>2, <2>3, SameChunks
    <2>5. PICK p \in {"exited", "grab", "asleep"} : pc[w] = "look" /\ pc' = [pc EXCEPT ![w] = p]
      BY <1>14 DEF Look
    <2>6. \A u \in Threads : u = w \/ (pc'[u] = pc[u] /\ JobOf(u)' = JobOf(u))
      <3>1. \A u \in Threads : u = w \/ pc'[u] = pc[u]
        BY <1>0, <2>5 DEF TypeOK, PlacesOK
      <3>2. taken' = taken \/ taken' = [taken EXCEPT ![w] = currentJob]
        BY <1>14 DEF Look
      <3>3. \A u \in Workers : u = w \/ taken'[u] = taken[u]
        BY <1>0, <3>2 DEF TypeOK
      <3>. QED BY <3>1, <3>3 DEF JobOf, Threads
    <2>7. pc'[w] = p /\ w \notin Callers
      BY <1>0, <2>5, ThreadsAssumption DEF TypeOK, PlacesOK, Threads
    <2>8. /\ \A t \in Threads : pc'[t] \in {"run", "count"} \/ pc[t] \in {"run", "count"} =>
                pc'[t] = pc[t] /\ JobOf(t)' = JobOf(t)
          /\ \A d \in Callers : pc'[d] = pc[d]
      BY <2>5, <2>6, <2>7 DEF Threads
    <2>. QED BY <1>0, <2>3, <2>4, <2>8, ChunkFrame
  <1>15. ASSUME NEW w \in Workers, Leave(w) PROVE ChunkInv'
    <2>1. PICK j \in Callers : j = taken[w]
      BY <1>15, <1>0 DEF Leave, TypeOK, PlacesOK, InJob
    <2>2. PICK n : n = job[j].inside - 1
      OBVIOUS
    <2>3. job' = [job EXCEPT ![j].inside = n] /\ chunk' = chunk /\ ran' = ran
      BY <1>15, <2>1, <2>2 DEF Leave
    <2>4. \A d \in Callers : /\ job'[d].range = job[d].range /\ Given(job'[d]) = Given(job[d])
                             /\ job'[d].remaining = job[d].remaining /\ job'[d].failed = job[d].failed
      BY <1>0, <2>3, SameChunks
    <2>5. PICK p \in {"signalLeft", "look"} : pc[w] = "leave" /\ pc' = [pc EXCEPT ![w] = p]
      BY <1>15 DEF Leave
    <2>6. \A u \in Threads : u = w \/ (pc'[u] = pc[u] /\ JobOf(u)' = JobOf(u))
      BY <1>15, <1>0, <2>5 DEF Leave, TypeOK, PlacesOK, JobOf
    <2>7. pc'[w] = p /\ w \notin Callers
      BY <1>0, <2>5, ThreadsAssumption DEF TypeOK, PlacesOK, Threads
    <2>8. /\ \A t \in Threads : pc'[t] \in {"run", "count"} \/ pc[t] \in {"run", "count"} =>
                pc'[t] = pc[t] /\ JobOf(t)' = JobOf(t)
          /\ \A d \in Callers : pc'[d] = pc[d]
      BY <2>5, <2>6, <2>7 DEF Threads
    <2>. QED BY <1>0, <2>3, <2>4, <2>8, ChunkFrame
  <1>16. ASSUME NEW w \in Workers, SignalLeft(w) PROVE ChunkInv'
    BY <1>16, <1>0, ChunkFrame DEF SignalLeft, NotifyDone, TypeOK, PlacesOK, Threads, JobOf
  <1>17. ASSUME NEW c \in Callers, NEW r \in Ranges, CallNothing(c, r) PROVE ChunkInv'
    <2>1. pc' = [pc EXCEPT ![c] = "idle"]
      BY <1>17, <1>0 DEF CallNothing, TypeOK, PlacesOK, Threads
    <2>2. pc[c] = "idle" /\ taken' = taken /\ chunk' = chunk /\ job' = [job EXCEPT ![c] = NewJob(r, 0)]
      BY <1>17 DEF CallNothing
    <2>3. \A d \in Callers \ {c} : ran'[d] = ran[d]
      BY <1>17, <1>0 DEF CallNothing, TypeOK
    <2>. QED BY <1>0, <2>1, <2>2, <2>3, ChunkReset
  <1>18. ASSUME NEW c \in Callers, NEW r \in Ranges, Call(c, r) PROVE ChunkInv'
    <2>1. /\ pc[c] = "idle" /\ pc' = [pc EXCEPT ![c] = "submit"] /\ taken' = taken /\ chunk' = chunk
          /\ job' = [job EXCEPT ![c] = NewJob(r, 0)]
      BY <1>18 DEF Call
    <2>2. \A d \in Callers \ {c} : ran'[d] = ran[d]
      BY <1>18, <1>0 DEF Call, TypeOK
    <2>. QED BY <1>0, <2>1, <2>2, ChunkReset
  <1>19. ASSUME NEW t \in Threads, Spurious(t) PROVE ChunkInv'
    BY <1>19, <1>0, ChunkFrame DEF Spurious, TypeOK, PlacesOK, Threads, JobOf
  <1>20. CASE Destroy
    BY <1>20, <1>0, ChunkFrame DEF Destroy, JobOf
  <1>21. CASE DestroyNotify
    BY <1>21, <1>0, ChunkFrame DEF DestroyNotify, NotifyWake, TypeOK, PlacesOK, Threads, JobOf
  <1>22. CASE Join
    BY <1>22, <1>0, ChunkFrame DEF Join, JobOf
  <1>23. CASE UNCHANGED vars
    BY <1>23, <1>0, ChunkFrame DEF vars, JobOf
  <1>. QED
    BY <1>1, <1>2, <1>3, <1>4, <1>5, <1>6, <1>7, <1>8, <1>9, <1>10, <1>11, <1>12, <1>13, <1>14, <1>15, <1>16, <1>17, <1>18, <1>19, <1>20, <1>21, <1>22, <1>23
    DEF Next, CallerStep, WorkerStep, DestructorStep, Gone, Threads

LEMMA NoneLeft ==
  ASSUME NEW a \in Nat, NEW b \in 0 .. a, NEW k \in Nat, 0 = a - b + k PROVE b = a /\ k = 0
  OBVIOUS

\* When a caller has seen its Job finished, the body ran on every index, or threw.
LEMMA AllVisited ==
  ASSUME NoWrap, ChunkInv, NEW c \in Callers, pc[c] = "return"
  PROVE  job[c].failed \/ \A x \in RangeIndices(job[c].range) : ran[c][x] # 0
  <1>0. /\ TypeOK /\ Counted /\ Covered /\ Emptied
    BY ChunkInvParts
  <1>1. job[c].range \in Ranges /\ ChunkCount(job[c].range) \in Nat
        /\ Given(job[c]) \in 0 .. ChunkCount(job[c].range)
    BY <1>0, GivenIs DEF TypeOK
  <1>2. 0 = ChunkCount(job[c].range) - Given(job[c]) + Cardinality(Doing(c))
        /\ Cardinality(Doing(c)) \in Nat
    BY <1>0, DoingFinite DEF Counted, Emptied
  <1>3. Given(job[c]) = ChunkCount(job[c].range) /\ Cardinality(Doing(c)) = 0
    BY <1>1, <1>2, NoneLeft
  <1>4. Doing(c) = {}
    BY <1>3, DoingFinite, FS_EmptySet
  <1>. SUFFICES ASSUME NEW x \in RangeIndices(job[c].range), ~job[c].failed PROVE ran[c][x] # 0
    OBVIOUS
  <1>5. PICK i \in 0 .. ChunkCount(job[c].range) - 1 : x \in Slice(job[c].range, i)
    BY <1>1, SlicesCover
  <1>6. Ran(c, i)
    BY <1>0, <1>3, <1>4 DEF Covered, Doing
  <1>. QED BY <1>5, <1>6 DEF Ran

-----------------------------------------------------------------------------
(* The pool implements ParallelFor. *)

\* What a caller of ParallelFor sees of the pool.
Phase == [c \in Callers |-> IF pc[c] = "idle" THEN "idle"
                            ELSE IF pc[c] = "submit" THEN "queued" ELSE "running"]
Left == [c \in Callers |-> IF pc[c] = "idle" THEN {}
                           ELSE {x \in RangeIndices(job[c].range) : ran[c][x] = 0}]
Threw == [c \in Callers |-> job[c].failed]

\* The steps inside a call show nothing.
LEMMA Hidden ==
  ASSUME ran' = ran, result' = result,
         \A c \in Callers : /\ job'[c].range = job[c].range /\ job'[c].failed = job[c].failed
                            /\ pc'[c] = "idle" <=> pc[c] = "idle"
                            /\ pc'[c] = "submit" <=> pc[c] = "submit"
  PROVE  UNCHANGED Abstract!vars
  <1>1. Phase' = Phase
    BY DEF Phase
  <1>2. Left' = Left
    <2>1. \A c \in Callers : (IF pc[c] = "idle" THEN {}
                              ELSE {x \in RangeIndices(job[c].range) : ran[c][x] = 0})'
                             = IF pc[c] = "idle" THEN {}
                               ELSE {x \in RangeIndices(job[c].range) : ran[c][x] = 0}
      OBVIOUS
    <2>. QED BY <2>1 DEF Left
  <1>3. Threw' = Threw
    BY DEF Threw
  <1>. QED BY <1>1, <1>2, <1>3 DEF Abstract!vars, Phase, Left, Threw

\* Steps that change the call of one caller only.
LEMMA Shown ==
  ASSUME NEW c \in Callers,
         \A d \in Callers \ {c} : pc'[d] = pc[d] /\ job'[d].range = job[d].range
                                  /\ job'[d].failed = job[d].failed /\ ran'[d] = ran[d]
  PROVE  /\ Phase' = [Phase EXCEPT ![c] = Phase'[c]]
         /\ Left' = [Left EXCEPT ![c] = Left'[c]]
         /\ Threw' = [Threw EXCEPT ![c] = Threw'[c]]
  <1>1. Phase' = [Phase EXCEPT ![c] = Phase'[c]]
    BY DEF Phase
  <1>2. Left' = [Left EXCEPT ![c] = Left'[c]]
    <2>1. \A d \in Callers \ {c} : Left'[d] = Left[d]
      BY DEF Left
    <2>2. Left = [d \in Callers |-> Left[d]] /\ Left' = [d \in Callers |-> Left'[d]]
      BY DEF Left
    <2>. QED BY <2>1, <2>2
  <1>3. Threw' = [Threw EXCEPT ![c] = Threw'[c]]
    BY DEF Threw
  <1>. QED BY <1>1, <1>2, <1>3

\* A caller that has a Job holds m_submitMutex.
LEMMA RunningHolds ==
  ASSUME ChunkInv, NEW c \in Callers, Phase[c] = "running" PROVE submit = c
  <1>1. TypeOK /\ SubmitHeld
    BY ChunkInvParts
  <1>2. pc[c] \in InCall
    BY <1>1 DEF Phase, TypeOK, PlacesOK, InCall
  <1>. QED BY <1>1, <1>2 DEF SubmitHeld

\* A call begins when no other runs.
LEMMA SubmitBegins ==
  ASSUME ChunkInv, NEW c \in Callers, Submit(c) PROVE Abstract!Begin(c)
  <1>0. TypeOK
    BY ChunkInvParts
  <1>1. /\ \A d \in Callers \ {c} : pc'[d] = pc[d]
        /\ pc[c] = "submit" /\ pc'[c] = "publish" /\ submit = Nobody
        /\ job' = job /\ ran' = ran /\ result' = result
    BY <1>0 DEF Submit, At, Goto, TypeOK, PlacesOK, Threads, outcome
  <1>2. Phase[c] = "queued" /\ Phase'[c] = "running"
    BY <1>1 DEF Phase
  <1>3. Phase' = [Phase EXCEPT ![c] = "running"]
    BY <1>1, <1>2, Shown
  <1>4. Left' = Left /\ Threw' = Threw
    <2>1. \A d \in Callers : Left'[d] = Left[d]
      BY <1>1 DEF Left
    <2>. QED BY <1>1, <2>1 DEF Left, Threw
  <1>5. \A d \in Callers : Phase[d] # "running"
    BY <1>1, RunningHolds, ThreadsAssumption
  <1>. QED BY <1>1, <1>2, <1>3, <1>4, <1>5 DEF Abstract!Begin, Phase, Left, Threw

\* A call with work asks for the indices of its range.
LEMMA CallEnters ==
  ASSUME ChunkInv, NEW c \in Callers, NEW r \in Ranges, Call(c, r) PROVE Abstract!Enter(c)
  <1>0. TypeOK /\ Fresh
    BY ChunkInvParts
  <1>1. /\ \A d \in Callers \ {c} : pc'[d] = pc[d] /\ job'[d] = job[d] /\ ran'[d] = ran[d]
        /\ pc[c] = "idle" /\ pc'[c] = "submit" /\ job'[c] = NewJob(r, 0) /\ ran'[c] = NotRun
        /\ result' = [result EXCEPT ![c] = "none"] /\ r.begin < r.end
    BY <1>0 DEF Call, At, Goto, TypeOK, PlacesOK, Threads
  <1>2. job'[c].range = r /\ job'[c].failed = FALSE /\ job[c].failed = FALSE
    <2>1. job[c].failed \in BOOLEAN /\ ~job[c].failed
      BY <1>0, <1>1, GivenIs DEF Fresh, TypeOK
    <2>. QED BY <1>1, <2>1, NewJobIs
  <1>3. Phase[c] = "idle" /\ Phase'[c] = "queued" /\ Threw'[c] = FALSE /\ Threw[c] = FALSE
    BY <1>1, <1>2 DEF Phase, Threw
  <1>4. Left'[c] = RangeIndices(r)
    <2>1. \A x \in RangeIndices(r) : NotRun[x] = 0
      BY DEF RangeIndices, NotRun
    <2>2. Left'[c] = {x \in RangeIndices(r) : NotRun[x] = 0}
      BY <1>1, <1>2 DEF Left
    <2>. QED BY <2>1, <2>2
  <1>5. RangeIndices(r) \in {RangeIndices(q) : q \in Ranges} \ {{}}
    <2>1. r.begin \in 0 .. Word - 1 /\ r.end \in 0 .. Word - 1
      BY SizesAssumption
    <2>2. r.begin \in RangeIndices(r)
      BY <1>1, <2>1 DEF RangeIndices, Indices
    <2>. QED BY <2>2
  <1>6. /\ Phase' = [Phase EXCEPT ![c] = "queued"]
        /\ Left' = [Left EXCEPT ![c] = RangeIndices(r)]
        /\ Threw' = Threw
    <2>1. Threw' = [Threw EXCEPT ![c] = FALSE]
      BY <1>1, <1>3, Shown
    <2>2. Threw' = Threw
      BY <1>3, <2>1 DEF Threw
    <2>. QED BY <1>1, <1>3, <1>4, <2>2, Shown
  <1>. QED BY <1>1, <1>3, <1>5, <1>6 DEF Abstract!Enter, Phase, Left, Threw

\* A call without work is answered.
LEMMA NothingIsTrivial ==
  ASSUME ChunkInv, NEW c \in Callers, NEW r \in Ranges, CallNothing(c, r) PROVE Abstract!Trivial(c)
  <1>0. TypeOK /\ Fresh
    BY ChunkInvParts
  <1>1. /\ \A d \in Callers \ {c} : job'[d] = job[d] /\ ran'[d] = ran[d]
        /\ pc[c] = "idle" /\ pc' = pc /\ job'[c] = NewJob(r, 0)
    BY <1>0 DEF CallNothing, At, TypeOK
  <1>a. \E answer \in {"ok", "invalid"} : result' = [result EXCEPT ![c] = answer]
    BY DEF CallNothing
  <1>2. job'[c].failed = FALSE /\ job[c].failed = FALSE
    <2>1. job[c].failed \in BOOLEAN /\ ~job[c].failed
      BY <1>0, <1>1, GivenIs DEF Fresh, TypeOK
    <2>. QED BY <1>1, <2>1, NewJobIs
  <1>3. Phase[c] = "idle" /\ Phase' = Phase
    BY <1>1 DEF Phase
  <1>4. Left' = Left
    <2>1. \A d \in Callers : Left'[d] = Left[d]
      BY <1>1 DEF Left
    <2>. QED BY <2>1 DEF Left
  <1>5. Threw' = Threw
    BY <1>1, <1>2 DEF Threw
  <1>. QED BY <1>a, <1>3, <1>4, <1>5 DEF Abstract!Trivial, Phase, Left, Threw

\* A chunk run visits indices of the running call.
LEMMA RunVisits ==
  ASSUME ChunkInv, NEW t \in Threads, Run(t) PROVE \E c \in Callers : Abstract!Visit(c)
  <1>0. TypeOK /\ JobOutlivesWorkers
    BY ChunkInvParts
  <1>a. pc[t] = "run" /\ taken' = taken /\ result' = result
    BY DEF Run, At, workerVars
  <1>b. PICK j \in Callers : j = JobOf(t)
    BY <1>0, <1>a, JobOfType DEF InJob, InRunChunks
  <1>1. pc[j] \notin {"idle", "submit"}
    <2>1. CASE t \in Callers
      BY <1>a, <1>b, <2>1 DEF JobOf
    <2>2. CASE t \in Workers
      <3>1. j = taken[t] /\ pc[t] \in InJob
        BY <1>a, <1>b, <2>2, ThreadsAssumption DEF JobOf, InJob, InRunChunks
      <3>2. pc[j] \in InCall \ {"publish", "return"}
        BY <1>0, <2>2, <3>1 DEF JobOutlivesWorkers
      <3>. QED BY <3>2 DEF InCall
    <2>. QED BY <2>1, <2>2 DEF Threads
  <1>2. \A d \in Callers : pc'[d] = pc[d] \/ (d = t /\ pc[d] = "run" /\ pc'[d] = "count")
    BY <1>0, <1>a DEF Run, Goto, TypeOK, PlacesOK, Threads
  <1>3. /\ \A d \in Callers \ {j} : job'[d] = job[d] /\ ran'[d] = ran[d]
        /\ job'[j].range = job[j].range
        /\ job'[j].failed = job[j].failed \/ job'[j].failed = TRUE
    <2>1. job' = job \/ job' = [job EXCEPT ![j] = [job[j] EXCEPT !.failed = TRUE]]
      BY <1>b DEF Run
    <2>2. \A d \in Callers \ {j} : job'[d] = job[d]
      BY <1>0, <2>1 DEF TypeOK
    <2>3. job'[j] = job[j] \/ job'[j] = [job[j] EXCEPT !.failed = TRUE]
      BY <1>0, <2>1 DEF TypeOK
    <2>4. job[j] \in Job
      BY <1>0 DEF TypeOK
    <2>5. /\ job'[j].range = job[j].range
          /\ job'[j].failed = job[j].failed \/ job'[j].failed = TRUE
      BY <2>3, <2>4 DEF Job
    <2>6. \A d \in Callers \ {j} : ran'[d] = ran[d]
      BY <1>0, <1>b DEF Run, TypeOK
    <2>. QED BY <2>2, <2>5, <2>6
  <1>4. \A x \in Indices : ran[j][x] # 0 => ran'[j][x] # 0
    <2>. SUFFICES ASSUME NEW x \in Indices, ran[j][x] # 0, ran' # ran PROVE ran'[j][x] # 0
      OBVIOUS
    <2>1. ran[j][x] \in Nat
      BY <1>0 DEF TypeOK
    <2>2. ran' = [ran EXCEPT ![j] = [y \in Indices |->
                     ran[j][y] + IF y \in Slice(job[j].range, chunk[t]) THEN 1 ELSE 0]]
      BY <1>b DEF Run
    <2>3. ran'[j] = [y \in Indices |-> ran[j][y] + IF y \in Slice(job[j].range, chunk[t]) THEN 1 ELSE 0]
      BY <1>0, <2>2 DEF TypeOK
    <2>4. ran'[j][x] = ran[j][x] + IF x \in Slice(job[j].range, chunk[t]) THEN 1 ELSE 0
      BY <2>3
    <2>. QED BY <2>1, <2>4
  <1>5. Phase[j] = "running" /\ Phase' = Phase
    BY <1>1, <1>2 DEF Phase
  <1>6. \A d \in Callers \ {j} : Left'[d] = Left[d]
    BY <1>2, <1>3 DEF Left
  <1>7. Left'[j] \subseteq Left[j]
    <2>1. pc[j] # "idle" /\ pc'[j] # "idle"
      BY <1>1, <1>2
    <2>2. /\ Left[j] = {x \in RangeIndices(job[j].range) : ran[j][x] = 0}
          /\ Left'[j] = {x \in RangeIndices(job[j].range) : ran'[j][x] = 0}
      BY <1>3, <2>1 DEF Left
    <2>. QED BY <1>4, <2>2 DEF RangeIndices
  <1>8. \E S \in SUBSET Left[j] : Left' = [Left EXCEPT ![j] = Left[j] \ S]
    <2>1. PICK S \in SUBSET Left[j] : S = Left[j] \ Left'[j]
      OBVIOUS
    <2>2. Left'[j] = Left[j] \ S
      BY <1>7, <2>1
    <2>3. Left' = [Left EXCEPT ![j] = Left[j] \ S]
      BY <1>6, <2>2 DEF Left
    <2>. QED BY <2>3
  <1>9. \E s \in {Threw[j], TRUE} : Threw' = [Threw EXCEPT ![j] = s]
    <2>1. Threw'[j] \in {Threw[j], TRUE} /\ \A d \in Callers \ {j} : Threw'[d] = Threw[d]
      BY <1>3 DEF Threw
    <2>2. Threw' = [Threw EXCEPT ![j] = Threw'[j]]
      BY <2>1 DEF Threw
    <2>. QED BY <2>1, <2>2
  <1>10. Abstract!Visit(j)
    BY <1>a, <1>5, <1>8, <1>9 DEF Abstract!Visit, Phase, Left, Threw
  <1>. QED BY <1>10

\* A call returns with everything visited, unless its body threw.
LEMMA ReturnFinishes ==
  ASSUME NoWrap, ChunkInv, NEW c \in Callers, Return(c) PROVE Abstract!Finish(c)
  <1>0. TypeOK
    BY ChunkInvParts
  <1>1. /\ \A d \in Callers \ {c} : pc'[d] = pc[d] /\ job'[d] = job[d]
        /\ pc[c] = "return" /\ pc'[c] = "idle" /\ ran' = ran
        /\ job'[c] = NewJob(job[c].range, 0)
        /\ result' = [result EXCEPT ![c] = IF job[c].failed THEN "error" ELSE "ok"]
    BY <1>0 DEF Return, At, Goto, TypeOK, PlacesOK, Threads
  <1>2. Phase[c] = "running" /\ Phase'[c] = "idle" /\ Left'[c] = {} /\ Threw'[c] = FALSE
        /\ Threw[c] = job[c].failed
    BY <1>1 DEF Phase, Left, Threw, NewJob
  <1>3. Left[c] = {} \/ Threw[c]
    <2>1. Left[c] = {x \in RangeIndices(job[c].range) : ran[c][x] = 0}
      BY <1>1 DEF Left
    <2>2. job[c].failed \/ \A x \in RangeIndices(job[c].range) : ran[c][x] # 0
      BY <1>1, AllVisited
    <2>. QED BY <1>2, <2>1, <2>2
  <1>4. /\ Phase' = [Phase EXCEPT ![c] = "idle"]
        /\ Left' = [Left EXCEPT ![c] = {}]
        /\ Threw' = [Threw EXCEPT ![c] = FALSE]
    BY <1>1, <1>2, Shown
  <1>5. result' = [result EXCEPT ![c] = IF Threw[c] THEN "error" ELSE "ok"]
    BY <1>1, <1>2
  <1>. QED BY <1>2, <1>3, <1>4, <1>5 DEF Abstract!Finish, Phase, Left, Threw

\* The arithmetic of the chunks does not wrap for the ranges asked for, and then
\* every behaviour of the pool's threads is a behaviour of ParallelFor: calls run
\* one at a time, each returns only when its body ran on every index or threw, and
\* it says error exactly when the body threw (ThreadPool::parallelFor).
THEOREM PoolImplementsParallelFor == ASSUME NoWrap PROVE Spec => ImplementsParallelFor
  <1>1. Init => ChunkInv /\ Abstract!Init
    <2>. SUFFICES ASSUME Init PROVE ChunkInv /\ Abstract!Init
      OBVIOUS
    <2>1. ChunkInv
      BY ChunkInvInit
    <2>2. PICK r \in Ranges : job = [c \in Callers |-> NewJob(r, 0)]
      BY DEF Init
    <2>3. \A c \in Callers : pc[c] = "idle" /\ job[c].failed = FALSE
      BY <2>2, NewJobIs, ThreadsAssumption DEF Init, Threads
    <2>4. /\ Phase = [c \in Callers |-> "idle"] /\ Left = [c \in Callers |-> {}]
          /\ Threw = [c \in Callers |-> FALSE]
      BY <2>3 DEF Phase, Left, Threw
    <2>5. result = [c \in Callers |-> "none"]
      BY DEF Init
    <2>6. Abstract!Init
      BY <2>4, <2>5 DEF Abstract!Init, Phase, Left, Threw
    <2>. QED BY <2>1, <2>6
  <1>2. ChunkInv /\ [Next]_vars => ChunkInv' /\ [Abstract!Next]_(Abstract!vars)
    <2>. SUFFICES ASSUME ChunkInv, [Next]_vars PROVE [Abstract!Next]_(Abstract!vars)
      BY ChunkInvStep
    <2>0. TypeOK
      BY ChunkInvParts
    <2>. USE DEF Goto, At, board, workerVars, outcome, ends
    <2>1. ASSUME NEW c \in Callers, Submit(c) PROVE [Abstract!Next]_(Abstract!vars)
      BY <2>1, SubmitBegins DEF Abstract!Next
    <2>2. ASSUME NEW c \in Callers, NEW r \in Ranges, CallNothing(c, r) \/ Call(c, r)
          PROVE  [Abstract!Next]_(Abstract!vars)
      BY <2>2, CallEnters, NothingIsTrivial DEF Abstract!Next
    <2>3. ASSUME NEW t \in Threads, Run(t) PROVE [Abstract!Next]_(Abstract!vars)
      BY <2>3, RunVisits DEF Abstract!Next
    <2>4. ASSUME NEW c \in Callers, Return(c) PROVE [Abstract!Next]_(Abstract!vars)
      BY <2>4, ReturnFinishes DEF Abstract!Next
    <2>. DEFINE Shows(c) == /\ job'[c].range = job[c].range /\ job'[c].failed = job[c].failed
                            /\ pc'[c] = "idle" <=> pc[c] = "idle"
                            /\ pc'[c] = "submit" <=> pc[c] = "submit"
    <2>5. ASSUME ran' = ran, result' = result, \A c \in Callers : Shows(c)
          PROVE  [Abstract!Next]_(Abstract!vars)
      BY <2>5, Hidden
    <2>6. ASSUME NEW c \in Callers, Publish(c) PROVE [Abstract!Next]_(Abstract!vars)
      <3>1. job' = [job EXCEPT ![c].gen = generation + 1] /\ ran' = ran /\ result' = result
        BY <2>6 DEF Publish
      <3>2. \A d \in Callers : pc'[d] = pc[d] \/ (pc[d] = "publish" /\ pc'[d] = "notify")
        BY <2>0, <2>6 DEF Publish, TypeOK, PlacesOK, Threads
      <3>. QED BY <2>0, <2>5, <3>1, <3>2, SameChunks
    <2>7. ASSUME NEW c \in Callers, WakeWorkers(c) PROVE [Abstract!Next]_(Abstract!vars)
      BY <2>0, <2>5, <2>7, ThreadsAssumption DEF WakeWorkers, NotifyWake, TypeOK, PlacesOK, Threads
    <2>8. ASSUME NEW t \in Threads, Grab(t) \/ Count(t) PROVE [Abstract!Next]_(Abstract!vars)
      <3>1. PICK j \in Callers : j = JobOf(t)
        BY <2>0, <2>8, JobOfType DEF Grab, Count, InJob, InRunChunks
      <3>2. job[j] \in Job
        BY <2>0 DEF TypeOK
      <3>3. /\ ran' = ran /\ result' = result
            /\ \/ job' = [job EXCEPT ![j] = [job[j] EXCEPT !.next = job[j].next + 1]]
               \/ job' = [job EXCEPT ![j] = [job[j] EXCEPT !.remaining = job[j].remaining - 1]]
        BY <2>8, <3>1 DEF Grab, Count
      <3>4. \A d \in Callers : \/ job'[d] = job[d]
                               \/ d = j /\ job'[d] = [job[j] EXCEPT !.next = job[j].next + 1]
                               \/ d = j /\ job'[d] = [job[j] EXCEPT !.remaining = job[j].remaining - 1]
        BY <2>0, <3>3 DEF TypeOK
      <3>5. \A d \in Callers : job'[d].range = job[d].range /\ job'[d].failed = job[d].failed
        BY <3>2, <3>4 DEF Job
      <3>6. PICK p \in {"run", "retract", "leave", "signal", "grab"} :
               pc[t] \in {"grab", "count"} /\ pc' = [pc EXCEPT ![t] = p]
        BY <2>8 DEF Grab, Count
      <3>7. \A d \in Callers : pc'[d] = pc[d] \/ (pc[d] \in {"grab", "count"} /\ pc'[d] = p)
        BY <2>0, <3>6 DEF TypeOK, PlacesOK, Threads
      <3>. QED BY <2>5, <3>3, <3>5, <3>7
    <2>9. ASSUME NEW t \in Threads, Signal(t) PROVE [Abstract!Next]_(Abstract!vars)
      BY <2>0, <2>5, <2>9 DEF Signal, NotifyDone, TypeOK, PlacesOK, Threads
    <2>10. ASSUME NEW c \in Callers,
                  Retract(c) \/ CheckCount(c) \/ CheckInside(c) \/ Block(c) \/ Relock(c)
           PROVE  [Abstract!Next]_(Abstract!vars)
      <3>1. PICK p \in {"checkCount", "checkInside", "block", "return", "asleep"} :
               /\ pc[c] \in {"retract", "checkCount", "checkInside", "block", "relock"}
               /\ pc' = [pc EXCEPT ![c] = p]
        BY <2>10 DEF Retract, CheckCount, CheckInside, Block, Relock
      <3>2. job' = job /\ ran' = ran /\ result' = result
        BY <2>10 DEF Retract, CheckCount, CheckInside, Block, Relock
      <3>3. \A d \in Callers : pc'[d] = pc[d] \/ (d = c /\ pc'[d] = p)
        BY <2>0, <3>1 DEF TypeOK, PlacesOK, Threads
      <3>. QED BY <2>5, <3>1, <3>2, <3>3
    <2>11. ASSUME NEW w \in Workers, Look(w) \/ Leave(w) \/ SignalLeft(w)
           PROVE  [Abstract!Next]_(Abstract!vars)
      <3>1. ran' = ran /\ result' = result
        BY <2>11 DEF Look, Leave, SignalLeft
      <3>2. PICK j, n : job' = job \/ (j \in Callers /\ job' = [job EXCEPT ![j].inside = n])
        <4>1. CASE Look(w)
          BY <2>0, <4>1 DEF Look, HasWork, TypeOK
        <4>2. CASE Leave(w)
          BY <2>0, <4>2 DEF Leave, TypeOK, PlacesOK, InJob
        <4>3. CASE SignalLeft(w)
          BY <4>3 DEF SignalLeft
        <4>. QED BY <2>11, <4>1, <4>2, <4>3
      <3>3. \A d \in Callers : job'[d].range = job[d].range /\ job'[d].failed = job[d].failed
        BY <2>0, <3>2, SameChunks
      <3>4. \A d \in Callers : pc'[d] = pc[d] \/ (pc[d] = "asleep" /\ pc'[d] = "relock")
        <4>1. CASE Look(w) \/ Leave(w)
          <5>1. PICK p : pc' = [pc EXCEPT ![w] = p]
            BY <4>1 DEF Look, Leave
          <5>. QED BY <2>0, <5>1, ThreadsAssumption DEF TypeOK, PlacesOK, Threads
        <4>2. CASE SignalLeft(w)
          BY <2>0, <4>2, ThreadsAssumption DEF SignalLeft, NotifyDone, TypeOK, PlacesOK, Threads
        <4>. QED BY <2>11, <4>1, <4>2
      <3>. QED BY <2>5, <3>1, <3>3, <3>4
    <2>12. ASSUME NEW t \in Threads, Spurious(t) PROVE [Abstract!Next]_(Abstract!vars)
      BY <2>0, <2>5, <2>12 DEF Spurious, TypeOK, PlacesOK, Threads
    <2>13. CASE Destroy \/ DestroyNotify \/ Join \/ UNCHANGED vars
      <3>1. job' = job /\ ran' = ran /\ result' = result
        BY <2>13 DEF Destroy, DestroyNotify, Join, vars
      <3>2. \A d \in Callers : pc'[d] = pc[d]
        BY <2>0, <2>13, ThreadsAssumption DEF Destroy, DestroyNotify, Join, vars, NotifyWake, TypeOK, PlacesOK, Threads
      <3>. QED BY <2>5, <3>1, <3>2
    <2>. QED
      BY <2>1, <2>2, <2>3, <2>4, <2>6, <2>7, <2>8, <2>9, <2>10, <2>11, <2>12, <2>13
      DEF Next, CallerStep, WorkerStep, DestructorStep, Gone, Threads
  <1>. QED BY <1>1, <1>2, PTL DEF Spec, ImplementsParallelFor, Abstract!Spec

-----------------------------------------------------------------------------
(* IdlePool. *)

PoolThreads == Users \cup Reapers
Entries == [item : Items, due : BOOLEAN]

\* An item is parked once.
ParkedOnce(es) == \A i, j \in DOMAIN es : es[i].item = es[j].item => i = j

\* The items are divided among the users, the pool, the threads that destroy some and
\* those already destroyed.
Divided(owned, parked, dying, gone) ==
    /\ owned \cap parked = {} /\ owned \cap gone = {} /\ parked \cap gone = {}
    /\ \A t \in PoolThreads : dying[t] \cap (owned \cup parked \cup gone) = {}
    /\ \A t, r \in PoolThreads : t # r => dying[t] \cap dying[r] = {}
    /\ \A i \in Items : i \in owned \cup parked \cup gone \/ \E t \in PoolThreads : i \in dying[t]

\* Only who is at destroying has something to destroy.
Busy ==
    /\ \A u \in Users : user[u] \in {"idle", "waiting"} => dead[u] = {}
    /\ \A r \in Reapers : reaper[r] # "destroying" => dead[r] = {}

PoolInv ==
    /\ IdleTypeOK /\ ParkedOnce(entries) /\ Divided(hand, Parked(entries), dead, freed) /\ Busy
    /\ ReaperWatches /\ (stopping => entries = <<>>)

-----------------------------------------------------------------------------
(* The entries. *)

\* A set of naturals has a least member.
LEMMA LeastPlace == ASSUME NEW S \in SUBSET Nat, S # {} PROVE \E x \in S : \A y \in S : x <= y
  <1>. DEFINE Below == {p \in Nat \X Nat : p[1] < p[2]}
  <1>1. IsWellFoundedOn(Below, Nat)
    BY NatLessThanWellFounded, Zenon DEF OpToRel
  <1>2. PICK x \in S : \A y \in S : ~ (<<y, x>> \in Below)
    <2>. HIDE DEF Below
    <2>. QED BY <1>1, WFMin, Zenon
  <1>3. ASSUME NEW y \in S PROVE x <= y
    <2>1. y < x => <<y, x>> \in Below
      OBVIOUS
    <2>. QED BY <1>2, <2>1
  <1>. QED BY <1>3

\* The place of x among the members of a set.
Rank(S, x) == Cardinality({y \in S : y <= x})

\* The members of a finite set of naturals are counted off in their order.
LEMMA Ranked ==
  ASSUME NEW m \in Nat, NEW S \in SUBSET (1 .. m)
  PROVE  /\ IsFiniteSet(S) /\ Cardinality(S) \in Nat
         /\ \A x \in S : Rank(S, x) \in 1 .. Cardinality(S)
         /\ \A x, y \in S : x < y => Rank(S, x) < Rank(S, y)
         /\ \A x, y \in S : Rank(S, x) = Rank(S, y) => x = y
         /\ \A n \in 1 .. Cardinality(S) : \E x \in S : Rank(S, x) = n
  <1>. DEFINE Upto(x) == {y \in S : y <= x}
  <1>0. \A x \in S : x \in Nat
    OBVIOUS
  <1>1. IsFiniteSet(S) /\ Cardinality(S) \in Nat
    <2>1. IsFiniteSet(1 .. m)
      BY FS_Interval
    <2>. QED BY <2>1, FS_Subset, FS_CardinalityType
  <1>2. \A T \in SUBSET S : /\ IsFiniteSet(T) /\ Cardinality(T) \in Nat
                            /\ Cardinality(T) <= Cardinality(S) /\ (Cardinality(T) = Cardinality(S) => T = S)
    BY <1>1, FS_Subset, FS_CardinalityType
  <1>3. \A x \in S : Rank(S, x) \in 1 .. Cardinality(S)
    <2>. SUFFICES ASSUME NEW x \in S PROVE Cardinality(Upto(x)) \in 1 .. Cardinality(S)
      BY DEF Rank
    <2>1. Upto(x) \in SUBSET S /\ x \in Upto(x)
      OBVIOUS
    <2>2. Cardinality(Upto(x)) # 0
      BY <1>2, <2>1, FS_EmptySet
    <2>. HIDE DEF Upto
    <2>. QED BY <1>1, <1>2, <2>1, <2>2
  <1>4. \A x, y \in S : x < y => Rank(S, x) < Rank(S, y)
    <2>. SUFFICES ASSUME NEW x \in S, NEW y \in S, x < y PROVE Cardinality(Upto(x)) < Cardinality(Upto(y))
      BY DEF Rank
    <2>0. (\A z \in S : z <= x => z <= y) /\ y <= y /\ ~(y <= x)
      BY <1>0
    <2>1. Upto(x) \in SUBSET Upto(y) /\ y \in Upto(y) /\ y \notin Upto(x) /\ Upto(y) \in SUBSET S
      BY <2>0
    <2>. HIDE DEF Upto
    <2>2. Cardinality(Upto(x)) <= Cardinality(Upto(y)) /\ Cardinality(Upto(x)) # Cardinality(Upto(y))
      BY <1>2, <2>1, FS_Subset
    <2>. QED BY <1>2, <2>1, <2>2
  <1>5. \A x, y \in S : Rank(S, x) = Rank(S, y) => x = y
    <2>. SUFFICES ASSUME NEW x \in S, NEW y \in S, x # y PROVE Rank(S, x) # Rank(S, y)
      OBVIOUS
    <2>1. x < y \/ y < x
      OBVIOUS
    <2>. QED BY <1>1, <1>3, <1>4, <2>1
  <1>6. \A n \in 1 .. Cardinality(S) : \E x \in S : Rank(S, x) = n
    <2>. DEFINE Missed == {n \in 1 .. Cardinality(S) : ~\E x \in S : Rank(S, x) = n}
    <2>. SUFFICES ASSUME Missed # {} PROVE FALSE
      OBVIOUS
    <2>1. PICK n \in Missed : \A k \in Missed : n <= k
      <3>1. Missed \in SUBSET Nat
        BY <1>1
      <3>. HIDE DEF Missed
      <3>. QED BY <3>1, LeastPlace
    <2>2. n \in 1 .. Cardinality(S) /\ ~\E x \in S : Rank(S, x) = n
      OBVIOUS
    <2>3. \A k \in 1 .. n - 1 : \E x \in S : Rank(S, x) = k
      BY <1>1, <2>1
    <2>. HIDE DEF Missed
    \* The members ranked below n, and the first that is not.
    <2>. DEFINE Low == {x \in S : Rank(S, x) < n}
                High == S \ Low
    <2>4. Cardinality(Low) < n
      <3>1. CASE n = 1
        <4>1. \A x \in S : ~(Rank(S, x) < 1)
          BY <1>1, <1>3
        <4>2. Low = {}
          BY <3>1, <4>1
        <4>3. Cardinality(Low) = 0
          BY <4>2, FS_EmptySet
        <4>. QED BY <3>1, <4>3
      <3>2. CASE n # 1
        <4>1. PICK x \in S : Rank(S, x) = n - 1
          BY <1>1, <2>2, <2>3, <3>2
        <4>2. Low = Upto(x)
          <5>1. \A y \in S : y <= x => Rank(S, y) < n
            BY <1>0, <1>1, <1>3, <1>4, <4>1, <2>2
          <5>2. \A y \in S : ~(y <= x) => ~(Rank(S, y) < n)
            BY <1>0, <1>1, <1>3, <1>4, <4>1, <2>2
          <5>. QED BY <5>1, <5>2, Zenon
        <4>3. Cardinality(Low) = n - 1
          BY <4>1, <4>2 DEF Rank
        <4>. HIDE DEF Low
        <4>. QED BY <1>1, <2>2, <4>3
      <3>. QED BY <3>1, <3>2
    <2>5. High # {}
      <3>1. Low \in SUBSET S
        OBVIOUS
      <3>2. Low # S
        BY <1>1, <2>2, <2>4
      <3>. QED BY <3>1, <3>2
    <2>6. PICK x \in High : \A y \in High : x <= y
      <3>1. High \in SUBSET Nat
        BY <1>0
      <3>. HIDE DEF High
      <3>. QED BY <2>5, <3>1, LeastPlace
    <2>7. \A y \in Low : y < x
      BY <1>1, <1>3, <1>4, <2>2, <2>6
    <2>8. Upto(x) = Low \cup {x}
      <3>1. \A y \in S : y <= x => y \in Low \cup {x}
        <4>. SUFFICES ASSUME NEW y \in High, y <= x PROVE y = x
          OBVIOUS
        <4>. QED BY <1>0, <2>6
      <3>2. \A y \in Low \cup {x} : y \in S /\ y <= x
        BY <1>0, <2>6, <2>7
      <3>. HIDE DEF Low
      <3>. QED BY <3>1, <3>2
    <2>9. Rank(S, x) <= n
      <3>1. IsFiniteSet(Low) /\ Cardinality(Low) \in Nat
        <4>1. Low \in SUBSET S
          OBVIOUS
        <4>. HIDE DEF Low
        <4>. QED BY <1>2, <4>1
      <3>2. Cardinality(Low \cup {x}) = Cardinality(Low) + 1
        <4>1. x \notin Low
          BY <2>6
        <4>. HIDE DEF Low
        <4>. QED BY <3>1, <4>1, FS_AddElement
      <3>3. Rank(S, x) = Cardinality(Low \cup {x})
        BY <2>8 DEF Rank
      <3>. HIDE DEF Low
      <3>. QED BY <1>1, <2>2, <2>4, <3>1, <3>2, <3>3
    <2>10. ~(Rank(S, x) < n)
      BY <2>6
    <2>. QED BY <1>1, <1>3, <2>2, <2>6, <2>9, <2>10
  <1>. QED BY <1>1, <1>3, <1>4, <1>5, <1>6

\* What stays: the items that are not gone, once if they were there once.
LEMMA WithoutIs ==
  ASSUME NEW es \in Seq(Entries), NEW gone
  PROVE  /\ Without(es, gone) \in Seq(Entries)
         /\ Parked(Without(es, gone)) = Parked(es) \ gone
         /\ ParkedOnce(es) => ParkedOnce(Without(es, gone))
  <1>. DEFINE stay == {i \in DOMAIN es : es[i].item \notin gone}
              nth(n) == CHOOSE i \in stay : Cardinality({j \in stay : j <= i}) = n
              w == Without(es, gone)
  <1>1. Len(es) \in Nat /\ DOMAIN es = 1 .. Len(es) /\ \A i \in DOMAIN es : es[i] \in Entries
    OBVIOUS
  <1>2. stay \in SUBSET (1 .. Len(es))
    BY <1>1
  <1>3. w = [n \in 1 .. Cardinality(stay) |-> es[nth(n)]]
    BY DEF Without
  <1>4. \A n \in 1 .. Cardinality(stay) : nth(n) \in stay /\ Rank(stay, nth(n)) = n
    <2>. SUFFICES ASSUME NEW n \in 1 .. Cardinality(stay) PROVE nth(n) \in stay /\ Rank(stay, nth(n)) = n
      OBVIOUS
    <2>. HIDE DEF stay
    <2>1. \E x \in stay : Rank(stay, x) = n
      <3>. HIDE DEF nth, w
      <3>1. \A k \in 1 .. Cardinality(stay) : \E x \in stay : Rank(stay, x) = k
        BY <1>1, <1>2, Ranked
      <3>. QED BY <3>1
    <2>2. \E x \in stay : Cardinality({j \in stay : j <= x}) = n
      BY <2>1 DEF Rank
    <2>3. nth(n) \in stay /\ Cardinality({j \in stay : j <= nth(n)}) = n
      BY <2>2, Zenon
    <2>. QED BY <2>3 DEF Rank
  <1>. HIDE DEF w, nth
  <1>5. \A i \in stay : Rank(stay, i) \in 1 .. Cardinality(stay) /\ nth(Rank(stay, i)) = i
    <2>. HIDE DEF stay
    <2>1. Cardinality(stay) \in Nat
      BY <1>1, <1>2, Ranked
    <2>2. \A x \in stay : Rank(stay, x) \in 1 .. Cardinality(stay)
      BY <1>1, <1>2, Ranked
    <2>3. \A x, y \in stay : Rank(stay, x) = Rank(stay, y) => x = y
      BY <1>1, <1>2, Ranked
    <2>. QED BY <1>4, <2>2, <2>3
  <1>6. Cardinality(stay) \in Nat
    <2>. HIDE DEF stay
    <2>. QED BY <1>1, <1>2, Ranked
  <1>7. w \in Seq(Entries) /\ DOMAIN w = 1 .. Cardinality(stay)
    <2>1. \A n \in 1 .. Cardinality(stay) : es[nth(n)] \in Entries
      BY <1>1, <1>4
    <2>. HIDE DEF stay
    <2>. QED BY <1>3, <1>6, <2>1
  <1>8. \A n \in DOMAIN w : w[n] = es[nth(n)]
    <2>. HIDE DEF stay
    <2>. QED BY <1>3, <1>7
  <1>9. Parked(w) = Parked(es) \ gone
    <2>1. ASSUME NEW i \in Parked(w) PROVE i \in Parked(es) /\ i \notin gone
      <3>1. PICK n \in DOMAIN w : i = w[n].item
        BY DEF Parked
      <3>2. nth(n) \in stay /\ i = es[nth(n)].item
        BY <1>4, <1>7, <1>8, <3>1
      <3>. QED BY <3>2 DEF Parked
    <2>2. ASSUME NEW i \in Parked(es), i \notin gone PROVE i \in Parked(w)
      <3>1. PICK k \in DOMAIN es : i = es[k].item
        BY DEF Parked
      <3>2. k \in stay
        BY <2>2, <3>1
      <3>3. PICK n : n = Rank(stay, k)
        OBVIOUS
      <3>4. n \in DOMAIN w /\ w[n].item = i
        BY <1>5, <1>7, <1>8, <3>1, <3>2, <3>3
      <3>. QED BY <3>4 DEF Parked
    <2>. QED BY <2>1, <2>2
  <1>10. ASSUME ParkedOnce(es) PROVE ParkedOnce(w)
    <2>. SUFFICES ASSUME NEW n \in DOMAIN w, NEW k \in DOMAIN w, w[n].item = w[k].item PROVE n = k
      BY DEF ParkedOnce
    <2>1. nth(n) \in stay /\ nth(k) \in stay /\ Rank(stay, nth(n)) = n /\ Rank(stay, nth(k)) = k
      BY <1>4, <1>7
    <2>2. es[nth(n)].item = es[nth(k)].item
      BY <1>8
    <2>3. nth(n) = nth(k)
      BY <1>10, <2>1, <2>2 DEF ParkedOnce
    <2>. QED BY <2>1, <2>3
  <1>. QED BY <1>7, <1>9, <1>10 DEF w

\* The items of the entries are finitely many, and as many as the entries if each is parked once.
LEMMA ParkedAre ==
  ASSUME NEW es \in Seq(Entries)
  PROVE  /\ Parked(es) \in SUBSET Items /\ Expired(es) \in SUBSET Parked(es)
         /\ \A i \in DOMAIN es : es[i].item \in Parked(es)
         /\ ParkedOnce(es) => Len(es) = Cardinality(Parked(es))
  <1>0. Len(es) \in Nat /\ DOMAIN es = 1 .. Len(es) /\ \A i \in DOMAIN es : es[i] \in Entries
    OBVIOUS
  <1>1. Len(es) \in Nat /\ DOMAIN es = 1 .. Len(es) /\ \A i \in DOMAIN es : es[i].item \in Items
    BY <1>0 DEF Entries
  <1>2. Parked(es) \in SUBSET Items /\ Expired(es) \in SUBSET Parked(es)
    BY <1>1 DEF Parked, Expired
  <1>3. ASSUME ParkedOnce(es) PROVE Len(es) = Cardinality(Parked(es))
    <2>. DEFINE f == [i \in 1 .. Len(es) |-> es[i].item]
    <2>1. f \in Bijection(1 .. Len(es), Parked(es))
      <3>1. f \in [1 .. Len(es) -> Parked(es)]
        BY <1>1 DEF Parked
      <3>2. \A i, j \in 1 .. Len(es) : f[i] = f[j] => i = j
        BY <1>1, <1>3 DEF ParkedOnce
      <3>3. \A x \in Parked(es) : \E i \in 1 .. Len(es) : f[i] = x
        BY <1>1 DEF Parked
      <3>. HIDE DEF f
      <3>4. f \in Injection(1 .. Len(es), Parked(es))
        BY <3>1, <3>2 DEF Injection, IsInjective
      <3>5. f \in Surjection(1 .. Len(es), Parked(es))
        BY <3>1, <3>3 DEF Surjection
      <3>. QED BY <3>4, <3>5 DEF Bijection
    <2>2. ExistsBijection(1 .. Len(es), Parked(es))
      BY <2>1 DEF ExistsBijection
    <2>. QED BY <1>1, <2>2, FS_CountingElements
  <1>4. \A i \in DOMAIN es : es[i].item \in Parked(es)
    BY DEF Parked
  <1>. QED BY <1>2, <1>3, <1>4

\* One item more.
LEMMA AppendIs ==
  ASSUME NEW es \in Seq(Entries), NEW i \in Items
  PROVE  LET es2 == Append(es, [item |-> i, due |-> FALSE]) IN
         /\ es2 \in Seq(Entries) /\ Parked(es2) = Parked(es) \cup {i} /\ es2 # <<>>
         /\ ParkedOnce(es) /\ i \notin Parked(es) => ParkedOnce(es2)
  <1>. DEFINE e == [item |-> i, due |-> FALSE]
              es2 == Append(es, e)
  <1>1. e \in Entries /\ e.item = i
    BY DEF Entries
  <1>. HIDE DEF e
  <1>2. /\ es2 \in Seq(Entries) /\ Len(es) \in Nat /\ DOMAIN es = 1 .. Len(es)
        /\ DOMAIN es2 = 1 .. Len(es) + 1 /\ es2[Len(es) + 1] = e
        /\ \A k \in DOMAIN es : es2[k] = es[k]
    BY <1>1
  <1>. HIDE DEF es2
  <1>3. \A k \in DOMAIN es2 : k \in DOMAIN es \/ k = Len(es) + 1
    BY <1>2
  <1>4. \A k \in DOMAIN es : k \in DOMAIN es2
    BY <1>2
  <1>5. Len(es) + 1 \in DOMAIN es2 /\ Len(es) + 1 \notin DOMAIN es
    BY <1>2
  <1>6. Parked(es2) = Parked(es) \cup {i}
    BY <1>1, <1>2, <1>3, <1>4, <1>5 DEF Parked
  <1>7. ASSUME ParkedOnce(es), i \notin Parked(es) PROVE ParkedOnce(es2)
    BY <1>1, <1>2, <1>3, <1>5, <1>7 DEF ParkedOnce, Parked
  <1>8. es2 # <<>>
    BY <1>2
  <1>. QED BY <1>2, <1>6, <1>7, <1>8 DEF e, es2

\* Nothing is parked exactly when there are no entries.
LEMMA EmptyIs == ASSUME NEW es \in Seq(Entries) PROVE es = <<>> <=> Parked(es) = {}
  <1>1. es # <<>> => 1 \in DOMAIN es
    OBVIOUS
  <1>2. es = <<>> => DOMAIN es = {}
    OBVIOUS
  <1>. QED BY <1>1, <1>2 DEF Parked

\* The other items keep their places when the oldest n go, and none is due any more.
LEMMA YoungerAre ==
  ASSUME NEW es \in Seq(Entries), ParkedOnce(es), NEW n \in 0 .. Len(es)
  PROVE  LET live == [i \in 1 .. Len(es) - n |-> [es[n + i] EXCEPT !.due = FALSE]] IN
         /\ live \in Seq(Entries) /\ ParkedOnce(live)
         /\ Parked(live) = Parked(es) \ Oldest(es, n) /\ Oldest(es, n) \in SUBSET Parked(es)
         /\ Cardinality(Oldest(es, n)) \in Nat
  <1>. DEFINE live == [i \in 1 .. Len(es) - n |-> [es[n + i] EXCEPT !.due = FALSE]]
  <1>1. Len(es) \in Nat /\ DOMAIN es = 1 .. Len(es) /\ n \in Nat /\ n <= Len(es) /\ \A i \in DOMAIN es : es[i] \in Entries
    OBVIOUS
  <1>2. \A i \in 1 .. Len(es) - n : n + i \in DOMAIN es
    BY <1>1
  <1>3. \A e \in Entries : [e EXCEPT !.due = FALSE] \in Entries /\ [e EXCEPT !.due = FALSE].item = e.item
    BY DEF Entries
  <1>4. live \in Seq(Entries) /\ DOMAIN live = 1 .. Len(es) - n
    <2>1. \A i \in 1 .. Len(es) - n : [es[n + i] EXCEPT !.due = FALSE] \in Entries
      BY <1>1, <1>2, <1>3
    <2>. QED BY <1>1, <2>1
  <1>5. \A i \in 1 .. Len(es) - n : live[i].item = es[n + i].item
    BY <1>1, <1>2, <1>3
  <1>. HIDE DEF live
  <1>6. ParkedOnce(live)
    <2>. SUFFICES ASSUME NEW i \in DOMAIN live, NEW j \in DOMAIN live, live[i].item = live[j].item PROVE i = j
      BY DEF ParkedOnce
    <2>1. n + i \in DOMAIN es /\ n + j \in DOMAIN es /\ es[n + i].item = es[n + j].item
      BY <1>2, <1>4, <1>5
    <2>2. n + i = n + j
      BY <2>1 DEF ParkedOnce
    <2>. QED BY <1>1, <1>4, <2>2
  <1>7. \A k \in 1 .. n : k \in DOMAIN es
    BY <1>1
  <1>8. Parked(live) = Parked(es) \ Oldest(es, n)
    <2>1. ASSUME NEW x \in Parked(live) PROVE x \in Parked(es) /\ x \notin Oldest(es, n)
      <3>1. PICK i \in DOMAIN live : x = live[i].item
        BY DEF Parked
      <3>2. n + i \in DOMAIN es /\ x = es[n + i].item
        BY <1>2, <1>4, <1>5, <3>1
      <3>3. ASSUME NEW k \in 1 .. n, es[k].item = x PROVE FALSE
        <4>1. k = n + i
          BY <1>7, <3>2, <3>3 DEF ParkedOnce
        <4>. QED BY <1>1, <1>4, <4>1
      <3>. QED BY <3>2, <3>3 DEF Parked, Oldest
    <2>2. ASSUME NEW x \in Parked(es), x \notin Oldest(es, n) PROVE x \in Parked(live)
      <3>1. PICK k \in DOMAIN es : x = es[k].item
        BY DEF Parked
      <3>2. ~(k \in 1 .. n)
        BY <2>2, <3>1 DEF Oldest
      <3>3. k - n \in DOMAIN live /\ n + (k - n) = k
        BY <1>1, <1>4, <3>2
      <3>4. live[k - n].item = x
        BY <1>4, <1>5, <3>1, <3>3
      <3>. QED BY <3>3, <3>4 DEF Parked
    <2>. QED BY <2>1, <2>2
  <1>9. Oldest(es, n) \in SUBSET Parked(es)
    BY <1>7 DEF Oldest, Parked
  <1>10. Cardinality(Oldest(es, n)) \in Nat
    <2>1. IsFiniteSet(1 .. n)
      BY <1>1, FS_Interval
    <2>. DEFINE f == [i \in 1 .. n |-> es[i].item]
    <2>2. f \in Surjection(1 .. n, Oldest(es, n))
      BY DEF Surjection, Oldest
    <2>. HIDE DEF f
    <2>. QED BY <2>1, <2>2, FS_Surjection, FS_CardinalityType
  <1>. QED BY <1>4, <1>6, <1>8, <1>9, <1>10 DEF live

-----------------------------------------------------------------------------
(* The owners. *)

\* Thread t takes the items of D out, to destroy them; the rest is divided anew between
\* the users and the pool.
Gives(t, D) ==
    /\ entries' \in Seq(Entries) /\ ParkedOnce(entries')
    /\ D \in SUBSET Items /\ hand' \in SUBSET Items
    /\ dead' = [dead EXCEPT ![t] = D] /\ freed' = freed
    /\ hand' \cup Parked(entries') \cup D = hand \cup Parked(entries)
    /\ hand' \cap Parked(entries') = {} /\ hand' \cap D = {} /\ Parked(entries') \cap D = {}

\* The items are still divided then, if t had none.
LEMMA GivesDivides ==
  ASSUME IdleTypeOK, Divided(hand, Parked(entries), dead, freed), NEW t \in PoolThreads, dead[t] = {}, NEW D, Gives(t, D)
  PROVE  Divided(hand, Parked(entries), dead, freed)' /\ dead' \in [PoolThreads -> SUBSET Items]
  <1>1. dead \in [PoolThreads -> SUBSET Items]
    BY DEF IdleTypeOK, PoolThreads
  <1>2. /\ dead'[t] = D /\ \A r \in PoolThreads \ {t} : dead'[r] = dead[r]
        /\ dead' \in [PoolThreads -> SUBSET Items]
    BY <1>1 DEF Gives
  <1>. DEFINE P == Parked(entries)
              Q == Parked(entries')
  <1>3. /\ hand' \cup Q \cup D = hand \cup P /\ freed' = freed
        /\ hand' \cap Q = {} /\ hand' \cap D = {} /\ Q \cap D = {}
    BY DEF Gives
  <1>4. /\ hand \cap P = {} /\ hand \cap freed = {} /\ P \cap freed = {}
        /\ \A r \in PoolThreads : dead[r] \cap (hand \cup P \cup freed) = {}
        /\ \A s, r \in PoolThreads : s # r => dead[s] \cap dead[r] = {}
        /\ \A i \in Items : i \in hand \cup P \cup freed \/ \E r \in PoolThreads : i \in dead[r]
    BY DEF Divided
  <1>. HIDE DEF P, Q
  <1>5. hand' \cap freed = {} /\ Q \cap freed = {} /\ D \cap freed = {}
    BY <1>3, <1>4
  <1>6. \A r \in PoolThreads : dead'[r] \cap (hand' \cup Q \cup freed) = {}
    BY <1>2, <1>3, <1>4, <1>5
  <1>7. \A s, r \in PoolThreads : s # r => dead'[s] \cap dead'[r] = {}
    <2>1. \A r \in PoolThreads : r # t => dead'[r] \cap D = {}
      BY <1>2, <1>3, <1>4
    <2>. QED BY <1>2, <1>4, <2>1
  <1>8. \A i \in Items : i \in hand' \cup Q \cup freed \/ \E r \in PoolThreads : i \in dead'[r]
    <2>. SUFFICES ASSUME NEW i \in Items PROVE i \in hand' \cup Q \cup freed \/ \E r \in PoolThreads : i \in dead'[r]
      OBVIOUS
    <2>1. CASE i \in hand \cup P
      BY <1>2, <1>3, <2>1
    <2>2. CASE i \in freed
      BY <2>2
    <2>3. ASSUME NEW r \in PoolThreads, i \in dead[r] PROVE r # t /\ i \in dead'[r]
      BY <1>2, <2>3
    <2>. QED BY <1>4, <2>1, <2>2, <2>3
  <1>. QED BY <1>2, <1>3, <1>5, <1>6, <1>7, <1>8 DEF Divided, Q

\* And when t has destroyed what it took.
LEMMA FreesDivides ==
  ASSUME IdleTypeOK, Divided(hand, Parked(entries), dead, freed), NEW t \in PoolThreads,
         dead' = [dead EXCEPT ![t] = {}], freed' = freed \cup dead[t], UNCHANGED <<hand, entries>>
  PROVE  Divided(hand, Parked(entries), dead, freed)' /\ dead' \in [PoolThreads -> SUBSET Items] /\ freed' \in SUBSET Items
  <1>1. dead \in [PoolThreads -> SUBSET Items] /\ freed \in SUBSET Items
    BY DEF IdleTypeOK, PoolThreads
  <1>2. /\ dead'[t] = {} /\ \A r \in PoolThreads \ {t} : dead'[r] = dead[r]
        /\ dead' \in [PoolThreads -> SUBSET Items] /\ freed' \in SUBSET Items
    BY <1>1
  <1>3. Parked(entries') = Parked(entries) /\ hand' = hand
    OBVIOUS
  <1>. DEFINE P == Parked(entries)
  <1>4. /\ hand \cap P = {} /\ hand \cap freed = {} /\ P \cap freed = {}
        /\ \A r \in PoolThreads : dead[r] \cap (hand \cup P \cup freed) = {}
        /\ \A s, r \in PoolThreads : s # r => dead[s] \cap dead[r] = {}
        /\ \A i \in Items : i \in hand \cup P \cup freed \/ \E r \in PoolThreads : i \in dead[r]
    BY DEF Divided
  <1>. HIDE DEF P
  <1>5. hand \cap freed' = {} /\ P \cap freed' = {}
    BY <1>4
  <1>6. \A r \in PoolThreads : dead'[r] \cap (hand \cup P \cup freed') = {}
    BY <1>2, <1>4
  <1>7. \A s, r \in PoolThreads : s # r => dead'[s] \cap dead'[r] = {}
    BY <1>2, <1>4
  <1>8. \A i \in Items : i \in hand \cup P \cup freed' \/ \E r \in PoolThreads : i \in dead'[r]
    BY <1>2, <1>4
  <1>. QED BY <1>2, <1>3, <1>4, <1>5, <1>6, <1>7, <1>8 DEF Divided, P

-----------------------------------------------------------------------------
(* The calls. *)

\* What is known of the pool before each step.
LEMMA Known ==
  ASSUME PoolAssumption, IdleTypeOK, ParkedOnce(entries)
  PROVE  /\ entries \in Seq(Entries) /\ maxIdle \in Nat /\ hand \in SUBSET Items /\ stats \in [Counters -> Nat]
         /\ Parked(entries) \in SUBSET Items /\ Expired(entries) \in SUBSET Parked(entries)
         /\ \A X \in SUBSET Items : IsFiniteSet(X) /\ Cardinality(X) \in Nat
         /\ \A gone : /\ Without(entries, gone) \in Seq(Entries) /\ ParkedOnce(Without(entries, gone))
                      /\ Parked(Without(entries, gone)) = Parked(entries) \ gone
  <1>1. entries \in Seq(Entries) /\ hand \in SUBSET Items /\ stats \in [Counters -> Nat] /\ maxIdle \in Limits
    BY DEF IdleTypeOK, Entries
  <1>2. maxIdle \in Nat /\ IsFiniteSet(Items)
    BY <1>1 DEF PoolAssumption
  <1>3. \A X \in SUBSET Items : IsFiniteSet(X) /\ Cardinality(X) \in Nat
    BY <1>2, FS_Subset, FS_CardinalityType
  <1>4. Parked(entries) \in SUBSET Items /\ Expired(entries) \in SUBSET Parked(entries)
    BY <1>1, ParkedAre
  <1>5. \A gone : /\ Without(entries, gone) \in Seq(Entries) /\ ParkedOnce(Without(entries, gone))
                  /\ Parked(Without(entries, gone)) = Parked(entries) \ gone
    BY <1>1, WithoutIs
  <1>. QED BY <1>1, <1>2, <1>3, <1>4, <1>5

\* The counters.
LEMMA CountersAre ==
  /\ "parked" \in Counters /\ "rejected" \in Counters /\ "hits" \in Counters /\ "misses" \in Counters
  /\ "expired" \in Counters /\ "evictedForRoom" \in Counters /\ "releasedForMemory" \in Counters
  /\ "releasedByItem" \in Counters /\ "cleared" \in Counters
  BY DEF Counters, NoStats

\* Counters that grow.
LEMMA CountedOnce ==
  ASSUME NEW st \in [Counters -> Nat], NEW c \in Counters, NEW n \in Nat
  PROVE  [st EXCEPT ![c] = @ + n] \in [Counters -> Nat]
  <1>1. st[c] + n \in Nat
    OBVIOUS
  <1>. QED BY <1>1

LEMMA CountedTwice ==
  ASSUME NEW st \in [Counters -> Nat], NEW c \in Counters, NEW d \in Counters, c # d, NEW n \in Nat, NEW m \in Nat
  PROVE  [st EXCEPT ![c] = @ + n, ![d] = @ + m] \in [Counters -> Nat]
  <1>1. PICK st2 \in [Counters -> Nat] : st2 = [st EXCEPT ![c] = @ + n]
    BY CountedOnce
  <1>2. [st2 EXCEPT ![d] = @ + m] \in [Counters -> Nat]
    BY CountedOnce
  <1>3. [st2 EXCEPT ![d] = @ + m] = [st EXCEPT ![c] = @ + n, ![d] = @ + m]
    BY <1>1
  <1>. QED BY <1>2, <1>3

LEMMA CountedThrice ==
  ASSUME NEW st \in [Counters -> Nat], NEW c \in Counters, NEW d \in Counters, NEW e \in Counters,
         c # d, c # e, d # e, NEW n \in Nat, NEW m \in Nat, NEW k \in Nat
  PROVE  [st EXCEPT ![c] = @ + n, ![d] = @ + m, ![e] = @ + k] \in [Counters -> Nat]
  <1>1. PICK st2 \in [Counters -> Nat] : st2 = [st EXCEPT ![c] = @ + n, ![d] = @ + m]
    BY CountedTwice
  <1>2. [st2 EXCEPT ![e] = @ + k] \in [Counters -> Nat]
    BY CountedOnce
  <1>3. [st2 EXCEPT ![e] = @ + k] = [st EXCEPT ![c] = @ + n, ![d] = @ + m, ![e] = @ + k]
    BY <1>1
  <1>. QED BY <1>2, <1>3

\* What is due is parked, and counted.
LEMMA DueIs ==
  ASSUME PoolAssumption, IdleTypeOK, ParkedOnce(entries), NEW pressure \in BOOLEAN, NEW verdict,
         NEW st \in [Counters -> Nat]
  PROVE  LET due == Due(pressure, verdict) IN
         AllDue(due) \in SUBSET Parked(entries) /\ CountDue(st, due) \in [Counters -> Nat]
  <1>. DEFINE due == Due(pressure, verdict)
  <1>1. /\ Parked(Without(entries, Expired(entries))) \in SUBSET Parked(entries)
        /\ Expired(entries) \in SUBSET Parked(entries) /\ Parked(entries) \in SUBSET Items
        /\ \A X \in SUBSET Items : Cardinality(X) \in Nat
    BY Known
  <1>2. /\ due.expired \in SUBSET Parked(entries) /\ due.releasedForMemory \in SUBSET Parked(entries)
        /\ due.releasedByItem \in SUBSET Parked(entries)
    BY <1>1 DEF Due
  <1>. HIDE DEF due
  <1>3. /\ Cardinality(due.expired) \in Nat /\ Cardinality(due.releasedForMemory) \in Nat
        /\ Cardinality(due.releasedByItem) \in Nat
    BY <1>1, <1>2
  <1>4. CountDue(st, due) \in [Counters -> Nat]
    <2>1. PICK a, b, c : /\ a = Cardinality(due.expired) /\ b = Cardinality(due.releasedForMemory)
                         /\ c = Cardinality(due.releasedByItem)
      OBVIOUS
    <2>2. CountDue(st, due) = [st EXCEPT !.expired = @ + a, !.releasedForMemory = @ + b, !.releasedByItem = @ + c]
      BY <2>1 DEF CountDue
    <2>3. a \in Nat /\ b \in Nat /\ c \in Nat
      BY <1>3, <2>1
    <2>4. [st EXCEPT !.expired = @ + a, !.releasedForMemory = @ + b, !.releasedByItem = @ + c] \in [Counters -> Nat]
      BY <2>3, CountersAre, CountedThrice
    <2>. QED BY <2>2, <2>4
  <1>. QED BY <1>2, <1>4 DEF AllDue, due

\* A caller is idle and has nothing to destroy.
LEMMA CallerIs ==
  ASSUME IdleTypeOK, Busy, NEW u \in Users, MayCall(u)
  PROVE  u \in PoolThreads /\ dead[u] = {} /\ ~stopping /\ user[u] = "idle"
  BY DEF MayCall, Busy, PoolThreads

\* Items that are taken out of the pool are still divided.
LEMMA TakenOut ==
  ASSUME PoolAssumption, IdleTypeOK, ParkedOnce(entries), Divided(hand, Parked(entries), dead, freed),
         NEW t \in PoolThreads, NEW X \in SUBSET Parked(entries), entries' = Without(entries, X), hand' = hand, freed' = freed,
         dead' = [dead EXCEPT ![t] = X]
  PROVE  Gives(t, X)
  <1>1. Parked(entries') = Parked(entries) \ X /\ entries' \in Seq(Entries) /\ ParkedOnce(entries')
    BY Known
  <1>2. hand \in SUBSET Items /\ Parked(entries) \in SUBSET Items /\ hand \cap Parked(entries) = {}
    BY Known DEF Divided
  <1>. QED BY <1>1, <1>2 DEF Gives

\* What a take finds: a match at most, and none that is refused.
LEMMA FoundIs ==
  ASSUME NEW live \in Seq(Entries), ParkedOnce(live), NEW match \in SUBSET (DOMAIN live), NEW good \in SUBSET match
  PROVE  LET found == Newest(live, good)
             refused == {live[i].item : i \in {j \in match : \A k \in good : k < j}}
         IN  /\ found \in SUBSET Parked(live) /\ refused \in SUBSET Parked(live) /\ found \cap refused = {}
             /\ found = {} \/ \E x : found = {x}
  <1>. DEFINE Last == {j \in good : \A k \in good : k <= j}
              After == {j \in match : \A k \in good : k < j}
  <1>1. \A i \in DOMAIN live : i \in Nat
    OBVIOUS
  <1>2. \A i, j \in Last : i = j
    BY <1>1
  <1>3. \A i \in Last : i \in DOMAIN live /\ i \notin After
    BY <1>1
  <1>4. \A i \in After : i \in DOMAIN live
    OBVIOUS
  <1>. HIDE DEF Last, After
  <1>. DEFINE found == {live[i].item : i \in Last}
              refused == {live[i].item : i \in After}
  <1>5. found \in SUBSET Parked(live) /\ refused \in SUBSET Parked(live)
    BY <1>3, <1>4 DEF Parked
  <1>6. found \cap refused = {}
    BY <1>3, <1>4 DEF ParkedOnce
  <1>7. found = {} \/ \E x : found = {x}
    <2>1. CASE Last = {}
      BY <2>1
    <2>2. CASE Last # {}
      <3>1. PICK i \in Last : TRUE
        BY <2>2
      <3>2. found = {live[i].item}
        BY <1>2, <3>1
      <3>. QED BY <3>2
    <2>. QED BY <2>1, <2>2
  <1>. HIDE DEF found, refused
  <1>. QED BY <1>5, <1>6, <1>7 DEF found, refused, Newest, Last, After

\* take() hands one item out and releases others.
LEMMA TakeGives ==
  ASSUME PoolAssumption, PoolInv, NEW u \in Users, NEW key \in Keys, Take(u, key)
  PROVE  /\ \E D : Gives(u, D) /\ user' = [user EXCEPT ![u] = IF D = {} THEN "idle" ELSE "destroying"]
         /\ stats' \in [Counters -> Nat] /\ Parked(entries') \in SUBSET Parked(entries)
  <1>. USE DEF PoolInv
  <1>0. IdleTypeOK /\ ParkedOnce(entries) /\ hand \cap Parked(entries) = {}
    BY DEF Divided
  <1>1. PICK verdict \in Verdicts :
          LET expired == Expired(entries)
              live == Without(entries, expired)
              match == {i \in DOMAIN live : KeyOf[live[i].item] = key}
              good == {i \in match : live[i].item \notin verdict}
              found == Newest(live, good)
              refused == {live[i].item : i \in {j \in match : \A k \in good : k < j}}
          IN /\ entries' = Without(live, found \cup refused)
             /\ hand' = hand \cup found
             /\ Release(u, expired \cup refused)
             /\ stats' = [stats EXCEPT !.expired = @ + Cardinality(expired),
                                       !.releasedByItem = @ + Cardinality(refused),
                                       !.hits = @ + Cardinality(found),
                                       !.misses = @ + 1 - Cardinality(found)]
    BY DEF Take
  <1>. DEFINE expired == Expired(entries)
              live == Without(entries, expired)
              match == {i \in DOMAIN live : KeyOf[live[i].item] = key}
              good == {i \in match : live[i].item \notin verdict}
              found == Newest(live, good)
              refused == {live[i].item : i \in {j \in match : \A k \in good : k < j}}
  <1>2. /\ expired \in SUBSET Parked(entries) /\ Parked(entries) \in SUBSET Items /\ hand \in SUBSET Items
        /\ live \in Seq(Entries) /\ ParkedOnce(live) /\ Parked(live) = Parked(entries) \ expired
        /\ stats \in [Counters -> Nat] /\ \A X \in SUBSET Items : Cardinality(X) \in Nat
    BY <1>0, Known
  <1>3. /\ entries' = Without(live, found \cup refused)
        /\ hand' = hand \cup found
        /\ Release(u, expired \cup refused)
        /\ stats' = [stats EXCEPT !.expired = @ + Cardinality(expired),
                                  !.releasedByItem = @ + Cardinality(refused),
                                  !.hits = @ + Cardinality(found),
                                  !.misses = @ + 1 - Cardinality(found)]
    BY <1>1
  <1>4. match \in SUBSET (DOMAIN live) /\ good \in SUBSET match
    OBVIOUS
  <1>. HIDE DEF expired, live
  <1>5. /\ found \in SUBSET Parked(live) /\ refused \in SUBSET Parked(live) /\ found \cap refused = {}
        /\ found = {} \/ \E x : found = {x}
    <2>. HIDE DEF match, good
    <2>1. LET f == Newest(live, good)
              r == {live[i].item : i \in {j \in match : \A k \in good : k < j}}
          IN  /\ f \in SUBSET Parked(live) /\ r \in SUBSET Parked(live) /\ f \cap r = {}
              /\ f = {} \/ \E x : f = {x}
      <3>1. ParkedOnce(live) /\ live \in Seq(Entries)
        BY <1>2
      <3>. QED BY <1>4, <3>1, FoundIs, Zenon
    <2>. QED BY <2>1, Zenon
  <1>. HIDE DEF found, refused, match, good
  <1>6. /\ entries' \in Seq(Entries) /\ ParkedOnce(entries')
        /\ Parked(entries') = Parked(live) \ (found \cup refused)
    BY <1>2, <1>3, WithoutIs
  <1>7. Cardinality(found) \in {0, 1}
    BY <1>5, FS_EmptySet, FS_Singleton
  <1>8. stats' \in [Counters -> Nat]
    <2>1. Cardinality(expired) \in Nat /\ Cardinality(refused) \in Nat
      BY <1>2, <1>5
    <2>2. PICK a \in Nat, b \in Nat, c \in {0, 1} : a = Cardinality(expired) /\ b = Cardinality(refused) /\ c = Cardinality(found)
      BY <1>7, <2>1
    <2>3. stats' = [stats EXCEPT !.expired = @ + a, !.releasedByItem = @ + b, !.hits = @ + c, !.misses = @ + 1 - c]
      BY <1>3, <2>2
    <2>4. PICK st2 : st2 = [stats EXCEPT !.expired = @ + a, !.releasedByItem = @ + b, !.hits = @ + c]
      OBVIOUS
    <2>5. st2 \in [Counters -> Nat]
      <3>1. c \in Nat /\ stats \in [Counters -> Nat]
        BY <1>2
      <3>2. "expired" \in Counters /\ "releasedByItem" \in Counters /\ "hits" \in Counters
        BY CountersAre
      <3>. QED BY <2>4, <3>1, <3>2, CountedThrice
    <2>6. [st2 EXCEPT !.misses = @ + (1 - c)] \in [Counters -> Nat]
      <3>1. 1 - c \in Nat
        OBVIOUS
      <3>. QED BY <2>5, <3>1, CountersAre, CountedOnce
    <2>7. stats' = [st2 EXCEPT !.misses = @ + 1 - c]
      BY <2>3, <2>4
    <2>8. \A n \in Nat : n + (1 - c) = n + 1 - c
      OBVIOUS
    <2>. QED BY <2>5, <2>6, <2>7, <2>8, CountersAre
  <1>9. freed' = freed
    BY DEF Take
  <1>10. Gives(u, expired \cup refused)
    BY <1>0, <1>2, <1>3, <1>5, <1>6, <1>9 DEF Gives, Release
  <1>11. user' = [user EXCEPT ![u] = IF expired \cup refused = {} THEN "idle" ELSE "destroying"]
    BY <1>3 DEF Release
  <1>. QED BY <1>2, <1>6, <1>8, <1>10, <1>11

\* The oldest of the entries are parked.
LEMMA OldestAre ==
  ASSUME NEW es \in Seq(Entries), NEW n \in Int, n <= Len(es)
  PROVE  Oldest(es, n) \in SUBSET Parked(es)
  <1>1. \A i \in 1 .. n : i \in DOMAIN es
    OBVIOUS
  <1>. QED BY <1>1 DEF Oldest, Parked

\* The entries beyond the limit are parked.
LEMMA OverCapacityIs ==
  ASSUME NEW es \in Seq(Entries), NEW limit \in Nat
  PROVE  OverCapacity(es, limit) \in SUBSET Parked(es)
  <1>1. Len(es) - limit \in Int /\ Len(es) - limit <= Len(es)
    OBVIOUS
  <1>. QED BY <1>1, OldestAre DEF OverCapacity

\* No entries are parked once, trivially.
LEMMA NoneParked == <<>> \in Seq(Entries) /\ ParkedOnce(<<>>) /\ Parked(<<>>) = {}
  <1>1. <<>> \in Seq(Entries) /\ DOMAIN <<>> = {}
    OBVIOUS
  <1>. QED BY <1>1 DEF ParkedOnce, Parked

\* What a call leaves behind that destroys what it took out.
Leaves(u) ==
    /\ \E D : Gives(u, D) /\ user' = [user EXCEPT ![u] = IF D = {} THEN "idle" ELSE "destroying"]
    /\ stats' \in [Counters -> Nat]

\* park() that is refused takes some items out, and destroys the item as well.
LEMMA RefusedGives ==
  ASSUME PoolAssumption, PoolInv, NEW u \in Users, NEW i \in hand, NEW X \in SUBSET Parked(entries),
         entries' = Without(entries, X), hand' = hand \ {i}, freed' = freed, dead' = [dead EXCEPT ![u] = X \cup {i}]
  PROVE  Gives(u, X \cup {i})
  <1>. USE DEF PoolInv
  <1>1. Parked(entries') = Parked(entries) \ X /\ entries' \in Seq(Entries) /\ ParkedOnce(entries')
    BY Known
  <1>2. hand \in SUBSET Items /\ Parked(entries) \in SUBSET Items /\ hand \cap Parked(entries) = {}
    BY Known DEF Divided
  <1>. QED BY <1>1, <1>2 DEF Gives

\* park().
LEMMA ParkGives ==
  ASSUME PoolAssumption, PoolInv, NEW u \in Users, NEW i \in Items, Park(u, i)
  PROVE  Leaves(u)
  <1>. USE DEF PoolInv
  <1>0. /\ entries \in Seq(Entries) /\ maxIdle \in Nat /\ hand \in SUBSET Items /\ stats \in [Counters -> Nat]
        /\ Parked(entries) \in SUBSET Items /\ Expired(entries) \in SUBSET Parked(entries)
        /\ \A X \in SUBSET Items : Cardinality(X) \in Nat
        /\ \A gone : /\ Without(entries, gone) \in Seq(Entries) /\ ParkedOnce(Without(entries, gone))
                     /\ Parked(Without(entries, gone)) = Parked(entries) \ gone
    BY Known
  <1>1. i \in hand /\ hand' = hand \ {i} /\ freed' = freed /\ hand \cap Parked(entries) = {}
    BY DEF Park, Divided
  <1>2. CASE ParkRefused(u, i)
    <2>. DEFINE D == Expired(entries) \cup {i}
    <2>1. /\ entries' = Without(entries, Expired(entries)) /\ dead' = [dead EXCEPT ![u] = D]
          /\ user' = [user EXCEPT ![u] = IF D = {} THEN "idle" ELSE "destroying"]
      BY <1>2 DEF ParkRefused, Release
    <2>2. Gives(u, D)
      BY <1>0, <1>1, <2>1, RefusedGives
    <2>3. PICK a \in Nat : a = Cardinality(Expired(entries))
      BY <1>0
    <2>4. stats' = [stats EXCEPT !.expired = @ + a, !.rejected = @ + 1]
      BY <1>2, <2>3 DEF ParkRefused
    <2>5. stats' \in [Counters -> Nat]
      BY <1>0, <2>4, CountersAre, CountedTwice
    <2>. HIDE DEF D
    <2>. QED BY <2>1, <2>2, <2>5 DEF Leaves
  <1>3. CASE ParkUnderPressure(u, i)
    <2>1. PICK pressure \in BOOLEAN, verdict \in Verdicts :
              LET due == Due(pressure, verdict)
              IN /\ entries' = Without(entries, AllDue(due))
                 /\ stats' = [CountDue(stats, due) EXCEPT !.rejected = @ + 1]
                 /\ Release(u, AllDue(due) \cup {i})
      BY <1>3 DEF ParkUnderPressure
    <2>. DEFINE due == Due(pressure, verdict)
    <2>2. PICK X : X = AllDue(due)
      OBVIOUS
    <2>3. PICK st : st = CountDue(stats, due)
      OBVIOUS
    <2>4. X \in SUBSET Parked(entries) /\ st \in [Counters -> Nat]
      BY <1>0, <2>2, <2>3, DueIs
    <2>. HIDE DEF due
    <2>. DEFINE D == X \cup {i}
    <2>5. /\ entries' = Without(entries, X) /\ dead' = [dead EXCEPT ![u] = D]
          /\ user' = [user EXCEPT ![u] = IF D = {} THEN "idle" ELSE "destroying"]
          /\ stats' = [st EXCEPT !.rejected = @ + 1]
      BY <2>1, <2>2, <2>3 DEF Release, due
    <2>6. Gives(u, D)
      BY <1>1, <2>4, <2>5, RefusedGives
    <2>7. stats' \in [Counters -> Nat]
      BY <2>4, <2>5, CountersAre, CountedOnce
    <2>. HIDE DEF D
    <2>. QED BY <2>5, <2>6, <2>7 DEF Leaves
  <1>4. CASE ParkKept(u, i)
    <2>1. PICK expired : expired = Expired(entries)
      OBVIOUS
    <2>2. PICK live : live = Without(entries, expired)
      OBVIOUS
    <2>3. PICK kept : kept = Append(live, [item |-> i, due |-> FALSE])
      OBVIOUS
    <2>4. PICK over : over = OverCapacity(kept, maxIdle)
      OBVIOUS
    <2>5. /\ live \in Seq(Entries) /\ ParkedOnce(live) /\ Parked(live) = Parked(entries) \ expired
          /\ expired \in SUBSET Parked(entries)
      BY <1>0, <2>1, <2>2
    <2>6. i \notin Parked(live)
      BY <1>1, <2>5
    <2>7. kept \in Seq(Entries) /\ Parked(kept) = Parked(live) \cup {i} /\ ParkedOnce(kept)
      BY <2>3, <2>5, <2>6, AppendIs
    <2>8. over \in SUBSET Parked(kept)
      BY <1>0, <2>4, <2>7, OverCapacityIs
    <2>9. /\ entries' = Without(kept, over) /\ stats' = CountKept(expired, over)
          /\ Release(u, expired \cup over)
      BY <1>4, <2>1, <2>2, <2>3, <2>4 DEF ParkKept
    <2>10. entries' \in Seq(Entries) /\ ParkedOnce(entries') /\ Parked(entries') = Parked(kept) \ over
      BY <2>7, <2>9, WithoutIs
    <2>. DEFINE D == expired \cup over
    <2>11. dead' = [dead EXCEPT ![u] = D] /\ user' = [user EXCEPT ![u] = IF D = {} THEN "idle" ELSE "destroying"]
      BY <2>9 DEF Release
    <2>12. Gives(u, D)
      BY <1>0, <1>1, <2>5, <2>7, <2>8, <2>10, <2>11 DEF Gives
    <2>13. PICK a \in Nat, b \in Nat : a = Cardinality(expired) /\ b = Cardinality(over)
      BY <1>0, <1>1, <2>5, <2>7, <2>8
    <2>14. stats' = [stats EXCEPT !.expired = @ + a, !.parked = @ + 1, !.evictedForRoom = @ + b]
      BY <2>9, <2>13 DEF CountKept
    <2>15. stats' \in [Counters -> Nat]
      BY <1>0, <2>14, CountersAre, CountedThrice
    <2>. HIDE DEF D
    <2>. QED BY <2>11, <2>12, <2>15 DEF Leaves
  <1>. QED BY <1>2, <1>3, <1>4 DEF Park

\* trim().
LEMMA TrimGives == ASSUME PoolAssumption, PoolInv, NEW u \in Users, Trim(u) PROVE Leaves(u)
  <1>. USE DEF PoolInv
  <1>1. PICK pressure \in BOOLEAN, verdict \in Verdicts :
            LET due == Due(pressure, verdict)
            IN /\ entries' = Without(entries, AllDue(due))
               /\ stats' = CountDue(stats, due)
               /\ Release(u, AllDue(due))
    BY DEF Trim
  <1>. DEFINE due == Due(pressure, verdict)
  <1>2. PICK X : X = AllDue(due)
    OBVIOUS
  <1>3. stats \in [Counters -> Nat]
    BY Known
  <1>4. X \in SUBSET Parked(entries) /\ stats' \in [Counters -> Nat]
    BY <1>1, <1>2, <1>3, DueIs
  <1>. HIDE DEF due
  <1>5. /\ entries' = Without(entries, X) /\ dead' = [dead EXCEPT ![u] = X]
        /\ user' = [user EXCEPT ![u] = IF X = {} THEN "idle" ELSE "destroying"]
    BY <1>1, <1>2 DEF Release, due
  <1>6. hand' = hand /\ freed' = freed /\ u \in PoolThreads
    BY DEF Trim, PoolThreads
  <1>7. Gives(u, X)
    BY <1>4, <1>5, <1>6, TakenOut
  <1>. QED BY <1>4, <1>5, <1>7 DEF Leaves

\* setLimits().
LEMMA SetLimitsGives ==
  ASSUME PoolAssumption, PoolInv, NEW u \in Users, NEW limit \in Limits, SetLimits(u, limit)
  PROVE  Leaves(u) /\ Parked(entries') \in SUBSET Parked(entries)
  <1>1. PICK n \in 0 .. Len(entries) :
         LET expired == Oldest(entries, n)
             live == [i \in 1 .. Len(entries) - n |-> [entries[n + i] EXCEPT !.due = FALSE]]
             over == OverCapacity(live, limit)
         IN /\ entries' = Without(live, over)
            /\ maxIdle' = limit
            /\ stats' = [stats EXCEPT !.expired = @ + n,
                                      !.evictedForRoom = @ + Cardinality(over)]
            /\ Release(u, expired \cup over)
    BY DEF SetLimits
  <1>2. PICK expired : expired = Oldest(entries, n)
    OBVIOUS
  <1>3. PICK live : live = [i \in 1 .. Len(entries) - n |-> [entries[n + i] EXCEPT !.due = FALSE]]
    OBVIOUS
  <1>4. PICK over : over = OverCapacity(live, limit)
    OBVIOUS
  <1>5. /\ entries' = Without(live, over) /\ Release(u, expired \cup over)
        /\ stats' = [stats EXCEPT !.expired = @ + n, !.evictedForRoom = @ + Cardinality(over)]
    BY <1>1, <1>2, <1>3, <1>4
  <1>6. /\ entries \in Seq(Entries) /\ ParkedOnce(entries) /\ hand \in SUBSET Items /\ stats \in [Counters -> Nat]
        /\ Parked(entries) \in SUBSET Items /\ hand \cap Parked(entries) = {}
        /\ \A X \in SUBSET Items : Cardinality(X) \in Nat
    BY Known DEF Divided, PoolInv
  <1>7. /\ live \in Seq(Entries) /\ ParkedOnce(live)
        /\ Parked(live) = Parked(entries) \ expired /\ expired \in SUBSET Parked(entries)
    BY <1>2, <1>3, <1>6, YoungerAre
  <1>8. over \in SUBSET Parked(live)
    BY <1>4, <1>7, OverCapacityIs DEF PoolAssumption
  <1>9. entries' \in Seq(Entries) /\ ParkedOnce(entries') /\ Parked(entries') = Parked(live) \ over
    BY <1>5, <1>7, WithoutIs
  <1>. DEFINE D == expired \cup over
  <1>10. /\ dead' = [dead EXCEPT ![u] = D] /\ user' = [user EXCEPT ![u] = IF D = {} THEN "idle" ELSE "destroying"]
         /\ hand' = hand /\ freed' = freed
    BY <1>5 DEF Release, SetLimits
  <1>11. Gives(u, D)
    BY <1>6, <1>7, <1>8, <1>9, <1>10 DEF Gives
  <1>12. stats' \in [Counters -> Nat]
    <2>1. PICK b \in Nat : b = Cardinality(over)
      BY <1>6, <1>7, <1>8
    <2>2. stats' = [stats EXCEPT !.expired = @ + n, !.evictedForRoom = @ + b] /\ n \in Nat
      BY <1>5, <2>1
    <2>. QED BY <1>6, <2>1, <2>2, CountersAre, CountedTwice
  <1>. HIDE DEF D
  <1>. QED BY <1>7, <1>9, <1>10, <1>11, <1>12 DEF Leaves

\* clear() and the destructor take everything out.
LEMMA EmptiedGives ==
  ASSUME PoolAssumption, PoolInv, NEW u \in Users, dead' = [dead EXCEPT ![u] = Parked(entries)],
         stats' = [stats EXCEPT !.cleared = @ + Len(entries)], entries' = <<>>, hand' = hand, freed' = freed
  PROVE  Gives(u, Parked(entries)) /\ stats' \in [Counters -> Nat]
  <1>. USE DEF PoolInv
  <1>1. /\ entries \in Seq(Entries) /\ hand \in SUBSET Items /\ stats \in [Counters -> Nat]
        /\ Parked(entries) \in SUBSET Items /\ hand \cap Parked(entries) = {}
    BY Known DEF Divided
  <1>2. entries' \in Seq(Entries) /\ ParkedOnce(entries') /\ Parked(entries') = {}
    BY NoneParked
  <1>3. Gives(u, Parked(entries))
    BY <1>1, <1>2 DEF Gives
  <1>4. PICK n \in Nat : n = Len(entries)
    BY <1>1
  <1>5. stats' \in [Counters -> Nat]
    BY <1>1, <1>4, CountersAre, CountedOnce
  <1>. QED BY <1>3, <1>5

\* From no entries none are left.
LEMMA NothingFromNothing == ASSUME NEW gone PROVE Without(<<>>, gone) = <<>>
  <1>1. Without(<<>>, gone) \in Seq(Entries) /\ Parked(Without(<<>>, gone)) = {} \ gone
    BY NoneParked, WithoutIs
  <1>. QED BY <1>1, EmptyIs

-----------------------------------------------------------------------------
(* The reaper, and the world. *)

\* One pass that does not end the reaper takes some items out.
LEMMA LookGives ==
  ASSUME PoolAssumption, PoolInv, NEW r \in Reapers, ReaperLook(r), ~MustExit
  PROVE  /\ \E D : Gives(r, D) /\ reaper' = [reaper EXCEPT ![r] = IF D = {} THEN "asleep" ELSE "destroying"]
         /\ stats' \in [Counters -> Nat]
  <1>. USE DEF PoolInv
  <1>1. PICK pressure \in BOOLEAN, verdict \in Verdicts :
            LET due == Due(pressure, verdict)
            IN /\ entries' = Without(entries, AllDue(due))
               /\ stats' = CountDue(stats, due)
               /\ dead' = [dead EXCEPT ![r] = AllDue(due)]
               /\ reaper' = [reaper EXCEPT ![r] = IF AllDue(due) = {} THEN "asleep" ELSE "destroying"]
    BY DEF ReaperLook
  <1>. DEFINE due == Due(pressure, verdict)
  <1>2. PICK X : X = AllDue(due)
    OBVIOUS
  <1>3. stats \in [Counters -> Nat]
    BY Known
  <1>4. X \in SUBSET Parked(entries) /\ stats' \in [Counters -> Nat]
    BY <1>1, <1>2, <1>3, DueIs
  <1>. HIDE DEF due
  <1>5. /\ entries' = Without(entries, X) /\ dead' = [dead EXCEPT ![r] = X]
        /\ reaper' = [reaper EXCEPT ![r] = IF X = {} THEN "asleep" ELSE "destroying"]
    BY <1>1, <1>2 DEF due
  <1>6. hand' = hand /\ freed' = freed /\ r \in PoolThreads
    BY DEF ReaperLook, PoolThreads
  <1>7. Gives(r, X)
    BY <1>4, <1>5, <1>6, TakenOut
  <1>. QED BY <1>4, <1>5, <1>7

\* An entry that becomes due stays where it is.
LEMMA TimeIs ==
  ASSUME PoolInv, TimePasses
  PROVE  /\ entries' \in Seq(Entries) /\ ParkedOnce(entries') /\ Parked(entries') = Parked(entries)
         /\ entries # <<>>
  <1>. USE DEF PoolInv
  <1>1. entries \in Seq(Entries)
    BY DEF IdleTypeOK, Entries
  <1>2. PICK i \in DOMAIN entries : entries' = [entries EXCEPT ![i].due = TRUE]
    BY DEF TimePasses
  <1>3. PICK e : e = [entries[i] EXCEPT !.due = TRUE]
    OBVIOUS
  <1>4. entries[i] \in Entries
    BY <1>1
  <1>5. e \in Entries /\ e.item = entries[i].item
    BY <1>3, <1>4 DEF Entries
  <1>6. entries' = [entries EXCEPT ![i] = e]
    BY <1>2, <1>3
  <1>7. entries' \in Seq(Entries)
    BY <1>1, <1>5, <1>6
  <1>8. DOMAIN entries' = DOMAIN entries /\ \A k \in DOMAIN entries : entries'[k].item = entries[k].item
    BY <1>1, <1>5, <1>6
  <1>9. ParkedOnce(entries') /\ Parked(entries') = Parked(entries)
    BY <1>8 DEF ParkedOnce, Parked
  <1>10. entries # <<>>
    OBVIOUS
  <1>. QED BY <1>7, <1>9, <1>10

\* notify_all puts no reaper in a loop and takes none out of it.
LEMMA WokenIs ==
  ASSUME IdleTypeOK
  PROVE  /\ Woken(reaper) \in [Reapers -> {"unborn", "loop", "asleep", "destroying", "exiting", "gone"}]
         /\ \A r \in Reapers : /\ Woken(reaper)[r] = "destroying" <=> reaper[r] = "destroying"
                               /\ Woken(reaper)[r] \in {"loop", "asleep", "destroying"} <=> InLoop(r)
  <1>1. reaper \in [Reapers -> {"unborn", "loop", "asleep", "destroying", "exiting", "gone"}]
    BY DEF IdleTypeOK
  <1>. QED BY <1>1 DEF Woken, InLoop

\* The reapers are where they were, but for those that are woken.
Undisturbed ==
    /\ reaper' = reaper \/ reaper' = Woken(reaper)
    /\ reaperRunning' = reaperRunning /\ reaperThread' = reaperThread

LEMMA UndisturbedWatch ==
  ASSUME PoolInv, Undisturbed, failures' = failures, entries' # <<>> => entries # <<>>
  PROVE  ReaperWatches'
  <1>1. \A r \in Reapers : InLoop(r)' <=> InLoop(r)
    BY WokenIs DEF Undisturbed, PoolInv, InLoop
  <1>. QED BY <1>1 DEF ReaperWatches, PoolInv, Undisturbed

\* Each call of a user but park() leaves the reapers where they were.
LEMMA TakeWatch ==
  ASSUME PoolAssumption, PoolInv, NEW u \in Users, NEW key \in Keys, Take(u, key) PROVE ReaperWatches'
  <1>1. Parked(entries') \in SUBSET Parked(entries) /\ entries' \in Seq(Entries)
    BY TakeGives DEF Gives
  <1>2. entries \in Seq(Entries)
    BY Known DEF PoolInv
  <1>3. entries' # <<>> => entries # <<>>
    BY <1>1, <1>2, EmptyIs
  <1>4. Undisturbed /\ failures' = failures
    BY DEF Take, Undisturbed, reaping, bounds
  <1>. QED BY <1>3, <1>4, UndisturbedWatch

LEMMA SetLimitsWatch ==
  ASSUME PoolAssumption, PoolInv, NEW u \in Users, NEW limit \in Limits, SetLimits(u, limit) PROVE ReaperWatches'
  <1>1. Parked(entries') \in SUBSET Parked(entries) /\ entries' \in Seq(Entries)
    BY SetLimitsGives DEF Gives, Leaves
  <1>2. entries \in Seq(Entries)
    BY Known DEF PoolInv
  <1>3. entries' # <<>> => entries # <<>>
    BY <1>1, <1>2, EmptyIs
  <1>4. Undisturbed /\ failures' = failures
    BY DEF SetLimits, Undisturbed
  <1>. QED BY <1>3, <1>4, UndisturbedWatch

\* What is parked is watched, by the reaper that runs or by a new one.
LEMMA ParkWatch ==
  ASSUME PoolAssumption, PoolInv, NEW u \in Users, NEW i \in Items, Park(u, i) PROVE ReaperWatches'
  <1>1. ASSUME ParkRefused(u, i) \/ ParkUnderPressure(u, i) PROVE ReaperWatches'
    <2>1. \E X : entries' = Without(entries, X)
      BY <1>1 DEF ParkRefused, ParkUnderPressure
    <2>2. entries' # <<>> => entries # <<>>
      BY <2>1, NothingFromNothing
    <2>3. Undisturbed /\ failures' = failures
      BY <1>1 DEF ParkRefused, ParkUnderPressure, Undisturbed, reaping
    <2>. QED BY <2>2, <2>3, UndisturbedWatch
  <1>2. ASSUME ParkKept(u, i) PROVE ReaperWatches'
    <2>0. /\ reaper \in [Reapers -> {"unborn", "loop", "asleep", "destroying", "exiting", "gone"}]
          /\ failures \in Nat /\ reaperRunning \in BOOLEAN
      BY DEF PoolInv, IdleTypeOK
    <2>1. CASE reaperRunning
      <3>1. reaper' = Woken(reaper) /\ UNCHANGED <<reaperRunning, reaperThread, failures>>
        BY <1>2, <2>1 DEF ParkKept
      <3>2. \A r \in Reapers : InLoop(r)' <=> InLoop(r)
        BY <3>1, WokenIs DEF PoolInv, InLoop
      <3>. QED BY <2>1, <3>1, <3>2 DEF ReaperWatches, PoolInv
    <2>2. CASE ~reaperRunning
      <3>0. StartReaper /\ \A r \in Reapers : ~InLoop(r)
        BY <1>2, <2>2 DEF ParkKept, PoolInv, ReaperWatches
      <3>1. ASSUME NEW r \in Reapers, reaperRunning' = TRUE, reaper' = [reaper EXCEPT ![r] = "loop"]
            PROVE  ReaperWatches'
        <4>1. InLoop(r)' /\ \A q \in Reapers \ {r} : ~InLoop(q)'
          BY <2>0, <3>0, <3>1 DEF InLoop
        <4>. QED BY <3>1, <4>1 DEF ReaperWatches
      <3>2. ASSUME failures' = failures + 1, UNCHANGED reaping PROVE ReaperWatches'
        <4>1. failures' > 0 /\ UNCHANGED <<reaper, reaperRunning>>
          BY <2>0, <3>2 DEF reaping
        <4>. QED BY <2>2, <3>0, <4>1 DEF ReaperWatches, InLoop
      <3>. QED BY <3>0, <3>1, <3>2 DEF StartReaper
    <2>. QED BY <2>0, <2>1, <2>2
  <1>. QED BY <1>1, <1>2 DEF Park

LEMMA TrimWatch == ASSUME PoolAssumption, PoolInv, NEW u \in Users, Trim(u) PROVE ReaperWatches'
  <1>1. Undisturbed /\ failures' = failures /\ entries # <<>>
    BY DEF Trim, Undisturbed, reaping, bounds
  <1>. QED BY <1>1, UndisturbedWatch

LEMMA ClearWatch == ASSUME PoolAssumption, PoolInv, NEW u \in Users, Clear(u) PROVE ReaperWatches'
  <1>1. Undisturbed /\ failures' = failures /\ entries' = <<>>
    BY DEF Clear, Undisturbed, bounds
  <1>. QED BY <1>1, UndisturbedWatch

LEMMA DestroyPoolWatch == ASSUME PoolAssumption, PoolInv, NEW u \in Users, DestroyPool(u) PROVE ReaperWatches'
  <1>1. Undisturbed /\ failures' = failures /\ entries' = <<>>
    BY DEF DestroyPool, Undisturbed, bounds
  <1>. QED BY <1>1, UndisturbedWatch

\* A reaper that stays in its loop, or stays out of it, leaves the pool as watched as it was.
LEMMA InLoopWatch ==
  ASSUME PoolInv, NEW r \in Reapers, NEW where, reaper' = [reaper EXCEPT ![r] = where],
         InLoop(r) <=> where \in {"loop", "asleep", "destroying"},
         reaperRunning' = reaperRunning, failures' = failures, entries' # <<>> => entries # <<>>
  PROVE  ReaperWatches'
  <1>1. reaper \in [Reapers -> {"unborn", "loop", "asleep", "destroying", "exiting", "gone"}]
    BY DEF PoolInv, IdleTypeOK
  <1>2. \A q \in Reapers : InLoop(q)' <=> InLoop(q)
    BY <1>1 DEF InLoop
  <1>. QED BY <1>2 DEF ReaperWatches, PoolInv

\* A reaper leaves its loop for good when there is nothing left to watch, or by a failure.
LEMMA OutOfLoopWatch ==
  ASSUME PoolInv, NEW r \in Reapers, reaper' = [reaper EXCEPT ![r] = "exiting"], InLoop(r),
         reaperRunning' = FALSE, entries' = <<>> \/ failures' > 0
  PROVE  ReaperWatches'
  <1>1. reaper \in [Reapers -> {"unborn", "loop", "asleep", "destroying", "exiting", "gone"}]
    BY DEF PoolInv, IdleTypeOK
  <1>2. \A q \in Reapers \ {r} : ~InLoop(q) /\ reaper'[q] = reaper[q]
    BY <1>1 DEF PoolInv, ReaperWatches
  <1>3. \A q \in Reapers : ~InLoop(q)'
    BY <1>1, <1>2 DEF InLoop
  <1>. QED BY <1>3 DEF ReaperWatches

LEMMA LookWatch == ASSUME PoolAssumption, PoolInv, NEW r \in Reapers, ReaperLook(r) PROVE ReaperWatches'
  <1>1. reaper[r] = "loop" /\ InLoop(r) /\ failures' = failures
    BY DEF ReaperLook, InLoop, bounds
  <1>2. CASE MustExit
    <2>1. reaperRunning' = FALSE /\ reaper' = [reaper EXCEPT ![r] = "exiting"] /\ entries' = entries
      BY <1>2 DEF ReaperLook, lists
    <2>2. entries = <<>>
      BY <1>2 DEF MustExit, PoolInv
    <2>. QED BY <1>1, <2>1, <2>2, OutOfLoopWatch
  <1>3. CASE ~MustExit
    <2>1. reaperRunning' = reaperRunning
      BY <1>3 DEF ReaperLook
    <2>2. PICK where \in {"asleep", "destroying"} : reaper' = [reaper EXCEPT ![r] = where]
      BY <1>3, LookGives
    <2>3. entries # <<>>
      BY <1>3 DEF MustExit
    <2>. QED BY <1>1, <2>1, <2>2, <2>3, InLoopWatch
  <1>. QED BY <1>2, <1>3

LEMMA ReaperWatch ==
  ASSUME PoolAssumption, PoolInv, NEW r \in Reapers, ReaperStep(r) \/ ReaperThrow(r)
  PROVE  ReaperWatches'
  <1>1. CASE ReaperLook(r)
    BY <1>1, LookWatch
  <1>2. CASE ReaperDestroy(r)
    <2>1. /\ reaper[r] = "destroying" /\ reaper' = [reaper EXCEPT ![r] = "loop"]
          /\ UNCHANGED <<reaperRunning, failures, entries>>
      BY <1>2 DEF ReaperDestroy, lists, bounds
    <2>. QED BY <2>1, InLoopWatch DEF InLoop
  <1>3. CASE ReaperWake(r)
    <2>1. /\ reaper[r] = "asleep" /\ reaper' = [reaper EXCEPT ![r] = "loop"]
          /\ UNCHANGED <<reaperRunning, failures, entries>>
      BY <1>3 DEF ReaperWake, lists, bounds
    <2>. QED BY <2>1, InLoopWatch DEF InLoop
  <1>4. CASE ReaperExit(r)
    <2>1. /\ reaper[r] = "exiting" /\ reaper' = [reaper EXCEPT ![r] = "gone"]
          /\ UNCHANGED <<reaperRunning, failures, entries>>
      BY <1>4 DEF ReaperExit, lists, bounds
    <2>. QED BY <2>1, InLoopWatch DEF InLoop
  <1>5. CASE ReaperThrow(r)
    <2>1. /\ reaper[r] = "loop" /\ reaper' = [reaper EXCEPT ![r] = "exiting"]
          /\ reaperRunning' = FALSE /\ failures' = failures + 1
      BY <1>5 DEF ReaperThrow
    <2>2. failures' > 0 /\ InLoop(r)
      BY <2>1 DEF PoolInv, IdleTypeOK, InLoop
    <2>. QED BY <2>1, <2>2, OutOfLoopWatch
  <1>. QED BY <1>1, <1>2, <1>3, <1>4, <1>5 DEF ReaperStep

\* Parked items stay watched.
LEMMA WatchStep == ASSUME PoolAssumption, PoolInv, [IdleNext]_idleVars PROVE ReaperWatches'
  <1>1. ASSUME NEW u \in Users, DestroyItem(u) \/ ClearReturn(u) PROVE ReaperWatches'
    <2>1. Undisturbed /\ UNCHANGED <<failures, entries>>
      BY <1>1 DEF DestroyItem, ClearReturn, Undisturbed, lists, reaping, bounds
    <2>. QED BY <2>1, UndisturbedWatch
  <1>2. CASE TimePasses
    <2>1. Undisturbed /\ failures' = failures
      BY <1>2 DEF TimePasses, Undisturbed, reaping, bounds
    <2>. QED BY <1>2, <2>1, TimeIs, UndisturbedWatch
  <1>3. ASSUME NEW i \in Items, Sicken(i) PROVE ReaperWatches'
    <2>1. Undisturbed /\ UNCHANGED <<failures, entries>>
      BY <1>3 DEF Sicken, Undisturbed, lists, reaping, bounds
    <2>. QED BY <2>1, UndisturbedWatch
  <1>4. CASE Finished \/ UNCHANGED idleVars
    <2>1. Undisturbed /\ UNCHANGED <<failures, entries>>
      BY <1>4 DEF Finished, Undisturbed, idleVars, lists, reaping, bounds
    <2>. QED BY <2>1, UndisturbedWatch
  <1>5. ASSUME NEW u \in Users,
               \/ \E key \in Keys : Take(u, key)
               \/ \E i \in Items : Park(u, i)
               \/ \E limit \in Limits : SetLimits(u, limit)
               \/ Trim(u) \/ Clear(u) \/ DestroyPool(u) \/ UserStep(u)
        PROVE  ReaperWatches'
    BY <1>1, <1>5, TakeWatch, ParkWatch, SetLimitsWatch, TrimWatch, ClearWatch, DestroyPoolWatch DEF UserStep
  <1>6. ASSUME NEW r \in Reapers, ReaperStep(r) \/ ReaperThrow(r) PROVE ReaperWatches'
    BY <1>6, ReaperWatch
  <1>. QED BY <1>2, <1>3, <1>4, <1>5, <1>6 DEF IdleNext

-----------------------------------------------------------------------------
(* Types and owners. *)

\* What the actions leave alone or change little.
OtherTypes ==
    /\ maxIdle \in Limits
    /\ reaperRunning \in BOOLEAN /\ stopping \in BOOLEAN
    /\ reaperThread \in Reapers \cup {NoReaper}
    /\ reaper \in [Reapers -> {"unborn", "loop", "asleep", "destroying", "exiting", "gone"}]
    /\ sick \subseteq Items
    /\ waitFor \in [Users -> Reapers \cup {NoReaper}]
    /\ failures \in Nat /\ timeouts \in Nat /\ settings \in Nat

\* The items and the entries, and whose they are.
Owned ==
    /\ entries \in Seq(Entries) /\ stats \in [Counters -> Nat]
    /\ hand \subseteq Items /\ freed \subseteq Items
    /\ dead \in [PoolThreads -> SUBSET Items]
    /\ user \in [Users -> {"idle", "destroying", "clearing", "waiting"}]
    /\ ParkedOnce(entries) /\ Divided(hand, Parked(entries), dead, freed) /\ Busy

LEMMA InvIs == PoolInv <=> OtherTypes /\ Owned /\ ReaperWatches /\ (stopping => entries = <<>>)
  BY DEF PoolInv, IdleTypeOK, OtherTypes, Owned, Entries, PoolThreads

\* The items are owned after a step in which user u takes some out.
LEMMA UserOwns ==
  ASSUME PoolAssumption, PoolInv, NEW u \in Users, dead[u] = {}, NEW D, Gives(u, D), stats' \in [Counters -> Nat],
         NEW where \in {"idle", "destroying", "clearing"}, user' = [user EXCEPT ![u] = where],
         where = "idle" => D = {}, reaper' = reaper \/ reaper' = Woken(reaper) \/ \E r \in Reapers : reaper' = [reaper EXCEPT ![r] = "loop"] /\ reaper[r] = "unborn"
  PROVE  Owned'
  <1>1. u \in PoolThreads /\ u \notin Reapers /\ \A r \in Reapers : r \in PoolThreads /\ r # u
    BY DEF PoolThreads, PoolAssumption
  <1>2. Divided(hand, Parked(entries), dead, freed)' /\ dead' \in [PoolThreads -> SUBSET Items]
    BY <1>1, GivesDivides DEF PoolInv
  <1>3. /\ entries' \in Seq(Entries) /\ ParkedOnce(entries)' /\ hand' \subseteq Items /\ freed' = freed
        /\ dead' = [dead EXCEPT ![u] = D]
    BY DEF Gives
  <1>4. freed \subseteq Items /\ user \in [Users -> {"idle", "destroying", "clearing", "waiting"}] /\ Busy
        /\ dead \in [PoolThreads -> SUBSET Items]
    BY InvIs DEF Owned
  <1>5. user' \in [Users -> {"idle", "destroying", "clearing", "waiting"}]
    BY <1>4
  <1>6. dead'[u] = D /\ \A t \in PoolThreads \ {u} : dead'[t] = dead[t]
    BY <1>1, <1>3, <1>4
  <1>7. \A v \in Users : user'[v] \in {"idle", "waiting"} => dead'[v] = {}
    <2>1. \A v \in Users \ {u} : user'[v] = user[v] /\ v \in PoolThreads
      BY <1>4 DEF PoolThreads
    <2>2. user'[u] = where
      BY <1>4
    <2>. QED BY <1>4, <1>6, <2>1, <2>2 DEF Busy
  <1>8. \A r \in Reapers : reaper'[r] # "destroying" => dead'[r] = {}
    <2>1. reaper \in [Reapers -> {"unborn", "loop", "asleep", "destroying", "exiting", "gone"}] /\ IdleTypeOK
      BY DEF PoolInv, IdleTypeOK
    <2>2. \A r \in Reapers : reaper[r] = "destroying" => reaper'[r] = "destroying"
      BY <2>1, WokenIs
    <2>. QED BY <1>1, <1>4, <1>6, <2>2 DEF Busy
  <1>. QED BY <1>2, <1>3, <1>4, <1>5, <1>7, <1>8 DEF Owned, Busy

LEMMA LeavesOwns ==
  ASSUME PoolAssumption, PoolInv, NEW u \in Users, dead[u] = {}, Leaves(u),
         reaper' = reaper \/ reaper' = Woken(reaper) \/ \E r \in Reapers : reaper' = [reaper EXCEPT ![r] = "loop"] /\ reaper[r] = "unborn"
  PROVE  Owned'
  <1>1. PICK D : Gives(u, D) /\ user' = [user EXCEPT ![u] = IF D = {} THEN "idle" ELSE "destroying"]
    BY DEF Leaves
  <1>2. PICK where : where = IF D = {} THEN "idle" ELSE "destroying"
    OBVIOUS
  <1>3. /\ where \in {"idle", "destroying", "clearing"} /\ (where = "idle" => D = {})
        /\ user' = [user EXCEPT ![u] = where]
    BY <1>1, <1>2
  <1>4. stats' \in [Counters -> Nat]
    BY DEF Leaves
  <1>. QED BY <1>1, <1>3, <1>4, UserOwns

\* The calls.
LEMMA CallOwns ==
  ASSUME PoolAssumption, PoolInv, NEW u \in Users,
         \/ \E key \in Keys : Take(u, key)
         \/ \E i \in Items : Park(u, i)
         \/ \E limit \in Limits : SetLimits(u, limit)
         \/ Trim(u)
  PROVE  Owned' /\ OtherTypes' /\ stopping' = stopping /\ ~stopping
  <1>0. OtherTypes /\ IdleTypeOK /\ Busy
    BY InvIs DEF PoolInv
  <1>1. MayCall(u)
    BY DEF Take, Park, SetLimits, Trim
  <1>2. dead[u] = {} /\ ~stopping
    BY <1>0, <1>1, CallerIs
  <1>3. ASSUME NEW key \in Keys, Take(u, key) PROVE Owned' /\ OtherTypes' /\ stopping' = stopping
    <2>1. Leaves(u)
      BY <1>3, TakeGives DEF Leaves
    <2>2. UNCHANGED <<maxIdle, reaperRunning, reaperThread, reaper, stopping, sick, waitFor, failures, timeouts, settings>>
      BY <1>3 DEF Take, reaping, bounds
    <2>3. Owned'
      BY <1>2, <2>1, <2>2, LeavesOwns
    <2>. QED BY <1>0, <2>2, <2>3 DEF OtherTypes
  <1>4. ASSUME NEW i \in Items, Park(u, i) PROVE Owned' /\ OtherTypes' /\ stopping' = stopping
    <2>1. Leaves(u)
      BY <1>4, ParkGives
    <2>2. UNCHANGED <<maxIdle, stopping, sick, waitFor, timeouts, settings>>
      BY <1>4 DEF Park
    <2>3. /\ reaperRunning' \in BOOLEAN /\ reaperThread' \in Reapers \cup {NoReaper} /\ failures' \in Nat
          /\ reaper' = reaper \/ reaper' = Woken(reaper) \/ \E r \in Reapers : reaper' = [reaper EXCEPT ![r] = "loop"] /\ reaper[r] = "unborn"
      <3>1. ASSUME UNCHANGED <<reaping, failures>>
            PROVE  /\ reaperRunning' \in BOOLEAN /\ reaperThread' \in Reapers \cup {NoReaper} /\ failures' \in Nat
                   /\ reaper' = reaper
        BY <1>0, <3>1 DEF OtherTypes, reaping
      <3>2. CASE ParkRefused(u, i) \/ ParkUnderPressure(u, i)
        BY <3>1, <3>2 DEF ParkRefused, ParkUnderPressure
      <3>3. CASE ParkKept(u, i)
        <4>1. CASE reaperRunning
          BY <1>0, <3>3, <4>1 DEF ParkKept, OtherTypes
        <4>2. CASE ~reaperRunning
          <5>1. StartReaper
            BY <3>3, <4>2 DEF ParkKept
          <5>2. ASSUME NEW r \in Reapers, reaper[r] = "unborn", reaperRunning' = TRUE, reaperThread' = r,
                       reaper' = [reaper EXCEPT ![r] = "loop"], UNCHANGED failures
                PROVE  /\ reaperRunning' \in BOOLEAN /\ reaperThread' \in Reapers \cup {NoReaper} /\ failures' \in Nat
                       /\ \E q \in Reapers : reaper' = [reaper EXCEPT ![q] = "loop"] /\ reaper[q] = "unborn"
            BY <1>0, <5>2 DEF OtherTypes
          <5>3. ASSUME failures' = failures + 1, UNCHANGED reaping
                PROVE  /\ reaperRunning' \in BOOLEAN /\ reaperThread' \in Reapers \cup {NoReaper} /\ failures' \in Nat
                       /\ reaper' = reaper
            BY <1>0, <5>3 DEF OtherTypes, reaping
          <5>. QED BY <5>1, <5>2, <5>3 DEF StartReaper
        <4>. QED BY <4>1, <4>2
      <3>. QED BY <1>4, <3>2, <3>3 DEF Park
    <2>4. reaper' \in [Reapers -> {"unborn", "loop", "asleep", "destroying", "exiting", "gone"}]
      BY <1>0, <2>3, WokenIs DEF OtherTypes
    <2>5. Owned'
      BY <1>2, <2>1, <2>3, LeavesOwns
    <2>. QED BY <1>0, <2>2, <2>3, <2>4, <2>5 DEF OtherTypes
  <1>5. ASSUME NEW limit \in Limits, SetLimits(u, limit) PROVE Owned' /\ OtherTypes' /\ stopping' = stopping
    <2>1. Leaves(u)
      BY <1>5, SetLimitsGives
    <2>2. /\ maxIdle' = limit /\ settings' = settings + 1 /\ reaper' = Woken(reaper)
          /\ UNCHANGED <<reaperRunning, reaperThread, stopping, sick, waitFor, failures, timeouts>>
      BY <1>5 DEF SetLimits
    <2>3. Owned'
      BY <1>2, <2>1, <2>2, LeavesOwns
    <2>. QED BY <1>0, <2>2, <2>3, WokenIs DEF OtherTypes
  <1>6. ASSUME Trim(u) PROVE Owned' /\ OtherTypes' /\ stopping' = stopping
    <2>1. Leaves(u)
      BY <1>6, TrimGives
    <2>2. UNCHANGED <<maxIdle, reaperRunning, reaperThread, reaper, stopping, sick, waitFor, failures, timeouts, settings>>
      BY <1>6 DEF Trim, reaping, bounds
    <2>3. Owned'
      BY <1>2, <2>1, <2>2, LeavesOwns
    <2>. QED BY <1>0, <2>2, <2>3 DEF OtherTypes
  <1>. QED BY <1>2, <1>3, <1>4, <1>5, <1>6

\* clear() and the destructor, which leave nothing parked.
LEMMA EmptyOwns ==
  ASSUME PoolAssumption, PoolInv, NEW u \in Users, Clear(u) \/ DestroyPool(u)
  PROVE  Owned' /\ OtherTypes' /\ entries' = <<>>
  <1>0. OtherTypes /\ IdleTypeOK /\ Busy
    BY InvIs DEF PoolInv
  <1>1. MayCall(u) /\ dead' = [dead EXCEPT ![u] = Parked(entries)]
        /\ stats' = [stats EXCEPT !.cleared = @ + Len(entries)] /\ entries' = <<>> /\ hand' = hand /\ freed' = freed
        /\ reaper' = Woken(reaper) /\ UNCHANGED <<maxIdle, reaperRunning, reaperThread, sick, failures, timeouts, settings>>
    BY DEF Clear, DestroyPool, Release, MayCall, bounds
  <1>2. dead[u] = {}
    BY <1>0, <1>1, CallerIs
  <1>3. Gives(u, Parked(entries)) /\ stats' \in [Counters -> Nat]
    BY <1>1, EmptiedGives
  <1>4. Owned'
    <2>1. CASE Clear(u)
      <3>1. user' = [user EXCEPT ![u] = "clearing"]
        BY <2>1 DEF Clear
      <3>. QED BY <1>1, <1>2, <1>3, <3>1, UserOwns
    <2>2. CASE DestroyPool(u)
      <3>1. user' = [user EXCEPT ![u] = IF Parked(entries) = {} THEN "idle" ELSE "destroying"]
        BY <2>2 DEF DestroyPool, Release
      <3>2. Leaves(u)
        BY <1>3, <3>1 DEF Leaves
      <3>. QED BY <1>1, <1>2, <3>2, LeavesOwns
    <2>. QED BY <2>1, <2>2
  <1>5. stopping' \in BOOLEAN /\ waitFor' \in [Users -> Reapers \cup {NoReaper}]
    BY <1>0 DEF OtherTypes, Clear, DestroyPool
  <1>. QED BY <1>0, <1>1, <1>4, <1>5, WokenIs DEF OtherTypes

\* The other steps of a user.
LEMMA UserStepOwns ==
  ASSUME PoolAssumption, PoolInv, NEW u \in Users, UserStep(u)
  PROVE  Owned' /\ OtherTypes' /\ entries' = entries /\ stopping' = stopping
  <1>0. OtherTypes /\ IdleTypeOK /\ Busy /\ Owned /\ u \in PoolThreads /\ u \notin Reapers
    BY InvIs DEF PoolInv, PoolThreads, PoolAssumption
  <1>1. CASE DestroyItem(u)
    <2>1. /\ freed' = freed \cup dead[u] /\ dead' = [dead EXCEPT ![u] = {}]
          /\ user' = [user EXCEPT ![u] = IF @ = "clearing" THEN "waiting" ELSE "idle"]
          /\ UNCHANGED <<entries, maxIdle, stats, reaperRunning, reaperThread, reaper, stopping, hand, sick, waitFor,
                         failures, timeouts, settings>>
      BY <1>1 DEF DestroyItem, lists, reaping, bounds
    <2>2. Divided(hand, Parked(entries), dead, freed)' /\ dead' \in [PoolThreads -> SUBSET Items] /\ freed' \in SUBSET Items
      BY <1>0, <2>1, FreesDivides DEF PoolInv
    <2>3. user' \in [Users -> {"idle", "destroying", "clearing", "waiting"}]
      BY <1>0, <2>1 DEF Owned
    <2>4. Busy'
      <3>1. dead'[u] = {} /\ \A t \in PoolThreads \ {u} : dead'[t] = dead[t]
        BY <1>0, <2>1 DEF Owned
      <3>2. \A v \in Users \ {u} : user'[v] = user[v] /\ v \in PoolThreads
        BY <1>0, <2>1 DEF Owned, PoolThreads
      <3>3. \A r \in Reapers : r \in PoolThreads /\ r # u
        BY <1>0 DEF PoolThreads
      <3>. QED BY <1>0, <2>1, <3>1, <3>2, <3>3 DEF Busy
    <2>. QED BY <1>0, <2>1, <2>2, <2>3, <2>4 DEF Owned, OtherTypes
  <1>2. CASE ClearReturn(u)
    <2>1. /\ user[u] = "waiting" /\ user' = [user EXCEPT ![u] = "idle"] /\ waitFor' = [waitFor EXCEPT ![u] = NoReaper]
          /\ timeouts' = timeouts \/ timeouts' = timeouts + 1
          /\ UNCHANGED <<entries, maxIdle, stats, reaperRunning, reaperThread, reaper, stopping, hand, dead, freed, sick,
                         failures, settings>>
      BY <1>2 DEF ClearReturn, lists, reaping, items
    <2>2. user' \in [Users -> {"idle", "destroying", "clearing", "waiting"}] /\ waitFor' \in [Users -> Reapers \cup {NoReaper}]
      BY <1>0, <2>1 DEF Owned, OtherTypes
    <2>3. Busy'
      <3>1. dead[u] = {} /\ \A v \in Users \ {u} : user'[v] = user[v]
        BY <1>0, <2>1 DEF Busy, Owned
      <3>. QED BY <1>0, <2>1, <3>1 DEF Busy
    <2>. QED BY <1>0, <2>1, <2>2, <2>3 DEF Owned, OtherTypes
  <1>. QED BY <1>1, <1>2 DEF UserStep

\* The steps of a reaper.
LEMMA ReaperOwns ==
  ASSUME PoolAssumption, PoolInv, NEW r \in Reapers, ReaperStep(r) \/ ReaperThrow(r)
  PROVE  Owned' /\ OtherTypes' /\ stopping' = stopping /\ (stopping => entries' = entries)
  <1>0. OtherTypes /\ IdleTypeOK /\ Busy /\ Owned /\ r \in PoolThreads /\ r \notin Users
    BY InvIs DEF PoolInv, PoolThreads, PoolAssumption
  <1>. DEFINE Places == {"unborn", "loop", "asleep", "destroying", "exiting", "gone"}
  <1>1. \A where \in Places : [reaper EXCEPT ![r] = where] \in [Reapers -> Places]
    BY <1>0 DEF OtherTypes
  <1>2. ASSUME NEW where \in Places, reaper' = [reaper EXCEPT ![r] = where], dead[r] = {},
               UNCHANGED <<lists, stopping, reaperThread, items, sick, user, waitFor, timeouts, settings>>,
               reaperRunning' \in BOOLEAN, failures' \in Nat
        PROVE  Owned' /\ OtherTypes'
    <2>1. UNCHANGED <<entries, maxIdle, stats, hand, dead, freed>>
      BY <1>2 DEF lists, items
    <2>2. Busy'
      <3>1. \A q \in Reapers \ {r} : reaper'[q] = reaper[q]
        BY <1>0, <1>2 DEF OtherTypes
      <3>. QED BY <1>0, <1>2, <2>1, <3>1 DEF Busy
    <2>. QED BY <1>0, <1>1, <1>2, <2>1, <2>2 DEF Owned, OtherTypes
  <1>3. CASE ReaperLook(r)
    <2>1. /\ reaper[r] = "loop" /\ dead[r] = {}
          /\ UNCHANGED <<reaperThread, stopping, hand, freed, sick, user, waitFor, failures, timeouts, settings>>
      BY <1>0, <1>3 DEF ReaperLook, Busy, bounds
    <2>2. CASE MustExit
      <3>1. reaperRunning' = FALSE /\ reaper' = [reaper EXCEPT ![r] = "exiting"] /\ UNCHANGED <<lists, dead>>
        BY <1>3, <2>2 DEF ReaperLook
      <3>2. UNCHANGED <<lists, stopping, reaperThread, items, sick, user, waitFor, timeouts, settings>> /\ entries' = entries
        BY <2>1, <3>1 DEF items, lists
      <3>3. Owned' /\ OtherTypes'
        BY <1>0, <1>2, <2>1, <3>1, <3>2 DEF OtherTypes
      <3>. QED BY <2>1, <3>2, <3>3
    <2>3. CASE ~MustExit
      <3>1. PICK D : Gives(r, D) /\ reaper' = [reaper EXCEPT ![r] = IF D = {} THEN "asleep" ELSE "destroying"]
        BY <1>3, <2>3, LookGives
      <3>2. stats' \in [Counters -> Nat]
        BY <1>3, <2>3, LookGives
      <3>3. PICK where : where = IF D = {} THEN "asleep" ELSE "destroying"
        OBVIOUS
      <3>4. where \in Places /\ (where # "destroying" => D = {}) /\ reaper' = [reaper EXCEPT ![r] = where]
        BY <3>1, <3>3
      <3>5. UNCHANGED <<reaperRunning, maxIdle>> /\ ~stopping
        BY <1>3, <2>3 DEF ReaperLook, MustExit
      <3>6. Divided(hand, Parked(entries), dead, freed)' /\ dead' \in [PoolThreads -> SUBSET Items]
        BY <1>0, <2>1, <3>1, GivesDivides DEF PoolInv
      <3>7. Busy'
        <4>1. dead' = [dead EXCEPT ![r] = D] /\ dead \in [PoolThreads -> SUBSET Items]
          BY <1>0, <3>1 DEF Gives, Owned
        <4>2. dead'[r] = D /\ \A t \in PoolThreads \ {r} : dead'[t] = dead[t]
          BY <1>0, <4>1
        <4>3. reaper'[r] = where /\ \A q \in Reapers \ {r} : reaper'[q] = reaper[q] /\ q \in PoolThreads
          BY <1>0, <3>4 DEF OtherTypes, PoolThreads
        <4>4. \A u \in Users : u \in PoolThreads /\ u # r
          BY <1>0 DEF PoolThreads
        <4>. QED BY <1>0, <2>1, <3>4, <4>2, <4>3, <4>4 DEF Busy
      <3>8. entries' \in Seq(Entries) /\ ParkedOnce(entries)'
        BY <3>1 DEF Gives
      <3>9. Owned'
        BY <1>0, <2>1, <3>2, <3>6, <3>7, <3>8 DEF Owned
      <3>10. OtherTypes'
        BY <1>0, <1>1, <2>1, <3>4, <3>5 DEF OtherTypes
      <3>. QED BY <2>1, <3>5, <3>9, <3>10
    <2>. QED BY <2>2, <2>3
  <1>4. CASE ReaperDestroy(r)
    <2>1. /\ freed' = freed \cup dead[r] /\ dead' = [dead EXCEPT ![r] = {}] /\ reaper' = [reaper EXCEPT ![r] = "loop"]
          /\ UNCHANGED <<entries, maxIdle, stats, reaperRunning, reaperThread, stopping, hand, sick, user, waitFor,
                         failures, timeouts, settings>>
      BY <1>4 DEF ReaperDestroy, lists, bounds
    <2>2. Divided(hand, Parked(entries), dead, freed)' /\ dead' \in [PoolThreads -> SUBSET Items] /\ freed' \in SUBSET Items
      BY <1>0, <2>1, FreesDivides DEF PoolInv
    <2>3. Busy'
      <3>1. dead'[r] = {} /\ \A t \in PoolThreads \ {r} : dead'[t] = dead[t]
        BY <1>0, <2>1 DEF Owned
      <3>2. \A q \in Reapers \ {r} : reaper'[q] = reaper[q] /\ q \in PoolThreads
        BY <1>0, <2>1 DEF OtherTypes, PoolThreads
      <3>3. \A u \in Users : u \in PoolThreads /\ u # r
        BY <1>0 DEF PoolThreads
      <3>. QED BY <1>0, <2>1, <3>1, <3>2, <3>3 DEF Busy
    <2>4. Owned'
      BY <1>0, <2>1, <2>2, <2>3 DEF Owned
    <2>. QED BY <1>0, <1>1, <2>1, <2>4 DEF OtherTypes
  <1>5. ASSUME NEW where \in Places, reaper' = [reaper EXCEPT ![r] = where], reaper[r] # "destroying",
               UNCHANGED <<lists, reaperThread, stopping, items, sick, user, waitFor, timeouts, settings>>,
               reaperRunning' \in BOOLEAN, failures' \in Nat
        PROVE  Owned' /\ OtherTypes' /\ stopping' = stopping /\ (stopping => entries' = entries)
    <2>1. dead[r] = {} /\ entries' = entries
      BY <1>0, <1>5 DEF Busy, lists
    <2>2. Owned' /\ OtherTypes'
      BY <1>2, <1>5, <2>1
    <2>. QED BY <1>5, <2>1, <2>2
  <1>6. reaperRunning \in BOOLEAN /\ failures \in Nat /\ failures + 1 \in Nat
    BY <1>0 DEF OtherTypes
  <1>7. CASE ReaperWake(r)
    BY <1>5, <1>6, <1>7 DEF ReaperWake, bounds
  <1>8. CASE ReaperExit(r)
    BY <1>5, <1>6, <1>8 DEF ReaperExit, bounds
  <1>9. CASE ReaperThrow(r)
    BY <1>5, <1>6, <1>9 DEF ReaperThrow
  <1>. QED BY <1>3, <1>4, <1>7, <1>8, <1>9 DEF ReaperStep

\* The types and the owners are kept, and a pool that is gone holds nothing.
LEMMA OwnersStep ==
  ASSUME PoolAssumption, PoolInv, [IdleNext]_idleVars
  PROVE  Owned' /\ OtherTypes' /\ (stopping => entries = <<>>)'
  <1>0. OtherTypes /\ Owned /\ (stopping => entries = <<>>)
    BY InvIs
  <1>1. ASSUME NEW u \in Users,
               \/ \E key \in Keys : Take(u, key)
               \/ \E i \in Items : Park(u, i)
               \/ \E limit \in Limits : SetLimits(u, limit)
               \/ Trim(u) \/ Clear(u) \/ DestroyPool(u) \/ UserStep(u)
        PROVE  Owned' /\ OtherTypes' /\ (stopping => entries = <<>>)'
    BY <1>0, <1>1, CallOwns, EmptyOwns, UserStepOwns
  <1>2. ASSUME NEW r \in Reapers, ReaperStep(r) \/ ReaperThrow(r)
        PROVE  Owned' /\ OtherTypes' /\ (stopping => entries = <<>>)'
    BY <1>0, <1>2, ReaperOwns
  <1>3. CASE TimePasses
    <2>1. UNCHANGED <<maxIdle, stats, reaperRunning, reaperThread, reaper, stopping, hand, dead, freed, sick, user, waitFor,
                      failures, timeouts, settings>>
      BY <1>3 DEF TimePasses, reaping, items, bounds
    <2>2. entries' \in Seq(Entries) /\ ParkedOnce(entries') /\ Parked(entries') = Parked(entries) /\ entries # <<>>
      BY <1>3, TimeIs
    <2>. QED BY <1>0, <2>1, <2>2 DEF Owned, OtherTypes, Busy, Divided
  <1>4. ASSUME NEW i \in Items, Sicken(i) PROVE Owned' /\ OtherTypes' /\ (stopping => entries = <<>>)'
    BY <1>0, <1>4 DEF Sicken, Owned, OtherTypes, Busy, Divided, lists, reaping, items, bounds
  <1>5. CASE Finished \/ UNCHANGED idleVars
    BY <1>0, <1>5 DEF Finished, idleVars, Owned, OtherTypes, Busy, Divided, lists, reaping, items, bounds
  <1>. QED BY <1>1, <1>2, <1>3, <1>4, <1>5 DEF IdleNext

LEMMA InvInit == ASSUME PoolAssumption, IdleInit PROVE PoolInv
  <1>1. Owned
    <2>1. NoStats \in [Counters -> Nat]
      BY DEF NoStats, Counters
    <2>2. \A t \in PoolThreads : dead[t] = {}
      BY DEF IdleInit, PoolThreads
    <2>3. Divided(hand, Parked(entries), dead, freed) /\ ParkedOnce(entries) /\ entries \in Seq(Entries)
      BY <2>2, NoneParked DEF IdleInit, Divided
    <2>4. Busy
      BY <2>2 DEF Busy, PoolThreads
    <2>. QED BY <2>1, <2>3, <2>4 DEF IdleInit, Owned, PoolThreads
  <1>2. OtherTypes
    BY DEF IdleInit, OtherTypes, PoolAssumption
  <1>3. ReaperWatches
    BY DEF IdleInit, ReaperWatches, InLoop
  <1>. QED BY <1>1, <1>2, <1>3, InvIs DEF IdleInit

LEMMA InvStep == ASSUME PoolAssumption, PoolInv, [IdleNext]_idleVars PROVE PoolInv'
  <1>1. Owned' /\ OtherTypes' /\ (stopping => entries = <<>>)'
    BY OwnersStep
  <1>2. ReaperWatches'
    BY WatchStep
  <1>3. (PoolInv <=> OtherTypes /\ Owned /\ ReaperWatches /\ (stopping => entries = <<>>))'
    BY InvIs, PTL
  <1>. QED BY <1>1, <1>2, <1>3

\* Who owns an item.
LEMMA OwnerIs == ASSUME PoolAssumption, PoolInv PROVE OneOwner
  <1>1. /\ entries \in Seq(Entries) /\ ParkedOnce(entries) /\ Divided(hand, Parked(entries), dead, freed)
        /\ {"hand", "pool", "freed"} \cap (Users \cup Reapers) = {}
    BY InvIs DEF Owned, PoolAssumption
  <1>2. Len(entries) = Cardinality(Parked(entries))
    BY <1>1, ParkedAre
  <1>3. ASSUME NEW i \in Items
        PROVE  Cardinality({o \in {"hand", "pool", "freed"} \cup Users \cup Reapers :
                   \/ o = "hand" /\ i \in hand
                   \/ o = "pool" /\ i \in Parked(entries)
                   \/ o = "freed" /\ i \in freed
                   \/ o \in Users \cup Reapers /\ i \in dead[o]}) = 1
    <2>. DEFINE P == Parked(entries)
                owners == {o \in {"hand", "pool", "freed"} \cup Users \cup Reapers :
                             \/ o = "hand" /\ i \in hand
                             \/ o = "pool" /\ i \in P
                             \/ o = "freed" /\ i \in freed
                             \/ o \in Users \cup Reapers /\ i \in dead[o]}
    <2>1. /\ hand \cap P = {} /\ hand \cap freed = {} /\ P \cap freed = {}
          /\ \A t \in Users \cup Reapers : dead[t] \cap (hand \cup P \cup freed) = {}
          /\ \A t, r \in Users \cup Reapers : t # r => dead[t] \cap dead[r] = {}
          /\ i \in hand \cup P \cup freed \/ \E t \in Users \cup Reapers : i \in dead[t]
      BY <1>1 DEF Divided, PoolThreads
    <2>2. \A t \in Users \cup Reapers : t # "hand" /\ t # "pool" /\ t # "freed"
      BY <1>1
    <2>. HIDE DEF P
    <2>3. \E o : owners = {o}
      <3>1. CASE i \in hand
        <4>1. owners = {"hand"}
          BY <2>1, <2>2, <3>1
        <4>. QED BY <4>1
      <3>2. CASE i \in P
        <4>1. owners = {"pool"}
          BY <2>1, <2>2, <3>2
        <4>. QED BY <4>1
      <3>3. CASE i \in freed
        <4>1. owners = {"freed"}
          BY <2>1, <2>2, <3>3
        <4>. QED BY <4>1
      <3>4. ASSUME NEW t \in Users \cup Reapers, i \in dead[t] PROVE owners = {t}
        BY <2>1, <2>2, <3>4
      <3>. QED BY <2>1, <3>1, <3>2, <3>3, <3>4
    <2>. HIDE DEF owners
    <2>4. Cardinality(owners) = 1
      BY <2>3, FS_Singleton
    <2>. QED BY <2>4 DEF owners, P
  <1>. QED BY <1>2, <1>3 DEF OneOwner

LEMMA InvHolds == ASSUME PoolAssumption PROVE IdleSpec => []PoolInv
  <1>1. IdleInit => PoolInv
    BY InvInit
  <1>2. PoolInv /\ [IdleNext]_idleVars => PoolInv'
    BY InvStep
  <1>. QED BY <1>1, <1>2, PTL DEF IdleSpec

-----------------------------------------------------------------------------
(* The theorems. *)

\* Every variable of the idle pool keeps its type.
THEOREM PoolTypeCorrect == ASSUME PoolAssumption PROVE IdleSpec => []IdleTypeOK
  <1>1. PoolInv => IdleTypeOK
    BY DEF PoolInv
  <1>. QED BY <1>1, InvHolds, PTL

\* Whatever park, take, trim, setLimits, clear, the destructor and the reapers do to
\* each other, each item has one owner: a user, the pool once, one thread that destroys
\* it, or nobody any more.
THEOREM ItemsHaveOneOwner == ASSUME PoolAssumption PROVE IdleSpec => []OneOwner
  <1>1. PoolInv => OneOwner
    BY OwnerIs
  <1>. QED BY <1>1, InvHolds, PTL

\* As long as something is parked a reaper watches it, unless one could not be had, and
\* there are never two.
THEOREM ParkedItemsAreWatched == ASSUME PoolAssumption PROVE IdleSpec => []ReaperWatches
  <1>1. PoolInv => ReaperWatches
    BY DEF PoolInv
  <1>. QED BY <1>1, InvHolds, PTL

=============================================================================
