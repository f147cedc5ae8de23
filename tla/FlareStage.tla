------------------------------- MODULE FlareStage -------------------------------
(***************************************************************************)
(* The Premiere importer's removal of sun ghosts: which model a frame      *)
(* renders with.  A model is fitted on a frame and describes every frame   *)
(* whose sun is where that frame had it; it is adopted into the buckets    *)
(* around.  Exact requests fit on the spot, interactive ones hand the fit  *)
(* to a background worker, and a look-up (a draft, the carve of a seam)    *)
(* has no picture to find the sun in.                                      *)
(*                                                                         *)
(* A model is named by the frame it was fitted on, by whom, and the        *)
(* settings (their generation).  The sun of a frame is a position, the     *)
(* distance of two positions the one the tolerance is compared with.       *)
(***************************************************************************)
EXTENDS Absence, Integers, SequencesExt

CONSTANTS
    Frames,           \* the frames the host asks for
    Sun,              \* where the sun is in each, or None
    Tolerance,        \* flareSunTolerancePx()
    BucketFrames,     \* kParallaxBucketFrames
    MaxModels,        \* kMaxModelsPerBucket
    MaxBuckets,       \* kMaxBuckets
    Borrow,           \* kBorrowBuckets
    MaxUpsets         \* bound: resets, quiets, failed checks and fits, threads that do not start

Kinds == {"exact", "interactive", "look-up"}
BucketOf(i) == i \div BucketFrames

\* Fits to do, and the models fitted.
Jobs == [on : Frames, gen : Nat]
Entries == [on : Frames, gen : Nat, by : {"render", "worker"}]

ASSUME FlareAssumption ==
    /\ Frames \subseteq Nat /\ DOMAIN Sun = Frames
    /\ \A i \in Frames : Sun[i] = None \/ Sun[i] \in Int
    /\ Tolerance \in Nat /\ BucketFrames \in Nat \ {0} /\ Borrow \in Nat
    /\ MaxModels \in Nat \ {0} /\ MaxBuckets \in Nat \ {0} /\ MaxUpsets \in Nat
    /\ None \notin Int \cup Jobs \cup Entries

VARIABLES
    \* under m_mutex
    models,        \* m_models: bucket -> entries, frames and checked
    pending,       \* m_pending: a job or None
    busy,          \* m_busy: a job's bucket and sun, or None
    stop,          \* m_stop
    generation,    \* m_generation
    \* control
    deciding,      \* the render thread, inside decide() or stop()
    worker,        \* the background worker
    upsets         \* so far, of MaxUpsets

flareVars == <<models, pending, busy, stop, generation, deciding, worker, upsets>>
locked == <<models, pending, busy, stop, generation>>

NoBucket == [entries |-> <<>>, frames |-> <<>>, checked |-> <<>>]
NotDeciding == [at |-> "idle", index |-> None, kind |-> "exact"]
Asleep == [at |-> "wait", job |-> None]

FlareInit ==
    /\ models = <<>> /\ pending = None /\ busy = None /\ stop = FALSE /\ generation = 0
    /\ deciding = NotDeciding /\ worker = [Asleep EXCEPT !.at = "none"]
    /\ upsets = 0

FlareUpset == upsets < MaxUpsets /\ upsets' = upsets + 1
-----------------------------------------------------------------------------
\* The models known

Abs(x) == IF x < 0 THEN -x ELSE x
Matches(s, t) == IF s = None \/ t = None THEN s = t ELSE Abs(s - t) <= Tolerance

With(f, x, v) == [y \in DOMAIN f \cup {x} |-> IF y = x THEN v ELSE f[y]]
BucketOr(m, b) == IF b \in DOMAIN m THEN m[b] ELSE NoBucket
Bucket(b) == BucketOr(models, b)

\* bestMatch(): the closest usable one, the first of several.
Best(entries, sun) ==
    LET usable == {n \in DOMAIN entries : Matches(Sun[entries[n].on], sun)}
        distance(n) == Abs(Sun[entries[n].on] - sun)
        closest == {n \in usable : \A k \in usable : distance(n) <= distance(k)}
    IN  IF usable = {} THEN None ELSE entries[Min(closest)]

\* findUsableLocked(): the bucket's own, then its neighbours', nearest first
\* and the earlier first.
Find(b, sun) ==
    LET order == [n \in 1 .. 2 * Borrow + 1 |->
                     IF n % 2 = 0 THEN b - n \div 2 ELSE b + n \div 2]
        with == {n \in DOMAIN order : Best(Bucket(order[n]).entries, sun) # None}
    IN  IF with = {} THEN None ELSE Best(Bucket(order[Min(with)]).entries, sun)

\* trimBuckets(): the lowest bucket goes, or the highest when the lowest is
\* the one being kept.
Trim(m, keep) ==
    LET lowest == Min(DOMAIN m)
        victim == IF lowest = keep THEN Max(DOMAIN m) ELSE lowest
    IN  IF Cardinality(DOMAIN m) <= MaxBuckets \/ victim = keep THEN m
        ELSE [b \in DOMAIN m \ {victim} |-> m[b]]

\* storeLocked(): one more entry, the oldest going; it may be there already.
Stored(m, b, e) ==
    LET entries == BucketOr(m, b).entries
        more == Append(entries, e)
    IN  IF Contains(entries, e) THEN m
        ELSE Trim(With(m, b, [BucketOr(m, b) EXCEPT
                     !.entries = IF Len(more) > MaxModels THEN Tail(more) ELSE more]), b)

\* assignLocked(): the frame has its answer, None when there is no sun in it.
Assigned(m, i, e) ==
    LET b == BucketOf(i)
        o == BucketOr(m, b)
    IN  Trim(With(m, b, [entries |-> o.entries, frames |-> With(o.frames, i, e),
                         checked |-> [j \in DOMAIN o.checked \ {i} |-> o.checked[j]]]), b)

\* A model that fits is adopted into the frame's bucket and is the frame's.
Adopted(i, e) == Assigned(Stored(models, BucketOf(i), e), i, e)

HasAnswer(i) == i \in DOMAIN Bucket(BucketOf(i)).frames
-----------------------------------------------------------------------------
\* The render thread: decide()

Goes(at) == deciding' = [deciding EXCEPT !.at = at]
Job(i, gen) == [on |-> i, gen |-> gen]
Entry(job, by) == [on |-> job.on, gen |-> job.gen, by |-> by]

Decide(i, kind) ==
    /\ deciding.at = "idle"
    /\ deciding' = [at |-> "known", index |-> i, kind |-> kind]
    /\ UNCHANGED <<locked, worker, upsets>>

\* Mutant: the frame's own answer is not looked at.
NeverAnswered(i) == FALSE

KeepsAnswer(i) == HasAnswer(i)

\* A frame already answered keeps its answer; a look-up may adopt a model for
\* the sun that an interactive request has found in the frame.
Known ==
    LET i == deciding.index
        checked == Bucket(BucketOf(i)).checked
        fit == IF deciding.kind = "look-up" /\ i \in DOMAIN checked
               THEN Find(BucketOf(i), checked[i]) ELSE None
    IN  /\ deciding.at = "known"
        /\ \/ /\ KeepsAnswer(i)
              /\ deciding' = NotDeciding /\ UNCHANGED models
           \/ /\ ~KeepsAnswer(i) /\ fit # None
              /\ models' = Adopted(i, fit) /\ deciding' = NotDeciding
           \/ /\ ~KeepsAnswer(i) /\ fit = None
              /\ deciding' = IF deciding.kind = "look-up" THEN NotDeciding
                             ELSE [deciding EXCEPT !.at = "sun"]
              /\ UNCHANGED models
        /\ UNCHANGED <<pending, busy, stop, generation, worker, upsets>>

\* locateSuns(); a failed check answers the frame this once.
LocateSun ==
    /\ deciding.at = "sun"
    /\ \/ Goes(IF Sun[deciding.index] = None THEN "no sun" ELSE "find") /\ UNCHANGED upsets
       \/ FlareUpset /\ deciding' = NotDeciding
    /\ UNCHANGED <<locked, worker>>

NoSun ==
    /\ deciding.at = "no sun"
    /\ models' = Assigned(models, deciding.index, None)
    /\ deciding' = NotDeciding
    /\ UNCHANGED <<pending, busy, stop, generation, worker, upsets>>

InHand(i) ==
    \/ pending # None /\ BucketOf(pending.on) = BucketOf(i) /\ Matches(Sun[pending.on], Sun[i])
    \/ busy # None /\ BucketOf(busy) = BucketOf(i) /\ Matches(Sun[busy], Sun[i])

\* Adopt what fits; else fit now, or hand the images to the worker unless it
\* has this bucket at this sun.
FindModel ==
    LET i == deciding.index
        fit == Find(BucketOf(i), Sun[i])
    IN  /\ deciding.at = "find"
        /\ \/ /\ fit # None
              /\ models' = Adopted(i, fit) /\ deciding' = NotDeciding
           \/ /\ fit = None /\ Goes(IF deciding.kind = "exact" THEN "fit"
                                   ELSE IF InHand(i) THEN "miss" ELSE "queue")
              /\ UNCHANGED models
        /\ UNCHANGED <<pending, busy, stop, generation, worker, upsets>>

\* A fit that fails leaves the frame unanswered.
Fit ==
    /\ deciding.at = "fit"
    /\ LET e == Entry(Job(deciding.index, generation), "render") IN
       \/ models' = Adopted(deciding.index, e) /\ UNCHANGED upsets
       \/ FlareUpset /\ UNCHANGED models
    /\ deciding' = NotDeciding
    /\ UNCHANGED <<pending, busy, stop, generation, worker>>

\* One slot, the latest wins; the worker is started in the same section.
Queue ==
    /\ deciding.at = "queue"
    /\ \/ /\ pending' = Job(deciding.index, generation)
          /\ worker' = IF worker.at = "none" THEN Asleep ELSE worker
          /\ UNCHANGED upsets
       \/ /\ worker.at = "none" /\ FlareUpset
          /\ pending' = None /\ UNCHANGED worker
       \/ /\ FlareUpset /\ UNCHANGED <<pending, worker>>    \* the working images failed
    /\ Goes("miss")
    /\ UNCHANGED <<models, busy, stop, generation>>

\* The frame goes without, not final; its sun is kept for a look-up.
Miss ==
    /\ deciding.at = "miss"
    /\ LET b == BucketOf(deciding.index) IN
       /\ models' = Trim(With(models, b, [Bucket(b) EXCEPT
                            !.checked = With(@, deciding.index, Sun[deciding.index])]), b)
    /\ deciding' = NotDeciding
    /\ UNCHANGED <<pending, busy, stop, generation, worker, upsets>>

\* reset(), on a change of the settings.
Reset ==
    /\ models' = <<>> /\ pending' = None /\ generation' = generation + 1

SetPrefs ==
    /\ deciding.at = "idle" /\ FlareUpset
    /\ Reset
    /\ UNCHANGED <<busy, stop, deciding, worker>>

\* A quiet: stop(), which joins the worker, and reset().
StopStage ==
    /\ deciding.at = "idle" /\ FlareUpset
    /\ stop' = TRUE /\ pending' = None
    /\ Goes("join")
    /\ UNCHANGED <<models, busy, generation, worker>>

Quieted ==
    /\ deciding.at = "join" /\ worker.at \in {"none", "ended"}
    /\ stop' = FALSE /\ worker' = [Asleep EXCEPT !.at = "none"]
    /\ Reset /\ deciding' = NotDeciding
    /\ UNCHANGED <<busy, upsets>>

Render == Known \/ LocateSun \/ NoSun \/ FindModel \/ Fit \/ Queue \/ Miss \/ Quieted
-----------------------------------------------------------------------------
\* The worker: workerLoop()

TakeJob ==
    /\ worker.at = "wait" /\ ~stop /\ pending # None
    /\ worker' = [at |-> "fit", job |-> pending]
    /\ busy' = pending.on /\ pending' = None
    /\ UNCHANGED <<models, stop, generation, deciding, upsets>>

\* Mutant: a model of before a reset is stored.
StillWanted(job) == ~stop

Wanted(job) == job.gen = generation /\ ~stop

\* Fitted with no lock held, then no longer busy and stored in one section.
StoreFitted ==
    LET job == worker.job
        b == BucketOf(job.on)
    IN  /\ worker.at = "fit"
        /\ busy' = None /\ worker' = Asleep
        /\ \/ /\ Wanted(job)
              /\ models' = Stored(models, b, Entry(job, "worker"))
              /\ UNCHANGED upsets
           \/ ~Wanted(job) /\ UNCHANGED <<models, upsets>>
           \/ FlareUpset /\ UNCHANGED models
        /\ UNCHANGED <<pending, stop, generation, deciding>>

WorkerExit ==
    /\ worker.at = "wait" /\ stop
    /\ worker' = [worker EXCEPT !.at = "ended"]
    /\ UNCHANGED <<locked, deciding, upsets>>

Worker == TakeJob \/ StoreFitted \/ WorkerExit

FlareNext ==
    \/ \E i \in Frames, kind \in Kinds : Decide(i, kind)
    \/ SetPrefs \/ StopStage \/ Render \/ Worker

FlareSpec == FlareInit /\ [][FlareNext]_flareVars
-----------------------------------------------------------------------------
\* A frame renders with a model for its own sun, fitted under the settings in
\* force, and so does every frame that adopts one.
ModelsFit ==
    \A b \in DOMAIN models :
        /\ \A n \in DOMAIN models[b].entries : models[b].entries[n].gen = generation
        /\ \A i \in DOMAIN models[b].frames :
              LET e == models[b].frames[i] IN
              IF Sun[i] = None THEN e = None
              ELSE e # None /\ e.gen = generation /\ Matches(Sun[e.on], Sun[i])
        /\ DOMAIN models[b].frames \cap DOMAIN models[b].checked = {}

\* "A frame keeps its first answer", as long as its bucket is kept: neither the
\* worker's closer models nor the ones that age out of the bucket replace it.
AnswerIsKept ==
    [][generation' = generation =>
         \A b \in DOMAIN models \cap DOMAIN models' : \A i \in DOMAIN models[b].frames :
            i \in DOMAIN models'[b].frames /\ models'[b].frames[i] = models[b].frames[i]]_flareVars
=============================================================================
