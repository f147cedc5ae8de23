------------------------------ MODULE SteadyStage ------------------------------
(***************************************************************************)
(* The Premiere importer's per-clip analyses: the lens rotation, the mount *)
(* mask, and the clip correction measured through both.  Every instance of *)
(* a clip has a stage of its own, driven by the instance's thread and      *)
(* served by one background worker; the answers and the keys being         *)
(* measured are shared by the whole process.                               *)
(*                                                                         *)
(* An answer is named by the key it was measured for; a rotation's also    *)
(* says whether the fit was accepted.  The clip correction's key holds the *)
(* rig it was measured through.                                            *)
(***************************************************************************)
EXTENDS Integers, Sequences, SequencesExt, FiniteSetsExt

CONSTANTS
    Stages,            \* the instances of the clip
    Requests,          \* rotation, mount and clip: the key or parameters, or None
    None,
    Sharing,           \* whether the file's identity can be read and the caches are on
    MaxCachedClips,    \* kMaxCachedClips
    MaxGenerations,    \* bound: the generations of all the stages together
    MaxFailures        \* bound: failed measurements, exceptions, threads that do not start

ASSUME SteadyAssumption ==
    /\ \A r \in Requests : DOMAIN r = {"rotation", "mount", "clip"}
    /\ \A r \in Requests : \E p \in DOMAIN r : r[p] # None
    /\ Sharing \subseteq BOOLEAN
    /\ MaxCachedClips \in Nat \ {0}
    /\ MaxGenerations \in Nat /\ MaxFailures \in Nat

VARIABLES
    \* Global, under its mutex
    answers,       \* rotations and mounts: <<phase, key>> -> answer
    clips,         \* the clip corrections, least recently used first
    inFlight,      \* rotationsInFlight, mountsInFlight, clipsInFlight
    \* of each stage, under its mutex
    request,       \* m_request and m_key
    generation,    \* m_generation
    pending,       \* m_pending
    stopFlag,      \* m_stopFlag
    state,         \* m_state: what was settled, and the answers
    \* control
    caller,        \* the instance's thread, inside request() or stop()
    worker,        \* the stage's worker
    failures       \* failures so far, of MaxFailures

shared == <<answers, clips, inFlight>>
own == <<request, generation, pending, stopFlag, state>>
vars == <<shared, own, caller, worker, failures>>

Phases == {"rotation", "mount", "clip"}
Nothing == [p \in Phases |-> None]

NoState == [active |-> FALSE, settled |-> {}, found |-> Nothing, samples |-> {}]
NoCall == [at |-> "idle", req |-> None, found |-> Nothing]
Worker(at) == [at |-> at, req |-> None, gen |-> 0, phase |-> "rotation", found |-> Nothing,
               shared |-> FALSE, claim |-> None]

\* The key a phase's answer is kept under.  The clip's names the rig: an
\* accepted rotation turns it, a refused one leaves the calibration.
KeyOf(p, r, found) ==
    IF p = "clip"
    THEN [params |-> r.clip, mount |-> found.mount,
          rotation |-> IF found.rotation # None /\ found.rotation.accepted
                       THEN found.rotation ELSE None]
    ELSE r[p]

\* What a measurement of a phase may find.
Findings(p, k) == {[of |-> k, accepted |-> a] : a \in IF p = "rotation" THEN BOOLEAN ELSE {TRUE}}

\* The keys a run can come across.
Rotations == {a \in UNION {Findings("rotation", r.rotation) : r \in Requests} : a.of # None}
Masks == {a \in UNION {Findings("mount", r.mount) : r \in Requests} : a.of # None}
ClipKeys == [params : {r.clip : r \in Requests} \ {None}, mount : Masks \cup {None},
             rotation : {a \in Rotations : a.accepted} \cup {None}]
Keys == {<<"rotation", a.of>> : a \in Rotations} \cup {<<"mount", a.of>> : a \in Masks}
        \cup {<<"clip", k>> : k \in ClipKeys}

\* None is neither a request nor a key nor an answer.
ASSUME NoneAssumption ==
    /\ None \notin Requests /\ None \notin Keys
    /\ None \notin Rotations /\ None \notin Masks /\ None \notin [of : ClipKeys, accepted : {TRUE}]

\* g.rotations, g.mounts or g.clips, looked up.
Known(p, k) ==
    IF p = "clip" THEN IF Contains(clips, k) THEN [of |-> k, accepted |-> TRUE] ELSE None
    ELSE IF <<p, k>> \in DOMAIN answers THEN answers[<<p, k>>] ELSE None

\* g.rotations or g.mounts with one more answer; g.clips with one key used last.
Stored(k, a) == [x \in DOMAIN answers \cup {k} |-> IF x = k THEN a ELSE answers[x]]
Touch(k) == Append(RemoveFirst(clips, k), k)

\* The least recently used clip goes when there are too many.
Trim(s) == IF Len(s) > MaxCachedClips THEN Tail(s) ELSE s

Stale(i, gen) == stopFlag[i] \/ gen # generation[i]
Wanted(r) == {p \in Phases : r[p] # None}

\* waitSettled(): nothing to wait for, or everything asked for is settled.
Settled(i) == stopFlag[i] \/ request[i] = None \/ Wanted(request[i]) \subseteq state[i].settled

\* Nothing is known yet; an answer left on disk by an earlier session is as if
\* another instance had measured it just before.
Init ==
    /\ answers = <<>>
    /\ clips = <<>> /\ inFlight = {}
    /\ request = [i \in Stages |-> None]
    /\ generation = [i \in Stages |-> 0]
    /\ pending = [i \in Stages |-> FALSE]
    /\ stopFlag = [i \in Stages |-> FALSE]
    /\ state = [i \in Stages |-> NoState]
    /\ caller = [i \in Stages |-> NoCall]
    /\ worker = [i \in Stages |-> Worker("none")]
    /\ failures = 0
-----------------------------------------------------------------------------
\* The instance's thread: request(), reset(), stop()

\* A call that will begin a new generation when it is through.
Renewing(i) == caller[i].at \in Phases \cup {"install", "join"}
Generations == MapThenSumSet(LAMBDA i : generation[i] + IF Renewing(i) THEN 1 ELSE 0, Stages)

CanRenew(i) == caller[i].at = "idle" /\ Generations < MaxGenerations

\* request() with something new; the same request again changes nothing.
Request(i, r) ==
    /\ CanRenew(i) /\ r # request[i]
    /\ caller' = [caller EXCEPT ![i] = [NoCall EXCEPT !.at = "rotation", !.req = r]]
    /\ UNCHANGED <<shared, own, worker, failures>>

\* The caches, one locked section each and none of them under the stage's
\* lock; the clip's key is known only with the rotation and the mount.
LookUp(i) ==
    LET c == caller[i]
        p == c.at
        key == KeyOf(p, c.req, c.found)
        asked == c.req[p] # None /\ (p = "clip" => Wanted(c.req) \ {"clip"} \subseteq
                                                 {q \in Phases : c.found[q] # None})
    IN  /\ p \in Phases
        /\ \E sharing \in Sharing :
              LET answer == IF asked /\ sharing THEN Known(p, key) ELSE None
              IN  /\ clips' = IF p = "clip" /\ answer # None THEN Touch(key) ELSE clips
                  /\ caller' = [caller EXCEPT
                        ![i].found[p] = answer,
                        ![i].at = CASE p = "rotation" -> "mount" [] p = "mount" -> "clip"
                                    [] p = "clip" -> "install"]
        /\ UNCHANGED <<answers, inFlight, own, worker, failures>>

\* The request takes force; work only for what is missing.
Install(i) ==
    LET c == caller[i]
        found == {p \in Phases : c.found[p] # None}
        missing == Wanted(c.req) \ found # {}
    IN  /\ c.at = "install"
        /\ request' = [request EXCEPT ![i] = c.req]
        /\ generation' = [generation EXCEPT ![i] = @ + 1]
        /\ state' = [state EXCEPT ![i] = [NoState EXCEPT !.active = TRUE, !.settled = found,
                                                        !.found = c.found]]
        /\ pending' = [pending EXCEPT ![i] = missing]
        /\ caller' = [caller EXCEPT ![i] =
              IF missing /\ worker[i].at = "none" THEN [NoCall EXCEPT !.at = "start"] ELSE NoCall]
        /\ UNCHANGED <<shared, stopFlag, worker, failures>>

StartWorker(i) ==
    /\ caller[i].at = "start"
    /\ worker' = [worker EXCEPT ![i] = Worker("wait")]
    /\ caller' = [caller EXCEPT ![i] = NoCall]
    /\ UNCHANGED <<shared, own, failures>>

\* publish() with every phase settled and no answer added: frames render with
\* the per-moment corrections.
SettleAll(i, gen) ==
    state' = IF gen = generation[i] /\ request[i] # None
             THEN [state EXCEPT ![i].settled = Phases] ELSE state

\* std::thread throws: the request settles without an answer.
StartFails(i) ==
    /\ caller[i].at = "start" /\ failures < MaxFailures
    /\ failures' = failures + 1
    /\ SettleAll(i, generation[i])
    /\ caller' = [caller EXCEPT ![i] = NoCall]
    /\ UNCHANGED <<shared, request, generation, pending, stopFlag, worker>>

Clear(i) ==
    /\ request' = [request EXCEPT ![i] = None]
    /\ generation' = [generation EXCEPT ![i] = @ + 1]
    /\ state' = [state EXCEPT ![i] = NoState]

Reset(i) ==
    /\ CanRenew(i)
    /\ Clear(i) /\ pending' = [pending EXCEPT ![i] = FALSE]
    /\ UNCHANGED <<shared, stopFlag, caller, worker, failures>>

Stop(i) ==
    /\ CanRenew(i)
    /\ stopFlag' = [stopFlag EXCEPT ![i] = TRUE]
    /\ pending' = [pending EXCEPT ![i] = FALSE]
    /\ caller' = [caller EXCEPT ![i] = [NoCall EXCEPT !.at = "join"]]
    /\ UNCHANGED <<shared, request, generation, state, worker, failures>>

\* The worker is joined; the stage is ready for a fresh request.
Stopped(i) ==
    /\ caller[i].at = "join" /\ worker[i].at \in {"none", "ended"}
    /\ worker' = [worker EXCEPT ![i] = Worker("none")]
    /\ stopFlag' = [stopFlag EXCEPT ![i] = FALSE]
    /\ Clear(i)
    /\ caller' = [caller EXCEPT ![i] = NoCall]
    /\ UNCHANGED <<shared, pending, failures>>

Caller(i) == LookUp(i) \/ Install(i) \/ StartWorker(i) \/ StartFails(i) \/ Stopped(i)
-----------------------------------------------------------------------------
\* The worker: workerLoop() and runJob()

Goes(i, at) == worker' = [worker EXCEPT ![i].at = at]
Returns(i) == worker' = [worker EXCEPT ![i] = Worker("wait")]

WorkerExit(i) ==
    /\ worker[i].at = "wait" /\ stopFlag[i]
    /\ Goes(i, "ended")
    /\ UNCHANGED <<shared, own, caller, failures>>

TakeJob(i) ==
    /\ worker[i].at = "wait" /\ ~stopFlag[i] /\ pending[i]
    /\ pending' = [pending EXCEPT ![i] = FALSE]
    /\ IF request[i] = None THEN UNCHANGED worker
       ELSE \E sharing \in Sharing :
              worker' = [worker EXCEPT ![i] = [Worker("begin") EXCEPT
                           !.req = request[i], !.gen = generation[i], !.shared = sharing]]
    /\ UNCHANGED <<shared, request, generation, stopFlag, state, caller, failures>>

\* The answer the request came with is taken over; a clip correction that is
\* there ends the job.
BeginPhase(i) ==
    LET w == worker[i]
        p == w.phase
        settled == /\ w.gen = generation[i] /\ p \in state[i].settled
                   /\ p = "rotation" => state[i].found[p] # None
    IN  /\ w.at = "begin"
        /\ IF w.req[p] = None THEN Goes(i, "next")
           ELSE IF settled
           THEN worker' = [worker EXCEPT ![i].found[p] = state[i].found[p],
                                         ![i].at = IF p = "rotation" THEN "publish" ELSE "next"]
           ELSE Goes(i, IF w.shared THEN "look" ELSE "measure")
        /\ UNCHANGED <<shared, own, caller, failures>>

Key(i) == KeyOf(worker[i].phase, worker[i].req, worker[i].found)

\* Under the global lock: known, or nobody's and claimed, or another
\* instance's and waited for.
TakeKnown(i) ==
    LET p == worker[i].phase IN
    /\ worker[i].at = "look" /\ Known(p, Key(i)) # None
    /\ clips' = IF p = "clip" THEN Touch(Key(i)) ELSE clips
    /\ worker' = [worker EXCEPT ![i].found[p] = Known(p, Key(i)), ![i].at = "publish"]
    /\ UNCHANGED <<answers, inFlight, own, caller, failures>>

\* Mutant: the keys the others hold are not looked at.
ClaimRegardless(i) ==
    LET k == <<worker[i].phase, Key(i)>> IN
    /\ worker[i].at = "look" /\ Known(k[1], k[2]) = None
    /\ inFlight' = inFlight \cup {k}
    /\ worker' = [worker EXCEPT ![i].claim = k, ![i].at = "measure"]
    /\ UNCHANGED <<answers, clips, own, caller, failures>>

Claim(i) ==
    LET k == <<worker[i].phase, Key(i)>> IN
    /\ worker[i].at = "look" /\ Known(k[1], k[2]) = None /\ k \notin inFlight
    /\ inFlight' = inFlight \cup {k}
    /\ worker' = [worker EXCEPT ![i].claim = k, ![i].at = "measure"]
    /\ UNCHANGED <<answers, clips, own, caller, failures>>

WaitForOther(i) ==
    /\ worker[i].at = "look"
    /\ Known(worker[i].phase, Key(i)) = None /\ <<worker[i].phase, Key(i)>> \in inFlight
    /\ Goes(i, "poll")
    /\ UNCHANGED <<shared, own, caller, failures>>

\* Woken, or the 50 ms are over: cancelled, or look again.
Poll(i) ==
    /\ worker[i].at = "poll"
    /\ IF Stale(i, worker[i].gen) THEN Returns(i) ELSE Goes(i, "look")
    /\ UNCHANGED <<shared, own, caller, failures>>

\* One more sample of the clip: its grid is published as a stand-in.
Sample(i) ==
    LET w == worker[i] IN
    /\ w.at = "measure" /\ w.phase = "clip"
    /\ w.gen = generation[i] /\ request[i] # None /\ Key(i) \notin state[i].samples
    /\ state' = [state EXCEPT ![i].samples = @ \cup {Key(i)}]
    /\ UNCHANGED <<shared, request, generation, pending, stopFlag, caller, worker, failures>>

\* Mutant: only an answer ends the claim.
RememberAnswer(i, a) ==
    LET w == worker[i] IN
    IF w.claim = None \/ a = None THEN UNCHANGED shared
    ELSE /\ inFlight' = inFlight \ {w.claim}
         /\ answers' = IF w.phase # "clip" THEN Stored(w.claim, a) ELSE answers
         /\ clips' = IF w.phase = "clip" THEN Trim(Touch(w.claim[2])) ELSE clips

\* The claim ends in the locked section that stores the answer.
Remember(i, a) ==
    LET w == worker[i]
        p == w.phase
    IN  IF w.claim = None THEN UNCHANGED shared
        ELSE /\ inFlight' = inFlight \ {w.claim}
             /\ answers' = IF a # None /\ p # "clip" THEN Stored(w.claim, a) ELSE answers
             /\ clips' = IF a # None /\ p = "clip" THEN Trim(Touch(w.claim[2])) ELSE clips

Measured(i) ==
    /\ worker[i].at = "measure"
    /\ \E a \in Findings(worker[i].phase, Key(i)) :
          /\ Remember(i, a)
          /\ worker' = [worker EXCEPT ![i].found[worker[i].phase] = a,
                                      ![i].claim = None, ![i].at = "check"]
    /\ UNCHANGED <<own, caller, failures>>

\* The measurement fails, or ends early because the job was cancelled.
NotMeasured(i) ==
    /\ worker[i].at = "measure"
    /\ \/ Stale(i, worker[i].gen) /\ UNCHANGED failures
       \/ failures < MaxFailures /\ failures' = failures + 1
    /\ Remember(i, None)
    /\ worker' = [worker EXCEPT ![i].claim = None, ![i].at = "check"]
    /\ UNCHANGED <<own, caller>>

\* An exception leaves runJob(): the claim's destructor drops the key.
Throws(i) ==
    /\ worker[i].at = "measure" /\ failures < MaxFailures
    /\ failures' = failures + 1
    /\ Remember(i, None)
    /\ worker' = [worker EXCEPT ![i].claim = None, ![i].at = "failed"]
    /\ UNCHANGED <<own, caller>>

SettleFailed(i) ==
    /\ worker[i].at = "failed"
    /\ SettleAll(i, worker[i].gen)
    /\ Returns(i)
    /\ UNCHANGED <<shared, request, generation, pending, stopFlag, caller, failures>>

Check(i) ==
    /\ worker[i].at = "check"
    /\ IF Stale(i, worker[i].gen) THEN Returns(i) ELSE Goes(i, "publish")
    /\ UNCHANGED <<shared, own, caller, failures>>

\* Mutant: whatever request is in force by now gets the answer.
PublishRegardless(i) ==
    LET w == worker[i] IN
    /\ w.at = "publish"
    /\ state' = IF request[i] # None
                THEN [state EXCEPT ![i].settled = @ \cup {w.phase},
                                   ![i].found[w.phase] = w.found[w.phase]]
                ELSE state
    /\ Goes(i, "next")
    /\ UNCHANGED <<shared, request, generation, pending, stopFlag, caller, failures>>

\* publish(): only for the request still in force.
Publish(i) ==
    LET w == worker[i]
        p == w.phase
    IN  /\ w.at = "publish"
        /\ state' = IF w.gen = generation[i] /\ request[i] # None
                    THEN [state EXCEPT ![i].settled = @ \cup {p}, ![i].found[p] = w.found[p]]
                    ELSE state
        /\ Goes(i, "next")
        /\ UNCHANGED <<shared, request, generation, pending, stopFlag, caller, failures>>

\* `if (cancelled()) return` between the phases.
NextPhase(i) ==
    LET w == worker[i] IN
    /\ w.at = "next"
    /\ IF w.phase = "clip" \/ Stale(i, w.gen) THEN Returns(i)
       ELSE worker' = [worker EXCEPT ![i].at = "begin",
                          ![i].phase = IF w.phase = "rotation" THEN "mount" ELSE "clip"]
    /\ UNCHANGED <<shared, own, caller, failures>>

MeasureEnds(i) == Measured(i) \/ NotMeasured(i) \/ Throws(i)

WorkerStep(i) ==
    \/ WorkerExit(i) \/ TakeJob(i) \/ BeginPhase(i) \/ TakeKnown(i) \/ Claim(i)
    \/ WaitForOther(i) \/ Poll(i) \/ MeasureEnds(i) \/ SettleFailed(i) \/ Check(i)
    \/ Publish(i) \/ NextPhase(i)

Next == \E i \in Stages :
    \/ \E r \in Requests : Request(i, r)
    \/ Reset(i) \/ Stop(i) \/ Caller(i) \/ WorkerStep(i) \/ Sample(i)

\* A call runs to its end, and so do the worker's steps: the measurements have
\* a bounded number of samples.  Nothing obliges the host to call.
Fairness == \A i \in Stages : WF_vars(Caller(i)) /\ WF_vars(WorkerStep(i))

Spec == Init /\ [][Next]_vars
FairSpec == Spec /\ Fairness
-----------------------------------------------------------------------------
\* The abstract service: what is known, and who holds which key; a key that
\* nobody holds any more is held by None.
Holders(k) == {i \in Stages : worker[i].claim = k}
Shared == INSTANCE SharedMeasurement WITH
    Workers <- Stages, Evictable <- {k \in Keys : k[1] = "clip"},
    answered <- DOMAIN answers \cup {<<"clip", clips[n]>> : n \in DOMAIN clips},
    measuring <- UNION {{<<i, k>> : i \in IF Holders(k) = {} THEN {None} ELSE Holders(k)} :
                        k \in inFlight}

\* Each answer is measured by one instance at a time and never while it is
\* known; a failed, cancelled or thrown measurement frees its key.
MeasuresOnce == Shared!Spec

\* What a frame reads was measured for the request in force: each answer for
\* the request's key, the correction and its samples through the very rotation
\* and mask the frame is rendered with.
SnapshotIsOfRequest ==
    \A i \in Stages :
        LET s == state[i] IN
        /\ (request[i] = None) => s = NoState
        /\ (request[i] # None) =>
              /\ \A p \in Phases : s.found[p] # None =>
                    /\ request[i][p] # None
                    /\ s.found[p].of = KeyOf(p, request[i], s.found)
              /\ \A k \in s.samples : k = KeyOf("clip", request[i], s.found)

\* A request that stays in force settles, whoever measures: a failure, an
\* exception or a stop of the instance that measures hands the work over.
RequestSettles == \A i \in Stages : ~Settled(i) ~> Settled(i)
=============================================================================
