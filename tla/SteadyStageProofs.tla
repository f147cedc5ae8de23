-------------------------- MODULE SteadyStageProofs --------------------------
(***************************************************************************)
(* Theorems about SteadyStage, for any number of instances, any requests,  *)
(* any size of the cache and any number of generations and failures.       *)
(***************************************************************************)
EXTENDS SteadyStage, SequenceTheorems, WellFoundedInduction, TLAPS

-----------------------------------------------------------------------------
(* The inductive invariant, in parts. *)

Working == {"begin", "look", "poll", "measure", "check", "publish", "next", "failed"}
Unanswered == {"look", "poll", "measure"}

Found == [Phases -> Rotations \cup Masks \cup [of : ClipKeys, accepted : {TRUE}] \cup {None}]

\* The phases that come before p, and those that come after.
Before(p) == CASE p = "rotation" -> {} [] p = "mount" -> {"rotation"} [] p = "clip" -> {"rotation", "mount"}
After(p) == Phases \ (Before(p) \cup {p})

\* What was found fits the request: an answer only for what it wants, and for
\* its very key, through what else was found.
FoundFor(r, found) ==
    \A p \in Phases : found[p] # None => r[p] # None /\ found[p] \in Findings(p, KeyOf(p, r, found))

\* A correction only through a rotation and a mask that are there, if wanted.
Through(r, found) == found.clip # None => \A p \in {"rotation", "mount"} : r[p] # None => found[p] # None

TypeOK ==
    /\ DOMAIN answers \subseteq Keys /\ clips \in Seq(ClipKeys) /\ inFlight \subseteq Keys
    /\ request \in [Stages -> Requests \cup {None}] /\ generation \in [Stages -> Nat]
    /\ pending \in [Stages -> BOOLEAN] /\ stopFlag \in [Stages -> BOOLEAN]
    /\ state \in [Stages -> [active : BOOLEAN, settled : SUBSET Phases, found : Found, samples : SUBSET ClipKeys]]
    /\ caller \in [Stages -> [at : Phases \cup {"idle", "install", "start", "join"},
                             req : Requests \cup {None}, found : Found]]
    /\ worker \in [Stages -> [at : Working \cup {"none", "wait", "ended"}, req : Requests \cup {None},
                             gen : Nat, phase : Phases, found : Found, shared : BOOLEAN,
                             claim : Keys \cup {None}]]
    /\ failures \in 0 .. MaxFailures

\* Answers are kept under the key they were measured for.
AnswersFit ==
    \A k \in DOMAIN answers : k[1] # "clip" /\ answers[k] \in Findings(k[1], k[2])

\* A request that is being looked up has found what it wants.
CallFits(i) ==
    LET c == caller[i] IN
    /\ c.at \in Phases \cup {"install"} =>
          /\ c.req \in Requests /\ FoundFor(c.req, c.found) /\ Through(c.req, c.found)
    /\ c.at \in Phases => \A p \in {c.at} \cup After(c.at) : c.found[p] = None
    /\ c.at = "start" => worker[i].at = "none"

\* The state of the request in force.
StateFits(i) ==
    LET s == state[i] IN
    /\ request[i] = None => s = NoState
    /\ request[i] # None => FoundFor(request[i], s.found)
                            /\ \A k \in s.samples : k = KeyOf("clip", request[i], s.found)
    /\ \A p \in Phases : s.found[p] # None => p \in s.settled

\* A worker in a job has found answers to the job's request, phase by phase.
JobFits(i) ==
    LET w == worker[i] IN
    /\ w.at \in Working =>
          /\ w.req \in Requests /\ w.gen <= generation[i]
          /\ FoundFor(w.req, w.found)
          /\ \A p \in After(w.phase) : w.found[p] = None
    /\ w.at \in Unanswered => w.found[w.phase] = None /\ w.req[w.phase] # None
    /\ w.at = "begin" => w.found[w.phase] = None
    /\ w.claim # None => w.at = "measure" /\ w.claim = <<w.phase, Key(i)>>

\* The correction is not there yet, or with all that is wanted besides.
Open(i) == state[i].samples = {} /\ (request[i] # None => Through(request[i], state[i].found))

\* As long as no new request came, the job's findings are those of the state,
\* for the phases it has passed; its own phase's is missing, or is the same.
JobIsCurrent(i) ==
    LET w == worker[i]
        s == state[i]
    IN
    /\ pending[i] => Open(i)
    /\ w.at \in Working /\ w.gen = generation[i] =>
          /\ request[i] = w.req /\ ~pending[i]
          /\ \A p \in Before(w.phase) : w.found[p] = s.found[p]
          /\ w.at = "next" => w.found[w.phase] = s.found[w.phase]
          /\ w.at \in Unanswered \cup {"check"} => s.found[w.phase] = None
          /\ w.at = "publish" => s.found[w.phase] \in {None, w.found[w.phase]}
          /\ w.at \in {"check", "publish"} => w.req[w.phase] # None
          /\ w.phase # "clip" => Open(i)

StageInv(i) == CallFits(i) /\ StateFits(i) /\ JobFits(i) /\ JobIsCurrent(i)

SteadyInv == AnswersFit /\ \A i \in Stages : StageInv(i)

\* Each key in flight is the claim of one worker.
ClaimsHeld ==
    /\ \A i \in Stages : worker[i].claim # None => worker[i].claim \in inFlight
    /\ \A k \in inFlight : \E i \in Stages : worker[i].claim = k
    /\ \A i, j \in Stages : worker[i].claim # None /\ worker[i].claim = worker[j].claim => i = j

-----------------------------------------------------------------------------
(* Keys and answers. *)

\* A phase's key depends on the phases before it only.
LEMMA KeyFrom ==
  ASSUME NEW p \in Phases, NEW r, NEW f, NEW g, \A q \in Before(p) : f[q] = g[q]
  PROVE  KeyOf(p, r, f) = KeyOf(p, r, g)
  BY DEF KeyOf, Before, Phases

\* A finding names its key.
LEMMA FindingIs ==
  ASSUME NEW p \in Phases, NEW k, NEW a \in Findings(p, k)
  PROVE  a.of = k /\ a.accepted \in BOOLEAN /\ (p # "rotation" => a = [of |-> k, accepted |-> TRUE])
  <1>1. PICK v \in IF p = "rotation" THEN BOOLEAN ELSE {TRUE} : a = [of |-> k, accepted |-> v]
    BY DEF Findings
  <1>2. v \in BOOLEAN /\ (p # "rotation" => v = TRUE)
    BY <1>1, Zenon
  <1>. QED BY <1>1, <1>2

\* What a wanted rotation or mask is found to be is one of them.
LEMMA FindingIsOne ==
  ASSUME NEW r \in Requests
  PROVE  /\ r.rotation # None => Findings("rotation", r.rotation) \subseteq Rotations
         /\ r.mount # None => Findings("mount", r.mount) \subseteq Masks
         /\ r.rotation # None => [of |-> r.rotation, accepted |-> TRUE] \in Rotations
         /\ r.mount # None => [of |-> r.mount, accepted |-> TRUE] \in Masks
  <1>1. "rotation" \in Phases /\ "mount" \in Phases
    BY DEF Phases
  <1>2. r.rotation # None => Findings("rotation", r.rotation) \subseteq Rotations
    BY <1>1, FindingIs DEF Rotations
  <1>3. r.mount # None => Findings("mount", r.mount) \subseteq Masks
    BY <1>1, FindingIs DEF Masks
  <1>4. /\ [of |-> r.rotation, accepted |-> TRUE] \in Findings("rotation", r.rotation)
        /\ [of |-> r.mount, accepted |-> TRUE] \in Findings("mount", r.mount)
    BY DEF Findings
  <1>. QED BY <1>2, <1>3, <1>4

\* The key of a phase that is wanted is a key, and its findings are answers.
LEMMA KeyIsKey ==
  ASSUME NEW r \in Requests, NEW f \in Found, FoundFor(r, f), NEW p \in Phases, r[p] # None
  PROVE  /\ <<p, KeyOf(p, r, f)>> \in Keys
         /\ p = "clip" => KeyOf(p, r, f) \in ClipKeys
         /\ \A a \in Findings(p, KeyOf(p, r, f)) :
               a # None /\ [f EXCEPT ![p] = a] \in Found
  <1>1. f.rotation # None =>
           f.rotation \in Rotations /\ f.rotation.of = r.rotation /\ r.rotation # None
    BY FindingIs, FindingIsOne DEF FoundFor, Phases, KeyOf
  <1>2. f.mount # None => f.mount \in Masks
    BY FindingIsOne DEF FoundFor, Phases, KeyOf
  <1>3. CASE p = "rotation"
    <2>1. Findings(p, KeyOf(p, r, f)) \subseteq Rotations
      BY <1>3, FindingIsOne DEF KeyOf
    <2>2. <<p, KeyOf(p, r, f)>> \in Keys
      <3>1. PICK a \in Rotations : a.of = r.rotation
        BY <1>3, FindingIsOne
      <3>. QED BY <1>3, <3>1 DEF Keys, KeyOf
    <2>. QED BY <1>3, <2>1, <2>2, NoneAssumption DEF Found
  <1>4. CASE p = "mount"
    <2>1. Findings(p, KeyOf(p, r, f)) \subseteq Masks
      BY <1>4, FindingIsOne DEF KeyOf
    <2>2. <<p, KeyOf(p, r, f)>> \in Keys
      <3>1. PICK a \in Masks : a.of = r.mount
        BY <1>4, FindingIsOne
      <3>. QED BY <1>4, <3>1 DEF Keys, KeyOf
    <2>. QED BY <1>4, <2>1, <2>2, NoneAssumption DEF Found
  <1>5. CASE p = "clip"
    <2>1. KeyOf(p, r, f) \in ClipKeys
      BY <1>1, <1>2, <1>5 DEF ClipKeys, KeyOf
    <2>2. \A a \in Findings(p, KeyOf(p, r, f)) : a \in [of : ClipKeys, accepted : {TRUE}]
      <3>1. [of |-> KeyOf(p, r, f), accepted |-> TRUE] \in [of : ClipKeys, accepted : {TRUE}]
        BY <2>1, Zenon
      <3>. QED BY <1>5, <3>1, FindingIs
    <2>3. <<p, KeyOf(p, r, f)>> \in Keys
      BY <1>5, <2>1 DEF Keys
    <2>. QED BY <1>5, <2>1, <2>2, <2>3, NoneAssumption DEF Found
  <1>. QED BY <1>3, <1>4, <1>5 DEF Phases

\* One more answer, for the phase whose turn it is.
LEMMA FoundOneMore ==
  ASSUME NEW r \in Requests, NEW f \in Found, FoundFor(r, f), NEW p \in Phases,
         \A q \in {p} \cup After(p) : f[q] = None,
         NEW a, a # None => r[p] # None /\ a \in Findings(p, KeyOf(p, r, f))
  PROVE  /\ [f EXCEPT ![p] = a] \in Found
         /\ FoundFor(r, [f EXCEPT ![p] = a])
  <1>. DEFINE g == [f EXCEPT ![p] = a]
  <1>1. g \in Found
    <2>1. CASE a = None
      BY <2>1 DEF Found
    <2>2. CASE a # None
      BY <2>2, KeyIsKey
    <2>. QED BY <2>1, <2>2
  <1>2. \A q \in Phases : g[q] = IF q = p THEN a ELSE f[q]
    BY DEF Found
  <1>3. ASSUME NEW q \in Phases, g[q] # None PROVE r[q] # None /\ g[q] \in Findings(q, KeyOf(q, r, g))
    <2>1. q \notin After(p)
      BY <1>2, <1>3 DEF After
    <2>2. \A o \in Before(q) : g[o] = f[o]
      BY <1>2, <2>1 DEF After, Before, Phases
    <2>3. KeyOf(q, r, g) = KeyOf(q, r, f)
      <3>. HIDE DEF g
      <3>. QED BY <2>2, KeyFrom
    <2>. QED BY <1>2, <1>3, <2>3 DEF FoundFor
  <1>. HIDE DEF g
  <1>4. FoundFor(r, g)
    BY <1>3 DEF FoundFor
  <1>. QED BY <1>1, <1>4 DEF g

-----------------------------------------------------------------------------
(* What the instances share. *)

\* A set of numbers that is not empty has a least element.
LEMMA LeastPlace == ASSUME NEW S \in SUBSET Nat, S # {} PROVE \E x \in S : \A y \in S : x <= y
  <1>. DEFINE R == {ss \in Nat \X Nat : ss[1] < ss[2]}
  <1>1. IsWellFoundedOn(R, Nat)
    BY NatLessThanWellFounded, Zenon DEF OpToRel
  <1>2. PICK x \in S : \A y \in S : ~ (<<y, x>> \in R)
    <2>. HIDE DEF R
    <2>. QED BY <1>1, WFMin, Zenon
  <1>3. ASSUME NEW y \in S PROVE x <= y
    <2>1. y < x => <<y, x>> \in R
      OBVIOUS
    <2>. QED BY <1>2, <2>1
  <1>. QED BY <1>3

\* Without its n-th element, a sequence has all the others.
LEMMA WithoutOne ==
  ASSUME NEW S, NEW s \in Seq(S), NEW n \in 1 .. Len(s)
  PROVE  /\ RemoveAt(s, n) \in Seq(S)
         /\ ToSet(RemoveAt(s, n)) \subseteq ToSet(s)
         /\ ToSet(s) \subseteq ToSet(RemoveAt(s, n)) \cup {s[n]}
  <1>. DEFINE u == SubSeq(s, 1, n - 1)
              v == SubSeq(s, n + 1, Len(s))
  <1>1. /\ u \in Seq(S) /\ Len(u) = n - 1
        /\ \A m \in 1 .. n - 1 : u[m] = s[m]
    BY SubSeqProperties
  <1>2. /\ v \in Seq(S) /\ Len(v) = Len(s) - n
        /\ \A m \in 1 .. Len(s) - n : v[m] = s[n + m]
    BY SubSeqProperties
  <1>. HIDE DEF u, v
  <1>3. /\ u \o v \in Seq(S) /\ Len(u \o v) = Len(s) - 1
        /\ \A m \in 1 .. Len(s) - 1 : (u \o v)[m] = IF m <= n - 1 THEN u[m] ELSE v[m - (n - 1)]
    <2>1. /\ u \o v \in Seq(S) /\ Len(u \o v) = Len(u) + Len(v)
          /\ \A m \in 1 .. Len(u) + Len(v) : (u \o v)[m] = IF m <= Len(u) THEN u[m] ELSE v[m - Len(u)]
      BY <1>1, <1>2, ConcatProperties
    <2>2. Len(u) = n - 1 /\ Len(u) + Len(v) = Len(s) - 1
      BY <1>1, <1>2
    <2>. QED BY <2>1, <2>2
  <1>4. RemoveAt(s, n) = u \o v
    BY DEF RemoveAt, u, v
  <1>5. ASSUME NEW m \in 1 .. Len(s) - 1 PROVE \E l \in 1 .. Len(s) : (u \o v)[m] = s[l]
    <2>1. CASE m <= n - 1
      BY <1>1, <1>3, <2>1
    <2>2. CASE ~(m <= n - 1)
      <3>1. m - (n - 1) \in 1 .. Len(s) - n /\ n + (m - (n - 1)) = m + 1 /\ m + 1 \in 1 .. Len(s)
        BY <2>2
      <3>. QED BY <1>2, <1>3, <2>2, <3>1
    <2>. QED BY <2>1, <2>2
  <1>6. ASSUME NEW m \in 1 .. Len(s), m # n PROVE \E l \in 1 .. Len(s) - 1 : (u \o v)[l] = s[m]
    <2>1. CASE m <= n - 1
      BY <1>1, <1>3, <2>1
    <2>2. CASE ~(m <= n - 1)
      <3>1. m - n \in 1 .. Len(s) - n /\ m - 1 \in 1 .. Len(s) - 1 /\ ~(m - 1 <= n - 1)
        BY <1>6, <2>2
      <3>2. (m - 1) - (n - 1) = m - n /\ n + (m - n) = m
        OBVIOUS
      <3>3. (u \o v)[m - 1] = v[m - n] /\ v[m - n] = s[m]
        BY <1>2, <1>3, <3>1, <3>2
      <3>. QED BY <3>1, <3>3
    <2>. QED BY <2>1, <2>2
  <1>7. ToSet(u \o v) = {(u \o v)[m] : m \in 1 .. Len(s) - 1} /\ ToSet(s) = {s[m] : m \in 1 .. Len(s)}
    <2>1. DOMAIN (u \o v) = 1 .. Len(s) - 1 /\ DOMAIN s = 1 .. Len(s)
      BY <1>3
    <2>. QED BY <2>1, Zenon DEF ToSet
  <1>. DEFINE t == u \o v
  <1>8. \A m \in 1 .. Len(s) - 1 : t[m] \in {s[l] : l \in 1 .. Len(s)}
    BY <1>5
  <1>9. \A m \in 1 .. Len(s) : s[m] \in {t[l] : l \in 1 .. Len(s) - 1} \cup {s[n]}
    BY <1>6
  <1>10. ToSet(t) \subseteq ToSet(s) /\ ToSet(s) \subseteq ToSet(t) \cup {s[n]}
    <2>. HIDE DEF t
    <2>1. ToSet(t) = {t[m] : m \in 1 .. Len(s) - 1} /\ ToSet(s) = {s[m] : m \in 1 .. Len(s)}
      BY <1>7 DEF t
    <2>. QED BY <1>8, <1>9, <2>1
  <1>. QED BY <1>3, <1>4, <1>10

\* A key that is used goes to the end, and no other goes.
LEMMA Touched ==
  ASSUME clips \in Seq(ClipKeys), NEW k \in ClipKeys
  PROVE  /\ Touch(k) \in Seq(ClipKeys) /\ Touch(k) # <<>>
         /\ Touch(k)[Len(Touch(k))] = k
         /\ ToSet(Touch(k)) = ToSet(clips) \cup {k}
  <1>. DEFINE s == RemoveFirst(clips, k)
  <1>1. s \in Seq(ClipKeys) /\ ToSet(s) \subseteq ToSet(clips) /\ ToSet(clips) \subseteq ToSet(s) \cup {k}
    <2>. DEFINE I == {m \in 1 .. Len(clips) : clips[m] = k}
    <2>1. CASE I = {}
      BY <2>1 DEF RemoveFirst
    <2>2. CASE I # {}
      <3>1. PICK n \in I : \A m \in I : n <= m
        <4>1. I \in SUBSET Nat
          OBVIOUS
        <4>. HIDE DEF I
        <4>. QED BY <2>2, <4>1, LeastPlace
      <3>2. Min(I) \in I
        BY <3>1 DEF Min
      <3>3. s = RemoveAt(clips, Min(I))
        BY <2>2 DEF RemoveFirst, SelectInSeq
      <3>. QED BY <3>2, <3>3, WithoutOne
    <2>. QED BY <2>1, <2>2
  <1>. HIDE DEF s
  <1>2. /\ Append(s, k) \in Seq(ClipKeys) /\ Len(Append(s, k)) = Len(s) + 1
        /\ \A m \in 1 .. Len(s) + 1 : Append(s, k)[m] = IF m = Len(s) + 1 THEN k ELSE s[m]
    BY <1>1, AppendProperties
  <1>3. ToSet(Append(s, k)) = ToSet(s) \cup {k}
    <2>1. DOMAIN Append(s, k) = 1 .. Len(s) + 1 /\ DOMAIN s = 1 .. Len(s) /\ Len(s) \in Nat
      BY <1>1, <1>2
    <2>. QED BY <1>2, <2>1 DEF ToSet
  <1>4. Touch(k) = Append(s, k)
    BY DEF Touch, s
  <1>. QED BY <1>1, <1>2, <1>3, <1>4

\* A full cache forgets others, never the key used last.
LEMMA Trimmed ==
  ASSUME NEW s \in Seq(ClipKeys), s # <<>>
  PROVE  /\ Trim(s) \in Seq(ClipKeys)
         /\ ToSet(Trim(s)) \subseteq ToSet(s) /\ s[Len(s)] \in ToSet(Trim(s))
  <1>1. CASE Len(s) > MaxCachedClips
    <2>1. /\ Tail(s) \in Seq(ClipKeys) /\ Len(Tail(s)) = Len(s) - 1
          /\ \A n \in 1 .. Len(Tail(s)) : Tail(s)[n] = s[n + 1]
      BY HeadTailProperties
    <2>2. Len(s) \in Nat /\ Len(s) > 1
      BY <1>1, SteadyAssumption
    <2>3. Trim(s) = Tail(s)
      BY <1>1 DEF Trim
    <2>4. Tail(s)[Len(s) - 1] = s[Len(s)] /\ Len(s) - 1 \in DOMAIN Tail(s)
      BY <2>1, <2>2
    <2>5. DOMAIN Tail(s) = 1 .. Len(s) - 1 /\ DOMAIN s = 1 .. Len(s)
      BY <2>1
    <2>6. \A n \in DOMAIN Tail(s) : n + 1 \in DOMAIN s /\ Tail(s)[n] = s[n + 1]
      BY <2>1, <2>2, <2>5
    <2>7. ToSet(Tail(s)) \subseteq ToSet(s)
      BY <2>6, Zenon DEF ToSet
    <2>8. s[Len(s)] \in ToSet(Tail(s))
      BY <2>4, Zenon DEF ToSet
    <2>. QED BY <2>1, <2>3, <2>7, <2>8
  <1>2. CASE ~(Len(s) > MaxCachedClips)
    <2>1. Trim(s) = s
      BY <1>2 DEF Trim
    <2>. QED BY <2>1 DEF ToSet
  <1>. QED BY <1>1, <1>2

\* What is known under a key was measured for it.
LEMMA KnownFits ==
  ASSUME TypeOK, AnswersFit, NEW p \in Phases, NEW k
  PROVE  /\ Known(p, k) # None => Known(p, k) \in Findings(p, k)
         /\ Known(p, k) # None => (p = "clip" /\ k \in ToSet(clips)) \/ <<p, k>> \in DOMAIN answers
  <1>1. [of |-> k, accepted |-> TRUE] \in Findings("clip", k)
    BY DEF Findings
  <1>2. Contains(clips, k) => k \in ToSet(clips)
    BY DEF Contains, ToSet, TypeOK
  <1>3. <<p, k>> \in DOMAIN answers => answers[<<p, k>>] \in Findings(p, k)
    BY DEF AnswersFit
  <1>. QED BY <1>1, <1>2, <1>3 DEF Known

-----------------------------------------------------------------------------
(* What the steps of a stage change. *)

StageStep(i) ==
    \/ \E r \in Requests : Request(i, r)
    \/ Reset(i) \/ Stop(i) \/ Caller(i) \/ WorkerStep(i) \/ Sample(i)

\* The step leaves stage j alone.
Spared(j) ==
    /\ request'[j] = request[j] /\ generation'[j] = generation[j] /\ pending'[j] = pending[j]
    /\ stopFlag'[j] = stopFlag[j] /\ state'[j] = state[j]
    /\ caller'[j] = caller[j] /\ worker'[j] = worker[j]

\* A stage's steps change no other stage.
LEMMA OthersSpared ==
  ASSUME NEW i \in Stages, NEW j \in Stages, i # j, TypeOK, StageStep(i) PROVE Spared(j)
  <1>. USE DEF TypeOK, Spared, shared, own
  <1>1. CASE \E r \in Requests : Request(i, r)
    BY <1>1 DEF Request
  <1>2. CASE Reset(i) \/ Stop(i)
    BY <1>2 DEF Reset, Stop, Clear
  <1>3. CASE LookUp(i)
    BY <1>3 DEF LookUp
  <1>4. CASE Install(i)
    BY <1>4 DEF Install
  <1>5. CASE StartWorker(i) \/ StartFails(i) \/ Stopped(i)
    BY <1>5 DEF StartWorker, StartFails, Stopped, SettleAll, Clear
  <1>6. CASE WorkerExit(i) \/ TakeJob(i) \/ BeginPhase(i)
    BY <1>6 DEF WorkerExit, TakeJob, BeginPhase, Goes
  <1>7. CASE TakeKnown(i) \/ Claim(i) \/ WaitForOther(i) \/ Poll(i)
    BY <1>7 DEF TakeKnown, Claim, WaitForOther, Poll, Goes, Returns
  <1>8. CASE MeasureEnds(i)
    BY <1>8 DEF MeasureEnds, Measured, NotMeasured, Throws
  <1>9. CASE SettleFailed(i) \/ Check(i) \/ Publish(i) \/ NextPhase(i) \/ Sample(i)
    BY <1>9 DEF SettleFailed, Check, Publish, NextPhase, Sample, SettleAll, Goes, Returns
  <1>. QED BY <1>1, <1>2, <1>3, <1>4, <1>5, <1>6, <1>7, <1>8, <1>9 DEF StageStep, Caller, WorkerStep

\* What is known of a stage depends on the stage alone.
LEMMA SparedStays ==
  ASSUME NEW j \in Stages, StageInv(j), Spared(j) PROVE StageInv(j)'
  <1>1. CallFits(j)' /\ StateFits(j)'
    BY DEF StageInv, Spared, CallFits, StateFits
  <1>2. JobFits(j)'
    BY DEF StageInv, Spared, JobFits, Key
  <1>3. JobIsCurrent(j)'
    BY DEF StageInv, Spared, JobIsCurrent, Open
  <1>. QED BY <1>1, <1>2, <1>3 DEF StageInv

\* What a stage's worker remembers is of its claim, and fits it.
LEMMA Remembered ==
  ASSUME TypeOK, AnswersFit, NEW i \in Stages, JobFits(i), worker[i].at = "measure",
         NEW a, a # None => a \in Findings(worker[i].phase, Key(i)), Remember(i, a)
  PROVE  /\ DOMAIN answers' \subseteq Keys /\ clips' \in Seq(ClipKeys) /\ inFlight' \subseteq Keys
         /\ AnswersFit'
  <1>. DEFINE w == worker[i]
              k == Key(i)
  <1>1. /\ w.phase \in Phases /\ w.req \in Requests /\ w.found \in Found
        /\ FoundFor(w.req, w.found) /\ w.req[w.phase] # None
        /\ w.claim # None => w.claim = <<w.phase, k>>
    BY DEF TypeOK, JobFits, Working, Unanswered
  <1>2. <<w.phase, k>> \in Keys /\ (w.phase = "clip" => k \in ClipKeys)
    BY <1>1, KeyIsKey DEF Key
  <1>3. CASE w.claim = None
    <2>1. UNCHANGED shared
      BY <1>3 DEF Remember
    <2>. QED BY <2>1 DEF shared, TypeOK, AnswersFit
  <1>4. CASE w.claim # None
    <2>1. inFlight' \subseteq Keys
      BY <1>4 DEF Remember, TypeOK
    <2>2. clips' \in Seq(ClipKeys)
      <3>1. CASE a # None /\ w.phase = "clip"
        <4>1. clips' = Trim(Touch(k))
          BY <1>1, <1>4, <3>1 DEF Remember
        <4>. QED BY <1>2, <3>1, <4>1, Touched, Trimmed DEF TypeOK
      <3>2. CASE ~(a # None /\ w.phase = "clip")
        BY <1>4, <3>2 DEF Remember, TypeOK
      <3>. QED BY <3>1, <3>2
    <2>3. DOMAIN answers' \subseteq Keys /\ AnswersFit'
      <3>1. CASE a # None /\ w.phase # "clip"
        <4>1. answers' = Stored(<<w.phase, k>>, a)
          BY <1>1, <1>4, <3>1 DEF Remember
        <4>2. DOMAIN answers' = DOMAIN answers \cup {<<w.phase, k>>}
          BY <4>1 DEF Stored
        <4>3. \A x \in DOMAIN answers' : answers'[x] = IF x = <<w.phase, k>> THEN a ELSE answers[x]
          BY <4>1 DEF Stored
        <4>4. DOMAIN answers' \subseteq Keys
          BY <1>2, <4>2 DEF TypeOK
        <4>5. ASSUME NEW x \in DOMAIN answers' PROVE x[1] # "clip" /\ answers'[x] \in Findings(x[1], x[2])
          <5>1. CASE x = <<w.phase, k>>
            BY <3>1, <4>3, <5>1
          <5>2. CASE x # <<w.phase, k>>
            BY <4>2, <4>3, <5>2 DEF AnswersFit
          <5>. QED BY <5>1, <5>2
        <4>. QED BY <4>4, <4>5 DEF AnswersFit
      <3>2. CASE ~(a # None /\ w.phase # "clip")
        BY <1>4, <3>2 DEF Remember, TypeOK, AnswersFit
      <3>. QED BY <3>1, <3>2
    <2>. QED BY <2>1, <2>2, <2>3
  <1>. QED BY <1>3, <1>4

\* No other step adds or forgets an answer; cached keys may be used.
LEMMA SharedStays ==
  ASSUME TypeOK, AnswersFit, NEW i \in Stages, StageInv(i), StageStep(i)
  PROVE  /\ DOMAIN answers' \subseteq Keys /\ clips' \in Seq(ClipKeys) /\ inFlight' \subseteq Keys
         /\ AnswersFit'
  <1>. DEFINE Goal == /\ DOMAIN answers' \subseteq Keys /\ clips' \in Seq(ClipKeys) /\ inFlight' \subseteq Keys
                      /\ AnswersFit'
  <1>1. ASSUME UNCHANGED shared PROVE Goal
    BY <1>1 DEF shared, TypeOK, AnswersFit
  <1>2. ASSUME UNCHANGED <<answers, inFlight>>, NEW k \in ClipKeys, clips' \in {clips, Touch(k)} PROVE Goal
    <2>1. clips' \in Seq(ClipKeys)
      BY <1>2, Touched DEF TypeOK
    <2>. QED BY <1>2, <2>1 DEF TypeOK, AnswersFit
  <1>3. CASE LookUp(i)
    <2>. DEFINE c == caller[i]
                k == KeyOf("clip", c.req, c.found)
    <2>1. UNCHANGED <<answers, inFlight>> /\ c.at \in Phases
      BY <1>3 DEF LookUp
    <2>2. CASE clips' = clips
      BY <1>1, <2>1, <2>2 DEF shared
    <2>3. CASE clips' # clips
      <3>1. c.at = "clip" /\ c.req["clip"] # None /\ clips' = Touch(k)
        BY <1>3, <2>3 DEF LookUp
      <3>2. c.req \in Requests /\ FoundFor(c.req, c.found) /\ c.found \in Found
        BY <2>1 DEF StageInv, CallFits, TypeOK
      <3>3. k \in ClipKeys
        BY <2>1, <3>1, <3>2, KeyIsKey
      <3>. QED BY <1>2, <2>1, <3>1, <3>3
    <2>. QED BY <2>2, <2>3
  <1>4. CASE TakeKnown(i)
    <2>. DEFINE w == worker[i]
    <2>1. UNCHANGED <<answers, inFlight>> /\ w.at = "look"
          /\ clips' = IF w.phase = "clip" THEN Touch(Key(i)) ELSE clips
      BY <1>4 DEF TakeKnown
    <2>2. /\ w.phase \in Phases /\ w.req \in Requests /\ w.found \in Found
          /\ FoundFor(w.req, w.found) /\ w.req[w.phase] # None
      BY <2>1 DEF TypeOK, StageInv, JobFits, Working, Unanswered
    <2>3. w.phase = "clip" => Key(i) \in ClipKeys
      BY <2>2, KeyIsKey DEF Key
    <2>. QED BY <1>1, <1>2, <2>1, <2>3 DEF shared
  <1>5. CASE Claim(i)
    <2>. DEFINE w == worker[i]
    <2>1. UNCHANGED <<answers, clips>> /\ w.at = "look" /\ inFlight' = inFlight \cup {<<w.phase, Key(i)>>}
      BY <1>5 DEF Claim
    <2>2. /\ w.phase \in Phases /\ w.req \in Requests /\ w.found \in Found
          /\ FoundFor(w.req, w.found) /\ w.req[w.phase] # None
      BY <2>1 DEF TypeOK, StageInv, JobFits, Working, Unanswered
    <2>3. <<w.phase, Key(i)>> \in Keys
      BY <2>2, KeyIsKey DEF Key
    <2>. QED BY <2>1, <2>3 DEF TypeOK, AnswersFit
  <1>6. CASE MeasureEnds(i)
    <2>1. worker[i].at = "measure" /\ \E a : (a # None => a \in Findings(worker[i].phase, Key(i))) /\ Remember(i, a)
      BY <1>6 DEF MeasureEnds, Measured, NotMeasured, Throws
    <2>. QED BY <2>1, Remembered DEF StageInv
  <1>7. CASE Caller(i) /\ ~LookUp(i)
    BY <1>1, <1>7 DEF Caller, Install, StartWorker, StartFails, Stopped, shared
  <1>8. CASE WorkerStep(i) /\ ~TakeKnown(i) /\ ~Claim(i) /\ ~MeasureEnds(i)
    BY <1>1, <1>8 DEF WorkerStep, WorkerExit, TakeJob, BeginPhase, WaitForOther, Poll, SettleFailed, Check,
       Publish, NextPhase, shared
  <1>9. CASE (\E r \in Requests : Request(i, r)) \/ Reset(i) \/ Stop(i) \/ Sample(i)
    BY <1>1, <1>9 DEF Request, Reset, Stop, Sample, shared
  <1>. QED BY <1>3, <1>4, <1>5, <1>6, <1>7, <1>8, <1>9 DEF StageStep

-----------------------------------------------------------------------------
(* Types. *)

\* Nothing has been asked for, and nothing is known.
LEMMA SteadyInit == Init => TypeOK /\ SteadyInv
  <1>. SUFFICES ASSUME Init PROVE TypeOK /\ SteadyInv
    OBVIOUS
  <1>1. Nothing \in Found /\ "rotation" \in Phases
    BY DEF Nothing, Found, Phases
  <1>2. TypeOK
    <2>1. /\ DOMAIN answers \subseteq Keys /\ clips \in Seq(ClipKeys) /\ inFlight \subseteq Keys
          /\ failures \in 0 .. MaxFailures
      BY SteadyAssumption DEF Init
    <2>2. /\ request \in [Stages -> Requests \cup {None}] /\ generation \in [Stages -> Nat]
          /\ pending \in [Stages -> BOOLEAN] /\ stopFlag \in [Stages -> BOOLEAN]
      BY DEF Init
    <2>3. NoState \in [active : BOOLEAN, settled : SUBSET Phases, found : Found, samples : SUBSET ClipKeys]
      BY <1>1 DEF NoState
    <2>4. NoCall \in [at : Phases \cup {"idle", "install", "start", "join"}, req : Requests \cup {None}, found : Found]
      BY <1>1 DEF NoCall
    <2>5. Worker("none") \in [at : Working \cup {"none", "wait", "ended"}, req : Requests \cup {None}, gen : Nat,
                             phase : Phases, found : Found, shared : BOOLEAN, claim : Keys \cup {None}]
      BY <1>1 DEF Worker
    <2>. QED BY <2>1, <2>2, <2>3, <2>4, <2>5 DEF Init, TypeOK
  <1>3. AnswersFit
    BY DEF Init, AnswersFit
  <1>4. ASSUME NEW i \in Stages PROVE StageInv(i)
    BY <1>1 DEF Init, StageInv, CallFits, StateFits, JobFits, JobIsCurrent, NoState, NoCall, Worker,
       Nothing, Working, Unanswered, Phases
  <1>. QED BY <1>2, <1>3, <1>4 DEF SteadyInv

\* A request that is looked up finds what fits it.
LEMMA LookedUp ==
  ASSUME TypeOK, AnswersFit, NEW i \in Stages, StageInv(i), LookUp(i)
  PROVE  \E answer :
            LET c == caller[i] IN
            /\ c.at \in Phases /\ c.req \in Requests
            /\ answer # None => /\ c.req[c.at] # None /\ answer \in Findings(c.at, KeyOf(c.at, c.req, c.found))
                                /\ c.at = "clip" => \A q \in Before("clip") : c.req[q] # None => c.found[q] # None
            /\ [c.found EXCEPT ![c.at] = answer] \in Found
            /\ FoundFor(c.req, [c.found EXCEPT ![c.at] = answer])
            /\ \A q \in Phases : [c.found EXCEPT ![c.at] = answer][q] = IF q = c.at THEN answer ELSE c.found[q]
            /\ caller' = [caller EXCEPT ![i].found[c.at] = answer,
                                        ![i].at = CASE c.at = "rotation" -> "mount" [] c.at = "mount" -> "clip"
                                                    [] c.at = "clip" -> "install"]
  <1>. DEFINE c == caller[i]
              key == KeyOf(c.at, c.req, c.found)
              asked == c.req[c.at] # None /\ (c.at = "clip" => Wanted(c.req) \ {"clip"} \subseteq
                                                 {q \in Phases : c.found[q] # None})
  <1>1. PICK sharing \in Sharing :
           caller' = [caller EXCEPT
                        ![i].found[c.at] = IF asked /\ sharing THEN Known(c.at, key) ELSE None,
                        ![i].at = CASE c.at = "rotation" -> "mount" [] c.at = "mount" -> "clip"
                                    [] c.at = "clip" -> "install"]
    BY DEF LookUp
  <1>2. PICK answer : answer = IF asked /\ sharing THEN Known(c.at, key) ELSE None
    OBVIOUS
  <1>3. /\ c.at \in Phases /\ c.req \in Requests /\ c.found \in Found /\ FoundFor(c.req, c.found)
        /\ \A p \in {c.at} \cup After(c.at) : c.found[p] = None
    BY DEF LookUp, TypeOK, StageInv, CallFits
  <1>4. answer # None => asked /\ answer \in Findings(c.at, key)
    BY <1>2, <1>3, KnownFits
  <1>5. answer # None => /\ c.req[c.at] # None
                         /\ c.at = "clip" => \A q \in Before("clip") : c.req[q] # None => c.found[q] # None
    BY <1>4 DEF Wanted, Before, Phases
  <1>. HIDE DEF c, key, asked
  <1>6. [c.found EXCEPT ![c.at] = answer] \in Found /\ FoundFor(c.req, [c.found EXCEPT ![c.at] = answer])
    BY <1>3, <1>4, <1>5, FoundOneMore DEF key
  <1>7. \A q \in Phases : [c.found EXCEPT ![c.at] = answer][q] = IF q = c.at THEN answer ELSE c.found[q]
    BY <1>3 DEF Found
  <1>. QED BY <1>1, <1>2, <1>3, <1>4, <1>5, <1>6, <1>7 DEF c, key

States == [active : BOOLEAN, settled : SUBSET Phases, found : Found, samples : SUBSET ClipKeys]
Calls == [at : Phases \cup {"idle", "install", "start", "join"}, req : Requests \cup {None}, found : Found]
Jobs == [at : Working \cup {"none", "wait", "ended"}, req : Requests \cup {None}, gen : Nat,
         phase : Phases, found : Found, shared : BOOLEAN, claim : Keys \cup {None}]

\* The simple variables of a stage keep their types.
LEMMA OwnTyped ==
  ASSUME TypeOK, NEW i \in Stages, StageStep(i), StageInv(i)
  PROVE  /\ request' \in [Stages -> Requests \cup {None}] /\ generation' \in [Stages -> Nat]
         /\ pending' \in [Stages -> BOOLEAN] /\ stopFlag' \in [Stages -> BOOLEAN]
         /\ failures' \in 0 .. MaxFailures
  <1>0. /\ request \in [Stages -> Requests \cup {None}] /\ generation \in [Stages -> Nat]
        /\ pending \in [Stages -> BOOLEAN] /\ stopFlag \in [Stages -> BOOLEAN]
        /\ failures \in 0 .. MaxFailures /\ MaxFailures \in Nat
    BY SteadyAssumption DEF TypeOK
  <1>f. /\ failures' = failures => failures' \in 0 .. MaxFailures
        /\ failures < MaxFailures /\ failures' = failures + 1 => failures' \in 0 .. MaxFailures
    BY <1>0
  <1>1. CASE Install(i)
    <2>1. caller[i].req \in Requests
      BY <1>1 DEF Install, StageInv, CallFits
    <2>. QED BY <1>0, <1>1, <2>1 DEF Install
  <1>2. CASE Reset(i)
    BY <1>0, <1>2 DEF Reset, Clear
  <1>3. CASE Stop(i) \/ StartFails(i)
    <2>1. failures' \in 0 .. MaxFailures
      BY <1>f, <1>3 DEF Stop, StartFails
    <2>2. UNCHANGED <<request, generation>> /\ stopFlag' \in {stopFlag, [stopFlag EXCEPT ![i] = TRUE]}
          /\ pending' \in {pending, [pending EXCEPT ![i] = FALSE]}
      BY <1>3 DEF Stop, StartFails
    <2>. QED BY <1>0, <2>1, <2>2
  <1>4. CASE Stopped(i)
    BY <1>0, <1>4 DEF Stopped, Clear
  <1>5. CASE UNCHANGED own /\ failures' \in 0 .. MaxFailures
    BY <1>0, <1>5 DEF own
  <1>6. CASE (\E r \in Requests : Request(i, r)) \/ LookUp(i) \/ StartWorker(i)
    BY <1>0, <1>5, <1>6 DEF Request, LookUp, StartWorker
  <1>7. CASE TakeJob(i)
    BY <1>0, <1>7 DEF TakeJob
  <1>8. CASE WorkerExit(i) \/ BeginPhase(i) \/ TakeKnown(i) \/ Claim(i) \/ WaitForOther(i) \/ Poll(i)
             \/ Check(i) \/ NextPhase(i)
    BY <1>0, <1>5, <1>8 DEF WorkerExit, BeginPhase, TakeKnown, Claim, WaitForOther, Poll, Check, NextPhase
  <1>9. CASE MeasureEnds(i)
    <2>1. failures' \in 0 .. MaxFailures
      BY <1>f, <1>9 DEF MeasureEnds, Measured, NotMeasured, Throws
    <2>2. UNCHANGED own
      BY <1>9 DEF MeasureEnds, Measured, NotMeasured, Throws
    <2>. QED BY <1>5, <2>1, <2>2
  <1>10. CASE SettleFailed(i) \/ Publish(i) \/ Sample(i)
    BY <1>0, <1>10 DEF SettleFailed, Publish, Sample
  <1>. QED BY <1>1, <1>2, <1>3, <1>4, <1>6, <1>7, <1>8, <1>9, <1>10 DEF StageStep, Caller, WorkerStep

\* The calls keep their types.
LEMMA CallerTyped ==
  ASSUME TypeOK, AnswersFit, NEW i \in Stages, StageStep(i), StageInv(i)
  PROVE  caller' \in [Stages -> Calls]
  <1>0. caller \in [Stages -> Calls]
    BY DEF TypeOK, Calls
  <1>1. NoCall \in Calls
    BY DEF NoCall, Calls, Nothing, Found
  <1>2. CASE LookUp(i)
    <2>. DEFINE c == caller[i]
    <2>1. c \in Calls
      BY <1>0
    <2>2. PICK answer :
             /\ c.at \in Phases /\ [c.found EXCEPT ![c.at] = answer] \in Found
             /\ caller' = [caller EXCEPT ![i].found[c.at] = answer,
                                         ![i].at = CASE c.at = "rotation" -> "mount" [] c.at = "mount" -> "clip"
                                                     [] c.at = "clip" -> "install"]
      BY <1>2, LookedUp
    <2>3. PICK at : at = CASE c.at = "rotation" -> "mount" [] c.at = "mount" -> "clip" [] c.at = "clip" -> "install"
      OBVIOUS
    <2>4. at \in Phases \cup {"install"}
      BY <2>2, <2>3 DEF Phases
    <2>5. caller'[i] = [c EXCEPT !.found[c.at] = answer, !.at = at]
      BY <1>0, <2>2, <2>3
    <2>6. [c EXCEPT !.found[c.at] = answer, !.at = at] \in Calls
      BY <2>1, <2>2, <2>4 DEF Calls
    <2>. QED BY <1>0, <2>2, <2>5, <2>6
  <1>3. ASSUME NEW r \in Requests, Request(i, r) PROVE caller' \in [Stages -> Calls]
    <2>1. [NoCall EXCEPT !.at = "rotation", !.req = r] \in Calls
      BY <1>1 DEF Calls, Phases
    <2>. QED BY <1>0, <1>3, <2>1 DEF Request
  <1>4. CASE Stop(i)
    <2>1. [NoCall EXCEPT !.at = "join"] \in Calls
      BY <1>1 DEF Calls
    <2>. QED BY <1>0, <1>4, <2>1 DEF Stop
  <1>5. CASE Install(i)
    <2>1. [NoCall EXCEPT !.at = "start"] \in Calls
      BY <1>1 DEF Calls
    <2>. QED BY <1>0, <1>1, <1>5, <2>1 DEF Install
  <1>6. CASE StartWorker(i) \/ StartFails(i) \/ Stopped(i) \/ Reset(i) \/ Sample(i)
    BY <1>0, <1>1, <1>6 DEF StartWorker, StartFails, Stopped, Reset, Sample
  <1>7. CASE WorkerStep(i)
    BY <1>0, <1>7 DEF WorkerStep, WorkerExit, TakeJob, BeginPhase, TakeKnown, Claim, WaitForOther, Poll,
       MeasureEnds, Measured, NotMeasured, Throws, SettleFailed, Check, Publish, NextPhase
  <1>. QED BY <1>2, <1>3, <1>4, <1>5, <1>6, <1>7 DEF StageStep, Caller

\* An answer of the worker's own phase fits what it has found.
LEMMA JobFinds ==
  ASSUME TypeOK, NEW i \in Stages, JobFits(i), worker[i].at \in Unanswered,
         NEW a, a # None => a \in Findings(worker[i].phase, Key(i))
  PROVE  /\ [worker[i].found EXCEPT ![worker[i].phase] = a] \in Found
         /\ FoundFor(worker[i].req, [worker[i].found EXCEPT ![worker[i].phase] = a])
  <1>. DEFINE w == worker[i]
  <1>1. /\ w.req \in Requests /\ w.found \in Found /\ FoundFor(w.req, w.found) /\ w.phase \in Phases
        /\ w.req[w.phase] # None /\ \A q \in {w.phase} \cup After(w.phase) : w.found[q] = None
    BY DEF TypeOK, JobFits, Working, Unanswered
  <1>2. a # None => a \in Findings(w.phase, KeyOf(w.phase, w.req, w.found))
    BY DEF Key
  <1>. HIDE DEF w
  <1>3. PICK r \in Requests, f \in Found, p \in Phases : r = w.req /\ f = w.found /\ p = w.phase
    BY <1>1
  <1>4. [f EXCEPT ![p] = a] \in Found /\ FoundFor(r, [f EXCEPT ![p] = a])
    <2>1. FoundFor(r, f) /\ \A q \in {p} \cup After(p) : f[q] = None
      BY <1>1, <1>3
    <2>2. a # None => r[p] # None /\ a \in Findings(p, KeyOf(p, r, f))
      BY <1>1, <1>2, <1>3
    <2>. QED BY <2>1, <2>2, FoundOneMore
  <1>. QED BY <1>3, <1>4 DEF w

\* The jobs keep their types.
LEMMA WorkerTyped ==
  ASSUME TypeOK, AnswersFit, NEW i \in Stages, StageStep(i), StageInv(i)
  PROVE  worker' \in [Stages -> Jobs]
  <1>. DEFINE w == worker[i]
  <1>0. worker \in [Stages -> Jobs] /\ w \in Jobs
    BY DEF TypeOK, Jobs
  <1>1. \A at \in Working \cup {"none", "wait", "ended"} : Worker(at) \in Jobs
    BY DEF Worker, Jobs, Nothing, Found, Phases
  <1>2. ASSUME NEW at \in Working \cup {"none", "wait", "ended"} PROVE [w EXCEPT !.at = at] \in Jobs
    BY <1>0 DEF Jobs
  <1>3. ASSUME NEW p \in Phases, NEW a, [w.found EXCEPT ![p] = a] \in Found, NEW at \in Working
        PROVE  [w EXCEPT !.found[p] = a, !.at = at] \in Jobs
    BY <1>0, <1>3 DEF Jobs
  <1>4. ASSUME UNCHANGED worker PROVE worker' \in [Stages -> Jobs]
    BY <1>0, <1>4
  <1>5. ASSUME NEW x \in Jobs, worker' = [worker EXCEPT ![i] = x] PROVE worker' \in [Stages -> Jobs]
    BY <1>0, <1>5
  <1>6. CASE Install(i) \/ LookUp(i) \/ StartFails(i) \/ Reset(i) \/ Stop(i) \/ Sample(i) \/ Publish(i)
             \/ \E r \in Requests : Request(i, r)
    <2>1. CASE Publish(i)
      BY <1>2, <1>5, <2>1 DEF Publish, Goes, Working
    <2>2. CASE ~Publish(i)
      BY <1>4, <1>6, <2>2 DEF Install, LookUp, StartFails, Reset, Stop, Sample, Request
    <2>. QED BY <2>1, <2>2
  <1>7. CASE StartWorker(i) \/ Stopped(i) \/ SettleFailed(i)
    BY <1>1, <1>5, <1>7 DEF StartWorker, Stopped, SettleFailed, Returns
  <1>8. CASE WorkerExit(i) \/ WaitForOther(i) \/ Poll(i) \/ Check(i)
    BY <1>1, <1>2, <1>5, <1>8 DEF WorkerExit, WaitForOther, Poll, Check, Goes, Returns, Working
  <1>9. CASE TakeJob(i)
    <2>1. ASSUME request[i] # None, NEW sharing \in Sharing
          PROVE  [Worker("begin") EXCEPT !.req = request[i], !.gen = generation[i], !.shared = sharing] \in Jobs
      <3>1. Worker("begin") \in Jobs
        BY <1>1 DEF Working
      <3>2. request[i] \in Requests \cup {None} /\ generation[i] \in Nat /\ sharing \in BOOLEAN
        BY <2>1, SteadyAssumption DEF TypeOK
      <3>3. [Worker("begin") EXCEPT !.req = request[i], !.gen = generation[i]] \in Jobs
        BY <3>1, <3>2 DEF Jobs
      <3>. QED BY <3>2, <3>3 DEF Jobs
    <2>. QED BY <1>4, <1>5, <1>9, <2>1 DEF TakeJob
  <1>10. CASE BeginPhase(i)
    <2>2. [w.found EXCEPT ![w.phase] = state[i].found[w.phase]] \in Found /\ w.phase \in Phases
      <3>1. w.found \in Found /\ state[i].found \in Found /\ w.phase \in Phases
        BY DEF TypeOK
      <3>. QED BY <3>1 DEF Found
    <2>3. [w EXCEPT !.found[w.phase] = state[i].found[w.phase], !.at = "publish"] \in Jobs
      BY <1>3, <2>2 DEF Working
    <2>4. [w EXCEPT !.found[w.phase] = state[i].found[w.phase], !.at = "next"] \in Jobs
      BY <1>3, <2>2 DEF Working
    <2>5. \/ \E at \in Working : worker' = [worker EXCEPT ![i].at = at]
          \/ worker' = [worker EXCEPT ![i].found[w.phase] = state[i].found[w.phase], ![i].at = "publish"]
          \/ worker' = [worker EXCEPT ![i].found[w.phase] = state[i].found[w.phase], ![i].at = "next"]
      BY <1>10 DEF BeginPhase, Goes, Working
    <2>6. ASSUME NEW at \in Working, worker' = [worker EXCEPT ![i].at = at] PROVE worker' \in [Stages -> Jobs]
      BY <1>2, <1>5, <2>6
    <2>7. CASE worker' = [worker EXCEPT ![i].found[w.phase] = state[i].found[w.phase], ![i].at = "publish"]
      BY <1>5, <2>3, <2>7
    <2>8. CASE worker' = [worker EXCEPT ![i].found[w.phase] = state[i].found[w.phase], ![i].at = "next"]
      BY <1>5, <2>4, <2>8
    <2>. QED BY <2>5, <2>6, <2>7, <2>8
  <1>11. CASE TakeKnown(i)
    <2>. DEFINE a == Known(w.phase, Key(i))
    <2>1. w.at = "look" /\ w.phase \in Phases
      BY <1>11 DEF TakeKnown, TypeOK
    <2>2. a \in Findings(w.phase, Key(i))
      BY <1>11, <2>1, KnownFits DEF TakeKnown
    <2>3. [w.found EXCEPT ![w.phase] = a] \in Found
      BY <2>1, <2>2, JobFinds DEF StageInv, Unanswered
    <2>4. [w EXCEPT !.found[w.phase] = a, !.at = "publish"] \in Jobs
      BY <1>3, <2>1, <2>3 DEF Working
    <2>. QED BY <1>5, <1>11, <2>4 DEF TakeKnown
  <1>12. CASE Claim(i)
    <2>1. w.at = "look" /\ w.phase \in Phases /\ w.req \in Requests /\ w.found \in Found
          /\ FoundFor(w.req, w.found) /\ w.req[w.phase] # None
      BY <1>12 DEF Claim, TypeOK, StageInv, JobFits, Working, Unanswered
    <2>2. <<w.phase, Key(i)>> \in Keys
      BY <2>1, KeyIsKey DEF Key
    <2>3. [w EXCEPT !.claim = <<w.phase, Key(i)>>, !.at = "measure"] \in Jobs
      BY <1>0, <2>2 DEF Jobs, Working
    <2>. QED BY <1>5, <1>12, <2>3 DEF Claim
  <1>13. CASE Measured(i)
    <2>1. PICK a \in Findings(w.phase, Key(i)) :
             worker' = [worker EXCEPT ![i].found[w.phase] = a, ![i].claim = None, ![i].at = "check"]
      BY <1>13 DEF Measured
    <2>2. w.at = "measure" /\ w.phase \in Phases
      BY <1>13 DEF Measured, TypeOK
    <2>3. [w.found EXCEPT ![w.phase] = a] \in Found
      BY <2>1, <2>2, JobFinds DEF StageInv, Unanswered
    <2>4. [w EXCEPT !.found[w.phase] = a, !.claim = None, !.at = "check"] \in Jobs
      BY <1>0, <2>2, <2>3 DEF Jobs, Working
    <2>. QED BY <1>5, <2>1, <2>4
  <1>14. CASE NotMeasured(i) \/ Throws(i)
    <2>1. [w EXCEPT !.claim = None, !.at = "check"] \in Jobs /\ [w EXCEPT !.claim = None, !.at = "failed"] \in Jobs
      BY <1>0 DEF Jobs, Working
    <2>. QED BY <1>5, <1>14, <2>1 DEF NotMeasured, Throws
  <1>15. CASE NextPhase(i)
    <2>1. \A p \in Phases : [w EXCEPT !.at = "begin", !.phase = p] \in Jobs
      BY <1>0 DEF Jobs, Working
    <2>2. {"mount", "clip"} \subseteq Phases
      BY DEF Phases
    <2>3. CASE worker' = [worker EXCEPT ![i] = Worker("wait")]
      BY <1>1, <1>5, <2>3
    <2>4. ASSUME NEW p \in Phases, worker' = [worker EXCEPT ![i].at = "begin", ![i].phase = p]
          PROVE  worker' \in [Stages -> Jobs]
      BY <1>5, <2>1, <2>4
    <2>5. \/ worker' = [worker EXCEPT ![i] = Worker("wait")]
          \/ \E p \in {"mount", "clip"} : worker' = [worker EXCEPT ![i].at = "begin", ![i].phase = p]
      BY <1>15 DEF NextPhase, Returns
    <2>. QED BY <2>2, <2>3, <2>4, <2>5
  <1>. QED BY <1>6, <1>7, <1>8, <1>9, <1>10, <1>11, <1>12, <1>13, <1>14, <1>15
       DEF StageStep, Caller, WorkerStep, MeasureEnds

\* What is settled keeps its type.
LEMMA StateTyped ==
  ASSUME TypeOK, NEW i \in Stages, StageStep(i), StageInv(i)
  PROVE  state' \in [Stages -> States]
  <1>. DEFINE s == state[i]
              w == worker[i]
  <1>0. state \in [Stages -> States] /\ s \in States /\ s.found \in Found /\ w.found \in Found /\ w.phase \in Phases
    BY DEF TypeOK, States
  <1>1. NoState \in States
    BY DEF NoState, States, Nothing, Found
  <1>2. ASSUME NEW x \in States, state' = [state EXCEPT ![i] = x] PROVE state' \in [Stages -> States]
    BY <1>0, <1>2
  <1>3. ASSUME UNCHANGED state PROVE state' \in [Stages -> States]
    BY <1>0, <1>3
  <1>4. CASE Install(i)
    <2>. DEFINE found == {p \in Phases : caller[i].found[p] # None}
    <2>1. [NoState EXCEPT !.active = TRUE, !.settled = found, !.found = caller[i].found] \in States
      <3>1. caller[i].found \in Found /\ found \subseteq Phases
        BY DEF TypeOK
      <3>2. [NoState EXCEPT !.settled = found, !.found = caller[i].found] \in States
        BY <1>1, <3>1 DEF States
      <3>. QED BY <3>1 DEF States, NoState
    <2>. QED BY <1>2, <1>4, <2>1 DEF Install
  <1>5. CASE StartFails(i) \/ SettleFailed(i)
    <2>1. [s EXCEPT !.settled = Phases] \in States
      BY <1>0 DEF States
    <2>2. state' = state \/ state' = [state EXCEPT ![i].settled = Phases]
      BY <1>5 DEF StartFails, SettleFailed, SettleAll
    <2>. QED BY <1>2, <1>3, <2>1, <2>2
  <1>6. CASE Reset(i) \/ Stopped(i)
    BY <1>1, <1>2, <1>6 DEF Reset, Stopped, Clear
  <1>7. CASE Sample(i)
    <2>1. w.at = "measure" /\ w.phase = "clip" /\ state' = [state EXCEPT ![i].samples = @ \cup {Key(i)}]
      BY <1>7 DEF Sample
    <2>2. /\ w.req \in Requests /\ FoundFor(w.req, w.found) /\ w.req[w.phase] # None
      BY <2>1 DEF StageInv, JobFits, Working, Unanswered
    <2>3. Key(i) \in ClipKeys
      BY <1>0, <2>1, <2>2, KeyIsKey DEF Key
    <2>4. [s EXCEPT !.samples = @ \cup {Key(i)}] \in States
      BY <1>0, <2>3 DEF States
    <2>. QED BY <1>2, <2>1, <2>4
  <1>8. CASE Publish(i)
    <2>1. [s.found EXCEPT ![w.phase] = w.found[w.phase]] \in Found
      BY <1>0 DEF Found
    <2>2. [s EXCEPT !.settled = @ \cup {w.phase}, !.found[w.phase] = w.found[w.phase]] \in States
      BY <1>0, <2>1 DEF States
    <2>3. \/ state' = state
          \/ state' = [state EXCEPT ![i].settled = @ \cup {w.phase}, ![i].found[w.phase] = w.found[w.phase]]
      BY <1>8 DEF Publish
    <2>4. CASE state' = state
      BY <1>3, <2>4
    <2>5. CASE state' = [state EXCEPT ![i].settled = @ \cup {w.phase}, ![i].found[w.phase] = w.found[w.phase]]
      <3>1. state' = [state EXCEPT ![i] = [s EXCEPT !.settled = @ \cup {w.phase},
                                                     !.found[w.phase] = w.found[w.phase]]]
        BY <2>5
      <3>. QED BY <1>2, <2>2, <3>1
    <2>. QED BY <2>3, <2>4, <2>5
  <1>9. CASE LookUp(i) \/ StartWorker(i) \/ Stop(i) \/ \E r \in Requests : Request(i, r)
    BY <1>3, <1>9 DEF LookUp, StartWorker, Stop, Request, own
  <1>10. CASE WorkerStep(i) /\ ~SettleFailed(i) /\ ~Publish(i)
    BY <1>3, <1>10 DEF WorkerStep, WorkerExit, TakeJob, BeginPhase, TakeKnown, Claim, WaitForOther, Poll,
       MeasureEnds, Measured, NotMeasured, Throws, Check, NextPhase, own
  <1>. QED BY <1>4, <1>5, <1>6, <1>7, <1>8, <1>9, <1>10 DEF StageStep, Caller

\* Every step keeps the types, and the answers under their keys.
LEMMA SteadyTypeStep ==
  ASSUME TypeOK, SteadyInv, [Next]_vars PROVE TypeOK' /\ AnswersFit'
  <1>1. CASE UNCHANGED vars
    BY <1>1 DEF vars, shared, own, TypeOK, SteadyInv, AnswersFit
  <1>2. ASSUME NEW i \in Stages, StageStep(i) PROVE TypeOK' /\ AnswersFit'
    <2>1. StageInv(i) /\ AnswersFit
      BY DEF SteadyInv
    <2>. QED BY <1>2, <2>1, SharedStays, OwnTyped, CallerTyped, WorkerTyped, StateTyped
         DEF TypeOK, States, Calls, Jobs
  <1>3. CASE Next
    <2>1. \E i \in Stages : StageStep(i)
      BY <1>3 DEF Next, StageStep
    <2>. QED BY <1>2, <2>1
  <1>. QED BY <1>1, <1>3

-----------------------------------------------------------------------------
(* Each part of what is known of a stage. *)

\* request() finds what fits it, phase by phase; no worker starts twice.
LEMMA CallFitsStep ==
  ASSUME TypeOK, AnswersFit, NEW i \in Stages, StageInv(i), StageStep(i) PROVE CallFits(i)'
  <1>. DEFINE c == caller[i]
  <1>0. caller \in [Stages -> Calls] /\ worker \in [Stages -> Jobs] /\ CallFits(i)
    BY DEF TypeOK, Calls, Jobs, StageInv
  <1>1. ASSUME NEW r \in Requests, Request(i, r) PROVE CallFits(i)'
    <2>1. caller'[i] = [at |-> "rotation", req |-> r, found |-> Nothing]
      BY <1>0, <1>1 DEF Request, NoCall
    <2>. QED BY <2>1 DEF CallFits, FoundFor, Through, Nothing, Phases, After
  <1>2. CASE LookUp(i)
    <2>1. PICK answer :
             /\ c.at \in Phases /\ c.req \in Requests
             /\ answer # None => /\ c.req[c.at] # None
                                 /\ c.at = "clip" => \A q \in Before("clip") : c.req[q] # None => c.found[q] # None
             /\ FoundFor(c.req, [c.found EXCEPT ![c.at] = answer])
             /\ \A q \in Phases : [c.found EXCEPT ![c.at] = answer][q] = IF q = c.at THEN answer ELSE c.found[q]
             /\ caller' = [caller EXCEPT ![i].found[c.at] = answer,
                                         ![i].at = CASE c.at = "rotation" -> "mount" [] c.at = "mount" -> "clip"
                                                     [] c.at = "clip" -> "install"]
      BY <1>2, LookedUp
    <2>2. PICK g : g = [c.found EXCEPT ![c.at] = answer]
      OBVIOUS
    <2>3. /\ caller'[i].found = g /\ caller'[i].req = c.req
          /\ caller'[i].at = CASE c.at = "rotation" -> "mount" [] c.at = "mount" -> "clip" [] c.at = "clip" -> "install"
      BY <1>0, <2>1, <2>2 DEF Calls
    <2>4. FoundFor(c.req, g) /\ \A q \in Phases : g[q] = IF q = c.at THEN answer ELSE c.found[q]
      BY <2>1, <2>2
    <2>5. \A p \in {c.at} \cup After(c.at) : c.found[p] = None
      BY <1>0, <2>1 DEF CallFits
    <2>6. CASE c.at = "rotation"
      <3>1. g["mount"] = None /\ g["clip"] = None
        BY <2>4, <2>5, <2>6 DEF Phases, After, Before
      <3>2. caller'[i].at = "mount" /\ {"mount"} \cup After("mount") = {"mount", "clip"}
        BY <2>3, <2>6 DEF After, Before, Phases
      <3>3. Through(c.req, g)
        BY <3>1 DEF Through
      <3>. QED BY <2>1, <2>3, <2>4, <3>1, <3>2, <3>3 DEF CallFits, Phases
    <2>7. CASE c.at = "mount"
      <3>1. g["clip"] = None
        BY <2>4, <2>5, <2>7 DEF Phases, After, Before
      <3>2. caller'[i].at = "clip" /\ {"clip"} \cup After("clip") = {"clip"}
        BY <2>3, <2>7 DEF After, Before, Phases
      <3>3. Through(c.req, g)
        BY <3>1 DEF Through
      <3>. QED BY <2>1, <2>3, <2>4, <3>1, <3>2, <3>3 DEF CallFits, Phases
    <2>8. CASE c.at = "clip"
      <3>1. Through(c.req, g)
        BY <2>1, <2>4, <2>8 DEF Through, Phases, Before
      <3>. QED BY <2>1, <2>3, <2>4, <2>8, <3>1 DEF CallFits, Phases
    <2>. QED BY <2>1, <2>6, <2>7, <2>8 DEF Phases
  <1>3. CASE Install(i)
    <2>1. caller'[i].at = "idle" \/ (caller'[i].at = "start" /\ worker[i].at = "none")
      BY <1>0, <1>3 DEF Install, NoCall
    <2>2. worker' = worker
      BY <1>3 DEF Install
    <2>. QED BY <2>1, <2>2 DEF CallFits, Phases
  <1>4. CASE StartWorker(i) \/ StartFails(i) \/ Stop(i) \/ Stopped(i)
    <2>1. caller'[i].at \in {"idle", "join"}
      BY <1>0, <1>4 DEF StartWorker, StartFails, Stop, Stopped, NoCall
    <2>. QED BY <2>1 DEF CallFits, Phases
  <1>5. CASE Reset(i) \/ Sample(i)
    <2>1. UNCHANGED <<caller, worker>>
      BY <1>5 DEF Reset, Sample
    <2>. QED BY <1>0, <2>1 DEF CallFits
  <1>6. CASE WorkerStep(i)
    <2>1. UNCHANGED caller /\ worker[i].at # "none"
      BY <1>6 DEF WorkerStep, WorkerExit, TakeJob, BeginPhase, TakeKnown, Claim, WaitForOther, Poll, MeasureEnds,
         Measured, NotMeasured, Throws, SettleFailed, Check, Publish, NextPhase
    <2>. QED BY <1>0, <2>1 DEF CallFits
  <1>. QED BY <1>1, <1>2, <1>3, <1>4, <1>5, <1>6 DEF StageStep, Caller

\* A job's answers fit its request; a claim is of the phase being measured.
LEMMA JobFitsStep ==
  ASSUME TypeOK, AnswersFit, NEW i \in Stages, StageInv(i), StageStep(i) PROVE JobFits(i)'
  <1>. DEFINE w == worker[i]
  <1>0. /\ worker \in [Stages -> Jobs] /\ generation \in [Stages -> Nat] /\ JobFits(i)
        /\ w.phase \in Phases /\ w.found \in Found /\ w.gen \in Nat /\ w.at \in Working \cup {"none", "wait", "ended"}
    BY DEF TypeOK, Jobs, StageInv
  <1>1. ASSUME UNCHANGED worker, generation'[i] \in Nat, generation[i] <= generation'[i] PROVE JobFits(i)'
    <2>1. w.gen <= generation[i] => w.gen <= generation'[i]
      BY <1>0, <1>1
    <2>. QED BY <1>0, <1>1, <2>1 DEF JobFits, Key
  <1>2. ASSUME NEW at \in {"none", "wait", "ended"}, worker' = [worker EXCEPT ![i] = Worker(at)] PROVE JobFits(i)'
    <2>1. worker'[i].at = at /\ worker'[i].claim = None
      BY <1>0, <1>2 DEF Worker
    <2>. QED BY <2>1 DEF JobFits, Working, Unanswered
  <1>3. ASSUME w.at \in Working, UNCHANGED generation, NEW at \in Working, NEW claim,
               \/ worker' = [worker EXCEPT ![i].at = at] /\ claim = w.claim
               \/ worker' = [worker EXCEPT ![i].claim = claim, ![i].at = at],
               at \in Unanswered \cup {"begin"} => w.found[w.phase] = None,
               at \in Unanswered => w.req[w.phase] # None,
               claim # None => at = "measure" /\ claim = <<w.phase, Key(i)>>
        PROVE  JobFits(i)'
    <2>1. /\ worker'[i].at = at /\ worker'[i].req = w.req /\ worker'[i].gen = w.gen
          /\ worker'[i].found = w.found /\ worker'[i].phase = w.phase /\ worker'[i].claim = claim
      BY <1>0, <1>3 DEF Jobs
    <2>2. Key(i)' = Key(i)
      BY <2>1 DEF Key
    <2>. QED BY <1>0, <1>3, <2>1, <2>2 DEF JobFits
  <1>4. CASE Install(i) \/ Reset(i)
    BY <1>0, <1>1, <1>4 DEF Install, Reset, Clear
  <1>5. CASE LookUp(i) \/ StartFails(i) \/ Stop(i) \/ Sample(i) \/ \E r \in Requests : Request(i, r)
    <2>1. UNCHANGED <<worker, generation>>
      BY <1>5 DEF LookUp, StartFails, Stop, Sample, Request, own
    <2>2. generation[i] <= generation[i]
      BY <1>0
    <2>. QED BY <1>0, <1>1, <2>1, <2>2
  <1>6. CASE StartWorker(i) \/ Stopped(i) \/ SettleFailed(i)
    BY <1>2, <1>6 DEF StartWorker, Stopped, SettleFailed, Returns
  <1>7. CASE WorkerExit(i)
    <2>1. worker'[i] = [w EXCEPT !.at = "ended"] /\ w.at = "wait"
      BY <1>0, <1>7 DEF WorkerExit, Goes
    <2>2. worker'[i].at = "ended" /\ worker'[i].claim = w.claim
      BY <1>0, <2>1 DEF Jobs
    <2>. QED BY <1>0, <2>1, <2>2 DEF JobFits, Working, Unanswered
  <1>8. CASE TakeJob(i)
    <2>1. CASE request[i] = None
      BY <1>0, <1>1, <1>8, <2>1 DEF TakeJob
    <2>2. CASE request[i] # None
      <3>1. PICK sharing \in Sharing :
               worker' = [worker EXCEPT ![i] = [Worker("begin") EXCEPT
                            !.req = request[i], !.gen = generation[i], !.shared = sharing]]
        BY <1>8, <2>2 DEF TakeJob
      <3>2. /\ worker'[i].at = "begin" /\ worker'[i].req = request[i] /\ worker'[i].gen = generation[i]
            /\ worker'[i].phase = "rotation" /\ worker'[i].found = Nothing /\ worker'[i].claim = None
        BY <1>0, <3>1 DEF Worker
      <3>3. generation' = generation /\ request[i] \in Requests
        BY <1>8, <2>2 DEF TakeJob, TypeOK
      <3>4. FoundFor(request[i], Nothing) /\ \A p \in Phases : Nothing[p] = None
        BY DEF FoundFor, Nothing
      <3>5. generation[i] <= generation[i]
        BY <1>0
      <3>. QED BY <3>2, <3>3, <3>4, <3>5 DEF JobFits, Working, Unanswered, After, Phases
    <2>. QED BY <2>1, <2>2
  <1>9. ASSUME w.at \in Unanswered, NEW a, a # None => a \in Findings(w.phase, Key(i)), UNCHANGED generation,
               NEW at \in {"check", "publish"},
               \/ worker' = [worker EXCEPT ![i].found[w.phase] = a, ![i].claim = None, ![i].at = at]
               \/ w.claim = None /\ worker' = [worker EXCEPT ![i].found[w.phase] = a, ![i].at = at]
        PROVE  JobFits(i)'
    <2>1. PICK g : g = [w.found EXCEPT ![w.phase] = a]
      OBVIOUS
    <2>2. FoundFor(w.req, g) /\ \A q \in Phases : g[q] = IF q = w.phase THEN a ELSE w.found[q]
      <3>1. FoundFor(w.req, [w.found EXCEPT ![w.phase] = a])
        BY <1>0, <1>9, JobFinds
      <3>2. \A q \in Phases : g[q] = IF q = w.phase THEN a ELSE w.found[q]
        BY <1>0, <2>1 DEF Found
      <3>. QED BY <2>1, <3>1, <3>2
    <2>3. worker'[i].at = at /\ worker'[i].req = w.req /\ worker'[i].gen = w.gen /\ worker'[i].found = g
          /\ worker'[i].phase = w.phase /\ worker'[i].claim = None
      BY <1>0, <1>9, <2>1 DEF Jobs
    <2>4. \A p \in After(w.phase) : p \in Phases /\ p # w.phase
      BY DEF After
    <2>. QED BY <1>0, <1>9, <2>2, <2>3, <2>4 DEF JobFits, Unanswered, Working
  <1>10. CASE TakeKnown(i)
    <2>1. PICK a : a = Known(w.phase, Key(i))
      OBVIOUS
    <2>2. a \in Findings(w.phase, Key(i)) /\ w.at = "look"
      BY <1>0, <1>10, <2>1, KnownFits DEF TakeKnown
    <2>3. w.claim = None
      BY <1>0, <2>2 DEF JobFits
    <2>. QED BY <1>9, <1>10, <2>1, <2>2, <2>3 DEF TakeKnown, Unanswered, own
  <1>11. CASE Measured(i)
    <2>1. PICK a \in Findings(w.phase, Key(i)) :
             worker' = [worker EXCEPT ![i].found[w.phase] = a, ![i].claim = None, ![i].at = "check"]
      BY <1>11 DEF Measured
    <2>2. w.at = "measure" /\ UNCHANGED generation
      BY <1>11 DEF Measured, own
    <2>. QED BY <1>9, <2>1, <2>2 DEF Unanswered
  <1>12. w.at \in Working /\ w.at # "measure" => w.claim = None
    BY <1>0 DEF JobFits
  <1>13. w.at \in Unanswered => w.found[w.phase] = None /\ w.req[w.phase] # None
    BY <1>0 DEF JobFits
  <1>14. CASE BeginPhase(i)
    <2>1. w.at = "begin" /\ w.found[w.phase] = None /\ w.claim = None /\ UNCHANGED generation
      BY <1>0, <1>12, <1>14 DEF BeginPhase, JobFits, Working, own
    <2>2. ASSUME NEW at \in {"next", "look", "measure"}, Goes(i, at), at # "next" => w.req[w.phase] # None
          PROVE  JobFits(i)'
      BY <1>3, <2>1, <2>2 DEF Goes, Working, Unanswered
    <2>3. ASSUME w.gen = generation[i], NEW at \in {"publish", "next"},
                 worker' = [worker EXCEPT ![i].found[w.phase] = state[i].found[w.phase], ![i].at = at]
          PROVE  JobFits(i)'
      <3>1. /\ request[i] = w.req /\ w.req \in Requests /\ FoundFor(w.req, w.found)
            /\ \A q \in Before(w.phase) : w.found[q] = state[i].found[q]
            /\ \A q \in {w.phase} \cup After(w.phase) : w.found[q] = None
        BY <1>0, <2>1, <2>3 DEF StageInv, JobIsCurrent, JobFits, Working
      <3>2. FoundFor(w.req, state[i].found)
        BY <3>1, NoneAssumption DEF StageInv, StateFits
      <3>3. PICK a : a = state[i].found[w.phase]
        OBVIOUS
      <3>4. a # None => w.req[w.phase] # None /\ a \in Findings(w.phase, KeyOf(w.phase, w.req, state[i].found))
        BY <1>0, <3>2, <3>3 DEF FoundFor
      <3>5. KeyOf(w.phase, w.req, state[i].found) = KeyOf(w.phase, w.req, w.found)
        BY <1>0, <3>1, KeyFrom
      <3>6. PICK g : g = [w.found EXCEPT ![w.phase] = a]
        OBVIOUS
      <3>7. FoundFor(w.req, g)
        BY <1>0, <3>1, <3>4, <3>5, <3>6, FoundOneMore
      <3>8. \A q \in Phases : g[q] = IF q = w.phase THEN a ELSE w.found[q]
        BY <1>0, <3>6 DEF Found
      <3>9. /\ worker'[i].at = at /\ worker'[i].req = w.req /\ worker'[i].gen = w.gen
            /\ worker'[i].found = g /\ worker'[i].phase = w.phase /\ worker'[i].claim = None
        BY <1>0, <2>1, <2>3, <3>3, <3>6 DEF Jobs
      <3>10. \A q \in After(w.phase) : g[q] = None
        BY <3>1, <3>8 DEF After
      <3>11. w.gen <= generation[i]
        BY <1>0, <2>3
      <3>. QED BY <2>1, <2>3, <3>1, <3>7, <3>9, <3>10, <3>11 DEF JobFits, Unanswered
    <2>. QED BY <1>14, <2>2, <2>3 DEF BeginPhase
  <1>15. CASE Claim(i)
    <2>1. w.at = "look" /\ UNCHANGED generation
          /\ worker' = [worker EXCEPT ![i].claim = <<w.phase, Key(i)>>, ![i].at = "measure"]
      BY <1>15 DEF Claim, own
    <2>. QED BY <1>3, <1>13, <2>1 DEF Working, Unanswered
  <1>16. CASE WaitForOther(i)
    BY <1>3, <1>12, <1>13, <1>16 DEF WaitForOther, Goes, Working, Unanswered, own
  <1>17. CASE Poll(i)
    <2>1. CASE Returns(i)
      BY <1>2, <2>1 DEF Returns
    <2>2. CASE Goes(i, "look")
      BY <1>3, <1>12, <1>13, <1>17, <2>2 DEF Poll, Goes, Working, Unanswered, own
    <2>. QED BY <1>17, <2>1, <2>2 DEF Poll
  <1>18. CASE NotMeasured(i) \/ Throws(i)
    <2>1. /\ w.at = "measure" /\ UNCHANGED generation
          /\ \E at \in {"check", "failed"} : worker' = [worker EXCEPT ![i].claim = None, ![i].at = at]
      BY <1>18 DEF NotMeasured, Throws, own
    <2>. QED BY <1>3, <2>1 DEF Working, Unanswered
  <1>19. CASE Check(i) \/ Publish(i)
    <2>1. CASE Returns(i)
      BY <1>2, <2>1 DEF Returns
    <2>2. ASSUME NEW at \in {"publish", "next"}, Goes(i, at) PROVE JobFits(i)'
      BY <1>3, <1>12, <1>19, <2>2 DEF Check, Publish, Goes, Working, Unanswered, own
    <2>. QED BY <1>19, <2>1, <2>2 DEF Check, Publish
  <1>20. CASE NextPhase(i)
    <2>1. CASE Returns(i)
      BY <1>2, <2>1 DEF Returns
    <2>2. ASSUME NEW p \in {"mount", "clip"}, p \in After(w.phase), After(p) \subseteq After(w.phase),
                 worker' = [worker EXCEPT ![i].at = "begin", ![i].phase = p]
          PROVE  JobFits(i)'
      <3>1. /\ worker'[i].at = "begin" /\ worker'[i].req = w.req /\ worker'[i].gen = w.gen
            /\ worker'[i].found = w.found /\ worker'[i].phase = p /\ worker'[i].claim = w.claim
        BY <1>0, <2>2 DEF Jobs
      <3>2. w.at = "next" /\ UNCHANGED generation /\ w.claim = None
        BY <1>12, <1>20 DEF NextPhase, Working, own
      <3>. QED BY <1>0, <2>2, <3>1, <3>2 DEF JobFits, Working, Unanswered
    <2>3. /\ w.phase = "rotation" => "mount" \in After(w.phase) /\ After("mount") \subseteq After(w.phase)
          /\ w.phase = "mount" => "clip" \in After(w.phase) /\ After("clip") \subseteq After(w.phase)
      BY DEF After, Before, Phases
    <2>. QED BY <1>0, <1>20, <2>1, <2>2, <2>3 DEF NextPhase, Phases
  <1>. QED BY <1>4, <1>5, <1>6, <1>7, <1>8, <1>10, <1>11, <1>14, <1>15, <1>16, <1>17, <1>18, <1>19, <1>20
       DEF StageStep, Caller, WorkerStep, MeasureEnds

\* The state holds what fits the request in force.
LEMMA StateFitsStep ==
  ASSUME TypeOK, NEW i \in Stages, StageInv(i), StageStep(i) PROVE StateFits(i)'
  <1>. DEFINE w == worker[i]
              s == state[i]
              c == caller[i]
  <1>0. /\ state \in [Stages -> States] /\ request \in [Stages -> Requests \cup {None}]
        /\ generation \in [Stages -> Nat]
        /\ StateFits(i) /\ s.found \in Found /\ s.settled \subseteq Phases
        /\ w.phase \in Phases /\ w.found \in Found
    BY DEF TypeOK, States, StageInv
  <1>1. ASSUME request'[i] = request[i], state'[i] = state[i] PROVE StateFits(i)'
    BY <1>0, <1>1 DEF StateFits
  <1>2. ASSUME request'[i] = None, state'[i] = NoState PROVE StateFits(i)'
    BY <1>2 DEF StateFits, NoState, Nothing
  <1>3. ASSUME NEW gen, SettleAll(i, gen), UNCHANGED request PROVE StateFits(i)'
    <2>1. CASE state' = state
      BY <1>1, <1>3, <2>1
    <2>2. CASE state' # state
      <3>1. request[i] # None /\ state'[i] = [s EXCEPT !.settled = Phases]
        BY <1>0, <1>3, <2>2 DEF SettleAll
      <3>2. state'[i].found = s.found /\ state'[i].samples = s.samples /\ state'[i].settled = Phases
        BY <1>0, <3>1 DEF States
      <3>. QED BY <1>0, <1>3, <3>1, <3>2 DEF StateFits
    <2>. QED BY <2>1, <2>2
  <1>4. CASE Install(i)
    <2>1. /\ request'[i] = c.req /\ state'[i].found = c.found /\ state'[i].samples = {}
          /\ state'[i].settled = {p \in Phases : c.found[p] # None}
      BY <1>0, <1>4 DEF Install, NoState
    <2>2. c.req \in Requests /\ FoundFor(c.req, c.found)
      BY <1>4 DEF Install, StageInv, CallFits
    <2>. QED BY <2>1, <2>2, NoneAssumption DEF StateFits
  <1>5. CASE Reset(i) \/ Stopped(i)
    BY <1>0, <1>2, <1>5 DEF Reset, Stopped, Clear
  <1>6. CASE StartFails(i) \/ SettleFailed(i)
    BY <1>3, <1>6 DEF StartFails, SettleFailed
  <1>7. CASE Sample(i)
    <2>1. /\ w.at = "measure" /\ w.phase = "clip" /\ w.gen = generation[i] /\ request'[i] = request[i]
          /\ state' = [state EXCEPT ![i].samples = @ \cup {Key(i)}] /\ request[i] # None
      BY <1>7 DEF Sample
    <2>2. request[i] = w.req /\ \A q \in Before("clip") : w.found[q] = s.found[q]
      BY <2>1 DEF StageInv, JobIsCurrent, Working
    <2>3. Key(i) = KeyOf("clip", request[i], s.found)
      BY <2>1, <2>2, KeyFrom DEF Key, Phases
    <2>4. state'[i].found = s.found /\ state'[i].settled = s.settled /\ state'[i].samples = s.samples \cup {Key(i)}
      BY <1>0, <2>1 DEF States
    <2>. QED BY <1>0, <2>1, <2>3, <2>4 DEF StateFits
  <1>8. CASE Publish(i)
    <2>1. CASE state' = state
      BY <1>1, <1>8, <2>1 DEF Publish
    <2>2. CASE state' # state
      <3>. DEFINE p == w.phase
      <3>1. /\ w.at = "publish" /\ w.gen = generation[i] /\ request[i] # None /\ request'[i] = request[i]
            /\ state' = [state EXCEPT ![i].settled = @ \cup {p}, ![i].found[p] = w.found[p]]
        BY <1>8, <2>2 DEF Publish
      <3>2. /\ request[i] = w.req /\ w.req[p] # None /\ s.found[p] \in {None, w.found[p]}
            /\ \A q \in Before(p) : w.found[q] = s.found[q]
            /\ p # "clip" => Open(i)
        BY <3>1 DEF StageInv, JobIsCurrent, Working
      <3>3. FoundFor(w.req, w.found) /\ FoundFor(w.req, s.found)
        BY <1>0, <3>1, <3>2 DEF StageInv, JobFits, StateFits, Working
      <3>4. PICK g : g = [s.found EXCEPT ![p] = w.found[p]]
        OBVIOUS
      <3>5. state'[i].found = g /\ state'[i].settled = s.settled \cup {p} /\ state'[i].samples = s.samples
        BY <1>0, <3>1, <3>4 DEF States
      <3>6. \A q \in Phases : g[q] = IF q = p THEN w.found[p] ELSE s.found[q]
        BY <1>0, <3>4 DEF Found
      <3>7. \A q \in Before(p) : q \in Phases /\ q # p
        BY <1>0 DEF Before, Phases
      <3>8. p # "clip" /\ s.found["clip"] # None => \A q \in Phases : g[q] = s.found[q]
        <4>1. p # "clip" /\ s.found["clip"] # None => s.found[p] # None
          BY <1>0, <3>1, <3>2 DEF Open, Through, Phases
        <4>. QED BY <3>2, <3>6, <4>1
      <3>9. \A q \in Phases : s.found[q] # None => KeyOf(q, w.req, g) = KeyOf(q, w.req, s.found)
        BY <3>6, <3>8 DEF KeyOf, Phases
      <3>10. KeyOf(p, w.req, g) = KeyOf(p, w.req, w.found)
        <4>1. \A q \in Before(p) : g[q] = w.found[q]
          BY <3>2, <3>6, <3>7
        <4>. QED BY <1>0, <4>1, KeyFrom
      <3>11. FoundFor(w.req, g)
        BY <1>0, <3>3, <3>6, <3>9, <3>10 DEF FoundFor
      <3>12. \A k \in s.samples : k = KeyOf("clip", w.req, g)
        <4>1. p # "clip" => s.samples = {}
          BY <3>2 DEF Open
        <4>2. p = "clip" => KeyOf("clip", w.req, g) = KeyOf("clip", w.req, s.found)
          BY <3>6 DEF KeyOf, Phases
        <4>. QED BY <1>0, <3>1, <3>2, <4>1, <4>2 DEF StateFits
      <3>13. \A q \in Phases : g[q] # None => q \in s.settled \cup {p}
        BY <1>0, <3>6 DEF StateFits
      <3>. QED BY <3>1, <3>2, <3>5, <3>11, <3>12, <3>13 DEF StateFits
    <2>. QED BY <2>1, <2>2
  <1>9. CASE (\E r \in Requests : Request(i, r)) \/ LookUp(i) \/ StartWorker(i) \/ Stop(i)
    BY <1>1, <1>9 DEF Request, LookUp, StartWorker, Stop, own
  <1>10. CASE WorkerStep(i) /\ ~SettleFailed(i) /\ ~Publish(i)
    BY <1>1, <1>10 DEF WorkerStep, WorkerExit, TakeJob, BeginPhase, TakeKnown, Claim, WaitForOther, Poll, MeasureEnds,
       Measured, NotMeasured, Throws, Check, NextPhase, own
  <1>. QED BY <1>4, <1>5, <1>6, <1>7, <1>8, <1>9, <1>10 DEF StageStep, Caller

\* A request that waits for its worker has no correction without a rotation.
LEMMA PendingOpen ==
  ASSUME TypeOK, NEW i \in Stages, StageInv(i), StageStep(i), pending'[i] PROVE Open(i)'
  <1>. DEFINE s == state[i]
              c == caller[i]
              w == worker[i]
  <1>0. /\ state \in [Stages -> States] /\ request \in [Stages -> Requests \cup {None}]
        /\ pending \in [Stages -> BOOLEAN] /\ (pending[i] => Open(i))
        /\ w.at \in Working /\ w.gen = generation[i] => ~pending[i]
    BY DEF TypeOK, States, StageInv, JobIsCurrent
  <1>1. ASSUME pending'[i] = pending[i], request'[i] = request[i],
               state'[i].found = s.found, state'[i].samples = s.samples
        PROVE  Open(i)'
    BY <1>0, <1>1 DEF Open
  <1>2. CASE Install(i)
    <2>1. request'[i] = c.req /\ state'[i].found = c.found /\ state'[i].samples = {}
      BY <1>0, <1>2 DEF Install, NoState
    <2>2. Through(c.req, c.found)
      BY <1>2 DEF Install, StageInv, CallFits
    <2>. QED BY <2>1, <2>2 DEF Open
  <1>3. CASE Reset(i) \/ Stop(i) \/ TakeJob(i)
    BY <1>0, <1>3 DEF Reset, Stop, TakeJob
  <1>4. CASE Stopped(i)
    <2>1. request'[i] = None /\ state'[i] = NoState
      BY <1>0, <1>4 DEF Stopped, Clear
    <2>. QED BY <2>1 DEF Open, NoState
  <1>5. CASE StartFails(i) \/ SettleFailed(i)
    <2>1. UNCHANGED <<request, pending>> /\ \E gen : SettleAll(i, gen)
      BY <1>5 DEF StartFails, SettleFailed
    <2>2. state'[i].found = s.found /\ state'[i].samples = s.samples
      BY <1>0, <2>1 DEF SettleAll, States
    <2>. QED BY <1>1, <2>1, <2>2
  <1>6. CASE Sample(i)
    BY <1>0, <1>6 DEF Sample, Working
  <1>7. CASE Publish(i)
    <2>1. CASE state' = state
      BY <1>1, <1>7, <2>1 DEF Publish
    <2>2. CASE state' # state
      BY <1>0, <1>7, <2>2 DEF Publish, Working
    <2>. QED BY <2>1, <2>2
  <1>8. CASE (\E r \in Requests : Request(i, r)) \/ LookUp(i) \/ StartWorker(i)
    BY <1>1, <1>8 DEF Request, LookUp, StartWorker, own
  <1>9. CASE WorkerStep(i) /\ ~SettleFailed(i) /\ ~Publish(i) /\ ~TakeJob(i)
    BY <1>1, <1>9 DEF WorkerStep, WorkerExit, BeginPhase, TakeKnown, Claim, WaitForOther, Poll, MeasureEnds,
       Measured, NotMeasured, Throws, Check, NextPhase, own
  <1>. QED BY <1>2, <1>3, <1>4, <1>5, <1>6, <1>7, <1>8, <1>9 DEF StageStep, Caller

\* A job of the generation in force agrees with what is published.
LEMMA JobIsCurrentStep ==
  ASSUME TypeOK, AnswersFit, NEW i \in Stages, StageInv(i), StageStep(i) PROVE JobIsCurrent(i)'
  <1>. DEFINE w == worker[i]
              s == state[i]
              Agrees(x) ==
                /\ \A p \in Before(x.phase) : x.found[p] = s.found[p]
                /\ x.at = "next" => x.found[x.phase] = s.found[x.phase]
                /\ x.at \in Unanswered \cup {"check"} => s.found[x.phase] = None
                /\ x.at = "publish" => s.found[x.phase] \in {None, x.found[x.phase]}
                /\ x.at \in {"check", "publish"} => x.req[x.phase] # None
                /\ x.phase # "clip" => Open(i)
  <1>0. /\ worker \in [Stages -> Jobs] /\ generation \in [Stages -> Nat] /\ pending \in [Stages -> BOOLEAN]
        /\ state \in [Stages -> States] /\ request \in [Stages -> Requests \cup {None}]
        /\ w.phase \in Phases /\ w.found \in Found /\ w.gen \in Nat
        /\ s.found \in Found /\ generation[i] \in Nat
    BY DEF TypeOK, Jobs, States
  <1>1. w.at \in Working /\ w.gen = generation[i] =>
           request[i] = w.req /\ w.req \in Requests /\ ~pending[i] /\ Agrees(w)
    BY DEF StageInv, JobIsCurrent, JobFits
  <1>2. \A p \in Before(w.phase) : p \in Phases /\ p # w.phase
    BY <1>0 DEF Before, Phases
  <1>o. w.at \in Working => w.gen <= generation[i]
    BY DEF StageInv, JobFits
  <1>p. pending'[i] => Open(i)'
    BY PendingOpen
  <1>3. ASSUME worker'[i].at \notin Working PROVE JobIsCurrent(i)'
    BY <1>p, <1>3 DEF JobIsCurrent
  <1>4. ASSUME UNCHANGED worker, generation'[i] = generation[i] + 1 PROVE JobIsCurrent(i)'
    <2>1. w.at \in Working => w.gen # generation'[i]
      BY <1>0, <1>o, <1>4
    <2>. QED BY <1>p, <1>4, <2>1 DEF JobIsCurrent
  <1>5. ASSUME UNCHANGED worker, generation'[i] = generation[i], request'[i] = request[i],
               pending'[i] = pending[i] \/ ~pending'[i],
               state'[i].found = s.found, state'[i].samples = s.samples \/ w.phase = "clip"
        PROVE  JobIsCurrent(i)'
    <2>1. w.at \in Working /\ w.gen = generation[i] /\ w.phase # "clip" => Open(i)'
      BY <1>1, <1>5 DEF Open
    <2>. QED BY <1>p, <1>1, <1>5, <2>1 DEF JobIsCurrent
  <1>6. ASSUME UNCHANGED <<request, generation, pending, state>>, w.at \in Working,
               worker'[i].req = w.req, worker'[i].gen = w.gen,
               w.gen = generation[i] => Agrees(worker'[i])
        PROVE  JobIsCurrent(i)'
    <2>1. Open(i)' <=> Open(i)
      BY <1>6 DEF Open
    <2>. QED BY <1>p, <1>1, <1>6, <2>1 DEF JobIsCurrent
  <1>7. ASSUME UNCHANGED <<request, generation, pending, state>>, w.at \in Working, NEW at, NEW claim,
               \/ worker' = [worker EXCEPT ![i].at = at]
               \/ worker' = [worker EXCEPT ![i].claim = claim, ![i].at = at],
               w.gen = generation[i] =>
                  /\ at = "next" => w.found[w.phase] = s.found[w.phase]
                  /\ at \in Unanswered \cup {"check"} => s.found[w.phase] = None
                  /\ at = "publish" => s.found[w.phase] \in {None, w.found[w.phase]}
                  /\ at \in {"check", "publish"} => w.req[w.phase] # None
        PROVE  JobIsCurrent(i)'
    <2>1. /\ worker'[i].at = at /\ worker'[i].req = w.req /\ worker'[i].gen = w.gen
          /\ worker'[i].found = w.found /\ worker'[i].phase = w.phase
      BY <1>0, <1>7 DEF Jobs
    <2>2. w.gen = generation[i] => Agrees(worker'[i])
      BY <1>1, <1>7, <2>1
    <2>. QED BY <1>6, <1>7, <2>1, <2>2
  <1>8. ASSUME UNCHANGED <<request, generation, pending, state>>, w.at \in Working, NEW at, NEW claim, NEW a,
               \/ worker' = [worker EXCEPT ![i].found[w.phase] = a, ![i].at = at]
               \/ worker' = [worker EXCEPT ![i].found[w.phase] = a, ![i].claim = claim, ![i].at = at],
               at \in {"next", "check", "publish"}, w.req[w.phase] # None,
               w.gen = generation[i] =>
                  /\ at = "next" => a = s.found[w.phase]
                  /\ at = "check" => s.found[w.phase] = None
                  /\ at = "publish" => s.found[w.phase] \in {None, a}
        PROVE  JobIsCurrent(i)'
    <2>1. PICK g : g = [w.found EXCEPT ![w.phase] = a]
      OBVIOUS
    <2>2. \A q \in Phases : g[q] = IF q = w.phase THEN a ELSE w.found[q]
      BY <1>0, <2>1 DEF Found
    <2>3. /\ worker'[i].at = at /\ worker'[i].req = w.req /\ worker'[i].gen = w.gen
          /\ worker'[i].found = g /\ worker'[i].phase = w.phase
      <3>1. CASE worker' = [worker EXCEPT ![i].found[w.phase] = a, ![i].at = at]
        BY <1>0, <2>1, <3>1 DEF Jobs
      <3>2. CASE worker' = [worker EXCEPT ![i].found[w.phase] = a, ![i].claim = claim, ![i].at = at]
        BY <1>0, <2>1, <3>2 DEF Jobs
      <3>. QED BY <1>8, <3>1, <3>2
    <2>4. /\ g[w.phase] = a /\ \A q \in Before(w.phase) : g[q] = w.found[q]
          /\ at \notin Unanswered
      BY <1>0, <1>2, <1>8, <2>2 DEF Unanswered
    <2>5. ASSUME w.gen = generation[i] PROVE Agrees(worker'[i])
      BY <1>1, <1>8, <2>3, <2>4, <2>5
    <2>. QED BY <1>6, <1>8, <2>3, <2>5
  <1>9. w.at \in Unanswered => w.at \in Working /\ w.req[w.phase] # None
                               /\ (w.gen = generation[i] => s.found[w.phase] = None)
    BY <1>1 DEF Unanswered, Working, StageInv, JobFits
  <1>. HIDE DEF Agrees
  <1>10. CASE Install(i) \/ Reset(i)
    BY <1>0, <1>4, <1>10 DEF Install, Reset, Clear
  <1>11. CASE StartWorker(i) \/ Stopped(i) \/ SettleFailed(i) \/ WorkerExit(i)
    <2>1. worker'[i].at \in {"wait", "none", "ended"}
      BY <1>0, <1>11 DEF StartWorker, Stopped, SettleFailed, WorkerExit, Returns, Goes, Worker, Jobs
    <2>. QED BY <1>3, <2>1 DEF Working
  <1>12. CASE (\E r \in Requests : Request(i, r)) \/ LookUp(i)
    BY <1>5, <1>12 DEF Request, LookUp, own
  <1>13. CASE Stop(i)
    BY <1>0, <1>5, <1>13 DEF Stop
  <1>14. CASE StartFails(i) \/ Sample(i)
    <2>1. UNCHANGED <<worker, request, generation, pending>>
      BY <1>14 DEF StartFails, Sample
    <2>2. state'[i].found = s.found /\ (state'[i].samples = s.samples \/ w.phase = "clip")
      BY <1>0, <1>14 DEF StartFails, Sample, SettleAll, States
    <2>. QED BY <1>5, <2>1, <2>2
  <1>15. CASE TakeJob(i)
    <2>1. CASE request[i] = None
      <3>1. worker'[i] = w /\ w.at = "wait"
        BY <1>15, <2>1 DEF TakeJob
      <3>. QED BY <1>3, <3>1 DEF Working
    <2>2. CASE request[i] # None
      <3>1. PICK sharing \in Sharing :
               worker' = [worker EXCEPT ![i] = [Worker("begin") EXCEPT
                            !.req = request[i], !.gen = generation[i], !.shared = sharing]]
        BY <1>15, <2>2 DEF TakeJob
      <3>2. /\ worker'[i].at = "begin" /\ worker'[i].req = request[i] /\ worker'[i].gen = generation[i]
            /\ worker'[i].phase = "rotation"
        BY <1>0, <3>1 DEF Worker
      <3>3. /\ request' = request /\ generation' = generation /\ state' = state /\ pending[i]
            /\ pending'[i] = FALSE
        BY <1>0, <1>15 DEF TakeJob
      <3>4. Open(i)'
        <4>1. Open(i)
          BY <3>3 DEF StageInv, JobIsCurrent
        <4>. QED BY <3>3, <4>1 DEF Open
      <3>5. Before("rotation") = {}
        BY DEF Before
      <3>. QED BY <3>2, <3>3, <3>4, <3>5 DEF JobIsCurrent, Unanswered
    <2>. QED BY <2>1, <2>2
  <1>16. CASE BeginPhase(i)
    <2>1. w.at = "begin" /\ w.at \in Working /\ UNCHANGED <<request, generation, pending, state>>
          /\ w.found[w.phase] = None
      BY <1>16 DEF BeginPhase, Working, own, StageInv, JobFits
    <2>2. CASE w.req[w.phase] = None
      <3>1. w.gen = generation[i] => s.found[w.phase] = None
        BY <1>0, <1>1, <2>1, <2>2, NoneAssumption DEF StageInv, StateFits, FoundFor
      <3>2. worker' = [worker EXCEPT ![i].at = "next"]
        BY <1>16, <2>2 DEF BeginPhase, Goes
      <3>. QED BY <1>7, <2>1, <3>1, <3>2 DEF Unanswered
    <2>3. CASE w.req[w.phase] # None /\ \E at \in {"look", "measure"} : Goes(i, at)
                  /\ ~(w.gen = generation[i] /\ w.phase \in s.settled
                       /\ (w.phase = "rotation" => s.found[w.phase] # None))
      <3>1. w.gen = generation[i] => s.found[w.phase] = None
        BY <1>0, <2>3 DEF StageInv, StateFits
      <3>. QED BY <1>7, <2>1, <2>3, <3>1 DEF Unanswered, Goes
    <2>4. CASE w.req[w.phase] # None /\ \E at \in {"publish", "next"} :
                  worker' = [worker EXCEPT ![i].found[w.phase] = s.found[w.phase], ![i].at = at]
      BY <1>8, <2>1, <2>4
    <2>. QED BY <1>16, <2>2, <2>3, <2>4 DEF BeginPhase
  <1>17. CASE TakeKnown(i)
    <2>1. w.at = "look" /\ UNCHANGED <<request, generation, pending, state>>
          /\ \E a : worker' = [worker EXCEPT ![i].found[w.phase] = a, ![i].at = "publish"]
      BY <1>17 DEF TakeKnown, own
    <2>. QED BY <1>8, <1>9, <2>1 DEF Unanswered
  <1>18. CASE Measured(i)
    <2>1. w.at = "measure" /\ UNCHANGED <<request, generation, pending, state>>
          /\ \E a : worker' = [worker EXCEPT ![i].found[w.phase] = a, ![i].claim = None, ![i].at = "check"]
      BY <1>18 DEF Measured, own
    <2>. QED BY <1>8, <1>9, <2>1 DEF Unanswered
  <1>19. CASE Claim(i) \/ WaitForOther(i) \/ NotMeasured(i) \/ Throws(i)
    <2>1. w.at \in {"look", "measure"} /\ UNCHANGED <<request, generation, pending, state>>
          /\ \E at \in {"measure", "poll", "check", "failed"}, k \in {<<w.phase, Key(i)>>, None} :
                \/ worker' = [worker EXCEPT ![i].at = at]
                \/ worker' = [worker EXCEPT ![i].claim = k, ![i].at = at]
      BY <1>19 DEF Claim, WaitForOther, NotMeasured, Throws, Goes, own
    <2>. QED BY <1>7, <1>9, <2>1 DEF Unanswered
  <1>20. ASSUME Returns(i) PROVE JobIsCurrent(i)'
    <2>1. worker'[i].at = "wait"
      BY <1>0, <1>20 DEF Returns, Worker
    <2>. QED BY <1>3, <2>1 DEF Working
  <1>21. CASE Poll(i)
    <2>1. w.at = "poll" /\ UNCHANGED <<request, generation, pending, state>>
      BY <1>21 DEF Poll, own
    <2>2. CASE Goes(i, "look")
      BY <1>7, <1>9, <2>1, <2>2 DEF Unanswered, Goes
    <2>. QED BY <1>20, <1>21, <2>2 DEF Poll
  <1>22. CASE Check(i)
    <2>1. w.at = "check" /\ w.at \in Working /\ UNCHANGED <<request, generation, pending, state>>
      BY <1>22 DEF Check, Working, own
    <2>2. CASE Goes(i, "publish")
      <3>1. w.gen = generation[i] => s.found[w.phase] = None /\ w.req[w.phase] # None
        BY <1>1, <2>1 DEF Agrees
      <3>. QED BY <1>7, <2>1, <2>2, <3>1 DEF Unanswered, Goes
    <2>. QED BY <1>20, <1>22, <2>2 DEF Check
  <1>23. CASE Publish(i)
    <2>1. w.at = "publish" /\ w.at \in Working /\ UNCHANGED <<request, generation, pending>> /\ Goes(i, "next")
      BY <1>23 DEF Publish, Working
    <2>2. /\ worker'[i].at = "next" /\ worker'[i].req = w.req /\ worker'[i].gen = w.gen
          /\ worker'[i].found = w.found /\ worker'[i].phase = w.phase
      BY <1>0, <2>1 DEF Goes, Jobs
    <2>3. CASE w.gen # generation[i]
      BY <1>p, <2>1, <2>2, <2>3 DEF JobIsCurrent
    <2>4. CASE w.gen = generation[i]
      <3>1. request[i] = w.req /\ w.req \in Requests /\ ~pending[i] /\ Agrees(w)
        BY <1>1, <2>1, <2>4
      <3>2. state' = [state EXCEPT ![i].settled = @ \cup {w.phase}, ![i].found[w.phase] = w.found[w.phase]]
        BY <1>23, <2>4, <3>1, NoneAssumption DEF Publish
      <3>3. PICK g : g = [s.found EXCEPT ![w.phase] = w.found[w.phase]]
        OBVIOUS
      <3>4. state'[i].found = g /\ state'[i].samples = s.samples
        BY <1>0, <3>2, <3>3 DEF States
      <3>5. \A q \in Phases : g[q] = IF q = w.phase THEN w.found[w.phase] ELSE s.found[q]
        BY <1>0, <3>3 DEF Found
      <3>6. \A q \in Phases : s.found[q] # None => g[q] # None
        BY <2>1, <3>1, <3>5 DEF Agrees
      <3>7. w.phase # "clip" => Open(i)'
        <4>1. w.phase # "clip" => Through(w.req, s.found) /\ s.samples = {}
          BY <3>1, NoneAssumption DEF Agrees, Open
        <4>2. w.phase # "clip" => Through(w.req, g)
          BY <3>5, <3>6, <4>1 DEF Through, Phases
        <4>. QED BY <2>1, <3>1, <3>4, <4>1, <4>2 DEF Open
      <3>8. \A p \in Before(w.phase) : w.found[p] = g[p]
        BY <1>2, <3>1, <3>5 DEF Agrees
      <3>9. w.found[w.phase] = g[w.phase]
        BY <1>0, <3>5
      <3>. QED BY <1>p, <2>1, <2>2, <2>4, <3>1, <3>4, <3>7, <3>8, <3>9 DEF JobIsCurrent, Unanswered
    <2>. QED BY <2>3, <2>4
  <1>24. CASE NextPhase(i)
    <2>1. w.at = "next" /\ w.at \in Working /\ UNCHANGED <<request, generation, pending, state>>
      BY <1>24 DEF NextPhase, Working, own
    <2>2. ASSUME NEW p \in {"mount", "clip"}, p = "mount" => w.phase = "rotation", p = "clip" => w.phase = "mount",
                 worker' = [worker EXCEPT ![i].at = "begin", ![i].phase = p]
          PROVE  JobIsCurrent(i)'
      <3>1. /\ worker'[i].at = "begin" /\ worker'[i].req = w.req /\ worker'[i].gen = w.gen
            /\ worker'[i].found = w.found /\ worker'[i].phase = p
        BY <1>0, <2>2 DEF Jobs
      <3>2. Before(p) = Before(w.phase) \cup {w.phase}
        BY <2>2 DEF Before
      <3>3. w.gen = generation[i] => Agrees(worker'[i])
        BY <1>1, <2>1, <2>2, <3>1, <3>2 DEF Agrees, Unanswered
      <3>. QED BY <1>6, <2>1, <3>1, <3>3
    <2>. QED BY <1>0, <1>20, <1>24, <2>2 DEF NextPhase, Phases
  <1>. QED BY <1>10, <1>11, <1>12, <1>13, <1>14, <1>15, <1>16, <1>17, <1>18, <1>19, <1>21, <1>22, <1>23, <1>24
       DEF StageStep, Caller, WorkerStep, MeasureEnds

-----------------------------------------------------------------------------
(* The inductive invariant is one. *)

\* Every step keeps the parts of every stage.
LEMMA SteadyStep ==
  ASSUME TypeOK, SteadyInv, [Next]_vars PROVE TypeOK' /\ SteadyInv'
  <1>1. TypeOK' /\ AnswersFit'
    BY SteadyTypeStep
  <1>2. ASSUME NEW j \in Stages PROVE StageInv(j)'
    <2>1. StageInv(j) /\ AnswersFit
      BY DEF SteadyInv
    <2>2. CASE UNCHANGED vars
      <3>1. Spared(j)
        BY <2>2 DEF vars, own, Spared
      <3>. QED BY <2>1, <3>1, SparedStays
    <2>3. ASSUME NEW i \in Stages, StageStep(i) PROVE StageInv(j)'
      <3>1. CASE i = j
        BY <2>1, <2>3, <3>1, CallFitsStep, StateFitsStep, JobFitsStep, JobIsCurrentStep DEF StageInv
      <3>2. CASE i # j
        BY <2>1, <2>3, <3>2, OthersSpared, SparedStays
      <3>. QED BY <3>1, <3>2
    <2>4. CASE Next
      <3>1. \E i \in Stages : StageStep(i)
        BY <2>4 DEF Next, StageStep
      <3>. QED BY <2>3, <3>1
    <2>. QED BY <2>2, <2>4
  <1>. QED BY <1>1, <1>2 DEF SteadyInv

\* Every variable keeps its type: a request is looked up with answers that are
\* answers, a job's claim is a key, and no more than the bounded number fails.
THEOREM SteadyTypeCorrect == Spec => []TypeOK
  <1>1. TypeOK /\ SteadyInv /\ [Next]_vars => (TypeOK /\ SteadyInv)'
    BY SteadyStep
  <1>. QED BY <1>1, SteadyInit, PTL DEF Spec

\* What a frame reads was measured for the request in force, and its correction
\* through the rotation and the mask the frame is rendered with; whatever was
\* asked before, and whoever measured it.
THEOREM FrameReadsItsRequest == Spec => []SnapshotIsOfRequest
  <1>1. TypeOK /\ SteadyInv /\ [Next]_vars => (TypeOK /\ SteadyInv)'
    BY SteadyStep
  <1>2. TypeOK /\ SteadyInv => SnapshotIsOfRequest
    <2>. SUFFICES ASSUME TypeOK, SteadyInv, NEW i \in Stages
                  PROVE  LET s == state[i] IN
                         /\ request[i] = None => s = NoState
                         /\ request[i] # None =>
                               /\ \A p \in Phases : s.found[p] # None =>
                                     /\ request[i][p] # None
                                     /\ s.found[p].of = KeyOf(p, request[i], s.found)
                               /\ \A k \in s.samples : k = KeyOf("clip", request[i], s.found)
      BY DEF SnapshotIsOfRequest
    <2>1. StateFits(i)
      BY DEF SteadyInv, StageInv
    <2>2. ASSUME request[i] # None, NEW p \in Phases, state[i].found[p] # None
          PROVE  /\ request[i][p] # None
                 /\ state[i].found[p].of = KeyOf(p, request[i], state[i].found)
      <3>1. request[i][p] # None
            /\ state[i].found[p] \in Findings(p, KeyOf(p, request[i], state[i].found))
        BY <2>1, <2>2 DEF StateFits, FoundFor
      <3>. QED BY <3>1, FindingIs
    <2>. QED BY <2>1, <2>2 DEF StateFits
  <1>. QED BY <1>1, <1>2, SteadyInit, PTL DEF Spec

-----------------------------------------------------------------------------
(* The instances measure each key once. *)

\* The keys that are known, and which stage claims which key.
Answered == DOMAIN answers \cup {<<"clip", clips[n]>> : n \in DOMAIN clips}
Measuring == UNION {{<<i, k>> : i \in IF Holders(k) = {} THEN {None} ELSE Holders(k)} : k \in inFlight}
Claimants == {i \in Stages : worker[i].claim # None}
Claims == {<<i, worker[i].claim>> : i \in Claimants}

\* A key in flight and the worker that claims it are found in each other.
LEMMA MeasuringIs ==
  /\ TypeOK /\ ClaimsHeld => Measuring = Claims
  /\ TypeOK' /\ ClaimsHeld' => Measuring' = Claims'
  <1>1. ASSUME TypeOK, ClaimsHeld PROVE Measuring = Claims
    <2>1. \A k \in inFlight : Holders(k) # {} /\ k # None
      BY <1>1, NoneAssumption DEF TypeOK, ClaimsHeld, Holders
    <2>2. Measuring = UNION {{<<i, k>> : i \in Holders(k)} : k \in inFlight}
      BY <2>1 DEF Measuring
    <2>3. ASSUME NEW x \in Claims PROVE x \in Measuring
      <3>1. PICK i \in Stages : worker[i].claim # None /\ x = <<i, worker[i].claim>>
        BY <2>3 DEF Claims, Claimants
      <3>2. worker[i].claim \in inFlight /\ i \in Holders(worker[i].claim)
        BY <1>1, <3>1 DEF ClaimsHeld, Holders
      <3>. QED BY <2>2, <3>1, <3>2
    <2>4. ASSUME NEW x \in Measuring PROVE x \in Claims
      <3>1. PICK k \in inFlight : x \in {<<i, k>> : i \in Holders(k)}
        BY <2>2, <2>4
      <3>. QED BY <2>1, <3>1 DEF Claims, Claimants, Holders
    <2>. QED BY <2>3, <2>4
  <1>2. ASSUME TypeOK', ClaimsHeld' PROVE Measuring' = Claims'
    <2>1. \A k \in inFlight' : Holders(k)' # {} /\ k # None
      BY <1>2, NoneAssumption DEF TypeOK, ClaimsHeld, Holders
    <2>2. Measuring' = UNION {{<<i, k>> : i \in Holders(k)'} : k \in inFlight'}
      BY <2>1 DEF Measuring
    <2>3. ASSUME NEW x \in Claims' PROVE x \in Measuring'
      <3>1. PICK i \in Stages, k \in inFlight' : k = worker'[i].claim /\ x = <<i, k>>
        BY <1>2, <2>3 DEF Claims, Claimants, ClaimsHeld
      <3>2. i \in Holders(k)'
        BY <3>1 DEF Holders
      <3>. QED BY <2>2, <3>1, <3>2
    <2>4. ASSUME NEW x \in Measuring' PROVE x \in Claims'
      <3>1. PICK k \in inFlight' : x \in {<<i, k>> : i \in Holders(k)'}
        BY <2>2, <2>4
      <3>. QED BY <2>1, <3>1 DEF Claims, Claimants, Holders
    <2>. QED BY <2>3, <2>4
  <1>. QED BY <1>1, <1>2

\* The clip corrections that are known are those in the cache, in any order.
LEMMA AnsweredIs ==
  /\ Answered = DOMAIN answers \cup {<<"clip", k>> : k \in ToSet(clips)}
  /\ Answered' = DOMAIN answers' \cup {<<"clip", k>> : k \in ToSet(clips')}
  BY DEF Answered, ToSet

\* A step claims a key, ends a measurement, or leaves claims and answers alone.
LEMMA ClaimKinds ==
  ASSUME TypeOK, AnswersFit, NEW i \in Stages, StageInv(i), StageStep(i)
  PROVE  \/ Claim(i)
         \/ MeasureEnds(i)
         \/ UNCHANGED inFlight /\ Answered' = Answered /\ worker'[i].claim = worker[i].claim
  <1>. DEFINE w == worker[i]
              Goal == UNCHANGED inFlight /\ Answered' = Answered /\ worker'[i].claim = w.claim
  <1>0. worker \in [Stages -> Jobs] /\ w \in Jobs /\ w.phase \in Phases
    BY DEF TypeOK, Jobs
  <1>1. ASSUME UNCHANGED shared, worker'[i].claim = w.claim PROVE Goal
    BY <1>1 DEF shared, Answered
  <1>2. ASSUME UNCHANGED shared, UNCHANGED worker PROVE Goal
    BY <1>1, <1>2
  <1>3. ASSUME UNCHANGED shared, w.at # "measure", NEW at, worker' = [worker EXCEPT ![i] = Worker(at)] PROVE Goal
    <2>1. w.claim = None
      BY <1>3 DEF StageInv, JobFits
    <2>2. worker'[i].claim = None
      BY <1>0, <1>3 DEF Worker
    <2>. QED BY <1>1, <1>3, <2>1, <2>2
  <1>4. ASSUME UNCHANGED shared, NEW at, Goes(i, at) PROVE Goal
    <2>1. worker'[i].claim = w.claim
      BY <1>0, <1>4 DEF Goes, Jobs
    <2>. QED BY <1>1, <1>4, <2>1
  <1>5. ASSUME UNCHANGED <<answers, inFlight>>, NEW k \in ToSet(clips), clips' \in {clips, Touch(k)},
               worker'[i].claim = w.claim
        PROVE  Goal
    <2>1. k \in ClipKeys /\ clips \in Seq(ClipKeys)
      BY <1>5 DEF TypeOK, ToSet
    <2>2. ToSet(Touch(k)) = ToSet(clips) \cup {k}
      BY <2>1, Touched
    <2>3. ToSet(clips') = ToSet(clips)
      BY <1>5, <2>2
    <2>. QED BY <1>5, <2>3, AnsweredIs
  <1>6. CASE LookUp(i)
    <2>1. UNCHANGED <<answers, inFlight, worker>> /\ caller[i].at \in Phases
      BY <1>6 DEF LookUp
    <2>2. CASE clips' = clips
      BY <1>2, <2>1, <2>2 DEF shared
    <2>3. CASE clips' # clips
      <3>. DEFINE k == KeyOf("clip", caller[i].req, caller[i].found)
      <3>1. caller[i].at = "clip" /\ Known("clip", k) # None /\ clips' = Touch(k)
        BY <1>6, <2>3 DEF LookUp
      <3>2. k \in ToSet(clips)
        <4>1. Contains(clips, k)
          BY <3>1 DEF Known
        <4>. QED BY <4>1 DEF Contains, ToSet, TypeOK
      <3>. QED BY <1>5, <2>1, <3>1, <3>2
    <2>. QED BY <2>2, <2>3
  <1>7. CASE TakeKnown(i)
    <2>1. UNCHANGED <<answers, inFlight>> /\ Known(w.phase, Key(i)) # None
          /\ clips' = IF w.phase = "clip" THEN Touch(Key(i)) ELSE clips
      BY <1>7 DEF TakeKnown
    <2>2. worker'[i].claim = w.claim
      <3>1. \E a : worker' = [worker EXCEPT ![i].found[w.phase] = a, ![i].at = "publish"]
        BY <1>7 DEF TakeKnown
      <3>. QED BY <1>0, <3>1 DEF Jobs
    <2>3. CASE w.phase # "clip"
      BY <1>1, <2>1, <2>2, <2>3 DEF shared
    <2>4. CASE w.phase = "clip"
      <3>1. Contains(clips, Key(i))
        BY <2>1, <2>4 DEF Known
      <3>2. Key(i) \in ToSet(clips)
        BY <3>1 DEF Contains, ToSet, TypeOK
      <3>. QED BY <1>5, <2>1, <2>2, <2>4, <3>2
    <2>. QED BY <2>3, <2>4
  <1>8. CASE (\E r \in Requests : Request(i, r)) \/ Reset(i) \/ Stop(i) \/ Install(i) \/ StartFails(i) \/ Sample(i)
    BY <1>2, <1>8 DEF Request, Reset, Stop, Install, StartFails, Sample
  <1>9. CASE StartWorker(i) \/ Stopped(i) \/ SettleFailed(i)
    <2>1. w.at # "measure"
      BY <1>9 DEF StartWorker, Stopped, SettleFailed, StageInv, CallFits
    <2>. QED BY <1>3, <1>9, <2>1 DEF StartWorker, Stopped, SettleFailed, Returns
  <1>10. CASE WorkerExit(i) \/ WaitForOther(i) \/ Publish(i)
    BY <1>4, <1>10 DEF WorkerExit, WaitForOther, Publish
  <1>11. CASE Poll(i) \/ Check(i)
    BY <1>3, <1>4, <1>11 DEF Poll, Check, Returns
  <1>12. CASE TakeJob(i)
    <2>1. w.at = "wait" /\ UNCHANGED shared
      BY <1>12 DEF TakeJob
    <2>2. CASE request[i] = None
      BY <1>2, <1>12, <2>1, <2>2 DEF TakeJob
    <2>3. CASE request[i] # None
      <3>1. PICK sharing \in Sharing :
               worker' = [worker EXCEPT ![i] = [Worker("begin") EXCEPT
                            !.req = request[i], !.gen = generation[i], !.shared = sharing]]
        BY <1>12, <2>3 DEF TakeJob
      <3>2. worker'[i].claim = None
        BY <1>0, <3>1 DEF Worker
      <3>3. w.claim = None
        BY <2>1 DEF StageInv, JobFits
      <3>. QED BY <1>1, <2>1, <3>2, <3>3
    <2>. QED BY <2>2, <2>3
  <1>13. CASE BeginPhase(i)
    <2>1. UNCHANGED shared
      BY <1>13 DEF BeginPhase
    <2>2. \/ \E at : Goes(i, at)
          \/ \E at : worker' = [worker EXCEPT ![i].found[w.phase] = state[i].found[w.phase], ![i].at = at]
      BY <1>13 DEF BeginPhase
    <2>3. ASSUME NEW at, worker' = [worker EXCEPT ![i].found[w.phase] = state[i].found[w.phase], ![i].at = at]
          PROVE  worker'[i].claim = w.claim
      BY <1>0, <2>3 DEF Jobs
    <2>. QED BY <1>1, <1>4, <2>1, <2>2, <2>3
  <1>14. CASE NextPhase(i)
    <2>1. w.at = "next" /\ UNCHANGED shared
      BY <1>14 DEF NextPhase
    <2>2. CASE Returns(i)
      BY <1>3, <2>1, <2>2 DEF Returns
    <2>3. CASE ~Returns(i)
      <3>1. worker'[i].claim = w.claim
        BY <1>0, <1>14, <2>3 DEF NextPhase, Jobs
      <3>. QED BY <1>1, <2>1, <3>1
    <2>. QED BY <2>2, <2>3
  <1>. QED BY <1>6, <1>7, <1>8, <1>9, <1>10, <1>11, <1>12, <1>13, <1>14 DEF StageStep, Caller, WorkerStep

\* The end of a measurement ends its claim, and with an answer makes it known.
LEMMA ClaimEnds ==
  ASSUME TypeOK, AnswersFit, NEW i \in Stages, StageInv(i), MeasureEnds(i)
  PROVE  LET k == worker[i].claim IN
         /\ worker'[i].claim = None
         /\ k = None => UNCHANGED inFlight /\ Answered' = Answered
         /\ k # None => /\ inFlight' = inFlight \ {k}
                        /\ Answered' = Answered
                           \/ /\ k \in Answered' /\ Answered' \subseteq Answered \cup {k}
                              /\ Answered \ Answered' \subseteq {x \in Keys : x[1] = "clip"}
  <1>. DEFINE w == worker[i]
              k == w.claim
  <1>1. PICK a : /\ a # None => a \in Findings(w.phase, Key(i))
                 /\ Remember(i, a) /\ w.at = "measure" /\ worker'[i].claim = None
    <2>1. worker \in [Stages -> Jobs]
      BY DEF TypeOK, Jobs
    <2>2. CASE Measured(i)
      <3>1. PICK a \in Findings(w.phase, Key(i)) :
               /\ Remember(i, a)
               /\ worker' = [worker EXCEPT ![i].found[w.phase] = a, ![i].claim = None, ![i].at = "check"]
        BY <2>2 DEF Measured
      <3>2. worker'[i].claim = None /\ w.at = "measure"
        BY <2>1, <2>2, <3>1 DEF Measured, Jobs
      <3>. QED BY <3>1, <3>2
    <2>3. CASE NotMeasured(i) \/ Throws(i)
      <3>1. worker'[i].claim = None /\ w.at = "measure" /\ Remember(i, None)
        BY <2>1, <2>3 DEF NotMeasured, Throws, Jobs
      <3>. QED BY <3>1
    <2>. QED BY <2>2, <2>3 DEF MeasureEnds
  <1>2. CASE k = None
    BY <1>1, <1>2 DEF Remember, shared, Answered
  <1>3. CASE k # None
    <2>1. k = <<w.phase, Key(i)>> /\ w.phase \in Phases
      BY <1>3 DEF StageInv, JobFits, TypeOK
    <2>2. inFlight' = inFlight \ {k}
      BY <1>1, <1>3 DEF Remember
    <2>3. CASE a = None
      BY <1>1, <1>3, <2>2, <2>3 DEF Remember, Answered
    <2>4. CASE a # None /\ w.phase # "clip"
      <3>1. answers' = Stored(k, a) /\ clips' = clips
        BY <1>1, <1>3, <2>4 DEF Remember
      <3>2. DOMAIN answers' = DOMAIN answers \cup {k}
        BY <3>1 DEF Stored
      <3>3. Answered' = Answered \cup {k}
        BY <3>1, <3>2, AnsweredIs
      <3>. QED BY <1>1, <1>3, <2>2, <3>3
    <2>5. CASE a # None /\ w.phase = "clip"
      <3>. DEFINE x == Key(i)
      <3>1. answers' = answers /\ clips' = Trim(Touch(x))
        BY <1>1, <1>3, <2>1, <2>5 DEF Remember
      <3>2. clips \in Seq(ClipKeys) /\ x \in ClipKeys
        <4>1. k \in Keys
          BY <1>3 DEF TypeOK
        <4>2. k[1] = "clip" /\ k[2] = x
          BY <2>1, <2>5
        <4>. QED BY <4>1, <4>2 DEF Keys, TypeOK
      <3>. HIDE DEF x
      <3>3. PICK s : s = Touch(x)
        OBVIOUS
      <3>4. s \in Seq(ClipKeys) /\ s # <<>> /\ s[Len(s)] = x /\ ToSet(s) = ToSet(clips) \cup {x}
        BY <3>2, <3>3, Touched
      <3>5. ToSet(clips') \subseteq ToSet(clips) \cup {x} /\ x \in ToSet(clips')
        BY <3>1, <3>3, <3>4, Trimmed
      <3>6. k \in Answered' /\ Answered' \subseteq Answered \cup {k}
        BY <2>1, <2>5, <3>1, <3>5, AnsweredIs DEF x
      <3>7. Answered \ Answered' \subseteq {<<"clip", y>> : y \in ToSet(clips)}
        BY <3>1, AnsweredIs
      <3>8. \A y \in ToSet(clips) : <<"clip", y>> \in Keys
        BY <3>2 DEF ToSet, Keys
      <3>9. Answered \ Answered' \subseteq {y \in Keys : y[1] = "clip"}
        BY <3>7, <3>8
      <3>. QED BY <1>1, <1>3, <2>2, <3>6, <3>9
    <2>. QED BY <2>3, <2>4, <2>5
  <1>. QED BY <1>1, <1>2, <1>3

\* A key is claimed when its answer is not known.
LEMMA ClaimIsNew ==
  ASSUME TypeOK, AnswersFit, NEW i \in Stages, StageInv(i), Claim(i)
  PROVE  \E k \in Keys :
            /\ k \notin inFlight /\ inFlight' = inFlight \cup {k} /\ k \notin Answered /\ Answered' = Answered
            /\ worker[i].claim = None /\ worker'[i].claim = k
  <1>. DEFINE w == worker[i]
              k == <<w.phase, Key(i)>>
  <1>1. /\ w.at = "look" /\ Known(w.phase, Key(i)) = None /\ k \notin inFlight
        /\ inFlight' = inFlight \cup {k} /\ UNCHANGED <<answers, clips>>
        /\ worker' = [worker EXCEPT ![i].claim = k, ![i].at = "measure"]
    BY DEF Claim
  <1>2. /\ worker \in [Stages -> Jobs] /\ w.phase \in Phases /\ w.req \in Requests /\ w.found \in Found
        /\ FoundFor(w.req, w.found) /\ w.req[w.phase] # None /\ w.claim = None
    BY <1>1 DEF TypeOK, Jobs, StageInv, JobFits, Working, Unanswered
  <1>3. k \in Keys /\ \A a \in Findings(w.phase, Key(i)) : a # None
    BY <1>2, KeyIsKey DEF Key
  <1>4. worker'[i].claim = k
    BY <1>1, <1>2 DEF Jobs
  <1>5. k \notin DOMAIN answers
    BY <1>1, <1>2, <1>3 DEF Known, AnswersFit
  <1>6. w.phase = "clip" => Key(i) \notin ToSet(clips)
    <2>1. w.phase = "clip" => [of |-> Key(i), accepted |-> TRUE] # None
      BY <1>3 DEF Findings
    <2>2. w.phase = "clip" => ~Contains(clips, Key(i))
      BY <1>1, <2>1 DEF Known
    <2>. QED BY <2>2 DEF Contains, ToSet, TypeOK
  <1>7. k \notin Answered
    BY <1>5, <1>6, AnsweredIs
  <1>8. Answered' = Answered
    BY <1>1 DEF Answered
  <1>. QED BY <1>1, <1>2, <1>3, <1>4, <1>7, <1>8

\* What a step of one stage does to the claims of all.
LEMMA ClaimsStep ==
  ASSUME TypeOK, AnswersFit, ClaimsHeld, NEW i \in Stages, StageInv(i), StageStep(i)
  PROVE  /\ ClaimsHeld'
         /\ \/ Answered' = Answered /\ Claims' = Claims
            \/ \E k \in Keys : /\ k \notin Answered /\ \A c \in Claims : c[2] # k
                               /\ Claims' = Claims \cup {<<i, k>>} /\ Answered' = Answered
            \/ \E k \in Keys : /\ <<i, k>> \in Claims /\ Claims' = Claims \ {<<i, k>>}
                               /\ Answered' = Answered
                                  \/ /\ k \in Answered' /\ Answered' \subseteq Answered \cup {k}
                                     /\ Answered \ Answered' \subseteq {x \in Keys : x[1] = "clip"}
  <1>. DEFINE k == worker[i].claim
  <1>1. \A j \in Stages : j # i => worker'[j].claim = worker[j].claim
    BY OthersSpared DEF Spared
  <1>2. CASE UNCHANGED inFlight /\ Answered' = Answered /\ worker'[i].claim = k
    <2>1. \A j \in Stages : worker'[j].claim = worker[j].claim
      BY <1>1, <1>2
    <2>2. ClaimsHeld'
      BY <1>2, <2>1 DEF ClaimsHeld
    <2>3. Claims' = Claims
      BY <2>1 DEF Claims, Claimants
    <2>. QED BY <1>2, <2>2, <2>3
  <1>3. CASE Claim(i)
    <2>1. PICK n \in Keys :
             /\ n \notin inFlight /\ inFlight' = inFlight \cup {n} /\ n \notin Answered /\ Answered' = Answered
             /\ k = None /\ worker'[i].claim = n
      BY <1>3, ClaimIsNew
    <2>2. n # None
      BY <2>1, NoneAssumption
    <2>3. \A j \in Stages : worker[j].claim # n
      BY <2>1, <2>2 DEF ClaimsHeld
    <2>4. ClaimsHeld'
      <3>1. \A j \in Stages : worker'[j].claim # None => worker'[j].claim \in inFlight'
        BY <1>1, <2>1 DEF ClaimsHeld
      <3>2. \A m \in inFlight' : \E j \in Stages : worker'[j].claim = m
        <4>1. ASSUME NEW m \in inFlight PROVE \E j \in Stages : worker'[j].claim = m
          <5>1. PICK j \in Stages : worker[j].claim = m
            BY DEF ClaimsHeld
          <5>2. j # i
            BY <2>1, <5>1, NoneAssumption DEF TypeOK
          <5>. QED BY <1>1, <5>1, <5>2
        <4>. QED BY <2>1, <4>1
      <3>3. \A j, l \in Stages :
               worker'[j].claim # None /\ worker'[j].claim = worker'[l].claim => j = l
        BY <1>1, <2>1, <2>3 DEF ClaimsHeld
      <3>. QED BY <3>1, <3>2, <3>3 DEF ClaimsHeld
    <2>5. Claims' = Claims \cup {<<i, n>>}
      <3>1. \A x \in Claims' : x \in Claims \cup {<<i, n>>}
        BY <1>1, <2>1, <2>2 DEF Claims, Claimants
      <3>2. \A x \in Claims : x \in Claims'
        BY <1>1, <2>1 DEF Claims, Claimants
      <3>3. <<i, n>> \in Claims'
        BY <2>1, <2>2 DEF Claims, Claimants
      <3>. QED BY <3>1, <3>2, <3>3
    <2>6. \A c \in Claims : c[2] # n
      BY <2>3 DEF Claims, Claimants
    <2>. QED BY <2>1, <2>4, <2>5, <2>6
  <1>4. CASE MeasureEnds(i) /\ k = None
    BY <1>2, <1>4, ClaimEnds
  <1>5. CASE MeasureEnds(i) /\ k # None
    <2>1. /\ worker'[i].claim = None /\ inFlight' = inFlight \ {k}
          /\ Answered' = Answered
             \/ /\ k \in Answered' /\ Answered' \subseteq Answered \cup {k}
                /\ Answered \ Answered' \subseteq {x \in Keys : x[1] = "clip"}
      BY <1>5, ClaimEnds
    <2>2. ClaimsHeld'
      BY <1>1, <1>5, <2>1 DEF ClaimsHeld
    <2>3. k \in Keys /\ <<i, k>> \in Claims
      BY <1>5 DEF TypeOK, Claims, Claimants
    <2>4. Claims' = Claims \ {<<i, k>>}
      <3>1. \A x \in Claims' : x \in Claims \ {<<i, k>>}
        BY <1>1, <2>1 DEF Claims, Claimants
      <3>2. \A x \in Claims \ {<<i, k>>} : x \in Claims'
        BY <1>1 DEF Claims, Claimants
      <3>. QED BY <3>1, <3>2
    <2>. QED BY <2>1, <2>2, <2>3, <2>4
  <1>. QED BY <1>2, <1>3, <1>4, <1>5, ClaimKinds

\* The instances implement the service they promise each other: each answer is
\* measured by one of them at a time and never while it is known, and a
\* measurement that fails, is cancelled or throws leaves its key to the others.
THEOREM StagesMeasureOnce == Spec => MeasuresOnce
  <1>. DEFINE Inv == TypeOK /\ SteadyInv /\ ClaimsHeld
  <1>1. Init => Inv /\ Shared!Init
    <2>. SUFFICES ASSUME Init PROVE Inv /\ Shared!Init
      OBVIOUS
    <2>1. TypeOK /\ SteadyInv
      BY SteadyInit
    <2>2. ClaimsHeld
      BY DEF Init, ClaimsHeld, Worker
    <2>3. Answered = {} /\ Measuring = {}
      BY DEF Init, Answered, Measuring
    <2>4. Shared!Init
      BY <2>3 DEF Shared!Init, Answered, Measuring
    <2>. QED BY <2>1, <2>2, <2>4
  <1>2. Inv /\ [Next]_vars => Inv' /\ [Shared!Next]_Shared!vars
    <2>. SUFFICES ASSUME Inv, [Next]_vars PROVE Inv' /\ [Shared!Next]_Shared!vars
      OBVIOUS
    <2>1. TypeOK' /\ SteadyInv'
      BY SteadyStep
    <2>2. CASE UNCHANGED vars
      <3>1. ClaimsHeld'
        BY <2>2 DEF vars, shared, ClaimsHeld
      <3>2. UNCHANGED Shared!vars
        BY <2>2 DEF vars, shared, Shared!vars, Holders
      <3>. QED BY <2>1, <3>1, <3>2
    <2>3. ASSUME NEW i \in Stages, StageStep(i) PROVE ClaimsHeld' /\ [Shared!Next]_Shared!vars
      <3>1. StageInv(i) /\ AnswersFit
        BY DEF SteadyInv
      <3>2. ClaimsHeld'
        BY <2>3, <3>1, ClaimsStep
      <3>3. Measuring = Claims /\ Measuring' = Claims'
        BY <2>1, <3>2, MeasuringIs
      <3>4. CASE Answered' = Answered /\ Claims' = Claims
        <4>1. Answered' = Answered /\ Measuring' = Measuring
          BY <3>3, <3>4
        <4>. QED BY <3>2, <4>1 DEF Shared!vars, Answered, Measuring
      <3>5. ASSUME NEW k \in Keys, k \notin Answered, \A c \in Claims : c[2] # k,
                   Claims' = Claims \cup {<<i, k>>}, Answered' = Answered
            PROVE  Shared!Next
        <4>1. /\ k \notin Answered /\ k \notin {hold[2] : hold \in Measuring}
              /\ Measuring' = Measuring \cup {<<i, k>>} /\ Answered' = Answered
          BY <3>3, <3>5
        <4>2. Shared!Claim(i, k)
          BY <4>1 DEF Shared!Claim, Shared!Held, Answered, Measuring
        <4>. QED BY <4>2 DEF Shared!Next
      <3>6. ASSUME NEW k \in Keys, <<i, k>> \in Claims, Claims' = Claims \ {<<i, k>>},
                   Answered' = Answered
                   \/ /\ k \in Answered' /\ Answered' \subseteq Answered \cup {k}
                      /\ Answered \ Answered' \subseteq {x \in Keys : x[1] = "clip"}
            PROVE  Shared!Next
        <4>1. <<i, k>> \in Measuring /\ Measuring' = Measuring \ {<<i, k>>}
          BY <3>3, <3>6
        <4>2. CASE Answered' = Answered
          <5>1. Shared!Abandon(i, k)
            BY <4>1, <4>2 DEF Shared!Abandon, Answered, Measuring
          <5>. QED BY <5>1 DEF Shared!Next
        <4>3. CASE Answered' # Answered
          <5>1. Shared!Answer(i, k)
            BY <3>6, <4>1, <4>3 DEF Shared!Answer, Answered, Measuring
          <5>. QED BY <5>1 DEF Shared!Next
        <4>. QED BY <4>2, <4>3
      <3>. QED BY <2>3, <3>1, <3>2, <3>4, <3>5, <3>6, ClaimsStep
    <2>4. CASE Next
      <3>1. \E i \in Stages : StageStep(i)
        BY <2>4 DEF Next, StageStep
      <3>. QED BY <2>1, <2>3, <3>1
    <2>. QED BY <2>2, <2>4
  <1>. HIDE DEF Inv
  <1>. QED BY <1>1, <1>2, PTL DEF Spec, MeasuresOnce, Shared!Spec
=============================================================================
