-------------------------- MODULE ParallaxWorkerProofs --------------------------
(***************************************************************************)
(* Theorems about ParallaxWorker, for any frames, any size of the buckets  *)
(* and of the caches, and any number of upsets; and about UserDefaults,    *)
(* for any modules, processes and settings, and any number of saves and    *)
(* mishaps.                                                                *)
(***************************************************************************)
EXTENDS ParallaxWorker, UserDefaults, FiniteSetTheorems, NaturalsInduction, WellFoundedInduction, TLAPS

-----------------------------------------------------------------------------
(* The inductive invariant, in parts. *)

\* Records with these fields; what a field was solved from may be any depth of
\* stand-ins, so the values of the fields have no set of their own.
IsMesh(e) ==
    /\ e = [measured |-> e.measured, alone |-> e.alone, final |-> e.final, field |-> e.field]
    /\ e.measured \in BOOLEAN /\ e.final \in BOOLEAN
IsFrame(f) ==
    /\ f = [index |-> f.index, draft |-> f.draft, exact |-> f.exact, fresh |-> f.fresh,
            robbed |-> f.robbed, shows |-> f.shows]
    /\ f.exact \in BOOLEAN /\ f.fresh \in BOOLEAN /\ f.robbed \in BOOLEAN /\ f.draft \in BOOLEAN
IsCorrection(c) ==
    /\ c = [known |-> c.known, standIn |-> c.standIn, grid |-> c.grid]
    /\ c.known \in BOOLEAN /\ c.standIn \in BOOLEAN
IsRender(r) ==
    /\ r = [at |-> r.at, index |-> r.index, kind |-> r.kind, fresh |-> r.fresh, robbed |-> r.robbed,
            side |-> r.side, partner |-> r.partner, own |-> r.own, todo |-> r.todo, job |-> r.job,
            result |-> r.result]
    /\ r.at \in {"idle", "sync", "look", "prior", "hand over", "stand in", "queue", "start", "fill", "store",
                 "again", "finish", "join"}
    /\ r.at \notin {"idle", "join"} => r.index \in Frames
    /\ r.kind \in Kinds /\ r.side \in {"partner", "own"} /\ r.fresh \in BOOLEAN /\ r.robbed \in BOOLEAN
    /\ IsCorrection(r.partner) /\ IsCorrection(r.own)
IsWorker(w) ==
    /\ w = [at |-> w.at, job |-> w.job, result |-> w.result]
    /\ w.at \in {"none", "wait", "solve", "store", "ended"}

TypeOK ==
    /\ DOMAIN meshes \subseteq Nat /\ \A b \in DOMAIN meshes : IsMesh(meshes[b]) /\ meshes[b].measured
    /\ DOMAIN standIns \subseteq Nat
    /\ generation \in Nat /\ failures \in Nat
    /\ stop \in BOOLEAN /\ stop = (render.at = "join")
    /\ IsFrame(lastFrame) /\ IsRender(render) /\ IsWorker(worker)

\* The fields of bucket b in the sequence of frames, under the settings of
\* generation g: alone, and final.
AloneIn(b, g) == [bucket |-> b, on |-> Anchor(b), prior |-> None, gen |-> g]
FinalIn(b, g) == [AloneIn(b, g) EXCEPT !.prior = IF b = 0 THEN None ELSE AloneIn(b - 1, g)]

\* What the cache holds of a bucket, and what a bucket renders with: Mesh and
\* Correction, of any cache ms and stand-ins ss.
MeshIn(ms, b) == IF b \in DOMAIN ms THEN ms[b] ELSE NoMesh
Looked(ms, ss, b, kind) ==
    IF MeshIn(ms, b).final THEN [known |-> TRUE, standIn |-> FALSE, grid |-> MeshIn(ms, b).field]
    ELSE IF kind = "exact" THEN Unknown
    ELSE IF MeshIn(ms, b).measured THEN [known |-> TRUE, standIn |-> TRUE, grid |-> MeshIn(ms, b).alone]
    ELSE IF b \in DOMAIN ss THEN [known |-> TRUE, standIn |-> TRUE, grid |-> ss[b]]
    ELSE Unknown

\* In a frame, past the syncing of the clip's fields; its own bucket; and the
\* bucket looked at.
InFrame(r) == r.at \notin {"idle", "sync", "join"}
OwnDone(r) == r.at \in {"hand over", "stand in", "queue", "start", "finish"}
Own(r) == BucketOf(r.index)
BucketIn(r) == IF r.side = "own" THEN Own(r) ELSE Own(r) - 1

\* What is to be solved of a bucket's anchor is the bucket's own, with the
\* prior it has if it is to be final.  g: the generation, f: the failures so far.
JobIsRight(j, g, f) ==
    /\ j.bucket \in Nat /\ j.gen \in Nat /\ j.gen <= g
    /\ (f = 0 /\ ~j.standIn) =>
          /\ j.on = Anchor(j.bucket)
          /\ j.finalizes => j.prior = IF j.bucket = 0 THEN None ELSE AloneIn(j.bucket - 1, j.gen)

JobsRight(r, w, p, g, f) ==
    /\ p # None => JobIsRight(p, g, f)
    /\ w.at \in {"solve", "store"} => JobIsRight(w.job, g, f)
    /\ r.at \in {"queue", "store"} => JobIsRight(r.job, g, f)
    /\ w.at = "store" /\ f = 0 => w.result = Solved(w.job)
    /\ r.at = "store" /\ f = 0 => r.result = Solved(r.job)

\* The cache holds what the sequence would give.
MeshesRight(ms, g, f) ==
    f = 0 => \A b \in DOMAIN ms : /\ ms[b].alone = AloneIn(b, g)
                                  /\ ms[b].final => ms[b].field = FinalIn(b, g)

\* The buckets are looked at in turn.
SidesInTurn(r) ==
    /\ r.at = "sync" => r.partner = Unknown
    /\ InFrame(r) =>
          /\ Own(r) = 0 => r.side = "own" /\ r.partner = Unknown
          /\ OwnDone(r) => r.side = "own"
          /\ r.at \in {"prior", "fill", "store", "again"} => r.kind = "exact"
          /\ r.at \in {"hand over", "stand in", "queue", "start"} => r.kind = "interactive"

\* What the frame takes for final is what the sequence would give.
TakenRight(r, g, f) ==
    f = 0 /\ InFrame(r) =>
        /\ r.side = "own" /\ r.partner.known /\ ~r.partner.standIn => r.partner.grid = FinalIn(Own(r) - 1, g)
        /\ OwnDone(r) /\ r.own.known /\ ~r.own.standIn => r.own.grid = FinalIn(Own(r), g)

\* An exact frame, from the look at a bucket to the final field of it.
ExactGoesOn(r, ms, g) ==
    (InFrame(r) /\ r.kind = "exact") =>
        /\ r.side = "own" => ~r.partner.standIn
        /\ r.at = "finish" => ~r.own.standIn
        /\ r.at \in {"fill", "store"} =>
              \/ r.todo = <<BucketIn(r)>>
              \/ BucketIn(r) > 0 /\ r.todo = <<BucketIn(r) - 1, BucketIn(r)>>
        /\ r.at = "store" => r.job.bucket = Head(r.todo) /\ ~r.job.standIn /\ r.job.gen = g
        /\ ~r.robbed =>
              /\ (r.side = "own" /\ Own(r) > 0) => r.partner.known
              /\ r.at = "finish" => r.own.known
              /\ (r.at = "fill" /\ r.todo = <<BucketIn(r)>> /\ BucketIn(r) > 0) => BucketIn(r) - 1 \in DOMAIN ms
              /\ (r.at = "store" /\ r.todo = <<BucketIn(r)>>) => r.job.finalizes
              /\ r.at = "again" => MeshIn(ms, BucketIn(r)).final

\* As long as nothing landed, what was taken is what a new look would take.
TakenFresh(r, ms, ss) ==
    /\ r.robbed => ~r.fresh
    /\ (InFrame(r) /\ r.fresh /\ r.kind # "exact") =>
          /\ r.side = "own" /\ Own(r) > 0 => r.partner = Looked(ms, ss, Own(r) - 1, r.kind)
          /\ OwnDone(r) => r.own = Looked(ms, ss, Own(r), r.kind)

\* The frame rendered last: exact, or a stand-in nothing has landed since.
LastExact(l, g, f) ==
    (f = 0 /\ l.exact /\ ~l.robbed) =>
        l.shows = IF Own(l) = 0 THEN <<FinalIn(Own(l), g)>> ELSE <<FinalIn(Own(l) - 1, g), FinalIn(Own(l), g)>>
KindOf(l) == IF l.draft THEN "draft" ELSE "interactive"
LastFresh(l, ms, ss) ==
    (l.index # None /\ ~l.exact /\ l.fresh) =>
        l.shows = Shows(l.index, IF Own(l) > 0 THEN Looked(ms, ss, Own(l) - 1, KindOf(l)) ELSE Unknown,
                        Looked(ms, ss, Own(l), KindOf(l)))

PInv ==
    /\ TypeOK
    /\ JobsRight(render, worker, pending, generation, failures)
    /\ MeshesRight(meshes, generation, failures)
    /\ SidesInTurn(render)
    /\ TakenRight(render, generation, failures)
    /\ ExactGoesOn(render, meshes, generation)
    /\ TakenFresh(render, meshes, standIns)
    /\ LastExact(lastFrame, generation, failures)
    /\ LastFresh(lastFrame, meshes, standIns)

-----------------------------------------------------------------------------
(* The caches. *)

\* Trimming takes nothing but other buckets away.
LEMMA TrimKeeps ==
  ASSUME NEW ms, NEW keep \in DOMAIN ms
  PROVE  /\ DOMAIN Trim(ms, keep) \subseteq DOMAIN ms /\ keep \in DOMAIN Trim(ms, keep)
         /\ \A b \in DOMAIN Trim(ms, keep) : Trim(ms, keep)[b] = ms[b]
  BY DEF Trim

\* A bucket stored and the cache trimmed: the bucket is there, and nothing else is new.
LEMMA StoredIn ==
  ASSUME NEW ms, NEW b, NEW x
  PROVE  LET c == Trim(With(ms, b, x), b) IN
         /\ b \in DOMAIN c /\ c[b] = x
         /\ \A d \in DOMAIN c : d # b => d \in DOMAIN ms /\ c[d] = ms[d]
  <1>. DEFINE w == With(ms, b, x)
  <1>1. DOMAIN w = DOMAIN ms \cup {b} /\ w[b] = x /\ \A d \in DOMAIN ms : d # b => w[d] = ms[d]
    BY DEF With
  <1>. HIDE DEF w
  <1>2. b \in DOMAIN w
    BY <1>1
  <1>3. /\ DOMAIN Trim(w, b) \subseteq DOMAIN w /\ b \in DOMAIN Trim(w, b)
        /\ \A d \in DOMAIN Trim(w, b) : Trim(w, b)[d] = w[d]
    BY <1>2, TrimKeeps
  <1>. QED BY <1>1, <1>3 DEF w

\* What storing a result does to the two caches.
LEMMA StoreStores ==
  ASSUME TypeOK, NEW job, NEW result, NEW thread, JobIsRight(job, generation, failures), Store(job, result, thread)
  PROVE  /\ Current(job) =>
              /\ job.gen = generation /\ Moves(lastFrame, thread)
              /\ job.standIn => UNCHANGED meshes /\ DOMAIN standIns' \subseteq Nat
              /\ ~job.standIn =>
                    /\ UNCHANGED standIns /\ job.bucket \in DOMAIN meshes'
                    /\ \A b \in DOMAIN meshes' : b # job.bucket => b \in DOMAIN meshes /\ meshes'[b] = meshes[b]
                    /\ LET e == Mesh(job.bucket)
                           n == meshes'[job.bucket] IN
                       /\ IsMesh(n) /\ n.measured
                       /\ n.alone = IF e.measured THEN e.alone ELSE result.alone
                       /\ n.final = (e.final \/ job.finalizes)
                       /\ n.field = IF job.finalizes /\ ~e.final THEN result.field ELSE e.field
         /\ ~Current(job) => UNCHANGED <<meshes, standIns, lastFrame>> /\ render' = thread
  <1>1. CASE ~Current(job)
    BY <1>1 DEF Store
  <1>2. CASE Current(job) /\ job.standIn
    <2>1. standIns' = Trim(With(standIns, job.bucket, result.field), job.bucket) /\ UNCHANGED meshes
          /\ Moves(lastFrame, thread)
      BY <1>2 DEF Store
    <2>2. \A d \in DOMAIN standIns' : d # job.bucket => d \in DOMAIN standIns
      BY <2>1, StoredIn
    <2>3. DOMAIN standIns' \subseteq Nat
      BY <2>2 DEF TypeOK, JobIsRight
    <2>. QED BY <1>2, <2>1, <2>3 DEF Current
  <1>3. CASE Current(job) /\ ~job.standIn
    <2>. DEFINE e == Mesh(job.bucket)
                measured == IF e.measured THEN e ELSE [e EXCEPT !.measured = TRUE, !.alone = result.alone]
                entry == IF job.finalizes /\ ~e.final
                         THEN [measured EXCEPT !.final = TRUE, !.field = result.field] ELSE measured
    <2>1. meshes' = Trim(With(meshes, job.bucket, entry), job.bucket) /\ UNCHANGED standIns
          /\ Moves(lastFrame, thread)
      BY <1>3 DEF Store
    <2>2. /\ job.bucket \in DOMAIN meshes' /\ meshes'[job.bucket] = entry
          /\ \A b \in DOMAIN meshes' : b # job.bucket => b \in DOMAIN meshes /\ meshes'[b] = meshes[b]
      <3>. HIDE DEF entry
      <3>. QED BY <2>1, StoredIn
    <2>3. IsMesh(e)
      BY DEF TypeOK, Mesh, NoMesh, IsMesh
    <2>. HIDE DEF e
    <2>4. IsMesh(measured) /\ measured.measured /\ measured.final = e.final /\ measured.field = e.field
          /\ measured.alone = IF e.measured THEN e.alone ELSE result.alone
      BY <2>3 DEF IsMesh
    <2>. HIDE DEF measured
    <2>5. /\ IsMesh(entry) /\ entry.measured /\ entry.alone = measured.alone
          /\ entry.final = (e.final \/ job.finalizes)
          /\ entry.field = IF job.finalizes /\ ~e.final THEN result.field ELSE e.field
      BY <2>3, <2>4 DEF IsMesh
    <2>. QED BY <1>3, <2>1, <2>2, <2>4, <2>5 DEF Current, e
  <1>. QED BY <1>1, <1>2, <1>3

-----------------------------------------------------------------------------
(* Types, and what is in the jobs. *)

\* What a bucket renders with is a correction.
LEMMA CorrectionTyped ==
  ASSUME TypeOK, NEW b, NEW kind PROVE IsCorrection(Correction(b, kind)) /\ IsMesh(Mesh(b))
  <1>1. IsMesh(Mesh(b))
    BY DEF TypeOK, Mesh, NoMesh, IsMesh
  <1>. QED BY <1>1 DEF Correction, IsCorrection, IsMesh, Unknown

\* The thread's state with a correction taken.
LEMMA TakeTyped ==
  ASSUME TypeOK, render.at \notin {"idle", "join"}, NEW c, IsCorrection(c), Take(c) PROVE IsRender(render')
  <1>1. CASE render.side = "partner"
    BY <1>1 DEF Take, TypeOK, IsRender
  <1>2. CASE render.side # "partner"
    BY <1>2 DEF Take, TypeOK, IsRender
  <1>. QED BY <1>1, <1>2

\* A frame that begins, or none.
LEMMA IdleTyped == IsRender(Idle) /\ IsFrame(NoFrame) /\ IsCorrection(Unknown)
  BY DEF IsRender, IsFrame, IsCorrection, Idle, NoFrame, Unknown, Kinds

\* A step leaves every variable of its type.
LEMMA TypeStep == ASSUME PInv, [Next]_vars PROVE TypeOK'
  <1>. DEFINE Rest == /\ DOMAIN meshes' \subseteq Nat
                      /\ \A b \in DOMAIN meshes' : IsMesh(meshes'[b]) /\ meshes'[b].measured
                      /\ DOMAIN standIns' \subseteq Nat /\ generation' \in Nat /\ failures' \in Nat
  <1>0. TypeOK /\ IsRender(render) /\ IsWorker(worker) /\ IsFrame(lastFrame) /\ stop = (render.at = "join")
        /\ stop \in BOOLEAN
    BY DEF PInv, TypeOK
  <1>1. ASSUME UNCHANGED <<meshes, standIns, generation>> PROVE Rest \/ failures' \notin Nat
    BY <1>0, <1>1 DEF TypeOK
  <1>2. ASSUME Reset PROVE Rest \/ failures' \notin Nat
    <2>1. generation' \in Nat
      BY <1>0, <1>2 DEF Reset, TypeOK
    <2>. QED BY <1>2, <2>1 DEF Reset
  <1>3. ASSUME Calm, failures' = failures + 1 PROVE failures' \in Nat
    BY <1>0, <1>3 DEF TypeOK
  <1>4. ASSUME NEW job, NEW result, NEW thread, JobIsRight(job, generation, failures), IsRender(thread),
               Store(job, result, thread), UNCHANGED <<generation, failures>>
        PROVE  Rest /\ IsFrame(lastFrame') /\ IsRender(render') /\ render'.at = thread.at
    <2>1. CASE Current(job)
      <3>1. Moves(lastFrame, thread)
        BY <1>0, <1>4, <2>1, StoreStores
      <3>2. IsFrame(lastFrame') /\ IsRender(render') /\ render'.at = thread.at
        BY <1>0, <1>4, <3>1 DEF Moves, IsFrame, IsRender
      <3>3. CASE job.standIn
        BY <1>0, <1>4, <2>1, <3>2, <3>3, StoreStores DEF TypeOK
      <3>4. CASE ~job.standIn
        <4>1. \A b \in DOMAIN meshes' : b \in Nat /\ IsMesh(meshes'[b]) /\ meshes'[b].measured
          BY <1>0, <1>4, <2>1, <3>4, StoreStores DEF TypeOK, JobIsRight
        <4>2. UNCHANGED standIns
          BY <1>0, <1>4, <2>1, <3>4, StoreStores
        <4>. QED BY <1>0, <1>4, <3>2, <4>1, <4>2 DEF TypeOK
      <3>. QED BY <3>3, <3>4
    <2>2. CASE ~Current(job)
      <3>1. UNCHANGED <<meshes, standIns, lastFrame>> /\ render' = thread
        BY <1>0, <1>4, <2>2, StoreStores
      <3>. QED BY <1>0, <1>4, <3>1 DEF TypeOK
    <2>. QED BY <2>1, <2>2
  <1>5. ASSUME NEW i \in Frames, NEW kind \in Kinds, Ask(i, kind) PROVE TypeOK'
    <2>1. IsRender(render') /\ render'.at # "join" /\ IsFrame(lastFrame')
      BY <1>0, <1>5, IdleTyped DEF Ask, IsRender, Idle
    <2>. QED BY <1>0, <1>5, <2>1 DEF Ask, TypeOK
  <1>6. CASE SetPrefs
    <2>1. IsFrame(lastFrame') /\ IsRender(render') /\ render'.at = "idle" /\ render.at = "idle"
      BY <1>0, <1>6, IdleTyped DEF SetPrefs, Moves, IsFrame, IsRender
    <2>2. Rest
      BY <1>0, <1>2, <1>6 DEF SetPrefs, TypeOK
    <2>. QED BY <1>0, <1>6, <2>1, <2>2 DEF SetPrefs, TypeOK
  <1>7. CASE Quiet
    <2>1. IsRender(render') /\ render'.at = "join"
      BY <1>0, <1>7 DEF Quiet, IsRender
    <2>. QED BY <1>0, <1>7, <2>1 DEF Quiet, TypeOK
  <1>8. CASE Quieted
    <2>1. IsFrame(lastFrame') /\ IsRender(render') /\ render'.at = "idle"
      BY <1>8, IdleTyped DEF Quieted, Moves, IsFrame, IsRender, Idle
    <2>2. Rest
      BY <1>0, <1>2, <1>8 DEF Quieted, TypeOK
    <2>3. IsWorker(worker')
      BY <1>8 DEF Quieted, IsWorker, Asleep
    <2>. QED BY <1>8, <2>1, <2>2, <2>3 DEF Quieted, TypeOK
  <1>9. CASE Sync
    <2>. DEFINE next == [render EXCEPT !.at = "look", !.side = IF HasPartner THEN "partner" ELSE "own"]
    <2>1. IsRender(next) /\ next.at = "look" /\ render.at = "sync"
      <3>1. PICK side \in {"partner", "own"} : side = IF HasPartner THEN "partner" ELSE "own"
        OBVIOUS
      <3>2. next = [render EXCEPT !.at = "look", !.side = side] /\ render.at = "sync"
        BY <1>9, <3>1 DEF Sync
      <3>. HIDE DEF next
      <3>. QED BY <1>0, <3>1, <3>2 DEF IsRender
    <2>. HIDE DEF next
    <2>2. CASE render' = next /\ UNCHANGED <<meshes, standIns, pending, generation, lastFrame>>
      BY <1>0, <1>9, <2>1, <2>2 DEF Sync, TypeOK
    <2>3. CASE Reset /\ Moves(NoFrame, next)
      <3>1. IsFrame(lastFrame') /\ IsRender(render') /\ render'.at = "look"
        BY <2>1, <2>3, IdleTyped DEF Moves, IsFrame, IsRender
      <3>2. Rest
        BY <1>0, <1>2, <1>9, <2>3 DEF Sync, TypeOK
      <3>. QED BY <1>0, <1>9, <2>1, <3>1, <3>2 DEF Sync, TypeOK
    <2>. QED BY <1>9, <2>2, <2>3 DEF Sync, next
  <1>10. ASSUME UNCHANGED <<meshes, standIns, generation, stop, lastFrame>>, failures' \in Nat,
                IsRender(render'), IsWorker(worker'), render'.at = "join" <=> render.at = "join"
         PROVE  TypeOK'
    BY <1>0, <1>10 DEF TypeOK
  <1>t. ASSUME render.at \notin {"idle", "join"}, NEW c, IsCorrection(c), Take(c)
        PROVE  IsRender(render') /\ render'.at # "join"
    BY <1>0, <1>t, TakeTyped DEF Take, IsRender
  <1>11. CASE Look
    <2>. DEFINE c == Correction(Bucket, render.kind)
    <2>1. IsCorrection(c) /\ render.at = "look"
      BY <1>0, <1>11, CorrectionTyped DEF Look
    <2>2. \/ Take(c)
          \/ render' = [render EXCEPT !.at = "prior"]
          \/ \E at \in {"hand over", "stand in"} : render' = [render EXCEPT !.own = c, !.at = at]
      BY <1>11 DEF Look
    <2>. HIDE DEF c
    <2>3. IsRender(render') /\ render'.at # "join"
      <3>1. CASE Take(c)
        BY <1>t, <2>1, <3>1
      <3>2. CASE ~Take(c)
        BY <1>0, <2>1, <2>2, <3>2 DEF IsRender
      <3>. QED BY <3>1, <3>2
    <2>4. UNCHANGED <<meshes, standIns, generation, stop, lastFrame, failures, worker>>
      BY <1>11 DEF Look
    <2>. QED BY <1>0, <1>10, <2>1, <2>3, <2>4 DEF TypeOK
  <1>12. CASE Prepare
    <2>1. \E job, at : at \in {"queue", "finish"} /\
             render' \in {[render EXCEPT !.job = job, !.at = at], [render EXCEPT !.at = at]}
      BY <1>12 DEF Prepare
    <2>2. IsRender(render') /\ render'.at # "join" /\ render.at # "join"
      BY <1>0, <1>12, <2>1 DEF Prepare, IsRender
    <2>3. UNCHANGED <<meshes, standIns, generation, stop, lastFrame, worker>> /\ failures' \in Nat
      BY <1>0, <1>3, <1>12 DEF Prepare, TypeOK
    <2>. QED BY <1>0, <1>10, <2>2, <2>3
  <1>13. CASE Queue \/ Prior
    <2>1. IsRender(render') /\ render'.at # "join" /\ render.at # "join"
      BY <1>0, <1>13 DEF Queue, Prior, IsRender
    <2>2. UNCHANGED <<meshes, standIns, generation, stop, lastFrame, worker, failures>>
      BY <1>13 DEF Queue, Prior
    <2>. QED BY <1>0, <1>10, <2>1, <2>2 DEF TypeOK
  <1>14. CASE StartWorker
    <2>1. IsRender(render') /\ render'.at # "join" /\ render.at # "join"
      BY <1>0, <1>14 DEF StartWorker, IsRender
    <2>2. IsWorker(worker') /\ failures' \in Nat
      BY <1>0, <1>3, <1>14 DEF StartWorker, IsWorker, Asleep, TypeOK
    <2>. QED BY <1>10, <1>14, <2>1, <2>2 DEF StartWorker
  <1>15. CASE Fill
    <2>1. \E job, result : render' = [render EXCEPT !.job = job, !.result = result, !.at = "store"]
      BY <1>15 DEF Fill
    <2>2. IsRender(render') /\ render'.at # "join" /\ render.at # "join"
      BY <1>0, <1>15, <2>1 DEF Fill, IsRender
    <2>3. UNCHANGED <<meshes, standIns, generation, stop, lastFrame, worker>> /\ failures' \in Nat
      BY <1>0, <1>3, <1>15 DEF Fill, Outcome, TypeOK
    <2>. QED BY <1>0, <1>10, <2>2, <2>3
  <1>16. CASE StoreNow
    <2>. DEFINE thread == [render EXCEPT !.job = None, !.result = None, !.todo = Tail(@),
                                         !.at = IF Len(render.todo) > 1 THEN "fill" ELSE "again"]
    <2>1. IsRender(thread) /\ thread.at # "join" /\ render.at = "store"
      <3>1. PICK at \in {"fill", "again"} : at = IF Len(render.todo) > 1 THEN "fill" ELSE "again"
        OBVIOUS
      <3>2. PICK todo : todo = Tail(render.todo)
        OBVIOUS
      <3>3. thread = [render EXCEPT !.job = None, !.result = None, !.todo = todo, !.at = at]
            /\ render.at = "store"
        BY <1>16, <3>1, <3>2 DEF StoreNow
      <3>. HIDE DEF thread
      <3>. QED BY <1>0, <3>1, <3>3 DEF IsRender
    <2>2. JobIsRight(render.job, generation, failures)
      BY <2>1 DEF PInv, JobsRight
    <2>. HIDE DEF thread
    <2>3. Store(render.job, render.result, thread) /\ UNCHANGED <<generation, failures, stop, worker>>
      BY <1>16 DEF StoreNow, thread
    <2>. QED BY <1>0, <1>4, <2>1, <2>2, <2>3 DEF TypeOK
  <1>17. CASE LookAgain
    <2>1. IsRender(render') /\ render'.at # "join" /\ render.at # "join"
      BY <1>0, <1>t, <1>17, CorrectionTyped DEF LookAgain
    <2>. QED BY <1>0, <1>10, <1>17, <2>1 DEF LookAgain, TypeOK
  <1>18. CASE Finish
    <2>1. IsFrame(lastFrame') /\ render'.at = "idle" /\ render.at = "finish"
      <3>1. Exact(render.index, render.kind, render.partner, render.own) \in BOOLEAN
        BY <1>0 DEF Exact, IsRender, IsCorrection
      <3>. QED BY <1>0, <1>18, <3>1 DEF Finish, IsFrame, Idle, IsRender
    <2>. QED BY <1>0, <1>18, <2>1, IdleTyped DEF Finish, TypeOK
  <1>19. CASE TakeJob \/ Solve \/ WorkerExit
    <2>1. IsWorker(worker')
      BY <1>0, <1>19 DEF TakeJob, Solve, WorkerExit, IsWorker
    <2>2. failures' \in Nat
      BY <1>0, <1>3, <1>19 DEF TakeJob, Solve, WorkerExit, Outcome, TypeOK
    <2>. QED BY <1>0, <1>10, <1>19, <2>1, <2>2 DEF TakeJob, Solve, WorkerExit
  <1>20. CASE StoreSolved
    <2>. DEFINE thread == [render EXCEPT !.robbed = @ \/ Robs]
    <2>1. IsRender(thread) /\ thread.at = render.at
      <3>1. PICK robbed \in BOOLEAN : robbed = (render.robbed \/ Robs)
        <4>1. (render.robbed \/ Robs) \in BOOLEAN
          OBVIOUS
        <4>. QED BY <4>1
      <3>2. thread = [render EXCEPT !.robbed = robbed]
        BY <3>1
      <3>. HIDE DEF thread
      <3>. QED BY <1>0, <3>1, <3>2 DEF IsRender
    <2>2. JobIsRight(worker.job, generation, failures)
      BY <1>20 DEF StoreSolved, PInv, JobsRight
    <2>. HIDE DEF thread
    <2>3. Store(worker.job, worker.result, thread) /\ UNCHANGED <<generation, failures, stop>> /\ worker' = Asleep
      BY <1>20 DEF StoreSolved, thread
    <2>4. IsWorker(worker')
      BY <2>3 DEF IsWorker, Asleep
    <2>. QED BY <1>0, <1>4, <2>1, <2>2, <2>3, <2>4 DEF TypeOK
  <1>21. CASE UNCHANGED vars
    BY <1>0, <1>21 DEF vars, TypeOK
  <1>. QED BY <1>5, <1>6, <1>7, <1>8, <1>9, <1>11, <1>12, <1>13, <1>14, <1>15, <1>16, <1>17, <1>18, <1>19, <1>20, <1>21
       DEF Next, Render, Worker

-----------------------------------------------------------------------------
(* What the steps of the model say in terms of the parts. *)

\* The model's names for a state's own caches and settings.
LEMMA Names ==
  ASSUME TypeOK
  PROVE  /\ \A b : Mesh(b) = MeshIn(meshes, b) /\ Alone(b) = AloneIn(b, generation)
         /\ \A b : Sequential(b) = FinalIn(b, generation)
         /\ \A b : HasPrior(b) <=> b = 0 \/ b - 1 \in DOMAIN meshes
         /\ \A b, kind : Correction(b, kind) = Looked(meshes, standIns, b, kind)
         /\ Bucket = BucketIn(render) /\ HasPartner = (Own(render) > 0)
  <1>1. \A b : Mesh(b) = MeshIn(meshes, b) /\ Alone(b) = AloneIn(b, generation)
    BY DEF Mesh, MeshIn, Alone, AloneIn
  <1>2. \A b : Sequential(b) = FinalIn(b, generation)
    BY <1>1 DEF Sequential, FinalIn
  <1>3. \A b : HasPrior(b) <=> b = 0 \/ b - 1 \in DOMAIN meshes
    BY DEF HasPrior, Measured, TypeOK
  <1>4. \A b, kind : Correction(b, kind) = Looked(meshes, standIns, b, kind)
    BY <1>1 DEF Correction, Looked
  <1>5. Bucket = BucketIn(render) /\ HasPartner = (Own(render) > 0)
    BY DEF Bucket, BucketIn, Own, HasPartner
  <1>. QED BY <1>1, <1>2, <1>3, <1>4, <1>5

\* In a frame the bucket looked at, and the frame's own, are numbers.
LEMMA BucketTyped ==
  ASSUME TypeOK, SidesInTurn(render), InFrame(render)
  PROVE  Own(render) \in Nat /\ BucketIn(render) \in Nat /\ Anchor(BucketIn(render)) \in Nat
  <1>1. render.index \in Nat /\ BucketFrames \in Nat \ {0}
    BY ParallaxAssumption DEF TypeOK, IsRender, InFrame
  <1>2. ASSUME NEW i \in Nat, NEW d \in Nat \ {0} PROVE i \div d \in Nat
    BY <1>2
  <1>3. ASSUME NEW i \in Nat, NEW d \in Nat PROVE i * d \in Nat
    BY <1>3
  <1>4. Own(render) \in Nat
    BY <1>1, <1>2 DEF Own, BucketOf
  <1>5. BucketIn(render) \in Nat
    <2>1. CASE render.side = "own"
      BY <1>4, <2>1 DEF BucketIn
    <2>2. CASE render.side # "own"
      <3>1. Own(render) # 0
        BY <2>2 DEF SidesInTurn
      <3>2. BucketIn(render) = Own(render) - 1
        BY <2>2 DEF BucketIn
      <3>. QED BY <1>4, <3>1, <3>2
    <2>. QED BY <2>1, <2>2
  <1>. QED BY <1>1, <1>3, <1>4, <1>5 DEF Anchor

\* A step leaves the caches, clears them for a new generation, or stores.
LEMMA CacheStep ==
  ASSUME PInv, [Next]_vars
  PROVE  /\ failures' = failures \/ failures' = failures + 1
         /\ \/ UNCHANGED <<meshes, standIns, generation>>
            \/ /\ meshes' = <<>> /\ pending' = None /\ generation' = generation + 1
               /\ lastFrame'.index = None /\ ~lastFrame'.exact /\ ~lastFrame'.fresh /\ ~render'.fresh
            \/ StoreNow \/ StoreSolved
  <1>. DEFINE Cleared == /\ meshes' = <<>> /\ pending' = None /\ generation' = generation + 1
                         /\ lastFrame'.index = None /\ ~lastFrame'.exact /\ ~lastFrame'.fresh /\ ~render'.fresh
  <1>0. IsRender(render)
    BY DEF PInv, TypeOK
  <1>1. ASSUME NEW thread, IsRender(thread), Reset, Moves(NoFrame, thread) PROVE Cleared
    BY <1>1 DEF Reset, Moves, NoFrame, IsRender
  <1>2. CASE \E i \in Frames, kind \in Kinds : Ask(i, kind)
    BY <1>2 DEF Ask
  <1>3. CASE SetPrefs
    BY <1>0, <1>1, <1>3 DEF SetPrefs
  <1>4. CASE Quiet
    BY <1>4 DEF Quiet
  <1>5. CASE Quieted
    BY <1>1, <1>5, IdleTyped DEF Quieted
  <1>6. CASE Sync
    <2>. DEFINE next == [render EXCEPT !.at = "look", !.side = IF HasPartner THEN "partner" ELSE "own"]
    <2>1. PICK side \in {"partner", "own"} : side = IF HasPartner THEN "partner" ELSE "own"
      OBVIOUS
    <2>2. next = [render EXCEPT !.at = "look", !.side = side]
      BY <2>1
    <2>. HIDE DEF next
    <2>3. IsRender(next)
      BY <1>0, <1>6, <2>2 DEF IsRender, Sync
    <2>. QED BY <1>1, <1>6, <2>3 DEF Sync, next
  <1>7. CASE Look \/ Prepare \/ Queue \/ StartWorker \/ Prior
    BY <1>7 DEF Look, Prepare, Queue, StartWorker, Prior
  <1>8. CASE Fill \/ LookAgain \/ Finish \/ TakeJob \/ Solve \/ WorkerExit
    BY <1>8 DEF Fill, LookAgain, Finish, TakeJob, Solve, WorkerExit, Outcome
  <1>9. CASE StoreNow \/ StoreSolved
    BY <1>9 DEF StoreNow, StoreSolved
  <1>10. CASE UNCHANGED vars
    BY <1>10 DEF vars
  <1>. QED BY <1>2, <1>3, <1>4, <1>5, <1>6, <1>7, <1>8, <1>9, <1>10 DEF Next, Render, Worker

-----------------------------------------------------------------------------
(* The render thread's steps, field by field. *)

\* What the frame, its kind and what it has taken are in, and are not.
SameFrame == /\ render'.index = render.index /\ render'.kind = render.kind
             /\ render'.partner = render.partner /\ render'.own = render.own
SameJob == /\ render'.todo = render.todo /\ render'.job = render.job /\ render'.result = render.result

\* What a store leaves: a serial that moved, or the caches as they were.
StoreMoves(job) ==
    IF Current(job) THEN ~render'.fresh /\ lastFrame' = [lastFrame EXCEPT !.fresh = FALSE]
    ELSE render'.fresh = render.fresh /\ UNCHANGED <<meshes, standIns, lastFrame>>

LEMMA SyncThread ==
  ASSUME TypeOK, Sync
  PROVE  /\ render.at = "sync" /\ render'.at = "look" /\ SameFrame /\ SameJob /\ render'.robbed = render.robbed
         /\ render'.side = IF Own(render) > 0 THEN "partner" ELSE "own"
         /\ render'.fresh => render.fresh
  <1>0. IsRender(render)
    BY DEF TypeOK
  <1>. DEFINE next == [render EXCEPT !.at = "look", !.side = IF HasPartner THEN "partner" ELSE "own"]
  <1>1. PICK side \in {"partner", "own"} : side = IF HasPartner THEN "partner" ELSE "own"
    OBVIOUS
  <1>2. next = [render EXCEPT !.at = "look", !.side = side]
    BY <1>1
  <1>. HIDE DEF next
  <1>3. render' \in {next, [next EXCEPT !.fresh = FALSE]} /\ render.at = "sync"
    BY DEF Sync, Moves, next
  <1>4. render' \in {[render EXCEPT !.at = "look", !.side = side],
                     [render EXCEPT !.at = "look", !.side = side, !.fresh = FALSE]}
    BY <1>2, <1>3
  <1>5. side = IF Own(render) > 0 THEN "partner" ELSE "own"
    BY <1>1, Names
  <1>6. render'.side = side /\ render'.at = "look" /\ SameFrame /\ SameJob /\ render'.robbed = render.robbed
        /\ (render'.fresh => render.fresh)
    BY <1>0, <1>4 DEF IsRender, SameFrame, SameJob
  <1>. QED BY <1>3, <1>5, <1>6

LEMMA TakeThread ==
  ASSUME TypeOK, NEW c, Take(c)
  PROVE  /\ render'.index = render.index /\ render'.kind = render.kind /\ render'.fresh = render.fresh
         /\ render'.robbed = render.robbed /\ SameJob /\ render'.side = "own"
         /\ render.side \in {"partner", "own"} /\ render'.at \in {"look", "finish"}
         /\ render.side = "partner" => render'.at = "look" /\ render'.partner = c /\ render'.own = render.own
         /\ render.side = "own" => render'.at = "finish" /\ render'.own = c /\ render'.partner = render.partner
  <1>0. IsRender(render)
    BY DEF TypeOK
  <1>1. CASE render.side = "partner"
    BY <1>0, <1>1 DEF Take, IsRender, SameJob
  <1>2. CASE render.side = "own"
    BY <1>0, <1>2 DEF Take, IsRender, SameJob
  <1>. QED BY <1>0, <1>1, <1>2 DEF IsRender

LEMMA StoreNowThread ==
  ASSUME TypeOK, StoreNow
  PROVE  /\ render.at = "store" /\ render'.at = IF Len(render.todo) > 1 THEN "fill" ELSE "again"
         /\ SameFrame /\ render'.side = render.side /\ render'.robbed = render.robbed
         /\ render'.todo = Tail(render.todo) /\ StoreMoves(render.job)
         /\ \E thread : Store(render.job, render.result, thread)
  <1>0. IsRender(render)
    BY DEF TypeOK
  <1>1. PICK at \in {"fill", "again"} : at = IF Len(render.todo) > 1 THEN "fill" ELSE "again"
    OBVIOUS
  <1>2. PICK todo : todo = Tail(render.todo)
    OBVIOUS
  <1>3. PICK thread : thread = [render EXCEPT !.job = None, !.result = None, !.todo = todo, !.at = at]
    OBVIOUS
  <1>4. Store(render.job, render.result, thread) /\ render.at = "store"
    BY <1>1, <1>2, <1>3 DEF StoreNow
  <1>5. CASE Current(render.job)
    <2>1. Moves(lastFrame, thread)
      BY <1>4, <1>5 DEF Store
    <2>. QED BY <1>0, <1>1, <1>2, <1>3, <1>4, <1>5, <2>1 DEF Moves, IsRender, SameFrame, StoreMoves
  <1>6. CASE ~Current(render.job)
    <2>1. UNCHANGED <<meshes, standIns, lastFrame>> /\ render' = thread
      BY <1>4, <1>6 DEF Store
    <2>. QED BY <1>0, <1>1, <1>2, <1>3, <1>4, <1>6, <2>1 DEF IsRender, SameFrame, StoreMoves
  <1>. QED BY <1>5, <1>6

LEMMA StoreSolvedThread ==
  ASSUME TypeOK, StoreSolved
  PROVE  /\ render'.at = render.at /\ SameFrame /\ SameJob /\ render'.side = render.side
         /\ render'.robbed = (render.robbed \/ Robs) /\ StoreMoves(worker.job)
         /\ \E thread : Store(worker.job, worker.result, thread)
  <1>0. IsRender(render)
    BY DEF TypeOK
  <1>1. PICK robbed \in BOOLEAN : robbed = (render.robbed \/ Robs)
    <2>1. (render.robbed \/ Robs) \in BOOLEAN
      OBVIOUS
    <2>. QED BY <2>1
  <1>2. PICK thread : thread = [render EXCEPT !.robbed = robbed]
    OBVIOUS
  <1>3. Store(worker.job, worker.result, thread)
    BY <1>1, <1>2 DEF StoreSolved
  <1>4. CASE Current(worker.job)
    <2>1. Moves(lastFrame, thread)
      BY <1>3, <1>4 DEF Store
    <2>. QED BY <1>0, <1>1, <1>2, <1>3, <1>4, <2>1 DEF Moves, IsRender, SameFrame, SameJob, StoreMoves
  <1>5. CASE ~Current(worker.job)
    <2>1. UNCHANGED <<meshes, standIns, lastFrame>> /\ render' = thread
      BY <1>3, <1>5 DEF Store
    <2>. QED BY <1>0, <1>1, <1>2, <1>3, <1>5, <2>1 DEF IsRender, SameFrame, SameJob, StoreMoves
  <1>. QED BY <1>4, <1>5

\* The steps of the others leave the frame where it is.
LEMMA ElseThread ==
  ASSUME TypeOK, SetPrefs \/ TakeJob \/ Solve \/ WorkerExit \/ UNCHANGED vars
  PROVE  /\ render'.at = render.at /\ SameFrame /\ SameJob /\ render'.side = render.side
         /\ render'.robbed = render.robbed /\ (render'.fresh => render.fresh)
  <1>0. IsRender(render)
    BY DEF TypeOK
  <1>1. CASE SetPrefs
    BY <1>0, <1>1 DEF SetPrefs, Moves, IsRender, SameFrame, SameJob
  <1>2. CASE TakeJob \/ Solve \/ WorkerExit \/ UNCHANGED vars
    BY <1>2 DEF TakeJob, Solve, WorkerExit, vars, SameFrame, SameJob
  <1>. QED BY <1>1, <1>2

-----------------------------------------------------------------------------
(* Jobs and the cache. *)

\* A job just made of a bucket's anchor is right.
LEMMA JobMade ==
  ASSUME PInv, NEW b \in Nat, NEW frame, NEW standIn \in BOOLEAN, NEW f \in Nat,
         f = 0 => failures = 0 /\ (standIn \/ frame = Anchor(b))
  PROVE  JobIsRight(Job(b, frame, standIn), generation, f)
  <1>. DEFINE j == Job(b, frame, standIn)
  <1>1. /\ j.bucket = b /\ j.on = frame /\ j.standIn = standIn /\ j.gen = generation
        /\ j.finalizes = (~standIn /\ HasPrior(b))
        /\ ~standIn => j.prior = IF b = 0 THEN None ELSE Mesh(b - 1).alone
    BY DEF Job
  <1>2. generation \in Nat
    BY DEF PInv, TypeOK
  <1>3. ASSUME f = 0, ~standIn, HasPrior(b), b # 0 PROVE Mesh(b - 1).alone = AloneIn(b - 1, generation)
    <2>1. b - 1 \in DOMAIN meshes /\ Mesh(b - 1) = meshes[b - 1]
      BY <1>3, Names DEF PInv, MeshIn
    <2>. QED BY <1>3, <2>1 DEF PInv, MeshesRight
  <1>. HIDE DEF j
  <1>4. j.gen \in Nat /\ j.gen <= generation
    BY <1>1, <1>2
  <1>5. ASSUME f = 0, ~j.standIn PROVE j.on = Anchor(j.bucket)
    BY <1>1, <1>5
  <1>6. ASSUME f = 0, ~j.standIn, j.finalizes
        PROVE  j.prior = IF j.bucket = 0 THEN None ELSE AloneIn(j.bucket - 1, j.gen)
    BY <1>1, <1>3, <1>6
  <1>. QED BY <1>1, <1>4, <1>5, <1>6 DEF JobIsRight, j

\* What was right stays so: generations and failures only grow.
LEMMA JobKept ==
  ASSUME PInv, [Next]_vars, NEW j, JobIsRight(j, generation, failures)
  PROVE  JobIsRight(j, generation', failures') /\ (failures' = 0 => failures = 0)
  <1>1. generation \in Nat /\ failures \in Nat
    BY DEF PInv, TypeOK
  <1>2. generation' = generation \/ generation' = generation + 1
    BY CacheStep DEF StoreNow, StoreSolved
  <1>3. failures' = 0 => failures = 0
    BY <1>1, CacheStep
  <1>4. j.gen <= generation'
    BY <1>1, <1>2 DEF JobIsRight
  <1>. QED BY <1>3, <1>4 DEF JobIsRight

\* The jobs and their results stay right.
LEMMA JobsStep ==
  ASSUME PInv, [Next]_vars, TypeOK'
  PROVE  JobsRight(render, worker, pending, generation, failures)'
  <1>0. /\ JobsRight(render, worker, pending, generation, failures) /\ IsRender(render) /\ IsWorker(worker)
        /\ failures' \in Nat /\ failures \in Nat /\ generation \in Nat
    BY DEF PInv, TypeOK
  <1>z. failures' = 0 => failures = 0
    BY <1>0, CacheStep
  <1>1. ASSUME pending' # None PROVE JobIsRight(pending', generation', failures')
    <2>1. CASE Queue
      BY <1>0, <2>1, JobKept DEF Queue, JobsRight
    <2>2. CASE ~Queue
      <3>1. pending' = pending \/ pending' = None
        BY <2>2 DEF Next, Render, Worker, Ask, SetPrefs, Quiet, Sync, Look, Prepare, StartWorker, Prior, Fill,
                    StoreNow, LookAgain, Finish, Quieted, TakeJob, Solve, StoreSolved, WorkerExit, Reset, vars
      <3>. QED BY <1>0, <1>1, <3>1, JobKept DEF JobsRight
    <2>. QED BY <2>1, <2>2
  <1>2. /\ worker'.at \in {"solve", "store"} => JobIsRight(worker'.job, generation', failures')
        /\ worker'.at = "store" /\ failures' = 0 => worker'.result = Solved(worker'.job)
    <2>1. CASE worker' = worker
      BY <1>0, <1>z, <2>1, JobKept DEF JobsRight
    <2>2. CASE TakeJob
      <3>1. worker'.at = "solve" /\ worker'.job = pending /\ pending # None
        BY <1>0, <2>2 DEF TakeJob, IsWorker
      <3>. QED BY <1>0, <3>1, JobKept DEF JobsRight
    <2>3. CASE Solve
      <3>1. PICK result : Outcome(worker.job, result) /\ worker' = [worker EXCEPT !.at = "store", !.result = result]
        BY <2>3 DEF Solve
      <3>2. worker'.at = "store" /\ worker'.job = worker.job /\ worker'.result = result /\ worker.at = "solve"
        BY <1>0, <2>3, <3>1 DEF IsWorker, Solve
      <3>3. failures' = 0 => result = Solved(worker.job)
        <4>1. failures' # failures + 1 \/ failures' # 0
          BY <1>0
        <4>. QED BY <3>1, <4>1 DEF Outcome
      <3>. QED BY <1>0, <3>2, <3>3, JobKept DEF JobsRight
    <2>4. CASE worker'.at \notin {"solve", "store"}
      BY <2>4
    <2>5. ASSUME Quieted \/ StartWorker \/ StoreSolved \/ WorkerExit, worker' # worker
          PROVE  worker'.at \notin {"solve", "store"}
      BY <1>0, <2>5 DEF Quieted, StartWorker, StoreSolved, WorkerExit, Asleep, IsWorker
    <2>6. worker' = worker \/ TakeJob \/ Solve \/ worker'.at \notin {"solve", "store"}
      <3>1. CASE Quieted \/ StartWorker \/ StoreSolved \/ WorkerExit
        BY <2>5, <3>1
      <3>2. CASE ~(Quieted \/ StartWorker \/ StoreSolved \/ WorkerExit \/ TakeJob \/ Solve)
        BY <3>2 DEF Next, Render, Worker, Ask, SetPrefs, Quiet, Sync, Look, Prepare, Queue, Prior, Fill,
                    StoreNow, LookAgain, Finish, vars
      <3>. QED BY <3>1, <3>2
    <2>. QED BY <2>1, <2>2, <2>3, <2>4, <2>6
  <1>3. /\ render'.at \in {"queue", "store"} => JobIsRight(render'.job, generation', failures')
        /\ render'.at = "store" /\ failures' = 0 => render'.result = Solved(render'.job)
    <2>. DEFINE New == render'.at \in {"queue", "store"} /\ ~(render'.at = render.at /\ render'.job = render.job
                                                            /\ render'.result = render.result)
    <2>1. CASE ~New
      BY <1>0, <1>z, <2>1, JobKept DEF JobsRight
    <2>2. CASE Prepare
      <3>1. InFrame(render) /\ SidesInTurn(render) /\ BucketIn(render) \in Nat
        BY <2>2, BucketTyped DEF PInv, Prepare, InFrame
      <3>2. Bucket \in Nat
        BY <3>1, Names DEF PInv
      <3>3. CASE render'.at # "queue"
        <4>1. render'.at \notin {"queue", "store"}
          BY <1>0, <2>2, <3>3 DEF Prepare, IsRender
        <4>. QED BY <4>1
      <3>4. CASE render'.at = "queue"
        <4>1. PICK standIn \in BOOLEAN : standIn = (render.at = "stand in")
          OBVIOUS
        <4>2. PICK frame : frame = IF standIn THEN render.index ELSE Anchor(Bucket)
          OBVIOUS
        <4>3. /\ render' = [render EXCEPT !.job = Job(Bucket, frame, standIn), !.at = "queue"]
              /\ UNCHANGED <<failures, generation>>
          BY <1>0, <2>2, <3>4, <4>1, <4>2 DEF Prepare, IsRender
        <4>4. JobIsRight(Job(Bucket, frame, standIn), generation, failures)
          BY <1>0, <3>2, <4>2, JobMade
        <4>5. render'.job = Job(Bucket, frame, standIn)
          BY <1>0, <4>3 DEF IsRender
        <4>. QED BY <3>4, <4>3, <4>4, <4>5
      <3>. QED BY <3>3, <3>4
    <2>3. CASE Fill
      <3>1. InFrame(render) /\ SidesInTurn(render) /\ BucketIn(render) \in Nat /\ render.kind = "exact"
        BY <2>3, BucketTyped DEF PInv, Fill, InFrame, SidesInTurn
      <3>2. PICK b \in Nat : b = Head(render.todo)
        <4>1. \/ render.todo = <<BucketIn(render)>>
              \/ BucketIn(render) > 0 /\ render.todo = <<BucketIn(render) - 1, BucketIn(render)>>
          BY <2>3, <3>1 DEF PInv, ExactGoesOn, Fill
        <4>2. Head(render.todo) \in Nat
          BY <3>1, <4>1
        <4>. QED BY <4>2
      <3>3. PICK frame, result :
               /\ render' = [render EXCEPT !.job = Job(b, frame, FALSE), !.result = result, !.at = "store"]
               /\ failures' = 0 => frame = Anchor(b) /\ result = Solved(Job(b, frame, FALSE))
        <4>1. failures' # failures + 1 \/ failures' # 0
          BY <1>0
        <4>2. CASE \E result : /\ Outcome(Job(b, Anchor(b), FALSE), result)
                               /\ render' = [render EXCEPT !.job = Job(b, Anchor(b), FALSE), !.result = result,
                                                           !.at = "store"]
          BY <4>1, <4>2 DEF Outcome
        <4>3. CASE /\ failures' = failures + 1
                   /\ LET job == Job(b, render.index, FALSE)
                      IN  render' = [render EXCEPT !.job = job, !.result = Solved(job), !.at = "store"]
          BY <4>1, <4>3
        <4>. QED BY <2>3, <3>2, <4>2, <4>3 DEF Fill
      <3>4. render'.job = Job(b, frame, FALSE) /\ render'.result = result /\ UNCHANGED generation
        BY <1>0, <2>3, <3>3 DEF IsRender, Fill
      <3>5. JobIsRight(Job(b, frame, FALSE), generation, failures')
        BY <1>0, <1>z, <3>3, JobMade
      <3>. QED BY <3>3, <3>4, <3>5
    <2>4. ~New \/ Prepare \/ Fill
      <3>1. CASE Look
        <4>1. CASE \E c : Take(c)
          BY <4>1, TakeThread DEF PInv, SameJob
        <4>2. CASE ~\E c : Take(c)
          <5>1. \/ render' = [render EXCEPT !.at = "prior"]
                \/ \E c, at : at \in {"hand over", "stand in"} /\ render' = [render EXCEPT !.own = c, !.at = at]
            BY <3>1, <4>2 DEF Look
          <5>. QED BY <1>0, <5>1 DEF IsRender
        <4>. QED BY <4>1, <4>2
      <3>2. CASE StoreNow
        BY <3>2, StoreNowThread DEF PInv
      <3>3. CASE StoreSolved
        BY <3>3, StoreSolvedThread DEF PInv, SameJob
      <3>4. CASE Sync
        BY <3>4, SyncThread DEF PInv
      <3>5. CASE LookAgain
        <4>1. PICK c : Take(c)
          BY <3>5 DEF LookAgain
        <4>. QED BY <4>1, TakeThread DEF PInv, SameJob
      <3>6. CASE Queue \/ StartWorker \/ Prior
        BY <1>0, <3>6 DEF Queue, StartWorker, Prior, IsRender
      <3>7. CASE Quiet \/ Quieted \/ Finish
        <4>1. CASE Quiet
          BY <1>0, <4>1 DEF Quiet, IsRender
        <4>2. CASE Quieted
          BY <4>2 DEF Quieted, Moves, Idle
        <4>3. CASE Finish
          BY <4>3 DEF Finish, Idle
        <4>. QED BY <3>7, <4>1, <4>2, <4>3
      <3>8. CASE \E i \in Frames, kind \in Kinds : Ask(i, kind)
        BY <3>8 DEF Ask, Idle
      <3>9. CASE SetPrefs \/ TakeJob \/ Solve \/ WorkerExit \/ UNCHANGED vars
        BY <3>9, ElseThread DEF PInv, SameJob
      <3>. QED BY <3>1, <3>2, <3>3, <3>4, <3>5, <3>6, <3>7, <3>8, <3>9 DEF Next, Render, Worker
    <2>. QED BY <2>1, <2>2, <2>3, <2>4
  <1>. QED BY <1>1, <1>2, <1>3 DEF JobsRight

\* A right result is stored in its right place.
LEMMA StoredRight ==
  ASSUME PInv, NEW job, NEW result, NEW thread, JobIsRight(job, generation, failures),
         failures = 0 => result = Solved(job), Store(job, result, thread), failures = 0
  PROVE  MeshesRight(meshes', generation, failures)
  <1>0. TypeOK /\ \A b \in DOMAIN meshes : /\ meshes[b].alone = AloneIn(b, generation)
                                           /\ meshes[b].final => meshes[b].field = FinalIn(b, generation)
    BY DEF PInv, MeshesRight
  <1>1. CASE UNCHANGED meshes
    BY <1>0, <1>1 DEF MeshesRight
  <1>2. CASE Current(job) /\ ~job.standIn
    <2>1. /\ job.gen = generation /\ job.bucket \in DOMAIN meshes'
          /\ \A b \in DOMAIN meshes' : b # job.bucket => b \in DOMAIN meshes /\ meshes'[b] = meshes[b]
          /\ LET e == Mesh(job.bucket)
                 n == meshes'[job.bucket] IN
             /\ IsMesh(n) /\ n.measured
             /\ n.alone = IF e.measured THEN e.alone ELSE result.alone
             /\ n.final = (e.final \/ job.finalizes)
             /\ n.field = IF job.finalizes /\ ~e.final THEN result.field ELSE e.field
      BY <1>0, <1>2, StoreStores
    <2>. DEFINE e == Mesh(job.bucket)
                n == meshes'[job.bucket]
    <2>2. result.alone = AloneIn(job.bucket, generation)
      BY <1>2, <2>1 DEF Solved, AloneIn, JobIsRight
    <2>3. job.finalizes => result.field = FinalIn(job.bucket, generation)
      <3>1. result.field = [AloneIn(job.bucket, generation) EXCEPT !.prior = job.prior]
        BY <1>2, <2>1 DEF Solved, AloneIn, JobIsRight
      <3>2. job.finalizes => job.prior = IF job.bucket = 0 THEN None ELSE AloneIn(job.bucket - 1, generation)
        BY <1>2, <2>1 DEF JobIsRight
      <3>. QED BY <3>1, <3>2 DEF FinalIn
    <2>4. e.measured => job.bucket \in DOMAIN meshes /\ e = meshes[job.bucket]
      BY DEF Mesh, NoMesh
    <2>5. e.final => job.bucket \in DOMAIN meshes /\ e = meshes[job.bucket]
      BY DEF Mesh, NoMesh
    <2>6. n.alone = AloneIn(job.bucket, generation)
      BY <1>0, <2>1, <2>2, <2>4
    <2>7. n.final => n.field = FinalIn(job.bucket, generation)
      BY <1>0, <2>1, <2>3, <2>5
    <2>. QED BY <1>0, <2>1, <2>6, <2>7 DEF MeshesRight
  <1>3. CASE ~(Current(job) /\ ~job.standIn)
    <2>1. UNCHANGED meshes
      BY <1>0, <1>3, StoreStores
    <2>. QED BY <1>1, <2>1
  <1>. QED BY <1>2, <1>3

\* The cache stays right.
LEMMA MeshesStep ==
  ASSUME PInv, [Next]_vars, TypeOK' PROVE MeshesRight(meshes, generation, failures)'
  <1>0. failures' \in Nat /\ failures \in Nat
    BY DEF PInv, TypeOK
  <1>1. failures' = 0 => failures = 0
    BY <1>0, CacheStep
  <1>2. CASE UNCHANGED <<meshes, standIns, generation>>
    BY <1>1, <1>2 DEF PInv, MeshesRight
  <1>3. CASE meshes' = <<>>
    BY <1>3 DEF MeshesRight
  <1>4. CASE StoreNow
    <2>1. PICK thread : Store(render.job, render.result, thread)
      BY <1>4, StoreNowThread DEF PInv
    <2>2. UNCHANGED <<generation, failures>> /\ render.at = "store"
      BY <1>4 DEF StoreNow
    <2>3. JobIsRight(render.job, generation, failures) /\ (failures = 0 => render.result = Solved(render.job))
      BY <2>2 DEF PInv, JobsRight
    <2>4. failures = 0 => MeshesRight(meshes', generation, failures)
      BY <2>1, <2>3, StoredRight
    <2>. QED BY <2>2, <2>4 DEF MeshesRight
  <1>5. CASE StoreSolved
    <2>1. PICK thread : Store(worker.job, worker.result, thread)
      BY <1>5, StoreSolvedThread DEF PInv
    <2>2. UNCHANGED <<generation, failures>> /\ worker.at = "store"
      BY <1>5 DEF StoreSolved
    <2>3. JobIsRight(worker.job, generation, failures) /\ (failures = 0 => worker.result = Solved(worker.job))
      BY <2>2 DEF PInv, JobsRight
    <2>4. failures = 0 => MeshesRight(meshes', generation, failures)
      BY <2>1, <2>3, StoredRight
    <2>. QED BY <2>2, <2>4 DEF MeshesRight
  <1>. QED BY <1>2, <1>3, <1>4, <1>5, CacheStep

-----------------------------------------------------------------------------
(* The frame under way. *)

\* A look at a bucket takes what the caches have, or goes on to solve it.
LEMMA LookThread ==
  ASSUME TypeOK, Look
  PROVE  LET c == Looked(meshes, standIns, BucketIn(render), render.kind)
             final == MeshIn(meshes, BucketIn(render)).final IN
         /\ render.at = "look" /\ InFrame(render)
         /\ \/ Take(c) /\ (render.kind = "exact" => final)
            \/ /\ render'.at = "prior" /\ render.kind = "exact" /\ SameFrame /\ render'.side = render.side
               /\ render'.fresh = render.fresh /\ render'.robbed = render.robbed
            \/ /\ render'.at \in {"hand over", "stand in"} /\ render.kind = "interactive" /\ render.side = "own"
               /\ render'.side = "own" /\ render'.own = c /\ render'.partner = render.partner
               /\ render'.index = render.index /\ render'.kind = render.kind
               /\ render'.fresh = render.fresh /\ render'.robbed = render.robbed
  <1>0. IsRender(render)
    BY DEF TypeOK
  <1>. DEFINE c == Looked(meshes, standIns, BucketIn(render), render.kind)
              final == MeshIn(meshes, BucketIn(render)).final
  <1>1. c = Correction(Bucket, render.kind) /\ final = Mesh(Bucket).final
    BY Names
  <1>. HIDE DEF c, final
  <1>2. /\ render.at = "look"
        /\ \/ Take(c) /\ (render.kind = "exact" => final)
           \/ render' = [render EXCEPT !.at = "prior"] /\ render.kind = "exact"
           \/ /\ render.kind = "interactive" /\ render.side = "own"
              /\ \E at \in {"hand over", "stand in"} : render' = [render EXCEPT !.own = c, !.at = at]
    BY <1>1 DEF Look
  <1>3. InFrame(render)
    BY <1>2 DEF InFrame
  <1>4. CASE render' = [render EXCEPT !.at = "prior"] /\ render.kind = "exact"
    BY <1>0, <1>2, <1>3, <1>4 DEF IsRender, SameFrame, c, final
  <1>5. CASE /\ render.kind = "interactive" /\ render.side = "own"
             /\ \E at \in {"hand over", "stand in"} : render' = [render EXCEPT !.own = c, !.at = at]
    <2>1. /\ render'.at \in {"hand over", "stand in"} /\ render'.side = "own" /\ render'.own = c
          /\ render'.partner = render.partner /\ render'.index = render.index /\ render'.kind = render.kind
          /\ render'.fresh = render.fresh /\ render'.robbed = render.robbed
      BY <1>0, <1>5 DEF IsRender
    <2>. QED BY <1>2, <1>3, <1>5, <2>1 DEF c, final
  <1>. QED BY <1>2, <1>3, <1>4, <1>5 DEF c, final

\* The steps of the frame between a look and what it ends in.
LEMMA MiddleThread ==
  ASSUME TypeOK, Prepare \/ Queue \/ StartWorker \/ Prior \/ Fill
  PROVE  /\ SameFrame /\ render'.side = render.side /\ render'.fresh = render.fresh /\ render'.robbed = render.robbed
         /\ InFrame(render) /\ InFrame(render')
         /\ \/ /\ render.at \in {"hand over", "stand in", "queue", "start"}
               /\ render'.at \in {"queue", "start", "finish"}
            \/ render.at = "prior" /\ render'.at = "fill" /\ render'.todo = ToSolve(Bucket)
            \/ /\ render.at = "fill" /\ render'.at = "store" /\ render'.todo = render.todo
               /\ \E frame : render'.job = Job(Head(render.todo), frame, FALSE)
  <1>0. IsRender(render)
    BY DEF TypeOK
  <1>1. CASE Prepare
    <2>1. \E job, at : at \in {"queue", "finish"} /\
             render' \in {[render EXCEPT !.job = job, !.at = at], [render EXCEPT !.at = at]}
      BY <1>1 DEF Prepare
    <2>. QED BY <1>0, <1>1, <2>1 DEF IsRender, SameFrame, InFrame, Prepare
  <1>2. CASE Queue
    <2>1. PICK at \in {"start", "finish"} : at = IF worker.at = "none" THEN "start" ELSE "finish"
      OBVIOUS
    <2>2. render' = [render EXCEPT !.job = None, !.at = at] /\ render.at = "queue"
      BY <1>2, <2>1 DEF Queue
    <2>. QED BY <1>0, <2>1, <2>2 DEF IsRender, SameFrame, InFrame
  <1>3. CASE StartWorker
    BY <1>0, <1>3 DEF IsRender, SameFrame, InFrame, StartWorker
  <1>4. CASE Prior
    BY <1>0, <1>4 DEF IsRender, SameFrame, InFrame, Prior
  <1>5. CASE Fill
    <2>1. \E frame, result : render' = [render EXCEPT !.job = Job(Head(render.todo), frame, FALSE),
                                                      !.result = result, !.at = "store"]
      BY <1>5 DEF Fill
    <2>. QED BY <1>0, <1>5, <2>1 DEF IsRender, SameFrame, InFrame, Fill
  <1>. QED BY <1>1, <1>2, <1>3, <1>4, <1>5

\* The steps between the frames, and to the first look.
LEMMA OuterThread ==
  ASSUME TypeOK, (\E i \in Frames, kind \in Kinds : Ask(i, kind)) \/ Quiet \/ Quieted \/ Finish
  PROVE  ~InFrame(render') /\ (render'.at = "sync" => render'.partner = Unknown) /\ (render'.robbed => render'.at = "join")
         /\ (render'.robbed => render.robbed /\ ~(render'.fresh /\ ~render.fresh))
  <1>0. IsRender(render)
    BY DEF TypeOK
  <1>1. CASE \E i \in Frames, kind \in Kinds : Ask(i, kind)
    BY <1>1 DEF Ask, Idle, InFrame
  <1>2. CASE Quiet
    BY <1>0, <1>2 DEF Quiet, InFrame, IsRender
  <1>3. CASE Quieted
    BY <1>3 DEF Quieted, Moves, Idle, InFrame
  <1>4. CASE Finish
    BY <1>4 DEF Finish, Idle, InFrame
  <1>. QED BY <1>1, <1>2, <1>3, <1>4

\* The buckets are looked at in turn, whatever happens.
LEMMA SidesStep ==
  ASSUME PInv, [Next]_vars PROVE SidesInTurn(render)'
  <1>0. TypeOK /\ IsRender(render) /\ SidesInTurn(render)
    BY DEF PInv, TypeOK
  <1>1. CASE (\E i \in Frames, kind \in Kinds : Ask(i, kind)) \/ Quiet \/ Quieted \/ Finish
    BY <1>0, <1>1, OuterThread DEF SidesInTurn
  <1>2. CASE Sync
    <2>1. Own(render') = Own(render) /\ render'.at = "look" /\ render'.partner = Unknown
      BY <1>0, <1>2, SyncThread DEF SidesInTurn, SameFrame, Own
    <2>2. Own(render) = 0 => render'.side = "own"
      BY <1>0, <1>2, SyncThread
    <2>. QED BY <2>1, <2>2 DEF SidesInTurn, OwnDone
  <1>3. ASSUME NEW c, Take(c), InFrame(render) PROVE SidesInTurn(render)'
    BY <1>0, <1>3, TakeThread DEF SidesInTurn, Own, InFrame, OwnDone
  <1>4. CASE Look
    <2>1. CASE \E c : Take(c)
      BY <1>0, <1>3, <1>4, <2>1, LookThread
    <2>2. CASE ~\E c : Take(c)
      BY <1>0, <1>4, <2>2, LookThread DEF SidesInTurn, SameFrame, Own, InFrame, OwnDone
    <2>. QED BY <2>1, <2>2
  <1>5. CASE Prepare \/ Queue \/ StartWorker \/ Prior \/ Fill
    BY <1>0, <1>5, MiddleThread DEF SidesInTurn, SameFrame, Own, InFrame, OwnDone
  <1>6. CASE StoreNow
    BY <1>0, <1>6, StoreNowThread DEF SidesInTurn, SameFrame, Own, InFrame, OwnDone
  <1>7. CASE LookAgain
    BY <1>3, <1>7 DEF LookAgain, InFrame
  <1>8. CASE StoreSolved
    BY <1>0, <1>8, StoreSolvedThread DEF SidesInTurn, SameFrame, Own, InFrame, OwnDone
  <1>9. CASE SetPrefs \/ TakeJob \/ Solve \/ WorkerExit \/ UNCHANGED vars
    BY <1>0, <1>9, ElseThread DEF SidesInTurn, SameFrame, Own, InFrame, OwnDone
  <1>. QED BY <1>1, <1>2, <1>4, <1>5, <1>6, <1>7, <1>8, <1>9 DEF Next, Render, Worker

\* A look takes for final what the sequence would give.
LEMMA LookedRight ==
  ASSUME PInv, failures = 0, NEW b, NEW kind,
         Looked(meshes, standIns, b, kind).known, ~Looked(meshes, standIns, b, kind).standIn
  PROVE  Looked(meshes, standIns, b, kind).grid = FinalIn(b, generation)
  <1>1. MeshIn(meshes, b).final
    BY DEF Looked, Unknown
  <1>2. b \in DOMAIN meshes /\ MeshIn(meshes, b) = meshes[b]
    BY <1>1 DEF MeshIn, NoMesh
  <1>3. meshes[b].field = FinalIn(b, generation)
    BY <1>1, <1>2 DEF PInv, MeshesRight
  <1>. QED BY <1>1, <1>2, <1>3 DEF Looked

\* What the frame takes for final stays so.
LEMMA TakenStep ==
  ASSUME PInv, [Next]_vars, TypeOK' PROVE TakenRight(render, generation, failures)'
  <1>0. /\ TypeOK /\ IsRender(render) /\ SidesInTurn(render) /\ TakenRight(render, generation, failures)
        /\ failures \in Nat /\ failures' \in Nat
    BY DEF PInv, TypeOK
  <1>1. SUFFICES ASSUME failures' = 0, InFrame(render')
                 PROVE  /\ render'.side = "own" /\ render'.partner.known /\ ~render'.partner.standIn
                              => render'.partner.grid = FinalIn(Own(render') - 1, generation')
                        /\ OwnDone(render') /\ render'.own.known /\ ~render'.own.standIn
                              => render'.own.grid = FinalIn(Own(render'), generation')
    BY DEF TakenRight
  <1>2. failures = 0
    BY <1>0, <1>1, CacheStep
  <1>3. ASSUME SameFrame, render'.side = render.side, OwnDone(render') => OwnDone(render), InFrame(render),
               UNCHANGED generation
        PROVE  TakenRight(render, generation, failures)'
    BY <1>0, <1>2, <1>3 DEF TakenRight, SameFrame, Own
  <1>4. ASSUME NEW kind, Take(Looked(meshes, standIns, BucketIn(render), kind)), InFrame(render), ~OwnDone(render),
               UNCHANGED generation
        PROVE  TakenRight(render, generation, failures)'
    <2>. DEFINE c == Looked(meshes, standIns, BucketIn(render), kind)
    <2>1. c.known /\ ~c.standIn => c.grid = FinalIn(BucketIn(render), generation)
      BY <1>2, LookedRight
    <2>. HIDE DEF c
    <2>2. CASE render.side = "partner"
      <3>1. /\ render'.side = "own" /\ render'.partner = c /\ render'.at = "look"
            /\ Own(render') = Own(render) /\ BucketIn(render) = Own(render) - 1
        BY <1>0, <1>4, <2>2, TakeThread DEF Own, BucketIn, c
      <3>. QED BY <1>4, <2>1, <3>1 DEF TakenRight, OwnDone
    <2>3. CASE render.side = "own"
      <3>1. /\ render'.side = "own" /\ render'.own = c /\ render'.partner = render.partner
            /\ Own(render') = Own(render) /\ BucketIn(render) = Own(render)
        BY <1>0, <1>4, <2>3, TakeThread DEF Own, BucketIn, c
      <3>. QED BY <1>0, <1>2, <1>4, <2>1, <2>3, <3>1 DEF TakenRight
    <2>. QED BY <1>0, <2>2, <2>3 DEF IsRender
  <1>5. CASE (\E i \in Frames, kind \in Kinds : Ask(i, kind)) \/ Quiet \/ Quieted \/ Finish
    BY <1>0, <1>1, <1>5, OuterThread
  <1>6. CASE Sync
    <2>1. /\ Own(render') = Own(render) /\ render'.at = "look" /\ render'.partner = Unknown
      BY <1>0, <1>6, SyncThread DEF SidesInTurn, SameFrame, Own
    <2>. QED BY <2>1 DEF OwnDone, Unknown
  <1>7. CASE Look
    <2>. DEFINE c == Looked(meshes, standIns, BucketIn(render), render.kind)
    <2>1. render.at = "look" /\ InFrame(render) /\ ~OwnDone(render) /\ UNCHANGED generation
      BY <1>0, <1>7, LookThread DEF OwnDone, Look
    <2>2. CASE Take(c)
      BY <1>1, <1>4, <2>1, <2>2 DEF TakenRight
    <2>3. CASE render'.at = "prior" /\ SameFrame /\ render'.side = render.side
      BY <1>1, <1>3, <2>1, <2>3 DEF OwnDone, TakenRight
    <2>4. CASE /\ render.side = "own" /\ render'.side = "own" /\ render'.own = c
               /\ render'.partner = render.partner /\ render'.index = render.index
      <3>1. Own(render') = Own(render) /\ BucketIn(render) = Own(render)
        BY <2>4 DEF Own, BucketIn
      <3>2. c.known /\ ~c.standIn => c.grid = FinalIn(BucketIn(render), generation)
        BY <1>2, LookedRight
      <3>. HIDE DEF c
      <3>. QED BY <1>0, <1>2, <2>1, <2>4, <3>1, <3>2 DEF TakenRight
    <2>. QED BY <1>0, <1>7, <2>2, <2>3, <2>4, LookThread
  <1>8. CASE Prepare \/ Queue \/ StartWorker \/ Prior \/ Fill
    <2>1. UNCHANGED generation
      BY <1>8 DEF Prepare, Queue, StartWorker, Prior, Fill
    <2>2. SameFrame /\ render'.side = render.side /\ InFrame(render) /\ (OwnDone(render') => OwnDone(render))
      BY <1>0, <1>8, MiddleThread DEF OwnDone
    <2>. QED BY <1>1, <1>3, <2>1, <2>2 DEF TakenRight
  <1>9. CASE StoreNow
    <2>1. UNCHANGED generation /\ SameFrame /\ render'.side = render.side /\ InFrame(render) /\ ~OwnDone(render')
      BY <1>0, <1>9, StoreNowThread DEF StoreNow, InFrame, OwnDone
    <2>. QED BY <1>1, <1>3, <2>1 DEF TakenRight
  <1>10. CASE LookAgain
    <2>1. Take(Looked(meshes, standIns, BucketIn(render), "exact")) /\ InFrame(render) /\ ~OwnDone(render)
          /\ UNCHANGED generation
      BY <1>0, <1>10, Names DEF LookAgain, InFrame, OwnDone
    <2>. QED BY <1>1, <1>4, <2>1 DEF TakenRight
  <1>11. CASE StoreSolved
    <2>1. UNCHANGED generation /\ SameFrame /\ render'.side = render.side /\ render'.at = render.at
      BY <1>0, <1>11, StoreSolvedThread DEF StoreSolved
    <2>. QED BY <1>1, <1>3, <2>1 DEF TakenRight, InFrame, OwnDone
  <1>12. CASE SetPrefs
    <2>1. render'.at = "idle"
      BY <1>0, <1>12, ElseThread DEF SetPrefs
    <2>. QED BY <1>1, <2>1 DEF InFrame
  <1>13. CASE TakeJob \/ Solve \/ WorkerExit \/ UNCHANGED vars
    <2>1. UNCHANGED generation /\ SameFrame /\ render'.side = render.side /\ render'.at = render.at
      BY <1>0, <1>13, ElseThread DEF TakeJob, Solve, WorkerExit, vars
    <2>. QED BY <1>1, <1>3, <2>1 DEF TakenRight, InFrame, OwnDone
  <1>. QED BY <1>5, <1>6, <1>7, <1>8, <1>9, <1>10, <1>11, <1>12, <1>13 DEF Next, Render, Worker

\* Storing undoes no field that is final, but those that are trimmed.
LEMMA StoreKeeps ==
  ASSUME TypeOK, NEW job, NEW result, NEW thread, JobIsRight(job, generation, failures), Store(job, result, thread),
         NEW b \in DOMAIN meshes', MeshIn(meshes, b).final
  PROVE  MeshIn(meshes', b).final
  <1>1. CASE UNCHANGED meshes
    BY <1>1 DEF MeshIn
  <1>2. CASE Current(job) /\ ~job.standIn
    <2>1. /\ \A d \in DOMAIN meshes' : d # job.bucket => d \in DOMAIN meshes /\ meshes'[d] = meshes[d]
          /\ meshes'[job.bucket].final = (Mesh(job.bucket).final \/ job.finalizes)
      BY <1>2, StoreStores
    <2>. QED BY <2>1, Names DEF MeshIn
  <1>3. CASE ~(Current(job) /\ ~job.standIn)
    <2>1. UNCHANGED meshes
      BY <1>3, StoreStores
    <2>. QED BY <1>1, <2>1
  <1>. QED BY <1>2, <1>3

\* An exact frame goes on to the final fields of its buckets.
LEMMA ExactStep ==
  ASSUME PInv, [Next]_vars, TypeOK' PROVE ExactGoesOn(render, meshes, generation)'
  <1>0. /\ TypeOK /\ IsRender(render) /\ SidesInTurn(render) /\ ExactGoesOn(render, meshes, generation)
    BY DEF PInv, TypeOK
  <1>1. SUFFICES ASSUME InFrame(render'), render'.kind = "exact" PROVE ExactGoesOn(render, meshes, generation)'
    BY DEF ExactGoesOn
  <1>b. InFrame(render) => Own(render) \in Nat /\ BucketIn(render) \in Nat
    BY <1>0, BucketTyped
  <1>2. CASE (\E i \in Frames, kind \in Kinds : Ask(i, kind)) \/ Quiet \/ Quieted \/ Finish
    BY <1>0, <1>1, <1>2, OuterThread
  <1>3. CASE Sync
    <2>1. /\ Own(render') = Own(render) /\ render'.at = "look" /\ render'.partner = Unknown
      BY <1>0, <1>3, SyncThread DEF SidesInTurn, SameFrame, Own
    <2>2. render'.side = "own" => ~(Own(render') > 0)
      <3>1. Own(render) > 0 => render'.side = "partner"
        BY <1>0, <1>3, SyncThread
      <3>. QED BY <2>1, <3>1
    <2>3. ~render'.partner.standIn
      BY <2>1 DEF Unknown
    <2>. QED BY <2>1, <2>2, <2>3 DEF ExactGoesOn
  <1>4. ASSUME NEW c, Take(c), InFrame(render), render.kind = "exact", ~c.standIn, ~render.robbed => c.known
        PROVE  ExactGoesOn(render, meshes, generation)'
    <2>1. CASE render.side = "partner"
      <3>1. /\ render'.at = "look" /\ render'.partner = c
        BY <1>0, <1>4, <2>1, TakeThread
      <3>2. render'.robbed = render.robbed
        BY <1>0, <1>4, TakeThread
      <3>. QED BY <1>4, <3>1, <3>2 DEF ExactGoesOn
    <2>2. CASE render.side = "own"
      <3>1. /\ render'.at = "finish" /\ render'.own = c /\ render'.partner = render.partner /\ render'.side = "own"
            /\ render'.robbed = render.robbed
        BY <1>0, <1>4, <2>2, TakeThread
      <3>2. Own(render') = Own(render)
        BY <1>0, <1>4, TakeThread DEF Own
      <3>. QED BY <1>0, <1>4, <2>2, <3>1, <3>2 DEF ExactGoesOn
    <2>. QED BY <1>0, <2>1, <2>2 DEF IsRender
  <1>5. CASE Look
    <2>. DEFINE c == Looked(meshes, standIns, BucketIn(render), render.kind)
                final == MeshIn(meshes, BucketIn(render)).final
    <2>1. InFrame(render)
      BY <1>0, <1>5, LookThread
    <2>2. CASE Take(c) /\ (render.kind = "exact" => final)
      <3>1. render.kind = "exact"
        BY <1>0, <1>1, <2>2, TakeThread
      <3>2. c.known /\ ~c.standIn
        BY <2>2, <3>1 DEF Looked
      <3>. HIDE DEF c
      <3>. QED BY <1>4, <2>1, <2>2, <3>1, <3>2
    <2>3. CASE render'.at = "prior" /\ SameFrame /\ render'.side = render.side /\ render'.robbed = render.robbed
      BY <1>0, <1>1, <2>1, <2>3 DEF ExactGoesOn, SameFrame, Own
    <2>4. CASE render.kind = "interactive" /\ render'.kind = render.kind
      BY <1>1, <2>4
    <2>. QED BY <1>0, <1>5, <2>2, <2>3, <2>4, LookThread
  <1>6. CASE Prepare \/ Queue \/ StartWorker \/ Prior \/ Fill
    <2>1. /\ SameFrame /\ render'.side = render.side /\ render'.robbed = render.robbed /\ InFrame(render)
          /\ render.kind = "exact"
      BY <1>0, <1>1, <1>6, MiddleThread DEF SameFrame
    <2>2. Own(render') = Own(render) /\ BucketIn(render') = BucketIn(render)
      BY <2>1 DEF SameFrame, Own, BucketIn
    <2>3. UNCHANGED <<meshes, generation>>
      BY <1>6 DEF Prepare, Queue, StartWorker, Prior, Fill
    <2>4. /\ render.side = "own" => ~render.partner.standIn
          /\ ~render.robbed => ((render.side = "own" /\ Own(render) > 0) => render.partner.known)
      BY <1>0, <2>1 DEF ExactGoesOn
    <2>5. CASE render.at = "prior" /\ render'.at = "fill" /\ render'.todo = ToSolve(Bucket)
      <3>. DEFINE b == BucketIn(render)
      <3>1. b \in Nat /\ Bucket = b /\ (HasPrior(b) <=> b = 0 \/ b - 1 \in DOMAIN meshes)
        BY <1>0, <1>b, <2>1, Names
      <3>. HIDE DEF b
      <3>2. CASE HasPrior(b)
        <4>1. render'.todo = <<b>>
          BY <2>5, <3>1, <3>2 DEF ToSolve
        <4>2. b > 0 => b - 1 \in DOMAIN meshes
          BY <3>1, <3>2
        <4>. QED BY <2>1, <2>2, <2>3, <2>4, <2>5, <4>1, <4>2 DEF ExactGoesOn, SameFrame, b
      <3>3. CASE ~HasPrior(b)
        <4>1. render'.todo = <<b - 1, b>> /\ b > 0
          BY <2>5, <3>1, <3>3 DEF ToSolve
        <4>2. render'.todo # <<b>>
          BY <4>1
        <4>. QED BY <2>1, <2>2, <2>3, <2>4, <2>5, <4>1, <4>2 DEF ExactGoesOn, SameFrame, b
      <3>. QED BY <3>2, <3>3
    <2>6. CASE /\ render.at = "fill" /\ render'.at = "store" /\ render'.todo = render.todo
               /\ \E frame : render'.job = Job(Head(render.todo), frame, FALSE)
      <3>1. PICK h : h = Head(render.todo)
        OBVIOUS
      <3>2. /\ render'.job.bucket = h /\ ~render'.job.standIn /\ render'.job.gen = generation
            /\ HasPrior(h) => render'.job.finalizes
        <4>1. PICK frame : render'.job = Job(h, frame, FALSE)
          BY <2>6, <3>1
        <4>2. ASSUME NEW standIn \in BOOLEAN
              PROVE  LET j == Job(h, frame, standIn) IN
                     /\ j.bucket = h /\ j.standIn = standIn /\ j.gen = generation
                     /\ j.finalizes = (~standIn /\ HasPrior(h))
          BY <4>2 DEF Job
        <4>3. PICK j : j = Job(h, frame, FALSE)
          OBVIOUS
        <4>4. j.bucket = h /\ j.standIn = FALSE /\ j.gen = generation /\ j.finalizes = (~FALSE /\ HasPrior(h))
          BY <4>2, <4>3
        <4>5. render'.job = j
          BY <4>1, <4>3, Zenon
        <4>. QED BY <4>4, <4>5
      <3>3. \/ render.todo = <<BucketIn(render)>>
            \/ BucketIn(render) > 0 /\ render.todo = <<BucketIn(render) - 1, BucketIn(render)>>
        BY <1>0, <2>1, <2>6 DEF ExactGoesOn
      <3>4. ASSUME ~render.robbed, render.todo = <<BucketIn(render)>> PROVE render'.job.finalizes
        <4>1. BucketIn(render) > 0 => BucketIn(render) - 1 \in DOMAIN meshes
          BY <1>0, <2>1, <2>6, <3>4 DEF ExactGoesOn
        <4>2. h = BucketIn(render) /\ h \in Nat
          BY <1>b, <2>1, <3>1, <3>4
        <4>3. HasPrior(h)
          BY <1>0, <4>1, <4>2, Names
        <4>. QED BY <3>2, <4>3
      <3>. QED BY <2>1, <2>2, <2>3, <2>4, <2>6, <3>1, <3>2, <3>3, <3>4 DEF ExactGoesOn, SameFrame
    <2>7. CASE render.at \in {"hand over", "stand in", "queue", "start"}
      BY <1>0, <2>1, <2>7 DEF SidesInTurn
    <2>. QED BY <1>0, <1>6, <2>5, <2>6, <2>7, MiddleThread
  <1>7. CASE StoreNow
    <2>1. /\ SameFrame /\ render'.side = render.side /\ render'.robbed = render.robbed /\ InFrame(render)
          /\ render.at = "store" /\ render'.at = (IF Len(render.todo) > 1 THEN "fill" ELSE "again")
          /\ render'.todo = Tail(render.todo) /\ render.kind = "exact"
      BY <1>0, <1>1, <1>7, StoreNowThread DEF SameFrame, InFrame
    <2>2. Own(render') = Own(render) /\ BucketIn(render') = BucketIn(render) /\ BucketIn(render) \in Nat
      BY <1>b, <2>1 DEF SameFrame, Own, BucketIn
    <2>3. /\ render.side = "own" => ~render.partner.standIn
          /\ ~render.robbed => ((render.side = "own" /\ Own(render) > 0) => render.partner.known)
          /\ render.job.bucket = Head(render.todo) /\ ~render.job.standIn /\ render.job.gen = generation
          /\ (~render.robbed /\ render.todo = <<BucketIn(render)>>) => render.job.finalizes
          /\ \/ render.todo = <<BucketIn(render)>>
             \/ BucketIn(render) > 0 /\ render.todo = <<BucketIn(render) - 1, BucketIn(render)>>
      BY <1>0, <2>1 DEF ExactGoesOn
    <2>4. Current(render.job)
      BY <1>0, <2>1, <2>3 DEF Current, TypeOK
    <2>5. JobIsRight(render.job, generation, failures)
      BY <2>1 DEF PInv, JobsRight
    <2>6. /\ render.job.bucket \in DOMAIN meshes'
          /\ meshes'[render.job.bucket].final = (Mesh(render.job.bucket).final \/ render.job.finalizes)
      BY <1>0, <1>7, <2>3, <2>4, <2>5, StoreStores, StoreNowThread
    <2>7. CASE render.todo = <<BucketIn(render)>>
      <3>1. render'.at = "again" /\ render.job.bucket = BucketIn(render)
        BY <2>1, <2>2, <2>3, <2>7
      <3>2. ~render.robbed => MeshIn(meshes', BucketIn(render)).final
        BY <2>3, <2>6, <2>7, <3>1 DEF MeshIn
      <3>. QED BY <2>1, <2>2, <2>3, <3>1, <3>2 DEF ExactGoesOn, SameFrame
    <2>8. CASE BucketIn(render) > 0 /\ render.todo = <<BucketIn(render) - 1, BucketIn(render)>>
      <3>1. render'.at = "fill" /\ render.job.bucket = BucketIn(render) - 1 /\ render'.todo = <<BucketIn(render)>>
        BY <2>1, <2>2, <2>3, <2>8
      <3>2. BucketIn(render) - 1 \in DOMAIN meshes'
        BY <2>6, <3>1
      <3>. QED BY <2>1, <2>2, <2>3, <3>1, <3>2 DEF ExactGoesOn, SameFrame
    <2>. QED BY <2>3, <2>7, <2>8
  <1>8. CASE LookAgain
    <2>. DEFINE c == Looked(meshes, standIns, BucketIn(render), "exact")
    <2>1. Take(c) /\ render.at = "again" /\ InFrame(render)
      BY <1>0, <1>8, Names DEF LookAgain, InFrame
    <2>2. render.kind = "exact"
      BY <1>0, <2>1 DEF SidesInTurn
    <2>3. ~c.standIn /\ (MeshIn(meshes, BucketIn(render)).final => c.known)
      BY DEF Looked, Unknown
    <2>4. ~render.robbed => c.known
      BY <1>0, <2>1, <2>2, <2>3 DEF ExactGoesOn
    <2>. HIDE DEF c
    <2>. QED BY <1>4, <2>1, <2>2, <2>3, <2>4
  <1>9. CASE StoreSolved
    <2>1. /\ SameFrame /\ SameJob /\ render'.side = render.side /\ render'.at = render.at
          /\ render'.robbed = (render.robbed \/ Robs) /\ UNCHANGED generation /\ InFrame(render) /\ render.kind = "exact"
      BY <1>0, <1>1, <1>9, StoreSolvedThread DEF StoreSolved, SameFrame, InFrame
    <2>2. Own(render') = Own(render) /\ BucketIn(render') = BucketIn(render)
      BY <2>1 DEF SameFrame, Own, BucketIn
    <2>3. PICK thread : Store(worker.job, worker.result, thread) /\ JobIsRight(worker.job, generation, failures)
      BY <1>0, <1>9, StoreSolvedThread DEF StoreSolved, PInv, JobsRight
    <2>4. ASSUME ~render'.robbed PROVE ~render.robbed /\ \A b \in DOMAIN meshes : b \in DOMAIN meshes'
      BY <2>1, <2>4 DEF Robs
    <2>5. ASSUME ~render'.robbed, MeshIn(meshes, BucketIn(render)).final
          PROVE  MeshIn(meshes', BucketIn(render)).final
      <3>1. BucketIn(render) \in DOMAIN meshes
        BY <2>5 DEF MeshIn, NoMesh
      <3>. QED BY <1>0, <2>3, <2>4, <2>5, <3>1, StoreKeeps
    <2>6. CASE render'.robbed
      BY <1>0, <2>1, <2>2, <2>6 DEF ExactGoesOn, SameFrame, SameJob
    <2>7. CASE ~render'.robbed
      BY <1>0, <2>1, <2>2, <2>4, <2>5, <2>7 DEF ExactGoesOn, SameFrame, SameJob
    <2>. QED BY <2>6, <2>7
  <1>10. CASE SetPrefs
    <2>1. render'.at = "idle"
      BY <1>0, <1>10, ElseThread DEF SetPrefs
    <2>. QED BY <1>1, <2>1 DEF InFrame
  <1>11. CASE TakeJob \/ Solve \/ WorkerExit \/ UNCHANGED vars
    <2>1. UNCHANGED <<meshes, generation, render>>
      BY <1>11 DEF TakeJob, Solve, WorkerExit, vars
    <2>. QED BY <1>0, <2>1
  <1>. QED BY <1>2, <1>3, <1>5, <1>6, <1>7, <1>8, <1>9, <1>10, <1>11 DEF Next, Render, Worker

\* What was taken is what a new look would take, as long as nothing lands.
LEMMA FreshStep ==
  ASSUME PInv, [Next]_vars, TypeOK' PROVE TakenFresh(render, meshes, standIns)'
  <1>0. /\ TypeOK /\ IsRender(render) /\ SidesInTurn(render) /\ TakenFresh(render, meshes, standIns)
    BY DEF PInv, TypeOK
  <1>1. ASSUME NEW c, Take(c), render.kind # "exact" => c = Looked(meshes, standIns, BucketIn(render), render.kind),
               InFrame(render), UNCHANGED <<meshes, standIns>>
        PROVE  TakenFresh(render, meshes, standIns)'
    <2>1. /\ Own(render') = Own(render) /\ render'.kind = render.kind /\ render'.fresh = render.fresh
          /\ render'.robbed = render.robbed /\ render'.side = "own"
      BY <1>0, <1>1, TakeThread DEF Own
    <2>2. CASE render.side = "partner"
      <3>1. render'.at = "look" /\ render'.partner = c /\ BucketIn(render) = Own(render) - 1
        BY <1>0, <1>1, <2>2, TakeThread DEF BucketIn
      <3>. QED BY <1>0, <1>1, <2>1, <3>1 DEF TakenFresh, OwnDone
    <2>3. CASE render.side = "own"
      <3>1. render'.own = c /\ render'.partner = render.partner /\ BucketIn(render) = Own(render)
        BY <1>0, <1>1, <2>3, TakeThread DEF BucketIn
      <3>. QED BY <1>0, <1>1, <2>1, <2>3, <3>1 DEF TakenFresh
    <2>. QED BY <1>0, <2>2, <2>3 DEF IsRender
  <1>2. CASE (\E i \in Frames, kind \in Kinds : Ask(i, kind)) \/ Quiet \/ Quieted \/ Finish
    <2>1. ~InFrame(render') /\ (render'.robbed => render.robbed /\ ~(render'.fresh /\ ~render.fresh))
      BY <1>0, <1>2, OuterThread
    <2>. QED BY <1>0, <2>1 DEF TakenFresh
  <1>3. CASE Sync
    <2>1. /\ Own(render') = Own(render) /\ render'.at = "look" /\ render'.robbed = render.robbed
          /\ (render'.fresh => render.fresh)
      BY <1>0, <1>3, SyncThread DEF SameFrame, Own
    <2>2. render'.side = "own" => ~(Own(render') > 0)
      <3>1. Own(render) > 0 => render'.side = "partner"
        BY <1>0, <1>3, SyncThread
      <3>. QED BY <2>1, <3>1
    <2>. QED BY <1>0, <2>1, <2>2 DEF TakenFresh, OwnDone
  <1>4. CASE Look
    <2>. DEFINE c == Looked(meshes, standIns, BucketIn(render), render.kind)
    <2>1. InFrame(render) /\ render.at = "look"
      BY <1>0, <1>4, LookThread
    <2>2. UNCHANGED <<meshes, standIns>>
      BY <1>4 DEF Look
    <2>3. CASE Take(c)
      BY <1>1, <2>1, <2>2, <2>3
    <2>4. CASE /\ render'.at = "prior" /\ render.kind = "exact" /\ SameFrame
               /\ render'.fresh = render.fresh /\ render'.robbed = render.robbed
      BY <1>0, <2>4 DEF TakenFresh, SameFrame
    <2>5. CASE /\ render'.at \in {"hand over", "stand in"} /\ render.kind = "interactive" /\ render.side = "own"
               /\ render'.side = "own" /\ render'.own = c /\ render'.partner = render.partner
               /\ render'.index = render.index /\ render'.kind = render.kind
               /\ render'.fresh = render.fresh /\ render'.robbed = render.robbed
      <3>1. Own(render') = Own(render) /\ BucketIn(render) = Own(render)
        BY <2>5 DEF Own, BucketIn
      <3>. HIDE DEF c
      <3>2. render'.own = c /\ c = Looked(meshes', standIns', Own(render'), render'.kind)
        BY <2>2, <2>5, <3>1 DEF c
      <3>. QED BY <1>0, <2>1, <2>2, <2>5, <3>1, <3>2 DEF TakenFresh
    <2>. QED BY <1>0, <1>4, <2>3, <2>4, <2>5, LookThread
  <1>5. CASE Prepare \/ Queue \/ StartWorker \/ Prior \/ Fill
    <2>1. /\ SameFrame /\ render'.side = render.side /\ render'.fresh = render.fresh /\ render'.robbed = render.robbed
          /\ InFrame(render) /\ (OwnDone(render') => OwnDone(render))
      BY <1>0, <1>5, MiddleThread DEF OwnDone
    <2>2. UNCHANGED <<meshes, standIns>>
      BY <1>5 DEF Prepare, Queue, StartWorker, Prior, Fill
    <2>. QED BY <1>0, <2>1, <2>2 DEF TakenFresh, SameFrame, Own
  <1>6. CASE StoreNow
    <2>1. /\ render'.kind = render.kind /\ render.kind = "exact" /\ render'.robbed = render.robbed
          /\ (render'.fresh => render.fresh)
      BY <1>0, <1>6, StoreNowThread DEF SidesInTurn, SameFrame, InFrame, StoreMoves
    <2>. QED BY <1>0, <2>1 DEF TakenFresh
  <1>7. CASE LookAgain
    <2>1. Take(Correction(Bucket, "exact")) /\ render.at = "again" /\ InFrame(render) /\ UNCHANGED <<meshes, standIns>>
      BY <1>7 DEF LookAgain, InFrame
    <2>2. render.kind = "exact"
      BY <1>0, <2>1 DEF SidesInTurn
    <2>. QED BY <1>1, <2>1, <2>2
  <1>8. CASE StoreSolved
    <2>1. /\ SameFrame /\ render'.side = render.side /\ render'.at = render.at
          /\ render'.robbed = (render.robbed \/ Robs) /\ StoreMoves(worker.job)
      BY <1>0, <1>8, StoreSolvedThread
    <2>2. CASE Current(worker.job)
      BY <2>1, <2>2 DEF StoreMoves, TakenFresh
    <2>3. CASE ~Current(worker.job)
      <3>1. UNCHANGED <<meshes, standIns>> /\ render'.fresh = render.fresh
        BY <2>1, <2>3 DEF StoreMoves
      <3>2. render'.robbed => render.robbed
        BY <2>1, <3>1 DEF Robs
      <3>. QED BY <1>0, <2>1, <3>1, <3>2 DEF TakenFresh, SameFrame, Own, InFrame, OwnDone
    <2>. QED BY <2>2, <2>3
  <1>9. CASE SetPrefs
    <2>1. render'.at = "idle" /\ render'.robbed = render.robbed /\ (render'.fresh => render.fresh)
      BY <1>0, <1>9, ElseThread DEF SetPrefs
    <2>. QED BY <1>0, <2>1 DEF TakenFresh, InFrame
  <1>10. CASE TakeJob \/ Solve \/ WorkerExit \/ UNCHANGED vars
    <2>1. UNCHANGED <<meshes, standIns, render>>
      BY <1>10 DEF TakeJob, Solve, WorkerExit, vars
    <2>. QED BY <1>0, <2>1
  <1>. QED BY <1>2, <1>3, <1>4, <1>5, <1>6, <1>7, <1>8, <1>9, <1>10 DEF Next, Render, Worker

-----------------------------------------------------------------------------
(* The frame rendered last. *)

\* Ended, an exact frame no store took a field from is exact.
LEMMA EndsExact ==
  ASSUME PInv, render.at = "finish", render.kind = "exact", ~render.robbed
  PROVE  /\ Exact(render.index, render.kind, render.partner, render.own)
         /\ Own(render) > 0 => render.partner.known
  <1>1. render.side = "own" /\ InFrame(render)
    BY DEF PInv, SidesInTurn, InFrame, OwnDone
  <1>2. /\ ~render.partner.standIn /\ ~render.own.standIn /\ render.own.known
        /\ Own(render) > 0 => render.partner.known
    BY <1>1 DEF PInv, ExactGoesOn
  <1>. QED BY <1>2 DEF Exact

\* What a frame ends as.
LEMMA FinishFrame ==
  ASSUME PInv, Finish
  PROVE  /\ lastFrame'.index = render.index /\ lastFrame'.draft = (render.kind = "draft")
         /\ lastFrame'.fresh = render.fresh /\ lastFrame'.robbed = render.robbed
         /\ lastFrame'.exact = Exact(render.index, render.kind, render.partner, render.own)
         /\ lastFrame'.shows = Shows(render.index, render.partner, render.own)
         /\ render.side = "own" /\ InFrame(render) /\ OwnDone(render) /\ Own(render) \in Nat
         /\ UNCHANGED <<meshes, standIns, generation, failures>>
  <1>1. render.at = "finish" /\ UNCHANGED <<meshes, standIns, generation, failures>>
    BY DEF Finish
  <1>2. OwnDone(render) /\ InFrame(render)
    BY <1>1 DEF OwnDone, InFrame
  <1>3. render.side = "own" /\ Own(render) \in Nat
    BY <1>2, BucketTyped DEF PInv, SidesInTurn
  <1>4. PICK draft, exact, shows :
           /\ draft = (render.kind = "draft")
           /\ exact = Exact(render.index, render.kind, render.partner, render.own)
           /\ shows = Shows(render.index, render.partner, render.own)
    OBVIOUS
  <1>5. lastFrame' = [index |-> render.index, draft |-> draft, fresh |-> render.fresh, robbed |-> render.robbed,
                      exact |-> exact, shows |-> shows]
    BY <1>4 DEF Finish
  <1>. QED BY <1>1, <1>2, <1>3, <1>4, <1>5

\* The last frame stays, but for its freshness, or is gone.
LEMMA LastStays ==
  ASSUME PInv, [Next]_vars, ~Finish
  PROVE  \/ lastFrame'.index = None /\ ~lastFrame'.exact
         \/ /\ lastFrame'.index = lastFrame.index /\ lastFrame'.draft = lastFrame.draft
            /\ lastFrame'.exact = lastFrame.exact /\ lastFrame'.robbed = lastFrame.robbed
            /\ lastFrame'.shows = lastFrame.shows /\ UNCHANGED generation
            /\ lastFrame'.fresh => lastFrame.fresh /\ UNCHANGED <<meshes, standIns>>
  <1>0. TypeOK /\ IsFrame(lastFrame)
    BY DEF PInv, TypeOK
  <1>1. CASE StoreNow \/ StoreSolved
    <2>1. StoreMoves(render.job) \/ StoreMoves(worker.job)
      BY <1>0, <1>1, StoreNowThread, StoreSolvedThread
    <2>2. UNCHANGED generation
      BY <1>1 DEF StoreNow, StoreSolved
    <2>3. \/ lastFrame' = [lastFrame EXCEPT !.fresh = FALSE]
          \/ UNCHANGED <<meshes, standIns, lastFrame>>
      BY <2>1 DEF StoreMoves
    <2>. QED BY <1>0, <2>2, <2>3 DEF IsFrame
  <1>2. CASE lastFrame'.index = None /\ ~lastFrame'.exact
    BY <1>2
  <1>3. CASE ~(StoreNow \/ StoreSolved) /\ ~(lastFrame'.index = None /\ ~lastFrame'.exact)
    <2>1. UNCHANGED <<meshes, standIns, generation>>
      BY <1>3, CacheStep
    <2>2. UNCHANGED lastFrame
      <3>1. CASE \E i \in Frames, kind \in Kinds : Ask(i, kind)
        BY <1>3, <3>1 DEF Ask, NoFrame
      <3>2. CASE SetPrefs \/ Quieted \/ Sync
        <4>1. generation' = generation + 1 \/ UNCHANGED lastFrame
          BY <3>2 DEF SetPrefs, Quieted, Sync, Reset
        <4>2. generation' # generation + 1
          BY <1>0, <2>1 DEF TypeOK
        <4>. QED BY <4>1, <4>2
      <3>3. CASE ~((\E i \in Frames, kind \in Kinds : Ask(i, kind)) \/ SetPrefs \/ Quieted \/ Sync)
        BY <1>3, <3>3 DEF Next, Render, Worker, Quiet, Look, Prepare, Queue, StartWorker, Prior, Fill, LookAgain,
                          TakeJob, Solve, WorkerExit, vars
      <3>. QED BY <3>1, <3>2, <3>3
    <2>. QED BY <2>1, <2>2
  <1>. QED BY <1>1, <1>2, <1>3

\* An exact frame shows what the sequence would give.
LEMMA LastExactStep ==
  ASSUME PInv, [Next]_vars, TypeOK' PROVE LastExact(lastFrame, generation, failures)'
  <1>0. LastExact(lastFrame, generation, failures) /\ failures \in Nat /\ failures' \in Nat
    BY DEF PInv, TypeOK
  <1>1. failures' = 0 => failures = 0
    BY <1>0, CacheStep
  <1>2. CASE ~Finish
    BY <1>0, <1>1, <1>2, LastStays DEF LastExact, Own
  <1>3. CASE Finish
    <2>1. /\ lastFrame'.index = render.index /\ lastFrame'.robbed = render.robbed
          /\ lastFrame'.exact = Exact(render.index, render.kind, render.partner, render.own)
          /\ lastFrame'.shows = Shows(render.index, render.partner, render.own)
          /\ render.side = "own" /\ InFrame(render) /\ OwnDone(render) /\ Own(render) \in Nat
          /\ UNCHANGED <<meshes, standIns, generation, failures>> /\ render.at = "finish"
      BY <1>3, FinishFrame DEF Finish
    <2>2. SUFFICES ASSUME failures = 0, Exact(render.index, render.kind, render.partner, render.own), ~render.robbed
                   PROVE  Shows(render.index, render.partner, render.own) =
                          IF Own(render) = 0 THEN <<FinalIn(Own(render), generation)>>
                          ELSE <<FinalIn(Own(render) - 1, generation), FinalIn(Own(render), generation)>>
      BY <2>1 DEF LastExact, Own
    <2>3. render.own.known /\ render.own.grid = FinalIn(Own(render), generation)
      BY <2>1, <2>2 DEF PInv, TakenRight, Exact
    <2>4. CASE Own(render) = 0
      BY <2>3, <2>4 DEF Shows, Own
    <2>5. CASE Own(render) # 0
      <3>1. Own(render) > 0
        BY <2>1, <2>5
      <3>2. render.partner.known
        BY <2>1, <2>2, <2>5, <3>1, EndsExact DEF Exact, Own
      <3>3. render.partner.grid = FinalIn(Own(render) - 1, generation)
        BY <2>1, <2>2, <3>2 DEF PInv, TakenRight, Exact
      <3>. QED BY <2>3, <2>5, <3>1, <3>2, <3>3 DEF Shows, Own
    <2>. QED BY <2>4, <2>5
  <1>. QED BY <1>2, <1>3

\* A stand-in that is fresh shows what a new look would.
LEMMA LastFreshStep ==
  ASSUME PInv, [Next]_vars, TypeOK' PROVE LastFresh(lastFrame, meshes, standIns)'
  <1>0. LastFresh(lastFrame, meshes, standIns)
    BY DEF PInv
  <1>1. CASE ~Finish
    BY <1>0, <1>1, LastStays DEF LastFresh, Own, KindOf
  <1>2. CASE Finish
    <2>1. /\ lastFrame'.index = render.index /\ lastFrame'.draft = (render.kind = "draft")
          /\ lastFrame'.fresh = render.fresh
          /\ lastFrame'.exact = Exact(render.index, render.kind, render.partner, render.own)
          /\ lastFrame'.shows = Shows(render.index, render.partner, render.own)
          /\ render.side = "own" /\ InFrame(render) /\ OwnDone(render) /\ Own(render) \in Nat
          /\ UNCHANGED <<meshes, standIns>> /\ render.at = "finish"
      BY <1>2, FinishFrame DEF Finish
    <2>2. SUFFICES ASSUME render.fresh, ~Exact(render.index, render.kind, render.partner, render.own)
                   PROVE  Shows(render.index, render.partner, render.own) =
                          Shows(render.index, IF Own(render) > 0
                                              THEN Looked(meshes, standIns, Own(render) - 1, KindOf(lastFrame'))
                                              ELSE Unknown,
                                Looked(meshes, standIns, Own(render), KindOf(lastFrame')))
      BY <2>1 DEF LastFresh, Own
    <2>3. render.kind # "exact"
      BY <2>1, <2>2, EndsExact DEF PInv, TakenFresh
    <2>4. KindOf(lastFrame') = render.kind
      BY <2>1, <2>3 DEF KindOf, PInv, TypeOK, IsRender, Kinds
    <2>5. render.own = Looked(meshes, standIns, Own(render), render.kind)
      BY <2>1, <2>2, <2>3 DEF PInv, TakenFresh
    <2>6. CASE Own(render) > 0
      BY <2>1, <2>2, <2>3, <2>4, <2>5, <2>6 DEF PInv, TakenFresh
    <2>7. CASE ~(Own(render) > 0)
      <3>1. render.partner = Unknown
        BY <2>1, <2>7 DEF PInv, SidesInTurn
      <3>. QED BY <2>4, <2>5, <2>7, <3>1
    <2>. QED BY <2>6, <2>7
  <1>. QED BY <1>1, <1>2

-----------------------------------------------------------------------------
(* The theorems. *)

\* It starts so.
LEMMA PInvInit == Init => PInv
  <1>. SUFFICES ASSUME Init PROVE PInv
    OBVIOUS
  <1>1. /\ meshes = <<>> /\ standIns = <<>> /\ pending = None /\ generation = 0 /\ failures = 0 /\ stop = FALSE
        /\ lastFrame = NoFrame /\ render = Idle /\ worker = [Asleep EXCEPT !.at = "none"]
    BY DEF Init
  <1>2. TypeOK
    <2>1. IsWorker(worker)
      BY <1>1 DEF IsWorker, Asleep
    <2>2. stop = (render.at = "join") /\ stop \in BOOLEAN
      BY <1>1 DEF Idle
    <2>. QED BY <1>1, <2>1, <2>2, IdleTyped DEF TypeOK
  <1>3. render.at = "idle" /\ worker.at = "none" /\ ~render.robbed /\ ~lastFrame.exact /\ lastFrame.index = None
    BY <1>1 DEF Idle, Asleep, NoFrame
  <1>4. MeshesRight(meshes, generation, failures)
    BY <1>1 DEF MeshesRight
  <1>. QED BY <1>1, <1>2, <1>3, <1>4
       DEF PInv, JobsRight, SidesInTurn, TakenRight, ExactGoesOn, TakenFresh, LastExact, LastFresh, InFrame

\* And stays so, for all frames, buckets, caches and interleavings of the worker with the host's frames.
LEMMA PInvInvariant == Spec => []PInv
  <1>1. Init => PInv
    BY PInvInit
  <1>2. PInv /\ [Next]_vars => PInv'
    <2>. SUFFICES ASSUME PInv, [Next]_vars PROVE PInv'
      OBVIOUS
    <2>1. TypeOK'
      BY TypeStep
    <2>. QED BY <2>1, JobsStep, MeshesStep, SidesStep, TakenStep, ExactStep, FreshStep, LastExactStep, LastFreshStep
         DEF PInv
  <1>. QED BY <1>1, <1>2, PTL DEF Spec

\* The caches, the frame under way, the last one and the worker hold what they
\* are declared to hold, and a quiet is on exactly while it waits for the worker.
THEOREM ParallaxTypeCorrect == Spec => []TypeOK
  <1>1. PInv => TypeOK
    BY DEF PInv
  <1>. QED BY <1>1, PInvInvariant, PTL

\* A final field is the one the sequence of frames gives, and an exact frame
\* shows what an export shows, whatever the worker stores, trims or finds reset
\* in between (storeMeshResult, measureMeshNowLocked, parallaxWorkerLoop).
THEOREM FinalFieldsAreSequential == Spec => []FinalIsSequential
  <1>1. PInv => FinalIsSequential
    <2>. SUFFICES ASSUME PInv, failures = 0 PROVE FinalIsSequential
      BY DEF FinalIsSequential
    <2>1. TypeOK
      BY DEF PInv
    <2>2. \A b \in DOMAIN meshes : /\ meshes[b].alone = Alone(b)
                                   /\ meshes[b].final => meshes[b].field = Sequential(b)
      BY <2>1, Names DEF PInv, MeshesRight
    <2>3. ASSUME lastFrame.exact, ~lastFrame.robbed
          PROVE  LET b == BucketOf(lastFrame.index)
                 IN  lastFrame.shows = IF b = 0 THEN <<Sequential(b)>> ELSE <<Sequential(b - 1), Sequential(b)>>
      BY <2>1, <2>3, Names DEF PInv, LastExact, Own
    <2>. QED BY <2>2, <2>3 DEF FinalIsSequential
  <1>. QED BY <1>1, PInvInvariant, PTL

\* An exact request ends with its bucket and the one before known and final,
\* whatever failed, if the worker's trims took no field from it.
THEOREM ExactRequestsEndFinal == Spec => []ExactIsFinal
  <1>1. PInv => ExactIsFinal
    BY EndsExact, Names DEF PInv, ExactIsFinal
  <1>. QED BY <1>1, PInvInvariant, PTL

\* A stand-in the importer would still serve from its frame cache is what it
\* would render anew (renderFrame's analysis serial).
THEOREM StandInsAreCurrent == Spec => []StandInIsCurrent
  <1>1. PInv => StandInIsCurrent
    BY Names DEF PInv, LastFresh, StandInIsCurrent, Own, KindOf
  <1>. QED BY <1>1, PInvInvariant, PTL

-----------------------------------------------------------------------------
(* UserDefaults: the inductive invariant, in parts. *)

FileStates == [settings : Prefs \cup {None}, blocks : Nat, flushed : BOOLEAN]
CacheStates ==
    [valid : BOOLEAN, stamp : Stamps \cup {None}, value : Prefs \cup {Builtin, Refused, Unread}, misstamped : BOOLEAN]
AskedStates ==
    [at : {"idle", "lock", "size", "read"}, stamp : Stamps \cup {None}, size : Nat, file : Inodes \cup {None}]
SavingStates ==
    [at : {"idle", "create", "write", "flush", "rename", "stamp", "delete"}, module : Modules \cup {None},
     settings : Prefs \cup {Builtin, None}, name : Siblings \cup {None}, file : Inodes \cup {None},
     overtaken : BOOLEAN]

DefaultsTypes ==
    /\ windows \in BOOLEAN /\ cut \in BOOLEAN /\ changes \in 0 .. MaxChanges
    /\ files \in [Inodes -> FileStates] /\ target \in Inodes \cup {None}
    /\ temps \in [Siblings -> Inodes \cup {None}]
    /\ cache \in [Modules -> CacheStates] /\ counter \in [Modules -> 0 .. changes]
    /\ asked \in [Modules -> AskedStates] /\ saving \in [Processes -> SavingStates]

\* A file that was written and is nobody's temporary sibling: it is not written again.
Public(i) == files[i].settings # None /\ \A n \in Siblings : temps[n] # i

\* What a file, or its absence, means.
Says(i) == IF i = None THEN Builtin ELSE Parsed(i, files[i].blocks)

\* The defaults file is whole, and siblings are files of their own.
Disk ==
    /\ target # None => Public(target)
    /\ target # None => Whole(target) \/ (cut /\ ~windows)
    /\ target # None /\ windows => files[target].flushed
    /\ \A n \in Siblings : temps[n] # None =>
         /\ files[temps[n]].settings # None
         /\ \A k \in Siblings : temps[k] = temps[n] => k = n

\* Each save has used up at most one inode.
Used == {i \in Inodes : files[i].settings # None}
Creating == {p \in Processes : At(p, "create")}
Counted ==
    /\ IsFiniteSet(Creating)
    /\ Cardinality(Used) + Cardinality(Creating) <= changes

\* A save is as far as it has come with its file; after the rename the file says what
\* was saved, until somebody overtakes it.
SavingRight(p) ==
    LET s == saving[p] IN
    /\ s.file # None => files[s.file].settings # None
    /\ s.at \in {"create", "write", "flush", "rename"} =>
         s.name \in Siblings /\ s.name[1] = p /\ s.settings \in Prefs
    /\ s.at \in {"write", "flush", "rename"} =>
         /\ s.file # None /\ temps[s.name] = s.file /\ files[s.file].settings = s.settings
         /\ s.at = "write" => files[s.file].blocks < Size[s.settings]
         /\ s.at # "write" => Whole(s.file)
    /\ s.at = "rename" /\ windows => files[s.file].flushed
    /\ s.at = "delete" => s.settings = Builtin
    /\ s.at \in {"stamp", "delete"} => s.settings \in Prefs \cup {Builtin}
    /\ s.at = "stamp" /\ ~s.overtaken => s.settings = Says(target)
    /\ s.at # "idle" => s.module \in Modules

\* A stamp of a file that is not written again: it is that file's for good.
Seen(s) == s \in Stamps /\ Public(s.identity) /\ s.size = files[s.identity].blocks

\* What is being read is the file of the stamp, as long as that is the defaults file.
AskedRight(m) ==
    LET a == asked[m] IN
    /\ a.file # None => Public(a.file)
    /\ a.at = "lock" => a.stamp = None \/ Seen(a.stamp)
    /\ a.at \in {"size", "read"} => Seen(a.stamp)
    /\ a.at = "read" /\ windows =>
         a.file # None /\ Whole(a.file) /\ a.size = files[a.file].blocks
    /\ a.at = "read" /\ a.stamp.identity = target =>
         a.size = files[target].blocks /\ (windows => a.file = target)

CacheRight(m) ==
    LET c == cache[m] IN
    /\ c.valid => c.stamp = None \/ Seen(c.stamp)
    /\ c.valid /\ ~c.misstamped /\ c.stamp = None => c.value = Builtin
    /\ c.valid /\ ~c.misstamped /\ c.stamp # None /\ c.stamp.identity = target => c.value \in {Says(target), Unread}
    /\ windows => c.value # Refused

DefaultsInv ==
    /\ DefaultsTypes /\ Disk /\ Counted
    /\ \A p \in Processes : SavingRight(p)
    /\ \A m \in Modules : AskedRight(m) /\ CacheRight(m)

-----------------------------------------------------------------------------
(* UserDefaults: lemmas. *)

LEMMA SmallestIs == ASSUME NEW S \in SUBSET Nat, S # {} PROVE Min(S) \in S
  <1>. DEFINE R == {ss \in Nat \X Nat : ss[1] < ss[2]}
  <1>1. IsWellFoundedOn(R, Nat)
    BY NatLessThanWellFounded, Zenon DEF OpToRel
  <1>2. PICK x \in S : \A y \in S : ~ (<<y, x>> \in R)
    <2>. HIDE DEF R
    <2>. QED BY <1>1, WFMin, Zenon
  <1>3. ASSUME NEW y \in S PROVE x <= y
    <2>1. y < x => <<y, x>> \in R
      OBVIOUS
    <2>. QED BY <1>2, <2>1
  <1>. QED BY <1>3 DEF Min

LEMMA MinOfOne == ASSUME NEW x \in Nat PROVE Min({x, x}) = x
  <1>1. {x, x} \in SUBSET Nat /\ {x, x} # {}
    OBVIOUS
  <1>. QED BY <1>1, SmallestIs

LEMMA ProcessIs == ASSUME NEW m \in Modules PROVE Process[m] \in Processes
  BY DEF Processes

LEMMA BoundsAre == MaxChanges \in Nat /\ None \notin Inodes /\ None \notin Prefs /\ None \notin Stamps
                   /\ Builtin \notin Prefs /\ Refused \notin Prefs /\ Builtin # Refused
                   /\ Unread # Refused
                   /\ Size \in [Prefs -> Nat \ {0}] /\ Inodes \subseteq Nat
  BY DefaultsAssumption DEF Inodes, Refused, Unread

LEMMA StampIs ==
  ASSUME DefaultsTypes, Disk
  PROVE  /\ StampOf(target) \in Stamps \cup {None} /\ (StampOf(target) = None <=> target = None)
         /\ target # None => Seen(StampOf(target)) /\ StampOf(target).identity = target
                             /\ StampOf(target).size = files[target].blocks
  <1>1. ASSUME target # None
        PROVE  /\ StampOf(target) = [size |-> files[target].blocks, identity |-> target]
               /\ target \in Inodes /\ files[target].blocks \in Nat
    BY <1>1 DEF StampOf, DefaultsTypes, FileStates
  <1>2. ASSUME target # None PROVE StampOf(target) \in Stamps
    BY <1>1, <1>2 DEF Stamps
  <1>3. ASSUME target # None
        PROVE  Seen(StampOf(target)) /\ StampOf(target).identity = target
               /\ StampOf(target).size = files[target].blocks
    BY <1>1, <1>2, <1>3 DEF Seen, Disk
  <1>. QED BY <1>2, <1>3, BoundsAre DEF StampOf

\* What a whole file says is its settings, and never that it is refused.
LEMMA WholeSays ==
  ASSUME DefaultsTypes, NEW i \in Inodes, files[i].settings # None, Whole(i)
  PROVE  Says(i) = files[i].settings /\ Says(i) \in Prefs
  BY BoundsAre DEF Says, Parsed, Whole, DefaultsTypes, FileStates

LEMMA SaysIs ==
  ASSUME DefaultsTypes, Disk PROVE Says(target) \in Prefs \cup {Builtin, Refused}
  BY DEF Says, Parsed, DefaultsTypes, FileStates, Disk, Public

\* Files that are not written again stay, and with them what was read of them.
FilesStay ==
    /\ windows' = windows
    /\ \A i \in Inodes : Public(i) => Public(i)' /\ files'[i] = files[i]
    /\ target' = target \/ target' = None \/ (target' \in Inodes /\ ~Public(target'))

LEMMA SeenStays == ASSUME FilesStay, NEW s, Seen(s) PROVE Seen(s)'
  BY DEF FilesStay, Seen, Stamps

LEMMA AskedStays ==
  ASSUME DefaultsTypes, Disk, FilesStay, NEW m \in Modules, AskedRight(m), asked'[m] = asked[m]
  PROVE  AskedRight(m)'
  <1>1. asked[m].file \in Inodes \cup {None} /\ asked[m] \in AskedStates
    BY DEF DefaultsTypes, AskedStates
  <1>2. asked[m].at \in {"size", "read"} => asked[m].stamp.identity \in Inodes
    BY DEF AskedRight, Seen, Stamps
  <1>3. asked[m].at \in {"lock", "size", "read"} /\ Seen(asked[m].stamp) => Seen(asked[m].stamp)'
    BY SeenStays
  <1>4. asked[m].file # None => Public(asked[m].file)' /\ files'[asked[m].file] = files[asked[m].file]
    BY <1>1 DEF AskedRight, FilesStay
  <1>5. asked[m].at = "read" /\ asked[m].stamp.identity = target' =>
          target' = target /\ files'[target] = files[target]
    BY <1>2, BoundsAre DEF AskedRight, Seen, FilesStay
  <1>6. asked[m].at = "read" /\ windows /\ Whole(asked[m].file) /\ asked[m].file # None => Whole(asked[m].file)'
    BY <1>4 DEF Whole
  <1>. QED BY <1>1, <1>2, <1>3, <1>4, <1>5, <1>6 DEF AskedRight, FilesStay

LEMMA CacheStays ==
  ASSUME DefaultsTypes, FilesStay, NEW m \in Modules, CacheRight(m), cache'[m] = cache[m]
  PROVE  CacheRight(m)'
  <1>0. PICK c : c = cache[m]
    OBVIOUS
  <1>1. c.valid /\ c.stamp # None => Seen(c.stamp) /\ Seen(c.stamp)'
    BY <1>0, SeenStays DEF CacheRight
  <1>2. c.valid /\ c.stamp # None /\ c.stamp.identity = target' =>
          target' = target /\ Says(target)' = Says(target)
    <2>. SUFFICES ASSUME c.valid, c.stamp # None, c.stamp.identity = target'
                  PROVE  target' = target /\ Says(target)' = Says(target)
      OBVIOUS
    <2>1. c.stamp.identity \in Inodes /\ Public(c.stamp.identity)
      BY <1>1 DEF Seen, Stamps
    <2>2. target' = target /\ files'[target] = files[target]
      BY <2>1, BoundsAre DEF FilesStay
    <2>. QED BY <2>2 DEF Says, Parsed
  <1>3. cache'[m] = c /\ windows' = windows
    BY <1>0 DEF FilesStay
  <1>4. /\ c.valid /\ ~c.misstamped /\ c.stamp = None => c.value = Builtin
        /\ c.valid /\ ~c.misstamped /\ c.stamp # None /\ c.stamp.identity = target => c.value \in {Says(target), Unread}
        /\ windows => c.value # Refused
    BY <1>0 DEF CacheRight
  <1>. QED BY <1>1, <1>2, <1>3, <1>4 DEF CacheRight

-----------------------------------------------------------------------------
(* UserDefaults: the steps of a reader. *)

\* A step that leaves the files and the saves alone.
LEMMA ReaderKeeps ==
  ASSUME DefaultsInv, UNCHANGED <<windows, disk, counter, saving, changes, cut>>,
         cache' \in [Modules -> CacheStates], asked' \in [Modules -> AskedStates],
         NEW m \in Modules, AskedRight(m)', CacheRight(m)',
         \A k \in Modules \ {m} : asked'[k] = asked[k] /\ cache'[k] = cache[k]
  PROVE  DefaultsInv'
  <1>1. FilesStay
    BY DEF FilesStay, disk, Public
  <1>2. DefaultsTypes' /\ Disk' /\ Counted'
    BY DEF DefaultsInv, DefaultsTypes, Disk, Counted, disk, Public, Whole, Used, Creating, At
  <1>3. ASSUME NEW p \in Processes PROVE SavingRight(p)'
    BY <1>3 DEF DefaultsInv, SavingRight, disk, Whole, Says, Parsed
  <1>4. ASSUME NEW k \in Modules PROVE AskedRight(k)' /\ CacheRight(k)'
    BY <1>1, <1>4, AskedStays, CacheStays DEF DefaultsInv
  <1>. QED BY <1>2, <1>3, <1>4 DEF DefaultsInv

LEMMA NotAskedIs == NotAsked \in AskedStates /\ NotAsked.at = "idle" /\ NotAsked.file = None
  BY DEF NotAsked, AskedStates

LEMMA LoadStep ==
  ASSUME DefaultsInv, NEW m \in Modules, NEW value \in Prefs \cup {Builtin, Refused, Unread}, Load(m, value),
         UNCHANGED <<changes, cut>>,
         asked[m].at # "idle", asked[m].stamp = None => value = Builtin,
         asked[m].stamp # None /\ asked[m].stamp.identity = target => value \in {Says(target), Unread},
         windows => value # Refused
  PROVE  DefaultsInv'
  <1>0. PICK c : c = Cached(asked[m].stamp, value)
    OBVIOUS
  <1>t. /\ cache \in [Modules -> CacheStates] /\ asked \in [Modules -> AskedStates]
        /\ cache' = [cache EXCEPT ![m] = c] /\ asked' = [asked EXCEPT ![m] = NotAsked]
        /\ UNCHANGED <<windows, disk, counter, saving, changes, cut>>
    BY <1>0 DEF DefaultsInv, DefaultsTypes, Load
  <1>1. /\ c \in CacheStates /\ c.valid /\ c.stamp = asked[m].stamp /\ c.value = value /\ ~c.misstamped
    BY <1>0, <1>t DEF Cached, CacheStates, AskedStates
  <1>2. cache' \in [Modules -> CacheStates] /\ asked' \in [Modules -> AskedStates] /\ cache'[m] = c
        /\ asked'[m] = NotAsked
    BY <1>t, <1>1, NotAskedIs
  <1>3. c.stamp # None => Seen(c.stamp)
    BY <1>1, <1>t DEF DefaultsInv, AskedRight, AskedStates
  <1>4. c.stamp # None => Seen(c.stamp)'
    BY <1>3, <1>t DEF Seen, disk, Public
  <1>5. Says(target)' = Says(target) /\ windows' = windows /\ target' = target
    BY <1>t DEF disk, Says, Parsed
  <1>6. CacheRight(m)'
    BY <1>1, <1>2, <1>4, <1>5 DEF CacheRight
  <1>7. AskedRight(m)'
    BY <1>2, NotAskedIs DEF AskedRight
  <1>. QED BY <1>t, <1>2, <1>6, <1>7, ReaderKeeps

LEMMA StatStep == ASSUME DefaultsInv, NEW m \in Modules, Stat(m) PROVE DefaultsInv'
  <1>t. /\ cache \in [Modules -> CacheStates] /\ asked \in [Modules -> AskedStates]
        /\ DefaultsTypes /\ Disk /\ AskedRight(m) /\ CacheRight(m)
    BY DEF DefaultsInv, DefaultsTypes
  <1>s. /\ UNCHANGED <<windows, disk, cache, counter, saving, changes, cut>>
        /\ asked' = [asked EXCEPT ![m] = [asked[m] EXCEPT !.at = "lock", !.stamp = StampOf(target)]]
    BY <1>t DEF Stat, bounds
  <1>1. asked'[m] \in AskedStates /\ asked'[m].at = "lock" /\ asked'[m].stamp = StampOf(target)
        /\ asked'[m].file = asked[m].file
    BY <1>s, <1>t, StampIs DEF AskedStates
  <1>2. asked' \in [Modules -> AskedStates] /\ \A k \in Modules \ {m} : asked'[k] = asked[k]
    BY <1>s, <1>t, <1>1
  <1>3. AskedRight(m)'
    BY <1>s, <1>t, <1>1, StampIs DEF AskedRight, disk, Seen, Public
  <1>4. CacheRight(m)'
    BY <1>s, <1>t DEF CacheRight, disk, Seen, Public, Says, Parsed
  <1>. QED BY <1>s, <1>t, <1>2, <1>3, <1>4, ReaderKeeps

LEMMA StatFailsStep == ASSUME DefaultsInv, NEW m \in Modules, StatFails(m) PROVE DefaultsInv'
  <1>t. /\ cache \in [Modules -> CacheStates] /\ asked \in [Modules -> AskedStates]
        /\ AskedRight(m) /\ CacheRight(m)
    BY DEF DefaultsInv, DefaultsTypes
  <1>s. /\ UNCHANGED <<windows, disk, cache, counter, saving, changes, cut>>
        /\ asked' = [asked EXCEPT ![m] = [asked[m] EXCEPT !.at = "lock", !.stamp = None]]
    BY <1>t DEF StatFails, Upset
  <1>1. asked'[m] \in AskedStates /\ asked'[m].at = "lock" /\ asked'[m].stamp = None
        /\ asked'[m].file = asked[m].file
    BY <1>s, <1>t DEF AskedStates
  <1>2. asked' \in [Modules -> AskedStates] /\ \A k \in Modules \ {m} : asked'[k] = asked[k]
    BY <1>s, <1>t, <1>1
  <1>3. AskedRight(m)'
    BY <1>s, <1>t, <1>1 DEF AskedRight, disk, Public
  <1>4. CacheRight(m)'
    BY <1>s, <1>t DEF CacheRight, disk, Seen, Public, Says, Parsed
  <1>. QED BY <1>s, <1>t, <1>2, <1>3, <1>4, ReaderKeeps

LEMMA HitStep == ASSUME DefaultsInv, NEW m \in Modules, Hit(m) PROVE DefaultsInv'
  <1>t. /\ cache \in [Modules -> CacheStates] /\ asked \in [Modules -> AskedStates] /\ CacheRight(m)
    BY DEF DefaultsInv, DefaultsTypes
  <1>s. /\ UNCHANGED <<windows, disk, cache, counter, saving, changes, cut>>
        /\ asked' = [asked EXCEPT ![m] = NotAsked]
    BY DEF Hit, bounds
  <1>2. asked' \in [Modules -> AskedStates] /\ asked'[m] = NotAsked /\ \A k \in Modules \ {m} : asked'[k] = asked[k]
    BY <1>s, <1>t, NotAskedIs
  <1>3. AskedRight(m)'
    BY <1>2, NotAskedIs DEF AskedRight
  <1>4. CacheRight(m)'
    BY <1>s, <1>t DEF CacheRight, disk, Seen, Public, Says, Parsed
  <1>. QED BY <1>s, <1>t, <1>2, <1>3, <1>4, ReaderKeeps

LEMMA MissStep == ASSUME DefaultsInv, NEW m \in Modules, Miss(m) PROVE DefaultsInv'
  <1>t. /\ cache \in [Modules -> CacheStates] /\ asked \in [Modules -> AskedStates]
        /\ DefaultsTypes /\ Disk /\ AskedRight(m) /\ CacheRight(m)
    BY DEF DefaultsInv, DefaultsTypes
  <1>1. CASE asked[m].stamp = None
    BY <1>1, LoadStep, BoundsAre DEF Miss, bounds
  <1>2. CASE asked[m].stamp # None
    <2>s. /\ UNCHANGED <<windows, disk, cache, counter, saving, changes, cut>> /\ asked[m].at = "lock"
          /\ asked' = [asked EXCEPT ![m] = [asked[m] EXCEPT !.at = "size"]]
      BY <1>t, <1>2 DEF Miss, bounds
    <2>1. asked'[m] \in AskedStates /\ asked'[m].at = "size" /\ asked'[m].stamp = asked[m].stamp
          /\ asked'[m].file = asked[m].file
      BY <2>s, <1>t DEF AskedStates
    <2>2. asked' \in [Modules -> AskedStates] /\ \A k \in Modules \ {m} : asked'[k] = asked[k]
      BY <2>s, <1>t, <2>1
    <2>3. AskedRight(m)'
      BY <2>s, <1>2, <1>t, <2>1 DEF AskedRight, disk, Seen, Public
    <2>4. CacheRight(m)'
      BY <2>s, <1>t DEF CacheRight, disk, Seen, Public, Says, Parsed
    <2>. QED BY <2>s, <1>t, <2>2, <2>3, <2>4, ReaderKeeps
  <1>. QED BY <1>1, <1>2

LEMMA TakeSizeStep == ASSUME DefaultsInv, NEW m \in Modules, TakeSize(m) PROVE DefaultsInv'
  <1>t. /\ cache \in [Modules -> CacheStates] /\ asked \in [Modules -> AskedStates]
        /\ DefaultsTypes /\ Disk /\ AskedRight(m) /\ CacheRight(m)
    BY DEF DefaultsInv, DefaultsTypes
  <1>a. asked[m].at = "size" /\ Seen(asked[m].stamp) /\ asked[m].stamp # None
    BY <1>t, BoundsAre DEF TakeSize, AskedRight, Seen
  <1>1. CASE target = None
    <2>1. asked[m].stamp.identity # target
      BY <1>a, <1>1, BoundsAre DEF Seen, Stamps
    <2>. QED BY <1>1, <1>a, <2>1, LoadStep, BoundsAre DEF TakeSize, bounds
  <1>2. CASE target # None
    <2>. DEFINE file == IF windows THEN target ELSE None
    <2>s. /\ UNCHANGED <<windows, disk, cache, counter, saving, changes, cut>>
          /\ asked' = [asked EXCEPT ![m] = [asked[m] EXCEPT !.at = "read", !.size = files[target].blocks,
                                                            !.file = file]]
      BY <1>t, <1>2 DEF TakeSize, bounds
    <2>0. target \in Inodes /\ files[target].blocks \in Nat /\ Public(target)
      BY <1>2, <1>t DEF DefaultsTypes, FileStates, Disk
    <2>1. asked'[m] \in AskedStates /\ asked'[m].at = "read" /\ asked'[m].stamp = asked[m].stamp
          /\ asked'[m].file = file /\ asked'[m].size = files[target].blocks
      BY <2>s, <2>0, <1>t DEF AskedStates
    <2>2. asked' \in [Modules -> AskedStates] /\ \A k \in Modules \ {m} : asked'[k] = asked[k]
      BY <2>s, <1>t, <2>1
    <2>3. Seen(asked[m].stamp)' /\ Public(target)' /\ UNCHANGED <<target, files, windows>>
      BY <2>s, <1>a, <2>0 DEF disk, Seen, Public
    <2>4. windows => Whole(target)'
      BY <2>s, <1>2, <1>t DEF Disk, disk, Whole
    <2>5. AskedRight(m)'
      BY <1>2, <2>1, <2>3, <2>4 DEF AskedRight
    <2>6. CacheRight(m)'
      BY <2>s, <1>t DEF CacheRight, disk, Seen, Public, Says, Parsed
    <2>. QED BY <2>s, <1>t, <2>2, <2>5, <2>6, ReaderKeeps
  <1>. QED BY <1>1, <1>2

LEMMA ReadStep == ASSUME DefaultsInv, NEW m \in Modules, Read(m) PROVE DefaultsInv'
  <1>t. /\ DefaultsTypes /\ Disk /\ AskedRight(m) /\ asked[m] \in AskedStates
    BY DEF DefaultsInv, DefaultsTypes
  <1>a. asked[m].at = "read" /\ Seen(asked[m].stamp) /\ asked[m].stamp # None /\ asked[m].stamp.identity \in Inodes
        /\ asked[m].size \in Nat
    BY <1>t, BoundsAre DEF Read, AskedRight, Seen, Stamps, AskedStates
  <1>. DEFINE file == IF windows THEN asked[m].file ELSE target
              value == IF file = None THEN Builtin
                       ELSE Parsed(file, Min({asked[m].size, files[file].blocks}))
  <1>s. Load(m, value) /\ UNCHANGED <<changes, cut>>
    BY DEF Read, bounds
  <1>1. file # None => file \in Inodes /\ Public(file) /\ files[file] \in FileStates
    BY <1>t DEF AskedRight, Disk, DefaultsTypes, AskedStates
  <1>2. value \in Prefs \cup {Builtin, Refused, Unread}
    BY <1>1 DEF Parsed, Public, FileStates
  <1>3. asked[m].stamp.identity = target => value = Says(target)
    <2>1. ASSUME asked[m].stamp.identity = target
          PROVE  file = target /\ target # None /\ asked[m].size = files[target].blocks
      BY <2>1, <1>a, <1>t, BoundsAre DEF AskedRight
    <2>2. ASSUME asked[m].stamp.identity = target
          PROVE  Min({asked[m].size, files[target].blocks}) = files[target].blocks
      BY <2>1, <2>2, <1>a, MinOfOne
    <2>. QED BY <2>1, <2>2 DEF Says
  <1>4. windows => value # Refused
    <2>. SUFFICES ASSUME windows PROVE value # Refused
      OBVIOUS
    <2>1. file = asked[m].file /\ file # None /\ Whole(file) /\ asked[m].size = files[file].blocks
      BY <1>a, <1>t DEF AskedRight
    <2>2. Min({asked[m].size, files[file].blocks}) = files[file].blocks
      BY <2>1, <1>a, MinOfOne
    <2>3. value = Says(file)
      BY <2>1, <2>2 DEF Says
    <2>4. Says(file) \in Prefs
      BY <1>1, <1>t, <2>1, WholeSays DEF Public
    <2>. QED BY <2>3, <2>4, BoundsAre
  <1>. HIDE DEF value
  <1>. QED BY <1>s, <1>a, <1>2, <1>3, <1>4, LoadStep

LEMMA ReadFailsStep == ASSUME DefaultsInv, NEW m \in Modules, ReadFails(m) PROVE DefaultsInv'
  <1>1. AskedRight(m) /\ asked[m].at \in {"size", "read"} /\ Load(m, Unread) /\ UNCHANGED <<changes, cut>>
    BY DEF DefaultsInv, ReadFails, Upset
  <1>2. asked[m].stamp # None
    BY <1>1, BoundsAre DEF AskedRight, Seen
  <1>. QED BY <1>1, <1>2, LoadStep, BoundsAre

-----------------------------------------------------------------------------
(* UserDefaults: the steps of a save. *)

LEMMA InodesFinite ==
  /\ IsFiniteSet(Inodes) /\ Cardinality(Inodes) = MaxChanges
  /\ IsFiniteSet(Used) /\ Cardinality(Used) \in Nat /\ Used \subseteq Inodes
  <1>1. IsFiniteSet(Inodes) /\ Cardinality(Inodes) = MaxChanges
    BY BoundsAre, FS_Interval DEF Inodes
  <1>2. Used \subseteq Inodes
    BY DEF Used
  <1>. QED BY <1>1, <1>2, FS_Subset, FS_CardinalityType

LEMMA CountedStays ==
  ASSUME DefaultsTypes, Counted, Used' = Used, Creating' \subseteq Creating, changes' = changes
  PROVE  Counted'
  <1>1. /\ IsFiniteSet(Creating) /\ Cardinality(Creating) \in Nat
        /\ Cardinality(Used) + Cardinality(Creating) <= changes
    BY FS_CardinalityType DEF Counted
  <1>2. IsFiniteSet(Creating') /\ Cardinality(Creating') <= Cardinality(Creating) /\ Cardinality(Creating') \in Nat
    BY <1>1, FS_Subset, FS_CardinalityType
  <1>3. changes \in Nat
    BY BoundsAre DEF DefaultsTypes
  <1>4. Cardinality(Used') + Cardinality(Creating') <= changes'
    BY <1>1, <1>2, <1>3, InodesFinite
  <1>. QED BY <1>2, <1>4 DEF Counted

\* There is an inode left for whoever creates a file.
LEMMA NewInodeIs ==
  ASSUME DefaultsInv, Creating # {}
  PROVE  NewInode \in Inodes /\ files[NewInode].settings = None
  <1>. DEFINE Unused == {i \in Inodes \ InUse : files[i].settings = None}
  <1>t. /\ DefaultsTypes /\ Disk /\ Counted /\ \A p \in Processes : SavingRight(p)
        /\ \A m \in Modules : AskedRight(m)
    BY DEF DefaultsInv
  <1>1. InUse \subseteq {i \in Inodes : files[i].settings # None}
    <2>1. target # None => target \in Inodes /\ files[target].settings # None
      BY <1>t DEF Disk, Public, DefaultsTypes
    <2>2. \A n \in Siblings : temps[n] # None => temps[n] \in Inodes /\ files[temps[n]].settings # None
      BY <1>t DEF Disk, DefaultsTypes
    <2>3. \A m \in Modules : asked[m].file # None => asked[m].file \in Inodes /\ files[asked[m].file].settings # None
      BY <1>t DEF AskedRight, Public, DefaultsTypes, AskedStates
    <2>4. \A p \in Processes : saving[p].file # None =>
             saving[p].file \in Inodes /\ files[saving[p].file].settings # None
      BY <1>t DEF SavingRight, DefaultsTypes, SavingStates
    <2>. QED BY <2>1, <2>2, <2>3, <2>4 DEF InUse
  <1>2. Cardinality(Creating) \in Nat /\ Cardinality(Creating) # 0
    BY <1>t, FS_CardinalityType, FS_EmptySet DEF Counted
  <1>3. changes \in Nat /\ changes <= MaxChanges
    BY <1>t, BoundsAre DEF DefaultsTypes
  <1>4. Cardinality(Used) < MaxChanges
    BY <1>t, <1>2, <1>3, InodesFinite, BoundsAre DEF Counted
  <1>5. Used # Inodes
    BY <1>4, InodesFinite, BoundsAre
  <1>6. PICK i \in Inodes : i \notin Used
    BY <1>5, InodesFinite
  <1>7. i \in Unused
    BY <1>1, <1>6 DEF Used
  <1>8. Unused \in SUBSET Nat
    BY BoundsAre
  <1>. HIDE DEF Unused
  <1>9. Min(Unused) \in Unused
    BY <1>7, <1>8, SmallestIs
  <1>. QED BY <1>9 DEF NewInode, Unused

\* A save that the step is not about, and which has its file to itself.
LEMMA SavingStays ==
  ASSUME NEW q \in Processes, SavingRight(q), saving'[q] = saving[q], windows' = windows,
         saving[q].file # None => files'[saving[q].file].settings # None,
         saving[q].at \in {"write", "flush", "rename"} =>
           temps'[saving[q].name] = temps[saving[q].name] /\ files'[saving[q].file] = files[saving[q].file],
         saving[q].at = "stamp" /\ ~saving[q].overtaken => Says(target)' = Says(target)
  PROVE  SavingRight(q)'
  BY DEF SavingRight, Whole

\* Two saves have different siblings, in different files.
LEMMA SavesDiffer ==
  ASSUME DefaultsInv, NEW p \in Processes, NEW q \in Processes, p # q,
         saving[p].at \in {"create", "write", "flush", "rename"},
         saving[q].at \in {"write", "flush", "rename"}
  PROVE  saving[q].name # saving[p].name /\ temps[saving[p].name] # saving[q].file
  <1>1. SavingRight(p) /\ SavingRight(q) /\ Disk
    BY DEF DefaultsInv
  <1>2. /\ saving[p].name \in Siblings /\ saving[p].name[1] = p
        /\ saving[q].name \in Siblings /\ saving[q].name[1] = q
        /\ temps[saving[q].name] = saving[q].file /\ saving[q].file # None
    BY <1>1 DEF SavingRight
  <1>. QED BY <1>1, <1>2 DEF Disk

\* A step of the save of p that may write to its sibling's file.
LEMMA SaverKeeps ==
  ASSUME DefaultsInv, NEW p \in Processes, UNCHANGED <<windows, target, cache, asked>>,
         DefaultsTypes', Disk', Counted', FilesStay, SavingRight(p)',
         \A q \in Processes \ {p} : saving'[q] = saving[q],
         \A i \in Inodes : files[i].settings # None => files'[i].settings # None,
         \A q \in Processes \ {p} : saving[q].at \in {"write", "flush", "rename"} =>
           temps'[saving[q].name] = temps[saving[q].name] /\ files'[saving[q].file] = files[saving[q].file]
  PROVE  DefaultsInv'
  <1>t. /\ DefaultsTypes /\ Disk /\ \A q \in Processes : SavingRight(q)
        /\ \A m \in Modules : AskedRight(m) /\ CacheRight(m)
    BY DEF DefaultsInv
  <1>1. \A m \in Modules : AskedRight(m)' /\ CacheRight(m)'
    BY <1>t, AskedStays, CacheStays
  <1>2. Says(target)' = Says(target)
    BY <1>t DEF FilesStay, Says, Parsed, Disk, DefaultsTypes
  <1>3. ASSUME NEW q \in Processes \ {p} PROVE SavingRight(q)'
    <2>1. saving[q].file # None => saving[q].file \in Inodes /\ files[saving[q].file].settings # None
      BY <1>t DEF SavingRight, DefaultsTypes, SavingStates
    <2>. QED BY <1>t, <1>2, <2>1, SavingStays
  <1>. QED BY <1>1, <1>3 DEF DefaultsInv

LEMMA NotSavingIs == NotSaving \in SavingStates /\ NotSaving.at = "idle" /\ NotSaving.file = None
  BY DEF NotSaving, SavingStates

\* The save of p is over, with its sibling or without it.
LEMMA SaverEnds ==
  ASSUME DefaultsInv, NEW p \in Processes, UNCHANGED <<windows, files, target, cache, counter, asked, changes, cut>>,
         saving' = [saving EXCEPT ![p] = NotSaving],
         temps' = temps \/ (saving[p].at \in {"create", "write", "flush", "rename"}
                            /\ temps' = [temps EXCEPT ![saving[p].name] = None])
  PROVE  DefaultsInv'
  <1>t. /\ DefaultsTypes /\ Disk /\ Counted /\ SavingRight(p)
        /\ temps \in [Siblings -> Inodes \cup {None}] /\ saving \in [Processes -> SavingStates]
    BY DEF DefaultsInv, DefaultsTypes
  <1>1. /\ saving' \in [Processes -> SavingStates] /\ saving'[p] = NotSaving
        /\ \A q \in Processes \ {p} : saving'[q] = saving[q]
    BY <1>t, NotSavingIs
  <1>2. /\ temps' \in [Siblings -> Inodes \cup {None}]
        /\ \A n \in Siblings : temps'[n] = temps[n] \/ temps'[n] = None
    BY <1>t
  <1>3. DefaultsTypes'
    BY <1>t, <1>1, <1>2 DEF DefaultsTypes
  <1>4. \A i \in Inodes : Public(i) => Public(i)'
    BY <1>2, BoundsAre DEF Public
  <1>5. FilesStay
    BY <1>4 DEF FilesStay
  <1>6. Disk'
    BY <1>t, <1>2, <1>4 DEF Disk, Whole, DefaultsTypes
  <1>7. Counted'
    <2>1. Used' = Used
      BY DEF Used
    <2>2. Creating' \subseteq Creating
      BY <1>1, NotSavingIs DEF Creating, At
    <2>. QED BY <1>t, <2>1, <2>2, CountedStays
  <1>8. SavingRight(p)'
    BY <1>1, NotSavingIs DEF SavingRight
  <1>9. ASSUME NEW q \in Processes \ {p}, saving[q].at \in {"write", "flush", "rename"}
        PROVE  temps'[saving[q].name] = temps[saving[q].name]
    <2>1. saving[q].name \in Siblings
      BY <1>9 DEF DefaultsInv, SavingRight
    <2>. QED BY <1>9, <1>t, <2>1, SavesDiffer
  <1>. QED BY <1>1, <1>3, <1>5, <1>6, <1>7, <1>8, <1>9, SaverKeeps

LEMMA NameTakenStep == ASSUME DefaultsInv, NEW p \in Processes, Taken(p) PROVE DefaultsInv'
  BY SaverEnds DEF Taken, disk, bounds

LEMMA FailsStep == ASSUME DefaultsInv, NEW p \in Processes, Fails(p) PROVE DefaultsInv'
  BY SaverEnds DEF Fails, Upset, At

LEMMA CreateStep == ASSUME DefaultsInv, NEW p \in Processes, Create(p) PROVE DefaultsInv'
  <1>. DEFINE name == saving[p].name
              new == IF temps[name] # None THEN temps[name] ELSE NewInode
  <1>t. /\ DefaultsTypes /\ Disk /\ Counted /\ SavingRight(p) /\ At(p, "create")
        /\ temps \in [Siblings -> Inodes \cup {None}] /\ saving \in [Processes -> SavingStates]
        /\ files \in [Inodes -> FileStates]
    BY DEF DefaultsInv, DefaultsTypes, Create
  <1>1. p \in Creating
    BY <1>t DEF Creating
  <1>2. name \in Siblings /\ name[1] = p /\ saving[p].settings \in Prefs
    BY <1>t DEF SavingRight, At
  <1>3. PICK file : file = new
    OBVIOUS
  <1>4. /\ file \in Inodes
        /\ file = temps[name] \/ (temps[name] = None /\ files[file].settings = None)
    BY <1>1, <1>2, <1>3, <1>t, NewInodeIs
  <1>5. PICK f : f = [settings |-> saving[p].settings, blocks |-> 0, flushed |-> FALSE]
    OBVIOUS
  <1>s. /\ UNCHANGED <<windows, target, cache, counter, asked, bounds>>
        /\ files' = [files EXCEPT ![file] = f] /\ temps' = [temps EXCEPT ![name] = file]
        /\ saving' = [saving EXCEPT ![p] = [saving[p] EXCEPT !.at = "write", !.file = file]]
    BY <1>3, <1>5, <1>t DEF Create
  <1>6. f \in FileStates /\ f.settings = saving[p].settings /\ f.blocks = 0 /\ f.settings # None
    BY <1>2, <1>5, BoundsAre DEF FileStates
  <1>7. /\ files' \in [Inodes -> FileStates] /\ files'[file] = f
        /\ \A i \in Inodes \ {file} : files'[i] = files[i]
    BY <1>s, <1>4, <1>6, <1>t
  <1>8. /\ temps' \in [Siblings -> Inodes \cup {None}] /\ temps'[name] = file
        /\ \A n \in Siblings \ {name} : temps'[n] = temps[n]
    BY <1>s, <1>2, <1>4, <1>t
  <1>9. /\ saving'[p] \in SavingStates /\ saving'[p].at = "write" /\ saving'[p].file = file
        /\ saving'[p].name = name /\ saving'[p].settings = saving[p].settings
        /\ saving'[p].module = saving[p].module /\ saving' \in [Processes -> SavingStates]
        /\ \A q \in Processes \ {p} : saving'[q] = saving[q]
    BY <1>s, <1>4, <1>t DEF SavingStates
  <1>10. DefaultsTypes'
    BY <1>s, <1>t, <1>7, <1>8, <1>9 DEF DefaultsTypes, bounds
  <1>11. ASSUME NEW i \in Inodes, Public(i) PROVE i # file /\ Public(i)'
    <2>1. files[i].settings # None /\ \A n \in Siblings : temps[n] # i
      BY <1>11 DEF Public
    <2>2. i # file
      BY <2>1, <1>2, <1>4
    <2>. QED BY <2>1, <2>2, <1>7, <1>8 DEF Public
  <1>12. FilesStay
    BY <1>11, <1>7, <1>s DEF FilesStay
  <1>13. \A n \in Siblings \ {name} : temps[n] # file
    BY <1>4, <1>2, <1>t, BoundsAre DEF Disk
  <1>14. Disk'
    <2>1. target # None => target \in Inodes /\ Public(target)' /\ files'[target] = files[target]
      BY <1>s, <1>t, <1>11, <1>7 DEF Disk, DefaultsTypes
    <2>2. ASSUME NEW n \in Siblings, temps'[n] # None
          PROVE  files'[temps'[n]].settings # None /\ \A k \in Siblings : temps'[k] = temps'[n] => k = n
      <3>1. CASE n = name
        BY <3>1, <1>6, <1>7, <1>8, <1>13
      <3>2. CASE n # name
        BY <3>2, <2>2, <1>t, <1>7, <1>8, <1>13 DEF Disk
      <3>. QED BY <3>1, <3>2
    <2>. QED BY <1>s, <1>t, <2>1, <2>2 DEF Disk, Whole, bounds
  <1>15. Counted'
    <2>1. Used' = Used \cup {file}
      BY <1>4, <1>6, <1>7 DEF Used
    <2>2. Creating' = Creating \ {p}
      BY <1>9 DEF Creating, At
    <2>3. IsFiniteSet(Creating) /\ Cardinality(Creating) \in Nat
      BY <1>t, FS_CardinalityType DEF Counted
    <2>4. IsFiniteSet(Creating') /\ Cardinality(Creating') = Cardinality(Creating) - 1
      BY <2>2, <2>3, <1>1, FS_RemoveElement
    <2>5. Cardinality(Used') <= Cardinality(Used) + 1 /\ Cardinality(Used') \in Nat
      <3>1. Cardinality(Used \cup {file}) = IF file \in Used THEN Cardinality(Used) ELSE Cardinality(Used) + 1
        BY InodesFinite, FS_AddElement, Zenon
      <3>. QED BY <2>1, <3>1, InodesFinite
    <2>6. changes \in Nat /\ changes' = changes
      BY <1>s, <1>t, BoundsAre DEF DefaultsTypes, bounds
    <2>7. Cardinality(Used') + Cardinality(Creating') <= changes'
      BY <2>3, <2>4, <2>5, <2>6, <1>t, InodesFinite DEF Counted
    <2>. QED BY <2>4, <2>7 DEF Counted
  <1>16. SavingRight(p)'
    <2>1. Size[saving[p].settings] \in Nat \ {0} /\ file # None
      BY <1>2, <1>4, BoundsAre
    <2>2. saving[p].module \in Modules
      BY <1>t DEF SavingRight, At
    <2>. QED BY <2>1, <2>2, <1>2, <1>6, <1>7, <1>8, <1>9 DEF SavingRight
  <1>17. ASSUME NEW q \in Processes \ {p}, saving[q].at \in {"write", "flush", "rename"}
         PROVE  temps'[saving[q].name] = temps[saving[q].name] /\ files'[saving[q].file] = files[saving[q].file]
    <2>1. /\ saving[q].name \in Siblings /\ saving[q].file \in Inodes
          /\ files[saving[q].file].settings # None
      BY <1>17, <1>t DEF DefaultsInv, SavingRight, DefaultsTypes, SavingStates
    <2>2. saving[q].name # name /\ temps[name] # saving[q].file
      BY <1>17, <1>t, SavesDiffer DEF At
    <2>. QED BY <2>1, <2>2, <1>4, <1>7, <1>8
  <1>18. \A i \in Inodes : files[i].settings # None => files'[i].settings # None
    BY <1>6, <1>7
  <1>. QED BY <1>s, <1>9, <1>10, <1>12, <1>14, <1>15, <1>16, <1>17, <1>18, SaverKeeps

\* A step of the save of p on its own file, which has a sibling's name.
LEMMA FileStep ==
  ASSUME DefaultsInv, NEW p \in Processes, saving[p].at \in {"write", "flush"},
         UNCHANGED <<windows, target, temps, cache, counter, asked, bounds>>,
         NEW f \in FileStates, files' = [files EXCEPT ![saving[p].file] = f],
         f.settings = saving[p].settings,
         NEW at \in {"write", "flush", "rename"}, saving' = [saving EXCEPT ![p] = [saving[p] EXCEPT !.at = at]],
         at = "write" => f.blocks < Size[f.settings], at # "write" => f.blocks = Size[f.settings],
         at = "rename" /\ windows => f.flushed
  PROVE  DefaultsInv'
  <1>. DEFINE file == saving[p].file
              name == saving[p].name
  <1>t. /\ DefaultsTypes /\ Disk /\ Counted /\ SavingRight(p)
        /\ temps \in [Siblings -> Inodes \cup {None}] /\ saving \in [Processes -> SavingStates]
        /\ files \in [Inodes -> FileStates]
    BY DEF DefaultsInv, DefaultsTypes
  <1>1. /\ name \in Siblings /\ name[1] = p /\ saving[p].settings \in Prefs /\ file # None /\ temps[name] = file
        /\ file \in Inodes /\ saving[p].module \in Modules
    BY <1>t DEF SavingRight, SavingStates
  <1>2. f.settings # None
    BY <1>1, BoundsAre
  <1>3. /\ files' \in [Inodes -> FileStates] /\ files'[file] = f
        /\ \A i \in Inodes \ {file} : files'[i] = files[i]
    BY <1>1, <1>t
  <1>4. /\ saving'[p] \in SavingStates /\ saving'[p].at = at /\ saving'[p].file = file
        /\ saving'[p].name = name /\ saving'[p].settings = saving[p].settings
        /\ saving'[p].module = saving[p].module /\ saving' \in [Processes -> SavingStates]
        /\ \A q \in Processes \ {p} : saving'[q] = saving[q]
    BY <1>t DEF SavingStates
  <1>5. DefaultsTypes'
    BY <1>t, <1>3, <1>4 DEF DefaultsTypes, bounds
  <1>6. ASSUME NEW i \in Inodes, Public(i) PROVE i # file /\ Public(i)'
    BY <1>1, <1>3, <1>6 DEF Public
  <1>7. FilesStay
    BY <1>3, <1>6 DEF FilesStay
  <1>8. Disk'
    <2>1. target # None => target \in Inodes /\ Public(target)' /\ files'[target] = files[target]
      BY <1>t, <1>6, <1>3 DEF Disk, DefaultsTypes
    <2>2. ASSUME NEW n \in Siblings, temps[n] # None PROVE files'[temps[n]].settings # None
      BY <1>t, <1>2, <1>3, <2>2 DEF Disk
    <2>. QED BY <1>t, <2>1, <2>2 DEF Disk, Whole, bounds
  <1>9. Counted'
    <2>1. Used' = Used
      BY <1>t, <1>1, <1>2, <1>3 DEF Used, SavingRight
    <2>2. Creating' \subseteq Creating /\ changes' = changes
      BY <1>4 DEF Creating, At, bounds
    <2>. QED BY <1>t, <2>1, <2>2, CountedStays
  <1>10. SavingRight(p)'
    <2>1. Size[saving[p].settings] \in Nat \ {0}
      BY <1>1, BoundsAre
    <2>2. at # "write" => Whole(file)'
      BY <1>3 DEF Whole
    <2>. QED BY <2>1, <2>2, <1>1, <1>2, <1>3, <1>4 DEF SavingRight
  <1>11. ASSUME NEW q \in Processes \ {p}, saving[q].at \in {"write", "flush", "rename"}
         PROVE  temps'[saving[q].name] = temps[saving[q].name] /\ files'[saving[q].file] = files[saving[q].file]
    <2>1. saving[q].file \in Inodes
      BY <1>11, <1>t DEF DefaultsInv, SavingRight, SavingStates
    <2>2. temps[name] # saving[q].file
      BY <1>11, SavesDiffer
    <2>. QED BY <2>1, <2>2, <1>1, <1>3
  <1>12. \A i \in Inodes : files[i].settings # None => files'[i].settings # None
    BY <1>2, <1>3
  <1>. QED BY <1>4, <1>5, <1>7, <1>8, <1>9, <1>10, <1>11, <1>12, SaverKeeps

LEMMA WriteStep == ASSUME DefaultsInv, NEW p \in Processes, Write(p) PROVE DefaultsInv'
  <1>. DEFINE file == saving[p].file
  <1>t. /\ DefaultsTypes /\ SavingRight(p) /\ saving \in [Processes -> SavingStates] /\ files \in [Inodes -> FileStates]
    BY DEF DefaultsInv, DefaultsTypes
  <1>1. /\ saving[p].at = "write" /\ file \in Inodes /\ files[file].settings = saving[p].settings
        /\ saving[p].settings \in Prefs /\ files[file].blocks < Size[saving[p].settings]
    BY <1>t DEF Write, At, SavingRight, SavingStates
  <1>2. files[file].blocks \in Nat /\ Size[saving[p].settings] \in Nat
    BY <1>t, <1>1, BoundsAre DEF FileStates
  <1>3. PICK f : f = [files[file] EXCEPT !.blocks = @ + 1]
    OBVIOUS
  <1>4. f \in FileStates /\ f.settings = saving[p].settings /\ f.blocks = files[file].blocks + 1
    BY <1>t, <1>1, <1>2, <1>3 DEF FileStates
  <1>5. /\ UNCHANGED <<windows, target, temps, cache, counter, asked, bounds>>
        /\ files' = [files EXCEPT ![file] = f]
    BY <1>t, <1>1, <1>3 DEF Write
  <1>6. CASE f.blocks = Size[saving[p].settings]
    <2>1. saving' = [saving EXCEPT ![p] = [saving[p] EXCEPT !.at = "flush"]]
      BY <1>6, <1>4, <1>t DEF Write, Goes
    <2>. QED BY <1>1, <1>4, <1>5, <1>6, <2>1, FileStep
  <1>7. CASE f.blocks # Size[saving[p].settings]
    <2>1. saving' = [saving EXCEPT ![p] = [saving[p] EXCEPT !.at = "write"]]
      <3>1. saving[p] = [saving[p] EXCEPT !.at = "write"]
        BY <1>1, <1>t DEF SavingStates
      <3>. QED BY <3>1, <1>7, <1>4, <1>t DEF Write
    <2>2. f.blocks < Size[f.settings]
      BY <1>1, <1>2, <1>4, <1>7
    <2>. QED BY <1>1, <1>4, <1>5, <1>7, <2>1, <2>2, FileStep
  <1>. QED BY <1>6, <1>7

LEMMA FlushStep == ASSUME DefaultsInv, NEW p \in Processes, Flush(p) PROVE DefaultsInv'
  <1>. DEFINE file == saving[p].file
  <1>t. /\ DefaultsTypes /\ SavingRight(p) /\ saving \in [Processes -> SavingStates] /\ files \in [Inodes -> FileStates]
        /\ windows \in BOOLEAN
    BY DEF DefaultsInv, DefaultsTypes
  <1>1. /\ saving[p].at = "flush" /\ file \in Inodes /\ files[file].settings = saving[p].settings
        /\ files[file].blocks = Size[saving[p].settings]
    BY <1>t DEF Flush, At, SavingRight, SavingStates, Whole
  <1>2. PICK f : f = [files[file] EXCEPT !.flushed = windows]
    OBVIOUS
  <1>3. f \in FileStates /\ f.settings = saving[p].settings /\ f.blocks = files[file].blocks /\ f.flushed = windows
    BY <1>t, <1>1, <1>2 DEF FileStates
  <1>4. /\ UNCHANGED <<windows, target, temps, cache, counter, asked, bounds>>
        /\ files' = [files EXCEPT ![file] = f]
        /\ saving' = [saving EXCEPT ![p] = [saving[p] EXCEPT !.at = "rename"]]
    BY <1>t, <1>1, <1>2 DEF Flush, Goes
  <1>. QED BY <1>1, <1>3, <1>4, FileStep

-----------------------------------------------------------------------------
(* UserDefaults: the steps that change which file there is, and what a save leaves. *)

\* What overtaking does to the saves.
LEMMA OvertakeIs ==
  ASSUME saving \in [Processes -> SavingStates], NEW p \in Processes, saving' = Overtake(p)
  PROVE  /\ saving' \in [Processes -> SavingStates]
         /\ saving'[p] = [saving[p] EXCEPT !.at = "stamp", !.overtaken = saving'[p].overtaken]
         /\ saving'[p].at = "stamp" /\ saving'[p].module = saving[p].module
         /\ saving'[p].settings = saving[p].settings /\ saving'[p].file = saving[p].file
         /\ \A q \in Processes \ {p} :
              /\ saving'[q].at = saving[q].at /\ saving'[q].module = saving[q].module
              /\ saving'[q].settings = saving[q].settings /\ saving'[q].file = saving[q].file
              /\ saving'[q].name = saving[q].name
              /\ saving[q].at = "stamp" => saving'[q].overtaken
  BY DEF Overtake, At, SavingStates

LEMMA OthersOvertaken ==
  ASSUME DefaultsInv, NEW p \in Processes, saving' = Overtake(p), UNCHANGED <<windows, files>>,
         saving[p].at \in {"rename", "delete"},
         temps' = temps \/ (At(p, "rename") /\ temps' = [temps EXCEPT ![saving[p].name] = None])
  PROVE  \A q \in Processes \ {p} : SavingRight(q)'
  <1>t. /\ \A q \in Processes : SavingRight(q)
        /\ temps \in [Siblings -> Inodes \cup {None}] /\ saving \in [Processes -> SavingStates]
    BY DEF DefaultsInv, DefaultsTypes
  <1>. SUFFICES ASSUME NEW q \in Processes \ {p} PROVE SavingRight(q)'
    OBVIOUS
  <1>1. /\ saving'[q].at = saving[q].at /\ saving'[q].module = saving[q].module
        /\ saving'[q].settings = saving[q].settings /\ saving'[q].file = saving[q].file
        /\ saving'[q].name = saving[q].name /\ (saving[q].at = "stamp" => saving'[q].overtaken)
    BY <1>t, OvertakeIs
  <1>2. ASSUME saving[q].at \in {"write", "flush", "rename"} PROVE temps'[saving[q].name] = temps[saving[q].name]
    <2>1. saving[q].name \in Siblings
      BY <1>2, <1>t DEF SavingRight
    <2>2. At(p, "rename") => saving[q].name # saving[p].name
      BY <1>2, SavesDiffer DEF At
    <2>. QED BY <2>1, <2>2, <1>t
  <1>. QED BY <1>t, <1>1, <1>2 DEF SavingRight, Whole

\* The defaults file is another, or there is none any more.
LEMMA TargetStep ==
  ASSUME DefaultsInv, NEW p \in Processes, saving' = Overtake(p),
         UNCHANGED <<windows, files, cache, counter, asked, bounds>>,
         saving[p].at \in {"rename", "delete"},
         temps' = temps \/ (At(p, "rename") /\ temps' = [temps EXCEPT ![saving[p].name] = None]),
         FilesStay, Disk', target' \in Inodes \cup {None}, temps' \in [Siblings -> Inodes \cup {None}],
         saving[p].settings = Says(target)'
  PROVE  DefaultsInv'
  <1>t. /\ DefaultsTypes /\ Disk /\ Counted /\ SavingRight(p) /\ saving \in [Processes -> SavingStates]
        /\ \A m \in Modules : AskedRight(m) /\ CacheRight(m)
    BY DEF DefaultsInv, DefaultsTypes
  <1>1. /\ saving' \in [Processes -> SavingStates]
        /\ saving'[p].at = "stamp" /\ saving'[p].module = saving[p].module
        /\ saving'[p].settings = saving[p].settings /\ saving'[p].file = saving[p].file
    BY <1>t, OvertakeIs
  <1>2. DefaultsTypes'
    BY <1>t, <1>1 DEF DefaultsTypes, bounds
  <1>3. Counted'
    <2>1. Used' = Used
      BY DEF Used
    <2>2. Creating' \subseteq Creating /\ changes' = changes
      BY <1>t, OvertakeIs DEF Creating, At, bounds
    <2>. QED BY <1>t, <2>1, <2>2, CountedStays
  <1>4. SavingRight(p)'
    BY <1>t, <1>1 DEF SavingRight
  <1>5. \A q \in Processes \ {p} : SavingRight(q)'
    BY OthersOvertaken
  <1>6. \A m \in Modules : AskedRight(m)' /\ CacheRight(m)'
    BY <1>t, AskedStays, CacheStays
  <1>. QED BY <1>2, <1>3, <1>4, <1>5, <1>6 DEF DefaultsInv

LEMMA RenameStep == ASSUME DefaultsInv, NEW p \in Processes, Rename(p) PROVE DefaultsInv'
  <1>. DEFINE name == saving[p].name
  <1>t. /\ DefaultsTypes /\ Disk /\ SavingRight(p) /\ saving[p].at = "rename"
        /\ temps \in [Siblings -> Inodes \cup {None}] /\ saving \in [Processes -> SavingStates]
    BY DEF DefaultsInv, DefaultsTypes, Rename, At
  <1>s. /\ UNCHANGED <<windows, files, cache, counter, asked, bounds>>
        /\ temps[name] # None /\ target' = temps[name] /\ temps' = [temps EXCEPT ![name] = None]
        /\ saving' = Overtake(p)
    BY DEF Rename
  <1>1. PICK file : file = temps[name]
    OBVIOUS
  <1>2. /\ name \in Siblings /\ file \in Inodes /\ file = saving[p].file /\ saving[p].settings \in Prefs
        /\ files[file].settings = saving[p].settings /\ Whole(file) /\ (windows => files[file].flushed)
        /\ file # None
    BY <1>1, <1>s, <1>t DEF SavingRight
  <1>3. /\ temps' \in [Siblings -> Inodes \cup {None}] /\ temps'[name] = None
        /\ \A n \in Siblings \ {name} : temps'[n] = temps[n]
    BY <1>s, <1>2, <1>t
  <1>4. \A n \in Siblings \ {name} : temps[n] # file
    BY <1>1, <1>2, <1>t DEF Disk
  <1>5. ~Public(file)
    BY <1>1, <1>2 DEF Public
  <1>6. Public(file)'
    BY <1>s, <1>2, <1>3, <1>4, BoundsAre DEF Public
  <1>7. \A i \in Inodes : Public(i) => Public(i)'
    BY <1>s, <1>3, BoundsAre DEF Public
  <1>8. FilesStay
    BY <1>1, <1>2, <1>5, <1>7, <1>s DEF FilesStay
  <1>9. Disk'
    <2>1. Public(target)' /\ Whole(target)' /\ (windows => files'[target'].flushed)
      BY <1>1, <1>2, <1>6, <1>s DEF Public, Whole
    <2>2. ASSUME NEW n \in Siblings, temps'[n] # None
          PROVE  files'[temps'[n]].settings # None /\ \A k \in Siblings : temps'[k] = temps'[n] => k = n
      BY <2>2, <1>3, <1>s, <1>t DEF Disk
    <2>. QED BY <2>1, <2>2, <1>s DEF Disk
  <1>10. Says(target)' = saving[p].settings
    BY <1>1, <1>2, <1>s DEF Says, Parsed, Whole
  <1>. QED BY <1>1, <1>2, <1>3, <1>8, <1>9, <1>10, <1>s, <1>t, TargetStep DEF At

LEMMA DeleteStep == ASSUME DefaultsInv, NEW p \in Processes, Delete(p) PROVE DefaultsInv'
  <1>t. /\ DefaultsTypes /\ Disk /\ SavingRight(p) /\ saving[p].at = "delete"
        /\ temps \in [Siblings -> Inodes \cup {None}]
    BY DEF DefaultsInv, DefaultsTypes, Delete, At
  <1>s. UNCHANGED <<windows, files, temps, cache, counter, asked, bounds>> /\ target' = None /\ saving' = Overtake(p)
    BY DEF Delete
  <1>1. FilesStay
    BY <1>s DEF FilesStay, Public
  <1>2. Disk'
    BY <1>s, <1>t DEF Disk
  <1>3. Says(target)' = saving[p].settings
    BY <1>s, <1>t DEF Says, SavingRight
  <1>. QED BY <1>1, <1>2, <1>3, <1>s, <1>t, TargetStep

LEMMA KeepSavedStep ==
  ASSUME DefaultsInv, NEW p \in Processes, NEW stamp, NEW misstamped \in BOOLEAN,
         KeepSaved(p, stamp, misstamped), UNCHANGED <<changes, cut>>,
         stamp \in {StampOf(target), None}, ~misstamped => stamp = StampOf(target) /\ ~saving[p].overtaken
  PROVE  DefaultsInv'
  <1>. DEFINE s == saving[p]
              m == saving[p].module
  <1>t. /\ DefaultsTypes /\ Disk /\ Counted /\ \A q \in Processes : SavingRight(q)
        /\ saving \in [Processes -> SavingStates] /\ cache \in [Modules -> CacheStates]
        /\ \A k \in Modules : AskedRight(k) /\ CacheRight(k)
    BY DEF DefaultsInv, DefaultsTypes
  <1>0. PICK c : c = [Cached(stamp, s.settings) EXCEPT !.misstamped = misstamped]
    OBVIOUS
  <1>s. /\ UNCHANGED <<windows, disk, counter, asked, changes, cut>> /\ s.at = "stamp"
        /\ cache' = [cache EXCEPT ![m] = c] /\ saving' = [saving EXCEPT ![p] = NotSaving]
    BY <1>0 DEF KeepSaved, At
  <1>1. /\ m \in Modules /\ s.settings \in Prefs \cup {Builtin} /\ s.overtaken \in BOOLEAN
        /\ ~s.overtaken => s.settings = Says(target)
    BY <1>s, <1>t DEF SavingRight, SavingStates
  <1>2. /\ c \in CacheStates /\ c.valid /\ c.stamp = stamp /\ c.value = s.settings
        /\ c.misstamped = misstamped
    BY <1>0, <1>1, <1>t, StampIs DEF Cached, CacheStates
  <1>3. /\ cache' \in [Modules -> CacheStates] /\ cache'[m] = c /\ \A k \in Modules \ {m} : cache'[k] = cache[k]
    BY <1>s, <1>t, <1>1, <1>2
  <1>4. /\ saving' \in [Processes -> SavingStates] /\ saving'[p] = NotSaving
        /\ \A q \in Processes \ {p} : saving'[q] = saving[q]
    BY <1>s, <1>t, NotSavingIs
  <1>5. FilesStay
    BY <1>s DEF FilesStay, disk, Public
  <1>6. DefaultsTypes' /\ Disk'
    BY <1>s, <1>t, <1>3, <1>4 DEF DefaultsTypes, Disk, disk, Public, Whole
  <1>7. Counted'
    <2>1. Used' = Used
      BY <1>s DEF Used, disk
    <2>2. Creating' \subseteq Creating /\ changes' = changes
      BY <1>s, <1>4, NotSavingIs DEF Creating, At
    <2>. QED BY <1>t, <2>1, <2>2, CountedStays
  <1>8. ASSUME NEW q \in Processes PROVE SavingRight(q)'
    <2>1. CASE q = p
      BY <2>1, <1>4, NotSavingIs DEF SavingRight
    <2>2. CASE q # p
      BY <2>2, <1>s, <1>t, <1>4 DEF SavingRight, disk, Whole, Says, Parsed
    <2>. QED BY <2>1, <2>2
  <1>9. \A k \in Modules : AskedRight(k)'
    BY <1>s, <1>t, <1>5, AskedStays
  <1>10. ASSUME NEW k \in Modules PROVE CacheRight(k)'
    <2>1. CASE k # m
      BY <2>1, <1>3, <1>5, <1>t, CacheStays
    <2>2. CASE k = m
      <3>1. c.stamp # None => Seen(c.stamp)
        BY <1>2, <1>t, StampIs
      <3>2. c.stamp # None => Seen(c.stamp)'
        BY <3>1, <1>5, SeenStays
      <3>3. ~c.misstamped /\ c.stamp = None => Says(target) = Builtin
        BY <1>2, <1>t, StampIs DEF Says
      <3>4. Says(target)' = Says(target)
        BY <1>s DEF disk, Says, Parsed
      <3>. QED BY <2>2, <1>1, <1>2, <1>3, <3>2, <3>3, <3>4, BoundsAre DEF CacheRight
    <2>. QED BY <2>1, <2>2
  <1>. QED BY <1>6, <1>7, <1>8, <1>9, <1>10 DEF DefaultsInv

LEMMA RememberStep ==
  ASSUME DefaultsInv, NEW p \in Processes, Remember(p) \/ RememberFails(p) PROVE DefaultsInv'
  <1>1. saving[p].overtaken \in BOOLEAN
    BY DEF DefaultsInv, DefaultsTypes, SavingStates
  <1>2. CASE Remember(p)
    BY <1>1, <1>2, KeepSavedStep DEF Remember, bounds
  <1>3. CASE RememberFails(p)
    BY <1>3, KeepSavedStep DEF RememberFails, Upset
  <1>. QED BY <1>2, <1>3

-----------------------------------------------------------------------------
(* UserDefaults: the beginning of a save and of a reset, and what restarts do. *)

\* A save begins: it is counted, and with it the file it may create.
LEMMA BeginStep ==
  ASSUME DefaultsInv, NEW p \in Processes, UNCHANGED <<windows, disk, cache, asked>>,
         saving[p].at = "idle", changes < MaxChanges, changes' = changes + 1, UNCHANGED cut,
         NEW s \in SavingStates, saving' = [saving EXCEPT ![p] = s], counter' \in [Modules -> 0 .. changes'],
         SavingRight(p)'
  PROVE  DefaultsInv'
  <1>t. /\ DefaultsTypes /\ Disk /\ Counted /\ \A q \in Processes : SavingRight(q)
        /\ \A m \in Modules : AskedRight(m) /\ CacheRight(m)
        /\ saving \in [Processes -> SavingStates] /\ changes \in Nat /\ MaxChanges \in Nat
    BY BoundsAre DEF DefaultsInv, DefaultsTypes
  <1>1. /\ saving' \in [Processes -> SavingStates] /\ saving'[p] = s
        /\ \A q \in Processes \ {p} : saving'[q] = saving[q]
    BY <1>t
  <1>2. FilesStay
    BY DEF FilesStay, disk, Public
  <1>3. changes' \in 0 .. MaxChanges
    BY <1>t
  <1>4. DefaultsTypes' /\ Disk'
    BY <1>t, <1>1, <1>3 DEF DefaultsTypes, Disk, disk, Public, Whole
  <1>5. Counted'
    <2>1. /\ IsFiniteSet(Creating) /\ Cardinality(Creating) \in Nat /\ p \notin Creating
          /\ Cardinality(Used) + Cardinality(Creating) <= changes
      BY <1>t, FS_CardinalityType DEF Counted, Creating, At
    <2>2. IsFiniteSet(Creating \cup {p}) /\ Cardinality(Creating \cup {p}) = Cardinality(Creating) + 1
      BY <2>1, FS_AddElement
    <2>3. Creating' \subseteq Creating \cup {p}
      BY <1>1 DEF Creating, At
    <2>4. /\ IsFiniteSet(Creating') /\ Cardinality(Creating') \in Nat
          /\ Cardinality(Creating') <= Cardinality(Creating) + 1
      BY <2>2, <2>3, FS_Subset, FS_CardinalityType
    <2>5. Used' = Used
      BY DEF Used, disk
    <2>6. Cardinality(Used') + Cardinality(Creating') <= changes'
      BY <1>t, <2>1, <2>4, <2>5, InodesFinite
    <2>. QED BY <2>4, <2>6 DEF Counted
  <1>6. ASSUME NEW q \in Processes \ {p} PROVE SavingRight(q)'
    BY <1>6, <1>1, <1>t DEF SavingRight, disk, Whole, Says, Parsed
  <1>7. \A m \in Modules : AskedRight(m)' /\ CacheRight(m)'
    BY <1>t, <1>2, AskedStays, CacheStays
  <1>. QED BY <1>4, <1>5, <1>6, <1>7 DEF DefaultsInv

LEMMA SaveStep == ASSUME DefaultsInv, NEW m \in Modules, NEW settings \in Prefs, Save(m, settings) PROVE DefaultsInv'
  <1>. DEFINE p == Process[m]
  <1>t. /\ counter \in [Modules -> 0 .. changes] /\ saving \in [Processes -> SavingStates]
        /\ changes \in Nat /\ MaxChanges \in Nat /\ p \in Processes
    BY BoundsAre, ProcessIs DEF DefaultsInv, DefaultsTypes
  <1>0. PICK s : s = [NotSaving EXCEPT !.at = "create", !.module = m, !.settings = settings, !.name = Name(m)]
    OBVIOUS
  <1>s. /\ UNCHANGED <<windows, disk, cache, asked>> /\ saving[p].at = "idle" /\ changes < MaxChanges
        /\ changes' = changes + 1 /\ UNCHANGED cut
        /\ saving' = [saving EXCEPT ![p] = s] /\ counter' = [counter EXCEPT ![m] = @ + 1]
    BY <1>0 DEF Save, Free
  <1>1. Name(m) \in Siblings /\ Name(m)[1] = p
    BY <1>s, <1>t DEF Name, Siblings
  <1>2. /\ s \in SavingStates /\ s.at = "create" /\ s.module = m /\ s.settings = settings
        /\ s.name = Name(m) /\ s.file = None
    BY <1>0, <1>1 DEF NotSaving, SavingStates
  <1>3. counter' \in [Modules -> 0 .. changes']
    BY <1>s, <1>t
  <1>4. saving'[p] = s
    BY <1>s, <1>t
  <1>5. SavingRight(p)'
    BY <1>1, <1>2, <1>4 DEF SavingRight
  <1>. QED BY <1>s, <1>t, <1>2, <1>3, <1>5, BeginStep

LEMMA ResetDefaultsStep == ASSUME DefaultsInv, NEW m \in Modules, ResetDefaults(m) PROVE DefaultsInv'
  <1>. DEFINE p == Process[m]
  <1>t. /\ counter \in [Modules -> 0 .. changes] /\ saving \in [Processes -> SavingStates]
        /\ changes \in Nat /\ MaxChanges \in Nat /\ p \in Processes
    BY BoundsAre, ProcessIs DEF DefaultsInv, DefaultsTypes
  <1>0. PICK s : s = [NotSaving EXCEPT !.at = "delete", !.module = m, !.settings = Builtin]
    OBVIOUS
  <1>s. /\ UNCHANGED <<windows, disk, cache, counter, asked>> /\ saving[p].at = "idle" /\ changes < MaxChanges
        /\ changes' = changes + 1 /\ UNCHANGED cut /\ saving' = [saving EXCEPT ![p] = s]
    BY <1>0 DEF ResetDefaults, Free
  <1>2. s \in SavingStates /\ s.at = "delete" /\ s.module = m /\ s.settings = Builtin /\ s.file = None
    BY <1>0 DEF NotSaving, SavingStates
  <1>3. counter' \in [Modules -> 0 .. changes']
    BY <1>s, <1>t
  <1>4. saving'[p] = s
    BY <1>s, <1>t
  <1>5. SavingRight(p)'
    BY <1>2, <1>4 DEF SavingRight
  <1>. QED BY <1>s, <1>t, <1>2, <1>3, <1>5, BeginStep

LEMMA EmptyIs ==
  /\ Empty \in CacheStates /\ ~Empty.valid /\ Empty.value # Refused
  /\ NotAsked \in AskedStates /\ NotSaving \in SavingStates
  BY BoundsAre, NotAskedIs, NotSavingIs DEF Empty, CacheStates

LEMMA RestartIs ==
  ASSUME DefaultsInv, NEW gone, Restart(gone), UNCHANGED changes
  PROVE  /\ cache' \in [Modules -> CacheStates] /\ counter' \in [Modules -> 0 .. changes']
         /\ asked' \in [Modules -> AskedStates] /\ saving' \in [Processes -> SavingStates]
         /\ \A m \in Modules :
              IF Process[m] \in gone THEN cache'[m] = Empty /\ asked'[m] = NotAsked
              ELSE cache'[m] = cache[m] /\ asked'[m] = asked[m]
         /\ \A p \in Processes : saving'[p] = IF p \in gone THEN NotSaving ELSE saving[p]
         /\ Creating' \subseteq Creating
  <1>t. /\ cache \in [Modules -> CacheStates] /\ counter \in [Modules -> 0 .. changes]
        /\ asked \in [Modules -> AskedStates] /\ saving \in [Processes -> SavingStates] /\ changes \in Nat
    BY BoundsAre DEF DefaultsInv, DefaultsTypes
  <1>1. \A p \in Processes : saving'[p] = IF p \in gone THEN NotSaving ELSE saving[p]
    BY DEF Restart
  <1>2. Creating' \subseteq Creating
    BY <1>1, NotSavingIs DEF Creating, At
  <1>3. \A m \in Modules : counter[m] \in 0 .. changes' /\ 0 \in 0 .. changes'
    BY <1>t
  <1>4. counter' \in [Modules -> 0 .. changes']
    BY <1>3 DEF Restart
  <1>. QED BY <1>t, <1>1, <1>2, <1>4, EmptyIs DEF Restart

LEMMA CrashStep == ASSUME DefaultsInv, NEW p \in Processes, Crash(p) PROVE DefaultsInv'
  <1>t. /\ DefaultsTypes /\ Disk /\ Counted /\ \A q \in Processes : SavingRight(q)
        /\ \A m \in Modules : AskedRight(m) /\ CacheRight(m)
    BY DEF DefaultsInv
  <1>s. Restart({p}) /\ UNCHANGED <<windows, disk, changes, cut>>
    BY DEF Crash, Upset
  <1>1. /\ cache' \in [Modules -> CacheStates] /\ counter' \in [Modules -> 0 .. changes']
        /\ asked' \in [Modules -> AskedStates] /\ saving' \in [Processes -> SavingStates]
        /\ \A m \in Modules :
             IF Process[m] \in {p} THEN cache'[m] = Empty /\ asked'[m] = NotAsked
             ELSE cache'[m] = cache[m] /\ asked'[m] = asked[m]
        /\ \A q \in Processes : saving'[q] = IF q \in {p} THEN NotSaving ELSE saving[q]
        /\ Creating' \subseteq Creating
    BY <1>s, RestartIs
  <1>2. FilesStay
    BY <1>s DEF FilesStay, disk, Public
  <1>3. DefaultsTypes' /\ Disk'
    BY <1>s, <1>t, <1>1 DEF DefaultsTypes, Disk, disk, Public, Whole
  <1>4. Counted'
    <2>1. Used' = Used
      BY <1>s DEF Used, disk
    <2>. QED BY <1>s, <1>t, <1>1, <2>1, CountedStays
  <1>5. ASSUME NEW q \in Processes PROVE SavingRight(q)'
    <2>1. CASE q = p
      BY <2>1, <1>1, NotSavingIs DEF SavingRight
    <2>2. CASE q # p
      <3>1. saving'[q] = saving[q]
        BY <2>2, <1>1
      <3>. QED BY <3>1, <1>s, <1>t DEF SavingRight, disk, Whole, Says, Parsed
    <2>. QED BY <2>1, <2>2
  <1>6. ASSUME NEW m \in Modules PROVE AskedRight(m)' /\ CacheRight(m)'
    <2>1. CASE Process[m] = p
      <3>1. cache'[m] = Empty /\ asked'[m] = NotAsked
        BY <2>1, <1>1
      <3>. QED BY <3>1, EmptyIs, NotAskedIs DEF AskedRight, CacheRight
    <2>2. CASE Process[m] # p
      <3>1. cache'[m] = cache[m] /\ asked'[m] = asked[m]
        BY <2>2, <1>1
      <3>. QED BY <3>1, <1>t, <1>2, AskedStays, CacheStays
    <2>. QED BY <2>1, <2>2
  <1>. QED BY <1>3, <1>4, <1>5, <1>6 DEF DefaultsInv

LEMMA PowerCutStep == ASSUME DefaultsInv, PowerCut PROVE DefaultsInv'
  <1>t. /\ DefaultsTypes /\ Disk /\ Counted /\ files \in [Inodes -> FileStates]
        /\ target \in Inodes \cup {None} /\ temps \in [Siblings -> Inodes \cup {None}]
    BY DEF DefaultsInv, DefaultsTypes
  <1>s. Restart(Processes) /\ UNCHANGED <<windows, target, temps, changes>> /\ cut'
    BY DEF PowerCut
  <1>1. PICK lost \in SUBSET {i \in InUse : ~files[i].flushed} :
          files' = [i \in Inodes |-> IF i \in lost THEN [files[i] EXCEPT !.blocks = 0] ELSE files[i]]
    BY DEF PowerCut
  <1>2. /\ cache' \in [Modules -> CacheStates] /\ counter' \in [Modules -> 0 .. changes']
        /\ asked' \in [Modules -> AskedStates] /\ saving' \in [Processes -> SavingStates]
        /\ \A m \in Modules : cache'[m] = Empty /\ asked'[m] = NotAsked
        /\ \A q \in Processes : saving'[q] = NotSaving
        /\ Creating' \subseteq Creating
    BY <1>s, RestartIs, ProcessIs
  <1>3. ASSUME NEW i \in Inodes
        PROVE  /\ files'[i] \in FileStates /\ files'[i].settings = files[i].settings
               /\ files[i].flushed => files'[i] = files[i]
    <2>1. files[i] \in FileStates /\ [files[i] EXCEPT !.blocks = 0] \in FileStates
          /\ [files[i] EXCEPT !.blocks = 0].settings = files[i].settings
      BY <1>t DEF FileStates
    <2>2. files'[i] = IF i \in lost THEN [files[i] EXCEPT !.blocks = 0] ELSE files[i]
      BY <1>1
    <2>. QED BY <2>1, <2>2
  <1>4. files' \in [Inodes -> FileStates]
    BY <1>1, <1>3
  <1>5. DefaultsTypes'
    BY <1>s, <1>t, <1>2, <1>4 DEF DefaultsTypes
  <1>6. Disk'
    <2>1. ASSUME target # None PROVE Public(target)' /\ (windows => Whole(target)' /\ files'[target].flushed)
      BY <1>s, <1>t, <1>3, <2>1 DEF Disk, Public, Whole
    <2>2. ASSUME NEW n \in Siblings, temps[n] # None PROVE files'[temps[n]].settings # None
      BY <2>2, <1>t, <1>3 DEF Disk
    <2>. QED BY <1>s, <1>t, <2>1, <2>2 DEF Disk
  <1>7. Counted'
    <2>1. Used' = Used
      BY <1>3 DEF Used
    <2>. QED BY <1>s, <1>t, <1>2, <2>1, CountedStays
  <1>8. \A p \in Processes : SavingRight(p)'
    BY <1>2, NotSavingIs DEF SavingRight
  <1>9. \A m \in Modules : AskedRight(m)' /\ CacheRight(m)'
    BY <1>2, EmptyIs, NotAskedIs DEF AskedRight, CacheRight
  <1>. QED BY <1>5, <1>6, <1>7, <1>8, <1>9 DEF DefaultsInv

-----------------------------------------------------------------------------
(* UserDefaults: the theorems. *)

LEMMA DefaultsStart == DefaultsInit => DefaultsInv
  <1>. SUFFICES ASSUME DefaultsInit PROVE DefaultsInv
    OBVIOUS
  <1>1. DefaultsTypes
    <2>1. [settings |-> None, blocks |-> 0, flushed |-> FALSE] \in FileStates
      BY DEF FileStates
    <2>2. files \in [Inodes -> FileStates] /\ cache \in [Modules -> CacheStates]
      BY <2>1, EmptyIs DEF DefaultsInit
    <2>3. asked \in [Modules -> AskedStates] /\ saving \in [Processes -> SavingStates]
      BY EmptyIs DEF DefaultsInit
    <2>4. changes \in 0 .. MaxChanges /\ counter \in [Modules -> 0 .. changes]
      BY BoundsAre DEF DefaultsInit
    <2>. QED BY <2>2, <2>3, <2>4 DEF DefaultsInit, DefaultsTypes
  <1>2. Disk
    BY DEF DefaultsInit, Disk
  <1>3. Used = {} /\ Creating = {}
    BY NotSavingIs DEF DefaultsInit, Used, Creating, At
  <1>4. Counted
    BY <1>3, FS_EmptySet DEF Counted, DefaultsInit
  <1>5. \A p \in Processes : SavingRight(p)
    BY NotSavingIs DEF DefaultsInit, SavingRight
  <1>6. \A m \in Modules : AskedRight(m) /\ CacheRight(m)
    BY EmptyIs, NotAskedIs DEF DefaultsInit, AskedRight, CacheRight
  <1>. QED BY <1>1, <1>2, <1>4, <1>5, <1>6 DEF DefaultsInv

LEMMA DefaultsStutter == ASSUME DefaultsInv, UNCHANGED defaultsVars PROVE DefaultsInv'
  <1>t. /\ DefaultsTypes /\ Disk /\ Counted /\ \A q \in Processes : SavingRight(q)
        /\ \A m \in Modules : AskedRight(m) /\ CacheRight(m)
    BY DEF DefaultsInv
  <1>s. UNCHANGED <<windows, files, target, temps, cache, counter, asked, saving, changes, cut>>
    BY DEF defaultsVars, disk, bounds
  <1>1. FilesStay
    BY <1>s DEF FilesStay, Public
  <1>2. DefaultsTypes' /\ Disk'
    BY <1>s, <1>t DEF DefaultsTypes, Disk, Public, Whole
  <1>3. Used' = Used /\ Creating' = Creating
    BY <1>s DEF Used, Creating, At
  <1>4. Counted'
    BY <1>s, <1>t, <1>3, CountedStays
  <1>5. \A p \in Processes : SavingRight(p)'
    BY <1>s, <1>t DEF SavingRight, Whole, Says, Parsed
  <1>6. \A m \in Modules : AskedRight(m)' /\ CacheRight(m)'
    BY <1>s, <1>t, <1>1, AskedStays, CacheStays
  <1>. QED BY <1>2, <1>4, <1>5, <1>6 DEF DefaultsInv

LEMMA DefaultsStep == DefaultsInv /\ [DefaultsNext]_defaultsVars => DefaultsInv'
  <1>. SUFFICES ASSUME DefaultsInv, [DefaultsNext]_defaultsVars PROVE DefaultsInv'
    OBVIOUS
  <1>1. ASSUME NEW m \in Modules, Stat(m) \/ Hit(m) \/ Miss(m) \/ TakeSize(m) \/ Read(m) \/ ResetDefaults(m)
                                  \/ StatFails(m) \/ ReadFails(m)
        PROVE  DefaultsInv'
    BY <1>1, StatStep, StatFailsStep, ReadFailsStep, HitStep, MissStep, TakeSizeStep, ReadStep, ResetDefaultsStep
  <1>2. ASSUME NEW m \in Modules, NEW s \in Prefs, Save(m, s) PROVE DefaultsInv'
    BY <1>2, SaveStep
  <1>3. ASSUME NEW p \in Processes, Create(p) \/ Taken(p) \/ Write(p) \/ Flush(p) \/ Rename(p)
        PROVE  DefaultsInv'
    BY <1>3, CreateStep, NameTakenStep, WriteStep, FlushStep, RenameStep
  <1>4. ASSUME NEW p \in Processes, Fails(p) \/ Remember(p) \/ RememberFails(p) \/ Delete(p) \/ Crash(p)
        PROVE  DefaultsInv'
    BY <1>4, FailsStep, RememberStep, DeleteStep, CrashStep
  <1>. QED BY <1>1, <1>2, <1>3, <1>4, PowerCutStep, DefaultsStutter DEF DefaultsNext

\* The inductive invariant of the defaults file and of the caches of it: what was
\* renamed into place is a whole document that nobody writes to any more, a stamp
\* that was taken of a file is that file's for good, and a save under way has its
\* sibling to itself.
THEOREM DefaultsInvariant == DefaultsSpec => []DefaultsInv
  BY DefaultsStart, DefaultsStep, PTL DEF DefaultsSpec

\* However many processes save and remove the defaults at the same moment, and
\* wherever a call fails, a process ends or the power goes, the defaults file is a
\* whole document (after a power cut, on Windows only); and on Windows no module
\* ever refuses what it has read of it.
THEOREM FileIsNeverTorn == DefaultsSpec => []NeverTorn
  <1>1. DefaultsInv => NeverTorn
    BY DEF DefaultsInv, Disk, CacheRight, NeverTorn
  <1>. QED BY <1>1, DefaultsInvariant, PTL

\* A module's cache whose stamp the file still has is what the file says, or that it
\* could not be read: reading the stamp before the file, and after the rename when
\* saving, never lets a module go on with settings that somebody has replaced (but for
\* a save whose stamp is not that of its own file).
THEOREM CachesFollowTheFile == DefaultsSpec => []CacheFollowsFile
  <1>1. DefaultsInv => CacheFollowsFile
    <2>. SUFFICES ASSUME DefaultsInv, NEW m \in Modules, cache[m].valid, ~cache[m].misstamped,
                         cache[m].stamp = StampOf(target)
                  PROVE  cache[m].value \in {Says(target), Unread}
      BY DEF CacheFollowsFile, Says
    <2>t. DefaultsTypes /\ Disk /\ CacheRight(m)
      BY DEF DefaultsInv
    <2>. QED BY <2>t, StampIs DEF CacheRight, Says
  <1>. QED BY <1>1, DefaultsInvariant, PTL
=============================================================================
