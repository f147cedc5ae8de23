------------------------- MODULE GpuFrameCacheProofs -------------------------
(***************************************************************************)
(* Theorems about GpuFrameCache, for clips of any length with any samples  *)
(* to start at and any undecodable runs, any number of slots and callers,  *)
(* and any number of calls, failures, trims and drops.                     *)
(***************************************************************************)
EXTENDS GpuFrameCache, FiniteSetTheorems, WellFoundedInduction, TLAPS

-----------------------------------------------------------------------------
(* The inductive invariant, in parts. *)

\* The map of frames and the slots agree, and only what was decoded is cached.
SlotsAgree ==
    /\ \A s \in Slots :
          slot[s].frame # None =>
             /\ slot[s].base /\ ~slot[s].writing
             /\ frameToSlot[slot[s].frame] = s
             /\ ~InRun(slot[s].frame, Runs)
    /\ \A f \in Frames : frameToSlot[f] # None => slot[frameToSlot[f]].frame = f

\* The engine has one owner, who fills at most the slot he reserved, for a frame
\* that is not cached; a caller's target is cached by nobody before it is served.
EngineAgrees ==
    /\ engineBusy <=> job # NoJob
    /\ \A s \in Slots : slot[s].writing <=> (job.phase \in {"allocate", "decode"} /\ job.slot = s)
    /\ job.phase = "reserve" => job.slot = None
    /\ job.phase = "allocate" => job.slot # None /\ ~slot[job.slot].base
    /\ job.phase = "decode" /\ job.slot # None => slot[job.slot].base
    /\ job.phase \in {"allocate", "decode"} /\ job.slot # None => frameToSlot[job.at] = None
    /\ job.phase \in {"reserve", "allocate", "decode"} /\ ~IsWorkers /\ job # NoJob
          => frameToSlot[job.target] = None
    /\ job.phase \in {"reserve", "allocate", "decode"} => job.at <= job.target
    /\ job.phase = "decode" /\ Pinned => job.slot # None
    /\ job.phase = "served" => job.slot # None /\ slot[job.slot].frame = job.target
    /\ job.phase \in {"served", "failed", "refused"} => ~IsWorkers
    /\ job.phase \in {"giveup", "done"} => IsWorkers
    /\ job # NoJob /\ ~IsWorkers => pc[job.owner] = "engine" /\ want[job.owner].frame = job.target

Holders(s) == {l \in AllLeases : LeaseOf(l).slot = s}
BeingServed(s) == IF job.phase = "served" /\ job.slot = s THEN 1 ELSE 0

\* A slot's pins are its leases, and the one its owner is about to hand out.
PinsAreLeases ==
    \A s \in Slots :
        /\ IsFiniteSet(Holders(s))
        /\ slot[s].pins = Cardinality(Holders(s)) + BeingServed(s)

\* f may be shown where k was asked for.
StandsFor(f, k) == f = k \/ (InRun(k, met) /\ f = HoldFor(k))

LeasesKept ==
    \A l \in AllLeases :
        /\ slot[LeaseOf(l).slot].frame = LeaseOf(l).frame
        /\ StandsFor(LeaseOf(l).frame, LeaseOf(l).asked)

\* A caller in a call asks for a frame that may be shown, or for one that cannot be decoded.
WantsKnown ==
    \A c \in Callers :
        pc[c] # "idle" =>
           /\ want[c].frame \in Frames /\ want[c].asked \in Frames
           /\ InRun(want[c].frame, Runs) \/ StandsFor(want[c].frame, want[c].asked)

\* The two counters count.
CountersCount ==
    /\ allocatedSlots = Cardinality({s \in Slots : slot[s].base})
    /\ foregroundWaiters = Cardinality({c \in Callers : pc[c] \in {"waiting", "awake"}})

CacheInv == SlotsAgree /\ EngineAgrees /\ PinsAreLeases /\ LeasesKept /\ WantsKnown /\ CountersCount

-----------------------------------------------------------------------------
(* Numbers. *)

\* A set of numbers that is not empty has a least element.
LEMMA LeastFrame == ASSUME NEW S \in SUBSET Nat, S # {} PROVE \E x \in S : \A y \in S : x <= y
  <1>. DEFINE R == {ss \in Nat \X Nat : ss[1] < ss[2]}
  <1>1. IsWellFoundedOn(R, Nat)
    BY NatLessThanWellFounded, Zenon DEF OpToRel
  <1>2. PICK x \in S : \A y \in S : ~ (<<y, x>> \in R)
    <2>. HIDE DEF R
    <2>. QED BY <1>1, WFMin, Zenon
  <1>3. ASSUME NEW y \in S PROVE x <= y
    <2>1. y < x => <<y, x>> \in R
      OBVIOUS
    <2>. QED BY <1>2, <2>1
  <1>. QED BY <1>3

\* FirstOf is that least element.
LEMMA FirstIs == ASSUME NEW S \in SUBSET Nat, S # {} PROVE FirstOf(S) \in S /\ \A y \in S : FirstOf(S) <= y
  BY LeastFrame DEF FirstOf

\* LastOf is the greatest element of a bounded set of numbers.
LEMMA LastIs ==
  ASSUME NEW n \in Nat, NEW S \in SUBSET (0 .. n), S # {} PROVE LastOf(S) \in S /\ \A y \in S : y <= LastOf(S)
  <1>. DEFINE T == {n - x : x \in S}
  <1>1. T \in SUBSET Nat /\ T # {}
    <2>1. \A x \in S : n - x \in Nat
      OBVIOUS
    <2>2. PICK x \in S : TRUE
      OBVIOUS
    <2>. QED BY <2>1, <2>2
  <1>2. PICK d \in T : \A e \in T : d <= e
    BY <1>1, LeastFrame
  <1>3. PICK x \in S : d = n - x
    BY <1>2
  <1>4. \A y \in S : y <= x
    BY <1>2, <1>3
  <1>. QED BY <1>4 DEF LastOf

\* Of two numbers, FirstOf and LastOf are the smaller and the larger.
LEMMA FirstOfTwo ==
  ASSUME NEW a \in Nat, NEW b \in Nat
  PROVE  FirstOf({a, b}) \in {a, b} /\ FirstOf({a, b}) <= a /\ FirstOf({a, b}) <= b
  <1>1. {a, b} \in SUBSET Nat /\ {a, b} # {}
    OBVIOUS
  <1>. QED BY <1>1, FirstIs

\* The same for the larger of two.
LEMMA LastOfTwo ==
  ASSUME NEW a \in Nat, NEW b \in Nat
  PROVE  LastOf({a, b}) \in {a, b} /\ a <= LastOf({a, b}) /\ b <= LastOf({a, b})
  <1>1. {a, b} \in SUBSET (0 .. a + b) /\ {a, b} # {} /\ a + b \in Nat
    OBVIOUS
  <1>. QED BY ONLY <1>1, LastIs

\* Frames and slots are initial segments of the numbers, None is in neither.
LEMMA FramesAreNumbers ==
  /\ FrameCount - 1 \in Nat /\ Frames = 0 .. FrameCount - 1 /\ 0 \in Frames /\ None \notin Frames
  /\ Slots = 0 .. Capacity - 1 /\ Capacity \in Nat /\ 0 \in Slots /\ None \notin Slots
  /\ IsFiniteSet(Slots) /\ Cardinality(Slots) = Capacity
  <1>1. IsFiniteSet(Slots) /\ Cardinality(Slots) = Capacity
    <2>1. Capacity \in Nat /\ Capacity >= 1 /\ 0 \in Int /\ Capacity - 1 \in Int
      BY CacheAssumption
    <2>2. IsFiniteSet(0 .. Capacity - 1)
          /\ Cardinality(0 .. Capacity - 1) = IF 0 > Capacity - 1 THEN 0 ELSE Capacity - 1 - 0 + 1
      BY ONLY <2>1, FS_Interval
    <2>. QED BY <2>1, <2>2 DEF Slots
  <1>. QED BY <1>1, CacheAssumption DEF Frames, Slots, None

-----------------------------------------------------------------------------
(* Runs, and the frame held in the place of one that lies in a run. *)

BeforeIn(f, runs) ==
    LET around == {r \in runs : r.first <= f /\ f < r.end}
    IN  IF around = {} THEN f ELSE FirstOf({r.first : r \in around}) - 1

\* A round leads down, but never past a frame outside all runs, and faster with more runs.
LEMMA RoundLeadsDown ==
  ASSUME NEW runs \in SUBSET Runs, NEW f \in Frames
  PROVE  /\ BeforeIn(f, runs) \in Frames /\ BeforeIn(f, runs) <= f
         /\ InRun(f, runs) => BeforeIn(f, runs) < f
         /\ ~InRun(f, runs) => BeforeIn(f, runs) = f
         /\ \A g \in Frames : g <= f /\ ~InRun(g, runs) => g <= BeforeIn(f, runs)
         /\ \A r \in runs : r.first <= f /\ f < r.end => BeforeIn(f, runs) < r.first
  <1>. DEFINE around == {r \in runs : r.first <= f /\ f < r.end}
              firsts == {r.first : r \in around}
  <1>0. (\A x \in Frames : x \in Nat) /\ \A r \in Runs : r.first \in Frames \ {0} /\ r.end \in Frames
    BY FramesAreNumbers, CacheAssumption
  <1>1. CASE around = {}
    BY <1>1, <1>0 DEF BeforeIn, InRun
  <1>2. CASE around # {}
    <2>1. firsts \in SUBSET Nat /\ firsts # {}
      BY <1>0, <1>2
    <2>2. FirstOf(firsts) \in firsts /\ \A y \in firsts : FirstOf(firsts) <= y
      BY <2>1, FirstIs
    <2>3. PICK r \in around : r.first = FirstOf(firsts)
      BY <2>2
    <2>4. BeforeIn(f, runs) = r.first - 1
      BY <1>2, <2>3 DEF BeforeIn
    <2>5. r.first \in 1 .. f /\ f < r.end /\ r \in runs
      BY <1>0, <2>3, FramesAreNumbers
    <2>6. r.first - 1 \in Frames
      BY <1>0, <2>5, FramesAreNumbers
    <2>7. ASSUME NEW g \in Frames, g <= f, ~InRun(g, runs) PROVE g <= r.first - 1
      BY <2>5, <2>7, <1>0 DEF InRun
    <2>8. ASSUME NEW q \in runs, q.first <= f /\ f < q.end PROVE r.first - 1 < q.first
      BY <2>2, <2>3, <2>8, <1>0
    <2>9. InRun(f, runs)
      BY <2>5 DEF InRun
    <2>. QED BY <2>4, <2>5, <2>6, <2>7, <2>8, <2>9, <1>0
  <1>. QED BY <1>1, <1>2

\* With more runs and from a lower frame a round ends no higher.
LEMMA RoundsKeepPace ==
  ASSUME NEW more \in SUBSET Runs, NEW runs \in SUBSET more,
         NEW f \in Frames, NEW g \in Frames, g <= f
  PROVE  BeforeIn(g, more) <= BeforeIn(f, runs)
  <1>0. (\A x \in Frames : x \in Nat) /\ \A r \in Runs : r.first \in Frames \ {0} /\ r.end \in Frames
    BY FramesAreNumbers, CacheAssumption
  <1>1. CASE ~InRun(f, runs)
    <2>1. BeforeIn(f, runs) = f /\ BeforeIn(g, more) <= g /\ BeforeIn(g, more) \in Frames
      BY <1>1, RoundLeadsDown
    <2>. QED BY <2>1, <1>0
  <1>2. CASE InRun(f, runs)
    <2>. DEFINE firsts == {r.first : r \in {q \in runs : q.first <= f /\ f < q.end}}
    <2>1. firsts \in SUBSET Nat /\ firsts # {} /\ {q \in runs : q.first <= f /\ f < q.end} # {}
      BY <1>0, <1>2 DEF InRun
    <2>2. PICK r \in runs : r.first <= f /\ f < r.end /\ BeforeIn(f, runs) = r.first - 1
      BY <2>1, FirstIs DEF BeforeIn
    <2>3. CASE r.first <= g
      <3>1. BeforeIn(g, more) < r.first /\ BeforeIn(g, more) \in Frames
        <4>1. r \in more /\ g < r.end
          BY <2>2, <1>0
        <4>. QED BY <4>1, <2>3, RoundLeadsDown
      <3>. QED BY <3>1, <2>2, <1>0
    <2>4. CASE ~(r.first <= g)
      <3>1. BeforeIn(g, more) <= g /\ BeforeIn(g, more) \in Frames
        BY RoundLeadsDown
      <3>. QED BY <3>1, <2>2, <2>4, <1>0
    <2>. QED BY <2>3, <2>4
  <1>. QED BY <1>1, <1>2

HoldIn(f, runs) == BeforeIn(BeforeIn(BeforeIn(BeforeIn(f, runs), runs), runs), runs)

\* Four rounds lead to a frame; from outside all runs they lead nowhere.
LEMMA HoldIsFrame ==
  ASSUME NEW runs \in SUBSET Runs, NEW f \in Frames
  PROVE  HoldIn(f, runs) \in Frames /\ (~InRun(f, runs) => HoldIn(f, runs) = f)
  BY RoundLeadsDown DEF HoldIn

\* A frame that can be decoded stays the one that is held, however many runs are met.
LEMMA HoldStays ==
  ASSUME NEW more \in SUBSET Runs, NEW runs \in SUBSET more, NEW f \in Frames,
         ~InRun(HoldIn(f, runs), Runs)
  PROVE  HoldIn(f, more) = HoldIn(f, runs)
  <1>. DEFINE a == BeforeIn(f, runs)  b == BeforeIn(a, runs)  c == BeforeIn(b, runs)  d == BeforeIn(c, runs)
              p == BeforeIn(f, more)  q == BeforeIn(p, more)  r == BeforeIn(q, more)  t == BeforeIn(r, more)
  <1>0. (\A x \in Frames : x \in Nat) /\ runs \in SUBSET Runs
    BY FramesAreNumbers
  <1>1. a \in Frames /\ b \in Frames /\ c \in Frames /\ d \in Frames /\ d <= c /\ c <= b /\ b <= a /\ a <= f
    BY <1>0, RoundLeadsDown
  <1>2. p \in Frames /\ q \in Frames /\ r \in Frames /\ t \in Frames
    BY RoundLeadsDown
  <1>3. ~InRun(d, more)
    BY DEF HoldIn, InRun
  <1>4. d <= f
    BY <1>0, <1>1
  <1>. HIDE DEF a, b, c, d
  <1>5. d <= p /\ p <= a
    <2>1. d <= p
      BY <1>1, <1>3, <1>4, RoundLeadsDown
    <2>2. f <= f
      BY <1>0
    <2>. QED BY <2>1, <2>2, RoundsKeepPace DEF a
  <1>6. d <= q /\ q <= b
    BY <1>0, <1>1, <1>2, <1>3, <1>5, RoundLeadsDown, RoundsKeepPace DEF b
  <1>7. d <= r /\ r <= c
    BY <1>0, <1>1, <1>2, <1>3, <1>6, RoundLeadsDown, RoundsKeepPace DEF c
  <1>8. d <= t /\ t <= d
    BY <1>0, <1>1, <1>2, <1>3, <1>7, RoundLeadsDown, RoundsKeepPace DEF d
  <1>9. t = d
    BY <1>0, <1>1, <1>2, <1>8
  <1>. QED BY <1>9 DEF HoldIn, a, b, c, d

\* The model's HoldFor, before and after a step, in terms of HoldIn.
LEMMA HoldForIs ==
  /\ \A f : HoldFor(f) = HoldIn(f, met)
  /\ \A f : HoldFor(f)' = HoldIn(f, met')
  <1>1. \A f : BeforeRun(f) = BeforeIn(f, met)
    BY DEF BeforeRun, BeforeIn
  <1>2. \A f : BeforeRun(f)' = BeforeIn(f, met')
    BY DEF BeforeRun, BeforeIn
  <1>. QED BY <1>1, <1>2 DEF HoldFor, HoldIn

-----------------------------------------------------------------------------
(* The decoder's plans and the choice of a slot. *)

\* A decode starts at a frame, no later than its target.
LEMMA PlanIsBefore ==
  ASSUME TypeOK, NEW f \in Frames PROVE PlanStart(f) \in Frames /\ PlanStart(f) <= f
  <1>0. /\ \A x \in Frames : x \in Nat
        /\ FrameCount - 1 \in Nat /\ Frames = 0 .. FrameCount - 1
    BY FramesAreNumbers
  <1>1. ASSUME NEW l \in {0, 1} PROVE LensStart(l, f) \in Frames /\ LensStart(l, f) <= f
    <2>. DEFINE S == {s \in LensSyncs[l] : s <= f}
    <2>1. S \in SUBSET Frames /\ 0 \in S
      BY <1>0, FramesAreNumbers, CacheAssumption
    <2>2. LastOf(S) \in S
      BY <1>0, <2>1, LastIs
    <2>. QED BY <2>1, <2>2 DEF LensStart
  <1>. DEFINE starts == {LensStart(l, f) : l \in {0, 1}}
  <1>2. starts \in SUBSET (0 .. FrameCount - 1) /\ starts # {}
    BY <1>0, <1>1
  <1>3. LastOf(starts) \in starts
    BY <1>0, <1>2, LastIs
  <1>4. LastOf(starts) \in Frames /\ LastOf(starts) <= f
    BY <1>1, <1>3
  <1>5. PlanStart(f) = LastOf(starts) \/ (PlanStart(f) = engineNext /\ engineNext # None /\ engineNext <= f)
    BY DEF PlanStart
  <1>6. engineNext # None /\ engineNext <= f => engineNext \in Frames
    BY <1>0 DEF TypeOK, OrNone
  <1>. QED BY <1>4, <1>5, <1>6

\* What the worker goes for is a frame, if there is something.
LEMMA MissingIsFrame == ASSUME TypeOK PROVE FirstMissingAhead \in OrNone(Frames)
  <1>. DEFINE missing == {f \in Frames : /\ InAheadWindow(f) /\ f > ahead.base
                                         /\ frameToSlot[f] = None /\ ~InRun(f, met)}
  <1>1. missing \in SUBSET Nat
    BY FramesAreNumbers
  <1>2. missing # {} => FirstOf(missing) \in missing
    BY <1>1, FirstIs
  <1>. QED BY <1>2 DEF FirstMissingAhead, OrNone

\* The length of the window is a number.
LEMMA AheadWindowIsNat == aheadWindow \in Nat
  <1>1. ASSUME Capacity > 2 PROVE FirstOf({DecodeAhead, Capacity - 2}) \in Nat
    <2>1. Capacity - 2 \in Nat /\ DecodeAhead \in Nat
      BY <1>1, CacheAssumption, FramesAreNumbers
    <2>. QED BY <2>1, FirstOfTwo
  <1>. QED BY <1>1, FramesAreNumbers DEF aheadWindow

\* A window begins and ends with frames of the clip.
LEMMA WindowIsOfFrames ==
  ASSUME NEW base \in Frames PROVE WindowFrom(base) \in [base : Frames, end : Frames]
  <1>1. base + aheadWindow \in Nat /\ FrameCount - 1 \in Nat
    BY AheadWindowIsNat, FramesAreNumbers
  <1>2. /\ FirstOf({base + aheadWindow, FrameCount - 1}) \in {base + aheadWindow, FrameCount - 1}
        /\ FirstOf({base + aheadWindow, FrameCount - 1}) <= FrameCount - 1
    BY <1>1, FirstOfTwo
  <1>3. FirstOf({base + aheadWindow, FrameCount - 1}) \in Frames
    BY <1>1, <1>2, FramesAreNumbers
  <1>. QED BY <1>3 DEF WindowFrom

\* A request leaves a window of frames.
LEMMA NotedAccess ==
  ASSUME TypeOK, NEW k \in Frames, NoteAccess(k)
  PROVE  lastRequest' \in OrNone(Frames) /\ ahead' \in {NoAhead} \cup [base : Frames, end : Frames]
  <1>1. ahead # NoAhead => LastOf({ahead.base, k}) \in Frames
    <2>1. ahead # NoAhead => ahead.base \in Frames
      BY DEF TypeOK
    <2>. QED BY <2>1, LastOfTwo, FramesAreNumbers
  <1>. QED BY <1>1, WindowIsOfFrames DEF NoteAccess, TypeOK, OrNone

\* The ranks of the slots go up to their number.
LEMMA RankedType == ASSUME NEW use PROVE Ranked(use) \in [Slots -> 0 .. Capacity]
  <1>1. ASSUME NEW s \in Slots
        PROVE  Cardinality({t \in Slots : 0 < use[t] /\ use[t] <= use[s]}) \in 0 .. Capacity
    <2>. DEFINE T == {t \in Slots : 0 < use[t] /\ use[t] <= use[s]}
    <2>1. T \in SUBSET Slots
      OBVIOUS
    <2>2. IsFiniteSet(T) /\ Cardinality(T) <= Capacity
      BY <2>1, FS_Subset, FramesAreNumbers
    <2>. QED BY <2>2, FS_CardinalityType, FramesAreNumbers
  <1>. QED BY <1>1 DEF Ranked

\* The slot reserved is nobody's: it is not being filled, and has no pins if it has memory.
LEMMA ReservedIsFree ==
  ASSUME TypeOK, NEW spec \in BOOLEAN, Reserved(spec) # None
  PROVE  /\ Reserved(spec) \in Slots
         /\ ~slot[Reserved(spec)].writing
         /\ slot[Reserved(spec)].base => slot[Reserved(spec)].pins = 0
  <1>0. Slots \in SUBSET Nat
    BY FramesAreNumbers
  <1>1. CASE EmptySlots(spec) # {}
    <2>1. Reserved(spec) \in EmptySlots(spec)
      BY <1>0, <1>1, FirstIs DEF Reserved, EmptySlots
    <2>. QED BY <2>1 DEF EmptySlots, Evictable
  <1>2. CASE EmptySlots(spec) = {} /\ MayGrow /\ UnusedSlots # {}
    <2>1. Reserved(spec) \in UnusedSlots
      BY <1>0, <1>2, FirstIs DEF Reserved, UnusedSlots
    <2>. QED BY <2>1 DEF UnusedSlots
  <1>3. CASE EmptySlots(spec) = {} /\ ~(MayGrow /\ UnusedSlots # {})
    <2>. DEFINE V == Victims(spec)  stamps == {lastUse[s] : s \in V}
    <2>1. V # {} /\ Reserved(spec) = CHOOSE s \in V : \A t \in V : lastUse[s] <= lastUse[t]
      BY <1>3 DEF Reserved
    <2>2. V \in SUBSET Slots /\ \A s \in Slots : lastUse[s] \in Nat
      BY FramesAreNumbers DEF Victims, TypeOK
    <2>3. stamps \in SUBSET Nat /\ stamps # {}
      BY <2>1, <2>2
    <2>4. PICK x \in stamps : \A y \in stamps : x <= y
      BY <2>3, LeastFrame
    <2>5. \E s \in V : \A t \in V : lastUse[s] <= lastUse[t]
      BY <2>4
    <2>6. Reserved(spec) \in V
      BY <2>1, <2>5
    <2>. QED BY <2>6 DEF Victims, Evictable
  <1>. QED BY <1>1, <1>2, <1>3

-----------------------------------------------------------------------------
(* Leases: taking one and giving one back. *)

LeaseRecord == [slot : Slots, frame : Frames, asked : Frames]

\* The holders of slot s among the leases ls.
HoldersIn(ls, s) == {l \in Callers \X Nat : l[2] \in 1 .. Len(ls[l[1]]) /\ ls[l[1]][l[2]].slot = s}

\* AllLeases and Holders in terms of the sequences of leases.
LEMMA LeasesAre ==
  ASSUME leases \in [Callers -> Seq(LeaseRecord)]
  PROVE  /\ AllLeases = {l \in Callers \X Nat : l[2] \in 1 .. Len(leases[l[1]])}
         /\ \A s : Holders(s) = HoldersIn(leases, s)
         /\ \A l \in AllLeases : LeaseOf(l) \in LeaseRecord
  <1>1. \A c \in Callers : DOMAIN leases[c] = 1 .. Len(leases[c]) /\ Len(leases[c]) \in Nat
    OBVIOUS
  <1>2. AllLeases = {l \in Callers \X Nat : l[2] \in 1 .. Len(leases[l[1]])}
    BY <1>1 DEF AllLeases
  <1>3. \A s : Holders(s) = HoldersIn(leases, s)
    BY <1>2 DEF Holders, HoldersIn, LeaseOf
  <1>4. \A l \in AllLeases : LeaseOf(l) \in LeaseRecord
    BY <1>1, <1>2 DEF LeaseOf
  <1>. QED BY <1>2, <1>3, <1>4

\* The same after a step.
LEMMA LeasesAreNext ==
  ASSUME leases' \in [Callers -> Seq(LeaseRecord)]
  PROVE  /\ AllLeases' = {l \in Callers \X Nat : l[2] \in 1 .. Len(leases'[l[1]])}
         /\ \A s : Holders(s)' = HoldersIn(leases', s)
  <1>1. \A c \in Callers : DOMAIN leases'[c] = 1 .. Len(leases'[c]) /\ Len(leases'[c]) \in Nat
    OBVIOUS
  <1>2. AllLeases' = {l \in Callers \X Nat : l[2] \in 1 .. Len(leases'[l[1]])}
    BY <1>1 DEF AllLeases
  <1>3. \A s : Holders(s)' = HoldersIn(leases', s)
    BY <1>2 DEF Holders, HoldersIn, LeaseOf
  <1>. QED BY <1>2, <1>3

\* A lease more: one holder more of its slot.
LEMMA LeaseTaken ==
  ASSUME leases \in [Callers -> Seq(LeaseRecord)], NEW c \in Callers, NEW x \in LeaseRecord,
         leases' = [leases EXCEPT ![c] = Append(@, x)]
  PROVE  /\ leases' \in [Callers -> Seq(LeaseRecord)]
         /\ \A l \in AllLeases' : LeaseOf(l)' = x \/ (l \in AllLeases /\ LeaseOf(l)' = LeaseOf(l))
         /\ \A s : IsFiniteSet(Holders(s)) =>
               /\ IsFiniteSet(Holders(s)')
               /\ Cardinality(Holders(s)') = Cardinality(Holders(s)) + (IF x.slot = s THEN 1 ELSE 0)
  <1>. DEFINE new == <<c, Len(leases[c]) + 1>>
  <1>1. leases' \in [Callers -> Seq(LeaseRecord)]
    OBVIOUS
  <1>2. /\ \A b \in Callers : b # c => leases'[b] = leases[b]
        /\ Len(leases'[c]) = Len(leases[c]) + 1 /\ Len(leases[c]) \in Nat
        /\ \A i \in 1 .. Len(leases[c]) : leases'[c][i] = leases[c][i]
        /\ leases'[c][Len(leases[c]) + 1] = x
    OBVIOUS
  <1>3. \A l \in AllLeases' : LeaseOf(l)' = x \/ (l \in AllLeases /\ LeaseOf(l)' = LeaseOf(l))
    BY <1>1, <1>2, LeasesAre, LeasesAreNext DEF LeaseOf
  <1>4. ASSUME NEW s, IsFiniteSet(Holders(s))
        PROVE  /\ IsFiniteSet(Holders(s)')
               /\ Cardinality(Holders(s)') = Cardinality(Holders(s)) + (IF x.slot = s THEN 1 ELSE 0)
    <2>. DEFINE H == HoldersIn(leases, s)
    <2>1. Holders(s) = H /\ Holders(s)' = HoldersIn(leases', s)
      BY <1>1, LeasesAre, LeasesAreNext
    <2>2. new \notin H
      BY <1>2 DEF HoldersIn
    <2>3. HoldersIn(leases', s) = IF x.slot = s THEN H \cup {new} ELSE H
      BY <1>2 DEF HoldersIn
    <2>4. IsFiniteSet(H) /\ Cardinality(H) \in Nat
      BY <1>4, <2>1, FS_CardinalityType
    <2>. HIDE DEF H, new
    <2>5. IsFiniteSet(H \cup {new}) /\ Cardinality(H \cup {new}) = Cardinality(H) + 1
      BY <2>2, <2>4, FS_AddElement
    <2>. QED BY <2>1, <2>3, <2>4, <2>5
  <1>. QED BY <1>1, <1>3, <1>4

\* Taking an element out of a sequence moves those behind it up.
TakenOut(p, i) == SubSeq(p, 1, i - 1) \o SubSeq(p, i + 1, Len(p))

LEMMA OneTakenOut ==
  ASSUME NEW D, NEW p \in Seq(D), NEW i \in 1 .. Len(p)
  PROVE  /\ TakenOut(p, i) \in Seq(D) /\ Len(TakenOut(p, i)) = Len(p) - 1
         /\ \A j \in 1 .. Len(p) - 1 : TakenOut(p, i)[j] = IF j < i THEN p[j] ELSE p[j + 1]
  <1>0. Len(p) \in Nat /\ i \in Nat /\ 1 <= i /\ i <= Len(p)
    OBVIOUS
  <1>1. PICK a : a = SubSeq(p, 1, i - 1)
    OBVIOUS
  <1>2. a \in Seq(D) /\ Len(a) = i - 1 /\ \A j \in 1 .. i - 1 : a[j] = p[j]
    BY <1>0, <1>1
  <1>3. PICK b : b = SubSeq(p, i + 1, Len(p))
    OBVIOUS
  <1>4. b \in Seq(D) /\ Len(b) = Len(p) - i /\ \A j \in 1 .. Len(p) - i : b[j] = p[i + j]
    BY <1>0, <1>3
  <1>5. PICK q : q = a \o b
    OBVIOUS
  <1>6. /\ q \in Seq(D) /\ Len(q) = Len(p) - 1
        /\ \A j \in 1 .. Len(p) - 1 : q[j] = IF j <= i - 1 THEN a[j] ELSE b[j - (i - 1)]
    <2>1. /\ q \in Seq(D) /\ Len(q) = Len(a) + Len(b)
          /\ \A j \in 1 .. Len(a) + Len(b) : q[j] = IF j <= Len(a) THEN a[j] ELSE b[j - Len(a)]
      <3>1. a \in Seq(D) /\ b \in Seq(D)
        BY <1>2, <1>4
      <3>. QED BY ONLY <1>5, <3>1
    <2>2. Len(a) = i - 1 /\ Len(a) + Len(b) = Len(p) - 1
      BY <1>0, <1>2, <1>4
    <2>. QED BY ONLY <2>1, <2>2
  <1>7. ASSUME NEW j \in 1 .. Len(p) - 1 PROVE q[j] = IF j < i THEN p[j] ELSE p[j + 1]
    <2>0. /\ j \in Int /\ 1 <= j /\ j <= Len(p) - 1
          /\ q[j] = IF j <= i - 1 THEN a[j] ELSE b[j - (i - 1)]
      BY <1>0, <1>6
    <2>1. CASE j < i
      <3>1. j \in 1 .. i - 1 /\ j <= i - 1
        BY ONLY <1>0, <2>0, <2>1
      <3>. QED BY <1>2, <2>0, <2>1, <3>1
    <2>2. CASE ~(j < i)
      <3>1. j - (i - 1) \in 1 .. Len(p) - i /\ i + (j - (i - 1)) = j + 1 /\ ~(j <= i - 1)
        BY ONLY <1>0, <2>0, <2>2
      <3>. QED BY <1>4, <2>0, <2>2, <3>1
    <2>. QED BY <2>1, <2>2
  <1>8. q = TakenOut(p, i)
    BY <1>1, <1>3, <1>5 DEF TakenOut
  <1>. QED BY <1>6, <1>7, <1>8

\* A lease less: the other leases stay, and its slot has one holder less.
LEMMA LeaseReturned ==
  ASSUME leases \in [Callers -> Seq(LeaseRecord)], NEW c \in Callers, NEW i \in DOMAIN leases[c],
         leases' = [leases EXCEPT ![c] = SubSeq(@, 1, i - 1) \o SubSeq(@, i + 1, Len(@))]
  PROVE  /\ leases' \in [Callers -> Seq(LeaseRecord)]
         /\ \A l \in AllLeases' : \E m \in AllLeases : LeaseOf(l)' = LeaseOf(m)
         /\ \A s : IsFiniteSet(Holders(s)) =>
               /\ IsFiniteSet(Holders(s)')
               /\ Cardinality(Holders(s)') = Cardinality(Holders(s)) - (IF leases[c][i].slot = s THEN 1 ELSE 0)
  <1>. DEFINE p == leases[c]
              q == TakenOut(p, i)
  <1>0. p \in Seq(LeaseRecord) /\ Len(p) \in Nat /\ i \in 1 .. Len(p)
    OBVIOUS
  <1>1. /\ q \in Seq(LeaseRecord) /\ Len(q) = Len(p) - 1
        /\ \A j \in 1 .. Len(q) : q[j] = IF j < i THEN p[j] ELSE p[j + 1]
    <2>. HIDE DEF p
    <2>1. /\ q \in Seq(LeaseRecord) /\ Len(q) = Len(p) - 1
          /\ \A j \in 1 .. Len(p) - 1 : q[j] = IF j < i THEN p[j] ELSE p[j + 1]
      BY <1>0, OneTakenOut
    <2>. QED BY <2>1
  <1>2. leases'[c] = q /\ (\A b \in Callers : b # c => leases'[b] = leases[b])
        /\ leases' \in [Callers -> Seq(LeaseRecord)]
    BY <1>1 DEF TakenOut
  <1>a. ASSUME NEW j \in Nat, j \in 1 .. Len(q), j < i PROVE q[j] = p[j] /\ j \in 1 .. Len(p)
    BY <1>0, <1>1, <1>a
  <1>b. ASSUME NEW j \in Nat, j \in 1 .. Len(q), ~(j < i)
        PROVE  q[j] = p[j + 1] /\ j + 1 \in 1 .. Len(p) /\ j + 1 > i /\ j + 1 \in Nat
    <2>1. j + 1 \in 1 .. Len(p) /\ j + 1 > i /\ j + 1 \in Nat
      BY <1>0, <1>1, <1>b
    <2>. HIDE DEF q, p
    <2>. QED BY <1>1, <1>b, <2>1
  <1>c. ASSUME NEW j \in Nat, j \in 1 .. Len(p), j < i PROVE j \in 1 .. Len(q)
    BY <1>0, <1>1, <1>c
  <1>. HIDE DEF q
  <1>3. ASSUME NEW l \in AllLeases' PROVE \E m \in AllLeases : LeaseOf(l)' = LeaseOf(m)
    <2>1. l \in Callers \X Nat /\ l[2] \in 1 .. Len(leases'[l[1]])
      BY <1>2, LeasesAreNext
    <2>2. CASE l[1] # c \/ l[2] < i
      <3>1. l \in AllLeases /\ LeaseOf(l)' = LeaseOf(l)
        <4>1. CASE l[1] # c
          BY <1>2, <2>1, <4>1, LeasesAre DEF LeaseOf
        <4>2. CASE l[1] = c /\ l[2] < i
          <5>1. q[l[2]] = p[l[2]] /\ l[2] \in 1 .. Len(p)
            BY <1>2, <1>a, <2>1, <4>2
          <5>. QED BY <1>2, <2>1, <4>2, <5>1, LeasesAre DEF LeaseOf
        <4>. QED BY <2>2, <4>1, <4>2
      <3>. QED BY <3>1
    <2>3. CASE l[1] = c /\ ~(l[2] < i)
      <3>1. <<c, l[2] + 1>> \in AllLeases
        BY <1>2, <1>b, <2>1, <2>3, LeasesAre
      <3>2. LeaseOf(l)' = q[l[2]] /\ LeaseOf(<<c, l[2] + 1>>) = p[l[2] + 1]
        BY <1>2, <2>3 DEF LeaseOf
      <3>3. LeaseOf(l)' = LeaseOf(<<c, l[2] + 1>>)
        BY <1>2, <1>b, <2>1, <2>3, <3>2
      <3>. QED BY <3>1, <3>3
    <2>. QED BY <2>2, <2>3
  <1>4. ASSUME NEW s, IsFiniteSet(Holders(s))
        PROVE  /\ IsFiniteSet(Holders(s)')
               /\ Cardinality(Holders(s)') = Cardinality(Holders(s)) - (IF p[i].slot = s THEN 1 ELSE 0)
    <2>. DEFINE H == HoldersIn(leases, s)
                S == H \ {<<c, i>>}
                T == HoldersIn(leases', s)
                F(l) == IF l[1] = c /\ l[2] > i THEN <<c, l[2] - 1>> ELSE l
                f == [l \in S |-> F(l)]
    <2>1. Holders(s) = H /\ Holders(s)' = T
      BY <1>2, LeasesAre, LeasesAreNext
    <2>2. ASSUME NEW l \in S PROVE l[1] \in Callers /\ l[2] \in Nat /\ l = <<l[1], l[2]>>
                                   /\ l[2] \in 1 .. Len(leases[l[1]]) /\ leases[l[1]][l[2]].slot = s
                                   /\ (l[1] = c => l[2] # i)
      BY DEF HoldersIn
    <2>3. ASSUME NEW l \in S PROVE F(l) \in T
      <3>1. CASE l[1] # c
        BY <2>2, <3>1, <1>2 DEF HoldersIn
      <3>2. CASE l[1] = c /\ l[2] < i
        <4>1. l[2] \in 1 .. Len(q) /\ q[l[2]] = p[l[2]]
          BY <2>2, <3>2, <1>a, <1>c
        <4>. QED BY <2>2, <3>2, <4>1, <1>0, <1>2 DEF HoldersIn
      <3>3. CASE l[1] = c /\ l[2] > i
        <4>1. l[2] - 1 \in 1 .. Len(q) /\ ~(l[2] - 1 < i) /\ l[2] - 1 \in Nat
          BY <2>2, <3>3, <1>0, <1>1
        <4>2. q[l[2] - 1] = p[l[2] - 1 + 1] /\ l[2] - 1 + 1 = l[2]
          <5>1. l[2] - 1 + 1 = l[2]
            BY <2>2
          <5>. QED BY <4>1, <5>1, <1>b
        <4>3. F(l) = <<c, l[2] - 1>>
          BY <3>3
        <4>4. q[l[2] - 1].slot = s
          BY <2>2, <3>3, <4>2
        <4>5. PICK n : n = l[2] - 1
          OBVIOUS
        <4>6. <<c, n>> \in T
          BY <4>1, <4>4, <4>5, <1>2 DEF HoldersIn
        <4>. QED BY <4>3, <4>5, <4>6
      <3>. QED BY <2>2, <3>1, <3>2, <3>3, <1>0
    <2>4. ASSUME NEW m \in T PROVE \E l \in S : F(l) = m
      <3>1. m[1] \in Callers /\ m[2] \in Nat /\ m = <<m[1], m[2]>>
            /\ m[2] \in 1 .. Len(leases'[m[1]]) /\ leases'[m[1]][m[2]].slot = s
        <4>1. m \in Callers \X Nat /\ m[2] \in 1 .. Len(leases'[m[1]]) /\ leases'[m[1]][m[2]].slot = s
          BY DEF HoldersIn
        <4>. QED BY ONLY <4>1
      <3>2. CASE m[1] # c
        BY <3>1, <3>2, <1>2 DEF HoldersIn
      <3>3. CASE m[1] = c /\ m[2] < i
        <4>1. m[2] \in 1 .. Len(p) /\ q[m[2]] = p[m[2]]
          BY <3>1, <3>3, <1>a, <1>2
        <4>2. m \in S
          BY <3>1, <3>3, <4>1, <1>0, <1>2 DEF HoldersIn
        <4>. QED BY <4>2, <3>3, <3>1, <1>0
      <3>4. CASE m[1] = c /\ ~(m[2] < i)
        <4>1. m[2] + 1 \in 1 .. Len(p) /\ p[m[2] + 1].slot = s /\ m[2] + 1 \in Nat /\ m[2] + 1 > i /\ m[2] + 1 # i
          <5>1. m[2] \in Nat /\ m[2] \in 1 .. Len(q) /\ ~(m[2] < i) /\ q[m[2]].slot = s
            BY <3>1, <3>4, <1>2
          <5>2. q[m[2]] = p[m[2] + 1] /\ m[2] + 1 \in 1 .. Len(p) /\ m[2] + 1 > i /\ m[2] + 1 \in Nat
            BY <5>1, <1>b
          <5>. QED BY <5>1, <5>2, <1>0
        <4>2. <<c, m[2] + 1>> \in S
          BY <4>1 DEF HoldersIn
        <4>3. F(<<c, m[2] + 1>>) = m
          BY <3>1, <3>4, <4>1
        <4>. QED BY <4>2, <4>3
      <3>. QED BY <3>2, <3>3, <3>4
    <2>5. ASSUME NEW l \in S, NEW m \in S, F(l) = F(m) PROVE l = m
      <3>1. l[1] = m[1] /\ l[2] = m[2]
        BY <2>2, <2>5, <1>0
      <3>. QED BY <2>2, <3>1
    <2>6. f \in Bijection(S, T)
      <3>. HIDE DEF F, S, T
      <3>1. f \in [S -> T]
        BY <2>3
      <3>2. \A l, m \in S : f[l] = f[m] => l = m
        BY <2>5
      <3>3. \A m \in T : \E l \in S : f[l] = m
        BY <2>4
      <3>. HIDE DEF f
      <3>. QED BY <3>1, <3>2, <3>3 DEF Bijection, Injection, Surjection, IsInjective
    <2>7. <<c, i>> \in H <=> p[i].slot = s
      BY <1>0 DEF HoldersIn
    <2>8. IsFiniteSet(H) /\ Cardinality(H) \in Nat
      BY <1>4, <2>1, FS_CardinalityType
    <2>. HIDE DEF H, T, f
    <2>9. IsFiniteSet(S) /\ Cardinality(S) = IF <<c, i>> \in H THEN Cardinality(H) - 1 ELSE Cardinality(H)
      BY <2>8, FS_RemoveElement
    <2>10. IsFiniteSet(T) /\ Cardinality(T) = Cardinality(S)
      <3>. HIDE DEF S
      <3>. QED BY <2>6, <2>9, FS_Bijection DEF ExistsBijection
    <2>. QED BY <2>1, <2>7, <2>8, <2>9, <2>10
  <1>. QED BY <1>2, <1>3, <1>4

-----------------------------------------------------------------------------
(* What the calls that contend for a frame have in common. *)

\* The callers that wait are woken or left, c goes to x.
Moved(c, x) ==
    /\ pc' \in [Callers -> Places] /\ pc'[c] = x
    /\ \A b \in Callers \ {c} : pc'[b] = pc[b] \/ (pc[b] = "waiting" /\ pc'[b] = "awake")

Hit(c) ==
    LET s == frameToSlot[want[c].frame] IN
    /\ s # None
    /\ slot' = [slot EXCEPT ![s].pins = @ + 1]
    /\ leases' = [leases EXCEPT ![c] = Append(@, Lease(c, s))]
    /\ want' = [want EXCEPT ![c] = NoWant]
    /\ UNCHANGED <<frameToSlot, engineBusy, job>>

Own(c) ==
    /\ frameToSlot[want[c].frame] = None /\ ~engineBusy
    /\ engineBusy' = TRUE
    /\ job' = [owner |-> c, target |-> want[c].frame, at |-> PlanStart(want[c].frame), slot |-> None,
               phase |-> "reserve"]
    /\ UNCHANGED <<slot, frameToSlot, want, leases>>

Busy(c) ==
    /\ frameToSlot[want[c].frame] = None /\ engineBusy
    /\ UNCHANGED <<slot, frameToSlot, engineBusy, job, want, leases>>

Left(c) == foregroundWaiters - (IF pc[c] = "awake" THEN 1 ELSE 0)

\* Waking everyone who waits moves those who wait, and nobody else.
LEMMA WokenAre ==
  ASSUME NEW p \in [Callers -> Places]
  PROVE  /\ Woken(p) \in [Callers -> Places]
         /\ \A b \in Callers : Woken(p)[b] = IF p[b] = "waiting" THEN "awake" ELSE p[b]
  BY DEF Woken, Places

\* Entering the loop and waking up in it lead to the same three outcomes.
LEMMA Contended ==
  ASSUME TypeOK, NEW c \in Callers, Enter(c) \/ Wake(c)
  PROVE  /\ pc[c] \in {"call", "awake"}
         /\ UNCHANGED <<usableSlots, allocatedSlots, engineNext, met>>
         /\ \/ Hit(c) /\ Moved(c, "idle") /\ foregroundWaiters' = Left(c)
            \/ Own(c) /\ Moved(c, "engine") /\ foregroundWaiters' = Left(c)
            \/ Busy(c) /\ Moved(c, "waiting") /\ foregroundWaiters' = Left(c) + 1
         /\ lastUse' \in [Slots -> 0 .. Capacity]
  <1>1. ASSUME NEW p, NEW n, Contend(c, p, n), p = pc \/ p = Woken(pc)
        PROVE  /\ \/ Hit(c) /\ Moved(c, "idle") /\ foregroundWaiters' = n
                  \/ Own(c) /\ Moved(c, "engine") /\ foregroundWaiters' = n
                  \/ Busy(c) /\ Moved(c, "waiting") /\ foregroundWaiters' = n + 1
               /\ lastUse' \in [Slots -> 0 .. Capacity]
    <2>0. /\ p \in [Callers -> Places]
          /\ \A b \in Callers : p[b] = pc[b] \/ (pc[b] = "waiting" /\ p[b] = "awake")
      <3>1. pc \in [Callers -> Places]
        BY DEF TypeOK
      <3>2. CASE p = pc
        BY <3>1, <3>2
      <3>3. CASE p = Woken(pc)
        <4>1. Woken(pc) \in [Callers -> Places]
              /\ \A b \in Callers : Woken(pc)[b] = IF pc[b] = "waiting" THEN "awake" ELSE pc[b]
          BY ONLY <3>1, WokenAre
        <4>. QED BY <3>3, <4>1
      <3>. QED BY <1>1, <3>2, <3>3
    <2>1. ASSUME NEW x \in Places, pc' = [p EXCEPT ![c] = x] PROVE Moved(c, x)
      BY <2>0, <2>1 DEF Moved
    <2>2. lastUse' \in [Slots -> 0 .. Capacity]
      <3>1. \A s : Touch(s) => lastUse' \in [Slots -> 0 .. Capacity]
        BY RankedType DEF Touch
      <3>. QED BY <1>1, <3>1 DEF Contend, TypeOK
    <2>. QED BY <1>1, <2>1, <2>2 DEF Contend, Hit, Own, Busy, Places
  <1>2. ASSUME Enter(c)
        PROVE  /\ pc[c] = "call" /\ UNCHANGED <<usableSlots, allocatedSlots, engineNext, met>>
               /\ Contend(c, pc, foregroundWaiters) \/ Contend(c, Woken(pc), foregroundWaiters)
    BY <1>2 DEF Enter
  <1>3. ASSUME Wake(c)
        PROVE  /\ pc[c] = "awake" /\ UNCHANGED <<usableSlots, allocatedSlots, engineNext, met>>
               /\ Contend(c, pc, foregroundWaiters - 1) \/ Contend(c, Woken(pc), foregroundWaiters - 1)
    BY <1>3 DEF Wake, OneFewerWaits
  <1>4. foregroundWaiters \in Int
    BY CacheAssumption, FS_CardinalityType DEF TypeOK
  <1>5. CASE Enter(c)
    BY <1>1, <1>2, <1>4, <1>5 DEF Left
  <1>6. CASE Wake(c)
    BY <1>1, <1>3, <1>4, <1>6 DEF Left
  <1>. QED BY <1>5, <1>6

-----------------------------------------------------------------------------
(* The counters. *)

Waiters(p) == {c \in Callers : p[c] \in {"waiting", "awake"}}
Based(t) == {s \in Slots : t[s].base}

\* One caller moves and others are woken: only the one who moves changes the number of waiters.
LEMMA WaitersCount ==
  ASSUME NEW p, NEW q, NEW c \in Callers,
         \A b \in Callers \ {c} : q[b] = p[b] \/ (p[b] = "waiting" /\ q[b] = "awake")
  PROVE  /\ Cardinality(Waiters(p)) \in Nat
         /\ Cardinality(Waiters(q)) = Cardinality(Waiters(p))
                                      - (IF c \in Waiters(p) THEN 1 ELSE 0) + (IF c \in Waiters(q) THEN 1 ELSE 0)
  <1>. DEFINE W == Waiters(p) \ {c}
  <1>1. IsFiniteSet(Waiters(p)) /\ Cardinality(Waiters(p)) \in Nat
    <2>1. Waiters(p) \in SUBSET Callers
      BY DEF Waiters
    <2>. QED BY <2>1, CacheAssumption, FS_Subset, FS_CardinalityType
  <1>2. IsFiniteSet(W) /\ Cardinality(W) = IF c \in Waiters(p) THEN Cardinality(Waiters(p)) - 1
                                           ELSE Cardinality(Waiters(p))
    BY <1>1, FS_RemoveElement
  <1>3. Waiters(q) = IF c \in Waiters(q) THEN W \cup {c} ELSE W
    BY DEF Waiters
  <1>4. c \notin W
    OBVIOUS
  <1>. HIDE DEF W
  <1>5. IsFiniteSet(W \cup {c}) /\ Cardinality(W \cup {c}) = Cardinality(W) + 1
    BY <1>2, <1>4, FS_AddElement
  <1>6. Cardinality(W) \in Nat
    BY <1>2, FS_CardinalityType
  <1>7. CASE c \in Waiters(q)
    <2>1. Cardinality(Waiters(q)) = Cardinality(W) + 1
      BY <1>3, <1>5, <1>7
    <2>. QED BY <1>1, <1>2, <1>6, <1>7, <2>1
  <1>8. CASE c \notin Waiters(q)
    <2>1. Cardinality(Waiters(q)) = Cardinality(W)
      BY <1>3, <1>8
    <2>. QED BY <1>1, <1>2, <1>6, <1>8, <2>1
  <1>. QED BY <1>7, <1>8

\* There are at most Capacity slots with memory.
LEMMA BasedCount ==
  ASSUME NEW t
  PROVE  IsFiniteSet(Based(t)) /\ Cardinality(Based(t)) \in 0 .. Capacity
  <1>1. Based(t) \in SUBSET Slots
    BY DEF Based
  <1>2. IsFiniteSet(Based(t)) /\ Cardinality(Based(t)) <= Capacity
    BY <1>1, FramesAreNumbers, FS_Subset
  <1>. QED BY <1>2, FS_CardinalityType, FramesAreNumbers

-----------------------------------------------------------------------------
(* What each of the steps does to the slots. *)

SlotRecord == [base : BOOLEAN, frame : OrNone(Frames), pins : Nat, writing : BOOLEAN]

\* The slots are records of the right type.
LEMMA SlotsAre == ASSUME TypeOK PROVE slot \in [Slots -> SlotRecord]
  BY DEF TypeOK, SlotRecord

\* The fields of a slot can be set one by one.
LEMMA SlotFields ==
  ASSUME NEW r \in SlotRecord
  PROVE  /\ \A f \in OrNone(Frames) : [r EXCEPT !.frame = f] \in SlotRecord
         /\ \A n \in Nat : [r EXCEPT !.pins = n] \in SlotRecord
         /\ \A b \in BOOLEAN : [r EXCEPT !.writing = b] \in SlotRecord
         /\ \A b \in BOOLEAN : [r EXCEPT !.base = b] \in SlotRecord
         /\ EmptySlot \in SlotRecord
  <1>1. None \in OrNone(Frames) /\ 0 \in Nat
    BY DEF OrNone
  <1>. QED BY <1>1, Zenon DEF SlotRecord, EmptySlot

\* The slots S, which nobody holds, lose their frames.
Emptied(S) ==
    /\ S \in SUBSET {s \in Slots : Unheld(s)}
    /\ slot' \in [Slots -> SlotRecord]
    /\ \A s \in Slots \ S : slot'[s] = slot[s]
    /\ \A s \in S : slot'[s].frame = None /\ slot'[s].pins = 0 /\ ~slot'[s].writing
    /\ Unmap(S)
    /\ lastUse' \in [Slots -> 0 .. Capacity]

\* dropCachedFrames empties slots that nobody holds, and keeps their memory.
LEMMA DropEmpties ==
  ASSUME TypeOK, DropCachedFrames
  PROVE  \E S : Emptied(S) /\ UNCHANGED allocatedSlots /\ \A s \in S : slot'[s].base = slot[s].base
  <1>. DEFINE S == {s \in Slots : Unheld(s) /\ slot[s].frame # None}
  <1>1. slot' = [s \in Slots |-> IF s \in S THEN [slot[s] EXCEPT !.frame = None] ELSE slot[s]]
        /\ Unmap(S) /\ Forget(S) /\ allocatedSlots' = allocatedSlots
    BY DEF DropCachedFrames
  <1>2. \A s \in Slots : slot[s] \in SlotRecord /\ [slot[s] EXCEPT !.frame = None] \in SlotRecord
    <2>1. \A s \in Slots : slot[s] \in SlotRecord
      BY DEF TypeOK, SlotRecord
    <2>. QED BY <2>1, SlotFields DEF OrNone
  <1>3. S \in SUBSET {s \in Slots : Unheld(s)} /\ \A s \in S : slot[s].pins = 0 /\ ~slot[s].writing
    BY DEF Unheld
  <1>. HIDE DEF S
  <1>4. \A s \in Slots : slot'[s] = IF s \in S THEN [slot[s] EXCEPT !.frame = None] ELSE slot[s]
    BY <1>1
  <1>5. slot' \in [Slots -> SlotRecord]
    BY <1>1, <1>2
  <1>6. \A s \in S : slot'[s].frame = None /\ slot'[s].pins = 0 /\ ~slot'[s].writing
                     /\ slot'[s].base = slot[s].base
    BY <1>2, <1>3, <1>4 DEF SlotRecord
  <1>7. lastUse' \in [Slots -> 0 .. Capacity]
    BY <1>1, RankedType DEF Forget
  <1>. QED BY <1>1, <1>3, <1>4, <1>5, <1>6, <1>7 DEF Emptied

\* The slots S lose their memory as well.
Detaches(S) ==
    Emptied(S) /\ allocatedSlots' = allocatedSlots - Cardinality(S) /\ \A s \in S : ~slot'[s].base

\* trimForIdle empties and detaches slots that nobody holds.
LEMMA DetachEmpties == ASSUME TypeOK, NEW k, Detach(k) PROVE \E S : Detaches(S)
  <1>. DEFINE S == Detached(k)
  <1>1. slot' = [s \in Slots |-> IF s \in S THEN EmptySlot ELSE slot[s]]
        /\ Unmap(S) /\ Forget(S) /\ allocatedSlots' = allocatedSlots - Cardinality(S)
    BY DEF Detach
  <1>2. S \in SUBSET {s \in Slots : Unheld(s)}
    BY DEF Detached
  <1>3. EmptySlot \in SlotRecord /\ \A s \in Slots : slot[s] \in SlotRecord
    <2>1. \A s \in Slots : slot[s] \in SlotRecord
      BY DEF TypeOK, SlotRecord
    <2>2. 0 \in Slots
      BY FramesAreNumbers
    <2>. QED BY <2>1, <2>2, SlotFields
  <1>. HIDE DEF S
  <1>4. slot' \in [Slots -> SlotRecord] /\ \A s \in Slots : slot'[s] = IF s \in S THEN EmptySlot ELSE slot[s]
    BY <1>1, <1>3
  <1>5. lastUse' \in [Slots -> 0 .. Capacity]
    BY <1>1, RankedType DEF Forget
  <1>. QED BY <1>1, <1>2, <1>4, <1>5 DEF Detaches, Emptied, EmptySlot

\* The calls that give memory back touch nothing but free slots.
LEMMA GivesBack ==
  ASSUME TypeOK, DropCachedFrames \/ Trim \/ TrimWake
  PROVE  /\ UNCHANGED <<usableSlots, engineBusy, engineNext, met, job, foregroundWaiters, want, leases, stopping>>
         /\ pc' = pc \/ pc' = Woken(pc)
         /\ \/ UNCHANGED <<slot, frameToSlot, lastUse, allocatedSlots>>
            \/ \E S : Detaches(S)
            \/ \E S : Emptied(S) /\ UNCHANGED allocatedSlots /\ \A s \in S : slot'[s].base = slot[s].base
  <1>. USE DEF engine, calls
  <1>1. CASE DropCachedFrames
    BY <1>1, DropEmpties DEF DropCachedFrames
  <1>2. CASE Trim
    BY <1>2, DetachEmpties DEF Trim
  <1>3. CASE TrimWake
    BY <1>3, DetachEmpties DEF TrimWake
  <1>. QED BY <1>1, <1>2, <1>3

\* Slot s, which is nobody's, becomes the one being filled.
Takes(s) ==
    /\ s \in Slots /\ frameToSlot[job.at] = None
    /\ ~slot[s].writing /\ (slot[s].base => slot[s].pins = 0)
    /\ job' = [job EXCEPT !.slot = s, !.phase = IF slot[s].base THEN "decode" ELSE "allocate"]
    /\ slot' \in [Slots -> SlotRecord] /\ \A t \in Slots \ {s} : slot'[t] = slot[t]
    /\ slot'[s].frame = None /\ slot'[s].writing
    /\ slot'[s].base = slot[s].base /\ slot'[s].pins = slot[s].pins
    /\ Unmap({s})

\* The three outcomes of Reserve.
LEMMA ReserveTakes ==
  ASSUME TypeOK, Reserve
  PROVE  /\ job.phase = "reserve"
         /\ UNCHANGED <<usableSlots, allocatedSlots, engineBusy, engineNext, met, foregroundWaiters, calls>>
         /\ lastUse' \in [Slots -> 0 .. Capacity]
         /\ \/ UNCHANGED <<slot, frameToSlot>> /\ Pinned /\ job' = [job EXCEPT !.phase = "refused"]
            \/ UNCHANGED <<slot, frameToSlot>> /\ ~Pinned
               /\ job' = [job EXCEPT !.slot = None, !.phase = "decode"]
            \/ \E s : Takes(s)
  <1>. DEFINE s == IF frameToSlot[job.at] # None THEN None ELSE Reserved(IsWorkers)
  <1>1. CASE s = None
    BY <1>1 DEF Reserve, cache, TypeOK
  <1>2. CASE s # None
    <2>1. s = Reserved(IsWorkers) /\ frameToSlot[job.at] = None
      BY <1>2
    <2>2. s \in Slots /\ ~slot[s].writing /\ (slot[s].base => slot[s].pins = 0)
      <3>1. IsWorkers \in BOOLEAN
        BY DEF IsWorkers
      <3>. QED BY <1>2, <2>1, <3>1, ReservedIsFree
    <2>3. /\ job.phase = "reserve"
          /\ job' = [job EXCEPT !.slot = s, !.phase = IF slot[s].base THEN "decode" ELSE "allocate"]
          /\ slot' = [slot EXCEPT ![s].frame = None, ![s].writing = TRUE]
          /\ Unmap({s}) /\ Forget({s})
          /\ UNCHANGED <<usableSlots, allocatedSlots, engineBusy, engineNext, met, foregroundWaiters, calls>>
      BY <1>2 DEF Reserve
    <2>4. /\ slot' \in [Slots -> SlotRecord] /\ \A t \in Slots \ {s} : slot'[t] = slot[t]
          /\ slot'[s].frame = None /\ slot'[s].writing
          /\ slot'[s].base = slot[s].base /\ slot'[s].pins = slot[s].pins
      <3>. DEFINE u == [slot[s] EXCEPT !.frame = None]  v == [u EXCEPT !.writing = TRUE]
      <3>1. slot \in [Slots -> SlotRecord] /\ slot[s] \in SlotRecord
        BY <2>2, SlotsAre
      <3>2. u \in SlotRecord /\ v \in SlotRecord
        BY <3>1, SlotFields DEF OrNone
      <3>3. v.frame = None /\ v.writing /\ v.base = slot[s].base /\ v.pins = slot[s].pins
        BY <3>1 DEF SlotRecord
      <3>4. slot' = [slot EXCEPT ![s] = v]
        BY <2>2, <2>3, <3>1
      <3>. HIDE DEF u, v
      <3>. QED BY <2>2, <3>1, <3>2, <3>3, <3>4
    <2>5. lastUse' \in [Slots -> 0 .. Capacity]
      BY <2>3, RankedType DEF Forget
    <2>. QED BY <2>1, <2>2, <2>3, <2>4, <2>5 DEF Takes
  <1>. QED BY <1>1, <1>2

-----------------------------------------------------------------------------
(* The counters count, whatever happens. *)

\* Waking those who wait does not change their number.
LEMMA WaitersStay ==
  ASSUME TypeOK, pc' = pc \/ pc' = Woken(pc) PROVE Waiters(pc') = Waiters(pc)
  <1>1. pc \in [Callers -> Places]
    BY DEF TypeOK
  <1>2. \A c \in Callers : Woken(pc)[c] = IF pc[c] = "waiting" THEN "awake" ELSE pc[c]
    BY ONLY <1>1, WokenAre
  <1>. QED BY <1>2 DEF Waiters

\* The engine's owner is a caller unless he is the worker.
LEMMA OwnerIsCaller ==
  ASSUME TypeOK, EngineAgrees, job.phase \in {"served", "failed", "refused"}
  PROVE  /\ job.owner \in Callers /\ pc[job.owner] = "engine" /\ want[job.owner].frame = job.target
         /\ job # NoJob /\ job.target \in Frames
  <1>1. job # NoJob /\ ~IsWorkers
    BY DEF EngineAgrees, NoJob
  <1>. QED BY <1>1 DEF TypeOK, EngineAgrees, IsWorkers

\* Who finishes stops being at the engine, and everybody who waits is woken.
LEMMA FinishMoves ==
  ASSUME TypeOK, EngineAgrees, Finish
  PROVE  Moved(job.owner, "call") \/ Moved(job.owner, "idle")
  <1>. DEFINE c == job.owner
              again == job.phase # "served" /\ want[c].retry /\ HoldFor(want[c].asked) # want[c].asked
              p == [pc EXCEPT ![c] = IF again THEN "call" ELSE "idle"]
  <1>1. c \in Callers /\ pc' = Woken(p)
    BY OwnerIsCaller DEF Finish, LetGo
  <1>. HIDE DEF again
  <1>2. pc \in [Callers -> Places] /\ p \in [Callers -> Places] /\ p[c] \in {"call", "idle"}
        /\ \A b \in Callers \ {c} : p[b] = pc[b]
    BY <1>1 DEF TypeOK, Places
  <1>. HIDE DEF p
  <1>3. pc' \in [Callers -> Places]
        /\ \A b \in Callers : pc'[b] = IF p[b] = "waiting" THEN "awake" ELSE p[b]
    BY <1>1, <1>2, WokenAre
  <1>. QED BY <1>1, <1>2, <1>3 DEF Moved

\* foregroundWaiters counts the callers in the wait, after every step.
LEMMA WaitersStep ==
  ASSUME TypeOK, EngineAgrees, CountersCount, [Next]_vars
  PROVE  foregroundWaiters' = Cardinality(Waiters(pc'))
  <1>0. foregroundWaiters = Cardinality(Waiters(pc)) /\ foregroundWaiters \in Nat
    <2>1. foregroundWaiters = Cardinality(Waiters(pc))
      BY DEF CountersCount, Waiters
    <2>. QED BY <2>1, CacheAssumption, FS_CardinalityType DEF TypeOK
  <1>1. ASSUME NEW c \in Callers, NEW x \in Places, Moved(c, x)
        PROVE  Cardinality(Waiters(pc')) = Cardinality(Waiters(pc))
                  - (IF pc[c] \in {"waiting", "awake"} THEN 1 ELSE 0)
                  + (IF x \in {"waiting", "awake"} THEN 1 ELSE 0)
    <2>1. /\ \A b \in Callers \ {c} : pc'[b] = pc[b] \/ (pc[b] = "waiting" /\ pc'[b] = "awake")
          /\ pc'[c] = x
      BY <1>1 DEF Moved
    <2>2. Cardinality(Waiters(pc')) = Cardinality(Waiters(pc))
             - (IF c \in Waiters(pc) THEN 1 ELSE 0) + (IF c \in Waiters(pc') THEN 1 ELSE 0)
      BY <2>1, WaitersCount
    <2>3. (c \in Waiters(pc) <=> pc[c] \in {"waiting", "awake"})
          /\ (c \in Waiters(pc') <=> x \in {"waiting", "awake"})
      BY <2>1 DEF Waiters
    <2>. QED BY <2>2, <2>3
  <1>2. ASSUME NEW c \in Callers, NEW k \in Frames, Ask(c, k)
        PROVE  foregroundWaiters' = Cardinality(Waiters(pc'))
    <2>1. Moved(c, "call") /\ "call" \in Places /\ pc[c] = "idle" /\ foregroundWaiters' = foregroundWaiters
      BY <1>2 DEF Ask, Moved, TypeOK, Places
    <2>2. Cardinality(Waiters(pc')) = Cardinality(Waiters(pc)) - 0 + 0
      BY <1>1, <2>1
    <2>. QED BY <1>0, <2>1, <2>2
  <1>3. ASSUME NEW c \in Callers, Enter(c) \/ Wake(c)
        PROVE  foregroundWaiters' = Cardinality(Waiters(pc'))
    <2>1. /\ pc[c] \in {"call", "awake"}
          /\ \/ Moved(c, "idle") /\ foregroundWaiters' = Left(c)
             \/ Moved(c, "engine") /\ foregroundWaiters' = Left(c)
             \/ Moved(c, "waiting") /\ foregroundWaiters' = Left(c) + 1
      BY <1>3, Contended
    <2>2. {"idle", "engine", "waiting"} \subseteq Places
      BY DEF Places
    <2>3. CASE pc[c] = "call"
      BY <1>0, <1>1, <2>1, <2>2, <2>3 DEF Left
    <2>4. CASE pc[c] = "awake"
      BY <1>0, <1>1, <2>1, <2>2, <2>4 DEF Left
    <2>. QED BY <2>1, <2>3, <2>4
  <1>4. ASSUME Finish PROVE foregroundWaiters' = Cardinality(Waiters(pc'))
    <2>1. job.owner \in Callers /\ pc[job.owner] = "engine" /\ foregroundWaiters' = foregroundWaiters
      BY <1>4, OwnerIsCaller DEF Finish
    <2>2. Moved(job.owner, "call") \/ Moved(job.owner, "idle")
      BY <1>4, FinishMoves
    <2>3. {"idle", "call"} \subseteq Places
      BY DEF Places
    <2>4. Cardinality(Waiters(pc')) = Cardinality(Waiters(pc)) - 0 + 0
      BY <1>1, <2>1, <2>2, <2>3
    <2>. QED BY <1>0, <2>1, <2>4
  <1>5. ASSUME UNCHANGED foregroundWaiters, pc' = pc \/ pc' = Woken(pc)
        PROVE  foregroundWaiters' = Cardinality(Waiters(pc'))
    BY <1>0, <1>5, WaitersStay
  <1>6. ASSUME NEW c \in Callers, Release(c) PROVE foregroundWaiters' = Cardinality(Waiters(pc'))
    BY <1>5, <1>6 DEF Release
  <1>7. CASE Reserve
    BY <1>5, <1>7, ReserveTakes DEF calls
  <1>8. CASE Allocate \/ FailDecode \/ GiveUp \/ WorkerCheck \/ Shutdown
    BY <1>5, <1>8 DEF Allocate, FailDecode, GiveUp, WorkerCheck, Shutdown, calls
  <1>9. CASE Publish \/ WorkerFinish
    BY <1>5, <1>9 DEF Publish, WorkerFinish, LetGo
  <1>10. CASE DropCachedFrames \/ Trim \/ TrimWake
    BY <1>5, <1>10, GivesBack
  <1>11. CASE Finished \/ UNCHANGED vars
    BY <1>5, <1>11 DEF Finished, vars, calls
  <1>. QED BY <1>2, <1>3, <1>4, <1>6, <1>7, <1>8, <1>9, <1>10, <1>11 DEF Next, OwnerStep

\* allocatedSlots counts the slots with memory, after every step.
LEMMA AllocatedStep ==
  ASSUME TypeOK, EngineAgrees, CountersCount, [Next]_vars
  PROVE  allocatedSlots' = Cardinality(Based(slot'))
  <1>0. allocatedSlots = Cardinality(Based(slot)) /\ IsFiniteSet(Based(slot)) /\ allocatedSlots \in Nat
    <2>1. allocatedSlots = Cardinality(Based(slot))
      BY DEF CountersCount, Based
    <2>. QED BY <2>1, BasedCount DEF TypeOK
  <1>. USE SlotsAre
  <1>1. ASSUME UNCHANGED allocatedSlots, \A s \in Slots : slot'[s].base = slot[s].base
        PROVE  allocatedSlots' = Cardinality(Based(slot'))
    <2>1. Based(slot') = Based(slot)
      BY <1>1 DEF Based
    <2>. QED BY <1>0, <1>1, <2>1
  <1>2. ASSUME NEW S, Detaches(S) PROVE allocatedSlots' = Cardinality(Based(slot'))
    <2>1. S \in SUBSET Based(slot) /\ Based(slot') = Based(slot) \ S
      BY <1>2 DEF Detaches, Emptied, Unheld, Based
    <2>2. IsFiniteSet(S) /\ Cardinality(Based(slot) \ S) = Cardinality(Based(slot)) - Cardinality(Based(slot) \cap S)
      BY <1>0, <2>1, FS_Difference, FS_Subset
    <2>3. Based(slot) \cap S = S
      BY <2>1
    <2>. QED BY <1>0, <1>2, <2>1, <2>2, <2>3 DEF Detaches
  <1>3. CASE Allocate
    <2>1. /\ job.slot \in Slots /\ ~slot[job.slot].base
      BY <1>3 DEF Allocate, EngineAgrees, TypeOK, NoJob, OrNone
    <2>2. CASE slot' = [slot EXCEPT ![job.slot].base = TRUE] /\ allocatedSlots' = allocatedSlots + 1
      <3>1. Based(slot') = Based(slot) \cup {job.slot} /\ job.slot \notin Based(slot)
        BY <2>1, <2>2 DEF Based, TypeOK
      <3>2. Cardinality(Based(slot) \cup {job.slot}) = Cardinality(Based(slot)) + 1
        BY <1>0, <3>1, FS_AddElement
      <3>. QED BY <1>0, <2>2, <3>1, <3>2
    <2>3. CASE slot' = [slot EXCEPT ![job.slot].writing = FALSE] /\ UNCHANGED allocatedSlots
      <3>1. \A s \in Slots : slot'[s].base = slot[s].base
        BY <2>1, <2>3 DEF TypeOK
      <3>. QED BY <1>1, <2>3, <3>1
    <2>. QED BY <1>3, <2>2, <2>3 DEF Allocate
  <1>4. ASSUME NEW c \in Callers, NEW k \in Frames, Ask(c, k) PROVE allocatedSlots' = Cardinality(Based(slot'))
    BY <1>1, <1>4 DEF Ask, cache
  <1>5. ASSUME NEW c \in Callers, Enter(c) \/ Wake(c) PROVE allocatedSlots' = Cardinality(Based(slot'))
    <2>1. UNCHANGED allocatedSlots /\ (Hit(c) \/ Own(c) \/ Busy(c))
      BY <1>5, Contended
    <2>2. \A s \in Slots : slot'[s].base = slot[s].base
      BY <2>1 DEF Hit, Own, Busy, SlotRecord
    <2>. QED BY <1>1, <2>1, <2>2
  <1>6. ASSUME NEW c \in Callers, Release(c) PROVE allocatedSlots' = Cardinality(Based(slot'))
    <2>1. \A s \in Slots : slot'[s].base = slot[s].base
      BY <1>6 DEF Release, SlotRecord
    <2>. QED BY <1>1, <1>6, <2>1 DEF Release
  <1>7. CASE Reserve
    <2>1. UNCHANGED allocatedSlots /\ (UNCHANGED slot \/ \E s : Takes(s))
      BY <1>7, ReserveTakes
    <2>2. \A s \in Slots : slot'[s].base = slot[s].base
      BY <2>1 DEF Takes, SlotRecord
    <2>. QED BY <1>1, <2>1, <2>2
  <1>8. CASE Publish
    <2>1. \A s \in Slots : slot'[s].base = slot[s].base
      BY <1>8 DEF Publish, SlotRecord
    <2>. QED BY <1>1, <1>8, <2>1 DEF Publish
  <1>9. CASE FailDecode
    <2>1. \A s \in Slots : slot'[s].base = slot[s].base
      BY <1>9 DEF FailDecode, FailedSlot, SlotRecord
    <2>. QED BY <1>1, <1>9, <2>1 DEF FailDecode
  <1>10. CASE GiveUp \/ Finish \/ WorkerFinish \/ WorkerCheck \/ Shutdown \/ Finished \/ UNCHANGED vars
    BY <1>1, <1>10 DEF GiveUp, Finish, WorkerFinish, WorkerCheck, Shutdown, Finished, vars, cache
  <1>11. CASE DropCachedFrames \/ Trim \/ TrimWake
    <2>1. \/ UNCHANGED <<slot, allocatedSlots>>
          \/ \E S : Detaches(S)
          \/ \E S : Emptied(S) /\ UNCHANGED allocatedSlots /\ \A s \in S : slot'[s].base = slot[s].base
      BY <1>11, GivesBack
    <2>2. ASSUME NEW S, Emptied(S), UNCHANGED allocatedSlots, \A s \in S : slot'[s].base = slot[s].base
          PROVE  allocatedSlots' = Cardinality(Based(slot'))
      BY <1>1, <2>2 DEF Emptied
    <2>. QED BY <1>1, <1>2, <2>1, <2>2
  <1>. QED BY <1>3, <1>4, <1>5, <1>6, <1>7, <1>8, <1>9, <1>10, <1>11 DEF Next, OwnerStep

-----------------------------------------------------------------------------
(* A slot's pins are its leases. *)

\* The leases are sequences of records of the right type.
LEMMA LeasesTyped == ASSUME TypeOK PROVE leases \in [Callers -> Seq(LeaseRecord)]
  BY DEF TypeOK, LeaseRecord

\* A caller in a call asks for frames of the clip.
LEMMA LeaseIsRecord ==
  ASSUME WantsKnown, NEW c \in Callers, pc[c] # "idle", NEW s \in Slots PROVE Lease(c, s) \in LeaseRecord
  BY DEF WantsKnown, Lease, LeaseRecord

\* The job of an owner is of the right type.
LEMMA JobIs ==
  ASSUME TypeOK, job.phase # "none"
  PROVE  /\ job \in [owner : Callers \cup {"worker"}, target : Frames, at : Frames, slot : OrNone(Slots),
                     phase : Phases \ {"none"}]
         /\ job # NoJob /\ (job.slot # None => job.slot \in Slots)
  BY DEF TypeOK, NoJob, OrNone

\* After every step a slot's pins are its leases and the one that is about to be handed out.
LEMMA PinsStep ==
  ASSUME TypeOK, CacheInv, [Next]_vars
  PROVE  PinsAreLeases' /\ slot' \in [Slots -> SlotRecord] /\ leases' \in [Callers -> Seq(LeaseRecord)]
  <1>. DEFINE Goal == PinsAreLeases' /\ slot' \in [Slots -> SlotRecord] /\ leases' \in [Callers -> Seq(LeaseRecord)]
  <1>. USE SlotsAre, LeasesTyped
  <1>0. /\ \A s \in Slots : IsFiniteSet(Holders(s)) /\ Cardinality(Holders(s)) \in Nat
                            /\ slot[s].pins = Cardinality(Holders(s)) + BeingServed(s)
        /\ \A s \in Slots : BeingServed(s) \in {0, 1}
    BY FS_CardinalityType DEF CacheInv, PinsAreLeases, BeingServed
  <1>1. ASSUME UNCHANGED leases, slot' \in [Slots -> SlotRecord],
               \A s \in Slots : slot'[s].pins = slot[s].pins /\ BeingServed(s)' = BeingServed(s)
        PROVE  Goal
    <2>1. \A s \in Slots : Holders(s)' = Holders(s)
      BY <1>1 DEF Holders, AllLeases, LeaseOf
    <2>. QED BY <1>0, <1>1, <2>1 DEF PinsAreLeases
  <1>2. ASSUME UNCHANGED <<leases, slot>>, job.phase # "served", job'.phase # "served" PROVE Goal
    <2>1. \A s \in Slots : BeingServed(s)' = BeingServed(s)
      BY <1>2 DEF BeingServed
    <2>. QED BY <1>1, <1>2, <2>1
  <1>3. ASSUME NEW c \in Callers, pc[c] # "idle", NEW s \in Slots, NEW n \in {0, 1},
               slot' \in [Slots -> SlotRecord],
               \A t \in Slots : slot'[t].pins = slot[t].pins + (IF t = s THEN n ELSE 0),
               leases' = [leases EXCEPT ![c] = Append(@, Lease(c, s))],
               \A t \in Slots : BeingServed(t)' = BeingServed(t) - (IF t = s THEN 1 - n ELSE 0)
        PROVE  Goal
    <2>1. Lease(c, s) \in LeaseRecord /\ Lease(c, s).slot = s
      BY <1>3, LeaseIsRecord DEF CacheInv, Lease
    <2>2. /\ leases' \in [Callers -> Seq(LeaseRecord)]
          /\ \A t \in Slots : /\ IsFiniteSet(Holders(t)')
                              /\ Cardinality(Holders(t)') = Cardinality(Holders(t)) + (IF s = t THEN 1 ELSE 0)
      <3>1. PICK x : x = Lease(c, s)
        OBVIOUS
      <3>2. leases' = [leases EXCEPT ![c] = Append(@, x)] /\ x \in LeaseRecord /\ x.slot = s
        BY <1>3, <2>1, <3>1
      <3>. QED BY <1>0, <3>2, LeaseTaken
    <2>5. ASSUME NEW t \in Slots PROVE slot'[t].pins = Cardinality(Holders(t)') + BeingServed(t)'
      <3>1. slot[t].pins = Cardinality(Holders(t)) + BeingServed(t) /\ Cardinality(Holders(t)) \in Nat
            /\ BeingServed(t) \in {0, 1}
        BY <1>0
      <3>2. CASE t = s
        BY ONLY <1>3, <2>2, <3>1, <3>2
      <3>3. CASE t # s
        BY ONLY <1>3, <2>2, <3>1, <3>3
      <3>. QED BY <3>2, <3>3
    <2>. QED BY <1>3, <2>2, <2>5 DEF PinsAreLeases
  <1>4. ASSUME NEW c \in Callers, NEW k \in Frames, Ask(c, k) PROVE Goal
    BY <1>1, <1>4 DEF Ask, cache, engine, BeingServed
  <1>5. ASSUME NEW c \in Callers, Enter(c) \/ Wake(c) PROVE Goal
    <2>1. pc[c] # "idle" /\ (Hit(c) \/ Own(c) \/ Busy(c))
      BY <1>5, Contended
    <2>2. CASE Hit(c)
      <3>. DEFINE s == frameToSlot[want[c].frame]
      <3>1. s \in Slots
        <4>1. want[c].frame \in Frames
          BY <2>1 DEF CacheInv, WantsKnown
        <4>. QED BY <2>2, <4>1 DEF Hit, TypeOK, OrNone
      <3>2. slot' = [slot EXCEPT ![s].pins = @ + 1] /\ leases' = [leases EXCEPT ![c] = Append(@, Lease(c, s))]
            /\ job' = job
        BY <2>2 DEF Hit
      <3>3. \A t \in Slots : BeingServed(t)' = BeingServed(t) - (IF t = s THEN 1 - 1 ELSE 0)
        BY <1>0, <3>2 DEF BeingServed
      <3>. HIDE DEF s
      <3>4. slot' \in [Slots -> SlotRecord]
        <4>1. slot[s] \in SlotRecord /\ slot[s].pins + 1 \in Nat
          BY <3>1 DEF SlotRecord
        <4>2. [slot[s] EXCEPT !.pins = slot[s].pins + 1] \in SlotRecord
          BY <4>1, SlotFields
        <4>. QED BY <3>2, <4>2
      <3>5. \A t \in Slots : slot'[t].pins = slot[t].pins + (IF t = s THEN 1 ELSE 0)
        <4>1. \A t \in Slots : slot[t].pins \in Nat
          BY DEF SlotRecord
        <4>. QED BY <3>1, <3>2, <4>1 DEF SlotRecord
      <3>. QED BY <1>3, <2>1, <3>1, <3>2, <3>3, <3>4, <3>5
    <2>3. CASE Own(c)
      <3>1. job.phase # "served"
        BY <2>3 DEF Own, CacheInv, EngineAgrees, NoJob
      <3>. QED BY <1>2, <2>3, <3>1 DEF Own
    <2>4. CASE Busy(c)
      BY <1>1, <2>4 DEF Busy, BeingServed
    <2>. QED BY <2>1, <2>2, <2>3, <2>4
  <1>6. ASSUME NEW c \in Callers, Release(c) PROVE Goal
    <2>1. PICK i \in DOMAIN leases[c] :
             /\ slot' = [slot EXCEPT ![leases[c][i].slot].pins = @ - 1]
             /\ leases' = [leases EXCEPT ![c] = SubSeq(@, 1, i - 1) \o SubSeq(@, i + 1, Len(@))]
             /\ job' = job
      BY <1>6 DEF Release, engine
    <2>. DEFINE s == leases[c][i].slot
    <2>2. s \in Slots
      <3>1. leases[c] \in Seq(LeaseRecord)
        OBVIOUS
      <3>2. leases[c][i] \in LeaseRecord
        BY <3>1
      <3>. QED BY <3>2 DEF LeaseRecord
    <2>3. /\ leases' \in [Callers -> Seq(LeaseRecord)]
          /\ \A t \in Slots : /\ IsFiniteSet(Holders(t)') /\ Cardinality(Holders(t)') \in Nat
                              /\ Cardinality(Holders(t)') = Cardinality(Holders(t)) - (IF s = t THEN 1 ELSE 0)
      BY <1>0, <2>1, LeaseReturned, FS_CardinalityType
    <2>4. \A t \in Slots : BeingServed(t)' = BeingServed(t)
      BY <2>1 DEF BeingServed
    <2>. HIDE DEF s
    <2>5. \A t \in Slots : slot'[t].pins = slot[t].pins - (IF s = t THEN 1 ELSE 0)
      <3>1. \A t \in Slots : slot[t].pins \in Nat
        BY DEF SlotRecord
      <3>2. slot' = [slot EXCEPT ![s].pins = @ - 1]
        BY <2>1 DEF s
      <3>. QED BY <2>2, <3>1, <3>2 DEF SlotRecord
    <2>6. ASSUME NEW t \in Slots PROVE slot'[t].pins = Cardinality(Holders(t)') + BeingServed(t)'
      <3>1. slot[t].pins = Cardinality(Holders(t)) + BeingServed(t) /\ Cardinality(Holders(t)) \in Nat
            /\ BeingServed(t) \in {0, 1}
        BY <1>0
      <3>2. CASE t = s
        BY ONLY <2>3, <2>4, <2>5, <3>1, <3>2
      <3>3. CASE t # s
        BY ONLY <2>3, <2>4, <2>5, <3>1, <3>3
      <3>. QED BY <3>2, <3>3
    <2>7. slot' \in [Slots -> SlotRecord]
      <3>1. slot[s] \in SlotRecord /\ slot[s].pins - 1 \in Nat
        <4>1. slot'[s].pins = slot[s].pins - 1 /\ slot'[s].pins \in Nat
          BY <1>0, <2>2, <2>3, <2>4, <2>5, <2>6
        <4>. QED BY <2>2, <4>1
      <3>2. [slot[s] EXCEPT !.pins = slot[s].pins - 1] \in SlotRecord
        BY <3>1, SlotFields
      <3>3. slot' = [slot EXCEPT ![s].pins = @ - 1]
        BY <2>1 DEF s
      <3>. QED BY <3>2, <3>3
    <2>. QED BY <2>3, <2>6, <2>7 DEF PinsAreLeases
  <1>7. CASE Reserve
    <2>1. job.phase = "reserve" /\ leases' = leases /\ job # NoJob
      BY <1>7, ReserveTakes DEF calls, NoJob
    <2>2. job'.phase # "served" /\ (slot' = slot \/ \E s : Takes(s))
      BY <1>7, <2>1, JobIs, ReserveTakes DEF Takes
    <2>3. CASE slot' = slot
      BY <1>2, <2>1, <2>2, <2>3
    <2>4. ASSUME NEW s, Takes(s) PROVE Goal
      <3>1. slot' \in [Slots -> SlotRecord] /\ \A t \in Slots : slot'[t].pins = slot[t].pins
        BY <2>4 DEF Takes
      <3>2. \A t \in Slots : BeingServed(t)' = BeingServed(t)
        BY <2>1, <2>2 DEF BeingServed
      <3>. QED BY <1>1, <2>1, <3>1, <3>2
    <2>. QED BY <2>2, <2>3, <2>4
  <1>8. CASE Allocate
    <2>1. job.phase = "allocate" /\ job'.phase # "served" /\ leases' = leases
          /\ \E b \in BOOLEAN : \/ slot' = [slot EXCEPT ![job.slot].base = b]
                               \/ slot' = [slot EXCEPT ![job.slot].writing = b]
      BY <1>8, JobIs DEF Allocate, calls
    <2>2. slot' \in [Slots -> SlotRecord] /\ \A t \in Slots : slot'[t].pins = slot[t].pins
      <3>1. PICK b \in BOOLEAN : \/ slot' = [slot EXCEPT ![job.slot].base = b]
                                \/ slot' = [slot EXCEPT ![job.slot].writing = b]
        BY <2>1
      <3>2. job.slot \in Slots
        BY <2>1, JobIs DEF CacheInv, EngineAgrees
      <3>3. [slot[job.slot] EXCEPT !.base = b] \in SlotRecord /\ [slot[job.slot] EXCEPT !.writing = b] \in SlotRecord
        BY <3>2, SlotFields
      <3>4. slot' \in [Slots -> SlotRecord]
        BY <3>1, <3>2, <3>3
      <3>5. \A t \in Slots : slot'[t].pins = slot[t].pins
        <4>1. CASE slot' = [slot EXCEPT ![job.slot].base = b]
          BY <3>2, <4>1 DEF SlotRecord
        <4>2. CASE slot' = [slot EXCEPT ![job.slot].writing = b]
          BY <3>2, <4>2 DEF SlotRecord
        <4>. QED BY <3>1, <4>1, <4>2
      <3>. QED BY <3>4, <3>5
    <2>3. \A t \in Slots : BeingServed(t)' = BeingServed(t)
      BY <2>1 DEF BeingServed
    <2>. QED BY <1>1, <2>1, <2>2, <2>3
  <1>9. CASE Publish
    <2>. DEFINE n == IF Pinned THEN 1 ELSE 0
    <2>1. /\ job.phase = "decode" /\ leases' = leases
          /\ job'.phase = "served" <=> Pinned
          /\ Pinned => job.slot # None /\ job'.slot = job.slot
          /\ job.slot # None => job.slot \in Slots
          /\ job.at \in Frames
      BY <1>9, JobIs DEF Publish, CacheInv, EngineAgrees
    <2>2. \A t \in Slots : BeingServed(t)' = IF Pinned /\ job.slot = t THEN 1 ELSE 0
      BY <2>1 DEF BeingServed
    <2>3. \A t \in Slots : BeingServed(t) = 0
      BY <2>1 DEF BeingServed
    <2>4. CASE job.slot = None
      <3>1. slot' = slot /\ ~Pinned
        BY <1>9, <2>1, <2>4 DEF Publish
      <3>. QED BY <1>1, <2>1, <2>2, <2>3, <3>1
    <2>5. CASE job.slot # None
      <3>. DEFINE r == slot[job.slot]
                  r1 == [r EXCEPT !.frame = job.at]
                  r2 == [r1 EXCEPT !.writing = FALSE]
                  r3 == [r2 EXCEPT !.pins = IF Pinned THEN r.pins + 1 ELSE r.pins]
      <3>1. r \in SlotRecord /\ r.pins \in Nat /\ r.pins + n \in Nat
        BY <2>1, <2>5 DEF SlotRecord
      <3>2. r3 \in SlotRecord /\ r3.pins = r.pins + n
        <4>1. r1 \in SlotRecord /\ r2 \in SlotRecord
          BY <2>1, <3>1, SlotFields DEF OrNone
        <4>2. r3 \in SlotRecord
          BY <3>1, <4>1, SlotFields
        <4>. QED BY <3>1, <4>1, <4>2 DEF SlotRecord
      <3>3. slot' = [slot EXCEPT ![job.slot] = r3]
        <4>1. slot' = [slot EXCEPT ![job.slot].frame = job.at, ![job.slot].writing = FALSE,
                                   ![job.slot].pins = IF Pinned THEN @ + 1 ELSE @]
          BY <1>9, <2>5 DEF Publish
        <4>. QED BY <2>1, <2>5, <3>1, <4>1 DEF SlotRecord
      <3>. HIDE DEF r3, r, n
      <3>4. slot' \in [Slots -> SlotRecord]
        BY <3>2, <3>3
      <3>5. \A s \in Slots : Holders(s)' = Holders(s)
        BY <2>1 DEF Holders, AllLeases, LeaseOf
      <3>6. ASSUME NEW t \in Slots PROVE slot'[t].pins = Cardinality(Holders(t)') + BeingServed(t)'
        <4>1. slot[t].pins = Cardinality(Holders(t)) /\ Cardinality(Holders(t)') = Cardinality(Holders(t))
              /\ Cardinality(Holders(t)) \in Nat
          BY <1>0, <2>3, <3>5
        <4>2. CASE t = job.slot
          <5>1. slot'[t].pins = slot[t].pins + n
            BY <2>1, <2>5, <3>2, <3>3, <4>2 DEF r
          <5>. QED BY <2>2, <4>1, <4>2, <5>1 DEF n
        <4>3. CASE t # job.slot
          BY <2>2, <3>3, <4>1, <4>3
        <4>. QED BY <4>2, <4>3
      <3>. QED BY <1>0, <2>1, <3>4, <3>5, <3>6 DEF PinsAreLeases
    <2>. QED BY <2>4, <2>5
  <1>10. CASE FailDecode
    <2>1. job.phase = "decode" /\ job'.phase # "served" /\ leases' = leases
      BY <1>10, JobIs DEF FailDecode, calls
    <2>2. slot' \in [Slots -> SlotRecord] /\ \A t \in Slots : slot'[t].pins = slot[t].pins
      <3>1. CASE job.slot = None
        BY <1>10, <3>1 DEF FailDecode, FailedSlot
      <3>2. CASE job.slot # None
        <4>. DEFINE r1 == [slot[job.slot] EXCEPT !.writing = FALSE]
                    r2 == [r1 EXCEPT !.frame = None]
        <4>1. job.slot \in Slots
          BY <2>1, <3>2, JobIs
        <4>2. r2 \in SlotRecord /\ r2.pins = slot[job.slot].pins
          <5>1. slot[job.slot] \in SlotRecord /\ r1 \in SlotRecord
            BY <4>1, SlotFields
          <5>2. r2 \in SlotRecord
            BY <5>1, SlotFields DEF OrNone
          <5>. QED BY <5>1, <5>2 DEF SlotRecord
        <4>3. slot' = [slot EXCEPT ![job.slot] = r2]
          BY <1>10, <3>2, <4>1 DEF FailDecode, FailedSlot
        <4>. HIDE DEF r2
        <4>. QED BY <4>1, <4>2, <4>3
      <3>. QED BY <3>1, <3>2
    <2>3. \A t \in Slots : BeingServed(t)' = BeingServed(t)
      BY <2>1 DEF BeingServed
    <2>. QED BY <1>1, <2>1, <2>2, <2>3
  <1>11. CASE GiveUp
    BY <1>2, <1>11, JobIs DEF GiveUp, cache, calls
  <1>12. CASE Finish
    <2>1. job.owner \in Callers /\ pc[job.owner] # "idle" /\ slot' = slot /\ job' = NoJob
          /\ (job.phase # "served" => leases' = leases)
          /\ (job.phase = "served" => leases' = [leases EXCEPT ![job.owner] = Append(@, Lease(job.owner, job.slot))])
      BY <1>12, OwnerIsCaller DEF Finish, CacheInv, cache
    <2>2. CASE job.phase # "served"
      BY <1>2, <2>1, <2>2 DEF NoJob
    <2>3. CASE job.phase = "served"
      <3>1. job.slot \in Slots
        BY <2>3, JobIs DEF CacheInv, EngineAgrees
      <3>2. \A t \in Slots : BeingServed(t)' = BeingServed(t) - (IF t = job.slot THEN 1 - 0 ELSE 0)
        BY <2>1, <2>3 DEF BeingServed, NoJob
      <3>3. \A t \in Slots : slot'[t].pins = slot[t].pins + (IF t = job.slot THEN 0 ELSE 0)
        <4>1. \A t \in Slots : slot[t].pins \in Nat
          BY DEF SlotRecord
        <4>. QED BY <2>1, <4>1
      <3>. QED BY <1>3, <2>1, <2>3, <3>1, <3>2, <3>3
    <2>. QED BY <2>2, <2>3
  <1>13. CASE WorkerFinish \/ WorkerCheck
    <2>1. \/ UNCHANGED <<leases, slot>> /\ job'.phase # "served" /\ job.phase # "served"
          \/ UNCHANGED <<leases, slot, job>>
      BY <1>13 DEF WorkerFinish, WorkerCheck, cache, calls, NoJob, CacheInv, EngineAgrees,
         WorkerHasWork
    <2>. QED BY <1>1, <1>2, <2>1 DEF BeingServed
  <1>14. CASE DropCachedFrames \/ Trim \/ TrimWake
    <2>1. UNCHANGED <<job, leases>> /\ (slot' = slot \/ \E S : Emptied(S))
      BY <1>14, GivesBack DEF Detaches
    <2>2. slot' \in [Slots -> SlotRecord] /\ \A t \in Slots : slot'[t].pins = slot[t].pins
      BY <2>1 DEF Emptied, Unheld
    <2>. QED BY <1>1, <2>1, <2>2 DEF BeingServed
  <1>15. CASE Shutdown \/ Finished \/ UNCHANGED vars
    BY <1>1, <1>15 DEF Shutdown, Finished, vars, cache, calls, engine, BeingServed
  <1>. QED BY <1>4, <1>5, <1>6, <1>7, <1>8, <1>9, <1>10, <1>11, <1>12, <1>13, <1>14, <1>15 DEF Next,
     OwnerStep

-----------------------------------------------------------------------------
(* The slots and the engine. *)

\* A slot that is being filled has no frame, and no frame is mapped to it.
LEMMA FilledIsUnmapped ==
  ASSUME TypeOK, SlotsAgree, NEW s \in Slots, slot[s].writing \/ ~slot[s].base
  PROVE  slot[s].frame = None /\ \A f \in Frames : frameToSlot[f] # s
  <1>1. None \notin Frames /\ None \notin Slots
    BY FramesAreNumbers
  <1>. QED BY <1>1 DEF SlotsAgree, TypeOK

\* Publishing fills the slot reserved, if there is one, with the frame decoded.
LEMMA PublishFills ==
  ASSUME TypeOK, Publish
  PROVE  /\ job.phase = "decode" /\ job.at \in Frames /\ ~InRun(job.at, Runs)
         /\ job.slot = None => UNCHANGED <<slot, frameToSlot>>
         /\ job.slot # None =>
               /\ job.slot \in Slots
               /\ \A s \in Slots \ {job.slot} : slot'[s] = slot[s]
               /\ slot'[job.slot].frame = job.at /\ ~slot'[job.slot].writing
               /\ slot'[job.slot].base = slot[job.slot].base
               /\ frameToSlot' = [frameToSlot EXCEPT ![job.at] = job.slot]
  <1>1. job.phase = "decode" /\ job.at \in Frames /\ ~InRun(job.at, Runs) /\ (job.slot # None => job.slot \in Slots)
    BY JobIs DEF Publish
  <1>2. CASE job.slot = None
    BY <1>1, <1>2 DEF Publish
  <1>3. CASE job.slot # None
    <2>1. /\ slot' = [slot EXCEPT ![job.slot].frame = job.at, ![job.slot].writing = FALSE,
                                 ![job.slot].pins = IF Pinned THEN @ + 1 ELSE @]
          /\ frameToSlot' = [frameToSlot EXCEPT ![job.at] = job.slot]
      BY <1>3 DEF Publish
    <2>. QED BY <1>1, <1>3, <2>1, SlotsAre DEF SlotRecord
  <1>. QED BY <1>1, <1>2, <1>3

\* A failure leaves the slot reserved, if there is one, empty and free.
LEMMA FailEmpties ==
  ASSUME TypeOK, FailDecode
  PROVE  /\ job.phase = "decode" /\ UNCHANGED frameToSlot
         /\ job.slot = None => UNCHANGED slot
         /\ job.slot # None =>
               /\ job.slot \in Slots
               /\ \A s \in Slots \ {job.slot} : slot'[s] = slot[s]
               /\ slot'[job.slot].frame = None /\ ~slot'[job.slot].writing
               /\ slot'[job.slot].base = slot[job.slot].base
  <1>1. job.phase = "decode" /\ UNCHANGED frameToSlot /\ (job.slot # None => job.slot \in Slots)
    BY JobIs DEF FailDecode
  <1>2. CASE job.slot = None
    BY <1>1, <1>2 DEF FailDecode, FailedSlot
  <1>3. CASE job.slot # None
    <2>1. slot' = [slot EXCEPT ![job.slot].writing = FALSE, ![job.slot].frame = None]
      BY <1>3 DEF FailDecode, FailedSlot
    <2>. QED BY <1>1, <1>3, <2>1, SlotsAre DEF SlotRecord
  <1>. QED BY <1>1, <1>2, <1>3

\* An allocation gives the slot reserved its memory, or leaves it as it was before.
LEMMA AllocateGives ==
  ASSUME TypeOK, EngineAgrees, Allocate
  PROVE  /\ job.phase = "allocate" /\ UNCHANGED <<frameToSlot, engineBusy, pc, want, leases, met, foregroundWaiters>>
         /\ job.slot \in Slots
         /\ \A s \in Slots \ {job.slot} : slot'[s] = slot[s]
         /\ slot'[job.slot].frame = slot[job.slot].frame
         /\ \/ slot'[job.slot].base /\ slot'[job.slot].writing = slot[job.slot].writing
               /\ job' = [job EXCEPT !.phase = "decode"]
            \/ slot'[job.slot].base = slot[job.slot].base /\ ~slot'[job.slot].writing
               /\ job' = [job EXCEPT !.slot = None, !.phase = "reserve"]
  <1>1. /\ job.phase = "allocate" /\ UNCHANGED <<frameToSlot, engineBusy, pc, want, leases, met, foregroundWaiters>>
        /\ job.slot \in Slots
    BY JobIs DEF Allocate, EngineAgrees, calls
  <1>2. \/ slot' = [slot EXCEPT ![job.slot].base = TRUE] /\ job' = [job EXCEPT !.phase = "decode"]
        \/ slot' = [slot EXCEPT ![job.slot].writing = FALSE]
           /\ job' = [job EXCEPT !.slot = None, !.phase = "reserve"]
    BY DEF Allocate
  <1>. QED BY <1>1, <1>2, SlotsAre DEF SlotRecord

\* Taking and returning leases changes nothing of a slot but its pins.
LEMMA PinsOnly ==
  ASSUME TypeOK, NEW c \in Callers, Hit(c) \/ Release(c)
  PROVE  \A s \in Slots : /\ slot'[s].frame = slot[s].frame /\ slot'[s].base = slot[s].base
                          /\ slot'[s].writing = slot[s].writing
  <1>1. CASE Hit(c)
    BY <1>1, SlotsAre DEF Hit, SlotRecord
  <1>2. CASE Release(c)
    <2>1. \E t : slot' = [slot EXCEPT ![t].pins = @ - 1]
      BY <1>2 DEF Release
    <2>. QED BY <2>1, SlotsAre DEF SlotRecord
  <1>. QED BY <1>1, <1>2

\* After every step the map of frames and the slots agree.
LEMMA SlotsStep == ASSUME TypeOK, CacheInv, [Next]_vars PROVE SlotsAgree'
  <1>. USE DEF CacheInv
  <1>0. None \notin Frames /\ None \notin Slots /\ SlotsAgree
        /\ \A s \in Slots : slot[s].frame \in Frames \cup {None}
        /\ \A f \in Frames : frameToSlot[f] \in Slots \cup {None}
    BY FramesAreNumbers DEF TypeOK, OrNone
  <1>1. ASSUME UNCHANGED frameToSlot,
               \A s \in Slots : /\ slot'[s].frame = slot[s].frame /\ slot'[s].base = slot[s].base
                                /\ slot'[s].writing = slot[s].writing
        PROVE  SlotsAgree'
    <2>1. ASSUME NEW s \in Slots, slot'[s].frame # None
          PROVE  /\ slot'[s].base /\ ~slot'[s].writing
                 /\ frameToSlot'[slot'[s].frame] = s /\ ~InRun(slot'[s].frame, Runs)
      BY <1>0, <1>1, <2>1 DEF SlotsAgree
    <2>2. ASSUME NEW f \in Frames, frameToSlot'[f] # None PROVE slot'[frameToSlot'[f]].frame = f
      <3>1. frameToSlot[f] \in Slots /\ frameToSlot'[f] = frameToSlot[f]
        <4>1. frameToSlot[f] \in Slots \cup {None}
          BY DEF TypeOK, OrNone
        <4>. QED BY ONLY <4>1, <1>1, <2>2
      <3>2. slot[frameToSlot[f]].frame = f
        BY <1>0, <3>1 DEF SlotsAgree
      <3>3. slot'[frameToSlot[f]].frame = slot[frameToSlot[f]].frame
        BY <1>0, <1>1, <3>1
      <3>. QED BY <3>1, <3>2, <3>3
    <2>. QED BY <2>1, <2>2 DEF SlotsAgree
  <1>2. ASSUME NEW S \in SUBSET Slots, Unmap(S), \A s \in Slots \ S : slot'[s] = slot[s],
               \A s \in S : slot'[s].frame = None
        PROVE  SlotsAgree'
    <2>1. \A f \in Frames : frameToSlot'[f] = IF frameToSlot[f] \in S THEN None ELSE frameToSlot[f]
      BY <1>2 DEF Unmap
    <2>2. ASSUME NEW s \in Slots, slot'[s].frame # None
          PROVE  /\ slot'[s].base /\ ~slot'[s].writing
                 /\ frameToSlot'[slot'[s].frame] = s /\ ~InRun(slot'[s].frame, Runs)
      BY <1>0, <1>2, <2>1, <2>2 DEF SlotsAgree
    <2>3. ASSUME NEW f \in Frames, frameToSlot'[f] # None PROVE slot'[frameToSlot'[f]].frame = f
      <3>1. frameToSlot[f] \in Slots \ S /\ frameToSlot'[f] = frameToSlot[f]
        <4>0. frameToSlot[f] \in Slots \cup {None}
          BY DEF TypeOK, OrNone
        <4>1. /\ (frameToSlot[f] \in S => frameToSlot'[f] = None)
              /\ (frameToSlot[f] \notin S => frameToSlot'[f] = frameToSlot[f])
          BY <2>1
        <4>. QED BY ONLY <4>0, <4>1, <2>3
      <3>2. slot[frameToSlot[f]].frame = f
        BY <1>0, <3>1 DEF SlotsAgree
      <3>3. slot'[frameToSlot[f]].frame = slot[frameToSlot[f]].frame
        BY <1>0, <1>2, <2>1, <3>1
      <3>. QED BY <3>1, <3>2, <3>3
    <2>. QED BY <2>2, <2>3 DEF SlotsAgree
  <1>3. ASSUME NEW c \in Callers, NEW k \in Frames, Ask(c, k) PROVE SlotsAgree'
    BY <1>1, <1>3 DEF Ask, cache
  <1>4. ASSUME NEW c \in Callers, Enter(c) \/ Wake(c) PROVE SlotsAgree'
    <2>1. UNCHANGED frameToSlot /\ (Hit(c) \/ UNCHANGED slot)
      BY <1>4, Contended DEF Hit, Own, Busy
    <2>. QED BY <1>1, <2>1, PinsOnly
  <1>5. ASSUME NEW c \in Callers, Release(c) PROVE SlotsAgree'
    BY <1>1, <1>5, PinsOnly DEF Release
  <1>6. CASE Reserve
    <2>1. UNCHANGED <<slot, frameToSlot>> \/ \E s : Takes(s)
      BY <1>6, ReserveTakes
    <2>2. ASSUME NEW s, Takes(s) PROVE SlotsAgree'
      BY <1>2, <2>2 DEF Takes
    <2>. QED BY <1>1, <2>1, <2>2
  <1>7. CASE Allocate
    <2>1. slot[job.slot].frame = None
      BY <1>7, AllocateGives, FilledIsUnmapped DEF EngineAgrees
    <2>. QED BY <1>0, <1>7, <2>1, AllocateGives DEF SlotsAgree
  <1>8. CASE Publish
    <2>1. CASE job.slot = None
      BY <1>1, <1>8, <2>1, PublishFills
    <2>2. CASE job.slot # None
      <3>1. /\ job.slot \in Slots /\ job.at \in Frames /\ ~InRun(job.at, Runs)
            /\ slot[job.slot].base /\ frameToSlot[job.at] = None
            /\ \A f \in Frames : frameToSlot[f] # job.slot
        BY <1>8, <2>2, PublishFills, FilledIsUnmapped DEF EngineAgrees
      <3>2. /\ \A s \in Slots \ {job.slot} : slot'[s] = slot[s]
            /\ slot'[job.slot].frame = job.at /\ ~slot'[job.slot].writing /\ slot'[job.slot].base
            /\ frameToSlot'[job.at] = job.slot
            /\ \A f \in Frames \ {job.at} : frameToSlot'[f] = frameToSlot[f]
        <4>1. /\ \A s \in Slots \ {job.slot} : slot'[s] = slot[s]
              /\ slot'[job.slot].frame = job.at /\ ~slot'[job.slot].writing
              /\ slot'[job.slot].base = slot[job.slot].base
              /\ frameToSlot' = [frameToSlot EXCEPT ![job.at] = job.slot]
          BY <1>8, <2>2, PublishFills
        <4>2. frameToSlot \in [Frames -> OrNone(Slots)]
          BY DEF TypeOK
        <4>. QED BY <3>1, <4>1, <4>2
      <3>3. ASSUME NEW s \in Slots, slot'[s].frame # None
            PROVE  /\ slot'[s].base /\ ~slot'[s].writing
                   /\ frameToSlot'[slot'[s].frame] = s /\ ~InRun(slot'[s].frame, Runs)
        BY <1>0, <3>1, <3>2, <3>3 DEF SlotsAgree
      <3>4. ASSUME NEW f \in Frames, frameToSlot'[f] # None PROVE slot'[frameToSlot'[f]].frame = f
        BY <1>0, <3>1, <3>2, <3>4 DEF SlotsAgree
      <3>. QED BY <3>3, <3>4 DEF SlotsAgree
    <2>. QED BY <2>1, <2>2
  <1>9. CASE FailDecode
    <2>1. CASE job.slot = None
      BY <1>1, <1>9, <2>1, FailEmpties
    <2>2. CASE job.slot # None
      <3>1. job.slot \in Slots /\ slot[job.slot].writing
        BY <1>9, <2>2, FailEmpties DEF EngineAgrees
      <3>2. \A f \in Frames : frameToSlot[f] # job.slot
        BY <3>1, FilledIsUnmapped
      <3>. QED BY <1>0, <1>9, <2>2, <3>1, <3>2, FailEmpties DEF SlotsAgree
    <2>. QED BY <2>1, <2>2
  <1>10. CASE GiveUp \/ Finish \/ WorkerFinish \/ WorkerCheck \/ Shutdown \/ Finished \/ UNCHANGED vars
    BY <1>1, <1>10 DEF GiveUp, Finish, WorkerFinish, WorkerCheck, Shutdown, Finished, vars, cache
  <1>11. CASE DropCachedFrames \/ Trim \/ TrimWake
    <2>1. UNCHANGED <<slot, frameToSlot>> \/ \E S : Emptied(S)
      BY <1>11, GivesBack DEF Detaches
    <2>2. ASSUME NEW S, Emptied(S) PROVE SlotsAgree'
      BY <1>2, <2>2 DEF Emptied
    <2>. QED BY <1>1, <2>1, <2>2
  <1>. QED BY <1>3, <1>4, <1>5, <1>6, <1>7, <1>8, <1>9, <1>10, <1>11 DEF Next, OwnerStep

\* After every step the engine's owner, its slot and its target are in order.
LEMMA EngineStep == ASSUME TypeOK, CacheInv, [Next]_vars PROVE EngineAgrees'
  <1>. USE DEF CacheInv
  <1>0. None \notin Frames /\ None \notin Slots /\ "worker" \notin Callers
    BY FramesAreNumbers, CacheAssumption
  <1>1. ASSUME UNCHANGED <<engineBusy, job>>, \A s \in Slots : slot'[s].writing = slot[s].writing,
               job.phase \in {"allocate", "decode", "served"} /\ job.slot # None =>
                  slot'[job.slot].base = slot[job.slot].base /\ slot'[job.slot].frame = slot[job.slot].frame,
               \A f \in Frames : frameToSlot'[f] = frameToSlot[f] \/ frameToSlot'[f] = None,
               job # NoJob /\ ~IsWorkers => pc'[job.owner] = "engine" /\ want'[job.owner] = want[job.owner]
        PROVE  EngineAgrees'
    <2>1. CASE job = NoJob
      BY <1>1, <2>1 DEF EngineAgrees, NoJob, IsWorkers, Pinned
    <2>2. CASE job # NoJob
      <3>1. /\ job.phase # "none" /\ job.at \in Frames /\ job.target \in Frames
            /\ (job.slot # None => job.slot \in Slots)
        BY <2>2, JobIs DEF TypeOK
      <3>. QED BY <1>1, <2>2, <3>1 DEF EngineAgrees, IsWorkers, Pinned
    <2>. QED BY <2>1, <2>2
  <1>2. ASSUME NEW c \in Callers, NEW k \in Frames, Ask(c, k) PROVE EngineAgrees'
    <2>1. UNCHANGED <<engineBusy, job, slot, frameToSlot>> /\ pc[c] = "idle"
          /\ \A b \in Callers \ {c} : pc'[b] = pc[b] /\ want'[b] = want[b]
      BY <1>2 DEF Ask, cache, engine, TypeOK
    <2>2. job # NoJob /\ ~IsWorkers => job.owner \in Callers \ {c} /\ pc[job.owner] = "engine"
      BY <2>1 DEF EngineAgrees, TypeOK, IsWorkers
    <2>. QED BY <1>1, <2>1, <2>2
  <1>3. ASSUME NEW c \in Callers, Enter(c) \/ Wake(c) PROVE EngineAgrees'
    <2>1. /\ pc[c] \in {"call", "awake"}
          /\ \/ Hit(c) /\ Moved(c, "idle")
             \/ Own(c) /\ Moved(c, "engine")
             \/ Busy(c) /\ Moved(c, "waiting")
      BY <1>3, Contended
    <2>2. job # NoJob /\ ~IsWorkers => /\ job.owner \in Callers \ {c} /\ pc[job.owner] = "engine"
                                       /\ pc'[job.owner] = "engine"
      BY <2>1 DEF EngineAgrees, TypeOK, IsWorkers, Moved
    <2>3. CASE Hit(c)
      <3>1. /\ UNCHANGED <<engineBusy, job, frameToSlot>>
            /\ \A b \in Callers \ {c} : want'[b] = want[b]
        BY <2>3 DEF Hit, TypeOK
      <3>2. job.phase # "none" /\ job.slot # None => job.slot \in Slots
        BY JobIs
      <3>. QED BY <1>1, <2>2, <2>3, <3>1, <3>2, PinsOnly
    <2>4. CASE Busy(c)
      BY <1>1, <2>2, <2>4 DEF Busy
    <2>5. CASE Own(c)
      <3>1. /\ UNCHANGED <<slot, frameToSlot, want>> /\ engineBusy' = TRUE /\ job = NoJob
            /\ job' = [owner |-> c, target |-> want[c].frame, at |-> PlanStart(want[c].frame), slot |-> None,
                       phase |-> "reserve"]
            /\ frameToSlot[want[c].frame] = None /\ pc'[c] = "engine"
        <4>1. pc'[c] = "engine"
          BY <2>1, <2>5 DEF Moved, Hit, Own, Busy
        <4>. QED BY <2>5, <4>1 DEF Own, EngineAgrees
      <3>2. PlanStart(want[c].frame) <= want[c].frame
        BY <2>1, PlanIsBefore DEF WantsKnown
      <3>3. \A s \in Slots : ~slot[s].writing
        BY <3>1 DEF EngineAgrees, NoJob
      <3>4. job' # NoJob /\ ~IsWorkers'
        BY <1>0, <3>1 DEF NoJob, IsWorkers
      <3>. QED BY <3>1, <3>2, <3>3, <3>4 DEF EngineAgrees
    <2>. QED BY <2>1, <2>3, <2>4, <2>5
  <1>4. ASSUME NEW c \in Callers, Release(c) PROVE EngineAgrees'
    <2>1. UNCHANGED <<engineBusy, job, frameToSlot, want>> /\ pc' = Woken(pc)
      BY <1>4 DEF Release, engine
    <2>2. job.phase # "none" /\ job.slot # None => job.slot \in Slots
      BY JobIs
    <2>3. job # NoJob /\ ~IsWorkers => pc'[job.owner] = "engine"
      <3>1. job # NoJob /\ ~IsWorkers => job.owner \in Callers /\ pc[job.owner] = "engine"
        BY DEF EngineAgrees, TypeOK, IsWorkers
      <3>. QED BY <2>1, <3>1 DEF Woken
    <2>. QED BY <1>1, <1>4, <2>1, <2>2, <2>3, PinsOnly
  <1>5. ASSUME job.phase # "none",
               NEW ph, NEW sl, job' = [job EXCEPT !.slot = sl, !.phase = ph]
        PROVE  /\ job'.owner = job.owner /\ job'.target = job.target /\ job'.at = job.at
               /\ job'.slot = sl /\ job'.phase = ph /\ (IsWorkers' <=> IsWorkers) /\ (Pinned' <=> Pinned)
    <2>1. /\ job'.owner = job.owner /\ job'.target = job.target /\ job'.at = job.at
          /\ job'.slot = sl /\ job'.phase = ph
      BY <1>5, JobIs
    <2>. QED BY <2>1 DEF IsWorkers, Pinned
  <1>6. ASSUME job.phase # "none", NEW ph, job' = [job EXCEPT !.phase = ph]
        PROVE  /\ job'.owner = job.owner /\ job'.target = job.target /\ job'.at = job.at
               /\ job'.slot = job.slot /\ job'.phase = ph /\ (IsWorkers' <=> IsWorkers) /\ (Pinned' <=> Pinned)
    <2>1. /\ job'.owner = job.owner /\ job'.target = job.target /\ job'.at = job.at
          /\ job'.slot = job.slot /\ job'.phase = ph
      BY <1>6, JobIs
    <2>. QED BY <2>1 DEF IsWorkers, Pinned
  <1>7. CASE Reserve
    <2>1. /\ job.phase = "reserve" /\ UNCHANGED <<engineBusy, pc, want>>
          /\ job # NoJob /\ job.at \in Frames /\ job.target \in Frames /\ engineBusy /\ job.slot = None
          /\ \A s \in Slots : ~slot[s].writing
      BY <1>7, ReserveTakes, JobIs DEF calls, EngineAgrees
    <2>2. CASE UNCHANGED <<slot, frameToSlot>> /\ Pinned /\ job' = [job EXCEPT !.phase = "refused"]
      <3>1. /\ job'.owner = job.owner /\ job'.target = job.target /\ job'.at = job.at
            /\ job'.slot = job.slot /\ job'.phase = "refused" /\ ~IsWorkers' /\ ~IsWorkers
        BY <1>6, <2>1, <2>2 DEF Pinned
      <3>2. job' # NoJob
        BY <3>1 DEF NoJob
      <3>. QED BY <2>1, <2>2, <3>1, <3>2 DEF EngineAgrees
    <2>3. CASE UNCHANGED <<slot, frameToSlot>> /\ ~Pinned /\ job' = [job EXCEPT !.slot = None, !.phase = "decode"]
      <3>1. /\ job'.owner = job.owner /\ job'.target = job.target /\ job'.at = job.at
            /\ job'.slot = None /\ job'.phase = "decode" /\ (IsWorkers' <=> IsWorkers) /\ ~Pinned'
        BY <1>5, <2>1, <2>3
      <3>2. job' # NoJob
        BY <3>1 DEF NoJob
      <3>. QED BY <1>0, <2>1, <2>3, <3>1, <3>2 DEF EngineAgrees
    <2>4. ASSUME NEW s, Takes(s) PROVE EngineAgrees'
      <3>. DEFINE ph == IF slot[s].base THEN "decode" ELSE "allocate"
      <3>1. /\ job'.owner = job.owner /\ job'.target = job.target /\ job'.at = job.at
            /\ job'.slot = s /\ job'.phase = ph /\ (IsWorkers' <=> IsWorkers) /\ (Pinned' <=> Pinned)
        <4>1. job' = [job EXCEPT !.slot = s, !.phase = ph]
          BY <2>4 DEF Takes
        <4>. QED BY <1>5, <2>1, <4>1
      <3>2. job' # NoJob /\ s # None
        BY <1>0, <2>4, <3>1 DEF NoJob, Takes
      <3>3. \A f \in Frames : frameToSlot[f] = None => frameToSlot'[f] = None
        BY <2>4 DEF Takes, Unmap
      <3>4. \A t \in Slots : slot'[t].writing <=> t = s
        BY <2>1, <2>4 DEF Takes
      <3>5. slot'[s].base = slot[s].base /\ frameToSlot[job.at] = None
        BY <2>4 DEF Takes
      <3>. QED BY <2>1, <3>1, <3>2, <3>3, <3>4, <3>5 DEF EngineAgrees
    <2>. QED BY <1>7, <2>2, <2>3, <2>4, ReserveTakes
  <1>8. CASE Allocate
    <2>1. /\ job.phase = "allocate" /\ UNCHANGED <<frameToSlot, engineBusy, pc, want>>
          /\ job.slot \in Slots /\ job # NoJob /\ \A s \in Slots \ {job.slot} : slot'[s] = slot[s]
          /\ job.slot # None
      BY <1>0, <1>8, AllocateGives DEF NoJob
    <2>2. CASE slot'[job.slot].base /\ slot'[job.slot].writing = slot[job.slot].writing
               /\ job' = [job EXCEPT !.phase = "decode"]
      <3>1. /\ job'.owner = job.owner /\ job'.target = job.target /\ job'.at = job.at
            /\ job'.slot = job.slot /\ job'.phase = "decode" /\ (IsWorkers' <=> IsWorkers) /\ (Pinned' <=> Pinned)
        BY <1>6, <2>1, <2>2
      <3>2. job' # NoJob
        BY <3>1 DEF NoJob
      <3>. QED BY <2>1, <2>2, <3>1, <3>2 DEF EngineAgrees
    <2>3. CASE slot'[job.slot].base = slot[job.slot].base /\ ~slot'[job.slot].writing
               /\ job' = [job EXCEPT !.slot = None, !.phase = "reserve"]
      <3>1. /\ job'.owner = job.owner /\ job'.target = job.target /\ job'.at = job.at
            /\ job'.slot = None /\ job'.phase = "reserve" /\ (IsWorkers' <=> IsWorkers)
        BY <1>5, <2>1, <2>3
      <3>2. job' # NoJob
        BY <3>1 DEF NoJob
      <3>. QED BY <2>1, <2>3, <3>1, <3>2 DEF EngineAgrees
    <2>. QED BY <1>8, <2>2, <2>3, AllocateGives
  <1>9. CASE Publish
    <2>1. /\ job.phase = "decode" /\ UNCHANGED <<engineBusy, want>> /\ pc' = Woken(pc)
          /\ job # NoJob /\ engineBusy /\ job.at \in Frames /\ job.target \in Frames /\ job.at <= job.target
      BY <1>9, JobIs DEF Publish, EngineAgrees
    <2>2. ~IsWorkers => pc'[job.owner] = "engine" /\ want'[job.owner].frame = job.target
      <3>1. ~IsWorkers => job.owner \in Callers /\ pc[job.owner] = "engine" /\ want[job.owner].frame = job.target
        BY <2>1, JobIs DEF EngineAgrees, IsWorkers
      <3>. QED BY <2>1, <3>1 DEF Woken
    <2>3. \A s \in Slots : ~slot'[s].writing
      <3>1. \A s \in Slots : slot[s].writing => s = job.slot
        BY DEF EngineAgrees
      <3>. QED BY <1>0, <1>9, <3>1, PublishFills
    <2>4. CASE Pinned
      <3>1. /\ job'.owner = job.owner /\ job'.target = job.target /\ job'.slot = job.slot
            /\ job'.phase = "served" /\ ~IsWorkers' /\ ~IsWorkers
        BY <1>6, <1>9, <2>1, <2>4 DEF Publish, Pinned
      <3>2. job' # NoJob /\ job.slot # None
        BY <2>1, <2>4, <3>1 DEF NoJob, EngineAgrees
      <3>3. slot'[job.slot].frame = job.target
        BY <1>9, <2>4, <3>2, PublishFills DEF Pinned
      <3>. QED BY <2>1, <2>2, <2>3, <3>1, <3>2, <3>3 DEF EngineAgrees
    <2>5. CASE IsWorkers
      <3>1. job'.phase = "done" /\ IsWorkers'
        BY <1>6, <1>9, <2>1, <2>5 DEF Publish, Pinned
      <3>2. job' # NoJob
        BY <3>1 DEF NoJob
      <3>. QED BY <2>1, <2>3, <3>1, <3>2 DEF EngineAgrees
    <2>6. CASE ~Pinned /\ ~IsWorkers
      <3>1. /\ job'.owner = job.owner /\ job'.target = job.target /\ job'.slot = None
            /\ job'.phase = "reserve" /\ job'.at = job.at + 1
        BY <1>9, <2>1, <2>6, JobIs DEF Publish
      <3>2. job' # NoJob /\ ~IsWorkers' /\ job.at # job.target
        BY <2>6, <3>1 DEF NoJob, IsWorkers, Pinned
      <3>3. job.at + 1 <= job.target
        BY <2>1, <3>2, FramesAreNumbers
      <3>4. frameToSlot'[job.target] = None
        <4>1. frameToSlot[job.target] = None
          BY <2>1, <2>6 DEF EngineAgrees
        <4>. QED BY <1>9, <2>1, <3>2, <4>1, PublishFills DEF TypeOK
      <3>. QED BY <2>1, <2>2, <2>3, <2>6, <3>1, <3>2, <3>3, <3>4 DEF EngineAgrees
    <2>. QED BY <2>4, <2>5, <2>6
  <1>10. CASE FailDecode
    <2>1. /\ job.phase = "decode" /\ UNCHANGED <<engineBusy, pc, want>> /\ job # NoJob /\ engineBusy
          /\ job' = [job EXCEPT !.slot = None, !.phase = IF IsWorkers THEN "giveup" ELSE "failed"]
      BY <1>10, JobIs DEF FailDecode, EngineAgrees, calls
    <2>2. \A s \in Slots : ~slot'[s].writing
      <3>1. \A s \in Slots : slot[s].writing => s = job.slot
        BY DEF EngineAgrees
      <3>. QED BY <1>0, <1>10, <3>1, FailEmpties
    <2>3. /\ job'.owner = job.owner /\ job'.target = job.target /\ (IsWorkers' <=> IsWorkers)
          /\ job'.phase = IF IsWorkers THEN "giveup" ELSE "failed"
      BY <1>5, <2>1
    <2>4. job' # NoJob
      BY <2>3 DEF NoJob
    <2>. QED BY <2>1, <2>2, <2>3, <2>4 DEF EngineAgrees
  <1>11. CASE GiveUp
    <2>1. /\ job.phase = "giveup" /\ UNCHANGED <<engineBusy, pc, want, slot>> /\ job # NoJob /\ engineBusy
          /\ job' = [job EXCEPT !.phase = "done"] /\ IsWorkers
      BY <1>11, JobIs DEF GiveUp, EngineAgrees, calls, cache
    <2>2. job'.phase = "done" /\ IsWorkers'
      BY <1>6, <2>1
    <2>3. job' # NoJob
      BY <2>2 DEF NoJob
    <2>. QED BY <2>1, <2>2, <2>3 DEF EngineAgrees
  <1>12. CASE Finish \/ WorkerFinish
    <2>1. job' = NoJob /\ engineBusy' = FALSE /\ slot' = slot /\ \A s \in Slots : ~slot[s].writing
      BY <1>12 DEF Finish, WorkerFinish, cache, EngineAgrees
    <2>. QED BY <2>1 DEF EngineAgrees, NoJob
  <1>13. CASE WorkerCheck
    <2>1. CASE UNCHANGED <<engineBusy, job>>
      BY <1>1, <1>13, <2>1 DEF WorkerCheck, cache, calls, EngineAgrees
    <2>2. CASE ~UNCHANGED <<engineBusy, job>>
      <3>1. /\ engineBusy' = TRUE /\ slot' = slot /\ ~engineBusy /\ FirstMissingAhead # None
            /\ job' = [owner |-> "worker", target |-> FirstMissingAhead, at |-> PlanStart(FirstMissingAhead),
                       slot |-> None, phase |-> "reserve"]
        BY <1>13, <2>2 DEF WorkerCheck, WorkerHasWork, cache
      <3>2. PlanStart(FirstMissingAhead) <= FirstMissingAhead
        BY <3>1, MissingIsFrame, PlanIsBefore DEF OrNone
      <3>3. job' # NoJob /\ IsWorkers' /\ \A s \in Slots : ~slot[s].writing
        BY <3>1 DEF NoJob, IsWorkers, EngineAgrees
      <3>. QED BY <3>1, <3>2, <3>3 DEF EngineAgrees
    <2>. QED BY <2>1, <2>2
  <1>14. CASE DropCachedFrames \/ Trim \/ TrimWake
    <2>1. /\ UNCHANGED <<engineBusy, job, want>> /\ (pc' = pc \/ pc' = Woken(pc))
          /\ UNCHANGED <<slot, frameToSlot>> \/ \E S : Emptied(S)
      BY <1>14, GivesBack DEF Detaches
    <2>2. job # NoJob /\ ~IsWorkers => pc'[job.owner] = "engine"
      <3>1. job # NoJob /\ ~IsWorkers => job.owner \in Callers /\ pc[job.owner] = "engine"
        BY DEF EngineAgrees, TypeOK, IsWorkers
      <3>. QED BY <2>1, <3>1 DEF Woken
    <2>3. CASE UNCHANGED <<slot, frameToSlot>>
      BY <1>1, <2>1, <2>2, <2>3
    <2>4. ASSUME NEW S, Emptied(S) PROVE EngineAgrees'
      <3>1. /\ \A s \in Slots : slot'[s].writing = slot[s].writing
            /\ \A f \in Frames : frameToSlot'[f] = frameToSlot[f] \/ frameToSlot'[f] = None
        BY <2>4, SlotsAre DEF Emptied, Unheld, Unmap, SlotRecord
      <3>2. job.phase \in {"allocate", "decode", "served"} /\ job.slot # None => slot'[job.slot] = slot[job.slot]
        <4>1. ASSUME job.phase \in {"allocate", "decode", "served"}, job.slot # None
              PROVE  slot'[job.slot] = slot[job.slot]
          <5>1. job.slot \in Slots
            BY <4>1, JobIs
          <5>2. CASE job.phase = "served"
            <6>1. slot[job.slot].pins = Cardinality(Holders(job.slot)) + 1 /\ Cardinality(Holders(job.slot)) \in Nat
              BY <5>1, <5>2, FS_CardinalityType DEF PinsAreLeases, BeingServed
            <6>2. slot[job.slot].pins # 0
              BY <6>1
            <6>. QED BY <2>4, <5>1, <6>2 DEF Emptied, Unheld
          <5>3. CASE job.phase # "served"
            <6>1. slot[job.slot].writing
              BY <4>1, <5>1, <5>3 DEF EngineAgrees
            <6>. QED BY <2>4, <5>1, <6>1 DEF Emptied, Unheld
          <5>. QED BY <5>2, <5>3
        <4>. QED BY <4>1
      <3>. QED BY <1>1, <2>1, <2>2, <3>1, <3>2
    <2>. QED BY <2>1, <2>3, <2>4
  <1>15. CASE Shutdown \/ Finished \/ UNCHANGED vars
    BY <1>1, <1>15 DEF Shutdown, Finished, vars, cache, calls, engine, EngineAgrees
  <1>. QED BY <1>2, <1>3, <1>4, <1>7, <1>8, <1>9, <1>10, <1>11, <1>12, <1>13, <1>14, <1>15 DEF Next,
     OwnerStep

-----------------------------------------------------------------------------
(* What is asked for and what is leased. *)

\* The frame held for k is a frame that may be shown for k, or cannot be decoded.
LEMMA HeldStandsFor ==
  ASSUME TypeOK, NEW k \in Frames
  PROVE  /\ HoldFor(k) \in Frames
         /\ InRun(HoldFor(k), Runs) \/ StandsFor(HoldFor(k), k)
  <1>1. met \in SUBSET Runs
    BY DEF TypeOK
  <1>2. HoldFor(k) \in Frames /\ (~InRun(k, met) => HoldFor(k) = k)
    BY <1>1, HoldForIs, HoldIsFrame
  <1>. QED BY <1>2 DEF StandsFor

\* What stands for a frame does so for good, however many runs the decoders meet later.
LEMMA StandsStay ==
  ASSUME met' \in SUBSET Runs, met \subseteq met', NEW f \in Frames, NEW k \in Frames, StandsFor(f, k),
         ~InRun(f, Runs)
  PROVE  StandsFor(f, k)'
  <1>1. CASE f = k
    BY <1>1 DEF StandsFor
  <1>2. CASE f # k
    <2>1. InRun(k, met) /\ f = HoldIn(k, met)
      BY <1>2, HoldForIs DEF StandsFor
    <2>2. HoldIn(k, met') = HoldIn(k, met)
      BY <2>1, HoldStays
    <2>3. InRun(k, met')
      BY <2>1 DEF InRun
    <2>4. HoldFor(k)' = f
      BY <2>1, <2>2, HoldForIs
    <2>. QED BY <2>3, <2>4 DEF StandsFor, InRun
  <1>. QED BY <1>1, <1>2

\* The decoders forget no run they have met.
LEMMA MetGrows == ASSUME TypeOK, [Next]_vars PROVE met' \in SUBSET Runs /\ met \subseteq met'
  <1>0. met \in SUBSET Runs
    BY DEF TypeOK
  <1>1. CASE FailDecode
    BY <1>0, <1>1 DEF FailDecode
  <1>2. ASSUME NEW c \in Callers, Enter(c) \/ Wake(c) PROVE UNCHANGED met
    BY <1>2, Contended
  <1>3. ASSUME NEW c \in Callers, (\E k \in Frames : Ask(c, k)) \/ Release(c) PROVE UNCHANGED met
    BY <1>3 DEF Ask, Release, engine
  <1>4. CASE Reserve \/ Allocate \/ Publish \/ GiveUp \/ Finish \/ WorkerFinish
    BY <1>0, <1>4 DEF Reserve, Allocate, Publish, GiveUp, Finish, WorkerFinish
  <1>5. CASE WorkerCheck \/ DropCachedFrames \/ Trim \/ TrimWake \/ Shutdown \/ Finished \/ UNCHANGED vars
    BY <1>0, <1>5, GivesBack DEF WorkerCheck, Shutdown, Finished, vars, engine
  <1>. QED BY <1>0, <1>1, <1>2, <1>3, <1>4, <1>5 DEF Next, OwnerStep

\* A want that is in order: see WantsKnown.
InOrder(w) ==
    /\ w.frame \in Frames /\ w.asked \in Frames
    /\ InRun(w.frame, Runs) \/ StandsFor(w.frame, w.asked)

\* A want in order stays so while more runs are met.
LEMMA InOrderStays ==
  ASSUME met' \in SUBSET Runs, met \subseteq met', NEW w, InOrder(w) PROVE InOrder(w)'
  BY StandsStay DEF InOrder, InRun

\* After every step the callers in a call have their wants in order.
LEMMA WantsStep == ASSUME TypeOK, CacheInv, [Next]_vars PROVE WantsKnown'
  <1>0. met' \in SUBSET Runs /\ met \subseteq met'
    BY MetGrows
  <1>1. ASSUME NEW c \in Callers, pc[c] # "idle", want'[c] = want[c] PROVE InOrder(want[c])'
    <2>1. PICK w : w = want[c]
      OBVIOUS
    <2>2. InOrder(w)
      BY <1>1, <2>1 DEF CacheInv, WantsKnown, InOrder
    <2>3. InOrder(w)'
      BY <1>0, <2>2, InOrderStays
    <2>. QED BY <1>1, <2>1, <2>3 DEF InOrder
  <1>2. ASSUME NEW c \in Callers, NEW k \in Frames, met' = met,
               want'[c].frame = HoldFor(k), want'[c].asked = k
        PROVE  InOrder(want[c])'
    <2>1. PICK f : f = HoldFor(k)
      OBVIOUS
    <2>2. f \in Frames /\ (InRun(f, Runs) \/ StandsFor(f, k))
      BY <2>1, HeldStandsFor
    <2>3. InRun(f, Runs) \/ StandsFor(f, k)'
      BY <1>0, <2>2, StandsStay
    <2>. QED BY <1>2, <2>1, <2>2, <2>3 DEF InOrder
  <1>3. SUFFICES ASSUME NEW b \in Callers, pc'[b] # "idle" PROVE InOrder(want[b])'
    BY DEF WantsKnown, InOrder
  <1>4. ASSUME want' = want, pc' = pc \/ pc' = Woken(pc) PROVE InOrder(want[b])'
    <2>1. pc[b] # "idle"
      BY <1>3, <1>4 DEF Woken
    <2>. QED BY <1>1, <1>4, <2>1
  <1>5. ASSUME NEW c \in Callers, NEW k \in Frames, Ask(c, k) PROVE InOrder(want[b])'
    <2>1. /\ met' = met
          /\ want' = [want EXCEPT ![c] = [frame |-> HoldFor(k), asked |-> k, retry |-> HoldFor(k) = k]]
          /\ pc' = [pc EXCEPT ![c] = "call"]
      BY <1>5 DEF Ask, engine
    <2>2. CASE b = c
      BY <1>2, <2>1, <2>2 DEF TypeOK
    <2>3. CASE b # c
      BY <1>1, <1>3, <2>1, <2>3 DEF TypeOK
    <2>. QED BY <2>2, <2>3
  <1>6. ASSUME NEW c \in Callers, Enter(c) \/ Wake(c) PROVE InOrder(want[b])'
    <2>1. /\ pc[c] # "idle"
          /\ (Moved(c, "idle") /\ want' = [want EXCEPT ![c] = NoWant]) \/ (want' = want /\ \E x : Moved(c, x))
      BY <1>6, Contended DEF Hit, Own, Busy
    <2>2. pc[b] # "idle" /\ want'[b] = want[b]
      BY <1>3, <2>1 DEF Moved, TypeOK
    <2>. QED BY <1>1, <2>2
  <1>7. ASSUME NEW c \in Callers, Release(c) PROVE InOrder(want[b])'
    BY <1>4, <1>7 DEF Release
  <1>8. CASE Finish
    <2>. DEFINE c == job.owner
                again == job.phase # "served" /\ want[c].retry /\ HoldFor(want[c].asked) # want[c].asked
    <2>1. /\ met' = met /\ c \in Callers /\ pc[c] = "engine"
          /\ want' = [want EXCEPT ![c] = IF again THEN [@ EXCEPT !.frame = HoldFor(want[c].asked), !.retry = FALSE]
                                         ELSE NoWant]
          /\ pc' = Woken([pc EXCEPT ![c] = IF again THEN "call" ELSE "idle"])
      BY <1>8, OwnerIsCaller DEF Finish, LetGo, CacheInv
    <2>2. want[c].asked \in Frames
      BY <2>1 DEF CacheInv, WantsKnown
    <2>. HIDE DEF c, again
    <2>3. CASE b # c
      <3>1. want'[b] = want[b] /\ pc[b] # "idle"
        BY <1>3, <2>1, <2>3 DEF TypeOK, Woken
      <3>. QED BY <1>1, <3>1
    <2>4. CASE b = c /\ again
      <3>1. want'[c].frame = HoldFor(want[c].asked) /\ want'[c].asked = want[c].asked
        BY <2>1, <2>4 DEF TypeOK
      <3>. QED BY <1>2, <2>1, <2>2, <2>4, <3>1
    <2>5. CASE b = c /\ ~again
      BY <1>3, <2>1, <2>5 DEF TypeOK, Woken
    <2>. QED BY <2>3, <2>4, <2>5
  <1>9. CASE Reserve
    BY <1>4, <1>9, ReserveTakes DEF calls
  <1>10. CASE Allocate \/ FailDecode \/ GiveUp \/ WorkerCheck \/ Shutdown
    BY <1>4, <1>10 DEF Allocate, FailDecode, GiveUp, WorkerCheck, Shutdown, calls
  <1>11. CASE Publish \/ WorkerFinish
    BY <1>4, <1>11 DEF Publish, WorkerFinish, LetGo
  <1>12. CASE DropCachedFrames \/ Trim \/ TrimWake
    BY <1>4, <1>12, GivesBack
  <1>13. CASE Finished \/ UNCHANGED vars
    BY <1>4, <1>13 DEF Finished, vars, calls
  <1>. QED BY <1>5, <1>6, <1>7, <1>8, <1>9, <1>10, <1>11, <1>12, <1>13 DEF Next, OwnerStep

\* A slot that is leased has pins.
LEMMA LeasedIsPinned ==
  ASSUME TypeOK, PinsAreLeases, NEW l \in AllLeases
  PROVE  /\ LeaseOf(l) \in LeaseRecord /\ LeaseOf(l).slot \in Slots
         /\ slot[LeaseOf(l).slot].pins # 0
  <1>. DEFINE s == LeaseOf(l).slot
  <1>1. LeaseOf(l) \in LeaseRecord
    BY LeasesTyped, LeasesAre
  <1>2. s \in Slots
    BY <1>1 DEF LeaseRecord
  <1>3. l \in Holders(s)
    BY DEF Holders
  <1>4. IsFiniteSet(Holders(s)) /\ slot[s].pins = Cardinality(Holders(s)) + BeingServed(s)
    BY <1>2 DEF PinsAreLeases
  <1>. HIDE DEF s
  <1>5. Cardinality(Holders(s)) \in Nat /\ Cardinality(Holders(s)) # 0
    BY <1>3, <1>4, FS_CardinalityType, FS_EmptySet
  <1>6. BeingServed(s) \in {0, 1}
    BY DEF BeingServed
  <1>7. slot[s].pins # 0
    BY <1>4, <1>5, <1>6
  <1>. QED BY <1>1, <1>2, <1>7 DEF s

\* After every step the slots of the leases hold the leases' frames.
LEMMA LeasesStep == ASSUME TypeOK, CacheInv, [Next]_vars PROVE LeasesKept'
  <1>. USE DEF CacheInv
  <1>0. /\ met' \in SUBSET Runs /\ met \subseteq met' /\ None \notin Frames
        /\ leases \in [Callers -> Seq(LeaseRecord)]
    BY MetGrows, FramesAreNumbers, LeasesTyped
  <1>. DEFINE Kept(lease) == slot[lease.slot].frame = lease.frame /\ StandsFor(lease.frame, lease.asked)
  <1>1. ASSUME NEW l \in AllLeases
        PROVE  /\ LeaseOf(l) \in LeaseRecord /\ LeaseOf(l).slot \in Slots /\ LeaseOf(l).frame \in Frames
               /\ LeaseOf(l).asked \in Frames /\ slot[LeaseOf(l).slot].pins # 0
               /\ slot[LeaseOf(l).slot].base /\ ~slot[LeaseOf(l).slot].writing
               /\ slot[LeaseOf(l).slot].frame = LeaseOf(l).frame
               /\ StandsFor(LeaseOf(l).frame, LeaseOf(l).asked) /\ ~InRun(LeaseOf(l).frame, Runs)
    <2>1. /\ LeaseOf(l) \in LeaseRecord /\ LeaseOf(l).slot \in Slots /\ slot[LeaseOf(l).slot].pins # 0
          /\ LeaseOf(l).frame \in Frames /\ LeaseOf(l).asked \in Frames
      BY LeasedIsPinned DEF LeaseRecord
    <2>2. slot[LeaseOf(l).slot].frame = LeaseOf(l).frame /\ StandsFor(LeaseOf(l).frame, LeaseOf(l).asked)
      BY DEF LeasesKept
    <2>. QED BY <1>0, <2>1, <2>2 DEF SlotsAgree
  \* A lease that was there stays as it is when its slot keeps its frame.
  <1>2. ASSUME NEW l \in AllLeases, NEW x, x = LeaseOf(l), slot'[x.slot].frame = slot[x.slot].frame
        PROVE  Kept(x)'
    <2>1. x.frame \in Frames /\ x.asked \in Frames /\ StandsFor(x.frame, x.asked) /\ ~InRun(x.frame, Runs)
          /\ slot[x.slot].frame = x.frame
      BY <1>1, <1>2
    <2>2. StandsFor(x.frame, x.asked)'
      BY <1>0, <2>1, StandsStay
    <2>. QED BY <1>2, <2>1, <2>2
  \* A step that hands out no lease and keeps the frames of the leased slots.
  <1>3. ASSUME leases' = leases, \A l \in AllLeases : slot'[LeaseOf(l).slot].frame = slot[LeaseOf(l).slot].frame
        PROVE  LeasesKept'
    <2>1. AllLeases' = AllLeases /\ \A l : LeaseOf(l)' = LeaseOf(l)
      BY <1>3 DEF AllLeases, LeaseOf
    <2>2. ASSUME NEW l \in AllLeases' PROVE (Kept(LeaseOf(l)))'
      <3>1. PICK x : x = LeaseOf(l)
        OBVIOUS
      <3>2. Kept(x)'
        BY <1>2, <1>3, <2>1, <2>2, <3>1
      <3>. QED BY <2>1, <3>1, <3>2
    <2>. QED BY <2>2 DEF LeasesKept
  \* A step that hands out a lease on the slot that holds the frame wanted.
  <1>4. ASSUME NEW c \in Callers, pc[c] # "idle", NEW s \in Slots, slot[s].frame = want[c].frame,
               leases' = [leases EXCEPT ![c] = Append(@, Lease(c, s))],
               \A t \in Slots : slot'[t].frame = slot[t].frame
        PROVE  LeasesKept'
    <2>1. PICK x : x = Lease(c, s)
      OBVIOUS
    <2>2. x \in LeaseRecord
      BY <1>4, <2>1, LeaseIsRecord
    <2>3. Kept(x)'
      <3>1. /\ x.slot = s /\ x.frame = want[c].frame /\ x.asked = want[c].asked
            /\ x.frame \in Frames /\ x.asked \in Frames
        BY <2>1, <2>2 DEF Lease, LeaseRecord
      <3>2. ~InRun(x.frame, Runs)
        BY <1>0, <1>4, <3>1 DEF SlotsAgree
      <3>3. StandsFor(x.frame, x.asked)
        BY <1>4, <3>1, <3>2 DEF WantsKnown
      <3>4. StandsFor(x.frame, x.asked)'
        BY <1>0, <3>1, <3>2, <3>3, StandsStay
      <3>5. slot'[x.slot].frame = x.frame
        BY <1>4, <3>1
      <3>. QED BY <3>4, <3>5
    <2>4. \A l \in AllLeases' : LeaseOf(l)' = x \/ (l \in AllLeases /\ LeaseOf(l)' = LeaseOf(l))
      BY <1>0, <1>4, <2>1, <2>2, LeaseTaken
    <2>5. ASSUME NEW l \in AllLeases' PROVE (Kept(LeaseOf(l)))'
      <3>1. CASE LeaseOf(l)' = x
        BY <2>3, <3>1
      <3>2. CASE l \in AllLeases /\ LeaseOf(l)' = LeaseOf(l)
        <4>1. PICK y : y = LeaseOf(l)
          OBVIOUS
        <4>2. Kept(y)'
          BY <1>1, <1>2, <1>4, <3>2, <4>1
        <4>. QED BY <3>2, <4>1, <4>2
      <3>. QED BY <2>4, <3>1, <3>2
    <2>. QED BY <2>5 DEF LeasesKept
  <1>5. ASSUME NEW c \in Callers, NEW k \in Frames, Ask(c, k) PROVE LeasesKept'
    BY <1>3, <1>5 DEF Ask, cache
  <1>6. ASSUME NEW c \in Callers, Enter(c) \/ Wake(c) PROVE LeasesKept'
    <2>1. pc[c] # "idle" /\ (Hit(c) \/ UNCHANGED <<slot, leases>>)
      BY <1>6, Contended DEF Own, Busy
    <2>2. CASE Hit(c)
      <3>. DEFINE s == frameToSlot[want[c].frame]
      <3>1. want[c].frame \in Frames /\ s # None
        BY <2>1, <2>2 DEF WantsKnown, Hit
      <3>2. s \in Slots
        BY <3>1 DEF TypeOK, OrNone
      <3>3. slot[s].frame = want[c].frame
        BY <3>1 DEF SlotsAgree
      <3>4. leases' = [leases EXCEPT ![c] = Append(@, Lease(c, s))]
        BY <2>2 DEF Hit
      <3>5. \A t \in Slots : slot'[t].frame = slot[t].frame
        BY <2>2, PinsOnly
      <3>. HIDE DEF s
      <3>. QED BY <1>4, <2>1, <3>2, <3>3, <3>4, <3>5
    <2>. QED BY <1>3, <2>1, <2>2
  <1>7. ASSUME NEW c \in Callers, Release(c) PROVE LeasesKept'
    <2>1. PICK i \in DOMAIN leases[c] :
             leases' = [leases EXCEPT ![c] = SubSeq(@, 1, i - 1) \o SubSeq(@, i + 1, Len(@))]
      BY <1>7 DEF Release
    <2>2. \A l \in AllLeases' : \E m \in AllLeases : LeaseOf(l)' = LeaseOf(m)
      BY <1>0, <2>1, LeaseReturned
    <2>3. ASSUME NEW l \in AllLeases' PROVE (Kept(LeaseOf(l)))'
      <3>1. PICK m \in AllLeases : LeaseOf(l)' = LeaseOf(m)
        BY <2>2
      <3>2. PICK y : y = LeaseOf(m)
        OBVIOUS
      <3>3. slot'[y.slot].frame = slot[y.slot].frame
        BY <1>1, <1>7, <3>2, PinsOnly
      <3>4. Kept(y)'
        BY <1>2, <3>2, <3>3
      <3>. QED BY <3>1, <3>2, <3>4
    <2>. QED BY <2>3 DEF LeasesKept
  <1>8. CASE Reserve
    <2>1. leases' = leases /\ (slot' = slot \/ \E s : Takes(s))
      BY <1>8, ReserveTakes DEF calls
    <2>2. ASSUME NEW s, Takes(s), NEW l \in AllLeases PROVE slot'[LeaseOf(l).slot] = slot[LeaseOf(l).slot]
      <3>1. s # LeaseOf(l).slot
        BY <1>1, <2>2 DEF Takes
      <3>. QED BY <1>1, <2>2, <3>1 DEF Takes
    <2>. QED BY <1>3, <2>1, <2>2
  <1>9. CASE Allocate
    BY <1>1, <1>3, <1>9, AllocateGives
  <1>10. CASE Publish
    <2>1. \A l \in AllLeases : slot'[LeaseOf(l).slot] = slot[LeaseOf(l).slot]
      <3>1. job.slot # None => \A l \in AllLeases : LeaseOf(l).slot # job.slot
        BY <1>1, <1>10, PublishFills DEF EngineAgrees
      <3>. QED BY <1>1, <1>10, <3>1, PublishFills
    <2>. QED BY <1>3, <1>10, <2>1 DEF Publish
  <1>11. CASE FailDecode
    <2>1. \A l \in AllLeases : slot'[LeaseOf(l).slot] = slot[LeaseOf(l).slot]
      <3>1. job.slot # None => \A l \in AllLeases : LeaseOf(l).slot # job.slot
        BY <1>1, <1>11, FailEmpties DEF EngineAgrees
      <3>. QED BY <1>1, <1>11, <3>1, FailEmpties
    <2>. QED BY <1>3, <1>11, <2>1 DEF FailDecode, calls
  <1>12. CASE Finish
    <2>1. /\ job.owner \in Callers /\ pc[job.owner] # "idle" /\ slot' = slot
          /\ want[job.owner].frame = job.target
          /\ (job.phase # "served" => leases' = leases)
          /\ (job.phase = "served" => leases' = [leases EXCEPT ![job.owner] = Append(@, Lease(job.owner, job.slot))])
      BY <1>12, OwnerIsCaller DEF Finish, cache
    <2>2. CASE job.phase # "served"
      BY <1>3, <2>1, <2>2
    <2>3. CASE job.phase = "served"
      <3>1. job.slot \in Slots /\ slot[job.slot].frame = job.target
        BY <2>3, JobIs DEF EngineAgrees
      <3>. QED BY <1>4, <2>1, <2>3, <3>1
    <2>. QED BY <2>2, <2>3
  <1>13. CASE GiveUp \/ WorkerFinish \/ WorkerCheck
    BY <1>3, <1>13 DEF GiveUp, WorkerFinish, WorkerCheck, cache, calls
  <1>14. CASE DropCachedFrames \/ Trim \/ TrimWake
    <2>1. leases' = leases /\ (slot' = slot \/ \E S : Emptied(S))
      BY <1>14, GivesBack DEF Detaches
    <2>2. ASSUME NEW S, Emptied(S), NEW l \in AllLeases PROVE slot'[LeaseOf(l).slot] = slot[LeaseOf(l).slot]
      <3>1. LeaseOf(l).slot \in Slots \ S
        BY <1>1, <2>2 DEF Emptied, Unheld
      <3>. QED BY <2>2, <3>1 DEF Emptied
    <2>. QED BY <1>3, <2>1, <2>2
  <1>15. CASE Shutdown \/ Finished \/ UNCHANGED vars
    BY <1>3, <1>15 DEF Shutdown, Finished, vars, cache, calls
  <1>. QED BY <1>5, <1>6, <1>7, <1>8, <1>9, <1>10, <1>11, <1>12, <1>13, <1>14, <1>15 DEF Next,
     OwnerStep

-----------------------------------------------------------------------------
(* The types of the other variables. *)

Jobs == [owner : Callers \cup {"worker"}, target : Frames, at : Frames, slot : OrNone(Slots),
         phase : Phases \ {"none"}]
Windows == {NoAhead} \cup [base : Frames, end : Frames]
Wants == [frame : OrNone(Frames), asked : OrNone(Frames), retry : BOOLEAN]

\* The map of frames, the stamps and the limit on slots keep their types.
LEMMA StoreTyped ==
  ASSUME TypeOK, EngineAgrees, WantsKnown, [Next]_vars
  PROVE  /\ frameToSlot' \in [Frames -> OrNone(Slots)] /\ lastUse' \in [Slots -> 0 .. Capacity]
         /\ usableSlots' \in 0 .. Capacity
  <1>0. /\ frameToSlot \in [Frames -> OrNone(Slots)] /\ lastUse \in [Slots -> 0 .. Capacity]
        /\ usableSlots \in 0 .. Capacity /\ allocatedSlots \in 0 .. Capacity
    BY DEF TypeOK
  <1>1. \A S : Unmap(S) => frameToSlot' \in [Frames -> OrNone(Slots)]
    BY <1>0 DEF Unmap, OrNone
  <1>2. \A s : Touch(s) => lastUse' \in [Slots -> 0 .. Capacity]
    BY RankedType DEF Touch
  <1>3. ASSUME NEW c \in Callers, Enter(c) \/ Wake(c)
        PROVE  UNCHANGED <<frameToSlot, usableSlots>> /\ lastUse' \in [Slots -> 0 .. Capacity]
    BY <1>3, Contended DEF Hit, Own, Busy
  <1>4. ASSUME NEW c \in Callers, Release(c)
        PROVE  UNCHANGED <<frameToSlot, usableSlots>> /\ lastUse' \in [Slots -> 0 .. Capacity]
    BY <1>2, <1>4 DEF Release
  <1>5. ASSUME NEW c \in Callers, NEW k \in Frames, Ask(c, k) PROVE UNCHANGED <<frameToSlot, usableSlots, lastUse>>
    BY <1>5 DEF Ask, cache
  <1>6. ASSUME Reserve
        PROVE  /\ frameToSlot' = frameToSlot \/ \E S : Unmap(S)
               /\ lastUse' \in [Slots -> 0 .. Capacity] /\ usableSlots' = usableSlots
    BY <1>6, ReserveTakes DEF Takes
  <1>7. ASSUME Allocate PROVE UNCHANGED <<frameToSlot, lastUse>> /\ usableSlots' \in {usableSlots, allocatedSlots}
    BY <1>7 DEF Allocate
  <1>8. ASSUME Publish
        PROVE  /\ usableSlots' = usableSlots /\ lastUse' \in [Slots -> 0 .. Capacity]
               /\ frameToSlot' \in [Frames -> OrNone(Slots)]
    <2>1. usableSlots' = usableSlots /\ lastUse' \in [Slots -> 0 .. Capacity]
      BY <1>0, <1>2, <1>8 DEF Publish
    <2>2. frameToSlot' \in [Frames -> OrNone(Slots)]
      BY <1>0, <1>8, PublishFills DEF OrNone
    <2>. QED BY <2>1, <2>2
  <1>9. CASE FailDecode \/ GiveUp \/ Finish \/ WorkerFinish \/ WorkerCheck \/ Shutdown \/ Finished \/ UNCHANGED vars
    BY <1>0, <1>9 DEF FailDecode, GiveUp, Finish, WorkerFinish, WorkerCheck, Shutdown, Finished,
       vars, cache
  <1>10. ASSUME DropCachedFrames \/ Trim \/ TrimWake
         PROVE  /\ frameToSlot' = frameToSlot \/ \E S : Unmap(S)
                /\ (lastUse' = lastUse \/ lastUse' \in [Slots -> 0 .. Capacity]) /\ usableSlots' = usableSlots
    BY <1>10, GivesBack DEF Detaches, Emptied
  <1>. QED BY <1>0, <1>1, <1>3, <1>4, <1>5, <1>6, <1>7, <1>8, <1>9, <1>10 DEF Next, OwnerStep

\* The window, the last request and the stopping flag keep their types.
LEMMA WindowTyped ==
  ASSUME TypeOK, WantsKnown, [Next]_vars
  PROVE  lastRequest' \in OrNone(Frames) /\ ahead' \in Windows /\ stopping' \in BOOLEAN
  <1>0. lastRequest \in OrNone(Frames) /\ ahead \in Windows /\ stopping \in BOOLEAN /\ NoAhead \in Windows
    BY DEF TypeOK, Windows
  <1>1. ASSUME NEW c \in Callers, Enter(c)
        PROVE  lastRequest' \in OrNone(Frames) /\ ahead' \in Windows /\ stopping' = stopping
    <2>1. want[c].asked \in Frames /\ NoteAccess(want[c].asked) /\ stopping' = stopping
      BY <1>1 DEF WantsKnown, Enter
    <2>. QED BY <2>1, NotedAccess DEF Windows
  <1>2. ASSUME NEW c \in Callers, Wake(c) \/ (\E k \in Frames : Ask(c, k)) \/ Release(c)
        PROVE  UNCHANGED <<lastRequest, ahead, stopping>>
    BY <1>2 DEF Wake, Ask, Release, window
  <1>3. CASE Reserve \/ Allocate \/ Publish \/ FailDecode \/ GiveUp \/ Finish \/ WorkerFinish
    BY <1>0, <1>3 DEF Reserve, Allocate, Publish, FailDecode, GiveUp, Finish, WorkerFinish, window
  <1>4. CASE WorkerCheck \/ DropCachedFrames \/ Trim \/ TrimWake \/ Shutdown \/ Finished \/ UNCHANGED vars
    BY <1>0, <1>4 DEF WorkerCheck, DropCachedFrames, Trim, TrimWake, Shutdown, Finished, vars,
       window
  <1>. QED BY <1>0, <1>1, <1>2, <1>3, <1>4 DEF Next, OwnerStep

\* The worker's and the trimmer's places and the bounded counts keep their types.
LEMMA ThreadsTyped ==
  ASSUME TypeOK, [Next]_vars
  PROVE  /\ worker' \in {"check", "asleep", "engine", "gone"} /\ trimmer' \in {"idle", "waiting", "awake"}
         /\ acquires' \in 0 .. MaxAcquires /\ failures' \in 0 .. MaxFailures
         /\ trims' \in 0 .. MaxTrims /\ drops' \in 0 .. MaxDrops
  <1>. USE DEF NotifyThreads, WokenWorker, WokenTrimmer, threads, bounds
  <1>0. /\ worker \in {"check", "asleep", "engine", "gone"} /\ trimmer \in {"idle", "waiting", "awake"}
        /\ acquires \in 0 .. MaxAcquires /\ failures \in 0 .. MaxFailures
        /\ trims \in 0 .. MaxTrims /\ drops \in 0 .. MaxDrops
        /\ MaxAcquires \in Nat /\ MaxFailures \in Nat /\ MaxTrims \in Nat /\ MaxDrops \in Nat
    BY CacheAssumption DEF TypeOK
  <1>1. ASSUME NEW c \in Callers, NEW k \in Frames, Ask(c, k)
        PROVE  UNCHANGED <<worker, trimmer, failures, trims, drops>> /\ acquires' \in 0 .. MaxAcquires
    BY <1>0, <1>1 DEF Ask
  <1>2. ASSUME NEW c \in Callers, Enter(c) \/ Wake(c) \/ Release(c)
        PROVE  (UNCHANGED threads \/ NotifyThreads) /\ UNCHANGED bounds
    BY <1>2 DEF Enter, Wake, Release
  <1>3. CASE Reserve \/ GiveUp \/ Finish \/ WorkerFinish \/ Publish
    BY <1>0, <1>3 DEF Reserve, Publish, GiveUp, Finish, WorkerFinish, LetGo
  <1>4. CASE Allocate \/ FailDecode
    BY <1>0, <1>4 DEF Allocate, FailDecode
  <1>5. CASE WorkerCheck \/ Shutdown \/ Finished \/ UNCHANGED vars
    BY <1>0, <1>5 DEF WorkerCheck, Shutdown, Finished, vars
  <1>6. CASE DropCachedFrames \/ Trim \/ TrimWake
    BY <1>0, <1>6 DEF DropCachedFrames, Trim, TrimWake, calls
  <1>. QED BY <1>0, <1>1, <1>2, <1>3, <1>4, <1>5, <1>6 DEF Next, OwnerStep

\* The callers' places and wants keep their types.
LEMMA CallsTyped ==
  ASSUME TypeOK, EngineAgrees, WantsKnown, [Next]_vars
  PROVE  pc' \in [Callers -> Places] /\ want' \in [Callers -> Wants]
  <1>0. /\ pc \in [Callers -> Places] /\ want \in [Callers -> Wants]
        /\ NoWant \in Wants /\ {"idle", "call", "waiting", "awake", "engine"} \subseteq Places
    <2>1. pc \in [Callers -> Places] /\ want \in [Callers -> Wants]
      BY DEF TypeOK, Wants
    <2>2. NoWant \in Wants
      BY DEF NoWant, Wants, OrNone
    <2>. QED BY <2>1, <2>2 DEF Places
  <1>1. Woken(pc) \in [Callers -> Places]
    BY <1>0, WokenAre
  <1>2. ASSUME NEW c \in Callers, NEW k \in Frames, Ask(c, k)
        PROVE  pc' \in [Callers -> Places] /\ want' \in [Callers -> Wants]
    <2>1. /\ want' = [want EXCEPT ![c] = [frame |-> HoldFor(k), asked |-> k, retry |-> HoldFor(k) = k]]
          /\ pc' = [pc EXCEPT ![c] = "call"] /\ HoldFor(k) \in Frames
      BY <1>2, HeldStandsFor DEF Ask
    <2>2. \A f \in Frames, b \in BOOLEAN : [frame |-> f, asked |-> k, retry |-> b] \in Wants
      BY DEF Wants, OrNone
    <2>3. [frame |-> HoldFor(k), asked |-> k, retry |-> HoldFor(k) = k] \in Wants
      <3>1. (HoldFor(k) = k) \in BOOLEAN
        OBVIOUS
      <3>. QED BY <2>1, <2>2, <3>1, Zenon
    <2>. QED BY <1>0, <2>1, <2>3
  <1>3. ASSUME NEW c \in Callers, Enter(c) \/ Wake(c)
        PROVE  pc' \in [Callers -> Places] /\ want' \in [Callers -> Wants]
    <2>1. pc' \in [Callers -> Places] /\ (want' = want \/ want' = [want EXCEPT ![c] = NoWant])
      BY <1>3, Contended DEF Moved, Hit, Own, Busy
    <2>. QED BY <1>0, <2>1
  <1>4. ASSUME NEW c \in Callers, Release(c) PROVE pc' = Woken(pc) /\ want' = want
    BY <1>4 DEF Release
  <1>5. CASE Finish
    <2>. DEFINE c == job.owner
                again == job.phase # "served" /\ want[c].retry /\ HoldFor(want[c].asked) # want[c].asked
    <2>1. /\ c \in Callers /\ pc[c] = "engine" /\ pc' \in [Callers -> Places]
          /\ want' = [want EXCEPT ![c] = IF again THEN [@ EXCEPT !.frame = HoldFor(want[c].asked), !.retry = FALSE]
                                         ELSE NoWant]
      BY <1>5, OwnerIsCaller, FinishMoves DEF Finish, Moved
    <2>2. want[c].asked \in Frames /\ want[c] \in Wants
      BY <1>0, <2>1 DEF WantsKnown
    <2>3. [want[c] EXCEPT !.frame = HoldFor(want[c].asked), !.retry = FALSE] \in Wants
      <3>1. HoldFor(want[c].asked) \in OrNone(Frames) /\ FALSE \in BOOLEAN
        BY <2>2, HeldStandsFor DEF OrNone
      <3>2. \A w \in Wants, f \in OrNone(Frames) : [w EXCEPT !.frame = f, !.retry = FALSE] \in Wants
        BY Zenon DEF Wants
      <3>. QED BY <2>2, <3>1, <3>2
    <2>. HIDE DEF c, again
    <2>. QED BY <1>0, <2>1, <2>3
  <1>6. CASE Reserve
    BY <1>0, <1>6, ReserveTakes DEF calls
  <1>7. CASE Allocate \/ FailDecode \/ GiveUp \/ WorkerCheck \/ Shutdown \/ Finished \/ UNCHANGED vars
    BY <1>0, <1>7 DEF Allocate, FailDecode, GiveUp, WorkerCheck, Shutdown, Finished, vars, calls
  <1>8. CASE Publish \/ WorkerFinish
    BY <1>0, <1>1, <1>8 DEF Publish, WorkerFinish, LetGo
  <1>9. ASSUME DropCachedFrames \/ Trim \/ TrimWake PROVE (pc' = pc \/ pc' = Woken(pc)) /\ want' = want
    BY <1>9, GivesBack
  <1>. QED BY <1>0, <1>1, <1>2, <1>3, <1>4, <1>5, <1>6, <1>7, <1>8, <1>9 DEF Next, OwnerStep

\* The engine's flag, its position and its owner's job keep their types.
LEMMA EngineTyped ==
  ASSUME TypeOK, CacheInv, [Next]_vars
  PROVE  engineBusy' \in BOOLEAN /\ engineNext' \in OrNone(0 .. FrameCount) /\ job' \in {NoJob} \cup Jobs
  <1>. USE DEF CacheInv
  <1>. DEFINE Goal == engineBusy' \in BOOLEAN /\ engineNext' \in OrNone(0 .. FrameCount) /\ job' \in {NoJob} \cup Jobs
  <1>0. /\ engineBusy \in BOOLEAN /\ engineNext \in OrNone(0 .. FrameCount) /\ job \in {NoJob} \cup Jobs
        /\ None \in OrNone(Slots) /\ None \in OrNone(0 .. FrameCount)
    BY DEF TypeOK, Jobs, OrNone
  <1>1. ASSUME UNCHANGED <<engineBusy, engineNext, job>> PROVE Goal
    BY <1>0, <1>1
  <1>2. ASSUME NEW o \in Callers \cup {"worker"}, NEW f \in Frames, engineBusy' = TRUE, engineNext' = engineNext,
               job' = [owner |-> o, target |-> f, at |-> PlanStart(f), slot |-> None, phase |-> "reserve"]
        PROVE  Goal
    <2>1. PlanStart(f) \in Frames
      BY PlanIsBefore
    <2>2. job' \in Jobs
      BY <1>0, <1>2, <2>1 DEF Jobs, Phases
    <2>. QED BY <1>0, <1>2, <2>2
  <1>3. ASSUME job.phase # "none", NEW ph \in Phases \ {"none"}, NEW sl \in OrNone(Slots),
               job' = [job EXCEPT !.slot = sl, !.phase = ph] \/ job' = [job EXCEPT !.phase = ph]
        PROVE  job' \in Jobs
    <2>1. job \in Jobs
      BY <1>3, JobIs DEF Jobs
    <2>. QED BY <1>3, <2>1 DEF Jobs
  <1>4. ASSUME NEW c \in Callers, NEW k \in Frames, Ask(c, k) PROVE Goal
    BY <1>1, <1>4 DEF Ask, engine
  <1>5. ASSUME NEW c \in Callers, Enter(c) \/ Wake(c) PROVE Goal
    <2>1. pc[c] # "idle" /\ engineNext' = engineNext /\ (Own(c) \/ UNCHANGED <<engineBusy, job>>)
      BY <1>5, Contended DEF Hit, Busy
    <2>2. want[c].frame \in Frames
      BY <2>1 DEF WantsKnown
    <2>3. CASE Own(c)
      BY <1>2, <2>1, <2>2, <2>3 DEF Own
    <2>. QED BY <1>1, <2>1, <2>3
  <1>6. ASSUME NEW c \in Callers, Release(c) PROVE Goal
    BY <1>1, <1>6 DEF Release, engine
  <1>7. CASE Reserve
    <2>1. job.phase = "reserve" /\ UNCHANGED <<engineBusy, engineNext>>
      BY <1>7, ReserveTakes
    <2>2. /\ {"refused", "decode", "allocate"} \subseteq Phases \ {"none"}
          /\ \A s : Takes(s) => s \in OrNone(Slots)
      BY DEF Phases, Takes, OrNone
    <2>3. \E ph \in {"refused", "decode", "allocate"}, sl \in OrNone(Slots) :
             job' = [job EXCEPT !.slot = sl, !.phase = ph] \/ job' = [job EXCEPT !.phase = ph]
      BY <1>0, <1>7, <2>2, ReserveTakes DEF Takes
    <2>. QED BY <1>0, <1>3, <2>1, <2>2, <2>3
  <1>8. CASE Allocate
    <2>1. job.phase = "allocate" /\ UNCHANGED <<engineBusy, engineNext>>
          /\ (job' = [job EXCEPT !.phase = "decode"] \/ job' = [job EXCEPT !.slot = None, !.phase = "reserve"])
      BY <1>8 DEF Allocate
    <2>2. {"reserve", "decode"} \subseteq Phases \ {"none"}
      BY DEF Phases
    <2>. QED BY <1>0, <1>3, <2>1, <2>2
  <1>9. CASE Publish
    <2>1. job \in Jobs /\ job.at \in Frames /\ job.phase = "decode" /\ job.at <= job.target /\ job.target \in Frames
      BY <1>9, JobIs DEF Publish, EngineAgrees, Jobs
    <2>2. engineNext' = job.at + 1 /\ engineBusy' = engineBusy
      BY <1>9 DEF Publish
    <2>3. job.at + 1 \in 0 .. FrameCount
      BY <2>1, FramesAreNumbers, CacheAssumption
    <2>4. job' \in Jobs
      <3>1. CASE Pinned \/ IsWorkers
        <4>1. job' = [job EXCEPT !.phase = "served"] \/ job' = [job EXCEPT !.phase = "done"]
          BY <1>9, <3>1 DEF Publish
        <4>2. {"served", "done"} \subseteq Phases \ {"none"}
          BY DEF Phases
        <4>. QED BY <1>0, <1>3, <2>1, <4>1, <4>2
      <3>2. CASE ~Pinned /\ ~IsWorkers
        <4>1. job' = [job EXCEPT !.at = job.at + 1, !.slot = None, !.phase = "reserve"]
          BY <1>9, <2>1, <3>2 DEF Publish, Jobs
        <4>2. job.at + 1 \in Frames
          BY <2>1, <3>2, FramesAreNumbers DEF Pinned
        <4>. QED BY <1>0, <2>1, <4>1, <4>2 DEF Jobs, Phases
      <3>. QED BY <3>1, <3>2
    <2>. QED BY <1>0, <2>2, <2>3, <2>4 DEF OrNone
  <1>10. CASE FailDecode
    <2>1. job.phase = "decode" /\ engineBusy' = engineBusy /\ engineNext' = None
          /\ job' = [job EXCEPT !.slot = None, !.phase = IF IsWorkers THEN "giveup" ELSE "failed"]
      BY <1>10 DEF FailDecode
    <2>2. (IF IsWorkers THEN "giveup" ELSE "failed") \in Phases \ {"none"}
      BY DEF Phases
    <2>. QED BY <1>0, <1>3, <2>1, <2>2
  <1>11. CASE GiveUp
    <2>1. job.phase = "giveup" /\ UNCHANGED <<engineBusy, engineNext>> /\ job' = [job EXCEPT !.phase = "done"]
      BY <1>11 DEF GiveUp
    <2>2. "done" \in Phases \ {"none"}
      BY DEF Phases
    <2>. QED BY <1>0, <1>3, <2>1, <2>2
  <1>12. CASE Finish \/ WorkerFinish
    BY <1>0, <1>12 DEF Finish, WorkerFinish
  <1>13. CASE WorkerCheck
    <2>1. CASE UNCHANGED <<engineBusy, job>>
      BY <1>1, <1>13, <2>1 DEF WorkerCheck
    <2>2. CASE ~UNCHANGED <<engineBusy, job>>
      <3>1. /\ engineBusy' = TRUE /\ FirstMissingAhead # None /\ engineNext' = engineNext
            /\ job' = [owner |-> "worker", target |-> FirstMissingAhead, at |-> PlanStart(FirstMissingAhead),
                       slot |-> None, phase |-> "reserve"]
        BY <1>13, <2>2 DEF WorkerCheck, WorkerHasWork
      <3>2. FirstMissingAhead \in Frames
        BY <3>1, MissingIsFrame DEF OrNone
      <3>. QED BY <1>2, <3>1, <3>2
    <2>. QED BY <2>1, <2>2
  <1>14. CASE DropCachedFrames \/ Trim \/ TrimWake
    BY <1>1, <1>14, GivesBack
  <1>15. CASE Shutdown \/ Finished \/ UNCHANGED vars
    BY <1>1, <1>15 DEF Shutdown, Finished, vars, engine
  <1>. QED BY <1>4, <1>5, <1>6, <1>7, <1>8, <1>9, <1>10, <1>11, <1>12, <1>13, <1>14, <1>15 DEF Next,
     OwnerStep

-----------------------------------------------------------------------------
(* The theorems. *)

\* Every step keeps the types.
LEMMA TypeStep == ASSUME TypeOK, CacheInv, [Next]_vars PROVE TypeOK'
  <1>. USE DEF CacheInv
  <1>1. /\ slot' \in [Slots -> SlotRecord] /\ leases' \in [Callers -> Seq(LeaseRecord)]
        /\ frameToSlot' \in [Frames -> OrNone(Slots)] /\ lastUse' \in [Slots -> 0 .. Capacity]
        /\ usableSlots' \in 0 .. Capacity
    BY PinsStep, StoreTyped
  <1>2. /\ engineBusy' \in BOOLEAN /\ engineNext' \in OrNone(0 .. FrameCount) /\ met' \subseteq Runs
        /\ job' \in {NoJob} \cup Jobs
    BY EngineTyped, MetGrows
  <1>3. lastRequest' \in OrNone(Frames) /\ ahead' \in Windows /\ stopping' \in BOOLEAN
    BY WindowTyped
  <1>4. pc' \in [Callers -> Places] /\ want' \in [Callers -> Wants]
    BY CallsTyped
  <1>5. allocatedSlots' \in 0 .. Capacity
    BY AllocatedStep, BasedCount
  <1>6. foregroundWaiters' \in 0 .. Cardinality(Callers)
    <2>1. foregroundWaiters' = Cardinality(Waiters(pc'))
      BY WaitersStep
    <2>2. Waiters(pc') \in SUBSET Callers
      BY DEF Waiters
    <2>3. IsFiniteSet(Waiters(pc')) /\ Cardinality(Waiters(pc')) <= Cardinality(Callers)
      BY <2>2, CacheAssumption, FS_Subset
    <2>. QED BY <2>1, <2>3, CacheAssumption, FS_CardinalityType
  <1>. QED BY <1>1, <1>2, <1>3, <1>4, <1>5, <1>6, ThreadsTyped
        DEF TypeOK, SlotRecord, LeaseRecord, Jobs, Windows, Wants

\* Every step keeps the two counters right.
LEMMA CountersStep == ASSUME TypeOK, CacheInv, [Next]_vars PROVE CountersCount'
  BY WaitersStep, AllocatedStep DEF CacheInv, CountersCount, Waiters, Based

\* The invariant holds when the decoder has been opened.
LEMMA CacheInit == Init => TypeOK /\ CacheInv
  <1>. SUFFICES ASSUME Init PROVE TypeOK /\ CacheInv
    OBVIOUS
  <1>1. /\ FrameCount \in Nat /\ 1 \in 0 .. FrameCount
        /\ Capacity \in Nat /\ 1 \in 0 .. Capacity /\ Capacity \in 0 .. Capacity
        /\ 0 \in Frames /\ 0 \in Slots /\ None \notin Frames /\ None \notin Slots
        /\ Cardinality(Callers) \in Nat /\ 0 \in 0 .. Cardinality(Callers)
        /\ \A n \in {MaxAcquires, MaxFailures, MaxTrims, MaxDrops} : 0 \in 0 .. n
    BY CacheAssumption, FramesAreNumbers, FS_CardinalityType
  <1>2. slot \in [Slots -> SlotRecord]
    <2>1. EmptySlot \in SlotRecord /\ [EmptySlot EXCEPT !.base = TRUE, !.frame = 0] \in SlotRecord
      BY <1>1 DEF EmptySlot, SlotRecord, OrNone
    <2>. QED BY <2>1 DEF Init
  <1>3. AllLeases = {}
    BY DEF AllLeases, Init
  <1>4. ~InRun(0, Runs)
    BY CacheAssumption DEF InRun, Frames
  <1>5. ASSUME NEW s \in Slots
        PROVE  /\ slot[s].base <=> s = 0
               /\ slot[s].frame = IF s = 0 THEN 0 ELSE None
               /\ slot[s].pins = 0 /\ ~slot[s].writing
    <2>1. CASE s = 0
      BY <2>1 DEF Init, EmptySlot
    <2>2. CASE s # 0
      BY <2>2 DEF Init, EmptySlot
    <2>. QED BY <2>1, <2>2
  <1>6. TypeOK
    <2>1. /\ frameToSlot \in [Frames -> OrNone(Slots)] /\ lastUse \in [Slots -> 0 .. Capacity]
          /\ usableSlots \in 0 .. Capacity /\ allocatedSlots \in 0 .. Capacity
          /\ engineBusy \in BOOLEAN /\ engineNext \in OrNone(0 .. FrameCount) /\ met \subseteq Runs
          /\ foregroundWaiters \in 0 .. Cardinality(Callers)
      BY <1>1 DEF Init, OrNone
    <2>2. /\ lastRequest \in OrNone(Frames) /\ ahead \in {NoAhead} \cup [base : Frames, end : Frames]
          /\ stopping \in BOOLEAN
          /\ job \in {NoJob} \cup [owner : Callers \cup {"worker"}, target : Frames, at : Frames,
                                   slot : OrNone(Slots), phase : Phases \ {"none"}]
          /\ pc \in [Callers -> Places]
          /\ leases \in [Callers -> Seq([slot : Slots, frame : Frames, asked : Frames])]
          /\ worker \in {"check", "asleep", "engine", "gone"} /\ trimmer \in {"idle", "waiting", "awake"}
          /\ acquires \in 0 .. MaxAcquires /\ failures \in 0 .. MaxFailures
          /\ trims \in 0 .. MaxTrims /\ drops \in 0 .. MaxDrops
      BY <1>1 DEF Init, OrNone, Places
    <2>3. want \in [Callers -> [frame : OrNone(Frames), asked : OrNone(Frames), retry : BOOLEAN]]
      BY DEF Init, NoWant, OrNone
    <2>. QED BY <1>2, <2>1, <2>2, <2>3 DEF TypeOK, SlotRecord
  <1>7. SlotsAgree
    <2>1. frameToSlot = [f \in Frames |-> IF f = 0 THEN 0 ELSE None]
      BY DEF Init
    <2>. QED BY <1>1, <1>4, <1>5, <2>1 DEF SlotsAgree
  <1>8. EngineAgrees
    <2>1. job = NoJob /\ engineBusy = FALSE /\ job.phase = "none"
      BY DEF Init, NoJob
    <2>. QED BY <1>5, <2>1 DEF EngineAgrees
  <1>9. PinsAreLeases
    <2>1. \A s \in Slots : Holders(s) = {} /\ BeingServed(s) = 0
      BY <1>3 DEF Holders, BeingServed, Init, NoJob
    <2>. QED BY <1>5, <2>1, FS_EmptySet DEF PinsAreLeases
  <1>10. LeasesKept /\ WantsKnown
    BY <1>3 DEF LeasesKept, WantsKnown, Init
  <1>11. CountersCount
    <2>1. {s \in Slots : slot[s].base} = {0} /\ {c \in Callers : pc[c] \in {"waiting", "awake"}} = {}
      BY <1>1, <1>5 DEF Init
    <2>2. Cardinality({0}) = 1 /\ Cardinality({c \in Callers : pc[c] \in {"waiting", "awake"}}) = 0
      BY <2>1, FS_Singleton, FS_EmptySet
    <2>. QED BY <2>1, <2>2 DEF Init, CountersCount
  <1>. QED BY <1>6, <1>7, <1>8, <1>9, <1>10, <1>11 DEF CacheInv

\* The parts of the invariant hold together in every reachable state.
LEMMA CacheInvariant == Spec => [](TypeOK /\ CacheInv)
  <1>1. TypeOK /\ CacheInv /\ [Next]_vars => (TypeOK /\ CacheInv)'
    <2>. SUFFICES ASSUME TypeOK, CacheInv, [Next]_vars PROVE (TypeOK /\ CacheInv)'
      OBVIOUS
    <2>. QED BY TypeStep, SlotsStep, EngineStep, PinsStep, LeasesStep, WantsStep, CountersStep DEF
       CacheInv
  <1>. QED BY <1>1, CacheInit, PTL DEF Spec

\* The variables keep their types (TypeOK): slots and frames that are named exist, a
\* slot's pins never go below zero, the counts of slots and of waiters stay in range.
THEOREM CacheTypeCorrect == Spec => []TypeOK
  <1>. QED BY CacheInvariant, PTL

\* GpuClipDecoder's engine has one owner: only he fills a slot, one at a time, and
\* no failure leaves a slot marked as being filled (OneWriter).
THEOREM EngineHasOneOwner == Spec => []OneWriter
  <1>1. TypeOK /\ CacheInv => OneWriter
    <2>. SUFFICES ASSUME TypeOK, CacheInv PROVE OneWriter
      OBVIOUS
    <2>1. engineBusy <=> job # NoJob
      BY DEF CacheInv, EngineAgrees
    <2>2. {s \in Slots : slot[s].writing} = (IF job.phase \in {"allocate", "decode"} THEN {job.slot} \ {None} ELSE {})
      <3>1. job.phase \in {"allocate", "decode"} /\ job.slot # None => job.slot \in Slots
        BY JobIs
      <3>. QED BY <3>1, FramesAreNumbers DEF CacheInv, EngineAgrees
    <2>3. job.phase \in {"reserve", "allocate", "decode"} /\ ~IsWorkers => frameToSlot[job.target] = None
      BY DEF CacheInv, EngineAgrees, NoJob
    <2>. QED BY <2>1, <2>2, <2>3 DEF OneWriter
  <1>. QED BY <1>1, CacheInvariant, PTL

\* A GpuFrameLease keeps the pixels it was given, whatever the other callers, the
\* worker, trimForIdle or dropCachedFrames do (LeasedFrameStays).
THEOREM LeasesKeepTheirFrames == Spec => []LeasedFrameStays
  <1>1. TypeOK /\ CacheInv => LeasedFrameStays
    <2>. SUFFICES ASSUME TypeOK, CacheInv, NEW l \in AllLeases
                  PROVE  /\ slot[LeaseOf(l).slot].base /\ slot[LeaseOf(l).slot].frame = LeaseOf(l).frame
                         /\ ~slot[LeaseOf(l).slot].writing
                         /\ \/ LeaseOf(l).frame = LeaseOf(l).asked
                            \/ InRun(LeaseOf(l).asked, met) /\ LeaseOf(l).frame = HoldFor(LeaseOf(l).asked)
      BY DEF LeasedFrameStays
    <2>1. /\ LeaseOf(l).slot \in Slots /\ LeaseOf(l).frame # None
          /\ slot[LeaseOf(l).slot].frame = LeaseOf(l).frame /\ StandsFor(LeaseOf(l).frame, LeaseOf(l).asked)
      BY LeasedIsPinned, FramesAreNumbers DEF CacheInv, LeasesKept, LeaseRecord
    <2>. QED BY <2>1 DEF CacheInv, SlotsAgree, StandsFor
  <1>. QED BY <1>1, CacheInvariant, PTL

==============================================================================
