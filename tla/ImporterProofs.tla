---------------------------- MODULE ImporterProofs ----------------------------
(* Theorems about the importer: LensReader, for files of any length and        *)
(* content, any number of their versions, of warm readers and of failures;     *)
(* SettingsRegistry, for any number of instances, of threads that acquire      *)
(* frames and of calls; FlareStage, for any frames, sun and tolerance.         *)
EXTENDS LensReader, SettingsRegistry, FlareStage, SequenceTheorems, WellFoundedInduction, TLAPS

-----------------------------------------------------------------------------
(* Types. *)

Runs == [first : Samples, end : Samples]
Decoders == [hw : BOOLEAN, fresh : BOOLEAN, last : Samples \cup {None}, damaged : BOOLEAN, runs : Seq(Runs)]
Results == {"picture", "timing", "decoder"}
Answers == [got : Results \cup {None, "unopened"}, index : Samples \cup {None}, hw : SUBSET Lenses]
Readers == [backend : Backends, identity : Nat, bytes : [Lenses -> Versions \cup {None}],
            dec : [Lenses -> Decoders], held : Answers \cup {None}]
Requests == [at : {"idle", "take", "open", "look", "decode"}, asked : Samples \cup {None},
             target : Samples \cup {None}, held : BOOLEAN, backend : Backends \cup {None},
             got : [Lenses -> Results \cup {None}], runs : Nat, again : BOOLEAN, answer : Answers]

\* Both lenses have mapped the file.
Mapped(rd) == \A l \in Lenses : rd.bytes[l] \in Versions

\* What a request has, by where it is.
InPlace ==
    /\ ~At("idle") => request.asked \in Samples
    /\ At("take") \/ At("open") => request.backend \in Backends
    /\ At("open") => reader \in Readers
    /\ At("look") \/ At("decode") => reader \in Readers /\ Mapped(reader)
    /\ At("idle") /\ reader # None => reader \in Readers /\ Mapped(reader)
    /\ At("decode") => request.target \in Samples

LensTypeOK ==
    /\ disk \in Versions
    /\ \A rd \in parked : rd \in Readers /\ Mapped(rd)
    /\ hwFailed \in BOOLEAN /\ failures \in Nat
    /\ request \in Requests
    /\ InPlace
-----------------------------------------------------------------------------
(* The inductive invariant. *)

\* The readers there are.
Held == parked \cup (IF At("take") \/ (At("idle") /\ reader = None) THEN {} ELSE {reader})

\* The file has versions one after another: what a reader has mapped is what the
\* file was from its identity on.
OfItsTime(rd) ==
    /\ rd.identity <= disk.version
    /\ \A l \in Lenses : rd.bytes[l] \in Versions =>
          /\ rd.identity <= rd.bytes[l].version /\ rd.bytes[l].version <= disk.version
          /\ rd.bytes[l].version = disk.version => rd.bytes[l] = disk

\* A run a decoder knows holds no picture, and a position on hardware was
\* reached without damage.
RunsSound(dec, track) ==
    \A k \in 1 .. Len(dec.runs) : \A s \in dec.runs[k].first .. dec.runs[k].end - 1 : ~Decodable(track, s)
PositionSound(dec, track) ==
    dec.last # None /\ dec.hw => ~dec.damaged /\ Decodable(track, dec.last) /\ Clean(track, dec.last)

\* A picture of both lenses, without damage where the hardware decoded it.
PairSound(rd, pair) ==
    /\ pair.index \in Shared(rd)
    /\ \A l \in pair.hw : Clean(Track(rd, l), pair.index)

ReaderSound(rd) ==
    /\ \A l \in Lenses : RunsSound(rd.dec[l], Track(rd, l)) /\ PositionSound(rd.dec[l], Track(rd, l))
    /\ rd.held # None => PairSound(rd, rd.held)

\* Of the frames both lenses have, none would be better than this one, itself
\* one of them or not.
NoneBetter(rd, asked, i) ==
    \A s \in Shared(rd) : IF i <= asked THEN ~(i < s /\ s <= asked) ELSE s >= i

\* So far, what the lenses answered to the request.
GotSound ==
    At("decode") =>
        /\ NoneBetter(reader, request.asked, request.target)
        /\ \A l \in Lenses : request.got[l] = "picture" =>
              /\ Decodable(Track(reader, l), request.target)
              /\ reader.dec[l].hw => Clean(Track(reader, l), request.target)

AnswerSound ==
    Answered("picture") =>
        /\ PairSound(reader, request.answer)
        /\ request.asked \in Samples
        /\ NoneBetter(reader, request.asked, request.answer.index)

\* A reader that is being opened.
Unused(rd) == rd.held = None /\ \A l \in Lenses : rd.dec[l].runs = <<>> /\ rd.dec[l].last = None

LensInv ==
    /\ LensTypeOK
    /\ \A rd \in Held : OfItsTime(rd) /\ ReaderSound(rd)
    /\ At("open") => Unused(reader)
    /\ GotSound /\ AnswerSound
-----------------------------------------------------------------------------
(* Lemmas about numbers and tracks. *)

LEMMA Least == ASSUME NEW S \in SUBSET Nat, S # {} PROVE \E x \in S : \A y \in S : x <= y
  <1>. DEFINE R == {ss \in Nat \X Nat : ss[1] < ss[2]}
  <1>1. IsWellFoundedOn(R, Nat)
    BY NatLessThanWellFounded, Zenon DEF OpToRel
  <1>2. PICK x \in S : \A y \in S : ~ (<<y, x>> \in R)
    <2>. HIDE DEF R
    <2>. QED BY <1>1, WFMin, Zenon
  <1>3. ASSUME NEW y \in S PROVE x <= y
    <2>1. y < x => <<y, x>> \in R
      OBVIOUS
    <2>. QED BY <1>2, <2>1
  <1>. QED BY <1>3

LEMMA MinIs == ASSUME NEW S \in SUBSET Nat, S # {} PROVE Min(S) \in S /\ \A y \in S : Min(S) <= y
  BY Least DEF Min

LEMMA MaxIs ==
  ASSUME NEW n \in Nat, NEW S \in SUBSET (0 .. n), S # {} PROVE Max(S) \in S /\ \A y \in S : y <= Max(S)
  <1>0. {n - x : x \in S} \in SUBSET Nat /\ {n - x : x \in S} # {}
    <2>1. \A x \in S : n - x \in Nat
      OBVIOUS
    <2>2. PICK x \in S : TRUE
      OBVIOUS
    <2>. QED BY <2>1, <2>2
  <1>1. PICK d \in {n - x : x \in S} : \A e \in {n - x : x \in S} : d <= e
    BY <1>0, Least
  <1>2. PICK x \in S : d = n - x
    BY <1>1
  <1>3. \A y \in S : y <= x
    BY <1>1, <1>2
  <1>. QED BY <1>3 DEF Max

LEMMA MaxUnique ==
  ASSUME NEW S, NEW x \in S, \A y \in S : y \in Nat /\ y <= x PROVE Max(S) = x
  <1>1. Max(S) \in S /\ \A y \in S : Max(S) >= y
    BY DEF Max
  <1>. QED BY <1>1

LEMMA MinUnique ==
  ASSUME NEW S, NEW x \in S, \A y \in S : y \in Nat /\ y >= x PROVE Min(S) = x
  <1>1. Min(S) \in S /\ \A y \in S : Min(S) <= y
    BY DEF Min
  <1>. QED BY <1>1

LEMMA MaxOfSamples ==
  ASSUME NEW S \in SUBSET Samples, S # {}
  PROVE  Max(S) \in S /\ \A y \in S : y <= Max(S)
  <1>1. Count - 1 \in Nat /\ S \in SUBSET (0 .. Count - 1)
    BY LensAssumption DEF Samples
  <1>. QED BY <1>1, MaxIs

LEMMA SamplesAreNaturals == Samples \subseteq Nat
  BY LensAssumption DEF Samples

\* Where a decode of a picture begins.
LEMMA PreviousSyncIs ==
  ASSUME NEW track \in Tracks, NEW i \in Samples
  PROVE  /\ PreviousSync(track, i) \in Samples
         /\ PreviousSync(track, i) <= i
         /\ Decodable(track, i) => PreviousSync(track, i) \in track.starts
  <1>. DEFINE Listed == {s \in track.listed : s <= i}
              Starts == {s \in track.starts : s <= i}
  <1>1. Listed \in SUBSET Samples /\ Starts \in SUBSET Samples /\ 0 \in Listed
    BY SamplesAreNaturals DEF Tracks
  <1>2. Max(Listed) \in Listed
    BY <1>1, MaxOfSamples
  <1>3. Starts # {} => Max(Starts) \in Starts
    BY <1>1, MaxOfSamples
  <1>4. Decodable(track, i) => Starts # {}
    BY DEF Decodable
  <1>5. PreviousSync(track, i) = IF Max(Listed) \in Starts \/ Starts = {} THEN Max(Listed) ELSE Max(Starts)
    BY DEF PreviousSync
  <1>. QED BY <1>1, <1>2, <1>3, <1>4, <1>5

\* A picture that decodes does so from the start of its group on.
LEMMA GroupDecodes ==
  ASSUME NEW track \in Tracks, NEW i \in Samples, Decodable(track, i),
         NEW start, start = Max({s \in track.starts : s <= i})
  PROVE  /\ start \in track.starts /\ start \in Samples /\ start <= i
         /\ \A s \in track.starts : s <= i => s <= start
         /\ \A j \in start .. i : Decodable(track, j)
  <1>. DEFINE Starts == {s \in track.starts : s <= i}
  <1>1. Starts \in SUBSET Samples /\ Starts # {}
    BY DEF Tracks, Decodable
  <1>2. start \in Starts /\ \A s \in Starts : s <= start
    BY <1>1, MaxOfSamples
  <1>3. ASSUME NEW j \in start .. i PROVE Decodable(track, j)
    <2>1. PICK s \in track.starts : s <= i /\ \A r \in s + 1 .. i : r \notin track.lost
      BY DEF Decodable
    <2>2. s \in Nat /\ start \in Nat /\ i \in Nat /\ s <= start
      BY <1>1, <1>2, <2>1, SamplesAreNaturals
    <2>3. \A r \in start + 1 .. j : r \notin track.lost
      BY <2>1, <2>2
    <2>. QED BY <1>2, <2>2, <2>3 DEF Decodable
  <1>. QED BY <1>1, <1>2, <1>3

LEMMA StartsDecode ==
  ASSUME NEW track \in Tracks, NEW s \in track.starts PROVE Decodable(track, s)
  <1>1. s \in Nat
    BY SamplesAreNaturals DEF Tracks
  <1>2. s + 1 .. s = {}
    BY <1>1
  <1>. QED BY <1>1, <1>2 DEF Decodable

-----------------------------------------------------------------------------
(* The decoder. *)

LEMMA KnownRunIs ==
  ASSUME NEW dec \in Decoders, NEW i \in Samples, KnownRun(dec, i) # None
  PROVE  \E k \in 1 .. Len(dec.runs) :
            /\ KnownRun(dec, i) = dec.runs[k] /\ dec.runs[k] \in Runs
            /\ dec.runs[k].first <= i /\ i < dec.runs[k].end
  <1>. DEFINE Inside == {k \in 1 .. Len(dec.runs) : dec.runs[k].first <= i /\ i < dec.runs[k].end}
  <1>1. Inside \in SUBSET Nat /\ 0 \notin Inside /\ dec.runs \in Seq(Runs)
    BY DEF Decoders
  <1>2. Inside # {}
    BY DEF KnownRun, SelectInSeq
  <1>3. Min(Inside) \in Inside
    BY <1>1, <1>2, MinIs
  <1>4. KnownRun(dec, i) = dec.runs[Min(Inside)]
    BY <1>1, <1>2, <1>3 DEF KnownRun, SelectInSeq
  <1>5. PICK k \in 1 .. Len(dec.runs) :
           KnownRun(dec, i) = dec.runs[k] /\ dec.runs[k].first <= i /\ i < dec.runs[k].end
    BY <1>3, <1>4
  <1>6. dec.runs[k] \in Runs
    BY <1>1
  <1>. QED BY <1>5, <1>6

\* What a run notes is what the decode passed over.
LEMMA NoteRunSound ==
  ASSUME NEW dec \in Decoders, NEW track \in Tracks, RunsSound(dec, track),
         NEW first \in Samples, NEW end \in Samples, \A s \in first .. end - 1 : ~Decodable(track, s)
  PROVE  LET new == NoteRun(dec, track, first, end)
         IN  /\ new \in Decoders /\ RunsSound(new, track)
             /\ new = [dec EXCEPT !.runs = new.runs]
  <1>. DEFINE run == [first |-> first, end |-> end]
              longer == [dec EXCEPT !.runs = Append(@, run)]
  <1>1. run \in Runs /\ dec.runs \in Seq(Runs)
    BY DEF Runs, Decoders
  <1>2. Append(dec.runs, run) \in Seq(Runs) /\ Len(Append(dec.runs, run)) = Len(dec.runs) + 1
        /\ \A k \in 1 .. Len(dec.runs) + 1 :
              Append(dec.runs, run)[k] = IF k <= Len(dec.runs) THEN dec.runs[k] ELSE run
    BY <1>1
  <1>3. longer \in Decoders /\ longer.runs = Append(dec.runs, run) /\ longer = [dec EXCEPT !.runs = longer.runs]
    BY <1>2 DEF Decoders
  <1>4. RunsSound(longer, track)
    BY <1>1, <1>2, <1>3 DEF RunsSound
  <1>5. NoteRun(dec, track, first, end) = dec \/ NoteRun(dec, track, first, end) = longer
    BY DEF NoteRun
  <1>6. dec = [dec EXCEPT !.runs = dec.runs]
    BY DEF Decoders
  <1>. QED BY <1>3, <1>4, <1>5, <1>6

\* A picture is clean when it was reached without meeting damage: from a start
\* on, or from a clean one.
LEMMA ReachedClean ==
  ASSUME NEW track \in Tracks, NEW i \in Samples, Decodable(track, i),
         NEW from \in Samples, from <= i, NEW before \in BOOLEAN,
         ~Damaged(track, TRUE, Pictures(track, from, i - 1) \cup {i}, before),
         \/ from \in track.starts
         \/ ~before /\ from > 0 /\ Clean(track, from - 1)
  PROVE  Clean(track, i)
  <1>. DEFINE start == Max({s \in track.starts : s <= i})
              flagged == track.flagged \cup track.hwFlagged
              pictures == Pictures(track, from, i - 1) \cup {i}
              starts == track.starts \cap pictures
  <1>1. /\ start \in track.starts /\ start \in Samples /\ start <= i
        /\ \A s \in track.starts : s <= i => s <= start
        /\ \A j \in start .. i : Decodable(track, j)
    BY GroupDecodes
  <1>2. /\ \A s \in track.starts : s \in Nat
        /\ start \in Nat /\ from \in Nat /\ i \in Nat
    BY <1>1, SamplesAreNaturals DEF Tracks
  <1>3. \A s \in Nat : s \in pictures <=> from <= s /\ s <= i /\ Decodable(track, s)
    BY <1>2 DEF Pictures
  <1>4. pictures \subseteq Nat
    BY <1>2 DEF Pictures
  <1>5. IF starts = {} THEN flagged \cap pictures = {} /\ ~before
        ELSE ~\E s \in pictures : s >= Max(starts) /\ s \in flagged
    BY DEF Damaged
  <1>6. (\A r \in Nat : start <= r /\ r <= i => r \notin flagged) => Clean(track, i)
    <2>1. (\A r \in Nat : start <= r /\ r <= i => r \notin flagged) => start .. i \cap flagged = {}
      <3>. HIDE DEF start, flagged
      <3>. QED BY <1>2
    <2>. QED BY <2>1 DEF Clean
  <1>7. \A s : s \in starts <=> s \in track.starts /\ s \in pictures
    OBVIOUS
  <1>8. \A s \in track.starts : Decodable(track, s)
    BY StartsDecode
  <1>9. \A s \in Nat : start <= s /\ s <= i => Decodable(track, s)
    BY <1>1, <1>2
  <1>10. start < from /\ Clean(track, from - 1) =>
           \A r \in Nat : start <= r /\ r <= from - 1 => r \notin flagged
    <2>. SUFFICES ASSUME start < from, Clean(track, from - 1)
                  PROVE  \A r \in Nat : start <= r /\ r <= from - 1 => r \notin flagged
      OBVIOUS
    <2>1. {s \in track.starts : s <= from - 1} = {s \in track.starts : s <= i}
      <3>. HIDE DEF start
      <3>. QED BY <1>1, <1>2
    <2>2. start .. from - 1 \cap flagged = {}
      BY <2>1 DEF Clean
    <2>. QED BY <1>2, <2>2
  <1>. HIDE DEF start, flagged, pictures, starts
  <1>11. CASE starts # {}
    <2>1. PICK s \in starts : TRUE
      BY <1>11
    <2>2. from <= start
      BY <1>1, <1>2, <1>3, <1>7, <2>1
    <2>3. start \in starts
      BY <1>1, <1>2, <1>3, <1>7, <1>8, <2>2
    <2>4. \A r \in starts : r \in Nat /\ r <= start
      BY <1>1, <1>2, <1>3, <1>7
    <2>5. Max(starts) = start
      BY <2>3, <2>4, MaxUnique
    <2>6. \A r \in Nat : start <= r /\ r <= i => r \in pictures
      BY <1>2, <1>3, <1>9, <2>2
    <2>. QED BY <1>2, <1>4, <1>5, <1>6, <1>11, <2>5, <2>6
  <1>12. CASE starts = {}
    <2>1. from \notin track.starts
      BY <1>2, <1>3, <1>7, <1>8, <1>12
    <2>2. start < from
      BY <1>1, <1>2, <1>3, <1>7, <1>8, <1>12
    <2>3. \A r \in Nat : start <= r /\ r <= from - 1 => r \notin flagged
      BY <1>10, <2>1, <2>2
    <2>4. \A r \in Nat : from <= r /\ r <= i => r \notin flagged
      BY <1>2, <1>3, <1>5, <1>9, <1>12, <2>2
    <2>. QED BY <1>2, <1>6, <2>3, <2>4
  <1>. QED BY <1>11, <1>12

LEMMA BrokenSound ==
  ASSUME NEW dec \in Decoders, NEW track \in Tracks, RunsSound(dec, track)
  PROVE  LET new == Broken(dec).dec
         IN  new \in Decoders /\ new.hw = dec.hw /\ RunsSound(new, track) /\ PositionSound(new, track)
  BY DEF Broken, Decoders, RunsSound, PositionSound

LEMMA DecodeSound ==
  ASSUME NEW dec \in Decoders, NEW track \in Tracks, NEW i \in Samples,
         RunsSound(dec, track), PositionSound(dec, track)
  PROVE  LET out == Decode(dec, track, i)
         IN  /\ out.dec \in Decoders /\ out.dec.hw = dec.hw /\ out.got \in Results
             /\ RunsSound(out.dec, track) /\ PositionSound(out.dec, track)
             /\ out.got = "picture" => Decodable(track, i) /\ (dec.hw => Clean(track, i))
  <1>. DEFINE seek == ~CanDecodeForwardTo(dec, track, i)
              from == IF seek THEN PreviousSync(track, i) ELSE dec.last + 1
              passed == Pictures(track, from, i - 1)
              first == IF passed # {} THEN Max(passed) + 1 ELSE from
              coming == Pictures(track, Max({from, i}), Count - 1)
              damaged == Damaged(track, dec.hw, passed \cup {i}, ~seek /\ dec.damaged)
              lost == [dec EXCEPT !.last = None]
              out == Decode(dec, track, i)
  <1>0. Samples \subseteq Nat /\ Count \in Nat /\ \A s : s \in Samples <=> s \in Nat /\ s < Count
    BY LensAssumption DEF Samples
  <1>1. ~seek => dec.last # None /\ dec.last \in Samples /\ i > dec.last
    BY DEF CanDecodeForwardTo, Decoders
  <1>2. from \in Samples /\ from <= i
    BY <1>0, <1>1, PreviousSyncIs
  <1>3. passed \in SUBSET Samples /\ \A s \in from .. i - 1 : s \in passed <=> Decodable(track, s)
    BY <1>0, <1>2 DEF Pictures
  <1>4. first \in Samples /\ first <= i /\ \A s \in first .. i - 1 : ~Decodable(track, s)
    <2>1. CASE passed = {}
      BY <2>1, <1>2, <1>3
    <2>2. CASE passed # {}
      <3>1. Max(passed) \in passed /\ \A s \in passed : s <= Max(passed)
        BY <1>3, <2>2, MaxOfSamples
      <3>2. Max(passed) \in from .. i - 1
        BY <3>1, <1>0, <1>2 DEF Pictures
      <3>. QED BY <3>1, <3>2, <2>2, <1>0, <1>2, <1>3
    <2>. QED BY <2>1, <2>2
  <1>5. Max({from, i}) = i
    BY <1>0, <1>2 DEF Max
  <1>6. coming \in SUBSET Samples /\ \A s \in Samples : s \in coming <=> s >= i /\ Decodable(track, s)
    <2>1. coming = {s \in i .. Count - 1 : Decodable(track, s)}
      BY <1>5 DEF Pictures
    <2>2. \A s : s \in i .. Count - 1 <=> s \in Samples /\ s >= i
      BY <1>0
    <2>. HIDE DEF coming
    <2>. QED BY <2>1, <2>2
  <1>7. lost \in Decoders /\ lost.hw = dec.hw /\ RunsSound(lost, track) /\ PositionSound(lost, track)
    BY DEF Decoders, RunsSound, PositionSound
  <1>8. out = IF KnownRun(dec, i) # None THEN [dec |-> dec, got |-> "timing"]
              ELSE IF coming = {} THEN [dec |-> lost, got |-> "decoder"]
              ELSE IF i \notin coming THEN [dec |-> NoteRun(lost, track, first, Min(coming)), got |-> "timing"]
              ELSE IF damaged /\ dec.hw THEN [dec |-> lost, got |-> "decoder"]
              ELSE [dec |-> [dec EXCEPT !.last = i, !.damaged = damaged], got |-> "picture"]
    BY DEF Decode
  <1>9. CASE coming # {} /\ i \notin coming
    <2>. HIDE DEF first, coming, lost
    <2>1. Min(coming) \in coming /\ \A s \in coming : Min(coming) <= s
      BY <1>0, <1>6, <1>9, MinIs
    <2>2. Min(coming) \in Samples /\ \A s \in first .. Min(coming) - 1 : ~Decodable(track, s)
      <3>1. Min(coming) \in Samples
        BY <1>6, <2>1
      <3>2. ASSUME NEW s \in first .. Min(coming) - 1 PROVE s \in Samples /\ s < Min(coming) /\ (s < i => s \in first .. i - 1)
        BY <1>0, <1>4, <3>1
      <3>3. ASSUME NEW s \in first .. Min(coming) - 1, Decodable(track, s) PROVE FALSE
        <4>1. s \in Samples /\ s < Min(coming) /\ s >= i
          BY <1>0, <1>4, <3>2, <3>3
        <4>. QED BY <1>0, <1>6, <2>1, <3>1, <3>3, <4>1
      <3>. QED BY <3>1, <3>3
    <2>3. LET new == NoteRun(lost, track, first, Min(coming))
          IN  new \in Decoders /\ RunsSound(new, track) /\ new = [lost EXCEPT !.runs = new.runs]
      BY <1>4, <1>7, <2>2, NoteRunSound
    <2>4. LET new == NoteRun(lost, track, first, Min(coming))
          IN  new.hw = dec.hw /\ new.last = None
      BY <1>7, <2>3 DEF Decoders, lost
    <2>5. PositionSound(NoteRun(lost, track, first, Min(coming)), track)
      BY <2>4 DEF PositionSound
    <2>. QED BY <1>7, <1>8, <1>9, <2>3, <2>4, <2>5 DEF Results
  <1>10. CASE i \in coming /\ ~(damaged /\ dec.hw)
    <2>1. Decodable(track, i)
      BY <1>6, <1>10
    <2>2. damaged \in BOOLEAN
      BY DEF Damaged, Decoders
    <2>3. ASSUME dec.hw PROVE ~damaged /\ Clean(track, i)
      <3>1. dec.hw = TRUE /\ ~Damaged(track, TRUE, passed \cup {i}, ~seek /\ dec.damaged)
        BY <1>10, <2>3 DEF Decoders
      <3>2. CASE seek
        <4>1. from \in track.starts
          BY <3>2, <2>1, PreviousSyncIs
        <4>. QED BY <1>2, <1>10, <2>1, <2>3, <3>1, <4>1, ReachedClean
      <3>3. CASE ~seek
        <4>1. from > 0 /\ from - 1 = dec.last
          BY <1>0, <1>1, <3>3
        <4>2. ~(~seek /\ dec.damaged) /\ Clean(track, from - 1)
          BY <1>1, <2>3, <3>3, <4>1 DEF PositionSound
        <4>. QED BY <1>2, <1>10, <2>1, <2>3, <3>1, <4>1, <4>2, ReachedClean
      <3>. QED BY <3>2, <3>3
    <2>. DEFINE new == [dec EXCEPT !.last = i, !.damaged = damaged]
    <2>4. new \in Decoders /\ new.hw = dec.hw /\ new.last = i /\ new.runs = dec.runs /\ new.damaged = damaged
      <3>. HIDE DEF damaged
      <3>. QED BY <2>2 DEF Decoders
    <2>5. RunsSound(new, track) /\ PositionSound(new, track)
      <3>. HIDE DEF damaged, new
      <3>. QED BY <2>1, <2>3, <2>4 DEF RunsSound, PositionSound
    <2>6. out = [dec |-> dec, got |-> "timing"] \/ out = [dec |-> new, got |-> "picture"]
      <3>. HIDE DEF damaged, coming
      <3>. QED BY <1>8, <1>10
    <2>. HIDE DEF new, damaged, from, passed, first, coming, lost
    <2>. QED BY <2>1, <2>3, <2>4, <2>5, <2>6 DEF Results
  <1>11. CASE coming = {} \/ (i \in coming /\ damaged /\ dec.hw)
    <2>1. out = [dec |-> dec, got |-> "timing"] \/ out = [dec |-> lost, got |-> "decoder"]
      <3>. HIDE DEF damaged, coming
      <3>. QED BY <1>8, <1>11
    <2>. HIDE DEF damaged, from, passed, first, coming, lost
    <2>. QED BY <1>7, <2>1 DEF Results
  <1>. QED BY <1>9, <1>10, <1>11

-----------------------------------------------------------------------------
(* The reader. *)

LEMMA TrackIs == ASSUME NEW rd \in Readers, Mapped(rd), NEW l \in Lenses PROVE Track(rd, l) \in Tracks
  BY DEF Mapped, Track, Versions

\* A run a lens knows holds no picture of both lenses, and ends where it says.
LEMMA RunAround ==
  ASSUME NEW rd \in Readers, Mapped(rd), ReaderSound(rd), NEW l \in Lenses,
         NEW i \in Samples, KnownRun(rd.dec[l], i) # None
  PROVE  LET run == KnownRun(rd.dec[l], i)
         IN  /\ run \in Runs /\ run.first <= i /\ i < run.end
             /\ \A s \in Shared(rd) : ~(run.first <= s /\ s < run.end)
  <1>1. rd.dec[l] \in Decoders
    BY DEF Readers
  <1>2. PICK k \in 1 .. Len(rd.dec[l].runs) :
           /\ KnownRun(rd.dec[l], i) = rd.dec[l].runs[k] /\ rd.dec[l].runs[k] \in Runs
           /\ rd.dec[l].runs[k].first <= i /\ i < rd.dec[l].runs[k].end
    BY <1>1, KnownRunIs
  <1>3. \A s \in rd.dec[l].runs[k].first .. rd.dec[l].runs[k].end - 1 : ~Decodable(Track(rd, l), s)
    BY DEF ReaderSound, RunsSound
  <1>. DEFINE run == rd.dec[l].runs[k]
  <1>4. run \in Runs /\ run.first \in Samples /\ run.end \in Samples
    BY <1>2 DEF Runs
  <1>5. \A s \in Shared(rd) : s \in Nat /\ Decodable(Track(rd, l), s)
    BY SamplesAreNaturals DEF Shared
  <1>6. \A s \in Shared(rd) : ~(run.first <= s /\ s < run.end)
    <2>. HIDE DEF run
    <2>1. run.first \in Nat /\ run.end \in Nat
      BY <1>4, SamplesAreNaturals
    <2>2. \A s \in run.first .. run.end - 1 : ~Decodable(Track(rd, l), s)
      BY <1>3 DEF run
    <2>. QED BY <1>5, <2>1, <2>2
  <1>. QED BY <1>2, <1>4, <1>6

\* The frame held for one of a run is as good as that one.
LEMMA HeldFrameIsAsGood ==
  ASSUME NEW rd \in Readers, NEW asked \in Samples, NEW i \in Samples, NoneBetter(rd, asked, i),
         NEW run \in Runs, run.first <= i, i < run.end,
         \A s \in Shared(rd) : ~(run.first <= s /\ s < run.end)
  PROVE  HeldFrameFor(run) \in Samples /\ NoneBetter(rd, asked, HeldFrameFor(run))
  <1>1. run.first \in Samples /\ run.end \in Samples
    BY DEF Runs
  <1>2. \A s : s \in Samples <=> s \in Nat /\ s < Count
    BY LensAssumption DEF Samples
  <1>3. HeldFrameFor(run) \in Samples
    BY <1>1, <1>2, LensAssumption DEF HeldFrameFor
  <1>4. ASSUME NEW s \in Shared(rd)
        PROVE  IF HeldFrameFor(run) <= asked THEN ~(HeldFrameFor(run) < s /\ s <= asked)
                                             ELSE s >= HeldFrameFor(run)
    <2>1. s \in Nat /\ ~(run.first <= s /\ s < run.end)
      BY <1>2 DEF Shared
    <2>2. IF i <= asked THEN ~(i < s /\ s <= asked) ELSE s >= i
      BY DEF NoneBetter
    <2>. QED BY <1>1, <1>2, <2>1, <2>2 DEF HeldFrameFor
  <1>. QED BY <1>3, <1>4 DEF NoneBetter

LEMMA EarlierIsAsGood ==
  ASSUME NEW rd \in Readers, Mapped(rd), ReaderSound(rd),
         NEW asked \in Samples, NEW i \in Samples, NoneBetter(rd, asked, i)
  PROVE  Earlier(rd, i) \in Samples /\ NoneBetter(rd, asked, Earlier(rd, i))
  <1>. DEFINE around == {l \in Lenses : KnownRun(rd.dec[l], i) # None}
              frames == {HeldFrameFor(KnownRun(rd.dec[l], i)) : l \in around}
  <1>1. \A l \in around : LET h == HeldFrameFor(KnownRun(rd.dec[l], i))
                         IN  h \in Samples /\ NoneBetter(rd, asked, h)
    BY RunAround, HeldFrameIsAsGood
  <1>2. CASE around # {}
    <2>1. frames # {} /\ frames \in SUBSET Nat
      BY <1>1, <1>2, SamplesAreNaturals
    <2>2. Min(frames) \in frames
      BY <2>1, MinIs
    <2>. QED BY <1>1, <1>2, <2>2 DEF Earlier
  <1>. QED BY <1>2 DEF Earlier

LEMMA AskedIsAsGood == ASSUME NEW rd, NEW asked \in Samples PROVE NoneBetter(rd, asked, asked)
  <1>1. asked \in Nat /\ \A s \in Shared(rd) : s \in Nat
    BY SamplesAreNaturals DEF Shared
  <1>. QED BY <1>1 DEF NoneBetter

LEMMA HoldForIsAsGood ==
  ASSUME NEW rd \in Readers, Mapped(rd), ReaderSound(rd),
         NEW asked \in Samples, HoldFor(rd, asked) # None
  PROVE  HoldFor(rd, asked) \in Samples /\ NoneBetter(rd, asked, HoldFor(rd, asked))
  <1>0. NoneBetter(rd, asked, asked)
    BY AskedIsAsGood
  <1>. DEFINE one == Earlier(rd, asked) two == Earlier(rd, one) three == Earlier(rd, two) four == Earlier(rd, three)
  <1>1. one \in Samples /\ NoneBetter(rd, asked, one)
    BY <1>0, EarlierIsAsGood
  <1>2. two \in Samples /\ NoneBetter(rd, asked, two)
    BY <1>1, EarlierIsAsGood
  <1>3. three \in Samples /\ NoneBetter(rd, asked, three)
    BY <1>2, EarlierIsAsGood
  <1>4. four \in Samples /\ NoneBetter(rd, asked, four)
    BY <1>3, EarlierIsAsGood
  <1>5. HoldFor(rd, asked) = four
    BY DEF HoldFor
  <1>. QED BY <1>4, <1>5

-----------------------------------------------------------------------------
(* The invariant is inductive. *)

LEMMA IdleIs == Idle \in Requests /\ Idle.at = "idle" /\ Idle.answer.got = None /\ Idle.answer \in Answers
  BY DEF Idle, Requests, Results, Answers

LEMMA InvInit == ASSUME Init PROVE LensInv
  <1>1. 1 \in DOMAIN Files /\ Files[1] \subseteq [Lenses -> Tracks]
    BY LensAssumption
  <1>2. disk \in Versions
    BY <1>1 DEF Init, Versions
  <1>3. request = Idle /\ reader = None /\ parked = {}
    BY DEF Init
  <1>4. LensTypeOK
    BY <1>2, <1>3, IdleIs DEF Init, LensTypeOK, InPlace, At
  <1>5. Held = {}
    BY <1>3, IdleIs DEF Held, At
  <1>6. ~At("open") /\ ~At("decode") /\ ~Answered("picture")
    BY <1>3, IdleIs DEF At, Answered
  <1>. QED BY <1>4, <1>5, <1>6 DEF LensInv, GotSound, AnswerSound

\* A new request, or one that starts again with another reader.
LEMMA EnsureSound ==
  ASSUME LensInv, NEW req \in Requests, req.asked \in Samples, Ensure(req),
         UNCHANGED <<disk, parked, failures>>, hwFailed' \in BOOLEAN,
         reader' = None \/ (reader' = reader /\ At("idle"))
  PROVE  LensInv'
  <1>1. CASE reader' # None
    <2>1. request' = [req EXCEPT !.at = "look"] /\ reader' = reader /\ At("idle")
      BY <1>1 DEF Ensure
    <2>2. request' \in Requests /\ request'.at = "look" /\ request'.asked = req.asked
      BY <2>1 DEF Requests
    <2>3. LensTypeOK'
      BY <1>1, <2>1, <2>2 DEF LensInv, LensTypeOK, InPlace, At, Mapped
    <2>4. Held' = Held
      BY <1>1, <2>1, <2>2 DEF Held, At
    <2>. QED BY <2>2, <2>3, <2>4 DEF LensInv, GotSound, AnswerSound, Answered, At, OfItsTime, ReaderSound
  <1>2. CASE reader' = None
    <2>1. \E b \in Backends : request' = [req EXCEPT !.at = "take", !.backend = b]
      BY <1>2 DEF Ensure, Backends
    <2>2. request' \in Requests /\ request'.at = "take" /\ request'.asked = req.asked /\ request'.backend \in Backends
      BY <2>1 DEF Requests
    <2>3. LensTypeOK'
      BY <1>2, <2>2 DEF LensInv, LensTypeOK, InPlace, At
    <2>4. Held' \subseteq Held
      BY <2>2 DEF Held, At
    <2>. QED BY <2>2, <2>3, <2>4 DEF LensInv, GotSound, AnswerSound, Answered, At, OfItsTime, ReaderSound
  <1>. QED BY <1>1, <1>2

LEMMA AskStep == ASSUME LensInv, NEW i \in Samples, Ask(i) PROVE LensInv'
  <1>1. [Idle EXCEPT !.asked = i] \in Requests /\ [Idle EXCEPT !.asked = i].asked \in Samples
    BY IdleIs DEF Requests
  <1>2. Ensure([Idle EXCEPT !.asked = i]) /\ UNCHANGED <<disk, parked, hwFailed, reader, failures>> /\ At("idle")
    BY DEF Ask
  <1>. QED BY <1>1, <1>2, EnsureSound DEF LensInv, LensTypeOK

LEMMA TakeStep == ASSUME LensInv, Take PROVE LensInv'
  <1>1. /\ reader' \in parked /\ parked' \subseteq parked
        /\ request' = [request EXCEPT !.at = "look"] /\ At("take")
        /\ UNCHANGED <<disk, hwFailed, failures>>
    BY DEF Take, Go, Warm
  <1>2. request' \in Requests /\ request'.at = "look" /\ request'.asked \in Samples
    BY <1>1 DEF LensInv, LensTypeOK, InPlace, At, Requests
  <1>3. reader' \in Held /\ Held' \subseteq Held
    BY <1>1, <1>2 DEF Held, At
  <1>4. LensTypeOK'
    BY <1>1, <1>2 DEF LensInv, LensTypeOK, InPlace, At, Mapped
  <1>. QED BY <1>1, <1>2, <1>3, <1>4 DEF LensInv, GotSound, AnswerSound, Answered, At, OfItsTime, ReaderSound

LEMMA OpenStep == ASSUME LensInv, Open PROVE LensInv'
  <1>1. /\ reader' = NewReader(request.backend) /\ request' = [request EXCEPT !.at = "open"] /\ At("take")
        /\ UNCHANGED <<disk, parked, hwFailed, failures>>
    BY DEF Open, Go
  <1>2. request' \in Requests /\ request'.at = "open" /\ request'.asked \in Samples /\ request'.backend \in Backends
    BY <1>1 DEF LensInv, LensTypeOK, InPlace, At, Requests
  <1>3. \A hw \in BOOLEAN : NewDecoder(hw) \in Decoders
    BY DEF NewDecoder, Decoders
  <1>4. reader' \in Readers /\ reader'.identity = disk.version
    BY <1>1, <1>3 DEF NewReader, Readers, LensInv, LensTypeOK, InPlace, Versions
  <1>5. /\ reader'.held = None /\ \A l \in Lenses : reader'.bytes[l] = None
        /\ \A l \in Lenses : reader'.dec[l].runs = <<>> /\ reader'.dec[l].last = None
    BY <1>1 DEF NewReader, NewDecoder
  <1>6. Unused(reader)'
    BY <1>5 DEF Unused
  <1>7. ReaderSound(reader)'
    BY <1>5 DEF ReaderSound, RunsSound, PositionSound
  <1>8. OfItsTime(reader)'
    BY <1>1, <1>4, <1>5, LensAssumption DEF OfItsTime, LensInv, LensTypeOK, Versions
  <1>9. Held' = parked \cup {reader'}
    BY <1>1, <1>2 DEF Held, At
  <1>10. LensTypeOK'
    BY <1>1, <1>2, <1>4 DEF LensInv, LensTypeOK, InPlace, At, Mapped
  <1>11. \A rd \in Held' : (OfItsTime(rd) /\ ReaderSound(rd))'
    BY <1>1, <1>7, <1>8, <1>9 DEF LensInv, Held, OfItsTime, ReaderSound
  <1>. QED BY <1>2, <1>6, <1>10, <1>11 DEF LensInv, GotSound, AnswerSound, Answered, At

LEMMA MapLensStep == ASSUME LensInv, NEW l \in Lenses, MapLens(l) PROVE LensInv'
  <1>1. /\ reader' = [reader EXCEPT !.bytes[l] = disk] /\ At("open")
        /\ UNCHANGED <<disk, parked, hwFailed, request, failures>>
    BY DEF MapLens
  <1>2. reader \in Readers /\ reader \in Held /\ Unused(reader) /\ disk \in Versions
    BY <1>1 DEF LensInv, LensTypeOK, InPlace, Held, At
  <1>3. /\ reader' \in Readers /\ reader'.identity = reader.identity /\ reader'.dec = reader.dec /\ reader'.held = reader.held
        /\ \A m \in Lenses : reader'.bytes[m] = IF m = l THEN disk ELSE reader.bytes[m]
    BY <1>1, <1>2 DEF Readers
  <1>4. Unused(reader)'
    BY <1>2, <1>3 DEF Unused
  <1>5. ReaderSound(reader)'
    BY <1>4 DEF Unused, ReaderSound, RunsSound, PositionSound
  <1>6. OfItsTime(reader)'
    BY <1>1, <1>2, <1>3 DEF LensInv, OfItsTime, Versions
  <1>7. Held' = parked \cup {reader'} /\ parked \subseteq Held
    BY <1>1 DEF Held, At
  <1>8. LensTypeOK'
    BY <1>1, <1>3 DEF LensInv, LensTypeOK, InPlace, At
  <1>9. \A rd \in Held' : (OfItsTime(rd) /\ ReaderSound(rd))'
    BY <1>1, <1>5, <1>6, <1>7 DEF LensInv, OfItsTime, ReaderSound
  <1>. QED BY <1>1, <1>4, <1>8, <1>9 DEF LensInv, GotSound, AnswerSound, Answered, At

\* A step of the request alone, which leaves the reader as it is.
LEMMA OpenedStep == ASSUME LensInv, Opened PROVE LensInv'
  <1>1. /\ request' = [request EXCEPT !.at = "look"] /\ At("open") /\ \A l \in Lenses : reader.bytes[l] # None
        /\ UNCHANGED <<disk, parked, hwFailed, reader, failures>>
    BY DEF Opened, Go
  <1>2. request' \in Requests /\ request'.at = "look" /\ request'.asked \in Samples
    BY <1>1 DEF LensInv, LensTypeOK, InPlace, At, Requests
  <1>3. reader \in Readers /\ Mapped(reader)
    BY <1>1 DEF LensInv, LensTypeOK, InPlace, At, Mapped, Readers
  <1>4. LensTypeOK'
    BY <1>1, <1>2, <1>3 DEF LensInv, LensTypeOK, InPlace, At, Mapped
  <1>5. Held' = Held
    BY <1>1, <1>2 DEF Held, At
  <1>. QED BY <1>1, <1>2, <1>4, <1>5 DEF LensInv, GotSound, AnswerSound, Answered, At, OfItsTime, ReaderSound

LEMMA OpenFailsStep == ASSUME LensInv, OpenFails PROVE LensInv'
  <1>1. /\ reader' = None /\ At("open") /\ failures' = failures + 1
        /\ UNCHANGED <<disk, parked, hwFailed>>
        /\ \/ request' = [request EXCEPT !.at = "take", !.backend = "software"]
           \/ request' = [request EXCEPT !.at = "idle", !.answer = Failure("unopened")]
    BY DEF OpenFails, Upset, Answer
  <1>2. Failure("unopened") \in Answers /\ Failure("unopened").got = "unopened"
    BY IdleIs DEF Failure, Answers
  <1>3. /\ request' \in Requests /\ request'.asked \in Samples
        /\ \/ request'.at = "take" /\ request'.backend \in Backends
           \/ request'.at = "idle" /\ request'.answer.got = "unopened"
    BY <1>1, <1>2 DEF LensInv, LensTypeOK, InPlace, At, Requests, Backends
  <1>4. LensTypeOK'
    BY <1>1, <1>3 DEF LensInv, LensTypeOK, InPlace, At
  <1>5. Held' \subseteq Held
    BY <1>1, <1>3 DEF Held, At
  <1>. QED BY <1>1, <1>3, <1>4, <1>5 DEF LensInv, GotSound, AnswerSound, Answered, At, OfItsTime, ReaderSound

LEMMA RunsKnownIs == ASSUME NEW rd \in Readers PROVE RunsKnown(rd) \in Nat
  <1>1. rd.dec[0].runs \in Seq(Runs) /\ rd.dec[1].runs \in Seq(Runs)
    BY DEF Readers, Decoders, Lenses
  <1>2. PICK a \in Nat, b \in Nat : a = Len(rd.dec[0].runs) /\ b = Len(rd.dec[1].runs)
    BY <1>1
  <1>3. RunsKnown(rd) = a + b
    BY <1>2 DEF RunsKnown
  <1>. QED BY <1>3

LEMMA LookStep == ASSUME LensInv, Look PROVE LensInv'
  <1>. DEFINE hold == HoldFor(reader, request.asked)
              wanted == IF hold # None THEN hold ELSE request.asked
              kept == [reader EXCEPT !.held = IF hold # None THEN @ ELSE None]
  <1>1. /\ At("look") /\ UNCHANGED <<disk, parked, hwFailed, failures>>
        /\ \/ Kept(reader, wanted) /\ request' = [request EXCEPT !.at = "idle", !.answer = reader.held] /\ reader' = reader
           \/ /\ reader' = kept
              /\ \E h \in BOOLEAN : request' = [request EXCEPT !.at = "decode", !.target = wanted, !.held = h,
                                                           !.got = Idle.got, !.runs = RunsKnown(reader)]
    BY DEF Look, Answer
  <1>2. reader \in Readers /\ Mapped(reader) /\ request \in Requests /\ request.asked \in Samples /\ reader \in Held
    BY <1>1 DEF LensInv, LensTypeOK, InPlace, At, Held
  <1>3. OfItsTime(reader) /\ ReaderSound(reader)
    BY <1>2 DEF LensInv
  <1>4. wanted \in Samples /\ NoneBetter(reader, request.asked, wanted)
    <2>1. NoneBetter(reader, request.asked, request.asked)
      BY <1>2, AskedIsAsGood
    <2>. QED BY <1>2, <1>3, <2>1, HoldForIsAsGood
  <1>. HIDE DEF hold, wanted
  <1>5. CASE Kept(reader, wanted) /\ request' = [request EXCEPT !.at = "idle", !.answer = reader.held] /\ reader' = reader
    <2>1. reader.held \in Answers /\ reader.held.index = wanted /\ PairSound(reader, reader.held)
      BY <1>2, <1>3, <1>5 DEF Kept, Readers, ReaderSound
    <2>2. request' \in Requests /\ request'.at = "idle" /\ request'.answer = reader.held /\ request'.asked = request.asked
      BY <1>2, <1>5, <2>1 DEF Requests
    <2>3. LensTypeOK'
      BY <1>1, <1>2, <1>5, <2>2 DEF LensInv, LensTypeOK, InPlace, At, Mapped
    <2>4. Held' \subseteq Held
      BY <1>1, <1>5, <2>2 DEF Held, At
    <2>5. AnswerSound'
      BY <1>2, <1>4, <1>5, <2>1, <2>2 DEF AnswerSound, PairSound, NoneBetter, Shared, Track
    <2>. QED BY <1>1, <1>5, <2>2, <2>3, <2>4, <2>5 DEF LensInv, GotSound, At, OfItsTime, ReaderSound
  <1>6. CASE /\ reader' = kept
             /\ \E h \in BOOLEAN : request' = [request EXCEPT !.at = "decode", !.target = wanted, !.held = h,
                                                          !.got = Idle.got, !.runs = RunsKnown(reader)]
    <2>1. /\ kept \in Readers /\ kept.identity = reader.identity /\ kept.bytes = reader.bytes /\ kept.dec = reader.dec
          /\ kept.held = reader.held \/ kept.held = None
      BY <1>2 DEF Readers
    <2>2. PICK runs \in Nat : runs = RunsKnown(reader)
      BY <1>2, RunsKnownIs
    <2>3. Idle.got \in [Lenses -> Results \cup {None}] /\ \A l \in Lenses : Idle.got[l] = None
      BY DEF Idle
    <2>4. /\ request' \in Requests /\ request'.at = "decode" /\ request'.asked = request.asked
          /\ request'.target = wanted /\ request'.got = Idle.got
      <3>1. PICK h \in BOOLEAN : request' = [request EXCEPT !.at = "decode", !.target = wanted, !.held = h,
                                                         !.got = Idle.got, !.runs = runs]
        BY <1>6, <2>2
      <3>. QED BY <1>2, <1>4, <2>3, <3>1 DEF Requests
    <2>. HIDE DEF kept
    <2>5. LensTypeOK'
      BY <1>1, <1>2, <1>4, <1>6, <2>1, <2>4 DEF LensInv, LensTypeOK, InPlace, At, Mapped
    <2>6. Held' = parked \cup {kept} /\ parked \subseteq Held
      BY <1>1, <1>6, <2>4 DEF Held, At
    <2>7. \A l \in Lenses : Track(kept, l) = Track(reader, l)
      BY <2>1 DEF Track
    <2>8. Shared(kept) = Shared(reader)
      BY <2>7 DEF Shared
    <2>9. ReaderSound(kept)
      <3>1. \A l \in Lenses : RunsSound(kept.dec[l], Track(kept, l)) /\ PositionSound(kept.dec[l], Track(kept, l))
        BY <1>3, <2>1, <2>7 DEF ReaderSound
      <3>2. ASSUME kept.held # None PROVE PairSound(kept, kept.held)
        <4>1. kept.held = reader.held /\ PairSound(reader, reader.held) /\ reader.held \in Answers
          BY <1>2, <1>3, <2>1, <3>2 DEF ReaderSound, Readers
        <4>. QED BY <2>7, <2>8, <4>1 DEF PairSound, Answers
      <3>. QED BY <3>1, <3>2 DEF ReaderSound
    <2>10. OfItsTime(reader)'
      BY <1>1, <1>3, <1>6, <2>1 DEF OfItsTime
    <2>11. \A rd \in Held' : (OfItsTime(rd) /\ ReaderSound(rd))'
      <3>1. \A rd \in parked : OfItsTime(rd)' /\ ReaderSound(rd)
        BY <1>1, <2>6 DEF LensInv, OfItsTime
      <3>. QED BY <1>6, <2>6, <2>9, <2>10, <3>1 DEF OfItsTime, ReaderSound
    <2>12. GotSound'
      <3>1. NoneBetter(kept, request.asked, wanted)
        BY <1>4, <2>8 DEF NoneBetter
      <3>2. \A l \in Lenses : request'.got[l] # "picture"
        BY <2>3, <2>4, LensAssumption
      <3>. QED BY <1>6, <2>4, <3>1, <3>2 DEF GotSound, NoneBetter, Shared, Track
    <2>. QED BY <2>4, <2>5, <2>11, <2>12 DEF LensInv, AnswerSound, Answered, At
  <1>. QED BY <1>1, <1>5, <1>6

LEMMA DecodeLensStep == ASSUME LensInv, NEW l \in Lenses, DecodeLens(l) PROVE LensInv'
  <1>1. At("decode") /\ request.got[l] = None /\ UNCHANGED <<disk, parked, hwFailed>> /\ failures' \in Nat
    BY DEF DecodeLens, LensInv, LensTypeOK
  <1>2. /\ reader \in Readers /\ Mapped(reader) /\ request \in Requests /\ reader \in Held
        /\ request.asked \in Samples /\ request.target \in Samples
    BY <1>1 DEF LensInv, LensTypeOK, InPlace, At, Held
  <1>3. OfItsTime(reader) /\ ReaderSound(reader) /\ GotSound
    BY <1>2 DEF LensInv
  <1>. DEFINE dec == reader.dec[l]
              track == Track(reader, l)
  <1>4. dec \in Decoders /\ track \in Tracks /\ RunsSound(dec, track) /\ PositionSound(dec, track)
    BY <1>2, <1>3, TrackIs DEF Readers, ReaderSound
  <1>5. PICK result \in Outcomes(dec, track, request.target) :
           /\ reader' = [reader EXCEPT !.dec[l] = [result.dec EXCEPT !.fresh = FALSE]]
           /\ request' = [request EXCEPT !.got[l] = result.got]
    BY DEF DecodeLens
  <1>6. result = Decode(dec, track, request.target) \/ result = Broken(dec)
    BY <1>5 DEF Outcomes
  <1>7. /\ result.dec \in Decoders /\ result.dec.hw = dec.hw /\ result.got \in Results
        /\ RunsSound(result.dec, track) /\ PositionSound(result.dec, track)
        /\ result.got = "picture" =>
              Decodable(track, request.target) /\ (dec.hw => Clean(track, request.target))
    <2>1. CASE result = Decode(dec, track, request.target)
      <3>. HIDE DEF dec, track
      <3>. QED BY <1>2, <1>4, <2>1, DecodeSound
    <2>2. CASE result = Broken(dec)
      <3>1. result.got = "decoder"
        BY <2>2 DEF Broken
      <3>. HIDE DEF dec, track
      <3>. QED BY <1>4, <2>2, <3>1, BrokenSound DEF Results
    <2>. QED BY <1>6, <2>1, <2>2
  <1>. DEFINE new == [result.dec EXCEPT !.fresh = FALSE]
  <1>8. /\ new \in Decoders /\ new.hw = dec.hw
        /\ RunsSound(new, track) /\ PositionSound(new, track)
    <2>. HIDE DEF dec, track
    <2>. QED BY <1>7 DEF Decoders, RunsSound, PositionSound
  <1>. HIDE DEF new
  <1>9. /\ reader' \in Readers /\ reader'.identity = reader.identity /\ reader'.bytes = reader.bytes
        /\ reader'.held = reader.held
        /\ \A m \in Lenses : reader'.dec[m] = IF m = l THEN new ELSE reader.dec[m]
    BY <1>2, <1>5, <1>8 DEF Readers, new
  <1>10. /\ request' \in Requests /\ request'.at = "decode" /\ request'.asked = request.asked
         /\ request'.target = request.target
         /\ \A m \in Lenses : request'.got[m] = IF m = l THEN result.got ELSE request.got[m]
    BY <1>1, <1>2, <1>5, <1>7 DEF Requests, At
  <1>11. LensTypeOK'
    BY <1>1, <1>2, <1>9, <1>10 DEF LensInv, LensTypeOK, InPlace, At, Mapped
  <1>12. Held' = parked \cup {reader'} /\ parked \subseteq Held
    BY <1>1, <1>10 DEF Held, At
  <1>13. \A m \in Lenses : Track(reader', m) = Track(reader, m)
    BY <1>9 DEF Track
  <1>14. Shared(reader') = Shared(reader)
    BY <1>13 DEF Shared
  <1>15. ReaderSound(reader')
    <2>1. \A m \in Lenses : /\ RunsSound(reader'.dec[m], Track(reader', m))
                            /\ PositionSound(reader'.dec[m], Track(reader', m))
      BY <1>3, <1>8, <1>9, <1>13 DEF ReaderSound
    <2>2. ASSUME reader'.held # None PROVE PairSound(reader', reader'.held)
      <3>1. reader.held \in Answers /\ PairSound(reader, reader.held)
        BY <1>2, <1>3, <1>9, <2>2 DEF ReaderSound, Readers
      <3>. QED BY <1>9, <1>13, <1>14, <3>1 DEF PairSound, Answers
    <2>. QED BY <2>1, <2>2 DEF ReaderSound
  <1>16. OfItsTime(reader)'
    BY <1>1, <1>3, <1>9 DEF OfItsTime
  <1>17. \A rd \in Held' : (OfItsTime(rd) /\ ReaderSound(rd))'
    <2>1. \A rd \in parked : OfItsTime(rd)' /\ ReaderSound(rd)
      BY <1>1, <1>12 DEF LensInv, OfItsTime
    <2>. QED BY <1>12, <1>15, <1>16, <2>1 DEF OfItsTime, ReaderSound
  <1>18. GotSound'
    <2>1. NoneBetter(reader', request.asked, request.target)
      BY <1>1, <1>3, <1>14 DEF GotSound, NoneBetter
    <2>2. \A m \in Lenses : request'.got[m] = "picture" =>
             /\ Decodable(Track(reader', m), request.target)
             /\ reader'.dec[m].hw => Clean(Track(reader', m), request.target)
      <3>. HIDE DEF dec, track
      <3>1. CASE result.got = "picture" => Decodable(Track(reader', l), request.target)
                       /\ (reader'.dec[l].hw => Clean(Track(reader', l), request.target))
        BY <1>1, <1>3, <1>9, <1>10, <1>13, <3>1 DEF GotSound
      <3>. QED BY <1>7, <1>8, <1>9, <1>13, <3>1 DEF dec, track
    <2>. QED BY <1>10, <2>1, <2>2 DEF GotSound, NoneBetter, Shared, Track
  <1>. QED BY <1>10, <1>11, <1>17, <1>18 DEF LensInv, AnswerSound, Answered, At

LEMMA DropToSoftwareStep == ASSUME LensInv, NEW l \in Lenses, DropToSoftware(l) PROVE LensInv'
  <1>1. /\ At("decode") /\ request.got[l] = None /\ reader' = [reader EXCEPT !.dec[l].hw = FALSE]
        /\ failures' = failures + 1 /\ UNCHANGED <<disk, parked, hwFailed, request>>
    BY DEF DropToSoftware, Upset
  <1>2. reader \in Readers /\ Mapped(reader) /\ reader \in Held
    BY <1>1 DEF LensInv, LensTypeOK, InPlace, At, Held
  <1>3. OfItsTime(reader) /\ ReaderSound(reader) /\ GotSound
    BY <1>2 DEF LensInv
  <1>. DEFINE new == [reader.dec[l] EXCEPT !.hw = FALSE]
  <1>4. new \in Decoders /\ new.hw = FALSE /\ new.runs = reader.dec[l].runs
    BY <1>2 DEF Readers, Decoders
  <1>. HIDE DEF new
  <1>5. /\ reader' \in Readers /\ reader'.identity = reader.identity /\ reader'.bytes = reader.bytes
        /\ reader'.held = reader.held
        /\ \A m \in Lenses : reader'.dec[m] = IF m = l THEN new ELSE reader.dec[m]
    BY <1>1, <1>2, <1>4 DEF Readers, new
  <1>6. LensTypeOK'
    BY <1>1, <1>2, <1>5 DEF LensInv, LensTypeOK, InPlace, At, Mapped
  <1>7. Held' = parked \cup {reader'} /\ parked \subseteq Held
    BY <1>1 DEF Held, At
  <1>8. \A m \in Lenses : Track(reader', m) = Track(reader, m)
    BY <1>5 DEF Track
  <1>9. Shared(reader') = Shared(reader)
    BY <1>8 DEF Shared
  <1>10. ReaderSound(reader')
    <2>1. \A m \in Lenses : /\ RunsSound(reader'.dec[m], Track(reader', m))
                            /\ PositionSound(reader'.dec[m], Track(reader', m))
      BY <1>3, <1>4, <1>5, <1>8 DEF ReaderSound, RunsSound, PositionSound
    <2>2. ASSUME reader'.held # None PROVE PairSound(reader', reader'.held)
      <3>1. reader.held \in Answers /\ PairSound(reader, reader.held)
        BY <1>2, <1>3, <1>5, <2>2 DEF ReaderSound, Readers
      <3>. QED BY <1>5, <1>8, <1>9, <3>1 DEF PairSound, Answers
    <2>. QED BY <2>1, <2>2 DEF ReaderSound
  <1>11. OfItsTime(reader)'
    BY <1>1, <1>3, <1>5 DEF OfItsTime
  <1>12. \A rd \in Held' : (OfItsTime(rd) /\ ReaderSound(rd))'
    <2>1. \A rd \in parked : OfItsTime(rd)' /\ ReaderSound(rd)
      BY <1>1, <1>7 DEF LensInv, OfItsTime
    <2>. QED BY <1>7, <1>10, <1>11, <2>1 DEF OfItsTime, ReaderSound
  <1>13. GotSound'
    <2>1. NoneBetter(reader', request.asked, request.target)
      BY <1>1, <1>3, <1>9 DEF GotSound, NoneBetter
    <2>2. \A m \in Lenses : reader'.dec[m].hw => reader.dec[m].hw
      BY <1>4, <1>5
    <2>. QED BY <1>1, <1>3, <1>8, <2>1, <2>2 DEF GotSound, NoneBetter, Shared, Track
  <1>. QED BY <1>1, <1>6, <1>12, <1>13 DEF LensInv, AnswerSound, Answered, At

LEMMA ErrorIs ==
  ASSUME Joined, Error = "picture" PROVE \A l \in Lenses : request.got[l] = "picture"
  BY DEF Joined, Error, Lenses

LEMMA DeliverStep == ASSUME LensInv, Deliver PROVE LensInv'
  <1>. DEFINE pair == Pair(request.target)
              new == [reader EXCEPT !.held = IF request.held THEN pair ELSE @]
  <1>1. /\ At("decode") /\ \A l \in Lenses : request.got[l] = "picture"
        /\ reader' = new /\ request' = [request EXCEPT !.at = "idle", !.answer = pair]
        /\ UNCHANGED <<disk, parked, hwFailed, failures>>
    BY ErrorIs DEF Deliver, Answer, Joined
  <1>2. /\ reader \in Readers /\ Mapped(reader) /\ request \in Requests /\ reader \in Held
        /\ request.asked \in Samples /\ request.target \in Samples
    BY <1>1 DEF LensInv, LensTypeOK, InPlace, At, Held
  <1>3. OfItsTime(reader) /\ ReaderSound(reader) /\ GotSound
    BY <1>2 DEF LensInv
  <1>4. pair \in Answers /\ pair.index = request.target /\ pair.got = "picture"
        /\ \A l \in pair.hw : l \in Lenses /\ reader.dec[l].hw
    BY <1>2 DEF Pair, Answers, Results
  <1>5. PairSound(reader, pair) /\ NoneBetter(reader, request.asked, pair.index)
    <2>1. request.target \in Shared(reader)
      BY <1>1, <1>2, <1>3 DEF GotSound, Shared
    <2>2. \A l \in pair.hw : Clean(Track(reader, l), request.target)
      BY <1>1, <1>3, <1>4 DEF GotSound
    <2>. QED BY <1>1, <1>3, <1>4, <2>1, <2>2 DEF PairSound, GotSound
  <1>. HIDE DEF pair
  <1>6. /\ new \in Readers /\ new.identity = reader.identity /\ new.bytes = reader.bytes /\ new.dec = reader.dec
        /\ new.held = reader.held \/ new.held = pair
    BY <1>2, <1>4 DEF Readers
  <1>. HIDE DEF new
  <1>7. request' \in Requests /\ request'.at = "idle" /\ request'.asked = request.asked /\ request'.answer = pair
    BY <1>1, <1>2, <1>4 DEF Requests
  <1>8. LensTypeOK'
    BY <1>1, <1>2, <1>6, <1>7 DEF LensInv, LensTypeOK, InPlace, At, Mapped
  <1>9. Held' \subseteq parked \cup {new} /\ parked \subseteq Held
    BY <1>1, <1>7 DEF Held, At
  <1>10. \A l \in Lenses : Track(new, l) = Track(reader, l)
    BY <1>6 DEF Track
  <1>11. Shared(new) = Shared(reader)
    BY <1>10 DEF Shared
  <1>12. PairSound(new, pair)
    BY <1>4, <1>5, <1>10, <1>11 DEF PairSound
  <1>13. ReaderSound(new)
    <2>1. \A l \in Lenses : RunsSound(new.dec[l], Track(new, l)) /\ PositionSound(new.dec[l], Track(new, l))
      BY <1>3, <1>6, <1>10 DEF ReaderSound
    <2>2. ASSUME new.held # None, new.held # pair PROVE PairSound(new, new.held)
      <3>1. reader.held \in Answers /\ PairSound(reader, reader.held)
        BY <1>2, <1>3, <1>6, <2>2 DEF ReaderSound, Readers
      <3>. QED BY <1>6, <1>10, <1>11, <2>2, <3>1 DEF PairSound, Answers
    <2>. QED BY <1>12, <2>1, <2>2 DEF ReaderSound
  <1>14. \A rd \in Held' : (OfItsTime(rd) /\ ReaderSound(rd))'
    <2>1. \A rd \in parked : OfItsTime(rd)' /\ ReaderSound(rd)
      BY <1>1, <1>9 DEF LensInv, OfItsTime
    <2>2. OfItsTime(reader)'
      BY <1>1, <1>3, <1>6 DEF OfItsTime
    <2>. QED BY <1>1, <1>9, <1>13, <2>1, <2>2 DEF OfItsTime, ReaderSound
  <1>15. AnswerSound'
    <2>1. NoneBetter(new, request.asked, pair.index)
      BY <1>5, <1>11 DEF NoneBetter
    <2>. QED BY <1>1, <1>2, <1>7, <1>12, <2>1 DEF AnswerSound, PairSound, NoneBetter, Shared, Track
  <1>. QED BY <1>7, <1>8, <1>14, <1>15 DEF LensInv, GotSound, At

LEMMA HoldStep == ASSUME LensInv, Hold PROVE LensInv'
  <1>. DEFINE hold == HoldFor(reader, request.asked)
  <1>1. /\ At("decode") /\ hold # None
        /\ request' = [request EXCEPT !.target = hold, !.held = TRUE, !.got = Idle.got]
        /\ UNCHANGED <<disk, parked, hwFailed, reader, failures>>
    BY DEF Hold, Joined
  <1>2. /\ reader \in Readers /\ Mapped(reader) /\ request \in Requests /\ reader \in Held
        /\ request.asked \in Samples /\ ReaderSound(reader)
    BY <1>1 DEF LensInv, LensTypeOK, InPlace, At, Held
  <1>3. hold \in Samples /\ NoneBetter(reader, request.asked, hold)
    BY <1>1, <1>2, HoldForIsAsGood
  <1>. HIDE DEF hold
  <1>4. Idle.got \in [Lenses -> Results \cup {None}] /\ \A l \in Lenses : Idle.got[l] = None
    BY DEF Idle
  <1>5. /\ request' \in Requests /\ request'.at = "decode" /\ request'.asked = request.asked
        /\ request'.target = hold /\ request'.got = Idle.got
    BY <1>1, <1>2, <1>3, <1>4 DEF Requests, At
  <1>6. LensTypeOK'
    BY <1>1, <1>2, <1>3, <1>5 DEF LensInv, LensTypeOK, InPlace, At, Mapped
  <1>7. Held' = Held
    BY <1>1, <1>5 DEF Held, At
  <1>8. \A l \in Lenses : request'.got[l] # "picture"
    BY <1>4, <1>5, LensAssumption
  <1>9. GotSound'
    BY <1>1, <1>3, <1>5, <1>8 DEF GotSound, NoneBetter, Shared, Track
  <1>. QED BY <1>1, <1>5, <1>6, <1>7, <1>9 DEF LensInv, AnswerSound, Answered, At, OfItsTime, ReaderSound

LEMMA RefuseStep == ASSUME LensInv, Refuse PROVE LensInv'
  <1>1. /\ At("decode") /\ Error # "picture" /\ Joined
        /\ request' = [request EXCEPT !.at = "idle", !.answer = Failure(Error)]
        /\ UNCHANGED <<disk, parked, hwFailed, reader, failures>>
    BY DEF Refuse, ReadFails, Joined, Answer
  <1>2. /\ reader \in Readers /\ Mapped(reader) /\ request \in Requests /\ request.asked \in Samples
    BY <1>1 DEF LensInv, LensTypeOK, InPlace, At
  <1>3. Error \in Results \cup {None}
    BY <1>2 DEF Error, Requests, Lenses
  <1>4. Failure(Error) \in Answers /\ Failure(Error).got # "picture"
    BY <1>1, <1>3, IdleIs DEF Failure, Answers
  <1>5. request' \in Requests /\ request'.at = "idle" /\ request'.answer.got # "picture"
    BY <1>1, <1>2, <1>4 DEF Requests
  <1>6. LensTypeOK'
    BY <1>1, <1>2, <1>5 DEF LensInv, LensTypeOK, InPlace, At, Mapped
  <1>7. Held' \subseteq Held
    BY <1>1, <1>5 DEF Held, At
  <1>. QED BY <1>1, <1>5, <1>6, <1>7 DEF LensInv, GotSound, AnswerSound, Answered, At, OfItsTime, ReaderSound

LEMMA FallBackStep == ASSUME LensInv, FallBack PROVE LensInv'
  <1>1. /\ At("decode") /\ hwFailed' = TRUE /\ reader' = None /\ Ensure([request EXCEPT !.again = TRUE])
        /\ UNCHANGED <<disk, parked, failures>>
    BY DEF FallBack, ReadFails, Joined
  <1>2. [request EXCEPT !.again = TRUE] \in Requests /\ [request EXCEPT !.again = TRUE].asked \in Samples
    BY <1>1 DEF LensInv, LensTypeOK, InPlace, At, Requests
  <1>. QED BY <1>1, <1>2, EnsureSound

LEMMA QuietStep == ASSUME LensInv, Quiet PROVE LensInv'
  <1>1. /\ At("idle") /\ reader # None /\ reader' = None /\ parked' \subseteq parked \cup {reader}
        /\ UNCHANGED <<disk, hwFailed, request, failures>>
    BY DEF Quiet
  <1>2. reader \in Readers /\ Mapped(reader)
    BY <1>1 DEF LensInv, LensTypeOK, InPlace, At
  <1>3. Held' \subseteq Held
    BY <1>1 DEF Held, At
  <1>4. LensTypeOK'
    BY <1>1, <1>2 DEF LensInv, LensTypeOK, InPlace, At, Mapped
  <1>. QED BY <1>1, <1>3, <1>4 DEF LensInv, GotSound, AnswerSound, Answered, At, OfItsTime, ReaderSound

LEMMA ReopenStep == ASSUME LensInv, Reopen PROVE LensInv'
  <1>1. At("idle") /\ hwFailed' = FALSE /\ UNCHANGED <<disk, parked, reader, request, failures>>
    BY DEF Reopen
  <1>. QED BY <1>1 DEF LensInv, LensTypeOK, InPlace, Mapped, Held, GotSound, AnswerSound, Answered, At,
                       OfItsTime, ReaderSound, Unused

LEMMA ReleaseStep == ASSUME LensInv, Release PROVE LensInv'
  <1>1. parked' \subseteq parked /\ UNCHANGED <<disk, hwFailed, reader, request, failures>>
    BY DEF Release
  <1>2. Held' \subseteq Held
    BY <1>1 DEF Held, At
  <1>3. LensTypeOK'
    BY <1>1 DEF LensInv, LensTypeOK, InPlace, Mapped, At
  <1>. QED BY <1>1, <1>2, <1>3 DEF LensInv, GotSound, AnswerSound, Answered, At, OfItsTime, ReaderSound, Unused

\* What the file was is left behind by what it becomes: no reader has mapped that.
LEMMA RewriteStep == ASSUME LensInv, Rewrite PROVE LensInv'
  <1>1. /\ disk.version < Len(Files) /\ UNCHANGED <<parked, hwFailed, reader, request, failures>>
        /\ disk' \in [version : {disk.version + 1}, content : Files[disk.version + 1]]
    BY DEF Rewrite
  <1>2. disk \in Versions /\ disk.version \in Nat
    BY DEF LensInv, LensTypeOK, Versions
  <1>3. Files[disk.version + 1] \subseteq [Lenses -> Tracks]
    <2>1. disk.version + 1 \in 1 .. Len(Files)
      BY <1>1, <1>2, LensAssumption
    <2>. QED BY <2>1, LensAssumption
  <1>4. disk' \in Versions /\ disk'.version = disk.version + 1
    BY <1>1, <1>2, <1>3 DEF Versions
  <1>5. LensTypeOK'
    BY <1>1, <1>4 DEF LensInv, LensTypeOK, InPlace, Mapped, At
  <1>6. Held' = Held
    BY <1>1 DEF Held, At
  <1>7. ASSUME NEW rd \in Held, rd \in Readers PROVE OfItsTime(rd)'
    <2>1. rd.identity \in Nat /\ \A l \in Lenses : rd.bytes[l] \in Versions => rd.bytes[l].version \in Nat
      BY <1>7 DEF Readers, Versions
    <2>2. OfItsTime(rd)
      BY <1>7 DEF LensInv
    <2>. QED BY <1>2, <1>4, <2>1, <2>2 DEF OfItsTime
  <1>8. \A rd \in Held : rd \in Readers
    BY DEF Held, LensInv, LensTypeOK, InPlace, At, Requests
  <1>. QED BY <1>1, <1>5, <1>6, <1>7, <1>8 DEF LensInv, GotSound, AnswerSound, Answered, At, ReaderSound, Unused

LEMMA InvStep == ASSUME LensInv, [Next]_vars PROVE LensInv'
  <1>1. ASSUME UNCHANGED vars PROVE LensInv'
    BY <1>1 DEF vars, LensInv, LensTypeOK, InPlace, Mapped, Held, GotSound, AnswerSound, Answered, At,
                OfItsTime, ReaderSound, Unused
  <1>. QED BY <1>1, AskStep, TakeStep, OpenStep, MapLensStep, OpenedStep, OpenFailsStep, LookStep,
              DecodeLensStep, DropToSoftwareStep, DeliverStep, HoldStep, RefuseStep, FallBackStep,
              QuietStep, ReopenStep, ReleaseStep, RewriteStep DEF Next
-----------------------------------------------------------------------------
(* The theorems. *)

LEMMA Inductive == Spec => []LensInv
  <1>1. Init => LensInv
    BY InvInit
  <1>2. LensInv /\ [Next]_vars => LensInv'
    BY InvStep
  <1>. QED BY <1>1, <1>2, PTL DEF Spec

\* The instance's thread, its reader and the readers of the pool are what
\* DualStreamReader and ReaderPool keep, at every step.
THEOREM LensTypeCorrect == Spec => []LensTypeOK
  <1>1. LensInv => LensTypeOK
    BY DEF LensInv
  <1>. QED BY <1>1, Inductive, PTL

\* For a file of any length: a picture handed out is that of the frame asked for,
\* else of the last before it that both lenses have, else of the first after it.
THEOREM ShownFrame == Spec => []ShowsTheFrame
  <1>1. LensInv => ShowsTheFrame
    <2>. SUFFICES ASSUME LensInv, Answered("picture") PROVE ShowsTheFrame
      BY DEF ShowsTheFrame
    <2>. DEFINE index == request.answer.index
                before == {i \in Shared(reader) : i <= request.asked}
    <2>1. index \in Shared(reader) /\ request.asked \in Samples /\ NoneBetter(reader, request.asked, index)
      BY DEF LensInv, AnswerSound, PairSound
    <2>2. \A s \in Shared(reader) : s \in Nat
      BY SamplesAreNaturals DEF Shared
    <2>3. request.asked \in Nat /\ index \in Nat
      BY <2>1, <2>2, SamplesAreNaturals
    <2>4. \A s \in Shared(reader) : IF index <= request.asked THEN ~(index < s /\ s <= request.asked)
                                    ELSE s >= index
      BY <2>1 DEF NoneBetter
    <2>. HIDE DEF index
    <2>5. CASE index <= request.asked
      <3>1. index \in before /\ \A s \in before : s \in Nat /\ s <= index
        BY <2>1, <2>2, <2>3, <2>4, <2>5
      <3>2. Max(before) = index
        <4>. HIDE DEF before
        <4>. QED BY <3>1, MaxUnique
      <3>. QED BY <3>1, <3>2 DEF ShowsTheFrame, index
    <2>6. CASE ~(index <= request.asked)
      <3>1. before = {}
        BY <2>2, <2>3, <2>4, <2>6
      <3>2. Min(Shared(reader)) = index
        BY <2>1, <2>2, <2>4, <2>6, MinUnique
      <3>. QED BY <3>1, <3>2 DEF ShowsTheFrame, index
    <2>. QED BY <2>5, <2>6
  <1>. QED BY <1>1, Inductive, PTL

\* For every request, whichever came before it: the hardware's picture of a lens
\* is not flagged, nor is any before it in its group of pictures.
THEOREM DamageHidden == Spec => []DamageIsNotShown
  <1>1. LensInv => DamageIsNotShown
    BY DEF LensInv, AnswerSound, PairSound, DamageIsNotShown
  <1>. QED BY <1>1, Inductive, PTL

\* However often the file is rewritten, and however many readers wait: the pool
\* hands out, for the file as it is, only readers that mapped the file as it is.
THEOREM WarmReaderIsCurrent == Spec => []WarmIsCurrent
  <1>1. LensInv => WarmIsCurrent
    <2>. SUFFICES ASSUME LensInv, NEW rd \in parked, rd.identity = disk.version, NEW l \in Lenses
                  PROVE  rd.bytes[l] = disk
      BY DEF WarmIsCurrent
    <2>1. rd \in Readers /\ rd.bytes[l] \in Versions /\ disk \in Versions /\ OfItsTime(rd)
      BY DEF LensInv, LensTypeOK, Mapped, Held
    <2>2. /\ rd.identity <= rd.bytes[l].version /\ rd.bytes[l].version <= disk.version
          /\ rd.bytes[l].version = disk.version => rd.bytes[l] = disk
      BY <2>1 DEF OfItsTime
    <2>3. rd.bytes[l].version \in Nat /\ disk.version \in Nat
      BY <2>1 DEF Versions
    <2>. QED BY <2>2, <2>3
  <1>. QED BY <1>1, Inductive, PTL

-----------------------------------------------------------------------------
(* A refusal teaches the reader something: another inductive invariant. *)

\* A run begins after a picture, unless nothing was to be had up to it, and a
\* position is that of a picture.
RunStarts(dec, track) ==
    \A k \in 1 .. Len(dec.runs) :
        \/ dec.runs[k].first > 0 /\ Decodable(track, dec.runs[k].first - 1)
        \/ \A s \in 0 .. dec.runs[k].first : ~Decodable(track, s)
PositionDecodes(dec, track) == dec.last # None => Decodable(track, dec.last)

ReaderLearns(rd) ==
    /\ \A l \in Lenses : RunStarts(rd.dec[l], Track(rd, l)) /\ PositionDecodes(rd.dec[l], Track(rd, l))
    /\ rd.held # None => rd.held.got = "picture"

\* While no decode of the request has met a new run, the frame decoded is the one
\* holdFor() gave, and a lens that has no picture of it knew of a run around it.
RequestLearns ==
    At("decode") =>
        /\ request.runs <= RunsKnown(reader)
        /\ ~request.held => request.target = request.asked
        /\ RunsKnown(reader) = request.runs =>
              /\ HoldFor(reader, request.asked) = IF request.held THEN request.target ELSE None
              /\ \A l \in Lenses : request.got[l] = "timing" =>
                    KnownRun(reader.dec[l], request.target) # None

TeachInv ==
    /\ LensInv
    /\ \A rd \in Held : ReaderLearns(rd)
    /\ RequestLearns
    /\ RefusalTeaches
-----------------------------------------------------------------------------
(* Runs and the rounds of holdFor(). *)

LEMMA NoneIsNoRun == None \notin Runs /\ None \notin Samples /\ None \notin Results
  BY LensAssumption DEF Runs, Results

LEMMA KnownRunMet ==
  ASSUME NEW dec \in Decoders, NEW i \in Samples, NEW k \in 1 .. Len(dec.runs),
         dec.runs[k].first <= i, i < dec.runs[k].end
  PROVE  KnownRun(dec, i) # None
  <1>. DEFINE Inside == {n \in 1 .. Len(dec.runs) : dec.runs[n].first <= i /\ i < dec.runs[n].end}
  <1>1. Inside \in SUBSET Nat /\ 0 \notin Inside /\ Inside # {} /\ dec.runs \in Seq(Runs)
    BY DEF Decoders
  <1>2. Min(Inside) \in Inside
    BY <1>1, MinIs
  <1>3. KnownRun(dec, i) = dec.runs[Min(Inside)]
    BY <1>1, <1>2 DEF KnownRun, SelectInSeq
  <1>4. Min(Inside) \in 1 .. Len(dec.runs)
    BY <1>2
  <1>. HIDE DEF Inside
  <1>5. dec.runs[Min(Inside)] \in Runs
    BY <1>1, <1>4
  <1>. QED BY <1>3, <1>5, NoneIsNoRun

LEMMA KnownRunOfRuns ==
  ASSUME NEW dec, NEW other, dec.runs = other.runs, NEW i PROVE KnownRun(dec, i) = KnownRun(other, i)
  BY DEF KnownRun

LEMMA HoldForOfRuns ==
  ASSUME NEW rd, NEW other, \A l \in Lenses : rd.dec[l].runs = other.dec[l].runs, NEW i
  PROVE  HoldFor(rd, i) = HoldFor(other, i)
  <1>1. \A j : \A l \in Lenses : KnownRun(rd.dec[l], j) = KnownRun(other.dec[l], j)
    BY KnownRunOfRuns
  <1>2. ASSUME NEW j PROVE Earlier(rd, j) = Earlier(other, j)
    <2>1. {l \in Lenses : KnownRun(rd.dec[l], j) # None} = {l \in Lenses : KnownRun(other.dec[l], j) # None}
      BY <1>1
    <2>2. ASSUME NEW around \in SUBSET Lenses
          PROVE  {HeldFrameFor(KnownRun(rd.dec[l], j)) : l \in around} =
                    {HeldFrameFor(KnownRun(other.dec[l], j)) : l \in around}
      BY <1>1
    <2>. QED BY <2>1, <2>2 DEF Earlier
  <1>. QED BY <1>1, <1>2 DEF HoldFor

\* A run around a frame leads to the picture of its lens before it, as long as
\* both lenses have some frame up to here.
LEMMA RunLeadsBack ==
  ASSUME NEW rd \in Readers, Mapped(rd), ReaderSound(rd), ReaderLearns(rd),
         NEW s \in Shared(rd), NEW i \in Samples, s <= i,
         NEW l \in Lenses, KnownRun(rd.dec[l], i) # None,
         NEW h, h = HeldFrameFor(KnownRun(rd.dec[l], i))
  PROVE  /\ h \in Samples /\ s <= h /\ h < i /\ Decodable(Track(rd, l), h)
         /\ \A x \in h + 1 .. i : ~Decodable(Track(rd, l), x)
  <1>1. rd.dec[l] \in Decoders
    BY DEF Readers
  <1>2. PICK k \in 1 .. Len(rd.dec[l].runs) :
           /\ KnownRun(rd.dec[l], i) = rd.dec[l].runs[k] /\ rd.dec[l].runs[k] \in Runs
           /\ rd.dec[l].runs[k].first <= i /\ i < rd.dec[l].runs[k].end
    BY <1>1, KnownRunIs
  <1>3. PICK run \in Runs : run = rd.dec[l].runs[k]
    BY <1>2
  <1>4. \A x \in run.first .. run.end - 1 : ~Decodable(Track(rd, l), x)
    BY <1>3 DEF ReaderSound, RunsSound
  <1>5. \/ run.first > 0 /\ Decodable(Track(rd, l), run.first - 1)
        \/ \A x \in 0 .. run.first : ~Decodable(Track(rd, l), x)
    BY <1>3 DEF ReaderLearns, RunStarts
  <1>6. \A x : x \in Samples <=> x \in Nat /\ x < Count
    BY LensAssumption DEF Samples
  <1>7. /\ run.first \in Nat /\ run.end \in Nat /\ i \in Nat /\ i < Count
        /\ s \in Nat /\ run.first <= i /\ i < run.end
        /\ Decodable(Track(rd, l), s)
    BY <1>2, <1>3, <1>6 DEF Runs, Shared
  <1>8. run.first > 0 /\ Decodable(Track(rd, l), run.first - 1) /\ s < run.first
    BY <1>4, <1>5, <1>7
  <1>9. h = run.first - 1
    BY <1>2, <1>3, <1>8 DEF HeldFrameFor
  <1>10. \A x \in h + 1 .. i : x \in run.first .. run.end - 1
    BY <1>7, <1>9
  <1>11. h \in Nat /\ h < Count /\ s <= h /\ h < i
    BY <1>7, <1>8, <1>9, LensAssumption
  <1>12. h \in Samples
    BY <1>6, <1>11
  <1>13. Decodable(Track(rd, l), h)
    BY <1>8, <1>9
  <1>. QED BY <1>4, <1>10, <1>11, <1>12, <1>13

LEMMA EarlierStepsBack ==
  ASSUME NEW rd \in Readers, Mapped(rd), ReaderSound(rd), ReaderLearns(rd),
         NEW s \in Shared(rd), NEW i \in Samples, s <= i
  PROVE  LET tracks == [l \in Lenses |-> Track(rd, l)]
         IN  /\ Earlier(rd, i) \in Samples /\ s <= Earlier(rd, i)
             /\ \/ Earlier(rd, i) = i /\ \A l \in Lenses : KnownRun(rd.dec[l], i) = None
                \/ StepsBack(tracks, i, Earlier(rd, i))
  <1>. DEFINE around == {l \in Lenses : KnownRun(rd.dec[l], i) # None}
              frames == {HeldFrameFor(KnownRun(rd.dec[l], i)) : l \in around}
  <1>1. CASE around = {}
    BY <1>1 DEF Earlier
  <1>2. CASE around # {}
    <2>1. \A l \in around : HeldFrameFor(KnownRun(rd.dec[l], i)) \in Samples
      BY RunLeadsBack
    <2>2. frames # {} /\ frames \in SUBSET Nat
      BY <1>2, <2>1, SamplesAreNaturals
    <2>3. Min(frames) \in frames /\ Earlier(rd, i) = Min(frames)
      BY <1>2, <2>2, MinIs DEF Earlier
    <2>4. PICK l \in Lenses : KnownRun(rd.dec[l], i) # None /\ Earlier(rd, i) = HeldFrameFor(KnownRun(rd.dec[l], i))
      BY <2>3
    <2>5. /\ Earlier(rd, i) \in Samples /\ s <= Earlier(rd, i) /\ Earlier(rd, i) < i
          /\ Decodable(Track(rd, l), Earlier(rd, i))
          /\ \A x \in Earlier(rd, i) + 1 .. i : ~Decodable(Track(rd, l), x)
      BY <2>4, RunLeadsBack
    <2>. QED BY <2>5 DEF StepsBack
  <1>. QED BY <1>1, <1>2

LEMMA PictureHasNoRun ==
  ASSUME NEW rd \in Readers, ReaderSound(rd), NEW l \in Lenses, NEW i \in Samples, Decodable(Track(rd, l), i)
  PROVE  KnownRun(rd.dec[l], i) = None
  <1>. SUFFICES ASSUME KnownRun(rd.dec[l], i) # None PROVE FALSE
    OBVIOUS
  <1>1. rd.dec[l] \in Decoders
    BY DEF Readers
  <1>2. PICK k \in 1 .. Len(rd.dec[l].runs) :
           /\ rd.dec[l].runs[k] \in Runs
           /\ rd.dec[l].runs[k].first <= i /\ i < rd.dec[l].runs[k].end
    BY <1>1, KnownRunIs
  <1>3. PICK run \in Runs : run = rd.dec[l].runs[k]
    BY <1>2
  <1>4. \A x \in run.first .. run.end - 1 : ~Decodable(Track(rd, l), x)
    BY <1>3 DEF ReaderSound, RunsSound
  <1>5. run.first \in Nat /\ run.end \in Nat /\ i \in Nat
    BY <1>3, SamplesAreNaturals DEF Runs
  <1>. QED BY <1>2, <1>3, <1>4, <1>5

\* What holdFor() answers is of no run, when both lenses have a frame up to here
\* and the losses do not chain deeper than its rounds.
LEMMA HoldForEnds ==
  ASSUME NEW rd \in Readers, Mapped(rd), ReaderSound(rd), ReaderLearns(rd),
         NEW s \in Shared(rd), NEW asked \in Samples, s <= asked, HoldFor(rd, asked) # None,
         ~ChainsDeeper(rd, asked)
  PROVE  \A l \in Lenses : KnownRun(rd.dec[l], HoldFor(rd, asked)) = None
  <1>. DEFINE tracks == [l \in Lenses |-> Track(rd, l)]
              Met(i) == \A l \in Lenses : KnownRun(rd.dec[l], i) = None
              StepBack(i, h) == StepsBack(tracks, i, h)
              Round(i, h) == (h = i /\ Met(i)) \/ StepBack(i, h)
  <1>1. PICK one \in Samples : one = Earlier(rd, asked) /\ s <= one /\ Round(asked, one)
    BY EarlierStepsBack
  <1>2. PICK two \in Samples : two = Earlier(rd, one) /\ s <= two /\ Round(one, two)
    BY <1>1, EarlierStepsBack
  <1>3. PICK three \in Samples : three = Earlier(rd, two) /\ s <= three /\ Round(two, three)
    BY <1>2, EarlierStepsBack
  <1>4. PICK four \in Samples : four = Earlier(rd, three) /\ s <= four /\ Round(three, four)
    BY <1>3, EarlierStepsBack
  <1>5. HoldFor(rd, asked) = four
    BY <1>1, <1>2, <1>3, <1>4 DEF HoldFor
  <1>6. \A i \in Samples : Met(i) => Earlier(rd, i) = i
    BY DEF Earlier
  <1>7. CASE Met(asked) \/ Met(one) \/ Met(two) \/ Met(three)
    <2>. HIDE DEF Met, StepBack
    <2>1. Met(four)
      BY <1>1, <1>2, <1>3, <1>4, <1>6, <1>7
    <2>. QED BY <1>5, <2>1 DEF Met
  <1>8. CASE StepBack(asked, one) /\ StepBack(one, two) /\ StepBack(two, three) /\ StepBack(three, four)
    <2>1. PICK h \in [0 .. 4 -> Samples] :
             h[0] = asked /\ h[1] = one /\ h[2] = two /\ h[3] = three /\ h[4] = four
      <3>. DEFINE f == [n \in 0 .. 4 |-> IF n = 0 THEN asked ELSE IF n = 1 THEN one
                                        ELSE IF n = 2 THEN two ELSE IF n = 3 THEN three ELSE four]
      <3>1. f \in [0 .. 4 -> Samples]
        OBVIOUS
      <3>2. f[0] = asked /\ f[1] = one /\ f[2] = two /\ f[3] = three /\ f[4] = four
        OBVIOUS
      <3>. QED BY <3>1, <3>2
    <2>2. \A n \in 0 .. 3 : StepsBack(tracks, h[n], h[n + 1])
      <3>. HIDE DEF tracks
      <3>1. \A n \in 0 .. 3 : n = 0 \/ n = 1 \/ n = 2 \/ n = 3
        OBVIOUS
      <3>2. 0 + 1 = 1 /\ 1 + 1 = 2 /\ 2 + 1 = 3 /\ 3 + 1 = 4
        OBVIOUS
      <3>. QED BY <1>8, <2>1, <3>1, <3>2
    <2>3. tracks = [l \in Lenses |-> Track(rd, l)]
      OBVIOUS
    <2>4. \A l \in Lenses : Decodable(tracks[l], h[4])
      <3>. HIDE DEF tracks
      <3>. QED BY <2>1, <2>2, <2>3 DEF ChainsDeeper
    <2>5. \A l \in Lenses : Decodable(Track(rd, l), four)
      BY <2>1, <2>4
    <2>. QED BY <1>5, <2>5, PictureHasNoRun
  <1>. HIDE DEF Met, StepBack
  <1>. QED BY <1>1, <1>2, <1>3, <1>4, <1>7, <1>8

-----------------------------------------------------------------------------
(* What a decode notes. *)

\* A decode put on a sample that is no start finds nothing up to the one asked for.
LEMMA PreviousSyncMisses ==
  ASSUME NEW track \in Tracks, NEW i \in Samples, PreviousSync(track, i) \notin track.starts
  PROVE  \A s \in 0 .. i : ~Decodable(track, s)
  <1>. DEFINE Listed == {s \in track.listed : s <= i}
              Starts == {s \in track.starts : s <= i}
  <1>1. Starts \in SUBSET Samples
    BY DEF Tracks
  <1>2. Starts # {} => Max(Starts) \in Starts
    BY <1>1, MaxOfSamples
  <1>3. PreviousSync(track, i) = IF Max(Listed) \in Starts \/ Starts = {} THEN Max(Listed) ELSE Max(Starts)
    BY DEF PreviousSync
  <1>4. Starts = {}
    BY <1>2, <1>3
  <1>5. \A s \in track.starts : s \in Nat /\ i \in Nat /\ ~(s <= i)
    BY <1>4, SamplesAreNaturals DEF Tracks
  <1>. QED BY <1>5 DEF Decodable

\* The first picture that decodes after one that does not is a start.
LEMMA RecoversAtStart ==
  ASSUME NEW track \in Tracks, NEW n \in Nat, Decodable(track, n), n = 0 \/ ~Decodable(track, n - 1)
  PROVE  n \in track.starts
  <1>1. PICK s \in track.starts : s <= n /\ \A r \in s + 1 .. n : r \notin track.lost
    BY DEF Decodable
  <1>2. s \in Nat
    BY SamplesAreNaturals DEF Tracks
  <1>3. s # n => s <= n - 1 /\ n # 0 /\ \A r \in s + 1 .. n - 1 : r \notin track.lost
    BY <1>1, <1>2
  <1>. QED BY <1>1, <1>3 DEF Decodable

LEMMA NoteRunTeaches ==
  ASSUME NEW dec \in Decoders, NEW track \in Tracks, RunStarts(dec, track),
         NEW first \in Samples, NEW end \in Samples,
         \/ first \in track.starts
         \/ first > 0 /\ Decodable(track, first - 1)
         \/ \A s \in 0 .. first : ~Decodable(track, s)
  PROVE  LET new == NoteRun(dec, track, first, end)
         IN  /\ RunStarts(new, track) /\ new.last = dec.last
             /\ \/ new.runs = dec.runs
                \/ Len(new.runs) = Len(dec.runs) + 1
             /\ \A i \in Samples :
                   (/\ new.runs = dec.runs /\ first \notin track.starts /\ end \in track.starts
                    /\ first <= i /\ i < end)
                   => KnownRun(dec, i) # None
  <1>. DEFINE run == [first |-> first, end |-> end]
  <1>1. run \in Runs /\ dec.runs \in Seq(Runs)
    BY DEF Runs, Decoders
  <1>2. PICK longer \in Decoders : longer = [dec EXCEPT !.runs = Append(dec.runs, run)]
    <2>1. Append(dec.runs, run) \in Seq(Runs)
      BY <1>1
    <2>2. [dec EXCEPT !.runs = Append(dec.runs, run)] \in Decoders
      BY <2>1 DEF Decoders
    <2>. QED BY <2>2
  <1>3. longer.runs = Append(dec.runs, run) /\ longer.last = dec.last
    BY <1>2 DEF Decoders
  <1>4. /\ Len(longer.runs) = Len(dec.runs) + 1 /\ Len(dec.runs) \in Nat
        /\ \A k \in 1 .. Len(dec.runs) + 1 :
              longer.runs[k] = IF k <= Len(dec.runs) THEN dec.runs[k] ELSE run
    BY <1>1, <1>3
  <1>5. run.first = first /\ run.end = end
    OBVIOUS
  <1>6. ASSUME first \notin track.starts PROVE RunStarts(longer, track)
    <2>. HIDE DEF run
    <2>1. ASSUME NEW k \in 1 .. Len(longer.runs)
          PROVE  \/ longer.runs[k].first > 0 /\ Decodable(track, longer.runs[k].first - 1)
                 \/ \A s \in 0 .. longer.runs[k].first : ~Decodable(track, s)
      <3>1. CASE k <= Len(dec.runs)
        <4>1. k \in 1 .. Len(dec.runs) /\ longer.runs[k] = dec.runs[k]
          BY <1>4, <3>1
        <4>. QED BY <4>1 DEF RunStarts
      <3>2. CASE ~(k <= Len(dec.runs))
        <4>1. longer.runs[k] = run
          BY <1>4, <3>2
        <4>. QED BY <1>5, <1>6, <4>1
      <3>. QED BY <3>1, <3>2
    <2>. QED BY <2>1 DEF RunStarts
  <1>7. NoteRun(dec, track, first, end) =
           IF first \in track.starts \/ end \notin track.starts \/ Contains(dec.runs, run) THEN dec ELSE longer
    BY <1>2 DEF NoteRun
  <1>8. longer.runs # dec.runs
    BY <1>4
  <1>9. ASSUME NEW i \in Samples, Contains(dec.runs, run), first <= i, i < end PROVE KnownRun(dec, i) # None
    <2>1. PICK k \in 1 .. Len(dec.runs) : dec.runs[k] = run
      BY <1>9 DEF Contains
    <2>. QED BY <1>5, <1>9, <2>1, KnownRunMet
  <1>. HIDE DEF run
  <1>. QED BY <1>3, <1>4, <1>6, <1>7, <1>8, <1>9

\* A decode refused is of a run the decoder knew, or notes the one it met.
LEMMA DecodeTeaches ==
  ASSUME NEW dec \in Decoders, NEW track \in Tracks, NEW i \in Samples,
         RunStarts(dec, track), PositionDecodes(dec, track)
  PROVE  LET out == Decode(dec, track, i)
         IN  /\ RunStarts(out.dec, track) /\ PositionDecodes(out.dec, track)
             /\ out.dec.runs = dec.runs \/ Len(out.dec.runs) = Len(dec.runs) + 1
             /\ out.got = "timing" /\ out.dec.runs = dec.runs => KnownRun(dec, i) # None
  <1>. DEFINE seek == ~CanDecodeForwardTo(dec, track, i)
              from == IF seek THEN PreviousSync(track, i) ELSE dec.last + 1
              passed == Pictures(track, from, i - 1)
              first == IF passed # {} THEN Max(passed) + 1 ELSE from
              coming == Pictures(track, Max({from, i}), Count - 1)
              damaged == Damaged(track, dec.hw, passed \cup {i}, ~seek /\ dec.damaged)
              lost == [dec EXCEPT !.last = None]
              out == Decode(dec, track, i)
  <1>0. Samples \subseteq Nat /\ Count \in Nat /\ \A s : s \in Samples <=> s \in Nat /\ s < Count
    BY LensAssumption DEF Samples
  <1>1. ~seek => dec.last # None /\ dec.last \in Samples /\ i > dec.last
    BY DEF CanDecodeForwardTo, Decoders
  <1>2. from \in Samples /\ from <= i
    BY <1>0, <1>1, PreviousSyncIs
  <1>3. passed \in SUBSET Samples /\ \A s \in from .. i - 1 : s \in passed <=> Decodable(track, s)
    BY <1>0, <1>2 DEF Pictures
  <1>4. /\ first \in Samples /\ first <= i /\ \A s \in first .. i - 1 : ~Decodable(track, s)
        /\ \/ first \in track.starts
           \/ first > 0 /\ Decodable(track, first - 1)
           \/ \A s \in 0 .. first : ~Decodable(track, s)
    <2>1. CASE passed = {}
      <3>1. first = from /\ \A s \in first .. i - 1 : ~Decodable(track, s)
        BY <2>1, <1>2, <1>3
      <3>2. CASE ~seek
        <4>1. first = dec.last + 1 /\ Decodable(track, dec.last) /\ dec.last \in Nat
          BY <1>0, <1>1, <3>1, <3>2 DEF PositionDecodes
        <4>2. first > 0 /\ first - 1 = dec.last
          BY <4>1
        <4>. QED BY <1>2, <3>1, <4>1, <4>2
      <3>3. CASE seek
        <4>1. first = PreviousSync(track, i)
          BY <3>1, <3>3
        <4>2. first \in track.starts \/ \A s \in 0 .. i : ~Decodable(track, s)
          BY <4>1, PreviousSyncMisses
        <4>3. \A s \in 0 .. first : s \in 0 .. i
          BY <1>0, <1>2, <3>1
        <4>. QED BY <1>2, <3>1, <4>2, <4>3
      <3>. QED BY <3>2, <3>3
    <2>2. CASE passed # {}
      <3>1. Max(passed) \in passed /\ \A s \in passed : s <= Max(passed)
        BY <1>3, <2>2, MaxOfSamples
      <3>2. Max(passed) \in from .. i - 1 /\ Decodable(track, Max(passed))
        BY <3>1, <1>0, <1>2 DEF Pictures
      <3>3. first = Max(passed) + 1
        BY <2>2
      <3>. HIDE DEF passed, from, first
      <3>4. first \in Samples /\ first <= i /\ \A s \in first .. i - 1 : ~Decodable(track, s)
        BY <3>1, <3>2, <3>3, <1>0, <1>2, <1>3
      <3>5. first > 0 /\ first - 1 = Max(passed)
        BY <3>2, <3>3, <1>0, <1>2
      <3>. QED BY <3>2, <3>4, <3>5
    <2>. QED BY <2>1, <2>2
  <1>5. Max({from, i}) = i
    BY <1>0, <1>2 DEF Max
  <1>6. coming \in SUBSET Samples /\ \A s \in Samples : s \in coming <=> s >= i /\ Decodable(track, s)
    <2>1. coming = {s \in i .. Count - 1 : Decodable(track, s)}
      BY <1>5 DEF Pictures
    <2>2. \A s : s \in i .. Count - 1 <=> s \in Samples /\ s >= i
      BY <1>0
    <2>. HIDE DEF coming
    <2>. QED BY <2>1, <2>2
  <1>7. lost \in Decoders /\ lost.runs = dec.runs /\ lost.last = None /\ RunStarts(lost, track)
    BY DEF Decoders, RunStarts
  <1>8. out = IF KnownRun(dec, i) # None THEN [dec |-> dec, got |-> "timing"]
              ELSE IF coming = {} THEN [dec |-> lost, got |-> "decoder"]
              ELSE IF i \notin coming THEN [dec |-> NoteRun(lost, track, first, Min(coming)), got |-> "timing"]
              ELSE IF damaged /\ dec.hw THEN [dec |-> lost, got |-> "decoder"]
              ELSE [dec |-> [dec EXCEPT !.last = i, !.damaged = damaged], got |-> "picture"]
    BY DEF Decode
  <1>9. CASE KnownRun(dec, i) # None
    <2>1. out = [dec |-> dec, got |-> "timing"]
      BY <1>8, <1>9
    <2>. HIDE DEF out
    <2>. QED BY <1>9, <2>1 DEF out
  <1>10. CASE coming = {} \/ (i \in coming /\ damaged /\ dec.hw)
    <2>1. \/ out = [dec |-> dec, got |-> "timing"] /\ KnownRun(dec, i) # None
          \/ out = [dec |-> lost, got |-> "decoder"]
      <3>. HIDE DEF damaged, coming
      <3>. QED BY <1>8, <1>10
    <2>. HIDE DEF damaged, from, passed, first, coming, lost
    <2>. QED BY <1>7, <2>1 DEF PositionDecodes
  <1>11. CASE i \in coming /\ ~(damaged /\ dec.hw)
    <2>. DEFINE new == [dec EXCEPT !.last = i, !.damaged = damaged]
    <2>1. Decodable(track, i) /\ damaged \in BOOLEAN
      BY <1>6, <1>11 DEF Damaged, Decoders
    <2>2. new.last = i /\ new.runs = dec.runs
      <3>. HIDE DEF damaged
      <3>. QED BY DEF Decoders
    <2>3. RunStarts(new, track) /\ PositionDecodes(new, track)
      <3>. HIDE DEF new
      <3>. QED BY <2>1, <2>2 DEF RunStarts, PositionDecodes
    <2>4. \/ out = [dec |-> dec, got |-> "timing"] /\ KnownRun(dec, i) # None
          \/ out = [dec |-> new, got |-> "picture"]
      <3>. HIDE DEF damaged, coming
      <3>. QED BY <1>8, <1>11
    <2>. HIDE DEF new, damaged, from, passed, first, coming, lost
    <2>. QED BY <2>2, <2>3, <2>4
  <1>12. CASE KnownRun(dec, i) = None /\ coming # {} /\ i \notin coming
    <2>. HIDE DEF first, coming, lost
    <2>1. Min(coming) \in coming /\ \A s \in coming : Min(coming) <= s
      BY <1>0, <1>6, <1>12, MinIs
    <2>2. PICK end \in Samples : end = Min(coming)
      BY <1>6, <2>1
    <2>3. end \in Nat /\ i \in Nat /\ end >= i /\ Decodable(track, end)
      BY <1>0, <1>6, <2>1, <2>2
    <2>4. end # i /\ i < end
      BY <1>12, <2>1, <2>2, <2>3
    <2>5. ~Decodable(track, end - 1)
      <3>1. end - 1 \in Samples /\ end - 1 >= i /\ end - 1 < end
        BY <1>0, <2>2, <2>3, <2>4
      <3>2. end - 1 \notin coming
        BY <2>1, <2>2, <2>3, <3>1
      <3>. QED BY <1>6, <3>1, <3>2
    <2>6. end \in track.starts
      BY <2>3, <2>5, RecoversAtStart
    <2>7. first \notin track.starts
      <3>1. ~Decodable(track, first)
        <4>1. ~Decodable(track, i)
          BY <1>0, <1>6, <1>12
        <4>2. first = i \/ first \in first .. i - 1
          BY <1>0, <1>4
        <4>. QED BY <1>4, <4>1, <4>2
      <3>. QED BY <3>1, StartsDecode
    <2>8. PICK new : new = NoteRun(lost, track, first, end)
      OBVIOUS
    <2>9. /\ RunStarts(new, track) /\ new.last = lost.last
          /\ new.runs = lost.runs \/ Len(new.runs) = Len(lost.runs) + 1
          /\ new.runs = lost.runs => KnownRun(lost, i) # None
      BY <1>4, <1>7, <2>4, <2>6, <2>7, <2>8, NoteRunTeaches
    <2>10. KnownRun(lost, i) = KnownRun(dec, i)
      BY <1>7, KnownRunOfRuns
    <2>11. out = [dec |-> new, got |-> "timing"]
      BY <1>8, <1>12, <2>2, <2>8
    <2>. HIDE DEF out
    <2>. QED BY <1>7, <1>12, <2>9, <2>10, <2>11 DEF PositionDecodes, out
  <1>. QED BY <1>9, <1>10, <1>11, <1>12

LEMMA BrokenTeaches ==
  ASSUME NEW dec \in Decoders, NEW track \in Tracks, RunStarts(dec, track)
  PROVE  LET out == Broken(dec)
         IN  RunStarts(out.dec, track) /\ PositionDecodes(out.dec, track) /\ out.dec.runs = dec.runs /\ out.got = "decoder"
  BY DEF Broken, Decoders, RunStarts, PositionDecodes

-----------------------------------------------------------------------------
(* TeachInv is inductive. *)

LEMMA RunsGrow ==
  ASSUME NEW rd \in Readers, NEW new \in Readers,
         \A l \in Lenses : \/ new.dec[l].runs = rd.dec[l].runs
                           \/ Len(new.dec[l].runs) = Len(rd.dec[l].runs) + 1
  PROVE  /\ RunsKnown(rd) <= RunsKnown(new)
         /\ RunsKnown(rd) = RunsKnown(new) => \A l \in Lenses : new.dec[l].runs = rd.dec[l].runs
  <1>1. rd.dec[0].runs \in Seq(Runs) /\ rd.dec[1].runs \in Seq(Runs)
    BY DEF Readers, Decoders, Lenses
  <1>2. PICK a \in Nat, b \in Nat : a = Len(rd.dec[0].runs) /\ b = Len(rd.dec[1].runs)
    BY <1>1
  <1>3. /\ new.dec[0].runs = rd.dec[0].runs \/ Len(new.dec[0].runs) = a + 1
        /\ new.dec[1].runs = rd.dec[1].runs \/ Len(new.dec[1].runs) = b + 1
    BY <1>2 DEF Lenses
  <1>4. RunsKnown(rd) = a + b /\ RunsKnown(new) = Len(new.dec[0].runs) + Len(new.dec[1].runs)
    BY <1>2 DEF RunsKnown
  <1>5. PICK c, d : c = Len(new.dec[0].runs) /\ d = Len(new.dec[1].runs)
    OBVIOUS
  <1>6. (c = a \/ c = a + 1) /\ (d = b \/ d = b + 1)
    BY <1>2, <1>3, <1>5
  <1>7. a + b <= c + d /\ (a + b = c + d => c = a /\ d = b)
    BY <1>6
  <1>8. (c = a => new.dec[0].runs = rd.dec[0].runs) /\ (d = b => new.dec[1].runs = rd.dec[1].runs)
    <2>1. a # a + 1 /\ b # b + 1
      OBVIOUS
    <2>. QED BY <1>3, <1>5, <2>1
  <1>. QED BY <1>4, <1>5, <1>7, <1>8 DEF Lenses

\* No answer of holdFor() means that no lens knows of a run.
LEMMA NoHoldNoRun ==
  ASSUME NEW rd \in Readers, Mapped(rd), ReaderSound(rd), NEW asked \in Samples, HoldFor(rd, asked) = None
  PROVE  \A l \in Lenses : KnownRun(rd.dec[l], asked) = None
  <1>0. NoneBetter(rd, asked, asked)
    BY AskedIsAsGood
  <1>1. PICK one \in Samples : one = Earlier(rd, asked) /\ NoneBetter(rd, asked, one)
    BY <1>0, EarlierIsAsGood
  <1>2. PICK two \in Samples : two = Earlier(rd, one) /\ NoneBetter(rd, asked, two)
    BY <1>1, EarlierIsAsGood
  <1>3. PICK three \in Samples : three = Earlier(rd, two) /\ NoneBetter(rd, asked, three)
    BY <1>2, EarlierIsAsGood
  <1>4. PICK four \in Samples : four = Earlier(rd, three) /\ NoneBetter(rd, asked, four)
    BY <1>3, EarlierIsAsGood
  <1>5. four # None
    BY <1>4, NoneIsNoRun
  <1>. QED BY <1>1, <1>2, <1>3, <1>4, <1>5 DEF HoldFor

\* A step after which no request is under way or has just been refused.
LEMMA TeachesElsewhere ==
  ASSUME LensInv', \A rd \in Held' : ReaderLearns(rd),
         request'.at # "decode",
         request'.at = "idle" /\ reader' # None => request'.answer.got # "timing"
  PROVE  TeachInv'
  BY DEF TeachInv, RequestLearns, RefusalTeaches, Answered, At

LEMMA TeachInit == ASSUME Init PROVE TeachInv
  <1>3. request = Idle /\ reader = None /\ parked = {}
    BY DEF Init
  <1>4. Held = {} /\ ~At("decode") /\ ~Answered("timing")
    BY <1>3, IdleIs DEF Held, At, Answered
  <1>. QED BY <1>4, InvInit DEF TeachInv, RequestLearns, RefusalTeaches

LEMMA TeachEnsure ==
  ASSUME TeachInv, LensInv', NEW req, Ensure(req), UNCHANGED <<disk, parked>>,
         reader' = None \/ (reader' = reader /\ At("idle")), req \in Requests
  PROVE  TeachInv'
  <1>1. request'.at = IF reader' # None THEN "look" ELSE "take"
    BY DEF Ensure, Requests
  <1>2. Held' \subseteq Held
    BY <1>1 DEF Held, At
  <1>. QED BY <1>1, <1>2, TeachesElsewhere DEF TeachInv

LEMMA TeachAsk == ASSUME TeachInv, LensInv', NEW i \in Samples, Ask(i) PROVE TeachInv'
  <1>1. [Idle EXCEPT !.asked = i] \in Requests
    BY IdleIs DEF Requests
  <1>2. Ensure([Idle EXCEPT !.asked = i]) /\ UNCHANGED <<disk, parked, hwFailed, reader, failures>> /\ At("idle")
    BY DEF Ask
  <1>. QED BY <1>1, <1>2, TeachEnsure

LEMMA TeachFallBack == ASSUME TeachInv, LensInv', FallBack PROVE TeachInv'
  <1>1. reader' = None /\ Ensure([request EXCEPT !.again = TRUE]) /\ UNCHANGED <<disk, parked, failures>>
    BY DEF FallBack
  <1>2. [request EXCEPT !.again = TRUE] \in Requests
    BY DEF TeachInv, LensInv, LensTypeOK, Requests
  <1>. QED BY <1>1, <1>2, TeachEnsure

LEMMA TeachTake == ASSUME TeachInv, LensInv', Take PROVE TeachInv'
  <1>1. /\ reader' \in parked /\ parked' \subseteq parked /\ disk' = disk
        /\ request' = [request EXCEPT !.at = "look"]
    BY DEF Take, Go, Warm
  <1>2. request'.at = "look"
    BY <1>1 DEF TeachInv, LensInv, LensTypeOK, Requests
  <1>3. Held' \subseteq Held
    BY <1>1, <1>2 DEF Held, At
  <1>. QED BY <1>1, <1>2, <1>3, TeachesElsewhere DEF TeachInv

LEMMA TeachOpen == ASSUME TeachInv, LensInv', Open PROVE TeachInv'
  <1>1. /\ reader' = NewReader(request.backend) /\ request' = [request EXCEPT !.at = "open"]
        /\ UNCHANGED <<disk, parked>>
    BY DEF Open, Go
  <1>2. request'.at = "open"
    BY <1>1 DEF TeachInv, LensInv, LensTypeOK, Requests
  <1>3. /\ reader'.held = None /\ \A l \in Lenses : reader'.bytes[l] = None
        /\ \A l \in Lenses : reader'.dec[l].runs = <<>> /\ reader'.dec[l].last = None
    BY <1>1 DEF NewReader, NewDecoder
  <1>4. ReaderLearns(reader')
    BY <1>3 DEF ReaderLearns, RunStarts, PositionDecodes
  <1>5. Held' \subseteq Held \cup {reader'}
    BY <1>1, <1>2 DEF Held, At
  <1>. QED BY <1>1, <1>2, <1>4, <1>5, TeachesElsewhere DEF TeachInv

LEMMA TeachMapLens == ASSUME TeachInv, LensInv', NEW l \in Lenses, MapLens(l) PROVE TeachInv'
  <1>1. reader' = [reader EXCEPT !.bytes[l] = disk] /\ At("open") /\ UNCHANGED <<disk, parked, request>>
    BY DEF MapLens
  <1>2. reader \in Readers /\ reader \in Held /\ Unused(reader)
    BY <1>1 DEF TeachInv, LensInv, LensTypeOK, InPlace, Held, At
  <1>3. /\ reader'.dec = reader.dec /\ reader'.held = reader.held
        /\ \A m \in Lenses : reader'.bytes[m] = IF m = l THEN disk ELSE reader.bytes[m]
    BY <1>1, <1>2 DEF Readers
  <1>4. \A m \in Lenses : RunStarts(reader'.dec[m], Track(reader', m)) /\ PositionDecodes(reader'.dec[m], Track(reader', m))
    BY <1>2, <1>3 DEF Unused, RunStarts, PositionDecodes
  <1>6. reader'.held = None
    BY <1>2, <1>3 DEF Unused
  <1>7. ReaderLearns(reader')
    BY <1>4, <1>6 DEF ReaderLearns
  <1>8. Held' \subseteq Held \cup {reader'}
    BY <1>1 DEF Held, At
  <1>. QED BY <1>1, <1>7, <1>8, TeachesElsewhere DEF TeachInv, At

LEMMA TeachOpened == ASSUME TeachInv, LensInv', Opened PROVE TeachInv'
  <1>1. /\ request' = [request EXCEPT !.at = "look"] /\ At("open") /\ UNCHANGED <<disk, parked, reader>>
    BY DEF Opened, Go
  <1>2. request'.at = "look"
    BY <1>1 DEF TeachInv, LensInv, LensTypeOK, Requests
  <1>3. Held' \subseteq Held
    BY <1>1, <1>2 DEF Held, At
  <1>. QED BY <1>1, <1>2, <1>3, TeachesElsewhere DEF TeachInv

LEMMA TeachOpenFails == ASSUME TeachInv, LensInv', OpenFails PROVE TeachInv'
  <1>1. /\ reader' = None /\ UNCHANGED <<disk, parked>>
        /\ \/ request' = [request EXCEPT !.at = "take", !.backend = "software"]
           \/ request' = [request EXCEPT !.at = "idle", !.answer = Failure("unopened")]
    BY DEF OpenFails, Answer
  <1>2. request'.at \in {"take", "idle"}
    BY <1>1 DEF TeachInv, LensInv, LensTypeOK, Requests
  <1>3. Held' \subseteq Held
    BY <1>1, <1>2 DEF Held, At
  <1>. QED BY <1>1, <1>2, <1>3, TeachesElsewhere DEF TeachInv

LEMMA TeachQuiet == ASSUME TeachInv, LensInv', Quiet PROVE TeachInv'
  <1>1. At("idle") /\ reader # None /\ reader' = None /\ parked' \subseteq parked \cup {reader} /\ UNCHANGED <<disk, request>>
    BY DEF Quiet
  <1>2. Held' \subseteq Held
    BY <1>1 DEF Held, At
  <1>. QED BY <1>1, <1>2, TeachesElsewhere DEF TeachInv, At

LEMMA TeachReopen == ASSUME TeachInv, LensInv', Reopen PROVE TeachInv'
  <1>1. At("idle") /\ reader = None /\ UNCHANGED <<disk, parked, reader, request>>
    BY DEF Reopen
  <1>2. Held' \subseteq Held
    BY <1>1 DEF Held, At
  <1>. QED BY <1>1, <1>2, TeachesElsewhere DEF TeachInv, At

\* A step of the pool or of the file, beside a request or between two.
LEMMA TeachesBeside ==
  ASSUME TeachInv, LensInv', parked' \subseteq parked, UNCHANGED <<reader, request>>
  PROVE  TeachInv'
  <1>1. Held' \subseteq Held
    BY DEF Held, At
  <1>2. RequestLearns' /\ RefusalTeaches'
    BY DEF TeachInv, RequestLearns, RefusalTeaches, Answered, At
  <1>. QED BY <1>1, <1>2 DEF TeachInv

LEMMA TeachRelease == ASSUME TeachInv, LensInv', Release PROVE TeachInv'
  <1>1. parked' \subseteq parked /\ UNCHANGED <<disk, reader, request>>
    BY DEF Release
  <1>. QED BY <1>1, TeachesBeside DEF TeachInv

LEMMA TeachRewrite == ASSUME TeachInv, LensInv', Rewrite PROVE TeachInv'
  <1>1. UNCHANGED <<parked, reader, request>>
    BY DEF Rewrite
  <1>. QED BY <1>1, TeachesBeside

LEMMA TeachLook == ASSUME TeachInv, LensInv', Look PROVE TeachInv'
  <1>. DEFINE hold == HoldFor(reader, request.asked)
              wanted == IF hold # None THEN hold ELSE request.asked
              kept == [reader EXCEPT !.held = IF hold # None THEN @ ELSE None]
  <1>1. /\ At("look") /\ UNCHANGED <<disk, parked, hwFailed, failures>>
        /\ \/ Kept(reader, wanted) /\ request' = [request EXCEPT !.at = "idle", !.answer = reader.held] /\ reader' = reader
           \/ /\ reader' = kept
              /\ request' = [request EXCEPT !.at = "decode", !.target = wanted, !.held = hold # None,
                                            !.got = Idle.got, !.runs = RunsKnown(reader)]
    BY DEF Look, Answer
  <1>2. reader \in Readers /\ request \in Requests /\ reader \in Held /\ ReaderLearns(reader)
    BY <1>1 DEF TeachInv, LensInv, LensTypeOK, InPlace, At, Held
  <1>. HIDE DEF hold, wanted
  <1>3. CASE Kept(reader, wanted) /\ request' = [request EXCEPT !.at = "idle", !.answer = reader.held] /\ reader' = reader
    <2>1. request'.at = "idle" /\ request'.answer.got = "picture"
      BY <1>2, <1>3 DEF Requests, Kept, ReaderLearns
    <2>2. Held' \subseteq Held
      BY <1>1, <1>3, <2>1 DEF Held, At
    <2>. QED BY <1>1, <2>1, <2>2, TeachesElsewhere DEF TeachInv
  <1>4. CASE /\ reader' = kept
             /\ request' = [request EXCEPT !.at = "decode", !.target = wanted, !.held = hold # None,
                                           !.got = Idle.got, !.runs = RunsKnown(reader)]
    <2>1. /\ reader'.bytes = reader.bytes /\ reader'.dec = reader.dec
          /\ reader'.held = reader.held \/ reader'.held = None
      BY <1>2, <1>4 DEF Readers
    <2>2. ReaderLearns(reader')
      BY <1>2, <2>1 DEF ReaderLearns, Track
    <2>3. PICK runs \in Nat : runs = RunsKnown(reader) /\ runs = RunsKnown(reader')
      BY <1>2, <2>1, RunsKnownIs DEF RunsKnown
    <2>4. /\ request'.at = "decode" /\ request'.asked = request.asked /\ request'.target = wanted
          /\ request'.held = (hold # None) /\ request'.runs = runs
          /\ \A l \in Lenses : request'.got[l] = None
      BY <1>2, <1>4, <2>3 DEF Requests, Idle
    <2>5. Held' \subseteq Held \cup {reader'}
      BY <1>1, <2>4 DEF Held, At
    <2>6. HoldFor(reader', request.asked) = hold
      BY <2>1, HoldForOfRuns DEF hold
    <2>7. RequestLearns'
      <3>1. request'.runs <= RunsKnown(reader')
        BY <2>3, <2>4
      <3>2. ~request'.held => request'.target = request'.asked
        BY <2>4 DEF wanted
      <3>3. HoldFor(reader', request'.asked) = IF request'.held THEN request'.target ELSE None
        BY <2>4, <2>6 DEF wanted
      <3>4. \A l \in Lenses : request'.got[l] # "timing"
        BY <2>4, NoneIsNoRun DEF Results
      <3>. QED BY <3>1, <3>2, <3>3, <3>4 DEF RequestLearns
    <2>8. RefusalTeaches'
      BY <2>4 DEF RefusalTeaches, Answered, At
    <2>. QED BY <1>1, <2>2, <2>5, <2>7, <2>8 DEF TeachInv
  <1>. QED BY <1>1, <1>3, <1>4

LEMMA TeachDecodeLens == ASSUME TeachInv, LensInv', NEW l \in Lenses, DecodeLens(l) PROVE TeachInv'
  <1>1. At("decode") /\ request.got[l] = None /\ UNCHANGED <<disk, parked>>
    BY DEF DecodeLens
  <1>2. /\ reader \in Readers /\ Mapped(reader) /\ request \in Requests /\ reader \in Held
        /\ request.target \in Samples /\ ReaderLearns(reader)
    BY <1>1 DEF TeachInv, LensInv, LensTypeOK, InPlace, At, Held
  <1>. DEFINE dec == reader.dec[l]
              track == Track(reader, l)
  <1>3. dec \in Decoders /\ track \in Tracks /\ RunStarts(dec, track) /\ PositionDecodes(dec, track)
    BY <1>2, TrackIs DEF Readers, ReaderLearns
  <1>4. PICK result \in Outcomes(dec, track, request.target) :
           /\ reader' = [reader EXCEPT !.dec[l] = [result.dec EXCEPT !.fresh = FALSE]]
           /\ request' = [request EXCEPT !.got[l] = result.got]
    BY DEF DecodeLens
  <1>5. result = Decode(dec, track, request.target) \/ result = Broken(dec)
    BY <1>4 DEF Outcomes
  <1>6. /\ RunStarts(result.dec, track) /\ PositionDecodes(result.dec, track)
        /\ result.dec.runs = dec.runs \/ Len(result.dec.runs) = Len(dec.runs) + 1
        /\ result.got = "timing" /\ result.dec.runs = dec.runs => KnownRun(dec, request.target) # None
    <2>. HIDE DEF dec, track
    <2>1. CASE result = Decode(dec, track, request.target)
      BY <1>2, <1>3, <2>1, DecodeTeaches
    <2>2. CASE result = Broken(dec)
      BY <1>3, <2>2, BrokenTeaches
    <2>. QED BY <1>5, <2>1, <2>2
  <1>7. PICK new : new = [result.dec EXCEPT !.fresh = FALSE]
    OBVIOUS
  <1>8. result.dec \in Decoders
    <2>. HIDE DEF dec, track
    <2>1. RunsSound(dec, track) /\ PositionSound(dec, track)
      BY <1>2 DEF TeachInv, LensInv, ReaderSound, dec, track
    <2>2. CASE result = Decode(dec, track, request.target)
      BY <1>2, <1>3, <2>1, <2>2, DecodeSound
    <2>3. CASE result = Broken(dec)
      BY <1>3, <2>1, <2>3, BrokenSound
    <2>. QED BY <1>5, <2>2, <2>3
  <1>9. new.runs = result.dec.runs /\ new.last = result.dec.last
    BY <1>7, <1>8 DEF Decoders
  <1>10. RunStarts(new, track) /\ PositionDecodes(new, track)
    <2>. HIDE DEF dec, track
    <2>. QED BY <1>6, <1>9 DEF RunStarts, PositionDecodes
  <1>11. /\ reader'.bytes = reader.bytes /\ reader'.held = reader.held
         /\ \A m \in Lenses : reader'.dec[m] = IF m = l THEN new ELSE reader.dec[m]
    BY <1>2, <1>4, <1>7 DEF Readers
  <1>12. /\ request'.at = "decode" /\ request'.asked = request.asked /\ request'.target = request.target
         /\ request'.held = request.held /\ request'.runs = request.runs
         /\ \A m \in Lenses : request'.got[m] = IF m = l THEN result.got ELSE request.got[m]
    BY <1>1, <1>2, <1>4 DEF Requests, At
  <1>13. \A m \in Lenses : Track(reader', m) = Track(reader, m)
    BY <1>11 DEF Track
  <1>14. ReaderLearns(reader')
    <2>1. \A m \in Lenses : /\ RunStarts(reader'.dec[m], Track(reader', m))
                            /\ PositionDecodes(reader'.dec[m], Track(reader', m))
      BY <1>2, <1>10, <1>11, <1>13 DEF ReaderLearns
    <2>. QED BY <1>2, <1>11, <2>1 DEF ReaderLearns
  <1>15. Held' \subseteq Held \cup {reader'}
    BY <1>1, <1>12 DEF Held, At
  <1>16. reader' \in Readers
    BY <1>12 DEF LensInv, LensTypeOK, InPlace, At
  <1>17. /\ RunsKnown(reader) <= RunsKnown(reader')
         /\ RunsKnown(reader) = RunsKnown(reader') => \A m \in Lenses : reader'.dec[m].runs = reader.dec[m].runs
    <2>1. \A m \in Lenses : \/ reader'.dec[m].runs = reader.dec[m].runs
                            \/ Len(reader'.dec[m].runs) = Len(reader.dec[m].runs) + 1
      BY <1>6, <1>9, <1>11
    <2>. QED BY <1>2, <1>16, <2>1, RunsGrow
  <1>18. /\ RunsKnown(reader) \in Nat /\ RunsKnown(reader') \in Nat
         /\ request.runs \in Nat /\ request.runs <= RunsKnown(reader)
    BY <1>1, <1>2, <1>16, RunsKnownIs DEF TeachInv, RequestLearns, Requests
  <1>19. request'.runs <= RunsKnown(reader')
    BY <1>12, <1>17, <1>18
  <1>20. ASSUME RunsKnown(reader') = request'.runs
         PROVE  /\ HoldFor(reader', request'.asked) = IF request'.held THEN request'.target ELSE None
                /\ \A m \in Lenses : request'.got[m] = "timing" => KnownRun(reader'.dec[m], request'.target) # None
    <2>1. RunsKnown(reader) = request.runs /\ RunsKnown(reader) = RunsKnown(reader')
      BY <1>12, <1>17, <1>18, <1>20
    <2>2. \A m \in Lenses : reader'.dec[m].runs = reader.dec[m].runs
      BY <1>17, <2>1
    <2>3. HoldFor(reader', request.asked) = HoldFor(reader, request.asked)
      BY <2>2, HoldForOfRuns
    <2>4. \A m \in Lenses : KnownRun(reader'.dec[m], request.target) = KnownRun(reader.dec[m], request.target)
      BY <2>2, KnownRunOfRuns
    <2>5. /\ HoldFor(reader, request.asked) = IF request.held THEN request.target ELSE None
          /\ \A m \in Lenses : request.got[m] = "timing" => KnownRun(reader.dec[m], request.target) # None
      BY <1>1, <2>1 DEF TeachInv, RequestLearns
    <2>6. result.got = "timing" => KnownRun(reader.dec[l], request.target) # None
      BY <1>6, <1>9, <1>11, <2>2
    <2>. QED BY <1>12, <2>3, <2>4, <2>5, <2>6
  <1>21. ~request'.held => request'.target = request'.asked
    BY <1>1, <1>12 DEF TeachInv, RequestLearns
  <1>22. RequestLearns'
    BY <1>19, <1>20, <1>21 DEF RequestLearns
  <1>23. RefusalTeaches'
    BY <1>12 DEF RefusalTeaches, Answered, At
  <1>. QED BY <1>1, <1>14, <1>15, <1>22, <1>23 DEF TeachInv

LEMMA TeachDropToSoftware == ASSUME TeachInv, LensInv', NEW l \in Lenses, DropToSoftware(l) PROVE TeachInv'
  <1>1. At("decode") /\ reader' = [reader EXCEPT !.dec[l].hw = FALSE] /\ UNCHANGED <<disk, parked, request>>
    BY DEF DropToSoftware
  <1>2. reader \in Readers /\ reader \in Held /\ ReaderLearns(reader)
    BY <1>1 DEF TeachInv, LensInv, LensTypeOK, InPlace, At, Held
  <1>3. /\ reader'.bytes = reader.bytes /\ reader'.held = reader.held
        /\ \A m \in Lenses : reader'.dec[m].runs = reader.dec[m].runs /\ reader'.dec[m].last = reader.dec[m].last
    BY <1>1, <1>2 DEF Readers, Decoders
  <1>4. \A m \in Lenses : Track(reader', m) = Track(reader, m)
    BY <1>3 DEF Track
  <1>5. ReaderLearns(reader')
    <2>1. \A m \in Lenses : /\ RunStarts(reader'.dec[m], Track(reader', m))
                            /\ PositionDecodes(reader'.dec[m], Track(reader', m))
      BY <1>2, <1>3, <1>4 DEF ReaderLearns, RunStarts, PositionDecodes
    <2>. QED BY <1>2, <1>3, <2>1 DEF ReaderLearns
  <1>6. RunsKnown(reader') = RunsKnown(reader)
    BY <1>3 DEF RunsKnown, Lenses
  <1>7. HoldFor(reader', request.asked) = HoldFor(reader, request.asked)
    BY <1>3, HoldForOfRuns
  <1>8. \A m \in Lenses : KnownRun(reader'.dec[m], request.target) = KnownRun(reader.dec[m], request.target)
    BY <1>3, KnownRunOfRuns
  <1>9. RequestLearns'
    BY <1>1, <1>6, <1>7, <1>8 DEF TeachInv, RequestLearns, At
  <1>10. RefusalTeaches'
    BY <1>1 DEF RefusalTeaches, Answered, At
  <1>11. Held' \subseteq Held \cup {reader'}
    BY <1>1 DEF Held, At
  <1>. QED BY <1>1, <1>5, <1>9, <1>10, <1>11 DEF TeachInv

LEMMA TeachDeliver == ASSUME TeachInv, LensInv', Deliver PROVE TeachInv'
  <1>. DEFINE pair == Pair(request.target)
  <1>1. /\ At("decode") /\ reader' = [reader EXCEPT !.held = IF request.held THEN pair ELSE @]
        /\ request' = [request EXCEPT !.at = "idle", !.answer = pair] /\ UNCHANGED <<disk, parked>>
    BY DEF Deliver, Answer, Joined
  <1>2. reader \in Readers /\ request \in Requests /\ reader \in Held /\ ReaderLearns(reader)
    BY <1>1 DEF TeachInv, LensInv, LensTypeOK, InPlace, At, Held
  <1>3. pair.got = "picture"
    BY DEF Pair
  <1>. HIDE DEF pair
  <1>4. /\ reader'.bytes = reader.bytes /\ reader'.dec = reader.dec
        /\ reader'.held = reader.held \/ reader'.held = pair
    BY <1>1, <1>2 DEF Readers
  <1>5. ReaderLearns(reader')
    BY <1>2, <1>3, <1>4 DEF ReaderLearns, Track
  <1>6. request'.at = "idle" /\ request'.answer.got = "picture"
    BY <1>1, <1>2, <1>3 DEF Requests
  <1>7. Held' \subseteq Held \cup {reader'}
    BY <1>1, <1>6 DEF Held, At
  <1>. QED BY <1>1, <1>5, <1>6, <1>7, TeachesElsewhere DEF TeachInv

\* The reader has met a run since the request: before, holdFor() had no answer.
LEMMA TeachHold == ASSUME TeachInv, LensInv', Hold PROVE TeachInv'
  <1>. DEFINE hold == HoldFor(reader, request.asked)
  <1>1. /\ At("decode") /\ hold # None /\ ~request.held
        /\ request' = [request EXCEPT !.target = hold, !.held = TRUE, !.got = Idle.got]
        /\ UNCHANGED <<disk, parked, reader>>
    BY DEF Hold, Joined
  <1>2. request \in Requests
    BY DEF TeachInv, LensInv, LensTypeOK
  <1>3. request.runs <= RunsKnown(reader) /\ RunsKnown(reader) # request.runs
    BY <1>1 DEF TeachInv, RequestLearns
  <1>4. request'.at = "decode" /\ request'.held = TRUE /\ request'.runs = request.runs
    BY <1>1, <1>2 DEF Requests, At
  <1>5. RequestLearns' /\ RefusalTeaches'
    BY <1>1, <1>3, <1>4 DEF RequestLearns, RefusalTeaches, Answered, At
  <1>6. Held' \subseteq Held
    BY <1>1, <1>4 DEF Held, At
  <1>. QED BY <1>1, <1>5, <1>6 DEF TeachInv

\* Nothing met since the request: the run that refuses this frame was known then,
\* and holdFor() answered with a frame of no run.
LEMMA TeachRefuse == ASSUME TeachInv, LensInv', Refuse PROVE TeachInv'
  <1>1. /\ At("decode") /\ Error # "picture"
        /\ request.held \/ HoldFor(reader, request.asked) = None
        /\ request' = [request EXCEPT !.at = "idle", !.answer = Failure(Error)]
        /\ UNCHANGED <<disk, parked, reader>>
    BY DEF Refuse, ReadFails, Joined, Answer
  <1>2. /\ reader \in Readers /\ Mapped(reader) /\ request \in Requests /\ request.asked \in Samples
        /\ request.target \in Samples /\ reader \in Held
    BY <1>1 DEF TeachInv, LensInv, LensTypeOK, InPlace, At, Held
  <1>3. ReaderLearns(reader) /\ ReaderSound(reader)
    BY <1>2 DEF TeachInv, LensInv
  <1>4. Failure(Error).got = Error
    BY DEF Failure, Idle
  <1>5. /\ request'.at = "idle" /\ request'.answer.got = Error /\ request'.asked = request.asked
        /\ request'.runs = request.runs
    BY <1>1, <1>2, <1>4 DEF Requests
  <1>6. ASSUME Error = "timing", NEW s \in Shared(reader), s <= request.asked,
               ~ChainsDeeper(reader, request.asked)
        PROVE  RunsKnown(reader) > request.runs
    <2>1. PICK l \in Lenses : request.got[l] = "timing"
      BY <1>6 DEF Error, Lenses
    <2>2. RunsKnown(reader) \in Nat /\ request.runs \in Nat /\ request.runs <= RunsKnown(reader)
      BY <1>1, <1>2, RunsKnownIs DEF TeachInv, RequestLearns, Requests
    <2>3. RunsKnown(reader) # request.runs
      <3>. SUFFICES ASSUME RunsKnown(reader) = request.runs PROVE FALSE
        OBVIOUS
      <3>1. /\ HoldFor(reader, request.asked) = IF request.held THEN request.target ELSE None
            /\ KnownRun(reader.dec[l], request.target) # None
            /\ ~request.held => request.target = request.asked
        BY <1>1, <2>1 DEF TeachInv, RequestLearns
      <3>2. CASE request.held
        <4>1. HoldFor(reader, request.asked) = request.target /\ request.target # None
          BY <1>2, <3>1, <3>2, NoneIsNoRun
        <4>. QED BY <1>2, <1>3, <1>6, <3>1, <4>1, HoldForEnds
      <3>3. CASE ~request.held
        BY <1>2, <1>3, <3>1, <3>3, NoHoldNoRun
      <3>. QED BY <3>2, <3>3
    <2>. QED BY <2>2, <2>3
  <1>7. RefusalTeaches'
    BY <1>1, <1>5, <1>6 DEF RefusalTeaches, Answered, At
  <1>8. RequestLearns'
    BY <1>5 DEF RequestLearns, At
  <1>9. Held' \subseteq Held
    BY <1>1, <1>5 DEF Held, At
  <1>. QED BY <1>1, <1>7, <1>8, <1>9 DEF TeachInv

LEMMA TeachStep == ASSUME TeachInv, [Next]_vars PROVE TeachInv'
  <1>1. LensInv'
    BY InvStep DEF TeachInv
  <1>2. ASSUME UNCHANGED vars PROVE TeachInv'
    BY <1>1, <1>2, TeachesBeside DEF vars, TeachInv
  <1>. QED BY <1>1, <1>2, TeachAsk, TeachTake, TeachOpen, TeachMapLens, TeachOpened, TeachOpenFails,
              TeachLook, TeachDecodeLens, TeachDropToSoftware, TeachDeliver, TeachHold, TeachRefuse,
              TeachFallBack, TeachQuiet, TeachReopen, TeachRelease, TeachRewrite DEF Next

\* Whatever the file, whatever fails and whichever requests came before: a frame
\* with one of both lenses at or before it is refused only by a request that met a
\* new run, unless four steps back over the losses of the file do not reach a
\* frame of both lenses.
THEOREM RefusalsTeach == Spec => []RefusalTeaches
  <1>1. Init => TeachInv
    BY TeachInit
  <1>2. TeachInv /\ [Next]_vars => TeachInv'
    BY TeachStep
  <1>3. TeachInv => RefusalTeaches
    BY DEF TeachInv
  <1>. QED BY <1>1, <1>2, <1>3, PTL DEF Spec
-----------------------------------------------------------------------------
(* SettingsRegistry: the table of instances, and what is published. *)

Distinct(s) == \A m, n \in DOMAIN s : s[m] = s[n] => m = n

LEMMA AppendedIs ==
  ASSUME NEW s \in Seq(Instances), Distinct(s), NEW e \in Instances, e \notin Range(s),
         NEW t, t = Append(s, e)
  PROVE  t \in Seq(Instances) /\ Distinct(t) /\ Range(t) = Range(s) \cup {e}
  <1>1. /\ Len(s) \in Nat /\ DOMAIN s = 1 .. Len(s) /\ DOMAIN t = 1 .. Len(s) + 1
        /\ \A n \in DOMAIN t : t[n] = IF n = Len(s) + 1 THEN e ELSE s[n]
    OBVIOUS
  <1>2. \A n \in DOMAIN s : s[n] # e
    BY DEF Range
  <1>3. Distinct(t)
    BY <1>1, <1>2 DEF Distinct
  <1>4. Range(t) = Range(s) \cup {e}
    <2>1. ASSUME NEW x \in Range(t) PROVE x \in Range(s) \cup {e}
      BY <1>1, <2>1 DEF Range
    <2>2. ASSUME NEW x \in Range(s) PROVE x \in Range(t)
      <3>1. PICK n \in DOMAIN s : x = s[n]
        BY <2>2 DEF Range
      <3>2. n \in DOMAIN t /\ t[n] = x
        BY <1>1, <3>1
      <3>. QED BY <3>2 DEF Range
    <2>3. e \in Range(t)
      <3>1. Len(s) + 1 \in DOMAIN t /\ t[Len(s) + 1] = e
        BY <1>1
      <3>. QED BY <3>1 DEF Range
    <2>. QED BY <2>1, <2>2, <2>3
  <1>. QED BY <1>3, <1>4

LEMMA RemovedIs ==
  ASSUME NEW s \in Seq(Instances), Distinct(s), NEW e, NEW t, t = RemoveFirst(s, e)
  PROVE  t \in Seq(Instances) /\ Distinct(t) /\ Range(t) = Range(s) \ {e}
  <1>. DEFINE at == {n \in 1 .. Len(s) : s[n] = e}
  <1>1. Len(s) \in Nat /\ DOMAIN s = 1 .. Len(s)
    OBVIOUS
  <1>2. CASE at = {}
    <2>1. t = s
      BY <1>2 DEF RemoveFirst
    <2>2. e \notin Range(s)
      BY <1>1, <1>2 DEF Range
    <2>. QED BY <2>1, <2>2
  <1>3. CASE at # {}
    <2>1. PICK k \in 1 .. Len(s) : k = Min(at) /\ s[k] = e
      <3>1. at \in SUBSET Nat
        OBVIOUS
      <3>2. Min(at) \in at
        <4>. HIDE DEF at
        <4>. QED BY <1>3, <3>1, MinIs
      <3>. QED BY <3>2
    <2>2. t = SubSeq(s, 1, k - 1) \o SubSeq(s, k + 1, Len(s))
      BY <1>3, <2>1 DEF RemoveFirst, RemoveAt, SelectInSeq
    <2>. HIDE DEF at
    <2>3. /\ t \in Seq(Instances) /\ DOMAIN t = 1 .. Len(s) - 1
          /\ \A n \in DOMAIN t : t[n] = IF n < k THEN s[n] ELSE s[n + 1]
      <3>. DEFINE low == SubSeq(s, 1, k - 1)
                  high == SubSeq(s, k + 1, Len(s))
      <3>1. low \in Seq(Instances) /\ Len(low) = k - 1 /\ \A n \in 1 .. k - 1 : low[n] = s[n]
        BY <1>1
      <3>2. high \in Seq(Instances) /\ Len(high) = Len(s) - k /\ \A n \in 1 .. Len(s) - k : high[n] = s[n + k]
        <4>1. high \in Seq(Instances) /\ Len(high) = Len(s) - k
          <5>1. k + 1 \in Int /\ Len(s) \in Int /\ \A n \in k + 1 .. Len(s) : s[n] \in Instances
            BY <1>1
          <5>2. /\ high \in Seq(Instances)
                /\ Len(high) = IF k + 1 <= Len(s) THEN Len(s) - (k + 1) + 1 ELSE 0
            BY <5>1, SubSeqProperties
          <5>3. PICK m \in Nat : m = Len(s) /\ k \in 1 .. m
            BY <1>1
          <5>. HIDE DEF high
          <5>4. CASE k + 1 <= m
            BY <5>2, <5>3, <5>4
          <5>5. CASE ~(k + 1 <= m)
            BY <5>2, <5>3, <5>5
          <5>. QED BY <5>4, <5>5
        <4>2. \A n \in 1 .. Len(s) - k : high[n] = s[(k + 1) + n - 1]
          BY <1>1
        <4>3. \A n \in 1 .. Len(s) - k : (k + 1) + n - 1 = n + k
          BY <1>1
        <4>. HIDE DEF high
        <4>. QED BY <4>1, <4>2, <4>3
      <3>3. t = low \o high
        BY <2>2
      <3>. HIDE DEF low, high
      <3>4. t \in Seq(Instances) /\ Len(t) = Len(s) - 1
        <4>1. t \in Seq(Instances) /\ Len(t) = Len(low) + Len(high)
          BY <3>1, <3>2, <3>3, ConcatProperties
        <4>. QED BY <1>1, <3>1, <3>2, <4>1
      <3>5. \A n \in 1 .. Len(s) - 1 : t[n] = IF n < k THEN low[n] ELSE high[n - k + 1]
        BY <1>1, <3>1, <3>2, <3>3
      <3>6. ASSUME NEW n \in 1 .. Len(s) - 1, ~(n < k) PROVE high[n - k + 1] = s[n + 1]
        <4>1. n - k + 1 \in 1 .. Len(s) - k /\ (n - k + 1) + k = n + 1
          BY <1>1, <3>6
        <4>2. \A m \in 1 .. Len(s) - k : high[m] = s[m + k]
          BY <3>2
        <4>3. PICK m \in 1 .. Len(s) - k : m = n - k + 1
          BY <4>1
        <4>. QED BY <4>1, <4>2, <4>3
      <3>7. DOMAIN t = 1 .. Len(s) - 1
        BY <3>4
      <3>8. ASSUME NEW n \in 1 .. Len(s) - 1 PROVE t[n] = IF n < k THEN s[n] ELSE s[n + 1]
        <4>1. CASE n < k
          <5>1. n \in 1 .. k - 1
            BY <1>1, <4>1
          <5>. QED BY <3>1, <3>5, <4>1, <5>1
        <4>2. CASE ~(n < k)
          BY <3>5, <3>6, <4>2
        <4>. QED BY <4>1, <4>2
      <3>. QED BY <3>4, <3>7, <3>8
    <2>4. Distinct(t)
      BY <1>1, <2>3 DEF Distinct
    <2>5. ASSUME NEW x \in Range(t) PROVE x \in Range(s) /\ x # e
      <3>1. PICK n \in DOMAIN t : x = t[n]
        BY <2>5 DEF Range
      <3>2. PICK m \in DOMAIN s : x = s[m] /\ m # k
        BY <1>1, <2>3, <3>1
      <3>. QED BY <1>1, <2>1, <3>2 DEF Distinct, Range
    <2>6. ASSUME NEW x \in Range(s), x # e PROVE x \in Range(t)
      <3>1. PICK m \in DOMAIN s : x = s[m]
        BY <2>6 DEF Range
      <3>2. m # k
        BY <2>1, <2>6, <3>1
      <3>3. \E n \in DOMAIN t : t[n] = x
        <4>1. CASE m < k
          BY <1>1, <2>3, <3>1, <4>1
        <4>2. CASE m > k
          <5>1. m - 1 \in DOMAIN t /\ t[m - 1] = x
            BY <1>1, <2>3, <3>1, <4>2
          <5>. QED BY <5>1
        <4>. QED BY <1>1, <3>2, <4>1, <4>2
      <3>. QED BY <3>3 DEF Range
    <2>. QED BY <2>3, <2>4, <2>5, <2>6
  <1>. QED BY <1>2, <1>3

\* The members of an instance, and what the calls do to them.
InstanceStates ==
    [prefs : Blobs, effect : BOOLEAN, token : Nat, told : BOOLEAN, owned : BOOLEAN,
     publishing : {"no", "defaults", "host"}]

LEMMA HostAppliesIs ==
  ASSUME NEW p \in InstanceStates, p.publishing = "no", NEW t \in Nat \ {0}, NEW block \in Blobs \cup {None},
         NEW q, q = HostApplies(p, t, block), p.told => p.token # 0
  PROVE  /\ q \in InstanceStates /\ q.effect = p.effect /\ q.owned = p.owned /\ q.told = p.told
         /\ q.prefs # p.prefs => ~p.effect /\ q.publishing = "host"
         /\ q.token = p.token \/ (p.token = 0 /\ q.token = t)
         /\ q = p \/ (q.publishing # "no" /\ q.token # 0)
  <1>1. ASSUME NEW kind \in {"defaults", "host"}, NEW r, r = Told(p, t, kind)
        PROVE  /\ r \in InstanceStates /\ r.prefs = p.prefs /\ r.effect = p.effect /\ r.told = p.told
               /\ r.owned = p.owned /\ r.publishing = kind /\ r.token = IF p.token = 0 THEN t ELSE p.token
    BY <1>1 DEF Told, InstanceStates
  <1>2. ASSUME NEW r \in InstanceStates, block # None
        PROVE  /\ [r EXCEPT !.prefs = block] \in InstanceStates
               /\ [r EXCEPT !.prefs = block].prefs = block
               /\ [r EXCEPT !.prefs = block].effect = r.effect /\ [r EXCEPT !.prefs = block].told = r.told
               /\ [r EXCEPT !.prefs = block].owned = r.owned /\ [r EXCEPT !.prefs = block].token = r.token
               /\ [r EXCEPT !.prefs = block].publishing = r.publishing
    BY <1>2 DEF InstanceStates
  <1>3. CASE q = p
    BY <1>3
  <1>4. CASE \E kind \in {"defaults", "host"} : q = Told(p, t, kind)
    <2>1. PICK kind \in {"defaults", "host"} : q = Told(p, t, kind)
      BY <1>4
    <2>. QED BY <1>1, <2>1 DEF InstanceStates
  <1>5. CASE block # None /\ ~p.effect /\ q = [Told(p, t, "host") EXCEPT !.prefs = block]
    <2>1. PICK r : r = Told(p, t, "host")
      OBVIOUS
    <2>2. /\ r \in InstanceStates /\ r.effect = p.effect /\ r.told = p.told
          /\ r.owned = p.owned /\ r.publishing = "host" /\ r.token = IF p.token = 0 THEN t ELSE p.token
      BY <1>1, <2>1
    <2>3. q = [r EXCEPT !.prefs = block]
      BY <1>5, <2>1
    <2>4. p.token \in Nat
      BY DEF InstanceStates
    <2>. QED BY <1>2, <1>5, <2>2, <2>3, <2>4
  <1>. QED BY <1>3, <1>4, <1>5 DEF HostApplies

LEMMA EffectAppliesIs ==
  ASSUME NEW p \in InstanceStates, NEW t \in Nat, NEW edit \in Blobs, NEW q, q = EffectApplies(p, t, edit)
  PROVE  /\ q \in InstanceStates /\ q.prefs = edit /\ q.effect /\ q.token = t /\ ~q.told
         /\ q.owned = p.owned /\ q.publishing = "host"
  BY DEF EffectApplies, InstanceStates

\* What the slot is after a publication of the host's settings, and of defaults.
HostPublished(s, prefs, who) == Published(s, prefs, who, TRUE)
DefaultsPublished(s, prefs, who) == Published(s, prefs, who, FALSE)

HostRight(s, prefs, who, n) ==
  /\ n \in PublishedSettings
  /\ s # None => /\ n.fromEffect = s.fromEffect
                 /\ n.generation = IF n.prefs = s.prefs THEN s.generation ELSE s.generation + 1
                 /\ (~s.fromHost \/ who >= s.publisher) => n.prefs = prefs /\ n.publisher = who /\ n.fromHost = TRUE
                 /\ ~((~s.fromHost \/ who >= s.publisher)) => n = s
  /\ s = None => n.prefs = prefs /\ n.publisher = who /\ n.fromHost = TRUE /\ n.generation = 1

LEMMA HostPublishes ==
  ASSUME NEW s, s = None \/ s \in PublishedSettings, NEW prefs \in Blobs, NEW who \in Nat,
         NEW n, n = HostPublished(s, prefs, who)
  PROVE  HostRight(s, prefs, who, n)
  <1>. USE DEF HostRight
  <1>1. CASE s = None
    BY <1>1 DEF HostPublished, Published, PublishedSettings
  <1>0. s # None => s.fromHost \in BOOLEAN
    BY DEF PublishedSettings
  <1>2. CASE s # None /\ ~((~s.fromHost \/ who >= s.publisher))
    <2>1. ~Accepts(s, who, TRUE)
      BY <1>0, <1>2 DEF Accepts
    <2>. QED BY <1>2, <2>1 DEF HostPublished, Published, PublishedSettings
  <1>3. CASE s # None /\ (~s.fromHost \/ who >= s.publisher)
    <2>0. Accepts(s, who, TRUE)
      BY <1>0, <1>3 DEF Accepts
    <2>1. n = [s EXCEPT !.prefs = prefs, !.publisher = who, !.fromHost = TRUE,
                        !.generation = IF s.prefs = prefs THEN s.generation ELSE s.generation + 1]
      BY <1>3, <2>0 DEF HostPublished, Published
    <2>2. PICK g \in Nat : g = IF s.prefs = prefs THEN s.generation ELSE s.generation + 1
      BY <1>3 DEF PublishedSettings
    <2>3. n = [s EXCEPT !.prefs = prefs, !.publisher = who, !.fromHost = TRUE, !.generation = g]
      BY <2>1, <2>2
    <2>4. s \in PublishedSettings
      BY <1>3
    <2>5. /\ n \in PublishedSettings /\ n.prefs = prefs /\ n.publisher = who /\ n.fromHost = TRUE
          /\ n.generation = g /\ n.fromEffect = s.fromEffect
      BY <2>3, <2>4 DEF PublishedSettings
    <2>. QED BY <1>3, <2>2, <2>5
  <1>. QED BY <1>1, <1>2, <1>3

DefaultsRight(s, prefs, who, n) ==
  /\ n \in PublishedSettings
  /\ s # None => /\ n.fromEffect = s.fromEffect
                 /\ n.generation = IF n.prefs = s.prefs THEN s.generation ELSE s.generation + 1
                 /\ (~s.fromHost /\ who >= s.publisher) => n.prefs = prefs /\ n.publisher = who /\ n.fromHost = FALSE
                 /\ ~((~s.fromHost /\ who >= s.publisher)) => n = s
  /\ s = None => n.prefs = prefs /\ n.publisher = who /\ n.fromHost = FALSE /\ n.generation = 1

LEMMA DefaultsPublish ==
  ASSUME NEW s, s = None \/ s \in PublishedSettings, NEW prefs \in Blobs, NEW who \in Nat,
         NEW n, n = DefaultsPublished(s, prefs, who)
  PROVE  DefaultsRight(s, prefs, who, n)
  <1>. USE DEF DefaultsRight
  <1>1. CASE s = None
    BY <1>1 DEF DefaultsPublished, Published, PublishedSettings
  <1>0. s # None => s.fromHost \in BOOLEAN
    BY DEF PublishedSettings
  <1>2. CASE s # None /\ ~((~s.fromHost /\ who >= s.publisher))
    <2>1. ~Accepts(s, who, FALSE)
      BY <1>0, <1>2 DEF Accepts
    <2>. QED BY <1>2, <2>1 DEF DefaultsPublished, Published, PublishedSettings
  <1>3. CASE s # None /\ (~s.fromHost /\ who >= s.publisher)
    <2>0. Accepts(s, who, FALSE)
      BY <1>0, <1>3 DEF Accepts
    <2>1. n = [s EXCEPT !.prefs = prefs, !.publisher = who, !.fromHost = FALSE,
                        !.generation = IF s.prefs = prefs THEN s.generation ELSE s.generation + 1]
      BY <1>3, <2>0 DEF DefaultsPublished, Published
    <2>2. PICK g \in Nat : g = IF s.prefs = prefs THEN s.generation ELSE s.generation + 1
      BY <1>3 DEF PublishedSettings
    <2>3. n = [s EXCEPT !.prefs = prefs, !.publisher = who, !.fromHost = FALSE, !.generation = g]
      BY <2>1, <2>2
    <2>4. s \in PublishedSettings
      BY <1>3
    <2>5. /\ n \in PublishedSettings /\ n.prefs = prefs /\ n.publisher = who /\ n.fromHost = FALSE
          /\ n.generation = g /\ n.fromEffect = s.fromEffect
      BY <2>3, <2>4 DEF PublishedSettings
    <2>. QED BY <1>3, <2>2, <2>5
  <1>. QED BY <1>1, <1>2, <1>3

-----------------------------------------------------------------------------
(* SettingsRegistry: the inductive invariant, in parts. *)

Dispatches == [at : {"idle", "push", "pushing"}, edit : Blobs \cup {None}, todo : SUBSET Instances]
Openings == [at : {"closed", "made", "found", "open"}, found : Blobs \cup {None}]
RenderStates ==
    [at : {"idle", "made", "marked", "clip", "apply", "leased"}, clip : Engines \cup {None},
     read : PublishedSettings \cup {None}, prefs : Blobs \cup {None}, generation : Nat]

SettingsTypes ==
    /\ slot \in PublishedSettings \cup {None} /\ engineClip \in Engines \cup {None}
    /\ table \in Seq(Instances) /\ Distinct(table)
    /\ dispatch \in Dispatches /\ (dispatch.at # "idle" => dispatch.edit \in Blobs)
    /\ inst \in [Instances -> InstanceStates]
    /\ opening \in [Clips -> Openings] /\ \A i \in Clips : opening[i].at = "found" => opening[i].found \in Blobs
    /\ render \in [Renders -> RenderStates]
    /\ token \in Nat \ {0} /\ history \in Seq(Blobs)

\* Who is registered, and what the engine and its frames hold on to.
Lives ==
    /\ \A i \in Clips : Alive(i) <=> opening[i].at # "closed"
    /\ \A i \in Instances : ~Alive(i) => inst[i] = NewInstance
    /\ \A i \in Clips : ~inst[i].owned
    /\ engineClip # None => Alive(engineClip) /\ inst[engineClip].owned
    /\ \A r \in Renders :
         /\ render[r].at # "idle" => render[r].clip # None /\ Alive(render[r].clip)
         /\ render[r].at \in {"marked", "clip", "apply", "leased"} => inst[render[r].clip].owned

\* A push goes to registered instances, and is what an instance of the engine, or one
\* that is being opened, publishes for.
Pushes ==
    /\ \A i \in dispatch.todo : Alive(i)
    /\ dispatch.at = "idle" => dispatch.todo = {}
    /\ dispatch.at = "pushing" => dispatch.todo # {}
    /\ \A i \in Instances : inst[i].publishing # "no" /\ (i \in Engines \/ opening[i].at # "open") =>
         dispatch.at = "pushing" /\ Target = i

\* Tokens are given out once, and an instance that has told the registry is in it or
\* a younger one is.
Given(i) ==
    /\ inst[i].token < token
    /\ inst[i].told \/ inst[i].publishing # "no" => inst[i].token # 0
Stands(i) ==
    inst[i].told =>
        /\ slot # None /\ slot.fromHost /\ slot.publisher >= inst[i].token
        /\ slot.publisher = inst[i].token /\ inst[i].publishing # "host" => slot.prefs = inst[i].prefs
Tokens ==
    /\ slot # None => slot.publisher < token
    /\ \A i \in Instances : Given(i) /\ Stands(i)
    /\ \A i, j \in Instances : inst[j].token = inst[i].token /\ inst[i].token # 0 => j = i
    /\ \A e \in Engines :
         /\ inst[e].told \/ inst[e].publishing # "no" => inst[e].effect
         /\ inst[e].publishing = "no" \/ (inst[e].publishing = "host" /\ ~inst[e].told)

\* The history has the settings of each generation, up to the one in force.
Recorded(s) == s # None => s.generation \in 1 .. Len(history) /\ history[s.generation] = s.prefs
FrameRight(f) ==
    f.generation > 0 =>
        /\ f.generation \in 1 .. Len(history)
        /\ f.prefs = history[f.generation] \/ inst[f.clip].effect
Histories ==
    /\ slot = None => history = <<>>
    /\ slot # None => slot.generation = Len(history)
    /\ Recorded(slot)
    /\ \A r \in Renders : Recorded(render[r].read) /\ (render[r].at = "leased" => FrameRight(render[r]))

SettingsInv == SettingsTypes /\ Lives /\ Pushes /\ Tokens /\ Histories
-----------------------------------------------------------------------------
LEMMA SettingsStart == SettingsInit => SettingsInv
  <1>. SUFFICES ASSUME SettingsInit PROVE SettingsInv
    OBVIOUS
  <1>. USE DEF SettingsInit, RegistryEmpty
  <1>1. NewInstance \in InstanceStates /\ NewInstance = [prefs |-> Defaults, effect |-> FALSE, token |-> 0,
           told |-> FALSE, owned |-> FALSE, publishing |-> "no"]
    BY SettingsAssumption DEF NewInstance, InstanceStates
  <1>2. SettingsTypes
    BY <1>1 DEF SettingsTypes, NoPush, Dispatches, Openings, NoFrame, RenderStates, Distinct
  <1>3. \A i \in Instances : ~Alive(i)
    BY DEF Alive, Range
  <1>4. Lives
    BY <1>1, <1>3 DEF Lives, NoFrame, Instances
  <1>5. Pushes
    BY <1>1 DEF Pushes, NoPush
  <1>6. Tokens
    BY <1>1 DEF Tokens, Given, Stands, Instances
  <1>7. Histories
    BY DEF Histories, Recorded, NoFrame
  <1>. QED BY <1>2, <1>4, <1>5, <1>6, <1>7 DEF SettingsInv

\* The oldest of those a push still has to go to is one of them; instances that open
\* meanwhile do not change it.
LEMMA TargetIs == ASSUME SettingsTypes, Pushes, dispatch.todo # {} PROVE Target \in dispatch.todo
  <1>. DEFINE at == {n \in DOMAIN table : table[n] \in dispatch.todo}
  <1>1. PICK i \in dispatch.todo : i \in Range(table)
    BY DEF Pushes, Alive
  <1>2. PICK n \in DOMAIN table : table[n] = i
    BY <1>1 DEF Range
  <1>3. at # {} /\ at \in SUBSET Nat
    BY <1>1, <1>2 DEF SettingsTypes
  <1>4. Min(at) \in at
    <2>. HIDE DEF at
    <2>. QED BY <1>3, MinIs
  <1>. QED BY <1>4 DEF Target

LEMMA TargetStays ==
  ASSUME SettingsTypes, Pushes, dispatch.todo # {}, dispatch'.todo = dispatch.todo,
         NEW e \in Instances, ~Alive(e), table' = Append(table, e)
  PROVE  Target' = Target
  <1>. DEFINE at == {n \in DOMAIN table : table[n] \in dispatch.todo}
  <1>1. {n \in DOMAIN table' : table'[n] \in dispatch.todo} = at
    <2>1. e \notin dispatch.todo
      BY DEF Pushes
    <2>2. /\ Len(table) \in Nat /\ DOMAIN table = 1 .. Len(table) /\ DOMAIN table' = 1 .. Len(table) + 1
          /\ \A n \in DOMAIN table' : table'[n] = IF n = Len(table) + 1 THEN e ELSE table[n]
      BY DEF SettingsTypes
    <2>. QED BY <2>1, <2>2
  <1>2. Target = table[Min(at)] /\ Target' = table'[Min(at)]
    BY <1>1 DEF Target
  <1>3. Target \in dispatch.todo
    BY TargetIs
  <1>4. at # {} /\ at \in SUBSET Nat
    <2>1. PICK i \in dispatch.todo : i \in Range(table)
      BY DEF Pushes, Alive
    <2>. QED BY <2>1 DEF SettingsTypes, Range
  <1>5. Min(at) \in at
    <2>. HIDE DEF at
    <2>. QED BY <1>4, MinIs
  <1>6. table'[Min(at)] = table[Min(at)]
    <2>1. Min(at) \in DOMAIN table
      BY <1>5
    <2>. HIDE DEF at
    <2>. QED BY <2>1 DEF SettingsTypes
  <1>. QED BY <1>2, <1>6
-----------------------------------------------------------------------------
(* SettingsRegistry: one lemma for each part, one step for each action. *)

\* What an instance publishes.
Publishes(p, n) == n = Published(slot, p.prefs, p.token, p.publishing = "host")

LEMMA PublishIs ==
  ASSUME slot \in PublishedSettings \cup {None}, NEW p \in InstanceStates,
         NEW n, Publishes(p, n)
  PROVE  /\ n \in PublishedSettings
         /\ slot # None => /\ n.fromEffect = slot.fromEffect
                           /\ n.generation = IF n.prefs = slot.prefs THEN slot.generation ELSE slot.generation + 1
         /\ \/ n.prefs = p.prefs /\ n.publisher = p.token /\ (n.fromHost <=> p.publishing = "host")
            \/ slot # None /\ n = slot
         /\ p.publishing = "host" =>
              /\ n.fromHost /\ n.publisher >= p.token
              /\ n.publisher = p.token => n.prefs = p.prefs
         /\ slot = None => n.prefs = p.prefs /\ n.generation = 1
         /\ slot # None /\ slot.fromHost =>
              \/ n = slot
              \/ p.publishing = "host" /\ p.token >= slot.publisher /\ n.publisher = p.token
  <1>0. /\ p.prefs \in Blobs /\ p.token \in Nat /\ (slot # None => slot.publisher \in Nat)
        /\ slot = None \/ slot \in PublishedSettings
    BY DEF InstanceStates, PublishedSettings
  <1>1. CASE p.publishing = "host"
    <2>1. n = HostPublished(slot, p.prefs, p.token)
      BY <1>1 DEF Publishes, HostPublished
    <2>2. /\ n \in PublishedSettings
          /\ slot # None => /\ n.fromEffect = slot.fromEffect
                            /\ n.generation = IF n.prefs = slot.prefs THEN slot.generation ELSE slot.generation + 1
                            /\ (~slot.fromHost \/ p.token >= slot.publisher) => n.prefs = p.prefs /\ n.publisher = p.token /\ n.fromHost = TRUE
                            /\ ~((~slot.fromHost \/ p.token >= slot.publisher)) => n = slot
          /\ slot = None => n.prefs = p.prefs /\ n.publisher = p.token /\ n.fromHost = TRUE /\ n.generation = 1
      <3>1. HostRight(slot, p.prefs, p.token, n)
        BY <1>0, <2>1, HostPublishes
      <3>. QED BY <3>1 DEF HostRight
    <2>3. slot # None => slot.fromHost \in BOOLEAN
      BY DEF PublishedSettings
    <2>4. CASE slot = None
      BY <1>0, <1>1, <2>2, <2>4
    <2>5. CASE slot # None /\ (~slot.fromHost \/ p.token >= slot.publisher)
      BY <1>0, <1>1, <2>2, <2>3, <2>5
    <2>6. CASE slot # None /\ ~((~slot.fromHost \/ p.token >= slot.publisher))
      BY <1>0, <1>1, <2>2, <2>3, <2>6
    <2>. QED BY <2>4, <2>5, <2>6
  <1>2. CASE p.publishing # "host"
    <2>1. n = DefaultsPublished(slot, p.prefs, p.token)
      BY <1>2 DEF Publishes, DefaultsPublished
    <2>2. /\ n \in PublishedSettings
          /\ slot # None => /\ n.fromEffect = slot.fromEffect
                            /\ n.generation = IF n.prefs = slot.prefs THEN slot.generation ELSE slot.generation + 1
                            /\ (~slot.fromHost /\ p.token >= slot.publisher) => n.prefs = p.prefs /\ n.publisher = p.token /\ n.fromHost = FALSE
                            /\ ~((~slot.fromHost /\ p.token >= slot.publisher)) => n = slot
          /\ slot = None => n.prefs = p.prefs /\ n.publisher = p.token /\ n.fromHost = FALSE /\ n.generation = 1
      <3>1. DefaultsRight(slot, p.prefs, p.token, n)
        BY <1>0, <2>1, DefaultsPublish
      <3>. QED BY <3>1 DEF DefaultsRight
    <2>3. slot # None => slot.fromHost \in BOOLEAN
      BY DEF PublishedSettings
    <2>4. CASE slot = None
      BY <1>0, <1>2, <2>2, <2>4
    <2>5. CASE slot # None /\ (~slot.fromHost /\ p.token >= slot.publisher)
      BY <1>0, <1>2, <2>2, <2>3, <2>5
    <2>6. CASE slot # None /\ ~((~slot.fromHost /\ p.token >= slot.publisher))
      BY <1>0, <1>2, <2>2, <2>3, <2>6
    <2>. QED BY <2>4, <2>5, <2>6
  <1>. QED BY <1>1, <1>2

\* The instance a frame is made with.
LEMMA RendersClip ==
  ASSUME SettingsTypes, Lives, NEW r \in Renders, render[r].at # "idle"
  PROVE  render[r].clip \in Engines /\ render[r].clip \in Instances /\ Alive(render[r].clip)
  BY DEF SettingsTypes, RenderStates, Lives, Instances

LEMMA TypesStep == ASSUME SettingsInv, SettingsNext PROVE SettingsTypes'
  <1>t. /\ slot \in PublishedSettings \cup {None} /\ engineClip \in Engines \cup {None}
        /\ table \in Seq(Instances) /\ Distinct(table)
        /\ dispatch \in Dispatches /\ (dispatch.at # "idle" => dispatch.edit \in Blobs)
        /\ inst \in [Instances -> InstanceStates]
        /\ opening \in [Clips -> Openings] /\ \A i \in Clips : opening[i].at = "found" => opening[i].found \in Blobs
        /\ render \in [Renders -> RenderStates]
        /\ token \in Nat \ {0} /\ history \in Seq(Blobs)
    BY DEF SettingsInv, SettingsTypes
  <1>i. Clips \subseteq Instances /\ Engines \subseteq Instances
    BY DEF Instances
  <1>0. NewInstance \in InstanceStates /\ NoFrame \in RenderStates /\ NoPush \in Dispatches
    BY SettingsAssumption DEF NewInstance, InstanceStates, NoFrame, RenderStates, NoPush, Dispatches
  <1>1. ASSUME NEW i \in Instances, Publish(i) PROVE SettingsTypes'
    <2>. DEFINE p == inst[i]
                now == IF p.owned THEN slot ELSE Published(slot, p.prefs, p.token, p.publishing = "host")
    <2>1. p \in InstanceStates
      BY <1>t
    <2>2. (~p.owned => now \in PublishedSettings) /\ (p.owned => now = slot)
      <3>1. ~p.owned => Publishes(p, now)
        BY DEF Publishes
      <3>2. p.owned => now = slot
        OBVIOUS
      <3>. HIDE DEF p, now
      <3>. QED BY <1>t, <2>1, <3>1, <3>2, PublishIs
    <2>3. /\ slot' = now
          /\ history' = IF now = slot \/ (slot # None /\ now.generation = slot.generation)
                        THEN history ELSE Append(history, now.prefs)
      BY <1>1 DEF Publish
    <2>. HIDE DEF now, p
    <2>4. now # slot => now.prefs \in Blobs
      BY <2>2 DEF PublishedSettings
    <2>5. slot' \in PublishedSettings \cup {None} /\ history' \in Seq(Blobs)
      BY <1>t, <2>2, <2>3, <2>4
    <2>6. inst' \in [Instances -> InstanceStates]
      <3>1. PICK told \in BOOLEAN : told = (inst[i].told \/ (inst[i].publishing = "host" /\ ~inst[i].owned))
        OBVIOUS
      <3>2. [inst[i] EXCEPT !.publishing = "no"] \in InstanceStates
        BY <1>t DEF InstanceStates
      <3>3. [[inst[i] EXCEPT !.publishing = "no"] EXCEPT !.told = told] \in InstanceStates
        BY <3>2 DEF InstanceStates
      <3>4. inst' = [inst EXCEPT ![i].publishing = "no", ![i].told = told]
        BY <1>1, <3>1 DEF Publish
      <3>5. inst' = [inst EXCEPT ![i] = [[inst[i] EXCEPT !.publishing = "no"] EXCEPT !.told = told]]
        BY <1>t, <3>4
      <3>. QED BY <1>t, <3>3, <3>5
    <2>7. dispatch' \in Dispatches /\ (dispatch'.at # "idle" => dispatch'.edit \in Blobs)
      BY <1>t, <1>1 DEF Publish, Dispatches
    <2>. QED BY <1>t, <1>i, <1>1, <2>5, <2>6, <2>7 DEF Publish, SettingsTypes
  <1>2. ASSUME NEW i \in Clips, OpenFile(i) PROVE SettingsTypes'
    <2>1. ~Alive(i) /\ i \in Instances
      BY <1>i, <1>2 DEF OpenFile, SettingsInv, Lives
    <2>2. table' \in Seq(Instances) /\ Distinct(table')
      BY <1>t, <1>2, <2>1, AppendedIs DEF OpenFile, Alive
    <2>. QED BY <1>t, <1>i, <1>0, <1>2, <2>2 DEF OpenFile, registry, Openings, SettingsTypes
  <1>3. ASSUME NEW i \in Clips, LookUp(i) PROVE SettingsTypes'
    <2>1. inst' \in [Instances -> InstanceStates]
      <3>1. inst' = inst \/ inst' = [inst EXCEPT ![i].prefs = IF inst[i].told THEN @ ELSE Defaults]
        BY <1>3 DEF LookUp
      <3>2. i \in Instances /\ inst[i] \in InstanceStates
        BY <1>t, <1>i
      <3>3. PICK b \in Blobs : b = IF inst[i].told THEN inst[i].prefs ELSE Defaults
        BY <3>2, SettingsAssumption DEF InstanceStates
      <3>4. [inst[i] EXCEPT !.prefs = b] \in InstanceStates
        BY <3>2 DEF InstanceStates
      <3>5. inst' = inst \/ inst' = [inst EXCEPT ![i] = [inst[i] EXCEPT !.prefs = b]]
        BY <3>1, <3>3
      <3>. QED BY <1>t, <3>4, <3>5
    <2>2. opening' \in [Clips -> Openings] /\ \A j \in Clips : opening'[j].at = "found" => opening'[j].found \in Blobs
      <3>1. slot # None => slot.prefs \in Blobs
        BY <1>t DEF PublishedSettings
      <3>2. \/ opening' = [opening EXCEPT ![i].at = "open"]
            \/ slot # None /\ opening' = [opening EXCEPT ![i] = [at |-> "found", found |-> slot.prefs]]
        BY <1>3 DEF LookUp
      <3>3. CASE opening' = [opening EXCEPT ![i].at = "open"]
        BY <1>t, <3>3 DEF Openings
      <3>4. CASE slot # None /\ opening' = [opening EXCEPT ![i] = [at |-> "found", found |-> slot.prefs]]
        <4>1. PICK b \in Blobs : b = slot.prefs
          BY <3>1, <3>4
        <4>2. PICK o \in Openings : o = [at |-> "found", found |-> b]
          BY DEF Openings
        <4>3. opening' = [opening EXCEPT ![i] = o]
          BY <3>4, <4>1, <4>2
        <4>. QED BY <1>t, <4>1, <4>2, <4>3
      <3>. QED BY <3>2, <3>3, <3>4
    <2>. QED BY <1>t, <1>i, <1>3, <2>1, <2>2 DEF LookUp, registry, bounds, SettingsTypes
  <1>4. ASSUME NEW i \in Clips, Adopt(i) PROVE SettingsTypes'
    <2>1. i \in Instances /\ inst[i] \in InstanceStates /\ opening[i].found \in Blobs
      BY <1>t, <1>i, <1>4 DEF Adopt
    <2>2. EffectApplies(inst[i], token, opening[i].found) \in InstanceStates
      BY <1>t, <2>1, EffectAppliesIs
    <2>. QED BY <1>t, <1>i, <1>4, <2>2 DEF Adopt, registry, bounds, Openings, SettingsTypes
  <1>5. ASSUME NEW i \in Clips, CloseFile(i) PROVE SettingsTypes'
    <2>1. table' \in Seq(Instances) /\ Distinct(table')
      BY <1>t, <1>5, RemovedIs DEF CloseFile, Unregister
    <2>. QED BY <1>t, <1>i, <1>0, <1>5, <2>1 DEF CloseFile, registry, bounds, Openings, SettingsTypes
  <1>6. ASSUME NEW i \in Clips, NEW block \in Blobs \cup {None}, Selector(i, block) PROVE SettingsTypes'
    <2>1. i \in Instances /\ inst[i] \in InstanceStates /\ inst[i].publishing = "no"
          /\ (inst[i].told => inst[i].token # 0)
      BY <1>t, <1>i, <1>6 DEF Selector, Unlocked, SettingsInv, Tokens, Given
    <2>2. HostApplies(inst[i], token, block) \in InstanceStates
      BY <1>t, <2>1, HostAppliesIs
    <2>. QED BY <1>t, <1>i, <1>6, <2>2 DEF Selector, registry, SettingsTypes
  <1>7. ASSUME NEW edit \in Blobs, Edit(edit) PROVE SettingsTypes'
    <2>1. Candidates \in SUBSET Instances
      BY <1>t DEF Candidates, Range
    <2>2. dispatch' \in Dispatches /\ dispatch'.edit \in Blobs
      BY <1>t, <1>7, <2>1 DEF Edit, Dispatches
    <2>. QED BY <1>t, <1>i, <1>7, <2>2 DEF Edit, registry, SettingsTypes
  <1>8. ASSUME Push PROVE SettingsTypes'
    <2>1. Target \in Instances
      BY <1>t, <1>8, TargetIs DEF Push, Dispatches, SettingsInv
    <2>2. EffectApplies(inst[Target], token, dispatch.edit) \in InstanceStates
      BY <1>t, <1>8, <2>1, EffectAppliesIs DEF Push
    <2>3. inst' \in [Instances -> InstanceStates]
      <3>1. inst' = [inst EXCEPT ![Target] = EffectApplies(inst[Target], token, dispatch.edit)]
        BY <1>8 DEF Push
      <3>. QED BY <1>t, <2>1, <2>2, <3>1
    <2>4. dispatch' \in Dispatches /\ dispatch'.edit \in Blobs
      BY <1>t, <1>8 DEF Push, Dispatches
    <2>. QED BY <1>t, <1>8, <2>3, <2>4 DEF Push, registry, bounds, SettingsTypes
  <1>9. ASSUME Pushed PROVE SettingsTypes'
    <2>1. slot' \in PublishedSettings \cup {None}
      BY <1>t, <1>9 DEF Pushed, PublishedSettings
    <2>. QED BY <1>t, <1>i, <1>0, <1>9, <2>1 DEF Pushed, bounds, NoPush, SettingsTypes
  <1>10. ASSUME NEW r \in Renders, Acquire(r) PROVE SettingsTypes'
    <2>1. CASE engineClip # None
      <3>1. [NoFrame EXCEPT !.at = "clip", !.clip = engineClip] \in RenderStates
        BY <1>t, <2>1, SettingsAssumption DEF NoFrame, RenderStates
      <3>2. render' = [render EXCEPT ![r] = [NoFrame EXCEPT !.at = "clip", !.clip = engineClip]]
            /\ UNCHANGED <<table, inst>>
        BY <1>10, <2>1 DEF Acquire
      <3>. QED BY <1>t, <1>10, <3>1, <3>2 DEF Acquire, registry, bounds, SettingsTypes
    <2>2. CASE engineClip = None
      <3>1. PICK e \in Engines :
              /\ ~Alive(e) /\ table' = Append(table, e) /\ inst' = [inst EXCEPT ![e] = NewInstance]
              /\ render' = [render EXCEPT ![r] = [NoFrame EXCEPT !.at = "made", !.clip = e]]
        BY <1>10, <2>2 DEF Acquire
      <3>2. table' \in Seq(Instances) /\ Distinct(table')
        BY <1>t, <1>i, <3>1, AppendedIs DEF Alive
      <3>3. [NoFrame EXCEPT !.at = "made", !.clip = e] \in RenderStates
        BY SettingsAssumption DEF NoFrame, RenderStates
      <3>. QED BY <1>0, <1>t, <1>i, <1>10, <3>1, <3>2, <3>3 DEF Acquire, registry, bounds, SettingsTypes
    <2>. QED BY <2>1, <2>2
  <1>11. ASSUME NEW r \in Renders, Mark(r) PROVE SettingsTypes'
    <2>1. inst' \in [Instances -> InstanceStates]
      <3>1. render[r].clip \in Instances /\ inst[render[r].clip] \in InstanceStates
        BY <1>t, <1>11, RendersClip DEF Mark, SettingsInv
      <3>2. [inst[render[r].clip] EXCEPT !.owned = TRUE] \in InstanceStates
        BY <3>1 DEF InstanceStates
      <3>3. inst' = [inst EXCEPT ![render[r].clip] = [inst[render[r].clip] EXCEPT !.owned = TRUE]]
        BY <1>11 DEF Mark
      <3>. QED BY <1>t, <3>1, <3>2, <3>3
    <2>2. render' \in [Renders -> RenderStates]
      <3>1. [render[r] EXCEPT !.at = "marked"] \in RenderStates
        BY <1>t DEF RenderStates
      <3>2. render' = [render EXCEPT ![r] = [render[r] EXCEPT !.at = "marked"]]
        BY <1>11 DEF Mark
      <3>. QED BY <1>t, <3>1, <3>2
    <2>. QED BY <1>t, <1>i, <1>11, <2>1, <2>2 DEF Mark, registry, bounds, SettingsTypes
  <1>12. ASSUME NEW r \in Renders, OpenClip(r) PROVE SettingsTypes'
    <2>1. engineClip' \in Engines \cup {None} /\ render' \in [Renders -> RenderStates]
      <3>1. render[r].clip \in Engines
        BY <1>12, RendersClip DEF OpenClip, SettingsInv
      <3>2. CASE render' = [render EXCEPT ![r] = NoFrame] /\ engineClip' = engineClip
        BY <1>0, <1>t, <3>2
      <3>3. CASE /\ engineClip' = IF engineClip = None THEN render[r].clip ELSE engineClip
                 /\ render' = [render EXCEPT ![r].at = "clip", ![r].clip = engineClip']
        <4>1. engineClip' \in Engines
          BY <1>t, <3>1, <3>3
        <4>2. render[r] \in RenderStates
          BY <1>t
        <4>3. [[render[r] EXCEPT !.at = "clip"] EXCEPT !.clip = engineClip'] \in RenderStates
          <5>1. [render[r] EXCEPT !.at = "clip"] \in RenderStates
            BY <4>2 DEF RenderStates
          <5>. QED BY <4>1, <5>1 DEF RenderStates
        <4>4. render' = [render EXCEPT ![r] = [[render[r] EXCEPT !.at = "clip"] EXCEPT !.clip = engineClip']]
          BY <1>t, <3>3
        <4>. QED BY <1>t, <4>1, <4>3, <4>4
      <3>. QED BY <1>12, <3>2, <3>3 DEF OpenClip
    <2>. QED BY <1>t, <1>i, <1>12, <2>1 DEF OpenClip, registry, bounds, SettingsTypes
  <1>13. ASSUME NEW r \in Renders, ReadSettings(r) PROVE SettingsTypes'
    <2>1. render' \in [Renders -> RenderStates]
      <3>1. render[r] \in RenderStates
        BY <1>t
      <3>2. [[render[r] EXCEPT !.at = "apply"] EXCEPT !.read = slot] \in RenderStates
        <4>1. [render[r] EXCEPT !.at = "apply"] \in RenderStates
          BY <3>1 DEF RenderStates
        <4>. QED BY <1>t, <4>1 DEF RenderStates
      <3>3. render' = [render EXCEPT ![r] = [[render[r] EXCEPT !.at = "apply"] EXCEPT !.read = slot]]
        BY <1>t, <1>13 DEF ReadSettings
      <3>. QED BY <1>t, <3>2, <3>3
    <2>. QED BY <1>t, <1>i, <1>13, <2>1 DEF ReadSettings, registry, bounds, SettingsTypes
  <1>14. ASSUME NEW r \in Renders, ApplySettings(r) PROVE SettingsTypes'
    <2>. DEFINE e == render[r].clip
                read == render[r].read
                p == IF read = None \/ inst[e].effect THEN inst[e] ELSE [inst[e] EXCEPT !.prefs = read.prefs]
    <2>1. e \in Instances /\ e \in Engines
      BY <1>14, RendersClip DEF ApplySettings, SettingsInv
    <2>2. read \in PublishedSettings \cup {None}
      BY <1>t DEF RenderStates
    <2>3. p \in InstanceStates
      <3>1. inst[e] \in InstanceStates
        BY <1>t, <2>1
      <3>2. ASSUME read # None PROVE [inst[e] EXCEPT !.prefs = read.prefs] \in InstanceStates
        <4>1. read.prefs \in Blobs
          BY <2>2, <3>2 DEF PublishedSettings
        <4>. HIDE DEF e, read
        <4>. QED BY <3>1, <4>1 DEF InstanceStates
      <3>. QED BY <3>1, <3>2
    <2>4. Frame(p, read).prefs \in Blobs /\ Frame(p, read).generation \in Nat
      BY <2>2, <2>3 DEF Frame, InstanceStates, PublishedSettings
    <2>5. /\ inst' = [inst EXCEPT ![e] = p]
          /\ \/ render' = [render EXCEPT ![r] = [at |-> "leased", clip |-> e, read |-> None,
                                                 prefs |-> Frame(p, read).prefs,
                                                 generation |-> Frame(p, read).generation]]
             \/ render' = [render EXCEPT ![r] = NoFrame]
      BY <1>14 DEF ApplySettings
    <2>. HIDE DEF e, p, read
    <2>6. inst' \in [Instances -> InstanceStates] /\ render' \in [Renders -> RenderStates]
      <3>1. [at |-> "leased", clip |-> e, read |-> None, prefs |-> Frame(p, read).prefs,
             generation |-> Frame(p, read).generation] \in RenderStates
        BY <2>1, <2>4 DEF RenderStates
      <3>. QED BY <1>0, <1>t, <2>1, <2>3, <2>5, <3>1
    <2>. QED BY <1>t, <1>i, <1>14, <2>6 DEF ApplySettings, registry, bounds, SettingsTypes
  <1>15. ASSUME NEW r \in Renders, ReleaseFrame(r) PROVE SettingsTypes'
    BY <1>0, <1>t, <1>15 DEF SettingsTypes,  ReleaseFrame, registry, bounds
  <1>16. ASSUME Shutdown PROVE SettingsTypes'
    BY <1>t, <1>16 DEF SettingsTypes,  Shutdown, registry
  <1>17. ASSUME NEW e \in Engines, Drop(e) PROVE SettingsTypes'
    <2>1. table' \in Seq(Instances) /\ Distinct(table')
      BY <1>t, <1>17, RemovedIs DEF Drop, Unregister
    <2>. QED BY <1>t, <1>i, <1>0, <1>17, <2>1 DEF Drop, registry, bounds, SettingsTypes
  <1>. QED BY <1>1, <1>2, <1>3, <1>4, <1>5, <1>6, <1>7, <1>8, <1>9, <1>10, <1>11, <1>12, <1>13, <1>14, <1>15, <1>16,
              <1>17 DEF SettingsNext

\* What the calls do to the instances, member by member.
LEMMA PublishDoes ==
  ASSUME SettingsTypes, NEW i \in Instances, Publish(i)
  PROVE  /\ \A j \in Instances : j # i => inst'[j] = inst[j]
         /\ inst'[i].prefs = inst[i].prefs /\ inst'[i].effect = inst[i].effect
         /\ inst'[i].token = inst[i].token /\ inst'[i].owned = inst[i].owned
         /\ inst'[i].publishing = "no" /\ inst[i].publishing # "no"
         /\ inst'[i].told <=> inst[i].told \/ (inst[i].publishing = "host" /\ ~inst[i].owned)
         /\ inst[i].owned => slot' = slot
         /\ ~inst[i].owned => Publishes(inst[i], slot')
  <1>1. inst[i] \in InstanceStates /\ inst \in [Instances -> InstanceStates]
    BY DEF SettingsTypes
  <1>2. PICK told : told = (inst[i].told \/ (inst[i].publishing = "host" /\ ~inst[i].owned))
    OBVIOUS
  <1>3. inst' = [inst EXCEPT ![i].publishing = "no", ![i].told = told]
    BY <1>2 DEF Publish
  <1>4. inst'[i] = [[inst[i] EXCEPT !.publishing = "no"] EXCEPT !.told = told]
    BY <1>1, <1>3
  <1>5. \A j \in Instances : j # i => inst'[j] = inst[j]
    BY <1>1, <1>3
  <1>6. /\ inst'[i].prefs = inst[i].prefs /\ inst'[i].effect = inst[i].effect
        /\ inst'[i].token = inst[i].token /\ inst'[i].owned = inst[i].owned
        /\ inst'[i].publishing = "no" /\ inst'[i].told = told
    BY <1>1, <1>4 DEF InstanceStates
  <1>7. inst'[i].told <=> inst[i].told \/ (inst[i].publishing = "host" /\ ~inst[i].owned)
    BY <1>2, <1>6
  <1>8. (inst[i].owned => slot' = slot) /\ (~inst[i].owned => Publishes(inst[i], slot')) /\ inst[i].publishing # "no"
    BY DEF Publish, Publishes
  <1>. QED BY <1>5, <1>6, <1>7, <1>8

LEMMA LookUpDoes ==
  ASSUME SettingsTypes, NEW i \in Clips, LookUp(i)
  PROVE  /\ \A j \in Instances : j # i => inst'[j] = inst[j]
         /\ inst'[i].effect = inst[i].effect /\ inst'[i].token = inst[i].token
         /\ inst'[i].owned = inst[i].owned /\ inst'[i].publishing = inst[i].publishing
         /\ inst'[i].told = inst[i].told
         /\ inst[i].told => inst'[i].prefs = inst[i].prefs
         /\ inst[i].publishing = "no"
         /\ \A j \in Clips : j # i => opening'[j] = opening[j]
         /\ opening[i].at = "made"
         /\ opening'[i].at \in {"found", "open"}
         /\ slot # None /\ slot.fromEffect => opening'[i].at = "found" /\ opening'[i].found = slot.prefs
  <1>1. i \in Instances /\ inst \in [Instances -> InstanceStates] /\ inst[i] \in InstanceStates
        /\ opening \in [Clips -> Openings] /\ opening[i] \in Openings
    BY DEF SettingsTypes, Instances
  <1>2. PICK b : b = IF inst[i].told THEN inst[i].prefs ELSE Defaults
    OBVIOUS
  <1>3. inst' = inst \/ inst' = [inst EXCEPT ![i] = [inst[i] EXCEPT !.prefs = b]]
    BY <1>2 DEF LookUp
  <1>4. /\ \A j \in Instances : j # i => inst'[j] = inst[j]
        /\ inst'[i] = inst[i] \/ inst'[i] = [inst[i] EXCEPT !.prefs = b]
    BY <1>1, <1>3
  <1>5. /\ inst'[i].effect = inst[i].effect /\ inst'[i].token = inst[i].token
        /\ inst'[i].owned = inst[i].owned /\ inst'[i].publishing = inst[i].publishing
        /\ inst'[i].told = inst[i].told
        /\ inst[i].told => inst'[i].prefs = inst[i].prefs
    BY <1>1, <1>2, <1>4 DEF InstanceStates
  <1>6. inst[i].publishing = "no" /\ opening[i].at = "made"
    BY DEF LookUp, Unlocked
  <1>7. CASE slot # None /\ slot.fromEffect
    <2>1. opening' = [opening EXCEPT ![i] = [at |-> "found", found |-> slot.prefs]]
      BY <1>7 DEF LookUp
    <2>. QED BY <1>1, <1>4, <1>5, <1>6, <2>1
  <1>8. CASE ~(slot # None /\ slot.fromEffect)
    <2>1. opening' = [opening EXCEPT ![i].at = "open"]
      BY <1>8 DEF LookUp
    <2>2. opening'[i].at = "open" /\ \A j \in Clips : j # i => opening'[j] = opening[j]
      BY <1>1, <2>1 DEF Openings
    <2>. QED BY <1>4, <1>5, <1>6, <1>8, <2>2
  <1>. QED BY <1>7, <1>8

LEMMA AdoptDoes ==
  ASSUME SettingsTypes, NEW i \in Clips, Adopt(i)
  PROVE  /\ \A j \in Instances : j # i => inst'[j] = inst[j]
         /\ inst'[i].prefs = opening[i].found /\ inst'[i].effect /\ inst'[i].token = token
         /\ ~inst'[i].told /\ inst'[i].owned = inst[i].owned /\ inst'[i].publishing = "host"
         /\ opening[i].at = "found" /\ inst[i].publishing = "no"
         /\ \A j \in Clips : j # i => opening'[j] = opening[j]
         /\ opening'[i].at = "open"
  <1>1. i \in Instances /\ inst \in [Instances -> InstanceStates] /\ inst[i] \in InstanceStates
        /\ opening \in [Clips -> Openings] /\ opening[i].at = "found" /\ opening[i].found \in Blobs /\ token \in Nat
    BY DEF SettingsTypes, Instances, Adopt
  <1>2. PICK q : q = EffectApplies(inst[i], token, opening[i].found)
    OBVIOUS
  <1>3. inst' = [inst EXCEPT ![i] = q] /\ opening' = [opening EXCEPT ![i] = [at |-> "open", found |-> None]]
    BY <1>2 DEF Adopt
  <1>4. /\ q.prefs = opening[i].found /\ q.effect /\ q.token = token /\ ~q.told
        /\ q.owned = inst[i].owned /\ q.publishing = "host"
    BY <1>1, <1>2, EffectAppliesIs
  <1>5. inst[i].publishing = "no"
    BY DEF Adopt, Unlocked
  <1>. QED BY <1>1, <1>3, <1>4, <1>5

LEMMA PushDoes ==
  ASSUME SettingsTypes, Pushes, Push
  PROVE  /\ Target \in Instances /\ Target \in dispatch.todo
         /\ \A j \in Instances : j # Target => inst'[j] = inst[j]
         /\ inst'[Target].prefs = dispatch.edit /\ inst'[Target].effect /\ inst'[Target].token = token
         /\ ~inst'[Target].told /\ inst'[Target].owned = inst[Target].owned
         /\ inst'[Target].publishing = "host" /\ inst[Target].publishing = "no"
  <1>0. dispatch \in Dispatches /\ dispatch.at = "push" /\ dispatch.todo # {}
    BY DEF SettingsTypes, Push
  <1>1. PICK i \in Instances : i = Target /\ i \in dispatch.todo
    BY <1>0, TargetIs DEF Dispatches
  <1>2. /\ inst \in [Instances -> InstanceStates] /\ inst[i] \in InstanceStates
        /\ dispatch.edit \in Blobs /\ token \in Nat
    BY <1>0 DEF SettingsTypes
  <1>3. PICK q : q = EffectApplies(inst[i], token, dispatch.edit)
    OBVIOUS
  <1>4. inst' = [inst EXCEPT ![i] = q] /\ inst[i].publishing = "no"
    BY <1>1, <1>3 DEF Push, Unlocked
  <1>5. /\ q.prefs = dispatch.edit /\ q.effect /\ q.token = token /\ ~q.told
        /\ q.owned = inst[i].owned /\ q.publishing = "host"
    BY <1>2, <1>3, EffectAppliesIs
  <1>. QED BY <1>1, <1>2, <1>4, <1>5

LEMMA SelectorDoes ==
  ASSUME SettingsTypes, Tokens, NEW i \in Clips, NEW block \in Blobs \cup {None}, Selector(i, block)
  PROVE  /\ \A j \in Instances : j # i => inst'[j] = inst[j]
         /\ inst'[i].effect = inst[i].effect /\ inst'[i].owned = inst[i].owned /\ inst'[i].told = inst[i].told
         /\ inst'[i].prefs # inst[i].prefs => ~inst[i].effect /\ inst'[i].publishing = "host"
         /\ \/ inst'[i].token = inst[i].token /\ token' = token
            \/ inst[i].token = 0 /\ inst'[i].token = token /\ token' = token + 1
         /\ inst'[i].publishing # "no" /\ inst'[i].token # 0
         /\ opening[i].at = "open" /\ inst[i].publishing = "no"
  <1>1. /\ i \in Instances /\ inst \in [Instances -> InstanceStates] /\ inst[i] \in InstanceStates
        /\ token \in Nat \ {0}
    BY DEF SettingsTypes, Instances
  <1>2. PICK q : q = HostApplies(inst[i], token, block)
    OBVIOUS
  <1>3. /\ inst' = [inst EXCEPT ![i] = q] /\ q # inst[i]
        /\ token' = IF q.token = inst[i].token THEN token ELSE token + 1
        /\ opening[i].at = "open" /\ inst[i].publishing = "no"
    BY <1>2 DEF Selector, Unlocked
  <1>4. inst[i].told => inst[i].token # 0
    BY <1>1 DEF Tokens, Given
  <1>5. /\ q.effect = inst[i].effect /\ q.owned = inst[i].owned /\ q.told = inst[i].told
        /\ q.prefs # inst[i].prefs => ~inst[i].effect /\ q.publishing = "host"
        /\ q.token = inst[i].token \/ (inst[i].token = 0 /\ q.token = token)
        /\ q = inst[i] \/ (q.publishing # "no" /\ q.token # 0)
    BY <1>1, <1>2, <1>3, <1>4, HostAppliesIs
  <1>6. inst'[i] = q /\ \A j \in Instances : j # i => inst'[j] = inst[j]
    BY <1>1, <1>3
  <1>. QED BY <1>1, <1>3, <1>5, <1>6

LEMMA MarkDoes ==
  ASSUME SettingsTypes, Lives, NEW r \in Renders, Mark(r)
  PROVE  /\ render[r].clip \in Engines /\ render[r].clip \in Instances /\ Alive(render[r].clip)
         /\ \A j \in Instances : j # render[r].clip => inst'[j] = inst[j]
         /\ inst'[render[r].clip].owned
         /\ inst'[render[r].clip].prefs = inst[render[r].clip].prefs
         /\ inst'[render[r].clip].effect = inst[render[r].clip].effect
         /\ inst'[render[r].clip].token = inst[render[r].clip].token
         /\ inst'[render[r].clip].told = inst[render[r].clip].told
         /\ inst'[render[r].clip].publishing = inst[render[r].clip].publishing
  <1>1. PICK e \in Engines : e = render[r].clip /\ e \in Instances /\ Alive(e)
    BY RendersClip DEF Mark
  <1>2. inst \in [Instances -> InstanceStates] /\ inst[e] \in InstanceStates
    BY <1>1 DEF SettingsTypes
  <1>3. inst' = [inst EXCEPT ![e] = [inst[e] EXCEPT !.owned = TRUE]]
    BY <1>1 DEF Mark
  <1>. QED BY <1>1, <1>2, <1>3 DEF InstanceStates

LEMMA ApplyDoes ==
  ASSUME SettingsTypes, Lives, NEW r \in Renders, ApplySettings(r),
         NEW e, e = render[r].clip, NEW read, read = render[r].read
  PROVE  /\ e \in Engines /\ e \in Instances /\ Alive(e) /\ inst[e].owned
         /\ render[r].at = "apply"
         /\ \A j \in Instances : j # e => inst'[j] = inst[j]
         /\ inst'[e].effect = inst[e].effect /\ inst'[e].token = inst[e].token
         /\ inst'[e].owned = inst[e].owned /\ inst'[e].publishing = inst[e].publishing
         /\ inst'[e].told = inst[e].told
         /\ inst[e].effect => inst'[e].prefs = inst[e].prefs
         /\ read # None => inst[e].effect \/ inst'[e].prefs = read.prefs
         /\ \A s \in Renders : s # r => render'[s] = render[s]
         /\ \/ render'[r] = NoFrame
            \/ /\ render'[r].at = "leased" /\ render'[r].clip = e /\ render'[r].read = None
               /\ render'[r].prefs = inst'[e].prefs
               /\ render'[r].generation = IF read = None THEN 0 ELSE read.generation
  <1>1. e \in Engines /\ e \in Instances /\ Alive(e) /\ render[r].at = "apply" /\ inst[e].owned
    BY RendersClip DEF ApplySettings, Lives
  <1>2. /\ inst \in [Instances -> InstanceStates] /\ inst[e] \in InstanceStates
        /\ render \in [Renders -> RenderStates]
    BY <1>1 DEF SettingsTypes
  <1>3. PICK p : p = IF read = None \/ inst[e].effect THEN inst[e] ELSE [inst[e] EXCEPT !.prefs = read.prefs]
    OBVIOUS
  <1>4. /\ inst' = [inst EXCEPT ![e] = p]
        /\ \/ render' = [render EXCEPT ![r] = [at |-> "leased", clip |-> e, read |-> None,
                                               prefs |-> Frame(p, read).prefs,
                                               generation |-> Frame(p, read).generation]]
           \/ render' = [render EXCEPT ![r] = NoFrame]
    BY <1>3 DEF ApplySettings
  <1>5. /\ p.effect = inst[e].effect /\ p.token = inst[e].token
        /\ p.owned = inst[e].owned /\ p.publishing = inst[e].publishing
        /\ p.told = inst[e].told
        /\ inst[e].effect => p.prefs = inst[e].prefs
        /\ read # None => inst[e].effect \/ p.prefs = read.prefs
    BY <1>2, <1>3 DEF InstanceStates
  <1>6. inst'[e] = p /\ \A j \in Instances : j # e => inst'[j] = inst[j]
    BY <1>1, <1>2, <1>4
  <1>7. Frame(p, read).prefs = p.prefs /\ Frame(p, read).generation = IF read = None THEN 0 ELSE read.generation
    BY DEF Frame
  <1>8. /\ \A s \in Renders : s # r => render'[s] = render[s]
        /\ \/ render'[r] = NoFrame
           \/ /\ render'[r].at = "leased" /\ render'[r].clip = e /\ render'[r].read = None
              /\ render'[r].prefs = p.prefs
              /\ render'[r].generation = IF read = None THEN 0 ELSE read.generation
    BY <1>2, <1>4, <1>7
  <1>. QED BY <1>1, <1>5, <1>6, <1>8

\* Who is registered after a step.
LEMMA JoinsTable ==
  ASSUME SettingsTypes, NEW e \in Instances, ~Alive(e), table' = Append(table, e)
  PROVE  \A j : Alive(j)' <=> Alive(j) \/ j = e
  <1>1. Range(table') = Range(table) \cup {e}
    BY AppendedIs DEF SettingsTypes, Alive
  <1>. QED BY <1>1 DEF Alive

LEMMA LeavesTable ==
  ASSUME SettingsTypes, NEW e \in Instances, table' = RemoveFirst(table, e)
  PROVE  \A j : Alive(j)' <=> Alive(j) /\ j # e
  <1>1. Range(table') = Range(table) \ {e}
    BY RemovedIs DEF SettingsTypes
  <1>. QED BY <1>1 DEF Alive

\* A step that registers, marks and closes nobody.
KeepsLives ==
  /\ table' = table /\ engineClip' = engineClip
  /\ \A i \in Clips : opening'[i].at = "closed" <=> opening[i].at = "closed"
  /\ \A i \in Instances : /\ inst'[i].owned = inst[i].owned
                          /\ inst'[i] = inst[i] \/ Alive(i)
  /\ \A r \in Renders :
       \/ render'[r] = render[r] \/ render'[r] = NoFrame
       \/ /\ render'[r].clip = render[r].clip
          /\ render[r].at \in {"marked", "clip", "apply", "leased"}

LEMMA LivesKept == ASSUME SettingsTypes, Lives, KeepsLives PROVE Lives'
  <1>1. \A i : Alive(i)' <=> Alive(i)
    BY DEF Alive, KeepsLives
  <1>2. \A i \in Clips : Alive(i)' <=> opening'[i].at # "closed"
    BY <1>1 DEF Lives, KeepsLives
  <1>3. \A i \in Instances : ~Alive(i)' => inst'[i] = NewInstance
    BY <1>1 DEF Lives, KeepsLives
  <1>4. \A i \in Clips : ~inst'[i].owned
    BY DEF Lives, KeepsLives, Instances
  <1>5. engineClip' # None => Alive(engineClip)' /\ inst'[engineClip].owned
    BY <1>1 DEF Lives, KeepsLives, SettingsTypes, Instances
  <1>6. ASSUME NEW r \in Renders
        PROVE  /\ render'[r].at # "idle" => render'[r].clip # None /\ Alive(render'[r].clip)
               /\ render'[r].at \in {"marked", "clip", "apply", "leased"} => inst'[render'[r].clip].owned
    <2>1. render'[r] = NoFrame => render'[r].at = "idle"
      BY DEF NoFrame
    <2>2. render[r].at # "idle" => render[r].clip \in Instances
      BY RendersClip
    <2>3. /\ render[r].at # "idle" => render[r].clip # None /\ Alive(render[r].clip)
          /\ render[r].at \in {"marked", "clip", "apply", "leased"} => inst[render[r].clip].owned
      BY DEF Lives
    <2>4. \A i \in Instances : inst'[i].owned = inst[i].owned
      BY DEF KeepsLives
    <2>5. \/ render'[r] = render[r] \/ render'[r] = NoFrame
          \/ /\ render'[r].clip = render[r].clip
             /\ render[r].at \in {"marked", "clip", "apply", "leased"}
      BY DEF KeepsLives
    <2>. QED BY <2>1, <2>2, <2>3, <2>4, <2>5
  <1>7. table' = table
    BY DEF KeepsLives
  <1>. QED BY <1>2, <1>3, <1>4, <1>5, <1>6, <1>7 DEF Lives, KeepsLives, Alive

\* An instance that has something to publish, or has been given a token, is registered.
LEMMA Busy == ASSUME Lives, NEW i \in Instances, inst[i].publishing # "no" \/ inst[i].told \/ inst[i].effect
              PROVE  Alive(i)
  <1>1. ~(inst[i] = NewInstance)
    BY DEF NewInstance
  <1>. QED BY <1>1 DEF Lives

LEMMA LivesStep == ASSUME SettingsInv, SettingsNext PROVE Lives'
  <1>t. /\ SettingsTypes /\ Lives /\ Pushes /\ Tokens
        /\ engineClip \in Engines \cup {None}
        /\ inst \in [Instances -> InstanceStates]
        /\ opening \in [Clips -> Openings]
        /\ render \in [Renders -> RenderStates]
    BY DEF SettingsInv, SettingsTypes
  <1>i. Clips \subseteq Instances /\ Engines \subseteq Instances /\ Clips \cap Engines = {}
    BY SettingsAssumption DEF Instances
  <1>n. ~NewInstance.owned /\ NoFrame.at = "idle" /\ NoFrame.clip = None
    BY DEF NewInstance, NoFrame
  <1>1. ASSUME NEW i \in Instances, Publish(i) PROVE Lives'
    <2>1. /\ \A j \in Instances : j # i => inst'[j] = inst[j]
          /\ inst'[i].owned = inst[i].owned /\ Alive(i)
      BY <1>t, <1>1, PublishDoes, Busy
    <2>. QED BY <1>t, <1>1, <2>1, LivesKept DEF KeepsLives, Publish
  <1>2. ASSUME NEW i \in Clips, OpenFile(i) PROVE Lives'
    <2>1. ~Alive(i) /\ opening[i].at = "closed"
      BY <1>t, <1>2 DEF OpenFile, Lives
    <2>2. \A j : Alive(j)' <=> Alive(j) \/ j = i
      BY <1>t, <1>i, <1>2, <2>1, JoinsTable DEF OpenFile
    <2>3. /\ engineClip' = engineClip /\ render' = render
          /\ \A j \in Instances : inst'[j] = IF j = i THEN NewInstance ELSE inst[j]
          /\ \A j \in Clips : j # i => opening'[j] = opening[j]
          /\ opening'[i].at = "made"
      BY <1>t, <1>i, <1>2 DEF OpenFile, Openings
    <2>4. \A r \in Renders : render[r].at # "idle" => render[r].clip \in Engines
      BY <1>t, RendersClip
    <2>. QED BY <1>t, <1>i, <1>n, <2>2, <2>3, <2>4 DEF Lives
  <1>3. ASSUME NEW i \in Clips, LookUp(i) PROVE Lives'
    <2>1. /\ \A j \in Instances : j # i => inst'[j] = inst[j]
          /\ inst'[i].owned = inst[i].owned
          /\ \A j \in Clips : j # i => opening'[j] = opening[j]
          /\ opening[i].at = "made" /\ opening'[i].at \in {"found", "open"}
      BY <1>t, <1>3, LookUpDoes
    <2>2. Alive(i)
      BY <1>t, <2>1 DEF Lives
    <2>. QED BY <1>t, <1>3, <2>1, <2>2, LivesKept DEF KeepsLives, LookUp
  <1>4. ASSUME NEW i \in Clips, Adopt(i) PROVE Lives'
    <2>1. /\ \A j \in Instances : j # i => inst'[j] = inst[j]
          /\ inst'[i].owned = inst[i].owned
          /\ \A j \in Clips : j # i => opening'[j] = opening[j]
          /\ opening[i].at = "found" /\ opening'[i].at = "open"
      BY <1>t, <1>4, AdoptDoes
    <2>2. Alive(i)
      BY <1>t, <2>1 DEF Lives
    <2>. QED BY <1>t, <1>4, <2>1, <2>2, LivesKept DEF KeepsLives, Adopt
  <1>5. ASSUME NEW i \in Clips, CloseFile(i) PROVE Lives'
    <2>1. \A j : Alive(j)' <=> Alive(j) /\ j # i
      BY <1>t, <1>i, <1>5, LeavesTable DEF CloseFile, Unregister
    <2>2. /\ engineClip' = engineClip /\ render' = render
          /\ \A j \in Instances : inst'[j] = IF j = i THEN NewInstance ELSE inst[j]
          /\ \A j \in Clips : j # i => opening'[j] = opening[j]
          /\ opening'[i].at = "closed"
      BY <1>t, <1>i, <1>5 DEF CloseFile, Openings
    <2>3. \A r \in Renders : render[r].at # "idle" => render[r].clip \in Engines
      BY <1>t, RendersClip
    <2>. QED BY <1>t, <1>i, <1>n, <2>1, <2>2, <2>3 DEF Lives
  <1>6. ASSUME NEW i \in Clips, NEW block \in Blobs \cup {None}, Selector(i, block) PROVE Lives'
    <2>1. /\ \A j \in Instances : j # i => inst'[j] = inst[j]
          /\ inst'[i].owned = inst[i].owned /\ opening[i].at = "open"
      BY <1>t, <1>6, SelectorDoes
    <2>2. Alive(i)
      BY <1>t, <2>1 DEF Lives
    <2>. QED BY <1>t, <1>6, <2>1, <2>2, LivesKept DEF KeepsLives, Selector
  <1>7. ASSUME NEW edit \in Blobs, Edit(edit) PROVE Lives'
    BY <1>t, <1>7, LivesKept DEF KeepsLives, Edit
  <1>8. ASSUME Push PROVE Lives'
    <2>1. /\ Target \in Instances /\ Target \in dispatch.todo
          /\ \A j \in Instances : j # Target => inst'[j] = inst[j]
          /\ inst'[Target].owned = inst[Target].owned
      BY <1>t, <1>8, PushDoes
    <2>2. Alive(Target)
      BY <1>t, <2>1 DEF Pushes
    <2>. QED BY <1>t, <1>8, <2>1, <2>2, LivesKept DEF KeepsLives, Push
  <1>9. ASSUME Pushed PROVE Lives'
    BY <1>t, <1>9, LivesKept DEF KeepsLives, Pushed
  <1>10. ASSUME NEW r \in Renders, Acquire(r) PROVE Lives'
    <2>1. CASE engineClip # None
      <3>1. /\ table' = table /\ inst' = inst /\ engineClip' = engineClip /\ opening' = opening
            /\ render' = [render EXCEPT ![r] = [NoFrame EXCEPT !.at = "clip", !.clip = engineClip]]
        BY <1>10, <2>1 DEF Acquire
      <3>2. /\ \A s \in Renders : s # r => render'[s] = render[s]
            /\ render'[r].at = "clip" /\ render'[r].clip = engineClip
        BY <1>t, <3>1 DEF NoFrame
      <3>3. \A j : Alive(j)' <=> Alive(j)
        BY <3>1 DEF Alive
      <3>. QED BY <1>t, <2>1, <3>1, <3>2, <3>3 DEF Lives
    <2>2. CASE engineClip = None
      <3>1. PICK e \in Engines :
              /\ ~Alive(e) /\ \A s \in Renders : render[s].clip # e
              /\ table' = Append(table, e) /\ inst' = [inst EXCEPT ![e] = NewInstance]
              /\ render' = [render EXCEPT ![r] = [NoFrame EXCEPT !.at = "made", !.clip = e]]
        BY <1>10, <2>2 DEF Acquire
      <3>2. \A j : Alive(j)' <=> Alive(j) \/ j = e
        BY <1>t, <1>i, <3>1, JoinsTable
      <3>3. /\ engineClip' = engineClip /\ opening' = opening
            /\ \A j \in Instances : inst'[j] = IF j = e THEN NewInstance ELSE inst[j]
            /\ \A s \in Renders : s # r => render'[s] = render[s]
            /\ render'[r].at = "made" /\ render'[r].clip = e
        BY <1>t, <1>10, <3>1 DEF Acquire, NoFrame
      <3>4. \A s \in Renders : render[s].at # "idle" => render[s].clip \in Instances
        BY <1>t, RendersClip
      <3>5. e # None
        BY SettingsAssumption
      <3>. QED BY <1>t, <1>i, <1>n, <2>2, <3>1, <3>2, <3>3, <3>4, <3>5 DEF Lives
    <2>. QED BY <2>1, <2>2
  <1>11. ASSUME NEW r \in Renders, Mark(r) PROVE Lives'
    <2>1. PICK e \in Engines :
            /\ e = render[r].clip /\ e \in Instances /\ Alive(e)
            /\ \A j \in Instances : j # e => inst'[j] = inst[j]
            /\ inst'[e].owned
      BY <1>t, <1>11, MarkDoes
    <2>2. \A j : Alive(j)' <=> Alive(j)
      BY <1>11 DEF Mark, Alive
    <2>3. /\ \A s \in Renders : s # r => render'[s] = render[s]
          /\ render'[r].clip = e /\ render[r].at = "made"
          /\ engineClip' = engineClip /\ opening' = opening
      BY <1>t, <1>11, <2>1 DEF Mark, RenderStates
    <2>4. \A s \in Renders : render[s].at # "idle" => render[s].clip \in Instances /\ render[s].clip # None
      BY <1>t, RendersClip, SettingsAssumption DEF Lives
    <2>. QED BY <1>t, <1>i, <2>1, <2>2, <2>3, <2>4 DEF Lives
  <1>12. ASSUME NEW r \in Renders, OpenClip(r) PROVE Lives'
    <2>1. /\ render[r].clip \in Engines /\ Alive(render[r].clip) /\ inst[render[r].clip].owned
          /\ render[r].clip # None
      BY <1>t, <1>12, RendersClip DEF OpenClip, Lives
    <2>2. inst' = inst /\ opening' = opening /\ \A j : Alive(j)' <=> Alive(j)
      BY <1>12 DEF OpenClip, Alive
    <2>3. CASE render' = [render EXCEPT ![r] = NoFrame] /\ engineClip' = engineClip
      BY <1>t, <1>n, <2>2, <2>3 DEF Lives
    <2>4. CASE /\ engineClip' = IF engineClip = None THEN render[r].clip ELSE engineClip
               /\ render' = [render EXCEPT ![r].at = "clip", ![r].clip = engineClip']
      <3>1. engineClip' # None /\ Alive(engineClip') /\ inst[engineClip'].owned
        BY <1>t, <2>1, <2>4 DEF Lives
      <3>2. /\ \A s \in Renders : s # r => render'[s] = render[s]
            /\ render'[r].clip = engineClip'
        <4>1. PICK c : c = engineClip'
          OBVIOUS
        <4>2. render'[r] = [[render[r] EXCEPT !.at = "clip"] EXCEPT !.clip = c]
          BY <1>t, <2>4, <4>1
        <4>3. render[r] \in RenderStates
          BY <1>t
        <4>. QED BY <1>t, <2>4, <4>1, <4>2, <4>3 DEF RenderStates
      <3>. QED BY <1>t, <2>2, <3>1, <3>2 DEF Lives
    <2>. QED BY <1>12, <2>3, <2>4 DEF OpenClip
  <1>13. ASSUME NEW r \in Renders, ReadSettings(r) PROVE Lives'
    <2>1. /\ \A s \in Renders : s # r => render'[s] = render[s]
          /\ render'[r].clip = render[r].clip /\ render[r].at = "clip"
      BY <1>t, <1>13 DEF ReadSettings, RenderStates
    <2>. QED BY <1>t, <1>13, <2>1, LivesKept DEF KeepsLives, ReadSettings
  <1>14. ASSUME NEW r \in Renders, ApplySettings(r) PROVE Lives'
    <2>1. PICK e, read : e = render[r].clip /\ read = render[r].read
      OBVIOUS
    <2>2. /\ e \in Instances /\ Alive(e) /\ render[r].at = "apply"
          /\ \A j \in Instances : j # e => inst'[j] = inst[j]
          /\ inst'[e].owned = inst[e].owned
          /\ \A s \in Renders : s # r => render'[s] = render[s]
          /\ render'[r] = NoFrame \/ render'[r].clip = e
      BY <1>t, <1>14, <2>1, ApplyDoes
    <2>. QED BY <1>t, <1>14, <2>1, <2>2, LivesKept DEF KeepsLives, ApplySettings
  <1>15. ASSUME NEW r \in Renders, ReleaseFrame(r) PROVE Lives'
    BY <1>t, <1>15, LivesKept DEF KeepsLives, ReleaseFrame
  <1>16. ASSUME Shutdown PROVE Lives'
    <2>1. \A j : Alive(j)' <=> Alive(j)
      BY <1>16 DEF Shutdown, Alive
    <2>. QED BY <1>t, <1>16, <2>1 DEF Shutdown, Lives
  <1>17. ASSUME NEW e \in Engines, Drop(e) PROVE Lives'
    <2>1. \A j : Alive(j)' <=> Alive(j) /\ j # e
      BY <1>t, <1>i, <1>17, LeavesTable DEF Drop, Unregister
    <2>2. /\ engineClip' = engineClip /\ render' = render /\ opening' = opening
          /\ engineClip # e /\ \A r \in Renders : render[r].clip # e
          /\ \A j \in Instances : inst'[j] = IF j = e THEN NewInstance ELSE inst[j]
      BY <1>t, <1>i, <1>17 DEF Drop
    <2>3. \A r \in Renders : render[r].at # "idle" => render[r].clip \in Engines
      BY <1>t, RendersClip
    <2>. QED BY <1>t, <1>i, <1>n, <2>1, <2>2, <2>3 DEF Lives
  <1>. QED BY <1>1, <1>2, <1>3, <1>4, <1>5, <1>6, <1>7, <1>8, <1>9, <1>10, <1>11, <1>12, <1>13, <1>14, <1>15, <1>16,
              <1>17 DEF SettingsNext

\* A step that gives nobody new something to publish, while no one comes or goes.
Owing(i) == inst[i].publishing # "no" /\ (i \in Engines \/ opening[i].at # "open")
KeepsPushes ==
  /\ dispatch' = dispatch /\ table' = table
  /\ \A i \in Instances : Owing(i)' => Owing(i)

LEMMA PushesKept == ASSUME Pushes, KeepsPushes PROVE Pushes'
  <1>1. Target' = Target
    BY DEF Target, KeepsPushes
  <1>2. \A i : Alive(i)' <=> Alive(i)
    BY DEF Alive, KeepsPushes
  <1>3. \A i \in Instances : Owing(i)' => dispatch.at = "pushing" /\ Target = i
    BY DEF Pushes, KeepsPushes, Owing
  <1>. QED BY <1>1, <1>2, <1>3 DEF Pushes, KeepsPushes, Owing

LEMMA PushesStep == ASSUME SettingsInv, SettingsNext PROVE Pushes'
  <1>t. /\ SettingsTypes /\ Lives /\ Pushes /\ Tokens
        /\ engineClip \in Engines \cup {None}
        /\ inst \in [Instances -> InstanceStates]
        /\ opening \in [Clips -> Openings]
        /\ render \in [Renders -> RenderStates]
        /\ dispatch \in Dispatches
    BY DEF SettingsInv, SettingsTypes
  <1>i. Clips \subseteq Instances /\ Engines \subseteq Instances /\ Clips \cap Engines = {}
    BY SettingsAssumption DEF Instances
  <1>n. NewInstance.publishing = "no"
    BY DEF NewInstance
  <1>o. \A i \in Instances : Owing(i) => dispatch.at = "pushing" /\ Target = i
    BY <1>t DEF Pushes, Owing
  <1>1. ASSUME NEW i \in Instances, Publish(i) PROVE Pushes'
    <2>1. \A j \in Instances : Owing(j)' => Owing(j) /\ j # i
      <3>1. /\ \A j \in Instances : j # i => inst'[j] = inst[j]
            /\ inst'[i].publishing = "no" /\ opening' = opening
        BY <1>t, <1>1, PublishDoes DEF Publish
      <3>. QED BY <3>1 DEF Owing
    <2>2. table' = table
      BY <1>1 DEF Publish
    <2>3. CASE dispatch.at = "pushing" /\ Target = i
      <3>1. dispatch' = [dispatch EXCEPT !.at = "push", !.todo = @ \ {i}]
        BY <1>1, <2>3 DEF Publish
      <3>2. dispatch'.at = "push" /\ dispatch'.todo = dispatch.todo \ {i}
        BY <1>t, <3>1 DEF Dispatches
      <3>3. \A j \in Instances : ~Owing(j)'
        BY <1>o, <2>1, <2>3
      <3>4. \A j : Alive(j)' <=> Alive(j)
        BY <2>2 DEF Alive
      <3>. QED BY <1>t, <3>2, <3>3, <3>4 DEF Pushes, Owing
    <2>4. CASE ~(dispatch.at = "pushing" /\ Target = i)
      <3>1. dispatch' = dispatch
        BY <1>1, <2>4 DEF Publish
      <3>. QED BY <1>t, <2>1, <2>2, <3>1, PushesKept DEF KeepsPushes
    <2>. QED BY <2>3, <2>4
  \* Somebody new: it has nothing to publish, and the push does not go to it.
  <1>a. ASSUME NEW e \in Instances, ~Alive(e), table' = Append(table, e), dispatch' = dispatch,
               \A j \in Instances : Owing(j)' => Owing(j)
        PROVE  Pushes'
    <2>1. \A j : Alive(j)' <=> Alive(j) \/ j = e
      BY <1>t, <1>a, JoinsTable
    <2>2. dispatch.at = "pushing" => Target' = Target
      BY <1>t, <1>a, TargetStays DEF Pushes
    <2>3. \A j \in Instances : Owing(j)' => dispatch'.at = "pushing" /\ Target' = j
      BY <1>o, <1>a, <2>2
    <2>. QED BY <1>t, <1>a, <2>1, <2>3 DEF Pushes, Owing
  \* Somebody goes: no push is under way.
  <1>c. ASSUME dispatch.at = "idle", dispatch' = dispatch, \A j \in Instances : Owing(j)' => Owing(j)
        PROVE  Pushes'
    <2>1. \A j \in Instances : ~Owing(j)'
      BY <1>o, <1>c
    <2>. QED BY <1>t, <1>c, <2>1 DEF Pushes, Owing
  <1>2. ASSUME NEW i \in Clips, OpenFile(i) PROVE Pushes'
    <2>1. ~Alive(i)
      BY <1>t, <1>2 DEF OpenFile, Lives
    <2>2. /\ \A j \in Instances : inst'[j] = IF j = i THEN NewInstance ELSE inst[j]
          /\ \A j \in Clips : j # i => opening'[j] = opening[j]
      BY <1>t, <1>i, <1>2 DEF OpenFile
    <2>3. \A j \in Instances : Owing(j)' => Owing(j)
      BY <1>n, <1>i, <2>2 DEF Owing, Instances
    <2>. QED BY <1>a, <1>i, <1>2, <2>1, <2>3 DEF OpenFile
  <1>3. ASSUME NEW i \in Clips, LookUp(i) PROVE Pushes'
    <2>1. /\ \A j \in Instances : j # i => inst'[j] = inst[j]
          /\ inst'[i].publishing = inst[i].publishing /\ inst[i].publishing = "no"
          /\ \A j \in Clips : j # i => opening'[j] = opening[j]
      BY <1>t, <1>3, LookUpDoes
    <2>2. \A j \in Instances : Owing(j)' => Owing(j)
      BY <1>i, <2>1 DEF Owing, Instances
    <2>. QED BY <1>t, <1>3, <2>2, PushesKept DEF LookUp, KeepsPushes
  <1>4. ASSUME NEW i \in Clips, Adopt(i) PROVE Pushes'
    <2>1. /\ \A j \in Instances : j # i => inst'[j] = inst[j]
          /\ \A j \in Clips : j # i => opening'[j] = opening[j]
          /\ opening'[i].at = "open"
      BY <1>t, <1>4, AdoptDoes
    <2>2. \A j \in Instances : Owing(j)' => Owing(j)
      BY <1>i, <2>1 DEF Owing, Instances
    <2>. QED BY <1>t, <1>4, <2>2, PushesKept DEF Adopt, KeepsPushes
  <1>5. ASSUME NEW i \in Clips, CloseFile(i) PROVE Pushes'
    <2>1. /\ \A j \in Instances : inst'[j] = IF j = i THEN NewInstance ELSE inst[j]
          /\ \A j \in Clips : j # i => opening'[j] = opening[j]
      BY <1>t, <1>i, <1>5 DEF CloseFile
    <2>2. \A j \in Instances : Owing(j)' => Owing(j)
      BY <1>n, <1>i, <2>1 DEF Owing, Instances
    <2>. QED BY <1>c, <1>5, <2>2 DEF CloseFile, Unregister
  <1>6. ASSUME NEW i \in Clips, NEW block \in Blobs \cup {None}, Selector(i, block) PROVE Pushes'
    <2>1. /\ \A j \in Instances : j # i => inst'[j] = inst[j]
          /\ opening[i].at = "open" /\ opening' = opening
      BY <1>t, <1>6, SelectorDoes DEF Selector
    <2>2. \A j \in Instances : Owing(j)' => Owing(j)
      BY <1>i, <2>1 DEF Owing, Instances
    <2>. QED BY <1>t, <1>6, <2>2, PushesKept DEF Selector, KeepsPushes
  <1>7. ASSUME NEW edit \in Blobs, Edit(edit) PROVE Pushes'
    <2>1. /\ dispatch.at = "idle" /\ dispatch'.at = "push" /\ dispatch'.todo = Candidates
          /\ inst' = inst /\ opening' = opening /\ table' = table
      BY <1>7 DEF Edit
    <2>2. \A j \in Instances : ~Owing(j)'
      BY <1>o, <2>1 DEF Owing
    <2>3. \A j \in Candidates : Alive(j)'
      BY <2>1 DEF Candidates, Alive
    <2>. QED BY <2>1, <2>2, <2>3 DEF Pushes, Owing
  <1>8. ASSUME Push PROVE Pushes'
    <2>1. /\ Target \in Instances /\ Target \in dispatch.todo
          /\ \A j \in Instances : j # Target => inst'[j] = inst[j]
      BY <1>t, <1>8, PushDoes
    <2>2. /\ dispatch'.at = "pushing" /\ dispatch'.todo = dispatch.todo /\ dispatch.at = "push"
          /\ table' = table /\ opening' = opening
      BY <1>t, <1>8 DEF Push, Dispatches
    <2>3. Target' = Target
      BY <2>2 DEF Target
    <2>4. \A j \in Instances : Owing(j)' => Target' = j
      BY <1>o, <2>1, <2>2, <2>3 DEF Owing
    <2>5. \A j : Alive(j)' <=> Alive(j)
      BY <2>2 DEF Alive
    <2>. QED BY <1>t, <2>1, <2>2, <2>4, <2>5 DEF Pushes, Owing
  <1>9. ASSUME Pushed PROVE Pushes'
    <2>1. /\ dispatch.at = "push" /\ dispatch'.at = "idle" /\ dispatch'.todo = {}
          /\ inst' = inst /\ opening' = opening
      BY <1>9 DEF Pushed, NoPush
    <2>2. \A j \in Instances : ~Owing(j)'
      BY <1>o, <2>1 DEF Owing
    <2>. QED BY <2>1, <2>2 DEF Pushes, Owing
  <1>10. ASSUME NEW r \in Renders, Acquire(r) PROVE Pushes'
    <2>1. CASE engineClip # None
      BY <1>t, <1>10, <2>1, PushesKept DEF Acquire, KeepsPushes, Owing
    <2>2. CASE engineClip = None
      <3>1. PICK e \in Engines :
              ~Alive(e) /\ table' = Append(table, e) /\ inst' = [inst EXCEPT ![e] = NewInstance]
        BY <1>10, <2>2 DEF Acquire
      <3>2. \A j \in Instances : inst'[j] = IF j = e THEN NewInstance ELSE inst[j]
        BY <1>t, <3>1
      <3>3. dispatch' = dispatch /\ opening' = opening
        BY <1>10 DEF Acquire
      <3>4. \A j \in Instances : Owing(j)' => Owing(j)
        BY <1>n, <3>2, <3>3 DEF Owing
      <3>. QED BY <1>a, <1>i, <3>1, <3>3, <3>4
    <2>. QED BY <2>1, <2>2
  <1>11. ASSUME NEW r \in Renders, Mark(r) PROVE Pushes'
    <2>1. PICK e \in Instances :
            /\ e = render[r].clip
            /\ \A j \in Instances : j # e => inst'[j] = inst[j]
            /\ inst'[e].publishing = inst[e].publishing
      BY <1>t, <1>11, MarkDoes
    <2>2. opening' = opening /\ dispatch' = dispatch /\ table' = table
      BY <1>11 DEF Mark
    <2>3. \A j \in Instances : Owing(j)' => Owing(j)
      BY <2>1, <2>2 DEF Owing
    <2>. QED BY <1>t, <2>2, <2>3, PushesKept DEF KeepsPushes
  <1>12. ASSUME NEW r \in Renders, OpenClip(r) PROVE Pushes'
    BY <1>t, <1>12, PushesKept DEF OpenClip, KeepsPushes, Owing
  <1>13. ASSUME NEW r \in Renders, ReadSettings(r) PROVE Pushes'
    BY <1>t, <1>13, PushesKept DEF ReadSettings, KeepsPushes, Owing
  <1>14. ASSUME NEW r \in Renders, ApplySettings(r) PROVE Pushes'
    <2>1. PICK e, read : e = render[r].clip /\ read = render[r].read
      OBVIOUS
    <2>2. /\ e \in Instances /\ \A j \in Instances : j # e => inst'[j] = inst[j]
          /\ inst'[e].publishing = inst[e].publishing
      BY <1>t, <1>14, <2>1, ApplyDoes
    <2>3. opening' = opening /\ dispatch' = dispatch /\ table' = table
      BY <1>14 DEF ApplySettings
    <2>4. \A j \in Instances : Owing(j)' => Owing(j)
      BY <2>2, <2>3 DEF Owing
    <2>. QED BY <1>t, <2>3, <2>4, PushesKept DEF KeepsPushes
  <1>15. ASSUME NEW r \in Renders, ReleaseFrame(r) PROVE Pushes'
    BY <1>t, <1>15, PushesKept DEF ReleaseFrame, KeepsPushes, Owing
  <1>16. ASSUME Shutdown PROVE Pushes'
    BY <1>t, <1>16, PushesKept DEF Shutdown, KeepsPushes, Owing
  <1>17. ASSUME NEW e \in Engines, Drop(e) PROVE Pushes'
    <2>1. \A j \in Instances : inst'[j] = IF j = e THEN NewInstance ELSE inst[j]
      BY <1>t, <1>i, <1>17 DEF Drop
    <2>2. \A j \in Instances : Owing(j)' => Owing(j)
      BY <1>n, <1>17, <2>1 DEF Owing, Drop
    <2>. QED BY <1>c, <1>17, <2>2 DEF Drop, Unregister
  <1>. QED BY <1>1, <1>2, <1>3, <1>4, <1>5, <1>6, <1>7, <1>8, <1>9, <1>10, <1>11, <1>12, <1>13, <1>14, <1>15, <1>16,
              <1>17 DEF SettingsNext

\* A step that gives out no token and publishes nothing.
SameToken(i) ==
    /\ inst'[i].token = inst[i].token /\ inst'[i].told = inst[i].told
    /\ inst'[i].publishing = inst[i].publishing /\ inst'[i].effect = inst[i].effect
    /\ inst[i].told => inst'[i].prefs = inst[i].prefs
KeepsTokens ==
    /\ token' = token
    /\ slot = None => slot' = None
    /\ slot # None => /\ slot' # None /\ slot'.publisher = slot.publisher
                      /\ slot'.fromHost = slot.fromHost /\ slot'.prefs = slot.prefs
    /\ \A i \in Instances : inst'[i] = inst[i] \/ inst'[i] = NewInstance \/ SameToken(i)

LEMMA TokensKept == ASSUME SettingsTypes, Tokens, KeepsTokens PROVE Tokens'
  <1>t. token \in Nat \ {0} /\ token' = token
    BY DEF SettingsTypes, KeepsTokens
  <1>s. /\ slot = None => slot' = None
        /\ slot # None => /\ slot' # None /\ slot'.publisher = slot.publisher
                          /\ slot'.fromHost = slot.fromHost /\ slot'.prefs = slot.prefs
    BY DEF KeepsTokens
  <1>n. NewInstance.token = 0 /\ ~NewInstance.told /\ NewInstance.publishing = "no"
    BY DEF NewInstance
  <1>1. ASSUME NEW i \in Instances
        PROVE  \/ SameToken(i)
               \/ inst'[i].token = 0 /\ ~inst'[i].told /\ inst'[i].publishing = "no"
    <2>1. inst'[i] = inst[i] => SameToken(i)
      BY DEF SameToken
    <2>. QED BY <1>n, <2>1 DEF KeepsTokens
  <1>2. \A i \in Instances : Given(i)'
    <2>1. SUFFICES ASSUME NEW i \in Instances PROVE Given(i)'
      OBVIOUS
    <2>2. CASE SameToken(i)
      BY <1>t, <2>2 DEF SameToken, Tokens, Given
    <2>3. CASE inst'[i].token = 0 /\ ~inst'[i].told /\ inst'[i].publishing = "no"
      BY <1>t, <2>3 DEF Given
    <2>. QED BY <1>1, <2>2, <2>3
  <1>3. \A i \in Instances : Stands(i)'
    <2>1. SUFFICES ASSUME NEW i \in Instances PROVE Stands(i)'
      OBVIOUS
    <2>2. CASE SameToken(i)
      BY <1>s, <2>2 DEF SameToken, Tokens, Stands
    <2>3. CASE ~inst'[i].told
      BY <2>3 DEF Stands
    <2>. QED BY <1>1, <2>2, <2>3
  <1>4. \A i, j \in Instances : inst'[j].token = inst'[i].token /\ inst'[i].token # 0 => j = i
    BY <1>1 DEF SameToken, Tokens
  <1>5. ASSUME NEW e \in Engines
        PROVE  /\ inst'[e].told \/ inst'[e].publishing # "no" => inst'[e].effect
               /\ inst'[e].publishing = "no" \/ (inst'[e].publishing = "host" /\ ~inst'[e].told)
    <2>1. e \in Instances
      BY DEF Instances
    <2>2. CASE SameToken(e)
      BY <2>1, <2>2 DEF SameToken, Tokens
    <2>3. CASE inst'[e].token = 0 /\ ~inst'[e].told /\ inst'[e].publishing = "no"
      BY <2>3
    <2>. QED BY <1>1, <2>1, <2>2, <2>3
  <1>. QED BY <1>t, <1>s, <1>2, <1>3, <1>4, <1>5 DEF Tokens

\* A step that gives an instance the next token, for a publication it has still to make.
LEMMA TokenGiven ==
  ASSUME SettingsTypes, Tokens, slot' = slot, token' = token + 1, NEW i \in Instances,
         \A j \in Instances : j # i => inst'[j] = inst[j],
         inst'[i].token = token, ~inst'[i].told, inst'[i].publishing = "host", inst'[i].effect
  PROVE  Tokens'
  <1>t. token \in Nat \ {0} /\ \A j \in Instances : inst[j].token \in Nat
    BY DEF SettingsTypes, InstanceStates
  <1>1. slot' # None => slot'.publisher < token'
    BY <1>t DEF Tokens, SettingsTypes, PublishedSettings
  <1>2. ASSUME NEW j \in Instances PROVE Given(j)' /\ Stands(j)'
    <2>1. CASE j = i
      BY <1>t, <2>1 DEF Given, Stands
    <2>2. CASE j # i
      BY <1>t, <2>2 DEF Given, Stands, Tokens
    <2>. QED BY <2>1, <2>2
  <1>3. \A j, k \in Instances : inst'[k].token = inst'[j].token /\ inst'[j].token # 0 => k = j
    BY <1>t DEF Tokens, Given
  <1>4. ASSUME NEW e \in Engines
        PROVE  /\ inst'[e].told \/ inst'[e].publishing # "no" => inst'[e].effect
               /\ inst'[e].publishing = "no" \/ (inst'[e].publishing = "host" /\ ~inst'[e].told)
    BY DEF Instances, Tokens
  <1>. QED BY <1>1, <1>2, <1>3, <1>4 DEF Tokens

\* A publication: the youngest instance of the host's that has told the registry stays
\* in it.
LEMMA TokensPublish == ASSUME SettingsTypes, Lives, Tokens, NEW i \in Instances, Publish(i) PROVE Tokens'
  <1>t. /\ token \in Nat \ {0} /\ \A j \in Instances : inst[j] \in InstanceStates /\ inst[j].token \in Nat
        /\ slot \in PublishedSettings \cup {None}
    BY DEF SettingsTypes, InstanceStates
  <1>0. token' = token
    BY DEF Publish
  <1>d. /\ \A j \in Instances : j # i => inst'[j] = inst[j]
        /\ inst'[i].prefs = inst[i].prefs /\ inst'[i].effect = inst[i].effect
        /\ inst'[i].token = inst[i].token
        /\ inst'[i].publishing = "no" /\ inst[i].publishing # "no"
        /\ inst'[i].told <=> inst[i].told \/ (inst[i].publishing = "host" /\ ~inst[i].owned)
        /\ inst[i].owned => slot' = slot
        /\ ~inst[i].owned => Publishes(inst[i], slot')
    BY PublishDoes
  <1>g. \A j \in Instances : Given(j)'
    <2>1. SUFFICES ASSUME NEW j \in Instances PROVE Given(j)'
      OBVIOUS
    <2>2. CASE j = i
      BY <1>t, <1>0, <1>d, <2>2 DEF Tokens, Given
    <2>3. CASE j # i
      BY <1>t, <1>0, <1>d, <2>3 DEF Tokens, Given
    <2>. QED BY <2>2, <2>3
  <1>u. \A j, k \in Instances : inst'[k].token = inst'[j].token /\ inst'[j].token # 0 => k = j
    BY <1>d DEF Tokens
  <1>e. ASSUME NEW e \in Engines
        PROVE  /\ inst'[e].told \/ inst'[e].publishing # "no" => inst'[e].effect
               /\ inst'[e].publishing = "no" \/ (inst'[e].publishing = "host" /\ ~inst'[e].told)
    <2>1. e \in Instances
      BY DEF Instances
    <2>. QED BY <1>d, <2>1 DEF Tokens
  <1>1. CASE inst[i].owned
    <2>1. i \in Engines /\ slot' = slot
      BY <1>d, <1>1 DEF Lives, Instances
    <2>2. ~inst[i].told /\ ~inst'[i].told
      BY <1>d, <1>1, <2>1 DEF Tokens
    <2>3. ASSUME NEW j \in Instances PROVE Stands(j)'
      BY <1>d, <2>1, <2>2 DEF Tokens, Stands
    <2>. QED BY <1>0, <1>g, <1>u, <1>e, <2>1, <2>3 DEF Tokens
  <1>2. CASE ~inst[i].owned
    <2>1. PICK p \in InstanceStates, n \in {slot'} : p = inst[i] /\ n = slot' /\ Publishes(p, n)
      BY <1>t, <1>d, <1>2
    <2>2. /\ n \in PublishedSettings
          /\ \/ n.prefs = p.prefs /\ n.publisher = p.token /\ (n.fromHost <=> p.publishing = "host")
             \/ slot # None /\ n = slot
          /\ p.publishing = "host" =>
               /\ n.fromHost /\ n.publisher >= p.token
               /\ n.publisher = p.token => n.prefs = p.prefs
          /\ slot # None /\ slot.fromHost =>
               \/ n = slot
               \/ p.publishing = "host" /\ p.token >= slot.publisher /\ n.publisher = p.token
      BY <1>t, <2>1, PublishIs
    <2>3. n # None /\ n.publisher \in Nat /\ p.token < token /\ p.token # 0
      BY <1>t, <1>d, <2>1, <2>2, SettingsAssumption DEF PublishedSettings, Tokens, Given
    <2>4. n.publisher < token
      BY <2>2, <2>3 DEF Tokens
    <2>5. Stands(i)'
      <3>1. CASE inst[i].publishing = "host"
        BY <1>d, <2>1, <2>2, <2>3, <3>1 DEF Stands
      <3>2. CASE inst[i].publishing # "host" /\ inst[i].told
        <4>1. slot # None /\ slot.fromHost /\ slot.publisher >= inst[i].token
              /\ (slot.publisher = inst[i].token => slot.prefs = inst[i].prefs)
          BY <3>2 DEF Tokens, Stands
        <4>2. n = slot
          BY <2>1, <2>2, <3>2, <4>1
        <4>. QED BY <1>d, <2>1, <4>1, <4>2 DEF Stands
      <3>3. CASE inst[i].publishing # "host" /\ ~inst[i].told
        BY <1>d, <3>3 DEF Stands
      <3>. QED BY <3>1, <3>2, <3>3
    <2>6. ASSUME NEW j \in Instances, j # i PROVE Stands(j)'
      <3>1. CASE inst[j].told
        <4>1. slot # None /\ slot.fromHost /\ slot.publisher >= inst[j].token /\ inst[j].token # 0
              /\ (slot.publisher = inst[j].token /\ inst[j].publishing # "host" => slot.prefs = inst[j].prefs)
          BY <3>1 DEF Tokens, Stands, Given
        <4>2. CASE n = slot
          BY <1>d, <2>1, <2>6, <4>1, <4>2 DEF Stands
        <4>3. CASE p.publishing = "host" /\ p.token >= slot.publisher /\ n.publisher = p.token
          <5>1. p.token # inst[j].token
            BY <2>1, <2>6, <4>1 DEF Tokens
          <5>2. slot.publisher \in Nat /\ p.token \in Nat /\ inst[j].token \in Nat
            BY <1>t, <2>1, <4>1 DEF PublishedSettings
          <5>3. n.publisher >= inst[j].token /\ n.publisher # inst[j].token /\ n.fromHost
            BY <2>2, <4>1, <4>3, <5>1, <5>2
          <5>4. inst'[j] = inst[j]
            BY <1>d, <2>6
          <5>. QED BY <2>1, <2>3, <5>3, <5>4 DEF Stands
        <4>. QED BY <2>2, <4>1, <4>2, <4>3
      <3>2. CASE ~inst[j].told
        BY <1>d, <2>6, <3>2 DEF Stands
      <3>. QED BY <3>1, <3>2
    <2>. QED BY <1>0, <1>g, <1>u, <1>e, <2>1, <2>4, <2>5, <2>6 DEF Tokens
  <1>. QED BY <1>1, <1>2

\* A selector: a token for the first publication only.
LEMMA TokensSelect ==
  ASSUME SettingsTypes, Tokens, NEW i \in Clips, NEW block \in Blobs \cup {None}, Selector(i, block)
  PROVE  Tokens'
  <1>t. /\ token \in Nat \ {0} /\ \A j \in Instances : inst[j].token \in Nat
        /\ (slot # None => slot.publisher \in Nat) /\ slot' = slot
        /\ i \in Instances /\ i \notin Engines
    BY SettingsAssumption DEF SettingsTypes, InstanceStates, PublishedSettings, Selector, registry, Instances
  <1>d. /\ \A j \in Instances : j # i => inst'[j] = inst[j]
        /\ inst'[i].effect = inst[i].effect /\ inst'[i].told = inst[i].told
        /\ inst'[i].prefs # inst[i].prefs => ~inst[i].effect /\ inst'[i].publishing = "host"
        /\ \/ inst'[i].token = inst[i].token /\ token' = token
           \/ inst[i].token = 0 /\ inst'[i].token = token /\ token' = token + 1
        /\ inst'[i].publishing # "no" /\ inst'[i].token # 0
        /\ inst[i].publishing = "no"
    BY SelectorDoes
  <1>1. slot' # None => slot'.publisher < token'
    BY <1>t, <1>d DEF Tokens
  <1>2. \A j \in Instances : Given(j)'
    <2>1. SUFFICES ASSUME NEW j \in Instances PROVE Given(j)'
      OBVIOUS
    <2>2. inst[j].token < token /\ (inst[j].told \/ inst[j].publishing # "no" => inst[j].token # 0)
      BY DEF Tokens, Given
    <2>. QED BY <1>t, <1>d, <2>2 DEF Given
  <1>3. \A j \in Instances : Stands(j)'
    <2>1. SUFFICES ASSUME NEW j \in Instances PROVE Stands(j)'
      OBVIOUS
    <2>2. CASE j # i
      BY <1>t, <1>d, <2>2 DEF Stands, Tokens
    <2>3. CASE j = i
      <3>1. CASE inst[i].told
        <4>1. /\ slot # None /\ slot.fromHost /\ slot.publisher >= inst[i].token /\ inst[i].token # 0
              /\ slot.publisher = inst[i].token => slot.prefs = inst[i].prefs
          BY <1>t, <1>d, <3>1 DEF Stands, Given, Tokens
        <4>. QED BY <1>t, <1>d, <2>3, <4>1 DEF Stands
      <3>2. CASE ~inst[i].told
        BY <1>d, <2>3, <3>2 DEF Stands
      <3>. QED BY <3>1, <3>2
    <2>. QED BY <2>2, <2>3
  <1>4. \A j, k \in Instances : inst'[k].token = inst'[j].token /\ inst'[j].token # 0 => k = j
    <2>1. \A j \in Instances : inst[j].token < token
      BY DEF Tokens, Given
    <2>2. \A j, k \in Instances : inst[k].token = inst[j].token /\ inst[j].token # 0 => k = j
      BY DEF Tokens
    <2>. QED BY <1>t, <1>d, <2>1, <2>2
  <1>5. ASSUME NEW e \in Engines
        PROVE  /\ inst'[e].told \/ inst'[e].publishing # "no" => inst'[e].effect
               /\ inst'[e].publishing = "no" \/ (inst'[e].publishing = "host" /\ ~inst'[e].told)
    BY <1>t, <1>d DEF Instances, Tokens
  <1>. QED BY <1>1, <1>2, <1>3, <1>4, <1>5 DEF Tokens

LEMMA TokensStep == ASSUME SettingsInv, SettingsNext PROVE Tokens'
  <1>t. /\ SettingsTypes /\ Lives /\ Pushes /\ Tokens
        /\ inst \in [Instances -> InstanceStates]
        /\ slot \in PublishedSettings \cup {None}
    BY DEF SettingsInv, SettingsTypes
  <1>i. Clips \subseteq Instances /\ Engines \subseteq Instances
    BY DEF Instances
  \* Nothing but an instance that is new, or gone.
  <1>n. ASSUME slot' = slot, token' = token, NEW i \in Instances, inst' = [inst EXCEPT ![i] = NewInstance]
        PROVE  Tokens'
    <2>1. \A j \in Instances : inst'[j] = inst[j] \/ inst'[j] = NewInstance
      BY <1>t, <1>n
    <2>. QED BY <1>t, <1>n, <2>1, TokensKept DEF KeepsTokens
  <1>u. ASSUME slot' = slot, token' = token, inst' = inst PROVE Tokens'
    BY <1>t, <1>u, TokensKept DEF KeepsTokens
  <1>1. ASSUME NEW i \in Instances, Publish(i) PROVE Tokens'
    BY <1>t, <1>1, TokensPublish
  <1>2. ASSUME NEW i \in Clips, OpenFile(i) PROVE Tokens'
    BY <1>i, <1>n, <1>2 DEF OpenFile, registry
  <1>3. ASSUME NEW i \in Clips, LookUp(i) PROVE Tokens'
    <2>1. \A j \in Instances : inst'[j] = inst[j] \/ SameToken(j)
      BY <1>t, <1>3, LookUpDoes DEF SameToken
    <2>. QED BY <1>t, <1>3, <2>1, TokensKept DEF KeepsTokens, LookUp, registry
  <1>4. ASSUME NEW i \in Clips, Adopt(i) PROVE Tokens'
    <2>1. /\ \A j \in Instances : j # i => inst'[j] = inst[j]
          /\ inst'[i].token = token /\ ~inst'[i].told /\ inst'[i].publishing = "host" /\ inst'[i].effect
      BY <1>t, <1>4, AdoptDoes
    <2>. QED BY <1>t, <1>i, <1>4, <2>1, TokenGiven DEF Adopt, registry
  <1>5. ASSUME NEW i \in Clips, CloseFile(i) PROVE Tokens'
    BY <1>i, <1>n, <1>5 DEF CloseFile, registry
  <1>6. ASSUME NEW i \in Clips, NEW block \in Blobs \cup {None}, Selector(i, block) PROVE Tokens'
    BY <1>t, <1>6, TokensSelect
  <1>7. ASSUME NEW edit \in Blobs, Edit(edit) PROVE Tokens'
    BY <1>u, <1>7 DEF Edit, registry
  <1>8. ASSUME Push PROVE Tokens'
    <2>1. /\ Target \in Instances
          /\ \A j \in Instances : j # Target => inst'[j] = inst[j]
          /\ inst'[Target].token = token /\ ~inst'[Target].told /\ inst'[Target].publishing = "host"
          /\ inst'[Target].effect
      BY <1>t, <1>8, PushDoes
    <2>2. slot' = slot /\ token' = token + 1
      BY <1>8 DEF Push, registry
    <2>3. PICK i \in Instances : i = Target
      BY <2>1
    <2>. QED BY <1>t, <2>1, <2>2, <2>3, TokenGiven
  <1>9. ASSUME Pushed PROVE Tokens'
    <2>1. /\ slot = None => slot' = None
          /\ slot # None => /\ slot' # None /\ slot'.publisher = slot.publisher
                            /\ slot'.fromHost = slot.fromHost /\ slot'.prefs = slot.prefs
      <3>1. slot # None => slot' = [slot EXCEPT !.fromEffect = TRUE]
        BY <1>9 DEF Pushed
      <3>2. slot # None => slot' \in PublishedSettings
        BY <1>t, <3>1 DEF PublishedSettings
      <3>3. slot = None => slot' = None
        BY <1>9 DEF Pushed
      <3>. QED BY <1>t, <3>1, <3>2, <3>3, SettingsAssumption DEF PublishedSettings
    <2>2. token' = token /\ inst' = inst
      BY <1>9 DEF Pushed
    <2>. QED BY <1>t, <2>1, <2>2, TokensKept DEF KeepsTokens
  <1>10. ASSUME NEW r \in Renders, Acquire(r) PROVE Tokens'
    <2>1. slot' = slot /\ token' = token
      BY <1>10 DEF Acquire, registry
    <2>2. CASE engineClip # None
      BY <1>u, <1>10, <2>1, <2>2 DEF Acquire
    <2>3. CASE engineClip = None
      <3>1. PICK e \in Engines : inst' = [inst EXCEPT ![e] = NewInstance]
        BY <1>10, <2>3 DEF Acquire
      <3>. QED BY <1>i, <1>n, <2>1, <3>1
    <2>. QED BY <2>2, <2>3
  <1>11. ASSUME NEW r \in Renders, Mark(r) PROVE Tokens'
    <2>1. \A j \in Instances : inst'[j] = inst[j] \/ SameToken(j)
      BY <1>t, <1>11, MarkDoes DEF SameToken
    <2>. QED BY <1>t, <1>11, <2>1, TokensKept DEF KeepsTokens, Mark, registry
  <1>12. ASSUME NEW r \in Renders, OpenClip(r) PROVE Tokens'
    BY <1>u, <1>12 DEF OpenClip, registry
  <1>13. ASSUME NEW r \in Renders, ReadSettings(r) PROVE Tokens'
    BY <1>u, <1>13 DEF ReadSettings, registry
  <1>14. ASSUME NEW r \in Renders, ApplySettings(r) PROVE Tokens'
    <2>1. PICK e, read : e = render[r].clip /\ read = render[r].read
      OBVIOUS
    <2>2. /\ e \in Engines /\ e \in Instances
          /\ \A j \in Instances : j # e => inst'[j] = inst[j]
          /\ inst'[e].effect = inst[e].effect /\ inst'[e].token = inst[e].token
          /\ inst'[e].publishing = inst[e].publishing /\ inst'[e].told = inst[e].told
          /\ inst[e].effect => inst'[e].prefs = inst[e].prefs
      BY <1>t, <1>14, <2>1, ApplyDoes
    <2>3. inst[e].told => inst[e].effect
      BY <1>t, <2>2 DEF Tokens
    <2>4. \A j \in Instances : inst'[j] = inst[j] \/ SameToken(j)
      BY <2>2, <2>3 DEF SameToken
    <2>. QED BY <1>t, <1>14, <2>4, TokensKept DEF KeepsTokens, ApplySettings, registry
  <1>15. ASSUME NEW r \in Renders, ReleaseFrame(r) PROVE Tokens'
    BY <1>u, <1>15 DEF ReleaseFrame, registry
  <1>16. ASSUME Shutdown PROVE Tokens'
    BY <1>u, <1>16 DEF Shutdown, registry
  <1>17. ASSUME NEW e \in Engines, Drop(e) PROVE Tokens'
    BY <1>i, <1>n, <1>17 DEF Drop, registry
  <1>. QED BY <1>1, <1>2, <1>3, <1>4, <1>5, <1>6, <1>7, <1>8, <1>9, <1>10, <1>11, <1>12, <1>13, <1>14, <1>15, <1>16,
              <1>17 DEF SettingsNext

\* A step that publishes nothing: what the engine's threads read and lease is recorded.
KeepsHistory ==
    /\ history' = history
    /\ slot = None => slot' = None
    /\ slot # None => slot' # None /\ slot'.prefs = slot.prefs /\ slot'.generation = slot.generation
    /\ \A e \in Engines : (\E r \in Renders : render[r].clip = e) /\ inst[e].effect => inst'[e].effect
    /\ \A r \in Renders :
         \/ render'[r] = render[r]
         \/ render'[r].at # "leased" /\ render'[r].read \in {None, slot, render[r].read}
         \/ /\ render'[r].read = None
            /\ render'[r].generation > 0 =>
                 /\ render[r].read # None /\ render'[r].generation = render[r].read.generation
                 /\ render'[r].prefs = render[r].read.prefs \/ inst'[render'[r].clip].effect

LEMMA HistoriesKept == ASSUME SettingsTypes, Lives, Histories, KeepsHistory PROVE Histories'
  <1>1. /\ history' = history /\ (slot = None => slot' = None)
        /\ slot # None => slot' # None /\ slot'.prefs = slot.prefs /\ slot'.generation = slot.generation
    BY DEF KeepsHistory
  <1>2. /\ slot' = None => history' = <<>>
        /\ slot' # None => slot'.generation = Len(history')
        /\ Recorded(slot)'
    BY <1>1 DEF Histories, Recorded
  <1>3. \A s : Recorded(s)' <=> Recorded(s)
    BY <1>1 DEF Recorded
  <1>4. ASSUME NEW r \in Renders
        PROVE  /\ Recorded(render'[r].read)
               /\ render'[r].at = "leased" /\ render'[r].generation > 0 =>
                    /\ render'[r].generation \in 1 .. Len(history)
                    /\ \/ render'[r].prefs = history[render'[r].generation]
                       \/ inst'[render'[r].clip].effect
    <2>0. /\ Recorded(slot) /\ Recorded(render[r].read) /\ Recorded(None)
          /\ render[r].at = "leased" => FrameRight(render[r])
      BY DEF Histories, Recorded
    <2>1. CASE render'[r] = render[r]
      <3>1. render[r].at = "leased" /\ inst[render[r].clip].effect => inst'[render[r].clip].effect
        <4>1. render[r].at = "leased" => render[r].clip \in Engines
          BY RendersClip
        <4>. QED BY <4>1 DEF KeepsHistory
      <3>. QED BY <2>0, <2>1, <3>1 DEF FrameRight
    <2>2. CASE render'[r].at # "leased" /\ render'[r].read \in {None, slot, render[r].read}
      BY <2>0, <2>2
    <2>3. CASE /\ render'[r].read = None
               /\ render'[r].generation > 0 =>
                    /\ render[r].read # None /\ render'[r].generation = render[r].read.generation
                    /\ render'[r].prefs = render[r].read.prefs \/ inst'[render'[r].clip].effect
      BY <2>0, <2>3 DEF Recorded
    <2>. QED BY <2>1, <2>2, <2>3 DEF KeepsHistory
  <1>. QED BY <1>1, <1>2, <1>3, <1>4 DEF Histories, Recorded, FrameRight

LEMMA HistoriesPublish ==
  ASSUME SettingsTypes, Lives, Histories, NEW i \in Instances, Publish(i)
  PROVE  Histories'
  <1>t. /\ history \in Seq(Blobs) /\ slot \in PublishedSettings \cup {None}
        /\ inst[i] \in InstanceStates
        /\ Len(history) \in Nat
    BY DEF SettingsTypes
  <1>d. /\ \A j \in Instances : inst'[j].effect = inst[j].effect
        /\ inst[i].owned => slot' = slot
        /\ ~inst[i].owned => Publishes(inst[i], slot')
    BY PublishDoes
  <1>r. render' = render
    BY DEF Publish
  <1>h. history' = IF slot' = slot \/ (slot # None /\ slot'.generation = slot.generation)
                   THEN history ELSE Append(history, slot'.prefs)
    BY DEF Publish
  <1>1. CASE slot' = slot
    BY <1>d, <1>r, <1>h, <1>1, HistoriesKept DEF KeepsHistory, Instances
  <1>2. CASE slot' # slot
    <2>1. PICK p \in InstanceStates, n \in {slot'} : p = inst[i] /\ n = slot' /\ Publishes(p, n) /\ n # slot
      BY <1>t, <1>d, <1>2
    <2>2. /\ n \in PublishedSettings
          /\ slot # None =>
               n.generation = IF n.prefs = slot.prefs THEN slot.generation ELSE slot.generation + 1
          /\ slot = None => n.generation = 1
      BY <1>t, <2>1, PublishIs
    <2>3. n # None /\ n.prefs \in Blobs /\ (slot # None => slot.generation \in Nat)
      BY <1>t, <2>2, SettingsAssumption DEF PublishedSettings
    <2>4. CASE slot # None /\ n.generation = slot.generation
      <3>1. n.prefs = slot.prefs
        BY <2>2, <2>3, <2>4
      <3>2. history' = history
        BY <1>h, <2>1, <2>4
      <3>. QED BY <1>d, <1>r, <2>1, <2>3, <2>4, <3>1, <3>2, HistoriesKept DEF KeepsHistory, Instances
    <2>5. CASE ~(slot # None /\ n.generation = slot.generation)
      <3>1. history' = Append(history, n.prefs)
        BY <1>h, <2>1, <2>5
      <3>2. n.generation = Len(history) + 1
        BY <1>t, <2>2, <2>3, <2>5 DEF Histories
      <3>3. /\ Len(history') = Len(history) + 1 /\ history'[Len(history) + 1] = n.prefs
            /\ \A k \in 1 .. Len(history) : history'[k] = history[k]
        BY <1>t, <2>3, <3>1
      <3>4. \A s : Recorded(s) => Recorded(s)'
        BY <1>t, <3>3 DEF Recorded
      <3>5. Recorded(slot)'
        BY <1>t, <2>1, <3>2, <3>3 DEF Recorded
      <3>6. ASSUME NEW r \in Renders PROVE Recorded(render[r].read)' /\ (render[r].at = "leased" => FrameRight(render[r])')
        <4>1. Recorded(render[r].read)'
          <5>1. Recorded(render[r].read)
            BY DEF Histories
          <5>. QED BY <1>r, <3>4, <5>1 DEF Recorded
        <4>2. ASSUME render[r].at = "leased" PROVE FrameRight(render[r])'
          <5>1. render[r].clip \in Instances
            BY <4>2, RendersClip
          <5>2. FrameRight(render[r])
            BY <4>2 DEF Histories
          <5>. QED BY <1>t, <1>d, <1>r, <3>3, <5>1, <5>2 DEF FrameRight
        <4>. QED BY <4>1, <4>2
      <3>. QED BY <1>r, <2>1, <2>3, <3>2, <3>3, <3>5, <3>6 DEF Histories
    <2>. QED BY <2>4, <2>5
  <1>. QED BY <1>1, <1>2

LEMMA HistoriesStep == ASSUME SettingsInv, SettingsNext PROVE Histories'
  <1>t. /\ SettingsTypes /\ Lives /\ Pushes /\ Tokens /\ Histories
        /\ inst \in [Instances -> InstanceStates]
        /\ render \in [Renders -> RenderStates]
        /\ slot \in PublishedSettings \cup {None}
    BY DEF SettingsInv, SettingsTypes
  <1>i. Clips \subseteq Instances /\ Engines \subseteq Instances /\ Clips \cap Engines = {}
    BY SettingsAssumption DEF Instances
  <1>n. NoFrame.at = "idle" /\ NoFrame.read = None
    BY DEF NoFrame
  \* Nothing happens to the registry and the engine's instances.
  <1>k. ASSUME slot' = slot, history' = history,
               \A e \in Engines : (\E r \in Renders : render[r].clip = e) /\ inst[e].effect => inst'[e].effect,
               \A r \in Renders : \/ render'[r] = render[r]
                                  \/ render'[r].at # "leased" /\ render'[r].read \in {None, slot, render[r].read}
        PROVE  Histories'
    BY <1>t, <1>k, HistoriesKept DEF KeepsHistory
  <1>1. ASSUME NEW i \in Instances, Publish(i) PROVE Histories'
    BY <1>t, <1>1, HistoriesPublish
  <1>2. ASSUME NEW i \in Clips, OpenFile(i) PROVE Histories'
    BY <1>t, <1>i, <1>k, <1>2 DEF OpenFile, registry
  <1>3. ASSUME NEW i \in Clips, LookUp(i) PROVE Histories'
    <2>1. \A j \in Instances : j # i => inst'[j] = inst[j]
      BY <1>t, <1>3, LookUpDoes
    <2>. QED BY <1>i, <1>k, <1>3, <2>1 DEF LookUp, registry
  <1>4. ASSUME NEW i \in Clips, Adopt(i) PROVE Histories'
    <2>1. \A j \in Instances : j # i => inst'[j] = inst[j]
      BY <1>t, <1>4, AdoptDoes
    <2>. QED BY <1>i, <1>k, <1>4, <2>1 DEF Adopt, registry
  <1>5. ASSUME NEW i \in Clips, CloseFile(i) PROVE Histories'
    BY <1>t, <1>i, <1>k, <1>5 DEF CloseFile, registry
  <1>6. ASSUME NEW i \in Clips, NEW block \in Blobs \cup {None}, Selector(i, block) PROVE Histories'
    <2>1. \A j \in Instances : j # i => inst'[j] = inst[j]
      BY <1>t, <1>6, SelectorDoes
    <2>. QED BY <1>i, <1>k, <1>6, <2>1 DEF Selector, registry
  <1>7. ASSUME NEW edit \in Blobs, Edit(edit) PROVE Histories'
    BY <1>k, <1>7 DEF Edit, registry
  <1>8. ASSUME Push PROVE Histories'
    <2>1. \A j \in Instances : inst'[j] = inst[j] \/ inst'[j].effect
      BY <1>t, <1>8, PushDoes
    <2>. QED BY <1>i, <1>k, <1>8, <2>1 DEF Push, registry
  <1>9. ASSUME Pushed PROVE Histories'
    <2>1. slot # None => slot' # None /\ slot'.prefs = slot.prefs /\ slot'.generation = slot.generation
      <3>1. slot # None => slot' = [slot EXCEPT !.fromEffect = TRUE]
        BY <1>9 DEF Pushed
      <3>2. slot # None => slot' \in PublishedSettings
        BY <1>t, <3>1 DEF PublishedSettings
      <3>. QED BY <1>t, <3>1, <3>2, SettingsAssumption DEF PublishedSettings
    <2>2. history' = history /\ inst' = inst /\ render' = render /\ (slot = None => slot' = None)
      BY <1>9 DEF Pushed
    <2>. QED BY <1>t, <2>1, <2>2, HistoriesKept DEF KeepsHistory
  <1>10. ASSUME NEW r \in Renders, Acquire(r) PROVE Histories'
    <2>1. slot' = slot /\ history' = history
      BY <1>10 DEF Acquire, registry
    <2>2. CASE engineClip # None
      <3>1. inst' = inst /\ render' = [render EXCEPT ![r] = [NoFrame EXCEPT !.at = "clip", !.clip = engineClip]]
        BY <1>10, <2>2 DEF Acquire
      <3>2. render'[r].at = "clip" /\ render'[r].read = None /\ \A s \in Renders : s # r => render'[s] = render[s]
        BY <1>t, <3>1 DEF NoFrame
      <3>. QED BY <1>k, <2>1, <3>1, <3>2
    <2>3. CASE engineClip = None
      <3>1. PICK e \in Engines :
              /\ \A s \in Renders : render[s].clip # e
              /\ inst' = [inst EXCEPT ![e] = NewInstance]
              /\ render' = [render EXCEPT ![r] = [NoFrame EXCEPT !.at = "made", !.clip = e]]
        BY <1>10, <2>3 DEF Acquire
      <3>2. render'[r].at = "made" /\ render'[r].read = None /\ \A s \in Renders : s # r => render'[s] = render[s]
        BY <1>t, <3>1 DEF NoFrame
      <3>3. \A j \in Instances : j # e => inst'[j] = inst[j]
        BY <1>t, <3>1
      <3>. QED BY <1>i, <1>k, <2>1, <3>1, <3>2, <3>3
    <2>. QED BY <2>2, <2>3
  <1>11. ASSUME NEW r \in Renders, Mark(r) PROVE Histories'
    <2>1. \A j \in Instances : inst'[j].effect = inst[j].effect
      BY <1>t, <1>11, MarkDoes
    <2>2. render'[r].at = "marked" /\ render'[r].read = render[r].read
          /\ \A s \in Renders : s # r => render'[s] = render[s]
      BY <1>t, <1>11 DEF Mark, RenderStates
    <2>. QED BY <1>i, <1>k, <1>11, <2>1, <2>2 DEF Mark, registry
  <1>12. ASSUME NEW r \in Renders, OpenClip(r) PROVE Histories'
    <2>1. slot' = slot /\ history' = history /\ inst' = inst
      BY <1>12 DEF OpenClip, registry
    <2>2. CASE render' = [render EXCEPT ![r] = NoFrame]
      BY <1>t, <1>n, <1>k, <2>1, <2>2
    <2>3. CASE render' = [render EXCEPT ![r].at = "clip", ![r].clip = engineClip']
      <3>1. PICK c : c = engineClip'
        OBVIOUS
      <3>2. /\ render'[r] = [[render[r] EXCEPT !.at = "clip"] EXCEPT !.clip = c]
            /\ \A s \in Renders : s # r => render'[s] = render[s]
        BY <1>t, <2>3, <3>1
      <3>3. render[r] \in RenderStates
        BY <1>t
      <3>4. render'[r].at = "clip" /\ render'[r].read = render[r].read
        BY <3>2, <3>3 DEF RenderStates
      <3>. QED BY <1>k, <2>1, <3>2, <3>4
    <2>. QED BY <1>12, <2>2, <2>3 DEF OpenClip
  <1>13. ASSUME NEW r \in Renders, ReadSettings(r) PROVE Histories'
    <2>1. PICK s : s = slot
      OBVIOUS
    <2>2. /\ render'[r] = [[render[r] EXCEPT !.at = "apply"] EXCEPT !.read = s]
          /\ \A q \in Renders : q # r => render'[q] = render[q]
      BY <1>t, <1>13, <2>1 DEF ReadSettings
    <2>3. render[r] \in RenderStates
      BY <1>t
    <2>4. render'[r].at = "apply" /\ render'[r].read = s
      BY <2>2, <2>3 DEF RenderStates
    <2>. QED BY <1>k, <1>13, <2>1, <2>2, <2>4 DEF ReadSettings, registry
  <1>14. ASSUME NEW r \in Renders, ApplySettings(r) PROVE Histories'
    <2>1. PICK e, read : e = render[r].clip /\ read = render[r].read
      OBVIOUS
    <2>2. /\ e \in Engines /\ e \in Instances
          /\ \A j \in Instances : j # e => inst'[j] = inst[j]
          /\ inst'[e].effect = inst[e].effect
          /\ read # None => inst[e].effect \/ inst'[e].prefs = read.prefs
          /\ \A s \in Renders : s # r => render'[s] = render[s]
          /\ \/ render'[r] = NoFrame
             \/ /\ render'[r].at = "leased" /\ render'[r].clip = e /\ render'[r].read = None
                /\ render'[r].prefs = inst'[e].prefs
                /\ render'[r].generation = IF read = None THEN 0 ELSE read.generation
      BY <1>t, <1>14, <2>1, ApplyDoes
    <2>3. slot' = slot /\ history' = history
      BY <1>14 DEF ApplySettings, registry
    <2>4. \A j \in Engines : inst[j].effect => inst'[j].effect
      BY <1>i, <2>2
    <2>5. CASE render'[r] = NoFrame
      BY <1>n, <1>k, <2>2, <2>3, <2>4, <2>5
    <2>6. CASE /\ render'[r].at = "leased" /\ render'[r].clip = e /\ render'[r].read = None
               /\ render'[r].prefs = inst'[e].prefs
               /\ render'[r].generation = IF read = None THEN 0 ELSE read.generation
      <3>1. render'[r].generation > 0 =>
              /\ read # None /\ render'[r].generation = read.generation
              /\ render'[r].prefs = read.prefs \/ inst'[e].effect
        BY <2>2, <2>4, <2>6
      <3>. QED BY <1>t, <2>1, <2>2, <2>3, <2>4, <2>6, <3>1, HistoriesKept DEF KeepsHistory
    <2>. QED BY <2>2, <2>5, <2>6
  <1>15. ASSUME NEW r \in Renders, ReleaseFrame(r) PROVE Histories'
    BY <1>t, <1>n, <1>k, <1>15 DEF ReleaseFrame, registry
  <1>16. ASSUME Shutdown PROVE Histories'
    BY <1>k, <1>16 DEF Shutdown, registry
  <1>17. ASSUME NEW e \in Engines, Drop(e) PROVE Histories'
    BY <1>t, <1>i, <1>k, <1>17 DEF Drop, registry
  <1>. QED BY <1>1, <1>2, <1>3, <1>4, <1>5, <1>6, <1>7, <1>8, <1>9, <1>10, <1>11, <1>12, <1>13, <1>14, <1>15, <1>16,
              <1>17 DEF SettingsNext

LEMMA SettingsStep == ASSUME SettingsInv, [SettingsNext]_settingsVars PROVE SettingsInv'
  <1>1. CASE SettingsNext
    BY <1>1, TypesStep, LivesStep, PushesStep, TokensStep, HistoriesStep DEF SettingsInv
  <1>2. CASE UNCHANGED settingsVars
    <2>u. UNCHANGED <<slot, engineClip, table, dispatch, inst, opening, render, token, history>>
      BY <1>2 DEF settingsVars
    <2>1. SettingsTypes'
      BY <2>u DEF SettingsInv, SettingsTypes
    <2>2. Lives'
      BY <2>u DEF SettingsInv, Lives, Alive
    <2>3. Pushes'
      BY <2>u DEF SettingsInv, Pushes, Target, Alive
    <2>4. Tokens'
      BY <2>u DEF SettingsInv, Tokens, Given, Stands
    <2>5. Histories'
      BY <2>u DEF SettingsInv, Histories, Recorded, FrameRight
    <2>. QED BY <2>1, <2>2, <2>3, <2>4, <2>5 DEF SettingsInv
  <1>. QED BY <1>1, <1>2

\* The invariant the three theorems below rest on.
THEOREM RegistryInvariant == SettingsSpec => []SettingsInv
  <1>. QED BY SettingsStart, SettingsStep, PTL DEF SettingsSpec

\* What a host's block or the effect gave an instance is in the registry, unless a
\* younger instance has published since (enginePublishPrefs).
THEOREM NewestIsInForce == SettingsSpec => []NewestWins
  <1>1. SettingsInv => NewestWins
    BY DEF SettingsInv, Tokens, Stands, NewestWins
  <1>. QED BY <1>1, RegistryInvariant, PTL

\* The generation reported with a frame is that of the settings it was made with, but
\* for an instance of the engine that a push met before it was marked
\* (OsvEngine_AcquireFrame).
THEOREM FramesAreAsReported == SettingsSpec => []FrameIsAsReported
  <1>1. SettingsInv => FrameIsAsReported
    <2>. SUFFICES ASSUME SettingsInv, NEW r \in Renders, render[r].at = "leased", render[r].generation > 0,
                         render[r].prefs # history[render[r].generation]
                  PROVE  \E e \in Engines : Alive(e) /\ inst[e].owned /\ inst[e].effect
      BY DEF FrameIsAsReported, FrameIsOfGeneration
    <2>1. render[r].clip \in Engines /\ Alive(render[r].clip)
      BY RendersClip DEF SettingsInv
    <2>2. inst[render[r].clip].owned
      BY DEF SettingsInv, Lives
    <2>3. inst[render[r].clip].effect
      BY DEF SettingsInv, Histories, FrameRight
    <2>. QED BY <2>1, <2>2, <2>3
  <1>. QED BY <1>1, RegistryInvariant, PTL

\* What Settled says of a clip's instance.
InForce(i) ==
    /\ opening[i].at = "found" => opening[i].found = slot.prefs
    /\ opening[i].at \notin {"made", "found"} => inst[i].effect /\ inst[i].prefs = slot.prefs

LEMMA SettledIs ==
  /\ Settled => /\ slot # None /\ slot.fromEffect /\ dispatch.at = "idle"
                /\ \A i \in Clips : i \in Range(table) => InForce(i)
  /\ /\ slot' # None /\ slot'.fromEffect /\ dispatch'.at = "idle"
     /\ \A i \in Clips : i \in Range(table') => InForce(i)'
     => Settled'
  BY DEF Settled, InForce

LEMMA EditStep ==
  ASSUME SettingsInv, SettingsNext, Settled
  PROVE  slot'.prefs = slot.prefs /\ (Settled' \/ dispatch'.at = "push")
  <1>t. /\ SettingsTypes /\ Lives /\ Pushes /\ Tokens
        /\ inst \in [Instances -> InstanceStates] /\ opening \in [Clips -> Openings]
        /\ slot \in PublishedSettings \cup {None}
    BY DEF SettingsInv, SettingsTypes
  <1>i. Clips \subseteq Instances /\ Engines \subseteq Instances /\ Clips \cap Engines = {}
    BY SettingsAssumption DEF Instances
  <1>s. /\ slot # None /\ slot.fromEffect /\ dispatch.at = "idle"
        /\ \A i \in Clips : i \in Range(table) => InForce(i)
    BY SettledIs
  <1>o. \A i \in Instances : inst[i].publishing # "no" => i \in Clips /\ opening[i].at = "open"
    BY <1>t, <1>s DEF Pushes, Instances
  \* The step leaves the registry and a clip's instance alone, or it is in force after it.
  <1>k. ASSUME slot' = slot, dispatch' = dispatch,
               \A i \in Clips : i \in Range(table') =>
                 \/ InForce(i)'
                 \/ i \in Range(table) /\ inst'[i] = inst[i] /\ opening'[i] = opening[i]
        PROVE  slot'.prefs = slot.prefs /\ Settled'
    <2>1. \A i \in Clips : i \in Range(table') => InForce(i)'
      BY <1>s, <1>k DEF InForce
    <2>. QED BY <1>s, <1>k, <2>1, SettledIs
  <1>1. ASSUME NEW i \in Instances, Publish(i) PROVE slot'.prefs = slot.prefs /\ Settled'
    <2>1. /\ \A j \in Instances : j # i => inst'[j] = inst[j]
          /\ inst'[i].prefs = inst[i].prefs /\ inst'[i].effect = inst[i].effect
          /\ inst[i].publishing # "no"
          /\ inst[i].owned => slot' = slot
          /\ ~inst[i].owned => Publishes(inst[i], slot')
      BY <1>t, <1>1, PublishDoes
    <2>2. /\ i \in Clips /\ opening[i].at = "open" /\ i \in Range(table)
      BY <1>t, <1>o, <2>1, Busy DEF Alive
    <2>3. inst[i].prefs = slot.prefs
      BY <1>s, <2>2 DEF InForce
    <2>4. slot' # None /\ slot'.prefs = slot.prefs /\ slot'.fromEffect
      <3>1. CASE inst[i].owned
        BY <1>s, <2>1, <3>1
      <3>2. CASE ~inst[i].owned
        <4>1. PICK p \in InstanceStates, n \in {slot'} : p = inst[i] /\ n = slot' /\ Publishes(p, n)
          BY <1>t, <2>1, <3>2
        <4>2. /\ n \in PublishedSettings /\ n.fromEffect = slot.fromEffect
              /\ n.prefs = p.prefs \/ n = slot
          BY <1>t, <1>s, <4>1, PublishIs
        <4>. QED BY <1>s, <2>3, <4>1, <4>2, SettingsAssumption
      <3>. QED BY <3>1, <3>2
    <2>5. opening' = opening /\ table' = table /\ dispatch' = dispatch
      BY <1>s, <1>1 DEF Publish
    <2>6. ASSUME NEW j \in Clips, j \in Range(table') PROVE InForce(j)'
      BY <1>i, <1>s, <2>1, <2>4, <2>5, <2>6 DEF InForce
    <2>. QED BY <1>s, <2>4, <2>5, <2>6, SettledIs
  <1>2. ASSUME NEW i \in Clips, OpenFile(i) PROVE slot'.prefs = slot.prefs /\ Settled'
    <2>1. /\ \A j \in Clips : j # i => inst'[j] = inst[j] /\ opening'[j] = opening[j]
          /\ opening'[i].at = "made"
      BY <1>t, <1>i, <1>2 DEF OpenFile, Openings
    <2>2. \A j \in Clips : j \in Range(table') => j \in Range(table) \/ j = i
      <3>1. ~Alive(i)
        BY <1>t, <1>2 DEF OpenFile, Lives
      <3>. QED BY <1>t, <1>i, <1>2, <3>1, JoinsTable DEF OpenFile, Alive
    <2>3. InForce(i)'
      BY <2>1 DEF InForce
    <2>. QED BY <1>k, <1>2, <2>1, <2>2, <2>3 DEF OpenFile, registry
  <1>3. ASSUME NEW i \in Clips, LookUp(i) PROVE slot'.prefs = slot.prefs /\ Settled'
    <2>1. /\ \A j \in Instances : j # i => inst'[j] = inst[j]
          /\ \A j \in Clips : j # i => opening'[j] = opening[j]
          /\ opening'[i].at = "found" /\ opening'[i].found = slot.prefs
      BY <1>t, <1>s, <1>3, LookUpDoes
    <2>2. slot' = slot /\ dispatch' = dispatch /\ table' = table
      BY <1>3 DEF LookUp, registry
    <2>3. InForce(i)'
      BY <2>1, <2>2 DEF InForce
    <2>. QED BY <1>i, <1>k, <2>1, <2>2, <2>3
  <1>4. ASSUME NEW i \in Clips, Adopt(i) PROVE slot'.prefs = slot.prefs /\ Settled'
    <2>1. /\ \A j \in Instances : j # i => inst'[j] = inst[j]
          /\ inst'[i].prefs = opening[i].found /\ inst'[i].effect
          /\ opening[i].at = "found"
          /\ \A j \in Clips : j # i => opening'[j] = opening[j]
          /\ opening'[i].at = "open"
      BY <1>t, <1>4, AdoptDoes
    <2>2. slot' = slot /\ dispatch' = dispatch /\ table' = table
      BY <1>4 DEF Adopt, registry
    <2>3. i \in Range(table)
      BY <1>t, <2>1 DEF Lives, Alive
    <2>4. InForce(i)'
      BY <1>s, <2>1, <2>2, <2>3 DEF InForce
    <2>. QED BY <1>i, <1>k, <2>1, <2>2, <2>4
  <1>5. ASSUME NEW i \in Clips, CloseFile(i) PROVE slot'.prefs = slot.prefs /\ Settled'
    <2>1. \A j \in Clips : j # i => inst'[j] = inst[j] /\ opening'[j] = opening[j]
      BY <1>t, <1>i, <1>5 DEF CloseFile
    <2>2. \A j \in Clips : j \in Range(table') => j \in Range(table) /\ j # i
      BY <1>t, <1>i, <1>5, LeavesTable DEF CloseFile, Unregister, Alive
    <2>. QED BY <1>k, <1>5, <2>1, <2>2 DEF CloseFile, registry
  <1>6. ASSUME NEW i \in Clips, NEW block \in Blobs \cup {None}, Selector(i, block)
        PROVE  slot'.prefs = slot.prefs /\ Settled'
    <2>1. /\ \A j \in Instances : j # i => inst'[j] = inst[j]
          /\ inst'[i].effect = inst[i].effect
          /\ inst'[i].prefs # inst[i].prefs => ~inst[i].effect
          /\ opening[i].at = "open"
      BY <1>t, <1>6, SelectorDoes
    <2>2. slot' = slot /\ dispatch' = dispatch /\ table' = table /\ opening' = opening
      BY <1>6 DEF Selector, registry
    <2>3. i \in Range(table)
      BY <1>t, <2>1 DEF Lives, Alive
    <2>4. InForce(i)'
      BY <1>s, <2>1, <2>2, <2>3 DEF InForce
    <2>. QED BY <1>i, <1>k, <2>1, <2>2, <2>4
  <1>7. ASSUME NEW edit \in Blobs, Edit(edit) PROVE slot'.prefs = slot.prefs /\ dispatch'.at = "push"
    BY <1>7 DEF Edit, registry
  <1>8. ~Push /\ ~Pushed
    BY <1>s DEF Push, Pushed
  \* The engine's instances are not among those the host opened.
  <1>e. ASSUME slot' = slot, dispatch' = dispatch, opening' = opening,
               \A i \in Clips : (i \in Range(table') => i \in Range(table)) /\ inst'[i] = inst[i]
        PROVE  slot'.prefs = slot.prefs /\ Settled'
    BY <1>e, <1>k
  <1>10. ASSUME NEW r \in Renders, Acquire(r) PROVE slot'.prefs = slot.prefs /\ Settled'
    <2>1. slot' = slot /\ dispatch' = dispatch /\ opening' = opening
      BY <1>10 DEF Acquire, registry
    <2>2. CASE engineClip # None
      BY <1>e, <1>10, <2>1, <2>2 DEF Acquire
    <2>3. CASE engineClip = None
      <3>1. PICK e \in Engines :
              ~Alive(e) /\ table' = Append(table, e) /\ inst' = [inst EXCEPT ![e] = NewInstance]
        BY <1>10, <2>3 DEF Acquire
      <3>2. \A j \in Clips : j \in Range(table') => j \in Range(table)
        BY <1>t, <1>i, <3>1, JoinsTable DEF Alive
      <3>3. \A j \in Clips : inst'[j] = inst[j]
        BY <1>t, <1>i, <3>1
      <3>. QED BY <1>e, <2>1, <3>2, <3>3
    <2>. QED BY <2>2, <2>3
  <1>11. ASSUME NEW r \in Renders, Mark(r) PROVE slot'.prefs = slot.prefs /\ Settled'
    <2>1. \A j \in Clips : inst'[j] = inst[j]
      BY <1>t, <1>i, <1>11, MarkDoes
    <2>. QED BY <1>e, <1>11, <2>1 DEF Mark, registry
  <1>12. ASSUME NEW r \in Renders, OpenClip(r) PROVE slot'.prefs = slot.prefs /\ Settled'
    BY <1>e, <1>12 DEF OpenClip, registry
  <1>13. ASSUME NEW r \in Renders, ReadSettings(r) PROVE slot'.prefs = slot.prefs /\ Settled'
    BY <1>e, <1>13 DEF ReadSettings, registry
  <1>14. ASSUME NEW r \in Renders, ApplySettings(r) PROVE slot'.prefs = slot.prefs /\ Settled'
    <2>1. \A j \in Clips : inst'[j] = inst[j]
      <3>1. PICK e, read : e = render[r].clip /\ read = render[r].read
        OBVIOUS
      <3>2. e \in Engines /\ \A j \in Instances : j # e => inst'[j] = inst[j]
        BY <1>t, <1>14, <3>1, ApplyDoes
      <3>. QED BY <1>i, <3>2
    <2>. QED BY <1>e, <1>14, <2>1 DEF ApplySettings, registry
  <1>15. ASSUME NEW r \in Renders, ReleaseFrame(r) PROVE slot'.prefs = slot.prefs /\ Settled'
    BY <1>e, <1>15 DEF ReleaseFrame, registry
  <1>16. ASSUME Shutdown PROVE slot'.prefs = slot.prefs /\ Settled'
    BY <1>e, <1>16 DEF Shutdown, registry
  <1>17. ASSUME NEW e \in Engines, Drop(e) PROVE slot'.prefs = slot.prefs /\ Settled'
    <2>1. \A j \in Clips : inst'[j] = inst[j]
      BY <1>t, <1>i, <1>17 DEF Drop
    <2>2. \A j \in Clips : j \in Range(table') => j \in Range(table)
      BY <1>t, <1>i, <1>17, LeavesTable DEF Drop, Unregister, Alive
    <2>. QED BY <1>e, <1>17, <2>1, <2>2 DEF Drop, registry
  <1>. QED BY <1>1, <1>2, <1>3, <1>4, <1>5, <1>6, <1>7, <1>8, <1>10, <1>11, <1>12, <1>13, <1>14, <1>15, <1>16,
              <1>17 DEF SettingsNext

\* An edit that has reached every instance stays in force, in the registry and in each
\* instance, until the next one (applyPrefsImplLocked, seedStartingPrefs).
THEOREM EditsStay == SettingsSpec => EditStays
  <1>1. SettingsInv /\ [SettingsNext]_settingsVars =>
          [Settled => slot'.prefs = slot.prefs /\ (Settled' \/ dispatch'.at = "push")]_settingsVars
    BY EditStep
  <1>. QED BY <1>1, RegistryInvariant, PTL DEF SettingsSpec, EditStays
-----------------------------------------------------------------------------
(* FlareStage: the buckets. *)

\* The models of a generation, and those that suit a frame.
Fitted(gen) == {e \in Entries : e.gen = gen /\ Sun[e.on] # None}
Suits(i, e, gen) ==
    IF Sun[i] = None THEN e = None ELSE e \in Fitted(gen) /\ Matches(Sun[e.on], Sun[i])

IsBucket(o) == o = [entries |-> o.entries, frames |-> o.frames, checked |-> o.checked]
BucketSound(o, gen) ==
    /\ IsBucket(o)
    /\ o.entries \in Seq(Fitted(gen))
    /\ o.frames = [i \in DOMAIN o.frames |-> o.frames[i]]
    /\ o.checked = [i \in DOMAIN o.checked |-> o.checked[i]]
    /\ \A i \in DOMAIN o.frames : i \in Frames /\ Suits(i, o.frames[i], gen)
    /\ \A i \in DOMAIN o.checked : i \in Frames /\ Sun[i] # None /\ o.checked[i] = Sun[i]
    /\ DOMAIN o.frames \cap DOMAIN o.checked = {}
ModelsSound(m, gen) ==
    m = [b \in DOMAIN m |-> m[b]] /\ \A b \in DOMAIN m : BucketSound(m[b], gen)

\* The answers of m are in n, unless their bucket is not; and n has only those.
AnswersKept(m, n) ==
    \A b \in DOMAIN m \cap DOMAIN n : \A i \in DOMAIN m[b].frames :
        i \in DOMAIN n[b].frames /\ n[b].frames[i] = m[b].frames[i]
NoneAdded(m, n) ==
    \A b \in DOMAIN n : \A i \in DOMAIN n[b].frames : b \in DOMAIN m /\ i \in DOMAIN m[b].frames

LEMMA EmptyIsSound == ASSUME NEW gen PROVE BucketSound(NoBucket, gen) /\ ModelsSound(<<>>, gen)
  <1>1. DOMAIN <<>> = {} /\ <<>> = [i \in {} |-> <<>>[i]]
    OBVIOUS
  <1>2. <<>> \in Seq(Fitted(gen))
    OBVIOUS
  <1>. QED BY <1>1, <1>2 DEF IsBucket, BucketSound, ModelsSound, NoBucket

LEMMA BucketIsSound ==
  ASSUME NEW m, NEW gen, NEW b, ModelsSound(m, gen) PROVE BucketSound(BucketOr(m, b), gen)
  BY EmptyIsSound DEF ModelsSound, BucketOr

\* trimBuckets() drops at most one bucket, never the one that is kept.
LEMMA TrimIs ==
  ASSUME NEW m, m = [b \in DOMAIN m |-> m[b]], NEW keep \in DOMAIN m
  PROVE  /\ Trim(m, keep) = [b \in DOMAIN Trim(m, keep) |-> Trim(m, keep)[b]]
         /\ keep \in DOMAIN Trim(m, keep)
         /\ \A b \in DOMAIN Trim(m, keep) : b \in DOMAIN m /\ Trim(m, keep)[b] = m[b]
  <1>. DEFINE lowest == Min(DOMAIN m)
              victim == IF lowest = keep THEN Max(DOMAIN m) ELSE lowest
  <1>1. CASE Trim(m, keep) = m
    BY <1>1
  <1>2. CASE victim # keep /\ Trim(m, keep) = [b \in DOMAIN m \ {victim} |-> m[b]]
    <2>. HIDE DEF victim
    <2>. QED BY <1>2
  <1>3. Trim(m, keep) = m \/ (victim # keep /\ Trim(m, keep) = [b \in DOMAIN m \ {victim} |-> m[b]])
    BY DEF Trim
  <1>. QED BY <1>1, <1>2, <1>3

\* One bucket changed, and the others trimmed.
LEMMA PutIs ==
  ASSUME NEW m, m = [b \in DOMAIN m |-> m[b]], NEW b, NEW o, NEW n, n = Trim(With(m, b, o), b)
  PROVE  /\ n = [c \in DOMAIN n |-> n[c]]
         /\ b \in DOMAIN n /\ n[b] = o
         /\ \A c \in DOMAIN n : c # b => c \in DOMAIN m /\ n[c] = m[c]
  <1>. DEFINE p == With(m, b, o)
  <1>1. p = [c \in DOMAIN m \cup {b} |-> IF c = b THEN o ELSE m[c]]
    BY DEF With
  <1>2. p = [c \in DOMAIN p |-> p[c]] /\ b \in DOMAIN p
    BY <1>1
  <1>3. /\ n = [c \in DOMAIN n |-> n[c]]
        /\ b \in DOMAIN n
        /\ \A c \in DOMAIN n : c \in DOMAIN p /\ n[c] = p[c]
    <2>. HIDE DEF p
    <2>1. n = Trim(p, b)
      BY DEF p
    <2>. QED BY <1>2, <2>1, TrimIs
  <1>. QED BY <1>1, <1>3

LEMMA BucketPut ==
  ASSUME NEW o, IsBucket(o), NEW x
  PROVE  /\ [o EXCEPT !.entries = x] = [entries |-> x, frames |-> o.frames, checked |-> o.checked]
         /\ [o EXCEPT !.checked = x] = [entries |-> o.entries, frames |-> o.frames, checked |-> x]
  BY DEF IsBucket

LEMMA StoredIs ==
  ASSUME NEW m, NEW gen, NEW b, NEW e \in Fitted(gen), ModelsSound(m, gen), NEW n, n = Stored(m, b, e)
  PROVE  /\ ModelsSound(n, gen) /\ AnswersKept(m, n) /\ NoneAdded(m, n)
         /\ b \in DOMAIN n /\ n[b].frames = BucketOr(m, b).frames
  <1>. DEFINE o == BucketOr(m, b)
              more == Append(o.entries, e)
              kept == IF Len(more) > MaxModels THEN Tail(more) ELSE more
              new == [o EXCEPT !.entries = kept]
  <1>1. BucketSound(o, gen)
    BY BucketIsSound
  <1>2. m = [c \in DOMAIN m |-> m[c]] /\ \A c \in DOMAIN m : BucketSound(m[c], gen)
    BY DEF ModelsSound
  <1>3. CASE Contains(o.entries, e)
    <2>1. n = m
      BY <1>3 DEF Stored
    <2>2. b \in DOMAIN m
      BY <1>3 DEF BucketOr, NoBucket, Contains
    <2>. QED BY <2>1, <2>2 DEF AnswersKept, NoneAdded, BucketOr
  <1>4. CASE ~Contains(o.entries, e)
    <2>1. n = Trim(With(m, b, new), b)
      BY <1>4 DEF Stored
    <2>2. o.entries \in Seq(Fitted(gen))
      BY <1>1 DEF BucketSound
    <2>3. kept \in Seq(Fitted(gen))
      <3>. HIDE DEF o
      <3>1. more \in Seq(Fitted(gen)) /\ more # <<>>
        BY <2>2
      <3>2. Tail(more) \in Seq(Fitted(gen))
        BY <3>1
      <3>. QED BY <3>1, <3>2
    <2>4. BucketSound(new, gen) /\ new.frames = o.frames
      <3>1. new = [entries |-> kept, frames |-> o.frames, checked |-> o.checked]
        <4>. HIDE DEF o, kept
        <4>. QED BY <1>1, BucketPut DEF BucketSound
      <3>. HIDE DEF o, kept, new
      <3>. QED BY <1>1, <2>3, <3>1 DEF BucketSound, IsBucket
    <2>. HIDE DEF new
    <2>5. /\ n = [c \in DOMAIN n |-> n[c]] /\ b \in DOMAIN n /\ n[b] = new
          /\ \A c \in DOMAIN n : c # b => c \in DOMAIN m /\ n[c] = m[c]
      BY <1>2, <2>1, PutIs
    <2>6. ModelsSound(n, gen)
      BY <1>2, <2>4, <2>5 DEF ModelsSound
    <2>7. b \notin DOMAIN m => DOMAIN o.frames = {}
      BY DEF BucketOr, NoBucket
    <2>8. b \in DOMAIN m => o = m[b]
      BY DEF BucketOr
    <2>. HIDE DEF o
    <2>9. AnswersKept(m, n) /\ NoneAdded(m, n)
      BY <2>4, <2>5, <2>7, <2>8 DEF AnswersKept, NoneAdded
    <2>. QED BY <2>4, <2>5, <2>6, <2>9 DEF o
  <1>. QED BY <1>3, <1>4

LEMMA AssignedIs ==
  ASSUME NEW m, NEW gen, NEW i \in Frames, NEW e, ModelsSound(m, gen), Suits(i, e, gen),
         i \notin DOMAIN BucketOr(m, BucketOf(i)).frames, NEW n, n = Assigned(m, i, e)
  PROVE  ModelsSound(n, gen) /\ AnswersKept(m, n) /\ \A b \in DOMAIN n : b = BucketOf(i) \/ b \in DOMAIN m
  <1>. DEFINE b == BucketOf(i)
              o == BucketOr(m, b)
              new == [entries |-> o.entries, frames |-> With(o.frames, i, e),
                      checked |-> [j \in DOMAIN o.checked \ {i} |-> o.checked[j]]]
  <1>1. BucketSound(o, gen)
    BY BucketIsSound
  <1>2. m = [c \in DOMAIN m |-> m[c]] /\ \A c \in DOMAIN m : BucketSound(m[c], gen)
    BY DEF ModelsSound
  <1>3. n = Trim(With(m, b, new), b)
    BY DEF Assigned
  <1>4. b \in DOMAIN m => o = m[b]
    BY DEF BucketOr
  <1>. HIDE DEF b
  <1>5. /\ new = [entries |-> o.entries, frames |-> new.frames, checked |-> new.checked]
        /\ new.frames = [j \in DOMAIN o.frames \cup {i} |-> IF j = i THEN e ELSE o.frames[j]]
        /\ new.checked = [j \in DOMAIN o.checked \ {i} |-> o.checked[j]]
    <2>. HIDE DEF o
    <2>1. With(o.frames, i, e) = [j \in DOMAIN o.frames \cup {i} |-> IF j = i THEN e ELSE o.frames[j]]
      BY DEF With
    <2>. QED BY <2>1
  <1>6. i \notin DOMAIN o.frames
    BY DEF b
  <1>. HIDE DEF new, o
  <1>7. BucketSound(new, gen)
    BY <1>1, <1>5 DEF BucketSound, IsBucket
  <1>8. /\ n = [c \in DOMAIN n |-> n[c]] /\ b \in DOMAIN n /\ n[b] = new
        /\ \A c \in DOMAIN n : c # b => c \in DOMAIN m /\ n[c] = m[c]
    BY <1>2, <1>3, PutIs
  <1>9. ModelsSound(n, gen)
    BY <1>2, <1>7, <1>8 DEF ModelsSound
  <1>10. AnswersKept(m, n)
    BY <1>4, <1>5, <1>6, <1>8 DEF AnswersKept
  <1>. QED BY <1>8, <1>9, <1>10 DEF b

LEMMA AdoptedIs ==
  ASSUME NEW gen, NEW i \in Frames, NEW e \in Fitted(gen), ModelsSound(models, gen), Suits(i, e, gen),
         ~HasAnswer(i), NEW n, n = Adopted(i, e)
  PROVE  ModelsSound(n, gen) /\ AnswersKept(models, n)
  <1>. DEFINE s == Stored(models, BucketOf(i), e)
  <1>1. n = Assigned(s, i, e)
    BY DEF Adopted
  <1>. HIDE DEF s
  <1>2. /\ ModelsSound(s, gen) /\ AnswersKept(models, s)
        /\ BucketOf(i) \in DOMAIN s /\ s[BucketOf(i)].frames = Bucket(BucketOf(i)).frames
    BY StoredIs DEF s, Bucket
  <1>3. i \notin DOMAIN BucketOr(s, BucketOf(i)).frames
    BY <1>2 DEF HasAnswer, BucketOr
  <1>4. ModelsSound(n, gen) /\ AnswersKept(s, n) /\ \A b \in DOMAIN n : b = BucketOf(i) \/ b \in DOMAIN s
    BY <1>1, <1>2, <1>3, AssignedIs
  <1>5. ASSUME NEW b \in DOMAIN models \cap DOMAIN n, NEW j \in DOMAIN models[b].frames
        PROVE  j \in DOMAIN n[b].frames /\ n[b].frames[j] = models[b].frames[j]
    <2>1. b \in DOMAIN s
      BY <1>2, <1>4, <1>5
    <2>. QED BY <1>2, <1>4, <1>5, <2>1 DEF AnswersKept
  <1>. QED BY <1>4, <1>5 DEF AnswersKept

\* bestMatch() gives one of the entries, and one that matches.
LEMMA BestIs ==
  ASSUME NEW gen, NEW es \in Seq(Fitted(gen)), NEW sun \in Int, Best(es, sun) # None
  PROVE  Best(es, sun) \in Fitted(gen) /\ Matches(Sun[Best(es, sun).on], sun)
  <1>. DEFINE usable == {n \in DOMAIN es : Matches(Sun[es[n].on], sun)}
              distance(n) == Abs(Sun[es[n].on] - sun)
              closest == {n \in usable : \A k \in usable : distance(n) <= distance(k)}
              far == {distance(n) : n \in usable}
  <1>1. usable # {} /\ Best(es, sun) = es[Min(closest)]
    BY DEF Best
  <1>2. \A n \in DOMAIN es : n \in Nat /\ es[n] \in Fitted(gen)
    OBVIOUS
  <1>3. \A n \in usable : distance(n) \in Nat
    <2>. SUFFICES ASSUME NEW n \in usable PROVE distance(n) \in Nat
      OBVIOUS
    <2>1. Sun[es[n].on] \in Int
      BY <1>2, FlareAssumption DEF Fitted, Entries
    <2>. QED BY <2>1 DEF Abs
  <1>4. closest \in SUBSET Nat /\ closest # {} /\ closest \subseteq usable
    <2>1. far \in SUBSET Nat /\ far # {}
      BY <1>1, <1>3
    <2>2. PICK d \in far : \A c \in far : d <= c
      <3>. HIDE DEF far
      <3>. QED BY <2>1, Least
    <2>3. PICK n \in usable : d = distance(n)
      BY <2>2
    <2>4. n \in closest
      <3>1. \A k \in usable : distance(k) \in far
        OBVIOUS
      <3>. HIDE DEF far, distance, usable
      <3>. QED BY <2>2, <2>3, <3>1
    <2>. QED BY <1>2, <2>4
  <1>5. Min(closest) \in usable
    <2>. HIDE DEF closest, usable
    <2>. QED BY <1>4, MinIs
  <1>. HIDE DEF closest
  <1>. QED BY <1>1, <1>2, <1>5

\* findUsableLocked(): what it finds is a model of the generation in force, for that sun.
LEMMA FindIs ==
  ASSUME NEW gen, ModelsSound(models, gen), NEW b, NEW sun \in Int, Find(b, sun) # None
  PROVE  Find(b, sun) \in Fitted(gen) /\ Matches(Sun[Find(b, sun).on], sun)
  <1>. DEFINE order == [n \in 1 .. 2 * Borrow + 1 |-> IF n % 2 = 0 THEN b - n \div 2 ELSE b + n \div 2]
              with == {n \in DOMAIN order : Best(Bucket(order[n]).entries, sun) # None}
  <1>1. with # {} /\ Find(b, sun) = Best(Bucket(order[Min(with)]).entries, sun)
    BY DEF Find
  <1>2. with \in SUBSET Nat
    OBVIOUS
  <1>. HIDE DEF order
  <1>3. Min(with) \in with
    <2>. HIDE DEF with
    <2>. QED BY <1>1, <1>2, MinIs
  <1>4. Find(b, sun) = Best(Bucket(order[Min(with)]).entries, sun) /\ Find(b, sun) # None
    BY <1>1
  <1>5. Bucket(order[Min(with)]).entries \in Seq(Fitted(gen))
    BY BucketIsSound DEF BucketSound, Bucket
  <1>. QED BY <1>4, <1>5, BestIs
\* The models are sound; what is handed over, under way or asked for has its sun;
\* and a frame that was found to lack an answer still does, though the worker stores.
FlareControl ==
    /\ generation \in Nat
    /\ pending # None => pending \in Jobs /\ Sun[pending.on] # None
    /\ worker = [at |-> worker.at, job |-> worker.job]
    /\ worker.at = "fit" => worker.job \in Jobs /\ Sun[worker.job.on] # None
    /\ deciding = [at |-> deciding.at, index |-> deciding.index, kind |-> deciding.kind]
    /\ deciding.at \in {"idle", "known", "sun", "no sun", "find", "fit", "queue", "miss", "join"}
    /\ deciding.at \notin {"idle", "join"} => deciding.index \in Frames
    /\ deciding.at = "no sun" => Sun[deciding.index] = None
    /\ deciding.at \in {"find", "fit", "queue", "miss"} => Sun[deciding.index] # None
Unanswered ==
    deciding.at \in {"sun", "no sun", "find", "fit", "queue", "miss"} => ~HasAnswer(deciding.index)
FlareInv == FlareControl /\ Unanswered /\ ModelsSound(models, generation)

\* What a step keeps.
FlareKept == FlareInv' /\ (generation' = generation => AnswersKept(models, models'))

LEMMA ModelsUnchanged == ASSUME models' = models PROVE AnswersKept(models, models') /\ NoneAdded(models, models')
  BY DEF AnswersKept, NoneAdded

\* The render thread goes on to another place, or is done.
LEMMA GoesOn ==
  ASSUME FlareControl, NEW at, deciding' = NotDeciding \/ deciding' = [deciding EXCEPT !.at = at]
  PROVE  /\ deciding' = [at |-> deciding'.at, index |-> deciding'.index, kind |-> deciding'.kind]
         /\ deciding'.at = "idle" \/ (deciding'.at = at /\ deciding'.index = deciding.index)
  <1>1. CASE deciding' = NotDeciding
    BY <1>1 DEF NotDeciding
  <1>2. CASE deciding' = [deciding EXCEPT !.at = at]
    <2>1. deciding' = [at |-> at, index |-> deciding.index, kind |-> deciding.kind]
      BY <1>2 DEF FlareControl
    <2>. QED BY <2>1
  <1>. QED BY <1>1, <1>2

\* Nothing stored, nobody at work disturbed.
LEMMA ControlOnly ==
  ASSUME FlareInv, models' = models, generation' = generation, pending' = pending, worker' = worker,
         NEW at \in {"sun", "no sun", "find", "fit", "queue", "miss"},
         deciding' = NotDeciding \/ deciding' = [deciding EXCEPT !.at = at],
         deciding.index \in Frames, ~HasAnswer(deciding.index),
         at = "no sun" => Sun[deciding.index] = None,
         at \in {"find", "fit", "queue", "miss"} => Sun[deciding.index] # None
  PROVE  FlareKept
  <1>1. /\ deciding' = [at |-> deciding'.at, index |-> deciding'.index, kind |-> deciding'.kind]
        /\ deciding'.at = "idle" \/ (deciding'.at = at /\ deciding'.index = deciding.index)
    BY GoesOn DEF FlareInv
  <1>2. FlareControl'
    BY <1>1 DEF FlareInv, FlareControl
  <1>3. Unanswered'
    BY <1>1 DEF Unanswered, HasAnswer, Bucket, BucketOr
  <1>. QED BY <1>2, <1>3, ModelsUnchanged DEF FlareKept, FlareInv

LEMMA DecideStep == ASSUME FlareInv, NEW i \in Frames, NEW kind \in Kinds, Decide(i, kind) PROVE FlareKept
  BY ModelsUnchanged DEF FlareKept, FlareInv, FlareControl, Unanswered, Decide, locked, HasAnswer, Bucket, BucketOr

LEMMA KnownStep == ASSUME FlareInv, Known PROVE FlareKept
  <1>. DEFINE i == deciding.index
              checked == Bucket(BucketOf(i)).checked
              fit == IF deciding.kind = "look-up" /\ i \in DOMAIN checked
                     THEN Find(BucketOf(i), checked[i]) ELSE None
  <1>1. deciding.at = "known" /\ i \in Frames /\ ModelsSound(models, generation)
    BY DEF Known, FlareInv, FlareControl
  <1>2. CASE models' = models
    <2>1. CASE deciding' = NotDeciding
      BY <1>2, <2>1, ModelsUnchanged DEF Known, FlareKept, FlareInv, FlareControl, Unanswered, NotDeciding
    <2>2. CASE deciding' = [deciding EXCEPT !.at = "sun"] /\ ~HasAnswer(i)
      BY <1>1, <1>2, <2>2, ControlOnly DEF Known
    <2>3. deciding' = NotDeciding \/ (deciding' = [deciding EXCEPT !.at = "sun"] /\ ~HasAnswer(i))
      BY DEF Known, KeepsAnswer
    <2>. QED BY <2>1, <2>2, <2>3
  <1>3. CASE ~KeepsAnswer(i) /\ fit # None /\ models' = Adopted(i, fit) /\ deciding' = NotDeciding
    <2>1. i \in DOMAIN checked /\ fit = Find(BucketOf(i), checked[i])
      BY <1>3
    <2>2. checked[i] = Sun[i] /\ Sun[i] # None
      BY <1>1, <2>1, BucketIsSound DEF BucketSound, Bucket
    <2>3. Sun[i] \in Int
      BY <1>1, <2>2, FlareAssumption
    <2>. HIDE DEF fit, checked, i
    <2>4. fit \in Fitted(generation) /\ Matches(Sun[fit.on], Sun[i])
      BY <1>1, <1>3, <2>1, <2>2, <2>3, FindIs
    <2>5. ModelsSound(models', generation) /\ AnswersKept(models, models')
      BY <1>1, <1>3, <2>2, <2>4, AdoptedIs DEF Suits, KeepsAnswer
    <2>. QED BY <1>3, <2>5 DEF Known, FlareKept, FlareInv, FlareControl, Unanswered, NotDeciding
  <1>4. models' = models \/ (~KeepsAnswer(i) /\ fit # None /\ models' = Adopted(i, fit) /\ deciding' = NotDeciding)
    BY DEF Known
  <1>. QED BY <1>2, <1>3, <1>4

LEMMA LocateSunStep == ASSUME FlareInv, LocateSun PROVE FlareKept
  <1>1. /\ models' = models /\ generation' = generation /\ pending' = pending /\ worker' = worker
        /\ deciding.index \in Frames /\ ~HasAnswer(deciding.index)
    BY DEF LocateSun, locked, FlareInv, FlareControl, Unanswered
  <1>2. CASE Sun[deciding.index] = None
    <2>1. deciding' = NotDeciding \/ deciding' = [deciding EXCEPT !.at = "no sun"]
      BY <1>2 DEF LocateSun, Goes
    <2>. QED BY <1>1, <1>2, <2>1, ControlOnly
  <1>3. CASE Sun[deciding.index] # None
    <2>1. deciding' = NotDeciding \/ deciding' = [deciding EXCEPT !.at = "find"]
      BY <1>3 DEF LocateSun, Goes
    <2>. QED BY <1>1, <1>3, <2>1, ControlOnly
  <1>. QED BY <1>2, <1>3

LEMMA NoSunStep == ASSUME FlareInv, NoSun PROVE FlareKept
  <1>. DEFINE i == deciding.index
  <1>1. i \in Frames /\ Suits(i, None, generation) /\ ModelsSound(models, generation) /\ ~HasAnswer(i)
    BY DEF NoSun, FlareInv, FlareControl, Unanswered, Suits
  <1>2. models' = Assigned(models, i, None)
    BY DEF NoSun
  <1>3. ModelsSound(models', generation) /\ AnswersKept(models, models')
    BY <1>1, <1>2, AssignedIs DEF HasAnswer, Bucket
  <1>. QED BY <1>3 DEF NoSun, FlareKept, FlareInv, FlareControl, Unanswered, NotDeciding

LEMMA FindModelStep == ASSUME FlareInv, FindModel PROVE FlareKept
  <1>. DEFINE i == deciding.index
              fit == Find(BucketOf(i), Sun[i])
  <1>1. /\ deciding.at = "find" /\ i \in Frames /\ Sun[i] # None /\ ModelsSound(models, generation)
        /\ ~HasAnswer(i)
    BY DEF FindModel, FlareInv, FlareControl, Unanswered
  <1>2. CASE models' = models /\ \E at \in {"fit", "miss", "queue"} : deciding' = [deciding EXCEPT !.at = at]
    BY <1>1, <1>2, ControlOnly DEF FindModel
  <1>3. CASE fit # None /\ models' = Adopted(i, fit) /\ deciding' = NotDeciding
    <2>1. Sun[i] \in Int
      BY <1>1, FlareAssumption
    <2>2. fit \in Fitted(generation) /\ Matches(Sun[fit.on], Sun[i])
      BY <1>1, <1>3, <2>1, FindIs
    <2>. HIDE DEF fit, i
    <2>3. ModelsSound(models', generation) /\ AnswersKept(models, models')
      BY <1>1, <1>3, <2>2, AdoptedIs DEF Suits
    <2>. QED BY <1>3, <2>3 DEF FindModel, FlareKept, FlareInv, FlareControl, Unanswered, NotDeciding
  <1>4. \/ models' = models /\ \E at \in {"fit", "miss", "queue"} : deciding' = [deciding EXCEPT !.at = at]
        \/ fit # None /\ models' = Adopted(i, fit) /\ deciding' = NotDeciding
    BY DEF FindModel, Goes
  <1>. QED BY <1>2, <1>3, <1>4

LEMMA FitStep == ASSUME FlareInv, Fit PROVE FlareKept
  <1>. DEFINE i == deciding.index
              e == Entry(Job(i, generation), "render")
  <1>1. i \in Frames /\ Sun[i] # None /\ ModelsSound(models, generation) /\ ~HasAnswer(i) /\ generation \in Nat
    BY DEF Fit, FlareInv, FlareControl, Unanswered
  <1>2. CASE models' = models
    BY <1>2, ModelsUnchanged
    DEF Fit, FlareKept, FlareInv, FlareControl, Unanswered, HasAnswer, Bucket, BucketOr, NotDeciding
  <1>3. CASE models' = Adopted(i, e)
    <2>1. e \in Fitted(generation) /\ e.on = i
      BY <1>1 DEF Fitted, Entries, Entry, Job
    <2>2. Matches(Sun[i], Sun[i])
      <3>1. Sun[i] \in Int /\ Tolerance \in Nat
        BY <1>1, FlareAssumption
      <3>. QED BY <1>1, <3>1 DEF Matches, Abs
    <2>. HIDE DEF e, i
    <2>3. ModelsSound(models', generation) /\ AnswersKept(models, models')
      BY <1>1, <1>3, <2>1, <2>2, AdoptedIs DEF Suits
    <2>. QED BY <1>3, <2>3 DEF Fit, FlareKept, FlareInv, FlareControl, Unanswered, NotDeciding
  <1>. QED BY <1>2, <1>3 DEF Fit

LEMMA QueueStep == ASSUME FlareInv, Queue PROVE FlareKept
  <1>1. Job(deciding.index, generation) \in Jobs /\ Job(deciding.index, generation).on = deciding.index
    BY DEF Queue, FlareInv, FlareControl, Job, Jobs
  <1>. QED BY <1>1, ModelsUnchanged
       DEF Queue, Goes, Asleep, FlareKept, FlareInv, FlareControl, Unanswered, HasAnswer, Bucket, BucketOr

LEMMA MissStep == ASSUME FlareInv, Miss PROVE FlareKept
  <1>. DEFINE i == deciding.index
              b == BucketOf(i)
              o == Bucket(b)
              new == [o EXCEPT !.checked = With(@, i, Sun[i])]
  <1>1. i \in Frames /\ Sun[i] # None /\ ModelsSound(models, generation) /\ ~HasAnswer(i)
    BY DEF Miss, FlareInv, FlareControl, Unanswered
  <1>2. models' = Trim(With(models, b, new), b)
    BY DEF Miss
  <1>3. BucketSound(o, generation) /\ i \notin DOMAIN o.frames
    BY <1>1, BucketIsSound DEF Bucket, HasAnswer
  <1>4. models = [c \in DOMAIN models |-> models[c]] /\ \A c \in DOMAIN models : BucketSound(models[c], generation)
    BY <1>1 DEF ModelsSound
  <1>5. b \in DOMAIN models => o = models[b]
    BY DEF Bucket, BucketOr
  <1>6. BucketSound(new, generation) /\ new.frames = o.frames
    <2>1. new = [entries |-> o.entries, frames |-> o.frames, checked |-> With(o.checked, i, Sun[i])]
      <3>. HIDE DEF o
      <3>. QED BY <1>3, BucketPut DEF BucketSound
    <2>2. With(o.checked, i, Sun[i]) = [j \in DOMAIN o.checked \cup {i} |-> IF j = i THEN Sun[i] ELSE o.checked[j]]
      BY DEF With
    <2>. HIDE DEF o, new, i
    <2>. QED BY <1>1, <1>3, <2>1, <2>2 DEF BucketSound, IsBucket
  <1>. HIDE DEF new, o, b
  <1>7. /\ models' = [c \in DOMAIN models' |-> models'[c]] /\ b \in DOMAIN models' /\ models'[b] = new
        /\ \A c \in DOMAIN models' : c # b => c \in DOMAIN models /\ models'[c] = models[c]
    BY <1>2, <1>4, PutIs
  <1>8. ModelsSound(models', generation)
    BY <1>4, <1>6, <1>7 DEF ModelsSound
  <1>9. AnswersKept(models, models')
    BY <1>5, <1>6, <1>7 DEF AnswersKept
  <1>. QED BY <1>8, <1>9 DEF Miss, FlareKept, FlareInv, FlareControl, Unanswered, NotDeciding

LEMMA SetPrefsStep == ASSUME FlareInv, SetPrefs PROVE FlareKept
  <1>1. ModelsSound(models', generation')
    BY EmptyIsSound DEF SetPrefs, Reset
  <1>2. generation' # generation /\ generation' \in Nat
    BY DEF SetPrefs, Reset, FlareInv, FlareControl
  <1>. QED BY <1>1, <1>2 DEF SetPrefs, Reset, FlareKept, FlareInv, FlareControl, Unanswered

LEMMA StopStageStep == ASSUME FlareInv, StopStage PROVE FlareKept
  BY ModelsUnchanged DEF StopStage, Goes, FlareKept, FlareInv, FlareControl, Unanswered

LEMMA QuietedStep == ASSUME FlareInv, Quieted PROVE FlareKept
  <1>1. ModelsSound(models', generation')
    BY EmptyIsSound DEF Quieted, Reset
  <1>. QED BY <1>1 DEF Quieted, Reset, Asleep, FlareKept, FlareInv, FlareControl, Unanswered, NotDeciding

LEMMA TakeJobStep == ASSUME FlareInv, TakeJob PROVE FlareKept
  BY ModelsUnchanged
  DEF TakeJob, FlareKept, FlareInv, FlareControl, Unanswered, HasAnswer, Bucket, BucketOr

LEMMA StoreFittedStep == ASSUME FlareInv, StoreFitted PROVE FlareKept
  <1>. DEFINE job == worker.job
              e == Entry(job, "worker")
  <1>1. job \in Jobs /\ Sun[job.on] # None /\ ModelsSound(models, generation)
    BY DEF StoreFitted, FlareInv, FlareControl
  <1>2. ModelsSound(models', generation) /\ AnswersKept(models, models') /\ NoneAdded(models, models')
    <2>1. CASE models' = models
      BY <1>1, <2>1, ModelsUnchanged
    <2>2. CASE Wanted(job) /\ models' = Stored(models, BucketOf(job.on), e)
      <3>1. e \in Fitted(generation)
        BY <1>1, <2>2 DEF Wanted, Fitted, Entries, Entry, Jobs
      <3>. HIDE DEF e, job
      <3>. QED BY <1>1, <2>2, <3>1, StoredIs
    <2>. QED BY <2>1, <2>2 DEF StoreFitted
  <1>3. Unanswered'
    <2>1. deciding' = deciding
      BY DEF StoreFitted
    <2>2. HasAnswer(deciding.index)' => HasAnswer(deciding.index)
      BY <1>2, <2>1 DEF NoneAdded, HasAnswer, Bucket, BucketOr, NoBucket
    <2>. QED BY <2>1, <2>2 DEF FlareInv, Unanswered
  <1>. QED BY <1>2, <1>3 DEF StoreFitted, Asleep, FlareKept, FlareInv, FlareControl

LEMMA WorkerExitStep == ASSUME FlareInv, WorkerExit PROVE FlareKept
  BY ModelsUnchanged
  DEF WorkerExit, locked, FlareKept, FlareInv, FlareControl, Unanswered, HasAnswer, Bucket, BucketOr

LEMMA FlareStep == FlareInv /\ [FlareNext]_flareVars => FlareKept
  <1>1. CASE UNCHANGED flareVars
    BY <1>1, ModelsUnchanged
    DEF flareVars, FlareKept, FlareInv, FlareControl, Unanswered, HasAnswer, Bucket, BucketOr
  <1>2. CASE FlareNext
    BY <1>2, DecideStep, KnownStep, LocateSunStep, NoSunStep, FindModelStep, FitStep, QueueStep, MissStep,
       SetPrefsStep, StopStageStep, QuietedStep, TakeJobStep, StoreFittedStep, WorkerExitStep
    DEF FlareNext, Render, Worker
  <1>. QED BY <1>1, <1>2

LEMMA FlareStarts == FlareInit => FlareInv
  BY EmptyIsSound DEF FlareInit, FlareInv, FlareControl, Unanswered, NotDeciding, Asleep

\* A frame renders with a model for its own sun, fitted under the settings in force
\* (FlareStage.cpp, decide() and workerLoop()).
THEOREM FramesFit == FlareSpec => []ModelsFit
  <1>1. FlareInv => ModelsFit
    <2>. SUFFICES ASSUME FlareInv, NEW b \in DOMAIN models
                  PROVE  /\ \A n \in DOMAIN models[b].entries : models[b].entries[n].gen = generation
                         /\ \A i \in DOMAIN models[b].frames :
                               LET e == models[b].frames[i] IN
                               IF Sun[i] = None THEN e = None
                               ELSE e # None /\ e.gen = generation /\ Matches(Sun[e.on], Sun[i])
                         /\ DOMAIN models[b].frames \cap DOMAIN models[b].checked = {}
      BY DEF ModelsFit
    <2>1. BucketSound(models[b], generation)
      BY DEF FlareInv, ModelsSound
    <2>2. \A e \in Fitted(generation) : e.gen = generation /\ e # None
      BY FlareAssumption DEF Fitted
    <2>3. ASSUME NEW n \in DOMAIN models[b].entries PROVE models[b].entries[n] \in Fitted(generation)
      BY <2>1 DEF BucketSound
    <2>. QED BY <2>1, <2>2, <2>3 DEF BucketSound, Suits
  <1>2. FlareInv /\ [FlareNext]_flareVars => FlareInv'
    BY FlareStep DEF FlareKept
  <1>. QED BY <1>1, <1>2, FlareStarts, PTL DEF FlareSpec

\* A frame keeps the first answer it got, until a reset or a trim of its bucket.
THEOREM AnswersStay == FlareSpec => AnswerIsKept
  <1>1. FlareInv /\ [FlareNext]_flareVars => FlareInv'
    BY FlareStep DEF FlareKept
  <1>2. FlareInv /\ [FlareNext]_flareVars =>
        [generation' = generation =>
           \A b \in DOMAIN models \cap DOMAIN models' : \A i \in DOMAIN models[b].frames :
              i \in DOMAIN models'[b].frames /\ models'[b].frames[i] = models[b].frames[i]]_flareVars
    BY FlareStep DEF FlareKept, AnswersKept
  <1>. QED BY <1>1, <1>2, FlareStarts, PTL DEF FlareSpec, AnswerIsKept
===============================================================================
