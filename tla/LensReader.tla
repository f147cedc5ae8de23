------------------------------ MODULE LensReader ------------------------------
(***************************************************************************)
(* Reading a frame of both lenses on the CPU path: the two lens decoders,  *)
(* the dual reader that holds a frame in place of one no decoder can       *)
(* produce, the importer's fallback to software, and the pool of warm      *)
(* readers a clip's instances share.                                       *)
(*                                                                         *)
(* A track is described by its samples: those the sync table lists, those  *)
(* that really start a decode, those whose reference picture the file has  *)
(* lost, and those libavcodec flags as damaged, in any decoder or only in  *)
(* a hardware one.  libavcodec is external: from a start it produces       *)
(* picture after picture, and nothing from a lost reference to the next    *)
(* start.                                                                  *)
(***************************************************************************)
EXTENDS Absence, Integers, Sequences, SequencesExt, FiniteSets, FiniteSetsExt

CONSTANTS
    Count,           \* samples of each track
    Files,           \* of each version of the clip's file, the contents it may have:
                     \* lens -> track (bound: the versions)
    MaxIdle,         \* ReaderPool's limit
    MaxFailures      \* bound: failed decodes and opens, hardware formats not offered

Lenses == {0, 1}
Samples == 0 .. Count - 1
Backends == {"hardware", "software"}

Tracks ==
    {track \in [listed : SUBSET Samples, starts : SUBSET Samples, lost : SUBSET Samples,
                flagged : SUBSET Samples, hwFlagged : SUBSET Samples] :
        0 \in track.listed /\ track.starts \cap track.lost = {}}

\* The bytes a decoder maps: a version of the file.
Versions == [version : Nat, content : [Lenses -> Tracks]]

ASSUME LensAssumption ==
    /\ Count \in Nat \ {0} /\ MaxIdle \in Nat \ {0} /\ MaxFailures \in Nat
    /\ Files \in Seq(SUBSET [Lenses -> Tracks]) /\ Files # <<>>
    /\ None \notin {"picture", "timing", "decoder"} \cup Versions
    /\ None \notin Samples /\ None \notin [first : Samples, end : Samples]

VARIABLES
    disk,        \* the file: its version and its content
    parked,      \* ReaderPool: readers not in use
    hwFailed,    \* m_hwDecodeFailed of the instance
    reader,      \* m_reader, or None
    request,     \* the instance's thread, inside renderFrame() or not
    failures     \* so far, of MaxFailures

vars == <<disk, parked, hwFailed, reader, request, failures>>

Calm == failures < MaxFailures
Upset == Calm /\ failures' = failures + 1
-----------------------------------------------------------------------------
\* A track

\* ContainerSource::previousSync(): the listed sync sample when it starts a
\* decode, else the nearest sample that does, else the listed one after all.
PreviousSync(track, i) ==
    LET listed == Max({s \in track.listed : s <= i})
        starts == {s \in track.starts : s <= i}
    IN  IF listed \in starts \/ starts = {} THEN listed ELSE Max(starts)

\* libavcodec can produce a picture when no reference is missing since a start.
Decodable(track, i) ==
    \E s \in track.starts : s <= i /\ \A r \in s + 1 .. i : r \notin track.lost

\* The pictures a decode from here to there produces.
Pictures(track, from, to) == {s \in from .. to : Decodable(track, s)}

\* Mutant: only the picture asked for is looked at.
DamagedItself(track, hw, pictures, before) ==
    Max(pictures) \in track.flagged \cup (IF hw THEN track.hwFlagged ELSE {})

\* Whether the last of these pictures is flagged, or predicted from one that is.
Damaged(track, hw, pictures, before) ==
    LET flagged == track.flagged \cup (IF hw THEN track.hwFlagged ELSE {})
        starts == track.starts \cap pictures
    IN  IF starts = {} THEN before \/ flagged \cap pictures # {}
        ELSE \E s \in pictures : s >= Max(starts) /\ s \in flagged
-----------------------------------------------------------------------------
\* HevcStreamDecoder

\* lastDecodedIndex is None when the position is not valid; when it is, the
\* next index is one more.
NewDecoder(hw) ==
    [hw |-> hw, fresh |-> TRUE, last |-> None, damaged |-> FALSE, runs |-> <<>>]

\* knownRun(): the first met that contains the sample.
KnownRun(dec, i) ==
    LET n == SelectInSeq(dec.runs, LAMBDA r : r.first <= i /\ i < r.end)
    IN  IF n = 0 THEN None ELSE dec.runs[n]

\* Mutant: a step back within the group of pictures is taken for one forward.
CanDecodeAnyTo(dec, track, i) ==
    dec.last # None /\ (i = dec.last + 1 \/ PreviousSync(track, i) <= dec.last)

CanDecodeForwardTo(dec, track, i) ==
    /\ dec.last # None
    /\ i > dec.last
    /\ i = dec.last + 1 \/ PreviousSync(track, i) <= dec.last

\* classifySkip() and noteRun(): the decoder went from a picture (or the sample
\* it was put on) straight to a start.
NoteRun(dec, track, first, end) ==
    LET run == [first |-> first, end |-> end]
    IN  IF first \in track.starts \/ end \notin track.starts \/ Contains(dec.runs, run) THEN dec
        ELSE [dec EXCEPT !.runs = Append(@, run)]

\* decode(): the decoder afterwards, and what it returned.
Decode(dec, track, i) ==
    LET seek == ~CanDecodeForwardTo(dec, track, i)
        from == IF seek THEN PreviousSync(track, i) ELSE dec.last + 1
        passed == Pictures(track, from, i - 1)
        first == IF passed # {} THEN Max(passed) + 1 ELSE from
        coming == Pictures(track, Max({from, i}), Count - 1)
        damaged == Damaged(track, dec.hw, passed \cup {i}, ~seek /\ dec.damaged)
        lost == [dec EXCEPT !.last = None]
    IN  IF KnownRun(dec, i) # None THEN [dec |-> dec, got |-> "timing"]
        ELSE IF coming = {} THEN [dec |-> lost, got |-> "decoder"]
        ELSE IF i \notin coming THEN [dec |-> NoteRun(lost, track, first, Min(coming)), got |-> "timing"]
        ELSE IF damaged /\ dec.hw THEN [dec |-> lost, got |-> "decoder"]
        ELSE [dec |-> [dec EXCEPT !.last = i, !.damaged = damaged], got |-> "picture"]

\* A decode that fails on the way: position lost, whatever the file says.
Broken(dec) == [dec |-> [dec EXCEPT !.last = None], got |-> "decoder"]

\* What may come of a decode; a known run is refused before anything can fail.
Outcomes(dec, track, i) ==
    {Decode(dec, track, i)} \cup (IF Calm /\ KnownRun(dec, i) = None THEN {Broken(dec)} ELSE {})
-----------------------------------------------------------------------------
\* DualStreamReader

\* open() reads the identity of the file first; each lens then maps the file.
NewReader(backend) ==
    [backend |-> backend, identity |-> disk.version, bytes |-> [l \in Lenses |-> None],
     dec |-> [l \in Lenses |-> NewDecoder(backend = "hardware")], held |-> None]

Track(rd, l) == rd.bytes[l].content[l]

\* heldFrameFor(): the frame before a run, or the one a run from 0 ends at.
HeldFrameFor(run) == IF run.first > 0 THEN run.first - 1 ELSE run.end

\* A round of holdFor(): the earliest of the frames the lenses hold instead.
Earlier(rd, i) ==
    LET around == {l \in Lenses : KnownRun(rd.dec[l], i) # None}
    IN  IF around = {} THEN i ELSE Min({HeldFrameFor(KnownRun(rd.dec[l], i)) : l \in around})

\* holdFor(): from run to run, four rounds at most; None when no lens knows a
\* run around the frame.
HoldFor(rd, i) ==
    IF \A l \in Lenses : KnownRun(rd.dec[l], i) = None THEN None
    ELSE Earlier(rd, Earlier(rd, Earlier(rd, Earlier(rd, i))))

\* Mutant: whichever frame is kept.
KeptAny(rd, i) == rd.held # None

\* heldPair, when it is what is wanted.
Kept(rd, i) == rd.held # None /\ rd.held.index = i

-----------------------------------------------------------------------------
\* A request: Idle before the first and between requests, with the last
\* answer.  asked: the frame; target: the one decoded for it, held when another
\* was asked for; runs: those the reader knew when it was asked; again: after
\* the fallback.
Idle == [at |-> "idle", asked |-> None, target |-> None, held |-> FALSE, backend |-> None,
         got |-> [l \in Lenses |-> None], runs |-> 0, again |-> FALSE,
         answer |-> [got |-> None, index |-> None, hw |-> {}]]

\* For the properties: a pair says which of its lenses the hardware decoded.
Pair(i) == [got |-> "picture", index |-> i, hw |-> {l \in Lenses : reader.dec[l].hw}]
Failure(error) == [Idle.answer EXCEPT !.got = error]
RunsKnown(rd) == Len(rd.dec[0].runs) + Len(rd.dec[1].runs)

Init ==
    /\ disk \in [version : {1}, content : Files[1]]
    /\ parked = {} /\ hwFailed = FALSE /\ reader = None
    /\ request = Idle /\ failures = 0

At(place) == request.at = place
Go(place) == request' = [request EXCEPT !.at = place]
Answer(a) == request' = [request EXCEPT !.at = "idle", !.answer = a]

\* ensureReader(): hardware first, unless it has failed on this clip.
Ensure(req) ==
    request' = IF reader' # None THEN [req EXCEPT !.at = "look"]
               ELSE [req EXCEPT !.at = "take", !.backend = IF hwFailed' THEN "software" ELSE "hardware"]

Ask(i) ==
    /\ At("idle")
    /\ UNCHANGED <<disk, parked, hwFailed, reader, failures>>
    /\ Ensure([Idle EXCEPT !.asked = i])

\* The pool is asked for a reader of the file as it is now, opened the same way.
Warm == {r \in parked : r.identity = disk.version /\ r.backend = request.backend}

Take ==
    /\ At("take") /\ Warm # {}
    /\ reader' \in Warm /\ parked' = parked \ {reader'}
    /\ Go("look")
    /\ UNCHANGED <<disk, hwFailed, failures>>

Open ==
    /\ At("take") /\ Warm = {}
    /\ reader' = NewReader(request.backend)
    /\ Go("open")
    /\ UNCHANGED <<disk, parked, hwFailed, failures>>

\* Mutant: the identity is taken with the mapping.
MapLensNamed(l) ==
    /\ At("open") /\ reader.bytes[l] = None
    /\ reader' = [reader EXCEPT !.bytes[l] = disk, !.identity = disk.version]
    /\ UNCHANGED <<disk, parked, hwFailed, request, failures>>

MapLens(l) ==
    /\ At("open") /\ reader.bytes[l] = None
    /\ reader' = [reader EXCEPT !.bytes[l] = disk]
    /\ UNCHANGED <<disk, parked, hwFailed, request, failures>>

Opened ==
    /\ At("open") /\ \A l \in Lenses : reader.bytes[l] # None
    /\ Go("look")
    /\ UNCHANGED <<disk, parked, hwFailed, reader, failures>>

\* The next back-end is tried, and after software none is left.
OpenFails ==
    /\ At("open") /\ Upset
    /\ reader' = None
    /\ IF request.backend = "hardware"
       THEN request' = [request EXCEPT !.at = "take", !.backend = "software"]
       ELSE Answer(Failure("unopened"))
    /\ UNCHANGED <<disk, parked, hwFailed>>

\* read(): a run a lens already met, the held frame itself, or a decode.
Look ==
    /\ At("look")
    /\ LET hold == HoldFor(reader, request.asked)
           wanted == IF hold # None THEN hold ELSE request.asked
       IN  IF Kept(reader, wanted)
           THEN Answer(reader.held) /\ UNCHANGED reader
           ELSE /\ reader' = [reader EXCEPT !.held = IF hold # None THEN @ ELSE None]
                /\ request' = [request EXCEPT !.at = "decode", !.target = wanted,
                                              !.held = hold # None, !.got = Idle.got,
                                              !.runs = RunsKnown(reader)]
    /\ UNCHANGED <<disk, parked, hwFailed, failures>>

\* decodePair(): each lens on a thread of its own.
DecodeLens(l) ==
    /\ At("decode") /\ request.got[l] = None
    /\ \E result \in Outcomes(reader.dec[l], Track(reader, l), request.target) :
          /\ reader' = [reader EXCEPT !.dec[l] = [result.dec EXCEPT !.fresh = FALSE]]
          /\ request' = [request EXCEPT !.got[l] = result.got]
          /\ failures' = IF result = Decode(reader.dec[l], Track(reader, l), request.target)
                         THEN failures ELSE failures + 1
    /\ UNCHANGED <<disk, parked, hwFailed>>

\* get_format, at a lens's first decode: the hardware does not take the stream.
DropToSoftware(l) ==
    /\ At("decode") /\ request.got[l] = None /\ Upset
    /\ reader.dec[l].fresh /\ reader.dec[l].hw
    /\ reader' = [reader EXCEPT !.dec[l].hw = FALSE]
    /\ UNCHANGED <<disk, parked, hwFailed, request>>

Joined == At("decode") /\ \A l \in Lenses : request.got[l] # None
Error == request.got[IF request.got[0] # "picture" THEN 0 ELSE 1]

Deliver ==
    /\ Joined /\ Error = "picture"
    /\ reader' = [reader EXCEPT !.held = IF request.held THEN Pair(request.target) ELSE @]
    /\ Answer(Pair(request.target))
    /\ UNCHANGED <<disk, parked, hwFailed, failures>>

\* A run met by this request: the question has an answer now.
Hold ==
    /\ Joined /\ Error # "picture" /\ ~request.held
    /\ LET hold == HoldFor(reader, request.asked)
       IN  /\ hold # None
           /\ request' = [request EXCEPT !.target = hold, !.held = TRUE, !.got = Idle.got]
    /\ UNCHANGED <<disk, parked, hwFailed, reader, failures>>

ReadFails == Joined /\ Error # "picture" /\ (request.held \/ HoldFor(reader, request.asked) = None)

\* readPair(): what software would fail at as well is returned, ...
Refuse ==
    /\ ReadFails
    /\ Error = "timing" \/ ~reader.dec[0].hw \/ request.again
    /\ Answer(Failure(Error))
    /\ UNCHANGED <<disk, parked, hwFailed, reader, failures>>

\* ... and a failure of the hardware is answered by a software reader.
FallBack ==
    /\ ReadFails
    /\ Error = "decoder" /\ reader.dec[0].hw /\ ~request.again
    /\ hwFailed' = TRUE /\ reader' = None
    /\ Ensure([request EXCEPT !.again = TRUE])
    /\ UNCHANGED <<disk, parked, failures>>
-----------------------------------------------------------------------------
\* releaseHeavy() parks the reader; the pool may let go of it at any time.
Quiet ==
    /\ At("idle") /\ reader # None
    /\ \E kept \in SUBSET parked : Cardinality(kept) < MaxIdle /\ parked' = kept \cup {reader}
    /\ reader' = None
    /\ UNCHANGED <<disk, hwFailed, request, failures>>

\* The instance goes, and another of the clip is opened.
Reopen ==
    /\ At("idle") /\ reader = None /\ hwFailed
    /\ hwFailed' = FALSE
    /\ UNCHANGED <<disk, parked, reader, request, failures>>

Release ==
    /\ \E r \in parked : parked' = parked \ {r}
    /\ UNCHANGED <<disk, hwFailed, reader, request, failures>>

Rewrite ==
    /\ disk.version < Len(Files)
    /\ disk' \in [version : {disk.version + 1}, content : Files[disk.version + 1]]
    /\ UNCHANGED <<parked, hwFailed, reader, request, failures>>

Next ==
    \/ \E i \in Samples : Ask(i)
    \/ Take \/ Open \/ Opened \/ OpenFails \/ Look \/ Deliver \/ Hold \/ Refuse \/ FallBack
    \/ \E l \in Lenses : MapLens(l) \/ DecodeLens(l) \/ DropToSoftware(l)
    \/ Quiet \/ Reopen \/ Release \/ Rewrite

Spec == Init /\ [][Next]_vars
-----------------------------------------------------------------------------
\* What both lenses of a reader's file can decode.
Shared(rd) == {i \in Samples : \A l \in Lenses : Decodable(Track(rd, l), i)}

Answered(got) == At("idle") /\ reader # None /\ request.answer.got = got

\* A pair handed out is that of the frame asked for, else of the last one before
\* it that both lenses have, and only without any before it of the first after:
\* a matter of the file, whatever was asked for, failed, was met or kept before.
ShowsTheFrame ==
    Answered("picture") =>
        LET before == {i \in Shared(reader) : i <= request.asked}
        IN  request.answer.index = IF before # {} THEN Max(before) ELSE Min(Shared(reader))

\* A lens has nothing after h and up to i; that is its frame before a run.
StepsBack(tracks, i, h) ==
    \E l \in Lenses :
        /\ h < i /\ Decodable(tracks[l], h)
        /\ \A s \in h + 1 .. i : ~Decodable(tracks[l], s)

\* The losses of the two lenses chain deeper than holdFor()'s four rounds: four
\* steps back from here end where one of them has no picture still.
ChainsDeeper(rd, i) ==
    LET tracks == [l \in Lenses |-> Track(rd, l)]
    IN  \E h \in [0 .. 4 -> Samples] :
            /\ h[0] = i /\ \A n \in 0 .. 3 : StepsBack(tracks, h[n], h[n + 1])
            /\ \E l \in Lenses : ~Decodable(tracks[l], h[4])

\* A frame with one of both lenses at or before it is refused for pictures the
\* file has lost only by a request that met a run no request had met, or where the
\* losses behind it chain deeper than the four rounds.  Frames before the first of
\* both lenses are not spoken of; FourRoundsSuffice is about both exceptions.
RefusalTeaches ==
    (Answered("timing") /\ \E i \in Shared(reader) : i <= request.asked) =>
        RunsKnown(reader) > request.runs \/ ChainsDeeper(reader, request.asked)

\* What DualStreamReader.cpp:519 and :527 say of holdFor(): its four rounds cover
\* every arrangement of runs, so that what it answers is not inside one, as long
\* as the two lenses have a frame in common at all.
FourRoundsSuffice ==
    (At("idle") /\ reader # None /\ Shared(reader) # {}) =>
        \A i \in Samples : HoldFor(reader, i) # None =>
            \A l \in Lenses : KnownRun(reader.dec[l], HoldFor(reader, i)) = None

\* No damage in the group of pictures of this one, up to it, in hardware.
Clean(track, i) ==
    LET start == Max({s \in track.starts : s <= i})
    IN  start .. i \cap (track.flagged \cup track.hwFlagged) = {}

\* The hardware's picture of a lens is not flagged and not predicted from one
\* that is, whichever requests its group of pictures was decoded for.
DamageIsNotShown ==
    Answered("picture") =>
        \A l \in request.answer.hw : Clean(Track(reader, l), request.answer.index)

\* A warm reader the pool would match with the file decodes the file as it is.
WarmIsCurrent ==
    \A r \in parked : r.identity = disk.version => \A l \in Lenses : r.bytes[l] = disk
=============================================================================
