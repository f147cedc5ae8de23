----------------------------- MODULE MCLensReader -----------------------------
(* LensReader with two arrangements of lost pictures on which the four rounds    *)
(* of holdFor() do not end at a frame of both lenses.                            *)
EXTENDS LensReader

Track7 == [listed |-> {}, starts |-> {}, lost |-> {}, flagged |-> {}, hwFlagged |-> {}]
Group(starts, lost) == [Track7 EXCEPT !.listed = starts \cup {0}, !.starts = starts, !.lost = lost]

\* Key pictures a frame apart, each of the lenses without every other picture:
\* frame 5 leads back to 4, 3, 2 and 1, which lens 0 has no picture of; only
\* frames 0 and 6 are of both.
Ladder == <<Group({0, 2, 4, 6}, {1, 3, 5}), Group({0, 1, 3, 5}, {2, 4})>>

\* Lens 0 begins at 3, where lens 1 has no picture: frame 0 leads to 3, 3 to 2,
\* and 2 to 3 again; frames 5 and 6 are of both.
Swing == <<Group({3}, {0, 1, 2}), Group({0, 5}, {3})>>

MCFiles == <<{[l \in Lenses |-> file[l + 1]] : file \in {Ladder, Swing}}>>
=============================================================================
