------------------------------ MODULE MCImporter ------------------------------
(* Three parts of the importer, and the batch of the Studio app, that share      *)
(* nothing here, one per behaviour: the reading of both lenses, a file's Source  *)
(* Settings, with and without frames of the direct path, the flare stage, and    *)
(* the batch of MCBatchRunner; see README, "Runs".                               *)
EXTENDS LensReader, SettingsRegistry, FlareStage, MCBatchRunner

CONSTANTS p1, p2

VARIABLE which    \* the part this behaviour is of

\* Tracks of two or three groups of pictures: a lens that lost a key picture, one
\* that lost the picture before a key, one whose second key comes late, one that
\* never recovers, one without a first key, and pictures flagged as damaged.
Plain == [listed |-> {0, 3}, starts |-> {0, 3}, lost |-> {}, flagged |-> {}, hwFlagged |-> {}]
LostKey == [Plain EXCEPT !.listed = {0, 2, 4}, !.starts = {0, 4}, !.lost = {2}]
LostOne == [Plain EXCEPT !.listed = {0, 1, 2}, !.starts = {0, 2}, !.lost = {1}]
LateKey == [Plain EXCEPT !.listed = {0, 2}, !.starts = {0, 3}]
NoEnd == [Plain EXCEPT !.starts = {0}, !.lost = {3}]
NoStart == [Plain EXCEPT !.listed = {0, 2}, !.starts = {2}, !.lost = {0}]
Flagged == [Plain EXCEPT !.flagged = {1}]
HwFlagged == [Plain EXCEPT !.hwFlagged = {1}]

File(slave, master) == 0 :> slave @@ 1 :> master
MCFiles == <<{File(LostKey, HwFlagged), File(LostKey, LostOne), File(NoStart, LateKey),
              File(Flagged, NoEnd)}, {File(Plain, Plain)}>>

\* The instances Premiere opens of the file; the engine's is told apart by its role.
MCSymmetry == Permutations({p1, p2}) \cup MCItems

\* Three buckets of a slow pan.  The sun drifts: neighbours match, the frames at
\* the ends do not; it is out of view in frame 3.
MCFrames == 0 .. 4
MCSun == 0 :> 0 @@ 1 :> 1 @@ 2 :> 2 @@ 3 :> None @@ 4 :> 3

\* With frames, one call and one open less.
Start ==
    /\ which \in {"lens", "settings", "engine", "flare", "batch"}
    /\ Init /\ FlareInit /\ BatchInit
    /\ which # "lens" => disk.content = CHOOSE f \in MCFiles[1] : TRUE
    /\ RegistryEmpty
    /\ opens = IF which = "engine" THEN 1 ELSE 0
    /\ calls = opens

Step ==
    \/ which = "lens" /\ UNCHANGED <<which, settingsVars, flareVars, batchVars>> /\ Next
    \/ /\ which \in {"settings", "engine"} /\ UNCHANGED <<which, vars, flareVars, batchVars>>
       /\ SettingsNext /\ (which = "engine" \/ render' = render)
    \/ which = "flare" /\ UNCHANGED <<which, vars, settingsVars, batchVars>> /\ FlareNext
    \/ which = "batch" /\ UNCHANGED <<which, vars, settingsVars, flareVars>> /\ BatchNext

ImporterSpec == Start /\ [][Step]_<<which, vars, settingsVars, flareVars, batchVars>>
=============================================================================
