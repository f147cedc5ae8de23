--------------------------- MODULE MCParallaxWorker ---------------------------
(* Two parts of the importer that share nothing here, one per behaviour: the     *)
(* seam meshes of an instance, and the user's defaults it starts with; see       *)
(* README, "Runs".                                                               *)
EXTENDS ParallaxWorker, UserDefaults, TLC

VARIABLE which    \* the part this behaviour is of

\* The importer in one Premiere, the source settings effect in another, and settings
\* with documents of two lengths.
MCProcess == "importer" :> "A" @@ "effect" :> "B"
MCSize == "pq" :> 1 @@ "hlg" :> 2

Start ==
    /\ which \in {"meshes", "defaults"}
    /\ Init /\ DefaultsInit
    /\ windows \/ which = "defaults"    \* one initial state of the other

Step ==
    \/ which = "meshes" /\ UNCHANGED <<which, defaultsVars>> /\ Next
    \/ which = "defaults" /\ UNCHANGED <<which, vars>> /\ DefaultsNext

PartsSpec == Start /\ [][Step]_<<which, vars, defaultsVars>>
=============================================================================
