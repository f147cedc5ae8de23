--------------------------- MODULE SettingsRegistry ---------------------------
(* How one file's Source Settings travel (src/plugins/importer): the           *)
(* instances Premiere opens of the file publish them in the engine's registry, *)
(* the Source Settings effect pushes an edit into all of them at once, and the *)
(* engine applies what is published to its own instance before each frame of   *)
(* the direct path.                                                            *)
(*                                                                             *)
(* An instance applies and publishes under its m_mutex: between the two it     *)
(* still has to publish (publishing), and nobody else gets in.                 *)
EXTENDS Absence, Integers, Sequences, SequencesExt, FiniteSetsExt

CONSTANTS
    Clips,        \* the instances Premiere opens
    Engines,      \* the instances the engine opens
    Renders,      \* threads that acquire frames
    Blobs,        \* settings
    Defaults,     \* among them, those an instance starts from
    MaxOpens,     \* bound: times Premiere opens the file
    MaxCalls      \* bound: selectors that change something, edits, shutdowns

\* What the registry holds of a file.
PublishedSettings ==
    [prefs : Blobs, publisher : Nat, fromHost : BOOLEAN, fromEffect : BOOLEAN, generation : Nat]

ASSUME SettingsAssumption ==
    /\ Clips \cap Engines = {}
    /\ None \notin Clips \cup Engines \cup Blobs \cup PublishedSettings
    /\ Defaults \in Blobs /\ MaxOpens \in Nat /\ MaxCalls \in Nat

Instances == Clips \cup Engines

VARIABLES
    \* the registry, under its mutex
    slot,        \* prefs: the file's PublishedSettings, or None
    engineClip,  \* clips: the engine's instance, or None
    \* the LiveInstanceTable; dispatchMutex is held unless dispatch is idle
    table,       \* instances, oldest first
    dispatch,    \* the edit being pushed: where, and to whom it still has to go
    \* each instance
    inst,        \* its members, and the publication it has still to make
    opening,     \* imOpenFile8 of each clip: where it is, what it found
    render,      \* each acquire: where it is, its instance, what it read, its frame
    token,       \* g_nextPublisherToken
    history,     \* history: the settings of each generation
    opens, calls \* so far, of MaxOpens and MaxCalls

registry == <<slot, history>>
bounds == <<opens, calls>>
settingsVars == <<slot, engineClip, table, dispatch, inst, opening, render, token, history, bounds>>

NewInstance == [prefs |-> Defaults, effect |-> FALSE, token |-> 0, told |-> FALSE,
                owned |-> FALSE, publishing |-> "no"]
NoPush == [at |-> "idle", edit |-> None, todo |-> {}]
NoFrame == [at |-> "idle", clip |-> None, read |-> None, prefs |-> None, generation |-> 0]

RegistryEmpty ==
    /\ slot = None /\ engineClip = None /\ history = <<>>
    /\ table = <<>> /\ dispatch = NoPush
    /\ inst = [i \in Instances |-> NewInstance]
    /\ opening = [i \in Clips |-> [at |-> "closed", found |-> None]]
    /\ render = [r \in Renders |-> NoFrame]
    /\ token = 1

SettingsInit == RegistryEmpty /\ opens = 0 /\ calls = 0

Called == calls < MaxCalls /\ calls' = calls + 1 /\ opens' = opens
Alive(i) == i \in Range(table)
Unlocked(i) ==
    /\ inst[i].publishing = "no"
    /\ \A r \in Renders : ~(render[r].at = "apply" /\ render[r].clip = i)

\* The instance a push goes to next: the oldest of those it still has to go to.
Target == table[Min({n \in DOMAIN table : table[n] \in dispatch.todo})]
-----------------------------------------------------------------------------
(* The instance's side: applyPrefsImplLocked and publishSettingsLocked. *)

\* A token is taken for the first publication.
Told(p, t, kind) ==
    [p EXCEPT !.publishing = kind, !.token = IF p.token = 0 THEN t ELSE p.token]

\* Mutant: the host's block always counts.
HostReverts(p, t, block) ==
    IF block = None THEN Told(p, t, "defaults")
    ELSE IF block = p.prefs /\ p.told THEN p
    ELSE [Told(p, t, "host") EXCEPT !.prefs = block]

\* The settings a selector carries, or None for a block that is not one of ours.
\* Live settings of the effect are not reverted by the host's block.
HostApplies(p, t, block) ==
    IF p.effect THEN IF p.told THEN p ELSE Told(p, t, "host")
    ELSE IF block = None THEN Told(p, t, "defaults")
    ELSE IF block = p.prefs /\ p.told THEN p
    ELSE [Told(p, t, "host") EXCEPT !.prefs = block]

\* applyPrefsFromSourceSettings: always a fresh token, always published.
EffectApplies(p, t, edit) ==
    [p EXCEPT !.prefs = edit, !.effect = TRUE, !.token = t, !.told = FALSE,
              !.publishing = "host"]

\* Mutant: the last publication wins.
AcceptsLast(s, who, fromHost) == fromHost \/ ~s.fromHost

\* The precedence rule of enginePublishPrefs.
Accepts(s, who, fromHost) ==
    \/ fromHost /\ ~s.fromHost
    \/ fromHost = s.fromHost /\ who >= s.publisher

\* The slot after a publication.
Published(s, prefs, who, fromHost) ==
    IF s = None THEN [prefs |-> prefs, publisher |-> who, fromHost |-> fromHost,
                      fromEffect |-> FALSE, generation |-> 1]
    ELSE IF ~Accepts(s, who, fromHost) THEN s
    ELSE [s EXCEPT !.prefs = prefs, !.publisher = who, !.fromHost = fromHost,
                   !.generation = IF s.prefs = prefs THEN s.generation ELSE s.generation + 1]

\* Whoever holds the instance's mutex publishes and lets go; the engine's own
\* instance does not publish.
Publish(i) ==
    /\ inst[i].publishing # "no"
    /\ LET p == inst[i]  fromHost == p.publishing = "host"
           now == IF p.owned THEN slot ELSE Published(slot, p.prefs, p.token, fromHost) IN
       /\ slot' = now
       /\ history' = IF now = slot \/ (slot # None /\ now.generation = slot.generation)
                     THEN history ELSE Append(history, now.prefs)
       /\ inst' = [inst EXCEPT ![i].publishing = "no",
                               ![i].told = p.told \/ (fromHost /\ ~p.owned)]
    /\ dispatch' = IF dispatch.at = "pushing" /\ Target = i
                   THEN [dispatch EXCEPT !.at = "push", !.todo = @ \ {i}] ELSE dispatch
    /\ UNCHANGED <<engineClip, table, opening, render, token, bounds>>

-----------------------------------------------------------------------------
(* Premiere's calls. *)

\* imOpenFile8: the constructor registers the new instance.
OpenFile(i) ==
    /\ opening[i].at = "closed"
    /\ opens < MaxOpens /\ opens' = opens + 1 /\ calls' = calls
    /\ table' = Append(table, i)
    /\ inst' = [inst EXCEPT ![i] = NewInstance]
    /\ opening' = [opening EXCEPT ![i].at = "made"]
    /\ UNCHANGED <<registry, engineClip, dispatch, render, token>>

\* What the effect last pushed for the file, else the user's defaults, which do
\* not replace a blob that has come in meanwhile (seedStartingPrefs).
LookUp(i) ==
    /\ opening[i].at = "made" /\ Unlocked(i)
    /\ IF slot # None /\ slot.fromEffect
       THEN /\ opening' = [opening EXCEPT ![i] = [at |-> "found", found |-> slot.prefs]]
            /\ UNCHANGED inst
       ELSE /\ opening' = [opening EXCEPT ![i].at = "open"]
            /\ inst' = [inst EXCEPT ![i].prefs = IF inst[i].told THEN @ ELSE Defaults]
    /\ UNCHANGED <<registry, engineClip, table, dispatch, render, token, bounds>>

Adopt(i) ==
    /\ opening[i].at = "found" /\ Unlocked(i)
    /\ inst' = [inst EXCEPT ![i] = EffectApplies(@, token, opening[i].found)]
    /\ token' = token + 1
    /\ opening' = [opening EXCEPT ![i] = [at |-> "open", found |-> None]]
    /\ UNCHANGED <<registry, engineClip, table, dispatch, render, bounds>>

\* A selector with the host's block.
Selector(i, block) ==
    /\ opening[i].at = "open" /\ Unlocked(i)
    /\ LET p == HostApplies(inst[i], token, block) IN
       /\ p # inst[i] /\ Called
       /\ inst' = [inst EXCEPT ![i] = p]
       /\ token' = IF p.token = inst[i].token THEN token ELSE token + 1
    /\ UNCHANGED <<registry, engineClip, table, dispatch, opening, render>>

\* engineUnregisterInstance waits for a push that is under way.
Unregister(i) ==
    /\ dispatch.at = "idle"
    /\ table' = RemoveFirst(table, i)

\* imCloseFile.
CloseFile(i) ==
    /\ opening[i].at = "open" /\ Unlocked(i) /\ Unregister(i)
    /\ opening' = [opening EXCEPT ![i].at = "closed"]
    /\ inst' = [inst EXCEPT ![i] = NewInstance]
    /\ UNCHANGED <<registry, engineClip, dispatch, render, token, bounds>>

-----------------------------------------------------------------------------
(* publishSourceSettingsFromEffect, under dispatchMutex. *)

\* The user edits a control.  The settings block the host passes names an instance,
\* or nobody's (nothing happens then); the edit goes to every instance of its file.
Candidates == {i \in Range(table) : ~inst[i].owned}

Edit(edit) ==
    /\ dispatch.at = "idle" /\ Candidates # {} /\ Called
    /\ dispatch' = [at |-> "push", edit |-> edit, todo |-> Candidates]
    /\ UNCHANGED <<registry, engineClip, table, inst, opening, render, token>>

Push ==
    /\ dispatch.at = "push" /\ dispatch.todo # {}
    /\ LET i == Target IN
       /\ Unlocked(i)
       /\ inst' = [inst EXCEPT ![i] = EffectApplies(@, token, dispatch.edit)]
    /\ token' = token + 1
    /\ dispatch' = [dispatch EXCEPT !.at = "pushing"]
    /\ UNCHANGED <<registry, engineClip, table, opening, render, bounds>>

\* The published entry is the effect's from here on.
Pushed ==
    /\ dispatch.at = "push" /\ dispatch.todo = {}
    /\ slot' = IF slot = None THEN None ELSE [slot EXCEPT !.fromEffect = TRUE]
    /\ dispatch' = NoPush
    /\ UNCHANGED <<history, engineClip, table, inst, opening, render, token, bounds>>

-----------------------------------------------------------------------------
(* The engine: OsvEngine_AcquireFrame, _ReleaseFrame and engineShutdown. *)

\* clipFor: the instance it has, or a new one, made outside the lock.
Acquire(r) ==
    /\ render[r].at = "idle"
    /\ IF engineClip # None
       THEN /\ render' = [render EXCEPT ![r] = [NoFrame EXCEPT !.at = "clip", !.clip = engineClip]]
            /\ UNCHANGED <<table, inst>>
       ELSE \E e \in Engines :
            /\ ~Alive(e) /\ \A s \in Renders : render[s].clip # e
            /\ table' = Append(table, e)
            /\ inst' = [inst EXCEPT ![e] = NewInstance]
            /\ render' = [render EXCEPT ![r] = [NoFrame EXCEPT !.at = "made", !.clip = e]]
    /\ UNCHANGED <<registry, engineClip, dispatch, opening, token, bounds>>

\* setEngineOwned, after the constructor has registered it.
Mark(r) ==
    /\ render[r].at = "made"
    /\ inst' = [inst EXCEPT ![render[r].clip].owned = TRUE]
    /\ render' = [render EXCEPT ![r].at = "marked"]
    /\ UNCHANGED <<registry, engineClip, table, dispatch, opening, token, bounds>>

\* The file cannot be opened; or it is, and the first to get there is kept.
OpenClip(r) ==
    /\ render[r].at = "marked"
    /\ \/ render' = [render EXCEPT ![r] = NoFrame] /\ UNCHANGED engineClip
       \/ /\ engineClip' = IF engineClip = None THEN render[r].clip ELSE engineClip
          /\ render' = [render EXCEPT ![r].at = "clip", ![r].clip = engineClip']
    /\ UNCHANGED <<registry, table, dispatch, inst, opening, token, bounds>>

\* Under the instance's mutex: the settings in force are read once ...
ReadSettings(r) ==
    /\ render[r].at = "clip" /\ Unlocked(render[r].clip)
    /\ render' = [render EXCEPT ![r].at = "apply", ![r].read = slot]
    /\ UNCHANGED <<registry, engineClip, table, dispatch, inst, opening, token, bounds>>

\* Mutant: the generation is looked up again.
FrameOfSlot(p, read) ==
    [prefs |-> p.prefs, generation |-> IF slot = None THEN 0 ELSE slot.generation]

\* ... applied, and the frame made with them (or not made).
Frame(p, read) ==
    [prefs |-> p.prefs, generation |-> IF read = None THEN 0 ELSE read.generation]

ApplySettings(r) ==
    LET e == render[r].clip  read == render[r].read
        p == IF read = None \/ inst[e].effect THEN inst[e]
             ELSE [inst[e] EXCEPT !.prefs = read.prefs] IN
    /\ render[r].at = "apply"
    /\ inst' = [inst EXCEPT ![e] = p]
    /\ \/ render' = [render EXCEPT ![r] = [at |-> "leased", clip |-> e, read |-> None,
                                           prefs |-> Frame(p, read).prefs,
                                           generation |-> Frame(p, read).generation]]
       \/ render' = [render EXCEPT ![r] = NoFrame]
    /\ UNCHANGED <<registry, engineClip, table, dispatch, opening, token, bounds>>

ReleaseFrame(r) ==
    /\ render[r].at = "leased" /\ render' = [render EXCEPT ![r] = NoFrame]
    /\ UNCHANGED <<registry, engineClip, table, dispatch, inst, opening, token, bounds>>

Shutdown ==
    /\ engineClip # None /\ engineClip' = None /\ Called
    /\ UNCHANGED <<registry, table, dispatch, inst, opening, render, token>>

\* The last owner of an engine's instance lets go of it.
Drop(e) ==
    /\ Alive(e) /\ engineClip # e /\ \A r \in Renders : render[r].clip # e
    /\ Unlocked(e) /\ Unregister(e)
    /\ inst' = [inst EXCEPT ![e] = NewInstance]
    /\ UNCHANGED <<registry, engineClip, dispatch, opening, render, token, bounds>>

SettingsNext ==
    \/ \E i \in Instances : Publish(i)
    \/ \E i \in Clips :
         \/ OpenFile(i) \/ LookUp(i) \/ Adopt(i) \/ CloseFile(i)
         \/ \E block \in Blobs \cup {None} : Selector(i, block)
    \/ \E edit \in Blobs : Edit(edit)
    \/ Push \/ Pushed
    \/ \E r \in Renders : Acquire(r) \/ Mark(r) \/ OpenClip(r) \/ ReadSettings(r)
                          \/ ApplySettings(r) \/ ReleaseFrame(r)
    \/ Shutdown \/ \E e \in Engines : Drop(e)

SettingsSpec == SettingsInit /\ [][SettingsNext]_settingsVars
-----------------------------------------------------------------------------
(* Properties. *)

\* The direct path shows what the newest instance decodes with: what a host's
\* blob or the effect gave an instance is in the registry, unless a younger
\* instance has published since (SettingsPublisher).
NewestWins ==
    \A i \in Instances : Alive(i) /\ inst[i].told /\ inst[i].publishing = "no" =>
        /\ slot # None /\ slot.fromHost /\ slot.publisher >= inst[i].token
        /\ slot.publisher = inst[i].token => slot.prefs = inst[i].prefs

\* Engine.cpp:1128: "the generation reported with the frame is exactly the one
\* applied to it, even if another publication lands while the frame is being
\* built."
FrameIsOfGeneration ==
    \A r \in Renders : render[r].at = "leased" /\ render[r].generation > 0 =>
        render[r].prefs = history[render[r].generation]

\* So it is, but for an instance the effect's push met before it was marked as the
\* engine's: see README, "Disagreements".
FrameIsAsReported ==
    FrameIsOfGeneration
    \/ \E e \in Engines : Alive(e) /\ inst[e].owned /\ inst[e].effect

\* An edit that has reached every instance stays in force, in the registry and in
\* each instance, until the next one: whatever blocks the host still hands over,
\* and through instances that open, adopt it, and close.
Settled ==
    /\ slot # None /\ slot.fromEffect /\ dispatch.at = "idle"
    /\ \A i \in Clips \cap Range(table) :
          CASE opening[i].at = "made" -> TRUE
            [] opening[i].at = "found" -> opening[i].found = slot.prefs
            [] OTHER -> inst[i].effect /\ inst[i].prefs = slot.prefs

EditStays ==
    [][Settled => slot'.prefs = slot.prefs /\ (Settled' \/ dispatch'.at = "push")]_settingsVars
=============================================================================
