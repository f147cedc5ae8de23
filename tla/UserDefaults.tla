----------------------------- MODULE UserDefaults -----------------------------
(***************************************************************************)
(* The settings new clips start with (plugins/common/UserDefaults.cpp): a  *)
(* file every plug-in module and tool of the user reads and some replace,  *)
(* and the cache each module keeps of it.                                  *)
(*                                                                         *)
(* Each module has its own copy of the code, with a cache and a mutex; the *)
(* modules of a process save from its UI thread, one at a time, and are    *)
(* asked for the defaults from any thread.  The file system is external: a *)
(* file is its inode with what was written to it, and may lose what was    *)
(* not flushed when the power goes.                                        *)
(***************************************************************************)
EXTENDS Absence, Integers, FiniteSetsExt

CONSTANTS
    Modules,
    Process,         \* the process a module is loaded in
    Prefs,
    Size,            \* blocks of the document that holds some settings
    Builtin,         \* PrefsBlob::defaults(): there is no file
    MaxChanges,      \* bound: saves and resets
    MaxMishaps       \* bound: failed calls, crashes, power cuts

Processes == {Process[m] : m \in Modules}
Inodes == 1 .. MaxChanges   \* a file for each save
Siblings == Processes \X (0 .. MaxChanges)

\* A file that was read and is not a whole document, and one that could not be read;
\* both like Builtin for clips.
Refused == "refused"
Unread == "unread"

Stamps == [size : Nat, identity : Inodes]

ASSUME DefaultsAssumption ==
    /\ DOMAIN Process = Modules /\ Size \in [Prefs -> Nat \ {0}]
    /\ {Builtin, Refused, Unread} \cap Prefs = {} /\ Builtin \notin {Refused, Unread}
    /\ None \notin Inodes /\ None \notin Prefs /\ None \notin Stamps
    /\ {MaxChanges, MaxMishaps} \subseteq Nat

VARIABLES
    windows,     \* which of the two implementations is built
    files,       \* each inode: settings, blocks written, flushed
    target,      \* the inode of the defaults file, or None
    temps,       \* the inode of each temporary sibling, or None
    cache,       \* of each module; for the properties: whether its stamp is another state's
    counter,     \* g_tempCounter of each module
    asked,       \* currentUserDefaults() of each module: where, its stamp, size and file
    saving,      \* saveUserDefaults() or resetUserDefaults() of each process
    changes, upsets, cut   \* so far, of the bounds; whether the power was cut

disk == <<files, target, temps>>
bounds == <<changes, upsets, cut>>
defaultsVars == <<windows, disk, cache, counter, asked, saving, bounds>>

Empty == [valid |-> FALSE, stamp |-> None, value |-> Builtin, misstamped |-> FALSE]
NotAsked == [at |-> "idle", stamp |-> None, size |-> 0, file |-> None]
NotSaving ==
    [at |-> "idle", module |-> None, settings |-> None, name |-> None, file |-> None,
     overtaken |-> FALSE]

DefaultsInit ==
    /\ windows \in BOOLEAN
    /\ files = [i \in Inodes |-> [settings |-> None, blocks |-> 0, flushed |-> FALSE]]
    /\ target = None /\ temps = [n \in Siblings |-> None]
    /\ cache = [m \in Modules |-> Empty] /\ counter = [m \in Modules |-> 0]
    /\ asked = [m \in Modules |-> NotAsked] /\ saving = [p \in Processes |-> NotSaving]
    /\ changes = 0 /\ upsets = 0 /\ cut = FALSE

Upset == upsets < MaxMishaps /\ upsets' = upsets + 1 /\ UNCHANGED <<changes, cut>>

Whole(i) == files[i].blocks = Size[files[i].settings]

\* stampOf(): None when there is no file.
StampOf(i) == IF i = None THEN None ELSE [size |-> files[i].blocks, identity |-> i]

\* userDefaultsFromJson() of the blocks read.
Parsed(i, blocks) ==
    IF blocks = Size[files[i].settings] THEN files[i].settings ELSE Refused

Unlocked(m) ==
    /\ asked[m].at \notin {"size", "read"}
    /\ \A p \in Processes : saving[p].module # m
-----------------------------------------------------------------------------
(* currentUserDefaults() *)

Stat(m) ==
    /\ asked[m].at = "idle"
    /\ asked' = [asked EXCEPT ![m].at = "lock", ![m].stamp = StampOf(target)]
    /\ UNCHANGED <<windows, disk, cache, counter, saving, bounds>>

\* stampOf() gets no answer, which reads as no file.
StatFails(m) ==
    /\ asked[m].at = "idle" /\ Upset
    /\ asked' = [asked EXCEPT ![m].at = "lock", ![m].stamp = None]
    /\ UNCHANGED <<windows, disk, cache, counter, saving>>

Cached(stamp, value) ==
    [valid |-> TRUE, stamp |-> stamp, value |-> value, misstamped |-> FALSE]

\* Mutant: with the stamp of after.
LoadThenStat(m, value) ==
    /\ cache' = [cache EXCEPT ![m] = Cached(StampOf(target), value)]
    /\ asked' = [asked EXCEPT ![m] = NotAsked]
    /\ UNCHANGED <<windows, disk, counter, saving>>

\* loadState() ends: what the state meant is remembered with the stamp of before.
Load(m, value) ==
    /\ cache' = [cache EXCEPT ![m] = Cached(asked[m].stamp, value)]
    /\ asked' = [asked EXCEPT ![m] = NotAsked]
    /\ UNCHANGED <<windows, disk, counter, saving>>

\* The cache answers, ...
Hit(m) ==
    /\ asked[m].at = "lock" /\ Unlocked(m)
    /\ cache[m].valid /\ cache[m].stamp = asked[m].stamp
    /\ asked' = [asked EXCEPT ![m] = NotAsked]
    /\ UNCHANGED <<windows, disk, cache, counter, saving, bounds>>

\* ... or the state is new, and there may be no file in it.
Miss(m) ==
    /\ asked[m].at = "lock" /\ Unlocked(m)
    /\ ~cache[m].valid \/ cache[m].stamp # asked[m].stamp
    /\ IF asked[m].stamp = None THEN Load(m, Builtin)
       ELSE /\ asked' = [asked EXCEPT ![m].at = "size"]
            /\ UNCHANGED <<windows, disk, cache, counter, saving>>
    /\ UNCHANGED bounds

\* readWholeFile() takes the size: of the path, and on Windows of the file it opened.
TakeSize(m) ==
    /\ asked[m].at = "size"
    /\ IF target = None THEN Load(m, Builtin)
       ELSE /\ asked' = [asked EXCEPT ![m].at = "read", ![m].size = files[target].blocks,
                                      ![m].file = IF windows THEN target ELSE None]
            /\ UNCHANGED <<windows, disk, cache, counter, saving>>
    /\ UNCHANGED bounds

\* As many blocks are read, of the file opened, or of what has the path by now.
Read(m) ==
    /\ asked[m].at = "read"
    /\ LET file == IF windows THEN asked[m].file ELSE target
       IN  Load(m, IF file = None THEN Builtin
                   ELSE Parsed(file, Min({asked[m].size, files[file].blocks})))
    /\ UNCHANGED bounds

\* It cannot be opened, sized or read: loadState() ignores the file, and the stamp of
\* before says that it was read.
ReadFails(m) ==
    /\ asked[m].at \in {"size", "read"} /\ Upset
    /\ Load(m, Unread)
-----------------------------------------------------------------------------
(* saveUserDefaults(): writeAtomically(), then the cache, under the module's lock. *)

Free(p) ==
    /\ saving[p].at = "idle"
    /\ changes < MaxChanges /\ changes' = changes + 1 /\ UNCHANGED <<upsets, cut>>

At(p, place) == saving[p].at = place
Goes(p, place) == saving' = [saving EXCEPT ![p].at = place]

\* temporarySibling(): the process and a count of its calls.
Name(m) == <<Process[m], counter[m]>>

Save(m, settings) ==
    LET p == Process[m]
    IN  /\ Free(p) /\ Unlocked(m)
        /\ saving' = [saving EXCEPT ![p] =
                        [NotSaving EXCEPT !.at = "create", !.module = m,
                                          !.settings = settings, !.name = Name(m)]]
        /\ counter' = [counter EXCEPT ![m] = @ + 1]
        /\ UNCHANGED <<windows, disk, cache, asked>>

InUse == ({target} \cup {temps[n] : n \in Siblings} \cup {asked[m].file : m \in Modules}
            \cup {saving[p].file : p \in Processes}) \ {None}

\* The file system's choice.  No number comes back within a tick of its clock, and
\* everything here happens within one: no two stamps differ by their time.
NewInode == Min({i \in Inodes \ InUse : files[i].settings = None})

\* A sibling a crash has left is in the way on Windows, and used again elsewhere.
Create(p) ==
    /\ At(p, "create")
    /\ LET name == saving[p].name
           file == IF temps[name] # None THEN temps[name] ELSE NewInode
       IN  /\ temps[name] = None \/ ~windows
           /\ files' = [files EXCEPT ![file] =
                            [settings |-> saving[p].settings, blocks |-> 0, flushed |-> FALSE]]
           /\ temps' = [temps EXCEPT ![name] = file]
           /\ saving' = [saving EXCEPT ![p].at = "write", ![p].file = file]
    /\ UNCHANGED <<windows, target, cache, counter, asked, bounds>>

Taken(p) ==
    /\ At(p, "create") /\ windows /\ temps[saving[p].name] # None
    /\ saving' = [saving EXCEPT ![p] = NotSaving]
    /\ UNCHANGED <<windows, disk, cache, counter, asked, bounds>>

Write(p) ==
    /\ At(p, "write")
    /\ LET file == saving[p].file
       IN  /\ files' = [files EXCEPT ![file].blocks = @ + 1]
           /\ IF files[file].blocks + 1 = Size[saving[p].settings]
              THEN Goes(p, "flush") ELSE UNCHANGED saving
    /\ UNCHANGED <<windows, target, temps, cache, counter, asked, bounds>>

\* Mutant: the rename comes first.
FlushNot(p) ==
    /\ At(p, "flush") /\ Goes(p, "rename")
    /\ UNCHANGED <<windows, disk, cache, counter, asked, bounds>>

\* To the disk on Windows, to the system elsewhere.
Flush(p) ==
    /\ At(p, "flush") /\ Goes(p, "rename")
    /\ files' = [files EXCEPT ![saving[p].file].flushed = windows]
    /\ UNCHANGED <<windows, target, temps, cache, counter, asked, bounds>>

\* The file has changed, and its stamp is next; who was there already is overtaken.
Overtake(p) ==
    [q \in Processes |->
        [saving[q] EXCEPT !.at = IF q = p THEN "stamp" ELSE @,
                          !.overtaken = @ \/ (q # p /\ At(q, "stamp"))]]

Rename(p) ==
    /\ At(p, "rename") /\ temps[saving[p].name] # None
    /\ target' = temps[saving[p].name]
    /\ temps' = [temps EXCEPT ![saving[p].name] = None]
    /\ saving' = Overtake(p)
    /\ UNCHANGED <<windows, files, cache, counter, asked, bounds>>

\* A failed step: the sibling goes, the file is as it was, and so is the cache.
Fails(p) ==
    /\ saving[p].at \in {"create", "write", "flush", "rename", "delete"} /\ Upset
    /\ temps' = IF At(p, "delete") \/ (At(p, "create") /\ windows) THEN temps
                ELSE [temps EXCEPT ![saving[p].name] = None]
    /\ saving' = [saving EXCEPT ![p] = NotSaving]
    /\ UNCHANGED <<windows, files, target, cache, counter, asked>>

\* The cache is what was written, with the stamp of the file there is now, ...
KeepSaved(p, stamp, misstamped) ==
    /\ At(p, "stamp")
    /\ cache' = [cache EXCEPT ![saving[p].module] =
                    [Cached(stamp, saving[p].settings) EXCEPT !.misstamped = misstamped]]
    /\ saving' = [saving EXCEPT ![p] = NotSaving]
    /\ UNCHANGED <<windows, disk, counter, asked>>

Remember(p) == KeepSaved(p, StampOf(target), saving[p].overtaken) /\ UNCHANGED bounds

\* ... or of none, when stampOf() gets no answer.
RememberFails(p) == KeepSaved(p, None, TRUE) /\ Upset

\* resetUserDefaults(), and deleteFile(), for which no file is a success.
ResetDefaults(m) ==
    LET p == Process[m]
    IN  /\ Free(p) /\ Unlocked(m)
        /\ saving' = [saving EXCEPT ![p] =
                        [NotSaving EXCEPT !.at = "delete", !.module = m, !.settings = Builtin]]
        /\ UNCHANGED <<windows, disk, cache, counter, asked>>

Delete(p) ==
    /\ At(p, "delete")
    /\ target' = None /\ saving' = Overtake(p)
    /\ UNCHANGED <<windows, files, temps, cache, counter, asked, bounds>>
-----------------------------------------------------------------------------
\* The modules of these processes start again, under the same process ids.
Restart(gone) ==
    /\ cache' = [m \in Modules |-> IF Process[m] \in gone THEN Empty ELSE cache[m]]
    /\ counter' = [m \in Modules |-> IF Process[m] \in gone THEN 0 ELSE counter[m]]
    /\ asked' = [m \in Modules |-> IF Process[m] \in gone THEN NotAsked ELSE asked[m]]
    /\ saving' = [p \in Processes |-> IF p \in gone THEN NotSaving ELSE saving[p]]

\* A process ends at any point: what it wrote stays.
Crash(p) ==
    /\ Upset /\ Restart({p})
    /\ UNCHANGED <<windows, disk>>

\* Without power nothing that was not flushed need have reached the disk.
PowerCut ==
    /\ upsets < MaxMishaps /\ upsets' = upsets + 1 /\ cut' = TRUE /\ UNCHANGED changes
    /\ Restart(Processes)
    /\ \E lost \in SUBSET {i \in InUse : ~files[i].flushed} :
          files' = [i \in Inodes |->
                       IF i \in lost THEN [files[i] EXCEPT !.blocks = 0] ELSE files[i]]
    /\ UNCHANGED <<windows, target, temps>>

DefaultsNext ==
    \/ \E m \in Modules : Stat(m) \/ Hit(m) \/ Miss(m) \/ TakeSize(m) \/ Read(m) \/ ResetDefaults(m)
                        \/ StatFails(m) \/ ReadFails(m)
    \/ \E m \in Modules, s \in Prefs : Save(m, s)
    \/ \E p \in Processes :
          Create(p) \/ Taken(p) \/ Write(p) \/ Flush(p) \/ Rename(p) \/ Fails(p) \/ Remember(p)
            \/ RememberFails(p) \/ Delete(p) \/ Crash(p)
    \/ PowerCut

DefaultsSpec == DefaultsInit /\ [][DefaultsNext]_defaultsVars
-----------------------------------------------------------------------------
\* UserDefaults.h: "a crash or a second Premiere writing at the same moment can
\* never leave a half-written file for the next read".  The file is a whole
\* document at every moment (without power, on Windows only), and on Windows, where
\* a reader keeps the file it opened, so is what is read.
NeverTorn ==
    /\ target # None => Whole(target) \/ (cut /\ ~windows)
    /\ windows => \A m \in Modules : cache[m].value # Refused

\* A module's cache that the file's stamp confirms never holds the settings of another
\* state of the file: it says what the file says, or that the file could not be read
\* when it was asked for, whoever saved or removed it in between and wherever a read met
\* that; but for a save whose stamp is not that of its own file, because another
\* process's came between or stampOf() got no answer (README, "Disagreements").
CacheFollowsFile ==
    \A m \in Modules :
        cache[m].valid /\ ~cache[m].misstamped /\ cache[m].stamp = StampOf(target)
            => cache[m].value \in {IF target = None THEN Builtin
                                   ELSE Parsed(target, files[target].blocks), Unread}
===============================================================================
