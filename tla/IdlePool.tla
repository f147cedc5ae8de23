------------------------------- MODULE IdlePool -------------------------------
(***************************************************************************)
(* osv::video::detail::IdlePool: parked readers and GPU decoders waiting   *)
(* for the next clip, and the reaper thread that releases them in time.    *)
(*                                                                         *)
(* Everything the lock protects changes in one step per call.  What the    *)
(* calls do without the lock are steps of their own: destroying the        *)
(* released items, waiting for the reaper, and a reaper's exit.  Time is   *)
(* abstract: an entry becomes due, the oldest one first.                   *)
(***************************************************************************)
EXTENDS Integers, Sequences, FiniteSets

CONSTANTS Items,        \* the objects that may be parked
          Keys,         \* the keys they are parked under
          KeyOf,        \* the key of each item, or NoKey when it has none
          NoKey,
          Users,        \* threads that use the pool
          Reapers,      \* reaper threads, one per start
          NoReaper,
          Limits,       \* values of maxIdle that setLimits may give
          MaxIdleCalls, \* bound: calls of park and take
          MaxFailures,  \* bound: threads that cannot start, reapers that throw
          MaxTimeouts,  \* bound: waits of clear() that give up
          MaxSettings   \* bound: calls of setLimits

PoolAssumption ==
    /\ KeyOf \in [Items -> Keys \cup {NoKey}] /\ NoKey \notin Keys
    /\ NoReaper \notin Reapers /\ Users \cap Reapers = {}
    /\ {"hand", "pool", "freed"} \cap (Users \cup Reapers) = {}   \* the owners of OneOwner
    /\ Limits \subseteq Nat /\ IsFiniteSet(Items)
    /\ MaxIdleCalls \in Nat /\ MaxFailures \in Nat /\ MaxTimeouts \in Nat /\ MaxSettings \in Nat

VARIABLES
    entries,        \* parked items with whether their time has run out, oldest first
    maxIdle,        \* limits.maxIdle
    stats,          \* IdlePoolStats
    reaperRunning,  \* the flag of that name
    reaperThread,   \* the handle of the last reaper started
    stopping,       \* the pool object is gone
    reaper,         \* where each reaper thread is
    hand,           \* items the users own
    dead,           \* items a thread has taken out and still has to destroy
    freed,          \* destroyed items
    sick,           \* items that ask to go: context dead, reader closed
    user,           \* where each user is
    waitFor,        \* the reaper a clear() waits for
    failures, timeouts, settings   \* bounded by the constants Max...

lists == <<entries, maxIdle, stats>>
reaping == <<reaperRunning, reaperThread, reaper>>
items == <<hand, dead, freed>>
bounds == <<failures, timeouts, settings>>
idleVars == <<lists, reaping, stopping, items, sick, user, waitFor, bounds>>

NoStats == [parked |-> 0, rejected |-> 0, hits |-> 0, misses |-> 0, expired |-> 0,
            evictedForRoom |-> 0, releasedForMemory |-> 0, releasedByItem |-> 0, cleared |-> 0]

IdleInit ==
    /\ entries = <<>> /\ maxIdle \in Limits /\ stats = NoStats
    /\ reaperRunning = FALSE /\ reaperThread = NoReaper /\ stopping = FALSE
    /\ reaper = [r \in Reapers |-> "unborn"]
    /\ hand = Items /\ dead = [t \in Users \cup Reapers |-> {}] /\ freed = {}
    /\ sick = {}
    /\ user = [u \in Users |-> "idle"] /\ waitFor = [u \in Users |-> NoReaper]
    /\ failures = 0 /\ timeouts = 0 /\ settings = 0

-----------------------------------------------------------------------------
(* What the lock's holder does with the entries. *)

Parked(es) == {es[i].item : i \in DOMAIN es}
\* Mutant: the entries are moved from but never erased.
KeepAll(es, gone) == es

\* The entries that stay when the items of gone go, in their order.
Without(es, gone) ==
    LET stay == {i \in DOMAIN es : es[i].item \notin gone}
        nth(n) == CHOOSE i \in stay : Cardinality({j \in stay : j <= i}) = n
    IN  [n \in 1 .. Cardinality(stay) |-> es[nth(n)]]

Expired(es) == {es[i].item : i \in {j \in DOMAIN es : es[j].due}}

\* The n oldest items, and the oldest beyond the limit.
Oldest(es, n) == {es[i].item : i \in 1 .. n}
OverCapacity(es, limit) == Oldest(es, Len(es) - limit)

\* mustRelease: the sick items, or every one while the device is short of memory.
Verdicts == {sick, Items}

\* Mutant: the reaper forgets the clock.
DueWithoutClock(pressure, verdict) ==
    [expired |-> {},
     releasedForMemory |-> IF pressure THEN Parked(entries) ELSE {},
     releasedByItem |-> IF pressure THEN {} ELSE Parked(entries) \cap verdict]

\* collectDue: who is released, by reason, under the memory pressure and the
\* verdict found: expired, then all under pressure, then those that ask.
Due(pressure, verdict) ==
    LET live == Without(entries, Expired(entries)) IN
    [expired |-> Expired(entries),
     releasedForMemory |-> IF pressure THEN Parked(live) ELSE {},
     releasedByItem |-> IF pressure THEN {} ELSE Parked(live) \cap verdict]

AllDue(d) == d.expired \cup d.releasedForMemory \cup d.releasedByItem

CountDue(st, d) ==
    [st EXCEPT !.expired = @ + Cardinality(d.expired),
               !.releasedForMemory = @ + Cardinality(d.releasedForMemory),
               !.releasedByItem = @ + Cardinality(d.releasedByItem)]

\* cv.notify_all.
Woken(rs) == [r \in Reapers |-> IF rs[r] = "asleep" THEN "loop" ELSE rs[r]]

MayCall(u) == user[u] = "idle" /\ ~stopping
Calls == stats.parked + stats.rejected + stats.hits + stats.misses

\* The calls end by destroying what they took out, without the lock.
Release(u, gone) ==
    /\ dead' = [dead EXCEPT ![u] = gone]
    /\ user' = [user EXCEPT ![u] = IF gone = {} THEN "idle" ELSE "destroying"]

-----------------------------------------------------------------------------
(* The calls. *)

Newest(live, good) == {live[i].item : i \in {j \in good : \A k \in good : k <= j}}

\* The newest live match that may stay is handed out; newer ones that ask to be
\* released are released on the way.
Take(u, key) ==
    /\ MayCall(u) /\ Calls < MaxIdleCalls
    /\ \E verdict \in Verdicts :
         LET expired == Expired(entries)
             live == Without(entries, expired)
             match == {i \in DOMAIN live : KeyOf[live[i].item] = key}
             good == {i \in match : live[i].item \notin verdict}
             found == Newest(live, good)
             refused == {live[i].item : i \in {j \in match : \A k \in good : k < j}}
         IN /\ entries' = Without(live, found \cup refused)
            /\ hand' = hand \cup found
            /\ Release(u, expired \cup refused)
            /\ stats' = [stats EXCEPT !.expired = @ + Cardinality(expired),
                                      !.releasedByItem = @ + Cardinality(refused),
                                      !.hits = @ + Cardinality(found),
                                      !.misses = @ + 1 - Cardinality(found)]
    /\ UNCHANGED <<maxIdle, reaping, stopping, freed, sick, waitFor, bounds>>

\* Mutant: the reaper is started for the first item only.
StartFirstReaper ==
    IF reaperThread = NoReaper
    THEN \E r \in Reapers :
           /\ reaperRunning' = TRUE /\ reaperThread' = r
           /\ reaper' = [reaper EXCEPT ![r] = "loop"]
           /\ UNCHANGED failures
    ELSE UNCHANGED <<reaping, failures>>

\* startReaperLocked; the thread, or its module reference, may not be had.
StartReaper ==
    \/ \E r \in Reapers :
         /\ reaper[r] = "unborn"
         /\ reaperRunning' = TRUE /\ reaperThread' = r
         /\ reaper' = [reaper EXCEPT ![r] = "loop"]
         /\ UNCHANGED failures
    \/ /\ failures < MaxFailures
       /\ failures' = failures + 1
       /\ UNCHANGED reaping

\* Refused: no key, or parking is disabled.
ParkRefused(u, i) ==
    /\ KeyOf[i] = NoKey \/ maxIdle = 0
    /\ entries' = Without(entries, Expired(entries))
    /\ stats' = [stats EXCEPT !.expired = @ + Cardinality(Expired(entries)), !.rejected = @ + 1]
    /\ Release(u, Expired(entries) \cup {i})
    /\ UNCHANGED <<reaping, failures>>

\* Refused: the system is short of memory and everything goes, or the item asks
\* to go and so may others.
ParkUnderPressure(u, i) ==
    /\ KeyOf[i] # NoKey /\ maxIdle > 0
    /\ \E pressure \in BOOLEAN, verdict \in Verdicts :
         /\ pressure \/ i \in verdict
         /\ LET due == Due(pressure, verdict)
            IN /\ entries' = Without(entries, AllDue(due))
               /\ stats' = [CountDue(stats, due) EXCEPT !.rejected = @ + 1]
               /\ Release(u, AllDue(due) \cup {i})
    /\ UNCHANGED <<reaping, failures>>

CountKept(expired, over) ==
    [stats EXCEPT !.expired = @ + Cardinality(expired), !.parked = @ + 1,
                  !.evictedForRoom = @ + Cardinality(over)]

\* Kept: the oldest make room, and a reaper watches the pool.
ParkKept(u, i) ==
    /\ KeyOf[i] # NoKey /\ maxIdle > 0 /\ i \notin sick
    /\ LET expired == Expired(entries)
           kept == Append(Without(entries, expired), [item |-> i, due |-> FALSE])
           over == OverCapacity(kept, maxIdle)
       IN /\ entries' = Without(kept, over)
          /\ stats' = CountKept(expired, over)
          /\ Release(u, expired \cup over)
    /\ IF reaperRunning THEN reaper' = Woken(reaper) /\ UNCHANGED <<reaperRunning, reaperThread, failures>>
                        ELSE StartReaper

Park(u, i) ==
    /\ MayCall(u) /\ Calls < MaxIdleCalls /\ i \in hand
    /\ hand' = hand \ {i}
    /\ ParkRefused(u, i) \/ ParkUnderPressure(u, i) \/ ParkKept(u, i)
    /\ UNCHANGED <<maxIdle, stopping, freed, sick, waitFor, timeouts, settings>>

\* trim(): what the reaper would do now.
Trim(u) ==
    /\ MayCall(u) /\ entries # <<>>
    /\ \E pressure \in BOOLEAN, verdict \in Verdicts :
         LET due == Due(pressure, verdict)
         IN /\ entries' = Without(entries, AllDue(due))
            /\ stats' = CountDue(stats, due)
            /\ Release(u, AllDue(due))
    /\ UNCHANGED <<maxIdle, reaping, stopping, hand, freed, sick, waitFor, bounds>>

\* setLimits(): a new time to live may make any of the oldest entries due, and
\* leaves none due.
SetLimits(u, limit) ==
    /\ MayCall(u) /\ settings < MaxSettings
    /\ settings' = settings + 1
    /\ \E n \in 0 .. Len(entries) :
         LET expired == Oldest(entries, n)
             live == [i \in 1 .. Len(entries) - n |-> [entries[n + i] EXCEPT !.due = FALSE]]
             over == OverCapacity(live, limit)
         IN /\ entries' = Without(live, over)
            /\ maxIdle' = limit
            /\ stats' = [stats EXCEPT !.expired = @ + n,
                                      !.evictedForRoom = @ + Cardinality(over)]
            /\ Release(u, expired \cup over)
    /\ reaper' = Woken(reaper)
    /\ UNCHANGED <<reaperRunning, reaperThread, stopping, hand, freed, sick, waitFor,
                   failures, timeouts>>

\* clear(): release everything, then wait for the reaper that runs.
Clear(u) ==
    /\ MayCall(u)
    /\ dead' = [dead EXCEPT ![u] = Parked(entries)]
    /\ stats' = [stats EXCEPT !.cleared = @ + Len(entries)]
    /\ entries' = <<>>
    /\ waitFor' = [waitFor EXCEPT ![u] = IF reaperRunning THEN reaperThread ELSE NoReaper]
    /\ user' = [user EXCEPT ![u] = "clearing"]
    /\ reaper' = Woken(reaper)
    /\ UNCHANGED <<maxIdle, reaperRunning, reaperThread, stopping, hand, freed, sick, bounds>>

\* The end of clear(): the reaper is gone, or two seconds have passed.
ClearReturn(u) ==
    /\ user[u] = "waiting"
    /\ \/ (waitFor[u] \in Reapers => reaper[waitFor[u]] = "gone") /\ UNCHANGED timeouts
       \/ timeouts < MaxTimeouts /\ timeouts' = timeouts + 1
    /\ user' = [user EXCEPT ![u] = "idle"]
    /\ waitFor' = [waitFor EXCEPT ![u] = NoReaper]
    /\ UNCHANGED <<lists, reaping, stopping, items, sick, failures, settings>>

\* The items taken out are destroyed, without the lock.
DestroyItem(u) ==
    /\ user[u] \in {"destroying", "clearing"}
    /\ freed' = freed \cup dead[u]
    /\ dead' = [dead EXCEPT ![u] = {}]
    /\ user' = [user EXCEPT ![u] = IF @ = "clearing" THEN "waiting" ELSE "idle"]
    /\ UNCHANGED <<lists, reaping, stopping, hand, sick, waitFor, bounds>>

\* ~IdlePool, when no other call is in progress.
DestroyPool(u) ==
    /\ ~stopping /\ \A v \in Users : user[v] = "idle"
    /\ stopping' = TRUE
    /\ entries' = <<>>
    /\ stats' = [stats EXCEPT !.cleared = @ + Len(entries)]
    /\ reaper' = Woken(reaper)
    /\ Release(u, Parked(entries))
    /\ UNCHANGED <<maxIdle, reaperRunning, reaperThread, hand, freed, sick, waitFor, bounds>>

-----------------------------------------------------------------------------
(* The reaper. *)

MustExit == stopping \/ entries = <<>>

\* One pass under the lock: exit, take out what is due, or sleep.
ReaperLook(r) ==
    /\ reaper[r] = "loop"
    /\ IF MustExit
       THEN /\ reaperRunning' = FALSE
            /\ reaper' = [reaper EXCEPT ![r] = "exiting"]
            /\ UNCHANGED <<lists, dead>>
       ELSE /\ \E pressure \in BOOLEAN, verdict \in Verdicts :
                 LET due == Due(pressure, verdict)
                 IN /\ entries' = Without(entries, AllDue(due))
                    /\ stats' = CountDue(stats, due)
                    /\ dead' = [dead EXCEPT ![r] = AllDue(due)]
                    /\ reaper' = [reaper EXCEPT ![r] = IF AllDue(due) = {} THEN "asleep" ELSE "destroying"]
            /\ UNCHANGED <<reaperRunning, maxIdle>>
    /\ UNCHANGED <<reaperThread, stopping, hand, freed, sick, user, waitFor, bounds>>

ReaperDestroy(r) ==
    /\ reaper[r] = "destroying"
    /\ freed' = freed \cup dead[r]
    /\ dead' = [dead EXCEPT ![r] = {}]
    /\ reaper' = [reaper EXCEPT ![r] = "loop"]
    /\ UNCHANGED <<lists, reaperRunning, reaperThread, stopping, hand, sick, user, waitFor, bounds>>

\* The wait ends at the next expiry, or after the second of the pressure poll.
ReaperWake(r) ==
    /\ reaper[r] = "asleep"
    /\ reaper' = [reaper EXCEPT ![r] = "loop"]
    /\ UNCHANGED <<lists, reaperRunning, reaperThread, stopping, items, sick, user, waitFor, bounds>>

\* An allocation or the mutex failed: the reaper gives up.
ReaperThrow(r) ==
    /\ reaper[r] = "loop" /\ failures < MaxFailures
    /\ failures' = failures + 1
    /\ reaperRunning' = FALSE
    /\ reaper' = [reaper EXCEPT ![r] = "exiting"]
    /\ UNCHANGED <<lists, reaperThread, stopping, items, sick, user, waitFor, timeouts, settings>>

\* The thread is gone, and its reference on the module with it.
ReaperExit(r) ==
    /\ reaper[r] = "exiting"
    /\ reaper' = [reaper EXCEPT ![r] = "gone"]
    /\ UNCHANGED <<lists, reaperRunning, reaperThread, stopping, items, sick, user, waitFor, bounds>>

-----------------------------------------------------------------------------
(* The world: time passes, contexts die. *)

\* The oldest entry whose time has not run out runs out.
TimePasses ==
    /\ \E i \in DOMAIN entries :
         /\ ~entries[i].due /\ \A j \in 1 .. i - 1 : entries[j].due
         /\ entries' = [entries EXCEPT ![i].due = TRUE]
    /\ UNCHANGED <<maxIdle, stats, reaping, stopping, items, sick, user, waitFor, bounds>>

Sicken(i) ==
    /\ i \notin sick \cup freed
    /\ sick' = sick \cup {i}
    /\ UNCHANGED <<lists, reaping, stopping, items, user, waitFor, bounds>>

\* The pool is gone and nobody has anything left to do.
Finished ==
    /\ stopping /\ \A u \in Users : user[u] = "idle"
    /\ \A r \in Reapers : reaper[r] \in {"unborn", "gone"}
    /\ UNCHANGED idleVars

UserStep(u) == DestroyItem(u) \/ ClearReturn(u)
ReaperStep(r) == ReaperLook(r) \/ ReaperDestroy(r) \/ ReaperWake(r) \/ ReaperExit(r)

IdleNext ==
    \/ \E u \in Users :
         \/ \E key \in Keys : Take(u, key)
         \/ \E i \in Items : Park(u, i)
         \/ \E limit \in Limits : SetLimits(u, limit)
         \/ Trim(u) \/ Clear(u) \/ DestroyPool(u) \/ UserStep(u)
    \/ \E r \in Reapers : ReaperStep(r) \/ ReaperThrow(r)
    \/ \E i \in Items : Sicken(i)
    \/ TimePasses \/ Finished

IdleSpec == IdleInit /\ [][IdleNext]_idleVars

\* Threads run and time passes.
IdleFairSpec ==
    /\ IdleSpec /\ WF_idleVars(TimePasses)
    /\ \A u \in Users : WF_idleVars(UserStep(u))
    /\ \A r \in Reapers : WF_idleVars(ReaperStep(r))

-----------------------------------------------------------------------------
(* Properties. *)

Counters == DOMAIN NoStats

\* Every variable keeps its type.
IdleTypeOK ==
    /\ entries \in Seq([item: Items, due: BOOLEAN])
    /\ maxIdle \in Limits
    /\ stats \in [Counters -> Nat]
    /\ reaperRunning \in BOOLEAN /\ stopping \in BOOLEAN
    /\ reaperThread \in Reapers \cup {NoReaper}
    /\ reaper \in [Reapers -> {"unborn", "loop", "asleep", "destroying", "exiting", "gone"}]
    /\ hand \subseteq Items /\ freed \subseteq Items /\ sick \subseteq Items
    /\ dead \in [Users \cup Reapers -> SUBSET Items]
    /\ user \in [Users -> {"idle", "destroying", "clearing", "waiting"}]
    /\ waitFor \in [Users -> Reapers \cup {NoReaper}]
    /\ failures \in Nat /\ timeouts \in Nat /\ settings \in Nat

\* Whatever the calls and the reaper do to each other, an item has one owner: a
\* user, the pool once, one thread that destroys it, or nobody any more.
OneOwner ==
    /\ Len(entries) = Cardinality(Parked(entries))
    /\ \A i \in Items :
         Cardinality({o \in {"hand", "pool", "freed"} \cup Users \cup Reapers :
             \/ o = "hand" /\ i \in hand
             \/ o = "pool" /\ i \in Parked(entries)
             \/ o = "freed" /\ i \in freed
             \/ o \in Users \cup Reapers /\ i \in dead[o]}) = 1

\* Parked items are watched: whoever parks while the last reaper is on its way
\* out starts a new one, and there are never two.
InLoop(r) == reaper[r] \in {"loop", "asleep", "destroying"}
ReaperWatches ==
    /\ entries # <<>> => reaperRunning \/ failures > 0
    /\ reaperRunning <=> \E r \in Reapers : InLoop(r)
    /\ \A r, q \in Reapers : InLoop(r) /\ InLoop(q) => r = q

\* An item is not kept for ever: parked, it is handed out or released in the
\* end, unless no reaper could be had.
NothingKeptForever ==
    \A i \in Items : i \in Parked(entries) ~> i \notin Parked(entries) \/ failures > 0

=============================================================================
