---------------------------- MODULE GpuSlotRelease ----------------------------
(***************************************************************************)
(* The GPU side of osv::video::GpuClipDecoder's cache: how the overwrite   *)
(* and the release of a slot's memory are ordered behind the kernels that  *)
(* still read it, by events recorded when a lease is released.             *)
(*                                                                         *)
(* GpuFrameCache decides which slot is reused; here any free one is.  A    *)
(* CUDA stream is the sequence of its pending operations, done in order.   *)
(* An event stands for the operations that were pending on its stream when *)
(* it was last recorded; a wait captures them when it is enqueued.  The    *)
(* driver is external: it completes any operation whose turn has come.     *)
(***************************************************************************)
EXTENDS Integers, Sequences, FiniteSets

CONSTANTS Slots,      \* cache slots
          Memory,     \* VRAM allocations; one more than slots lets a trim overlap a refill
          Consumers,  \* threads that lease frames, each with a stream of its own
          Streams,    \* the decoder's copy streams
          StreamOf,   \* the copy stream of each lens
          Events,     \* release events that can exist at a time
          NoMemory, NoSlot, NoEvent,
          MaxPending, \* bound: operations pending at a time
          MaxFills,   \* bound: frame pairs decoded
          MaxFailures,\* bound: calls on release events that fail
          MaxBadDecodes,  \* bound: lenses whose picture fails to arrive
          MaxTrims    \* bound: calls of trimForIdle

Lenses == {0, 1}

ASSUME StreamAssumption ==
    /\ StreamOf \in [Lenses -> Streams] /\ Consumers \cap Streams = {}
    /\ NoMemory \notin Memory /\ NoSlot \notin Slots /\ NoEvent \notin Events
    /\ {MaxPending, MaxFills, MaxFailures, MaxBadDecodes, MaxTrims} \subseteq Nat

\* A process has finitely many threads; pins counts them.
ASSUME ConsumersAssumption == IsFiniteSet(Consumers)

VARIABLES
    ops,        \* the pending operations of each stream
    covers,     \* the pending operations each release event stands for
    created,    \* release events that exist
    eventPool,
    base,       \* the memory of each slot
    pins, writing, published, readyConfirmed,
    ready,      \* for each slot and lens, what its ready event stands for
    releases,   \* the consumer events of each slot
    engine,     \* what the owner of the engine does, to which slot
    waits,      \* the events handed to the owner with the slot
    lens,       \* what has become of each lens's decode
    pc, lease, event,   \* where each consumer is, what it leases, the event in its hand
    dying,      \* memory on its way back to the driver, with the events it waits for
    closed,     \* the decoder is gone, only leases keep the store
    fills, failures, badDecodes, trims      \* bounded by the constants Max...

gpu == <<ops, covers>>
events == <<created, eventPool>>
slots == <<base, pins, writing, published, readyConfirmed, ready, releases>>
owner == <<engine, waits, lens>>
consumer == <<pc, lease, event>>
bounds == <<fills, failures, badDecodes, trims>>
vars == <<gpu, events, slots, owner, consumer, dying, closed, bounds>>

NoOwner == [phase |-> "free", slot |-> NoSlot]
NoReady == [l \in Lenses |-> {}]
Todo == [l \in Lenses |-> "todo"]

\* Every slot starts with memory: GpuFrameCache grows the cache.
Init ==
    /\ ops = [q \in Consumers \cup Streams |-> <<>>]
    /\ covers = [e \in Events |-> {}] /\ created = {} /\ eventPool = {}
    /\ base \in [Slots -> Memory] /\ \A s, t \in Slots : base[s] = base[t] => s = t
    /\ pins = [s \in Slots |-> 0]
    /\ writing = [s \in Slots |-> FALSE] /\ published = [s \in Slots |-> FALSE]
    /\ readyConfirmed = [s \in Slots |-> FALSE]
    /\ ready = [s \in Slots |-> NoReady] /\ releases = [s \in Slots |-> {}]
    /\ engine = NoOwner /\ waits = {} /\ lens = Todo
    /\ pc = [c \in Consumers |-> "idle"] /\ lease = [c \in Consumers |-> NoSlot]
    /\ event = [c \in Consumers |-> NoEvent]
    /\ dying = {} /\ closed = FALSE
    /\ fills = 0 /\ failures = 0 /\ badDecodes = 0 /\ trims = 0

-----------------------------------------------------------------------------
(* The driver. *)

OpsOf(q) == {ops[q][i] : i \in DOMAIN ops[q]}
AllOps == UNION {OpsOf(q) : q \in Consumers \cup Streams}
PendingOn(q) == {o.id : o \in OpsOf(q)}
PendingIds == {o.id : o \in AllOps}
Ids == 1 .. MaxPending
FreeIds == Ids \ PendingIds

Op(id, kind, m, need) == [id |-> id, kind |-> kind, memory |-> m, need |-> need]
FreeId == CHOOSE i \in FreeIds : TRUE
Passed(e) == covers[e] = {}
Fail == failures < MaxFailures /\ failures' = failures + 1

\* The first operation of a stream is done, when it waits for nothing.
Complete(q) ==
    /\ ops[q] # <<>> /\ Head(ops[q]).need = {}
    /\ LET id == Head(ops[q]).id
           forget(seq) == [i \in DOMAIN seq |-> [seq[i] EXCEPT !.need = @ \ {id}]]
       IN  /\ ops' = [r \in DOMAIN ops |-> IF r = q THEN forget(Tail(ops[r])) ELSE forget(ops[r])]
           /\ covers' = [e \in Events |-> covers[e] \ {id}]
           /\ ready' = [s \in Slots |-> [l \in Lenses |-> ready[s][l] \ {id}]]
           /\ dying' = {[d EXCEPT !.until = @ \ {id}] : d \in dying}
    /\ UNCHANGED <<events, base, pins, writing, published, readyConfirmed, releases, owner,
                   consumer, closed, bounds>>

-----------------------------------------------------------------------------
(* A consumer's lease. *)

\* acquire() of a cached frame.
Pin(c, s) ==
    /\ pc[c] = "idle" /\ ~closed /\ published[s]
    /\ pins' = [pins EXCEPT ![s] = @ + 1]
    /\ lease' = [lease EXCEPT ![c] = s] /\ pc' = [pc EXCEPT ![c] = "pinned"]
    /\ UNCHANGED <<gpu, events, base, writing, published, readyConfirmed, ready, releases, owner,
                   event, dying, closed, bounds>>

\* Mutant: the copies are taken to be complete.
ConfirmUnseen(c) ==
    /\ pc[c] = "pinned"
    /\ readyConfirmed' = [readyConfirmed EXCEPT ![lease[c]] = TRUE]
    /\ pc' = [pc EXCEPT ![c] = "leased"]
    /\ UNCHANGED <<gpu, events, base, pins, writing, published, ready, releases, owner, lease,
                   event, dying, closed, bounds>>

\* makeLease: the first lease of a fill waits until both copies are complete.
Confirm(c) ==
    /\ pc[c] = "pinned"
    /\ readyConfirmed[lease[c]] \/ ready[lease[c]] = NoReady
    /\ readyConfirmed' = [readyConfirmed EXCEPT ![lease[c]] = TRUE]
    /\ pc' = [pc EXCEPT ![c] = "leased"]
    /\ UNCHANGED <<gpu, events, base, pins, writing, published, ready, releases, owner, lease,
                   event, dying, closed, bounds>>

\* The consumer enqueues a kernel that reads the frame.
Launch(c) ==
    /\ pc[c] = "leased" /\ FreeIds # {}
    /\ ops' = [ops EXCEPT ![c] = Append(@, Op(FreeId, "read", base[lease[c]], {}))]
    /\ pc' = [pc EXCEPT ![c] = "reading"]
    /\ UNCHANGED <<covers, events, slots, owner, lease, event, dying, closed, bounds>>

\* releaseAfter: an event from the pool, or a new one; without one the whole
\* context is waited for.
TakeEvent(c) ==
    /\ pc[c] = "reading"
    /\ \/ \E e \in IF eventPool # {} THEN eventPool ELSE Events \ created :
            /\ eventPool' = eventPool \ {e} /\ created' = created \cup {e}
            /\ event' = [event EXCEPT ![c] = e] /\ pc' = [pc EXCEPT ![c] = "record"]
            /\ UNCHANGED failures
       \/ /\ eventPool = {} /\ Fail /\ pc' = [pc EXCEPT ![c] = "synchronize"]
          /\ UNCHANGED <<events, event>>
    /\ UNCHANGED <<gpu, slots, owner, lease, dying, closed, fills, badDecodes, trims>>

\* cuEventRecord on the consumer's stream.
Record(c) ==
    /\ pc[c] = "record"
    /\ \/ /\ covers' = [covers EXCEPT ![event[c]] = PendingOn(c)]
          /\ pc' = [pc EXCEPT ![c] = "push"] /\ UNCHANGED failures
       \/ /\ Fail /\ pc' = [pc EXCEPT ![c] = "synchronize"] /\ UNCHANGED covers
    /\ UNCHANGED <<ops, events, slots, owner, lease, event, dying, closed, fills, badDecodes, trims>>

\* cuCtxSynchronize; an event taken in vain goes back to the pool.
Synchronize(c) ==
    /\ pc[c] = "synchronize" /\ PendingIds = {}
    /\ eventPool' = eventPool \cup ({event[c]} \ {NoEvent})
    /\ event' = [event EXCEPT ![c] = NoEvent] /\ pc' = [pc EXCEPT ![c] = "unpin"]
    /\ UNCHANGED <<gpu, created, slots, owner, lease, dying, closed, bounds>>

\* Mutant: the events that passed are put in the pool and left in the list.
PushTwice(c) ==
    /\ pc[c] = "push"
    /\ eventPool' = eventPool \cup {e \in releases[lease[c]] : Passed(e)}
    /\ releases' = [releases EXCEPT ![lease[c]] = @ \cup {event[c]}]
    /\ event' = [event EXCEPT ![c] = NoEvent] /\ pc' = [pc EXCEPT ![c] = "unpin"]
    /\ UNCHANGED <<gpu, created, base, pins, writing, published, readyConfirmed, ready, owner,
                   lease, dying, closed, bounds>>

\* recordRelease under the lock: earlier events that have passed go to the pool.
Push(c) ==
    /\ pc[c] = "push"
    /\ LET passed == {e \in releases[lease[c]] : Passed(e)} IN
       /\ eventPool' = eventPool \cup passed
       /\ releases' = [releases EXCEPT ![lease[c]] = (@ \ passed) \cup {event[c]}]
    /\ event' = [event EXCEPT ![c] = NoEvent] /\ pc' = [pc EXCEPT ![c] = "unpin"]
    /\ UNCHANGED <<gpu, created, base, pins, writing, published, readyConfirmed, ready, owner,
                   lease, dying, closed, bounds>>

\* release() without a stream is for a consumer none of whose reads is pending.
Release(c) ==
    /\ \/ pc[c] = "leased"
       \/ pc[c] = "reading" /\ \A o \in OpsOf(c) : o.memory # base[lease[c]]
    /\ pc' = [pc EXCEPT ![c] = "unpin"]
    /\ UNCHANGED <<gpu, events, slots, owner, lease, event, dying, closed, bounds>>

\* Only now may the slot be reused.
Unpin(c) ==
    /\ pc[c] = "unpin"
    /\ pins' = [pins EXCEPT ![lease[c]] = @ - 1]
    /\ lease' = [lease EXCEPT ![c] = NoSlot] /\ pc' = [pc EXCEPT ![c] = "idle"]
    /\ UNCHANGED <<gpu, events, base, writing, published, readyConfirmed, ready, releases, owner,
                   event, dying, closed, bounds>>

-----------------------------------------------------------------------------
(* The owner of the engine refills a slot. *)

\* reserveSlotLocked, or the grow path with fresh memory.
Reserve(s) ==
    /\ engine = NoOwner /\ ~closed /\ fills < MaxFills /\ fills' = fills + 1
    /\ pins[s] = 0 /\ ~writing[s]
    /\ IF base[s] # NoMemory THEN UNCHANGED base
       ELSE \E m \in Memory \ ({base[t] : t \in Slots} \cup {d.memory : d \in dying}) :
                base' = [base EXCEPT ![s] = m]
    /\ writing' = [writing EXCEPT ![s] = TRUE] /\ published' = [published EXCEPT ![s] = FALSE]
    /\ readyConfirmed' = [readyConfirmed EXCEPT ![s] = FALSE]
    /\ waits' = releases[s] /\ releases' = [releases EXCEPT ![s] = {}]
    /\ engine' = [phase |-> IF releases[s] = {} THEN "copy" ELSE "order", slot |-> s]
    /\ lens' = Todo
    /\ UNCHANGED <<gpu, events, pins, ready, consumer, dying, closed, failures, badDecodes, trims>>

\* Mutant: only the first stream waits.
WaitingStreams1 == {StreamOf[0]}
WaitingStreams == {StreamOf[l] : l \in Lenses}

\* The copy streams wait for the readers; failing that, the host does.
Order ==
    /\ engine.phase = "order"
    /\ \/ /\ FreeIds # {}
          /\ LET need == UNION {covers[e] : e \in waits} IN
             ops' = [q \in DOMAIN ops |->
                        IF q \in WaitingStreams THEN Append(ops[q], Op(FreeId, "wait", NoMemory, need))
                        ELSE ops[q]]
          /\ UNCHANGED failures
       \/ /\ Fail /\ UNCHANGED ops
          /\ \A e \in waits : Passed(e)
    /\ engine' = [engine EXCEPT !.phase = "recycle"]
    /\ UNCHANGED <<covers, events, slots, waits, lens, consumer, dying, closed, fills, badDecodes,
                   trims>>

\* The waits captured the events, which can be reused.
Recycle ==
    /\ engine.phase = "recycle"
    /\ eventPool' = eventPool \cup waits /\ waits' = {}
    /\ engine' = [engine EXCEPT !.phase = "copy"]
    /\ UNCHANGED <<gpu, created, slots, lens, consumer, dying, closed, bounds>>

BadDecode(l) ==
    /\ badDecodes < MaxBadDecodes /\ badDecodes' = badDecodes + 1
    /\ lens' = [lens EXCEPT ![l] = "failed"]

\* decodeLens: lens l's copies behind what its stream holds, then its ready event.
\* The lens may deliver nothing, and the driver may refuse after a copy went out.
CopyLens(l) ==
    /\ engine.phase = "copy" /\ lens[l] = "todo"
    /\ \/ /\ FreeIds # {}
          /\ ops' = [ops EXCEPT ![StreamOf[l]] = Append(@, Op(FreeId, "copy", base[engine.slot], {}))]
          /\ \/ /\ ready' = [ready EXCEPT ![engine.slot][l] = PendingOn(StreamOf[l]) \cup {FreeId}]
                /\ lens' = [lens EXCEPT ![l] = "copied"] /\ UNCHANGED badDecodes
             \/ BadDecode(l) /\ UNCHANGED ready
       \/ BadDecode(l) /\ UNCHANGED <<ops, ready>>
    /\ UNCHANGED <<covers, events, base, pins, writing, published, readyConfirmed, releases,
                   engine, waits, consumer, dying, closed, fills, failures, trims>>

BothLenses == \A l \in Lenses : lens[l] = "copied"

\* Both lenses have answered: the pair is published or the slot stays empty.
Settle ==
    /\ engine.phase = "copy" /\ \A l \in Lenses : lens[l] # "todo"
    /\ published' = [published EXCEPT ![engine.slot] = BothLenses]
    /\ writing' = [writing EXCEPT ![engine.slot] = FALSE]
    /\ engine' = NoOwner /\ lens' = Todo
    /\ UNCHANGED <<gpu, events, base, pins, readyConfirmed, ready, releases, waits, consumer,
                   dying, closed, bounds>>

-----------------------------------------------------------------------------
(* Memory goes back to the driver. *)

\* Mutant: only the readers' events are waited for.
UntilRead(s) == UNION {covers[e] : e \in releases[s]}

\* What the memory of slot s waits for: the readers' events and our own copies.
Until(s) == (UNION {covers[e] : e \in releases[s]}) \cup (UNION {ready[s][l] : l \in Lenses})

DetachSlots(S) ==
    /\ dying' = dying \cup {[memory |-> base[s], until |-> Until(s)] : s \in S}
    /\ created' = created \ UNION {releases[s] : s \in S}
    /\ base' = [s \in Slots |-> IF s \in S THEN NoMemory ELSE base[s]]
    /\ published' = [s \in Slots |-> s \notin S /\ published[s]]
    /\ readyConfirmed' = [s \in Slots |-> s \notin S /\ readyConfirmed[s]]
    /\ ready' = [s \in Slots |-> IF s \in S THEN NoReady ELSE ready[s]]
    /\ releases' = [s \in Slots |-> IF s \in S THEN {} ELSE releases[s]]
    /\ UNCHANGED <<gpu, eventPool, pins, writing, owner, consumer, fills, failures, badDecodes>>

\* trimForIdle keeps any of the slots nobody pins or fills.
Trim ==
    /\ ~closed /\ engine = NoOwner /\ trims < MaxTrims /\ trims' = trims + 1
    /\ \E S \in SUBSET {s \in Slots : base[s] # NoMemory /\ pins[s] = 0 /\ ~writing[s]} :
          S # {} /\ DetachSlots(S)
    /\ UNCHANGED closed

\* The events are waited for outside the lock, then the memory is freed.
Free ==
    /\ \E d \in dying : d.until = {} /\ dying' = dying \ {d}
    /\ UNCHANGED <<gpu, events, slots, owner, consumer, closed, bounds>>

\* The decoder waits for its own copies and goes; no call of its own may run.
Close ==
    /\ ~closed /\ engine = NoOwner /\ \A q \in Streams : ops[q] = <<>>
    /\ \A c \in Consumers : pc[c] # "pinned"
    /\ closed' = TRUE
    /\ UNCHANGED <<gpu, events, slots, owner, consumer, dying, bounds>>

\* ~GpuFrameStore, once no lease is left.
DestroyStore ==
    /\ closed /\ \A s \in Slots : pins[s] = 0
    /\ \E s \in Slots : base[s] # NoMemory
    /\ DetachSlots({s \in Slots : base[s] # NoMemory})
    /\ UNCHANGED <<closed, trims>>

Gone ==
    /\ closed /\ dying = {} /\ \A s \in Slots : base[s] = NoMemory
    /\ UNCHANGED vars

-----------------------------------------------------------------------------

Next ==
    \/ \E q \in Consumers \cup Streams : Complete(q)
    \/ \E c \in Consumers :
         \/ \E s \in Slots : Pin(c, s)
         \/ Confirm(c) \/ Launch(c) \/ TakeEvent(c) \/ Record(c) \/ Synchronize(c)
         \/ Push(c) \/ Release(c) \/ Unpin(c)
    \/ \E s \in Slots : Reserve(s)
    \/ Order \/ Recycle \/ (\E l \in Lenses : CopyLens(l)) \/ Settle
    \/ Trim \/ Free \/ Close \/ DestroyStore \/ Gone

Spec == Init /\ [][Next]_vars

-----------------------------------------------------------------------------
(* Properties. *)

Operations == [id : Ids, kind : {"read", "copy", "wait"}, memory : Memory \cup {NoMemory}, need : SUBSET Ids]

\* Every variable has its type.
TypeOK ==
    /\ ops \in [Consumers \cup Streams -> Seq(Operations)]
    /\ covers \in [Events -> SUBSET Ids] /\ created \subseteq Events /\ eventPool \subseteq created
    /\ base \in [Slots -> Memory \cup {NoMemory}] /\ pins \in [Slots -> Nat]
    /\ writing \in [Slots -> BOOLEAN] /\ published \in [Slots -> BOOLEAN]
    /\ readyConfirmed \in [Slots -> BOOLEAN]
    /\ ready \in [Slots -> [Lenses -> SUBSET Ids]]
    /\ releases \in [Slots -> SUBSET created]
    /\ engine \in [phase : {"free", "order", "recycle", "copy"}, slot : Slots \cup {NoSlot}]
    /\ waits \subseteq created /\ lens \in [Lenses -> {"todo", "copied", "failed"}]
    /\ pc \in [Consumers -> {"idle", "pinned", "leased", "reading", "record", "synchronize",
                             "push", "unpin"}]
    /\ lease \in [Consumers -> Slots \cup {NoSlot}]
    /\ event \in [Consumers -> created \cup {NoEvent}]
    /\ dying \subseteq [memory : Memory, until : SUBSET Ids]
    /\ closed \in BOOLEAN
    /\ fills \in 0 .. MaxFills /\ failures \in 0 .. MaxFailures
    /\ badDecodes \in 0 .. MaxBadDecodes /\ trims \in 0 .. MaxTrims

Reads(m) == {o \in AllOps : o.kind = "read" /\ o.memory = m}

\* A decoded picture never lands in memory a kernel still reads, and no kernel reads
\* memory whose copies are on their way: on its stream, each copy comes behind waits
\* for every pending read of that memory (the lifetime rule of GpuFrameLease).
CopiesWaitForReads ==
    \A q \in Streams : \A i \in DOMAIN ops[q] :
        ops[q][i].kind = "copy" =>
            \A r \in Reads(ops[q][i].memory) : \E j \in 1 .. i : r.id \in ops[q][j].need

\* Memory given back to the driver, by a trim or after the last lease, is not used by
\* a pending kernel or copy, as long as no decode failed (see FreedIsUnread).
FreedIsUnused ==
    badDecodes = 0 =>
        \A o \in AllOps : o.memory # NoMemory =>
            \/ \E s \in Slots : base[s] = o.memory
            \/ \E d \in dying : d.memory = o.memory /\ d.until # {}

\* What trimForIdle says of the readers alone ("their kernels may still read the frame,
\* so the memory waits for them").
FreedIsUnread ==
    \A m \in Memory : Reads(m) # {} =>
        \/ \E s \in Slots : base[s] = m
        \/ \E d \in dying : d.memory = m /\ d.until # {}

\* Each release event has one home: the pool, one slot's list, the owner's waits or a
\* consumer's hand.  In two, it would be recorded again while a wait is still owed to it.
OneHome ==
    \A e \in created :
        Cardinality({s \in Slots : e \in releases[s]}) + Cardinality({c \in Consumers : event[c] = e})
            + (IF e \in eventPool THEN 1 ELSE 0) + (IF e \in waits THEN 1 ELSE 0) = 1

\* A lease that was handed out shows a complete picture until it goes: its slot keeps
\* its memory, nobody fills it and no copy into it is pending.
LeaseIsComplete ==
    \A c \in Consumers : pc[c] \notin {"idle", "pinned"} =>
        /\ base[lease[c]] # NoMemory /\ ~writing[lease[c]] /\ published[lease[c]]
        /\ \A o \in AllOps : ~(o.kind = "copy" /\ o.memory = base[lease[c]])
==============================================================================
