-------------------------- MODULE GpuSlotReleaseProofs --------------------------
(***************************************************************************)
(* Theorems about GpuSlotRelease, for any slots, memory, consumers, streams *)
(* and release events.                                                     *)
(***************************************************************************)
EXTENDS GpuSlotRelease, FiniteSetTheorems, TLAPS

-----------------------------------------------------------------------------
(* The inductive invariant, in parts. *)

Queues == Consumers \cup Streams

\* The operations of a queue, by their place in it.
Kind(q, i) == ops[q][i].kind
Id(q, i) == ops[q][i].id
Of(q, i) == ops[q][i].memory
Need(q, i) == ops[q][i].need

\* Every release event has a home, and no two.
Homes ==
    /\ \A e \in created : \/ e \in eventPool \/ e \in waits
                          \/ \E s \in Slots : e \in releases[s]
                          \/ \E c \in Consumers : event[c] = e
    /\ eventPool \cap waits = {}
    /\ \A s \in Slots : /\ releases[s] \cap eventPool = {} /\ releases[s] \cap waits = {}
                        /\ \A t \in Slots : t # s => releases[s] \cap releases[t] = {}
    /\ \A c \in Consumers : event[c] # NoEvent =>
          /\ event[c] \notin eventPool /\ event[c] \notin waits
          /\ \A s \in Slots : event[c] \notin releases[s]
          /\ \A d \in Consumers : event[d] = event[c] => d = c
    /\ waits # {} => engine.phase \in {"order", "recycle"}
    /\ \A c \in Consumers : /\ pc[c] \in {"idle", "pinned", "leased", "reading", "unpin"} => event[c] = NoEvent
                            /\ pc[c] \in {"record", "push"} => event[c] # NoEvent

\* A slot is leased, being filled or neither, and then may be without memory.
Leases ==
    /\ \A c \in Consumers : lease[c] = NoSlot <=> pc[c] = "idle"
    /\ \A s \in Slots : pins[s] = Cardinality({c \in Consumers : lease[c] = s})
    /\ \A c \in Consumers : lease[c] # NoSlot => published[lease[c]]
    /\ \A c \in Consumers : pc[c] \notin {"idle", "pinned"} => readyConfirmed[lease[c]]
    /\ \A s \in Slots : published[s] => base[s] # NoMemory /\ ~writing[s]
    /\ \A s \in Slots : writing[s] => base[s] # NoMemory /\ releases[s] = {} /\ ~readyConfirmed[s]
    /\ \A s \in Slots : writing[s] <=> engine.slot = s
    /\ engine.phase = "free" <=> engine.slot = NoSlot
    /\ closed => engine.slot = NoSlot
    /\ \A l \in Lenses : lens[l] = "failed" => badDecodes > 0
    /\ engine.phase # "copy" => lens = Todo

\* No memory is in two places.
Apart ==
    /\ \A s, t \in Slots : base[s] = base[t] /\ base[s] # NoMemory => s = t
    /\ \A d \in dying, s \in Slots : d.memory # base[s]

\* What is pending.
Pending ==
    /\ \A q, r \in Queues : \A i \in DOMAIN ops[q], j \in DOMAIN ops[r] :
          Id(q, i) = Id(r, j) /\ Kind(q, i) # "wait" => q = r /\ i = j
    /\ \A q \in Queues : \A i \in DOMAIN ops[q] :
          /\ Kind(q, i) = "copy" => Of(q, i) \in Memory /\ \E l \in Lenses : q = StreamOf[l]
          /\ Kind(q, i) = "read" => Of(q, i) \in Memory /\ q \in Consumers
          /\ Kind(q, i) = "wait" => Of(q, i) = NoMemory

\* A picture is published with events behind its copies.
Copies ==
    \A q \in Queues : \A i \in DOMAIN ops[q] : \A s \in Slots :
        (Kind(q, i) = "copy" /\ Of(q, i) = base[s]) =>
            /\ published[s] => ~readyConfirmed[s] /\ \E l \in Lenses : Id(q, i) \in ready[s][l]
            /\ writing[s] => \/ \E l \in Lenses : lens[l] = "copied" /\ Id(q, i) \in ready[s][l]
                             \/ \E l \in Lenses : lens[l] # "copied" /\ q = StreamOf[l]

\* Who stands for a pending read of memory m: the consumer that launched it, an
\* event it was recorded in, or the waits the copy streams hold for it.
ByReader(c, m, id) ==
    /\ lease[c] # NoSlot /\ base[lease[c]] = m
    /\ \/ pc[c] \in {"reading", "record", "synchronize"} /\ \E i \in DOMAIN ops[c] : Id(c, i) = id
       \/ pc[c] = "push" /\ id \in covers[event[c]]
ByRelease(s, m, id) == base[s] = m /\ \E e \in releases[s] : id \in covers[e]
Held(s, m, id) == \/ base[s] = m /\ \E c \in Consumers : ByReader(c, m, id)
                  \/ ByRelease(s, m, id)
ByOwner(m, id) == /\ engine.phase = "order" /\ base[engine.slot] = m
                  /\ \E e \in waits : id \in covers[e]
ByDying(m, id) == \E d \in dying : d.memory = m /\ id \in d.until
ByStreams(id) == \A l \in Lenses : \E j \in DOMAIN ops[StreamOf[l]] : id \in Need(StreamOf[l], j)

Guard(m, id) == \/ \E s \in Slots : Held(s, m, id)
                \/ ByOwner(m, id) \/ ByDying(m, id) \/ ByStreams(id)
Guarded == \A q \in Queues : \A i \in DOMAIN ops[q] : Kind(q, i) = "read" => Guard(Of(q, i), Id(q, i))

\* CopiesWaitForReads, by places.
Behind ==
    \A q \in Streams : \A i \in DOMAIN ops[q] : Kind(q, i) = "copy" =>
        \A r \in Queues : \A k \in DOMAIN ops[r] :
            (Kind(r, k) = "read" /\ Of(r, k) = Of(q, i)) => \E j \in 1 .. i : Id(r, k) \in Need(q, j)

\* As long as no decode failed: a copy's memory is its slot's or waits for it,
CopyKept(q, m, id) == \/ \E s \in Slots : base[s] = m /\ \E l \in Lenses : q = StreamOf[l] /\ id \in ready[s][l]
                      \/ ByDying(m, id)
CopiesKept ==
    badDecodes = 0 =>
        \A q \in Queues : \A i \in DOMAIN ops[q] : Kind(q, i) = "copy" => CopyKept(q, Of(q, i), Id(q, i))

\* and so is a read's: itself, or a copy that is behind it.
CopyOf(m, S) == \E l \in Lenses : \E i \in DOMAIN ops[StreamOf[l]] :
                    /\ Kind(StreamOf[l], i) = "copy" /\ Of(StreamOf[l], i) = m
                    /\ Id(StreamOf[l], i) \in S
ReadKept(m, id) == \/ \E s \in Slots : base[s] = m
                   \/ ByDying(m, id)
                   \/ \E d \in dying : d.memory = m /\ CopyOf(m, d.until)
ReadsKept ==
    badDecodes = 0 =>
        \A q \in Queues : \A i \in DOMAIN ops[q] : Kind(q, i) = "read" => ReadKept(Of(q, i), Id(q, i))

\* A read that only the streams wait for has a copy behind it, or will.
ReadBefore(s, m, id) == \/ Held(s, m, id)
                        \/ \A l \in Lenses : (writing[s] /\ lens[l] # "copied") \/ CopyOf(m, ready[s][l])
ReadsBefore ==
    badDecodes = 0 =>
        \A q \in Queues : \A i \in DOMAIN ops[q] : \A s \in Slots :
            (Kind(q, i) = "read" /\ Of(q, i) = base[s]) => ReadBefore(s, Of(q, i), Id(q, i))

SlotInv == /\ TypeOK /\ Homes /\ Leases /\ Apart /\ Pending /\ Copies /\ Guarded /\ Behind
           /\ CopiesKept /\ ReadsKept /\ ReadsBefore

-----------------------------------------------------------------------------
(* The queues. *)

\* The constants.
LEMMA Constants ==
  /\ \A l \in Lenses : StreamOf[l] \in Queues /\ StreamOf[l] \in Streams
  /\ \A q \in Streams : q \notin Consumers
  /\ NoMemory \notin Memory /\ NoSlot \notin Slots /\ NoEvent \notin Events
  BY StreamAssumption DEF Queues

\* An operation's place and fields.
LEMMA QueueTyped ==
  ASSUME TypeOK, NEW q \in Queues
  PROVE  /\ ops[q] \in Seq(Operations) /\ Len(ops[q]) \in Nat /\ DOMAIN ops[q] = 1 .. Len(ops[q])
         /\ \A i \in DOMAIN ops[q] : ops[q][i] \in Operations
  BY DEF TypeOK, Queues

\* What is pending, and an id that is not.
LEMMA PendingAre ==
  ASSUME TypeOK
  PROVE  /\ \A q \in Queues : \A i \in DOMAIN ops[q] : Id(q, i) \in PendingIds /\ Id(q, i) \in PendingOn(q)
         /\ PendingIds = {} => \A q \in Queues : DOMAIN ops[q] = {}
         /\ \A q \in Queues : PendingOn(q) \subseteq Ids
         /\ FreeIds # {} => FreeId \in Ids /\ FreeId \notin PendingIds
  <1>1. ASSUME NEW q \in Queues, NEW i \in DOMAIN ops[q] PROVE Id(q, i) \in PendingIds /\ Id(q, i) \in PendingOn(q)
    <2>1. ops[q][i] \in OpsOf(q)
      BY DEF OpsOf
    <2>2. ops[q][i] \in AllOps
      BY <2>1 DEF AllOps, Queues
    <2>. QED BY <2>1, <2>2 DEF PendingIds, PendingOn, Id
  <1>2. \A q \in Queues : PendingOn(q) \subseteq Ids
    BY QueueTyped DEF PendingOn, OpsOf, Operations
  <1>3. FreeIds # {} => FreeId \in FreeIds
    BY DEF FreeId
  <1>. QED BY <1>1, <1>2, <1>3 DEF FreeIds

\* What the memory of a slot would wait for.
LEMMA UntilIs ==
  \A s : \A i : i \in Until(s) <=> \/ \E e \in releases[s] : i \in covers[e]
                                   \/ \E l \in Lenses : i \in ready[s][l]
  BY DEF Until, Lenses

\* An operation appended to some queues.
Appended(Q, o) == ops' = [r \in Queues |-> IF r \in Q THEN Append(ops[r], o) ELSE ops[r]]

\* What appending does to each queue.
LEMMA AppendedOps ==
  ASSUME TypeOK, NEW Q \in SUBSET Queues, NEW o \in Operations, Appended(Q, o)
  PROVE  /\ ops' \in [Queues -> Seq(Operations)]
         /\ \A r \in Queues \ Q : ops'[r] = ops[r]
         /\ \A r \in Queues : \A i \in DOMAIN ops[r] : i \in DOMAIN ops'[r] /\ ops'[r][i] = ops[r][i]
         /\ \A r \in Q : \A i \in DOMAIN ops'[r] :
               i \in DOMAIN ops[r] \/ (i = Len(ops[r]) + 1 /\ ops'[r][i] = o /\ i \notin DOMAIN ops[r])
         /\ \A r \in Q : Len(ops[r]) + 1 \in DOMAIN ops'[r] /\ ops'[r][Len(ops[r]) + 1] = o
  <1>1. ASSUME NEW r \in Q
        PROVE  /\ ops'[r] = Append(ops[r], o) /\ ops'[r] \in Seq(Operations)
               /\ \A i \in DOMAIN ops[r] : i \in DOMAIN ops'[r] /\ ops'[r][i] = ops[r][i]
               /\ \A i \in DOMAIN ops'[r] :
                     i \in DOMAIN ops[r] \/ (i = Len(ops[r]) + 1 /\ ops'[r][i] = o /\ i \notin DOMAIN ops[r])
               /\ Len(ops[r]) + 1 \in DOMAIN ops'[r] /\ ops'[r][Len(ops[r]) + 1] = o
    <2>1. r \in Queues /\ ops'[r] = Append(ops[r], o)
      BY DEF Appended
    <2>2. PICK s \in Seq(Operations) : s = ops[r]
      BY <2>1, QueueTyped
    <2>. QED BY <2>1, <2>2
  <1>2. \A r \in Queues \ Q : ops'[r] = ops[r] /\ ops'[r] \in Seq(Operations)
    BY QueueTyped DEF Appended
  <1>3. ops' \in [Queues -> Seq(Operations)]
    <2>1. \A r \in Queues : ops'[r] \in Seq(Operations)
      BY <1>1, <1>2
    <2>2. ops' = [r \in Queues |-> ops'[r]]
      BY DEF Appended
    <2>. QED BY <2>1, <2>2
  <1>4. \A r \in Queues : \A i \in DOMAIN ops[r] : i \in DOMAIN ops'[r] /\ ops'[r][i] = ops[r][i]
    BY <1>1, <1>2
  <1>. QED BY <1>1, <1>2, <1>3, <1>4

\* After that an operation is an earlier one, in its place, or the new one.
LEMMA AppendedAre ==
  ASSUME TypeOK, NEW Q \in SUBSET Queues, NEW o \in Operations, Appended(Q, o)
  PROVE  \A r \in Queues : \A i \in DOMAIN ops'[r] :
            \/ i \in DOMAIN ops[r] /\ ops'[r][i] = ops[r][i]
            \/ r \in Q /\ i = Len(ops[r]) + 1 /\ ops'[r][i] = o /\ i \notin DOMAIN ops[r]
  <1>1. \A r \in Queues \ Q : ops'[r] = ops[r]
    BY AppendedOps
  <1>2. \A r \in Queues : \A i \in DOMAIN ops[r] : i \in DOMAIN ops'[r] /\ ops'[r][i] = ops[r][i]
    BY AppendedOps
  <1>3. \A r \in Q : \A i \in DOMAIN ops'[r] :
           i \in DOMAIN ops[r] \/ (i = Len(ops[r]) + 1 /\ ops'[r][i] = o /\ i \notin DOMAIN ops[r])
    BY AppendedOps
  <1>. QED BY <1>1, <1>2, <1>3

\* The new one is in each of those queues.
LEMMA AppendedLast ==
  ASSUME TypeOK, NEW Q \in SUBSET Queues, NEW o \in Operations, Appended(Q, o), NEW r \in Q
  PROVE  \E i \in DOMAIN ops'[r] : ops'[r][i] = o /\ i = Len(ops[r]) + 1
  <1>1. ops'[r] = Append(ops[r], o) /\ r \in Queues
    BY DEF Appended
  <1>2. PICK s \in Seq(Operations) : s = ops[r]
    BY <1>1, QueueTyped
  <1>. QED BY <1>1, <1>2

\* The place an operation had before queue q's first was done.
Was(q, r, i) == IF r = q THEN i + 1 ELSE i

\* When the first operation of a queue is done, the others move up and none is new.
LEMMA CompleteOps ==
  ASSUME TypeOK, NEW q \in Queues, Complete(q)
  PROVE  /\ ops' \in [Queues -> Seq(Operations)]
         /\ 1 \in DOMAIN ops[q] /\ Need(q, 1) = {}
         /\ \A r \in Queues : \A i \in DOMAIN ops'[r] :
               LET j == Was(q, r, i) IN
               /\ j \in DOMAIN ops[r] /\ ~(r = q /\ j = 1) /\ i \in Nat
               /\ ops'[r][i].id = Id(r, j) /\ ops'[r][i].kind = Kind(r, j) /\ ops'[r][i].memory = Of(r, j)
               /\ ops'[r][i].need = Need(r, j) \ {Id(q, 1)}
         /\ \A r \in Queues : \A j \in DOMAIN ops[r] :
               ~(r = q /\ j = 1) => \E i \in DOMAIN ops'[r] : j = Was(q, r, i)
  <1>. DEFINE id == Head(ops[q]).id
              forget(seq) == [i \in DOMAIN seq |-> [seq[i] EXCEPT !.need = @ \ {id}]]
  <1>1. /\ ops[q] # <<>> /\ Head(ops[q]).need = {} /\ DOMAIN ops = Queues
        /\ ops' = [r \in DOMAIN ops |-> IF r = q THEN forget(Tail(ops[r])) ELSE forget(ops[r])]
    BY DEF Complete, TypeOK, Queues
  <1>2. ops[q] \in Seq(Operations) /\ Len(ops[q]) >= 1 /\ Head(ops[q]) = ops[q][1] /\ 1 \in DOMAIN ops[q]
    BY <1>1, QueueTyped
  <1>3. Need(q, 1) = {} /\ id = Id(q, 1)
    BY <1>1, <1>2 DEF Need, Id
  <1>4. ASSUME NEW seq \in Seq(Operations)
        PROVE  /\ forget(seq) \in Seq(Operations) /\ DOMAIN forget(seq) = DOMAIN seq
               /\ \A i \in DOMAIN seq :
                    /\ forget(seq)[i].id = seq[i].id /\ forget(seq)[i].kind = seq[i].kind
                    /\ forget(seq)[i].memory = seq[i].memory /\ forget(seq)[i].need = seq[i].need \ {id}
    <2>. HIDE DEF id
    <2>0. PICK n \in Nat : DOMAIN seq = 1 .. n
      <3>1. Len(seq) \in Nat /\ DOMAIN seq = 1 .. Len(seq)
        OBVIOUS
      <3>. QED BY <3>1
    <2>1. \A i \in 1 .. n : [seq[i] EXCEPT !.need = @ \ {id}] \in Operations
      <3>1. \A i \in 1 .. n : seq[i] \in Operations
        BY <2>0
      <3>. QED BY <3>1 DEF Operations
    <2>2. forget(seq) \in [1 .. n -> Operations]
      BY <2>0, <2>1
    <2>3. forget(seq) \in Seq(Operations)
      BY <2>2
    <2>4. \A i \in DOMAIN seq : seq[i] \in Operations
      OBVIOUS
    <2>. QED BY <2>3, <2>4 DEF Operations
  <1>5. Tail(ops[q]) \in Seq(Operations)
    BY <1>1, <1>2
  <1>6. \A i \in DOMAIN Tail(ops[q]) : i + 1 \in DOMAIN ops[q] /\ Tail(ops[q])[i] = ops[q][i + 1] /\ i \in Nat /\ i + 1 # 1
    BY <1>1, <1>2
  <1>7. \A j \in DOMAIN ops[q] : j # 1 => j - 1 \in DOMAIN Tail(ops[q]) /\ j = (j - 1) + 1
    BY <1>1, <1>2
  <1>8. ops'[q] = forget(Tail(ops[q])) /\ \A r \in Queues \ {q} : ops'[r] = forget(ops[r])
    BY <1>1
  <1>. HIDE DEF forget, id
  <1>9. ops' \in [Queues -> Seq(Operations)]
    <2>1. \A r \in Queues : ops'[r] \in Seq(Operations)
      BY <1>4, <1>5, <1>8, QueueTyped
    <2>2. ops' = [r \in Queues |-> ops'[r]]
      BY <1>1
    <2>. QED BY <2>1, <2>2
  <1>10. ASSUME NEW r \in Queues, NEW i \in DOMAIN ops'[r]
         PROVE  LET j == Was(q, r, i) IN
                /\ j \in DOMAIN ops[r] /\ ~(r = q /\ j = 1) /\ i \in Nat
                /\ ops'[r][i].id = Id(r, j) /\ ops'[r][i].kind = Kind(r, j) /\ ops'[r][i].memory = Of(r, j)
                /\ ops'[r][i].need = Need(r, j) \ {Id(q, 1)}
    <2>1. CASE r = q
      <3>1. i \in DOMAIN Tail(ops[q])
        BY <1>4, <1>5, <1>8, <2>1
      <3>2. i + 1 \in DOMAIN ops[q] /\ Tail(ops[q])[i] = ops[q][i + 1] /\ i \in Nat /\ i + 1 # 1
        BY <1>6, <3>1
      <3>3. LET u == ops[q][i + 1] IN
            /\ ops'[q][i].id = u.id /\ ops'[q][i].kind = u.kind /\ ops'[q][i].memory = u.memory
            /\ ops'[q][i].need = u.need \ {id}
        <4>1. PICK seq \in Seq(Operations) : seq = Tail(ops[q])
          BY <1>5
        <4>2. ops'[q] = forget(seq) /\ i \in DOMAIN seq
          BY <1>8, <3>1, <4>1
        <4>3. seq[i] = ops[q][i + 1]
          BY <3>2, <4>1
        <4>. QED BY <1>4, <4>2, <4>3
      <3>. QED BY <1>3, <2>1, <3>2, <3>3 DEF Was, Id, Kind, Of, Need
    <2>2. CASE r # q
      <3>1. i \in DOMAIN ops[r] /\ i \in Nat /\ ops[r] \in Seq(Operations)
        BY <1>4, <1>8, <2>2, QueueTyped
      <3>. QED BY <1>3, <1>4, <1>8, <2>2, <3>1 DEF Was, Id, Kind, Of, Need
    <2>. QED BY <2>1, <2>2
  <1>11. ASSUME NEW r \in Queues, NEW j \in DOMAIN ops[r], ~(r = q /\ j = 1)
         PROVE  \E i \in DOMAIN ops'[r] : j = Was(q, r, i)
    <2>1. CASE r = q
      <3>1. j - 1 \in DOMAIN ops'[q] /\ j = (j - 1) + 1
        BY <1>4, <1>5, <1>7, <1>8, <1>11, <2>1
      <3>. QED BY <2>1, <3>1 DEF Was
    <2>2. CASE r # q
      <3>1. j \in DOMAIN ops'[r]
        BY <1>4, <1>8, <2>2, QueueTyped
      <3>. QED BY <2>2, <3>1 DEF Was
    <2>. QED BY <2>1, <2>2
  <1>. QED BY <1>2, <1>3, <1>9, <1>10, <1>11

-----------------------------------------------------------------------------
(* Types. *)

\* The step of each actor leaves every variable of its type.
LEMMA TypeStep == ASSUME SlotInv, [Next]_vars PROVE TypeOK'
  <1>0. TypeOK
    BY DEF SlotInv
  <1>1. /\ ops \in [Queues -> Seq(Operations)] /\ covers \in [Events -> SUBSET Ids]
        /\ created \subseteq Events /\ eventPool \subseteq created
        /\ base \in [Slots -> Memory \cup {NoMemory}] /\ pins \in [Slots -> Nat] /\ writing \in [Slots -> BOOLEAN]
        /\ published \in [Slots -> BOOLEAN] /\ readyConfirmed \in [Slots -> BOOLEAN]
        /\ ready \in [Slots -> [Lenses -> SUBSET Ids]] /\ releases \in [Slots -> SUBSET created]
    BY DEF SlotInv, TypeOK, Queues
  <1>2. /\ engine \in [phase : {"free", "order", "recycle", "copy"}, slot : Slots \cup {NoSlot}]
        /\ waits \subseteq created /\ lens \in [Lenses -> {"todo", "copied", "failed"}]
        /\ pc \in [Consumers -> {"idle", "pinned", "leased", "reading", "record", "synchronize", "push", "unpin"}]
        /\ lease \in [Consumers -> Slots \cup {NoSlot}] /\ event \in [Consumers -> created \cup {NoEvent}]
        /\ dying \subseteq [memory : Memory, until : SUBSET Ids] /\ closed \in BOOLEAN
        /\ fills \in 0 .. MaxFills /\ failures \in 0 .. MaxFailures
        /\ badDecodes \in 0 .. MaxBadDecodes /\ trims \in 0 .. MaxTrims
    BY DEF SlotInv, TypeOK
  <1>3. \A c \in Consumers : pc[c] # "idle" => lease[c] \in Slots /\ base[lease[c]] \in Memory
    BY <1>1, <1>2 DEF SlotInv, Leases
  <1>4. engine.slot # NoSlot => engine.slot \in Slots /\ base[engine.slot] \in Memory
    BY <1>1, <1>2 DEF SlotInv, Leases
  <1>5. {MaxPending, MaxFills, MaxFailures, MaxBadDecodes, MaxTrims} \subseteq Nat
    BY StreamAssumption
  <1>6. Fail => failures' \in 0 .. MaxFailures
    BY <1>2, <1>5 DEF Fail
  <1>7. ASSUME NEW q \in Queues, Complete(q) PROVE TypeOK'
    <2>1. ops' \in [Queues -> Seq(Operations)]
      BY <1>0, <1>7, CompleteOps
    <2>2. covers' \in [Events -> SUBSET Ids]
      BY <1>1, <1>7 DEF Complete
    <2>3. ready' \in [Slots -> [Lenses -> SUBSET Ids]]
      BY <1>1, <1>7 DEF Complete
    <2>4. dying' \subseteq [memory : Memory, until : SUBSET Ids]
      BY <1>2, <1>7 DEF Complete
    <2>. QED BY <1>1, <1>2, <1>7, <2>1, <2>2, <2>3, <2>4
         DEF Complete, events, owner, consumer, bounds, TypeOK, Queues
  <1>8. ASSUME NEW c \in Consumers, NEW s \in Slots, Pin(c, s) PROVE TypeOK'
    <2>1. pins' \in [Slots -> Nat]
      BY <1>1, <1>8 DEF Pin
    <2>. QED BY <1>1, <1>2, <1>8, <2>1 DEF Pin, gpu, events, owner, bounds, TypeOK, Queues
  <1>9. ASSUME NEW c \in Consumers, Confirm(c) PROVE TypeOK'
    BY <1>1, <1>2, <1>9 DEF Confirm, gpu, events, owner, bounds, TypeOK, Queues
  <1>10. ASSUME NEW c \in Consumers, Launch(c) PROVE TypeOK'
    <2>1. Op(FreeId, "read", base[lease[c]], {}) \in Operations
      BY <1>0, <1>3, <1>10, PendingAre DEF Launch, Op, Operations
    <2>. DEFINE o == Op(FreeId, "read", base[lease[c]], {})
    <2>. HIDE DEF o
    <2>2. ops' = [ops EXCEPT ![c] = Append(@, o)]
      BY <1>10 DEF Launch, o
    <2>3. Appended({c}, o)
      BY <1>1, <2>2 DEF Appended
    <2>4. ops' \in [Queues -> Seq(Operations)]
      BY <1>0, <2>1, <2>3, AppendedOps DEF Queues, o
    <2>. QED BY <1>1, <1>2, <1>10, <2>4 DEF Launch, events, slots, owner, bounds, TypeOK, Queues
  <1>11. ASSUME NEW c \in Consumers, TakeEvent(c) PROVE TypeOK'
    <2>1. CASE \E e \in IF eventPool # {} THEN eventPool ELSE Events \ created :
                   /\ eventPool' = eventPool \ {e} /\ created' = created \cup {e}
                   /\ event' = [event EXCEPT ![c] = e] /\ pc' = [pc EXCEPT ![c] = "record"]
                   /\ UNCHANGED failures
      <3>1. PICK e \in Events : /\ eventPool' = eventPool \ {e} /\ created' = created \cup {e}
                                /\ event' = [event EXCEPT ![c] = e] /\ pc' = [pc EXCEPT ![c] = "record"]
        BY <1>1, <2>1
      <3>2. event' \in [Consumers -> created' \cup {NoEvent}] /\ releases \in [Slots -> SUBSET created']
        BY <1>1, <1>2, <3>1
      <3>. QED BY <1>1, <1>2, <1>11, <2>1, <3>1, <3>2 DEF TakeEvent, gpu, slots, owner, TypeOK, Queues
    <2>2. CASE Fail /\ pc' = [pc EXCEPT ![c] = "synchronize"] /\ UNCHANGED <<events, event>>
      BY <1>1, <1>2, <1>6, <1>11, <2>2 DEF TakeEvent, gpu, events, slots, owner, TypeOK, Queues
    <2>. QED BY <1>11, <2>1, <2>2 DEF TakeEvent
  <1>12. ASSUME NEW c \in Consumers, Record(c) PROVE TypeOK'
    <2>1. PendingOn(c) \subseteq Ids
      BY <1>0, PendingAre DEF Queues
    <2>2. covers' \in [Events -> SUBSET Ids]
      <3>1. PICK S \in SUBSET Ids : S = PendingOn(c)
        BY <2>1
      <3>2. covers' = [covers EXCEPT ![event[c]] = S] \/ covers' = covers
        BY <1>12, <3>1 DEF Record
      <3>. QED BY <1>1, <3>2
    <2>3. failures' \in 0 .. MaxFailures
      BY <1>2, <1>6, <1>12 DEF Record
    <2>4. pc' \in [Consumers -> {"idle", "pinned", "leased", "reading", "record", "synchronize", "push", "unpin"}]
      BY <1>2, <1>12 DEF Record
    <2>. QED BY <1>1, <1>2, <1>12, <2>2, <2>3, <2>4 DEF Record, events, slots, owner, TypeOK, Queues
  <1>13. ASSUME NEW c \in Consumers, Synchronize(c) PROVE TypeOK'
    BY <1>1, <1>2, <1>13 DEF Synchronize, gpu, slots, owner, bounds, TypeOK, Queues
  <1>14. ASSUME NEW c \in Consumers, Push(c) PROVE TypeOK'
    <2>0. pc[c] = "push"
      BY <1>14 DEF Push
    <2>1. lease[c] \in Slots /\ event[c] \in created
      BY <1>2, <1>3, <2>0 DEF SlotInv, Homes
    <2>2. eventPool' \subseteq created /\ releases' \in [Slots -> SUBSET created]
          /\ event' \in [Consumers -> created \cup {NoEvent}]
      BY <1>1, <1>2, <1>14, <2>1 DEF Push
    <2>. QED BY <1>1, <1>2, <1>14, <2>2 DEF Push, gpu, owner, bounds, TypeOK, Queues
  <1>15. ASSUME NEW c \in Consumers, Release(c) PROVE TypeOK'
    BY <1>1, <1>2, <1>15 DEF Release, gpu, events, slots, owner, bounds, TypeOK, Queues
  <1>16. ASSUME NEW c \in Consumers, Unpin(c) PROVE TypeOK'
    <2>0. pc[c] = "unpin"
      BY <1>16 DEF Unpin
    <2>s. PICK s \in Slots : s = lease[c]
      BY <1>3, <2>0
    <2>1. pins[s] = Cardinality({d \in Consumers : lease[d] = s})
      BY DEF SlotInv, Leases
    <2>2. pins[s] # 0
      <3>1. IsFiniteSet({d \in Consumers : lease[d] = s})
        BY ConsumersAssumption, FS_Subset
      <3>2. c \in {d \in Consumers : lease[d] = s}
        BY <2>s
      <3>. QED BY <2>1, <3>1, <3>2, FS_EmptySet
    <2>3. pins' \in [Slots -> Nat]
      <3>1. pins[s] - 1 \in Nat
        BY <1>1, <2>1, <2>2
      <3>. QED BY <1>1, <1>16, <2>s, <3>1 DEF Unpin
    <2>. QED BY <1>1, <1>2, <1>16, <2>3 DEF Unpin, gpu, events, owner, bounds, TypeOK, Queues
  <1>17. ASSUME NEW s \in Slots, Reserve(s) PROVE TypeOK'
    <2>1. base' \in [Slots -> Memory \cup {NoMemory}]
      BY <1>1, <1>17 DEF Reserve
    <2>2. fills' \in 0 .. MaxFills
      BY <1>2, <1>5, <1>17 DEF Reserve
    <2>3. waits' \subseteq created /\ releases' \in [Slots -> SUBSET created] /\ lens' \in [Lenses -> {"todo", "copied", "failed"}]
      BY <1>1, <1>17 DEF Reserve, Todo
    <2>4. engine' \in [phase : {"free", "order", "recycle", "copy"}, slot : Slots \cup {NoSlot}]
      BY <1>17 DEF Reserve
    <2>. QED BY <1>1, <1>2, <1>17, <2>1, <2>2, <2>3, <2>4 DEF Reserve, gpu, events, consumer, TypeOK, Queues
  <1>18. CASE Order
    <2>. DEFINE need == UNION {covers[e] : e \in waits}
                o == Op(FreeId, "wait", NoMemory, need)
    <2>1. engine' \in [phase : {"free", "order", "recycle", "copy"}, slot : Slots \cup {NoSlot}]
      BY <1>2, <1>18 DEF Order
    <2>2. ops' \in [Queues -> Seq(Operations)] /\ failures' \in 0 .. MaxFailures
      <3>1. CASE FreeIds # {} /\ UNCHANGED failures /\
                 ops' = [q \in DOMAIN ops |-> IF q \in WaitingStreams THEN Append(ops[q], o) ELSE ops[q]]
        <4>1. need \subseteq Ids
          BY <1>1, <1>2
        <4>2. o \in Operations
          BY <1>0, <3>1, <4>1, PendingAre DEF Op, Operations
        <4>. HIDE DEF o
        <4>3. Appended(WaitingStreams, o) /\ WaitingStreams \subseteq Queues
          BY <1>1, <3>1, Constants DEF Appended, WaitingStreams
        <4>. QED BY <1>0, <1>2, <3>1, <4>2, <4>3, AppendedOps
      <3>2. CASE Fail /\ UNCHANGED ops
        BY <1>1, <1>6, <3>2
      <3>. QED BY <1>18, <3>1, <3>2 DEF Order
    <2>. QED BY <1>1, <1>2, <1>18, <2>1, <2>2 DEF Order, events, slots, consumer, TypeOK, Queues
  <1>19. CASE Recycle
    BY <1>1, <1>2, <1>19 DEF Recycle, gpu, slots, consumer, bounds, TypeOK, Queues
  <1>20. ASSUME NEW l \in Lenses, CopyLens(l) PROVE TypeOK'
    <2>0. engine.phase = "copy" /\ base[engine.slot] \in Memory /\ engine.slot \in Slots
      BY <1>2, <1>4, <1>20 DEF CopyLens, SlotInv, Leases
    <2>. DEFINE o == Op(FreeId, "copy", base[engine.slot], {})
                q == StreamOf[l]
    <2>1. BadDecode(l) => lens' \in [Lenses -> {"todo", "copied", "failed"}] /\ badDecodes' \in 0 .. MaxBadDecodes
      BY <1>2, <1>5 DEF BadDecode
    <2>2. lens' \in [Lenses -> {"todo", "copied", "failed"}] /\ badDecodes' \in 0 .. MaxBadDecodes
      BY <1>2, <1>20, <2>1 DEF CopyLens
    <2>3. ops' \in [Queues -> Seq(Operations)] /\ ready' \in [Slots -> [Lenses -> SUBSET Ids]]
      <3>1. CASE UNCHANGED <<ops, ready>>
        BY <1>1, <3>1
      <3>2. CASE /\ FreeIds # {} /\ ops' = [ops EXCEPT ![q] = Append(@, o)]
                 /\ \/ ready' = [ready EXCEPT ![engine.slot][l] = PendingOn(q) \cup {FreeId}]
                    \/ UNCHANGED ready
        <4>1. o \in Operations /\ FreeId \in Ids /\ PendingOn(q) \subseteq Ids /\ q \in Queues
          BY <1>0, <2>0, <3>2, PendingAre, Constants DEF Op, Operations
        <4>. HIDE DEF o, q
        <4>2. Appended({q}, o)
          BY <1>1, <3>2 DEF Appended
        <4>3. ready' \in [Slots -> [Lenses -> SUBSET Ids]]
          <5>1. CASE UNCHANGED ready
            BY <1>1, <5>1
          <5>2. CASE ready' = [ready EXCEPT ![engine.slot][l] = PendingOn(q) \cup {FreeId}]
            <6>1. PICK S \in SUBSET Ids : S = PendingOn(q) \cup {FreeId}
              BY <4>1
            <6>2. ready' = [ready EXCEPT ![engine.slot] = [ready[engine.slot] EXCEPT ![l] = S]]
              BY <5>2, <6>1
            <6>3. [ready[engine.slot] EXCEPT ![l] = S] \in [Lenses -> SUBSET Ids]
              BY <1>1, <2>0
            <6>. QED BY <1>1, <6>2, <6>3
          <5>. QED BY <3>2, <5>1, <5>2
        <4>. QED BY <1>0, <4>1, <4>2, <4>3, AppendedOps
      <3>. QED BY <1>20, <3>1, <3>2 DEF CopyLens
    <2>. QED BY <1>1, <1>2, <1>20, <2>2, <2>3 DEF CopyLens, events, consumer, TypeOK, Queues
  <1>21. CASE Settle
    <2>1. published' \in [Slots -> BOOLEAN] /\ writing' \in [Slots -> BOOLEAN] /\ engine' = NoOwner /\ lens' = Todo
      <3>1. PICK p \in BOOLEAN : p = BothLenses
        <4>1. BothLenses \in BOOLEAN
          BY DEF BothLenses
        <4>. QED BY <4>1
      <3>. QED BY <1>1, <1>21, <3>1 DEF Settle
    <2>2. engine' \in [phase : {"free", "order", "recycle", "copy"}, slot : Slots \cup {NoSlot}]
          /\ lens' \in [Lenses -> {"todo", "copied", "failed"}]
      BY <2>1 DEF NoOwner, Todo
    <2>. QED BY <1>1, <1>2, <1>21, <2>1, <2>2 DEF Settle, gpu, events, consumer, bounds, TypeOK, Queues
  <1>22. ASSUME NEW S \in SUBSET {s \in Slots : base[s] # NoMemory}, DetachSlots(S), closed' \in BOOLEAN, trims' \in 0 .. MaxTrims,
                \A s \in S : pins[s] = 0
         PROVE  TypeOK'
    <2>1. dying' \subseteq [memory : Memory, until : SUBSET Ids]
      <3>1. \A s \in S : base[s] \in Memory /\ Until(s) \subseteq Ids
        <4>1. ASSUME NEW s \in S, NEW i \in Until(s) PROVE i \in Ids
          <5>1. \/ \E e \in releases[s] : i \in covers[e]
                \/ \E l \in Lenses : i \in ready[s][l]
            BY UntilIs
          <5>. QED BY <1>1, <5>1
        <4>. QED BY <1>1, <4>1
      <3>2. dying' = dying \cup {[memory |-> base[s], until |-> Until(s)] : s \in S}
        BY <1>22 DEF DetachSlots
      <3>. QED BY <1>2, <3>1, <3>2
    <2>2. base' \in [Slots -> Memory \cup {NoMemory}]
      BY <1>1, <1>22 DEF DetachSlots
    <2>3. published' \in [Slots -> BOOLEAN]
      <3>1. \A s \in Slots : (s \notin S /\ published[s]) \in BOOLEAN
        BY <1>1
      <3>2. published' = [s \in Slots |-> s \notin S /\ published[s]]
        BY <1>22 DEF DetachSlots
      <3>. QED BY <3>1, <3>2
    <2>4. readyConfirmed' \in [Slots -> BOOLEAN]
      <3>1. \A s \in Slots : (s \notin S /\ readyConfirmed[s]) \in BOOLEAN
        BY <1>1
      <3>2. readyConfirmed' = [s \in Slots |-> s \notin S /\ readyConfirmed[s]]
        BY <1>22 DEF DetachSlots
      <3>. QED BY <3>1, <3>2
    <2>5. ready' \in [Slots -> [Lenses -> SUBSET Ids]]
      BY <1>1, <1>22 DEF DetachSlots, NoReady
    <2>6. /\ created' \subseteq created /\ releases' \in [Slots -> SUBSET created']
          /\ eventPool \subseteq created' /\ waits \subseteq created'
      <3>1. created' = created \ UNION {releases[s] : s \in S}
            /\ releases' = [s \in Slots |-> IF s \in S THEN {} ELSE releases[s]]
        BY <1>22 DEF DetachSlots
      <3>2. \A s \in Slots \ S : \A t \in S : releases[s] \cap releases[t] = {}
        BY DEF SlotInv, Homes
      <3>3. \A t \in S : eventPool \cap releases[t] = {} /\ waits \cap releases[t] = {}
        BY DEF SlotInv, Homes
      <3>4. ASSUME NEW s \in Slots \ S PROVE releases[s] \subseteq created'
        <4>1. releases[s] \subseteq created
          BY <1>1
        <4>. QED BY <3>1, <3>2, <4>1
      <3>5. releases' \in [Slots -> SUBSET created']
        BY <3>1, <3>4
      <3>6. eventPool \subseteq created' /\ waits \subseteq created'
        BY <1>1, <1>2, <3>1, <3>3
      <3>. QED BY <3>1, <3>5, <3>6
    <2>7. event \in [Consumers -> created' \cup {NoEvent}]
      <3>1. ASSUME NEW c \in Consumers, event[c] # NoEvent PROVE event[c] \in created'
        <4>1. event[c] \in created /\ \A s \in Slots : event[c] \notin releases[s]
          BY <1>2, <3>1 DEF SlotInv, Homes
        <4>. QED BY <1>22, <4>1 DEF DetachSlots
      <3>. QED BY <1>2, <3>1
    <2>. QED BY <1>1, <1>2, <1>22, <2>1, <2>2, <2>3, <2>4, <2>5, <2>6, <2>7
         DEF DetachSlots, gpu, owner, consumer, TypeOK, Queues
  <1>23. CASE Trim
    <2>1. PICK S \in SUBSET {s \in Slots : base[s] # NoMemory /\ pins[s] = 0 /\ ~writing[s]} : DetachSlots(S)
      BY <1>23 DEF Trim
    <2>2. trims' \in 0 .. MaxTrims /\ closed' \in BOOLEAN
      BY <1>2, <1>5, <1>23 DEF Trim
    <2>. QED BY <1>22, <2>1, <2>2
  <1>24. CASE DestroyStore
    <2>1. DetachSlots({s \in Slots : base[s] # NoMemory}) /\ (\A s \in Slots : pins[s] = 0) /\ UNCHANGED <<closed, trims>>
      BY <1>24 DEF DestroyStore
    <2>. QED BY <1>2, <1>22, <2>1
  <1>25. CASE Free
    BY <1>1, <1>2, <1>25 DEF Free, gpu, events, slots, owner, consumer, bounds, TypeOK, Queues
  <1>26. CASE Close
    BY <1>1, <1>2, <1>26 DEF Close, gpu, events, slots, owner, consumer, bounds, TypeOK, Queues
  <1>27. CASE Gone \/ UNCHANGED vars
    BY <1>1, <1>2, <1>27 DEF Gone, vars, gpu, events, slots, owner, consumer, bounds, TypeOK, Queues
  <1>. QED BY <1>7, <1>8, <1>9, <1>10, <1>11, <1>12, <1>13, <1>14, <1>15, <1>16, <1>17, <1>18, <1>19, <1>20, <1>21, <1>23,
              <1>24, <1>25, <1>26, <1>27 DEF Next, Queues

-----------------------------------------------------------------------------
(* The release events. *)

\* An event keeps one home while it passes between the pool, a hand, a list and the waits.
LEMMA HomesStep == ASSUME SlotInv, [Next]_vars PROVE Homes'
  <1>1. /\ created \subseteq Events /\ eventPool \subseteq created /\ releases \in [Slots -> SUBSET created]
        /\ waits \subseteq created /\ event \in [Consumers -> created \cup {NoEvent}]
        /\ pc \in [Consumers -> {"idle", "pinned", "leased", "reading", "record", "synchronize", "push", "unpin"}]
        /\ lease \in [Consumers -> Slots \cup {NoSlot}]
        /\ engine \in [phase : {"free", "order", "recycle", "copy"}, slot : Slots \cup {NoSlot}]
    BY DEF SlotInv, TypeOK
  <1>2. Homes
    BY DEF SlotInv
  <1>3. \A c \in Consumers : pc[c] # "idle" => lease[c] \in Slots
    BY <1>1 DEF SlotInv, Leases
  <1>. DEFINE Same == UNCHANGED <<created, eventPool, releases, waits, event>>
  <1>4. ASSUME Same, pc' = pc, engine'.phase = engine.phase \/ (waits # {} => engine'.phase \in {"order", "recycle"})
        PROVE  Homes'
    BY <1>1, <1>2, <1>4 DEF Homes
  <1>5. ASSUME NEW c \in Consumers, NEW p \in {"pinned", "leased", "reading", "unpin", "idle"},
               Same, engine' = engine, pc' = [pc EXCEPT ![c] = p],
               pc[c] \in {"idle", "pinned", "leased", "reading", "unpin"}
        PROVE  Homes'
    BY <1>1, <1>2, <1>5 DEF Homes
  <1>7. ASSUME NEW q \in Queues, Complete(q) PROVE Homes'
    BY <1>4, <1>7 DEF Complete, events, owner, consumer
  <1>8. ASSUME NEW c \in Consumers, NEW s \in Slots, Pin(c, s) PROVE Homes'
    BY <1>5, <1>8 DEF Pin, events, owner
  <1>9. ASSUME NEW c \in Consumers, Confirm(c) PROVE Homes'
    BY <1>5, <1>9 DEF Confirm, events, owner
  <1>10. ASSUME NEW c \in Consumers, Launch(c) PROVE Homes'
    BY <1>5, <1>10 DEF Launch, events, slots, owner
  <1>11. ASSUME NEW c \in Consumers, TakeEvent(c) PROVE Homes'
    <2>1. UNCHANGED <<releases, waits, engine>> /\ pc[c] = "reading"
      BY <1>11 DEF TakeEvent, slots, owner
    <2>2. CASE \E e \in IF eventPool # {} THEN eventPool ELSE Events \ created :
                   /\ eventPool' = eventPool \ {e} /\ created' = created \cup {e}
                   /\ event' = [event EXCEPT ![c] = e] /\ pc' = [pc EXCEPT ![c] = "record"]
                   /\ UNCHANGED failures
      <3>1. PICK e \in Events : /\ e \in eventPool \/ e \notin created
                                /\ eventPool' = eventPool \ {e} /\ created' = created \cup {e}
                                /\ event' = [event EXCEPT ![c] = e] /\ pc' = [pc EXCEPT ![c] = "record"]
        BY <1>1, <2>2
      <3>2. e # NoEvent
        BY Constants
      <3>3. e \notin waits /\ (\A s \in Slots : e \notin releases[s]) /\ \A d \in Consumers : event[d] # e
        BY <1>1, <1>2, <3>1, <3>2 DEF Homes
      <3>4. /\ event'[c] = e /\ \A d \in Consumers \ {c} : event'[d] = event[d] /\ pc'[d] = pc[d]
            /\ pc'[c] = "record"
        BY <1>1, <3>1
      <3>5. \A e1 \in created' : \/ e1 \in eventPool' \/ e1 \in waits' \/ \E t \in Slots : e1 \in releases'[t]
                                 \/ \E d \in Consumers : event'[d] = e1
        <4>1. event[c] = NoEvent /\ NoEvent \notin created
          BY <1>1, <1>2, <2>1, Constants DEF Homes
        <4>. QED BY <1>2, <2>1, <3>1, <3>4, <4>1 DEF Homes
      <3>6. eventPool' \cap waits' = {}
        BY <1>2, <2>1, <3>1 DEF Homes
      <3>7. ASSUME NEW t \in Slots
            PROVE  /\ releases'[t] \cap eventPool' = {} /\ releases'[t] \cap waits' = {}
                   /\ \A u \in Slots : u # t => releases'[t] \cap releases'[u] = {}
        BY <1>2, <2>1, <3>1 DEF Homes
      <3>8. ASSUME NEW d \in Consumers, event'[d] # NoEvent
            PROVE  /\ event'[d] \notin eventPool' /\ event'[d] \notin waits'
                   /\ \A t \in Slots : event'[d] \notin releases'[t]
                   /\ \A b \in Consumers : event'[b] = event'[d] => b = d
        BY <1>2, <2>1, <3>1, <3>3, <3>4, <3>8 DEF Homes
      <3>. QED BY <1>2, <2>1, <3>2, <3>4, <3>5, <3>6, <3>7, <3>8 DEF Homes
    <2>3. CASE pc' = [pc EXCEPT ![c] = "synchronize"] /\ UNCHANGED <<events, event>>
      BY <1>1, <1>2, <2>1, <2>3 DEF Homes, events
    <2>. QED BY <1>11, <2>2, <2>3 DEF TakeEvent
  <1>12. ASSUME NEW c \in Consumers, Record(c) PROVE Homes'
    <2>1. Same /\ UNCHANGED engine /\ pc[c] = "record" /\ \E p \in {"push", "synchronize"} : pc' = [pc EXCEPT ![c] = p]
      BY <1>12 DEF Record, events, slots, owner
    <2>. QED BY <1>1, <1>2, <2>1 DEF Homes
  <1>13. ASSUME NEW c \in Consumers, Synchronize(c) PROVE Homes'
    <2>1. /\ eventPool' = eventPool \cup ({event[c]} \ {NoEvent})
          /\ event' = [event EXCEPT ![c] = NoEvent] /\ pc' = [pc EXCEPT ![c] = "unpin"]
          /\ UNCHANGED <<created, releases, waits, engine>>
      BY <1>13 DEF Synchronize, slots, owner
    <2>. QED BY <1>1, <1>2, <2>1 DEF Homes
  <1>14. ASSUME NEW c \in Consumers, Push(c) PROVE Homes'
    <2>1. PICK s \in Slots : s = lease[c]
      BY <1>3, <1>14 DEF Push
    <2>2. PICK S \in SUBSET releases[s] :
             /\ eventPool' = eventPool \cup S
             /\ releases' = [releases EXCEPT ![s] = (releases[s] \ S) \cup {event[c]}]
      BY <1>14, <2>1 DEF Push
    <2>3. /\ event' = [event EXCEPT ![c] = NoEvent] /\ pc' = [pc EXCEPT ![c] = "unpin"]
          /\ UNCHANGED <<created, waits, engine>> /\ event[c] # NoEvent /\ event[c] \in created
      BY <1>1, <1>2, <1>14 DEF Push, owner, Homes
    <2>4. /\ releases'[s] = (releases[s] \ S) \cup {event[c]} /\ \A t \in Slots \ {s} : releases'[t] = releases[t]
          /\ event'[c] = NoEvent /\ \A d \in Consumers \ {c} : event'[d] = event[d] /\ pc'[d] = pc[d]
          /\ pc'[c] = "unpin"
      BY <1>1, <2>2, <2>3
    <2>5. \A e \in created' : \/ e \in eventPool' \/ e \in waits' \/ \E t \in Slots : e \in releases'[t]
                              \/ \E d \in Consumers : event'[d] = e
      BY <1>2, <2>2, <2>3, <2>4 DEF Homes
    <2>6. eventPool' \cap waits' = {}
      BY <1>2, <2>2, <2>3 DEF Homes
    <2>7. ASSUME NEW t \in Slots
          PROVE  /\ releases'[t] \cap eventPool' = {} /\ releases'[t] \cap waits' = {}
                 /\ \A u \in Slots : u # t => releases'[t] \cap releases'[u] = {}
      BY <1>2, <2>2, <2>3, <2>4 DEF Homes
    <2>8. ASSUME NEW d \in Consumers, event'[d] # NoEvent
          PROVE  /\ event'[d] \notin eventPool' /\ event'[d] \notin waits'
                 /\ \A t \in Slots : event'[d] \notin releases'[t]
                 /\ \A b \in Consumers : event'[b] = event'[d] => b = d
      BY <1>2, <2>2, <2>3, <2>4, <2>8 DEF Homes
    <2>. QED BY <1>2, <2>3, <2>4, <2>5, <2>6, <2>7, <2>8 DEF Homes
  <1>15. ASSUME NEW c \in Consumers, Release(c) PROVE Homes'
    BY <1>5, <1>15 DEF Release, events, slots, owner
  <1>16. ASSUME NEW c \in Consumers, Unpin(c) PROVE Homes'
    BY <1>5, <1>16 DEF Unpin, events, owner
  <1>17. ASSUME NEW s \in Slots, Reserve(s) PROVE Homes'
    <2>1. /\ waits' = releases[s] /\ releases' = [releases EXCEPT ![s] = {}]
          /\ engine' = [phase |-> IF releases[s] = {} THEN "copy" ELSE "order", slot |-> s]
          /\ UNCHANGED <<created, eventPool, event, pc>> /\ engine.phase = "free"
      BY <1>17 DEF Reserve, events, consumer, NoOwner
    <2>2. waits = {}
      BY <1>2, <2>1 DEF Homes
    <2>3. releases'[s] = {} /\ \A t \in Slots \ {s} : releases'[t] = releases[t]
      BY <1>1, <2>1
    <2>. QED BY <1>2, <2>1, <2>2, <2>3 DEF Homes
  <1>18. CASE Order
    <2>1. Same /\ pc' = pc /\ engine'.phase = "recycle"
      BY <1>1, <1>18 DEF Order, events, slots, consumer
    <2>. QED BY <1>4, <2>1
  <1>19. CASE Recycle
    <2>1. /\ eventPool' = eventPool \cup waits /\ waits' = {}
          /\ UNCHANGED <<created, releases, event, pc>>
      BY <1>19 DEF Recycle, slots, consumer
    <2>. QED BY <1>1, <1>2, <2>1 DEF Homes
  <1>20. ASSUME NEW l \in Lenses, CopyLens(l) PROVE Homes'
    BY <1>4, <1>20 DEF CopyLens, events, consumer
  <1>21. CASE Settle
    <2>1. waits = {}
      BY <1>2, <1>21 DEF Settle, Homes
    <2>. QED BY <1>4, <1>21, <2>1 DEF Settle, events, consumer
  <1>22. ASSUME NEW S \in SUBSET Slots, DetachSlots(S) PROVE Homes'
    <2>1. /\ created' = created \ UNION {releases[s] : s \in S}
          /\ releases' = [s \in Slots |-> IF s \in S THEN {} ELSE releases[s]]
          /\ UNCHANGED <<eventPool, waits, engine, event, pc>>
      BY <1>22 DEF DetachSlots, owner, consumer
    <2>2. \A s \in Slots : releases'[s] = IF s \in S THEN {} ELSE releases[s]
      BY <2>1
    <2>3. \A e \in created' : \/ e \in eventPool' \/ e \in waits' \/ \E t \in Slots : e \in releases'[t]
                              \/ \E d \in Consumers : event'[d] = e
      <3>1. \A e \in created' : e \in created /\ \A s \in S : e \notin releases[s]
        BY <2>1
      <3>. QED BY <1>2, <2>1, <2>2, <3>1 DEF Homes
    <2>. QED BY <1>2, <2>1, <2>2, <2>3 DEF Homes
  <1>23. CASE Trim
    <2>1. PICK S \in SUBSET {s \in Slots : base[s] # NoMemory /\ pins[s] = 0 /\ ~writing[s]} : DetachSlots(S)
      BY <1>23 DEF Trim
    <2>. QED BY <1>22, <2>1
  <1>24. CASE DestroyStore
    <2>1. DetachSlots({s \in Slots : base[s] # NoMemory})
      BY <1>24 DEF DestroyStore
    <2>. QED BY <1>22, <2>1
  <1>25. CASE Free \/ Close
    BY <1>4, <1>25 DEF Free, Close, events, slots, owner, consumer
  <1>27. CASE Gone \/ UNCHANGED vars
    BY <1>4, <1>27 DEF Gone, vars, gpu, events, slots, owner, consumer, bounds
  <1>. QED BY <1>7, <1>8, <1>9, <1>10, <1>11, <1>12, <1>13, <1>14, <1>15, <1>16, <1>17, <1>18, <1>19, <1>20, <1>21, <1>23,
              <1>24, <1>25, <1>27 DEF Next, Queues

-----------------------------------------------------------------------------
(* The leases. *)

\* A slot without pins is not leased.
LEMMA NotLeased ==
  ASSUME Leases, NEW s \in Slots, pins[s] = 0
  PROVE  \A c \in Consumers : lease[c] # s
  <1>1. IsFiniteSet({c \in Consumers : lease[c] = s})
    BY ConsumersAssumption, FS_Subset
  <1>2. Cardinality({c \in Consumers : lease[c] = s}) = 0
    BY DEF Leases
  <1>3. {c \in Consumers : lease[c] = s} = {}
    BY <1>1, <1>2, FS_EmptySet
  <1>. QED BY <1>3

\* The pins count the leases.
Counted == \A s \in Slots : pins[s] = Cardinality({c \in Consumers : lease[c] = s})

\* The pins of a slot go on counting its leases.
LEMMA CountedStep == ASSUME SlotInv, [Next]_vars PROVE Counted'
  <1>1. /\ pins \in [Slots -> Nat] /\ lease \in [Consumers -> Slots \cup {NoSlot}] /\ Counted
        /\ \A c \in Consumers : pc[c] = "idle" <=> lease[c] = NoSlot
    BY DEF SlotInv, TypeOK, Leases, Counted
  <1>2. \A s \in Slots : IsFiniteSet({c \in Consumers : lease[c] = s})
    BY ConsumersAssumption, FS_Subset
  <1>3. ASSUME UNCHANGED <<pins, lease>> PROVE Counted'
    BY <1>1, <1>3 DEF Counted
  <1>4. ASSUME NEW c \in Consumers, NEW s \in Slots, Pin(c, s) PROVE Counted'
    <2>1. pins' = [pins EXCEPT ![s] = @ + 1] /\ lease' = [lease EXCEPT ![c] = s] /\ lease[c] = NoSlot
      BY <1>1, <1>4 DEF Pin
    <2>2. ASSUME NEW t \in Slots PROVE pins'[t] = Cardinality({d \in Consumers : lease'[d] = t})
      <3>1. CASE t = s
        <4>1. {d \in Consumers : lease'[d] = s} = {d \in Consumers : lease[d] = s} \cup {c}
          BY <1>1, <2>1
        <4>2. c \notin {d \in Consumers : lease[d] = s}
          BY <2>1, Constants
        <4>3. Cardinality({d \in Consumers : lease[d] = s} \cup {c}) = Cardinality({d \in Consumers : lease[d] = s}) + 1
          BY <1>2, <4>2, FS_AddElement
        <4>. QED BY <1>1, <2>1, <3>1, <4>1, <4>3 DEF Counted
      <3>2. CASE t # s
        <4>1. {d \in Consumers : lease'[d] = t} = {d \in Consumers : lease[d] = t}
          BY <1>1, <2>1, <3>2, Constants
        <4>. QED BY <1>1, <2>1, <3>2, <4>1 DEF Counted
      <3>. QED BY <3>1, <3>2
    <2>. QED BY <2>2 DEF Counted
  <1>5. ASSUME NEW c \in Consumers, Unpin(c) PROVE Counted'
    <2>1. PICK s \in Slots : s = lease[c]
      BY <1>1, <1>5 DEF Unpin
    <2>2. pins' = [pins EXCEPT ![s] = @ - 1] /\ lease' = [lease EXCEPT ![c] = NoSlot]
      BY <1>5, <2>1 DEF Unpin
    <2>3. ASSUME NEW t \in Slots PROVE pins'[t] = Cardinality({d \in Consumers : lease'[d] = t})
      <3>1. CASE t = s
        <4>1. {d \in Consumers : lease'[d] = s} = {d \in Consumers : lease[d] = s} \ {c}
          BY <1>1, <2>2, Constants
        <4>2. c \in {d \in Consumers : lease[d] = s}
          BY <2>1
        <4>3. Cardinality({d \in Consumers : lease[d] = s} \ {c}) = Cardinality({d \in Consumers : lease[d] = s}) - 1
          BY <1>2, <4>2, FS_RemoveElement
        <4>. QED BY <1>1, <2>2, <3>1, <4>1, <4>3 DEF Counted
      <3>2. CASE t # s
        <4>1. {d \in Consumers : lease'[d] = t} = {d \in Consumers : lease[d] = t}
          BY <1>1, <2>1, <2>2, <3>2, Constants
        <4>. QED BY <1>1, <2>2, <3>2, <4>1 DEF Counted
      <3>. QED BY <3>1, <3>2
    <2>. QED BY <2>3 DEF Counted
  <1>6. \/ UNCHANGED <<pins, lease>>
        \/ \E c \in Consumers : (\E s \in Slots : Pin(c, s)) \/ Unpin(c)
    BY DEF Next, vars, slots, consumer, Complete, Confirm, Launch, TakeEvent, Record, Synchronize, Push, Release, Reserve,
           Order, Recycle, CopyLens, Settle, DetachSlots, Trim, Free, Close, DestroyStore, Gone
  <1>. QED BY <1>3, <1>4, <1>5, <1>6

\* A lease and a refill exclude each other, and both find memory.
LEMMA LeasesStep == ASSUME SlotInv, [Next]_vars PROVE Leases'
  <1>1. /\ base \in [Slots -> Memory \cup {NoMemory}] /\ releases \in [Slots -> SUBSET created]
        /\ writing \in [Slots -> BOOLEAN] /\ published \in [Slots -> BOOLEAN] /\ readyConfirmed \in [Slots -> BOOLEAN]
        /\ pc \in [Consumers -> {"idle", "pinned", "leased", "reading", "record", "synchronize", "push", "unpin"}]
        /\ lease \in [Consumers -> Slots \cup {NoSlot}] /\ badDecodes \in Nat
        /\ lens \in [Lenses -> {"todo", "copied", "failed"}]
        /\ engine \in [phase : {"free", "order", "recycle", "copy"}, slot : Slots \cup {NoSlot}]
    BY StreamAssumption DEF SlotInv, TypeOK
  <1>2. Leases
    BY DEF SlotInv
  <1>3. \A c \in Consumers : pc[c] # "idle" => lease[c] \in Slots
    BY <1>1, <1>2 DEF Leases
  <1>. DEFINE Rest == \A s \in Slots : pins'[s] = Cardinality({c \in Consumers : lease'[c] = s})
  <1>4. Rest
    BY CountedStep DEF Counted
  <1>. HIDE DEF Rest
  <1>. DEFINE Readers == UNCHANGED <<pc, lease>>
              Fills == UNCHANGED <<writing, published, readyConfirmed, base>>
              Engine == UNCHANGED <<engine, lens, badDecodes, closed>>
  <1>5. ASSUME Readers, Fills, releases' = releases, Engine PROVE Leases'
    BY <1>2, <1>4, <1>5 DEF Leases, Rest
  <1>6. ASSUME NEW c \in Consumers, NEW p \in {"reading", "record", "synchronize", "push", "unpin"},
               Fills, releases' = releases, Engine, lease' = lease, pc' = [pc EXCEPT ![c] = p], pc[c] \notin {"idle", "pinned"}
        PROVE  Leases'
    <2>1. pc'[c] = p /\ \A d \in Consumers \ {c} : pc'[d] = pc[d]
      BY <1>1, <1>6
    <2>2. lease[c] # NoSlot /\ readyConfirmed[lease[c]]
      BY <1>2, <1>6 DEF Leases
    <2>. QED BY <1>2, <1>4, <1>6, <2>1, <2>2 DEF Leases, Rest
  <1>7. ASSUME NEW q \in Queues, Complete(q) PROVE Leases'
    BY <1>5, <1>7 DEF Complete, owner, consumer, bounds
  <1>8. ASSUME NEW c \in Consumers, NEW s \in Slots, Pin(c, s) PROVE Leases'
    <2>1. published[s] /\ lease' = [lease EXCEPT ![c] = s] /\ pc' = [pc EXCEPT ![c] = "pinned"] /\ Fills /\ Engine /\ releases' = releases
      BY <1>8 DEF Pin, owner, bounds
    <2>2. /\ lease'[c] = s /\ pc'[c] = "pinned" /\ s # NoSlot
          /\ \A d \in Consumers \ {c} : lease'[d] = lease[d] /\ pc'[d] = pc[d]
      BY <1>1, <2>1, Constants
    <2>. QED BY <1>2, <1>4, <2>1, <2>2 DEF Leases, Rest
  <1>9. ASSUME NEW c \in Consumers, Confirm(c) PROVE Leases'
    <2>1. /\ pc' = [pc EXCEPT ![c] = "leased"] /\ pc[c] = "pinned" /\ lease' = lease /\ Engine /\ releases' = releases
          /\ UNCHANGED <<writing, published, base>>
      BY <1>9 DEF Confirm, owner, bounds
    <2>2. PICK s \in Slots : s = lease[c]
      BY <1>3, <2>1
    <2>3. readyConfirmed' = [readyConfirmed EXCEPT ![s] = TRUE]
      BY <1>9, <2>2 DEF Confirm
    <2>4. /\ pc'[c] = "leased" /\ \A d \in Consumers \ {c} : pc'[d] = pc[d]
          /\ readyConfirmed'[s] /\ \A t \in Slots : readyConfirmed[t] => readyConfirmed'[t]
      BY <1>1, <2>1, <2>3
    <2>5. \A d \in Consumers : pc'[d] \notin {"idle", "pinned"} => readyConfirmed'[lease'[d]]
      <3>1. \A d \in Consumers \ {c} : pc[d] \notin {"idle", "pinned"} => lease[d] \in Slots /\ readyConfirmed[lease[d]]
        BY <1>2, <1>3 DEF Leases
      <3>2. \A d \in Consumers \ {c} : pc'[d] \notin {"idle", "pinned"} => readyConfirmed'[lease[d]]
        BY <2>4, <3>1
      <3>3. readyConfirmed'[lease[c]]
        BY <2>2, <2>4
      <3>4. \A d \in Consumers : pc'[d] \notin {"idle", "pinned"} => readyConfirmed'[lease[d]]
        BY <3>2, <3>3
      <3>. QED BY <2>1, <3>4
    <2>6. \A d \in Consumers : lease'[d] = NoSlot <=> pc'[d] = "idle"
      BY <1>2, <2>1, <2>4 DEF Leases
    <2>7. \A t \in Slots : writing'[t] => ~readyConfirmed'[t]
      <3>1. ~writing[s] /\ \A t \in Slots \ {s} : readyConfirmed'[t] = readyConfirmed[t]
        BY <1>1, <1>2, <2>1, <2>2, <2>3, Constants DEF Leases
      <3>. QED BY <1>2, <2>1, <3>1 DEF Leases
    <2>. QED BY <1>2, <1>4, <2>1, <2>5, <2>6, <2>7 DEF Leases, Rest
  <1>10. ASSUME NEW c \in Consumers, Launch(c) PROVE Leases'
    BY <1>6, <1>10 DEF Launch, slots, owner, bounds
  <1>11. ASSUME NEW c \in Consumers, TakeEvent(c) PROVE Leases'
    <2>1. \E p \in {"record", "synchronize"} : pc' = [pc EXCEPT ![c] = p]
      BY <1>11 DEF TakeEvent
    <2>. QED BY <1>6, <1>11, <2>1 DEF TakeEvent, slots, owner
  <1>12. ASSUME NEW c \in Consumers, Record(c) PROVE Leases'
    <2>1. \E p \in {"push", "synchronize"} : pc' = [pc EXCEPT ![c] = p]
      BY <1>12 DEF Record
    <2>. QED BY <1>6, <1>12, <2>1 DEF Record, slots, owner
  <1>13. ASSUME NEW c \in Consumers, Synchronize(c) PROVE Leases'
    BY <1>6, <1>13 DEF Synchronize, slots, owner, bounds
  <1>14. ASSUME NEW c \in Consumers, Push(c) PROVE Leases'
    <2>1. PICK s \in Slots : s = lease[c]
      BY <1>3, <1>14 DEF Push
    <2>2. ~writing[s]
      <3>1. lease[c] # NoSlot
        BY <2>1, Constants
      <3>. QED BY <1>2, <2>1, <3>1 DEF Leases
    <2>3. \A t \in Slots \ {s} : releases'[t] = releases[t]
      BY <1>1, <1>14, <2>1 DEF Push
    <2>4. pc' = [pc EXCEPT ![c] = "unpin"] /\ pc[c] = "push" /\ lease' = lease /\ Engine /\ Fills
      BY <1>14 DEF Push, owner, bounds
    <2>5. \A t \in Slots : writing'[t] => base'[t] # NoMemory /\ releases'[t] = {} /\ ~readyConfirmed'[t]
      BY <1>2, <2>2, <2>3, <2>4 DEF Leases
    <2>6. lease[c] # NoSlot /\ readyConfirmed[lease[c]]
      BY <1>2, <2>4 DEF Leases
    <2>7. pc'[c] = "unpin" /\ \A d \in Consumers \ {c} : pc'[d] = pc[d]
      BY <1>1, <2>4
    <2>. QED BY <1>2, <1>4, <2>4, <2>5, <2>6, <2>7 DEF Leases, Rest
  <1>15. ASSUME NEW c \in Consumers, Release(c) PROVE Leases'
    <2>1. pc[c] \notin {"idle", "pinned"}
      BY <1>15 DEF Release
    <2>. QED BY <1>6, <1>15, <2>1 DEF Release, slots, owner, bounds
  <1>16. ASSUME NEW c \in Consumers, Unpin(c) PROVE Leases'
    <2>1. /\ lease' = [lease EXCEPT ![c] = NoSlot] /\ pc' = [pc EXCEPT ![c] = "idle"] /\ Fills /\ Engine /\ releases' = releases
      BY <1>16 DEF Unpin, owner, bounds
    <2>2. /\ lease'[c] = NoSlot /\ pc'[c] = "idle"
          /\ \A d \in Consumers \ {c} : lease'[d] = lease[d] /\ pc'[d] = pc[d]
      BY <1>1, <2>1
    <2>. QED BY <1>2, <1>4, <2>1, <2>2 DEF Leases, Rest
  <1>17. ASSUME NEW s \in Slots, Reserve(s) PROVE Leases'
    <2>1. \A c \in Consumers : lease[c] # s
      BY <1>2, <1>17, NotLeased DEF Reserve
    <2>2. /\ writing' = [writing EXCEPT ![s] = TRUE] /\ published' = [published EXCEPT ![s] = FALSE]
          /\ readyConfirmed' = [readyConfirmed EXCEPT ![s] = FALSE] /\ releases' = [releases EXCEPT ![s] = {}]
          /\ lens' = Todo /\ engine.slot = NoSlot /\ ~closed /\ UNCHANGED <<closed, badDecodes>> /\ Readers
      BY <1>17 DEF Reserve, consumer, NoOwner
    <2>3. engine'.slot = s /\ engine'.phase # "free"
      BY <1>17 DEF Reserve
    <2>4. base'[s] # NoMemory /\ \A t \in Slots \ {s} : base'[t] = base[t]
      <3>1. CASE base' = base /\ base[s] # NoMemory
        BY <3>1
      <3>2. CASE \E m \in Memory : base' = [base EXCEPT ![s] = m]
        BY <1>1, <3>2, Constants
      <3>. QED BY <1>17, <3>1, <3>2 DEF Reserve
    <2>5. \A l \in Lenses : lens'[l] = "todo"
      BY <2>2 DEF Todo
    <2>6. \A c \in Consumers : lease[c] # NoSlot => lease[c] \in Slots \ {s}
      BY <1>1, <2>1
    <2>7. \A t \in Slots \ {s} : /\ writing'[t] = writing[t] /\ published'[t] = published[t]
                                 /\ readyConfirmed'[t] = readyConfirmed[t] /\ releases'[t] = releases[t]
      BY <1>1, <2>2
    <2>8. writing'[s] /\ ~published'[s] /\ releases'[s] = {} /\ ~readyConfirmed'[s]
      BY <1>1, <2>2
    <2>9. \A t \in Slots : t # NoSlot
      BY Constants
    <2>10. \A t \in Slots : writing'[t] <=> engine'.slot = t
      BY <1>2, <2>2, <2>3, <2>7, <2>8, <2>9 DEF Leases
    <2>11. \A t \in Slots : /\ published'[t] => base'[t] # NoMemory /\ ~writing'[t]
                            /\ writing'[t] => base'[t] # NoMemory /\ releases'[t] = {} /\ ~readyConfirmed'[t]
      BY <1>2, <2>4, <2>7, <2>8 DEF Leases
    <2>12. \A c \in Consumers : /\ lease'[c] # NoSlot => published'[lease'[c]]
                                /\ pc'[c] \notin {"idle", "pinned"} => readyConfirmed'[lease'[c]]
      BY <1>2, <2>2, <2>6, <2>7 DEF Leases
    <2>13. \A c \in Consumers : lease'[c] = NoSlot <=> pc'[c] = "idle"
      BY <1>2, <2>2 DEF Leases
    <2>. QED BY <1>4, <2>2, <2>3, <2>5, <2>9, <2>10, <2>11, <2>12, <2>13 DEF Leases, Rest
  <1>18. CASE Order \/ Recycle
    <2>1. /\ engine.phase \in {"order", "recycle"} /\ engine'.phase \in {"recycle", "copy"} /\ engine'.slot = engine.slot
          /\ Readers /\ Fills /\ UNCHANGED <<lens, badDecodes, closed, releases>>
      BY <1>1, <1>18 DEF Order, Recycle, slots, consumer, bounds
    <2>. QED BY <1>2, <1>4, <2>1 DEF Leases, Rest
  <1>20. ASSUME NEW l \in Lenses, CopyLens(l) PROVE Leases'
    <2>1. engine.phase = "copy" /\ Readers /\ Fills /\ UNCHANGED <<engine, closed, releases>>
      BY <1>20 DEF CopyLens, consumer
    <2>2. \A k \in Lenses : lens'[k] = "failed" => badDecodes' > 0
      <3>1. BadDecode(l) => badDecodes' > 0
        BY <1>1 DEF BadDecode
      <3>2. lens' = [lens EXCEPT ![l] = "copied"] /\ UNCHANGED badDecodes => \A k \in Lenses : lens'[k] = "failed" => badDecodes' > 0
        BY <1>1, <1>2 DEF Leases
      <3>. QED BY <1>20, <3>1, <3>2 DEF CopyLens
    <2>. QED BY <1>2, <1>4, <2>1, <2>2 DEF Leases, Rest
  <1>21. CASE Settle
    <2>1. PICK p \in BOOLEAN : p = BothLenses
      <3>1. BothLenses \in BOOLEAN
        BY DEF BothLenses
      <3>. QED BY <3>1
    <2>2. PICK s \in Slots : s = engine.slot
      BY <1>1, <1>2, <1>21 DEF Settle, Leases
    <2>3. /\ published' = [published EXCEPT ![s] = p] /\ writing' = [writing EXCEPT ![s] = FALSE]
          /\ engine' = NoOwner /\ lens' = Todo /\ Readers
          /\ UNCHANGED <<base, readyConfirmed, releases, closed, badDecodes>>
      BY <1>21, <2>1, <2>2 DEF Settle, consumer, bounds
    <2>4. \A c \in Consumers : lease[c] # s
      BY <1>2, <2>2, Constants DEF Leases
    <2>5. \A l \in Lenses : lens'[l] = "todo"
      BY <2>3 DEF Todo
    <2>6. \A t \in Slots \ {s} : writing'[t] = writing[t] /\ published'[t] = published[t] /\ ~writing[t]
      BY <1>1, <1>2, <2>2, <2>3 DEF Leases
    <2>7. ~writing'[s] /\ base[s] # NoMemory
      BY <1>1, <1>2, <2>2, <2>3 DEF Leases
    <2>8. engine'.slot = NoSlot /\ engine'.phase = "free"
      BY <2>3 DEF NoOwner
    <2>9. \A c \in Consumers : lease[c] # NoSlot => lease[c] \in Slots \ {s}
      BY <1>1, <2>4
    <2>10. \A t \in Slots : /\ ~writing'[t] /\ t # NoSlot
                            /\ published'[t] => base'[t] # NoMemory
      BY <1>2, <2>3, <2>6, <2>7, Constants DEF Leases
    <2>11. \A c \in Consumers : /\ lease'[c] # NoSlot => published'[lease'[c]]
                                /\ pc'[c] \notin {"idle", "pinned"} => readyConfirmed'[lease'[c]]
      BY <1>2, <2>3, <2>6, <2>9 DEF Leases
    <2>. QED BY <1>2, <1>4, <2>3, <2>5, <2>8, <2>10, <2>11 DEF Leases, Rest
  <1>22. ASSUME NEW S \in SUBSET Slots, DetachSlots(S), \A s \in S : pins[s] = 0 /\ ~writing[s],
                closed' = closed
         PROVE  Leases'
    <2>1. /\ \A s \in Slots \ S : /\ base'[s] = base[s] /\ published'[s] = published[s] /\ readyConfirmed'[s] = readyConfirmed[s]
                                  /\ releases'[s] = releases[s]
          /\ \A s \in S : ~published'[s]
          /\ Readers /\ Engine /\ writing' = writing
      BY <1>1, <1>22 DEF DetachSlots, owner, consumer
    <2>2. \A c \in Consumers : lease[c] # NoSlot => lease[c] \in Slots \ S
      BY <1>1, <1>2, <1>22, NotLeased
    <2>. QED BY <1>2, <1>4, <1>22, <2>1, <2>2 DEF Leases, Rest
  <1>23. CASE Trim
    <2>1. PICK S \in SUBSET {s \in Slots : base[s] # NoMemory /\ pins[s] = 0 /\ ~writing[s]} : DetachSlots(S)
      BY <1>23 DEF Trim
    <2>. QED BY <1>22, <1>23, <2>1 DEF Trim
  <1>24. CASE DestroyStore
    <2>1. /\ DetachSlots({s \in Slots : base[s] # NoMemory}) /\ (\A s \in Slots : pins[s] = 0) /\ closed /\ UNCHANGED closed
      BY <1>24 DEF DestroyStore
    <2>2. \A s \in Slots : ~writing[s]
      BY <1>2, <2>1, Constants DEF Leases
    <2>. QED BY <1>22, <2>1, <2>2
  <1>25. CASE Free
    BY <1>5, <1>25 DEF Free, events, slots, owner, consumer, bounds
  <1>26. CASE Close
    <2>1. engine.slot = NoSlot /\ Readers /\ Fills /\ UNCHANGED <<engine, lens, badDecodes, releases>>
      BY <1>26 DEF Close, NoOwner, events, slots, owner, consumer, bounds
    <2>. QED BY <1>2, <1>4, <2>1 DEF Leases, Rest
  <1>27. CASE Gone \/ UNCHANGED vars
    BY <1>5, <1>27 DEF Gone, vars, gpu, events, slots, owner, consumer, bounds
  <1>. QED BY <1>7, <1>8, <1>9, <1>10, <1>11, <1>12, <1>13, <1>14, <1>15, <1>16, <1>17, <1>18, <1>20, <1>21, <1>23,
              <1>24, <1>25, <1>26, <1>27 DEF Next, Queues

-----------------------------------------------------------------------------
(* The memory. *)

\* What the memory that waits to be freed becomes when an operation is done.
LEMMA CompleteDying ==
  ASSUME TypeOK, NEW q \in Queues, Complete(q)
  PROVE  /\ \A d \in dying' : \E e \in dying : d.memory = e.memory /\ d.until = e.until \ {Id(q, 1)}
         /\ \A e \in dying : \E d \in dying' : d.memory = e.memory /\ d.until = e.until \ {Id(q, 1)}
         /\ \A e \in Events : covers'[e] = covers[e] \ {Id(q, 1)}
         /\ \A s \in Slots, l \in Lenses : ready'[s][l] = ready[s][l] \ {Id(q, 1)}
  <1>1. Head(ops[q]).id = Id(q, 1)
    BY QueueTyped DEF Complete, Id
  <1>2. PICK id : id = Id(q, 1)
    OBVIOUS
  <1>3. dying' = {[d EXCEPT !.until = @ \ {id}] : d \in dying}
        /\ covers' = [e \in Events |-> covers[e] \ {id}]
        /\ ready' = [s \in Slots |-> [l \in Lenses |-> ready[s][l] \ {id}]]
    BY <1>1, <1>2 DEF Complete
  <1>4. \A e \in dying : /\ e \in [memory : Memory, until : SUBSET Ids]
                         /\ [e EXCEPT !.until = @ \ {id}].memory = e.memory
                         /\ [e EXCEPT !.until = @ \ {id}].until = e.until \ {id}
    BY DEF TypeOK
  <1>5. /\ \A d \in dying' : \E e \in dying : d.memory = e.memory /\ d.until = e.until \ {id}
        /\ \A e \in dying : \E d \in dying' : d.memory = e.memory /\ d.until = e.until \ {id}
    BY <1>3, <1>4
  <1>6. \A e \in Events : covers'[e] = covers[e] \ {id}
    BY <1>3
  <1>7. \A s \in Slots, l \in Lenses : ready'[s][l] = ready[s][l] \ {id}
    BY <1>3
  <1>. QED BY <1>2, <1>5, <1>6, <1>7

\* A trim or the end of the store gives back slots that are neither leased nor filled.
LEMMA DetachCases ==
  ASSUME SlotInv, Trim \/ DestroyStore
  PROVE  \E S \in SUBSET Slots : /\ DetachSlots(S)
                                 /\ \A s \in S : /\ base[s] \in Memory /\ ~writing[s]
                                                 /\ \A c \in Consumers : lease[c] # s
  <1>1. base \in [Slots -> Memory \cup {NoMemory}] /\ Leases
    BY DEF SlotInv, TypeOK
  <1>2. CASE Trim
    <2>1. PICK S \in SUBSET {s \in Slots : base[s] # NoMemory /\ pins[s] = 0 /\ ~writing[s]} : DetachSlots(S)
      BY <1>2 DEF Trim
    <2>. QED BY <1>1, <2>1, NotLeased
  <1>3. CASE DestroyStore
    <2>1. /\ DetachSlots({s \in Slots : base[s] # NoMemory}) /\ (\A s \in Slots : pins[s] = 0) /\ closed
      BY <1>3 DEF DestroyStore
    <2>2. \A s \in Slots : ~writing[s]
      BY <1>1, <2>1, Constants DEF Leases
    <2>. QED BY <1>1, <2>1, <2>2, NotLeased
  <1>. QED BY <1>2, <1>3

\* What giving the memory of some slots back does.
LEMMA DetachIs ==
  ASSUME TypeOK, NEW S \in SUBSET Slots, DetachSlots(S), \A s \in S : base[s] \in Memory
  PROVE  /\ \A d \in dying : d \in dying'
         /\ \A d \in dying' : d \in dying \/ \E s \in S : d.memory = base[s] /\ d.until = Until(s)
         /\ \A s \in S : \E d \in dying' : d.memory = base[s] /\ d.until = Until(s)
         /\ \A s \in S : base'[s] = NoMemory /\ ~published'[s] /\ ~readyConfirmed'[s] /\ releases'[s] = {}
         /\ \A s \in Slots \ S : /\ base'[s] = base[s] /\ published'[s] = published[s] /\ ready'[s] = ready[s]
                                 /\ readyConfirmed'[s] = readyConfirmed[s] /\ releases'[s] = releases[s]
         /\ UNCHANGED <<ops, covers, pins, writing, engine, waits, lens, pc, lease, event, badDecodes>>
  <1>. DEFINE kept(s) == [memory |-> base[s], until |-> Until(s)]
  <1>1. dying' = dying \cup {kept(s) : s \in S} /\ \A s \in S : kept(s).memory = base[s] /\ kept(s).until = Until(s)
    BY DEF DetachSlots
  <1>. HIDE DEF kept
  <1>2. /\ \A d \in dying : d \in dying'
        /\ \A d \in dying' : d \in dying \/ \E s \in S : d.memory = base[s] /\ d.until = Until(s)
        /\ \A s \in S : \E d \in dying' : d.memory = base[s] /\ d.until = Until(s)
    BY <1>1
  <1>3. /\ base' = [s \in Slots |-> IF s \in S THEN NoMemory ELSE base[s]]
        /\ published' = [s \in Slots |-> s \notin S /\ published[s]]
        /\ readyConfirmed' = [s \in Slots |-> s \notin S /\ readyConfirmed[s]]
        /\ ready' = [s \in Slots |-> IF s \in S THEN NoReady ELSE ready[s]]
        /\ releases' = [s \in Slots |-> IF s \in S THEN {} ELSE releases[s]]
    BY DEF DetachSlots
  <1>4. \A s \in S : base'[s] = NoMemory /\ ~published'[s] /\ ~readyConfirmed'[s] /\ releases'[s] = {}
    BY <1>3
  <1>5. published \in [Slots -> BOOLEAN] /\ readyConfirmed \in [Slots -> BOOLEAN]
    BY DEF TypeOK
  <1>6. \A s \in Slots \ S : /\ base'[s] = base[s] /\ published'[s] = published[s] /\ ready'[s] = ready[s]
                              /\ readyConfirmed'[s] = readyConfirmed[s] /\ releases'[s] = releases[s]
    BY <1>3, <1>5
  <1>7. UNCHANGED <<ops, covers, pins, writing, engine, waits, lens, pc, lease, event, badDecodes>>
    BY DEF DetachSlots, gpu, owner, consumer
  <1>. QED BY <1>2, <1>4, <1>6, <1>7

\* Memory is added fresh, and leaves its slot when it is given back.
LEMMA ApartStep == ASSUME SlotInv, [Next]_vars PROVE Apart'
  <1>1. /\ base \in [Slots -> Memory \cup {NoMemory}] /\ dying \subseteq [memory : Memory, until : SUBSET Ids] /\ TypeOK
    BY DEF SlotInv, TypeOK
  <1>2. Apart
    BY DEF SlotInv
  <1>3. CASE UNCHANGED <<base, dying>>
    BY <1>2, <1>3 DEF Apart
  <1>4. ASSUME NEW q \in Queues, Complete(q) PROVE Apart'
    <2>1. base' = base /\ \A d \in dying' : \E e \in dying : d.memory = e.memory
      BY <1>1, <1>4, CompleteDying DEF Complete
    <2>. QED BY <1>2, <2>1 DEF Apart
  <1>5. ASSUME NEW s \in Slots, Reserve(s), base' # base PROVE Apart'
    <2>1. PICK m \in Memory \ ({base[t] : t \in Slots} \cup {d.memory : d \in dying}) : base' = [base EXCEPT ![s] = m]
      BY <1>5 DEF Reserve
    <2>2. (\A t \in Slots : base[t] # m) /\ \A d \in dying : d.memory # m
      BY <2>1
    <2>3. base'[s] = m /\ \A t \in Slots \ {s} : base'[t] = base[t]
      BY <1>1, <2>1
    <2>4. dying' = dying
      BY <1>5 DEF Reserve
    <2>. QED BY <1>2, <2>2, <2>3, <2>4 DEF Apart
  <1>6. CASE Trim \/ DestroyStore
    <2>1. PICK S \in SUBSET Slots : DetachSlots(S) /\ \A s \in S : base[s] \in Memory
      BY <1>6, DetachCases
    <2>2. /\ \A d \in dying' : d \in dying \/ \E s \in S : d.memory = base[s]
          /\ \A s \in S : base'[s] = NoMemory
          /\ \A s \in Slots \ S : base'[s] = base[s]
      BY <1>1, <2>1, DetachIs
    <2>3. ASSUME NEW d \in dying', NEW s \in Slots PROVE d.memory # base'[s]
      <3>1. d.memory \in Memory
        BY <1>1, <2>1, <2>2
      <3>2. CASE s \in S
        BY <2>2, <3>1, <3>2, Constants
      <3>3. CASE s \notin S /\ d \in dying
        BY <1>2, <2>2, <3>3 DEF Apart
      <3>4. CASE s \notin S /\ \E t \in S : d.memory = base[t]
        BY <1>2, <2>2, <3>1, <3>4, Constants DEF Apart
      <3>. QED BY <2>2, <3>2, <3>3, <3>4
    <2>4. \A s, t \in Slots : base'[s] = base'[t] /\ base'[s] # NoMemory => s = t
      BY <1>2, <2>2 DEF Apart
    <2>. QED BY <2>3, <2>4 DEF Apart
  <1>7. CASE Free
    <2>1. base' = base /\ dying' \subseteq dying
      BY <1>7 DEF Free, slots
    <2>. QED BY <1>2, <2>1 DEF Apart
  <1>8. \/ UNCHANGED <<base, dying>> \/ Trim \/ DestroyStore \/ Free
        \/ (\E q \in Queues : Complete(q)) \/ \E s \in Slots : Reserve(s) /\ (base' # base \/ UNCHANGED <<base, dying>>)
    <2>1. \A c \in Consumers : \A s \in Slots : Pin(c, s) => UNCHANGED <<base, dying>>
      BY DEF Pin
    <2>2. \A c \in Consumers :
              Confirm(c) \/ Launch(c) \/ TakeEvent(c) \/ Record(c) \/ Synchronize(c) \/ Push(c) \/ Release(c) \/ Unpin(c)
                  => UNCHANGED <<base, dying>>
      BY DEF slots, Confirm, Launch, TakeEvent, Record, Synchronize, Push, Release, Unpin
    <2>3. Order \/ Recycle \/ (\E l \in Lenses : CopyLens(l)) \/ Settle \/ Close \/ Gone \/ UNCHANGED vars
              => UNCHANGED <<base, dying>>
      BY DEF vars, slots, Order, Recycle, CopyLens, Settle, Close, Gone
    <2>4. \A s \in Slots : Reserve(s) => base' # base \/ UNCHANGED <<base, dying>>
      BY DEF Reserve
    <2>. QED BY <2>1, <2>2, <2>3, <2>4 DEF Next, Queues
  <1>. QED BY <1>3, <1>4, <1>5, <1>6, <1>7, <1>8

-----------------------------------------------------------------------------
(* What is pending. *)

\* What a launch, an order and a copy append, under an id that is free.
LEMMA LaunchAppends ==
  ASSUME SlotInv, NEW c \in Consumers, Launch(c)
  PROVE  \E o \in Operations : /\ Appended({c}, o) /\ o.id \notin PendingIds
                               /\ o.kind = "read" /\ o.memory = base[lease[c]] /\ o.memory \in Memory /\ o.need = {}
  <1>1. base[lease[c]] \in Memory /\ TypeOK /\ DOMAIN ops = Queues
    BY DEF SlotInv, TypeOK, Leases, Launch, Queues
  <1>2. FreeId \in Ids /\ FreeId \notin PendingIds
    BY <1>1, PendingAre DEF Launch
  <1>. DEFINE o == Op(FreeId, "read", base[lease[c]], {})
  <1>3. /\ o \in Operations /\ o.id = FreeId /\ o.kind = "read" /\ o.memory = base[lease[c]] /\ o.need = {}
    BY <1>1, <1>2 DEF Op, Operations
  <1>4. ops' = [ops EXCEPT ![c] = Append(@, o)]
    BY DEF Launch
  <1>. HIDE DEF o
  <1>5. Appended({c}, o)
    BY <1>1, <1>4 DEF Appended
  <1>. QED BY <1>1, <1>2, <1>3, <1>5

\* The copy streams wait for every event the owner was handed.
LEMMA OrderAppends ==
  ASSUME SlotInv, Order, ops' # ops
  PROVE  \E o \in Operations : /\ Appended(WaitingStreams, o) /\ o.id \notin PendingIds
                               /\ o.kind = "wait" /\ o.memory = NoMemory
                               /\ \A e \in waits : covers[e] \subseteq o.need
  <1>1. /\ covers \in [Events -> SUBSET Ids] /\ waits \subseteq Events /\ TypeOK /\ DOMAIN ops = Queues
    BY DEF SlotInv, TypeOK, Queues
  <1>. DEFINE need == UNION {covers[e] : e \in waits}
              o == Op(FreeId, "wait", NoMemory, need)
  <1>2. FreeId \in Ids /\ FreeId \notin PendingIds
    BY <1>1, PendingAre DEF Order
  <1>3. need \subseteq Ids /\ \A e \in waits : covers[e] \subseteq need
    BY <1>1
  <1>. HIDE DEF need
  <1>4. o \in Operations /\ o.id = FreeId /\ o.kind = "wait" /\ o.memory = NoMemory /\ o.need = need
    BY <1>2, <1>3 DEF Op, Operations
  <1>5. ops' = [q \in DOMAIN ops |-> IF q \in WaitingStreams THEN Append(ops[q], o) ELSE ops[q]]
    BY DEF Order, need
  <1>. HIDE DEF o
  <1>6. Appended(WaitingStreams, o)
    BY <1>1, <1>5 DEF Appended
  <1>. QED BY <1>2, <1>3, <1>4, <1>6

\* A copy goes to the memory of the slot that is filled; its lens's ready event covers it, or a decode has failed.
LEMMA CopyAppends ==
  ASSUME SlotInv, NEW l \in Lenses, CopyLens(l), ops' # ops
  PROVE  \E o \in Operations :
            /\ Appended({StreamOf[l]}, o) /\ o.id \notin PendingIds
            /\ o.kind = "copy" /\ o.memory = base[engine.slot] /\ o.memory \in Memory /\ o.need = {}
            /\ \/ o.id \in ready'[engine.slot][l] /\ badDecodes' = badDecodes /\ lens'[l] = "copied"
               \/ badDecodes' > 0 /\ ready' = ready /\ lens'[l] = "failed"
  <1>1. /\ base[engine.slot] \in Memory /\ TypeOK /\ DOMAIN ops = Queues /\ engine.slot \in Slots
        /\ ready \in [Slots -> [Lenses -> SUBSET Ids]] /\ badDecodes \in Nat
        /\ lens \in [Lenses -> {"todo", "copied", "failed"}]
    <2>1. TypeOK /\ Leases /\ engine.phase = "copy"
      BY DEF SlotInv, CopyLens
    <2>2. engine.slot \in Slots
      BY <2>1 DEF TypeOK, Leases
    <2>3. base[engine.slot] \in Memory
      BY <2>1, <2>2 DEF TypeOK, Leases
    <2>. QED BY <2>1, <2>2, <2>3, StreamAssumption DEF TypeOK, Queues
  <1>2. FreeIds # {} /\ FreeId \in Ids /\ FreeId \notin PendingIds
    BY <1>1, PendingAre DEF CopyLens
  <1>. DEFINE o == Op(FreeId, "copy", base[engine.slot], {})
              q == StreamOf[l]
  <1>3. o \in Operations /\ o.id = FreeId /\ o.kind = "copy" /\ o.memory = base[engine.slot] /\ o.need = {}
    BY <1>1, <1>2 DEF Op, Operations
  <1>4. /\ ops' = [ops EXCEPT ![q] = Append(@, o)]
        /\ \/ /\ ready' = [ready EXCEPT ![engine.slot][l] = PendingOn(q) \cup {FreeId}]
              /\ lens' = [lens EXCEPT ![l] = "copied"] /\ UNCHANGED badDecodes
           \/ BadDecode(l) /\ UNCHANGED ready
    BY DEF CopyLens
  <1>. HIDE DEF o
  <1>5. Appended({q}, o)
    BY <1>1, <1>4 DEF Appended
  <1>6. \/ o.id \in ready'[engine.slot][l] /\ badDecodes' = badDecodes /\ lens'[l] = "copied"
        \/ badDecodes' > 0 /\ ready' = ready /\ lens'[l] = "failed"
    <2>1. CASE BadDecode(l) /\ UNCHANGED ready
      BY <1>1, <2>1 DEF BadDecode
    <2>2. CASE /\ ready' = [ready EXCEPT ![engine.slot][l] = PendingOn(q) \cup {FreeId}]
               /\ lens' = [lens EXCEPT ![l] = "copied"] /\ UNCHANGED badDecodes
      BY <1>1, <1>3, <2>2
    <2>. QED BY <1>4, <2>1, <2>2
  <1>. QED BY <1>1, <1>2, <1>3, <1>5, <1>6

\* Nothing else touches the queues, except the driver.
LEMMA OpsCases ==
  ASSUME [Next]_vars
  PROVE  \/ UNCHANGED ops \/ (\E q \in Queues : Complete(q)) \/ (\E c \in Consumers : Launch(c))
         \/ (Order /\ ops' # ops) \/ (\E l \in Lenses : CopyLens(l) /\ ops' # ops)
  BY DEF Next, vars, gpu, Queues, Pin, Confirm, TakeEvent, Record, Synchronize, Push, Release, Unpin, Reserve,
         Recycle, Settle, DetachSlots, Trim, Free, Close, DestroyStore, Gone

\* Ids tell the pending reads and copies apart.
LEMMA PendingStep == ASSUME SlotInv, [Next]_vars PROVE Pending'
  <1>1. TypeOK /\ Pending
    BY DEF SlotInv
  <1>2. CASE UNCHANGED ops
    BY <1>1, <1>2 DEF Pending, Id, Kind, Of
  <1>3. ASSUME NEW q \in Queues, Complete(q) PROVE Pending'
    <2>1. \A r \in Queues : \A i \in DOMAIN ops'[r] :
             /\ Was(q, r, i) \in DOMAIN ops[r] /\ i \in Nat
             /\ ops'[r][i].id = Id(r, Was(q, r, i)) /\ ops'[r][i].kind = Kind(r, Was(q, r, i))
             /\ ops'[r][i].memory = Of(r, Was(q, r, i))
      BY <1>1, <1>3, CompleteOps
    <2>2. ASSUME NEW r \in Queues, NEW t \in Queues, NEW i \in DOMAIN ops'[r], NEW j \in DOMAIN ops'[t],
                 ops'[r][i].id = ops'[t][j].id, ops'[r][i].kind # "wait"
          PROVE  r = t /\ i = j
      <3>1. r = t /\ Was(q, r, i) = Was(q, t, j)
        BY <1>1, <2>1, <2>2 DEF Pending
      <3>2. i \in Nat /\ j \in Nat
        BY <2>1
      <3>. QED BY <3>1, <3>2 DEF Was
    <2>. HIDE DEF Was
    <2>3. \A r \in Queues : \A i \in DOMAIN ops'[r] :
             /\ ops'[r][i].kind = "copy" => ops'[r][i].memory \in Memory /\ \E l \in Lenses : r = StreamOf[l]
             /\ ops'[r][i].kind = "read" => ops'[r][i].memory \in Memory /\ r \in Consumers
             /\ ops'[r][i].kind = "wait" => ops'[r][i].memory = NoMemory
      BY <1>1, <2>1 DEF Pending
    <2>. QED BY <2>2, <2>3 DEF Pending, Id, Kind, Of
  <1>4. ASSUME NEW Q \in SUBSET Queues, NEW o \in Operations, Appended(Q, o),
               o.id \notin PendingIds, o.kind = "wait" \/ (\A q, r \in Q : q = r),
               /\ o.kind = "copy" => o.memory \in Memory /\ \A q \in Q : \E l \in Lenses : q = StreamOf[l]
               /\ o.kind = "read" => o.memory \in Memory /\ Q \subseteq Consumers
               /\ o.kind = "wait" => o.memory = NoMemory
        PROVE  Pending'
    <2>0. Appended(Q, o)
      BY <1>4
    <2>1. /\ \A r \in Queues \ Q : ops'[r] = ops[r]
          /\ \A r \in Queues : \A i \in DOMAIN ops[r] : i \in DOMAIN ops'[r] /\ ops'[r][i] = ops[r][i]
          /\ \A r \in Q : \A i \in DOMAIN ops'[r] :
                i \in DOMAIN ops[r] \/ (i = Len(ops[r]) + 1 /\ ops'[r][i] = o /\ i \notin DOMAIN ops[r])
      <3>1. \A r \in Queues \ Q : ops'[r] = ops[r]
        BY <1>1, <2>0, AppendedOps
      <3>2. \A r \in Queues : \A i \in DOMAIN ops[r] : i \in DOMAIN ops'[r] /\ ops'[r][i] = ops[r][i]
        BY <1>1, <2>0, AppendedOps
      <3>3. \A r \in Q : \A i \in DOMAIN ops'[r] :
               i \in DOMAIN ops[r] \/ (i = Len(ops[r]) + 1 /\ ops'[r][i] = o /\ i \notin DOMAIN ops[r])
        BY <1>1, <2>0, AppendedOps
      <3>. QED BY <3>1, <3>2, <3>3
    <2>2. ASSUME NEW r \in Queues, NEW i \in DOMAIN ops'[r]
          PROVE  \/ i \in DOMAIN ops[r] /\ ops'[r][i] = ops[r][i] /\ ops'[r][i].id \in PendingIds
                 \/ r \in Q /\ i = Len(ops[r]) + 1 /\ ops'[r][i] = o
      BY <1>1, <2>1, PendingAre DEF Id
    <2>3. ASSUME NEW r \in Queues, NEW t \in Queues, NEW i \in DOMAIN ops'[r], NEW j \in DOMAIN ops'[t],
                 ops'[r][i].id = ops'[t][j].id, ops'[r][i].kind # "wait"
          PROVE  r = t /\ i = j
      <3>1. CASE i \in DOMAIN ops[r] /\ ops'[r][i] = ops[r][i] /\ j \in DOMAIN ops[t] /\ ops'[t][j] = ops[t][j]
        BY <1>1, <2>3, <3>1 DEF Pending, Id, Kind
      <3>2. CASE r \in Q /\ i = Len(ops[r]) + 1 /\ ops'[r][i] = o /\ t \in Q /\ j = Len(ops[t]) + 1
        BY <1>4, <2>3, <3>2
      <3>3. CASE ops'[r][i] = o /\ ops'[t][j].id \in PendingIds
        BY <1>4, <2>3, <3>3
      <3>4. CASE ops'[t][j] = o /\ ops'[r][i].id \in PendingIds
        BY <1>4, <2>3, <3>4
      <3>. QED BY <2>2, <3>1, <3>2, <3>3, <3>4
    <2>4. \A r \in Queues : \A i \in DOMAIN ops'[r] :
             /\ ops'[r][i].kind = "copy" => ops'[r][i].memory \in Memory /\ \E l \in Lenses : r = StreamOf[l]
             /\ ops'[r][i].kind = "read" => ops'[r][i].memory \in Memory /\ r \in Consumers
             /\ ops'[r][i].kind = "wait" => ops'[r][i].memory = NoMemory
      BY <1>1, <1>4, <2>2 DEF Pending, Kind, Of
    <2>. QED BY <2>3, <2>4 DEF Pending, Id, Kind, Of
  <1>5. ASSUME NEW c \in Consumers, Launch(c) PROVE Pending'
    <2>1. PICK o \in Operations : Appended({c}, o) /\ o.id \notin PendingIds /\ o.kind = "read" /\ o.memory \in Memory
      BY <1>5, LaunchAppends
    <2>. QED BY <1>4, <2>1 DEF Queues
  <1>6. CASE Order /\ ops' # ops
    <2>1. PICK o \in Operations : /\ Appended(WaitingStreams, o) /\ o.id \notin PendingIds
                                  /\ o.kind = "wait" /\ o.memory = NoMemory
      BY <1>6, OrderAppends
    <2>2. WaitingStreams \subseteq Queues
      BY Constants DEF WaitingStreams
    <2>. QED BY <1>4, <2>1, <2>2
  <1>7. ASSUME NEW l \in Lenses, CopyLens(l), ops' # ops PROVE Pending'
    <2>1. PICK o \in Operations : /\ Appended({StreamOf[l]}, o) /\ o.id \notin PendingIds
                                  /\ o.kind = "copy" /\ o.memory \in Memory
      BY <1>7, CopyAppends
    <2>. QED BY <1>4, <2>1, Constants
  <1>. QED BY <1>2, <1>3, <1>5, <1>6, <1>7, OpsCases

\* A copy's slot is confirmed only when the copy is no longer pending.
LEMMA CopiesStep == ASSUME SlotInv, [Next]_vars PROVE Copies'
  <1>1. /\ TypeOK /\ Leases /\ Apart /\ Pending /\ Copies
        /\ base \in [Slots -> Memory \cup {NoMemory}] /\ ready \in [Slots -> [Lenses -> SUBSET Ids]]
        /\ writing \in [Slots -> BOOLEAN] /\ published \in [Slots -> BOOLEAN] /\ readyConfirmed \in [Slots -> BOOLEAN]
        /\ lens \in [Lenses -> {"todo", "copied", "failed"}]
        /\ lease \in [Consumers -> Slots \cup {NoSlot}] /\ engine.slot \in Slots \cup {NoSlot}
    BY DEF SlotInv, TypeOK
  <1>. DEFINE Kept(q, id, s) ==
                 /\ published'[s] => ~readyConfirmed'[s] /\ \E l \in Lenses : id \in ready'[s][l]
                 /\ writing'[s] => \/ \E l \in Lenses : lens'[l] = "copied" /\ id \in ready'[s][l]
                                   \/ \E l \in Lenses : lens'[l] # "copied" /\ q = StreamOf[l]
              Was1(q, id, s) ==
                 /\ published[s] => ~readyConfirmed[s] /\ \E l \in Lenses : id \in ready[s][l]
                 /\ writing[s] => \/ \E l \in Lenses : lens[l] = "copied" /\ id \in ready[s][l]
                                  \/ \E l \in Lenses : lens[l] # "copied" /\ q = StreamOf[l]
  <1>2. \A q \in Queues : \A i \in DOMAIN ops[q] : \A s \in Slots :
           (Kind(q, i) = "copy" /\ Of(q, i) = base[s]) => Was1(q, Id(q, i), s)
    BY <1>1 DEF Copies
  <1>3. ASSUME \A q \in Queues : \A i \in DOMAIN ops'[q] : \A s \in Slots :
                  (ops'[q][i].kind = "copy" /\ ops'[q][i].memory = base'[s]) => Kept(q, ops'[q][i].id, s)
        PROVE  Copies'
    BY <1>3 DEF Copies, Kind, Of, Id
  <1>. DEFINE Slot == UNCHANGED <<base, published, readyConfirmed, writing>>
  <1>4. ASSUME UNCHANGED <<ops, base, published, readyConfirmed, writing, ready, lens>> PROVE Copies'
    BY <1>1, <1>4 DEF Copies, Kind, Of, Id
  <1>5. ASSUME NEW p \in Queues, Complete(p) PROVE Copies'
    <2>1. Slot /\ lens' = lens
      BY <1>5 DEF Complete, owner
    <2>2. \A s \in Slots, l \in Lenses : ready'[s][l] = ready[s][l] \ {Id(p, 1)}
      BY <1>1, <1>5, CompleteDying
    <2>3. ASSUME NEW q \in Queues, NEW i \in DOMAIN ops'[q], NEW s \in Slots,
                 ops'[q][i].kind = "copy", ops'[q][i].memory = base'[s]
          PROVE  Kept(q, ops'[q][i].id, s)
      <3>1. PICK j \in DOMAIN ops[q] :
               /\ ~(q = p /\ j = 1) /\ 1 \in DOMAIN ops[p]
               /\ ops'[q][i].id = Id(q, j) /\ ops'[q][i].kind = Kind(q, j) /\ ops'[q][i].memory = Of(q, j)
        <4>1. 1 \in DOMAIN ops[p]
          BY <1>1, <1>5, CompleteOps
        <4>2. LET j == Was(p, q, i) IN
              /\ j \in DOMAIN ops[q] /\ ~(q = p /\ j = 1)
              /\ ops'[q][i].id = Id(q, j) /\ ops'[q][i].kind = Kind(q, j) /\ ops'[q][i].memory = Of(q, j)
          BY <1>1, <1>5, <2>3, CompleteOps
        <4>. QED BY <4>1, <4>2
      <3>2. Id(q, j) # Id(p, 1)
        BY <1>1, <2>3, <3>1 DEF Pending
      <3>3. Was1(q, Id(q, j), s)
        <4>1. Kind(q, j) = "copy" /\ Of(q, j) = base[s]
          BY <2>1, <2>3, <3>1
        <4>. HIDE DEF Was1
        <4>. QED BY <1>2, <4>1
      <3>4. \A l \in Lenses : Id(q, j) \in ready[s][l] => ops'[q][i].id \in ready'[s][l]
        BY <2>2, <3>1, <3>2
      <3>. QED BY <2>1, <3>3, <3>4
    <2>. QED BY <1>3, <2>3
  <1>6. ASSUME NEW Q \in SUBSET Queues, NEW o \in Operations, Appended(Q, o),
               Slot, \A s \in Slots : o.kind = "copy" /\ o.memory = base[s] => \A q \in Q : Kept(q, o.id, s),
               \A q \in Queues, i \in Ids, s \in Slots : i \in PendingOn(q) /\ Was1(q, i, s) => Kept(q, i, s)
        PROVE  Copies'
    <2>1. Appended(Q, o) /\ Q \in SUBSET Queues /\ o \in Operations
      BY <1>6
    <2>2. \A r \in Queues : \A i \in DOMAIN ops'[r] :
             \/ i \in DOMAIN ops[r] /\ ops'[r][i] = ops[r][i]
             \/ r \in Q /\ ops'[r][i] = o
      <3>1. TypeOK
        BY <1>1
      <3>2. \A r \in Queues : \A i \in DOMAIN ops'[r] :
               \/ i \in DOMAIN ops[r] /\ ops'[r][i] = ops[r][i]
               \/ r \in Q /\ i = Len(ops[r]) + 1 /\ ops'[r][i] = o /\ i \notin DOMAIN ops[r]
        BY <2>1, <3>1, AppendedAre, Zenon
      <3>. QED BY <3>2
    <2>3. ASSUME NEW q \in Queues, NEW i \in DOMAIN ops'[q], NEW s \in Slots,
                 ops'[q][i].kind = "copy", ops'[q][i].memory = base'[s]
          PROVE  Kept(q, ops'[q][i].id, s)
      <3>1. CASE i \in DOMAIN ops[q] /\ ops'[q][i] = ops[q][i]
        <4>1. Was1(q, Id(q, i), s) /\ ops'[q][i].id = Id(q, i)
          BY <1>2, <1>6, <2>3, <3>1 DEF Id, Kind, Of
        <4>2. Id(q, i) \in PendingOn(q) /\ Id(q, i) \in Ids
          BY <1>1, <3>1, PendingAre
        <4>. HIDE DEF Was1, Kept
        <4>. QED BY <1>6, <4>1, <4>2
      <3>2. CASE q \in Q /\ ops'[q][i] = o
        <4>. HIDE DEF Was1, Kept
        <4>. QED BY <1>6, <2>3, <3>2
      <3>. QED BY <2>2, <3>1, <3>2
    <2>. QED BY <1>3, <2>3
  <1>7. ASSUME NEW c \in Consumers, Launch(c) PROVE Copies'
    <2>1. PICK o \in Operations : Appended({c}, o) /\ o.kind = "read"
      BY <1>7, LaunchAppends
    <2>2. UNCHANGED <<base, published, readyConfirmed, writing, ready, lens>>
      BY <1>7 DEF Launch, slots, owner
    <2>. QED BY <1>6, <2>1, <2>2 DEF Queues
  <1>8. CASE Order /\ ops' # ops
    <2>1. PICK o \in Operations : Appended(WaitingStreams, o) /\ o.kind = "wait"
      BY <1>8, OrderAppends
    <2>2. UNCHANGED <<base, published, readyConfirmed, writing, ready, lens>> /\ WaitingStreams \subseteq Queues
      BY <1>8, Constants DEF Order, slots, WaitingStreams
    <2>. QED BY <1>6, <2>1, <2>2
  <1>9. ASSUME NEW c \in Consumers, Confirm(c) PROVE Copies'
    <2>1. PICK s \in Slots : s = lease[c] /\ published[s]
      BY <1>1, <1>9 DEF Confirm, Leases
    <2>2. /\ readyConfirmed' = [readyConfirmed EXCEPT ![s] = TRUE] /\ (readyConfirmed[s] \/ ready[s] = NoReady)
          /\ UNCHANGED <<ops, base, published, writing, ready, lens>>
      BY <1>9, <2>1 DEF Confirm, gpu, owner
    <2>3. \A q \in Queues : \A i \in DOMAIN ops[q] : ~(Kind(q, i) = "copy" /\ Of(q, i) = base[s])
      BY <1>2, <2>1, <2>2 DEF NoReady
    <2>4. \A t \in Slots \ {s} : readyConfirmed'[t] = readyConfirmed[t]
      BY <1>1, <2>2
    <2>5. ASSUME NEW q \in Queues, NEW i \in DOMAIN ops'[q], NEW t \in Slots,
                 ops'[q][i].kind = "copy", ops'[q][i].memory = base'[t]
          PROVE  Kept(q, ops'[q][i].id, t)
      <3>1. t # s /\ Was1(q, Id(q, i), t) /\ ops'[q][i].id = Id(q, i)
        BY <1>2, <2>2, <2>3, <2>5 DEF Id, Kind, Of
      <3>. QED BY <2>2, <2>4, <3>1
    <2>. QED BY <1>3, <2>5
  <1>10. ASSUME NEW s \in Slots, Reserve(s) PROVE Copies'
    <2>1. /\ ops' = ops /\ writing' = [writing EXCEPT ![s] = TRUE] /\ published' = [published EXCEPT ![s] = FALSE]
          /\ readyConfirmed' = [readyConfirmed EXCEPT ![s] = FALSE] /\ lens' = Todo /\ ready' = ready
          /\ engine.slot = NoSlot
      BY <1>10 DEF Reserve, gpu, NoOwner
    <2>2. \A t \in Slots \ {s} : base'[t] = base[t]
      BY <1>1, <1>10 DEF Reserve
    <2>3. /\ ~published'[s] /\ \A l \in Lenses : lens'[l] = "todo"
          /\ \A t \in Slots \ {s} : /\ published'[t] = published[t] /\ readyConfirmed'[t] = readyConfirmed[t] /\ ~writing'[t]
      BY <1>1, <2>1, Constants DEF Leases, Todo
    <2>4. ASSUME NEW q \in Queues, NEW i \in DOMAIN ops'[q], NEW t \in Slots,
                 ops'[q][i].kind = "copy", ops'[q][i].memory = base'[t]
          PROVE  Kept(q, ops'[q][i].id, t)
      <3>1. ops'[q][i].id = Id(q, i) /\ Kind(q, i) = "copy" /\ Of(q, i) = base'[t] /\ i \in DOMAIN ops[q]
        BY <2>1, <2>4 DEF Id, Kind, Of
      <3>2. CASE t = s
        <4>1. \E l \in Lenses : q = StreamOf[l]
          BY <1>1, <3>1 DEF Pending
        <4>. QED BY <2>3, <3>2, <4>1
      <3>3. CASE t # s
        <4>1. Was1(q, Id(q, i), t)
          BY <1>2, <2>2, <3>1, <3>3
        <4>. QED BY <2>1, <2>3, <3>1, <3>3, <4>1
      <3>. QED BY <3>2, <3>3
    <2>. QED BY <1>3, <2>4
  <1>11. ASSUME NEW l \in Lenses, CopyLens(l) PROVE Copies'
    <2>1. Slot /\ lens[l] = "todo" /\ engine.phase = "copy"
      BY <1>11 DEF CopyLens
    <2>2. PICK e \in Slots : e = engine.slot /\ writing[e]
      BY <1>1, <2>1, Constants DEF Leases
    <2>3. /\ ~published[e] /\ \A t \in Slots \ {e} : ~writing[t]
      BY <1>1, <2>2 DEF Leases
    <2>4. CASE ready' = ready /\ lens' = [lens EXCEPT ![l] = "failed"]
      <3>1. /\ \A k \in Lenses : lens[k] = "copied" => lens'[k] = "copied"
            /\ \A k \in Lenses : lens[k] # "copied" => lens'[k] # "copied"
            /\ lens'[l] # "copied"
        BY <1>1, <2>1, <2>4
      <3>2. \A q \in Queues, i \in Ids, s \in Slots : Was1(q, i, s) => Kept(q, i, s)
        BY <2>1, <2>4, <3>1
      <3>3. CASE ops' = ops
        <4>1. ASSUME NEW q \in Queues, NEW i \in DOMAIN ops'[q], NEW t \in Slots,
                     ops'[q][i].kind = "copy", ops'[q][i].memory = base'[t]
              PROVE  Kept(q, ops'[q][i].id, t)
          <5>1. Was1(q, Id(q, i), t) /\ ops'[q][i].id = Id(q, i) /\ Id(q, i) \in Ids
            BY <1>1, <1>2, <2>1, <3>3, <4>1, PendingAre DEF Id, Kind, Of
          <5>. HIDE DEF Was1, Kept
          <5>. QED BY <3>2, <5>1
        <4>. QED BY <1>3, <4>1
      <3>4. CASE ops' # ops
        <4>1. PICK o \in Operations : Appended({StreamOf[l]}, o) /\ o.memory = base[e] /\ o.memory \in Memory
          BY <1>11, <2>2, <3>4, CopyAppends
        <4>2. \A s \in Slots : o.memory = base[s] => Kept(StreamOf[l], o.id, s)
          <5>1. \A s \in Slots : o.memory = base[s] => s = e
            <6>1. e \in Slots /\ base[e] = o.memory /\ base[e] # NoMemory /\ Apart
              BY <1>1, <2>1, <4>1, Constants
            <6>. QED BY <6>1 DEF Apart
          <5>2. e \in Slots /\ published'[e] = published[e] /\ ~published[e]
            BY <2>1, <2>3
          <5>3. Kept(StreamOf[l], o.id, e)
            BY <3>1, <5>2
          <5>. HIDE DEF Kept
          <5>. QED BY <5>1, <5>3
        <4>3. Slot /\ StreamOf[l] \in Queues
          BY <2>1, Constants
        <4>. HIDE DEF Was1, Kept
        <4>. QED BY <1>6, <3>2, <4>1, <4>2, <4>3
      <3>. QED BY <3>3, <3>4
    <2>5. CASE /\ ready' = [ready EXCEPT ![e][l] = PendingOn(StreamOf[l]) \cup {FreeId}]
               /\ lens' = [lens EXCEPT ![l] = "copied"] /\ ops' # ops
      <3>1. PICK o \in Operations : /\ Appended({StreamOf[l]}, o) /\ o.memory = base[e] /\ o.memory \in Memory
                                    /\ o.id \in ready'[e][l] \/ lens'[l] = "failed"
        BY <1>11, <2>2, <2>5, CopyAppends
      <3>2. /\ lens'[l] = "copied" /\ \A k \in Lenses \ {l} : lens'[k] = lens[k]
            /\ \A i \in PendingOn(StreamOf[l]) : i \in ready'[e][l]
            /\ \A k \in Lenses \ {l} : ready'[e][k] = ready[e][k]
            /\ \A t \in Slots \ {e} : ready'[t] = ready[t]
        BY <1>1, <2>5
      <3>3. \A s \in Slots : o.memory = base[s] => Kept(StreamOf[l], o.id, s)
        <4>1. \A s \in Slots : o.memory = base[s] => s = e
          <5>1. o.memory = base[e] /\ base[e] # NoMemory
            BY <3>1, Constants
          <5>. QED BY <1>1, <5>1 DEF Apart
        <4>. QED BY <2>1, <2>3, <3>1, <3>2, <4>1
      <3>4. ASSUME NEW q \in Queues, NEW i \in PendingOn(q), NEW s \in Slots, Was1(q, i, s) PROVE Kept(q, i, s)
        <4>1. CASE s # e
          BY <2>1, <2>3, <3>2, <3>4, <4>1
        <4>2. CASE s = e
          <5>1. CASE \E k \in Lenses : lens[k] = "copied" /\ i \in ready[e][k]
            BY <2>1, <2>3, <3>2, <4>2, <5>1
          <5>2. CASE \E k \in Lenses : lens[k] # "copied" /\ q = StreamOf[k]
            <6>1. PICK k \in Lenses : lens[k] # "copied" /\ q = StreamOf[k]
              BY <5>2
            <6>2. CASE k = l
              BY <2>1, <2>3, <3>2, <4>2, <6>1, <6>2
            <6>3. CASE k # l
              BY <2>1, <2>3, <3>2, <4>2, <6>1, <6>3
            <6>. QED BY <6>2, <6>3
          <5>. QED BY <2>2, <3>4, <4>2, <5>1, <5>2
        <4>. QED BY <4>1, <4>2
      <3>5. Slot /\ StreamOf[l] \in Queues
        BY <2>1, Constants
      <3>. HIDE DEF Was1, Kept
      <3>. QED BY <1>6, <3>1, <3>3, <3>4, <3>5
    <2>6. CASE ops' = ops /\ lens' = [lens EXCEPT ![l] = "copied"]
      <3>1. DOMAIN ops = Queues /\ StreamOf[l] \in Queues /\ Len(ops[StreamOf[l]]) \in Nat /\ ops[StreamOf[l]] \in Seq(Operations)
        BY <1>1, Constants, QueueTyped DEF TypeOK, Queues
      <3>2. ops' = [ops EXCEPT ![StreamOf[l]] = Append(@, Op(FreeId, "copy", base[engine.slot], {}))]
        BY <1>1, <1>11, <2>1, <2>6 DEF CopyLens, BadDecode
      <3>. QED BY <2>6, <3>1, <3>2
    <2>. QED BY <1>11, <2>2, <2>4, <2>5, <2>6 DEF CopyLens, BadDecode
  <1>12. CASE Settle
    <2>1. PICK p \in BOOLEAN : p = BothLenses
      <3>1. BothLenses \in BOOLEAN
        BY DEF BothLenses
      <3>. QED BY <3>1
    <2>2. PICK e \in Slots : e = engine.slot /\ writing[e]
      BY <1>1, <1>12, Constants DEF Settle, Leases
    <2>3. /\ published' = [published EXCEPT ![e] = p] /\ writing' = [writing EXCEPT ![e] = FALSE]
          /\ UNCHANGED <<ops, base, readyConfirmed, ready>>
      BY <1>12, <2>1, <2>2 DEF Settle, gpu
    <2>4. /\ ~readyConfirmed[e] /\ \A t \in Slots \ {e} : ~writing[t]
      BY <1>1, <2>2 DEF Leases
    <2>5. /\ published'[e] = p /\ \A t \in Slots \ {e} : published'[t] = published[t]
          /\ \A t \in Slots : ~writing'[t]
      BY <1>1, <2>3, <2>4
    <2>6. p => \A l \in Lenses : lens[l] = "copied"
      BY <2>1 DEF BothLenses
    <2>7. ASSUME NEW q \in Queues, NEW i \in DOMAIN ops'[q], NEW t \in Slots,
                 ops'[q][i].kind = "copy", ops'[q][i].memory = base'[t]
          PROVE  Kept(q, ops'[q][i].id, t)
      <3>1. Was1(q, Id(q, i), t) /\ ops'[q][i].id = Id(q, i)
        BY <1>2, <2>3, <2>7 DEF Id, Kind, Of
      <3>2. CASE t = e
        BY <2>2, <2>3, <2>4, <2>5, <2>6, <3>1, <3>2
      <3>3. CASE t # e
        BY <2>3, <2>5, <3>1, <3>3
      <3>. QED BY <3>2, <3>3
    <2>. QED BY <1>3, <2>7
  <1>13. CASE Trim \/ DestroyStore
    <2>1. PICK S \in SUBSET Slots : DetachSlots(S) /\ \A s \in S : base[s] \in Memory
      BY <1>13, DetachCases
    <2>2. /\ \A s \in S : base'[s] = NoMemory
          /\ \A s \in Slots \ S : /\ base'[s] = base[s] /\ published'[s] = published[s] /\ ready'[s] = ready[s]
                                  /\ readyConfirmed'[s] = readyConfirmed[s]
          /\ UNCHANGED <<ops, writing, lens>>
      BY <1>1, <2>1, DetachIs
    <2>3. ASSUME NEW q \in Queues, NEW i \in DOMAIN ops'[q], NEW t \in Slots,
                 ops'[q][i].kind = "copy", ops'[q][i].memory = base'[t]
          PROVE  Kept(q, ops'[q][i].id, t)
      <3>1. i \in DOMAIN ops[q] /\ Kind(q, i) = "copy" /\ Of(q, i) = base'[t] /\ ops'[q][i].id = Id(q, i)
        BY <2>2, <2>3 DEF Id, Kind, Of
      <3>2. t \notin S
        BY <1>1, <2>2, <3>1, Constants DEF Pending
      <3>3. Was1(q, Id(q, i), t)
        BY <1>2, <2>2, <3>1, <3>2
      <3>. QED BY <2>2, <3>1, <3>2, <3>3
    <2>. QED BY <1>3, <2>3
  <1>14. \/ UNCHANGED <<ops, base, published, readyConfirmed, writing, ready, lens>>
         \/ (\E q \in Queues : Complete(q)) \/ (\E c \in Consumers : Launch(c) \/ Confirm(c))
         \/ (Order /\ ops' # ops) \/ (\E l \in Lenses : CopyLens(l)) \/ (\E s \in Slots : Reserve(s))
         \/ Settle \/ Trim \/ DestroyStore
    <2>. DEFINE Same == UNCHANGED <<ops, base, published, readyConfirmed, writing, ready, lens>>
    <2>1. \A c \in Consumers : (\E s \in Slots : Pin(c, s)) => Same
      BY DEF Pin, gpu, owner
    <2>2. \A c \in Consumers : TakeEvent(c) \/ Record(c) \/ Synchronize(c) \/ Push(c) \/ Release(c) \/ Unpin(c) => Same
      BY DEF TakeEvent, Record, Synchronize, Push, Release, Unpin, gpu, slots, owner
    <2>3. (Order /\ ops' = ops) \/ Recycle \/ Free \/ Close \/ Gone \/ UNCHANGED vars => Same
      BY DEF vars, gpu, slots, owner, Order, Recycle, Free, Close, Gone
    <2>. HIDE DEF Same
    <2>4. \/ Same \/ (\E q \in Queues : Complete(q)) \/ (\E c \in Consumers : Launch(c) \/ Confirm(c))
          \/ (Order /\ ops' # ops) \/ (\E l \in Lenses : CopyLens(l)) \/ (\E s \in Slots : Reserve(s))
          \/ Settle \/ Trim \/ DestroyStore
      BY <2>1, <2>2, <2>3 DEF Next, Queues
    <2>. QED BY <2>4 DEF Same
  <1>. QED BY <1>4, <1>5, <1>7, <1>8, <1>9, <1>10, <1>11, <1>12, <1>13, <1>14

-----------------------------------------------------------------------------
(* The guards of the pending reads. *)

\* An order that adds no wait finds the readers done.
LEMMA OrderWaits == ASSUME SlotInv, Order, UNCHANGED ops PROVE \A e \in waits : Passed(e)
  <1>. DEFINE o == Op(FreeId, "wait", NoMemory, UNION {covers[e] : e \in waits})
              r == StreamOf[0]
  <1>1. ops[r] \in Seq(Operations) /\ r \in WaitingStreams /\ r \in DOMAIN ops
    BY QueueTyped, Constants DEF SlotInv, TypeOK, WaitingStreams, Lenses, Queues
  <1>2. CASE ops' = [q \in DOMAIN ops |-> IF q \in WaitingStreams THEN Append(ops[q], o) ELSE ops[q]]
    <2>. HIDE DEF o, r
    <2>1. ops[r] = Append(ops[r], o)
      BY <1>1, <1>2
    <2>2. PICK s \in Seq(Operations) : s = ops[r]
      BY <1>1
    <2>3. Len(Append(s, o)) = Len(s) + 1 /\ Len(s) \in Nat
      OBVIOUS
    <2>. QED BY <2>1, <2>2, <2>3
  <1>. QED BY <1>2 DEF Order

\* A done operation leaves its queue, and no other, shorter.
LEMMA Shorter == ASSUME TypeOK, NEW p \in Queues, Complete(p) PROVE \E j \in DOMAIN ops[p] : j \notin DOMAIN ops'[p]
  <1>1. ops[p] \in Seq(Operations) /\ ops[p] # <<>> /\ p \in DOMAIN ops
    BY QueueTyped DEF Complete, TypeOK, Queues
  <1>2. \A j \in DOMAIN ops'[p] : j + 1 \in DOMAIN ops[p]
    BY CompleteOps DEF Was
  <1>3. PICK n \in Nat : DOMAIN ops[p] = 1 .. n /\ n >= 1
    BY <1>1
  <1>4. n \in DOMAIN ops[p] /\ n + 1 \notin DOMAIN ops[p]
    BY <1>3
  <1>. QED BY <1>2, <1>4

\* When no queue changed, nothing was done.
LEMMA NotCompleted == ASSUME TypeOK, UNCHANGED ops, NEW p \in Queues, Complete(p) PROVE FALSE
  BY Shorter

\* A step is done on one queue at most.
LEMMA CompleteOnce == ASSUME TypeOK, NEW p \in Queues, NEW r \in Queues, Complete(p), Complete(r) PROVE r = p
  <1>1. SUFFICES ASSUME r # p PROVE FALSE
    OBVIOUS
  <1>2. \A j \in DOMAIN ops[r] : \E i \in DOMAIN ops'[r] : j = Was(p, r, i)
    BY <1>1, CompleteOps
  <1>3. \A j \in DOMAIN ops[r] : j \in DOMAIN ops'[r]
    BY <1>1, <1>2 DEF Was
  <1>. QED BY <1>3, Shorter

\* A slot whose readers hold a pending read keeps holding it, or hands it to the owner or to the memory
\* that waits, when no operation is added or done.
LEMMA HeldMoves ==
  ASSUME SlotInv, [Next]_vars, UNCHANGED ops,
         NEW q \in Queues, NEW i \in DOMAIN ops[q], Kind(q, i) = "read",
         NEW m \in Memory, NEW id, m = Of(q, i), id = Id(q, i), NEW s \in Slots, Held(s, m, id)
  PROVE  \/ Held(s, m, id)'
         \/ Reserve(s) /\ ByOwner(m, id)'
         \/ base'[s] # m /\ ByDying(m, id)'
  <1>1. /\ TypeOK /\ Homes /\ Leases /\ Apart /\ Pending
        /\ base \in [Slots -> Memory \cup {NoMemory}]
        /\ covers \in [Events -> SUBSET Ids] /\ releases \in [Slots -> SUBSET created] /\ created \subseteq Events
        /\ waits \subseteq created /\ event \in [Consumers -> created \cup {NoEvent}]
        /\ pc \in [Consumers -> {"idle", "pinned", "leased", "reading", "record", "synchronize", "push", "unpin"}]
        /\ lease \in [Consumers -> Slots \cup {NoSlot}]
    BY DEF SlotInv, TypeOK
  <1>2. ASSUME NEW b \in Consumers, ByReader(b, m, id) PROVE lease[b] = s /\ base[s] = m
    <2>1. lease[b] \in Slots /\ base[lease[b]] = m /\ base[s] = m /\ m # NoMemory
      BY <1>1, <1>2, Constants DEF ByReader, Held, ByRelease
    <2>. QED BY <1>1, <2>1 DEF Apart
  <1>3. base[s] = m
    BY DEF Held, ByRelease
  <1>4. ASSUME NEW b \in Consumers, ByReader(b, m, id), lease'[b] = s, base'[s] = m,
               pc'[b] = pc[b] \/ (pc[b] # "push" /\ pc'[b] \in {"reading", "record", "synchronize"}),
               pc[b] = "push" => event'[b] = event[b] /\ covers'[event[b]] = covers[event[b]]
        PROVE  Held(s, m, id)'
    <2>1. lease[b] = s
      BY <1>2, <1>4
    <2>2. ByReader(b, m, id)'
      BY <1>4, <2>1, Constants DEF ByReader, Id
    <2>. QED BY <1>4, <2>2 DEF Held
  <1>5. ASSUME ByRelease(s, m, id), base'[s] = m, \A e \in releases[s] : covers[e] # {} => e \in releases'[s],
               \A e \in releases[s] : covers'[e] = covers[e]
        PROVE  Held(s, m, id)'
    BY <1>5 DEF Held, ByRelease
  <1>8. ASSUME UNCHANGED <<lease, base, pc, event, covers, releases>> PROVE Held(s, m, id)'
    <2>1. ASSUME NEW b \in Consumers, ByReader(b, m, id) PROVE Held(s, m, id)'
      BY <1>2, <1>4, <1>8, <2>1
    <2>2. ByRelease(s, m, id) => Held(s, m, id)'
      BY <1>3, <1>5, <1>8
    <2>. QED BY <2>1, <2>2 DEF Held
  <1>9. ASSUME NEW c \in Consumers,
               \A b \in Consumers \ {c} : lease'[b] = lease[b] /\ pc'[b] = pc[b] /\ event'[b] = event[b],
               ByReader(c, m, id) => Held(s, m, id)', UNCHANGED <<base, covers, releases>>
        PROVE  Held(s, m, id)'
    <2>1. ASSUME NEW b \in Consumers \ {c}, ByReader(b, m, id) PROVE Held(s, m, id)'
      BY <1>2, <1>4, <1>9, <2>1
    <2>2. ByRelease(s, m, id) => Held(s, m, id)'
      BY <1>3, <1>5, <1>9
    <2>. QED BY <1>9, <2>1, <2>2 DEF Held
  <1>10. ASSUME NEW c \in Consumers, (\E t \in Slots : Pin(c, t)) \/ Confirm(c) \/ Unpin(c) PROVE Held(s, m, id)'
    <2>1. ~ByReader(c, m, id)
      BY <1>10 DEF ByReader, Pin, Confirm, Unpin
    <2>2. \A b \in Consumers \ {c} : lease'[b] = lease[b] /\ pc'[b] = pc[b] /\ event'[b] = event[b]
      BY <1>1, <1>10 DEF Pin, Confirm, Unpin
    <2>. QED BY <1>9, <1>10, <2>1, <2>2 DEF Pin, Confirm, Unpin, gpu
  <1>11. ASSUME NEW c \in Consumers, TakeEvent(c) PROVE Held(s, m, id)'
    <2>1. /\ pc[c] = "reading" /\ pc'[c] \in {"record", "synchronize"} /\ lease' = lease
          /\ \A b \in Consumers \ {c} : lease'[b] = lease[b] /\ pc'[b] = pc[b] /\ event'[b] = event[b]
          /\ UNCHANGED <<base, covers, releases>>
      BY <1>1, <1>11 DEF TakeEvent, gpu, slots, owner, events
    <2>2. ByReader(c, m, id) => Held(s, m, id)'
      BY <1>2, <1>4, <2>1
    <2>. QED BY <1>9, <2>1, <2>2
  <1>12. ASSUME NEW c \in Consumers, Record(c) PROVE Held(s, m, id)'
    <2>1. /\ pc[c] = "record" /\ UNCHANGED <<lease, base, event, releases>>
          /\ \A b \in Consumers \ {c} : pc'[b] = pc[b]
      BY <1>1, <1>12 DEF Record, slots, owner
    <2>2. CASE covers' = covers /\ pc'[c] = "synchronize"
      <3>1. ByReader(c, m, id) => Held(s, m, id)'
        BY <1>2, <1>4, <2>1, <2>2
      <3>. QED BY <1>9, <2>1, <2>2, <3>1
    <2>3. CASE covers' = [covers EXCEPT ![event[c]] = PendingOn(c)] /\ pc'[c] = "push"
      <3>1. PICK e, S : e = event[c] /\ S = PendingOn(c)
        OBVIOUS
      <3>2. e \in Events /\ e # NoEvent /\ e \notin releases[s]
            /\ \A b \in Consumers \ {c} : event[b] # e
        BY <1>1, <2>1, <3>1 DEF Homes
      <3>3. covers'[e] = S /\ \A f \in Events \ {e} : covers'[f] = covers[f]
        BY <1>1, <2>3, <3>1, <3>2
      <3>4. ByReader(c, m, id) => Held(s, m, id)'
        <4>1. (\E j \in DOMAIN ops[c] : Id(c, j) = id) => id \in S
          BY <1>1, <3>1, PendingAre DEF Queues
        <4>2. ByReader(c, m, id) => id \in covers'[event'[c]] /\ lease'[c] # NoSlot /\ base'[lease'[c]] = m
          BY <2>1, <3>1, <3>3, <4>1 DEF ByReader
        <4>3. ByReader(c, m, id) => ByReader(c, m, id)'
          BY <2>3, <4>2 DEF ByReader
        <4>. QED BY <1>3, <2>1, <4>3 DEF Held
      <3>5. ASSUME NEW b \in Consumers \ {c}, ByReader(b, m, id) PROVE Held(s, m, id)'
        <4>1. pc[b] = "push" => event[b] \in Events \ {e}
          BY <1>1, <3>2 DEF Homes
        <4>. QED BY <1>2, <1>4, <2>1, <3>3, <3>5, <4>1
      <3>6. ByRelease(s, m, id) => Held(s, m, id)'
        <4>1. \A f \in releases[s] : f \in Events \ {e}
          BY <1>1, <3>2
        <4>. QED BY <1>3, <1>5, <2>1, <3>3, <4>1
      <3>. QED BY <3>4, <3>5, <3>6 DEF Held
    <2>4. pc' = [pc EXCEPT ![c] = "push"] \/ pc' = [pc EXCEPT ![c] = "synchronize"]
      BY <1>12 DEF Record
    <2>. QED BY <1>1, <1>12, <2>2, <2>3 DEF Record
  <1>13. ASSUME NEW c \in Consumers, Synchronize(c) PROVE FALSE
    BY <1>1, <1>13, PendingAre DEF Synchronize
  <1>14. ASSUME NEW c \in Consumers, Push(c) PROVE Held(s, m, id)'
    <2>1. PICK t \in Slots : t = lease[c]
      BY <1>1, <1>14 DEF Push, Leases
    <2>2. /\ releases' = [releases EXCEPT ![t] = (@ \ {e \in releases[t] : Passed(e)}) \cup {event[c]}]
          /\ event' = [event EXCEPT ![c] = NoEvent] /\ pc' = [pc EXCEPT ![c] = "unpin"] /\ pc[c] = "push"
          /\ UNCHANGED <<base, covers, lease>>
      BY <1>14, <2>1 DEF Push, gpu, owner
    <2>3. /\ \A e \in releases[s] : covers[e] # {} => e \in releases'[s]
          /\ event[c] \in releases'[t]
          /\ \A b \in Consumers \ {c} : pc'[b] = pc[b] /\ event'[b] = event[b]
      BY <1>1, <2>2 DEF Passed
    <2>4. ByReader(c, m, id) => Held(s, m, id)'
      BY <1>2, <2>1, <2>2, <2>3 DEF ByReader, ByRelease, Held
    <2>5. ASSUME NEW b \in Consumers \ {c}, ByReader(b, m, id) PROVE Held(s, m, id)'
      BY <1>2, <1>4, <2>2, <2>3, <2>5
    <2>6. ByRelease(s, m, id) => Held(s, m, id)'
      BY <1>3, <1>5, <2>2, <2>3
    <2>. QED BY <2>4, <2>5, <2>6 DEF Held
  <1>15. ASSUME NEW c \in Consumers, Release(c) PROVE Held(s, m, id)'
    <2>1. ~ByReader(c, m, id)
      <3>1. CASE pc[c] = "leased"
        BY <3>1 DEF ByReader
      <3>2. CASE pc[c] = "reading" /\ \A o \in OpsOf(c) : o.memory # base[lease[c]]
        <4>1. SUFFICES ASSUME ByReader(c, m, id) PROVE FALSE
          OBVIOUS
        <4>2. PICK j \in DOMAIN ops[c] : Id(c, j) = id
          BY <3>2, <4>1 DEF ByReader
        <4>3. c = q /\ j = i
          BY <1>1, <4>2 DEF Pending, Queues
        <4>4. ops[c][j] \in OpsOf(c) /\ ops[c][j].memory = base[lease[c]]
          BY <4>1, <4>2, <4>3 DEF OpsOf, ByReader, Of
        <4>. QED BY <3>2, <4>4
      <3>. QED BY <1>15, <3>1, <3>2 DEF Release
    <2>2. \A b \in Consumers \ {c} : lease'[b] = lease[b] /\ pc'[b] = pc[b] /\ event'[b] = event[b]
      BY <1>1, <1>15 DEF Release
    <2>. QED BY <1>9, <1>15, <2>1, <2>2 DEF Release, gpu, slots
  <1>17. ASSUME NEW t \in Slots, Reserve(t) PROVE Held(s, m, id)' \/ (Reserve(s) /\ ByOwner(m, id)')
    <2>1. /\ releases' = [releases EXCEPT ![t] = {}] /\ waits' = releases[t]
          /\ engine' = [phase |-> IF releases[t] = {} THEN "copy" ELSE "order", slot |-> t]
          /\ UNCHANGED <<covers, pc, lease, event>>
      BY <1>17 DEF Reserve, gpu, consumer
    <2>2. (\A u \in Slots \ {t} : base'[u] = base[u]) /\ (base[t] # NoMemory => base'[t] = base[t])
      BY <1>1, <1>17 DEF Reserve
    <2>3. \A c \in Consumers : lease[c] # t
      BY <1>1, <1>17, NotLeased DEF Reserve
    <2>4. base'[s] = m
      BY <1>3, <2>2, Constants
    <2>5. ASSUME NEW b \in Consumers, ByReader(b, m, id) PROVE Held(s, m, id)'
      BY <1>2, <1>4, <2>1, <2>4, <2>5
    <2>6. ASSUME ByRelease(s, m, id), t = s PROVE Reserve(s) /\ ByOwner(m, id)'
      <3>1. PICK e \in releases[s] : id \in covers[e]
        BY <2>6 DEF ByRelease
      <3>2. engine'.phase = "order" /\ engine'.slot = s
        BY <2>1, <2>6, <3>1
      <3>. QED BY <1>17, <2>1, <2>4, <2>6, <3>1, <3>2 DEF ByOwner
    <2>7. ASSUME ByRelease(s, m, id), t # s PROVE Held(s, m, id)'
      <3>1. releases'[s] = releases[s]
        BY <1>1, <2>1, <2>7
      <3>. QED BY <1>5, <2>1, <2>4, <2>7, <3>1
    <2>8. (\E b \in Consumers : ByReader(b, m, id)) \/ ByRelease(s, m, id)
      BY DEF Held
    <2>. QED BY <2>5, <2>6, <2>7, <2>8
  <1>20. ASSUME Order \/ Recycle \/ Settle \/ (\E l \in Lenses : CopyLens(l)) \/ Free \/ Close \/ Gone \/ UNCHANGED vars
         PROVE  Held(s, m, id)'
    <2>1. CASE Order \/ Recycle \/ Settle
      BY <1>8, <2>1 DEF Order, Recycle, Settle, gpu, slots, consumer
    <2>2. CASE \E l \in Lenses : CopyLens(l)
      BY <1>8, <2>2 DEF CopyLens, consumer
    <2>3. CASE Free \/ Close \/ Gone \/ UNCHANGED vars
      BY <1>8, <2>3 DEF Free, Close, Gone, vars, gpu, slots, consumer
    <2>. QED BY <1>20, <2>1, <2>2, <2>3
  <1>23. CASE Trim \/ DestroyStore
    <2>1. PICK S \in SUBSET Slots : /\ DetachSlots(S)
                                    /\ \A t \in S : base[t] \in Memory /\ ~writing[t] /\ \A c \in Consumers : lease[c] # t
      BY <1>23, DetachCases
    <2>2. /\ \A t \in S : base'[t] = NoMemory /\ \E d \in dying' : d.memory = base[t] /\ d.until = Until(t)
          /\ \A t \in Slots \ S : base'[t] = base[t] /\ releases'[t] = releases[t]
          /\ UNCHANGED <<covers, pc, lease, event>>
      BY <1>1, <2>1, DetachIs
    <2>3. ASSUME NEW b \in Consumers, ByReader(b, m, id) PROVE Held(s, m, id)'
      BY <1>2, <1>4, <2>1, <2>2, <2>3
    <2>4. ASSUME ByRelease(s, m, id), s \in S PROVE base'[s] # m /\ ByDying(m, id)'
      <3>1. id \in Until(s)
        BY <2>4, UntilIs DEF ByRelease
      <3>. QED BY <1>3, <2>2, <2>4, <3>1, Constants DEF ByDying
    <2>5. ASSUME ByRelease(s, m, id), s \notin S PROVE Held(s, m, id)'
      BY <1>3, <1>5, <2>2, <2>5
    <2>. QED BY <2>3, <2>4, <2>5 DEF Held
  <1>26. ~\E p \in Queues : Complete(p)
    BY <1>1, NotCompleted
  <1>27. ASSUME NEW c \in Consumers, Launch(c) PROVE FALSE
    <2>1. PICK o \in Operations : Appended({c}, o)
      BY <1>27, LaunchAppends
    <2>2. ops'[c] = Append(ops[c], o) /\ ops[c] \in Seq(Operations)
      BY <1>1, <2>1, QueueTyped DEF Appended, Queues
    <2>. QED BY <2>2
  <1>. QED BY <1>10, <1>11, <1>12, <1>13, <1>14, <1>15, <1>17, <1>20, <1>23, <1>26, <1>27 DEF Next, Queues

\* What guards a pending read keeps guarding it, or hands it on, when no operation is added or done.
LEMMA GuardMoves ==
  ASSUME SlotInv, [Next]_vars, UNCHANGED ops,
         NEW q \in Queues, NEW i \in DOMAIN ops[q], Kind(q, i) = "read",
         NEW m \in Memory, NEW id, m = Of(q, i), id = Id(q, i), Guard(m, id)
  PROVE  Guard(m, id)'
  <1>1. /\ TypeOK /\ Leases /\ Homes /\ covers \in [Events -> SUBSET Ids] /\ created \subseteq Events
        /\ waits \subseteq created /\ event \in [Consumers -> created \cup {NoEvent}]
    BY DEF SlotInv, TypeOK
  <1>2. ASSUME NEW s \in Slots, Held(s, m, id) PROVE Guard(m, id)'
    BY <1>2, HeldMoves DEF Guard
  <1>3. ByStreams(id) => ByStreams(id)'
    BY DEF ByStreams, Need
  <1>4. ASSUME ByDying(m, id) PROVE Guard(m, id)'
    <2>1. PICK d \in dying : d.memory = m /\ id \in d.until
      BY <1>4 DEF ByDying
    <2>2. d \in dying'
      <3>1. CASE Free
        BY <2>1, <3>1 DEF Free
      <3>2. CASE Trim \/ DestroyStore
        BY <3>2 DEF Trim, DestroyStore, DetachSlots
      <3>3. CASE UNCHANGED dying
        BY <3>3
      <3>. QED BY <1>1, <3>1, <3>2, <3>3, NotCompleted
           DEF Next, vars, Queues, Pin, Confirm, Launch, TakeEvent, Record, Synchronize, Push, Release, Unpin, Reserve,
               Order, Recycle, CopyLens, Settle, Close, Gone
    <2>. QED BY <2>1, <2>2 DEF Guard, ByDying
  <1>5. ASSUME ByOwner(m, id) PROVE Guard(m, id)'
    <2>1. engine.phase = "order" /\ base[engine.slot] = m /\ \E e \in waits : id \in covers[e]
      BY <1>5 DEF ByOwner
    <2>2. engine.slot \in Slots /\ writing[engine.slot]
      BY <1>1, <2>1 DEF TypeOK, Leases
    <2>3. ~Order
      BY <2>1, OrderWaits DEF Passed
    <2>4. CASE UNCHANGED <<base, covers, waits, engine>>
      BY <2>1, <2>4 DEF Guard, ByOwner
    <2>5. ASSUME NEW c \in Consumers, Record(c) PROVE Guard(m, id)'
      <3>1. pc[c] = "record" /\ UNCHANGED <<base, waits, engine>>
        BY <2>5 DEF Record, slots, owner
      <3>2. PICK e, S : e = event[c] /\ S = PendingOn(c)
        OBVIOUS
      <3>3. covers' = covers \/ covers' = [covers EXCEPT ![e] = S]
        BY <2>5, <3>2 DEF Record
      <3>4. e \notin waits
        BY <1>1, <3>1, <3>2 DEF Homes
      <3>5. \A f \in waits : covers'[f] = covers[f]
        BY <1>1, <3>3, <3>4
      <3>. QED BY <2>1, <3>1, <3>5 DEF Guard, ByOwner
    <2>6. CASE Trim \/ DestroyStore
      <3>1. PICK S \in SUBSET Slots : DetachSlots(S) /\ \A t \in S : base[t] \in Memory /\ ~writing[t]
        BY <2>6, DetachCases
      <3>2. (\A t \in Slots \ S : base'[t] = base[t]) /\ UNCHANGED <<covers, engine, waits>>
        BY <1>1, <3>1, DetachIs
      <3>3. base'[engine.slot] = m
        BY <2>1, <2>2, <3>1, <3>2
      <3>. QED BY <2>1, <3>2, <3>3 DEF Guard, ByOwner
    <2>7. ~Recycle /\ ~Settle /\ (\A s \in Slots : ~Reserve(s)) /\ \A l \in Lenses : ~CopyLens(l)
      BY <2>1 DEF Recycle, Settle, Reserve, CopyLens, NoOwner
    <2>. QED BY <1>1, <2>3, <2>4, <2>5, <2>6, <2>7, NotCompleted
         DEF Next, vars, gpu, slots, owner, Queues, Pin, Confirm, Launch, TakeEvent, Synchronize, Push, Release, Unpin,
             Free, Close, Gone
  <1>. QED BY <1>2, <1>3, <1>4, <1>5 DEF Guard

\* The guards of a read outlast the operations that are done before it.
LEMMA GuardOutlasts ==
  ASSUME SlotInv, NEW p \in Queues, Complete(p),
         NEW q \in Queues, NEW i \in DOMAIN ops[q], Kind(q, i) = "read", ~(q = p /\ i = 1),
         NEW m \in Memory, NEW id, m = Of(q, i), id = Id(q, i)
  PROVE  /\ \A s \in Slots : Held(s, m, id) => Held(s, m, id)'
         /\ ByOwner(m, id) => ByOwner(m, id)'
         /\ ByDying(m, id) => ByDying(m, id)'
         /\ ByStreams(id) => ByStreams(id)'
  <1>1. /\ TypeOK /\ Homes /\ Leases /\ Pending
        /\ releases \in [Slots -> SUBSET created] /\ created \subseteq Events
        /\ waits \subseteq created /\ event \in [Consumers -> created \cup {NoEvent}]
    BY DEF SlotInv, TypeOK
  <1>2. UNCHANGED <<base, releases, engine, waits, pc, lease, event>>
    BY DEF Complete, events, owner, consumer
  <1>3. 1 \in DOMAIN ops[p] /\ Need(p, 1) = {}
    BY <1>1, CompleteOps
  <1>4. id # Id(p, 1)
    BY <1>1, <1>3 DEF Pending
  <1>5. /\ \A e \in Events : id \in covers[e] => id \in covers'[e]
        /\ \A e \in dying : \E d \in dying' : d.memory = e.memory /\ (id \in e.until => id \in d.until)
    BY <1>1, <1>4, CompleteDying
  <1>6. \A r \in Queues : \A j \in DOMAIN ops[r] : ~(r = p /\ j = 1) =>
           \E k \in DOMAIN ops'[r] : /\ ops'[r][k].id = Id(r, j)
                                     /\ id \in Need(r, j) => id \in ops'[r][k].need
    <2>1. SUFFICES ASSUME NEW r \in Queues, NEW j \in DOMAIN ops[r], ~(r = p /\ j = 1)
                   PROVE  \E k \in DOMAIN ops'[r] : /\ ops'[r][k].id = Id(r, j)
                                                    /\ id \in Need(r, j) => id \in ops'[r][k].need
      OBVIOUS
    <2>2. PICK k \in DOMAIN ops'[r] : j = Was(p, r, k)
      BY <1>1, <2>1, CompleteOps
    <2>3. ops'[r][k].id = Id(r, j) /\ ops'[r][k].need = Need(r, j) \ {Id(p, 1)}
      BY <1>1, <2>2, CompleteOps
    <2>. QED BY <1>4, <2>3
  <1>7. ASSUME NEW c \in Consumers, ByReader(c, m, id) PROVE ByReader(c, m, id)'
    <2>1. CASE pc[c] \in {"reading", "record", "synchronize"}
      <3>1. PICK j \in DOMAIN ops[c] : Id(c, j) = id
        BY <1>7, <2>1 DEF ByReader
      <3>2. c = q /\ j = i
        BY <1>1, <3>1 DEF Pending, Queues
      <3>3. \E k \in DOMAIN ops'[c] : ops'[c][k].id = id
        BY <1>6, <3>1, <3>2
      <3>. QED BY <1>2, <1>7, <2>1, <3>3 DEF ByReader, Id
    <2>2. CASE pc[c] = "push"
      <3>1. event[c] \in Events
        BY <1>1, <2>2 DEF Homes
      <3>. QED BY <1>2, <1>5, <1>7, <2>2, <3>1 DEF ByReader
    <2>. QED BY <1>7, <2>1, <2>2 DEF ByReader
  <1>8. ASSUME NEW s \in Slots, ByRelease(s, m, id) PROVE ByRelease(s, m, id)'
    <2>1. releases[s] \subseteq Events
      BY <1>1
    <2>. QED BY <1>2, <1>5, <1>8, <2>1 DEF ByRelease
  <1>9. ByOwner(m, id) => ByOwner(m, id)'
    BY <1>1, <1>2, <1>5 DEF ByOwner
  <1>10. ByDying(m, id) => ByDying(m, id)'
    BY <1>5 DEF ByDying
  <1>11. ByStreams(id) => ByStreams(id)'
    <2>1. SUFFICES ASSUME ByStreams(id), NEW l \in Lenses
                   PROVE  \E k \in DOMAIN ops'[StreamOf[l]] : id \in ops'[StreamOf[l]][k].need
      BY DEF ByStreams, Need
    <2>2. PICK j \in DOMAIN ops[StreamOf[l]] : id \in Need(StreamOf[l], j)
      BY <2>1 DEF ByStreams
    <2>3. ~(StreamOf[l] = p /\ j = 1)
      BY <1>3, <2>2
    <2>. QED BY <1>6, <2>2, <2>3, Constants
  <1>12. ASSUME NEW s \in Slots, Held(s, m, id) PROVE Held(s, m, id)'
    BY <1>2, <1>7, <1>8, <1>12 DEF Held
  <1>. QED BY <1>9, <1>10, <1>11, <1>12

\* A guard is there when operations are added, and the streams take over from the owner.
LEMMA GuardAdded ==
  ASSUME SlotInv, NEW Q \in SUBSET Queues, NEW o \in Operations, Appended(Q, o),
         UNCHANGED <<base, covers, releases, waits, dying, lease, event>>,
         \A b \in Consumers : pc[b] # "leased" => pc'[b] = pc[b],
         engine' = engine \/ (Q = WaitingStreams /\ \A e \in waits : covers[e] \subseteq o.need),
         NEW m \in Memory, NEW id
  PROVE  /\ \A s \in Slots : Held(s, m, id) => Held(s, m, id)'
         /\ Guard(m, id) => Guard(m, id)'
  <1>1. TypeOK
    BY DEF SlotInv
  <1>2. \A r \in Queues : \A j \in DOMAIN ops[r] : j \in DOMAIN ops'[r] /\ ops'[r][j] = ops[r][j]
    BY <1>1, AppendedOps
  <1>3. ASSUME NEW b \in Consumers, ByReader(b, m, id) PROVE ByReader(b, m, id)'
    <2>1. pc'[b] = pc[b]
      BY <1>3 DEF ByReader
    <2>. QED BY <1>2, <1>3, <2>1 DEF ByReader, Id, Queues
  <1>4. ASSUME NEW s \in Slots, ByRelease(s, m, id) PROVE ByRelease(s, m, id)'
    BY <1>4 DEF ByRelease
  <1>5. ByDying(m, id) => ByDying(m, id)'
    BY DEF ByDying
  <1>6. ByStreams(id) => ByStreams(id)'
    BY <1>2, Constants DEF ByStreams, Need
  <1>7. ByOwner(m, id) => Guard(m, id)'
    <2>1. CASE engine' = engine
      BY <2>1 DEF ByOwner, Guard
    <2>2. CASE Q = WaitingStreams /\ \A e \in waits : covers[e] \subseteq o.need
      <3>1. ASSUME NEW r \in Q PROVE \E i \in DOMAIN ops'[r] : ops'[r][i] = o
        BY <1>1, AppendedLast
      <3>2. \A l \in Lenses : StreamOf[l] \in Q
        BY <2>2 DEF WaitingStreams
      <3>3. ByOwner(m, id) => id \in o.need
        BY <2>2 DEF ByOwner
      <3>4. ByOwner(m, id) => ByStreams(id)'
        BY <3>1, <3>2, <3>3 DEF ByStreams, Need
      <3>. QED BY <3>4 DEF Guard
    <2>. QED BY <2>1, <2>2
  <1>8. ASSUME NEW s \in Slots, Held(s, m, id) PROVE Held(s, m, id)'
    BY <1>3, <1>4, <1>8 DEF Held
  <1>. QED BY <1>5, <1>6, <1>7, <1>8 DEF Guard

\* Each pending read has a guard.
LEMMA GuardedStep == ASSUME SlotInv, [Next]_vars PROVE Guarded'
  <1>1. TypeOK /\ Pending /\ Guarded /\ Leases
    BY DEF SlotInv
  <1>2. ASSUME \A q \in Queues : \A i \in DOMAIN ops'[q] : ops'[q][i].kind = "read" =>
                  \E m \in Memory, id \in Ids : /\ m = ops'[q][i].memory /\ id = ops'[q][i].id
                                                /\ Guard(m, id)'
        PROVE  Guarded'
    <2>1. SUFFICES ASSUME NEW q \in Queues, NEW i \in DOMAIN ops'[q], ops'[q][i].kind = "read"
                   PROVE  Guard(Of(q, i), Id(q, i))'
      BY DEF Guarded, Kind
    <2>2. PICK m \in Memory, id \in Ids : /\ m = ops'[q][i].memory /\ id = ops'[q][i].id /\ Guard(m, id)'
      BY <1>2, <2>1
    <2>. QED BY <2>2 DEF Guard, Held, ByReader, ByRelease, ByOwner, ByDying, ByStreams, Of, Id
  <1>3. ASSUME NEW q \in Queues, NEW i \in DOMAIN ops[q], Kind(q, i) = "read"
        PROVE  \E m \in Memory, id \in Ids : m = Of(q, i) /\ id = Id(q, i) /\ Guard(m, id)
    <2>1. Of(q, i) \in Memory /\ Id(q, i) \in Ids
      BY <1>1, <1>3, QueueTyped DEF Pending, Id, Operations
    <2>2. Guard(Of(q, i), Id(q, i))
      BY <1>1, <1>3 DEF Guarded
    <2>. QED BY <2>1, <2>2
  <1>4. CASE UNCHANGED ops
    <2>1. ASSUME NEW q \in Queues, NEW i \in DOMAIN ops'[q], ops'[q][i].kind = "read"
          PROVE  \E m \in Memory, id \in Ids : /\ m = ops'[q][i].memory /\ id = ops'[q][i].id /\ Guard(m, id)'
      <3>1. i \in DOMAIN ops[q] /\ Kind(q, i) = "read" /\ Of(q, i) = ops'[q][i].memory /\ Id(q, i) = ops'[q][i].id
        BY <1>4, <2>1 DEF Kind, Of, Id
      <3>2. PICK m \in Memory, id \in Ids : m = Of(q, i) /\ id = Id(q, i) /\ Guard(m, id)
        BY <1>3, <3>1
      <3>3. Guard(m, id)'
        BY <1>4, <3>1, <3>2, GuardMoves
      <3>. QED BY <3>1, <3>2, <3>3
    <2>. QED BY <1>2, <2>1
  <1>5. ASSUME NEW p \in Queues, Complete(p) PROVE Guarded'
    <2>1. ASSUME NEW q \in Queues, NEW i \in DOMAIN ops'[q], ops'[q][i].kind = "read"
          PROVE  \E m \in Memory, id \in Ids : /\ m = ops'[q][i].memory /\ id = ops'[q][i].id /\ Guard(m, id)'
      <3>1. PICK j \in DOMAIN ops[q] : /\ ~(q = p /\ j = 1)
                                       /\ Kind(q, j) = "read" /\ Of(q, j) = ops'[q][i].memory /\ Id(q, j) = ops'[q][i].id
        BY <1>1, <1>5, <2>1, CompleteOps
      <3>2. PICK m \in Memory, id \in Ids : m = Of(q, j) /\ id = Id(q, j) /\ Guard(m, id)
        BY <1>3, <3>1
      <3>3. Guard(m, id)'
        BY <1>5, <3>1, <3>2, GuardOutlasts DEF Guard
      <3>. QED BY <3>1, <3>2, <3>3
    <2>. QED BY <1>2, <2>1
  <1>6. ASSUME NEW Q \in SUBSET Queues, NEW o \in Operations, Appended(Q, o),
               UNCHANGED <<base, covers, releases, waits, dying, lease, event>>,
               \A b \in Consumers : pc[b] # "leased" => pc'[b] = pc[b],
               engine' = engine \/ (Q = WaitingStreams /\ \A e \in waits : covers[e] \subseteq o.need),
               o.kind = "read" => /\ o.memory \in Memory /\ \A m \in Memory, id \in Ids : m = o.memory /\ id = o.id => Guard(m, id)'
        PROVE  Guarded'
    <2>0. Appended(Q, o) /\ Q \in SUBSET Queues /\ o \in Operations
      BY <1>6
    <2>1. ASSUME NEW q \in Queues, NEW i \in DOMAIN ops'[q], ops'[q][i].kind = "read"
          PROVE  \E m \in Memory, id \in Ids : /\ m = ops'[q][i].memory /\ id = ops'[q][i].id /\ Guard(m, id)'
      <3>1. \/ i \in DOMAIN ops[q] /\ ops'[q][i] = ops[q][i]
            \/ ops'[q][i] = o
        BY <1>1, <2>0, AppendedAre
      <3>2. CASE i \in DOMAIN ops[q] /\ ops'[q][i] = ops[q][i]
        <4>1. Kind(q, i) = "read" /\ Of(q, i) = ops'[q][i].memory /\ Id(q, i) = ops'[q][i].id
          BY <2>1, <3>2 DEF Kind, Of, Id
        <4>2. PICK m \in Memory, id \in Ids : m = Of(q, i) /\ id = Id(q, i) /\ Guard(m, id)
          BY <1>3, <3>2, <4>1
        <4>3. Guard(m, id)'
          BY <1>6, <4>2, GuardAdded
        <4>. QED BY <4>1, <4>2, <4>3
      <3>3. CASE ops'[q][i] = o
        <4>1. o.memory \in Memory /\ o.id \in Ids
          BY <1>6, <2>0, <2>1, <3>3 DEF Operations
        <4>2. PICK m \in Memory, id \in Ids : m = o.memory /\ id = o.id
          BY <4>1
        <4>. QED BY <1>6, <2>1, <3>3, <4>2
      <3>. QED BY <3>1, <3>2, <3>3
    <2>. QED BY <1>2, <2>1
  <1>7. ASSUME NEW c \in Consumers, Launch(c) PROVE Guarded'
    <2>1. PICK o \in Operations : /\ Appended({c}, o) /\ o.kind = "read"
                                  /\ o.memory = base[lease[c]] /\ o.memory \in Memory
      BY <1>7, LaunchAppends
    <2>2. /\ pc[c] = "leased" /\ pc' = [pc EXCEPT ![c] = "reading"] /\ {c} \in SUBSET Queues
          /\ UNCHANGED <<base, covers, releases, waits, dying, lease, event, engine>>
      BY <1>7 DEF Launch, slots, owner, Queues
    <2>3. pc'[c] = "reading" /\ (\A b \in Consumers \ {c} : pc'[b] = pc[b]) /\ lease[c] # NoSlot
      BY <1>1, <2>2 DEF TypeOK, Leases
    <2>4. \E i \in DOMAIN ops'[c] : ops'[c][i] = o
      BY <1>1, <2>1, <2>2, AppendedLast
    <2>5. \A m \in Memory, id \in Ids : m = o.memory /\ id = o.id => Guard(m, id)'
      <3>1. lease[c] \in Slots
        BY <1>1, <2>3 DEF TypeOK
      <3>2. ASSUME NEW m \in Memory, NEW id \in Ids, m = o.memory, id = o.id PROVE ByReader(c, m, id)'
        BY <2>1, <2>2, <2>3, <2>4, <3>2 DEF ByReader, Id
      <3>. QED BY <2>1, <2>2, <3>1, <3>2 DEF Guard, Held
    <2>. QED BY <1>6, <2>1, <2>2, <2>3, <2>5
  <1>8. CASE Order /\ ops' # ops
    <2>1. PICK o \in Operations : /\ Appended(WaitingStreams, o) /\ o.kind = "wait"
                                  /\ \A e \in waits : covers[e] \subseteq o.need
      BY <1>8, OrderAppends
    <2>2. /\ UNCHANGED <<base, covers, releases, waits, dying, lease, event, pc>> /\ WaitingStreams \in SUBSET Queues
      BY <1>8, Constants DEF Order, slots, consumer, WaitingStreams
    <2>. QED BY <1>6, <2>1, <2>2
  <1>9. ASSUME NEW l \in Lenses, CopyLens(l), ops' # ops PROVE Guarded'
    <2>1. PICK o \in Operations : Appended({StreamOf[l]}, o) /\ o.kind = "copy"
      BY <1>9, CopyAppends
    <2>2. /\ UNCHANGED <<base, covers, releases, waits, dying, lease, event, pc, engine>> /\ {StreamOf[l]} \in SUBSET Queues
      BY <1>9, Constants DEF CopyLens, consumer
    <2>. QED BY <1>6, <2>1, <2>2
  <1>. QED BY <1>4, <1>5, <1>7, <1>8, <1>9, OpsCases

-----------------------------------------------------------------------------
(* The copies and the reads they overwrite. *)

\* A copy comes behind the reads of its memory: while a lens is copied, only the streams guard them.
LEMMA BehindStep == ASSUME SlotInv, [Next]_vars PROVE Behind'
  <1>1. /\ TypeOK /\ Leases /\ Apart /\ Pending /\ Copies /\ Guarded /\ Behind
        /\ base \in [Slots -> Memory \cup {NoMemory}] /\ lease \in [Consumers -> Slots \cup {NoSlot}]
        /\ engine.slot \in Slots \cup {NoSlot}
    BY DEF SlotInv, TypeOK
  <1>2. Streams \subseteq Queues
    BY DEF Queues
  <1>3. CASE UNCHANGED ops
    BY <1>1, <1>3 DEF Behind, Kind, Of, Id, Need
  <1>4. ASSUME NEW p \in Queues, Complete(p) PROVE Behind'
    <2>1. SUFFICES ASSUME NEW q \in Streams, NEW i \in DOMAIN ops'[q], ops'[q][i].kind = "copy",
                          NEW r \in Queues, NEW k \in DOMAIN ops'[r],
                          ops'[r][k].kind = "read", ops'[r][k].memory = ops'[q][i].memory
                   PROVE  \E j \in 1 .. i : ops'[r][k].id \in ops'[q][j].need
      BY DEF Behind, Kind, Of, Id, Need
    <2>2. PICK a \in DOMAIN ops[q] : /\ a = Was(p, q, i) /\ i \in Nat
                                     /\ Kind(q, a) = "copy" /\ Of(q, a) = ops'[q][i].memory
      BY <1>1, <1>2, <1>4, <2>1, CompleteOps
    <2>3. PICK b \in DOMAIN ops[r] : /\ ~(r = p /\ b = 1)
                                     /\ Kind(r, b) = "read" /\ Of(r, b) = ops'[r][k].memory /\ Id(r, b) = ops'[r][k].id
      <3>1. LET b == Was(p, r, k) IN
            /\ b \in DOMAIN ops[r] /\ ~(r = p /\ b = 1)
            /\ ops'[r][k].id = Id(r, b) /\ ops'[r][k].kind = Kind(r, b) /\ ops'[r][k].memory = Of(r, b)
        BY <1>1, <1>4, CompleteOps
      <3>. QED BY <2>1, <3>1
    <2>4. PICK j \in 1 .. a : Id(r, b) \in Need(q, j)
      BY <1>1, <2>1, <2>2, <2>3 DEF Behind
    <2>5. 1 \in DOMAIN ops[p] /\ Need(p, 1) = {}
      BY <1>1, <1>4, CompleteOps
    <2>6. Id(r, b) # Id(p, 1)
      BY <1>1, <2>3, <2>5 DEF Pending
    <2>7. j \in DOMAIN ops[q] /\ ~(q = p /\ j = 1)
      BY <1>1, <1>2, <2>2, <2>4, <2>5, QueueTyped
    <2>8. PICK h \in DOMAIN ops'[q] : j = Was(p, q, h) /\ h \in Nat /\ ops'[q][h].need = Need(q, j) \ {Id(p, 1)}
      <3>1. PICK h \in DOMAIN ops'[q] : j = Was(p, q, h)
        BY <1>1, <1>2, <1>4, <2>7, CompleteOps
      <3>2. h \in Nat /\ ops'[q][h].need = Need(q, Was(p, q, h)) \ {Id(p, 1)}
        BY <1>1, <1>2, <1>4, CompleteOps
      <3>. QED BY <3>1, <3>2
    <2>9. h \in 1 .. i
      <3>1. ops'[q] \in Seq(Operations)
        BY <1>1, <1>2, <1>4, CompleteOps
      <3>2. h >= 1
        BY <2>8, <3>1
      <3>. QED BY <2>2, <2>4, <2>8, <3>2 DEF Was
    <2>. QED BY <2>3, <2>4, <2>6, <2>8, <2>9
  <1>5. ASSUME NEW Q \in SUBSET Queues, NEW o \in Operations, Appended(Q, o),
               o.kind = "read" => /\ Q \subseteq Consumers
                                  /\ \A q \in Queues : \A i \in DOMAIN ops[q] : ~(Kind(q, i) = "copy" /\ Of(q, i) = o.memory),
               o.kind = "copy" => \A q \in Q : \A r \in Queues : \A k \in DOMAIN ops[r] :
                                     Kind(r, k) = "read" /\ Of(r, k) = o.memory => \E j \in DOMAIN ops[q] : Id(r, k) \in Need(q, j)
        PROVE  Behind'
    <2>0. Appended(Q, o) /\ Q \in SUBSET Queues /\ o \in Operations
      BY <1>5
    <2>1. \A r \in Queues : \A i \in DOMAIN ops'[r] :
             \/ i \in DOMAIN ops[r] /\ ops'[r][i] = ops[r][i]
             \/ r \in Q /\ i = Len(ops[r]) + 1 /\ ops'[r][i] = o /\ i \notin DOMAIN ops[r]
      BY <1>1, <2>0, AppendedAre
    <2>2. \A r \in Queues : \A i \in DOMAIN ops[r] : i \in DOMAIN ops'[r] /\ ops'[r][i] = ops[r][i]
      BY <1>1, <2>0, AppendedOps
    <2>3. SUFFICES ASSUME NEW q \in Streams, NEW i \in DOMAIN ops'[q], ops'[q][i].kind = "copy",
                          NEW r \in Queues, NEW k \in DOMAIN ops'[r],
                          ops'[r][k].kind = "read", ops'[r][k].memory = ops'[q][i].memory
                   PROVE  \E j \in 1 .. i : ops'[r][k].id \in ops'[q][j].need
      BY DEF Behind, Kind, Of, Id, Need
    <2>4. q \in Queues /\ Len(ops[q]) \in Nat /\ DOMAIN ops[q] = 1 .. Len(ops[q])
      BY <1>1, <1>2, QueueTyped
    <2>5. CASE i \in DOMAIN ops[q] /\ ops'[q][i] = ops[q][i] /\ k \in DOMAIN ops[r] /\ ops'[r][k] = ops[r][k]
      <3>1. PICK j \in 1 .. i : Id(r, k) \in Need(q, j)
        BY <1>1, <2>3, <2>5 DEF Behind, Kind, Of
      <3>2. j \in DOMAIN ops[q]
        BY <2>4, <2>5, <3>1
      <3>. QED BY <2>2, <2>4, <2>5, <3>1, <3>2 DEF Id, Need
    <2>6. CASE i \in DOMAIN ops[q] /\ ops'[q][i] = ops[q][i] /\ ops'[r][k] = o
      BY <1>5, <2>3, <2>4, <2>6 DEF Kind, Of
    <2>7. CASE q \in Q /\ ops'[q][i] = o /\ i = Len(ops[q]) + 1 /\ k \in DOMAIN ops[r] /\ ops'[r][k] = ops[r][k]
      <3>1. PICK j \in DOMAIN ops[q] : Id(r, k) \in Need(q, j)
        BY <1>5, <2>3, <2>7 DEF Kind, Of
      <3>2. j \in 1 .. i
        BY <2>4, <2>7, <3>1
      <3>. QED BY <2>2, <2>4, <2>7, <3>1, <3>2 DEF Id, Need
    <2>8. CASE ops'[q][i] = o /\ ops'[r][k] = o
      BY <2>3, <2>8
    <2>. QED BY <2>1, <2>4, <2>5, <2>6, <2>7, <2>8
  <1>6. ASSUME NEW c \in Consumers, Launch(c) PROVE Behind'
    <2>1. PICK o \in Operations : /\ Appended({c}, o) /\ o.kind = "read" /\ o.memory = base[lease[c]]
      BY <1>6, LaunchAppends
    <2>2. lease[c] \in Slots /\ published[lease[c]] /\ readyConfirmed[lease[c]]
      BY <1>1, <1>6 DEF Launch, Leases
    <2>3. \A q \in Queues : \A i \in DOMAIN ops[q] : ~(Kind(q, i) = "copy" /\ Of(q, i) = o.memory)
      BY <1>1, <2>1, <2>2 DEF Copies
    <2>. QED BY <1>5, <2>1, <2>3 DEF Queues
  <1>7. CASE Order /\ ops' # ops
    <2>1. PICK o \in Operations : Appended(WaitingStreams, o) /\ o.kind = "wait"
      BY <1>7, OrderAppends
    <2>2. WaitingStreams \in SUBSET Queues
      BY Constants DEF WaitingStreams
    <2>. QED BY <1>5, <2>1, <2>2
  <1>8. ASSUME NEW l \in Lenses, CopyLens(l), ops' # ops PROVE Behind'
    <2>1. PICK o \in Operations : Appended({StreamOf[l]}, o) /\ o.kind = "copy" /\ o.memory = base[engine.slot] /\ o.memory \in Memory
      BY <1>8, CopyAppends
    <2>2. PICK e \in Slots : e = engine.slot /\ writing[e]
      BY <1>1, <1>8, Constants DEF CopyLens, Leases
    <2>3. (\A c \in Consumers : lease[c] # e) /\ releases[e] = {} /\ engine.phase = "copy"
      BY <1>1, <1>8, <2>2, Constants DEF CopyLens, Leases
    <2>4. ASSUME NEW r \in Queues, NEW k \in DOMAIN ops[r], Kind(r, k) = "read", Of(r, k) = o.memory
          PROVE  \E j \in DOMAIN ops[StreamOf[l]] : Id(r, k) \in Need(StreamOf[l], j)
      <3>1. PICK m, id : m \in Memory /\ m = base[e] /\ id = Id(r, k)
        BY <2>1, <2>2
      <3>2. Guard(m, id)
        BY <1>1, <2>1, <2>2, <2>4, <3>1 DEF Guarded
      <3>3. ASSUME NEW s \in Slots, Held(s, m, id) PROVE FALSE
        <4>1. base[s] = base[e] /\ base[e] # NoMemory
          BY <3>1, <3>3, Constants DEF Held, ByRelease
        <4>2. s = e
          BY <1>1, <4>1 DEF Apart
        <4>3. PICK c \in Consumers : ByReader(c, m, id)
          BY <2>3, <3>3, <4>2 DEF Held, ByRelease
        <4>4. lease[c] \in Slots /\ base[lease[c]] = base[e]
          BY <1>1, <3>1, <4>3 DEF ByReader
        <4>. QED BY <1>1, <2>3, <4>1, <4>4 DEF Apart
      <3>4. ~ByOwner(m, id)
        BY <2>3 DEF ByOwner
      <3>5. ~ByDying(m, id)
        BY <1>1, <3>1 DEF ByDying, Apart
      <3>6. ByStreams(id)
        BY <3>2, <3>3, <3>4, <3>5 DEF Guard
      <3>. QED BY <3>1, <3>6 DEF ByStreams
    <2>. QED BY <1>5, <2>1, <2>4, Constants
  <1>. QED BY <1>3, <1>4, <1>6, <1>7, <1>8, OpsCases

\* A copy behind a pending read outlasts the operations that are done before the read,
LEMMA CopyOutlasts ==
  ASSUME SlotInv, NEW p \in Queues, Complete(p),
         NEW q \in Queues, NEW i \in DOMAIN ops[q], Kind(q, i) = "read",
         NEW m \in Memory, m = Of(q, i), NEW done, done = Id(p, 1), NEW S, CopyOf(m, S), NEW T, T = S \ {done}
  PROVE  CopyOf(m, T)'
  <1>1. TypeOK /\ Pending /\ Behind
    BY DEF SlotInv
  <1>2. PICK l \in Lenses : \E k \in DOMAIN ops[StreamOf[l]] :
           Kind(StreamOf[l], k) = "copy" /\ Of(StreamOf[l], k) = m /\ Id(StreamOf[l], k) \in S
    BY DEF CopyOf
  <1>3. PICK r \in Streams : r = StreamOf[l] /\ r \in Queues
    BY Constants
  <1>k. PICK k \in DOMAIN ops[r] : Kind(r, k) = "copy" /\ Of(r, k) = m /\ Id(r, k) \in S
    BY <1>2, <1>3
  <1>4. 1 \in DOMAIN ops[p] /\ Need(p, 1) = {}
    BY <1>1, CompleteOps
  <1>5. PICK j \in 1 .. k : Id(q, i) \in Need(r, j)
    BY <1>1, <1>3, <1>k DEF Behind
  <1>6. ~(r = p /\ k = 1)
    <2>1. CASE k = 1
      BY <1>4, <1>5, <2>1
    <2>. QED BY <2>1
  <1>7. PICK h \in DOMAIN ops'[r] : k = Was(p, r, h)
    BY <1>1, <1>3, <1>k, <1>6, CompleteOps
  <1>8. ops'[r][h].id = Id(r, k) /\ ops'[r][h].kind = Kind(r, k) /\ ops'[r][h].memory = Of(r, k)
    BY <1>1, <1>3, <1>7, CompleteOps
  <1>9. Id(r, k) # done
    BY <1>1, <1>3, <1>k, <1>4, <1>6 DEF Pending
  <1>. QED BY <1>k, <1>3, <1>8, <1>9 DEF CopyOf, Kind, Of, Id

\* and the operations that are added.
LEMMA CopyAdded ==
  ASSUME SlotInv, NEW Q \in SUBSET Queues, NEW o \in Operations, Appended(Q, o), NEW m, NEW S, CopyOf(m, S)
  PROVE  CopyOf(m, S)'
  <1>1. \A r \in Queues : \A i \in DOMAIN ops[r] : i \in DOMAIN ops'[r] /\ ops'[r][i] = ops[r][i]
    BY AppendedOps DEF SlotInv
  <1>. QED BY <1>1, Constants DEF CopyOf, Kind, Of, Id

-----------------------------------------------------------------------------
(* Memory that is still used. *)

\* Decodes only fail once more.
LEMMA BadDecodesGrow == ASSUME TypeOK, [Next]_vars, badDecodes' = 0 PROVE badDecodes = 0
  <1>1. badDecodes \in Nat
    BY StreamAssumption DEF TypeOK
  <1>2. ASSUME NEW l \in Lenses, CopyLens(l) PROVE badDecodes = 0
    BY <1>1, <1>2 DEF CopyLens, BadDecode
  <1>. QED BY <1>2 DEF Next, vars, bounds, Queues, Complete, Pin, Confirm, Launch, TakeEvent, Record, Synchronize, Push, Release, Unpin,
           Reserve, Order, Recycle, Settle, DetachSlots, Trim, Free, Close, DestroyStore, Gone

\* What a copy leaves alone.
LEMMA CopyReady ==
  ASSUME SlotInv, NEW l \in Lenses, CopyLens(l)
  PROVE  /\ engine.slot \in Slots /\ writing[engine.slot] /\ lens[l] = "todo"
         /\ \A s \in Slots, k \in Lenses : (s # engine.slot \/ k # l) => ready'[s][k] = ready[s][k]
         /\ \A i \in PendingOn(StreamOf[l]) : i \in ready[engine.slot][l] => i \in ready'[engine.slot][l]
         /\ \A k \in Lenses \ {l} : lens'[k] = lens[k]
  <1>1. /\ Leases /\ engine.slot \in Slots \cup {NoSlot} /\ ready \in [Slots -> [Lenses -> SUBSET Ids]]
        /\ lens \in [Lenses -> {"todo", "copied", "failed"}]
    BY DEF SlotInv, TypeOK
  <1>2. engine.slot \in Slots /\ writing[engine.slot] /\ lens[l] = "todo"
    BY <1>1, Constants DEF CopyLens, Leases
  <1>3. PICK e, S : e \in Slots /\ e = engine.slot /\ S = PendingOn(StreamOf[l])
    BY <1>2
  <1>4. ready' = ready \/ ready' = [ready EXCEPT ![e][l] = S \cup {FreeId}]
    BY <1>3 DEF CopyLens
  <1>5. /\ \A s \in Slots, k \in Lenses : (s # e \/ k # l) => ready'[s][k] = ready[s][k]
        /\ \A i \in S : i \in ready[e][l] => i \in ready'[e][l]
    BY <1>1, <1>4
  <1>6. \A k \in Lenses \ {l} : lens'[k] = lens[k]
    BY <1>1 DEF CopyLens, BadDecode
  <1>. QED BY <1>2, <1>3, <1>5, <1>6

\* The memory of a copy is its slot's until it is given back, and then waits for it.
LEMMA CopyKeptMoves ==
  ASSUME SlotInv, [Next]_vars, badDecodes' = 0,
         NEW q \in Queues, NEW i \in DOMAIN ops[q], Kind(q, i) = "copy", ~(Complete(q) /\ i = 1),
         NEW m \in Memory, NEW id, m = Of(q, i), id = Id(q, i), CopyKept(q, m, id)
  PROVE  CopyKept(q, m, id)'
  <1>1. /\ TypeOK /\ Pending /\ base \in [Slots -> Memory \cup {NoMemory}]
        /\ ready \in [Slots -> [Lenses -> SUBSET Ids]]
    BY DEF SlotInv, TypeOK
  <1>2. CASE UNCHANGED <<base, ready, dying>>
    BY <1>2 DEF CopyKept, ByDying
  <1>3. ASSUME NEW p \in Queues, Complete(p) PROVE CopyKept(q, m, id)'
    <2>1. id # Id(p, 1)
      <3>1. 1 \in DOMAIN ops[p]
        BY <1>1, <1>3, CompleteOps
      <3>. QED BY <1>1, <1>3, <3>1 DEF Pending
    <2>2. PICK done : done = Id(p, 1)
      OBVIOUS
    <2>3. /\ \A e \in dying : \E d \in dying' : d.memory = e.memory /\ d.until = e.until \ {done}
          /\ \A s \in Slots, l \in Lenses : ready'[s][l] = ready[s][l] \ {done}
          /\ base' = base
      <3>1. TypeOK
        BY <1>1
      <3>2. /\ \A e \in dying : \E d \in dying' : d.memory = e.memory /\ d.until = e.until \ {Id(p, 1)}
            /\ \A s \in Slots, l \in Lenses : ready'[s][l] = ready[s][l] \ {Id(p, 1)}
        BY <1>3, <3>1, CompleteDying
      <3>. QED BY <1>3, <2>2, <3>2 DEF Complete
    <2>. QED BY <2>1, <2>2, <2>3 DEF CopyKept, ByDying
  <1>4. ASSUME NEW s \in Slots, Reserve(s) PROVE CopyKept(q, m, id)'
    <2>1. /\ (\A t \in Slots \ {s} : base'[t] = base[t]) /\ (base[s] # NoMemory => base'[s] = base[s])
      BY <1>1, <1>4 DEF Reserve
    <2>2. \A t \in Slots : base[t] = m => base'[t] = m
      BY <2>1, Constants
    <2>3. ready' = ready /\ dying' = dying
      BY <1>4 DEF Reserve
    <2>. QED BY <2>2, <2>3 DEF CopyKept, ByDying
  <1>5. ASSUME NEW l \in Lenses, CopyLens(l) PROVE CopyKept(q, m, id)'
    <2>1. base' = base /\ dying' = dying
      BY <1>5 DEF CopyLens
    <2>2. id \in PendingOn(q)
      BY <1>1, PendingAre
    <2>3. ASSUME NEW s \in Slots, NEW k \in Lenses, q = StreamOf[k], id \in ready[s][k] PROVE id \in ready'[s][k]
      BY <1>5, <2>2, <2>3, CopyReady
    <2>. QED BY <2>1, <2>3 DEF CopyKept, ByDying
  <1>6. CASE Trim \/ DestroyStore
    <2>1. PICK S \in SUBSET Slots : DetachSlots(S) /\ \A t \in S : base[t] \in Memory
      BY <1>6, DetachCases
    <2>2. /\ \A d \in dying : d \in dying'
          /\ \A t \in S : \E d \in dying' : d.memory = base[t] /\ d.until = Until(t)
          /\ \A t \in Slots \ S : base'[t] = base[t] /\ ready'[t] = ready[t]
      BY <1>1, <2>1, DetachIs
    <2>3. ASSUME NEW s \in S, NEW l \in Lenses, base[s] = m, id \in ready[s][l] PROVE ByDying(m, id)'
      <3>1. id \in Until(s)
        BY <2>3, UntilIs
      <3>. QED BY <2>2, <2>3, <3>1 DEF ByDying
    <2>. QED BY <2>2, <2>3 DEF CopyKept, ByDying
  <1>7. CASE Free
    <2>1. PICK d \in dying : d.until = {} /\ dying' = dying \ {d}
      BY <1>7 DEF Free
    <2>2. base' = base /\ ready' = ready
      BY <1>7 DEF Free, slots
    <2>. QED BY <2>1, <2>2 DEF CopyKept, ByDying
  <1>. QED BY <1>2, <1>3, <1>4, <1>5, <1>6, <1>7
       DEF Next, vars, slots, Queues, Pin, Confirm, Launch, TakeEvent, Record, Synchronize, Push, Release, Unpin, Order,
           Recycle, Settle, Close, Gone

\* While no decode failed, memory with a pending copy stays or waits for it.
LEMMA CopiesKeptStep == ASSUME SlotInv, [Next]_vars PROVE CopiesKept'
  <1>1. TypeOK /\ Pending /\ CopiesKept
    BY DEF SlotInv
  <1>2. SUFFICES ASSUME badDecodes' = 0, NEW q \in Queues, NEW i \in DOMAIN ops'[q], ops'[q][i].kind = "copy"
                 PROVE  \E m \in Memory, id \in Ids : m = ops'[q][i].memory /\ id = ops'[q][i].id /\ CopyKept(q, m, id)'
    BY DEF CopiesKept, CopyKept, ByDying, Kind, Of, Id
  <1>3. ASSUME NEW j \in DOMAIN ops[q], Kind(q, j) = "copy", Of(q, j) = ops'[q][i].memory, Id(q, j) = ops'[q][i].id,
               ~(Complete(q) /\ j = 1)
        PROVE  \E m \in Memory, id \in Ids : m = ops'[q][i].memory /\ id = ops'[q][i].id /\ CopyKept(q, m, id)'
    <2>1. PICK m \in Memory, id \in Ids : m = Of(q, j) /\ id = Id(q, j)
      BY <1>1, <1>3, QueueTyped DEF Pending, Id, Operations
    <2>2. CopyKept(q, m, id)
      BY <1>1, <1>2, <1>3, <2>1, BadDecodesGrow DEF CopiesKept
    <2>3. CopyKept(q, m, id)'
      BY <1>2, <1>3, <2>1, <2>2, CopyKeptMoves
    <2>. QED BY <1>3, <2>1, <2>3
  <1>4. CASE UNCHANGED ops
    <2>1. ~Complete(q)
      BY <1>1, <1>4, NotCompleted
    <2>2. i \in DOMAIN ops[q] /\ Kind(q, i) = "copy" /\ Of(q, i) = ops'[q][i].memory /\ Id(q, i) = ops'[q][i].id
      BY <1>2, <1>4 DEF Kind, Of, Id
    <2>. QED BY <1>3, <2>1, <2>2
  <1>5. ASSUME NEW p \in Queues, Complete(p)
        PROVE  \E m \in Memory, id \in Ids : m = ops'[q][i].memory /\ id = ops'[q][i].id /\ CopyKept(q, m, id)'
    <2>1. LET j == Was(p, q, i) IN
          /\ j \in DOMAIN ops[q] /\ ~(q = p /\ j = 1)
          /\ ops'[q][i].id = Id(q, j) /\ ops'[q][i].kind = Kind(q, j) /\ ops'[q][i].memory = Of(q, j)
      BY <1>1, <1>5, CompleteOps
    <2>2. \A r \in Queues : Complete(r) => r = p
      BY <1>1, <1>5, CompleteOnce
    <2>. QED BY <1>2, <1>3, <2>1, <2>2
  <1>6. ASSUME NEW Q \in SUBSET Queues, NEW o \in Operations, Appended(Q, o),
               o.kind = "copy" => /\ o.memory \in Memory
                                  /\ \A r \in Q, m \in Memory, id \in Ids : m = o.memory /\ id = o.id => CopyKept(r, m, id)'
        PROVE  \E m \in Memory, id \in Ids : m = ops'[q][i].memory /\ id = ops'[q][i].id /\ CopyKept(q, m, id)'
    <2>0. Appended(Q, o) /\ Q \in SUBSET Queues /\ o \in Operations
      BY <1>6
    <2>1. \/ i \in DOMAIN ops[q] /\ ops'[q][i] = ops[q][i]
          \/ q \in Q /\ ops'[q][i] = o
      <3>1. \A r \in Queues : \A n \in DOMAIN ops'[r] :
                \/ n \in DOMAIN ops[r] /\ ops'[r][n] = ops[r][n]
                \/ r \in Q /\ n = Len(ops[r]) + 1 /\ ops'[r][n] = o /\ n \notin DOMAIN ops[r]
        BY <1>1, <2>0, AppendedAre
      <3>. QED BY <3>1
    <2>2. CASE i \in DOMAIN ops[q] /\ ops'[q][i] = ops[q][i]
      <3>1. ~Complete(q)
        <4>1. \A j \in DOMAIN ops[q] : j \in DOMAIN ops'[q]
          BY <1>1, <2>0, AppendedOps
        <4>. QED BY <1>1, <4>1, Shorter
      <3>. QED BY <1>2, <1>3, <2>2, <3>1 DEF Kind, Of, Id
    <2>3. CASE q \in Q /\ ops'[q][i] = o
      <3>1. o.memory \in Memory /\ o.id \in Ids
        BY <1>2, <1>6, <2>0, <2>3 DEF Operations
      <3>2. PICK m \in Memory, id \in Ids : m = o.memory /\ id = o.id
        BY <3>1
      <3>. QED BY <1>2, <1>6, <2>3, <3>2
    <2>. QED BY <2>1, <2>2, <2>3
  <1>. DEFINE Goal == \E m \in Memory, id \in Ids : /\ m = ops'[q][i].memory /\ id = ops'[q][i].id
                                                   /\ CopyKept(q, m, id)'
  <1>7. ASSUME NEW c \in Consumers, Launch(c) PROVE Goal
    <2>1. PICK o \in Operations : Appended({c}, o) /\ o.kind = "read"
      BY <1>7, LaunchAppends
    <2>. QED BY <1>6, <2>1 DEF Queues
  <1>8. CASE Order /\ ops' # ops
    <2>1. PICK o \in Operations : Appended(WaitingStreams, o) /\ o.kind = "wait"
      BY <1>8, OrderAppends
    <2>2. WaitingStreams \in SUBSET Queues
      BY Constants DEF WaitingStreams
    <2>. QED BY <1>6, <2>1, <2>2
  <1>9. ASSUME NEW l \in Lenses, CopyLens(l), ops' # ops PROVE Goal
    <2>1. PICK o \in Operations : /\ Appended({StreamOf[l]}, o) /\ o.kind = "copy"
                                  /\ o.memory = base[engine.slot] /\ o.memory \in Memory
                                  /\ o.id \in ready'[engine.slot][l] \/ badDecodes' > 0
      BY <1>9, CopyAppends
    <2>2. engine.slot \in Slots /\ base' = base
      BY <1>9, CopyReady DEF CopyLens
    <2>3. ASSUME NEW m \in Memory, NEW id \in Ids, m = o.memory, id = o.id PROVE CopyKept(StreamOf[l], m, id)'
      BY <1>2, <2>1, <2>2, <2>3 DEF CopyKept
    <2>. QED BY <1>6, <2>1, <2>3, Constants
  <1>. QED BY <1>4, <1>5, <1>7, <1>8, <1>9, OpsCases

\* A pending read was pending, or was launched just now.
LEMMA ReadWas ==
  ASSUME SlotInv, [Next]_vars, NEW q \in Queues, NEW i \in DOMAIN ops'[q], ops'[q][i].kind = "read"
  PROVE  \/ \E j \in DOMAIN ops[q] : /\ Kind(q, j) = "read" /\ Of(q, j) = ops'[q][i].memory /\ Id(q, j) = ops'[q][i].id
                                     /\ \A p \in Queues : Complete(p) => ~(q = p /\ j = 1)
         \/ q \in Consumers /\ Launch(q) /\ ops'[q][i].memory = base[lease[q]]
  <1>1. TypeOK
    BY DEF SlotInv
  <1>2. CASE UNCHANGED ops
    BY <1>1, <1>2, NotCompleted DEF Kind, Of, Id
  <1>3. ASSUME NEW p \in Queues, Complete(p)
        PROVE  \E j \in DOMAIN ops[q] : /\ Kind(q, j) = "read" /\ Of(q, j) = ops'[q][i].memory /\ Id(q, j) = ops'[q][i].id
                                        /\ \A r \in Queues : Complete(r) => ~(q = r /\ j = 1)
    <2>1. LET j == Was(p, q, i) IN
          /\ j \in DOMAIN ops[q] /\ ~(q = p /\ j = 1)
          /\ ops'[q][i].id = Id(q, j) /\ ops'[q][i].kind = Kind(q, j) /\ ops'[q][i].memory = Of(q, j)
      BY <1>1, <1>3, CompleteOps
    <2>2. \A r \in Queues : Complete(r) => r = p
      BY <1>1, <1>3, CompleteOnce
    <2>. QED BY <2>1, <2>2
  <1>4. ASSUME NEW Q \in SUBSET Queues, NEW o \in Operations, Appended(Q, o)
        PROVE  \/ \E j \in DOMAIN ops[q] : /\ Kind(q, j) = "read" /\ Of(q, j) = ops'[q][i].memory /\ Id(q, j) = ops'[q][i].id
                                           /\ \A p \in Queues : Complete(p) => ~(q = p /\ j = 1)
               \/ q \in Q /\ ops'[q][i] = o
    <2>0. Appended(Q, o) /\ Q \in SUBSET Queues /\ o \in Operations
      BY <1>4
    <2>1. \/ i \in DOMAIN ops[q] /\ ops'[q][i] = ops[q][i]
          \/ q \in Q /\ ops'[q][i] = o
      <3>1. \A r \in Queues : \A n \in DOMAIN ops'[r] :
                \/ n \in DOMAIN ops[r] /\ ops'[r][n] = ops[r][n]
                \/ r \in Q /\ n = Len(ops[r]) + 1 /\ ops'[r][n] = o /\ n \notin DOMAIN ops[r]
        BY <1>1, <2>0, AppendedAre
      <3>. QED BY <3>1
    <2>2. \A r \in Queues : \A j \in DOMAIN ops[r] : j \in DOMAIN ops'[r]
      BY <1>1, <2>0, AppendedOps
    <2>3. \A r \in Queues : ~Complete(r)
      BY <1>1, <2>2, Shorter
    <2>. QED BY <2>1, <2>3 DEF Kind, Of, Id
  <1>5. ASSUME NEW c \in Consumers, Launch(c), ops'[q][i].memory # base[lease[q]] \/ q # c
        PROVE  \E j \in DOMAIN ops[q] : /\ Kind(q, j) = "read" /\ Of(q, j) = ops'[q][i].memory /\ Id(q, j) = ops'[q][i].id
                                        /\ \A p \in Queues : Complete(p) => ~(q = p /\ j = 1)
    <2>1. PICK o \in Operations : Appended({c}, o) /\ o.memory = base[lease[c]]
      BY <1>5, LaunchAppends
    <2>. QED BY <1>4, <1>5, <2>1 DEF Queues
  <1>6. ASSUME Order, ops' # ops
        PROVE  \E j \in DOMAIN ops[q] : /\ Kind(q, j) = "read" /\ Of(q, j) = ops'[q][i].memory /\ Id(q, j) = ops'[q][i].id
                                        /\ \A p \in Queues : Complete(p) => ~(q = p /\ j = 1)
    <2>1. PICK o \in Operations : Appended(WaitingStreams, o) /\ o.kind = "wait"
      BY <1>6, OrderAppends
    <2>2. WaitingStreams \in SUBSET Queues
      BY Constants DEF WaitingStreams
    <2>. QED BY <1>4, <2>1, <2>2
  <1>7. ASSUME NEW l \in Lenses, CopyLens(l), ops' # ops
        PROVE  \E j \in DOMAIN ops[q] : /\ Kind(q, j) = "read" /\ Of(q, j) = ops'[q][i].memory /\ Id(q, j) = ops'[q][i].id
                                        /\ \A p \in Queues : Complete(p) => ~(q = p /\ j = 1)
    <2>1. PICK o \in Operations : Appended({StreamOf[l]}, o) /\ o.kind = "copy"
      BY <1>7, CopyAppends
    <2>. QED BY <1>4, <2>1, Constants
  <1>. QED BY <1>2, <1>3, <1>5, <1>6, <1>7, OpsCases

\* A call that copies nothing is a decode that failed.
LEMMA CopyOrBad == ASSUME SlotInv, NEW l \in Lenses, CopyLens(l), UNCHANGED ops PROVE badDecodes' > 0
  <1>. DEFINE o == Op(FreeId, "copy", base[engine.slot], {})
              r == StreamOf[l]
  <1>1. ops[r] \in Seq(Operations) /\ r \in DOMAIN ops
    BY QueueTyped, Constants DEF SlotInv, TypeOK, Queues
  <1>2. CASE ops' = [ops EXCEPT ![r] = Append(@, o)]
    <2>. HIDE DEF o, r
    <2>1. ops[r] = Append(ops[r], o)
      BY <1>1, <1>2
    <2>2. PICK s \in Seq(Operations) : s = ops[r]
      BY <1>1
    <2>3. Len(Append(s, o)) = Len(s) + 1 /\ Len(s) \in Nat
      OBVIOUS
    <2>. QED BY <2>1, <2>2, <2>3
  <1>3. CASE BadDecode(l)
    <2>1. badDecodes \in Nat
      BY StreamAssumption DEF SlotInv, TypeOK
    <2>. QED BY <1>3, <2>1 DEF BadDecode
  <1>. QED BY <1>2, <1>3 DEF CopyLens

\* A pending read is held by its slot's readers, or a copy of each lens is behind it or will be.
LEMMA ReadBeforeMoves ==
  ASSUME SlotInv, [Next]_vars, badDecodes' = 0,
         NEW q \in Queues, NEW i \in DOMAIN ops[q], Kind(q, i) = "read",
         \A p \in Queues : Complete(p) => ~(q = p /\ i = 1),
         NEW m \in Memory, NEW id, m = Of(q, i), id = Id(q, i),
         NEW s \in Slots, base'[s] = m, base[s] = m => ReadBefore(s, m, id)
  PROVE  ReadBefore(s, m, id)'
  <1>1. /\ TypeOK /\ Leases /\ base \in [Slots -> Memory \cup {NoMemory}]
        /\ writing \in [Slots -> BOOLEAN] /\ lens \in [Lenses -> {"todo", "copied", "failed"}]
        /\ ready \in [Slots -> [Lenses -> SUBSET Ids]]
        /\ engine.slot \in Slots \cup {NoSlot}
    BY DEF SlotInv, TypeOK
  <1>2. CASE Reserve(s)
    <2>1. writing'[s] /\ \A l \in Lenses : lens'[l] # "copied"
      BY <1>1, <1>2 DEF Reserve, Todo
    <2>. QED BY <2>1 DEF ReadBefore
  <1>3. ASSUME ~Reserve(s) PROVE base[s] = m
    <2>1. CASE base' = base
      BY <2>1
    <2>2. ASSUME NEW t \in Slots, Reserve(t) PROVE base[s] = m
      BY <1>1, <1>3, <2>2 DEF Reserve
    <2>3. CASE Trim \/ DestroyStore
      <3>1. PICK S \in SUBSET Slots : DetachSlots(S) /\ \A t \in S : base[t] \in Memory
        BY <2>3, DetachCases
      <3>2. /\ \A t \in S : base'[t] = NoMemory
            /\ \A t \in Slots \ S : base'[t] = base[t]
        BY <1>1, <3>1, DetachIs
      <3>. QED BY <3>2, Constants
    <2>. QED BY <2>1, <2>2, <2>3
         DEF Next, vars, slots, Queues, Complete, Pin, Confirm, Launch, TakeEvent, Record, Synchronize, Push, Release, Unpin,
             Order, Recycle, CopyLens, Settle, Free, Close, Gone
  <1>4. CASE Held(s, m, id)
    <2>1. CASE UNCHANGED ops
      BY <1>2, <1>4, <2>1, HeldMoves DEF ReadBefore
    <2>2. ASSUME NEW p \in Queues, Complete(p) PROVE ReadBefore(s, m, id)'
      BY <1>4, <2>2, GuardOutlasts DEF ReadBefore
    <2>3. ASSUME NEW c \in Consumers, Launch(c) PROVE ReadBefore(s, m, id)'
      <3>1. PICK o \in Operations : Appended({c}, o)
        BY <2>3, LaunchAppends
      <3>2. /\ \A b \in Consumers : pc[b] # "leased" => pc'[b] = pc[b]
            /\ UNCHANGED <<base, covers, releases, waits, dying, lease, event, engine>>
            /\ {c} \in SUBSET Queues
        BY <2>3 DEF Launch, slots, owner, Queues, SlotInv, TypeOK
      <3>. QED BY <1>4, <3>1, <3>2, GuardAdded DEF ReadBefore
    <2>4. CASE Order /\ ops' # ops
      <3>1. PICK o \in Operations : Appended(WaitingStreams, o) /\ \A e \in waits : covers[e] \subseteq o.need
        BY <2>4, OrderAppends
      <3>2. /\ UNCHANGED <<base, covers, releases, waits, dying, lease, event, pc>> /\ WaitingStreams \in SUBSET Queues
        BY <2>4, Constants DEF Order, slots, consumer, WaitingStreams
      <3>. QED BY <1>4, <3>1, <3>2, GuardAdded DEF ReadBefore
    <2>5. ASSUME NEW l \in Lenses, CopyLens(l), ops' # ops PROVE ReadBefore(s, m, id)'
      <3>1. PICK o \in Operations : Appended({StreamOf[l]}, o)
        BY <2>5, CopyAppends
      <3>2. /\ UNCHANGED <<base, covers, releases, waits, dying, lease, event, pc, engine>> /\ {StreamOf[l]} \in SUBSET Queues
        BY <2>5, Constants DEF CopyLens, consumer
      <3>. QED BY <1>4, <3>1, <3>2, GuardAdded DEF ReadBefore
    <2>. QED BY <2>1, <2>2, <2>3, <2>4, <2>5, OpsCases
  <1>5. ASSUME ~Reserve(s), \A l \in Lenses : (writing[s] /\ lens[l] # "copied") \/ CopyOf(m, ready[s][l]), NEW l \in Lenses
        PROVE  (writing'[s] /\ lens'[l] # "copied") \/ CopyOf(m, ready[s][l])'
    <2>1. (writing[s] /\ lens[l] # "copied") \/ CopyOf(m, ready[s][l])
      BY <1>5
    <2>2. PICK S, T : S = ready[s][l] /\ T = ready'[s][l]
      OBVIOUS
    <2>3. CopyOf(m, T)' => CopyOf(m, ready[s][l])'
      BY <2>2 DEF CopyOf
    <2>4. CopyOf(m, ready[s][l]) => CopyOf(m, S)
      BY <2>2 DEF CopyOf
    <2>5. CASE UNCHANGED ops
      <3>1. T = S /\ CopyOf(m, S) => CopyOf(m, T)'
        BY <2>5 DEF CopyOf, Kind, Of, Id
      <3>2. CASE UNCHANGED <<writing, lens>> /\ T = S
        BY <2>1, <2>3, <2>4, <3>1, <3>2
      <3>3. ASSUME NEW t \in Slots, Reserve(t) PROVE ready' = ready /\ ~writing[s]
        BY <1>1, <3>3, Constants DEF Reserve, NoOwner, Leases
      <3>4. ASSUME NEW k \in Lenses, CopyLens(k) PROVE FALSE
        BY <2>5, <3>4, CopyOrBad
      <3>5. CASE Settle
        <4>1. ready' = ready /\ \A k \in Lenses : lens[k] # "todo"
          BY <3>5 DEF Settle
        <4>2. \A k \in Lenses : lens[k] # "failed"
          <5>1. badDecodes = 0
            BY <1>1, BadDecodesGrow
          <5>. QED BY <1>1, <5>1 DEF Leases
        <4>3. CopyOf(m, S)
          BY <1>1, <2>1, <2>4, <4>1, <4>2
        <4>. QED BY <2>2, <2>3, <3>1, <4>1, <4>3
      <3>6. CASE Trim \/ DestroyStore
        <4>1. PICK D \in SUBSET Slots : DetachSlots(D) /\ \A t \in D : base[t] \in Memory
          BY <3>6, DetachCases
        <4>2. /\ \A t \in D : base'[t] = NoMemory
              /\ \A t \in Slots \ D : ready'[t] = ready[t]
              /\ UNCHANGED <<writing, lens>>
          BY <1>1, <4>1, DetachIs
        <4>3. T = S
          BY <2>2, <4>2, Constants
        <4>. QED BY <3>2, <4>2, <4>3
      <3>7. ASSUME NEW t \in Slots, Reserve(t) PROVE CopyOf(m, ready[s][l])'
        BY <2>1, <2>2, <2>3, <2>4, <3>1, <3>3, <3>7
      <3>8. ~\E p \in Queues : Complete(p)
        BY <1>1, <2>5, NotCompleted
      <3>9. CASE UNCHANGED <<writing, lens, ready>>
        BY <2>2, <3>2, <3>9
      <3>. QED BY <3>4, <3>5, <3>6, <3>7, <3>8, <3>9
           DEF Next, vars, slots, owner, Queues, Pin, Confirm, Launch, TakeEvent, Record, Synchronize, Push, Release, Unpin,
               Order, Recycle, Free, Close, Gone
    <2>6. ASSUME NEW p \in Queues, Complete(p) PROVE (writing'[s] /\ lens'[l] # "copied") \/ CopyOf(m, T)'
      <3>1. UNCHANGED <<writing, lens>>
        BY <2>6 DEF Complete, owner
      <3>2. PICK done : done = Id(p, 1)
        OBVIOUS
      <3>3. T = S \ {done}
        BY <1>1, <2>2, <2>6, <3>2, CompleteDying
      <3>4. CopyOf(m, S) => CopyOf(m, T)'
        BY <2>6, <3>2, <3>3, CopyOutlasts
      <3>. QED BY <2>1, <2>4, <3>1, <3>4
    <2>7. ASSUME NEW Q \in SUBSET Queues, NEW o \in Operations, Appended(Q, o), T = S,
                 writing[s] /\ lens[l] # "copied" => writing'[s] /\ lens'[l] # "copied"
          PROVE  (writing'[s] /\ lens'[l] # "copied") \/ CopyOf(m, T)'
      <3>1. CopyOf(m, S) => CopyOf(m, T)'
        BY <2>7, CopyAdded
      <3>. QED BY <2>1, <2>4, <2>7, <3>1
    <2>8. ASSUME NEW c \in Consumers, Launch(c) PROVE (writing'[s] /\ lens'[l] # "copied") \/ CopyOf(m, T)'
      <3>1. PICK o \in Operations : Appended({c}, o)
        BY <2>8, LaunchAppends
      <3>2. UNCHANGED <<writing, lens, ready>> /\ {c} \in SUBSET Queues
        BY <2>8 DEF Launch, slots, owner, Queues
      <3>. QED BY <2>2, <2>7, <3>1, <3>2
    <2>9. ASSUME Order, ops' # ops PROVE (writing'[s] /\ lens'[l] # "copied") \/ CopyOf(m, T)'
      <3>1. PICK o \in Operations : Appended(WaitingStreams, o)
        BY <2>9, OrderAppends
      <3>2. UNCHANGED <<writing, lens, ready>> /\ WaitingStreams \in SUBSET Queues
        BY <2>9, Constants DEF Order, slots, WaitingStreams
      <3>. QED BY <2>2, <2>7, <3>1, <3>2
    <2>10. ASSUME NEW k \in Lenses, CopyLens(k), ops' # ops PROVE (writing'[s] /\ lens'[l] # "copied") \/ CopyOf(m, T)'
      <3>1. PICK o \in Operations : /\ Appended({StreamOf[k]}, o) /\ o.kind = "copy" /\ o.memory = base[engine.slot]
                                    /\ o.id \in ready'[engine.slot][k] \/ badDecodes' > 0
        BY <2>10, CopyAppends
      <3>2. /\ engine.slot \in Slots /\ writing' = writing /\ {StreamOf[k]} \in SUBSET Queues
            /\ \A t \in Slots, n \in Lenses : (t # engine.slot \/ n # k) => ready'[t][n] = ready[t][n]
            /\ \A n \in Lenses \ {k} : lens'[n] = lens[n]
        BY <2>10, CopyReady, Constants DEF CopyLens
      <3>3. CASE s = engine.slot /\ l = k
        <4>1. o.id \in T /\ o.memory = m
          BY <1>3, <1>5, <2>2, <3>1, <3>3
        <4>2. \E n \in DOMAIN ops'[StreamOf[k]] : ops'[StreamOf[k]][n] = o
          BY <1>1, <3>1, <3>2, AppendedLast
        <4>. QED BY <3>1, <3>3, <4>1, <4>2 DEF CopyOf, Kind, Of, Id
      <3>4. CASE s # engine.slot
        <4>1. ~writing[s] /\ T = S
          BY <1>1, <2>2, <3>2, <3>4 DEF Leases
        <4>. QED BY <2>7, <3>1, <3>2, <4>1
      <3>5. CASE s = engine.slot /\ l # k
        <4>1. T = S /\ lens'[l] = lens[l]
          BY <2>2, <3>2, <3>5
        <4>. QED BY <2>7, <3>1, <3>2, <4>1
      <3>. QED BY <3>3, <3>4, <3>5
    <2>. QED BY <2>3, <2>5, <2>6, <2>8, <2>9, <2>10, OpsCases
  <1>6. CASE ~Reserve(s) /\ \A l \in Lenses : (writing[s] /\ lens[l] # "copied") \/ CopyOf(m, ready[s][l])
    BY <1>5, <1>6 DEF ReadBefore
  <1>. QED BY <1>2, <1>3, <1>4, <1>6 DEF ReadBefore

\* While no decode failed, a slot's pending reads are held by it or have copies behind them.
LEMMA ReadsBeforeStep == ASSUME SlotInv, [Next]_vars PROVE ReadsBefore'
  <1>1. TypeOK /\ Pending /\ ReadsBefore /\ Leases
    BY DEF SlotInv
  <1>2. SUFFICES ASSUME badDecodes' = 0, NEW q \in Queues, NEW i \in DOMAIN ops'[q], NEW s \in Slots,
                        ops'[q][i].kind = "read", ops'[q][i].memory = base'[s]
                 PROVE  \E m \in Memory, id \in Ids : m = ops'[q][i].memory /\ id = ops'[q][i].id /\ ReadBefore(s, m, id)'
    <2>1. SUFFICES ASSUME badDecodes' = 0, NEW q \in Queues, NEW i \in DOMAIN ops'[q], NEW s \in Slots,
                          ops'[q][i].kind = "read", ops'[q][i].memory = base'[s],
                          NEW m \in Memory, NEW id \in Ids, m = ops'[q][i].memory, id = ops'[q][i].id, ReadBefore(s, m, id)'
                   PROVE  ReadBefore(s, Of(q, i), Id(q, i))'
      BY DEF ReadsBefore, Kind, Of
    <2>2. PICK n, k : n = Of(q, i)' /\ k = Id(q, i)'
      OBVIOUS
    <2>3. m = n /\ id = k
      BY <2>1, <2>2 DEF Of, Id
    <2>4. ReadBefore(s, n, k)'
      BY <2>1, <2>3
    <2>5. Held(s, n, k)' => Held(s, Of(q, i), Id(q, i))'
      BY <2>2 DEF Held, ByReader, ByRelease
    <2>6. \A l \in Lenses : CopyOf(n, ready[s][l])' => CopyOf(Of(q, i), ready[s][l])'
      BY <2>2 DEF CopyOf
    <2>. QED BY <2>4, <2>5, <2>6 DEF ReadBefore
  <1>3. ASSUME NEW j \in DOMAIN ops[q], Kind(q, j) = "read", Of(q, j) = ops'[q][i].memory, Id(q, j) = ops'[q][i].id,
               \A p \in Queues : Complete(p) => ~(q = p /\ j = 1)
        PROVE  \E m \in Memory, id \in Ids : m = ops'[q][i].memory /\ id = ops'[q][i].id /\ ReadBefore(s, m, id)'
    <2>1. PICK m \in Memory, id \in Ids : m = Of(q, j) /\ id = Id(q, j)
      BY <1>1, <1>3, QueueTyped DEF Pending, Id, Operations
    <2>2. base[s] = m => ReadBefore(s, m, id)
      BY <1>1, <1>2, <1>3, <2>1, BadDecodesGrow DEF ReadsBefore
    <2>3. ReadBefore(s, m, id)'
      BY <1>2, <1>3, <2>1, <2>2, ReadBeforeMoves
    <2>. QED BY <1>3, <2>1, <2>3
  <1>4. ASSUME q \in Consumers, Launch(q), ops'[q][i].memory = base[lease[q]]
        PROVE  \E m \in Memory, id \in Ids : m = ops'[q][i].memory /\ id = ops'[q][i].id /\ ReadBefore(s, m, id)'
    <2>1. base[lease[q]] \in Memory /\ lease[q] # NoSlot
      BY <1>1, <1>4, LaunchAppends DEF Launch, Leases
    <2>2. ops'[q][i].id \in Ids
      <3>1. ops' \in [Queues -> Seq(Operations)]
        BY TypeStep DEF TypeOK, Queues
      <3>2. ops'[q][i] \in Operations
        BY <3>1
      <3>. QED BY <3>2 DEF Operations
    <2>3. PICK m \in Memory, id \in Ids : m = ops'[q][i].memory /\ id = ops'[q][i].id
      BY <1>4, <2>1, <2>2
    <2>4. pc'[q] = "reading" /\ UNCHANGED <<base, lease>>
      BY <1>1, <1>4 DEF Launch, slots, TypeOK
    <2>5. ByReader(q, m, id)'
      BY <1>4, <2>1, <2>3, <2>4 DEF ByReader, Id
    <2>. QED BY <1>2, <1>4, <2>3, <2>5 DEF ReadBefore, Held
  <1>. QED BY <1>2, <1>3, <1>4, ReadWas

\* The memory of a pending read is its slot's until it is given back, and then waits for it or for a copy behind it.
LEMMA ReadKeptMoves ==
  ASSUME SlotInv, [Next]_vars,
         NEW q \in Queues, NEW i \in DOMAIN ops[q], Kind(q, i) = "read",
         \A p \in Queues : Complete(p) => ~(q = p /\ i = 1),
         NEW m \in Memory, NEW id, m = Of(q, i), id = Id(q, i),
         ReadKept(m, id), \A s \in Slots : base[s] = m => ReadBefore(s, m, id)
  PROVE  ReadKept(m, id)'
  <1>1. TypeOK /\ Apart /\ Pending /\ base \in [Slots -> Memory \cup {NoMemory}]
        /\ lease \in [Consumers -> Slots \cup {NoSlot}]
    BY DEF SlotInv, TypeOK
  <1>2. ASSUME NEW s \in Slots, base[s] = m PROVE ReadKept(m, id)'
    <2>1. CASE base' = base
      BY <1>2, <2>1 DEF ReadKept
    <2>2. ASSUME NEW t \in Slots, Reserve(t) PROVE ReadKept(m, id)'
      <3>1. (\A u \in Slots \ {t} : base'[u] = base[u]) /\ (base[t] # NoMemory => base'[t] = base[t])
        BY <1>1, <2>2 DEF Reserve
      <3>2. base'[s] = m
        BY <1>2, <3>1, Constants
      <3>. QED BY <3>2 DEF ReadKept
    <2>3. CASE Trim \/ DestroyStore
      <3>1. PICK S \in SUBSET Slots : /\ DetachSlots(S)
                                      /\ \A t \in S : base[t] \in Memory /\ ~writing[t] /\ \A c \in Consumers : lease[c] # t
        BY <2>3, DetachCases
      <3>2. /\ \A t \in S : \E d \in dying' : d.memory = base[t] /\ d.until = Until(t)
            /\ \A t \in Slots \ S : base'[t] = base[t]
            /\ ops' = ops
        BY <1>1, <3>1, DetachIs
      <3>3. CASE s \notin S
        BY <1>2, <3>2, <3>3 DEF ReadKept
      <3>4. CASE s \in S
        <4>1. PICK d \in dying' : d.memory = m /\ d.until = Until(s)
          BY <1>2, <3>2, <3>4
        <4>2. \A c \in Consumers : ~ByReader(c, m, id)
          <5>1. SUFFICES ASSUME NEW c \in Consumers, ByReader(c, m, id) PROVE FALSE
            OBVIOUS
          <5>2. lease[c] \in Slots /\ base[lease[c]] = base[s] /\ base[s] # NoMemory
            BY <1>1, <1>2, <5>1, Constants DEF ByReader
          <5>3. lease[c] = s
            BY <1>1, <5>2 DEF Apart
          <5>. QED BY <3>1, <3>4, <5>3
        <4>3. CASE ByRelease(s, m, id)
          <5>1. id \in Until(s)
            BY <4>3, UntilIs DEF ByRelease
          <5>. QED BY <4>1, <5>1 DEF ReadKept, ByDying
        <4>4. CASE \A l \in Lenses : (writing[s] /\ lens[l] # "copied") \/ CopyOf(m, ready[s][l])
          <5>1. 0 \in Lenses /\ CopyOf(m, ready[s][0])
            BY <3>1, <3>4, <4>4 DEF Lenses
          <5>2. \A n : n \in ready[s][0] => n \in d.until
            BY <4>1, <5>1, UntilIs
          <5>3. PICK l \in Lenses : \E n \in DOMAIN ops[StreamOf[l]] :
                    /\ Kind(StreamOf[l], n) = "copy" /\ Of(StreamOf[l], n) = m /\ Id(StreamOf[l], n) \in d.until
            BY <5>1, <5>2 DEF CopyOf
          <5>4. CopyOf(m, d.until)'
            BY <3>2, <5>3 DEF CopyOf, Kind, Of, Id
          <5>. QED BY <4>1, <5>4 DEF ReadKept
        <4>. QED BY <1>2, <4>2, <4>3, <4>4 DEF ReadBefore, Held
      <3>. QED BY <3>3, <3>4
    <2>. QED BY <2>1, <2>2, <2>3
         DEF Next, vars, slots, Queues, Complete, Pin, Confirm, Launch, TakeEvent, Record, Synchronize, Push, Release, Unpin,
             Order, Recycle, CopyLens, Settle, Free, Close, Gone
  <1>3. \A d \in dying : d.until = {} \/ d \in dying' \/ \E p \in Queues : Complete(p)
    <2>1. CASE Free
      BY <2>1 DEF Free
    <2>2. CASE Trim \/ DestroyStore
      BY <2>2 DEF Trim, DestroyStore, DetachSlots
    <2>3. CASE UNCHANGED dying
      BY <2>3
    <2>. QED BY <2>1, <2>2, <2>3
         DEF Next, vars, Queues, Pin, Confirm, Launch, TakeEvent, Record, Synchronize, Push, Release, Unpin, Reserve,
             Order, Recycle, CopyLens, Settle, Close, Gone
  <1>4. ASSUME NEW p \in Queues, Complete(p)
        PROVE  \A e \in dying : \E d \in dying' : d.memory = e.memory /\ d.until = e.until \ {Id(p, 1)}
    BY <1>1, <1>4, CompleteDying
  <1>5. ASSUME NEW p \in Queues, Complete(p) PROVE id # Id(p, 1)
    <2>1. 1 \in DOMAIN ops[p]
      BY <1>1, <1>5, CompleteOps
    <2>. QED BY <1>1, <1>5, <2>1 DEF Pending
  <1>6. ASSUME NEW e \in dying, e.memory = m, id \in e.until PROVE ReadKept(m, id)'
    <2>1. CASE e \in dying'
      BY <1>6, <2>1 DEF ReadKept, ByDying
    <2>2. ASSUME NEW p \in Queues, Complete(p) PROVE ReadKept(m, id)'
      BY <1>4, <1>5, <1>6, <2>2 DEF ReadKept, ByDying
    <2>. QED BY <1>3, <1>6, <2>1, <2>2
  <1>7. ASSUME NEW e \in dying, e.memory = m, CopyOf(m, e.until) PROVE ReadKept(m, id)'
    <2>1. PICK S : S = e.until
      OBVIOUS
    <2>2. CopyOf(m, S) /\ S # {}
      BY <1>7, <2>1 DEF CopyOf
    <2>3. ASSUME NEW p \in Queues, Complete(p) PROVE ReadKept(m, id)'
      <3>1. PICK done, T : done = Id(p, 1) /\ T = S \ {done}
        OBVIOUS
      <3>2. CopyOf(m, T)'
        BY <2>2, <2>3, <3>1, CopyOutlasts
      <3>3. PICK d \in dying' : d.memory = m /\ d.until = T
        BY <1>4, <1>7, <2>1, <2>3, <3>1
      <3>4. CopyOf(m, d.until)'
        BY <3>2, <3>3 DEF CopyOf
      <3>. QED BY <3>3, <3>4 DEF ReadKept
    <2>4. ASSUME e \in dying', CopyOf(m, S)' PROVE ReadKept(m, id)'
      BY <1>7, <2>1, <2>4 DEF ReadKept, CopyOf
    <2>5. ASSUME ~\E p \in Queues : Complete(p) PROVE e \in dying'
      BY <1>3, <2>1, <2>2, <2>5
    <2>6. CASE UNCHANGED ops
      <3>1. CopyOf(m, S)'
        BY <2>2, <2>6 DEF CopyOf, Kind, Of, Id
      <3>. QED BY <2>3, <2>4, <2>5, <3>1
    <2>7. ASSUME NEW c \in Consumers, Launch(c) PROVE ReadKept(m, id)'
      <3>1. PICK o \in Operations : Appended({c}, o)
        BY <2>7, LaunchAppends
      <3>. QED BY <2>2, <2>3, <2>4, <2>5, <3>1, CopyAdded DEF Queues
    <2>8. CASE Order /\ ops' # ops
      <3>1. PICK o \in Operations : Appended(WaitingStreams, o)
        BY <2>8, OrderAppends
      <3>2. WaitingStreams \in SUBSET Queues
        BY Constants DEF WaitingStreams
      <3>. QED BY <2>2, <2>3, <2>4, <2>5, <3>1, <3>2, CopyAdded
    <2>9. ASSUME NEW l \in Lenses, CopyLens(l), ops' # ops PROVE ReadKept(m, id)'
      <3>1. PICK o \in Operations : Appended({StreamOf[l]}, o)
        BY <2>9, CopyAppends
      <3>. QED BY <2>2, <2>3, <2>4, <2>5, <3>1, CopyAdded, Constants
    <2>. QED BY <2>3, <2>6, <2>7, <2>8, <2>9, OpsCases
  <1>. QED BY <1>2, <1>6, <1>7 DEF ReadKept, ByDying

\* While no decode failed, memory with a pending read stays or waits for it.
LEMMA ReadsKeptStep == ASSUME SlotInv, [Next]_vars PROVE ReadsKept'
  <1>1. TypeOK /\ Pending /\ ReadsBefore /\ ReadsKept /\ Leases
    BY DEF SlotInv
  <1>2. SUFFICES ASSUME badDecodes' = 0, NEW q \in Queues, NEW i \in DOMAIN ops'[q], ops'[q][i].kind = "read"
                 PROVE  \E m, id : m \in Memory /\ m = ops'[q][i].memory /\ id = ops'[q][i].id /\ ReadKept(m, id)'
    BY DEF ReadsKept, ReadKept, ByDying, CopyOf, Kind, Of, Id
  <1>3. ASSUME NEW j \in DOMAIN ops[q], Kind(q, j) = "read", Of(q, j) = ops'[q][i].memory, Id(q, j) = ops'[q][i].id,
               \A p \in Queues : Complete(p) => ~(q = p /\ j = 1)
        PROVE  \E m, id : m \in Memory /\ m = ops'[q][i].memory /\ id = ops'[q][i].id /\ ReadKept(m, id)'
    <2>1. PICK m, id : m \in Memory /\ m = Of(q, j) /\ id = Id(q, j)
      BY <1>1, <1>3 DEF Pending
    <2>2. badDecodes = 0
      BY <1>1, <1>2, BadDecodesGrow
    <2>3. ReadKept(m, id) /\ \A s \in Slots : base[s] = m => ReadBefore(s, m, id)
      BY <1>1, <1>3, <2>1, <2>2 DEF ReadsBefore, ReadsKept
    <2>4. ReadKept(m, id)'
      BY <1>3, <2>1, <2>3, ReadKeptMoves
    <2>. QED BY <1>3, <2>1, <2>4
  <1>4. ASSUME q \in Consumers, Launch(q), ops'[q][i].memory = base[lease[q]]
        PROVE  \E m, id : m \in Memory /\ m = ops'[q][i].memory /\ id = ops'[q][i].id /\ ReadKept(m, id)'
    <2>1. base[lease[q]] \in Memory /\ lease[q] \in Slots /\ base' = base
      BY <1>1, <1>4, LaunchAppends DEF Launch, Leases, TypeOK, slots
    <2>. QED BY <1>4, <2>1 DEF ReadKept
  <1>. QED BY <1>2, <1>3, <1>4, ReadWas

-----------------------------------------------------------------------------
(* The theorems. *)

\* Every slot starts with memory of its own, and nothing is leased or pending.
LEMMA SlotInvInit == Init => SlotInv
  <1>. SUFFICES ASSUME Init PROVE SlotInv
    OBVIOUS
  <1>1. /\ ops = [q \in Consumers \cup Streams |-> <<>>] /\ created = {} /\ eventPool = {} /\ waits = {} /\ dying = {}
        /\ engine = NoOwner /\ lens = Todo /\ closed = FALSE
        /\ pins = [s \in Slots |-> 0]
        /\ writing = [s \in Slots |-> FALSE] /\ published = [s \in Slots |-> FALSE]
        /\ readyConfirmed = [s \in Slots |-> FALSE] /\ releases = [s \in Slots |-> {}]
        /\ pc = [c \in Consumers |-> "idle"] /\ lease = [c \in Consumers |-> NoSlot]
        /\ event = [c \in Consumers |-> NoEvent]
        /\ base \in [Slots -> Memory] /\ \A s, t \in Slots : base[s] = base[t] => s = t
    BY DEF Init
  <1>2. \A q \in Queues : ops[q] = <<>> /\ DOMAIN ops[q] = {}
    BY <1>1 DEF Queues
  <1>3. TypeOK
    <2>1. ops \in [Consumers \cup Streams -> Seq(Operations)]
      BY <1>1
    <2>2. covers \in [Events -> SUBSET Ids] /\ ready \in [Slots -> [Lenses -> SUBSET Ids]]
      BY DEF Init, NoReady
    <2>3. /\ fills \in 0 .. MaxFills /\ failures \in 0 .. MaxFailures
          /\ badDecodes \in 0 .. MaxBadDecodes /\ trims \in 0 .. MaxTrims
      BY StreamAssumption DEF Init
    <2>. QED BY <1>1, <2>1, <2>2, <2>3 DEF TypeOK, NoOwner, Todo
  <1>4. Homes
    BY <1>1 DEF Homes
  <1>5. Leases
    <2>1. \A s \in Slots : pins[s] = Cardinality({c \in Consumers : lease[c] = s})
      <3>. SUFFICES ASSUME NEW s \in Slots PROVE pins[s] = Cardinality({c \in Consumers : lease[c] = s})
        OBVIOUS
      <3>1. {c \in Consumers : lease[c] = s} = {}
        BY <1>1, Constants
      <3>. QED BY <1>1, <3>1, FS_EmptySet
    <2>2. engine.phase = "free" /\ engine.slot = NoSlot /\ \A l \in Lenses : lens[l] = "todo"
      BY <1>1 DEF NoOwner, Todo
    <2>3. \A s \in Slots : s # NoSlot
      BY Constants
    <2>. QED BY <1>1, <2>1, <2>2, <2>3 DEF Leases
  <1>6. Apart
    BY <1>1 DEF Apart
  <1>7. Pending /\ Copies /\ Guarded /\ CopiesKept /\ ReadsKept /\ ReadsBefore
    BY <1>2 DEF Pending, Copies, Guarded, CopiesKept, ReadsKept, ReadsBefore
  <1>8. Behind
    BY <1>2 DEF Behind, Queues
  <1>. QED BY <1>3, <1>4, <1>5, <1>6, <1>7, <1>8 DEF SlotInv

\* And it stays so, for any interleaving of consumers, the engine's owner, trims and the driver.
LEMMA SlotInvInvariant == Spec => []SlotInv
  <1>1. SlotInv /\ [Next]_vars => SlotInv'
    <2>. SUFFICES ASSUME SlotInv, [Next]_vars PROVE SlotInv'
      OBVIOUS
    <2>. QED BY TypeStep, HomesStep, LeasesStep, ApartStep, PendingStep, CopiesStep, GuardedStep, BehindStep,
                CopiesKeptStep, ReadsKeptStep, ReadsBeforeStep
             DEF SlotInv
  <1>. QED BY <1>1, SlotInvInit, PTL DEF Spec

\* What is pending, by its place in a queue.
LEMMA AllOpsAre == \A o \in AllOps : \E q \in Queues : \E i \in DOMAIN ops[q] : o = ops[q][i]
  BY DEF AllOps, OpsOf, Queues

\* The streams, events, slots, leases and the memory on its way back hold what
\* they are declared to hold.
THEOREM SlotTypeCorrect == Spec => []TypeOK
  <1>1. SlotInv => TypeOK
    BY DEF SlotInv
  <1>. QED BY <1>1, SlotInvInvariant, PTL

\* A decoded picture never lands in memory a kernel still reads: on its stream each
\* copy comes behind waits for every pending read of that memory, whichever way the
\* reader released it and whatever calls on its events failed (GpuFrameLease, decodeLens).
THEOREM CopiesComeBehindReads == Spec => []CopiesWaitForReads
  <1>1. SlotInv => CopiesWaitForReads
    <2>. SUFFICES ASSUME SlotInv, NEW q \in Streams, NEW i \in DOMAIN ops[q], ops[q][i].kind = "copy",
                         NEW r \in AllOps, r.kind = "read", r.memory = ops[q][i].memory
                  PROVE  \E j \in 1 .. i : r.id \in ops[q][j].need
      BY DEF CopiesWaitForReads, Reads
    <2>1. PICK p \in Queues : \E k \in DOMAIN ops[p] : r = ops[p][k]
      BY AllOpsAre
    <2>2. PICK k \in DOMAIN ops[p] : r = ops[p][k]
      BY <2>1
    <2>3. Behind
      BY DEF SlotInv
    <2>4. Kind(q, i) = "copy" /\ Kind(p, k) = "read" /\ Of(p, k) = Of(q, i)
      BY <2>2 DEF Kind, Of
    <2>5. \E j \in 1 .. i : Id(p, k) \in Need(q, j)
      BY <2>3, <2>4 DEF Behind
    <2>. QED BY <2>2, <2>5 DEF Id, Need
  <1>. QED BY <1>1, SlotInvInvariant, PTL

\* Each release event is in the pool, in one slot's list, in the owner's waits or in one
\* consumer's hand, and never in two of them (recordRelease, reserveSlotLocked).
THEOREM EventsHaveOneHome == Spec => []OneHome
  <1>1. SlotInv => OneHome
    <2>. SUFFICES ASSUME SlotInv, NEW e \in created
                  PROVE  Cardinality({s \in Slots : e \in releases[s]}) + Cardinality({c \in Consumers : event[c] = e})
                            + (IF e \in eventPool THEN 1 ELSE 0) + (IF e \in waits THEN 1 ELSE 0) = 1
      BY DEF OneHome
    <2>. DEFINE S == {s \in Slots : e \in releases[s]}
                C == {c \in Consumers : event[c] = e}
    <2>1. Homes /\ e # NoEvent
      BY Constants DEF SlotInv, TypeOK
    <2>2. /\ S = {} \/ \E s \in Slots : S = {s}
          /\ C = {} \/ \E c \in Consumers : C = {c}
      BY <2>1 DEF Homes
    <2>3. Cardinality({}) = 0 /\ \A x : Cardinality({x}) = 1
      BY FS_EmptySet, FS_Singleton
    <2>4. /\ Cardinality(S) = IF S = {} THEN 0 ELSE 1
          /\ Cardinality(C) = IF C = {} THEN 0 ELSE 1
      BY <2>2, <2>3
    <2>5. /\ S # {} => C = {} /\ e \notin eventPool /\ e \notin waits
          /\ C # {} => e \notin eventPool /\ e \notin waits
          /\ ~(e \in eventPool /\ e \in waits)
      BY <2>1 DEF Homes
    <2>6. S # {} \/ C # {} \/ e \in eventPool \/ e \in waits
      BY <2>1 DEF Homes
    <2>. HIDE DEF S, C
    <2>7. Cardinality(S) + Cardinality(C) + (IF e \in eventPool THEN 1 ELSE 0) + (IF e \in waits THEN 1 ELSE 0) = 1
      BY <2>4, <2>5, <2>6
    <2>. QED BY <2>7 DEF S, C
  <1>. QED BY <1>1, SlotInvInvariant, PTL

\* A lease that was handed out shows a complete picture until it goes: nobody fills
\* its slot or takes its memory, and no copy into it is pending (acquire, makeLease).
THEOREM LeasesShowCompletePictures == Spec => []LeaseIsComplete
  <1>1. SlotInv => LeaseIsComplete
    <2>. SUFFICES ASSUME SlotInv, NEW c \in Consumers, pc[c] \notin {"idle", "pinned"}
                  PROVE  /\ base[lease[c]] # NoMemory /\ ~writing[lease[c]] /\ published[lease[c]]
                         /\ \A o \in AllOps : ~(o.kind = "copy" /\ o.memory = base[lease[c]])
      BY DEF LeaseIsComplete
    <2>1. Leases /\ Copies /\ lease[c] \in Slots \cup {NoSlot}
      BY DEF SlotInv, TypeOK
    <2>2. PICK s \in Slots : s = lease[c]
      BY <2>1 DEF Leases
    <2>3. published[s] /\ readyConfirmed[s] /\ base[s] # NoMemory /\ ~writing[s]
      BY <2>1, <2>2, Constants DEF Leases
    <2>4. ASSUME NEW o \in AllOps, o.kind = "copy", o.memory = base[s] PROVE FALSE
      <3>1. PICK q \in Queues : \E i \in DOMAIN ops[q] : o = ops[q][i]
        BY AllOpsAre
      <3>2. PICK i \in DOMAIN ops[q] : o = ops[q][i]
        BY <3>1
      <3>3. Kind(q, i) = "copy" /\ Of(q, i) = base[s]
        BY <2>4, <3>2 DEF Kind, Of
      <3>. QED BY <2>1, <2>3, <3>3 DEF Copies
    <2>. QED BY <2>2, <2>3, <2>4
  <1>. QED BY <1>1, SlotInvInvariant, PTL

\* Memory given back to the driver is not used by a pending kernel or copy, as long
\* as no decode failed (trimForIdle, ~GpuFrameStore).
THEOREM FreedMemoryIsUnused == Spec => []FreedIsUnused
  <1>1. SlotInv => FreedIsUnused
    <2>. SUFFICES ASSUME SlotInv, badDecodes = 0, NEW o \in AllOps, o.memory # NoMemory
                  PROVE  \/ \E s \in Slots : base[s] = o.memory
                         \/ \E d \in dying : d.memory = o.memory /\ d.until # {}
      BY DEF FreedIsUnused
    <2>1. TypeOK /\ Pending /\ CopiesKept /\ ReadsKept
      BY DEF SlotInv
    <2>2. PICK q \in Queues : \E i \in DOMAIN ops[q] : o = ops[q][i]
      BY AllOpsAre
    <2>3. PICK i \in DOMAIN ops[q] : o = ops[q][i]
      BY <2>2
    <2>4. Kind(q, i) \in {"read", "copy"}
      <3>1. ops[q][i] \in Operations
        BY <2>1, QueueTyped
      <3>. QED BY <2>1, <2>3, <3>1 DEF Pending, Kind, Of, Operations
    <2>5. CASE Kind(q, i) = "copy"
      <3>1. CopyKept(q, Of(q, i), Id(q, i))
        BY <2>1, <2>5 DEF CopiesKept
      <3>. QED BY <2>3, <3>1 DEF CopyKept, ByDying, Of
    <2>6. CASE Kind(q, i) = "read"
      <3>1. ReadKept(Of(q, i), Id(q, i))
        BY <2>1, <2>6 DEF ReadsKept
      <3>2. \A m, X : CopyOf(m, X) => X # {}
        BY DEF CopyOf
      <3>. QED BY <2>3, <3>1, <3>2 DEF ReadKept, ByDying, Of
    <2>. QED BY <2>4, <2>5, <2>6
  <1>. QED BY <1>1, SlotInvInvariant, PTL
=============================================================================
