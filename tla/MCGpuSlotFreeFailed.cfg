SPECIFICATION Spec
CONSTANTS
    c1 = c1
    c2 = c2
    q0 = q0
    q1 = q1
    e1 = e1
    e2 = e2
    e3 = e3
    Slots = {s1}
    Memory = {m1, m2}
    Consumers <- MCConsumers
    Streams <- MCStreams
    StreamOf <- MCStreamOf
    Events <- MCEvents
    NoMemory = NoMemory
    NoSlot = NoSlot
    NoEvent = NoEvent
    MaxPending = 5
    MaxFills = 2
    MaxFailures = 0
    MaxBadDecodes = 2
    MaxTrims = 1
SYMMETRY Symmetric
INVARIANT FreedIsUnread
