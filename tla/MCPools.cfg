SPECIFICATION PoolsSpec
CONSTANTS
    t1 = t1
    t2 = t2
    a1 = a1
    a2 = a2
    r1 = r1
    r2 = r2
    Workers = {t1, t2}
    Callers = {a1, a2}
    Ranges <- MCRanges
    Word = 8
    MaxCalls = 2
    MaxSpurious = 1
    Items = {a1, a2}
    Keys = {"key"}
    KeyOf <- MCKeyOf
    NoKey = "no key"
    Users = {t1, t2}
    Reapers = {r1, r2}
    NoReaper = "no reaper"
    Limits = {0, 1, 2}
    MaxIdleCalls = 3
    MaxFailures = 1
    MaxTimeouts = 0
    MaxSettings = 1
SYMMETRY MCSymmetry
INVARIANTS
    JobOutlivesWorkers
    OneOwner
    ReaperWatches
PROPERTY
    ImplementsParallelFor
