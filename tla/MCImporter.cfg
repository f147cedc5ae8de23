SPECIFICATION ImporterSpec
CONSTANTS
    p1 = p1
    p2 = p2
    None = None
    Count = 5
    Files <- MCFiles
    MaxIdle = 1
    MaxFailures = 1
    Clips = {p1, p2}
    Engines = {e1}
    Renders = {"r1"}
    Blobs = {"pq", "hlg"}
    Defaults = "pq"
    MaxOpens = 2
    MaxCalls = 3
    Frames <- MCFrames
    Sun <- MCSun
    Tolerance = 1
    BucketFrames = 2
    MaxModels = 1
    MaxBuckets = 2
    Borrow = 1
    MaxUpsets = 2
    k1 = k1
    k2 = k2
    Items = {k1, k2}
    NameOf <- MCNameOf
    MaxSuffix = 2
    Stubborn = {}
    Resident = {}
    MaxLines = 1
    PipeSize = 1
    LineCap = 1
SYMMETRY MCSymmetry
INVARIANTS
    ShowsTheFrame
    RefusalTeaches
    DamageIsNotShown
    WarmIsCurrent
    NewestWins
    FrameIsAsReported
    ModelsFit
    FinishedIsComplete
    OneRender
    NoOrphans
    DoneIsFinished
PROPERTIES
    EditStays
    AnswerIsKept
CHECK_DEADLOCK FALSE
