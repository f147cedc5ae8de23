SPECIFICATION Spec
CONSTANTS
    c1 = c1
    c2 = c2
    FrameCount = 4
    LensSyncs <- MCSyncs
    Runs <- MCRuns
    Capacity = 3
    DecodeAhead = 8
    MaxSequentialStep = 1
    Callers <- MCCallers
    Keeps = {0, 1}
    MaxHeld = 1
    MaxAcquires = 2
    MaxFailures = 1
    MaxTrims = 1
    MaxDrops = 0
PROPERTY RefusedMeansLeased
