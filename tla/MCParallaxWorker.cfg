SPECIFICATION PartsSpec
CONSTANTS
    None = None
    Frames = {3, 4}
    BucketFrames = 2
    MaxMeshes = 2
    MaxUpsets = 2
    Modules = {"importer", "effect"}
    Process <- MCProcess
    Prefs = {"pq", "hlg"}
    Size <- MCSize
    Builtin = "built-in"
    MaxChanges = 2
    MaxMishaps = 1
INVARIANTS
    FinalIsSequential
    ExactIsFinal
    StandInIsCurrent
    NeverTorn
    CacheFollowsFile
CHECK_DEADLOCK FALSE
