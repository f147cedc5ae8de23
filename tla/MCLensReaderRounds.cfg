SPECIFICATION Spec
CONSTANTS
    None = None
    Count = 7
    Files <- MCFiles
    MaxIdle = 1
    MaxFailures = 0
INVARIANT FourRoundsSuffice
