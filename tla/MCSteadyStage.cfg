SPECIFICATION FairSpec
CONSTANTS
    s1 = s1
    s2 = s2
    rig = rig
    blend = blend
    params = params
    None = None
    Stages = {s1, s2}
    Requests <- MCRequests
    Sharing = {TRUE}
    MaxCachedClips = 1
    MaxGenerations = 3
    MaxFailures = 1
INVARIANTS
    SnapshotIsOfRequest
PROPERTIES
    MeasuresOnce RequestSettles
CHECK_DEADLOCK FALSE
