SPECIFICATION LiveSpec
CONSTANTS
    Last = 7
    Sample <- MCSample
    Capacity = 3
    InputSize = 1
    Codecs = 2
    None = None
    MaxFailures = 2
    Stubborn = {"leader"}
    Resident = {"leader"}
    MaxLines = 4
    PipeSize = 2
    MaxBytes = 3
INVARIANTS
    CaptureIsComplete
PROPERTIES
    CallsReturn NothingKeptForever CaptureReturns SinkEnds RenderEnds OutputInOrder
