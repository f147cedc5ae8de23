SPECIFICATION FairCaptureSpec
CONSTANTS
    Stubborn = {}
    Resident = {"helper"}
    MaxLines = 2
    PipeSize = 1
    MaxBytes = 1
PROPERTY CallerReturns
