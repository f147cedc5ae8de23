SPECIFICATION BatchSpec
CONSTANTS
    k1 = k1
    k2 = k2
    None = None
    Items = {k1}
    NameOf <- MCNameOf
    MaxSuffix = 1
    Stubborn = {}
    Resident = {}
    MaxLines = 1
    PipeSize = 1
    LineCap = 2
PROPERTIES
    FinishedFilesStay
