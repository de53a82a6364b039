SPECIFICATION FairSpec
CONSTANTS
    Names <- FourNames
    Parallel = 2
    ChanCap = 1
    MaxFaults = 2
    NoName = NoName
    SiteMap = SiteMap
    a = a
    b = b
    c = c
    d = d
CHECK_DEADLOCK FALSE
INVARIANTS
    TypeOK
    OutputUntouchedWhileReading
    SuccessIsComplete
    FailedWorkerIsNoticed
PROPERTY
    Returns
