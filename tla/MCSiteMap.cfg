SPECIFICATION Spec
CONSTANTS
    Names <- ThreeNames
    Parallel = 2
    ChanCap = 1
    MaxFaults = 0
    NoName = NoName
    SiteMap = SiteMap
    a = a
    b = b
    c = c
    d = d
SYMMETRY NameSymmetry
CHECK_DEADLOCK FALSE
INVARIANT
    SiteMapIsWritten
