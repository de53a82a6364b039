SPECIFICATION Spec
CONSTANTS
    NArchives = 2
    MaxWrites = 2
    MaxSignals = 1
    ListenerFails = FALSE
    Rewritten <- First
    Replaced <- Second
    Requests <- BothRequests
    Loaders <- Goroutines
    r1 = r1
    r2 = r2
    Torn = Torn
    NoOne = NoOne
    None = None
    Garbled = Garbled
    Closed = Closed
SYMMETRY RequestSymmetry
INVARIANTS
    TypeOK
    AnswersFromOneLoad
    BodyIsIndexed
    InstalledArchivesAreOpen
    HandlerInv
PROPERTY
    ImplementsAtomicArchive
