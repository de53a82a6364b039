SPECIFICATION FairSpec
CONSTANTS
    NArchives = 2
    MaxWrites = 1
    MaxSignals = 0
    ListenerFails = FALSE
    Rewritten <- Second
    Replaced <- Neither
    Requests <- OneRequest
    Loaders <- Goroutines
    r1 = r1
    r2 = r2
    Torn = Torn
    NoOne = NoOne
    None = None
    Garbled = Garbled
    Closed = Closed
PROPERTY
    AutoreloadFollowsEveryArchive
