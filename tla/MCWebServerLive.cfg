SPECIFICATION FairSpec
CONSTANTS
    NArchives = 1
    MaxWrites = 2
    MaxSignals = 1
    ListenerFails = TRUE
    Rewritten <- First
    Replaced <- Neither
    Requests <- OneRequest
    Loaders <- Goroutines
    r1 = r1
    r2 = r2
    Torn = Torn
    NoOne = NoOne
    None = None
    Garbled = Garbled
    Closed = Closed
PROPERTIES
    RequestAnswered
    ReloadFinishes
    ShutdownEnds
    AutoreloadSettles
