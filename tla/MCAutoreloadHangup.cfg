SPECIFICATION FairSpec
CONSTANTS
    NArchives = 1
    MaxWrites = 1
    MaxSignals = 1
    ListenerFails = FALSE
    Rewritten <- First
    Replaced <- Neither
    Requests <- OneRequest
    Loaders <- Goroutines
    r1 = r1
    r2 = r2
    Torn = Torn
    NoOne = NoOne
    None = None
    Garbled = Garbled
    Closed = Closed
PROPERTY
    AutoreloadSettlesUnderHangup
