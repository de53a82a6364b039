SPECIFICATION CommandsSpec
CONSTANTS
    ZipNames <- MCZipNames
    CommandLines <- MCCommandLines
    Arguments <- MCArguments
    ZipFiles <- MCZipFiles
    SortNames <- MCSortNames
    SortFiles <- MCSortFiles
    SortLines <- MCSortLines
    Unpicked = Unpicked
    Extracts <- MCExtracts
    Targets <- MCTargets
    Layouts <- MCLayouts
    TailSize = 16
    EndSize = 4
    Pages <- MCPages
    Docs <- MCDocs
    Sites <- MCSites
    NoSite = NoSite
    Names <- MCNames
    MovedTo <- MCMovedTo
INVARIANTS
    TableIsComplete
    OnlyGoneIsRemoved
    NewestIsChosen
    LastIsChosen
    ContentDecides
    CrashHasCause
    PickIsBest
    SortIsComplete
    SelfSortIsReported
    NamesTellTheForm
    CutIsReported
    TrimIsExact
    RefusedHasCause
    LinksSurviveMove
    FilteredIsWhole
    HangHasCause
CHECK_DEADLOCK FALSE
