SPECIFICATION CommandsSpec
CONSTANTS
    ZipNames <- MCZipNames
    CommandLines <- MCCommandLines
    Arguments <- MCArguments
    ZipFiles <- MCZipFiles
    SortNames <- MCSortNames
    SortFiles <- MCSortFiles
    SortLines <- MCSortLines
    Unpicked = Unpicked
    Extracts <- MCExtracts
    Targets <- MCTargets
    Layouts <- MCLayouts
    TailSize = 16
    EndSize = 4
    Pages <- MCPages
    Docs <- MCDocs
    Sites <- MCSites
    NoSite = NoSite
    Names <- MCNames
    MovedTo <- MCMovedTo
INVARIANT SortedArchiveIsReadable
CHECK_DEADLOCK FALSE
