SPECIFICATION NegotiationSpec
CONSTANTS
    Names <- MCNames
    Methods <- MCMethods
    Files <- MCFiles
    Loads <- MCLoads
    Accepts <- MCAccepts
    Gunzipped <- MCGunzipped
    IndexName <- MCIndexName
    DirRedirect = TRUE
    None = None
INVARIANTS
    NegotiationTypeOK
    WalkStaysInside
    IndexResolves
    HeadersDescribeBody
    AcceptableForm
    RevalidatesByETag
    NotModifiedIsTrue
    LoggedStatusIsSent
