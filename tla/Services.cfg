SPECIFICATION AllSpec
CONSTANTS
    one = one
    two = two
    Requests = {r1, r2}
    MaxMembers = 2
    MaxAsked = 5
    Openids <- WeChatIds
    Settings <- RegistrationSettings
    MaxUsers = 3
    AccountRequests = 5
    Searches = {s1, s2}
    Admins = {a1, a2}
    Terms = {one}
    Configs = {one, two}
    Off = Off
    TTL = 1
    MaxCached = 1
    MaxSaves = 2
    SearchTime = 2
    Callers = {c1, c2}
    Codes = {one, two}
    Lifetimes = {2, 7}
    Margin = 5
    Least = 1
    MaxCalls = 4
    CodeTime = 8
    Contents = {one}
    MaxFiles = 2
    ImageRequests = 4
    Rows <- SheetRows
    Sheets <- UploadedSheets
    HeaderSearch = 2
    BatchSize = 2
    Names = {one, two}
    Units = {one, two}
    Quantities = {0, 1}
    MaxMaterials = 2
    MaxDrafts = 1
    StockRequests = 3
INVARIANTS
    TypesOK
    TokenAliveWhenSent
    RecordedImageReadable
    NoStrayFiles
    RenewalKnowsPassword
    ShownTokenIsAccepted
    OneMaterialPerIdentity
PROPERTIES
    NewAccountFollowsSetting
    MergeKeepsIdentities
    ServedAnswerFits
    ImportIsTheSheet
CHECK_DEADLOCK FALSE
