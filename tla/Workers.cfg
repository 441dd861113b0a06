SPECIFICATION AllSpec
CONSTANTS
    Requests = {r1, r2}
    Days = {1, 2}
    DailyLimit = 3
    BatchSize = 1
    MaxNeeds = 2
    MaxRequests = 5
    Jobs = {j1, j2}
    MaxStops = 2
    Users = {u1, u2}
    Durations = {1, 3}
    Permanent = Permanent
    MaxShares = 2
    MaxEdits = 2
    MaxTime = 5
INVARIANTS
    EachNeedOnce
    PlanNoIdentifiesNeed
    OnlyCancelledLacksFile
PROPERTIES
    NeedsLive
    MovedPlansLeave
    StartedExportEnds
    WorkingLinksStay
CHECK_DEADLOCK FALSE
