SPECIFICATION FairSpec
CONSTANTS
    Channels = {feishu, dingtalk}
    Events = {outbound}
    Admins = {a1}
    Workers = {w1, w2}
    MaxAttempts = 2
    RetryMinutes <- Delays
    Lease = 2
    Prompt = TRUE
    KeyChanges = TRUE
    MaxDeliveries = 2
    MaxFaults = 2
    MaxSaves = 2
INVARIANTS OneHolder DuplicateOnlyAfterFailure AttemptsBounded
PROPERTIES FinalStays EveryDeliveryEnds
CHECK_DEADLOCK FALSE
