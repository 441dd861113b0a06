SPECIFICATION FairSpec
CONSTANTS
    Lines = {1, 2, 3}
    HeaderOf <- TwoHeaders
    TraceOf <- Straddling
    Platform <- Answers
    NoTrace = "t0"
    Editors = {e1}
    Limit = 1
    MaxEdits = 2
PROPERTIES
    SyncFillsBlanks
    EveryTargetSynced
CHECK_DEADLOCK FALSE
