SPECIFICATION FairSpec
CONSTANTS
    Types = {t1, t2}
    Jobs = {j1, j2, j3}
    MaxStops = 1
INVARIANTS
    OneActivePerType
    TableIsLastImport
PROPERTY EveryImportEnds
CHECK_DEADLOCK FALSE
