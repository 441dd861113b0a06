SPECIFICATION FairSpec
CONSTANTS
    Procs = {p1, p2}
    Materials = {1}
    RequestIds = {c1, c2}
    Quantities = {1}
    Times = {1}
    Kinds = {"CREATE", "MINI"}
    Isolation = "REPEATABLE READ"
    MaxEdits = 1
PROPERTY EveryRequestEnds
CHECK_DEADLOCK FALSE
