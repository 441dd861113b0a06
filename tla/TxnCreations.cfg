SPECIFICATION Spec
CONSTANTS
    Procs = {p1, p2}
    Materials = {1, 2}
    RequestIds = {c1, c2}
    Quantities = {1}
    Times = {1}
    Kinds = {"CREATE", "MINI"}
    Isolation = "READ COMMITTED"
    MaxEdits = 1
SYMMETRY Symmetric
INVARIANT DeadlockNeedsMini
PROPERTY SerialSpec
CHECK_DEADLOCK FALSE
