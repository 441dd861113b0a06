SPECIFICATION Spec
CONSTANTS
    Procs = {p1, p2}
    Materials = {1}
    RequestIds = {c1, c2, c3}
    Quantities = {1}
    Times = {1}
    Kinds = {"CREATE", "REVERSE", "UPDATE"}
    Isolation = "READ COMMITTED"
    MaxEdits = 1
SYMMETRY Symmetric
INVARIANT ReversedWithinQuantity
PROPERTY NoLostEdit
CHECK_DEADLOCK FALSE
