SPECIFICATION Spec
CONSTANTS
    Procs = {p1, p2}
    Materials = {1}
    RequestIds = {c1, c2, c3}
    Quantities = {1, 2}
    Times = {1}
    Kinds = {"CREATE"}
    Isolation = "REPEATABLE READ"
    MaxEdits = 1
SYMMETRY Symmetric
INVARIANT BalanceMatchesLedger
CHECK_DEADLOCK FALSE
