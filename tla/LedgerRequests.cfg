SPECIFICATION Spec
CONSTANTS
    Materials = {m1, m2}
    RequestIds = {c1, c2, c3}
    Quantities = {1, 2}
    Times = {1}
    Sources = {"MANUAL"}
    MaxEdits = 1
SYMMETRY Symmetric
INVARIANTS
    TypeOK
    BalanceIsRunning
    RemainingWithinQuantity
    ChainUnbroken
    ReversalsAccountedFor
    ReversalMirrorsOriginal
PROPERTIES
    HistoryIsKept
CHECK_DEADLOCK FALSE
