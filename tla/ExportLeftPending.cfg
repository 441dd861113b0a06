SPECIFICATION Spec
CONSTANTS
    Jobs = {j1, j2}
    MaxStops = 1
INVARIANT NoneLeftBehind
CHECK_DEADLOCK FALSE
