SPECIFICATION Spec
CONSTANTS
    Lines = {1, 2, 3}
    HeaderOf <- TwoHeaders
    TraceOf <- Straddling
    Platform <- Answers
    NoTrace = "t0"
    Editors = {e1}
    Limit = 1
    MaxEdits = 1
PROPERTY StaleEditRefused
CHECK_DEADLOCK FALSE
