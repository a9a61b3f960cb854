SPECIFICATION Spec
CONSTANTS
    MaxByte = 4
    Kinds <- NormalOnly
    MaxRun = 1
    MaxFail = 0
    Spurious = FALSE
    NumUnit = 3
    SizeUnit = 2
    Sizes = {1, 2, 3}
INVARIANTS
    DoneFileComplete
CHECK_DEADLOCK FALSE
