SPECIFICATION Spec
CONSTANTS
    MaxSample = 6
    MaxTime = 1
    NumChannel = 3
    Depth = 3
INVARIANTS
    OrderedUnlessForced
    Conserved
    WaitsForSilentOnly
CHECK_DEADLOCK FALSE
