SPECIFICATION FairSpec
CONSTANTS
    NormalDuration = 5
    EventDuration = 4
    Gap = 1
    MaxGop = 2
    MaxLag = 1
    PacedEvents = {TRUE}
    PacedModes = TRUE
PROPERTIES
    StopReturns
CHECK_DEADLOCK FALSE
