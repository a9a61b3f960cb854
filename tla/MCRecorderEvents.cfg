SPECIFICATION FairSpec
CONSTANTS
    NormalDuration = 5
    EventDuration = 4
    Gap = 1
    MaxGop = 2
    MaxLag = 1
    PacedEvents = {TRUE, FALSE}
    PacedModes = TRUE
INVARIANTS
    ManagerAgrees
PROPERTIES
    SessionSpec
    EventRecorded
CHECK_DEADLOCK FALSE
