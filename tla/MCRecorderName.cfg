SPECIFICATION Spec
CONSTANTS
    NormalDuration = 5
    EventDuration = 4
    Gap = 1
    MaxGop = 2
    MaxLag = 1
    PacedEvents = {FALSE}
    PacedModes = TRUE
INVARIANTS
    AnnouncedByName
CHECK_DEADLOCK FALSE
