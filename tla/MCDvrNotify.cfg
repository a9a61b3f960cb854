SPECIFICATION FairSpec
CONSTANTS
    Producer = {p1, p2}
    Codes = {"DONE", "MOTION"}
    Depth = 2
    Paced = TRUE
    MaxMessage = 4
    MaxRun = 2
INVARIANTS
    RingExact
PROPERTIES
    OnceInOrder
    DeliveredUnlessStopped
CHECK_DEADLOCK FALSE
