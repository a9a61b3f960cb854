SPECIFICATION FairSpec
CONSTANTS
    MaxFile = 4
    MaxSize = 2
    maxSize = 2
    MaxFail = 2
    MaxSession = 2
INVARIANTS
    Accounted
    InSight
PROPERTIES
    OldestFirst
    QuotaRestored
CHECK_DEADLOCK FALSE
