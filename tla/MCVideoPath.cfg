SPECIFICATION FairSpec
CONSTANTS
    NumBuffer = 4
    m_SamplingFrame = 2
    MaxCall = 2
INVARIANTS
    Counted
    MemoryOnce
    EnoughQueued
PROPERTIES
    Progress
CHECK_DEADLOCK FALSE
