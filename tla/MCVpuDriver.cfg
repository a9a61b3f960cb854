SPECIFICATION FairSpec
CONSTANTS
    Encoders = {"e1"}
    Decoders = {"d1", "d2"}
    NumSlots = 2
    MaxInstance = 2
    MaxEnc = 1
    MaxDec = 1
    MaxOpen = 3
    MaxCommand = 3
    MaxFault = 1
INVARIANTS
    SlotsAgree
    PoweredWhileUsed
    OwnAnswer
    LeftClean
PROPERTIES
    CallReturns
CHECK_DEADLOCK FALSE
