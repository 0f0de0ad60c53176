SPECIFICATION FairSpec
CONSTANTS
    Top = 255
    Lanes = {0, 1, 2, 3}
    Pixels = 4
    Block = 2
    None = None
    Sessions <- MCSessions
    MaxTroubles = 2
INVARIANTS
    CleanSessionSucceeds
    SuccessLeavesReady
    OneDirection
PROPERTIES
    SessionsEnd
CHECK_DEADLOCK FALSE
