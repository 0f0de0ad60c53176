SPECIFICATION Spec
CONSTANTS
    Top = 1
    Lanes <- MCLanes
    Words = 2
    Baseline = FALSE
INVARIANTS
    ResultIsGolden
CHECK_DEADLOCK FALSE
