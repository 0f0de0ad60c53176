SPECIFICATION Spec
CONSTANTS
    Number_Of_Runs = 2
    Offsets = {0, 1, 2, 3}
    Texts <- MCTexts
    Garbage = {0, 129}
    Times = {27, 40013}
    Insns = {9, 10007}
INVARIANTS
    FinalValues
    CommentsHold
PROPERTIES
    OnlyTheCopy
