SPECIFICATION Spec
CONSTANTS
    Top = 2
    Lanes <- MCLanes
INVARIANTS
    IInv
    AnswersCurrentRequest
    FixedLatency
    WaitExactlyForLegal
