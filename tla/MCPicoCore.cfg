SPECIFICATION Spec
CONSTANTS
    Base = 4
    Width = 8
    Regs <- MCRegs
    STACKADDR = 16
    X = X
    NoWord = NoWord
    WITH_PCPI = TRUE
    ENABLE_REGS_DUALPORT = TRUE
    BARREL_SHIFTER = TRUE
    TWO_STAGE_SHIFT = TRUE
    TWO_CYCLE_ALU = FALSE
    TWO_CYCLE_COMPARE = FALSE
    TimeoutMax = 15
    Programs <- MCPrograms
    Mix = "each"
INVARIANTS
    RequestsMatchState
    StagesAgree
    TimeoutSparesPixels
PROPERTIES
    BusProtocol
    ImplementsIsa
