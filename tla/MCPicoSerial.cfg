SPECIFICATION FairSpec
CONSTANTS
    Base = 4
    Width = 8
    Regs <- MCRegs
    STACKADDR = 16
    X = X
    NoWord = NoWord
    WITH_PCPI = TRUE
    ENABLE_REGS_DUALPORT = FALSE
    BARREL_SHIFTER = FALSE
    TWO_STAGE_SHIFT = TRUE
    TWO_CYCLE_ALU = TRUE
    TWO_CYCLE_COMPARE = TRUE
    TimeoutMax = 15
    Programs <- MCPrograms
    Mix = "mixed"
PROPERTIES
    ImplementsIsa
    Progress
