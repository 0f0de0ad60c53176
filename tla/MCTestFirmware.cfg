\* The test firmware, interrupted anywhere: see MCTestFirmware for the set-ups.
SPECIFICATION FairSpec
CONSTANTS
    W = 4
    CARRY_CHAIN = 2
    Registers <- MCRegisters
    ResetPc = 0
    IrqPc <- MCIrqPc
    BITMAP_SIZE = 64
    Setups <- MCSetups
    Counters <- MCCounters
INVARIANTS
    IrqsCounted
    ConsoleRight
    TrapMeansPassed
PROPERTIES
    Finishes
