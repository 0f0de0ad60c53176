SPECIFICATION FairSpec
CONSTANTS
    RamAddresses = {"ram"}
    Lanes <- MCLanes
    Requests <- MCRequests
    UART_DIV = 1
    CounterBits = 2
    None = None
INVARIANTS
    AnswersThisRequest
PROPERTIES
    ImplementsMemory
    OneLoadPerByte
    ImplementsLink
    Served
