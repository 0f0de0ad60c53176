SPECIFICATION Spec
CONSTANTS
    Links <- MCLinks
    DefaultDiv = 3
    CounterBits = 5
    Bytes <- MCBytes
    None = None
    Torn = Torn
INVARIANTS
    TypeOK
    NothingOwed
PROPERTIES
    ImplementsLink
