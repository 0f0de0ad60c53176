SPECIFICATION FairSpec
CONSTANTS
    Boards = {"ICEBREAKER", "HX8KDEMO"}
    Keys <- MCKeys
    Timeout = 2
    CycleMod = 4
    Faults <- MCFaults
    Values <- MCValues
    BenchSize = 3
INVARIANTS
    FetchesDecode
    CommandsUnderstood
    NumbersPrinted
    MemtestHonest
PROPERTIES
    AlwaysListens
