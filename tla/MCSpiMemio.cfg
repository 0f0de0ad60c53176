SPECIFICATION Spec
CONSTANTS
    Addrs <- MCAddrs
    Settings <- MCSettings
    Latencies = {0, 4, 8}
INVARIANTS
    ReadsAreFlash
    OneDriver
