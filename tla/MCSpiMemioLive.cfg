SPECIFICATION FairSpec
CONSTANTS
    Addrs <- MCAddrs
    Settings <- MCWidths
    Latencies = {1}
PROPERTIES
    ReadsAnswered
