SPECIFICATION FairSpec
CONSTANTS
    p1 = p1
    p2 = p2
    Procs = {p1, p2}
    NoProc = NoProc
    Chunks = {c1, c2}
    MaxDirs = 4
    Settings <- RetriedOnly
PROPERTIES
    DeliveryLive
