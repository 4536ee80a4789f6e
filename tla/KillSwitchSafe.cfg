SPECIFICATION Spec
CONSTANTS
    p1 = p1
    p2 = p2
    Procs = {p1, p2}
    NoProc = NoProc
    e1 = e1
    e2 = e2
    Exits = {e1, e2}
    NoExit = NoExit
    MaxVersion = 2
    MaxIface = 2
    Settings <- SafeSettings
INVARIANTS
    ProtectedAlone
    StatusHonest
    AtRest
    CleanExitQuiet
PROPERTIES
    NoLeak
