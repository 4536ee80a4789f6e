SPECIFICATION Spec
CONSTANTS
    Procs = {p1, p2}
    NoProc = NoProc
    k1 = k1
    k2 = k2
    d1 = d1
    d2 = d2
    Keys = {k1, k2}
    NoKey = NoKey
    Devices = {d1, d2}
    NoDevice = NoDevice
    Scopes <- MCScopes
    ScopesOf <- MCScopesOf
    Claims <- MCClaims
    MaxActive <- MCMaxActive
    MaxBytes <- MCMaxBytes
    MaxRetained <- MCMaxRetained
    MaxOwners = 2
    Settings <- SafeSettings
INVARIANTS
    CountersExact
    ClaimsCharged
SYMMETRY Symmetry
