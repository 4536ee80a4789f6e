SPECIFICATION FairSpec
CONSTANTS
    Maps <- MCMaps
    Policies <- MCPolicies
    Grants <- MCGrants
    CandidatePorts = {22, 80}
    MaxTime <- MCMaxTime
    Skew <- MCSkew
    Settings <- SafeSettings
INVARIANTS
    FloorHolds
    RulesLicensed
PROPERTIES
    ExpiredRemoved
CHECK_DEADLOCK FALSE
