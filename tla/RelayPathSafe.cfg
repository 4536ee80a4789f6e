SPECIFICATION FairSpec
CONSTANTS
    CandidateTrialAfter = 1
    RelayFallbackAfter = 2
    LivenessWindow = 2
    HandshakeFresh = 2
    UpgradeRetry = 2
    PermitLifetime = 1
    ProbeRetry = 2
    TrialBackoff <- Backoffs
    MaxProbes = 2
    Bridges = {"b1", "b2", "b3", "b4"}
    Settings <- SafeSettings
INVARIANTS
    LinkSound
    EngineFollows
PROPERTIES
    LiveKept
    TrialsEarned
    RelayServes
