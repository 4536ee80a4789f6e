SPECIFICATION HostSpec
CONSTANTS
    Systems = {"linux", "darwin", "windows"}
    Configs <- Wanted
    Networks <- Nets
    Foreign <- Others
    V4 <- Half4
    V6 <- Half6
    Endpoints <- Addresses
    Budgets <- Allowed
    Nil = Nil
    Parts = {"routes", "resolver"}
    Platforms = {"linux", "darwin", "windows"}
    Servers <- Resolvers
    Limits <- Attempts
    Unset = Unset
INVARIANTS
    RoutesSound
    ResolverKept
PROPERTIES
    RoutesKept
    ComesRound
CHECK_DEADLOCK FALSE
