CONSTANTS
    ra = ra
    rb = rb
    rs = rs
    Rules <- MC_Rules
    SecretRules <- MC_SecretRules
    BadIds <- MC_BadIds
    MaxRoutes = 3
    MaxTTL = 2
    MaxDelay = 2
    MaxReqs = 2
    EnvNames <- MC_EnvNames
    DepNames <- MC_DepNames
SPECIFICATION Spec
INVARIANTS
    TypeOK
    RouteRoundTrip
    ErrorAnswered
CHECK_DEADLOCK FALSE
