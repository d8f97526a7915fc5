\* One request: a 403 through one member, then a timeout through the other.
SPECIFICATION WSpec
CONSTANTS
    NumSessions = 1
    FailLimit = 5
    Members = {m1, m2}
    Requests = {r1}
    Malformed = {}
    Coverage = 6
    MaxAttempts = 12
    BreakerLimit = 3
    Cooldown = 1
    BurnedCooldown = 3
    InitialHealth <- MCFresh
    MaxTime = 1
PROPERTIES
    PenaltyNeverShortened
CHECK_DEADLOCK FALSE
