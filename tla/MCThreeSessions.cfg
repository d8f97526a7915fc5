\* One request over a pool of five sessions, with the limits of the code.
SPECIFICATION WSpec
CONSTANTS
    NumSessions = 5
    FailLimit = 5
    Members = {m1}
    Requests = {r1}
    Malformed = {}
    Coverage = 6
    MaxAttempts = 12
    BreakerLimit = 3
    Cooldown = 1
    BurnedCooldown = 1
    InitialHealth <- MCFresh
    MaxTime = 1
INVARIANTS
    AtMostThreeSessions
CHECK_DEADLOCK FALSE
