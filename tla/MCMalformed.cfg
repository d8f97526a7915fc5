\* One request whose payload no body can be built from.
SPECIFICATION WSpec
CONSTANTS
    NumSessions = 1
    FailLimit = 5
    Members = {m1, m2}
    Requests = {r1}
    Malformed = {r1}
    Coverage = 6
    MaxAttempts = 12
    BreakerLimit = 3
    Cooldown = 1
    BurnedCooldown = 3
    InitialHealth <- MCFresh
    MaxTime = 1
PROPERTIES
    MalformedBlamesNobody
CHECK_DEADLOCK FALSE
