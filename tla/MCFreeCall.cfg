\* Two requests at once over two sessions and two members; of one of them no
\* body can be built, so that all its attempts fail.
SPECIFICATION WSpec
CONSTANTS
    NumSessions = 2
    FailLimit = 2
    Members = {m1, m2}
    Requests = {r1, r2}
    Malformed = {r2}
    Coverage = 2
    MaxAttempts = 3
    BreakerLimit = 2
    Cooldown = 1
    BurnedCooldown = 2
    InitialHealth <- MCFresh
    MaxTime = 1
INVARIANTS
    TypeOK
    LoopInv
    Budget
    GivesUpOnlyWhenSpent
    SharingInv
PROPERTIES
    UnusableIsLeftAlone
    AnonymousOnlyWithoutSessions
    NobodyIsPassedOver
    KeepsContract
    EveryRequestEnds
CHECK_DEADLOCK FALSE
