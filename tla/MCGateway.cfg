\* Two turns of conversations over three sessions, one reconfiguration.
SPECIFICATION Spec
CONSTANTS
    a = a
    b = b
    c = c
    Ids = {a, b, c}
    NoId = NoId
    Invalid = Invalid
    NumSessions = 3
    FailLimit = 2
    Models <- MCModels
    Configs <- MCConfigs
    Headers <- MCHeaders
    NumSources = 2
    Requests <- MCRequests
    Home <- MCHome
    Cooldown = 1
    MaxTurns = 2
    MaxRegisters = 1
    MaxTime = 1
INVARIANTS
    TypeOK
    ScanOrderIrrelevant
    FailClosed
PROPERTIES
    OneIdentity
    IdentitiesAgree
    StaysPut
    DirectRequestIsStamped
    HijackedHasPath
CHECK_DEADLOCK FALSE
