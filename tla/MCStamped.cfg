\* A free request that comes through the C ABI leaves without a stamp.
SPECIFICATION Spec
CONSTANTS
    a = a
    b = b
    c = c
    Ids = {a, b, c}
    NoId = NoId
    Invalid = Invalid
    NumSessions = 3
    FailLimit = 2
    Models <- MCModels
    Configs <- MCConfigs
    Headers <- MCHeaders
    NumSources = 2
    Requests <- MCRequests
    Home <- MCHome
    Cooldown = 1
    MaxTurns = 2
    MaxRegisters = 1
    MaxTime = 1
PROPERTY FreeRequestIsStamped
CHECK_DEADLOCK FALSE
