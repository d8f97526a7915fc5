\* One stream of every kind, channels of one chunk, up to two shutdowns.
SPECIFICATION Spec
CONSTANTS
    Cut = 2
    Jobs <- MCJobs
    Cap = 1
    MaxDowns = 2
INVARIANTS
    TypeOK
    PipeInv
    ResponsesArrive
    ChatArrives
    PaidArrives
    AtMostOneLateCall
PROPERTIES
    Delivers
    EveryStreamEnds
    GoroutinesEnd
CHECK_DEADLOCK FALSE
