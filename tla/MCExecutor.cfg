\* Every request and configuration, with up to three paid keys.
SPECIFICATION Spec
CONSTANTS
    MaxKeys = 3
INVARIANTS
    TypeOK
    SpendInv
    PaysOnlyWithLeave
    FreeContentIsFree
    PaidBudget
    FailoverHidesEmptiness
    ReplacedOnlyIfUnread
CHECK_DEADLOCK FALSE
