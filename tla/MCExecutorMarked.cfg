\* Does a paid answer get where it should, and say what it is?
SPECIFICATION Spec
CONSTANTS
    MaxKeys = 1
INVARIANTS
    PaidAnswerIsMarked
CHECK_DEADLOCK FALSE
