\* One writer at a time: an instance and a minting script take turns.
SPECIFICATION Spec
CONSTANTS
    Instances = {i1}
    Scripts = {m1}
    Ids = {s1, s2, s3}
    Overlap = FALSE
    NumInodes = 2
INVARIANTS
    TypeOK
    SoloInv
    PathAlwaysWhole
    FileKeepsVerdicts
    SavedWhenIdle
SYMMETRY IdSymmetry
CHECK_DEADLOCK FALSE
