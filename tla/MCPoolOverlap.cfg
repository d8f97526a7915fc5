\* A reconfigure while the replaced instance still serves requests.
SPECIFICATION Spec
CONSTANTS
    Instances = {i1, i2}
    Scripts = {}
    Ids = {s1, s2}
    Overlap = TRUE
    NumInodes = 4
PROPERTIES
    RestartsKeepBurned
CHECK_DEADLOCK FALSE
