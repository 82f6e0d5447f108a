SPECIFICATION LockSpec
CONSTANTS
    p1 = p1
    p2 = p2
    p3 = p3
    Procs <- ThreeProcs
    Anonymous <- None
    MaxDeaths = 0
    Nobody = Nobody
    NoFile = NoFile
CHECK_DEADLOCK FALSE
INVARIANT MutualExclusion
