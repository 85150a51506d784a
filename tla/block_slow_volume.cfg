\* A reliable service and a volume that is slow to become AVAILABLE.
SPECIFICATION Spec
CONSTANTS
    Unit = 4
    MaxInt = 31
    MinVolumeSize = 7
    RoundingEnabled = TRUE
    Callers = {c1}
    Claims = {pvcA, pvcB}
    Requests <- OneClaim
    VolIDs = {v1, v2}
    NoVol = NoVol
    NoReq = NoReq
    ClientTimeout = 2
    BlockTimeout = 2
    RegionKnown = TRUE
    ApiFaults = {}
    pvcA = pvcA
    pvcB = pvcB
INVARIANTS FailedVolumeDeleted
