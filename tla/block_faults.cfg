\* Two callers, two claims, every fault except rejected credentials.
SPECIFICATION Spec
CONSTANTS
    Unit = 4
    MaxInt = 31
    MinVolumeSize = 7
    RoundingEnabled = TRUE
    Callers = {c1, c2}
    Claims = {pvcA, pvcB}
    Requests <- TwoClaims
    VolIDs = {v1, v2}
    NoVol = NoVol
    NoReq = NoReq
    ClientTimeout = 2
    BlockTimeout = 2
    RegionKnown = FALSE
    ApiFaults = {"create", "get", "delete", "metadata", "user"}
    pvcA = pvcA
    pvcB = pvcB
SYMMETRY Symmetry
INVARIANTS TypeOK PVsBacked NotShared DeleteOkMeansGone ContextEndsWait
PROPERTIES PVVolumesSpared KeepsContract
