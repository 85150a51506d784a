\* One caller, every capacity up to MaxInt, every rounding parameter, every fault but a failed delete.
SPECIFICATION FairSpec
CONSTANTS
    Unit = 4
    MaxInt = 31
    MinVolumeSize = 7
    RoundingEnabled = TRUE
    Callers = {c1}
    Claims = {pvcA, pvcB}
    Requests <- AllSizes
    VolIDs = {v1}
    NoVol = NoVol
    NoReq = NoReq
    ClientTimeout = 2
    BlockTimeout = 2
    RegionKnown = FALSE
    ApiFaults = {"create", "get", "metadata", "user", "auth"}
    pvcA = pvcA
    pvcB = pvcB
INVARIANTS CapacityCovered AbandonedOnlyIf
PROPERTIES BoundedStepsEnd
