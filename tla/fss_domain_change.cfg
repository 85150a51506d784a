\* One claim, retried in another availability domain.
SPECIFICATION Spec
CONSTANTS
    Callers = {c1}
    Claims = {pvcA}
    Requests <- TwoDomains
    ADs = {ad1, ad2}
    MountTargets = {mt1}
    FsIDs = {f1, f2}
    ExpIDs = {e1, e2}
    None = None
    Serialised = TRUE
    Faults = {"create", "get"}
    MaxFaults = 1
    pvcA = pvcA
    pvcB = pvcB
    ad1 = ad1
    ad2 = ad2
    mt1 = mt1
INVARIANTS DeleteTerminatesAll
\* Once every claim is gone and its PV deleted there is nothing left to do.
CHECK_DEADLOCK FALSE
