\* Calls for one claim overlap; every fault.
SPECIFICATION Spec
CONSTANTS
    Callers = {c1, c2}
    Claims = {pvcA}
    Requests <- WithAndWithout
    ADs = {ad1}
    MountTargets = {mt1}
    FsIDs = {f1, f2}
    ExpIDs = {e1, e2}
    None = None
    Serialised = FALSE
    Faults = {"create", "get", "delete", "mt"}
    MaxFaults = 1
    pvcA = pvcA
    pvcB = pvcB
    ad1 = ad1
    ad2 = ad2
    mt1 = mt1
SYMMETRY Symmetry
INVARIANTS TypeOK PVsConsistent DeleteOkMeansGone
PROPERTIES KeepsContract
