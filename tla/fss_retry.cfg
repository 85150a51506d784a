\* Serialised calls for a claim and its PV, which reach their ends after four faults.
SPECIFICATION FairSpec
CONSTANTS
    Callers = {c1, c2}
    Claims = {pvcA}
    Requests <- OneRequest
    ADs = {ad1}
    MountTargets = {mt1}
    FsIDs = {f1, f2, f3}
    ExpIDs = {e1, e2, e3}
    None = None
    Serialised = TRUE
    Faults = {"create", "get", "delete"}
    MaxFaults = 4
    pvcA = pvcA
    pvcB = pvcB
    ad1 = ad1
    ad2 = ad2
    mt1 = mt1
INVARIANTS OneFileSystemPerName DeleteTerminatesAll
PROPERTIES EventuallyProvisioned EventuallyDeleted
\* Once every claim is gone and its PV deleted there is nothing left to do.
CHECK_DEADLOCK FALSE
