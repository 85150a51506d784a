\* One controller with two overlapping operations, three faults of any kind but a lost answer.
SPECIFICATION Spec
CONSTANTS
    Controllers = {k1}
    Claims = {pvcA}
    Assets = {a1, a2}
    Ops = {o1, o2}
    None = None
    Shared = FALSE
    Threads = 4
    Hanging = {}
    SaveTries = 2
    FailedProvisionThreshold = 1
    Faults = {"provision", "delete", "lost", "class", "crash", "annotation"}
    MaxFaults = 3
SYMMETRY Symmetry
INVARIANTS TypeOK BoundKeepsStorage Accounted
\* Once every claim is gone there is nothing left to do.
CHECK_DEADLOCK FALSE
