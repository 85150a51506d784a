\* One asset per claim, as with file storage; no faults.
SPECIFICATION Spec
CONSTANTS
    Controllers = {k1}
    Claims = {pvcA}
    Assets = {a1, a2}
    Ops = {o1, o2}
    None = None
    Shared = TRUE
    Threads = 4
    Hanging = {}
    SaveTries = 1
    FailedProvisionThreshold = 1
    Faults = {}
    MaxFaults = 0
INVARIANTS UndoOnlyUnsaved
\* Once every claim is gone there is nothing left to do.
CHECK_DEADLOCK FALSE
