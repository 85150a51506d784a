\* One worker and two claims, for one of which the plugin never returns; one fault.
SPECIFICATION FairSpec
CONSTANTS
    Controllers = {k1}
    Claims = {pvcA, pvcB}
    Assets = {a1}
    Ops = {o1, o2}
    None = None
    Shared = FALSE
    Threads = 1
    Hanging = {pvcA}
    SaveTries = 1
    FailedProvisionThreshold = 1
    Faults = {"lost", "crash", "provision"}
    MaxFaults = 1
PROPERTIES EventuallyBound EventuallyRemoved
\* Once every claim is gone there is nothing left to do.
CHECK_DEADLOCK FALSE
