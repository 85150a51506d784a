\* Every step of main may fail; services may never answer.
SPECIFICATION FairSpec
CONSTANTS
    Workers = {w1, w2}
    Types = {"", "block", "fss", "other"}
    None = None
    Faults = {"parse", "kube", "env", "config", "client", "region"}
    Hangs = {"kube", "client", "region"}
    MaxSignals = 3
INVARIANTS TypeOK OneCompartment OnlySignalsEnd RunsConfigured
PROPERTIES StartsOrEnds SignalsEnd
\* The process ends.
CHECK_DEADLOCK FALSE
