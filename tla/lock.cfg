\* Two electors for one claim, two faults.
SPECIFICATION FairSpec
CONSTANTS
    Controllers = {k1, k2}
    None = None
    LeaseDuration = 11
    RenewDeadline = 1
    MaxDelay = 1
    Second = 1
    Prompt = TRUE
    MaxFaults = 2
INVARIANTS TypeOK OneLeader
PROPERTIES EventuallyLed
