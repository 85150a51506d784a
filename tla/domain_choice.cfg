\* Selectors of every kind, nodes that are relabelled at any time.
SPECIFICATION Spec
CONSTANTS
    Callers = {c1}
    Claims <- AllClaims
    Nodes = {n1, n2, n3}
    Domains <- ThreeDomains
    SortedLabels <- ThreeZones
    Hash <- Hashes
    Width <- FourBits
    None = None
    MaxAttempts = 2
SYMMETRY Symmetry
INVARIANTS TypeOK NoBlindRefusal ZoneLabelOnNode RetryStays SpreadOverZones
\* When MaxAttempts is reached only nodes move on.
CHECK_DEADLOCK FALSE
