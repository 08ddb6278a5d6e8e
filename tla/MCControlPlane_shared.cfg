\* Two gateways share one journal; every kind of fault, one of them.
SPECIFICATION PlaneSpec
CONSTANTS
    g1 = g1
    g2 = g2
    TicksPerSecond = 1
    MaxMockValue = 1
    MaxLease = 1
    Baseline = 0
    Faults = {"snapshot", "journal", "preview", "apply", "verify", "rollback", "crash"}
    MaxFaults = 1
    MaxTime = 0
    Planes = {g1, g2}
    Requests <- OneRequest
    MaxExperiments = 2
SYMMETRY PlaneSymmetry
CHECK_DEADLOCK FALSE
INVARIANTS
    UniqueCorrelation
    TerminalIsLast
    CompletedMeansRestored
    SupersededFailureKept
    LossIsVisible
PROPERTIES
    WritesAreLeased
