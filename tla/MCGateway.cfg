\* One gateway that crashes and is restarted; every fault but a failing rollback.
SPECIFICATION GatewaySpec
CONSTANTS
    g1 = g1
    TicksPerSecond = 1
    MaxMockValue = 2
    MaxLease = 1
    Baseline = 0
    Faults = {"snapshot", "journal", "preview", "apply", "verify", "crash"}
    MaxFaults = 2
    MaxTime = 0
    Planes = {g1}
    Requests <- Decoded
    Lines <- AllLines
    MaxLines = 3
    MaxExperiments = 3
CHECK_DEADLOCK FALSE
INVARIANTS
    PlaneTypeOK
    LeakIsDiscoverable
    OldestLeakHoldsBaseline
    AnsweredInOrder
    ExperimentsWereAsked
PROPERTIES
    OkMeansRestored
    EveryLineEnds
