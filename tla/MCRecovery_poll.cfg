\* One plane that may hang or crash, and the polling watchdog.
SPECIFICATION FairSpec
CONSTANTS
    g1 = g1
    daemon = daemon
    sweep = sweep
    TicksPerSecond = 2
    MaxMockValue = 1
    MaxLease = 1
    Baseline = 0
    Faults = {"crash", "restore", "wjournal", "wcrash", "clock"}
    MaxFaults = 1
    MaxTime = 5
    Planes = {g1}
    Requests <- OneRequest
    MaxExperiments = 1
    Watchdogs = {daemon}
    Policy <- PollPolicy
CHECK_DEADLOCK FALSE
INVARIANTS
    ClosuresBounded
PROPERTIES
    ScanRespectsLease
    ExpiredLeakIsClosed
