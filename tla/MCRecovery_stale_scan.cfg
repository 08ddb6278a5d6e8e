\* A live owner closes its experiment between the watchdog's scan and restore; no faults.
SPECIFICATION FairSpec
CONSTANTS
    g1 = g1
    daemon = daemon
    sweep = sweep
    TicksPerSecond = 1
    MaxMockValue = 1
    MaxLease = 1
    Baseline = 0
    Faults = {}
    MaxFaults = 0
    MaxTime = 1
    Planes = {g1}
    Requests <- OneRequest
    MaxExperiments = 1
    Watchdogs = {daemon}
    Policy <- PollPolicy
CHECK_DEADLOCK FALSE
PROPERTY
    ClosedNeverTouched
