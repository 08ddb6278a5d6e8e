\* One prompt plane crashes, is restarted and crashes again; then the watchdog's pass.
SPECIFICATION PromptSpec
CONSTANTS
    g1 = g1
    daemon = daemon
    sweep = sweep
    TicksPerSecond = 1
    MaxMockValue = 1
    MaxLease = 1
    Baseline = 0
    Faults = {"crash"}
    MaxFaults = 2
    MaxTime = 1
    Planes = {g1}
    Requests <- OneRequest
    MaxExperiments = 2
    Watchdogs = {daemon}
    Policy <- PollPolicy
CHECK_DEADLOCK FALSE
PROPERTY
    PassEndsAtBaseline
