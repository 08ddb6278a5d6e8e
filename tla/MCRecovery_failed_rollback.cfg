\* The owner's rollback fails once; everything else works.
SPECIFICATION DisciplinedSpec
CONSTANTS
    g1 = g1
    daemon = daemon
    sweep = sweep
    TicksPerSecond = 1
    MaxMockValue = 1
    MaxLease = 1
    Baseline = 0
    Faults = {"rollback"}
    MaxFaults = 1
    MaxTime = 3
    Planes = {g1}
    Requests <- OneRequest
    MaxExperiments = 1
    Watchdogs = {daemon}
    Policy <- PollPolicy
CHECK_DEADLOCK FALSE
PROPERTY
    LeakIsRestored
