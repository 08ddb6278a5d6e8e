\* The daemon and a recover-all run over what a crashed owner left; restores fail,
\* the journal is locked and watchdogs are killed, four times over.
SPECIFICATION LeakedSpec
CONSTANTS
    g1 = g1
    daemon = daemon
    sweep = sweep
    TicksPerSecond = 1
    MaxMockValue = 1
    MaxLease = 1
    Baseline = 0
    Faults = {"restore", "wjournal", "wcrash"}
    MaxFaults = 4
    MaxTime = 1
    Planes = {g1}
    Requests <- OneRequest
    MaxExperiments = 1
    Watchdogs = {daemon, sweep}
    Policy <- MixedPolicy
CHECK_DEADLOCK FALSE
INVARIANTS
    TypeOK
    NoRepeatedFailure
    RestoredOnce
