\* The polling watchdog and a plane kept to the operating discipline.
SPECIFICATION DisciplinedSpec
CONSTANTS
    g1 = g1
    daemon = daemon
    sweep = sweep
    TicksPerSecond = 1
    MaxMockValue = 1
    MaxLease = 1
    Baseline = 0
    Faults = {"journal", "apply", "verify", "crash", "restore", "wjournal", "wcrash"}
    MaxFaults = 3
    MaxTime = 4
    Planes = {g1}
    Requests <- OneRequest
    MaxExperiments = 2
    Watchdogs = {daemon}
    Policy <- PollPolicy
CHECK_DEADLOCK FALSE
INVARIANTS
    OneTerminal
PROPERTIES
    LeakIsRestored
    LeasesAreExclusive
