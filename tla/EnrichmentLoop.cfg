SPECIFICATION Spec
CONSTANTS
    NDocs = 4
    NoDoi <- WithoutDoi
    NSources = 1
    BatchSize = 3
    Concurrency = 2
    MaxPerDay = 1
    PersistEvery = 1
    MaxDays = 2
    Faults <- FaultKinds
    MaxFaults = 1
    Failing = {4}
INVARIANTS QuotaKept StoppedQuiet
PROPERTIES Served
\* The worker stops.
CHECK_DEADLOCK FALSE
