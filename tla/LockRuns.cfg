CONSTANTS
    Ingest = {i1}
    Update = {u1}
    Retry = {r1}
    Doctor = {x1}
    Doc = {d1}
    None = None
    Faults <- RowsWritten
SPECIFICATION AloneSpec
INVARIANTS
    NeverTwoWriters
    OneRunningRow
PROPERTIES
    Implements
    StopHolds
    LockReleased
\* Every command is issued at most once.
CHECK_DEADLOCK FALSE
