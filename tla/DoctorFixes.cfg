SPECIFICATION Spec
CONSTANTS
    Size = 2
    MaxIndexings = 3
    Nested <- SecondOfTwo
    Checks <- AllChecks
    PageSize = 2
    BatchSize = 1
    MaxFixes = 3
    MaxFaults = 3
INVARIANTS
    Repaired
PROPERTIES
    RowsKeepPoints
\* The fixes and the indexings are bounded.
CHECK_DEADLOCK FALSE
