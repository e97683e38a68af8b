CONSTANTS
    Docs = 4
    Days = 2
    DayOf <- TwoDays
    Limit = 3
    BatchMax = 2
    DlSlots = 2
    Capacity = 1
    DocSlots = 1
    Burst = 2
    MinAttempted = 1
    MaxFailPct = 50
    MaxRuns = 1
    Faults <- AllFaults
SPECIFICATION FairSpec
INVARIANTS
    BudgetKept
    SelfResuming
PROPERTIES
    RunEnds
\* No run is started after the last one.
CHECK_DEADLOCK FALSE
