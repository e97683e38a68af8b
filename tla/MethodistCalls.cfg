SPECIFICATION Spec
CONSTANTS
    Calls = {c1, c2}
    HandIns <- MCHandIns
    NoHandIn <- NoPayload
    Kinds <- AllKinds
    Faults <- FaultKinds
    MaxCalls = 4
    MaxFaults = 1
SYMMETRY AnyCall
INVARIANTS AdvanceEarned ReplaysAgree ReplayedGoCommitted
CHECK_DEADLOCK FALSE
