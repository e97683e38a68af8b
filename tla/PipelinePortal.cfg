CONSTANTS
    Runner = {}
    Portal = {p1}
    BodyParts = 2
    MaxRuns = 3
    Persist = TRUE
    Faults <- AllFaults
    Env = {"reprocess"}
SPECIFICATION Spec
INVARIANTS
    IndexedHasPoint
PROPERTIES
    NeverReadyEmpty
\* The document rests between runs, and the runs are bounded.
CHECK_DEADLOCK FALSE
