CONSTANTS
    Runner = {r1}
    Portal = {}
    BodyParts = 2
    MaxRuns = 3
    Persist = FALSE
    Faults <- SourcesKept
    Env <- TierActors
SPECIFICATION Spec
PROPERTIES
    ReadyWhole
    ReadyClean
\* The document rests between runs, and the runs are bounded.
CHECK_DEADLOCK FALSE
