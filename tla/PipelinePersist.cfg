CONSTANTS
    Runner = {r1}
    Portal = {}
    BodyParts = 2
    MaxRuns = 3
    Persist = TRUE
    Faults <- NoLostWrites
    Env <- TierActors
SPECIFICATION FairSpec
PROPERTIES
    NeverReadyPartial
    ReadyHasItsTier
    StopKeepsRows
    Settles
\* The document rests between runs, and the runs are bounded.
CHECK_DEADLOCK FALSE
