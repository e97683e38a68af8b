SPECIFICATION FairSpec
CONSTANTS
    d1 = d1
    k = k
    l = l
    Docs <- OneDoc
    Triggers <- MCTriggers
    Patches <- MCPatches
    Passes <- PassKinds
    Faults <- FaultKinds
    MaxFaults = 2
    Scenarios <- MCScenarios
INVARIANTS TriggersDistinct
PROPERTIES ResolvedStays RetryReplays Unblocks
