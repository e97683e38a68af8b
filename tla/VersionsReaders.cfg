CONSTANTS
    d1 = d1
    d2 = d2
    d3 = d3
    Document <- ThreeDocs
    First = d1
    AdminDoc <- TwoDocs
    BatchLimit = 1
    MaxIndexings = 3
    MaxAdmin = 4
    MaxFaults = 1
    None = None
    MaxRead = 2
    MaxOffset = 2
    Requests <- MCRequests
    Scenarios <- MCScenarios
SPECIFICATION ReadersSpec
INVARIANTS
    LatestIsNewest
    PagesTile
    FoundThroughout
PROPERTIES
    NeverHidden
    FlagsAgree
