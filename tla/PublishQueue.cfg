CONSTANTS
    r1 = r1
    r2 = r2
    r3 = r3
    u = u
    p1 = p1
    p2 = p2
    NoKey = NoKey
    Request <- Requests
    KeyOf <- Keys
    PortalId <- OwnIds
    MaxQueue = 1
    MaxConcurrent = 1
    Faults <- AllFaults
    Upload <- Uploads
    Put <- Puts
    PutOf <- ToU
    RefOf <- FromU
    Cost = 3
    Penalty = 1
    Vias <- ViaCases
    CallFaults <- Harmless
    MaxFaults = 1
SPECIFICATION CallsSpec
INVARIANTS
    AcceptedOnce
    AnswerMeetsDisk
    FairlyCharged
    UploadKept
PROPERTIES
    Drained
\* Every request is sent at most once.
CHECK_DEADLOCK FALSE
