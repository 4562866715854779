SPECIFICATION FairSpec
CONSTANTS
    c1 = c1
    c2 = c2
    r1 = r1
    r2 = r2
    None = None
    Client <- OneClient
    Request <- TwoRequests
    Width = 2
    Careful = TRUE
    Faults <- AllFaults
    MaxFaults = 2
    MaxMessages = 4
INVARIANT ApprovedOnly
PROPERTIES ImplementsGate ApprovedSettled
