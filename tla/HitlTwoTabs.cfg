SPECIFICATION Spec
CONSTANTS
    c1 = c1
    c2 = c2
    r1 = r1
    r2 = r2
    None = None
    Client <- TwoClients
    Request <- TwoRequests
    Width = 2
    Careful = TRUE
    Faults <- NoFaults
    MaxFaults = 0
    MaxMessages = 4
INVARIANT ApprovedOnly
