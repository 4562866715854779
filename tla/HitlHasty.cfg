SPECIFICATION Spec
CONSTANTS
    c1 = c1
    c2 = c2
    r1 = r1
    r2 = r2
    None = None
    Client <- OneClient
    Request <- TwoRequests
    Width = 2
    Careful = FALSE
    Faults <- CutOnly
    MaxFaults = 2
    MaxMessages = 4
INVARIANTS RunsBounded AnswersResume
