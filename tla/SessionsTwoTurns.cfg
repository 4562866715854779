CONSTANTS
    c1 = c1
    c2 = c2
    s1 = s1
    s2 = s2
    s3 = s3
    t1 = t1
    t2 = t2
    t3 = t3
    u1 = u1
    u2 = u2
    None = None
    Conn <- OneConn
    Session <- TwoSessions
    Task <- ThreeTasks
    User <- OneUser
    UserOf <- SameUser
    Cap = 2
    SwitchMidTurn = TRUE
SPECIFICATION Spec
INVARIANTS TurnMutex
