CONSTANTS
    c1 = c1
    s1 = s1
    s2 = s2
    Call <- OneCall
    Script <- TwoScripts
    Endless <- OneEndless
    Workers = 2
    MaxFiles = 2
    MaxCalls = 2
    Faults <- AllFaults
SPECIFICATION FairSpec
INVARIANTS LeaksExplained FilesFollowOutcome
PROPERTIES NoLateStart PoolServes
