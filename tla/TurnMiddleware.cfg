CONSTANTS
    Config <- ThreeConfigs
    Text <- ThreeTexts
    Result <- TwoResults
    Window = 6
    Overhead = 1
    Budget = 4
    Steps = 2
    MaxTurns = 2
    MaxResumes = 1
    MaxCuts = 1
SPECIFICATION FairSpec
INVARIANTS
    BlockedStaysOut RawExplained OwnMemory QuestionSeen
    WellFormed SummaryOwnTurn SavedInOrder
PROPERTY OneRetry
