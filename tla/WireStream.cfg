CONSTANTS
    c1 = c1
    c2 = c2
    r0 = r0
    Call <- TwoCalls
    NoInput <- OneEmpty
    Old <- OneOld
    MaxText = 2
    MaxMessages = 2
    Faults <- AllFaults
SPECIFICATION FairSpec
INVARIANTS NothingLost AnswerWhole
PROPERTIES ImplementsTranscript StreamEnds
