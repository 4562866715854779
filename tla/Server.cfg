CONSTANTS
    File = {f1}
    Call = {kb1, kb2, store1}
    kb1 = kb1
    kb2 = kb2
    store1 = store1
    Feature = {"knowledge_base", "long_term_memory"}
    FeatureOf <- FeatureOfCalls
    Results <- FewResults
    MaxChars = 9
    SuffixSize = 2
    Env <- FewEnvs
SPECIFICATION ServerSpec
INVARIANTS
    LinkServed OncePerFeature NoticeKept AnswerFits RegionKnown
PROPERTY GoneStaysGone
