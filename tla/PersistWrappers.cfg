CONSTANTS
    w1 = w1
    w2 = w2
    o1 = o1
    o2 = o2
    o3 = o3
    Wrapper <- TwoWrappers
    Op <- ThreeOps
    WrapperOf <- TwoAndTwo
    MaxExpiries = 1
SPECIFICATION FairSpec
INVARIANTS ErrorsAbsorbed LocalHistoryKept
PROPERTY NoticeDelivered
