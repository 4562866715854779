CONSTANTS
    a1 = a1
    a2 = a2
    a3 = a3
    k1 = k1
    k2 = k2
    None = None
    Call <- ThreeCalls
    Key <- OneKey
    Attempts = 2
    MaxTurns = 2
    MaxExternal = 1
SPECIFICATION Spec
INVARIANTS SequentialReads TurnFreshness EffectsBounded
SYMMETRY Symmetric
