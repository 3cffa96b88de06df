SPECIFICATION Spec
CONSTANTS
    Calls = {c1, c2}
    Passphrases = {pw1}
    Authenticators = {}
    NumSlots = 2
    NumTokens = 2
    MaxProcs = 1
    MaxInFlight = 1
    Faults = {}
    InitialKey = InitialKey
    NoKey = NoKey
    NoSecret = NoSecret
SYMMETRY CallSymmetry
PROPERTIES NotCachedNeverUnlocked
CHECK_DEADLOCK FALSE
