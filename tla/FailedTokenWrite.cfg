SPECIFICATION Spec
CONSTANTS
    Calls = {c1, c2}
    Passphrases = {pw1}
    Authenticators = {}
    NumSlots = 2
    NumTokens = 2
    MaxProcs = 1
    MaxInFlight = 1
    Faults = {"write"}
    InitialKey = InitialKey
    NoKey = NoKey
    NoSecret = NoSecret
SYMMETRY CallSymmetry
PROPERTIES AlwaysUnlockable
CHECK_DEADLOCK FALSE
