SPECIFICATION Spec
CONSTANTS
    Calls = {c1, c2, c3}
    Passphrases = {pw1}
    Authenticators = {}
    NumSlots = 2
    NumTokens = 2
    MaxProcs = 1
    MaxInFlight = 2
    Faults = {}
    InitialKey = InitialKey
    NoKey = NoKey
    NoSecret = NoSecret
SYMMETRY CallSymmetry
PROPERTIES KeyslotNeverLost
CHECK_DEADLOCK FALSE
