SPECIFICATION Spec
CONSTANTS
    Calls = {c1, c2, c3}
    Passphrases = {pw1}
    Authenticators = {key1}
    NumSlots = 3
    NumTokens = 3
    MaxProcs = 2
    MaxInFlight = 1
    Faults = {"read", "write", "device", "lost", "stop"}
    InitialKey = InitialKey
    NoKey = NoKey
    NoSecret = NoSecret
SYMMETRY CallSymmetry
INVARIANTS TypeOK NoHalfEnrollment TokenOpensItsKeyslot OneTokenPerAuthenticator
PROPERTIES NeverLockedOut LastKeyslotKept KeylessKeyKept
CHECK_DEADLOCK FALSE
