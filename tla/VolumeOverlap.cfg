SPECIFICATION Spec
CONSTANTS
    Calls = {c1, c2, c3}
    Passphrases = {pw1}
    Authenticators = {}
    NumSlots = 2
    NumTokens = 2
    MaxProcs = 2
    MaxInFlight = 2
    Faults = {"lost"}
    InitialKey = InitialKey
    NoKey = NoKey
    NoSecret = NoSecret
SYMMETRY CallSymmetry
INVARIANTS TokenOpensItsKeyslot CheckStillGood
PROPERTIES DeliveredRecoveryKeyOpens GoneForGood KeyInCustody
CHECK_DEADLOCK FALSE
