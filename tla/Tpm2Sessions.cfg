SPECIFICATION Spec
CONSTANTS
    c1 = c1
    c2 = c2
    p1 = p1
    p2 = p2
    NoPin = NoPin
    Blank = Blank
    Call = {c1, c2}
    Pins = {p1, p2}
    Requests <- MCRequests
    Foreign <- MCForeign
    Persistent = {"none", "other"}
    Managed = {TRUE, FALSE}
    Slots = 3
    MaxTries = 2
    Moving = {7}
    MaxExtends = 1
    MaxTokens = 2
CONSTRAINT Bounded
INVARIANTS TypeOK HandlesReturned
PROPERTIES FailsForAReason SecretOnlyAsSealed OnlyAnotherPinCounts
SYMMETRY Interchangeable
