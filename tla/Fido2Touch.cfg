SPECIFICATION Spec
CONSTANTS
    c1 = c1
    c2 = c2
    d1 = d1
    d2 = d2
    p1 = p1
    p2 = p2
    NoPin = NoPin
    Call = {c1, c2}
    Manifest <- MCManifest
    DevicePin <- MCDevicePin
    Enrolled <- MCEnrolled
    Pins = {p1, NoPin}
    Loose = {d1}
    MaxRetries = 1
    MaxTokens = 2
INVARIANTS TypeOK PinSparing
PROPERTIES UnlockFailsForAReason AlreadyEnrolledRejected 
