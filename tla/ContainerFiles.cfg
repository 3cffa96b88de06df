SPECIFICATION Spec
CONSTANTS
    c1 = c1
    c2 = c2
    i1 = i1
    i2 = i2
    Call = {c1, c2}
    Path = {"img"}
    Inode = {i1, i2}
    NoFile = NoFile
    Names <- MCNames
    BadNames = {"luks.y"}
    Outside <- MCOutside
    Sizes = {0, 1, 8193}
    MaxFormats = 2
CONSTRAINT Bounded
INVARIANTS TypeOK CloseFdLeavesNothing CloseFdSparesOthers CreatedIsReachable
PROPERTIES MountedStaysMapped OlderContainerKept
SYMMETRY Interchangeable
