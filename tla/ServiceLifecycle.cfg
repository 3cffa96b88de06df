SPECIFICATION Spec
CONSTANTS
    Proc = {p1, p2}
    Call = {c1, c2}
    Nobody = Nobody
    IdleTimeout = 2
INVARIANT TypeOK
PROPERTIES RecentWorkNotLeft ReplacedProcessEnds
