SPECIFICATION SmcSpec
CONSTANTS
    CPU = {c1, c2}
    Thread = {0, 1}
    Clnt = {k}
    None = none
    Caller = {u1, u2, u3}
    Number = {0, 1, 2}
    Data = {p1, p2}
    NULL = null
SYMMETRY Symmetry
INVARIANTS
    ServesOwnCall
    NoCallLost
    DataFollowsThread
