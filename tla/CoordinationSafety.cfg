SPECIFICATION BoundedSpec
CONSTANTS
    NoNode = NoNode
    Nodes = {a, b}
    Collectors = {a, b}
    Calls = {c1, c2}
    FailingCalls = {c1, c2}
    Sockets = {w1, w2, w3}
    ClosingSockets = {w1, w2, w3}
    SlowSockets = {w3}
    Resets = {r1}
    Streams = {s1}
SYMMETRY Symmetry
INVARIANTS
    TypeOK
    FollowsOnlyAfterYes
    LeadsOnlyAccepted
    IndependentIsClean
    RequestIsAsked
CHECK_DEADLOCK FALSE
