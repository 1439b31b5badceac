SPECIFICATION Spec
CONSTANTS
    NoNode = NoNode
    Nodes = {a, b, d}
    Collectors = {a, d}
    Calls = {c1, c2}
    FailingCalls = {}
    Sockets = {w1}
    ClosingSockets = {}
    SlowSockets = {}
    Resets = {}
    Streams = {}
SYMMETRY Symmetry
INVARIANT AtMostOneLeader
CHECK_DEADLOCK FALSE
