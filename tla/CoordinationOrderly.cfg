SPECIFICATION FairOrderlySpec
CONSTANTS
    NoNode = NoNode
    Nodes = {a, b}
    Collectors = {a, b}
    Calls = {c1, c2, c3}
    FailingCalls = {}
    Sockets = {w1, w2}
    ClosingSockets = {}
    SlowSockets = {}
    Resets = {r1, r2}
    Streams = {}
INVARIANTS
    PeersAgree
    FollowsOnlyWithConsent
PROPERTIES ResetNotifiesPeer EveryRequestIsAnswered
CHECK_DEADLOCK FALSE
