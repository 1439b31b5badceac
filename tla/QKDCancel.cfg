SPECIFICATION FairSpec
CONSTANTS
    NoOrder = NoOrder
    DefaultList <- LongDefault
    ChosenLists <- AnyLength
    BitLength = 1
    Runs = {r1, r2}
    DirectRuns = {r2}
    FailingRuns = {r2}
    Waits = {w1}
    Fetches = {}
    Orders = {o1, o2}
    Resets = {x1, x2}
    LostResets = {x2}
    Watched = {"leader"}
INVARIANTS TypeOK ResultsAreComputed FollowerInStep
PROPERTY LeaderStopsPolling
CHECK_DEADLOCK FALSE
