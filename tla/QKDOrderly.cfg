SPECIFICATION FairOrderlySpec
CONSTANTS
    NoOrder = NoOrder
    DefaultList <- LongDefault
    ChosenLists <- SameLength
    BitLength = 2
    Runs = {r1, r2}
    DirectRuns = {}
    FailingRuns = {}
    Waits = {w1, w2}
    Fetches = {f1, f2}
    Orders = {o1, o2}
    Resets = {x1, x2}
    LostResets = {}
    Watched = {}
INVARIANTS KeysAgree ResultsAgree SameQuestions
PROPERTY EverySubmissionReturns
CHECK_DEADLOCK FALSE
