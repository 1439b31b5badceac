SPECIFICATION Spec
CONSTANTS
    Schedulers = {c, d}
    Unschedulers = {e}
    Entries = {f, g}
    Unreadable = {d}
    Turns <- TurnSet
    MaxTurn = 80
    MaxQuestions = 3
INVARIANTS
    TableIsKept
    LagIsLate
PROPERTIES
    FollowsTheTurn
    BlindUntilNormalized
CHECK_DEADLOCK FALSE
