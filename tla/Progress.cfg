SPECIFICATION FairSpec
CONSTANTS
    ChshRuns = {r, s}
    Fortunes = {f}
    ChshPages = {p}
    RngPages = {}
    SlowPages = {}
    ChshTotal = 3
    FortuneSize = 2
INVARIANTS
    TypeOK
    ProgressIsTheRuns
    CountsInPlace
    NoUpdateLost
PROPERTY PageSeesTheEnd
CHECK_DEADLOCK FALSE
