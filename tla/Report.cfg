SPECIFICATION FairSpec
CONSTANTS
    Schedulers = {c}
    Unschedulers = {e}
    Entries = {}
    Unreadable = {}
    node1 = node1
    node2 = node2
    hwp = hwp
    tagger = tagger
    Unset = Unset
    Configured <- Settings
    VirtualRotator = FALSE
    FollowerGiven = TRUE
INVARIANTS
    TypeOK
    ProbeIsTrue
    ZeroMeansNominal
    SilenceIsExplained
PROPERTY ReportsKeepComing
CHECK_DEADLOCK FALSE
