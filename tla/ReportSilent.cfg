SPECIFICATION Spec
CONSTANTS
    Schedulers = {c}
    Unschedulers = {}
    Entries = {}
    Unreadable = {}
    node1 = node1
    node2 = node2
    hwp = hwp
    tagger = tagger
    Unset = Unset
    Configured <- Settings
    VirtualRotator = FALSE
    FollowerGiven = TRUE
INVARIANT NoRunIsSilent
CHECK_DEADLOCK FALSE
