SPECIFICATION Spec
CONSTANTS
    NoUser = NoUser
    Users = {u, v, w, x}
    Pairs = 2
SYMMETRY Symmetry
INVARIANTS
    TypeOK
    OwnPlatesInPlace
    BothPlatesInPlace
    LeftBehind
CHECK_DEADLOCK FALSE
