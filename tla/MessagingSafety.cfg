SPECIFICATION Spec
CONSTANTS
    Router = Router
    Nobody = Nobody
    Providers = {p}
    Clients = {c, d}
    Misnamed = {}
    Targets = {p}
    Requests = {"SET_PARAMETER"}
    Impatient = {c}
    Mortal = {Router}
    Unreliable = {c}
    MaxAsks = 2
    HighWater = 1
INVARIANTS
    TypeOK
    OwnReply
PROPERTY ImplementsRemoteCall
CHECK_DEADLOCK FALSE
