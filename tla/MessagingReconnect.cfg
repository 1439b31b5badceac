SPECIFICATION FairSpec
CONSTANTS
    Router = Router
    Nobody = Nobody
    Providers = {p, q}
    Clients = {c, d}
    Misnamed = {q}
    Targets = {p, Router}
    Requests = {"PING", "UNKNOWN"}
    Impatient = {}
    Mortal = {p, Router}
    Unreliable = {}
    MaxAsks = 1
    HighWater = 1
PROPERTIES ProviderReconnects EveryAskIsAnswered
CHECK_DEADLOCK FALSE
