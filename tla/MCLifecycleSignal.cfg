CONSTANTS
    Daemons = {d1}
    Clients = {c1}
    CliClients = {}
    None = None
    Empty = Empty
    Torn = Torn
    AwaitsServer = TRUE
SPECIFICATION LifecycleFairSpec
PROPERTY SignalEnds
