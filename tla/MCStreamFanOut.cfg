CONSTANTS
    Conns = {c1, c2}
    NoConn = NoConn
    MaxClients = 2
    RateLimit = 1
    MaxEvents = 1
SPECIFICATION Spec
INVARIANT EveryClientHears
