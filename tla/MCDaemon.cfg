CONSTANTS
    Conns = {c1, c2, c3}
    NoConn = NoConn
    MaxClients = 2
    RateLimit = 1
    MaxEvents = 3
    Daemons = {d1, d2}
    Clients = {e1}
    CliClients = {e2}
    None = None
    Empty = Empty
    Torn = Torn
    AwaitsServer = FALSE
SPECIFICATION DaemonSpec
INVARIANTS
    TypeOK TrackerExact GapFree SeqRuns
    LinkedIsBound SingleWriterAtomic
PROPERTY ReplacedEnds
