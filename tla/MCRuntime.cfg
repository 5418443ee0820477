CONSTANTS
    Agents = {a1}
    Streamed = {"Chunk"}
    MaxThreads = 3
    MaxChan = 1
SPECIFICATION FairSpec
INVARIANTS TypeOK ActiveIsHeard PidIsHeard
PROPERTIES LateEventsKeepStatus BusyEnds
