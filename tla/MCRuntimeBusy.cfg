CONSTANTS
    Agents = {a1}
    Streamed = {"Chunk"}
    MaxThreads = 2
    MaxChan = 1
SPECIFICATION Spec
INVARIANT OneThreadPerAgent
