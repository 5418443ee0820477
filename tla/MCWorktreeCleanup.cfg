CONSTANTS
    MaxTrees = 2
    MaxWorktrees = 2
    MaxMishaps = 2
    MaxRestarts = 1
SPECIFICATION TreeSpec
INVARIANT CleanupKeepsWork
CHECK_DEADLOCK FALSE
