\* A migration that takes longer than 600 seconds.
CONSTANTS
    N = 1
    Prompt = TRUE
    SlowMigration = TRUE
    MaxVersion = 1
    MaxRequests = 2
    MaxPolls = 2
    MaxFaults = 0
SPECIFICATION Spec
INVARIANT SnapshotSound
CHECK_DEADLOCK FALSE
