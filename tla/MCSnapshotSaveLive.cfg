\* Liveness, with migrations that outlast the timeout.
CONSTANTS
    N = 2
    Prompt = TRUE
    SlowMigration = TRUE
    MaxVersion = 0
    MaxRequests = 1
    MaxPolls = 2
    MaxFaults = 1
SPECIFICATION FairSpec
PROPERTY SaveEnds
CHECK_DEADLOCK FALSE
