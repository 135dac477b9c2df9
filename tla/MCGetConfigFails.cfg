\* A capture that raises behind an accepted request.
CONSTANTS
    Hosts = {"h1", "h2"}
    Touched = {}
    MaxConf = 1
    MaxFaults = 2
SPECIFICATION RequestsSpec
INVARIANT FailuresRemainErrors
CHECK_DEADLOCK FALSE
