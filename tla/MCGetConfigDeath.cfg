\* qemu dies without a request.
CONSTANTS
    Hosts = {"h1"}
    Touched = {}
    MaxConf = 1
    MaxFaults = 1
SPECIFICATION RequestsSpec
PROPERTY DeathReported
CHECK_DEADLOCK FALSE
