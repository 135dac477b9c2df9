\* A second request while the first is being consumed.
CONSTANTS
    Hosts = {"h1", "h2"}
    Touched = {}
    MaxConf = 1
    MaxFaults = 0
SPECIFICATION RequestsSpec
PROPERTY NewerTriggerSurvives
CHECK_DEADLOCK FALSE
