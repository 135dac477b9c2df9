\* A request and a touch; two things go wrong.
CONSTANTS
    Hosts = {"h1", "t"}
    Touched = {"t"}
    MaxConf = 2
    MaxFaults = 2
SPECIFICATION RequestsSpec
INVARIANTS
    OutputFresh
    PendingServed
PROPERTIES
    AnswerOnce
    Answered
CHECK_DEADLOCK FALSE
