\* Three requests for two VMs; one command fails.
CONSTANTS
    VMs = {0, 1}
    Requests = {"r1", "r2", "r3"}
    MaxFailures = 1
SPECIFICATION RequestSpec
INVARIANT ResetAsAsked
PROPERTIES
    LostBehindAnother
    Answered
