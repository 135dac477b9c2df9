\* Two unexpected acts of the guest, both error policies. A bootstrap stops.
CONSTANTS
    Queue <- MCQueue
    Blocks <- MCBlocks
    Home <- MCHome
    Paged = {"dns"}
    Disks = 1
    MaxUnexpected = 2
SPECIFICATION Spec
INVARIANTS
    TypeOK
    OneAtATime
    InIntendedScope
    HealthyMeansConfigured
    OneLossSurvived
PROPERTY Ends
CHECK_DEADLOCK FALSE
