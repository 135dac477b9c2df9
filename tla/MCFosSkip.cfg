\* A setting is refused in its scope, the launcher goes on with the next feature.
CONSTANTS
    Queue <- MCQueue
    Blocks <- MCBlocks
    Home <- MCHome
    Paged = {"dns"}
    Disks = 1
    MaxUnexpected = 2
SPECIFICATION Spec
INVARIANT LaterFeaturesInScope
CHECK_DEADLOCK FALSE
