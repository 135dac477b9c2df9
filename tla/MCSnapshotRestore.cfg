\* Three containers, each fresh or restored from the snapshot taken last, of a
\* fresh VM or of a restored one.
CONSTANTS
    None = None
    MaxContainers = 2
    MaxWrites = 3
    MaxRestarts = 3
SPECIFICATION Spec
INVARIANTS
    ExactUntilRestart
    NothingLost
    Startable
CHECK_DEADLOCK FALSE
