\* A VM restored from the snapshot of a restored VM.
CONSTANTS
    None = None
    MaxContainers = 2
    MaxWrites = 1
    MaxRestarts = 0
SPECIFICATION Spec
INVARIANT SnapshotsRestorable
CHECK_DEADLOCK FALSE
