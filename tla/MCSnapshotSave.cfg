\* Two VMs, two snapshots; qemu keeps up and migrations end in time. Without
\* requests the system is at rest.
CONSTANTS
    N = 2
    Prompt = TRUE
    SlowMigration = FALSE
    MaxVersion = 2
    MaxRequests = 2
    MaxPolls = 2
    MaxFaults = 2
SPECIFICATION Spec
INVARIANTS
    TypeOK
    ArchiveComplete
    PausedForSaving
CHECK_DEADLOCK FALSE
