\* Two VMs, a launcher that clears its counter (juniper/vmx), two failures of
\* any kind, guests that do not reboot in the middle of the login dialogue.
CONSTANTS
    N = 2
    MaxSpins = 1
    MaxRetries = 2
    ResetOnGiveUp = TRUE
    RebootInDialogue = FALSE
    MaxFaults = 2
SPECIFICATION FairSpec
INVARIANTS
    OneQemu
    StalenessBound
    HealthyOnlyFromPast
    GiveUpEarned
PROPERTIES
    ImplementsVirtualRouter
    Recovers
    FailureRestarted
