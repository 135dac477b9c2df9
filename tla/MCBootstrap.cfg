\* Every launcher; one VM, which fails, or whose container is restarted. A
\* launcher that hangs in a dialogue, or has ended, is at rest.
CONSTANTS
    Platforms <- Every
    Profile <- Launchers
    Limit = 3
    MaxCreds = 2
    MaxFaults = 3
SPECIFICATION FairSpec
INVARIANTS
    ReadyAfterBoot
    SilenceBounded
PROPERTY RecoversOrStuck
CHECK_DEADLOCK FALSE
