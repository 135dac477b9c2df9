\* The give-up path of most launchers (arista/veos): the counter is kept.
CONSTANTS
    N = 1
    MaxSpins = 2
    MaxRetries = 2
    ResetOnGiveUp = FALSE
    RebootInDialogue = FALSE
    MaxFaults = 1
SPECIFICATION FairSpec
INVARIANT GiveUpEarned
