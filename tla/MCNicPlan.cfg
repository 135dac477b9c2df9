\* An image that needs three NICs and has five, on bridges for three; up to
\* six links, with gaps unless there are too few.
CONSTANTS
    Topologies <- EnoughOrCompact
    Start = 1
    NumNics = 5
    PerBus = 3
    MinNics = 3
    Shift = 0
    Mgmtless = TRUE
    PrefixIsEth = TRUE
    MaxUnplugs = 1
SPECIFICATION FairSpec
INVARIANTS
    SlotsDisjoint
    EthsWired
    BusExists
PROPERTIES
    Launches
