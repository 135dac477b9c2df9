\* An image that needs four NICs (cisco/cat9kv), links numbered with gaps.
CONSTANTS
    Topologies <- AnyTopology
    Start = 1
    NumNics = 5
    PerBus = 3
    MinNics = 4
    Shift = 0
    Mgmtless = FALSE
    PrefixIsEth = TRUE
    MaxUnplugs = 0
SPECIFICATION Spec
INVARIANT SlotsDisjoint
