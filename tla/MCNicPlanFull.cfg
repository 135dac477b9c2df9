\* As many NICs as fill their bridges: twice three.
CONSTANTS
    Topologies <- AnyTopology
    Start = 1
    NumNics = 6
    PerBus = 3
    MinNics = 0
    Shift = 0
    Mgmtless = FALSE
    PrefixIsEth = TRUE
    MaxUnplugs = 0
SPECIFICATION Spec
INVARIANT BusExists
