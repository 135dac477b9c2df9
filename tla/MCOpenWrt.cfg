\* Three boots after the first, each in any of three environments. A router that
\* is up rests when the boots are used up.
CONSTANTS
    Nets <- TheNets
    Domains <- TheDomains
    Home = "downloads"
    Addrs <- TheAddrs
    Serves <- TheServes
    Packages <- ThePackages
    Environs <- TheEnvirons
    MaxBoots = 3
    MaxOwn = 1
SPECIFICATION Spec
INVARIANTS
    TypeOK
    RoutesOfDomains
    TemporaryRoutes
    ManagementOfMode
    RouterUsable
PROPERTY OwnRoutesKept
CHECK_DEADLOCK FALSE
