----------------------------- MODULE MCOpenWrt -----------------------------
(***************************************************************************)
(* OpenWrt for TLC: two networks, one repository besides the usual one.     *)
(***************************************************************************)
EXTENDS OpenWrt

TheNets == {"net1", "net2"}

TheDomains == {"downloads", "extra"}

TheAddrs == {"a1", "b1"}

\* Each address belongs to one domain.
TheServes == [a \in TheAddrs |-> IF a = "b1" THEN {"extra"} ELSE {"downloads"}]

ThePackages == {"tinc"}

Env(pass, net, ip6, domains) ==
    [pass |-> pass, net |-> net, ip6 |-> ip6, domains |-> domains]

\* Passthrough on and off, a network that changes with it, with and without
\* IPv6, and a repository that comes and goes.
TheEnvirons ==
    {Env(FALSE, "net1", TRUE, {}), Env(TRUE, "net1", TRUE, {"extra"}),
     Env(TRUE, "net2", FALSE, {})}

=============================================================================
