------------------------------ MODULE OpenWrt ------------------------------
(***************************************************************************)
(* bootstrap_config() of the OpenWrt launcher: at every boot it brings the  *)
(* guest's persistent configuration to what the container's environment     *)
(* asks for.  The disk outlives boots, crashes and containers (a bind mount *)
(* or the openwrt kind), the environment changes with the container, name   *)
(* servers give another answer every time, and the owner of the router adds *)
(* routes of his own.                                                       *)
(*                                                                          *)
(* What is set with uci and not committed is lost in a reboot, so that a    *)
(* group of `uci set' up to its commit is one step; everything else is a    *)
(* step of its own, after which the guest may die.                          *)
(***************************************************************************)
EXTENDS Naturals, FiniteSets, SequencesExt

CONSTANTS
    Nets,      \* management networks, each with its address and gateway
    Domains,   \* names of package repositories
    Home,      \* downloads.openwrt.org, which is always one of them
    Addrs,     \* addresses of repositories
    Serves,    \* the domains an address may be given for
    Packages,  \* packages in the repositories
    Environs,  \* environments the containers are started with
    MaxBoots,  \* bound: boots after the first
    MaxOwn     \* bound: routes of the owner

\* Passthrough, the container's network, has it IPv6, and the repositories
\* besides Home.
Environments == [pass : BOOLEAN, net : Nets, ip6 : BOOLEAN,
                 domains : SUBSET (Domains \ {Home})]

Nat10 == "nat"   \* 10.0.0.15 and 10.0.0.2, behind qemu's NAT
Passthrough == {"passthrough_on", "passthrough_off"}

\* Networks, single addresses and the words that stand for other targets are
\* different texts, and so are domain names and the other comments.
ASSUME OpenWrtAssumption ==
    /\ Environs \subseteq Environments
    /\ Home \in Domains
    /\ Serves \in [Addrs -> SUBSET Domains]
    /\ MaxBoots \in Nat /\ MaxOwn \in Nat
    /\ Nets \cap {Nat10, "none"} = {}
    /\ Addrs \cap (Nets \cup {"dns", "peer"}) = {}
    /\ Domains \cap (Passthrough \cup {"dns", "own"}) = {}

VARIABLES
    want,     \* the environment of the container
    pc,       \* what bootstrap_config() does next
    \* on the disk
    marker,   \* /.firstboot
    users,    \* are the passwords and the user set?
    mgmt,     \* the interface mgmt
    lan,      \* ports of br-lan
    zone,     \* is there a firewall zone mgmt?
    routes,   \* the routes of /etc/config/network, in their order
    hosts,    \* lines of /etc/hosts marked `# opkg'
    pkgs,     \* installed packages
    \* in memory of the guest
    fresh,    \* services that run with what is on the disk
    \* locals
    answers,  \* ipv4_addresses
    output,   \* network_output: the routes as they were read
    wrong,    \* indexes of routes with another gateway
    outdated, \* routes_to_delete
    missing,  \* addresses without a route in network_output
    changes,  \* changes_network, _firewall, _routes and _hosts
    \* history
    lost,     \* what a crash has left half done
    \* bound
    boots

disk   == <<marker, users, mgmt, lan, zone, routes, hosts, pkgs>>
locals == <<answers, output, wrong, outdated, missing, changes>>
vars   == <<want, pc, disk, fresh, locals, lost, boots>>

Services == {"network", "firewall", "dnsmasq"}
NoAnswers == [d \in Domains |-> {}]

Routes == [to : Nets \cup Addrs \cup {"dns", "peer"},
           via : Nets \cup {Nat10, "none"},
           comment : Passthrough \cup {"dns", "own"} \cup Domains]

Opkg == {i \in DOMAIN routes : routes[i].comment \in Domains}

\* Types; the indexes that are kept while routes are removed are always those
\* of routes to repositories.
TypeOK ==
    /\ want \in Environs
    /\ pc \in {"boot", "first", "users", "network", "lan", "firewall", "route",
               "reload", "dns", "resolve", "hosts", "scan", "gateways",
               "delete", "addhosts", "addroutes", "undns", "restart",
               "packages", "reload2", "done", "ended"}
    /\ marker \in BOOLEAN /\ users \in BOOLEAN
    /\ mgmt \in [v4 : Nets \cup {Nat10, "none"}, v6 : BOOLEAN]
    /\ lan \subseteq {"eth0", "eth2"}
    /\ zone \in BOOLEAN
    /\ routes \in Seq(Routes)
    /\ hosts \subseteq Addrs \X Domains
    /\ pkgs \subseteq Packages
    /\ fresh \subseteq Services
    /\ answers \in [Domains -> SUBSET Addrs]
    /\ output \in Seq(Routes)
    /\ wrong \subseteq Opkg /\ outdated \subseteq Opkg
    /\ missing \subseteq Addrs \X Domains
    /\ changes \subseteq {"network", "firewall", "routes", "hosts"}
    /\ lost \in [users : BOOLEAN, dns : 0 .. MaxBoots]
    /\ boots \in 0 .. MaxBoots

Init ==
    /\ want \in Environs
    /\ pc = "boot"
    /\ marker = FALSE /\ users = FALSE
    /\ mgmt = [v4 |-> "none", v6 |-> FALSE]
    /\ lan = {"eth0"} /\ zone = FALSE
    /\ routes = <<>> /\ hosts = {} /\ pkgs = {}
    /\ fresh = Services
    /\ answers = NoAnswers /\ output = <<>>
    /\ wrong = {} /\ outdated = {} /\ missing = {} /\ changes = {}
    /\ lost = [users |-> FALSE, dns |-> 0]
    /\ boots = 0

\* What the environment asks for.
DomainList == want.domains \cup {Home}
Gateway == IF want.pass THEN want.net ELSE Nat10
Mode == IF want.pass THEN "passthrough_on" ELSE "passthrough_off"

MgmtRoute == [to |-> want.net, via |-> Gateway, comment |-> Mode]
Address == [v4 |-> Gateway, v6 |-> want.pass /\ want.ip6]

Hosts(ans) == {pair \in Addrs \X Domains : pair[1] \in ans[pair[2]]}

Changed(kind) == changes' = changes \cup {kind}
Stale(service) == fresh' = fresh \ {service}

(***************************************************************************)
(* Users, interfaces and the route of the management network.               *)
(***************************************************************************)

\* bootstrap_spin() reads br-lan in the boot log.
BrLanSeen ==
    /\ pc = "boot" /\ pc' = "first"
    /\ UNCHANGED <<want, disk, fresh, locals, lost, boots>>

\* The first boot is marked before its work is done.  A guest that has not
\* answered in time is taken for one that boots for the first time.
FirstBoot ==
    /\ pc = "first" /\ pc' \in IF marker THEN {"network", "users"} ELSE {"users"}
    /\ marker' = TRUE
    /\ UNCHANGED <<want, users, mgmt, lan, zone, routes, hosts, pkgs, fresh,
                   locals, lost, boots>>

SetUsers ==
    /\ pc = "users" /\ pc' = "network"
    /\ users' = TRUE
    /\ UNCHANGED <<want, marker, mgmt, lan, zone, routes, hosts, pkgs, fresh,
                   locals, lost, boots>>

\* An interface with the right IPv4 address is left alone.
ConfigureMgmtInterface ==
    /\ pc = "network" /\ pc' = "lan"
    /\ IF mgmt.v4 = Address.v4
       THEN UNCHANGED <<mgmt, fresh, changes>>
       ELSE mgmt' = Address /\ Stale("network") /\ Changed("network")
    /\ UNCHANGED <<want, marker, users, lan, zone, routes, hosts, pkgs, answers,
                   output, wrong, outdated, missing, lost, boots>>

\* eth0 is taken from br-lan, eth2 is put there; where br-lan is not found in
\* what has been read, an error is logged and that is all.
CheckBrLanPorts ==
    /\ pc = "lan" /\ pc' = "firewall"
    /\ lan' \in {lan, (lan \ {"eth0"}) \cup {"eth2"}}
    /\ IF lan' = lan
       THEN UNCHANGED <<fresh, changes>>
       ELSE Stale("network") /\ Changed("network")
    /\ UNCHANGED <<want, marker, users, mgmt, zone, routes, hosts, pkgs,
                   answers, output, wrong, outdated, missing, lost, boots>>

\* Mutant of ConfigureFirewallZone: the reload is asked of the network.
ConfigureFirewallZoneNetwork ==
    /\ pc = "firewall" /\ pc' = "route"
    /\ zone' = TRUE
    /\ IF zone
       THEN UNCHANGED <<fresh, changes>>
       ELSE Stale("firewall") /\ Changed("network")
    /\ UNCHANGED <<want, marker, users, mgmt, lan, routes, hosts, pkgs, answers,
                   output, wrong, outdated, missing, lost, boots>>

ConfigureFirewallZone ==
    /\ pc = "firewall" /\ pc' = "route"
    /\ zone' = TRUE
    /\ IF zone
       THEN UNCHANGED <<fresh, changes>>
       ELSE Stale("firewall") /\ Changed("firewall")
    /\ UNCHANGED <<want, marker, users, mgmt, lan, routes, hosts, pkgs, answers,
                   output, wrong, outdated, missing, lost, boots>>

\* Mutant of ConfigureRoute: adds the route of the other mode.
ConfigureRouteBoth ==
    /\ pc = "route" /\ pc' = "reload"
    /\ routes' = IF \E i \in DOMAIN routes : routes[i].comment = Mode
                 THEN routes ELSE Append(routes, MgmtRoute)
    /\ IF routes' = routes
       THEN UNCHANGED <<fresh, changes>>
       ELSE Stale("network") /\ Changed("network")
    /\ UNCHANGED <<want, marker, users, mgmt, lan, zone, hosts, pkgs, answers,
                   output, wrong, outdated, missing, lost, boots>>

\* The route is added where there is none, and turned into that of the other
\* mode; one of the right mode is left alone.
ConfigureRoute ==
    /\ pc = "route" /\ pc' = "reload"
    /\ routes' = IF \E i \in DOMAIN routes : routes[i].comment \in Passthrough
                 THEN [i \in DOMAIN routes |->
                          IF routes[i].comment \in Passthrough \ {Mode}
                          THEN MgmtRoute ELSE routes[i]]
                 ELSE Append(routes, MgmtRoute)
    /\ IF routes' = routes
       THEN UNCHANGED <<fresh, changes>>
       ELSE Stale("network") /\ Changed("network")
    /\ UNCHANGED <<want, marker, users, mgmt, lan, zone, hosts, pkgs, answers,
                   output, wrong, outdated, missing, lost, boots>>

\* What a reload reads anew.
Reloaded == fresh \cup (changes \cap {"network", "firewall"})

\* changes_firewall is cleared here, before the second reload.
ReloadServices ==
    /\ pc = "reload" /\ pc' = "dns"
    /\ fresh' = Reloaded
    /\ changes' = changes \ {"firewall"}
    /\ UNCHANGED <<want, disk, answers, output, wrong, outdated, missing, lost,
                   boots>>

(***************************************************************************)
(* routes_and_dns().                                                        *)
(***************************************************************************)

\* A temporary route to the name server; the network is restarted.
AddDnsRoute ==
    /\ pc = "dns" /\ pc' = "resolve"
    /\ routes' = Append(routes,
                        [to |-> "dns", via |-> Gateway, comment |-> "dns"])
    /\ fresh' = fresh \cup {"network"}
    /\ UNCHANGED <<want, marker, users, mgmt, lan, zone, hosts, pkgs, locals,
                   lost, boots>>

\* nslookup of each domain, which may find nothing, and a look at the routes.
Resolve ==
    /\ pc = "resolve" /\ pc' = "hosts"
    /\ answers' \in [Domains -> SUBSET Addrs]
    /\ \A d \in Domains :
           answers'[d] \subseteq
               IF d \in DomainList THEN {a \in Addrs : d \in Serves[a]} ELSE {}
    /\ output' = routes
    /\ UNCHANGED <<want, disk, fresh, wrong, outdated, missing, changes, lost,
                   boots>>

\* Lines of domains or addresses that are no longer wanted are removed, one by
\* one; a crash in between leaves some.
CleanHosts ==
    /\ pc = "hosts"
    /\ \/ \E line \in hosts \ Hosts(answers) :
              /\ hosts' = hosts \ {line}
              /\ Stale("dnsmasq") /\ Changed("hosts")
              /\ UNCHANGED pc
       \/ hosts \subseteq Hosts(answers)
          /\ pc' = "scan"
          /\ UNCHANGED <<hosts, fresh, changes>>
    /\ UNCHANGED <<want, marker, users, mgmt, lan, zone, routes, pkgs, answers,
                   output, wrong, outdated, missing, lost, boots>>

Asked(i) == routes[i].comment \in DomainList

\* Mutant of OutdatedRoutes: counts from 1, uci from 0.
OutdatedRoutesFromOne ==
    {i + 1 : i \in {j \in Opkg : \/ ~Asked(j)
                                 \/ routes[j].to \notin
                                        answers[routes[j].comment]}}

\* Of a domain that is not asked for any more, or to an address it has left.
OutdatedRoutes ==
    {i \in Opkg : ~Asked(i) \/ routes[i].to \notin answers[routes[i].comment]}

\* Routes of repositories are marked for deletion, or for another gateway.
Scan ==
    /\ pc = "scan" /\ pc' = "gateways"
    /\ outdated' = OutdatedRoutes
    /\ wrong' = {i \in Opkg : Asked(i) /\ routes[i].via # Gateway}
    /\ UNCHANGED <<want, disk, fresh, answers, output, missing, changes, lost,
                   boots>>

\* Host routes without a gateway.
Gatewayless == {i \in DOMAIN routes : /\ routes[i].comment \notin Passthrough
                                      /\ routes[i].via = "none"}

\* route_data["gateway"] of a host route that has none: KeyError, after the
\* routes before it have been updated.
ScanRaises ==
    /\ pc = "gateways" /\ pc' = "ended"
    /\ \E i \in Gatewayless : \A j \in wrong : i < j
    /\ UNCHANGED <<want, disk, fresh, locals, lost, boots>>

UpdateGateways ==
    /\ pc = "gateways"
    /\ \A i \in Gatewayless : \E j \in wrong : j < i
    /\ IF wrong = {}
       THEN pc' = "delete" /\ UNCHANGED <<routes, fresh, wrong, changes>>
       ELSE LET i == CHOOSE j \in wrong : \A k \in wrong : j <= k IN
            /\ routes' = [routes EXCEPT ![i].via = Gateway]
            /\ wrong' = wrong \ {i}
            /\ Stale("network") /\ Changed("routes")
            /\ UNCHANGED pc
    /\ UNCHANGED <<want, marker, users, mgmt, lan, zone, hosts, pkgs, answers,
                   output, outdated, missing, lost, boots>>

\* Mutant of DeleteRoutes: from the lowest index up.
DeleteRoutesUpwards ==
    /\ pc = "delete"
    /\ IF outdated = {}
       THEN pc' = "addhosts" /\ UNCHANGED <<routes, fresh, outdated, changes>>
       ELSE LET i == CHOOSE j \in outdated : \A k \in outdated : j <= k IN
            /\ routes' = RemoveAt(routes, i)
            /\ outdated' = (outdated \ {i}) \cap DOMAIN routes'
            /\ Stale("network") /\ Changed("routes")
            /\ UNCHANGED pc
    /\ UNCHANGED <<want, marker, users, mgmt, lan, zone, hosts, pkgs, answers,
                   output, wrong, missing, lost, boots>>

\* From the highest index down: the indexes of the others stay right.
DeleteRoutes ==
    /\ pc = "delete"
    /\ IF outdated = {}
       THEN pc' = "addhosts" /\ UNCHANGED <<routes, fresh, outdated, changes>>
       ELSE LET i == CHOOSE j \in outdated : \A k \in outdated : k <= j IN
            /\ routes' = RemoveAt(routes, i)
            /\ outdated' = outdated \ {i}
            /\ Stale("network") /\ Changed("routes")
            /\ UNCHANGED pc
    /\ UNCHANGED <<want, marker, users, mgmt, lan, zone, hosts, pkgs, answers,
                   output, wrong, missing, lost, boots>>

\* Mutant of RouteExists: looks for the gateway in the route itself.
RouteExistsInPlace(a) ==
    \E i \in DOMAIN output : output[i].to = a /\ output[i].via = Gateway

\* The pattern that looks for a route to an address in network_output matches
\* over route boundaries: any later gateway will do.
RouteExists(a) ==
    \E i, j, k \in DOMAIN output :
        /\ i <= j /\ j <= k
        /\ output[i].comment # "own"
        /\ output[j].to = a
        /\ output[k].via = Gateway

AddHosts ==
    /\ pc = "addhosts"
    /\ \/ \E line \in Hosts(answers) \ hosts :
              /\ hosts' = hosts \cup {line}
              /\ Stale("dnsmasq") /\ Changed("hosts")
              /\ UNCHANGED <<pc, missing>>
       \/ /\ Hosts(answers) \subseteq hosts
          /\ pc' = "addroutes"
          /\ missing' = {pair \in Hosts(answers) : ~RouteExists(pair[1])}
          /\ UNCHANGED <<hosts, fresh, changes>>
    /\ UNCHANGED <<want, marker, users, mgmt, lan, zone, routes, pkgs, answers,
                   output, wrong, outdated, lost, boots>>

\* What is missing is what was missing when the routes were read.
AddRoutes ==
    /\ pc = "addroutes"
    /\ \/ \E pair \in missing :
              /\ routes' = Append(routes, [to |-> pair[1], via |-> Gateway,
                                           comment |-> pair[2]])
              /\ missing' = missing \ {pair}
              /\ Stale("network") /\ Changed("routes")
              /\ UNCHANGED pc
       \/ missing = {} /\ pc' = "undns"
          /\ UNCHANGED <<routes, fresh, missing, changes>>
    /\ UNCHANGED <<want, marker, users, mgmt, lan, zone, hosts, pkgs, answers,
                   output, wrong, outdated, lost, boots>>

IsDns(route) == route.comment = "dns"

\* Mutant of RemoveDnsRoute: removes the last route.
RemoveDnsRouteLast ==
    /\ pc = "undns" /\ pc' = "restart"
    /\ routes' = RemoveAt(routes, Len(routes))
    /\ Stale("network") /\ Changed("routes")
    /\ UNCHANGED <<want, marker, users, mgmt, lan, zone, hosts, pkgs, answers,
                   output, wrong, outdated, missing, lost, boots>>

\* The first temporary route found is removed.
RemoveDnsRoute ==
    /\ pc = "undns" /\ pc' = "restart"
    /\ routes' = RemoveAt(routes, SelectInSeq(routes, IsDns))
    /\ Stale("network") /\ Changed("routes")
    /\ UNCHANGED <<want, marker, users, mgmt, lan, zone, hosts, pkgs, answers,
                   output, wrong, outdated, missing, lost, boots>>

\* The network, and dnsmasq if its names have changed.
RestartNetwork ==
    /\ pc = "restart" /\ pc' = "packages"
    /\ fresh' = fresh \cup (IF "routes" \in changes THEN {"network"} ELSE {})
                      \cup (IF "hosts" \in changes THEN {"dnsmasq"} ELSE {})
    /\ changes' = changes \ {"routes", "hosts"}
    /\ UNCHANGED <<want, disk, answers, output, wrong, outdated, missing, lost,
                   boots>>

(***************************************************************************)
(* Packages, and the end.                                                   *)
(***************************************************************************)

\* packet_update() and packages_install(): what is found is installed, and may
\* bring protocols the network must be restarted for.
InstallPackages ==
    /\ pc = "packages" /\ pc' = "reload2"
    /\ \E found \in SUBSET (Packages \ pkgs) :
           /\ pkgs' \in {pkgs \cup installed : installed \in SUBSET found}
           /\ fresh' = IF pkgs' = pkgs THEN fresh ELSE fresh \ {"network"}
           /\ changes' = IF found = {} THEN changes
                         ELSE changes \cup {"network"}
    /\ UNCHANGED <<want, marker, users, mgmt, lan, zone, routes, hosts, answers,
                   output, wrong, outdated, missing, lost, boots>>

\* The second reload; the VM is running.
Finish ==
    /\ pc = "reload2" /\ pc' = "done"
    /\ fresh' = Reloaded
    /\ changes' = {}
    /\ output' = <<>> /\ wrong' = {} /\ outdated' = {} /\ missing' = {}
    /\ UNCHANGED <<want, disk, answers, lost, boots>>

BootstrapConfig ==
    \/ BrLanSeen \/ FirstBoot \/ SetUsers
    \/ ConfigureMgmtInterface \/ CheckBrLanPorts \/ ConfigureFirewallZone
    \/ ConfigureRoute \/ ReloadServices
    \/ AddDnsRoute \/ Resolve \/ CleanHosts \/ Scan \/ ScanRaises
    \/ UpdateGateways \/ DeleteRoutes \/ AddHosts \/ AddRoutes
    \/ RemoveDnsRoute \/ RestartNetwork \/ InstallPackages \/ Finish

(***************************************************************************)
(* The world.                                                               *)
(***************************************************************************)

\* Between AddDnsRoute and RemoveDnsRoute.
DnsRouted == pc \in {"resolve", "hosts", "scan", "gateways", "delete",
                     "addhosts", "addroutes", "undns"}

\* The guest boots from its disk: after a crash, a restart of the VM or of the
\* container, or in a new container, with another environment.
Boot ==
    /\ boots < MaxBoots /\ boots' = boots + 1
    /\ pc' = "boot"
    /\ want' \in Environs
    /\ fresh' = Services
    /\ answers' = NoAnswers /\ output' = <<>>
    /\ wrong' = {} /\ outdated' = {} /\ missing' = {} /\ changes' = {}
    /\ lost' = [users |-> lost.users \/ pc = "users",
                dns |-> lost.dns + IF DnsRouted \/ pc = "ended" THEN 1 ELSE 0]
    /\ UNCHANGED disk

Own(route) == route.comment = "own"

\* The owner adds a route to the running router.
AddOwnRoute ==
    /\ pc = "done"
    /\ Cardinality({i \in DOMAIN routes : Own(routes[i])}) < MaxOwn
    /\ \E via \in {Nat10, "none"} :
           routes' = Append(routes,
                            [to |-> "peer", via |-> via, comment |-> "own"])
    /\ UNCHANGED <<want, pc, marker, users, mgmt, lan, zone, hosts, pkgs, fresh,
                   locals, lost, boots>>

Next == BootstrapConfig \/ Boot \/ AddOwnRoute

Spec == Init /\ [][Next]_vars

(***************************************************************************)
(* Properties.                                                              *)
(***************************************************************************)

Done == pc = "done"

\* "creates a host route via the MGMT interface" (openwrt/README.md): a router
\* that is up has one route, through the gateway of now, for each address a
\* repository was found at, whatever the guest had before.
AddressesRouted ==
    Done => \A pair \in Hosts(answers) :
                Cardinality({i \in DOMAIN routes :
                                 /\ routes[i].to = pair[1]
                                 /\ routes[i].via = Gateway}) = 1

\* No host and no route of a repository that is not asked for any more, or has
\* moved, is left.
NothingOutdated ==
    Done => /\ hosts = Hosts(answers)
            /\ \A i \in DOMAIN routes :
                   routes[i].comment \in Domains =>
                       <<routes[i].to, routes[i].comment>> \in hosts

\* The routes and hosts of the repositories are those of now, no less and no
\* more.
RoutesOfDomains == AddressesRouted /\ NothingOutdated

\* "Remove temporary DNS server route": only a boot that was interrupted after
\* it was added leaves one, and no later boot removes it.
TemporaryRoutes ==
    Done => Cardinality({i \in DOMAIN routes : IsDns(routes[i])}) = lost.dns

\* There is one management route, of the mode asked for, the interface has the
\* address of the mode, and a guest behind NAT has no IPv6 address of the
\* container's.
ManagementOfMode ==
    Done => /\ mgmt.v4 = Address.v4 /\ mgmt.v6 => want.pass
            /\ Cardinality({i \in DOMAIN routes :
                                routes[i].comment \in Passthrough}) = 1
            /\ \E i \in DOMAIN routes : routes[i].comment = Mode

\* A router that is up runs with what is on its disk.
AllApplied == Done => fresh = Services

\* "Set root password (ssh login prerequisite)": only a first boot that was
\* interrupted after its mark leaves a router nobody can log in to.
LoginPossible == Done => users \/ lost.users

\* A router that is up is configured as its disk says, for its users.
RouterUsable == AllApplied /\ LoginPossible

OwnAt == {i \in DOMAIN routes : Own(routes[i])}

\* Routes are removed by their index: none of the owner's ever is. They keep
\* their order, and what he adds comes behind them.
OwnRoutesKept ==
    [][\E f \in [OwnAt -> OwnAt'] :
           /\ \A i \in OwnAt : routes'[f[i]] = routes[i]
           /\ \A i, j \in OwnAt : i < j => f[i] < f[j]
           /\ \A i \in OwnAt, k \in OwnAt' :
                  (\A j \in OwnAt : f[j] # k) => f[i] < k]_vars

=============================================================================
