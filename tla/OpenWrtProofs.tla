--------------------------- MODULE OpenWrtProofs ---------------------------
(***************************************************************************)
(* Proofs about OpenWrt, for any networks, repositories, addresses and     *)
(* environments, and any number of boots and of routes of the owner.       *)
(***************************************************************************)
EXTENDS OpenWrt, FiniteSetTheorems, FunctionTheorems, SequenceTheorems,
        WellFoundedInduction, TLAPS

(***************************************************************************)
(* The inductive invariant, by what it is about.                           *)
(***************************************************************************)

\* Where bootstrap_config() is: what was done in this boot.
MgmtDone  == pc \notin {"boot", "first", "users", "network"}
RouteDone == MgmtDone /\ pc \notin {"lan", "firewall", "route"}
Scanned   == pc \in {"gateways", "delete", "addhosts", "addroutes", "undns",
                     "restart", "packages", "reload2", "done"}
HostsDone == pc \in {"addroutes", "undns", "restart", "packages", "reload2", "done"}

\* What is kept while the routes are changed belongs to that stage.
Cleared ==
    /\ pc \notin {"gateways", "ended"} => wrong = {}
    /\ pc \notin {"gateways", "delete", "ended"} => outdated = {}
    /\ pc # "addroutes" => missing = {}

\* A service that does not run with what is on the disk is one the next reload
\* or restart asks for.
Pending ==
    /\ pc \in {"boot", "first", "users", "network", "lan", "firewall", "route",
               "reload", "reload2"}
       => Services \ fresh \subseteq changes \cap {"network", "firewall"}
    /\ DnsRouted \/ pc \in {"dns", "restart"}
       => /\ "firewall" \in fresh
          /\ "network" \in fresh \/ "routes" \in changes
          /\ "dnsmasq" \in fresh \/ "hosts" \in changes
    /\ pc \in {"packages", "done"} => fresh = Services

\* Only between its mark and its end is the first boot without users.
Marked ==
    /\ pc \notin {"boot", "first"} => marker
    /\ marker /\ pc # "users" => users \/ lost.users

\* The interface has the gateway's address, IPv6 only with the container's.
MgmtInterface ==
    /\ mgmt.v6 => mgmt.v4 \in Nets
    /\ MgmtDone => mgmt.v4 = Gateway

PassAt == {i \in DOMAIN routes : routes[i].comment \in Passthrough}

\* There is one management route at most, and after its turn one of this mode.
MgmtRoutes ==
    /\ \A i, j \in PassAt : i = j
    /\ RouteDone => /\ PassAt # {}
                    /\ \A i \in PassAt : routes[i].comment = Mode

DnsAt == {i \in DOMAIN routes : IsDns(routes[i])}

\* Temporary routes: those of interrupted boots, and the one of this boot.
DnsRoutes ==
    /\ Cardinality(DnsAt) =
          lost.dns + (IF DnsRouted \/ pc = "ended" THEN 1 ELSE 0)
    /\ lost.dns <= boots

\* A route is of a repository just when it leads to an address, and then the
\* address may be one of the repository.
RouteKinds ==
    \A i \in DOMAIN routes :
        /\ routes[i].comment \in Domains =>
               routes[i].to \in Addrs /\ routes[i].comment \in Serves[routes[i].to]
        /\ routes[i].to \in Addrs => routes[i].comment \in Domains

AnswerKinds ==
    /\ \A d \in Domains : \A a \in answers[d] : d \in DomainList /\ d \in Serves[a]
    /\ missing \subseteq Hosts(answers)

\* A route that is neither marked nor wrong is one that was asked for.
RoutesScanned ==
    /\ Scanned => \A i \in Opkg \ outdated :
                      <<routes[i].to, routes[i].comment>> \in Hosts(answers)
    /\ pc \in {"gateways", "delete"} =>
           \A i \in outdated :
               <<routes[i].to, routes[i].comment>> \notin Hosts(answers)
    /\ Scanned => \A i \in Opkg \ (outdated \cup wrong) : routes[i].via = Gateway

HostsKnown ==
    /\ pc \in {"scan", "gateways", "delete", "addhosts"} => hosts \subseteq Hosts(answers)
    /\ HostsDone => hosts = Hosts(answers)

IInv ==
    /\ TypeOK /\ Cleared /\ Pending /\ Marked /\ MgmtInterface /\ MgmtRoutes
    /\ DnsRoutes /\ RouteKinds /\ AnswerKinds /\ RoutesScanned /\ HostsKnown

\* With that, if no address is given for two domains, the routes to addresses
\* are unique, and what RouteExists finds is right: the routes that were read end
\* with the temporary one, whose gateway is that of now.
OneDomain == \A a \in Addrs : \A d, e \in Serves[a] : d = e

RouteTo(a) == \E i \in DOMAIN routes : routes[i].to = a

Unique ==
    \A i, j \in DOMAIN routes :
        routes[i].to \in Addrs /\ routes[i].to = routes[j].to => i = j

LastIsDns == pc = "resolve" => routes # <<>> /\ routes[Len(routes)].via = Gateway

Found ==
    /\ pc \in {"hosts", "scan", "gateways", "delete", "addhosts"} =>
           \A pair \in Hosts(answers) : RouteExists(pair[1]) <=> RouteTo(pair[1])
    /\ HostsDone =>
           \A pair \in Hosts(answers) : pair \in missing <=> ~RouteTo(pair[1])

RInv == IInv /\ Unique /\ LastIsDns /\ Found

(***************************************************************************)
(* Smallest and largest elements, and what is left when one is removed.    *)
(***************************************************************************)

LEMMA Smallest ==
    ASSUME NEW S, S \subseteq Nat, S # {}
    PROVE  \E x \in S : \A y \in S : x <= y
<1>. DEFINE R == OpToRel(<, Nat)
<1>1. IsWellFoundedOn(R, Nat)
  BY NatLessThanWellFounded
<1>2. \A x, y \in Nat : <<x, y>> \in R <=> x < y
  BY DEF OpToRel
<1>. HIDE DEF R
<1>3. \E x \in S : \A y \in S : <<y, x>> \notin R
  BY <1>1, WFMin
<1>4. PICK x \in S : \A y \in S : <<y, x>> \notin R
  BY <1>3
<1>5. \A y \in S : ~(y < x)
  BY <1>2, <1>4
<1>. QED
  BY <1>4, <1>5

LEMMA Largest ==
    ASSUME NEW n \in Nat, NEW S, S \subseteq 1 .. n, S # {}
    PROVE  \E x \in S : \A y \in S : y <= x
<1>. DEFINE T == {n - k : k \in S}
<1>1. T \subseteq Nat
  <2>1. \A k \in S : n - k \in Nat
    OBVIOUS
  <2>. QED
    BY <2>1
<1>0. T # {}
  OBVIOUS
<1>2. PICK t \in T : \A u \in T : t <= u
  BY <1>0, <1>1, Smallest
<1>3. PICK x \in S : t = n - x
  BY <1>2
<1>4. \A y \in S : n - x <= n - y
  BY <1>2, <1>3
<1>. QED
  BY <1>3, <1>4

LEMMA Removed ==
    ASSUME NEW S, NEW s \in Seq(S), NEW i \in 1 .. Len(s)
    PROVE  /\ RemoveAt(s, i) \in Seq(S)
           /\ Len(RemoveAt(s, i)) = Len(s) - 1
           /\ \A k \in 1 .. Len(s) - 1 :
                 RemoveAt(s, i)[k] = IF k < i THEN s[k] ELSE s[k + 1]
<1>. DEFINE a == SubSeq(s, 1, i - 1)
            b == SubSeq(s, i + 1, Len(s))
<1>1. Len(s) \in Nat /\ i \in Nat /\ 1 <= i /\ i <= Len(s)
  OBVIOUS
<1>2. /\ a \in Seq(S) /\ Len(a) = i - 1
      /\ \A k \in 1 .. i - 1 : a[k] = s[k]
  OBVIOUS
<1>3. /\ b \in Seq(S) /\ Len(b) = Len(s) - i
      /\ \A k \in 1 .. Len(s) - i : b[k] = s[i + k]
  OBVIOUS
<1>. HIDE DEF a, b
<1>4. /\ a \o b \in Seq(S) /\ Len(a \o b) = Len(a) + Len(b)
      /\ \A k \in 1 .. Len(a) + Len(b) :
            (a \o b)[k] = IF k <= Len(a) THEN a[k] ELSE b[k - Len(a)]
  BY <1>2, <1>3, ConcatProperties
<1>5. Len(a) + Len(b) = Len(s) - 1
  BY <1>1, <1>2, <1>3
<1>6. ASSUME NEW k \in 1 .. Len(s) - 1
      PROVE  (a \o b)[k] = IF k < i THEN s[k] ELSE s[k + 1]
  <2>1. CASE k < i
    BY <1>1, <1>2, <1>4, <1>5, <2>1
  <2>2. CASE ~(k < i)
    <3>1. k - (i - 1) \in 1 .. Len(s) - i /\ i + (k - (i - 1)) = k + 1
      BY <1>1, <2>2
    <3>2. (a \o b)[k] = b[k - (i - 1)]
      BY <1>1, <1>2, <1>4, <1>5, <2>2
    <3>. QED
      BY <1>3, <2>2, <3>1, <3>2
  <2>. QED
    BY <2>1, <2>2
<1>. QED
  BY <1>4, <1>5, <1>6 DEF RemoveAt, a, b

(***************************************************************************)
(* What the steps do to the routes.                                        *)
(***************************************************************************)

LEMMA RoutesLength ==
    ASSUME TypeOK
    PROVE  /\ Len(routes) \in Nat /\ DOMAIN routes = 1 .. Len(routes)
           /\ \A i \in 1 .. Len(routes) : routes[i] \in Routes
           /\ Opkg \subseteq 1 .. Len(routes)
  BY LenProperties DEF TypeOK, Opkg

LEMMA AppendRoute ==
    ASSUME TypeOK, NEW r \in Routes, routes' = Append(routes, r)
    PROVE  /\ routes' \in Seq(Routes) /\ Len(routes') = Len(routes) + 1
           /\ DOMAIN routes' = 1 .. Len(routes) + 1
           /\ \A i \in 1 .. Len(routes) : routes'[i] = routes[i]
           /\ routes'[Len(routes) + 1] = r
<1>1. routes \in Seq(Routes)
  BY DEF TypeOK
<1>2. /\ routes' \in Seq(Routes) /\ Len(routes') = Len(routes) + 1
      /\ \A i \in 1 .. Len(routes) : routes'[i] = routes[i]
      /\ routes'[Len(routes) + 1] = r
  BY <1>1, AppendProperties
<1>3. DOMAIN routes' = 1 .. Len(routes')
  BY <1>2, LenProperties
<1>. QED
  BY <1>2, <1>3

LEMMA RemoveRoute ==
    ASSUME TypeOK, NEW i \in 1 .. Len(routes), routes' = RemoveAt(routes, i)
    PROVE  /\ routes' \in Seq(Routes) /\ Len(routes') = Len(routes) - 1
           /\ DOMAIN routes' = 1 .. Len(routes) - 1
           /\ \A k \in 1 .. Len(routes) - 1 :
                 routes'[k] = IF k < i THEN routes[k] ELSE routes[k + 1]
<1>1. routes \in Seq(Routes)
  BY DEF TypeOK
<1>2. /\ routes' \in Seq(Routes) /\ Len(routes') = Len(routes) - 1
      /\ \A k \in 1 .. Len(routes) - 1 :
            routes'[k] = IF k < i THEN routes[k] ELSE routes[k + 1]
  BY <1>1, Removed
<1>3. DOMAIN routes' = 1 .. Len(routes')
  BY <1>2, LenProperties
<1>. QED
  BY <1>2, <1>3

\* Another gateway leaves everything else as it was.
LEMMA GatewayRoute ==
    ASSUME TypeOK, NEW i \in 1 .. Len(routes),
           routes' = [routes EXCEPT ![i].via = Gateway]
    PROVE  /\ routes' \in Seq(Routes) /\ Len(routes') = Len(routes)
           /\ DOMAIN routes' = DOMAIN routes
           /\ \A k \in 1 .. Len(routes) :
                 /\ routes'[k].to = routes[k].to /\ routes'[k].comment = routes[k].comment
                 /\ k # i => routes'[k] = routes[k]
           /\ routes'[i].via = Gateway
<1>1. routes \in Seq(Routes) /\ i \in DOMAIN routes /\ Gateway \in Nets \cup {Nat10, "none"}
  BY RoutesLength, OpenWrtAssumption DEF TypeOK, Gateway, Environments
<1>2. \A k \in 1 .. Len(routes) : routes[k] \in Routes
  BY RoutesLength
<1>3. [routes[i] EXCEPT !.via = Gateway] \in Routes
  BY <1>1, <1>2 DEF Routes
<1>4. routes' = [routes EXCEPT ![i] = [routes[i] EXCEPT !.via = Gateway]]
  OBVIOUS
<1>5. routes' \in Seq(Routes) /\ Len(routes') = Len(routes)
      /\ \A k \in 1 .. Len(routes) :
            routes'[k] = IF k = i THEN [routes[i] EXCEPT !.via = Gateway] ELSE routes[k]
  BY <1>1, <1>3, <1>4, ExceptSeq
<1>6. DOMAIN routes' = 1 .. Len(routes') /\ DOMAIN routes = 1 .. Len(routes)
  BY <1>1, <1>5, LenProperties
<1>7. /\ [routes[i] EXCEPT !.via = Gateway].to = routes[i].to
      /\ [routes[i] EXCEPT !.via = Gateway].comment = routes[i].comment
      /\ [routes[i] EXCEPT !.via = Gateway].via = Gateway
  BY <1>1, <1>2 DEF Routes
<1>. QED
  BY <1>5, <1>6, <1>7

\* The management route is changed in its place, or added.
LEMMA ModeRoute ==
    ASSUME TypeOK, ConfigureRoute
    PROVE  \/ /\ PassAt = {} /\ MgmtRoute \in Routes /\ routes' = Append(routes, MgmtRoute)
           \/ /\ PassAt # {} /\ routes' \in Seq(Routes) /\ Len(routes') = Len(routes)
              /\ DOMAIN routes' = DOMAIN routes
              /\ \A k \in 1 .. Len(routes) :
                    routes'[k] = IF k \in PassAt /\ routes[k].comment # Mode
                                 THEN MgmtRoute ELSE routes[k]
<1>1. MgmtRoute \in Routes
  BY OpenWrtAssumption DEF TypeOK, MgmtRoute, Routes, Gateway, Mode, Passthrough, Environments
<1>2. CASE PassAt = {}
  BY <1>1, <1>2 DEF ConfigureRoute, PassAt
<1>3. CASE PassAt # {}
  <2>. DEFINE new(k) == IF routes[k].comment \in Passthrough \ {Mode} THEN MgmtRoute
                        ELSE routes[k]
  <2>1. routes' = [k \in 1 .. Len(routes) |-> new(k)]
    BY <1>3, RoutesLength DEF ConfigureRoute, PassAt
  <2>2. \A k \in 1 .. Len(routes) : new(k) \in Routes
    BY <1>1, RoutesLength
  <2>3. routes' \in Seq(Routes)
    BY <2>1, <2>2, RoutesLength
  <2>4. DOMAIN routes' = DOMAIN routes /\ Len(routes') = Len(routes)
    BY <2>1, <2>3, RoutesLength, LenProperties
  <2>5. \A k \in 1 .. Len(routes) : routes'[k] = new(k)
    BY <2>1
  <2>6. \A k \in 1 .. Len(routes) :
           k \in PassAt /\ routes[k].comment # Mode <=>
               routes[k].comment \in Passthrough \ {Mode}
    BY RoutesLength DEF PassAt
  <2>. QED
    BY <1>3, <2>3, <2>4, <2>5, <2>6
<1>. QED
  BY <1>2, <1>3

\* RemoveDnsRoute finds a temporary route when there is one.
LEMMA DnsSelected ==
    ASSUME TypeOK, DnsAt # {}
    PROVE  SelectInSeq(routes, IsDns) \in DnsAt
<1>1. DnsAt \subseteq Nat /\ DnsAt = {i \in 1 .. Len(routes) : IsDns(routes[i])}
  BY RoutesLength DEF DnsAt
<1>2. SelectInSeq(routes, IsDns) = Min(DnsAt)
  BY <1>1 DEF SelectInSeq
<1>3. \E x \in DnsAt : \A y \in DnsAt : x <= y
  BY <1>1, Smallest
<1>. QED
  BY <1>2, <1>3 DEF Min

\* The routes to change are taken in their order, those to delete the other way.
LEMMA FirstWrong ==
    ASSUME TypeOK, wrong # {}
    PROVE  LET i == CHOOSE j \in wrong : \A k \in wrong : j <= k
           IN  i \in wrong /\ i \in 1 .. Len(routes)
<1>1. wrong \subseteq 1 .. Len(routes) /\ wrong \subseteq Nat
  BY RoutesLength DEF TypeOK
<1>2. \E j \in wrong : \A k \in wrong : j <= k
  BY <1>1, Smallest
<1>. QED
  BY <1>1, <1>2

LEMMA LastOutdated ==
    ASSUME TypeOK, outdated # {}
    PROVE  LET i == CHOOSE j \in outdated : \A k \in outdated : k <= j
           IN  /\ i \in outdated /\ i \in 1 .. Len(routes)
               /\ \A k \in outdated : k <= i
<1>1. outdated \subseteq 1 .. Len(routes) /\ Len(routes) \in Nat
  BY RoutesLength DEF TypeOK
<1>2. \E j \in outdated : \A k \in outdated : k <= j
  BY <1>1, Largest
<1>. QED
  BY <1>1, <1>2

(***************************************************************************)
(* Types.                                                                  *)
(***************************************************************************)

LEMMA ConstantTypes ==
    /\ "done" # "ended" /\ Services = {"network", "firewall", "dnsmasq"}
    /\ Home \in Domains /\ MaxBoots \in Nat
    /\ \A a \in Addrs : Serves[a] \subseteq Domains
    /\ NoAnswers \in [Domains -> SUBSET Addrs]
    /\ TypeOK => /\ Gateway \in Nets \cup {Nat10} /\ Mode \in Passthrough
                 /\ DomainList \subseteq Domains
                 /\ Address \in [v4 : Nets \cup {Nat10, "none"}, v6 : BOOLEAN]
  BY OpenWrtAssumption
     DEF Services, NoAnswers, TypeOK, Gateway, Mode, Passthrough, DomainList, Address, Environments

\* Steps that leave the routes alone.
LEMMA TypeWithoutRoutes ==
    ASSUME IInv,
           \/ BrLanSeen \/ FirstBoot \/ SetUsers \/ ConfigureMgmtInterface
           \/ CheckBrLanPorts \/ ConfigureFirewallZone \/ ReloadServices \/ Resolve
           \/ CleanHosts \/ Scan \/ ScanRaises \/ AddHosts \/ RestartNetwork
           \/ InstallPackages \/ Finish \/ Boot \/ UNCHANGED vars
    PROVE  TypeOK'
<1>. USE ConstantTypes DEF IInv, TypeOK, disk, locals, Changed, Stale, Reloaded, Services
<1>0. UNCHANGED routes => Opkg' = Opkg
  BY DEF Opkg
<1>1. CASE BrLanSeen \/ FirstBoot \/ SetUsers \/ ScanRaises \/ UNCHANGED vars
  BY <1>0, <1>1 DEF BrLanSeen, FirstBoot, SetUsers, ScanRaises, vars
<1>2. CASE ConfigureMgmtInterface \/ CheckBrLanPorts \/ ConfigureFirewallZone
  BY <1>0, <1>2 DEF ConfigureMgmtInterface, CheckBrLanPorts, ConfigureFirewallZone
<1>3. CASE ReloadServices
  BY <1>0, <1>3 DEF ReloadServices
<1>10. CASE RestartNetwork
  <2>1. fresh' \subseteq Services
    BY <1>10 DEF RestartNetwork
  <2>2. changes' \subseteq {"network", "firewall", "routes", "hosts"}
    BY <1>10 DEF RestartNetwork
  <2>. QED
    BY <1>0, <1>10, <2>1, <2>2 DEF RestartNetwork
<1>11. CASE Finish
  BY <1>0, <1>11 DEF Finish
<1>4. CASE Resolve
  BY <1>0, <1>4 DEF Resolve
<1>5. CASE Scan
  <2>1. outdated' \subseteq Opkg /\ wrong' \subseteq Opkg
    BY <1>5 DEF Scan, OutdatedRoutes
  <2>. QED
    BY <1>0, <1>5, <2>1 DEF Scan
<1>6. CASE CleanHosts
  BY <1>0, <1>6 DEF CleanHosts
<1>7. CASE AddHosts
  BY <1>0, <1>7 DEF AddHosts, Hosts
<1>8. CASE InstallPackages
  BY <1>0, <1>8 DEF InstallPackages
<1>9. CASE Boot
  <2>1. lost.dns \in Nat /\ lost.dns <= boots /\ boots \in Nat /\ boots < MaxBoots
    BY <1>9 DEF Boot, DnsRoutes
  <2>2. lost' \in [users : BOOLEAN, dns : 0 .. MaxBoots]
    BY <1>9, <2>1 DEF Boot
  <2>. QED
    BY <1>0, <1>9, <2>1, <2>2 DEF Boot
<1>. QED
  BY <1>1, <1>2, <1>3, <1>4, <1>5, <1>6, <1>7, <1>8, <1>9, <1>10, <1>11

LEMMA DnsRoutesExist ==
    ASSUME IInv, DnsRouted \/ pc = "ended"
    PROVE  DnsAt # {}
<1>1. IsFiniteSet(1 .. Len(routes)) /\ DnsAt \subseteq 1 .. Len(routes)
  BY RoutesLength, FS_Interval DEF IInv, DnsAt
<1>2. IsFiniteSet(DnsAt)
  BY <1>1, FS_Subset
<1>3. Cardinality(DnsAt) # 0
  BY DEF IInv, DnsRoutes, TypeOK
<1>. QED
  BY <1>2, <1>3, FS_EmptySet

\* Steps that change the routes.
LEMMA RouteTypes ==
    /\ TypeOK => [to |-> "dns", via |-> Gateway, comment |-> "dns"] \in Routes
    /\ \A via \in {Nat10, "none"} : [to |-> "peer", via |-> via, comment |-> "own"] \in Routes
    /\ TypeOK => \A pair \in missing :
                    [to |-> pair[1], via |-> Gateway, comment |-> pair[2]] \in Routes
  BY ConstantTypes DEF Routes, TypeOK

LEMMA TypeWithRoutes ==
    ASSUME IInv,
           \/ ConfigureRoute \/ AddDnsRoute \/ UpdateGateways \/ DeleteRoutes
           \/ AddRoutes \/ RemoveDnsRoute \/ AddOwnRoute
    PROVE  TypeOK'
<1>. USE ConstantTypes DEF IInv, disk, locals, Changed, Stale, Services
<1>1. CASE ConfigureRoute
  <2>1. routes' \in Seq(Routes)
    BY <1>1, ModeRoute, AppendRoute
  <2>2. wrong = {} /\ outdated = {}
    BY <1>1 DEF Cleared, ConfigureRoute
  <2>. QED
    BY <1>1, <2>1, <2>2 DEF ConfigureRoute, TypeOK
<1>2. CASE AddDnsRoute
  <2>1. routes' \in Seq(Routes)
    BY <1>2, RouteTypes, AppendRoute DEF AddDnsRoute
  <2>2. wrong = {} /\ outdated = {}
    BY <1>2 DEF Cleared, AddDnsRoute
  <2>. QED
    BY <1>2, <2>1, <2>2 DEF AddDnsRoute, TypeOK
<1>3. CASE UpdateGateways
  <2>1. CASE wrong = {}
    BY <1>3, <2>1 DEF UpdateGateways, TypeOK, Opkg
  <2>2. CASE wrong # {}
    <3>. DEFINE i == CHOOSE j \in wrong : \A k \in wrong : j <= k
    <3>1. routes' = [routes EXCEPT ![i].via = Gateway] /\ i \in 1 .. Len(routes)
      BY <1>3, <2>2, FirstWrong DEF UpdateGateways
    <3>. HIDE DEF i
    <3>2. routes' \in Seq(Routes) /\ Opkg' = Opkg
      BY <3>1, RoutesLength, GatewayRoute DEF Opkg
    <3>. QED
      BY <1>3, <2>2, <3>2 DEF UpdateGateways, TypeOK
  <2>. QED
    BY <2>1, <2>2
<1>4. CASE DeleteRoutes
  <2>1. CASE outdated = {}
    BY <1>4, <2>1 DEF DeleteRoutes, TypeOK, Opkg
  <2>2. CASE outdated # {}
    <3>. DEFINE i == CHOOSE j \in outdated : \A k \in outdated : k <= j
    <3>1. /\ routes' = RemoveAt(routes, i) /\ outdated' = outdated \ {i}
          /\ i \in 1 .. Len(routes) /\ \A k \in outdated : k <= i
      BY <1>4, <2>2, LastOutdated DEF DeleteRoutes
    <3>. HIDE DEF i
    <3>2. routes' \in Seq(Routes) /\ outdated' \subseteq Opkg'
      <4>1. \A k \in outdated \ {i} : /\ k \in 1 .. Len(routes) - 1 /\ k < i
                                      /\ routes[k].comment \in Domains
        BY <3>1, RoutesLength DEF TypeOK, Opkg
      <4>. QED
        BY <3>1, <4>1, RemoveRoute DEF Opkg
    <3>3. wrong = {}
      BY <1>4 DEF Cleared, DeleteRoutes
    <3>. QED
      BY <1>4, <2>2, <3>2, <3>3 DEF DeleteRoutes, TypeOK
  <2>. QED
    BY <2>1, <2>2
<1>5. CASE AddRoutes
  <2>1. routes' \in Seq(Routes)
    BY <1>5, RouteTypes, AppendRoute DEF AddRoutes, TypeOK
  <2>2. wrong = {} /\ outdated = {}
    BY <1>5 DEF Cleared, AddRoutes
  <2>. QED
    BY <1>5, <2>1, <2>2 DEF AddRoutes, TypeOK
<1>6. CASE RemoveDnsRoute
  <2>1. SelectInSeq(routes, IsDns) \in 1 .. Len(routes)
    BY <1>6, DnsRoutesExist, DnsSelected, RoutesLength DEF DnsRouted, RemoveDnsRoute, DnsAt
  <2>2. routes' \in Seq(Routes)
    BY <1>6, <2>1, RemoveRoute DEF RemoveDnsRoute
  <2>3. wrong = {} /\ outdated = {}
    BY <1>6 DEF Cleared, RemoveDnsRoute
  <2>. QED
    BY <1>6, <2>2, <2>3 DEF RemoveDnsRoute, TypeOK
<1>7. CASE AddOwnRoute
  <2>1. routes' \in Seq(Routes)
    BY <1>7, RouteTypes, AppendRoute DEF AddOwnRoute
  <2>2. wrong = {} /\ outdated = {}
    BY <1>7 DEF Cleared, AddOwnRoute
  <2>. QED
    BY <1>7, <2>1, <2>2 DEF AddOwnRoute, TypeOK
<1>. QED
  BY <1>1, <1>2, <1>3, <1>4, <1>5, <1>6, <1>7

LEMMA TypeStep == IInv /\ [Next]_vars => TypeOK'
  BY TypeWithoutRoutes, TypeWithRoutes DEF Next, BootstrapConfig

(***************************************************************************)
(* Where the bootstrap is, and what the services run with.                 *)
(***************************************************************************)

LEMMA ClearedStep ==
    ASSUME IInv, [Next]_vars
    PROVE  Cleared'
<1>. USE DEF IInv, Cleared, disk, locals
<1>1. CASE \/ BrLanSeen \/ FirstBoot \/ SetUsers \/ ConfigureMgmtInterface
           \/ CheckBrLanPorts \/ ConfigureFirewallZone \/ ConfigureRoute
           \/ ReloadServices \/ AddDnsRoute \/ Resolve \/ CleanHosts
  BY <1>1 DEF BrLanSeen, FirstBoot, SetUsers, ConfigureMgmtInterface, CheckBrLanPorts,
              ConfigureFirewallZone, ConfigureRoute, ReloadServices, AddDnsRoute,
              Resolve, CleanHosts
<1>2. CASE Scan \/ ScanRaises
  BY <1>2 DEF Scan, ScanRaises
<1>3. CASE UpdateGateways
  BY <1>3 DEF UpdateGateways
<1>4. CASE DeleteRoutes
  BY <1>4 DEF DeleteRoutes
<1>5. CASE \/ AddHosts \/ AddRoutes \/ RemoveDnsRoute \/ RestartNetwork
           \/ InstallPackages \/ Finish \/ Boot \/ AddOwnRoute \/ UNCHANGED vars
  BY <1>5 DEF AddHosts, AddRoutes, RemoveDnsRoute, RestartNetwork, InstallPackages,
              Finish, Boot, AddOwnRoute, vars
<1>. QED
  BY <1>1, <1>2, <1>3, <1>4, <1>5 DEF Next, BootstrapConfig

LEMMA PendingStep ==
    ASSUME IInv, [Next]_vars
    PROVE  Pending'
<1>. USE DEF IInv, Pending, DnsRouted, Services, disk, locals, Stale, Changed, Reloaded
<1>0. fresh \subseteq Services
  BY DEF TypeOK
<1>1. CASE BrLanSeen \/ FirstBoot \/ SetUsers \/ UNCHANGED vars \/ ScanRaises
  BY <1>0, <1>1 DEF BrLanSeen, FirstBoot, SetUsers, ScanRaises, vars
<1>2. CASE ConfigureMgmtInterface
  BY <1>0, <1>2 DEF ConfigureMgmtInterface
<1>3. CASE CheckBrLanPorts
  BY <1>0, <1>3 DEF CheckBrLanPorts
<1>4. CASE ConfigureFirewallZone
  BY <1>0, <1>4 DEF ConfigureFirewallZone
<1>5. CASE ConfigureRoute
  BY <1>0, <1>5 DEF ConfigureRoute
<1>6. CASE ReloadServices
  BY <1>0, <1>6 DEF ReloadServices
<1>7. CASE AddDnsRoute \/ Resolve \/ Scan
  BY <1>0, <1>7 DEF AddDnsRoute, Resolve, Scan
<1>8. CASE CleanHosts
  BY <1>0, <1>8 DEF CleanHosts
<1>9. CASE UpdateGateways
  BY <1>0, <1>9 DEF UpdateGateways
<1>10. CASE DeleteRoutes
  BY <1>0, <1>10 DEF DeleteRoutes
<1>11. CASE AddHosts
  BY <1>0, <1>11 DEF AddHosts
<1>12. CASE AddRoutes
  BY <1>0, <1>12 DEF AddRoutes
<1>13. CASE RemoveDnsRoute
  BY <1>0, <1>13 DEF RemoveDnsRoute
<1>14. CASE RestartNetwork
  BY <1>0, <1>14 DEF RestartNetwork
<1>15. CASE InstallPackages
  BY <1>0, <1>15 DEF InstallPackages
<1>16. CASE Finish
  BY <1>0, <1>16 DEF Finish
<1>17. CASE Boot \/ AddOwnRoute
  BY <1>0, <1>17 DEF Boot, AddOwnRoute
<1>. QED
  BY <1>1, <1>2, <1>3, <1>4, <1>5, <1>6, <1>7, <1>8, <1>9, <1>10, <1>11, <1>12,
     <1>13, <1>14, <1>15, <1>16, <1>17 DEF Next, BootstrapConfig

\* The steps after those of the first boot, but for the reboot.
LEMMA MarkedStep ==
    ASSUME IInv, [Next]_vars
    PROVE  Marked'
<1>. USE DEF IInv, Marked, disk
<1>1. CASE BrLanSeen \/ UNCHANGED vars
  BY <1>1 DEF BrLanSeen, vars
<1>2. CASE FirstBoot
  BY <1>2 DEF FirstBoot
<1>3. CASE SetUsers
  BY <1>3 DEF SetUsers
<1>4. CASE \/ ConfigureMgmtInterface \/ CheckBrLanPorts \/ ConfigureFirewallZone
           \/ ConfigureRoute \/ ReloadServices \/ AddDnsRoute \/ Resolve
  BY <1>4 DEF ConfigureMgmtInterface, CheckBrLanPorts, ConfigureFirewallZone,
              ConfigureRoute, ReloadServices, AddDnsRoute, Resolve
<1>5. CASE \/ CleanHosts \/ Scan \/ ScanRaises \/ UpdateGateways \/ DeleteRoutes
           \/ AddHosts \/ AddRoutes
  BY <1>5 DEF CleanHosts, Scan, ScanRaises, UpdateGateways, DeleteRoutes, AddHosts, AddRoutes
<1>6. CASE \/ RemoveDnsRoute \/ RestartNetwork \/ InstallPackages \/ Finish \/ AddOwnRoute
  BY <1>6 DEF RemoveDnsRoute, RestartNetwork, InstallPackages, Finish, AddOwnRoute
<1>7. CASE Boot
  <2>1. lost'.users = (lost.users \/ pc = "users")
    BY <1>7 DEF Boot
  <2>. QED
    BY <1>7, <2>1 DEF Boot
<1>. QED
  BY <1>1, <1>2, <1>3, <1>4, <1>5, <1>6, <1>7 DEF Next, BootstrapConfig

LEMMA MgmtInterfaceStep ==
    ASSUME IInv, [Next]_vars
    PROVE  MgmtInterface'
<1>. USE DEF IInv, MgmtInterface, MgmtDone, Gateway, disk
<1>1. CASE BrLanSeen \/ FirstBoot \/ SetUsers \/ UNCHANGED vars
  BY <1>1 DEF BrLanSeen, FirstBoot, SetUsers, vars
<1>2. CASE ConfigureMgmtInterface
  <2>1. CASE mgmt.v4 = Address.v4
    BY <1>2, <2>1 DEF ConfigureMgmtInterface, Address
  <2>2. CASE mgmt.v4 # Address.v4
    <3>1. /\ mgmt'.v4 = Gateway /\ mgmt'.v6 = (want.pass /\ want.ip6)
          /\ want' = want /\ want.net \in Nets
      BY <1>2, <2>2, OpenWrtAssumption DEF ConfigureMgmtInterface, Address, TypeOK, Environments
    <3>2. mgmt'.v6 => mgmt'.v4 \in Nets
      BY <3>1
    <3>3. mgmt'.v4 = Gateway'
      BY <3>1
    <3>. QED
      BY <3>2, <3>3
  <2>. QED
    BY <2>1, <2>2
<1>3. CASE \/ CheckBrLanPorts \/ ConfigureFirewallZone
           \/ ConfigureRoute \/ ReloadServices \/ AddDnsRoute \/ Resolve
  BY <1>3 DEF CheckBrLanPorts, ConfigureFirewallZone, ConfigureRoute,
              ReloadServices, AddDnsRoute, Resolve
<1>4. CASE \/ CleanHosts \/ Scan \/ ScanRaises \/ UpdateGateways \/ DeleteRoutes
           \/ AddHosts \/ AddRoutes
  BY <1>4 DEF CleanHosts, Scan, ScanRaises, UpdateGateways, DeleteRoutes, AddHosts, AddRoutes
<1>5. CASE \/ RemoveDnsRoute \/ RestartNetwork \/ InstallPackages \/ Finish \/ AddOwnRoute
  BY <1>5 DEF RemoveDnsRoute, RestartNetwork, InstallPackages, Finish, AddOwnRoute
<1>6. CASE Boot
  BY <1>6 DEF Boot
<1>. QED
  BY <1>1, <1>2, <1>3, <1>4, <1>5, <1>6 DEF Next, BootstrapConfig

(***************************************************************************)
(* The places of the routes of a kind.                                     *)
(***************************************************************************)

At(C) == {i \in DOMAIN routes : routes[i].comment \in C}

LEMMA Kinds ==
    /\ PassAt = At(Passthrough) /\ DnsAt = At({"dns"}) /\ Opkg = At(Domains)
    /\ OwnAt = At({"own"})
    /\ PassAt' = At(Passthrough)' /\ DnsAt' = At({"dns"})' /\ OwnAt' = At({"own"})'
  BY DEF PassAt, DnsAt, Opkg, OwnAt, At, IsDns, Own

LEMMA FiniteKinds ==
    ASSUME TypeOK, NEW C
    PROVE  At(C) \subseteq 1 .. Len(routes) /\ IsFiniteSet(At(C))
<1>1. IsFiniteSet(1 .. Len(routes)) /\ At(C) \subseteq 1 .. Len(routes)
  BY RoutesLength, FS_Interval DEF At
<1>. QED
  BY <1>1, FS_Subset

LEMMA AppendKind ==
    ASSUME TypeOK, NEW r \in Routes, routes' = Append(routes, r), NEW C
    PROVE  At(C)' = IF r.comment \in C THEN At(C) \cup {Len(routes) + 1} ELSE At(C)
  BY RoutesLength, AppendRoute DEF At

\* The other routes stay, in their order.
LEMMA RemoveIndex ==
    ASSUME TypeOK, NEW i \in 1 .. Len(routes), routes' = RemoveAt(routes, i),
           NEW j \in 1 .. Len(routes) \ {i}
    PROVE  LET k == IF j < i THEN j ELSE j - 1
           IN  k \in DOMAIN routes' /\ routes'[k] = routes[j]
<1>1. Len(routes) \in Nat
  BY RoutesLength
<1>2. CASE j < i
  BY <1>1, <1>2, RemoveRoute
<1>3. CASE ~(j < i)
  <2>1. j - 1 \in 1 .. Len(routes) - 1 /\ ~(j - 1 < i) /\ j - 1 + 1 = j
    BY <1>1, <1>3
  <2>. QED
    BY <1>3, <2>1, RemoveRoute
<1>. QED
  BY <1>2, <1>3

\* The places of a kind, before and after.
LEMMA ShiftKind ==
    ASSUME TypeOK, NEW i \in 1 .. Len(routes), routes' = RemoveAt(routes, i), NEW C
    PROVE  LET S == At(C) \ {i}
               f == [j \in S |-> IF j < i THEN j ELSE j - 1]
           IN  /\ \A j \in S : f[j] \in At(C)' /\ routes'[f[j]] = routes[j]
               /\ \A j, k \in S : j < k => f[j] < f[k]
               /\ \A k \in At(C)' : \E j \in S : f[j] = k
<1>. DEFINE S == At(C) \ {i}
            f == [j \in S |-> IF j < i THEN j ELSE j - 1]
<1>0. /\ Len(routes) \in Nat /\ DOMAIN routes = 1 .. Len(routes)
      /\ S \subseteq 1 .. Len(routes) \ {i}
  BY RoutesLength, FiniteKinds
<1>1. \A j \in S : f[j] \in At(C)' /\ routes'[f[j]] = routes[j]
  BY <1>0, RemoveIndex DEF At
<1>2. \A j, k \in S : j < k => f[j] < f[k]
  BY <1>0
<1>3. ASSUME NEW k \in At(C)'
      PROVE  \E j \in S : f[j] = k
  <2>1. /\ k \in 1 .. Len(routes) - 1 /\ routes'[k].comment \in C
        /\ routes'[k] = IF k < i THEN routes[k] ELSE routes[k + 1]
    BY RemoveRoute DEF At
  <2>. DEFINE j == IF k < i THEN k ELSE k + 1
  <2>2. j \in 1 .. Len(routes) /\ j # i /\ routes'[k] = routes[j]
    BY <1>0, <2>1
  <2>3. (IF j < i THEN j ELSE j - 1) = k
    BY <1>0, <2>1
  <2>. HIDE DEF j
  <2>4. j \in S
    BY <1>0, <2>1, <2>2 DEF At
  <2>5. f[j] = k
    BY <2>3, <2>4
  <2>. QED
    BY <2>4, <2>5
<1>. QED
  BY <1>1, <1>2, <1>3

LEMMA RemoveKind ==
    ASSUME TypeOK, NEW i \in 1 .. Len(routes), routes' = RemoveAt(routes, i), NEW C
    PROVE  Cardinality(At(C)') =
               IF i \in At(C) THEN Cardinality(At(C)) - 1 ELSE Cardinality(At(C))
<1>. DEFINE S == At(C) \ {i}
            f == [j \in S |-> IF j < i THEN j ELSE j - 1]
<1>1. /\ \A j \in S : f[j] \in At(C)'
      /\ \A k \in At(C)' : \E j \in S : f[j] = k
  BY ShiftKind
<1>2. IsFiniteSet(S)
  BY FiniteKinds, FS_Subset
<1>3. DOMAIN f = S /\ f = [j \in S |-> f[j]]
  OBVIOUS
<1>0. S \subseteq 1 .. Len(routes) \ {i} /\ Len(routes) \in Nat
  BY FiniteKinds, RoutesLength
<1>4. \A j, k \in S : f[j] = f[k] => j = k
  BY <1>0
<1>. HIDE DEF f
<1>5. f \in Bijection(S, At(C)')
  BY <1>1, <1>3, <1>4 DEF Bijection, Injection, Surjection, IsInjective
<1>6. Cardinality(At(C)') = Cardinality(S)
  BY <1>2, <1>5, FS_Bijection DEF ExistsBijection
<1>7. CASE i \in At(C)
  BY <1>6, <1>7, FiniteKinds, FS_RemoveElement
<1>8. CASE i \notin At(C)
  BY <1>6, <1>8
<1>. QED
  BY <1>7, <1>8

(***************************************************************************)
(* The steps, by what they do to the routes.                               *)
(***************************************************************************)

\* Those of the bootstrap that leave the routes alone.
Quiet ==
    \/ BrLanSeen \/ FirstBoot \/ SetUsers \/ ConfigureMgmtInterface
    \/ CheckBrLanPorts \/ ConfigureFirewallZone \/ ReloadServices \/ Resolve
    \/ CleanHosts \/ Scan \/ ScanRaises \/ AddHosts \/ RestartNetwork
    \/ InstallPackages \/ Finish

LEMMA QuietSteps ==
    ASSUME Quiet
    PROVE  /\ UNCHANGED <<routes, want, boots, lost>>
           /\ MgmtDone' => MgmtDone \/ pc = "network"
           /\ RouteDone' => RouteDone
           /\ DnsRouted' \/ pc' = "ended" <=> DnsRouted \/ pc = "ended"
<1>. USE DEF disk, locals, MgmtDone, RouteDone, DnsRouted
<1>1. CASE \/ BrLanSeen \/ FirstBoot \/ SetUsers \/ ConfigureMgmtInterface
           \/ CheckBrLanPorts \/ ConfigureFirewallZone \/ ReloadServices \/ Resolve
  BY <1>1 DEF BrLanSeen, FirstBoot, SetUsers, ConfigureMgmtInterface,
              CheckBrLanPorts, ConfigureFirewallZone, ReloadServices, Resolve
<1>2. CASE \/ CleanHosts \/ Scan \/ ScanRaises \/ AddHosts \/ RestartNetwork
           \/ InstallPackages \/ Finish
  BY <1>2 DEF CleanHosts, Scan, ScanRaises, AddHosts, RestartNetwork,
              InstallPackages, Finish
<1>. QED
  BY <1>1, <1>2 DEF Quiet

\* What the others do to the routes, one step at a time.
LEMMA Updated ==
    ASSUME IInv, UpdateGateways
    PROVE  /\ UNCHANGED <<want, boots, lost, answers, output, hosts, outdated, missing>>
           /\ pc = "gateways" /\ pc' \in {"gateways", "delete"}
           /\ \/ UNCHANGED <<routes, wrong>> /\ wrong = {}
              \/ \E i \in wrong :
                    /\ i \in 1 .. Len(routes) /\ wrong' = wrong \ {i}
                    /\ routes' = [routes EXCEPT ![i].via = Gateway]
                    /\ pc' = "gateways"
<1>1. CASE wrong = {}
  BY <1>1 DEF UpdateGateways
<1>2. CASE wrong # {}
  <2>. DEFINE i == CHOOSE j \in wrong : \A k \in wrong : j <= k
  <2>1. i \in wrong /\ i \in 1 .. Len(routes)
    BY <1>2, FirstWrong DEF IInv
  <2>2. /\ routes' = [routes EXCEPT ![i].via = Gateway] /\ wrong' = wrong \ {i}
        /\ pc' = pc
    BY <1>2 DEF UpdateGateways
  <2>. HIDE DEF i
  <2>. QED
    BY <2>1, <2>2 DEF UpdateGateways
<1>. QED
  BY <1>1, <1>2

LEMMA Deleted ==
    ASSUME IInv, DeleteRoutes
    PROVE  /\ UNCHANGED <<want, boots, lost, answers, output, hosts, wrong, missing>>
           /\ pc = "delete" /\ pc' \in {"delete", "addhosts"} /\ wrong = {}
           /\ \/ UNCHANGED <<routes, outdated>> /\ outdated = {}
              \/ \E i \in outdated :
                    /\ i \in 1 .. Len(routes) /\ outdated' = outdated \ {i}
                    /\ routes[i].comment \in Domains /\ \A k \in outdated : k <= i
                    /\ routes' = RemoveAt(routes, i)
                    /\ pc' = "delete"
<1>0. UNCHANGED <<want, boots, lost, answers, output, hosts, wrong, missing>>
      /\ pc = "delete" /\ wrong = {}
  BY DEF DeleteRoutes, IInv, Cleared
<1>1. CASE outdated = {}
  BY <1>0, <1>1 DEF DeleteRoutes
<1>2. CASE outdated # {}
  <2>. DEFINE i == CHOOSE j \in outdated : \A k \in outdated : k <= j
  <2>1. i \in outdated /\ i \in 1 .. Len(routes) /\ \A k \in outdated : k <= i
    BY <1>2, LastOutdated DEF IInv
  <2>2. routes' = RemoveAt(routes, i) /\ outdated' = outdated \ {i} /\ pc' = pc
    BY <1>2 DEF DeleteRoutes
  <2>. HIDE DEF i
  <2>3. routes[i].comment \in Domains
    BY <2>1 DEF IInv, TypeOK, Opkg
  <2>. QED
    BY <1>0, <2>1, <2>2, <2>3
<1>. QED
  BY <1>1, <1>2

LEMMA AddedMissing ==
    ASSUME IInv, AddRoutes
    PROVE  /\ UNCHANGED <<want, boots, lost, answers, output, hosts, wrong, outdated>>
           /\ pc = "addroutes" /\ pc' \in {"addroutes", "undns"}
           /\ wrong = {} /\ outdated = {}
           /\ \/ UNCHANGED <<routes, missing>> /\ missing = {}
              \/ \E pair \in missing, r \in Routes :
                    /\ r.to = pair[1] /\ r.via = Gateway /\ r.comment = pair[2]
                    /\ r.to \in Addrs /\ r.comment \in Domains
                    /\ routes' = Append(routes, r) /\ missing' = missing \ {pair}
                    /\ pc' = "addroutes"
<1>0. /\ UNCHANGED <<want, boots, lost, answers, output, hosts, wrong, outdated>>
      /\ pc = "addroutes" /\ wrong = {} /\ outdated = {}
  BY DEF AddRoutes, IInv, Cleared
<1>1. CASE missing = {} /\ pc' = "undns" /\ UNCHANGED <<routes, fresh, missing, changes>>
  BY <1>0, <1>1
<1>2. CASE \E pair \in missing :
              /\ routes' = Append(routes, [to |-> pair[1], via |-> Gateway,
                                           comment |-> pair[2]])
              /\ missing' = missing \ {pair} /\ pc' = pc
  <2>1. PICK pair \in missing :
              /\ routes' = Append(routes, [to |-> pair[1], via |-> Gateway,
                                           comment |-> pair[2]])
              /\ missing' = missing \ {pair} /\ pc' = pc
    BY <1>2
  <2>. DEFINE r == [to |-> pair[1], via |-> Gateway, comment |-> pair[2]]
  <2>2. r \in Routes
    BY RouteTypes DEF IInv
  <2>3. pair[1] \in Addrs /\ pair[2] \in Domains
    BY DEF IInv, TypeOK
  <2>4. r.to = pair[1] /\ r.via = Gateway /\ r.comment = pair[2]
    OBVIOUS
  <2>5. routes' = Append(routes, r)
    BY <2>1
  <2>. HIDE DEF r
  <2>. QED
    BY <1>0, <2>1, <2>2, <2>3, <2>4, <2>5
<1>. QED
  BY <1>1, <1>2 DEF AddRoutes

LEMMA DnsAdded ==
    ASSUME IInv, AddDnsRoute
    PROVE  /\ UNCHANGED <<want, boots, lost, hosts, locals>>
           /\ pc = "dns" /\ pc' = "resolve" /\ wrong = {} /\ outdated = {}
           /\ \E r \in Routes :
                 /\ r.to = "dns" /\ r.via = Gateway /\ r.comment = "dns"
                 /\ routes' = Append(routes, r)
  BY RouteTypes DEF AddDnsRoute, IInv, Cleared

LEMMA DnsRemoved ==
    ASSUME IInv, RemoveDnsRoute
    PROVE  /\ UNCHANGED <<want, boots, lost, answers, output, hosts, wrong, outdated, missing>>
           /\ pc = "undns" /\ pc' = "restart" /\ wrong = {} /\ outdated = {}
           /\ \E i \in 1 .. Len(routes) :
                 routes[i].comment = "dns" /\ routes' = RemoveAt(routes, i)
<1>1. SelectInSeq(routes, IsDns) \in DnsAt
  BY DnsRoutesExist, DnsSelected DEF DnsRouted, RemoveDnsRoute, IInv
<1>. QED
  BY <1>1, RoutesLength DEF RemoveDnsRoute, IInv, Cleared, DnsAt, IsDns

LEMMA OwnAdded ==
    ASSUME IInv, AddOwnRoute
    PROVE  /\ UNCHANGED <<want, pc, boots, lost, hosts, locals>>
           /\ pc = "done" /\ wrong = {} /\ outdated = {}
           /\ \E r \in Routes :
                 r.to = "peer" /\ r.comment = "own" /\ routes' = Append(routes, r)
<1>1. PICK via \in {Nat10, "none"} :
          routes' = Append(routes, [to |-> "peer", via |-> via, comment |-> "own"])
  BY DEF AddOwnRoute
<1>. QED
  BY <1>1, RouteTypes DEF AddOwnRoute, IInv, Cleared

LEMMA Configured ==
    ASSUME IInv, ConfigureRoute
    PROVE  /\ UNCHANGED <<want, boots, lost, hosts, answers, output, wrong, outdated, missing>>
           /\ pc = "route" /\ pc' = "reload" /\ wrong = {} /\ outdated = {}
  BY DEF ConfigureRoute, IInv, Cleared

LEMMA NextSteps ==
    ASSUME [Next]_vars
    PROVE  \/ Quiet \/ UNCHANGED vars \/ ConfigureRoute \/ AddDnsRoute \/ UpdateGateways
           \/ DeleteRoutes \/ AddRoutes \/ RemoveDnsRoute \/ AddOwnRoute \/ Boot
  BY DEF Next, BootstrapConfig, Quiet

(***************************************************************************)
(* The management route, the temporary routes, and those of repositories.  *)
(***************************************************************************)

LEMMA OtherComments ==
    /\ "dns" \notin Passthrough /\ "own" \notin Passthrough
    /\ "dns" \notin Domains /\ "own" \notin Domains /\ Domains \cap Passthrough = {}
    /\ "dns" \notin Addrs /\ "peer" \notin Addrs /\ Addrs \cap Nets = {}
  BY OpenWrtAssumption DEF Passthrough

LEMMA MgmtRoutesStep ==
    ASSUME IInv, [Next]_vars
    PROVE  MgmtRoutes'
<1>. USE DEF IInv
<1>0. /\ \A i, j \in PassAt : i = j
      /\ RouteDone => PassAt # {} /\ \A i \in PassAt : routes[i].comment = Mode
  BY DEF MgmtRoutes
\* A route of another kind is added.
<1>1. ASSUME NEW r \in Routes, routes' = Append(routes, r), r.comment \notin Passthrough,
             want' = want, RouteDone' => RouteDone
      PROVE  MgmtRoutes'
  <2>1. PassAt' = PassAt
    BY <1>1, AppendKind, Kinds
  <2>2. \A i \in PassAt : routes'[i] = routes[i]
    BY <1>1, RoutesLength, AppendRoute DEF PassAt
  <2>. QED
    BY <1>0, <1>1, <2>1, <2>2 DEF MgmtRoutes, Mode
\* One of another kind is removed.
<1>2. ASSUME NEW i \in 1 .. Len(routes), routes' = RemoveAt(routes, i),
             routes[i].comment \notin Passthrough, want' = want, RouteDone' => RouteDone
      PROVE  MgmtRoutes'
  <2>0. Len(routes) \in Nat /\ DOMAIN routes = 1 .. Len(routes)
    BY RoutesLength
  <2>1. ASSUME NEW k \in PassAt'
        PROVE  LET j == IF k < i THEN k ELSE k + 1
               IN  j \in PassAt /\ routes'[k] = routes[j]
    <3>1. /\ k \in 1 .. Len(routes) - 1 /\ routes'[k].comment \in Passthrough
          /\ routes'[k] = IF k < i THEN routes[k] ELSE routes[k + 1]
      BY <1>2, RemoveRoute DEF PassAt
    <3>. QED
      BY <2>0, <3>1 DEF PassAt
  <2>2. \A k, l \in PassAt' : k = l
    <3>. SUFFICES ASSUME NEW k \in PassAt', NEW l \in PassAt' PROVE k = l
      OBVIOUS
    <3>1. k \in 1 .. Len(routes) - 1 /\ l \in 1 .. Len(routes) - 1
      BY <1>2, RemoveRoute DEF PassAt
    <3>2. (IF k < i THEN k ELSE k + 1) = (IF l < i THEN l ELSE l + 1)
      BY <1>0, <2>1
    <3>. QED
      BY <2>0, <3>1, <3>2
  <2>3. ASSUME NEW j \in PassAt
        PROVE  PassAt' # {}
    <3>1. j \in 1 .. Len(routes) \ {i} /\ routes[j].comment \in Passthrough
      BY <1>2, <2>0 DEF PassAt
    <3>2. PICK k \in DOMAIN routes' : routes'[k] = routes[j]
      BY <1>2, <3>1, RemoveIndex
    <3>. QED
      BY <3>1, <3>2 DEF PassAt
  <2>4. \A k \in PassAt' : RouteDone => routes'[k].comment = Mode
    BY <1>0, <2>1
  <2>. QED
    BY <1>0, <1>2, <2>2, <2>3, <2>4 DEF MgmtRoutes, Mode
<1>3. CASE Quiet
  BY <1>0, <1>3, QuietSteps DEF MgmtRoutes, PassAt, Mode
<1>4. CASE UNCHANGED vars
  BY <1>0, <1>4 DEF MgmtRoutes, PassAt, Mode, RouteDone, MgmtDone, vars, disk
<1>5. CASE ConfigureRoute
  <2>0. want' = want
    BY <1>5, Configured
  <2>00. MgmtRoute.comment = Mode /\ Mode \in Passthrough
    BY ConstantTypes DEF MgmtRoute
  <2>1. CASE PassAt = {} /\ MgmtRoute \in Routes /\ routes' = Append(routes, MgmtRoute)
    <3>1. PassAt' = {Len(routes) + 1}
      BY <2>00, <2>1, AppendKind, Kinds
    <3>2. routes'[Len(routes) + 1] = MgmtRoute
      BY <2>1, AppendRoute
    <3>. QED
      BY <2>0, <2>00, <3>1, <3>2 DEF MgmtRoutes, Mode
  <2>2. CASE /\ PassAt # {} /\ DOMAIN routes' = DOMAIN routes
             /\ \A k \in 1 .. Len(routes) :
                   routes'[k] = IF k \in PassAt /\ routes[k].comment # Mode
                                THEN MgmtRoute ELSE routes[k]
    <3>1. DOMAIN routes = 1 .. Len(routes)
      BY RoutesLength
    <3>2. PassAt' = PassAt
      BY <2>00, <2>2, <3>1 DEF PassAt
    <3>3. \A k \in PassAt : routes'[k].comment = Mode
      BY <2>00, <2>2, <3>1 DEF PassAt
    <3>. QED
      BY <1>0, <2>0, <2>2, <3>2, <3>3 DEF MgmtRoutes, Mode
  <2>. QED
    BY <1>5, <2>1, <2>2, ModeRoute
<1>6. CASE AddDnsRoute
  BY <1>1, <1>6, DnsAdded, OtherComments DEF RouteDone, MgmtDone
<1>7. CASE UpdateGateways
  <2>1. RouteDone' => RouteDone
    BY <1>7, Updated DEF RouteDone, MgmtDone
  <2>2. DOMAIN routes' = DOMAIN routes
        /\ \A k \in 1 .. Len(routes) : routes'[k].comment = routes[k].comment
    BY <1>7, Updated, GatewayRoute
  <2>3. PassAt' = PassAt
    BY <2>2, RoutesLength DEF PassAt
  <2>4. \A k \in PassAt : routes'[k].comment = routes[k].comment
    BY <2>2, RoutesLength DEF PassAt
  <2>5. want' = want
    BY <1>7, Updated
  <2>. QED
    BY <1>0, <2>1, <2>3, <2>4, <2>5 DEF MgmtRoutes, Mode
<1>8. CASE DeleteRoutes
  <2>1. RouteDone' => RouteDone
    BY <1>8, Deleted DEF RouteDone, MgmtDone
  <2>2. CASE UNCHANGED routes
    BY <1>0, <1>8, <2>1, <2>2, Deleted DEF MgmtRoutes, PassAt, Mode
  <2>3. CASE \E i \in outdated : /\ i \in 1 .. Len(routes) /\ routes' = RemoveAt(routes, i)
                                 /\ routes[i].comment \in Domains
    BY <1>2, <1>8, <2>1, <2>3, Deleted, OtherComments
  <2>. QED
    BY <1>8, <2>2, <2>3, Deleted
<1>9. CASE AddRoutes
  <2>1. RouteDone' => RouteDone
    BY <1>9, AddedMissing DEF RouteDone, MgmtDone
  <2>2. CASE UNCHANGED routes
    BY <1>0, <1>9, <2>1, <2>2, AddedMissing DEF MgmtRoutes, PassAt, Mode
  <2>3. CASE \E r \in Routes : r.comment \in Domains /\ routes' = Append(routes, r)
    BY <1>1, <1>9, <2>1, <2>3, AddedMissing, OtherComments
  <2>. QED
    BY <1>9, <2>2, <2>3, AddedMissing
<1>10. CASE RemoveDnsRoute
  <2>1. RouteDone' => RouteDone
    BY <1>10, DnsRemoved DEF RouteDone, MgmtDone
  <2>. QED
    BY <1>2, <1>10, <2>1, DnsRemoved, OtherComments
<1>11. CASE AddOwnRoute
  <2>1. RouteDone' => RouteDone
    BY <1>11, OwnAdded DEF RouteDone, MgmtDone
  <2>. QED
    BY <1>1, <1>11, <2>1, OwnAdded, OtherComments
<1>12. CASE Boot
  BY <1>0, <1>12 DEF MgmtRoutes, PassAt, RouteDone, MgmtDone, Boot, disk
<1>. QED
  BY <1>3, <1>4, <1>5, <1>6, <1>7, <1>8, <1>9, <1>10, <1>11, <1>12, NextSteps

LEMMA DnsRoutesStep ==
    ASSUME IInv, [Next]_vars
    PROVE  DnsRoutes'
<1>. USE DEF IInv
<1>. DEFINE now == IF DnsRouted \/ pc = "ended" THEN 1 ELSE 0
<1>0. /\ Cardinality(DnsAt) = lost.dns + now /\ lost.dns <= boots
      /\ lost.dns \in Nat /\ boots \in Nat /\ now \in Nat
  BY DEF DnsRoutes, TypeOK
\* A route of another kind is added, or removed.
<1>1. ASSUME NEW r \in Routes, routes' = Append(routes, r), r.comment # "dns"
      PROVE  DnsAt' = DnsAt
  BY <1>1, AppendKind, Kinds
<1>2. ASSUME NEW i \in 1 .. Len(routes), routes' = RemoveAt(routes, i)
      PROVE  Cardinality(DnsAt') = IF routes[i].comment = "dns" THEN Cardinality(DnsAt) - 1
                                   ELSE Cardinality(DnsAt)
  <2>1. i \in At({"dns"}) <=> routes[i].comment = "dns"
    BY RoutesLength DEF At
  <2>2. Cardinality(At({"dns"})') = IF i \in At({"dns"}) THEN Cardinality(At({"dns"})) - 1
                                    ELSE Cardinality(At({"dns"}))
    BY <1>2, RemoveKind
  <2>. QED
    BY <2>1, <2>2, Kinds
<1>3. ASSUME Cardinality(DnsAt') = Cardinality(DnsAt), now' = now, UNCHANGED <<lost, boots>>
      PROVE  DnsRoutes'
  BY <1>0, <1>3 DEF DnsRoutes
<1>4. CASE Quiet
  <2>1. DnsAt' = DnsAt /\ now' = now /\ UNCHANGED <<lost, boots>>
    BY <1>4, QuietSteps DEF DnsAt
  <2>. QED
    BY <1>3, <2>1
<1>5. CASE UNCHANGED vars
  <2>1. DnsAt' = DnsAt /\ now' = now /\ UNCHANGED <<lost, boots>>
    BY <1>5 DEF DnsAt, vars, disk, DnsRouted
  <2>. QED
    BY <1>3, <2>1
<1>6. CASE ConfigureRoute
  <2>1. now' = now /\ UNCHANGED <<lost, boots>>
    BY <1>6, Configured DEF DnsRouted
  <2>2. MgmtRoute.comment \in Passthrough
    BY ConstantTypes DEF MgmtRoute
  <2>3. CASE MgmtRoute \in Routes /\ routes' = Append(routes, MgmtRoute)
    BY <1>1, <1>3, <2>1, <2>2, <2>3, OtherComments
  <2>4. CASE /\ DOMAIN routes' = DOMAIN routes
             /\ \A k \in 1 .. Len(routes) :
                   routes'[k] = IF k \in PassAt /\ routes[k].comment # Mode
                                THEN MgmtRoute ELSE routes[k]
    <3>1. DnsAt' = DnsAt
      BY <2>2, <2>4, OtherComments, RoutesLength DEF DnsAt, PassAt, IsDns
    <3>. QED
      BY <1>3, <2>1, <3>1
  <2>. QED
    BY <1>6, <2>3, <2>4, ModeRoute
<1>7. CASE AddDnsRoute
  <2>1. PICK r \in Routes : r.comment = "dns" /\ routes' = Append(routes, r)
    BY <1>7, DnsAdded
  <2>2. DnsAt' = DnsAt \cup {Len(routes) + 1}
    BY <2>1, AppendKind, Kinds
  <2>3. Len(routes) + 1 \notin DnsAt /\ IsFiniteSet(DnsAt)
    BY FiniteKinds, Kinds, RoutesLength
  <2>4. Cardinality(DnsAt') = Cardinality(DnsAt) + 1
    BY <2>2, <2>3, FS_AddElement
  <2>5. now = 0 /\ now' = 1 /\ UNCHANGED <<lost, boots>>
    BY <1>7, DnsAdded DEF DnsRouted
  <2>. QED
    BY <1>0, <2>4, <2>5 DEF DnsRoutes
<1>8. CASE UpdateGateways
  <2>1. now' = now /\ UNCHANGED <<lost, boots>>
    BY <1>8, Updated DEF DnsRouted
  <2>2. DOMAIN routes' = DOMAIN routes
        /\ \A k \in 1 .. Len(routes) : routes'[k].comment = routes[k].comment
    BY <1>8, Updated, GatewayRoute
  <2>3. DnsAt' = DnsAt
    BY <2>2, RoutesLength DEF DnsAt, IsDns
  <2>. QED
    BY <1>3, <2>1, <2>3
<1>9. CASE DeleteRoutes
  <2>1. now' = now /\ UNCHANGED <<lost, boots>>
    BY <1>9, Deleted DEF DnsRouted
  <2>2. Cardinality(DnsAt') = Cardinality(DnsAt)
    <3>1. CASE UNCHANGED routes
      BY <3>1 DEF DnsAt
    <3>2. CASE \E i \in outdated : /\ i \in 1 .. Len(routes) /\ routes' = RemoveAt(routes, i)
                                   /\ routes[i].comment \in Domains
      BY <1>2, <3>2, OtherComments
    <3>. QED
      BY <1>9, <3>1, <3>2, Deleted
  <2>. QED
    BY <1>3, <2>1, <2>2
<1>10. CASE AddRoutes
  <2>1. now' = now /\ UNCHANGED <<lost, boots>>
    BY <1>10, AddedMissing DEF DnsRouted
  <2>2. DnsAt' = DnsAt
    <3>1. CASE UNCHANGED routes
      BY <3>1 DEF DnsAt
    <3>2. CASE \E r \in Routes : r.comment \in Domains /\ routes' = Append(routes, r)
      BY <1>1, <3>2, OtherComments
    <3>. QED
      BY <1>10, <3>1, <3>2, AddedMissing
  <2>. QED
    BY <1>3, <2>1, <2>2
<1>11. CASE RemoveDnsRoute
  <2>1. Cardinality(DnsAt') = Cardinality(DnsAt) - 1
    BY <1>2, <1>11, DnsRemoved
  <2>2. now = 1 /\ now' = 0 /\ UNCHANGED <<lost, boots>>
    BY <1>11, DnsRemoved DEF DnsRouted
  <2>. QED
    BY <1>0, <2>1, <2>2 DEF DnsRoutes
<1>12. CASE AddOwnRoute
  <2>1. DnsAt' = DnsAt
    BY <1>1, <1>12, OwnAdded
  <2>2. now' = now /\ UNCHANGED <<lost, boots>>
    BY <1>12, OwnAdded DEF DnsRouted
  <2>. QED
    BY <1>3, <2>1, <2>2
<1>13. CASE Boot
  <2>1. DnsAt' = DnsAt
    BY <1>13 DEF Boot, DnsAt, disk
  <2>2. lost'.dns = lost.dns + now /\ boots' = boots + 1 /\ now \in {0, 1}
    BY <1>13 DEF Boot
  <2>3. now' = 0
    BY <1>13 DEF Boot, DnsRouted
  <2>. QED
    BY <1>0, <2>1, <2>2, <2>3 DEF DnsRoutes
<1>. QED
  BY <1>4, <1>5, <1>6, <1>7, <1>8, <1>9, <1>10, <1>11, <1>12, <1>13, NextSteps

LEMMA RouteKindsStep ==
    ASSUME IInv, [Next]_vars
    PROVE  RouteKinds'
<1>. USE DEF IInv
<1>. DEFINE kind(r) == /\ r.comment \in Domains =>
                              r.to \in Addrs /\ r.comment \in Serves[r.to]
                       /\ r.to \in Addrs => r.comment \in Domains
<1>0. DOMAIN routes = 1 .. Len(routes) /\ Len(routes) \in Nat
      /\ \A i \in 1 .. Len(routes) : kind(routes[i])
  BY RoutesLength DEF RouteKinds
<1>1. ASSUME NEW r \in Routes, routes' = Append(routes, r), kind(r)
      PROVE  RouteKinds'
  <2>1. \A i \in DOMAIN routes' : kind(routes'[i])
    BY <1>0, <1>1, AppendRoute
  <2>. QED
    BY <2>1 DEF RouteKinds
<1>2. ASSUME NEW i \in 1 .. Len(routes), routes' = RemoveAt(routes, i)
      PROVE  RouteKinds'
  <2>1. ASSUME NEW k \in DOMAIN routes'
        PROVE  kind(routes'[k])
    <3>1. /\ k \in 1 .. Len(routes) - 1
          /\ routes'[k] = IF k < i THEN routes[k] ELSE routes[k + 1]
      BY <1>2, <2>1, RemoveRoute
    <3>2. k \in 1 .. Len(routes) /\ k + 1 \in 1 .. Len(routes)
      BY <1>0, <3>1
    <3>3. kind(routes[k]) /\ kind(routes[k + 1])
      BY <1>0, <3>2
    <3>4. routes'[k] = routes[k] \/ routes'[k] = routes[k + 1]
      BY <3>1
    <3>. HIDE DEF kind
    <3>. QED
      BY <3>3, <3>4
  <2>. QED
    BY <2>1 DEF RouteKinds
<1>3. CASE Quiet \/ UNCHANGED vars \/ Boot
  <2>1. routes' = routes
    BY <1>3, QuietSteps DEF vars, disk, Boot
  <2>. QED
    BY <1>0, <2>1 DEF RouteKinds
<1>4. CASE ConfigureRoute
  <2>1. kind(MgmtRoute)
    BY ConstantTypes, OtherComments, OpenWrtAssumption DEF MgmtRoute, TypeOK, Environments
  <2>2. CASE MgmtRoute \in Routes /\ routes' = Append(routes, MgmtRoute)
    BY <1>1, <2>1, <2>2
  <2>3. CASE /\ DOMAIN routes' = DOMAIN routes
             /\ \A k \in 1 .. Len(routes) :
                   routes'[k] = IF k \in PassAt /\ routes[k].comment # Mode
                                THEN MgmtRoute ELSE routes[k]
    <3>1. \A k \in DOMAIN routes' : kind(routes'[k])
      <4>. HIDE DEF kind
      <4>. QED
        BY <1>0, <2>1, <2>3
    <3>. QED
      BY <3>1 DEF RouteKinds
  <2>. QED
    BY <1>4, <2>2, <2>3, ModeRoute
<1>5. CASE AddDnsRoute
  BY <1>1, <1>5, DnsAdded, OtherComments
<1>6. CASE UpdateGateways
  <2>1. DOMAIN routes' = DOMAIN routes
        /\ \A k \in 1 .. Len(routes) : /\ routes'[k].comment = routes[k].comment
                                       /\ routes'[k].to = routes[k].to
    BY <1>6, Updated, GatewayRoute
  <2>. QED
    BY <1>0, <2>1 DEF RouteKinds
<1>7. CASE DeleteRoutes
  <2>1. CASE UNCHANGED routes
    BY <1>0, <2>1 DEF RouteKinds
  <2>2. CASE \E i \in outdated : i \in 1 .. Len(routes) /\ routes' = RemoveAt(routes, i)
    BY <1>2, <2>2
  <2>. QED
    BY <1>7, <2>1, <2>2, Deleted
<1>8. CASE AddRoutes
  <2>1. CASE UNCHANGED routes
    BY <1>0, <2>1 DEF RouteKinds
  <2>2. CASE \E pair \in missing, r \in Routes :
                /\ r.to = pair[1] /\ r.comment = pair[2] /\ routes' = Append(routes, r)
                /\ r.to \in Addrs /\ r.comment \in Domains
    <3>1. \A pair \in missing : pair[2] \in Domains /\ pair[1] \in answers[pair[2]]
      BY DEF AnswerKinds, Hosts
    <3>2. \A pair \in missing : pair[2] \in Serves[pair[1]]
      BY <3>1 DEF AnswerKinds
    <3>. QED
      BY <1>1, <2>2, <3>2
  <2>. QED
    BY <1>8, <2>1, <2>2, AddedMissing
<1>9. CASE RemoveDnsRoute
  BY <1>2, <1>9, DnsRemoved
<1>10. CASE AddOwnRoute
  BY <1>1, <1>10, OwnAdded, OtherComments
<1>. QED
  BY <1>3, <1>4, <1>5, <1>6, <1>7, <1>8, <1>9, <1>10, NextSteps

(***************************************************************************)
(* Names and addresses.                                                    *)
(***************************************************************************)

LEMMA AnswerKindsStep ==
    ASSUME IInv, [Next]_vars
    PROVE  AnswerKinds'
<1>. USE DEF IInv, DomainList, disk, locals
<1>0. (UNCHANGED <<want, answers>> /\ missing' \subseteq missing) => AnswerKinds'
  BY DEF AnswerKinds, Hosts
<1>1. CASE \/ BrLanSeen \/ FirstBoot \/ SetUsers \/ ConfigureMgmtInterface
           \/ CheckBrLanPorts \/ ConfigureFirewallZone \/ ReloadServices
           \/ ConfigureRoute \/ AddDnsRoute \/ CleanHosts \/ Scan \/ ScanRaises
  BY <1>0, <1>1 DEF BrLanSeen, FirstBoot, SetUsers, ConfigureMgmtInterface, CheckBrLanPorts,
                    ConfigureFirewallZone, ReloadServices, ConfigureRoute, AddDnsRoute,
                    CleanHosts, Scan, ScanRaises
<1>2. CASE \/ UpdateGateways \/ DeleteRoutes \/ AddRoutes \/ RemoveDnsRoute
           \/ RestartNetwork \/ InstallPackages \/ Finish \/ AddOwnRoute \/ UNCHANGED vars
  BY <1>0, <1>2 DEF UpdateGateways, DeleteRoutes, AddRoutes, RemoveDnsRoute, RestartNetwork,
                    InstallPackages, Finish, AddOwnRoute, vars
<1>3. CASE Resolve
  <2>1. missing = {} /\ missing' = {} /\ want' = want
    BY <1>3 DEF Resolve, Cleared
  <2>2. \A d \in Domains : \A a \in answers'[d] : d \in DomainList /\ d \in Serves[a]
    <3>1. \A d \in Domains : answers'[d] \subseteq
              IF d \in DomainList THEN {a \in Addrs : d \in Serves[a]} ELSE {}
      BY <1>3 DEF Resolve
    <3>. HIDE DEF DomainList
    <3>. QED
      BY <3>1
  <2>. QED
    BY <2>1, <2>2 DEF AnswerKinds
<1>4. CASE AddHosts
  <2>1. UNCHANGED <<want, answers>>
    BY <1>4 DEF AddHosts
  <2>2. missing' = missing \/ missing' = {pair \in Hosts(answers) : ~RouteExists(pair[1])}
    BY <1>4 DEF AddHosts
  <2>3. missing' \subseteq Hosts(answers)
    BY <2>2 DEF AnswerKinds
  <2>. QED
    BY <2>1, <2>3 DEF AnswerKinds, Hosts
<1>5. CASE Boot
  BY <1>5 DEF Boot, AnswerKinds, NoAnswers
<1>. QED
  BY <1>1, <1>2, <1>3, <1>4, <1>5 DEF Next, BootstrapConfig

LEMMA HostsKnownStep ==
    ASSUME IInv, [Next]_vars
    PROVE  HostsKnown'
<1>. USE DEF IInv, HostsKnown, HostsDone, disk, locals
<1>1. CASE \/ BrLanSeen \/ FirstBoot \/ SetUsers \/ ConfigureMgmtInterface
           \/ CheckBrLanPorts \/ ConfigureFirewallZone \/ ReloadServices
           \/ ConfigureRoute \/ AddDnsRoute \/ Resolve
  BY <1>1 DEF BrLanSeen, FirstBoot, SetUsers, ConfigureMgmtInterface, CheckBrLanPorts,
              ConfigureFirewallZone, ReloadServices, ConfigureRoute, AddDnsRoute, Resolve
<1>2. CASE CleanHosts
  BY <1>2 DEF CleanHosts, Hosts
<1>3. CASE AddHosts
  BY <1>3 DEF AddHosts, Hosts
<1>4. CASE \/ Scan \/ ScanRaises \/ UpdateGateways \/ DeleteRoutes
  BY <1>4 DEF Scan, ScanRaises, UpdateGateways, DeleteRoutes, Hosts
<1>5. CASE \/ AddRoutes \/ RemoveDnsRoute \/ RestartNetwork \/ InstallPackages
           \/ Finish \/ AddOwnRoute \/ UNCHANGED vars \/ Boot
  BY <1>5 DEF AddRoutes, RemoveDnsRoute, RestartNetwork, InstallPackages, Finish,
              AddOwnRoute, vars, Boot, Hosts
<1>. QED
  BY <1>1, <1>2, <1>3, <1>4, <1>5 DEF Next, BootstrapConfig

(***************************************************************************)
(* The routes of repositories that were scanned.                           *)
(***************************************************************************)

Pair(r) == <<r.to, r.comment>>

LEMMA ScanStep ==
    ASSUME IInv, Scan
    PROVE  RoutesScanned'
<1>. USE DEF IInv
<1>1. /\ UNCHANGED <<want, routes, answers>> /\ pc' = "gateways"
      /\ outdated' = {i \in Opkg : ~Asked(i) \/ routes[i].to \notin answers[routes[i].comment]}
      /\ wrong' = {i \in Opkg : Asked(i) /\ routes[i].via # Gateway}
  BY DEF Scan, OutdatedRoutes, disk
<1>2. \A i \in Opkg : routes[i].comment \in Domains /\ i \in DOMAIN routes
  BY DEF Opkg
<1>3. \A d \in Domains : answers[d] \subseteq Addrs
  BY DEF TypeOK
<1>4. \A i \in Opkg \ outdated' : Pair(routes[i]) \in Hosts(answers)
  BY <1>1, <1>2, <1>3 DEF Hosts, Pair
<1>5. \A i \in outdated' : Pair(routes[i]) \notin Hosts(answers)
  BY <1>1, <1>2 DEF AnswerKinds, Hosts, Pair, Asked
<1>6. \A i \in Opkg \ (outdated' \cup wrong') : routes[i].via = Gateway
  BY <1>1
<1>7. Opkg' = Opkg /\ Hosts(answers)' = Hosts(answers) /\ Gateway' = Gateway
  BY <1>1 DEF Opkg, Hosts, Gateway
<1>. QED
  BY <1>1, <1>4, <1>5, <1>6, <1>7 DEF RoutesScanned, Pair

LEMMA RoutesScannedStep ==
    ASSUME IInv, [Next]_vars
    PROVE  RoutesScanned'
<1>. USE DEF IInv
<1>0. /\ DOMAIN routes = 1 .. Len(routes) /\ Len(routes) \in Nat
      /\ Opkg = {i \in 1 .. Len(routes) : routes[i].comment \in Domains}
      /\ Opkg' = {i \in DOMAIN routes' : routes'[i].comment \in Domains}
      /\ Scanned => \A i \in Opkg \ outdated : Pair(routes[i]) \in Hosts(answers)
      /\ pc \in {"gateways", "delete"} =>
            \A i \in outdated : Pair(routes[i]) \notin Hosts(answers)
      /\ Scanned => \A i \in Opkg \ (outdated \cup wrong) : routes[i].via = Gateway
  BY RoutesLength DEF RoutesScanned, Opkg, Pair
\* While answers and environment stay, and once the routes were scanned.
<1>1. ASSUME UNCHANGED <<want, answers>>,
             \A i \in Opkg' \ outdated' : Pair(routes'[i]) \in Hosts(answers),
             pc' \in {"gateways", "delete"} =>
                \A i \in outdated' : Pair(routes'[i]) \notin Hosts(answers),
             \A i \in Opkg' \ (outdated' \cup wrong') : routes'[i].via = Gateway
      PROVE  RoutesScanned'
  BY <1>1 DEF RoutesScanned, Hosts, Gateway, Pair
<1>2. ASSUME ~Scanned', pc' \notin {"gateways", "delete"}
      PROVE  RoutesScanned'
  BY <1>2 DEF RoutesScanned
<1>3. ASSUME UNCHANGED <<want, answers, routes, outdated, wrong>>,
             Scanned' => Scanned, pc' \in {"gateways", "delete"} => pc \in {"gateways", "delete"}
      PROVE  RoutesScanned'
  BY <1>3 DEF RoutesScanned, Hosts, Gateway, Opkg
\* A route of a repository is added, or another one, or one is removed.
<1>4. ASSUME Scanned, UNCHANGED <<want, answers>>, pc' \notin {"gateways", "delete"},
             outdated = {}, wrong = {}, outdated' = {}, wrong' = {},
             NEW r \in Routes, routes' = Append(routes, r),
             r.comment \in Domains => Pair(r) \in Hosts(answers) /\ r.via = Gateway
      PROVE  RoutesScanned'
  <2>1. \A i \in Opkg' : Pair(routes'[i]) \in Hosts(answers) /\ routes'[i].via = Gateway
    <3>1. \A i \in Opkg : Pair(routes[i]) \in Hosts(answers) /\ routes[i].via = Gateway
      BY <1>0, <1>4
    <3>. QED
      BY <1>0, <1>4, <3>1, AppendRoute
  <2>. QED
    BY <1>1, <1>4, <2>1
<1>5. ASSUME Scanned, UNCHANGED <<want, answers>>, wrong = {}, wrong' = {},
             NEW i \in 1 .. Len(routes), routes' = RemoveAt(routes, i),
             outdated \subseteq 1 .. i, outdated' = outdated \ {i},
             pc' \in {"gateways", "delete"} => pc \in {"gateways", "delete"}
      PROVE  RoutesScanned'
  <2>. DEFINE from(k) == IF k < i THEN k ELSE k + 1
  <2>0. i \in Nat /\ i <= Len(routes)
    BY <1>0
  <2>1. \A k \in Opkg' : k \in 1 .. Len(routes) - 1 /\ routes'[k] = routes[from(k)]
                         /\ routes'[k].comment \in Domains
    BY <1>0, <1>5, RemoveRoute
  <2>2. ASSUME NEW k \in 1 .. Len(routes) - 1
        PROVE  /\ from(k) \in 1 .. Len(routes)
               /\ k \notin outdated' => from(k) \notin outdated
    BY <1>0, <1>5, <2>0
  <2>3. \A k \in Opkg' \ outdated' : from(k) \in Opkg \ outdated /\ routes'[k] = routes[from(k)]
    <3>. SUFFICES ASSUME NEW k \in Opkg' \ outdated'
                  PROVE  from(k) \in Opkg \ outdated /\ routes'[k] = routes[from(k)]
      OBVIOUS
    <3>1. k \in 1 .. Len(routes) - 1 /\ routes'[k] = routes[from(k)]
          /\ routes[from(k)].comment \in Domains
      BY <2>1
    <3>2. from(k) \in 1 .. Len(routes) /\ from(k) \notin outdated
      BY <2>2, <3>1
    <3>. HIDE DEF from
    <3>. QED
      BY <1>0, <3>1, <3>2
  <2>4. \A k \in outdated' : routes'[k] = routes[k]
    <3>1. \A k \in outdated' : k \in 1 .. Len(routes) - 1 /\ k < i /\ k \in outdated
      BY <1>0, <1>5, <2>0
    <3>. QED
      BY <1>5, <3>1, RemoveRoute
  <2>. HIDE DEF from
  <2>5. \A k \in Opkg' \ outdated' : Pair(routes'[k]) \in Hosts(answers) /\ routes'[k].via = Gateway
    BY <1>0, <1>5, <2>3
  <2>6. pc' \in {"gateways", "delete"} => \A k \in outdated' : Pair(routes'[k]) \notin Hosts(answers)
    BY <1>0, <1>5, <2>4
  <2>. QED
    BY <1>1, <1>5, <2>5, <2>6
<1>6. CASE \/ BrLanSeen \/ FirstBoot \/ SetUsers \/ ConfigureMgmtInterface
           \/ CheckBrLanPorts \/ ConfigureFirewallZone \/ ReloadServices \/ Resolve
           \/ CleanHosts \/ ScanRaises \/ Boot
  BY <1>2, <1>6 DEF Scanned, BrLanSeen, FirstBoot, SetUsers, ConfigureMgmtInterface,
                    CheckBrLanPorts, ConfigureFirewallZone, ReloadServices, Resolve,
                    CleanHosts, ScanRaises, Boot
<1>7. CASE ConfigureRoute \/ AddDnsRoute
  BY <1>2, <1>7 DEF Scanned, ConfigureRoute, AddDnsRoute
<1>8. CASE Scan
  BY <1>8, ScanStep
<1>9. CASE AddHosts \/ RestartNetwork \/ InstallPackages \/ Finish \/ UNCHANGED vars
  BY <1>3, <1>9 DEF Scanned, AddHosts, RestartNetwork, InstallPackages, Finish, Cleared,
                    vars, disk, locals
<1>10. CASE UpdateGateways
  <2>0. /\ UNCHANGED <<want, answers, outdated>> /\ Scanned /\ pc \in {"gateways", "delete"}
        /\ Scanned' /\ pc' \in {"gateways", "delete"}
    BY <1>10, Updated DEF Scanned
  <2>1. CASE UNCHANGED <<routes, wrong>>
    BY <1>3, <2>0, <2>1
  <2>2. CASE \E i \in wrong : /\ i \in 1 .. Len(routes) /\ wrong' = wrong \ {i}
                              /\ routes' = [routes EXCEPT ![i].via = Gateway]
    <3>1. PICK i \in wrong : /\ i \in 1 .. Len(routes) /\ wrong' = wrong \ {i}
                             /\ routes' = [routes EXCEPT ![i].via = Gateway]
      BY <2>2
    <3>2. /\ DOMAIN routes' = DOMAIN routes
          /\ \A k \in 1 .. Len(routes) :
                /\ routes'[k].to = routes[k].to /\ routes'[k].comment = routes[k].comment
                /\ k # i => routes'[k] = routes[k]
          /\ routes'[i].via = Gateway
      BY <3>1, GatewayRoute
    <3>3. Opkg' = Opkg /\ \A k \in 1 .. Len(routes) : Pair(routes'[k]) = Pair(routes[k])
      BY <1>0, <3>2 DEF Pair
    <3>4. outdated \subseteq Opkg /\ Opkg \subseteq 1 .. Len(routes)
      BY <1>0 DEF TypeOK
    <3>5. \A k \in Opkg' \ outdated' : Pair(routes'[k]) \in Hosts(answers)
      BY <1>0, <2>0, <3>3, <3>4
    <3>6. \A k \in outdated' : Pair(routes'[k]) \notin Hosts(answers)
      BY <1>0, <2>0, <3>3, <3>4
    <3>7. \A k \in Opkg' \ (outdated' \cup wrong') : routes'[k].via = Gateway
      BY <1>0, <2>0, <3>1, <3>2, <3>3, <3>4
    <3>. QED
      BY <1>1, <2>0, <3>5, <3>6, <3>7
  <2>. QED
    BY <1>10, <2>1, <2>2, Updated
<1>11. CASE DeleteRoutes
  <2>0. /\ UNCHANGED <<want, answers, wrong>> /\ wrong = {} /\ Scanned /\ Scanned'
        /\ pc \in {"gateways", "delete"}
    BY <1>11, Deleted DEF Scanned
  <2>1. CASE UNCHANGED <<routes, outdated>>
    BY <1>3, <2>0, <2>1
  <2>2. CASE \E i \in outdated : /\ i \in 1 .. Len(routes) /\ outdated' = outdated \ {i}
                                 /\ \A k \in outdated : k <= i
                                 /\ routes' = RemoveAt(routes, i)
    <3>1. PICK i \in outdated : /\ i \in 1 .. Len(routes) /\ outdated' = outdated \ {i}
                                /\ \A k \in outdated : k <= i
                                /\ routes' = RemoveAt(routes, i)
      BY <2>2
    <3>2. outdated \subseteq 1 .. Len(routes)
      BY <1>0 DEF TypeOK
    <3>3. outdated \subseteq 1 .. i
      BY <1>0, <3>1, <3>2
    <3>. QED
      BY <1>5, <2>0, <3>1, <3>3
  <2>. QED
    BY <1>11, <2>1, <2>2, Deleted
<1>12. CASE AddRoutes
  <2>0. /\ UNCHANGED <<want, answers, wrong, outdated>> /\ wrong = {} /\ outdated = {}
        /\ Scanned /\ Scanned' /\ pc' \notin {"gateways", "delete"}
    BY <1>12, AddedMissing DEF Scanned
  <2>1. CASE UNCHANGED <<routes, missing>>
    BY <1>3, <2>0, <2>1
  <2>2. CASE \E pair \in missing, r \in Routes :
                /\ r.to = pair[1] /\ r.via = Gateway /\ r.comment = pair[2]
                /\ routes' = Append(routes, r)
    <3>1. PICK pair \in missing, r \in Routes :
                /\ r.to = pair[1] /\ r.via = Gateway /\ r.comment = pair[2]
                /\ routes' = Append(routes, r)
      BY <2>2
    <3>2. Pair(r) = pair /\ pair \in Hosts(answers)
      BY <3>1 DEF Pair, AnswerKinds, TypeOK
    <3>. QED
      BY <1>4, <2>0, <3>1, <3>2
  <2>. QED
    BY <1>12, <2>1, <2>2, AddedMissing
<1>13. CASE RemoveDnsRoute
  <2>0. /\ UNCHANGED <<want, answers, wrong, outdated>> /\ wrong = {} /\ outdated = {}
        /\ Scanned /\ Scanned' /\ pc' \notin {"gateways", "delete"}
    BY <1>13, DnsRemoved DEF Scanned
  <2>. QED
    BY <1>5, <1>13, <2>0, DnsRemoved
<1>14. CASE AddOwnRoute
  <2>0. /\ UNCHANGED <<want, answers, wrong, outdated>> /\ wrong = {} /\ outdated = {}
        /\ Scanned /\ Scanned' /\ pc' \notin {"gateways", "delete"}
    BY <1>14, OwnAdded DEF Scanned, locals
  <2>. QED
    BY <1>4, <1>14, <2>0, OwnAdded, OtherComments
<1>. QED
  BY <1>6, <1>7, <1>8, <1>9, <1>10, <1>11, <1>12, <1>13, <1>14 DEF Next, BootstrapConfig

(***************************************************************************)
(* The theorems.                                                           *)
(***************************************************************************)

LEMMA Initially == Init => IInv
<1>. SUFFICES ASSUME Init PROVE IInv
  OBVIOUS
<1>1. DOMAIN routes = {} /\ PassAt = {} /\ DnsAt = {} /\ Opkg = {}
  BY DEF Init, PassAt, DnsAt, Opkg
<1>2. TypeOK
  <2>1. routes \in Seq(Routes) /\ output \in Seq(Routes) /\ wrong \subseteq Opkg
        /\ outdated \subseteq Opkg
    BY <1>1, EmptySeq DEF Init
  <2>2. /\ mgmt \in [v4 : Nets \cup {Nat10, "none"}, v6 : BOOLEAN]
        /\ lost \in [users : BOOLEAN, dns : 0 .. MaxBoots] /\ boots \in 0 .. MaxBoots
    BY ConstantTypes DEF Init
  <2>. QED
    BY <2>1, <2>2, ConstantTypes DEF Init, TypeOK
<1>3. Cleared /\ Pending /\ Marked /\ MgmtInterface
  BY DEF Init, Cleared, Pending, Marked, MgmtInterface, MgmtDone, DnsRouted, Services
<1>4. MgmtRoutes /\ DnsRoutes
  BY <1>1, FS_EmptySet, ConstantTypes
     DEF Init, MgmtRoutes, DnsRoutes, RouteDone, MgmtDone, DnsRouted
<1>5. RouteKinds /\ AnswerKinds /\ RoutesScanned /\ HostsKnown
  BY <1>1 DEF Init, RouteKinds, AnswerKinds, RoutesScanned, HostsKnown, NoAnswers, Scanned, HostsDone
<1>. QED
  BY <1>2, <1>3, <1>4, <1>5 DEF IInv

\* All of it holds in every state.
THEOREM Invariance == Spec => []IInv
<1>1. IInv /\ [Next]_vars => IInv'
  <2>. SUFFICES ASSUME IInv, [Next]_vars PROVE IInv'
    OBVIOUS
  <2>1. /\ TypeOK' /\ Cleared' /\ Pending' /\ Marked' /\ MgmtInterface' /\ MgmtRoutes'
        /\ DnsRoutes' /\ RouteKinds' /\ AnswerKinds' /\ RoutesScanned' /\ HostsKnown'
    BY TypeStep, ClearedStep, PendingStep, MarkedStep, MgmtInterfaceStep, MgmtRoutesStep,
       DnsRoutesStep, RouteKindsStep, AnswerKindsStep, RoutesScannedStep, HostsKnownStep
  <2>. QED
    BY <2>1 DEF IInv
<1>. QED
  BY Initially, <1>1, PTL DEF Spec

\* Every variable keeps to its type; indexes kept over changes are those of
\* routes to repositories.
THEOREM TypeCorrect == Spec => []TypeOK
<1>1. IInv => TypeOK
  BY DEF IInv
<1>. QED
  BY Invariance, <1>1, PTL

\* A router that is up has the temporary routes of interrupted boots, and no
\* other.
THEOREM TemporaryRoutesHolds == Spec => []TemporaryRoutes
<1>1. IInv => TemporaryRoutes
  BY DEF IInv, TypeOK, DnsRoutes, DnsAt, DnsRouted, TemporaryRoutes, Done
<1>. QED
  BY Invariance, <1>1, PTL

\* A router that is up has one management route, of the mode asked for, and the
\* interface has the address of that mode.
THEOREM ManagementOfModeHolds == Spec => []ManagementOfMode
<1>1. IInv => ManagementOfMode
  <2>. SUFFICES ASSUME IInv, pc = "done" PROVE ManagementOfMode
    BY DEF ManagementOfMode, Done
  <2>1. /\ mgmt.v4 = Gateway /\ (mgmt.v6 => mgmt.v4 \in Nets)
        /\ \A i, j \in PassAt : i = j
        /\ PassAt # {} /\ \A i \in PassAt : routes[i].comment = Mode
    BY DEF IInv, MgmtInterface, MgmtRoutes, RouteDone, MgmtDone
  <2>2. mgmt.v6 => want.pass
    BY <2>1, OpenWrtAssumption DEF Gateway
  <2>3. PICK i \in PassAt : routes[i].comment = Mode
    BY <2>1
  <2>4. PassAt = {i}
    BY <2>1, <2>3
  <2>5. Cardinality(PassAt) = 1
    BY <2>4, FS_Singleton
  <2>6. Address.v4 = Gateway
    BY DEF Address
  <2>. QED
    BY <2>1, <2>2, <2>3, <2>5, <2>6 DEF ManagementOfMode, PassAt
<1>. QED
  BY Invariance, <1>1, PTL

\* A router that is up runs with what is on its disk, and has its users unless
\* the first boot was interrupted after its mark.
THEOREM RouterUsableHolds == Spec => []RouterUsable
<1>1. IInv => RouterUsable
  BY DEF IInv, Pending, Marked, RouterUsable, AllApplied, LoginPossible, Done
<1>. QED
  BY Invariance, <1>1, PTL

\* A router that is up has no host and no route of a repository that is not asked
\* for any more, or has moved.
THEOREM NothingOutdatedHolds == Spec => []NothingOutdated
<1>1. IInv => NothingOutdated
  BY DEF IInv, Cleared, RoutesScanned, Scanned, HostsKnown, HostsDone, Opkg, NothingOutdated, Done
<1>. QED
  BY Invariance, <1>1, PTL

(***************************************************************************)
(* The routes of the owner.                                                *)
(***************************************************************************)

Kept(f) ==
    /\ \A i \in OwnAt : routes'[f[i]] = routes[i]
    /\ \A i, j \in OwnAt : i < j => f[i] < f[j]
    /\ \A i \in OwnAt, k \in OwnAt' : (\A j \in OwnAt : f[j] # k) => f[i] < k

LEMMA OwnStay ==
    ASSUME OwnAt \subseteq OwnAt', \A i \in OwnAt : routes'[i] = routes[i],
           \A k \in OwnAt' \ OwnAt : \A i \in OwnAt : i < k
    PROVE  \E f \in [OwnAt -> OwnAt'] : Kept(f)
<1>. DEFINE f == [i \in OwnAt |-> i]
<1>1. f \in [OwnAt -> OwnAt'] /\ \A i \in OwnAt : f[i] = i
  OBVIOUS
<1>. HIDE DEF f
<1>2. Kept(f)
  BY <1>1 DEF Kept
<1>. QED
  BY <1>1, <1>2

LEMMA OwnAppend ==
    ASSUME TypeOK, NEW r \in Routes, routes' = Append(routes, r)
    PROVE  \E f \in [OwnAt -> OwnAt'] : Kept(f)
<1>1. OwnAt' = (IF r.comment = "own" THEN OwnAt \cup {Len(routes) + 1} ELSE OwnAt)
  BY AppendKind, Kinds
<1>2. OwnAt \subseteq 1 .. Len(routes) /\ Len(routes) \in Nat
  BY RoutesLength DEF OwnAt
<1>3. \A i \in OwnAt : routes'[i] = routes[i]
  BY <1>2, AppendRoute
<1>4. \A k \in OwnAt' \ OwnAt : \A i \in OwnAt : i < k
  BY <1>1, <1>2
<1>. QED
  BY <1>1, <1>3, <1>4, OwnStay

LEMMA OwnRemove ==
    ASSUME TypeOK, NEW i \in 1 .. Len(routes), routes' = RemoveAt(routes, i),
           routes[i].comment # "own"
    PROVE  \E f \in [OwnAt -> OwnAt'] : Kept(f)
<1>. DEFINE f == [j \in OwnAt |-> IF j < i THEN j ELSE j - 1]
<1>1. OwnAt = At({"own"}) \ {i} /\ OwnAt' = At({"own"})'
  BY Kinds DEF At
<1>2. /\ \A j \in OwnAt : f[j] \in OwnAt' /\ routes'[f[j]] = routes[j]
      /\ \A j, k \in OwnAt : j < k => f[j] < f[k]
      /\ \A k \in OwnAt' : \E j \in OwnAt : f[j] = k
  BY <1>1, ShiftKind
<1>3. f \in [OwnAt -> OwnAt']
  BY <1>2
<1>. HIDE DEF f
<1>4. Kept(f)
  BY <1>2 DEF Kept
<1>. QED
  BY <1>3, <1>4

LEMMA OwnStep ==
    ASSUME IInv, [Next]_vars
    PROVE  \E f \in [OwnAt -> OwnAt'] : Kept(f)
<1>. USE DEF IInv
<1>0. DOMAIN routes = 1 .. Len(routes)
  BY RoutesLength
<1>1. ASSUME OwnAt' = OwnAt, \A i \in OwnAt : routes'[i] = routes[i]
      PROVE  \E f \in [OwnAt -> OwnAt'] : Kept(f)
  BY <1>1, OwnStay
<1>2. ASSUME routes' = routes
      PROVE  \E f \in [OwnAt -> OwnAt'] : Kept(f)
  BY <1>1, <1>2 DEF OwnAt
<1>3. CASE Quiet \/ UNCHANGED vars \/ Boot
  BY <1>2, <1>3, QuietSteps DEF vars, disk, Boot
<1>4. CASE ConfigureRoute
  <2>1. MgmtRoute.comment # "own"
    BY ConstantTypes, OtherComments DEF MgmtRoute
  <2>2. CASE MgmtRoute \in Routes /\ routes' = Append(routes, MgmtRoute)
    BY <2>2, OwnAppend
  <2>3. CASE /\ DOMAIN routes' = DOMAIN routes
             /\ \A k \in 1 .. Len(routes) :
                   routes'[k] = IF k \in PassAt /\ routes[k].comment # Mode
                                THEN MgmtRoute ELSE routes[k]
    <3>1. OwnAt' = OwnAt /\ \A i \in OwnAt : routes'[i] = routes[i]
      BY <1>0, <2>1, <2>3, OtherComments DEF OwnAt, Own, PassAt
    <3>. QED
      BY <1>1, <3>1
  <2>. QED
    BY <1>4, <2>2, <2>3, ModeRoute
<1>5. CASE AddDnsRoute
  BY <1>5, DnsAdded, OwnAppend
<1>6. CASE UpdateGateways
  <2>1. CASE UNCHANGED routes
    BY <1>2, <2>1
  <2>2. CASE \E i \in wrong : /\ i \in 1 .. Len(routes)
                              /\ routes' = [routes EXCEPT ![i].via = Gateway]
    <3>1. PICK i \in wrong : /\ i \in 1 .. Len(routes)
                             /\ routes' = [routes EXCEPT ![i].via = Gateway]
      BY <2>2
    <3>2. routes[i].comment # "own"
      BY OtherComments DEF TypeOK, Opkg
    <3>3. /\ DOMAIN routes' = DOMAIN routes
          /\ \A k \in 1 .. Len(routes) : /\ routes'[k].comment = routes[k].comment
                                         /\ k # i => routes'[k] = routes[k]
      BY <3>1, GatewayRoute
    <3>4. OwnAt' = OwnAt /\ \A k \in OwnAt : routes'[k] = routes[k]
      BY <1>0, <3>2, <3>3 DEF OwnAt, Own
    <3>. QED
      BY <1>1, <3>4
  <2>. QED
    BY <1>6, <2>1, <2>2, Updated
<1>7. CASE DeleteRoutes
  <2>1. CASE UNCHANGED routes
    BY <1>2, <2>1
  <2>2. CASE \E i \in outdated : /\ i \in 1 .. Len(routes) /\ routes' = RemoveAt(routes, i)
                                 /\ routes[i].comment \in Domains
    BY <2>2, OtherComments, OwnRemove
  <2>. QED
    BY <1>7, <2>1, <2>2, Deleted
<1>8. CASE AddRoutes
  <2>1. CASE UNCHANGED routes
    BY <1>2, <2>1
  <2>2. CASE \E r \in Routes : routes' = Append(routes, r)
    BY <2>2, OwnAppend
  <2>. QED
    BY <1>8, <2>1, <2>2, AddedMissing
<1>9. CASE RemoveDnsRoute
  BY <1>9, DnsRemoved, OwnRemove
<1>10. CASE AddOwnRoute
  BY <1>10, OwnAdded, OwnAppend
<1>. QED
  BY <1>3, <1>4, <1>5, <1>6, <1>7, <1>8, <1>9, <1>10, NextSteps

\* No step removes or reorders a route of the owner; what is new comes last.
THEOREM OwnRoutesKeptHolds == Spec => OwnRoutesKept
<1>. DEFINE kept == \E f \in [OwnAt -> OwnAt'] :
                       /\ \A i \in OwnAt : routes'[f[i]] = routes[i]
                       /\ \A i, j \in OwnAt : i < j => f[i] < f[j]
                       /\ \A i \in OwnAt, k \in OwnAt' :
                              (\A j \in OwnAt : f[j] # k) => f[i] < k
<1>1. IInv /\ [Next]_vars => [kept]_vars
  BY OwnStep DEF Kept
<1>. HIDE DEF kept
<1>2. Spec => [][kept]_vars
  BY Invariance, <1>1, PTL DEF Spec
<1>. QED
  BY <1>2 DEF kept, OwnRoutesKept

(***************************************************************************)
(* The routes to repositories, when no address is given for two domains.   *)
(***************************************************************************)

\* A route to an address is added only where there is none.
LEMMA UniqueStep ==
    ASSUME RInv, [Next]_vars
    PROVE  Unique'
<1>. USE DEF RInv, IInv
<1>0. /\ DOMAIN routes = 1 .. Len(routes) /\ Len(routes) \in Nat
      /\ \A i, j \in 1 .. Len(routes) :
            routes[i].to \in Addrs /\ routes[i].to = routes[j].to => i = j
  BY RoutesLength DEF Unique
<1>1. ASSUME NEW r \in Routes, routes' = Append(routes, r), r.to \in Addrs => ~RouteTo(r.to)
      PROVE  Unique'
  <2>1. \A i \in 1 .. Len(routes) : r.to \in Addrs => routes[i].to # r.to
    BY <1>0, <1>1 DEF RouteTo
  <2>2. /\ DOMAIN routes' = 1 .. Len(routes) + 1 /\ routes'[Len(routes) + 1] = r
        /\ \A i \in 1 .. Len(routes) : routes'[i] = routes[i]
    BY <1>1, AppendRoute
  <2>. SUFFICES ASSUME NEW i \in 1 .. Len(routes) + 1, NEW j \in 1 .. Len(routes) + 1,
                       routes'[i].to \in Addrs, routes'[i].to = routes'[j].to
                PROVE  i = j
    BY <2>2 DEF Unique
  <2>3. CASE i \in 1 .. Len(routes) /\ j \in 1 .. Len(routes)
    BY <1>0, <2>2, <2>3
  <2>4. CASE i = Len(routes) + 1 \/ j = Len(routes) + 1
    BY <1>0, <2>1, <2>2, <2>4
  <2>. QED
    BY <1>0, <2>3, <2>4
<1>2. ASSUME NEW i \in 1 .. Len(routes), routes' = RemoveAt(routes, i)
      PROVE  Unique'
  <2>. SUFFICES ASSUME NEW k \in DOMAIN routes', NEW l \in DOMAIN routes',
                       routes'[k].to \in Addrs, routes'[k].to = routes'[l].to
                PROVE  k = l
    BY DEF Unique
  <2>1. /\ k \in 1 .. Len(routes) - 1 /\ l \in 1 .. Len(routes) - 1
        /\ routes'[k] = routes[IF k < i THEN k ELSE k + 1]
        /\ routes'[l] = routes[IF l < i THEN l ELSE l + 1]
    BY <1>2, RemoveRoute
  <2>. DEFINE m == IF k < i THEN k ELSE k + 1
              n == IF l < i THEN l ELSE l + 1
  <2>2. m \in 1 .. Len(routes) /\ n \in 1 .. Len(routes)
    BY <1>0, <2>1
  <2>3. m = n => k = l
    BY <1>0, <2>1
  <2>. HIDE DEF m, n
  <2>. QED
    BY <1>0, <2>1, <2>2, <2>3 DEF m, n
<1>3. ASSUME DOMAIN routes' = DOMAIN routes,
             \A i \in 1 .. Len(routes) : routes'[i].to \in Addrs => routes'[i].to = routes[i].to
      PROVE  Unique'
  BY <1>0, <1>3 DEF Unique
<1>4. CASE Quiet \/ UNCHANGED vars \/ Boot
  <2>1. routes' = routes
    BY <1>4, QuietSteps DEF vars, disk, Boot
  <2>. QED
    BY <1>3, <2>1
<1>5. CASE ConfigureRoute
  <2>1. MgmtRoute.to \notin Addrs
    BY OtherComments, OpenWrtAssumption DEF MgmtRoute, TypeOK, Environments
  <2>2. CASE MgmtRoute \in Routes /\ routes' = Append(routes, MgmtRoute)
    BY <1>1, <2>1, <2>2
  <2>3. CASE /\ DOMAIN routes' = DOMAIN routes
             /\ \A k \in 1 .. Len(routes) :
                   routes'[k] = IF k \in PassAt /\ routes[k].comment # Mode
                                THEN MgmtRoute ELSE routes[k]
    BY <1>3, <2>1, <2>3
  <2>. QED
    BY <1>5, <2>2, <2>3, ModeRoute
<1>6. CASE AddDnsRoute
  BY <1>1, <1>6, DnsAdded, OtherComments
<1>7. CASE UpdateGateways
  <2>1. DOMAIN routes' = DOMAIN routes /\ \A k \in 1 .. Len(routes) : routes'[k].to = routes[k].to
    BY <1>7, Updated, GatewayRoute
  <2>. QED
    BY <1>3, <2>1
<1>8. CASE DeleteRoutes
  <2>1. CASE UNCHANGED routes
    BY <1>3, <2>1
  <2>2. CASE \E i \in outdated : i \in 1 .. Len(routes) /\ routes' = RemoveAt(routes, i)
    BY <1>2, <2>2
  <2>. QED
    BY <1>8, <2>1, <2>2, Deleted
<1>9. CASE AddRoutes
  <2>1. CASE UNCHANGED routes
    BY <1>3, <2>1
  <2>2. CASE \E pair \in missing, r \in Routes :
                r.to = pair[1] /\ routes' = Append(routes, r)
    <3>1. \A pair \in missing : ~RouteTo(pair[1])
      BY <1>9, AddedMissing DEF Found, HostsDone, AnswerKinds
    <3>. QED
      BY <1>1, <2>2, <3>1
  <2>. QED
    BY <1>9, <2>1, <2>2, AddedMissing
<1>10. CASE RemoveDnsRoute
  BY <1>2, <1>10, DnsRemoved
<1>11. CASE AddOwnRoute
  BY <1>1, <1>11, OwnAdded, OtherComments
<1>. QED
  BY <1>4, <1>5, <1>6, <1>7, <1>8, <1>9, <1>10, <1>11, NextSteps

LEMMA LastIsDnsStep ==
    ASSUME RInv, [Next]_vars
    PROVE  LastIsDns'
<1>. USE DEF RInv, LastIsDns
<1>1. CASE \/ BrLanSeen \/ FirstBoot \/ SetUsers \/ ConfigureMgmtInterface
           \/ CheckBrLanPorts \/ ConfigureFirewallZone \/ ConfigureRoute
           \/ ReloadServices \/ Resolve \/ CleanHosts \/ Scan \/ ScanRaises
           \/ UpdateGateways \/ DeleteRoutes \/ Boot
  BY <1>1 DEF BrLanSeen, FirstBoot, SetUsers, ConfigureMgmtInterface, CheckBrLanPorts,
              ConfigureFirewallZone, ConfigureRoute, ReloadServices, Resolve, CleanHosts,
              Scan, ScanRaises, UpdateGateways, DeleteRoutes, Boot
<1>2. CASE \/ AddHosts \/ AddRoutes \/ RemoveDnsRoute \/ RestartNetwork
           \/ InstallPackages \/ Finish \/ AddOwnRoute
  BY <1>2 DEF AddHosts, AddRoutes, RemoveDnsRoute, RestartNetwork, InstallPackages,
              Finish, AddOwnRoute
<1>3. CASE AddDnsRoute
  <2>1. PICK r \in Routes : r.via = Gateway /\ routes' = Append(routes, r)
    BY <1>3, DnsAdded
  <2>2. Len(routes') = Len(routes) + 1 /\ routes'[Len(routes) + 1] = r /\ routes' \in Seq(Routes)
    BY <2>1, AppendRoute DEF IInv
  <2>3. Gateway' = Gateway
    BY <1>3, DnsAdded DEF Gateway
  <2>4. routes' # <<>>
    BY <2>2, RoutesLength, EmptySeq DEF IInv
  <2>. QED
    BY <2>1, <2>2, <2>3, <2>4
<1>4. CASE UNCHANGED vars
  BY <1>4 DEF vars, disk, Gateway
<1>. QED
  BY <1>1, <1>2, <1>3, <1>4 DEF Next, BootstrapConfig

\* The routes end with the temporary one when they are read.
LEMMA ResolveFinds ==
    ASSUME RInv, Resolve
    PROVE  Found'
<1>. USE DEF RInv, IInv
<1>1. output' = routes /\ routes' = routes /\ want' = want /\ pc = "resolve" /\ pc' = "hosts"
  BY DEF Resolve, disk
<1>2. /\ DOMAIN routes = 1 .. Len(routes) /\ Len(routes) \in Nat /\ routes # <<>>
      /\ routes[Len(routes)].via = Gateway
  BY <1>1, RoutesLength DEF LastIsDns
<1>3. ASSUME NEW a \in Addrs
      PROVE  RouteExists(a)' <=> RouteTo(a)'
  <2>1. RouteExists(a)' <=> \E i, j, k \in DOMAIN routes :
                               /\ i <= j /\ j <= k
                               /\ routes[i].comment # "own"
                               /\ routes[j].to = a
                               /\ routes[k].via = Gateway
    BY <1>1 DEF RouteExists, Gateway
  <2>2. RouteTo(a)' <=> \E i \in DOMAIN routes : routes[i].to = a
    BY <1>1 DEF RouteTo
  <2>3. ASSUME NEW j \in DOMAIN routes, routes[j].to = a
        PROVE  /\ routes[j].comment # "own" /\ Len(routes) \in DOMAIN routes
               /\ j <= j /\ j <= Len(routes)
    <3>1. routes[j].comment \in Domains
      BY <2>3 DEF RouteKinds
    <3>. QED
      BY <1>2, <3>1, OtherComments
  <2>. QED
    BY <1>2, <2>1, <2>2, <2>3
<1>4. \A pair \in Hosts(answers)' : RouteExists(pair[1])' <=> RouteTo(pair[1])'
  BY <1>3 DEF Hosts
<1>. QED
  BY <1>1, <1>4 DEF Found, HostsDone

LEMMA FoundStep ==
    ASSUME RInv, OneDomain, [Next]_vars
    PROVE  Found'
<1>. USE DEF RInv, IInv
<1>. DEFINE looking(p) == p \in {"hosts", "scan", "gateways", "delete", "addhosts"}
<1>0. /\ DOMAIN routes = 1 .. Len(routes) /\ Len(routes) \in Nat
      /\ looking(pc) => \A pair \in Hosts(answers) : RouteExists(pair[1]) <=> RouteTo(pair[1])
      /\ HostsDone => \A pair \in Hosts(answers) : pair \in missing <=> ~RouteTo(pair[1])
      /\ \A pair \in Hosts(answers) : pair[1] \in Addrs /\ pair[2] \in Serves[pair[1]]
      /\ \A pair \in Hosts(answers) : pair = <<pair[1], pair[2]>>
  BY RoutesLength DEF Found, AnswerKinds, Hosts
\* The answers and what was read stay, and so do the addresses with a route.
<1>1. ASSUME UNCHANGED <<want, answers, output, missing>>,
             \A pair \in Hosts(answers) : RouteTo(pair[1])' <=> RouteTo(pair[1]),
             looking(pc') => looking(pc), HostsDone' => HostsDone
      PROVE  Found'
  <2>1. /\ Hosts(answers)' = Hosts(answers)
        /\ \A a \in Addrs : RouteExists(a)' <=> RouteExists(a)
    BY <1>1 DEF Hosts, RouteExists, Gateway
  <2>. QED
    BY <1>0, <1>1, <2>1 DEF Found
<1>2. ASSUME routes' = routes
      PROVE  \A pair \in Hosts(answers) : RouteTo(pair[1])' <=> RouteTo(pair[1])
  BY <1>2 DEF RouteTo
<1>3. ASSUME NEW i \in 1 .. Len(routes), routes' = RemoveAt(routes, i),
             \A pair \in Hosts(answers) : routes[i].to # pair[1]
      PROVE  \A pair \in Hosts(answers) : RouteTo(pair[1])' <=> RouteTo(pair[1])
  <2>. SUFFICES ASSUME NEW pair \in Hosts(answers)
                PROVE  RouteTo(pair[1])' <=> RouteTo(pair[1])
    OBVIOUS
  <2>1. ASSUME NEW j \in DOMAIN routes, routes[j].to = pair[1]
        PROVE  \E k \in DOMAIN routes' : routes'[k].to = pair[1]
    <3>1. j \in 1 .. Len(routes) \ {i}
      BY <1>0, <1>3, <2>1
    <3>. QED
      BY <1>3, <2>1, <3>1, RemoveIndex
  <2>2. ASSUME NEW k \in DOMAIN routes', routes'[k].to = pair[1]
        PROVE  \E j \in DOMAIN routes : routes[j].to = pair[1]
    <3>1. /\ k \in 1 .. Len(routes) - 1
          /\ routes'[k] = IF k < i THEN routes[k] ELSE routes[k + 1]
      BY <1>3, RemoveRoute
    <3>2. k \in DOMAIN routes /\ k + 1 \in DOMAIN routes
      BY <1>0, <3>1
    <3>. QED
      BY <2>2, <3>1, <3>2
  <2>. QED
    BY <2>1, <2>2 DEF RouteTo
<1>4. ASSUME NEW r \in Routes, routes' = Append(routes, r), NEW a
      PROVE  RouteTo(a)' <=> RouteTo(a) \/ r.to = a
  <2>1. /\ DOMAIN routes' = 1 .. Len(routes) + 1 /\ routes'[Len(routes) + 1] = r
        /\ \A i \in 1 .. Len(routes) : routes'[i] = routes[i]
    BY <1>4, AppendRoute
  <2>2. /\ 1 .. Len(routes) + 1 = 1 .. Len(routes) \cup {Len(routes) + 1}
    BY <1>0
  <2>. QED
    BY <1>0, <2>1, <2>2 DEF RouteTo
<1>5. ASSUME ~looking(pc'), ~HostsDone'
      PROVE  Found'
  BY <1>5 DEF Found
<1>6. CASE \/ BrLanSeen \/ FirstBoot \/ SetUsers \/ ConfigureMgmtInterface
           \/ CheckBrLanPorts \/ ConfigureFirewallZone \/ ConfigureRoute
           \/ ReloadServices \/ AddDnsRoute \/ ScanRaises \/ Boot
  BY <1>5, <1>6 DEF HostsDone, BrLanSeen, FirstBoot, SetUsers, ConfigureMgmtInterface,
                    CheckBrLanPorts, ConfigureFirewallZone, ConfigureRoute, ReloadServices,
                    AddDnsRoute, ScanRaises, Boot
<1>7. CASE Resolve
  BY <1>7, ResolveFinds
<1>8. CASE CleanHosts \/ Scan
  BY <1>1, <1>2, <1>8 DEF CleanHosts, Scan, HostsDone, disk
<1>9. CASE UpdateGateways
  <2>1. DOMAIN routes' = DOMAIN routes /\ \A k \in 1 .. Len(routes) : routes'[k].to = routes[k].to
    BY <1>9, Updated, GatewayRoute
  <2>2. \A pair \in Hosts(answers) : RouteTo(pair[1])' <=> RouteTo(pair[1])
    BY <1>0, <2>1 DEF RouteTo
  <2>. QED
    BY <1>1, <1>9, <2>2, Updated DEF HostsDone
<1>10. CASE DeleteRoutes
  <2>1. \A pair \in Hosts(answers) : RouteTo(pair[1])' <=> RouteTo(pair[1])
    <3>1. CASE UNCHANGED routes
      BY <1>2, <3>1
    <3>2. CASE \E i \in outdated : i \in 1 .. Len(routes) /\ routes' = RemoveAt(routes, i)
      <4>1. PICK i \in outdated : i \in 1 .. Len(routes) /\ routes' = RemoveAt(routes, i)
        BY <3>2
      <4>2. <<routes[i].to, routes[i].comment>> \notin Hosts(answers)
        BY <1>10, Deleted DEF RoutesScanned
      <4>3. routes[i].comment \in Serves[routes[i].to] /\ routes[i].to \in Addrs
        BY DEF RouteKinds, TypeOK, Opkg
      <4>4. ASSUME NEW pair \in Hosts(answers)
            PROVE  routes[i].to # pair[1]
        BY <1>0, <4>2, <4>3 DEF OneDomain
      <4>. QED
        BY <1>3, <4>1, <4>4
    <3>. QED
      BY <1>10, <3>1, <3>2, Deleted
  <2>. QED
    BY <1>1, <1>10, <2>1, Deleted DEF HostsDone
<1>11. CASE AddHosts
  <2>1. /\ UNCHANGED <<want, answers, output, routes>> /\ pc = "addhosts"
        /\ \/ pc' = pc /\ missing' = missing
           \/ pc' = "addroutes" /\ missing' = {pair \in Hosts(answers) : ~RouteExists(pair[1])}
    BY <1>11 DEF AddHosts
  <2>2. CASE pc' = pc /\ missing' = missing
    BY <1>1, <1>2, <2>1, <2>2 DEF HostsDone
  <2>3. CASE pc' = "addroutes" /\ missing' = {pair \in Hosts(answers) : ~RouteExists(pair[1])}
    <3>1. Hosts(answers)' = Hosts(answers) /\ \A pair \in Hosts(answers) : RouteTo(pair[1])' <=> RouteTo(pair[1])
      BY <1>2, <2>1 DEF Hosts
    <3>. QED
      BY <1>0, <2>1, <2>3, <3>1 DEF Found
  <2>. QED
    BY <2>1, <2>2, <2>3
<1>12. CASE AddRoutes
  <2>0. /\ UNCHANGED <<want, answers, output>> /\ HostsDone /\ HostsDone' /\ ~looking(pc')
    BY <1>12, AddedMissing DEF HostsDone
  <2>1. CASE UNCHANGED <<routes, missing>>
    BY <1>1, <1>2, <2>0, <2>1
  <2>2. CASE \E pair \in missing, r \in Routes :
                r.to = pair[1] /\ routes' = Append(routes, r) /\ missing' = missing \ {pair}
    <3>1. PICK pair \in missing, r \in Routes :
                r.to = pair[1] /\ routes' = Append(routes, r) /\ missing' = missing \ {pair}
      BY <2>2
    <3>2. pair \in Hosts(answers)
      BY DEF AnswerKinds
    <3>3. ASSUME NEW other \in Hosts(answers)
          PROVE  other \in missing' <=> ~RouteTo(other[1])'
      <4>1. RouteTo(other[1])' <=> RouteTo(other[1]) \/ pair[1] = other[1]
        BY <1>4, <3>1
      <4>2. pair[1] = other[1] => pair = other
        BY <1>0, <3>2 DEF OneDomain
      <4>. QED
        BY <1>0, <2>0, <3>1, <4>1, <4>2
    <3>4. Hosts(answers)' = Hosts(answers)
      BY <2>0 DEF Hosts
    <3>. QED
      BY <2>0, <3>3, <3>4 DEF Found
  <2>. QED
    BY <1>12, <2>1, <2>2, AddedMissing
<1>13. CASE RemoveDnsRoute
  <2>1. PICK i \in 1 .. Len(routes) : routes[i].comment = "dns" /\ routes' = RemoveAt(routes, i)
    BY <1>13, DnsRemoved
  <2>2. routes[i].to \notin Addrs
    BY <1>0, <2>1, OtherComments DEF RouteKinds
  <2>3. \A pair \in Hosts(answers) : RouteTo(pair[1])' <=> RouteTo(pair[1])
    BY <1>0, <1>3, <2>1, <2>2
  <2>. QED
    BY <1>1, <1>13, <2>3, DnsRemoved DEF HostsDone
<1>14. CASE RestartNetwork \/ InstallPackages
  BY <1>1, <1>2, <1>14 DEF RestartNetwork, InstallPackages, HostsDone, disk
<1>15. CASE Finish
  <2>1. UNCHANGED <<want, answers, missing, routes>> /\ HostsDone /\ ~looking(pc')
    BY <1>15 DEF Finish, HostsDone, Cleared, disk
  <2>2. Hosts(answers)' = Hosts(answers) /\ \A pair \in Hosts(answers) : RouteTo(pair[1])' <=> RouteTo(pair[1])
    BY <1>2, <2>1 DEF Hosts
  <2>. QED
    BY <1>0, <2>1, <2>2 DEF Found
<1>16. CASE AddOwnRoute
  <2>1. PICK r \in Routes : r.to = "peer" /\ routes' = Append(routes, r)
    BY <1>16, OwnAdded
  <2>2. \A pair \in Hosts(answers) : RouteTo(pair[1])' <=> RouteTo(pair[1])
    BY <1>0, <1>4, <2>1, OtherComments
  <2>. QED
    BY <1>1, <1>16, <2>2, OwnAdded DEF HostsDone, locals
<1>17. CASE UNCHANGED vars
  BY <1>1, <1>2, <1>17 DEF vars, disk, locals, HostsDone
<1>. QED
  BY <1>6, <1>7, <1>8, <1>9, <1>10, <1>11, <1>12, <1>13, <1>14, <1>15, <1>16, <1>17
     DEF Next, BootstrapConfig

\* Where no address is given for two domains, a router that is up has one route
\* for each address a repository was found at, through the gateway of now, and
\* none of a repository that is gone.
THEOREM RoutesOfDomainsHolds ==
    ASSUME OneDomain
    PROVE  Spec => []RoutesOfDomains
<1>1. Init => RInv
  <2>1. Init => Unique /\ LastIsDns /\ Found
    BY DEF Init, Unique, LastIsDns, Found, HostsDone
  <2>. QED
    BY <2>1, Initially DEF RInv
<1>2. RInv /\ IInv' /\ [Next]_vars => RInv'
  BY UniqueStep, LastIsDnsStep, FoundStep DEF RInv
<1>3. RInv => RoutesOfDomains
  <2>. SUFFICES ASSUME RInv, pc = "done" PROVE RoutesOfDomains
    BY DEF RoutesOfDomains, AddressesRouted, NothingOutdated, Done
  <2>1. NothingOutdated
    BY DEF RInv, IInv, Cleared, RoutesScanned, Scanned, HostsKnown, HostsDone, Opkg, NothingOutdated
  <2>2. ASSUME NEW pair \in Hosts(answers)
        PROVE  Cardinality({i \in DOMAIN routes :
                                routes[i].to = pair[1] /\ routes[i].via = Gateway}) = 1
    <3>1. missing = {} /\ wrong = {} /\ outdated = {} /\ pair[1] \in Addrs
      BY DEF RInv, IInv, Cleared, Hosts
    <3>2. PICK i \in DOMAIN routes : routes[i].to = pair[1]
      BY <3>1 DEF RInv, Found, HostsDone, RouteTo
    <3>3. i \in Opkg
      BY <3>1, <3>2 DEF RInv, IInv, RouteKinds, Opkg
    <3>4. routes[i].via = Gateway
      BY <3>1, <3>3 DEF RInv, IInv, RoutesScanned, Scanned
    <3>5. {j \in DOMAIN routes : routes[j].to = pair[1] /\ routes[j].via = Gateway} = {i}
      BY <3>1, <3>2, <3>4 DEF RInv, Unique
    <3>. QED
      BY <3>5, FS_Singleton
  <2>. QED
    BY <2>1, <2>2 DEF RoutesOfDomains, AddressesRouted
<1>. QED
  BY <1>1, <1>2, <1>3, Invariance, PTL DEF Spec

=============================================================================
