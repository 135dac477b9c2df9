------------------------------ MODULE NicPlan ------------------------------
(***************************************************************************)
(* How start() of common/vrnetlab.py turns the container's interfaces into  *)
(* the NICs of the guest.  containerlab plugs eth interfaces into a running *)
(* container one at a time, in any order, and takes them out when a         *)
(* neighbour goes away.  The launcher waits until it sees as many as        *)
(* CLAB_INTFS announced (nic_provision_delay), then looks at each ethN in   *)
(* turn (gen_nics) and gives it the PCI slot of its number, so that the     *)
(* guest counts its NICs the way the topology does; interfaces the topology *)
(* skips are replaced by placeholders, and images that need more NICs get   *)
(* dummies (gen_dummy_nics).                                                *)
(***************************************************************************)
EXTENDS Integers, FiniteSets

CONSTANTS
    Topologies,      \* candidate sets of eth numbers of the node's links
    Start,           \* start_nic_eth_idx
    NumNics,         \* num_nics, the NICs the platform has
    PerBus,          \* nics_per_pci_bus
    MinNics,         \* min_nics, the NICs the image insists on
    Shift,           \* 1 for the images that keep slot 1 free (vEOS), else 0
    Mgmtless,        \* supports_mgmtless
    PrefixIsEth,     \* does the data prefix match the management interface?
    MaxUnplugs       \* bound: how often a link may disappear

ASSUME NicPlanAssumption ==
    /\ \A t \in Topologies : t \subseteq Nat \ {0} /\ IsFiniteSet(t)
    /\ Start \in Nat \ {0}
    /\ NumNics \in Nat
    /\ PerBus \in Nat \ {0}
    /\ MinNics \in Nat
    /\ Shift \in {0, 1}
    /\ Mgmtless \in BOOLEAN
    /\ PrefixIsEth \in BOOLEAN
    /\ MaxUnplugs \in Nat

VARIABLES
    topo,        \* the node's links; CLAB_INTFS is their number
    hasMgmt,     \* does the container have the management interface?
    present,     \* data interfaces under /sys/class/net
    unplugs,     \* links lost so far (bounded by MaxUnplugs)
    pc,          \* where start() is; "up" once qemu runs
    numMgmt,     \* num_mgmt_nics
    highest,     \* highest_provisioned_nic_num
    insufficient, \* insuffucient_nics
    i,           \* loop variable of gen_nics
    devs,        \* the -device arguments built so far
    missed       \* history: interfaces lost since the wait was over

launcher == <<pc, numMgmt, highest, insufficient, i, devs>>
vars     == <<topo, hasMgmt, present, unplugs, launcher, missed>>

Intfs == Cardinality(topo)
EthRange == Start .. Start + NumNics - 1

\* A NIC of the guest: what is behind it and its pci_bus_ctr.
Kinds     == {"data", "placeholder", "dummy"}
Nic(k, e, x) == [kind |-> k, eth |-> e, x |-> x]

\* The bus and address the counter is turned into ...
PciBus(x)  == (x \div PerBus) + 1
PciAddr(x) == (x % PerBus) + 1

\* Mutant of Bridges: rounds down.
BridgesFloor == 1 .. NumNics \div PerBus

\* ... and the bridges start() creates: ceil(num_nics / nics_per_pci_bus).
Bridges == 1 .. (NumNics + PerBus - 1) \div PerBus

MaxOf(S) == CHOOSE m \in S : \A n \in S : n <= m

TypeOK ==
    /\ topo \in Topologies
    /\ hasMgmt \in BOOLEAN
    /\ present \subseteq topo
    /\ unplugs \in 0 .. MaxUnplugs
    /\ pc \in {"mgmt", "delay", "nics", "dummies", "up"}
    /\ numMgmt \in {0, 1}
    /\ highest \in {0} \cup EthRange
    /\ insufficient \in BOOLEAN
    /\ i \in Start .. Start + NumNics
    /\ devs \subseteq [kind : Kinds, eth : Nat, x : Nat]
    /\ missed \subseteq topo

Init ==
    /\ topo \in Topologies
    /\ hasMgmt \in BOOLEAN
    /\ hasMgmt \/ Mgmtless
    /\ present = {} /\ unplugs = 0
    /\ pc = "mgmt" /\ numMgmt = 1 /\ highest = 0 /\ insufficient = FALSE
    /\ i = Start /\ devs = {} /\ missed = {}

(***************************************************************************)
(* start().                                                                 *)
(***************************************************************************)

\* Mutant of GenMgmt: counts a management NIC that is not there.
GenMgmtAlways ==
    /\ pc = "mgmt"
    /\ numMgmt' = 1
    /\ pc' = "delay"
    /\ UNCHANGED <<topo, hasMgmt, present, unplugs, highest, insufficient, i,
                   devs, missed>>

\* The management NIC; it sits on the root bus and takes no slot of a bridge.
GenMgmt ==
    /\ pc = "mgmt"
    /\ numMgmt' = IF hasMgmt \/ ~Mgmtless THEN 1 ELSE 0
    /\ pc' = "delay"
    /\ UNCHANGED <<topo, hasMgmt, present, unplugs, highest, insufficient, i,
                   devs, missed>>

\* nic_provision_delay() without containerlab: do not wait.
NothingAnnounced ==
    /\ pc = "delay"
    /\ Intfs = 0
    /\ insufficient' = (insufficient \/ MinNics > 0)
    /\ pc' = "nics" /\ i' = Start
    /\ missed' = {}
    /\ UNCHANGED <<topo, hasMgmt, present, unplugs, numMgmt, highest, devs>>

\* How many interfaces the glob of the prefix finds.
Globbed == Cardinality(present) + (IF PrefixIsEth /\ hasMgmt THEN 1 ELSE 0)

\* nic_provision_delay(): the poll that sees every announced interface.
Provisioned ==
    /\ pc = "delay"
    /\ Intfs > 0
    /\ Globbed >= Intfs + numMgmt
    /\ highest' = IF present \cap EthRange = {} THEN highest
                  ELSE MaxOf(present \cap EthRange)
    /\ insufficient' = (insufficient \/ Intfs < MinNics)
    /\ pc' = "nics" /\ i' = Start
    /\ missed' = {}
    /\ UNCHANGED <<topo, hasMgmt, present, unplugs, numMgmt, devs>>

\* pci_bus_ctr of the interface the loop is at (x in gen_nics).
Slot == i - Start + 1 + Shift

\* Mutant of GenNic: an interface that is not there takes no slot.
GenNicNoPlaceholder ==
    /\ pc = "nics" /\ i < Start + NumNics
    /\ devs' = IF i \in present THEN devs \cup {Nic("data", i, Slot)} ELSE devs
    /\ i' = i + 1
    /\ UNCHANGED <<topo, hasMgmt, present, unplugs, pc, numMgmt, highest,
                   insufficient, missed>>

\* gen_nics(), one turn of the loop: os.path.exists() is asked now, not when
\* the interfaces were counted.
GenNic ==
    /\ pc = "nics" /\ i < Start + NumNics
    /\ devs' = IF i \in present THEN devs \cup {Nic("data", i, Slot)}
               ELSE IF i < highest
                    THEN devs \cup {Nic("placeholder", i, Slot)}
                    ELSE devs
    /\ i' = i + 1
    /\ UNCHANGED <<topo, hasMgmt, present, unplugs, pc, numMgmt, highest,
                   insufficient, missed>>

EndNics ==
    /\ pc = "nics" /\ i = Start + NumNics
    /\ pc' = IF insufficient THEN "dummies" ELSE "up"
    /\ UNCHANGED <<topo, hasMgmt, present, unplugs, numMgmt, highest,
                   insufficient, i, devs, missed>>

\* Mutant of GenDummyNics: starts in the slot of the last announced NIC.
GenDummyOverlap ==
    /\ pc = "dummies"
    /\ devs' = devs \cup {Nic("dummy", d, Intfs + d) :
                              d \in 0 .. MinNics - Intfs - 1}
    /\ pc' = "up"
    /\ UNCHANGED <<topo, hasMgmt, present, unplugs, numMgmt, highest,
                   insufficient, i, missed>>

\* gen_dummy_nics(): as many as are missing, in the slots after as many as
\* were announced.
GenDummyNics ==
    /\ pc = "dummies"
    /\ devs' = devs \cup {Nic("dummy", d, Intfs + 1 + d) :
                              d \in 0 .. MinNics - Intfs - 1}
    /\ pc' = "up"
    /\ UNCHANGED <<topo, hasMgmt, present, unplugs, numMgmt, highest,
                   insufficient, i, missed>>

\* stop() and start() again: the object keeps its fields, the command line is
\* built anew.
Restart ==
    /\ pc = "up"
    /\ pc' = "mgmt" /\ devs' = {}
    /\ UNCHANGED <<topo, hasMgmt, present, unplugs, numMgmt, highest,
                   insufficient, i, missed>>

Launcher == \/ GenMgmt \/ NothingAnnounced \/ Provisioned \/ GenNic
            \/ EndNics \/ GenDummyNics

(***************************************************************************)
(* containerlab.                                                            *)
(***************************************************************************)

Plug(e) ==
    /\ e \in topo \ present
    /\ present' = present \cup {e}
    /\ UNCHANGED <<topo, hasMgmt, unplugs, launcher, missed>>

Unplug(e) ==
    /\ e \in present
    /\ unplugs < MaxUnplugs /\ unplugs' = unplugs + 1
    /\ present' = present \ {e}
    /\ missed' = missed \cup {e}
    /\ UNCHANGED <<topo, hasMgmt, launcher>>

Next == Launcher \/ Restart \/ \E e \in topo : Plug(e) \/ Unplug(e)

Spec == Init /\ [][Next]_vars

\* The launcher runs, and the links of the topology come (back).
Fairness ==
    /\ WF_vars(Launcher)
    /\ WF_vars(\E e \in topo : Plug(e))

FairSpec == Spec /\ Fairness

(***************************************************************************)
(* Properties.                                                              *)
(***************************************************************************)

\* No two NICs are given the same address on the same bus: the dummies "are
\* done after because they shouldn't interfere with the provisioned nics".
SlotsDisjoint ==
    \A d, e \in devs :
        PciBus(d.x) = PciBus(e.x) /\ PciAddr(d.x) = PciAddr(e.x) => d = e

\* The guest counts NICs by bus and address: the NIC of ethN is its NIC
\* number N, because every slot before it is taken, even when an interface
\* of a lower number is missing, comes late or goes away half-way.
GuestNumbering ==
    pc = "up" =>
        \A d \in {dd \in devs : dd.kind = "data"} :
            /\ d.x = d.eth - Start + 1 + Shift
            /\ \A y \in 1 + Shift .. d.x - 1 : \E e \in devs : e.x = y

\* Every link of the topology the platform has a NIC for is wired when qemu
\* starts, unless it was lost after nic_provision_delay() returned.
AllWired ==
    pc = "up" =>
        \A e \in (topo \cap EthRange) \ missed :
            \E d \in devs : d.kind = "data" /\ d.eth = e

\* ethN is NIC number N of the guest and wired, for every N the topology has.
EthsWired == GuestNumbering /\ AllWired

\* Every NIC is put on a bridge that start() created.
BusExists == \A d \in devs : PciBus(d.x) \in Bridges

\* start() gets past the wait for interfaces whenever the topology's links
\* are eventually all there ("we have all NICs ready to roll!").
Launches == pc = "mgmt" ~> pc = "up"

=============================================================================
