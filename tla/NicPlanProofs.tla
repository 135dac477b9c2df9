--------------------------- MODULE NicPlanProofs ---------------------------
(***************************************************************************)
(* Proofs about NicPlan: the guest's numbering and wiring for every         *)
(* topology, order of plugging and number of NICs, and the conditions under *)
(* which no two NICs share a slot and every slot is on a bridge.            *)
(***************************************************************************)
EXTENDS NicPlan, FiniteSetTheorems, WellFoundedInduction, TLAPS

(***************************************************************************)
(* The inductive invariant.                                                 *)
(***************************************************************************)

\* The wait for interfaces is over.
Seen == pc \in {"nics", "dummies", "up"}

\* What each stage of start() leaves behind for the next.
StageInv ==
    /\ pc \in {"mgmt", "delay"} => devs = {}
    /\ pc \in {"dummies", "up"} => i = Start + NumNics
    /\ pc # "mgmt" => (hasMgmt => numMgmt = 1)

\* Once seen, every link lies at or below highest and is there unless lost.
SeenInv ==
    /\ highest \in {0} \cup topo
    /\ Seen => /\ \A e \in topo \cap EthRange : e <= highest
               /\ topo \ missed \subseteq present

\* Every NIC is where its kind says.
DevInv ==
    \A d \in devs :
        IF d.kind = "dummy"
        THEN Intfs < d.x /\ d.x <= MinNics /\ d.x = Intfs + 1 + d.eth
        ELSE /\ d.eth \in Start .. i - 1
             /\ d.x = d.eth - Start + 1 + Shift
             /\ d.kind = "data" => d.eth \in topo
             /\ d.kind = "placeholder" => d.eth < highest

\* No interface number has two NICs.
UniqueInv ==
    \A d, e \in devs :
        d.kind # "dummy" /\ e.kind # "dummy" /\ d.eth = e.eth => d = e

\* No number below highest, and no link that was not lost, is passed over.
FillInv ==
    Seen => \A n \in Start .. i - 1 :
                /\ n < highest => \E d \in devs : d.kind # "dummy" /\ d.eth = n
                /\ n \in topo \ missed =>
                       \E d \in devs : d.kind = "data" /\ d.eth = n

IInv == TypeOK /\ StageInv /\ SeenInv /\ DevInv /\ UniqueInv /\ FillInv

(***************************************************************************)
(* Arithmetic of PCI slots.                                                 *)
(***************************************************************************)

\* Two counters with the same bus and address are the same counter.
LEMMA SlotInjective ==
    ASSUME NEW x \in Nat, NEW y \in Nat,
           PciBus(x) = PciBus(y), PciAddr(x) = PciAddr(y)
    PROVE  x = y
<1>1. /\ PerBus \in Int /\ PerBus > 0
      /\ x \in Int /\ y \in Int
      /\ x \div PerBus \in Int /\ y \div PerBus \in Int
      /\ x % PerBus \in Int /\ y % PerBus \in Int
  BY NicPlanAssumption
<1>2. x \div PerBus = y \div PerBus /\ x % PerBus = y % PerBus
  BY <1>1 DEF PciBus, PciAddr
<1>. HIDE NicPlanAssumption
<1>. QED  BY ONLY <1>1, <1>2, Z3

(***************************************************************************)
(* The wait.                                                                *)
(***************************************************************************)

\* A poll that counts enough interfaces has seen all of them, whatever order
\* they came in and whether or not the glob counts the management interface.
LEMMA WaitSeesAll ==
    ASSUME TypeOK, StageInv, Provisioned
    PROVE  present = topo
<1>1. IsFiniteSet(topo)
  BY NicPlanAssumption DEF TypeOK
<1>2. present \subseteq topo
  BY DEF TypeOK
<1>3. /\ Cardinality(present) \in Nat
      /\ Cardinality(topo) \in Nat
      /\ Cardinality(present) = Cardinality(topo) => present = topo
      /\ Cardinality(present) <= Cardinality(topo)
  BY <1>1, <1>2, FS_Subset, FS_CardinalityType
<1>4. Cardinality(present) >= Cardinality(topo)
  BY <1>3 DEF Provisioned, Globbed, Intfs, StageInv, TypeOK
<1>. QED  BY <1>3, <1>4

\* Less than on the natural numbers, as a relation.
Less == {nn \in Nat \X Nat : nn[1] < nn[2]}

\* A set of natural numbers has a smallest element.
LEMMA SmallestOf ==
    ASSUME NEW T \in SUBSET Nat, T # {}
    PROVE  \E t \in T : \A u \in T : t <= u
<1>1. IsWellFoundedOn(Less, Nat)
  BY NatLessThanWellFounded DEF OpToRel, Less
<1>2. PICK t \in T : \A u \in T : ~(<<u, t>> \in Less)
  BY <1>1, WFMin
<1>3. ASSUME NEW u \in T PROVE t <= u
  <2>1. t \in Nat /\ u \in Nat
    OBVIOUS
  <2>2. u < t => <<u, t>> \in Less
    BY <2>1 DEF Less
  <2>. QED  BY <1>2, <2>1, <2>2
<1>. QED  BY <1>3

\* The interfaces in the range of the VM have a maximum: the one that is
\* nearest to the end of the range.
LEMMA MaxOfRange ==
    ASSUME NEW S \in SUBSET EthRange, S # {}
    PROVE  MaxOf(S) \in S /\ \A n \in S : n <= MaxOf(S)
<1>. DEFINE end == Start + NumNics
            T == {end - n : n \in S}
<1>1. end \in Nat /\ \A n \in S : n \in Nat /\ n < end
  <2>. SUFFICES ASSUME NEW n \in S PROVE end \in Nat /\ n \in Nat /\ n < end
    BY NicPlanAssumption
  <2>1. n \in EthRange
    OBVIOUS
  <2>. QED  BY <2>1, NicPlanAssumption DEF EthRange
<1>. HIDE DEF end
<1>2. T \in SUBSET Nat /\ T # {}
  BY <1>1
<1>. HIDE DEF T
<1>3. PICK t \in T : \A u \in T : t <= u
  BY <1>2, SmallestOf
<1>4. PICK m \in S : t = end - m
  BY DEF T
<1>5. ASSUME NEW n \in S PROVE n <= m
  <2>1. end - m <= end - n
    BY <1>3, <1>4 DEF T
  <2>. QED  BY <2>1, <1>1
<1>. QED  BY <1>5 DEF MaxOf

(***************************************************************************)
(* The invariant is inductive.                                              *)
(***************************************************************************)

LEMMA InitIInv == Init => IInv
<1>. SUFFICES ASSUME Init PROVE IInv
  OBVIOUS
<1>1. TypeOK
  <2>1. 0 \in 0 .. MaxUnplugs /\ Start \in Start .. Start + NumNics
    BY NicPlanAssumption
  <2>. QED  BY <2>1 DEF Init, TypeOK
<1>. QED
  BY <1>1 DEF Init, IInv, StageInv, SeenInv, DevInv, UniqueInv, FillInv, Seen

\* Type correctness is inductive: every NIC has a number and a slot.
LEMMA TypeStep == TypeOK /\ [Next]_vars => TypeOK'
<1>. SUFFICES ASSUME TypeOK, [Next]_vars PROVE TypeOK'
  OBVIOUS
<1>. USE NicPlanAssumption
<1>1. CASE GenMgmt
  BY <1>1 DEF GenMgmt, TypeOK
<1>2. CASE NothingAnnounced
  BY <1>2 DEF NothingAnnounced, TypeOK
<1>3. CASE Provisioned
  <2>1. highest' \in {0} \cup EthRange
    <3>1. CASE present \cap EthRange = {}
      BY <1>3, <3>1 DEF Provisioned, TypeOK
    <3>2. CASE present \cap EthRange # {}
      <4>1. MaxOf(present \cap EthRange) \in EthRange
        BY <3>2, MaxOfRange
      <4>. QED  BY <1>3, <3>2, <4>1 DEF Provisioned
    <3>. QED  BY <3>1, <3>2
  <2>2. i' \in Start .. Start + NumNics
    BY <1>3 DEF Provisioned
  <2>3. insufficient' \in BOOLEAN /\ missed' \subseteq topo
    BY <1>3 DEF Provisioned
  <2>4. UNCHANGED <<topo, hasMgmt, present, unplugs, numMgmt, devs>> /\ pc' = "nics"
    BY <1>3 DEF Provisioned
  <2>. QED  BY <2>1, <2>2, <2>3, <2>4 DEF TypeOK
<1>4. CASE GenNic
  <2>1. i \in Nat /\ Slot \in Nat /\ i' \in Start .. Start + NumNics
    BY <1>4 DEF GenNic, TypeOK, Slot
  <2>2. /\ Nic("data", i, Slot) \in [kind : Kinds, eth : Nat, x : Nat]
        /\ Nic("placeholder", i, Slot) \in [kind : Kinds, eth : Nat, x : Nat]
    BY <2>1 DEF Nic, Kinds
  <2>3. devs' \subseteq [kind : Kinds, eth : Nat, x : Nat]
    BY <1>4, <2>2 DEF GenNic, TypeOK
  <2>. QED  BY <1>4, <2>1, <2>3 DEF GenNic, TypeOK
<1>5. CASE EndNics
  BY <1>5 DEF EndNics, TypeOK
<1>6. CASE GenDummyNics
  <2>1. Intfs \in Nat
    BY FS_CardinalityType DEF TypeOK, Intfs
  <2>2. \A d \in 0 .. MinNics - Intfs - 1 :
            Nic("dummy", d, Intfs + 1 + d) \in [kind : Kinds, eth : Nat, x : Nat]
    BY <2>1 DEF Nic, Kinds
  <2>3. devs' \subseteq [kind : Kinds, eth : Nat, x : Nat]
    BY <1>6, <2>2 DEF GenDummyNics, TypeOK
  <2>. QED  BY <1>6, <2>3 DEF GenDummyNics, TypeOK
<1>7. CASE Restart
  BY <1>7 DEF Restart, TypeOK
<1>8. ASSUME NEW e \in topo, Plug(e) PROVE TypeOK'
  BY <1>8 DEF Plug, TypeOK, launcher
<1>9. ASSUME NEW e \in topo, Unplug(e) PROVE TypeOK'
  BY <1>9 DEF Unplug, TypeOK, launcher
<1>10. CASE UNCHANGED vars
  BY <1>10 DEF vars, launcher, TypeOK
<1>. QED
  BY <1>1, <1>2, <1>3, <1>4, <1>5, <1>6, <1>7, <1>8, <1>9, <1>10
     DEF Next, Launcher

\* Every step leaves what the next stage relies on.
LEMMA StageStep == TypeOK /\ StageInv /\ [Next]_vars => StageInv'
<1>. SUFFICES ASSUME TypeOK, StageInv, [Next]_vars
             PROVE  StageInv'
  OBVIOUS
<1>1. CASE GenMgmt
  BY <1>1 DEF GenMgmt, TypeOK, StageInv
<1>2. CASE NothingAnnounced
  BY <1>2 DEF NothingAnnounced, TypeOK, StageInv
<1>3. CASE Provisioned
  BY <1>3 DEF Provisioned, TypeOK, StageInv
<1>4. CASE GenNic
  BY <1>4 DEF GenNic, TypeOK, StageInv
<1>5. CASE EndNics
  BY <1>5 DEF EndNics, StageInv
<1>6. CASE GenDummyNics
  BY <1>6 DEF GenDummyNics, TypeOK, StageInv
<1>7. CASE Restart
  BY <1>7 DEF Restart, TypeOK, StageInv
<1>8. ASSUME NEW e \in topo, Plug(e) PROVE StageInv'
  BY <1>8 DEF Plug, launcher, TypeOK, StageInv
<1>9. ASSUME NEW e \in topo, Unplug(e) PROVE StageInv'
  BY <1>9 DEF Unplug, launcher, TypeOK, StageInv
<1>10. CASE UNCHANGED vars
  BY <1>10 DEF vars, launcher, TypeOK, StageInv
<1>. QED
  BY <1>1, <1>2, <1>3, <1>4, <1>5, <1>6, <1>7, <1>8, <1>9, <1>10
     DEF Next, Launcher

\* Every step keeps the links below highest and present, unless lost: the poll
\* that ends the wait establishes it, and no link is plugged in afterwards that
\* was not there.
LEMMA SeenStep == TypeOK /\ StageInv /\ SeenInv /\ [Next]_vars => SeenInv'
<1>. SUFFICES ASSUME TypeOK, StageInv, SeenInv, [Next]_vars
             PROVE  SeenInv'
  OBVIOUS
<1>1. CASE GenMgmt
  BY <1>1 DEF GenMgmt, TypeOK, SeenInv, Seen
<1>2. CASE NothingAnnounced
  <2>1. topo = {}
    BY <1>2, NicPlanAssumption, FS_EmptySet DEF NothingAnnounced, Intfs, TypeOK
  <2>. QED  BY <1>2, <2>1 DEF NothingAnnounced, SeenInv
<1>3. CASE Provisioned
  <2>1. present = topo
    BY <1>3, WaitSeesAll
  <2>2. CASE topo \cap EthRange = {}
    BY <1>3, <2>1, <2>2 DEF Provisioned, SeenInv
  <2>3. CASE topo \cap EthRange # {}
    <3>1. /\ MaxOf(topo \cap EthRange) \in topo
          /\ \A e \in topo \cap EthRange : e <= MaxOf(topo \cap EthRange)
      BY <2>3, MaxOfRange
    <3>. QED  BY <1>3, <2>1, <2>3, <3>1 DEF Provisioned, SeenInv
  <2>. QED  BY <2>2, <2>3
<1>4. CASE GenNic
  BY <1>4 DEF GenNic, TypeOK, SeenInv, Seen
<1>5. CASE EndNics
  BY <1>5 DEF EndNics, TypeOK, SeenInv, Seen
<1>6. CASE GenDummyNics
  BY <1>6 DEF GenDummyNics, TypeOK, SeenInv, Seen
<1>7. CASE Restart
  BY <1>7 DEF Restart, TypeOK, SeenInv, Seen
<1>8. ASSUME NEW e \in topo, Plug(e) PROVE SeenInv'
  BY <1>8 DEF Plug, launcher, TypeOK, SeenInv, Seen
<1>9. ASSUME NEW e \in topo, Unplug(e) PROVE SeenInv'
  BY <1>9 DEF Unplug, launcher, TypeOK, SeenInv, Seen
<1>10. CASE UNCHANGED vars
  BY <1>10 DEF vars, launcher, TypeOK, SeenInv, Seen
<1>. QED
  BY <1>1, <1>2, <1>3, <1>4, <1>5, <1>6, <1>7, <1>8, <1>9, <1>10
     DEF Next, Launcher

\* Every step puts new NICs where their kind says.
LEMMA DevStep == TypeOK /\ StageInv /\ DevInv /\ [Next]_vars => DevInv'
<1>. SUFFICES ASSUME TypeOK, StageInv, DevInv, [Next]_vars
             PROVE  DevInv'
  OBVIOUS
<1>1. CASE GenMgmt
  BY <1>1 DEF GenMgmt, TypeOK, StageInv, DevInv
<1>2. CASE NothingAnnounced
  BY <1>2 DEF NothingAnnounced, StageInv, DevInv
<1>3. CASE Provisioned
  BY <1>3 DEF Provisioned, StageInv, DevInv
<1>4. CASE GenNic
  <2>1. i \in Nat /\ i' = i + 1 /\ UNCHANGED <<topo, highest>>
    BY <1>4, NicPlanAssumption DEF GenNic, TypeOK
  <2>2. ASSUME NEW d \in devs', d \notin devs
        PROVE  /\ d.kind \in {"data", "placeholder"} /\ d.eth = i /\ d.x = Slot
               /\ d.kind = "data" => i \in topo
               /\ d.kind = "placeholder" => i < highest
    BY <1>4, <2>2 DEF GenNic, Nic, TypeOK
  <2>3. \A d \in devs : d.eth \in Start .. i - 1 => d.eth \in Start .. i' - 1
    BY <2>1, NicPlanAssumption
  <2>4. i \in Start .. i' - 1
    BY <2>1, NicPlanAssumption DEF TypeOK
  <2>. QED  BY <2>1, <2>2, <2>3, <2>4 DEF DevInv, Slot, Intfs
<1>5. CASE EndNics
  BY <1>5 DEF EndNics, DevInv, Intfs
<1>6. CASE GenDummyNics
  <2>1. ASSUME NEW d \in devs', d \notin devs
        PROVE  /\ d.kind = "dummy" /\ d.x = Intfs + 1 + d.eth
               /\ Intfs < d.x /\ d.x <= MinNics
    <3>1. PICK k \in 0 .. MinNics - Intfs - 1 :
              d = Nic("dummy", k, Intfs + 1 + k)
      BY <1>6, <2>1 DEF GenDummyNics
    <3>2. Intfs \in Nat
      BY NicPlanAssumption, FS_CardinalityType DEF TypeOK, Intfs
    <3>. QED  BY <3>1, <3>2, NicPlanAssumption DEF Nic
  <2>. QED  BY <1>6, <2>1 DEF GenDummyNics, DevInv, Intfs
<1>7. CASE Restart
  BY <1>7 DEF Restart, DevInv
<1>8. ASSUME NEW e \in topo, Plug(e) PROVE DevInv'
  BY <1>8 DEF Plug, launcher, DevInv, Intfs
<1>9. ASSUME NEW e \in topo, Unplug(e) PROVE DevInv'
  BY <1>9 DEF Unplug, launcher, DevInv, Intfs
<1>10. CASE UNCHANGED vars
  BY <1>10 DEF vars, launcher, DevInv, Intfs
<1>. QED
  BY <1>1, <1>2, <1>3, <1>4, <1>5, <1>6, <1>7, <1>8, <1>9, <1>10
     DEF Next, Launcher

\* The loop of gen_nics() visits a number once.
LEMMA UniqueStep == TypeOK /\ StageInv /\ DevInv /\ UniqueInv /\ [Next]_vars => UniqueInv'
<1>. SUFFICES ASSUME TypeOK, StageInv, DevInv, UniqueInv, [Next]_vars
             PROVE  UniqueInv'
  OBVIOUS
<1>1. CASE GenMgmt
  BY <1>1 DEF GenMgmt, UniqueInv
<1>2. CASE NothingAnnounced
  BY <1>2 DEF NothingAnnounced, UniqueInv
<1>3. CASE Provisioned
  BY <1>3 DEF Provisioned, UniqueInv
<1>4. CASE GenNic
  <2>1. \A n, m \in devs' \ devs : n = m /\ n.eth = i
    BY <1>4 DEF GenNic, Nic
  <2>2. \A d \in devs : d.kind # "dummy" => d.eth # i
    BY NicPlanAssumption DEF DevInv, TypeOK
  <2>. QED  BY <2>1, <2>2 DEF UniqueInv
<1>5. CASE EndNics
  BY <1>5 DEF EndNics, UniqueInv
<1>6. CASE GenDummyNics
  <2>1. \A d \in devs' : d \in devs \/ d.kind = "dummy"
    BY <1>6 DEF GenDummyNics, Nic
  <2>. QED  BY <2>1 DEF UniqueInv
<1>7. CASE Restart
  BY <1>7 DEF Restart, UniqueInv
<1>8. ASSUME NEW e \in topo, Plug(e) PROVE UniqueInv'
  BY <1>8 DEF Plug, launcher, UniqueInv
<1>9. ASSUME NEW e \in topo, Unplug(e) PROVE UniqueInv'
  BY <1>9 DEF Unplug, launcher, UniqueInv
<1>10. CASE UNCHANGED vars
  BY <1>10 DEF vars, launcher, TypeOK, StageInv, UniqueInv
<1>. QED
  BY <1>1, <1>2, <1>3, <1>4, <1>5, <1>6, <1>7, <1>8, <1>9, <1>10
     DEF Next, Launcher

\* The loop of gen_nics() passes nothing over.
LEMMA FillStep == TypeOK /\ StageInv /\ SeenInv /\ FillInv /\ [Next]_vars => FillInv'
<1>. SUFFICES ASSUME TypeOK, StageInv, SeenInv, FillInv, [Next]_vars
             PROVE  FillInv'
  OBVIOUS
<1>1. CASE GenMgmt
  BY <1>1 DEF GenMgmt, FillInv, Seen
<1>2. CASE NothingAnnounced
  <2>1. Start .. i' - 1 = {}
    BY <1>2, NicPlanAssumption DEF NothingAnnounced
  <2>. QED  BY <2>1 DEF FillInv
<1>3. CASE Provisioned
  <2>1. Start .. i' - 1 = {}
    BY <1>3, NicPlanAssumption DEF Provisioned
  <2>. QED  BY <2>1 DEF FillInv
<1>4. CASE GenNic
  <2>. SUFFICES ASSUME NEW n \in Start .. i' - 1
                PROVE  /\ n < highest => \E d \in devs' : d.kind # "dummy" /\ d.eth = n
                       /\ n \in topo \ missed =>
                              \E d \in devs' : d.kind = "data" /\ d.eth = n
    BY <1>4 DEF GenNic, FillInv, Seen
  <2>1. n \in Start .. i - 1 \/ n = i
    BY <1>4, NicPlanAssumption DEF GenNic, TypeOK
  <2>2. CASE n \in Start .. i - 1
    BY <1>4, <2>2 DEF GenNic, FillInv, Seen
  <2>3. CASE n = i
    <3>1. i \in topo \ missed => i \in present
      BY <1>4 DEF GenNic, SeenInv, Seen
    <3>2. CASE i \in present
      <4>. DEFINE d == Nic("data", i, Slot)
      <4>1. d \in devs'
        BY <1>4, <3>2 DEF GenNic
      <4>2. d.kind = "data" /\ d.eth = i
        BY DEF Nic
      <4>. QED  BY <2>3, <4>1, <4>2
    <3>3. CASE i \notin present
      <4>. DEFINE d == Nic("placeholder", i, Slot)
      <4>1. i < highest => d \in devs'
        BY <1>4, <3>3 DEF GenNic
      <4>2. d.kind = "placeholder" /\ d.eth = i
        BY DEF Nic
      <4>3. UNCHANGED <<topo, missed, highest>>
        BY <1>4 DEF GenNic
      <4>. HIDE DEF d
      <4>. QED  BY <2>3, <3>1, <3>3, <4>1, <4>2, <4>3
    <3>. QED  BY <3>2, <3>3
  <2>. QED  BY <2>1, <2>2, <2>3
<1>5. CASE EndNics
  BY <1>5 DEF EndNics, FillInv, Seen
<1>6. CASE GenDummyNics
  <2>1. devs \subseteq devs' /\ UNCHANGED <<i, highest, topo, missed>> /\ Seen
    BY <1>6 DEF GenDummyNics, Seen
  <2>. QED  BY <2>1 DEF FillInv
<1>7. CASE Restart
  BY <1>7 DEF Restart, FillInv, Seen
<1>8. ASSUME NEW e \in topo, Plug(e) PROVE FillInv'
  BY <1>8 DEF Plug, launcher, FillInv, Seen
<1>9. ASSUME NEW e \in topo, Unplug(e) PROVE FillInv'
  BY <1>9 DEF Unplug, launcher, FillInv, Seen
<1>10. CASE UNCHANGED vars
  BY <1>10 DEF vars, launcher, FillInv, Seen
<1>. QED
  BY <1>1, <1>2, <1>3, <1>4, <1>5, <1>6, <1>7, <1>8, <1>9, <1>10
     DEF Next, Launcher

(***************************************************************************)
(* The properties.                                                          *)
(***************************************************************************)

\* The inductive invariant holds in every state of every execution.
THEOREM Invariance == Spec => []IInv
<1>1. IInv /\ [Next]_vars => IInv'
  BY TypeStep, StageStep, SeenStep, DevStep, UniqueStep, FillStep DEF IInv
<1>. QED  BY <1>1, InitIInv, PTL DEF Spec

\* Type correctness, for any topology.
THEOREM TypeCorrect == Spec => []TypeOK
<1>1. IInv => TypeOK
  BY DEF IInv
<1>. QED  BY <1>1, Invariance, PTL

\* The guest's NIC number N is ethN, for every topology and every order in
\* which containerlab plugs interfaces in and takes them out.
THEOREM GuestNumberingHolds == Spec => []GuestNumbering
<1>1. IInv => GuestNumbering
  <2>. SUFFICES ASSUME IInv, pc = "up", NEW d \in devs, d.kind = "data"
                PROVE  /\ d.x = d.eth - Start + 1 + Shift
                       /\ \A y \in 1 + Shift .. d.x - 1 : \E e \in devs : e.x = y
    BY DEF GuestNumbering
  <2>1. /\ d.eth \in Start .. i - 1
        /\ d.x = d.eth - Start + 1 + Shift
        /\ d.eth \in topo
    BY DEF IInv, DevInv
  <2>2. d.eth <= highest
    <3>1. d.eth \in EthRange
      BY <2>1, NicPlanAssumption DEF EthRange, IInv, TypeOK
    <3>. QED  BY <2>1, <3>1 DEF IInv, SeenInv, Seen
  <2>3. ASSUME NEW y \in 1 + Shift .. d.x - 1 PROVE \E e \in devs : e.x = y
    <3>. DEFINE n == y + Start - 1 - Shift
    <3>1. n \in Start .. d.eth - 1 /\ n = y + Start - 1 - Shift /\ y \in Int
      BY <2>1, NicPlanAssumption
    <3>. HIDE DEF n
    <3>2. n \in Start .. i - 1 /\ n < highest
      BY <2>1, <2>2, <3>1, NicPlanAssumption DEF IInv, TypeOK, EthRange
    <3>3. PICK e \in devs : e.kind # "dummy" /\ e.eth = n
      BY <3>2 DEF IInv, FillInv, Seen
    <3>4. e.x = e.eth - Start + 1 + Shift
      BY <3>3 DEF IInv, DevInv
    <3>. QED  BY <3>1, <3>3, <3>4, NicPlanAssumption
  <2>. QED  BY <2>1, <2>3
<1>. QED  BY <1>1, Invariance, PTL

\* Every link in the VM's range that was not lost since the wait is wired.
THEOREM AllWiredHolds == Spec => []AllWired
<1>1. IInv => AllWired
  <2>. SUFFICES ASSUME IInv, pc = "up", NEW e \in (topo \cap EthRange) \ missed
                PROVE  \E d \in devs : d.kind = "data" /\ d.eth = e
    BY DEF AllWired
  <2>1. e \in Start .. i - 1
    BY NicPlanAssumption DEF IInv, StageInv, EthRange
  <2>. QED  BY <2>1 DEF IInv, FillInv, Seen
<1>. QED  BY <1>1, Invariance, PTL

\* Both together, for any topology and any order of plugging: what the guest calls
\* NIC N is the link ethN, and no link in range is left out.
THEOREM EthsWiredHolds == Spec => []EthsWired
<1>1. GuestNumbering /\ AllWired => EthsWired
  BY DEF EthsWired
<1>. QED  BY <1>1, GuestNumberingHolds, AllWiredHolds, PTL

\* The links are numbered within the first as many NICs as there are links.
Compact == \A t \in Topologies : \A e \in t : e + Shift < Start + Cardinality(t)

\* No two NICs share a slot when the image needs no more NICs than there are
\* links, or when the links are numbered without gaps: the dummies of
\* gen_dummy_nics() take slots behind the links then.
THEOREM SlotsDisjointHolds ==
    ASSUME Compact \/ \A t \in Topologies : MinNics <= Cardinality(t)
    PROVE  Spec => []SlotsDisjoint
<1>1. IInv => SlotsDisjoint
  <2>. SUFFICES ASSUME IInv, NEW d \in devs, NEW e \in devs,
                       PciBus(d.x) = PciBus(e.x), PciAddr(d.x) = PciAddr(e.x)
                PROVE  d = e
    BY DEF SlotsDisjoint
  <2>1. /\ d \in [kind : Kinds, eth : Nat, x : Nat]
        /\ e \in [kind : Kinds, eth : Nat, x : Nat]
    BY DEF IInv, TypeOK
  <2>2. d.x = e.x
    BY <2>1, SlotInjective
  <2>3. Intfs \in Nat
    BY NicPlanAssumption, FS_CardinalityType DEF IInv, TypeOK, Intfs
  <2>4. ASSUME NEW n \in devs, NEW m \in devs, n.kind # "dummy", m.kind = "dummy"
        PROVE  n.x # m.x
    <3>0. /\ n \in [kind : Kinds, eth : Nat, x : Nat]
          /\ m \in [kind : Kinds, eth : Nat, x : Nat]
      BY DEF IInv, TypeOK
    <3>1. /\ Intfs < m.x /\ m.x <= MinNics
          /\ n.eth \in Nat /\ n.x = n.eth - Start + 1 + Shift
          /\ n.eth \in topo \/ n.eth < highest
      BY <2>4, <3>0 DEF IInv, DevInv, Kinds
    <3>2. Compact
      BY <3>0, <3>1, <2>3, NicPlanAssumption DEF IInv, TypeOK, Intfs
    <3>3. n.eth + Shift < Start + Intfs
      <4>1. \A t \in topo : t + Shift < Start + Intfs
        BY <3>2 DEF Compact, IInv, TypeOK, Intfs
      <4>2. highest \in topo \/ ~(n.eth < highest)
        BY <3>1 DEF IInv, SeenInv
      <4>3. highest \in Nat
        BY NicPlanAssumption DEF IInv, TypeOK, EthRange
      <4>. QED  BY <3>1, <4>1, <4>2, <4>3, <2>3, NicPlanAssumption
    <3>. QED  BY <3>0, <3>1, <3>3, <2>3, NicPlanAssumption
  <2>5. CASE d.kind = "dummy" /\ e.kind = "dummy"
    BY <2>1, <2>2, <2>3, <2>5 DEF IInv, DevInv
  <2>6. CASE d.kind # "dummy" /\ e.kind # "dummy"
    <3>1. d.eth = e.eth
      BY <2>1, <2>2, <2>6, NicPlanAssumption DEF IInv, DevInv
    <3>. QED  BY <2>6, <3>1 DEF IInv, UniqueInv
  <2>. QED  BY <2>2, <2>4, <2>5, <2>6
<1>. QED  BY <1>1, Invariance, PTL

\* The division that finds the bus does not decrease.
LEMMA BusMonotone ==
    ASSUME NEW x \in Nat, NEW y \in Nat, x <= y
    PROVE  x \div PerBus <= y \div PerBus
<1>1. /\ PerBus \in Int /\ PerBus > 0
      /\ x \in Int /\ y \in Int /\ x <= y
      /\ x \div PerBus \in Int /\ y \div PerBus \in Int
  BY NicPlanAssumption
<1>. QED  BY ONLY <1>1, Z3

\* Every NIC is put on a bridge start() creates if the bus of the last one is
\* created and the image asks for no more NICs than the platform has.
THEOREM BusExistsHolds ==
    ASSUME PciBus(NumNics + Shift) \in Bridges, MinNics <= NumNics + Shift
    PROVE  Spec => []BusExists
<1>1. IInv => BusExists
  <2>. SUFFICES ASSUME IInv, NEW d \in devs PROVE PciBus(d.x) \in Bridges
    BY DEF BusExists
  <2>1. d.x \in Nat /\ d.x <= NumNics + Shift
    <3>1. CASE d.kind = "dummy"
      BY <3>1, NicPlanAssumption DEF IInv, DevInv, TypeOK
    <3>2. CASE d.kind # "dummy"
      BY <3>2, NicPlanAssumption DEF IInv, DevInv, TypeOK
    <3>. QED  BY <3>1, <3>2
  <2>2. d.x \div PerBus <= (NumNics + Shift) \div PerBus
    BY <2>1, BusMonotone, NicPlanAssumption
  <2>3. d.x \div PerBus \in Nat /\ (NumNics + Shift) \div PerBus \in Nat
    BY <2>1, NicPlanAssumption
  <2>4. (NumNics + PerBus - 1) \div PerBus \in Int
    BY NicPlanAssumption
  <2>. QED  BY <2>2, <2>3, <2>4 DEF PciBus, Bridges
<1>. QED  BY <1>1, Invariance, PTL

=============================================================================
