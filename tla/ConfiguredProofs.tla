-------------------------- MODULE ConfiguredProofs --------------------------
(***************************************************************************)
(* Proofs about FosCommander, continued: a guest the bootstrap calls       *)
(* healthy is configured, for any features, blocks, disks and number of    *)
(* unexpected acts of the guest.                                           *)
(***************************************************************************)
EXTENDS FortinetProofs

(***************************************************************************)
(* What a healthy bootstrap has done, as long as nothing failed.  p says   *)
(* how far the guest is: the disks it formatted and the settings it saved, *)
(* what it keeps of the block under way, and the output mode.              *)
(***************************************************************************)

\* A feature with blocks of its own is active.
Static(k) == k.active \notin {NoFeature, DiskFormat}

\* How many commands of the block were answered, and how many of the cleanup were not.
Replied(k) == Len(k.cmds) - Len(k.pending) - (IF Idle(k) THEN 0 ELSE 1)
ToRestore(k) == Len(k.cleanup) + (IF k.inCleanup THEN 1 ELSE 0)

NoInspect(b) == \A i \in 1..Len(b) : b[i] # Inspect
Neutral(b) ==
    \A i \in 1..Len(b) :
        b[i].op # "abort" /\ (b[i].op = "set" => b[i].arg \notin {"standard", "more"})

\* The first n commands of block b set what is among V.
Covered(b, n, V) ==
    \A i \in 1..n : b[i].op = "set" /\ b[i].checked => b[i].arg \in V

\* The checked settings of the blocks ahead.
StillAhead(k) == UNION {Checks(b) : b \in ToSet(k.blocks)}

\* A scope is left before the block is replayed, and for nothing else.
Aimed(k) ==
    /\ k.target # NoContext =>
           k.active # NoFeature /\ k.pending = k.cmds /\ (Idle(k) \/ k.inReset)
    /\ k.inReset => k.target # NoContext

\* The commander is ready when there is nothing left to do.
Ending(k) ==
    k.ready =>
        /\ Idle(k) /\ k.queue = <<>> /\ k.active = NoFeature /\ k.target = NoContext
        /\ k.cleanup = <<>> /\ ~k.inCleanup

\* No feature is lost, and a completed one was done.
Held(k, p) ==
    /\ ToSet(Queue) \subseteq ToSet(k.queue) \cup k.completed \cup {k.active}
    /\ DiskFormat \in k.completed => 2..(Disks + 1) \subseteq p.disks
    /\ \A f \in k.completed \ {DiskFormat} : Scoped(f) \subseteq p.saved

\* The disks before the one under way are formatted.
Behind(k, p) ==
    k.active = DiskFormat =>
        /\ 2..(k.disk - 1) \subseteq p.disks
        /\ Idle(k) /\ k.stage = "reboot" /\ k.pending = <<>> => k.disk \in p.disks

\* The settings of the active feature are saved, or in the block under way or ahead.
Account(k, p) ==
    Static(k) => Scoped(k.active) \subseteq p.saved \cup Checks(k.cmds) \cup StillAhead(k)

\* The commander alone changes the output mode, once the guest was asked for it.
Setting(k) ==
    /\ IF k.std = "set-standard" THEN k.cmds = SetStandard /\ (Idle(k) => k.pending # <<>>)
       ELSE Neutral(k.cmds)
    /\ k.std # "inspect" => NoInspect(k.cmds) /\ NoInspect(k.pending)
    /\ ~Idle(k) /\ k.inflight.cmd = Inspect => k.std = "inspect"
    /\ k.restore => k.std = "active"

\* It is to be restored, or was not changed.
Moded(k, p) == ToRestore(k) = 0 /\ ~k.restore /\ k.std # "set-standard" => p.more

\* What holds of the account at every step ...
Base(k, p) ==
    /\ Aimed(k) /\ Ending(k) /\ Held(k, p) /\ Behind(k, p) /\ Account(k, p) /\ Setting(k)
    /\ Moded(k, p)

\* A block is over when its settings are saved ...
Rested(k, p) == Static(k) /\ Idle(k) /\ k.pending = <<>> => Checks(k.cmds) \subseteq p.saved

\* ... and before that, the commands answered took effect, of a block ...
Progress(k, p) ==
    Static(k) /\ Replied(k) > 0 /\ (~Idle(k) \/ k.pending # <<>>) =>
        Covered(k.cmds, Replied(k), p.set) /\ (k.std # "set-standard" => p.clean)

\* ... or of a cleanup.
Cleaned(k, p) == (ToRestore(k) = 2 => p.two) /\ (ToRestore(k) = 1 => p.one)

Fine(k, p) == Rested(k, p) /\ Progress(k, p) /\ Cleaned(k, p)

Conf(k, p) == Base(k, p) /\ Fine(k, p)

\* The fields these are about.
ConfParts(k) ==
    <<k.queue, k.active, k.completed, k.blocks, k.stage, k.disk, k.cmds, k.pending, k.inflight,
      k.cleanup, k.inCleanup, k.inReset, k.std, k.restore, k.target, k.ready>>

LEMMA SameConf ==
    ASSUME NEW k, NEW p, NEW d, ConfParts(d) = ConfParts(k)
    PROVE  /\ Base(k, p) => Base(d, p)
           /\ Conf(k, p) => Conf(d, p)
<1>1. /\ d.queue = k.queue /\ d.active = k.active /\ d.completed = k.completed
      /\ d.blocks = k.blocks /\ d.stage = k.stage /\ d.disk = k.disk /\ d.cmds = k.cmds
      /\ d.pending = k.pending /\ d.inflight = k.inflight /\ d.cleanup = k.cleanup
      /\ d.inCleanup = k.inCleanup /\ d.inReset = k.inReset /\ d.std = k.std
      /\ d.restore = k.restore /\ d.target = k.target /\ d.ready = k.ready
  BY DEF ConfParts
<1>2. (Idle(d) <=> Idle(k)) /\ Replied(d) = Replied(k) /\ ToRestore(d) = ToRestore(k)
      /\ (Static(d) <=> Static(k)) /\ StillAhead(d) = StillAhead(k)
  BY <1>1 DEF Idle, Replied, ToRestore, Static, StillAhead
<1>3. (Aimed(k) => Aimed(d)) /\ (Ending(k) => Ending(d)) /\ (Held(k, p) => Held(d, p))
      /\ (Behind(k, p) => Behind(d, p))
  BY <1>1, <1>2 DEF Aimed, Ending, Held, Behind
<1>4. (Account(k, p) => Account(d, p)) /\ (Setting(k) => Setting(d))
      /\ (Moded(k, p) => Moded(d, p))
  BY <1>1, <1>2 DEF Account, Setting, Moded
<1>5. Fine(k, p) => Fine(d, p)
  BY <1>1, <1>2 DEF Fine, Rested, Progress, Cleaned
<1>. QED
  BY <1>3, <1>4, <1>5 DEF Conf, Base

LEMMA ConfBlocks ==
    /\ Checks(<<>>) = {} /\ SetStandard # <<>> /\ Checks(<<Inspect>>) = {}
    /\ Checks(SetStandard) = {}
    /\ NoInspect(<<>>) /\ NoInspect(SetStandard) /\ Neutral(<<>>) /\ Neutral(<<Inspect>>)
    /\ \A b \in Seq(Written) : NoInspect(b) /\ Neutral(b)
    /\ \A c : c.op \notin {"set", "abort"} =>
           Neutral(<<c>>) /\ (c # Inspect => NoInspect(<<c>>))
<1>0. \A o, a : Cmd(o, a).op = o /\ ~Cmd(o, a).checked
  BY DEF Cmd
<1>1. Len(<<>>) = 0 /\ ToSet(<<>>) = {}
  BY DEF ToSet
<1>2. Checks(<<>>) = {} /\ NoInspect(<<>>) /\ Neutral(<<>>)
  BY <1>1 DEF Checks, NoInspect, Neutral
<1>3. ASSUME NEW c PROVE Len(<<c>>) = 1 /\ <<c>>[1] = c /\ ToSet(<<c>>) = {c}
  BY DEF ToSet
<1>4. ASSUME NEW c, c.op \notin {"set", "abort"}
      PROVE  Neutral(<<c>>) /\ (c # Inspect => NoInspect(<<c>>)) /\ Checks(<<c>>) = {}
  BY <1>3, <1>4 DEF Neutral, NoInspect, Checks
<1>5. Neutral(<<Inspect>>) /\ Checks(<<Inspect>>) = {}
  BY <1>0, <1>4 DEF Inspect
<1>6. SetStandard # <<>> /\ NoInspect(SetStandard) /\ Checks(SetStandard) = {}
  <2>1. /\ Len(SetStandard) = 3 /\ SetStandard # <<>> /\ DOMAIN SetStandard = 1..3
        /\ SetStandard[1] = Cmd("config", "console") /\ SetStandard[2] = Cmd("set", "standard")
        /\ SetStandard[3] = Cmd("end", "console")
    BY ConsoleBlocks
  <2>2. \A i \in 1..3 : SetStandard[i].op # "query" /\ ~SetStandard[i].checked
    BY <1>0, <2>1
  <2>3. NoInspect(SetStandard)
    BY <1>0, <2>1, <2>2 DEF NoInspect, Inspect
  <2>4. \A c \in ToSet(SetStandard) : ~c.checked
    BY <2>1, <2>2 DEF ToSet
  <2>. QED
    BY <2>1, <2>3, <2>4 DEF Checks
<1>7. ASSUME NEW b \in Seq(Written) PROVE NoInspect(b) /\ Neutral(b)
  <2>1. \A i \in 1..Len(b) : b[i] \in Written
    BY ElementOfSeq
  <2>. QED
    BY <2>1, FosAssumption, BlocksAssumption DEF NoInspect, Neutral
<1>. QED
  BY <1>2, <1>4, <1>5, <1>6, <1>7

\* What is done of the features so far, with none of the commander's own commands left.
Kept(k, p) ==
    /\ ~k.ready /\ ~k.inReset /\ ~k.inCleanup /\ k.cleanup = <<>>
    /\ Held(k, p) /\ Moded(k, p)
    /\ k.active = DiskFormat => 2..(k.disk - 1) \subseteq p.disks
    /\ k.restore => k.std = "active"

\* Block b may be submitted.
Open(k, b, p) ==
    /\ k.active # NoFeature /\ Kept(k, p)
    /\ Static(k) => Scoped(k.active) \subseteq p.saved \cup Checks(b) \cup StillAhead(k)
    /\ IF k.std = "set-standard" THEN b = SetStandard ELSE Neutral(b)
    /\ k.std # "inspect" => NoInspect(b)
    /\ k.active = DiskFormat => b # <<>>

LEMMA SubmitBlockConf ==
    ASSUME NEW k, Good(k), Idle(k), NEW b, IsBlock(b), NEW p, Open(k, b, p)
    PROVE  Conf(SubmitBlock(k, b), p)
<1>. DEFINE d == SubmitBlock(k, b)
<1>1. /\ d.queue = k.queue /\ d.active = k.active /\ d.completed = k.completed
      /\ d.blocks = k.blocks /\ d.stage = k.stage /\ d.disk = k.disk /\ d.cmds = b
      /\ d.pending = b /\ d.inflight = k.inflight /\ d.cleanup = k.cleanup
      /\ d.inCleanup = k.inCleanup /\ d.inReset = k.inReset /\ d.std = k.std
      /\ d.restore = k.restore /\ d.target = NoContext /\ d.ready = k.ready
  BY DEF SubmitBlock, Good, Fields
<1>. HIDE DEF d
<1>2. Idle(d) /\ Replied(d) = 0 /\ ToRestore(d) = ToRestore(k) /\ (Static(d) <=> Static(k))
      /\ StillAhead(d) = StillAhead(k) /\ ToRestore(d) = 0
  <2>1. Len(b) \in Nat /\ Len(<<>>) = 0
    BY LenProperties DEF IsBlock
  <2>. QED
    BY <1>1, <2>1 DEF Idle, Replied, ToRestore, Static, StillAhead, Open, Kept
<1>3. Aimed(d) /\ Ending(d) /\ Held(d, p) /\ Behind(d, p) /\ Moded(d, p)
  BY <1>1, <1>2 DEF Open, Kept, Aimed, Ending, Held, Behind, Moded
<1>4. Account(d, p) /\ Setting(d)
  BY <1>1, <1>2, ConfBlocks DEF Open, Kept, Account, Setting
<1>5. Fine(d, p)
  BY <1>1, <1>2, ConfBlocks DEF Fine, Rested, Progress, Cleaned
<1>. QED
  BY <1>3, <1>4, <1>5 DEF Conf, Base, d

\* A block of the feature that formats disks.
LEMMA StageConf ==
    ASSUME NEW k, Good(k), Idle(k), k.active = DiskFormat, NEW p, Kept(k, p), k.std = "none",
           NEW s, NEW c \in Cmds, c.op \notin {"set", "abort"}, c # Inspect
    PROVE  Conf(SubmitBlock([k EXCEPT !.stage = s], <<c>>), p)
<1>. DEFINE d == [k EXCEPT !.stage = s]
<1>1. /\ DOMAIN d = Fields /\ Parts(d) = Parts(k)
      /\ d.queue = k.queue /\ d.active = k.active /\ d.completed = k.completed
      /\ d.disk = k.disk /\ d.inflight = k.inflight /\ d.cleanup = k.cleanup
      /\ d.inCleanup = k.inCleanup /\ d.inReset = k.inReset /\ d.std = k.std
      /\ d.restore = k.restore /\ d.ready = k.ready
  BY DEF Good, Fields, Parts
<1>. HIDE DEF d
<1>2. Good(d) /\ Idle(d)
  BY <1>1, GoodByParts DEF Idle
<1>3. Kept(d, p)
  BY <1>1 DEF Kept, Held, Moded, ToRestore
<1>4. Open(d, <<c>>, p)
  <2>1. <<c>> # <<>>
    OBVIOUS
  <2>2. Neutral(<<c>>) /\ NoInspect(<<c>>)
    BY ConfBlocks
  <2>. QED
    BY <1>1, <1>3, <2>1, <2>2 DEF Open, Static, DiskFormat, NoFeature
<1>5. IsBlock(<<c>>)
  BY BlocksOfCommands
<1>. QED
  BY <1>2, <1>4, <1>5, SubmitBlockConf DEF d

LEMMA SubmitListConf ==
    ASSUME NEW k, Good(k), Idle(k), k.active = DiskFormat, NEW p, Kept(k, p), k.std = "none"
    PROVE  Conf(SubmitList(k), p)
<1>1. Cmd("query", "disks") \in Cmds /\ Cmd("query", "disks").op = "query"
      /\ Cmd("query", "disks") # Inspect
  BY CommandsKinds DEF Cmd, Inspect
<1>. QED
  BY <1>1, StageConf DEF SubmitList

LEMMA HeadAndRest ==
    ASSUME NEW S, NEW q \in Seq(S), q # <<>>
    PROVE  ToSet(q) = {Head(q)} \cup ToSet(Tail(q))
<1>1. /\ Head(q) = q[1] /\ Len(q) \in Nat \ {0} /\ DOMAIN q = 1..Len(q)
      /\ DOMAIN Tail(q) = 1..(Len(q) - 1)
      /\ \A i \in 1..(Len(q) - 1) : Tail(q)[i] = q[i + 1]
  BY HeadTailProperties, LenProperties, EmptySeq
<1>. DEFINE h == Head(q)
            t == Tail(q)
            m == Len(q)
<1>. HIDE DEF h, t, m
<1>2. /\ h = q[1] /\ m \in Nat \ {0} /\ DOMAIN q = 1..m /\ DOMAIN t = 1..(m - 1)
      /\ \A i \in 1..(m - 1) : t[i] = q[i + 1]
  BY <1>1 DEF h, t, m
<1>3. ASSUME NEW x \in ToSet(q) PROVE x \in {h} \cup ToSet(t)
  <2>1. PICK i \in 1..m : q[i] = x
    BY <1>2 DEF ToSet
  <2>2. CASE i = 1
    BY <1>2, <2>1, <2>2
  <2>3. CASE i # 1
    <3>1. i - 1 \in 1..(m - 1) /\ (i - 1) + 1 = i
      BY <1>2, <2>1, <2>3
    <3>2. t[i - 1] = x
      BY <1>2, <2>1, <3>1
    <3>. QED
      BY <1>2, <3>1, <3>2 DEF ToSet
  <2>. QED
    BY <2>2, <2>3
<1>4. ASSUME NEW x \in {h} \cup ToSet(t) PROVE x \in ToSet(q)
  <2>1. CASE x = h
    BY <1>2, <2>1 DEF ToSet
  <2>2. CASE x \in ToSet(t)
    <3>1. PICK i \in 1..(m - 1) : t[i] = x
      BY <1>2, <2>2 DEF ToSet
    <3>2. i + 1 \in 1..m /\ q[i + 1] = x
      BY <1>2, <3>1
    <3>. QED
      BY <1>2, <3>2 DEF ToSet
  <2>. QED
    BY <2>1, <2>2
<1>. QED
  BY <1>3, <1>4 DEF h, t

\* The settings ahead are those of the next block and of the ones behind it.
LEMMA SettingsAhead ==
    ASSUME NEW q \in Seq(Seq(Written))
    PROVE  /\ q # <<>> =>
                UNION {Checks(b) : b \in ToSet(q)} =
                    Checks(Head(q)) \cup UNION {Checks(b) : b \in ToSet(Tail(q))}
           /\ q = <<>> => UNION {Checks(b) : b \in ToSet(q)} = {}
<1>1. CASE q # <<>>
  <2>1. ToSet(q) = {Head(q)} \cup ToSet(Tail(q))
    BY <1>1, HeadAndRest
  <2>. QED
    BY <1>1, <2>1
<1>2. CASE q = <<>>
  <2>1. ToSet(q) = {}
    BY <1>2 DEF ToSet
  <2>. QED
    BY <1>2, <2>1
<1>. QED
  BY <1>1, <1>2

\* The next feature is taken off the queue.
LEMMA TakeConf ==
    ASSUME NEW k, Good(k), Idle(k), Apart(k), NEW p, Base(k, p), k.cleanup = <<>>,
           ~k.inCleanup, ~k.ready, k.active = NoFeature, k.queue # <<>>, NEW a,
           a = [k EXCEPT !.active = Head(k.queue), !.queue = Tail(k.queue)]
    PROVE  /\ Good(a) /\ Idle(a) /\ a.active \in ToSet(Queue) /\ a.active = Head(k.queue)
           /\ ~a.ready /\ ~a.inReset /\ ~a.inCleanup /\ a.cleanup = <<>>
           /\ Held(a, p) /\ Moded(a, p) /\ ~a.restore /\ a.std = "none"
<1>1. /\ DOMAIN a = Fields /\ a.active = Head(k.queue) /\ a.queue = Tail(k.queue)
      /\ a.inflight = k.inflight /\ a.cleanup = k.cleanup /\ a.inCleanup = k.inCleanup
      /\ a.inReset = k.inReset /\ a.std = k.std /\ a.restore = k.restore
      /\ a.completed = k.completed /\ a.ready = k.ready
  BY DEF Good, Fields
<1>2. Good(a) /\ Idle(a) /\ a.active \in ToSet(Queue)
  BY TakeFeature DEF Silent, Idle
<1>3. ~k.inReset /\ k.std = "none" /\ ~k.restore
  BY DEF Apart, Paging, Base, Setting
<1>4. Held(a, p)
  <2>1. k.queue \in Seq(ToSet(Queue))
    BY DEF Good, Queueing
  <2>2. ToSet(k.queue) = {Head(k.queue)} \cup ToSet(Tail(k.queue))
    BY <2>1, HeadAndRest
  <2>3. NoFeature \notin ToSet(Queue)
    BY FosAssumption
  <2>. QED
    BY <1>1, <2>2, <2>3 DEF Base, Held
<1>5. Moded(a, p)
  BY <1>1, <1>3 DEF Base, Moded, ToRestore
<1>. QED
  BY <1>1, <1>2, <1>3, <1>4, <1>5

LEMMA ActivateNextFeatureConf ==
    ASSUME NEW k, Good(k), Idle(k), Apart(k), NEW p, Conf(k, p), k.cleanup = <<>>,
           ~k.inCleanup, k.target = NoContext
    PROVE  Conf(ActivateNextFeature(k), p)
<1>1. CASE k.ready \/ k.active # NoFeature \/ k.recovering
  BY <1>1 DEF ActivateNextFeature
<1>2. CASE ~(k.ready \/ k.active # NoFeature \/ k.recovering) /\ k.queue = <<>>
  <2>. DEFINE r == [k EXCEPT !.ready = TRUE]
  <2>1. ActivateNextFeature(k) = r
    BY <1>2 DEF ActivateNextFeature
  <2>2. /\ r.queue = k.queue /\ r.active = k.active /\ r.completed = k.completed
        /\ r.blocks = k.blocks /\ r.stage = k.stage /\ r.disk = k.disk /\ r.cmds = k.cmds
        /\ r.pending = k.pending /\ r.inflight = k.inflight /\ r.cleanup = k.cleanup
        /\ r.inCleanup = k.inCleanup /\ r.inReset = k.inReset /\ r.std = k.std
        /\ r.restore = k.restore /\ r.target = k.target
    BY DEF Good, Fields
  <2>. HIDE DEF r
  <2>3. (Idle(r) <=> Idle(k)) /\ Replied(r) = Replied(k) /\ ToRestore(r) = ToRestore(k)
        /\ (Static(r) <=> Static(k)) /\ StillAhead(r) = StillAhead(k)
    BY <2>2 DEF Idle, Replied, ToRestore, Static, StillAhead
  <2>4. Aimed(r) /\ Ending(r) /\ Held(r, p) /\ Behind(r, p)
    BY <1>2, <2>2, <2>3 DEF Conf, Base, Aimed, Ending, Held, Behind
  <2>5. Account(r, p) /\ Setting(r) /\ Moded(r, p)
    BY <2>2, <2>3 DEF Conf, Base, Account, Setting, Moded
  <2>6. Fine(r, p)
    BY <2>2, <2>3 DEF Conf, Fine, Rested, Progress, Cleaned
  <2>. QED
    BY <2>1, <2>4, <2>5, <2>6 DEF Conf, Base
<1>3. CASE ~(k.ready \/ k.active # NoFeature \/ k.recovering) /\ k.queue # <<>>
  <2>. DEFINE f == Head(k.queue)
              a == [k EXCEPT !.active = f, !.queue = Tail(k.queue)]
              d == [a EXCEPT !.left = Disks, !.disk = 2]
              g == [a EXCEPT !.std = "inspect", !.blocks = Blocks[f]]
              b == [a EXCEPT !.blocks = Tail(Blocks[f])]
  <2>1. ActivateNextFeature(k) =
            IF f = DiskFormat THEN SubmitList(d)
            ELSE IF f \in Paged THEN SubmitBlock(g, <<Inspect>>)
            ELSE SubmitBlock(b, Head(Blocks[f]))
    BY <1>3 DEF ActivateNextFeature
  <2>2. /\ Good(a) /\ Idle(a) /\ a.active \in ToSet(Queue) /\ a.active = f
        /\ ~a.ready /\ ~a.inReset /\ ~a.inCleanup /\ a.cleanup = <<>>
        /\ Held(a, p) /\ Moded(a, p) /\ ~a.restore /\ a.std = "none"
    BY <1>3, TakeConf DEF Conf
  <2>. HIDE DEF a, f
  <2>3. NoFeature \notin ToSet(Queue) /\ DiskFormat # NoFeature
    BY FosAssumption DEF DiskFormat, NoFeature
  <2>4. CASE f = DiskFormat
    <3>1. /\ DOMAIN d = Fields /\ d.active = a.active /\ d.inflight = a.inflight
          /\ d.cleanup = a.cleanup /\ d.inCleanup = a.inCleanup /\ d.inReset = a.inReset
          /\ d.std = a.std /\ d.disk = 2 /\ d.ready = a.ready /\ d.restore = a.restore
          /\ d.queue = a.queue /\ d.completed = a.completed
          /\ d.blocks = a.blocks /\ d.cmds = a.cmds /\ d.pending = a.pending
          /\ d.retried = a.retried
      BY <2>2 DEF Good, Fields
    <3>. HIDE DEF d
    <3>2. Good(d) /\ Idle(d)
      <4>1. Typing(d)
        BY <2>2, <3>1 DEF Good, Typing, Idle
      <4>2. Queueing(d) /\ Idle(d)
        BY <2>2, <3>1 DEF Good, Queueing, Idle
      <4>. QED
        BY <3>1, <4>1, <4>2 DEF Good, Working
    <3>3. Kept(d, p)
      <4>1. Held(d, p) /\ Moded(d, p)
        BY <2>2, <3>1 DEF Held, Moded, ToRestore
      <4>2. 2..(d.disk - 1) = {}
        BY <3>1
      <4>. QED
        BY <2>2, <3>1, <4>1, <4>2 DEF Kept
    <3>4. Conf(SubmitList(d), p)
      BY <2>2, <2>4, <3>1, <3>2, <3>3, SubmitListConf
    <3>. QED
      BY <2>1, <2>4, <3>4
  <2>5. CASE f # DiskFormat
    <3>1. Blocks[f] \in Seq(Seq(Written)) /\ (f \notin Paged => Blocks[f] # <<>>)
      BY <2>2, <2>5, FosAssumption
    <3>2. CASE f \in Paged
      <4>1. /\ DOMAIN g = Fields /\ g.std = "inspect"
            /\ g.queue = a.queue /\ g.active = a.active /\ g.completed = a.completed
            /\ g.blocks = Blocks[f] /\ g.cmds = a.cmds /\ g.pending = a.pending
            /\ g.cleanup = a.cleanup /\ g.retried = a.retried /\ g.disk = a.disk
            /\ g.inflight = a.inflight /\ g.inCleanup = a.inCleanup /\ g.inReset = a.inReset
            /\ g.ready = a.ready /\ g.restore = a.restore
        BY <2>2 DEF Good, Fields
      <4>. HIDE DEF g
      <4>2. Typing(g)
        BY <2>2, <3>1, <4>1 DEF Good, Typing, Idle
      <4>3. Queueing(g) /\ Working(g) /\ Idle(g)
        BY <2>2, <4>1 DEF Good, Queueing, Working, Idle
      <4>4. Good(g)
        BY <4>1, <4>2, <4>3 DEF Good
      <4>5. Kept(g, p)
        <5>1. Held(g, p) /\ Moded(g, p)
          BY <2>2, <4>1 DEF Held, Moded, ToRestore
        <5>. QED
          BY <2>2, <2>5, <4>1, <5>1 DEF Kept
      <4>6. Open(g, <<Inspect>>, p)
        <5>1. StillAhead(g) = Scoped(g.active)
          BY <2>2, <4>1 DEF StillAhead, Scoped
        <5>2. Neutral(<<Inspect>>)
          BY ConfBlocks
        <5>. QED
          BY <2>2, <2>3, <2>5, <4>1, <4>5, <5>1, <5>2 DEF Open
      <4>7. Conf(SubmitBlock(g, <<Inspect>>), p)
        BY <4>3, <4>4, <4>6, SubmitBlockConf, BlocksOfCommands
      <4>. QED
        BY <2>1, <2>5, <3>2, <4>7
    <3>3. CASE f \notin Paged
      <4>1. Tail(Blocks[f]) \in Seq(Seq(Written)) /\ Head(Blocks[f]) \in Seq(Written)
        BY <3>1, <3>3, HeadTailProperties
      <4>2. /\ DOMAIN b = Fields /\ b.std = a.std
            /\ b.queue = a.queue /\ b.active = a.active /\ b.completed = a.completed
            /\ b.blocks = Tail(Blocks[f]) /\ b.cmds = a.cmds /\ b.pending = a.pending
            /\ b.cleanup = a.cleanup /\ b.retried = a.retried /\ b.disk = a.disk
            /\ b.inflight = a.inflight /\ b.inCleanup = a.inCleanup /\ b.inReset = a.inReset
            /\ b.ready = a.ready /\ b.restore = a.restore
        BY <2>2 DEF Good, Fields
      <4>. HIDE DEF b
      <4>3. Typing(b)
        BY <2>2, <4>1, <4>2 DEF Good, Typing, Idle
      <4>4. Queueing(b) /\ Working(b) /\ Idle(b)
        BY <2>2, <4>2 DEF Good, Queueing, Working, Idle
      <4>5. Good(b)
        BY <4>2, <4>3, <4>4 DEF Good
      <4>6. Kept(b, p)
        <5>1. Held(b, p) /\ Moded(b, p)
          BY <2>2, <4>2 DEF Held, Moded, ToRestore
        <5>. QED
          BY <2>2, <2>5, <4>2, <5>1 DEF Kept
      <4>7. Open(b, Head(Blocks[f]), p)
        <5>1. Scoped(b.active) = Checks(Head(Blocks[f])) \cup StillAhead(b)
          BY <2>2, <3>1, <3>3, <4>2, SettingsAhead DEF StillAhead, Scoped
        <5>2. NoInspect(Head(Blocks[f])) /\ Neutral(Head(Blocks[f]))
          BY <4>1, ConfBlocks
        <5>. QED
          BY <2>2, <2>3, <2>5, <4>2, <4>6, <5>1, <5>2 DEF Open
      <4>8. IsBlock(Head(Blocks[f]))
        BY <4>1, BlocksOfCommands
      <4>9. Conf(SubmitBlock(b, Head(Blocks[f])), p)
        BY <4>4, <4>5, <4>7, <4>8, SubmitBlockConf
      <4>. QED
        BY <2>1, <2>5, <3>3, <4>9
    <3>. QED
      BY <3>2, <3>3
  <2>. QED
    BY <2>4, <2>5
<1>. QED
  BY <1>1, <1>2, <1>3

\* The active feature is done.
LEMMA FeatureCompleteConf ==
    ASSUME NEW k, Good(k), Idle(k), Apart(k), k.active # NoFeature, k.pending = <<>>,
           k.target = NoContext, NEW p, Kept(k, p), k.std # "set-standard",
           Static(k) => Scoped(k.active) \subseteq p.saved,
           k.active = DiskFormat => 2..(Disks + 1) \subseteq p.disks
    PROVE  Conf(FeatureComplete(k), p)
<1>. DEFINE s == FinishStandardOutput(k)
            w == [i \in 1..3 |-> [cmd |-> SetMore[i], again |-> FALSE]]
            d == [s EXCEPT !.completed = @ \cup {k.active}, !.active = NoFeature, !.cmds = <<>>]
<1>1. FeatureComplete(k) = IF d.cleanup = <<>> THEN ActivateNextFeature(d) ELSE d
  BY DEF FeatureComplete
<1>2. Good(d) /\ Idle(d)
  BY CompletedGood
<1>3. /\ DOMAIN s = Fields /\ s.pending = k.pending /\ s.inflight = k.inflight
      /\ s.queue = k.queue /\ s.inCleanup = k.inCleanup /\ s.inReset = k.inReset
      /\ s.std = "none" /\ s.restore = FALSE /\ s.target = k.target /\ s.ready = k.ready
      /\ s.completed = k.completed
      /\ s.cleanup = IF k.restore THEN k.cleanup \o w ELSE k.cleanup
  BY DEF FinishStandardOutput, Good, Fields
<1>. HIDE DEF s, w
<1>4. /\ d.pending = <<>> /\ d.inflight = k.inflight /\ d.queue = k.queue
      /\ d.inCleanup = k.inCleanup /\ d.inReset = k.inReset
      /\ d.std = "none" /\ d.restore = FALSE /\ d.target = NoContext /\ d.ready = k.ready
      /\ d.completed = k.completed \cup {k.active} /\ d.active = NoFeature /\ d.cmds = <<>>
      /\ d.cleanup = IF k.restore THEN k.cleanup \o w ELSE k.cleanup
  BY <1>3 DEF Fields
<1>. HIDE DEF d
<1>5. ~k.ready /\ ~k.inReset /\ ~k.inCleanup /\ k.cleanup = <<>>
  BY DEF Kept
<1>6. IF k.restore THEN ToRestore(d) = 3 ELSE ToRestore(d) = 0
  <2>1. <<>> \o w = w /\ Len(w) = 3 /\ Len(<<>>) = 0
    <3>1. w \in Seq(CleanupWork)
      BY RestoringWork DEF w
    <3>2. Len(w) = 3
      BY DEF w
    <3>. QED
      BY <3>1, <3>2, ConcatEmptySeq
  <2>. QED
    BY <1>4, <1>5, <2>1 DEF ToRestore
<1>7. NoFeature # DiskFormat /\ ~Static(d) /\ d.active # DiskFormat
  BY <1>4 DEF NoFeature, DiskFormat, Static
<1>8. Held(d, p)
  <2>1. /\ ToSet(Queue) \subseteq ToSet(k.queue) \cup k.completed \cup {k.active}
        /\ DiskFormat \in k.completed => 2..(Disks + 1) \subseteq p.disks
        /\ \A f \in k.completed \ {DiskFormat} : Scoped(f) \subseteq p.saved
    BY DEF Kept, Held
  <2>2. k.active # DiskFormat => Scoped(k.active) \subseteq p.saved
    BY DEF Static
  <2>. QED
    BY <1>4, <2>1, <2>2 DEF Held
<1>9. Moded(d, p)
  <2>1. ToRestore(k) = 0
    BY <1>5 DEF ToRestore
  <2>2. ~k.restore => p.more
    BY <2>1 DEF Kept, Moded
  <2>. QED
    BY <1>6, <2>2 DEF Moded
<1>10. Aimed(d) /\ Ending(d) /\ Behind(d, p) /\ Account(d, p)
  BY <1>4, <1>5, <1>7 DEF Aimed, Ending, Behind, Account
<1>11. Setting(d)
  BY <1>2, <1>4, ConfBlocks DEF Setting
<1>12. Fine(d, p)
  BY <1>4, <1>6, <1>7 DEF Fine, Rested, Progress, Cleaned
<1>13. Conf(d, p)
  BY <1>8, <1>9, <1>10, <1>11, <1>12 DEF Conf, Base
<1>14. Apart(d)
  BY <1>4, <1>5 DEF Apart, Paging, Idle
<1>15. d.cleanup = <<>> => Conf(ActivateNextFeature(d), p)
  BY <1>2, <1>4, <1>5, <1>13, <1>14, ActivateNextFeatureConf
<1>. QED
  BY <1>1, <1>13, <1>15

\* The next block of a feature with fixed blocks.
LEMMA SubmitNextConf ==
    ASSUME NEW k, Good(k), Idle(k), Apart(k), Static(k), k.pending = <<>>,
           k.target = NoContext, NEW p, Kept(k, p), k.std # "set-standard",
           Scoped(k.active) \subseteq p.saved \cup StillAhead(k)
    PROVE  Conf(SubmitNext(k), p)
<1>1. k.active # NoFeature /\ k.active # DiskFormat /\ k.blocks \in Seq(Seq(Written))
  BY DEF Static, Good, Typing
<1>2. CASE k.blocks = <<>>
  <2>1. StillAhead(k) = {}
    BY <1>1, <1>2, SettingsAhead DEF StillAhead
  <2>2. Scoped(k.active) \subseteq p.saved
    BY <2>1
  <2>3. Conf(FeatureComplete(k), p)
    BY <1>1, <2>2, FeatureCompleteConf
  <2>. QED
    BY <1>2, <2>3 DEF SubmitNext
<1>3. CASE k.blocks # <<>>
  <2>. DEFINE b == [k EXCEPT !.blocks = Tail(@)]
  <2>1. Tail(k.blocks) \in Seq(Seq(Written)) /\ Head(k.blocks) \in Seq(Written)
    BY <1>1, <1>3, HeadTailProperties
  <2>2. /\ DOMAIN b = Fields /\ b.std = k.std
        /\ b.queue = k.queue /\ b.active = k.active /\ b.completed = k.completed
        /\ b.blocks = Tail(k.blocks) /\ b.cmds = k.cmds /\ b.pending = k.pending
        /\ b.cleanup = k.cleanup /\ b.retried = k.retried /\ b.disk = k.disk
        /\ b.inflight = k.inflight /\ b.inCleanup = k.inCleanup /\ b.inReset = k.inReset
        /\ b.ready = k.ready /\ b.restore = k.restore
    BY DEF Good, Fields
  <2>3. SubmitNext(k) = SubmitBlock(b, Head(k.blocks))
    BY <1>3 DEF SubmitNext
  <2>. HIDE DEF b
  <2>4. Typing(b)
    BY <2>1, <2>2 DEF Good, Typing, Idle
  <2>5. Queueing(b) /\ Working(b) /\ Idle(b)
    BY <2>2 DEF Good, Queueing, Working, Idle
  <2>6. Good(b)
    BY <2>2, <2>4, <2>5 DEF Good
  <2>7. Kept(b, p)
    <3>1. Held(b, p) /\ Moded(b, p)
      BY <2>2 DEF Kept, Held, Moded, ToRestore
    <3>. QED
      BY <1>1, <2>2, <3>1 DEF Kept
  <2>8. Open(b, Head(k.blocks), p)
    <3>1. StillAhead(k) = Checks(Head(k.blocks)) \cup StillAhead(b)
      BY <1>1, <1>3, <2>2, SettingsAhead DEF StillAhead
    <3>2. NoInspect(Head(k.blocks)) /\ Neutral(Head(k.blocks))
      BY <2>1, ConfBlocks
    <3>. QED
      BY <1>1, <2>2, <2>7, <3>1, <3>2 DEF Open
  <2>9. IsBlock(Head(k.blocks))
    BY <2>1, BlocksOfCommands
  <2>. QED
    BY <2>3, <2>5, <2>6, <2>8, <2>9, SubmitBlockConf
<1>. QED
  BY <1>2, <1>3

\* Between two blocks nothing of the commander's own is left to do.
LEMMA KeptOf ==
    ASSUME NEW k, Idle(k), Apart(k), k.active # NoFeature, NEW p, Base(k, p)
    PROVE  Kept(k, p)
<1>1. ~k.ready /\ ~k.inReset /\ ~k.inCleanup /\ k.cleanup = <<>>
  BY DEF Base, Ending, Apart
<1>. QED
  BY <1>1 DEF Base, Kept, Behind, Setting

LEMMA OnBlockCompleteConf ==
    ASSUME NEW k, Good(k), Idle(k), NEW n, Disked(k, n), k.active # NoFeature,
           k.pending = <<>>, k.target = NoContext, NEW p, Conf(k, p)
    PROVE  Conf(OnBlockComplete(k), p)
<1>1. Apart(k) /\ Formatting(k) /\ Base(k, p) /\ Kept(k, p)
  BY KeptOf DEF Disked, Conf
<1>2. k.std # "set-standard"
  BY DEF Conf, Base, Setting
<1>3. CASE k.active # DiskFormat
  <2>1. Static(k)
    BY <1>3 DEF Static
  <2>2. Scoped(k.active) \subseteq p.saved \cup StillAhead(k)
    BY <2>1 DEF Conf, Base, Account, Fine, Rested
  <2>3. Conf(SubmitNext(k), p)
    BY <1>1, <1>2, <2>1, <2>2, SubmitNextConf
  <2>. QED
    BY <1>3, <2>3 DEF OnBlockComplete
<1>4. CASE k.active = DiskFormat
  <2>1. k.std = "none"
    BY <1>1, <1>4 DEF Apart, Paging
  <2>2. CASE k.stage = "restart-list"
    <3>1. Conf(SubmitList(k), p)
      BY <1>1, <1>4, <2>1, SubmitListConf
    <3>. QED
      BY <1>4, <2>2, <3>1 DEF OnBlockComplete
  <2>3. CASE k.stage = "reboot"
    <3>. DEFINE d == [k EXCEPT !.left = @ - 1, !.disk = @ + 1]
    <3>1. OnBlockComplete(k) = IF d.left = 0 THEN FeatureComplete(d) ELSE SubmitList(d)
      BY <1>4, <2>3 DEF OnBlockComplete
    <3>2. Good(d) /\ d.active = k.active /\ d.pending = k.pending
      BY NextDiskGood
    <3>3. /\ d.disk = k.disk + 1 /\ d.left = k.left - 1
          /\ d.queue = k.queue /\ d.completed = k.completed
          /\ d.inflight = k.inflight /\ d.cleanup = k.cleanup /\ d.inCleanup = k.inCleanup
          /\ d.inReset = k.inReset /\ d.std = k.std /\ d.target = k.target
          /\ d.ready = k.ready /\ d.restore = k.restore
      BY DEF Good, Fields
    <3>. HIDE DEF d
    <3>4. k.left \in Int /\ k.disk \in Nat /\ k.disk + k.left = Disks + 2 /\ Disks \in Nat
      BY <1>1, <1>4, FosAssumption DEF Formatting, Good, Typing
    <3>5. 2..(d.disk - 1) \subseteq p.disks
      <4>1. 2..(k.disk - 1) \subseteq p.disks /\ k.disk \in p.disks
        BY <1>4, <2>3 DEF Conf, Base, Behind
      <4>2. d.disk - 1 = k.disk
        BY <3>3, <3>4
      <4>3. \A i \in 2..k.disk : i \in 2..(k.disk - 1) \/ i = k.disk
        BY <3>4
      <4>. QED
        BY <4>1, <4>2, <4>3
    <3>6. Idle(d) /\ Apart(d)
      BY <1>1, <1>4, <2>1, <3>2, <3>3 DEF Idle, Apart, Paging, Kept
    <3>7. Kept(d, p)
      <4>1. Held(d, p) /\ Moded(d, p)
        BY <1>1, <3>2, <3>3 DEF Kept, Held, Moded, ToRestore
      <4>. QED
        BY <1>1, <3>3, <3>5, <4>1 DEF Kept
    <3>8. CASE d.left = 0
      <4>1. 2..(Disks + 1) \subseteq p.disks
        BY <3>3, <3>4, <3>5, <3>8
      <4>2. ~Static(d)
        BY <1>4, <3>2 DEF Static
      <4>3. Conf(FeatureComplete(d), p)
        BY <1>4, <2>1, <3>2, <3>3, <3>6, <3>7, <4>1, <4>2, FeatureCompleteConf
      <4>. QED
        BY <3>1, <3>8, <4>3
    <3>9. CASE d.left # 0
      <4>1. Conf(SubmitList(d), p)
        BY <1>4, <2>1, <3>2, <3>3, <3>6, <3>7, SubmitListConf
      <4>. QED
        BY <3>1, <3>9, <4>1
    <3>. QED
      BY <3>8, <3>9
  <2>4. CASE k.stage \notin {"restart-list", "reboot"}
    BY <1>4, <2>4 DEF OnBlockComplete
  <2>. QED
    BY <2>2, <2>3, <2>4
<1>. QED
  BY <1>3, <1>4

\* What the end of a command leaves of all this.
Loose(k, p) ==
    /\ Kept(k, p) /\ Account(k, p)
    /\ IF k.std = "set-standard" THEN k.cmds = SetStandard ELSE Neutral(k.cmds)
    /\ k.std # "inspect" => NoInspect(k.cmds) /\ NoInspect(k.pending)

\* The fields that stay when the command in flight ends.
Lasting(k) ==
    <<k.queue, k.active, k.completed, k.blocks, k.stage, k.disk, k.cmds, k.pending, k.cleanup,
      k.std, k.restore, k.target, k.ready>>

LEMMA LooseEnd ==
    ASSUME NEW k, ~Idle(k), Apart(k), k.active # NoFeature, NEW p, Base(k, p),
           NEW d, Lasting(d) = Lasting(k), ~d.inCleanup, ~d.inReset
    PROVE  Loose(d, p)
<1>1. /\ d.queue = k.queue /\ d.active = k.active /\ d.completed = k.completed
      /\ d.blocks = k.blocks /\ d.stage = k.stage /\ d.disk = k.disk /\ d.cmds = k.cmds
      /\ d.pending = k.pending /\ d.cleanup = k.cleanup /\ d.std = k.std
      /\ d.restore = k.restore /\ d.target = k.target /\ d.ready = k.ready
  BY DEF Lasting
<1>2. ~k.ready /\ k.cleanup = <<>> /\ ~k.inCleanup
  BY DEF Base, Ending, Apart
<1>3. Held(d, p) /\ (Static(d) <=> Static(k)) /\ StillAhead(d) = StillAhead(k)
  BY <1>1 DEF Base, Held, Static, StillAhead
<1>4. Moded(d, p)
  BY <1>1, <1>2 DEF Base, Moded, ToRestore
<1>5. Kept(d, p)
  BY <1>1, <1>2, <1>3, <1>4 DEF Kept, Base, Behind, Setting
<1>. QED
  BY <1>1, <1>3, <1>5 DEF Loose, Base, Account, Setting

\* The block is to be replayed.
LEMMA ReplayedConf ==
    ASSUME NEW k, Good(k), Idle(k), k.active # NoFeature, NEW p, Loose(k, p),
           k.pending = k.cmds, k.active = DiskFormat => k.stage # "reboot"
    PROVE  Conf(k, p)
<1>1. ~k.ready /\ ~k.inReset /\ ~k.inCleanup /\ k.cleanup = <<>>
  BY DEF Loose, Kept
<1>2. Replied(k) = 0 /\ ToRestore(k) = 0
  <2>1. Len(k.cmds) \in Nat /\ Len(<<>>) = 0
    BY LenProperties DEF Good, Typing, IsBlock
  <2>2. Replied(k) = Len(k.cmds) - Len(k.cmds) - 0
    BY DEF Replied
  <2>3. ToRestore(k) = Len(<<>>) + 0
    BY <1>1 DEF ToRestore
  <2>. QED
    BY <2>1, <2>2, <2>3
<1>3. Aimed(k) /\ Ending(k) /\ Held(k, p) /\ Moded(k, p) /\ Behind(k, p) /\ Account(k, p)
  BY <1>1 DEF Loose, Kept, Aimed, Ending, Behind
<1>4. Setting(k)
  BY ConfBlocks DEF Loose, Kept, Setting
<1>5. Fine(k, p)
  BY <1>2, ConfBlocks DEF Fine, Rested, Progress, Cleaned
<1>. QED
  BY <1>3, <1>4, <1>5 DEF Conf, Base

LEMMA RestartBlockConf ==
    ASSUME NEW k, Good(k), Idle(k), k.active # NoFeature, NEW p, Loose(k, p), NEW attempt,
           attempt.index \in Nat, k.active = DiskFormat => k.stage # "reboot"
    PROVE  LET x == RestartBlock(k, attempt)
           IN  /\ x.ready = k.ready
               /\ x.error \/ x.raised \/ Conf(x, p)
<1>. DEFINE x == RestartBlock(k, attempt)
            d == [k EXCEPT !.retried = @ \cup {attempt.index}, !.pending = k.cmds,
                           !.target = k.blockCtx, !.resetTried = FALSE]
<1>1. x = WorkError(k) \/ x = d
  BY DEF RestartBlock
<1>2. Good(x)
  BY RestartBlockGood
<1>. HIDE DEF x
<1>3. CASE x = WorkError(k)
  <2>1. x.ready = k.ready
    BY <1>3 DEF WorkError, Raise, Good, Fields
  <2>. QED
    BY <1>3, <2>1, WorkErrorGivesUp DEF x
<1>4. CASE x = d
  <2>1. /\ x.queue = k.queue /\ x.active = k.active /\ x.completed = k.completed
        /\ x.blocks = k.blocks /\ x.stage = k.stage /\ x.disk = k.disk /\ x.cmds = k.cmds
        /\ x.pending = k.cmds /\ x.inflight = k.inflight /\ x.cleanup = k.cleanup
        /\ x.inCleanup = k.inCleanup /\ x.inReset = k.inReset /\ x.std = k.std
        /\ x.restore = k.restore /\ x.ready = k.ready
    BY <1>4 DEF Good, Fields
  <2>2. Idle(x) /\ (Static(x) <=> Static(k)) /\ StillAhead(x) = StillAhead(k)
    BY <2>1 DEF Idle, Static, StillAhead
  <2>3. Kept(x, p)
    BY <2>1 DEF Loose, Kept, Held, Moded, ToRestore
  <2>4. Loose(x, p)
    BY <2>1, <2>2, <2>3 DEF Loose, Account
  <2>. QED
    BY <1>2, <2>1, <2>2, <2>4, ReplayedConf DEF x
<1>. QED
  BY <1>1, <1>3, <1>4

LEMMA CompleteStandardOutputConf ==
    ASSUME NEW k, Good(k), Idle(k), Apart(k), Static(k), k.pending = <<>>,
           k.target = NoContext, NEW p, Kept(k, p), ~k.restore, NEW attempt, NEW e,
           attempt.cmd = Inspect => k.std = "inspect",
           Scoped(k.active) \subseteq p.saved \cup StillAhead(k)
    PROVE  Conf(CompleteStandardOutput(k, attempt, e), p)
<1>. DEFINE s == [k EXCEPT !.std = "set-standard"]
            a == [k EXCEPT !.std = "active", !.restore = attempt.cmd # Inspect]
<1>1. CompleteStandardOutput(k, attempt, e) =
          IF attempt.cmd = Inspect /\ ~e.failed /\ e.mode = "more"
          THEN SubmitBlock(s, SetStandard) ELSE SubmitNext(a)
  BY DEF CompleteStandardOutput
<1>2. k.active # NoFeature /\ k.active # DiskFormat
  BY DEF Static
<1>3. Conf(SubmitBlock(s, SetStandard), p)
  <2>1. /\ DOMAIN s = Fields /\ Parts(s) = Parts(k) /\ s.std = "set-standard"
        /\ s.restore = k.restore /\ s.ready = k.ready
    BY DEF Good, Fields, Parts
  <2>2. /\ s.queue = k.queue /\ s.active = k.active /\ s.completed = k.completed
        /\ s.blocks = k.blocks /\ s.cleanup = k.cleanup /\ s.disk = k.disk
        /\ s.inflight = k.inflight /\ s.inCleanup = k.inCleanup /\ s.inReset = k.inReset
    BY <2>1 DEF Parts
  <2>. HIDE DEF s
  <2>3. Good(s) /\ Idle(s)
    BY <2>1, <2>2, GoodByParts DEF Idle
  <2>4. Kept(s, p)
    BY <2>1, <2>2 DEF Kept, Held, Moded
  <2>5. Open(s, SetStandard, p)
    <3>1. NoInspect(SetStandard) /\ StillAhead(s) = StillAhead(k)
      BY <2>2, ConfBlocks DEF StillAhead
    <3>. QED
      BY <1>2, <2>1, <2>2, <2>4, <3>1 DEF Open
  <2>. QED
    BY <2>3, <2>5, SubmitBlockConf, BlocksOfCommands
<1>4. ~(attempt.cmd = Inspect /\ ~e.failed /\ e.mode = "more") => Conf(SubmitNext(a), p)
  <2>1. /\ DOMAIN a = Fields /\ Parts(a) = Parts(k) /\ a.std = "active"
        /\ a.restore = (attempt.cmd # Inspect) /\ a.ready = k.ready /\ a.target = k.target
    BY DEF Good, Fields, Parts
  <2>2. /\ a.queue = k.queue /\ a.active = k.active /\ a.completed = k.completed
        /\ a.blocks = k.blocks /\ a.cleanup = k.cleanup /\ a.disk = k.disk
        /\ a.pending = k.pending
        /\ a.inflight = k.inflight /\ a.inCleanup = k.inCleanup /\ a.inReset = k.inReset
    BY <2>1 DEF Parts
  <2>. HIDE DEF a
  <2>3. Good(a) /\ Idle(a) /\ Static(a) /\ StillAhead(a) = StillAhead(k)
    BY <2>1, <2>2, GoodByParts DEF Idle, Static, StillAhead
  <2>4. Apart(a)
    BY <1>2, <2>1, <2>2, <2>3 DEF Apart, Paging, Kept
  <2>5. Kept(a, p)
    <3>1. Moded(a, p)
      BY <2>1, <2>2 DEF Kept, Moded, ToRestore
    <3>. QED
      BY <2>1, <2>2, <3>1 DEF Kept, Held
  <2>. QED
    BY <2>1, <2>2, <2>3, <2>4, <2>5, SubmitNextConf
<1>. HIDE DEF s, a
<1>. QED
  BY <1>1, <1>3, <1>4

\* The feature is told of the answer e.
LEMMA OnCommandExecutedConf ==
    ASSUME NEW k, Good(k), Idle(k), k.active # NoFeature, NEW p, Loose(k, p), NEW e,
           Apart(k), k.active # DiskFormat => Conf(k, p),
           k.active = DiskFormat => k.stage \in {"list", "format", "reboot"},
           k.active = DiskFormat /\ k.stage = "reboot" /\ e.st = "rebooting" => Conf(k, p)
    PROVE  LET x == OnCommandExecuted(k, e)
           IN  /\ ~x.ready /\ (x.error \/ x.raised \/ Conf(x, p))
               /\ ToRestore(x) = 0 /\ (k.target = NoContext => x.target = NoContext)
<1>0. Kept(k, p) /\ ~k.ready /\ ToRestore(k) = 0
  BY DEF Loose, Kept, ToRestore
<1>1. /\ WorkError(k).ready = k.ready /\ WorkError(k).target = k.target
      /\ ToRestore(WorkError(k)) = 0
      /\ WorkError(k).error \/ WorkError(k).raised
  <2>1. /\ WorkError(k).ready = k.ready /\ WorkError(k).target = k.target
        /\ WorkError(k).cleanup = k.cleanup /\ WorkError(k).inCleanup = k.inCleanup
    BY DEF WorkError, Raise, Good, Fields
  <2>2. ToRestore(WorkError(k)) = ToRestore(k)
    BY <2>1 DEF ToRestore
  <2>. QED
    BY <1>0, <2>1, <2>2, WorkErrorGivesUp
<1>2. CASE k.active # DiskFormat
  BY <1>0, <1>1, <1>2 DEF OnCommandExecuted
<1>3. CASE k.active = DiskFormat
  <2>. DEFINE f == SubmitBlock([k EXCEPT !.stage = "format"], <<FormatSpec(k.disk)>>)
              y == SubmitBlock([k EXCEPT !.stage = "reboot"], <<YesSpec(k.disk)>>)
              x == OnCommandExecuted(k, e)
  <2>1. x \in {WorkError(k), f, y} \/ (x = k /\ k.stage = "reboot" /\ e.st = "rebooting")
    BY <1>3 DEF OnCommandExecuted, FormatSpec, YesSpec
  <2>2. k.std = "none" /\ k.disk \in Nat
    BY <1>3 DEF Apart, Paging, Good, Typing
  <2>3. /\ FormatSpec(k.disk) \in Cmds /\ FormatSpec(k.disk) # Inspect
        /\ FormatSpec(k.disk).op \notin {"set", "abort"}
        /\ YesSpec(k.disk) \in Cmds /\ YesSpec(k.disk) # Inspect
        /\ YesSpec(k.disk).op \notin {"set", "abort"}
    BY <2>2, CommandsKinds DEF FormatSpec, YesSpec, Cmd
  <2>4. Conf(f, p) /\ Conf(y, p)
    BY <1>0, <1>3, <2>2, <2>3, StageConf
  <2>5. ~f.ready /\ ~y.ready
    BY <1>0 DEF SubmitBlock, Good, Fields
  <2>6. /\ f.target = NoContext /\ f.cleanup = k.cleanup /\ f.inCleanup = k.inCleanup
        /\ y.target = NoContext /\ y.cleanup = k.cleanup /\ y.inCleanup = k.inCleanup
    BY DEF SubmitBlock, Good, Fields
  <2>. HIDE DEF f, y, x
  <2>7. ToRestore(f) = 0 /\ ToRestore(y) = 0
    BY <1>0, <2>6 DEF ToRestore
  <2>. QED
    BY <1>0, <1>1, <1>3, <2>1, <2>4, <2>5, <2>6, <2>7 DEF x
<1>. QED
  BY <1>2, <1>3

LEMMA SubmittedCleanup ==
    ASSUME NEW d, DOMAIN d = Fields
    PROVE  /\ \A b : /\ SubmitBlock(d, b).target = NoContext
                     /\ SubmitBlock(d, b).cleanup = d.cleanup
                     /\ SubmitBlock(d, b).inCleanup = d.inCleanup
           /\ SubmitList(d).target = NoContext /\ SubmitList(d).cleanup = d.cleanup
           /\ SubmitList(d).inCleanup = d.inCleanup
<1>1. ASSUME NEW g, DOMAIN g = Fields, NEW b
      PROVE  /\ SubmitBlock(g, b).target = NoContext /\ SubmitBlock(g, b).cleanup = g.cleanup
             /\ SubmitBlock(g, b).inCleanup = g.inCleanup
  BY <1>1 DEF SubmitBlock, Fields
<1>2. /\ SubmitList(d).target = NoContext /\ SubmitList(d).cleanup = d.cleanup
      /\ SubmitList(d).inCleanup = d.inCleanup
  <2>1. /\ DOMAIN [d EXCEPT !.stage = "list"] = Fields
        /\ [d EXCEPT !.stage = "list"].inCleanup = d.inCleanup
        /\ [d EXCEPT !.stage = "list"].cleanup = d.cleanup
    BY DEF Fields
  <2>. QED
    BY <1>1, <2>1 DEF SubmitList
<1>. QED
  BY <1>1, <1>2

LEMMA ActivateNextFeatureAims ==
    ASSUME NEW k, Good(k)
    PROVE  /\ k.target = NoContext => ActivateNextFeature(k).target = NoContext
           /\ ActivateNextFeature(k).inCleanup = k.inCleanup
           /\ ActivateNextFeature(k).cleanup = k.cleanup
<1>. DEFINE f == Head(k.queue)
            a == [k EXCEPT !.active = f, !.queue = Tail(k.queue)]
            d == [a EXCEPT !.left = Disks, !.disk = 2]
            g == [a EXCEPT !.std = "inspect", !.blocks = Blocks[f]]
            b == [a EXCEPT !.blocks = Tail(Blocks[f])]
            r == [k EXCEPT !.ready = TRUE]
<1>1. /\ DOMAIN d = Fields /\ DOMAIN g = Fields /\ DOMAIN b = Fields /\ r.target = k.target
      /\ d.inCleanup = k.inCleanup /\ g.inCleanup = k.inCleanup /\ b.inCleanup = k.inCleanup
      /\ r.inCleanup = k.inCleanup
      /\ d.cleanup = k.cleanup /\ g.cleanup = k.cleanup /\ b.cleanup = k.cleanup
      /\ r.cleanup = k.cleanup
  BY DEF Good, Fields
<1>2. ActivateNextFeature(k) \in {k, r, SubmitList(d), SubmitBlock(g, <<Inspect>>),
                                  SubmitBlock(b, Head(Blocks[f]))}
  BY DEF ActivateNextFeature
<1>. HIDE DEF f, a, d, g, b, r
<1>. QED
  BY <1>1, <1>2, SubmittedCleanup

LEMMA DispatchWorkConf ==
    ASSUME NEW k, Good(k), Idle(k), NEW n, Disked(k, n), ~k.inCleanup, k.target = NoContext,
           NEW p, Conf(k, p)
    PROVE  Conf(DispatchWork(k), p)
<1>. DEFINE a == IF k.cleanup = <<>> /\ k.active = NoFeature THEN ActivateNextFeature(k) ELSE k
            c == [a EXCEPT !.cleanup = Tail(@), !.inCleanup = TRUE]
            g == [a EXCEPT !.pending = Tail(@), !.inCleanup = FALSE]
            z == DispatchWork(k)
<1>1. z = IF a.cleanup # <<>>
          THEN Dispatch(c, Head(a.cleanup).cmd, 0, Head(a.cleanup).again)
          ELSE IF a.active = NoFeature THEN a
          ELSE IF a.pending = <<>> THEN OnBlockComplete(a)
          ELSE Dispatch(g, Head(a.pending), Len(a.cmds) - Len(a.pending) + 1, FALSE)
  BY DEF DispatchWork
<1>2. Good(a) /\ Silent(k, a) /\ Disked(a, n)
  BY ActivateNextFeatureGood, ActivateNextFeatureDisked DEF Silent
<1>3. Conf(a, p) /\ a.target = NoContext
  BY ActivateNextFeatureConf, ActivateNextFeatureAims DEF Disked
<1>. HIDE DEF a, z
<1>4. Idle(a) /\ DOMAIN a = Fields /\ ~a.inReset
  BY <1>2 DEF Silent, Idle, Good, Disked, Apart
<1>5. CASE a.cleanup # <<>>
  <2>. DEFINE h == Head(a.cleanup)
  <2>1. /\ h \in CleanupWork /\ Len(Tail(a.cleanup)) = Len(a.cleanup) - 1
        /\ Len(a.cleanup) \in Nat
    BY <1>2, <1>5, HeadTailProperties, LenProperties DEF Good, Typing
  <2>2. z = Dispatch(c, h.cmd, 0, h.again) /\ a.active = NoFeature
    BY <1>1, <1>2, <1>5 DEF Disked, Apart
  <2>. HIDE DEF h
  <2>3. /\ z.queue = a.queue /\ z.active = a.active /\ z.completed = a.completed
        /\ z.blocks = a.blocks /\ z.stage = a.stage
        /\ z.disk = a.disk /\ z.cmds = a.cmds /\ z.pending = a.pending
        /\ z.inflight.cmd = h.cmd /\ z.cleanup = Tail(a.cleanup) /\ z.inCleanup = TRUE
        /\ z.inReset = a.inReset /\ z.std = a.std /\ z.restore = a.restore
        /\ z.target = a.target /\ z.ready = a.ready
    BY <1>4, <2>2 DEF Dispatch, Fields
  <2>4. ~Idle(z) /\ h.cmd # Inspect
    <3>1. h.cmd \in Cmds /\ h.cmd # Inspect
      BY <2>1 DEF CleanupWork
    <3>. QED
      BY <2>3, <3>1, InFlight
  <2>5. ~Static(z) /\ z.active # DiskFormat
    BY <2>2, <2>3 DEF Static, DiskFormat, NoFeature
  <2>6. ~a.inCleanup
    <3>1. ActivateNextFeature(k).inCleanup = k.inCleanup
      BY ActivateNextFeatureAims
    <3>. QED
      BY <3>1 DEF a
  <2>7. ToRestore(z) = ToRestore(a)
    <3>1. ToRestore(z) = Len(Tail(a.cleanup)) + 1 /\ ToRestore(a) = Len(a.cleanup) + 0
      BY <2>3, <2>6 DEF ToRestore
    <3>. QED
      BY <2>1, <3>1
  <2>8. Aimed(z) /\ Ending(z) /\ Held(z, p) /\ Behind(z, p) /\ Account(z, p)
    <3>1. ~a.ready
      BY <1>3, <1>5 DEF Conf, Base, Ending
    <3>2. Held(z, p)
      BY <1>3, <2>3 DEF Conf, Base, Held
    <3>. QED
      BY <1>3, <1>4, <2>3, <2>5, <3>1, <3>2 DEF Aimed, Ending, Behind, Account
  <2>9. Setting(z)
    <3>1. a.std # "set-standard"
      BY <1>2, <2>2 DEF Disked, Apart, Paging
    <3>. QED
      BY <1>3, <2>3, <2>4, <3>1 DEF Conf, Base, Setting
  <2>10. Moded(z, p) /\ Fine(z, p)
    <3>1. Moded(z, p)
      BY <1>3, <2>3, <2>7 DEF Conf, Base, Moded
    <3>2. Cleaned(z, p)
      BY <1>3, <2>7 DEF Conf, Fine, Cleaned
    <3>. QED
      BY <2>5, <3>1, <3>2 DEF Fine, Rested, Progress
  <2>. QED
    BY <2>8, <2>9, <2>10 DEF Conf, Base, z
<1>6. CASE a.cleanup = <<>> /\ a.active = NoFeature
  BY <1>1, <1>3, <1>6 DEF z
<1>7. CASE a.cleanup = <<>> /\ a.active # NoFeature /\ a.pending = <<>>
  <2>1. Conf(OnBlockComplete(a), p)
    BY <1>2, <1>3, <1>4, <1>7, OnBlockCompleteConf
  <2>. QED
    BY <1>1, <1>7, <2>1 DEF z
<1>8. CASE a.cleanup = <<>> /\ a.active # NoFeature /\ a.pending # <<>>
  <2>. DEFINE x == Head(a.pending)
              i == Len(a.cmds) - Len(a.pending) + 1
  <2>1. /\ x \in Cmds
        /\ Len(Tail(a.pending)) = Len(a.pending) - 1
        /\ Len(a.pending) \in Nat /\ Len(a.cmds) \in Nat
        /\ NoInspect(a.pending) => x # Inspect /\ NoInspect(Tail(a.pending))
    <3>. DEFINE b == a.pending
                t == Tail(a.pending)
                m == Len(a.pending)
    <3>1. b \in Seq(Cmds) /\ b # <<>> /\ a.cmds \in Seq(Cmds)
      BY <1>2, <1>8 DEF Good, Typing, IsBlock
    <3>2. /\ Head(b) \in Cmds /\ Head(b) = b[1] /\ m \in Nat \ {0} /\ Len(t) = m - 1
          /\ \A j \in 1..(m - 1) : t[j] = b[j + 1]
          /\ Len(a.cmds) \in Nat
      BY <3>1, HeadTailProperties, EmptySeq, LenProperties
    <3>. HIDE DEF b, t, m
    <3>3. NoInspect(b) => b[1] # Inspect /\ \A j \in 1..(m - 1) : t[j] # Inspect
      <4>1. NoInspect(b) => \A j \in 1..m : b[j] # Inspect
        BY DEF NoInspect, m, b
      <4>. QED
        BY <3>2, <4>1
    <3>4. NoInspect(b) => NoInspect(t)
      BY <3>2, <3>3 DEF NoInspect
    <3>. QED
      BY <3>2, <3>3, <3>4 DEF b, t, m
  <2>2. z = Dispatch(g, x, i, FALSE)
    BY <1>1, <1>8
  <2>. HIDE DEF x, i
  <2>3. /\ z.queue = a.queue /\ z.active = a.active /\ z.completed = a.completed
        /\ z.blocks = a.blocks /\ z.stage = a.stage
        /\ z.disk = a.disk /\ z.cmds = a.cmds /\ z.pending = Tail(a.pending)
        /\ z.inflight.cmd = x /\ z.cleanup = a.cleanup /\ z.inCleanup = FALSE
        /\ z.inReset = a.inReset /\ z.std = a.std /\ z.restore = a.restore
        /\ z.target = a.target /\ z.ready = a.ready
    BY <1>4, <2>2 DEF Dispatch, Fields
  <2>4. ~Idle(z) /\ (Static(z) <=> Static(a)) /\ StillAhead(z) = StillAhead(a)
    BY <2>1, <2>3, InFlight DEF Static, StillAhead
  <2>5. ~a.inCleanup /\ ~a.ready
    BY <1>2, <1>3, <1>8 DEF Disked, Apart, Conf, Base, Ending
  <2>6. ToRestore(z) = ToRestore(a)
    BY <2>3, <2>5 DEF ToRestore
  <2>7. Replied(z) = Replied(a)
    <3>1. /\ Replied(z) = Len(a.cmds) - Len(Tail(a.pending)) - 1
          /\ Replied(a) = Len(a.cmds) - Len(a.pending) - 0
      BY <1>4, <2>3, <2>4 DEF Replied
    <3>. DEFINE u == Len(a.cmds)
                v == Len(a.pending)
                w == Len(Tail(a.pending))
    <3>2. w = v - 1 /\ u \in Nat /\ v \in Nat
      BY <2>1
    <3>3. Replied(z) = u - w - 1 /\ Replied(a) = u - v - 0
      BY <3>1
    <3>. HIDE DEF u, v, w
    <3>. QED
      BY <3>2, <3>3
  <2>8. Aimed(z) /\ Ending(z) /\ Held(z, p) /\ Behind(z, p)
    <3>1. Held(z, p)
      BY <1>3, <2>3 DEF Conf, Base, Held
    <3>2. Behind(z, p)
      BY <1>3, <2>3, <2>4 DEF Conf, Base, Behind
    <3>. QED
      BY <1>3, <1>4, <2>3, <2>5, <3>1, <3>2 DEF Aimed, Ending
  <2>9. Account(z, p)
    BY <1>3, <2>3, <2>4 DEF Conf, Base, Account
  <2>10. Setting(z)
    BY <1>3, <2>1, <2>3, <2>4 DEF Conf, Base, Setting
  <2>11. Moded(z, p)
    BY <1>3, <2>3, <2>6 DEF Conf, Base, Moded
  <2>12. Rested(z, p) /\ Cleaned(z, p)
    BY <1>3, <2>4, <2>6 DEF Conf, Fine, Rested, Cleaned
  <2>13. Progress(z, p)
    BY <1>3, <1>8, <2>3, <2>4, <2>7 DEF Conf, Fine, Progress
  <2>. QED
    BY <2>8, <2>9, <2>10, <2>11, <2>12, <2>13 DEF Conf, Base, Fine, z
<1>. QED
  BY <1>5, <1>6, <1>7, <1>8

\* The output mode is restored by three commands, or by none.
LEMMA OnBlockCompleteWhole ==
    ASSUME NEW k, Good(k), Idle(k), k.active # NoFeature, k.cleanup = <<>>, ~k.inCleanup,
           k.pending = <<>>
    PROVE  /\ ToRestore(FeatureComplete(k)) \in {0, 3}
           /\ ToRestore(SubmitNext(k)) \in {0, 3}
           /\ ToRestore(OnBlockComplete(k)) \in {0, 3}
<1>0. ASSUME NEW d, d.cleanup = <<>>, ~d.inCleanup
      PROVE  ToRestore(d) = 0
  BY <1>0 DEF ToRestore
<1>1. ASSUME NEW g, Good(g), Idle(g), g.active # NoFeature, g.cleanup = <<>>, ~g.inCleanup,
             g.pending = <<>>
      PROVE  ToRestore(FeatureComplete(g)) \in {0, 3}
  <2>. DEFINE s == FinishStandardOutput(g)
              w == [i \in 1..3 |-> [cmd |-> SetMore[i], again |-> FALSE]]
              d == [s EXCEPT !.completed = @ \cup {g.active}, !.active = NoFeature,
                             !.cmds = <<>>]
  <2>1. FeatureComplete(g) = IF d.cleanup = <<>> THEN ActivateNextFeature(d) ELSE d
    BY DEF FeatureComplete
  <2>2. Good(d) /\ Idle(d)
    BY <1>1, CompletedGood
  <2>3. /\ DOMAIN s = Fields /\ s.inCleanup = g.inCleanup /\ s.target = g.target
        /\ s.cleanup = IF g.restore THEN g.cleanup \o w ELSE g.cleanup
    BY <1>1 DEF FinishStandardOutput, Good, Fields
  <2>. HIDE DEF s, w
  <2>4. /\ d.inCleanup = g.inCleanup /\ d.target = g.target
        /\ d.cleanup = IF g.restore THEN g.cleanup \o w ELSE g.cleanup
    BY <2>3 DEF Fields
  <2>. HIDE DEF d
  <2>5. <<>> \o w = w /\ Len(w) = 3
    <3>1. w \in Seq(CleanupWork)
      BY RestoringWork DEF w
    <3>2. Len(w) = 3
      BY DEF w
    <3>. QED
      BY <3>1, <3>2, ConcatEmptySeq
  <2>6. d.cleanup = <<>> \/ d.cleanup = w
    BY <1>1, <2>4, <2>5
  <2>7. CASE d.cleanup = <<>>
    <3>1. /\ ActivateNextFeature(d).cleanup = d.cleanup
          /\ ActivateNextFeature(d).inCleanup = d.inCleanup
      BY <2>2, ActivateNextFeatureAims
    <3>. QED
      BY <1>0, <1>1, <2>1, <2>4, <2>7, <3>1
  <2>8. CASE d.cleanup # <<>>
    <3>1. ToRestore(d) = 3 + 0
      BY <1>1, <2>4, <2>5, <2>6, <2>8 DEF ToRestore
    <3>. QED
      BY <2>1, <2>8, <3>1
  <2>. QED
    BY <2>7, <2>8
<1>2. ToRestore(SubmitNext(k)) \in {0, 3}
  <2>. DEFINE b == [k EXCEPT !.blocks = Tail(@)]
  <2>1. DOMAIN b = Fields /\ b.cleanup = k.cleanup /\ b.inCleanup = k.inCleanup
    BY DEF Good, Fields
  <2>2. SubmitNext(k) = FeatureComplete(k) \/ SubmitNext(k) = SubmitBlock(b, Head(k.blocks))
    BY DEF SubmitNext
  <2>. HIDE DEF b
  <2>. QED
    BY <1>0, <1>1, <2>1, <2>2, SubmittedCleanup
<1>3. ToRestore(OnBlockComplete(k)) \in {0, 3}
  <2>. DEFINE d == [k EXCEPT !.left = @ - 1, !.disk = @ + 1]
  <2>1. DOMAIN d = Fields /\ d.cleanup = k.cleanup /\ d.inCleanup = k.inCleanup
        /\ d.inflight = k.inflight /\ DOMAIN k = Fields
    BY DEF Good, Fields
  <2>2. Good(d) /\ d.active = k.active /\ d.pending = k.pending
    BY NextDiskGood
  <2>3. OnBlockComplete(k) \in {SubmitNext(k), SubmitList(k), FeatureComplete(d),
                                SubmitList(d), k}
    BY DEF OnBlockComplete
  <2>. HIDE DEF d
  <2>4. ToRestore(FeatureComplete(d)) \in {0, 3}
    BY <1>1, <2>1, <2>2 DEF Idle
  <2>5. ToRestore(SubmitList(k)) = 0 /\ ToRestore(SubmitList(d)) = 0 /\ ToRestore(k) = 0
    BY <1>0, <2>1, SubmittedCleanup
  <2>. QED
    BY <1>2, <2>3, <2>4, <2>5
<1>. QED
  BY <1>1, <1>2, <1>3

LEMMA DispatchWorkWhole ==
    ASSUME NEW k, Good(k), Idle(k), ~k.inCleanup
    PROVE  Idle(DispatchWork(k)) => ToRestore(DispatchWork(k)) \in {0, 3}
<1>. DEFINE a == IF k.cleanup = <<>> /\ k.active = NoFeature THEN ActivateNextFeature(k) ELSE k
            c == [a EXCEPT !.cleanup = Tail(@), !.inCleanup = TRUE]
            g == [a EXCEPT !.pending = Tail(@), !.inCleanup = FALSE]
            z == DispatchWork(k)
<1>1. z = IF a.cleanup # <<>>
          THEN Dispatch(c, Head(a.cleanup).cmd, 0, Head(a.cleanup).again)
          ELSE IF a.active = NoFeature THEN a
          ELSE IF a.pending = <<>> THEN OnBlockComplete(a)
          ELSE Dispatch(g, Head(a.pending), Len(a.cmds) - Len(a.pending) + 1, FALSE)
  BY DEF DispatchWork
<1>2. Good(a) /\ Silent(k, a) /\ a.inCleanup = k.inCleanup
  BY ActivateNextFeatureGood, ActivateNextFeatureAims DEF Silent
<1>. HIDE DEF a, z
<1>3. Idle(a) /\ DOMAIN a = Fields
  BY <1>2 DEF Silent, Idle, Good
<1>4. CASE a.cleanup # <<>>
  <2>1. Head(a.cleanup) \in CleanupWork
    BY <1>2, <1>4, HeadTailProperties DEF Good, Typing
  <2>2. z.inflight.cmd = Head(a.cleanup).cmd
    BY <1>1, <1>3, <1>4 DEF Dispatch, Fields
  <2>3. ~Idle(z)
    BY <2>1, <2>2, InFlight DEF CleanupWork
  <2>. QED
    BY <2>3 DEF z
<1>5. CASE a.cleanup = <<>> /\ a.active = NoFeature
  <2>1. ToRestore(a) = 0
    BY <1>2, <1>5 DEF ToRestore
  <2>. QED
    BY <1>1, <1>5, <2>1 DEF z
<1>6. CASE a.cleanup = <<>> /\ a.active # NoFeature /\ a.pending = <<>>
  <2>1. ToRestore(OnBlockComplete(a)) \in {0, 3}
    BY <1>2, <1>3, <1>6, OnBlockCompleteWhole
  <2>. QED
    BY <1>1, <1>6, <2>1 DEF z
<1>7. CASE a.cleanup = <<>> /\ a.active # NoFeature /\ a.pending # <<>>
  <2>1. Head(a.pending) \in Cmds
    BY <1>2, <1>7, HeadTailProperties DEF Good, Typing, IsBlock
  <2>2. z.inflight.cmd = Head(a.pending)
    BY <1>1, <1>3, <1>7 DEF Dispatch, Fields
  <2>3. ~Idle(z)
    BY <2>1, <2>2, InFlight
  <2>. QED
    BY <2>3 DEF z
<1>. QED
  BY <1>4, <1>5, <1>6, <1>7

\* As long as the guest was seen to do what it was told, a cleanup is whole or under way.
Whole(k, p) == Idle(k) /\ ~p.cut => ToRestore(k) \in {0, 3}

\* What every step of the commander keeps, as long as nothing failed before it was ready.
Healthy(k) == k.errors = {} /\ ~k.raised /\ (k.error => k.ready)

Sound(k, p) == Healthy(k) => Conf(k, p) /\ Whole(k, p)

LEMMA SameSound ==
    ASSUME NEW k, NEW p, NEW d, ConfParts(d) = ConfParts(k), d.errors = k.errors,
           d.error = k.error, d.raised = k.raised, Sound(k, p)
    PROVE  Sound(d, p)
<1>1. /\ d.inflight = k.inflight /\ d.cleanup = k.cleanup /\ d.inCleanup = k.inCleanup
      /\ d.ready = k.ready
  BY DEF ConfParts
<1>2. (Idle(d) <=> Idle(k)) /\ ToRestore(d) = ToRestore(k) /\ (Healthy(d) <=> Healthy(k))
  BY <1>1 DEF Idle, ToRestore, Healthy
<1>. QED
  BY <1>1, <1>2, SameConf DEF Sound, Whole

\* A commander that failed, and was not ready, is not ready now, unless it gave work up.
LEMMA FailedSound ==
    ASSUME NEW k, Good(k), k.out = <<>>, ~k.ready, NEW p, NEW b
    PROVE  LET m == WorkError(k)
           IN  Sound(m, p) /\ Sound(Recover(m, b), p) /\ Sound(DispatchNext(m), p)
<1>. DEFINE m == WorkError(k)
<1>1. Good(m) /\ m.out = <<>> /\ (m.error \/ m.raised)
  BY WorkErrorGood, WorkErrorGivesUp DEF Silent
<1>2. ~m.ready
  BY DEF WorkError, Raise, Good, Fields
<1>. HIDE DEF m
<1>3. Sound(m, p)
  BY <1>1, <1>2 DEF Sound, Healthy
<1>4. Recover(m, b) = m \/ Recover(m, b).errors # {}
  BY <1>1, RecoverGood
<1>5. DispatchNext(m) = m
  BY <1>1 DEF DispatchNext
<1>6. ASSUME NEW d, d.errors # {} PROVE Sound(d, p)
  BY <1>6 DEF Sound, Healthy
<1>. QED
  BY <1>3, <1>4, <1>5, <1>6 DEF m

LEMMA DispatchNextConf ==
    ASSUME NEW k, Good(k), k.out = <<>>, NEW n, Disked(k, n), NEW p,
           Healthy(k) => Conf(k, p),
           Healthy(k) /\ (~Idle(k) \/ k.recovering \/ k.error) => Whole(k, p)
    PROVE  Sound(DispatchNext(k), p)
<1>. DEFINE w == [k EXCEPT !.target = NoContext]
            r == [k EXCEPT !.resetTried = TRUE, !.inReset = TRUE]
            z == DispatchNext(k)
<1>0. Calm(k) => Healthy(k)
  BY DEF Calm, Healthy
<1>1. \/ z = k /\ (~Idle(k) \/ k.recovering \/ k.error \/ k.raised)
      \/ /\ Idle(k) /\ ~k.error /\ ~k.raised
         /\ \/ z = DispatchWork(w)
            \/ k.target # NoContext /\ z = Recover(WorkError(k), FALSE)
            \/ k.target # NoContext /\ z = Dispatch(r, Cmd("abort", ""), 0, FALSE)
  BY DEF DispatchNext
<1>2. k.errors \subseteq z.errors
  BY DispatchNextGood DEF AtMostOne, Keeps
<1>3. CASE ~Calm(k) /\ ~k.error /\ ~k.raised
  <2>1. z.errors # {}
    BY <1>2, <1>3 DEF Calm
  <2>. HIDE DEF z
  <2>2. Sound(z, p)
    BY <2>1 DEF Sound, Healthy
  <2>. QED
    BY <2>2 DEF z
<1>4. CASE z = k /\ (~Idle(k) \/ k.recovering \/ k.error \/ k.raised)
  BY <1>4 DEF Sound, Healthy
<1>5. CASE Idle(k) /\ Calm(k) /\ z = DispatchWork(w)
  <2>1. /\ DOMAIN w = Fields /\ Parts(w) = Parts(k) /\ Silent(k, w)
        /\ w.stage = k.stage /\ w.left = k.left /\ w.std = k.std
        /\ w.error = k.error /\ w.raised = k.raised /\ w.target = NoContext
        /\ w.restore = k.restore /\ w.ready = k.ready
    BY DEF Good, Fields, Parts, Silent
  <2>. HIDE DEF w, z
  <2>2. Good(w) /\ Idle(w) /\ w.out = <<>> /\ ~w.inCleanup
    <3>1. Good(w) /\ Idle(w) /\ w.out = <<>>
      BY <1>5, <2>1, GoodByParts DEF Silent, Idle
    <3>. QED
      BY <1>5, <2>1, <3>1 DEF Parts, Disked, Apart, Calm
  <2>3. /\ w.queue = k.queue /\ w.active = k.active /\ w.disk = k.disk /\ w.cmds = k.cmds
        /\ w.completed = k.completed /\ w.blocks = k.blocks
        /\ w.pending = k.pending /\ w.inflight = k.inflight /\ w.cleanup = k.cleanup
        /\ w.inCleanup = k.inCleanup /\ w.inReset = k.inReset
    BY <2>1 DEF Parts
  <2>4. Disked(w, n)
    <3>1. Apart(w) /\ Confirming(w) /\ Ahead(w, n)
      BY <2>1, <2>3 DEF Disked, Apart, Paging, Confirming, Ahead, Idle
    <3>2. Formatting(w)
      BY <2>1, <2>3 DEF Disked, Formatting, StageBlock, Idle
    <3>. QED
      BY <3>1, <3>2 DEF Disked
  <2>5. Conf(w, p)
    <3>0. Conf(k, p)
      BY <1>0, <1>5
    <3>1. (Idle(w) <=> Idle(k)) /\ Replied(w) = Replied(k) /\ ToRestore(w) = ToRestore(k)
          /\ (Static(w) <=> Static(k)) /\ StillAhead(w) = StillAhead(k)
      BY <2>3 DEF Idle, Replied, ToRestore, Static, StillAhead
    <3>2. ~w.inReset
      BY <2>2, <2>4 DEF Disked, Apart
    <3>3. Aimed(w) /\ Ending(w) /\ Held(w, p) /\ Behind(w, p)
      BY <2>1, <2>3, <3>0, <3>1, <3>2 DEF Conf, Base, Aimed, Ending, Held, Behind
    <3>4. Account(w, p) /\ Setting(w) /\ Moded(w, p)
      BY <2>1, <2>3, <3>0, <3>1 DEF Conf, Base, Account, Setting, Moded
    <3>5. Fine(w, p)
      BY <2>1, <2>3, <3>0, <3>1 DEF Conf, Fine, Rested, Progress, Cleaned
    <3>. QED
      BY <3>3, <3>4, <3>5 DEF Conf, Base
  <2>6. Conf(DispatchWork(w), p)
    BY <2>1, <2>2, <2>4, <2>5, DispatchWorkConf
  <2>7. Whole(DispatchWork(w), p)
    BY <2>2, DispatchWorkWhole DEF Whole
  <2>. QED
    BY <1>5, <2>6, <2>7 DEF Sound, z
<1>6. CASE Calm(k) /\ k.target # NoContext /\ z = Recover(WorkError(k), FALSE)
  <2>1. ~k.ready
    BY <1>0, <1>6 DEF Conf, Base, Ending
  <2>. QED
    BY <1>6, <2>1, FailedSound
<1>7. CASE Idle(k) /\ Calm(k) /\ k.target # NoContext
           /\ z = Dispatch(r, Cmd("abort", ""), 0, FALSE)
  <2>1. /\ z.queue = k.queue /\ z.active = k.active /\ z.stage = k.stage
        /\ z.completed = k.completed /\ z.blocks = k.blocks
        /\ z.disk = k.disk /\ z.cmds = k.cmds /\ z.pending = k.pending
        /\ z.inflight.cmd = Cmd("abort", "") /\ z.cleanup = k.cleanup
        /\ z.inCleanup = k.inCleanup /\ z.inReset = TRUE /\ z.std = k.std
        /\ z.target = k.target /\ z.restore = k.restore /\ z.ready = k.ready
    <3>1. /\ DOMAIN r = Fields /\ r.queue = k.queue /\ r.active = k.active
          /\ r.stage = k.stage /\ r.completed = k.completed /\ r.blocks = k.blocks
          /\ r.disk = k.disk /\ r.cmds = k.cmds /\ r.pending = k.pending
          /\ r.cleanup = k.cleanup /\ r.inCleanup = k.inCleanup /\ r.inReset = TRUE
          /\ r.std = k.std /\ r.target = k.target /\ r.restore = k.restore
          /\ r.ready = k.ready
      BY DEF Good, Fields
    <3>. HIDE DEF r, z
    <3>2. z = [r EXCEPT !.inflight = [cmd |-> Cmd("abort", ""), index |-> 0, before |-> r.ctx,
                                      again |-> FALSE],
                        !.out = Append(@, Cmd("abort", ""))]
      BY <1>7 DEF Dispatch
    <3>. QED
      BY <3>1, <3>2 DEF Fields
  <2>. HIDE DEF z
  <2>2. ~Idle(z) /\ Cmd("abort", "") # Inspect
    <3>1. Cmd("abort", "") \in Cmds
      BY CommandsKinds
    <3>. QED
      BY <2>1, <3>1, InFlight DEF Cmd, Inspect
  <2>3. k.pending = k.cmds /\ ~k.ready /\ Base(k, p)
    BY <1>0, <1>7 DEF Conf, Base, Aimed, Ending
  <2>4. /\ ToRestore(z) = ToRestore(k) /\ StillAhead(z) = StillAhead(k)
        /\ Static(z) <=> Static(k)
    BY <2>1 DEF ToRestore, Static, StillAhead
  <2>5. ~(Replied(z) > 0)
    <3>1. Replied(z) = Len(k.cmds) - Len(k.cmds) - 1
      BY <2>1, <2>2, <2>3 DEF Replied
    <3>2. Len(k.cmds) \in Nat
      BY LenProperties DEF Good, Typing, IsBlock
    <3>. QED
      BY <3>1, <3>2
  <2>6. Aimed(z) /\ Ending(z) /\ Behind(z, p)
    BY <1>7, <2>1, <2>2, <2>3 DEF Base, Aimed, Ending, Behind
  <2>7. Held(z, p) /\ Account(z, p)
    BY <2>1, <2>3, <2>4 DEF Base, Held, Account
  <2>8. Setting(z)
    BY <2>1, <2>2, <2>3 DEF Base, Setting
  <2>9. Moded(z, p)
    BY <2>1, <2>3, <2>4 DEF Base, Moded
  <2>10. Fine(z, p)
    <3>1. Cleaned(z, p)
      BY <1>0, <1>7, <2>4 DEF Conf, Fine, Cleaned
    <3>. QED
      BY <2>2, <2>5, <3>1 DEF Fine, Rested, Progress
  <2>11. Conf(z, p)
    BY <2>6, <2>7, <2>8, <2>9, <2>10 DEF Conf, Base
  <2>. QED
    BY <2>1, <2>2, <2>3, <2>11 DEF Sound, Whole, z
<1>. HIDE DEF z
<1>. QED
  BY <1>1, <1>3, <1>4, <1>5, <1>6, <1>7 DEF z

LEMMA StepSound ==
    ASSUME NEW m, Good(m), m.out = <<>>, NEW n, NEW p,
           \/ (m.error \/ m.raised) /\ ~m.ready
           \/ Conf(m, p) /\ Whole(m, p) /\ Disked(m, n)
    PROVE  Sound(m, p) /\ Sound(DispatchNext(m), p) /\ Sound(Recover(m, FALSE), p)
<1>1. Sound(m, p)
  BY DEF Sound, Healthy
<1>2. Sound(DispatchNext(m), p)
  <2>1. CASE (m.error \/ m.raised) /\ ~m.ready
    BY <1>1, <2>1 DEF DispatchNext
  <2>2. CASE Conf(m, p) /\ Whole(m, p) /\ Disked(m, n)
    BY <2>2, DispatchNextConf
  <2>. QED
    BY <2>1, <2>2
<1>3. Sound(Recover(m, FALSE), p)
  <2>1. Recover(m, FALSE) = m \/ Recover(m, FALSE).errors # {}
    BY RecoverGood
  <2>2. ASSUME NEW d, d.errors # {} PROVE Sound(d, p)
    BY <2>2 DEF Sound, Healthy
  <2>. QED
    BY <1>1, <2>1, <2>2
<1>. QED
  BY <1>1, <1>2, <1>3

\* What the answer e of the command in flight shows of the guest.
Effect(k, e, p) ==
    /\ k.inCleanup =>
           /\ ToRestore(k) = 3 => p.two
           /\ ToRestore(k) = 2 => p.one
           /\ ToRestore(k) = 1 => p.more
    /\ ~k.inCleanup /\ Static(k) =>
           IF k.pending = <<>> THEN Checks(k.cmds) \subseteq p.saved
           ELSE /\ Covered(k.cmds, Replied(k) + 1, p.set)
                /\ k.std # "set-standard" => p.clean
    /\ k.active = DiskFormat /\ k.stage = "reboot" /\ e.st = "rebooting" => k.disk \in p.disks

\* The command in flight took effect.
LEMMA AnsweredConf ==
    ASSUME NEW k, Good(k), ~Idle(k), Apart(k), ~k.inReset, ~k.inCleanup, k.active # NoFeature,
           NEW p, Base(k, p), NEW e, Effect(k, e, p), NEW d, Lasting(d) = Lasting(k), Idle(d),
           d.inflight = NoAttempt, ~d.inCleanup, ~d.inReset,
           k.std = "set-standard" => k.pending # <<>>,
           k.active = DiskFormat => k.stage = "reboot" /\ e.st = "rebooting"
    PROVE  Conf(d, p)
<1>1. /\ d.queue = k.queue /\ d.active = k.active /\ d.completed = k.completed
      /\ d.blocks = k.blocks /\ d.stage = k.stage /\ d.disk = k.disk /\ d.cmds = k.cmds
      /\ d.pending = k.pending /\ d.cleanup = k.cleanup /\ d.std = k.std
      /\ d.restore = k.restore /\ d.target = k.target /\ d.ready = k.ready
  BY DEF Lasting
<1>2. Loose(d, p)
  BY LooseEnd
<1>3. Aimed(d) /\ Ending(d)
  BY <1>1 DEF Base, Aimed, Ending
<1>4. Held(d, p) /\ Moded(d, p) /\ Account(d, p)
  BY <1>2 DEF Loose, Kept
<1>5. Behind(d, p)
  BY <1>1, <1>2 DEF Loose, Kept, Behind, Effect
<1>6. Setting(d)
  BY <1>1, <1>2, InspectNoAttempt DEF Loose, Kept, Setting
<1>7. ToRestore(d) = 0 /\ (Static(d) <=> Static(k))
  BY <1>1, <1>2 DEF Loose, Kept, ToRestore, Static
<1>8. Replied(d) = Replied(k) + 1
  <2>1. Len(k.cmds) \in Nat /\ Len(k.pending) \in Nat
    BY LenProperties DEF Good, Typing, IsBlock
  <2>2. /\ Replied(d) = Len(k.cmds) - Len(k.pending) - 0
        /\ Replied(k) = Len(k.cmds) - Len(k.pending) - 1
    BY <1>1 DEF Replied
  <2>. DEFINE u == Len(k.cmds)
              v == Len(k.pending)
  <2>3. u \in Nat /\ v \in Nat /\ Replied(d) = u - v - 0 /\ Replied(k) = u - v - 1
    BY <2>1, <2>2
  <2>. HIDE DEF u, v
  <2>. QED
    BY <2>3
<1>9. Fine(d, p)
  <2>1. Rested(d, p)
    BY <1>1, <1>7 DEF Rested, Effect
  <2>2. Progress(d, p)
    BY <1>1, <1>7, <1>8 DEF Progress, Effect
  <2>3. Cleaned(d, p)
    BY <1>7 DEF Cleaned
  <2>. QED
    BY <2>1, <2>2, <2>3 DEF Fine
<1>. QED
  BY <1>3, <1>4, <1>5, <1>6, <1>9 DEF Conf, Base

LEMMA CleanedConf ==
    ASSUME NEW k, Good(k), ~Idle(k), Apart(k), ~k.inReset, k.inCleanup,
           NEW p, Base(k, p), NEW e, Effect(k, e, p), NEW d, Lasting(d) = Lasting(k),
           d.inflight = NoAttempt, ~d.inCleanup, ~d.inReset
    PROVE  Conf(d, p)
<1>1. /\ d.queue = k.queue /\ d.active = k.active /\ d.completed = k.completed
      /\ d.blocks = k.blocks /\ d.stage = k.stage /\ d.disk = k.disk /\ d.cmds = k.cmds
      /\ d.pending = k.pending /\ d.cleanup = k.cleanup /\ d.std = k.std
      /\ d.restore = k.restore /\ d.target = k.target /\ d.ready = k.ready
  BY DEF Lasting
<1>2. k.active = NoFeature /\ k.std = "none" /\ NoFeature # DiskFormat
  BY DEF Apart, Paging, NoFeature, DiskFormat
<1>3. Aimed(d) /\ Ending(d) /\ Held(d, p)
  BY <1>1 DEF Base, Aimed, Ending, Held
<1>4. Behind(d, p) /\ Account(d, p) /\ ~Static(d)
  BY <1>1, <1>2 DEF Behind, Account, Static
<1>5. Setting(d)
  BY <1>1, <1>2, InspectNoAttempt DEF Base, Setting
<1>6. ToRestore(k) = ToRestore(d) + 1 /\ ToRestore(d) \in Nat
  <2>1. Len(k.cleanup) \in Nat
    BY LenProperties DEF Good, Typing
  <2>2. ToRestore(d) = Len(k.cleanup) + 0 /\ ToRestore(k) = Len(k.cleanup) + 1
    BY <1>1 DEF ToRestore
  <2>. QED
    BY <2>1, <2>2
<1>7. Moded(d, p) /\ Fine(d, p)
  <2>1. Moded(d, p) /\ Cleaned(d, p)
    BY <1>6 DEF Moded, Cleaned, Effect
  <2>. QED
    BY <1>4, <2>1 DEF Fine, Rested, Progress
<1>. QED
  BY <1>3, <1>4, <1>5, <1>7 DEF Conf, Base

LEMMA CompleteStandardOutputWhole ==
    ASSUME NEW k, Good(k), Idle(k), Apart(k), k.active # NoFeature, k.pending = <<>>,
           NEW attempt, NEW e
    PROVE  ToRestore(CompleteStandardOutput(k, attempt, e)) \in {0, 3}
<1>. DEFINE s == [k EXCEPT !.std = "set-standard"]
            a == [k EXCEPT !.std = "active", !.restore = attempt.cmd # Inspect]
<1>1. CompleteStandardOutput(k, attempt, e) \in {SubmitBlock(s, SetStandard), SubmitNext(a)}
  BY DEF CompleteStandardOutput
<1>2. /\ DOMAIN s = Fields /\ s.cleanup = k.cleanup /\ s.inCleanup = k.inCleanup
      /\ DOMAIN a = Fields /\ Parts(a) = Parts(k)
  BY DEF Good, Fields, Parts
<1>3. k.cleanup = <<>> /\ ~k.inCleanup
  BY DEF Apart
<1>. HIDE DEF s, a
<1>4. /\ Good(a) /\ Idle(a) /\ a.active # NoFeature /\ a.cleanup = <<>> /\ ~a.inCleanup
      /\ a.pending = <<>>
  BY <1>2, <1>3, GoodByParts DEF Parts, Idle
<1>5. ToRestore(SubmitBlock(s, SetStandard)) = 0
  <2>1. ASSUME NEW d, d.cleanup = <<>>, ~d.inCleanup PROVE ToRestore(d) = 0
    BY <2>1 DEF ToRestore
  <2>. DEFINE c == SubmitBlock(s, SetStandard)
  <2>2. c.cleanup = s.cleanup /\ c.inCleanup = s.inCleanup
    BY <1>2, SubmittedCleanup
  <2>. HIDE DEF c
  <2>3. c.cleanup = <<>> /\ ~c.inCleanup
    BY <1>2, <1>3, <2>2
  <2>4. ToRestore(c) = 0
    BY <2>1, <2>3
  <2>. QED
    BY <2>4 DEF c
<1>. QED
  BY <1>1, <1>4, <1>5, OnBlockCompleteWhole

LEMMA CompleteInflightConf ==
    ASSUME NEW k, Good(k), ~Idle(k), k.out = <<>>, NEW n, Disked(k, n), NEW p, Base(k, p),
           NEW e, p.cut \/ ~k.recovering,
           ASSUME ~k.inReset, ~Invalid(k.inflight, e),
                  ~(e.st = "prompt" /\ PromptContextChanged(k, k.inflight))
           PROVE  Effect(k, e, p)
    PROVE  Sound(CompleteInflight(k, e), p)
<1>. DEFINE attempt == k.inflight
            d == [k EXCEPT !.inflight = NoAttempt]
            r == [d EXCEPT !.inReset = FALSE]
            c == [d EXCEPT !.inCleanup = FALSE]
            l == ContextLoss(d, attempt)
            s == CompleteStandardOutput(d, attempt, e)
            x == OnCommandExecuted(d, e)
            y == IF x.error \/ x.raised \/ Busy(x) THEN x ELSE OnBlockComplete(x)
            z == CompleteInflight(k, e)
            Took == /\ ~k.inReset /\ ~Invalid(attempt, e)
                    /\ ~(e.st = "prompt" /\ PromptContextChanged(k, attempt))
<1>1. \/ k.inReset /\ z = DispatchNext(r)
      \/ ~k.inReset /\ z \in {Recover(l, FALSE), DispatchNext(l)}
      \/ ~k.inReset /\ z = Recover(WorkError(d), FALSE)
      \/ Took /\ k.inCleanup /\ z = DispatchNext(c)
      \/ Took /\ ~k.inCleanup /\ IsStandardOutputCommand(d, attempt) /\ z = DispatchNext(s)
      \/ Took /\ ~k.inCleanup /\ ~IsStandardOutputCommand(d, attempt)
         /\ z \in {DispatchNext(y), y}
  BY DEF CompleteInflight
<1>2. Took => Effect(k, e, p)
  OBVIOUS
<1>. HIDE DEF Took
<1>3. /\ DOMAIN d = Fields /\ d.inflight = NoAttempt /\ d.out = <<>>
      /\ d.queue = k.queue /\ d.active = k.active /\ d.completed = k.completed
      /\ d.blocks = k.blocks /\ d.cmds = k.cmds /\ d.pending = k.pending
      /\ d.cleanup = k.cleanup /\ d.retried = k.retried /\ d.disk = k.disk
      /\ d.stage = k.stage /\ d.left = k.left /\ d.target = k.target /\ d.std = k.std
      /\ d.inReset = k.inReset /\ d.inCleanup = k.inCleanup
      /\ d.restore = k.restore /\ d.ready = k.ready /\ d.recovering = k.recovering
  BY DEF Good, Fields
<1>. HIDE DEF d
<1>4. Good(d) /\ Idle(d)
  BY <1>3, EndOfCommand
<1>5. attempt.index \in Nat /\ (attempt.cmd = Inspect => d.pending = <<>>)
  BY <1>3 DEF Good, Typing
<1>6. ~k.ready /\ ~d.ready /\ Apart(k) /\ Lasting(d) = Lasting(k)
  BY <1>3 DEF Base, Ending, Disked, Lasting
<1>7. ASSUME NEW m, Good(m), m.out = <<>>,
             \/ (m.error \/ m.raised) /\ ~m.ready
             \/ Conf(m, p) /\ Whole(m, p) /\ Disked(m, n)
      PROVE  Sound(m, p) /\ Sound(DispatchNext(m), p) /\ Sound(Recover(m, FALSE), p)
  BY <1>7, StepSound
<1>8. ASSUME NEW m, Apart(m), m.active # NoFeature
      PROVE  Whole(m, p)
  <2>1. m.cleanup = <<>> /\ ~m.inCleanup
    BY <1>8 DEF Apart
  <2>2. ToRestore(m) = 0
    BY <2>1 DEF ToRestore
  <2>. QED
    BY <2>2 DEF Whole
<1>9. CASE k.inReset /\ z = DispatchNext(r)
  <2>1. /\ DOMAIN r = Fields /\ r.inflight = NoAttempt /\ r.out = <<>>
        /\ r.queue = k.queue /\ r.active = k.active /\ r.completed = k.completed
        /\ r.blocks = k.blocks /\ r.cmds = k.cmds /\ r.pending = k.pending
        /\ r.cleanup = k.cleanup /\ r.retried = k.retried /\ r.disk = k.disk
        /\ r.stage = k.stage /\ r.left = k.left /\ r.target = k.target /\ r.std = k.std
        /\ r.inReset = FALSE /\ r.inCleanup = k.inCleanup /\ r.restore = k.restore
        /\ r.ready = k.ready
    BY <1>3 DEF Fields
  <2>. HIDE DEF r, z
  <2>2. Good(r) /\ Idle(r)
    BY <2>1, EndOfCommand DEF Idle
  <2>3. ~k.inCleanup
    BY <1>6, <1>9 DEF Apart
  <2>4. Disked(r, n)
    BY <2>1, <2>3, EndedDisked
  <2>5. k.active # NoFeature /\ k.pending = k.cmds /\ k.target # NoContext
    BY <1>9 DEF Base, Aimed
  <2>6. Loose(r, p)
    <3>1. Lasting(r) = Lasting(k)
      BY <2>1 DEF Lasting
    <3>. QED
      BY <1>6, <2>1, <2>3, <2>5, <3>1, LooseEnd
  <2>7. r.active = DiskFormat => r.stage # "reboot"
    BY <2>1, <2>5 DEF Disked, Formatting
  <2>8. Conf(r, p)
    BY <2>1, <2>2, <2>5, <2>6, <2>7, ReplayedConf
  <2>9. Whole(r, p)
    BY <1>8, <2>1, <2>4, <2>5 DEF Disked
  <2>. QED
    BY <1>7, <1>9, <2>1, <2>2, <2>4, <2>8, <2>9 DEF z
<1>10. /\ Good(WorkError(d)) /\ WorkError(d).out = <<>> /\ ~WorkError(d).ready
       /\ WorkError(d).error \/ WorkError(d).raised
  <2>1. WorkError(d).ready = d.ready
    BY <1>4 DEF WorkError, Raise, Good, Fields
  <2>. QED
    BY <1>3, <1>4, <1>6, <2>1, WorkErrorGood, WorkErrorGivesUp DEF Silent
<1>11. ASSUME ~k.inReset, ~k.inCleanup
       PROVE  /\ Disked(d, n) /\ Apart(d) /\ d.active # NoFeature /\ d.target = NoContext
              /\ Loose(d, p)
  <2>1. Disked(d, n)
    BY <1>3, <1>11, EndedDisked
  <2>2. d.active # NoFeature
    BY <1>3, <1>11 DEF Good, Working
  <2>3. d.target = NoContext
    BY <1>3, <1>11 DEF Base, Aimed
  <2>4. Loose(d, p)
    BY <1>3, <1>6, <1>11, <2>2, LooseEnd
  <2>. QED
    BY <2>1, <2>2, <2>3, <2>4 DEF Disked
<1>12. CASE ~k.inReset /\ z \in {Recover(l, FALSE), DispatchNext(l)}
  <2>1. Good(l) /\ l.out = <<>>
    BY <1>3, <1>4, <1>5, ContextLossGood DEF Silent
  <2>2. l = WorkError(d) \/ (~k.inCleanup /\ attempt.cmd.loss = "restart"
                             /\ l = RestartBlock(d, attempt))
    BY <1>3 DEF ContextLoss
  <2>3. CASE l = WorkError(d)
    <3>. HIDE DEF l, z
    <3>. QED
      BY <1>7, <1>10, <1>12, <2>3 DEF z
  <2>4. CASE ~k.inCleanup /\ attempt.cmd.loss = "restart" /\ l = RestartBlock(d, attempt)
    <3>1. d.active = DiskFormat => d.stage \in {"list", "format"}
      BY <1>3, <1>12, <2>4, ReplayedStages
    <3>2. l.ready = d.ready /\ (l.error \/ l.raised \/ Conf(l, p))
      <4>. HIDE DEF attempt
      <4>1. d.active = DiskFormat => d.stage # "reboot"
        BY <3>1
      <4>. HIDE DEF l
      <4>. QED
        BY <1>4, <1>5, <1>11, <1>12, <2>4, <4>1, RestartBlockConf
    <3>3. Disked(l, n) /\ l.active = d.active
      <4>1. Disked(l, n)
        <5>. HIDE DEF attempt
        <5>. HIDE DEF l
        <5>. QED
          BY <1>4, <1>11, <1>12, <2>4, <3>1, RestartBlockDisked
      <4>2. l.active = d.active
        <5>1. RestartBlock(d, attempt).active = d.active
          BY <1>4 DEF RestartBlock, WorkError, Raise, Good, Fields
        <5>. HIDE DEF l
        <5>. QED
          BY <2>4, <5>1
      <4>. QED
        BY <4>1, <4>2
    <3>. HIDE DEF l, z
    <3>4. Whole(l, p)
      BY <1>8, <1>11, <1>12, <2>4, <3>3 DEF Disked
    <3>5. Sound(DispatchNext(l), p) /\ Sound(Recover(l, FALSE), p)
      BY <1>6, <1>7, <2>1, <3>2, <3>3, <3>4
    <3>. QED
      BY <1>12, <3>5 DEF z
  <2>. QED
    BY <2>2, <2>3, <2>4
<1>13. CASE ~k.inReset /\ z = Recover(WorkError(d), FALSE)
  <2>. HIDE DEF z
  <2>. QED
    BY <1>7, <1>10, <1>13 DEF z
<1>14. CASE Took /\ k.inCleanup /\ z = DispatchNext(c)
  <2>1. /\ DOMAIN c = Fields /\ c.inflight = NoAttempt /\ c.out = <<>>
        /\ c.queue = k.queue /\ c.active = k.active /\ c.completed = k.completed
        /\ c.blocks = k.blocks /\ c.cmds = k.cmds /\ c.pending = k.pending
        /\ c.cleanup = k.cleanup /\ c.retried = k.retried /\ c.disk = k.disk
        /\ c.stage = k.stage /\ c.left = k.left /\ c.target = k.target /\ c.std = k.std
        /\ c.inReset = k.inReset /\ c.inCleanup = FALSE /\ c.restore = k.restore
        /\ c.ready = k.ready /\ c.recovering = k.recovering
    BY <1>3 DEF Fields
  <2>. HIDE DEF c, z
  <2>2. Good(c) /\ Idle(c)
    BY <2>1, EndOfCommand
  <2>3. ~k.inReset
    BY <1>14 DEF Took
  <2>4. Disked(c, n)
    BY <2>1, <2>3, EndedDisked
  <2>5. Lasting(c) = Lasting(k)
    BY <2>1 DEF Lasting
  <2>6. Conf(c, p)
    BY <1>2, <1>6, <1>14, <2>1, <2>3, <2>5, CleanedConf
  <2>7. Healthy(c) /\ (~Idle(c) \/ c.recovering \/ c.error) => Whole(c, p)
    BY <1>6, <2>1, <2>2 DEF Whole, Healthy
  <2>8. Sound(DispatchNext(c), p)
    BY <2>1, <2>2, <2>4, <2>6, <2>7, DispatchNextConf
  <2>. QED
    BY <1>14, <2>8 DEF z
<1>15. CASE Took /\ ~k.inCleanup /\ IsStandardOutputCommand(d, attempt) /\ z = DispatchNext(s)
  <2>0. ~k.inReset
    BY <1>15 DEF Took
  <2>1. d.pending = <<>> /\ d.std # "none"
    BY <1>5, <1>15 DEF IsStandardOutputCommand
  <2>2. Static(d) /\ Kept(d, p)
    BY <1>11, <1>15, <2>0, <2>1 DEF Loose, Apart, Paging, Static
  <2>3. /\ attempt.cmd = Inspect => d.std = "inspect"
        /\ attempt.cmd # Inspect => d.std = "set-standard"
        /\ ~d.restore
    <3>1. attempt.cmd = Inspect => d.std = "inspect"
      BY <1>3 DEF Base, Setting
    <3>2. attempt.cmd # Inspect => d.std = "set-standard"
      BY <1>15 DEF IsStandardOutputCommand
    <3>3. k.restore => k.std = "active"
      BY DEF Base, Setting
    <3>. QED
      BY <1>3, <3>1, <3>2, <3>3
  <2>4. Scoped(d.active) \subseteq p.saved \cup StillAhead(d)
    <3>1. Checks(k.cmds) \subseteq p.saved
      BY <1>2, <1>3, <1>15, <2>1, <2>2 DEF Effect, Static
    <3>2. Scoped(d.active) \subseteq p.saved \cup Checks(d.cmds) \cup StillAhead(d)
      BY <1>11, <1>15, <2>0, <2>2 DEF Loose, Account
    <3>. QED
      BY <1>3, <3>1, <3>2
  <2>. HIDE DEF attempt
  <2>5. Good(s) /\ s.out = <<>>
    BY <1>3, <1>4, <1>11, <1>15, <2>0, <2>1, CompleteStandardOutputGood DEF Silent
  <2>6. Disked(s, n)
    BY <1>4, <1>11, <1>15, <2>0, <2>1, CompleteStandardOutputDisked
  <2>7. Conf(s, p)
    BY <1>4, <1>11, <1>15, <2>0, <2>1, <2>2, <2>3, <2>4, CompleteStandardOutputConf
  <2>8. ToRestore(s) \in {0, 3}
    BY <1>4, <1>11, <1>15, <2>0, <2>1, CompleteStandardOutputWhole
  <2>. HIDE DEF s, z
  <2>9. Sound(DispatchNext(s), p)
    BY <1>7, <2>5, <2>6, <2>7, <2>8 DEF Whole
  <2>. QED
    BY <1>15, <2>9 DEF z
<1>16. CASE Took /\ ~k.inCleanup /\ ~IsStandardOutputCommand(d, attempt)
            /\ z \in {DispatchNext(y), y}
  <2>0. ~k.inReset
    BY <1>16 DEF Took
  <2>1. k.std = "set-standard" => k.pending # <<>>
    BY <1>3, <1>16 DEF IsStandardOutputCommand
  <2>. HIDE DEF attempt
  <2>2. Good(x) /\ Idle(x) /\ x.out = <<>> /\ x.active = d.active
    BY <1>3, <1>4, <1>11, <1>16, <2>0, OnCommandExecutedGood DEF Silent, Idle
  <2>3. Disked(x, n)
    BY <1>4, <1>11, <1>16, <2>0, OnCommandExecutedDisked
  <2>4. /\ d.active = DiskFormat => d.stage \in {"list", "format", "reboot"}
    BY <1>3, <2>0, ReplayedStages
  <2>5. (d.active = DiskFormat => d.stage = "reboot" /\ e.st = "rebooting") => Conf(d, p)
    BY <1>2, <1>3, <1>4, <1>6, <1>11, <1>16, <2>0, <2>1, AnsweredConf
  <2>6. /\ ~x.ready /\ (x.error \/ x.raised \/ Conf(x, p))
        /\ ToRestore(x) = 0 /\ x.target = NoContext
    BY <1>4, <1>11, <1>16, <2>0, <2>4, <2>5, OnCommandExecutedConf
  <2>. HIDE DEF x
  <2>7. ~Busy(x) => x.pending = <<>> /\ x.cleanup = <<>>
    BY DEF Busy
  <2>8. ASSUME ~Busy(x), ~x.error, ~x.raised
        PROVE  /\ Good(OnBlockComplete(x)) /\ OnBlockComplete(x).out = <<>>
               /\ Disked(OnBlockComplete(x), n) /\ Conf(OnBlockComplete(x), p)
               /\ Whole(OnBlockComplete(x), p)
    <3>1. x.pending = <<>> /\ x.cleanup = <<>> /\ x.active # NoFeature /\ Conf(x, p)
      BY <1>11, <1>16, <2>0, <2>2, <2>6, <2>7, <2>8
    <3>2. ~x.inCleanup
      BY <2>3, <3>1 DEF Disked, Apart
    <3>3. /\ Good(OnBlockComplete(x)) /\ OnBlockComplete(x).out = <<>>
          /\ Disked(OnBlockComplete(x), n)
      BY <2>2, <2>3, <3>1, OnBlockCompleteGood, OnBlockCompleteDisked DEF Silent
    <3>4. Conf(OnBlockComplete(x), p)
      BY <2>2, <2>3, <2>6, <3>1, OnBlockCompleteConf
    <3>5. ToRestore(OnBlockComplete(x)) \in {0, 3}
      BY <2>2, <3>1, <3>2, OnBlockCompleteWhole
    <3>. QED
      BY <3>3, <3>4, <3>5 DEF Whole
  <2>9. Whole(x, p)
    BY <2>6 DEF Whole
  <2>10. /\ Good(y) /\ y.out = <<>>
         /\ \/ (y.error \/ y.raised) /\ ~y.ready
            \/ Conf(y, p) /\ Whole(y, p) /\ Disked(y, n)
    <3>1. CASE x.error \/ x.raised \/ Busy(x)
      BY <2>2, <2>3, <2>6, <2>9, <3>1
    <3>2. CASE ~(x.error \/ x.raised \/ Busy(x))
      BY <2>8, <3>2
    <3>. QED
      BY <3>1, <3>2
  <2>. HIDE DEF y, z
  <2>11. Sound(y, p) /\ Sound(DispatchNext(y), p)
    BY <1>7, <2>10
  <2>. QED
    BY <1>16, <2>11 DEF z
<1>. HIDE DEF z
<1>. QED
  BY <1>1, <1>9, <1>12, <1>13, <1>14, <1>15, <1>16 DEF z

(***************************************************************************)
(* That every step keeps the account: what each command tells the guest,   *)
(* and what a fall, a loss of the session or the end of a block takes back.*)
(***************************************************************************)

\* Every command but a confirmation is replayed after a loss.
LEMMA OnlyYesContinues == \A c \in Cmds : c.loss # "restart" => c.op = "yes"
<1>. SUFFICES ASSUME NEW c \in Cmds PROVE c.loss # "restart" => c.op = "yes"
  OBVIOUS
<1>1. c \in Written => c.loss = "restart"
  BY FosAssumption
<1>2. c \in Own => c.loss = "restart"
  <2>1. \A o, a : Cmd(o, a).loss = "restart"
    BY DEF Cmd
  <2>. HIDE DEF Cmd
  <2>. QED
    BY <2>1 DEF Own, Inspect
<1>3. c \in {FormatSpec(d) : d \in Nat} => c.loss = "restart"
  BY DEF FormatSpec, Cmd
<1>4. c \in {YesSpec(d) : d \in Nat} => c.op = "yes"
  BY DEF YesSpec, Cmd
<1>. QED
  BY <1>1, <1>2, <1>3, <1>4 DEF Cmds

LEMMA SessionLossConf ==
    ASSUME NEW k, Good(k), k.out = <<>>, ~k.ready, Calm(k), NEW n, Disked(k, n),
           NEW p, Base(k, p), Idle(k) => Conf(k, p) /\ Whole(k, p),
           ~Idle(k) /\ ~k.inReset /\ k.inCleanup => p.cut /\ p.one /\ p.two,
           ~Idle(k) /\ ~k.inReset /\ k.active = DiskFormat /\ k.stage = "reboot" =>
               k.disk \in p.disks
    PROVE  Sound(SessionLoss(k), p)
<1>. DEFINE attempt == k.inflight
            d == [k EXCEPT !.recovering = TRUE, !.inflight = NoAttempt]
            r == [d EXCEPT !.inReset = FALSE]
            c == [d EXCEPT !.cleanup = <<[cmd |-> attempt.cmd, again |-> TRUE]>> \o @,
                           !.inCleanup = FALSE]
            l == OnSessionLoss(d)
            q == [l EXCEPT !.pending = <<>>]
            z == SessionLoss(k)
<1>1. \/ Idle(k) /\ z = d
      \/ ~Idle(k) /\ k.inReset /\ z = r
      \/ ~Idle(k) /\ ~k.inReset /\ k.inCleanup /\ z = WorkError(d)
      \/ ~Idle(k) /\ ~k.inReset /\ k.inCleanup /\ z = c
      \/ ~Idle(k) /\ ~k.inReset /\ ~k.inCleanup /\ attempt.cmd.loss = "restart"
         /\ z = RestartBlock(l, attempt)
      \/ ~Idle(k) /\ ~k.inReset /\ ~k.inCleanup /\ attempt.cmd.loss # "restart" /\ z = q
  BY DEF SessionLoss
<1>2. /\ DOMAIN d = Fields /\ d.inflight = NoAttempt /\ d.out = <<>>
      /\ d.queue = k.queue /\ d.active = k.active /\ d.completed = k.completed
      /\ d.blocks = k.blocks /\ d.cmds = k.cmds /\ d.pending = k.pending
      /\ d.cleanup = k.cleanup /\ d.retried = k.retried /\ d.disk = k.disk
      /\ d.stage = k.stage /\ d.left = k.left /\ d.target = k.target /\ d.std = k.std
      /\ d.inReset = k.inReset /\ d.inCleanup = k.inCleanup /\ d.ready = k.ready
      /\ d.error = k.error /\ d.raised = k.raised /\ d.errors = k.errors
      /\ d.restore = k.restore
  BY DEF Good, Fields
<1>. HIDE DEF d
<1>3. Good(d) /\ Idle(d) /\ Apart(k)
  BY <1>2, EndOfCommand DEF Disked
<1>4. ASSUME NEW m, Apart(m), m.active # NoFeature
      PROVE  Whole(m, p)
  <2>1. m.cleanup = <<>> /\ ~m.inCleanup
    BY <1>4 DEF Apart
  <2>2. ToRestore(m) = 0
    BY <2>1 DEF ToRestore
  <2>. QED
    BY <2>2 DEF Whole
<1>5. CASE Idle(k) /\ z = d
  <2>1. ConfParts(d) = ConfParts(k)
    BY <1>2, <1>5 DEF ConfParts, Idle
  <2>2. Sound(d, p)
    BY <1>2, <1>5, <2>1, SameSound DEF Sound
  <2>. HIDE DEF z
  <2>. QED
    BY <1>5, <2>2 DEF z
<1>6. CASE ~Idle(k) /\ k.inReset /\ z = r
  <2>1. /\ DOMAIN r = Fields /\ r.inflight = NoAttempt
        /\ r.queue = k.queue /\ r.active = k.active /\ r.completed = k.completed
        /\ r.blocks = k.blocks /\ r.cmds = k.cmds /\ r.pending = k.pending
        /\ r.cleanup = k.cleanup /\ r.retried = k.retried /\ r.disk = k.disk
        /\ r.stage = k.stage /\ r.left = k.left /\ r.target = k.target /\ r.std = k.std
        /\ r.inReset = FALSE /\ r.inCleanup = k.inCleanup /\ r.restore = k.restore
        /\ r.ready = k.ready
    BY <1>2 DEF Fields
  <2>. HIDE DEF r, z
  <2>2. Good(r) /\ Idle(r)
    BY <2>1, EndOfCommand DEF Idle
  <2>3. ~k.inCleanup
    BY <1>3, <1>6 DEF Apart
  <2>4. Disked(r, n)
    BY <2>1, <2>3, EndedDisked
  <2>5. k.active # NoFeature /\ k.pending = k.cmds /\ k.target # NoContext
    BY <1>6 DEF Base, Aimed
  <2>6. Loose(r, p)
    <3>1. Lasting(r) = Lasting(k)
      BY <2>1 DEF Lasting
    <3>. QED
      BY <1>3, <1>6, <2>1, <2>3, <2>5, <3>1, LooseEnd
  <2>7. r.active = DiskFormat => r.stage # "reboot"
    BY <2>1, <2>5 DEF Disked, Formatting
  <2>8. Conf(r, p)
    BY <2>1, <2>2, <2>5, <2>6, <2>7, ReplayedConf
  <2>9. Whole(r, p)
    BY <1>4, <2>1, <2>4, <2>5 DEF Disked
  <2>. QED
    BY <1>6, <2>8, <2>9 DEF z, Sound
<1>7. CASE ~Idle(k) /\ ~k.inReset /\ k.inCleanup /\ z = WorkError(d)
  <2>1. Sound(WorkError(d), p)
    BY <1>2, <1>3, FailedSound
  <2>. HIDE DEF z
  <2>. QED
    BY <1>7, <2>1 DEF z
<1>8. CASE ~Idle(k) /\ ~k.inReset /\ k.inCleanup /\ z = c
  <2>. DEFINE w == [cmd |-> attempt.cmd, again |-> TRUE]
  <2>1. /\ c.queue = k.queue /\ c.active = k.active /\ c.stage = k.stage /\ c.ready = k.ready
        /\ c.disk = k.disk /\ c.cmds = k.cmds /\ c.pending = k.pending
        /\ c.inflight = NoAttempt /\ c.cleanup = <<w>> \o k.cleanup /\ c.inCleanup = FALSE
        /\ c.target = k.target /\ c.inReset = k.inReset /\ c.std = k.std
        /\ c.completed = k.completed /\ c.blocks = k.blocks /\ c.restore = k.restore
    BY <1>2 DEF Fields
  <2>2. k.active = NoFeature /\ k.std = "none" /\ NoFeature # DiskFormat
    BY <1>3, <1>8 DEF Apart, Paging, DiskFormat, NoFeature
  <2>3. ToRestore(c) \in Nat /\ ToRestore(c) # 0
    <3>. HIDE DEF attempt
    <3>. DEFINE v == k.cleanup
                S == {w} \cup CleanupWork
    <3>1. Len(<<w>>) = 1 /\ <<w>> \in Seq(S) /\ v \in Seq(S)
      <4>1. v \in Seq(CleanupWork) /\ CleanupWork \subseteq S
        BY DEF Good, Typing
      <4>2. v \in Seq(S)
        BY <4>1, SeqMonotonic
      <4>. QED
        BY <4>2
    <3>2. Len(v) \in Nat
      BY <3>1, LenProperties
    <3>. HIDE DEF S, v, w
    <3>3. Len(<<w>> \o v) = Len(<<w>>) + Len(v)
      BY <3>1, ConcatProperties
    <3>. HIDE DEF c
    <3>4. ToRestore(c) = Len(<<w>> \o v) + 0
      BY <2>1 DEF ToRestore, v
    <3>. QED
      BY <3>1, <3>2, <3>3, <3>4
  <2>. HIDE DEF w, c, z
  <2>4. Aimed(c) /\ Ending(c) /\ Held(c, p)
    BY <1>8, <2>1, <2>2 DEF Base, Aimed, Ending, Held
  <2>5. Behind(c, p) /\ Account(c, p) /\ ~Static(c)
    BY <2>1, <2>2 DEF Behind, Account, Static
  <2>6. Setting(c) /\ Moded(c, p)
    BY <2>1, <2>2, <2>3, InspectNoAttempt DEF Base, Setting, Moded
  <2>7. Fine(c, p) /\ Whole(c, p)
    BY <1>8, <2>5 DEF Fine, Rested, Progress, Cleaned, Whole
  <2>. QED
    BY <1>8, <2>4, <2>5, <2>6, <2>7 DEF Sound, Conf, Base, z
<1>9. CASE ~Idle(k) /\ ~k.inReset /\ ~k.inCleanup
           /\ \/ attempt.cmd.loss = "restart" /\ z = RestartBlock(l, attempt)
              \/ attempt.cmd.loss # "restart" /\ z = q
  <2>1. Disked(d, n)
    BY <1>2, <1>9, EndedDisked
  <2>2. k.active = DiskFormat =>
            /\ k.pending = <<>> /\ k.stage \in {"list", "format", "reboot"}
            /\ k.stage = "reboot" <=> attempt.cmd.op = "yes"
            /\ attempt.cmd.loss = "restart" => k.stage \in {"list", "format"}
    BY <1>9, ReplayedStages
  <2>3. /\ attempt.cmd.loss # "restart" => k.active = DiskFormat /\ k.stage = "reboot"
        /\ attempt.index \in Nat
    <3>1. attempt.cmd \in Cmds /\ attempt.index \in Nat
      BY <1>9 DEF Good, Typing
    <3>2. attempt.cmd.op = "yes" => k.active = DiskFormat
      BY <1>9 DEF Disked, Confirming
    <3>. QED
      BY <2>2, <3>1, <3>2, OnlyYesContinues
  <2>4. d.active # NoFeature /\ d.target = NoContext
    BY <1>2, <1>9 DEF Good, Working, Base, Aimed
  <2>5. Loose(d, p)
    <3>1. Lasting(d) = Lasting(k)
      BY <1>2 DEF Lasting
    <3>. QED
      BY <1>2, <1>3, <1>9, <2>4, <3>1, LooseEnd
  <2>6. CASE attempt.cmd.loss = "restart" /\ z = RestartBlock(l, attempt)
    <3>. DEFINE m == RestartBlock(d, attempt)
    <3>1. l = d
      BY <1>2, <2>2, <2>6 DEF OnSessionLoss
    <3>2. d.active = DiskFormat => d.stage \in {"list", "format"}
      BY <1>2, <2>2, <2>6
    <3>. HIDE DEF l, attempt
    <3>3. m.ready = d.ready /\ (m.error \/ m.raised \/ Conf(m, p))
      <4>1. d.active = DiskFormat => d.stage # "reboot"
        BY <3>2
      <4>. HIDE DEF m
      <4>2. m = RestartBlock(d, attempt)
        BY DEF m
      <4>. QED
        BY <1>3, <2>3, <2>4, <2>5, <4>1, <4>2, RestartBlockConf
    <3>4. Disked(m, n)
      BY <1>3, <2>1, <3>2, RestartBlockDisked
    <3>5. m.active = d.active
      BY <1>3 DEF RestartBlock, WorkError, Raise, Good, Fields
    <3>6. z = m
      BY <2>6, <3>1
    <3>. HIDE DEF m, z
    <3>7. Whole(m, p)
      BY <1>4, <2>4, <3>4, <3>5 DEF Disked
    <3>8. Sound(m, p)
      BY <1>2, <3>3, <3>7 DEF Sound, Healthy
    <3>. QED
      BY <3>6, <3>8 DEF z
  <2>7. CASE attempt.cmd.loss # "restart" /\ z = q
    <3>1. l = [d EXCEPT !.left = @ - 1, !.disk = @ + 1, !.stage = "restart-list"]
      BY <1>2, <2>3, <2>7 DEF OnSessionLoss
    <3>2. /\ DOMAIN l = Fields /\ l.disk = k.disk + 1 /\ l.stage = "restart-list"
          /\ l.queue = k.queue /\ l.active = k.active /\ l.completed = k.completed
          /\ l.blocks = k.blocks /\ l.cmds = k.cmds /\ l.inflight = NoAttempt
          /\ l.cleanup = k.cleanup /\ l.inCleanup = k.inCleanup /\ l.inReset = k.inReset
          /\ l.std = k.std /\ l.restore = k.restore /\ l.target = k.target
          /\ l.ready = k.ready
      BY <1>2, <3>1 DEF Fields
    <3>. HIDE DEF l
    <3>3. /\ q.disk = k.disk + 1 /\ q.stage = "restart-list" /\ q.pending = <<>>
          /\ q.queue = k.queue /\ q.active = k.active /\ q.completed = k.completed
          /\ q.blocks = k.blocks /\ q.cmds = k.cmds /\ q.inflight = NoAttempt
          /\ q.cleanup = k.cleanup /\ q.inCleanup = k.inCleanup /\ q.inReset = k.inReset
          /\ q.std = k.std /\ q.restore = k.restore /\ q.target = k.target
          /\ q.ready = k.ready
      BY <3>2 DEF Fields
    <3>. HIDE DEF q, z, attempt
    <3>4. q.active = DiskFormat /\ DiskFormat # NoFeature /\ ~Static(q) /\ q.std = "none"
      BY <1>3, <2>3, <2>7, <3>3 DEF Apart, Paging, Static, DiskFormat, NoFeature
    <3>5. q.cleanup = <<>> /\ ~q.inCleanup /\ ~q.inReset /\ q.target = NoContext
      BY <1>2, <1>3, <1>9, <2>4, <3>3, <3>4 DEF Apart
    <3>6. ToRestore(q) = 0
      <4>1. ASSUME NEW m, m.cleanup = <<>>, ~m.inCleanup PROVE ToRestore(m) = 0
        BY <4>1 DEF ToRestore
      <4>. QED
        BY <3>5, <4>1
    <3>7. Behind(q, p)
      <4>1. 2..(k.disk - 1) \subseteq p.disks /\ k.disk \in p.disks
        BY <1>9, <2>3, <2>7 DEF Base, Behind
      <4>2. k.disk \in Nat
        BY DEF Good, Typing
      <4>3. 2..(q.disk - 1) \subseteq p.disks
        <5>1. \A i \in 2..(q.disk - 1) : i = k.disk \/ i \in 2..(k.disk - 1)
          BY <3>3, <4>2
        <5>. QED
          BY <3>3, <4>1, <5>1
      <4>. QED
        BY <3>3, <4>3 DEF Behind
    <3>8. Aimed(q) /\ Ending(q) /\ Held(q, p) /\ Account(q, p)
      BY <3>3, <3>4, <3>5 DEF Base, Aimed, Ending, Held, Account
    <3>9. Setting(q) /\ Moded(q, p)
      BY <1>2, <2>5, <3>3, <3>4, <3>5, <3>6, ConfBlocks, InspectNoAttempt
      DEF Loose, Kept, Setting, Moded, ToRestore
    <3>10. Fine(q, p) /\ Whole(q, p)
      BY <3>4, <3>6 DEF Fine, Rested, Progress, Cleaned, Whole
    <3>. QED
      BY <2>7, <3>7, <3>8, <3>9, <3>10 DEF Sound, Conf, Base, z
  <2>. QED
    BY <1>9, <2>6, <2>7
<1>. HIDE DEF z
<1>. QED
  BY <1>1, <1>5, <1>6, <1>7, <1>8, <1>9 DEF z

\* A step of the commander that did not give work up waits or types its command.
Moved(k) == Idle(k) \/ k.out # <<>> \/ k.errors # {}

LEMMA DispatchMoves ==
    ASSUME NEW k, DOMAIN k = Fields, k.out = <<>>, NEW c, NEW i, NEW a
    PROVE  Moved(Dispatch(k, c, i, a))
<1>1. Dispatch(k, c, i, a).out = Append(<<>>, c)
  BY DEF Dispatch, Fields
<1>2. Append(<<>>, c) # <<>>
  OBVIOUS
<1>. QED
  BY <1>1, <1>2 DEF Moved

LEMMA DispatchWorkMoves ==
    ASSUME NEW k, Good(k), Idle(k), k.out = <<>>
    PROVE  Moved(DispatchWork(k))
<1>. DEFINE a == IF k.cleanup = <<>> /\ k.active = NoFeature THEN ActivateNextFeature(k) ELSE k
            c == [a EXCEPT !.cleanup = Tail(@), !.inCleanup = TRUE]
            q == [a EXCEPT !.pending = Tail(@), !.inCleanup = FALSE]
            z == DispatchWork(k)
<1>1. \/ z = Dispatch(c, Head(a.cleanup).cmd, 0, Head(a.cleanup).again)
      \/ z = a
      \/ a.active # NoFeature /\ a.pending = <<>> /\ z = OnBlockComplete(a)
      \/ z = Dispatch(q, Head(a.pending), Len(a.cmds) - Len(a.pending) + 1, FALSE)
  BY DEF DispatchWork
<1>2. Good(a) /\ Silent(k, a)
  BY ActivateNextFeatureGood DEF Silent
<1>. HIDE DEF a
<1>3. Idle(a) /\ a.out = <<>>
  BY <1>2 DEF Silent, Idle
<1>4. DOMAIN c = Fields /\ c.out = <<>> /\ DOMAIN q = Fields /\ q.out = <<>>
  BY <1>2, <1>3 DEF Good, Fields
<1>. HIDE DEF c, q
<1>5. a.active # NoFeature /\ a.pending = <<>> => Idle(OnBlockComplete(a))
  BY <1>2, <1>3, OnBlockCompleteGood DEF Silent, Idle
<1>. HIDE DEF z
<1>. QED
  BY <1>1, <1>3, <1>4, <1>5, DispatchMoves DEF Moved, z

LEMMA DispatchNextMoves ==
    ASSUME NEW k, Good(k), Idle(k), k.out = <<>>
    PROVE  Moved(DispatchNext(k)) /\ Moved(Recover(k, FALSE))
<1>. DEFINE w == [k EXCEPT !.target = NoContext]
            r == [k EXCEPT !.resetTried = TRUE, !.inReset = TRUE]
            m == WorkError(k)
            z == DispatchNext(k)
<1>1. z \in {k, DispatchWork(w), Recover(m, FALSE), Dispatch(r, Cmd("abort", ""), 0, FALSE)}
  BY DEF DispatchNext
<1>2. ASSUME NEW d, Good(d), Idle(d), d.out = <<>>
      PROVE  Moved(Recover(d, FALSE))
  BY <1>2, RecoverGood DEF Moved
<1>3. Good(m) /\ Idle(m) /\ m.out = <<>>
  BY WorkErrorGood DEF Silent, Idle
<1>4. DOMAIN w = Fields /\ Parts(w) = Parts(k) /\ Silent(k, w)
  BY DEF Good, Fields, Parts, Silent
<1>5. DOMAIN r = Fields /\ r.out = <<>>
  BY DEF Good, Fields
<1>. HIDE DEF w, r, m
<1>6. Good(w) /\ Idle(w) /\ w.out = <<>>
  BY <1>4, GoodByParts DEF Silent, Idle
<1>7. Moved(DispatchWork(w)) /\ Moved(Recover(m, FALSE)) /\ Moved(Recover(k, FALSE))
  BY <1>2, <1>3, <1>6, DispatchWorkMoves
<1>8. Moved(Dispatch(r, Cmd("abort", ""), 0, FALSE)) /\ Moved(k)
  BY <1>5, DispatchMoves DEF Moved
<1>. HIDE DEF z
<1>. QED
  BY <1>1, <1>7, <1>8 DEF z

LEMMA CompleteInflightMoves ==
    ASSUME NEW k, Good(k), ~Idle(k), k.out = <<>>, NEW e
    PROVE  Moved(CompleteInflight(k, e))
<1>. DEFINE attempt == k.inflight
            d == [k EXCEPT !.inflight = NoAttempt]
            r == [d EXCEPT !.inReset = FALSE]
            c == [d EXCEPT !.inCleanup = FALSE]
            l == ContextLoss(d, attempt)
            s == CompleteStandardOutput(d, attempt, e)
            x == OnCommandExecuted(d, e)
            y == IF x.error \/ x.raised \/ Busy(x) THEN x ELSE OnBlockComplete(x)
            z == CompleteInflight(k, e)
<1>1. \/ z = DispatchNext(r)
      \/ z \in {Recover(l, FALSE), DispatchNext(l)}
      \/ z = Recover(WorkError(d), FALSE)
      \/ z = DispatchNext(c)
      \/ ~k.inReset /\ ~k.inCleanup /\ IsStandardOutputCommand(d, attempt)
         /\ z = DispatchNext(s)
      \/ ~k.inReset /\ ~k.inCleanup /\ z \in {DispatchNext(y), y}
  BY DEF CompleteInflight
<1>2. /\ DOMAIN d = Fields /\ d.inflight = NoAttempt /\ d.out = <<>>
      /\ d.queue = k.queue /\ d.active = k.active /\ d.completed = k.completed
      /\ d.blocks = k.blocks /\ d.cmds = k.cmds /\ d.pending = k.pending
      /\ d.cleanup = k.cleanup /\ d.retried = k.retried /\ d.disk = k.disk
  BY DEF Good, Fields
<1>. HIDE DEF d
<1>3. Good(d) /\ Idle(d)
  BY <1>2, EndOfCommand
<1>4. attempt.index \in Nat /\ (attempt.cmd = Inspect => d.pending = <<>>)
  BY <1>2 DEF Good, Typing
<1>. HIDE DEF attempt
<1>5. ASSUME NEW m, Good(m), Idle(m), m.out = <<>>
      PROVE  Moved(m) /\ Moved(DispatchNext(m)) /\ Moved(Recover(m, FALSE))
  BY <1>5, DispatchNextMoves DEF Moved
<1>6. CASE z = DispatchNext(r) \/ z = DispatchNext(c)
  <2>1. /\ DOMAIN r = Fields /\ r.inflight = NoAttempt /\ r.out = <<>>
        /\ r.queue = d.queue /\ r.active = d.active /\ r.completed = d.completed
        /\ r.blocks = d.blocks /\ r.cmds = d.cmds /\ r.pending = d.pending
        /\ r.cleanup = d.cleanup /\ r.retried = d.retried /\ r.disk = d.disk
    BY <1>2 DEF Fields
  <2>2. /\ DOMAIN c = Fields /\ c.inflight = NoAttempt /\ c.out = <<>>
        /\ c.queue = d.queue /\ c.active = d.active /\ c.completed = d.completed
        /\ c.blocks = d.blocks /\ c.cmds = d.cmds /\ c.pending = d.pending
        /\ c.cleanup = d.cleanup /\ c.retried = d.retried /\ c.disk = d.disk
    BY <1>2 DEF Fields
  <2>. HIDE DEF r, c, z
  <2>3. Good(r) /\ Good(c) /\ Idle(r) /\ Idle(c)
    BY <1>3, <2>1, <2>2, EndOfCommand
  <2>. QED
    BY <1>5, <1>6, <2>1, <2>2, <2>3 DEF z
<1>7. CASE z \in {Recover(l, FALSE), DispatchNext(l)}
  <2>1. Good(l) /\ l.out = <<>> /\ Idle(l)
    BY <1>2, <1>3, <1>4, ContextLossGood DEF Silent, Idle
  <2>. HIDE DEF l, z
  <2>. QED
    BY <1>5, <1>7, <2>1 DEF z
<1>8. CASE z = Recover(WorkError(d), FALSE)
  <2>1. Good(WorkError(d)) /\ WorkError(d).out = <<>> /\ Idle(WorkError(d))
    BY <1>2, <1>3, WorkErrorGood DEF Silent, Idle
  <2>. HIDE DEF z
  <2>. QED
    BY <1>5, <1>8, <2>1 DEF z
<1>9. CASE ~k.inReset /\ ~k.inCleanup /\ IsStandardOutputCommand(d, attempt)
           /\ z = DispatchNext(s)
  <2>1. d.active # NoFeature
    BY <1>2, <1>9 DEF Good, Working
  <2>2. d.pending = <<>>
    BY <1>4, <1>9 DEF IsStandardOutputCommand
  <2>3. Good(s) /\ s.out = <<>> /\ Idle(s)
    BY <1>2, <1>3, <2>1, <2>2, CompleteStandardOutputGood DEF Silent, Idle
  <2>. HIDE DEF s, z
  <2>. QED
    BY <1>5, <1>9, <2>3 DEF z
<1>10. CASE ~k.inReset /\ ~k.inCleanup /\ z \in {DispatchNext(y), y}
  <2>1. d.active # NoFeature
    BY <1>2, <1>10 DEF Good, Working
  <2>2. Good(x) /\ Idle(x) /\ x.out = <<>> /\ x.active # NoFeature
    BY <1>2, <1>3, <2>1, OnCommandExecutedGood DEF Silent, Idle
  <2>. HIDE DEF x
  <2>3. ~Busy(x) => x.pending = <<>>
    BY DEF Busy
  <2>4. ~Busy(x) => /\ Good(OnBlockComplete(x)) /\ OnBlockComplete(x).out = <<>>
                    /\ Idle(OnBlockComplete(x))
    BY <2>2, <2>3, OnBlockCompleteGood DEF Silent, Idle
  <2>5. Good(y) /\ y.out = <<>> /\ Idle(y)
    BY <2>2, <2>4
  <2>. HIDE DEF y, z
  <2>. QED
    BY <1>5, <1>10, <2>5 DEF z
<1>. QED
  BY <1>1, <1>6, <1>7, <1>8, <1>9, <1>10

LEMMA SessionLossMoves ==
    ASSUME NEW k, Good(k), k.out = <<>>
    PROVE  /\ Idle(SessionLoss(k)) /\ SessionLoss(k).ready = k.ready
           /\ SessionLoss(k).recovering
<1>. DEFINE attempt == k.inflight
            d == [k EXCEPT !.recovering = TRUE, !.inflight = NoAttempt]
            r == [d EXCEPT !.inReset = FALSE]
            c == [d EXCEPT !.cleanup = <<[cmd |-> attempt.cmd, again |-> TRUE]>> \o @,
                           !.inCleanup = FALSE]
            l == OnSessionLoss(d)
            q == [l EXCEPT !.pending = <<>>]
            z == SessionLoss(k)
<1>1. z \in {d, r, WorkError(d), c, RestartBlock(l, attempt), q}
  BY DEF SessionLoss
<1>2. /\ DOMAIN d = Fields /\ d.inflight = NoAttempt /\ d.ready = k.ready /\ d.recovering
  BY DEF Good, Fields
<1>. HIDE DEF d
<1>3. /\ r.inflight = NoAttempt /\ c.inflight = NoAttempt
      /\ r.ready = k.ready /\ c.ready = k.ready /\ r.recovering /\ c.recovering
  BY <1>2 DEF Fields
<1>4. DOMAIN l = Fields /\ l.inflight = NoAttempt /\ l.ready = k.ready /\ l.recovering
  BY <1>2 DEF OnSessionLoss, Fields
<1>. HIDE DEF l, attempt
<1>5. q.inflight = NoAttempt /\ q.ready = k.ready /\ q.recovering
  BY <1>4 DEF Fields
<1>6. ASSUME NEW m, DOMAIN m = Fields
      PROVE  /\ WorkError(m).inflight = m.inflight /\ WorkError(m).ready = m.ready
             /\ WorkError(m).recovering = m.recovering
  BY <1>6 DEF WorkError, Raise, Fields
<1>7. /\ RestartBlock(l, attempt).inflight = NoAttempt
      /\ RestartBlock(l, attempt).ready = k.ready /\ RestartBlock(l, attempt).recovering
  BY <1>4, <1>6 DEF RestartBlock, Fields
<1>8. /\ WorkError(d).inflight = NoAttempt /\ WorkError(d).ready = k.ready
      /\ WorkError(d).recovering
  BY <1>2, <1>6
<1>. HIDE DEF r, c, q, z
<1>. QED
  BY <1>1, <1>2, <1>3, <1>5, <1>7, <1>8 DEF Idle, z

\* The commander stays where it was.
Unmoved(k, d) ==
    /\ ConfParts(d) = ConfParts(k) /\ d.out = <<>>
    /\ d.errors = k.errors /\ d.error = k.error /\ d.raised = k.raised

LEMMA OnStateConf ==
    ASSUME NEW k0, Good(k0), k0.out = <<>>, ~k0.ready, ~k0.raised, NEW n, Disked(k0, n),
           NEW p, p.cut => p.one /\ p.two, NEW e,
           Calm(k0) => Base(k0, p),
           Calm(k0) /\ Idle(k0) => Conf(k0, p) /\ Whole(k0, p),
           Calm(k0) /\ ~Idle(k0) => p.cut \/ ~k0.recovering,
           k0.inCleanup /\ OnState(k0, e).recovering => p.cut,
           ASSUME Calm(k0), ~Idle(k0), ~k0.inReset, e.st \in {"lost", "username"},
                  k0.active = DiskFormat, k0.stage = "reboot"
           PROVE  k0.disk \in p.disks,
           ASSUME Calm(k0), ~Idle(k0), ~k0.inReset, ~Invalid(k0.inflight, e),
                  e.st \in k0.inflight.cmd.at,
                  ~(e.st = "prompt" /\ PromptContextChanged([k0 EXCEPT !.ctx = e.ctx],
                                                            k0.inflight))
           PROVE  Effect(k0, e, p)
    PROVE  LET d == OnState(k0, e)
           IN  /\ \/ Moved(d) /\ Sound(d, p)
                  \/ Unmoved(k0, d) /\ (Calm(k0) => e.st # "prompt")
               /\ e.st \notin Prompts => ~d.ready
<1>. DEFINE k == [k0 EXCEPT
                !.state = e.st,
                !.known = e.st,
                !.ctx = IF e.st = "prompt" THEN e.ctx ELSE @,
                !.authenticated = @ \/ e.st \in {"prompt", "accepted"},
                !.recovering = CASE e.st \in {"prompt", "accepted"} -> FALSE
                                 [] e.st = "lost" /\ k0.error -> TRUE
                                 [] OTHER -> @]
            d == OnState(k0, e)
            lost == e.st = "lost" \/ (e.st = "username" /\ k.authenticated)
            done == ~Idle(k) /\ e.st \in k.inflight.cmd.at
            prompt == Idle(k) /\ e.st = "prompt"
<1>1. /\ DOMAIN k = Fields /\ Parts(k) = Parts(k0) /\ DiskParts(k) = DiskParts(k0)
      /\ k.out = <<>> /\ k.state = e.st /\ k.error = k0.error /\ k.raised = k0.raised
      /\ k.inflight = k0.inflight /\ ConfParts(k) = ConfParts(k0) /\ k.errors = k0.errors
      /\ k.ctx = IF e.st = "prompt" THEN e.ctx ELSE k0.ctx
      /\ k.recovering => k0.recovering \/ k0.error
  BY DEF Good, Fields, Parts, DiskParts, ConfParts
<1>2. d = CASE k.error -> Recover(k, FALSE)
            [] ~k.error /\ lost -> SessionLoss(k)
            [] ~k.error /\ done -> CompleteInflight(k, e)
            [] ~k.error /\ prompt -> DispatchNext(k)
            [] OTHER -> k
  BY DEF OnState
<1>. HIDE DEF k
<1>3. Good(k) /\ Disked(k, n)
  BY <1>1, GoodByParts, SameDisked
<1>4. ~Idle(k) => k.inflight.cmd.at \subseteq {"prompt", "confirm", "rebooting"}
  BY <1>3, CommandsKinds DEF Good, Typing
<1>5. /\ (Idle(k) <=> Idle(k0)) /\ (Calm(k) <=> Calm(k0)) /\ k.ready = k0.ready
      /\ k.inReset = k0.inReset /\ k.inCleanup = k0.inCleanup /\ k.active = k0.active
      /\ k.stage = k0.stage /\ k.disk = k0.disk /\ k.cmds = k0.cmds
      /\ k.pending = k0.pending /\ k.std = k0.std /\ k.cleanup = k0.cleanup
  BY <1>1 DEF Idle, Calm, ConfParts
<1>6. /\ Calm(k) => Base(k, p)
      /\ Calm(k) /\ Idle(k) => Conf(k, p) /\ Whole(k, p)
  <2>1. ToRestore(k) = ToRestore(k0)
    BY <1>5 DEF ToRestore
  <2>. QED
    BY <1>1, <1>5, <2>1, SameConf DEF Whole
<1>7. \/ k.error /\ d = Recover(k, FALSE)
      \/ ~k.error /\ ~lost /\ ~done /\ ~prompt /\ d = k
      \/ ~k.error /\ lost /\ d = SessionLoss(k)
      \/ ~k.error /\ done /\ d = CompleteInflight(k, e)
      \/ ~k.error /\ prompt /\ d = DispatchNext(k)
  <2>1. k.error => d = Recover(k, FALSE)
    BY <1>2
  <2>2. ~k.error /\ lost /\ ~done => d = SessionLoss(k)
    BY <1>2
  <2>3. ~k.error /\ ~lost /\ done => d = CompleteInflight(k, e)
    BY <1>2
  <2>4. ~k.error /\ ~lost /\ ~done /\ prompt => d = DispatchNext(k)
    BY <1>2
  <2>5. ~k.error /\ ~lost /\ ~done /\ ~prompt => d = k
    BY <1>2
  <2>6. ~(lost /\ done)
    BY <1>4
  <2>. HIDE DEF d, lost, done, prompt
  <2>. QED
    BY <2>1, <2>2, <2>3, <2>4, <2>5, <2>6
<1>8. k0.errors \subseteq d.errors /\ (k0.inCleanup /\ d.recovering => p.cut)
  BY OnStateGood
<1>9. CASE k.error /\ d = Recover(k, FALSE)
  <2>. DEFINE m == Recover(k, FALSE)
  <2>1. m = k \/ m.errors # {}
    BY <1>1, <1>3, RecoverGood
  <2>2. e.st # "prompt" => m = k
    BY <1>1 DEF Recover
  <2>. HIDE DEF m
  <2>3. (Moved(m) /\ Sound(m, p)) \/ (Unmoved(k0, m) /\ ~Calm(k0))
    <3>1. m = k => Unmoved(k0, m) /\ ~Calm(k0)
      BY <1>1, <1>9 DEF Unmoved, Calm
    <3>2. m.errors # {} => Moved(m) /\ Sound(m, p)
      BY DEF Moved, Sound, Healthy
    <3>. QED
      BY <2>1, <3>1, <3>2
  <2>4. e.st \notin Prompts => ~m.ready
    BY <1>5, <2>2 DEF Prompts
  <2>. QED
    BY <1>9, <2>3, <2>4 DEF m
<1>10. CASE ~k.error /\ ~lost /\ ~done /\ ~prompt /\ d = k
  <2>1. e.st # "prompt"
    BY <1>1, <1>3, <1>10, PromptAnswers DEF Good, Typing
  <2>. QED
    BY <1>1, <1>5, <1>10, <2>1 DEF Unmoved
<1>11. ASSUME ~Calm(k), ~k.error PROVE d.errors # {}
  BY <1>1, <1>5, <1>8, <1>11 DEF Calm
<1>12. CASE ~k.error /\ lost /\ d = SessionLoss(k)
  <2>. DEFINE m == SessionLoss(k)
  <2>1. Idle(m) /\ m.ready = k.ready /\ m.recovering
    BY <1>1, <1>3, SessionLossMoves
  <2>2. Calm(k) => Sound(m, p)
    <3>. SUFFICES ASSUME Calm(k) PROVE Sound(m, p)
      OBVIOUS
    <3>1. k.inCleanup => p.cut /\ p.one /\ p.two
      <4>. HIDE DEF m
      <4>1. d.recovering
        BY <1>12, <2>1 DEF m
      <4>. QED
        BY <1>5, <1>8, <4>1
    <3>2. ~Idle(k) /\ ~k.inReset /\ k.active = DiskFormat /\ k.stage = "reboot" =>
              k.disk \in p.disks
      BY <1>5, <1>12
    <3>. QED
      BY <1>1, <1>3, <1>5, <1>6, <3>1, <3>2, SessionLossConf
  <2>3. ~Calm(k) => d.errors # {}
    BY <1>11, <1>12
  <2>. HIDE DEF d
  <2>4. Sound(d, p)
    BY <1>12, <2>2, <2>3 DEF Sound, Healthy, m
  <2>5. Moved(d) /\ ~d.ready
    BY <1>5, <1>12, <2>1 DEF Moved, m
  <2>. QED
    BY <2>4, <2>5 DEF d
<1>13. CASE ~k.error /\ done /\ d = CompleteInflight(k, e)
  <2>. DEFINE m == CompleteInflight(k, e)
  <2>1. Moved(m)
    BY <1>1, <1>3, <1>13, CompleteInflightMoves
  <2>2. e.st \in Prompts
    BY <1>4, <1>13 DEF Prompts
  <2>3. Calm(k) => Sound(m, p)
    <3>. SUFFICES ASSUME Calm(k) PROVE Sound(m, p)
      OBVIOUS
    <3>1. Base(k, p) /\ (p.cut \/ ~k.recovering)
      BY <1>1, <1>5, <1>6, <1>13
    <3>2. ASSUME ~k.inReset, ~Invalid(k.inflight, e),
                 ~(e.st = "prompt" /\ PromptContextChanged(k, k.inflight))
          PROVE  Effect(k, e, p)
      <4>. DEFINE f == [k0 EXCEPT !.ctx = e.ctx]
      <4>1. f.ctx = e.ctx
        BY DEF Good, Fields
      <4>. HIDE DEF f
      <4>2. e.st = "prompt" =>
                (PromptContextChanged(k, k.inflight) <=> PromptContextChanged(f, k0.inflight))
        BY <1>1, <4>1 DEF PromptContextChanged
      <4>3. Effect(k0, e, p)
        BY <1>1, <1>5, <1>13, <3>2, <4>2 DEF f
      <4>4. ToRestore(k) = ToRestore(k0) /\ Replied(k) = Replied(k0)
            /\ (Static(k) <=> Static(k0))
        BY <1>5 DEF ToRestore, Replied, Static
      <4>. QED
        BY <1>5, <4>3, <4>4 DEF Effect
    <3>. QED
      BY <1>1, <1>3, <1>13, <3>1, <3>2, CompleteInflightConf
  <2>4. ~Calm(k) => d.errors # {}
    BY <1>11, <1>13
  <2>. HIDE DEF d
  <2>5. Sound(d, p)
    BY <1>13, <2>3, <2>4 DEF Sound, Healthy, m
  <2>6. Moved(d)
    BY <1>13, <2>1 DEF m
  <2>. QED
    BY <2>2, <2>5, <2>6 DEF d
<1>14. CASE ~k.error /\ prompt /\ d = DispatchNext(k)
  <2>. DEFINE m == DispatchNext(k)
  <2>1. Moved(m)
    BY <1>1, <1>3, <1>14, DispatchNextMoves
  <2>2. Calm(k) => Sound(m, p)
    BY <1>1, <1>3, <1>6, <1>14, DispatchNextConf
  <2>3. ~Calm(k) => d.errors # {}
    BY <1>11, <1>14
  <2>. HIDE DEF d
  <2>4. Sound(d, p)
    BY <1>14, <2>2, <2>3 DEF Sound, Healthy, m
  <2>5. Moved(d)
    BY <1>14, <2>1 DEF m
  <2>. QED
    BY <1>14, <2>4, <2>5 DEF d, Prompts
<1>. HIDE DEF d, lost, done, prompt
<1>. QED
  BY <1>7, <1>9, <1>10, <1>12, <1>13, <1>14 DEF d
LEMMA OnIdleConf ==
    ASSUME NEW k, Good(k), k.out = <<>>, ~k.ready, ~k.raised, NEW n, Disked(k, n), NEW p,
           Calm(k) /\ Idle(k) => Conf(k, p) /\ Whole(k, p)
    PROVE  LET d == OnIdle(k) IN (Moved(d) /\ Sound(d, p)) \/ Unmoved(k, d)
<1>. DEFINE d == OnIdle(k)
<1>1. d \in {k, Recover(k, TRUE)} \/ (Idle(k) /\ ~k.error /\ d = DispatchNext(k))
  BY DEF OnIdle
<1>2. CASE d = k
  BY <1>2 DEF Unmoved
<1>3. CASE d = Recover(k, TRUE)
  <2>1. Recover(k, TRUE) = k \/ Recover(k, TRUE).errors # {}
    BY RecoverGood
  <2>. HIDE DEF d
  <2>. QED
    BY <1>2, <1>3, <2>1 DEF Moved, Sound, Healthy, d
<1>4. CASE Idle(k) /\ ~k.error /\ d = DispatchNext(k)
  <2>1. Moved(DispatchNext(k)) /\ k.errors \subseteq DispatchNext(k).errors
    BY <1>4, DispatchNextMoves, DispatchNextGood DEF AtMostOne, Keeps
  <2>2. Calm(k) => Sound(DispatchNext(k), p)
    BY <1>4, DispatchNextConf
  <2>3. ~Calm(k) => k.errors # {}
    BY <1>4 DEF Calm
  <2>. HIDE DEF d
  <2>. QED
    BY <1>4, <2>1, <2>2, <2>3 DEF Sound, Healthy, d
<1>. HIDE DEF d
<1>. QED
  BY <1>1, <1>2, <1>3, <1>4 DEF d

(***************************************************************************)
(* The guest, and what the commander may take it to have done.             *)
(***************************************************************************)

\* A setting of a command, and the console's own settings in a draft.
Values == {c.arg : c \in Cmds}
Clean(g) == "standard" \notin g.draft /\ "more" \notin g.draft

\* What the guest is in with j commands of a cleanup left to run.
Stage(g, j) ==
    /\ j = 3 => g.ctx = <<>>
    /\ j \in {1, 2} => g.ctx = <<"console">> /\ "standard" \notin g.draft
    /\ j = 1 => "more" \in g.draft
    /\ j = 0 => g.mode = "more"

\* A confirmation is on its way; none was typed at the login prompt.
YesTyped(t) == t # <<>> /\ Head(t).op = "yes"
Intact(g, t, s) == ~s.skipped /\ (g.up \/ ~YesTyped(t))

\* A scope was lost unseen, or a cleanup was cut off: nothing is said of the guest then.
Cut(s) == s.unseen \/ s.cleanupCut
Seen(g, s) == g.up /\ ~s.unseen

\* What the guest shows of the work: p of the commander's account.
Shown(g, t, s) ==
    [disks |-> IF Intact(g, t, s) THEN ToSet(g.formatted) ELSE Nat,
     saved |-> g.saved \cup (IF s.unseen THEN Values ELSE {}),
     set   |-> g.saved \cup g.draft \cup (IF Seen(g, s) THEN {} ELSE Values),
     clean |-> Seen(g, s) => Clean(g),
     more  |-> Cut(s) \/ g.mode = "more",
     two   |-> Cut(s) \/ (g.up => Stage(g, 2)),
     one   |-> Cut(s) \/ (g.up => Stage(g, 1)),
     cut   |-> Cut(s)]

\* The scope the guest is in unless it lost it, and the commands it has run.
Place(k, t) == IF t = <<k.inflight.cmd>> THEN k.inflight.before ELSE Led(k)
Done(k, t) == k.inflight.index - (IF t = <<k.inflight.cmd>> THEN 1 ELSE 0)

\* The answer on its way refuses the command in flight.
Refused(k, r) == \E i \in 1..Len(r) : r[i].st = "prompt" /\ Invalid(k.inflight, r[i])

\* A command of a feature's block is in flight: the guest keeps what it was set, unless
\* it refused the command or left the scope ...
Setup(k, g, t, r) ==
    g.up /\ g.ctx = Place(k, t) /\ ~Refused(k, r) =>
        /\ Covered(k.cmds, Done(k, t), g.saved \cup g.draft)
        /\ k.std # "set-standard" => Clean(g)

\* ... and saved it all when its prompt shows the top again.
SavedAtTop(k, g, r) ==
    Led(k) = <<>> =>
        \A i \in 1..Len(r) :
            r[i].st = "prompt" /\ ~Invalid(k.inflight, r[i]) /\ r[i].ctx = <<>>
                => Covered(k.cmds, k.inflight.index, g.saved)

\* A guest that leaves its scope in a command that stays there shows a shorter path.
Shorter(s, t) == Len(t) \in Nat /\ Len(s) < Len(t)

Within(k, g, t) ==
    g.up /\ ~Changes(k) => g.ctx = Place(k, t) \/ Shorter(g.ctx, Place(k, t))

BlockRun(k, g, t, r) == Setup(k, g, t, r) /\ SavedAtTop(k, g, r) /\ Within(k, g, t)

\* A command of the cleanup is in flight.
CleanupRun(k, g, t, r) ==
    /\ g.up => Stage(g, ToRestore(k) - (IF t = <<k.inflight.cmd>> THEN 0 ELSE 1))
    /\ ToRestore(k) = 1 => \A i \in 1..Len(r) : r[i].st = "prompt" => g.mode = "more"

\* A confirmed disk is formatted, or will be.
YesRun(k, t, p) ==
    ~Idle(k) /\ k.inflight.cmd.op = "yes" /\ ~YesTyped(t) => k.disk \in p.disks

\* The commander's account agrees with the guest.
Told(k, g, t, r, s) ==
    /\ Base(k, Shown(g, t, s)) /\ Rested(k, Shown(g, t, s)) /\ Whole(k, Shown(g, t, s))
    /\ YesRun(k, t, Shown(g, t, s))
    /\ ~s.unseen /\ ~Idle(k) /\ ~k.inCleanup /\ ~k.inReset /\ Static(k) => BlockRun(k, g, t, r)
    /\ ~Cut(s) /\ ~Idle(k) /\ k.inCleanup => CleanupRun(k, g, t, r)

\* The inductive invariant: until an error is left behind, the account is right.
ConfInv ==
    /\ DiskInv
    /\ guest.ctx = <<>> => guest.draft = {}
    /\ phase = "starting" => ~cli.ready /\ ~cli.raised
    /\ phase = "running" => Healthy(cli) /\ cli.ready /\ typed = <<>>
    /\ Healthy(cli) =>
           phase \in {"starting", "running"} /\ Told(cli, guest, typed, rx, seen)

(***************************************************************************)
(* More was formatted, saved or set.                                       *)
(***************************************************************************)

\* Nothing that p says was done is taken back in q.
Keeping(p, q) ==
    p.disks \subseteq q.disks /\ p.saved \subseteq q.saved /\ (p.cut => q.cut)

Growing(p, q) ==
    /\ Keeping(p, q) /\ p.set \subseteq q.set /\ (p.clean => q.clean)
    /\ (p.more => q.more) /\ (p.two => q.two) /\ (p.one => q.one)

LEMMA BaseKept ==
    ASSUME NEW k, NEW p, NEW q, Keeping(p, q)
    PROVE  /\ Base(k, p) /\ Moded(k, q) => Base(k, q)
           /\ Rested(k, p) => Rested(k, q)
           /\ Whole(k, p) => Whole(k, q)
           /\ \A t : YesRun(k, t, p) => YesRun(k, t, q)
<1>1. p.disks \subseteq q.disks /\ p.saved \subseteq q.saved /\ (p.cut => q.cut)
  BY DEF Keeping
<1>2. Held(k, p) => Held(k, q)
  BY <1>1, Zenon DEF Held
<1>3. Behind(k, p) => Behind(k, q)
  BY <1>1, Zenon DEF Behind
<1>4. Account(k, p) => Account(k, q)
  <2>1. \A A, B, C : A \subseteq p.saved \cup B \cup C => A \subseteq q.saved \cup B \cup C
    BY <1>1
  <2>. QED
    BY <2>1, Zenon DEF Account
<1>5. Rested(k, p) => Rested(k, q)
  BY <1>1, Zenon DEF Rested
<1>6. Whole(k, p) => Whole(k, q)
  BY <1>1 DEF Whole
<1>7. \A t : YesRun(k, t, p) => YesRun(k, t, q)
  BY <1>1 DEF YesRun
<1>. QED
  BY <1>2, <1>3, <1>4, <1>5, <1>6, <1>7 DEF Base

LEMMA SoundGrown ==
    ASSUME NEW k, NEW p, NEW q, Growing(p, q)
    PROVE  /\ Base(k, p) => Base(k, q)
           /\ Conf(k, p) => Conf(k, q)
           /\ Sound(k, p) => Sound(k, q)
<1>1. /\ Keeping(p, q) /\ p.set \subseteq q.set /\ (p.clean => q.clean)
      /\ (p.more => q.more) /\ (p.two => q.two) /\ (p.one => q.one)
  BY DEF Growing
<1>2. Moded(k, p) => Moded(k, q)
  BY <1>1 DEF Moded
<1>3. Base(k, p) => Base(k, q)
  <2>1. Base(k, p) => Moded(k, p)
    BY DEF Base
  <2>. QED
    BY <1>1, <1>2, <2>1, BaseKept
<1>4. Progress(k, p) => Progress(k, q)
  <2>1. Covered(k.cmds, Replied(k), p.set) => Covered(k.cmds, Replied(k), q.set)
    BY <1>1, Zenon DEF Covered
  <2>. QED
    BY <1>1, <2>1 DEF Progress
<1>5. Cleaned(k, p) => Cleaned(k, q)
  BY <1>1 DEF Cleaned
<1>6. Rested(k, p) => Rested(k, q)
  BY <1>1, BaseKept
<1>7. Whole(k, p) => Whole(k, q)
  BY <1>1, BaseKept
<1>8. Conf(k, p) => Conf(k, q)
  BY <1>3, <1>4, <1>5, <1>6 DEF Conf, Fine
<1>. QED
  BY <1>3, <1>7, <1>8 DEF Sound

LEMMA ShownParts ==
    ASSUME NEW g, NEW t, NEW s
    PROVE  LET p == Shown(g, t, s)
           IN  /\ p.disks = IF Intact(g, t, s) THEN ToSet(g.formatted) ELSE Nat
               /\ p.saved = g.saved \cup (IF s.unseen THEN Values ELSE {})
               /\ p.set = g.saved \cup g.draft \cup (IF Seen(g, s) THEN {} ELSE Values)
               /\ p.clean <=> (Seen(g, s) => Clean(g))
               /\ p.more <=> (Cut(s) \/ g.mode = "more")
               /\ p.two <=> (Cut(s) \/ (g.up => Stage(g, 2)))
               /\ p.one <=> (Cut(s) \/ (g.up => Stage(g, 1)))
               /\ p.cut <=> Cut(s)
<1>. DEFINE a == IF Intact(g, t, s) THEN ToSet(g.formatted) ELSE Nat
            b == g.saved \cup (IF s.unseen THEN Values ELSE {})
            c == g.saved \cup g.draft \cup (IF Seen(g, s) THEN {} ELSE Values)
            d == Seen(g, s) => Clean(g)
            f == Cut(s) \/ g.mode = "more"
            h == Cut(s) \/ (g.up => Stage(g, 2))
            i == Cut(s) \/ (g.up => Stage(g, 1))
            j == Cut(s)
<1>1. Shown(g, t, s) = [disks |-> a, saved |-> b, set |-> c, clean |-> d, more |-> f,
                        two |-> h, one |-> i, cut |-> j]
  BY DEF Shown
<1>. HIDE DEF a, b, c, d, f, h, i, j
<1>2. LET p == Shown(g, t, s)
      IN  /\ p.disks = a /\ p.saved = b /\ p.set = c /\ (p.clean = d) /\ (p.more = f)
          /\ (p.two = h) /\ (p.one = i) /\ (p.cut = j)
  BY <1>1
<1>. QED
  BY <1>2, Zenon DEF a, b, c, d, f, h, i, j

\* What is known of a guest that stays as it is.
LEMMA ShownGrows ==
    ASSUME NEW g, ToSet(g.formatted) \subseteq Nat, NEW t, NEW s, NEW v, NEW r,
           r.unseen = s.unseen, r.skipped = s.skipped, s.cleanupCut => r.cleanupCut,
           YesTyped(t) => YesTyped(v)
    PROVE  Growing(Shown(g, t, s), Shown(g, v, r))
<1>. DEFINE p == Shown(g, t, s)
            q == Shown(g, v, r)
<1>1. /\ p.disks = IF Intact(g, t, s) THEN ToSet(g.formatted) ELSE Nat
      /\ p.saved = g.saved \cup (IF s.unseen THEN Values ELSE {})
      /\ p.set = g.saved \cup g.draft \cup (IF Seen(g, s) THEN {} ELSE Values)
      /\ p.clean <=> (Seen(g, s) => Clean(g))
      /\ p.more <=> (Cut(s) \/ g.mode = "more")
      /\ p.two <=> (Cut(s) \/ (g.up => Stage(g, 2)))
      /\ p.one <=> (Cut(s) \/ (g.up => Stage(g, 1)))
      /\ p.cut <=> Cut(s)
  BY ShownParts, Zenon
<1>2. /\ q.disks = IF Intact(g, v, r) THEN ToSet(g.formatted) ELSE Nat
      /\ q.saved = g.saved \cup (IF r.unseen THEN Values ELSE {})
      /\ q.set = g.saved \cup g.draft \cup (IF Seen(g, r) THEN {} ELSE Values)
      /\ q.clean <=> (Seen(g, r) => Clean(g))
      /\ q.more <=> (Cut(r) \/ g.mode = "more")
      /\ q.two <=> (Cut(r) \/ (g.up => Stage(g, 2)))
      /\ q.one <=> (Cut(r) \/ (g.up => Stage(g, 1)))
      /\ q.cut <=> Cut(r)
  BY ShownParts, Zenon
<1>. HIDE DEF p, q
<1>3. (Intact(g, v, r) => Intact(g, t, s)) /\ (Seen(g, r) <=> Seen(g, s)) /\ (Cut(s) => Cut(r))
  BY DEF Intact, Seen, Cut
<1>4. p.disks \subseteq q.disks
  BY <1>1, <1>2, <1>3
<1>5. p.saved = q.saved
  BY <1>1, <1>2
<1>6. p.set = q.set
  BY <1>1, <1>2, <1>3
<1>7. (p.clean => q.clean) /\ (p.cut => q.cut)
  BY <1>1, <1>2, <1>3
<1>8. (p.more => q.more) /\ (p.two => q.two) /\ (p.one => q.one)
  BY <1>1, <1>2, <1>3
<1>9. Growing(p, q)
  BY <1>4, <1>5, <1>6, <1>7, <1>8 DEF Growing, Keeping
<1>. QED
  BY <1>9 DEF p, q

LEMMA InitConfInv == Init => ConfInv
<1>. SUFFICES ASSUME Init PROVE ConfInv
  OBVIOUS
<1>1. DiskInv
  BY InitDiskInv
<1>2. /\ cli.queue = Queue /\ cli.active = NoFeature /\ cli.completed = {}
      /\ cli.cmds = <<>> /\ cli.pending = <<>> /\ cli.inflight = NoAttempt
      /\ cli.cleanup = <<>> /\ ~cli.inCleanup /\ cli.std = "none" /\ ~cli.restore
      /\ cli.target = NoContext /\ ~cli.inReset /\ ~cli.ready /\ ~cli.raised
  BY DEF Init
<1>3. guest.mode = "more" /\ guest.draft = {} /\ phase = "starting"
  BY DEF Init
<1>. DEFINE p == Shown(guest, typed, seen)
<1>4. p.more
  <2>1. p.more <=> (Cut(seen) \/ guest.mode = "more")
    BY ShownParts, Zenon
  <2>. QED
    BY <1>3, <2>1
<1>. HIDE DEF p
<1>5. Idle(cli) /\ ~Static(cli) /\ cli.active # DiskFormat /\ ToRestore(cli) = 0
  BY <1>2 DEF Idle, Static, NoFeature, DiskFormat, ToRestore
<1>6. Setting(cli)
  BY <1>2, <1>5, ConfBlocks DEF Setting
<1>7. Base(cli, p)
  <2>1. Held(cli, p)
    BY <1>2 DEF Held
  <2>2. Aimed(cli) /\ Ending(cli)
    BY <1>2 DEF Aimed, Ending
  <2>3. Behind(cli, p) /\ Account(cli, p) /\ Moded(cli, p)
    BY <1>4, <1>5 DEF Behind, Account, Moded
  <2>. QED
    BY <1>6, <2>1, <2>2, <2>3 DEF Base
<1>8. Rested(cli, p) /\ Whole(cli, p) /\ YesRun(cli, typed, p)
  BY <1>5 DEF Rested, Whole, YesRun
<1>9. Told(cli, guest, typed, rx, seen)
  BY <1>5, <1>7, <1>8 DEF Told, p
<1>. QED
  BY <1>1, <1>2, <1>3, <1>9 DEF ConfInv

LEMMA ConfPartsAre ==
    ASSUME NEW k, NEW d, ConfParts(d) = ConfParts(k)
    PROVE  /\ d.active = k.active /\ d.cmds = k.cmds /\ d.pending = k.pending
           /\ d.inflight = k.inflight /\ d.cleanup = k.cleanup /\ d.inCleanup = k.inCleanup
           /\ d.inReset = k.inReset /\ d.std = k.std /\ d.disk = k.disk /\ d.ready = k.ready
           /\ (Idle(d) <=> Idle(k)) /\ (Static(d) <=> Static(k)) /\ Led(d) = Led(k)
           /\ ToRestore(d) = ToRestore(k) /\ (Changes(d) <=> Changes(k))
<1>1. /\ d.active = k.active /\ d.cmds = k.cmds /\ d.pending = k.pending
      /\ d.inflight = k.inflight /\ d.cleanup = k.cleanup /\ d.inCleanup = k.inCleanup
      /\ d.inReset = k.inReset /\ d.std = k.std /\ d.disk = k.disk /\ d.ready = k.ready
  BY DEF ConfParts
<1>. QED
  BY <1>1 DEF Idle, Static, Led, ToRestore, Changes

\* A return is not the command in flight.
LEMMA NotReturn ==
    ASSUME NEW c \in Cmds
    PROVE  <<c>> # <<Return>> /\ <<c>> # <<>> /\ <<Return>> # <<>>
<1>1. c # Return
  BY CommandsKinds
<1>2. ASSUME NEW a, NEW b, a # b PROVE <<a>> # <<b>> /\ <<a>> # <<>> /\ <<b>> # <<>>
  BY <1>2
<1>. QED
  BY <1>1, <1>2

\* The commander and the guest stay as they are; no prompt is read.
LEMMA ToldKept ==
    ASSUME NEW k, ~Idle(k) => k.inflight.cmd \in Cmds, NEW d, ConfParts(d) = ConfParts(k),
           NEW g, ToSet(g.formatted) \subseteq Nat, NEW t, NEW s, NEW v, NEW r, NEW w, NEW u,
           v = t \/ (t = <<>> /\ v = <<Return>>),
           u.unseen = s.unseen, u.skipped = s.skipped, s.cleanupCut => u.cleanupCut,
           \A i \in 1..Len(w) : \E j \in 1..Len(r) : w[i] = r[j],
           \A j \in 1..Len(r) : r[j].st = "prompt" => \E i \in 1..Len(w) : w[i] = r[j],
           Told(k, g, t, r, s)
    PROVE  Told(d, g, v, w, u)
<1>1. /\ d.active = k.active /\ d.cmds = k.cmds /\ d.pending = k.pending
      /\ d.inflight = k.inflight /\ d.cleanup = k.cleanup /\ d.inCleanup = k.inCleanup
      /\ d.inReset = k.inReset /\ d.std = k.std /\ d.disk = k.disk
      /\ (Idle(d) <=> Idle(k)) /\ (Static(d) <=> Static(k)) /\ Led(d) = Led(k)
      /\ ToRestore(d) = ToRestore(k) /\ (Changes(d) <=> Changes(k))
  BY ConfPartsAre
<1>2. YesTyped(t) <=> YesTyped(v)
  <2>1. <<Return>> # <<>> /\ Head(<<Return>>) = Return
    OBVIOUS
  <2>2. ~YesTyped(<<Return>>) /\ ~YesTyped(<<>>)
    BY <2>1, ReturnOpens DEF YesTyped
  <2>. QED
    BY <2>2
<1>3. ~Idle(k) => (v = <<k.inflight.cmd>> <=> t = <<k.inflight.cmd>>)
  BY NotReturn
<1>. DEFINE p == Shown(g, t, s)
            q == Shown(g, v, u)
<1>4. Growing(p, q)
  BY <1>2, ShownGrows
<1>. HIDE DEF p, q
<1>5. Base(k, p) /\ Rested(k, p) /\ Whole(k, p) /\ YesRun(k, t, p)
  BY DEF Told, p
<1>6. /\ Base(d, q) /\ Rested(d, q) /\ Whole(d, q) /\ YesRun(d, v, q)
  <2>1. Base(k, q) /\ Rested(k, q) /\ Whole(k, q) /\ YesRun(k, t, q)
    BY <1>4, <1>5, SoundGrown, BaseKept DEF Growing
  <2>2. Base(d, q)
    BY <2>1, SameConf
  <2>. QED
    BY <1>1, <1>2, <2>1, <2>2 DEF Rested, Whole, YesRun
<1>7. ASSUME ~u.unseen, ~Idle(d), ~d.inCleanup, ~d.inReset, Static(d)
      PROVE  BlockRun(d, g, v, w)
  <2>1. BlockRun(k, g, t, r)
    BY <1>1, <1>7 DEF Told
  <2>2. Place(d, v) = Place(k, t) /\ Done(d, v) = Done(k, t)
    BY <1>1, <1>3, <1>7 DEF Place, Done
  <2>3. Refused(k, r) => Refused(d, w)
    BY <1>1 DEF Refused
  <2>4. SavedAtTop(d, g, w)
    <3>. SUFFICES ASSUME Led(d) = <<>>, NEW i \in 1..Len(w), w[i].st = "prompt",
                         ~Invalid(d.inflight, w[i]), w[i].ctx = <<>>
                  PROVE  Covered(d.cmds, d.inflight.index, g.saved)
      BY Zenon DEF SavedAtTop
    <3>1. PICK j \in 1..Len(r) : w[i] = r[j]
      OBVIOUS
    <3>. QED
      BY <1>1, <2>1, <3>1 DEF BlockRun, SavedAtTop
  <2>5. Setup(d, g, v, w)
    BY <1>1, <2>1, <2>2, <2>3 DEF BlockRun, Setup
  <2>6. Within(d, g, v)
    BY <1>1, <2>1, <2>2 DEF BlockRun, Within
  <2>. QED
    BY <2>4, <2>5, <2>6 DEF BlockRun
<1>8. ASSUME ~Cut(u), ~Idle(d), d.inCleanup PROVE CleanupRun(d, g, v, w)
  <2>1. CleanupRun(k, g, t, r)
    BY <1>1, <1>8 DEF Told, Cut
  <2>. QED
    BY <1>1, <1>3, <1>8, <2>1 DEF CleanupRun
<1>. QED
  BY <1>6, <1>7, <1>8 DEF Told, q

\* A command of a block that is in flight stands behind the answered ones.
LEMMA BlockPlace ==
    ASSUME NEW k, Good(k), Fly(k), ~k.inCleanup, ~k.inReset
    PROVE  /\ InBlock(k) /\ k.inflight.index \in 1..Len(k.cmds) /\ Len(k.cmds) \in Nat
           /\ k.inflight.index = Replied(k) + 1 /\ Replied(k) \in Nat
           /\ k.inflight.index = Len(k.cmds) - Len(k.pending)
           /\ k.inflight.cmd = k.cmds[k.inflight.index]
           /\ k.inflight.before = Intended(k.cmds, k.inflight.index)
           /\ ScopedBlock(k.cmds) /\ Plan(k)
<1>1. InBlock(k) /\ ~Idle(k) /\ Plan(k)
  BY DEF Fly, Typed, InCleanup, InReset
<1>2. /\ k.inflight.index = Len(k.cmds) - Len(k.pending) /\ k.inflight.index >= 1
      /\ k.inflight.cmd = k.cmds[k.inflight.index]
      /\ k.inflight.before = Intended(k.cmds, k.inflight.index)
  BY <1>1 DEF InBlock
<1>3. Len(k.cmds) \in Nat /\ Len(k.pending) \in Nat /\ k.inflight.index \in Nat
  BY DEF Good, Typing, IsBlock
<1>4. Replied(k) = Len(k.cmds) - Len(k.pending) - 1
  BY <1>1 DEF Replied
<1>. DEFINE a == Len(k.cmds)
            b == Len(k.pending)
            i == k.inflight.index
            n == Replied(k)
<1>5. i \in 1..a /\ i = n + 1 /\ n \in Nat
  <2>1. /\ i = a - b /\ i >= 1 /\ n = a - b - 1
        /\ a \in Nat /\ b \in Nat /\ i \in Nat
    BY <1>2, <1>3, <1>4
  <2>. HIDE DEF a, b, i, n
  <2>. QED
    BY <2>1
<1>6. ScopedBlock(k.cmds)
  BY <1>1 DEF Plan
<1>. QED
  BY <1>1, <1>2, <1>3, <1>5, <1>6

\* The commander has typed a command, or none.
LEMMA ToldMoved ==
    ASSUME NEW d, Good(d), Healthy(d), Moved(d), NEW k, ConfParts(k) = ConfParts(d),
           NEW g, ToSet(g.formatted) \subseteq Nat, g.ctx = <<>> => g.draft = {},
           NEW t, NEW u, Sound(d, Shown(g, t, u)), NEW w, NEW v,
           IF d.out = <<>> THEN v = t
           ELSE /\ v = <<d.inflight.cmd>> /\ t = <<>> /\ Quiet(w)
                /\ ~u.unseen => Fly(d) /\ (g.up => g.ctx = d.inflight.before)
    PROVE  Told(k, g, v, w, u)
<1>1. /\ k.active = d.active /\ k.cmds = d.cmds /\ k.pending = d.pending
      /\ k.inflight = d.inflight /\ k.inCleanup = d.inCleanup /\ k.cleanup = d.cleanup
      /\ k.inReset = d.inReset /\ k.std = d.std /\ k.disk = d.disk
      /\ (Idle(k) <=> Idle(d)) /\ (Static(k) <=> Static(d))
      /\ ToRestore(k) = ToRestore(d) /\ (Changes(k) <=> Changes(d))
  BY ConfPartsAre
<1>. DEFINE p == Shown(g, t, u)
            q == Shown(g, v, u)
<1>2. YesTyped(t) => YesTyped(v)
  BY DEF YesTyped
<1>3. Growing(p, q)
  BY <1>2, ShownGrows
<1>4. /\ p.set = g.saved \cup g.draft \cup (IF Seen(g, u) THEN {} ELSE Values)
      /\ p.clean <=> (Seen(g, u) => Clean(g))
      /\ p.two <=> (Cut(u) \/ (g.up => Stage(g, 2)))
      /\ p.one <=> (Cut(u) \/ (g.up => Stage(g, 1)))
  BY ShownParts, Zenon
<1>. HIDE DEF p, q
<1>5. Conf(d, p) /\ Whole(d, p) /\ Sound(d, p)
  BY DEF Sound, p
<1>6. Base(k, q) /\ Rested(k, q) /\ Whole(k, q)
  <2>1. Conf(d, q) /\ Whole(d, q)
    BY <1>3, <1>5, SoundGrown, BaseKept DEF Growing
  <2>2. Conf(k, q)
    BY <2>1, SameConf
  <2>. QED
    BY <1>1, <2>1, <2>2 DEF Conf, Fine, Whole
<1>7. Idle(d) \/ d.out # <<>>
  BY DEF Moved, Healthy
<1>8. ASSUME d.out # <<>>
      PROVE  /\ v = <<d.inflight.cmd>> /\ t = <<>> /\ Quiet(w)
             /\ ~u.unseen => Fly(d) /\ (g.up => g.ctx = d.inflight.before)
  BY <1>8
<1>9. YesRun(k, v, q)
  <2>1. \A c : <<c>> # <<>> /\ Head(<<c>>) = c
    OBVIOUS
  <2>2. d.out # <<>> /\ d.inflight.cmd.op = "yes" => YesTyped(v)
    BY <1>8, <2>1 DEF YesTyped
  <2>. QED
    BY <1>1, <1>7, <2>2 DEF YesRun
<1>10. Quiet(w) => \A i \in 1..Len(w) : w[i].st # "prompt"
  BY DEF Quiet, Prompts
<1>11. ASSUME ~u.unseen, ~Idle(k), ~k.inCleanup, ~k.inReset, Static(k)
       PROVE  BlockRun(k, g, v, w)
  <2>1. Fly(d) /\ (g.up => g.ctx = d.inflight.before) /\ v = <<d.inflight.cmd>> /\ Quiet(w)
    BY <1>1, <1>7, <1>8, <1>11
  <2>2. /\ d.inflight.index = Replied(d) + 1 /\ Replied(d) \in Nat
        /\ d.inflight.before = Intended(d.cmds, d.inflight.index)
    BY <1>1, <1>11, <2>1, BlockPlace
  <2>3. Place(k, v) = d.inflight.before /\ Done(k, v) = Replied(d)
    BY <1>1, <2>1, <2>2 DEF Place, Done
  <2>4. ASSUME g.up, g.ctx = Place(k, v)
        PROVE  /\ Covered(d.cmds, Replied(d), g.saved \cup g.draft)
               /\ d.std # "set-standard" => Clean(g)
    <3>1. CASE Replied(d) > 0
      <4>1. /\ Covered(d.cmds, Replied(d), p.set)
            /\ d.std # "set-standard" => p.clean
        BY <1>1, <1>5, <1>11, <3>1 DEF Conf, Fine, Progress
      <4>2. Seen(g, u) /\ p.set = g.saved \cup g.draft
        BY <1>4, <1>11, <2>4 DEF Seen
      <4>. QED
        BY <1>4, <4>1, <4>2
    <3>2. CASE ~(Replied(d) > 0)
      <4>1. Replied(d) = 0 /\ d.inflight.index = 1
        BY <2>2, <3>2
      <4>2. g.ctx = <<>>
        BY <2>2, <2>3, <2>4, <4>1, IntendedScopes
      <4>. QED
        BY <4>1, <4>2 DEF Covered, Clean
    <3>. QED
      BY <3>1, <3>2
  <2>5. Setup(k, g, v, w)
    BY <1>1, <2>3, <2>4 DEF Setup
  <2>6. SavedAtTop(k, g, w)
    BY <1>10, <2>1 DEF SavedAtTop
  <2>7. Within(k, g, v)
    BY <2>1, <2>3 DEF Within
  <2>. QED
    BY <2>5, <2>6, <2>7 DEF BlockRun
<1>12. ASSUME ~Cut(u), ~Idle(k), k.inCleanup PROVE CleanupRun(k, g, v, w)
  <2>1. Fly(d) /\ (g.up => g.ctx = d.inflight.before) /\ v = <<d.inflight.cmd>> /\ Quiet(w)
    BY <1>1, <1>7, <1>8, <1>12 DEF Cut
  <2>2. /\ Len(d.cleanup) < 3 /\ CleanupScope(d.inflight.before, Len(d.cleanup) + 1)
    BY <1>1, <1>12, <2>1 DEF Fly, Typed, InBlock, InCleanup, InReset
  <2>3. Len(d.cleanup) \in Nat /\ ToRestore(d) = Len(d.cleanup) + 1
    BY <1>1, <1>12 DEF Good, Typing, ToRestore
  <2>4. ToRestore(d) \in 1..3 /\ CleanupScope(d.inflight.before, ToRestore(d))
    BY <2>2, <2>3
  <2>5. Cleaned(d, p)
    BY <1>5 DEF Conf, Fine
  <2>6. g.up => Stage(g, ToRestore(d))
    <3>. SUFFICES ASSUME g.up PROVE Stage(g, ToRestore(d))
      OBVIOUS
    <3>1. CASE ToRestore(d) = 3
      <4>1. g.ctx = <<>>
        BY <2>1, <2>4, <3>1 DEF CleanupScope
      <4>. QED
        BY <3>1, <4>1 DEF Stage
    <3>2. CASE ToRestore(d) = 2
      BY <1>4, <1>12, <2>5, <3>2 DEF Cleaned
    <3>3. CASE ToRestore(d) = 1
      BY <1>4, <1>12, <2>5, <3>3 DEF Cleaned
    <3>. QED
      BY <2>4, <3>1, <3>2, <3>3
  <2>7. ToRestore(k) - 0 = ToRestore(d)
    BY <1>1, <2>3
  <2>. QED
    BY <1>1, <1>10, <2>1, <2>6, <2>7 DEF CleanupRun
<1>. QED
  BY <1>6, <1>9, <1>11, <1>12 DEF Told, q

LEMMA SettingsOfBlock ==
    ASSUME NEW b, IsBlock(b)
    PROVE  /\ Len(b) \in Nat /\ \A i \in 1..Len(b) : b[i] \in Cmds /\ b[i].arg \in Values
           /\ Checks(b) \subseteq Values
           /\ \A n \in Nat : \A V : n <= Len(b) /\ Values \subseteq V => Covered(b, n, V)
           /\ \A V : Covered(b, Len(b), V) <=> Checks(b) \subseteq V
<1>1. b \in Seq(Cmds) /\ Len(b) \in Nat /\ \A i \in 1..Len(b) : b[i] \in Cmds
  BY DEF IsBlock
<1>2. \A c \in Cmds : c.arg \in Values
  BY DEF Values
<1>3. ToSet(b) = {b[i] : i \in 1..Len(b)}
  BY <1>1 DEF ToSet
<1>4. \A i \in 1..Len(b) : b[i] \in Cmds /\ b[i].arg \in Values
  BY <1>1, <1>2
<1>5. Checks(b) \subseteq Values
  BY <1>3, <1>4 DEF Checks
<1>6. ASSUME NEW n \in Nat, NEW V, n <= Len(b), Values \subseteq V PROVE Covered(b, n, V)
  <2>1. \A i \in 1..n : i \in 1..Len(b)
    BY <1>1, <1>6
  <2>. QED
    BY <1>4, <1>6, <2>1 DEF Covered
<1>7. \A V : Covered(b, Len(b), V) <=> Checks(b) \subseteq V
  BY <1>3 DEF Covered, Checks
<1>. QED
  BY <1>1, <1>4, <1>5, <1>6, <1>7

\* Only a command that asks is answered by anything but a prompt.
LEMMA AskingSets ==
    \A c \in Cmds : c.at # {"prompt"} => c.op \in {"format", "yes"}
<1>. SUFFICES ASSUME NEW c \in Cmds, c.at # {"prompt"} PROVE c.op \in {"format", "yes"}
  OBVIOUS
<1>1. \A o, a : Cmd(o, a).at = {"prompt"} /\ Cmd(o, a).op = o
  BY DEF Cmd
<1>2. \A d : FormatSpec(d).op = "format" /\ YesSpec(d).op = "yes"
  BY DEF FormatSpec, YesSpec, Cmd
<1>3. \A s \in Own : s.at = {"prompt"}
  <2>1. \A s \in Own : \E o, a : s = Cmd(o, a)
    BY Zenon DEF Own, Inspect
  <2>. QED
    BY <1>1, <2>1
<1>4. \A s \in Written : s.at = {"prompt"}
  BY FosAssumption
<1>. QED
  BY <1>2, <1>3, <1>4 DEF Cmds

LEMMA ConfInvFacts ==
    ASSUME ConfInv
    PROVE  /\ ScopeInv /\ FosInv /\ Good(cli) /\ cli.out = <<>> /\ GuestIs(guest)
           /\ typed \in Seq(Cmds \cup {Return}) /\ rx \in Seq(Events) /\ OneLine(typed, rx)
           /\ LineOrdered(guest, rx)
           /\ Disked(cli, LastDisk(guest.formatted)) /\ ToSet(guest.formatted) \subseteq Nat
           /\ ~Idle(cli) => cli.inflight.cmd \in Cmds
           /\ Calm(cli) => Healthy(cli) /\ ~GaveUp(cli)
           /\ phase = "starting" /\ Healthy(cli) => Calm(cli)
           /\ Calm(cli) /\ ~seen.unseen => OnCourse(cli)
           /\ Calm(cli) /\ ~seen.unseen /\ phase = "starting" =>
                  Watched(cli, guest, typed, rx)
<1>1. DiskInv /\ (phase = "starting" => ~cli.ready /\ ~cli.raised)
  BY DEF ConfInv
<1>2. /\ ScopeInv /\ guest.formatted \in Seq(2..(Disks + 1))
      /\ Disked(cli, LastDisk(guest.formatted))
  BY <1>1 DEF DiskInv
<1>3. FosInv /\ LineOrdered(guest, rx)
  BY <1>2 DEF ScopeInv
<1>4. /\ Good(cli) /\ cli.out = <<>> /\ GuestIs(guest)
      /\ typed \in Seq(Cmds \cup {Return}) /\ rx \in Seq(Events) /\ OneLine(typed, rx)
  BY <1>3 DEF FosInv, CliSound, GuestSound, LineSound, GuestIs
<1>5. ToSet(guest.formatted) \subseteq Nat
  <2>. DEFINE S == 2..(Disks + 1)
  <2>1. guest.formatted \in Seq(S) /\ \A n \in S : n \in Nat
    BY <1>2
  <2>. HIDE DEF S
  <2>2. \A i \in 1..Len(guest.formatted) : guest.formatted[i] \in S
    BY <2>1
  <2>. QED
    BY <2>1, <2>2 DEF ToSet
<1>6. ~Idle(cli) => cli.inflight.cmd \in Cmds
  BY <1>4 DEF Good, Typing
<1>7. Calm(cli) => Healthy(cli) /\ ~GaveUp(cli)
  BY DEF Calm, Healthy, GaveUp
<1>8. phase = "starting" /\ Healthy(cli) => Calm(cli)
  BY <1>1 DEF Calm, Healthy
<1>9. Calm(cli) /\ ~seen.unseen => OnCourse(cli)
  BY <1>2, <1>7 DEF ScopeInv, OnCourseOrNot
<1>10. Calm(cli) /\ ~seen.unseen /\ phase = "starting" => Watched(cli, guest, typed, rx)
  BY <1>2, <1>7 DEF ScopeInv, Ongoing
<1>. QED
  BY <1>2, <1>3, <1>4, <1>5, <1>6, <1>7, <1>8, <1>9, <1>10

\* An answer is what the commander takes it for.
LEMMA EffectShown ==
    ASSUME ConfInv, phase = "starting", rx # <<>>, NEW e, e = Head(rx),
           Calm(cli), ~Idle(cli), ~cli.inReset, ~Invalid(cli.inflight, e),
           e.st \in cli.inflight.cmd.at,
           ~(e.st = "prompt" /\ PromptContextChanged([cli EXCEPT !.ctx = e.ctx],
                                                     cli.inflight)),
           NEW u, u.unseen = seen.unseen, u.skipped = seen.skipped,
           seen.cleanupCut => u.cleanupCut
    PROVE  Effect(cli, e, Shown(guest, typed, u))
<1>1. /\ Good(cli) /\ GuestIs(guest) /\ rx \in Seq(Events) /\ OneLine(typed, rx)
      /\ LineOrdered(guest, rx) /\ Disked(cli, LastDisk(guest.formatted))
      /\ ToSet(guest.formatted) \subseteq Nat /\ cli.inflight.cmd \in Cmds
      /\ Healthy(cli)
      /\ ~seen.unseen => OnCourse(cli) /\ Watched(cli, guest, typed, rx)
  BY ConfInvFacts
<1>2. Told(cli, guest, typed, rx, seen)
  BY <1>1 DEF ConfInv
<1>. DEFINE p == Shown(guest, typed, u)
<1>3. /\ p.disks = IF Intact(guest, typed, u) THEN ToSet(guest.formatted) ELSE Nat
      /\ p.saved = guest.saved \cup (IF u.unseen THEN Values ELSE {})
      /\ p.set = guest.saved \cup guest.draft \cup (IF Seen(guest, u) THEN {} ELSE Values)
      /\ p.clean <=> (Seen(guest, u) => Clean(guest))
      /\ p.more <=> (Cut(u) \/ guest.mode = "more")
      /\ p.two <=> (Cut(u) \/ (guest.up => Stage(guest, 2)))
      /\ p.one <=> (Cut(u) \/ (guest.up => Stage(guest, 1)))
      /\ p.cut <=> Cut(u)
  BY ShownParts, Zenon
<1>4. Growing(Shown(guest, typed, seen), p)
  BY <1>1, ShownGrows
<1>. HIDE DEF p
<1>5. e = rx[1] /\ 1 \in 1..Len(rx) /\ e \in Events
  BY <1>1, TailOfLine, TailElements
<1>6. e.st \in Prompts /\ typed = <<>> /\ \A i \in 1..Len(rx) : rx[i].st = "prompt" => i = 1
  <2>1. e.st \in Prompts
    BY <1>1, PromptAnswers DEF Prompts
  <2>2. typed = <<>> /\ OneAnswer(rx)
    BY <1>1, <1>5, <2>1 DEF OneLine, Quiet
  <2>. QED
    BY <1>5, <2>1, <2>2 DEF OneAnswer, Prompts
<1>7. typed # <<cli.inflight.cmd>> /\ ~YesTyped(typed)
  BY <1>1, <1>6, NotReturn DEF YesTyped
<1>8. ~seen.unseen => Fly(cli)
  BY <1>1, FlyOrRest
<1>9. ASSUME cli.inCleanup
      PROVE  /\ ToRestore(cli) = 3 => p.two
             /\ ToRestore(cli) = 2 => p.one
             /\ ToRestore(cli) = 1 => p.more
  <2>1. CASE Cut(u)
    BY <1>3, <2>1
  <2>2. CASE ~Cut(u)
    <3>1. ~seen.unseen /\ ~Cut(seen)
      BY <2>2 DEF Cut
    <3>2. CleanupRun(cli, guest, typed, rx)
      BY <1>2, <1>9, <3>1 DEF Told
    <3>3. guest.up => Stage(guest, ToRestore(cli) - 1)
      BY <1>7, <3>2 DEF CleanupRun
    <3>4. cli.inflight.cmd.at = {"prompt"}
      <4>1. Len(cli.cleanup) < 3 /\ cli.inflight.cmd = SetMore[3 - Len(cli.cleanup)]
        BY <1>8, <1>9, <3>1 DEF Fly, Typed, InBlock, InCleanup, InReset
      <4>2. Len(cli.cleanup) \in Nat
        BY <1>1 DEF Good, Typing
      <4>. DEFINE l == Len(cli.cleanup)
      <4>3. 3 - l \in 1..3
        <5>1. l \in Nat /\ l < 3
          BY <4>1, <4>2
        <5>. HIDE DEF l
        <5>. QED
          BY <5>1
      <4>. QED
        BY <4>1, <4>3, OtherAnswers
    <3>5. ToRestore(cli) = 1 => guest.mode = "more"
      BY <1>5, <3>2, <3>4 DEF CleanupRun
    <3>. QED
      BY <1>3, <3>3, <3>5
  <2>. QED
    BY <2>1, <2>2
<1>10. ASSUME ~cli.inCleanup, Static(cli)
       PROVE  IF cli.pending = <<>> THEN Checks(cli.cmds) \subseteq p.saved
              ELSE /\ Covered(cli.cmds, Replied(cli) + 1, p.set)
                   /\ cli.std # "set-standard" => p.clean
  <2>1. IsBlock(cli.cmds) /\ IsBlock(cli.pending) /\ Len(cli.pending) <= Len(cli.cmds)
    BY <1>1 DEF Good, Typing
  <2>2. CASE seen.unseen
    <3>1. Values \subseteq p.saved /\ ~Seen(guest, u) /\ Values \subseteq p.set
      BY <1>3, <2>2 DEF Seen
    <3>2. cli.pending # <<>> => Replied(cli) + 1 \in Int /\ Replied(cli) + 1 <= Len(cli.cmds)
      <4>1. Len(cli.cmds) \in Nat /\ Len(cli.pending) \in Nat
        BY <2>1 DEF IsBlock
      <4>2. Replied(cli) = Len(cli.cmds) - Len(cli.pending) - 1
        BY DEF Replied
      <4>. DEFINE a == Len(cli.cmds)
                  b == Len(cli.pending)
      <4>3. a \in Nat /\ b \in Nat /\ Replied(cli) = a - b - 1
        BY <4>1, <4>2
      <4>. HIDE DEF a, b
      <4>4. Replied(cli) + 1 \in Int /\ Replied(cli) + 1 <= a
        BY <4>3
      <4>. QED
        BY <4>4 DEF a
    <3>3. ASSUME NEW n \in Int, n <= Len(cli.cmds) PROVE Covered(cli.cmds, n, p.set)
      <4>1. CASE n \in Nat
        BY <2>1, <3>1, <3>3, <4>1, SettingsOfBlock
      <4>2. CASE n \notin Nat
        BY <4>2, <3>3 DEF Covered
      <4>. QED
        BY <4>1, <4>2
    <3>4. Checks(cli.cmds) \subseteq p.saved
      BY <2>1, <3>1, SettingsOfBlock
    <3>. QED
      BY <1>3, <3>1, <3>2, <3>3, <3>4
  <2>3. CASE ~seen.unseen
    <3>1. /\ BlockRun(cli, guest, typed, rx) /\ Fly(cli) /\ Served(cli, guest, typed, rx)
      BY <1>1, <1>2, <1>8, <1>10, <2>3 DEF Told, Watched
    <3>2. /\ InBlock(cli) /\ cli.inflight.index \in 1..Len(cli.cmds) /\ Len(cli.cmds) \in Nat
          /\ cli.inflight.index = Replied(cli) + 1 /\ Replied(cli) \in Nat
          /\ cli.inflight.index = Len(cli.cmds) - Len(cli.pending)
          /\ cli.inflight.cmd = cli.cmds[cli.inflight.index]
          /\ cli.inflight.before = Intended(cli.cmds, cli.inflight.index)
          /\ ScopedBlock(cli.cmds) /\ Plan(cli)
      BY <1>1, <1>10, <3>1, BlockPlace
    <3>3. Led(cli) = Intended(cli.cmds, cli.inflight.index + 1)
      <4>. DEFINE i == cli.inflight.index
      <4>1. i \in Nat \ {0} /\ cli.inflight.cmd = cli.cmds[i]
            /\ cli.inflight.before = Intended(cli.cmds, i)
        <5>1. \A n \in Nat : \A j \in 1..n : j \in Nat \ {0}
          OBVIOUS
        <5>2. i \in Nat \ {0}
          BY <3>2, <5>1
        <5>. QED
          BY <3>2, <5>2, Zenon
      <4>2. Intended(cli.cmds, i + 1) = Enter(Intended(cli.cmds, i), cli.cmds[i])
        BY <4>1, IntendedScopes
      <4>. HIDE DEF i
      <4>3. Led(cli) = Intended(cli.cmds, i + 1)
        BY <4>1, <4>2 DEF Led
      <4>. QED
        BY <4>3 DEF i
    <3>4. Place(cli, typed) = Led(cli) /\ Done(cli, typed) = cli.inflight.index
      <4>. DEFINE i == cli.inflight.index
      <4>1. i \in Nat /\ i - 0 = i
        BY <3>2
      <4>2. Done(cli, typed) = i - 0
        BY <1>7, Zenon DEF Done
      <4>3. Place(cli, typed) = Led(cli)
        BY <1>7 DEF Place
      <4>. QED
        BY <4>1, <4>2, <4>3
    <3>5. e.st = "prompt" => e.ctx = Led(cli)
      <4>. SUFFICES ASSUME e.st = "prompt" PROVE e.ctx = Led(cli)
        OBVIOUS
      <4>1. CASE MayChangeContext(cli.inflight.cmd)
        BY <1>5, <3>1, <4>1 DEF Served, Changes
      <4>2. CASE ~MayChangeContext(cli.inflight.cmd)
        <5>1. Led(cli) = cli.inflight.before
          BY <4>2, LastingCommand DEF Led
        <5>. DEFINE f == [cli EXCEPT !.ctx = e.ctx]
        <5>2. f.ctx = e.ctx
          BY <1>1 DEF Good, Fields
        <5>. HIDE DEF f
        <5>3. NoContext \notin {cli.inflight.before, e.ctx}
          <6>1. e.ctx \in Seq(Args)
            BY <1>5 DEF Events
          <6>2. NoContext # cli.inflight.before
            BY <3>1 DEF Fly, Typed
          <6>. QED
            BY <6>1, <6>2, ScopeNotUnknown
        <5>4. ~PromptContextChanged(f, cli.inflight)
          BY DEF f
        <5>. QED
          BY <4>2, <5>1, <5>2, <5>3, <5>4 DEF PromptContextChanged
      <4>. QED
        BY <4>1, <4>2
    <3>6. CASE cli.pending = <<>>
      <4>1. cli.inflight.index = Len(cli.cmds)
        <5>1. Len(cli.pending) = 0
          BY <3>6
        <5>. QED
          BY <3>2, <5>1
      <4>2. Led(cli) = <<>>
        BY <3>2, <3>3, <4>1 DEF ScopedBlock
      <4>3. CASE e.st = "prompt"
        <5>1. Covered(cli.cmds, Len(cli.cmds), guest.saved)
          BY <1>5, <3>1, <3>5, <4>1, <4>2, <4>3 DEF BlockRun, SavedAtTop
        <5>2. Checks(cli.cmds) \subseteq guest.saved
          BY <2>1, <5>1, SettingsOfBlock
        <5>. QED
          BY <1>3, <3>6, <5>2
      <4>4. CASE e.st # "prompt"
        <5>1. cli.inflight.cmd.at # {"prompt"}
          BY <4>4
        <5>2. Len(cli.cmds) = 1 /\ cli.cmds[1].op \in {"format", "yes"}
          BY <1>1, <3>2, <4>1, <5>1, AskingSets DEF Plan, AnsweredByPrompts
        <5>3. Covered(cli.cmds, Len(cli.cmds), p.saved)
          BY <5>2 DEF Covered
        <5>4. Checks(cli.cmds) \subseteq p.saved
          BY <2>1, <5>3, SettingsOfBlock
        <5>. QED
          BY <3>6, <5>4
      <4>. QED
        BY <4>3, <4>4
    <3>7. CASE cli.pending # <<>>
      <4>1. e.st = "prompt" /\ e.ctx = Led(cli)
        BY <1>1, <3>1, <3>2, <3>5, <3>7, MidBlock DEF Fly
      <4>2. CASE guest.up
        <5>1. guest.ctx = Led(cli)
          BY <1>1, <1>5, <4>1, <4>2 DEF LineOrdered
        <5>2. ~Refused(cli, rx)
          BY <1>5, <1>6 DEF Refused
        <5>3. /\ Covered(cli.cmds, cli.inflight.index, guest.saved \cup guest.draft)
              /\ cli.std # "set-standard" => Clean(guest)
          BY <3>1, <3>4, <4>2, <5>1, <5>2 DEF BlockRun, Setup
        <5>4. Covered(cli.cmds, Replied(cli) + 1, p.set)
          <6>1. guest.saved \cup guest.draft \subseteq p.set
            BY <1>3
          <6>2. Covered(cli.cmds, cli.inflight.index, p.set)
            BY <5>3, <6>1 DEF Covered
          <6>. QED
            BY <3>2, <6>2
        <5>. QED
          BY <1>3, <3>7, <5>3, <5>4
      <4>3. CASE ~guest.up
        <5>1. Values \subseteq p.set /\ p.clean
          BY <1>3, <4>3 DEF Seen
        <5>2. Covered(cli.cmds, Replied(cli) + 1, p.set)
          BY <2>1, <3>2, <5>1, SettingsOfBlock
        <5>. QED
          BY <3>7, <5>1, <5>2
      <4>. QED
        BY <4>2, <4>3
    <3>. QED
      BY <3>6, <3>7
  <2>. QED
    BY <2>2, <2>3
<1>11. cli.active = DiskFormat /\ cli.stage = "reboot" /\ e.st = "rebooting" =>
           cli.disk \in p.disks
  <2>. SUFFICES ASSUME cli.active = DiskFormat, cli.stage = "reboot"
                PROVE  cli.disk \in p.disks
    OBVIOUS
  <2>1. cli.inflight.cmd.op = "yes"
    BY <1>1, ReplayedStages
  <2>2. cli.disk \in Shown(guest, typed, seen).disks
    BY <1>2, <1>7, <2>1 DEF Told, YesRun
  <2>. QED
    BY <1>4, <2>2 DEF Growing, Keeping
<1>. QED
  BY <1>9, <1>10, <1>11 DEF Effect, p

\* What a commander that reads a state, or waits in vain for one, knows of the guest.
LEMMA KnownConf ==
    ASSUME ConfInv, phase = "starting", Calm(cli), NEW u, u.unseen = seen.unseen,
           u.skipped = seen.skipped, seen.cleanupCut => u.cleanupCut
    PROVE  LET p == Shown(guest, typed, u)
           IN  /\ Base(cli, p)
               /\ Idle(cli) => Conf(cli, p) /\ Whole(cli, p)
               /\ ~Idle(cli) => p.cut \/ ~cli.recovering
<1>. DEFINE p == Shown(guest, typed, u)
            q == Shown(guest, typed, seen)
<1>1. /\ Good(cli) /\ Healthy(cli) /\ ToSet(guest.formatted) \subseteq Nat
      /\ ~seen.unseen => OnCourse(cli)
  BY ConfInvFacts
<1>2. Told(cli, guest, typed, rx, seen)
  BY <1>1 DEF ConfInv
<1>3. Growing(q, p)
  BY <1>1, ShownGrows
<1>4. /\ p.set = guest.saved \cup guest.draft \cup (IF Seen(guest, u) THEN {} ELSE Values)
      /\ p.clean <=> (Seen(guest, u) => Clean(guest))
      /\ p.two <=> (Cut(u) \/ (guest.up => Stage(guest, 2)))
      /\ p.one <=> (Cut(u) \/ (guest.up => Stage(guest, 1)))
      /\ p.cut <=> Cut(u)
  BY ShownParts, Zenon
<1>. HIDE DEF p, q
<1>5. Base(cli, q) /\ Rested(cli, q) /\ Whole(cli, q)
  BY <1>2 DEF Told, q
<1>6. Base(cli, p) /\ Rested(cli, p) /\ Whole(cli, p)
  BY <1>3, <1>5, SoundGrown, BaseKept DEF Growing
<1>7. ~Idle(cli) => p.cut \/ ~cli.recovering
  <2>1. ~Idle(cli) /\ ~seen.unseen => ~cli.recovering
    BY <1>1, FlyOrRest DEF Fly, Typed
  <2>. QED
    BY <1>4, <2>1 DEF Cut
<1>8. ASSUME Idle(cli) PROVE Progress(cli, p)
  <2>1. CASE seen.unseen
    <3>1. Values \subseteq p.set /\ p.clean
      BY <1>4, <2>1 DEF Seen
    <3>2. ASSUME Replied(cli) > 0 PROVE Covered(cli.cmds, Replied(cli), p.set)
      <4>1. IsBlock(cli.cmds) /\ Len(cli.cmds) \in Nat /\ Len(cli.pending) \in Nat
        BY <1>1 DEF Good, Typing, IsBlock
      <4>2. Replied(cli) = Len(cli.cmds) - Len(cli.pending) - 0
        BY <1>8 DEF Replied
      <4>. DEFINE a == Len(cli.cmds)
                  b == Len(cli.pending)
                  n == Replied(cli)
      <4>3. a \in Nat /\ b \in Nat /\ n = a - b - 0 /\ n > 0
        BY <3>2, <4>1, <4>2
      <4>4. n \in Nat /\ n <= a
        <5>. HIDE DEF a, b, n
        <5>. QED
          BY <4>3
      <4>. QED
        BY <3>1, <4>1, <4>4, SettingsOfBlock
    <3>. QED
      BY <3>1, <3>2 DEF Progress
  <2>2. CASE ~seen.unseen
    <3>1. cli.pending \in {<<>>, cli.cmds}
      BY <1>1, <1>8, <2>2, FlyOrRest DEF Rest
    <3>2. cli.pending # <<>> => ~(Replied(cli) > 0)
      <4>1. Len(cli.cmds) \in Nat
        BY <1>1 DEF Good, Typing, IsBlock
      <4>2. cli.pending = cli.cmds => Replied(cli) = Len(cli.cmds) - Len(cli.cmds) - 0
        BY <1>8 DEF Replied
      <4>. DEFINE a == Len(cli.cmds)
      <4>3. a \in Nat /\ (cli.pending = cli.cmds => Replied(cli) = a - a - 0)
        BY <4>1, <4>2
      <4>. HIDE DEF a
      <4>. QED
        BY <3>1, <4>3
    <3>. QED
      BY <1>8, <3>2 DEF Progress
  <2>. QED
    BY <2>1, <2>2
<1>9. ASSUME Idle(cli) PROVE Cleaned(cli, p)
  BY <1>4, <1>6, <1>9 DEF Cleaned, Whole
<1>10. Idle(cli) => Conf(cli, p)
  BY <1>6, <1>8, <1>9 DEF Conf, Fine
<1>. QED
  BY <1>6, <1>7, <1>10 DEF p

\* The states w are left of r, in which no prompt was read.
NoPromptRead(r, w) ==
    /\ \A i \in 1..Len(w) : \E j \in 1..Len(r) : w[i] = r[j]
    /\ \A j \in 1..Len(r) : r[j].st = "prompt" => \E i \in 1..Len(w) : w[i] = r[j]

\* The launcher takes over what the commander did.
LEMMA SpinConf ==
    ASSUME ConfInv, DiskInv', NEW d, Good(d), Spin(d), phase = "starting",
           seen'.unseen = seen.unseen, seen'.skipped = seen.skipped,
           seen.cleanupCut => seen'.cleanupCut,
           \/ Moved(d) /\ Sound(d, Shown(guest, typed, seen'))
           \/ Unmoved(cli, d) /\ (Calm(cli) => NoPromptRead(rx, rx')),
           d.ready => typed = <<>>,
           d.out # <<>> =>
               /\ typed = <<>> /\ ~Idle(d) /\ d.out = <<d.inflight.cmd>> /\ Quiet(rx')
               /\ ~seen'.unseen /\ ~GaveUp(d) /\ guest.up => guest.ctx = d.inflight.before
    PROVE  ConfInv'
<1>. DEFINE s == [d EXCEPT !.out = <<>>]
<1>1. /\ cli' = s /\ typed' = typed \o d.out /\ phase' = Outcome(d) /\ guest' = guest
  BY DEF Spin
<1>2. /\ ScopeParts(s) = ScopeParts(d) /\ ConfParts(s) = ConfParts(d)
      /\ s.errors = d.errors /\ s.error = d.error /\ s.raised = d.raised /\ s.ready = d.ready
      /\ s.known = d.known /\ s.authenticated = d.authenticated
      /\ s.recovering = d.recovering
  BY DEF Good, Fields, ScopeParts, ConfParts
<1>. HIDE DEF s
<1>3. /\ (guest.ctx = <<>> => guest.draft = {}) /\ ~cli.ready /\ ~cli.raised
      /\ Healthy(cli) => Told(cli, guest, typed, rx, seen)
  BY DEF ConfInv
<1>4. /\ ToSet(guest.formatted) \subseteq Nat /\ (~Idle(cli) => cli.inflight.cmd \in Cmds)
      /\ Calm(cli) <=> Healthy(cli)
      /\ typed \in Seq(Cmds \cup {Return})
  BY ConfInvFacts
<1>5. (Healthy(s) <=> Healthy(d)) /\ (GaveUp(s) <=> GaveUp(d)) /\ (Fly(s) <=> Fly(d))
      /\ (Idle(s) <=> Idle(d))
  BY <1>2, SameCourse DEF Healthy
<1>6. d.out = <<>> => typed' = typed
  BY <1>1, <1>4, ConcatEmptySeq
<1>7. d.out # <<>> => typed' = <<d.inflight.cmd>>
  <2>1. \A c : <<>> \o <<c>> = <<c>>
    OBVIOUS
  <2>. QED
    BY <1>1, <2>1
<1>8. CASE Unmoved(cli, d) /\ (Calm(cli) => NoPromptRead(rx, rx'))
  <2>1. /\ ConfParts(d) = ConfParts(cli) /\ d.out = <<>> /\ d.errors = cli.errors
        /\ d.error = cli.error /\ d.raised = cli.raised /\ d.ready = cli.ready
    BY <1>8, ConfPartsAre DEF Unmoved
  <2>2. Healthy(d) <=> Healthy(cli)
    BY <2>1 DEF Healthy
  <2>3. ConfParts(s) = ConfParts(cli)
    BY <1>2, <2>1
  <2>4. Healthy(cli) => Told(cli', guest', typed', rx', seen')
    <3>. SUFFICES ASSUME Healthy(cli) PROVE Told(s, guest, typed, rx', seen')
      BY <1>1, <1>6, <2>1
    <3>1. NoPromptRead(rx, rx') /\ Told(cli, guest, typed, rx, seen)
      BY <1>3, <1>4, <1>8
    <3>2. /\ \A i \in 1..Len(rx') : \E j \in 1..Len(rx) : rx'[i] = rx[j]
          /\ \A j \in 1..Len(rx) : rx[j].st = "prompt" =>
                 \E i \in 1..Len(rx') : rx'[i] = rx[j]
      BY <3>1 DEF NoPromptRead
    <3>. QED
      BY <1>4, <2>3, <3>1, <3>2, ToldKept
  <2>5. /\ phase' = "starting" => ~cli'.ready /\ ~cli'.raised
        /\ phase' # "running"
        /\ Healthy(cli') => phase' = "starting"
    BY <1>1, <1>2, <1>3, <1>5, <2>1 DEF Outcome, Healthy
  <2>. QED
    BY <1>1, <1>3, <1>5, <2>2, <2>4, <2>5 DEF ConfInv
<1>9. CASE Moved(d) /\ Sound(d, Shown(guest, typed, seen'))
  <2>1. ASSUME Healthy(d)
        PROVE  /\ d.ready => Idle(d) /\ d.out = <<>>
               /\ ~Idle(d) => ~GaveUp(d)
    <3>1. Ending(d)
      BY <1>9, <2>1 DEF Sound, Conf, Base
    <3>2. d.ready => Idle(d) /\ d.out = <<>>
      BY <3>1 DEF Ending
    <3>. QED
      BY <2>1, <3>2 DEF Healthy, GaveUp
  <2>2. ASSUME Healthy(d) PROVE Told(cli', guest', typed', rx', seen')
    <3>1. ASSUME d.out # <<>>, ~seen'.unseen
          PROVE  Fly(d) /\ (guest.up => guest.ctx = d.inflight.before)
      <4>1. ~Idle(d) /\ ~GaveUp(d)
        BY <2>1, <2>2, <3>1
      <4>2. ~GaveUp(cli') /\ ~Idle(cli')
        BY <1>1, <1>5, <4>1
      <4>3. ScopeInv'
        BY DEF DiskInv
      <4>4. seen'.unseen \/ OnCourseOrNot(cli')
        BY <4>3 DEF ScopeInv
      <4>5. OnCourse(cli')
        BY <3>1, <4>2, <4>4 DEF OnCourseOrNot
      <4>6. Fly(cli')
        BY <4>2, <4>5, FlyOrRest
      <4>. QED
        BY <1>1, <1>5, <3>1, <4>1, <4>6
    <3>2. IF d.out = <<>> THEN typed' = typed
          ELSE /\ typed' = <<d.inflight.cmd>> /\ typed = <<>> /\ Quiet(rx')
               /\ ~seen'.unseen => Fly(d) /\ (guest.up => guest.ctx = d.inflight.before)
      BY <1>6, <1>7, <3>1
    <3>. DEFINE u == seen'
                w == rx'
                v == typed'
    <3>3. Told(s, guest, v, w, u)
      <4>1. /\ Good(d) /\ Healthy(d) /\ Moved(d) /\ ConfParts(s) = ConfParts(d)
            /\ ToSet(guest.formatted) \subseteq Nat
            /\ guest.ctx = <<>> => guest.draft = {}
            /\ Sound(d, Shown(guest, typed, u))
            /\ IF d.out = <<>> THEN v = typed
               ELSE /\ v = <<d.inflight.cmd>> /\ typed = <<>> /\ Quiet(w)
                    /\ ~u.unseen => Fly(d) /\ (guest.up => guest.ctx = d.inflight.before)
        BY <1>2, <1>3, <1>4, <1>9, <2>2, <3>2
      <4>. HIDE DEF u, w, v
      <4>. QED
        BY <4>1, ToldMoved
    <3>. QED
      BY <1>1, <3>3
  <2>3. phase' = "running" => Healthy(cli') /\ cli'.ready
    BY <1>1, <1>2 DEF Outcome, Healthy
  <2>4. phase' = "running" => typed' = <<>>
    BY <1>1, <1>2, <1>5, <1>6, <2>1, <2>3
  <2>5. /\ phase' = "starting" => ~cli'.ready /\ ~cli'.raised
        /\ Healthy(cli') => phase' \in {"starting", "running"}
    BY <1>1, <1>2 DEF Outcome, Healthy
  <2>. QED
    BY <1>1, <1>3, <1>5, <2>2, <2>3, <2>4, <2>5 DEF ConfInv
<1>. QED
  BY <1>8, <1>9

LEMMA TailNoPrompt ==
    ASSUME NEW r \in Seq(Events), r # <<>>, Head(r).st # "prompt"
    PROVE  NoPromptRead(r, Tail(r))
<1>1. \A i \in 1..Len(Tail(r)) : \E j \in 1..Len(r) : Tail(r)[i] = r[j]
  BY TailElements
<1>2. ASSUME NEW j \in 1..Len(r), r[j].st = "prompt"
      PROVE  \E i \in 1..Len(Tail(r)) : Tail(r)[i] = r[j]
  <2>1. Head(r) = r[1]
    BY TailElements
  <2>2. j # 1
    BY <1>2, <2>1
  <2>3. Len(r) \in Nat /\ Len(Tail(r)) = Len(r) - 1
    OBVIOUS
  <2>4. j - 1 \in 1..Len(Tail(r))
    BY <2>2, <2>3
  <2>5. Tail(r)[j - 1] = r[j]
    BY <2>2, <2>3, <2>4
  <2>. QED
    BY <2>4, <2>5
<1>. QED
  BY <1>1, <1>2 DEF NoPromptRead

LEMMA ConfRead == ConfInv /\ Read => ConfInv'
<1>. SUFFICES ASSUME ConfInv, Read PROVE ConfInv'
  OBVIOUS
<1>. DEFINE e == Head(rx)
            d == OnState(cli, e)
<1>1. /\ rx # <<>> /\ rx' = Tail(rx) /\ phase = "starting" /\ e.st \notin {"echo", "rejected"}
      /\ Spin(d)
  BY DEF Read
<1>2. /\ ScopeInv /\ FosInv /\ Good(cli) /\ cli.out = <<>>
      /\ rx \in Seq(Events) /\ OneLine(typed, rx) /\ typed \in Seq(Cmds \cup {Return})
      /\ LineOrdered(guest, rx) /\ Disked(cli, LastDisk(guest.formatted))
      /\ ToSet(guest.formatted) \subseteq Nat /\ ~cli.ready /\ ~cli.raised
      /\ Calm(cli) => Told(cli, guest, typed, rx, seen)
  BY <1>1, ConfInvFacts DEF ConfInv
<1>3. DiskInv'
  BY DiskRead DEF ConfInv
<1>4. /\ seen'.unseen = seen.unseen /\ seen'.skipped = seen.skipped
      /\ seen'.cleanupCut <=> (seen.cleanupCut \/ (cli.inCleanup /\ cli'.recovering))
  <2>1. DOMAIN seen = SeenFields
    BY <1>2 DEF ScopeInv
  <2>. QED
    BY <2>1 DEF Read, SeenFields
<1>5. /\ Good(d) /\ d.known = e.st
      /\ \/ d.out = <<>>
         \/ /\ e.st \in Prompts /\ ~Idle(d)
            /\ d.inflight.cmd \in Cmds /\ d.out = <<d.inflight.cmd>>
  BY <1>2, OnStateGood
<1>6. cli'.recovering = d.recovering
  <2>1. cli' = [d EXCEPT !.out = <<>>] /\ DOMAIN d = Fields
    BY <1>1, <1>5 DEF Spin, Good
  <2>. HIDE DEF d
  <2>. QED
    BY <2>1 DEF Fields
<1>7. e.st \in Prompts => typed = <<>> /\ Quiet(Tail(rx))
  BY <1>1, <1>2, TailOfLine
<1>. DEFINE u == seen'
            p == Shown(guest, typed, u)
<1>8. /\ p.disks = IF Intact(guest, typed, u) THEN ToSet(guest.formatted) ELSE Nat
      /\ p.two <=> (Cut(u) \/ (guest.up => Stage(guest, 2)))
      /\ p.one <=> (Cut(u) \/ (guest.up => Stage(guest, 1)))
      /\ p.cut <=> Cut(u)
  BY ShownParts, Zenon
<1>9. /\ Calm(cli) => Base(cli, p)
      /\ Calm(cli) /\ Idle(cli) => Conf(cli, p) /\ Whole(cli, p)
      /\ Calm(cli) /\ ~Idle(cli) => p.cut \/ ~cli.recovering
  <2>. SUFFICES ASSUME Calm(cli)
                PROVE  /\ Base(cli, p)
                       /\ Idle(cli) => Conf(cli, p) /\ Whole(cli, p)
                       /\ ~Idle(cli) => p.cut \/ ~cli.recovering
    OBVIOUS
  <2>1. u.unseen = seen.unseen /\ u.skipped = seen.skipped /\ (seen.cleanupCut => u.cleanupCut)
    BY <1>4
  <2>. HIDE DEF u
  <2>. QED
    BY <1>1, <2>1, KnownConf
<1>10. cli.inCleanup /\ d.recovering => p.cut
  BY <1>4, <1>6, <1>8 DEF Cut
<1>11. ASSUME Calm(cli), ~Idle(cli), ~cli.inReset, e.st \in {"lost", "username"},
              cli.active = DiskFormat, cli.stage = "reboot"
       PROVE  cli.disk \in p.disks
  <2>1. cli.inflight.cmd.op = "yes"
    BY <1>2, <1>11, ReplayedStages
  <2>2. cli.disk \in Nat
    BY <1>2 DEF Good, Typing
  <2>3. ~guest.up
    <3>1. e = rx[1] /\ 1 \in 1..Len(rx)
      BY <1>1, <1>2, TailElements
    <3>. QED
      BY <1>2, <1>11, <3>1 DEF LineOrdered
  <2>4. CASE YesTyped(typed)
    BY <1>8, <2>2, <2>3, <2>4 DEF Intact
  <2>5. CASE ~YesTyped(typed)
    <3>1. cli.disk \in Shown(guest, typed, seen).disks
      BY <1>2, <1>11, <2>1, <2>5 DEF Told, YesRun
    <3>2. u.unseen = seen.unseen /\ u.skipped = seen.skipped
          /\ (seen.cleanupCut => u.cleanupCut)
      BY <1>4
    <3>. HIDE DEF u
    <3>3. Growing(Shown(guest, typed, seen), p)
      BY <1>2, <3>2, ShownGrows
    <3>. QED
      BY <3>1, <3>3 DEF Growing, Keeping
  <2>. QED
    BY <2>4, <2>5
<1>12. ASSUME Calm(cli), ~Idle(cli), ~cli.inReset, ~Invalid(cli.inflight, e),
              e.st \in cli.inflight.cmd.at,
              ~(e.st = "prompt" /\ PromptContextChanged([cli EXCEPT !.ctx = e.ctx],
                                                        cli.inflight))
       PROVE  Effect(cli, e, p)
  <2>1. u.unseen = seen.unseen /\ u.skipped = seen.skipped /\ (seen.cleanupCut => u.cleanupCut)
    BY <1>4
  <2>. HIDE DEF u
  <2>. QED
    BY <1>1, <1>12, <2>1, EffectShown
<1>13. /\ \/ Moved(d) /\ Sound(d, p)
          \/ Unmoved(cli, d) /\ (Calm(cli) => e.st # "prompt")
       /\ e.st \notin Prompts => ~d.ready
  <2>1. p.cut => p.one /\ p.two
    BY <1>8
  <2>. HIDE DEF p, e
  <2>. QED
    BY <1>2, <1>9, <1>10, <1>11, <1>12, <2>1, OnStateConf
<1>14. \/ Moved(d) /\ Sound(d, p)
       \/ Unmoved(cli, d) /\ (Calm(cli) => NoPromptRead(rx, rx'))
  <2>. HIDE DEF d, p
  <2>. QED
    BY <1>1, <1>2, <1>13, TailNoPrompt
<1>15. d.ready => typed = <<>>
  BY <1>7, <1>13
<1>16. ASSUME d.out # <<>>, ~seen.unseen, ~GaveUp(d), guest.up
       PROVE  guest.ctx = d.inflight.before
  <2>1. ~GaveUp(cli)
    BY <1>2, <1>16, OnStateScope
  <2>2. OnCourse(cli) /\ Watched(cli, guest, typed, rx)
    BY <1>1, <1>2, <1>16, <2>1 DEF ScopeInv, Ongoing, OnCourseOrNot
  <2>. QED
    BY <1>1, <1>2, <1>16, <2>1, <2>2, WatchedRead
<1>17. d.out # <<>> =>
          /\ typed = <<>> /\ ~Idle(d) /\ d.out = <<d.inflight.cmd>> /\ Quiet(rx')
          /\ ~seen'.unseen /\ ~GaveUp(d) /\ guest.up => guest.ctx = d.inflight.before
  <2>. HIDE DEF d
  <2>. QED
    BY <1>1, <1>4, <1>5, <1>7, <1>16
<1>. HIDE DEF d
<1>. QED
  BY <1>1, <1>3, <1>4, <1>5, <1>14, <1>15, <1>17, SpinConf

LEMMA ConfReadEcho == ConfInv /\ ReadEcho => ConfInv'
<1>. SUFFICES ASSUME ConfInv, ReadEcho PROVE ConfInv'
  OBVIOUS
<1>. DEFINE k == [cli EXCEPT !.state = "echo", !.known = "echo"]
            w == [k EXCEPT !.out = <<Return>>]
<1>1. /\ rx # <<>> /\ rx' = Tail(rx) /\ phase = "starting" /\ Head(rx).st = "echo"
      /\ Spin(k) \/ Spin(w)
  BY DEF ReadEcho
<1>2. /\ ScopeInv /\ Good(cli) /\ cli.out = <<>>
      /\ rx \in Seq(Events) /\ OneLine(typed, rx) /\ typed \in Seq(Cmds \cup {Return})
      /\ ToSet(guest.formatted) \subseteq Nat /\ ~cli.ready /\ ~cli.raised
      /\ ~Idle(cli) => cli.inflight.cmd \in Cmds
      /\ Healthy(cli) => Told(cli, guest, typed, rx, seen)
      /\ guest.ctx = <<>> => guest.draft = {}
  BY <1>1, ConfInvFacts DEF ConfInv
<1>3. DiskInv'
  BY DiskReadEcho DEF ConfInv
<1>4. /\ seen'.unseen = seen.unseen /\ seen'.skipped = seen.skipped
      /\ seen'.cleanupCut = seen.cleanupCut
  <2>1. DOMAIN seen = SeenFields
    BY <1>2 DEF ScopeInv
  <2>. QED
    BY <2>1 DEF ReadEcho, SeenFields
<1>5. typed = <<>>
  BY <1>1, <1>2, TailOfLine DEF Prompts
<1>6. /\ DOMAIN k = Fields /\ ConfParts(k) = ConfParts(cli) /\ k.out = <<>>
      /\ k.errors = cli.errors /\ k.error = cli.error /\ k.raised = cli.raised
      /\ k.ready = cli.ready
  BY <1>2 DEF Good, Fields, ConfParts
<1>. HIDE DEF k
<1>7. /\ DOMAIN w = Fields /\ ConfParts(w) = ConfParts(k) /\ w.out = <<Return>>
      /\ w.errors = k.errors /\ w.error = k.error /\ w.raised = k.raised
      /\ w.ready = k.ready
  BY <1>6 DEF Fields, ConfParts
<1>. HIDE DEF w
<1>8. ASSUME NEW d \in {k, w}, Spin(d)
      PROVE  /\ cli' = [d EXCEPT !.out = <<>>] /\ typed' = typed \o d.out
             /\ phase' = Outcome(d) /\ guest' = guest
  BY <1>8 DEF Spin
<1>9. PICK d \in {k, w} : /\ cli' = [d EXCEPT !.out = <<>>] /\ typed' = typed \o d.out
                          /\ phase' = Outcome(d) /\ guest' = guest
  BY <1>1, <1>8
<1>10. /\ DOMAIN d = Fields /\ ConfParts(d) = ConfParts(cli) /\ d.out \in {<<>>, <<Return>>}
       /\ d.errors = cli.errors /\ d.error = cli.error /\ d.raised = cli.raised
       /\ d.ready = cli.ready
  BY <1>6, <1>7
<1>. DEFINE s == [d EXCEPT !.out = <<>>]
<1>11. /\ ConfParts(s) = ConfParts(d) /\ s.errors = d.errors /\ s.error = d.error
       /\ s.raised = d.raised /\ s.ready = d.ready
  BY <1>10 DEF Fields, ConfParts
<1>. HIDE DEF s
<1>12. typed' \in {<<>>, <<Return>>}
  <2>1. <<>> \o <<Return>> = <<Return>> /\ <<>> \o <<>> = <<>>
    OBVIOUS
  <2>. QED
    BY <1>5, <1>9, <1>10, <2>1
<1>13. phase' = "starting" /\ (Healthy(s) <=> Healthy(cli))
  BY <1>2, <1>9, <1>10, <1>11 DEF Outcome, Healthy
<1>14. Healthy(cli) => Told(cli', guest', typed', rx', seen')
  <2>. SUFFICES ASSUME Healthy(cli) PROVE Told(s, guest, typed', rx', seen')
    BY <1>9 DEF s
  <2>. DEFINE u == seen'
              v == typed'
              r == rx'
  <2>1. NoPromptRead(rx, r)
    BY <1>1, <1>2, TailNoPrompt
  <2>2. /\ Told(cli, guest, typed, rx, seen) /\ ConfParts(s) = ConfParts(cli)
        /\ v = typed \/ (typed = <<>> /\ v = <<Return>>)
        /\ u.unseen = seen.unseen /\ u.skipped = seen.skipped
        /\ seen.cleanupCut => u.cleanupCut
        /\ \A i \in 1..Len(r) : \E j \in 1..Len(rx) : r[i] = rx[j]
        /\ \A j \in 1..Len(rx) : rx[j].st = "prompt" => \E i \in 1..Len(r) : r[i] = rx[j]
    BY <1>2, <1>4, <1>5, <1>10, <1>11, <1>12, <2>1 DEF NoPromptRead
  <2>. HIDE DEF u, v, r
  <2>3. Told(s, guest, v, r, u)
    BY <1>2, <2>2, ToldKept
  <2>. QED
    BY <2>3 DEF u, v, r
<1>. QED
  BY <1>2, <1>3, <1>9, <1>10, <1>11, <1>13, <1>14 DEF ConfInv, s

LEMMA ConfReadRejected == ConfInv /\ ReadRejected => ConfInv'
<1>. SUFFICES ASSUME ConfInv, ReadRejected PROVE ConfInv'
  OBVIOUS
<1>. DEFINE k == [cli EXCEPT !.state = "rejected"]
            d == Raise(k)
<1>1. /\ Good(cli) /\ (guest.ctx = <<>> => guest.draft = {})
  BY ConfInvFacts DEF ConfInv
<1>2. DiskInv'
  BY DiskReadRejected DEF ConfInv
<1>3. cli' = [d EXCEPT !.out = <<>>] /\ phase' = Outcome(d) /\ guest' = guest
  BY DEF ReadRejected, Spin
<1>4. DOMAIN d = Fields /\ d.raised
  BY <1>1 DEF Raise, Good, Fields
<1>. HIDE DEF d
<1>5. cli'.raised
  BY <1>3, <1>4 DEF Fields
<1>. QED
  BY <1>1, <1>2, <1>3, <1>4, <1>5 DEF ConfInv, Healthy, Outcome

LEMMA ConfReadTimeout == ConfInv /\ ReadTimeout => ConfInv'
<1>. SUFFICES ASSUME ConfInv, ReadTimeout PROVE ConfInv'
  OBVIOUS
<1>. DEFINE k == [cli EXCEPT !.state = "timeout"]
            d == OnIdle(k)
<1>1. /\ rx = <<>> /\ rx' = rx /\ phase = "starting" /\ seen' = seen /\ Spin(d)
  BY DEF ReadTimeout
<1>2. /\ ScopeInv /\ FosInv /\ Good(cli) /\ cli.out = <<>>
      /\ typed \in Seq(Cmds \cup {Return}) /\ Disked(cli, LastDisk(guest.formatted))
      /\ ~cli.ready /\ ~cli.raised
      /\ Calm(cli) /\ ~seen.unseen => OnCourse(cli) /\ Watched(cli, guest, typed, rx)
  BY <1>1, ConfInvFacts DEF ConfInv
<1>3. DiskInv'
  BY DiskReadTimeout DEF ConfInv
<1>4. /\ DOMAIN k = Fields /\ Parts(k) = Parts(cli) /\ DiskParts(k) = DiskParts(cli)
      /\ ScopeParts(k) = ScopeParts(cli) /\ ConfParts(k) = ConfParts(cli) /\ k.out = <<>>
      /\ k.errors = cli.errors /\ k.error = cli.error /\ k.raised = cli.raised
      /\ k.ready = cli.ready /\ k.known = cli.known
      /\ k.authenticated = cli.authenticated /\ k.recovering = cli.recovering
      /\ k.inflight = cli.inflight /\ k.inReset = cli.inReset
  BY <1>2 DEF Good, Fields, Parts, DiskParts, ScopeParts, ConfParts
<1>. HIDE DEF k
<1>5. /\ Good(k) /\ Disked(k, LastDisk(guest.formatted)) /\ (Idle(k) <=> Idle(cli))
      /\ (Calm(k) <=> Calm(cli)) /\ (GaveUp(k) <=> GaveUp(cli))
      /\ OnCourse(cli) => OnCourse(k)
  BY <1>2, <1>4, GoodByParts, SameDisked, SameCourse, SameScope
<1>6. /\ Good(d) /\ AtMostOne(k, d)
      /\ k.known # "prompt" \/ ~Idle(k) => d = k
  BY <1>4, <1>5, OnIdleGood
<1>. DEFINE p == Shown(guest, typed, seen)
<1>7. Calm(k) /\ Idle(k) => Conf(k, p) /\ Whole(k, p)
  <2>. SUFFICES ASSUME Calm(cli), Idle(cli) PROVE Conf(k, p) /\ Whole(k, p)
    BY <1>5
  <2>1. Conf(cli, p) /\ Whole(cli, p)
    BY <1>1, KnownConf
  <2>. HIDE DEF p
  <2>2. ToRestore(k) = ToRestore(cli)
    BY <1>4, ConfPartsAre
  <2>. QED
    BY <1>4, <1>5, <2>1, <2>2, SameConf DEF Whole
<1>8. (Moved(d) /\ Sound(d, p)) \/ Unmoved(k, d)
  <2>. HIDE DEF p
  <2>. QED
    BY <1>2, <1>4, <1>5, <1>7, OnIdleConf
<1>9. NoPromptRead(rx, rx')
  BY <1>1 DEF NoPromptRead
<1>10. \/ Moved(d) /\ Sound(d, Shown(guest, typed, seen'))
       \/ Unmoved(cli, d) /\ (Calm(cli) => NoPromptRead(rx, rx'))
  <2>. HIDE DEF d
  <2>. QED
    BY <1>1, <1>4, <1>8, <1>9 DEF Unmoved
<1>11. ASSUME d # k PROVE typed = <<>> /\ k.known = "prompt" /\ Idle(k)
  <2>1. k.known = "prompt" /\ Idle(k)
    BY <1>6, <1>11
  <2>2. Waiting
    BY <1>2 DEF FosInv
  <2>. QED
    BY <1>1, <1>4, <1>5, <2>1, <2>2 DEF Waiting
<1>12. d.ready => typed = <<>>
  BY <1>2, <1>4, <1>11
<1>13. d.out # <<>> =>
          /\ typed = <<>> /\ ~Idle(d) /\ d.out = <<d.inflight.cmd>> /\ Quiet(rx')
          /\ ~seen'.unseen /\ ~GaveUp(d) /\ guest.up => guest.ctx = d.inflight.before
  <2>. SUFFICES ASSUME d.out # <<>>
                PROVE  /\ typed = <<>> /\ ~Idle(d) /\ d.out = <<d.inflight.cmd>> /\ Quiet(rx')
                       /\ ~seen'.unseen /\ ~GaveUp(d) /\ guest.up =>
                              guest.ctx = d.inflight.before
    OBVIOUS
  <2>1. d # k /\ ~Idle(d) /\ d.out = <<d.inflight.cmd>>
    BY <1>4, <1>6 DEF AtMostOne
  <2>2. Quiet(<<>>)
    BY DEF Quiet
  <2>3. ASSUME ~seen.unseen, ~GaveUp(d), guest.up PROVE guest.ctx = d.inflight.before
    <3>1. ~GaveUp(k) /\ OnCourseOrNot(k)
      <4>1. GaveUp(k) => GaveUp(d)
        BY <1>4, <1>5, OnIdleScope
      <4>. QED
        BY <1>2, <1>5, <2>3, <4>1 DEF ScopeInv, OnCourseOrNot
    <3>2. OnCourse(k) /\ OnCourse(d)
      BY <1>4, <1>5, <2>3, <3>1, OnIdleScope DEF OnCourseOrNot
    <3>3. k.ctx = <<>> /\ d.ctx = <<>>
      <4>1. k.ctx = <<>>
        BY <1>11, <2>1, <3>2, FlyOrRest
      <4>. QED
        BY <1>6, <4>1 DEF AtMostOne, Keeps
    <3>4. d.inflight.before = <<>>
      BY <2>1, <3>2, <3>3, FlyOrRest DEF Fly
    <3>5. guest.ctx = <<>>
      <4>1. Watched(cli, guest, typed, rx)
        BY <1>1, <1>2, <1>5, <2>3, <3>1 DEF ScopeInv, Ongoing
      <4>. QED
        BY <1>5, <1>11, <2>1, <2>3, <4>1 DEF Watched, AtRest
    <3>. QED
      BY <3>4, <3>5
  <2>. QED
    BY <1>1, <1>11, <2>1, <2>2, <2>3
<1>. HIDE DEF d
<1>. QED
  BY <1>1, <1>3, <1>6, <1>10, <1>12, <1>13, SpinConf

(***************************************************************************)
(* The steps of the guest.                                                 *)
(***************************************************************************)

\* What a line changes on the guest.
LEMMA RanParts ==
    ASSUME NEW g, GuestIs(g), NEW c
    PROVE  LET r == Ran(g, c)
               s == Enter(g.ctx, c)
           IN  /\ r.ctx = s /\ r.up = g.up /\ g.saved \subseteq r.saved
               /\ DOMAIN r = {"up", "ctx", "draft", "saved", "mode", "formatted"}
               /\ c.op = "set" =>
                      r.draft = g.draft \cup {c.arg} /\ r.saved = g.saved /\ r.mode = g.mode
               /\ ClosesScope(c) /\ Len(s) <= 1 =>
                      /\ r.draft = {} /\ r.saved = g.saved \cup g.draft
                      /\ Clean(g) => r.mode = g.mode
                      /\ "standard" \notin g.draft /\ "more" \in g.draft => r.mode = "more"
               /\ c.op = "abort" =>
                      r.draft = {} /\ r.saved = g.saved /\ r.mode = g.mode
               /\ c.op \notin {"set", "abort"} /\ ~(ClosesScope(c) /\ Len(s) <= 1) =>
                      r.draft = g.draft /\ r.saved = g.saved /\ r.mode = g.mode
<1>. DEFINE h == [g EXCEPT !.ctx = Enter(g.ctx, c)]
            s == Enter(g.ctx, c)
            r == Ran(g, c)
            F == {"up", "ctx", "draft", "saved", "mode", "formatted"}
            m == IF "standard" \in g.draft THEN "standard"
                 ELSE IF "more" \in g.draft THEN "more" ELSE h.mode
<1>1. /\ DOMAIN h = F /\ h.ctx = s /\ h.up = g.up /\ h.draft = g.draft /\ h.saved = g.saved
      /\ h.mode = g.mode
  BY DEF GuestIs
<1>2. CASE c.op = "set"
  <2>1. r = [h EXCEPT !.draft = @ \cup {c.arg}] /\ ~ClosesScope(c)
    BY <1>2 DEF Ran, ClosesScope
  <2>. HIDE DEF h, r, s
  <2>2. /\ DOMAIN r = F /\ r.ctx = s /\ r.up = g.up /\ r.draft = g.draft \cup {c.arg}
        /\ r.saved = g.saved /\ r.mode = g.mode
    BY <1>1, <2>1
  <2>. QED
    BY <1>2, <2>1, <2>2 DEF r, s
<1>3. CASE ClosesScope(c) /\ Len(s) <= 1
  <2>1. /\ r = [h EXCEPT !.saved = @ \cup g.draft, !.draft = {},  !.mode = m]
        /\ c.op \notin {"set", "abort"}
    BY <1>1, <1>3 DEF Ran, ClosesScope
  <2>. HIDE DEF h, r, s, m
  <2>2. /\ DOMAIN r = F /\ r.ctx = s /\ r.up = g.up /\ r.draft = {}
        /\ r.saved = g.saved \cup g.draft /\ r.mode = m
    BY <1>1, <2>1
  <2>3. /\ Clean(g) => m = g.mode
        /\ "standard" \notin g.draft /\ "more" \in g.draft => m = "more"
    BY <1>1 DEF Clean, m
  <2>. QED
    BY <1>3, <2>1, <2>2, <2>3 DEF r, s
<1>4. CASE c.op = "abort"
  <2>1. r = [h EXCEPT !.draft = {}] /\ ~ClosesScope(c)
    BY <1>4 DEF Ran, ClosesScope
  <2>. HIDE DEF h, r, s
  <2>2. /\ DOMAIN r = F /\ r.ctx = s /\ r.up = g.up /\ r.draft = {}
        /\ r.saved = g.saved /\ r.mode = g.mode
    BY <1>1, <2>1
  <2>. QED
    BY <1>4, <2>1, <2>2 DEF r, s
<1>5. CASE c.op \notin {"set", "abort"} /\ ~(ClosesScope(c) /\ Len(s) <= 1)
  <2>1. r = [h EXCEPT !.formatted = Append(@, c.arg)] \/ r = h
    BY <1>1, <1>5 DEF Ran
  <2>. HIDE DEF h, r, s
  <2>2. /\ DOMAIN r = F /\ r.ctx = s /\ r.up = g.up /\ r.draft = g.draft
        /\ r.saved = g.saved /\ r.mode = g.mode
    BY <1>1, <2>1
  <2>. QED
    BY <1>5, <2>2 DEF r, s
<1>. QED
  BY <1>2, <1>3, <1>4, <1>5

LEMMA LoggedOutParts ==
    ASSUME NEW g, DOMAIN g = {"up", "ctx", "draft", "saved", "mode", "formatted"}
    PROVE  LET r == LoggedOut(g)
           IN  /\ ~r.up /\ r.ctx = <<>> /\ r.draft = {} /\ r.saved = g.saved
               /\ r.mode = g.mode /\ r.formatted = g.formatted
  BY DEF LoggedOut

\* The guest g takes nothing back of what it was configured when it becomes h.
Lasts(g, t, s, h, v, u) ==
    /\ h.ctx = <<>> => h.draft = {}
    /\ t = <<>> => v = <<>> /\ h.mode = g.mode
    /\ g.saved \subseteq h.saved /\ ToSet(g.formatted) \subseteq ToSet(h.formatted)
    /\ (s.unseen => u.unseen) /\ (Cut(s) => Cut(u))
    /\ Intact(h, v, u) => Intact(g, t, s)

LEMMA ShownLasts ==
    ASSUME NEW g, NEW t, NEW s, NEW h, NEW v, NEW u, Lasts(g, t, s, h, v, u),
           ToSet(g.formatted) \subseteq Nat
    PROVE  Keeping(Shown(g, t, s), Shown(h, v, u))
<1>. DEFINE p == Shown(g, t, s)
            q == Shown(h, v, u)
<1>1. /\ p.disks = IF Intact(g, t, s) THEN ToSet(g.formatted) ELSE Nat
      /\ p.saved = g.saved \cup (IF s.unseen THEN Values ELSE {})
      /\ p.cut <=> Cut(s)
  BY ShownParts, Zenon
<1>2. /\ q.disks = IF Intact(h, v, u) THEN ToSet(h.formatted) ELSE Nat
      /\ q.saved = h.saved \cup (IF u.unseen THEN Values ELSE {})
      /\ q.cut <=> Cut(u)
  BY ShownParts, Zenon
<1>. HIDE DEF p, q
<1>3. p.disks \subseteq q.disks
  BY <1>1, <1>2 DEF Lasts
<1>4. p.saved \subseteq q.saved
  BY <1>1, <1>2 DEF Lasts
<1>5. p.cut => q.cut
  BY <1>1, <1>2 DEF Lasts
<1>6. Keeping(p, q)
  BY <1>3, <1>4, <1>5 DEF Keeping
<1>. QED
  BY <1>6 DEF p, q

\* A step of the guest, which the commander does not notice: what the commander has to
\* know of it is that nothing is taken back, that its command runs as it is meant to, and
\* that the output mode changes only for a cleanup.
LEMMA GuestConf ==
    ASSUME ConfInv, DiskInv', UNCHANGED <<cli, phase>>,
           Lasts(guest, typed, seen, guest', typed', seen'),
           ASSUME phase = "starting", Calm(cli), ~Cut(seen'), ToRestore(cli) = 0, ~cli.restore,
                  cli.std # "set-standard"
           PROVE  guest'.mode = guest.mode,
           ASSUME phase = "starting", Calm(cli), ~Idle(cli), cli.inflight.cmd.op = "yes",
                  YesTyped(typed), ~YesTyped(typed')
           PROVE  cli.disk \in Shown(guest', typed', seen').disks,
           ASSUME phase = "starting", Calm(cli), ~seen'.unseen, ~Idle(cli), ~cli.inCleanup,
                  ~cli.inReset, Static(cli), BlockRun(cli, guest, typed, rx)
           PROVE  BlockRun(cli, guest', typed', rx'),
           ASSUME phase = "starting", Calm(cli), ~Cut(seen'), ~Idle(cli), cli.inCleanup,
                  CleanupRun(cli, guest, typed, rx)
           PROVE  CleanupRun(cli, guest', typed', rx')
    PROVE  ConfInv'
<1>1. cli' = cli /\ phase' = phase
  OBVIOUS
<1>. DEFINE h == guest'
            v == typed'
            w == rx'
            u == seen'
            p == Shown(guest, typed, seen)
            q == Shown(h, v, u)
<1>2. /\ h.ctx = <<>> => h.draft = {}
      /\ (typed = <<>> => v = <<>> /\ h.mode = guest.mode)
      /\ (seen.unseen => u.unseen) /\ (Cut(seen) => Cut(u))
  BY DEF Lasts
<1>3. ToSet(guest.formatted) \subseteq Nat
  BY ConfInvFacts
<1>4. Keeping(p, q)
  BY <1>3, ShownLasts
<1>5. /\ phase = "starting" => ~cli.ready /\ ~cli.raised
      /\ phase = "running" => Healthy(cli) /\ cli.ready /\ typed = <<>>
      /\ Healthy(cli) => phase \in {"starting", "running"} /\ Told(cli, guest, typed, rx, seen)
      /\ phase = "starting" /\ Healthy(cli) => Calm(cli)
  BY ConfInvFacts DEF ConfInv
<1>6. ASSUME Healthy(cli) PROVE Told(cli, h, v, w, u)
  <2>1. /\ Base(cli, p) /\ Rested(cli, p) /\ Whole(cli, p) /\ YesRun(cli, typed, p)
        /\ ~seen.unseen /\ ~Idle(cli) /\ ~cli.inCleanup /\ ~cli.inReset /\ Static(cli) =>
               BlockRun(cli, guest, typed, rx)
        /\ ~Cut(seen) /\ ~Idle(cli) /\ cli.inCleanup => CleanupRun(cli, guest, typed, rx)
    BY <1>5, <1>6 DEF Told
  <2>2. (phase = "starting" /\ Calm(cli)) \/ (Idle(cli) /\ typed = <<>>)
    BY <1>5, <1>6, <2>1 DEF Base, Ending
  <2>3. Moded(cli, q)
    <3>. SUFFICES ASSUME ToRestore(cli) = 0, ~cli.restore, cli.std # "set-standard" PROVE q.more
      BY DEF Moded
    <3>1. p.more <=> (Cut(seen) \/ guest.mode = "more")
      BY ShownParts, Zenon
    <3>2. q.more <=> (Cut(u) \/ h.mode = "more")
      BY ShownParts, Zenon
    <3>3. p.more
      BY <2>1 DEF Base, Moded
    <3>4. Cut(u) \/ h.mode = guest.mode
      BY <1>2, <2>2
    <3>. HIDE DEF p, q
    <3>. QED
      BY <1>2, <3>1, <3>2, <3>3, <3>4
  <2>4. ASSUME ~Idle(cli), cli.inflight.cmd.op = "yes", YesTyped(typed), ~YesTyped(v)
        PROVE  cli.disk \in q.disks
    BY <2>2, <2>4
  <2>5. ASSUME ~u.unseen, ~Idle(cli), ~cli.inCleanup, ~cli.inReset, Static(cli)
        PROVE  BlockRun(cli, h, v, w)
    BY <1>2, <2>1, <2>2, <2>5
  <2>6. ASSUME ~Cut(u), ~Idle(cli), cli.inCleanup
        PROVE  CleanupRun(cli, h, v, w)
    BY <1>2, <2>1, <2>2, <2>6
  <2>7. YesRun(cli, v, q)
    <3>1. YesRun(cli, typed, q)
      <4>. HIDE DEF p, q
      <4>. QED
        BY <1>4, <2>1, BaseKept
    <3>. HIDE DEF q
    <3>. QED
      BY <2>4, <3>1 DEF YesRun
  <2>8. Base(cli, q) /\ Rested(cli, q) /\ Whole(cli, q)
    <3>. HIDE DEF p, q
    <3>. QED
      BY <1>4, <2>1, <2>3, BaseKept
  <2>. HIDE DEF u, w, v, h
  <2>. QED
    BY <2>5, <2>6, <2>7, <2>8 DEF Told
<1>. QED
  BY <1>1, <1>2, <1>5, <1>6 DEF ConfInv

LEMMA ConfDropLine == ConfInv /\ DropLine => ConfInv'
<1>. SUFFICES ASSUME ConfInv, DropLine PROVE ConfInv'
  OBVIOUS
<1>1. /\ DiskInv' /\ ~guest.up /\ typed # <<>> /\ typed' = <<>> /\ guest' = guest /\ rx' = rx
      /\ UNCHANGED <<cli, phase>> /\ (guest.ctx = <<>> => guest.draft = {})
      /\ Good(cli)
  BY DiskDropLine, ConfInvFacts DEF DropLine, ConfInv
<1>2. /\ seen'.unseen = seen.unseen /\ seen'.cleanupCut = seen.cleanupCut
      /\ seen'.skipped = (seen.skipped \/ YesTyped(typed))
  <2>1. DOMAIN seen = SeenFields
    BY ConfInvFacts DEF ScopeInv
  <2>. QED
    BY <1>1, <2>1 DEF DropLine, SeenFields, YesTyped
<1>3. Lasts(guest, typed, seen, guest', typed', seen')
  BY <1>1, <1>2 DEF Lasts, Cut, Intact
<1>4. ASSUME YesTyped(typed) PROVE cli.disk \in Shown(guest', typed', seen').disks
  <2>. DEFINE q == Shown(guest', typed', seen')
  <2>1. q.disks = IF Intact(guest', typed', seen') THEN ToSet(guest'.formatted) ELSE Nat
    BY ShownParts, Zenon
  <2>2. cli.disk \in Nat
    BY <1>1 DEF Good, Typing
  <2>. HIDE DEF q
  <2>3. cli.disk \in q.disks
    BY <1>2, <1>4, <2>1, <2>2 DEF Intact
  <2>. QED
    BY <2>3 DEF q
<1>5. BlockRun(cli, guest, typed, rx) => BlockRun(cli, guest', typed', rx')
  BY <1>1 DEF BlockRun, Setup, SavedAtTop, Within
<1>6. CleanupRun(cli, guest, typed, rx) => CleanupRun(cli, guest', typed', rx')
  BY <1>1 DEF CleanupRun
<1>. QED
  BY <1>1, <1>3, <1>4, <1>5, <1>6, GuestConf

LEMMA ConfLogin == ConfInv /\ Login => ConfInv'
<1>. SUFFICES ASSUME ConfInv, Login PROVE ConfInv'
  OBVIOUS
<1>1. /\ DiskInv' /\ ~guest.up /\ typed = <<>> /\ typed' = typed /\ rx = <<>> /\ seen' = seen
      /\ guest' = guest \/ guest' = [guest EXCEPT !.up = TRUE]
      /\ UNCHANGED <<cli, phase>> /\ (guest.ctx = <<>> => guest.draft = {})
      /\ GuestIs(guest)
  BY DiskLogin, ConfInvFacts DEF Login, ConfInv
<1>2. /\ guest'.ctx = guest.ctx /\ guest'.draft = guest.draft /\ guest'.saved = guest.saved
      /\ guest'.mode = guest.mode /\ guest'.formatted = guest.formatted
  BY <1>1 DEF GuestIs
<1>3. Lasts(guest, typed, seen, guest', typed', seen')
  BY <1>1, <1>2 DEF Lasts, Intact, YesTyped
<1>4. ASSUME phase = "starting", Calm(cli), ~seen.unseen PROVE Idle(cli)
  BY <1>1, <1>4, ConfInvFacts DEF Watched, Heard
<1>. QED
  BY <1>1, <1>2, <1>3, <1>4, GuestConf DEF Cut

LEMMA ConfFall == ConfInv /\ Fall => ConfInv'
<1>. SUFFICES ASSUME ConfInv, Fall PROVE ConfInv'
  OBVIOUS
<1>1. /\ DiskInv' /\ guest.up /\ guest.ctx # <<>> /\ typed # <<>> /\ typed' = typed
      /\ rx' = rx /\ UNCHANGED <<cli, phase>> /\ GuestIs(guest)
  BY DiskFall, ConfInvFacts DEF Fall, ConfInv
<1>2. PICK s \in {<<>>, Front(guest.ctx)} : guest' = [guest EXCEPT !.ctx = s, !.draft = {}]
  BY DEF Fall
<1>3. /\ guest'.ctx = s /\ guest'.draft = {} /\ guest'.saved = guest.saved /\ guest'.up
      /\ guest'.mode = guest.mode /\ guest'.formatted = guest.formatted
  BY <1>1, <1>2 DEF GuestIs
<1>4. Len(s) \in Nat /\ Len(s) < Len(guest.ctx) /\ Len(guest.ctx) \in Nat
  BY <1>1, <1>2, FrontOfScope DEF GuestIs
<1>5. /\ seen'.skipped = seen.skipped
      /\ seen'.unseen = (seen.unseen \/ MayChangeContext(cli.inflight.cmd))
      /\ seen'.cleanupCut = (seen.cleanupCut \/ cli.inCleanup)
  <2>1. DOMAIN seen = SeenFields
    BY ConfInvFacts DEF ScopeInv
  <2>. QED
    BY <2>1 DEF Fall, SeenFields
<1>6. Lasts(guest, typed, seen, guest', typed', seen')
  BY <1>1, <1>3, <1>5 DEF Lasts, Cut, Intact
<1>7. ASSUME ~seen'.unseen, BlockRun(cli, guest, typed, rx)
      PROVE  BlockRun(cli, guest', typed', rx')
  <2>. DEFINE a == Place(cli, typed)
  <2>1. ~Changes(cli)
    BY <1>5, <1>7 DEF Changes
  <2>2. guest.ctx = a \/ Shorter(guest.ctx, a)
    BY <1>1, <1>7, <2>1 DEF BlockRun, Within
  <2>. HIDE DEF a
  <2>3. Shorter(s, a) /\ s # a
    BY <1>4, <2>2 DEF Shorter
  <2>. QED
    BY <1>1, <1>3, <1>7, <2>3 DEF BlockRun, Setup, SavedAtTop, Within, a
<1>8. ~Cut(seen') => ~cli.inCleanup
  BY <1>5 DEF Cut
<1>. QED
  BY <1>1, <1>3, <1>6, <1>7, <1>8, GuestConf

\* The line of the command in flight reaches the guest that waits for it.
LEMMA LineReached ==
    ASSUME ConfInv, phase = "starting", Calm(cli), ~seen.unseen, guest.up, typed # <<>>
    PROVE  /\ ~Idle(cli) /\ Fly(cli) /\ Served(cli, guest, typed, rx) /\ Quiet(rx)
           /\ ~Refused(cli, rx)
           /\ Head(typed) \in {cli.inflight.cmd, Return} /\ typed = <<Head(typed)>>
<1>1. OnCourse(cli) /\ Watched(cli, guest, typed, rx) /\ FosInv
  BY ConfInvFacts
<1>2. ~Idle(cli) /\ Fly(cli) /\ Served(cli, guest, typed, rx)
  BY <1>1, FlyOrRest DEF Watched, AtRest
<1>3. Quiet(rx)
  BY <1>1, GuestReads
<1>4. ~Refused(cli, rx)
  BY <1>3 DEF Quiet, Refused, Prompts
<1>5. typed = <<cli.inflight.cmd>> \/ typed = <<Return>>
  BY <1>2 DEF Served
<1>6. \A x : Head(<<x>>) = x
  OBVIOUS
<1>. QED
  BY <1>2, <1>3, <1>4, <1>5, <1>6

\* The output mode is changed by the commander's own blocks only.
LEMMA ModeKept ==
    ASSUME ConfInv, phase = "starting", Calm(cli), ~seen.unseen, guest.up, typed # <<>>,
           ToRestore(cli) = 0, cli.std # "set-standard"
    PROVE  Ran(guest, Head(typed)).mode = guest.mode
<1>. DEFINE c == Head(typed)
            q == cli.inflight.cmd
<1>1. /\ ~Idle(cli) /\ Fly(cli) /\ Served(cli, guest, typed, rx) /\ ~Refused(cli, rx)
      /\ c \in {q, Return} /\ typed = <<c>>
  BY LineReached
<1>2. GuestIs(guest) /\ Good(cli) /\ Disked(cli, LastDisk(guest.formatted))
      /\ Told(cli, guest, typed, rx, seen)
  BY ConfInvFacts DEF ConfInv
<1>. HIDE DEF c
<1>3. ~ClosesScope(c) => Ran(guest, c).mode = guest.mode
  BY <1>2, RanParts DEF ClosesScope
<1>4. ASSUME ClosesScope(c) PROVE Ran(guest, c).mode = guest.mode
  <2>1. (c = q /\ Changes(cli)) \/ InReset(cli)
    BY <1>1, <1>4, ReturnOpens
    DEF ClosesScope, Changes, MayChangeContext, Fly, Typed, InCleanup, InBlock
  <2>2. c # Return
    BY <1>4, ReturnOpens DEF ClosesScope
  <2>3. ~InReset(cli)
    <3>1. Cmd("abort", "").op = "abort"
      BY DEF Cmd
    <3>2. c = q
      BY <1>1, <2>2
    <3>. QED
      BY <1>4, <3>1, <3>2 DEF InReset, ClosesScope
  <2>4. ~cli.inCleanup
    <3>1. Len(cli.cleanup) \in Nat
      BY <1>2 DEF Good, Typing
    <3>2. ToRestore(cli) = Len(cli.cleanup) + (IF cli.inCleanup THEN 1 ELSE 0)
      BY DEF ToRestore
    <3>. DEFINE n == Len(cli.cleanup)
    <3>. HIDE DEF n
    <3>3. n + (IF cli.inCleanup THEN 1 ELSE 0) = 0 /\ n \in Nat
      BY <3>1, <3>2 DEF n
    <3>. QED
      BY <3>3
  <2>5. InBlock(cli) /\ c = q
    BY <1>1, <2>1, <2>3, <2>4 DEF Fly, Typed, InCleanup
  <2>6. ~cli.inReset /\ cli.active # NoFeature
    BY <2>5 DEF InBlock
  <2>7. cli.active # DiskFormat
    <3>. SUFFICES ASSUME cli.active = DiskFormat PROVE FALSE
      OBVIOUS
    <3>1. /\ q = cli.cmds[1] /\ cli.stage # "restart-list" /\ StageBlock(cli)
      BY <1>1, <1>2, <2>6 DEF Disked, Formatting
    <3>2. \A x : <<x>>[1] = x
      OBVIOUS
    <3>3. q \in {Cmd("query", "disks"), FormatSpec(cli.disk), YesSpec(cli.disk)}
      BY <3>1, <3>2 DEF StageBlock
    <3>4. q.op \in {"query", "format", "yes"}
      <4>1. /\ Cmd("query", "disks").op = "query" /\ FormatSpec(cli.disk).op = "format"
            /\ YesSpec(cli.disk).op = "yes"
        BY DEF FormatSpec, YesSpec, Cmd
      <4>. QED
        BY <3>3, <4>1
    <3>. QED
      BY <1>4, <2>5, <3>4 DEF ClosesScope
  <2>8. Setup(cli, guest, typed, rx)
    BY <1>1, <1>2, <2>4, <2>6, <2>7 DEF Told, BlockRun, Static
  <2>9. guest.ctx = Place(cli, typed)
    <3>1. Changes(cli) /\ typed = <<q>>
      BY <1>1, <1>4, <2>5, <2>6 DEF Changes, ClosesScope, MayChangeContext
    <3>. QED
      BY <1>1, <3>1 DEF Served, Place
  <2>10. Clean(guest)
    BY <1>1, <2>8, <2>9 DEF Setup
  <2>. QED
    BY <1>2, <1>4, <2>10, RanParts DEF ClosesScope
<1>. QED
  BY <1>3, <1>4 DEF c

\* The end of a session shows no new prompt.
LEMMA BlockCut ==
    ASSUME NEW k, NEW g, NEW h, NEW t, NEW v, NEW r, NEW w, BlockRun(k, g, t, r), ~h.up,
           g.saved \subseteq h.saved,
           \A i \in 1..Len(w) : w[i].st = "prompt" => \E j \in 1..Len(r) : w[i] = r[j]
    PROVE  BlockRun(k, h, v, w)
<1>1. Setup(k, h, v, w) /\ Within(k, h, v)
  BY DEF Setup, Within
<1>2. ASSUME Led(k) = <<>>, NEW i \in 1..Len(w), w[i].st = "prompt",
             ~Invalid(k.inflight, w[i]), w[i].ctx = <<>>
      PROVE  Covered(k.cmds, k.inflight.index, h.saved)
  <2>1. PICK j \in 1..Len(r) : w[i] = r[j]
    BY <1>2
  <2>2. Covered(k.cmds, k.inflight.index, g.saved)
    BY <1>2, <2>1 DEF BlockRun, SavedAtTop
  <2>. QED
    BY <2>2 DEF Covered
<1>3. SavedAtTop(k, h, w)
  BY <1>2 DEF SavedAtTop
<1>. QED
  BY <1>1, <1>3 DEF BlockRun

LEMMA CleanupCut ==
    ASSUME NEW k, NEW g, NEW h, NEW t, NEW v, NEW r, NEW w, CleanupRun(k, g, t, r), ~h.up,
           Quiet(r) \/ h.mode = g.mode,
           \A i \in 1..Len(w) : w[i].st = "prompt" => \E j \in 1..Len(r) : w[i] = r[j]
    PROVE  CleanupRun(k, h, v, w)
<1>1. ASSUME ToRestore(k) = 1, NEW i \in 1..Len(w), w[i].st = "prompt"
      PROVE  h.mode = "more"
  <2>1. PICK j \in 1..Len(r) : w[i] = r[j]
    BY <1>1
  <2>2. ~Quiet(r)
    BY <1>1, <2>1 DEF Quiet, Prompts
  <2>. QED
    BY <1>1, <2>1, <2>2 DEF CleanupRun
<1>. QED
  BY <1>1 DEF CleanupRun

LEMMA ConfLoseSession == ConfInv /\ LoseSession => ConfInv'
<1>. SUFFICES ASSUME ConfInv, LoseSession PROVE ConfInv'
  OBVIOUS
<1>1. /\ DiskInv' /\ guest.up /\ UNCHANGED <<cli, phase>> /\ seen' = seen /\ GuestIs(guest)
      /\ FosInv /\ LineOrdered(guest, rx) /\ rx \in Seq(Events)
  BY DiskLoseSession, ConfInvFacts DEF LoseSession, ConfInv
<1>2. PICK said, ran \in BOOLEAN :
        /\ ran => /\ typed # <<>> /\ Head(typed).op \notin {"format", "yes"}
                  /\ Knows(guest.ctx, Head(typed))
        /\ guest' = LoggedOut(IF ran THEN Ran(guest, Head(typed)) ELSE guest)
        /\ typed' = IF ran THEN Tail(typed) ELSE typed
        /\ rx' = rx \o (IF said THEN <<Event("lost")>> ELSE <<>>) \o <<Event("username")>>
  BY DEF LoseSession
<1>. DEFINE g == IF ran THEN Ran(guest, Head(typed)) ELSE guest
<1>3. /\ GuestIs(g) /\ guest.saved \subseteq g.saved /\ g.formatted = guest.formatted
      /\ ~ran => g = guest /\ typed' = typed
      /\ ran => g = Ran(guest, Head(typed)) /\ typed' = <<>> /\ typed # <<>>
  <2>1. CASE ran
    <3>1. Head(typed) \in Cmds \cup {Return} /\ Tail(typed) = <<>>
      BY <1>1, <1>2, <2>1, GuestReads
    <3>. DEFINE c == Head(typed)
                r == Ran(guest, c)
    <3>2. GuestIs(r) /\ guest.saved \subseteq r.saved /\ r.formatted = guest.formatted
      BY <1>1, <1>2, <2>1, <3>1, RanGuest, RanParts, RanFormatted
    <3>. QED
      BY <1>2, <2>1, <3>1, <3>2
  <2>2. CASE ~ran
    BY <1>1, <1>2, <2>2
  <2>. QED
    BY <2>1, <2>2
<1>4. guest' = LoggedOut(g)
  BY <1>2
<1>. HIDE DEF g
<1>5. /\ ~guest'.up /\ guest'.ctx = <<>> /\ guest'.draft = {} /\ guest'.saved = g.saved
      /\ guest'.mode = g.mode /\ guest'.formatted = guest.formatted
  BY <1>3, <1>4, LoggedOutParts DEF GuestIs
<1>6. \A i \in 1..Len(rx') : rx'[i].st = "prompt" => \E j \in 1..Len(rx) : rx'[i] = rx[j]
  <2>. DEFINE m == "lost"
  <2>1. \/ rx' = rx \o <<>> \o <<Event("username")>>
        \/ rx' = rx \o <<Event(m)>> \o <<Event("username")>>
    BY <1>2
  <2>2. (m = "lost" \/ m = "rebooting") /\ m # "rebooting" /\ "prompt" \in Prompts
    BY DEF Prompts
  <2>. HIDE DEF m
  <2>3. EndsSession(guest', rx, rx', m)
    BY <1>1, <1>5, <2>1, <2>2, OrderedEnd
  <2>. QED
    BY <2>2, <2>3 DEF EndsSession
<1>7. YesTyped(typed) => ~ran
  BY <1>2 DEF YesTyped
<1>8. Lasts(guest, typed, seen, guest', typed', seen')
  BY <1>1, <1>3, <1>5, <1>7 DEF Lasts, Intact
<1>9. ASSUME phase = "starting", Calm(cli), ~Cut(seen'), ToRestore(cli) = 0,
             cli.std # "set-standard"
      PROVE  guest'.mode = guest.mode
  BY <1>1, <1>3, <1>5, <1>9, ModeKept DEF Cut
<1>10. Quiet(rx) \/ guest'.mode = guest.mode
  BY <1>1, <1>3, <1>5, GuestReads
<1>11. BlockRun(cli, guest, typed, rx) => BlockRun(cli, guest', typed', rx')
  BY <1>3, <1>5, <1>6, BlockCut
<1>12. CleanupRun(cli, guest, typed, rx) => CleanupRun(cli, guest', typed', rx')
  BY <1>5, <1>6, <1>10, CleanupCut
<1>. QED
  BY <1>1, <1>3, <1>7, <1>8, <1>9, <1>11, <1>12, GuestConf

LEMMA CoveredNext ==
    ASSUME NEW b, NEW n \in Nat, NEW V, Covered(b, n - 1, V),
           b[n].op = "set" /\ b[n].checked => b[n].arg \in V
    PROVE  Covered(b, n, V)
<1>1. \A i \in 1..n : i = n \/ i \in 1..(n - 1)
  OBVIOUS
<1>. QED
  BY <1>1 DEF Covered

\* The command of a cleanup that is in flight.
LEMMA CleanupCommand ==
    ASSUME NEW k, Good(k), Fly(k), k.inCleanup
    PROVE  /\ ToRestore(k) \in 1..3 /\ ~k.inReset
           /\ CleanupScope(k.inflight.before, ToRestore(k))
           /\ ToRestore(k) = 3 => k.inflight.cmd = Cmd("config", "console")
           /\ ToRestore(k) = 2 => k.inflight.cmd = Cmd("set", "more")
           /\ ToRestore(k) = 1 => k.inflight.cmd = Cmd("end", "console")
<1>. DEFINE n == Len(k.cleanup)
<1>1. InCleanup(k)
  BY DEF Fly, Typed, InBlock, InReset
<1>2. /\ n \in Nat /\ n < 3 /\ k.inflight.cmd = SetMore[3 - n] /\ ToRestore(k) = n + 1
      /\ CleanupScope(k.inflight.before, n + 1) /\ ~k.inReset
  BY <1>1, LenProperties DEF Good, Typing, InCleanup, ToRestore
<1>3. /\ SetMore[1] = Cmd("config", "console") /\ SetMore[2] = Cmd("set", "more")
      /\ SetMore[3] = Cmd("end", "console")
  BY ConsoleBlocks
<1>. HIDE DEF n
<1>4. CASE n = 0
  <2>1. 3 - n = 3 /\ n + 1 = 1
    BY <1>4
  <2>. QED
    BY <1>2, <1>3, <2>1
<1>5. CASE n = 1
  <2>1. 3 - n = 2 /\ n + 1 = 2
    BY <1>5
  <2>. QED
    BY <1>2, <1>3, <2>1
<1>6. CASE n = 2
  <2>1. 3 - n = 1 /\ n + 1 = 3
    BY <1>6
  <2>. QED
    BY <1>2, <1>3, <2>1
<1>7. n = 0 \/ n = 1 \/ n = 2
  BY <1>2
<1>. QED
  BY <1>4, <1>5, <1>6, <1>7

LEMMA ConfExecuteFormat == ConfInv /\ ExecuteFormat => ConfInv'
<1>. SUFFICES ASSUME ConfInv, ExecuteFormat PROVE ConfInv'
  OBVIOUS
<1>. DEFINE c == Head(typed)
<1>1. /\ DiskInv' /\ guest.up /\ UNCHANGED <<cli, phase>> /\ seen' = seen /\ GuestIs(guest)
      /\ FosInv /\ LineOrdered(guest, rx) /\ rx \in Seq(Events) /\ typed # <<>>
      /\ c.op \in {"format", "yes"} /\ (guest.ctx = <<>> => guest.draft = {})
      /\ DiskInv /\ Good(cli)
  BY DiskExecuteFormat, ConfInvFacts DEF ExecuteFormat, ConfInv
<1>2. typed' = <<>> /\ Quiet(rx) /\ ~YesTyped(<<>>)
  BY <1>1, GuestReads DEF ExecuteFormat, YesTyped
<1>3. CASE c.op = "format"
  <2>1. guest' = guest /\ rx' = Append(rx, Event("confirm")) /\ ~YesTyped(typed)
    BY <1>3 DEF ExecuteFormat, YesTyped
  <2>2. Lasts(guest, typed, seen, guest', typed', seen')
    BY <1>1, <1>2, <2>1 DEF Lasts, Intact
  <2>3. \A i \in 1..Len(rx') : rx'[i].st # "prompt"
    <3>. DEFINE e == Event("confirm")
    <3>1. e \in Events /\ e.st = "confirm"
      BY EventsOfStates DEF States, Prompts
    <3>. HIDE DEF e
    <3>2. \A i \in 1..Len(Append(rx, e)) :
            Append(rx, e)[i].st \in Prompts => Append(rx, e)[i] = e
      BY <1>1, <1>2, <3>1, OrderedAnswer
    <3>. QED
      BY <2>1, <3>1, <3>2 DEF e, Prompts
  <2>4. ASSUME phase = "starting", Calm(cli), ~seen.unseen
        PROVE  /\ typed = <<cli.inflight.cmd>> /\ ~MayChangeContext(cli.inflight.cmd)
               /\ cli.inflight.cmd.op = "format" /\ cli.inflight.cmd \in Cmds
               /\ Place(cli, typed') = Place(cli, typed)
    <3>1. c \in {cli.inflight.cmd, Return} /\ typed = <<c>> /\ ~Idle(cli)
      BY <1>1, <2>4, LineReached
    <3>2. c = cli.inflight.cmd /\ ~MayChangeContext(c) /\ c \in Cmds
      BY <1>3, <3>1, ReturnOpens, ConfInvFacts DEF MayChangeContext
    <3>3. Led(cli) = cli.inflight.before
      BY <3>2, LastingCommand DEF Led
    <3>. HIDE DEF c
    <3>. QED
      BY <1>3, <3>1, <3>2, <3>3 DEF Place, c
  <2>5. ASSUME phase = "starting", Calm(cli), ~seen.unseen, ~Idle(cli), ~cli.inCleanup,
               ~cli.inReset, Static(cli), BlockRun(cli, guest, typed, rx)
        PROVE  BlockRun(cli, guest', typed', rx')
    <3>. DEFINE i == cli.inflight.index
                V == guest.saved \cup guest.draft
    <3>1. Fly(cli)
      BY <1>1, <2>5, LineReached
    <3>2. /\ i \in 1..Len(cli.cmds) /\ Len(cli.cmds) \in Nat
          /\ cli.inflight.cmd = cli.cmds[i]
      BY <1>1, <2>5, <3>1, BlockPlace
    <3>3. Done(cli, typed) = i - 1 /\ Done(cli, typed') = i - 0
      <4>1. <<>> # <<cli.inflight.cmd>>
        OBVIOUS
      <4>. QED
        BY <1>2, <2>4, <2>5, <4>1 DEF Done
    <3>. HIDE DEF i
    <3>4. i \in Nat /\ Done(cli, typed') = i
      BY <3>2, <3>3
    <3>5. Covered(cli.cmds, Done(cli, typed), V) => Covered(cli.cmds, Done(cli, typed'), V)
      BY <2>4, <2>5, <3>2, <3>3, <3>4, CoveredNext
    <3>6. Setup(cli, guest, typed', rx')
      <4>1. ~Refused(cli, rx)
        BY <1>1, <2>5, LineReached
      <4>. QED
        BY <2>4, <2>5, <3>5, <4>1 DEF BlockRun, Setup
    <3>7. SavedAtTop(cli, guest, rx')
      BY <2>3 DEF SavedAtTop
    <3>8. Within(cli, guest, typed')
      BY <2>4, <2>5 DEF BlockRun, Within
    <3>. QED
      BY <2>1, <3>6, <3>7, <3>8 DEF BlockRun
  <2>6. ASSUME phase = "starting", Calm(cli), ~Cut(seen), ~Idle(cli), cli.inCleanup
        PROVE  FALSE
    <3>1. Fly(cli) /\ cli.inflight.cmd.op = "format"
      BY <1>1, <2>4, <2>6, LineReached DEF Cut
    <3>2. cli.inflight.cmd \in
            {Cmd("config", "console"), Cmd("set", "more"), Cmd("end", "console")}
      <4>1. ToRestore(cli) = 1 \/ ToRestore(cli) = 2 \/ ToRestore(cli) = 3
        BY <1>1, <2>6, <3>1, CleanupCommand
      <4>. QED
        BY <1>1, <2>6, <3>1, <4>1, CleanupCommand
    <3>. QED
      BY <3>1, <3>2 DEF Cmd
  <2>. QED
    BY <1>1, <2>1, <2>2, <2>5, <2>6, GuestConf
<1>4. CASE c.op = "yes"
  <2>1. \/ rx' = rx \o <<>> \o <<Event("username")>>
        \/ rx' = rx \o <<Event("rebooting")>> \o <<Event("username")>>
    BY <1>4 DEF ExecuteFormat
  <2>2. /\ ~guest'.up /\ guest'.ctx = <<>> /\ guest'.draft = {} /\ guest'.saved = guest.saved
        /\ guest'.mode = guest.mode /\ guest'.formatted = Append(guest.formatted, c.arg)
    <3>. DEFINE h == [guest EXCEPT !.ctx = Enter(guest.ctx, c)]
                r == Ran(guest, c)
                F == {"up", "ctx", "draft", "saved", "mode", "formatted"}
    <3>1. DOMAIN h = F /\ h.formatted = guest.formatted
      BY <1>1 DEF GuestIs
    <3>2. r = [h EXCEPT !.formatted = Append(@, c.arg)]
      BY <1>4 DEF Ran, ClosesScope
    <3>3. guest' = LoggedOut(r)
      BY <1>4 DEF ExecuteFormat
    <3>4. r.saved = guest.saved /\ r.mode = guest.mode
      BY <1>1, <1>4, RanParts DEF ClosesScope
    <3>. HIDE DEF c, h, r
    <3>5. DOMAIN r = F /\ r.formatted = Append(guest.formatted, c.arg)
      BY <3>1, <3>2
    <3>. HIDE DEF F
    <3>. QED
      BY <3>3, <3>4, <3>5, LoggedOutParts DEF F
  <2>3. c.arg = cli.disk /\ cli.disk \in Nat
    <3>1. /\ ~Idle(cli) /\ c = cli.inflight.cmd /\ Disked(cli, LastDisk(guest.formatted))
      BY <1>1, <1>4 DEF DiskInv, Confirmed
    <3>2. c = YesSpec(cli.disk) /\ cli.disk \in Nat
      <4>1. \A x : <<x>>[1] = x
        OBVIOUS
      <4>2. c = cli.cmds[1] /\ cli.cmds = <<YesSpec(cli.disk)>>
        BY <1>1, <1>4, <3>1 DEF Disked, Confirming, Formatting, StageBlock
      <4>. QED
        BY <1>1, <4>1, <4>2 DEF Good, Typing
    <3>. HIDE DEF c
    <3>. QED
      BY <3>2 DEF YesSpec, Cmd
  <2>4. /\ ToSet(guest.formatted) \subseteq ToSet(guest'.formatted)
        /\ cli.disk \in ToSet(guest'.formatted)
    <3>. DEFINE f == guest.formatted
                d == cli.disk
                n == Len(f)
                a == Append(f, d)
    <3>1. f \in Seq(2..(Disks + 1)) /\ guest'.formatted = a
      BY <1>1, <2>2, <2>3 DEF DiskInv
    <3>. HIDE DEF f, d
    <3>2. /\ n \in Nat /\ Len(a) = n + 1 /\ a[n + 1] = d /\ \A i \in 1..n : a[i] = f[i]
          /\ DOMAIN a = 1..(n + 1) /\ DOMAIN f = 1..n
      BY <3>1
    <3>. HIDE DEF n, a
    <3>3. n + 1 \in 1..(n + 1) /\ 1..n \subseteq 1..(n + 1)
      BY <3>2
    <3>4. d \in ToSet(a) /\ ToSet(f) \subseteq ToSet(a)
      BY <3>2, <3>3 DEF ToSet
    <3>. QED
      BY <3>1, <3>4 DEF f, d
  <2>5. Lasts(guest, typed, seen, guest', typed', seen')
    BY <1>1, <1>2, <2>2, <2>4 DEF Lasts, Intact
  <2>6. cli.disk \in Shown(guest', typed', seen').disks
    <3>. DEFINE q == Shown(guest', typed', seen')
    <3>1. q.disks = IF Intact(guest', typed', seen') THEN ToSet(guest'.formatted) ELSE Nat
      BY ShownParts, Zenon
    <3>. HIDE DEF q
    <3>2. cli.disk \in q.disks
      BY <2>3, <2>4, <3>1
    <3>. QED
      BY <3>2 DEF q
  <2>7. \A i \in 1..Len(rx') : rx'[i].st = "prompt" => \E j \in 1..Len(rx) : rx'[i] = rx[j]
    <3>. DEFINE m == "rebooting"
    <3>1. \/ rx' = rx \o <<>> \o <<Event("username")>>
          \/ rx' = rx \o <<Event(m)>> \o <<Event("username")>>
      BY <2>1
    <3>2. (m = "lost" \/ m = "rebooting") /\ m # "prompt" /\ "prompt" \in Prompts
      BY DEF Prompts
    <3>. HIDE DEF m
    <3>3. EndsSession(guest', rx, rx', m)
      BY <1>1, <2>2, <3>1, <3>2, OrderedEnd
    <3>. QED
      BY <3>2, <3>3 DEF EndsSession
  <2>8. BlockRun(cli, guest, typed, rx) => BlockRun(cli, guest', typed', rx')
    BY <2>2, <2>7, BlockCut
  <2>9. CleanupRun(cli, guest, typed, rx) => CleanupRun(cli, guest', typed', rx')
    BY <1>2, <2>2, <2>7, CleanupCut
  <2>. QED
    BY <1>1, <2>2, <2>5, <2>6, <2>8, <2>9, GuestConf
<1>. QED
  BY <1>1, <1>3, <1>4

LEMMA SettingHome ==
    \A c \in Cmds \cup {Return} :
        c.op = "set" => c.arg \in DOMAIN Home /\ Home[c.arg] # <<>>
<1>. SUFFICES ASSUME NEW c \in Cmds \cup {Return}, c.op = "set"
              PROVE  c.arg \in DOMAIN Home /\ Home[c.arg] # <<>>
  OBVIOUS
<1>1. c \in Written \/ c \in {Cmd("set", "standard"), Cmd("set", "more")}
  <2>1. /\ \A d : FormatSpec(d).op = "format" /\ YesSpec(d).op = "yes"
        /\ Return.op = "return"
        /\ \A o, a : Cmd(o, a).op = o
    BY DEF FormatSpec, YesSpec, Return, Cmd
  <2>2. c \in Written \/ c \in Own
    BY <2>1 DEF Cmds
  <2>3. c \in Own => c \in {Cmd("set", "standard"), Cmd("set", "more")}
    <3>1. /\ Inspect.op # "set" /\ Cmd("query", "disks").op # "set"
          /\ Cmd("abort", "").op # "set" /\ Cmd("config", "console").op # "set"
          /\ Cmd("end", "console").op # "set"
      BY <2>1 DEF Inspect
    <3>. QED
      BY <3>1 DEF Own
  <2>. QED
    BY <2>2, <2>3
<1>2. CASE c \in Written
  BY <1>2, BlocksAssumption
<1>3. CASE c \in {Cmd("set", "standard"), Cmd("set", "more")}
  <2>1. c.arg \in {"standard", "more"}
    BY <1>3 DEF Cmd
  <2>. QED
    BY <2>1, BlocksAssumption
<1>. QED
  BY <1>1, <1>2, <1>3

\* At the top nothing is left that was set and not saved.
LEMMA DraftAtTop ==
    ASSUME NEW g, GuestIs(g), NEW c \in Cmds \cup {Return}, Knows(g.ctx, c),
           g.ctx = <<>> => g.draft = {}, Ran(g, c).ctx = <<>>
    PROVE  Ran(g, c).draft = {}
<1>. DEFINE s == Enter(g.ctx, c)
            r == Ran(g, c)
<1>1. r.ctx = s /\ s = <<>> /\ Len(s) <= 1
  BY RanParts
<1>2. CASE c.op = "abort" \/ ClosesScope(c)
  BY <1>1, <1>2, RanParts
<1>3. CASE c.op \in {"config", "edit"}
  <2>1. s = Append(g.ctx, c.arg)
    BY <1>3 DEF Enter
  <2>. QED
    BY <1>1, <2>1 DEF GuestIs
<1>4. CASE c.op \notin {"abort", "config", "edit"} /\ ~ClosesScope(c)
  <2>1. s = g.ctx
    BY <1>4, LastingCommand DEF MayChangeContext, ClosesScope
  <2>2. c.op # "set"
    BY <1>1, <2>1, SettingHome DEF Knows
  <2>. QED
    BY <1>1, <1>4, <2>1, <2>2, RanParts
<1>. QED
  BY <1>2, <1>3, <1>4

\* A line that is run takes no setting back, unless it is an abort.
LEMMA RanKeeps ==
    ASSUME NEW g, GuestIs(g), NEW c, c.op # "abort"
    PROVE  LET r == Ran(g, c)
           IN  /\ g.saved \cup g.draft \subseteq r.saved \cup r.draft
               /\ c.op = "set" => c.arg \in r.draft
               /\ r.draft \subseteq g.draft \cup (IF c.op = "set" THEN {c.arg} ELSE {})
<1>. DEFINE r == Ran(g, c)
            s == Enter(g.ctx, c)
<1>1. CASE c.op = "set"
  <2>1. r.draft = g.draft \cup {c.arg} /\ r.saved = g.saved
    BY <1>1, RanParts
  <2>. QED
    BY <1>1, <2>1
<1>2. CASE ClosesScope(c) /\ Len(s) <= 1
  <2>1. r.draft = {} /\ r.saved = g.saved \cup g.draft /\ c.op # "set"
    BY <1>2, RanParts DEF ClosesScope
  <2>. QED
    BY <2>1
<1>3. CASE c.op # "set" /\ ~(ClosesScope(c) /\ Len(s) <= 1)
  <2>1. r.draft = g.draft /\ r.saved = g.saved
    BY <1>3, RanParts
  <2>. QED
    BY <1>3, <2>1
<1>. QED
  BY <1>1, <1>2, <1>3

\* The answer of a guest that ran or refused its line.
AnsweredWith(g, h, c, w, e) ==
    /\ h.up /\ h = (IF Knows(g.ctx, c) /\ ~e.failed THEN Ran(g, c) ELSE g)
    /\ \A i \in 1..Len(w) : w[i].st = "prompt" => w[i] = e
    /\ \E i \in 1..Len(w) : w[i] = e
    /\ e.ctx = h.ctx /\ (h.ctx = <<>> => h.draft = {})
    /\ e.failed /\ Knows(g.ctx, c) => (c.checked \/ c.op = "query") /\ e.st = "prompt"

LEMMA ReturnRun ==
    ASSUME NEW g, GuestIs(g), NEW h, NEW w, NEW e, AnsweredWith(g, h, Return, w, e)
    PROVE  h.ctx = g.ctx /\ h.draft = g.draft /\ h.saved = g.saved /\ h.mode = g.mode
<1>1. /\ Return.op = "return" /\ ~ClosesScope(Return) /\ ~MayChangeContext(Return)
  BY ReturnOpens DEF ClosesScope, MayChangeContext
<1>2. Enter(g.ctx, Return) = g.ctx
  BY <1>1, LastingCommand
<1>. DEFINE r == Ran(g, Return)
<1>3. /\ r.ctx = g.ctx /\ r.draft = g.draft /\ r.saved = g.saved /\ r.mode = g.mode
  BY <1>1, <1>2, RanParts
<1>. HIDE DEF r
<1>. QED
  BY <1>3 DEF AnsweredWith, r

\* A cleanup sets the output mode back, command by command.
LEMMA CleanupExecute ==
    ASSUME NEW k, Good(k), Fly(k), k.inCleanup, k.inflight.cmd \in Cmds,
           NEW g, GuestIs(g), g.up, g.ctx = <<>> => g.draft = {},
           NEW c \in {k.inflight.cmd, Return}, NEW r, CleanupRun(k, g, <<c>>, r),
           NEW h, NEW w, NEW e, AnsweredWith(g, h, c, w, e)
    PROVE  CleanupRun(k, h, <<>>, w)
<1>. DEFINE n == ToRestore(k)
            q == k.inflight.cmd
<1>1. /\ n \in 1..3
      /\ n = 3 => q = Cmd("config", "console")
      /\ n = 2 => q = Cmd("set", "more")
      /\ n = 1 => q = Cmd("end", "console")
  BY CleanupCommand
<1>2. /\ Stage(g, n - (IF <<c>> = <<q>> THEN 0 ELSE 1)) /\ <<>> # <<q>>
  BY DEF CleanupRun
<1>3. \A j : Stage(h, n - 1) /\ (n = 1 => h.mode = "more") => CleanupRun(k, h, <<>>, w)
  BY <1>2 DEF CleanupRun
<1>4. CASE c = Return
  <2>1. <<c>> # <<q>>
    BY <1>4, NotReturn
  <2>2. h.ctx = g.ctx /\ h.draft = g.draft /\ h.mode = g.mode
    BY <1>4, ReturnRun
  <2>3. Stage(g, n - 1)
    BY <1>2, <2>1
  <2>4. n = 1 => n - 1 = 0
    OBVIOUS
  <2>. HIDE DEF n
  <2>5. Stage(h, n - 1) /\ (n = 1 => h.mode = "more")
    BY <2>2, <2>3, <2>4 DEF Stage
  <2>. QED
    BY <1>3, <2>5
<1>5. CASE c = q
  <2>1. Stage(g, n)
    <3>1. n - 0 = n
      BY <1>1
    <3>. QED
      BY <1>2, <1>5, <3>1
  <2>. HIDE DEF n
  <2>2. CASE n = 3
    <3>1. c = Cmd("config", "console") /\ g.ctx = <<>>
      BY <1>1, <1>5, <2>1, <2>2 DEF Stage
    <3>2. /\ Knows(g.ctx, c) /\ Enter(g.ctx, c) = <<"console">> /\ c.op = "config" /\ ~c.checked
      BY <3>1, ConsoleScope DEF Cmd
    <3>3. h = Ran(g, c)
      BY <3>2 DEF AnsweredWith
    <3>. DEFINE x == Ran(g, c)
    <3>4. x.ctx = <<"console">> /\ x.draft = g.draft
      BY <3>2, RanParts DEF ClosesScope
    <3>. HIDE DEF x
    <3>5. h.ctx = <<"console">> /\ h.draft = {}
      BY <3>1, <3>3, <3>4 DEF x
    <3>6. n - 1 = 2
      BY <2>2
    <3>7. Stage(h, 2)
      BY <3>5 DEF Stage
    <3>. QED
      BY <1>3, <2>2, <3>6, <3>7 DEF n
  <2>3. CASE n = 2
    <3>1. c = Cmd("set", "more") /\ g.ctx = <<"console">> /\ "standard" \notin g.draft
      BY <1>1, <1>5, <2>1, <2>3 DEF Stage
    <3>2. /\ Knows(g.ctx, c) /\ c.op = "set" /\ ~c.checked /\ c.arg = "more"
      BY <3>1, BlocksAssumption DEF Cmd, Knows
    <3>3. Enter(g.ctx, c) = g.ctx
      BY <3>2, LastingCommand DEF MayChangeContext
    <3>4. h = Ran(g, c)
      BY <3>2 DEF AnsweredWith
    <3>. DEFINE x == Ran(g, c)
    <3>5. x.ctx = g.ctx /\ x.draft = g.draft \cup {"more"}
      BY <3>2, <3>3, RanParts
    <3>. HIDE DEF x
    <3>6. h.ctx = <<"console">> /\ "more" \in h.draft /\ "standard" \notin h.draft
      BY <3>1, <3>4, <3>5 DEF x
    <3>7. n - 1 = 1
      BY <2>3
    <3>8. Stage(h, 1)
      BY <3>6 DEF Stage
    <3>. QED
      BY <1>3, <2>3, <3>7, <3>8 DEF n
  <2>4. CASE n = 1
    <3>1. /\ c = Cmd("end", "console") /\ g.ctx = <<"console">> /\ "standard" \notin g.draft
          /\ "more" \in g.draft
      BY <1>1, <1>5, <2>1, <2>4 DEF Stage
    <3>2. /\ Knows(g.ctx, c) /\ Enter(g.ctx, c) = <<>> /\ c.op = "end" /\ ~c.checked
      BY <3>1, ConsoleScope DEF Cmd
    <3>3. h = Ran(g, c)
      BY <3>2 DEF AnsweredWith
    <3>4. Ran(g, c).mode = "more"
      <4>1. Len(Enter(g.ctx, c)) <= 1 /\ ClosesScope(c)
        BY <3>2 DEF ClosesScope
      <4>. QED
        BY <3>1, <4>1, RanParts
    <3>5. n - 1 = 0
      BY <2>4
    <3>6. Stage(h, 0) /\ h.mode = "more"
      BY <3>3, <3>4 DEF Stage
    <3>. QED
      BY <1>3, <3>5, <3>6 DEF n
  <2>5. n = 1 \/ n = 2 \/ n = 3
    BY <1>1
  <2>. QED
    BY <2>2, <2>3, <2>4, <2>5
<1>. QED
  BY <1>4, <1>5

\* A block is run command by command, each in the scope it is written for.
LEMMA BlockExecute ==
    ASSUME NEW k, Good(k), Fly(k), ~Idle(k), ~k.inCleanup, ~k.inReset, Setting(k),
           NEW g, GuestIs(g), g.up, g.ctx = <<>> => g.draft = {},
           NEW c \in {k.inflight.cmd, Return}, NEW r, ~Refused(k, r), Served(k, g, <<c>>, r),
           BlockRun(k, g, <<c>>, r), NEW h, NEW w, NEW e, AnsweredWith(g, h, c, w, e)
    PROVE  BlockRun(k, h, <<>>, w)
<1>. DEFINE q == k.inflight.cmd
            b == k.inflight.before
            i == k.inflight.index
            n == Len(k.cmds)
<1>1. /\ i \in 1..n /\ n \in Nat /\ q = k.cmds[i] /\ b = Intended(k.cmds, i) /\ q \in Cmds
      /\ \A j \in 1..n : Knows(Intended(k.cmds, j), k.cmds[j])
  BY BlockPlace DEF Good, Typing, ScopedBlock
<1>2. Knows(b, q) /\ i \in Nat /\ i - 0 = i
  BY <1>1
<1>3. /\ q.op # "abort"
      /\ k.std # "set-standard" /\ q.op = "set" => q.arg \notin {"standard", "more"}
  <2>1. CASE k.std = "set-standard"
    <3>1. k.cmds = SetStandard
      BY <2>1 DEF Setting
    <3>2. n = 3
      BY <3>1, ConsoleBlocks
    <3>3. i = 1 \/ i = 2 \/ i = 3
      BY <1>1, <3>2
    <3>4. q \in {Cmd("config", "console"), Cmd("set", "standard"), Cmd("end", "console")}
      BY <1>1, <3>1, <3>3, ConsoleBlocks
    <3>. QED
      BY <2>1, <3>4 DEF Cmd
  <2>2. CASE k.std # "set-standard"
    BY <1>1, <2>2 DEF Setting, Neutral
  <2>. QED
    BY <2>1, <2>2
<1>4. /\ <<>> # <<q>> /\ Place(k, <<>>) = Led(k) /\ Done(k, <<>>) = i
      /\ c = q => Place(k, <<c>>) = b /\ Done(k, <<c>>) = i - 1
      /\ c = Return => Place(k, <<c>>) = Led(k) /\ Done(k, <<c>>) = i
  <2>1. <<>> # <<q>> /\ <<Return>> # <<q>>
    BY <1>1, NotReturn
  <2>. HIDE DEF i
  <2>. QED
    BY <1>2, <2>1 DEF Place, Done, i
<1>. HIDE DEF n
<1>5. ~Changes(k) => h.ctx = g.ctx /\ Led(k) = b
  <2>. SUFFICES ASSUME ~Changes(k) PROVE h.ctx = g.ctx /\ Led(k) = b
    OBVIOUS
  <2>1. ~MayChangeContext(q) /\ ~MayChangeContext(c)
    BY ReturnOpens DEF Changes, MayChangeContext
  <2>2. Enter(b, q) = b /\ Enter(g.ctx, c) = g.ctx
    BY <2>1, LastingCommand
  <2>3. Ran(g, c).ctx = g.ctx
    BY <2>2, RanParts
  <2>. QED
    BY <2>2, <2>3 DEF AnsweredWith, Led
<1>6. Within(k, h, <<>>)
  BY <1>4, <1>5 DEF BlockRun, Within
<1>7. Setup(k, h, <<>>, w)
  <2>. SUFFICES ASSUME h.ctx = Led(k), ~Refused(k, w)
                PROVE  /\ Covered(k.cmds, i, h.saved \cup h.draft)
                       /\ k.std # "set-standard" => Clean(h)
    BY <1>4 DEF Setup
  <2>1. CASE c = Return
    <3>1. h.ctx = g.ctx /\ h.draft = g.draft /\ h.saved = g.saved
      BY <2>1, ReturnRun
    <3>. QED
      BY <1>4, <2>1, <3>1 DEF BlockRun, Setup, Clean
  <2>2. CASE c = q
    <3>1. g.ctx = b
      BY <1>4, <1>5, <2>2 DEF Served
    <3>2. Covered(k.cmds, i - 1, g.saved \cup g.draft) /\ (k.std # "set-standard" => Clean(g))
      BY <1>4, <2>2, <3>1 DEF BlockRun, Setup
    <3>3. CASE e.failed
      <4>1. (q.checked \/ q.op = "query") /\ e.st = "prompt"
        BY <1>2, <2>2, <3>1, <3>3 DEF AnsweredWith
      <4>2. ~q.checked
        <5>1. PICK j \in 1..Len(w) : w[j] = e
          BY DEF AnsweredWith
        <5>. QED
          BY <3>3, <4>1, <5>1 DEF Refused, Invalid
      <4>3. h = g /\ q.op # "set"
        BY <3>3, <4>1, <4>2 DEF AnsweredWith
      <4>4. Covered(k.cmds, i, g.saved \cup g.draft)
        BY <1>1, <1>2, <3>2, <4>3, CoveredNext
      <4>. QED
        BY <3>2, <4>3, <4>4
    <3>4. CASE ~e.failed
      <4>. DEFINE x == Ran(g, c)
                  V == x.saved \cup x.draft
      <4>1. h = x
        BY <1>2, <2>2, <3>1, <3>4 DEF AnsweredWith
      <4>2. /\ g.saved \cup g.draft \subseteq V /\ (c.op = "set" => c.arg \in x.draft)
            /\ x.draft \subseteq g.draft \cup (IF c.op = "set" THEN {c.arg} ELSE {})
        BY <1>3, <2>2, RanKeeps
      <4>. HIDE DEF x
      <4>3. Covered(k.cmds, i - 1, V)
        BY <3>2, <4>2 DEF Covered
      <4>4. Covered(k.cmds, i, V)
        BY <1>1, <1>2, <2>2, <4>2, <4>3, CoveredNext
      <4>5. k.std # "set-standard" => Clean(x)
        BY <1>3, <2>2, <3>2, <4>2 DEF Clean
      <4>. QED
        BY <4>1, <4>4, <4>5
    <3>. QED
      BY <3>3, <3>4
  <2>. QED
    BY <2>1, <2>2
<1>8. SavedAtTop(k, h, w)
  <2>. SUFFICES ASSUME Led(k) = <<>>, NEW j \in 1..Len(w), w[j].st = "prompt",
                       ~Invalid(k.inflight, w[j]), w[j].ctx = <<>>
                PROVE  Covered(k.cmds, i, h.saved)
    BY DEF SavedAtTop
  <2>1. w[j] = e /\ h.ctx = <<>> /\ h.draft = {} /\ h.up
    BY DEF AnsweredWith
  <2>2. ~Refused(k, w)
    BY <2>1 DEF AnsweredWith, Refused
  <2>3. Covered(k.cmds, i, h.saved \cup h.draft)
    BY <1>4, <1>7, <2>1, <2>2 DEF Setup
  <2>4. h.saved \cup h.draft = h.saved
    BY <2>1
  <2>. QED
    BY <2>3, <2>4
<1>. QED
  BY <1>6, <1>7, <1>8 DEF BlockRun

LEMMA ConfExecute == ConfInv /\ Execute => ConfInv'
<1>. SUFFICES ASSUME ConfInv, Execute PROVE ConfInv'
  OBVIOUS
<1>. DEFINE c == Head(typed)
<1>1. /\ DiskInv' /\ guest.up /\ UNCHANGED <<cli, phase>> /\ seen' = seen /\ GuestIs(guest)
      /\ FosInv /\ LineOrdered(guest, rx) /\ rx \in Seq(Events) /\ typed # <<>>
      /\ c.op \notin {"format", "yes"} /\ (guest.ctx = <<>> => guest.draft = {})
      /\ Good(cli) /\ ToSet(guest.formatted) \subseteq Nat
      /\ ~Idle(cli) => cli.inflight.cmd \in Cmds
  BY DiskExecute, ConfInvFacts DEF Execute, ConfInv
<1>2. /\ typed' = <<>> /\ Quiet(rx) /\ c \in Cmds \cup {Return}
      /\ ~YesTyped(typed) /\ ~YesTyped(<<>>)
  BY <1>1, GuestReads DEF Execute, YesTyped
<1>3. PICK failed1, echo \in BOOLEAN :
        LET fault == failed1 /\ Knows(guest.ctx, c)
            g == IF Knows(guest.ctx, c) /\ ~failed1 THEN Ran(guest, c) ELSE guest
        IN  /\ fault => c.checked \/ c.op = "query"
            /\ ~(fault /\ echo)
            /\ guest' = g
            /\ rx' = Append(rx, [st |-> IF echo THEN "echo" ELSE "prompt", ctx |-> g.ctx,
                                 failed |-> failed1, mode |-> guest.mode])
  BY DEF Execute
<1>. DEFINE e == [st |-> IF echo THEN "echo" ELSE "prompt", ctx |-> guest'.ctx,
                  failed |-> failed1, mode |-> guest.mode]
<1>. HIDE DEF c
<1>4. /\ GuestIs(guest') /\ guest'.up
      /\ guest' = IF Knows(guest.ctx, c) /\ ~failed1 THEN Ran(guest, c) ELSE guest
  BY <1>1, <1>2, <1>3, RanGuest
<1>5. /\ e \in Events /\ rx' = Append(rx, e) /\ e.ctx = guest'.ctx /\ e.failed = failed1
      /\ e.st \in {"prompt", "echo", "confirm"} /\ (~echo => e.st = "prompt")
  BY <1>1, <1>3, <1>4 DEF Events, GuestIs, States, Prompts
<1>. HIDE DEF e
<1>6. /\ \A i \in 1..Len(rx') : rx'[i].st = "prompt" => rx'[i] = e
      /\ \E i \in 1..Len(rx') : rx'[i] = e
  <2>1. \A i \in 1..Len(Append(rx, e)) :
          Append(rx, e)[i].st \in Prompts => Append(rx, e)[i] = e
    BY <1>1, <1>2, <1>4, <1>5, OrderedAnswer
  <2>2. Len(rx) + 1 \in 1..Len(Append(rx, e)) /\ Append(rx, e)[Len(rx) + 1] = e
    BY <1>1
  <2>. QED
    BY <1>5, <2>1, <2>2 DEF Prompts
<1>7. guest'.ctx = <<>> => guest'.draft = {}
  BY <1>1, <1>2, <1>4, DraftAtTop
<1>8. AnsweredWith(guest, guest', c, rx', e)
  BY <1>3, <1>4, <1>5, <1>6, <1>7 DEF AnsweredWith
<1>9. guest.saved \subseteq guest'.saved /\ guest'.formatted = guest.formatted
  <2>1. Ran(guest, c).formatted = guest.formatted
    BY <1>1, RanFormatted DEF c
  <2>2. guest.saved \subseteq Ran(guest, c).saved
    BY <1>1, RanParts
  <2>. QED
    BY <1>4, <2>1, <2>2
<1>10. Lasts(guest, typed, seen, guest', typed', seen')
  BY <1>1, <1>2, <1>4, <1>7, <1>9 DEF Lasts, Intact
<1>11. ASSUME phase = "starting", Calm(cli), ~Cut(seen'), ToRestore(cli) = 0,
              cli.std # "set-standard"
       PROVE  guest'.mode = guest.mode
  BY <1>1, <1>4, <1>11, ModeKept DEF Cut, c
<1>12. ASSUME phase = "starting", Calm(cli), ~seen.unseen
       PROVE  /\ ~Idle(cli) /\ Fly(cli) /\ Served(cli, guest, typed, rx) /\ ~Refused(cli, rx)
              /\ c \in {cli.inflight.cmd, Return} /\ typed = <<c>> /\ cli.inflight.cmd \in Cmds
  BY <1>1, <1>12, LineReached DEF c
<1>13. ASSUME phase = "starting", Calm(cli), ~seen'.unseen, ~cli.inCleanup, ~cli.inReset,
              BlockRun(cli, guest, typed, rx)
       PROVE  BlockRun(cli, guest', typed', rx')
  <2>1. Setting(cli)
    BY <1>13, ConfInvFacts DEF ConfInv, Told, Base
  <2>. DEFINE h == guest'
              w == rx'
  <2>2. /\ AnsweredWith(guest, h, c, w, e) /\ ~Idle(cli) /\ Fly(cli)
        /\ Served(cli, guest, <<c>>, rx) /\ ~Refused(cli, rx)
        /\ c \in {cli.inflight.cmd, Return} /\ BlockRun(cli, guest, <<c>>, rx)
    BY <1>1, <1>8, <1>12, <1>13
  <2>. HIDE DEF h, w
  <2>3. BlockRun(cli, h, <<>>, w)
    BY <1>1, <1>13, <2>1, <2>2, BlockExecute
  <2>. QED
    BY <1>2, <2>3 DEF h, w
<1>14. ASSUME phase = "starting", Calm(cli), ~Cut(seen'), cli.inCleanup,
              CleanupRun(cli, guest, typed, rx)
       PROVE  CleanupRun(cli, guest', typed', rx')
  <2>. DEFINE h == guest'
              w == rx'
  <2>1. ~seen.unseen
    BY <1>1, <1>14 DEF Cut
  <2>2. /\ AnsweredWith(guest, h, c, w, e) /\ Fly(cli) /\ cli.inflight.cmd \in Cmds
        /\ c \in {cli.inflight.cmd, Return} /\ CleanupRun(cli, guest, <<c>>, rx)
    BY <1>8, <1>12, <1>14, <2>1
  <2>. HIDE DEF h, w
  <2>3. CleanupRun(cli, h, <<>>, w)
    BY <1>1, <1>14, <2>2, CleanupExecute
  <2>. QED
    BY <1>2, <2>3 DEF h, w
<1>. QED
  BY <1>1, <1>2, <1>10, <1>11, <1>13, <1>14, GuestConf

LEMMA StepConfInv == ConfInv /\ [Next]_vars => ConfInv'
<1>. SUFFICES ASSUME ConfInv, [Next]_vars PROVE ConfInv'
  OBVIOUS
<1>1. CASE UNCHANGED vars
  <2>1. /\ cli' = cli /\ guest' = guest /\ typed' = typed /\ rx' = rx /\ phase' = phase
        /\ seen' = seen
    BY <1>1 DEF vars
  <2>2. DiskInv'
    BY <1>1, StepDiskInv DEF ConfInv
  <2>. QED
    BY <2>1, <2>2 DEF ConfInv
<1>. QED
  BY <1>1, ConfRead, ConfReadEcho, ConfReadRejected, ConfReadTimeout, ConfExecute,
     ConfExecuteFormat, ConfFall, ConfLoseSession, ConfDropLine, ConfLogin DEF Next

\* As long as no error is left behind, the commander's account of its work is right: what it
\* counts as done has been saved, set or formatted by the guest, whatever sessions and scopes
\* were lost and replayed meanwhile.
THEOREM ConfInvariance == Spec => []ConfInv
  BY InitConfInv, StepConfInv, PTL DEF Spec

\* A bootstrap that ends healthy has saved every checked setting, has every disk formatted,
\* and none twice, and leaves the console in the output mode it found.
THEOREM HealthyMeansConfiguredHolds == Spec => []HealthyMeansConfigured
<1>1. ConfInv /\ FormattedOnce => HealthyMeansConfigured
  <2>. SUFFICES ASSUME ConfInv, FormattedOnce PROVE HealthyMeansConfigured
    OBVIOUS
  <2>. DEFINE p == Shown(guest, typed, seen)
  <2>1. ASSUME phase = "running"
        PROVE  /\ Base(cli, p) /\ cli.ready /\ typed = <<>>
               /\ Disked(cli, LastDisk(guest.formatted))
    BY <2>1, ConfInvFacts DEF ConfInv, Told
  <2>2. /\ p.disks = IF Intact(guest, typed, seen) THEN ToSet(guest.formatted) ELSE Nat
        /\ p.saved = guest.saved \cup (IF seen.unseen THEN Values ELSE {})
        /\ p.more <=> (Cut(seen) \/ guest.mode = "more")
    BY ShownParts, Zenon
  <2>. HIDE DEF p
  <2>3. ASSUME phase = "running"
        PROVE  /\ cli.queue = <<>> /\ cli.active = NoFeature /\ cli.cleanup = <<>>
               /\ ~cli.inCleanup
    BY <2>1, <2>3 DEF Base, Ending
  <2>4. ASSUME phase = "running" PROVE ToSet(Queue) \subseteq cli.completed
    <3>1. ToSet(<<>>) = {}
      BY DEF ToSet
    <3>. QED
      BY <2>1, <2>3, <2>4, <3>1, FosAssumption DEF Base, Held
  <2>5. ASSUME phase = "running", ~seen.unseen, NEW f \in ToSet(Queue) \ {DiskFormat}
        PROVE  Scoped(f) \subseteq guest.saved
    <3>1. Scoped(f) \subseteq p.saved
      BY <2>1, <2>4, <2>5 DEF Base, Held
    <3>. QED
      BY <2>2, <2>5, <3>1
  <2>6. ASSUME phase = "running", ~seen.skipped
        PROVE  ToSet(guest.formatted) = 2..(Disks + 1)
    <3>1. ToSet(guest.formatted) \subseteq 2..(Disks + 1)
      BY DEF FormattedOnce
    <3>2. CASE Disks = 0
      BY <3>1, <3>2
    <3>3. CASE Disks # 0
      <4>1. DiskFormat \in cli.completed
        BY <2>4, <2>6, <3>3, FosAssumption
      <4>2. p.disks = ToSet(guest.formatted)
        BY <2>1, <2>2, <2>6 DEF Intact, YesTyped
      <4>. QED
        BY <2>1, <2>6, <3>1, <4>1, <4>2 DEF Base, Held
    <3>. QED
      BY <3>2, <3>3
  <2>7. ASSUME phase = "running", ~Cut(seen) PROVE guest.mode = "more"
    <3>1. ToRestore(cli) = 0
      <4>1. Len(<<>>) + 0 = 0
        OBVIOUS
      <4>. QED
        BY <2>3, <2>7, <4>1 DEF ToRestore
    <3>2. cli.std = "none"
      BY <2>1, <2>3, <2>7 DEF Disked, Apart, Paging
    <3>3. ~cli.restore /\ cli.std # "set-standard"
      BY <2>1, <2>7, <3>2 DEF Base, Setting
    <3>4. p.more
      BY <2>1, <2>7, <3>1, <3>3 DEF Base, Moded
    <3>. QED
      BY <2>2, <2>7, <3>4
  <2>. QED
    BY <2>5, <2>6, <2>7 DEF HealthyMeansConfigured, FormattedOnce, Cut
<1>. QED
  BY <1>1, ConfInvariance, DisksFormattedOnce, PTL

==============================================================================
