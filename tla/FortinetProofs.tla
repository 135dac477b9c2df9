--------------------------- MODULE FortinetProofs ---------------------------
(***************************************************************************)
(* Proofs about the two modules of the Fortinet launchers.  Of             *)
(* FosCommander, for any features, blocks, disks and number of unexpected  *)
(* acts of the guest: the bootstrap types one command at a time, every     *)
(* command in the scope it is written for, and formats no disk twice.  Of  *)
(* GetConfig, for any hosts, versions of the configuration and faults: the *)
(* requests for it.                                                        *)
(***************************************************************************)
EXTENDS FosCommander, GetConfig, FiniteSetTheorems, SequenceTheorems, WellFoundedInduction,
        TLAPS

(***************************************************************************)
(* The commander's state.                                                  *)
(***************************************************************************)

\* What the commander may type to run a feature, or to restore the output mode.
FormatSpec(d) == [Cmd("format", d) EXCEPT !.at = {"prompt", "confirm"}]
YesSpec(d) == [Cmd("yes", d) EXCEPT !.at = {"prompt", "rebooting"}, !.loss = "continue"]

Own ==
    {Inspect, Cmd("query", "disks"), Cmd("abort", ""), Cmd("config", "console"),
     Cmd("set", "standard"), Cmd("set", "more"), Cmd("end", "console")}

Cmds == Written \cup Own \cup {FormatSpec(d) : d \in Nat} \cup {YesSpec(d) : d \in Nat}

Fields ==
    {"queue", "active", "blocks", "completed", "stage", "left", "disk", "cmds", "pending",
     "inflight", "cleanup", "inCleanup", "std", "restore", "ctx", "blockCtx", "target",
     "retried", "resetTried", "inReset", "recovering", "authenticated", "state", "known",
     "error", "errors", "raised", "ready", "out"}

\* A block of commands in which the inspection of the output mode comes last.
IsBlock(b) ==
    b \in Seq(Cmds) /\ \A i \in 1..Len(b) : b[i] = Inspect => i = Len(b)

CleanupWork == [cmd : Cmds \ {Inspect}, again : BOOLEAN]

\* The commands of the commander, and the one in flight.
Typing(k) ==
    /\ IsBlock(k.cmds) /\ IsBlock(k.pending) /\ Len(k.pending) <= Len(k.cmds)
    /\ k.blocks \in Seq(Seq(Written))
    /\ k.cleanup \in Seq(CleanupWork)
    /\ k.retried \subseteq Nat /\ k.disk \in Nat
    /\ k.inflight.index \in Nat
    /\ ~Idle(k) => k.inflight.cmd \in Cmds
    /\ k.inflight.cmd = Inspect => k.pending = <<>> /\ ~k.inCleanup

\* The features: each is waiting, active, completed or skipped.
Queueing(k) ==
    /\ k.queue \in Seq(ToSet(Queue)) /\ IsInjective(k.queue)
    /\ \A i \in 1..Len(k.queue) : k.queue[i] \notin k.completed \cup {k.active}
    /\ k.completed \subseteq ToSet(Queue) \ {k.active}
    /\ k.active \in ToSet(Queue) \cup {NoFeature}

\* A command in flight is the active feature's, a cleanup's or a reset's.
Working(k) == Idle(k) \/ k.inCleanup \/ k.inReset \/ k.active # NoFeature

Good(k) == DOMAIN k = Fields /\ Typing(k) /\ Queueing(k) /\ Working(k)

\* An operator that types nothing.
Silent(k, d) ==
    /\ d.out = k.out /\ d.inflight = k.inflight
    /\ d.known = k.known /\ d.state = k.state
    /\ d.ctx = k.ctx /\ d.recovering = k.recovering /\ d.authenticated = k.authenticated
    /\ d.errors = k.errors

\* An operator that changes nothing of what was seen of the guest.
Keeps(k, d) ==
    /\ d.known = k.known /\ d.state = k.state
    /\ d.ctx = k.ctx /\ d.authenticated = k.authenticated
    /\ k.errors \subseteq d.errors

\* One that types at most one command, which is then in flight.
AtMostOne(k, d) ==
    /\ Keeps(k, d)
    /\ d.out = <<>> \/ (~Idle(d) /\ d.inflight.cmd \in Cmds /\ d.out = <<d.inflight.cmd>>)

(***************************************************************************)
(* Commands.                                                               *)
(***************************************************************************)

LEMMA CommandsKinds ==
    /\ Inspect \in Cmds /\ Cmd("query", "disks") \in Cmds /\ Cmd("abort", "") \in Cmds
    /\ \A d \in Nat : FormatSpec(d) \in Cmds /\ YesSpec(d) \in Cmds
    /\ \A c \in Cmds : c # Return /\ c.at \subseteq {"prompt", "confirm", "rebooting"}
    /\ \A d \in Nat : FormatSpec(d) # Inspect /\ YesSpec(d) # Inspect
    /\ Inspect \notin Written
<1>1. /\ Inspect \in Cmds /\ Cmd("query", "disks") \in Cmds /\ Cmd("abort", "") \in Cmds
      /\ \A d \in Nat : FormatSpec(d) \in Cmds /\ YesSpec(d) \in Cmds
  BY DEF Cmds, Own
<1>2. \A d \in Nat : /\ FormatSpec(d) # Inspect /\ YesSpec(d) # Inspect
                     /\ FormatSpec(d) # Return /\ YesSpec(d) # Return
                     /\ FormatSpec(d).at = {"prompt", "confirm"}
                     /\ YesSpec(d).at = {"prompt", "rebooting"}
  BY DEF FormatSpec, YesSpec, Cmd, Inspect, Return
<1>3. \A c \in Own : c # Return /\ c.at = {"prompt"}
  <2>1. ASSUME NEW o, NEW a, o # "return"
        PROVE  Cmd(o, a) # Return /\ Cmd(o, a).at = {"prompt"}
    <3>1. Cmd(o, a).op = o /\ Cmd(o, a).at = {"prompt"} /\ Return.op = "return"
      BY DEF Cmd, Return
    <3>. QED
      BY <2>1, <3>1
  <2>2. /\ Cmd("query", "console") # Return /\ Cmd("query", "console").at = {"prompt"}
        /\ Cmd("query", "disks") # Return /\ Cmd("query", "disks").at = {"prompt"}
        /\ Cmd("abort", "") # Return /\ Cmd("abort", "").at = {"prompt"}
        /\ Cmd("config", "console") # Return /\ Cmd("config", "console").at = {"prompt"}
        /\ Cmd("set", "standard") # Return /\ Cmd("set", "standard").at = {"prompt"}
        /\ Cmd("set", "more") # Return /\ Cmd("set", "more").at = {"prompt"}
        /\ Cmd("end", "console") # Return /\ Cmd("end", "console").at = {"prompt"}
    BY <2>1
  <2>. QED
    BY <2>2, Zenon DEF Own, Inspect
<1>4. \A c \in Written : c \notin {Inspect, Return} /\ c.at = {"prompt"}
  BY FosAssumption
<1>5. ASSUME NEW c \in Cmds
      PROVE  c # Return /\ c.at \subseteq {"prompt", "confirm", "rebooting"}
  BY <1>2, <1>3, <1>4 DEF Cmds
<1>. QED
  BY <1>1, <1>2, <1>4, <1>5

LEMMA ThreeCommands ==
    ASSUME NEW a, NEW b, NEW c
    PROVE  <<a>> \o <<b>> \o <<c>> = <<a, b, c>>
<1>. DEFINE S == {a, b, c}
<1>1. <<a>> \in Seq(S) /\ <<b>> \in Seq(S) /\ <<c>> \in Seq(S) /\ <<a, b, c>> \in Seq(S)
  OBVIOUS
<1>2. /\ <<a>> \o <<b>> \in Seq(S) /\ Len(<<a>> \o <<b>>) = 2
      /\ (<<a>> \o <<b>>)[1] = a /\ (<<a>> \o <<b>>)[2] = b
  <2>. HIDE DEF S
  <2>. QED
    BY <1>1, ConcatProperties
<1>3. /\ <<a>> \o <<b>> \o <<c>> \in Seq(S) /\ Len(<<a>> \o <<b>> \o <<c>>) = 3
      /\ \A i \in 1..3 : (<<a>> \o <<b>> \o <<c>>)[i] = <<a, b, c>>[i]
  <2>. HIDE DEF S
  <2>. QED
    BY <1>1, <1>2, ConcatProperties
<1>. HIDE DEF S
<1>. QED
  BY <1>1, <1>3, SeqEqual

LEMMA ConsoleBlocks ==
    /\ SetStandard = <<Cmd("config", "console"), Cmd("set", "standard"), Cmd("end", "console")>>
    /\ SetMore = <<Cmd("config", "console"), Cmd("set", "more"), Cmd("end", "console")>>
  BY ThreeCommands DEF SetStandard, SetMore, ConfigBlock

LEMMA BlocksOfCommands ==
    /\ IsBlock(<<>>) /\ IsBlock(<<Inspect>>) /\ IsBlock(SetStandard)
    /\ \A c \in Cmds : IsBlock(<<c>>)
    /\ \A b \in Seq(Written) : IsBlock(b)
<1>1. \A c \in Cmds : IsBlock(<<c>>)
  BY DEF IsBlock
<1>2. IsBlock(SetStandard)
  <2>1. SetStandard \in Seq(Cmds)
    BY ConsoleBlocks DEF Cmds, Own
  <2>2. \A i \in 1..Len(SetStandard) : SetStandard[i] # Inspect
    BY ConsoleBlocks DEF Cmd, Inspect
  <2>. QED
    BY <2>1, <2>2 DEF IsBlock
<1>3. ASSUME NEW b \in Seq(Written) PROVE IsBlock(b)
  <2>1. b \in Seq(Cmds)
    BY SeqMonotonic DEF Cmds
  <2>2. \A i \in 1..Len(b) : b[i] # Inspect
    BY ElementOfSeq, CommandsKinds
  <2>. QED
    BY <2>1, <2>2 DEF IsBlock
<1>4. IsBlock(<<>>)
  BY EmptySeq DEF IsBlock
<1>. QED
  BY <1>1, <1>2, <1>3, <1>4, CommandsKinds

LEMMA LastOf ==
    ASSUME NEW b, NEW t, NEW n \in Nat, NEW x, n >= 1,
           \A i \in 1..n : b[i] = x => i = n, \A i \in 1..(n - 1) : t[i] = b[i + 1]
    PROVE  /\ \A i \in 1..(n - 1) : t[i] = x => i = n - 1
           /\ b[1] = x => n - 1 = 0
  OBVIOUS
LEMMA LastTail ==
    ASSUME NEW S, NEW b \in Seq(S), b # <<>>, NEW x, \A i \in 1..Len(b) : b[i] = x => i = Len(b)
    PROVE  /\ \A i \in 1..Len(Tail(b)) : Tail(b)[i] = x => i = Len(Tail(b))
           /\ Head(b) = x => Len(Tail(b)) = 0
<1>1. /\ Len(Tail(b)) = Len(b) - 1
      /\ \A i \in 1..(Len(b) - 1) : Tail(b)[i] = b[i + 1]
      /\ Head(b) = b[1]
  BY HeadTailProperties
<1>2. Len(b) \in Nat /\ Len(b) >= 1
  BY EmptySeq
<1>3. /\ \A i \in 1..(Len(b) - 1) : Tail(b)[i] = x => i = Len(b) - 1
      /\ b[1] = x => Len(b) - 1 = 0
  <2>. DEFINE n == Len(b)
              t == Tail(b)
  <2>1. n \in Nat /\ n >= 1 /\ \A i \in 1..(n - 1) : t[i] = b[i + 1]
    BY <1>1, <1>2
  <2>2. \A i \in 1..n : b[i] = x => i = n
    OBVIOUS
  <2>. HIDE DEF n, t
  <2>3. /\ \A i \in 1..(n - 1) : t[i] = x => i = n - 1
        /\ b[1] = x => n - 1 = 0
    BY <2>1, <2>2, LastOf
  <2>. QED
    BY <2>3 DEF n, t
<1>. QED
  BY <1>1, <1>3
LEMMA TailOfBlock ==
    ASSUME NEW b, IsBlock(b), b # <<>>
    PROVE  /\ IsBlock(Tail(b)) /\ Head(b) \in Cmds
           /\ Len(b) \in Nat /\ Len(Tail(b)) = Len(b) - 1
           /\ Head(b) = Inspect => Tail(b) = <<>>
<1>1. /\ b \in Seq(Cmds) /\ Tail(b) \in Seq(Cmds) /\ Head(b) \in Cmds
      /\ Len(Tail(b)) = Len(b) - 1 /\ Len(b) \in Nat
  BY HeadTailProperties, LenProperties DEF IsBlock
<1>2. /\ \A i \in 1..Len(Tail(b)) : Tail(b)[i] = Inspect => i = Len(Tail(b))
      /\ Head(b) = Inspect => Len(Tail(b)) = 0
  BY <1>1, LastTail DEF IsBlock
<1>3. Head(b) = Inspect => Tail(b) = <<>>
  BY <1>1, <1>2, EmptySeq
<1>. QED
  BY <1>1, <1>2, <1>3 DEF IsBlock

(***************************************************************************)
(* The operators that type nothing.                                        *)
(***************************************************************************)

LEMMA InspectNoAttempt == NoAttempt.cmd # Inspect /\ NoAttempt.index = 0
  BY DEF NoAttempt, Return, Inspect, Cmd

LEMMA SubmitBlockGood ==
    ASSUME NEW k, Good(k), Idle(k), NEW b, IsBlock(b)
    PROVE  Good(SubmitBlock(k, b)) /\ Silent(k, SubmitBlock(k, b))
<1>. DEFINE d == SubmitBlock(k, b)
<1>1. /\ DOMAIN d = Fields /\ Silent(k, d)
      /\ d.cmds = b /\ d.pending = b /\ d.retried = {}
      /\ d.queue = k.queue /\ d.active = k.active /\ d.completed = k.completed
      /\ d.blocks = k.blocks /\ d.cleanup = k.cleanup /\ d.disk = k.disk
      /\ d.inCleanup = k.inCleanup /\ d.inReset = k.inReset
  BY DEF SubmitBlock, Good, Fields, Silent
<1>2. k.inflight.cmd # Inspect
  BY InspectNoAttempt DEF Idle
<1>. HIDE DEF d
<1>3. Typing(d)
  BY <1>1, <1>2 DEF Good, Typing, IsBlock, Silent, Idle
<1>4. Queueing(d) /\ Working(d)
  BY <1>1 DEF Good, Queueing, Working, Silent, Idle
<1>. QED
  BY <1>1, <1>3, <1>4 DEF Good, d

\* The fields the commander's soundness is about.
Parts(k) ==
    <<k.queue, k.active, k.completed, k.blocks, k.cmds, k.pending, k.cleanup, k.retried, k.disk,
      k.inflight, k.inCleanup, k.inReset>>

LEMMA GoodByParts ==
    ASSUME NEW k, NEW d, Good(k), DOMAIN d = Fields, Parts(d) = Parts(k)
    PROVE  Good(d)
<1>1. /\ d.queue = k.queue /\ d.active = k.active /\ d.completed = k.completed
      /\ d.blocks = k.blocks /\ d.cmds = k.cmds /\ d.pending = k.pending
      /\ d.cleanup = k.cleanup /\ d.retried = k.retried /\ d.disk = k.disk
      /\ d.inflight = k.inflight /\ d.inCleanup = k.inCleanup /\ d.inReset = k.inReset
  BY DEF Parts
<1>2. Typing(d)
  BY <1>1 DEF Good, Typing, Idle
<1>3. Queueing(d) /\ Working(d)
  BY <1>1 DEF Good, Queueing, Working, Idle
<1>. QED
  BY <1>2, <1>3 DEF Good

LEMMA WorkErrorGood ==
    ASSUME NEW k, Good(k)
    PROVE  /\ Good(WorkError(k)) /\ Silent(k, WorkError(k))
           /\ WorkError(k).active = k.active /\ WorkError(k).pending = k.pending
<1>. DEFINE d == WorkError(k)
<1>1. /\ DOMAIN d = Fields /\ Parts(d) = Parts(k) /\ Silent(k, d)
      /\ d.active = k.active /\ d.pending = k.pending
  BY DEF WorkError, Raise, Good, Fields, Parts, Silent
<1>. HIDE DEF d
<1>2. Good(d)
  BY <1>1, GoodByParts
<1>. QED
  BY <1>1, <1>2 DEF d

LEMMA SubmitListGood ==
    ASSUME NEW k, Good(k), Idle(k)
    PROVE  Good(SubmitList(k)) /\ Silent(k, SubmitList(k))
<1>. DEFINE s == [k EXCEPT !.stage = "list"]
<1>1. DOMAIN s = Fields /\ Parts(s) = Parts(k) /\ Silent(k, s)
  BY DEF Good, Fields, Parts, Silent
<1>2. SubmitList(k) = SubmitBlock(s, <<Cmd("query", "disks")>>)
  BY DEF SubmitList
<1>. HIDE DEF s
<1>3. Good(s) /\ Idle(s)
  BY <1>1, GoodByParts DEF Silent, Idle
<1>4. IsBlock(<<Cmd("query", "disks")>>)
  BY BlocksOfCommands, CommandsKinds
<1>5. /\ Good(SubmitBlock(s, <<Cmd("query", "disks")>>))
      /\ Silent(s, SubmitBlock(s, <<Cmd("query", "disks")>>))
  BY <1>3, <1>4, SubmitBlockGood
<1>. QED
  BY <1>1, <1>2, <1>5 DEF Silent

LEMMA RestoringWork ==
    [i \in 1..3 |-> [cmd |-> SetMore[i], again |-> FALSE]] \in Seq(CleanupWork)
<1>1. \A i \in 1..3 : SetMore[i] \in Cmds \ {Inspect}
  <2>1. Cmd("config", "console") # Inspect /\ Cmd("set", "more") # Inspect
        /\ Cmd("end", "console") # Inspect
    BY DEF Cmd, Inspect
  <2>2. SetMore[1] = Cmd("config", "console") /\ SetMore[2] = Cmd("set", "more")
        /\ SetMore[3] = Cmd("end", "console")
    BY ConsoleBlocks
  <2>3. \A c \in Own : c \in Cmds
    BY DEF Cmds
  <2>4. {SetMore[1], SetMore[2], SetMore[3]} \subseteq Cmds \ {Inspect}
    BY <2>1, <2>2, <2>3 DEF Own
  <2>. QED
    BY <2>4
<1>2. \A i \in 1..3 : [cmd |-> SetMore[i], again |-> FALSE] \in CleanupWork
  BY <1>1 DEF CleanupWork
<1>. HIDE DEF CleanupWork
<1>. QED
  BY <1>2

LEMMA FinishStandardOutputGood ==
    ASSUME NEW k, Good(k)
    PROVE  LET d == FinishStandardOutput(k)
           IN  /\ Good(d) /\ Silent(k, d)
               /\ d.active = k.active /\ d.pending = k.pending /\ d.completed = k.completed
<1>. DEFINE w == [i \in 1..3 |-> [cmd |-> SetMore[i], again |-> FALSE]]
            d == FinishStandardOutput(k)
<1>1. /\ DOMAIN d = Fields /\ Silent(k, d)
      /\ d.cleanup = IF k.restore THEN k.cleanup \o w ELSE k.cleanup
      /\ d.queue = k.queue /\ d.active = k.active /\ d.completed = k.completed
      /\ d.blocks = k.blocks /\ d.cmds = k.cmds /\ d.pending = k.pending
      /\ d.retried = k.retried /\ d.disk = k.disk
      /\ d.inflight = k.inflight /\ d.inCleanup = k.inCleanup /\ d.inReset = k.inReset
  BY DEF FinishStandardOutput, Good, Fields, Silent
<1>2. d.cleanup \in Seq(CleanupWork)
  <2>1. w \in Seq(CleanupWork) /\ k.cleanup \in Seq(CleanupWork)
    BY RestoringWork DEF Good, Typing
  <2>. HIDE DEF w, d
  <2>2. k.cleanup \o w \in Seq(CleanupWork)
    BY <2>1, ConcatProperties
  <2>. QED
    BY <1>1, <2>1, <2>2
<1>. HIDE DEF d
<1>3. Typing(d)
  BY <1>1, <1>2 DEF Good, Typing, Idle
<1>4. Queueing(d) /\ Working(d)
  BY <1>1 DEF Good, Queueing, Working, Idle
<1>. QED
  BY <1>1, <1>3, <1>4 DEF Good, d

LEMMA TakeFeature ==
    ASSUME NEW k, Good(k), Idle(k), k.queue # <<>>, k.active = NoFeature,
           NEW a, a = [k EXCEPT !.active = Head(k.queue), !.queue = Tail(k.queue)]
    PROVE  Good(a) /\ Silent(k, a) /\ a.active \in ToSet(Queue)
<1>1. /\ k.queue \in Seq(ToSet(Queue)) /\ IsInjective(k.queue)
      /\ \A i \in 1..Len(k.queue) : k.queue[i] \notin k.completed
      /\ k.completed \subseteq ToSet(Queue)
  BY DEF Good, Queueing
<1>2. /\ Head(k.queue) \in ToSet(Queue) /\ Tail(k.queue) \in Seq(ToSet(Queue))
      /\ Len(Tail(k.queue)) = Len(k.queue) - 1 /\ Head(k.queue) = k.queue[1]
      /\ \A i \in 1..Len(Tail(k.queue)) : Tail(k.queue)[i] = k.queue[i + 1]
  BY <1>1, HeadTailProperties
<1>3. Len(k.queue) \in Nat \ {0} /\ DOMAIN k.queue = 1..Len(k.queue)
      /\ DOMAIN Tail(k.queue) = 1..Len(Tail(k.queue))
  BY <1>1, <1>2, EmptySeq, LenProperties
<1>4. /\ DOMAIN a = Fields /\ Silent(k, a)
      /\ a.active = Head(k.queue) /\ a.queue = Tail(k.queue) /\ a.completed = k.completed
      /\ a.blocks = k.blocks /\ a.cmds = k.cmds /\ a.pending = k.pending
      /\ a.cleanup = k.cleanup /\ a.retried = k.retried /\ a.disk = k.disk
      /\ a.inflight = k.inflight /\ a.inCleanup = k.inCleanup /\ a.inReset = k.inReset
  BY DEF Good, Fields, Silent
<1>5. Typing(a) /\ Working(a)
  BY <1>4 DEF Good, Typing, Working, Idle
<1>6. Queueing(a)
  <2>. DEFINE q == k.queue
              t == Tail(k.queue)
              n == Len(k.queue)
  <2>1. /\ n \in Nat \ {0} /\ Len(t) = n - 1
        /\ \A i \in 1..(n - 1) : t[i] = q[i + 1]
        /\ DOMAIN q = 1..n /\ DOMAIN t = 1..(n - 1)
        /\ \A i, j \in 1..n : q[i] = q[j] => i = j
        /\ \A i \in 1..n : q[i] \notin k.completed
    BY <1>1, <1>2, <1>3 DEF IsInjective
  <2>. HIDE DEF q, t, n
  <2>2. \A i, j \in 1..(n - 1) : t[i] = t[j] => i = j
    BY <2>1
  <2>3. \A i \in 1..(n - 1) : t[i] \notin k.completed \cup {q[1]}
    BY <2>1
  <2>4. q[1] \notin k.completed
    BY <2>1
  <2>. QED
    BY <1>1, <1>2, <1>4, <2>1, <2>2, <2>3, <2>4 DEF Queueing, IsInjective, q, t, n
<1>. QED
  BY <1>2, <1>4, <1>5, <1>6 DEF Good

LEMMA ActivateNextFeatureGood ==
    ASSUME NEW k, Good(k), Idle(k)
    PROVE  Good(ActivateNextFeature(k)) /\ Silent(k, ActivateNextFeature(k))
<1>1. CASE k.ready \/ k.active # NoFeature \/ k.recovering
  BY <1>1 DEF ActivateNextFeature, Silent
<1>2. CASE ~(k.ready \/ k.active # NoFeature \/ k.recovering) /\ k.queue = <<>>
  <2>. DEFINE r == [k EXCEPT !.ready = TRUE]
  <2>1. DOMAIN r = Fields /\ Parts(r) = Parts(k) /\ Silent(k, r)
    BY DEF Good, Fields, Parts, Silent
  <2>2. ActivateNextFeature(k) \in {k, r}
    BY <1>2 DEF ActivateNextFeature
  <2>. HIDE DEF r
  <2>. QED
    BY <2>1, <2>2, GoodByParts DEF Silent
<1>3. CASE ~(k.ready \/ k.active # NoFeature \/ k.recovering) /\ k.queue # <<>>
  <2>. DEFINE f == Head(k.queue)
              a == [k EXCEPT !.active = f, !.queue = Tail(k.queue)]
              d == [a EXCEPT !.left = Disks, !.disk = 2]
              p == [a EXCEPT !.std = "inspect", !.blocks = Blocks[f]]
              b == [a EXCEPT !.blocks = Tail(Blocks[f])]
  <2>1. ActivateNextFeature(k) =
            IF f = DiskFormat THEN SubmitList(d)
            ELSE IF f \in Paged THEN SubmitBlock(p, <<Inspect>>)
            ELSE SubmitBlock(b, Head(Blocks[f]))
    BY <1>3 DEF ActivateNextFeature
  <2>2. Good(a) /\ Silent(k, a) /\ a.active \in ToSet(Queue) /\ a.active = f
    <3>1. Good(a) /\ Silent(k, a) /\ a.active \in ToSet(Queue)
      BY <1>3, TakeFeature
    <3>2. a.active = f
      BY DEF Good, Fields
    <3>. QED
      BY <3>1, <3>2
  <2>. HIDE DEF a, f
  <2>3. CASE f = DiskFormat
    <3>1. /\ DOMAIN d = Fields /\ Silent(a, d)
          /\ d.queue = a.queue /\ d.active = a.active /\ d.completed = a.completed
          /\ d.blocks = a.blocks /\ d.cmds = a.cmds /\ d.pending = a.pending
          /\ d.cleanup = a.cleanup /\ d.retried = a.retried /\ d.disk = 2
          /\ d.inflight = a.inflight /\ d.inCleanup = a.inCleanup /\ d.inReset = a.inReset
      BY <2>2 DEF Good, Fields, Silent
    <3>. HIDE DEF d
    <3>2. Typing(d)
      BY <2>2, <3>1 DEF Good, Typing, Idle
    <3>3. Queueing(d) /\ Working(d)
      BY <2>2, <3>1 DEF Good, Queueing, Working, Idle
    <3>4. Good(d) /\ Idle(d)
      BY <2>2, <3>1, <3>2, <3>3 DEF Good, Idle, Silent
    <3>5. Good(SubmitList(d)) /\ Silent(d, SubmitList(d))
      BY <3>4, SubmitListGood
    <3>. QED
      BY <2>1, <2>2, <2>3, <3>1, <3>5 DEF Silent
  <2>4. CASE f # DiskFormat
    <3>1. /\ Blocks[f] \in Seq(Seq(Written))
          /\ f \notin Paged => Blocks[f] # <<>>
      BY <2>2, <2>4, FosAssumption
    <3>2. CASE f \in Paged
      <4>1. /\ DOMAIN p = Fields /\ Silent(a, p)
            /\ p.queue = a.queue /\ p.active = a.active /\ p.completed = a.completed
            /\ p.blocks = Blocks[f] /\ p.cmds = a.cmds /\ p.pending = a.pending
            /\ p.cleanup = a.cleanup /\ p.retried = a.retried /\ p.disk = a.disk
            /\ p.inflight = a.inflight /\ p.inCleanup = a.inCleanup /\ p.inReset = a.inReset
        BY <2>2 DEF Good, Fields, Silent
      <4>. HIDE DEF p
      <4>2. Typing(p)
        BY <2>2, <3>1, <4>1 DEF Good, Typing, Idle
      <4>3. Queueing(p) /\ Working(p)
        BY <2>2, <4>1 DEF Good, Queueing, Working, Idle
      <4>4. Good(p) /\ Idle(p)
        BY <2>2, <4>1, <4>2, <4>3 DEF Good, Idle, Silent
      <4>5. /\ Good(SubmitBlock(p, <<Inspect>>))
            /\ Silent(p, SubmitBlock(p, <<Inspect>>))
        BY <4>4, SubmitBlockGood, BlocksOfCommands
      <4>. QED
        BY <2>1, <2>2, <2>4, <3>2, <4>1, <4>5 DEF Silent
    <3>3. CASE f \notin Paged
      <4>1. Tail(Blocks[f]) \in Seq(Seq(Written)) /\ Head(Blocks[f]) \in Seq(Written)
        BY <3>1, <3>3, HeadTailProperties
      <4>2. /\ DOMAIN b = Fields /\ Silent(a, b)
            /\ b.queue = a.queue /\ b.active = a.active /\ b.completed = a.completed
            /\ b.blocks = Tail(Blocks[f]) /\ b.cmds = a.cmds /\ b.pending = a.pending
            /\ b.cleanup = a.cleanup /\ b.retried = a.retried /\ b.disk = a.disk
            /\ b.inflight = a.inflight /\ b.inCleanup = a.inCleanup /\ b.inReset = a.inReset
        BY <2>2 DEF Good, Fields, Silent
      <4>. HIDE DEF b
      <4>3. Typing(b)
        BY <2>2, <4>1, <4>2 DEF Good, Typing, Idle
      <4>4. Queueing(b) /\ Working(b)
        BY <2>2, <4>2 DEF Good, Queueing, Working, Idle
      <4>5. Good(b) /\ Idle(b)
        BY <2>2, <4>2, <4>3, <4>4 DEF Good, Idle, Silent
      <4>6. IsBlock(Head(Blocks[f]))
        BY <4>1, BlocksOfCommands
      <4>7. /\ Good(SubmitBlock(b, Head(Blocks[f])))
            /\ Silent(b, SubmitBlock(b, Head(Blocks[f])))
        BY <4>5, <4>6, SubmitBlockGood
      <4>. QED
        BY <2>1, <2>2, <2>4, <3>3, <4>2, <4>7 DEF Silent
    <3>. QED
      BY <3>2, <3>3
  <2>. QED
    BY <2>3, <2>4
<1>. QED
  BY <1>1, <1>2, <1>3

\* A completed feature is never active or queued again.
\* The active feature is done.
LEMMA CompletedGood ==
    ASSUME NEW k, Good(k), Idle(k), k.active # NoFeature, k.pending = <<>>, NEW d,
           d = [FinishStandardOutput(k) EXCEPT
                  !.completed = @ \cup {k.active}, !.active = NoFeature, !.cmds = <<>>]
    PROVE  Good(d) /\ Idle(d) /\ Silent(k, d)
<1>. DEFINE s == FinishStandardOutput(k)
<1>1. /\ Good(s) /\ Silent(k, s) /\ s.active = k.active /\ s.pending = k.pending
      /\ s.completed = k.completed
  BY FinishStandardOutputGood
<1>2. d = [s EXCEPT !.completed = @ \cup {k.active}, !.active = NoFeature, !.cmds = <<>>]
  OBVIOUS
<1>. HIDE DEF s
<1>3. /\ DOMAIN d = Fields /\ Silent(s, d)
      /\ d.queue = s.queue /\ d.active = NoFeature /\ d.completed = s.completed \cup {s.active}
      /\ d.blocks = s.blocks /\ d.cmds = <<>> /\ d.pending = <<>>
      /\ d.cleanup = s.cleanup /\ d.retried = s.retried /\ d.disk = s.disk
      /\ d.inflight = s.inflight /\ d.inCleanup = s.inCleanup /\ d.inReset = s.inReset
  <2>. DEFINE r == [s EXCEPT !.completed = @ \cup {k.active}, !.active = NoFeature,
                              !.cmds = <<>>]
  <2>1. /\ DOMAIN r = Fields /\ Silent(s, r)
        /\ r.queue = s.queue /\ r.active = NoFeature
        /\ r.completed = s.completed \cup {s.active}
        /\ r.blocks = s.blocks /\ r.cmds = <<>> /\ r.pending = <<>>
        /\ r.cleanup = s.cleanup /\ r.retried = s.retried /\ r.disk = s.disk
        /\ r.inflight = s.inflight /\ r.inCleanup = s.inCleanup /\ r.inReset = s.inReset
    BY <1>1 DEF Good, Fields, Silent
  <2>2. d = r
    BY <1>2
  <2>. HIDE DEF r
  <2>. QED
    BY <2>1, <2>2
<1>4. Idle(d)
  BY <1>1, <1>3 DEF Idle, Silent
<1>5. Typing(d)
  <2>1. IsBlock(<<>>) /\ Len(<<>>) = 0
    BY BlocksOfCommands
  <2>. QED
    BY <1>1, <1>3, <2>1 DEF Good, Typing, Idle
<1>6. Queueing(d)
  <2>1. NoFeature \notin ToSet(Queue)
    BY FosAssumption
  <2>2. \A i \in 1..Len(d.queue) : d.queue[i] \in ToSet(Queue)
    BY <1>1, <1>3, ElementOfSeq DEF Good, Queueing
  <2>. QED
    BY <1>1, <1>3, <2>1, <2>2 DEF Good, Queueing
<1>7. Good(d)
  BY <1>3, <1>4, <1>5, <1>6 DEF Good, Working
<1>. QED
  BY <1>1, <1>3, <1>4, <1>7 DEF Silent

LEMMA FeatureCompleteGood ==
    ASSUME NEW k, Good(k), Idle(k), k.active # NoFeature, k.pending = <<>>
    PROVE  Good(FeatureComplete(k)) /\ Silent(k, FeatureComplete(k))
<1>. DEFINE d == [FinishStandardOutput(k) EXCEPT
                    !.completed = @ \cup {k.active}, !.active = NoFeature, !.cmds = <<>>]
<1>1. FeatureComplete(k) = IF d.cleanup = <<>> THEN ActivateNextFeature(d) ELSE d
  BY DEF FeatureComplete
<1>2. Good(d) /\ Idle(d) /\ Silent(k, d)
  BY CompletedGood
<1>. HIDE DEF d
<1>3. Good(ActivateNextFeature(d)) /\ Silent(d, ActivateNextFeature(d))
  BY <1>2, ActivateNextFeatureGood
<1>. QED
  BY <1>1, <1>2, <1>3 DEF Silent

LEMMA SubmitNextGood ==
    ASSUME NEW k, Good(k), Idle(k), k.active # NoFeature, k.pending = <<>>
    PROVE  Good(SubmitNext(k)) /\ Silent(k, SubmitNext(k))
<1>1. CASE k.blocks = <<>>
  BY <1>1, FeatureCompleteGood DEF SubmitNext
<1>2. CASE k.blocks # <<>>
  <2>. DEFINE b == [k EXCEPT !.blocks = Tail(@)]
  <2>1. Tail(k.blocks) \in Seq(Seq(Written)) /\ Head(k.blocks) \in Seq(Written)
    BY <1>2, HeadTailProperties DEF Good, Typing
  <2>2. /\ DOMAIN b = Fields /\ Silent(k, b)
        /\ b.queue = k.queue /\ b.active = k.active /\ b.completed = k.completed
        /\ b.blocks = Tail(k.blocks) /\ b.cmds = k.cmds /\ b.pending = k.pending
        /\ b.cleanup = k.cleanup /\ b.retried = k.retried /\ b.disk = k.disk
        /\ b.inflight = k.inflight /\ b.inCleanup = k.inCleanup /\ b.inReset = k.inReset
    BY DEF Good, Fields, Silent
  <2>3. SubmitNext(k) = SubmitBlock(b, Head(k.blocks))
    BY <1>2 DEF SubmitNext
  <2>. HIDE DEF b
  <2>4. Typing(b)
    BY <2>1, <2>2 DEF Good, Typing, Idle
  <2>5. Queueing(b) /\ Working(b)
    BY <2>2 DEF Good, Queueing, Working, Idle
  <2>6. Good(b) /\ Idle(b)
    BY <2>2, <2>4, <2>5 DEF Good, Idle
  <2>7. IsBlock(Head(k.blocks))
    BY <2>1, BlocksOfCommands
  <2>8. Good(SubmitBlock(b, Head(k.blocks))) /\ Silent(b, SubmitBlock(b, Head(k.blocks)))
    BY <2>6, <2>7, SubmitBlockGood
  <2>. QED
    BY <2>2, <2>3, <2>8 DEF Silent
<1>. QED
  BY <1>1, <1>2

LEMMA NextDiskGood ==
    ASSUME NEW k, Good(k),
           NEW d \in {[k EXCEPT !.left = @ - 1, !.disk = @ + 1],
                      [k EXCEPT !.left = @ - 1, !.disk = @ + 1, !.stage = "restart-list"]}
    PROVE  Good(d) /\ Silent(k, d) /\ d.active = k.active /\ d.pending = k.pending
<1>0. k.disk \in Nat /\ DOMAIN k = Fields
  BY DEF Good, Typing
<1>1. /\ DOMAIN d = Fields /\ Silent(k, d)
      /\ d.queue = k.queue /\ d.active = k.active /\ d.completed = k.completed
      /\ d.blocks = k.blocks /\ d.cmds = k.cmds /\ d.pending = k.pending
      /\ d.cleanup = k.cleanup /\ d.retried = k.retried /\ d.disk = k.disk + 1
      /\ d.inflight = k.inflight /\ d.inCleanup = k.inCleanup /\ d.inReset = k.inReset
  <2>1. CASE d = [k EXCEPT !.left = @ - 1, !.disk = @ + 1]
    BY <1>0, <2>1 DEF Fields, Silent
  <2>2. CASE d = [k EXCEPT !.left = @ - 1, !.disk = @ + 1, !.stage = "restart-list"]
    BY <1>0, <2>2 DEF Fields, Silent
  <2>. QED
    BY <2>1, <2>2
<1>2. Typing(d)
  BY <1>1 DEF Good, Typing, Idle
<1>3. Queueing(d) /\ Working(d)
  BY <1>1 DEF Good, Queueing, Working, Idle
<1>. QED
  BY <1>1, <1>2, <1>3 DEF Good

LEMMA OnBlockCompleteGood ==
    ASSUME NEW k, Good(k), Idle(k), k.active # NoFeature, k.pending = <<>>
    PROVE  Good(OnBlockComplete(k)) /\ Silent(k, OnBlockComplete(k))
<1>1. CASE k.active # DiskFormat
  BY <1>1, SubmitNextGood DEF OnBlockComplete
<1>2. CASE k.active = DiskFormat /\ k.stage = "restart-list"
  BY <1>2, SubmitListGood DEF OnBlockComplete
<1>3. CASE k.active = DiskFormat /\ k.stage = "reboot"
  <2>. DEFINE d == [k EXCEPT !.left = @ - 1, !.disk = @ + 1]
  <2>1. Good(d) /\ Silent(k, d) /\ d.active = k.active /\ d.pending = k.pending
    BY NextDiskGood
  <2>2. OnBlockComplete(k) = IF d.left = 0 THEN FeatureComplete(d) ELSE SubmitList(d)
    BY <1>3 DEF OnBlockComplete
  <2>. HIDE DEF d
  <2>3. Idle(d)
    BY <2>1 DEF Silent, Idle
  <2>4. Good(FeatureComplete(d)) /\ Silent(d, FeatureComplete(d))
    BY <2>1, <2>3, FeatureCompleteGood
  <2>5. Good(SubmitList(d)) /\ Silent(d, SubmitList(d))
    BY <2>1, <2>3, SubmitListGood
  <2>. QED
    BY <2>1, <2>2, <2>4, <2>5 DEF Silent
<1>4. CASE k.active = DiskFormat /\ k.stage \notin {"restart-list", "reboot"}
  BY <1>4 DEF OnBlockComplete, Silent
<1>. QED
  BY <1>1, <1>2, <1>3, <1>4

LEMMA OnCommandExecutedGood ==
    ASSUME NEW k, Good(k), Idle(k), NEW e
    PROVE  LET x == OnCommandExecuted(k, e)
           IN  Good(x) /\ Silent(k, x) /\ x.active = k.active
<1>. DEFINE x == OnCommandExecuted(k, e)
            f == [k EXCEPT !.stage = "format"]
            r == [k EXCEPT !.stage = "reboot"]
<1>0. k.disk \in Nat
  BY DEF Good, Typing
<1>1. CASE x \in {k, WorkError(k)}
  BY <1>1, WorkErrorGood DEF Silent
<1>2. CASE x = SubmitBlock(f, <<FormatSpec(k.disk)>>)
  <2>1. DOMAIN f = Fields /\ Parts(f) = Parts(k) /\ Silent(k, f) /\ f.active = k.active
    BY DEF Good, Fields, Parts, Silent
  <2>2. SubmitBlock(f, <<FormatSpec(k.disk)>>).active = f.active
    BY <2>1 DEF SubmitBlock, Fields
  <2>. HIDE DEF f
  <2>3. Good(f) /\ Idle(f)
    BY <2>1, GoodByParts DEF Silent, Idle
  <2>4. IsBlock(<<FormatSpec(k.disk)>>)
    BY <1>0, BlocksOfCommands, CommandsKinds
  <2>. HIDE DEF x
  <2>. QED
    BY <1>2, <2>1, <2>2, <2>3, <2>4, SubmitBlockGood DEF Silent, x
<1>3. CASE x = SubmitBlock(r, <<YesSpec(k.disk)>>)
  <2>1. DOMAIN r = Fields /\ Parts(r) = Parts(k) /\ Silent(k, r) /\ r.active = k.active
    BY DEF Good, Fields, Parts, Silent
  <2>2. SubmitBlock(r, <<YesSpec(k.disk)>>).active = r.active
    BY <2>1 DEF SubmitBlock, Fields
  <2>. HIDE DEF r
  <2>3. Good(r) /\ Idle(r)
    BY <2>1, GoodByParts DEF Silent, Idle
  <2>4. IsBlock(<<YesSpec(k.disk)>>)
    BY <1>0, BlocksOfCommands, CommandsKinds
  <2>. HIDE DEF x
  <2>. QED
    BY <1>3, <2>1, <2>2, <2>3, <2>4, SubmitBlockGood DEF Silent, x
<1>4. \/ x \in {k, WorkError(k)}
      \/ x = SubmitBlock(f, <<FormatSpec(k.disk)>>)
      \/ x = SubmitBlock(r, <<YesSpec(k.disk)>>)
  BY DEF OnCommandExecuted, FormatSpec, YesSpec
<1>. HIDE DEF x
<1>. QED
  BY <1>1, <1>2, <1>3, <1>4 DEF x

LEMMA RestartBlockGood ==
    ASSUME NEW k, Good(k), Idle(k), NEW attempt, attempt.index \in Nat
    PROVE  Good(RestartBlock(k, attempt)) /\ Silent(k, RestartBlock(k, attempt))
<1>. DEFINE d == [k EXCEPT !.retried = @ \cup {attempt.index}, !.pending = k.cmds,
                           !.target = k.blockCtx, !.resetTried = FALSE]
<1>1. RestartBlock(k, attempt) \in {WorkError(k), d}
  BY DEF RestartBlock
<1>2. /\ DOMAIN d = Fields /\ Silent(k, d)
      /\ d.queue = k.queue /\ d.active = k.active /\ d.completed = k.completed
      /\ d.blocks = k.blocks /\ d.cmds = k.cmds /\ d.pending = k.cmds
      /\ d.cleanup = k.cleanup /\ d.retried = k.retried \cup {attempt.index}
      /\ d.disk = k.disk
      /\ d.inflight = k.inflight /\ d.inCleanup = k.inCleanup /\ d.inReset = k.inReset
  BY DEF Good, Fields, Silent
<1>. HIDE DEF d
<1>3. Typing(d)
  <2>1. k.inflight.cmd # Inspect
    BY InspectNoAttempt DEF Idle
  <2>2. Len(k.cmds) \in Nat
    BY LenProperties DEF Good, Typing, IsBlock
  <2>. QED
    BY <1>2, <2>1, <2>2 DEF Good, Typing, Idle
<1>4. Queueing(d) /\ Working(d)
  BY <1>2 DEF Good, Queueing, Working, Idle
<1>. QED
  BY <1>1, <1>2, <1>3, <1>4, WorkErrorGood DEF Good

LEMMA ContextLossGood ==
    ASSUME NEW k, Good(k), Idle(k), NEW attempt, attempt.index \in Nat
    PROVE  Good(ContextLoss(k, attempt)) /\ Silent(k, ContextLoss(k, attempt))
  BY RestartBlockGood, WorkErrorGood DEF ContextLoss

LEMMA CompleteStandardOutputGood ==
    ASSUME NEW k, Good(k), Idle(k), k.active # NoFeature, k.pending = <<>>,
           NEW attempt, NEW e
    PROVE  /\ Good(CompleteStandardOutput(k, attempt, e))
           /\ Silent(k, CompleteStandardOutput(k, attempt, e))
<1>. DEFINE s == [k EXCEPT !.std = "set-standard"]
            a == [k EXCEPT !.std = "active", !.restore = attempt.cmd # Inspect]
<1>1. CompleteStandardOutput(k, attempt, e) \in {SubmitBlock(s, SetStandard), SubmitNext(a)}
  BY DEF CompleteStandardOutput
<1>2. /\ DOMAIN s = Fields /\ Parts(s) = Parts(k) /\ Silent(k, s)
      /\ DOMAIN a = Fields /\ Parts(a) = Parts(k) /\ Silent(k, a)
      /\ a.active = k.active /\ a.pending = k.pending
  BY DEF Good, Fields, Parts, Silent
<1>. HIDE DEF s, a
<1>3. Good(s) /\ Idle(s) /\ Good(a) /\ Idle(a)
  BY <1>2, GoodByParts DEF Silent, Idle
<1>4. Good(SubmitBlock(s, SetStandard)) /\ Silent(s, SubmitBlock(s, SetStandard))
  BY <1>3, SubmitBlockGood, BlocksOfCommands
<1>5. Good(SubmitNext(a)) /\ Silent(a, SubmitNext(a))
  BY <1>2, <1>3, SubmitNextGood
<1>. QED
  BY <1>1, <1>2, <1>4, <1>5 DEF Silent

LEMMA OnSessionLossGood ==
    ASSUME NEW k, Good(k)
    PROVE  Good(OnSessionLoss(k)) /\ Silent(k, OnSessionLoss(k))
<1>. DEFINE d == [k EXCEPT !.left = @ - 1, !.disk = @ + 1, !.stage = "restart-list"]
<1>1. OnSessionLoss(k) \in {k, d}
  BY DEF OnSessionLoss
<1>2. Good(d) /\ Silent(k, d)
  BY NextDiskGood
<1>. HIDE DEF d
<1>. QED
  BY <1>1, <1>2 DEF Silent

(***************************************************************************)
(* The operators that type.                                                *)
(***************************************************************************)

LEMMA SilentIsAtMostOne ==
    ASSUME NEW k, k.out = <<>>, NEW d, Silent(k, d)
    PROVE  AtMostOne(k, d)
  BY DEF Silent, AtMostOne, Keeps

LEMMA DispatchGood ==
    ASSUME NEW k, DOMAIN k = Fields, k.out = <<>>, Typing(k), Queueing(k),
           NEW cmd1 \in Cmds, NEW index \in Nat, NEW again,
           k.inCleanup \/ k.inReset \/ k.active # NoFeature,
           cmd1 = Inspect => k.pending = <<>> /\ ~k.inCleanup
    PROVE  /\ Good(Dispatch(k, cmd1, index, again))
           /\ AtMostOne(k, Dispatch(k, cmd1, index, again))
<1>. DEFINE d == Dispatch(k, cmd1, index, again)
<1>1. /\ DOMAIN d = Fields /\ Keeps(k, d) /\ d.out = <<cmd1>>
      /\ d.queue = k.queue /\ d.active = k.active /\ d.completed = k.completed
      /\ d.blocks = k.blocks /\ d.cmds = k.cmds /\ d.pending = k.pending
      /\ d.cleanup = k.cleanup /\ d.retried = k.retried /\ d.disk = k.disk
      /\ d.inflight.cmd = cmd1 /\ d.inflight.index = index
      /\ d.inCleanup = k.inCleanup /\ d.inReset = k.inReset
  BY DEF Dispatch, Fields, Keeps
<1>. HIDE DEF d
<1>2. ~Idle(d)
  <2>1. NoAttempt.cmd = Return /\ cmd1 # Return
    BY CommandsKinds DEF NoAttempt
  <2>. QED
    BY <1>1, <2>1 DEF Idle
<1>3. Typing(d)
  BY <1>1 DEF Typing
<1>4. Queueing(d) /\ Working(d)
  BY <1>1 DEF Queueing, Working
<1>. QED
  BY <1>1, <1>2, <1>3, <1>4 DEF Good, AtMostOne, Keeps, d

LEMMA DispatchWorkGood ==
    ASSUME NEW k, Good(k), Idle(k), k.out = <<>>
    PROVE  Good(DispatchWork(k)) /\ AtMostOne(k, DispatchWork(k))
<1>. DEFINE a == IF k.cleanup = <<>> /\ k.active = NoFeature THEN ActivateNextFeature(k) ELSE k
            c == [a EXCEPT !.cleanup = Tail(@), !.inCleanup = TRUE]
            p == [a EXCEPT !.pending = Tail(@), !.inCleanup = FALSE]
<1>1. DispatchWork(k) =
        IF a.cleanup # <<>>
        THEN Dispatch(c, Head(a.cleanup).cmd, 0, Head(a.cleanup).again)
        ELSE IF a.active = NoFeature THEN a
        ELSE IF a.pending = <<>> THEN OnBlockComplete(a)
        ELSE Dispatch(p, Head(a.pending), Len(a.cmds) - Len(a.pending) + 1, FALSE)
  BY DEF DispatchWork
<1>2. Good(a) /\ Silent(k, a)
  BY ActivateNextFeatureGood DEF Silent
<1>. HIDE DEF a
<1>3. Idle(a) /\ a.out = <<>> /\ a.inflight.index = 0 /\ a.inflight.cmd # Inspect
  BY <1>2, InspectNoAttempt DEF Silent, Idle
<1>4. CASE a.cleanup # <<>>
  <2>1. Tail(a.cleanup) \in Seq(CleanupWork) /\ Head(a.cleanup) \in CleanupWork
    BY <1>2, <1>4, HeadTailProperties DEF Good, Typing
  <2>2. Head(a.cleanup).cmd \in Cmds \ {Inspect}
    BY <2>1 DEF CleanupWork
  <2>3. /\ DOMAIN c = Fields /\ Silent(a, c)
        /\ c.queue = a.queue /\ c.active = a.active /\ c.completed = a.completed
        /\ c.blocks = a.blocks /\ c.cmds = a.cmds /\ c.pending = a.pending
        /\ c.cleanup = Tail(a.cleanup) /\ c.retried = a.retried /\ c.disk = a.disk
        /\ c.inCleanup = TRUE
    BY <1>2 DEF Good, Fields, Silent
  <2>. HIDE DEF c
  <2>4. Typing(c)
    BY <1>2, <1>3, <2>1, <2>3 DEF Good, Typing, Idle, Silent
  <2>5. Queueing(c)
    BY <1>2, <2>3 DEF Good, Queueing
  <2>. DEFINE h == Head(a.cleanup)
              d == Dispatch(c, h.cmd, 0, h.again)
  <2>6. DispatchWork(k) = d /\ h.cmd \in Cmds /\ h.cmd # Inspect
    BY <1>1, <1>4, <2>2
  <2>7. c.out = <<>>
    BY <1>3, <2>3 DEF Silent
  <2>. HIDE DEF h
  <2>8. Good(d) /\ AtMostOne(c, d)
    BY <2>3, <2>4, <2>5, <2>6, <2>7, DispatchGood
  <2>. HIDE DEF d
  <2>. QED
    BY <1>2, <2>3, <2>6, <2>8 DEF Silent, AtMostOne, Keeps
<1>5. CASE a.cleanup = <<>> /\ a.active = NoFeature
  BY <1>1, <1>2, <1>5, SilentIsAtMostOne
<1>6. CASE a.cleanup = <<>> /\ a.active # NoFeature /\ a.pending = <<>>
  <2>1. Good(OnBlockComplete(a)) /\ Silent(a, OnBlockComplete(a))
    BY <1>2, <1>3, <1>6, OnBlockCompleteGood
  <2>2. Silent(k, OnBlockComplete(a))
    BY <1>2, <2>1 DEF Silent
  <2>. QED
    BY <1>1, <1>6, <2>1, <2>2, SilentIsAtMostOne
<1>7. CASE a.cleanup = <<>> /\ a.active # NoFeature /\ a.pending # <<>>
  <2>1. /\ IsBlock(Tail(a.pending)) /\ Head(a.pending) \in Cmds
        /\ Len(a.pending) \in Nat /\ Len(Tail(a.pending)) = Len(a.pending) - 1
        /\ Head(a.pending) = Inspect => Tail(a.pending) = <<>>
    BY <1>2, <1>7, TailOfBlock DEF Good, Typing
  <2>2. Len(a.cmds) \in Nat /\ Len(a.pending) <= Len(a.cmds)
    BY <1>2, LenProperties DEF Good, Typing, IsBlock
  <2>3. /\ DOMAIN p = Fields /\ Silent(a, p)
        /\ p.queue = a.queue /\ p.active = a.active /\ p.completed = a.completed
        /\ p.blocks = a.blocks /\ p.cmds = a.cmds /\ p.pending = Tail(a.pending)
        /\ p.cleanup = a.cleanup /\ p.retried = a.retried /\ p.disk = a.disk
        /\ p.inCleanup = FALSE
    BY <1>2 DEF Good, Fields, Silent
  <2>. HIDE DEF p
  <2>4. Len(Tail(a.pending)) <= Len(a.cmds) /\ Len(a.cmds) - Len(a.pending) + 1 \in Nat
    BY <2>1, <2>2
  <2>5. Typing(p)
    BY <1>2, <1>3, <2>1, <2>3, <2>4 DEF Good, Typing, Idle, Silent
  <2>6. Queueing(p)
    BY <1>2, <2>3 DEF Good, Queueing
  <2>. DEFINE n == Len(a.cmds) - Len(a.pending) + 1
              d == Dispatch(p, Head(a.pending), n, FALSE)
  <2>7. DispatchWork(k) = d
    BY <1>1, <1>7
  <2>8. n \in Nat
    BY <2>4
  <2>9. p.out = <<>> /\ p.pending = Tail(a.pending) /\ p.active # NoFeature
    BY <1>3, <1>7, <2>3 DEF Silent
  <2>. HIDE DEF n
  <2>10. Good(d) /\ AtMostOne(p, d)
    BY <2>1, <2>3, <2>5, <2>6, <2>8, <2>9, DispatchGood
  <2>. HIDE DEF d
  <2>. QED
    BY <1>2, <2>3, <2>7, <2>10 DEF Silent, AtMostOne, Keeps
<1>. QED
  BY <1>4, <1>5, <1>6, <1>7

LEMMA RecoverGood ==
    ASSUME NEW k, Good(k), k.out = <<>>, NEW b
    PROVE  /\ Good(Recover(k, b)) /\ AtMostOne(k, Recover(k, b))
           /\ Recover(k, b) = k \/ Recover(k, b).errors # {}
<1>. DEFINE d == [k EXCEPT !.inflight = NoAttempt, !.inCleanup = FALSE, !.target = NoContext,
                           !.inReset = FALSE, !.error = FALSE,
                           !.errors = @ \cup {IF k.active = NoFeature THEN "cleanup"
                                              ELSE k.active}]
            s == FinishStandardOutput(d)
            f == [s EXCEPT !.pending = <<>>, !.cmds = <<>>, !.active = NoFeature]
<1>1. Recover(k, b) \in {k, DispatchWork(d), DispatchWork(f)}
  BY DEF Recover
<1>2. /\ DOMAIN d = Fields /\ Keeps(k, d) /\ d.out = k.out
      /\ d.queue = k.queue /\ d.active = k.active /\ d.completed = k.completed
      /\ d.blocks = k.blocks /\ d.cmds = k.cmds /\ d.pending = k.pending
      /\ d.cleanup = k.cleanup /\ d.retried = k.retried /\ d.disk = k.disk
      /\ d.inflight = NoAttempt /\ d.inCleanup = FALSE /\ d.inReset = FALSE
      /\ d.errors # {}
  BY DEF Good, Fields, Keeps
<1>. HIDE DEF d
<1>3. Good(d) /\ Idle(d)
  <2>1. Typing(d)
    BY <1>2, InspectNoAttempt DEF Good, Typing, Idle
  <2>2. Queueing(d) /\ Working(d)
    BY <1>2 DEF Good, Queueing, Working, Idle
  <2>. QED
    BY <1>2, <2>1, <2>2 DEF Good, Idle
<1>4. Good(s) /\ Silent(d, s)
  BY <1>3, FinishStandardOutputGood
<1>. HIDE DEF s
<1>5. /\ DOMAIN f = Fields /\ Silent(s, f)
      /\ f.queue = s.queue /\ f.active = NoFeature /\ f.completed = s.completed
      /\ f.blocks = s.blocks /\ f.cmds = <<>> /\ f.pending = <<>>
      /\ f.cleanup = s.cleanup /\ f.retried = s.retried /\ f.disk = s.disk
      /\ f.inCleanup = s.inCleanup /\ f.inReset = s.inReset
  BY <1>4 DEF Good, Fields, Silent
<1>. HIDE DEF f
<1>6. Good(f) /\ Idle(f)
  <2>1. IsBlock(<<>>) /\ Len(<<>>) = 0
    BY BlocksOfCommands
  <2>2. Idle(f) /\ f.inflight.cmd # Inspect /\ f.inflight.index = 0
    BY <1>3, <1>4, <1>5, InspectNoAttempt DEF Idle, Silent
  <2>3. Typing(f)
    BY <1>4, <1>5, <2>1, <2>2 DEF Good, Typing
  <2>4. \A i \in 1..Len(s.queue) : s.queue[i] \in ToSet(Queue)
    BY <1>4, ElementOfSeq DEF Good, Queueing
  <2>5. Queueing(f)
    BY <1>4, <1>5, <2>4, FosAssumption DEF Good, Queueing
  <2>. QED
    BY <1>5, <2>2, <2>3, <2>5 DEF Good, Working
<1>7. Good(DispatchWork(d)) /\ AtMostOne(d, DispatchWork(d))
  BY <1>2, <1>3, DispatchWorkGood
<1>8. Good(DispatchWork(f)) /\ AtMostOne(f, DispatchWork(f))
  BY <1>2, <1>4, <1>5, <1>6, DispatchWorkGood DEF Silent
<1>. QED
  BY <1>1, <1>2, <1>4, <1>5, <1>7, <1>8 DEF AtMostOne, Silent, Keeps

LEMMA DispatchNextGood ==
    ASSUME NEW k, Good(k), k.out = <<>>
    PROVE  Good(DispatchNext(k)) /\ AtMostOne(k, DispatchNext(k))
<1>. DEFINE w == [k EXCEPT !.target = NoContext]
            r == [k EXCEPT !.resetTried = TRUE, !.inReset = TRUE]
<1>1. \/ DispatchNext(k) = k
      \/ Idle(k) /\ DispatchNext(k) \in {DispatchWork(w), Recover(WorkError(k), FALSE),
                                          Dispatch(r, Cmd("abort", ""), 0, FALSE)}
  BY DEF DispatchNext
<1>2. CASE DispatchNext(k) = k
  BY <1>2 DEF AtMostOne, Keeps
<1>3. CASE Idle(k) /\ DispatchNext(k) = DispatchWork(w)
  <2>1. DOMAIN w = Fields /\ Parts(w) = Parts(k) /\ Silent(k, w)
    BY DEF Good, Fields, Parts, Silent
  <2>. HIDE DEF w
  <2>2. Good(w) /\ Idle(w) /\ w.out = <<>>
    BY <1>3, <2>1, GoodByParts DEF Silent, Idle
  <2>. QED
    BY <1>3, <2>1, <2>2, DispatchWorkGood DEF Silent, AtMostOne, Keeps
<1>4. CASE DispatchNext(k) = Recover(WorkError(k), FALSE)
  <2>. DEFINE m == WorkError(k)
  <2>1. Good(m) /\ Silent(k, m)
    BY WorkErrorGood
  <2>. HIDE DEF m
  <2>2. Good(Recover(m, FALSE)) /\ AtMostOne(m, Recover(m, FALSE))
    BY <2>1, RecoverGood DEF Silent
  <2>. QED
    BY <1>4, <2>1, <2>2 DEF Silent, AtMostOne, Keeps, m
<1>5. CASE Idle(k) /\ DispatchNext(k) = Dispatch(r, Cmd("abort", ""), 0, FALSE)
  <2>1. /\ DOMAIN r = Fields /\ Silent(k, r)
        /\ r.queue = k.queue /\ r.active = k.active /\ r.completed = k.completed
        /\ r.blocks = k.blocks /\ r.cmds = k.cmds /\ r.pending = k.pending
        /\ r.cleanup = k.cleanup /\ r.retried = k.retried /\ r.disk = k.disk
        /\ r.inCleanup = k.inCleanup /\ r.inReset = TRUE
    BY DEF Good, Fields, Silent
  <2>. HIDE DEF r
  <2>2. Typing(r) /\ Queueing(r)
    BY <2>1 DEF Good, Typing, Queueing, Silent, Idle
  <2>3. Cmd("abort", "") \in Cmds /\ Cmd("abort", "") # Inspect
    BY CommandsKinds DEF Cmd, Inspect
  <2>. DEFINE d == Dispatch(r, Cmd("abort", ""), 0, FALSE)
  <2>4. Good(d) /\ AtMostOne(r, d)
    BY <2>1, <2>2, <2>3, DispatchGood DEF Silent
  <2>. HIDE DEF d
  <2>5. DispatchNext(k) = d
    BY <1>5 DEF d
  <2>. QED
    BY <2>1, <2>4, <2>5 DEF Silent, AtMostOne, Keeps
<1>. QED
  BY <1>1, <1>2, <1>3, <1>4, <1>5

\* The command in flight is over: the commander is idle and sound.
LEMMA EndOfCommand ==
    ASSUME NEW k, Good(k), NEW d, DOMAIN d = Fields, d.inflight = NoAttempt,
           /\ d.queue = k.queue /\ d.active = k.active /\ d.completed = k.completed
           /\ d.blocks = k.blocks /\ d.cmds = k.cmds /\ d.pending = k.pending
           /\ d.cleanup = k.cleanup /\ d.retried = k.retried /\ d.disk = k.disk
    PROVE  Good(d) /\ Idle(d)
<1>1. Typing(d)
  BY InspectNoAttempt DEF Good, Typing, Idle
<1>2. Queueing(d)
  BY DEF Good, Queueing
<1>. QED
  BY <1>1, <1>2 DEF Good, Working, Idle

LEMMA CompleteInflightGood ==
    ASSUME NEW k, Good(k), ~Idle(k), k.out = <<>>, NEW e
    PROVE  Good(CompleteInflight(k, e)) /\ AtMostOne(k, CompleteInflight(k, e))
<1>. DEFINE attempt == k.inflight
            d == [k EXCEPT !.inflight = NoAttempt]
            r == [d EXCEPT !.inReset = FALSE]
            c == [d EXCEPT !.inCleanup = FALSE]
            l == ContextLoss(d, attempt)
            s == CompleteStandardOutput(d, attempt, e)
            x == OnCommandExecuted(d, e)
            y == IF x.error \/ x.raised \/ Busy(x) THEN x ELSE OnBlockComplete(x)
            z == CompleteInflight(k, e)
<1>1. \/ z = DispatchNext(r)
      \/ z \in {Recover(l, FALSE), DispatchNext(l)}
      \/ z = Recover(WorkError(d), FALSE)
      \/ z = DispatchNext(c)
      \/ ~k.inReset /\ ~k.inCleanup /\ IsStandardOutputCommand(d, attempt)
         /\ z = DispatchNext(s)
      \/ ~k.inReset /\ ~k.inCleanup /\ z \in {DispatchNext(y), y}
  BY DEF CompleteInflight
<1>2. /\ DOMAIN d = Fields /\ d.inflight = NoAttempt /\ d.out = <<>>
      /\ Keeps(k, d)
      /\ d.queue = k.queue /\ d.active = k.active /\ d.completed = k.completed
      /\ d.blocks = k.blocks /\ d.cmds = k.cmds /\ d.pending = k.pending
      /\ d.cleanup = k.cleanup /\ d.retried = k.retried /\ d.disk = k.disk
  BY DEF Good, Fields, Keeps
<1>. HIDE DEF d
<1>3. Good(d) /\ Idle(d)
  BY <1>2, EndOfCommand
<1>4. attempt.index \in Nat /\ (attempt.cmd = Inspect => d.pending = <<>>)
  BY <1>2 DEF Good, Typing
<1>. HIDE DEF attempt
<1>5. ASSUME NEW m, Good(m), m.out = <<>>, Keeps(k, m)
      PROVE  /\ Good(DispatchNext(m)) /\ AtMostOne(k, DispatchNext(m))
             /\ Good(Recover(m, FALSE)) /\ AtMostOne(k, Recover(m, FALSE))
  <2>1. /\ Good(DispatchNext(m)) /\ AtMostOne(m, DispatchNext(m))
        /\ Good(Recover(m, FALSE)) /\ AtMostOne(m, Recover(m, FALSE))
    BY <1>5, DispatchNextGood, RecoverGood
  <2>. QED
    BY <1>5, <2>1 DEF AtMostOne, Keeps
<1>6. CASE z = DispatchNext(r) \/ z = DispatchNext(c)
  <2>1. /\ DOMAIN r = Fields /\ r.inflight = NoAttempt /\ r.out = <<>>
        /\ Keeps(k, r)
        /\ r.queue = d.queue /\ r.active = d.active /\ r.completed = d.completed
        /\ r.blocks = d.blocks /\ r.cmds = d.cmds /\ r.pending = d.pending
        /\ r.cleanup = d.cleanup /\ r.retried = d.retried /\ r.disk = d.disk
    BY <1>2 DEF Fields, Keeps
  <2>2. /\ DOMAIN c = Fields /\ c.inflight = NoAttempt /\ c.out = <<>>
        /\ Keeps(k, c)
        /\ c.queue = d.queue /\ c.active = d.active /\ c.completed = d.completed
        /\ c.blocks = d.blocks /\ c.cmds = d.cmds /\ c.pending = d.pending
        /\ c.cleanup = d.cleanup /\ c.retried = d.retried /\ c.disk = d.disk
    BY <1>2 DEF Fields, Keeps
  <2>. HIDE DEF r, c, z
  <2>3. Good(r) /\ Good(c)
    BY <1>3, <2>1, <2>2, EndOfCommand
  <2>. QED
    BY <1>5, <1>6, <2>1, <2>2, <2>3 DEF z
<1>7. CASE z \in {Recover(l, FALSE), DispatchNext(l)}
  <2>1. Good(l) /\ l.out = <<>> /\ Keeps(k, l)
    BY <1>2, <1>3, <1>4, ContextLossGood DEF Silent, Keeps
  <2>. HIDE DEF l, z
  <2>. QED
    BY <1>5, <1>7, <2>1 DEF z
<1>8. CASE z = Recover(WorkError(d), FALSE)
  <2>1. /\ Good(WorkError(d)) /\ WorkError(d).out = <<>>
        /\ Keeps(k, WorkError(d))
    BY <1>2, <1>3, WorkErrorGood DEF Silent, Keeps
  <2>. HIDE DEF z
  <2>. QED
    BY <1>5, <1>8, <2>1 DEF z
<1>9. CASE ~k.inReset /\ ~k.inCleanup /\ IsStandardOutputCommand(d, attempt)
           /\ z = DispatchNext(s)
  <2>1. d.active # NoFeature
    BY <1>2, <1>9 DEF Good, Working
  <2>2. d.pending = <<>>
    BY <1>4, <1>9 DEF IsStandardOutputCommand
  <2>3. Good(s) /\ s.out = <<>> /\ Keeps(k, s)
    BY <1>2, <1>3, <2>1, <2>2, CompleteStandardOutputGood DEF Silent, Keeps
  <2>. HIDE DEF s, z
  <2>. QED
    BY <1>5, <1>9, <2>3 DEF z
<1>10. CASE ~k.inReset /\ ~k.inCleanup /\ z \in {DispatchNext(y), y}
  <2>1. d.active # NoFeature
    BY <1>2, <1>10 DEF Good, Working
  <2>2. /\ Good(x) /\ Idle(x) /\ x.out = <<>>
        /\ Keeps(k, x) /\ x.active # NoFeature
    BY <1>2, <1>3, <2>1, OnCommandExecutedGood DEF Silent, Keeps, Idle
  <2>. HIDE DEF x
  <2>3. ~Busy(x) => x.pending = <<>>
    BY DEF Busy
  <2>4. ~Busy(x) => /\ Good(OnBlockComplete(x)) /\ OnBlockComplete(x).out = <<>>
                    /\ Keeps(k, OnBlockComplete(x))
    BY <2>2, <2>3, OnBlockCompleteGood DEF Silent, Keeps
  <2>5. Good(y) /\ y.out = <<>> /\ Keeps(k, y)
    BY <2>2, <2>4
  <2>. HIDE DEF y, z
  <2>. QED
    BY <1>5, <1>10, <2>5 DEF AtMostOne, Keeps, z
<1>. QED
  BY <1>1, <1>6, <1>7, <1>8, <1>9, <1>10

LEMMA SessionLossGood ==
    ASSUME NEW k, Good(k), k.out = <<>>
    PROVE  LET d == SessionLoss(k)
           IN  Good(d) /\ d.out = <<>> /\ Keeps(k, d)
<1>. DEFINE attempt == k.inflight
            d == [k EXCEPT !.recovering = TRUE, !.inflight = NoAttempt]
            r == [d EXCEPT !.inReset = FALSE]
            w == <<[cmd |-> attempt.cmd, again |-> TRUE]>>
            c == [d EXCEPT !.cleanup = w \o @, !.inCleanup = FALSE]
            l == OnSessionLoss(d)
            p == [l EXCEPT !.pending = <<>>]
            z == SessionLoss(k)
<1>1. \/ z \in {d, r, WorkError(d), RestartBlock(l, attempt), p}
      \/ ~Idle(k) /\ k.inCleanup /\ z = c
  BY DEF SessionLoss
<1>2. /\ DOMAIN d = Fields /\ d.inflight = NoAttempt /\ d.out = <<>>
      /\ Keeps(k, d)
      /\ d.queue = k.queue /\ d.active = k.active /\ d.completed = k.completed
      /\ d.blocks = k.blocks /\ d.cmds = k.cmds /\ d.pending = k.pending
      /\ d.cleanup = k.cleanup /\ d.retried = k.retried /\ d.disk = k.disk
  BY DEF Good, Fields, Keeps
<1>. HIDE DEF d
<1>3. Good(d) /\ Idle(d)
  BY <1>2, EndOfCommand
<1>4. attempt.index \in Nat /\ (~Idle(k) => attempt.cmd \in Cmds)
      /\ (attempt.cmd = Inspect => ~k.inCleanup)
  BY DEF Good, Typing
<1>5. CASE z \in {d, WorkError(d)}
  <2>. HIDE DEF z
  <2>. QED
    BY <1>2, <1>3, <1>5, WorkErrorGood DEF Silent, Keeps, z
<1>6. CASE z = r
  <2>1. /\ DOMAIN r = Fields /\ r.inflight = NoAttempt /\ r.out = <<>>
        /\ Keeps(k, r)
        /\ r.queue = d.queue /\ r.active = d.active /\ r.completed = d.completed
        /\ r.blocks = d.blocks /\ r.cmds = d.cmds /\ r.pending = d.pending
        /\ r.cleanup = d.cleanup /\ r.retried = d.retried /\ r.disk = d.disk
    BY <1>2 DEF Fields, Keeps
  <2>. HIDE DEF r, z
  <2>. QED
    BY <1>3, <1>6, <2>1, EndOfCommand DEF z
<1>7. CASE ~Idle(k) /\ k.inCleanup /\ z = c
  <2>. HIDE DEF attempt
  <2>1. w \in Seq(CleanupWork)
    BY <1>4, <1>7 DEF CleanupWork
  <2>2. d.cleanup \in Seq(CleanupWork)
    BY <1>3 DEF Good, Typing
  <2>. HIDE DEF w
  <2>3. w \o d.cleanup \in Seq(CleanupWork)
    BY <2>1, <2>2, ConcatProperties
  <2>4. /\ DOMAIN c = Fields /\ c.inflight = NoAttempt /\ c.out = <<>>
        /\ Keeps(k, c)
        /\ c.queue = d.queue /\ c.active = d.active /\ c.completed = d.completed
        /\ c.blocks = d.blocks /\ c.cmds = d.cmds /\ c.pending = d.pending
        /\ c.cleanup = w \o d.cleanup /\ c.retried = d.retried /\ c.disk = d.disk
    BY <1>2 DEF Fields, Keeps
  <2>. HIDE DEF c, z
  <2>5. Typing(c)
    BY <1>3, <2>3, <2>4, InspectNoAttempt DEF Good, Typing, Idle
  <2>6. Queueing(c) /\ Working(c)
    BY <1>3, <2>4 DEF Good, Queueing, Working, Idle
  <2>. QED
    BY <1>7, <2>4, <2>5, <2>6 DEF Good, z
<1>8. CASE z \in {RestartBlock(l, attempt), p}
  <2>1. Good(l) /\ Idle(l) /\ l.out = <<>> /\ Keeps(k, l)
    BY <1>2, <1>3, OnSessionLossGood DEF Silent, Keeps, Idle
  <2>. HIDE DEF l
  <2>2. /\ DOMAIN p = Fields /\ Silent(l, p)
        /\ p.queue = l.queue /\ p.active = l.active /\ p.completed = l.completed
        /\ p.blocks = l.blocks /\ p.cmds = l.cmds /\ p.pending = <<>>
        /\ p.cleanup = l.cleanup /\ p.retried = l.retried /\ p.disk = l.disk
    BY <2>1 DEF Good, Fields, Silent
  <2>. HIDE DEF p, attempt, z
  <2>3. Good(p)
    <3>1. IsBlock(<<>>) /\ Len(<<>>) = 0 /\ Len(l.cmds) \in Nat
      BY <2>1, BlocksOfCommands, LenProperties DEF Good, Typing, IsBlock
    <3>2. Typing(p)
      BY <2>1, <2>2, <3>1, InspectNoAttempt DEF Good, Typing, Idle, Silent
    <3>3. Queueing(p) /\ Working(p)
      BY <2>1, <2>2 DEF Good, Queueing, Working, Idle, Silent
    <3>. QED
      BY <2>2, <3>2, <3>3 DEF Good
  <2>4. Good(RestartBlock(l, attempt)) /\ Silent(l, RestartBlock(l, attempt))
    BY <1>4, <2>1, RestartBlockGood
  <2>. QED
    BY <1>8, <2>1, <2>2, <2>3, <2>4 DEF Silent, Keeps, z
<1>. QED
  BY <1>1, <1>5, <1>6, <1>7, <1>8

\* A state that is no answer of the guest is answered by nothing.
LEMMA OnStateGood ==
    ASSUME NEW k0, Good(k0), k0.out = <<>>, NEW e
    PROVE  LET d == OnState(k0, e)
           IN  /\ Good(d) /\ d.known = e.st /\ d.state = e.st
               /\ k0.errors \subseteq d.errors
               /\ d.ctx = IF e.st = "prompt" THEN e.ctx ELSE k0.ctx
               /\ \/ d.out = <<>>
                  \/ e.st \in Prompts /\ ~Idle(d) /\ d.inflight.cmd \in Cmds
                     /\ d.out = <<d.inflight.cmd>>
<1>. DEFINE k == [k0 EXCEPT
                !.state = e.st,
                !.known = e.st,
                !.ctx = IF e.st = "prompt" THEN e.ctx ELSE @,
                !.authenticated = @ \/ e.st \in {"prompt", "accepted"},
                !.recovering = CASE e.st \in {"prompt", "accepted"} -> FALSE
                                 [] e.st = "lost" /\ k0.error -> TRUE
                                 [] OTHER -> @]
            d == OnState(k0, e)
<1>1. /\ DOMAIN k = Fields /\ Parts(k) = Parts(k0) /\ k.out = <<>> /\ k.state = e.st
      /\ k.known = e.st /\ k.errors = k0.errors
      /\ k.ctx = IF e.st = "prompt" THEN e.ctx ELSE k0.ctx
  BY DEF Good, Fields, Parts
<1>2. d = CASE k.error -> Recover(k, FALSE)
            [] ~k.error /\ (e.st = "lost" \/ (e.st = "username" /\ k.authenticated)) ->
                 SessionLoss(k)
            [] ~k.error /\ ~Idle(k) /\ e.st \in k.inflight.cmd.at -> CompleteInflight(k, e)
            [] ~k.error /\ Idle(k) /\ e.st = "prompt" -> DispatchNext(k)
            [] OTHER -> k
  BY DEF OnState
<1>. HIDE DEF k
<1>3. Good(k)
  BY <1>1, GoodByParts
<1>4. \/ d = k
      \/ d = Recover(k, FALSE)
      \/ d = SessionLoss(k)
      \/ ~Idle(k) /\ e.st \in k.inflight.cmd.at /\ d = CompleteInflight(k, e)
      \/ e.st = "prompt" /\ d = DispatchNext(k)
  <2>. DEFINE lost == e.st = "lost" \/ (e.st = "username" /\ k.authenticated)
              done == ~Idle(k) /\ e.st \in k.inflight.cmd.at
              prompt == Idle(k) /\ e.st = "prompt"
  <2>1. k.error => d = Recover(k, FALSE)
    BY <1>2
  <2>2. ~k.error /\ lost /\ ~done => d = SessionLoss(k)
    BY <1>2
  <2>3. ~k.error /\ ~lost /\ done => d = CompleteInflight(k, e)
    BY <1>2
  <2>4. ~k.error /\ ~lost /\ ~done /\ prompt => d = DispatchNext(k)
    BY <1>2
  <2>5. ~k.error /\ ~lost /\ ~done /\ ~prompt => d = k
    BY <1>2
  <2>6. ~(lost /\ done)
    <3>1. ~Idle(k) => k.inflight.cmd.at \subseteq {"prompt", "confirm", "rebooting"}
      BY <1>3, CommandsKinds DEF Good, Typing
    <3>. QED
      BY <3>1
  <2>. QED
    BY <2>6, <2>1, <2>2, <2>3, <2>4, <2>5
<1>5. CASE d = k
  BY <1>1, <1>3, <1>5
<1>6. CASE d = Recover(k, FALSE)
  <2>1. Good(Recover(k, FALSE)) /\ AtMostOne(k, Recover(k, FALSE))
    BY <1>1, <1>3, RecoverGood
  <2>2. e.st = "prompt" \/ Recover(k, FALSE) = k
    BY <1>1 DEF Recover
  <2>. HIDE DEF d
  <2>. QED
    BY <1>1, <1>6, <2>1, <2>2 DEF AtMostOne, Keeps, Prompts, d
<1>7. CASE d = SessionLoss(k)
  <2>1. /\ Good(SessionLoss(k)) /\ SessionLoss(k).out = <<>>
        /\ Keeps(k, SessionLoss(k))
    BY <1>1, <1>3, SessionLossGood DEF Keeps
  <2>. HIDE DEF d
  <2>. QED
    BY <1>1, <1>7, <2>1 DEF Keeps, d
<1>8. CASE ~Idle(k) /\ e.st \in k.inflight.cmd.at /\ d = CompleteInflight(k, e)
  <2>1. k.inflight.cmd \in Cmds
    BY <1>3, <1>8 DEF Good, Typing
  <2>2. e.st \in Prompts
    BY <1>8, <2>1, CommandsKinds DEF Prompts
  <2>3. Good(CompleteInflight(k, e)) /\ AtMostOne(k, CompleteInflight(k, e))
    BY <1>1, <1>3, <1>8, CompleteInflightGood
  <2>. HIDE DEF d
  <2>. QED
    BY <1>1, <1>8, <2>2, <2>3 DEF AtMostOne, Keeps, d
<1>9. CASE e.st = "prompt" /\ d = DispatchNext(k)
  <2>1. Good(DispatchNext(k)) /\ AtMostOne(k, DispatchNext(k))
    BY <1>1, <1>3, DispatchNextGood
  <2>. HIDE DEF d
  <2>. QED
    BY <1>1, <1>9, <2>1 DEF AtMostOne, Keeps, Prompts, d
<1>. QED
  BY <1>4, <1>5, <1>6, <1>7, <1>8, <1>9

\* A timeout starts something only at a known prompt, with nothing in flight.
LEMMA OnIdleGood ==
    ASSUME NEW k, Good(k), k.out = <<>>
    PROVE  /\ Good(OnIdle(k)) /\ AtMostOne(k, OnIdle(k))
           /\ k.known # "prompt" \/ ~Idle(k) => OnIdle(k) = k
<1>1. OnIdle(k) \in {k, Recover(k, TRUE), DispatchNext(k)}
  BY DEF OnIdle
<1>3. k.known # "prompt" \/ ~Idle(k) => OnIdle(k) = k
  BY DEF OnIdle
<1>2. AtMostOne(k, k)
  BY DEF AtMostOne, Keeps
<1>. QED
  BY <1>1, <1>3, <1>2, RecoverGood, DispatchNextGood

(***************************************************************************)
(* The line: lines typed, and what the driver has not read.                *)
(***************************************************************************)

\* The names of blocks and entries.
Args == {c.arg : c \in {d \in Cmds : d.op \in {"config", "edit"}}}
Modes == {"more", "standard"}
Events == [st : States, ctx : Seq(Args), failed : BOOLEAN, mode : Modes]

Quiet(r) == \A i \in 1..Len(r) : r[i].st \notin Prompts

OneAnswer(r) ==
    \A i, j \in 1..Len(r) : r[i].st \in Prompts /\ r[j].st \in Prompts => i = j

\* A line is on its way to the guest, or its answer to the driver.
OneLine(t, r) ==
    \/ t = <<>> /\ OneAnswer(r)
    \/ Len(t) = 1 /\ Quiet(r)

LEMMA TailOfLine ==
    ASSUME NEW r \in Seq(Events), r # <<>>, NEW t, OneLine(t, r)
    PROVE  /\ Tail(r) \in Seq(Events) /\ Head(r) \in Events /\ OneLine(t, Tail(r))
           /\ Head(r).st \in Prompts => t = <<>> /\ Quiet(Tail(r))
<1>1. Tail(r) \in Seq(Events) /\ Head(r) \in Events
  BY HeadTailProperties
<1>. DEFINE n == Len(r)
            u == Tail(r)
<1>2. /\ n \in Nat \ {0} /\ Len(u) = n - 1 /\ Head(r) = r[1]
      /\ \A i \in 1..(n - 1) : u[i] = r[i + 1]
  BY HeadTailProperties, EmptySeq
<1>3. /\ OneAnswer(r) <=>
           \A i, j \in 1..n : r[i].st \in Prompts /\ r[j].st \in Prompts => i = j
      /\ Quiet(r) <=> \A i \in 1..n : r[i].st \notin Prompts
      /\ OneAnswer(u) <=>
           \A i, j \in 1..(n - 1) : u[i].st \in Prompts /\ u[j].st \in Prompts => i = j
      /\ Quiet(u) <=> \A i \in 1..(n - 1) : u[i].st \notin Prompts
  BY <1>2 DEF OneAnswer, Quiet
<1>. HIDE DEF n, u
<1>4. OneLine(t, u)
  <2>1. Quiet(r) => Quiet(u)
    BY <1>2, <1>3
  <2>2. ASSUME OneAnswer(r), NEW i \in 1..(n - 1), NEW j \in 1..(n - 1),
               u[i].st \in Prompts, u[j].st \in Prompts
        PROVE  i = j
    <3>1. /\ i + 1 \in 1..n /\ r[i + 1].st \in Prompts
          /\ j + 1 \in 1..n /\ r[j + 1].st \in Prompts
      BY <1>2, <2>2
    <3>2. i + 1 = j + 1
      BY <1>3, <2>2, <3>1
    <3>. QED
      BY <3>2
  <2>. QED
    BY <1>3, <2>1, <2>2 DEF OneLine
<1>5. ASSUME r[1].st \in Prompts PROVE t = <<>> /\ Quiet(u)
  <2>1. 1 \in 1..n
    BY <1>2
  <2>2. t = <<>> /\ OneAnswer(r)
    BY <1>3, <1>5, <2>1 DEF OneLine
  <2>3. ASSUME NEW i \in 1..(n - 1), u[i].st \in Prompts PROVE FALSE
    <3>1. i + 1 \in 1..n /\ r[i + 1].st \in Prompts /\ i + 1 # 1
      BY <1>2, <2>3
    <3>. QED
      BY <1>3, <1>5, <2>1, <2>2, <3>1
  <2>. QED
    BY <1>3, <2>2, <2>3
<1>. QED
  BY <1>1, <1>2, <1>4, <1>5 DEF u

LEMMA LongerLine ==
    ASSUME NEW r \in Seq(Events), NEW s \in Seq(Events)
    PROVE  /\ r \o s \in Seq(Events)
           /\ Quiet(r) /\ Quiet(s) => Quiet(r \o s)
           /\ Quiet(r) /\ OneAnswer(s) => OneAnswer(r \o s)
           /\ OneAnswer(r) /\ Quiet(s) => OneAnswer(r \o s)
<1>. DEFINE n == Len(r)
            m == Len(s)
            c == r \o s
<1>1. /\ n \in Nat /\ m \in Nat /\ c \in Seq(Events) /\ Len(c) = n + m
      /\ \A i \in 1..(n + m) : c[i] = IF i <= n THEN r[i] ELSE s[i - n]
  BY ConcatProperties, LenProperties
<1>2. /\ Quiet(r) <=> \A i \in 1..n : r[i].st \notin Prompts
      /\ Quiet(s) <=> \A i \in 1..m : s[i].st \notin Prompts
      /\ OneAnswer(r) <=>
           \A i, j \in 1..n : r[i].st \in Prompts /\ r[j].st \in Prompts => i = j
      /\ OneAnswer(s) <=>
           \A i, j \in 1..m : s[i].st \in Prompts /\ s[j].st \in Prompts => i = j
  BY DEF Quiet, OneAnswer
<1>. HIDE DEF n, m, c
<1>3. \A i \in 1..(n + m) : \/ i \in 1..n /\ c[i] = r[i]
                            \/ i - n \in 1..m /\ c[i] = s[i - n]
  BY <1>1
<1>4. Quiet(r) /\ Quiet(s) => \A i \in 1..(n + m) : c[i].st \notin Prompts
  BY <1>2, <1>3
<1>5. ASSUME Quiet(r), OneAnswer(s), NEW i \in 1..(n + m), NEW j \in 1..(n + m),
             c[i].st \in Prompts, c[j].st \in Prompts
      PROVE  i = j
  <2>1. i - n \in 1..m /\ c[i] = s[i - n] /\ j - n \in 1..m /\ c[j] = s[j - n]
    BY <1>2, <1>3, <1>5
  <2>2. i - n = j - n
    BY <1>2, <1>5, <2>1
  <2>. QED
    BY <1>1, <2>2
<1>6. ASSUME OneAnswer(r), Quiet(s), NEW i \in 1..(n + m), NEW j \in 1..(n + m),
             c[i].st \in Prompts, c[j].st \in Prompts
      PROVE  i = j
  <2>1. i \in 1..n /\ c[i] = r[i] /\ j \in 1..n /\ c[j] = r[j]
    BY <1>2, <1>3, <1>6
  <2>. QED
    BY <1>2, <1>6, <2>1
<1>7. Len(c) = n + m /\ c \in Seq(Events)
  BY <1>1
<1>8. Quiet(r) /\ Quiet(s) => Quiet(c)
  BY <1>4, <1>7 DEF Quiet
<1>9. Quiet(r) /\ OneAnswer(s) => OneAnswer(c)
  BY <1>5, <1>7 DEF OneAnswer
<1>10. OneAnswer(r) /\ Quiet(s) => OneAnswer(c)
  BY <1>6, <1>7 DEF OneAnswer
<1>. QED
  BY <1>7, <1>8, <1>9, <1>10 DEF c

LEMMA ShortLines ==
    /\ OneAnswer(<<>>) /\ Quiet(<<>>) /\ <<>> \in Seq(Events)
    /\ \A e \in Events : <<e>> \in Seq(Events) /\ OneAnswer(<<e>>)
                         /\ (e.st \notin Prompts => Quiet(<<e>>))
<1>1. \A e : Len(<<e>>) = 1 /\ <<e>>[1] = e
  OBVIOUS
<1>2. Len(<<>>) = 0 /\ <<>> \in Seq(Events)
  BY EmptySeq
<1>3. OneAnswer(<<>>) /\ Quiet(<<>>)
  BY <1>2 DEF OneAnswer, Quiet
<1>4. ASSUME NEW e \in Events
      PROVE  <<e>> \in Seq(Events) /\ OneAnswer(<<e>>) /\ (e.st \notin Prompts => Quiet(<<e>>))
  <2>1. <<e>> \in Seq(Events)
    OBVIOUS
  <2>2. OneAnswer(<<e>>)
    BY <1>1 DEF OneAnswer
  <2>3. e.st \notin Prompts => Quiet(<<e>>)
    BY <1>1 DEF Quiet
  <2>. QED
    BY <2>1, <2>2, <2>3
<1>. QED
  BY <1>2, <1>3, <1>4

LEMMA EventsOfStates ==
    \A s \in States : Event(s) \in Events /\ Event(s).st = s
<1>1. <<>> \in Seq(Args)
  BY EmptySeq
<1>. QED
  BY <1>1 DEF Event, Events, Modes

LEMMA AppendedEvent ==
    ASSUME NEW r \in Seq(Events), NEW e \in Events
    PROVE  Append(r, e) = r \o <<e>>
<1>1. Append(r, e) \in Seq(Events) /\ r \o <<e>> \in Seq(Events)
  BY ShortLines, LongerLine
<1>2. /\ Len(Append(r, e)) = Len(r) + 1
      /\ \A i \in 1..Len(r) : Append(r, e)[i] = r[i]
      /\ Append(r, e)[Len(r) + 1] = e
  BY AppendProperties
<1>3. /\ <<e>> \in Seq(Events) /\ Len(<<e>>) = 1 /\ <<e>>[1] = e /\ Len(r) \in Nat
  BY ShortLines, LenProperties
<1>. DEFINE n == Len(r)
            o == <<e>>
<1>4. /\ Len(r \o o) = n + 1
      /\ \A i \in 1..(n + 1) : (r \o o)[i] = IF i <= n THEN r[i] ELSE o[i - n]
  BY <1>3, ConcatProperties
<1>5. n \in Nat /\ o[1] = e /\ Len(Append(r, e)) = n + 1 /\ Append(r, e)[n + 1] = e
      /\ \A i \in 1..n : Append(r, e)[i] = r[i]
  BY <1>2, <1>3
<1>. HIDE DEF n, o
<1>6. \A i \in 1..(n + 1) : Append(r, e)[i] = (r \o o)[i]
  BY <1>4, <1>5
<1>7. r \o o \in Seq(Events)
  BY <1>1 DEF o
<1>8. Append(r, e) = r \o o
  BY <1>1, <1>4, <1>5, <1>6, <1>7, SeqEqual
<1>. QED
  BY <1>8 DEF o

(***************************************************************************)
(* The inductive invariant of FosCommander.                                *)
(***************************************************************************)

CliSound == Good(cli) /\ cli.out = <<>> /\ cli.known \in States /\ cli.state \in States

GuestSound ==
    /\ DOMAIN guest = {"up", "ctx", "draft", "saved", "mode", "formatted"}
    /\ guest.ctx \in Seq(Args) /\ (~guest.up => guest.ctx = <<>>)
    /\ guest.mode \in Modes

LineSound == typed \in Seq(Cmds \cup {Return}) /\ rx \in Seq(Events) /\ OneLine(typed, rx)

\* A line on its way is the one in flight, or the driver waits for a prompt.
Waiting == phase = "starting" /\ typed # <<>> => ~Idle(cli) \/ cli.known # "prompt"

PhaseSound ==
    bestEffort \in BOOLEAN /\ phase \in {"starting", "running", "degraded", "halted", "stopped"}

\* Nothing is typed behind a line that is on its way: the commander types when it
\* is idle and was shown a prompt, and then no line is, and no other prompt.
FosInv == CliSound /\ GuestSound /\ LineSound /\ Waiting /\ PhaseSound

LEMMA SeqOfItsElements ==
    ASSUME NEW S, NEW s \in Seq(S)
    PROVE  s \in Seq(ToSet(s))
<1>1. Len(s) \in Nat /\ DOMAIN s = 1..Len(s) /\ s \in [1..Len(s) -> S]
  BY LenProperties
<1>2. s \in [1..Len(s) -> ToSet(s)]
  BY <1>1 DEF ToSet
<1>. QED
  BY <1>1, <1>2, SeqDef

LEMMA InitFosInv == Init => FosInv
<1>. SUFFICES ASSUME Init PROVE FosInv
  OBVIOUS
<1>1. /\ DOMAIN cli = Fields
      /\ cli.queue = Queue /\ cli.active = NoFeature /\ cli.completed = {}
      /\ cli.blocks = <<>> /\ cli.cmds = <<>> /\ cli.pending = <<>> /\ cli.cleanup = <<>>
      /\ cli.retried = {} /\ cli.disk = 0 /\ cli.inflight = NoAttempt /\ cli.out = <<>>
      /\ cli.known = "unknown" /\ cli.state = "unknown"
  BY DEF Init, Fields
<1>2. Typing(cli)
  <2>1. /\ IsBlock(<<>>) /\ Len(<<>>) = 0 /\ <<>> \in Seq(Seq(Written))
        /\ <<>> \in Seq(CleanupWork)
    BY BlocksOfCommands, EmptySeq
  <2>. QED
    BY <1>1, <2>1, InspectNoAttempt DEF Typing, Idle
<1>3. Queueing(cli)
  <2>1. Queue \in Seq(ToSet(Queue)) /\ IsInjective(Queue) /\ NoFeature \notin ToSet(Queue)
    BY FosAssumption, SeqOfItsElements
  <2>2. \A i \in 1..Len(Queue) : Queue[i] \in ToSet(Queue)
    BY <2>1, ElementOfSeq
  <2>. QED
    BY <1>1, <2>1, <2>2 DEF Queueing
<1>4. CliSound
  BY <1>1, <1>2, <1>3 DEF CliSound, Good, Working, Idle, States
<1>5. GuestSound
  BY EmptySeq DEF Init, GuestSound, Modes
<1>6. LineSound
  <2>1. Event("username") \in Events
    BY EventsOfStates DEF States
  <2>2. typed = <<>> /\ rx = <<Event("username")>> /\ typed \in Seq(Cmds \cup {Return})
    BY EmptySeq DEF Init
  <2>. QED
    BY <2>1, <2>2, ShortLines DEF LineSound, OneLine
<1>7. Waiting /\ PhaseSound
  BY DEF Init, Waiting, PhaseSound
<1>. QED
  BY <1>4, <1>5, <1>6, <1>7 DEF FosInv

\* What the launcher does with the commander's next state.
LEMMA SpinKeeps ==
    ASSUME FosInv, NEW k, Good(k), k.known \in States, k.state \in States, Spin(k)
    PROVE  /\ CliSound' /\ GuestSound' /\ PhaseSound'
           /\ Idle(cli)' <=> Idle(k)
           /\ cli.known' = k.known
<1>1. /\ DOMAIN cli' = Fields /\ Parts(cli)' = Parts(k) /\ cli.out' = <<>>
      /\ cli.known' = k.known /\ cli.state' = k.state /\ cli.inflight' = k.inflight
  BY DEF Spin, Good, Fields, Parts
<1>2. Good(cli)'
  <2>. DEFINE d == cli'
  <2>1. DOMAIN d = Fields /\ Parts(d) = Parts(k)
    BY <1>1 DEF Parts
  <2>. HIDE DEF d
  <2>2. Good(d)
    BY <2>1, GoodByParts
  <2>. QED
    BY <2>2 DEF d, Good, Typing, Queueing, Working, Idle
<1>3. CliSound'
  BY <1>1, <1>2 DEF CliSound
<1>4. GuestSound'
  BY DEF Spin, FosInv, GuestSound
<1>5. PhaseSound'
  BY DEF Spin, FosInv, PhaseSound, Outcome
<1>. QED
  BY <1>1, <1>3, <1>4, <1>5 DEF Idle

LEMMA StepRead == FosInv /\ Read => FosInv'
<1>. SUFFICES ASSUME FosInv, Read PROVE FosInv'
  OBVIOUS
<1>. DEFINE e == Head(rx)
            k == OnState(cli, e)
<1>1. rx \in Seq(Events) /\ rx # <<>> /\ rx' = Tail(rx) /\ OneLine(typed, rx) /\ Spin(k)
  BY DEF Read, FosInv, LineSound
<1>2. /\ rx' \in Seq(Events) /\ e \in Events /\ OneLine(typed, rx')
      /\ e.st \in Prompts => typed = <<>> /\ Quiet(rx')
  BY <1>1, TailOfLine
<1>3. e.st \in States
  BY <1>2 DEF Events
<1>4. /\ Good(k) /\ k.known = e.st /\ k.state = e.st
      /\ k.out = <<>> \/ (e.st \in Prompts /\ ~Idle(k) /\ \E c \in Cmds : k.out = <<c>>)
  BY OnStateGood DEF FosInv, CliSound
<1>5. typed' = typed \o k.out
  BY <1>1 DEF Spin
<1>. HIDE DEF e, k
<1>6. CliSound' /\ GuestSound' /\ PhaseSound' /\ (Idle(cli)' <=> Idle(k)) /\ cli.known' = e.st
  BY <1>1, <1>3, <1>4, SpinKeeps
<1>7. typed \in Seq(Cmds \cup {Return})
  BY DEF FosInv, LineSound
<1>8. CASE k.out = <<>>
  <2>1. typed' = typed
    BY <1>5, <1>7, <1>8, ConcatEmptySeq
  <2>2. LineSound'
    BY <1>2, <1>7, <2>1 DEF LineSound
  <2>3. Waiting'
    BY <1>2, <1>6, <2>1 DEF Waiting, Prompts
  <2>. QED
    BY <1>6, <2>2, <2>3 DEF FosInv
<1>9. CASE e.st \in Prompts /\ ~Idle(k) /\ \E c \in Cmds : k.out = <<c>>
  <2>1. PICK c \in Cmds : k.out = <<c>>
    BY <1>9
  <2>2. <<c>> \in Seq(Cmds \cup {Return}) /\ Len(<<c>>) = 1
    OBVIOUS
  <2>3. typed' = <<c>>
    BY <1>2, <1>5, <1>9, <2>1, <2>2, ConcatEmptySeq
  <2>4. LineSound'
    BY <1>2, <1>9, <2>2, <2>3 DEF LineSound, OneLine
  <2>5. Waiting'
    BY <1>6, <1>9 DEF Waiting
  <2>. QED
    BY <1>6, <2>4, <2>5 DEF FosInv
<1>. QED
  BY <1>4, <1>8, <1>9

LEMMA StepReadEcho == FosInv /\ ReadEcho => FosInv'
<1>. SUFFICES ASSUME FosInv, ReadEcho PROVE FosInv'
  OBVIOUS
<1>. DEFINE k == [cli EXCEPT !.state = "echo", !.known = "echo"]
            a == [k EXCEPT !.out = <<Return>>]
<1>1. /\ rx \in Seq(Events) /\ rx # <<>> /\ rx' = Tail(rx) /\ OneLine(typed, rx)
      /\ Head(rx).st = "echo"
      /\ typed \in Seq(Cmds \cup {Return})
  BY DEF ReadEcho, FosInv, LineSound
<1>2. Spin(k) \/ Spin(a)
  BY DEF ReadEcho
<1>3. rx' \in Seq(Events) /\ typed = <<>> /\ Quiet(rx') /\ OneLine(typed, rx')
  BY <1>1, TailOfLine DEF Prompts
<1>4. /\ DOMAIN k = Fields /\ Parts(k) = Parts(cli) /\ k.out = <<>>
      /\ k.known = "echo" /\ k.state = "echo"
      /\ DOMAIN a = Fields /\ Parts(a) = Parts(cli) /\ a.out = <<Return>>
      /\ a.known = "echo" /\ a.state = "echo"
  BY DEF FosInv, CliSound, Good, Fields, Parts
<1>. HIDE DEF k, a
<1>5. Good(k) /\ Good(a)
  BY <1>4, GoodByParts DEF FosInv, CliSound
<1>6. CliSound' /\ GuestSound' /\ PhaseSound' /\ cli.known' = "echo"
  BY <1>2, <1>4, <1>5, SpinKeeps DEF States, Prompts
<1>7. Waiting'
  BY <1>6 DEF Waiting
<1>8. LineSound'
  <2>1. typed' = typed \/ typed' = <<Return>>
    BY <1>1, <1>2, <1>3, <1>4, ConcatEmptySeq DEF Spin
  <2>2. <<Return>> \in Seq(Cmds \cup {Return}) /\ Len(<<Return>>) = 1
    OBVIOUS
  <2>. QED
    BY <1>1, <1>3, <2>1, <2>2 DEF LineSound, OneLine
<1>. QED
  BY <1>6, <1>7, <1>8 DEF FosInv

LEMMA StepReadRejected == FosInv /\ ReadRejected => FosInv'
<1>. SUFFICES ASSUME FosInv, ReadRejected PROVE FosInv'
  OBVIOUS
<1>. DEFINE k == Raise([cli EXCEPT !.state = "rejected"])
<1>1. /\ rx \in Seq(Events) /\ rx # <<>> /\ rx' = Tail(rx) /\ OneLine(typed, rx)
      /\ typed \in Seq(Cmds \cup {Return}) /\ Spin(k)
  BY DEF ReadRejected, FosInv, LineSound
<1>2. rx' \in Seq(Events) /\ OneLine(typed, rx')
  BY <1>1, TailOfLine
<1>3. /\ DOMAIN k = Fields /\ Parts(k) = Parts(cli) /\ k.out = <<>> /\ k.raised
      /\ k.known = cli.known /\ k.state = "rejected"
  BY DEF FosInv, CliSound, Good, Fields, Parts, Raise
<1>. HIDE DEF k
<1>4. Good(k) /\ k.known \in States /\ k.state \in States
  BY <1>3, GoodByParts DEF FosInv, CliSound, States
<1>5. CliSound' /\ GuestSound' /\ PhaseSound'
  BY <1>1, <1>4, SpinKeeps
<1>6. typed' = typed /\ phase' # "starting"
  BY <1>1, <1>3, ConcatEmptySeq DEF Spin, Outcome
<1>. QED
  BY <1>1, <1>2, <1>5, <1>6 DEF FosInv, LineSound, Waiting

LEMMA StepReadTimeout == FosInv /\ ReadTimeout => FosInv'
<1>. SUFFICES ASSUME FosInv, ReadTimeout PROVE FosInv'
  OBVIOUS
<1>. DEFINE t == [cli EXCEPT !.state = "timeout"]
            k == OnIdle(t)
<1>1. Spin(k) /\ rx = <<>> /\ rx' = rx /\ phase = "starting"
  BY DEF ReadTimeout
<1>2. /\ DOMAIN t = Fields /\ Parts(t) = Parts(cli) /\ t.out = <<>> /\ t.known = cli.known
      /\ t.state = "timeout" /\ t.inflight = cli.inflight
  BY DEF FosInv, CliSound, Good, Fields, Parts
<1>. HIDE DEF t
<1>3. Good(t) /\ t.known \in States /\ t.state \in States
  BY <1>2, GoodByParts DEF FosInv, CliSound, States
<1>4. /\ Good(k) /\ AtMostOne(t, k)
      /\ t.known # "prompt" \/ ~Idle(t) => k = t
  BY <1>2, <1>3, OnIdleGood
<1>5. /\ typed \in Seq(Cmds \cup {Return}) /\ rx \in Seq(Events) /\ OneLine(typed, rx)
      /\ typed # <<>> => k = t
  BY <1>1, <1>2, <1>4 DEF FosInv, LineSound, Waiting, Idle
<1>. HIDE DEF k
<1>6. /\ CliSound' /\ GuestSound' /\ PhaseSound' /\ (Idle(cli)' <=> Idle(k))
      /\ cli.known' = k.known
  BY <1>1, <1>3, <1>4, SpinKeeps DEF AtMostOne, Keeps
<1>7. typed' = typed \o k.out
  BY <1>1 DEF Spin
<1>8. CASE k.out = <<>>
  <2>1. typed' = typed
    BY <1>5, <1>7, <1>8, ConcatEmptySeq
  <2>2. typed # <<>> => (Idle(k) <=> Idle(cli)) /\ k.known = cli.known
    BY <1>2, <1>5 DEF Idle
  <2>3. Waiting'
    BY <1>1, <1>6, <2>1, <2>2 DEF Waiting, FosInv
  <2>. QED
    BY <1>1, <1>5, <1>6, <2>1, <2>3 DEF FosInv, LineSound
<1>9. CASE k.out # <<>>
  <2>1. typed = <<>> /\ ~Idle(k) /\ \E c \in Cmds : k.out = <<c>>
    BY <1>2, <1>4, <1>5, <1>9 DEF AtMostOne, Keeps
  <2>2. PICK c \in Cmds : k.out = <<c>>
    BY <2>1
  <2>3. <<c>> \in Seq(Cmds \cup {Return}) /\ Len(<<c>>) = 1
    OBVIOUS
  <2>4. typed' = <<c>>
    BY <1>7, <2>1, <2>2, <2>3, ConcatEmptySeq
  <2>5. Quiet(rx)
    BY <1>1, ShortLines
  <2>6. LineSound'
    BY <1>1, <1>5, <2>3, <2>4, <2>5 DEF LineSound, OneLine
  <2>7. Waiting'
    BY <1>6, <2>1 DEF Waiting
  <2>. QED
    BY <1>6, <2>6, <2>7 DEF FosInv
<1>. QED
  BY <1>8, <1>9

LEMMA FrontOfScope ==
    ASSUME NEW s \in Seq(Args), s # <<>>
    PROVE  Front(s) \in Seq(Args) /\ Len(Front(s)) = Len(s) - 1
<1>1. Len(s) \in Nat /\ Len(s) >= 1
  BY EmptySeq
<1>. DEFINE n == Len(s) - 1
<1>2. \A i \in 1..n : s[i] \in Args
  BY <1>1, ElementOfSeq
<1>3. n \in Nat
  BY <1>1
<1>. HIDE DEF n
<1>4. /\ SubSeq(s, 1, n) \in Seq(Args)
      /\ Len(SubSeq(s, 1, n)) = IF 1 <= n THEN n - 1 + 1 ELSE 0
  BY <1>2, <1>3, SubSeqProperties
<1>5. Len(SubSeq(s, 1, n)) = n
  BY <1>3, <1>4
<1>. QED
  BY <1>4, <1>5 DEF Front, n

LEMMA PartOfScope ==
    ASSUME NEW s \in Seq(Args), NEW n \in Int, n <= Len(s)
    PROVE  SubSeq(s, 1, n) \in Seq(Args)
<1>1. \A i \in 1..n : s[i] \in Args
  BY LenProperties, ElementOfSeq
<1>. QED
  BY <1>1, SubSeqProperties

LEMMA ReturnOpens == Return.op = "return" /\ Return \notin {Inspect, Cmd("abort", "")}
  BY DEF Return, Cmd, Inspect

\* A command the scope knows leads to a scope.
LEMMA EnterScope ==
    ASSUME NEW s \in Seq(Args), NEW c \in Cmds \cup {Return}, Knows(s, c)
    PROVE  Enter(s, c) \in Seq(Args)
<1>1. CASE c.op \in {"config", "edit"}
  <2>1. c \in Cmds
    BY <1>1, ReturnOpens
  <2>2. c.arg \in Args
    BY <1>1, <2>1 DEF Args
  <2>. QED
    BY <1>1, <2>2, AppendProperties DEF Enter
<1>2. CASE c.op = "next"
  <2>1. s # <<>>
    BY <1>2 DEF Knows
  <2>. QED
    BY <1>2, <2>1, FrontOfScope DEF Enter
<1>3. CASE c.op = "end"
  <2>. DEFINE n == Len(s) - (IF InEntry(s) THEN 2 ELSE 1)
  <2>1. n \in Int /\ n <= Len(s)
    BY LenProperties
  <2>2. Enter(s, c) = SubSeq(s, 1, n)
    BY <1>3 DEF Enter
  <2>. HIDE DEF n
  <2>. QED
    BY <2>1, <2>2, PartOfScope
<1>4. CASE c.op = "abort"
  BY <1>4, EmptySeq DEF Enter
<1>5. CASE c.op \notin {"config", "edit", "next", "end", "abort"}
  BY <1>5 DEF Enter
<1>. QED
  BY <1>1, <1>2, <1>3, <1>4, <1>5

\* GuestSound of a guest g.
GuestIs(g) ==
    /\ DOMAIN g = {"up", "ctx", "draft", "saved", "mode", "formatted"}
    /\ g.ctx \in Seq(Args) /\ (~g.up => g.ctx = <<>>)
    /\ g.mode \in Modes

LEMMA RanGuest ==
    ASSUME NEW g, GuestIs(g), g.up, NEW c \in Cmds \cup {Return}, Knows(g.ctx, c)
    PROVE  GuestIs(Ran(g, c)) /\ Ran(g, c).ctx = Enter(g.ctx, c) /\ Ran(g, c).up
<1>. DEFINE r == Ran(g, c)
<1>1. Enter(g.ctx, c) \in Seq(Args)
  BY EnterScope DEF GuestIs
<1>2. /\ DOMAIN r = {"up", "ctx", "draft", "saved", "mode", "formatted"}
      /\ r.ctx = Enter(g.ctx, c) /\ r.up = g.up /\ r.mode \in {g.mode, "standard", "more"}
  <2>. DEFINE h == [g EXCEPT !.ctx = Enter(g.ctx, c)]
  <2>1. /\ DOMAIN h = {"up", "ctx", "draft", "saved", "mode", "formatted"}
        /\ h.ctx = Enter(g.ctx, c) /\ h.mode = g.mode /\ h.up = g.up
    BY DEF GuestIs
  <2>. HIDE DEF h
  <2>2. CASE c.op = "set"
    <3>1. r = [h EXCEPT !.draft = @ \cup {c.arg}]
      BY <2>2 DEF Ran, h, ClosesScope
    <3>. QED
      BY <2>1, <3>1
  <2>3. CASE ClosesScope(c)
    <3>1. r \in {h, [h EXCEPT !.saved = @ \cup g.draft, !.draft = {},
                             !.mode = IF "standard" \in g.draft THEN "standard"
                                      ELSE IF "more" \in g.draft THEN "more" ELSE @]}
      BY <2>3 DEF Ran, h, ClosesScope
    <3>. QED
      BY <2>1, <3>1
  <2>4. CASE c.op = "abort"
    <3>1. r = [h EXCEPT !.draft = {}]
      BY <2>4 DEF Ran, h, ClosesScope
    <3>. QED
      BY <2>1, <3>1
  <2>5. CASE c.op = "yes"
    <3>1. r = [h EXCEPT !.formatted = Append(@, c.arg)]
      BY <2>5 DEF Ran, h, ClosesScope
    <3>. QED
      BY <2>1, <3>1
  <2>6. CASE c.op \notin {"set", "abort", "yes"} /\ ~ClosesScope(c)
    <3>1. r = h
      BY <2>6 DEF Ran, h
    <3>. QED
      BY <2>1, <3>1
  <2>. QED
    BY <2>2, <2>3, <2>4, <2>5, <2>6
<1>. QED
  BY <1>1, <1>2 DEF GuestIs, Modes, r

LEMMA LoggedOutGuest ==
    ASSUME NEW g, GuestIs(g)
    PROVE  GuestIs(LoggedOut(g))
<1>1. Len(<<>>) = 0 /\ <<>> \in Seq(Args)
  BY EmptySeq
<1>. QED
  BY <1>1 DEF GuestIs, LoggedOut

\* A guest that reads the line on its way leaves none.
LEMMA GuestReads ==
    ASSUME FosInv, typed # <<>>
    PROVE  /\ Head(typed) \in Cmds \cup {Return} /\ Tail(typed) = <<>>
           /\ Quiet(rx) /\ OneAnswer(rx) /\ rx \in Seq(Events)
<1>1. typed \in Seq(Cmds \cup {Return}) /\ Len(typed) = 1 /\ Quiet(rx) /\ rx \in Seq(Events)
  BY DEF FosInv, LineSound, OneLine
<1>2. /\ Head(typed) \in Cmds \cup {Return} /\ Tail(typed) \in Seq(Cmds \cup {Return})
      /\ Len(Tail(typed)) = Len(typed) - 1
  BY <1>1, HeadTailProperties
<1>3. Tail(typed) = <<>>
  <2>1. Len(Tail(typed)) = 0
    BY <1>1, <1>2
  <2>. QED
    BY <1>2, <2>1, EmptySeq
<1>4. OneAnswer(rx)
  BY <1>1 DEF Quiet, OneAnswer
<1>. QED
  BY <1>1, <1>2, <1>3, <1>4

\* The commander notices nothing of what the guest does.
LEMMA GuestStep ==
    ASSUME FosInv, UNCHANGED <<bestEffort, cli, phase>>, GuestIs(guest'),
           LineSound', typed' \in {typed, <<>>}
    PROVE  FosInv'
  BY DEF FosInv, CliSound, GuestSound, GuestIs, PhaseSound, Waiting,
     Good, Typing, Queueing, Working, Idle

LEMMA StepExecute == FosInv /\ Execute => FosInv'
<1>. SUFFICES ASSUME FosInv, Execute PROVE FosInv'
  OBVIOUS
<1>. DEFINE c == Head(typed)
<1>1. /\ c \in Cmds \cup {Return} /\ typed' = <<>> /\ OneAnswer(rx) /\ Quiet(rx)
      /\ rx \in Seq(Events)
  BY GuestReads DEF Execute
<1>2. GuestIs(guest) /\ guest.up
  BY DEF FosInv, GuestSound, GuestIs, Execute
<1>3. PICK failed1, echo \in BOOLEAN :
        LET g == IF Knows(guest.ctx, c) /\ ~failed1 THEN Ran(guest, c) ELSE guest
        IN  /\ guest' = g
            /\ rx' = Append(rx, [st |-> IF echo THEN "echo" ELSE "prompt", ctx |-> g.ctx,
                                 failed |-> failed1, mode |-> guest.mode])
  BY DEF Execute
<1>. DEFINE e == [st |-> IF echo THEN "echo" ELSE "prompt", ctx |-> guest'.ctx,
                  failed |-> failed1, mode |-> guest.mode]
<1>. HIDE DEF c
<1>4. GuestIs(guest')
  BY <1>1, <1>2, <1>3, RanGuest
<1>5. e \in Events /\ rx' = Append(rx, e)
  BY <1>2, <1>3, <1>4 DEF Events, GuestIs, States, Prompts
<1>. HIDE DEF e
<1>6. rx' \in Seq(Events) /\ OneAnswer(rx')
  BY <1>1, <1>5, AppendedEvent, ShortLines, LongerLine
<1>7. LineSound'
  BY <1>1, <1>6, EmptySeq DEF LineSound, OneLine
<1>. QED
  BY <1>1, <1>4, <1>7, GuestStep DEF Execute

LEMMA StepExecuteFormat == FosInv /\ ExecuteFormat => FosInv'
<1>. SUFFICES ASSUME FosInv, ExecuteFormat PROVE FosInv'
  OBVIOUS
<1>. DEFINE c == Head(typed)
<1>1. /\ c \in Cmds \cup {Return} /\ typed' = <<>> /\ OneAnswer(rx) /\ Quiet(rx)
      /\ rx \in Seq(Events)
  BY GuestReads DEF ExecuteFormat
<1>2. GuestIs(guest) /\ guest.up
  BY DEF FosInv, GuestSound, GuestIs, ExecuteFormat
<1>3. /\ Event("confirm") \in Events /\ Event("rebooting") \in Events
      /\ Event("username") \in Events /\ Event("username").st \notin Prompts
  BY EventsOfStates DEF States, Prompts
<1>4. CASE c.op = "format"
  <2>1. guest' = guest /\ rx' = Append(rx, Event("confirm"))
    BY <1>4 DEF ExecuteFormat
  <2>2. rx' \in Seq(Events) /\ OneAnswer(rx')
    BY <1>1, <1>3, <2>1, AppendedEvent, ShortLines, LongerLine
  <2>3. LineSound'
    BY <1>1, <2>2, EmptySeq DEF LineSound, OneLine
  <2>. QED
    BY <1>1, <1>2, <2>1, <2>3, GuestStep DEF ExecuteFormat
<1>5. CASE c.op = "yes"
  <2>1. PICK s \in {<<Event("rebooting")>>, <<>>} :
          rx' = rx \o s \o <<Event("username")>>
    BY <1>5 DEF ExecuteFormat
  <2>2. guest' = LoggedOut(Ran(guest, c)) /\ Knows(guest.ctx, c)
    BY <1>5 DEF ExecuteFormat, Knows
  <2>3. GuestIs(guest')
    BY <1>1, <1>2, <2>2, RanGuest, LoggedOutGuest
  <2>4. s \in Seq(Events) /\ OneAnswer(s)
    BY <1>3, <2>1, ShortLines
  <2>5. rx \o s \in Seq(Events) /\ OneAnswer(rx \o s)
    BY <1>1, <2>4, LongerLine
  <2>6. <<Event("username")>> \in Seq(Events) /\ Quiet(<<Event("username")>>)
    BY <1>3, ShortLines
  <2>7. rx' \in Seq(Events) /\ OneAnswer(rx')
    BY <2>1, <2>5, <2>6, LongerLine
  <2>8. LineSound'
    BY <1>1, <2>7, EmptySeq DEF LineSound, OneLine
  <2>. QED
    BY <1>1, <2>3, <2>8, GuestStep DEF ExecuteFormat
<1>. QED
  BY <1>4, <1>5 DEF ExecuteFormat

LEMMA StepFall == FosInv /\ Fall => FosInv'
<1>. SUFFICES ASSUME FosInv, Fall PROVE FosInv'
  OBVIOUS
<1>1. GuestIs(guest) /\ guest.ctx # <<>> /\ UNCHANGED <<bestEffort, cli, typed, rx, phase>>
  BY DEF FosInv, GuestSound, GuestIs, Fall
<1>2. PICK s \in {<<>>, Front(guest.ctx)} : guest' = [guest EXCEPT !.ctx = s, !.draft = {}]
  BY DEF Fall
<1>3. s \in Seq(Args) /\ guest.up
  BY <1>1, <1>2, FrontOfScope, EmptySeq DEF GuestIs, Fall
<1>4. GuestIs(guest')
  BY <1>1, <1>2, <1>3 DEF GuestIs
<1>5. LineSound'
  BY <1>1 DEF FosInv, LineSound
<1>. QED
  BY <1>1, <1>4, <1>5, GuestStep

LEMMA StepLoseSession == FosInv /\ LoseSession => FosInv'
<1>. SUFFICES ASSUME FosInv, LoseSession PROVE FosInv'
  OBVIOUS
<1>1. GuestIs(guest) /\ rx \in Seq(Events) /\ OneLine(typed, rx)
      /\ typed \in Seq(Cmds \cup {Return}) /\ guest.up
  BY DEF FosInv, GuestSound, GuestIs, LineSound, LoseSession
<1>2. PICK said, ran \in BOOLEAN :
        /\ ran => typed # <<>> /\ Knows(guest.ctx, Head(typed))
        /\ guest' = LoggedOut(IF ran THEN Ran(guest, Head(typed)) ELSE guest)
        /\ typed' = IF ran THEN Tail(typed) ELSE typed
        /\ rx' = rx \o (IF said THEN <<Event("lost")>> ELSE <<>>) \o <<Event("username")>>
  BY DEF LoseSession
<1>3. ran => /\ Head(typed) \in Cmds \cup {Return} /\ Tail(typed) = <<>> /\ OneAnswer(rx)
  BY <1>2, GuestReads
<1>4. GuestIs(guest')
  BY <1>1, <1>2, <1>3, RanGuest, LoggedOutGuest
<1>. DEFINE s == IF said THEN <<Event("lost")>> ELSE <<>>
            u == <<Event("username")>>
<1>5. s \in Seq(Events) /\ Quiet(s) /\ u \in Seq(Events) /\ Quiet(u)
  <2>1. /\ Event("lost") \in Events /\ Event("lost").st \notin Prompts
        /\ Event("username") \in Events /\ Event("username").st \notin Prompts
    BY EventsOfStates DEF States, Prompts
  <2>. QED
    BY <2>1, ShortLines
<1>6. rx' = rx \o s \o u
  BY <1>2
<1>. HIDE DEF s, u
<1>7. /\ rx' \in Seq(Events)
      /\ OneAnswer(rx) => OneAnswer(rx')
      /\ Quiet(rx) => Quiet(rx')
  <2>1. /\ rx \o s \in Seq(Events)
        /\ OneAnswer(rx) => OneAnswer(rx \o s)
        /\ Quiet(rx) => Quiet(rx \o s)
    BY <1>1, <1>5, LongerLine
  <2>. QED
    BY <1>5, <1>6, <2>1, LongerLine
<1>8. typed' \in {typed, <<>>} /\ (typed' # typed => OneAnswer(rx))
  BY <1>2, <1>3
<1>9. LineSound'
  BY <1>1, <1>7, <1>8, EmptySeq DEF LineSound, OneLine
<1>. QED
  BY <1>4, <1>8, <1>9, GuestStep DEF LoseSession

LEMMA StepDropLine == FosInv /\ DropLine => FosInv'
<1>. SUFFICES ASSUME FosInv, DropLine PROVE FosInv'
  OBVIOUS
<1>1. GuestIs(guest') /\ typed' = <<>> /\ rx' = rx
  BY DEF FosInv, GuestSound, GuestIs, DropLine
<1>2. OneAnswer(rx) /\ rx \in Seq(Events)
  BY GuestReads DEF DropLine
<1>3. LineSound'
  BY <1>1, <1>2, EmptySeq DEF LineSound, OneLine
<1>. QED
  BY <1>1, <1>3, GuestStep DEF DropLine

LEMMA StepLogin == FosInv /\ Login => FosInv'
<1>. SUFFICES ASSUME FosInv, Login PROVE FosInv'
  OBVIOUS
<1>1. typed = <<>> /\ typed' = <<>> /\ UNCHANGED <<bestEffort, cli, phase>>
  BY DEF Login
<1>2. GuestIs(guest')
  <2>1. GuestIs(guest) /\ (guest' = guest \/ guest' = [guest EXCEPT !.up = TRUE])
    BY DEF FosInv, GuestSound, GuestIs, Login
  <2>. QED
    BY <2>1 DEF GuestIs
<1>3. /\ Event("accepted") \in Events /\ Event("accepted").st \notin Prompts
      /\ Event("prompt") \in Events /\ Event("rejected") \in Events
  BY EventsOfStates DEF States, Prompts
<1>4. \/ rx' = <<Event("accepted")>> \o <<Event("prompt")>>
      \/ rx' = <<>> \o <<Event("prompt")>>
      \/ rx' = <<Event("rejected")>>
  BY DEF Login
<1>5. rx' \in Seq(Events) /\ OneAnswer(rx')
  <2>1. /\ <<Event("accepted")>> \in Seq(Events) /\ Quiet(<<Event("accepted")>>)
        /\ <<Event("prompt")>> \in Seq(Events) /\ OneAnswer(<<Event("prompt")>>)
        /\ <<Event("rejected")>> \in Seq(Events) /\ OneAnswer(<<Event("rejected")>>)
        /\ <<>> \in Seq(Events) /\ Quiet(<<>>)
    BY <1>3, ShortLines
  <2>2. CASE rx' = <<Event("accepted")>> \o <<Event("prompt")>>
    BY <2>1, <2>2, LongerLine
  <2>3. CASE rx' = <<>> \o <<Event("prompt")>>
    BY <2>1, <2>3, LongerLine
  <2>. QED
    BY <1>4, <2>1, <2>2, <2>3
<1>6. LineSound'
  BY <1>1, <1>5, EmptySeq DEF LineSound, OneLine
<1>. QED
  BY <1>1, <1>2, <1>6, GuestStep

LEMMA StepFosInv == FosInv /\ [Next]_vars => FosInv'
<1>. SUFFICES ASSUME FosInv, [Next]_vars PROVE FosInv'
  OBVIOUS
<1>1. CASE UNCHANGED vars
  BY <1>1 DEF vars, FosInv, CliSound, GuestSound, LineSound, Waiting, PhaseSound,
     Good, Typing, Queueing, Working, Idle
<1>. QED
  BY <1>1, StepRead, StepReadEcho, StepReadRejected, StepReadTimeout, StepExecute,
     StepExecuteFormat, StepFall, StepLoseSession, StepDropLine, StepLogin DEF Next

THEOREM FosInvariance == Spec => []FosInv
  BY InitFosInv, StepFosInv, PTL DEF Spec

\* No feature is active again once it is completed, no more commands wait than
\* the block has, and every state and scope is one of the console's.
THEOREM TypeCorrect == Spec => []TypeOK
<1>1. FosInv => TypeOK
  <2>. SUFFICES ASSUME FosInv PROVE TypeOK
    OBVIOUS
  <2>1. \A i \in DOMAIN rx : rx[i].st \in States
    <3>1. DOMAIN rx = 1..Len(rx) /\ \A i \in 1..Len(rx) : rx[i] \in Events
      BY LenProperties, ElementOfSeq DEF FosInv, LineSound
    <3>. QED
      BY <3>1 DEF Events
  <2>2. /\ cli.retried \subseteq Nat /\ Len(cli.pending) <= Len(cli.cmds)
        /\ cli.state \in States /\ cli.known \in States
    BY DEF FosInv, CliSound, Good, Typing
  <2>3. cli.completed \cap {cli.active} = {}
    BY DEF FosInv, CliSound, Good, Queueing
  <2>4. bestEffort \in BOOLEAN /\ (~guest.up => guest.ctx = <<>>)
        /\ phase \in {"starting", "running", "degraded", "halted", "stopped"}
    BY DEF FosInv, GuestSound, PhaseSound
  <2>. QED
    BY <2>1, <2>2, <2>3, <2>4 DEF TypeOK
<1>. QED
  BY <1>1, FosInvariance, PTL

\* Whatever the guest loses, drops or prints, and whatever is replayed or
\* skipped, no command is typed while an earlier one may still be answered.
THEOREM OneAtATimeHolds == Spec => []OneAtATime
<1>1. FosInv => OneAtATime
  <2>. SUFFICES ASSUME FosInv PROVE OneAtATime
    OBVIOUS
  <2>1. rx \in Seq(Events) /\ OneLine(typed, rx) /\ DOMAIN rx = 1..Len(rx)
    BY LenProperties DEF FosInv, LineSound
  <2>2. CASE typed = <<>> /\ OneAnswer(rx)
    <3>1. \A i, j \in Answers : i = j
      BY <2>1, <2>2 DEF OneAnswer, Answers
    <3>2. Answers = {} \/ \E i : Answers = {i}
      BY <3>1
    <3>3. Cardinality(Answers) \in {0, 1}
      BY <3>2, FS_EmptySet, FS_Singleton
    <3>4. Len(typed) = 0
      BY <2>2, EmptySeq
    <3>. QED
      BY <3>3, <3>4 DEF OneAtATime
  <2>3. CASE Len(typed) = 1 /\ Quiet(rx)
    <3>1. Answers = {}
      BY <2>1, <2>3 DEF Quiet, Answers
    <3>2. Cardinality(Answers) = 0
      BY <3>1, FS_EmptySet
    <3>. QED
      BY <2>3, <3>2 DEF OneAtATime
  <2>. QED
    BY <2>1, <2>2, <2>3 DEF OneLine
<1>. QED
  BY <1>1, FosInvariance, PTL

(***************************************************************************)
(* The scopes of a block, from its first command to behind its last.       *)
(***************************************************************************)

LEMMA LeastElement ==
    ASSUME NEW T, T \subseteq Nat, T # {}
    PROVE  \E n \in T : \A m \in T : n <= m
<1>1. PICK n \in T : \A m \in T : ~(<<m, n>> \in OpToRel(<, Nat))
  BY NatLessThanWellFounded, WFMin
<1>2. \A m \in T : ~(m < n)
  BY <1>1 DEF OpToRel
<1>. QED
  BY <1>2

\* s is the sequence of the first i scopes of block b.
AreScopes(s, b, i) ==
    s = [k \in 1..i |-> IF k = 1 THEN <<>> ELSE Enter(s[k - 1], b[k - 1])]

LEMMA ScopesExist ==
    ASSUME NEW b
    PROVE  \A i \in Nat \ {0} : \E s : AreScopes(s, b, i)
<1>. DEFINE T == {i \in Nat \ {0} : ~\E s : AreScopes(s, b, i)}
<1>. SUFFICES ASSUME T # {} PROVE FALSE
  OBVIOUS
<1>1. PICK n \in T : \A m \in T : n <= m
  <2>1. T \subseteq Nat
    OBVIOUS
  <2>. HIDE DEF T
  <2>. QED
    BY <2>1, LeastElement
<1>2. CASE n = 1
  <2>1. AreScopes([k \in 1..1 |-> <<>>], b, 1)
    BY DEF AreScopes
  <2>. QED
    BY <1>2, <2>1
<1>3. CASE n # 1
  <2>1. n - 1 \in Nat \ {0} /\ n - 1 \notin T
    BY <1>1, <1>3
  <2>2. PICK s : AreScopes(s, b, n - 1)
    BY <2>1
  <2>. DEFINE t == [k \in 1..n |-> IF k < n THEN s[k] ELSE Enter(s[n - 1], b[n - 1])]
  <2>3. \A k \in 1..(n - 1) : t[k] = IF k = 1 THEN <<>> ELSE Enter(t[k - 1], b[k - 1])
    <3>1. \A k \in 1..(n - 1) : s[k] = IF k = 1 THEN <<>> ELSE Enter(s[k - 1], b[k - 1])
      BY <2>2 DEF AreScopes
    <3>2. \A k \in 1..(n - 1) : t[k] = s[k]
      OBVIOUS
    <3>3. \A k \in 1..(n - 1) : k # 1 => t[k - 1] = s[k - 1]
      OBVIOUS
    <3>. QED
      BY <3>1, <3>2, <3>3
  <2>4. t[n] = Enter(t[n - 1], b[n - 1])
    BY <1>3
  <2>5. t = [k \in 1..n |-> t[k]]
    OBVIOUS
  <2>. HIDE DEF t
  <2>6. \A k \in 1..n : t[k] = IF k = 1 THEN <<>> ELSE Enter(t[k - 1], b[k - 1])
    BY <1>3, <2>3, <2>4
  <2>7. AreScopes(t, b, n)
    BY <2>5, <2>6 DEF AreScopes
  <2>. QED
    BY <2>7
<1>. QED
  BY <1>2, <1>3

LEMMA ScopesAgree ==
    ASSUME NEW b, NEW i \in Nat, NEW j \in Nat, i <= j, NEW s, NEW t,
           AreScopes(s, b, i), AreScopes(t, b, j)
    PROVE  \A k \in 1..i : s[k] = t[k]
<1>. DEFINE T == {k \in 1..i : s[k] # t[k]}
<1>. SUFFICES ASSUME T # {} PROVE FALSE
  OBVIOUS
<1>1. PICK n \in T : \A m \in T : n <= m
  <2>1. T \subseteq Nat
    OBVIOUS
  <2>. HIDE DEF T
  <2>. QED
    BY <2>1, LeastElement
<1>2. /\ s[n] = IF n = 1 THEN <<>> ELSE Enter(s[n - 1], b[n - 1])
      /\ t[n] = IF n = 1 THEN <<>> ELSE Enter(t[n - 1], b[n - 1])
  BY DEF AreScopes
<1>3. n # 1 => s[n - 1] = t[n - 1]
  BY <1>1
<1>. QED
  BY <1>2, <1>3

\* The first command of a block is for the top level, the next one for the scope
\* the command before it leads to.
LEMMA IntendedScopes ==
    ASSUME NEW b
    PROVE  /\ Intended(b, 1) = <<>>
           /\ \A i \in Nat \ {0} : Intended(b, i + 1) = Enter(Intended(b, i), b[i])
<1>. DEFINE S(i) == CHOOSE s : AreScopes(s, b, i)
<1>1. ASSUME NEW i \in Nat \ {0} PROVE Intended(b, i) = S(i)[i] /\ AreScopes(S(i), b, i)
  <2>1. Intended(b, i) = S(i)[i]
    BY DEF Intended, AreScopes
  <2>. QED
    BY <2>1, ScopesExist
<1>. HIDE DEF S
<1>2. Intended(b, 1) = <<>>
  BY <1>1 DEF AreScopes
<1>3. ASSUME NEW i \in Nat \ {0} PROVE Intended(b, i + 1) = Enter(Intended(b, i), b[i])
  <2>1. /\ Intended(b, i) = S(i)[i] /\ AreScopes(S(i), b, i)
        /\ Intended(b, i + 1) = S(i + 1)[i + 1] /\ AreScopes(S(i + 1), b, i + 1)
    BY <1>1
  <2>. DEFINE s == S(i)
              t == S(i + 1)
  <2>. HIDE DEF s, t
  <2>2. s[i] = t[i]
    BY <2>1, ScopesAgree DEF s, t
  <2>3. AreScopes(t, b, i + 1)
    BY <2>1 DEF t
  <2>4. t[i + 1] = Enter(t[i], b[i])
    BY <2>3 DEF AreScopes
  <2>. QED
    BY <2>1, <2>2, <2>4 DEF s, t
<1>. QED
  BY <1>2, <1>3

(***************************************************************************)
(* What the commander knows of the scope it types in.                      *)
(***************************************************************************)

\* Nothing failed so far.
Calm(k) == k.errors = {} /\ ~k.error /\ ~k.raised

\* Work was given up, or is about to be.
GaveUp(k) == k.errors # {} \/ ((k.error \/ k.raised) /\ Idle(k))

\* What is left of the three commands that restore the output mode.
Restoring(w) == Len(w) <= 3 /\ \A i \in 1..Len(w) : w[i].cmd = SetMore[3 - Len(w) + i]

\* p is what is left of block b.
RestOf(p, b) == \A i \in 1..Len(p) : p[i] = b[Len(b) - Len(p) + i]

\* Only a command that is a block of its own is answered by anything but a prompt.
AnsweredByPrompts(b) == \A i \in 1..Len(b) : b[i].at # {"prompt"} => Len(b) = 1

\* Only a feature with blocks of its own asks for standard console output.
Paging(k) == k.std # "none" => k.active \notin {NoFeature, DiskFormat}

\* The work ahead: blocks that end where they begin, which is at the top level.
Plan(k) ==
    /\ \A i \in 1..Len(k.blocks) : ScopedBlock(k.blocks[i])
    /\ ScopedBlock(k.cmds) /\ AnsweredByPrompts(k.cmds)
    /\ k.active = DiskFormat => Len(k.cmds) <= 1
    /\ RestOf(k.pending, k.cmds)
    /\ Restoring(k.cleanup)
    /\ Paging(k)
    /\ IF k.active = NoFeature THEN k.pending = <<>> ELSE k.cleanup = <<>> /\ k.blockCtx = <<>>

Resting(k) == Calm(k) /\ Plan(k) /\ Idle(k) /\ ~k.inCleanup /\ ~k.inReset

\* The block is to be replayed from the top level.
Replay(k) == k.target = <<>> /\ k.pending = k.cmds /\ k.active # NoFeature

\* Between two blocks, or before one is replayed.
Rest(k) ==
    /\ Resting(k)
    /\ k.pending \in {<<>>, k.cmds}
    /\ k.target = NoContext \/ Replay(k)

\* The same at a prompt, which shows the top level.
AtTop(k) == Rest(k) /\ k.target = NoContext /\ k.ctx = <<>>

\* The cleanup with n commands left is in its scope, or at the top level because a
\* session was lost.
CleanupScope(s, n) == s = <<>> \/ (s = <<"console">> /\ n \in {1, 2})

\* The next command may be typed in the scope the prompt showed.
Ready(k) ==
    /\ Resting(k) /\ ~k.recovering /\ k.authenticated /\ k.ctx # NoContext
    /\ \/ k.target # NoContext /\ Replay(k)
       \/ /\ k.target = NoContext /\ k.active # NoFeature
          /\ k.ctx = Intended(k.cmds, Len(k.cmds) - Len(k.pending) + 1)
       \/ /\ k.target = NoContext /\ k.active = NoFeature
          /\ CleanupScope(k.ctx, Len(k.cleanup))

\* The command in flight is one of the block, of the cleanup or of a reset.
InBlock(k) ==
    /\ ~k.inCleanup /\ ~k.inReset /\ k.active # NoFeature /\ k.target = NoContext
    /\ k.inflight.index = Len(k.cmds) - Len(k.pending) /\ k.inflight.index >= 1
    /\ k.inflight.cmd = k.cmds[k.inflight.index]
    /\ k.inflight.before = Intended(k.cmds, k.inflight.index)

InCleanup(k) ==
    /\ k.inCleanup /\ ~k.inReset /\ k.active = NoFeature /\ k.target = NoContext
    /\ k.inflight.index = 0 /\ Len(k.cleanup) < 3
    /\ k.inflight.cmd = SetMore[3 - Len(k.cleanup)]
    /\ CleanupScope(k.inflight.before, Len(k.cleanup) + 1)

InReset(k) ==
    /\ ~k.inCleanup /\ k.inReset /\ Replay(k)
    /\ k.inflight.index = 0 /\ k.inflight.cmd = Cmd("abort", "")

Typed(k) ==
    /\ Calm(k) /\ Plan(k) /\ ~Idle(k) /\ ~k.recovering /\ k.authenticated
    /\ NoContext \notin {k.ctx, k.inflight.before}
    /\ InBlock(k) \/ InCleanup(k) \/ InReset(k)

\* No prompt was seen since it was typed.
Fly(k) == Typed(k) /\ k.ctx = k.inflight.before

\* A feature is active, between two of its blocks.
Between(k) ==
    /\ Calm(k) /\ Idle(k) /\ ~k.inCleanup /\ ~k.inReset /\ k.ctx = <<>>
    /\ k.active # NoFeature /\ k.cleanup = <<>> /\ Paging(k)
    /\ \A i \in 1..Len(k.blocks) : ScopedBlock(k.blocks[i])

\* The fields these are about.
ScopeParts(k) ==
    <<k.errors, k.error, k.raised, k.blocks, k.cmds, k.pending, k.cleanup, k.active, k.blockCtx,
      k.inflight, k.inCleanup, k.inReset, k.target, k.ctx, k.std>>

LEMMA SameScope ==
    ASSUME NEW k, NEW d, ScopeParts(d) = ScopeParts(k)
    PROVE  /\ Calm(d) <=> Calm(k)
           /\ Plan(d) <=> Plan(k)
           /\ Rest(d) <=> Rest(k)
           /\ AtTop(d) <=> AtTop(k)
           /\ Between(d) <=> Between(k)
<1>1. /\ d.errors = k.errors /\ d.error = k.error /\ d.raised = k.raised /\ d.blocks = k.blocks
      /\ d.cmds = k.cmds /\ d.pending = k.pending /\ d.cleanup = k.cleanup
      /\ d.active = k.active /\ d.blockCtx = k.blockCtx /\ d.inflight = k.inflight
      /\ d.inCleanup = k.inCleanup /\ d.inReset = k.inReset /\ d.target = k.target
      /\ d.ctx = k.ctx /\ d.std = k.std
  BY DEF ScopeParts
<1>2. (Calm(d) <=> Calm(k)) /\ (Plan(d) <=> Plan(k)) /\ (Between(d) <=> Between(k))
  BY <1>1 DEF Calm, Plan, Between, Idle, Paging
<1>3. Resting(d) <=> Resting(k)
  BY <1>1, <1>2 DEF Resting, Idle
<1>4. Rest(d) <=> Rest(k)
  BY <1>1, <1>3 DEF Rest, Replay
<1>. QED
  BY <1>1, <1>2, <1>4 DEF AtTop

(***************************************************************************)
(* Blocks.                                                                 *)
(***************************************************************************)

LEMMA ConsoleScope ==
    /\ Enter(<<>>, Cmd("config", "console")) = <<"console">>
    /\ Enter(<<"console">>, Cmd("end", "console")) = <<>>
    /\ Enter(<<>>, Cmd("end", "console")) = <<>>
    /\ Knows(<<>>, Cmd("config", "console")) /\ Knows(<<"console">>, Cmd("end", "console"))
<1>1. /\ Cmd("config", "console").op = "config" /\ Cmd("config", "console").arg = "console"
      /\ Cmd("end", "console").op = "end"
  BY DEF Cmd
<1>2. Append(<<>>, "console") = <<"console">>
  OBVIOUS
<1>3. Enter(<<>>, Cmd("config", "console")) = <<"console">>
  BY <1>1, <1>2 DEF Enter
<1>4. /\ Len(<<>>) = 0 /\ Len(<<"console">>) = 1
      /\ Len(<<"console">>) - (IF InEntry(<<"console">>) THEN 2 ELSE 1) < 1
      /\ Len(<<"console">>) - (IF InEntry(<<"console">>) THEN 2 ELSE 1) \in Int
      /\ Len(<<>>) - (IF InEntry(<<>>) THEN 2 ELSE 1) < 1
      /\ Len(<<>>) - (IF InEntry(<<>>) THEN 2 ELSE 1) \in Int
  OBVIOUS
<1>5. /\ Enter(<<"console">>, Cmd("end", "console")) = <<>>
      /\ Enter(<<>>, Cmd("end", "console")) = <<>>
  <2>1. ASSUME NEW s, NEW n \in Int, n < 1, n = Len(s) - (IF InEntry(s) THEN 2 ELSE 1)
        PROVE  Enter(s, Cmd("end", "console")) = <<>>
    <3>1. Enter(s, Cmd("end", "console")) = SubSeq(s, 1, n)
      BY <1>1, <2>1 DEF Enter
    <3>. QED
      BY <2>1, <3>1, SubSeqEmpty
  <2>. QED
    BY <1>4, <2>1
<1>6. InEntry(<<>>)
  BY <1>4 DEF InEntry
<1>. QED
  BY <1>1, <1>3, <1>5, <1>6 DEF Knows

LEMMA LastingCommand ==
    ASSUME NEW c, ~MayChangeContext(c), NEW s
    PROVE  Enter(s, c) = s
  BY DEF MayChangeContext, Enter

LEMMA ScopedOne ==
    ASSUME NEW c, ~MayChangeContext(c), c.op # "set"
    PROVE  /\ ScopedBlock(<<c>>) /\ AnsweredByPrompts(<<c>>) /\ Len(<<c>>) = 1
<1>1. Len(<<c>>) = 1 /\ <<c>>[1] = c
  OBVIOUS
<1>. DEFINE b == <<c>>
<1>. HIDE DEF b
<1>2. Intended(b, 1 + 1) = <<>>
  BY <1>1, IntendedScopes, LastingCommand DEF b
<1>3. \A s : Knows(s, c)
  BY DEF Knows, MayChangeContext
<1>. QED
  BY <1>1, <1>2, <1>3 DEF ScopedBlock, AnsweredByPrompts, b

LEMMA ScopedNothing == ScopedBlock(<<>>) /\ AnsweredByPrompts(<<>>) /\ Len(<<>>) = 0
<1>1. Len(<<>>) = 0
  OBVIOUS
<1>. QED
  BY <1>1, IntendedScopes DEF ScopedBlock, AnsweredByPrompts

LEMMA ScopedSetStandard == ScopedBlock(SetStandard) /\ AnsweredByPrompts(SetStandard)
<1>. DEFINE b == SetStandard
<1>1. /\ Len(b) = 3 /\ b[1] = Cmd("config", "console") /\ b[2] = Cmd("set", "standard")
      /\ b[3] = Cmd("end", "console")
  BY ConsoleBlocks
<1>. HIDE DEF b
<1>2. ~MayChangeContext(Cmd("set", "standard"))
  BY DEF MayChangeContext, Cmd
<1>3. Intended(b, 1) = <<>> /\ Intended(b, 1 + 1) = <<"console">>
  BY <1>1, ConsoleScope, IntendedScopes
<1>4. Intended(b, 2 + 1) = <<"console">>
  BY <1>1, <1>2, <1>3, IntendedScopes, LastingCommand
<1>5. Intended(b, 3 + 1) = <<>>
  BY <1>1, <1>4, ConsoleScope, IntendedScopes
<1>6. \A i \in 1..3 : Knows(Intended(b, i), b[i])
  <2>1. \A i \in 1..3 : i = 1 \/ i = 2 \/ i = 3
    OBVIOUS
  <2>2. Knows(<<"console">>, Cmd("set", "standard"))
    BY BlocksAssumption DEF Knows, Cmd
  <2>. QED
    BY <1>1, <1>3, <1>4, <2>1, <2>2, ConsoleScope
<1>7. \A i \in 1..3 : b[i].at = {"prompt"}
  <2>1. \A o, a : Cmd(o, a).at = {"prompt"}
    BY DEF Cmd
  <2>2. \A i \in 1..3 : i = 1 \/ i = 2 \/ i = 3
    OBVIOUS
  <2>. QED
    BY <1>1, <2>1, <2>2
<1>. QED
  BY <1>1, <1>5, <1>6, <1>7 DEF ScopedBlock, AnsweredByPrompts, b

LEMMA FeatureBlocks ==
    ASSUME NEW f \in ToSet(Queue), f # DiskFormat
    PROVE  /\ Blocks[f] \in Seq(Seq(Written))
           /\ \A i \in 1..Len(Blocks[f]) : ScopedBlock(Blocks[f][i])
<1>1. Blocks[f] \in Seq(Seq(Written))
  BY FosAssumption
<1>2. \A i \in 1..Len(Blocks[f]) : Blocks[f][i] \in ToSet(Blocks[f])
  BY <1>1, LenProperties DEF ToSet
<1>. QED
  BY <1>1, <1>2, BlocksAssumption

LEMMA WrittenBlocks ==
    ASSUME NEW b \in Seq(Written)
    PROVE  AnsweredByPrompts(b)
<1>1. \A i \in 1..Len(b) : b[i].at = {"prompt"}
  BY FosAssumption, ElementOfSeq
<1>. QED
  BY <1>1 DEF AnsweredByPrompts

(***************************************************************************)
(* The operators that type nothing leave the commander at the top level.   *)
(***************************************************************************)

LEMMA NoAttemptIsIdle == NoAttempt.index = 0
  BY DEF NoAttempt

LEMMA WholeBlock ==
    ASSUME NEW b, Len(b) \in Nat
    PROVE  RestOf(b, b) /\ RestOf(<<>>, b)
<1>1. Len(<<>>) = 0
  OBVIOUS
<1>2. RestOf(<<>>, b)
  BY <1>1 DEF RestOf
<1>. DEFINE n == Len(b)
<1>3. n \in Nat
  OBVIOUS
<1>. HIDE DEF n
<1>4. \A i \in 1..n : n - n + i = i
  BY <1>3
<1>. QED
  BY <1>2, <1>4 DEF RestOf, n

LEMMA BetweenBlocks ==
    ASSUME NEW k, AtTop(k), k.active # NoFeature
    PROVE  Between(k)
  BY DEF AtTop, Rest, Resting, Plan, Between

LEMMA SubmitBlockTop ==
    ASSUME NEW k, Good(k), Between(k), NEW b, IsBlock(b), ScopedBlock(b), AnsweredByPrompts(b),
           k.active = DiskFormat => Len(b) <= 1
    PROVE  AtTop(SubmitBlock(k, b))
<1>. DEFINE d == SubmitBlock(k, b)
<1>1. /\ d.errors = k.errors /\ d.error = k.error /\ d.raised = k.raised
      /\ d.blocks = k.blocks /\ d.cmds = b /\ d.pending = b /\ d.cleanup = k.cleanup
      /\ d.active = k.active /\ d.blockCtx = k.ctx /\ d.inflight = k.inflight
      /\ d.inCleanup = k.inCleanup /\ d.inReset = k.inReset /\ d.target = NoContext
      /\ d.ctx = k.ctx /\ d.std = k.std
  BY DEF SubmitBlock, Good, Fields
<1>. HIDE DEF d
<1>2. RestOf(b, b)
  BY WholeBlock, LenProperties DEF IsBlock
<1>3. Len(<<>>) = 0
  OBVIOUS
<1>4. Plan(d)
  BY <1>1, <1>2, <1>3 DEF Plan, Between, Restoring, Paging
<1>. QED
  BY <1>1, <1>4 DEF AtTop, Rest, Resting, Between, Calm, Idle, d

LEMMA SubmitListTop ==
    ASSUME NEW k, Good(k), Between(k)
    PROVE  AtTop(SubmitList(k))
<1>. DEFINE s == [k EXCEPT !.stage = "list"]
            c == Cmd("query", "disks")
<1>1. DOMAIN s = Fields /\ Parts(s) = Parts(k) /\ ScopeParts(s) = ScopeParts(k)
  BY DEF Good, Fields, Parts, ScopeParts
<1>2. SubmitList(k) = SubmitBlock(s, <<c>>)
  BY DEF SubmitList
<1>3. ~MayChangeContext(c) /\ c.op # "set" /\ c \in Cmds
  BY CommandsKinds DEF MayChangeContext, Cmd
<1>. HIDE DEF s, c
<1>4. Good(s) /\ Between(s)
  BY <1>1, GoodByParts, SameScope
<1>5. IsBlock(<<c>>) /\ ScopedBlock(<<c>>) /\ AnsweredByPrompts(<<c>>) /\ Len(<<c>>) <= 1
  BY <1>3, BlocksOfCommands, ScopedOne
<1>. QED
  BY <1>2, <1>4, <1>5, SubmitBlockTop

LEMMA ActivateNextFeatureTop ==
    ASSUME NEW k, Good(k), AtTop(k), k.cleanup = <<>>
    PROVE  AtTop(ActivateNextFeature(k))
<1>1. CASE k.ready \/ k.active # NoFeature \/ k.recovering
  BY <1>1 DEF ActivateNextFeature
<1>2. CASE ~(k.ready \/ k.active # NoFeature \/ k.recovering) /\ k.queue = <<>>
  <2>. DEFINE r == [k EXCEPT !.ready = TRUE]
  <2>1. ScopeParts(r) = ScopeParts(k)
    BY DEF Good, Fields, ScopeParts
  <2>2. ActivateNextFeature(k) \in {k, r}
    BY <1>2 DEF ActivateNextFeature
  <2>. HIDE DEF r
  <2>. QED
    BY <2>1, <2>2, SameScope
<1>3. CASE ~(k.ready \/ k.active # NoFeature \/ k.recovering) /\ k.queue # <<>>
  <2>. DEFINE f == Head(k.queue)
              a == [k EXCEPT !.active = f, !.queue = Tail(k.queue)]
              d == [a EXCEPT !.left = Disks, !.disk = 2]
              p == [a EXCEPT !.std = "inspect", !.blocks = Blocks[f]]
              b == [a EXCEPT !.blocks = Tail(Blocks[f])]
  <2>1. ActivateNextFeature(k) =
            IF f = DiskFormat THEN SubmitList(d)
            ELSE IF f \in Paged THEN SubmitBlock(p, <<Inspect>>)
            ELSE SubmitBlock(b, Head(Blocks[f]))
    BY <1>3 DEF ActivateNextFeature
  <2>2. Good(a) /\ a.active \in ToSet(Queue) /\ a.active = f
    <3>1. Good(a) /\ Silent(k, a) /\ a.active \in ToSet(Queue)
      BY <1>3, TakeFeature DEF AtTop, Rest, Resting
    <3>2. a.active = f
      BY DEF Good, Fields
    <3>. QED
      BY <3>1, <3>2
  <2>3. f # NoFeature
    BY <2>2, FosAssumption
  <2>4. /\ a.errors = k.errors /\ a.error = k.error /\ a.raised = k.raised
        /\ a.blocks = k.blocks /\ a.cleanup = k.cleanup /\ a.inflight = k.inflight
        /\ a.inCleanup = k.inCleanup /\ a.inReset = k.inReset /\ a.ctx = k.ctx
        /\ a.std = k.std
    BY DEF Good, Fields
  <2>. HIDE DEF a, f
  <2>5. Between(a)
    BY <1>3, <2>2, <2>3, <2>4 DEF AtTop, Rest, Resting, Plan, Between, Calm, Idle, Paging
  <2>6. CASE f = DiskFormat
    <3>1. /\ DOMAIN d = Fields
          /\ d.queue = a.queue /\ d.active = a.active /\ d.completed = a.completed
          /\ d.blocks = a.blocks /\ d.cmds = a.cmds /\ d.pending = a.pending
          /\ d.cleanup = a.cleanup /\ d.retried = a.retried /\ d.disk = 2
          /\ d.inflight = a.inflight /\ d.inCleanup = a.inCleanup /\ d.inReset = a.inReset
          /\ ScopeParts(d) = ScopeParts(a)
      BY <2>2 DEF Good, Fields, ScopeParts
    <3>. HIDE DEF d
    <3>2. Good(d)
      <4>1. Typing(d)
        BY <2>2, <3>1 DEF Good, Typing, Idle
      <4>2. Queueing(d) /\ Working(d)
        BY <2>2, <3>1 DEF Good, Queueing, Working, Idle
      <4>. QED
        BY <3>1, <4>1, <4>2 DEF Good
    <3>3. Between(d)
      BY <2>5, <3>1, SameScope
    <3>. QED
      BY <2>1, <2>6, <3>2, <3>3, SubmitListTop
  <2>7. CASE f # DiskFormat
    <3>1. /\ Blocks[f] \in Seq(Seq(Written)) /\ (f \notin Paged => Blocks[f] # <<>>)
          /\ \A i \in 1..Len(Blocks[f]) : ScopedBlock(Blocks[f][i])
      BY <2>2, <2>7, FosAssumption, FeatureBlocks
    <3>2. CASE f \in Paged
      <4>1. /\ DOMAIN p = Fields
            /\ p.queue = a.queue /\ p.active = a.active /\ p.completed = a.completed
            /\ p.blocks = Blocks[f] /\ p.cmds = a.cmds /\ p.pending = a.pending
            /\ p.cleanup = a.cleanup /\ p.retried = a.retried /\ p.disk = a.disk
            /\ p.inflight = a.inflight /\ p.inCleanup = a.inCleanup /\ p.inReset = a.inReset
            /\ p.errors = a.errors /\ p.error = a.error /\ p.raised = a.raised /\ p.ctx = a.ctx
            /\ p.std = "inspect"
        BY <2>2 DEF Good, Fields
      <4>. HIDE DEF p
      <4>2. Good(p)
        <5>1. Typing(p)
          BY <2>2, <3>1, <4>1 DEF Good, Typing, Idle
        <5>2. Queueing(p) /\ Working(p)
          BY <2>2, <4>1 DEF Good, Queueing, Working, Idle
        <5>. QED
          BY <4>1, <5>1, <5>2 DEF Good
      <4>3. Between(p)
        BY <2>2, <2>3, <2>5, <2>7, <3>1, <4>1 DEF Between, Calm, Idle, Paging
      <4>4. ~MayChangeContext(Inspect) /\ Inspect.op # "set"
        BY DEF MayChangeContext, Inspect, Cmd
      <4>5. /\ IsBlock(<<Inspect>>) /\ ScopedBlock(<<Inspect>>)
            /\ AnsweredByPrompts(<<Inspect>>) /\ Len(<<Inspect>>) <= 1
        BY <4>4, BlocksOfCommands, ScopedOne
      <4>6. AtTop(SubmitBlock(p, <<Inspect>>))
        BY <4>2, <4>3, <4>5, SubmitBlockTop
      <4>. QED
        BY <2>1, <2>7, <3>2, <4>6
    <3>3. CASE f \notin Paged
      <4>1. /\ Tail(Blocks[f]) \in Seq(Seq(Written)) /\ Head(Blocks[f]) \in Seq(Written)
            /\ Head(Blocks[f]) = Blocks[f][1] /\ Len(Blocks[f]) \in Nat \ {0}
            /\ Len(Tail(Blocks[f])) = Len(Blocks[f]) - 1
            /\ \A i \in 1..(Len(Blocks[f]) - 1) : Tail(Blocks[f])[i] = Blocks[f][i + 1]
        BY <3>1, <3>3, HeadTailProperties, EmptySeq, LenProperties
      <4>2. /\ ScopedBlock(Head(Blocks[f]))
            /\ \A i \in 1..Len(Tail(Blocks[f])) : ScopedBlock(Tail(Blocks[f])[i])
        <5>. DEFINE n == Len(Blocks[f])
        <5>1. n \in Nat \ {0} /\ \A i \in 1..n : ScopedBlock(Blocks[f][i])
          BY <3>1, <4>1
        <5>. HIDE DEF n
        <5>2. 1 \in 1..n /\ \A i \in 1..(n - 1) : i + 1 \in 1..n
          BY <5>1
        <5>. QED
          BY <4>1, <5>1, <5>2 DEF n
      <4>3. /\ DOMAIN b = Fields
            /\ b.queue = a.queue /\ b.active = a.active /\ b.completed = a.completed
            /\ b.blocks = Tail(Blocks[f]) /\ b.cmds = a.cmds /\ b.pending = a.pending
            /\ b.cleanup = a.cleanup /\ b.retried = a.retried /\ b.disk = a.disk
            /\ b.inflight = a.inflight /\ b.inCleanup = a.inCleanup /\ b.inReset = a.inReset
            /\ b.errors = a.errors /\ b.error = a.error /\ b.raised = a.raised /\ b.ctx = a.ctx
            /\ b.std = a.std
        BY <2>2 DEF Good, Fields
      <4>. HIDE DEF b
      <4>4. Good(b)
        <5>1. Typing(b)
          BY <2>2, <4>1, <4>3 DEF Good, Typing, Idle
        <5>2. Queueing(b) /\ Working(b)
          BY <2>2, <4>3 DEF Good, Queueing, Working, Idle
        <5>. QED
          BY <4>3, <5>1, <5>2 DEF Good
      <4>5. Between(b)
        BY <2>5, <4>2, <4>3 DEF Between, Calm, Idle, Paging
      <4>6. IsBlock(Head(Blocks[f])) /\ AnsweredByPrompts(Head(Blocks[f]))
        BY <4>1, BlocksOfCommands, WrittenBlocks
      <4>7. AtTop(SubmitBlock(b, Head(Blocks[f])))
        BY <2>2, <2>7, <4>2, <4>3, <4>4, <4>5, <4>6, SubmitBlockTop
      <4>. QED
        BY <2>1, <2>7, <3>3, <4>7
    <3>. QED
      BY <3>2, <3>3
  <2>. QED
    BY <2>6, <2>7
<1>. QED
  BY <1>1, <1>2, <1>3
LEMMA RestoringAll ==
    LET w == <<>> \o [i \in 1..3 |-> [cmd |-> SetMore[i], again |-> FALSE]]
    IN  Restoring(w) /\ Restoring(<<>>)
<1>. DEFINE v == [i \in 1..3 |-> [cmd |-> SetMore[i], again |-> FALSE]]
            w == <<>> \o v
<1>1. v \in Seq(CleanupWork) /\ Len(v) = 3 /\ \A i \in 1..3 : v[i].cmd = SetMore[i]
  BY RestoringWork
<1>. HIDE DEF v
<1>2. w = v
  BY <1>1, ConcatEmptySeq
<1>. HIDE DEF w
<1>3. \A i \in 1..3 : 3 - 3 + i = i
  OBVIOUS
<1>4. Restoring(v)
  BY <1>1, <1>3 DEF Restoring
<1>5. Restoring(<<>>)
  <2>1. Len(<<>>) = 0
    OBVIOUS
  <2>. QED
    BY <2>1 DEF Restoring
<1>. QED
  BY <1>2, <1>4, <1>5 DEF w, v

LEMMA FeatureCompleteTop ==
    ASSUME NEW k, Good(k), AtTop(k), k.active # NoFeature, k.pending = <<>>
    PROVE  AtTop(FeatureComplete(k))
<1>. DEFINE s == FinishStandardOutput(k)
            d == [s EXCEPT !.completed = @ \cup {k.active}, !.active = NoFeature, !.cmds = <<>>]
<1>1. FeatureComplete(k) = IF d.cleanup = <<>> THEN ActivateNextFeature(d) ELSE d
  BY DEF FeatureComplete
<1>2. Good(d)
  BY CompletedGood DEF AtTop, Rest, Resting
<1>3. /\ DOMAIN s = Fields
      /\ s.errors = k.errors /\ s.error = k.error /\ s.raised = k.raised /\ s.blocks = k.blocks
      /\ s.pending = k.pending /\ s.inflight = k.inflight
      /\ s.inCleanup = k.inCleanup /\ s.inReset = k.inReset /\ s.target = k.target
      /\ s.ctx = k.ctx /\ s.std = "none"
      /\ s.cleanup \in
             {k.cleanup, k.cleanup \o [i \in 1..3 |-> [cmd |-> SetMore[i], again |-> FALSE]]}
  BY DEF FinishStandardOutput, Good, Fields
<1>. HIDE DEF s
<1>4. /\ d.errors = s.errors /\ d.error = s.error /\ d.raised = s.raised /\ d.blocks = s.blocks
      /\ d.pending = s.pending /\ d.inflight = s.inflight
      /\ d.inCleanup = s.inCleanup /\ d.inReset = s.inReset /\ d.target = s.target
      /\ d.ctx = s.ctx /\ d.cleanup = s.cleanup /\ d.active = NoFeature /\ d.cmds = <<>>
      /\ d.std = s.std
  BY <1>3 DEF Fields
<1>. HIDE DEF d
<1>5. k.cleanup = <<>>
  BY DEF AtTop, Rest, Resting, Plan
<1>6. Restoring(d.cleanup)
  BY <1>3, <1>4, <1>5, RestoringAll
<1>7. RestOf(<<>>, <<>>)
  <2>1. Len(<<>>) \in Nat
    OBVIOUS
  <2>. QED
    BY <2>1, WholeBlock
<1>8. Plan(d)
  BY <1>3, <1>4, <1>6, <1>7, ScopedNothing DEF AtTop, Rest, Resting, Plan, Paging
<1>9. AtTop(d)
  BY <1>3, <1>4, <1>8 DEF AtTop, Rest, Resting, Calm, Idle
<1>. QED
  BY <1>1, <1>2, <1>9, ActivateNextFeatureTop

LEMMA SubmitNextTop ==
    ASSUME NEW k, Good(k), AtTop(k), k.active # NoFeature, k.active # DiskFormat,
           k.pending = <<>>
    PROVE  AtTop(SubmitNext(k))
<1>1. CASE k.blocks = <<>>
  BY <1>1, FeatureCompleteTop DEF SubmitNext
<1>2. CASE k.blocks # <<>>
  <2>. DEFINE b == [k EXCEPT !.blocks = Tail(@)]
  <2>1. /\ Tail(k.blocks) \in Seq(Seq(Written)) /\ Head(k.blocks) \in Seq(Written)
        /\ Head(k.blocks) = k.blocks[1] /\ Len(k.blocks) \in Nat \ {0}
        /\ Len(Tail(k.blocks)) = Len(k.blocks) - 1
        /\ \A i \in 1..(Len(k.blocks) - 1) : Tail(k.blocks)[i] = k.blocks[i + 1]
    BY <1>2, HeadTailProperties, EmptySeq, LenProperties DEF Good, Typing
  <2>2. /\ ScopedBlock(Head(k.blocks))
        /\ \A i \in 1..Len(Tail(k.blocks)) : ScopedBlock(Tail(k.blocks)[i])
    <3>. DEFINE n == Len(k.blocks)
    <3>1. n \in Nat \ {0} /\ \A i \in 1..n : ScopedBlock(k.blocks[i])
      BY <2>1 DEF AtTop, Rest, Resting, Plan
    <3>. HIDE DEF n
    <3>2. 1 \in 1..n /\ \A i \in 1..(n - 1) : i + 1 \in 1..n
      BY <3>1
    <3>. QED
      BY <2>1, <3>1, <3>2 DEF n
  <2>3. /\ DOMAIN b = Fields
        /\ b.queue = k.queue /\ b.active = k.active /\ b.completed = k.completed
        /\ b.blocks = Tail(k.blocks) /\ b.cmds = k.cmds /\ b.pending = k.pending
        /\ b.cleanup = k.cleanup /\ b.retried = k.retried /\ b.disk = k.disk
        /\ b.inflight = k.inflight /\ b.inCleanup = k.inCleanup /\ b.inReset = k.inReset
        /\ b.errors = k.errors /\ b.error = k.error /\ b.raised = k.raised /\ b.ctx = k.ctx
        /\ b.std = k.std
    BY DEF Good, Fields
  <2>4. SubmitNext(k) = SubmitBlock(b, Head(k.blocks))
    BY <1>2 DEF SubmitNext
  <2>. HIDE DEF b
  <2>5. Good(b)
    <3>1. Typing(b)
      BY <2>1, <2>3 DEF Good, Typing, Idle
    <3>2. Queueing(b) /\ Working(b)
      BY <2>3 DEF Good, Queueing, Working, Idle
    <3>. QED
      BY <2>3, <3>1, <3>2 DEF Good
  <2>6. Between(b)
    BY <2>2, <2>3, BetweenBlocks DEF Between, Calm, Idle, Paging
  <2>7. IsBlock(Head(k.blocks)) /\ AnsweredByPrompts(Head(k.blocks))
    BY <2>1, BlocksOfCommands, WrittenBlocks
  <2>8. AtTop(SubmitBlock(b, Head(k.blocks)))
    BY <2>2, <2>3, <2>5, <2>6, <2>7, SubmitBlockTop
  <2>. QED
    BY <2>4, <2>8
<1>. QED
  BY <1>1, <1>2

LEMMA OnBlockCompleteTop ==
    ASSUME NEW k, Good(k), AtTop(k), k.active # NoFeature, k.pending = <<>>
    PROVE  AtTop(OnBlockComplete(k))
<1>1. CASE k.active # DiskFormat
  BY <1>1, SubmitNextTop DEF OnBlockComplete
<1>2. CASE k.active = DiskFormat /\ k.stage = "restart-list"
  BY <1>2, BetweenBlocks, SubmitListTop DEF OnBlockComplete
<1>3. CASE k.active = DiskFormat /\ k.stage = "reboot"
  <2>. DEFINE d == [k EXCEPT !.left = @ - 1, !.disk = @ + 1]
  <2>1. Good(d) /\ d.active = k.active /\ d.pending = k.pending
    BY NextDiskGood
  <2>2. OnBlockComplete(k) = IF d.left = 0 THEN FeatureComplete(d) ELSE SubmitList(d)
    BY <1>3 DEF OnBlockComplete
  <2>3. ScopeParts(d) = ScopeParts(k)
    BY DEF Good, Fields, ScopeParts
  <2>. HIDE DEF d
  <2>4. AtTop(d)
    BY <2>3, SameScope
  <2>5. AtTop(FeatureComplete(d))
    BY <2>1, <2>4, FeatureCompleteTop
  <2>6. AtTop(SubmitList(d))
    BY <2>1, <2>4, BetweenBlocks, SubmitListTop
  <2>. QED
    BY <2>2, <2>5, <2>6
<1>4. CASE k.active = DiskFormat /\ k.stage \notin {"restart-list", "reboot"}
  BY <1>4 DEF OnBlockComplete
<1>. QED
  BY <1>1, <1>2, <1>3, <1>4

LEMMA CompleteStandardOutputTop ==
    ASSUME NEW k, Good(k), AtTop(k), k.active # NoFeature, k.active # DiskFormat,
           k.pending = <<>>, NEW attempt, NEW e
    PROVE  AtTop(CompleteStandardOutput(k, attempt, e))
<1>. DEFINE s == [k EXCEPT !.std = "set-standard"]
            a == [k EXCEPT !.std = "active", !.restore = attempt.cmd # Inspect]
<1>1. CompleteStandardOutput(k, attempt, e) \in {SubmitBlock(s, SetStandard), SubmitNext(a)}
  BY DEF CompleteStandardOutput
<1>2. /\ DOMAIN s = Fields /\ Parts(s) = Parts(k)
      /\ DOMAIN a = Fields /\ Parts(a) = Parts(k)
      /\ a.active = k.active /\ a.pending = k.pending /\ s.active = k.active
  BY DEF Good, Fields, Parts
<1>3. Good(s) /\ AtTop(s) /\ Good(a) /\ AtTop(a)
  <2>1. ASSUME NEW d, d = s \/ d = a PROVE AtTop(d)
    <3>1. /\ d.errors = k.errors /\ d.error = k.error /\ d.raised = k.raised
          /\ d.blocks = k.blocks /\ d.cmds = k.cmds /\ d.pending = k.pending
          /\ d.cleanup = k.cleanup /\ d.active = k.active /\ d.blockCtx = k.blockCtx
          /\ d.inflight = k.inflight /\ d.inCleanup = k.inCleanup /\ d.inReset = k.inReset
          /\ d.target = k.target /\ d.ctx = k.ctx
      <4>1. CASE d = s
        BY <4>1 DEF Good, Fields
      <4>2. CASE d = a
        BY <4>2 DEF Good, Fields
      <4>. HIDE DEF s, a
      <4>. QED
        BY <2>1, <4>1, <4>2
    <3>. HIDE DEF s, a
    <3>2. Plan(d)
      BY <3>1 DEF AtTop, Rest, Resting, Plan, Paging
    <3>. QED
      BY <3>1, <3>2 DEF AtTop, Rest, Resting, Replay, Calm, Idle
  <2>. HIDE DEF s, a
  <2>. QED
    BY <1>2, <2>1, GoodByParts
<1>. HIDE DEF s, a
<1>4. AtTop(SubmitBlock(s, SetStandard))
  <2>1. IsBlock(SetStandard) /\ ScopedBlock(SetStandard) /\ AnsweredByPrompts(SetStandard)
    BY BlocksOfCommands, ScopedSetStandard
  <2>. QED
    BY <1>2, <1>3, <2>1, BetweenBlocks, SubmitBlockTop
<1>5. AtTop(SubmitNext(a))
  BY <1>2, <1>3, SubmitNextTop
<1>. QED
  BY <1>1, <1>4, <1>5

LEMMA OnCommandExecutedTop ==
    ASSUME NEW k, Good(k), NEW e
    PROVE  LET x == OnCommandExecuted(k, e)
           IN  /\ k.active # DiskFormat => x \in {k, WorkError(k)}
               /\ AtTop(k) /\ k.active # NoFeature => x = WorkError(k) \/ AtTop(x)
<1>. DEFINE x == OnCommandExecuted(k, e)
            f == [k EXCEPT !.stage = "format"]
            r == [k EXCEPT !.stage = "reboot"]
<1>1. k.active # DiskFormat => x \in {k, WorkError(k)}
  BY DEF OnCommandExecuted
<1>2. \/ x \in {k, WorkError(k)}
      \/ x = SubmitBlock(f, <<FormatSpec(k.disk)>>)
      \/ x = SubmitBlock(r, <<YesSpec(k.disk)>>)
  BY DEF OnCommandExecuted, FormatSpec, YesSpec
<1>3. /\ DOMAIN f = Fields /\ Parts(f) = Parts(k) /\ ScopeParts(f) = ScopeParts(k)
      /\ DOMAIN r = Fields /\ Parts(r) = Parts(k) /\ ScopeParts(r) = ScopeParts(k)
      /\ f.active = k.active /\ r.active = k.active
  BY DEF Good, Fields, Parts, ScopeParts
<1>. HIDE DEF x, f, r
<1>4. ASSUME AtTop(k), k.active # NoFeature
      PROVE  x = WorkError(k) \/ AtTop(x)
  <2>1. Good(f) /\ Between(f) /\ Good(r) /\ Between(r)
    BY <1>3, <1>4, BetweenBlocks, GoodByParts, SameScope
  <2>2. k.disk \in Nat
    BY DEF Good, Typing
  <2>3. /\ ~MayChangeContext(FormatSpec(k.disk)) /\ ~MayChangeContext(YesSpec(k.disk))
        /\ FormatSpec(k.disk).op # "set" /\ YesSpec(k.disk).op # "set"
    BY DEF FormatSpec, YesSpec, MayChangeContext, Cmd
  <2>4. ASSUME NEW c \in {FormatSpec(k.disk), YesSpec(k.disk)}
        PROVE  /\ IsBlock(<<c>>) /\ ScopedBlock(<<c>>)
               /\ AnsweredByPrompts(<<c>>) /\ Len(<<c>>) <= 1
    <3>1. c \in Cmds /\ ~MayChangeContext(c) /\ c.op # "set"
      BY <2>2, <2>3, CommandsKinds
    <3>. QED
      BY <3>1, BlocksOfCommands, ScopedOne
  <2>5. /\ AtTop(SubmitBlock(f, <<FormatSpec(k.disk)>>))
        /\ AtTop(SubmitBlock(r, <<YesSpec(k.disk)>>))
    BY <2>1, <2>4, SubmitBlockTop
  <2>. QED
    BY <1>2, <1>4, <2>5
<1>. QED
  BY <1>1, <1>4 DEF x

(***************************************************************************)
(* The operators that type leave it at the top level, or in the scope of   *)
(* the command they typed; or the work was given up.                       *)
(***************************************************************************)

LEMMA ScopeNotUnknown ==
    ASSUME NEW s \in Seq(Args)
    PROVE  s # NoContext
<1>. SUFFICES ASSUME s = NoContext PROVE FALSE
  OBVIOUS
<1>1. Len(NoContext) = 1 /\ NoContext[1] = "?" /\ NoContext = <<"?">>
  BY DEF NoContext
<1>2. "?" \in Args
  BY <1>1, ElementOfSeq
<1>3. PICK c \in Cmds : c.op \in {"config", "edit"} /\ c.arg = "?"
  BY <1>2 DEF Args
<1>4. c \notin Written
  BY <1>1, <1>3, BlocksAssumption
<1>5. c \notin Own
  <2>1. \A o, a : Cmd(o, a).op = o /\ Cmd(o, a).arg = a
    BY DEF Cmd
  <2>2. \A o, a : o \notin {"config", "edit"} \/ a # "?" => c # Cmd(o, a)
    BY <1>3, <2>1
  <2>3. /\ c # Cmd("query", "console") /\ c # Cmd("query", "disks") /\ c # Cmd("abort", "")
        /\ c # Cmd("config", "console") /\ c # Cmd("set", "standard")
        /\ c # Cmd("set", "more") /\ c # Cmd("end", "console")
    BY <2>2
  <2>. QED
    BY <2>3, Zenon DEF Own, Inspect
<1>6. \A d \in Nat : c # FormatSpec(d) /\ c # YesSpec(d)
  BY <1>3 DEF FormatSpec, YesSpec, Cmd
<1>. QED
  BY <1>4, <1>5, <1>6 DEF Cmds

LEMMA TopNotUnknown == NoContext # <<>>
<1>1. Len(NoContext) = 1 /\ Len(<<>>) = 0
  BY DEF NoContext
<1>2. 1 # 0
  OBVIOUS
<1>. QED
  BY <1>1, <1>2, Zenon

LEMMA WorkErrorGivesUp ==
    ASSUME NEW k, Good(k)
    PROVE  /\ WorkError(k).error \/ WorkError(k).raised
           /\ Idle(k) => GaveUp(WorkError(k))
<1>1. /\ WorkError(k).error \/ WorkError(k).raised
      /\ WorkError(k).inflight = k.inflight
  BY DEF WorkError, Raise, Good, Fields
<1>. QED
  BY <1>1 DEF GaveUp, Idle

LEMMA RecoverGivesUp ==
    ASSUME NEW k, Good(k), k.out = <<>>, GaveUp(k), NEW b
    PROVE  GaveUp(Recover(k, b))
<1>1. AtMostOne(k, Recover(k, b)) /\ (Recover(k, b) = k \/ Recover(k, b).errors # {})
  BY RecoverGood
<1>. QED
  BY <1>1 DEF GaveUp

LEMMA DispatchNextGivesUp ==
    ASSUME NEW k, Good(k), k.out = <<>>, GaveUp(k)
    PROVE  GaveUp(DispatchNext(k))
<1>1. AtMostOne(k, DispatchNext(k))
  BY DispatchNextGood
<1>2. CASE k.errors # {}
  BY <1>1, <1>2 DEF GaveUp, AtMostOne, Keeps
<1>3. CASE k.error \/ k.raised
  BY <1>3 DEF DispatchNext
<1>. QED
  BY <1>2, <1>3 DEF GaveUp

LEMMA AtTopReady ==
    ASSUME NEW k, Good(k), AtTop(k), ~k.recovering, k.authenticated
    PROVE  Ready(k)
<1>1. /\ Resting(k) /\ k.ctx = <<>> /\ k.target = NoContext /\ k.pending \in {<<>>, k.cmds}
      /\ ScopedBlock(k.cmds) /\ k.ctx # NoContext
  BY TopNotUnknown DEF AtTop, Rest, Resting, Plan
<1>2. Len(k.cmds) \in Nat /\ Len(<<>>) = 0
  BY LenProperties DEF Good, Typing, IsBlock
<1>3. k.pending = k.cmds => Len(k.cmds) - Len(k.pending) + 1 = 1
  BY <1>2
<1>4. k.pending = <<>> => Len(k.cmds) - Len(k.pending) + 1 = Len(k.cmds) + 1
  BY <1>2
<1>5. k.ctx = Intended(k.cmds, Len(k.cmds) - Len(k.pending) + 1)
  BY <1>1, <1>3, <1>4, IntendedScopes DEF ScopedBlock
<1>6. CleanupScope(k.ctx, Len(k.cleanup))
  BY <1>1 DEF CleanupScope
<1>. QED
  BY <1>1, <1>5, <1>6 DEF Ready

LEMMA ReadyAtTop ==
    ASSUME NEW k, Good(k), Ready(k), k.target = NoContext,
           IF k.active = NoFeature THEN k.cleanup = <<>> ELSE k.pending = <<>>
    PROVE  AtTop(k)
<1>1. k.target # <<>>
  BY TopNotUnknown
<1>2. Resting(k) /\ Plan(k)
  BY DEF Ready, Resting
<1>3. k.ctx = <<>>
  <2>1. CASE k.active = NoFeature
    <3>1. Len(k.cleanup) = 0
      BY <2>1
    <3>2. CleanupScope(k.ctx, 0)
      BY <1>1, <2>1, <3>1 DEF Ready
    <3>. QED
      BY <3>2 DEF CleanupScope
  <2>2. CASE k.active # NoFeature
    <3>1. Len(k.cmds) \in Nat /\ Len(k.pending) = 0
      BY <2>2, LenProperties DEF Good, Typing, IsBlock
    <3>2. k.ctx = Intended(k.cmds, Len(k.cmds) - Len(k.pending) + 1)
      BY <1>1, <2>2 DEF Ready
    <3>3. Len(k.cmds) - Len(k.pending) + 1 = Len(k.cmds) + 1
      BY <3>1
    <3>. QED
      BY <1>2, <3>2, <3>3 DEF Plan, ScopedBlock
  <2>. QED
    BY <2>1, <2>2
<1>4. k.pending = <<>>
  BY <1>2 DEF Plan
<1>. QED
  BY <1>2, <1>3, <1>4 DEF AtTop, Rest

LEMMA RestOfTail ==
    ASSUME NEW p, IsBlock(p), p # <<>>, NEW b, Len(b) \in Nat, RestOf(p, b)
    PROVE  RestOf(Tail(p), b) /\ Head(p) = b[Len(b) - Len(p) + 1]
<1>. DEFINE n == Len(p)
            m == Len(b)
            t == Tail(p)
<1>1. /\ n \in Nat \ {0} /\ Len(t) = n - 1 /\ \A i \in 1..(n - 1) : t[i] = p[i + 1]
      /\ Head(p) = p[1] /\ m \in Nat
  BY HeadTailProperties, EmptySeq, LenProperties DEF IsBlock
<1>2. \A i \in 1..n : p[i] = b[m - n + i]
  BY DEF RestOf
<1>. HIDE DEF n, m, t
<1>3. 1 \in 1..n /\ \A i \in 1..(n - 1) : i + 1 \in 1..n /\ m - n + (i + 1) = m - (n - 1) + i
  BY <1>1
<1>4. \A i \in 1..(n - 1) : t[i] = b[m - (n - 1) + i]
  BY <1>1, <1>2, <1>3
<1>. QED
  BY <1>1, <1>2, <1>3, <1>4 DEF RestOf, n, m, t

LEMMA RestoringTail ==
    ASSUME NEW w \in Seq(CleanupWork), w # <<>>, Restoring(w)
    PROVE  /\ Restoring(Tail(w)) /\ Len(w) \in 1..3 /\ Len(Tail(w)) = Len(w) - 1
           /\ Head(w).cmd = SetMore[3 - Len(Tail(w))]
<1>. DEFINE n == Len(w)
            t == Tail(w)
<1>1. /\ n \in Nat \ {0} /\ Len(t) = n - 1 /\ \A i \in 1..(n - 1) : t[i] = w[i + 1]
      /\ Head(w) = w[1]
  BY HeadTailProperties, EmptySeq, LenProperties
<1>2. n <= 3 /\ \A i \in 1..n : w[i].cmd = SetMore[3 - n + i]
  BY DEF Restoring
<1>. HIDE DEF n, t
<1>3. /\ 1 \in 1..n /\ n \in 1..3 /\ n - 1 <= 3 /\ 3 - n + 1 = 3 - (n - 1)
      /\ \A i \in 1..(n - 1) : i + 1 \in 1..n /\ 3 - n + (i + 1) = 3 - (n - 1) + i
  BY <1>1, <1>2
<1>4. \A i \in 1..(n - 1) : t[i].cmd = SetMore[3 - (n - 1) + i]
  BY <1>1, <1>2, <1>3
<1>. QED
  BY <1>1, <1>2, <1>3, <1>4 DEF Restoring, n, t

\* A command that is typed is in flight.
LEMMA DispatchScope ==
    ASSUME NEW k, DOMAIN k = Fields, NEW cmd1 \in Cmds, NEW index \in Nat, NEW again
    PROVE  LET d == Dispatch(k, cmd1, index, again)
           IN  /\ ~Idle(d) /\ d.inflight.cmd = cmd1 /\ d.inflight.index = index
               /\ d.inflight.before = k.ctx
               /\ d.errors = k.errors /\ d.error = k.error /\ d.raised = k.raised
               /\ d.blocks = k.blocks /\ d.cmds = k.cmds /\ d.pending = k.pending
               /\ d.cleanup = k.cleanup /\ d.active = k.active /\ d.blockCtx = k.blockCtx
               /\ d.inCleanup = k.inCleanup /\ d.inReset = k.inReset /\ d.target = k.target
               /\ d.ctx = k.ctx /\ d.std = k.std
               /\ d.recovering = k.recovering /\ d.authenticated = k.authenticated
<1>. DEFINE d == Dispatch(k, cmd1, index, again)
<1>1. /\ d.inflight.cmd = cmd1 /\ d.inflight.index = index
      /\ d.inflight.before = k.ctx
      /\ d.errors = k.errors /\ d.error = k.error /\ d.raised = k.raised
      /\ d.blocks = k.blocks /\ d.cmds = k.cmds /\ d.pending = k.pending
      /\ d.cleanup = k.cleanup /\ d.active = k.active /\ d.blockCtx = k.blockCtx
      /\ d.inCleanup = k.inCleanup /\ d.inReset = k.inReset /\ d.target = k.target
      /\ d.ctx = k.ctx /\ d.std = k.std
      /\ d.recovering = k.recovering /\ d.authenticated = k.authenticated
  BY DEF Dispatch, Fields
<1>. HIDE DEF d
<1>2. NoAttempt.cmd = Return /\ cmd1 # Return
  BY CommandsKinds DEF NoAttempt
<1>. QED
  BY <1>1, <1>2 DEF Idle, d

LEMMA DispatchCleanupScope ==
    ASSUME NEW k, Good(k), Ready(k), k.target = NoContext, k.cleanup # <<>>
    PROVE  Fly(Dispatch([k EXCEPT !.cleanup = Tail(@), !.inCleanup = TRUE],
                        Head(k.cleanup).cmd, 0, Head(k.cleanup).again))
<1>. DEFINE c == [k EXCEPT !.cleanup = Tail(@), !.inCleanup = TRUE]
            h == Head(k.cleanup)
            d == Dispatch(c, h.cmd, 0, h.again)
<1>1. /\ Calm(k) /\ Plan(k) /\ ~k.inReset /\ ~k.recovering /\ k.authenticated
      /\ k.ctx # NoContext
  BY DEF Ready, Resting
<1>2. k.active = NoFeature /\ CleanupScope(k.ctx, Len(k.cleanup))
  <2>1. k.active = NoFeature
    BY <1>1 DEF Plan
  <2>. QED
    BY <2>1 DEF Ready
<1>3. /\ k.cleanup \in Seq(CleanupWork) /\ h.cmd \in Cmds
      /\ Restoring(Tail(k.cleanup)) /\ Len(k.cleanup) \in 1..3
      /\ Len(Tail(k.cleanup)) = Len(k.cleanup) - 1
      /\ h.cmd = SetMore[3 - Len(Tail(k.cleanup))]
  <2>1. k.cleanup \in Seq(CleanupWork) /\ Restoring(k.cleanup)
    BY <1>1 DEF Good, Typing, Plan
  <2>2. h \in CleanupWork
    BY <2>1, HeadTailProperties
  <2>3. h.cmd \in Cmds
    BY <2>2 DEF CleanupWork
  <2>. HIDE DEF h
  <2>. QED
    BY <2>1, <2>3, RestoringTail DEF h
<1>4. /\ DOMAIN c = Fields /\ c.cleanup = Tail(k.cleanup) /\ c.inCleanup = TRUE
      /\ c.errors = k.errors /\ c.error = k.error /\ c.raised = k.raised
      /\ c.blocks = k.blocks /\ c.cmds = k.cmds /\ c.pending = k.pending
      /\ c.active = k.active /\ c.blockCtx = k.blockCtx
      /\ c.inReset = k.inReset /\ c.target = k.target /\ c.ctx = k.ctx /\ c.std = k.std
      /\ c.recovering = k.recovering /\ c.authenticated = k.authenticated
  BY DEF Good, Fields
<1>. HIDE DEF c, h
<1>5. /\ ~Idle(d) /\ d.inflight.cmd = h.cmd /\ d.inflight.index = 0
      /\ d.inflight.before = c.ctx
      /\ d.errors = c.errors /\ d.error = c.error /\ d.raised = c.raised
      /\ d.blocks = c.blocks /\ d.cmds = c.cmds /\ d.pending = c.pending
      /\ d.cleanup = c.cleanup /\ d.active = c.active /\ d.blockCtx = c.blockCtx
      /\ d.inCleanup = c.inCleanup /\ d.inReset = c.inReset /\ d.target = c.target
      /\ d.ctx = c.ctx /\ d.std = c.std
      /\ d.recovering = c.recovering /\ d.authenticated = c.authenticated
  BY <1>3, <1>4, DispatchScope
<1>. HIDE DEF d
<1>6. Calm(d) /\ Plan(d)
  BY <1>1, <1>2, <1>3, <1>4, <1>5 DEF Calm, Plan, Paging
<1>7. Len(d.cleanup) < 3 /\ Len(d.cleanup) + 1 = Len(k.cleanup)
  <2>. DEFINE m == Len(k.cleanup)
              t == Len(Tail(k.cleanup))
  <2>1. m \in 1..3 /\ t = m - 1 /\ d.cleanup = Tail(k.cleanup)
    BY <1>3, <1>4, <1>5
  <2>. HIDE DEF m, t
  <2>2. t < 3 /\ t + 1 = m
    BY <2>1
  <2>. QED
    BY <2>1, <2>2 DEF m, t
<1>8. InCleanup(d)
  BY <1>1, <1>2, <1>3, <1>4, <1>5, <1>7 DEF InCleanup
<1>9. Fly(d)
  BY <1>1, <1>4, <1>5, <1>6, <1>8 DEF Fly, Typed
<1>. QED
  BY <1>9 DEF d, c, h

LEMMA DispatchBlockScope ==
    ASSUME NEW k, Good(k), Ready(k), k.target = NoContext, k.active # NoFeature,
           k.pending # <<>>
    PROVE  Fly(Dispatch([k EXCEPT !.pending = Tail(@), !.inCleanup = FALSE], Head(k.pending),
                        Len(k.cmds) - Len(k.pending) + 1, FALSE))
<1>. DEFINE p == [k EXCEPT !.pending = Tail(@), !.inCleanup = FALSE]
            h == Head(k.pending)
            n == Len(k.cmds) - Len(k.pending) + 1
            again == FALSE
            d == Dispatch(p, h, n, again)
<1>1. /\ Calm(k) /\ Plan(k) /\ ~k.inReset /\ ~k.recovering /\ k.authenticated
      /\ k.ctx # NoContext
  BY DEF Ready, Resting
<1>2. k.ctx = Intended(k.cmds, n)
  <2>1. k.target # <<>>
    BY TopNotUnknown
  <2>. QED
    BY <2>1 DEF Ready
<1>3. /\ RestOf(Tail(k.pending), k.cmds) /\ h = k.cmds[n] /\ h \in Cmds
      /\ Len(k.cmds) \in Nat /\ Len(k.pending) \in Nat /\ Len(k.pending) <= Len(k.cmds)
      /\ Len(Tail(k.pending)) = Len(k.pending) - 1
  <2>1. IsBlock(k.cmds) /\ IsBlock(k.pending) /\ Len(k.pending) <= Len(k.cmds)
    BY DEF Good, Typing
  <2>2. Len(k.cmds) \in Nat
    BY <2>1, LenProperties DEF IsBlock
  <2>3. RestOf(k.pending, k.cmds)
    BY <1>1 DEF Plan
  <2>. QED
    BY <2>1, <2>2, <2>3, TailOfBlock, RestOfTail
<1>4. /\ DOMAIN p = Fields /\ p.pending = Tail(k.pending) /\ p.inCleanup = FALSE
      /\ p.errors = k.errors /\ p.error = k.error /\ p.raised = k.raised
      /\ p.blocks = k.blocks /\ p.cmds = k.cmds /\ p.cleanup = k.cleanup
      /\ p.active = k.active /\ p.blockCtx = k.blockCtx
      /\ p.inReset = k.inReset /\ p.target = k.target /\ p.ctx = k.ctx /\ p.std = k.std
      /\ p.recovering = k.recovering /\ p.authenticated = k.authenticated
  BY DEF Good, Fields
<1>5. n \in Nat /\ n >= 1 /\ n = Len(k.cmds) - Len(Tail(k.pending))
  <2>. DEFINE m == Len(k.cmds)
              q == Len(k.pending)
              t == Len(Tail(k.pending))
  <2>1. m \in Nat /\ q \in Nat /\ q <= m /\ t = q - 1 /\ n = m - q + 1
    BY <1>3
  <2>. HIDE DEF m, q, t, n
  <2>2. n \in Nat /\ n >= 1 /\ n = m - t
    BY <2>1
  <2>. QED
    BY <2>2 DEF m, t
<1>. HIDE DEF p, h, n, again
<1>6. /\ ~Idle(d) /\ d.inflight.cmd = h /\ d.inflight.index = n
      /\ d.inflight.before = p.ctx
      /\ d.errors = p.errors /\ d.error = p.error /\ d.raised = p.raised
      /\ d.blocks = p.blocks /\ d.cmds = p.cmds /\ d.pending = p.pending
      /\ d.cleanup = p.cleanup /\ d.active = p.active /\ d.blockCtx = p.blockCtx
      /\ d.inCleanup = p.inCleanup /\ d.inReset = p.inReset /\ d.target = p.target
      /\ d.ctx = p.ctx /\ d.std = p.std
      /\ d.recovering = p.recovering /\ d.authenticated = p.authenticated
  <2>1. DOMAIN p = Fields /\ h \in Cmds /\ n \in Nat
    BY <1>3, <1>4, <1>5
  <2>. QED
    BY <2>1, DispatchScope
<1>. HIDE DEF d
<1>7. Calm(d) /\ Plan(d)
  BY <1>1, <1>3, <1>4, <1>6 DEF Calm, Plan, Paging
<1>8. InBlock(d)
  <2>1. ~d.inCleanup /\ ~d.inReset
    BY <1>1, <1>4, <1>6
  <2>2. /\ d.active # NoFeature /\ d.target = NoContext
        /\ d.inflight.index = Len(d.cmds) - Len(d.pending) /\ d.inflight.index >= 1
        /\ d.inflight.cmd = d.cmds[d.inflight.index]
        /\ d.inflight.before = Intended(d.cmds, d.inflight.index)
    BY <1>2, <1>3, <1>4, <1>5, <1>6
  <2>. QED
    BY <2>1, <2>2 DEF InBlock
<1>9. Fly(d)
  BY <1>1, <1>4, <1>6, <1>7, <1>8 DEF Fly, Typed
<1>. QED
  BY <1>9 DEF d, p, h, n, again

LEMMA DispatchWorkScope ==
    ASSUME NEW k, Good(k), Ready(k), k.target = NoContext
    PROVE  AtTop(DispatchWork(k)) \/ Fly(DispatchWork(k))
<1>. DEFINE a == IF k.cleanup = <<>> /\ k.active = NoFeature THEN ActivateNextFeature(k) ELSE k
            c == [a EXCEPT !.cleanup = Tail(@), !.inCleanup = TRUE]
            p == [a EXCEPT !.pending = Tail(@), !.inCleanup = FALSE]
<1>1. DispatchWork(k) =
        IF a.cleanup # <<>>
        THEN Dispatch(c, Head(a.cleanup).cmd, 0, Head(a.cleanup).again)
        ELSE IF a.active = NoFeature THEN a
        ELSE IF a.pending = <<>> THEN OnBlockComplete(a)
        ELSE Dispatch(p, Head(a.pending), Len(a.cmds) - Len(a.pending) + 1, FALSE)
  BY DEF DispatchWork
<1>2. /\ Good(a) /\ Ready(a) /\ a.target = NoContext
      /\ a.cleanup = <<>> /\ a.active = NoFeature => AtTop(a)
  <2>1. CASE k.cleanup = <<>> /\ k.active = NoFeature
    <3>1. AtTop(k)
      BY <2>1, ReadyAtTop
    <3>2. /\ Good(ActivateNextFeature(k)) /\ Silent(k, ActivateNextFeature(k))
          /\ AtTop(ActivateNextFeature(k))
      BY <2>1, <3>1, ActivateNextFeatureTop, ActivateNextFeatureGood DEF Ready, Resting
    <3>3. ~k.recovering /\ k.authenticated
      BY DEF Ready
    <3>4. a = ActivateNextFeature(k)
      BY <2>1
    <3>. HIDE DEF a
    <3>5. Good(a) /\ AtTop(a) /\ ~a.recovering /\ a.authenticated
      BY <3>2, <3>3, <3>4 DEF Silent
    <3>. QED
      BY <3>5, AtTopReady DEF AtTop
  <2>2. CASE ~(k.cleanup = <<>> /\ k.active = NoFeature)
    BY <2>2
  <2>. QED
    BY <2>1, <2>2
<1>. HIDE DEF a
<1>3. CASE a.cleanup # <<>>
  BY <1>1, <1>2, <1>3, DispatchCleanupScope
<1>4. CASE a.cleanup = <<>> /\ a.active = NoFeature
  BY <1>1, <1>2, <1>4
<1>5. CASE a.cleanup = <<>> /\ a.active # NoFeature /\ a.pending = <<>>
  <2>1. AtTop(a)
    BY <1>2, <1>5, ReadyAtTop
  <2>2. AtTop(OnBlockComplete(a))
    BY <1>2, <1>5, <2>1, OnBlockCompleteTop
  <2>. QED
    BY <1>1, <1>5, <2>2
<1>6. CASE a.cleanup = <<>> /\ a.active # NoFeature /\ a.pending # <<>>
  BY <1>1, <1>2, <1>6, DispatchBlockScope
<1>. QED
  BY <1>3, <1>4, <1>5, <1>6

LEMMA DispatchNextScope ==
    ASSUME NEW k, Good(k), k.out = <<>>, Ready(k)
    PROVE  \/ GaveUp(DispatchNext(k))
           \/ AtTop(DispatchNext(k))
           \/ Fly(DispatchNext(k))
<1>. DEFINE w == [k EXCEPT !.target = NoContext]
            r == [k EXCEPT !.resetTried = TRUE, !.inReset = TRUE]
            b == Cmd("abort", "")
            again == FALSE
            d == Dispatch(r, b, 0, again)
<1>1. /\ Calm(k) /\ Plan(k) /\ Idle(k) /\ ~k.inCleanup /\ ~k.inReset /\ ~k.recovering
      /\ k.authenticated /\ k.ctx # NoContext
  BY DEF Ready, Resting
<1>2. DispatchNext(k) =
        IF k.target = NoContext \/ k.ctx = k.target THEN DispatchWork(w)
        ELSE IF k.resetTried THEN Recover(WorkError(k), FALSE)
        ELSE d
  BY <1>1 DEF DispatchNext, Calm
<1>3. CASE k.target = NoContext \/ k.ctx = k.target
  <2>1. /\ DOMAIN w = Fields /\ Parts(w) = Parts(k) /\ w.target = NoContext
        /\ w.errors = k.errors /\ w.error = k.error /\ w.raised = k.raised
        /\ w.blocks = k.blocks /\ w.cmds = k.cmds /\ w.pending = k.pending
        /\ w.cleanup = k.cleanup /\ w.active = k.active /\ w.blockCtx = k.blockCtx
        /\ w.inflight = k.inflight /\ w.inCleanup = k.inCleanup /\ w.inReset = k.inReset
        /\ w.ctx = k.ctx /\ w.std = k.std
        /\ w.recovering = k.recovering /\ w.authenticated = k.authenticated
    BY DEF Good, Fields, Parts
  <2>. HIDE DEF w
  <2>2. Good(w)
    BY <2>1, GoodByParts
  <2>3. Resting(w)
    <3>1. Plan(w)
      BY <1>1, <2>1 DEF Plan, Paging
    <3>. QED
      BY <1>1, <2>1, <3>1 DEF Resting, Calm, Idle
  <2>4. Ready(w)
    <3>1. CASE k.target = NoContext
      <4>1. k.target # <<>>
        BY <3>1, TopNotUnknown
      <4>. QED
        BY <2>1, <2>3, <3>1, <4>1 DEF Ready
    <3>2. CASE k.target # NoContext
      <4>1. /\ k.ctx = <<>> /\ k.pending = k.cmds /\ k.active # NoFeature
        BY <1>3, <3>2 DEF Ready, Replay
      <4>2. AtTop(w)
        BY <2>1, <2>3, <4>1 DEF AtTop, Rest
      <4>. QED
        BY <1>1, <2>1, <2>2, <4>2, AtTopReady
    <3>. QED
      BY <3>1, <3>2
  <2>. QED
    BY <1>2, <1>3, <2>1, <2>2, <2>4, DispatchWorkScope
<1>4. CASE ~(k.target = NoContext \/ k.ctx = k.target) /\ k.resetTried
  <2>. DEFINE m == WorkError(k)
  <2>1. Good(m) /\ GaveUp(m) /\ m.out = <<>>
    BY <1>1, WorkErrorGood, WorkErrorGivesUp DEF Silent
  <2>. HIDE DEF m
  <2>2. GaveUp(Recover(m, FALSE))
    BY <2>1, RecoverGivesUp
  <2>. QED
    BY <1>2, <1>4, <2>2 DEF m
<1>5. CASE ~(k.target = NoContext \/ k.ctx = k.target) /\ ~k.resetTried
  <2>1. /\ DOMAIN r = Fields /\ r.inReset = TRUE
        /\ r.errors = k.errors /\ r.error = k.error /\ r.raised = k.raised
        /\ r.blocks = k.blocks /\ r.cmds = k.cmds /\ r.pending = k.pending
        /\ r.cleanup = k.cleanup /\ r.active = k.active /\ r.blockCtx = k.blockCtx
        /\ r.inCleanup = k.inCleanup /\ r.target = k.target /\ r.ctx = k.ctx /\ r.std = k.std
        /\ r.recovering = k.recovering /\ r.authenticated = k.authenticated
    BY DEF Good, Fields
  <2>2. b \in Cmds
    BY CommandsKinds
  <2>3. 0 \in Nat /\ DispatchNext(k) = d /\ b = Cmd("abort", "")
    BY <1>2, <1>5
  <2>. HIDE DEF r, b, again
  <2>4. /\ ~Idle(d) /\ d.inflight.cmd = b /\ d.inflight.index = 0
        /\ d.inflight.before = r.ctx
        /\ d.errors = r.errors /\ d.error = r.error /\ d.raised = r.raised
        /\ d.blocks = r.blocks /\ d.cmds = r.cmds /\ d.pending = r.pending
        /\ d.cleanup = r.cleanup /\ d.active = r.active /\ d.blockCtx = r.blockCtx
        /\ d.inCleanup = r.inCleanup /\ d.inReset = r.inReset /\ d.target = r.target
        /\ d.ctx = r.ctx /\ d.std = r.std
        /\ d.recovering = r.recovering /\ d.authenticated = r.authenticated
    <3>1. DOMAIN r = Fields /\ b \in Cmds /\ 0 \in Nat
      BY <2>1, <2>2, <2>3
    <3>. QED
      BY <3>1, DispatchScope
  <2>. HIDE DEF d
  <2>5. Replay(k)
    BY <1>5 DEF Ready
  <2>6. Calm(d) /\ Plan(d) /\ InReset(d)
    <3>1. Calm(d)
      BY <1>1, <2>1, <2>4 DEF Calm
    <3>2. Plan(d)
      BY <1>1, <2>1, <2>4 DEF Plan, Paging
    <3>3. Replay(d)
      BY <2>1, <2>4, <2>5 DEF Replay
    <3>. QED
      BY <1>1, <2>1, <2>3, <2>4, <3>1, <3>2, <3>3 DEF InReset
  <2>7. Fly(d)
    BY <1>1, <2>1, <2>4, <2>6 DEF Fly, Typed
  <2>. QED
    BY <2>3, <2>7
<1>. QED
  BY <1>3, <1>4, <1>5

\* All of the commander but the command in flight and what it is for.
Work(k) ==
    <<k.queue, k.active, k.completed, k.blocks, k.cmds, k.pending, k.cleanup, k.retried, k.disk,
      k.errors, k.error, k.raised, k.blockCtx, k.target, k.ctx, k.std, k.recovering,
      k.authenticated, k.out>>

LEMMA EndScope ==
    ASSUME NEW k, Good(k), Calm(k), Plan(k), NEW d, DOMAIN d = Fields, Work(d) = Work(k),
           d.inflight = NoAttempt, ~d.inCleanup, ~d.inReset
    PROVE  Good(d) /\ Resting(d)
<1>1. /\ d.queue = k.queue /\ d.active = k.active /\ d.completed = k.completed
      /\ d.blocks = k.blocks /\ d.cmds = k.cmds /\ d.pending = k.pending
      /\ d.cleanup = k.cleanup /\ d.retried = k.retried /\ d.disk = k.disk
      /\ d.errors = k.errors /\ d.error = k.error /\ d.raised = k.raised
      /\ d.blockCtx = k.blockCtx /\ d.std = k.std
  BY DEF Work
<1>2. Good(d) /\ Idle(d)
  BY <1>1, EndOfCommand
<1>3. Calm(d) /\ Plan(d)
  BY <1>1 DEF Calm, Plan, Paging
<1>. QED
  BY <1>2, <1>3 DEF Resting

LEMMA OtherAnswers ==
    /\ \A c \in Cmds : c.at # {"prompt"} => ~MayChangeContext(c)
    /\ Cmd("abort", "").at = {"prompt"} /\ ~MayChangeContext(Cmd("set", "more"))
    /\ \A i \in 1..3 : SetMore[i].at = {"prompt"}
<1>1. \A o, a : Cmd(o, a).at = {"prompt"} /\ Cmd(o, a).op = o
  BY DEF Cmd
<1>2. \A d \in Nat : ~MayChangeContext(FormatSpec(d)) /\ ~MayChangeContext(YesSpec(d))
  BY DEF FormatSpec, YesSpec, MayChangeContext, Cmd
<1>3. \A c \in Written : c.at = {"prompt"}
  BY FosAssumption
<1>4. \A c \in Own : c.at = {"prompt"}
  <2>1. /\ Cmd("query", "console").at = {"prompt"} /\ Cmd("query", "disks").at = {"prompt"}
        /\ Cmd("abort", "").at = {"prompt"} /\ Cmd("config", "console").at = {"prompt"}
        /\ Cmd("set", "standard").at = {"prompt"} /\ Cmd("set", "more").at = {"prompt"}
        /\ Cmd("end", "console").at = {"prompt"}
    BY <1>1
  <2>. QED
    BY <2>1, Zenon DEF Own, Inspect
<1>5. \A i \in 1..3 : SetMore[i].at = {"prompt"}
  <2>1. \A i \in 1..3 : i = 1 \/ i = 2 \/ i = 3
    OBVIOUS
  <2>. QED
    BY <1>1, <2>1, ConsoleBlocks
<1>6. \A c \in Cmds : c.at # {"prompt"} => ~MayChangeContext(c)
  BY <1>2, <1>3, <1>4 DEF Cmds
<1>7. ~MayChangeContext(Cmd("set", "more"))
  BY <1>1 DEF MayChangeContext
<1>. QED
  BY <1>1, <1>5, <1>6, <1>7

LEMMA RestartBlockScope ==
    ASSUME NEW k, Good(k), Resting(k), k.active # NoFeature, NEW attempt
    PROVE  LET x == RestartBlock(k, attempt)
           IN  /\ GaveUp(x) \/ (Resting(x) /\ Replay(x))
               /\ GaveUp(x) <=> x.error \/ x.raised
<1>. DEFINE d == [k EXCEPT !.retried = @ \cup {attempt.index}, !.pending = k.cmds,
                           !.target = k.blockCtx, !.resetTried = FALSE]
            x == RestartBlock(k, attempt)
<1>1. x = WorkError(k) \/ x = d
  BY DEF RestartBlock
<1>2. /\ d.errors = k.errors /\ d.error = k.error /\ d.raised = k.raised
      /\ d.blocks = k.blocks /\ d.cmds = k.cmds /\ d.pending = k.cmds
      /\ d.cleanup = k.cleanup /\ d.active = k.active /\ d.blockCtx = k.blockCtx
      /\ d.inflight = k.inflight /\ d.inCleanup = k.inCleanup /\ d.inReset = k.inReset
      /\ d.target = k.blockCtx /\ d.ctx = k.ctx /\ d.std = k.std
  BY DEF Good, Fields
<1>. HIDE DEF d, x
<1>3. Calm(k) /\ Plan(k) /\ Idle(k) /\ k.blockCtx = <<>>
  BY DEF Resting, Plan
<1>4. RestOf(k.cmds, k.cmds)
  BY WholeBlock, LenProperties DEF Good, Typing, IsBlock
<1>5. Calm(d) /\ Plan(d)
  BY <1>2, <1>3, <1>4 DEF Calm, Plan, Paging
<1>6. Resting(d) /\ Replay(d)
  BY <1>2, <1>3, <1>5 DEF Resting, Replay, Idle
<1>7. ~GaveUp(d) /\ ~d.error /\ ~d.raised
  BY <1>5 DEF Calm, GaveUp
<1>8. /\ WorkError(k).error \/ WorkError(k).raised
      /\ GaveUp(WorkError(k))
  BY <1>3, WorkErrorGivesUp
<1>. QED
  BY <1>1, <1>6, <1>7, <1>8 DEF x

LEMMA CompleteReset ==
    ASSUME NEW k, Good(k), k.out = <<>>, Typed(k), InReset(k), NEW e
    PROVE  LET z == CompleteInflight(k, e) IN GaveUp(z) \/ AtTop(z) \/ Fly(z)
<1>. DEFINE d == [k EXCEPT !.inflight = NoAttempt]
            r == [d EXCEPT !.inReset = FALSE]
<1>1. CompleteInflight(k, e) = DispatchNext(r)
  BY DEF CompleteInflight, InReset
<1>2. DOMAIN r = Fields /\ Work(r) = Work(k) /\ r.inflight = NoAttempt /\ ~r.inReset
      /\ r.inCleanup = k.inCleanup
  BY DEF Good, Fields, Work
<1>. HIDE DEF d, r
<1>3. /\ Calm(k) /\ Plan(k) /\ ~k.inCleanup /\ Replay(k) /\ ~k.recovering /\ k.authenticated
      /\ k.ctx # NoContext
  BY DEF Typed, InReset
<1>4. ~r.inCleanup
  BY <1>2, <1>3
<1>5. Good(r) /\ Resting(r)
  BY <1>2, <1>3, <1>4, EndScope
<1>6. /\ r.target = k.target /\ r.pending = k.pending /\ r.cmds = k.cmds
      /\ r.active = k.active /\ r.recovering = k.recovering /\ r.ctx = k.ctx
      /\ r.authenticated = k.authenticated /\ r.out = k.out
  BY <1>2 DEF Work
<1>7. Ready(r) /\ r.out = <<>>
  <2>1. Replay(r) /\ r.target # NoContext
    BY <1>3, <1>6, TopNotUnknown DEF Replay
  <2>. QED
    BY <1>3, <1>5, <1>6, <2>1 DEF Ready
<1>. QED
  BY <1>1, <1>5, <1>7, DispatchNextScope

\* A prompt behind command c in scope `before' shows where it leads, unless the
\* answer says that it was refused.
AnswerShows(k, e) ==
    /\ e.st # "prompt" => k.ctx = k.inflight.before
    /\ e.st = "prompt" /\ ~k.inReset /\ MayChangeContext(k.inflight.cmd) =>
           k.ctx = Enter(k.inflight.before, k.inflight.cmd) \/ Invalid(k.inflight, e)

\* Without a scope that was lost and without a refusal the prompt shows the scope the
\* command leads to.
LEMMA AnswerScope ==
    ASSUME NEW k, Good(k), Typed(k), ~k.inReset, NEW e, e.st \in k.inflight.cmd.at,
           AnswerShows(k, e), ~Invalid(k.inflight, e),
           ~(e.st = "prompt" /\ PromptContextChanged(k, k.inflight))
    PROVE  k.ctx = Enter(k.inflight.before, k.inflight.cmd)
<1>. DEFINE c == k.inflight.cmd
            b == k.inflight.before
<1>1. c \in Cmds /\ NoContext \notin {k.ctx, b}
  BY DEF Good, Typing, Typed
<1>2. CASE MayChangeContext(c)
  <2>1. c.at = {"prompt"}
    BY <1>1, <1>2, OtherAnswers
  <2>. QED
    BY <1>2, <2>1 DEF AnswerShows
<1>3. CASE ~MayChangeContext(c)
  <2>1. Enter(b, c) = b
    BY <1>3, LastingCommand
  <2>2. CASE e.st = "prompt"
    <3>1. ~PromptContextChanged(k, k.inflight)
      BY <2>2
    <3>2. k.ctx = b
      BY <1>1, <1>3, <3>1 DEF PromptContextChanged
    <3>. QED
      BY <2>1, <3>2
  <2>3. CASE e.st # "prompt"
    BY <2>1, <2>3 DEF AnswerShows
  <2>. QED
    BY <2>2, <2>3
<1>. QED
  BY <1>2, <1>3

LEMMA NextCleanupScope ==
    ASSUME NEW s, NEW n \in 0..2, CleanupScope(s, n + 1)
    PROVE  CleanupScope(Enter(s, SetMore[3 - n]), n)
<1>1. /\ SetMore[1] = Cmd("config", "console") /\ SetMore[2] = Cmd("set", "more")
      /\ SetMore[3] = Cmd("end", "console")
  BY ConsoleBlocks
<1>2. n = 0 \/ n = 1 \/ n = 2
  OBVIOUS
<1>3. CASE n = 0
  <2>1. s = <<>> \/ s = <<"console">>
    BY DEF CleanupScope
  <2>2. Enter(s, SetMore[3]) = <<>>
    BY <1>1, <2>1, ConsoleScope
  <2>3. 3 - n = 3
    BY <1>3
  <2>. QED
    BY <2>2, <2>3 DEF CleanupScope
<1>4. CASE n = 1
  <2>1. Enter(s, SetMore[2]) = s
    BY <1>1, LastingCommand, OtherAnswers
  <2>2. 3 - n = 2 /\ n \in {1, 2}
    BY <1>4
  <2>. QED
    BY <2>1, <2>2 DEF CleanupScope
<1>5. CASE n = 2
  <2>1. s = <<>>
    <3>1. n + 1 = 3 /\ 3 \notin {1, 2}
      BY <1>5
    <3>. QED
      BY <3>1 DEF CleanupScope
  <2>2. Enter(s, SetMore[1]) = <<"console">>
    BY <1>1, <2>1, ConsoleScope
  <2>3. 3 - n = 1 /\ n \in {1, 2}
    BY <1>5
  <2>. QED
    BY <2>2, <2>3 DEF CleanupScope
<1>. QED
  BY <1>2, <1>3, <1>4, <1>5

\* The command fails, or its scope is lost for good.
LEMMA FailedCommand ==
    ASSUME NEW d, Good(d), Idle(d), d.out = <<>>
    PROVE  GaveUp(Recover(WorkError(d), FALSE)) /\ GaveUp(DispatchNext(WorkError(d)))
<1>1. Good(WorkError(d)) /\ WorkError(d).out = <<>> /\ GaveUp(WorkError(d))
  BY WorkErrorGood, WorkErrorGivesUp DEF Silent
<1>. QED
  BY <1>1, RecoverGivesUp, DispatchNextGivesUp

LEMMA CompleteCleanup ==
    ASSUME NEW k, Good(k), k.out = <<>>, Typed(k), InCleanup(k), NEW e,
           e.st \in k.inflight.cmd.at, AnswerShows(k, e)
    PROVE  LET z == CompleteInflight(k, e) IN GaveUp(z) \/ AtTop(z) \/ Fly(z)
<1>. DEFINE attempt == k.inflight
            d == [k EXCEPT !.inflight = NoAttempt]
            c == [d EXCEPT !.inCleanup = FALSE]
            z == CompleteInflight(k, e)
<1>1. /\ Calm(k) /\ Plan(k) /\ k.inCleanup /\ ~k.inReset /\ ~k.recovering /\ k.authenticated
      /\ NoContext \notin {k.ctx, attempt.before}
  BY DEF Typed, InCleanup
<1>2. /\ DOMAIN d = Fields /\ Work(d) = Work(k) /\ d.inflight = NoAttempt
      /\ d.inCleanup = k.inCleanup /\ d.out = k.out
  BY DEF Good, Fields, Work
<1>3. DOMAIN c = Fields /\ Work(c) = Work(k) /\ c.inflight = NoAttempt /\ ~c.inCleanup
      /\ c.inReset = k.inReset
  BY DEF Good, Fields, Work
<1>4. z = IF e.st = "prompt" /\ PromptContextChanged(k, attempt)
          THEN LET l == ContextLoss(d, attempt)
               IN  IF l.error THEN Recover(l, FALSE) ELSE DispatchNext(l)
          ELSE IF Invalid(attempt, e) THEN Recover(WorkError(d), FALSE)
          ELSE DispatchNext(c)
  BY <1>1 DEF CompleteInflight
<1>5. ContextLoss(d, attempt) = WorkError(d)
  BY <1>1, <1>2 DEF ContextLoss
<1>. HIDE DEF d, c, z
<1>6. Good(d) /\ Idle(d)
  BY <1>2, EndOfCommand DEF Work
<1>7. GaveUp(Recover(WorkError(d), FALSE)) /\ GaveUp(DispatchNext(WorkError(d)))
  BY <1>2, <1>6, FailedCommand
<1>8. CASE e.st = "prompt" /\ PromptContextChanged(k, attempt)
  BY <1>4, <1>5, <1>7, <1>8 DEF z
<1>9. CASE ~(e.st = "prompt" /\ PromptContextChanged(k, attempt)) /\ Invalid(attempt, e)
  BY <1>4, <1>7, <1>9 DEF z
<1>10. CASE ~(e.st = "prompt" /\ PromptContextChanged(k, attempt)) /\ ~Invalid(attempt, e)
  <2>1. k.ctx = Enter(attempt.before, attempt.cmd)
    BY <1>1, <1>10, AnswerScope
  <2>2. CleanupScope(k.ctx, Len(k.cleanup))
    <3>. DEFINE n == Len(k.cleanup)
    <3>1. n \in 0..2
      <4>1. n \in Nat /\ n < 3
        BY LenProperties DEF Good, Typing, InCleanup
      <4>. HIDE DEF n
      <4>. QED
        BY <4>1
    <3>2. attempt.cmd = SetMore[3 - n] /\ CleanupScope(attempt.before, n + 1)
      BY DEF InCleanup
    <3>. HIDE DEF n, attempt
    <3>3. CleanupScope(k.ctx, n)
      BY <2>1, <3>1, <3>2, NextCleanupScope
    <3>. QED
      BY <3>3 DEF n
  <2>3. ~c.inReset
    BY <1>1, <1>3
  <2>4. Good(c) /\ Resting(c)
    BY <1>1, <1>3, <2>3, EndScope
  <2>5. /\ c.target = k.target /\ c.cleanup = k.cleanup /\ c.ctx = k.ctx
        /\ c.active = k.active /\ c.recovering = k.recovering
        /\ c.authenticated = k.authenticated /\ c.out = k.out
    BY <1>3 DEF Work
  <2>6. Ready(c) /\ c.out = <<>>
    BY <1>1, <2>2, <2>4, <2>5 DEF Ready, InCleanup
  <2>. QED
    BY <1>4, <1>10, <2>4, <2>6, DispatchNextScope DEF z
<1>. QED
  BY <1>8, <1>9, <1>10

\* The command is done: the commander is ready for what follows it.
LEMMA BlockReady ==
    ASSUME NEW k, Good(k), Typed(k), InBlock(k), NEW d, Good(d), Resting(d), Work(d) = Work(k),
           k.ctx = Enter(k.inflight.before, k.inflight.cmd)
    PROVE  Ready(d) /\ d.target = NoContext
<1>1. /\ d.target = k.target /\ d.pending = k.pending /\ d.cmds = k.cmds
      /\ d.active = k.active /\ d.recovering = k.recovering /\ d.ctx = k.ctx
      /\ d.authenticated = k.authenticated
  BY DEF Work
<1>. DEFINE i == k.inflight.index
            n == Len(k.cmds) - Len(k.pending)
<1>2. i \in Nat /\ i >= 1 /\ i = n
  BY DEF InBlock, Good, Typing
<1>3. k.ctx = Intended(k.cmds, i + 1)
  <2>1. k.inflight.before = Intended(k.cmds, i) /\ k.inflight.cmd = k.cmds[i]
    BY DEF InBlock
  <2>2. i \in Nat \ {0}
    BY <1>2
  <2>. HIDE DEF i
  <2>. QED
    BY <2>1, <2>2, IntendedScopes
<1>4. k.ctx = Intended(k.cmds, n + 1)
  <2>. HIDE DEF i, n
  <2>. QED
    BY <1>2, <1>3
<1>5. /\ ~k.recovering /\ k.authenticated /\ k.ctx # NoContext
      /\ k.active # NoFeature /\ k.target = NoContext
  BY DEF Typed, InBlock
<1>. QED
  BY <1>1, <1>4, <1>5 DEF Ready

\* The commands of a block of more than one are answered by prompts.
LEMMA MidBlock ==
    ASSUME NEW k, Good(k), Typed(k), InBlock(k), k.pending # <<>>, NEW e,
           e.st \in k.inflight.cmd.at
    PROVE  e.st = "prompt" /\ k.active # DiskFormat /\ k.inflight.cmd # Inspect
<1>. DEFINE i == k.inflight.index
            n == Len(k.cmds)
            m == Len(k.pending)
<1>1. n \in Nat /\ m \in Nat /\ m # 0 /\ i = n - m /\ i >= 1
  BY LenProperties, EmptySeq DEF Good, Typing, IsBlock, InBlock
<1>2. k.inflight.cmd = k.cmds[i] /\ Plan(k)
  BY DEF InBlock, Typed
<1>. HIDE DEF i, n, m
<1>3. i \in 1..n /\ ~(n <= 1)
  BY <1>1
<1>4. k.cmds[i].at = {"prompt"}
  <2>1. AnsweredByPrompts(k.cmds)
    BY <1>2 DEF Plan
  <2>2. \A j \in 1..n : k.cmds[j].at # {"prompt"} => n = 1
    BY <2>1 DEF AnsweredByPrompts, n
  <2>. QED
    BY <1>3, <2>2
<1>5. k.active # DiskFormat
  BY <1>2, <1>3 DEF Plan, n
<1>6. k.inflight.cmd # Inspect
  BY DEF Good, Typing
<1>. QED
  BY <1>2, <1>4, <1>5, <1>6

LEMMA CompleteBlock ==
    ASSUME NEW k, Good(k), k.out = <<>>, Typed(k), InBlock(k), NEW e,
           e.st \in k.inflight.cmd.at, AnswerShows(k, e)
    PROVE  LET z == CompleteInflight(k, e) IN GaveUp(z) \/ AtTop(z) \/ Fly(z)
<1>. DEFINE attempt == k.inflight
            d == [k EXCEPT !.inflight = NoAttempt]
            l == ContextLoss(d, attempt)
            s == CompleteStandardOutput(d, attempt, e)
            x == OnCommandExecuted(d, e)
            y == IF x.error \/ x.raised \/ Busy(x) THEN x ELSE OnBlockComplete(x)
            z == CompleteInflight(k, e)
            lost == e.st = "prompt" /\ PromptContextChanged(k, attempt)
<1>1. /\ Calm(k) /\ Plan(k) /\ ~k.inCleanup /\ ~k.inReset /\ ~k.recovering /\ k.authenticated
      /\ NoContext \notin {k.ctx, attempt.before} /\ k.active # NoFeature
      /\ k.target = NoContext
  BY DEF Typed, InBlock
<1>2. /\ DOMAIN d = Fields /\ Work(d) = Work(k) /\ d.inflight = NoAttempt
      /\ d.inCleanup = k.inCleanup /\ d.inReset = k.inReset
  BY DEF Good, Fields, Work
<1>3. z = IF lost THEN IF l.error THEN Recover(l, FALSE) ELSE DispatchNext(l)
          ELSE IF Invalid(attempt, e) THEN Recover(WorkError(d), FALSE)
          ELSE IF IsStandardOutputCommand(d, attempt) THEN DispatchNext(s)
          ELSE IF e.st \in {"prompt", "confirm"} THEN DispatchNext(y) ELSE y
  BY <1>1 DEF CompleteInflight
<1>. HIDE DEF d
<1>4. ~d.inCleanup /\ ~d.inReset
  BY <1>1, <1>2
<1>5. Good(d) /\ Resting(d)
  BY <1>1, <1>2, <1>4, EndScope
<1>6. /\ d.active = k.active /\ d.pending = k.pending /\ d.std = k.std /\ d.out = <<>>
      /\ d.recovering = k.recovering /\ d.authenticated = k.authenticated
      /\ d.ctx = k.ctx /\ d.target = k.target
  BY <1>2 DEF Work
<1>7. Idle(d)
  BY <1>2 DEF Idle
<1>. HIDE DEF z, lost
<1>8. CASE lost
  <2>1. l = RestartBlock(d, attempt) \/ l = WorkError(d)
    BY DEF ContextLoss
  <2>2. Good(l) /\ Silent(d, l)
    BY <1>5, <1>7, ContextLossGood DEF Good, Typing
  <2>3. /\ GaveUp(l) \/ (Resting(l) /\ Replay(l))
        /\ GaveUp(l) <=> l.error \/ l.raised
    <3>1. /\ WorkError(d).error \/ WorkError(d).raised
          /\ GaveUp(WorkError(d))
      BY <1>5, <1>7, WorkErrorGivesUp
    <3>2. LET r == RestartBlock(d, attempt)
          IN  /\ GaveUp(r) \/ (Resting(r) /\ Replay(r))
              /\ GaveUp(r) <=> r.error \/ r.raised
      BY <1>1, <1>5, <1>6, RestartBlockScope
    <3>. HIDE DEF l
    <3>. QED
      BY <2>1, <3>1, <3>2
  <2>. HIDE DEF l
  <2>4. l.out = <<>> /\ z \in {Recover(l, FALSE), DispatchNext(l)}
    BY <1>3, <1>6, <1>8, <2>2 DEF Silent
  <2>5. CASE GaveUp(l)
    BY <2>2, <2>4, <2>5, RecoverGivesUp, DispatchNextGivesUp DEF z
  <2>6. CASE ~GaveUp(l)
    <3>1. z = DispatchNext(l)
      BY <1>3, <1>8, <2>3, <2>6
    <3>2. Ready(l)
      BY <1>1, <1>6, <2>2, <2>3, <2>6, TopNotUnknown DEF Ready, Silent, Replay
    <3>. QED
      BY <2>2, <2>4, <3>1, <3>2, DispatchNextScope DEF z
  <2>. QED
    BY <2>5, <2>6 DEF z
<1>9. CASE ~lost /\ Invalid(attempt, e)
  <2>1. GaveUp(Recover(WorkError(d), FALSE))
    BY <1>5, <1>6, <1>7, FailedCommand
  <2>. QED
    BY <1>3, <1>9, <2>1 DEF z
<1>10. CASE ~lost /\ ~Invalid(attempt, e)
  <2>1. k.ctx = Enter(attempt.before, attempt.cmd)
    BY <1>1, <1>10, AnswerScope DEF lost
  <2>2. Ready(d) /\ d.target = NoContext
    BY <1>2, <1>5, <2>1, BlockReady
  <2>3. CASE k.pending # <<>>
    <3>1. e.st = "prompt" /\ k.active # DiskFormat /\ attempt.cmd # Inspect
      BY <2>3, MidBlock
    <3>2. ~IsStandardOutputCommand(d, attempt)
      BY <1>6, <2>3, <3>1 DEF IsStandardOutputCommand
    <3>3. x = d \/ x = WorkError(d)
      BY <1>5, <1>6, <3>1, OnCommandExecutedTop
    <3>4. CASE x = d
      <4>1. Busy(x)
        BY <1>6, <2>3, <3>4 DEF Busy
      <4>2. z = DispatchNext(d)
        <5>. HIDE DEF x
        <5>. QED
          BY <1>3, <1>10, <3>1, <3>2, <3>4, <4>1
      <4>. QED
        BY <1>5, <1>6, <2>2, <4>2, DispatchNextScope DEF z
    <3>5. CASE x = WorkError(d)
      <4>1. x.error \/ x.raised
        BY <1>5, <3>5, WorkErrorGivesUp
      <4>2. z = DispatchNext(WorkError(d))
        <5>. HIDE DEF x
        <5>. QED
          BY <1>3, <1>10, <3>1, <3>2, <3>5, <4>1
      <4>3. GaveUp(DispatchNext(WorkError(d)))
        BY <1>5, <1>6, <1>7, FailedCommand
      <4>. QED
        BY <4>2, <4>3 DEF z
    <3>. QED
      BY <3>3, <3>4, <3>5
  <2>4. CASE k.pending = <<>>
    <3>1. AtTop(d)
      BY <1>1, <1>5, <1>6, <2>2, <2>4, ReadyAtTop
    <3>2. ASSUME NEW a, Good(a), Silent(d, a), AtTop(a)
          PROVE  GaveUp(DispatchNext(a)) \/ AtTop(DispatchNext(a)) \/ Fly(DispatchNext(a))
      <4>1. ~a.recovering /\ a.authenticated /\ a.out = <<>>
        BY <1>1, <1>6, <3>2 DEF Silent
      <4>2. Ready(a)
        BY <3>2, <4>1, AtTopReady
      <4>. QED
        BY <3>2, <4>1, <4>2, DispatchNextScope
    <3>3. CASE IsStandardOutputCommand(d, attempt)
      <4>1. d.active # NoFeature /\ d.active # DiskFormat /\ d.pending = <<>>
        BY <1>1, <1>6, <2>4, <3>3 DEF IsStandardOutputCommand, Plan, Paging
      <4>2. Good(s) /\ Silent(d, s) /\ AtTop(s)
        BY <1>5, <1>7, <3>1, <4>1, CompleteStandardOutputGood, CompleteStandardOutputTop
      <4>. HIDE DEF s
      <4>. QED
        BY <1>3, <1>10, <3>2, <3>3, <4>2 DEF z
    <3>4. CASE ~IsStandardOutputCommand(d, attempt)
      <4>1. Good(x) /\ Silent(d, x) /\ x.active = d.active
        BY <1>5, <1>7, OnCommandExecutedGood
      <4>2. x = WorkError(d) \/ AtTop(x)
        BY <1>1, <1>5, <1>6, <3>1, OnCommandExecutedTop
      <4>3. z = DispatchNext(y) \/ z = y
        BY <1>3, <1>10, <3>4
      <4>4. CASE x = WorkError(d)
        <5>1. (x.error \/ x.raised) /\ GaveUp(x)
          BY <1>5, <1>7, <4>4, WorkErrorGivesUp
        <5>2. y = x /\ x.out = <<>>
          BY <1>6, <4>1, <5>1 DEF Silent
        <5>. HIDE DEF x, y
        <5>3. GaveUp(DispatchNext(y)) /\ GaveUp(y)
          BY <4>1, <5>1, <5>2, DispatchNextGivesUp
        <5>. QED
          BY <4>3, <5>3 DEF z
      <4>5. CASE AtTop(x)
        <5>. HIDE DEF x
        <5>1. ~Busy(x) => x.pending = <<>>
          BY DEF Busy
        <5>2. Idle(x) /\ x.active # NoFeature
          BY <1>1, <1>6, <4>1, <4>5 DEF AtTop, Rest, Resting
        <5>3. ~Busy(x) => /\ Good(OnBlockComplete(x)) /\ Silent(x, OnBlockComplete(x))
                          /\ AtTop(OnBlockComplete(x))
          BY <4>1, <4>5, <5>1, <5>2, OnBlockCompleteGood, OnBlockCompleteTop
        <5>4. Good(y) /\ Silent(d, y) /\ AtTop(y)
          BY <4>1, <4>5, <5>3 DEF Silent
        <5>. HIDE DEF y
        <5>. QED
          BY <3>2, <4>3, <5>4 DEF z
      <4>. QED
        BY <4>2, <4>4, <4>5
    <3>. QED
      BY <3>3, <3>4
  <2>. QED
    BY <2>3, <2>4
<1>. QED
  BY <1>8, <1>9, <1>10

LEMMA CompleteInflightScope ==
    ASSUME NEW k, Good(k), k.out = <<>>, Typed(k), NEW e, e.st \in k.inflight.cmd.at,
           AnswerShows(k, e)
    PROVE  LET z == CompleteInflight(k, e) IN GaveUp(z) \/ AtTop(z) \/ Fly(z)
  BY CompleteReset, CompleteCleanup, CompleteBlock DEF Typed

(***************************************************************************)
(* A session that is lost, a state that is read, a timeout.                *)
(***************************************************************************)

LEMMA RestoringAgain ==
    ASSUME NEW cl \in Seq(CleanupWork), Restoring(cl), Len(cl) < 3, NEW w \in CleanupWork,
           w.cmd = SetMore[3 - Len(cl)]
    PROVE  Restoring(<<w>> \o cl)
<1>. DEFINE n == Len(cl)
            s == <<w>>
            t == s \o cl
<1>1. s \in Seq(CleanupWork) /\ Len(s) = 1 /\ s[1] = w
  OBVIOUS
<1>2. n \in Nat /\ n < 3 /\ \A i \in 1..n : cl[i].cmd = SetMore[3 - n + i]
  BY LenProperties DEF Restoring
<1>. HIDE DEF s
<1>3. /\ Len(t) = 1 + n
      /\ \A i \in 1..(1 + n) : t[i] = IF i <= 1 THEN s[i] ELSE cl[i - 1]
  BY <1>1, ConcatProperties
<1>4. w.cmd = SetMore[3 - n]
  OBVIOUS
<1>. HIDE DEF n, t
<1>5. \A i \in 1..(1 + n) : t[i].cmd = SetMore[3 - (1 + n) + i]
  <2>1. ASSUME NEW i \in 1..(1 + n) PROVE t[i].cmd = SetMore[3 - (1 + n) + i]
    <3>1. CASE i = 1
      <4>1. 3 - (1 + n) + i = 3 - n
        BY <1>2, <3>1
      <4>. QED
        BY <1>1, <1>2, <1>3, <1>4, <3>1, <4>1
    <3>2. CASE i # 1
      <4>1. i - 1 \in 1..n /\ 3 - (1 + n) + i = 3 - n + (i - 1) /\ ~(i <= 1)
        BY <1>2, <3>2
      <4>. QED
        BY <1>2, <1>3, <4>1
    <3>. QED
      BY <3>1, <3>2
  <2>. QED
    BY <2>1
<1>6. 1 + n <= 3
  BY <1>2
<1>7. Restoring(t)
  BY <1>3, <1>5, <1>6 DEF Restoring
<1>. QED
  BY <1>7 DEF t, s

LEMMA SessionLossScope ==
    ASSUME NEW k, Good(k), Typed(k) \/ Rest(k)
    PROVE  GaveUp(SessionLoss(k)) \/ Rest(SessionLoss(k))
<1>. DEFINE a == [k EXCEPT !.recovering = TRUE]
            attempt == k.inflight
            d == [k EXCEPT !.recovering = TRUE, !.inflight = NoAttempt]
            r == [d EXCEPT !.inReset = FALSE]
            again == TRUE
            w == [cmd |-> attempt.cmd, again |-> again]
            c == [d EXCEPT !.cleanup = <<w>> \o @, !.inCleanup = FALSE]
            l == OnSessionLoss(d)
            p == [l EXCEPT !.pending = <<>>]
            z == SessionLoss(k)
<1>0. z = IF Idle(k) THEN d
          ELSE IF k.inReset THEN r
          ELSE IF k.inCleanup THEN IF attempt.again THEN WorkError(d) ELSE c
          ELSE IF attempt.cmd.loss = "restart" THEN RestartBlock(l, attempt) ELSE p
  BY DEF SessionLoss
<1>1. Calm(k) /\ Plan(k)
  BY DEF Typed, Rest, Resting
<1>2. DOMAIN a = Fields /\ Parts(a) = Parts(k) /\ ScopeParts(a) = ScopeParts(k)
  BY DEF Good, Fields, Parts, ScopeParts
<1>3. /\ DOMAIN d = Fields /\ Work(d) = Work(a) /\ d.inflight = NoAttempt
      /\ d.inCleanup = k.inCleanup /\ d.inReset = k.inReset
      /\ d.pending = k.pending /\ d.cleanup = k.cleanup /\ d.cmds = k.cmds
      /\ d.target = k.target /\ d.active = k.active /\ d.std = k.std
  BY DEF Good, Fields, Work
<1>4. DOMAIN r = Fields /\ Work(r) = Work(a) /\ r.inflight = NoAttempt /\ ~r.inReset
      /\ r.inCleanup = k.inCleanup
      /\ r.pending = k.pending /\ r.cmds = k.cmds /\ r.target = k.target /\ r.active = k.active
  BY DEF Good, Fields, Work
<1>. HIDE DEF a, z
<1>5. Good(a) /\ Calm(a) /\ Plan(a)
  BY <1>1, <1>2, GoodByParts, SameScope
<1>6. CASE Idle(k)
  <2>1. Rest(k)
    BY <1>6 DEF Typed
  <2>2. ScopeParts(d) = ScopeParts(k)
    BY <1>6 DEF ScopeParts, Good, Fields, Idle
  <2>. HIDE DEF d
  <2>3. Rest(d)
    BY <2>1, <2>2, SameScope
  <2>. QED
    BY <1>0, <1>6, <2>3 DEF z
<1>7. CASE ~Idle(k) /\ k.inReset
  <2>1. ~k.inCleanup /\ Replay(k)
    BY <1>7 DEF Typed, Rest, Resting, InBlock, InCleanup, InReset
  <2>. HIDE DEF r
  <2>2. Resting(r)
    BY <1>4, <1>5, <2>1, EndScope
  <2>3. Rest(r)
    BY <1>4, <2>1, <2>2 DEF Rest, Replay
  <2>. QED
    BY <1>0, <1>7, <2>3 DEF z
<1>8. CASE ~Idle(k) /\ ~k.inReset /\ k.inCleanup
  <2>1. InCleanup(k)
    BY <1>8 DEF Typed, Rest, Resting, InBlock, InCleanup, InReset
  <2>2. CASE attempt.again
    <3>. HIDE DEF d
    <3>1. Good(d) /\ Idle(d)
      BY <1>3, <1>5, EndOfCommand DEF Work
    <3>2. GaveUp(WorkError(d))
      BY <3>1, WorkErrorGivesUp
    <3>. QED
      BY <1>0, <1>8, <2>2, <3>2 DEF z
  <2>3. CASE ~attempt.again
    <3>1. /\ c.errors = k.errors /\ c.error = k.error /\ c.raised = k.raised
          /\ c.blocks = k.blocks /\ c.cmds = k.cmds /\ c.pending = k.pending
          /\ c.cleanup = <<w>> \o k.cleanup /\ c.active = k.active /\ c.blockCtx = k.blockCtx
          /\ c.inflight = NoAttempt /\ ~c.inCleanup /\ c.inReset = k.inReset
          /\ c.target = k.target /\ c.std = k.std
      BY DEF Good, Fields
    <3>2. /\ attempt.cmd \in Cmds \ {Inspect} /\ k.cleanup \in Seq(CleanupWork)
          /\ Restoring(k.cleanup) /\ Len(k.cleanup) < 3
          /\ attempt.cmd = SetMore[3 - Len(k.cleanup)]
      BY <1>1, <1>8, <2>1 DEF Good, Typing, Plan, InCleanup
    <3>. HIDE DEF attempt
    <3>3. w \in CleanupWork /\ w.cmd = attempt.cmd
      BY <3>2 DEF CleanupWork
    <3>. HIDE DEF w
    <3>4. Restoring(<<w>> \o k.cleanup)
      BY <3>2, <3>3, RestoringAgain
    <3>. HIDE DEF c
    <3>5. k.active = NoFeature /\ k.pending = <<>> /\ k.target = NoContext
      BY <1>1, <2>1 DEF InCleanup, Plan
    <3>6. Calm(c) /\ Plan(c)
      BY <1>1, <3>1, <3>4, <3>5 DEF Calm, Plan, Paging
    <3>7. Rest(c)
      BY <1>8, <3>1, <3>5, <3>6 DEF Rest, Resting, Idle
    <3>. QED
      BY <1>0, <1>8, <2>3, <3>7 DEF z, attempt
  <2>. QED
    BY <2>2, <2>3
<1>9. CASE ~Idle(k) /\ ~k.inReset /\ ~k.inCleanup
  <2>1. InBlock(k)
    BY <1>9 DEF Typed, Rest, Resting, InBlock, InCleanup, InReset
  <2>2. k.active # NoFeature /\ k.target = NoContext
    BY <2>1 DEF InBlock
  <2>. HIDE DEF d
  <2>3. ~d.inCleanup /\ ~d.inReset
    BY <1>3, <1>9
  <2>4. Good(d) /\ Resting(d)
    BY <1>3, <1>5, <2>3, EndScope
  <2>5. Good(l) /\ ScopeParts(l) = ScopeParts(d) /\ l.active = d.active
    <3>. DEFINE f == [d EXCEPT !.left = @ - 1, !.disk = @ + 1, !.stage = "restart-list"]
    <3>1. l = d \/ l = f
      BY DEF OnSessionLoss
    <3>2. Good(f) /\ f.active = d.active
      BY <2>4, NextDiskGood
    <3>3. ScopeParts(f) = ScopeParts(d)
      BY <2>4 DEF Good, Fields, ScopeParts
    <3>. HIDE DEF l, f
    <3>. QED
      BY <2>4, <3>1, <3>2, <3>3
  <2>. HIDE DEF l
  <2>6. Resting(l) /\ l.active # NoFeature /\ l.target = NoContext
    <3>1. l.target = d.target /\ l.inflight = d.inflight
          /\ l.inCleanup = d.inCleanup /\ l.inReset = d.inReset
      BY <2>5 DEF ScopeParts
    <3>2. Calm(l) /\ Plan(l)
      BY <2>4, <2>5, SameScope DEF Resting
    <3>. QED
      BY <1>3, <2>2, <2>4, <2>5, <3>1, <3>2 DEF Resting, Idle
  <2>7. CASE attempt.cmd.loss = "restart"
    <3>1. LET x == RestartBlock(l, attempt)
          IN  GaveUp(x) \/ (Resting(x) /\ Replay(x))
      BY <2>5, <2>6, RestartBlockScope
    <3>2. z = RestartBlock(l, attempt)
      BY <1>0, <1>9, <2>7
    <3>. QED
      BY <3>1, <3>2 DEF Rest, Replay, z
  <2>8. CASE attempt.cmd.loss # "restart"
    <3>1. /\ p.errors = l.errors /\ p.error = l.error /\ p.raised = l.raised
          /\ p.blocks = l.blocks /\ p.cmds = l.cmds /\ p.pending = <<>>
          /\ p.cleanup = l.cleanup /\ p.active = l.active /\ p.blockCtx = l.blockCtx
          /\ p.inflight = l.inflight /\ p.inCleanup = l.inCleanup /\ p.inReset = l.inReset
          /\ p.target = l.target /\ p.std = l.std
      BY <2>5 DEF Good, Fields
    <3>. HIDE DEF p
    <3>2. RestOf(<<>>, l.cmds)
      BY <2>5, WholeBlock, LenProperties DEF Good, Typing, IsBlock
    <3>3. Calm(p) /\ Plan(p)
      BY <2>6, <3>1, <3>2 DEF Calm, Plan, Paging, Resting
    <3>4. Rest(p)
      BY <2>6, <3>1, <3>3 DEF Rest, Resting, Idle
    <3>. QED
      BY <1>0, <1>9, <2>8, <3>4 DEF z
  <2>. QED
    BY <2>7, <2>8
<1>. QED
  BY <1>6, <1>7, <1>8, <1>9

\* Nothing was given up: a command is in flight in its scope, or none is and a known
\* prompt shows the top level.
OnCourse(k) ==
    \/ Fly(k)
    \/ Rest(k) /\ (k.known = "prompt" => k.ctx = <<>> /\ k.authenticated)

\* Every command may be answered by a prompt, none by a login.
LEMMA PromptAnswers ==
    \A c \in Cmds : "prompt" \in c.at /\ c.at \subseteq {"prompt", "confirm", "rebooting"}
<1>1. \A d \in Nat : "prompt" \in FormatSpec(d).at /\ "prompt" \in YesSpec(d).at
  BY DEF FormatSpec, YesSpec, Cmd
<1>2. ASSUME NEW c \in Cmds PROVE "prompt" \in c.at
  <2>1. CASE c.at = {"prompt"}
    BY <2>1
  <2>2. CASE c.at # {"prompt"}
    <3>1. \A o, a : Cmd(o, a).at = {"prompt"}
      BY DEF Cmd
    <3>2. c \notin Own
      <4>1. \A o \in Own : \E x, y : o = Cmd(x, y)
        BY Zenon DEF Own, Inspect
      <4>. QED
        BY <2>2, <3>1, <4>1
    <3>3. c \notin Written
      BY <2>2, FosAssumption
    <3>. QED
      BY <1>1, <3>2, <3>3 DEF Cmds
  <2>. QED
    BY <2>1, <2>2
<1>. QED
  BY <1>2, CommandsKinds

LEMMA RestReady ==
    ASSUME NEW k, Good(k), Rest(k), k.ctx = <<>>, ~k.recovering, k.authenticated
    PROVE  Ready(k)
<1>1. CASE k.target = NoContext
  BY <1>1, AtTopReady DEF AtTop
<1>2. CASE k.target # NoContext
  BY <1>2, TopNotUnknown DEF Rest, Ready
<1>. QED
  BY <1>1, <1>2

\* What reading state e, nothing given up, makes of commander k0: work is given up, or
\* d is on its course.  A lost session ends the command in flight, another state that is
\* no prompt leaves it there or answers the one command of a block.
Follows(k0, e, d) ==
    \/ GaveUp(d)
    \/ /\ OnCourse(d)
       /\ e.st \in {"lost", "username"} => Rest(d)
       /\ e.st # "prompt" /\ Rest(k0) => Rest(d)
       /\ e.st \notin {"prompt", "lost", "username"} /\ Fly(k0) =>
            \/ d.inflight = k0.inflight /\ d.inReset = k0.inReset /\ d.out = <<>>
            \/ /\ e.st \in {"confirm", "rebooting"}
               /\ k0.inflight.before = <<>> /\ ~MayChangeContext(k0.inflight.cmd)

LEMMA OtherAnswerAtTop ==
    ASSUME NEW k, Good(k), Typed(k), NEW e, e.st \in k.inflight.cmd.at, e.st # "prompt"
    PROVE  k.inflight.before = <<>> /\ ~MayChangeContext(k.inflight.cmd)
<1>1. k.inflight.cmd \in Cmds /\ k.inflight.cmd.at # {"prompt"}
  BY DEF Good, Typing, Typed
<1>2. ~MayChangeContext(k.inflight.cmd)
  BY <1>1, OtherAnswers
<1>3. InBlock(k)
  <2>1. ~InReset(k)
    BY <1>1, OtherAnswers DEF InReset
  <2>2. ~InCleanup(k)
    <3>1. InCleanup(k) => 3 - Len(k.cleanup) \in 1..3
      BY LenProperties DEF InCleanup, Good, Typing
    <3>. QED
      BY <1>1, <3>1, OtherAnswers DEF InCleanup
  <2>. QED
    BY <2>1, <2>2 DEF Typed
<1>4. k.inflight.index = 1
  <2>1. k.pending = <<>>
    BY <1>3, MidBlock
  <2>2. k.inflight.index = Len(k.cmds) /\ Len(k.cmds) \in Nat /\ k.inflight.index >= 1
    <3>1. Len(<<>>) = 0 /\ Len(k.cmds) \in Nat
      BY LenProperties DEF Good, Typing, IsBlock
    <3>. QED
      BY <1>3, <2>1, <3>1 DEF InBlock
  <2>3. k.inflight.cmd = k.cmds[k.inflight.index] /\ AnsweredByPrompts(k.cmds)
    BY <1>3 DEF InBlock, Typed, Plan
  <2>. QED
    BY <1>1, <2>2, <2>3 DEF AnsweredByPrompts
<1>5. k.inflight.before = Intended(k.cmds, 1)
  BY <1>3, <1>4 DEF InBlock
<1>. QED
  BY <1>2, <1>5, IntendedScopes

LEMMA OnStateScope ==
    ASSUME NEW k0, Good(k0), k0.out = <<>>, GaveUp(k0) \/ OnCourse(k0), NEW e,
           ~GaveUp(k0) /\ e.st = "prompt" =>
               /\ e.ctx \in Seq(Args)
               /\ Idle(k0) => e.ctx = <<>>
               /\ ~Idle(k0) /\ ~k0.inReset /\ MayChangeContext(k0.inflight.cmd) =>
                      \/ e.ctx = Enter(k0.inflight.before, k0.inflight.cmd)
                      \/ Invalid(k0.inflight, e)
    PROVE  LET d == OnState(k0, e)
           IN  /\ GaveUp(k0) => GaveUp(d)
               /\ ~GaveUp(k0) => Follows(k0, e, d)
<1>. DEFINE k == [k0 EXCEPT
                !.state = e.st,
                !.known = e.st,
                !.ctx = IF e.st = "prompt" THEN e.ctx ELSE @,
                !.authenticated = @ \/ e.st \in {"prompt", "accepted"},
                !.recovering = CASE e.st \in {"prompt", "accepted"} -> FALSE
                                 [] e.st = "lost" /\ k0.error -> TRUE
                                 [] OTHER -> @]
            d == OnState(k0, e)
            lost == e.st = "lost" \/ (e.st = "username" /\ k.authenticated)
            done == ~Idle(k) /\ e.st \in k.inflight.cmd.at
<1>1. /\ DOMAIN k = Fields /\ Parts(k) = Parts(k0) /\ k.out = <<>> /\ k.known = e.st
      /\ k.errors = k0.errors /\ k.error = k0.error /\ k.raised = k0.raised
      /\ k.blocks = k0.blocks /\ k.cmds = k0.cmds /\ k.pending = k0.pending
      /\ k.cleanup = k0.cleanup /\ k.active = k0.active /\ k.blockCtx = k0.blockCtx
      /\ k.inflight = k0.inflight /\ k.inCleanup = k0.inCleanup /\ k.inReset = k0.inReset
      /\ k.target = k0.target /\ k.std = k0.std
      /\ k.ctx = IF e.st = "prompt" THEN e.ctx ELSE k0.ctx
  BY DEF Good, Fields, Parts
<1>2. /\ e.st = "prompt" => ~k.recovering /\ k.authenticated
      /\ k0.authenticated => k.authenticated
      /\ ~k0.recovering /\ ~k0.error => ~k.recovering
  BY Zenon DEF Good, Fields
<1>3. d = CASE k.error -> Recover(k, FALSE)
            [] ~k.error /\ lost -> SessionLoss(k)
            [] ~k.error /\ done -> CompleteInflight(k, e)
            [] ~k.error /\ Idle(k) /\ e.st = "prompt" -> DispatchNext(k)
            [] OTHER -> k
  BY DEF OnState
<1>. HIDE DEF k
<1>4. Good(k)
  BY <1>1, GoodByParts
<1>5. ~(lost /\ done)
  <2>1. ~Idle(k) => k.inflight.cmd.at \subseteq {"prompt", "confirm", "rebooting"}
    BY <1>4, PromptAnswers DEF Good, Typing
  <2>. QED
    BY <2>1
<1>6. lost => e.st # "prompt"
  OBVIOUS
<1>. HIDE DEF lost
<1>7. ASSUME GaveUp(k0) PROVE GaveUp(d)
  <2>1. CASE k0.errors # {}
    <3>1. k0.errors \subseteq d.errors
      BY OnStateGood
    <3>. QED
      BY <2>1, <3>1 DEF GaveUp
  <2>2. CASE k0.errors = {} /\ (k0.error \/ k0.raised) /\ Idle(k0)
    <3>1. GaveUp(k) /\ Idle(k)
      BY <1>1, <2>2 DEF GaveUp, Idle
    <3>2. CASE k.error
      <4>1. d = Recover(k, FALSE)
        BY <1>3, <3>2
      <4>. QED
        BY <1>1, <1>4, <3>1, <4>1, RecoverGivesUp
    <3>3. CASE ~k.error
      <4>1. d \in {SessionLoss(k), DispatchNext(k), k}
        <5>1. lost => d = SessionLoss(k)
          BY <1>3, <1>6, <3>1, <3>3
        <5>2. ~lost /\ e.st = "prompt" => d = DispatchNext(k)
          BY <1>3, <3>1, <3>3
        <5>3. ~lost /\ e.st # "prompt" => d = k
          BY <1>3, <3>1, <3>3
        <5>. QED
          BY <5>1, <5>2, <5>3
      <4>2. GaveUp(SessionLoss(k))
        <5>1. SessionLoss(k) = [k EXCEPT !.recovering = TRUE, !.inflight = NoAttempt]
          BY <3>1 DEF SessionLoss
        <5>2. /\ SessionLoss(k).errors = k.errors /\ SessionLoss(k).error = k.error
              /\ SessionLoss(k).raised = k.raised /\ SessionLoss(k).inflight = NoAttempt
          BY <1>1, <5>1 DEF Fields
        <5>. QED
          BY <3>1, <5>2 DEF GaveUp, Idle
      <4>3. GaveUp(DispatchNext(k))
        BY <1>1, <1>4, <3>1, DispatchNextGivesUp
      <4>. HIDE DEF d
      <4>. QED
        BY <3>1, <4>1, <4>2, <4>3 DEF d
    <3>. QED
      BY <3>2, <3>3
  <2>. QED
    BY <1>7, <2>1, <2>2 DEF GaveUp
<1>8. ASSUME ~GaveUp(k0), Rest(k0) PROVE Follows(k0, e, d)
  <2>0. ~Fly(k0)
    BY <1>8 DEF Fly, Typed, Rest, Resting
  <2>1. Rest(k) /\ Idle(k) /\ ~k.error
    <3>1. Calm(k0) /\ Plan(k0) /\ Idle(k0) /\ ~k0.inCleanup /\ ~k0.inReset
      BY <1>8 DEF Rest, Resting
    <3>2. Calm(k) /\ Plan(k)
      BY <1>1, <3>1 DEF Calm, Plan, Paging
    <3>3. Resting(k)
      BY <1>1, <3>1, <3>2 DEF Resting, Idle
    <3>4. Rest(k)
      BY <1>1, <1>8, <3>3 DEF Rest, Replay
    <3>. QED
      BY <3>3, <3>4 DEF Resting, Calm
  <2>2. CASE lost
    <3>1. d = SessionLoss(k)
      BY <1>3, <1>6, <2>1, <2>2
    <3>2. GaveUp(d) \/ Rest(d)
      BY <1>4, <2>1, <3>1, SessionLossScope
    <3>3. d.known = e.st
      BY OnStateGood
    <3>. HIDE DEF d
    <3>. QED
      BY <1>6, <2>0, <2>2, <3>2, <3>3 DEF OnCourse, Follows
  <2>3. CASE ~lost /\ e.st = "prompt"
    <3>1. d = DispatchNext(k)
      BY <1>3, <2>1, <2>3
    <3>2. k.ctx = <<>> /\ ~k.recovering /\ k.authenticated
      <4>1. Idle(k0)
        BY <1>1, <2>1 DEF Idle
      <4>. QED
        BY <1>1, <1>2, <1>8, <2>3, <4>1
    <3>3. Ready(k)
      BY <1>4, <2>1, <3>2, RestReady
    <3>4. GaveUp(d) \/ AtTop(d) \/ Fly(d)
      BY <1>1, <1>4, <3>1, <3>3, DispatchNextScope
    <3>5. d.authenticated = k.authenticated
      BY <1>1, <1>4, <3>1, DispatchNextGood DEF AtMostOne, Keeps
    <3>. HIDE DEF d
    <3>. QED
      BY <2>0, <2>3, <3>2, <3>4, <3>5 DEF OnCourse, AtTop, Follows
  <2>4. CASE ~lost /\ e.st # "prompt"
    <3>1. d = k
      BY <1>3, <2>1, <2>4
    <3>. HIDE DEF d
    <3>. QED
      BY <1>1, <2>0, <2>1, <2>4, <3>1 DEF OnCourse, Follows
  <2>. QED
    BY <2>2, <2>3, <2>4
<1>9. ASSUME ~GaveUp(k0), Fly(k0) PROVE Follows(k0, e, d)
  <2>0. ~Rest(k0)
    BY <1>9 DEF Fly, Typed, Rest, Resting
  <2>1. /\ Calm(k0) /\ Plan(k0) /\ ~Idle(k0) /\ ~k0.recovering /\ k0.authenticated
        /\ NoContext \notin {k0.ctx, k0.inflight.before} /\ k0.ctx = k0.inflight.before
        /\ ~k0.error
    BY <1>9 DEF Fly, Typed, Calm
  <2>2. Typed(k) /\ ~Idle(k) /\ ~k.error
    <3>1. Calm(k) /\ Plan(k) /\ ~Idle(k) /\ ~k.recovering /\ k.authenticated /\ ~k.error
      BY <1>1, <1>2, <2>1 DEF Calm, Plan, Paging, Idle
    <3>2. e.st = "prompt" => e.ctx # NoContext
      BY <1>9, ScopeNotUnknown
    <3>3. NoContext \notin {k.ctx, k.inflight.before}
      BY <1>1, <2>1, <3>2
    <3>4. InBlock(k) \/ InCleanup(k) \/ InReset(k)
      <4>1. InBlock(k0) => InBlock(k)
        BY <1>1 DEF InBlock
      <4>2. InCleanup(k0) => InCleanup(k)
        BY <1>1 DEF InCleanup
      <4>3. InReset(k0) => InReset(k)
        BY <1>1 DEF InReset, Replay
      <4>. QED
        BY <1>9, <4>1, <4>2, <4>3 DEF Fly, Typed
    <3>. QED
      BY <3>1, <3>3, <3>4 DEF Typed
  <2>7. e.st \in {"lost", "username"} <=> lost
    BY <1>2, <2>1 DEF lost
  <2>3. CASE lost
    <3>1. d = SessionLoss(k)
      BY <1>3, <1>5, <2>2, <2>3
    <3>2. GaveUp(d) \/ Rest(d)
      BY <1>4, <2>2, <3>1, SessionLossScope
    <3>3. d.known = e.st
      BY OnStateGood
    <3>. HIDE DEF d
    <3>. QED
      BY <1>6, <2>0, <2>3, <2>7, <3>2, <3>3 DEF OnCourse, Follows
  <2>4. CASE ~lost /\ done
    <3>1. d = CompleteInflight(k, e)
      BY <1>3, <2>2, <2>4
    <3>2. AnswerShows(k, e)
      BY <1>1, <1>9, <2>1 DEF AnswerShows
    <3>3. GaveUp(d) \/ AtTop(d) \/ Fly(d)
      BY <1>1, <1>4, <2>2, <2>4, <3>1, <3>2, CompleteInflightScope
    <3>4. d.authenticated = k.authenticated
      BY <1>1, <1>4, <2>2, <3>1, CompleteInflightGood DEF AtMostOne, Keeps
    <3>5. e.st \in {"prompt", "confirm", "rebooting"}
      <4>1. k.inflight.cmd \in Cmds
        BY <1>4, <2>2 DEF Good, Typing
      <4>. QED
        BY <2>4, <4>1, PromptAnswers
    <3>6. e.st # "prompt" => k0.inflight.before = <<>> /\ ~MayChangeContext(k0.inflight.cmd)
      <4>1. e.st # "prompt" => k.inflight.before = <<>> /\ ~MayChangeContext(k.inflight.cmd)
        BY <1>4, <2>2, <2>4, OtherAnswerAtTop
      <4>. QED
        BY <1>1, <4>1
    <3>. HIDE DEF d
    <3>7. GaveUp(d) \/ OnCourse(d)
      BY <2>2, <3>3, <3>4 DEF OnCourse, AtTop, Typed
    <3>. QED
      BY <2>0, <3>5, <3>6, <3>7 DEF Follows
  <2>5. CASE ~lost /\ ~done
    <3>1. d = k
      BY <1>3, <2>2, <2>5
    <3>2. e.st # "prompt"
      <4>1. k.inflight.cmd \in Cmds
        BY <1>4, <2>2 DEF Good, Typing
      <4>. QED
        BY <2>2, <2>5, <4>1, PromptAnswers
    <3>3. Fly(k)
      BY <1>1, <2>1, <2>2, <3>2 DEF Fly
    <3>4. /\ d.inflight = k0.inflight /\ d.inReset = k0.inReset /\ d.out = <<>>
          /\ e.st \notin {"lost", "username"}
      BY <1>1, <2>5, <2>7, <3>1
    <3>. HIDE DEF d
    <3>. QED
      BY <2>0, <3>1, <3>2, <3>3, <3>4 DEF OnCourse, Follows
  <2>. QED
    BY <2>3, <2>4, <2>5
<1>. QED
  BY <1>7, <1>8, <1>9 DEF OnCourse

LEMMA OnIdleScope ==
    ASSUME NEW k, Good(k), k.out = <<>>, GaveUp(k) \/ OnCourse(k)
    PROVE  /\ GaveUp(OnIdle(k)) \/ OnCourse(OnIdle(k))
           /\ GaveUp(k) => GaveUp(OnIdle(k))
<1>1. CASE OnIdle(k) = k
  BY <1>1
<1>2. CASE OnIdle(k) # k /\ k.error
  <2>1. OnIdle(k) = Recover(k, TRUE) /\ GaveUp(k)
    BY <1>2 DEF OnIdle, GaveUp
  <2>. QED
    BY <2>1, RecoverGivesUp
<1>3. CASE OnIdle(k) # k /\ ~k.error
  <2>1. OnIdle(k) = DispatchNext(k) /\ k.known = "prompt" /\ Idle(k) /\ ~k.recovering
    BY <1>3 DEF OnIdle
  <2>2. CASE GaveUp(k)
    BY <2>1, <2>2, DispatchNextGivesUp
  <2>3. CASE ~GaveUp(k)
    <3>1. Rest(k) /\ k.ctx = <<>> /\ k.authenticated
      BY <2>1, <2>3 DEF OnCourse, Fly, Typed
    <3>2. Ready(k)
      BY <2>1, <3>1, RestReady
    <3>. DEFINE d == DispatchNext(k)
    <3>3. GaveUp(d) \/ AtTop(d) \/ Fly(d)
      BY <3>2, DispatchNextScope
    <3>4. d.authenticated = k.authenticated
      BY DispatchNextGood DEF AtMostOne, Keeps
    <3>. HIDE DEF d
    <3>5. GaveUp(d) \/ OnCourse(d)
      BY <3>1, <3>3, <3>4 DEF OnCourse, AtTop
    <3>. QED
      BY <2>1, <2>3, <3>5 DEF d
  <2>. QED
    BY <2>2, <2>3
<1>. QED
  BY <1>1, <1>2, <1>3

(***************************************************************************)
(* The guest at the other end of the line, for a commander k, a guest g, a *)
(* line t on its way to it and the states r the driver has not read.       *)
(***************************************************************************)

\* A guest that is up has said nothing of an end of its session and shows its scope; the
\* end of one is followed by no prompt, a rejected login by nothing.
LineOrdered(g, r) ==
    /\ g.up => \A i \in 1..Len(r) :
           /\ r[i].st \notin {"lost", "username", "rebooting", "rejected"}
           /\ r[i].st \in {"prompt", "echo"} => r[i].ctx = g.ctx
    /\ \A i, j \in 1..Len(r) :
           j < i /\ r[j].st \in {"lost", "username"} => r[i].st \notin Prompts
    /\ \A i \in 1..Len(r) : r[i].st = "rejected" => Len(r) = 1

\* The commander hears of a session that ended, or knows of no prompt.
Heard(k, g, r) ==
    \/ g.up
    \/ r # <<>> /\ r[Len(r)].st = "username"
    \/ Idle(k) /\ k.known # "prompt" /\ Quiet(r)

\* While no command is in flight the guest is at the top level.
AtRest(k, g, t, r) ==
    Idle(k) =>
        /\ g.up => t = <<>> /\ g.ctx = <<>>
        /\ \A i \in 1..Len(r) : r[i].st \in Prompts => r[i].st = "prompt" /\ r[i].ctx = <<>>

Changes(k) == ~k.inReset /\ MayChangeContext(k.inflight.cmd)
Led(k) == Enter(k.inflight.before, k.inflight.cmd)

\* A command in flight that opens or closes a scope is typed in the one the prompt before
\* it showed, and a prompt behind it shows where it leads to unless it was refused; the
\* single command of a block is typed at the top level and leaves the guest there.
Served(k, g, t, r) ==
    ~Idle(k) =>
        /\ Changes(k) => \A i \in 1..Len(r) : r[i].st \in {"prompt", "echo"} =>
                            r[i].ctx = Led(k) \/ Invalid(k.inflight, r[i])
        /\ g.up =>
               /\ t \in {<<>>, <<k.inflight.cmd>>, <<Return>>}
               /\ Changes(k) /\ t = <<k.inflight.cmd>> => g.ctx = k.inflight.before
               /\ Changes(k) /\ t = <<Return>> => g.ctx = Led(k)
               /\ k.inflight.before = <<>> /\ ~MayChangeContext(k.inflight.cmd) => g.ctx = <<>>

Watched(k, g, t, r) == Heard(k, g, r) /\ AtRest(k, g, t, r) /\ Served(k, g, t, r)

OnCourseOrNot(k) == GaveUp(k) \/ OnCourse(k)

Ongoing == phase = "starting" /\ ~seen.unseen /\ ~GaveUp(cli)

SeenFields == {"swallowed", "unseen", "skipped", "cleanupCut", "quietReboot"}

\* Until work is given up, or a scope is lost under a command that opens or closes one,
\* the commander is on its course and the guest where the commander believes it.
ScopeInv ==
    /\ FosInv
    /\ DOMAIN seen = SeenFields
    /\ LineOrdered(guest, rx)
    /\ seen.unseen \/ OnCourseOrNot(cli)
    /\ Ongoing => Watched(cli, guest, typed, rx)

LEMMA InitScopeInv == Init => ScopeInv
<1>. SUFFICES ASSUME Init PROVE ScopeInv
  OBVIOUS
<1>1. FosInv
  BY InitFosInv
<1>2. /\ cli.blocks = <<>> /\ cli.cmds = <<>> /\ cli.pending = <<>> /\ cli.cleanup = <<>>
      /\ cli.active = NoFeature /\ cli.inflight = NoAttempt /\ cli.target = NoContext
      /\ ~cli.inCleanup /\ ~cli.inReset /\ cli.std = "none" /\ cli.known = "unknown"
      /\ cli.errors = {} /\ ~cli.error /\ ~cli.raised
      /\ ~guest.up /\ guest.ctx = <<>> /\ typed = <<>>
  BY DEF Init
<1>3. Len(rx) = 1 /\ rx[1].st = "username" /\ rx # <<>>
  <2>1. rx = <<Event("username")>> /\ Event("username").st = "username"
    BY EventsOfStates DEF Init, States
  <2>. DEFINE u == Event("username")
  <2>2. Len(<<u>>) = 1 /\ <<u>>[1] = u /\ <<u>> # <<>>
    OBVIOUS
  <2>. HIDE DEF u
  <2>. QED
    BY <2>1, <2>2 DEF u
<1>4. LineOrdered(guest, rx)
  BY <1>2, <1>3 DEF LineOrdered
<1>5. Rest(cli)
  <2>1. Len(<<>>) = 0 /\ Restoring(<<>>) /\ RestOf(<<>>, <<>>)
    BY DEF Restoring, RestOf
  <2>2. Plan(cli)
    BY <1>2, <2>1, ScopedNothing DEF Plan, Paging
  <2>. QED
    BY <1>2, <2>2 DEF Rest, Resting, Calm, Idle
<1>6. OnCourseOrNot(cli)
  BY <1>2, <1>5 DEF OnCourseOrNot, OnCourse
<1>7. Watched(cli, guest, typed, rx)
  BY <1>2, <1>3 DEF Watched, Heard, AtRest, Served, Idle, Prompts
<1>8. DOMAIN seen = SeenFields
  BY DEF Init, SeenFields
<1>. QED
  BY <1>1, <1>4, <1>6, <1>7, <1>8 DEF ScopeInv

LEMMA SameCourse ==
    ASSUME NEW k, NEW d, ScopeParts(d) = ScopeParts(k), d.known = k.known \/ d.known = "echo",
           d.authenticated = k.authenticated, d.recovering = k.recovering
    PROVE  /\ GaveUp(d) <=> GaveUp(k)
           /\ OnCourse(k) => OnCourse(d)
           /\ Rest(d) <=> Rest(k)
           /\ Fly(d) <=> Fly(k)
           /\ Idle(d) <=> Idle(k)
<1>1. /\ d.errors = k.errors /\ d.error = k.error /\ d.raised = k.raised /\ d.blocks = k.blocks
      /\ d.cmds = k.cmds /\ d.pending = k.pending /\ d.cleanup = k.cleanup
      /\ d.active = k.active /\ d.blockCtx = k.blockCtx /\ d.inflight = k.inflight
      /\ d.inCleanup = k.inCleanup /\ d.inReset = k.inReset /\ d.target = k.target
      /\ d.ctx = k.ctx /\ d.std = k.std
  BY DEF ScopeParts
<1>2. (Calm(d) <=> Calm(k)) /\ (Plan(d) <=> Plan(k)) /\ (Rest(d) <=> Rest(k))
  BY SameScope
<1>3. (GaveUp(d) <=> GaveUp(k)) /\ (Idle(d) <=> Idle(k))
  BY <1>1 DEF GaveUp, Idle
<1>4. /\ InBlock(d) <=> InBlock(k)
      /\ InCleanup(d) <=> InCleanup(k)
      /\ InReset(d) <=> InReset(k)
  BY <1>1 DEF InBlock, InCleanup, InReset, Replay
<1>5. Fly(d) <=> Fly(k)
  BY <1>1, <1>2, <1>3, <1>4 DEF Fly, Typed
<1>. QED
  BY <1>1, <1>2, <1>3, <1>5 DEF OnCourse

\* A commander that flies is not at rest.
LEMMA FlyOrRest ==
    ASSUME NEW k, OnCourse(k)
    PROVE  /\ Idle(k) => Rest(k) /\ ~Fly(k) /\ (k.known = "prompt" => k.ctx = <<>>)
           /\ ~Idle(k) => Fly(k) /\ ~Rest(k)
  BY DEF OnCourse, Fly, Typed, Rest, Resting

LEMMA OrderedTail ==
    ASSUME NEW r \in Seq(Events), r # <<>>, NEW g, LineOrdered(g, r)
    PROVE  LineOrdered(g, Tail(r))
<1>. DEFINE n == Len(r)
            u == Tail(r)
<1>1. /\ n \in Nat \ {0} /\ Len(u) = n - 1
      /\ \A i \in 1..(n - 1) : u[i] = r[i + 1]
  BY HeadTailProperties, EmptySeq
<1>2. /\ g.up => \A i \in 1..n :
           /\ r[i].st \notin {"lost", "username", "rebooting", "rejected"}
           /\ r[i].st \in {"prompt", "echo"} => r[i].ctx = g.ctx
      /\ \A i, j \in 1..n :
           j < i /\ r[j].st \in {"lost", "username"} => r[i].st \notin Prompts
      /\ \A i \in 1..n : r[i].st = "rejected" => n = 1
  BY DEF LineOrdered
<1>. HIDE DEF n, u
<1>3. \A i \in 1..(n - 1) : i + 1 \in 1..n
  BY <1>1
<1>4. \A i, j \in 1..(n - 1) : j < i => j + 1 < i + 1
  BY <1>1
<1>5. \A i \in 1..(n - 1) : n # 1
  BY <1>1
<1>6. g.up => \A i \in 1..(n - 1) :
           /\ u[i].st \notin {"lost", "username", "rebooting", "rejected"}
           /\ u[i].st \in {"prompt", "echo"} => u[i].ctx = g.ctx
  BY <1>1, <1>2, <1>3
<1>7. \A i, j \in 1..(n - 1) :
           j < i /\ u[j].st \in {"lost", "username"} => u[i].st \notin Prompts
  BY <1>1, <1>2, <1>3, <1>4
<1>8. \A i \in 1..(n - 1) : u[i].st = "rejected" => n - 1 = 1
  BY <1>1, <1>2, <1>3, <1>5
<1>9. LineOrdered(g, u)
  BY <1>1, <1>6, <1>7, <1>8 DEF LineOrdered
<1>. QED
  BY <1>9 DEF u

LEMMA TailElements ==
    ASSUME NEW r \in Seq(Events), r # <<>>
    PROVE  /\ \A i \in 1..Len(Tail(r)) : \E j \in 1..Len(r) : 1 < j /\ Tail(r)[i] = r[j]
           /\ 1 \in 1..Len(r) /\ Head(r) = r[1]
           /\ Tail(r) = <<>> => Head(r) = r[Len(r)]
           /\ Tail(r) # <<>> => Tail(r)[Len(Tail(r))] = r[Len(r)]
           /\ Quiet(<<>>) /\ (Quiet(r) => Head(r).st \notin Prompts /\ Quiet(Tail(r)))
<1>. DEFINE n == Len(r)
            u == Tail(r)
<1>0. /\ n \in Nat \ {0} /\ Len(u) = n - 1 /\ Head(r) = r[1] /\ u \in Seq(Events)
      /\ \A i \in 1..(n - 1) : u[i] = r[i + 1]
  BY HeadTailProperties, EmptySeq
<1>1. /\ n \in Nat \ {0} /\ Len(u) = n - 1 /\ Head(r) = r[1]
      /\ \A i \in 1..(n - 1) : u[i] = r[i + 1]
      /\ u = <<>> <=> n - 1 = 0
  <2>. HIDE DEF n, u
  <2>1. u = <<>> <=> Len(u) = 0
    BY <1>0, EmptySeq
  <2>. QED
    BY <1>0, <2>1
<1>2. /\ Quiet(r) <=> \A i \in 1..n : r[i].st \notin Prompts
      /\ Quiet(u) <=> \A i \in 1..(n - 1) : u[i].st \notin Prompts
      /\ Quiet(<<>>)
  BY <1>1 DEF Quiet
<1>. HIDE DEF n, u
<1>3. \A i \in 1..(n - 1) : i + 1 \in 1..n /\ u[i] = r[i + 1]
  BY <1>1
<1>4. 1 \in 1..n /\ (u = <<>> => n = 1)
  BY <1>1
<1>5. u # <<>> => u[n - 1] = r[n]
  <2>1. u # <<>> => n - 1 \in 1..(n - 1) /\ n - 1 + 1 = n
    BY <1>1
  <2>. QED
    BY <1>1, <2>1
<1>6. Quiet(r) => r[1].st \notin Prompts /\ Quiet(u)
  BY <1>2, <1>3, <1>4
<1>7. \A i \in 1..(n - 1) : \E j \in 1..n : 1 < j /\ u[i] = r[j]
  <2>1. \A i \in 1..(n - 1) : 1 < i + 1
    BY <1>1
  <2>. QED
    BY <1>3, <2>1
<1>. QED
  BY <1>1, <1>2, <1>4, <1>5, <1>6, <1>7 DEF n, u

\* What holds of the states not read holds without the first one.
LEMMA HeardTail ==
    ASSUME NEW r \in Seq(Events), r # <<>>, NEW k, NEW d, NEW g, Heard(k, g, r),
           Head(r).st = "username" => Idle(d) /\ d.known # "prompt",
           Idle(k) /\ Head(r).st \notin Prompts => Idle(d) /\ d.known # "prompt"
    PROVE  Heard(d, g, Tail(r))
<1>1. CASE g.up
  BY <1>1 DEF Heard
<1>2. CASE r[Len(r)].st = "username" /\ Tail(r) = <<>>
  BY <1>2, TailElements DEF Heard
<1>3. CASE r[Len(r)].st = "username" /\ Tail(r) # <<>>
  BY <1>3, TailElements DEF Heard
<1>4. CASE Idle(k) /\ Quiet(r)
  BY <1>4, TailElements DEF Heard
<1>. QED
  BY <1>1, <1>2, <1>3, <1>4 DEF Heard

LEMMA AtRestTail ==
    ASSUME NEW r \in Seq(Events), r # <<>>, NEW k, NEW d, NEW g, NEW t, AtRest(k, g, t, r),
           Idle(k)
    PROVE  AtRest(d, g, t, Tail(r))
  BY TailElements, Zenon DEF AtRest

LEMMA ServedTail ==
    ASSUME NEW r \in Seq(Events), r # <<>>, NEW k, NEW d, NEW g, NEW t, Served(k, g, t, r),
           d.inflight = k.inflight, d.inReset = k.inReset
    PROVE  Served(d, g, t, Tail(r))
<1>1. /\ Changes(d) <=> Changes(k)
      /\ Led(d) = Led(k) /\ (Idle(d) <=> Idle(k))
  BY DEF Changes, Led, Idle
<1>2. CASE Idle(k)
  BY <1>1, <1>2 DEF Served
<1>3. CASE ~Idle(k)
  <2>1. Changes(k) => \A i \in 1..Len(Tail(r)) : Tail(r)[i].st \in {"prompt", "echo"} =>
                  Tail(r)[i].ctx = Led(k) \/ Invalid(k.inflight, Tail(r)[i])
    BY <1>3, TailElements, Zenon DEF Served
  <2>. QED
    BY <1>1, <1>3, <2>1 DEF Served
<1>. QED
  BY <1>2, <1>3

\* A command that was typed at a prompt the guest still shows, all of it read.
LEMMA ServedAnew ==
    ASSUME NEW d, NEW g, NEW t, NEW r, Quiet(r), t = <<>> \/ t = <<d.inflight.cmd>>,
           ~Idle(d) => d.inflight.cmd \in Cmds,
           g.up /\ ~Idle(d) => g.ctx = d.inflight.before
    PROVE  Served(d, g, t, r)
<1>1. \A i \in 1..Len(r) : r[i].st \notin {"prompt", "echo"}
  BY DEF Quiet, Prompts
<1>2. ~Idle(d) => t # <<Return>>
  <2>1. ~Idle(d) => d.inflight.cmd # Return
    BY CommandsKinds
  <2>2. ASSUME NEW c, c # Return PROVE <<c>> # <<Return>>
    BY <2>2
  <2>3. <<>> # <<Return>>
    OBVIOUS
  <2>. QED
    BY <2>1, <2>2, <2>3
<1>. QED
  BY <1>1, <1>2 DEF Served

LEMMA SameWatched ==
    ASSUME NEW k, NEW d, d.inflight = k.inflight, d.inReset = k.inReset, d.known = k.known,
           NEW g, NEW t, NEW r, Watched(k, g, t, r)
    PROVE  Watched(d, g, t, r)
  BY DEF Watched, Heard, AtRest, Served, Idle, Changes, Led

\* The launcher takes over the commander's next state.
LEMMA SpinScope ==
    ASSUME FosInv, NEW d, Good(d), NEW s, s = [d EXCEPT !.out = <<>>]
    PROVE  /\ OnCourseOrNot(d) => OnCourseOrNot(s)
           /\ GaveUp(s) <=> GaveUp(d)
           /\ \A g, t, r : Watched(d, g, t, r) => Watched(s, g, t, r)
<1>1. /\ ScopeParts(s) = ScopeParts(d) /\ s.known = d.known
      /\ s.authenticated = d.authenticated /\ s.recovering = d.recovering
      /\ s.inflight = d.inflight /\ s.inReset = d.inReset
  BY DEF Good, Fields, ScopeParts
<1>. QED
  BY <1>1, SameCourse, SameWatched DEF OnCourseOrNot

\* A state is read while the commander is on its course.
LEMMA WatchedRead ==
    ASSUME FosInv, LineOrdered(guest, rx), OnCourse(cli), ~GaveUp(cli),
           Watched(cli, guest, typed, rx),
           rx # <<>>, NEW e, e = Head(rx), e.st \notin {"echo", "rejected"},
           NEW d, d = OnState(cli, e), ~GaveUp(d), NEW t, t = typed \o d.out
    PROVE  /\ OnCourse(d) /\ Watched(d, guest, t, Tail(rx))
           /\ d.out # <<>> /\ guest.up => guest.ctx = d.inflight.before
<1>1. /\ rx \in Seq(Events) /\ OneLine(typed, rx) /\ typed \in Seq(Cmds \cup {Return})
      /\ Good(cli) /\ cli.out = <<>> /\ GuestIs(guest)
  BY DEF FosInv, CliSound, GuestSound, GuestIs, LineSound
<1>2. /\ e \in Events /\ e = rx[1] /\ 1 \in 1..Len(rx)
      /\ e.st \in Prompts => typed = <<>> /\ Quiet(Tail(rx))
  BY <1>1, TailOfLine, TailElements
<1>3. /\ Good(d) /\ d.known = e.st
      /\ d.ctx = IF e.st = "prompt" THEN e.ctx ELSE cli.ctx
      /\ d.out = <<>> \/ (~Idle(d) /\ d.inflight.cmd \in Cmds /\ d.out = <<d.inflight.cmd>>)
  BY <1>1, OnStateGood
<1>4. /\ Heard(cli, guest, rx) /\ AtRest(cli, guest, typed, rx) /\ Served(cli, guest, typed, rx)
  BY DEF Watched
<1>5. /\ guest.up => /\ e.st \notin {"lost", "username", "rebooting"}
                     /\ e.st = "prompt" => e.ctx = guest.ctx
      /\ Idle(cli) /\ e.st \in Prompts => e.st = "prompt" /\ e.ctx = <<>>
      /\ Idle(cli) /\ guest.up => typed = <<>> /\ guest.ctx = <<>>
  BY <1>2, <1>4 DEF LineOrdered, AtRest
<1>6. Follows(cli, e, d)
  <2>1. e.ctx \in Seq(Args)
    BY <1>2 DEF Events
  <2>2. e.st = "prompt" /\ ~Idle(cli) /\ ~cli.inReset /\ MayChangeContext(cli.inflight.cmd) =>
           e.ctx = Enter(cli.inflight.before, cli.inflight.cmd) \/ Invalid(cli.inflight, e)
    BY <1>2, <1>4 DEF Served, Changes, Led
  <2>. QED
    BY <1>1, <1>5, <2>1, <2>2, OnStateScope DEF Prompts
<1>7. /\ OnCourse(d)
      /\ e.st \in {"lost", "username"} => Rest(d)
      /\ e.st # "prompt" /\ Rest(cli) => Rest(d)
      /\ e.st \notin {"prompt", "lost", "username"} /\ Fly(cli) =>
           \/ d.inflight = cli.inflight /\ d.inReset = cli.inReset /\ d.out = <<>>
           \/ /\ e.st \in {"confirm", "rebooting"}
              /\ cli.inflight.before = <<>> /\ ~MayChangeContext(cli.inflight.cmd)
  BY <1>6 DEF Follows
<1>8. /\ Idle(cli) => Rest(cli)
      /\ ~Idle(cli) => Fly(cli)
      /\ Rest(d) => Idle(d)
      /\ Idle(d) /\ d.known = "prompt" => d.ctx = <<>>
      /\ ~Idle(d) => d.ctx = d.inflight.before
  BY <1>7, FlyOrRest DEF Rest, Resting, Fly
<1>9. Heard(d, guest, Tail(rx))
  <2>1. e.st = "username" => Idle(d) /\ d.known # "prompt"
    BY <1>3, <1>7, <1>8
  <2>2. Idle(cli) /\ e.st \notin Prompts => Idle(d) /\ d.known # "prompt"
    BY <1>3, <1>7, <1>8 DEF Prompts
  <2>. QED
    BY <1>1, <1>4, <2>1, <2>2, HeardTail
<1>10. d.out = <<>> => t = typed
  BY <1>1, ConcatEmptySeq
<1>. DEFINE kept == /\ d.inflight = cli.inflight /\ d.inReset = cli.inReset /\ d.out = <<>>
                    /\ ~Idle(cli)
<1>11. CASE kept
  <2>1. Served(d, guest, t, Tail(rx))
    BY <1>1, <1>4, <1>10, <1>11, ServedTail
  <2>2. ~Idle(d)
    BY <1>11 DEF Idle
  <2>. QED
    BY <1>7, <1>9, <1>11, <2>1, <2>2 DEF Watched, AtRest
<1>. HIDE DEF kept
<1>12. CASE e.st \in Prompts /\ ~kept
  <2>1. t = <<>> \/ t = <<d.inflight.cmd>>
    <3>1. \A c : <<>> \o <<c>> = <<c>>
      OBVIOUS
    <3>. QED
      BY <1>2, <1>3, <1>10, <1>12, <3>1
  <2>2. guest.up => guest.ctx = IF Idle(d) THEN <<>> ELSE d.inflight.before
    <3>1. CASE e.st = "prompt"
      BY <1>3, <1>5, <1>8, <3>1
    <3>2. CASE e.st # "prompt" /\ guest.up
      <4>1. e.st = "confirm" /\ ~Idle(cli)
        BY <1>5, <1>12, <3>2 DEF Prompts
      <4>2. cli.ctx = cli.inflight.before /\ d.ctx = cli.ctx
        BY <1>3, <1>8, <4>1 DEF Fly
      <4>3. cli.inflight.before = <<>> /\ ~MayChangeContext(cli.inflight.cmd) =>
                guest.ctx = <<>>
        BY <1>4, <3>2, <4>1 DEF Served
      <4>4. cli.inflight.before = <<>> /\ ~MayChangeContext(cli.inflight.cmd)
        BY <1>7, <1>8, <1>12, <4>1 DEF kept
      <4>. QED
        BY <1>8, <4>2, <4>3, <4>4
    <3>. QED
      BY <3>1, <3>2
  <2>3. Quiet(Tail(rx)) /\ (Idle(d) => t = <<>>)
    BY <1>2, <1>3, <1>10, <1>12
  <2>4. AtRest(d, guest, t, Tail(rx))
    BY <2>2, <2>3 DEF AtRest, Quiet
  <2>5. ~Idle(d) => d.inflight.cmd \in Cmds
    BY <1>3 DEF Good, Typing
  <2>6. guest.up /\ ~Idle(d) => guest.ctx = d.inflight.before
    BY <2>2
  <2>7. Served(d, guest, t, Tail(rx))
    BY <2>1, <2>3, <2>5, <2>6, ServedAnew
  <2>. QED
    BY <1>3, <1>7, <1>9, <2>4, <2>6, <2>7 DEF Watched
<1>13. CASE e.st \notin Prompts /\ ~kept
  <2>1. Idle(d)
    BY <1>7, <1>8, <1>13 DEF Prompts, kept
  <2>2. t = typed
    BY <1>3, <1>10, <2>1
  <2>3. AtRest(d, guest, t, Tail(rx))
    <3>1. CASE Idle(cli)
      BY <1>1, <1>4, <2>2, <3>1, AtRestTail
    <3>2. CASE ~Idle(cli)
      <4>1. e.st \in {"lost", "username"}
        BY <1>7, <1>8, <1>13, <3>2 DEF Prompts, kept
      <4>2. Quiet(Tail(rx)) /\ ~guest.up
        <5>1. \A j \in 1..Len(rx) : 1 < j => rx[j].st \notin Prompts
          BY <1>2, <4>1 DEF LineOrdered
        <5>2. \A i \in 1..Len(Tail(rx)) : Tail(rx)[i].st \notin Prompts
          BY <1>1, <5>1, TailElements, Zenon
        <5>. QED
          BY <1>5, <4>1, <5>2 DEF Quiet
      <4>. QED
        BY <4>2 DEF AtRest, Quiet
    <3>. QED
      BY <3>1, <3>2
  <2>4. Served(d, guest, t, Tail(rx))
    BY <2>1 DEF Served
  <2>. QED
    BY <1>3, <1>7, <1>9, <2>1, <2>3, <2>4 DEF Watched
<1>. QED
  BY <1>11, <1>12, <1>13

LEMMA ScopeRead == ScopeInv /\ Read => ScopeInv'
<1>. SUFFICES ASSUME ScopeInv, Read PROVE ScopeInv'
  OBVIOUS
<1>. DEFINE e == Head(rx)
            d == OnState(cli, e)
            s == [d EXCEPT !.out = <<>>]
<1>1. /\ FosInv /\ FosInv' /\ LineOrdered(guest, rx) /\ Good(cli) /\ cli.out = <<>>
      /\ rx \in Seq(Events) /\ rx # <<>> /\ rx' = Tail(rx) /\ phase = "starting"
      /\ e.st \notin {"echo", "rejected"} /\ guest' = guest
      /\ cli' = s /\ typed' = typed \o d.out
  BY StepRead DEF ScopeInv, Read, Spin, FosInv, CliSound, LineSound
<1>2. seen'.unseen = seen.unseen /\ DOMAIN seen' = DOMAIN seen
  BY DEF ScopeInv, SeenFields, Read
<1>3. Good(d)
  BY <1>1, OnStateGood
<1>4. LineOrdered(guest', rx')
  BY <1>1, OrderedTail
<1>5. /\ OnCourseOrNot(d) => OnCourseOrNot(cli')
      /\ GaveUp(cli') <=> GaveUp(d)
      /\ \A g, t, r : Watched(d, g, t, r) => Watched(cli', g, t, r)
  <2>. HIDE DEF d
  <2>. QED
    BY <1>1, <1>3, SpinScope
<1>6. CASE seen.unseen
  BY <1>1, <1>2, <1>4, <1>6 DEF ScopeInv, Ongoing
<1>7. CASE ~seen.unseen /\ GaveUp(cli)
  <2>1. GaveUp(d)
    BY <1>1, <1>7, OnStateScope
  <2>. HIDE DEF d
  <2>2. GaveUp(cli') /\ OnCourseOrNot(cli')
    BY <1>5, <2>1 DEF OnCourseOrNot
  <2>. QED
    BY <1>1, <1>2, <1>4, <2>2 DEF ScopeInv, Ongoing
<1>8. CASE ~seen.unseen /\ ~GaveUp(cli)
  <2>1. OnCourse(cli) /\ Watched(cli, guest, typed, rx)
    BY <1>1, <1>8 DEF ScopeInv, Ongoing, OnCourseOrNot
  <2>2. ~GaveUp(d) => OnCourse(d) /\ Watched(d, guest, typed', rx')
    BY <1>1, <1>8, <2>1, WatchedRead
  <2>. HIDE DEF d
  <2>3. /\ OnCourseOrNot(cli')
        /\ ~GaveUp(cli') => Watched(cli', guest', typed', rx')
    BY <1>1, <1>5, <2>2 DEF OnCourseOrNot
  <2>. QED
    BY <1>1, <1>2, <1>4, <2>3 DEF ScopeInv, Ongoing
<1>. QED
  BY <1>6, <1>7, <1>8

LEMMA ScopeReadEcho == ScopeInv /\ ReadEcho => ScopeInv'
<1>. SUFFICES ASSUME ScopeInv, ReadEcho PROVE ScopeInv'
  OBVIOUS
<1>. DEFINE k == [cli EXCEPT !.state = "echo", !.known = "echo"]
            a == [k EXCEPT !.out = <<Return>>]
            taken == cli.recovering \/ (~Idle(cli) /\ CapturesOutput(cli.inflight.cmd))
            d == IF taken THEN k ELSE a
            s == [d EXCEPT !.out = <<>>]
            e == Head(rx)
<1>1. /\ FosInv /\ FosInv' /\ LineOrdered(guest, rx) /\ Good(cli) /\ cli.out = <<>>
      /\ rx \in Seq(Events) /\ rx # <<>> /\ rx' = Tail(rx) /\ phase = "starting"
      /\ e.st = "echo" /\ guest' = guest
      /\ cli' = s /\ typed' = typed \o d.out
      /\ OneLine(typed, rx) /\ typed \in Seq(Cmds \cup {Return})
  BY StepReadEcho DEF ScopeInv, ReadEcho, Spin, FosInv, CliSound, LineSound
<1>2. seen'.unseen = seen.unseen /\ DOMAIN seen' = DOMAIN seen
  BY DEF ScopeInv, SeenFields, ReadEcho
<1>3. /\ ScopeParts(cli') = ScopeParts(cli) /\ cli'.known = "echo"
      /\ cli'.authenticated = cli.authenticated /\ cli'.recovering = cli.recovering
      /\ cli'.inflight = cli.inflight /\ cli'.inReset = cli.inReset
  BY <1>1 DEF Good, Fields, ScopeParts
<1>4. LineOrdered(guest', rx')
  BY <1>1, OrderedTail
<1>5. /\ OnCourse(cli) => OnCourse(cli')
      /\ GaveUp(cli') <=> GaveUp(cli)
      /\ Idle(cli') <=> Idle(cli)
  BY <1>3, SameCourse
<1>6. typed = <<>> /\ Quiet(rx') /\ e = rx[1] /\ 1 \in 1..Len(rx)
  BY <1>1, TailOfLine, TailElements DEF Prompts
<1>7. typed' = IF taken THEN <<>> ELSE <<Return>>
  <2>1. d.out = IF taken THEN <<>> ELSE <<Return>>
    BY <1>1 DEF Good, Fields
  <2>. HIDE DEF d, taken
  <2>2. <<>> \o <<Return>> = <<Return>> /\ <<>> \o <<>> = <<>>
    OBVIOUS
  <2>. QED
    BY <1>1, <1>6, <2>1, <2>2
<1>8. ASSUME ~GaveUp(cli), OnCourse(cli), Watched(cli, guest, typed, rx)
      PROVE  Watched(cli', guest', typed', rx')
  <2>1. Heard(cli, guest, rx) /\ AtRest(cli, guest, typed, rx) /\ Served(cli, guest, typed, rx)
    BY <1>8 DEF Watched
  <2>2. ~Idle(cli)
    BY <1>1, <1>6, <2>1 DEF AtRest, Prompts
  <2>3. Heard(cli', guest', rx')
    <3>1. /\ e.st = "username" => Idle(cli') /\ cli'.known # "prompt"
          /\ Idle(cli) /\ e.st \notin Prompts => Idle(cli') /\ cli'.known # "prompt"
      BY <1>1, <2>2
    <3>. QED
      BY <1>1, <2>1, <3>1, HeardTail
  <2>4. AtRest(cli', guest', typed', rx')
    BY <1>5, <2>2 DEF AtRest
  <2>5. Served(cli', guest', typed', rx')
    <3>1. Served(cli', guest, typed, Tail(rx))
      BY <1>1, <1>3, <2>1, ServedTail
    <3>2. /\ Changes(cli') <=> Changes(cli)
          /\ Led(cli') = Led(cli)
      BY <1>3 DEF Changes, Led
    <3>3. Changes(cli) /\ guest.up /\ typed' = <<Return>> => guest.ctx = Led(cli)
      <4>1. SUFFICES ASSUME Changes(cli), guest.up, typed' = <<Return>>
                     PROVE  guest.ctx = Led(cli)
        OBVIOUS
      <4>2. ~taken
        <5>1. <<>> # <<Return>>
          OBVIOUS
        <5>. HIDE DEF taken
        <5>. QED
          BY <1>7, <4>1, <5>1
      <4>3. ~Invalid(cli.inflight, e)
        BY <2>2, <4>2 DEF Invalid, CapturesOutput
      <4>4. e.ctx = guest.ctx
        BY <1>1, <1>6, <4>1 DEF LineOrdered
      <4>5. e.ctx = Led(cli)
        BY <1>1, <1>6, <2>1, <2>2, <4>1, <4>3 DEF Served
      <4>. QED
        BY <4>4, <4>5
    <3>4. typed' # <<cli.inflight.cmd>>
      <4>1. cli.inflight.cmd # Return
        BY <1>1, <2>2, CommandsKinds DEF Good, Typing
      <4>2. ASSUME NEW c, c # Return PROVE <<c>> # <<Return>> /\ <<>> # <<c>>
        BY <4>2
      <4>. HIDE DEF taken
      <4>. QED
        BY <1>7, <4>1, <4>2
    <3>. HIDE DEF taken, s
    <3>. QED
      BY <1>1, <1>3, <1>5, <1>7, <3>1, <3>2, <3>3, <3>4 DEF Served
  <2>. QED
    BY <2>3, <2>4, <2>5 DEF Watched
<1>. HIDE DEF s
<1>9. OnCourseOrNot(cli) => OnCourseOrNot(cli')
  BY <1>5 DEF OnCourseOrNot
<1>. QED
  BY <1>1, <1>2, <1>4, <1>5, <1>8, <1>9 DEF ScopeInv, Ongoing, OnCourseOrNot

LEMMA ScopeReadRejected == ScopeInv /\ ReadRejected => ScopeInv'
<1>. SUFFICES ASSUME ScopeInv, ReadRejected PROVE ScopeInv'
  OBVIOUS
<1>. DEFINE d == Raise([cli EXCEPT !.state = "rejected"])
            s == [d EXCEPT !.out = <<>>]
<1>1. /\ FosInv /\ FosInv' /\ LineOrdered(guest, rx) /\ Good(cli)
      /\ rx \in Seq(Events) /\ rx # <<>> /\ rx' = Tail(rx) /\ phase = "starting"
      /\ Head(rx).st = "rejected" /\ guest' = guest /\ seen' = seen
      /\ cli' = s /\ phase' = Outcome(d)
  BY StepReadRejected DEF ScopeInv, ReadRejected, Spin, FosInv, CliSound, LineSound
<1>2. LineOrdered(guest', rx')
  BY <1>1, OrderedTail
<1>3. cli'.raised /\ cli'.errors = cli.errors /\ cli'.inflight = cli.inflight /\ d.raised
  BY <1>1 DEF Good, Fields, Raise
<1>. HIDE DEF d
<1>4. ~Ongoing'
  BY <1>1, <1>3 DEF Ongoing, Outcome
<1>. HIDE DEF s
<1>5. GaveUp(cli) => GaveUp(cli')
  BY <1>3 DEF GaveUp, Idle
<1>6. ~seen.unseen /\ ~GaveUp(cli) => GaveUp(cli')
  <2>. SUFFICES ASSUME ~seen.unseen, ~GaveUp(cli) PROVE Idle(cli)
    BY <1>3 DEF GaveUp, Idle
  <2>1. Heard(cli, guest, rx)
    BY <1>1 DEF ScopeInv, Ongoing, Watched
  <2>2. rx[1].st = "rejected" /\ 1 \in 1..Len(rx)
    BY <1>1, TailElements
  <2>3. Len(rx) = 1 /\ ~guest.up
    BY <1>1, <2>2 DEF LineOrdered
  <2>. QED
    BY <2>1, <2>2, <2>3 DEF Heard
<1>. QED
  BY <1>1, <1>2, <1>4, <1>5, <1>6 DEF ScopeInv, OnCourseOrNot

LEMMA ScopeReadTimeout == ScopeInv /\ ReadTimeout => ScopeInv'
<1>. SUFFICES ASSUME ScopeInv, ReadTimeout PROVE ScopeInv'
  OBVIOUS
<1>. DEFINE k == [cli EXCEPT !.state = "timeout"]
            d == OnIdle(k)
            s == [d EXCEPT !.out = <<>>]
<1>1. /\ FosInv /\ FosInv' /\ LineOrdered(guest, rx) /\ Good(cli) /\ cli.out = <<>>
      /\ rx = <<>> /\ rx' = rx /\ phase = "starting" /\ guest' = guest /\ seen' = seen
      /\ cli' = s /\ typed' = typed \o d.out /\ typed \in Seq(Cmds \cup {Return})
  BY StepReadTimeout DEF ScopeInv, ReadTimeout, Spin, FosInv, CliSound, LineSound
<1>2. /\ DOMAIN k = Fields /\ Parts(k) = Parts(cli) /\ k.out = <<>>
      /\ ScopeParts(k) = ScopeParts(cli) /\ k.known = cli.known
      /\ k.authenticated = cli.authenticated /\ k.recovering = cli.recovering
      /\ k.inflight = cli.inflight /\ k.inReset = cli.inReset
  BY <1>1 DEF Good, Fields, ScopeParts, Parts
<1>. HIDE DEF k
<1>3. /\ Good(k)
      /\ OnCourse(cli) => OnCourse(k)
      /\ GaveUp(k) <=> GaveUp(cli)
      /\ Idle(k) <=> Idle(cli)
  BY <1>1, <1>2, GoodByParts, SameCourse
<1>4. /\ Good(d) /\ AtMostOne(k, d)
      /\ k.known # "prompt" \/ ~Idle(k) => d = k
  BY <1>2, <1>3, OnIdleGood
<1>5. /\ OnCourseOrNot(k) => OnCourseOrNot(d)
      /\ GaveUp(k) => GaveUp(d)
  BY <1>2, <1>3, OnIdleScope DEF OnCourseOrNot
<1>. HIDE DEF d
<1>6. /\ OnCourseOrNot(d) => OnCourseOrNot(cli')
      /\ GaveUp(cli') <=> GaveUp(d)
      /\ \A g, t, r : Watched(d, g, t, r) => Watched(cli', g, t, r)
  BY <1>1, <1>4, SpinScope
<1>7. ASSUME ~GaveUp(d), OnCourse(k), Watched(cli, guest, typed, rx)
      PROVE  Watched(d, guest, typed', rx)
  <2>1. Watched(k, guest, typed, rx)
    BY <1>2, <1>7, SameWatched
  <2>2. CASE d = k
    <3>1. typed' = typed
      BY <1>1, <1>2, <2>2, ConcatEmptySeq
    <3>. QED
      BY <2>1, <2>2, <3>1
  <2>3. CASE d # k
    <3>1. k.known = "prompt" /\ Idle(k)
      BY <1>4, <2>3
    <3>2. /\ Quiet(<<>>) /\ guest.up /\ typed = <<>> /\ guest.ctx = <<>>
      BY <1>1, <2>1, <3>1 DEF Watched, Heard, AtRest, Quiet
    <3>3. k.ctx = <<>> /\ OnCourse(d) /\ d.ctx = k.ctx
      BY <1>4, <1>5, <1>7, <3>1, FlyOrRest DEF OnCourseOrNot, AtMostOne, Keeps
    <3>4. ~Idle(d) => d.inflight.cmd \in Cmds /\ d.inflight.before = <<>>
      BY <1>4, <3>3, FlyOrRest DEF Good, Typing, Fly
    <3>5. d.out = <<>> \/ (~Idle(d) /\ d.out = <<d.inflight.cmd>>)
      BY <1>4 DEF AtMostOne
    <3>6. typed' = <<>> \/ (~Idle(d) /\ typed' = <<d.inflight.cmd>>)
      <4>1. \A c : <<>> \o <<c>> = <<c>> /\ <<>> \o <<>> = <<>>
        OBVIOUS
      <4>. QED
        BY <1>1, <3>2, <3>5, <4>1
    <3>7. Heard(d, guest, rx)
      BY <3>2 DEF Heard
    <3>8. AtRest(d, guest, typed', rx)
      BY <1>1, <3>2, <3>6 DEF AtRest, Quiet
    <3>9. Served(d, guest, typed', rx)
      BY <1>1, <3>2, <3>4, <3>6, ServedAnew
    <3>. QED
      BY <3>7, <3>8, <3>9 DEF Watched
  <2>. QED
    BY <2>2, <2>3
<1>. HIDE DEF s
<1>8. OnCourseOrNot(cli) => OnCourseOrNot(cli')
  BY <1>3, <1>5, <1>6 DEF OnCourseOrNot
<1>. QED
  BY <1>1, <1>3, <1>5, <1>6, <1>7, <1>8 DEF ScopeInv, Ongoing, OnCourseOrNot

\* A command in flight that opens or closes a scope is one its scope knows, or has no effect
\* there.
LEMMA KnownCommand ==
    ASSUME NEW k, Good(k), Fly(k), Changes(k)
    PROVE  \/ Knows(k.inflight.before, k.inflight.cmd)
           \/ Led(k) = k.inflight.before
<1>1. CASE InBlock(k)
  <2>. DEFINE i == k.inflight.index
              n == Len(k.cmds)
              m == Len(k.pending)
  <2>1. /\ i = n - m /\ i >= 1 /\ n \in Nat /\ m \in Nat
        /\ k.inflight.cmd = k.cmds[i] /\ k.inflight.before = Intended(k.cmds, i)
        /\ \A j \in 1..n : MayChangeContext(k.cmds[j]) => Knows(Intended(k.cmds, j), k.cmds[j])
    BY <1>1, LenProperties DEF InBlock, Good, Typing, IsBlock, Fly, Typed, Plan, ScopedBlock
  <2>. HIDE DEF i, n, m
  <2>2. i \in 1..n
    BY <2>1
  <2>. QED
    BY <2>1, <2>2 DEF Changes
<1>2. CASE InCleanup(k)
  <2>. DEFINE n == Len(k.cleanup)
              b == k.inflight.before
  <2>1. /\ n \in Nat /\ n < 3 /\ k.inflight.cmd = SetMore[3 - n]
        /\ b = <<>> \/ (b = <<"console">> /\ n + 1 \in {1, 2})
        /\ k.cleanup \in Seq(CleanupWork)
    BY <1>2, LenProperties DEF InCleanup, CleanupScope, Good, Typing
  <2>2. /\ SetMore[1] = Cmd("config", "console") /\ SetMore[2] = Cmd("set", "more")
        /\ SetMore[3] = Cmd("end", "console")
    BY ConsoleBlocks
  <2>. HIDE DEF n, b
  <2>3. n = 0 \/ n = 1 \/ n = 2
    BY <2>1
  <2>4. CASE n = 0
    <3>1. k.inflight.cmd = Cmd("end", "console")
      <4>1. 3 - n = 3
        BY <2>4
      <4>. QED
        BY <2>1, <2>2, <4>1
    <3>2. Knows(b, k.inflight.cmd) \/ Enter(b, k.inflight.cmd) = b
      BY <2>1, <3>1, ConsoleScope
    <3>. QED
      BY <3>2 DEF Led, b
  <2>5. CASE n = 1
    <3>1. 3 - n = 2
      BY <2>5
    <3>. QED
      BY <2>1, <2>2, <3>1, OtherAnswers DEF Changes
  <2>6. CASE n = 2
    <3>1. 3 - n = 1 /\ n + 1 \notin {1, 2}
      BY <2>6
    <3>2. Knows(b, k.inflight.cmd)
      BY <2>1, <2>2, <3>1, ConsoleScope
    <3>. QED
      BY <3>2 DEF b
  <2>. QED
    BY <2>3, <2>4, <2>5, <2>6
<1>3. ~InReset(k)
  BY DEF Changes, InReset
<1>. QED
  BY <1>1, <1>2, <1>3 DEF Fly, Typed

\* A guest that is up answers with one more state.
LEMMA OrderedAnswer ==
    ASSUME NEW r \in Seq(Events), NEW e \in Events, NEW g, NEW h, g.up, h.up, Quiet(r),
           LineOrdered(g, r), e.st \in {"prompt", "echo", "confirm"},
           e.st \in {"prompt", "echo"} => e.ctx = h.ctx
    PROVE  LET s == Append(r, e)
           IN  /\ LineOrdered(h, s)
               /\ \A i \in 1..Len(s) : s[i].st \in Prompts => s[i] = e
<1>. DEFINE s == Append(r, e)
            n == Len(r)
<1>1. /\ n \in Nat /\ Len(s) = n + 1 /\ \A i \in 1..n : s[i] = r[i]
      /\ s[n + 1] = e
  BY AppendProperties, LenProperties
<1>2. /\ \A i \in 1..n : r[i].st \notin {"lost", "username", "rebooting", "rejected"}
      /\ \A i \in 1..n : r[i].st \notin Prompts
  BY DEF LineOrdered, Quiet
<1>. HIDE DEF n
<1>3. \A i \in 1..(n + 1) : i \in 1..n \/ i = n + 1
  BY <1>1
<1>4. \A i \in 1..(n + 1) : s[i].st \in Prompts => s[i] = e
  BY <1>1, <1>2, <1>3
<1>5. \A i \in 1..(n + 1) : s[i].st \notin {"lost", "username", "rebooting", "rejected"}
  BY <1>1, <1>2, <1>3
<1>. HIDE DEF s
<1>6. LineOrdered(h, s)
  BY <1>1, <1>4, <1>5 DEF LineOrdered, Prompts
<1>. QED
  BY <1>1, <1>4, <1>6 DEF s

\* The driver is told of the end of a session, and shown no prompt since.
EndsSession(g, r, s, m) ==
    /\ LineOrdered(g, s)
    /\ s # <<>> /\ s[Len(s)].st = "username"
    /\ \A i \in 1..Len(s) : s[i].st \in Prompts =>
           (\E j \in 1..Len(r) : s[i] = r[j]) \/ (m = "rebooting" /\ s[i].st = m)

LEMMA OrderedEnd ==
    ASSUME NEW r \in Seq(Events), NEW g, NEW h, g.up, ~h.up, LineOrdered(g, r),
           NEW m, m = "lost" \/ m = "rebooting", NEW s,
           \/ s = r \o <<>> \o <<Event("username")>>
           \/ s = r \o <<Event(m)>> \o <<Event("username")>>
    PROVE  EndsSession(h, r, s, m)
<1>. DEFINE u == Event("username")
            v == Event(m)
            n == Len(r)
<1>1. u.st = "username" /\ v.st = m
  BY EventsOfStates DEF States, Prompts
<1>2. PICK l \in {0, 1} :
        /\ Len(s) = n + l + 1 /\ n \in Nat
        /\ \A i \in 1..n : s[i] = r[i]
        /\ l = 1 => s[n + 1] = v
        /\ s[n + l + 1] = u
  <2>. HIDE DEF u, v
  <2>0. n \in Nat /\ Len(<<u>>) = 1 /\ <<u>>[1] = u /\ Len(<<v>>) = 1 /\ <<v>>[1] = v
    BY LenProperties
  <2>1. u \in Events /\ v \in Events
    BY EventsOfStates DEF States, Prompts, u, v
  <2>2. <<u>> \in Seq(Events) /\ <<v>> \in Seq(Events)
    BY <2>1
  <2>3. CASE s = r \o <<>> \o <<u>>
    <3>1. r \o <<>> = r
      BY ConcatEmptySeq
    <3>2. s = r \o <<u>>
      BY <2>3, <3>1
    <3>3. /\ Len(s) = n + 1
          /\ \A i \in 1..(n + 1) : s[i] = IF i <= n THEN r[i] ELSE <<u>>[i - n]
      BY <2>0, <2>2, <3>2, ConcatProperties
    <3>. DEFINE l == 0
    <3>. HIDE DEF n
    <3>4. /\ Len(s) = n + l + 1
          /\ \A i \in 1..n : s[i] = r[i]
          /\ l # 1
          /\ s[n + l + 1] = u
      <4>1. n + 1 \in 1..(n + 1) /\ ~(n + 1 <= n) /\ n + 1 - n = 1 /\ n + l + 1 = n + 1
        BY <2>0
      <4>2. \A i \in 1..n : i \in 1..(n + 1) /\ i <= n
        BY <2>0
      <4>. QED
        BY <2>0, <3>3, <4>1, <4>2
    <3>. QED
      BY <2>0, <3>4
  <2>4. CASE s = r \o <<v>> \o <<u>>
    <3>. DEFINE w == r \o <<v>>
    <3>1. /\ w \in Seq(Events) /\ Len(w) = n + 1
          /\ \A i \in 1..(n + 1) : w[i] = IF i <= n THEN r[i] ELSE <<v>>[i - n]
      BY <2>0, <2>2, ConcatProperties
    <3>. HIDE DEF w, n
    <3>2. s = w \o <<u>>
      BY <2>4 DEF w
    <3>3. /\ Len(s) = n + 1 + 1
          /\ \A i \in 1..(n + 1 + 1) : s[i] = IF i <= n + 1 THEN w[i] ELSE <<u>>[i - (n + 1)]
      BY <2>0, <2>2, <3>1, <3>2, ConcatProperties
    <3>. DEFINE l == 1
    <3>4. /\ Len(s) = n + l + 1
          /\ \A i \in 1..n : s[i] = r[i]
          /\ s[n + 1] = v
          /\ s[n + l + 1] = u
      <4>1. /\ n + 1 + 1 \in 1..(n + 1 + 1) /\ ~(n + 1 + 1 <= n + 1) /\ n + 1 + 1 - (n + 1) = 1
            /\ n + 1 \in 1..(n + 1) /\ n + 1 \in 1..(n + 1 + 1)
            /\ n + 1 <= n + 1 /\ ~(n + 1 <= n) /\ n + 1 - n = 1
            /\ n + l + 1 = n + 1 + 1
        BY <2>0
      <4>2. \A i \in 1..n : i \in 1..(n + 1) /\ i <= n /\ i \in 1..(n + 1 + 1) /\ i <= n + 1
        BY <2>0
      <4>. QED
        BY <2>0, <3>1, <3>3, <4>1, <4>2
    <3>. QED
      BY <2>0, <3>4
  <2>. QED
    BY <2>3, <2>4 DEF u, v
<1>3. \A i \in 1..n : r[i].st \notin {"lost", "username", "rebooting", "rejected"}
  BY DEF LineOrdered
<1>. HIDE DEF n, u, v
<1>4. \A i \in 1..(n + l + 1) : i \in 1..n \/ (l = 1 /\ i = n + 1) \/ i = n + l + 1
  BY <1>2
<1>5. \A i, j \in 1..(n + l + 1) :
        j < i /\ s[j].st \in {"lost", "username"} => s[i].st = "username"
  <2>. SUFFICES ASSUME NEW i \in 1..(n + l + 1), NEW j \in 1..(n + l + 1), j < i,
                       s[j].st \in {"lost", "username"}
                PROVE  s[i].st = "username"
    OBVIOUS
  <2>1. j \notin 1..n
    BY <1>2, <1>3
  <2>2. i = n + l + 1
    BY <1>2, <1>4, <2>1
  <2>. QED
    BY <1>1, <1>2, <2>2
<1>6. \A i \in 1..(n + l + 1) : s[i].st # "rejected"
  <2>. SUFFICES ASSUME NEW i \in 1..(n + l + 1) PROVE s[i].st # "rejected"
    OBVIOUS
  <2>. QED
    BY <1>1, <1>2, <1>3, <1>4
<1>7. "username" \notin Prompts /\ "lost" \notin Prompts
  BY DEF Prompts
<1>8. LineOrdered(h, s)
  BY <1>2, <1>5, <1>6, <1>7 DEF LineOrdered
<1>9. s # <<>> /\ s[Len(s)].st = "username"
  <2>1. Len(s) # 0
    BY <1>2
  <2>. QED
    BY <1>1, <1>2, <2>1
<1>10. \A i \in 1..(n + l + 1) : s[i].st \in Prompts =>
            (\E j \in 1..n : s[i] = r[j]) \/ (m = "rebooting" /\ s[i].st = m)
  <2>. SUFFICES ASSUME NEW i \in 1..(n + l + 1), s[i].st \in Prompts
                PROVE  (\E j \in 1..n : s[i] = r[j]) \/ (m = "rebooting" /\ s[i].st = m)
    OBVIOUS
  <2>1. CASE i \in 1..n
    BY <1>2, <2>1
  <2>2. CASE i \notin 1..n
    BY <1>1, <1>2, <1>4, <1>7, <2>2
  <2>. QED
    BY <2>1, <2>2
<1>. QED
  BY <1>2, <1>8, <1>9, <1>10 DEF EndsSession, n

\* A step of the guest, which the commander does not notice.
LEMMA ScopeGuestStep ==
    ASSUME ScopeInv, FosInv', UNCHANGED <<cli, phase>>, DOMAIN seen' = DOMAIN seen,
           seen.unseen => seen'.unseen, LineOrdered(guest', rx'),
           ASSUME OnCourse(cli), Watched(cli, guest, typed, rx), ~seen'.unseen
           PROVE  Watched(cli, guest', typed', rx')
    PROVE  ScopeInv'
<1>1. cli' = cli /\ phase' = phase
  OBVIOUS
<1>2. OnCourseOrNot(cli') <=> OnCourseOrNot(cli)
  BY <1>1
<1>3. GaveUp(cli') <=> GaveUp(cli)
  BY <1>1
<1>4. Ongoing' => Watched(cli', guest', typed', rx')
  <2>. SUFFICES ASSUME Ongoing' PROVE Watched(cli', guest', typed', rx')
    OBVIOUS
  <2>1. Ongoing /\ ~seen'.unseen
    BY <1>1, <1>3 DEF Ongoing
  <2>2. OnCourse(cli) /\ Watched(cli, guest, typed, rx)
    BY <2>1 DEF ScopeInv, Ongoing, OnCourseOrNot
  <2>. QED
    BY <1>1, <2>1, <2>2
<1>. QED
  BY <1>2, <1>4 DEF ScopeInv

LEMMA ScopeExecute == ScopeInv /\ Execute => ScopeInv'
<1>. SUFFICES ASSUME ScopeInv, Execute PROVE ScopeInv'
  OBVIOUS
<1>. DEFINE c == Head(typed)
            b == cli.inflight.before
            q == cli.inflight.cmd
<1>1. /\ FosInv /\ FosInv' /\ LineOrdered(guest, rx) /\ Good(cli)
      /\ GuestIs(guest) /\ guest.up /\ typed # <<>>
      /\ UNCHANGED <<cli, phase>> /\ seen' = seen
  BY StepExecute DEF ScopeInv, Execute, FosInv, CliSound, GuestSound, GuestIs
<1>2. /\ c \in Cmds \cup {Return} /\ typed' = <<>> /\ Quiet(rx) /\ rx \in Seq(Events)
  BY <1>1, GuestReads DEF Execute
<1>3. PICK failed1, echo \in BOOLEAN :
        LET g == IF Knows(guest.ctx, c) /\ ~failed1 THEN Ran(guest, c) ELSE guest
        IN  /\ failed1 /\ Knows(guest.ctx, c) => c.checked \/ c.op = "query"
            /\ ~Knows(guest.ctx, c) /\ guest.ctx # <<>> => failed1
            /\ guest' = g
            /\ rx' = Append(rx, [st |-> IF echo THEN "echo" ELSE "prompt", ctx |-> g.ctx,
                                 failed |-> failed1, mode |-> guest.mode])
  BY DEF Execute
<1>. DEFINE e == [st |-> IF echo THEN "echo" ELSE "prompt", ctx |-> guest'.ctx,
                  failed |-> failed1, mode |-> guest.mode]
<1>. HIDE DEF c
<1>4. /\ GuestIs(guest') /\ guest'.up
      /\ guest'.ctx = IF Knows(guest.ctx, c) /\ ~failed1 THEN Enter(guest.ctx, c) ELSE guest.ctx
  BY <1>1, <1>2, <1>3, RanGuest
<1>5. /\ e \in Events /\ rx' = Append(rx, e) /\ e.ctx = guest'.ctx /\ e.failed = failed1
      /\ e.st \in {"prompt", "echo", "confirm"}
  BY <1>1, <1>3, <1>4 DEF Events, GuestIs, States, Prompts
<1>. HIDE DEF e
<1>6. /\ LineOrdered(guest', rx')
      /\ \A i \in 1..Len(rx') : rx'[i].st \in Prompts => rx'[i] = e
  <2>1. LineOrdered(guest', Append(rx, e))
    BY <1>1, <1>2, <1>4, <1>5, OrderedAnswer
  <2>2. \A i \in 1..Len(Append(rx, e)) :
          Append(rx, e)[i].st \in Prompts => Append(rx, e)[i] = e
    BY <1>1, <1>2, <1>4, <1>5, OrderedAnswer
  <2>. QED
    BY <1>5, <2>1, <2>2
<1>7. ASSUME OnCourse(cli), Watched(cli, guest, typed, rx)
      PROVE  Watched(cli, guest', typed', rx')
  <2>1. ~Idle(cli) /\ Fly(cli) /\ Served(cli, guest, typed, rx)
    BY <1>1, <1>7, FlyOrRest DEF Watched, AtRest
  <2>2. c = q \/ c = Return
    <3>1. typed = <<q>> \/ typed = <<Return>>
      BY <1>1, <2>1 DEF Served
    <3>2. \A x : Head(<<x>>) = x
      OBVIOUS
    <3>. QED
      BY <3>1, <3>2 DEF c
  <2>3. Heard(cli, guest', rx') /\ AtRest(cli, guest', typed', rx')
    BY <1>4, <2>1 DEF Heard, AtRest
  <2>4. Return.op = "return" /\ ~MayChangeContext(Return)
    BY DEF Return, Cmd, MayChangeContext
  <2>5. ~MayChangeContext(c) => guest'.ctx = guest.ctx
    BY <1>4, LastingCommand
  <2>6. Changes(cli) => guest'.ctx = Led(cli) \/ Invalid(cli.inflight, e)
    <3>. SUFFICES ASSUME Changes(cli) PROVE guest'.ctx = Led(cli) \/ Invalid(cli.inflight, e)
      OBVIOUS
    <3>1. CASE typed = <<Return>>
      <4>1. c = Return /\ guest.ctx = Led(cli)
        BY <1>1, <2>1, <3>1 DEF Served, c
      <4>. QED
        BY <2>4, <2>5, <4>1
    <3>2. CASE typed = <<q>>
      <4>1. c = q /\ guest.ctx = b
        BY <1>1, <2>1, <3>2 DEF Served, c
      <4>2. Enter(b, q) = Led(cli) /\ MayChangeContext(q)
        BY DEF Led, Changes
      <4>3. CASE Knows(b, q) /\ ~failed1
        BY <1>4, <4>1, <4>2, <4>3
      <4>4. CASE Knows(b, q) /\ failed1
        <5>1. q.checked
          BY <1>3, <4>1, <4>2, <4>4 DEF MayChangeContext
        <5>. QED
          BY <1>5, <4>4, <5>1 DEF Invalid
      <4>5. CASE ~Knows(b, q)
        BY <1>1, <1>4, <2>1, <4>1, <4>5, KnownCommand
      <4>. QED
        BY <4>3, <4>4, <4>5
    <3>. QED
      BY <1>1, <2>1, <3>1, <3>2 DEF Served
  <2>7. Changes(cli) => \A i \in 1..Len(rx') : rx'[i].st \in {"prompt", "echo"} =>
                  rx'[i].ctx = Led(cli) \/ Invalid(cli.inflight, rx'[i])
    BY <1>5, <1>6, <2>6 DEF Prompts
  <2>8. b = <<>> /\ ~MayChangeContext(q) => guest'.ctx = <<>>
    BY <1>1, <2>1, <2>2, <2>4, <2>5 DEF Served
  <2>9. \A x : <<>> # <<x>>
    OBVIOUS
  <2>10. Served(cli, guest', typed', rx')
    BY <1>2, <2>7, <2>8, <2>9 DEF Served
  <2>. QED
    BY <2>3, <2>10 DEF Watched
<1>. QED
  BY <1>1, <1>6, <1>7, ScopeGuestStep

LEMMA ScopeExecuteFormat == ScopeInv /\ ExecuteFormat => ScopeInv'
<1>. SUFFICES ASSUME ScopeInv, ExecuteFormat PROVE ScopeInv'
  OBVIOUS
<1>. DEFINE c == Head(typed)
<1>1. /\ FosInv /\ FosInv' /\ LineOrdered(guest, rx) /\ Good(cli)
      /\ guest.up /\ typed # <<>> /\ UNCHANGED <<cli, phase>> /\ seen' = seen
  BY StepExecuteFormat DEF ScopeInv, ExecuteFormat, FosInv, CliSound
<1>2. typed' = <<>> /\ Quiet(rx) /\ rx \in Seq(Events)
  BY <1>1, GuestReads DEF ExecuteFormat
<1>3. \A i \in 1..Len(rx) : rx[i].st \notin Prompts
  BY <1>2 DEF Quiet
<1>4. \A x : <<>> # <<x>>
  OBVIOUS
<1>5. CASE c.op = "format"
  <2>1. guest' = guest /\ rx' = Append(rx, Event("confirm"))
    BY <1>5 DEF ExecuteFormat
  <2>2. Event("confirm") \in Events /\ Event("confirm").st = "confirm"
    BY EventsOfStates DEF States, Prompts
  <2>. DEFINE e == Event("confirm")
  <2>. HIDE DEF e
  <2>3. /\ LineOrdered(guest', rx')
        /\ \A i \in 1..Len(rx') : rx'[i].st \in Prompts => rx'[i] = e
    <3>1. e.st = "confirm" /\ rx' = Append(rx, e) /\ e \in Events /\ guest'.up
      BY <1>1, <2>1, <2>2 DEF e
    <3>2. LineOrdered(guest', Append(rx, e))
      BY <1>1, <1>2, <3>1, OrderedAnswer
    <3>3. \A i \in 1..Len(Append(rx, e)) :
            Append(rx, e)[i].st \in Prompts => Append(rx, e)[i] = e
      BY <1>1, <1>2, <3>1, OrderedAnswer
    <3>. QED
      BY <3>1, <3>2, <3>3
  <2>4. ASSUME OnCourse(cli), Watched(cli, guest, typed, rx)
        PROVE  Watched(cli, guest', typed', rx')
    <3>1. ~Idle(cli) /\ Served(cli, guest, typed, rx)
      BY <1>1, <2>4 DEF Watched, AtRest
    <3>2. Heard(cli, guest', rx') /\ AtRest(cli, guest', typed', rx')
      BY <1>1, <2>1, <3>1 DEF Heard, AtRest
    <3>3. \A i \in 1..Len(rx') : rx'[i].st \notin {"prompt", "echo"}
      BY <2>2, <2>3 DEF Prompts, e
    <3>4. Served(cli, guest', typed', rx')
      BY <1>1, <1>2, <1>4, <2>1, <3>1, <3>3 DEF Served
    <3>. QED
      BY <3>2, <3>4 DEF Watched
  <2>. QED
    BY <1>1, <2>3, <2>4, ScopeGuestStep
<1>6. CASE c.op = "yes"
  <2>1. \/ rx' = rx \o <<>> \o <<Event("username")>>
        \/ rx' = rx \o <<Event("rebooting")>> \o <<Event("username")>>
    BY <1>6 DEF ExecuteFormat
  <2>2. ~guest'.up
    <3>1. guest' = LoggedOut(Ran(guest, c)) /\ Knows(guest.ctx, c)
      BY <1>6 DEF ExecuteFormat, Knows
    <3>2. c \in Cmds \cup {Return} /\ GuestIs(guest)
      BY <1>1, GuestReads DEF FosInv, GuestSound, GuestIs
    <3>3. GuestIs(Ran(guest, c))
      BY <1>1, <3>1, <3>2, RanGuest
    <3>. DEFINE g == Ran(guest, c)
    <3>. HIDE DEF g
    <3>4. GuestIs(g) => ~LoggedOut(g).up
      BY DEF GuestIs, LoggedOut
    <3>. QED
      BY <3>1, <3>3, <3>4 DEF g
  <2>. DEFINE m == "rebooting"
  <2>3. EndsSession(guest', rx, rx', m)
    <3>1. \/ rx' = rx \o <<>> \o <<Event("username")>>
          \/ rx' = rx \o <<Event(m)>> \o <<Event("username")>>
      BY <2>1
    <3>2. m = "lost" \/ m = "rebooting"
      OBVIOUS
    <3>. HIDE DEF m
    <3>. QED
      BY <1>1, <1>2, <2>2, <3>1, <3>2, OrderedEnd
  <2>4. ASSUME OnCourse(cli), Watched(cli, guest, typed, rx)
        PROVE  Watched(cli, guest', typed', rx')
    <3>1. ~Idle(cli)
      BY <1>1, <2>4 DEF Watched, AtRest
    <3>2. Heard(cli, guest', rx') /\ AtRest(cli, guest', typed', rx')
      BY <2>3, <3>1 DEF EndsSession, Heard, AtRest
    <3>3. \A i \in 1..Len(rx') : rx'[i].st \notin {"prompt", "echo"}
      BY <1>3, <2>3 DEF EndsSession, Prompts
    <3>4. Served(cli, guest', typed', rx')
      BY <2>2, <3>3 DEF Served
    <3>. QED
      BY <3>2, <3>4 DEF Watched
  <2>. QED
    BY <1>1, <2>3, <2>4, ScopeGuestStep DEF EndsSession
<1>. QED
  BY <1>5, <1>6 DEF ExecuteFormat

LEMMA ScopeFall == ScopeInv /\ Fall => ScopeInv'
<1>. SUFFICES ASSUME ScopeInv, Fall PROVE ScopeInv'
  OBVIOUS
<1>1. /\ FosInv /\ FosInv' /\ LineOrdered(guest, rx) /\ GuestIs(guest)
      /\ guest.up /\ guest.ctx # <<>> /\ typed # <<>> /\ rx' = rx /\ typed' = typed
      /\ UNCHANGED <<cli, phase>>
  BY StepFall DEF ScopeInv, Fall, FosInv, GuestSound, GuestIs
<1>2. /\ DOMAIN seen' = DOMAIN seen
      /\ seen'.unseen = (seen.unseen \/ MayChangeContext(cli.inflight.cmd))
  BY DEF ScopeInv, SeenFields, Fall
<1>3. guest'.up
  BY <1>1 DEF Fall, GuestIs
<1>4. Quiet(rx)
  BY <1>1, GuestReads
<1>5. LineOrdered(guest', rx')
  BY <1>1, <1>3, <1>4 DEF LineOrdered, Quiet, Prompts
<1>6. ASSUME OnCourse(cli), Watched(cli, guest, typed, rx), ~seen'.unseen
      PROVE  Watched(cli, guest', typed', rx')
  <2>1. ~MayChangeContext(cli.inflight.cmd)
    BY <1>2, <1>6
  <2>2. ~Idle(cli) /\ Served(cli, guest, typed, rx)
    BY <1>1, <1>6 DEF Watched, AtRest
  <2>. QED
    BY <1>1, <1>3, <2>1, <2>2 DEF Watched, Heard, AtRest, Served, Changes
<1>. QED
  BY <1>1, <1>2, <1>5, <1>6, ScopeGuestStep

LEMMA ScopeLoseSession == ScopeInv /\ LoseSession => ScopeInv'
<1>. SUFFICES ASSUME ScopeInv, LoseSession PROVE ScopeInv'
  OBVIOUS
<1>1. /\ FosInv /\ FosInv' /\ LineOrdered(guest, rx) /\ GuestIs(guest) /\ rx \in Seq(Events)
      /\ guest.up /\ UNCHANGED <<cli, phase>> /\ seen' = seen
  BY StepLoseSession DEF ScopeInv, LoseSession, FosInv, GuestSound, GuestIs, LineSound
<1>2. PICK said, ran \in BOOLEAN :
        /\ ran => typed # <<>> /\ Knows(guest.ctx, Head(typed))
        /\ guest' = LoggedOut(IF ran THEN Ran(guest, Head(typed)) ELSE guest)
        /\ rx' = rx \o (IF said THEN <<Event("lost")>> ELSE <<>>) \o <<Event("username")>>
  BY DEF LoseSession
<1>3. ~guest'.up
  <2>1. \A g : GuestIs(g) => ~LoggedOut(g).up
    BY DEF GuestIs, LoggedOut
  <2>2. ran => GuestIs(Ran(guest, Head(typed)))
    BY <1>1, <1>2, GuestReads, RanGuest
  <2>. QED
    BY <1>1, <1>2, <2>1, <2>2
<1>. DEFINE m == "lost"
<1>4. EndsSession(guest', rx, rx', m)
  <2>1. \/ rx' = rx \o <<>> \o <<Event("username")>>
        \/ rx' = rx \o <<Event(m)>> \o <<Event("username")>>
    BY <1>2
  <2>2. m = "lost" \/ m = "rebooting"
    OBVIOUS
  <2>. HIDE DEF m
  <2>. QED
    BY <1>1, <1>3, <2>1, <2>2, OrderedEnd
<1>5. \A i \in 1..Len(rx') : rx'[i].st \in Prompts => \E j \in 1..Len(rx) : rx'[i] = rx[j]
  BY <1>4 DEF EndsSession
<1>6. ASSUME OnCourse(cli), Watched(cli, guest, typed, rx)
      PROVE  Watched(cli, guest', typed', rx')
  <2>1. Heard(cli, guest', rx')
    BY <1>4 DEF EndsSession, Heard
  <2>2. AtRest(cli, guest, typed, rx) /\ Served(cli, guest, typed, rx)
    BY <1>6 DEF Watched
  <2>3. AtRest(cli, guest', typed', rx')
    <3>1. Idle(cli) => \A i \in 1..Len(rx') : rx'[i].st \in Prompts =>
                           rx'[i].st = "prompt" /\ rx'[i].ctx = <<>>
      BY <1>5, <2>2, Zenon DEF AtRest
    <3>. QED
      BY <1>3, <3>1 DEF AtRest
  <2>4. Served(cli, guest', typed', rx')
    <3>1. ~Idle(cli) /\ Changes(cli) =>
            \A i \in 1..Len(rx') : rx'[i].st \in {"prompt", "echo"} =>
                  rx'[i].ctx = Led(cli) \/ Invalid(cli.inflight, rx'[i])
      <4>1. \A s \in {"prompt", "echo"} : s \in Prompts
        BY DEF Prompts
      <4>. QED
        BY <1>5, <2>2, <4>1, Zenon DEF Served
    <3>. QED
      BY <1>3, <3>1 DEF Served
  <2>. QED
    BY <2>1, <2>3, <2>4 DEF Watched
<1>. QED
  BY <1>1, <1>4, <1>6, ScopeGuestStep DEF EndsSession

LEMMA ScopeDropLine == ScopeInv /\ DropLine => ScopeInv'
<1>. SUFFICES ASSUME ScopeInv, DropLine PROVE ScopeInv'
  OBVIOUS
<1>1. /\ FosInv /\ FosInv' /\ LineOrdered(guest, rx) /\ ~guest.up
      /\ guest' = guest /\ rx' = rx /\ UNCHANGED <<cli, phase>>
  BY StepDropLine DEF ScopeInv, DropLine
<1>2. seen'.unseen = seen.unseen /\ DOMAIN seen' = DOMAIN seen
  BY DEF ScopeInv, SeenFields, DropLine
<1>3. LineOrdered(guest', rx')
  BY <1>1
<1>4. ASSUME Watched(cli, guest, typed, rx)
      PROVE  Watched(cli, guest', typed', rx')
  BY <1>1, <1>4 DEF Watched, Heard, AtRest, Served
<1>. QED
  BY <1>1, <1>2, <1>3, <1>4, ScopeGuestStep

LEMMA ScopeLogin == ScopeInv /\ Login => ScopeInv'
<1>. SUFFICES ASSUME ScopeInv, Login PROVE ScopeInv'
  OBVIOUS
<1>1. /\ FosInv /\ FosInv' /\ ~guest.up /\ typed = <<>> /\ rx = <<>> /\ typed' = typed
      /\ UNCHANGED <<cli, phase>> /\ seen' = seen /\ GuestIs(guest) /\ guest.ctx = <<>>
  BY StepLogin DEF ScopeInv, Login, FosInv, GuestSound, GuestIs
<1>2. /\ Event("accepted").st = "accepted" /\ Event("rejected").st = "rejected"
      /\ Event("prompt").st = "prompt" /\ Event("prompt").ctx = <<>>
  BY DEF Event
<1>3. ASSUME Watched(cli, guest, typed, rx)
      PROVE  Idle(cli) /\ cli.known # "prompt"
  BY <1>1, <1>3 DEF Watched, Heard
<1>. DEFINE a == Event("accepted")
            p == Event("prompt")
            j == Event("rejected")
<1>. HIDE DEF a, p, j
<1>4. CASE /\ guest' = [guest EXCEPT !.up = TRUE]
           /\ rx' = <<a>> \o <<p>> \/ rx' = <<>> \o <<p>>
  <2>1. guest'.up /\ guest'.ctx = <<>>
    BY <1>1, <1>4 DEF GuestIs
  <2>2. \A i \in 1..Len(rx') : rx'[i] = a \/ rx'[i] = p
    <3>1. /\ Len(<<>> \o <<p>>) = 1 /\ (<<>> \o <<p>>)[1] = p
          /\ Len(<<a>> \o <<p>>) = 2 /\ (<<a>> \o <<p>>)[1] = a /\ (<<a>> \o <<p>>)[2] = p
      OBVIOUS
    <3>2. \A i \in 1..2 : i = 1 \/ i = 2
      OBVIOUS
    <3>3. \A i \in 1..1 : i = 1
      OBVIOUS
    <3>. QED
      BY <1>4, <3>1, <3>2, <3>3
  <2>3. \A i \in 1..Len(rx') :
          \/ rx'[i].st = "accepted"
          \/ rx'[i].st = "prompt" /\ rx'[i].ctx = <<>>
    BY <1>2, <2>2 DEF a, p
  <2>4. LineOrdered(guest', rx')
    BY <2>1, <2>3 DEF LineOrdered
  <2>5. ASSUME Watched(cli, guest, typed, rx)
        PROVE  Watched(cli, guest', typed', rx')
    BY <1>1, <1>3, <2>1, <2>3, <2>5 DEF Watched, Heard, AtRest, Served, Prompts
  <2>. QED
    BY <1>1, <2>4, <2>5, ScopeGuestStep
<1>5. CASE guest' = guest /\ rx' = <<j>>
  <2>1. Len(rx') = 1 /\ rx'[1].st = "rejected"
    <3>1. Len(<<j>>) = 1 /\ <<j>>[1] = j
      OBVIOUS
    <3>. QED
      BY <1>2, <1>5, <3>1 DEF j
  <2>2. LineOrdered(guest', rx')
    BY <1>1, <1>5, <2>1 DEF LineOrdered
  <2>3. ASSUME Watched(cli, guest, typed, rx)
        PROVE  Watched(cli, guest', typed', rx')
    BY <1>1, <1>3, <1>5, <2>1, <2>3 DEF Watched, Heard, AtRest, Served, Prompts, Quiet
  <2>. QED
    BY <1>1, <2>2, <2>3, ScopeGuestStep
<1>. QED
  BY <1>4, <1>5 DEF Login, a, p, j

LEMMA StepScopeInv == ScopeInv /\ [Next]_vars => ScopeInv'
<1>. SUFFICES ASSUME ScopeInv, [Next]_vars PROVE ScopeInv'
  OBVIOUS
<1>1. CASE UNCHANGED vars
  <2>1. /\ cli' = cli /\ guest' = guest /\ typed' = typed /\ rx' = rx /\ phase' = phase
        /\ seen' = seen
    BY <1>1 DEF vars
  <2>2. FosInv'
    BY <1>1, StepFosInv DEF ScopeInv
  <2>. QED
    BY <2>1, <2>2 DEF ScopeInv, Ongoing
<1>. QED
  BY <1>1, ScopeRead, ScopeReadEcho, ScopeReadRejected, ScopeReadTimeout, ScopeExecute,
     ScopeExecuteFormat, ScopeFall, ScopeLoseSession, ScopeDropLine, ScopeLogin DEF Next

\* The commander never runs ahead of a guest it has lost sight of: until something fails, the
\* command in flight is the next one of its block, cleanup or reset, typed in its scope, and
\* between two blocks the guest is at the top level.
THEOREM ScopeInvariance == Spec => []ScopeInv
  BY InitScopeInv, StepScopeInv, PTL DEF Spec

\* Whatever sessions and scopes the guest lost before, and however often a block was replayed
\* for it, every command of a block is typed in the scope it is written for, until a feature
\* is skipped.
THEOREM InIntendedScopeHolds == Spec => []InIntendedScope
<1>1. ScopeInv => InIntendedScope
  <2>. SUFFICES ASSUME ScopeInv, cli.inflight.index > 0, ~seen.unseen, cli.errors = {}
                PROVE  cli.inflight.before = Intended(cli.cmds, cli.inflight.index)
    BY DEF InIntendedScope
  <2>1. ~Idle(cli)
    BY NoAttemptIsIdle DEF Idle
  <2>2. Fly(cli)
    BY <2>1, FlyOrRest DEF ScopeInv, OnCourseOrNot, GaveUp
  <2>3. cli.inflight.index # 0
    OBVIOUS
  <2>4. ~InCleanup(cli) /\ ~InReset(cli)
    BY <2>3 DEF InCleanup, InReset
  <2>. QED
    BY <2>2, <2>4 DEF Fly, Typed, InBlock
<1>. QED
  BY <1>1, ScopeInvariance, PTL

(***************************************************************************)
(* The disks.  Unlike the scopes this goes on when work is given up.       *)
(***************************************************************************)

\* No command of the block, or of the cleanup, confirms a format.
YesFree(b) == \A i \in 1..Len(b) : b[i].op # "yes"
YesFreeWork(w) == \A i \in 1..Len(w) : w[i].cmd.op # "yes"

\* The cleanups and the features take turns, and no prompt is awaited in between.
Apart(k) ==
    /\ k.active # NoFeature => k.cleanup = <<>> /\ ~k.inCleanup
    /\ Idle(k) => ~k.inReset /\ (k.inCleanup => k.error \/ k.raised)
    /\ ~(k.inReset /\ k.inCleanup)
    /\ Paging(k)

\* The block of each stage.
StageBlock(k) ==
    \/ k.stage = "list" /\ k.cmds = <<Cmd("query", "disks")>>
    \/ k.stage = "format" /\ k.cmds = <<FormatSpec(k.disk)>>
    \/ k.stage = "reboot" /\ k.cmds = <<YesSpec(k.disk)>>
    \/ k.stage = "restart-list" /\ k.pending = <<>>

\* The disk under way, the disks left, and the command that is typed for it.
Formatting(k) ==
    k.active = DiskFormat =>
        /\ k.left \in Int /\ k.disk + k.left = Disks + 2 /\ k.disk >= 2
        /\ k.pending \in {<<>>, k.cmds}
        /\ StageBlock(k)
        /\ k.stage \in {"format", "reboot"} => k.disk <= Disks + 1
        /\ k.stage \in {"reboot", "restart-list"} => k.target = NoContext
        /\ ~Idle(k) /\ ~k.inReset =>
               k.pending = <<>> /\ k.inflight.cmd = k.cmds[1] /\ k.stage # "restart-list"

\* Only that feature confirms a format.
Confirming(k) ==
    /\ k.active # DiskFormat => YesFree(k.cmds) /\ YesFree(k.pending)
    /\ YesFreeWork(k.cleanup)
    /\ ~Idle(k) /\ k.inflight.cmd.op = "yes" =>
           k.active = DiskFormat /\ k.stage = "reboot" /\ ~k.inReset

\* If disk n is the last one formatted, the commander is not behind it.
Ahead(k, n) ==
    /\ n \in Nat
    /\ DiskFormat \in ToSet(k.queue) => n <= 1
    /\ k.active = DiskFormat =>
           n <= k.disk /\ ((k.stage = "reboot" /\ k.pending = <<>>) \/ n < k.disk)

Disked(k, n) == Apart(k) /\ Formatting(k) /\ Confirming(k) /\ Ahead(k, n)

\* The fields these are about.
DiskParts(k) ==
    <<k.queue, k.active, k.stage, k.left, k.disk, k.cmds, k.pending, k.inflight, k.cleanup,
      k.inCleanup, k.target, k.inReset, k.std>>

LEMMA SameDisked ==
    ASSUME NEW k, NEW n, Disked(k, n), NEW d, DiskParts(d) = DiskParts(k),
           k.error \/ k.raised => d.error \/ d.raised
    PROVE  Disked(d, n)
<1>1. /\ d.queue = k.queue /\ d.active = k.active /\ d.stage = k.stage /\ d.left = k.left
      /\ d.disk = k.disk /\ d.cmds = k.cmds /\ d.pending = k.pending
      /\ d.inflight = k.inflight /\ d.cleanup = k.cleanup /\ d.inCleanup = k.inCleanup
      /\ d.target = k.target /\ d.inReset = k.inReset /\ d.std = k.std
  BY DEF DiskParts
<1>2. Idle(d) <=> Idle(k)
  BY <1>1 DEF Idle
<1>3. Apart(d)
  BY <1>1, <1>2 DEF Disked, Apart, Paging
<1>4. Formatting(d)
  BY <1>1, <1>2 DEF Disked, Formatting, StageBlock
<1>5. Confirming(d) /\ Ahead(d, n)
  BY <1>1, <1>2 DEF Disked, Confirming, Ahead
<1>. QED
  BY <1>3, <1>4, <1>5 DEF Disked

LEMMA YesFreeBlocks ==
    /\ YesFree(<<>>) /\ YesFree(<<Inspect>>) /\ YesFree(SetStandard)
    /\ \A b \in Seq(Written) : YesFree(b)
    /\ YesFreeWork(<<>>)
    /\ YesFreeWork([i \in 1..3 |-> [cmd |-> SetMore[i], again |-> FALSE]])
<1>1. \A o, a : Cmd(o, a).op = o
  BY DEF Cmd
<1>2. YesFree(<<>>) /\ YesFreeWork(<<>>)
  <2>1. Len(<<>>) = 0
    OBVIOUS
  <2>. QED
    BY <2>1 DEF YesFree, YesFreeWork
<1>3. YesFree(<<Inspect>>)
  <2>1. Len(<<Inspect>>) = 1 /\ <<Inspect>>[1] = Inspect
    OBVIOUS
  <2>. QED
    BY <1>1, <2>1 DEF YesFree, Inspect
<1>4. YesFree(SetStandard)
  <2>1. /\ Len(SetStandard) = 3
        /\ SetStandard[1] = Cmd("config", "console") /\ SetStandard[2] = Cmd("set", "standard")
        /\ SetStandard[3] = Cmd("end", "console")
    BY ConsoleBlocks
  <2>. QED
    BY <1>1, <2>1 DEF YesFree
<1>5. ASSUME NEW b \in Seq(Written) PROVE YesFree(b)
  <2>1. \A i \in 1..Len(b) : b[i] \in Written
    BY ElementOfSeq
  <2>. QED
    BY <2>1, FosAssumption DEF YesFree
<1>6. YesFreeWork([i \in 1..3 |-> [cmd |-> SetMore[i], again |-> FALSE]])
  <2>. DEFINE w == [i \in 1..3 |-> [cmd |-> SetMore[i], again |-> FALSE]]
  <2>1. /\ SetMore[1] = Cmd("config", "console") /\ SetMore[2] = Cmd("set", "more")
        /\ SetMore[3] = Cmd("end", "console")
    BY ConsoleBlocks
  <2>2. \A i \in 1..3 : SetMore[i].op # "yes"
    BY <1>1, <2>1
  <2>3. Len(w) = 3 /\ \A i \in 1..3 : w[i].cmd = SetMore[i]
    BY RestoringWork
  <2>. HIDE DEF w
  <2>4. YesFreeWork(w)
    BY <2>2, <2>3 DEF YesFreeWork
  <2>. QED
    BY <2>4 DEF w
<1>. QED
  BY <1>2, <1>3, <1>4, <1>5, <1>6

\* What is active, or completed, is not queued.
LEMMA ActiveNotQueued ==
    ASSUME NEW k, Good(k)
    PROVE  k.active \notin ToSet(k.queue)
<1>1. k.queue \in Seq(ToSet(Queue)) /\ \A i \in 1..Len(k.queue) : k.queue[i] # k.active
  BY DEF Good, Queueing
<1>2. DOMAIN k.queue = 1..Len(k.queue)
  BY <1>1, LenProperties
<1>. QED
  BY <1>1, <1>2 DEF ToSet

LEMMA SubmitBlockDisked ==
    ASSUME NEW k, Good(k), Idle(k), NEW n, Disked(k, n), k.active # DiskFormat,
           NEW b, YesFree(b)
    PROVE  Disked(SubmitBlock(k, b), n)
<1>. DEFINE d == SubmitBlock(k, b)
<1>1. /\ d.queue = k.queue /\ d.active = k.active /\ d.cmds = b /\ d.pending = b
      /\ d.inflight = k.inflight /\ d.cleanup = k.cleanup /\ d.inCleanup = k.inCleanup
      /\ d.inReset = k.inReset /\ d.std = k.std /\ d.error = k.error /\ d.raised = k.raised
  BY DEF SubmitBlock, Good, Fields
<1>. HIDE DEF d
<1>2. Apart(d) /\ Formatting(d) /\ Ahead(d, n)
  BY <1>1 DEF Disked, Apart, Paging, Formatting, Ahead, Idle
<1>3. Confirming(d)
  BY <1>1 DEF Disked, Confirming, Idle
<1>. QED
  BY <1>2, <1>3 DEF Disked, d

\* The commander is about to ask for the disks: the formatting goes on.
Listing(k, n) ==
    /\ k.active = DiskFormat /\ Apart(k) /\ YesFreeWork(k.cleanup)
    /\ k.left \in Int /\ k.disk \in Nat /\ k.disk + k.left = Disks + 2 /\ k.disk >= 2
    /\ n \in Nat /\ n < k.disk

\* A block of the feature that formats disks.
LEMMA StageDisked ==
    ASSUME NEW k, Good(k), Idle(k), NEW n, Listing(k, n), NEW s, NEW c,
           \/ s = "list" /\ c = Cmd("query", "disks")
           \/ s = "format" /\ c = FormatSpec(k.disk)
           \/ s = "reboot" /\ c = YesSpec(k.disk),
           s # "list" => k.disk <= Disks + 1
    PROVE  Disked(SubmitBlock([k EXCEPT !.stage = s], <<c>>), n)
<1>. DEFINE d == SubmitBlock([k EXCEPT !.stage = s], <<c>>)
<1>1. /\ d.queue = k.queue /\ d.active = k.active /\ d.cmds = <<c>> /\ d.pending = <<c>>
      /\ d.stage = s /\ d.left = k.left /\ d.disk = k.disk /\ d.target = NoContext
      /\ d.inflight = k.inflight /\ d.cleanup = k.cleanup /\ d.inCleanup = k.inCleanup
      /\ d.inReset = k.inReset /\ d.std = k.std /\ d.error = k.error /\ d.raised = k.raised
  BY DEF SubmitBlock, Good, Fields
<1>. HIDE DEF d
<1>2. Idle(d) /\ DiskFormat \notin ToSet(d.queue)
  BY <1>1, ActiveNotQueued DEF Idle, Listing
<1>3. Apart(d)
  BY <1>1, <1>2 DEF Listing, Apart, Paging
<1>4. Formatting(d)
  <2>1. StageBlock(d)
    BY <1>1 DEF StageBlock
  <2>. QED
    BY <1>1, <1>2, <2>1 DEF Listing, Formatting
<1>5. Confirming(d) /\ Ahead(d, n)
  BY <1>1, <1>2 DEF Listing, Confirming, Ahead
<1>. QED
  BY <1>3, <1>4, <1>5 DEF Disked, d

LEMMA SubmitListDisked ==
    ASSUME NEW k, Good(k), Idle(k), NEW n, Listing(k, n)
    PROVE  Disked(SubmitList(k), n)
  BY StageDisked DEF SubmitList

LEMMA ActivateNextFeatureDisked ==
    ASSUME NEW k, Good(k), Idle(k), NEW n, Disked(k, n), k.cleanup = <<>>,
           ~k.inCleanup
    PROVE  Disked(ActivateNextFeature(k), n)
<1>1. CASE k.ready \/ k.active # NoFeature \/ k.recovering
  BY <1>1 DEF ActivateNextFeature
<1>2. CASE ~(k.ready \/ k.active # NoFeature \/ k.recovering) /\ k.queue = <<>>
  <2>. DEFINE r == [k EXCEPT !.ready = TRUE]
  <2>1. DiskParts(r) = DiskParts(k) /\ r.error = k.error /\ r.raised = k.raised
    BY DEF Good, Fields, DiskParts
  <2>2. ActivateNextFeature(k) \in {k, r}
    BY <1>2 DEF ActivateNextFeature
  <2>. HIDE DEF r
  <2>3. Disked(r, n)
    BY <2>1, SameDisked
  <2>. QED
    BY <2>2, <2>3
<1>3. CASE ~(k.ready \/ k.active # NoFeature \/ k.recovering) /\ k.queue # <<>>
  <2>. DEFINE f == Head(k.queue)
              a == [k EXCEPT !.active = f, !.queue = Tail(k.queue)]
              d == [a EXCEPT !.left = Disks, !.disk = 2]
              p == [a EXCEPT !.std = "inspect", !.blocks = Blocks[f]]
              b == [a EXCEPT !.blocks = Tail(Blocks[f])]
  <2>1. ActivateNextFeature(k) =
            IF f = DiskFormat THEN SubmitList(d)
            ELSE IF f \in Paged THEN SubmitBlock(p, <<Inspect>>)
            ELSE SubmitBlock(b, Head(Blocks[f]))
    BY <1>3 DEF ActivateNextFeature
  <2>2. Good(a) /\ Idle(a) /\ a.active \in ToSet(Queue)
    BY <1>3, TakeFeature DEF Silent, Idle
  <2>3. /\ DOMAIN a = Fields /\ a.active = f /\ a.queue = Tail(k.queue)
        /\ a.cmds = k.cmds /\ a.pending = k.pending /\ a.inflight = k.inflight
        /\ a.cleanup = k.cleanup /\ a.inCleanup = k.inCleanup
        /\ a.inReset = k.inReset /\ a.std = k.std /\ a.blocks = k.blocks
        /\ a.completed = k.completed /\ a.retried = k.retried
        /\ a.error = k.error /\ a.raised = k.raised
    BY DEF Good, Fields
  <2>4. k.queue \in Seq(ToSet(Queue)) /\ f \in ToSet(k.queue)
        /\ \A g \in ToSet(Tail(k.queue)) : g \in ToSet(k.queue)
    <3>1. k.queue \in Seq(ToSet(Queue))
      BY DEF Good, Queueing
    <3>2. /\ f = k.queue[1] /\ Len(k.queue) \in Nat \ {0} /\ DOMAIN k.queue = 1..Len(k.queue)
          /\ Tail(k.queue) \in Seq(ToSet(Queue)) /\ Len(Tail(k.queue)) = Len(k.queue) - 1
          /\ DOMAIN Tail(k.queue) = 1..(Len(k.queue) - 1)
          /\ \A i \in 1..(Len(k.queue) - 1) : Tail(k.queue)[i] = k.queue[i + 1]
      BY <1>3, <3>1, HeadTailProperties, LenProperties, EmptySeq
    <3>. HIDE DEF f
    <3>. DEFINE q == k.queue
                t == Tail(k.queue)
                m == Len(k.queue)
    <3>. HIDE DEF q, t, m
    <3>3. /\ f = q[1] /\ m \in Nat \ {0} /\ DOMAIN q = 1..m /\ DOMAIN t = 1..(m - 1)
          /\ \A i \in 1..(m - 1) : t[i] = q[i + 1]
      BY <3>2 DEF q, t, m
    <3>4. f \in ToSet(q) /\ \A g \in ToSet(t) : g \in ToSet(q)
      <4>1. \A i \in 1..(m - 1) : i + 1 \in 1..m
        BY <3>3
      <4>. QED
        BY <3>3, <4>1 DEF ToSet
    <3>. QED
      BY <3>1, <3>4 DEF q, t
  <2>. HIDE DEF a, f
  <2>5. Apart(a)
    BY <1>3, <2>2, <2>3 DEF Disked, Apart, Paging
  <2>6. YesFree(a.cmds) /\ YesFree(a.pending) /\ YesFreeWork(a.cleanup)
    BY <1>3, <2>3 DEF Disked, Confirming, DiskFormat, NoFeature
  <2>7. CASE f = DiskFormat
    <3>1. /\ DOMAIN d = Fields /\ d.active = a.active /\ d.inflight = a.inflight
          /\ d.cleanup = a.cleanup /\ d.inCleanup = a.inCleanup /\ d.inReset = a.inReset
          /\ d.std = a.std /\ d.error = a.error /\ d.raised = a.raised
          /\ d.left = Disks /\ d.disk = 2
          /\ d.queue = a.queue /\ d.completed = a.completed
          /\ d.blocks = a.blocks /\ d.cmds = a.cmds /\ d.pending = a.pending
          /\ d.retried = a.retried
      BY <2>2, <2>3 DEF Fields
    <3>. HIDE DEF d
    <3>2. Good(d) /\ Idle(d)
      <4>1. Typing(d)
        BY <2>2, <3>1 DEF Good, Typing, Idle
      <4>2. Queueing(d) /\ Idle(d)
        BY <2>2, <3>1 DEF Good, Queueing, Idle
      <4>. QED
        BY <3>1, <4>1, <4>2 DEF Good, Working
    <3>3. n \in Nat /\ n <= 1 /\ Disks \in Nat
      BY <2>4, <2>7, FosAssumption DEF Disked, Ahead
    <3>4. Listing(d, n)
      BY <2>3, <2>5, <2>6, <2>7, <3>1, <3>2, <3>3 DEF Listing, Apart, Paging, Idle
    <3>. QED
      BY <2>1, <2>7, <3>2, <3>4, SubmitListDisked
  <2>8. CASE f # DiskFormat
    <3>1. Disked(a, n)
      <4>1. Confirming(a)
        BY <2>2, <2>3, <2>6, <2>8 DEF Confirming
      <4>2. Formatting(a) /\ Ahead(a, n)
        BY <2>3, <2>4, <2>8 DEF Formatting, Ahead, Disked
      <4>. QED
        BY <2>5, <4>1, <4>2 DEF Disked
    <3>2. /\ Blocks[f] \in Seq(Seq(Written))
          /\ f \notin Paged => Blocks[f] # <<>>
      BY <2>2, <2>3, <2>8, FosAssumption
    <3>3. CASE f \in Paged
      <4>1. /\ DOMAIN p = Fields /\ p.std = "inspect"
            /\ p.queue = a.queue /\ p.active = a.active /\ p.completed = a.completed
            /\ p.blocks = Blocks[f] /\ p.cmds = a.cmds /\ p.pending = a.pending
            /\ p.cleanup = a.cleanup /\ p.retried = a.retried /\ p.disk = a.disk
            /\ p.inflight = a.inflight /\ p.inCleanup = a.inCleanup /\ p.inReset = a.inReset
            /\ p.error = a.error /\ p.raised = a.raised
        BY <2>2 DEF Good, Fields
      <4>. HIDE DEF p
      <4>2. Typing(p)
        BY <2>2, <3>2, <4>1 DEF Good, Typing, Idle
      <4>3. Queueing(p) /\ Working(p) /\ Idle(p)
        BY <2>2, <4>1 DEF Good, Queueing, Working, Idle
      <4>4. Good(p)
        BY <4>1, <4>2, <4>3 DEF Good
      <4>5. f # NoFeature
        BY <2>2, <2>3, FosAssumption
      <4>6. Disked(p, n)
        <5>1. Apart(p)
          BY <2>3, <2>8, <3>1, <4>1, <4>3, <4>5 DEF Disked, Apart, Paging, Idle
        <5>2. Confirming(p) /\ Formatting(p) /\ Ahead(p, n)
          BY <2>3, <2>8, <3>1, <4>1 DEF Disked, Confirming, Formatting, Ahead, Idle
        <5>. QED
          BY <5>1, <5>2 DEF Disked
      <4>7. Disked(SubmitBlock(p, <<Inspect>>), n)
        BY <2>3, <2>8, <4>1, <4>3, <4>4, <4>6, SubmitBlockDisked, YesFreeBlocks
      <4>. QED
        BY <2>1, <2>8, <3>3, <4>7
    <3>4. CASE f \notin Paged
      <4>1. Tail(Blocks[f]) \in Seq(Seq(Written)) /\ Head(Blocks[f]) \in Seq(Written)
        BY <3>2, <3>4, HeadTailProperties
      <4>2. /\ DOMAIN b = Fields /\ DiskParts(b) = DiskParts(a)
            /\ b.queue = a.queue /\ b.active = a.active /\ b.completed = a.completed
            /\ b.blocks = Tail(Blocks[f]) /\ b.cmds = a.cmds /\ b.pending = a.pending
            /\ b.cleanup = a.cleanup /\ b.retried = a.retried /\ b.disk = a.disk
            /\ b.inflight = a.inflight /\ b.inCleanup = a.inCleanup /\ b.inReset = a.inReset
            /\ b.error = a.error /\ b.raised = a.raised
        BY <2>2 DEF Good, Fields, DiskParts
      <4>. HIDE DEF b
      <4>3. Typing(b)
        BY <2>2, <4>1, <4>2 DEF Good, Typing, Idle
      <4>4. Queueing(b) /\ Working(b) /\ Idle(b)
        BY <2>2, <4>2 DEF Good, Queueing, Working, Idle
      <4>5. Good(b)
        BY <4>2, <4>3, <4>4 DEF Good
      <4>6. Disked(b, n)
        BY <3>1, <4>2, SameDisked
      <4>7. YesFree(Head(Blocks[f]))
        BY <4>1, YesFreeBlocks
      <4>8. Disked(SubmitBlock(b, Head(Blocks[f])), n)
        BY <2>3, <2>8, <4>2, <4>4, <4>5, <4>6, <4>7, SubmitBlockDisked
      <4>. QED
        BY <2>1, <2>8, <3>4, <4>8
    <3>. QED
      BY <3>3, <3>4
  <2>. QED
    BY <2>7, <2>8
<1>. QED
  BY <1>1, <1>2, <1>3

LEMMA CompletedDisked ==
    ASSUME NEW k, Good(k), Idle(k), k.active # NoFeature, Apart(k), NEW n \in Nat,
           DiskFormat \in ToSet(k.queue) => n <= 1, k.pending = <<>>, NEW c, NEW d,
           d = [FinishStandardOutput(k) EXCEPT
                  !.completed = c, !.pending = <<>>, !.cmds = <<>>, !.active = NoFeature]
    PROVE  Disked(d, n)
<1>. DEFINE s == FinishStandardOutput(k)
            w == [i \in 1..3 |-> [cmd |-> SetMore[i], again |-> FALSE]]
<1>1. /\ DOMAIN s = Fields
      /\ s.queue = k.queue /\ s.inflight = k.inflight /\ s.inCleanup = k.inCleanup
      /\ s.inReset = k.inReset /\ s.std = "none" /\ s.error = k.error /\ s.raised = k.raised
      /\ s.cleanup \in {k.cleanup, k.cleanup \o w}
  BY DEF FinishStandardOutput, Good, Fields
<1>. HIDE DEF s
<1>2. /\ d.queue = s.queue /\ d.inflight = s.inflight /\ d.inCleanup = s.inCleanup
      /\ d.inReset = s.inReset /\ d.std = s.std /\ d.error = s.error /\ d.raised = s.raised
      /\ d.cleanup = s.cleanup /\ d.active = NoFeature /\ d.cmds = <<>> /\ d.pending = <<>>
  BY <1>1 DEF Fields, s
<1>3. YesFreeWork(d.cleanup)
  <2>1. k.cleanup = <<>>
    BY DEF Apart
  <2>2. w \in Seq(CleanupWork) /\ YesFreeWork(w) /\ YesFreeWork(<<>>)
    BY RestoringWork, YesFreeBlocks
  <2>. HIDE DEF w
  <2>3. <<>> \o w = w
    BY <2>2, ConcatEmptySeq
  <2>. QED
    BY <1>1, <1>2, <2>1, <2>2, <2>3
<1>4. DiskFormat # NoFeature /\ YesFree(<<>>)
  BY YesFreeBlocks DEF DiskFormat, NoFeature
<1>5. Apart(d)
  BY <1>1, <1>2 DEF Apart, Paging, Idle
<1>6. Confirming(d)
  BY <1>1, <1>2, <1>3, <1>4 DEF Confirming, Idle
<1>7. Formatting(d) /\ Ahead(d, n)
  BY <1>1, <1>2, <1>4 DEF Formatting, Ahead
<1>. QED
  BY <1>5, <1>6, <1>7 DEF Disked

LEMMA FeatureCompleteDisked ==
    ASSUME NEW k, Good(k), Idle(k), k.active # NoFeature, Apart(k), NEW n \in Nat,
           DiskFormat \in ToSet(k.queue) => n <= 1, k.pending = <<>>
    PROVE  Disked(FeatureComplete(k), n)
<1>. DEFINE s == FinishStandardOutput(k)
            d == [s EXCEPT !.completed = @ \cup {k.active}, !.active = NoFeature, !.cmds = <<>>]
            c == s.completed \cup {k.active}
            f == [s EXCEPT !.completed = c, !.pending = <<>>, !.cmds = <<>>,
                           !.active = NoFeature]
<1>1. FeatureComplete(k) = IF d.cleanup = <<>> THEN ActivateNextFeature(d) ELSE d
  BY DEF FeatureComplete
<1>2. Good(d) /\ Idle(d) /\ Silent(k, d)
  BY CompletedGood
<1>3. d = f /\ d.inCleanup = k.inCleanup
  <2>1. DOMAIN s = Fields /\ s.pending = <<>> /\ s.inCleanup = k.inCleanup
    BY DEF FinishStandardOutput, Good, Fields
  <2>. HIDE DEF s
  <2>2. d = [x \in Fields |-> CASE x = "completed" -> c [] x = "active" -> NoFeature
                                [] x = "cmds" -> <<>> [] OTHER -> s[x]]
    BY <2>1 DEF Fields
  <2>3. f = [x \in Fields |-> CASE x = "completed" -> c [] x = "active" -> NoFeature
                                [] x = "cmds" -> <<>> [] OTHER -> s[x]]
    BY <2>1 DEF Fields
  <2>4. d.inCleanup = s.inCleanup
    BY <2>1 DEF Fields
  <2>. QED
    BY <2>1, <2>2, <2>3, <2>4
<1>4. Disked(f, n)
  <2>. HIDE DEF c
  <2>. QED
    BY CompletedDisked
<1>5. Disked(d, n) /\ ~d.inCleanup
  BY <1>3, <1>4 DEF Apart
<1>. HIDE DEF d
<1>. QED
  BY <1>1, <1>2, <1>5, ActivateNextFeatureDisked

LEMMA SubmitNextDisked ==
    ASSUME NEW k, Good(k), Idle(k), k.active \notin {NoFeature, DiskFormat}, NEW n,
           Disked(k, n), k.pending = <<>>
    PROVE  Disked(SubmitNext(k), n)
<1>1. CASE k.blocks = <<>>
  BY <1>1, FeatureCompleteDisked DEF SubmitNext, Disked, Ahead
<1>2. CASE k.blocks # <<>>
  <2>. DEFINE b == [k EXCEPT !.blocks = Tail(@)]
  <2>1. Tail(k.blocks) \in Seq(Seq(Written)) /\ Head(k.blocks) \in Seq(Written)
    BY <1>2, HeadTailProperties DEF Good, Typing
  <2>2. /\ DOMAIN b = Fields /\ DiskParts(b) = DiskParts(k)
        /\ b.queue = k.queue /\ b.active = k.active /\ b.completed = k.completed
        /\ b.blocks = Tail(k.blocks) /\ b.cmds = k.cmds /\ b.pending = k.pending
        /\ b.cleanup = k.cleanup /\ b.retried = k.retried /\ b.disk = k.disk
        /\ b.inflight = k.inflight /\ b.inCleanup = k.inCleanup /\ b.inReset = k.inReset
        /\ b.error = k.error /\ b.raised = k.raised
    BY DEF Good, Fields, DiskParts
  <2>3. SubmitNext(k) = SubmitBlock(b, Head(k.blocks))
    BY <1>2 DEF SubmitNext
  <2>. HIDE DEF b
  <2>4. Typing(b)
    BY <2>1, <2>2 DEF Good, Typing, Idle
  <2>5. Queueing(b) /\ Working(b) /\ Idle(b)
    BY <2>2 DEF Good, Queueing, Working, Idle
  <2>6. Good(b) /\ Disked(b, n)
    BY <2>2, <2>4, <2>5, SameDisked DEF Good
  <2>7. YesFree(Head(k.blocks))
    BY <2>1, YesFreeBlocks
  <2>. QED
    BY <2>2, <2>3, <2>5, <2>6, <2>7, SubmitBlockDisked
<1>. QED
  BY <1>1, <1>2

\* The disk under way is done: the next one, or the end of the feature.
NextDiskOf(k, d) ==
    /\ d.disk = k.disk + 1 /\ d.left = k.left - 1 /\ DOMAIN d = Fields
    /\ d.queue = k.queue /\ d.active = k.active
    /\ d.inflight = k.inflight /\ d.cleanup = k.cleanup /\ d.inCleanup = k.inCleanup
    /\ d.inReset = k.inReset /\ d.std = k.std /\ d.error = k.error
    /\ d.raised = k.raised /\ d.target = k.target /\ d.pending = k.pending
    /\ d.cmds = k.cmds

LEMMA NextDisk ==
    ASSUME NEW k, Good(k), NEW n, Disked(k, n), k.active = DiskFormat,
           NEW d, NextDiskOf(k, d)
    PROVE  Listing(d, n)
<1>0. k.left \in Int /\ k.disk \in Nat /\ DOMAIN k = Fields /\ k.disk + k.left = Disks + 2
      /\ k.disk >= 2 /\ n \in Nat /\ n <= k.disk /\ Disks \in Nat
  BY FosAssumption DEF Good, Typing, Disked, Formatting, Ahead
<1>1. NextDiskOf(k, d)
  OBVIOUS
<1>2. Apart(d) /\ YesFreeWork(d.cleanup)
  BY <1>1 DEF NextDiskOf, Disked, Apart, Paging, Idle, Confirming
<1>3. /\ d.left \in Int /\ d.disk \in Nat /\ d.disk + d.left = Disks + 2 /\ d.disk >= 2
      /\ n < d.disk
  BY <1>0, <1>1 DEF NextDiskOf
<1>. QED
  BY <1>0, <1>1, <1>2, <1>3 DEF NextDiskOf, Listing

LEMMA OnBlockCompleteDisked ==
    ASSUME NEW k, Good(k), Idle(k), k.active # NoFeature, NEW n, Disked(k, n), k.pending = <<>>
    PROVE  Disked(OnBlockComplete(k), n)
<1>0. n \in Nat /\ k.disk \in Nat
  BY DEF Disked, Ahead, Good, Typing
<1>1. CASE k.active # DiskFormat
  BY <1>1, SubmitNextDisked DEF OnBlockComplete
<1>2. CASE k.active = DiskFormat /\ k.stage = "restart-list"
  <2>1. Listing(k, n)
    BY <1>0, <1>2 DEF Listing, Disked, Formatting, Confirming, Ahead
  <2>. QED
    BY <1>2, <2>1, SubmitListDisked DEF OnBlockComplete
<1>3. CASE k.active = DiskFormat /\ k.stage = "reboot"
  <2>. DEFINE d == [k EXCEPT !.left = @ - 1, !.disk = @ + 1]
  <2>1. /\ d.queue = k.queue /\ d.inflight = k.inflight /\ d.pending = k.pending
        /\ d.active = k.active /\ Listing(d, n)
    <3>1. NextDiskOf(k, d)
      BY DEF Good, Fields, NextDiskOf
    <3>. HIDE DEF d
    <3>. QED
      BY <1>3, <3>1, NextDisk DEF NextDiskOf
  <2>2. OnBlockComplete(k) = IF d.left = 0 THEN FeatureComplete(d) ELSE SubmitList(d)
    BY <1>3 DEF OnBlockComplete
  <2>3. Good(d)
    BY NextDiskGood
  <2>. HIDE DEF d
  <2>4. Idle(d) /\ DiskFormat \notin ToSet(d.queue)
    BY <1>3, <2>1, ActiveNotQueued DEF Idle
  <2>5. Disked(FeatureComplete(d), n)
    BY <1>0, <2>1, <2>3, <2>4, FeatureCompleteDisked DEF Listing
  <2>6. Disked(SubmitList(d), n)
    BY <2>1, <2>3, <2>4, SubmitListDisked
  <2>. QED
    BY <2>2, <2>5, <2>6
<1>4. CASE k.active = DiskFormat /\ k.stage \notin {"restart-list", "reboot"}
  BY <1>4 DEF OnBlockComplete
<1>. QED
  BY <1>1, <1>2, <1>3, <1>4

LEMMA WorkErrorDisked ==
    ASSUME NEW k, Good(k), NEW n, Disked(k, n)
    PROVE  Disked(WorkError(k), n)
<1>. DEFINE d == WorkError(k)
<1>1. DiskParts(d) = DiskParts(k) /\ (d.error \/ d.raised)
  BY DEF WorkError, Raise, Good, Fields, DiskParts
<1>. HIDE DEF d
<1>2. Disked(d, n)
  BY <1>1, SameDisked
<1>. QED
  BY <1>2 DEF d

LEMMA OnCommandExecutedDisked ==
    ASSUME NEW k, Good(k), Idle(k), NEW n, Disked(k, n), NEW e
    PROVE  Disked(OnCommandExecuted(k, e), n)
<1>. DEFINE x == OnCommandExecuted(k, e)
<1>1. CASE x \in {k, WorkError(k)}
  BY <1>1, WorkErrorDisked
<1>2. CASE x \notin {k, WorkError(k)}
  <2>1. /\ k.active = DiskFormat /\ k.stage \in {"list", "format"}
        /\ \/ x = SubmitBlock([k EXCEPT !.stage = "format"], <<FormatSpec(k.disk)>>)
           \/ x = SubmitBlock([k EXCEPT !.stage = "reboot"], <<YesSpec(k.disk)>>)
    BY <1>2 DEF OnCommandExecuted, FormatSpec, YesSpec
  <2>2. k.stage = "list" => ~(k.disk > Disks + 1)
    BY <1>2, <2>1 DEF OnCommandExecuted
  <2>3. Listing(k, n)
    BY <2>1 DEF Listing, Disked, Formatting, Confirming, Ahead, Good, Typing
  <2>4. k.disk <= Disks + 1
    BY <2>1, <2>2, <2>3, FosAssumption DEF Listing, Disked, Formatting
  <2>. HIDE DEF x
  <2>. QED
    BY <2>1, <2>3, <2>4, StageDisked DEF x
<1>. QED
  BY <1>1, <1>2

\* Only a block that does not confirm a format is replayed.
LEMMA RestartBlockDisked ==
    ASSUME NEW k, Good(k), Idle(k), NEW n, Disked(k, n), NEW attempt,
           k.active = DiskFormat => k.stage \in {"list", "format"}
    PROVE  Disked(RestartBlock(k, attempt), n)
<1>. DEFINE d == [k EXCEPT !.retried = @ \cup {attempt.index}, !.pending = k.cmds,
                           !.target = k.blockCtx, !.resetTried = FALSE]
<1>1. RestartBlock(k, attempt) \in {WorkError(k), d}
  BY DEF RestartBlock
<1>2. /\ d.queue = k.queue /\ d.active = k.active /\ d.stage = k.stage /\ d.left = k.left
      /\ d.disk = k.disk /\ d.cmds = k.cmds /\ d.pending = k.cmds
      /\ d.inflight = k.inflight /\ d.cleanup = k.cleanup /\ d.inCleanup = k.inCleanup
      /\ d.inReset = k.inReset /\ d.std = k.std /\ d.error = k.error /\ d.raised = k.raised
  BY DEF Good, Fields
<1>. HIDE DEF d
<1>3. Apart(d) /\ Confirming(d) /\ Ahead(d, n)
  BY <1>2 DEF Disked, Apart, Paging, Confirming, Ahead, Idle
<1>4. Formatting(d)
  BY <1>2 DEF Disked, Formatting, StageBlock, Idle
<1>. QED
  BY <1>1, <1>3, <1>4, WorkErrorDisked DEF Disked

LEMMA ContextLossDisked ==
    ASSUME NEW k, Good(k), Idle(k), NEW n, Disked(k, n), NEW attempt,
           k.active = DiskFormat /\ attempt.cmd.loss = "restart" =>
               k.stage \in {"list", "format"}
    PROVE  Disked(ContextLoss(k, attempt), n)
  BY RestartBlockDisked, WorkErrorDisked DEF ContextLoss

LEMMA CompleteStandardOutputDisked ==
    ASSUME NEW k, Good(k), Idle(k), k.active # NoFeature, k.pending = <<>>, NEW n, Disked(k, n),
           k.std # "none", NEW attempt, NEW e
    PROVE  Disked(CompleteStandardOutput(k, attempt, e), n)
<1>. DEFINE s == [k EXCEPT !.std = "set-standard"]
            a == [k EXCEPT !.std = "active", !.restore = attempt.cmd # Inspect]
<1>0. k.active # DiskFormat
  BY DEF Disked, Apart, Paging
<1>1. CompleteStandardOutput(k, attempt, e) \in {SubmitBlock(s, SetStandard), SubmitNext(a)}
  BY DEF CompleteStandardOutput
<1>2. ASSUME NEW d \in {s, a}
      PROVE  /\ Good(d) /\ Idle(d) /\ d.active = k.active /\ d.pending = <<>>
             /\ Disked(d, n)
  <2>1. /\ DOMAIN d = Fields /\ Parts(d) = Parts(k) /\ d.error = k.error /\ d.raised = k.raised
        /\ d.std \in {"set-standard", "active"}
    <3>1. CASE d = s
      BY <3>1 DEF Good, Fields, Parts
    <3>2. CASE d = a
      BY <3>2 DEF Good, Fields, Parts
    <3>. QED
      BY <3>1, <3>2
  <2>2. /\ d.queue = k.queue /\ d.active = k.active /\ d.cmds = k.cmds /\ d.pending = k.pending
        /\ d.inflight = k.inflight /\ d.cleanup = k.cleanup /\ d.inCleanup = k.inCleanup
        /\ d.inReset = k.inReset
    BY <2>1 DEF Parts
  <2>3. Good(d) /\ Idle(d)
    BY <2>1, <2>2, GoodByParts DEF Idle
  <2>4. Apart(d) /\ Confirming(d) /\ Formatting(d) /\ Ahead(d, n)
    BY <1>0, <2>1, <2>2, <2>3 DEF Disked, Apart, Paging, Confirming, Formatting, Ahead, Idle
  <2>. QED
    BY <2>2, <2>3, <2>4 DEF Disked
<1>. HIDE DEF s, a
<1>3. Disked(SubmitBlock(s, SetStandard), n)
  BY <1>0, <1>2, SubmitBlockDisked, YesFreeBlocks
<1>4. Disked(SubmitNext(a), n)
  BY <1>0, <1>2, SubmitNextDisked
<1>. QED
  BY <1>1, <1>3, <1>4

LEMMA InFlight ==
    ASSUME NEW k, k.inflight.cmd \in Cmds
    PROVE  ~Idle(k)
<1>1. NoAttempt.cmd = Return
  BY DEF NoAttempt
<1>2. Return \notin Cmds
  BY CommandsKinds
<1>. QED
  BY <1>1, <1>2 DEF Idle

\* A confirmation is typed for a disk that is not formatted yet.
Writes(d, n) == d.out # <<>> /\ d.inflight.cmd.op = "yes" => n < d.disk

LEMMA DispatchWorkDisked ==
    ASSUME NEW k, Good(k), Idle(k), NEW n, Disked(k, n), ~k.inCleanup, k.out = <<>>
    PROVE  Disked(DispatchWork(k), n) /\ Writes(DispatchWork(k), n)
<1>. DEFINE a == IF k.cleanup = <<>> /\ k.active = NoFeature THEN ActivateNextFeature(k) ELSE k
            c == [a EXCEPT !.cleanup = Tail(@), !.inCleanup = TRUE]
            p == [a EXCEPT !.pending = Tail(@), !.inCleanup = FALSE]
            z == DispatchWork(k)
<1>1. z = IF a.cleanup # <<>>
          THEN Dispatch(c, Head(a.cleanup).cmd, 0, Head(a.cleanup).again)
          ELSE IF a.active = NoFeature THEN a
          ELSE IF a.pending = <<>> THEN OnBlockComplete(a)
          ELSE Dispatch(p, Head(a.pending), Len(a.cmds) - Len(a.pending) + 1, FALSE)
  BY DEF DispatchWork
<1>2. Good(a) /\ Silent(k, a) /\ Disked(a, n)
  BY ActivateNextFeatureGood, ActivateNextFeatureDisked DEF Silent
<1>. HIDE DEF a, z
<1>3. Idle(a) /\ a.out = <<>> /\ DOMAIN a = Fields /\ ~a.inReset
  BY <1>2 DEF Silent, Idle, Good, Disked, Apart
<1>4. CASE a.cleanup # <<>>
  <2>1. /\ Head(a.cleanup) \in CleanupWork /\ Head(a.cleanup).cmd.op # "yes"
        /\ YesFreeWork(Tail(a.cleanup))
    <3>. DEFINE w == a.cleanup
                t == Tail(a.cleanup)
                m == Len(a.cleanup)
    <3>1. /\ w \in Seq(CleanupWork) /\ w # <<>>
          /\ YesFreeWork(w)
      BY <1>2, <1>4 DEF Good, Typing, Disked, Confirming
    <3>2. /\ Head(w) \in CleanupWork /\ Head(w) = w[1] /\ m \in Nat \ {0} /\ Len(t) = m - 1
          /\ \A i \in 1..(m - 1) : t[i] = w[i + 1]
      BY <3>1, HeadTailProperties, EmptySeq, LenProperties
    <3>. HIDE DEF w, t, m
    <3>3. \A i \in 1..m : w[i].cmd.op # "yes"
      BY <3>1 DEF YesFreeWork, m, w
    <3>4. w[1].cmd.op # "yes" /\ \A i \in 1..(m - 1) : t[i].cmd.op # "yes"
      BY <3>2, <3>3
    <3>. QED
      BY <3>2, <3>4 DEF YesFreeWork, w, t
  <2>. DEFINE h == Head(a.cleanup)
  <2>2. z = Dispatch(c, h.cmd, 0, h.again) /\ a.active = NoFeature
    BY <1>1, <1>2, <1>4 DEF Disked, Apart
  <2>. HIDE DEF h
  <2>3. /\ z.queue = a.queue /\ z.active = a.active /\ z.stage = a.stage /\ z.left = a.left
        /\ z.disk = a.disk /\ z.cmds = a.cmds /\ z.pending = a.pending
        /\ z.inflight.cmd = h.cmd /\ z.cleanup = Tail(a.cleanup) /\ z.inCleanup = TRUE
        /\ z.inReset = a.inReset /\ z.std = a.std
    BY <1>3, <2>2 DEF Dispatch, Fields
  <2>4. ~Idle(z)
    <3>1. h.cmd \in Cmds
      BY <2>1 DEF CleanupWork, h
    <3>. QED
      BY <2>3, <3>1, InFlight
  <2>5. Apart(z)
    BY <1>2, <1>3, <2>2, <2>3, <2>4 DEF Disked, Apart, Paging
  <2>6. Confirming(z)
    <3>1. h.cmd.op # "yes"
      BY <2>1 DEF h
    <3>. QED
      BY <1>2, <2>1, <2>2, <2>3, <3>1 DEF Disked, Confirming
  <2>7. Formatting(z) /\ Ahead(z, n) /\ Writes(z, n)
    <3>1. h.cmd.op # "yes" /\ DiskFormat # NoFeature
      BY <2>1 DEF h, DiskFormat, NoFeature
    <3>. QED
      BY <1>2, <2>2, <2>3, <3>1 DEF Disked, Formatting, Ahead, Writes
  <2>. QED
    BY <2>5, <2>6, <2>7 DEF Disked, z
<1>5. CASE a.cleanup = <<>> /\ a.active = NoFeature
  BY <1>1, <1>2, <1>3, <1>5 DEF Writes, z
<1>6. CASE a.cleanup = <<>> /\ a.active # NoFeature /\ a.pending = <<>>
  <2>1. Disked(OnBlockComplete(a), n) /\ Silent(a, OnBlockComplete(a))
    BY <1>2, <1>3, <1>6, OnBlockCompleteDisked, OnBlockCompleteGood
  <2>. QED
    BY <1>1, <1>3, <1>6, <2>1 DEF Writes, Silent, z
<1>7. CASE a.cleanup = <<>> /\ a.active # NoFeature /\ a.pending # <<>>
  <2>. DEFINE x == Head(a.pending)
  <2>1. /\ x \in Cmds /\ x = a.pending[1]
        /\ YesFree(a.pending) => x.op # "yes" /\ YesFree(Tail(a.pending))
    <3>. DEFINE b == a.pending
                t == Tail(a.pending)
                m == Len(a.pending)
    <3>1. b \in Seq(Cmds) /\ b # <<>>
      BY <1>2, <1>7 DEF Good, Typing, IsBlock
    <3>2. /\ Head(b) \in Cmds /\ Head(b) = b[1] /\ m \in Nat \ {0} /\ Len(t) = m - 1
          /\ \A i \in 1..(m - 1) : t[i] = b[i + 1]
      BY <3>1, HeadTailProperties, EmptySeq, LenProperties
    <3>. HIDE DEF b, t, m
    <3>3. YesFree(b) => b[1].op # "yes" /\ \A i \in 1..(m - 1) : t[i].op # "yes"
      <4>1. YesFree(b) => \A i \in 1..m : b[i].op # "yes"
        BY DEF YesFree, m, b
      <4>. QED
        BY <3>2, <4>1
    <3>. QED
      BY <3>2, <3>3 DEF YesFree, b, t
  <2>. DEFINE i == Len(a.cmds) - Len(a.pending) + 1
  <2>2. z = Dispatch(p, x, i, FALSE)
    BY <1>1, <1>7
  <2>. HIDE DEF x, i
  <2>3. /\ z.queue = a.queue /\ z.active = a.active /\ z.stage = a.stage /\ z.left = a.left
        /\ z.disk = a.disk /\ z.cmds = a.cmds /\ z.pending = Tail(a.pending)
        /\ z.inflight.cmd = x /\ z.cleanup = a.cleanup /\ z.inCleanup = FALSE
        /\ z.inReset = a.inReset /\ z.std = a.std /\ z.target = a.target
    BY <1>3, <2>2 DEF Dispatch, Fields
  <2>4. ~Idle(z)
    BY <2>1, <2>3, InFlight
  <2>5. Apart(z)
    BY <1>2, <1>3, <2>3, <2>4 DEF Disked, Apart, Paging
  <2>6. CASE a.active # DiskFormat
    BY <1>2, <2>1, <2>3, <2>5, <2>6 DEF Disked, Confirming, Formatting, Ahead, Writes, z
  <2>7. CASE a.active = DiskFormat
    <3>1. /\ a.pending = a.cmds /\ StageBlock(a) /\ a.stage # "restart-list" /\ n < a.disk
          /\ n \in Nat /\ a.disk \in Nat
      BY <1>2, <1>7, <2>7 DEF Disked, Formatting, StageBlock, Ahead, Good, Typing
    <3>2. PICK u : a.cmds = <<u>> /\ (u.op = "yes" => a.stage = "reboot")
      BY <3>1 DEF StageBlock, Cmd, FormatSpec
    <3>3. Tail(a.pending) = <<>> /\ x = a.cmds[1]
      BY <2>1, <3>1, <3>2
    <3>4. Formatting(z)
      BY <1>2, <2>3, <2>7, <3>1, <3>3 DEF Disked, Formatting, StageBlock
    <3>5. Confirming(z)
      BY <1>2, <1>3, <2>3, <2>7, <3>2, <3>3 DEF Disked, Confirming
    <3>6. Ahead(z, n) /\ Writes(z, n)
      BY <1>2, <2>3, <2>7, <3>1 DEF Disked, Ahead, Writes
    <3>. QED
      BY <2>5, <3>4, <3>5, <3>6 DEF Disked, z
  <2>. QED
    BY <2>6, <2>7
<1>. QED
  BY <1>4, <1>5, <1>6, <1>7

LEMMA RecoverDisked ==
    ASSUME NEW k, Good(k), k.out = <<>>, NEW n, Disked(k, n), NEW b
    PROVE  Disked(Recover(k, b), n) /\ Writes(Recover(k, b), n)
<1>. DEFINE d == [k EXCEPT !.inflight = NoAttempt, !.inCleanup = FALSE, !.target = NoContext,
                           !.inReset = FALSE, !.error = FALSE,
                           !.errors = @ \cup {IF k.active = NoFeature THEN "cleanup"
                                              ELSE k.active}]
            s == FinishStandardOutput(d)
            f == [s EXCEPT !.pending = <<>>, !.cmds = <<>>, !.active = NoFeature]
<1>1. \/ Recover(k, b) = k
      \/ k.active = NoFeature /\ Recover(k, b) = DispatchWork(d)
      \/ k.active # NoFeature /\ Recover(k, b) = DispatchWork(f)
  BY DEF Recover
<1>2. /\ DOMAIN d = Fields /\ d.out = k.out /\ d.pending = k.pending /\ d.cmds = k.cmds
      /\ d.queue = k.queue /\ d.active = k.active /\ d.completed = k.completed
      /\ d.blocks = k.blocks /\ d.cleanup = k.cleanup /\ d.retried = k.retried
      /\ d.disk = k.disk /\ d.std = k.std
      /\ d.inflight = NoAttempt /\ d.inCleanup = FALSE /\ d.inReset = FALSE
  BY DEF Good, Fields
<1>. HIDE DEF d
<1>3. Good(d) /\ Idle(d)
  <2>1. Typing(d)
    BY <1>2, InspectNoAttempt DEF Good, Typing, Idle
  <2>2. Queueing(d) /\ Working(d)
    BY <1>2 DEF Good, Queueing, Working, Idle
  <2>. QED
    BY <1>2, <2>1, <2>2 DEF Good, Idle
<1>4. Apart(d)
  BY <1>2, <1>3 DEF Disked, Apart, Paging
<1>5. CASE Recover(k, b) = k
  BY <1>5 DEF Writes
<1>6. CASE k.active = NoFeature /\ Recover(k, b) = DispatchWork(d)
  <2>1. DiskFormat # NoFeature
    BY DEF DiskFormat, NoFeature
  <2>2. Confirming(d) /\ Formatting(d) /\ Ahead(d, n)
    BY <1>2, <1>3, <1>6, <2>1 DEF Disked, Confirming, Formatting, Ahead
  <2>. QED
    BY <1>2, <1>3, <1>4, <1>6, <2>2, DispatchWorkDisked DEF Disked
<1>7. CASE k.active # NoFeature /\ Recover(k, b) = DispatchWork(f)
  <2>1. Good(s) /\ Silent(d, s)
    BY <1>3, FinishStandardOutputGood
  <2>2. s.inCleanup = FALSE
    BY <1>2 DEF FinishStandardOutput, Fields
  <2>. HIDE DEF s
  <2>3. /\ DOMAIN f = Fields /\ Silent(s, f)
        /\ f.queue = s.queue /\ f.active = NoFeature /\ f.completed = s.completed
        /\ f.blocks = s.blocks /\ f.cmds = <<>> /\ f.pending = <<>>
        /\ f.cleanup = s.cleanup /\ f.retried = s.retried /\ f.disk = s.disk
        /\ f.inCleanup = s.inCleanup /\ f.inReset = s.inReset
    BY <2>1 DEF Good, Fields, Silent
  <2>4. f = [s EXCEPT !.completed = s.completed, !.pending = <<>>, !.cmds = <<>>,
                      !.active = NoFeature]
    BY <2>1 DEF Good, Fields
  <2>. HIDE DEF f
  <2>5. Good(f) /\ Idle(f)
    <3>1. IsBlock(<<>>) /\ Len(<<>>) = 0
      BY BlocksOfCommands
    <3>2. Idle(f) /\ f.inflight.cmd # Inspect /\ f.inflight.index = 0
      BY <1>3, <2>1, <2>3, InspectNoAttempt DEF Idle, Silent
    <3>3. Typing(f)
      BY <2>1, <2>3, <3>1, <3>2 DEF Good, Typing
    <3>4. \A i \in 1..Len(s.queue) : s.queue[i] \in ToSet(Queue)
      BY <2>1, ElementOfSeq DEF Good, Queueing
    <3>5. Queueing(f)
      BY <2>1, <2>3, <3>4, FosAssumption DEF Good, Queueing
    <3>. QED
      BY <2>3, <3>2, <3>3, <3>5 DEF Good, Working
  <2>. DEFINE e == [d EXCEPT !.pending = <<>>]
              se == FinishStandardOutput(e)
  <2>6. /\ Good(e) /\ Idle(e) /\ Apart(e) /\ e.pending = <<>> /\ e.active = k.active
        /\ e.queue = k.queue
    <3>1. /\ DOMAIN e = Fields /\ e.pending = <<>> /\ e.cmds = d.cmds
          /\ e.queue = d.queue /\ e.active = d.active /\ e.completed = d.completed
          /\ e.blocks = d.blocks /\ e.cleanup = d.cleanup /\ e.retried = d.retried
          /\ e.disk = d.disk /\ e.std = d.std /\ e.inReset = d.inReset
          /\ e.inflight = d.inflight /\ e.inCleanup = d.inCleanup
      BY <1>2 DEF Fields
    <3>. HIDE DEF e
    <3>2. IsBlock(<<>>) /\ Len(<<>>) = 0 /\ Len(d.cmds) \in Nat
      BY <1>3, BlocksOfCommands, LenProperties DEF Good, Typing, IsBlock
    <3>3. Typing(e)
      BY <1>3, <3>1, <3>2 DEF Good, Typing, Idle
    <3>4. Queueing(e) /\ Working(e) /\ Idle(e)
      BY <1>3, <3>1 DEF Good, Queueing, Working, Idle
    <3>5. Apart(e)
      BY <1>2, <1>4, <3>1, <3>4 DEF Apart, Paging
    <3>. QED
      BY <1>2, <3>1, <3>3, <3>4, <3>5 DEF Good
  <2>7. f = [se EXCEPT !.completed = s.completed, !.pending = <<>>, !.cmds = <<>>,
                       !.active = NoFeature]
    <3>1. s = [d EXCEPT !.std = "none", !.restore = FALSE, !.cleanup = s.cleanup]
      BY <1>2 DEF s, FinishStandardOutput, Fields
    <3>2. s.cleanup = IF d.restore
                      THEN d.cleanup \o [i \in 1..3 |-> [cmd |-> SetMore[i], again |-> FALSE]]
                      ELSE d.cleanup
      BY <1>2 DEF s, FinishStandardOutput, Fields
    <3>3. e.restore = d.restore /\ e.cleanup = d.cleanup /\ DOMAIN e = Fields
      BY <1>2 DEF Fields
    <3>. DEFINE w == s.cleanup
    <3>4. se = [e EXCEPT !.std = "none", !.restore = FALSE, !.cleanup = w]
      BY <3>2, <3>3 DEF FinishStandardOutput
    <3>. HIDE DEF w, se
    <3>5. se = [s EXCEPT !.pending = <<>>]
      BY <1>2, <3>1, <3>4 DEF Fields, w
    <3>. QED
      BY <2>1, <2>4, <3>5 DEF Good, Fields
  <2>. HIDE DEF e
  <2>8. Disked(f, n)
    <3>1. n \in Nat /\ (DiskFormat \in ToSet(e.queue) => n <= 1) /\ e.active # NoFeature
      BY <1>7, <2>6 DEF Disked, Ahead
    <3>. QED
      BY <2>6, <2>7, <3>1, CompletedDisked DEF se
  <2>. QED
    BY <1>2, <1>7, <2>1, <2>2, <2>3, <2>5, <2>8, DispatchWorkDisked DEF Silent
<1>. QED
  BY <1>1, <1>5, <1>6, <1>7

LEMMA DispatchNextDisked ==
    ASSUME NEW k, Good(k), k.out = <<>>, NEW n, Disked(k, n)
    PROVE  Disked(DispatchNext(k), n) /\ Writes(DispatchNext(k), n)
<1>. DEFINE w == [k EXCEPT !.target = NoContext]
            r == [k EXCEPT !.resetTried = TRUE, !.inReset = TRUE]
            z == DispatchNext(k)
<1>1. \/ z = k
      \/ /\ Idle(k) /\ ~k.error /\ ~k.raised
         /\ \/ z = DispatchWork(w)
            \/ z = Recover(WorkError(k), FALSE)
            \/ k.target # NoContext /\ z = Dispatch(r, Cmd("abort", ""), 0, FALSE)
  BY DEF DispatchNext
<1>2. CASE z = k
  BY <1>2 DEF Writes
<1>3. CASE Idle(k) /\ ~k.error /\ ~k.raised /\ z = DispatchWork(w)
  <2>1. /\ DOMAIN w = Fields /\ Parts(w) = Parts(k) /\ Silent(k, w)
        /\ w.stage = k.stage /\ w.left = k.left /\ w.std = k.std
        /\ w.error = k.error /\ w.raised = k.raised /\ w.target = NoContext
    BY DEF Good, Fields, Parts, Silent
  <2>. HIDE DEF w, z
  <2>2. Good(w) /\ Idle(w) /\ w.out = <<>> /\ ~w.inCleanup
    <3>1. Good(w) /\ Idle(w) /\ w.out = <<>>
      BY <1>3, <2>1, GoodByParts DEF Silent, Idle
    <3>. QED
      BY <1>3, <2>1, <3>1 DEF Parts, Disked, Apart
  <2>3. Disked(w, n)
    <3>1. /\ w.queue = k.queue /\ w.active = k.active /\ w.disk = k.disk /\ w.cmds = k.cmds
          /\ w.pending = k.pending /\ w.inflight = k.inflight /\ w.cleanup = k.cleanup
          /\ w.inCleanup = k.inCleanup /\ w.inReset = k.inReset
      BY <2>1 DEF Parts
    <3>2. Apart(w) /\ Confirming(w) /\ Ahead(w, n)
      BY <2>1, <3>1 DEF Disked, Apart, Paging, Confirming, Ahead, Idle
    <3>3. Formatting(w)
      BY <2>1, <3>1 DEF Disked, Formatting, StageBlock, Idle
    <3>. QED
      BY <3>2, <3>3 DEF Disked
  <2>. QED
    BY <1>3, <2>2, <2>3, DispatchWorkDisked DEF z
<1>4. CASE z = Recover(WorkError(k), FALSE)
  <2>. DEFINE m == WorkError(k)
  <2>1. Good(m) /\ m.out = <<>> /\ Disked(m, n)
    BY WorkErrorGood, WorkErrorDisked DEF Silent
  <2>. HIDE DEF m
  <2>2. Disked(Recover(m, FALSE), n) /\ Writes(Recover(m, FALSE), n)
    BY <2>1, RecoverDisked
  <2>. QED
    BY <1>4, <2>2 DEF m
<1>5. CASE Idle(k) /\ ~k.error /\ ~k.raised /\ k.target # NoContext
           /\ z = Dispatch(r, Cmd("abort", ""), 0, FALSE)
  <2>1. /\ z.queue = k.queue /\ z.active = k.active /\ z.stage = k.stage /\ z.left = k.left
        /\ z.disk = k.disk /\ z.cmds = k.cmds /\ z.pending = k.pending
        /\ z.inflight.cmd = Cmd("abort", "") /\ z.cleanup = k.cleanup
        /\ z.inCleanup = k.inCleanup /\ z.inReset = TRUE /\ z.std = k.std
        /\ z.target = k.target
    <3>1. /\ DOMAIN r = Fields /\ r.queue = k.queue /\ r.active = k.active
          /\ r.stage = k.stage /\ r.left = k.left
          /\ r.disk = k.disk /\ r.cmds = k.cmds /\ r.pending = k.pending
          /\ r.cleanup = k.cleanup /\ r.inCleanup = k.inCleanup /\ r.inReset = TRUE
          /\ r.std = k.std /\ r.target = k.target
      BY DEF Good, Fields
    <3>. HIDE DEF r, z
    <3>2. z = [r EXCEPT !.inflight = [cmd |-> Cmd("abort", ""), index |-> 0, before |-> r.ctx,
                                      again |-> FALSE],
                        !.out = Append(@, Cmd("abort", ""))]
      BY <1>5 DEF Dispatch
    <3>. QED
      BY <3>1, <3>2 DEF Fields
  <2>. HIDE DEF z
  <2>2. Cmd("abort", "").op = "abort" /\ ~Idle(z)
    <3>1. Cmd("abort", "") \in Cmds
      BY CommandsKinds
    <3>. QED
      BY <2>1, <3>1, InFlight DEF Cmd
  <2>3. Apart(z)
    BY <1>5, <2>1, <2>2 DEF Disked, Apart, Paging
  <2>4. Confirming(z) /\ Ahead(z, n) /\ Writes(z, n)
    BY <2>1, <2>2 DEF Disked, Confirming, Ahead, Writes
  <2>5. Formatting(z)
    BY <1>5, <2>1 DEF Disked, Formatting, StageBlock
  <2>. QED
    BY <2>3, <2>4, <2>5 DEF Disked, z
<1>. HIDE DEF z
<1>. QED
  BY <1>1, <1>2, <1>3, <1>4, <1>5 DEF z

\* The command in flight is over.
LEMMA EndedDisked ==
    ASSUME NEW k, NEW n, Disked(k, n), NEW d, d.inflight = NoAttempt,
           /\ d.queue = k.queue /\ d.active = k.active /\ d.stage = k.stage /\ d.left = k.left
           /\ d.disk = k.disk /\ d.cmds = k.cmds /\ d.pending = k.pending
           /\ d.cleanup = k.cleanup /\ d.target = k.target /\ d.std = k.std,
           ~d.inReset, d.inCleanup => k.inCleanup /\ (d.error \/ d.raised)
    PROVE  Disked(d, n)
<1>1. Idle(d)
  BY DEF Idle
<1>2. Apart(d)
  BY <1>1 DEF Disked, Apart, Paging
<1>3. Formatting(d)
  BY <1>1 DEF Disked, Formatting, StageBlock
<1>4. Confirming(d) /\ Ahead(d, n)
  BY <1>1 DEF Disked, Confirming, Ahead
<1>. QED
  BY <1>2, <1>3, <1>4 DEF Disked

\* What is typed for disks and replayed does not confirm a format.
LEMMA ReplayedStages ==
    ASSUME NEW k, NEW n, Disked(k, n), ~Idle(k), ~k.inReset, k.active = DiskFormat
    PROVE  /\ k.pending = <<>> /\ k.stage \in {"list", "format", "reboot"}
           /\ k.stage = "reboot" <=> k.inflight.cmd.op = "yes"
           /\ k.inflight.cmd.loss = "restart" => k.stage \in {"list", "format"}
<1>1. /\ k.pending = <<>> /\ k.inflight.cmd = k.cmds[1] /\ k.stage # "restart-list"
      /\ StageBlock(k)
  BY DEF Disked, Formatting
<1>2. \A c : <<c>>[1] = c
  OBVIOUS
<1>3. CASE k.stage = "list" /\ k.cmds = <<Cmd("query", "disks")>>
  BY <1>1, <1>2, <1>3 DEF Cmd
<1>4. CASE k.stage = "format" /\ k.cmds = <<FormatSpec(k.disk)>>
  BY <1>1, <1>2, <1>4 DEF Cmd, FormatSpec
<1>5. CASE k.stage = "reboot" /\ k.cmds = <<YesSpec(k.disk)>>
  <2>1. \A i : YesSpec(i).op = "yes" /\ YesSpec(i).loss = "continue"
    BY DEF Cmd, YesSpec
  <2>. QED
    BY <1>1, <1>2, <1>5, <2>1
<1>. QED
  BY <1>1, <1>3, <1>4, <1>5 DEF StageBlock

LEMMA CompleteInflightDisked ==
    ASSUME NEW k, Good(k), ~Idle(k), k.out = <<>>, NEW n, Disked(k, n), NEW e
    PROVE  Disked(CompleteInflight(k, e), n) /\ Writes(CompleteInflight(k, e), n)
<1>. DEFINE attempt == k.inflight
            d == [k EXCEPT !.inflight = NoAttempt]
            r == [d EXCEPT !.inReset = FALSE]
            c == [d EXCEPT !.inCleanup = FALSE]
            l == ContextLoss(d, attempt)
            s == CompleteStandardOutput(d, attempt, e)
            x == OnCommandExecuted(d, e)
            y == IF x.error \/ x.raised \/ Busy(x) THEN x ELSE OnBlockComplete(x)
            z == CompleteInflight(k, e)
<1>1. \/ k.inReset /\ z = DispatchNext(r)
      \/ ~k.inReset /\ z \in {Recover(l, FALSE), DispatchNext(l)}
      \/ ~k.inReset /\ z = Recover(WorkError(d), FALSE)
      \/ ~k.inReset /\ k.inCleanup /\ z = DispatchNext(c)
      \/ ~k.inReset /\ ~k.inCleanup /\ IsStandardOutputCommand(d, attempt)
         /\ z = DispatchNext(s)
      \/ ~k.inReset /\ ~k.inCleanup /\ z \in {DispatchNext(y), y}
  BY DEF CompleteInflight
<1>2. /\ DOMAIN d = Fields /\ d.inflight = NoAttempt /\ d.out = <<>>
      /\ d.queue = k.queue /\ d.active = k.active /\ d.completed = k.completed
      /\ d.blocks = k.blocks /\ d.cmds = k.cmds /\ d.pending = k.pending
      /\ d.cleanup = k.cleanup /\ d.retried = k.retried /\ d.disk = k.disk
      /\ d.stage = k.stage /\ d.left = k.left /\ d.target = k.target /\ d.std = k.std
      /\ d.inReset = k.inReset /\ d.inCleanup = k.inCleanup
  BY DEF Good, Fields
<1>. HIDE DEF d
<1>3. Good(d) /\ Idle(d)
  BY <1>2, EndOfCommand
<1>4. attempt.index \in Nat /\ (attempt.cmd = Inspect => d.pending = <<>>)
  BY <1>2 DEF Good, Typing
<1>5. ASSUME NEW m, Good(m), m.out = <<>>, Disked(m, n)
      PROVE  /\ Disked(DispatchNext(m), n) /\ Writes(DispatchNext(m), n)
             /\ Disked(Recover(m, FALSE), n) /\ Writes(Recover(m, FALSE), n)
  BY <1>5, DispatchNextDisked, RecoverDisked
<1>6. CASE k.inReset /\ z = DispatchNext(r)
  <2>1. /\ DOMAIN r = Fields /\ r.inflight = NoAttempt /\ r.out = <<>>
        /\ r.queue = k.queue /\ r.active = k.active /\ r.completed = k.completed
        /\ r.blocks = k.blocks /\ r.cmds = k.cmds /\ r.pending = k.pending
        /\ r.cleanup = k.cleanup /\ r.retried = k.retried /\ r.disk = k.disk
        /\ r.stage = k.stage /\ r.left = k.left /\ r.target = k.target /\ r.std = k.std
        /\ r.inReset = FALSE /\ r.inCleanup = k.inCleanup
    BY <1>2 DEF Fields
  <2>. HIDE DEF r, z
  <2>2. Good(r)
    BY <2>1, EndOfCommand
  <2>3. ~k.inCleanup
    BY <1>6 DEF Disked, Apart
  <2>4. Disked(r, n)
    BY <2>1, <2>3, EndedDisked
  <2>. QED
    BY <1>5, <1>6, <2>1, <2>2, <2>4 DEF z
<1>7. ASSUME ~k.inReset
      PROVE  Disked(WorkError(d), n) /\ Good(WorkError(d)) /\ WorkError(d).out = <<>>
  <2>. DEFINE m == WorkError(d)
  <2>1. /\ m.inflight = NoAttempt /\ m.queue = k.queue /\ m.active = k.active
        /\ m.cmds = k.cmds /\ m.pending = k.pending
        /\ m.cleanup = k.cleanup /\ m.disk = k.disk
        /\ m.stage = k.stage /\ m.left = k.left /\ m.target = k.target /\ m.std = k.std
        /\ m.inReset = k.inReset /\ m.inCleanup = k.inCleanup /\ (m.error \/ m.raised)
    BY <1>2 DEF WorkError, Raise, Fields
  <2>2. Good(m) /\ m.out = <<>>
    BY <1>2, <1>3, WorkErrorGood DEF Silent
  <2>. HIDE DEF m
  <2>3. Disked(m, n)
    BY <1>7, <2>1, EndedDisked
  <2>. QED
    BY <2>2, <2>3 DEF m
<1>8. ASSUME ~k.inReset, ~k.inCleanup
      PROVE  Disked(d, n) /\ d.active # NoFeature
  <2>1. Disked(d, n)
    BY <1>2, <1>8, EndedDisked
  <2>2. d.active # NoFeature
    BY <1>2, <1>8 DEF Good, Working
  <2>. QED
    BY <2>1, <2>2
<1>9. CASE ~k.inReset /\ z \in {Recover(l, FALSE), DispatchNext(l)}
  <2>1. Good(l) /\ l.out = <<>>
    BY <1>2, <1>3, <1>4, ContextLossGood DEF Silent
  <2>2. CASE k.inCleanup
    <3>1. l = WorkError(d)
      BY <1>2, <2>2 DEF ContextLoss
    <3>. HIDE DEF l, z
    <3>. QED
      BY <1>5, <1>7, <1>9, <2>1, <3>1 DEF z
  <2>3. CASE ~k.inCleanup
    <3>1. d.active = DiskFormat /\ attempt.cmd.loss = "restart" =>
              d.stage \in {"list", "format"}
      BY <1>2, <1>9, ReplayedStages
    <3>. HIDE DEF attempt
    <3>2. Disked(l, n)
      BY <1>3, <1>8, <1>9, <2>3, <3>1, ContextLossDisked
    <3>. HIDE DEF l, z
    <3>. QED
      BY <1>5, <1>9, <2>1, <3>2 DEF z
  <2>. QED
    BY <2>2, <2>3
<1>10. CASE ~k.inReset /\ z = Recover(WorkError(d), FALSE)
  <2>. HIDE DEF z
  <2>. QED
    BY <1>5, <1>7, <1>10 DEF z
<1>11. CASE ~k.inReset /\ k.inCleanup /\ z = DispatchNext(c)
  <2>1. /\ DOMAIN c = Fields /\ c.inflight = NoAttempt /\ c.out = <<>>
        /\ c.queue = k.queue /\ c.active = k.active /\ c.completed = k.completed
        /\ c.blocks = k.blocks /\ c.cmds = k.cmds /\ c.pending = k.pending
        /\ c.cleanup = k.cleanup /\ c.retried = k.retried /\ c.disk = k.disk
        /\ c.stage = k.stage /\ c.left = k.left /\ c.target = k.target /\ c.std = k.std
        /\ c.inReset = k.inReset /\ c.inCleanup = FALSE
    BY <1>2 DEF Fields
  <2>. HIDE DEF c, z
  <2>2. Good(c)
    BY <2>1, EndOfCommand
  <2>3. Disked(c, n)
    BY <1>11, <2>1, EndedDisked
  <2>. QED
    BY <1>5, <1>11, <2>1, <2>2, <2>3 DEF z
<1>12. CASE ~k.inReset /\ ~k.inCleanup /\ IsStandardOutputCommand(d, attempt)
            /\ z = DispatchNext(s)
  <2>1. d.pending = <<>> /\ d.std # "none"
    BY <1>4, <1>12 DEF IsStandardOutputCommand
  <2>. HIDE DEF attempt
  <2>2. Good(s) /\ s.out = <<>>
    BY <1>2, <1>3, <1>8, <1>12, <2>1, CompleteStandardOutputGood DEF Silent
  <2>3. Disked(s, n)
    BY <1>3, <1>8, <1>12, <2>1, CompleteStandardOutputDisked
  <2>. HIDE DEF s, z
  <2>. QED
    BY <1>5, <1>12, <2>2, <2>3 DEF z
<1>13. CASE ~k.inReset /\ ~k.inCleanup /\ z \in {DispatchNext(y), y}
  <2>1. Good(x) /\ Idle(x) /\ x.out = <<>> /\ x.active # NoFeature
    BY <1>2, <1>3, <1>8, <1>13, OnCommandExecutedGood DEF Silent, Idle
  <2>2. Disked(x, n)
    BY <1>3, <1>8, <1>13, OnCommandExecutedDisked
  <2>. HIDE DEF x
  <2>3. ~Busy(x) => x.pending = <<>>
    BY DEF Busy
  <2>4. ~Busy(x) => /\ Good(OnBlockComplete(x)) /\ OnBlockComplete(x).out = <<>>
                    /\ Disked(OnBlockComplete(x), n)
    BY <2>1, <2>2, <2>3, OnBlockCompleteGood, OnBlockCompleteDisked DEF Silent
  <2>5. Good(y) /\ y.out = <<>> /\ Disked(y, n)
    BY <2>1, <2>2, <2>4
  <2>. HIDE DEF y, z
  <2>6. Writes(y, n)
    BY <2>5 DEF Writes
  <2>. QED
    BY <1>5, <1>13, <2>5, <2>6 DEF z
<1>. HIDE DEF z
<1>. QED
  BY <1>1, <1>6, <1>9, <1>10, <1>11, <1>12, <1>13 DEF z

LEMMA SessionLossDisked ==
    ASSUME NEW k, Good(k), k.out = <<>>, NEW n, Disked(k, n)
    PROVE  Disked(SessionLoss(k), n)
<1>. DEFINE attempt == k.inflight
            d == [k EXCEPT !.recovering = TRUE, !.inflight = NoAttempt]
            r == [d EXCEPT !.inReset = FALSE]
            c == [d EXCEPT !.cleanup = <<[cmd |-> attempt.cmd, again |-> TRUE]>> \o @,
                           !.inCleanup = FALSE]
            l == OnSessionLoss(d)
            p == [l EXCEPT !.pending = <<>>]
            z == SessionLoss(k)
<1>1. \/ Idle(k) /\ z = d
      \/ ~Idle(k) /\ k.inReset /\ z = r
      \/ ~Idle(k) /\ ~k.inReset /\ k.inCleanup /\ z = WorkError(d)
      \/ ~Idle(k) /\ ~k.inReset /\ k.inCleanup /\ z = c
      \/ ~Idle(k) /\ ~k.inReset /\ ~k.inCleanup /\ attempt.cmd.loss = "restart"
         /\ z = RestartBlock(l, attempt)
      \/ ~Idle(k) /\ ~k.inReset /\ ~k.inCleanup /\ attempt.cmd.loss # "restart" /\ z = p
  BY DEF SessionLoss
<1>2. /\ DOMAIN d = Fields /\ d.inflight = NoAttempt /\ d.out = <<>>
      /\ d.queue = k.queue /\ d.active = k.active /\ d.completed = k.completed
      /\ d.blocks = k.blocks /\ d.cmds = k.cmds /\ d.pending = k.pending
      /\ d.cleanup = k.cleanup /\ d.retried = k.retried /\ d.disk = k.disk
      /\ d.stage = k.stage /\ d.left = k.left /\ d.target = k.target /\ d.std = k.std
      /\ d.inReset = k.inReset /\ d.inCleanup = k.inCleanup
      /\ d.error = k.error /\ d.raised = k.raised
  BY DEF Good, Fields
<1>. HIDE DEF d
<1>3. Good(d) /\ Idle(d)
  BY <1>2, EndOfCommand
<1>4. CASE Idle(k) /\ z = d
  <2>. HIDE DEF z
  <2>1. ~d.inReset /\ (d.inCleanup => k.inCleanup /\ (d.error \/ d.raised))
    BY <1>2, <1>4 DEF Disked, Apart
  <2>. QED
    BY <1>2, <1>4, <2>1, EndedDisked DEF z
<1>5. CASE ~Idle(k) /\ k.inReset /\ z = r
  <2>1. /\ r.inflight = NoAttempt /\ r.queue = k.queue /\ r.active = k.active
        /\ r.cmds = k.cmds /\ r.pending = k.pending
        /\ r.cleanup = k.cleanup /\ r.disk = k.disk
        /\ r.stage = k.stage /\ r.left = k.left /\ r.target = k.target /\ r.std = k.std
        /\ r.inReset = FALSE /\ r.inCleanup = k.inCleanup
    BY <1>2 DEF Fields
  <2>2. ~k.inCleanup
    BY <1>5 DEF Disked, Apart
  <2>. HIDE DEF r, z
  <2>. QED
    BY <1>5, <2>1, <2>2, EndedDisked DEF z
<1>6. CASE ~Idle(k) /\ ~k.inReset /\ k.inCleanup /\ z = WorkError(d)
  <2>. DEFINE m == WorkError(d)
  <2>1. /\ m.inflight = NoAttempt /\ m.queue = k.queue /\ m.active = k.active
        /\ m.cmds = k.cmds /\ m.pending = k.pending
        /\ m.cleanup = k.cleanup /\ m.disk = k.disk
        /\ m.stage = k.stage /\ m.left = k.left /\ m.target = k.target /\ m.std = k.std
        /\ m.inReset = k.inReset /\ m.inCleanup = k.inCleanup /\ (m.error \/ m.raised)
    BY <1>2 DEF WorkError, Raise, Fields
  <2>. HIDE DEF m
  <2>2. Disked(m, n)
    BY <1>6, <2>1, EndedDisked
  <2>. HIDE DEF z
  <2>. QED
    BY <1>6, <2>2 DEF m, z
<1>7. CASE ~Idle(k) /\ ~k.inReset /\ k.inCleanup /\ z = c
  <2>. DEFINE w == <<[cmd |-> attempt.cmd, again |-> TRUE]>>
              b == [d EXCEPT !.inCleanup = FALSE]
  <2>1. /\ c.queue = k.queue /\ c.active = k.active /\ c.stage = k.stage /\ c.left = k.left
        /\ c.disk = k.disk /\ c.cmds = k.cmds /\ c.pending = k.pending
        /\ c.inflight = NoAttempt /\ c.cleanup = w \o k.cleanup /\ c.inCleanup = FALSE
        /\ c.target = k.target /\ c.inReset = k.inReset /\ c.std = k.std
    BY <1>2 DEF Fields
  <2>2. attempt.cmd.op # "yes" /\ k.active = NoFeature
    BY <1>7 DEF Disked, Apart, Confirming, DiskFormat, NoFeature
  <2>3. YesFreeWork(w \o k.cleanup)
    <3>. HIDE DEF attempt
    <3>. DEFINE S == {w[1]} \cup CleanupWork
                v == k.cleanup
                u == w \o v
                m == Len(v)
    <3>1. Len(w) = 1 /\ w[1].cmd = attempt.cmd /\ w \in Seq(S) /\ v \in Seq(S)
      <4>1. v \in Seq(CleanupWork) /\ CleanupWork \subseteq S
        BY DEF Good, Typing
      <4>2. v \in Seq(S)
        BY <4>1, SeqMonotonic
      <4>. QED
        BY <4>2
    <3>2. m \in Nat /\ \A i \in 1..m : v[i].cmd.op # "yes"
      BY <3>1, LenProperties DEF Disked, Confirming, YesFreeWork
    <3>. HIDE DEF S, v, w
    <3>3. /\ Len(u) = Len(w) + Len(v)
          /\ \A i \in 1..(Len(w) + Len(v)) : u[i] = IF i <= Len(w) THEN w[i] ELSE v[i - Len(w)]
      BY <3>1, ConcatProperties
    <3>. HIDE DEF u, m
    <3>4. Len(u) = 1 + m /\ u[1].cmd = attempt.cmd
          /\ \A i \in 2..(1 + m) : u[i] = v[i - 1] /\ i - 1 \in 1..m
      BY <3>1, <3>2, <3>3 DEF m
    <3>5. \A i \in 1..Len(u) : i = 1 \/ i \in 2..(1 + m)
      BY <3>2, <3>4
    <3>. QED
      BY <2>2, <3>2, <3>4, <3>5 DEF YesFreeWork, u, v
  <2>. HIDE DEF w, c, z
  <2>4. Apart(c) /\ Confirming(c) /\ Formatting(c) /\ Ahead(c, n)
    <3>1. Idle(c) /\ DiskFormat # NoFeature
      BY <2>1 DEF Idle, DiskFormat, NoFeature
    <3>2. Apart(c) /\ Formatting(c)
      BY <1>7, <2>1, <2>2, <3>1 DEF Disked, Apart, Paging, Formatting
    <3>3. Confirming(c) /\ Ahead(c, n)
      BY <2>1, <2>2, <2>3, <3>1 DEF Disked, Confirming, Ahead
    <3>. QED
      BY <3>2, <3>3
  <2>. QED
    BY <1>7, <2>4 DEF Disked, z
<1>8. CASE ~Idle(k) /\ ~k.inReset /\ ~k.inCleanup
           /\ \/ attempt.cmd.loss = "restart" /\ z = RestartBlock(l, attempt)
              \/ attempt.cmd.loss # "restart" /\ z = p
  <2>1. Disked(d, n)
    BY <1>2, <1>8, EndedDisked
  <2>2. k.active = DiskFormat =>
            /\ k.pending = <<>> /\ k.stage \in {"list", "format", "reboot"}
            /\ attempt.cmd.loss = "restart" => k.stage \in {"list", "format"}
    BY <1>8, ReplayedStages
  <2>. HIDE DEF attempt
  <2>3. Good(l) /\ Idle(l) /\ DOMAIN l = Fields
    BY <1>3, OnSessionLossGood DEF Silent, Idle, Good
  <2>4. /\ Disked(l, n) /\ (l.active = DiskFormat => l.pending = <<>>)
        /\ attempt.cmd.loss = "restart" /\ l.active = DiskFormat =>
               l.stage \in {"list", "format"}
    <3>1. CASE k.active = DiskFormat /\ k.stage = "reboot"
      <4>1. l = [d EXCEPT !.left = @ - 1, !.disk = @ + 1, !.stage = "restart-list"]
        BY <1>2, <3>1 DEF OnSessionLoss
      <4>2. /\ l.disk = d.disk + 1 /\ l.left = d.left - 1
            /\ l.queue = d.queue /\ l.active = d.active
            /\ l.inflight = d.inflight /\ l.cleanup = d.cleanup /\ l.inCleanup = d.inCleanup
            /\ l.inReset = d.inReset /\ l.std = d.std /\ l.error = d.error
            /\ l.raised = d.raised /\ l.target = d.target /\ l.pending = d.pending
            /\ l.cmds = d.cmds
            /\ Listing(l, n)
        <5>1. NextDiskOf(d, l)
          BY <1>2, <4>1 DEF Fields, NextDiskOf
        <5>. HIDE DEF l
        <5>2. d.active = DiskFormat
          BY <1>2, <3>1
        <5>. QED
          BY <1>3, <2>1, <5>1, <5>2, NextDisk DEF NextDiskOf
      <4>3. l.stage = "restart-list"
        BY <1>2, <4>1 DEF Fields
      <4>. HIDE DEF l
      <4>4. l.pending = <<>> /\ l.target = NoContext
        BY <1>2, <2>1, <2>2, <3>1, <4>2 DEF Disked, Formatting
      <4>5. Formatting(l)
        BY <1>3, <4>2, <4>3, <4>4 DEF Listing, Formatting, StageBlock, Idle
      <4>6. DiskFormat \notin ToSet(l.queue)
        BY <2>3, <4>2, ActiveNotQueued DEF Listing
      <4>7. Confirming(l) /\ Ahead(l, n)
        BY <2>3, <4>2, <4>6 DEF Listing, Confirming, Ahead
      <4>. QED
        BY <2>2, <3>1, <4>2, <4>4, <4>5, <4>7 DEF Disked, Listing
    <3>2. CASE ~(k.active = DiskFormat /\ k.stage = "reboot")
      <4>1. l = d
        BY <1>2, <3>2 DEF OnSessionLoss
      <4>. QED
        BY <1>2, <2>1, <2>2, <4>1
    <3>. QED
      BY <3>1, <3>2
  <2>. HIDE DEF l
  <2>5. CASE attempt.cmd.loss = "restart" /\ z = RestartBlock(l, attempt)
    <3>. HIDE DEF z
    <3>. QED
      BY <2>3, <2>4, <2>5, RestartBlockDisked DEF z
  <2>6. CASE z = p
    <3>1. /\ p.queue = l.queue /\ p.active = l.active /\ p.stage = l.stage /\ p.left = l.left
          /\ p.disk = l.disk /\ p.cmds = l.cmds /\ p.pending = <<>>
          /\ p.inflight = l.inflight /\ p.cleanup = l.cleanup /\ p.inCleanup = l.inCleanup
          /\ p.target = l.target /\ p.inReset = l.inReset /\ p.std = l.std
          /\ p.error = l.error /\ p.raised = l.raised
      BY <2>3 DEF Fields
    <3>. HIDE DEF p, z
    <3>2. Apart(p) /\ Formatting(p)
      BY <2>3, <2>4, <3>1 DEF Disked, Apart, Paging, Formatting, StageBlock, Idle
    <3>3. Confirming(p)
      BY <2>3, <2>4, <3>1, YesFreeBlocks DEF Disked, Confirming, Idle
    <3>4. Ahead(p, n)
      BY <2>4, <3>1 DEF Disked, Ahead
    <3>. QED
      BY <2>6, <3>2, <3>3, <3>4 DEF Disked, z
  <2>. QED
    BY <1>8, <2>5, <2>6
<1>. HIDE DEF z
<1>. QED
  BY <1>1, <1>4, <1>5, <1>6, <1>7, <1>8 DEF z

LEMMA OnStateDisked ==
    ASSUME NEW k0, Good(k0), k0.out = <<>>, NEW n, Disked(k0, n), NEW e
    PROVE  LET d == OnState(k0, e)
           IN  /\ Disked(d, n) /\ Writes(d, n)
               /\ e.st \notin Prompts \cup {"lost", "username"} =>
                      d.inflight = k0.inflight /\ d.disk = k0.disk
<1>. DEFINE k == [k0 EXCEPT
                !.state = e.st,
                !.known = e.st,
                !.ctx = IF e.st = "prompt" THEN e.ctx ELSE @,
                !.authenticated = @ \/ e.st \in {"prompt", "accepted"},
                !.recovering = CASE e.st \in {"prompt", "accepted"} -> FALSE
                                 [] e.st = "lost" /\ k0.error -> TRUE
                                 [] OTHER -> @]
            d == OnState(k0, e)
            lost == e.st = "lost" \/ (e.st = "username" /\ k.authenticated)
            done == ~Idle(k) /\ e.st \in k.inflight.cmd.at
            prompt == Idle(k) /\ e.st = "prompt"
<1>1. /\ DOMAIN k = Fields /\ Parts(k) = Parts(k0) /\ DiskParts(k) = DiskParts(k0)
      /\ k.out = <<>> /\ k.state = e.st /\ k.error = k0.error /\ k.raised = k0.raised
      /\ k.inflight = k0.inflight /\ k.disk = k0.disk
  BY DEF Good, Fields, Parts, DiskParts
<1>2. d = CASE k.error -> Recover(k, FALSE)
            [] ~k.error /\ lost -> SessionLoss(k)
            [] ~k.error /\ done -> CompleteInflight(k, e)
            [] ~k.error /\ prompt -> DispatchNext(k)
            [] OTHER -> k
  BY DEF OnState
<1>. HIDE DEF k
<1>3. Good(k) /\ Disked(k, n)
  BY <1>1, GoodByParts, SameDisked
<1>4. ~Idle(k) => k.inflight.cmd.at \subseteq {"prompt", "confirm", "rebooting"}
  BY <1>3, CommandsKinds DEF Good, Typing
<1>5. \/ d = k
      \/ d = Recover(k, FALSE)
      \/ lost /\ d = SessionLoss(k)
      \/ done /\ d = CompleteInflight(k, e)
      \/ prompt /\ d = DispatchNext(k)
  <2>1. k.error => d = Recover(k, FALSE)
    BY <1>2
  <2>2. ~k.error /\ lost /\ ~done => d = SessionLoss(k)
    BY <1>2
  <2>3. ~k.error /\ ~lost /\ done => d = CompleteInflight(k, e)
    BY <1>2
  <2>4. ~k.error /\ ~lost /\ ~done /\ prompt => d = DispatchNext(k)
    BY <1>2
  <2>5. ~k.error /\ ~lost /\ ~done /\ ~prompt => d = k
    BY <1>2
  <2>6. ~(lost /\ done)
    BY <1>4
  <2>. HIDE DEF d, lost, done, prompt
  <2>. QED
    BY <2>1, <2>2, <2>3, <2>4, <2>5, <2>6
<1>6. CASE d = k
  <2>. HIDE DEF d
  <2>. QED
    BY <1>1, <1>3, <1>6 DEF Writes, d
<1>7. CASE d = Recover(k, FALSE)
  <2>1. Disked(Recover(k, FALSE), n) /\ Writes(Recover(k, FALSE), n)
    BY <1>1, <1>3, RecoverDisked
  <2>2. e.st = "prompt" \/ Recover(k, FALSE) = k
    BY <1>1 DEF Recover
  <2>. HIDE DEF d
  <2>. QED
    BY <1>1, <1>7, <2>1, <2>2 DEF Prompts, d
<1>8. CASE lost /\ d = SessionLoss(k)
  <2>1. Disked(SessionLoss(k), n) /\ SessionLoss(k).out = <<>>
    BY <1>1, <1>3, SessionLossGood, SessionLossDisked
  <2>. HIDE DEF d
  <2>. QED
    BY <1>8, <2>1 DEF Writes, d
<1>9. CASE done /\ d = CompleteInflight(k, e)
  <2>1. e.st \in Prompts
    BY <1>4, <1>9 DEF Prompts
  <2>2. Disked(CompleteInflight(k, e), n) /\ Writes(CompleteInflight(k, e), n)
    BY <1>1, <1>3, <1>9, CompleteInflightDisked
  <2>. HIDE DEF d
  <2>. QED
    BY <1>9, <2>1, <2>2 DEF d
<1>10. CASE prompt /\ d = DispatchNext(k)
  <2>1. Disked(DispatchNext(k), n) /\ Writes(DispatchNext(k), n)
    BY <1>1, <1>3, DispatchNextDisked
  <2>. HIDE DEF d
  <2>. QED
    BY <1>10, <2>1 DEF Prompts, d
<1>. HIDE DEF d, lost, done, prompt
<1>. QED
  BY <1>5, <1>6, <1>7, <1>8, <1>9, <1>10 DEF d

LEMMA OnIdleDisked ==
    ASSUME NEW k, Good(k), k.out = <<>>, NEW n, Disked(k, n)
    PROVE  Disked(OnIdle(k), n) /\ Writes(OnIdle(k), n)
<1>1. OnIdle(k) \in {k, Recover(k, TRUE), DispatchNext(k)}
  BY DEF OnIdle
<1>2. Writes(k, n)
  BY DEF Writes
<1>3. /\ Disked(Recover(k, TRUE), n) /\ Writes(Recover(k, TRUE), n)
      /\ Disked(DispatchNext(k), n) /\ Writes(DispatchNext(k), n)
  BY RecoverDisked, DispatchNextDisked
<1>. HIDE DEF Disked, Writes
<1>. QED
  BY <1>1, <1>2, <1>3

\* The disk formatted last; 1 is the system's own.
LastDisk(f) == IF f = <<>> THEN 1 ELSE f[Len(f)]

Rising(f) == \A i, j \in 1..Len(f) : i < j => f[i] < f[j]

\* A confirmation on its way is the command in flight, for a disk not formatted yet.
Confirmed(k, g, t) ==
    g.up /\ t # <<>> /\ Head(t).op = "yes" =>
        /\ ~Idle(k) /\ Head(t) = k.inflight.cmd
        /\ LastDisk(g.formatted) < k.disk

DiskInv ==
    /\ ScopeInv
    /\ guest.formatted \in Seq(2..(Disks + 1)) /\ Rising(guest.formatted)
    /\ Disked(cli, LastDisk(guest.formatted))
    /\ Confirmed(cli, guest, typed)

LEMMA InitDiskInv == Init => DiskInv
<1>. SUFFICES ASSUME Init PROVE DiskInv
  OBVIOUS
<1>1. /\ cli.queue = Queue /\ cli.active = NoFeature /\ cli.cmds = <<>> /\ cli.pending = <<>>
      /\ cli.inflight = NoAttempt /\ cli.cleanup = <<>> /\ cli.inCleanup = FALSE
      /\ cli.inReset = FALSE /\ cli.std = "none"
      /\ guest.formatted = <<>> /\ ~guest.up
  BY DEF Init
<1>2. Len(<<>>) = 0 /\ <<>> \in Seq(2..(Disks + 1)) /\ NoFeature # DiskFormat
  BY EmptySeq DEF NoFeature, DiskFormat
<1>3. Idle(cli) /\ LastDisk(<<>>) = 1
  BY <1>1 DEF Idle, LastDisk
<1>4. Disked(cli, 1)
  BY <1>1, <1>2, <1>3 DEF Disked, Apart, Paging, Formatting, Confirming, Ahead, YesFree,
     YesFreeWork
<1>. QED
  BY <1>1, <1>2, <1>3, <1>4, InitScopeInv DEF DiskInv, Rising, Confirmed

\* The launcher takes over the commander's next state.
LEMMA SpinDisks ==
    ASSUME DiskInv, ScopeInv', NEW d, Good(d), NEW n, n = LastDisk(guest.formatted),
           Disked(d, n), Spin(d),
           \/ d.out \in {<<>>, <<Return>>}
           \/ ~Idle(d) /\ d.out = <<d.inflight.cmd>> /\ Writes(d, n),
           guest.up /\ typed # <<>> =>
               d.out = <<>> /\ d.inflight = cli.inflight /\ d.disk = cli.disk
    PROVE  DiskInv'
<1>. DEFINE s == [d EXCEPT !.out = <<>>]
<1>1. /\ cli' = s /\ guest' = guest /\ typed' = typed \o d.out
      /\ typed \in Seq(Cmds \cup {Return})
  BY DEF Spin, DiskInv, ScopeInv, FosInv, LineSound
<1>2. /\ DiskParts(s) = DiskParts(d) /\ s.error = d.error /\ s.raised = d.raised
      /\ s.inflight = d.inflight /\ s.disk = d.disk
  BY DEF Good, Fields, DiskParts
<1>. HIDE DEF s
<1>3. Disked(s, n)
  BY <1>2, SameDisked
<1>4. Confirmed(cli', guest', typed')
  <2>. SUFFICES ASSUME guest.up, typed' # <<>>, Head(typed').op = "yes"
                PROVE  /\ ~Idle(s) /\ Head(typed') = s.inflight.cmd
                       /\ n < s.disk
    BY <1>1 DEF Confirmed
  <2>1. CASE typed # <<>>
    <3>1. typed' = typed
      BY <1>1, <2>1, ConcatEmptySeq
    <3>2. Confirmed(cli, guest, typed)
      BY DEF DiskInv
    <3>. QED
      BY <1>2, <2>1, <3>1, <3>2 DEF Confirmed, Idle
  <2>2. CASE typed = <<>>
    <3>1. typed' = d.out /\ d.out # <<>>
      <4>1. \A c : <<>> \o <<c>> = <<c>> /\ <<>> \o <<>> = <<>>
        OBVIOUS
      <4>. QED
        BY <1>1, <2>2, <4>1
    <3>2. \A c : Head(<<c>>) = c
      OBVIOUS
    <3>3. Return.op # "yes"
      BY ReturnOpens
    <3>4. ~Idle(d) /\ d.out = <<d.inflight.cmd>> /\ Writes(d, n)
      BY <3>1, <3>2, <3>3
    <3>5. Head(typed') = d.inflight.cmd
      BY <3>1, <3>2, <3>4
    <3>. QED
      BY <1>2, <3>1, <3>4, <3>5 DEF Writes, Idle
  <2>. QED
    BY <2>1, <2>2
<1>. QED
  BY <1>1, <1>3, <1>4 DEF DiskInv

LEMMA DiskRead == DiskInv /\ Read => DiskInv'
<1>. SUFFICES ASSUME DiskInv, Read PROVE DiskInv'
  OBVIOUS
<1>. DEFINE e == Head(rx)
            d == OnState(cli, e)
            n == LastDisk(guest.formatted)
<1>1. /\ FosInv /\ ScopeInv' /\ LineOrdered(guest, rx) /\ Good(cli) /\ cli.out = <<>>
      /\ rx \in Seq(Events) /\ rx # <<>> /\ Spin(d) /\ OneLine(typed, rx)
      /\ Disked(cli, n)
  BY ScopeRead DEF DiskInv, ScopeInv, Read, FosInv, CliSound, LineSound
<1>2. /\ e \in Events /\ e = rx[1] /\ 1 \in 1..Len(rx)
      /\ e.st \in Prompts => typed = <<>>
  BY <1>1, TailOfLine, TailElements
<1>3. guest.up => e.st \notin {"lost", "username"}
  BY <1>1, <1>2 DEF LineOrdered
<1>4. /\ Good(d)
      /\ d.out = <<>> \/ (e.st \in Prompts /\ ~Idle(d) /\ d.out = <<d.inflight.cmd>>)
  BY <1>1, OnStateGood
<1>5. /\ Disked(d, n) /\ Writes(d, n)
      /\ e.st \notin Prompts \cup {"lost", "username"} =>
             d.inflight = cli.inflight /\ d.disk = cli.disk
  <2>. HIDE DEF n
  <2>. QED
    BY <1>1, OnStateDisked
<1>. HIDE DEF d, e, n
<1>6. guest.up /\ typed # <<>> =>
          d.out = <<>> /\ d.inflight = cli.inflight /\ d.disk = cli.disk
  BY <1>2, <1>3, <1>4, <1>5
<1>. QED
  BY <1>1, <1>4, <1>5, <1>6, SpinDisks DEF n

LEMMA DiskReadEcho == DiskInv /\ ReadEcho => DiskInv'
<1>. SUFFICES ASSUME DiskInv, ReadEcho PROVE DiskInv'
  OBVIOUS
<1>. DEFINE k == [cli EXCEPT !.state = "echo", !.known = "echo"]
            a == [k EXCEPT !.out = <<Return>>]
            n == LastDisk(guest.formatted)
<1>1. /\ ScopeInv' /\ Good(cli) /\ cli.out = <<>> /\ Disked(cli, n)
      /\ rx \in Seq(Events) /\ rx # <<>> /\ OneLine(typed, rx) /\ Head(rx).st \in Prompts
  BY ScopeReadEcho DEF DiskInv, ScopeInv, ReadEcho, FosInv, CliSound, LineSound, Prompts
<1>2. Spin(k) \/ Spin(a)
  BY DEF ReadEcho
<1>3. typed = <<>>
  BY <1>1, TailOfLine
<1>4. /\ DOMAIN k = Fields /\ Parts(k) = Parts(cli) /\ k.out = <<>>
      /\ DiskParts(k) = DiskParts(cli) /\ k.error = cli.error /\ k.raised = cli.raised
      /\ DOMAIN a = Fields /\ Parts(a) = Parts(cli) /\ a.out = <<Return>>
      /\ DiskParts(a) = DiskParts(cli) /\ a.error = cli.error /\ a.raised = cli.raised
      /\ a.inflight = cli.inflight /\ a.disk = cli.disk
  BY <1>1 DEF Good, Fields, Parts, DiskParts
<1>. HIDE DEF k, a, n
<1>5. Good(k) /\ Disked(k, n) /\ Good(a) /\ Disked(a, n)
  BY <1>1, <1>4, GoodByParts, SameDisked
<1>6. CASE Spin(k)
  BY <1>1, <1>3, <1>4, <1>5, <1>6, SpinDisks DEF n
<1>7. CASE Spin(a)
  BY <1>1, <1>3, <1>4, <1>5, <1>7, SpinDisks DEF n
<1>. QED
  BY <1>2, <1>6, <1>7

LEMMA DiskReadRejected == DiskInv /\ ReadRejected => DiskInv'
<1>. SUFFICES ASSUME DiskInv, ReadRejected PROVE DiskInv'
  OBVIOUS
<1>. DEFINE k == Raise([cli EXCEPT !.state = "rejected"])
            n == LastDisk(guest.formatted)
<1>1. ScopeInv' /\ Good(cli) /\ cli.out = <<>> /\ Disked(cli, n) /\ Spin(k)
  BY ScopeReadRejected DEF DiskInv, ScopeInv, ReadRejected, FosInv, CliSound
<1>2. /\ DOMAIN k = Fields /\ Parts(k) = Parts(cli) /\ k.out = <<>>
      /\ DiskParts(k) = DiskParts(cli) /\ k.raised
      /\ k.inflight = cli.inflight /\ k.disk = cli.disk
  BY <1>1 DEF Good, Fields, Parts, DiskParts, Raise
<1>. HIDE DEF k, n
<1>3. Good(k) /\ Disked(k, n)
  BY <1>1, <1>2, GoodByParts, SameDisked
<1>. QED
  BY <1>1, <1>2, <1>3, SpinDisks DEF n

LEMMA DiskReadTimeout == DiskInv /\ ReadTimeout => DiskInv'
<1>. SUFFICES ASSUME DiskInv, ReadTimeout PROVE DiskInv'
  OBVIOUS
<1>. DEFINE k == [cli EXCEPT !.state = "timeout"]
            d == OnIdle(k)
            n == LastDisk(guest.formatted)
<1>1. /\ ScopeInv' /\ Good(cli) /\ cli.out = <<>> /\ Disked(cli, n) /\ Spin(d)
      /\ phase = "starting" /\ Waiting
  BY ScopeReadTimeout DEF DiskInv, ScopeInv, ReadTimeout, FosInv, CliSound
<1>2. /\ DOMAIN k = Fields /\ Parts(k) = Parts(cli) /\ k.out = <<>> /\ k.known = cli.known
      /\ DiskParts(k) = DiskParts(cli) /\ k.error = cli.error /\ k.raised = cli.raised
      /\ k.inflight = cli.inflight /\ k.disk = cli.disk
  BY <1>1 DEF Good, Fields, Parts, DiskParts
<1>. HIDE DEF k, n
<1>3. Good(k) /\ Disked(k, n)
  BY <1>1, <1>2, GoodByParts, SameDisked
<1>4. /\ Good(d) /\ AtMostOne(k, d)
      /\ k.known # "prompt" \/ ~Idle(k) => d = k
  BY <1>2, <1>3, OnIdleGood
<1>5. Disked(d, n) /\ Writes(d, n)
  BY <1>2, <1>3, OnIdleDisked
<1>. HIDE DEF d
<1>6. typed # <<>> => d.out = <<>> /\ d.inflight = cli.inflight /\ d.disk = cli.disk
  BY <1>1, <1>2, <1>4 DEF Waiting, Idle
<1>7. d.out = <<>> \/ (~Idle(d) /\ d.out = <<d.inflight.cmd>>)
  BY <1>2, <1>4 DEF AtMostOne
<1>. QED
  BY <1>1, <1>4, <1>5, <1>6, <1>7, SpinDisks DEF n

\* A step of the guest that formats nothing.
LEMMA DiskGuestStep ==
    ASSUME DiskInv, ScopeInv', UNCHANGED cli, guest'.formatted = guest.formatted,
           \/ typed' = <<>> \/ ~guest'.up
           \/ typed' = typed /\ guest.up
    PROVE  DiskInv'
<1>1. cli' = cli /\ Disked(cli, LastDisk(guest.formatted)) /\ Confirmed(cli, guest, typed)
  BY DEF DiskInv
<1>2. Confirmed(cli', guest', typed')
  BY <1>1 DEF Confirmed
<1>. QED
  BY <1>1, <1>2 DEF DiskInv

\* What a line that confirms nothing leaves alone.
LEMMA RanFormatted ==
    ASSUME NEW g, GuestIs(g), NEW c, c.op # "yes"
    PROVE  Ran(g, c).formatted = g.formatted
<1>. DEFINE h == [g EXCEPT !.ctx = Enter(g.ctx, c)]
            r == Ran(g, c)
<1>1. /\ DOMAIN h = {"up", "ctx", "draft", "saved", "mode", "formatted"}
      /\ h.formatted = g.formatted
  BY DEF GuestIs
<1>2. \/ r = [h EXCEPT !.draft = @ \cup {c.arg}]
      \/ r = [h EXCEPT !.saved = @ \cup g.draft, !.draft = {},
                       !.mode = IF "standard" \in g.draft THEN "standard"
                                ELSE IF "more" \in g.draft THEN "more" ELSE @]
      \/ r = [h EXCEPT !.draft = {}]
      \/ r = h
  BY DEF Ran
<1>. HIDE DEF h, r
<1>. QED
  BY <1>1, <1>2 DEF r

LEMMA DiskExecute == DiskInv /\ Execute => DiskInv'
<1>. SUFFICES ASSUME DiskInv, Execute PROVE DiskInv'
  OBVIOUS
<1>1. /\ FosInv /\ ScopeInv' /\ GuestIs(guest) /\ cli' = cli /\ typed # <<>>
      /\ typed' = Tail(typed) /\ Head(typed).op # "yes"
      /\ guest' \in {guest, Ran(guest, Head(typed))}
  BY ScopeExecute DEF DiskInv, ScopeInv, FosInv, GuestSound, GuestIs, Execute
<1>2. typed' = <<>> /\ guest'.formatted = guest.formatted
  BY <1>1, GuestReads, RanFormatted
<1>. QED
  BY <1>1, <1>2, DiskGuestStep

LEMMA DiskFall == DiskInv /\ Fall => DiskInv'
<1>. SUFFICES ASSUME DiskInv, Fall PROVE DiskInv'
  OBVIOUS
<1>1. ScopeInv' /\ GuestIs(guest) /\ cli' = cli /\ typed' = typed /\ guest.up
  BY ScopeFall DEF DiskInv, ScopeInv, FosInv, GuestSound, GuestIs, Fall
<1>2. guest'.formatted = guest.formatted
  BY <1>1 DEF Fall, GuestIs
<1>. QED
  BY <1>1, <1>2, DiskGuestStep

LEMMA DiskLoseSession == DiskInv /\ LoseSession => DiskInv'
<1>. SUFFICES ASSUME DiskInv, LoseSession PROVE DiskInv'
  OBVIOUS
<1>1. /\ FosInv /\ ScopeInv' /\ GuestIs(guest) /\ cli' = cli /\ guest.up
  BY ScopeLoseSession DEF DiskInv, ScopeInv, FosInv, GuestSound, GuestIs, LoseSession
<1>2. \/ guest' = LoggedOut(guest)
      \/ /\ guest' = LoggedOut(Ran(guest, Head(typed)))
         /\ typed # <<>> /\ Head(typed).op # "yes" /\ Knows(guest.ctx, Head(typed))
  BY DEF LoseSession
<1>3. \A g : GuestIs(g) => LoggedOut(g).formatted = g.formatted /\ ~LoggedOut(g).up
  BY DEF GuestIs, LoggedOut
<1>4. CASE guest' = LoggedOut(guest)
  BY <1>1, <1>3, <1>4, DiskGuestStep
<1>5. CASE /\ guest' = LoggedOut(Ran(guest, Head(typed)))
           /\ typed # <<>> /\ Head(typed).op # "yes" /\ Knows(guest.ctx, Head(typed))
  <2>. DEFINE r == Ran(guest, Head(typed))
  <2>1. Head(typed) \in Cmds \cup {Return}
    BY <1>1, <1>5, GuestReads
  <2>2. GuestIs(r) /\ r.formatted = guest.formatted
    BY <1>1, <1>5, <2>1, RanGuest, RanFormatted
  <2>. HIDE DEF r
  <2>3. guest'.formatted = guest.formatted /\ ~guest'.up
    BY <1>3, <1>5, <2>2 DEF r
  <2>. QED
    BY <1>1, <2>3, DiskGuestStep
<1>. QED
  BY <1>2, <1>4, <1>5

LEMMA DiskDropLine == DiskInv /\ DropLine => DiskInv'
<1>. SUFFICES ASSUME DiskInv, DropLine PROVE DiskInv'
  OBVIOUS
<1>1. ScopeInv' /\ cli' = cli /\ typed' = <<>> /\ guest' = guest
  BY ScopeDropLine DEF DiskInv, DropLine
<1>. QED
  BY <1>1, DiskGuestStep

LEMMA DiskLogin == DiskInv /\ Login => DiskInv'
<1>. SUFFICES ASSUME DiskInv, Login PROVE DiskInv'
  OBVIOUS
<1>1. ScopeInv' /\ GuestIs(guest) /\ cli' = cli /\ typed' = <<>>
  BY ScopeLogin DEF DiskInv, ScopeInv, FosInv, GuestSound, GuestIs, Login
<1>2. guest'.formatted = guest.formatted
  BY <1>1 DEF Login, GuestIs
<1>. QED
  BY <1>1, <1>2, DiskGuestStep

LEMMA RisingAppend ==
    ASSUME NEW f \in Seq(2..(Disks + 1)), Rising(f), NEW d \in 2..(Disks + 1),
           LastDisk(f) < d
    PROVE  /\ Append(f, d) \in Seq(2..(Disks + 1)) /\ Rising(Append(f, d))
           /\ LastDisk(Append(f, d)) = d
<1>. DEFINE n == Len(f)
            u == Append(f, d)
<1>1. /\ n \in Nat /\ u \in Seq(2..(Disks + 1)) /\ Len(u) = n + 1
      /\ \A i \in 1..n : u[i] = f[i] /\ f[i] \in Nat
      /\ u[n + 1] = d /\ d \in Nat
  BY AppendProperties, ElementOfSeq, LenProperties, FosAssumption
<1>2. n = 0 <=> f = <<>>
  BY EmptySeq
<1>3. \A i \in 1..n : f[i] <= f[n] /\ n \in 1..n
  <2>. SUFFICES ASSUME NEW i \in 1..n PROVE f[i] <= f[n] /\ n \in 1..n
    OBVIOUS
  <2>1. n \in 1..n /\ f[i] \in Nat /\ f[n] \in Nat
    BY <1>1
  <2>2. i = n \/ f[i] < f[n]
    BY <1>1, <2>1 DEF Rising
  <2>. QED
    BY <2>1, <2>2
<1>4. \A i \in 1..n : f[i] < d
  <2>. SUFFICES ASSUME NEW i \in 1..n PROVE f[i] < d
    OBVIOUS
  <2>1. f[n] < d /\ f[i] <= f[n] /\ f[i] \in Nat /\ f[n] \in Nat
    BY <1>1, <1>2, <1>3 DEF LastDisk
  <2>. QED
    BY <2>1
<1>5. u # <<>> /\ Len(u) \in Nat
  BY <1>1, EmptySeq
<1>. HIDE DEF u
<1>6. Rising(u)
  <2>. SUFFICES ASSUME NEW i \in 1..Len(u), NEW j \in 1..Len(u), i < j PROVE u[i] < u[j]
    BY DEF Rising
  <2>. HIDE DEF n
  <2>1. i \in 1..n /\ (j \in 1..n \/ j = n + 1)
    BY <1>1
  <2>2. CASE j \in 1..n
    <3>1. f[i] < f[j]
      BY <2>1, <2>2 DEF Rising, n
    <3>. QED
      BY <1>1, <2>1, <2>2, <3>1
  <2>3. CASE j = n + 1
    BY <1>1, <1>4, <2>1, <2>3
  <2>. QED
    BY <2>1, <2>2, <2>3
<1>7. LastDisk(u) = d
  BY <1>1, <1>5 DEF LastDisk
<1>. QED
  BY <1>1, <1>6, <1>7 DEF u

LEMMA DiskExecuteFormat == DiskInv /\ ExecuteFormat => DiskInv'
<1>. SUFFICES ASSUME DiskInv, ExecuteFormat PROVE DiskInv'
  OBVIOUS
<1>. DEFINE c == Head(typed)
            n == LastDisk(guest.formatted)
<1>1. /\ FosInv /\ ScopeInv' /\ GuestIs(guest) /\ cli' = cli /\ typed # <<>>
      /\ guest.up /\ typed' = Tail(typed) /\ Good(cli)
  BY ScopeExecuteFormat DEF DiskInv, ScopeInv, FosInv, GuestSound, GuestIs, ExecuteFormat,
     CliSound
<1>2. typed' = <<>>
  BY <1>1, GuestReads
<1>3. CASE c.op = "format"
  <2>1. guest' = guest
    BY <1>3 DEF ExecuteFormat
  <2>. QED
    BY <1>1, <1>2, <2>1, DiskGuestStep
<1>4. CASE c.op = "yes"
  <2>1. /\ guest' = LoggedOut(Ran(guest, c)) /\ Disked(cli, n)
        /\ ~Idle(cli) /\ c = cli.inflight.cmd /\ n < cli.disk
    BY <1>1, <1>4 DEF ExecuteFormat, DiskInv, Confirmed
  <2>2. /\ cli.active = DiskFormat /\ cli.stage = "reboot" /\ ~cli.inReset
        /\ cli.disk \in 2..(Disks + 1) /\ cli.pending = <<>>
        /\ cli.cmds = <<YesSpec(cli.disk)>> /\ c = cli.cmds[1]
    BY <1>1, <1>4, <2>1, FosAssumption DEF Disked, Confirming, Formatting, StageBlock, Good,
       Typing
  <2>3. c.arg = cli.disk
    <3>1. \A x : <<x>>[1] = x
      OBVIOUS
    <3>2. c = YesSpec(cli.disk)
      BY <2>2, <3>1
    <3>. HIDE DEF c
    <3>. QED
      BY <3>2 DEF YesSpec, Cmd
  <2>4. guest'.formatted = Append(guest.formatted, cli.disk) /\ ~guest'.up
    <3>. DEFINE h == [guest EXCEPT !.ctx = Enter(guest.ctx, c)]
                r == Ran(guest, c)
    <3>1. /\ DOMAIN h = {"up", "ctx", "draft", "saved", "mode", "formatted"}
          /\ h.formatted = guest.formatted
      BY <1>1 DEF GuestIs
    <3>2. r = [h EXCEPT !.formatted = Append(@, c.arg)]
      BY <1>4 DEF Ran, ClosesScope
    <3>. HIDE DEF c, h, r
    <3>3. /\ DOMAIN r = {"up", "ctx", "draft", "saved", "mode", "formatted"}
          /\ r.formatted = Append(guest.formatted, cli.disk)
      BY <2>3, <3>1, <3>2
    <3>4. LoggedOut(r).formatted = r.formatted /\ ~LoggedOut(r).up
      BY <3>3 DEF LoggedOut
    <3>. QED
      BY <2>1, <3>3, <3>4 DEF r
  <2>5. /\ guest'.formatted \in Seq(2..(Disks + 1)) /\ Rising(guest'.formatted)
        /\ LastDisk(guest'.formatted) = cli.disk
    BY <2>1, <2>2, <2>4, RisingAppend DEF DiskInv
  <2>6. Disked(cli, cli.disk)
    <3>1. DiskFormat \notin ToSet(cli.queue)
      BY <1>1, <2>2, ActiveNotQueued
    <3>2. Ahead(cli, cli.disk)
      BY <2>2, <3>1 DEF Ahead
    <3>. QED
      BY <2>1, <3>2 DEF Disked
  <2>. QED
    BY <1>1, <2>4, <2>5, <2>6 DEF DiskInv, Confirmed
<1>. QED
  BY <1>3, <1>4 DEF ExecuteFormat

LEMMA StepDiskInv == DiskInv /\ [Next]_vars => DiskInv'
<1>. SUFFICES ASSUME DiskInv, [Next]_vars PROVE DiskInv'
  OBVIOUS
<1>1. CASE UNCHANGED vars
  <2>1. /\ cli' = cli /\ guest' = guest /\ typed' = typed
    BY <1>1 DEF vars
  <2>2. ScopeInv'
    BY <1>1, StepScopeInv DEF DiskInv
  <2>. QED
    BY <2>1, <2>2 DEF DiskInv
<1>. QED
  BY <1>1, DiskRead, DiskReadEcho, DiskReadRejected, DiskReadTimeout, DiskExecute,
     DiskExecuteFormat, DiskFall, DiskLoseSession, DiskDropLine, DiskLogin DEF Next

THEOREM DiskInvariance == Spec => []DiskInv
  BY InitDiskInv, StepDiskInv, PTL DEF Spec

\* No disk is formatted twice, and none but the additional ones.
FormattedOnce ==
    IsInjective(guest.formatted) /\ ToSet(guest.formatted) \subseteq 2..(Disks + 1)

\* Whatever is lost, replayed or given up, no disk is formatted twice: they are formatted
\* in their order, and none but the additional ones.
THEOREM DisksFormattedOnce == Spec => []FormattedOnce
<1>1. DiskInv => FormattedOnce
  <2>. SUFFICES ASSUME DiskInv PROVE FormattedOnce
    OBVIOUS
  <2>. DEFINE f == guest.formatted
  <2>1. f \in Seq(2..(Disks + 1)) /\ Rising(f) /\ DOMAIN f = 1..Len(f) /\ Len(f) \in Nat
        /\ \A i \in 1..Len(f) : f[i] \in Nat /\ f[i] \in 2..(Disks + 1)
    BY LenProperties, ElementOfSeq, FosAssumption DEF DiskInv
  <2>2. ASSUME NEW i \in 1..Len(f), NEW j \in 1..Len(f), f[i] = f[j] PROVE i = j
    <3>1. i \in Nat /\ j \in Nat /\ f[i] \in Nat /\ f[j] \in Nat
      BY <2>1
    <3>2. ~(i < j) /\ ~(j < i)
      BY <2>1, <2>2, <3>1 DEF Rising
    <3>. QED
      BY <3>1, <3>2
  <2>3. ToSet(f) \subseteq 2..(Disks + 1)
    <3>. HIDE DEF f
    <3>. QED
      BY <2>1 DEF ToSet
  <2>. HIDE DEF f
  <2>. QED
    BY <2>1, <2>2, <2>3 DEF IsInjective, FormattedOnce, f
<1>. QED
  BY <1>1, DiskInvariance, PTL

(***************************************************************************)
(* The requests for the configuration: the inductive invariant.            *)
(***************************************************************************)

\* What the loop's hands and the commander hold fits where they are.
PlacesSound ==
    /\ conf \in Nat \ {0}
    /\ at \in {"drop", "connect", "compare"} => req \in Hosts
    /\ at \in {"drop", "connect"} => cmd = "ready" /\ status[req] = "pending"
    /\ at = "connect" => request = req
    /\ cmd # "ready" => request \in Hosts /\ status[request] # None
    /\ Capturing /\ at # "stopped" => status[request] = "pending"

\* A trigger is a request's own until it is consumed.
TriggerSound ==
    /\ \A h \in Hosts : status[h] # None => asked[h] # 0
    /\ trigger.id \in Hosts =>
           /\ asked[trigger.id] # 0
           /\ \/ status[trigger.id] = None
              \/ at = "unlink"
              \/ at \in {"drop", "connect", "compare"} /\ req = trigger.id

\* What the console answers is no older than a request that waits for it or
\* was answered before.
AnswerSound ==
    line = "answered" /\ cmd = "show" =>
        \A h \in Hosts : status[h] = "success" \/ h = request => shown >= asked[h]

RequestsInv ==
    /\ RequestsTypeOK /\ PlacesSound /\ TriggerSound /\ AnswerSound
    /\ PendingServed /\ OutputFresh

(***************************************************************************)
(* It holds at the start, and each step keeps it.                          *)
(***************************************************************************)

LEMMA InitRequestsInv == RequestsInit => RequestsInv
  BY HostsAssumption DEF RequestsInit, RequestsInv, RequestsTypeOK, PlacesSound, TriggerSound,
     AnswerSound, PendingServed, OutputFresh, NoTrigger, None, Garbage, Final, Capturing

LEMMA StepRequestsInv == RequestsInv /\ [RequestsNext]_requestsVars => RequestsInv'
<1>. SUFFICES ASSUME RequestsInv, [RequestsNext]_requestsVars PROVE RequestsInv'
  OBVIOUS
<1>. USE HostsAssumption DEF RequestsInv, RequestsTypeOK, PlacesSound, TriggerSound,
         AnswerSound, PendingServed, OutputFresh, NoTrigger, None, Garbage, Final,
         files, forti, commander, launcher, Fault, Spinning, Capturing
<1>1. CASE CheckQemu
  BY <1>1 DEF CheckQemu
<1>2. CASE EndSpin
  BY <1>2 DEF EndSpin
<1>3. CASE UpdateHealth
  BY <1>3 DEF UpdateHealth
<1>4. CASE Poll
  BY <1>4 DEF Poll
<1>5. CASE ReadNothing
  BY <1>5 DEF ReadNothing
<1>6. CASE ReadGarbage
  BY <1>6 DEF ReadGarbage
<1>7. CASE ReadBusy
  BY <1>7 DEF ReadBusy, RejectWhileBusy
<1>8. CASE ReadRequest
  BY <1>8 DEF ReadRequest, RejectWhileBusy, Swept
<1>9. CASE DropOutput
  BY <1>9 DEF DropOutput
<1>10. CASE DropFails
  BY <1>10 DEF DropFails
<1>11. CASE Connect
  BY <1>11 DEF Connect
<1>12. CASE ConnectFails
  BY <1>12 DEF ConnectFails, Stopped
<1>13. CASE Compare
  BY <1>13 DEF Compare
<1>14. CASE Unlink
  BY <1>14 DEF Unlink
<1>15. CASE Begin
  BY <1>15 DEF Begin
<1>16. CASE ReadInspection
  BY <1>16 DEF ReadInspection
<1>17. CASE SaveOutput
  BY <1>17 DEF SaveOutput, EndFeature
<1>18. CASE SaveFails
  BY <1>18 DEF SaveFails, CaptureRaises, StopLauncher, SkipFeature, EndFeature, Stopped
<1>19. CASE ReplayLost
  BY <1>19 DEF ReplayLost
<1>20. CASE LostAgain
  BY <1>20 DEF LostAgain, CaptureRaises, StopLauncher, SkipFeature, EndFeature, Stopped,
     FailedNow
<1>21. CASE ReaderFails
  BY <1>21 DEF ReaderFails, FailedNow
<1>22. ASSUME NEW h \in Hosts, Request(h) PROVE RequestsInv'
  <2>1. status[h] = None /\ trigger'.id = h /\ trigger'.sig \in 0..3
    BY <1>22 DEF Request, NewTrigger
  <2>2. /\ asked' \in [Hosts -> 0..conf]
        /\ \A g \in Hosts : asked'[g] = IF g = h THEN conf ELSE asked[g]
    BY <1>22 DEF Request
  <2>3. UNCHANGED <<conf, status, current, shown, line, cmd, request, req, at, failed, vm>>
    BY <1>22 DEF Request
  <2>4. RequestsTypeOK'
    BY <2>1, <2>2, <2>3
  <2>5. PlacesSound' /\ PendingServed'
    BY <2>3
  <2>6. TriggerSound'
    BY <2>1, <2>2, <2>3
  <2>7. AnswerSound' /\ OutputFresh'
    BY <2>1, <2>2, <2>3
  <2>. QED
    BY <2>4, <2>5, <2>6, <2>7
<1>23. CASE WriteGarbage
  BY <1>23 DEF WriteGarbage, NewTrigger
<1>24. CASE Withdraw
  BY <1>24 DEF Withdraw
<1>25. CASE Configure
  BY <1>25 DEF Configure
<1>26. CASE Answer
  BY <1>26 DEF Answer
<1>27. CASE EndSession
  BY <1>27 DEF EndSession
<1>28. CASE Die
  BY <1>28 DEF Die
<1>29. CASE Boot
  BY <1>29 DEF Boot
<1>30. CASE UNCHANGED requestsVars
  BY <1>30 DEF requestsVars
<1>31. CASE ReadStandard
  BY <1>31 DEF ReadStandard
<1>32. CASE ReadRestored
  BY <1>32 DEF ReadRestored, EndFeature
<1>. QED
  BY <1>1, <1>2, <1>3, <1>4, <1>5, <1>6, <1>7, <1>8, <1>9, <1>10, <1>11, <1>12,
     <1>13, <1>14, <1>15, <1>16, <1>17, <1>18, <1>19, <1>20, <1>21, <1>22, <1>23,
     <1>24, <1>25, <1>26, <1>27, <1>28, <1>29, <1>30, <1>31, <1>32
     DEF RequestsNext, Loop, Capture

THEOREM RequestsInvariance == RequestsSpec => []RequestsInv
  BY InitRequestsInv, StepRequestsInv, PTL DEF RequestsSpec

\* The launcher works on requests of hosts alone, and no version it stores or
\* is asked for is one the forti has not had.
THEOREM RequestsTypeCorrect == RequestsSpec => []RequestsTypeOK
<1>1. RequestsInv => RequestsTypeOK
  BY DEF RequestsInv
<1>. QED
  BY <1>1, RequestsInvariance, PTL

\* An output left from before never answers a newer request.
THEOREM OutputFreshHolds == RequestsSpec => []OutputFresh
<1>1. RequestsInv => OutputFresh
  BY DEF RequestsInv
<1>. QED
  BY <1>1, RequestsInvariance, PTL

\* No request is left pending without a capture of its own, unless that raised.
THEOREM PendingServedHolds == RequestsSpec => []PendingServed
<1>1. RequestsInv => PendingServed
  BY DEF RequestsInv
<1>. QED
  BY <1>1, RequestsInvariance, PTL

(***************************************************************************)
(* A record is written twice only by a sweep.                              *)
(***************************************************************************)

LEMMA StepAnswerOnce ==
    RequestsInv /\ [RequestsNext]_requestsVars =>
        [\A h \in Hosts : status[h] \in Final =>
            status'[h] \in {status[h], "swept"}]_requestsVars
<1>. SUFFICES ASSUME RequestsInv, [RequestsNext]_requestsVars,
                     NEW h \in Hosts, status[h] \in Final
              PROVE  status'[h] \in {status[h], "swept"}
  OBVIOUS
<1>. USE HostsAssumption DEF RequestsInv, RequestsTypeOK, PlacesSound, TriggerSound,
         Final, None,
         files, forti, commander, launcher
<1>1. CASE ReadBusy \/ ReadRequest
  BY <1>1 DEF ReadBusy, ReadRequest, Swept
<1>2. CASE DropFails \/ Connect \/ ConnectFails
  BY <1>2 DEF DropFails, Connect, ConnectFails
<1>3. CASE SaveOutput \/ SaveFails
  BY <1>3 DEF SaveOutput, SaveFails, CaptureRaises, Spinning, Capturing
<1>4. CASE UNCHANGED status
  BY <1>4
<1>5. CASE \/ CheckQemu \/ EndSpin \/ UpdateHealth \/ Poll \/ ReadNothing \/ ReadGarbage
           \/ DropOutput \/ Compare \/ Unlink
  BY <1>4, <1>5 DEF CheckQemu, EndSpin, UpdateHealth, Poll, ReadNothing, ReadGarbage,
     DropOutput, Compare, Unlink
<1>6. CASE \/ Begin \/ ReadInspection \/ ReadStandard \/ ReadRestored \/ ReplayLost
           \/ LostAgain \/ ReaderFails
  BY <1>4, <1>6 DEF Begin, ReadInspection, ReadStandard, ReadRestored, ReplayLost,
     LostAgain, ReaderFails
<1>7. CASE (\E g \in Hosts : Request(g)) \/ WriteGarbage \/ Withdraw \/ Configure \/ Answer
           \/ EndSession \/ Die \/ Boot
  BY <1>4, <1>7 DEF Request, WriteGarbage, Withdraw, Configure, Answer, EndSession, Die, Boot
<1>8. CASE UNCHANGED requestsVars
  BY <1>4, <1>8 DEF requestsVars
<1>. QED
  BY <1>1, <1>2, <1>3, <1>5, <1>6, <1>7, <1>8 DEF RequestsNext, Loop, Capture

\* Whatever the loop, the console and other hosts do, a host that reads how its
\* request ended reads the same later, or finds its record swept.
THEOREM AnswerOnceHolds == RequestsSpec => AnswerOnce
  BY RequestsInvariance, StepAnswerOnce, PTL DEF RequestsSpec, AnswerOnce
=============================================================================
