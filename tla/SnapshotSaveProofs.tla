------------------------- MODULE SnapshotSaveProofs -------------------------
(***************************************************************************)
(* Proofs about SnapshotSave, for any number of VMs, snapshots and         *)
(* failures, for a qemu that answers late or in time, and for migrations   *)
(* that outlast their timeout.                                             *)
(***************************************************************************)
EXTENDS SnapshotSave, SequenceTheorems, TLAPS

Saving == at \notin {"loop", "tar", "remove"}

(***************************************************************************)
(* The inductive invariant.  What pauses a guest is a stop, a migration    *)
(* that waits in the monitor, or one on its way: unless the launcher is at *)
(* the VM, a cont is waiting behind it.                                    *)
(***************************************************************************)

\* A cont is among the commands from the i-th on.
ContFrom(c, i) == \E k \in i .. Len(c) : c[k] = "cont"

\* The guest would be resumed by the commands that wait, whatever is there.
WillResume(v) ==
    /\ \A i \in 1 .. Len(cmds[v]) :
           cmds[v][i] \in {"stop", "migrate"} => ContFrom(cmds[v], i)
    /\ paused[v] \/ Held(v) => ContFrom(cmds[v], 1)

Resuming == \A v \in VMs : ~broken[v] => (cur = v /\ Saving) \/ WillResume(v)

IInv == TypeOK /\ Resuming

(***************************************************************************)
(* Types.                                                                  *)
(***************************************************************************)

\* What a read leaves in the monitor is answers.
LEMMA ReadTypes ==
    ASSUME NEW S, NEW s \in Seq(S), NEW k \in 0 .. Len(s)
    PROVE  SubSeq(s, k + 1, Len(s)) \in Seq(S)
<1>1. \A i \in k + 1 .. Len(s) : s[i] \in S
  OBVIOUS
<1>. QED
  BY <1>1, SubSeqProperties

LEMMA Constants ==
    /\ 1 \in VMs /\ \A v \in VMs : v < N => v + 1 \in VMs
    /\ Torn \in Versions /\ 0 .. MaxVersion \subseteq Versions
  BY SnapshotSaveAssumption DEF VMs, Torn, Versions

LEMMA SendTypes ==
    ASSUME TypeOK, NEW c \in Commands, Send(c)
    PROVE  cmds' \in [VMs -> Seq(Commands)]
  BY AppendProperties DEF TypeOK, Send

LEMMA TypeStep == TypeOK /\ [Next]_vars => TypeOK'
<1>. SUFFICES ASSUME TypeOK, [Next]_vars PROVE TypeOK'
  OBVIOUS
<1>. USE Constants DEF TypeOK, rest, launcher, files, guest, qemu, disk
<1>1. CASE Begin
  BY <1>1 DEF Begin
<1>2. CASE SendStop
  <2>1. cmds' \in [VMs -> Seq(Commands)]
    BY <1>2, SendTypes DEF SendStop, Commands
  <2>. QED
    BY <1>2, <2>1 DEF SendStop
<1>3. CASE SendMigrate
  <2>1. cmds' \in [VMs -> Seq(Commands)]
    BY <1>3, SendTypes DEF SendMigrate, Commands
  <2>. QED
    BY <1>3, <2>1 DEF SendMigrate
<1>4. CASE SendInfo
  <2>1. cmds' \in [VMs -> Seq(Commands)]
    BY <1>4, SendTypes DEF SendInfo, Commands
  <2>. QED
    BY <1>4, <2>1 DEF SendInfo
<1>5. CASE SendNetwork
  <2>1. cmds' \in [VMs -> Seq(Commands)]
    BY <1>5, SendTypes DEF SendNetwork, Commands
  <2>. QED
    BY <1>5, <2>1 DEF SendNetwork
<1>6. CASE SendCont
  <2>1. cmds' \in [VMs -> Seq(Commands)]
    BY <1>6, SendTypes DEF SendCont, Commands
  <2>. QED
    BY <1>6, <2>1 DEF SendCont
<1>7. CASE Recover
  <2>1. cmds' \in [VMs -> Seq(Commands)]
    BY <1>7, SendTypes DEF Recover, Commands
  <2>. QED
    BY <1>7, <2>1 DEF Recover
<1>8. CASE StartCopy
  BY <1>8 DEF StartCopy
<1>9. CASE ReadInfo
  BY <1>9, ReadTypes DEF ReadInfo, Read
<1>10. CASE ReadMacs
  BY <1>10, ReadTypes DEF ReadMacs, Read
<1>11. CASE Timeout
  BY <1>11 DEF Timeout
<1>12. CASE Join
  BY <1>12 DEF Join
<1>13. CASE MonitorRaises
  BY <1>13 DEF MonitorRaises
<1>14. CASE MetadataRaises
  BY <1>14, SnapshotSaveAssumption DEF MetadataRaises
<1>15. CASE Tar
  BY <1>15 DEF Tar, Files
<1>16. CASE TarRaises
  <2>1. NoFiles \in Files
    BY DEF NoFiles, Files
  <2>2. tar' \in [VMs -> Files]
    BY <1>16, <2>1 DEF TarRaises
  <2>3. faults' \in 0 .. MaxFaults
    BY <1>16, SnapshotSaveAssumption DEF TarRaises
  <2>. QED
    BY <1>16, <2>2, <2>3 DEF TarRaises
<1>17. CASE RemoveRequest
  BY <1>17 DEF RemoveRequest
<1>18. ASSUME NEW v \in VMs, Execute(v) PROVE TypeOK'
  <2>1. cmds' \in [VMs -> Seq(Commands)]
    BY <1>18, HeadTailProperties DEF Execute
  <2>2. mig[v] \in Outputs /\ "macs" \in Outputs
    BY <1>18 DEF Execute, Held, Outputs
  <2>3. outs' \in [VMs -> Seq(Outputs)]
    BY <1>18, <2>2, AppendProperties DEF Execute
  <2>. QED
    BY <1>18, <2>1, <2>3 DEF Execute
<1>19. ASSUME NEW v \in VMs, MigrationCompletes(v) PROVE TypeOK'
  BY <1>19, SnapshotSaveAssumption DEF MigrationCompletes
<1>20. ASSUME NEW v \in VMs, MigrationFails(v) PROVE TypeOK'
  BY <1>20, SnapshotSaveAssumption DEF MigrationFails
<1>21. ASSUME NEW v \in VMs, GuestRuns(v) PROVE TypeOK'
  BY <1>21, SnapshotSaveAssumption DEF GuestRuns
<1>22. ASSUME NEW v \in VMs, QemuExits(v) PROVE TypeOK'
  BY <1>22, SnapshotSaveAssumption DEF QemuExits
<1>23. ASSUME NEW v \in VMs, CopyEnds(v) PROVE TypeOK'
  BY <1>23, SnapshotSaveAssumption DEF CopyEnds
<1>24. ASSUME NEW v \in VMs, CopyFails(v) PROVE TypeOK'
  BY <1>24, SnapshotSaveAssumption DEF CopyFails
<1>25. CASE Touch
  BY <1>25, SnapshotSaveAssumption DEF Touch
<1>26. CASE UNCHANGED vars
  BY <1>26 DEF vars
<1>. QED
  BY <1>1, <1>2, <1>3, <1>4, <1>5, <1>6, <1>7, <1>8, <1>9, <1>10, <1>11, <1>12,
     <1>13, <1>14, <1>15, <1>16, <1>17, <1>18, <1>19, <1>20, <1>21, <1>22, <1>23,
     <1>24, <1>25, <1>26
     DEF Next, Launcher, Qemu

(***************************************************************************)
(* A guest that is paused is resumed by what waits in its monitor.         *)
(***************************************************************************)

LEMMA AppendCont ==
    ASSUME NEW c \in Seq(Commands), NEW i \in 1 .. Len(c) + 1
    PROVE  ContFrom(Append(c, "cont"), i)
<1>1. "cont" \in Commands
  BY DEF Commands
<1>. QED
  BY <1>1, AppendProperties DEF ContFrom

LEMMA TailCont ==
    ASSUME NEW c \in Seq(Commands), c # <<>>, NEW i \in 1 .. Len(c), ContFrom(c, i + 1)
    PROVE  ContFrom(Tail(c), i)
<1>1. PICK k \in i + 1 .. Len(c) : c[k] = "cont"
  BY DEF ContFrom
<1>2. k - 1 \in i .. Len(Tail(c)) /\ Tail(c)[k - 1] = "cont"
  BY <1>1, HeadTailProperties
<1>. QED
  BY <1>2 DEF ContFrom

\* Behind a cont, nothing leaves the guest paused.
LEMMA SentCont ==
    ASSUME TypeOK, NEW v \in VMs, cmds'[v] = Append(cmds[v], "cont")
    PROVE  WillResume(v)'
<1>1. cmds[v] \in Seq(Commands) /\ "cont" \in Commands
  BY DEF TypeOK, Commands
<1>2. Len(cmds'[v]) = Len(cmds[v]) + 1
  BY <1>1, AppendProperties
<1>3. \A i \in 1 .. Len(cmds'[v]) : ContFrom(cmds'[v], i)
  BY <1>1, <1>2, AppendCont
<1>. QED
  BY <1>1, <1>2, <1>3 DEF WillResume

LEMMA Executed ==
    ASSUME TypeOK, NEW v \in VMs, Execute(v), WillResume(v)
    PROVE  WillResume(v)'
<1>. DEFINE c == cmds[v]
<1>1. /\ c \in Seq(Commands) /\ c # <<>> /\ cmds'[v] = Tail(c)
      /\ Head(c) = c[1] /\ Len(c) >= 1
  BY DEF TypeOK, Execute
<1>2. /\ Len(Tail(c)) = Len(c) - 1
      /\ \A i \in 1 .. Len(Tail(c)) : Tail(c)[i] = c[i + 1]
  BY <1>1, HeadTailProperties
<1>3. ASSUME NEW i \in 1 .. Len(Tail(c)), Tail(c)[i] \in {"stop", "migrate"}
      PROVE  ContFrom(Tail(c), i)
  <2>1. ContFrom(c, i + 1)
    BY <1>1, <1>2, <1>3 DEF WillResume
  <2>. QED
    BY <1>1, <1>2, <2>1, TailCont
<1>4. ASSUME paused'[v] \/ Held(v)'
      PROVE  ContFrom(Tail(c), 1)
  <2>1. c[1] # "cont"
    BY <1>1, <1>4 DEF Execute, TypeOK, Held
  <2>2. ContFrom(c, 1)
    <3>1. CASE c[1] \in {"stop", "migrate"}
      BY <1>1, <3>1 DEF WillResume
    <3>2. CASE c[1] \notin {"stop", "migrate"}
      BY <1>1, <1>4, <3>2 DEF Execute, TypeOK, Held, WillResume
    <3>. QED
      BY <3>1, <3>2
  <2>3. ContFrom(c, 2)
    <3>1. PICK k \in 1 .. Len(c) : c[k] = "cont"
      BY <2>2 DEF ContFrom
    <3>. QED
      BY <2>1, <3>1 DEF ContFrom
  <2>. QED
    BY <1>1, <2>3, TailCont
<1>. QED
  BY <1>1, <1>3, <1>4 DEF WillResume

LEMMA ResumingStep == IInv /\ [Next]_vars => Resuming'
<1>. SUFFICES ASSUME IInv, [Next]_vars, NEW v \in VMs, ~broken'[v]
              PROVE  (cur = v /\ Saving)' \/ WillResume(v)'
  BY DEF Resuming
<1>. USE DEF IInv, rest, launcher, files, guest, qemu, disk
<1>1. ~broken[v]
  BY DEF TypeOK, Next, Launcher, Begin, SendStop, SendMigrate, StartCopy, SendInfo, ReadInfo,
         Timeout, Join, SendNetwork, ReadMacs, SendCont, MonitorRaises, MetadataRaises,
         Recover, Tar, TarRaises, RemoveRequest, Qemu, Execute, MigrationCompletes, CopyEnds,
         MigrationFails, GuestRuns, QemuExits, CopyFails, Touch, vars
<1>2. (cur = v /\ Saving) \/ WillResume(v)
  BY <1>1 DEF Resuming
<1>3. ASSUME cmds'[v] = cmds[v], paused'[v] => paused[v], Held(v)' => Held(v), WillResume(v)
      PROVE  WillResume(v)'
  BY <1>3 DEF WillResume
<1>4. CASE Begin
  BY <1>2, <1>3, <1>4 DEF Begin, Saving, Held, TypeOK
<1>5. CASE SendStop \/ SendMigrate \/ SendInfo \/ SendNetwork
  BY <1>2, <1>3, <1>5 DEF SendStop, SendMigrate, SendInfo, SendNetwork, Send, Saving, Held, TypeOK
<1>6. CASE StartCopy \/ ReadInfo \/ ReadMacs
  BY <1>2, <1>3, <1>6 DEF StartCopy, ReadInfo, ReadMacs, Saving, Held
<1>7. CASE Timeout \/ Join \/ MonitorRaises \/ MetadataRaises
  BY <1>2, <1>3, <1>7 DEF Timeout, Join, MonitorRaises, MetadataRaises, Saving, Held
<1>8. CASE Tar \/ TarRaises \/ RemoveRequest
  BY <1>2, <1>3, <1>8 DEF Tar, TarRaises, RemoveRequest, Saving, Held
<1>9. CASE SendCont \/ Recover
  <2>1. CASE v = cur
    <3>1. cmds'[v] = Append(cmds[v], "cont")
      BY <1>1, <1>9, <2>1 DEF SendCont, Recover, Send, TypeOK
    <3>. QED
      BY <3>1, SentCont
  <2>2. CASE v # cur
    BY <1>2, <1>3, <1>9, <2>2 DEF SendCont, Recover, Send, Saving, Held, TypeOK
  <2>. QED
    BY <2>1, <2>2
<1>10. ASSUME NEW w \in VMs, Execute(w)
       PROVE  (cur = v /\ Saving)' \/ WillResume(v)'
  <2>1. CASE w = v
    BY <1>2, <1>10, <2>1, Executed DEF Execute, Saving
  <2>2. CASE w # v
    BY <1>2, <1>3, <1>10, <2>2 DEF Execute, Saving, Held, TypeOK
  <2>. QED
    BY <2>1, <2>2
<1>11. ASSUME NEW w \in VMs, MigrationCompletes(w)
       PROVE  (cur = v /\ Saving)' \/ WillResume(v)'
  <2>1. WillResume(v) => WillResume(v)'
    BY <1>11 DEF MigrationCompletes, WillResume, Held, TypeOK
  <2>. QED
    BY <1>2, <1>11, <2>1 DEF MigrationCompletes, Saving
<1>12. ASSUME NEW w \in VMs, \/ MigrationFails(w) \/ GuestRuns(w) \/ QemuExits(w)
                             \/ CopyEnds(w) \/ CopyFails(w)
       PROVE  (cur = v /\ Saving)' \/ WillResume(v)'
  BY <1>2, <1>3, <1>12 DEF MigrationFails, GuestRuns, QemuExits, CopyEnds, CopyFails, Saving,
     Held, TypeOK
<1>13. CASE Touch \/ UNCHANGED vars
  BY <1>2, <1>3, <1>13 DEF Touch, vars, Saving, Held
<1>. QED
  BY <1>4, <1>5, <1>6, <1>7, <1>8, <1>9, <1>10, <1>11, <1>12, <1>13 DEF Next, Launcher, Qemu

(***************************************************************************)
(* The theorems.                                                           *)
(***************************************************************************)

LEMMA InitIInv == Init => IInv
<1>1. Init => TypeOK
  <2>1. NoFiles \in Files
    BY Constants DEF NoFiles, Files
  <2>2. <<>> \in Seq(Commands) /\ <<>> \in Seq(Outputs)
    OBVIOUS
  <2>3. 0 \in 0 .. MaxVersion /\ 0 \in 0 .. MaxRequests /\ 0 \in 0 .. MaxFaults
    BY SnapshotSaveAssumption
  <2>. SUFFICES ASSUME Init PROVE TypeOK
    OBVIOUS
  <2>4. /\ tar \in [VMs -> Files] /\ stateFile \in [VMs -> Versions]
        /\ copyFile \in [VMs -> Versions] /\ version \in [VMs -> 0 .. MaxVersion]
    BY <2>1, <2>3, Constants DEF Init
  <2>5. cmds \in [VMs -> Seq(Commands)] /\ outs \in [VMs -> Seq(Outputs)]
    BY <2>2 DEF Init
  <2>. QED
    BY <2>3, <2>4, <2>5, Constants DEF Init, TypeOK
<1>2. Init => Resuming
  BY DEF Init, Resuming, WillResume, Held
<1>. QED
  BY <1>1, <1>2 DEF IInv

THEOREM Invariance == Spec => []IInv
<1>1. IInv /\ [Next]_vars => IInv'
  BY TypeStep, ResumingStep DEF IInv
<1>. QED
  BY <1>1, InitIInv, PTL DEF Spec

\* The launcher, its monitors and its copies keep their types: only answers the
\* code knows are ever read, and only VMs there are are saved.
THEOREM TypeCorrect == Spec => []TypeOK
<1>1. IInv => TypeOK
  BY DEF IInv
<1>. QED
  BY <1>1, Invariance, PTL

\* No failure of qemu, cp, tar or the launcher's own files, no late answer and no
\* migration that outlasts its timeout leaves a guest paused without the cont
\* that resumes it.
THEOREM PausedForSavingHolds == Spec => []PausedForSaving
<1>1. IInv => PausedForSaving
  BY DEF IInv, Resuming, WillResume, ContFrom, Saving, PausedForSaving
<1>. QED
  BY <1>1, Invariance, PTL

(***************************************************************************)
(* The archive is complete when qemu answers while the launcher sleeps and *)
(* migrations end before the timeout.  Neither can be left out: without    *)
(* them the launcher reads the answers of an earlier command, or saves a   *)
(* disk without its memory.                                                *)
(***************************************************************************)


\* Nothing of a snapshot is left in the monitor.
Idle(v) ==
    ~broken[v] => /\ ~Held(v) /\ outs[v] = <<>>
                  /\ \A i \in 1 .. Len(cmds[v]) : cmds[v][i] = "cont"

\* The files of a VM are those of one moment.
FilesMatch(v) ==
    copy[v] = "done" /\ copyFile[v] = stateFile[v] /\ stateFile[v] # Torn

Kept(v) == FilesMatch(v) /\ v \in macs

\* The disk is copied while the guest is paused.
Copying(v) ==
    /\ copy[v] \in {"running", "done", "failed"}
    /\ copy[v] # "failed" => copyFile[v] = version[v]

\* The commands from the i-th on ask for the migration's state.
Asks(v, i) == \A k \in i .. Len(cmds[v]) : cmds[v][k] = "info"

\* A migration still to be started, under way, or ended.
MigrationOf(v) ==
    \/ /\ cmds[v] # <<>> /\ cmds[v][1] = "migrate" /\ Asks(v, 2)
       /\ ~Held(v) /\ outs[v] = <<>>
    \/ /\ mig[v] = "active" /\ outs[v] = <<>> /\ Asks(v, 1)
    \/ /\ mig[v] \in {"completed", "failed"} /\ Asks(v, 1)
       /\ \A k \in 1 .. Len(outs[v]) : outs[v][k] = mig[v]
       /\ mig[v] = "completed" => stateFile[v] = version[v]

\* What the monitor of the VM being saved holds at each step of the launcher.
Silent(v)  == ~Held(v) /\ cmds[v] = <<>> /\ outs[v] = <<>>

Stopping(v) ==
    /\ ~Held(v) /\ outs[v] = <<>>
    /\ \/ cmds[v] = <<>> /\ paused[v]
       \/ /\ cmds[v] # <<>> /\ cmds[v][Len(cmds[v])] = "stop"
          /\ \A k \in 1 .. Len(cmds[v]) - 1 : cmds[v][k] = "cont"

AskingMacs(v) ==
    /\ ~Held(v)
    /\ \/ cmds[v] = <<"network">> /\ outs[v] = <<>>
       \/ cmds[v] = <<>> /\ outs[v] = <<"macs">>

Stage(v) ==
    /\ at = "migrate" => broken[v] \/ Stopping(v)
    /\ at \in {"copy", "poll", "read"} => paused[v] /\ MigrationOf(v)
    /\ at \in {"poll", "read", "join"} => Copying(v)
    /\ at = "join" => /\ paused[v] /\ (broken[v] \/ Silent(v))
                      /\ ~failed => stateFile[v] = version[v]
    /\ at \in {"network", "macs", "cont"} => FilesMatch(v)
    /\ at = "network" => broken[v] \/ Silent(v)
    /\ at = "macs" => broken[v] \/ AskingMacs(v)
    /\ at = "cont" => broken[v] \/ (Silent(v) /\ v \in macs)

\* The VMs that are not being saved are at rest ...
OthersIdle ==
    \A v \in VMs : v # cur \/ at \in {"loop", "stop", "recover", "tar", "remove"}
                   => Idle(v)

\* ... and those before it are saved.
EarlierKept ==
    /\ at \notin {"loop", "recover", "tar", "remove"} =>
           \A v \in VMs : v < cur => Kept(v)
    /\ at = "tar" => \A v \in VMs : Kept(v)

AInv ==
    TypeOK /\ OthersIdle /\ EarlierKept /\ Stage(cur) /\ ArchiveComplete

(***************************************************************************)
(* Steps of qemu, the copies and the user.                                 *)
(***************************************************************************)

Around(v) ==
    \/ Execute(v) \/ MigrationCompletes(v) \/ MigrationFails(v)
    \/ GuestRuns(v) \/ QemuExits(v) \/ CopyEnds(v) \/ CopyFails(v)

\* The step is not about this VM.
Untouched(v) ==
    /\ version'[v] = version[v] /\ paused'[v] = paused[v] /\ mig'[v] = mig[v]
    /\ stateFile'[v] = stateFile[v] /\ cmds'[v] = cmds[v] /\ outs'[v] = outs[v]
    /\ broken'[v] = broken[v] /\ copy'[v] = copy[v] /\ copyFile'[v] = copyFile[v]

LEMMA AroundOther ==
    ASSUME TypeOK, NEW v \in VMs, NEW w \in VMs, Around(w), v # w
    PROVE  Untouched(v)
  BY DEF TypeOK, Around, Untouched, Execute, MigrationCompletes, MigrationFails, GuestRuns,
         QemuExits, CopyEnds, CopyFails, guest, qemu, disk, files, launcher, rest

LEMMA AroundFrame ==
    ASSUME NEW w \in VMs, Around(w)
    PROVE  UNCHANGED <<launcher, tar, tarWhole>>
  BY DEF Around, Execute, MigrationCompletes, MigrationFails, GuestRuns, QemuExits, CopyEnds,
         CopyFails, files, launcher

\* The stop that ends the commands still ends them when the first is executed.
LEMMA TailStop ==
    ASSUME NEW s \in Seq(Commands), s # <<>>, Len(s) # 1, s[Len(s)] = "stop",
           \A k \in 1 .. Len(s) - 1 : s[k] = "cont"
    PROVE  /\ s[1] = "cont" /\ Tail(s) # <<>> /\ Tail(s)[Len(Tail(s))] = "stop"
           /\ \A k \in 1 .. Len(Tail(s)) - 1 : Tail(s)[k] = "cont"
<1>1. /\ Len(s) \in Nat /\ Len(s) > 1 /\ Len(Tail(s)) = Len(s) - 1
      /\ \A k \in 1 .. Len(Tail(s)) : Tail(s)[k] = s[k + 1]
  <2>1. Len(s) \in Nat /\ Len(s) # 0
    BY EmptySeq
  <2>2. \A n \in Nat : n # 0 /\ n # 1 => n > 1
    OBVIOUS
  <2>. QED
    BY <2>1, <2>2, HeadTailProperties, Zenon
<1>2. Tail(s) # <<>>
  <2>1. Len(Tail(s)) # 0
    BY <1>1
  <2>. QED
    BY <2>1, EmptySeq, Zenon
<1>. QED
  BY <1>1, <1>2

LEMMA TailAsks ==
    ASSUME NEW s \in Seq(Commands), s # <<>>, \A k \in 2 .. Len(s) : s[k] = "info"
    PROVE  \A k \in 1 .. Len(Tail(s)) : Tail(s)[k] = "info"
<1>1. /\ Len(s) \in Nat /\ Len(Tail(s)) = Len(s) - 1
      /\ \A k \in 1 .. Len(Tail(s)) : Tail(s)[k] = s[k + 1]
  BY HeadTailProperties
<1>. QED
  BY <1>1

\* What Execute does to the monitor, in terms of the sequence's elements.
LEMMA ExecuteMonitor ==
    ASSUME TypeOK, NEW v \in VMs, Execute(v)
    PROVE  /\ ~broken[v] /\ ~Held(v) /\ cmds[v] # <<>> /\ broken'[v] = broken[v]
           /\ cmds'[v] = Tail(cmds[v]) /\ Len(cmds[v]) \in Nat \ {0}
           /\ Len(cmds'[v]) = Len(cmds[v]) - 1
           /\ \A k \in 1 .. Len(cmds'[v]) : cmds'[v][k] = cmds[v][k + 1]
           /\ Len(cmds[v]) = 1 => cmds'[v] = <<>>
           /\ paused'[v] = (cmds[v][1] = "stop" \/ (paused[v] /\ cmds[v][1] # "cont"))
           /\ mig'[v] = IF cmds[v][1] = "migrate" THEN "active" ELSE mig[v]
           /\ cmds[v][1] = "info" => outs'[v] = Append(outs[v], mig[v])
           /\ cmds[v][1] = "network" => outs'[v] = Append(outs[v], "macs")
           /\ cmds[v][1] \notin {"info", "network"} => outs'[v] = outs[v]
           /\ UNCHANGED <<version, stateFile, copy, copyFile>>
<1>1. cmds[v] \in Seq(Commands) /\ cmds[v] # <<>> /\ cmds'[v] = Tail(cmds[v])
  BY DEF TypeOK, Execute
<1>2. /\ Len(cmds[v]) \in Nat \ {0} /\ Head(cmds[v]) = cmds[v][1]
      /\ Len(cmds'[v]) = Len(cmds[v]) - 1
      /\ \A k \in 1 .. Len(cmds'[v]) : cmds'[v][k] = cmds[v][k + 1]
      /\ Len(cmds[v]) = 1 => cmds'[v] = <<>>
  <2>1. Len(cmds[v]) = 1 => Len(Tail(cmds[v])) = 0 /\ Tail(cmds[v]) \in Seq(Commands)
    BY <1>1, HeadTailProperties
  <2>2. Len(cmds[v]) = 1 => cmds'[v] = <<>>
    BY <1>1, <2>1, EmptySeq
  <2>. QED
    BY <1>1, <2>2, HeadTailProperties
<1>. QED
  BY <1>1, <1>2 DEF TypeOK, Execute, disk

LEMMA IdleAround ==
    ASSUME TypeOK, NEW v \in VMs, Around(v), Idle(v)
    PROVE  Idle(v)'
<1>1. CASE Execute(v)
  BY <1>1, ExecuteMonitor DEF Idle, Held
<1>2. CASE MigrationCompletes(v) \/ MigrationFails(v) \/ GuestRuns(v)
  BY <1>2 DEF TypeOK, MigrationCompletes, MigrationFails, GuestRuns, Idle, Held
<1>3. CASE QemuExits(v) \/ CopyEnds(v) \/ CopyFails(v)
  BY <1>3 DEF TypeOK, QemuExits, CopyEnds, CopyFails, Idle, Held, guest, qemu
<1>. QED
  BY <1>1, <1>2, <1>3 DEF Around

\* Only a migration or a running copy writes the files.
LEMMA FilesAround ==
    ASSUME TypeOK, NEW v \in VMs, Around(v), FilesMatch(v), broken[v] \/ ~Held(v)
    PROVE  FilesMatch(v)'
  BY DEF TypeOK, FilesMatch, Around, Execute, MigrationCompletes, MigrationFails, GuestRuns,
         QemuExits, CopyEnds, CopyFails, Held, guest, qemu, disk

LEMMA CopyingAround ==
    ASSUME TypeOK, NEW v \in VMs, Around(v), Copying(v), paused[v]
    PROVE  Copying(v)'
  BY DEF TypeOK, Copying, Around, Execute, MigrationCompletes, MigrationFails, GuestRuns,
         QemuExits, CopyEnds, CopyFails, guest, qemu, disk

LEMMA StoppingAround ==
    ASSUME TypeOK, NEW v \in VMs, Around(v), broken[v] \/ Stopping(v)
    PROVE  (broken[v] \/ Stopping(v))'
<1>1. CASE Execute(v)
  <2>1. Stopping(v)
    BY <1>1, ExecuteMonitor
  <2>2. CASE Len(cmds[v]) = 1
    BY <1>1, <2>1, <2>2, ExecuteMonitor DEF Stopping, Held
  <2>3. CASE Len(cmds[v]) # 1
    <3>1. /\ cmds[v] \in Seq(Commands) /\ cmds[v] # <<>> /\ cmds'[v] = Tail(cmds[v])
          /\ cmds[v][Len(cmds[v])] = "stop"
          /\ \A k \in 1 .. Len(cmds[v]) - 1 : cmds[v][k] = "cont"
      BY <1>1, <2>1, ExecuteMonitor DEF Stopping, TypeOK
    <3>3. /\ cmds'[v] # <<>> /\ cmds'[v][Len(cmds'[v])] = "stop"
          /\ \A k \in 1 .. Len(cmds'[v]) - 1 : cmds'[v][k] = "cont"
      BY <2>3, <3>1, TailStop
    <3>4. cmds[v][1] = "cont"
      BY <2>3, <3>1, TailStop
    <3>5. mig'[v] = mig[v] /\ outs'[v] = outs[v] /\ broken'[v] = broken[v]
      BY <1>1, <3>4, ExecuteMonitor
    <3>. QED
      BY <2>1, <3>3, <3>5 DEF Stopping, Held
  <2>. QED
    BY <2>2, <2>3
<1>2. CASE MigrationCompletes(v) \/ MigrationFails(v) \/ GuestRuns(v)
  BY <1>2 DEF TypeOK, MigrationCompletes, MigrationFails, GuestRuns, Stopping, Held
<1>3. CASE QemuExits(v) \/ CopyEnds(v) \/ CopyFails(v)
  BY <1>3 DEF TypeOK, QemuExits, CopyEnds, CopyFails, Stopping, Held, guest, qemu
<1>. QED
  BY <1>1, <1>2, <1>3 DEF Around

LEMMA MigrationAround ==
    ASSUME TypeOK, NEW v \in VMs, Around(v), paused[v], MigrationOf(v)
    PROVE  paused'[v] /\ MigrationOf(v)'
<1>1. CASE Execute(v)
  <2>1. CASE cmds[v][1] = "migrate"
    <3>1. outs[v] = <<>> /\ Asks(v, 2)
      BY <1>1, <2>1, ExecuteMonitor DEF MigrationOf, Asks
    <3>2. Asks(v, 1)'
      <4>1. cmds[v] \in Seq(Commands) /\ cmds[v] # <<>> /\ cmds'[v] = Tail(cmds[v])
        BY <1>1, ExecuteMonitor DEF TypeOK
      <4>. QED
        BY <3>1, <4>1, TailAsks DEF Asks
    <3>3. mig'[v] = "active" /\ outs'[v] = <<>> /\ paused'[v]
      BY <1>1, <2>1, <3>1, ExecuteMonitor
    <3>. QED
      BY <3>2, <3>3 DEF MigrationOf
  <2>2. CASE cmds[v][1] # "migrate"
    <3>1. /\ mig[v] \in {"completed", "failed"} /\ Asks(v, 1) /\ cmds[v][1] = "info"
          /\ \A k \in 1 .. Len(outs[v]) : outs[v][k] = mig[v]
          /\ mig[v] = "completed" => stateFile[v] = version[v]
      BY <1>1, <2>2, ExecuteMonitor DEF MigrationOf, Asks, Held
    <3>2. \A k \in 1 .. Len(outs'[v]) : outs'[v][k] = mig[v]
      <4>1. outs[v] \in Seq(Outputs) /\ mig[v] \in Outputs
        BY <3>1 DEF TypeOK, Outputs
      <4>2. outs'[v] = Append(outs[v], mig[v])
        BY <1>1, <3>1, ExecuteMonitor
      <4>3. \A k \in 1 .. Len(Append(outs[v], mig[v])) : Append(outs[v], mig[v])[k] = mig[v]
        BY <3>1, <4>1, AppendProperties
      <4>. QED
        BY <4>2, <4>3
    <3>3. Asks(v, 1)'
      <4>1. cmds[v] \in Seq(Commands) /\ cmds[v] # <<>> /\ cmds'[v] = Tail(cmds[v])
        BY <1>1, ExecuteMonitor DEF TypeOK
      <4>. QED
        BY <3>1, <4>1, TailAsks DEF Asks
    <3>. QED
      BY <1>1, <3>1, <3>2, <3>3, ExecuteMonitor DEF MigrationOf
  <2>. QED
    BY <2>1, <2>2
<1>2. CASE MigrationCompletes(v) \/ MigrationFails(v)
  <2>1. mig[v] = "active" /\ outs[v] = <<>> /\ Asks(v, 1)
    BY <1>2 DEF MigrationCompletes, MigrationFails, MigrationOf, Held
  <2>. QED
    BY <1>2, <2>1 DEF TypeOK, MigrationCompletes, MigrationFails, MigrationOf, Asks
<1>3. CASE GuestRuns(v) \/ QemuExits(v) \/ CopyEnds(v) \/ CopyFails(v)
  BY <1>3 DEF TypeOK, GuestRuns, QemuExits, CopyEnds, CopyFails, MigrationOf, Asks, Held, guest,
              qemu, disk
<1>. QED
  BY <1>1, <1>2, <1>3 DEF Around

LEMMA SilentAround ==
    ASSUME TypeOK, NEW v \in VMs, Around(v), broken[v] \/ Silent(v)
    PROVE  /\ (broken[v] \/ Silent(v))'
           /\ broken[v] => broken'[v]
           /\ paused[v] => paused'[v]
           /\ paused[v] => stateFile'[v] = stateFile[v] /\ version'[v] = version[v]
  BY DEF TypeOK, Silent, Around, Execute, MigrationCompletes, MigrationFails, GuestRuns,
         QemuExits, CopyEnds, CopyFails, Held, guest, qemu, disk

LEMMA AskingAround ==
    ASSUME TypeOK, NEW v \in VMs, Around(v), broken[v] \/ AskingMacs(v)
    PROVE  (broken[v] \/ AskingMacs(v))'
<1>1. CASE Execute(v)
  <2>1. cmds[v] = <<"network">> /\ outs[v] = <<>>
    BY <1>1, ExecuteMonitor DEF AskingMacs
  <2>2. outs'[v] = <<"macs">> /\ cmds'[v] = <<>>
    BY <1>1, <2>1, ExecuteMonitor
  <2>. QED
    BY <1>1, <2>1, <2>2, ExecuteMonitor DEF AskingMacs, Held
<1>2. CASE MigrationCompletes(v) \/ MigrationFails(v) \/ GuestRuns(v)
  BY <1>2 DEF TypeOK, MigrationCompletes, MigrationFails, GuestRuns, AskingMacs, Held
<1>3. CASE QemuExits(v) \/ CopyEnds(v) \/ CopyFails(v)
  BY <1>3 DEF TypeOK, QemuExits, CopyEnds, CopyFails, AskingMacs, Held, guest, qemu
<1>. QED
  BY <1>1, <1>2, <1>3 DEF Around

LEMMA UntouchedSame ==
    ASSUME NEW v \in VMs, Untouched(v)
    PROVE  /\ Idle(v) => Idle(v)'
           /\ FilesMatch(v) => FilesMatch(v)'
           /\ (macs \subseteq macs') /\ Kept(v) => Kept(v)'
           /\ UNCHANGED <<at, failed, macs>> /\ Stage(v) => Stage(v)'
  BY DEF Untouched, Idle, FilesMatch, Kept, Stage, Copying, MigrationOf, Asks, Silent, Stopping,
         AskingMacs, Held

LEMMA StageAround ==
    ASSUME TypeOK, NEW v \in VMs, Around(v), Stage(v)
    PROVE  Stage(v)'
<1>1. UNCHANGED <<at, failed, macs>>
  BY AroundFrame DEF launcher, rest
<1>2. CASE at = "migrate"
  BY <1>1, <1>2, StoppingAround DEF Stage
<1>3. CASE at \in {"copy", "poll", "read"}
  BY <1>1, <1>3, MigrationAround, CopyingAround DEF Stage
<1>4. CASE at = "join"
  <2>1. paused[v] /\ (broken[v] \/ Silent(v)) /\ Copying(v)
    BY <1>4 DEF Stage
  <2>2. /\ (broken[v] \/ Silent(v))' /\ paused'[v] /\ Copying(v)'
        /\ stateFile'[v] = stateFile[v] /\ version'[v] = version[v]
    BY <2>1, SilentAround, CopyingAround
  <2>. QED
    BY <1>1, <1>4, <2>2 DEF Stage
<1>5. CASE at \in {"network", "macs", "cont"}
  <2>1. broken[v] \/ ~Held(v)
    BY <1>5 DEF Stage, Silent, AskingMacs
  <2>2. FilesMatch(v)'
    BY <1>5, <2>1, FilesAround DEF Stage
  <2>3. at = "network" => (broken[v] \/ Silent(v))'
    BY SilentAround DEF Stage
  <2>4. at = "macs" => (broken[v] \/ AskingMacs(v))'
    BY AskingAround DEF Stage
  <2>5. at = "cont" => (broken[v] \/ (Silent(v) /\ v \in macs))'
    <3>. SUFFICES ASSUME at = "cont" PROVE (broken[v] \/ (Silent(v) /\ v \in macs))'
      OBVIOUS
    <3>1. broken[v] \/ (Silent(v) /\ v \in macs)
      BY DEF Stage
    <3>. QED
      BY <1>1, <3>1, SilentAround
  <2>. QED
    BY <1>1, <1>5, <2>2, <2>3, <2>4, <2>5 DEF Stage
<1>. QED
  BY <1>1, <1>2, <1>3, <1>4, <1>5 DEF Stage

LEMMA AroundStep ==
    ASSUME AInv, NEW w \in VMs, Around(w)
    PROVE  OthersIdle' /\ EarlierKept' /\ Stage(cur)' /\ ArchiveComplete'
<1>. USE DEF AInv
<1>1. UNCHANGED <<at, cur, failed, macs, tar, tarWhole>> /\ TypeOK /\ cur \in VMs
  BY AroundFrame DEF launcher, rest, TypeOK
<1>2. ASSUME NEW v \in VMs, Idle(v)
      PROVE  Idle(v)' /\ (Kept(v) => Kept(v)')
  <2>1. CASE v = w
    BY <1>1, <1>2, <2>1, IdleAround, FilesAround DEF Kept, Idle
  <2>2. CASE v # w
    BY <1>1, <1>2, <2>2, AroundOther, UntouchedSame
  <2>. QED
    BY <2>1, <2>2
<1>3. OthersIdle'
  BY <1>1, <1>2 DEF OthersIdle
<1>4. EarlierKept'
  <2>1. ASSUME NEW v \in VMs, v < cur \/ at = "tar"
        PROVE  Idle(v)
    BY <1>1, <2>1 DEF OthersIdle, VMs
  <2>. QED
    BY <1>1, <1>2, <2>1 DEF EarlierKept
<1>5. Stage(cur)'
  <2>1. CASE cur = w
    BY <1>1, <2>1, StageAround
  <2>2. CASE cur # w
    BY <1>1, <2>2, AroundOther, UntouchedSame
  <2>. QED
    BY <1>1, <2>1, <2>2
<1>6. ArchiveComplete'
  BY <1>1 DEF ArchiveComplete, SnapshotSound, DevicesSaved
<1>. QED
  BY <1>3, <1>4, <1>5, <1>6

(***************************************************************************)
(* Steps of the launcher.                                                  *)
(***************************************************************************)

\* Sending a command touches only the monitor of the VM being saved.
LEMMA SendMonitor ==
    ASSUME TypeOK, NEW c \in Commands, Send(c), UNCHANGED <<guest, outs, broken, disk>>
    PROVE  /\ ~broken[cur] /\ cmds[cur] \in Seq(Commands)
           /\ cmds'[cur] = Append(cmds[cur], c)
           /\ Len(cmds[cur]) \in Nat /\ Len(cmds'[cur]) = Len(cmds[cur]) + 1
           /\ cmds'[cur][Len(cmds[cur]) + 1] = c
           /\ \A k \in 1 .. Len(cmds[cur]) : cmds'[cur][k] = cmds[cur][k]
           /\ cmds'[cur] # <<>>
           /\ \A v \in VMs : v # cur => Untouched(v)
           /\ UNCHANGED <<version, paused, mig, stateFile, outs, broken, copy, copyFile>>
<1>1. cmds[cur] \in Seq(Commands) /\ cmds'[cur] = Append(cmds[cur], c)
  BY DEF TypeOK, Send
<1>2. /\ Len(cmds[cur]) \in Nat /\ Len(cmds'[cur]) = Len(cmds[cur]) + 1
      /\ cmds'[cur][Len(cmds[cur]) + 1] = c
      /\ \A k \in 1 .. Len(cmds[cur]) : cmds'[cur][k] = cmds[cur][k]
  BY <1>1, AppendProperties
<1>3. cmds'[cur] # <<>>
  BY <1>1, AppendProperties
<1>. QED
  BY <1>1, <1>2, <1>3 DEF TypeOK, Send, Untouched, guest, disk

\* A read takes everything there is, when qemu is as quick as the launcher.
LEMMA ReadMonitor ==
    ASSUME Prompt, TypeOK, NEW k \in 0 .. Len(outs[cur]), Read(k),
           UNCHANGED <<guest, cmds, broken, disk>>
    PROVE  /\ k = Len(outs[cur]) /\ outs'[cur] = <<>>
           /\ broken[cur] \/ cmds[cur] = <<>> \/ Held(cur)
           /\ \A v \in VMs : v # cur => Untouched(v)
           /\ UNCHANGED <<version, paused, mig, stateFile, cmds, broken, copy, copyFile>>
<1>1. outs[cur] \in Seq(Outputs) /\ k = Len(outs[cur]) /\ k \in Nat
  BY DEF TypeOK, Read
<1>2. outs'[cur] = SubSeq(outs[cur], k + 1, k)
  BY <1>1 DEF Read, TypeOK
<1>3. outs'[cur] = <<>>
  BY <1>1, <1>2, SubSeqProperties, EmptySeq
<1>. QED
  BY <1>1, <1>3 DEF TypeOK, Read, Slept, Untouched, guest, disk

LEMMA BeginStep ==
    ASSUME AInv, Begin
    PROVE  OthersIdle' /\ EarlierKept' /\ Stage(cur)' /\ ArchiveComplete'
<1>1. \A v \in VMs : Idle(v)'
  BY DEF AInv, TypeOK, OthersIdle, Begin, Idle, Held
<1>2. at' = "stop" /\ cur' = 1 /\ UNCHANGED <<tar, tarWhole>>
  BY DEF Begin, files
<1>3. EarlierKept'
  BY <1>2 DEF EarlierKept, VMs
<1>. QED
  BY <1>1, <1>2, <1>3 DEF AInv, OthersIdle, Stage, ArchiveComplete, SnapshotSound, DevicesSaved

\* Within one VM, the launcher disturbs neither the others nor what is saved.
LEMMA WithinVM ==
    ASSUME AInv, \A v \in VMs : v # cur => Untouched(v), macs \subseteq macs', cur' = cur,
           UNCHANGED <<tar, tarWhole>>,
           at \notin {"loop", "recover", "tar", "remove"},
           at' \notin {"loop", "stop", "recover", "tar", "remove"}
    PROVE  OthersIdle' /\ EarlierKept' /\ ArchiveComplete'
<1>1. \A v \in VMs : v # cur => Idle(v)'
  BY UntouchedSame DEF AInv, OthersIdle
<1>2. \A v \in VMs : v < cur => Kept(v)'
  BY UntouchedSame DEF AInv, EarlierKept, TypeOK, VMs
<1>. QED
  BY <1>1, <1>2 DEF AInv, OthersIdle, EarlierKept, ArchiveComplete, SnapshotSound, DevicesSaved

LEMMA StopSteps ==
    ASSUME Prompt, AInv, SendStop \/ SendMigrate \/ StartCopy
    PROVE  OthersIdle' /\ EarlierKept' /\ Stage(cur)' /\ ArchiveComplete'
<1>. USE DEF AInv
<1>1. TypeOK /\ cur \in VMs /\ Stage(cur) /\ "stop" \in Commands /\ "migrate" \in Commands
  BY DEF TypeOK, Commands
<1>2. CASE SendStop
  <2>1. cur' = cur /\ macs' = macs /\ UNCHANGED <<tar, tarWhole>> /\ at = "stop"
        /\ at' = "migrate" /\ Send("stop") /\ UNCHANGED <<guest, outs, broken, disk>>
    BY <1>2 DEF SendStop, rest, files
  <2>2. Idle(cur)
    BY <1>1, <2>1 DEF OthersIdle
  <2>3. Stopping(cur)'
    BY <1>1, <2>1, <2>2, SendMonitor DEF Idle, Stopping, Held
  <2>. QED
    BY <1>1, <2>1, <2>3, SendMonitor, WithinVM DEF Stage
<1>3. CASE SendMigrate
  <2>1. cur' = cur /\ macs' = macs /\ UNCHANGED <<tar, tarWhole>> /\ at = "migrate"
        /\ at' = "copy" /\ Send("migrate") /\ UNCHANGED <<guest, outs, broken, disk>>
    BY <1>3 DEF SendMigrate, rest, files
  <2>2. ~broken[cur] /\ Stopping(cur) /\ cmds[cur] = <<>>
    BY <1>1, <1>3, <2>1 DEF Send, SendMigrate, Slept, Stage, Stopping
  <2>3. Len(cmds'[cur]) = 1 /\ cmds'[cur][1] = "migrate" /\ cmds'[cur] # <<>>
    BY <1>1, <2>1, <2>2, SendMonitor
  <2>4. paused'[cur] /\ MigrationOf(cur)'
    BY <1>1, <2>1, <2>2, <2>3, SendMonitor DEF Stopping, MigrationOf, Asks, Held
  <2>. QED
    BY <1>1, <2>1, <2>4, SendMonitor, WithinVM DEF Stage
<1>4. CASE StartCopy
  <2>1. /\ cur' = cur /\ macs' = macs /\ UNCHANGED <<tar, tarWhole>> /\ at = "copy"
        /\ at' = "poll" /\ UNCHANGED <<guest, cmds, outs, broken>>
    BY <1>4 DEF StartCopy, rest, files, qemu
  <2>2. \A v \in VMs : v # cur => Untouched(v)
    BY <1>1, <1>4, <2>1 DEF StartCopy, TypeOK, Untouched, guest
  <2>3. Copying(cur)'
    BY <1>1, <1>4, <2>1 DEF StartCopy, TypeOK, Copying, guest
  <2>4. paused'[cur] /\ MigrationOf(cur)'
    BY <1>1, <2>1 DEF Stage, MigrationOf, Asks, Held, guest
  <2>. QED
    BY <2>1, <2>2, <2>3, <2>4, WithinVM DEF Stage
<1>. QED
  BY <1>2, <1>3, <1>4

LEMMA PollSteps ==
    ASSUME Prompt, ~SlowMigration, AInv, SendInfo \/ ReadInfo \/ Timeout \/ SendNetwork \/ ReadMacs
    PROVE  OthersIdle' /\ EarlierKept' /\ Stage(cur)' /\ ArchiveComplete'
<1>. USE DEF AInv
<1>1. TypeOK /\ cur \in VMs /\ Stage(cur) /\ "info" \in Commands /\ "network" \in Commands
  BY DEF TypeOK, Commands
<1>2. CASE SendInfo
  <2>1. cur' = cur /\ macs' = macs /\ UNCHANGED <<tar, tarWhole>> /\ at = "poll"
        /\ at' = "read" /\ Send("info") /\ UNCHANGED <<guest, outs, broken, disk>>
    BY <1>2 DEF SendInfo, rest, files
  <2>2. \A i \in {1, 2} : Asks(cur, i) => Asks(cur, i)'
    BY <1>1, <2>1, SendMonitor DEF Asks
  <2>3. /\ paused'[cur] /\ (Held(cur)' <=> Held(cur)) /\ UNCHANGED <<mig, outs, stateFile, version>>
        /\ cmds[cur] # <<>> => cmds'[cur] # <<>> /\ cmds'[cur][1] = cmds[cur][1]
    <3>1. cmds[cur] # <<>> => 1 \in 1 .. Len(cmds[cur])
      BY <1>1, EmptySeq DEF TypeOK
    <3>. QED
      BY <1>1, <2>1, <3>1, SendMonitor DEF Stage, Held
  <2>4. MigrationOf(cur)'
    BY <1>1, <2>1, <2>2, <2>3 DEF Stage, MigrationOf
  <2>5. Copying(cur)'
    BY <1>1, <2>1, SendMonitor DEF Stage, Copying
  <2>. QED
    BY <1>1, <2>1, <2>3, <2>4, <2>5, SendMonitor, WithinVM DEF Stage
<1>3. CASE ReadInfo
  <2>1. PICK k \in 0 .. Len(outs[cur]) :
           /\ Read(k)
           /\ at' = IF Says(k, "completed") \/ Says(k, "failed") THEN "join" ELSE "poll"
           /\ failed' = (~Says(k, "completed") /\ Says(k, "failed"))
    BY <1>3 DEF ReadInfo
  <2>2. cur' = cur /\ macs' = macs /\ UNCHANGED <<tar, tarWhole>> /\ at = "read"
        /\ UNCHANGED <<guest, cmds, broken, disk>>
    BY <1>3 DEF ReadInfo, files
  <2>3. paused[cur] /\ MigrationOf(cur) /\ Copying(cur)
    BY <1>1, <2>2 DEF Stage
  <2>4. /\ k = Len(outs[cur]) /\ outs'[cur] = <<>> /\ paused'[cur] /\ Copying(cur)'
        /\ \A v \in VMs : v # cur => Untouched(v)
    BY <1>1, <2>1, <2>2, <2>3, ReadMonitor DEF Copying
  <2>5. CASE at' = "poll"
    <3>1. MigrationOf(cur)'
      BY <1>1, <2>1, <2>2, <2>3, <2>4, ReadMonitor DEF MigrationOf, Asks, Held
    <3>. QED
      BY <2>2, <2>4, <2>5, <3>1, WithinVM DEF Stage
  <2>6. CASE at' = "join"
    <3>1. Says(k, "completed") \/ Says(k, "failed")
      BY <2>1, <2>6
    <3>2. /\ mig[cur] \in {"completed", "failed"} /\ \A n \in 1 .. k : outs[cur][n] = mig[cur]
          /\ mig[cur] = "completed" => stateFile[cur] = version[cur]
      BY <2>3, <2>4, <3>1 DEF MigrationOf, Says
    <3>3. ~failed' => stateFile'[cur] = version'[cur]
      BY <1>1, <2>1, <2>2, <3>1, <3>2, ReadMonitor DEF Says
    <3>4. (broken[cur] \/ Silent(cur))'
      BY <1>1, <2>1, <2>2, <3>2, ReadMonitor DEF Silent, Held
    <3>. QED
      BY <2>2, <2>4, <2>6, <3>3, <3>4, WithinVM DEF Stage
  <2>. QED
    BY <2>1, <2>5, <2>6
<1>4. CASE Timeout
  BY <1>4 DEF Timeout
<1>5. CASE SendNetwork
  <2>1. cur' = cur /\ macs' = macs /\ UNCHANGED <<tar, tarWhole>> /\ at = "network"
        /\ at' = "macs" /\ Send("network") /\ UNCHANGED <<guest, outs, broken, disk>>
    BY <1>5 DEF SendNetwork, rest, files
  <2>2. Silent(cur) /\ FilesMatch(cur) /\ cmds'[cur] = Append(<<>>, "network")
    BY <1>1, <2>1, SendMonitor DEF Stage, Silent
  <2>3. cmds'[cur] = <<"network">>
    BY <2>2
  <2>4. AskingMacs(cur)' /\ FilesMatch(cur)'
    BY <1>1, <2>1, <2>2, <2>3, SendMonitor DEF AskingMacs, FilesMatch, Silent, Held
  <2>. QED
    BY <1>1, <2>1, <2>4, SendMonitor, WithinVM DEF Stage
<1>6. CASE ReadMacs
  <2>1. PICK k \in 0 .. Len(outs[cur]) :
           Read(k) /\ macs' = IF Says(k, "macs") THEN macs \cup {cur} ELSE macs
    BY <1>6 DEF ReadMacs
  <2>2. cur' = cur /\ UNCHANGED <<tar, tarWhole>> /\ at = "macs" /\ at' = "cont"
        /\ UNCHANGED <<guest, cmds, broken, disk>>
    BY <1>6 DEF ReadMacs, files
  <2>3. FilesMatch(cur)' /\ macs \subseteq macs'
    BY <1>1, <2>1, <2>2, ReadMonitor DEF Stage, FilesMatch
  <2>4. ASSUME ~broken'[cur] PROVE Silent(cur)' /\ cur \in macs'
    <3>1. ~broken[cur] /\ AskingMacs(cur)
      BY <1>1, <2>2, <2>4 DEF Stage
    <3>0. k = Len(outs[cur]) /\ (cmds[cur] = <<>> \/ Held(cur))
      BY <1>1, <2>1, <2>2, <3>1, ReadMonitor
    <3>2. cmds[cur] = <<>> /\ outs[cur] = <<"macs">>
      BY <3>0, <3>1 DEF AskingMacs
    <3>4. k = 1
      BY <3>0, <3>2
    <3>3. Says(k, "macs")
      BY <3>2, <3>4 DEF Says
    <3>. QED
      BY <1>1, <2>1, <2>2, <3>1, <3>2, <3>3, ReadMonitor DEF AskingMacs, Silent, Held
  <2>. QED
    BY <1>1, <2>1, <2>2, <2>3, <2>4, ReadMonitor, WithinVM DEF Stage
<1>. QED
  BY <1>2, <1>3, <1>4, <1>5, <1>6

\* The launcher gives up a VM whose monitor is gone or holds nothing more.
LEMMA GiveUp ==
    ASSUME AInv, at \notin {"loop"}, at' \in {"recover", "remove", "loop"}, cur' = cur,
           UNCHANGED <<tar, tarWhole>>, Idle(cur)',
           \A v \in VMs : v # cur => Untouched(v)
    PROVE  OthersIdle' /\ EarlierKept' /\ Stage(cur)' /\ ArchiveComplete'
<1>1. \A v \in VMs : Idle(v)'
  BY UntouchedSame DEF AInv, OthersIdle
<1>. QED
  BY <1>1 DEF AInv, OthersIdle, EarlierKept, Stage, ArchiveComplete, SnapshotSound, DevicesSaved

LEMMA FailureSteps ==
    ASSUME AInv, Join \/ MonitorRaises \/ MetadataRaises \/ Recover \/ RemoveRequest
    PROVE  OthersIdle' /\ EarlierKept' /\ Stage(cur)' /\ ArchiveComplete'
<1>. USE DEF AInv
<1>1. TypeOK /\ cur \in VMs /\ Stage(cur) /\ "cont" \in Commands
  BY DEF TypeOK, Commands
<1>2. CASE Join
  <2>1. /\ UNCHANGED <<cur, failed, macs, tar, tarWhole>> /\ UNCHANGED <<qemu, disk>> /\ at = "join"
        /\ copy[cur] # "running"
        /\ at' = IF failed \/ copy[cur] = "failed" THEN "recover" ELSE "network"
    BY <1>2 DEF Join, rest, files
  <2>2. \A v \in VMs : v # cur => Untouched(v)
    BY <2>1 DEF Untouched, qemu, guest, disk
  <2>3. broken[cur] \/ Silent(cur)
    BY <1>1, <2>1 DEF Stage
  <2>4. CASE at' = "recover"
    <3>1. Idle(cur)'
      BY <2>1, <2>3 DEF Silent, Idle, Held, qemu, guest
    <3>. QED
      BY <2>1, <2>2, <2>4, <3>1, GiveUp
  <2>5. CASE at' = "network"
    <3>1. FilesMatch(cur)
      <4>1. copy[cur] = "done" /\ copyFile[cur] = version[cur] /\ stateFile[cur] = version[cur]
        BY <1>1, <2>1, <2>5 DEF Stage, Copying
      <4>2. version[cur] # Torn
        BY <1>1 DEF TypeOK, Torn
      <4>. QED
        BY <4>1, <4>2 DEF FilesMatch
    <3>2. FilesMatch(cur)' /\ (broken[cur] \/ Silent(cur))'
      BY <2>1, <2>3, <3>1 DEF FilesMatch, Silent, Held, qemu, guest, disk
    <3>. QED
      BY <2>1, <2>2, <2>5, <3>2, WithinVM DEF Stage
  <2>. QED
    BY <2>1, <2>4, <2>5
<1>3. CASE MonitorRaises
  <2>1. /\ UNCHANGED <<cur, macs, tar, tarWhole>> /\ UNCHANGED <<qemu, disk>> /\ broken[cur]
        /\ at \in {"stop", "migrate", "poll", "read", "network", "macs", "cont"}
    BY <1>3 DEF MonitorRaises, files
  <2>2. \A v \in VMs : v # cur => Untouched(v)
    BY <2>1 DEF Untouched, qemu, guest, disk
  <2>3. broken'[cur] /\ Idle(cur)'
    BY <2>1 DEF Idle, qemu
  <2>4. CASE at' = "recover"
    BY <2>1, <2>2, <2>3, <2>4, GiveUp
  <2>5. CASE at \in {"poll", "read"} /\ at' = "join"
    <3>1. failed' /\ paused'[cur] /\ Copying(cur)'
      BY <1>1, <1>3, <2>1, <2>5 DEF MonitorRaises, Stage, Copying, qemu, guest, disk
    <3>. QED
      BY <2>1, <2>2, <2>3, <2>5, <3>1, WithinVM DEF Stage
  <2>6. CASE at \in {"network", "macs"} /\ at' = "cont"
    <3>1. FilesMatch(cur)'
      BY <1>1, <2>1, <2>6 DEF Stage, FilesMatch, qemu, guest, disk
    <3>. QED
      BY <2>1, <2>2, <2>3, <2>6, <3>1, WithinVM DEF Stage
  <2>. QED
    BY <1>3, <2>4, <2>5, <2>6 DEF MonitorRaises
<1>4. CASE MetadataRaises
  <2>1. UNCHANGED <<cur, macs, tar, tarWhole>> /\ UNCHANGED <<qemu, disk>> /\ at = "cont"
        /\ at' = "recover"
    BY <1>4 DEF MetadataRaises, rest, files
  <2>2. \A v \in VMs : v # cur => Untouched(v)
    BY <2>1 DEF Untouched, qemu, guest, disk
  <2>3. Idle(cur)'
    BY <1>1, <2>1 DEF Stage, Silent, Idle, Held, qemu, guest
  <2>. QED
    BY <2>1, <2>2, <2>3, GiveUp
<1>5. CASE Recover
  <2>1. UNCHANGED <<cur, macs, tar, tarWhole>> /\ at = "recover" /\ at' = "remove"
        /\ UNCHANGED <<guest, outs, broken, disk>>
    BY <1>5 DEF Recover, rest, files
  <2>2. Idle(cur)
    BY <1>1, <2>1 DEF OthersIdle
  <2>3. CASE Send("cont")
    BY <1>1, <2>1, <2>2, <2>3, SendMonitor, GiveUp DEF Idle, Held
  <2>4. CASE UNCHANGED cmds
    <3>1. \A v \in VMs : v # cur => Untouched(v)
      BY <2>1, <2>4 DEF Untouched, guest, disk
    <3>. QED
      BY <2>1, <2>2, <2>4, <3>1, GiveUp DEF Idle, Held, guest
  <2>. QED
    BY <1>5, <2>3, <2>4 DEF Recover
<1>6. CASE RemoveRequest
  <2>1. UNCHANGED <<cur, macs, tar, tarWhole>> /\ UNCHANGED <<qemu, disk>> /\ at = "remove"
        /\ at' = "loop"
    BY <1>6 DEF RemoveRequest, rest
  <2>2. \A v \in VMs : v # cur => Untouched(v)
    BY <2>1 DEF Untouched, qemu, guest, disk
  <2>3. Idle(cur)'
    BY <1>1, <2>1 DEF OthersIdle, Idle, Held, qemu, guest
  <2>. QED
    BY <2>1, <2>2, <2>3, GiveUp
<1>. QED
  BY <1>2, <1>3, <1>4, <1>5, <1>6

LEMMA ContStep ==
    ASSUME AInv, SendCont
    PROVE  OthersIdle' /\ EarlierKept' /\ Stage(cur)' /\ ArchiveComplete'
<1>. USE DEF AInv
<1>1. /\ TypeOK /\ cur \in VMs /\ Stage(cur) /\ "cont" \in Commands /\ at = "cont"
      /\ Send("cont") /\ UNCHANGED <<macs, tar, tarWhole>>
      /\ UNCHANGED <<guest, outs, broken, disk>>
      /\ \/ cur < N /\ cur' = cur + 1 /\ at' = "stop"
         \/ ~(cur < N) /\ cur' = cur /\ at' = "tar"
  BY DEF TypeOK, Commands, SendCont, files
<1>2. ~broken[cur] /\ Silent(cur) /\ Kept(cur) /\ \A v \in VMs : v # cur => Untouched(v)
  BY <1>1, SendMonitor DEF Stage, Kept
<1>3. ASSUME NEW v \in VMs, v = cur
      PROVE  Idle(v)' /\ Kept(v)'
  <2>1. Len(cmds'[v]) = 1 /\ cmds'[v][1] = "cont"
    BY <1>1, <1>2, <1>3, SendMonitor DEF Silent
  <2>2. UNCHANGED <<mig, stateFile, outs, broken, copy, copyFile>>
    BY <1>1, SendMonitor
  <2>3. Idle(v)'
    BY <1>2, <1>3, <2>1, <2>2 DEF Silent, Idle, Held
  <2>. QED
    BY <1>1, <1>2, <1>3, <2>2, <2>3 DEF Kept, FilesMatch
<1>4. \A v \in VMs : Idle(v)' /\ (v <= cur => Kept(v)')
  <2>. SUFFICES ASSUME NEW v \in VMs, v # cur
                PROVE  Idle(v)' /\ (v <= cur => Kept(v)')
    BY <1>3
  <2>1. Idle(v) /\ (v <= cur => Kept(v))
    BY <1>1 DEF OthersIdle, EarlierKept, VMs
  <2>. QED
    BY <1>1, <1>2, <2>1, UntouchedSame
<1>5. EarlierKept'
  <2>1. CASE cur < N /\ cur' = cur + 1 /\ at' = "stop"
    <3>1. \A v \in VMs : v < cur' => v <= cur
      BY <1>1, <2>1, SnapshotSaveAssumption DEF VMs
    <3>. QED
      BY <1>4, <2>1, <3>1 DEF EarlierKept
  <2>2. CASE ~(cur < N) /\ cur' = cur /\ at' = "tar"
    <3>1. \A v \in VMs : v <= cur
      BY <1>1, <2>2, SnapshotSaveAssumption DEF VMs
    <3>. QED
      BY <1>4, <2>2, <3>1 DEF EarlierKept
  <2>. QED
    BY <1>1, <2>1, <2>2
<1>. QED
  BY <1>1, <1>4, <1>5 DEF OthersIdle, Stage, ArchiveComplete, SnapshotSound, DevicesSaved

LEMMA TarSteps ==
    ASSUME AInv, Tar \/ TarRaises
    PROVE  OthersIdle' /\ EarlierKept' /\ Stage(cur)' /\ ArchiveComplete'
<1>. USE DEF AInv
<1>1. UNCHANGED <<cur, macs>> /\ UNCHANGED <<qemu, disk>> /\ at = "tar" /\ at' = "remove"
  BY DEF Tar, TarRaises, rest
<1>2. \A v \in VMs : Idle(v) /\ Kept(v)
  BY <1>1 DEF OthersIdle, EarlierKept
<1>3. \A v \in VMs : Idle(v)'
  BY <1>1, <1>2 DEF Idle, Held, qemu, guest
<1>4. ArchiveComplete'
  <2>1. CASE Tar
    <3>1. \A v \in VMs : tar'[v] = [state |-> stateFile[v], disk |-> copyFile[v],
                                   macs |-> v \in macs]
      BY <2>1 DEF Tar
    <3>2. ASSUME NEW v \in VMs
          PROVE  tar'[v].state = stateFile[v] /\ tar'[v].disk = copyFile[v] /\ tar'[v].macs
      <4>1. (v \in macs) = TRUE
        BY <1>2 DEF Kept
      <4>2. tar'[v] = [state |-> stateFile[v], disk |-> copyFile[v], macs |-> TRUE]
        BY <3>1, <4>1, Zenon
      <4>. QED
        BY <4>2
    <3>. QED
      BY <1>2, <3>2 DEF Kept, FilesMatch, ArchiveComplete, SnapshotSound, DevicesSaved
  <2>2. CASE TarRaises
    BY <2>2 DEF TarRaises, ArchiveComplete, SnapshotSound, DevicesSaved
  <2>. QED
    BY <2>1, <2>2
<1>. QED
  BY <1>1, <1>3, <1>4 DEF OthersIdle, EarlierKept, Stage

(***************************************************************************)
(* The theorem.                                                            *)
(***************************************************************************)

LEMMA AInvStep ==
    ASSUME Prompt, ~SlowMigration, AInv, [Next]_vars
    PROVE  AInv'
<1>1. TypeOK'
  BY TypeStep DEF AInv
<1>2. CASE Launcher
  BY <1>1, <1>2, BeginStep, StopSteps, PollSteps, FailureSteps, ContStep, TarSteps
     DEF Launcher, AInv
<1>3. ASSUME NEW w \in VMs, Around(w) PROVE AInv'
  BY <1>1, <1>3, AroundStep DEF AInv
<1>4. CASE Touch \/ UNCHANGED vars
  <2>1. UNCHANGED <<launcher, tar, tarWhole, qemu, disk>>
    BY <1>4 DEF Touch, vars, files
  <2>. QED
    BY <1>1, <2>1 DEF AInv, OthersIdle, EarlierKept, Stage, Idle, Kept, FilesMatch, Copying, Asks,
       MigrationOf, Silent, Stopping, AskingMacs, Held, ArchiveComplete, SnapshotSound,
       DevicesSaved, launcher, rest, qemu, guest, disk
<1>. QED
  BY <1>2, <1>3, <1>4 DEF Next, Qemu, Around

LEMMA InitAInv == Init => AInv
<1>1. Init => TypeOK
  BY InitIInv DEF IInv
<1>. QED
  BY <1>1 DEF Init, AInv, OthersIdle, Idle, Held, EarlierKept, Stage, ArchiveComplete,
              SnapshotSound, DevicesSaved

\* When qemu keeps up with the launcher and migrations end in time, a readable
\* archive holds memory, disk and network cards of one moment for every VM,
\* however many VMs, earlier snapshots and failures there were.
THEOREM ArchiveCompleteHolds ==
    ASSUME Prompt, ~SlowMigration
    PROVE  Spec => []ArchiveComplete
<1>1. AInv /\ [Next]_vars => AInv'
  BY AInvStep
<1>2. AInv => ArchiveComplete
  BY DEF AInv
<1>. QED
  BY <1>1, <1>2, InitAInv, PTL DEF Spec

=============================================================================
