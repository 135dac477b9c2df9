----------------------- MODULE SnapshotRestoreProofs -----------------------
(***************************************************************************)
(* Theorems about SnapshotRestore, for any number of containers, writes and *)
(* restarts.  The inductive invariant says which file lies on which, that   *)
(* what is extracted is what was mounted, and what the top file of the VM's *)
(* drive holds; what a guest reads follows from it.                         *)
(***************************************************************************)
EXTENDS SnapshotRestore, TLAPS

\* The overlay of a fresh container lies on the image, that of a restored one
\* on the extracted disk; nobody writes to the image.
FilesOnly ==
    /\ fs["image"] = [holds |-> {}, back |-> "nothing"]
    /\ restore => fs["overlay"] = None
    /\ fs["overlay"] # None => fs["overlay"].back = "image"
    /\ fs["snapOverlay"] # None => restore /\ fs["snapOverlay"].back = "snapDisk"

\* A snapshot of a VM that was not restored: its disk lies on the image, and
\* disks and memory are of one moment.
FreshSave(t) == t.disk.back = "image" /\ t.disk.holds = t.second /\ t.state = t.second

\* What is extracted is what was mounted, and stays until it is extracted anew.
Extracted ==
    /\ restore <=> mounted # None
    /\ ~restore => fs["snapDisk"] = None /\ stateImg = None
    /\ restore /\ at # "extract" =>
          /\ fs["snapDisk"] = mounted.disk
          /\ stateImg = mounted.state /\ saved = mounted.second
    /\ restore /\ fs["snapOverlay"] # None =>
          /\ fs["snapDisk"] = mounted.disk
          /\ stateImg = mounted.state /\ saved = mounted.second

\* The file the guest of this container writes to, and what it holds.
Top == IF restore THEN "snapOverlay" ELSE "overlay"

Own == IF fs[Top] = None THEN {} ELSE fs[Top].holds

\* VM.__init__() has made that file and named it in the arguments.
Drive ==
    at \in {"start", "run"} => drive = Top /\ fs[Top] # None

\* In a fresh container the overlay, the secondary disk and the memory agree.
Fresh ==
    ~restore => /\ second = Own /\ made = Own
                /\ at = "run" => ram = Own

\* In a restored one they agree until the VM is started again; the overlay holds
\* what was written since the snapshot.
Restored ==
    restore =>
      /\ made = mounted.state \cup Own
      /\ starts = 0 => Own = {} /\ (at = "start" => second = mounted.second)
      /\ at = "run" /\ starts = 1 =>
           /\ ram = mounted.state \cup Own
           /\ second = mounted.second \cup Own

\* The snapshot that was taken last, and the one that is restored: one of a VM
\* that was restored itself has the extracted disk behind its disk.
Tars ==
    \A t \in {tar, mounted} \ {None} :
        IF t.resaved THEN t.disk.back = "snapDisk" ELSE FreshSave(t)

\* A guest that runs was started, and its disk opened.
Started == at = "run" => starts > 0 /\ ~(restore /\ mounted.resaved)

\* The inductive invariant.
IInv == /\ TypeOK /\ FilesOnly /\ Extracted /\ Drive /\ Fresh /\ Restored
        /\ Started /\ Tars

\* A qcow2 file with other writes in it.
LEMMA WithHolds ==
    ASSUME NEW S, NEW T, NEW q \in [holds : S, back : T], NEW h
    PROVE  [q EXCEPT !.holds = h] = [holds |-> h, back |-> q.back]
OBVIOUS

\* What the guest of a fresh container reads.
LEMMA FreshContent ==
    ASSUME IInv, ~restore, at \in {"start", "run"}
    PROVE  /\ drive = "overlay"
           /\ Chain(drive) = {"overlay", "image"}
           /\ Content(drive) = Own
<1> USE DEF IInv, FilesOnly, Drive, Top
<1>1. drive = "overlay" /\ fs["overlay"] # None /\ fs["overlay"].back = "image"
  OBVIOUS
<1>2. fs["image"] = [holds |-> {}, back |-> "nothing"] /\ fs["image"] # None
  BY NoneAssumption DEF TypeOK, Qcow2, Paths
<1>3. /\ Behind("overlay") = "image" /\ Behind("image") = "nothing"
      /\ Behind("nothing") = "nothing"
  BY <1>1, <1>2 DEF Behind
<1>4. Chain(drive) = {"overlay", "image"}
  BY <1>1, <1>3 DEF Chain
<1>5. Content(drive) = Own
  BY <1>1, <1>2, <1>4 DEF Content, Own
<1> QED BY <1>1, <1>4, <1>5

\* The two files of a restored container: its overlay, on the mounted disk.
LEMMA RestoredFiles ==
    ASSUME IInv, restore, at \in {"start", "run"}
    PROVE  /\ drive = "snapOverlay"
           /\ fs["snapOverlay"] # None /\ fs["snapOverlay"].back = "snapDisk"
           /\ mounted # None /\ mounted \in Saved
           /\ fs["snapDisk"] = mounted.disk /\ fs["snapDisk"] # None
           /\ IF mounted.resaved THEN mounted.disk.back = "snapDisk"
                                 ELSE FreshSave(mounted)
<1> USE DEF IInv, FilesOnly, Drive, Top
<1>1. /\ drive = "snapOverlay"
      /\ fs["snapOverlay"] # None /\ fs["snapOverlay"].back = "snapDisk"
  OBVIOUS
<1>2. /\ mounted # None /\ mounted \in Saved
      /\ fs["snapDisk"] = mounted.disk /\ fs["snapDisk"] # None
  BY NoneAssumption DEF Extracted, TypeOK, Saved
<1>3. IF mounted.resaved THEN mounted.disk.back = "snapDisk"
                         ELSE FreshSave(mounted)
  BY <1>2 DEF Tars
<1> QED BY <1>1, <1>2, <1>3

\* What the guest of a restored container reads: the writes of the snapshot and
\* its own.
LEMMA RestoredContent ==
    ASSUME IInv, restore, at \in {"start", "run"}, ~mounted.resaved
    PROVE  /\ drive = "snapOverlay"
           /\ Chain(drive) = {"snapOverlay", "snapDisk", "image"}
           /\ fs["snapDisk"] # None
           /\ Content(drive) = mounted.state \cup Own
           /\ mounted.second = mounted.state
<1> USE DEF IInv, FilesOnly, Drive, Top
<1>1. /\ drive = "snapOverlay"
      /\ fs["snapOverlay"] # None /\ fs["snapOverlay"].back = "snapDisk"
      /\ fs["snapDisk"] = mounted.disk /\ fs["snapDisk"] # None
      /\ FreshSave(mounted)
  BY RestoredFiles
<1>2. fs["image"] = [holds |-> {}, back |-> "nothing"] /\ fs["image"] # None
  BY NoneAssumption DEF TypeOK, Qcow2, Paths
<1>4. /\ fs["snapDisk"].back = "image"
      /\ fs["snapDisk"].holds = mounted.state /\ mounted.second = mounted.state
  BY <1>1 DEF FreshSave
<1>5. /\ Behind("snapOverlay") = "snapDisk" /\ Behind("snapDisk") = "image"
      /\ Behind("image") = "nothing"
  BY <1>1, <1>2, <1>4 DEF Behind
<1>6. Chain(drive) = {"snapOverlay", "snapDisk", "image"}
  BY <1>1, <1>5 DEF Chain
<1>7. Content(drive) = mounted.state \cup Own
  BY <1>1, <1>2, <1>4, <1>6 DEF Content, Own
<1> QED BY <1>1, <1>4, <1>6, <1>7

\* The disk a resaved snapshot extracts is behind itself: qemu finds no end.
LEMMA SelfBacked ==
    ASSUME IInv, restore, at \in {"start", "run"}, mounted.resaved
    PROVE  ~Opens(drive)
<1>1. /\ drive = "snapOverlay"
      /\ fs["snapOverlay"] # None /\ fs["snapOverlay"].back = "snapDisk"
      /\ fs["snapDisk"] # None /\ fs["snapDisk"].back = "snapDisk"
  BY RestoredFiles
<1>2. Behind("snapOverlay") = "snapDisk" /\ Behind("snapDisk") = "snapDisk"
  BY <1>1 DEF Behind
<1>3. Chain(drive) = {"snapOverlay", "snapDisk"}
  BY <1>1, <1>2 DEF Chain
<1> QED BY <1>1, <1>3 DEF Opens

\* Every step preserves the invariant.
LEMMA Step == ASSUME IInv, [Next]_vars PROVE IInv'
<1> USE SnapshotRestoreAssumption, NoneAssumption
<1>1. ASSUME Extract PROVE IInv'
  <2>1. (TypeOK)'
    BY <1>1
       DEF IInv, TypeOK, FilesOnly, Extracted, Drive, Top, Own, Started, Tars,
           FreshSave, Paths, Qcow2, Saved, env, snap, Extract
  <2>2. (FilesOnly)'
    BY <1>1 DEF IInv, TypeOK, FilesOnly, Paths, env, snap, Extract
  <2>3. (Extracted)'
    BY <1>1 DEF IInv, TypeOK, Extracted, Paths, env, snap, Extract
  <2>4. (Drive)'
    BY <1>1 DEF IInv, Drive, Top, env, snap, Extract
  <2>5. (Fresh)'
    BY <1>1 DEF IInv, Fresh, Own, Top, env, snap, Extract
  <2>6. (Restored)'
    BY <1>1 DEF IInv, TypeOK, Restored, Own, Top, Paths, env, snap, Extract
  <2>7. (Started)'
    BY <1>1 DEF IInv, Started, env, snap, Extract
  <2>8. Tars'
    BY <1>1
       DEF IInv, TypeOK, FilesOnly, Extracted, Drive, Fresh, Restored,
           Started, Tars, FreshSave, Top, Own, Paths, Qcow2, Saved, env,
           disks, snap, Extract
  <2> QED BY <2>1, <2>2, <2>3, <2>4, <2>5, <2>6, <2>7, <2>8 DEF IInv
<1>2. ASSUME Prepare PROVE IInv'
  <2>1. (TypeOK)'
    BY <1>2
       DEF IInv, TypeOK, FilesOnly, Extracted, Drive, Top, Own, Started, Tars,
           FreshSave, Paths, Qcow2, Saved, env, snap, Prepare, Overlay
  <2>0. restore <=> fs["snapDisk"] # None /\ stateImg # None
    BY <1>2 DEF IInv, TypeOK, Extracted, Saved, Prepare
  <2>2. (FilesOnly)'
    <3>1. CASE restore
      BY <1>2, <2>0, <3>1 DEF IInv, TypeOK, FilesOnly, Paths, env, Prepare, Overlay
    <3>2. CASE ~restore
      BY <1>2, <2>0, <3>2 DEF IInv, TypeOK, FilesOnly, Paths, env, Prepare, Overlay
    <3> QED BY <3>1, <3>2
  <2>3. (Extracted)'
    BY <1>2 DEF IInv, TypeOK, Extracted, Paths, env, snap, Prepare, Overlay
  <2>4. (Drive)'
    BY <1>2
       DEF IInv, TypeOK, FilesOnly, Extracted, Drive, Top, Own, Started, Tars,
           FreshSave, Paths, Qcow2, Saved, env, snap, Prepare, Overlay
  <2>5. (Fresh)'
    BY <1>2
       DEF IInv, TypeOK, FilesOnly, Extracted, Drive, Top, Own, Started,
           Fresh, Paths, env, snap, Prepare, Overlay
  <2>6. (Restored)'
    BY <1>2
       DEF IInv, TypeOK, FilesOnly, Extracted, Drive, Top, Own, Started, Tars,
           FreshSave, Restored, Paths, Qcow2, Saved, env, snap, Prepare,
           Overlay
  <2>7. (Started)'
    BY <1>2 DEF IInv, Started, env, snap, Prepare, Overlay
  <2>8. Tars'
    BY <1>2 DEF IInv, Tars, FreshSave, env, snap, Prepare, Overlay
  <2> QED BY <2>1, <2>2, <2>3, <2>4, <2>5, <2>6, <2>7, <2>8 DEF IInv
<1>3. ASSUME Start PROVE IInv'
  <2>0. /\ stateImg # None => stateImg \in SUBSET Writes
        /\ stateImg = None => ~restore
        /\ ~restore => stateImg = None /\ Content(drive) = Own /\ Own \in SUBSET Writes
    BY <1>3, FreshContent
       DEF IInv, TypeOK, FilesOnly, Extracted, Drive, Fresh, Restored,
           Started, Tars, FreshSave, Top, Own, Paths, Qcow2, Saved, env,
           disks, snap, Start
  <2>1. (TypeOK)'
    BY <1>3, <2>0 DEF IInv, TypeOK, env, disks, snap, Start
  <2>2. (FilesOnly)'
    BY <1>3 DEF IInv, FilesOnly, env, disks, snap, Start
  <2>3. (Extracted)'
    BY <1>3 DEF IInv, Extracted, env, disks, snap, Start
  <2>4. (Drive)'
    BY <1>3 DEF IInv, Drive, Top, env, disks, snap, Start
  <2>5. (Fresh)'
    BY <1>3, <2>0 DEF IInv, Fresh, Own, Top, env, disks, snap, Start
  <2>6. (Restored)'
    BY <1>3
       DEF IInv, TypeOK, FilesOnly, Extracted, Drive, Top, Own, Started,
           Restored, Paths, env, disks, snap, Start
  <2>7. (Started)'
    BY <1>3, SelfBacked DEF IInv, TypeOK, Started, env, disks, snap, Start
  <2>8. Tars'
    BY <1>3 DEF IInv, Tars, FreshSave, env, disks, snap, Start
  <2> QED BY <2>1, <2>2, <2>3, <2>4, <2>5, <2>6, <2>7, <2>8 DEF IInv
<1>4. ASSUME RestartVM PROVE IInv'
  <2>1. (TypeOK)'
    BY <1>4 DEF IInv, TypeOK, env, disks, snap, RestartVM
  <2>2. (FilesOnly)'
    BY <1>4 DEF IInv, FilesOnly, env, disks, snap, RestartVM
  <2>3. (Extracted)'
    BY <1>4 DEF IInv, Extracted, env, disks, snap, RestartVM
  <2>4. (Drive)'
    BY <1>4 DEF IInv, Drive, Top, env, disks, snap, RestartVM
  <2>5. (Fresh)'
    BY <1>4 DEF IInv, Fresh, Own, Top, env, disks, snap, RestartVM
  <2>6. (Restored)'
    BY <1>4
       DEF IInv, TypeOK, FilesOnly, Extracted, Drive, Top, Own, Started,
           Restored, Paths, env, disks, snap, RestartVM
  <2>7. (Started)'
    BY <1>4 DEF IInv, Started, env, disks, snap, RestartVM
  <2>8. Tars'
    BY <1>4 DEF IInv, Tars, FreshSave, env, disks, snap, RestartVM
  <2> QED BY <2>1, <2>2, <2>3, <2>4, <2>5, <2>6, <2>7, <2>8 DEF IInv
<1>5. ASSUME Save PROVE IInv'
  <2>1. (TypeOK)'
    BY <1>5
       DEF IInv, TypeOK, FilesOnly, Extracted, Drive, Top, Own, Started, Tars,
           FreshSave, Paths, Qcow2, Saved, env, disks, snap, Save
  <2>2. (FilesOnly)'
    BY <1>5 DEF IInv, FilesOnly, env, disks, snap, Save
  <2>3. (Extracted)'
    BY <1>5 DEF IInv, Extracted, env, disks, snap, Save
  <2>4. (Drive)'
    BY <1>5 DEF IInv, Drive, Top, env, disks, snap, Save
  <2>5. (Fresh)'
    BY <1>5 DEF IInv, Fresh, Own, Top, env, disks, snap, Save
  <2>6. (Restored)'
    BY <1>5 DEF IInv, Restored, Own, Top, env, disks, snap, Save
  <2>7. (Started)'
    BY <1>5 DEF IInv, Started, env, disks, snap, Save
  <2>8. Tars'
    BY <1>5
       DEF IInv, TypeOK, FilesOnly, Extracted, Drive, Fresh, Restored,
           Started, Tars, FreshSave, Top, Own, Paths, Qcow2, Saved, env,
           disks, snap, Save
  <2> QED BY <2>1, <2>2, <2>3, <2>4, <2>5, <2>6, <2>7, <2>8 DEF IInv
<1>6. ASSUME NEW r \in BOOLEAN, DockerRun(r) PROVE IInv'
  <2>1. (TypeOK)'
    BY <1>6
       DEF IInv, TypeOK, FilesOnly, Extracted, Drive, Top, Own, Started, Tars,
           FreshSave, Paths, Qcow2, Saved, DockerRun, ImageFs
  <2>2. (FilesOnly)'
    BY <1>6 DEF IInv, TypeOK, FilesOnly, Paths, DockerRun, ImageFs
  <2>3. (Extracted)'
    BY <1>6 DEF IInv, TypeOK, Extracted, Paths, DockerRun, ImageFs
  <2>4. (Drive)'
    BY <1>6 DEF IInv, Drive, Top, DockerRun, ImageFs
  <2>5. (Fresh)'
    BY <1>6 DEF IInv, TypeOK, Fresh, Own, Top, Paths, DockerRun, ImageFs
  <2>6. (Restored)'
    BY <1>6 DEF IInv, TypeOK, Restored, Own, Top, Paths, DockerRun, ImageFs
  <2>7. (Started)'
    BY <1>6 DEF IInv, Started, DockerRun, ImageFs
  <2>8. Tars'
    BY <1>6 DEF IInv, Tars, FreshSave, DockerRun, ImageFs
  <2> QED BY <2>1, <2>2, <2>3, <2>4, <2>5, <2>6, <2>7, <2>8 DEF IInv
<1>7. ASSUME DockerRestart PROVE IInv'
  <2>1. (TypeOK)'
    BY <1>7 DEF IInv, TypeOK, env, disks, snap, DockerRestart
  <2>2. (FilesOnly)'
    BY <1>7 DEF IInv, FilesOnly, env, disks, snap, DockerRestart
  <2>3. (Extracted)'
    BY <1>7 DEF IInv, Extracted, env, disks, snap, DockerRestart
  <2>4. (Drive)'
    BY <1>7 DEF IInv, Drive, Top, env, disks, snap, DockerRestart
  <2>5. (Fresh)'
    BY <1>7 DEF IInv, Fresh, Own, Top, env, disks, snap, DockerRestart
  <2>6. (Restored)'
    BY <1>7 DEF IInv, Restored, Own, Top, env, disks, snap, DockerRestart
  <2>7. (Started)'
    BY <1>7 DEF IInv, Started, env, disks, snap, DockerRestart
  <2>8. Tars'
    BY <1>7 DEF IInv, Tars, FreshSave, env, disks, snap, DockerRestart
  <2> QED BY <2>1, <2>2, <2>3, <2>4, <2>5, <2>6, <2>7, <2>8 DEF IInv
<1>8. ASSUME GuestWrites PROVE IInv'
  <2> DEFINE w == writes + 1
  <2> DEFINE old == fs[drive]
  <2> DEFINE new == [holds |-> old.holds \cup {w}, back |-> old.back]
  <2>1. /\ at = "run" /\ w \in Writes /\ writes' = w
        /\ drive = Top /\ Top \in Paths \ {"image", "snapDisk"} /\ old # None
    BY <1>8 DEF GuestWrites, IInv, TypeOK, Drive, Top, Paths, Writes
  <2>2. old \in Qcow2
    BY <2>1 DEF IInv, TypeOK, Paths
  <2>3. new \in Qcow2 /\ new # None
    BY <2>1, <2>2, NoneAssumption DEF Qcow2
  <2>4. fs' = [fs EXCEPT ![drive] = new]
    <3>1. fs' = [fs EXCEPT ![drive] = [old EXCEPT !.holds = old.holds \cup {w}]]
      BY <1>8, <2>1 DEF GuestWrites
    <3>2. [old EXCEPT !.holds = old.holds \cup {w}] = new
      BY <2>2, WithHolds DEF Qcow2
    <3> QED BY <3>1, <3>2
  <2>5. Own' = Own \cup {w} /\ Top' = Top /\ fs'[Top] = new
    <3>1. fs \in [Paths -> Qcow2 \cup {None}] /\ Top' = Top
      BY <1>8 DEF Top, GuestWrites, env, IInv, TypeOK
    <3>2. fs'[Top] = new
      BY <2>1, <2>4, <3>1
    <3> QED BY <2>1, <2>3, <3>1, <3>2 DEF Own
  <2>6. /\ second' = second \cup {w} /\ ram' = ram \cup {w}
        /\ made' = made \cup {w} /\ writes' = w
        /\ UNCHANGED <<at, restore, mounted, stateImg, saved, drive, tar,
                       containers, restarts, starts>>
    BY <1>8, <2>1 DEF GuestWrites, env, snap
  <2> HIDE DEF w, old, new
  <2>7. TypeOK'
    BY <2>1, <2>3, <2>4, <2>6, <1>8 DEF IInv, TypeOK, GuestWrites
  <2>8. FilesOnly' /\ Extracted'
    BY <2>1, <2>3, <2>4, <2>6
       DEF IInv, TypeOK, FilesOnly, Extracted, Top, Paths, new, old
  <2>9. Drive' /\ Started' /\ Tars'
    BY <2>1, <2>3, <2>5, <2>6 DEF IInv, Drive, Started, Tars, FreshSave
  <2>10. Fresh' /\ Restored'
    BY <2>1, <2>5, <2>6 DEF IInv, Fresh, Restored, Started
  <2> QED BY <2>7, <2>8, <2>9, <2>10 DEF IInv
<1>9. CASE UNCHANGED vars
  BY <1>9
     DEF IInv, TypeOK, FilesOnly, Extracted, Drive, Fresh, Restored, Started,
         Tars, FreshSave, Top, Own, Paths, Qcow2, Saved, env, disks, snap,
         vars
<1> QED BY <1>1, <1>2, <1>3, <1>4, <1>5, <1>6, <1>7, <1>8, <1>9 DEF Next

\* The first container satisfies the invariant.
LEMMA InitIInv == Init => IInv
<1> SUFFICES ASSUME Init PROVE IInv
  OBVIOUS
<1>1. /\ \A f \in Paths \ {"image"} : fs[f] = None
      /\ fs["image"] = [holds |-> {}, back |-> "nothing"]
      /\ fs \in [Paths -> Qcow2 \cup {None}]
  BY DEF Init, ImageFs, Paths, Qcow2
<1>2. TypeOK
  <2>1. drive \in Paths
    BY DEF Init, Paths
  <2>2. /\ containers \in 0 .. MaxContainers /\ writes \in 0 .. MaxWrites
        /\ restarts \in 0 .. MaxRestarts /\ starts \in 0 .. 2
    BY SnapshotRestoreAssumption DEF Init
  <2> QED BY <1>1, <2>1, <2>2 DEF Init, TypeOK
<1>3. Own = {}
  BY <1>1 DEF Own, Top, Paths
<1>4. /\ FilesOnly /\ Extracted /\ Drive /\ Fresh /\ Restored /\ Started
      /\ Tars
  BY <1>1, <1>3
     DEF Init, FilesOnly, Extracted, Drive, Fresh, Restored, Started,
                    Tars, Paths
<1> QED BY <1>2, <1>4 DEF IInv

\* The inductive invariant holds in every reachable state.
THEOREM Invariance == Spec => []IInv
BY InitIInv, Step, PTL DEF Spec

\* Every variable keeps its type.
THEOREM TypeCorrect == Spec => []TypeOK
BY Invariance, PTL DEF IInv

\* No restart and no replacement of the container loses a write from the primary
\* disk: the overlay is made once and the extracted disk never changes.
THEOREM NothingLostHolds == Spec => []NothingLost
<1>1. IInv => NothingLost
  BY FreshContent, RestoredContent
     DEF IInv, NothingLost, Fresh, Restored, Started
<1> QED BY <1>1, Invariance, PTL

\* Memory and both disks are of one moment until a restored VM is started again.
THEOREM ExactUntilRestartHolds == Spec => []ExactUntilRestart
<1>1. IInv => ExactUntilRestart
  BY FreshContent, RestoredContent
     DEF IInv, ExactUntilRestart, Exact, Fresh, Restored, Started
<1> QED BY <1>1, Invariance, PTL

\* The backing chain of the drive of a VM that is about to start can be opened,
\* unless the VM is restored from the snapshot of a restored one, and never then.
THEOREM StartableHolds == Spec => []Startable
<1>1. IInv => Startable
  <2> SUFFICES ASSUME IInv, at = "start"
               PROVE  Opens(drive) <=> ~(restore /\ mounted.resaved)
    BY DEF Startable
  <2>1. fs["image"] = [holds |-> {}, back |-> "nothing"] /\ fs["image"] # None
    BY NoneAssumption DEF IInv, FilesOnly, TypeOK, Qcow2, Paths
  <2>2. fs[drive] # None /\ drive = Top
    BY DEF IInv, Drive
  <2>3. CASE restore /\ ~mounted.resaved
    BY <2>1, <2>2, <2>3, RestoredContent DEF Opens
  <2>4. CASE ~restore
    BY <2>1, <2>2, <2>4, FreshContent DEF Opens
  <2>5. CASE restore /\ mounted.resaved
    BY <2>5, SelfBacked
  <2> QED BY <2>3, <2>4, <2>5
<1> QED BY <1>1, Invariance, PTL

=============================================================================
