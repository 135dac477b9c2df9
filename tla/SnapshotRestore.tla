-------------------------- MODULE SnapshotRestore --------------------------
(***************************************************************************)
(* Where the disks of a VM live, and what a start of the VM puts together,  *)
(* over the lives of several containers: VR.__init__() extracts the         *)
(* snapshot it was given, VM.__init__() chooses and creates the overlay     *)
(* image, VM.start() loads the saved memory, snapshot_save() copies it all  *)
(* out again (common/vrnetlab.py).                                          *)
(*                                                                          *)
(* Docker keeps a container's files when it restarts it, and starts a new   *)
(* container from the image.  A qcow2 file is the writes it holds itself    *)
(* and the path of the file behind it.  A guest numbers its writes; each    *)
(* goes to the primary and to the secondary disk, and the guest remembers   *)
(* it.  SnapshotSave has the protocol by which one snapshot is taken; here  *)
(* it is one step.                                                          *)
(***************************************************************************)
EXTENDS Integers

CONSTANTS
    None,           \* a missing file, state or tar
    MaxContainers,  \* bound: containers run
    MaxWrites,      \* bound: writes of the guests
    MaxRestarts     \* bound: restarts of a container or a VM

ASSUME SnapshotRestoreAssumption ==
    /\ MaxContainers \in Nat /\ MaxWrites \in Nat /\ MaxRestarts \in Nat

VARIABLES
    \* the container
    at,          \* "extract", "prepare", "start" or "run"
    restore,     \* was it run with RESTORE_SNAPSHOT=1 and a /snapshot.tar?
    mounted,     \* that /snapshot.tar
    fs,          \* its qcow2 files
    second,      \* the secondary disk
    stateImg,    \* /snapshot-data/vmN/state.img
    saved,       \* /snapshot-data/vmN/: the copy of the secondary disk
    \* the VM
    drive,       \* the file of its first -drive
    ram,         \* the writes the guest remembers
    \* outside
    tar,         \* the last snapshot copied out of a container
    containers, writes, restarts,
    \* history
    starts,      \* starts of the VM in this container, at most 2
    made         \* writes made in this container or in its snapshot

env  == <<restore, mounted>>
disks == <<fs, second>>
snap == <<stateImg, saved>>
vars == <<at, env, disks, snap, drive, ram, tar, containers, writes, restarts,
          starts, made>>

Writes == 1 .. MaxWrites
Paths  == {"image", "overlay", "snapDisk", "snapOverlay"}

Qcow2  == [holds : SUBSET Writes, back : Paths \cup {"nothing"}]
\* A tar; resaved is history: was it taken of a VM that was restored itself?
Saved  == [disk : Qcow2, second : SUBSET Writes, state : SUBSET Writes,
           resaved : BOOLEAN]

ASSUME NoneAssumption ==
    /\ \A q \in Qcow2 : q # None
    /\ \A t \in Saved : t # None
    /\ \A s \in SUBSET Writes : s # None

TypeOK ==
    /\ at \in {"extract", "prepare", "start", "run"}
    /\ restore \in BOOLEAN /\ mounted \in Saved \cup {None}
    /\ fs \in [Paths -> Qcow2 \cup {None}]
    /\ second \in SUBSET Writes
    /\ stateImg \in (SUBSET Writes) \cup {None}
    /\ saved \in (SUBSET Writes) \cup {None}
    /\ drive \in Paths
    /\ ram \in SUBSET Writes
    /\ tar \in Saved \cup {None}
    /\ containers \in 0 .. MaxContainers /\ writes \in 0 .. MaxWrites
    /\ restarts \in 0 .. MaxRestarts
    /\ starts \in 0 .. 2
    /\ made \in SUBSET Writes

\* The files of a new container: those of the docker image.
ImageFs == [f \in Paths |-> IF f = "image" THEN [holds |-> {}, back |-> "nothing"]
                            ELSE None]

Init ==
    /\ at = "extract" /\ restore = FALSE /\ mounted = None
    /\ fs = ImageFs /\ second = {} /\ stateImg = None /\ saved = None
    /\ drive = "overlay" /\ ram = {}
    /\ tar = None
    /\ containers = 0 /\ writes = 0 /\ restarts = 0
    /\ starts = 0 /\ made = {}

(***************************************************************************)
(* qcow2 files.                                                             *)
(***************************************************************************)

\* The file behind file f.
Behind(f) == IF f = "nothing" \/ fs[f] = None THEN "nothing" ELSE fs[f].back

\* f and the files behind it; there are but four.
Chain(f) ==
    LET b == Behind(f)
        c == Behind(b)
        d == Behind(c)
    IN  {f, b, c, d} \ {"nothing"}

\* qemu opens every file of the chain, down to one with nothing behind it.
Opens(f) ==
    /\ \A g \in Chain(f) : fs[g] # None
    /\ \E g \in Chain(f) : fs[g].back = "nothing"

\* What a guest reads from a disk.
Content(f) == UNION {fs[g].holds : g \in {h \in Chain(f) : fs[h] # None}}

(***************************************************************************)
(* The launcher.                                                            *)
(***************************************************************************)

\* VR.__init__() and snapshot_restore(): every start of the launcher extracts
\* /snapshot.tar, over what an earlier one extracted.
Extract ==
    /\ at = "extract"
    /\ at' = "prepare"
    /\ IF restore
       THEN /\ fs' = [fs EXCEPT !["snapDisk"] = mounted.disk]
            /\ stateImg' = mounted.state
            /\ saved' = mounted.second
       ELSE UNCHANGED <<fs, snap>>
    /\ UNCHANGED <<env, second, drive, ram, tar, containers, writes, restarts,
                   starts, made>>

\* Mutant of Overlay: the overlay is created anew every time.
OverlayAnew(f, base) == fs' = [fs EXCEPT ![f] = [holds |-> {}, back |-> base]]

\* Mutant of Overlay: the two file names in the wrong order.
OverlaySwapped(f, base) ==
    fs' = IF fs[f] = None
          THEN [fs EXCEPT ![base] = [holds |-> {}, back |-> f]] ELSE fs

\* `qemu-img create', unless there is an overlay already.
Overlay(f, base) ==
    fs' = IF fs[f] = None
          THEN [fs EXCEPT ![f] = [holds |-> {}, back |-> base]] ELSE fs

\* Mutant of Prepare: a restored VM gets the overlay of a fresh one.
PrepareFresh ==
    /\ at = "prepare"
    /\ at' = "start"
    /\ Overlay("overlay", "image") /\ drive' = "overlay"
    /\ second' = IF fs["snapDisk"] # None /\ stateImg # None THEN saved ELSE second
    /\ UNCHANGED <<env, snap, ram, tar, containers, writes, restarts, starts,
                   made>>

\* VM.__init__(): a VM whose disk and state were extracted gets an overlay on
\* that disk, and its secondary disks copied back.
Prepare ==
    /\ at = "prepare"
    /\ at' = "start"
    /\ \/ /\ fs["snapDisk"] # None /\ stateImg # None
          /\ second' = saved
          /\ Overlay("snapOverlay", "snapDisk") /\ drive' = "snapOverlay"
       \/ /\ fs["snapDisk"] = None \/ stateImg = None
          /\ UNCHANGED second
          /\ Overlay("overlay", "image") /\ drive' = "overlay"
    /\ UNCHANGED <<env, snap, ram, tar, containers, writes, restarts, starts,
                   made>>

\* VM.start(): a guest whose state was saved resumes with the memory of that
\* moment, any other boots from its disk.
Start ==
    /\ at = "start" /\ Opens(drive)
    /\ at' = "run"
    /\ ram' = IF stateImg # None THEN stateImg ELSE Content(drive)
    /\ starts' = IF starts = 2 THEN 2 ELSE starts + 1
    /\ UNCHANGED <<env, disks, snap, drive, tar, containers, writes, restarts,
                   made>>

\* check_qemu() finds an error, or bootstrap_spin() gives up: restart().
RestartVM ==
    /\ at = "run"
    /\ restarts < MaxRestarts /\ restarts' = restarts + 1
    /\ at' = "start"
    /\ UNCHANGED <<env, disks, snap, drive, ram, tar, containers, writes,
                   starts, made>>

\* snapshot_save(): the state, a copy of the overlay as it is, and a copy of
\* the secondary disk.
Save ==
    /\ at = "run"
    /\ tar' = [disk |-> fs[drive], second |-> second, state |-> ram,
               resaved |-> restore]
    /\ UNCHANGED <<at, env, disks, snap, drive, ram, containers, writes,
                   restarts, starts, made>>

(***************************************************************************)
(* Docker and the guest.                                                    *)
(***************************************************************************)

\* A new container replaces this one; it may restore the last snapshot.
DockerRun(r) ==
    /\ containers < MaxContainers /\ containers' = containers + 1
    /\ r => tar # None
    /\ at' = "extract" /\ restore' = r
    /\ mounted' = IF r THEN tar ELSE None
    /\ fs' = ImageFs /\ second' = {} /\ stateImg' = None /\ saved' = None
    /\ ram' = {} /\ drive' = "overlay"
    /\ starts' = 0
    /\ made' = IF r THEN tar.state ELSE {}
    /\ UNCHANGED <<tar, writes, restarts>>

\* `docker restart', at any moment: the processes end, the files stay.
DockerRestart ==
    /\ restarts < MaxRestarts /\ restarts' = restarts + 1
    /\ at' = "extract"
    /\ UNCHANGED <<env, disks, snap, drive, ram, tar, containers, writes,
                   starts, made>>

GuestWrites ==
    /\ at = "run"
    /\ writes < MaxWrites /\ writes' = writes + 1
    /\ fs' = [fs EXCEPT ![drive].holds = @ \cup {writes'}]
    /\ second' = second \cup {writes'}
    /\ ram' = ram \cup {writes'}
    /\ made' = made \cup {writes'}
    /\ UNCHANGED <<at, env, snap, drive, tar, containers, restarts, starts>>

Next ==
    \/ Extract \/ Prepare \/ Start \/ RestartVM \/ Save
    \/ \E r \in BOOLEAN : DockerRun(r)
    \/ DockerRestart \/ GuestWrites

Spec == Init /\ [][Next]_vars

(***************************************************************************)
(* Properties.                                                              *)
(***************************************************************************)

\* A part of the two properties below: the guest remembers what is on both of
\* its disks, no more and no less.
Exact == ram = Content(drive) /\ ram = second

\* README.md: "start nodes using the same image up to the exact same state the
\* VM had when you took the snapshot".  Whenever a guest runs, its memory and
\* its two disks are of one moment, and so is its first resumption.
ExactState == at = "run" => Exact

\* What holds of the code: memory and disks agree in a container without a
\* snapshot, however often it or its VM is restarted, and in a restored one
\* until the VM is started again.
ExactUntilRestart == at = "run" /\ (restore => starts = 1) => Exact

\* No restart, and no replacement of the container by one restored from its
\* snapshot, loses a write from the primary disk.
NothingLost == at = "run" => made \subseteq Content(drive)

\* Which VMs have a disk that opens: all but those restored from the snapshot
\* of a restored VM.  What such a snapshot extracts as the disk is a copy of the
\* overlay, which names the disk, itself now, as the file behind it.
Startable == at = "start" => (Opens(drive) <=> ~(restore /\ mounted.resaved))

\* README.md: "You can snapshot all VMs in a running container"; "Using this
\* snapshot file you can start nodes".  Does not hold: MCSnapshotResave.cfg.
SnapshotsRestorable == at = "start" => Opens(drive)

=============================================================================
