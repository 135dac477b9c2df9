---------------------------- MODULE SnapshotSave ----------------------------
(***************************************************************************)
(* VR.snapshot_save() of common/vrnetlab.py and snapshot_save_to_dir() of   *)
(* each of its VMs: pause the guest, migrate its state to a file, copy its  *)
(* disk meanwhile, ask qemu for the MAC addresses, resume the guest, and    *)
(* put the files of all VMs into /snapshot-output.tar.                      *)
(*                                                                          *)
(* The launcher talks to qemu through the monitor socket.  It writes a      *)
(* command and goes on; qemu executes the commands in order when it gets to *)
(* them, and what it answers stays in the socket until somebody reads.  The *)
(* disk is copied by threads of the launcher.  What the guest does between  *)
(* two moments is a version number of its memory and disk.                  *)
(***************************************************************************)
EXTENDS Integers, Sequences

CONSTANTS
    N,              \* number of VMs (self.vms)
    Prompt,         \* does qemu execute a command while the launcher sleeps?
    SlowMigration,  \* may a migration take longer than the timeout of 600 s?
    MaxVersion,     \* bound: times a guest changes its memory and disk
    MaxRequests,    \* bound: times somebody touches /snapshot-save
    MaxPolls,       \* bound: commands waiting in a monitor
    MaxFaults       \* bound: failures

ASSUME SnapshotSaveAssumption ==
    /\ N \in Nat \ {0}
    /\ Prompt \in BOOLEAN /\ SlowMigration \in BOOLEAN
    /\ MaxVersion \in Nat /\ MaxRequests \in Nat
    /\ MaxPolls \in Nat \ {0} /\ MaxFaults \in Nat

VARIABLES
    \* the launcher
    at,        \* next step of snapshot_save(); "loop" outside of it
    cur,       \* the VM being saved
    failed,    \* an exception is on its way out of the poll loop
    macs,      \* VMs whose MAC addresses went into metadata.json
    \* files
    request,   \* does /snapshot-save exist?
    tar,       \* the files in /snapshot-output.tar
    tarWhole,  \* is /snapshot-output.tar a readable archive?
    \* each VM's qemu
    version,   \* version of the guest's memory and disk
    paused,    \* is the guest paused?
    mig,       \* the last migration; "orphan" if it writes for an older snapshot
    stateFile, \* version in state.img, or Torn
    cmds,      \* commands in the monitor socket
    outs,      \* answers in the monitor socket
    broken,    \* has qemu closed the monitor (it exited)?
    \* each VM's disk copy
    copy,      \* "idle", "running", "done" or "failed"
    copyFile,  \* version in disk.qcow2, or Torn; while running, what it began with
    \* bounds
    requests, faults

rest     == <<cur, failed, macs>>
launcher == <<at, rest>>
files    == <<request, tar, tarWhole>>
guest    == <<version, paused, mig, stateFile>>
qemu     == <<guest, cmds, outs, broken>>
disk     == <<copy, copyFile>>
vars     == <<launcher, files, qemu, disk, requests, faults>>

VMs      == 1 .. N
Torn     == -1
Versions == Torn .. MaxVersion

NoFiles == [state |-> Torn, disk |-> Torn, macs |-> FALSE]
Files   == [state : Versions, disk : Versions, macs : BOOLEAN]

Commands == {"stop", "migrate", "info", "network", "cont"}
Outputs  == {"none", "completed", "failed", "macs"}

TypeOK ==
    /\ at \in {"loop", "stop", "migrate", "copy", "poll", "read", "join",
               "network", "macs", "cont", "recover", "tar", "remove"}
    /\ cur \in VMs
    /\ failed \in BOOLEAN
    /\ macs \subseteq VMs
    /\ request \in BOOLEAN
    /\ tar \in [VMs -> Files] /\ tarWhole \in BOOLEAN
    /\ version \in [VMs -> 0 .. MaxVersion]
    /\ paused \in [VMs -> BOOLEAN]
    /\ mig \in [VMs -> {"none", "active", "orphan", "completed", "failed"}]
    /\ stateFile \in [VMs -> Versions]
    /\ cmds \in [VMs -> Seq(Commands)]
    /\ outs \in [VMs -> Seq(Outputs)]
    /\ broken \in [VMs -> BOOLEAN]
    /\ copy \in [VMs -> {"idle", "running", "done", "failed"}]
    /\ copyFile \in [VMs -> Versions]
    /\ requests \in 0 .. MaxRequests /\ faults \in 0 .. MaxFaults

Init ==
    /\ at = "loop" /\ cur = 1 /\ failed = FALSE
    /\ macs = {}
    /\ request = FALSE
    /\ tar = [v \in VMs |-> NoFiles] /\ tarWhole = FALSE
    /\ version = [v \in VMs |-> 0]
    /\ paused = [v \in VMs |-> FALSE]
    /\ mig = [v \in VMs |-> "none"]
    /\ stateFile = [v \in VMs |-> Torn]
    /\ cmds = [v \in VMs |-> <<>>] /\ outs = [v \in VMs |-> <<>>]
    /\ broken = [v \in VMs |-> FALSE]
    /\ copy = [v \in VMs |-> "idle"]
    /\ copyFile = [v \in VMs |-> Torn]
    /\ requests = 0 /\ faults = 0

(***************************************************************************)
(* The monitor connection: _qemu_monitor_cmd().                             *)
(***************************************************************************)

\* `migrate' without -d holds the monitor until the migration ends.
Held(v) == mig[v] \in {"active", "orphan"}

\* write() puts a command into the socket; it raises when qemu is gone.
Send(c) ==
    /\ ~broken[cur]
    /\ cmds' = [cmds EXCEPT ![cur] = Append(@, c)]

\* The launcher has slept; has qemu caught up?
Slept == Prompt /\ ~broken[cur] => cmds[cur] = <<>> \/ Held(cur)

\* read_very_eager(): one chunk of what has arrived, the first k answers.
Read(k) ==
    /\ Slept
    /\ IF Prompt THEN k = Len(outs[cur]) ELSE k \in 0 .. Len(outs[cur])
    /\ outs' = [outs EXCEPT ![cur] = SubSeq(@, k + 1, Len(@))]

Says(k, word) == \E n \in 1 .. k : outs[cur][n] = word

(***************************************************************************)
(* The launcher.                                                            *)
(***************************************************************************)

\* VR.start() finds /snapshot-save; a new temporary directory.
Begin ==
    /\ at = "loop" /\ request
    /\ at' = "stop" /\ cur' = 1 /\ failed' = FALSE /\ macs' = {}
    /\ stateFile' = [v \in VMs |-> Torn]
    /\ mig' = [v \in VMs |-> IF Held(v) THEN "orphan" ELSE mig[v]]
    /\ copy' = [v \in VMs |-> "idle"]
    /\ copyFile' = [v \in VMs |-> Torn]
    /\ UNCHANGED <<files, version, paused, cmds, outs, broken, requests,
                   faults>>

SendStop ==
    /\ at = "stop"
    /\ Send("stop")
    /\ at' = "migrate"
    /\ UNCHANGED <<rest, files, guest, outs, broken, disk, requests, faults>>

\* Mutant of SendMigrate: does not sleep.
SendMigrateAtOnce ==
    /\ at = "migrate"
    /\ Send("migrate")
    /\ at' = "copy"
    /\ UNCHANGED <<rest, files, guest, outs, broken, disk, requests, faults>>

\* A second later; the capabilities of the migration are left out.
SendMigrate ==
    /\ at = "migrate"
    /\ Slept
    /\ Send("migrate")
    /\ at' = "copy"
    /\ UNCHANGED <<rest, files, guest, outs, broken, disk, requests, faults>>

\* The executor starts copying the disk.
StartCopy ==
    /\ at = "copy"
    /\ copy' = [copy EXCEPT ![cur] = "running"]
    /\ copyFile' = [copyFile EXCEPT ![cur] = version[cur]]
    /\ at' = "poll"
    /\ UNCHANGED <<rest, files, qemu, requests, faults>>

SendInfo ==
    /\ at = "poll"
    /\ Len(cmds[cur]) < MaxPolls
    /\ Send("info")
    /\ at' = "read"
    /\ UNCHANGED <<rest, files, guest, outs, broken, disk, requests, faults>>

\* `"completed" in response', `"failed" in response', or another turn.
ReadInfo ==
    /\ at = "read"
    /\ \E k \in 0 .. Len(outs[cur]) :
          /\ Read(k)
          /\ at' = IF Says(k, "completed") \/ Says(k, "failed") THEN "join"
                   ELSE "poll"
          /\ failed' = (~Says(k, "completed") /\ Says(k, "failed"))
    /\ UNCHANGED <<cur, macs, files, guest, cmds, broken, disk,
                   requests, faults>>

\* The while loop ends after 600 seconds, and the code goes on.
Timeout ==
    /\ at = "poll"
    /\ SlowMigration /\ Held(cur)
    /\ at' = "join"
    /\ UNCHANGED <<rest, files, qemu, disk, requests, faults>>

\* Mutant of Join: waits for the copies to succeed.
JoinSuccess ==
    /\ at = "join"
    /\ copy[cur] = "done"
    /\ at' = IF failed THEN "recover" ELSE "network"
    /\ UNCHANGED <<rest, files, qemu, disk, requests, faults>>

\* The copies are waited for, whether or not the poll loop raised.
Join ==
    /\ at = "join"
    /\ copy[cur] # "running"
    /\ at' = IF failed \/ copy[cur] = "failed" THEN "recover" ELSE "network"
    /\ UNCHANGED <<rest, files, qemu, disk, requests, faults>>

SendNetwork ==
    /\ at = "network"
    /\ Send("network")
    /\ at' = "macs"
    /\ UNCHANGED <<rest, files, guest, outs, broken, disk, requests, faults>>

\* The MAC addresses found in the answer, if any, go into metadata.json.
ReadMacs ==
    /\ at = "macs"
    /\ \E k \in 0 .. Len(outs[cur]) :
          /\ Read(k)
          /\ macs' = IF Says(k, "macs") THEN macs \cup {cur} ELSE macs
    /\ at' = "cont"
    /\ UNCHANGED <<cur, failed, files, guest, cmds, broken, disk,
                   requests, faults>>

\* Mutant of SendCont: one VM too many.
SendContPast ==
    /\ at = "cont"
    /\ Send("cont")
    /\ IF cur <= N THEN cur' = cur + 1 /\ at' = "stop"
                   ELSE cur' = cur /\ at' = "tar"
    /\ UNCHANGED <<failed, macs, files, guest, outs, broken, disk,
                   requests, faults>>

\* Resume the VM and go on with the next one.
SendCont ==
    /\ at = "cont"
    /\ Send("cont")
    /\ IF cur < N THEN cur' = cur + 1 /\ at' = "stop"
                  ELSE cur' = cur /\ at' = "tar"
    /\ UNCHANGED <<failed, macs, files, guest, outs, broken, disk,
                   requests, faults>>

\* The monitor is gone: the poll loop waits for its copies first, and
\* `info network' is only warned about.
MonitorRaises ==
    /\ broken[cur]
    /\ \/ at \in {"stop", "migrate", "cont"} /\ at' = "recover"
       \/ at \in {"poll", "read"} /\ at' = "join"
       \/ at \in {"network", "macs"} /\ at' = "cont"
    /\ failed' = (failed \/ at \in {"poll", "read"})
    /\ UNCHANGED <<cur, macs, files, qemu, disk, requests, faults>>

\* Writing metadata.json fails (the disk of the host is full).
MetadataRaises ==
    /\ at = "cont"
    /\ faults < MaxFaults /\ faults' = faults + 1
    /\ at' = "recover"
    /\ UNCHANGED <<rest, files, qemu, disk, requests>>

\* Mutant of Recover: does not resume.
RecoverNoCont ==
    /\ at = "recover"
    /\ at' = "remove"
    /\ UNCHANGED <<rest, files, qemu, disk, requests, faults>>

\* "Always try to resume"; then the exception leaves snapshot_save().
Recover ==
    /\ at = "recover"
    /\ Send("cont") \/ (broken[cur] /\ UNCHANGED cmds)
    /\ at' = "remove"
    /\ UNCHANGED <<rest, files, guest, outs, broken, disk, requests, faults>>

\* tar writes the archive in place, from what the directory holds now ...
Tar ==
    /\ at = "tar"
    /\ tar' = [v \in VMs |-> [state |-> stateFile[v], disk |-> copyFile[v],
                              macs |-> v \in macs]]
    /\ tarWhole' = TRUE
    /\ at' = "remove"
    /\ UNCHANGED <<rest, request, qemu, disk, requests, faults>>

\* ... and leaves a piece of it behind when it fails.
TarRaises ==
    /\ at = "tar"
    /\ faults < MaxFaults /\ faults' = faults + 1
    /\ tar' = [v \in VMs |-> NoFiles] /\ tarWhole' = FALSE
    /\ at' = "remove"
    /\ UNCHANGED <<rest, request, qemu, disk, requests>>

\* VR.start() removes the request, answered or not.
RemoveRequest ==
    /\ at = "remove"
    /\ request' = FALSE
    /\ at' = "loop"
    /\ UNCHANGED <<rest, tar, tarWhole, qemu, disk, requests, faults>>

Launcher ==
    \/ Begin \/ SendStop \/ SendMigrate \/ StartCopy \/ SendInfo \/ ReadInfo
    \/ Timeout \/ Join \/ SendNetwork \/ ReadMacs \/ SendCont
    \/ MonitorRaises \/ MetadataRaises \/ Recover \/ Tar \/ TarRaises
    \/ RemoveRequest

(***************************************************************************)
(* qemu, the copying threads and the user.                                  *)
(***************************************************************************)

\* qemu executes the first command of its monitor.
Execute(v) ==
    /\ cmds[v] # <<>> /\ ~Held(v) /\ ~broken[v]
    /\ cmds' = [cmds EXCEPT ![v] = Tail(@)]
    /\ LET c == Head(cmds[v]) IN
       /\ paused' = [paused EXCEPT ![v] = c = "stop" \/ (@ /\ c # "cont")]
       /\ mig' = [mig EXCEPT ![v] = IF c = "migrate" THEN "active" ELSE @]
       /\ outs' = [outs EXCEPT ![v] =
                      CASE c = "info"    -> Append(@, mig[v])
                        [] c = "network" -> Append(@, "macs")
                        [] OTHER         -> @]
    /\ UNCHANGED <<launcher, files, version, stateFile, broken, disk,
                   requests, faults>>

\* A migration completes; qemu leaves the guest paused.
MigrationCompletes(v) ==
    /\ Held(v) /\ ~broken[v]
    /\ stateFile' = [stateFile EXCEPT ![v] =
                        IF mig[v] = "active" THEN version[v] ELSE @]
    /\ mig' = [mig EXCEPT ![v] = "completed"]
    /\ paused' = [paused EXCEPT ![v] = TRUE]
    /\ UNCHANGED <<launcher, files, version, cmds, outs, broken, disk,
                   requests, faults>>

MigrationFails(v) ==
    /\ Held(v) /\ ~broken[v]
    /\ faults < MaxFaults /\ faults' = faults + 1
    /\ mig' = [mig EXCEPT ![v] = "failed"]
    /\ UNCHANGED <<launcher, files, version, paused, stateFile, cmds, outs,
                   broken, disk, requests>>

GuestRuns(v) ==
    /\ ~paused[v] /\ ~broken[v]
    /\ version[v] < MaxVersion
    /\ version' = [version EXCEPT ![v] = @ + 1]
    /\ UNCHANGED <<launcher, files, paused, mig, stateFile, cmds, outs,
                   broken, disk, requests, faults>>

QemuExits(v) ==
    /\ ~broken[v]
    /\ faults < MaxFaults /\ faults' = faults + 1
    /\ broken' = [broken EXCEPT ![v] = TRUE]
    /\ UNCHANGED <<launcher, files, guest, cmds, outs, disk, requests>>

\* cp ends; it has read a mixture if the guest wrote meanwhile.
CopyEnds(v) ==
    /\ copy[v] = "running"
    /\ copy' = [copy EXCEPT ![v] = "done"]
    /\ copyFile' = [copyFile EXCEPT ![v] = IF @ = version[v] THEN @ ELSE Torn]
    /\ UNCHANGED <<launcher, files, qemu, requests, faults>>

CopyFails(v) ==
    /\ copy[v] = "running"
    /\ faults < MaxFaults /\ faults' = faults + 1
    /\ copy' = [copy EXCEPT ![v] = "failed"]
    /\ UNCHANGED <<launcher, files, qemu, copyFile, requests>>

Touch ==
    /\ requests < MaxRequests /\ requests' = requests + 1
    /\ request' = TRUE
    /\ UNCHANGED <<launcher, tar, tarWhole, qemu, disk, faults>>

Qemu(v) == Execute(v) \/ MigrationCompletes(v) \/ CopyEnds(v)

Next ==
    \/ Launcher
    \/ \E v \in VMs : \/ Qemu(v) \/ MigrationFails(v) \/ GuestRuns(v)
                      \/ QemuExits(v) \/ CopyFails(v)
    \/ Touch

Spec == Init /\ [][Next]_vars

\* The loop runs, qemu executes its commands and ends its migrations, and cp
\* ends.
Fairness ==
    /\ WF_vars(Launcher)
    /\ \A v \in VMs : /\ WF_vars(Execute(v))
                      /\ WF_vars(MigrationCompletes(v))
                      /\ WF_vars(CopyEnds(v))

FairSpec == Spec /\ Fairness

(***************************************************************************)
(* Properties.                                                              *)
(***************************************************************************)

\* An archive holds, for every VM, its whole state and a disk of the same
\* moment: "save VM states, disk overlays and metadata" (README).
SnapshotSound ==
    tarWhole => \A v \in VMs : tar[v].state # Torn /\ tar[v].disk = tar[v].state

\* It also holds the MAC addresses, without which the restored guest would be
\* given other network cards than those in its memory.
DevicesSaved == tarWhole => \A v \in VMs : tar[v].macs

\* What a restored guest needs of its archive: memory, disk and network cards
\* of one moment.
ArchiveComplete == SnapshotSound /\ DevicesSaved

\* A guest is paused only while it is being saved, or until qemu comes to the
\* cont that waits in its monitor, whatever failed meanwhile.
PausedForSaving ==
    \A v \in VMs :
        paused[v] /\ ~broken[v] =>
            \/ cur = v /\ at \notin {"loop", "tar", "remove"}
            \/ \E k \in 1 .. Len(cmds[v]) : cmds[v][k] = "cont"

\* "Always try to resume": no failure leaves a guest paused for good.
Resumed == \A v \in VMs : paused[v] ~> ~paused[v] \/ broken[v]

\* Every request is answered, by an archive or by giving up.
RequestAnswered == request ~> ~request

\* A snapshot comes to an end, for its guests and for its user.
SaveEnds == Resumed /\ RequestAnswered

=============================================================================
