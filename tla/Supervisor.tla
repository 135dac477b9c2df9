----------------------------- MODULE Supervisor -----------------------------
(***************************************************************************)
(* The launcher's supervision loop: VR.start() of common/vrnetlab.py calls  *)
(* work() on each VM of the virtual router in turn, and then rewrites       *)
(* /health.  work() polls the qemu child (check_qemu) and, while the VM is  *)
(* not running, calls the platform's bootstrap_spin(), which counts fruit-  *)
(* less reads of the serial console and restarts the VM when there were too *)
(* many.                                                                    *)
(*                                                                          *)
(* One Python thread runs the loop: `at' is the statement it is about to    *)
(* execute, `cur' the VM of the for loop and `ret' where start() returns    *)
(* to.  Around it qemu processes exit, guests boot, reboot and print,       *)
(* containerlab plugs interfaces in, and docker stops and starts the        *)
(* container, keeping its file system (/health) but no process.             *)
(*                                                                          *)
(* bootstrap_spin() is the body most launchers share (arista/veos); the     *)
(* launchers that clear the counter after giving up (juniper/vmx and vqfx)  *)
(* are the instance ResetOnGiveUp = TRUE.                                   *)
(***************************************************************************)
EXTENDS Integers

CONSTANTS
    N,              \* number of VMs of the virtual router (self.vms)
    MaxSpins,       \* fruitless console reads before giving up (300 in veos)
    MaxRetries,     \* connection attempts of start() (MAX_RETRIES, 60)
    ResetOnGiveUp,  \* does the launcher clear spins after giving up?
    RebootInDialogue, \* may a guest reboot while it is being configured?
    MaxFaults       \* bound: failures the environment may still inject

ASSUME SupervisorAssumption ==
    /\ N \in Nat \ {0}
    /\ MaxSpins \in Nat
    /\ MaxRetries \in Nat \ {0}
    /\ ResetOnGiveUp \in BOOLEAN
    /\ RebootInDialogue \in BOOLEAN
    /\ MaxFaults \in Nat

VARIABLES
    \* the Python thread
    at,          \* next statement of the thread; "exited" once it is gone
    cur,         \* the VM the for loop is at
    ret,         \* where the running start() returns to
    attempt,     \* loop variable of start()'s connection loops
    allRunning,  \* local all_running of VR.start()
    started,     \* local started of VR.start()
    \* the VM objects
    p,           \* self.p, and what communicate() says of the process
    running,     \* self.running
    spins,       \* self.spins
    \* the world outside the thread
    qemus,       \* live qemu processes holding the VM's ports
    guest,       \* where the guest of the VM is in its boot
    nicsUp,      \* have all provisioned interfaces been plugged in?
    health,      \* content of /health
    faults,      \* failures injected so far (bounded by MaxFaults)
    \* history
    reads,       \* fruitless reads since the VM was last given up (saturates)
    wrote        \* has this launcher process written /health yet?

thread == <<at, cur, ret, attempt, allRunning, started>>
world  == <<qemus, guest, nicsUp, health, faults>>
vars   == <<thread, p, running, spins, world, reads, wrote>>

VMs == 1 .. N

\* Statements of work() and what it calls; the rest of the loop is
\* "health" and "write".
StartLabels == {"stop", "start", "monitor", "serial"}
WorkLabels  == {"check", "poll", "spin", "config", "tally"} \cup StartLabels
Labels      == WorkLabels \cup {"health", "write", "exited"}

TypeOK ==
    /\ at \in Labels
    /\ cur \in VMs
    /\ ret \in {"poll", "spin", "giveup", "tally"}
    /\ attempt \in 1 .. MaxRetries
    /\ allRunning \in BOOLEAN
    /\ started \in BOOLEAN
    /\ p \in [VMs -> {"none", "up", "exited", "failed"}]
    /\ running \in [VMs -> BOOLEAN]
    /\ spins \in [VMs -> 0 .. MaxSpins + 1]
    /\ qemus \in [VMs -> Nat]
    /\ guest \in [VMs -> {"off", "booting", "login", "idle", "shell"}]
    /\ nicsUp \in BOOLEAN
    /\ health \in {"absent", "empty", "starting", "running", "failed"}
    /\ faults \in 0 .. MaxFaults
    /\ reads \in [VMs -> 0 .. MaxSpins + 1]
    /\ wrote \in BOOLEAN

Init ==
    /\ at = "check" /\ cur = 1 /\ ret = "poll" /\ attempt = 1
    /\ allRunning = TRUE /\ started = FALSE
    /\ p = [v \in VMs |-> "none"]
    /\ running = [v \in VMs |-> FALSE]
    /\ spins = [v \in VMs |-> 0]
    /\ qemus = [v \in VMs |-> 0]
    /\ guest = [v \in VMs |-> "off"]
    /\ nicsUp = FALSE
    /\ health = "absent"
    /\ faults = 0
    /\ reads = [v \in VMs |-> 0]
    /\ wrote = FALSE

(***************************************************************************)
(* start(), stop() and an exception nobody catches.                         *)
(***************************************************************************)

\* Jump to stop(); start(), to come back at r.
CallRestart(r) == at' = "stop" /\ ret' = r

\* An uncaught exception ends launch.py, the container's entrypoint, and
\* with it the VM objects and every process of the container.
Raise ==
    /\ at' = "exited"
    /\ p' = [v \in VMs |-> "none"]
    /\ running' = [v \in VMs |-> FALSE]
    /\ qemus' = [v \in VMs |-> 0]
    /\ guest' = [v \in VMs |-> "off"]
    /\ UNCHANGED <<cur, ret, attempt, allRunning, started, spins, nicsUp,
                   health, reads, wrote>>

\* Mutant of Stop: the process is forgotten but not terminated.
StopNoTerminate ==
    /\ at = "stop"
    /\ running' = [running EXCEPT ![cur] = FALSE]
    /\ p' = [p EXCEPT ![cur] = IF p[cur] = "up" THEN "exited" ELSE p[cur]]
    /\ guest' = [guest EXCEPT ![cur] = "off"]
    /\ at' = "start"
    /\ UNCHANGED <<cur, ret, attempt, allRunning, started, spins, qemus,
                   nicsUp, health, faults, reads, wrote>>

\* stop(): the flag is cleared first; terminate(), and kill() ten seconds
\* later, end the process self.p stands for.
Stop ==
    /\ at = "stop"
    /\ running' = [running EXCEPT ![cur] = FALSE]
    /\ p' = [p EXCEPT ![cur] = IF p[cur] = "up" THEN "exited" ELSE p[cur]]
    /\ qemus' = [qemus EXCEPT ![cur] = IF p[cur] = "up" THEN @ - 1 ELSE @]
    /\ guest' = [guest EXCEPT ![cur] = "off"]
    /\ at' = "start"
    /\ UNCHANGED <<cur, ret, attempt, allRunning, started, spins, nicsUp,
                   health, faults, reads, wrote>>

\* stop(): neither signal ends the process and the last wait() raises.
StopRaises ==
    /\ at = "stop"
    /\ p[cur] = "up"
    /\ faults < MaxFaults /\ faults' = faults + 1
    /\ Raise

\* start() up to Popen: gen_nics() first polls until the interfaces the
\* topology promises are all there.
Launch ==
    /\ at = "start"
    /\ nicsUp
    /\ p' = [p EXCEPT ![cur] = "up"]
    /\ qemus' = [qemus EXCEPT ![cur] = @ + 1]
    /\ guest' = [guest EXCEPT ![cur] = "booting"]
    /\ at' = "monitor" /\ attempt' = 1
    /\ UNCHANGED <<cur, ret, allRunning, started, running, spins, nicsUp,
                   health, faults, reads, wrote>>

\* start(): scrapli_qm.open() succeeds; on to the serial console.
OpenMonitor ==
    /\ at = "monitor"
    /\ qemus[cur] > 0
    /\ at' = "serial" /\ attempt' = 1
    /\ UNCHANGED <<cur, ret, allRunning, started, p, running, spins, world,
                   reads, wrote>>

\* Mutant of ReturnFromStart: the counter survives the restart.
ReturnKeepSpins ==
    /\ at' = IF ret = "giveup" THEN "tally" ELSE ret
    /\ spins' = spins

\* The statement after start() for each of its callers; a launcher that
\* clears the counter does it once start() is back.
ReturnFromStart ==
    /\ at' = IF ret = "giveup" THEN "tally" ELSE ret
    /\ spins' = IF ret = "giveup" /\ ResetOnGiveUp
                THEN [spins EXCEPT ![cur] = 0] ELSE spins

\* start(): scrapli_tn.open() succeeds and start() returns.
OpenSerial ==
    /\ at = "serial"
    /\ qemus[cur] > 0
    /\ ReturnFromStart
    /\ UNCHANGED <<cur, ret, attempt, allRunning, started, p, running, world,
                   reads, wrote>>

\* An attempt to connect fails and another one is left.  A live qemu opens
\* its ports before the last attempt.
RetryOpen ==
    /\ at \in {"monitor", "serial"}
    /\ attempt < MaxRetries
    /\ attempt' = attempt + 1
    /\ UNCHANGED <<at, cur, ret, allRunning, started, p, running, spins,
                   world, reads, wrote>>

\* The last attempt fails because the process is gone: QemuBroken.
RaiseQemuBroken ==
    /\ at \in {"monitor", "serial"}
    /\ attempt = MaxRetries
    /\ qemus[cur] = 0
    /\ Raise
    /\ UNCHANGED faults

(***************************************************************************)
(* work(): check_qemu() and then, unless running, bootstrap_spin().         *)
(***************************************************************************)

AfterCheck == IF running[cur] THEN "tally" ELSE "spin"

\* check_qemu(): the first work() of a VM starts it, any other one polls it.
CheckQemu ==
    /\ at = "check"
    /\ IF p[cur] = "none"
       THEN at' = "start" /\ ret' = "poll"
       ELSE at' = "poll" /\ ret' = ret
    /\ UNCHANGED <<cur, attempt, allRunning, started, p, running, spins,
                   world, reads, wrote>>

\* check_qemu(): communicate() times out (the process lives) or returns no
\* error output (it exited quietly): nothing is done about it.
PollQuiet ==
    /\ at = "poll"
    /\ p[cur] \in {"up", "exited"}
    /\ at' = AfterCheck
    /\ UNCHANGED <<cur, ret, attempt, allRunning, started, p, running, spins,
                   world, reads, wrote>>

\* Mutant of PollError: the error output is logged and nothing else.
PollErrorIgnored ==
    /\ at = "poll"
    /\ p[cur] = "failed"
    /\ at' = AfterCheck
    /\ UNCHANGED <<cur, ret, attempt, allRunning, started, p, running, spins,
                   world, reads, wrote>>

\* check_qemu(): the process exited and left error output: restart it, and
\* go on to bootstrap_spin().
PollError ==
    /\ at = "poll"
    /\ p[cur] = "failed"
    /\ CallRestart("spin")
    /\ UNCHANGED <<cur, attempt, allRunning, started, p, running, spins,
                   world, reads, wrote>>

\* bootstrap_spin(): too many spins, restart the VM.
GiveUp ==
    /\ at = "spin"
    /\ spins[cur] > MaxSpins
    /\ CallRestart("giveup")
    /\ reads' = [reads EXCEPT ![cur] = 0]
    /\ UNCHANGED <<cur, attempt, allRunning, started, p, running, spins,
                   world, wrote>>

\* bootstrap_spin(): expect() read the console for a second without a match;
\* any output clears the counter before it is incremented.
SpinNoMatch(output) ==
    /\ at = "spin"
    /\ spins[cur] <= MaxSpins
    /\ p[cur] = "up"
    /\ guest[cur] \in {"booting", "idle"}
    /\ output => guest[cur] = "booting"
    /\ spins' = [spins EXCEPT ![cur] = (IF output THEN 0 ELSE @) + 1]
    /\ reads' = [reads EXCEPT ![cur] = IF @ > MaxSpins THEN @ ELSE @ + 1]
    /\ at' = "tally"
    /\ UNCHANGED <<cur, ret, attempt, allRunning, started, p, running, world,
                   wrote>>

\* expect() times out between two fragments of the prompt: both are thrown
\* away, and the guest now waits for a login nobody will type.
SpinSplitPrompt ==
    /\ at = "spin"
    /\ spins[cur] <= MaxSpins
    /\ p[cur] = "up"
    /\ guest[cur] = "login"
    /\ faults < MaxFaults /\ faults' = faults + 1
    /\ guest' = [guest EXCEPT ![cur] = "idle"]
    /\ spins' = [spins EXCEPT ![cur] = 1]
    /\ reads' = [reads EXCEPT ![cur] = IF @ > MaxSpins THEN @ ELSE @ + 1]
    /\ at' = "tally"
    /\ UNCHANGED <<cur, ret, attempt, allRunning, started, p, running, qemus,
                   nicsUp, health, wrote>>

\* bootstrap_spin(): the login prompt is matched and answered.
SpinLogin ==
    /\ at = "spin"
    /\ spins[cur] <= MaxSpins
    /\ p[cur] = "up"
    /\ guest[cur] = "login"
    /\ guest' = [guest EXCEPT ![cur] = "shell"]
    /\ at' = "config"
    /\ UNCHANGED <<cur, ret, attempt, allRunning, started, p, running, spins,
                   qemus, nicsUp, health, faults, reads, wrote>>

\* bootstrap_config() and startup_config(): every wait_write() waits, without
\* a timeout, for the shell's "#", which the output of a boot may contain
\* too; then the VM is running.
Configure ==
    /\ at = "config"
    /\ p[cur] = "up"
    /\ guest[cur] \in {"shell", "booting"}
    /\ running' = [running EXCEPT ![cur] = TRUE]
    /\ at' = "tally"
    /\ UNCHANGED <<cur, ret, attempt, allRunning, started, p, spins, world,
                   reads, wrote>>

\* The console of a dead qemu disconnects: work() restarts on EOFError ...
ConsoleEof ==
    /\ \/ at = "spin" /\ spins[cur] <= MaxSpins
       \/ at = "config"
    /\ p[cur] # "up"
    /\ CallRestart("tally")
    /\ UNCHANGED <<cur, attempt, allRunning, started, p, running, spins,
                   world, reads, wrote>>

\* ... and any other exception of the console library ends the launcher.
ConsoleRaises ==
    /\ \/ at = "spin" /\ spins[cur] <= MaxSpins
       \/ at = "config"
    /\ p[cur] # "up"
    /\ Raise
    /\ UNCHANGED faults

(***************************************************************************)
(* The rest of VR.start()'s loop.                                           *)
(***************************************************************************)

\* Mutant of Tally: looks at the first VM every time.
TallyFirst ==
    /\ at = "tally"
    /\ allRunning' = (allRunning /\ running[1])
    /\ IF cur < N THEN cur' = cur + 1 /\ at' = "check"
                  ELSE cur' = cur /\ at' = "health"
    /\ UNCHANGED <<ret, attempt, started, p, running, spins, world, reads,
                   wrote>>

\* `if vm.running != True: all_running = False', and the next VM.
Tally ==
    /\ at = "tally"
    /\ allRunning' = (allRunning /\ running[cur])
    /\ IF cur < N THEN cur' = cur + 1 /\ at' = "check"
                  ELSE cur' = cur /\ at' = "health"
    /\ UNCHANGED <<ret, attempt, started, p, running, spins, world, reads,
                   wrote>>

\* update_health(): open("/health", "w") truncates the file ...
TruncateHealth ==
    /\ at = "health"
    /\ health' = "empty"
    /\ at' = "write"
    /\ UNCHANGED <<cur, ret, attempt, allRunning, started, p, running, spins,
                   qemus, guest, nicsUp, faults, reads, wrote>>

\* Mutant of WriteHealth: `started = True' is missing.
WriteNotStarted ==
    /\ at = "write"
    /\ health' = IF allRunning THEN "running"
                 ELSE IF started THEN "failed" ELSE "starting"
    /\ wrote' = TRUE
    /\ at' = "check" /\ cur' = 1 /\ allRunning' = TRUE
    /\ UNCHANGED <<ret, attempt, started, p, running, spins, qemus, guest,
                   nicsUp, faults, reads>>

\* Mutant of WriteHealth: `started = True' in every round.
WriteStartedAlways ==
    /\ at = "write"
    /\ health' = IF allRunning THEN "running"
                 ELSE IF started THEN "failed" ELSE "starting"
    /\ started' = TRUE
    /\ wrote' = TRUE
    /\ at' = "check" /\ cur' = 1 /\ allRunning' = TRUE
    /\ UNCHANGED <<ret, attempt, p, running, spins, qemus, guest, nicsUp,
                   faults, reads>>

\* ... and close() writes it; then the next round of the loop.
WriteHealth ==
    /\ at = "write"
    /\ health' = IF allRunning THEN "running"
                 ELSE IF started THEN "failed" ELSE "starting"
    /\ started' = (started \/ allRunning)
    /\ wrote' = TRUE
    /\ at' = "check" /\ cur' = 1 /\ allRunning' = TRUE
    /\ UNCHANGED <<ret, attempt, p, running, spins, qemus, guest, nicsUp,
                   faults, reads>>

Thread ==
    \/ Stop \/ StopRaises \/ Launch \/ OpenMonitor \/ OpenSerial
    \/ RetryOpen \/ RaiseQemuBroken
    \/ CheckQemu \/ PollQuiet \/ PollError
    \/ GiveUp \/ (\E output \in BOOLEAN : SpinNoMatch(output))
    \/ SpinSplitPrompt \/ SpinLogin \/ Configure
    \/ ConsoleEof \/ ConsoleRaises
    \/ Tally \/ TruncateHealth \/ WriteHealth

(***************************************************************************)
(* The world: guests, qemu processes, containerlab and docker.              *)
(***************************************************************************)

GuestBoots(v) ==
    /\ guest[v] = "booting"
    /\ guest' = [guest EXCEPT ![v] = "login"]
    /\ UNCHANGED <<thread, p, running, spins, qemus, nicsUp, health, faults,
                   reads, wrote>>

GuestReboots(v) ==
    /\ guest[v] \in {"login", "idle", "shell"}
    /\ RebootInDialogue \/ at # "config" \/ cur # v
    /\ faults < MaxFaults /\ faults' = faults + 1
    /\ guest' = [guest EXCEPT ![v] = "booting"]
    /\ UNCHANGED <<thread, p, running, spins, qemus, nicsUp, health, reads,
                   wrote>>

\* The process of self.p exits, with error output ("failed") or without.
QemuExits(v, how) ==
    /\ p[v] = "up" /\ at # "exited"
    /\ faults < MaxFaults /\ faults' = faults + 1
    /\ p' = [p EXCEPT ![v] = how]
    /\ qemus' = [qemus EXCEPT ![v] = @ - 1]
    /\ guest' = [guest EXCEPT ![v] = "off"]
    /\ UNCHANGED <<thread, running, spins, nicsUp, health, reads, wrote>>

PlugNics ==
    /\ at # "exited"
    /\ ~nicsUp
    /\ nicsUp' = TRUE
    /\ UNCHANGED <<thread, p, running, spins, qemus, guest, health, faults,
                   reads, wrote>>

DockerStop ==
    /\ at # "exited"
    /\ faults < MaxFaults /\ faults' = faults + 1
    /\ Raise

\* The container is started again: a new launcher process on the old files.
DockerStart ==
    /\ at = "exited"
    /\ at' = "check" /\ cur' = 1 /\ ret' = "poll" /\ attempt' = 1
    /\ allRunning' = TRUE /\ started' = FALSE
    /\ spins' = [v \in VMs |-> 0]
    /\ reads' = [v \in VMs |-> 0]
    /\ nicsUp' = FALSE
    /\ wrote' = FALSE
    /\ UNCHANGED <<p, running, qemus, guest, health, faults>>

World ==
    \/ \E v \in VMs : GuestBoots(v) \/ GuestReboots(v)
    \/ \E v \in VMs, how \in {"exited", "failed"} : QemuExits(v, how)
    \/ PlugNics \/ DockerStop \/ DockerStart

Next == Thread \/ World

Spec == Init /\ [][Next]_vars

\* The thread keeps running; containerlab plugs in what the topology names;
\* a guest that is started over and over boots, one time or another, before
\* its console has been read too often.
Fairness ==
    /\ WF_vars(Thread)
    /\ WF_vars(PlugNics)
    /\ \A v \in VMs : SF_vars(GuestBoots(v) /\ spins[v] <= MaxSpins)

FairSpec == Spec /\ Fairness

(***************************************************************************)
(* What docker's HEALTHCHECK sees.                                          *)
(***************************************************************************)

\* Exit status of healthcheck.py; the empty file of a rewrite in progress
\* cannot be split and ends the probe with a traceback.
HealthExit(content) ==
    CASE content = "absent"  -> 2
      [] content = "running" -> 0
      [] OTHER               -> 1

\* The probe runs inside the container, while the launcher lives.
Healthy == at # "exited" /\ HealthExit(health) = 0

(***************************************************************************)
(* Properties.                                                              *)
(***************************************************************************)

\* check_qemu(), the give-up path and the EOF path all restart with stop()
\* before start(), so that two qemu processes never compete for the monitor
\* and serial ports of one VM.
OneQemu == \A v \in VMs : qemus[v] <= 1

\* Once the VR has come up, the probe reports a VM that is down as healthy
\* for the rest of one round at most: only between the VM's own work() in
\* which it was stopped and the rewrite of /health that ends the round.
StalenessBound ==
    Healthy /\ started =>
        \A v \in VMs :
            running[v] \/ (at \in WorkLabels /\ v <= cur) \/ at = "health"

\* A launcher process that has not brought all VMs up yet is reported
\* healthy only by the file a previous life of the container left behind,
\* and no longer than until its own first update_health().
HealthyOnlyFromPast == Healthy /\ ~started => ~wrote

\* A VM is given up only after more than MaxSpins reads of its console
\* without a match since it was last given up ("too many spins with no
\* result", the comment on the branch of bootstrap_spin()).
GiveUpEarned ==
    at = "spin" /\ spins[cur] > MaxSpins => reads[cur] > MaxSpins

\* When the failures stop, the VR is reported healthy again and again, or
\* the launcher has ended for good: no VM is restarted for ever, and no VM
\* keeps the single thread from the others.
Recovers == []<>Healthy \/ <>[](at = "exited")

\* A qemu process that exits with error output is replaced by a new one,
\* whatever the other VMs do, unless the launcher ends.
FailureRestarted ==
    \A v \in VMs : p[v] = "failed" ~> (p[v] = "up" \/ at = "exited")

(***************************************************************************)
(* Refinement: the supervision loop implements VirtualRouter.               *)
(***************************************************************************)

VR == INSTANCE VirtualRouter WITH
    live    <- {v \in VMs : p[v] = "up"},
    up      <- {v \in VMs : running[v]},
    report  <- health,
    serving <- started

\* The health report VR.start() assembles VM by VM over a round, while qemu
\* processes come and go, is one that could have been published atomically.
ImplementsVirtualRouter == VR!Spec

=============================================================================
