# A TLA+ model of vrnetlab

vrnetlab packs router images that are built as virtual machines into docker
containers. In every container a Python *launcher* (`launch.py` of a platform,
on top of `common/vrnetlab.py`) builds a qemu command line, starts the qemu
processes, logs in on their serial consoles, configures them, watches them for
ever, and reports their health to docker. containerlab creates the network
interfaces of the container while the launcher is already running.

This directory holds TLA+ modules that model the launcher, TLC configurations
that check them on small instances, and theorems TLAPS proves for all instances.
All paths below are relative to the repository.

## 1. Inventory

| part | state | operations | talks to |
|---|---|---|---|
| supervision loop: `VR.start()`, `VM.work()`, `check_qemu()`, `start()`, `stop()`, `restart()` (`common/vrnetlab.py`) | `self.p`, `self.running`, `self.spins`; the locals `started`, `all_running` | poll, start, stop, restart, tally, publish | qemu processes, serial consoles, `/health` |
| health report: `update_health()`, `common/healthcheck.py` | `/health` | truncate and write; read and split | docker's HEALTHCHECK |
| NIC plan: `nic_provision_delay()`, `gen_nics()`, `gen_dummy_nics()`, the bridges of `start()` | `num_mgmt_nics`, `highest_provisioned_nic_num`, `insuffucient_nics`, `/sys/class/net` | wait, plan each NIC, add dummies | containerlab |
| snapshot save: `snapshot_save()`, `snapshot_save_to_dir()`, `_qemu_monitor_cmd()` | monitor socket, temporary directory, `/snapshot-output.tar`, `/snapshot-save` | pause, migrate, copy, poll, ask, resume, tar | qemu monitor, copying threads, user |
| disks and restore: `snapshot_restore()`, the disk part of `VM.__init__()`, the restore part of `VM.start()` | `/snapshot-data`, overlay images | extract, create, load, resume | docker (restart, new container) |
| request files: `/reset` and `/snapshot-save` in `VR.start()` | the two files | look, read, act, remove | users |
| serial console: `_Console`, `wait_write()` | the unread part of the stream | `expect`, `read_until` | guest |
| management interface: `gen_mgmt()` and the address helpers | command line text | | guest |
| datapath: `create_tc_tap_ifup()`, `create_macvtap()` | scripts, links | | kernel |
| platform launchers: one `launch.py` each (`bootstrap_spin()`, `bootstrap_config()`) | `spins`, `credentials`, readiness flags | spin, log in, configure | guest |
| multi-VM platforms: `nokia/sros`, `juniper/vmx`, `juniper/vqfx` | as above, per card | | other VMs |
| `openwrt/` | the guest's configuration files | bring them to what the environment asks for, at every boot | guest, name server |
| `fortinet/`, bootstrap: `FOSCommander`, `FOSCliDriver`, the features (`common/fos_commander.py`, `cli_commands.py`, `features/`) | the queue of features, the block and the command under way, the scope of the prompt, cleanups, errors | activate, dispatch, complete, replay, skip | FortiOS console |
| `fortinet/`, requests: `ConfigSaveFeature`, `FeatureFileWatcher`, `connect_serial_console()` | `/get-config`, `current.conf`, the records of `get-config.status.d` | poll, accept or reject, capture, answer, consume | hosts (`/get-config`), FortiOS console, qemu |

What is hard here: one thread works for all VMs and most of its waits have no
timeout; processes exit at any moment, noisily or quietly; a container restart
keeps the files and loses everything else; the interfaces of the container come
and go; the qemu monitor answers late; a snapshot is put together by qemu, by
copying threads and by the launcher; disks and memory of several containers
must fit together; a configuration is edited route by route on a disk that
outlives crashes and containers; a user makes a request while another one is
served; an interactive console is driven command by command while it loses
sessions and leaves scopes. `PROJECT.json` lists these hazards with their lines and the
properties that would catch them going wrong.

## 2. Modules

| module | models | state and actions |
|---|---|---|
| `VirtualRouter` | the abstract promise of a container | which VMs have a process, which are up, the published report |
| `Supervisor` | the loop and everything it calls | `at` is the next statement of the thread, `cur` the VM of the `for` loop, `ret` the caller of `start()`; one action per statement that does or decides something, an action for every exception path, and the world's steps: boots, reboots, process exits, docker |
| `NicPlan` | the command line's NICs | `pc` follows `start()`; `GenNic` is one turn of the loop of `gen_nics()`, which asks for each interface anew; `Plug` and `Unplug` are containerlab |
| `SnapshotSave` | one request for a snapshot, several VMs | the launcher's steps, a command queue and an answer queue per monitor, qemu executing commands, migrations and copies that end or fail |
| `SnapshotRestore` | several containers, one VM | qcow2 files with their own writes and their backing path; extract, prepare, start, save; docker run and restart |
| `Bootstrap` | `bootstrap_spin()` of one VM, for any launcher | what the VM's object remembers, what the guest's disk and console keep; one action per outcome of a turn, and qemu's exit and docker restart |
| `Platforms` | the launchers | a constant each: what `launch.py` waits for, remembers, counts, logs in with, and what happens when its configuration fails |
| `OpenWrt` | `bootstrap_config()` of the OpenWrt launcher over several boots of one disk | the routes of the guest in their order, `/etc/hosts`, the interface, the zone, the mark of the first boot, and the launcher's locals with their stale texts; one action per commit, and the world's boots, in another environment, and the owner's routes |
| `VmRequests` | the request files of `VR.start()` | what each file stands for and lists, where the loop is, and each request from the shell that opens the file to its end: served, torn, hidden or lost |
| `FosCommander` | the bootstrap of a Fortinet VM | `cli` is the commander, `guest` the console, `typed` and `rx` the two directions of the line; `Read` is one state recognised by the driver with all the commander does with it, written as operators from one state of the commander to the next, one per method |
| `GetConfig` | the requests for the configuration of a running Fortinet VM | the files hosts and launcher share, `at` the place of the loop, `cmd` the commander's, the serial line, the versions of the guest's configuration; a block of settings (the output mode before the capture and after it) is one command |
| `SupervisorProofs`, `NicPlanProofs`, `SnapshotSaveProofs`, `SnapshotRestoreProofs`, `BootstrapProofs` (also of `VmRequests`), `OpenWrtProofs`, `FortinetProofs` (of both Fortinet modules), `ConfiguredProofs` (of `FosCommander`, continued) | the theorems | |
| `MC...` | the instances for TLC | |

`Supervisor` implements `VirtualRouter` under a refinement mapping (a VM is live
if `self.p` is, up if `self.running` is set, the report is `/health`): the loop
puts a report together VM by VM while processes come and go, and every report
it publishes is one that could have been published at once.

The modules meet at a few points, where each keeps of the other what it needs.
`Launch` of `Supervisor` waits for `nicsUp`, which `NicPlan` opens up into the
wait for interfaces and the plan that follows; `Start` of `SnapshotRestore` is
`start()` of `Supervisor` seen from the files; and the one step `Save` of
`SnapshotRestore` is what `SnapshotSave` does in detail. `Supervisor` has the
bootstrap of one launcher, veos, with the loop around it and several VMs;
`Bootstrap` has that of all launchers, with the restarts of the loop but only
one VM; what a turn of the last does in the OpenWrt launcher is `OpenWrt`. `saving` of
`VmRequests` is what `SnapshotSave` does, and its `Look` and `Remove` are the
ends of that module's request. `GetConfig` begins where the bootstrap of
`FosCommander` has succeeded, with one feature and the commands of one capture,
and has the loop of `Supervisor` around it for one VM.

Abstractions. A read of the console is a fruitless one with or without output,
a matched prompt, or a prompt torn in two. A login and configuration dialogue
is one step that needs a guest which answers. What a guest does between two
moments is a version number, or a set of numbered writes. In `Bootstrap` the
prompts of all guests have seven names (`login`, `shell`, `setup` and so on),
and what a launcher does at one is a set in its profile; a prompt it answers
only to get on is output like any other, the modes that build images are left
out, and so is the difference between a counter that starts again at 0 and one
that starts at 1. The counters of cumulus and truenas, which also grow while
something else than the console is polled, are covered by reads with and
without output in any order. A prompt that belongs to the first boot (`once`) is
one that the launcher's own configuration replaces and saves, a first-boot
dialogue, or ZTP, which arcos disables: the code shows what is configured, and
that the guest keeps it is assumed. Command lines are the
slots of their NICs. In `OpenWrt` the `uci set` commands up to their commit are
one step, since a crash loses what is not committed; an address stands for its
network and gateway; the guest's answers arrive before the launcher reads them,
but for those to `ls /.firstboot` and to the look at `br-lan`, which may be
missing; the owner edits the configuration only while the launcher does not; and a text
is searched for whole words (`10.0.0.1` is not found in `110.0.0.1`, as a
substring or an unanchored `sed` would). Texts, logs and the contents of configurations are left
out.

In `VmRequests` a request is its maker, `/reset` lists what one `echo` wrote,
and a file that a user removes itself is left out. In `FosCommander` a line of
the console is a command, a prompt the path of the scope it shows; the guest
refuses a setting, leaves a scope, prints behind its prompt or ends the session
at any moment. Left out are: cleanups registered by a feature (none does),
commands of several lines, features that compute their blocks while they wait,
`expected_completion_state`, kernel panics, the driver's credentials, and the
newline it sends to a console that has stalled. `seen` remembers what the
properties except: a scope left while a command changes it, a cleanup cut off, a
prompt taken for output, a confirmation typed into a login, and a reboot nobody
announced. The exceptions of `submit_block()` and `feature_complete()` for an inactive
feature or a busy commander (`fos_commander.py:205-208`, `220-221`) are left out,
as no state of the model reaches them. In `GetConfig` a configuration is its
version; records are swept at any age; writes of records do not fail, the
baseline is there, and a container is not restarted. A trigger that cannot be
unlinked (`features/capture_config.py:354`, logged only) is left out as well:
with it `AnswerOnce` would fail, since a trigger that was written after the poll
that saw it would be taken for another one at the next. A request without an id
(`touch`) has a host of its own, whose record nobody reads.

Operators whose comment begins with "Mutant" are wrong versions of the
definition that follows; they are used by no specification. Each shows that a
property notices the mistake.

## 3. Runs

| run | instance | shows |
|---|---|---|
| `supervisor` | `MCSupervisor.cfg` | `OneQemu`, `StalenessBound`, `HealthyOnlyFromPast`, `GiveUpEarned`, the refinement, and the liveness properties `Recovers` and `FailureRestarted` |
| `nic_plan` | `MCNicPlan.cfg` | `SlotsDisjoint`, `EthsWired` (`GuestNumbering` and `AllWired`), `BusExists`, `Launches` |
| `nic_plan_gap` | `MCNicPlanGap.cfg` | violation: dummies collide with NICs when links have gaps |
| `snapshot_save` | `MCSnapshotSave.cfg` | `ArchiveComplete` (`SnapshotSound` and `DevicesSaved`) while qemu keeps up, `PausedForSaving` |
| `snapshot_save_live` | `MCSnapshotSaveLive.cfg` | `SaveEnds` (`Resumed` and `RequestAnswered`), with migrations that outlast the timeout |
| `snapshot_restore` | `MCSnapshotRestore.cfg` | `ExactUntilRestart`, `NothingLost`, `Startable` |
| `bootstrap` | `MCBootstrap.cfg` | `ReadyAfterBoot`, `SilenceBounded` and the liveness property `RecoversOrStuck`, for every launcher |
| `openwrt` | `MCOpenWrt.cfg` | `RoutesOfDomains` (`AddressesRouted` and `NothingOutdated`), `TemporaryRoutes`, `ManagementOfMode`, `RouterUsable` (`AllApplied` and `LoginPossible`), `OwnRoutesKept` |
| `vm_requests` | `MCVmRequests.cfg` | `ResetAsAsked`, `LostBehindAnother`, and the liveness property `Answered` |
| `fos_commander` | `MCFosCommander.cfg` | `OneAtATime`, `InIntendedScope`, `HealthyMeansConfigured`, `OneLossSurvived`, and the liveness property `Ends` |
| `get_config` | `MCGetConfig.cfg` | `OutputFresh`, `PendingServed`, `AnswerOnce`, and the liveness property `Answered` |
| `get_config_fails` | `MCGetConfigFails.cfg` | violation: the console goes away under a request that was accepted, the launcher stops, and the record stays pending |

Most type invariants that are theorems (section 4) are not repeated in the runs.

More places where the code does something else than a doc or a comment says,
each shown by an instance of its own (`tlc -config X.cfg MC...`), which ends in a
counterexample:

| instance | module | property | what happens |
|---|---|---|---|
| `MCSupervisorVeos.cfg` | `MCSupervisor` | `GiveUpEarned` | the give-up branch of most launchers ("too many spins with no result ->  give up", `arista/veos/docker/launch.py:62`) keeps `spins`: the restarted VM is given up before its console was read once |
| `MCNicPlanFull.cfg` | `MCNicPlan` | `BusExists` | `gen_nics()` rounds otherwise than `start()`: with as many NICs as fill their bridges the last one is on a bridge that was not created |
| `MCSnapshotTimeout.cfg` | `MCSnapshotSave` | `SnapshotSound` | a migration longer than 600 seconds ("Wait for migration complete", `common/vrnetlab.py:1327`) counts as completed, and the archive holds a torn state |
| `MCSnapshotResave.cfg` | `MCSnapshotRestore` | `SnapshotsRestorable` | the snapshot of a restored VM ("You can snapshot all VMs in a running container", `README.md:121`) holds an overlay that names the path it is extracted to as the file behind it (`common/vrnetlab.py:414`): the restored VM has a disk that never opens |
| `MCSnapshotResume.cfg` | `MCSnapshotRestore` | `ExactState` | a restored VM that is started again ("exact same state", `README.md:123`) has the memory of the snapshot on a disk that has been written to |
| `MCFosSkip.cfg` | `MCFosCommander` | `LaterFeaturesInScope` | a feature that fails is skipped in the scope it had opened ("a failed feature is logged and skipped [...] and the remaining startup features continue", `fortinet/fortigate/docker/README.md:311`): the next one is typed there |
| `MCGetConfigDeath.cfg` | `MCGetConfig` | `DeathReported` | a qemu that dies after startup is replaced within the round, while `/health` goes on saying running ("so a VM that dies after startup still goes unhealthy", `fortinet/fortigate/README.md:378`) |
| `MCGetConfigRace.cfg` | `MCGetConfig` | `NewerTriggerSurvives` | a trigger written between the comparison and the unlink ("so the newer client is still served", `fortinet/fortigate/README.md:416`) is removed unread |

Bounds, and why they are enough:

- `supervisor`: two VMs, so that one VM's trouble meets the other's work in
  every order; `MaxSpins` 1 (300 in the code), two connection attempts (60),
  which leaves one retry and one last attempt; two failures, so that a second
  one hits the recovery from the first. `reads` saturates above `MaxSpins`.
- `nic_plan`: five NICs on bridges for three, so that the last slot is on the
  second bridge; links up to number 6, outside the VM's range; a minimum of
  three NICs and topologies below, at and above it; one lost link.
- `snapshot_save`: two VMs and two requests, so that the second snapshot meets
  what the first left in the monitors; two changes of a guest; two failures. At
  most `MaxPolls` commands wait in a monitor, which bounds the polls of a
  migration that takes long.
- `snapshot_restore`: three containers, three writes and three restarts: writes
  before and after a snapshot, and one after a restart.
- `bootstrap`: one VM of each launcher; a limit of three spins (300 to 7200), so
  that the counter grows, is cleared and runs out; two credentials, one more
  than any launcher starts with; three failures and restarts, so that a failed
  configuration, a dead qemu and a new launcher follow each other. The counters
  saturate above the limit, since the launchers that never give up count for
  ever.
- `openwrt`: three boots after the first, so that two that were interrupted can
  come before one that ends; three environments, which differ in mode, network,
  IPv6 and repositories; two domains with an address each, either of which a
  lookup may miss; one route of the owner, with or without a gateway.
- `vm_requests`: two VMs, so that one is reset while the other is not; three
  requests, so that one is served, one hides another and one comes behind it;
  one command or removal that fails.
- `fos_commander`: three features, one of each kind: a disk (listed, confirmed,
  rebooted), a block three scopes deep with two checked settings, and one that asks
  for another output mode, which needs a cleanup; two unexpected acts of the
  guest, so that the second one hits the recovery from the first; both error
  policies.
- `get_config`: two hosts, one of them a `touch`, so that one request meets the
  other at every place of the loop; two versions, before and after a request;
  two faults. The signature of the trigger has three values, one more than the
  watcher and the file hold at a time.

What `bootstrap` shows is a list of the ways to get stuck that is complete:
`RecoversOrStuck` says that a VM that is down comes up unless its launcher is
`Stuck`, and the theorem `StuckIsForGood` that no restart of the VM leads out of
that. The
four disjuncts of `Stuck` are a dialogue that hangs or raises, a counter the
give-up did not clear (all that count but vmx and vqfx), a launcher locked out without
credentials (nxos, ftosv, xrv), and one that waits for a prompt its own
configuration has replaced. Because nxos has one credential and
no restart refills its list, a VM of it that was restarted after its login is
such a case. For the launchers with flags that are not cleared
by a restart and stand for something the new qemu has to show again (xrv,
opnsense, cumulus: `Forgetful` is false), `BootSeen` fails and
`ReadyAfterBoot` says nothing. A configuration that fails and is only logged
(f5_bigip, truenas) counts as done: these properties are about prompts and
counters, not about what was configured.

`openwrt` says how far the configuration heals. Whatever an earlier boot left,
one that ends leaves the routes, hosts, interface and services its environment
asks for, with three exceptions the properties name: the temporary route of
each boot that was interrupted stays (`TemporaryRoutes` counts them), a first
boot that was interrupted after its mark leaves a router without users
(`LoginPossible`), and a management network that changes while the mode stays
is not noticed by the management route (`ManagementOfMode` speaks of the mode
only). `AddressesRouted` needs that no two domains share an address; with
`Serves` giving both domains both addresses TLC finds an address routed twice.

`vm_requests` says what becomes of the requests nobody answers. A request made
while the loop serves one of the same kind is removed with it
(`LostBehindAnother` says that no other is), one that is written over is hidden
by the newer one, and a `/reset` that the loop reads between its opening and its
writing resets all VMs (`ResetAsAsked` excepts it).

`fos_commander` says that the replay of interrupted blocks is right: whatever
session or scope is lost, every command is typed in the scope it was written
for, one loss is always survived, and a bootstrap that calls itself healthy has
saved every checked setting. It also says where this ends: a scope that is left
while the command on its way changes it is not noticed, a prompt that arrives as
output of a command leaves the commander waiting, and the last disk's reboot
must be announced. `get_config` says the same of requests: a host that reads
success finds an output that is new enough, and each host is answered but those
whose trigger is overtaken, whose capture raises, or whose launcher stops. Two
of its exceptions are worth a look. `OutputFresh` allows that there is no output
at all: a request that is accepted later drops it, so that a host which has read
success and has not yet read the file finds none, although
`fortinet/fortigate/README.md:406` calls the output "stable to read". And who
deals with an exception of a capture depends on where it is raised: in the
commander or the feature (a session lost twice, an output that cannot be
written) the commander skips the feature unless `FTNT_EXIT_ON_BOOTSTRAP_ERROR` is
set, and the launcher goes on; a console that goes away, or that policy, stops
the VM and the launcher (`launch.py:335`). The feature answers the host only when the
output cannot be written; in every other case the record stays pending, which
`get_config_fails` shows for a console that goes away.

`CHECK_DEADLOCK FALSE` stands in the snapshot configurations: without another
request, and once the bounds are used up, these systems are at rest. It also
stands in those of `Bootstrap`, `OpenWrt`, `FosCommander` and `GetConfig`, where
a launcher that hangs or has ended, a bootstrap that is over, and a router that
is up, is, and in that of `VmRequests`, where the loop may have lost all requests
but looks for them for ever. The
supervision loop and the NIC plan are checked for deadlock.

Fairness. `Supervisor`: the thread runs (`WF` of its steps), containerlab plugs
in what the topology names, and a guest that is started over and over boots, one
time or another, before its console was read too often (`SF`): without the last
nothing could be promised by a loop that restarts slow guests. Failures and
reboots have none. In the run guests reboot outside the configuration dialogue
only (`RebootInDialogue = FALSE`): inside of it the dialogue waits without a
timeout, and holds the thread. `NicPlan`: the launcher runs and missing links
come. `SnapshotSave`: the loop runs, qemu executes commands and ends
migrations, `cp` ends; the 600 second timeout is an action that may happen while
a migration is on its way. `Bootstrap`: the loop runs (`WF` of what needs no
guest), and a guest that could again and again show what the launcher waits for
does so one time or another (`SF`): as above, no loop that restarts slow guests
could do with less. Reads without a result, failures and restarts have none.
`VmRequests`: the loop turns, and a shell that has opened a file writes it.
`FosCommander`: the launcher keeps reading, the guest runs what it is given and
lets the driver log in. `GetConfig`: the loop turns, the guest answers and boots,
and what the console says is read in one of the launcher's spins (`SF`, since
each spin ends after ten seconds and the next one begins). Whatever goes wrong
has no fairness.

## 4. Proofs

`SupervisorProofs`, for any number of VMs and all values of the constants:
`Spec => []IInv`, where `IInv` strengthens the type invariant by facts about the
process table (a VM has a qemu process exactly while `self.p` is up, and none
between `stop()` and `Popen`), about the round (a VM the loop has passed and
tallied as running is still marked so, because nothing outside the VM's own
`work()` clears the flag), about the report (what `/health` says matches
`started`) and about the counters (more than `MaxSpins` spins only after more
than `MaxSpins` reads). The invariants the runs check follow from it, and so
does the step simulation for the refinement: each action of `Supervisor` maps
to an action of `VirtualRouter` or to a stutter. `GiveUpsEarned` needs
`ResetOnGiveUp`, and `MCSupervisorVeos.cfg` shows why.

`NicPlanProofs`, for any topology, any number of NICs and any bridge size:
`IInv` says which slot each planned device has while the loop is under way, that
`highest_provisioned_nic_num` is 0 or within reach of a link, and what has been
missed. `SlotsDisjointHolds` assumes that the links have no gaps or are at least
as many as the image needs; `BusExistsHolds` that the last slot is on a bridge.
`MCNicPlanGap.cfg` and `MCNicPlanFull.cfg` show that neither can be dropped.

`SnapshotRestoreProofs`, for any number of containers, writes and restarts:
`IInv` describes the files: the fresh overlay lies on the image, the restored
one on the extracted disk, and what is extracted is what was mounted. From it
follow the type invariant, `NothingLost`, `ExactUntilRestart` and `Startable`,
whatever was snapshotted. A snapshot remembers in `resaved`, which no step of
the launcher reads, whether it is one of a restored VM: the disk of such a one
lies on itself (`SelfBacked`) and never opens, so that its VM never runs, and
`Startable` says that it is the only one that does not.

`BootstrapProofs`, for every profile a launcher could have and any limit:
`IInv` adds to the type invariant that the counter is never behind the silence
it measures (`SilenceCounted`), which makes `SilenceBounded` inductive. It rests
on the counter being cleared by output or with the VM only. What a launcher's
profile is does not matter: these results hold of a launcher yet to be written
in the same shape. `StuckIsForGood` is an action
property: one lemma for each disjunct of `Stuck` shows that it is kept by every
step but `Relaunch`.

`SnapshotSaveProofs`, for any number of VMs, snapshots and failures, with a qemu
that is late (`Prompt = FALSE`) and migrations that outlast the timeout: what
pauses a guest is a stop or a migrate that waits in its monitor, or a migration
on its way, and unless the launcher is at this VM a cont waits behind each
(`WillResume`). `PausedForSaving` alone is not inductive: it does not say what
waits before the cont.

Its second part, for any number of VMs, earlier snapshots and failures, from
`Prompt` and `~SlowMigration`: whatever is in the archive is of one moment.
`AInv` follows the VM being saved from step to step of the launcher (`Stage`):
what may be in its monitor, that it stays paused from the stop to the end of the
migration and of the copy, and that an answer read is of this migration and not
of an earlier one. The other VMs have nothing of a snapshot left in their
monitors (`OthersIdle`), and those before it are saved (`EarlierKept`).
Where `broken` allows anything in a monitor, the launcher is shown to give up.
Neither assumption can be dropped: without each of them TLC finds an archive
with a torn state (`MCSnapshotTimeout.cfg` shows the timeout).

`OpenWrtProofs`, for any networks, repositories, addresses and environments, and
any number of boots, interrupted anywhere. Networks, addresses and the words for
other targets are different texts, and so are domain names and the other
comments (`OpenWrtAssumption`). `IInv` has a part for each thing the bootstrap
mends: the interface and the management route have the mode once their turn has
come (`MgmtInterface`, `MgmtRoutes`: before it, any earlier mode, but never two
routes); there are as many temporary routes as interrupted boots, and one more
between its addition and its removal (`DnsRoutes`, counted through the shift of
indexes that a removal is); a service that does not run with what is on the disk
is one that a later step of this boot reloads (`Pending`); what the scan has not
marked is asked for and has the right gateway (`RoutesScanned`), which stays
true while marked routes disappear from the highest index down. `RouteKinds`
says that a route has the comment of a repository exactly if it leads to an
address; without it nothing would follow for an address whose route was seen.
`OwnRoutesKeptHolds` gives for each step the map from old places to new ones.

`RoutesOfDomainsHolds` has the hypothesis `OneDomain`, that no address is given
for two repositories, since the text of the routes is searched for an address
while routes are deleted by domain. With it, `RInv` adds that routes to
addresses are unique and that the outdated text is right about them (`Found`):
the routes that were read end with the temporary one, so that the pattern, which
accepts any later gateway, always finds that one, and a route that was seen and
then deleted led to an address nobody asks for. Without it the part
`NothingOutdated` still holds (`NothingOutdatedHolds`).

Of `VmRequests`, also in `BootstrapProofs`, for any VMs and requests:
`RequestIInv` says what a file stands for (one request at most in `/reset`,
whose list is the one it wants), and that what the loop holds was read. `LostBehindAnotherHolds` is an action property: only the
removal loses a request, and none that was read.

`FortinetProofs` holds the proofs about both Fortinet modules,
`ConfiguredProofs` the rest of those about `FosCommander`.

Of `FosCommander`, for any features, blocks, disks and number of unexpected acts
of the guest, that the commander keeps one command in flight. `FosInv` says that
a line of the console carries one thing (`LineSound`): a command on its way to
the guest, or what comes back, in which one state at most is a prompt; and that
a line on its way is the one in flight (`Waiting`). `OneAtATime` is its second
half only and not inductive: it does not say that the commander waits. That the
commander types nothing else is shown operator by operator, one lemma for each
method (`WorkError` to `OnState`): each either types nothing or, from a
commander that is idle, one command that is in flight afterwards (`AtMostOne`).
They need the shape of the commander's state (`Good`): nothing waits behind the
inspection of the output mode, the features are in the queue, active, completed
or skipped and in one of these only, and a command in flight is a feature's, a
cleanup's or a reset's. The type invariant follows as well. `FosAssumption` says
what a list of features is: no feature is in it twice, one that is submitted at
once has a block, and what is typed is none of the commander's own lines and is
answered with a prompt, a confirmation or a reboot, and replayed after a loss
(the features that await something else or are not replayed, the logout of the
credentials and the upload of a license, are not modelled); and the feature that
formats disks is in the list when there are disks to format, since it completes
without a command otherwise.

Also of `FosCommander`, that every command of a block is typed in the scope it is
written for (`InIntendedScopeHolds`), whatever sessions and scopes the guest lost
and however often the block was replayed, until a feature is skipped.
`InIntendedScope` only looks at a command that is in flight, and only at the
scope the commander believes in; `ScopeInv` adds to `FosInv` what makes it true
of the next command:

- the commander is on its course (`OnCourse`): a command in flight is the next
  one of its block, typed in the scope `Intended` gives it, or a command of the
  cleanup, or the `abort` before a replay (`Fly`); between two commands the
  prompt shows the scope of the next one, and between two blocks, or when one is
  to be replayed, the top level (`Rest`);
- the guest is where the commander believes it (`Watched`): at the top level
  while nothing is in flight, in the scope of the last prompt while a command
  that opens or closes one is on its way, and behind it where it leads to, or it
  was refused and says so; a session that ended is heard of before the next
  prompt is read (`Heard`, `LineOrdered`);
- until work is given up or a scope is lost under a command that changes it
  (`seen.unseen`, the case the commander cannot notice; without it the guest
  part is not inductive). The commander's part goes on beyond.

As above it goes method by method: an operator leads from a commander at rest to
one at rest, ready or in flight, or gives the work up. `Intended` is a recursive
function over the block, and what it returns at a place would be an induction.
That `s[i + 1]` is `Enter(s[i], ...)` is shown from the least place where no such
sequence of scopes exists (`ScopesExist`), which needs no induction schema. The
hypothesis is `BlocksAssumption`: a block closes each scope that it opens and
ends where it began, which is what `Scope.flatten` builds, to any depth of blocks
and entries, around commands their scope knows; no scope has the name that
stands for a prompt never seen; and the output mode is left to the commander.

That no disk is formatted twice, and none but the additional ones
(`DisksFormattedOnce`, the first part of `HealthyMeansConfigured`), is shown for
every behaviour, also when work is given up or a scope is lost unseen.
`DiskInv` adds to `ScopeInv` what a stage of the feature has in flight
(`Formatting`), that only its last stage confirms a format (`Confirming`), that
a confirmation on its way is the command in flight (`Confirmed`), and that the
commander has passed each disk that was formatted (`Ahead`): the replay of a
block is the danger, and the block that confirms is not replayed.

`ConfiguredProofs` shows `HealthyMeansConfigured`, for any features, blocks, disks
and number of unexpected acts of the guest (`HealthyMeansConfiguredHolds`). It
speaks of the end only, and of the guest only; `ConfInv` adds to `DiskInv` an
account of everything typed so far, which the commander and the guest agree on
until the commander leaves an error behind:

- `Shown` is the guest's side: the disks formatted, the settings saved, the
  settings drafted in the scope under way, and the output mode. What was lost
  unseen excuses the part of it that it may have spoilt (`seen.unseen` the
  settings, `seen.skipped` and a reboot under way the disks, `seen.cleanupCut`
  the output mode);
- `Base` is the commander's: what a completed feature had to save is saved
  (`Held`), what the active one has to save is saved, in the block under way or
  in a block ahead (`Account`), the disks before the one under way are formatted
  (`Behind`), and the output mode is untouched, or to be restored (`Moded`);
- `Rested` and `Progress` are what lies between: a setting counts when its
  prompt comes back, but the guest keeps it as a draft of its scope and saves it
  when the top level is reached. A block that ran to its end has all its
  settings saved; before that, those answered are drafted or saved. A lost
  session or a fall takes the drafts back, and the commander starts the block
  over, so nothing it counted is needed any more;
- `BlockRun`, `CleanupRun` and `YesRun` say what the command in flight is about
  to change: a line on its way has not been counted, an answer on its way has
  taken effect, unless it says that the command was refused. `Within` says that
  the guest is in the scope the line led it to, or has left it and shows a
  shorter path, which rests on `ScopeInv`; `Stage` counts the three commands
  that restore the output mode.

The property itself is not inductive because it sees neither the drafts nor what
the commander believes of them. The proof goes method by method as above (`SubmitBlockConf` to `OnStateConf`), for
an account that stays as it is, and then once for each step of the guest, which
changes the account and leaves the commander alone. What `Checks` and
`Intended` say of a whole block is used position by position, so that no
induction is needed. The hypotheses are `FosAssumption` and `BlocksAssumption`.

Of `GetConfig`, for any hosts, versions and faults: `RequestsInv` says that a
command of the commander belongs to a pending request, that a trigger whose
request has a record is about to be consumed (`TriggerSound`), and that what the
console answers is no older than whoever waits for it (`AnswerSound`). From it
follow `OutputFresh`, `PendingServed` and the action property `AnswerOnce`.

Only model-checked: all liveness (TLAPS does not do fairness or `ENABLED`), and
of `FosCommander` the invariant `OneLossSurvived`. It counts the losses and falls
against the replays each block was granted, over the whole run: its inductive
form has to say for every state how much of the one loss the commander has
already heard of, which no invariant above does.

## 5. Not modelled, and the plan

Not modelled:

- the text of command lines and configurations, addresses, the datapath scripts
  and image builds: they are text, or run once, in order, and keep no state;
- of `fortinet/` the driver's credentials and their recovery
  (`features/credentials.py`), the contents of the other features (`license`,
  `pki`, `fortitoken`, `mgmt_net`: blocks and queries the commander treats like
  those of the instance), TFTP, and the redirection of the management network;
- a qemu that exits without error output once its VM runs is a step of
  `Supervisor` (nothing notices it), but no property says so;
- the overlay that `openwrt/` moves behind a link while the VM runs.

Planned, in this order:

1. The console: `expect()` and `read_until()` over a stream that arrives in
   pieces, with the buffer that is dropped on a timeout, and the newline the
   Fortinet driver sends to a console that has stalled.
2. The credentials of the Fortinet driver: a rejected password, the retry of the
   last accepted one and the password change that is not replayed.
3. Platforms of several VMs: how control and line cards wait for each other.
4. A theorem about `OneLossSurvived` of `FosCommander`, on top of `ConfInv`.
