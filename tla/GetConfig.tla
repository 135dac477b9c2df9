------------------------------ MODULE GetConfig ------------------------------
(***************************************************************************)
(* Requests for the configuration of a running Fortinet VM: a host writes  *)
(* /get-config, the launcher's loop notices it (file_watcher.py), accepts  *)
(* or rejects it, has the FortiOS console show the configuration and       *)
(* answers in a record per request (features/capture_config.py,            *)
(* launch.py).  The loop restarts a qemu that dies meanwhile               *)
(* (vrnetlab.py).                                                          *)
(*                                                                         *)
(* A request is the host that makes it; a configuration is its version.    *)
(* The module starts where the bootstrap has succeeded.                    *)
(***************************************************************************)
EXTENDS Integers

CONSTANTS
    Hosts,      \* each makes one request
    Touched,    \* those that only touch the trigger: it is empty
    MaxConf,    \* versions of the guest's configuration
    MaxFaults   \* lost sessions, failing writes and connections, dying qemus,
                \* writes of the trigger that are no requests, removals of it

None == "none"
Garbage == "garbage"

ASSUME HostsAssumption ==
    /\ Touched \subseteq Hosts /\ {None, Garbage} \cap Hosts = {}
    /\ {MaxConf, MaxFaults} \subseteq Nat

NoTrigger == [id |-> None, sig |-> 0]

VARIABLES
    strict,     \* FTNT_EXIT_ON_BOOTSTRAP_ERROR
    trigger,    \* /get-config: who wrote it and its signature, or NoTrigger
    current,    \* version in current.conf, 0 when there is no such file
    status,     \* [host -> its record in get-config.status.d]
    asked,      \* [host -> version of the configuration when it asked, 0 before]
    conf,       \* version of the guest's configuration
    vm,         \* the qemu process and its guest: "up" or "boot"; "dead" with error
                \* output, or "quiet" without any
    line,       \* the serial line: "idle", "asked", "answered" or "lost"
    shown,      \* the version the last answer shows
    at,         \* where the launcher's loop is
    snapshot,   \* signature of the trigger at the last poll, 0 when absent
    req,        \* the request in the callback's hands
    request,    \* _request_id of the feature
    cmd,        \* the commander: "ready", "queued" or what is in flight: "inspect",
                \* "standard", "show" or "restore", a block of settings as one
    retried,    \* it was replayed once
    restore,    \* the console's output mode was changed for the capture
    running, errors, health,
    faults,
    failed      \* requests whose capture failed behind a "pending"

files == <<trigger, current, status>>
forti == <<conf, vm, line, shown>>
commander == <<request, cmd, retried, restore, errors>>
launcher == <<at, snapshot, req, commander, running, health, failed>>
requestsVars == <<strict, files, asked, forti, launcher, faults>>

Fault == faults < MaxFaults /\ faults' = faults + 1

Gone == vm \in {"dead", "quiet"}

\* stop(): a process that is terminated says so on its error output.
Stopped == IF vm = "quiet" THEN "quiet" ELSE "dead"

\* The capture of a request is queued or in flight.
Capturing == cmd \notin {"ready", "restore"}

-----------------------------------------------------------------------------
(* The watcher and the callback of the feature.                            *)

\* Mutant: a trigger that is written again is no new request.
PollDetectedOnly ==
    /\ at = "poll"
    /\ snapshot' = trigger.sig
    /\ at' = IF snapshot = 0 /\ trigger.sig # 0 THEN "read" ELSE "spin"
    /\ UNCHANGED <<strict, files, asked, forti, req, commander, running, health, faults, failed>>

\* One poll: on_file_detected and on_file_modified lead to _handle_request.
Poll ==
    /\ at = "poll"
    /\ snapshot' = trigger.sig
    /\ at' = IF trigger.sig \notin {0, snapshot} THEN "read" ELSE "spin"
    /\ UNCHANGED <<strict, files, asked, forti, req, commander, running, health, faults, failed>>

\* The trigger has gone since the poll.
ReadNothing ==
    /\ at = "read" /\ trigger = NoTrigger
    /\ at' = "spin"
    /\ UNCHANGED <<strict, files, asked, forti, snapshot, req, commander, running, health,
                   faults, failed>>

\* No request: an error under a fixed name, a record no host waits for, and
\* the trigger goes unseen.
ReadGarbage ==
    /\ at = "read" /\ trigger.id = Garbage
    /\ at' = "unlink"
    /\ UNCHANGED <<strict, files, asked, forti, snapshot, req, commander, running, health, faults,
                   failed>>

\* Mutant: a request is accepted whatever the commander does.
RejectNever == FALSE

RejectWhileBusy == cmd # "ready"

ReadBusy ==
    /\ at = "read" /\ trigger.id \in Hosts
    /\ RejectWhileBusy
    /\ status' = [status EXCEPT ![trigger.id] = "busy"]
    /\ req' = trigger.id
    /\ at' = "compare"
    /\ UNCHANGED <<strict, trigger, current, asked, forti, snapshot, commander, running, health,
                   faults, failed>>

\* _sweep_status_dir: records the clock calls old, whatever they say.
Swept(old) == [h \in Hosts |-> IF h \in old THEN "swept" ELSE status[h]]

\* A request is accepted.
ReadRequest ==
    /\ at = "read" /\ trigger.id \in Hosts
    /\ ~RejectWhileBusy
    /\ \E old \in SUBSET {h \in Hosts : status[h] # None} :
         status' = [Swept(old) EXCEPT ![trigger.id] = "pending"]
    /\ req' = trigger.id
    /\ at' = "drop"
    /\ UNCHANGED <<strict, trigger, current, asked, forti, snapshot, commander, running, health,
                   faults, failed>>

DropOutput ==
    /\ at = "drop"
    /\ current' = 0
    /\ request' = req
    /\ at' = "connect"
    /\ UNCHANGED <<strict, trigger, status, asked, forti, snapshot, req, cmd, retried, restore,
                   errors, running, health, faults, failed>>

DropFails ==
    /\ at = "drop" /\ current # 0 /\ Fault
    /\ status' = [status EXCEPT ![req] = "error"]
    /\ at' = "compare"
    /\ UNCHANGED <<strict, trigger, current, asked, forti, snapshot, req, commander, running,
                   health, failed>>

\* connect_serial_console, then enqueue_runtime_feature.
Connect ==
    /\ at = "connect" /\ ~Gone
    /\ IF cmd = "ready"
       THEN cmd' = "queued" /\ UNCHANGED status
       ELSE status' = [status EXCEPT ![req] = "error"] /\ UNCHANGED cmd
    /\ at' = "compare"
    /\ UNCHANGED <<strict, trigger, current, asked, forti, snapshot, req, request, retried,
                   restore, errors, running, health, faults, failed>>

\* Mutant: nobody tells the host.
ConnectFailsSilently ==
    /\ at = "connect"
    /\ IF Gone THEN UNCHANGED faults ELSE Fault
    /\ vm' = Stopped /\ running' = FALSE
    /\ at' = "compare"
    /\ UNCHANGED <<strict, files, asked, conf, line, shown, snapshot, req, commander, health,
                   failed>>

\* The last attempt fails: connect_serial_console stops the VM.
ConnectFails ==
    /\ at = "connect"
    /\ IF Gone THEN UNCHANGED faults ELSE Fault
    /\ vm' = Stopped /\ running' = FALSE
    /\ status' = [status EXCEPT ![req] = "error"]
    /\ at' = "compare"
    /\ UNCHANGED <<strict, trigger, current, asked, conf, line, shown, snapshot, req, commander, health,
                   failed>>

\* _consume_trigger reads the trigger, and leaves it when it names another
\* request or none; an empty one is taken for its own ...
Compare ==
    /\ at = "compare"
    /\ at' = IF trigger.id \in {None, req} \cup Touched THEN "unlink" ELSE "spin"
    /\ req' = None
    /\ UNCHANGED <<strict, files, asked, forti, snapshot, commander, running, health, faults,
                   failed>>

\* ... and unlinks whatever is there by then.
Unlink ==
    /\ at = "unlink"
    /\ trigger' = NoTrigger
    /\ at' = "spin"
    /\ UNCHANGED <<strict, current, status, asked, forti, snapshot, req, commander, running,
                   health, faults, failed>>

-----------------------------------------------------------------------------
(* The loop: check_qemu, bootstrap_spin while not running, the watcher, a  *)
(* second bootstrap_spin while the commander is not ready, /health.        *)

\* check_qemu starts a VM whose process ended with error output anew, and does nothing
\* about one that ended without.
CheckQemu ==
    /\ at = "check"
    /\ IF vm = "dead" THEN vm' = "boot" /\ running' = FALSE ELSE UNCHANGED <<vm, running>>
    /\ at' = IF running' THEN "poll" ELSE "first"
    /\ UNCHANGED <<strict, files, asked, conf, line, shown, snapshot, req, commander, health, faults,
                   failed>>

Spinning == at \in {"first", "spin"} /\ cmd # "ready"

\* Ten seconds are over, or there is nothing to do: the commander is ready.
EndSpin ==
    /\ at \in {"first", "spin"}
    /\ running' = (running \/ (at = "first" /\ cmd = "ready" /\ ~errors))
    /\ at' = IF at = "first" /\ running' THEN "poll" ELSE "health"
    /\ UNCHANGED <<strict, files, asked, forti, snapshot, req, commander, health, faults, failed>>

UpdateHealth ==
    /\ at = "health"
    /\ health' = IF running THEN 0 ELSE 1
    /\ at' = "check"
    /\ UNCHANGED <<strict, files, asked, forti, snapshot, req, commander, running, faults, failed>>

\* A prompt: the first command of the capture is typed.
Begin ==
    /\ Spinning /\ cmd = "queued" /\ vm = "up"
    /\ cmd' = "inspect" /\ retried' = FALSE /\ line' = "asked"
    /\ UNCHANGED <<strict, files, asked, conf, vm, shown, at, snapshot, req, request, restore,
                   errors, running, health, faults, failed>>

\* Output that is shown in pages is switched to standard first.
ReadInspection ==
    /\ Spinning /\ cmd = "inspect" /\ line = "answered"
    /\ cmd' \in {"standard", "show"} /\ retried' = FALSE /\ line' = "asked"
    /\ UNCHANGED <<strict, files, asked, conf, vm, shown, at, snapshot, req, request, restore,
                   errors, running, health, faults, failed>>

ReadStandard ==
    /\ Spinning /\ cmd = "standard" /\ line = "answered"
    /\ cmd' = "show" /\ restore' = TRUE /\ retried' = FALSE /\ line' = "asked"
    /\ UNCHANGED <<strict, files, asked, conf, vm, shown, at, snapshot, req, request, errors,
                   running, health, faults, failed>>

\* The feature ends: the console's output mode is restored if it was changed.
EndFeature ==
    /\ IF restore THEN cmd' = "restore" /\ line' = "asked"
                  ELSE cmd' = "ready" /\ line' = "idle"
    /\ restore' = FALSE /\ retried' = FALSE /\ shown' = 0

\* on_command_executed of the feature: the file first, then the record.
SaveOutput ==
    /\ Spinning /\ cmd = "show" /\ line = "answered"
    /\ current' = shown
    /\ status' = [status EXCEPT ![request] = "success"]
    /\ EndFeature
    /\ UNCHANGED <<strict, trigger, asked, conf, vm, at, snapshot, req, request, errors,
                   running, health, faults, failed>>

ReadRestored ==
    /\ Spinning /\ cmd = "restore" /\ line = "answered"
    /\ EndFeature
    /\ UNCHANGED <<strict, files, asked, conf, vm, at, snapshot, req, request, errors, running,
                   health, faults, failed>>

\* bootstrap_spin with an error after startup: the VM is stopped, and the error ends
\* the launcher, whatever FTNT_EXIT_ON_BOOTSTRAP_ERROR says.
StopLauncher ==
    /\ vm' = Stopped /\ running' = FALSE /\ at' = "stopped"
    /\ line' = "idle" /\ retried' = FALSE /\ shown' = 0
    /\ UNCHANGED <<cmd, restore, errors>>

\* The commander remembers the error and goes on without the feature.
SkipFeature ==
    /\ EndFeature /\ errors' = TRUE
    /\ UNCHANGED <<vm, running, at>>

\* What raises in a capture reaches the launcher unless the commander continues on
\* errors.
CaptureRaises ==
    /\ IF strict THEN StopLauncher ELSE SkipFeature
    /\ UNCHANGED <<strict, trigger, current, asked, conf, snapshot, req, request, health>>

SaveFails ==
    /\ Spinning /\ cmd = "show" /\ line = "answered" /\ Fault
    /\ status' = [status EXCEPT ![request] = "error"]
    /\ CaptureRaises
    /\ UNCHANGED failed

\* The session was lost; the commander logs in again and replays what was in flight,
\* once for each command.
ReplayLost ==
    /\ Spinning /\ line = "lost" /\ vm = "up"
    /\ retried => cmd \in {"standard", "restore"}
    /\ retried' = TRUE /\ line' = "asked"
    /\ UNCHANGED <<strict, files, asked, conf, vm, shown, at, snapshot, req, request, cmd,
                   restore, errors, running, health, faults, failed>>

\* The requests whose capture failed: this one, if its capture goes on.
FailedNow == IF Capturing THEN failed \cup {request} ELSE failed

LostAgain ==
    /\ Spinning /\ line = "lost" /\ vm = "up" /\ retried
    /\ CaptureRaises
    /\ failed' = FailedNow
    /\ UNCHANGED <<status, faults>>

\* The console goes away under the reader, which no policy lets the launcher survive.
ReaderFails ==
    /\ Spinning /\ Gone
    /\ at' = "stopped" /\ running' = FALSE
    /\ failed' = FailedNow
    /\ UNCHANGED <<strict, files, asked, forti, snapshot, req, commander, health, faults>>

-----------------------------------------------------------------------------
(* The hosts and the guest.                                                *)

NewTrigger(id) == [id |-> id, sig |-> CHOOSE n \in 1..3 : n \notin {snapshot, trigger.sig}]

Request(h) ==
    /\ asked[h] = 0
    /\ asked' = [asked EXCEPT ![h] = conf]
    /\ trigger' = NewTrigger(h)
    /\ UNCHANGED <<strict, current, status, forti, launcher, faults>>

WriteGarbage ==
    /\ trigger' = NewTrigger(Garbage) /\ Fault
    /\ UNCHANGED <<strict, current, status, asked, forti, launcher>>

\* A host withdraws its request.
Withdraw ==
    /\ trigger # NoTrigger /\ trigger' = NoTrigger /\ Fault
    /\ UNCHANGED <<strict, current, status, asked, forti, launcher>>

Configure ==
    /\ vm = "up" /\ conf < MaxConf
    /\ conf' = conf + 1
    /\ UNCHANGED <<strict, files, asked, vm, line, shown, launcher, faults>>

Answer ==
    /\ vm = "up" /\ line = "asked"
    /\ line' = "answered" /\ shown' = IF cmd = "show" THEN conf ELSE 0
    /\ UNCHANGED <<strict, files, asked, conf, vm, launcher, faults>>

EndSession ==
    /\ vm = "up" /\ line \in {"asked", "answered"} /\ Fault
    /\ line' = "lost" /\ shown' = 0
    /\ UNCHANGED <<strict, files, asked, conf, vm, launcher>>

Die ==
    /\ vm = "up" /\ Fault
    /\ vm' \in {"dead", "quiet"}
    /\ line' = IF line = "idle" THEN "idle" ELSE "lost"
    /\ shown' = 0
    /\ UNCHANGED <<strict, files, asked, conf, launcher>>

Boot ==
    /\ vm = "boot"
    /\ vm' = "up"
    /\ UNCHANGED <<strict, files, asked, conf, line, shown, launcher, faults>>

-----------------------------------------------------------------------------
RequestsInit ==
    /\ strict \in BOOLEAN
    /\ trigger = NoTrigger /\ current = 0
    /\ status = [h \in Hosts |-> None]
    /\ asked = [h \in Hosts |-> 0]
    /\ conf = 1 /\ vm = "up" /\ line = "idle" /\ shown = 0
    /\ at = "check" /\ snapshot = 0 /\ req = None /\ request = None
    /\ cmd = "ready" /\ retried = FALSE /\ restore = FALSE
    /\ running = TRUE /\ errors = FALSE /\ health = 0
    /\ faults = 0 /\ failed = {}

Loop ==
    \/ CheckQemu \/ EndSpin \/ UpdateHealth \/ Poll
    \/ ReadNothing \/ ReadGarbage \/ ReadBusy \/ ReadRequest
    \/ DropOutput \/ DropFails \/ Connect \/ ConnectFails \/ Compare \/ Unlink

Capture ==
    \/ Begin \/ ReadInspection \/ ReadStandard \/ SaveOutput \/ SaveFails \/ ReadRestored
    \/ ReplayLost \/ LostAgain \/ ReaderFails

RequestsNext ==
    \/ Loop \/ Capture
    \/ \E h \in Hosts : Request(h)
    \/ WriteGarbage \/ Withdraw
    \/ Configure \/ Answer \/ EndSession \/ Die \/ Boot

\* The loop turns; what the console says, or that it is gone, is read in one of its
\* spins; the guest boots and answers.
FairRequests ==
    /\ WF_requestsVars(Loop) /\ SF_requestsVars(Capture)
    /\ WF_requestsVars(Answer) /\ WF_requestsVars(Boot)

RequestsSpec == RequestsInit /\ [][RequestsNext]_requestsVars /\ FairRequests

-----------------------------------------------------------------------------
(* Properties.                                                             *)

Final == {"success", "busy", "error"}

RequestsTypeOK ==
    /\ trigger.id \in Hosts \cup {None, Garbage} /\ trigger.sig \in 0..3
    /\ status \in [Hosts -> Final \cup {None, "pending", "swept"}]
    /\ vm \in {"up", "boot", "dead", "quiet"}
    /\ cmd \in {"ready", "queued", "inspect", "standard", "show", "restore"}
    /\ {req, request} \subseteq Hosts \cup {None}
    /\ {current, shown} \subseteq 0..conf /\ asked \in [Hosts -> 0..conf]
    /\ cmd # "ready" => request # None

\* A host that is told of success finds an output that is no older than its
\* request ("a stale current.conf can never satisfy a new request",
\* features/capture_config.py:33), as long as no other request drops it.
OutputFresh ==
    \A h \in Hosts :
        status[h] = "success" => current = 0 \/ current >= asked[h]

\* Somebody works on a request that is pending, unless its capture raised, and
\* on one request at a time.
PendingServed ==
    \A h \in Hosts : status[h] = "pending" =>
        \/ at \in {"drop", "connect"} /\ req = h
        \/ Capturing /\ request = h
        \/ h \in failed

\* The record of a request changes no more once it tells how it ended, until
\* it is swept.
AnswerOnce ==
    [][\A h \in Hosts : status[h] \in Final =>
           status'[h] \in {status[h], "swept"}]_requestsVars

\* The trigger was replaced by another write before it was read, unlinked
\* behind it, or withdrawn.
Overtaken(h) == asked[h] # 0 /\ status[h] = None /\ trigger.id # h

\* Every other request is answered, unless its capture raises or the launcher
\* stops or never calls its VM running again.
Answered ==
    \A h \in Hosts : asked[h] # 0 ~>
        \/ status[h] \in Final \cup {"swept"}
        \/ h \in failed \/ Overtaken(h)
        \/ at = "stopped" \/ (errors /\ ~running)

\* "Runtime feature failures, such as a /get-config request, remain request
\* errors" (fortigate/docker/README.md:322): the host reads an error, and the
\* launcher goes on.
FailuresRemainErrors ==
    at # "stopped" /\ \A h \in failed : status[h] \in {"error", "swept"}

\* "A VM that dies after startup still goes unhealthy"
\* (fortigate/README.md:378): before /health calls its successor running.
DeathReported == Gone ~> health = 1 \/ at = "stopped"

\* "The newer client is still served" (fortigate/README.md:416): a trigger is
\* unlinked only when it was read.
NewerTriggerSurvives ==
    [][trigger.id \in Hosts /\ trigger' = NoTrigger => status[trigger.id] # None]_requestsVars
=============================================================================
