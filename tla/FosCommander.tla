---------------------------- MODULE FosCommander ----------------------------
(***************************************************************************)
(* The bootstrap of a Fortinet VM: the event-driven scheduler that types   *)
(* the features' command blocks on the FortiOS console                     *)
(* (src/fortinet/common/fos_commander.py), the commands and scopes it is   *)
(* given (cli_commands.py), two kinds of features, and the policy of the   *)
(* launcher that spins it (launch.py).                                     *)
(*                                                                         *)
(* `cli' is the commander, `guest' the FortiOS console at the other end of *)
(* the serial line, `typed' and `rx' the two directions of that line.  One *)
(* Read is one state recognised by the driver and everything the commander *)
(* does with it; the guest runs a line, leaves a scope, refuses a setting, *)
(* prints a message behind its prompt or drops the session meanwhile.      *)
(*                                                                         *)
(* Lines of text are abstracted to commands [op, arg, ...], the prompt to  *)
(* the path of the scope it shows.                                         *)
(***************************************************************************)
EXTENDS Integers, Sequences, SequencesExt, FiniteSets

CONSTANTS
    Queue,      \* the features handed to start(), in their order
    Blocks,     \* [feature with fixed blocks -> sequence of command blocks]
    Paged,      \* the features that ask for standard console output
    Home,       \* [setting -> the scope it belongs to]
    Disks,      \* additional disks to format, by the feature DiskFormat
    MaxUnexpected \* how often the guest drops a session, leaves a scope, refuses a
                  \* setting or prints behind a prompt, together

DiskFormat == "disk-format"

VARIABLES
    bestEffort, \* FTNT_EXIT_ON_BOOTSTRAP_ERROR=false
    cli,        \* the commander and the active feature
    guest,      \* the console of the guest
    typed,      \* lines on their way to the guest
    rx,         \* states the driver has not read
    phase,      \* what became of the bootstrap
    used,       \* how often the guest did something unexpected
    seen        \* what happened, for the properties

vars == <<bestEffort, cli, guest, typed, rx, phase, used, seen>>

-----------------------------------------------------------------------------
(* Commands and scopes.                                                    *)

Cmd(op, arg) ==
    [op |-> op, arg |-> arg, loss |-> "restart", checked |-> FALSE,
     at |-> {"prompt"}]

ConfigBlock(scope, body) ==
    <<Cmd("config", scope)>> \o body \o <<Cmd("end", scope)>>

EditBlock(entry, body) ==
    <<Cmd("edit", entry)>> \o body \o <<Cmd("next", entry)>>

ClosesScope(cmd) == cmd.op \in {"next", "end"}

MayChangeContext(cmd) == cmd.op \in {"config", "edit", "next", "end", "abort"}

CapturesOutput(cmd) == cmd.op = "query" \/ cmd.checked \/ ClosesScope(cmd)

\* A scope is the path of the blocks and entries open around it, in turns.
InEntry(s) == Len(s) % 2 = 0

\* The scope a command leads to from scope s: one `end' closes a block, and with it
\* the entry of the block that is open.
Enter(s, cmd) ==
    CASE cmd.op \in {"config", "edit"} -> Append(s, cmd.arg)
      [] cmd.op = "next" -> Front(s)
      [] cmd.op = "end" -> SubSeq(s, 1, Len(s) - (IF InEntry(s) THEN 2 ELSE 1))
      [] cmd.op = "abort" -> <<>>
      [] OTHER -> s

\* Does scope s know the command?  A block is opened at the top or inside an entry.
Knows(s, cmd) ==
    CASE cmd.op = "config" -> InEntry(s)
      [] cmd.op = "edit" -> ~InEntry(s)
      [] cmd.op = "set" -> s = Home[cmd.arg]
      [] cmd.op = "next" -> InEntry(s) /\ s # <<>>
      [] cmd.op \in {"end", "abort"} -> s # <<>>
      [] OTHER -> TRUE

\* The scope command i of a block is written for.
Intended(block, i) ==
    LET s[k \in 1..i] == IF k = 1 THEN <<>> ELSE Enter(s[k - 1], block[k - 1])
    IN  s[i]

\* A block as Scope.flatten lists it: what it opens it closes, around a body that its
\* scope knows, and it ends where it began.
ScopedBlock(block) ==
    /\ Intended(block, Len(block) + 1) = <<>>
    /\ \A i \in 1..Len(block) : Knows(Intended(block, i), block[i])

Inspect == Cmd("query", "console")
SetStandard == ConfigBlock("console", <<Cmd("set", "standard")>>)
SetMore == ConfigBlock("console", <<Cmd("set", "more")>>)
Return == Cmd("return", "")

-----------------------------------------------------------------------------
(* The commander: operators from a state k of it to the next one.          *)

NoFeature == "none"
NoContext == <<"?">>
NoAttempt == [cmd |-> Return, index |-> 0, before |-> NoContext, again |-> FALSE]

\* The commands of the features' blocks.
Written ==
    UNION {UNION {ToSet(block) : block \in ToSet(Blocks[f])} : f \in ToSet(Queue) \ {DiskFormat}}

\* A feature is handed over once, and one that is submitted at once has a block; the
\* one that formats disks completes at once without any, and is left out then.  What the
\* others type is answered with a prompt, replayed after a loss and none of the
\* commander's own lines.
ASSUME FosAssumption ==
    /\ Queue \in Seq(STRING) /\ IsInjective(Queue)
    /\ NoFeature \notin ToSet(Queue)
    /\ \A f \in ToSet(Queue) \ {DiskFormat} :
           Blocks[f] \in Seq(Seq(Written)) /\ (f \notin Paged => Blocks[f] # <<>>)
    /\ DiskFormat \in ToSet(Queue) <=> Disks > 0
    /\ \A c \in Written :
           /\ c.at = {"prompt"} /\ c.loss = "restart"
           /\ c \notin {Inspect, Return} /\ c.op \notin {"abort", "format", "yes"}
    /\ {Disks, MaxUnexpected} \subseteq Nat

\* The blocks are scoped, the prompt the commander has not seen is no scope of theirs,
\* and they leave the output mode to the commander.
ASSUME BlocksAssumption ==
    /\ \A f \in ToSet(Queue) \ {DiskFormat} : \A block \in ToSet(Blocks[f]) : ScopedBlock(block)
    /\ \A c \in Written :
           /\ c.op \in {"config", "edit"} => <<c.arg>> # NoContext
           /\ c.op = "set" => c.arg \in DOMAIN Home \ {"standard", "more"}
    /\ \A s \in DOMAIN Home : Home[s] # <<>>
    /\ {"standard", "more"} \subseteq DOMAIN Home
    /\ Home["standard"] = <<"console">> /\ Home["more"] = <<"console">>

Idle(k) == k.inflight = NoAttempt
Busy(k) == ~Idle(k) \/ k.pending # <<>> \/ k.cleanup # <<>>

Raise(k) == [k EXCEPT !.raised = TRUE]

\* _handle_work_error: raise, or remember the error for the next prompt.
WorkError(k) == IF bestEffort THEN [k EXCEPT !.error = TRUE] ELSE Raise(k)

SubmitBlock(k, block) ==
    [k EXCEPT !.cmds = block, !.pending = block, !.blockCtx = k.ctx,
              !.retried = {}, !.target = NoContext, !.resetTried = FALSE]

SubmitList(k) == SubmitBlock([k EXCEPT !.stage = "list"], <<Cmd("query", "disks")>>)

\* _finish_standard_output_context of the active feature
FinishStandardOutput(k) ==
    [k EXCEPT !.std = "none", !.restore = FALSE,
              !.cleanup = IF k.restore
                          THEN k.cleanup \o [i \in 1..3 |-> [cmd |-> SetMore[i], again |-> FALSE]]
                          ELSE k.cleanup]

ActivateNextFeature(k) ==
    IF k.ready \/ k.active # NoFeature \/ k.recovering THEN k
    ELSE IF k.queue = <<>>
         THEN IF k.cleanup # <<>> THEN k ELSE [k EXCEPT !.ready = TRUE]
    ELSE LET f == Head(k.queue)
             a == [k EXCEPT !.active = f, !.queue = Tail(k.queue)]
         IN  IF f = DiskFormat THEN SubmitList([a EXCEPT !.left = Disks, !.disk = 2])
             ELSE IF f \in Paged
                  THEN SubmitBlock([a EXCEPT !.std = "inspect", !.blocks = Blocks[f]], <<Inspect>>)
                  ELSE SubmitBlock([a EXCEPT !.blocks = Tail(Blocks[f])], Head(Blocks[f]))

\* Mutant: the completed feature stays the active one.
FeatureCompleteStaysActive(k) ==
    [FinishStandardOutput(k) EXCEPT !.completed = @ \cup {k.active}, !.cmds = <<>>]

FeatureComplete(k) ==
    LET d == [FinishStandardOutput(k) EXCEPT
                !.completed = @ \cup {k.active}, !.active = NoFeature, !.cmds = <<>>]
    IN  IF d.cleanup = <<>> THEN ActivateNextFeature(d) ELSE d

\* StaticFeature._submit_next
SubmitNext(k) ==
    IF k.blocks = <<>> THEN FeatureComplete(k)
    ELSE SubmitBlock([k EXCEPT !.blocks = Tail(@)], Head(k.blocks))

\* Mutant: nothing follows the login after an unannounced reboot.
OnBlockCompleteOnce(k) ==
    IF k.active # DiskFormat THEN SubmitNext(k)
    ELSE IF k.stage # "reboot" THEN k
    ELSE LET d == [k EXCEPT !.left = @ - 1, !.disk = @ + 1]
         IN  IF d.left = 0 THEN FeatureComplete(d) ELSE SubmitList(d)

\* Feature.on_block_complete of the active feature
OnBlockComplete(k) ==
    IF k.active # DiskFormat THEN SubmitNext(k)
    ELSE CASE k.stage = "restart-list" -> SubmitList(k)
           [] k.stage = "reboot" ->
                LET d == [k EXCEPT !.left = @ - 1, !.disk = @ + 1]
                IN  IF d.left = 0 THEN FeatureComplete(d) ELSE SubmitList(d)
           [] OTHER -> k

\* on_command_executed of the active feature: nothing, but for the disks, which must be
\* found in the list.
OnCommandExecuted(k, e) ==
    IF k.active # DiskFormat THEN k
    ELSE CASE k.stage = "list" ->
                IF e.failed \/ k.disk > Disks + 1 THEN WorkError(k)
                ELSE SubmitBlock([k EXCEPT !.stage = "format"],
                        <<[Cmd("format", k.disk) EXCEPT !.at = {"prompt", "confirm"}]>>)
           [] k.stage = "format" /\ e.st = "confirm" ->
                SubmitBlock([k EXCEPT !.stage = "reboot"],
                        <<[Cmd("yes", k.disk) EXCEPT !.at = {"prompt", "rebooting"},
                                                     !.loss = "continue"]>>)
           [] k.stage = "format" /\ e.st # "confirm" -> WorkError(k)
           [] k.stage = "reboot" /\ e.st # "rebooting" -> WorkError(k)
           [] OTHER -> k

\* _dispatch_command
Dispatch(k, cmd, index, again) ==
    [k EXCEPT !.inflight = [cmd |-> cmd, index |-> index, before |-> k.ctx, again |-> again],
              !.out = Append(@, cmd)]

\* _dispatch_next behind its call of _restore_replay_context
DispatchWork(k) ==
    LET a == IF k.cleanup = <<>> /\ k.active = NoFeature THEN ActivateNextFeature(k) ELSE k
    IN  IF a.cleanup # <<>>
        THEN Dispatch([a EXCEPT !.cleanup = Tail(@), !.inCleanup = TRUE],
                      Head(a.cleanup).cmd, 0, Head(a.cleanup).again)
        ELSE IF a.active = NoFeature THEN a
        ELSE IF a.pending = <<>> THEN OnBlockComplete(a)
        ELSE Dispatch([a EXCEPT !.pending = Tail(@), !.inCleanup = FALSE], Head(a.pending),
                      Len(a.cmds) - Len(a.pending) + 1, FALSE)

\* _recover_feature_error and continue_after_error: the failed work is skipped.
Recover(k, atIdlePrompt) ==
    IF \/ ~k.error
       \/ k.state # "prompt" /\ ~atIdlePrompt
       \/ k.ready
       \/ k.active = NoFeature /\ ~k.inCleanup
    THEN k
    ELSE LET d == [k EXCEPT !.inflight = NoAttempt, !.inCleanup = FALSE, !.target = NoContext,
                            !.inReset = FALSE, !.error = FALSE,
                            !.errors = @ \cup {IF k.active = NoFeature THEN "cleanup" ELSE k.active}]
         IN  DispatchWork(
                IF k.active = NoFeature THEN d
                ELSE [FinishStandardOutput(d) EXCEPT !.pending = <<>>, !.cmds = <<>>,
                                                     !.active = NoFeature])

\* _dispatch_next with _restore_replay_context: one abort leaves a scope that
\* survived, before the block is replayed.
DispatchNext(k) ==
    IF ~Idle(k) \/ k.recovering \/ k.error \/ k.raised THEN k
    ELSE IF k.target = NoContext \/ k.ctx = k.target
         THEN DispatchWork([k EXCEPT !.target = NoContext])
    ELSE IF k.resetTried THEN Recover(WorkError(k), FALSE)
    ELSE Dispatch([k EXCEPT !.resetTried = TRUE, !.inReset = TRUE], Cmd("abort", ""), 0, FALSE)

\* Mutants: the replay starts in whatever scope survived; it leaves out what was
\* typed already; nothing is replayed.
RestartBlockAnywhere(k, attempt) ==
    IF attempt.index \in k.retried THEN WorkError(k)
    ELSE [k EXCEPT !.retried = @ \cup {attempt.index}, !.pending = k.cmds]

RestartBlockRest(k, attempt) ==
    IF attempt.index \in k.retried THEN WorkError(k)
    ELSE [k EXCEPT !.retried = @ \cup {attempt.index}]

RestartBlockNever(k, attempt) == WorkError(k)

\* _restart_active_block: each command of a block may cause one replay.
RestartBlock(k, attempt) ==
    IF attempt.index \in k.retried THEN WorkError(k)
    ELSE [k EXCEPT !.retried = @ \cup {attempt.index}, !.pending = k.cmds,
                   !.target = k.blockCtx, !.resetTried = FALSE]

PromptContextChanged(k, attempt) ==
    /\ NoContext \notin {attempt.before, k.ctx}
    /\ attempt.before # k.ctx
    /\ ~MayChangeContext(attempt.cmd)

\* _handle_context_loss
ContextLoss(k, attempt) ==
    IF ~k.inCleanup /\ attempt.cmd.loss = "restart" THEN RestartBlock(k, attempt)
    ELSE WorkError(k)

IsStandardOutputCommand(k, attempt) ==
    /\ k.std # "none"
    /\ attempt.cmd = Inspect \/ (k.std = "set-standard" /\ k.pending = <<>>)

\* _complete_standard_output_command; the callback submits the first block.  An
\* answer without a mode is taken for standard output.
CompleteStandardOutput(k, attempt, e) ==
    IF attempt.cmd = Inspect /\ ~e.failed /\ e.mode = "more"
    THEN SubmitBlock([k EXCEPT !.std = "set-standard"], SetStandard)
    ELSE SubmitNext([k EXCEPT !.std = "active", !.restore = attempt.cmd # Inspect])

Invalid(attempt, e) ==
    e.failed /\ (ClosesScope(attempt.cmd) \/ attempt.cmd.checked)

\* _complete_inflight
CompleteInflight(k, e) ==
    LET attempt == k.inflight
        d == [k EXCEPT !.inflight = NoAttempt]
    IN  CASE k.inReset -> DispatchNext([d EXCEPT !.inReset = FALSE])
          [] ~k.inReset /\ e.st = "prompt" /\ PromptContextChanged(k, attempt) ->
               LET l == ContextLoss(d, attempt)
               IN  IF l.error THEN Recover(l, FALSE) ELSE DispatchNext(l)
          [] OTHER ->
               IF Invalid(attempt, e) THEN Recover(WorkError(d), FALSE)
               ELSE IF k.inCleanup THEN DispatchNext([d EXCEPT !.inCleanup = FALSE])
               ELSE IF IsStandardOutputCommand(d, attempt)
                    THEN DispatchNext(CompleteStandardOutput(d, attempt, e))
               ELSE LET x == OnCommandExecuted(d, e)
                        y == IF x.error \/ x.raised \/ Busy(x) THEN x ELSE OnBlockComplete(x)
                    IN  IF e.st \in {"prompt", "confirm"} THEN DispatchNext(y) ELSE y

\* FormatDisks.on_session_loss; other features keep the policy of the command.
OnSessionLoss(k) ==
    IF k.active = DiskFormat /\ k.stage = "reboot"
    THEN [k EXCEPT !.left = @ - 1, !.disk = @ + 1, !.stage = "restart-list"]
    ELSE k

\* _handle_session_loss
SessionLoss(k) ==
    LET attempt == k.inflight
        d == [k EXCEPT !.recovering = TRUE, !.inflight = NoAttempt]
    IN  IF Idle(k) THEN d
        ELSE IF k.inReset THEN [d EXCEPT !.inReset = FALSE]
        ELSE IF k.inCleanup
             THEN IF attempt.again THEN WorkError(d)
                  ELSE [d EXCEPT !.cleanup = <<[cmd |-> attempt.cmd, again |-> TRUE]>> \o @,
                                 !.inCleanup = FALSE]
        ELSE LET l == OnSessionLoss(d)
             IN  IF attempt.cmd.loss = "restart" THEN RestartBlock(l, attempt)
                 ELSE [l EXCEPT !.pending = <<>>]

\* on_state, after _current_state, the prompt's scope and the login are noted
OnState(k0, e) ==
    LET k == [k0 EXCEPT
                !.state = e.st,
                !.known = e.st,
                !.ctx = IF e.st = "prompt" THEN e.ctx ELSE @,
                !.authenticated = @ \/ e.st \in {"prompt", "accepted"},
                !.recovering = CASE e.st \in {"prompt", "accepted"} -> FALSE
                                 [] e.st = "lost" /\ k0.error -> TRUE
                                 [] OTHER -> @]
    IN  CASE k.error -> Recover(k, FALSE)
          [] ~k.error /\ (e.st = "lost" \/ (e.st = "username" /\ k.authenticated)) -> SessionLoss(k)
          [] ~k.error /\ ~Idle(k) /\ e.st \in k.inflight.cmd.at -> CompleteInflight(k, e)
          [] ~k.error /\ Idle(k) /\ e.st = "prompt" -> DispatchNext(k)
          [] OTHER -> k

-----------------------------------------------------------------------------
(* The launcher: bootstrap_spin around one state, or one timeout.          *)

Outcome(k) ==
    IF k.raised THEN IF bestEffort THEN "halted" ELSE "stopped"
    ELSE IF ~k.ready THEN "starting"
    ELSE IF k.errors = {} THEN "running" ELSE "degraded"

\* The commander becomes k: what it wrote is on its way, an error of it ends
\* the bootstrap.
Spin(k) ==
    /\ cli' = [k EXCEPT !.out = <<>>]
    /\ typed' = typed \o k.out
    /\ phase' = Outcome(k)
    /\ UNCHANGED <<bestEffort, guest, used>>

Read ==
    /\ phase = "starting"
    /\ rx # <<>>
    /\ Head(rx).st \notin {"echo", "rejected"}
    /\ rx' = Tail(rx)
    /\ \E k \in {OnState(cli, Head(rx))} : Spin(k)
    /\ seen' = [seen EXCEPT
                 !.cleanupCut = @ \/ (cli.inCleanup /\ cli'.recovering),
                 !.quietReboot = @ \/ (/\ Head(rx).st \in {"lost", "username"}
                                       /\ cli.inflight.cmd.op = "yes" /\ cli.left = 1)]

\* A prompt with text behind it: on_prompt_echo asks for a clean one, unless
\* the text was taken for output of the command.
ReadEcho ==
    /\ phase = "starting"
    /\ rx # <<>> /\ Head(rx).st = "echo"
    /\ rx' = Tail(rx)
    /\ LET taken == cli.recovering \/ (~Idle(cli) /\ CapturesOutput(cli.inflight.cmd))
           k == [cli EXCEPT !.state = "echo", !.known = "echo"]
       IN  /\ Spin(IF taken THEN k ELSE [k EXCEPT !.out = <<Return>>])
           /\ seen' = [seen EXCEPT !.swallowed = @ \/ taken]

\* Both credentials were rejected: the driver raises.
ReadRejected ==
    /\ phase = "starting"
    /\ rx # <<>> /\ Head(rx).st = "rejected"
    /\ rx' = Tail(rx)
    /\ Spin(Raise([cli EXCEPT !.state = "rejected"]))
    /\ UNCHANGED seen

\* Mutant: a command that does not answer in time is taken as done.
OnIdleImpatient(k) ==
    IF k.known # "prompt" \/ k.recovering THEN k
    ELSE IF k.error THEN Recover(k, TRUE)
    ELSE DispatchNext([k EXCEPT !.inflight = NoAttempt])

\* No output for a second: at a known prompt on_idle_prompt recovers from an
\* error, or starts what the last callback submitted.
OnIdle(k) ==
    IF k.known # "prompt" \/ ~Idle(k) \/ k.recovering THEN k
    ELSE IF k.error THEN Recover(k, TRUE)
    ELSE IF k.pending # <<>> \/ k.cleanup # <<>> \/ k.active = NoFeature THEN DispatchNext(k)
    ELSE k

ReadTimeout ==
    /\ phase = "starting"
    /\ rx = <<>>
    /\ \E k \in {OnIdle([cli EXCEPT !.state = "timeout"])} : Spin(k)
    /\ UNCHANGED <<rx, seen>>

-----------------------------------------------------------------------------
(* The guest's console.                                                    *)

Unexpected == used.losses + used.falls + used.faults + used.echoes

Event(st) == [st |-> st, ctx |-> <<>>, failed |-> FALSE, mode |-> "more"]

\* The guest after a line it knows: what was set is saved with the outermost entry
\* or block.
Ran(g, cmd) ==
    LET h == [g EXCEPT !.ctx = Enter(g.ctx, cmd)]
    IN  CASE cmd.op = "set" -> [h EXCEPT !.draft = @ \cup {cmd.arg}]
          [] ClosesScope(cmd) /\ Len(h.ctx) <= 1 ->
               [h EXCEPT !.saved = @ \cup g.draft, !.draft = {},
                         !.mode = IF "standard" \in g.draft THEN "standard"
                                  ELSE IF "more" \in g.draft THEN "more" ELSE @]
          [] cmd.op = "abort" -> [h EXCEPT !.draft = {}]
          [] cmd.op = "yes" -> [h EXCEPT !.formatted = Append(@, cmd.arg)]
          [] OTHER -> h

LoggedOut(g) == [g EXCEPT !.up = FALSE, !.ctx = <<>>, !.draft = {}]

\* A line runs, or is refused: in a scope with a return code, at the top level
\* with or without one.
Execute ==
    /\ guest.up /\ typed # <<>> /\ Head(typed).op \notin {"format", "yes"}
    /\ typed' = Tail(typed)
    /\ LET cmd == Head(typed)
       IN  \E failed, echo \in BOOLEAN :
             LET fault == failed /\ Knows(guest.ctx, cmd)
                 g == IF Knows(guest.ctx, cmd) /\ ~failed THEN Ran(guest, cmd) ELSE guest
             IN  /\ fault => cmd.checked \/ cmd.op = "query"
                 /\ ~Knows(guest.ctx, cmd) /\ guest.ctx # <<>> => failed
                 /\ fault \/ echo => Unexpected < MaxUnexpected
                 /\ ~(fault /\ echo)
                 /\ guest' = g
                 /\ rx' = Append(rx, [st |-> IF echo THEN "echo" ELSE "prompt", ctx |-> g.ctx,
                                      failed |-> failed, mode |-> guest.mode])
                 /\ used' = [used EXCEPT !.faults = IF fault THEN @ + 1 ELSE @,
                                         !.echoes = IF echo THEN @ + 1 ELSE @]
    /\ UNCHANGED <<bestEffort, cli, phase, seen>>

\* Formatting asks for a confirmation, formats and reboots; the console says so
\* or shows nothing before the next login.
ExecuteFormat ==
    /\ guest.up /\ typed # <<>> /\ Head(typed).op \in {"format", "yes"}
    /\ typed' = Tail(typed)
    /\ IF Head(typed).op = "format"
       THEN /\ rx' = Append(rx, Event("confirm"))
            /\ guest' = guest
       ELSE /\ \E announced \in BOOLEAN :
                 rx' = rx \o (IF announced THEN <<Event("rebooting")>> ELSE <<>>)
                          \o <<Event("username")>>
            /\ guest' = LoggedOut(Ran(guest, Head(typed)))
    /\ UNCHANGED <<bestEffort, cli, phase, used, seen>>

\* The guest leaves a scope by itself, with the unsaved settings of it.
Fall ==
    /\ guest.up /\ guest.ctx # <<>> /\ typed # <<>>
    /\ Unexpected < MaxUnexpected
    /\ \E s \in {<<>>, Front(guest.ctx)} :
         guest' = [guest EXCEPT !.ctx = s, !.draft = {}]
    /\ used' = [used EXCEPT !.falls = @ + 1]
    /\ seen' = [seen EXCEPT !.unseen = @ \/ MayChangeContext(cli.inflight.cmd),
                            !.cleanupCut = @ \/ cli.inCleanup]
    /\ UNCHANGED <<bestEffort, cli, typed, rx, phase>>

\* The admin session ends, with or without a message, before or just after the
\* next line is run.
LoseSession ==
    /\ guest.up /\ Unexpected < MaxUnexpected
    /\ \E said, ran \in BOOLEAN :
         /\ ran => /\ typed # <<>> /\ Head(typed).op \notin {"format", "yes"}
                   /\ Knows(guest.ctx, Head(typed))
         /\ guest' = LoggedOut(IF ran THEN Ran(guest, Head(typed)) ELSE guest)
         /\ typed' = IF ran THEN Tail(typed) ELSE typed
         /\ rx' = rx \o (IF said THEN <<Event("lost")>> ELSE <<>>) \o <<Event("username")>>
    /\ used' = [used EXCEPT !.losses = @ + 1]
    /\ UNCHANGED <<bestEffort, cli, phase, seen>>

\* A line typed at the login prompt is not a command.
DropLine ==
    /\ ~guest.up /\ typed # <<>>
    /\ typed' = <<>>
    /\ seen' = [seen EXCEPT !.skipped = @ \/ Head(typed).op = "yes"]
    /\ UNCHANGED <<bestEffort, cli, guest, rx, phase, used>>

\* The driver logs in again: with a banner, without one, or not at all.
Login ==
    /\ ~guest.up /\ typed = <<>> /\ rx = <<>>
    /\ phase = "starting"
    /\ \/ /\ \E banner \in BOOLEAN :
               rx' = (IF banner THEN <<Event("accepted")>> ELSE <<>>) \o <<Event("prompt")>>
          /\ guest' = [guest EXCEPT !.up = TRUE]
          /\ UNCHANGED used
       \/ /\ Unexpected < MaxUnexpected
          /\ rx' = <<Event("rejected")>>
          /\ used' = [used EXCEPT !.losses = @ + 1]
          /\ UNCHANGED guest
    /\ UNCHANGED <<bestEffort, cli, typed, phase, seen>>

-----------------------------------------------------------------------------
Init ==
    /\ bestEffort \in BOOLEAN
    /\ cli = [queue |-> Queue, active |-> NoFeature, blocks |-> <<>>, completed |-> {},
              stage |-> "list", left |-> 0, disk |-> 0,
              cmds |-> <<>>, pending |-> <<>>, inflight |-> NoAttempt, cleanup |-> <<>>,
              inCleanup |-> FALSE, std |-> "none", restore |-> FALSE,
              ctx |-> NoContext, blockCtx |-> NoContext, target |-> NoContext,
              retried |-> {}, resetTried |-> FALSE, inReset |-> FALSE,
              recovering |-> FALSE, authenticated |-> FALSE,
              state |-> "unknown", known |-> "unknown",
              error |-> FALSE, errors |-> {}, raised |-> FALSE, ready |-> FALSE,
              out |-> <<>>]
    /\ guest = [up |-> FALSE, ctx |-> <<>>, draft |-> {}, saved |-> {},
                mode |-> "more", formatted |-> <<>>]
    /\ typed = <<>>
    /\ rx = <<Event("username")>>
    /\ phase = "starting"
    /\ used = [losses |-> 0, falls |-> 0, faults |-> 0, echoes |-> 0]
    /\ seen = [swallowed |-> FALSE, unseen |-> FALSE, skipped |-> FALSE,
               cleanupCut |-> FALSE, quietReboot |-> FALSE]

Next ==
    \/ Read \/ ReadEcho \/ ReadRejected \/ ReadTimeout
    \/ Execute \/ ExecuteFormat \/ Fall \/ LoseSession \/ DropLine \/ Login

\* The launcher keeps reading, the guest runs what it is given and lets the
\* driver log in.  Nothing makes it lose a session, a scope or a setting.
Fairness ==
    /\ WF_vars(Read \/ ReadEcho \/ ReadRejected \/ ReadTimeout)
    /\ WF_vars(Execute \/ ExecuteFormat \/ DropLine \/ Login)

Spec == Init /\ [][Next]_vars /\ Fairness

-----------------------------------------------------------------------------
(* Properties.                                                             *)

Prompts == {"prompt", "confirm", "echo", "rebooting"}

States == Prompts \cup {"unknown", "username", "accepted", "rejected", "lost", "timeout"}

TypeOK ==
    /\ bestEffort \in BOOLEAN
    /\ phase \in {"starting", "running", "degraded", "halted", "stopped"}
    /\ cli.state \in States /\ cli.known \in States
    /\ \A i \in DOMAIN rx : rx[i].st \in States
    /\ cli.retried \subseteq Nat
    /\ Len(cli.pending) <= Len(cli.cmds)
    /\ cli.completed \cap {cli.active} = {}
    /\ ~guest.up => guest.ctx = <<>>

Answers == {i \in DOMAIN rx : rx[i].st \in Prompts}

\* A command is typed only when nothing typed before it is still to be
\* answered (fortigate/docker/README.md:129, "sends one command at a time"): an
\* answer read later is never taken for the one of another command.
OneAtATime == Len(typed) + Cardinality(Answers) <= 1

\* The commands of a block are typed in the scope they are written for,
\* whatever sessions and scopes the guest lost before.
InIntendedScope ==
    (cli.inflight.index > 0 /\ ~seen.unseen /\ cli.errors = {}) =>
        cli.inflight.before = Intended(cli.cmds, cli.inflight.index)

\* "A failed feature is skipped and later features continue"
\* (fortigate/docker/README.md:311): the later ones are typed in the scope
\* their blocks are written for, too.
LaterFeaturesInScope ==
    (cli.inflight.index > 0 /\ ~seen.unseen) =>
        cli.inflight.before = Intended(cli.cmds, cli.inflight.index)

\* The checked settings of a block, and of a feature with fixed blocks.
Checks(block) == {c.arg : c \in {d \in ToSet(block) : d.op = "set" /\ d.checked}}

Scoped(f) == UNION {Checks(block) : block \in ToSet(Blocks[f])}

\* A bootstrap that ends healthy has saved every checked setting of every
\* feature, whatever was replayed, has every disk formatted unless a session
\* ended at the confirmation, and leaves the console in the output mode it
\* found. No disk is formatted twice.
HealthyMeansConfigured ==
    /\ IsInjective(guest.formatted)
    /\ phase = "running" =>
         /\ ~seen.unseen =>
              \A f \in ToSet(Queue) \ {DiskFormat} : Scoped(f) \subseteq guest.saved
         /\ ~seen.skipped => ToSet(guest.formatted) = 2..(Disks + 1)
         /\ ~seen.unseen /\ ~seen.cleanupCut => guest.mode = "more"

\* One lost session or scope is always survived: work is given up only after a
\* refused setting or login or a second loss (a scope lost while it is opened or closed,
\* a loss during a cleanup and the unannounced reboot of the last disk aside).
OneLossSurvived ==
    (phase \in {"stopped", "halted", "degraded"}) =>
        \/ used.faults > 0 \/ used.losses + used.falls > 1 \/ cli.state = "rejected"
        \/ seen.unseen \/ seen.cleanupCut \/ seen.quietReboot

\* Every bootstrap ends, unless a prompt was taken for output of a command.
Ends == <>(phase # "starting" \/ seen.swallowed)
=============================================================================
