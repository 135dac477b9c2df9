----------------------------- MODULE Bootstrap -----------------------------
(***************************************************************************)
(* bootstrap_spin() of the platform launchers, for one VM: every turn of    *)
(* the loop reads the console for a second, looks for a prompt the platform *)
(* knows, logs in and configures the guest when it is up, and restarts the  *)
(* VM after too many turns without a result.                                *)
(*                                                                          *)
(* The launchers share this shape and differ in what they look for, in what *)
(* they remember in the VM's object (which no restart of the VM clears) and *)
(* in what the configuration does when the guest does not answer.  These    *)
(* differences are a profile, one for each launcher, in Platforms.  A guest *)
(* shows its prompts in any order, as often as it likes, but for what the   *)
(* profile says of it.                                                      *)
(***************************************************************************)
EXTENDS Integers

CONSTANTS
    Platforms,  \* the platforms
    Profile,    \* what is particular to each
    Limit,      \* the number of spins (300 to 7200)
    MaxCreds,   \* bound: credentials in the list
    MaxFaults   \* bound: failures and restarts

Prompts == {"login", "shell", "setup", "done", "active", "ztp", "broken"}

Profiles ==
    [giveUp : {"keep", "clear", "never"},  \* self.spins when the VM is given up
     counts : BOOLEAN,            \* is self.spins increased?
     idle : BOOLEAN,              \* does a silent console count as up?
     creds : 0 .. MaxCreds,       \* length of self.credentials
     pops : SUBSET Prompts,       \* prompts answered with a credential
     refills : SUBSET Prompts,    \* prompts after which there is one more
     logins : SUBSET Prompts,     \* prompts answered by logging in
     remembers : SUBSET Prompts,  \* prompts the object remembers
     needs : SUBSET Prompts,      \* those it must remember to configure
     final : SUBSET Prompts,      \* prompts after which it configures
     fails : SUBSET Prompts,      \* prompts after which it restarts the VM
     inside : SUBSET Prompts,     \* shown to a user who has logged in
     once : SUBSET Prompts,       \* not shown once the VM is configured
     trouble : SUBSET {"hangs", "raises", "ignores", "retries", "restarts"}]

ASSUME BootstrapAssumption ==
    /\ Profile \in [Platforms -> Profiles]
    /\ Limit \in Nat /\ MaxCreds \in Nat /\ MaxFaults \in Nat

VARIABLES
    platform,    \* the platform of this container
    mode,        \* "runs", "hung" in a dialogue, or "ended" by an exception
    \* the VM's object
    running,     \* self.running
    spins,       \* self.spins
    creds,       \* credentials left in self.credentials
    flags,       \* prompts remembered
    \* the guest
    session,     \* is somebody logged in on the console?
    configured,  \* has its disk been configured?
    \* history
    seen,        \* prompts shown since qemu was started
    quiet,       \* reads without output since qemu was started or spoke
    \* bound
    faults

object == <<running, spins, creds, flags>>
guest  == <<session, configured>>
vars   == <<platform, mode, object, guest, seen, quiet, faults>>

P == Profile[platform]

TypeOK ==
    /\ platform \in Platforms
    /\ mode \in {"runs", "hung", "ended"}
    /\ running \in BOOLEAN
    /\ spins \in 0 .. Limit + 1
    /\ creds \in 0 .. MaxCreds
    /\ flags \in SUBSET Prompts
    /\ session \in BOOLEAN /\ configured \in BOOLEAN
    /\ seen \in SUBSET Prompts
    /\ quiet \in 0 .. Limit + 2
    /\ faults \in 0 .. MaxFaults

Init ==
    /\ platform \in Platforms
    /\ mode = "runs"
    /\ running = FALSE /\ spins = 0 /\ creds = P.creds /\ flags = {}
    /\ session = FALSE /\ configured = FALSE
    /\ seen = {} /\ quiet = 0
    /\ faults = 0

UpTo(n, max) == IF n > max THEN max ELSE n

Fault == faults < MaxFaults /\ faults' = faults + 1

\* Mutant of StopStart: self.running stays set.
StopStartUp ==
    /\ running' = running
    /\ session' = FALSE
    /\ seen' = {} /\ quiet' = 0

\* stop() and start(): another qemu on the same disk. The rest of the object
\* stays as it is.
StopStart ==
    /\ running' = FALSE
    /\ session' = FALSE
    /\ seen' = {} /\ quiet' = 0

(***************************************************************************)
(* bootstrap_spin().                                                        *)
(***************************************************************************)

Exhausted == P.giveUp # "never" /\ spins > Limit

\* Too many spins with no result.
GiveUp ==
    /\ mode = "runs" /\ ~running /\ Exhausted
    /\ StopStart
    /\ spins' = IF P.giveUp = "clear" THEN 0 ELSE spins
    /\ UNCHANGED <<platform, mode, creds, flags, configured, faults>>

Reading == mode = "runs" /\ ~running /\ ~Exhausted

\* Mutant of CountSilence: starts again at the limit.
CountSilenceWraps ==
    /\ spins' = IF P.counts THEN (spins + 1) % (Limit + 1) ELSE spins
    /\ quiet' = UpTo(quiet + 1, Limit + 2)

\* Nothing has been read. A platform that never gives up may count for ever.
CountSilence ==
    /\ spins' = IF P.counts THEN UpTo(spins + 1, Limit + 1) ELSE spins
    /\ quiet' = UpTo(quiet + 1, Limit + 2)

\* Something has been read: "probably booting, so give it some more time".
CountOutput ==
    /\ spins' = IF P.counts THEN UpTo(1, Limit + 1) ELSE spins
    /\ quiet' = 0

ReadNothing ==
    /\ Reading
    /\ P.final # {}
    /\ CountSilence
    /\ UNCHANGED <<platform, mode, running, creds, flags, guest, seen, faults>>

ReadNoise ==
    /\ Reading
    /\ P.final # {}
    /\ CountOutput
    /\ UNCHANGED <<platform, mode, running, creds, flags, guest, seen, faults>>

\* The console was idle for so long that the VM is taken to be up.
ReadIdle ==
    /\ Reading
    /\ P.idle
    /\ running' = TRUE
    /\ UNCHANGED <<platform, mode, spins, creds, flags, guest, seen, quiet,
                   faults>>

\* A card without a console of its own is taken to be up at once.
RunAtOnce ==
    /\ Reading
    /\ P.final = {}
    /\ running' = TRUE
    /\ UNCHANGED <<platform, mode, spins, creds, flags, guest, seen, quiet,
                   faults>>

\* The guest shows a prompt the platform knows.
Shown(p) ==
    /\ Reading
    /\ p \in P.inside => session
    /\ p \in P.once => ~configured

\* self.credentials.pop(0) raises: "no more credentials to try".
NoCredentials(p) ==
    /\ Shown(p) /\ p \in P.pops
    /\ creds = 0
    /\ seen' = seen \cup {p} /\ quiet' = 0
    /\ UNCHANGED <<platform, mode, object, guest, faults>>

\* A prompt that says that the boot has failed.
BootFailed(p) ==
    /\ Shown(p) /\ p \in P.fails
    /\ Fault
    /\ StopStart
    /\ UNCHANGED <<platform, mode, spins, creds, flags, configured>>

Ready(p) == p \in P.final /\ P.needs \subseteq flags

\* A credential is used up, or added to the list.
Credentials(p) ==
    /\ p \in P.pops => creds > 0
    /\ p \in P.refills => creds < MaxCreds
    /\ creds' = IF p \in P.pops THEN creds - 1
                ELSE IF p \in P.refills THEN creds + 1 ELSE creds

\* Mutant of Answer: a login is noted as the end of the boot.
AnswerForgets(p) ==
    /\ Shown(p) /\ p \in P.pops \cup P.refills \cup P.logins \cup P.remembers
    /\ ~Ready(p)
    /\ Credentials(p)
    /\ flags' = P.remembers \cap {p}
    /\ session' = (session \/ p \in P.logins)
    /\ seen' = seen \cup {p}
    /\ CountOutput
    /\ UNCHANGED <<platform, mode, running, configured, faults>>

\* Log in, remember what was seen, or note a credential. Whether the counter
\* starts from 0 or 1 again is left out.
Answer(p) ==
    /\ Shown(p) /\ p \in P.pops \cup P.refills \cup P.logins \cup P.remembers
    /\ ~Ready(p)
    /\ Credentials(p)
    /\ flags' = flags \cup (P.remembers \cap {p})
    /\ session' = (session \/ p \in P.logins)
    /\ seen' = seen \cup {p}
    /\ CountOutput
    /\ UNCHANGED <<platform, mode, running, configured, faults>>

\* Log in, configure the guest, load the startup configuration, and close the
\* console.
Finish(p) ==
    /\ Shown(p) /\ Ready(p)
    /\ Credentials(p)
    /\ running' = TRUE
    /\ session' = TRUE /\ configured' = TRUE
    /\ seen' = seen \cup {p} /\ quiet' = 0
    /\ UNCHANGED <<platform, mode, spins, flags, faults>>

\* Something goes wrong at the prompt at which the launcher logs in and
\* configures; it may be one it waits for a second time.
Trouble(p, kind) ==
    /\ Shown(p) /\ (Ready(p) \/ p \in P.final \cap P.remembers)
    /\ kind \in P.trouble
    /\ Credentials(p)
    /\ Fault

\* The guest does not answer as expected: wait_write() waits for ever, ...
Hang(p) ==
    /\ Trouble(p, "hangs")
    /\ mode' = "hung"
    /\ seen' = seen \cup {p} /\ quiet' = 0
    /\ UNCHANGED <<platform, running, spins, flags, guest>>

\* ... a driver, a helper process or an API call raises, which ends the
\* launcher, ...
Raise(p) ==
    /\ Trouble(p, "raises")
    /\ mode' = "ended"
    /\ seen' = seen \cup {p} /\ quiet' = 0
    /\ UNCHANGED <<platform, running, spins, flags, guest>>

\* ... the failure is logged, and the VM is taken to be up, ...
Ignore(p) ==
    /\ Trouble(p, "ignores") /\ Ready(p)
    /\ running' = TRUE
    /\ seen' = seen \cup {p} /\ quiet' = 0
    /\ UNCHANGED <<platform, mode, spins, flags, guest>>

\* ... the next prompt is waited for, ...
Retry(p) ==
    /\ Trouble(p, "retries")
    /\ seen' = seen \cup {p}
    /\ CountOutput
    /\ UNCHANGED <<platform, mode, running, flags, guest>>

\* ... or the VM is restarted.
RestartFromConfig(p) ==
    /\ Trouble(p, "restarts")
    /\ StopStart
    /\ UNCHANGED <<platform, mode, spins, flags, configured>>

ReadPrompt(p) ==
    \/ NoCredentials(p) \/ BootFailed(p) \/ Answer(p) \/ Finish(p)
    \/ Hang(p) \/ Raise(p) \/ Ignore(p) \/ Retry(p) \/ RestartFromConfig(p)

BootstrapSpin ==
    \/ GiveUp \/ ReadNothing \/ ReadNoise \/ ReadIdle \/ RunAtOnce
    \/ \E p \in Prompts : ReadPrompt(p)

(***************************************************************************)
(* The world.                                                               *)
(***************************************************************************)

\* qemu dies, or its console is closed: work() restarts the VM.
QemuDies ==
    /\ mode = "runs"
    /\ Fault
    /\ StopStart
    /\ UNCHANGED <<platform, mode, spins, creds, flags, configured>>

\* docker restart: a new launcher with a new object, on the same disk.
Relaunch ==
    /\ Fault
    /\ mode' = "runs"
    /\ StopStart
    /\ spins' = 0 /\ creds' = P.creds /\ flags' = {}
    /\ UNCHANGED <<platform, configured>>

Next == BootstrapSpin \/ QemuDies \/ Relaunch

Spec == Init /\ [][Next]_vars

\* A prompt that brings the launcher nearer to the end.
Advance(p) ==
    /\ Answer(p)
    /\ \/ flags' # flags \/ session' # session
       \/ creds = 0 /\ creds' # 0 /\ ~session

\* The loop runs, and a guest that is read from again and again shows, one time
\* or another, what the launcher waits for next.
Fairness ==
    /\ WF_vars(GiveUp \/ RunAtOnce)
    /\ SF_vars(\E p \in Prompts : Advance(p))
    /\ SF_vars(\E p \in Prompts : Finish(p))

FairSpec == Spec /\ Fairness

(***************************************************************************)
(* Properties.                                                              *)
(***************************************************************************)

\* What the object remembers belongs to the first boot, or is waited for again.
Forgetful == \A p \in P.final : P.needs \subseteq P.once \cup {p}

\* A running VM has shown, since its qemu was started, all the launcher waits
\* for: "then waits for switchd to be active before marking the VM as running"
\* (cumulus). What was seen of an earlier qemu says nothing of this one.
BootSeen ==
    running /\ P.final # {} /\ ~P.idle =>
        P.final \cap seen # {} /\ P.needs \ P.once \subseteq seen

\* What holds of the code: the launchers that remember nothing a restarted VM
\* would have to show again.
ReadyAfterBoot == Forgetful => BootSeen

\* "Too many spins with no result -> give up": no VM stays silent for more than
\* the limit of reads, if its launcher counts.
SilenceBounded == P.counts /\ P.giveUp # "never" => quiet <= Limit + 1

Waits == P.final # {} /\ ~P.idle

\* The launcher must log in to get on, and has nothing left to do it with.
LockedOut ==
    /\ P.final \subseteq P.pops \cup P.inside /\ P.logins \subseteq P.pops
    /\ creds = 0 /\ ~session
    /\ P.refills = {} \/ (configured /\ P.refills \subseteq P.once)

\* The ways in which a bootstrap comes to a stop: a dialogue hangs or raises,
\* the counter was not cleared, the credentials are used up, or the launcher
\* waits for a prompt that went with the first boot.
Stuck ==
    \/ mode # "runs"
    \/ P.giveUp = "keep" /\ spins > Limit
    \/ Waits /\ LockedOut
    \/ Waits /\ configured /\ P.final \subseteq P.once
    \/ Waits /\ configured /\ ~(P.needs \cap P.once \subseteq flags)

\* But for these stops a VM that is down comes up, again and again, if its
\* guest shows its prompts ...
RecoversOrStuck == ~running ~> running \/ Stuck

\* ... and no restart of the VM, only another launcher, gets it out of one.
StuckForGood == [][~running /\ Stuck => (~running' /\ Stuck') \/ Relaunch]_vars

=============================================================================
