-------------------------- MODULE BootstrapProofs --------------------------
(***************************************************************************)
(* Proofs about what a launcher does between two rounds of its loop.  Of    *)
(* Bootstrap, for every profile a launcher could have and any limits: what  *)
(* holds of the launchers in Platforms holds of one yet to be written.  Of  *)
(* VmRequests, for any VMs, requests and failures: the request files.       *)
(***************************************************************************)
EXTENDS Bootstrap, VmRequests, TLAPS

(***************************************************************************)
(* The inductive invariant.                                                 *)
(***************************************************************************)

\* The counter is never behind the silence it measures.
SilenceCounted == P.counts /\ P.giveUp # "never" => quiet <= spins

IInv == TypeOK /\ SilenceCounted /\ ReadyAfterBoot

(***************************************************************************)
(* Facts about profiles.                                                    *)
(***************************************************************************)

\* The platform's profile is one of the profiles.
LEMMA ProfileType == TypeOK => P \in Profiles
  BY BootstrapAssumption DEF TypeOK, P

\* The fields of a profile that are counted, or bound a counter.
LEMMA ProfileFields ==
    ASSUME TypeOK
    PROVE  /\ P.creds \in 0 .. MaxCreds
           /\ P.giveUp \in {"keep", "clear", "never"}
           /\ P.counts \in BOOLEAN /\ P.idle \in BOOLEAN
           /\ Limit \in Nat /\ MaxCreds \in Nat /\ MaxFaults \in Nat
<1>1. P \in Profiles
  BY ProfileType
<1>. QED
  BY <1>1, BootstrapAssumption DEF Profiles

\* The container keeps its platform.
LEMMA SamePlatform == [Next]_vars => platform' = platform /\ P' = P
<1>1. [Next]_vars => platform' = platform
  BY DEF Next, BootstrapSpin, ReadPrompt, GiveUp, ReadNothing, ReadNoise,
         ReadIdle, RunAtOnce, NoCredentials, BootFailed, Answer, Finish, Hang,
         Raise, Ignore, Retry, RestartFromConfig, QemuDies, Relaunch, vars
<1>. QED
  BY <1>1 DEF P

\* A credential is taken only when there is one, and added only in bounds.
LEMMA CredentialsType ==
    ASSUME TypeOK, NEW p, Credentials(p)
    PROVE  creds' \in 0 .. MaxCreds
  BY ProfileFields DEF TypeOK, Credentials

\* Another qemu has no session and has shown nothing.
LEMMA StopStartType ==
    StopStart => /\ running' \in BOOLEAN /\ session' \in BOOLEAN
                 /\ seen' \in SUBSET Prompts
                 /\ quiet' \in 0 .. Limit + 2
<1>1. StopStart => running' \in BOOLEAN /\ session' \in BOOLEAN
  BY DEF StopStart
<1>2. StopStart => seen' \in SUBSET Prompts
  BY DEF StopStart
<1>3. StopStart => quiet' \in 0 .. Limit + 2
  BY BootstrapAssumption DEF StopStart
<1>. QED
  BY <1>1, <1>2, <1>3

(***************************************************************************)
(* Type correctness.                                                        *)
(***************************************************************************)

\* Every answer to a prompt keeps the variables in their types.
LEMMA PromptTypeStep ==
    ASSUME TypeOK, NEW p \in Prompts, ReadPrompt(p)
    PROVE  TypeOK'
<1>. USE ProfileFields DEF TypeOK, object, guest
<1>0. seen \cup {p} \in SUBSET Prompts
  OBVIOUS
<1>1. CASE NoCredentials(p)
  BY <1>0, <1>1 DEF NoCredentials
<1>2. CASE BootFailed(p)
  BY <1>2, StopStartType DEF BootFailed, Fault
<1>3. CASE Answer(p)
  <2>1. flags' \in SUBSET Prompts
    BY <1>3 DEF Answer
  <2>. QED
    BY <1>0, <1>3, <2>1, CredentialsType DEF Answer, CountOutput, UpTo
<1>4. CASE Finish(p)
  BY <1>0, <1>4, CredentialsType DEF Finish
<1>5. CASE Hang(p)
  BY <1>0, <1>5, CredentialsType DEF Hang, Trouble, Fault
<1>6. CASE Raise(p)
  BY <1>0, <1>6, CredentialsType DEF Raise, Trouble, Fault
<1>7. CASE Ignore(p)
  BY <1>0, <1>7, CredentialsType DEF Ignore, Trouble, Fault
<1>8. CASE Retry(p)
  BY <1>0, <1>8, CredentialsType DEF Retry, Trouble, Fault, CountOutput, UpTo
<1>9. CASE RestartFromConfig(p)
  BY <1>9, CredentialsType, StopStartType DEF RestartFromConfig, Trouble, Fault
<1>. QED
  BY <1>1, <1>2, <1>3, <1>4, <1>5, <1>6, <1>7, <1>8, <1>9 DEF ReadPrompt

\* Every step keeps the variables in their types.
LEMMA TypeStep == TypeOK /\ [Next]_vars => TypeOK'
<1>. SUFFICES ASSUME TypeOK, [Next]_vars
             PROVE  TypeOK'
  OBVIOUS
<1>. USE ProfileFields
<1>1. CASE GiveUp
  BY <1>1, StopStartType DEF GiveUp, TypeOK
<1>2. CASE ReadNothing
  BY <1>2 DEF ReadNothing, CountSilence, UpTo, guest, TypeOK
<1>3. CASE ReadNoise
  BY <1>3 DEF ReadNoise, CountOutput, UpTo, guest, TypeOK
<1>4. CASE ReadIdle
  BY <1>4 DEF ReadIdle, guest, TypeOK
<1>5. CASE RunAtOnce
  BY <1>5 DEF RunAtOnce, guest, TypeOK
<1>6. CASE \E p \in Prompts : ReadPrompt(p)
  BY <1>6, PromptTypeStep
<1>7. CASE QemuDies
  BY <1>7, StopStartType DEF QemuDies, Fault, TypeOK
<1>8. CASE Relaunch
  <2>1. flags' \in SUBSET Prompts
    BY <1>8 DEF Relaunch
  <2>. QED
    BY <1>8, <2>1, StopStartType DEF Relaunch, Fault, TypeOK
<1>9. CASE UNCHANGED vars
  BY <1>9 DEF vars, object, guest, TypeOK
<1>. QED
  BY <1>1, <1>2, <1>3, <1>4, <1>5, <1>6, <1>7, <1>8, <1>9
     DEF Next, BootstrapSpin

(***************************************************************************)
(* Silence.                                                                 *)
(***************************************************************************)

\* A silent read counts one more spin; whatever else clears the silence or
\* leaves both counters alone.
LEMMA SilenceStep == TypeOK /\ SilenceCounted /\ [Next]_vars => SilenceCounted'
<1>. SUFFICES ASSUME TypeOK, SilenceCounted, [Next]_vars,
                    P.counts, P.giveUp # "never"
             PROVE  quiet' <= spins'
  BY SamePlatform DEF SilenceCounted
<1>. USE ProfileFields DEF SilenceCounted, TypeOK
<1>a. quiet <= spins
  OBVIOUS
<1>b. TypeOK'
  BY TypeStep
<1>1. CASE GiveUp
  BY <1>1 DEF GiveUp, StopStart
<1>2. CASE ReadNothing
  BY <1>2, <1>a DEF ReadNothing, Reading, Exhausted, CountSilence, UpTo
<1>3. CASE quiet' = 0
  BY <1>3, <1>b
<1>4. CASE quiet' = quiet /\ spins' = spins
  BY <1>4, <1>a
<1>5. CASE \E p \in Prompts : ReadPrompt(p)
  <2>1. quiet' = 0
    BY <1>5 DEF ReadPrompt, NoCredentials, BootFailed, Answer, Finish, Hang,
       Raise, Ignore, Retry, RestartFromConfig, CountOutput, StopStart
  <2>. QED
    BY <2>1, <1>3
<1>. QED
  BY <1>1, <1>2, <1>3, <1>4, <1>5
     DEF Next, BootstrapSpin, ReadNoise, ReadIdle, RunAtOnce, CountOutput,
         QemuDies, Relaunch, StopStart, vars, object

(***************************************************************************)
(* What a running VM has shown.                                             *)
(***************************************************************************)

\* A VM comes up with what the launcher waits for in front of it, and goes
\* down with its qemu.
LEMMA ReadyStep == TypeOK /\ ReadyAfterBoot /\ [Next]_vars => ReadyAfterBoot'
<1>. SUFFICES ASSUME TypeOK, ReadyAfterBoot, [Next]_vars,
                    Forgetful, running', P.final # {}, ~P.idle
             PROVE  P.final \cap seen' # {} /\ P.needs \ P.once \subseteq seen'
  BY SamePlatform DEF ReadyAfterBoot, BootSeen, Forgetful
<1>1. ASSUME NEW p \in Prompts, Ready(p), seen' = seen \cup {p}
      PROVE  P.final \cap seen' # {} /\ P.needs \ P.once \subseteq seen'
  <2>1. p \in P.final
    BY <1>1 DEF Ready
  <2>2. P.needs \subseteq P.once \cup {p}
    BY <2>1 DEF Forgetful
  <2>. QED
    BY <1>1, <2>1, <2>2
<1>2. ASSUME NEW p \in Prompts, Finish(p)
      PROVE  P.final \cap seen' # {} /\ P.needs \ P.once \subseteq seen'
  BY <1>1, <1>2 DEF Finish
<1>3. ASSUME NEW p \in Prompts, Ignore(p)
      PROVE  P.final \cap seen' # {} /\ P.needs \ P.once \subseteq seen'
  BY <1>1, <1>3 DEF Ignore
<1>4. CASE UNCHANGED vars
  BY <1>4 DEF vars, object, ReadyAfterBoot, BootSeen
<1>5. ASSUME NEW p \in Prompts, ReadPrompt(p)
      PROVE  Finish(p) \/ Ignore(p)
  BY <1>5 DEF ReadPrompt, NoCredentials, BootFailed, Answer, Hang, Raise,
     Retry, RestartFromConfig, Trouble, Shown, Reading, StopStart, object
<1>. QED
  BY <1>2, <1>3, <1>4, <1>5
     DEF Next, BootstrapSpin, GiveUp, ReadNothing, ReadNoise, ReadIdle,
         RunAtOnce, QemuDies, Relaunch, StopStart, Reading

(***************************************************************************)
(* The invariants.                                                          *)
(***************************************************************************)

\* The inductive invariant holds in every reachable state.
THEOREM Invariance == Spec => []IInv
<1>1. Init => IInv
  <2>. SUFFICES ASSUME Init
               PROVE  IInv
    OBVIOUS
  <2>1. P \in Profiles
    BY BootstrapAssumption DEF Init, P
  <2>2. P.creds \in 0 .. MaxCreds
    BY <2>1 DEF Profiles
  <2>3. flags \in SUBSET Prompts /\ seen \in SUBSET Prompts
    BY DEF Init
  <2>4. /\ running \in BOOLEAN /\ session \in BOOLEAN
        /\ configured \in BOOLEAN
    BY DEF Init
  <2>5. /\ spins \in 0 .. Limit + 1 /\ quiet \in 0 .. Limit + 2
        /\ faults \in 0 .. MaxFaults /\ creds \in 0 .. MaxCreds
    BY <2>2, BootstrapAssumption DEF Init
  <2>6. TypeOK
    BY <2>3, <2>4, <2>5 DEF Init, TypeOK
  <2>. QED
    BY <2>6 DEF Init, IInv, SilenceCounted, ReadyAfterBoot, BootSeen
<1>2. IInv /\ [Next]_vars => IInv'
  BY TypeStep, SilenceStep, ReadyStep DEF IInv
<1>. QED
  BY <1>1, <1>2, PTL DEF Spec

\* Every variable keeps its type: no launcher takes a credential it does not
\* have.
THEOREM TypeCorrect == Spec => []TypeOK
  BY Invariance, PTL DEF IInv

\* Of a launcher that remembers nothing a restarted VM would have to show
\* again, a VM is running only if it has shown, since its qemu was started, all
\* the launcher waits for.
THEOREM ReadyAfterBootHolds == Spec => []ReadyAfterBoot
  BY Invariance, PTL DEF IInv

\* No VM stays silent for more than the limit of reads, if its launcher counts
\* them.
THEOREM SilenceBoundedHolds == Spec => []SilenceBounded
<1>1. IInv => SilenceBounded
  BY ProfileFields DEF IInv, TypeOK, SilenceCounted, SilenceBounded
<1>. QED
  BY <1>1, Invariance, PTL

(***************************************************************************)
(* The stops.  Each is kept by every step but that of a new launcher.       *)
(***************************************************************************)

\* A launcher that hangs or has ended does nothing.
LEMMA StoppedStays ==
    ASSUME TypeOK, [Next]_vars, ~running, mode # "runs"
    PROVE  (~running' /\ mode' # "runs") \/ Relaunch
  BY DEF Next, BootstrapSpin, ReadPrompt, GiveUp, ReadNothing, ReadNoise,
         ReadIdle, RunAtOnce, NoCredentials, BootFailed, Answer, Finish, Hang,
         Raise, Ignore, Retry, RestartFromConfig, QemuDies, Trouble, Shown,
         Reading, vars, object

\* A launcher whose counter stays over the limit gives up again and again.
LEMMA ExhaustedStays ==
    ASSUME TypeOK, [Next]_vars, ~running, P.giveUp = "keep", spins > Limit
    PROVE  (~running' /\ spins' > Limit) \/ Relaunch
<1>1. Exhausted
  BY DEF Exhausted
<1>. QED
  BY <1>1
     DEF Next, BootstrapSpin, ReadPrompt, GiveUp, ReadNothing, ReadNoise,
         ReadIdle, RunAtOnce, NoCredentials, BootFailed, Answer, Finish, Hang,
         Raise, Ignore, Retry, RestartFromConfig, QemuDies, Trouble, Shown,
         Reading, StopStart, vars, object

\* A launcher without credentials sees no prompt it could log in at, none that
\* gives it one, and none it could finish at.
LEMMA LockedOutStays ==
    ASSUME TypeOK, [Next]_vars, ~running, Waits, LockedOut
    PROVE  (~running' /\ LockedOut') \/ Relaunch
<1>1. ASSUME NEW p \in Prompts, Shown(p), Credentials(p)
      PROVE  p \notin P.final \cup P.pops \cup P.refills \cup P.logins
  BY <1>1, ProfileFields DEF Shown, Credentials, LockedOut, TypeOK
<1>2. ASSUME NEW p \in Prompts, ReadPrompt(p)
      PROVE  ~running' /\ LockedOut'
  <2>1. CASE NoCredentials(p)
    BY <2>1, SamePlatform
       DEF NoCredentials, Shown, Reading, LockedOut, object, guest
  <2>2. CASE BootFailed(p)
    BY <2>2, SamePlatform DEF BootFailed, StopStart, LockedOut
  <2>3. CASE Answer(p)
    <3>1. p \notin P.pops \cup P.refills \cup P.logins
      BY <1>1, <2>3 DEF Answer
    <3>2. creds' = creds /\ session' = session
      BY <2>3, <3>1 DEF Answer, Credentials, TypeOK
    <3>. QED
      BY <2>3, <3>2, SamePlatform DEF Answer, LockedOut
  <2>4. ~Finish(p)
    BY <1>1 DEF Finish, Ready
  <2>5. \A kind : ~Trouble(p, kind)
    BY <1>1 DEF Trouble, Ready
  <2>. QED
    BY <1>2, <2>1, <2>2, <2>3, <2>4, <2>5
       DEF ReadPrompt, Hang, Raise, Ignore, Retry, RestartFromConfig
<1>3. CASE GiveUp \/ QemuDies
  BY <1>3, SamePlatform DEF GiveUp, QemuDies, StopStart, LockedOut
<1>4. CASE ReadNothing \/ ReadNoise \/ UNCHANGED vars
  BY <1>4, SamePlatform
     DEF ReadNothing, ReadNoise, vars, object, guest, LockedOut
<1>5. ~ReadIdle /\ ~RunAtOnce
  BY DEF ReadIdle, RunAtOnce, Waits
<1>. QED
  BY <1>2, <1>3, <1>4, <1>5 DEF Next, BootstrapSpin

\* A guest that is configured stays so; and a launcher that waits for a prompt
\* of the first boot, to finish or before it would, waits for ever.
LEMMA FirstBootStays ==
    ASSUME TypeOK, [Next]_vars, ~running, Waits, configured,
           \/ P.final \subseteq P.once
           \/ ~(P.needs \cap P.once \subseteq flags)
    PROVE  \/ /\ ~running' /\ configured'
              /\ \/ P.final \subseteq P.once
                 \/ ~(P.needs \cap P.once \subseteq flags')
           \/ Relaunch
<1>1. ASSUME NEW p \in Prompts, Shown(p)
      PROVE  p \notin P.once /\ ~Ready(p)
  BY <1>1 DEF Shown, Ready
<1>2. ASSUME NEW p \in Prompts, ReadPrompt(p)
      PROVE  /\ ~running' /\ configured'
             /\ flags' \cap P.once \subseteq flags
  <2>1. p \notin P.once /\ ~Ready(p)
    BY <1>1, <1>2
       DEF ReadPrompt, NoCredentials, BootFailed, Answer, Finish, Hang, Raise,
           Ignore, Retry, RestartFromConfig, Trouble
  <2>2. ~Finish(p) /\ ~Ignore(p)
    BY <2>1 DEF Finish, Ignore
  <2>3. CASE Answer(p)
    BY <2>1, <2>3 DEF Answer, Shown, Reading
  <2>4. CASE NoCredentials(p)
    BY <2>4 DEF NoCredentials, object, guest
  <2>5. CASE BootFailed(p)
    BY <2>5 DEF BootFailed, StopStart
  <2>6. CASE Hang(p)
    BY <2>6 DEF Hang, guest
  <2>7. CASE Raise(p)
    BY <2>7 DEF Raise, guest
  <2>8. CASE Retry(p)
    BY <2>8, <2>1 DEF Retry, Trouble, Shown, Reading, guest
  <2>9. CASE RestartFromConfig(p)
    BY <2>9 DEF RestartFromConfig, StopStart
  <2>. QED
    BY <1>2, <2>2, <2>3, <2>4, <2>5, <2>6, <2>7, <2>8, <2>9 DEF ReadPrompt
<1>3. CASE GiveUp \/ QemuDies
  BY <1>3 DEF GiveUp, QemuDies, StopStart
<1>4. CASE ReadNothing \/ ReadNoise \/ UNCHANGED vars
  BY <1>4 DEF ReadNothing, ReadNoise, vars, object, guest
<1>5. ~ReadIdle /\ ~RunAtOnce
  BY DEF ReadIdle, RunAtOnce, Waits
<1>. QED
  BY <1>2, <1>3, <1>4, <1>5 DEF Next, BootstrapSpin

\* No restart of the VM gets a launcher out of any of these stops: only a new
\* launcher does.
THEOREM StuckIsForGood == Spec => StuckForGood
<1>1. ASSUME TypeOK, [Next]_vars, ~running, Stuck
      PROVE  (~running' /\ Stuck') \/ Relaunch
  <2>. USE <1>1, SamePlatform DEF Stuck, Waits
  <2>1. CASE mode # "runs"
    BY <2>1, StoppedStays
  <2>2. CASE P.giveUp = "keep" /\ spins > Limit
    BY <2>2, ExhaustedStays
  <2>3. CASE Waits /\ LockedOut
    BY <2>3, LockedOutStays
  <2>4. CASE /\ Waits /\ configured
             /\ \/ P.final \subseteq P.once
                \/ ~(P.needs \cap P.once \subseteq flags)
    BY <2>4, FirstBootStays
  <2>. QED
    BY <2>1, <2>2, <2>3, <2>4
<1>2. TypeOK /\ [Next]_vars =>
          [~running /\ Stuck => (~running' /\ Stuck') \/ Relaunch]_vars
  BY <1>1
<1>. QED
  BY <1>2, TypeCorrect, PTL DEF Spec, StuckForGood

(***************************************************************************)
(* The request files: the inductive invariant.                             *)
(***************************************************************************)

\* What a file stands for: it lists nothing without a request, one request at
\* most is in /reset, none is in both files, and what is listed is what that
\* one wants.
FilesSound ==
    /\ \A k \in Kinds : file[k].by = {} => file[k].names = {}
    /\ \A k \in Kinds : \A r \in file[k].by :
           state[r] \in {"open", "waiting", "served", "torn"}
    /\ \A r, q \in file["reset"].by : r = q
    /\ file["reset"].by \cap file["snapshot"].by = {}
    /\ file["snapshot"].names = {}
    /\ \A r \in file["reset"].by :
           IF file["reset"].names = {}
           THEN state[r] \in {"open", "torn"} \/ wanted[r] = VMs
           ELSE wanted[r] = file["reset"].names

\* A request that is opened lists VMs.
OpenLists == \A r \in Requests : state[r] \in {"open", "torn"} => wanted[r] # {}

\* What the loop holds in its hands was read, complete or not.
ServingSound ==
    /\ \A r \in serving : state[r] \in {"served", "torn"}
    /\ at \in {"resetting", "saving"} => serving # {}
    /\ at = "read" => file["reset"].by # {}

RequestIInv == RequestTypeOK /\ FilesSound /\ OpenLists /\ ServingSound /\ ResetAsAsked

(***************************************************************************)
(* It holds at the start, and each step keeps it.                          *)
(***************************************************************************)

LEMMA RequestInitIInv == RequestInit => RequestIInv
  BY VMsAssumption DEF RequestInit, RequestIInv, RequestTypeOK, FilesSound, OpenLists, ServingSound, ResetAsAsked,
     Wanted, Kinds, States, Absent

LEMMA RequestStepIInv == RequestIInv /\ [RequestNext]_requestVars => RequestIInv'
<1>. SUFFICES ASSUME RequestIInv, [RequestNext]_requestVars PROVE RequestIInv'
  OBVIOUS
<1>. USE VMsAssumption DEF RequestIInv, RequestTypeOK, Kinds, States
<1>1. CASE Look
  BY <1>1 DEF Look, FilesSound, OpenLists, ServingSound, ResetAsAsked, Wanted, Absent
<1>2. CASE Read
  <2>1. RequestTypeOK'
    BY <1>2 DEF Read, Take, Listed
  <2>2. FilesSound'
    BY <1>2 DEF Read, Take, Listed, FilesSound
  <2>3. OpenLists'
    BY <1>2 DEF Read, Take, Listed, OpenLists
  <2>4. ServingSound'
    BY <1>2 DEF Read, Take, Listed, ServingSound, FilesSound
  <2>5. ResetAsAsked'
    <3>1. PICK r \in file["reset"].by : TRUE
      BY <1>2 DEF Read, ServingSound
    <3>2. serving' = {r} /\ r \in Requests
      BY <1>2, <3>1 DEF Read, Take, FilesSound
    <3>3. Wanted' = wanted[r]
      BY <1>2, <3>2 DEF Read, Wanted
    <3>4. todo' \cup hit' = Listed(file["reset"].names)
      BY <1>2 DEF Read, Listed
    <3>5. CASE file["reset"].names = {}
      <4>1. wanted[r] = VMs \/ state'[r] = "torn"
        BY <1>2, <3>1, <3>2, <3>5 DEF Read, Take, FilesSound, ResetAsAsked
      <4>. QED
        BY <4>1, <3>2, <3>3, <3>4, <3>5 DEF Listed, ResetAsAsked
    <3>6. CASE file["reset"].names # {}
      BY <3>1, <3>2, <3>3, <3>4, <3>6 DEF Listed, ResetAsAsked, FilesSound
    <3>. QED
      BY <3>5, <3>6
  <2>. QED
    BY <2>1, <2>2, <2>3, <2>4, <2>5
<1>3. CASE Reset
  BY <1>3 DEF Reset, FilesSound, OpenLists, ServingSound, ResetAsAsked, Wanted
<1>4. CASE RemoveReset
  <2>1. RequestTypeOK'
    BY <1>4 DEF RemoveReset, Remove, Absent
  <2>2. FilesSound'
    BY <1>4 DEF RemoveReset, Remove, Absent, FilesSound
  <2>3. OpenLists'
    BY <1>4 DEF RemoveReset, Remove, Absent, OpenLists
  <2>4. ServingSound'
    BY <1>4 DEF RemoveReset, Remove, Absent, ServingSound, FilesSound
  <2>5. ResetAsAsked'
    BY <1>4 DEF RemoveReset, Remove, Absent, ResetAsAsked, Wanted, FilesSound
  <2>. QED
    BY <2>1, <2>2, <2>3, <2>4, <2>5
<1>5. CASE LookSnapshot
  BY <1>5 DEF LookSnapshot, Take, FilesSound, OpenLists, ServingSound, ResetAsAsked, Absent
<1>6. CASE RemoveSnapshot
  <2>1. RequestTypeOK'
    BY <1>6 DEF RemoveSnapshot, Remove, Absent
  <2>2. FilesSound'
    BY <1>6 DEF RemoveSnapshot, Remove, Absent, FilesSound
  <2>3. OpenLists'
    BY <1>6 DEF RemoveSnapshot, Remove, Absent, OpenLists
  <2>4. ServingSound'
    BY <1>6 DEF RemoveSnapshot, Remove, Absent, ServingSound, FilesSound
  <2>5. ResetAsAsked'
    BY <1>6 DEF RemoveSnapshot, Remove, Absent, ResetAsAsked, Wanted, FilesSound
  <2>. QED
    BY <2>1, <2>2, <2>3, <2>4, <2>5
<1>7. ASSUME NEW r \in Requests, Open(r) PROVE RequestIInv'
  <2>1. RequestTypeOK'
    BY <1>7 DEF Open, Hide
  <2>2. FilesSound'
    BY <1>7 DEF Open, Hide, FilesSound
  <2>3. OpenLists'
    BY <1>7 DEF Open, Hide, OpenLists
  <2>4. ServingSound'
    BY <1>7 DEF Open, Hide, ServingSound, FilesSound
  <2>5. ResetAsAsked'
    <3>1. \A q \in serving : q # r /\ wanted'[q] = wanted[q] /\ state'[q] = state[q]
      BY <1>7 DEF Open, Hide, ServingSound
    <3>2. Wanted' = Wanted
      BY <1>7, <3>1 DEF Open, Wanted
    <3>. QED
      BY <1>7, <3>1, <3>2 DEF Open, ResetAsAsked
  <2>. QED
    BY <2>1, <2>2, <2>3, <2>4, <2>5
<1>8. ASSUME NEW r \in Requests, Write(r) PROVE RequestIInv'
  BY <1>8 DEF Write, FilesSound, OpenLists, ServingSound, ResetAsAsked, Wanted
<1>9. ASSUME NEW r \in Requests, NEW k \in Kinds, Touch(r, k) PROVE RequestIInv'
  BY <1>9 DEF Touch, FilesSound, OpenLists, ServingSound, ResetAsAsked, Wanted, Absent
<1>10. CASE UNCHANGED requestVars
  BY <1>10 DEF requestVars, FilesSound, OpenLists, ServingSound, ResetAsAsked, Wanted
<1>. QED
  BY <1>1, <1>2, <1>3, <1>4, <1>5, <1>6, <1>7, <1>8, <1>9, <1>10 DEF RequestNext, Loop, Users

THEOREM RequestInvariance == RequestSpec => []RequestIInv
  BY RequestInitIInv, RequestStepIInv, PTL DEF RequestSpec

\* Every variable keeps its type: what is read, reset and removed is always
\* requests and VMs of the loop, and no VM is reset and still to reset.
THEOREM RequestTypeCorrect == RequestSpec => []RequestTypeOK
<1>1. RequestIInv => RequestTypeOK
  BY DEF RequestIInv
<1>. QED
  BY <1>1, RequestInvariance, PTL

\* A request for some VMs resets these, and all of them only when its file was
\* read between its opening and its writing.
THEOREM ResetAsAskedHolds == RequestSpec => []ResetAsAsked
<1>1. RequestIInv => ResetAsAsked
  BY DEF RequestIInv
<1>. QED
  BY <1>1, RequestInvariance, PTL

(***************************************************************************)
(* Only the loop's removal loses a request, and never the one it served.   *)
(***************************************************************************)

LEMMA StepLost ==
    RequestIInv /\ [RequestNext]_requestVars =>
        [\A r \in Requests : state'[r] = "lost" =>
             state[r] = "lost" \/ (serving # {} /\ r \notin serving)]_requestVars
<1>. SUFFICES ASSUME RequestIInv, [RequestNext]_requestVars, NEW r \in Requests,
                     state'[r] = "lost", state[r] # "lost"
              PROVE  serving # {} /\ r \notin serving
  OBVIOUS
<1>. USE DEF RequestIInv, RequestTypeOK, Kinds
<1>1. ASSUME NEW k \in Kinds, Remove(k), at \in {"resetting", "saving"}
      PROVE  serving # {} /\ r \notin serving
  BY <1>1 DEF Remove, ServingSound
<1>2. CASE RemoveReset
  BY <1>1, <1>2 DEF RemoveReset
<1>3. CASE RemoveSnapshot
  BY <1>1, <1>3 DEF RemoveSnapshot
<1>4. CASE Read
  BY <1>4 DEF Read, Take
<1>5. CASE LookSnapshot
  BY <1>5 DEF LookSnapshot, Take
<1>6. CASE Look \/ Reset \/ UNCHANGED requestVars
  BY <1>6 DEF Look, Reset, requestVars
<1>7. CASE Users
  BY <1>7 DEF Users, Open, Hide, Write, Touch
<1>. QED
  BY <1>2, <1>3, <1>4, <1>5, <1>6, <1>7 DEF RequestNext, Loop

\* A request that is lost without an answer was made behind one the loop was
\* serving: it never loses the request it acts on, and none while it idles.
THEOREM LostBehindAnotherHolds == RequestSpec => LostBehindAnother
  BY RequestInvariance, StepLost, PTL DEF RequestSpec, LostBehindAnother

=============================================================================
