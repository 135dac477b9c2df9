-------------------------- MODULE SupervisorProofs --------------------------
(***************************************************************************)
(* Proofs about Supervisor, for any number of VMs, any limits and any       *)
(* number of failures.                                                      *)
(***************************************************************************)
EXTENDS Supervisor, TLAPS

(***************************************************************************)
(* The inductive invariant.                                                 *)
(***************************************************************************)

\* A VM has one process or none, as self.p says; start() is entered without
\* one; a launcher that has ended leaves nothing.
ProcessInv ==
    /\ \A v \in VMs : qemus[v] = IF p[v] = "up" THEN 1 ELSE 0
    /\ at = "start" => p[cur] # "up"
    /\ at = "exited" => \A v \in VMs : p[v] = "none" /\ ~running[v]

\* all_running speaks for the VMs the round has been through.
RoundInv ==
    /\ at \in WorkLabels =>
           (allRunning <=> \A u \in VMs : u < cur => running[u])
    /\ at \in {"health", "write"} =>
           (allRunning <=> \A u \in VMs : running[u])
    /\ at = "write" => health = "empty"

\* A good report of this launcher still holds for the VMs to come.
ReportInv ==
    health = "running" /\ started /\ at \in WorkLabels =>
        \A u \in VMs : u > cur => running[u]

\* spins counts reads since the last give-up, except while a give-up is
\* being carried out.
SpinInv ==
    ResetOnGiveUp =>
        \/ at = "exited"
        \/ \A v \in VMs : \/ spins[v] <= reads[v]
                          \/ v = cur /\ ret = "giveup" /\ at \in StartLabels

IInv == TypeOK /\ ProcessInv /\ RoundInv /\ ReportInv
               /\ HealthyOnlyFromPast /\ SpinInv

(***************************************************************************)
(* Type correctness.  The number of qemu processes is a natural number only *)
(* because a process is counted down once: hence ProcessInv.                *)
(***************************************************************************)

\* Every step keeps the variables in their types.
LEMMA TypeStep == TypeOK /\ ProcessInv /\ [Next]_vars
    => TypeOK'
<1>. SUFFICES ASSUME TypeOK, ProcessInv, [Next]_vars
             PROVE  TypeOK'
  OBVIOUS
<1>1. CASE Stop
  <2>1. qemus' \in [VMs -> Nat]
    BY <1>1 DEF Stop, TypeOK, ProcessInv
  <2>. QED
    BY <1>1, <2>1 DEF Stop, TypeOK, Labels, WorkLabels, StartLabels
<1>2. CASE StopRaises
  BY <1>2, SupervisorAssumption DEF StopRaises, Raise, TypeOK, Labels
<1>3. CASE Launch
  BY <1>3, SupervisorAssumption
     DEF Launch, TypeOK, Labels, WorkLabels, StartLabels
<1>4. CASE OpenMonitor
  BY <1>4, SupervisorAssumption
     DEF OpenMonitor, world, TypeOK, Labels, WorkLabels, StartLabels
<1>5. CASE OpenSerial
  BY <1>5, SupervisorAssumption
     DEF OpenSerial, ReturnFromStart, world, TypeOK, Labels, WorkLabels
<1>6. CASE RetryOpen
  BY <1>6, SupervisorAssumption DEF RetryOpen, world, TypeOK
<1>7. CASE RaiseQemuBroken
  BY <1>7 DEF RaiseQemuBroken, Raise, TypeOK, Labels
<1>8. CASE CheckQemu
  BY <1>8 DEF CheckQemu, world, TypeOK, Labels, WorkLabels, StartLabels
<1>9. CASE PollQuiet
  BY <1>9 DEF PollQuiet, AfterCheck, world, TypeOK, Labels, WorkLabels
<1>10. CASE PollError
  BY <1>10
     DEF PollError, CallRestart, world, TypeOK, Labels, WorkLabels,
        StartLabels
<1>11. CASE GiveUp
  BY <1>11, SupervisorAssumption
     DEF GiveUp, CallRestart, world, TypeOK, Labels, WorkLabels, StartLabels
<1>12. ASSUME NEW output \in BOOLEAN, SpinNoMatch(output)
      PROVE  TypeOK'
  <2>1. spins' \in [VMs -> 0 .. MaxSpins + 1]
    BY <1>12, SupervisorAssumption DEF SpinNoMatch, TypeOK
  <2>2. reads' \in [VMs -> 0 .. MaxSpins + 1]
    BY <1>12, SupervisorAssumption DEF SpinNoMatch, TypeOK
  <2>. QED
    BY <1>12, <2>1, <2>2
       DEF SpinNoMatch, world, TypeOK, Labels, WorkLabels, StartLabels
<1>13. CASE SpinSplitPrompt
  <2>1. spins' \in [VMs -> 0 .. MaxSpins + 1]
    BY <1>13, SupervisorAssumption DEF SpinSplitPrompt, TypeOK
  <2>2. reads' \in [VMs -> 0 .. MaxSpins + 1]
    BY <1>13, SupervisorAssumption DEF SpinSplitPrompt, TypeOK
  <2>3. faults' \in 0 .. MaxFaults
    BY <1>13, SupervisorAssumption DEF SpinSplitPrompt, TypeOK
  <2>. QED
    BY <1>13, <2>1, <2>2, <2>3
       DEF SpinSplitPrompt, TypeOK, Labels, WorkLabels, StartLabels
<1>14. CASE SpinLogin
  BY <1>14 DEF SpinLogin, TypeOK, Labels, WorkLabels
<1>15. CASE Configure
  BY <1>15 DEF Configure, world, TypeOK, Labels, WorkLabels
<1>16. CASE ConsoleEof
  BY <1>16
     DEF ConsoleEof, CallRestart, world, TypeOK, Labels, WorkLabels,
        StartLabels
<1>17. CASE ConsoleRaises
  BY <1>17 DEF ConsoleRaises, Raise, TypeOK, Labels
<1>18. CASE Tally
  <2>1. cur' \in VMs
    BY <1>18, SupervisorAssumption DEF Tally, TypeOK, VMs
  <2>2. at' \in Labels
    BY <1>18 DEF Tally, Labels, WorkLabels, StartLabels
  <2>3. allRunning' \in BOOLEAN
    BY <1>18 DEF Tally
  <2>. QED
    BY <1>18, <2>1, <2>2, <2>3
       DEF Tally, world, TypeOK, Labels, WorkLabels, StartLabels
<1>19. CASE TruncateHealth
  BY <1>19 DEF TruncateHealth, TypeOK, Labels
<1>20. CASE WriteHealth
  <2>1. cur' \in VMs
    BY <1>20, SupervisorAssumption DEF WriteHealth, VMs
  <2>. QED
    BY <1>20, <2>1
       DEF WriteHealth, TypeOK, Labels, WorkLabels, StartLabels
<1>21. ASSUME NEW v \in VMs, GuestBoots(v)
      PROVE  TypeOK'
  BY <1>21 DEF GuestBoots, thread, TypeOK
<1>22. ASSUME NEW v \in VMs, GuestReboots(v)
      PROVE  TypeOK'
  BY <1>22, SupervisorAssumption DEF GuestReboots, thread, TypeOK
<1>23. ASSUME NEW v \in VMs, NEW how \in {"exited", "failed"}, QemuExits(v, how)
      PROVE  TypeOK'
  <2>1. qemus' \in [VMs -> Nat]
    BY <1>23 DEF QemuExits, TypeOK, ProcessInv
  <2>2. faults' \in 0 .. MaxFaults
    BY <1>23, SupervisorAssumption DEF QemuExits, TypeOK
  <2>. QED
    BY <1>23, <2>1, <2>2
       DEF QemuExits, thread, TypeOK, Labels, WorkLabels, StartLabels
<1>24. CASE PlugNics
  BY <1>24 DEF PlugNics, thread, TypeOK
<1>25. CASE DockerStop
  BY <1>25, SupervisorAssumption DEF DockerStop, Raise, TypeOK, Labels
<1>26. CASE DockerStart
  <2>1. cur' \in VMs
    BY <1>26, SupervisorAssumption DEF DockerStart, VMs
  <2>2. attempt' \in 1 .. MaxRetries
    BY <1>26, SupervisorAssumption DEF DockerStart
  <2>3. spins' \in [VMs -> 0 .. MaxSpins + 1] /\ reads' \in [VMs -> 0 .. MaxSpins + 1]
    BY <1>26, SupervisorAssumption DEF DockerStart
  <2>. QED
    BY <1>26, <2>1, <2>2, <2>3
       DEF DockerStart, TypeOK, Labels, WorkLabels, StartLabels
<1>27. CASE UNCHANGED vars
  BY <1>27 DEF vars, thread, world, TypeOK, Labels, WorkLabels, StartLabels
<1>. QED
  BY <1>1, <1>2, <1>3, <1>4, <1>5, <1>6, <1>7, <1>8, <1>9, <1>10, <1>11,
        <1>12, <1>13, <1>14, <1>15, <1>16, <1>17, <1>18, <1>19, <1>20, <1>21,
        <1>22, <1>23, <1>24, <1>25, <1>26, <1>27
     DEF Next, Thread, World

\* Every step keeps qemu processes and self.p in agreement.
LEMMA ProcessStep == TypeOK /\ ProcessInv /\ [Next]_vars
    => ProcessInv'
<1>. SUFFICES ASSUME TypeOK, ProcessInv, [Next]_vars
             PROVE  ProcessInv'
  OBVIOUS
<1>1. CASE Stop
  BY <1>1 DEF Stop, TypeOK, ProcessInv
<1>2. CASE StopRaises
  BY <1>2 DEF StopRaises, Raise, ProcessInv
<1>3. CASE Launch
  BY <1>3 DEF Launch, TypeOK, ProcessInv
<1>4. CASE OpenMonitor
  BY <1>4 DEF OpenMonitor, world, ProcessInv
<1>5. CASE OpenSerial
  BY <1>5 DEF OpenSerial, ReturnFromStart, world, TypeOK, ProcessInv
<1>6. CASE RetryOpen
  BY <1>6 DEF RetryOpen, world, ProcessInv
<1>7. CASE RaiseQemuBroken
  BY <1>7 DEF RaiseQemuBroken, Raise, ProcessInv
<1>8. CASE CheckQemu
  BY <1>8 DEF CheckQemu, world, ProcessInv
<1>9. CASE PollQuiet
  BY <1>9 DEF PollQuiet, AfterCheck, world, ProcessInv
<1>10. CASE PollError
  BY <1>10 DEF PollError, CallRestart, world, ProcessInv
<1>11. CASE GiveUp
  BY <1>11 DEF GiveUp, CallRestart, world, ProcessInv
<1>12. ASSUME NEW output \in BOOLEAN, SpinNoMatch(output)
      PROVE  ProcessInv'
  BY <1>12 DEF SpinNoMatch, world, ProcessInv
<1>13. CASE SpinSplitPrompt
  BY <1>13 DEF SpinSplitPrompt, ProcessInv
<1>14. CASE SpinLogin
  BY <1>14 DEF SpinLogin, ProcessInv
<1>15. CASE Configure
  BY <1>15 DEF Configure, world, ProcessInv
<1>16. CASE ConsoleEof
  BY <1>16 DEF ConsoleEof, CallRestart, world, ProcessInv
<1>17. CASE ConsoleRaises
  BY <1>17 DEF ConsoleRaises, Raise, ProcessInv
<1>18. CASE Tally
  BY <1>18 DEF Tally, world, ProcessInv
<1>19. CASE TruncateHealth
  BY <1>19 DEF TruncateHealth, ProcessInv
<1>20. CASE WriteHealth
  BY <1>20 DEF WriteHealth, ProcessInv
<1>21. ASSUME NEW v \in VMs, GuestBoots(v)
      PROVE  ProcessInv'
  BY <1>21 DEF GuestBoots, thread, ProcessInv
<1>22. ASSUME NEW v \in VMs, GuestReboots(v)
      PROVE  ProcessInv'
  BY <1>22 DEF GuestReboots, thread, ProcessInv
<1>23. ASSUME NEW v \in VMs, NEW how \in {"exited", "failed"}, QemuExits(v, how)
      PROVE  ProcessInv'
  BY <1>23 DEF QemuExits, thread, TypeOK, ProcessInv
<1>24. CASE PlugNics
  BY <1>24 DEF PlugNics, thread, ProcessInv
<1>25. CASE DockerStop
  BY <1>25 DEF DockerStop, Raise, ProcessInv
<1>26. CASE DockerStart
  BY <1>26 DEF DockerStart, ProcessInv
<1>27. CASE UNCHANGED vars
  BY <1>27 DEF vars, thread, world, TypeOK, ProcessInv
<1>. QED
  BY <1>1, <1>2, <1>3, <1>4, <1>5, <1>6, <1>7, <1>8, <1>9, <1>10, <1>11,
        <1>12, <1>13, <1>14, <1>15, <1>16, <1>17, <1>18, <1>19, <1>20, <1>21,
        <1>22, <1>23, <1>24, <1>25, <1>26, <1>27
     DEF Next, Thread, World

\* Every step keeps all_running true to the VMs the round has visited: only
\* work() of the current VM changes a running flag.
LEMMA RoundStep == TypeOK /\ ProcessInv /\ RoundInv /\ [Next]_vars
    => RoundInv'
<1>. SUFFICES ASSUME TypeOK, ProcessInv, RoundInv, [Next]_vars
             PROVE  RoundInv'
  OBVIOUS
<1>1. CASE Stop
  BY <1>1 DEF Stop, RoundInv, VMs, WorkLabels, StartLabels
<1>2. CASE StopRaises
  BY <1>2 DEF StopRaises, Raise, RoundInv, WorkLabels, StartLabels
<1>3. CASE Launch
  BY <1>3 DEF Launch, RoundInv, WorkLabels, StartLabels
<1>4. CASE OpenMonitor
  BY <1>4 DEF OpenMonitor, world, RoundInv, WorkLabels, StartLabels
<1>5. CASE OpenSerial
  BY <1>5
     DEF OpenSerial, ReturnFromStart, world, TypeOK, RoundInv, WorkLabels,
        StartLabels
<1>6. CASE RetryOpen
  BY <1>6 DEF RetryOpen, world, RoundInv
<1>7. CASE RaiseQemuBroken
  BY <1>7 DEF RaiseQemuBroken, Raise, RoundInv, WorkLabels, StartLabels
<1>8. CASE CheckQemu
  BY <1>8 DEF CheckQemu, world, RoundInv, WorkLabels
<1>9. CASE PollQuiet
  BY <1>9 DEF PollQuiet, AfterCheck, world, RoundInv, WorkLabels
<1>10. CASE PollError
  BY <1>10 DEF PollError, CallRestart, world, RoundInv, WorkLabels
<1>11. CASE GiveUp
  BY <1>11 DEF GiveUp, CallRestart, world, RoundInv, WorkLabels
<1>12. ASSUME NEW output \in BOOLEAN, SpinNoMatch(output)
      PROVE  RoundInv'
  BY <1>12 DEF SpinNoMatch, world, RoundInv, WorkLabels
<1>13. CASE SpinSplitPrompt
  BY <1>13 DEF SpinSplitPrompt, RoundInv, WorkLabels
<1>14. CASE SpinLogin
  BY <1>14 DEF SpinLogin, RoundInv, WorkLabels
<1>15. CASE Configure
  BY <1>15 DEF Configure, world, RoundInv, VMs, WorkLabels
<1>16. CASE ConsoleEof
  BY <1>16 DEF ConsoleEof, CallRestart, world, RoundInv, WorkLabels
<1>17. CASE ConsoleRaises
  BY <1>17 DEF ConsoleRaises, Raise, RoundInv, WorkLabels, StartLabels
<1>18. CASE Tally
  <2>. USE <1>18 DEF Tally, world
  <2>1. allRunning <=> \A u \in VMs : u < cur => running[u]
    BY DEF RoundInv, WorkLabels
  <2>2. CASE cur < N
    <3>1. cur' = cur + 1 /\ at' = "check" /\ running' = running
      BY <2>2
    <3>2. \A u \in VMs : u < cur + 1 <=> u < cur \/ u = cur
      BY DEF TypeOK, VMs
    <3>3. allRunning' <=> \A u \in VMs : u < cur + 1 => running[u]
      BY <2>1, <3>2 DEF TypeOK
    <3>. QED  BY <3>1, <3>3 DEF RoundInv
  <2>3. CASE ~(cur < N)
    <3>1. cur = N /\ at' = "health" /\ running' = running
      BY <2>3, SupervisorAssumption DEF TypeOK, VMs
    <3>2. \A u \in VMs : u < cur \/ u = cur
      BY <3>1, SupervisorAssumption DEF VMs
    <3>3. allRunning' <=> \A u \in VMs : running[u]
      BY <2>1, <3>2 DEF TypeOK
    <3>. QED  BY <3>1, <3>3 DEF RoundInv, WorkLabels, StartLabels
  <2>. QED  BY <2>2, <2>3
<1>19. CASE TruncateHealth
  BY <1>19 DEF TruncateHealth, RoundInv, WorkLabels, StartLabels
<1>20. CASE WriteHealth
  BY <1>20 DEF WriteHealth, RoundInv, VMs
<1>21. ASSUME NEW v \in VMs, GuestBoots(v)
      PROVE  RoundInv'
  BY <1>21 DEF GuestBoots, thread, RoundInv
<1>22. ASSUME NEW v \in VMs, GuestReboots(v)
      PROVE  RoundInv'
  BY <1>22 DEF GuestReboots, thread, RoundInv
<1>23. ASSUME NEW v \in VMs, NEW how \in {"exited", "failed"}, QemuExits(v, how)
      PROVE  RoundInv'
  BY <1>23 DEF QemuExits, thread, RoundInv
<1>24. CASE PlugNics
  BY <1>24 DEF PlugNics, thread, RoundInv
<1>25. CASE DockerStop
  BY <1>25 DEF DockerStop, Raise, RoundInv, WorkLabels, StartLabels
<1>26. CASE DockerStart
  BY <1>26 DEF DockerStart, RoundInv, VMs
<1>27. CASE UNCHANGED vars
  BY <1>27
     DEF vars, thread, world, TypeOK, ProcessInv, RoundInv, VMs, Labels,
        WorkLabels, StartLabels
<1>. QED
  BY <1>1, <1>2, <1>3, <1>4, <1>5, <1>6, <1>7, <1>8, <1>9, <1>10, <1>11,
        <1>12, <1>13, <1>14, <1>15, <1>16, <1>17, <1>18, <1>19, <1>20, <1>21,
        <1>22, <1>23, <1>24, <1>25, <1>26, <1>27
     DEF Next, Thread, World

\* Every step keeps a good report true of the VMs the round has not reached.
LEMMA ReportStep == TypeOK /\ ProcessInv /\ RoundInv /\ ReportInv /\ [Next]_vars
    => ReportInv'
<1>. SUFFICES ASSUME TypeOK, ProcessInv, RoundInv, ReportInv, [Next]_vars
             PROVE  ReportInv'
  OBVIOUS
<1>1. CASE Stop
  BY <1>1 DEF Stop, ReportInv, VMs, WorkLabels, StartLabels
<1>2. CASE StopRaises
  BY <1>2 DEF StopRaises, Raise, ReportInv, WorkLabels, StartLabels
<1>3. CASE Launch
  BY <1>3 DEF Launch, ReportInv, WorkLabels, StartLabels
<1>4. CASE OpenMonitor
  BY <1>4 DEF OpenMonitor, world, ReportInv, WorkLabels, StartLabels
<1>5. CASE OpenSerial
  BY <1>5
     DEF OpenSerial, ReturnFromStart, world, ReportInv, WorkLabels,
        StartLabels
<1>6. CASE RetryOpen
  BY <1>6 DEF RetryOpen, world, ReportInv
<1>7. CASE RaiseQemuBroken
  BY <1>7 DEF RaiseQemuBroken, Raise, ReportInv, WorkLabels, StartLabels
<1>8. CASE CheckQemu
  BY <1>8 DEF CheckQemu, world, ReportInv, WorkLabels
<1>9. CASE PollQuiet
  BY <1>9 DEF PollQuiet, AfterCheck, world, ReportInv, WorkLabels
<1>10. CASE PollError
  BY <1>10 DEF PollError, CallRestart, world, ReportInv, WorkLabels
<1>11. CASE GiveUp
  BY <1>11 DEF GiveUp, CallRestart, world, ReportInv, WorkLabels
<1>12. ASSUME NEW output \in BOOLEAN, SpinNoMatch(output)
      PROVE  ReportInv'
  BY <1>12 DEF SpinNoMatch, world, ReportInv, WorkLabels
<1>13. CASE SpinSplitPrompt
  BY <1>13 DEF SpinSplitPrompt, ReportInv, WorkLabels
<1>14. CASE SpinLogin
  BY <1>14 DEF SpinLogin, ReportInv, WorkLabels
<1>15. CASE Configure
  BY <1>15 DEF Configure, world, ReportInv, WorkLabels
<1>16. CASE ConsoleEof
  BY <1>16 DEF ConsoleEof, CallRestart, world, ReportInv, WorkLabels
<1>17. CASE ConsoleRaises
  BY <1>17 DEF ConsoleRaises, Raise, ReportInv, WorkLabels, StartLabels
<1>18. CASE Tally
  BY <1>18 DEF Tally, world, TypeOK, ReportInv, VMs, WorkLabels
<1>19. CASE TruncateHealth
  BY <1>19 DEF TruncateHealth, ReportInv
<1>20. CASE WriteHealth
  BY <1>20 DEF WriteHealth, RoundInv, ReportInv
<1>21. ASSUME NEW v \in VMs, GuestBoots(v)
      PROVE  ReportInv'
  BY <1>21 DEF GuestBoots, thread, ReportInv
<1>22. ASSUME NEW v \in VMs, GuestReboots(v)
      PROVE  ReportInv'
  BY <1>22 DEF GuestReboots, thread, ReportInv
<1>23. ASSUME NEW v \in VMs, NEW how \in {"exited", "failed"}, QemuExits(v, how)
      PROVE  ReportInv'
  BY <1>23 DEF QemuExits, thread, ReportInv
<1>24. CASE PlugNics
  BY <1>24 DEF PlugNics, thread, ReportInv
<1>25. CASE DockerStop
  BY <1>25 DEF DockerStop, Raise, ReportInv, WorkLabels, StartLabels
<1>26. CASE DockerStart
  BY <1>26 DEF DockerStart, ReportInv
<1>27. CASE UNCHANGED vars
  BY <1>27
     DEF vars, thread, world, TypeOK, ProcessInv, RoundInv, ReportInv, VMs,
        Labels, WorkLabels, StartLabels
<1>. QED
  BY <1>1, <1>2, <1>3, <1>4, <1>5, <1>6, <1>7, <1>8, <1>9, <1>10, <1>11,
        <1>12, <1>13, <1>14, <1>15, <1>16, <1>17, <1>18, <1>19, <1>20, <1>21,
        <1>22, <1>23, <1>24, <1>25, <1>26, <1>27
     DEF Next, Thread, World

\* No step makes a launcher publish "running" before it is serving.
LEMMA PastStep == TypeOK /\ RoundInv /\ HealthyOnlyFromPast /\ [Next]_vars
    => HealthyOnlyFromPast'
<1>. SUFFICES ASSUME TypeOK, RoundInv, HealthyOnlyFromPast, [Next]_vars
             PROVE  HealthyOnlyFromPast'
  OBVIOUS
<1>1. CASE Stop
  BY <1>1 DEF Stop, HealthyOnlyFromPast, Healthy
<1>2. CASE StopRaises
  BY <1>2 DEF StopRaises, Raise, HealthyOnlyFromPast, Healthy
<1>3. CASE Launch
  BY <1>3 DEF Launch, HealthyOnlyFromPast, Healthy
<1>4. CASE OpenMonitor
  BY <1>4 DEF OpenMonitor, world, HealthyOnlyFromPast, Healthy
<1>5. CASE OpenSerial
  BY <1>5
     DEF OpenSerial, ReturnFromStart, world, HealthyOnlyFromPast, Healthy
<1>6. CASE RetryOpen
  BY <1>6 DEF RetryOpen, world, HealthyOnlyFromPast, Healthy
<1>7. CASE RaiseQemuBroken
  BY <1>7 DEF RaiseQemuBroken, Raise, HealthyOnlyFromPast, Healthy
<1>8. CASE CheckQemu
  BY <1>8 DEF CheckQemu, world, HealthyOnlyFromPast, Healthy
<1>9. CASE PollQuiet
  BY <1>9 DEF PollQuiet, AfterCheck, world, HealthyOnlyFromPast, Healthy
<1>10. CASE PollError
  BY <1>10 DEF PollError, CallRestart, world, HealthyOnlyFromPast, Healthy
<1>11. CASE GiveUp
  BY <1>11 DEF GiveUp, CallRestart, world, HealthyOnlyFromPast, Healthy
<1>12. ASSUME NEW output \in BOOLEAN, SpinNoMatch(output)
      PROVE  HealthyOnlyFromPast'
  BY <1>12 DEF SpinNoMatch, world, HealthyOnlyFromPast, Healthy
<1>13. CASE SpinSplitPrompt
  BY <1>13 DEF SpinSplitPrompt, HealthyOnlyFromPast, Healthy
<1>14. CASE SpinLogin
  BY <1>14 DEF SpinLogin, HealthyOnlyFromPast, Healthy
<1>15. CASE Configure
  BY <1>15 DEF Configure, world, HealthyOnlyFromPast, Healthy
<1>16. CASE ConsoleEof
  BY <1>16 DEF ConsoleEof, CallRestart, world, HealthyOnlyFromPast, Healthy
<1>17. CASE ConsoleRaises
  BY <1>17 DEF ConsoleRaises, Raise, HealthyOnlyFromPast, Healthy
<1>18. CASE Tally
  BY <1>18 DEF Tally, world, HealthyOnlyFromPast, Healthy
<1>19. CASE TruncateHealth
  BY <1>19 DEF TruncateHealth, HealthyOnlyFromPast, Healthy, HealthExit
<1>20. CASE WriteHealth
  BY <1>20
     DEF WriteHealth, TypeOK, HealthyOnlyFromPast, Healthy, HealthExit
<1>21. ASSUME NEW v \in VMs, GuestBoots(v)
      PROVE  HealthyOnlyFromPast'
  BY <1>21 DEF GuestBoots, thread, HealthyOnlyFromPast, Healthy
<1>22. ASSUME NEW v \in VMs, GuestReboots(v)
      PROVE  HealthyOnlyFromPast'
  BY <1>22 DEF GuestReboots, thread, HealthyOnlyFromPast, Healthy
<1>23. ASSUME NEW v \in VMs, NEW how \in {"exited", "failed"}, QemuExits(v, how)
      PROVE  HealthyOnlyFromPast'
  BY <1>23 DEF QemuExits, thread, HealthyOnlyFromPast, Healthy
<1>24. CASE PlugNics
  BY <1>24 DEF PlugNics, thread, HealthyOnlyFromPast, Healthy
<1>25. CASE DockerStop
  BY <1>25 DEF DockerStop, Raise, HealthyOnlyFromPast, Healthy
<1>26. CASE DockerStart
  BY <1>26 DEF DockerStart, HealthyOnlyFromPast
<1>27. CASE UNCHANGED vars
  BY <1>27
     DEF vars, thread, world, TypeOK, RoundInv, HealthyOnlyFromPast, Healthy,
        HealthExit
<1>. QED
  BY <1>1, <1>2, <1>3, <1>4, <1>5, <1>6, <1>7, <1>8, <1>9, <1>10, <1>11,
        <1>12, <1>13, <1>14, <1>15, <1>16, <1>17, <1>18, <1>19, <1>20, <1>21,
        <1>22, <1>23, <1>24, <1>25, <1>26, <1>27
     DEF Next, Thread, World

\* Every step keeps spins at or below the reads since the last give-up, if
\* the launcher clears the counter.
LEMMA SpinStep == TypeOK /\ SpinInv /\ [Next]_vars
    => SpinInv'
<1>. SUFFICES ASSUME TypeOK, SpinInv, [Next]_vars
             PROVE  SpinInv'
  OBVIOUS
<1>1. CASE Stop
  BY <1>1 DEF Stop, SpinInv, StartLabels
<1>2. CASE StopRaises
  BY <1>2 DEF StopRaises, Raise, SpinInv
<1>3. CASE Launch
  BY <1>3 DEF Launch, SpinInv, StartLabels
<1>4. CASE OpenMonitor
  BY <1>4 DEF OpenMonitor, world, SpinInv, StartLabels
<1>5. CASE OpenSerial
  BY <1>5 DEF OpenSerial, ReturnFromStart, world, TypeOK, SpinInv
<1>6. CASE RetryOpen
  BY <1>6 DEF RetryOpen, world, SpinInv
<1>7. CASE RaiseQemuBroken
  BY <1>7 DEF RaiseQemuBroken, Raise, SpinInv
<1>8. CASE CheckQemu
  BY <1>8 DEF CheckQemu, world, SpinInv, StartLabels
<1>9. CASE PollQuiet
  BY <1>9 DEF PollQuiet, AfterCheck, world, SpinInv, StartLabels
<1>10. CASE PollError
  BY <1>10 DEF PollError, CallRestart, world, SpinInv, StartLabels
<1>11. CASE GiveUp
  BY <1>11 DEF GiveUp, CallRestart, world, SpinInv, StartLabels
<1>12. ASSUME NEW output \in BOOLEAN, SpinNoMatch(output)
      PROVE  SpinInv'
  BY <1>12, SupervisorAssumption
     DEF SpinNoMatch, world, TypeOK, SpinInv, StartLabels
<1>13. CASE SpinSplitPrompt
  BY <1>13, SupervisorAssumption DEF SpinSplitPrompt, TypeOK, SpinInv
<1>14. CASE SpinLogin
  BY <1>14 DEF SpinLogin, SpinInv, StartLabels
<1>15. CASE Configure
  BY <1>15 DEF Configure, world, SpinInv, StartLabels
<1>16. CASE ConsoleEof
  BY <1>16 DEF ConsoleEof, CallRestart, world, SpinInv, StartLabels
<1>17. CASE ConsoleRaises
  BY <1>17 DEF ConsoleRaises, Raise, SpinInv
<1>18. CASE Tally
  BY <1>18 DEF Tally, world, SpinInv, StartLabels
<1>19. CASE TruncateHealth
  BY <1>19 DEF TruncateHealth, SpinInv, StartLabels
<1>20. CASE WriteHealth
  BY <1>20 DEF WriteHealth, SpinInv, StartLabels
<1>21. ASSUME NEW v \in VMs, GuestBoots(v)
      PROVE  SpinInv'
  BY <1>21 DEF GuestBoots, thread, SpinInv
<1>22. ASSUME NEW v \in VMs, GuestReboots(v)
      PROVE  SpinInv'
  BY <1>22 DEF GuestReboots, thread, SpinInv
<1>23. ASSUME NEW v \in VMs, NEW how \in {"exited", "failed"}, QemuExits(v, how)
      PROVE  SpinInv'
  BY <1>23 DEF QemuExits, thread, SpinInv
<1>24. CASE PlugNics
  BY <1>24 DEF PlugNics, thread, SpinInv
<1>25. CASE DockerStop
  BY <1>25 DEF DockerStop, Raise, SpinInv
<1>26. CASE DockerStart
  BY <1>26 DEF DockerStart, SpinInv
<1>27. CASE UNCHANGED vars
  BY <1>27
     DEF vars, thread, world, TypeOK, SpinInv, Labels, WorkLabels, StartLabels
<1>. QED
  BY <1>1, <1>2, <1>3, <1>4, <1>5, <1>6, <1>7, <1>8, <1>9, <1>10, <1>11,
        <1>12, <1>13, <1>14, <1>15, <1>16, <1>17, <1>18, <1>19, <1>20, <1>21,
        <1>22, <1>23, <1>24, <1>25, <1>26, <1>27
     DEF Next, Thread, World

(***************************************************************************)
(* The invariants, for every execution.                                     *)
(***************************************************************************)

LEMMA InitIInv == Init => IInv
<1>. SUFFICES ASSUME Init PROVE IInv
  OBVIOUS
<1>1. TypeOK
  <2>1. cur \in VMs /\ attempt \in 1 .. MaxRetries /\ faults \in 0 .. MaxFaults
    BY SupervisorAssumption DEF Init, VMs
  <2>2. /\ spins \in [VMs -> 0 .. MaxSpins + 1]
        /\ reads \in [VMs -> 0 .. MaxSpins + 1]
    BY SupervisorAssumption DEF Init
  <2>. QED  BY <2>1, <2>2 DEF Init, TypeOK, Labels, WorkLabels
<1>2. ProcessInv /\ RoundInv
  BY DEF Init, ProcessInv, RoundInv, VMs
<1>3. ReportInv /\ HealthyOnlyFromPast /\ SpinInv
  BY DEF Init, ReportInv, HealthyOnlyFromPast, SpinInv
<1>. QED  BY <1>1, <1>2, <1>3 DEF IInv

\* The inductive invariant holds in every state of every execution.
THEOREM Invariance == Spec => []IInv
<1>1. Init => IInv
  BY InitIInv
<1>2. IInv /\ [Next]_vars => IInv'
  BY TypeStep, ProcessStep, RoundStep, ReportStep, PastStep, SpinStep
     DEF IInv
<1>. QED  BY <1>1, <1>2, PTL DEF Spec

\* Type correctness of the supervision loop.
THEOREM TypeCorrect == Spec => []TypeOK
<1>1. IInv => TypeOK
  BY DEF IInv
<1>. QED  BY <1>1, Invariance, PTL

\* However often check_qemu(), bootstrap_spin() and work() restart a VM, and
\* whenever its process dies, it never has two qemu processes.
THEOREM OneQemuHolds == Spec => []OneQemu
<1>1. IInv => OneQemu
  BY DEF IInv, ProcessInv, OneQemu
<1>. QED  BY <1>1, Invariance, PTL

\* A VM that went down after the VR came up is reported healthy for the rest
\* of one round of VR.start() at most, for any number of VMs.
THEOREM StalenessBounded == Spec => []StalenessBound
<1>1. IInv => StalenessBound
  <2>. SUFFICES ASSUME IInv, Healthy, started, NEW v \in VMs, ~running[v]
                PROVE  (at \in WorkLabels /\ v <= cur) \/ at = "health"
    BY DEF StalenessBound
  <2>1. health = "running" /\ at # "exited"
    BY DEF Healthy, HealthExit, IInv, TypeOK
  <2>2. at # "write"
    BY <2>1 DEF IInv, RoundInv
  <2>3. CASE at \in WorkLabels
    BY <2>1, <2>3 DEF IInv, ReportInv, TypeOK, VMs
  <2>. QED  BY <2>1, <2>2, <2>3 DEF IInv, TypeOK, Labels
<1>. QED  BY <1>1, Invariance, PTL

\* A launcher that has not brought its VMs up is reported healthy only by
\* the /health file of an earlier life of the container.
THEOREM PastReportOnly == Spec => []HealthyOnlyFromPast
<1>1. IInv => HealthyOnlyFromPast
  BY DEF IInv
<1>. QED  BY <1>1, Invariance, PTL

\* A launcher that clears its counter gives a VM up only when it has read
\* its console in vain more than MaxSpins times since the last time.
THEOREM GiveUpsEarned == ASSUME ResetOnGiveUp PROVE Spec => []GiveUpEarned
<1>1. IInv => GiveUpEarned
  <2>. SUFFICES ASSUME IInv, at = "spin", spins[cur] > MaxSpins
                PROVE  reads[cur] > MaxSpins
    BY DEF GiveUpEarned
  <2>1. spins[cur] <= reads[cur]
    BY ResetOnGiveUp DEF IInv, SpinInv, StartLabels, TypeOK
  <2>. QED  BY <2>1, SupervisorAssumption DEF IInv, TypeOK
<1>. QED  BY <1>1, Invariance, PTL

(***************************************************************************)
(* Refinement: every step of the loop is a step of VirtualRouter or none.   *)
(***************************************************************************)

LEMMA RefinementStep == IInv /\ [Next]_vars => [VR!Next]_VR!vars
<1>. SUFFICES ASSUME IInv, [Next]_vars
             PROVE  VR!Next \/ UNCHANGED VR!vars
  OBVIOUS
<1>. USE DEF IInv
<1>1. PICK c \in VMs : c = cur
  BY DEF TypeOK
<1>2. ASSUME Stop PROVE VR!TakeDown(c)
  BY <1>2, <1>1 DEF Stop, VR!TakeDown, TypeOK, ProcessInv
<1>3. ASSUME StopRaises PROVE VR!Exit
  BY <1>3 DEF StopRaises, Raise, VR!Exit, TypeOK, ProcessInv
<1>4. ASSUME Launch PROVE VR!Start(c)
  BY <1>4, <1>1 DEF Launch, VR!Start, TypeOK, ProcessInv
<1>5. ASSUME RaiseQemuBroken PROVE VR!Exit
  BY <1>5 DEF RaiseQemuBroken, Raise, VR!Exit, TypeOK, ProcessInv
<1>6. ASSUME Configure PROVE VR!BringUp(c)
  BY <1>6, <1>1 DEF Configure, world, VR!BringUp, TypeOK, ProcessInv
<1>7. ASSUME ConsoleRaises PROVE VR!Exit
  BY <1>7 DEF ConsoleRaises, Raise, VR!Exit, TypeOK, ProcessInv
<1>8. ASSUME TruncateHealth PROVE VR!Retract
  BY <1>8 DEF TruncateHealth, VR!Retract, TypeOK, ProcessInv
<1>9. ASSUME WriteHealth PROVE VR!Publish
  BY <1>9 DEF WriteHealth, VR!Publish, TypeOK, ProcessInv, RoundInv
<1>10. ASSUME NEW v \in VMs, NEW how \in {"exited", "failed"}, QemuExits(v, how)
      PROVE  VR!Die(v)
  BY <1>10 DEF QemuExits, thread, VR!Die, TypeOK, ProcessInv
<1>11. ASSUME DockerStop PROVE VR!Exit
  BY <1>11 DEF DockerStop, Raise, VR!Exit, TypeOK, ProcessInv
<1>12. ASSUME DockerStart PROVE VR!Enter
  BY <1>12 DEF DockerStart, VR!Enter, TypeOK, ProcessInv
<1>13. ASSUME OpenMonitor PROVE UNCHANGED VR!vars
  BY <1>13 DEF OpenMonitor, world, VR!vars
<1>14. ASSUME OpenSerial PROVE UNCHANGED VR!vars
  BY <1>14 DEF OpenSerial, ReturnFromStart, world, VR!vars
<1>15. ASSUME RetryOpen PROVE UNCHANGED VR!vars
  BY <1>15 DEF RetryOpen, world, VR!vars
<1>16. ASSUME CheckQemu PROVE UNCHANGED VR!vars
  BY <1>16 DEF CheckQemu, world, VR!vars
<1>17. ASSUME PollQuiet PROVE UNCHANGED VR!vars
  BY <1>17 DEF PollQuiet, AfterCheck, world, VR!vars
<1>18. ASSUME PollError PROVE UNCHANGED VR!vars
  BY <1>18 DEF PollError, CallRestart, world, VR!vars
<1>19. ASSUME GiveUp PROVE UNCHANGED VR!vars
  BY <1>19 DEF GiveUp, CallRestart, world, VR!vars
<1>20. ASSUME NEW output \in BOOLEAN, SpinNoMatch(output)
      PROVE  UNCHANGED VR!vars
  BY <1>20 DEF SpinNoMatch, world, VR!vars
<1>21. ASSUME SpinSplitPrompt PROVE UNCHANGED VR!vars
  BY <1>21 DEF SpinSplitPrompt, VR!vars
<1>22. ASSUME SpinLogin PROVE UNCHANGED VR!vars
  BY <1>22 DEF SpinLogin, VR!vars
<1>23. ASSUME ConsoleEof PROVE UNCHANGED VR!vars
  BY <1>23 DEF ConsoleEof, CallRestart, world, VR!vars
<1>24. ASSUME Tally PROVE UNCHANGED VR!vars
  BY <1>24 DEF Tally, world, VR!vars
<1>25. ASSUME NEW v \in VMs, GuestBoots(v)
      PROVE  UNCHANGED VR!vars
  BY <1>25 DEF GuestBoots, thread, VR!vars
<1>26. ASSUME NEW v \in VMs, GuestReboots(v)
      PROVE  UNCHANGED VR!vars
  BY <1>26 DEF GuestReboots, thread, VR!vars
<1>27. ASSUME PlugNics PROVE UNCHANGED VR!vars
  BY <1>27 DEF PlugNics, thread, VR!vars
<1>28. ASSUME UNCHANGED vars PROVE UNCHANGED VR!vars
  BY <1>28 DEF vars, thread, world, VR!vars
<1>. HIDE DEF IInv
<1>29. VR!TakeDown(c) \/ VR!Start(c) \/ VR!BringUp(c) => VR!Next
  BY DEF VR!Next
<1>30. VR!Exit \/ VR!Retract \/ VR!Publish => VR!Next
  BY DEF VR!Next
<1>31. CASE Thread
  BY <1>31, <1>29, <1>30, <1>2, <1>3, <1>4, <1>5, <1>6, <1>7, <1>8, <1>9,
        <1>13, <1>14, <1>15, <1>16, <1>17, <1>18, <1>19, <1>20, <1>21, <1>22,
        <1>23, <1>24
     DEF Thread
<1>32. CASE World
  BY <1>32, <1>10, <1>11, <1>12, <1>25, <1>26, <1>27 DEF World, VR!Next
<1>. QED
  BY <1>28, <1>31, <1>32 DEF Next

\* The loop implements the abstract virtual router: whatever the interleaving
\* of restarts, dying processes and rewrites of /health, a report is one that
\* could have been published about all VMs at once.
THEOREM Refines == Spec => ImplementsVirtualRouter
<1>1. Init => VR!Init
  BY DEF Init, VR!Init
<1>. QED  BY <1>1, RefinementStep, Invariance, PTL
          DEF Spec, VR!Spec, ImplementsVirtualRouter

==============================================================================
