--------------------------- MODULE VirtualRouter ---------------------------
(***************************************************************************)
(* What a vrnetlab container promises to whoever runs it, without the loop  *)
(* that keeps the promise: a set of VMs, each with at most one live qemu    *)
(* process, of which some have been brought up, and a health report that is *)
(* published as a whole about all of them.  Supervisor implements it.       *)
(***************************************************************************)
CONSTANT VMs

VARIABLES
    live,     \* VMs that have a qemu process
    up,       \* VMs the launcher considers running
    report,   \* content of /health
    serving   \* has the current launcher published "running"?

vars == <<live, up, report, serving>>

Init == live = {} /\ up = {} /\ report = "absent" /\ serving = FALSE

\* A process is started only for a VM that has none.
Start(v) ==
    /\ v \notin live
    /\ live' = live \cup {v}
    /\ UNCHANGED <<up, report, serving>>

\* A VM whose process dies is still considered up until it is taken down.
Die(v) ==
    /\ v \in live
    /\ live' = live \ {v}
    /\ UNCHANGED <<up, report, serving>>

TakeDown(v) ==
    /\ live' = live \ {v}
    /\ up' = up \ {v}
    /\ UNCHANGED <<report, serving>>

\* Only a VM that has a process is brought up.
BringUp(v) ==
    /\ v \in live
    /\ up' = up \cup {v}
    /\ UNCHANGED <<live, report, serving>>

\* While the report is being rewritten it reads as empty.
Retract == report' = "empty" /\ UNCHANGED <<live, up, serving>>

\* "running" is published only in a state in which every VM is up, "starting"
\* and "failed" only in one in which some VM is not.
Publish ==
    /\ report = "empty"
    /\ report' = IF up = VMs THEN "running"
                 ELSE IF serving THEN "failed" ELSE "starting"
    /\ serving' = (serving \/ up = VMs)
    /\ UNCHANGED <<live, up>>

\* The launcher ends and takes every VM with it; the report stays.
Exit == live' = {} /\ up' = {} /\ UNCHANGED <<report, serving>>

\* A new launcher, which has published nothing.
Enter == live = {} /\ up = {} /\ serving' = FALSE /\ UNCHANGED <<live, up, report>>

Next ==
    \/ \E v \in VMs : Start(v) \/ Die(v) \/ TakeDown(v) \/ BringUp(v)
    \/ Retract \/ Publish \/ Exit \/ Enter

Spec == Init /\ [][Next]_vars

=============================================================================
