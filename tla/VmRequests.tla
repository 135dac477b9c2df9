----------------------------- MODULE VmRequests -----------------------------
(***************************************************************************)
(* The requests VR.start() (src/common/vrnetlab.py) takes from files in    *)
(* the root of the container, once a round of its loop: /reset, with the   *)
(* numbers of the VMs to reset or empty for all of them, and               *)
(* /snapshot-save.  What a snapshot does is the module SnapshotSave.       *)
(*                                                                         *)
(* A user writes a request as README.md shows: `echo 0 > /reset' opens the *)
(* file and then writes it, `touch' creates it where there is none.  The   *)
(* loop looks for the file, reads it, acts and removes it, all apart.      *)
(***************************************************************************)
EXTENDS Integers

CONSTANTS
    VMs,        \* numbers of the VMs
    Requests,   \* requests users may make
    MaxFailures \* commands the monitor refuses and files that stay

ASSUME VMsAssumption == VMs # {} /\ MaxFailures \in Nat

Kinds == {"reset", "snapshot"}

VARIABLES
    file,       \* [Kinds -> the requests it stands for, none when it is absent,
                \* and the VMs listed in it]
    state,      \* [Requests -> how far it has come]
    wanted,     \* [Requests -> the VMs it is for]
    at,         \* where the loop is
    serving,    \* the requests of the file it acts on
    todo,       \* VMs still to reset in this round
    hit,        \* VMs reset in this round
    failures

requestVars == <<file, state, wanted, at, serving, todo, hit, failures>>

Absent == [by |-> {}, names |-> {}]

-----------------------------------------------------------------------------
(* The loop of VR.start().                                                 *)

\* Mutant: only a snapshot is ever looked for.
LookNot ==
    /\ at = "reset?"
    /\ at' = "snapshot?"
    /\ UNCHANGED <<file, state, wanted, serving, todo, hit, failures>>

Look ==
    /\ at = "reset?"
    /\ at' = IF file["reset"] = Absent THEN "snapshot?" ELSE "read"
    /\ UNCHANGED <<file, state, wanted, serving, todo, hit, failures>>

\* Mutant: the numbers make no difference.
ListedAll(names) == VMs

\* The VMs listed, all by an empty file.
Listed(names) == IF names = {} THEN VMs ELSE names \cap VMs

\* Mutant: a file that is not written yet is read as no request.
TakeWritten(k) ==
    /\ serving' = {r \in file[k].by : state[r] = "waiting"}
    /\ state' = [r \in Requests |-> IF r \in serving' THEN "served" ELSE state[r]]

\* The file is read, complete or just opened.
Take(k) ==
    /\ serving' = file[k].by
    /\ state' = [r \in Requests |->
                    IF r \notin file[k].by THEN state[r]
                    ELSE CASE state[r] = "waiting" -> "served"
                           [] state[r] = "open" -> "torn"
                           [] OTHER -> state[r]]

Read ==
    /\ at = "read"
    /\ Take("reset")
    /\ todo' = Listed(file["reset"].names) /\ hit' = {}
    /\ at' = "resetting"
    /\ UNCHANGED <<file, wanted, failures>>

\* One VM after the other, in an order no property tells apart; an error of
\* the monitor is logged.
Reset ==
    /\ at = "resetting"
    /\ \E v \in todo :
         /\ todo' = todo \ {v}
         /\ \/ hit' = hit \cup {v} /\ UNCHANGED failures
            \/ failures < MaxFailures /\ failures' = failures + 1 /\ UNCHANGED hit
    /\ UNCHANGED <<file, state, wanted, at, serving>>

\* What is there by now is removed, read or not, if it can be.
Remove(k) ==
    /\ \/ /\ file' = [file EXCEPT ![k] = Absent]
          /\ state' = [r \in Requests |->
                          IF r \in file[k].by /\ state[r] \in {"open", "waiting"}
                          THEN "lost" ELSE state[r]]
          /\ UNCHANGED failures
       \/ /\ failures < MaxFailures /\ failures' = failures + 1
          /\ UNCHANGED <<file, state>>
    /\ serving' = {}

RemoveReset ==
    /\ at = "resetting" /\ todo = {}
    /\ Remove("reset")
    /\ at' = "snapshot?"
    /\ UNCHANGED <<wanted, todo, hit>>

\* The snapshot is of what the VMs are now.
LookSnapshot ==
    /\ at = "snapshot?"
    /\ IF file["snapshot"] = Absent
       THEN at' = "reset?" /\ UNCHANGED <<serving, state>>
       ELSE at' = "saving" /\ Take("snapshot")
    /\ UNCHANGED <<file, wanted, todo, hit, failures>>

RemoveSnapshot ==
    /\ at = "saving"
    /\ Remove("snapshot")
    /\ at' = "reset?"
    /\ UNCHANGED <<wanted, todo, hit>>

Loop == Look \/ Read \/ Reset \/ RemoveReset \/ LookSnapshot \/ RemoveSnapshot

-----------------------------------------------------------------------------
(* The users.                                                              *)

\* A later write of the file hides the requests it stood for.
Hide(k) ==
    [r \in Requests |->
        IF r \in file[k].by /\ state[r] = "waiting" THEN "hidden" ELSE state[r]]

\* `touch': a file that is there keeps what it lists, and hides a request for
\* all VMs.
Touch(r, k) ==
    /\ state[r] = "idle"
    /\ IF k = "snapshot" \/ file[k] = Absent
       THEN /\ file' = [file EXCEPT ![k].by = @ \cup {r}]
            /\ state' = [state EXCEPT ![r] = "waiting"]
       ELSE /\ state' = [state EXCEPT ![r] = "hidden"]
            /\ UNCHANGED file
    /\ wanted' = [wanted EXCEPT ![r] = VMs]
    /\ UNCHANGED <<at, serving, todo, hit, failures>>

\* `echo ... > /reset' opens the file, which empties it, ...
Open(r) ==
    /\ state[r] = "idle"
    /\ \A q \in file["reset"].by : state[q] \notin {"open", "torn"}
    /\ \E names \in (SUBSET VMs) \ {{}} : wanted' = [wanted EXCEPT ![r] = names]
    /\ file' = [file EXCEPT !["reset"] = [by |-> {r}, names |-> {}]]
    /\ state' = [Hide("reset") EXCEPT ![r] = "open"]
    /\ UNCHANGED <<at, serving, todo, hit, failures>>

\* ... and writes to it, whether it is still there or not.
Write(r) ==
    /\ state[r] \in {"open", "torn"}
    /\ r \in file["reset"].by /\ file["reset"].names = {}
    /\ file' = [file EXCEPT !["reset"].names = wanted[r]]
    /\ state' = [state EXCEPT ![r] = IF @ = "open" THEN "waiting" ELSE @]
    /\ UNCHANGED <<wanted, at, serving, todo, hit, failures>>

Users == \E r \in Requests : Open(r) \/ Write(r) \/ \E k \in Kinds : Touch(r, k)

RequestInit ==
    /\ file = [k \in Kinds |-> Absent]
    /\ state = [r \in Requests |-> "idle"]
    /\ wanted = [r \in Requests |-> {}]
    /\ at = "reset?" /\ serving = {} /\ todo = {} /\ hit = {}
    /\ failures = 0

RequestNext == Loop \/ Users

\* The loop turns, and a shell that opened the file writes it.
RequestSpec ==
    /\ RequestInit /\ [][RequestNext]_requestVars
    /\ WF_requestVars(Loop) /\ \A r \in Requests : WF_requestVars(Write(r))

-----------------------------------------------------------------------------
(* Properties.                                                             *)

States == {"idle", "open", "waiting", "served", "torn", "lost", "hidden"}

RequestTypeOK ==
    /\ file \in [Kinds -> [by : SUBSET Requests, names : SUBSET VMs]]
    /\ state \in [Requests -> States]
    /\ wanted \in [Requests -> SUBSET VMs]
    /\ at \in {"reset?", "read", "resetting", "snapshot?", "saving"}
    /\ serving \subseteq Requests
    /\ todo \subseteq VMs /\ hit \subseteq VMs /\ todo \cap hit = {}
    /\ failures \in 0..MaxFailures

Wanted == UNION {wanted[r] : r \in serving}

\* "Reset VM 0" (README.md:111): the VMs a request names are reset, and no
\* others, unless the file was read between its opening and its writing, which
\* resets all.
ResetAsAsked ==
    at = "resetting" =>
        /\ Wanted \subseteq todo \cup hit \/ failures > 0
        /\ todo \cup hit \subseteq Wanted \/ \E r \in serving : state[r] = "torn"

\* A request is removed without an answer only if it is made while another one
\* is served.
LostBehindAnother ==
    [][\A r \in Requests : state'[r] = "lost" =>
           state[r] = "lost" \/ (serving # {} /\ r \notin serving)]_requestVars

\* Whatever else is asked, a complete request does not wait for good.
Answered == \A r \in Requests : state[r] = "waiting" ~> state[r] # "waiting"
=============================================================================
