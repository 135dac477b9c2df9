----------------------------- MODULE Platforms -----------------------------
(***************************************************************************)
(* The profiles of Bootstrap: one for each launch.py, after its             *)
(* bootstrap_spin() and what that calls to configure the guest.  A prompt   *)
(* the launcher only answers to get on, like "Press RETURN", is output to   *)
(* Bootstrap and has no place here; the modes in which images are built are *)
(* left out.                                                                *)
(*                                                                          *)
(* The field `once' rests on what the launchers' own configuration does to  *)
(* the prompt they wait for: one that renames the node and saves that makes *)
(* a prompt with the factory name the last of its kind.                     *)
(***************************************************************************)
\* A login prompt means that the VM is up, and nothing is configured.
Common ==
    [giveUp |-> "keep", counts |-> TRUE, idle |-> FALSE,
     creds |-> 0, pops |-> {}, refills |-> {}, logins |-> {},
     remembers |-> {}, needs |-> {}, final |-> {"login"}, fails |-> {},
     inside |-> {}, once |-> {}, trouble |-> {}]

vsrx    == Common
apstra  == Common
ubuntu  == Common
cmglinux == Common

\* These configure the guest through wait_write(), which waits for ever.
Dialogue == [Common EXCEPT !.trouble = {"hangs"}]

veos   == Dialogue
ftdv   == Dialogue
voss   == Dialogue
aoscx  == [Dialogue EXCEPT !.once = {"login"}]
ocnos  == [Dialogue EXCEPT !.once = {"login"}]
routeros == [Dialogue EXCEPT !.once = {"login"}]
vsr1000 == [Dialogue EXCEPT !.final = {"setup"}]
exos   == [Dialogue EXCEPT !.final = {"setup"}, !.logins = {"login"},
                           !.inside = {"setup"}]
ftosv  == [Dialogue EXCEPT !.creds = 1, !.pops = {"login"}]
vjunosevolved == Dialogue
ontap  == [Dialogue EXCEPT !.trouble = {"hangs", "ignores"}]
opnsense == [Dialogue EXCEPT !.remembers = {"login"}, !.needs = {"login"}]
arcos  == [Dialogue EXCEPT !.remembers = {"ztp"}, !.needs = {"ztp"},
                           !.once = {"ztp"}, !.trouble = {"hangs", "restarts"}]

\* The login prompt must follow its announcement within a second.
vjunosrouter == [Common EXCEPT !.trouble = {"retries"}]
vjunosswitch == vjunosrouter

\* These also call a driver, a helper process or an API, which raise.
Driver == [Common EXCEPT !.trouble = {"hangs", "raises"}]

nxos   == [Driver EXCEPT !.creds = 1, !.pops = {"login"}]
n9kv   == Driver
sonic  == Driver
plvision_sonic == Driver
dell_sonic == Driver
pan    == [Driver EXCEPT !.final = {"shell"}, !.logins = {"login"},
                         !.inside = {"shell"}]
xrv    == [Driver EXCEPT !.final = {"shell"}, !.inside = {"shell"},
                         !.refills = {"setup"}, !.once = {"setup"},
                         !.pops = {"login"}, !.logins = {"login"},
                         !.remembers = {"done"}, !.needs = {"done"}]
xrv9k  == [Driver EXCEPT !.final = {"setup"}, !.once = {"setup"}]
vstc   == [Driver EXCEPT !.counts = FALSE]
vios   == [Common EXCEPT !.final = {"shell"}, !.trouble = {"raises"}]
asav   == [Common EXCEPT !.final = {"shell"}, !.once = {"shell"},
                         !.trouble = {"raises"}]
freebsd == [Common EXCEPT !.trouble = {"raises"}]
openbsd == [Common EXCEPT !.trouble = {"raises"}]

\* What fails while these configure is logged.
f5_bigip == [Common EXCEPT !.trouble = {"ignores"}]
huawei_vrp == [Common EXCEPT !.final = {"shell"}, !.trouble = {"ignores"}]
truenas == [Common EXCEPT !.final = {"done"}, !.trouble = {"ignores"}]

\* The guest finds its configuration on a disk made before it is started, and
\* says when it has applied it.
cat9kv == [Common EXCEPT !.final = {"done"}]
csr1000v == [Common EXCEPT !.final = {"done"}]
xrd_vrouter == [Common EXCEPT !.final = {"done"}]
c8000v == [Common EXCEPT !.final = {"done"}]
c8000v_ztp == [Common EXCEPT !.giveUp = "never", !.counts = FALSE,
                             !.idle = TRUE, !.final = {"login", "done"}]
sdwan  == [Common EXCEPT !.final = {"done"}, !.fails = {"broken"}]

\* Cumulus logs in once, waits for its services and finds the login prompt
\* again after logging out.
cumulus == [Common EXCEPT !.remembers = {"login", "active"},
                          !.needs = {"login", "active"},
                          !.logins = {"login"}, !.inside = {"active"},
                          !.trouble = {"hangs", "retries"}]

\* Control cards, which also configure, and the other cards of their nodes.
vmx_vcp == [Dialogue EXCEPT !.giveUp = "clear", !.final = {"shell"},
                            !.logins = {"login"}, !.inside = {"shell"},
                            !.once = {"shell"}]
vqfx_vcp == vmx_vcp
sros   == [Driver EXCEPT !.giveUp = "never", !.final = {"login", "shell"}]
vmx_vfpc == [Common EXCEPT !.giveUp = "never", !.counts = FALSE,
                           !.fails = {"broken"}]
vqfx_vpfe == [Common EXCEPT !.giveUp = "never", !.counts = FALSE,
                            !.final = {}]
sros_lc == vqfx_vpfe

=============================================================================
