---------------------------- MODULE MCSupervisor ----------------------------
(***************************************************************************)
(* Instances of Supervisor for TLC; the configurations give the constants.  *)
(***************************************************************************)
EXTENDS Supervisor
=============================================================================
