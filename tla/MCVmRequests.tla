---------------------------- MODULE MCVmRequests ----------------------------
(***************************************************************************)
(* VmRequests for TLC; the instances are the configurations' constants.    *)
(***************************************************************************)
EXTENDS VmRequests

=============================================================================
