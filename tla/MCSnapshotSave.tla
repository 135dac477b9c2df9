--------------------------- MODULE MCSnapshotSave ---------------------------
(***************************************************************************)
(* SnapshotSave for TLC; the instances are the configurations' constants.   *)
(***************************************************************************)
EXTENDS SnapshotSave

=============================================================================
