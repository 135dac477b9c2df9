------------------------- MODULE MCSnapshotRestore -------------------------
(***************************************************************************)
(* SnapshotRestore for TLC; the instances are the configurations'           *)
(* constants.                                                               *)
(***************************************************************************)
EXTENDS SnapshotRestore

=============================================================================
