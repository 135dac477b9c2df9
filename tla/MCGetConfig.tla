----------------------------- MODULE MCGetConfig -----------------------------
(***************************************************************************)
(* GetConfig for TLC; the instances are the configurations' constants.     *)
(***************************************************************************)
EXTENDS GetConfig

=============================================================================
