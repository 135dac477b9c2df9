----------------------------- MODULE MCNicPlan -----------------------------
(***************************************************************************)
(* Instances of NicPlan for TLC: families of topologies.                    *)
(***************************************************************************)
EXTENDS NicPlan

\* Any links, some of them outside the range of the VM.
AnyTopology == SUBSET (1 .. 6)

\* Three links or more, or links numbered without gaps.
EnoughOrCompact ==
    {t \in AnyTopology : Cardinality(t) >= 3 \/ t = 1 .. Cardinality(t)}

=============================================================================
