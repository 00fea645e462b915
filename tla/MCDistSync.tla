----------------------------- MODULE MCDistSync -----------------------------
(***************************************************************************)
(* An instance of DistSync for TLC.                                        *)
(***************************************************************************)
EXTENDS DistSync

CONSTANTS w1, w2, run

\* A group configured alike; the cadence does not divide the length.
AlikeSyncEvery == [m \in Members |-> 2]
AlikeRunId == [m \in Members |-> run]
AlikeNodeId == [w \in Workers |-> w]

=============================================================================
