--------------------------- MODULE MCTrainResume ---------------------------
(***************************************************************************)
(* Instances of TrainResume for TLC.                                       *)
(***************************************************************************)
EXTENDS TrainResume, TLC

CONSTANTS c1, c2

\* A process dies anywhere, except while it removes the artifacts of a forced run.
CrashOutsideReset == Working \ {"reset"}

\* Nothing orders the configurations.
Symmetry == Permutations(Configs)

=============================================================================
