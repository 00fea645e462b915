--------------------------- MODULE MCLc0Pipeline ---------------------------
(***************************************************************************)
(* Instances of Lc0Pipeline for TLC.                                       *)
(***************************************************************************)
EXTENDS Lc0Pipeline, TLC

CONSTANTS w1, w2

=============================================================================
