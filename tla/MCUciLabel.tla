----------------------------- MODULE MCUciLabel -----------------------------
(***************************************************************************)
(* Instances of UciLabel for TLC.                                          *)
(***************************************************************************)
EXTENDS UciLabel, TLC

=============================================================================
