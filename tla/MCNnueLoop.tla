---------------------------- MODULE MCNnueLoop -----------------------------
(***************************************************************************)
(* Instances of NnueLoop for TLC.                                          *)
(***************************************************************************)
EXTENDS NnueLoop

\* Two of the four gates: the script treats them alike.
TwoGates == <<"startpos", "static_eval">>

\* GAMES=4000, and a smaller cap, which is screened first.
FullGames == <<"sprt">>
ScreenedGames == <<"screen", "sprt">>

=============================================================================
