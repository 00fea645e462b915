-------------------------- MODULE MCSelfplayCorpus --------------------------
(***************************************************************************)
(* Instances of SelfplayCorpus for TLC.                                    *)
(***************************************************************************)
EXTENDS SelfplayCorpus, TLC

CONSTANTS p1, p2, a, b, own, outcome
\* Two outputs of the script that shares its intermediates, or one of each other.
MCScripts == {[o \in {a, b} |-> "selfplay"]}
             \cup {[o \in {a, b} |-> IF o = c THEN "sf_oracle" ELSE "tb"] : c \in {a, b}}
Symmetry == Permutations({p1, p2}) \cup Permutations({a, b}) \cup Permutations({own, outcome})

=============================================================================
