------------------------------ MODULE LocalSGD ------------------------------
(***************************************************************************)
(* What periodic weight averaging promises, without the network: a round   *)
(* is one atomic decision that names its superbatch and the members whose  *)
(* weights went into it; a member adopts only a round of the superbatch it *)
(* has just trained and in which its own weights take part, and trains     *)
(* past a sync point only on such a round.  A member may at any time fall  *)
(* back to a state it had saved.                                           *)
(***************************************************************************)
EXTENDS Naturals, Sequences

CONSTANTS
    Members,        \* everybody who trains
    Groups,         \* the sets of members that may decide a round together
    Final,          \* the length of the training
    SyncPoint(_, _) \* SyncPoint(m, s): m does not train past s on its own

VARIABLES
    steps,   \* superbatches each member has trained
    base,    \* the round each member trains on, 0 for the initial weights
    rounds   \* the rounds decided

vars == <<steps, base, rounds>>

Init ==
    /\ steps = [m \in Members |-> 0]
    /\ base = [m \in Members |-> 0]
    /\ rounds = <<>>

\* m's weights are those of a round decided at superbatch s.
On(b, s) == b \in DOMAIN rounds /\ rounds[b].superbatch = s

Train(m) ==
    /\ steps[m] < Final
    /\ steps[m] > 0 /\ SyncPoint(m, steps[m]) => On(base[m], steps[m])
    /\ steps' = [steps EXCEPT ![m] = @ + 1]
    /\ UNCHANGED <<base, rounds>>

Decide ==
    /\ \E s \in 1 .. Final, G \in Groups :
          rounds' = Append(rounds, [superbatch |-> s, members |-> G])
    /\ UNCHANGED <<steps, base>>

Adopt(m) ==
    /\ \E r \in DOMAIN rounds :
          /\ rounds[r].superbatch = steps[m]
          /\ m \in rounds[r].members
          /\ base' = [base EXCEPT ![m] = r]
    /\ UNCHANGED <<steps, rounds>>

\* The state fallen back to satisfies the barrier as well.
FallBack(m) ==
    /\ \E s \in 0 .. steps[m], b \in {0} \cup DOMAIN rounds :
          /\ s > 0 /\ SyncPoint(m, s) => On(b, s)
          /\ steps' = [steps EXCEPT ![m] = s]
          /\ base' = [base EXCEPT ![m] = b]
    /\ UNCHANGED rounds

Next == Decide \/ \E m \in Members : Train(m) \/ Adopt(m) \/ FallBack(m)

Spec == Init /\ [][Next]_vars

=============================================================================
