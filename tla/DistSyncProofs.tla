--------------------------- MODULE DistSyncProofs ---------------------------
(***************************************************************************)
(* Proofs about DistSync for every number of workers, every length of the  *)
(* training, every cadence and any number of restarts.                     *)
(***************************************************************************)
EXTENDS DistSync, FunctionTheorems, FiniteSetTheorems, SequenceTheorems, TLAPS

-----------------------------------------------------------------------------
(* The inductive invariant. *)

\* u holds the whole training of m up to superbatch s.
OwnSteps(m, s, u) == \A k \in 1 .. s : <<m, k>> \in u

\* Where a process is bounds what it has trained.
PcOK ==
    \A m \in Members :
        /\ pc[m] \in {"boot", "train"} => superbatch[m] < Final
        /\ pc[m] \in Waits => superbatch[m] >= 1
        /\ pc[m] = "done" => superbatch[m] = Final

\* A member's weights, saved or not, hold all of its own training.
MemberOK ==
    \A m \in Members :
        /\ OwnSteps(m, superbatch[m], updates[m])
        /\ OwnSteps(m, checkpoint[m].superbatch, checkpoint[m].updates)

\* So do the weights of every request, also of one whose process is gone.
RequestOK ==
    \A c \in backlog \cup peers : OwnSteps(c.from, c.superbatch, c.updates)

\* The streams of a round are of distinct workers at the coordinator's round.
PeersOK ==
    /\ IsFiniteSet(peers)
    /\ peers # {} => pc[Coord] \in CoordWaits
    /\ \A c \in peers : RunId[c.from] = RunId[Coord] /\ c.superbatch = superbatch[Coord]
    /\ \A c, d \in peers : NodeId[c.from] = NodeId[d.from] => c = d

\* The average being sent is a fleet's and contains every stream's request.
AverageOK ==
    pc[Coord] = "reply" =>
        /\ average # None
        /\ average.superbatch = superbatch[Coord]
        /\ HoldsFleet(average.updates, average.superbatch)
        /\ OwnSteps(Coord, average.superbatch, average.updates)
        /\ \A c \in peers : c.updates \subseteq average.updates

\* So is an average that has been sent.
ReplyOK ==
    \A w \in Workers : reply[w] # None =>
        /\ HoldsFleet(reply[w].updates, reply[w].superbatch)
        /\ OwnSteps(w, reply[w].superbatch, reply[w].updates)

\* No sync point was skipped in the weights of a checkpoint either.
CheckpointOK ==
    \A m \in Members : \A s \in 1 .. checkpoint[m].superbatch :
        SyncDue(m, s) => HoldsFleet(checkpoint[m].updates, s)

IInv ==
    /\ TypeOK
    /\ PcOK
    /\ MemberOK
    /\ RequestOK
    /\ PeersOK
    /\ AverageOK
    /\ ReplyOK
    /\ CheckpointOK
    /\ NoSyncSkipped

-----------------------------------------------------------------------------
(* Facts about the data. *)

\* Weights that hold a fleet's training hold it when more is added to them, and
\* up to any earlier superbatch.
LEMMA HoldsMore ==
    ASSUME NEW u, NEW v, NEW s \in Nat, NEW k \in 1 .. s, u \subseteq v, HoldsFleet(u, s)
    PROVE  HoldsFleet(v, k)
<1>1. PICK W \in Fleets : (W \cup {Coord}) \X (1 .. s) \subseteq u
  BY DEF HoldsFleet
<1>2. 1 .. k \subseteq 1 .. s
  OBVIOUS
<1>3. (W \cup {Coord}) \X (1 .. k) \subseteq v
  BY <1>1, <1>2
<1> QED
  BY <1>3 DEF HoldsFleet

\* Final is a superbatch number, and so are all those before it.
LEMMA FinalNat == Final \in Nat /\ Final >= 1 /\ NumPeers \in Nat /\ NumPeers >= 1
  BY DistSyncAssumption DEF DistSyncAssumption

\* The workers behind NumPeers accepted streams are a fleet.
LEMMA PeersFleet ==
    ASSUME TypeOK, PeersOK, Cardinality(peers) = NumPeers
    PROVE  {c.from : c \in peers} \in Fleets
<1> DEFINE W == {c.from : c \in peers}
           f == [c \in peers |-> c.from]
<1>1. W \subseteq Workers
  BY DEF TypeOK, Connections
<1>2. \A v, w \in W : NodeId[v] = NodeId[w] => v = w
  BY DEF PeersOK
<1>3. f \in Bijection(peers, W)
  <2>1. f \in Injection(peers, W)
    BY DEF PeersOK, Injection, IsInjective
  <2>2. f \in Surjection(peers, W)
    BY DEF Surjection
  <2> QED
    BY <2>1, <2>2 DEF Bijection
<1>4. Cardinality(W) = NumPeers
  BY <1>3, FS_Bijection DEF PeersOK, ExistsBijection
<1>5. \A w \in W : RunId[w] = RunId[Coord]
  BY DEF PeersOK
<1> QED
  BY <1>1, <1>2, <1>4, <1>5 DEF Fleets

-----------------------------------------------------------------------------
(* Every action preserves the invariant. *)

LEMMA InitOK == Init => IInv
<1> SUFFICES ASSUME Init PROVE IInv
  OBVIOUS
<1> USE FinalNat, DistSyncAssumption DEF Init, DistSyncAssumption
<1>1. TypeOK
  BY DEF TypeOK, States, Weights, Connections, Members
<1>2. PcOK /\ MemberOK /\ RequestOK
  BY DEF PcOK, MemberOK, RequestOK, OwnSteps, Waits, WorkerWaits, CoordWaits, Members
<1>3. PeersOK
  BY FS_EmptySet DEF PeersOK
<1>4. AverageOK /\ ReplyOK
  BY DEF AverageOK, ReplyOK, Members
<1>5. CheckpointOK /\ NoSyncSkipped
  BY DEF CheckpointOK, NoSyncSkipped, Members
<1> QED
  BY <1>1, <1>2, <1>3, <1>4, <1>5 DEF IInv

LEMMA StutterOK == IInv /\ UNCHANGED vars => IInv'
BY DEF IInv, vars, training, network, result, TypeOK, PcOK, MemberOK, RequestOK,
       PeersOK, AverageOK, ReplyOK, CheckpointOK, NoSyncSkipped

LEMMA BootOK ==
    ASSUME IInv, NEW m \in Members, Boot(m), UNCHANGED faults
    PROVE  IInv'
<1> USE DEF IInv, Boot, training, network, result
<1>1. TypeOK'
  BY DEF TypeOK, States
<1>2. (PcOK /\ MemberOK /\ RequestOK /\ PeersOK /\ AverageOK /\ ReplyOK /\ CheckpointOK)'
  BY DEF TypeOK, PcOK, MemberOK, RequestOK, PeersOK, AverageOK, ReplyOK, CheckpointOK,
         Waits, WorkerWaits, CoordWaits
<1>3. NoSyncSkipped'
  BY DEF TypeOK, NoSyncSkipped, Waits, WorkerWaits, CoordWaits
<1> QED
  BY <1>1, <1>2, <1>3

LEMMA FailOK ==
    ASSUME IInv, NEW m \in Members, Fail(m), UNCHANGED faults
    PROVE  IInv'
<1> USE DEF IInv, Fail, training
<1>1. TypeOK'
  BY DEF TypeOK, States, Ended, Members
<1>2. PcOK'
  BY DEF TypeOK, PcOK, Waits, WorkerWaits, CoordWaits
<1>3. (MemberOK /\ RequestOK /\ CheckpointOK)'
  BY DEF MemberOK, RequestOK, CheckpointOK
<1>4. PeersOK'
  <2>1. CASE m = Coord
    BY <2>1, DistSyncAssumption, FS_EmptySet DEF PeersOK
  <2>2. CASE m # Coord
    BY <2>2 DEF TypeOK, PeersOK
  <2> QED
    BY <2>1, <2>2
<1>5. AverageOK'
  BY DEF TypeOK, AverageOK, Members
<1>6. ReplyOK'
  BY DEF TypeOK, ReplyOK
<1>7. NoSyncSkipped'
  BY DEF TypeOK, NoSyncSkipped
<1> QED
  BY <1>1, <1>2, <1>3, <1>4, <1>5, <1>6, <1>7

\* What the end of a superbatch does to the process and to its checkpoint.
LEMMA EndSuperbatchOK ==
    ASSUME TypeOK, NEW m \in Members, NEW s \in 1 .. Final,
           NEW u \in SUBSET Steps, NEW b \in Nat, EndSuperbatch(m, s, u, b)
    PROVE  /\ pc' = [pc EXCEPT ![m] = IF s = Final THEN "done" ELSE "train"]
           /\ checkpoint' \in [Members -> Weights]
           /\ \A n \in Members :
                 \/ checkpoint'[n] = checkpoint[n]
                 \/ /\ n = m
                    /\ checkpoint'[n].superbatch = s
                    /\ checkpoint'[n].updates = u
                    /\ checkpoint'[n].base = b
<1> DEFINE w == [superbatch |-> s, updates |-> u, base |-> b]
<1>1. w \in Weights /\ w.superbatch = s /\ w.updates = u /\ w.base = b
  BY FinalNat DEF Weights
<1>2. \/ checkpoint' = checkpoint
      \/ checkpoint' = [checkpoint EXCEPT ![m] = w]
  BY DEF EndSuperbatch
<1>3. pc' = [pc EXCEPT ![m] = IF s = Final THEN "done" ELSE "train"]
  BY DEF EndSuperbatch
<1> HIDE DEF w
<1> QED
  BY <1>1, <1>2, <1>3 DEF TypeOK

LEMMA TrainOK ==
    ASSUME IInv, NEW m \in Members, Train(m), UNCHANGED faults
    PROVE  IInv'
<1> DEFINE s == superbatch[m] + 1
           u == updates[m] \cup {<<m, s>>}
<1> USE FinalNat DEF IInv
<1>1. /\ pc[m] = "train" /\ superbatch[m] < Final
      /\ superbatch[m] \in Nat /\ s \in 1 .. Final
      /\ updates[m] \subseteq u /\ u \in SUBSET Steps
      /\ superbatch' = [superbatch EXCEPT ![m] = s]
      /\ updates' = [updates EXCEPT ![m] = u]
      /\ UNCHANGED <<base, inc, network, result>>
  BY DEF Train, TypeOK, PcOK, Steps
<1>2. OwnSteps(m, s, u)
  BY <1>1 DEF MemberOK, OwnSteps
<1>3. ASSUME NEW k \in 1 .. superbatch[m], SyncDue(m, k)
      PROVE  HoldsFleet(u, k)
  <2>1. HoldsFleet(updates[m], k)
    BY <1>1, <1>3 DEF NoSyncSkipped, Waits, WorkerWaits, CoordWaits
  <2> QED
    BY <2>1, <1>1, HoldsMore
<1>4. /\ \/ /\ SyncDue(m, s)
            /\ pc' = [pc EXCEPT ![m] = IF m = Coord THEN "accept" ELSE "connect"]
         \/ /\ ~SyncDue(m, s)
            /\ pc' = [pc EXCEPT ![m] = IF s = Final THEN "done" ELSE "train"]
      /\ checkpoint' \in [Members -> Weights]
      /\ \A n \in Members :
            \/ checkpoint'[n] = checkpoint[n]
            \/ /\ n = m /\ ~SyncDue(m, s)
               /\ checkpoint'[n].superbatch = s
               /\ checkpoint'[n].updates = u
  <2>1. base[m] \in Nat
    BY DEF TypeOK
  <2>2. CASE SyncDue(m, s)
    BY <2>2 DEF Train, TypeOK
  <2>3. CASE ~SyncDue(m, s)
    <3>1. EndSuperbatch(m, s, u, base[m])
      BY <2>3 DEF Train
    <3> HIDE DEF s, u
    <3> QED
      BY <1>1, <2>1, <2>3, <3>1, EndSuperbatchOK DEF EndSuperbatch
  <2> QED
    BY <2>2, <2>3
<1> HIDE DEF s, u
<1>5. TypeOK'
  <2>1. pc' \in [Members -> States]
    BY <1>4 DEF TypeOK, States, Waits, WorkerWaits, CoordWaits, Ended
  <2> QED
    BY <1>1, <1>4, <2>1 DEF TypeOK, network, result
<1>6. PcOK'
  <2>1. pc'[m] \in {"boot", "train"} => s < Final
    BY <1>1, <1>4 DEF TypeOK
  <2>2. pc'[m] = "done" => s = Final
    BY <1>4 DEF TypeOK
  <2>3. \A n \in Members \ {m} : pc'[n] = pc[n]
    BY <1>4 DEF TypeOK
  <2> QED
    BY <1>1, <2>1, <2>2, <2>3 DEF TypeOK, PcOK
<1>7. MemberOK'
  BY <1>1, <1>2, <1>4 DEF TypeOK, MemberOK
<1>8. (RequestOK /\ ReplyOK)'
  BY <1>1 DEF RequestOK, ReplyOK, network
<1>9. (PeersOK /\ AverageOK)'
  <2>1. m # Coord => pc'[Coord] = pc[Coord] /\ superbatch'[Coord] = superbatch[Coord]
    BY <1>1, <1>4 DEF TypeOK, Members
  <2>2. m = Coord => pc'[Coord] # "reply" /\ peers = {}
    BY <1>1, <1>4 DEF TypeOK, PeersOK, CoordWaits
  <2> QED
    BY <1>1, <2>1, <2>2 DEF PeersOK, AverageOK, network, result
<1>10. CheckpointOK'
  <2> SUFFICES ASSUME NEW n \in Members, NEW k \in 1 .. checkpoint'[n].superbatch, SyncDue(n, k)
               PROVE  HoldsFleet(checkpoint'[n].updates, k)
    BY DEF CheckpointOK
  <2>1. CASE checkpoint'[n] = checkpoint[n]
    BY <2>1 DEF CheckpointOK
  <2>2. CASE /\ n = m /\ ~SyncDue(m, s)
             /\ checkpoint'[n].superbatch = s
             /\ checkpoint'[n].updates = u
    <3>1. k \in 1 .. superbatch[m]
      BY <1>1, <2>2 DEF s
    <3> QED
      BY <1>3, <2>2, <3>1
  <2> QED
    BY <1>4, <2>1, <2>2
<1>11. NoSyncSkipped'
  <2> SUFFICES ASSUME NEW n \in Members, NEW k \in 1 .. superbatch'[n], SyncDue(n, k),
                      k = superbatch'[n] => pc'[n] \notin Waits \cup {"failed"}
               PROVE  HoldsFleet(updates'[n], k)
    BY DEF NoSyncSkipped
  <2>1. CASE n # m
    BY <1>1, <1>4, <2>1 DEF TypeOK, NoSyncSkipped
  <2>2. CASE n = m
    <3>1. k # s
      BY <1>1, <1>4, <2>2 DEF TypeOK, Waits, WorkerWaits, CoordWaits
    <3>2. k \in 1 .. superbatch[m]
      BY <1>1, <2>2, <3>1 DEF TypeOK, s
    <3> QED
      BY <1>1, <1>3, <2>2, <3>2 DEF TypeOK
  <2> QED
    BY <2>1, <2>2
<1> QED
  BY <1>5, <1>6, <1>7, <1>8, <1>9, <1>10, <1>11

LEMMA RestartOK ==
    ASSUME IInv, NEW m \in Members, Restart(m), UNCHANGED faults
    PROVE  IInv'
<1> USE FinalNat DEF IInv
<1>1. /\ pc[m] = "failed"
      /\ pc' = [pc EXCEPT ![m] = IF checkpoint[m].superbatch = Final THEN "done" ELSE "boot"]
      /\ superbatch' = [superbatch EXCEPT ![m] = checkpoint[m].superbatch]
      /\ updates' = [updates EXCEPT ![m] = checkpoint[m].updates]
      /\ base' = [base EXCEPT ![m] = checkpoint[m].base]
      /\ UNCHANGED <<checkpoint, network, result>>
      /\ inc' \in [Members -> 0 .. MaxRestarts]
  BY DistSyncAssumption DEF Restart, DistSyncAssumption, TypeOK
<1>2. /\ checkpoint[m].superbatch \in 0 .. Final
      /\ checkpoint[m].updates \in SUBSET Steps
      /\ checkpoint[m].base \in Nat
  BY DEF TypeOK, Weights
<1>3. TypeOK'
  <2>1. pc' \in [Members -> States]
    BY <1>1 DEF TypeOK, States, Ended
  <2> QED
    BY <1>1, <1>2, <2>1 DEF TypeOK, network, result
<1>4. PcOK'
  BY <1>1, <1>2 DEF TypeOK, PcOK, Waits, WorkerWaits, CoordWaits
<1>5. (MemberOK /\ RequestOK /\ ReplyOK /\ CheckpointOK)'
  BY <1>1 DEF TypeOK, MemberOK, RequestOK, ReplyOK, CheckpointOK, network
<1>6. (PeersOK /\ AverageOK)'
  <2>1. m # Coord => pc'[Coord] = pc[Coord] /\ superbatch'[Coord] = superbatch[Coord]
    BY <1>1 DEF TypeOK, Members
  <2>2. m = Coord => pc'[Coord] # "reply" /\ peers = {}
    BY <1>1 DEF TypeOK, PeersOK, CoordWaits
  <2> QED
    BY <1>1, <2>1, <2>2 DEF PeersOK, AverageOK, network, result
<1>7. NoSyncSkipped'
  BY <1>1 DEF TypeOK, NoSyncSkipped, CheckpointOK
<1> QED
  BY <1>3, <1>4, <1>5, <1>6, <1>7

LEMMA ConnectOK ==
    ASSUME IInv, NEW w \in Workers, Connect(w), UNCHANGED faults
    PROVE  IInv'
<1> DEFINE c == [from |-> w, inc |-> inc[w], superbatch |-> superbatch[w],
                 updates |-> updates[w], base |-> base[w]]
<1> USE DEF IInv
<1>1. /\ pc[w] = "connect" /\ w \in Members
      /\ backlog' = backlog \cup {c}
      /\ pc' = [pc EXCEPT ![w] = "send"]
      /\ UNCHANGED <<training, checkpoint, inc, peers, reply, result>>
  BY DEF Connect, Members
<1>2. c \in Connections
  <2>1. superbatch[w] \in 1 .. Final
    BY <1>1, FinalNat DEF TypeOK, PcOK, Waits, WorkerWaits
  <2> QED
    BY <1>1, <2>1 DEF TypeOK, Connections
<1>3. OwnSteps(c.from, c.superbatch, c.updates)
  BY <1>1 DEF MemberOK
<1> HIDE DEF c
<1>4. TypeOK'
  <2>1. pc' \in [Members -> States]
    BY <1>1 DEF TypeOK, States, Waits, WorkerWaits
  <2> QED
    BY <1>1, <1>2, <2>1 DEF TypeOK, training, result
<1>5. pc'[Coord] = pc[Coord]
  BY <1>1, DistSyncAssumption DEF TypeOK, Members, DistSyncAssumption
<1>6. (PcOK /\ MemberOK /\ CheckpointOK)'
  BY <1>1 DEF TypeOK, PcOK, MemberOK, CheckpointOK, training, Waits, WorkerWaits, CoordWaits
<1>7. RequestOK'
  BY <1>1, <1>3 DEF RequestOK
<1>8. (PeersOK /\ AverageOK /\ ReplyOK)'
  BY <1>1, <1>5 DEF PeersOK, AverageOK, ReplyOK, training, result
<1>9. NoSyncSkipped'
  BY <1>1 DEF TypeOK, NoSyncSkipped, training, Waits, WorkerWaits, CoordWaits
<1> QED
  BY <1>4, <1>6, <1>7, <1>8, <1>9

LEMMA SendRequestOK ==
    ASSUME IInv, NEW w \in Workers, SendRequest(w), UNCHANGED faults
    PROVE  IInv'
<1> USE DEF IInv
<1>1. /\ pc[w] = "send" /\ w \in Members
      /\ pc' = [pc EXCEPT ![w] = "await"]
      /\ UNCHANGED <<training, checkpoint, inc, network, result>>
  BY DEF SendRequest, Members
<1>2. TypeOK'
  <2>1. pc' \in [Members -> States]
    BY <1>1 DEF TypeOK, States, Waits, WorkerWaits
  <2> QED
    BY <1>1, <2>1 DEF TypeOK, training, network, result
<1>3. pc'[Coord] = pc[Coord]
  BY <1>1, DistSyncAssumption DEF TypeOK, Members, DistSyncAssumption
<1>4. (PcOK /\ MemberOK /\ CheckpointOK)'
  BY <1>1 DEF TypeOK, PcOK, MemberOK, CheckpointOK, training, Waits, WorkerWaits, CoordWaits
<1>5. (RequestOK /\ PeersOK /\ AverageOK /\ ReplyOK)'
  BY <1>1, <1>3 DEF RequestOK, PeersOK, AverageOK, ReplyOK, training, network, result
<1>6. NoSyncSkipped'
  BY <1>1 DEF TypeOK, NoSyncSkipped, training, Waits, WorkerWaits, CoordWaits
<1> QED
  BY <1>2, <1>4, <1>5, <1>6

\* What loading an average of the member's own superbatch does to the member:
\* common to the worker that receives one and to the coordinator.
LEMMA LoadAverageOK ==
    ASSUME IInv, NEW m \in Members, NEW a \in Weights,
           pc[m] \in Waits,
           a.superbatch = superbatch[m],
           HoldsFleet(a.updates, a.superbatch),
           OwnSteps(m, a.superbatch, a.updates),
           LoadAverage(m, a)
    PROVE  /\ pc' \in [Members -> States]
           /\ updates' \in [Members -> SUBSET Steps]
           /\ base' \in [Members -> Nat]
           /\ checkpoint' \in [Members -> Weights]
           /\ pc'[m] \notin Waits
           /\ \A n \in Members \ {m} : pc'[n] = pc[n]
           /\ UNCHANGED <<superbatch, inc>>
           /\ PcOK' /\ MemberOK' /\ CheckpointOK' /\ NoSyncSkipped'
<1> DEFINE s == superbatch[m]
<1> USE DEF IInv
<1>1. /\ s \in 1 .. Final
      /\ a.updates \in SUBSET Steps /\ a.base \in Nat
      /\ updates' = [updates EXCEPT ![m] = a.updates]
      /\ base' = [base EXCEPT ![m] = a.base]
      /\ UNCHANGED <<superbatch, inc>>
  BY FinalNat DEF LoadAverage, TypeOK, PcOK, Weights
<1>2. /\ pc' = [pc EXCEPT ![m] = IF s = Final THEN "done" ELSE "train"]
      /\ checkpoint' \in [Members -> Weights]
      /\ \A n \in Members :
            \/ checkpoint'[n] = checkpoint[n]
            \/ /\ n = m
               /\ checkpoint'[n].superbatch = s
               /\ checkpoint'[n].updates = a.updates
  BY <1>1, EndSuperbatchOK DEF LoadAverage, EndSuperbatch
<1>3. \A k \in 1 .. s : HoldsFleet(a.updates, k)
  BY <1>1, HoldsMore
<1>4. /\ pc' \in [Members -> States]
      /\ updates' \in [Members -> SUBSET Steps]
      /\ base' \in [Members -> Nat]
      /\ pc'[m] \in {"train", "done"} /\ pc'[m] = "done" <=> s = Final
      /\ \A n \in Members \ {m} : pc'[n] = pc[n]
  BY <1>1, <1>2 DEF TypeOK, States, Ended
<1>5. PcOK'
  BY <1>1, <1>4, FinalNat DEF TypeOK, PcOK, Waits, WorkerWaits, CoordWaits
<1>6. MemberOK'
  BY <1>1, <1>2 DEF TypeOK, MemberOK
<1>7. CheckpointOK'
  BY <1>2, <1>3 DEF CheckpointOK
<1>8. NoSyncSkipped'
  BY <1>1, <1>3, <1>4 DEF TypeOK, NoSyncSkipped
<1> QED
  BY <1>1, <1>2, <1>4, <1>5, <1>6, <1>7, <1>8 DEF Waits, WorkerWaits, CoordWaits

LEMMA ReceiveAverageOK ==
    ASSUME IInv, NEW w \in Workers, ReceiveAverage(w), UNCHANGED faults
    PROVE  IInv'
<1> USE DEF IInv
<1>1. w \in Members /\ w # Coord /\ pc[w] = "await" /\ reply[w] \in Weights
  BY DistSyncAssumption DEF ReceiveAverage, TypeOK, Members, DistSyncAssumption
<1>2. CASE /\ reply[w].superbatch = superbatch[w]
           /\ reply' = [reply EXCEPT ![w] = None]
           /\ LoadAverage(w, reply[w])
           /\ UNCHANGED <<backlog, peers, result>>
  <2>1. /\ pc' \in [Members -> States]
        /\ updates' \in [Members -> SUBSET Steps]
        /\ base' \in [Members -> Nat]
        /\ checkpoint' \in [Members -> Weights]
        /\ \A n \in Members \ {w} : pc'[n] = pc[n]
        /\ UNCHANGED <<superbatch, inc>>
        /\ PcOK' /\ MemberOK' /\ CheckpointOK' /\ NoSyncSkipped'
    <3>1. HoldsFleet(reply[w].updates, reply[w].superbatch)
          /\ OwnSteps(w, reply[w].superbatch, reply[w].updates)
      BY DEF ReceiveAverage, ReplyOK
    <3> QED
      BY <1>1, <1>2, <3>1, LoadAverageOK
         DEF LoadAverage, EndSuperbatch, Waits, WorkerWaits
  <2>2. TypeOK'
    BY <1>2, <2>1 DEF TypeOK, result
  <2>3. pc'[Coord] = pc[Coord]
    BY <1>1, <2>1 DEF Members
  <2>4. (RequestOK /\ PeersOK /\ AverageOK /\ ReplyOK)'
    BY <1>2, <2>1, <2>3 DEF TypeOK, RequestOK, PeersOK, AverageOK, ReplyOK, result
  <2> QED
    BY <2>1, <2>2, <2>4
<1>3. CASE Fail(w)
  BY <1>1, <1>3, FailOK DEF Fail
<1> QED
  BY <1>2, <1>3 DEF ReceiveAverage

LEMMA AcceptRequestOK ==
    ASSUME IInv, NEW c \in backlog, AcceptRequest(c), UNCHANGED faults
    PROVE  IInv'
<1> USE DEF IInv
<1>1. /\ backlog' = backlog \ {c}
      /\ peers' = peers \cup {c}
      /\ UNCHANGED <<pc, training, checkpoint, inc, reply, result>>
      /\ pc[Coord] = "accept"
      /\ RunId[c.from] = RunId[Coord]
      /\ c.superbatch = superbatch[Coord]
      /\ \A p \in peers : NodeId[p.from] # NodeId[c.from]
  BY DEF AcceptRequest, Accepting, Acceptable
<1>2. (TypeOK /\ PcOK /\ MemberOK /\ RequestOK /\ ReplyOK /\ CheckpointOK /\ NoSyncSkipped)'
  BY <1>1 DEF TypeOK, PcOK, MemberOK, RequestOK, ReplyOK, CheckpointOK, NoSyncSkipped,
              training, result
<1>3. PeersOK'
  <2>1. IsFiniteSet(peers')
    BY <1>1, FS_AddElement DEF PeersOK
  <2> QED
    BY <1>1, <2>1 DEF PeersOK, CoordWaits, training
<1>4. AverageOK'
  BY <1>1 DEF AverageOK
<1> QED
  BY <1>2, <1>3, <1>4

LEMMA AverageStepOK ==
    ASSUME IInv, Average, UNCHANGED faults
    PROVE  IInv'
<1> DEFINE s == superbatch[Coord]
           W == {c.from : c \in peers}
           a == [superbatch |-> s,
                 updates |-> updates[Coord] \cup UNION {c.updates : c \in peers},
                 base |-> Len(rounds) + 1]
           r == [superbatch |-> s, members |-> {Coord} \cup W]
<1> USE FinalNat DEF IInv
<1>1. /\ pc[Coord] = "accept" /\ Coord \in Members
      /\ rounds' = Append(rounds, r)
      /\ average' = a
      /\ pc' = [pc EXCEPT ![Coord] = "reply"]
      /\ UNCHANGED <<training, checkpoint, inc, network>>
  BY DEF Average, Members
<1>2. s \in 1 .. Final
  BY <1>1 DEF TypeOK, PcOK, Waits, CoordWaits
<1>3. W \in Fleets
  BY PeersFleet DEF Average
<1>4. a \in Weights
  <2>1. a.updates \subseteq Steps
    BY <1>1 DEF TypeOK, Connections
  <2>2. Len(rounds) + 1 \in Nat
    BY DEF TypeOK
  <2> QED
    BY <1>2, <2>1, <2>2 DEF Weights
<1>5. r \in [superbatch : 1 .. Final, members : SUBSET Members]
  BY <1>2, <1>3 DEF Fleets, Members
<1>6. HoldsFleet(a.updates, s)
  <2>1. ASSUME NEW w \in W, NEW k \in 1 .. s
        PROVE  <<w, k>> \in a.updates
    <3>1. PICK c \in peers : c.from = w
      OBVIOUS
    <3>2. <<w, k>> \in c.updates
      BY <3>1 DEF PeersOK, RequestOK, OwnSteps
    <3> QED
      BY <3>2
  <2>2. ASSUME NEW k \in 1 .. s
        PROVE  <<Coord, k>> \in a.updates
    BY <1>1 DEF MemberOK, OwnSteps
  <2>3. (W \cup {Coord}) \X (1 .. s) \subseteq a.updates
    BY <2>1, <2>2
  <2> HIDE DEF W, a
  <2> QED
    BY <1>3, <2>3 DEF HoldsFleet
<1>7. OwnSteps(Coord, s, a.updates)
  BY <1>1 DEF MemberOK, OwnSteps
<1>8. a.superbatch = s /\ \A c \in peers : c.updates \subseteq a.updates
  OBVIOUS
<1> HIDE DEF a, r
<1>9. TypeOK'
  <2>1. pc' \in [Members -> States]
    BY <1>1 DEF TypeOK, States, Waits, CoordWaits
  <2>2. rounds' \in Seq([superbatch : 1 .. Final, members : SUBSET Members])
    BY <1>1, <1>5 DEF TypeOK
  <2> QED
    BY <1>1, <1>4, <2>1, <2>2 DEF TypeOK, training, network
<1>10. (PcOK /\ MemberOK /\ RequestOK /\ ReplyOK /\ CheckpointOK)'
  BY <1>1 DEF TypeOK, PcOK, MemberOK, RequestOK, ReplyOK, CheckpointOK, training, network,
              Waits, WorkerWaits, CoordWaits
<1>11. PeersOK'
  BY <1>1 DEF TypeOK, PeersOK, CoordWaits, training, network
<1>12. AverageOK'
  <2>1. a # None
    BY <1>4, DistSyncAssumption DEF DistSyncAssumption, Weights, Steps
  <2> QED
    BY <1>1, <1>6, <1>7, <1>8, <2>1 DEF AverageOK, training, network
<1>13. NoSyncSkipped'
  BY <1>1 DEF TypeOK, NoSyncSkipped, training, Waits, WorkerWaits, CoordWaits
<1> QED
  BY <1>9, <1>10, <1>11, <1>12, <1>13

LEMMA WriteReplyOK ==
    ASSUME IInv, NEW c \in peers, WriteReply(c), UNCHANGED faults
    PROVE  IInv'
<1> USE DEF IInv
<1>1. /\ c.from \in Workers /\ c.from \in Members
      /\ average # None /\ average \in Weights
      /\ pc[Coord] = "reply"
  BY DEF WriteReply, AverageOK, TypeOK, Connections, Members
<1>2. CASE Fail(Coord)
  BY <1>2, FailOK DEF Fail, Members
<1>3. CASE /\ reply' = [reply EXCEPT ![c.from] = average] \/ UNCHANGED reply
           /\ peers' = peers \ {c}
           /\ UNCHANGED <<pc, training, checkpoint, inc, backlog, result>>
  <2>1. (TypeOK /\ PcOK /\ MemberOK /\ RequestOK /\ CheckpointOK /\ NoSyncSkipped)'
    BY <1>1, <1>3 DEF TypeOK, PcOK, MemberOK, RequestOK, CheckpointOK, NoSyncSkipped,
                      training, result
  <2>2. PeersOK'
    BY <1>3, FS_Subset DEF PeersOK, training
  <2>3. AverageOK'
    BY <1>3 DEF AverageOK, training, result
  <2>4. ReplyOK'
    <3>1. OwnSteps(c.from, average.superbatch, average.updates)
      BY <1>1 DEF AverageOK, PeersOK, RequestOK, OwnSteps
    <3>2. HoldsFleet(average.updates, average.superbatch)
      BY <1>1 DEF AverageOK
    <3> QED
      BY <1>1, <1>3, <3>1, <3>2 DEF TypeOK, ReplyOK
  <2> QED
    BY <2>1, <2>2, <2>3, <2>4
<1> QED
  BY <1>2, <1>3 DEF WriteReply

LEMMA FinishRoundOK ==
    ASSUME IInv, FinishRound, UNCHANGED faults
    PROVE  IInv'
<1> USE DEF IInv
<1>1. /\ pc[Coord] = "reply" /\ Coord \in Members
      /\ peers = {} /\ peers' = {}
      /\ average \in Weights
      /\ backlog' \subseteq backlog
      /\ average' = None
      /\ UNCHANGED <<reply, rounds>>
  BY DEF FinishRound, AverageOK, TypeOK, Members
<1>2. /\ pc' \in [Members -> States]
      /\ updates' \in [Members -> SUBSET Steps]
      /\ base' \in [Members -> Nat]
      /\ checkpoint' \in [Members -> Weights]
      /\ pc'[Coord] \notin Waits
      /\ UNCHANGED <<superbatch, inc>>
      /\ PcOK' /\ MemberOK' /\ CheckpointOK' /\ NoSyncSkipped'
  BY <1>1, LoadAverageOK
     DEF FinishRound, LoadAverage, EndSuperbatch, AverageOK, Waits, CoordWaits
<1>3. TypeOK'
  BY <1>1, <1>2 DEF TypeOK
<1>4. (RequestOK /\ PeersOK /\ AverageOK /\ ReplyOK)'
  BY <1>1, <1>2, FS_EmptySet DEF RequestOK, PeersOK, AverageOK, ReplyOK, Waits, CoordWaits
<1> QED
  BY <1>2, <1>3, <1>4

LEMMA NextOK ==
    ASSUME IInv, [Next]_vars
    PROVE  IInv'
<1>0. UNCHANGED faults
  BY DEF Next, vars
<1>1. ASSUME NEW m \in Members, Boot(m) PROVE IInv'
  BY <1>0, <1>1, BootOK
<1>2. ASSUME NEW m \in Members, Train(m) PROVE IInv'
  BY <1>0, <1>2, TrainOK
<1>3. ASSUME NEW m \in Members, Crash(m) \/ Timeout(m) PROVE IInv'
  BY <1>0, <1>3, FailOK DEF Crash, Timeout
<1>4. ASSUME NEW m \in Members, Restart(m) PROVE IInv'
  BY <1>0, <1>4, RestartOK
<1>5. ASSUME NEW w \in Workers, WorkerStep(w) PROVE IInv'
  <2>1. CASE Connect(w)
    BY <1>0, <2>1, ConnectOK
  <2>2. CASE SendRequest(w)
    BY <1>0, <2>2, SendRequestOK
  <2>3. CASE LoseConnection(w)
    BY <1>0, <2>3, FailOK DEF LoseConnection, Members
  <2>4. CASE ReceiveAverage(w)
    BY <1>0, <2>4, ReceiveAverageOK
  <2> QED
    BY <1>5, <2>1, <2>2, <2>3, <2>4 DEF WorkerStep
<1>6. CASE CoordStep
  <2>1. ASSUME NEW c \in backlog, AcceptRequest(c) PROVE IInv'
    BY <1>0, <2>1, AcceptRequestOK
  <2>2. ASSUME NEW c \in backlog, RejectRequest(c) PROVE IInv'
    BY <1>0, <2>2, FailOK DEF RejectRequest, Members
  <2>3. ASSUME NEW c \in peers, WriteReply(c) PROVE IInv'
    BY <1>0, <2>3, WriteReplyOK
  <2> QED
    BY <1>0, <1>6, <2>1, <2>2, <2>3, AverageStepOK, FinishRoundOK DEF CoordStep
<1>7. CASE UNCHANGED vars
  BY <1>7, StutterOK
<1> QED
  BY <1>1, <1>2, <1>3, <1>4, <1>5, <1>6, <1>7 DEF Next, Terminated

-----------------------------------------------------------------------------
(* The theorems. *)

\* The invariant the safety properties follow from holds throughout.
THEOREM Invariant == Spec => []IInv
<1>1. Init => IInv
  BY InitOK
<1>2. IInv /\ [Next]_vars => IInv'
  BY NextOK
<1> QED
  BY <1>1, <1>2, PTL DEF Spec

\* Every variable keeps its type, whatever fails and however often it is restarted.
THEOREM TypeCorrect == Spec => []TypeOK
<1>1. IInv => TypeOK
  BY DEF IInv
<1> QED
  BY <1>1, Invariant, PTL

\* mod.rs:76-114: no member trains past a sync point on weights that a whole
\* fleet did not go into, for any number of workers, cadence and length.
THEOREM SyncNeverSkipped == Spec => []NoSyncSkipped
<1>1. IInv => NoSyncSkipped
  BY DEF IInv
<1> QED
  BY <1>1, Invariant, PTL

\* mod.rs:77: the coordinator's final model, and the checkpoint of it, hold the
\* whole training of NumPeers distinct workers of its run and of its own.
THEOREM FinalModelIsFleetAverage == Spec => []FinalIsFleetAverage
<1>1. IInv => FinalIsFleetAverage
  <2> SUFFICES ASSUME IInv PROVE FinalIsFleetAverage
    OBVIOUS
  <2>1. Coord \in Members /\ SyncDue(Coord, Final)
    BY DEF Members, SyncDue
  <2>2. pc[Coord] = "done" => HoldsFleet(updates[Coord], Final)
    BY <2>1, FinalNat DEF IInv, PcOK, NoSyncSkipped, Waits, WorkerWaits, CoordWaits
  <2>3. checkpoint[Coord].superbatch = Final => HoldsFleet(checkpoint[Coord].updates, Final)
    BY <2>1, FinalNat DEF IInv, CheckpointOK
  <2> QED
    BY <2>2, <2>3 DEF FinalIsFleetAverage
<1> QED
  BY <1>1, Invariant, PTL

-----------------------------------------------------------------------------
(***************************************************************************)
(* The rounds: that DistSync implements LocalSGD, that an answer reaches   *)
(* only who asked for it, and, where the coordinator waits for all         *)
(* workers, that what it averages descends from one average and what the   *)
(* members end with is the same.                                           *)
(*                                                                         *)
(* Three invariants on top of IInv: SInv says of which round weights,      *)
(* requests and answers are, ConnInv what a connection still says of the   *)
(* process that opened it, and UInv that a superbatch has one round that   *)
(* anybody can still come to train on.                                     *)
(***************************************************************************)

-----------------------------------------------------------------------------
(* Rounds and weights. *)

\* The superbatch of round b of r, 0 for the initial weights.
At(r, b) == IF b = 0 THEN 0 ELSE r[b].superbatch

\* Weights of round b went through every sync point of m up to s.
Reaches(m, s, r, b) == \A k \in 1 .. s : SyncDue(m, k) => k <= At(r, b)

\* m has ended superbatch s, or waits for the average of it.
Settled(m, s, r, b) ==
    s \in Nat /\ b \in 0 .. Len(r) /\ At(r, b) \in 0 .. s /\ Reaches(m, s, r, b)
Open(m, s, r, b) ==
    /\ s \in Nat \ {0} /\ b \in 0 .. Len(r) /\ At(r, b) \in 0 .. (s - 1)
    /\ SyncDue(m, s) /\ Reaches(m, s - 1, r, b)

\* Average a is that of a round, with m in it.
DecidedFor(m, a, r) ==
    a.base \in 1 .. Len(r) /\ r[a.base].superbatch = a.superbatch /\ m \in r[a.base].members

\* The round of every member's weights, in the process and on the disk.
MembersOK ==
    \A m \in Members :
        /\ Settled(m, superbatch[m], rounds, base[m]) \/ Open(m, superbatch[m], rounds, base[m])
        /\ pc[m] \in Waits => Open(m, superbatch[m], rounds, base[m])
                              /\ checkpoint[m].superbatch < superbatch[m]
        /\ pc[m] \notin Waits \cup {"failed"} => Settled(m, superbatch[m], rounds, base[m])
        /\ Settled(m, checkpoint[m].superbatch, rounds, checkpoint[m].base)
        /\ checkpoint[m].superbatch <= superbatch[m]

\* Those of a request, and the answers.
RequestsOK == \A c \in backlog \cup peers : Open(c.from, c.superbatch, rounds, c.base)
AnswersOK == \A w \in Workers : reply[w] # None => DecidedFor(w, reply[w], rounds)
RoundOK ==
    pc[Coord] = "reply" =>
        /\ DecidedFor(Coord, average, rounds)
        /\ \A c \in peers : DecidedFor(c.from, average, rounds)

SInv == MembersOK /\ RequestsOK /\ AnswersOK /\ RoundOK

\* A later round changes nothing about the earlier ones.
LEMMA Grown ==
    ASSUME NEW S, NEW r \in Seq(S), NEW x \in S
    PROVE  /\ Len(r) \in Nat /\ Len(Append(r, x)) = Len(r) + 1
           /\ Append(r, x)[Len(r) + 1] = x
           /\ \A b \in 0 .. Len(r) : b \in 0 .. Len(Append(r, x)) /\ At(Append(r, x), b) = At(r, b)
           /\ \A m, s, b : Settled(m, s, r, b) => Settled(m, s, Append(r, x), b)
           /\ \A m, s, b : Open(m, s, r, b) => Open(m, s, Append(r, x), b)
           /\ \A m, a : DecidedFor(m, a, r) => DecidedFor(m, a, Append(r, x))
<1> DEFINE q == Append(r, x)
<1>1. /\ Len(r) \in Nat /\ Len(q) = Len(r) + 1 /\ q[Len(r) + 1] = x
      /\ \A b \in 1 .. Len(r) : q[b] = r[b]
  BY AppendProperties, LenProperties
<1> HIDE DEF q
<1>2. \A b \in 0 .. Len(r) : b \in 0 .. Len(q) /\ At(q, b) = At(r, b)
  BY <1>1 DEF At
<1>3. \A m, s, b : Settled(m, s, r, b) => Settled(m, s, q, b)
  BY <1>2 DEF Settled, Reaches
<1>4. \A m, s, b : Open(m, s, r, b) => Open(m, s, q, b)
  BY <1>2 DEF Open, Reaches
<1>5. \A m, a : DecidedFor(m, a, r) => DecidedFor(m, a, q)
  BY <1>1 DEF DecidedFor
<1> QED
  BY <1>1, <1>2, <1>3, <1>4, <1>5 DEF q

\* A superbatch is added to what is settled, or the average of the one waited for.
LEMMA Advanced ==
    ASSUME NEW m, NEW s \in Nat, NEW r, NEW b, Settled(m, s, r, b)
    PROVE  /\ SyncDue(m, s + 1) => Open(m, s + 1, r, b)
           /\ ~SyncDue(m, s + 1) => Settled(m, s + 1, r, b)
           /\ At(r, b) # s + 1
<1>1. \A k \in 1 .. (s + 1) : k \in 1 .. s \/ k = s + 1
  OBVIOUS
<1>2. At(r, b) \in 0 .. s /\ At(r, b) \in 0 .. (s + 1)
  BY DEF Settled
<1>3. SyncDue(m, s + 1) => Open(m, s + 1, r, b)
  <2>1. (s + 1) - 1 = s /\ s + 1 \in Nat \ {0}
    OBVIOUS
  <2> QED
    BY <1>2, <2>1 DEF Settled, Open
<1> QED
  BY <1>1, <1>2, <1>3 DEF Settled, Reaches

LEMMA Loaded ==
    ASSUME NEW m, NEW a, NEW r, a.superbatch \in Nat, DecidedFor(m, a, r)
    PROVE  At(r, a.base) = a.superbatch /\ Settled(m, a.superbatch, r, a.base)
<1>1. a.base \in 1 .. Len(r) /\ r[a.base].superbatch = a.superbatch
  BY DEF DecidedFor
<1>2. a.base # 0 /\ a.base \in 0 .. Len(r)
  BY <1>1
<1>3. At(r, a.base) = a.superbatch
  BY <1>1, <1>2 DEF At
<1> QED
  BY <1>2, <1>3 DEF Settled, Reaches

-----------------------------------------------------------------------------
(* Every action preserves SInv. *)

\* One member at a time takes a step.
MemberOKAt(m) ==
    /\ Settled(m, superbatch[m], rounds, base[m]) \/ Open(m, superbatch[m], rounds, base[m])
    /\ pc[m] \in Waits => Open(m, superbatch[m], rounds, base[m])
                          /\ checkpoint[m].superbatch < superbatch[m]
    /\ pc[m] \notin Waits \cup {"failed"} => Settled(m, superbatch[m], rounds, base[m])
    /\ Settled(m, checkpoint[m].superbatch, rounds, checkpoint[m].base)
    /\ checkpoint[m].superbatch <= superbatch[m]

LEMMA OneMember ==
    ASSUME MembersOK, UNCHANGED rounds, NEW m \in Members, MemberOKAt(m)',
           \A n \in Members \ {m} :
               /\ pc'[n] = pc[n] /\ superbatch'[n] = superbatch[n]
               /\ base'[n] = base[n] /\ checkpoint'[n] = checkpoint[n]
    PROVE  MembersOK'
<1> SUFFICES ASSUME NEW n \in Members PROVE MemberOKAt(n)'
  BY DEF MembersOK, MemberOKAt
<1>1. CASE n = m
  BY <1>1
<1>2. CASE n # m
  <2>1. MemberOKAt(n)
    BY DEF MembersOK, MemberOKAt
  <2> QED
    BY <1>2, <2>1 DEF MemberOKAt
<1> QED
  BY <1>1, <1>2

LEMMA InitRounds == Init => SInv
<1> SUFFICES ASSUME Init PROVE SInv
  OBVIOUS
<1>1. rounds = <<>> /\ Len(<<>>) = 0 /\ At(rounds, 0) = 0
  BY DEF Init, At
<1>2. \A m : Settled(m, 0, rounds, 0)
  BY <1>1 DEF Settled, Reaches
<1>3. MembersOK
  BY <1>2 DEF Init, MembersOK, Waits, WorkerWaits, CoordWaits
<1> QED
  BY <1>3 DEF Init, SInv, RequestsOK, AnswersOK, RoundOK, Members

LEMMA StutterRounds == SInv /\ UNCHANGED vars => SInv'
BY DEF SInv, MembersOK, RequestsOK, AnswersOK, RoundOK, vars, training, network, result

LEMMA BootRounds ==
    ASSUME IInv, SInv, NEW m \in Members, Boot(m)
    PROVE  SInv'
<1>1. /\ pc[m] = "boot" /\ pc' = [pc EXCEPT ![m] = "train"]
      /\ UNCHANGED <<superbatch, updates, base, checkpoint, backlog, peers, reply, average, rounds>>
  BY DEF Boot, training, network, result
<1>2. pc \in [Members -> States]
  BY DEF IInv, TypeOK
<1>3. MembersOK'
  <2>1. MemberOKAt(m)'
    BY <1>1, <1>2 DEF SInv, MembersOK, MemberOKAt, Waits, WorkerWaits, CoordWaits
  <2> QED
    BY <1>1, <1>2, <2>1, OneMember DEF SInv
<1>4. pc'[Coord] = "reply" => pc[Coord] = "reply"
  BY <1>1, <1>2 DEF Members
<1> QED
  BY <1>1, <1>3, <1>4 DEF SInv, RequestsOK, AnswersOK, RoundOK

LEMMA FailRounds ==
    ASSUME IInv, SInv, NEW m \in Members, Fail(m)
    PROVE  SInv'
<1>1. /\ pc' = [pc EXCEPT ![m] = "failed"]
      /\ UNCHANGED <<superbatch, updates, base, checkpoint, rounds>>
      /\ backlog' \subseteq backlog /\ peers' \subseteq peers
      /\ m # Coord => average' = average
      /\ \A w \in Workers : reply'[w] = reply[w] \/ reply'[w] = None
  BY DEF Fail, training, IInv, TypeOK
<1>2. pc \in [Members -> States]
  BY DEF IInv, TypeOK
<1>3. MembersOK'
  <2>1. MemberOKAt(m)'
    BY <1>1, <1>2 DEF SInv, MembersOK, MemberOKAt, Waits, WorkerWaits, CoordWaits
  <2> QED
    BY <1>1, <1>2, <2>1, OneMember DEF SInv
<1>4. pc'[Coord] = "reply" => pc[Coord] = "reply" /\ m # Coord
  BY <1>1, <1>2 DEF Members
<1> QED
  BY <1>1, <1>3, <1>4 DEF SInv, RequestsOK, AnswersOK, RoundOK

LEMMA TrainRounds ==
    ASSUME IInv, SInv, NEW m \in Members, Train(m)
    PROVE  SInv'
<1> DEFINE s == superbatch[m] + 1
           u == updates[m] \cup {<<m, s>>}
<1>1. /\ pc[m] = "train" /\ superbatch[m] \in Nat /\ superbatch[m] < Final
      /\ superbatch' = [superbatch EXCEPT ![m] = s]
      /\ UNCHANGED <<base, backlog, peers, reply, average, rounds>>
      /\ s \in 1 .. Final /\ u \in SUBSET Steps
  BY FinalNat DEF Train, IInv, TypeOK, PcOK, network, result, Steps
<1>2. /\ pc \in [Members -> States] /\ superbatch \in [Members -> 0 .. Final] /\ TypeOK
      /\ base[m] \in Nat /\ checkpoint \in [Members -> Weights]
  BY DEF IInv, TypeOK
<1>3. MemberOKAt(m) /\ Settled(m, superbatch[m], rounds, base[m])
  BY <1>1 DEF SInv, MembersOK, MemberOKAt, Waits, WorkerWaits, CoordWaits
<1>4. /\ SyncDue(m, s) => Open(m, s, rounds, base[m])
      /\ ~SyncDue(m, s) => Settled(m, s, rounds, base[m])
  BY <1>1, <1>3, Advanced
<1>5. checkpoint[m].superbatch \in Nat /\ checkpoint[m].superbatch <= superbatch[m]
  BY <1>2, <1>3 DEF MemberOKAt, Weights
<1>6. CASE SyncDue(m, s)
  <2>1. /\ pc' = [pc EXCEPT ![m] = IF m = Coord THEN "accept" ELSE "connect"]
        /\ checkpoint' = checkpoint
    BY <1>6 DEF Train
  <2>2. MemberOKAt(m)'
    BY <1>1, <1>2, <1>3, <1>4, <1>5, <1>6, <2>1
       DEF MemberOKAt, Waits, WorkerWaits, CoordWaits
  <2>3. MembersOK'
    BY <1>1, <1>2, <2>1, <2>2, OneMember DEF SInv
  <2>4. pc'[Coord] = "reply" => pc[Coord] = "reply"
    BY <1>2, <2>1 DEF Members
  <2> QED
    BY <1>1, <2>3, <2>4 DEF SInv, RequestsOK, AnswersOK, RoundOK
<1>7. CASE ~SyncDue(m, s)
  <2>1. EndSuperbatch(m, s, u, base[m])
    BY <1>7 DEF Train
  <2> HIDE DEF s, u
  <2>2. /\ pc' = [pc EXCEPT ![m] = IF s = Final THEN "done" ELSE "train"]
        /\ \A n \in Members :
              \/ checkpoint'[n] = checkpoint[n]
              \/ /\ n = m /\ checkpoint'[n].superbatch = s /\ checkpoint'[n].base = base[m]
    BY <1>1, <1>2, <2>1, EndSuperbatchOK DEF EndSuperbatch
  <2>3. s \in Nat /\ superbatch[m] <= s /\ superbatch'[m] = s
    BY <1>1, <1>2 DEF s
  <2>4. pc'[m] \notin Waits
    BY <1>2, <2>2 DEF Waits, WorkerWaits, CoordWaits
  <2>5. MemberOKAt(m)'
    BY <1>1, <1>2, <1>3, <1>4, <1>5, <1>7, <2>2, <2>3, <2>4 DEF MemberOKAt
  <2>6. MembersOK'
    BY <1>1, <1>2, <2>2, <2>5, OneMember DEF SInv
  <2>7. pc'[Coord] = "reply" => pc[Coord] = "reply"
    BY <1>2, <2>2 DEF Members
  <2> QED
    BY <1>1, <2>6, <2>7 DEF SInv, RequestsOK, AnswersOK, RoundOK
<1> QED
  BY <1>6, <1>7

LEMMA RestartRounds ==
    ASSUME IInv, SInv, NEW m \in Members, Restart(m)
    PROVE  SInv'
<1>1. /\ pc' = [pc EXCEPT ![m] = IF checkpoint[m].superbatch = Final THEN "done" ELSE "boot"]
      /\ superbatch' = [superbatch EXCEPT ![m] = checkpoint[m].superbatch]
      /\ base' = [base EXCEPT ![m] = checkpoint[m].base]
      /\ UNCHANGED <<checkpoint, backlog, peers, reply, average, rounds>>
  BY DEF Restart, network, result
<1>2. /\ pc \in [Members -> States] /\ superbatch \in [Members -> 0 .. Final]
      /\ base \in [Members -> Nat] /\ checkpoint \in [Members -> Weights]
  BY DEF IInv, TypeOK
<1>3. MembersOK'
  <2>1. MemberOKAt(m)'
    BY <1>1, <1>2 DEF SInv, MembersOK, MemberOKAt, Waits, WorkerWaits, CoordWaits, Weights
  <2> QED
    BY <1>1, <1>2, <2>1, OneMember DEF SInv
<1>4. pc'[Coord] = "reply" => pc[Coord] = "reply"
  BY <1>1, <1>2 DEF Members
<1> QED
  BY <1>1, <1>3, <1>4 DEF SInv, RequestsOK, AnswersOK, RoundOK

LEMMA ConnectRounds ==
    ASSUME IInv, SInv, NEW w \in Workers, Connect(w)
    PROVE  SInv'
<1> DEFINE c == [from |-> w, inc |-> inc[w], superbatch |-> superbatch[w],
                 updates |-> updates[w], base |-> base[w]]
<1>1. /\ pc[w] = "connect" /\ w \in Members /\ w # Coord
      /\ backlog' = backlog \cup {c}
      /\ pc' = [pc EXCEPT ![w] = "send"]
      /\ UNCHANGED <<superbatch, base, checkpoint, inc, peers, reply, average, rounds>>
  BY DistSyncAssumption DEF Connect, Members, training, result
<1>2. pc \in [Members -> States] /\ pc'[Coord] = pc[Coord]
  BY <1>1 DEF IInv, TypeOK, Members
<1>3. Open(c.from, c.superbatch, rounds, c.base)
  BY <1>1 DEF SInv, MembersOK, Waits, WorkerWaits
<1> HIDE DEF c
<1>4. MembersOK'
  <2>1. MemberOKAt(w)'
    BY <1>1, <1>2 DEF SInv, MembersOK, MemberOKAt, Waits, WorkerWaits, CoordWaits
  <2> QED
    BY <1>1, <1>2, <2>1, OneMember DEF SInv
<1> QED
  BY <1>1, <1>2, <1>3, <1>4 DEF SInv, RequestsOK, AnswersOK, RoundOK

LEMMA SendRequestRounds ==
    ASSUME IInv, SInv, NEW w \in Workers, SendRequest(w)
    PROVE  SInv'
<1>1. /\ pc[w] = "send" /\ w \in Members /\ w # Coord
      /\ pc' = [pc EXCEPT ![w] = "await"]
      /\ UNCHANGED <<superbatch, base, checkpoint, backlog, peers, reply, average, rounds>>
  BY DistSyncAssumption DEF SendRequest, Members, training, network, result
<1>2. pc \in [Members -> States] /\ pc'[Coord] = pc[Coord]
  BY <1>1 DEF IInv, TypeOK, Members
<1>3. MembersOK'
  <2>1. MemberOKAt(w)'
    BY <1>1, <1>2 DEF SInv, MembersOK, MemberOKAt, Waits, WorkerWaits, CoordWaits
  <2> QED
    BY <1>1, <1>2, <2>1, OneMember DEF SInv
<1> QED
  BY <1>1, <1>2, <1>3 DEF SInv, RequestsOK, AnswersOK, RoundOK

LEMMA LoadAverageRounds ==
    ASSUME IInv, SInv, NEW m \in Members, NEW a \in Weights, pc[m] \in Waits,
           a.superbatch = superbatch[m], DecidedFor(m, a, rounds),
           LoadAverage(m, a), UNCHANGED rounds
    PROVE  /\ MembersOK' /\ pc'[m] \in {"train", "done"}
           /\ (pc'[m] = "done") <=> (superbatch[m] = Final)
           /\ \A n \in Members \ {m} : pc'[n] = pc[n] /\ checkpoint'[n] = checkpoint[n]
           /\ checkpoint'[m] = checkpoint[m]
              \/ /\ checkpoint'[m].superbatch = superbatch[m]
                 /\ checkpoint'[m].updates = a.updates /\ checkpoint'[m].base = a.base
<1> DEFINE s == superbatch[m]
<1>1. /\ s \in 1 .. Final /\ a.updates \in SUBSET Steps /\ a.base \in Nat
      /\ base' = [base EXCEPT ![m] = a.base]
      /\ UNCHANGED <<superbatch, inc>>
      /\ EndSuperbatch(m, s, a.updates, a.base)
  BY FinalNat DEF LoadAverage, IInv, TypeOK, PcOK, Weights
<1>2. /\ pc \in [Members -> States] /\ TypeOK
      /\ base \in [Members -> Nat] /\ checkpoint \in [Members -> Weights]
  BY DEF IInv, TypeOK
<1>3. Settled(m, s, rounds, a.base)
  BY <1>1, Loaded
<1>4. checkpoint[m].superbatch < s /\ Settled(m, checkpoint[m].superbatch, rounds, checkpoint[m].base)
  BY DEF SInv, MembersOK
<1> HIDE DEF s
<1>5. /\ pc' = [pc EXCEPT ![m] = IF s = Final THEN "done" ELSE "train"]
      /\ \A n \in Members :
            \/ checkpoint'[n] = checkpoint[n]
            \/ /\ n = m /\ checkpoint'[n].superbatch = s
               /\ checkpoint'[n].updates = a.updates /\ checkpoint'[n].base = a.base
  BY <1>1, <1>2, EndSuperbatchOK DEF EndSuperbatch
<1>6. MemberOKAt(m)'
  <2>1. base'[m] = a.base /\ superbatch'[m] = s /\ pc'[m] \in {"train", "done"}
    BY <1>1, <1>2, <1>5 DEF s
  <2>2. checkpoint[m].superbatch \in Nat /\ s \in Nat
    BY <1>1, <1>2 DEF Weights
  <2> QED
    BY <1>3, <1>4, <1>5, <2>1, <2>2 DEF MemberOKAt, Waits, WorkerWaits, CoordWaits
<1>7. MembersOK'
  BY <1>1, <1>2, <1>5, <1>6, OneMember DEF SInv
<1> QED
  BY <1>2, <1>5, <1>7 DEF s

LEMMA ReceiveAverageRounds ==
    ASSUME IInv, SInv, NEW w \in Workers, ReceiveAverage(w)
    PROVE  SInv'
<1>1. /\ w \in Members /\ w # Coord /\ pc[w] = "await" /\ pc[w] \in Waits /\ reply[w] # None
      /\ reply[w] \in Weights
  BY DistSyncAssumption DEF ReceiveAverage, IInv, TypeOK, Members, Waits, WorkerWaits
<1>2. CASE /\ reply[w].superbatch = superbatch[w]
           /\ reply' = [reply EXCEPT ![w] = None]
           /\ LoadAverage(w, reply[w])
           /\ UNCHANGED <<backlog, peers, result>>
  <2>1. DecidedFor(w, reply[w], rounds)
    BY <1>1 DEF SInv, AnswersOK
  <2>2. MembersOK' /\ pc'[Coord] = pc[Coord]
    BY <1>1, <1>2, <2>1, LoadAverageRounds DEF result, LoadAverage, EndSuperbatch, Members
  <2>3. \A v \in Workers : reply'[v] = reply[v] \/ reply'[v] = None
    BY <1>2 DEF IInv, TypeOK
  <2> QED
    BY <1>2, <2>2, <2>3 DEF SInv, RequestsOK, AnswersOK, RoundOK, result
<1>3. CASE Fail(w)
  BY <1>1, <1>3, FailRounds DEF Fail
<1> QED
  BY <1>2, <1>3 DEF ReceiveAverage

LEMMA AcceptRequestRounds ==
    ASSUME IInv, SInv, NEW c \in backlog, AcceptRequest(c)
    PROVE  SInv'
<1>1. /\ backlog' = backlog \ {c} /\ peers' = peers \cup {c} /\ pc[Coord] = "accept"
      /\ UNCHANGED <<pc, superbatch, base, checkpoint, reply, average, rounds>>
  BY DEF AcceptRequest, Accepting, training, result
<1> QED
  BY <1>1 DEF SInv, MembersOK, RequestsOK, AnswersOK, RoundOK

LEMMA AverageRounds ==
    ASSUME IInv, SInv, Average
    PROVE  SInv'
<1> DEFINE W == {c.from : c \in peers}
           a == [superbatch |-> superbatch[Coord],
                 updates |-> updates[Coord] \cup UNION {c.updates : c \in peers},
                 base |-> Len(rounds) + 1]
           r == [superbatch |-> superbatch[Coord], members |-> {Coord} \cup W]
           S == [superbatch : 1 .. Final, members : SUBSET Members]
<1>1. /\ pc[Coord] = "accept" /\ Coord \in Members
      /\ rounds' = Append(rounds, r) /\ average' = a
      /\ pc' = [pc EXCEPT ![Coord] = "reply"]
      /\ UNCHANGED <<superbatch, base, checkpoint, backlog, peers, reply>>
  BY DEF Average, Members, training, network
<1>2. /\ a.superbatch = r.superbatch /\ a.base = Len(rounds) + 1
      /\ r.members = {Coord} \cup W
  OBVIOUS
<1>3. r \in S /\ rounds \in Seq(S)
  <2>1. superbatch[Coord] \in 1 .. Final
    BY <1>1, FinalNat DEF IInv, TypeOK, PcOK, Waits, CoordWaits
  <2>2. W \subseteq Workers
    BY DEF IInv, TypeOK, Connections
  <2> QED
    BY <2>1, <2>2 DEF IInv, TypeOK, Members
<1> HIDE DEF a, r, S
<1>4. /\ Len(rounds) \in Nat /\ Len(rounds') = Len(rounds) + 1 /\ rounds'[Len(rounds) + 1] = r
      /\ \A m, s, b : Settled(m, s, rounds, b) => Settled(m, s, rounds', b)
      /\ \A m, s, b : Open(m, s, rounds, b) => Open(m, s, rounds', b)
      /\ \A m, x : DecidedFor(m, x, rounds) => DecidedFor(m, x, rounds')
  BY <1>1, <1>3, Grown
<1>5. \A m \in {Coord} \cup W : DecidedFor(m, average', rounds')
  BY <1>1, <1>2, <1>4 DEF DecidedFor
<1>6. RoundOK'
  BY <1>1, <1>5 DEF RoundOK
<1>7. MembersOK'
  <2>1. \A m \in Members : (pc'[m] \in Waits) <=> (pc[m] \in Waits)
    BY <1>1 DEF IInv, TypeOK, Waits, CoordWaits
  <2>2. \A m \in Members : (pc'[m] = "failed") <=> (pc[m] = "failed")
    BY <1>1 DEF IInv, TypeOK
  <2> QED
    BY <1>1, <1>4, <2>1, <2>2 DEF SInv, MembersOK
<1>8. RequestsOK' /\ AnswersOK'
  BY <1>1, <1>4 DEF SInv, RequestsOK, AnswersOK
<1> QED
  BY <1>6, <1>7, <1>8 DEF SInv

LEMMA WriteReplyRounds ==
    ASSUME IInv, SInv, NEW c \in peers, WriteReply(c)
    PROVE  SInv'
<1>1. pc[Coord] = "reply" /\ DecidedFor(c.from, average, rounds)
  BY DEF WriteReply, SInv, RoundOK
<1>2. CASE Fail(Coord)
  BY <1>2, FailRounds DEF Fail, Members
<1>3. CASE /\ reply' = [reply EXCEPT ![c.from] = average] \/ UNCHANGED reply
           /\ peers' = peers \ {c}
           /\ UNCHANGED <<pc, training, checkpoint, inc, backlog, result>>
  BY <1>1, <1>3 DEF SInv, MembersOK, RequestsOK, AnswersOK, RoundOK, training, result, IInv, TypeOK
<1> QED
  BY <1>2, <1>3 DEF WriteReply

LEMMA FinishRoundRounds ==
    ASSUME IInv, SInv, FinishRound
    PROVE  SInv'
<1>1. /\ pc[Coord] = "reply" /\ pc[Coord] \in Waits /\ Coord \in Members
      /\ LoadAverage(Coord, average)
      /\ peers' = peers /\ backlog' \subseteq backlog
      /\ UNCHANGED <<reply, rounds>>
      /\ average \in Weights /\ average.superbatch = superbatch[Coord]
      /\ DecidedFor(Coord, average, rounds)
  BY DEF FinishRound, IInv, AverageOK, TypeOK, SInv, RoundOK, Members, Waits, CoordWaits
<1>2. MembersOK' /\ pc'[Coord] # "reply"
  BY <1>1, LoadAverageRounds DEF LoadAverage, EndSuperbatch
<1> QED
  BY <1>1, <1>2 DEF SInv, RequestsOK, AnswersOK, RoundOK

LEMMA NextRounds ==
    ASSUME IInv, SInv, [Next]_vars
    PROVE  SInv'
<1>1. ASSUME NEW m \in Members, Boot(m) \/ Train(m) PROVE SInv'
  BY <1>1, BootRounds, TrainRounds
<1>2. ASSUME NEW m \in Members, Crash(m) \/ Timeout(m) \/ Restart(m) PROVE SInv'
  BY <1>2, FailRounds, RestartRounds DEF Crash, Timeout
<1>3. ASSUME NEW w \in Workers, WorkerStep(w) PROVE SInv'
  <2>1. CASE LoseConnection(w)
    BY <2>1, FailRounds DEF LoseConnection, Members
  <2> QED
    BY <1>3, <2>1, ConnectRounds, SendRequestRounds, ReceiveAverageRounds DEF WorkerStep
<1>4. CASE CoordStep
  <2>1. ASSUME NEW c \in backlog, RejectRequest(c) PROVE SInv'
    BY <2>1, FailRounds DEF RejectRequest, Members
  <2> QED
    BY <1>4, <2>1, AcceptRequestRounds, AverageRounds, WriteReplyRounds, FinishRoundRounds
       DEF CoordStep
<1>5. CASE UNCHANGED vars
  BY <1>5, StutterRounds
<1> QED
  BY <1>1, <1>2, <1>3, <1>4, <1>5 DEF Next, Terminated

-----------------------------------------------------------------------------
(* Connections. *)

\* A coordinator that does not listen has none.
Listens == pc[Coord] \in {"boot"} \cup Ended => backlog = {} /\ peers = {}

\* One that the present process of its worker opened is of its present round, and not
\* answered; it is accepted when the request is written.
Opened ==
    \A c \in backlog \cup peers :
        /\ c.inc <= inc[c.from]
        /\ c.inc = inc[c.from] => pc[c.from] \in {"send", "await", "failed"} /\ reply[c.from] = None
        /\ Live(c) => c.superbatch = superbatch[c.from]
        /\ c \in peers /\ Live(c) => pc[c.from] = "await"

\* A process opens one at a time, and they are accepted in their order.
Single ==
    /\ backlog \cap peers = {}
    /\ \A c, d \in backlog \cup peers : c.from = d.from /\ c.inc = d.inc => c = d
    /\ \A c \in peers, d \in backlog : c.from = d.from => c.inc < d.inc

\* An answer is that to the round its worker waits in.
Matching ==
    \A w \in Workers : reply[w] # None => pc[w] = "await" /\ reply[w].superbatch = superbatch[w]

ConnInv == Listens /\ Opened /\ Single /\ Matching

\* What the types say of a connection.
LEMMA ConnectionFacts ==
    ASSUME TypeOK
    PROVE  /\ pc \in [Members -> States] /\ superbatch \in [Members -> 0 .. Final]
           /\ inc \in [Members -> 0 .. MaxRestarts] /\ MaxRestarts \in Nat
           /\ reply \in [Workers -> Weights \cup {None}]
           /\ \A c \in backlog \cup peers :
                 c.from \in Workers /\ c.from \in Members /\ c.from # Coord /\ c.inc \in 0 .. MaxRestarts
           /\ Coord \in Members
BY DistSyncAssumption DEF TypeOK, Connections, Members

LEMMA InitConnections == Init => ConnInv
BY DEF Init, ConnInv, Listens, Opened, Single, Matching

LEMMA StutterConnections == ConnInv /\ UNCHANGED vars => ConnInv'
BY DEF ConnInv, Listens, Opened, Single, Matching, Live, vars, training, network, result

\* A step of a member that has neither a connection of its own nor an answer.
LEMMA AsideConnections ==
    ASSUME IInv, ConnInv, NEW m \in Members, pc[m] \in {"boot", "train"},
           \A n \in Members \ {m} : pc'[n] = pc[n] /\ superbatch'[n] = superbatch[n],
           pc'[m] \in {"train"} \cup Waits \/ (pc'[m] = "done" /\ m # Coord),
           UNCHANGED <<inc, backlog, peers, reply>>
    PROVE  ConnInv'
<1> USE ConnectionFacts DEF IInv
<1>1. Listens'
  BY DEF ConnInv, Listens, Ended, Waits, WorkerWaits, CoordWaits
<1>2. \A c \in backlog \cup peers : c.from = m => c.inc # inc[m]
  BY DEF ConnInv, Opened
<1>3. Opened'
  BY <1>2 DEF ConnInv, Opened, Live
<1>4. Single'
  BY DEF ConnInv, Single
<1>5. Matching'
  BY DEF ConnInv, Matching, Members
<1> QED
  BY <1>1, <1>3, <1>4, <1>5 DEF ConnInv

LEMMA BootConnections == ASSUME IInv, ConnInv, NEW m \in Members, Boot(m) PROVE ConnInv'
<1>1. /\ pc[m] = "boot" /\ pc' = [pc EXCEPT ![m] = "train"]
      /\ UNCHANGED <<superbatch, inc, backlog, peers, reply>>
  BY DEF Boot, training, network
<1> QED
  BY <1>1, AsideConnections, ConnectionFacts DEF IInv

LEMMA TrainConnections == ASSUME IInv, ConnInv, NEW m \in Members, Train(m) PROVE ConnInv'
<1> DEFINE s == superbatch[m] + 1
<1>1. /\ pc[m] = "train" /\ superbatch' = [superbatch EXCEPT ![m] = s]
      /\ UNCHANGED <<inc, backlog, peers, reply>>
      /\ \/ pc' = [pc EXCEPT ![m] = IF m = Coord THEN "accept" ELSE "connect"]
         \/ /\ ~SyncDue(m, s)
            /\ pc' = [pc EXCEPT ![m] = IF s = Final THEN "done" ELSE "train"]
  BY DEF Train, EndSuperbatch, network
<1>2. SyncDue(m, Final)
  BY DEF SyncDue
<1> HIDE DEF s
<1> QED
  BY <1>1, <1>2, AsideConnections, ConnectionFacts DEF IInv, Waits, WorkerWaits, CoordWaits

LEMMA FailConnections == ASSUME IInv, ConnInv, NEW m \in Members, Fail(m) PROVE ConnInv'
<1> USE ConnectionFacts DEF IInv
<1>1. pc' = [pc EXCEPT ![m] = "failed"] /\ UNCHANGED <<superbatch, inc>>
  BY DEF Fail, training
<1>2. CASE m = Coord
  <2>1. backlog' = {} /\ peers' = {} /\ reply' = reply
    BY <1>2, DistSyncAssumption DEF Fail
  <2> QED
    BY <1>1, <1>2, <2>1, DistSyncAssumption DEF ConnInv, Listens, Opened, Single, Matching, Members
<1>3. CASE m # Coord
  <2>1. m \in Workers /\ backlog' = backlog /\ peers' = peers /\ reply' = [reply EXCEPT ![m] = None]
    BY <1>3 DEF Fail, Members
  <2>2. Listens'
    BY <1>1, <1>3, <2>1 DEF ConnInv, Listens
  <2>3. Opened'
    BY <1>1, <2>1 DEF ConnInv, Opened, Live
  <2>4. Single' /\ Matching'
    BY <1>1, <2>1 DEF ConnInv, Single, Matching, Members
  <2> QED
    BY <2>2, <2>3, <2>4 DEF ConnInv
<1> QED
  BY <1>2, <1>3

LEMMA RestartConnections == ASSUME IInv, ConnInv, NEW m \in Members, Restart(m) PROVE ConnInv'
<1> USE ConnectionFacts DEF IInv
<1>1. /\ pc[m] = "failed" /\ inc' = [inc EXCEPT ![m] = @ + 1]
      /\ pc' = [pc EXCEPT ![m] = IF checkpoint[m].superbatch = Final THEN "done" ELSE "boot"]
      /\ superbatch' = [superbatch EXCEPT ![m] = checkpoint[m].superbatch]
      /\ UNCHANGED <<backlog, peers, reply>>
  BY DEF Restart, network
<1>2. Listens'
  BY <1>1 DEF ConnInv, Listens, Ended
<1>3. \A c \in backlog \cup peers : c.from = m => c.inc < inc'[m]
  BY <1>1 DEF ConnInv, Opened
<1>4. Opened'
  BY <1>1, <1>3 DEF ConnInv, Opened, Live
<1>5. Single'
  BY <1>1 DEF ConnInv, Single
<1>6. Matching'
  BY <1>1 DEF ConnInv, Matching, Members
<1> QED
  BY <1>2, <1>4, <1>5, <1>6 DEF ConnInv

LEMMA ConnectConnections == ASSUME IInv, ConnInv, NEW w \in Workers, Connect(w) PROVE ConnInv'
<1> DEFINE c == [from |-> w, inc |-> inc[w], superbatch |-> superbatch[w],
                 updates |-> updates[w], base |-> base[w]]
<1> USE ConnectionFacts DEF IInv
<1>1. /\ pc[w] = "connect" /\ Listening /\ w \in Members /\ w # Coord
      /\ backlog' = backlog \cup {c} /\ pc' = [pc EXCEPT ![w] = "send"]
      /\ UNCHANGED <<superbatch, inc, peers, reply>>
  BY DistSyncAssumption DEF Connect, Members, training
<1>2. c.from = w /\ c.inc = inc[w] /\ c.superbatch = superbatch[w]
  OBVIOUS
<1> HIDE DEF c
<1>3. \A d \in backlog \cup peers : d.from = w => d.inc < inc[w]
  BY <1>1 DEF ConnInv, Opened
<1>4. reply[w] = None
  BY <1>1 DEF ConnInv, Matching
<1>5. Listens'
  BY <1>1 DEF Listening, Listens
<1>6. Opened'
  <2> SUFFICES ASSUME NEW d \in backlog' \cup peers'
               PROVE  /\ d.inc <= inc[d.from]
                      /\ d.inc = inc[d.from] => pc'[d.from] \in {"send", "await", "failed"} /\ reply[d.from] = None
                      /\ Live(d)' => d.superbatch = superbatch[d.from]
                      /\ d \in peers /\ Live(d)' => pc'[d.from] = "await"
    BY <1>1 DEF Opened
  <2>1. CASE d = c /\ d \notin peers
    BY <1>1, <1>2, <1>4, <2>1
  <2>2. CASE d \in backlog \cup peers
    <3>1. CASE d.from = w
      BY <1>1, <1>3, <2>2, <3>1 DEF Live
    <3>2. CASE d.from # w
      BY <1>1, <2>2, <3>2 DEF Live, ConnInv, Opened
    <3> QED
      BY <3>1, <3>2
  <2> QED
    BY <1>1, <2>1, <2>2
<1>7. Single'
  <2>1. c \notin peers
    BY <1>2, <1>3
  <2>2. backlog' \cap peers' = {}
    BY <1>1, <2>1 DEF ConnInv, Single
  <2>3. \A d, e \in backlog' \cup peers' : d.from = e.from /\ d.inc = e.inc => d = e
    BY <1>1, <1>2, <1>3 DEF ConnInv, Single
  <2>4. \A d \in peers', e \in backlog' : d.from = e.from => d.inc < e.inc
    BY <1>1, <1>2, <1>3 DEF ConnInv, Single
  <2> QED
    BY <2>2, <2>3, <2>4 DEF Single
<1>8. Matching'
  BY <1>1, <1>4 DEF ConnInv, Matching, Members
<1> QED
  BY <1>5, <1>6, <1>7, <1>8 DEF ConnInv

LEMMA SendRequestConnections ==
    ASSUME IInv, ConnInv, NEW w \in Workers, SendRequest(w)
    PROVE  ConnInv'
<1> USE ConnectionFacts DEF IInv
<1>1. /\ pc[w] = "send" /\ w \in Members /\ w # Coord /\ pc' = [pc EXCEPT ![w] = "await"]
      /\ UNCHANGED <<superbatch, inc, backlog, peers, reply>>
  BY DistSyncAssumption DEF SendRequest, Members, training, network
<1>2. Listens' /\ Single' /\ Matching'
  BY <1>1 DEF ConnInv, Listens, Single, Matching, Members
<1>3. Opened'
  BY <1>1 DEF ConnInv, Opened, Live
<1> QED
  BY <1>2, <1>3 DEF ConnInv

LEMMA ReceiveAverageConnections ==
    ASSUME IInv, SInv, ConnInv, NEW w \in Workers, ReceiveAverage(w)
    PROVE  ConnInv'
<1> USE ConnectionFacts DEF IInv
<1>1. /\ w \in Members /\ w # Coord /\ pc[w] = "await" /\ pc[w] \in Waits /\ reply[w] # None
      /\ reply[w] \in Weights
  BY DistSyncAssumption DEF ReceiveAverage, Members, Waits, WorkerWaits
<1>2. CASE /\ reply[w].superbatch = superbatch[w]
           /\ reply' = [reply EXCEPT ![w] = None]
           /\ LoadAverage(w, reply[w])
           /\ UNCHANGED <<backlog, peers, result>>
  <2>1. DecidedFor(w, reply[w], rounds)
    BY <1>1 DEF SInv, AnswersOK
  <2>2. /\ \A n \in Members \ {w} : pc'[n] = pc[n]
        /\ UNCHANGED <<superbatch, inc>>
    BY <1>1, <1>2, <2>1, LoadAverageRounds DEF result, LoadAverage, EndSuperbatch
  <2>3. Listens' /\ Single'
    BY <1>1, <1>2, <2>2 DEF ConnInv, Listens, Single
  <2>4. \A c \in backlog \cup peers : c.from = w => c.inc # inc[w]
    BY <1>1 DEF ConnInv, Opened
  <2>5. Opened'
    BY <1>2, <2>2, <2>4 DEF ConnInv, Opened, Live
  <2>6. Matching'
    BY <1>1, <1>2, <2>2 DEF ConnInv, Matching, Members
  <2> QED
    BY <2>3, <2>5, <2>6 DEF ConnInv
<1>3. CASE Fail(w)
  BY <1>1, <1>3, FailConnections DEF Fail
<1> QED
  BY <1>2, <1>3 DEF ReceiveAverage

LEMMA AcceptRequestConnections ==
    ASSUME IInv, ConnInv, NEW c \in backlog, AcceptRequest(c)
    PROVE  ConnInv'
<1> USE ConnectionFacts DEF IInv
<1>1. /\ backlog' = backlog \ {c} /\ peers' = peers \cup {c} /\ pc[Coord] = "accept"
      /\ Oldest(c) /\ Readable(c)
      /\ UNCHANGED <<pc, superbatch, inc, reply>>
  BY DEF AcceptRequest, Accepting, training
<1>2. Listens' /\ Matching'
  BY <1>1 DEF ConnInv, Listens, Matching, Ended
<1>3. Opened'
  BY <1>1 DEF ConnInv, Opened, Live, Readable
<1>4. \A d \in backlog \ {c} : d.from = c.from => c.inc < d.inc
  BY <1>1 DEF Oldest, ConnInv, Single
<1>5. Single'
  BY <1>1, <1>4 DEF ConnInv, Single
<1> QED
  BY <1>2, <1>3, <1>5 DEF ConnInv

LEMMA AverageConnections == ASSUME IInv, ConnInv, Average PROVE ConnInv'
<1> USE ConnectionFacts DEF IInv
<1>1. /\ pc[Coord] = "accept" /\ pc' = [pc EXCEPT ![Coord] = "reply"]
      /\ UNCHANGED <<superbatch, inc, backlog, peers, reply>>
  BY DEF Average, training, network
<1>2. Listens' /\ Single'
  BY <1>1 DEF ConnInv, Listens, Single, Ended
<1>3. Opened'
  BY <1>1 DEF ConnInv, Opened, Live
<1>4. Matching'
  BY <1>1, DistSyncAssumption DEF ConnInv, Matching, Members
<1> QED
  BY <1>2, <1>3, <1>4 DEF ConnInv

LEMMA WriteReplyConnections ==
    ASSUME IInv, ConnInv, NEW c \in peers, WriteReply(c)
    PROVE  ConnInv'
<1> USE ConnectionFacts DEF IInv
<1>1. CASE Fail(Coord)
  BY <1>1, FailConnections
<1>2. CASE /\ ~Live(c) /\ peers' = peers \ {c}
           /\ UNCHANGED <<pc, superbatch, inc, backlog, reply>>
  BY <1>2 DEF ConnInv, Listens, Opened, Single, Matching, Live
<1>3. CASE /\ Live(c) /\ reply' = [reply EXCEPT ![c.from] = average] /\ peers' = peers \ {c}
           /\ UNCHANGED <<pc, superbatch, inc, backlog>>
  <2>1. /\ average.superbatch = superbatch[c.from] /\ pc[c.from] = "await" /\ c.inc = inc[c.from]
    BY <1>3 DEF WriteReply, AverageOK, PeersOK, ConnInv, Opened, Live
  <2>2. Listens' /\ Single'
    BY <1>3 DEF ConnInv, Listens, Single
  <2>3. \A d \in backlog' \cup peers' : d.from = c.from => d.inc # inc[d.from]
    BY <1>3, <2>1 DEF ConnInv, Single
  <2>4. Opened'
    BY <1>3, <2>3 DEF ConnInv, Opened, Live
  <2>5. Matching'
    BY <1>3, <2>1 DEF ConnInv, Matching
  <2> QED
    BY <2>2, <2>4, <2>5 DEF ConnInv
<1> QED
  BY <1>1, <1>2, <1>3 DEF WriteReply, training

LEMMA FinishRoundConnections ==
    ASSUME IInv, SInv, ConnInv, FinishRound
    PROVE  ConnInv'
<1> USE ConnectionFacts DEF IInv
<1>1. /\ pc[Coord] = "reply" /\ pc[Coord] \in Waits /\ peers = {} /\ peers' = {}
      /\ LoadAverage(Coord, average) /\ UNCHANGED <<superbatch, inc, reply, rounds>>
      /\ backlog' = IF superbatch[Coord] = Final THEN {} ELSE backlog
      /\ average \in Weights /\ average.superbatch = superbatch[Coord]
      /\ DecidedFor(Coord, average, rounds)
  BY DEF FinishRound, LoadAverage, AverageOK, TypeOK, SInv, RoundOK, Waits, CoordWaits
<1>2. /\ pc'[Coord] \in {"train", "done"}
      /\ (pc'[Coord] = "done") <=> (superbatch[Coord] = Final)
      /\ \A n \in Members \ {Coord} : pc'[n] = pc[n]
  BY <1>1, LoadAverageRounds DEF LoadAverage, EndSuperbatch
<1>3. Listens'
  BY <1>1, <1>2 DEF Listens, Ended
<1>4. Opened' /\ Single'
  BY <1>1, <1>2 DEF ConnInv, Opened, Single, Live
<1>5. Matching'
  BY <1>1, <1>2, DistSyncAssumption DEF ConnInv, Matching, Members
<1> QED
  BY <1>3, <1>4, <1>5 DEF ConnInv

LEMMA NextConnections ==
    ASSUME IInv, SInv, ConnInv, [Next]_vars
    PROVE  ConnInv'
<1>1. ASSUME NEW m \in Members, Boot(m) \/ Train(m) PROVE ConnInv'
  BY <1>1, BootConnections, TrainConnections
<1>2. ASSUME NEW m \in Members, Crash(m) \/ Timeout(m) \/ Restart(m) PROVE ConnInv'
  BY <1>2, FailConnections, RestartConnections DEF Crash, Timeout
<1>3. ASSUME NEW w \in Workers, WorkerStep(w) PROVE ConnInv'
  <2>1. CASE LoseConnection(w)
    BY <2>1, FailConnections DEF LoseConnection, Members
  <2> QED
    BY <1>3, <2>1, ConnectConnections, SendRequestConnections, ReceiveAverageConnections
       DEF WorkerStep
<1>4. CASE CoordStep
  <2>1. ASSUME NEW c \in backlog, RejectRequest(c) PROVE ConnInv'
    BY <2>1, FailConnections DEF RejectRequest, Members
  <2> QED
    BY <1>4, <2>1, AcceptRequestConnections, AverageConnections, WriteReplyConnections,
       FinishRoundConnections DEF CoordStep
<1>5. CASE UNCHANGED vars
  BY <1>5, StutterConnections
<1> QED
  BY <1>1, <1>2, <1>3, <1>4, <1>5 DEF Next, Terminated

-----------------------------------------------------------------------------
(* DistSync implements LocalSGD. *)

LEMMA InitImplements == Init => Abstract!Init
BY DEF Init, Abstract!Init

\* What trains past a sync point is of the round decided there.
LEMMA SettledIsOn ==
    ASSUME NEW m, NEW s \in Nat, s > 0, NEW b, SyncDue(m, s), Settled(m, s, rounds, b),
           rounds \in Seq([superbatch : 1 .. Final, members : SUBSET Members])
    PROVE  Abstract!On(b, s)
<1>1. s <= At(rounds, b) /\ At(rounds, b) \in 0 .. s /\ b \in 0 .. Len(rounds)
  BY DEF Settled, Reaches
<1>2. b # 0 /\ rounds[b].superbatch = s
  BY <1>1 DEF At
<1>3. b \in DOMAIN rounds
  BY <1>1, <1>2, LenProperties
<1> QED
  BY <1>2, <1>3 DEF Abstract!On

LEMMA TrainImplements ==
    ASSUME IInv, SInv, NEW m \in Members, Train(m)
    PROVE  Abstract!Train(m)
<1>1. /\ pc[m] = "train" /\ superbatch[m] \in Nat /\ superbatch[m] < Final
      /\ superbatch' = [superbatch EXCEPT ![m] = @ + 1]
      /\ UNCHANGED <<base, rounds>>
  BY FinalNat DEF Train, IInv, TypeOK, PcOK, result
<1>2. Settled(m, superbatch[m], rounds, base[m])
  BY <1>1 DEF SInv, MembersOK, Waits, WorkerWaits, CoordWaits
<1>3. superbatch[m] > 0 /\ SyncDue(m, superbatch[m]) => Abstract!On(base[m], superbatch[m])
  BY <1>1, <1>2, SettledIsOn DEF IInv, TypeOK
<1> QED
  BY <1>1, <1>3 DEF Abstract!Train

LEMMA AdoptImplements ==
    ASSUME IInv, NEW m \in Members, NEW a, a.superbatch = superbatch[m], DecidedFor(m, a, rounds),
           LoadAverage(m, a), UNCHANGED rounds
    PROVE  Abstract!Adopt(m)
<1>1. base' = [base EXCEPT ![m] = a.base] /\ superbatch' = superbatch
  BY DEF LoadAverage
<1>2. a.base \in DOMAIN rounds
  BY LenProperties DEF DecidedFor, IInv, TypeOK
<1> QED
  BY <1>1, <1>2 DEF Abstract!Adopt, DecidedFor

LEMMA RestartImplements ==
    ASSUME IInv, SInv, NEW m \in Members, Restart(m)
    PROVE  Abstract!FallBack(m)
<1> DEFINE s == checkpoint[m].superbatch
           b == checkpoint[m].base
<1>1. /\ superbatch' = [superbatch EXCEPT ![m] = s] /\ base' = [base EXCEPT ![m] = b]
      /\ UNCHANGED rounds
  BY DEF Restart, result
<1>2. s \in Nat /\ superbatch[m] \in Nat /\ s <= superbatch[m] /\ Settled(m, s, rounds, b)
  BY DEF IInv, TypeOK, Weights, SInv, MembersOK
<1> HIDE DEF s, b
<1>3. s \in 0 .. superbatch[m] /\ b \in {0} \cup DOMAIN rounds
  BY <1>2, LenProperties DEF Settled, IInv, TypeOK
<1>4. s > 0 /\ SyncDue(m, s) => Abstract!On(b, s)
  BY <1>2, SettledIsOn DEF IInv, TypeOK
<1> QED
  BY <1>1, <1>3, <1>4 DEF Abstract!FallBack

LEMMA AverageImplements ==
    ASSUME IInv, Average
    PROVE  Abstract!Decide
<1> DEFINE W == {c.from : c \in peers}
<1>1. /\ pc[Coord] = "accept" /\ Coord \in Members
      /\ rounds' = Append(rounds, [superbatch |-> superbatch[Coord], members |-> {Coord} \cup W])
      /\ UNCHANGED <<superbatch, base>>
  BY DEF Average, Members, training
<1>2. superbatch[Coord] \in 1 .. Final
  BY <1>1, FinalNat DEF IInv, TypeOK, PcOK, Waits, CoordWaits
<1>3. W \in Fleets
  BY PeersFleet DEF Average, IInv
<1>4. W \cup {Coord} \in {V \cup {Coord} : V \in Fleets} /\ {Coord} \cup W = W \cup {Coord}
  BY <1>3
<1> HIDE DEF W
<1> QED
  BY <1>1, <1>2, <1>4 DEF Abstract!Decide

\* Every step is one of LocalSGD or changes nothing there.
LEMMA NextImplements ==
    ASSUME IInv, SInv, [Next]_vars
    PROVE  [Abstract!Next]_(Abstract!vars)
<1> USE DEF Abstract!vars
<1>1. ASSUME NEW m \in Members, Fail(m) PROVE UNCHANGED Abstract!vars
  BY <1>1 DEF Fail, training
<1>2. ASSUME NEW m \in Members, Boot(m) \/ Train(m) PROVE [Abstract!Next]_(Abstract!vars)
  BY <1>2, TrainImplements DEF Boot, training, result, Abstract!Next
<1>3. ASSUME NEW m \in Members, Crash(m) \/ Timeout(m) \/ Restart(m)
      PROVE  [Abstract!Next]_(Abstract!vars)
  BY <1>1, <1>3, RestartImplements DEF Crash, Timeout, Abstract!Next
<1>4. ASSUME NEW w \in Workers, WorkerStep(w) PROVE [Abstract!Next]_(Abstract!vars)
  <2>1. w \in Members
    BY DEF Members
  <2>2. CASE Connect(w) \/ SendRequest(w)
    BY <2>2 DEF Connect, SendRequest, training, result
  <2>3. CASE Fail(w)
    BY <1>1, <2>1, <2>3
  <2>4. CASE /\ ReceiveAverage(w) /\ reply[w].superbatch = superbatch[w]
             /\ LoadAverage(w, reply[w]) /\ UNCHANGED result
    <3>1. DecidedFor(w, reply[w], rounds) /\ UNCHANGED rounds
      BY <2>4 DEF ReceiveAverage, SInv, AnswersOK, result
    <3>2. Abstract!Adopt(w)
      BY <2>1, <2>4, <3>1, AdoptImplements DEF LoadAverage, EndSuperbatch
    <3> QED
      BY <2>1, <3>2 DEF Abstract!Next
  <2> QED
    BY <1>4, <2>2, <2>3, <2>4 DEF WorkerStep, LoseConnection, ReceiveAverage
<1>5. CASE CoordStep
  <2>1. Coord \in Members
    BY DEF Members
  <2>2. ASSUME NEW c \in backlog, AcceptRequest(c) PROVE UNCHANGED Abstract!vars
    BY <2>2 DEF AcceptRequest, training, result
  <2>3. ASSUME NEW c \in backlog, RejectRequest(c) PROVE UNCHANGED Abstract!vars
    BY <1>1, <2>1, <2>3 DEF RejectRequest
  <2>4. CASE Average
    BY <2>4, AverageImplements DEF Abstract!Next
  <2>5. ASSUME NEW c \in peers, WriteReply(c) PROVE UNCHANGED Abstract!vars
    BY <1>1, <2>1, <2>5 DEF WriteReply, training, result
  <2>6. CASE FinishRound
    <3>1. /\ LoadAverage(Coord, average) /\ UNCHANGED rounds
          /\ average.superbatch = superbatch[Coord] /\ DecidedFor(Coord, average, rounds)
      BY <2>6 DEF FinishRound, IInv, AverageOK, SInv, RoundOK
    <3>2. Abstract!Adopt(Coord)
      BY <2>1, <3>1, AdoptImplements DEF LoadAverage, EndSuperbatch
    <3> QED
      BY <2>1, <3>2 DEF Abstract!Next
  <2> QED
    BY <1>5, <2>2, <2>3, <2>4, <2>5, <2>6 DEF CoordStep
<1>6. CASE UNCHANGED vars
  BY <1>6 DEF vars, training, result
<1> QED
  BY <1>2, <1>3, <1>4, <1>5, <1>6 DEF Next, Terminated

-----------------------------------------------------------------------------
(* What holds for every number of seats in a round. *)

\* The rounds of the weights, requests and answers, and whom the connections speak for.
THEOREM RoundsInvariant == Spec => [](IInv /\ SInv /\ ConnInv)
<1>1. Init => IInv /\ SInv /\ ConnInv
  BY InitOK, InitRounds, InitConnections
<1>2. IInv /\ SInv /\ ConnInv /\ [Next]_vars => (IInv /\ SInv /\ ConnInv)'
  BY NextOK, NextRounds, NextConnections
<1> QED
  BY <1>1, <1>2, PTL DEF Spec

\* Implements: averaging over connections that break, time out and outlive their process
\* (mod.rs, coordinator.rs, worker.rs) only makes the steps of LocalSGD, where a round is
\* one atomic decision and nobody trains past a sync point but on a round decided there.
THEOREM Refinement == Spec => Implements
<1>1. Init => Abstract!Init
  BY InitImplements
<1>2. IInv /\ SInv /\ ConnInv /\ [Next]_vars => [Abstract!Next]_(Abstract!vars)
  BY NextImplements
<1> QED
  BY <1>1, <1>2, RoundsInvariant, PTL DEF Spec, Implements, Abstract!Spec

\* RepliesMatch: whatever died and was started again, the coordinator only ever answers a
\* worker in the round it waits for, with its own training in the average, so the check of
\* the answer (worker.rs:27) cannot fire.
THEOREM AnswersFindTheirRound == Spec => []RepliesMatch
<1>1. IInv /\ SInv /\ ConnInv => RepliesMatch
  <2> SUFFICES ASSUME IInv, ConnInv, NEW w \in Workers, reply[w] # None
               PROVE  /\ pc[w] = "await" /\ reply[w].superbatch = superbatch[w]
                      /\ <<w, superbatch[w]>> \in reply[w].updates
    BY DEF RepliesMatch
  <2>1. pc[w] = "await" /\ reply[w].superbatch = superbatch[w]
    BY DEF ConnInv, Matching
  <2>2. superbatch[w] \in Nat /\ superbatch[w] >= 1
    BY <2>1 DEF IInv, TypeOK, PcOK, Waits, WorkerWaits, Members
  <2>3. OwnSteps(w, superbatch[w], reply[w].updates)
    BY <2>1 DEF IInv, ReplyOK
  <2> QED
    BY <2>1, <2>2, <2>3 DEF OwnSteps
<1> QED
  BY <1>1, RoundsInvariant, PTL

-----------------------------------------------------------------------------
(* Where the coordinator waits for all workers. *)

AllWorkersCount == NumPeers = Cardinality(Workers)

\* A round is at a sync point of everybody.
Shared == \A r \in 1 .. Len(rounds) : \A m \in Members : SyncDue(m, rounds[r].superbatch)

\* The coordinator is past the round of superbatch s.
Past(s) == superbatch[Coord] > s \/ (superbatch[Coord] = s /\ pc[Coord] \in {"reply", "train"})

\* The worker of request c has not passed the superbatch of c since, even if the process
\* that sent it is gone.
Behind(c) ==
    /\ At(rounds, base[c.from]) < c.superbatch
    /\ At(rounds, checkpoint[c.from].base) < c.superbatch
    /\ reply[c.from] # None => At(rounds, reply[c.from].base) < c.superbatch
    /\ \A d \in backlog \cup peers :
          d.from = c.from /\ d.inc > c.inc => At(rounds, d.base) < c.superbatch

\* It passes it only with the coordinator.
Together == \A c \in backlog \cup peers : Behind(c) \/ Past(c.superbatch)

\* The rounds somebody trains on, may fall back to or is being sent.
InUse ==
    {base[m] : m \in Members} \cup {checkpoint[m].base : m \in Members}
    \cup {reply[w].base : w \in {v \in Workers : reply[v] # None}}
    \cup (IF pc[Coord] = "reply" THEN {average.base} ELSE {})
    \cup {c.base : c \in backlog \cup peers}

\* Of a superbatch there is one.
Unique == \A a, b \in InUse : At(rounds, a) = At(rounds, b) => a = b

\* Weights as they came out of round b: nothing has been trained on them yet.
Fresh(b, u) ==
    \/ \E m \in Members : b = base[m] /\ u = updates[m] /\ b # 0 /\ superbatch[m] = At(rounds, b)
    \/ \E m \in Members : /\ b = checkpoint[m].base /\ u = checkpoint[m].updates
                          /\ b # 0 /\ checkpoint[m].superbatch = At(rounds, b)
    \/ \E w \in Workers : reply[w] # None /\ b = reply[w].base /\ u = reply[w].updates
    \/ pc[Coord] = "reply" /\ b = average.base /\ u = average.updates

\* They are the same for everybody.
Same == \A b, u, v : Fresh(b, u) /\ Fresh(b, v) => u = v

UInv == Shared /\ Together /\ Unique /\ Same

\* What is in use is a round there is.
LEMMA InUseKnown == ASSUME SInv PROVE \A b \in InUse : b \in 0 .. Len(rounds)
BY DEF SInv, MembersOK, RequestsOK, AnswersOK, RoundOK, InUse, Settled, Open, DecidedFor

LEMMA FreshInUse == ASSUME NEW b, NEW u, Fresh(b, u) PROVE b \in InUse
BY DEF Fresh, InUse

\* A step that decides no round and brings nothing new into use.
LEMMA NothingNew ==
    ASSUME UInv, UNCHANGED rounds, InUse' \subseteq InUse,
           \A b, u : Fresh(b, u)' => Fresh(b, u),
           Together'
    PROVE  UInv'
BY DEF UInv, Shared, Unique, Same

LEMMA InitUnique == Init => UInv
<1> SUFFICES ASSUME Init PROVE UInv
  OBVIOUS
<1>1. Shared /\ Together
  BY DEF Init, Shared, Together
<1>2. InUse \subseteq {0}
  BY DEF Init, InUse, Members
<1>3. Unique
  BY <1>2 DEF Unique
<1>4. \A b, u : ~Fresh(b, u)
  BY DEF Init, Fresh, Members
<1>5. Same
  BY <1>4 DEF Same
<1> QED
  BY <1>1, <1>3, <1>5 DEF UInv

LEMMA StutterUnique == UInv /\ UNCHANGED vars => UInv'
BY DEF UInv, Shared, Together, Past, Behind, Unique, InUse, Same, Fresh, vars, training,
       network, result

\* Steps after which nobody trains on a round but one of its own or one it is sent.
LEMMA StillTogether ==
    ASSUME TypeOK, Together, UNCHANGED rounds, (backlog \cup peers)' \subseteq backlog \cup peers,
           \A w \in Workers :
               /\ reply'[w] \in {reply[w], None}
               /\ base'[w] \in {base[w], checkpoint[w].base} \/ (reply[w] # None /\ base'[w] = reply[w].base)
               /\ checkpoint'[w].base \in {base[w], checkpoint[w].base}
                  \/ (reply[w] # None /\ checkpoint'[w].base = reply[w].base),
           \A c \in (backlog \cup peers)' : Past(c.superbatch) => Past(c.superbatch)'
    PROVE  Together'
<1> SUFFICES ASSUME NEW c \in (backlog \cup peers)', ~Past(c.superbatch)' PROVE Behind(c)'
  BY DEF Together
<1>1. c \in backlog \cup peers /\ c.from \in Workers
  BY ConnectionFacts
<1>2. Behind(c)
  BY <1>1 DEF Together
<1> QED
  BY <1>1, <1>2 DEF Behind

LEMMA BootUnique == ASSUME IInv, SInv, ConnInv, UInv, NEW m \in Members, Boot(m) PROVE UInv'
<1> USE ConnectionFacts DEF IInv
<1>1. /\ pc[m] = "boot" /\ pc' = [pc EXCEPT ![m] = "train"]
      /\ UNCHANGED <<superbatch, updates, base, checkpoint, backlog, peers, reply, average, rounds>>
  BY DEF Boot, training, network, result
<1>2. \A s : Past(s) => Past(s)'
  BY <1>1 DEF Past
<1>3. Together'
  BY <1>1, <1>2, StillTogether DEF UInv
<1>4. pc'[Coord] = "reply" => pc[Coord] = "reply"
  BY <1>1
<1>5. InUse' \subseteq InUse
  BY <1>1, <1>4 DEF InUse
<1>6. \A b, u : Fresh(b, u)' => Fresh(b, u)
  BY <1>1, <1>4 DEF Fresh
<1> QED
  BY <1>1, <1>3, <1>5, <1>6, NothingNew

LEMMA FailUnique == ASSUME IInv, SInv, ConnInv, UInv, NEW m \in Members, Fail(m) PROVE UInv'
<1> USE ConnectionFacts DEF IInv
<1>1. /\ pc' = [pc EXCEPT ![m] = "failed"]
      /\ UNCHANGED <<superbatch, updates, base, checkpoint, rounds>>
      /\ backlog' \subseteq backlog /\ peers' \subseteq peers
      /\ m = Coord => backlog' = {} /\ peers' = {}
      /\ m # Coord => average' = average
      /\ \A w \in Workers : reply'[w] \in {reply[w], None}
  BY DEF Fail, training, TypeOK
<1>2. m # Coord => pc'[Coord] = pc[Coord]
  BY <1>1
<1>3. Together'
  BY <1>1, <1>2, StillTogether DEF UInv, Past
<1>4. pc'[Coord] = "reply" => pc[Coord] = "reply" /\ average' = average
  BY <1>1
<1>5. InUse' \subseteq InUse
  BY <1>1, <1>4 DEF InUse
<1>6. \A b, u : Fresh(b, u)' => Fresh(b, u)
  BY <1>1, <1>4 DEF Fresh
<1> QED
  BY <1>1, <1>3, <1>5, <1>6, NothingNew

LEMMA TrainUnique == ASSUME IInv, SInv, ConnInv, UInv, NEW m \in Members, Train(m) PROVE UInv'
<1> DEFINE s == superbatch[m] + 1
           u == updates[m] \cup {<<m, s>>}
<1> USE ConnectionFacts
<1>1. /\ pc[m] = "train" /\ superbatch[m] \in Nat /\ superbatch[m] < Final
      /\ superbatch' = [superbatch EXCEPT ![m] = s] /\ updates' = [updates EXCEPT ![m] = u]
      /\ UNCHANGED <<base, backlog, peers, reply, average, rounds>>
      /\ s \in 1 .. Final /\ u \in SUBSET Steps
  BY FinalNat DEF Train, IInv, TypeOK, PcOK, network, result, Steps
<1>2. /\ TypeOK /\ base[m] \in Nat /\ updates \in [Members -> SUBSET Steps]
  BY DEF IInv, TypeOK
<1>3. At(rounds, base[m]) # s /\ SyncDue(m, Final)
  BY <1>1, Advanced DEF SInv, MembersOK, Waits, WorkerWaits, CoordWaits, SyncDue
<1>4. /\ \/ pc' = [pc EXCEPT ![m] = IF m = Coord THEN "accept" ELSE "connect"]
         \/ /\ ~SyncDue(m, s)
            /\ pc' = [pc EXCEPT ![m] = IF s = Final THEN "done" ELSE "train"]
      /\ \A n \in Members :
            \/ checkpoint'[n] = checkpoint[n]
            \/ /\ n = m /\ checkpoint'[n].superbatch = s /\ checkpoint'[n].base = base[m]
  <2>1. CASE SyncDue(m, s) /\ UNCHANGED checkpoint
             /\ pc' = [pc EXCEPT ![m] = IF m = Coord THEN "accept" ELSE "connect"]
    BY <2>1
  <2>2. CASE ~SyncDue(m, s) /\ EndSuperbatch(m, s, u, base[m])
    <3> HIDE DEF s, u
    <3> QED
      BY <1>1, <1>2, <2>2, EndSuperbatchOK DEF EndSuperbatch
  <2> QED
    BY <2>1, <2>2 DEF Train
<1>5. /\ superbatch'[m] = s /\ superbatch[m] < s
      /\ \A n \in Members \ {m} : pc'[n] = pc[n] /\ superbatch'[n] = superbatch[n] /\ updates'[n] = updates[n]
      /\ pc'[Coord] = "reply" => pc[Coord] = "reply"
  BY <1>1, <1>2, <1>4
<1> HIDE DEF s, u
<1>6. \A x \in backlog \cup peers : Past(x.superbatch) => Past(x.superbatch)'
  <2>1. \A x \in backlog \cup peers : x.superbatch \in Nat
    BY <1>2 DEF TypeOK, Connections
  <2>2. superbatch[Coord] \in Nat
    BY FinalNat DEF IInv
  <2> QED
    BY <1>1, <1>2, <1>5, <2>1, <2>2, FinalNat DEF Past
<1>7. \A n \in Members : checkpoint'[n].base \in {base[n], checkpoint[n].base}
  BY <1>4
<1>8. Together'
  BY <1>1, <1>2, <1>6, <1>7, StillTogether DEF UInv, Members
<1>9. InUse' \subseteq InUse
  BY <1>1, <1>5, <1>7 DEF InUse
<1>10. \A b, v : Fresh(b, v)' => Fresh(b, v)
  <2> SUFFICES ASSUME NEW b, NEW v, Fresh(b, v)' PROVE Fresh(b, v)
    OBVIOUS
  <2>1. CASE \E n \in Members : /\ b = base'[n] /\ v = updates'[n] /\ b # 0
                                /\ superbatch'[n] = At(rounds', b)
    BY <1>1, <1>3, <1>5, <2>1 DEF Fresh
  <2>2. CASE \E n \in Members : /\ b = checkpoint'[n].base /\ v = checkpoint'[n].updates
                                /\ b # 0 /\ checkpoint'[n].superbatch = At(rounds', b)
    BY <1>1, <1>3, <1>4, <2>2 DEF Fresh
  <2> QED
    BY <1>1, <1>5, <2>1, <2>2 DEF Fresh
<1> QED
  BY <1>1, <1>8, <1>9, <1>10, NothingNew

LEMMA RestartUnique == ASSUME IInv, SInv, ConnInv, UInv, NEW m \in Members, Restart(m) PROVE UInv'
<1> USE ConnectionFacts DEF IInv
<1>1. /\ pc[m] = "failed"
      /\ pc' = [pc EXCEPT ![m] = IF checkpoint[m].superbatch = Final THEN "done" ELSE "boot"]
      /\ superbatch' = [superbatch EXCEPT ![m] = checkpoint[m].superbatch]
      /\ updates' = [updates EXCEPT ![m] = checkpoint[m].updates]
      /\ base' = [base EXCEPT ![m] = checkpoint[m].base]
      /\ UNCHANGED <<checkpoint, backlog, peers, reply, average, rounds>>
  BY DEF Restart, network, result
<1>2. base \in [Members -> Nat] /\ updates \in [Members -> SUBSET Steps]
  BY DEF TypeOK
<1>3. \A c \in backlog \cup peers : Past(c.superbatch) => Past(c.superbatch)'
  <2>1. m = Coord => backlog = {} /\ peers = {}
    BY <1>1 DEF ConnInv, Listens, Ended
  <2> QED
    BY <1>1, <2>1 DEF Past
<1>4. Together'
  BY <1>1, <1>2, <1>3, StillTogether DEF UInv, Members
<1>5. pc'[Coord] = "reply" => pc[Coord] = "reply"
  BY <1>1
<1>6. InUse' \subseteq InUse
  BY <1>1, <1>2, <1>5 DEF InUse
<1>7. \A b, u : Fresh(b, u)' => Fresh(b, u)
  BY <1>1, <1>2, <1>5 DEF Fresh
<1> QED
  BY <1>1, <1>4, <1>6, <1>7, NothingNew

LEMMA ConnectUnique ==
    ASSUME IInv, SInv, ConnInv, UInv, NEW w \in Workers, Connect(w)
    PROVE  UInv'
<1> DEFINE c == [from |-> w, inc |-> inc[w], superbatch |-> superbatch[w],
                 updates |-> updates[w], base |-> base[w]]
<1> USE ConnectionFacts DEF IInv
<1>1. /\ pc[w] = "connect" /\ w \in Members /\ w # Coord /\ pc[w] \in Waits
      /\ backlog' = backlog \cup {c} /\ pc' = [pc EXCEPT ![w] = "send"]
      /\ UNCHANGED <<superbatch, updates, base, checkpoint, inc, peers, reply, average, rounds>>
  BY DistSyncAssumption DEF Connect, Members, training, result, Waits, WorkerWaits
<1>2. c.from = w /\ c.inc = inc[w] /\ c.superbatch = superbatch[w] /\ c.base = base[w]
  OBVIOUS
<1> HIDE DEF c
<1>3. \A d \in backlog \cup peers : d.inc <= inc[d.from]
  BY DEF ConnInv, Opened
<1>4. reply[w] = None
  BY <1>1 DEF ConnInv, Matching
<1>5. /\ At(rounds, base[w]) < superbatch[w]
      /\ At(rounds, checkpoint[w].base) < superbatch[w]
  <2>1. /\ Open(w, superbatch[w], rounds, base[w])
        /\ Settled(w, checkpoint[w].superbatch, rounds, checkpoint[w].base)
        /\ checkpoint[w].superbatch < superbatch[w]
    BY <1>1 DEF SInv, MembersOK
  <2>2. checkpoint[w].superbatch \in Nat /\ superbatch[w] \in Nat
    BY <1>1, FinalNat DEF TypeOK, Weights
  <2> QED
    BY <2>1, <2>2 DEF Open, Settled
<1>6. pc'[Coord] = pc[Coord]
  BY <1>1
<1>7. Together'
  <2> SUFFICES ASSUME NEW e \in (backlog \cup peers)', ~Past(e.superbatch)' PROVE Behind(e)'
    BY DEF Together
  <2>1. CASE e = c
    <3>1. \A d \in (backlog \cup peers)' : d.from = w => ~(d.inc > inc[w])
      BY <1>1, <1>2, <1>3
    <3> QED
      BY <1>1, <1>2, <1>4, <1>5, <2>1, <3>1 DEF Behind
  <2>2. CASE e \in backlog \cup peers
    <3>1. Behind(e)
      BY <1>1, <1>6, <2>2 DEF UInv, Together, Past
    <3> QED
      BY <1>1, <1>2, <3>1 DEF Behind
  <2> QED
    BY <1>1, <2>1, <2>2
<1>8. InUse' \subseteq InUse
  BY <1>1, <1>2, <1>6 DEF InUse
<1>9. \A b, u : Fresh(b, u)' => Fresh(b, u)
  BY <1>1, <1>6 DEF Fresh
<1> QED
  BY <1>1, <1>7, <1>8, <1>9, NothingNew

LEMMA SendRequestUnique ==
    ASSUME IInv, SInv, ConnInv, UInv, NEW w \in Workers, SendRequest(w)
    PROVE  UInv'
<1> USE ConnectionFacts DEF IInv
<1>1. /\ pc'[Coord] = pc[Coord]
      /\ UNCHANGED <<superbatch, updates, base, checkpoint, backlog, peers, reply, average, rounds>>
  BY DistSyncAssumption DEF SendRequest, training, network, result
<1>2. Together'
  BY <1>1, StillTogether DEF UInv, Past
<1>3. InUse' \subseteq InUse
  BY <1>1 DEF InUse
<1>4. \A b, u : Fresh(b, u)' => Fresh(b, u)
  BY <1>1 DEF Fresh
<1> QED
  BY <1>1, <1>2, <1>3, <1>4, NothingNew

LEMMA ReceiveAverageUnique ==
    ASSUME IInv, SInv, ConnInv, UInv, NEW w \in Workers, ReceiveAverage(w)
    PROVE  UInv'
<1> USE ConnectionFacts DEF IInv
<1>1. /\ w \in Members /\ w # Coord /\ pc[w] = "await" /\ pc[w] \in Waits /\ reply[w] # None
      /\ reply[w] \in Weights
  BY DistSyncAssumption DEF ReceiveAverage, Members, Waits, WorkerWaits
<1>2. CASE /\ reply[w].superbatch = superbatch[w]
           /\ reply' = [reply EXCEPT ![w] = None]
           /\ LoadAverage(w, reply[w])
           /\ UNCHANGED <<backlog, peers, result>>
  <2> DEFINE a == reply[w]
  <2>1. DecidedFor(w, a, rounds)
    BY <1>1 DEF SInv, AnswersOK
  <2>2. /\ \A n \in Members \ {w} : pc'[n] = pc[n] /\ checkpoint'[n] = checkpoint[n]
        /\ checkpoint'[w] = checkpoint[w]
           \/ /\ checkpoint'[w].superbatch = superbatch[w]
              /\ checkpoint'[w].updates = a.updates /\ checkpoint'[w].base = a.base
        /\ base' = [base EXCEPT ![w] = a.base] /\ updates' = [updates EXCEPT ![w] = a.updates]
        /\ UNCHANGED <<superbatch, inc, average, rounds, backlog, peers>>
        /\ \A v \in Workers : reply'[v] \in {reply[v], None}
    BY <1>1, <1>2, <2>1, LoadAverageRounds DEF result, LoadAverage, EndSuperbatch
  <2>3. base \in [Members -> Nat] /\ updates \in [Members -> SUBSET Steps]
    BY DEF TypeOK
  <2>4. pc'[Coord] = pc[Coord] /\ Fresh(a.base, a.updates)
    BY <1>1, <2>2 DEF Fresh
  <2> HIDE DEF a
  <2>5. /\ \A n \in Members : base'[n] = base[n] \/ (n = w /\ base'[n] = a.base)
        /\ \A n \in Members : checkpoint'[n].base = checkpoint[n].base
                              \/ (n = w /\ checkpoint'[n].base = a.base)
    BY <1>1, <2>2, <2>3
  <2>6. Together'
    BY <1>1, <2>2, <2>4, <2>5, StillTogether DEF UInv, Members, a, Past
  <2>7. InUse' \subseteq InUse
    BY <1>1, <2>2, <2>4, <2>5 DEF InUse, a
  <2>8. \A b, u : Fresh(b, u)' => Fresh(b, u)
    <3> SUFFICES ASSUME NEW b, NEW u, Fresh(b, u)', ~(b = a.base /\ u = a.updates) PROVE Fresh(b, u)
      BY <2>4
    <3> QED
      BY <2>2, <2>3, <2>4 DEF Fresh
  <2> QED
    BY <2>2, <2>6, <2>7, <2>8, NothingNew
<1>3. CASE Fail(w)
  BY <1>1, <1>3, FailUnique DEF Fail
<1> QED
  BY <1>2, <1>3 DEF ReceiveAverage

LEMMA AcceptRequestUnique ==
    ASSUME IInv, SInv, ConnInv, UInv, NEW c \in backlog, AcceptRequest(c)
    PROVE  UInv'
<1>1. /\ backlog' = backlog \ {c} /\ peers' = peers \cup {c} /\ TypeOK
      /\ UNCHANGED <<pc, superbatch, updates, base, checkpoint, inc, reply, average, rounds>>
  BY DEF AcceptRequest, training, result, IInv
<1>2. (backlog \cup peers)' = backlog \cup peers
  BY <1>1
<1>3. Together'
  BY <1>1, <1>2, StillTogether DEF UInv, Past
<1>4. InUse' \subseteq InUse
  BY <1>1, <1>2 DEF InUse
<1>5. \A b, u : Fresh(b, u)' => Fresh(b, u)
  BY <1>1 DEF Fresh
<1> QED
  BY <1>1, <1>3, <1>4, <1>5, NothingNew

\* A full round has a request of every worker in it.
LEMMA AllAreIn ==
    ASSUME TypeOK, PeersOK, AllWorkersCount, Cardinality(peers) = NumPeers
    PROVE  \A w \in Workers : \E c \in peers : c.from = w
<1> DEFINE W == {c.from : c \in peers}
<1>1. W \in Fleets
  BY PeersFleet
<1>2. W \subseteq Workers /\ Cardinality(W) = Cardinality(Workers) /\ IsFiniteSet(Workers)
  BY <1>1, DistSyncAssumption DEF Fleets, AllWorkersCount
<1>3. W = Workers
  BY <1>2, FS_Subset
<1> QED
  BY <1>3

\* Where a round is decided nobody is on another of that superbatch: who was came back.
LEMMA NoOtherRound ==
    ASSUME IInv, SInv, ConnInv, UInv, AllWorkersCount, Average
    PROVE  /\ \A m \in Members : SyncDue(m, superbatch[Coord])
           /\ \A b \in InUse : At(rounds, b) # superbatch[Coord]
<1> DEFINE s == superbatch[Coord]
<1> USE ConnectionFacts DEF IInv
<1>1. pc[Coord] = "accept" /\ pc[Coord] \in Waits /\ s \in Nat /\ Cardinality(peers) = NumPeers
  BY FinalNat DEF Average, Waits, CoordWaits
<1>2. Open(Coord, s, rounds, base[Coord]) /\ checkpoint[Coord].superbatch < s
      /\ Settled(Coord, checkpoint[Coord].superbatch, rounds, checkpoint[Coord].base)
  BY <1>1 DEF SInv, MembersOK
<1>3. ASSUME NEW w \in Workers
      PROVE  /\ SyncDue(w, s)
             /\ At(rounds, base[w]) < s /\ At(rounds, checkpoint[w].base) < s
             /\ reply[w] # None => At(rounds, reply[w].base) < s
             /\ \A d \in backlog \cup peers : d.from = w => At(rounds, d.base) < s
  <2>1. PICK c \in peers : c.from = w
    BY <1>1, AllAreIn
  <2>2. c.superbatch = s /\ Open(w, s, rounds, c.base)
    BY <2>1 DEF PeersOK, SInv, RequestsOK
  <2>3. Behind(c)
    BY <1>1, <2>2 DEF UInv, Together, Past
  <2>4. ASSUME NEW d \in backlog \cup peers, d.from = w PROVE At(rounds, d.base) < s
    <3>1. CASE d = c
      BY <1>1, <2>2, <3>1 DEF Open
    <3>2. CASE d # c
      <4>1. d \notin peers
        BY <2>1, <2>4, <3>2 DEF PeersOK
      <4>2. d.inc > c.inc
        BY <2>1, <2>4, <4>1 DEF ConnInv, Single
      <4> QED
        BY <2>1, <2>2, <2>3, <2>4, <4>2 DEF Behind
    <3> QED
      BY <3>1, <3>2
  <2> QED
    BY <2>1, <2>2, <2>3, <2>4 DEF Behind, Open
<1>4. SyncDue(Coord, s) /\ At(rounds, base[Coord]) < s /\ At(rounds, checkpoint[Coord].base) < s
  <2>1. checkpoint[Coord].superbatch \in Nat
    BY DEF TypeOK, Weights
  <2> QED
    BY <1>1, <1>2, <2>1 DEF Open, Settled
<1> HIDE DEF s
<1>5. \A b \in InUse : At(rounds, b) < s
  BY <1>1, <1>3, <1>4 DEF InUse, Members
<1>6. \A b \in InUse : At(rounds, b) # s
  BY <1>1, <1>5
<1> QED
  BY <1>3, <1>4, <1>6 DEF Members, s

LEMMA AverageUnique ==
    ASSUME IInv, SInv, ConnInv, UInv, AllWorkersCount, Average
    PROVE  UInv'
<1> DEFINE W == {c.from : c \in peers}
           s == superbatch[Coord]
           a == [superbatch |-> s,
                 updates |-> updates[Coord] \cup UNION {c.updates : c \in peers},
                 base |-> Len(rounds) + 1]
           r == [superbatch |-> s, members |-> {Coord} \cup W]
           S == [superbatch : 1 .. Final, members : SUBSET Members]
           n == Len(rounds) + 1
<1>1. /\ pc[Coord] = "accept" /\ Coord \in Members
      /\ rounds' = Append(rounds, r) /\ average' = a
      /\ pc' = [pc EXCEPT ![Coord] = "reply"]
      /\ UNCHANGED <<superbatch, updates, base, checkpoint, inc, backlog, peers, reply>>
  BY DEF Average, Members, training, network
<1>2. a.base = n /\ r.superbatch = s
  OBVIOUS
<1>3. r \in S /\ rounds \in Seq(S) /\ s \in 1 .. Final
  <2>1. superbatch[Coord] \in 1 .. Final
    BY <1>1, FinalNat DEF IInv, TypeOK, PcOK, Waits, CoordWaits
  <2>2. W \subseteq Workers
    BY DEF IInv, TypeOK, Connections
  <2> QED
    BY <2>1, <2>2 DEF IInv, TypeOK, Members
<1> HIDE DEF a, r, S
<1>4. /\ Len(rounds) \in Nat /\ Len(rounds') = n /\ rounds'[n] = r /\ n # 0
      /\ \A b \in 0 .. Len(rounds) : At(rounds', b) = At(rounds, b)
      /\ \A b \in 1 .. Len(rounds) : rounds'[b] = rounds[b]
  BY <1>1, <1>3, Grown, AppendProperties
<1>5. At(rounds', n) = s
  BY <1>2, <1>4 DEF At
<1>6. /\ \A m \in Members : SyncDue(m, s)
      /\ \A b \in InUse : At(rounds', b) # s
  BY <1>4, NoOtherRound, InUseKnown
<1> HIDE DEF s, n
<1>7. Shared'
  <2> SUFFICES ASSUME NEW x \in 1 .. Len(rounds'), NEW m \in Members
               PROVE  SyncDue(m, rounds'[x].superbatch)
    BY DEF Shared
  <2>1. CASE x = n
    BY <1>2, <1>4, <1>6, <2>1
  <2>2. CASE x # n
    <3>1. x \in 1 .. Len(rounds)
      BY <1>4, <2>2 DEF n
    <3> QED
      BY <1>4, <3>1 DEF UInv, Shared
  <2> QED
    BY <2>1, <2>2
<1>8. InUse' \subseteq InUse \cup {n}
  BY <1>1, <1>2 DEF InUse
<1>9. Unique'
  <2>1. ASSUME NEW b \in InUse', NEW d \in InUse', At(rounds', b) = At(rounds', d) PROVE b = d
    <3>1. CASE b \in InUse /\ d \in InUse
      BY <1>4, <2>1, <3>1, InUseKnown DEF UInv, Unique
    <3>2. CASE b = n
      BY <1>5, <1>6, <1>8, <2>1, <3>2
    <3>3. CASE d = n
      BY <1>5, <1>6, <1>8, <2>1, <3>3
    <3> QED
      BY <1>8, <3>1, <3>2, <3>3
  <2> QED
    BY <2>1 DEF Unique
<1>10. Same'
  <2>1. ASSUME NEW b, NEW u, Fresh(b, u)' PROVE (b = n /\ u = a.updates) \/ Fresh(b, u)
    <3>1. \A x \in InUse : At(rounds', x) = At(rounds, x)
      BY <1>4, InUseKnown
    <3>2. \A m \in Members : base[m] \in InUse /\ checkpoint[m].base \in InUse
      BY DEF InUse
    <3> QED
      BY <1>1, <1>2, <2>1, <3>1, <3>2 DEF Fresh
  <2>2. \A b, u : Fresh(b, u) => b # n
    <3>1. n \notin 0 .. Len(rounds)
      BY <1>4 DEF n
    <3> QED
      BY <3>1, InUseKnown, FreshInUse
  <2> QED
    BY <2>1, <2>2 DEF UInv, Same
<1>11. Together'
  <2> SUFFICES ASSUME NEW c \in backlog \cup peers, ~Past(c.superbatch)' PROVE Behind(c)'
    BY <1>1 DEF Together
  <2>1. ~Past(c.superbatch)
    BY <1>1 DEF Past
  <2>2. Behind(c) /\ c.from \in Workers /\ c.from \in Members
    BY <2>1, ConnectionFacts DEF UInv, Together, IInv
  <2>3. \A b \in InUse : At(rounds', b) = At(rounds, b)
    BY <1>4, InUseKnown
  <2>4. /\ base[c.from] \in InUse /\ checkpoint[c.from].base \in InUse
        /\ reply[c.from] # None => reply[c.from].base \in InUse
        /\ \A d \in backlog \cup peers : d.base \in InUse
    BY <2>2 DEF InUse
  <2> QED
    BY <1>1, <2>2, <2>3, <2>4 DEF Behind
<1> QED
  BY <1>7, <1>9, <1>10, <1>11 DEF UInv

LEMMA WriteReplyUnique ==
    ASSUME IInv, SInv, ConnInv, UInv, NEW c \in peers, WriteReply(c)
    PROVE  UInv'
<1> USE ConnectionFacts DEF IInv
<1>1. CASE Fail(Coord)
  BY <1>1, FailUnique
<1>2. CASE /\ peers' = peers \ {c}
           /\ UNCHANGED <<pc, training, checkpoint, inc, backlog, reply, result>>
  <2>1. Together'
    BY <1>2, StillTogether DEF UInv, Past, training, result
  <2>2. InUse' \subseteq InUse /\ \A b, u : Fresh(b, u)' => Fresh(b, u)
    BY <1>2 DEF InUse, Fresh, training, result
  <2> QED
    BY <1>2, <2>1, <2>2, NothingNew DEF result
<1>3. CASE /\ reply' = [reply EXCEPT ![c.from] = average] /\ peers' = peers \ {c}
           /\ UNCHANGED <<pc, training, checkpoint, inc, backlog, result>>
  <2>1. /\ pc[Coord] = "reply" /\ average.superbatch = superbatch[Coord]
        /\ DecidedFor(Coord, average, rounds) /\ superbatch[Coord] \in Nat
    BY FinalNat DEF WriteReply, AverageOK, SInv, RoundOK
  <2>2. /\ \A w \in Workers : reply'[w] = reply[w] \/ reply'[w] = average
        /\ UNCHANGED <<pc, superbatch, updates, base, checkpoint, backlog, average, rounds>>
        /\ average.base \in InUse /\ Fresh(average.base, average.updates)
    BY <1>3, <2>1 DEF InUse, Fresh, training, result
  <2>3. InUse' \subseteq InUse
    BY <1>3, <2>2 DEF InUse
  <2>4. \A b, u : Fresh(b, u)' => Fresh(b, u)
    BY <2>2 DEF Fresh
  <2>5. At(rounds, average.base) = superbatch[Coord]
    BY <2>1, Loaded
  <2>6. Together'
    <3> SUFFICES ASSUME NEW e \in backlog \cup peers, ~Past(e.superbatch) PROVE Behind(e)'
      BY <1>3, <2>2 DEF Together, Past
    <3>1. Behind(e) /\ e.from \in Workers
      BY DEF UInv, Together
    <3>2. superbatch[Coord] < e.superbatch
      <4>1. e.superbatch \in Nat
        BY DEF TypeOK, Connections
      <4> QED
        BY <2>1, <4>1 DEF Past
    <3> QED
      BY <1>3, <2>2, <2>5, <3>1, <3>2 DEF Behind
  <2> QED
    BY <2>2, <2>3, <2>4, <2>6, NothingNew
<1> QED
  BY <1>1, <1>2, <1>3 DEF WriteReply

LEMMA FinishRoundUnique ==
    ASSUME IInv, SInv, ConnInv, UInv, FinishRound
    PROVE  UInv'
<1> USE ConnectionFacts DEF IInv
<1> DEFINE a == average
<1>1. /\ pc[Coord] = "reply" /\ pc[Coord] \in Waits /\ peers = {} /\ peers' = {}
      /\ LoadAverage(Coord, a) /\ UNCHANGED <<superbatch, inc, reply, rounds>>
      /\ backlog' = IF superbatch[Coord] = Final THEN {} ELSE backlog
      /\ a \in Weights /\ a.superbatch = superbatch[Coord]
      /\ DecidedFor(Coord, a, rounds)
      /\ base' = [base EXCEPT ![Coord] = a.base] /\ updates' = [updates EXCEPT ![Coord] = a.updates]
  BY DEF FinishRound, LoadAverage, AverageOK, TypeOK, SInv, RoundOK, Waits, CoordWaits
<1>2. a.base \in InUse /\ Fresh(a.base, a.updates)
  BY <1>1 DEF InUse, Fresh
<1> HIDE DEF a
<1>3. /\ pc'[Coord] \in {"train", "done"}
      /\ (pc'[Coord] = "done") <=> (superbatch[Coord] = Final)
      /\ \A n \in Members \ {Coord} : checkpoint'[n] = checkpoint[n]
      /\ checkpoint'[Coord] = checkpoint[Coord]
         \/ /\ checkpoint'[Coord].superbatch = superbatch[Coord]
            /\ checkpoint'[Coord].updates = a.updates /\ checkpoint'[Coord].base = a.base
  BY <1>1, LoadAverageRounds DEF LoadAverage, EndSuperbatch
<1>4. base \in [Members -> Nat] /\ updates \in [Members -> SUBSET Steps]
  BY DEF TypeOK
<1>5. \A w \in Workers : w \in Members \ {Coord} /\ base'[w] = base[w]
  BY <1>1, <1>4, DistSyncAssumption DEF Members
<1>6. Together'
  <2>1. \A c \in (backlog \cup peers)' : c \in backlog /\ pc'[Coord] = "train"
    BY <1>1, <1>3
  <2>2. \A c \in (backlog \cup peers)' : Past(c.superbatch) => Past(c.superbatch)'
    BY <1>1, <2>1 DEF Past
  <2> QED
    BY <1>1, <1>3, <1>5, <2>1, <2>2, StillTogether DEF UInv
<1>7. InUse' \subseteq InUse
  BY <1>1, <1>2, <1>3, <1>4 DEF InUse
<1>8. \A b, u : Fresh(b, u)' => Fresh(b, u)
  <2> SUFFICES ASSUME NEW b, NEW u, Fresh(b, u)', ~(b = a.base /\ u = a.updates) PROVE Fresh(b, u)
    BY <1>2
  <2>1. pc'[Coord] # "reply"
    BY <1>3
  <2> QED
    BY <1>1, <1>3, <1>4, <2>1 DEF Fresh
<1> QED
  BY <1>1, <1>6, <1>7, <1>8, NothingNew

LEMMA NextUnique ==
    ASSUME IInv, SInv, ConnInv, UInv, AllWorkersCount, [Next]_vars
    PROVE  UInv'
<1>1. ASSUME NEW m \in Members, Boot(m) \/ Train(m) PROVE UInv'
  BY <1>1, BootUnique, TrainUnique
<1>2. ASSUME NEW m \in Members, Crash(m) \/ Timeout(m) \/ Restart(m) PROVE UInv'
  BY <1>2, FailUnique, RestartUnique DEF Crash, Timeout
<1>3. ASSUME NEW w \in Workers, WorkerStep(w) PROVE UInv'
  <2>1. CASE LoseConnection(w)
    BY <2>1, FailUnique DEF LoseConnection, Members
  <2> QED
    BY <1>3, <2>1, ConnectUnique, SendRequestUnique, ReceiveAverageUnique DEF WorkerStep
<1>4. CASE CoordStep
  <2>1. ASSUME NEW c \in backlog, RejectRequest(c) PROVE UInv'
    BY <2>1, FailUnique DEF RejectRequest, Members
  <2> QED
    BY <1>4, <2>1, AcceptRequestUnique, AverageUnique, WriteReplyUnique, FinishRoundUnique
       DEF CoordStep
<1>5. CASE UNCHANGED vars
  BY <1>5, StutterUnique
<1> QED
  BY <1>1, <1>2, <1>3, <1>4, <1>5 DEF Next, Terminated

-----------------------------------------------------------------------------
(* What holds where all workers count. *)

\* A superbatch has one round that anybody trains on, may fall back to or is being sent,
\* and what came out of it is the same wherever it is: a worker whose connection is still
\* queued cannot have passed that superbatch unless the coordinator has (coordinator.rs:7-47).
THEOREM OneRoundInUse == ASSUME AllWorkersCount PROVE Spec => []UInv
<1>1. Init => UInv
  BY InitUnique
<1>2. IInv /\ SInv /\ ConnInv /\ UInv /\ [Next]_vars => UInv'
  BY NextUnique
<1> QED
  BY <1>1, <1>2, RoundsInvariant, PTL DEF Spec

\* PeersShareBase: a coordinator that waits for all workers only averages weights that
\* descend from the average it trained on itself, for every cadence and save rate: a member
\* that fell back behind a round, or a request of a dead process, is never averaged in.
THEOREM PeersDescendFromOneAverage == ASSUME AllWorkersCount PROVE Spec => []PeersShareBase
<1>1. IInv /\ SInv /\ ConnInv /\ UInv => PeersShareBase
  <2> SUFFICES ASSUME IInv, SInv, UInv, NEW c \in peers, pc[Coord] = "accept"
               PROVE  c.base = base[Coord]
    BY DEF PeersShareBase
  <2> DEFINE s == superbatch[Coord]
             x == At(rounds, c.base)
             y == At(rounds, base[Coord])
  <2>1. /\ c.superbatch = s /\ c.from \in Members /\ Coord \in Members
        /\ Open(c.from, s, rounds, c.base) /\ Open(Coord, s, rounds, base[Coord])
    BY ConnectionFacts DEF IInv, PeersOK, SInv, RequestsOK, MembersOK, Waits, CoordWaits
  <2>2. c.base \in InUse /\ base[Coord] \in InUse
    BY <2>1 DEF InUse
  <2>3. /\ x \in 0 .. (s - 1) /\ y \in 0 .. (s - 1) /\ s \in Nat \ {0}
        /\ c.base \in 0 .. Len(rounds) /\ base[Coord] \in 0 .. Len(rounds)
    BY <2>1 DEF Open
  <2>4. x # 0 => SyncDue(Coord, x)
    <3>1. x # 0 => c.base \in 1 .. Len(rounds) /\ x = rounds[c.base].superbatch
      BY <2>3 DEF At
    <3> QED
      BY <2>1, <3>1 DEF UInv, Shared
  <2>5. y # 0 => SyncDue(c.from, y)
    <3>1. y # 0 => base[Coord] \in 1 .. Len(rounds) /\ y = rounds[base[Coord]].superbatch
      BY <2>3 DEF At
    <3> QED
      BY <2>1, <3>1 DEF UInv, Shared
  <2>6. x # 0 => x <= y
    BY <2>1, <2>3, <2>4 DEF Open, Reaches
  <2>7. y # 0 => y <= x
    BY <2>1, <2>3, <2>5 DEF Open, Reaches
  <2>8. x = y
    <3> HIDE DEF x, y, s
    <3> QED
      BY <2>3, <2>6, <2>7
  <2> QED
    BY <2>2, <2>8 DEF UInv, Unique
<1> QED
  BY <1>1, OneRoundInUse, RoundsInvariant, PTL

\* FinalModelsAgree: the members that complete the training end with the same model
\* (distributed_smoke.py:332), whoever crashed, timed out or trained the end twice.
THEOREM FinalModelsAreOne == ASSUME AllWorkersCount PROVE Spec => []FinalModelsAgree
<1>1. IInv /\ SInv /\ ConnInv /\ UInv => FinalModelsAgree
  <2> SUFFICES ASSUME IInv, SInv, UInv, NEW m \in Members, NEW n \in Members,
                      pc[m] = "done", pc[n] = "done"
               PROVE  updates[m] = updates[n] /\ base[m] = base[n]
    BY DEF FinalModelsAgree
  <2>1. ASSUME NEW k \in Members, pc[k] = "done"
        PROVE  /\ base[k] \in InUse /\ At(rounds, base[k]) = Final
               /\ Fresh(base[k], updates[k])
    <3>1. superbatch[k] = Final /\ Settled(k, Final, rounds, base[k])
      BY <2>1 DEF IInv, PcOK, SInv, MembersOK, Waits, WorkerWaits, CoordWaits
    <3>2. Final \in 1 .. Final /\ SyncDue(k, Final)
      BY FinalNat DEF SyncDue
    <3>3. At(rounds, base[k]) = Final
      BY <3>1, <3>2, FinalNat DEF Settled, Reaches
    <3>4. base[k] # 0
      BY <3>3, FinalNat DEF At
    <3> QED
      BY <3>1, <3>3, <3>4 DEF InUse, Fresh
  <2>2. base[m] = base[n]
    BY <2>1 DEF UInv, Unique
  <2> QED
    BY <2>1, <2>2 DEF UInv, Same
<1> QED
  BY <1>1, OneRoundInUse, RoundsInvariant, PTL

=============================================================================
