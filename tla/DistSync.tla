------------------------------ MODULE DistSync ------------------------------
(***************************************************************************)
(* Periodic weight averaging ("local SGD") between one coordinator and a   *)
(* group of workers: tools/bullet/spike_trainer/src/distributed.           *)
(*                                                                         *)
(* Every member trains superbatches on its own shard.  At a sync point the *)
(* worker opens a TCP connection, sends one request with its weights and   *)
(* waits for the average; the coordinator accepts connections until it has *)
(* NumPeers valid requests, averages them with its own weights, writes the *)
(* result to every stream and goes on training.  Any error, on either      *)
(* side, panics the whole process, which is later run again from its own   *)
(* newest checkpoint.                                                      *)
(*                                                                         *)
(* Weights are abstracted to where they come from: `updates' is the set of *)
(* pairs <<m, s>> such that member m's training of superbatch s has gone   *)
(* into them, and `base' is the index in `rounds' of the last average      *)
(* loaded, 0 for the initial weights.  A connection keeps the incarnation  *)
(* of the process that opened it, so that what a dead process left in the  *)
(* coordinator's accept queue can be told from what its successor sends.   *)
(***************************************************************************)
EXTENDS Naturals, Sequences, FiniteSets

CONSTANTS
    Coord,        \* the member with Role::Coordinator
    Workers,      \* the members with Role::Worker
    NumPeers,     \* workers the coordinator waits for in a round
    Final,        \* final_superbatch, the length of the training
    SyncEvery,    \* sync_every_superbatches, configured on each member
    SaveEvery,    \* save_rate of the training schedule
    RunId,        \* the run id each member is configured with
    NodeId,       \* the worker identity sent on the wire
    Faults,       \* which of "crash" and "timeout" can happen, when any can
    MaxRestarts,  \* bound on the restarts of each member
    None          \* no reply

Members == {Coord} \cup Workers

ASSUME DistSyncAssumption ==
    /\ Coord \notin Workers
    /\ IsFiniteSet(Workers)
    /\ {NumPeers, Final, SaveEvery} \subseteq Nat \ {0}
    /\ SyncEvery \in [Members -> Nat \ {0}]
    /\ DOMAIN RunId = Members
    /\ DOMAIN NodeId = Workers
    /\ Faults \subseteq {"crash", "timeout"}
    /\ MaxRestarts \in Nat
    /\ None \notin [superbatch : Nat, updates : SUBSET (Members \X Nat), base : Nat]

VARIABLES
    pc,           \* where each member's process is
    superbatch,   \* superbatches each member has trained
    updates,      \* training steps in each member's weights
    base,         \* last average each member loaded
    checkpoint,   \* newest checkpoint on each member's disk
    inc,          \* incarnation of each member's process
    backlog,      \* connections the listener has queued
    peers,        \* streams the coordinator has accepted in this round
    average,      \* the average being written to the peers
    rounds,       \* the averages computed so far: superbatch and members of each
    reply,        \* response waiting in each worker's socket
    faults        \* the faults of this behaviour: those of Faults, or none

training == <<superbatch, updates, base>>
network == <<backlog, peers, reply>>
result == <<average, rounds>>
vars == <<pc, training, checkpoint, inc, network, result, faults>>

-----------------------------------------------------------------------------
(* Data. *)

Steps == Members \X (1 .. Final)
Weights == [superbatch : 0 .. Final, updates : SUBSET Steps, base : Nat]
Connections == [from : Workers, inc : 0 .. MaxRestarts, superbatch : 1 .. Final,
                updates : SUBSET Steps, base : Nat]

WorkerWaits == {"connect", "send", "await"}
CoordWaits == {"accept", "reply"}
Waits == WorkerWaits \cup CoordWaits
Ended == {"done", "failed"}
States == {"boot", "train"} \cup Waits \cup Ended

TypeOK ==
    /\ pc \in [Members -> States]
    /\ superbatch \in [Members -> 0 .. Final]
    /\ updates \in [Members -> SUBSET Steps]
    /\ base \in [Members -> Nat]
    /\ checkpoint \in [Members -> Weights]
    /\ inc \in [Members -> 0 .. MaxRestarts]
    /\ backlog \subseteq Connections
    /\ peers \subseteq Connections
    /\ average \in Weights \cup {None}
    /\ rounds \in Seq([superbatch : 1 .. Final, members : SUBSET Members])
    /\ reply \in [Workers -> Weights \cup {None}]
    /\ faults \subseteq Faults

\* Mutant: no unconditional synchronization at the end.
SyncDueByCadenceOnly(m, s) == s % SyncEvery[m] = 0

\* A member synchronizes at every multiple of its cadence and at the end.
SyncDue(m, s) == s % SyncEvery[m] = 0 \/ s = Final

\* A checkpoint is saved at every multiple of the save rate and at the end.
SaveDue(s) == s % SaveEvery = 0 \/ s = Final

\* The listener exists from the making of the hook to the end of the process.
Listening == pc[Coord] \notin {"boot"} \cup Ended

\* The process that opened connection c is still waiting on it.
Live(c) == pc[c.from] \in {"send", "await"} /\ inc[c.from] = c.inc

\* The worker's stream is still held by the coordinator's process.
Connected(w) == \E c \in backlog \cup peers : c.from = w /\ c.inc = inc[w]

-----------------------------------------------------------------------------
(* The life of a process. *)

Init ==
    /\ pc = [m \in Members |-> "boot"]
    /\ superbatch = [m \in Members |-> 0]
    /\ updates = [m \in Members |-> {}]
    /\ base = [m \in Members |-> 0]
    /\ checkpoint = [m \in Members |-> [superbatch |-> 0, updates |-> {}, base |-> 0]]
    /\ inc = [m \in Members |-> 0]
    /\ backlog = {}
    /\ peers = {}
    /\ average = None
    /\ rounds = <<>>
    /\ reply = [w \in Workers |-> None]
    /\ faults \in {{}, Faults}

\* The trainer is built; the coordinator's listener is bound before training.
Boot(m) ==
    /\ pc[m] = "boot"
    /\ pc' = [pc EXCEPT ![m] = "train"]
    /\ UNCHANGED <<training, checkpoint, inc, network, result>>

\* Mutant: the end of the training is missed by one superbatch.
EndSuperbatchTooLate(m, s, u, b) ==
    /\ checkpoint' = IF SaveDue(s)
                     THEN [checkpoint EXCEPT ![m] = [superbatch |-> s, updates |-> u, base |-> b]]
                     ELSE checkpoint
    /\ pc' = [pc EXCEPT ![m] = IF s > Final THEN "done" ELSE "train"]

\* The end of superbatch s of member m with weights u and base b: the
\* checkpoint is saved if it is due, and training ends or goes on.
EndSuperbatch(m, s, u, b) ==
    /\ checkpoint' = IF SaveDue(s)
                     THEN [checkpoint EXCEPT ![m] = [superbatch |-> s, updates |-> u, base |-> b]]
                     ELSE checkpoint
    /\ pc' = [pc EXCEPT ![m] = IF s = Final THEN "done" ELSE "train"]

\* Mutant: the checkpoint is saved before the hook instead of after it.
TrainSavingFirst(m) ==
    LET s == superbatch[m] + 1
        u == updates[m] \cup {<<m, s>>}
    IN  /\ pc[m] = "train"
        /\ superbatch' = [superbatch EXCEPT ![m] = s]
        /\ updates' = [updates EXCEPT ![m] = u]
        /\ \/ /\ SyncDue(m, s)
              /\ pc' = [pc EXCEPT ![m] = IF m = Coord THEN "accept" ELSE "connect"]
              /\ checkpoint' = [checkpoint EXCEPT ![m] =
                                   [superbatch |-> s, updates |-> u, base |-> base[m]]]
           \/ /\ ~SyncDue(m, s)
              /\ EndSuperbatch(m, s, u, base[m])
        /\ UNCHANGED <<base, inc, network, result>>

\* One superbatch of local training, and the hook's decision to synchronize.
Train(m) ==
    LET s == superbatch[m] + 1
        u == updates[m] \cup {<<m, s>>}
    IN  /\ pc[m] = "train"
        /\ superbatch' = [superbatch EXCEPT ![m] = s]
        /\ updates' = [updates EXCEPT ![m] = u]
        /\ \/ /\ SyncDue(m, s)
              /\ pc' = [pc EXCEPT ![m] = IF m = Coord THEN "accept" ELSE "connect"]
              /\ UNCHANGED checkpoint
           \/ /\ ~SyncDue(m, s)
              /\ EndSuperbatch(m, s, u, base[m])
        /\ UNCHANGED <<base, inc, network, result>>

\* Mutant: the coordinator sends the average and trains on with its own weights.
LoadAverageOnWorkers(m, a) ==
    LET u == IF m = Coord THEN updates[m] ELSE a.updates
    IN  /\ updates' = [updates EXCEPT ![m] = u]
        /\ base' = [base EXCEPT ![m] = a.base]
        /\ EndSuperbatch(m, superbatch[m], u, a.base)
        /\ UNCHANGED <<superbatch, inc>>

\* The hook replaces the weights of m by average a; the superbatch then ends.
LoadAverage(m, a) ==
    /\ updates' = [updates EXCEPT ![m] = a.updates]
    /\ base' = [base EXCEPT ![m] = a.base]
    /\ EndSuperbatch(m, superbatch[m], a.updates, a.base)
    /\ UNCHANGED <<superbatch, inc>>

\* A process ends in a panic: its sockets close with it.
Fail(m) ==
    /\ pc' = [pc EXCEPT ![m] = "failed"]
    /\ \/ /\ m = Coord
          /\ backlog' = {} /\ peers' = {} /\ average' = None
          /\ UNCHANGED reply
       \/ /\ m # Coord
          /\ reply' = [reply EXCEPT ![m] = None]
          /\ UNCHANGED <<backlog, peers, average>>
    /\ UNCHANGED <<training, checkpoint, inc, rounds>>

\* The process dies between two steps.
Crash(m) ==
    /\ "crash" \in faults
    /\ pc[m] \notin Ended
    /\ Fail(m)

\* The deadline passes while m waits for a peer.  The two sides start their deadlines
\* when they come to the round and hand them to the sockets as timeouts of single
\* reads and writes, so any waiting process may be the first to give up, soon or late:
\* the model has every order and no lengths.
Timeout(m) ==
    /\ "timeout" \in faults
    /\ pc[m] \in Waits
    /\ Fail(m)

\* The operator runs `train run' again: training resumes from the newest
\* checkpoint, and a complete one leaves nothing to train.
Restart(m) ==
    /\ pc[m] = "failed"
    /\ inc[m] < MaxRestarts
    /\ inc' = [inc EXCEPT ![m] = @ + 1]
    /\ superbatch' = [superbatch EXCEPT ![m] = checkpoint[m].superbatch]
    /\ updates' = [updates EXCEPT ![m] = checkpoint[m].updates]
    /\ base' = [base EXCEPT ![m] = checkpoint[m].base]
    /\ pc' = [pc EXCEPT ![m] = IF checkpoint[m].superbatch = Final THEN "done" ELSE "boot"]
    /\ UNCHANGED <<checkpoint, network, result>>

-----------------------------------------------------------------------------
(* The worker's side of a round. *)

\* A refused connection is tried again until the deadline, which is a stutter;
\* a listener queues the connection even while the coordinator still trains.
Connect(w) ==
    /\ pc[w] = "connect"
    /\ Listening
    /\ backlog' = backlog \cup {[from |-> w, inc |-> inc[w], superbatch |-> superbatch[w],
                                 updates |-> updates[w], base |-> base[w]]}
    /\ pc' = [pc EXCEPT ![w] = "send"]
    /\ UNCHANGED <<training, checkpoint, inc, peers, reply, result>>

\* The whole request has been written.
SendRequest(w) ==
    /\ pc[w] = "send"
    /\ Connected(w)
    /\ pc' = [pc EXCEPT ![w] = "await"]
    /\ UNCHANGED <<training, checkpoint, inc, network, result>>

\* The coordinator's process is gone and nothing is left to read.
LoseConnection(w) ==
    /\ pc[w] \in {"send", "await"}
    /\ ~Connected(w)
    /\ reply[w] = None
    /\ Fail(w)

\* The average arrives; an answer for another superbatch is an error.
ReceiveAverage(w) ==
    /\ pc[w] = "await"
    /\ reply[w] # None
    /\ \/ /\ reply[w].superbatch = superbatch[w]
          /\ reply' = [reply EXCEPT ![w] = None]
          /\ LoadAverage(w, reply[w])
          /\ UNCHANGED <<backlog, peers, result>>
       \/ /\ reply[w].superbatch # superbatch[w]
          /\ Fail(w)

-----------------------------------------------------------------------------
(* The coordinator's side of a round. *)

\* A live worker has written its whole request; a dead one may have.
Readable(c) == Live(c) => pc[c.from] = "await"

\* The listener hands out the connections of one worker in the order they were made.
Oldest(c) == \A d \in backlog : d.from = c.from => c.inc <= d.inc

\* Mutant: a request of any round is taken.
AcceptableInAnyRound(c) ==
    /\ RunId[c.from] = RunId[Coord]
    /\ \A p \in peers : NodeId[p.from] # NodeId[c.from]

\* What a request must satisfy to be counted.
Acceptable(c) ==
    /\ RunId[c.from] = RunId[Coord]
    /\ c.superbatch = superbatch[Coord]
    /\ \A p \in peers : NodeId[p.from] # NodeId[c.from]

\* Mutant: the coordinator's loop ends one worker early.
AcceptingOneLess == pc[Coord] = "accept" /\ Cardinality(peers) + 1 < NumPeers

Accepting == pc[Coord] = "accept" /\ Cardinality(peers) < NumPeers

AcceptRequest(c) ==
    /\ Accepting
    /\ Oldest(c) /\ Readable(c)
    /\ Acceptable(c)
    /\ backlog' = backlog \ {c}
    /\ peers' = peers \cup {c}
    /\ UNCHANGED <<pc, training, checkpoint, inc, reply, result>>

\* One bad or truncated request fails the round for everybody.
RejectRequest(c) ==
    /\ Accepting
    /\ Oldest(c)
    /\ (Readable(c) /\ ~Acceptable(c)) \/ ~Live(c)
    /\ Fail(Coord)

\* Mutant: the coordinator forgets its own weights.
AverageOfPeers ==
    /\ pc[Coord] = "accept"
    /\ Cardinality(peers) = NumPeers
    /\ rounds' = Append(rounds, [superbatch |-> superbatch[Coord],
                                 members |-> {Coord} \cup {c.from : c \in peers}])
    /\ average' = [superbatch |-> superbatch[Coord],
                   updates |-> UNION {c.updates : c \in peers},
                   base |-> Len(rounds) + 1]
    /\ pc' = [pc EXCEPT ![Coord] = "reply"]
    /\ UNCHANGED <<training, checkpoint, inc, network>>

Average ==
    /\ pc[Coord] = "accept"
    /\ Cardinality(peers) = NumPeers
    /\ rounds' = Append(rounds, [superbatch |-> superbatch[Coord],
                                 members |-> {Coord} \cup {c.from : c \in peers}])
    /\ average' = [superbatch |-> superbatch[Coord],
                   updates |-> updates[Coord] \cup UNION {c.updates : c \in peers},
                   base |-> Len(rounds) + 1]
    /\ pc' = [pc EXCEPT ![Coord] = "reply"]
    /\ UNCHANGED <<training, checkpoint, inc, network>>

\* The average is written to one stream.  A write to a stream whose process is
\* gone is either lost in the kernel or an error, which fails the coordinator.
WriteReply(c) ==
    /\ pc[Coord] = "reply"
    /\ \/ /\ Live(c)
          /\ reply' = [reply EXCEPT ![c.from] = average]
          /\ peers' = peers \ {c}
          /\ UNCHANGED <<pc, training, checkpoint, inc, backlog, result>>
       \/ /\ ~Live(c)
          /\ peers' = peers \ {c}
          /\ UNCHANGED <<pc, training, checkpoint, inc, backlog, reply, result>>
       \/ /\ ~Live(c)
          /\ Fail(Coord)

\* Every stream is written: the coordinator loads the average itself.  At the
\* end of the training the process ends and its listener closes.
FinishRound ==
    /\ pc[Coord] = "reply"
    /\ peers = {}
    /\ LoadAverage(Coord, average)
    /\ backlog' = IF superbatch[Coord] = Final THEN {} ELSE backlog
    /\ average' = None
    /\ UNCHANGED <<peers, reply, rounds>>

-----------------------------------------------------------------------------

\* Every process has ended and none is started again.
Terminated ==
    /\ \A m \in Members : pc[m] \in Ended
    /\ UNCHANGED vars

WorkerStep(w) ==
    Connect(w) \/ SendRequest(w) \/ LoseConnection(w) \/ ReceiveAverage(w)

CoordStep ==
    \/ \E c \in backlog : AcceptRequest(c) \/ RejectRequest(c)
    \/ Average
    \/ \E c \in peers : WriteReply(c)
    \/ FinishRound

Next ==
    /\ \/ \E m \in Members : Boot(m) \/ Train(m)
       \/ \E m \in Members : Crash(m) \/ Timeout(m) \/ Restart(m)
       \/ \E w \in Workers : WorkerStep(w)
       \/ CoordStep
       \/ Terminated
    /\ UNCHANGED faults

Spec == Init /\ [][Next]_vars

\* A process that can take a step of its own takes it; nothing has to fail, no
\* deadline has to pass and the operator need not start a process again.
Fairness ==
    /\ \A m \in Members : WF_vars((Boot(m) \/ Train(m)) /\ UNCHANGED faults)
    /\ \A w \in Workers : WF_vars(WorkerStep(w) /\ UNCHANGED faults)
    /\ WF_vars(CoordStep /\ UNCHANGED faults)

FairSpec == Spec /\ Fairness

-----------------------------------------------------------------------------
(* Properties. *)

\* NumPeers workers of the coordinator's run, no two under one identity.
Fleets ==
    {W \in SUBSET Workers :
        /\ Cardinality(W) = NumPeers
        /\ \A w \in W : RunId[w] = RunId[Coord]
        /\ \A v, w \in W : NodeId[v] = NodeId[w] => v = w}

\* u holds the training of a whole fleet up to superbatch s.
HoldsFleet(u, s) ==
    \E W \in Fleets : (W \cup {Coord}) \X (1 .. s) \subseteq u

Abstract == INSTANCE LocalSGD WITH
    steps <- superbatch,
    Groups <- {W \cup {Coord} : W \in Fleets},
    SyncPoint <- SyncDue

\* Averaging over connections that break, time out and outlive their process
\* implements LocalSGD: nobody trains past a sync point except on a round
\* decided there by a whole fleet with its own weights in it.
Implements == Abstract!Spec

\* "The final model must be a fleet-wide average" (mod.rs:77): a coordinator
\* whose training is complete holds every superbatch of NumPeers distinct
\* workers of its run and of its own, whatever crashed, timed out or was
\* restarted on the way, and so does the checkpoint that is exported.
FinalIsFleetAverage ==
    /\ pc[Coord] = "done" => HoldsFleet(updates[Coord], Final)
    /\ checkpoint[Coord].superbatch = Final => HoldsFleet(checkpoint[Coord].updates, Final)

\* No member trains past one of its sync points on weights that a whole fleet
\* did not go into up to that point, restarts from a checkpoint included.
NoSyncSkipped ==
    \A m \in Members : \A s \in 1 .. superbatch[m] :
        /\ SyncDue(m, s)
        /\ s = superbatch[m] => pc[m] \notin Waits \cup {"failed"}
        => HoldsFleet(updates[m], s)

\* The check of the smoke driver (distributed_smoke.py:332): members that
\* complete the training end with the same model.
FinalModelsAgree ==
    \A m, n \in Members :
        pc[m] = "done" /\ pc[n] = "done" => updates[m] = updates[n] /\ base[m] = base[n]

\* The coordinator averages only weights that descend from the average it
\* loaded itself: a member restarted from a checkpoint of another round is
\* never averaged in silently.
PeersShareBase ==
    \A c \in peers : pc[Coord] = "accept" => c.base = base[Coord]

\* A superbatch identifies a round to a waiting worker: no answer of another
\* round ever reaches it, so the check of the answer (worker.rs:27) never fires.
RepliesMatch ==
    \A w \in Workers : reply[w] # None =>
        /\ pc[w] = "await"
        /\ reply[w].superbatch = superbatch[w]
        /\ <<w, superbatch[w]>> \in reply[w].updates

\* Without faults, a group configured alike never blocks or rejects itself: everybody
\* gets through every synchronization, the one at the end included.
EveryoneFinishes == faults = {} => <>(\A m \in Members : pc[m] = "done")

=============================================================================
