------------------------- MODULE Lc0PipelineProofs -------------------------
(***************************************************************************)
(* Proofs about Lc0Pipeline for any number of batches, shards, workers,    *)
(* starts and changes of the archives and the net.                         *)
(***************************************************************************)
EXTENDS Lc0Pipeline, TLAPS

-----------------------------------------------------------------------------
(* The inductive invariant. *)

Jobs == [shards : Tasks, net : Nets]

InBatch == {"launch", "started", "wait", "collect", "shards", "merge", "vouch"}
Launched == InBatch \ {"launch"}
Merging == {"final", "sign"}

\* m has every shard of its run, all of them labelled soundly under one net.
Complete(m) ==
    /\ m \in Merges
    /\ \E n \in Nets : \A t \in 1 .. m.shards : m.results[t] = Done(n, TRUE)

\* A claimed task is claimed by one worker, and belongs to a run Forge knows.
ClaimOK ==
    \A w \in Workers, b \in Batches, t \in Tasks :
        claim[w] = <<b, t>> =>
            /\ shard[b][t].state = "claimed"
            /\ forge[b] # None
            /\ \A v \in Workers : claim[v] = <<b, t>> => v = w

\* A run has the tasks it was planned with.
TasksOK ==
    \A b \in Batches, t \in Tasks :
        shard[b][t].state # "none" => forge[b] # None /\ t \in TasksOf(b)

\* Where the script is says how far the batches are.
PlaceOK ==
    /\ pc \in Working => job \in Jobs
    /\ pc \in Working \ {"sign"} => output = None
    /\ pc = "verify" => batch = 1
    /\ pc \in Working => \A b \in Batches : b < batch => valid[b]
    /\ pc \in Merging => \A b \in Batches : valid[b]
    /\ pc \in InBatch => ~valid[batch]
    /\ pc \in Launched => forge[batch] # None
    /\ pc \in {"merge", "vouch"} => \A t \in TasksOf(batch) : Accepts(shard[batch][t])
    /\ pc = "vouch" => Complete(merged[batch])
    /\ \A b \in Batches : launch[b] => forge[b] # None

\* A valid batch is merged, and none of its tasks is left to do.
ValidOK ==
    \A b \in Batches : valid[b] =>
        /\ forge[b] # None
        /\ Complete(merged[b])
        /\ \A t \in Tasks : shard[b][t].state \in {"none", "done"}

\* What is published is what was merged.
OutputOK ==
    output # None => \A b \in Batches : Complete(output[b])

\* Unless they were changed under a running script, the archives a run is planned,
\* labelled and merged from are those the work directory is bound to.
DriftOK ==
    ~touched =>
        /\ pc \in Working \ {"verify"} => workState = corpus
        /\ \A b \in Batches :
              /\ forge[b] # None => workState # None /\ forge[b].corpus = workState
              /\ valid[b] => merged[b].corpus = workState
        /\ pc = "vouch" => merged[batch].corpus = workState
        /\ output # None =>
              /\ workState # None
              /\ \A b \in Batches : output[b].corpus = workState

IInv ==
    /\ TypeOK
    /\ ClaimOK
    /\ TasksOK
    /\ PlaceOK
    /\ ValidOK
    /\ OutputOK
    /\ DriftOK
-----------------------------------------------------------------------------
(* Facts about the data. *)

LEMMA BoundsNat ==
    /\ NumBatches \in Nat \ {0} /\ MaxShards \in Nat \ {0}
    /\ MaxChanges \in Nat /\ MaxNets \in Nat /\ MaxSilences \in Nat /\ MaxRuns \in Nat
    /\ 1 \in Batches
BY Lc0PipelineAssumption DEF Lc0PipelineAssumption, Batches

LEMMA TaskFacts ==
    ASSUME NEW state
    PROVE  Task(state).state = state /\ Task(state).sound = FALSE
BY DEF Task

LEMMA DoneFacts ==
    ASSUME NEW n, NEW sound
    PROVE  /\ Done(n, sound).state = "done"
           /\ Done(n, sound).net = n
           /\ Done(n, sound).sound = sound
BY DEF Done

\* What a shard can be.
Shards == Results \cup {Task(state) : state \in {"none", "pending", "claimed", "failed"}}

LEMMA ShardFacts ==
    /\ \A state \in {"none", "pending", "claimed", "failed"} : Task(state) \in Shards
    /\ \A n \in Nets, sound \in BOOLEAN : Done(n, sound) \in Results /\ Done(n, sound) \in Shards
    /\ \A r \in Shards : r.sound => \E n \in Nets : r = Done(n, TRUE)
<1>1. \A r \in Shards : r.sound => \E n \in Nets : r = Done(n, TRUE)
  <2> SUFFICES ASSUME NEW r \in Shards, r.sound PROVE \E n \in Nets : r = Done(n, TRUE)
    OBVIOUS
  <2>1. r \in Results
    BY TaskFacts DEF Shards
  <2>2. PICK n \in Nets, sound \in BOOLEAN : r = Done(n, sound)
    BY <2>1 DEF Results
  <2> QED
    BY <2>2, DoneFacts
<1>2. \A n \in Nets, sound \in BOOLEAN : Done(n, sound) \in Results
  BY DEF Results
<1> QED
  BY <1>1, <1>2 DEF Shards

-----------------------------------------------------------------------------
(* Every action preserves the invariant. *)

LEMMA InitOK == Init => IInv
<1> SUFFICES ASSUME Init PROVE IInv
  OBVIOUS
<1> USE BoundsNat DEF Init
<1>1. TypeOK
  <2>1. shard \in [Batches -> [Tasks -> Shards]]
    BY ShardFacts
  <2>2. 0 \in Corpora /\ 0 \in Nets /\ 0 \in 0 .. MaxSilences /\ 0 \in 0 .. MaxRuns
    BY DEF Corpora, Nets
  <2> QED
    BY <2>1, <2>2 DEF TypeOK, Shards
<1>2. ClaimOK
  BY NoneAssumption DEF ClaimOK, NoneAssumption
<1>2a. TasksOK
  BY TaskFacts DEF TasksOK
<1>3. PlaceOK /\ ValidOK /\ OutputOK /\ DriftOK
  BY DEF PlaceOK, ValidOK, OutputOK, DriftOK, Working, InBatch, Launched, Merging
<1> QED
  BY <1>1, <1>2, <1>2a, <1>3 DEF IInv

LEMMA StutterOK == IInv /\ UNCHANGED vars => IInv'
BY DEF IInv, TypeOK, ClaimOK, TasksOK, PlaceOK, ValidOK, OutputOK, DriftOK, TasksOf,
       Accepts, vars, memory, files, cluster, world

\* The process ends and leaves everything as it is.
LEMMA EndOK ==
    ASSUME IInv, pc' \in Refused \cup {"off"},
           UNCHANGED <<job, batch, suspects, quarantined, files, cluster, world>>
    PROVE  IInv'
<1> USE DEF IInv, files, cluster, world
<1>1. TypeOK'
  BY DEF TypeOK
<1>2. ClaimOK' /\ TasksOK' /\ ValidOK' /\ OutputOK'
  BY DEF ClaimOK, TasksOK, ValidOK, OutputOK, TasksOf
<1>3. pc' \notin Working
  BY DEF Working, Refused
<1>4. PlaceOK' /\ DriftOK'
  BY <1>3 DEF PlaceOK, DriftOK, Working, InBatch, Launched, Merging
<1> QED
  BY <1>1, <1>2, <1>4

LEMMA RefusalsOK ==
    /\ IInv /\ Crash => IInv'
    /\ IInv /\ RefuseDrift => IInv'
    /\ IInv /\ RefusePreflight => IInv'
    /\ IInv /\ RefuseFailed => IInv'
    /\ IInv /\ RefuseShard => IInv'
    /\ IInv /\ RefuseDistribution => IInv'
BY EndOK DEF Crash, RefuseDrift, RefusePreflight, RefuseFailed, RefuseShard,
   RefuseDistribution, End, Go, Refused

LEMMA StartOK == IInv /\ Start => IInv'
<1> SUFFICES ASSUME IInv, Start PROVE IInv'
  OBVIOUS
<1> USE BoundsNat DEF IInv, Start, Idle, files, cluster
<1>0. net \in Nets /\ job' \in Jobs
  BY DEF TypeOK, Jobs
<1>1. TypeOK'
  BY <1>0 DEF TypeOK, Jobs, Working, Refused
<1>2. ClaimOK' /\ TasksOK' /\ ValidOK' /\ OutputOK'
  BY DEF ClaimOK, TasksOK, ValidOK, OutputOK, TasksOf
<1>3. PlaceOK'
  BY <1>0 DEF PlaceOK, Working, InBatch, Launched, Merging, Batches
<1>4. DriftOK'
  BY DEF DriftOK, Working
<1> QED
  BY <1>1, <1>2, <1>3, <1>4

LEMMA ChangeArchivesOK == IInv /\ ChangeArchives => IInv'
<1> SUFFICES ASSUME IInv, ChangeArchives PROVE IInv'
  OBVIOUS
<1> USE BoundsNat DEF IInv, ChangeArchives, Idle, memory, files, cluster
<1>1. TypeOK'
  BY DEF TypeOK, Corpora
<1>2. ClaimOK' /\ TasksOK' /\ PlaceOK' /\ ValidOK' /\ OutputOK'
  BY DEF ClaimOK, TasksOK, PlaceOK, ValidOK, OutputOK, TasksOf, Accepts
<1>3. DriftOK'
  BY DEF DriftOK, Working
<1> QED
  BY <1>1, <1>2, <1>3

LEMMA ReplaceNetOK == IInv /\ ReplaceNet => IInv'
<1> SUFFICES ASSUME IInv, ReplaceNet PROVE IInv'
  OBVIOUS
<1> USE BoundsNat DEF IInv, ReplaceNet, memory, files, cluster
<1>1. TypeOK'
  BY DEF TypeOK, Nets
<1>2. ClaimOK' /\ TasksOK' /\ PlaceOK' /\ ValidOK' /\ OutputOK'
  BY DEF ClaimOK, TasksOK, PlaceOK, ValidOK, OutputOK, TasksOf, Accepts
<1>3. DriftOK'
  BY DEF DriftOK
<1> QED
  BY <1>1, <1>2, <1>3

LEMMA HeartbeatOK ==
    ASSUME IInv, NEW w \in Workers, FallSilent(w) \/ Recover(w)
    PROVE  IInv'
<1> USE BoundsNat DEF IInv, FallSilent, Recover, memory, files, world
<1>1. TypeOK'
  BY DEF TypeOK
<1>2. ClaimOK' /\ TasksOK' /\ PlaceOK' /\ ValidOK' /\ OutputOK'
  BY DEF ClaimOK, TasksOK, PlaceOK, ValidOK, OutputOK, TasksOf, Accepts
<1>3. DriftOK'
  BY DEF DriftOK
<1> QED
  BY <1>1, <1>2, <1>3

\* An accepted task is done.
LEMMA AcceptedIsDone ==
    ASSUME TypeOK, NEW b \in Batches, NEW t \in Tasks, Accepts(shard[b][t])
    PROVE  shard[b][t].state = "done" /\ shard[b][t] = Done(job.net, TRUE)
<1>1. shard[b][t] \in Shards
  BY DEF TypeOK, Shards
<1>2. PICK n \in Nets : shard[b][t] = Done(n, TRUE)
  BY <1>1, ShardFacts DEF Accepts
<1>3. shard[b][t].net = job.net
  BY DEF Accepts
<1>4. Done(n, TRUE).net = n /\ Done(n, TRUE).state = "done"
  BY DoneFacts
<1> QED
  BY <1>2, <1>3, <1>4

\* A step of the workers disturbs no task that is done.
LEMMA WorkerStepOK ==
    ASSUME IInv, UNCHANGED <<job, batch, files, world, forge>>,
           pc' = pc \/ (pc = "wait" /\ pc' \in {"wait", "collect"}),
           \A b \in Batches, t \in Tasks :
              shard[b][t].state \in {"none", "done"} => shard'[b][t] = shard[b][t]
    PROVE  TasksOK' /\ PlaceOK' /\ ValidOK' /\ OutputOK' /\ DriftOK'
<1> USE DEF IInv, files, world
<1>1. TasksOK' /\ ValidOK' /\ OutputOK'
  BY DEF TasksOK, ValidOK, OutputOK, TasksOf
<1>2. ASSUME pc' \in {"merge", "vouch"}, NEW t \in TasksOf(batch)
      PROVE  Accepts(shard[batch][t])'
  <2>1. pc' = pc /\ forge[batch] # None
    BY <1>2 DEF PlaceOK, Launched, InBatch
  <2>2. batch \in Batches /\ forge[batch] \in Runs
    BY <2>1 DEF TypeOK
  <2>3. t \in Tasks
    BY <2>2, BoundsNat DEF TasksOf, Runs, Tasks
  <2>4. Accepts(shard[batch][t])
    BY <1>2, <2>1 DEF PlaceOK
  <2>5. shard'[batch][t] = shard[batch][t]
    BY <2>2, <2>3, <2>4, AcceptedIsDone
  <2> QED
    BY <2>4, <2>5 DEF Accepts
<1>3. PlaceOK'
  BY <1>2 DEF PlaceOK, Working, InBatch, Launched, Merging, TasksOf
<1>4. DriftOK'
  BY DEF DriftOK, Working
<1> QED
  BY <1>1, <1>3, <1>4

LEMMA ClaimStepOK ==
    ASSUME IInv, NEW w \in Workers, Claim(w)
    PROVE  IInv'
<1> USE BoundsNat DEF IInv
<1>1. PICK b \in Batches, t \in Tasks :
         /\ forge[b] # None
         /\ shard[b][t].state = "pending"
         /\ shard' = [shard EXCEPT ![b][t] = Task("claimed")]
         /\ claim' = [claim EXCEPT ![w] = <<b, t>>]
  BY DEF Claim
<1> USE DEF memory, files, world
<1>2. shard \in [Batches -> [Tasks -> Shards]]
  BY DEF TypeOK, Shards
<1>3. shard' \in [Batches -> [Tasks -> Shards]]
  BY <1>1, <1>2, ShardFacts
<1>4. claim \in [Workers -> {None} \cup (Batches \X Tasks)]
  BY DEF TypeOK
<1>5. claim' \in [Workers -> {None} \cup (Batches \X Tasks)]
  BY <1>1, <1>4
<1>6. TypeOK'
  BY <1>3, <1>5 DEF TypeOK, Claim, Shards
<1>7. ClaimOK'
  <2> SUFFICES ASSUME NEW v \in Workers, NEW c \in Batches, NEW u \in Tasks,
                      claim'[v] = <<c, u>>
               PROVE  /\ shard'[c][u].state = "claimed"
                      /\ forge'[c] # None
                      /\ \A x \in Workers : claim'[x] = <<c, u>> => x = v
    BY DEF ClaimOK
  <2>1. \A x \in Workers : claim[x] # <<b, t>>
    BY <1>1 DEF ClaimOK
  <2>2. forge' = forge
    BY DEF Claim
  <2>3. CASE c = b /\ u = t
    BY <1>1, <1>2, <1>4, <2>1, <2>2, <2>3, TaskFacts
  <2>4. CASE ~(c = b /\ u = t)
    <3>1. v # w /\ claim[v] = <<c, u>>
      BY <1>1, <1>4, <2>4
    <3>2. shard'[c][u] = shard[c][u]
      BY <1>1, <1>2, <2>4
    <3>3. \A x \in Workers : claim'[x] = <<c, u>> => claim[x] = <<c, u>>
      BY <1>1, <1>4, <2>4
    <3> QED
      BY <3>1, <3>2, <3>3, <2>2 DEF ClaimOK
  <2> QED
    BY <2>3, <2>4
<1>8. TasksOK' /\ PlaceOK' /\ ValidOK' /\ OutputOK' /\ DriftOK'
  <2>1. \A c \in Batches, u \in Tasks :
           shard[c][u].state \in {"none", "done"} => shard'[c][u] = shard[c][u]
    BY <1>1, <1>2
  <2>2. UNCHANGED <<pc, job, batch, files, world, forge>>
    BY DEF Claim
  <2> QED
    BY <2>1, <2>2, WorkerStepOK
<1> QED
  BY <1>6, <1>7, <1>8

LEMMA LabelOK ==
    ASSUME IInv, NEW w \in Workers, Label(w)
    PROVE  IInv'
<1> USE BoundsNat DEF IInv
<1>1. claim \in [Workers -> {None} \cup (Batches \X Tasks)]
  BY DEF TypeOK
<1>2. PICK b \in Batches, t \in Tasks : claim[w] = <<b, t>>
  BY <1>1 DEF Label
<1>3. shard[b][t].state = "claimed" /\ forge[b] # None
  BY <1>2 DEF ClaimOK
<1>4. \A n \in forge[b].net .. net : n \in Nets
  <2>1. forge[b] \in Runs
    BY <1>3 DEF TypeOK
  <2>2. forge[b].net \in Nat /\ net \in 0 .. MaxNets
    BY <2>1 DEF Runs, Nets, TypeOK
  <2> QED
    BY <2>2 DEF Nets
<1>5. PICK result \in Shards : shard' = [shard EXCEPT ![b][t] = result]
  <2>1. claim[w][1] = b /\ claim[w][2] = t
    BY <1>2
  <2>2. PICK n \in forge[b].net .. net, sound \in BOOLEAN :
           \E result \in {Task("failed"), Done(n, sound)} :
              shard' = [shard EXCEPT ![b][t] = result]
    BY <2>1 DEF Label
  <2> QED
    BY <2>2, <1>4, ShardFacts
<1>6. claim' = [claim EXCEPT ![w] = None]
  BY DEF Label
<1>7. shard \in [Batches -> [Tasks -> Shards]] /\ shard' \in [Batches -> [Tasks -> Shards]]
  BY <1>5 DEF TypeOK, Shards
<1>8. TypeOK'
  <2>1. claim' \in [Workers -> {None} \cup (Batches \X Tasks)]
    BY <1>1, <1>6
  <2> QED
    BY <2>1, <1>7 DEF TypeOK, Label, Shards, memory, files, world
<1>9. ClaimOK'
  <2> SUFFICES ASSUME NEW v \in Workers, NEW c \in Batches, NEW u \in Tasks,
                      claim'[v] = <<c, u>>
               PROVE  /\ shard'[c][u].state = "claimed"
                      /\ forge'[c] # None
                      /\ \A x \in Workers : claim'[x] = <<c, u>> => x = v
    BY DEF ClaimOK
  <2>1. v # w /\ claim[v] = <<c, u>>
    BY <1>1, <1>6, NoneAssumption DEF NoneAssumption
  <2>2. ~(c = b /\ u = t)
    BY <1>2, <2>1 DEF ClaimOK
  <2>3. shard'[c][u] = shard[c][u]
    BY <1>5, <1>7, <2>2
  <2>4. \A x \in Workers : claim'[x] = <<c, u>> => claim[x] = <<c, u>>
    BY <1>1, <1>6, NoneAssumption DEF NoneAssumption
  <2> QED
    BY <2>1, <2>3, <2>4 DEF ClaimOK, Label
<1>10. TasksOK' /\ PlaceOK' /\ ValidOK' /\ OutputOK' /\ DriftOK'
  <2>1. \A c \in Batches, u \in Tasks :
           shard[c][u].state \in {"none", "done"} => shard'[c][u] = shard[c][u]
    BY <1>3, <1>5, <1>7
  <2>2. UNCHANGED <<pc, job, batch, files, world, forge>>
    BY DEF Label, memory
  <2> QED
    BY <2>1, <2>2, WorkerStepOK
<1> QED
  BY <1>8, <1>9, <1>10

\* Claims that are taken back leave their tasks to be claimed again.
LEMMA ReleaseOK ==
    ASSUME IInv, NEW W \in SUBSET Workers, Release(W)
    PROVE  /\ shard' \in [Batches -> [Tasks -> Shards]]
           /\ claim' \in [Workers -> {None} \cup (Batches \X Tasks)]
           /\ ClaimOK'
           /\ \A b \in Batches, t \in Tasks :
                 shard[b][t].state \in {"none", "done"} => shard'[b][t] = shard[b][t]
<1> USE DEF IInv
<1>1. shard \in [Batches -> [Tasks -> Shards]]
  BY DEF TypeOK, Shards
<1>2. claim \in [Workers -> {None} \cup (Batches \X Tasks)]
  BY DEF TypeOK
<1>3. \A b \in Batches, t \in Tasks :
         shard'[b][t] = IF \E w \in W : claim[w] = <<b, t>> THEN Task("pending") ELSE shard[b][t]
  BY DEF Release
<1>4. shard' \in [Batches -> [Tasks -> Shards]]
  BY <1>1, ShardFacts DEF Release
<1>5. claim' = [w \in Workers |-> IF w \in W THEN None ELSE claim[w]] /\ forge' = forge
  BY DEF Release
<1>6. claim' \in [Workers -> {None} \cup (Batches \X Tasks)]
  BY <1>2, <1>5
<1>7. ClaimOK'
  <2> SUFFICES ASSUME NEW v \in Workers, NEW c \in Batches, NEW u \in Tasks,
                      claim'[v] = <<c, u>>
               PROVE  /\ shard'[c][u].state = "claimed"
                      /\ forge'[c] # None
                      /\ \A x \in Workers : claim'[x] = <<c, u>> => x = v
    BY DEF ClaimOK
  <2>0. <<c, u>> # None
    BY NoneAssumption DEF NoneAssumption
  <2>1. \A x \in Workers : claim'[x] = <<c, u>> => x \notin W /\ claim[x] = <<c, u>>
    BY <1>5, <2>0
  <2>2. \A x \in Workers : claim[x] = <<c, u>> => x = v
    BY <2>1 DEF ClaimOK
  <2>3. shard'[c][u] = shard[c][u]
    BY <1>3, <2>1, <2>2
  <2> QED
    BY <2>1, <2>2, <2>3, <1>5 DEF ClaimOK
<1>8. \A b \in Batches, t \in Tasks :
         shard[b][t].state \in {"none", "done"} => shard'[b][t] = shard[b][t]
  BY <1>3 DEF ClaimOK
<1> QED
  BY <1>4, <1>6, <1>7, <1>8

LEMMA ReapOK ==
    ASSUME IInv, NEW w \in Workers, Reap(w)
    PROVE  IInv'
<1>1. {w} \in SUBSET Workers /\ Release({w})
  BY DEF Reap
<1>2. UNCHANGED <<memory, files, world, forge, silent, silences>>
  BY DEF Reap, Release
<1>3. TypeOK'
  BY <1>1, <1>2, ReleaseOK DEF IInv, TypeOK, Shards, memory, files, world
<1>4. TasksOK' /\ PlaceOK' /\ ValidOK' /\ OutputOK' /\ DriftOK'
  <2>1. UNCHANGED <<pc, job, batch>>
    BY <1>2 DEF memory
  <2> QED
    BY <1>1, <1>2, <2>1, ReleaseOK, WorkerStepOK
<1> QED
  BY <1>1, <1>3, <1>4, ReleaseOK DEF IInv

LEMMA PollOK == IInv /\ Poll => IInv'
<1> SUFFICES ASSUME IInv, Poll PROVE IInv'
  OBVIOUS
<1>1. PICK Q \in SUBSET ((suspects \cap silent) \ quarantined) :
         /\ quarantined' = quarantined \cup Q
         /\ suspects' = (suspects \cap quarantined') \cup (silent \ quarantined)
         /\ Release(Q)
  BY DEF Poll
<1>2. Q \in SUBSET Workers
  BY DEF IInv, TypeOK
<1>3. UNCHANGED <<job, batch, files, world, forge, silent, silences>>
  BY <1>1 DEF Poll, Release
<1>4. pc = "wait" /\ pc' \in {"wait", "collect"}
  BY DEF Poll
<1>5. TypeOK'
  BY <1>1, <1>2, <1>3, <1>4, ReleaseOK DEF IInv, TypeOK, Shards, files, world, Working
<1>6. TasksOK' /\ PlaceOK' /\ ValidOK' /\ OutputOK' /\ DriftOK'
  BY <1>1, <1>2, <1>3, <1>4, ReleaseOK, WorkerStepOK
<1> QED
  BY <1>1, <1>2, <1>5, <1>6, ReleaseOK DEF IInv

LEMMA VerifyWorkStateOK == IInv /\ VerifyWorkState => IInv'
<1> SUFFICES ASSUME IInv, VerifyWorkState PROVE IInv'
  OBVIOUS
<1> USE DEF IInv, VerifyWorkState, Go, cluster, world
<1>1. TypeOK'
  BY DEF TypeOK, Working
<1>2. ClaimOK' /\ TasksOK' /\ ValidOK' /\ OutputOK'
  BY DEF ClaimOK, TasksOK, ValidOK, OutputOK, TasksOf
<1>3. PlaceOK'
  BY DEF PlaceOK, Working, InBatch, Launched, Merging
<1>4. DriftOK'
  BY DEF DriftOK, ValidOK, PlaceOK, Working
<1> QED
  BY <1>1, <1>2, <1>3, <1>4

\* When a batch is valid the script goes on to the next, or to the final merge.
LEMMA NextBatchOK ==
    ASSUME IInv, pc \in {"batch", "vouch"}, NextBatch, valid'[batch],
           \A b \in Batches : valid[b] => valid'[b]
    PROVE  /\ pc' \in {"batch", "final"} /\ batch' \in Batches /\ job' = job
           /\ \A b \in Batches : b < batch' => valid'[b]
           /\ pc' = "final" => \A b \in Batches : valid'[b]
<1> USE DEF IInv, NextBatch
<1>1. batch \in 1 .. NumBatches /\ NumBatches \in Nat
  BY BoundsNat DEF TypeOK, Batches
<1>2. \A b \in Batches : b < batch => valid[b]
  BY DEF PlaceOK, Working
<1>3. CASE batch = NumBatches
  <2>1. \A b \in Batches : b < batch \/ b = batch
    BY <1>1, <1>3 DEF Batches
  <2> QED
    BY <1>1, <1>2, <1>3, <2>1 DEF Batches
<1>4. CASE batch # NumBatches
  <2>1. batch' = batch + 1 /\ batch' \in Batches
    BY <1>1, <1>4 DEF Batches
  <2>2. \A b \in Batches : b < batch' => b < batch \/ b = batch
    BY <1>1, <2>1 DEF Batches
  <2> QED
    BY <1>2, <1>4, <2>1, <2>2
<1> QED
  BY <1>3, <1>4

LEMMA ReuseValidOK == IInv /\ ReuseValid => IInv'
<1> SUFFICES ASSUME IInv, ReuseValid PROVE IInv'
  OBVIOUS
<1> USE DEF IInv, ReuseValid, files, cluster, world
<1>1. /\ pc' \in {"batch", "final"} /\ batch' \in Batches /\ job' = job
      /\ \A b \in Batches : b < batch' => valid'[b]
      /\ pc' = "final" => \A b \in Batches : valid'[b]
  BY NextBatchOK
<1>2. TypeOK'
  BY <1>1 DEF TypeOK, Working, NextBatch
<1>3. ClaimOK' /\ TasksOK' /\ ValidOK' /\ OutputOK'
  BY DEF ClaimOK, TasksOK, ValidOK, OutputOK, TasksOf
<1>4. PlaceOK'
  BY <1>1 DEF PlaceOK, Working, InBatch, Launched, Merging
<1>5. DriftOK'
  BY <1>1 DEF DriftOK, Working
<1> QED
  BY <1>2, <1>3, <1>4, <1>5

LEMMA PlanBatchOK == IInv /\ PlanBatch => IInv'
<1> SUFFICES ASSUME IInv, PlanBatch PROVE IInv'
  OBVIOUS
<1> USE DEF IInv, PlanBatch, cluster, world
<1>1. pc = "batch" /\ pc' \in {"launch", "replanned"} /\ UNCHANGED <<job, batch, suspects, quarantined>>
  BY DEF Go, End
<1>2. TypeOK'
  <2>1. [corpus |-> corpus, shards |-> job.shards] \in [corpus : Corpora, shards : Tasks]
    BY <1>1 DEF TypeOK, PlaceOK, Working, Jobs
  <2>2. plan' \in [Batches -> {None} \cup [corpus : Corpora, shards : Tasks]]
    BY <2>1 DEF TypeOK
  <2> QED
    BY <1>1, <2>2 DEF TypeOK, Working, Refused
<1>3. ClaimOK' /\ TasksOK' /\ ValidOK' /\ OutputOK'
  BY DEF ClaimOK, TasksOK, ValidOK, OutputOK, TasksOf
<1>4. PlaceOK'
  BY <1>1 DEF PlaceOK, Working, InBatch, Launched, Merging
<1>5. DriftOK'
  BY <1>1 DEF DriftOK, Working
<1> QED
  BY <1>2, <1>3, <1>4, <1>5

LEMMA ResumeRunOK == IInv /\ ResumeRun => IInv'
<1> SUFFICES ASSUME IInv, ResumeRun PROVE IInv'
  OBVIOUS
<1> USE DEF IInv, files, world
<1>1. /\ pc = "launch" /\ launch[batch] /\ pc' = "wait"
      /\ UNCHANGED <<job, batch, suspects, quarantined, files, claim, silent, silences, world>>
  BY DEF ResumeRun, Go
<1>2. batch \in Batches /\ forge[batch] # None /\ forge[batch] \in Runs
  BY <1>1 DEF TypeOK, PlaceOK
<1>3. /\ forge' \in [Batches -> {None} \cup Runs]
      /\ \A b \in Batches :
            /\ (forge'[b] = None) <=> (forge[b] = None)
            /\ forge[b] # None =>
                  forge'[b].shards = forge[b].shards /\ forge'[b].corpus = forge[b].corpus
  <2>1. forge' = [forge EXCEPT ![batch].active = TRUE]
    BY DEF ResumeRun
  <2>2. [forge[batch] EXCEPT !.active = TRUE] \in Runs
    BY <1>2 DEF Runs
  <2>3. forge \in [Batches -> {None} \cup Runs]
    BY DEF TypeOK
  <2>4. /\ forge' \in [Batches -> {None} \cup Runs]
        /\ forge'[batch] = [forge[batch] EXCEPT !.active = TRUE]
        /\ \A b \in Batches : b # batch => forge'[b] = forge[b]
    BY <1>2, <2>1, <2>2, <2>3
  <2>5. forge'[batch] # None
    BY <2>2, <2>4, NoneAssumption DEF NoneAssumption
  <2>6. forge'[batch].shards = forge[batch].shards /\ forge'[batch].corpus = forge[batch].corpus
    BY <1>2, <2>4 DEF Runs
  <2> QED
    BY <1>2, <2>4, <2>5, <2>6
<1>4. shard \in [Batches -> [Tasks -> Shards]]
  BY DEF TypeOK, Shards
<1>5. /\ shard' \in [Batches -> [Tasks -> Shards]]
      /\ \A b \in Batches, t \in Tasks :
            shard[b][t].state # "failed" => shard'[b][t] = shard[b][t]
  BY <1>2, <1>4, ShardFacts DEF ResumeRun
<1>6. TypeOK'
  BY <1>1, <1>3, <1>5 DEF TypeOK, Working, Shards
<1>7. ClaimOK'
  BY <1>1, <1>3, <1>5 DEF ClaimOK
<1>8. \A b \in Batches, t \in Tasks : shard[b][t].state = "none" => shard'[b][t] = shard[b][t]
  BY <1>5
<1>9. TasksOK' /\ ValidOK' /\ OutputOK'
  <2>1. TasksOK'
    BY <1>3, <1>8 DEF TasksOK, TasksOf
  <2>2. ValidOK'
    BY <1>1, <1>3, <1>5 DEF ValidOK
  <2>3. OutputOK'
    BY <1>1 DEF OutputOK
  <2> QED
    BY <2>1, <2>2, <2>3
<1>10. PlaceOK'
  BY <1>1, <1>2, <1>3 DEF PlaceOK, Working, InBatch, Launched, Merging
<1>11. DriftOK'
  BY <1>1, <1>3 DEF DriftOK, Working
<1> QED
  BY <1>6, <1>7, <1>9, <1>10, <1>11

LEMMA StartRunOK == IInv /\ StartRun => IInv'
<1> SUFFICES ASSUME IInv, StartRun PROVE IInv'
  OBVIOUS
<1> USE DEF IInv, files, world
<1>1. /\ pc = "launch" /\ ~launch[batch] /\ forge[batch] = None /\ pc' = "started"
      /\ UNCHANGED <<job, batch, suspects, quarantined, files, claim, silent, silences, world>>
  BY DEF StartRun, Go
<1>2. batch \in Batches /\ job \in Jobs
  BY <1>1 DEF TypeOK, PlaceOK, Working
<1> DEFINE new == [shards |-> job.shards, net |-> job.net, corpus |-> corpus, active |-> TRUE]
<1>3. new \in Runs /\ new # None
  <2>1. new \in Runs
    BY <1>2 DEF TypeOK, Runs, Jobs
  <2> HIDE DEF new
  <2> QED
    BY <2>1, NoneAssumption DEF NoneAssumption
<1>4. /\ forge' \in [Batches -> {None} \cup Runs]
      /\ forge'[batch] = new
      /\ \A b \in Batches : b # batch => forge'[b] = forge[b]
  <2>1. forge' = [forge EXCEPT ![batch] = new]
    BY DEF StartRun
  <2> HIDE DEF new
  <2> QED
    BY <1>2, <1>3, <2>1 DEF TypeOK
<1>5. shard \in [Batches -> [Tasks -> Shards]]
  BY DEF TypeOK, Shards
<1>6. /\ shard' \in [Batches -> [Tasks -> Shards]]
      /\ \A t \in Tasks : shard'[batch][t] = Task(IF t <= job.shards THEN "pending" ELSE "none")
      /\ \A b \in Batches, t \in Tasks : b # batch => shard'[b][t] = shard[b][t]
  <2>1. shard' = [shard EXCEPT ![batch] =
                     [t \in Tasks |-> Task(IF t <= job.shards THEN "pending" ELSE "none")]]
    BY DEF StartRun
  <2>2. [t \in Tasks |-> Task(IF t <= job.shards THEN "pending" ELSE "none")] \in [Tasks -> Shards]
    BY ShardFacts
  <2> QED
    BY <1>2, <1>5, <2>1, <2>2
<1>7. TypeOK'
  BY <1>1, <1>4, <1>6 DEF TypeOK, Working, Shards
<1>8. ClaimOK'
  BY <1>1, <1>4, <1>6 DEF ClaimOK
<1>9. TasksOK'
  <2> SUFFICES ASSUME NEW b \in Batches, NEW t \in Tasks, shard'[b][t].state # "none"
               PROVE  forge'[b] # None /\ t \in 1 .. forge'[b].shards
    BY DEF TasksOK, TasksOf
  <2>1. CASE b = batch
    <3>1. t <= job.shards
      BY <1>6, <2>1, TaskFacts
    <3>2. t \in Nat /\ t >= 1 /\ job.shards \in Nat
      BY <1>2, BoundsNat DEF Jobs, Tasks
    <3> QED
      BY <1>3, <1>4, <2>1, <3>1, <3>2
  <2>2. CASE b # batch
    BY <1>4, <1>6, <2>2 DEF TasksOK, TasksOf
  <2> QED
    BY <2>1, <2>2
<1>10. ValidOK' /\ OutputOK'
  BY <1>1, <1>4, <1>6 DEF ValidOK, OutputOK
<1>11. PlaceOK'
  BY <1>1, <1>3, <1>4 DEF PlaceOK, Working, InBatch, Launched, Merging
<1>12. DriftOK'
  <2>1. ~touched => workState = corpus /\ workState # None
    BY <1>1, Lc0PipelineAssumption DEF DriftOK, Working, TypeOK, Lc0PipelineAssumption
  <2> QED
    BY <1>1, <1>3, <1>4, <2>1 DEF DriftOK, Working
<1> QED
  BY <1>7, <1>8, <1>9, <1>10, <1>11, <1>12

LEMMA RefusePartitionOK == IInv /\ RefusePartition => IInv'
<1> SUFFICES ASSUME IInv, RefusePartition PROVE IInv'
  OBVIOUS
<1> USE DEF IInv, files, world
<1>1. /\ pc = "started" /\ pc' = "partition"
      /\ UNCHANGED <<job, batch, suspects, quarantined, files, shard, claim, silent, silences,
                     world>>
  BY DEF RefusePartition, End, Go
<1>2. batch \in Batches /\ forge[batch] # None /\ forge[batch] \in Runs
  BY <1>1 DEF TypeOK, PlaceOK, Launched, InBatch
<1>3. /\ forge' \in [Batches -> {None} \cup Runs]
      /\ \A b \in Batches :
            /\ (forge'[b] = None) <=> (forge[b] = None)
            /\ forge[b] # None =>
                  forge'[b].shards = forge[b].shards /\ forge'[b].corpus = forge[b].corpus
  <2>1. forge' = [forge EXCEPT ![batch].active = FALSE]
    BY DEF RefusePartition
  <2>2. [forge[batch] EXCEPT !.active = FALSE] \in Runs
    BY <1>2 DEF Runs
  <2>3. forge \in [Batches -> {None} \cup Runs]
    BY DEF TypeOK
  <2>4. /\ forge' \in [Batches -> {None} \cup Runs]
        /\ forge'[batch] = [forge[batch] EXCEPT !.active = FALSE]
        /\ \A b \in Batches : b # batch => forge'[b] = forge[b]
    BY <1>2, <2>1, <2>2, <2>3
  <2>5. forge'[batch] # None
    BY <2>2, <2>4, NoneAssumption DEF NoneAssumption
  <2>6. forge'[batch].shards = forge[batch].shards /\ forge'[batch].corpus = forge[batch].corpus
    BY <1>2, <2>4 DEF Runs
  <2> QED
    BY <1>2, <2>4, <2>5, <2>6
<1>4. TypeOK'
  BY <1>1, <1>3 DEF TypeOK, Refused
<1>5. ClaimOK' /\ TasksOK' /\ ValidOK' /\ OutputOK'
  BY <1>1, <1>3 DEF ClaimOK, TasksOK, ValidOK, OutputOK, TasksOf
<1>6. PlaceOK'
  BY <1>1, <1>3 DEF PlaceOK, Working, InBatch, Launched, Merging
<1>7. DriftOK'
  BY <1>1, <1>3 DEF DriftOK, Working
<1> QED
  BY <1>4, <1>5, <1>6, <1>7

LEMMA RecordLaunchOK == IInv /\ RecordLaunch => IInv'
<1> SUFFICES ASSUME IInv, RecordLaunch PROVE IInv'
  OBVIOUS
<1> USE DEF IInv, RecordLaunch, Go, cluster, world
<1>1. forge[batch] # None
  BY DEF PlaceOK, Launched, InBatch
<1>2. TypeOK'
  BY DEF TypeOK, Working
<1>3. ClaimOK' /\ TasksOK' /\ ValidOK' /\ OutputOK'
  BY DEF ClaimOK, TasksOK, ValidOK, OutputOK, TasksOf
<1>4. PlaceOK'
  BY <1>1 DEF PlaceOK, TypeOK, Working, InBatch, Launched, Merging
<1>5. DriftOK'
  BY DEF DriftOK, Working
<1> QED
  BY <1>2, <1>3, <1>4, <1>5

LEMMA CollectOK == IInv /\ Collect => IInv'
<1> SUFFICES ASSUME IInv, Collect PROVE IInv'
  OBVIOUS
<1> USE DEF IInv, Collect, Go, files, cluster, world
<1>1. TypeOK'
  BY DEF TypeOK, Working
<1>2. ClaimOK' /\ TasksOK' /\ ValidOK' /\ OutputOK'
  BY DEF ClaimOK, TasksOK, ValidOK, OutputOK, TasksOf
<1>3. PlaceOK'
  BY DEF PlaceOK, Working, InBatch, Launched, Merging
<1>4. DriftOK'
  BY DEF DriftOK, Working
<1> QED
  BY <1>1, <1>2, <1>3, <1>4

LEMMA ValidateShardsOK == IInv /\ ValidateShards => IInv'
<1> SUFFICES ASSUME IInv, ValidateShards PROVE IInv'
  OBVIOUS
<1> USE DEF IInv, ValidateShards, Go, files, cluster, world
<1>1. TypeOK'
  BY DEF TypeOK, Working
<1>2. ClaimOK' /\ TasksOK' /\ ValidOK' /\ OutputOK'
  BY DEF ClaimOK, TasksOK, ValidOK, OutputOK, TasksOf
<1>3. PlaceOK'
  BY DEF PlaceOK, Working, InBatch, Launched, Merging, TasksOf, Accepts
<1>4. DriftOK'
  BY DEF DriftOK, Working
<1> QED
  BY <1>1, <1>2, <1>3, <1>4

LEMMA MergeBatchOK == IInv /\ MergeBatch => IInv'
<1> SUFFICES ASSUME IInv, MergeBatch PROVE IInv'
  OBVIOUS
<1> USE DEF IInv, cluster, world
<1> DEFINE new == [corpus |-> forge[batch].corpus, shards |-> forge[batch].shards,
                   results |-> [t \in TasksOf(batch) |-> shard[batch][t]]]
<1>1. /\ pc = "merge" /\ pc' = "vouch"
      /\ UNCHANGED <<job, batch, suspects, quarantined, workState, plan, launch, valid, output,
                     provenance, cluster, world>>
  BY DEF MergeBatch, Go
<1>2. /\ batch \in Batches /\ job \in Jobs /\ job.net \in Nets
      /\ forge[batch] # None /\ forge[batch] \in Runs
  BY <1>1 DEF TypeOK, PlaceOK, Working, Launched, InBatch, Jobs
<1>3. TasksOf(batch) = 1 .. forge[batch].shards /\ TasksOf(batch) \subseteq Tasks
  BY <1>2, BoundsNat DEF TasksOf, Runs, Tasks
<1>4. \A t \in TasksOf(batch) : shard[batch][t] = Done(job.net, TRUE)
  BY <1>1, <1>2, <1>3, AcceptedIsDone DEF PlaceOK
<1>5. \A t \in TasksOf(batch) : shard[batch][t] \in Results
  <2>1. Done(job.net, TRUE) \in Results
    BY <1>2, ShardFacts
  <2> QED
    BY <1>4, <2>1
<1>6. new \in Merges
  <2>1. [t \in TasksOf(batch) |-> shard[batch][t]] \in UNION {[1 .. n -> Results] : n \in Tasks}
    BY <1>2, <1>3, <1>5 DEF Runs
  <2> QED
    BY <1>2, <2>1 DEF Merges, Runs
<1>7. Complete(new)
  <2>1. \A t \in 1 .. new.shards : new.results[t] = Done(job.net, TRUE)
    BY <1>3, <1>4
  <2> QED
    BY <1>2, <1>6, <2>1 DEF Complete
<1>8. new.corpus = forge[batch].corpus
  OBVIOUS
<1>9. merged' = [merged EXCEPT ![batch] = new]
  BY DEF MergeBatch
<1> HIDE DEF new
<1>10. /\ merged'[batch] = new
       /\ \A b \in Batches : b # batch => merged'[b] = merged[b]
       /\ merged' \in [Batches -> {None} \cup Merges]
  BY <1>2, <1>6, <1>9 DEF TypeOK
<1>11. ~valid[batch]
  BY <1>1 DEF PlaceOK, InBatch
<1>12. TypeOK'
  BY <1>1, <1>10 DEF TypeOK, Working
<1>13. ClaimOK' /\ TasksOK' /\ ValidOK' /\ OutputOK'
  BY <1>1, <1>10, <1>11 DEF ClaimOK, TasksOK, ValidOK, OutputOK, TasksOf
<1>14. PlaceOK'
  BY <1>1, <1>7, <1>10 DEF PlaceOK, Working, InBatch, Launched, Merging, TasksOf, Accepts
<1>15. DriftOK'
  BY <1>1, <1>2, <1>8, <1>10, <1>11 DEF DriftOK, Working
<1> QED
  BY <1>12, <1>13, <1>14, <1>15

LEMMA VouchBatchOK == IInv /\ VouchBatch => IInv'
<1> SUFFICES ASSUME IInv, VouchBatch PROVE IInv'
  OBVIOUS
<1> USE DEF IInv, cluster, world
<1>1. /\ pc = "vouch" /\ batch \in Batches /\ NextBatch
      /\ UNCHANGED <<workState, plan, launch, merged, output, provenance, cluster, world>>
      /\ valid' \in [Batches -> BOOLEAN]
      /\ valid'[batch]
      /\ \A b \in Batches : b # batch => valid'[b] = valid[b]
  BY DEF VouchBatch, TypeOK
<1>2. /\ pc' \in {"batch", "final"} /\ batch' \in Batches /\ job' = job
      /\ \A b \in Batches : b < batch' => valid'[b]
      /\ pc' = "final" => \A b \in Batches : valid'[b]
  BY <1>1, NextBatchOK
<1>3. forge[batch] # None /\ forge[batch] \in Runs /\ Complete(merged[batch])
  BY <1>1 DEF PlaceOK, Launched, InBatch, TypeOK
<1>4. \A t \in Tasks : shard[batch][t].state \in {"none", "done"}
  <2> SUFFICES ASSUME NEW t \in Tasks, shard[batch][t].state # "none"
               PROVE  shard[batch][t].state = "done"
    OBVIOUS
  <2>1. t \in TasksOf(batch)
    BY <1>1 DEF TasksOK
  <2>2. Accepts(shard[batch][t])
    BY <1>1, <2>1 DEF PlaceOK
  <2> QED
    BY <1>1, <2>2, AcceptedIsDone
<1>5. TypeOK'
  BY <1>1, <1>2 DEF TypeOK, Working, NextBatch
<1>6. ClaimOK' /\ TasksOK' /\ OutputOK'
  BY <1>1 DEF ClaimOK, TasksOK, OutputOK, TasksOf
<1>7. ValidOK'
  BY <1>1, <1>3, <1>4 DEF ValidOK
<1>8. PlaceOK'
  BY <1>1, <1>2 DEF PlaceOK, Working, InBatch, Launched, Merging
<1>9. DriftOK'
  BY <1>1, <1>2 DEF DriftOK, Working
<1> QED
  BY <1>5, <1>6, <1>7, <1>8, <1>9

LEMMA PublishOK == IInv /\ Publish => IInv'
<1> SUFFICES ASSUME IInv, Publish PROVE IInv'
  OBVIOUS
<1> USE DEF IInv, Publish, Go, cluster, world
<1>1. \A b \in Batches : valid[b]
  BY DEF PlaceOK, Merging
<1>2. TypeOK'
  BY DEF TypeOK, Working
<1>3. ClaimOK' /\ TasksOK' /\ ValidOK'
  BY DEF ClaimOK, TasksOK, ValidOK, TasksOf
<1>4. OutputOK'
  BY <1>1 DEF OutputOK, ValidOK
<1>5. PlaceOK'
  BY <1>1 DEF PlaceOK, Working, InBatch, Launched, Merging
<1>6. DriftOK'
  BY <1>1, BoundsNat DEF DriftOK, ValidOK, Working
<1> QED
  BY <1>2, <1>3, <1>4, <1>5, <1>6

LEMMA WriteProvenanceOK == IInv /\ WriteProvenance => IInv'
<1> SUFFICES ASSUME IInv, WriteProvenance PROVE IInv'
  OBVIOUS
<1> USE DEF IInv, WriteProvenance, End, Go, cluster, world
<1>1. job.net \in Nets
  BY DEF PlaceOK, Working, Jobs
<1>2. TypeOK'
  BY <1>1 DEF TypeOK
<1>3. ClaimOK' /\ TasksOK' /\ ValidOK' /\ OutputOK'
  BY DEF ClaimOK, TasksOK, ValidOK, OutputOK, TasksOf
<1>4. PlaceOK'
  BY DEF PlaceOK, Working, InBatch, Launched, Merging
<1>5. DriftOK'
  BY DEF DriftOK, Working
<1> QED
  BY <1>2, <1>3, <1>4, <1>5

LEMMA NextOK == IInv /\ [Next]_vars => IInv'
BY StutterOK, StartOK, RefusalsOK, ChangeArchivesOK, ReplaceNetOK, HeartbeatOK, ClaimStepOK,
   LabelOK, ReapOK, VerifyWorkStateOK, ReuseValidOK, PlanBatchOK, ResumeRunOK, StartRunOK,
   RefusePartitionOK, RecordLaunchOK, PollOK, CollectOK, ValidateShardsOK, MergeBatchOK,
   VouchBatchOK, PublishOK, WriteProvenanceOK
   DEF Next, Script, Worker

-----------------------------------------------------------------------------
(* The theorems. *)

\* The conjunction the theorems below rest on holds of every state.
THEOREM Invariant == Spec => []IInv
BY InitOK, NextOK, PTL DEF Spec

\* Every variable keeps its type, for any number of batches, shards and workers.
THEOREM TypeCorrect == Spec => []TypeOK
<1>1. IInv => TypeOK
  BY DEF IInv
<1> QED
  BY <1>1, Invariant, PTL

\* lc0_to_enyo_bullet.py:684-764 and 982-992: the published corpus has every batch and
\* every shard, each labelled soundly, for any number of kills, lost workers and repeated
\* labels.
THEOREM PublishedCorpusIsComplete == Spec => []CorpusIsComplete
<1>1. IInv => CorpusIsComplete
  <2> SUFFICES ASSUME IInv, output # None, NEW b \in Batches
               PROVE  /\ output[b] # None
                      /\ \A t \in 1 .. output[b].shards :
                            /\ output[b].results[t] \in Results
                            /\ output[b].results[t].sound
    BY DEF CorpusIsComplete
  <2>1. output[b] \in Merges
    BY DEF IInv, OutputOK, Complete
  <2>2. PICK n \in Nets : \A t \in 1 .. output[b].shards : output[b].results[t] = Done(n, TRUE)
    BY DEF IInv, OutputOK, Complete
  <2>3. output[b] # None
    BY <2>1, NoneAssumption DEF NoneAssumption
  <2>4. Done(n, TRUE) \in Results /\ Done(n, TRUE).sound
    BY DoneFacts, ShardFacts
  <2> QED
    BY <2>2, <2>3, <2>4
<1> QED
  BY <1>1, Invariant, PTL

\* lc0_to_enyo_bullet.py:726: no published batch mixes nets, however often the net is
\* replaced and the batch resumed.
THEOREM PublishedBatchHasOneNet == Spec => []BatchHasOneNet
<1>1. IInv => BatchHasOneNet
  BY DEF IInv, OutputOK, Complete, BatchHasOneNet
<1> QED
  BY <1>1, Invariant, PTL

\* lc0_to_enyo_bullet.py:564-587: a change of the archives between two starts is never
\* published.
THEOREM PublishedCorpusHasNotDrifted == Spec => []DriftIsCaught
<1>1. IInv => DriftIsCaught
  BY DEF IInv, DriftOK, DriftIsCaught
<1> QED
  BY <1>1, Invariant, PTL

\* No step of Forge or of the script disturbs the tasks of a valid batch.
LEMMA ValidTasksStay ==
    ASSUME IInv, Next, NEW b \in Batches, valid[b], NEW t \in Tasks
    PROVE  shard'[b][t] = shard[b][t]
<1> USE DEF IInv
<1>1. shard \in [Batches -> [Tasks -> Shards]]
  BY DEF TypeOK, Shards
<1>2. shard[b][t].state \in {"none", "done"}
  BY DEF ValidOK
<1>3. ASSUME NEW w \in Workers, Claim(w)
      PROVE  shard'[b][t] = shard[b][t]
  <2>1. PICK c \in Batches, u \in Tasks :
           /\ shard[c][u].state = "pending"
           /\ shard' = [shard EXCEPT ![c][u] = Task("claimed")]
    BY <1>3 DEF Claim
  <2>2. ~(c = b /\ u = t)
    BY <1>2, <2>1
  <2> QED
    BY <1>1, <2>1, <2>2
<1>4. ASSUME NEW w \in Workers, Label(w)
      PROVE  shard'[b][t] = shard[b][t]
  <2>1. PICK c \in Batches, u \in Tasks : claim[w] = <<c, u>>
    BY <1>4 DEF Label, TypeOK
  <2>2. shard[c][u].state = "claimed"
    BY <2>1 DEF ClaimOK
  <2>3. claim[w][1] = c /\ claim[w][2] = u
    BY <2>1
  <2>4. PICK result : shard' = [shard EXCEPT ![c][u] = result]
    BY <1>4, <2>3 DEF Label
  <2>5. ~(c = b /\ u = t)
    BY <1>2, <2>2
  <2> QED
    BY <1>1, <2>4, <2>5
<1>5. ASSUME NEW W \in SUBSET Workers, Release(W)
      PROVE  shard'[b][t] = shard[b][t]
  BY <1>2, <1>5, ReleaseOK
<1>6. ASSUME NEW w \in Workers, Reap(w)
      PROVE  shard'[b][t] = shard[b][t]
  BY <1>5, <1>6 DEF Reap
<1>7. CASE Poll
  <2>1. \E Q \in SUBSET Workers : Release(Q)
    BY <1>7 DEF Poll, TypeOK
  <2> QED
    BY <1>5, <2>1
<1>8. CASE ResumeRun
  <2>1. b # batch
    BY <1>8 DEF ResumeRun, PlaceOK, InBatch
  <2> QED
    BY <1>1, <1>8, <2>1 DEF ResumeRun
<1>9. CASE StartRun
  <2>1. b # batch
    BY <1>9 DEF StartRun, PlaceOK, InBatch
  <2> QED
    BY <1>1, <1>9, <2>1 DEF StartRun
<1>10. CASE Start \/ Crash \/ ChangeArchives \/ ReplaceNet
  BY <1>10 DEF Start, Crash, ChangeArchives, ReplaceNet, cluster
<1>11. ASSUME NEW w \in Workers, FallSilent(w) \/ Recover(w)
       PROVE  shard'[b][t] = shard[b][t]
  BY <1>11 DEF FallSilent, Recover
<1>12. CASE \/ VerifyWorkState \/ RefuseDrift \/ ReuseValid \/ PlanBatch \/ RefusePreflight
            \/ RefusePartition \/ RecordLaunch \/ RefuseFailed \/ Collect \/ RefuseShard
            \/ ValidateShards \/ MergeBatch \/ RefuseDistribution \/ VouchBatch \/ Publish
            \/ WriteProvenance
  BY <1>12 DEF VerifyWorkState, RefuseDrift, ReuseValid, PlanBatch, RefusePreflight,
     RefusePartition, RecordLaunch, RefuseFailed, Collect, RefuseShard, ValidateShards,
     MergeBatch, RefuseDistribution, VouchBatch, Publish, WriteProvenance, cluster
<1> QED
  BY <1>3, <1>4, <1>6, <1>7, <1>8, <1>9, <1>10, <1>11, <1>12 DEF Next, Script, Worker

\* No step of the script takes a validation back, or touches the files it vouches for.
LEMMA ValidFilesStay ==
    ASSUME IInv, Next, NEW b \in Batches, valid[b]
    PROVE  valid'[b] /\ plan'[b] = plan[b] /\ merged'[b] = merged[b]
<1> USE DEF IInv
<1>1. CASE PlanBatch
  BY <1>1 DEF PlanBatch, TypeOK
<1>2. CASE MergeBatch
  <2>1. b # batch
    BY <1>2 DEF MergeBatch, PlaceOK, InBatch
  <2> QED
    BY <1>2, <2>1 DEF MergeBatch, TypeOK
<1>3. CASE VouchBatch
  BY <1>3 DEF VouchBatch, TypeOK
<1>4. CASE ~(PlanBatch \/ MergeBatch \/ VouchBatch)
  <2>1. UNCHANGED <<valid, plan, merged>>
    BY <1>4 DEF Next, Script, Worker, Start, Crash, ChangeArchives, ReplaceNet, Claim, Label,
       FallSilent, Recover, Reap, VerifyWorkState, RefuseDrift, ReuseValid, ResumeRun,
       StartRun, RefusePreflight, RefusePartition, RecordLaunch, Poll, RefuseFailed, Collect,
       RefuseShard, ValidateShards, RefuseDistribution, Publish, WriteProvenance, files
  <2> QED
    BY <2>1
<1> QED
  BY <1>1, <1>2, <1>3, <1>4

\* lc0_to_enyo_bullet.py:937-947: what is valid is never planned, labelled or merged
\* again, whatever the workers still hold.
THEOREM ValidBatchIsNeverRedone == Spec => ValidBatchIsKept
<1> DEFINE Kept(b) == valid[b] =>
          /\ valid'[b]
          /\ <<plan[b], shard[b], merged[b]>>' = <<plan[b], shard[b], merged[b]>>
<1>1. ASSUME IInv, Next, NEW b \in Batches, valid[b]
      PROVE  /\ valid'[b]
             /\ <<plan[b], shard[b], merged[b]>>' = <<plan[b], shard[b], merged[b]>>
  <2>1. shard[b] \in [Tasks -> Shards] /\ shard'[b] \in [Tasks -> Shards]
    BY <1>1, NextOK DEF IInv, TypeOK, Shards
  <2>2. \A t \in Tasks : shard'[b][t] = shard[b][t]
    BY <1>1, ValidTasksStay
  <2>3. shard'[b] = shard[b]
    BY <2>1, <2>2
  <2> QED
    BY <1>1, <2>3, ValidFilesStay
<1>2. IInv /\ [Next]_vars => [\A b \in Batches : Kept(b)]_vars
  BY <1>1
<1> QED
  BY <1>2, Invariant, PTL DEF Spec, ValidBatchIsKept

=============================================================================
