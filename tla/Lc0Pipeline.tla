---------------------------- MODULE Lc0Pipeline ----------------------------
(***************************************************************************)
(* The conversion of an LC0 corpus: tools/forge/lc0_to_enyo_bullet.py.     *)
(*                                                                         *)
(* The archives are divided into batches, one Forge run each, which are    *)
(* launched, waited for, validated and merged one after another.  A work   *)
(* directory says how far an earlier process came: work-state.json binds   *)
(* it to the archives, and every batch has a plan, a launch record, a      *)
(* merged output and a validation.  All of these, the published corpus and *)
(* its provenance are replaced by renames, so a file is whole or absent.   *)
(*                                                                         *)
(* The process may die anywhere, the archives and the net may be replaced  *)
(* at any time, Forge's workers fall silent and come back, and a shard may *)
(* fail or be labelled under the wrong net.  Forge itself is not in this   *)
(* repository: it is modelled from how the script uses it.  The records    *)
(* nobody reads back (shards/, logs/, quarantine/, final/) and the caches  *)
(* that are emptied are left out.                                          *)
(***************************************************************************)
EXTENDS Naturals

CONSTANTS
    NumBatches,    \* batches the archives are divided into
    MaxShards,     \* bound on the Forge tasks of a batch
    Workers,       \* Forge's workers
    MaxChanges,    \* bound on how often the archives are changed
    MaxNets,       \* bound on how often the net is replaced
    MaxSilences,   \* bound on how often a worker falls silent
    MaxRuns,       \* bound on how often the script is started
    None           \* no such file, no such run

Batches == 1 .. NumBatches
Tasks == 1 .. MaxShards
Corpora == 0 .. MaxChanges
Nets == 0 .. MaxNets

Working == {"verify", "batch", "launch", "started", "wait", "collect", "shards",
            "merge", "vouch", "final", "sign"}
Refused == {"exists", "drift", "replanned", "preflight", "partition", "failed",
            "invalid", "degenerate"}

ASSUME Lc0PipelineAssumption ==
    /\ {NumBatches, MaxShards} \subseteq Nat \ {0}
    /\ {MaxChanges, MaxNets, MaxSilences, MaxRuns} \subseteq Nat
    /\ None \notin Corpora \cup Tasks \cup Workers

VARIABLES
    pc,           \* where the script is, or how it ended
    job,          \* what it was started with: the net's hash and --shards
    batch,        \* the batch it is at
    suspects,     \* stale_since: workers seen stale, and not since seen alive
    quarantined,  \* workers it has deleted from this run
    workState,    \* work-state.json: the archives it is bound to
    plan,         \* plan.json of each batch
    launch,       \* launch.json of each batch
    merged,       \* output.bullet of each batch
    valid,        \* batch-validation.json of each batch
    output,       \* the published corpus
    provenance,   \* its manifest: the net it names
    forge,        \* the Forge run of each batch, and with it the output directory
    shard,        \* its tasks
    claim,        \* the task a worker has claimed
    silent,       \* workers without a recent heartbeat
    corpus,       \* the archives as they are
    net,          \* the net as it is
    touched,      \* history: the archives were changed under a running script
    silences,
    runs

memory == <<pc, job, batch, suspects, quarantined>>
files == <<workState, plan, launch, merged, valid, output, provenance>>
cluster == <<forge, shard, claim, silent, silences>>
world == <<corpus, net, touched, runs>>
vars == <<memory, files, cluster, world>>

----------------------------------------------------------------------------
Idle == pc \notin Working

\* A task of a Forge run. Its stats name a net, and show whether a UCI search took
\* place with the net loaded and without an error.
Task(state) == [state |-> state, net |-> None, sound |-> FALSE]
Done(n, sound) == [state |-> "done", net |-> n, sound |-> sound]
Results == {Done(n, sound) : n \in Nets, sound \in BOOLEAN}

\* A Forge run, and the merged output of one.
Runs == [shards : Tasks, net : Nets, corpus : Corpora, active : BOOLEAN]
Merges == [corpus : Corpora, shards : Tasks,
           results : UNION {[1 .. n -> Results] : n \in Tasks}]

ASSUME NoneAssumption ==
    None \notin Runs \cup Merges \cup (Batches \X Tasks)

\* Mutant: a task that failed is waited for.
OutstandingOrFailed == {"pending", "claimed", "failed"}

Outstanding == {"pending", "claimed"}

TasksOf(b) == 1 .. forge[b].shards

Init ==
    /\ pc = "off" /\ job = None /\ batch = 1
    /\ suspects = {} /\ quarantined = {}
    /\ workState = None
    /\ plan = [b \in Batches |-> None]
    /\ launch = [b \in Batches |-> FALSE]
    /\ merged = [b \in Batches |-> None]
    /\ valid = [b \in Batches |-> FALSE]
    /\ output = None /\ provenance = None
    /\ forge = [b \in Batches |-> None]
    /\ shard = [b \in Batches |-> [t \in Tasks |-> Task("none")]]
    /\ claim = [w \in Workers |-> None]
    /\ silent = {} /\ silences = 0
    /\ corpus = 0 /\ net = 0 /\ touched = FALSE /\ runs = 0

Go(place) == pc' = place /\ UNCHANGED <<job, batch, suspects, quarantined>>
End(outcome) == Go(outcome)

----------------------------------------------------------------------------
\* The user and the machine.

\* The script is started; a published corpus is never overwritten.
Start ==
    /\ Idle /\ runs < MaxRuns
    /\ runs' = runs + 1
    /\ \E shards \in Tasks : job' = [shards |-> shards, net |-> net]
    /\ pc' = IF output = None THEN "verify" ELSE "exists"
    /\ batch' = 1 /\ suspects' = {} /\ quarantined' = {}
    /\ UNCHANGED <<files, cluster, corpus, net, touched>>

\* A kill, or a command whose failure the script does not survive.
Crash ==
    /\ pc \in Working
    /\ End("off")
    /\ UNCHANGED <<files, cluster, world>>

ChangeArchives ==
    /\ corpus < MaxChanges
    /\ corpus' = corpus + 1
    /\ touched' = (touched \/ ~Idle)
    /\ UNCHANGED <<memory, files, cluster, net, runs>>

ReplaceNet ==
    /\ net < MaxNets
    /\ net' = net + 1
    /\ UNCHANGED <<memory, files, cluster, corpus, touched, runs>>

----------------------------------------------------------------------------
\* Forge and its workers.

Claim(w) ==
    /\ w \notin silent /\ claim[w] = None
    /\ \E b \in Batches, t \in Tasks :
          /\ forge[b] # None /\ forge[b].active
          /\ shard[b][t].state = "pending"
          /\ shard' = [shard EXCEPT ![b][t] = Task("claimed")]
          /\ claim' = [claim EXCEPT ![w] = <<b, t>>]
    /\ UNCHANGED <<memory, files, forge, silent, silences, world>>

\* label.py hashes the net it finds, which Forge compares with the run's before the
\* task starts; a slow worker gets there without a heartbeat, too.
Label(w) ==
    /\ claim[w] # None
    /\ LET b == claim[w][1]
           t == claim[w][2]
       IN  \E n \in forge[b].net .. net, sound \in BOOLEAN :
              \E result \in {Task("failed"), Done(n, sound)} :
                  shard' = [shard EXCEPT ![b][t] = result]
    /\ claim' = [claim EXCEPT ![w] = None]
    /\ UNCHANGED <<memory, files, forge, silent, silences, world>>

FallSilent(w) ==
    /\ w \notin silent /\ silences < MaxSilences
    /\ silent' = silent \cup {w} /\ silences' = silences + 1
    /\ UNCHANGED <<memory, files, forge, shard, claim, world>>

Recover(w) ==
    /\ w \in silent
    /\ silent' = silent \ {w}
    /\ UNCHANGED <<memory, files, forge, shard, claim, silences, world>>

\* What the workers W had claimed can be claimed again.
Release(W) ==
    /\ shard' = [b \in Batches |-> [t \in Tasks |->
                    IF \E w \in W : claim[w] = <<b, t>> THEN Task("pending") ELSE shard[b][t]]]
    /\ claim' = [w \in Workers |-> IF w \in W THEN None ELSE claim[w]]
    /\ UNCHANGED <<forge, silent, silences>>

\* The lease of a silent worker's claim runs out.
Reap(w) ==
    /\ w \in silent /\ claim[w] # None
    /\ Release({w})
    /\ UNCHANGED <<memory, files, world>>

----------------------------------------------------------------------------
\* init_or_verify_work_state

\* Mutant: the archives are not compared with those of the last run.
VerifyAnyWorkState ==
    /\ pc = "verify"
    /\ workState' = IF workState = None THEN corpus ELSE workState
    /\ Go("batch")
    /\ UNCHANGED <<plan, launch, merged, valid, output, provenance, cluster, world>>

VerifyWorkState ==
    /\ pc = "verify"
    /\ workState \in {None, corpus}
    /\ workState' = corpus
    /\ Go("batch")
    /\ UNCHANGED <<plan, launch, merged, valid, output, provenance, cluster, world>>

RefuseDrift ==
    /\ pc = "verify"
    /\ workState \notin {None, corpus}
    /\ End("drift")
    /\ UNCHANGED <<files, cluster, world>>

----------------------------------------------------------------------------
\* One batch.

\* Mutant: one batch too many.
NextBatchPast ==
    /\ pc' = IF batch > NumBatches THEN "final" ELSE "batch"
    /\ batch' = IF batch > NumBatches THEN batch ELSE batch + 1
    /\ suspects' = {} /\ quarantined' = {}
    /\ UNCHANGED job

NextBatch ==
    /\ pc' = IF batch = NumBatches THEN "final" ELSE "batch"
    /\ batch' = IF batch = NumBatches THEN batch ELSE batch + 1
    /\ suspects' = {} /\ quarantined' = {}
    /\ UNCHANGED job

ReuseValid ==
    /\ pc = "batch" /\ valid[batch]
    /\ NextBatch
    /\ UNCHANGED <<files, cluster, world>>

\* Mutant: the plan is written before the validation is looked at.
PlanAnyBatch ==
    /\ pc = "batch"
    /\ LET wanted == [corpus |-> corpus, shards |-> job.shards]
       IN  /\ plan' = [plan EXCEPT ![batch] = wanted]
           /\ IF plan[batch] \in {None, wanted} THEN Go("launch") ELSE End("replanned")
    /\ UNCHANGED <<workState, launch, merged, valid, output, provenance, cluster, world>>

\* The new plan is on disk by the time it is compared with the old one.
PlanBatch ==
    /\ pc = "batch" /\ ~valid[batch]
    /\ LET wanted == [corpus |-> corpus, shards |-> job.shards]
       IN  /\ plan' = [plan EXCEPT ![batch] = wanted]
           /\ IF plan[batch] \in {None, wanted} THEN Go("launch") ELSE End("replanned")
    /\ UNCHANGED <<workState, launch, merged, valid, output, provenance, cluster, world>>

\* forge resume: tasks that failed are queued again.
ResumeRun ==
    /\ pc = "launch" /\ launch[batch]
    /\ forge' = [forge EXCEPT ![batch].active = TRUE]
    /\ shard' = [shard EXCEPT ![batch] =
                    [t \in Tasks |-> IF @[t].state = "failed" THEN Task("pending") ELSE @[t]]]
    /\ Go("wait")
    /\ UNCHANGED <<files, claim, silent, silences, world>>

\* forge start with the manifest of the preflight, which hashes the archives again.
StartRun ==
    /\ pc = "launch" /\ ~launch[batch]
    /\ forge[batch] = None
    /\ forge' = [forge EXCEPT ![batch] = [shards |-> job.shards, net |-> job.net,
                                         corpus |-> corpus, active |-> TRUE]]
    /\ shard' = [shard EXCEPT ![batch] =
                    [t \in Tasks |-> Task(IF t <= job.shards THEN "pending" ELSE "none")]]
    /\ Go("started")
    /\ UNCHANGED <<files, claim, silent, silences, world>>

\* Forge does not plan into an output directory that exists.
RefusePreflight ==
    /\ pc = "launch" /\ ~launch[batch]
    /\ forge[batch] # None
    /\ End("preflight")
    /\ UNCHANGED <<files, cluster, world>>

\* The materialized partition is not that of the preflight: the run is stopped.
RefusePartition ==
    /\ pc = "started"
    /\ forge' = [forge EXCEPT ![batch].active = FALSE]
    /\ End("partition")
    /\ UNCHANGED <<files, shard, claim, silent, silences, world>>

RecordLaunch ==
    /\ pc = "started"
    /\ launch' = [launch EXCEPT ![batch] = TRUE]
    /\ Go("wait")
    /\ UNCHANGED <<workState, plan, merged, valid, output, provenance, cluster, world>>

\* One turn of wait_with_quarantine: a worker that was stale for the grace period is
\* deleted, once; the tasks are counted as they were before.
Poll ==
    /\ pc = "wait"
    /\ \E Q \in SUBSET ((suspects \cap silent) \ quarantined) :
          /\ quarantined' = quarantined \cup Q
          /\ suspects' = (suspects \cap quarantined') \cup (silent \ quarantined)
          /\ Release(Q)
    /\ pc' = IF \E t \in Tasks : shard[batch][t].state \in Outstanding THEN "wait" ELSE "collect"
    /\ UNCHANGED <<job, batch, files, world>>

\* forge wait, when every task is done or has failed.
RefuseFailed ==
    /\ pc = "collect"
    /\ \E t \in Tasks : shard[batch][t].state = "failed"
    /\ End("failed")
    /\ UNCHANGED <<files, cluster, world>>

Collect ==
    /\ pc = "collect"
    /\ \A t \in Tasks : shard[batch][t].state # "failed"
    /\ Go("shards")
    /\ UNCHANGED <<files, cluster, world>>

\* Mutant: the gate does not look at the net.
AcceptsAnyNet(result) == result.sound

\* Mutant: the gate looks at the net alone.
AcceptsUnsound(result) == result.net = job.net

Accepts(result) == result.sound /\ result.net = job.net

RefuseShard ==
    /\ pc = "shards"
    /\ \E t \in TasksOf(batch) : ~Accepts(shard[batch][t])
    /\ End("invalid")
    /\ UNCHANGED <<files, cluster, world>>

ValidateShards ==
    /\ pc = "shards"
    /\ \A t \in TasksOf(batch) : Accepts(shard[batch][t])
    /\ Go("merge")
    /\ UNCHANGED <<files, cluster, world>>

\* validate_batch merges while it validates; one-sided or flat data are refused.
MergeBatch ==
    /\ pc = "merge"
    /\ merged' = [merged EXCEPT ![batch] =
                     [corpus |-> forge[batch].corpus, shards |-> forge[batch].shards,
                      results |-> [t \in TasksOf(batch) |-> shard[batch][t]]]]
    /\ Go("vouch")
    /\ UNCHANGED <<workState, plan, launch, valid, output, provenance, cluster, world>>

RefuseDistribution ==
    /\ pc \in {"merge", "final"}
    /\ End("degenerate")
    /\ UNCHANGED <<files, cluster, world>>

VouchBatch ==
    /\ pc = "vouch"
    /\ valid' = [valid EXCEPT ![batch] = TRUE]
    /\ NextBatch
    /\ UNCHANGED <<workState, plan, launch, merged, output, provenance, cluster, world>>

----------------------------------------------------------------------------
\* The final merge.

Publish ==
    /\ pc = "final"
    /\ output' = merged
    /\ Go("sign")
    /\ UNCHANGED <<workState, plan, launch, merged, valid, provenance, cluster, world>>

WriteProvenance ==
    /\ pc = "sign"
    /\ provenance' = job.net
    /\ End("ok")
    /\ UNCHANGED <<workState, plan, launch, merged, valid, output, cluster, world>>

----------------------------------------------------------------------------
Script ==
    \/ VerifyWorkState \/ RefuseDrift \/ ReuseValid \/ PlanBatch
    \/ ResumeRun \/ StartRun \/ RefusePreflight \/ RefusePartition \/ RecordLaunch
    \/ Poll \/ RefuseFailed \/ Collect \/ RefuseShard \/ ValidateShards
    \/ MergeBatch \/ RefuseDistribution \/ VouchBatch \/ Publish \/ WriteProvenance

Worker(w) == Claim(w) \/ Label(w) \/ FallSilent(w) \/ Recover(w) \/ Reap(w)

Next ==
    \/ Start \/ Crash \/ ChangeArchives \/ ReplaceNet
    \/ \E w \in Workers : Worker(w)
    \/ Script

Spec == Init /\ [][Next]_vars

\* The script goes on, workers with a heartbeat work, and leases run out.
Fairness ==
    /\ WF_vars(Script)
    /\ \A w \in Workers :
          /\ WF_vars(w \notin silent /\ (Claim(w) \/ Label(w)))
          /\ WF_vars(Reap(w))

FairSpec == Spec /\ Fairness

----------------------------------------------------------------------------
\* What must hold.

TypeOK ==
    /\ pc \in Working \cup Refused \cup {"off", "ok"}
    /\ job \in {None} \cup [shards : Tasks, net : Nets]
    /\ batch \in Batches
    /\ suspects \subseteq Workers /\ quarantined \subseteq Workers
    /\ workState \in {None} \cup Corpora
    /\ plan \in [Batches -> {None} \cup [corpus : Corpora, shards : Tasks]]
    /\ launch \in [Batches -> BOOLEAN] /\ valid \in [Batches -> BOOLEAN]
    /\ merged \in [Batches -> {None} \cup Merges]
    /\ output \in {None} \cup [Batches -> {None} \cup Merges]
    /\ forge \in [Batches -> {None} \cup Runs]
    /\ shard \in [Batches -> [Tasks -> Results \cup
                    {Task(state) : state \in {"none", "pending", "claimed", "failed"}}]]
    /\ claim \in [Workers -> {None} \cup (Batches \X Tasks)]
    /\ silent \subseteq Workers /\ silences \in 0 .. MaxSilences
    /\ provenance \in {None} \cup Nets
    /\ corpus \in Corpora /\ net \in Nets /\ touched \in BOOLEAN /\ runs \in 0 .. MaxRuns

\* The published corpus has every batch, and every batch every shard of its run, each
\* one labelled by a search with the net loaded: whatever died, was released or was
\* labelled twice (main, validate_shards, validate_batch).
CorpusIsComplete ==
    output # None =>
        \A b \in Batches :
            /\ output[b] # None
            /\ \A t \in 1 .. output[b].shards :
                  /\ output[b].results[t] \in Results
                  /\ output[b].results[t].sound

\* All shards of a published batch were labelled under one net, however often the net
\* was replaced and the batch resumed (validate_shards, line 726).
BatchHasOneNet ==
    output # None =>
        \A b \in Batches : \A t, u \in 1 .. output[b].shards :
            output[b].results[t].net = output[b].results[u].net

\* Unless the archives were changed under a running script, the published corpus is
\* that of one state of the archives: a change between two runs is caught
\* (init_or_verify_work_state).
DriftIsCaught ==
    output # None /\ ~touched =>
        \A b \in Batches : output[b].corpus = workState

\* A batch marked valid is never planned, labelled or merged again
\* (LC0_CONVERSION.md: "Never recompute a completed valid batch").
ValidBatchIsKept ==
    [][\A b \in Batches : valid[b] =>
          /\ valid'[b]
          /\ <<plan[b], shard[b], merged[b]>>' = <<plan[b], shard[b], merged[b]>>]_vars

\* While a worker with a heartbeat is left the script comes to an end, also when others
\* fall silent with a task claimed (wait_with_quarantine).
ScriptEnds == ~Idle ~> Idle

\* The net that provenance names is the one all of the corpus was labelled with
\* (LC0_CONVERSION.md: "engine/net/source/shard identity remain bound").
ProvenanceNamesNet ==
    provenance # None =>
        \A b \in Batches : \A t \in 1 .. output[b].shards :
            output[b].results[t].net = provenance

=============================================================================
