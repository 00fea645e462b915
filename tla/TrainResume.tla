---------------------------- MODULE TrainResume ----------------------------
(***************************************************************************)
(* What one run name leaves on disk, and what the next run makes of it:    *)
(* the `all' command of tools/bullet/spike_trainer/src/bin/train.rs.       *)
(*                                                                         *)
(* The command materializes the corpus, trains from the newest complete    *)
(* checkpoint, converts the last checkpoint into model.nn, copies that to  *)
(* the candidate net and vouches for both in train.provenance.json.  The   *)
(* process may die between any two writes, the user may change the build   *)
(* between two runs, and the run named by continue_from may be trained     *)
(* further at any time.                                                    *)
(*                                                                         *)
(* A build is a configuration, standing for all that resume_config_sha256  *)
(* covers, and a number of superbatches, which it leaves out.  Weights are *)
(* abstracted to how they were made: the superbatches trained, the version *)
(* of the parent they started from, and the configurations and corpora     *)
(* that went into them.  A file that is not replaced by a rename is first  *)
(* torn and then whole.  Modelled is a build with continue_from, a         *)
(* materialized corpus and lr_superbatches set.                            *)
(***************************************************************************)
EXTENDS Naturals, FiniteSets

CONSTANTS
    Configs,      \* what resume_config_sha256 tells apart
    MaxTarget,    \* bound on build.superbatches
    SaveRate,     \* save_rate of the training schedule
    MaxParent,    \* bound on how often the parent is trained further
    MaxRuns,      \* bound on the runs the user starts
    CrashIn,      \* the places in which a process can die
    None          \* no such file, no such process

Superbatches == 1 .. MaxTarget
Modes == {"plain", "force", "reuse"}
Working == {"reset", "decide", "data", "resume", "train", "save", "quantise",
            "quantising", "model", "modelling", "export", "exporting", "restore",
            "provenance"}

ASSUME TrainResumeAssumption ==
    /\ {MaxTarget, SaveRate} \subseteq Nat \ {0}
    /\ {MaxParent, MaxRuns} \subseteq Nat
    /\ CrashIn \subseteq Working

VARIABLES
    pc,           \* where the process is; "off", "ok" and "failed" between runs
    job,          \* what this run was started with
    weights,      \* the weights being trained
    checkpoints,  \* optimiser_state and quantised.bin of each superbatch
    model,        \* runs/<run>/model.nn
    net,          \* the candidate net
    corpus,       \* the configuration the Bullet file was materialized for
    resume,       \* training.resume.json
    provenance,   \* train.provenance.json
    parent,       \* the version of the run continue_from names
    runs,         \* runs started so far
    builds        \* history: what the runs so far were to train

memory == <<pc, job, weights>>
run == <<checkpoints, model, net, corpus, resume, provenance>>
world == <<parent, runs, builds>>
vars == <<memory, run, world>>

----------------------------------------------------------------------------
\* The files of a run.

Weights == [superbatch : 0 .. MaxTarget, origin : 0 .. MaxParent,
            configs : SUBSET Configs, corpora : SUBSET Configs]
Exported == {None} \cup [weights : Weights, whole : BOOLEAN]

ASSUME NoneAssumption ==
    None \notin Weights \cup [weights : Weights, whole : BOOLEAN]

Absent == [optimiser |-> None, quantised |-> None]
Torn(w) == [weights |-> w, whole |-> FALSE]
Whole(w) == [weights |-> w, whole |-> TRUE]

\* latest_current_checkpoint: all four files exist; what is in them is not read.
Resumable ==
    {s \in Superbatches : None \notin {checkpoints[s].optimiser, checkpoints[s].quantised}}

\* latest_checkpoint: only quantised.bin has to exist.
Convertible == {s \in Superbatches : checkpoints[s].quantised # None}

\* checkpoint_dirs sorts by superbatch, and the last is taken: a set of at most one.
Latest(S) == {s \in S : \A t \in S : t <= s}

\* Mutant: a training that has all its superbatches is extended again.
ExtendableWhenComplete == \E s \in Latest(Resumable) : s <= job.target

Extendable == \E s \in Latest(Resumable) : s < job.target

\* Mutant: provenance keeps the hash of the resumable configuration only.
InputsMatchAnyTarget ==
    /\ provenance # None
    /\ provenance.config = job.config
    /\ provenance.origin = parent

\* training_inputs, for the build of this run and the parent as it is now.
InputsMatch ==
    /\ provenance # None
    /\ provenance.config = job.config
    /\ provenance.target = job.target
    /\ provenance.origin = parent

Idle == pc \in {"off", "ok", "failed"}

Init ==
    /\ pc = "off" /\ job = None /\ weights = None
    /\ checkpoints = [s \in Superbatches |-> Absent]
    /\ model = None /\ net = None /\ corpus = None
    /\ resume = None /\ provenance = None
    /\ parent = 0 /\ runs = 0 /\ builds = {}

----------------------------------------------------------------------------
\* The user, the machine and the parent run.

\* ./nnue train, with FORCE=1, with REUSE=1 or with neither.
StartRun ==
    /\ Idle
    /\ runs < MaxRuns
    /\ runs' = runs + 1
    /\ \E config \in Configs, target \in Superbatches, mode \in Modes :
          /\ job' = [config |-> config, target |-> target, mode |-> mode,
                     extending |-> FALSE]
          /\ builds' = builds \cup {<<config, target>>}
          /\ pc' = IF mode = "force" THEN "reset" ELSE "decide"
    /\ UNCHANGED <<weights, run, parent>>

\* A kill, a full disk or any other error the process does not survive.
Crash ==
    /\ pc \in CrashIn
    /\ pc' = "off" /\ job' = None /\ weights' = None
    /\ UNCHANGED <<run, world>>

\* The run continue_from names gets a newer checkpoint.
TrainParent ==
    /\ parent < MaxParent
    /\ parent' = parent + 1
    /\ UNCHANGED <<memory, run, runs, builds>>

\* Somebody tidies up the directory the candidates are collected in.
LoseNet ==
    /\ Idle /\ net # None
    /\ net' = None
    /\ UNCHANGED <<memory, checkpoints, model, corpus, resume, provenance, world>>

Go(place) == pc' = place /\ UNCHANGED <<job, weights>>

\* The process ends; what it was started with stays known to the properties.
End(outcome) == pc' = outcome /\ weights' = None /\ UNCHANGED job

----------------------------------------------------------------------------
\* reset_training_artifacts_for_force

\* remove_dir_all unlinks the entries of the directory in any order.
RemoveCheckpoints ==
    /\ pc = "reset"
    /\ \E s \in Superbatches, file \in {"optimiser", "quantised"} :
          /\ checkpoints[s][file] # None
          /\ checkpoints' = [checkpoints EXCEPT ![s][file] = None]
    /\ UNCHANGED <<memory, model, net, corpus, resume, provenance, world>>

\* Mutant: the reset does not wait for the checkpoints to go.
NoCheckpointsSought == TRUE

NoCheckpoints == \A s \in Superbatches : checkpoints[s] = Absent

RemoveModel ==
    /\ pc = "reset" /\ NoCheckpoints
    /\ model # None
    /\ model' = None
    /\ UNCHANGED <<memory, checkpoints, net, corpus, resume, provenance, world>>

RemoveProvenance ==
    /\ pc = "reset" /\ NoCheckpoints /\ model = None
    /\ provenance # None
    /\ provenance' = None
    /\ UNCHANGED <<memory, checkpoints, model, net, corpus, resume, world>>

RemoveResume ==
    /\ pc = "reset" /\ NoCheckpoints /\ {model, provenance} = {None}
    /\ resume # None
    /\ resume' = None
    /\ UNCHANGED <<memory, checkpoints, model, net, corpus, provenance, world>>

RemoveNet ==
    /\ pc = "reset" /\ NoCheckpoints /\ {model, provenance, resume} = {None}
    /\ net # None
    /\ net' = None
    /\ UNCHANGED <<memory, checkpoints, model, corpus, resume, provenance, world>>

RemoveCorpus ==
    /\ pc = "reset" /\ NoCheckpoints /\ {model, provenance, resume, net} = {None}
    /\ corpus' = None
    /\ Go("decide")
    /\ UNCHANGED <<checkpoints, model, net, resume, provenance, world>>

----------------------------------------------------------------------------
\* cmd_all up to cmd_run: resume_training and the corpus.

NoArtifacts == model = None /\ net = None
EnsureCorpus == corpus' = IF corpus = None THEN job.config ELSE corpus

\* A forced run, or one that finds neither model nor candidate, trains.
DecideToTrain ==
    /\ pc = "decide"
    /\ job.mode = "force" \/ NoArtifacts
    /\ pc' = "data"
    /\ job' = [job EXCEPT !.extending = Extendable]
    /\ UNCHANGED <<weights, run, world>>

DecideToReuse ==
    /\ pc = "decide" /\ job.mode = "reuse" /\ net # None
    /\ EnsureCorpus
    /\ End("ok")
    /\ UNCHANGED <<checkpoints, model, net, resume, provenance, world>>

\* Neither forced nor REUSE=1 with a candidate: the artifacts must be explained.
MustVouch ==
    /\ pc = "decide"
    /\ job.mode # "force" /\ ~NoArtifacts
    /\ ~(job.mode = "reuse" /\ net # None)

\* The build asks for more superbatches: ensure_resume_state, then train on.
DecideToExtend ==
    /\ MustVouch /\ Extendable
    /\ IF resume = job.config
         THEN /\ pc' = "data"
              /\ job' = [job EXCEPT !.extending = TRUE]
              /\ UNCHANGED weights
         ELSE End("failed")
    /\ UNCHANGED <<run, world>>

\* stale_training_artifacts, in each of the three places that call it.
DecideStale ==
    /\ MustVouch /\ ~Extendable
    /\ InputsMatch => net # provenance.net /\ model # provenance.model
    /\ End("failed")
    /\ UNCHANGED <<run, world>>

DecideReused ==
    /\ MustVouch /\ ~Extendable /\ InputsMatch
    /\ net = provenance.net
    /\ EnsureCorpus
    /\ End("ok")
    /\ UNCHANGED <<checkpoints, model, net, resume, provenance, world>>

\* copy_file_atomic: the candidate is replaced by a rename.
DecideRestored ==
    /\ MustVouch /\ ~Extendable /\ InputsMatch
    /\ net # provenance.net /\ model = provenance.model
    /\ net' = model
    /\ Go("restore")
    /\ UNCHANGED <<checkpoints, model, corpus, resume, provenance, world>>

\* cmd_data replaces the Bullet file; an extension only needs one to exist.
MaterializeCorpus ==
    /\ pc = "data"
    /\ IF job.extending THEN EnsureCorpus ELSE corpus' = job.config
    /\ Go("resume")
    /\ UNCHANGED <<checkpoints, model, net, resume, provenance, world>>

----------------------------------------------------------------------------
\* cmd_run

\* ensure_resume_state with a checkpoint to resume.
RefuseToResume ==
    /\ pc = "resume"
    /\ \E s \in Latest(Resumable) : resume # job.config \/ s > job.target
    /\ End("failed")
    /\ UNCHANGED <<run, world>>

\* The newest checkpoint already has the superbatches the build asks for.
FindComplete ==
    /\ pc = "resume"
    /\ job.target \in Latest(Resumable) /\ resume = job.config
    /\ Go("model")
    /\ UNCHANGED <<run, world>>

\* Mutant: only the presence of a checkpoint is checked before it is resumed.
ResumeTrainingUnchecked ==
    /\ pc = "resume"
    /\ \E s \in Latest(Resumable) :
          /\ s < job.target
          /\ weights' = checkpoints[s].optimiser
    /\ pc' = "train"
    /\ UNCHANGED <<job, run, world>>

\* Mutant: a complete training goes on for another superbatch.
ResumeTrainingPastTarget ==
    /\ pc = "resume"
    /\ resume = job.config
    /\ \E s \in Latest(Resumable) :
          /\ s <= job.target
          /\ weights' = checkpoints[s].optimiser
    /\ pc' = "train"
    /\ UNCHANGED <<job, run, world>>

ResumeTraining ==
    /\ pc = "resume"
    /\ resume = job.config
    /\ \E s \in Latest(Resumable) :
          /\ s < job.target
          /\ weights' = checkpoints[s].optimiser
    /\ pc' = "train"
    /\ UNCHANGED <<job, run, world>>

\* Mutant: the resume state is left for later.
StartTrainingUnrecorded ==
    /\ pc = "resume"
    /\ Resumable = {}
    /\ weights' = [superbatch |-> 0, origin |-> parent, configs |-> {}, corpora |-> {}]
    /\ pc' = "train"
    /\ UNCHANGED <<job, run, world>>

\* Without a checkpoint the resume state is replaced, whatever it says, and the
\* weights are those of the parent.
StartTraining ==
    /\ pc = "resume"
    /\ Resumable = {}
    /\ resume' = job.config
    /\ weights' = [superbatch |-> 0, origin |-> parent, configs |-> {}, corpora |-> {}]
    /\ pc' = "train"
    /\ UNCHANGED <<job, checkpoints, model, net, corpus, provenance, world>>

Train ==
    /\ pc = "train"
    /\ LET trained == weights.superbatch + 1
       IN  /\ weights' = [weights EXCEPT !.superbatch = trained,
                                         !.configs = @ \cup {job.config},
                                         !.corpora = @ \cup {corpus}]
           /\ pc' = IF trained % SaveRate = 0 \/ trained = job.target
                      THEN "save" ELSE "train"
    /\ UNCHANGED <<job, run, world>>

\* The optimiser state is written first, quantised.bin last.
SaveOptimiser ==
    /\ pc = "save"
    /\ checkpoints' = [checkpoints EXCEPT ![weights.superbatch].optimiser = weights]
    /\ Go("quantise")
    /\ UNCHANGED <<model, net, corpus, resume, provenance, world>>

BeginQuantised ==
    /\ pc = "quantise"
    /\ checkpoints' = [checkpoints EXCEPT ![weights.superbatch].quantised = Torn(weights)]
    /\ Go("quantising")
    /\ UNCHANGED <<model, net, corpus, resume, provenance, world>>

EndQuantised ==
    /\ pc = "quantising"
    /\ checkpoints' = [checkpoints EXCEPT ![weights.superbatch].quantised = Whole(weights)]
    /\ Go(IF weights.superbatch = job.target THEN "model" ELSE "train")
    /\ UNCHANGED <<model, net, corpus, resume, provenance, world>>

----------------------------------------------------------------------------
\* write_model, cmd_export and write_training_provenance.

\* A quantised.bin that is too short for the architecture.
RefuseToConvert ==
    /\ pc = "model"
    /\ \E s \in Latest(Convertible) : ~checkpoints[s].quantised.whole
    /\ End("failed")
    /\ UNCHANGED <<run, world>>

BeginModel ==
    /\ pc = "model"
    /\ \E s \in Latest(Convertible) :
          /\ checkpoints[s].quantised.whole
          /\ model' = Torn(checkpoints[s].quantised.weights)
    /\ Go("modelling")
    /\ UNCHANGED <<checkpoints, net, corpus, resume, provenance, world>>

EndModel ==
    /\ pc = "modelling"
    /\ model' = Whole(model.weights)
    /\ Go("export")
    /\ UNCHANGED <<checkpoints, net, corpus, resume, provenance, world>>

MayOverwriteNet == job.mode = "force" \/ job.extending

BeginExport ==
    /\ pc = "export"
    /\ IF net = None \/ MayOverwriteNet
         THEN net' = Torn(model.weights) /\ Go("exporting")
         ELSE End("failed") /\ UNCHANGED net
    /\ UNCHANGED <<checkpoints, model, corpus, resume, provenance, world>>

EndExport ==
    /\ pc = "exporting"
    /\ net' = model
    /\ Go("provenance")
    /\ UNCHANGED <<checkpoints, model, corpus, resume, provenance, world>>

\* The inputs are hashed again, at the end: the parent may have moved on.
WriteProvenance ==
    /\ pc \in {"provenance", "restore"}
    /\ provenance' = [config |-> job.config, target |-> job.target, origin |-> parent,
                      model |-> model, net |-> net]
    /\ IF pc = "restore" THEN EnsureCorpus ELSE UNCHANGED corpus
    /\ End("ok")
    /\ UNCHANGED <<checkpoints, model, net, resume, world>>

----------------------------------------------------------------------------
Reset ==
    \/ RemoveCheckpoints \/ RemoveModel \/ RemoveProvenance
    \/ RemoveResume \/ RemoveNet \/ RemoveCorpus

Decide ==
    \/ DecideToTrain \/ DecideToReuse \/ DecideToExtend \/ DecideStale
    \/ DecideReused \/ DecideRestored \/ MaterializeCorpus

Run ==
    \/ RefuseToResume \/ FindComplete \/ ResumeTraining \/ StartTraining
    \/ Train \/ SaveOptimiser \/ BeginQuantised \/ EndQuantised

Publish ==
    \/ RefuseToConvert \/ BeginModel \/ EndModel
    \/ BeginExport \/ EndExport \/ WriteProvenance

Process == Reset \/ Decide \/ Run \/ Publish
Next == StartRun \/ Crash \/ TrainParent \/ LoseNet \/ Process

Spec == Init /\ [][Next]_vars

----------------------------------------------------------------------------
\* What must hold.

\* Types, and that a candidate that exists was once a model.
TypeOK ==
    /\ pc \in Working \cup {"off", "ok", "failed"}
    /\ job \in {None} \cup [config : Configs, target : Superbatches, mode : Modes,
                            extending : BOOLEAN]
    /\ weights \in {None} \cup Weights
    /\ DOMAIN checkpoints = Superbatches
    /\ \A s \in Superbatches :
          /\ checkpoints[s].optimiser \in {None} \cup Weights
          /\ checkpoints[s].quantised \in Exported
    /\ model \in Exported /\ net \in Exported
    /\ {corpus, resume} \subseteq {None} \cup Configs
    /\ provenance \in {None} \cup [config : Configs, target : Superbatches,
                                   origin : 0 .. MaxParent,
                                   model : Exported, net : Exported]
    /\ parent \in 0 .. MaxParent
    /\ runs \in 0 .. MaxRuns /\ builds \subseteq Configs \X Superbatches

\* A run that ends well leaves a whole candidate, trained for all the superbatches
\* of its build under the configuration of its build alone: whatever crashes and
\* edits came before, checkpoints, resume state and provenance never pass off the
\* weights of another training (cmd_all, resume_training, ensure_resume_state).
CandidateIsFinished ==
    pc = "ok" /\ job.mode # "reuse" /\ net # None =>
        /\ net.whole
        /\ net.weights.superbatch = job.target
        /\ net.weights.configs = {job.config}

\* No checkpoint mixes configurations: ensure_resume_state refuses, over any number
\* of crashes, edits and interrupted resets, to continue the training of another
\* configuration.
NoMixedTraining ==
    \A s \in Superbatches :
        checkpoints[s].optimiser # None =>
            Cardinality(checkpoints[s].optimiser.configs) = 1

\* FORCE=1 always gets through: nothing a forced run finds, not even what is left of
\* an interrupted one, makes it refuse (reset_training_artifacts_for_force).
ForcedRunNeverRefused ==
    pc = "failed" => job.mode # "force"

\* The same build, started again after a crash, is refused only when the crash came
\* after the last checkpoint of the training had been begun: up to then a plain
\* rerun carries on (resume_training, cmd_run).
EarlyCrashesAreRepaired ==
    pc = "failed" /\ Cardinality(builds) = 1 =>
        checkpoints[job.target].quantised # None

\* A candidate that provenance vouches for is never touched by a run that asks
\* neither for a fresh start nor for more superbatches (resume_training, cmd_export).
Vouched == provenance # None /\ net # None /\ provenance.net = net
FinishedNetIsKept ==
    [][Vouched /\ ~Idle /\ net' # net => job.mode = "force" \/ job.target > provenance.target]_vars

\* Every checkpoint was trained on the corpus of its own configuration, as the
\* refusal to resume "checkpoint config does not match current resumable training
\* config" (train.rs:2531) says of the configuration.
TrainedOnOwnCorpus ==
    \A s \in Superbatches :
        checkpoints[s].optimiser # None =>
            checkpoints[s].optimiser.corpora \subseteq checkpoints[s].optimiser.configs

\* The initial weights that provenance names are those the candidate came from: the
\* test provenance_validates_inputs_and_artifacts (train.rs:3399-3406) has changed
\* initial weights rejected.
ProvenanceNamesOrigin ==
    Vouched => net.weights.origin = provenance.origin

=============================================================================
