------------------------- MODULE TrainResumeProofs -------------------------
(***************************************************************************)
(* Proofs about TrainResume for any number of configurations, superbatches *)
(* and runs.                                                               *)
(***************************************************************************)
EXTENDS TrainResume, FiniteSetTheorems, TLAPS

-----------------------------------------------------------------------------
(* The inductive invariant, wherever a process may die. *)

Jobs == [config : Configs, target : Superbatches, mode : Modes, extending : BOOLEAN]
Nets == [weights : Weights, whole : BOOLEAN]

Saving == {"save", "quantise", "quantising"}
Training == {"train"} \cup Saving
Publishing == {"modelling", "export", "exporting", "provenance"}

\* A process knows what it was started with, and where it is bounds what it does.
JobOK ==
    /\ pc \in Working \cup {"ok", "failed"} => job \in Jobs
    /\ pc = "reset" => job.mode = "force"
    /\ pc = "restore" => job.mode # "force"
    /\ pc \in Publishing => model \in Nets
    /\ pc \in {"resume"} \cup Training => corpus \in Configs

\* What is trained are the weights of one configuration, the one on record.
WeightsOK ==
    pc \in Training =>
        /\ weights \in Weights
        /\ resume = job.config
        /\ weights.superbatch <= job.target
        /\ weights.configs \subseteq {job.config}
        /\ pc = "train" => weights.superbatch < job.target
        /\ pc \in Saving => weights.superbatch >= 1 /\ weights.configs = {job.config}
        /\ pc \in Saving \ {"save"} => checkpoints[weights.superbatch].optimiser = weights

\* The optimiser state of a checkpoint is of its superbatch and of one configuration,
\* the one on record if the checkpoint can be resumed.
CheckpointsOK ==
    \A s \in Superbatches :
        /\ checkpoints[s].optimiser # None =>
              /\ checkpoints[s].optimiser.superbatch = s
              /\ \E c \in Configs : checkpoints[s].optimiser.configs = {c}
        /\ s \in Resumable => checkpoints[s].optimiser.configs = {resume}

\* A forced run finds no checkpoint, and later only its own.
ForcedOK ==
    pc \in Working /\ job.mode = "force" =>
        /\ pc \in {"decide", "data", "resume"} => NoCheckpoints
        /\ pc \in Training \cup {"model"} => \A s \in Convertible :
              checkpoints[s].quantised.whole \/ (pc = "quantising" /\ s = weights.superbatch)

IInv == TypeOK /\ JobOK /\ WeightsOK /\ CheckpointsOK /\ ForcedOK

-----------------------------------------------------------------------------
(* What holds besides where no process dies in a forced reset. *)

\* e is a whole export of weights that were trained as a build says.
Finished(e, config, target) ==
    /\ e \in Nets
    /\ e.whole
    /\ e.weights.superbatch = target
    /\ e.weights.configs = {config}

\* A checkpoint that can be converted can be resumed, and is of the same weights.
SavedOK ==
    pc # "reset" => \A s \in Convertible :
        /\ s \in Resumable
        /\ checkpoints[s].quantised.weights = checkpoints[s].optimiser

\* No checkpoint is ahead of the training.
NewestOK ==
    /\ pc \in {"train", "quantising"} => \A s \in Convertible : s <= weights.superbatch
    /\ pc \in {"save", "quantise"} => \A s \in Convertible : s < weights.superbatch
    /\ pc \in {"model"} \cup Publishing => job.target \in Latest(Resumable)
    /\ pc = "model" => resume = job.config

\* What is published was trained as the build of the run says.
PublishedOK ==
    /\ pc \in Publishing =>
          /\ model.weights.superbatch = job.target
          /\ model.weights.configs = {job.config}
          /\ pc # "modelling" => model.whole
    /\ pc = "exporting" => net = Torn(model.weights)
    /\ pc = "provenance" => net = model
    /\ pc = "restore" =>
          /\ model = net
          /\ Finished(net, job.config, job.target)
          /\ job.target \in Resumable

\* What provenance vouches for was trained as it says, and is still there.
VouchedOK ==
    provenance # None =>
        /\ provenance.model = provenance.net
        /\ Finished(provenance.net, provenance.config, provenance.target)
        /\ pc # "reset" => provenance.target \in Resumable

\* A run that extends a training goes further than what provenance vouches for.
ExtendingOK ==
    pc \in Working /\ job.extending =>
        /\ pc \notin {"reset", "decide"}
        /\ provenance # None => job.target > provenance.target

NoCrashInReset == "reset" \notin CrashIn

RInv == SavedOK /\ NewestOK /\ PublishedOK /\ VouchedOK /\ ExtendingOK /\ CandidateIsFinished


-----------------------------------------------------------------------------
(* Facts about the data. *)

LEMMA ExportTypes ==
    ASSUME NEW w \in Weights
    PROVE  /\ Torn(w) \in Nets /\ Torn(w).weights = w /\ ~Torn(w).whole
           /\ Whole(w) \in Nets /\ Whole(w).weights = w /\ Whole(w).whole
BY DEF Torn, Whole, Nets

LEMMA NetTypes ==
    /\ Exported = {None} \cup Nets
    /\ \A e \in Nets : e.weights \in Weights /\ e.whole \in BOOLEAN
BY DEF Exported, Nets

\* Deciding to extend changes nothing else a run was started with.
LEMMA JobTypes ==
    ASSUME NEW j \in Jobs, NEW b \in BOOLEAN
    PROVE  LET k == [j EXCEPT !.extending = b]
           IN  /\ k \in Jobs /\ k.extending = b
               /\ k.config = j.config /\ k.target = j.target /\ k.mode = j.mode
BY DEF Jobs

\* A set of superbatches has at most one latest, and it is one of them.
LEMMA LatestIsOne ==
    ASSUME NEW S \in SUBSET Superbatches, NEW s \in Latest(S)
    PROVE  /\ s \in S /\ s \in Superbatches
           /\ \A t \in S : t <= s
           /\ \A t \in Latest(S) : t = s
BY DEF Latest, Superbatches

-----------------------------------------------------------------------------
(* Every action preserves the invariant. *)

\* A step that is not part of a training and leaves checkpoints and resume state
\* alone disturbs neither.
LEMMA QuietOK ==
    ASSUME CheckpointsOK, pc' \notin Training, UNCHANGED <<checkpoints, resume>>
    PROVE  WeightsOK' /\ CheckpointsOK'
BY DEF WeightsOK, CheckpointsOK, Resumable

LEMMA StutterOK == IInv /\ UNCHANGED vars => IInv'
BY DEF IInv, TypeOK, JobOK, WeightsOK, CheckpointsOK, ForcedOK, Resumable, Convertible,
       NoCheckpoints, vars, memory, run, world

LEMMA InitOK == Init => IInv
<1> SUFFICES ASSUME Init PROVE IInv
  OBVIOUS
<1> USE TrainResumeAssumption DEF Init, TrainResumeAssumption
<1>1. TypeOK
  <2>1. DOMAIN checkpoints = Superbatches /\ \A s \in Superbatches : checkpoints[s] = Absent
    OBVIOUS
  <2>2. parent \in 0 .. MaxParent /\ runs \in 0 .. MaxRuns
    OBVIOUS
  <2> QED
    BY <2>1, <2>2 DEF TypeOK, Exported, Absent
<1>2. JobOK /\ WeightsOK /\ ForcedOK
  BY DEF JobOK, WeightsOK, ForcedOK, Working, Training, Saving, Publishing
<1>3. CheckpointsOK
  BY DEF CheckpointsOK, Resumable, Absent
<1> QED
  BY <1>1, <1>2, <1>3 DEF IInv

LEMMA StartRunOK == IInv /\ StartRun => IInv'
<1> SUFFICES ASSUME IInv, StartRun PROVE IInv'
  OBVIOUS
<1> USE DEF IInv, StartRun, memory, Idle, run
<1>1. TypeOK'
  <2>1. PICK config \in Configs, target \in Superbatches, mode \in Modes :
           /\ job' = [config |-> config, target |-> target, mode |-> mode,
                      extending |-> FALSE]
           /\ builds' = builds \cup {<<config, target>>}
    OBVIOUS
  <2>2. runs' \in 0 .. MaxRuns
    BY TrainResumeAssumption DEF TypeOK, TrainResumeAssumption
  <2>3. builds' \subseteq Configs \X Superbatches
    BY <2>1 DEF TypeOK
  <2> QED
    BY <2>1, <2>2, <2>3 DEF TypeOK, Working
<1>2. JobOK'
  BY DEF JobOK, Working, Publishing, Training, Saving, Jobs, Nets, TypeOK, Exported, Torn, Whole
<1>3. WeightsOK' /\ CheckpointsOK'
  BY QuietOK DEF Working, Training, Saving
<1>4. ForcedOK'
  BY DEF ForcedOK, Working, Training, Saving, NoCheckpoints, Convertible
<1> QED
  BY <1>1, <1>2, <1>3, <1>4

LEMMA CrashOK == IInv /\ Crash => IInv'
<1> SUFFICES ASSUME IInv, Crash PROVE IInv'
  OBVIOUS
<1> USE DEF IInv, Crash, memory, Idle, run, world
<1>1. TypeOK'
  BY DEF TypeOK, Weights, Exported, Torn, Whole, Working, Superbatches, Modes
<1>2. JobOK'
  BY DEF JobOK, Working, Publishing, Training, Saving, Jobs, Nets, TypeOK, Exported, Torn, Whole
<1>3. WeightsOK' /\ CheckpointsOK'
  BY QuietOK DEF Working, Training, Saving
<1>4. ForcedOK'
  BY DEF ForcedOK, Working, Training, Saving, NoCheckpoints, Convertible
<1> QED
  BY <1>1, <1>2, <1>3, <1>4

LEMMA LoseNetOK == IInv /\ LoseNet => IInv'
<1> SUFFICES ASSUME IInv, LoseNet PROVE IInv'
  OBVIOUS
<1> USE DEF IInv, LoseNet, memory, Idle, world
<1>1. TypeOK'
  BY DEF TypeOK, Weights, Exported, Torn, Whole, Working, Superbatches, Modes
<1>2. JobOK'
  BY DEF JobOK, Working, Publishing, Training, Saving, Jobs, Nets, TypeOK, Exported, Torn, Whole
<1>3. WeightsOK' /\ CheckpointsOK'
  BY QuietOK DEF Working, Training, Saving
<1>4. ForcedOK'
  BY DEF ForcedOK, Working, Training, Saving, NoCheckpoints, Convertible
<1> QED
  BY <1>1, <1>2, <1>3, <1>4

LEMMA RemoveModelOK == IInv /\ RemoveModel => IInv'
<1> SUFFICES ASSUME IInv, RemoveModel PROVE IInv'
  OBVIOUS
<1> USE DEF IInv, RemoveModel, memory, memory, world
<1>1. TypeOK'
  BY DEF TypeOK, Weights, Exported, Torn, Whole, Working, Superbatches, Modes
<1>2. JobOK'
  BY DEF JobOK, Working, Publishing, Training, Saving, Jobs, Nets, TypeOK, Exported, Torn, Whole
<1>3. WeightsOK' /\ CheckpointsOK'
  BY QuietOK DEF Working, Training, Saving
<1>4. ForcedOK'
  BY DEF ForcedOK, Working, Training, Saving, NoCheckpoints, Convertible
<1> QED
  BY <1>1, <1>2, <1>3, <1>4

LEMMA RemoveProvenanceOK == IInv /\ RemoveProvenance => IInv'
<1> SUFFICES ASSUME IInv, RemoveProvenance PROVE IInv'
  OBVIOUS
<1> USE DEF IInv, RemoveProvenance, memory, memory, world
<1>1. TypeOK'
  BY DEF TypeOK, Weights, Exported, Torn, Whole, Working, Superbatches, Modes
<1>2. JobOK'
  BY DEF JobOK, Working, Publishing, Training, Saving, Jobs, Nets, TypeOK, Exported, Torn, Whole
<1>3. WeightsOK' /\ CheckpointsOK'
  BY QuietOK DEF Working, Training, Saving
<1>4. ForcedOK'
  BY DEF ForcedOK, Working, Training, Saving, NoCheckpoints, Convertible
<1> QED
  BY <1>1, <1>2, <1>3, <1>4

LEMMA RemoveNetOK == IInv /\ RemoveNet => IInv'
<1> SUFFICES ASSUME IInv, RemoveNet PROVE IInv'
  OBVIOUS
<1> USE DEF IInv, RemoveNet, memory, memory, world
<1>1. TypeOK'
  BY DEF TypeOK, Weights, Exported, Torn, Whole, Working, Superbatches, Modes
<1>2. JobOK'
  BY DEF JobOK, Working, Publishing, Training, Saving, Jobs, Nets, TypeOK, Exported, Torn, Whole
<1>3. WeightsOK' /\ CheckpointsOK'
  BY QuietOK DEF Working, Training, Saving
<1>4. ForcedOK'
  BY DEF ForcedOK, Working, Training, Saving, NoCheckpoints, Convertible
<1> QED
  BY <1>1, <1>2, <1>3, <1>4

LEMMA RemoveCorpusOK == IInv /\ RemoveCorpus => IInv'
<1> SUFFICES ASSUME IInv, RemoveCorpus PROVE IInv'
  OBVIOUS
<1> USE DEF IInv, RemoveCorpus, memory, world, Go
<1>1. TypeOK'
  BY DEF TypeOK, Weights, Exported, Torn, Whole, Working, Superbatches, Modes
<1>2. JobOK'
  BY DEF JobOK, Working, Publishing, Training, Saving, Jobs, Nets, TypeOK, Exported, Torn, Whole
<1>3. WeightsOK' /\ CheckpointsOK'
  BY QuietOK DEF Working, Training, Saving
<1>4. ForcedOK'
  BY DEF ForcedOK, Working, Training, Saving, NoCheckpoints, Convertible
<1> QED
  BY <1>1, <1>2, <1>3, <1>4

LEMMA DecideToTrainOK == IInv /\ DecideToTrain => IInv'
<1> SUFFICES ASSUME IInv, DecideToTrain PROVE IInv'
  OBVIOUS
<1> USE DEF IInv, DecideToTrain, memory, run, world
<1>0. job \in Jobs /\ Extendable \in BOOLEAN
  BY DEF JobOK, Working, Extendable
<1>1. TypeOK'
  BY <1>0, JobTypes DEF TypeOK, Working, Jobs
<1>2. JobOK'
  BY <1>0, JobTypes DEF JobOK, Working, Publishing, Training, Saving
<1>3. WeightsOK' /\ CheckpointsOK'
  BY QuietOK DEF Working, Training, Saving
<1>4. ForcedOK'
  BY DEF ForcedOK, Working, Training, Saving, NoCheckpoints, Convertible
<1> QED
  BY <1>1, <1>2, <1>3, <1>4

LEMMA DecideToReuseOK == IInv /\ DecideToReuse => IInv'
<1> SUFFICES ASSUME IInv, DecideToReuse PROVE IInv'
  OBVIOUS
<1> USE DEF IInv, DecideToReuse, memory, End, world, EnsureCorpus
<1>0. job \in Jobs /\ job.config \in Configs
  BY DEF JobOK, Working, Jobs
<1>1. TypeOK'
  BY <1>0 DEF TypeOK, Working
<1>2. JobOK'
  BY DEF JobOK, Working, Publishing, Training, Saving, Jobs, Nets, TypeOK, Exported, Torn, Whole
<1>3. WeightsOK' /\ CheckpointsOK'
  BY QuietOK DEF Working, Training, Saving
<1>4. ForcedOK'
  BY DEF ForcedOK, Working, Training, Saving, NoCheckpoints, Convertible
<1> QED
  BY <1>1, <1>2, <1>3, <1>4

LEMMA DecideToExtendOK == IInv /\ DecideToExtend => IInv'
<1> SUFFICES ASSUME IInv, DecideToExtend PROVE IInv'
  OBVIOUS
<1> USE DEF IInv, DecideToExtend, memory, MustVouch, End, run, world
<1>0. job \in Jobs
  BY DEF JobOK, Working
<1>1. TypeOK'
  BY <1>0, JobTypes DEF TypeOK, Working, Jobs
<1>2. JobOK'
  BY <1>0, JobTypes DEF JobOK, Working, Publishing, Training, Saving
<1>3. WeightsOK' /\ CheckpointsOK'
  BY QuietOK DEF Working, Training, Saving
<1>4. ForcedOK'
  BY <1>0, JobTypes DEF ForcedOK, Working
<1> QED
  BY <1>1, <1>2, <1>3, <1>4

LEMMA DecideStaleOK == IInv /\ DecideStale => IInv'
<1> SUFFICES ASSUME IInv, DecideStale PROVE IInv'
  OBVIOUS
<1> USE DEF IInv, DecideStale, memory, MustVouch, End, run, world
<1>1. TypeOK'
  BY DEF TypeOK, Weights, Exported, Torn, Whole, Working, Superbatches, Modes
<1>2. JobOK'
  BY DEF JobOK, Working, Publishing, Training, Saving, Jobs, Nets, TypeOK, Exported, Torn, Whole
<1>3. WeightsOK' /\ CheckpointsOK'
  BY QuietOK DEF Working, Training, Saving
<1>4. ForcedOK'
  BY DEF ForcedOK, Working, Training, Saving, NoCheckpoints, Convertible
<1> QED
  BY <1>1, <1>2, <1>3, <1>4

LEMMA DecideReusedOK == IInv /\ DecideReused => IInv'
<1> SUFFICES ASSUME IInv, DecideReused PROVE IInv'
  OBVIOUS
<1> USE DEF IInv, DecideReused, memory, MustVouch, End, world, EnsureCorpus
<1>0. job \in Jobs /\ job.config \in Configs
  BY DEF JobOK, Working, Jobs
<1>1. TypeOK'
  BY <1>0 DEF TypeOK, Working
<1>2. JobOK'
  BY DEF JobOK, Working, Publishing, Training, Saving, Jobs, Nets, TypeOK, Exported, Torn, Whole
<1>3. WeightsOK' /\ CheckpointsOK'
  BY QuietOK DEF Working, Training, Saving
<1>4. ForcedOK'
  BY DEF ForcedOK, Working, Training, Saving, NoCheckpoints, Convertible
<1> QED
  BY <1>1, <1>2, <1>3, <1>4

LEMMA DecideRestoredOK == IInv /\ DecideRestored => IInv'
<1> SUFFICES ASSUME IInv, DecideRestored PROVE IInv'
  OBVIOUS
<1> USE DEF IInv, DecideRestored, memory, MustVouch, Go, world
<1>1. TypeOK'
  BY DEF TypeOK, Weights, Exported, Torn, Whole, Working, Superbatches, Modes
<1>2. JobOK'
  BY DEF JobOK, Working, Publishing, Training, Saving, Jobs, Nets, TypeOK, Exported, Torn, Whole
<1>3. WeightsOK' /\ CheckpointsOK'
  BY QuietOK DEF Working, Training, Saving
<1>4. ForcedOK'
  BY DEF ForcedOK, Working, Training, Saving, NoCheckpoints, Convertible
<1> QED
  BY <1>1, <1>2, <1>3, <1>4

LEMMA MaterializeCorpusOK == IInv /\ MaterializeCorpus => IInv'
<1> SUFFICES ASSUME IInv, MaterializeCorpus PROVE IInv'
  OBVIOUS
<1> USE DEF IInv, MaterializeCorpus, memory, Go, world, EnsureCorpus
<1>0. job \in Jobs /\ job.config \in Configs
  BY DEF JobOK, Working, Jobs
<1>1. TypeOK'
  BY <1>0 DEF TypeOK, Working
<1>2. JobOK'
  BY DEF JobOK, Working, Publishing, Training, Saving, Jobs, Nets, TypeOK, Exported, Torn, Whole
<1>3. WeightsOK' /\ CheckpointsOK'
  BY QuietOK DEF Working, Training, Saving
<1>4. ForcedOK'
  BY DEF ForcedOK, Working, Training, Saving, NoCheckpoints, Convertible
<1> QED
  BY <1>1, <1>2, <1>3, <1>4

LEMMA RefuseToResumeOK == IInv /\ RefuseToResume => IInv'
<1> SUFFICES ASSUME IInv, RefuseToResume PROVE IInv'
  OBVIOUS
<1> USE DEF IInv, RefuseToResume, memory, End, run, world
<1>1. TypeOK'
  BY DEF TypeOK, Weights, Exported, Torn, Whole, Working, Superbatches, Modes
<1>2. JobOK'
  BY DEF JobOK, Working, Publishing, Training, Saving, Jobs, Nets, TypeOK, Exported, Torn, Whole
<1>3. WeightsOK' /\ CheckpointsOK'
  BY QuietOK DEF Working, Training, Saving
<1>4. ForcedOK'
  BY DEF ForcedOK, Working, Training, Saving, NoCheckpoints, Convertible
<1> QED
  BY <1>1, <1>2, <1>3, <1>4

LEMMA FindCompleteOK == IInv /\ FindComplete => IInv'
<1> SUFFICES ASSUME IInv, FindComplete PROVE IInv'
  OBVIOUS
<1> USE DEF IInv, FindComplete, memory, Go, run, world
<1>1. TypeOK'
  BY DEF TypeOK, Weights, Exported, Torn, Whole, Working, Superbatches, Modes
<1>2. JobOK'
  BY DEF JobOK, Working, Publishing, Training, Saving, Jobs, Nets, TypeOK, Exported, Torn, Whole
<1>3. WeightsOK' /\ CheckpointsOK'
  BY QuietOK DEF Working, Training, Saving
<1>4. ForcedOK'
  <2>1. Resumable \subseteq Superbatches
    BY DEF Resumable
  <2>2. ~NoCheckpoints
    BY <2>1, LatestIsOne DEF NoCheckpoints, Resumable, Absent
  <2> QED
    BY <2>2 DEF ForcedOK, Working
<1> QED
  BY <1>1, <1>2, <1>3, <1>4

LEMMA RefuseToConvertOK == IInv /\ RefuseToConvert => IInv'
<1> SUFFICES ASSUME IInv, RefuseToConvert PROVE IInv'
  OBVIOUS
<1> USE DEF IInv, RefuseToConvert, memory, End, run, world
<1>1. TypeOK'
  BY DEF TypeOK, Weights, Exported, Torn, Whole, Working, Superbatches, Modes
<1>2. JobOK'
  BY DEF JobOK, Working, Publishing, Training, Saving, Jobs, Nets, TypeOK, Exported, Torn, Whole
<1>3. WeightsOK' /\ CheckpointsOK'
  BY QuietOK DEF Working, Training, Saving
<1>4. ForcedOK'
  BY DEF ForcedOK, Working, Training, Saving, NoCheckpoints, Convertible
<1> QED
  BY <1>1, <1>2, <1>3, <1>4

LEMMA BeginModelOK == IInv /\ BeginModel => IInv'
<1> SUFFICES ASSUME IInv, BeginModel PROVE IInv'
  OBVIOUS
<1> USE DEF IInv, BeginModel, memory, Go, world
<1>0. PICK s \in Latest(Convertible) :
         checkpoints[s].quantised.whole /\ model' = Torn(checkpoints[s].quantised.weights)
  OBVIOUS
<1>a. checkpoints[s].quantised.weights \in Weights
  BY LatestIsOne, NetTypes DEF Convertible, TypeOK
<1>b. model' \in Nets /\ job \in Jobs
  BY <1>0, <1>a, ExportTypes DEF JobOK, Working
<1>1. TypeOK'
  BY <1>b, NetTypes DEF TypeOK, Working
<1>2. JobOK'
  BY <1>b DEF JobOK, Working, Training, Saving
<1>3. WeightsOK' /\ CheckpointsOK'
  BY QuietOK DEF Working, Training, Saving
<1>4. ForcedOK'
  BY DEF ForcedOK, Working, Training, Saving, NoCheckpoints, Convertible
<1> QED
  BY <1>1, <1>2, <1>3, <1>4

LEMMA EndModelOK == IInv /\ EndModel => IInv'
<1> SUFFICES ASSUME IInv, EndModel PROVE IInv'
  OBVIOUS
<1> USE DEF IInv, EndModel, memory, Go, world
<1>0. model' \in Nets /\ job \in Jobs
  BY NetTypes, ExportTypes DEF JobOK, Working, Publishing
<1>1. TypeOK'
  BY <1>0, NetTypes DEF TypeOK, Working
<1>2. JobOK'
  BY <1>0 DEF JobOK, Working, Training, Saving
<1>3. WeightsOK' /\ CheckpointsOK'
  BY QuietOK DEF Working, Training, Saving
<1>4. ForcedOK'
  BY DEF ForcedOK, Working, Training, Saving, NoCheckpoints, Convertible
<1> QED
  BY <1>1, <1>2, <1>3, <1>4

LEMMA BeginExportOK == IInv /\ BeginExport => IInv'
<1> SUFFICES ASSUME IInv, BeginExport PROVE IInv'
  OBVIOUS
<1> USE DEF IInv, BeginExport, memory, Go, End, MayOverwriteNet, world
<1>0. job \in Jobs /\ model \in Nets /\ Torn(model.weights) \in Nets
  BY NetTypes, ExportTypes DEF JobOK, Working, Publishing
<1>1. TypeOK'
  BY <1>0, NetTypes DEF TypeOK, Working
<1>2. JobOK'
  BY DEF JobOK, Working, Publishing, Training, Saving, Jobs, Nets, TypeOK, Exported, Torn, Whole
<1>3. WeightsOK' /\ CheckpointsOK'
  BY QuietOK DEF Working, Training, Saving
<1>4. ForcedOK'
  BY DEF ForcedOK, Working, Training, Saving, NoCheckpoints, Convertible
<1> QED
  BY <1>1, <1>2, <1>3, <1>4

LEMMA EndExportOK == IInv /\ EndExport => IInv'
<1> SUFFICES ASSUME IInv, EndExport PROVE IInv'
  OBVIOUS
<1> USE DEF IInv, EndExport, memory, Go, world
<1>1. TypeOK'
  BY DEF TypeOK, Weights, Exported, Torn, Whole, Working, Superbatches, Modes
<1>2. JobOK'
  BY DEF JobOK, Working, Publishing, Training, Saving, Jobs, Nets, TypeOK, Exported, Torn, Whole
<1>3. WeightsOK' /\ CheckpointsOK'
  BY QuietOK DEF Working, Training, Saving
<1>4. ForcedOK'
  BY DEF ForcedOK, Working, Training, Saving, NoCheckpoints, Convertible
<1> QED
  BY <1>1, <1>2, <1>3, <1>4

LEMMA WriteProvenanceOK == IInv /\ WriteProvenance => IInv'
<1> SUFFICES ASSUME IInv, WriteProvenance PROVE IInv'
  OBVIOUS
<1> USE DEF IInv, WriteProvenance, memory, End, world, EnsureCorpus
<1>0. job \in Jobs
  BY DEF JobOK, Working
<1>1. TypeOK'
  <2>1. /\ job.config \in Configs /\ job.target \in Superbatches
        /\ parent \in 0 .. MaxParent /\ {model, net} \subseteq Exported
    BY <1>0 DEF Jobs, TypeOK
  <2>2. provenance' \in [config : Configs, target : Superbatches, origin : 0 .. MaxParent,
                         model : Exported, net : Exported]
    BY <2>1
  <2>3. corpus' \in {None} \cup Configs
    BY <2>1 DEF TypeOK
  <2> QED
    BY <2>2, <2>3 DEF TypeOK
<1>2. JobOK'
  BY DEF JobOK, Working, Publishing, Training, Saving, Jobs, Nets, TypeOK, Exported, Torn, Whole
<1>3. WeightsOK' /\ CheckpointsOK'
  BY QuietOK DEF Working, Training, Saving
<1>4. ForcedOK'
  BY DEF ForcedOK, Working, Training, Saving, NoCheckpoints, Convertible
<1> QED
  BY <1>1, <1>2, <1>3, <1>4

LEMMA TrainParentOK == IInv /\ TrainParent => IInv'
<1> SUFFICES ASSUME IInv, TrainParent PROVE IInv'
  OBVIOUS
<1> USE DEF IInv, TrainParent, memory, run
<1>1. TypeOK'
  BY TrainResumeAssumption DEF TypeOK, TrainResumeAssumption
<1>2. JobOK' /\ WeightsOK' /\ CheckpointsOK' /\ ForcedOK'
  BY DEF JobOK, WeightsOK, CheckpointsOK, ForcedOK, Resumable, Convertible, NoCheckpoints
<1> QED
  BY <1>1, <1>2

LEMMA RemoveCheckpointsOK == IInv /\ RemoveCheckpoints => IInv'
<1> SUFFICES ASSUME IInv, RemoveCheckpoints PROVE IInv'
  OBVIOUS
<1> USE DEF IInv, memory, world
<1>0. PICK s \in Superbatches, file \in {"optimiser", "quantised"} :
         checkpoints' = [checkpoints EXCEPT ![s][file] = None]
  BY DEF RemoveCheckpoints
<1>a. pc = "reset" /\ pc' = "reset" /\ UNCHANGED <<job, weights, model, net, corpus, resume, provenance, world>>
  BY DEF RemoveCheckpoints
<1>b. \A t \in Superbatches :
         /\ checkpoints'[t].optimiser \in {checkpoints[t].optimiser, None}
         /\ checkpoints'[t].quantised \in {checkpoints[t].quantised, None}
  BY <1>0 DEF TypeOK
<1>1. TypeOK'
  BY <1>0, <1>a, <1>b DEF TypeOK, Exported
<1>2. JobOK' /\ WeightsOK' /\ ForcedOK'
  BY <1>a DEF JobOK, WeightsOK, ForcedOK, Working, Publishing, Training, Saving
<1>3. CheckpointsOK'
  BY <1>a, <1>b DEF CheckpointsOK, Resumable
<1> QED
  BY <1>1, <1>2, <1>3

LEMMA RemoveResumeOK == IInv /\ RemoveResume => IInv'
<1> SUFFICES ASSUME IInv, RemoveResume PROVE IInv'
  OBVIOUS
<1> USE DEF IInv, RemoveResume, memory, world
<1>1. TypeOK'
  BY DEF TypeOK
<1>2. JobOK' /\ WeightsOK' /\ ForcedOK'
  BY DEF JobOK, WeightsOK, ForcedOK, Working, Publishing, Training, Saving
<1>3. CheckpointsOK'
  BY DEF CheckpointsOK, Resumable, NoCheckpoints, Absent
<1> QED
  BY <1>1, <1>2, <1>3

LEMMA ResumeTrainingOK == IInv /\ ResumeTraining => IInv'
<1> SUFFICES ASSUME IInv, ResumeTraining PROVE IInv'
  OBVIOUS
<1> USE DEF IInv, run, world
<1>0. PICK s \in Latest(Resumable) : s < job.target /\ weights' = checkpoints[s].optimiser
  BY DEF ResumeTraining
<1>a. /\ pc = "resume" /\ pc' = "train" /\ resume = job.config
      /\ UNCHANGED <<job, run, world>>
  BY DEF ResumeTraining
<1>b. Resumable \subseteq Superbatches /\ s \in Resumable /\ s \in Superbatches
  <2>1. Resumable \subseteq Superbatches
    BY DEF Resumable
  <2> QED
    BY <2>1, LatestIsOne
<1>c. job \in Jobs /\ weights' \in Weights
  BY <1>0, <1>a, <1>b DEF JobOK, Working, TypeOK, Resumable
<1>1. TypeOK'
  BY <1>a, <1>c DEF TypeOK, Working
<1>2. JobOK'
  BY <1>a, <1>c DEF JobOK, Publishing, Training, Saving
<1>3. CheckpointsOK'
  BY <1>a DEF CheckpointsOK, Resumable
<1>4. WeightsOK'
  <2>1. weights'.configs = {job.config}
    BY <1>0, <1>a, <1>b DEF CheckpointsOK
  <2>2. weights'.superbatch = s
    BY <1>0, <1>b DEF CheckpointsOK, Resumable
  <2>3. s <= job.target
    BY <1>0, <1>b, <1>c DEF Jobs, Superbatches
  <2> QED
    BY <1>0, <1>a, <1>c, <2>1, <2>2, <2>3 DEF WeightsOK, Saving
<1>5. ForcedOK'
  BY <1>a DEF ForcedOK, Working, Training, Saving, NoCheckpoints, Convertible, Absent
<1> QED
  BY <1>1, <1>2, <1>3, <1>4, <1>5

LEMMA StartTrainingOK == IInv /\ StartTraining => IInv'
<1> SUFFICES ASSUME IInv, StartTraining PROVE IInv'
  OBVIOUS
<1> USE DEF IInv, StartTraining
<1>a. /\ job \in Jobs /\ job.config \in Configs /\ job.target \in Superbatches
      /\ job' = job
  BY DEF JobOK, Working, Jobs
<1>b. weights' \in Weights /\ weights'.superbatch = 0 /\ weights'.configs = {}
  BY TrainResumeAssumption DEF TrainResumeAssumption, TypeOK, Weights
<1>1. TypeOK'
  BY <1>a, <1>b DEF TypeOK, Working, world
<1>2. JobOK'
  BY <1>a DEF JobOK, Publishing, Training, Saving
<1>3. WeightsOK'
  BY <1>a, <1>b DEF WeightsOK, Saving, Superbatches
<1>4. CheckpointsOK'
  BY DEF CheckpointsOK, Resumable
<1>5. ForcedOK'
  BY <1>a DEF ForcedOK, Working, Training, Saving, NoCheckpoints, Convertible, Absent
<1> QED
  BY <1>1, <1>2, <1>3, <1>4, <1>5

LEMMA TrainOK == IInv /\ Train => IInv'
<1> SUFFICES ASSUME IInv, Train PROVE IInv'
  OBVIOUS
<1> USE DEF IInv
<1> DEFINE trained == weights.superbatch + 1
<1>0. /\ pc = "train" /\ UNCHANGED <<job, run, world>>
      /\ weights' = [weights EXCEPT !.superbatch = trained,
                                    !.configs = @ \cup {job.config},
                                    !.corpora = @ \cup {corpus}]
      /\ pc' \in {"train", "save"}
      /\ pc' = "train" => trained # job.target
  BY DEF Train
<1>a. /\ job \in Jobs /\ job.config \in Configs /\ job.target \in Superbatches
      /\ weights \in Weights /\ resume = job.config
      /\ weights.superbatch < job.target
      /\ weights.configs \subseteq {job.config}
  BY <1>0 DEF JobOK, WeightsOK, Working, Training, Jobs
<1>b. trained \in 1 .. job.target /\ trained \in Superbatches
  BY <1>a, TrainResumeAssumption DEF Weights, Superbatches, TrainResumeAssumption
<1>c. /\ weights' \in Weights
      /\ weights'.superbatch = trained
      /\ weights'.configs = {job.config}
  <2>1. weights.configs \cup {job.config} = {job.config} /\ {job.config} \in SUBSET Configs
    BY <1>a
  <2>2. weights.corpora \cup {corpus} \in SUBSET Configs
    BY <1>0, <1>a DEF JobOK, Training, Weights
  <2>3. trained \in 0 .. MaxTarget
    BY <1>b DEF Superbatches
  <2> HIDE DEF trained
  <2> QED
    BY <1>0, <1>a, <2>1, <2>2, <2>3 DEF Weights
<1>1. TypeOK'
  BY <1>0, <1>c DEF TypeOK, Working, run, world
<1>2. JobOK'
  BY <1>0, <1>a DEF JobOK, Publishing, Training, Saving, run
<1>3. WeightsOK'
  BY <1>0, <1>a, <1>b, <1>c DEF WeightsOK, Saving, Superbatches, run
<1>4. CheckpointsOK'
  BY <1>0 DEF CheckpointsOK, Resumable, run
<1>5. ForcedOK'
  BY <1>0 DEF ForcedOK, Working, Training, Saving, NoCheckpoints, Convertible, run
<1> QED
  BY <1>1, <1>2, <1>3, <1>4, <1>5

LEMMA SaveOptimiserOK == IInv /\ SaveOptimiser => IInv'
<1> SUFFICES ASSUME IInv, SaveOptimiser PROVE IInv'
  OBVIOUS
<1> USE DEF IInv
<1> DEFINE s == weights.superbatch
<1>0. /\ pc = "save" /\ pc' = "quantise"
      /\ UNCHANGED <<job, weights, model, net, corpus, resume, provenance, world>>
      /\ checkpoints' = [checkpoints EXCEPT ![s].optimiser = weights]
  BY DEF SaveOptimiser, Go
<1>a. /\ job \in Jobs /\ job.config \in Configs /\ job.target \in Superbatches
      /\ weights \in Weights /\ resume = job.config
      /\ weights.configs = {job.config} /\ s \in 1 .. job.target
  BY <1>0 DEF JobOK, WeightsOK, Working, Training, Saving, Jobs, Weights, Superbatches
<1>b. s \in Superbatches
  BY <1>a, TrainResumeAssumption DEF Superbatches, TrainResumeAssumption
<1>c. \A t \in Superbatches :
         /\ checkpoints'[t].optimiser = IF t = s THEN weights ELSE checkpoints[t].optimiser
         /\ checkpoints'[t].quantised = checkpoints[t].quantised
  BY <1>0, <1>b DEF TypeOK
<1>1. TypeOK'
  BY <1>0, <1>a, <1>c, NetTypes DEF TypeOK, Working, world
<1>2. JobOK'
  BY <1>0, <1>a DEF JobOK, Publishing, Training, Saving
<1>3. WeightsOK'
  BY <1>0, <1>a, <1>b, <1>c DEF WeightsOK, Saving
<1>4. CheckpointsOK'
  BY <1>0, <1>a, <1>b, <1>c DEF CheckpointsOK, Resumable
<1>5. ForcedOK'
  BY <1>0, <1>a, <1>b, <1>c DEF ForcedOK, Working, Training, Saving, Convertible
<1> QED
  BY <1>1, <1>2, <1>3, <1>4, <1>5

LEMMA BeginQuantisedOK == IInv /\ BeginQuantised => IInv'
<1> SUFFICES ASSUME IInv, BeginQuantised PROVE IInv'
  OBVIOUS
<1> USE DEF IInv
<1> DEFINE s == weights.superbatch
<1>0. /\ pc = "quantise" /\ pc' = "quantising"
      /\ UNCHANGED <<job, weights, model, net, corpus, resume, provenance, world>>
      /\ checkpoints' = [checkpoints EXCEPT ![s].quantised = Torn(weights)]
  BY DEF BeginQuantised, Go
<1>a. /\ job \in Jobs /\ job.config \in Configs /\ job.target \in Superbatches
      /\ weights \in Weights /\ resume = job.config
      /\ weights.configs = {job.config} /\ s \in 1 .. job.target
      /\ checkpoints[s].optimiser = weights
  BY <1>0 DEF JobOK, WeightsOK, Working, Training, Saving, Jobs, Weights, Superbatches
<1>b. s \in Superbatches
  BY <1>a, TrainResumeAssumption DEF Superbatches, TrainResumeAssumption
<1>c. \A t \in Superbatches :
         /\ checkpoints'[t].optimiser = checkpoints[t].optimiser
         /\ checkpoints'[t].quantised = IF t = s THEN Torn(weights) ELSE checkpoints[t].quantised
  BY <1>0, <1>b DEF TypeOK
<1>d. Torn(weights) \in Nets /\ Torn(weights).whole = FALSE
  BY <1>a, ExportTypes, NetTypes
<1>1. TypeOK'
  BY <1>0, <1>a, <1>c, <1>d, NetTypes DEF TypeOK, Working, world
<1>2. JobOK'
  BY <1>0, <1>a DEF JobOK, Publishing, Training, Saving
<1>3. WeightsOK'
  BY <1>0, <1>a, <1>b, <1>c DEF WeightsOK, Saving
<1>4. CheckpointsOK'
  BY <1>0, <1>a, <1>b, <1>c DEF CheckpointsOK, Resumable
<1>5. ForcedOK'
  BY <1>0, <1>a, <1>b, <1>c, <1>d DEF ForcedOK, Working, Training, Saving, Convertible
<1> QED
  BY <1>1, <1>2, <1>3, <1>4, <1>5

LEMMA EndQuantisedOK == IInv /\ EndQuantised => IInv'
<1> SUFFICES ASSUME IInv, EndQuantised PROVE IInv'
  OBVIOUS
<1> USE DEF IInv
<1> DEFINE s == weights.superbatch
<1>0. /\ pc = "quantising" /\ pc' = IF weights.superbatch = job.target THEN "model" ELSE "train"
      /\ UNCHANGED <<job, weights, model, net, corpus, resume, provenance, world>>
      /\ checkpoints' = [checkpoints EXCEPT ![s].quantised = Whole(weights)]
  BY DEF EndQuantised, Go
<1>a. /\ job \in Jobs /\ job.config \in Configs /\ job.target \in Superbatches
      /\ weights \in Weights /\ resume = job.config
      /\ weights.configs = {job.config} /\ s \in 1 .. job.target
      /\ checkpoints[s].optimiser = weights
  BY <1>0 DEF JobOK, WeightsOK, Working, Training, Saving, Jobs, Weights, Superbatches
<1>b. s \in Superbatches
  BY <1>a, TrainResumeAssumption DEF Superbatches, TrainResumeAssumption
<1>c. \A t \in Superbatches :
         /\ checkpoints'[t].optimiser = checkpoints[t].optimiser
         /\ checkpoints'[t].quantised = IF t = s THEN Whole(weights) ELSE checkpoints[t].quantised
  BY <1>0, <1>b DEF TypeOK
<1>d. Whole(weights) \in Nets /\ Whole(weights).whole = TRUE
  BY <1>a, ExportTypes, NetTypes
<1>1. TypeOK'
  BY <1>0, <1>a, <1>c, <1>d, NetTypes DEF TypeOK, Working, world
<1>2. JobOK'
  BY <1>0, <1>a DEF JobOK, Publishing, Training, Saving
<1>3. WeightsOK'
  BY <1>0, <1>a, <1>b, <1>c DEF WeightsOK, Saving, Superbatches
<1>4. CheckpointsOK'
  BY <1>0, <1>a, <1>b, <1>c DEF CheckpointsOK, Resumable
<1>5. ForcedOK'
  BY <1>0, <1>a, <1>b, <1>c, <1>d DEF ForcedOK, Working, Training, Saving, Convertible
<1> QED
  BY <1>1, <1>2, <1>3, <1>4, <1>5

-----------------------------------------------------------------------------
(* The theorems for any CrashIn. *)

LEMMA NextOK == IInv /\ [Next]_vars => IInv'
BY StutterOK, StartRunOK, CrashOK, TrainParentOK, LoseNetOK,
   RemoveCheckpointsOK, RemoveModelOK, RemoveProvenanceOK, RemoveResumeOK, RemoveNetOK,
   RemoveCorpusOK, DecideToTrainOK, DecideToReuseOK, DecideToExtendOK, DecideStaleOK,
   DecideReusedOK, DecideRestoredOK, MaterializeCorpusOK, RefuseToResumeOK,
   FindCompleteOK, ResumeTrainingOK, StartTrainingOK, TrainOK, SaveOptimiserOK,
   BeginQuantisedOK, EndQuantisedOK, RefuseToConvertOK, BeginModelOK, EndModelOK,
   BeginExportOK, EndExportOK, WriteProvenanceOK
   DEF Next, Process, Reset, Decide, Run, Publish

THEOREM Invariant == Spec => []IInv
BY InitOK, NextOK, PTL DEF Spec

\* Every variable keeps its type, whatever dies and however a build is edited.
THEOREM TypeCorrect == Spec => []TypeOK
<1>1. IInv => TypeOK
  BY DEF IInv
<1> QED
  BY <1>1, Invariant, PTL

\* train.rs:2512-2548: no checkpoint was ever trained under two configurations,
\* for any number of configurations and runs, wherever a process may die.
THEOREM TrainingIsNeverMixed == Spec => []NoMixedTraining
<1>1. IInv => NoMixedTraining
  <2> SUFFICES ASSUME IInv, NEW s \in Superbatches, checkpoints[s].optimiser # None
               PROVE  Cardinality(checkpoints[s].optimiser.configs) = 1
    BY DEF NoMixedTraining
  <2>1. PICK c \in Configs : checkpoints[s].optimiser.configs = {c}
    BY DEF IInv, CheckpointsOK
  <2> QED
    BY <2>1, FS_Singleton
<1> QED
  BY <1>1, Invariant, PTL

\* train.rs:1762-1779: a forced run is never refused, wherever a process may die,
\* also in the reset of an earlier forced run.
THEOREM ForcedRunGetsThrough == Spec => []ForcedRunNeverRefused
<1>1. Init => ForcedRunNeverRefused
  BY DEF Init, ForcedRunNeverRefused
<1>2. IInv /\ ForcedRunNeverRefused /\ [Next]_vars => ForcedRunNeverRefused'
  <2> SUFFICES ASSUME IInv, ForcedRunNeverRefused, Next, pc' = "failed", job'.mode = "force"
               PROVE  FALSE
    BY DEF ForcedRunNeverRefused, vars, memory
  <2> USE DEF IInv
  <2>1. CASE TrainParent \/ LoseNet
    BY <2>1 DEF TrainParent, LoseNet, ForcedRunNeverRefused, memory
  <2>2. CASE DecideToExtend \/ DecideStale
    BY <2>2 DEF DecideToExtend, DecideStale, MustVouch, End
  <2>3. CASE RefuseToResume
    <3>1. pc = "resume" /\ job.mode = "force" /\ Resumable # {}
      BY <2>3, LatestIsOne DEF RefuseToResume, End, Latest
    <3> QED
      BY <3>1 DEF ForcedOK, Working, NoCheckpoints, Resumable, Absent
  <2>4. CASE RefuseToConvert
    <3>1. /\ pc = "model" /\ job.mode = "force"
          /\ \E s \in Convertible : ~checkpoints[s].quantised.whole
      BY <2>4 DEF RefuseToConvert, End, Latest
    <3> QED
      BY <3>1 DEF ForcedOK, Working
  <2>5. CASE BeginExport
    BY <2>5 DEF BeginExport, MayOverwriteNet, End, Go
  <2>6. CASE StartRun \/ Crash \/ Reset
    BY <2>6 DEF StartRun, Crash, Reset, RemoveCheckpoints, RemoveModel, RemoveProvenance,
                RemoveResume, RemoveNet, RemoveCorpus, Go, memory
  <2>7. CASE DecideToTrain \/ DecideToReuse \/ DecideReused \/ DecideRestored \/ MaterializeCorpus
    BY <2>7 DEF DecideToTrain, DecideToReuse, DecideReused, DecideRestored, MaterializeCorpus, Go, End
  <2>8. CASE FindComplete \/ ResumeTraining \/ StartTraining \/ Train
    BY <2>8 DEF FindComplete, ResumeTraining, StartTraining, Train, Go
  <2>9. CASE SaveOptimiser \/ BeginQuantised \/ EndQuantised
    BY <2>9 DEF SaveOptimiser, BeginQuantised, EndQuantised, Go
  <2>10. CASE BeginModel \/ EndModel \/ EndExport \/ WriteProvenance
    BY <2>10 DEF BeginModel, EndModel, EndExport, WriteProvenance, Go, End
  <2> QED
    BY <2>1, <2>2, <2>3, <2>4, <2>5, <2>6, <2>7, <2>8, <2>9, <2>10
       DEF Next, Process, Reset, Decide, Run, Publish
<1> QED
  BY <1>1, <1>2, Invariant, PTL DEF Spec

-----------------------------------------------------------------------------
(* Every action preserves the rest, if no process dies in a forced reset. *)

\* A step that leaves checkpoints and provenance alone; only a training and the
\* publication of its result depend on which checkpoint is the newest.
LEMMA KeptOK ==
    ASSUME SavedOK, NewestOK, VouchedOK, pc # "reset" \/ pc' = "reset",
           UNCHANGED <<checkpoints, provenance>>
    PROVE  /\ SavedOK' /\ VouchedOK'
           /\ pc' \notin Training \cup Publishing \cup {"model"} => NewestOK'
           /\ pc \in Publishing /\ pc' \in Publishing /\ UNCHANGED job => NewestOK'
<1>1. SavedOK' /\ VouchedOK'
  BY DEF SavedOK, VouchedOK, Convertible, Resumable, Finished
<1>2. pc' \notin Training \cup Publishing \cup {"model"} => NewestOK'
  BY DEF NewestOK, Training, Saving
<1>3. pc \in Publishing /\ pc' \in Publishing /\ UNCHANGED job => NewestOK'
  BY DEF NewestOK, Publishing, Resumable, Latest
<1> QED
  BY <1>1, <1>2, <1>3

\* What is extended has fewer superbatches than the run is to train.
LEMMA ExtendsFurther ==
    ASSUME VouchedOK, pc # "reset", Extendable, provenance # None, job \in Jobs
    PROVE  job.target > provenance.target
<1>1. Resumable \subseteq Superbatches
  BY DEF Resumable
<1>2. PICK s \in Latest(Resumable) : s < job.target
  BY DEF Extendable
<1>3. provenance.target \in Resumable /\ s \in Superbatches /\ provenance.target <= s
  BY <1>1, LatestIsOne DEF VouchedOK
<1>4. job.target \in Superbatches /\ provenance.target \in Superbatches
  BY <1>1, <1>3 DEF Jobs
<1> QED
  BY <1>2, <1>3, <1>4 DEF Superbatches

\* A process that dies or gives up leaves what it found.
LEMMA GivingUpKept ==
    ASSUME RInv, pc # "reset", pc' \in {"off", "failed"}, UNCHANGED run
    PROVE  RInv'
<1> USE DEF RInv, run
<1>1. SavedOK' /\ NewestOK' /\ VouchedOK'
  BY KeptOK DEF Training, Saving, Publishing
<1>2. PublishedOK' /\ ExtendingOK' /\ CandidateIsFinished'
  BY DEF PublishedOK, Publishing, ExtendingOK, Working, CandidateIsFinished
<1> QED
  BY <1>1, <1>2

\* In a forced reset only provenance matters.
LEMMA ResettingKept ==
    ASSUME RInv, pc = "reset", pc' = "reset", UNCHANGED job,
           provenance' \in {provenance, None}
    PROVE  RInv'
<1>1. VouchedOK'
  BY DEF RInv, VouchedOK, Finished
<1>2. SavedOK' /\ NewestOK' /\ PublishedOK' /\ ExtendingOK' /\ CandidateIsFinished'
  BY DEF RInv, SavedOK, NewestOK, PublishedOK, Publishing, ExtendingOK, Working,
         CandidateIsFinished
<1> QED
  BY <1>1, <1>2 DEF RInv

LEMMA StartRunKept == IInv /\ RInv /\ StartRun => RInv'
<1> SUFFICES ASSUME IInv, RInv, StartRun PROVE RInv'
  OBVIOUS
<1> USE DEF IInv, RInv, StartRun, memory, Idle, run
<1>1. SavedOK' /\ NewestOK' /\ VouchedOK'
  BY KeptOK DEF Training, Saving, Publishing
<1>2. PublishedOK'
  BY DEF PublishedOK, Publishing
<1>3. ExtendingOK'
  BY DEF ExtendingOK, Working
<1>4. CandidateIsFinished'
  BY DEF CandidateIsFinished
<1> QED
  BY <1>1, <1>2, <1>3, <1>4

LEMMA LoseNetKept == IInv /\ RInv /\ LoseNet => RInv'
<1> SUFFICES ASSUME IInv, RInv, LoseNet PROVE RInv'
  OBVIOUS
<1> USE DEF IInv, RInv, LoseNet, memory, Idle, world
<1>1. SavedOK' /\ NewestOK' /\ VouchedOK'
  BY KeptOK DEF Training, Saving, Publishing
<1>2. PublishedOK'
  BY DEF PublishedOK, Publishing
<1>3. ExtendingOK'
  BY DEF ExtendingOK, Working
<1>4. CandidateIsFinished'
  BY DEF CandidateIsFinished
<1> QED
  BY <1>1, <1>2, <1>3, <1>4

LEMMA TrainParentKept == RInv /\ TrainParent => RInv'
BY DEF RInv, TrainParent, memory, run, SavedOK, NewestOK, PublishedOK, VouchedOK,
       ExtendingOK, CandidateIsFinished, Convertible, Resumable, Latest, Finished

LEMMA RemoveCorpusKept == IInv /\ RInv /\ RemoveCorpus => RInv'
<1> SUFFICES ASSUME IInv, RInv, RemoveCorpus PROVE RInv'
  OBVIOUS
<1> USE DEF IInv, RInv, RemoveCorpus, memory, world, Go
<1>1. SavedOK' /\ NewestOK' /\ VouchedOK'
  BY DEF SavedOK, NewestOK, VouchedOK, Publishing, Convertible, NoCheckpoints, Absent
<1>2. PublishedOK'
  BY DEF PublishedOK, Publishing
<1>3. ExtendingOK'
  BY DEF ExtendingOK, Working
<1>4. CandidateIsFinished'
  BY DEF CandidateIsFinished
<1> QED
  BY <1>1, <1>2, <1>3, <1>4

LEMMA DecideToTrainKept == IInv /\ RInv /\ DecideToTrain => RInv'
<1> SUFFICES ASSUME IInv, RInv, DecideToTrain PROVE RInv'
  OBVIOUS
<1> USE DEF IInv, RInv, DecideToTrain, memory, run, world
<1>1. SavedOK' /\ NewestOK' /\ VouchedOK'
  BY KeptOK DEF Training, Saving, Publishing
<1>2. PublishedOK'
  BY DEF PublishedOK, Publishing
<1>3. ExtendingOK'
  <2>1. job \in Jobs
    BY DEF JobOK, Working
  <2>2. pc' = "data" /\ job'.extending => Extendable /\ job'.target = job.target
    BY <2>1, JobTypes DEF Extendable
  <2> QED
    BY <2>1, <2>2, ExtendsFurther DEF ExtendingOK, Working
<1>4. CandidateIsFinished'
  BY DEF CandidateIsFinished
<1> QED
  BY <1>1, <1>2, <1>3, <1>4

LEMMA DecideToReuseKept == IInv /\ RInv /\ DecideToReuse => RInv'
<1> SUFFICES ASSUME IInv, RInv, DecideToReuse PROVE RInv'
  OBVIOUS
<1> USE DEF IInv, RInv, DecideToReuse, memory, End, world, EnsureCorpus
<1>1. SavedOK' /\ NewestOK' /\ VouchedOK'
  BY KeptOK DEF Training, Saving, Publishing
<1>2. PublishedOK'
  BY DEF PublishedOK, Publishing
<1>3. ExtendingOK'
  BY DEF ExtendingOK, Working
<1>4. CandidateIsFinished'
  BY DEF CandidateIsFinished
<1> QED
  BY <1>1, <1>2, <1>3, <1>4

LEMMA DecideToExtendKept == IInv /\ RInv /\ DecideToExtend => RInv'
<1> SUFFICES ASSUME IInv, RInv, DecideToExtend PROVE RInv'
  OBVIOUS
<1> USE DEF IInv, RInv, DecideToExtend, memory, MustVouch, End, run, world
<1>1. SavedOK' /\ NewestOK' /\ VouchedOK'
  BY KeptOK DEF Training, Saving, Publishing
<1>2. PublishedOK'
  BY DEF PublishedOK, Publishing
<1>3. ExtendingOK'
  <2>1. job \in Jobs
    BY DEF JobOK, Working
  <2>2. pc' = "data" /\ job'.extending => Extendable /\ job'.target = job.target
    BY <2>1, JobTypes DEF Extendable
  <2> QED
    BY <2>1, <2>2, ExtendsFurther DEF ExtendingOK, Working
<1>4. CandidateIsFinished'
  BY DEF CandidateIsFinished
<1> QED
  BY <1>1, <1>2, <1>3, <1>4

LEMMA DecideReusedKept == IInv /\ RInv /\ DecideReused => RInv'
<1> SUFFICES ASSUME IInv, RInv, DecideReused PROVE RInv'
  OBVIOUS
<1> USE DEF IInv, RInv, DecideReused, memory, MustVouch, InputsMatch, End, world, EnsureCorpus
<1>1. SavedOK' /\ NewestOK' /\ VouchedOK'
  BY KeptOK DEF Training, Saving, Publishing
<1>2. PublishedOK'
  BY DEF PublishedOK, Publishing
<1>3. ExtendingOK'
  BY DEF ExtendingOK, Working
<1>4. CandidateIsFinished'
  BY DEF CandidateIsFinished, VouchedOK, Finished
<1> QED
  BY <1>1, <1>2, <1>3, <1>4

LEMMA DecideRestoredKept == IInv /\ RInv /\ DecideRestored => RInv'
<1> SUFFICES ASSUME IInv, RInv, DecideRestored PROVE RInv'
  OBVIOUS
<1> USE DEF IInv, RInv, DecideRestored, memory, MustVouch, InputsMatch, Go, world
<1>1. SavedOK' /\ NewestOK' /\ VouchedOK'
  BY KeptOK DEF Training, Saving, Publishing
<1>2. PublishedOK'
  BY DEF PublishedOK, Publishing, VouchedOK, Finished, Resumable
<1>3. ExtendingOK'
  BY DEF ExtendingOK, Working
<1>4. CandidateIsFinished'
  BY DEF CandidateIsFinished
<1> QED
  BY <1>1, <1>2, <1>3, <1>4

LEMMA MaterializeCorpusKept == IInv /\ RInv /\ MaterializeCorpus => RInv'
<1> SUFFICES ASSUME IInv, RInv, MaterializeCorpus PROVE RInv'
  OBVIOUS
<1> USE DEF IInv, RInv, MaterializeCorpus, memory, Go, world, EnsureCorpus
<1>1. SavedOK' /\ NewestOK' /\ VouchedOK'
  BY KeptOK DEF Training, Saving, Publishing
<1>2. PublishedOK'
  BY DEF PublishedOK, Publishing
<1>3. ExtendingOK'
  BY DEF ExtendingOK, Working
<1>4. CandidateIsFinished'
  BY DEF CandidateIsFinished
<1> QED
  BY <1>1, <1>2, <1>3, <1>4

LEMMA FindCompleteKept == IInv /\ RInv /\ FindComplete => RInv'
<1> SUFFICES ASSUME IInv, RInv, FindComplete PROVE RInv'
  OBVIOUS
<1> USE DEF IInv, RInv, FindComplete, memory, Go, run, world
<1>1. SavedOK' /\ NewestOK' /\ VouchedOK'
  BY KeptOK DEF NewestOK, Publishing, Resumable, Latest
<1>2. PublishedOK'
  BY DEF PublishedOK, Publishing
<1>3. ExtendingOK'
  BY DEF ExtendingOK, Working
<1>4. CandidateIsFinished'
  BY DEF CandidateIsFinished
<1> QED
  BY <1>1, <1>2, <1>3, <1>4

LEMMA StartTrainingKept == IInv /\ RInv /\ StartTraining => RInv'
<1> SUFFICES ASSUME IInv, RInv, StartTraining PROVE RInv'
  OBVIOUS
<1> USE DEF IInv, RInv, StartTraining, memory, world
<1>1. SavedOK' /\ VouchedOK'
  BY KeptOK
<1>5. NewestOK'
  BY DEF SavedOK, NewestOK, Publishing, Convertible
<1>2. PublishedOK'
  BY DEF PublishedOK, Publishing
<1>3. ExtendingOK'
  BY DEF ExtendingOK, Working
<1>4. CandidateIsFinished'
  BY DEF CandidateIsFinished
<1> QED
  BY <1>1, <1>2, <1>3, <1>4, <1>5

LEMMA EndModelKept == IInv /\ RInv /\ EndModel => RInv'
<1> SUFFICES ASSUME IInv, RInv, EndModel PROVE RInv'
  OBVIOUS
<1> USE DEF IInv, RInv, EndModel, memory, Go, world
<1>1. SavedOK' /\ NewestOK' /\ VouchedOK'
  BY KeptOK DEF Training, Saving, Publishing
<1>2. PublishedOK'
  <2>1. model \in Nets /\ model.weights \in Weights
    BY NetTypes DEF JobOK, Publishing
  <2> QED
    BY <2>1, ExportTypes DEF PublishedOK, Publishing
<1>3. ExtendingOK'
  BY DEF ExtendingOK, Working
<1>4. CandidateIsFinished'
  BY DEF CandidateIsFinished
<1> QED
  BY <1>1, <1>2, <1>3, <1>4

LEMMA BeginExportKept == IInv /\ RInv /\ BeginExport => RInv'
<1> SUFFICES ASSUME IInv, RInv, BeginExport PROVE RInv'
  OBVIOUS
<1> USE DEF IInv, RInv, BeginExport, memory, Go, End, MayOverwriteNet, world
<1>1. SavedOK' /\ NewestOK' /\ VouchedOK'
  BY KeptOK DEF Training, Saving, Publishing
<1>2. PublishedOK'
  BY DEF PublishedOK, Publishing
<1>3. ExtendingOK'
  BY DEF ExtendingOK, Working
<1>4. CandidateIsFinished'
  BY DEF CandidateIsFinished
<1> QED
  BY <1>1, <1>2, <1>3, <1>4

LEMMA EndExportKept == IInv /\ RInv /\ EndExport => RInv'
<1> SUFFICES ASSUME IInv, RInv, EndExport PROVE RInv'
  OBVIOUS
<1> USE DEF IInv, RInv, EndExport, memory, Go, world
<1>1. SavedOK' /\ NewestOK' /\ VouchedOK'
  BY KeptOK DEF Training, Saving, Publishing
<1>2. PublishedOK'
  BY DEF PublishedOK, Publishing
<1>3. ExtendingOK'
  BY DEF ExtendingOK, Working
<1>4. CandidateIsFinished'
  BY DEF CandidateIsFinished
<1> QED
  BY <1>1, <1>2, <1>3, <1>4

LEMMA WriteProvenanceKept == IInv /\ RInv /\ WriteProvenance => RInv'
<1> SUFFICES ASSUME IInv, RInv, WriteProvenance PROVE RInv'
  OBVIOUS
<1> USE DEF IInv, RInv, WriteProvenance, memory, End, world, EnsureCorpus
<1>0. /\ job.target \in Resumable /\ model = net
      /\ Finished(net, job.config, job.target)
  <2>1. CASE pc = "provenance"
    BY <2>1 DEF NewestOK, Latest, PublishedOK, Publishing, JobOK, Finished
  <2>2. CASE pc = "restore"
    BY <2>2 DEF PublishedOK
  <2> QED
    BY <2>1, <2>2
<1>1. SavedOK' /\ NewestOK' /\ VouchedOK'
  BY <1>0 DEF SavedOK, NewestOK, VouchedOK, Publishing, Convertible, Resumable, Finished
<1>2. PublishedOK'
  BY DEF PublishedOK, Publishing
<1>3. ExtendingOK'
  BY DEF ExtendingOK, Working
<1>4. CandidateIsFinished'
  BY <1>0 DEF CandidateIsFinished, Finished
<1> QED
  BY <1>1, <1>2, <1>3, <1>4

LEMMA ResumeTrainingKept == IInv /\ RInv /\ ResumeTraining => RInv'
<1> SUFFICES ASSUME IInv, RInv, ResumeTraining PROVE RInv'
  OBVIOUS
<1> USE DEF IInv, RInv, run, world
<1>0. PICK s \in Latest(Resumable) : weights' = checkpoints[s].optimiser
  BY DEF ResumeTraining
<1>a. pc = "resume" /\ pc' = "train" /\ UNCHANGED <<job, run>>
  BY DEF ResumeTraining
<1>1. SavedOK' /\ VouchedOK'
  BY <1>a, KeptOK
<1>2. NewestOK'
  <2>1. Resumable \subseteq Superbatches
    BY DEF Resumable
  <2>2. s \in Resumable /\ \A t \in Resumable : t <= s
    BY <2>1, LatestIsOne
  <2>3. weights'.superbatch = s
    BY <1>0, <2>2 DEF CheckpointsOK, Resumable
  <2>4. \A t \in Convertible' : t <= s
    BY <1>a, <2>2 DEF SavedOK, Convertible
  <2> QED
    BY <1>a, <2>3, <2>4 DEF NewestOK, Publishing
<1>3. PublishedOK' /\ ExtendingOK' /\ CandidateIsFinished'
  BY <1>a DEF PublishedOK, Publishing, ExtendingOK, Working, CandidateIsFinished
<1> QED
  BY <1>1, <1>2, <1>3

LEMMA TrainKept == IInv /\ RInv /\ Train => RInv'
<1> SUFFICES ASSUME IInv, RInv, Train PROVE RInv'
  OBVIOUS
<1> USE DEF IInv, RInv, run, world
<1>0. /\ pc = "train" /\ pc' \in {"train", "save"} /\ UNCHANGED <<job, run>>
      /\ weights' = [weights EXCEPT !.superbatch = weights.superbatch + 1,
                                    !.configs = @ \cup {job.config},
                                    !.corpora = @ \cup {corpus}]
  BY DEF Train
<1>a. weights \in Weights /\ weights.superbatch \in Int
  BY <1>0 DEF WeightsOK, Training, Weights
<1>b. weights'.superbatch = weights.superbatch + 1
  BY <1>0, <1>a DEF Weights
<1>1. SavedOK' /\ VouchedOK'
  BY <1>0, KeptOK
<1>2. NewestOK'
  <2>1. \A t \in Convertible : t \in Int /\ t < weights'.superbatch
    BY <1>0, <1>a, <1>b DEF NewestOK, Convertible, Superbatches
  <2> QED
    BY <1>0, <1>a, <1>b, <2>1 DEF NewestOK, Publishing, Convertible
<1>3. PublishedOK' /\ ExtendingOK' /\ CandidateIsFinished'
  BY <1>0 DEF PublishedOK, Publishing, ExtendingOK, Working, CandidateIsFinished
<1> QED
  BY <1>1, <1>2, <1>3

LEMMA SaveOptimiserKept == IInv /\ RInv /\ SaveOptimiser => RInv'
<1> SUFFICES ASSUME IInv, RInv, SaveOptimiser PROVE RInv'
  OBVIOUS
<1> USE DEF IInv, RInv, world
<1> DEFINE s == weights.superbatch
<1>0. /\ pc = "save" /\ pc' = "quantise"
      /\ UNCHANGED <<job, weights, model, net, corpus, resume, provenance, world>>
      /\ checkpoints' = [checkpoints EXCEPT ![s].optimiser = weights]
  BY DEF SaveOptimiser, Go
<1>a. weights \in Weights /\ weights # None /\ s \in Int
  BY <1>0, NoneAssumption DEF WeightsOK, Training, Saving, Weights, NoneAssumption
<1>b. \A t \in Superbatches :
         /\ checkpoints'[t].optimiser = IF t = s THEN weights ELSE checkpoints[t].optimiser
         /\ checkpoints'[t].quantised = checkpoints[t].quantised
  BY <1>0 DEF TypeOK
<1>c. Convertible' = Convertible /\ s \notin Convertible /\ Resumable \subseteq Resumable'
  BY <1>0, <1>a, <1>b DEF NewestOK, Convertible, Resumable
<1>1. SavedOK'
  BY <1>0, <1>b, <1>c DEF SavedOK, Convertible
<1>2. NewestOK' /\ VouchedOK'
  BY <1>0, <1>c DEF NewestOK, VouchedOK, Publishing, Finished
<1>3. PublishedOK' /\ ExtendingOK' /\ CandidateIsFinished'
  BY <1>0 DEF PublishedOK, Publishing, ExtendingOK, Working, CandidateIsFinished
<1> QED
  BY <1>1, <1>2, <1>3

\* quantised.bin of the checkpoint just saved, torn or whole.
LEMMA QuantisedKept ==
    ASSUME IInv, RInv, NEW e \in Nets, pc \in {"quantise", "quantising"},
           e.weights = weights, pc' # "reset",
           checkpoints' = [checkpoints EXCEPT ![weights.superbatch].quantised = e],
           UNCHANGED provenance
    PROVE  /\ SavedOK' /\ VouchedOK'
           /\ Convertible' = Convertible \cup {weights.superbatch}
           /\ Resumable' = Convertible'
           /\ \A t \in Convertible' : t <= weights.superbatch
<1> USE DEF IInv, RInv
<1> DEFINE s == weights.superbatch
<1>0. /\ weights \in Weights /\ weights # None /\ e # None
      /\ checkpoints[s].optimiser = weights /\ s \in Superbatches /\ s \in Int
  BY NoneAssumption, TrainResumeAssumption
     DEF WeightsOK, JobOK, Working, Jobs, Training, Saving, Weights, Nets, Superbatches,
         NoneAssumption, TrainResumeAssumption
<1>1. \A t \in Superbatches :
         /\ checkpoints'[t].optimiser = checkpoints[t].optimiser
         /\ checkpoints'[t].quantised = IF t = s THEN e ELSE checkpoints[t].quantised
  BY <1>0 DEF TypeOK
<1>2. Convertible' = Convertible \cup {s}
  BY <1>0, <1>1 DEF Convertible
<1>3. Resumable' = Convertible'
  <2>1. Resumable' \subseteq Convertible'
    BY DEF Resumable, Convertible
  <2>2. s \in Resumable'
    BY <1>0, <1>1 DEF Resumable
  <2>3. Convertible \subseteq Resumable
    BY DEF SavedOK, Convertible
  <2>4. Resumable \subseteq Resumable'
    BY <1>0, <1>1 DEF Resumable
  <2> QED
    BY <1>2, <2>1, <2>2, <2>3, <2>4
<1>4. SavedOK'
  BY <1>0, <1>1, <1>2, <1>3 DEF SavedOK, Convertible
<1>5. VouchedOK'
  BY <1>2, <1>3 DEF VouchedOK, Finished, Resumable, Convertible
<1>6. \A t \in Convertible' : t <= s
  BY <1>0, <1>2 DEF NewestOK, Convertible, Superbatches
<1> QED
  BY <1>2, <1>3, <1>4, <1>5, <1>6

LEMMA BeginQuantisedKept == IInv /\ RInv /\ BeginQuantised => RInv'
<1> SUFFICES ASSUME IInv, RInv, BeginQuantised PROVE RInv'
  OBVIOUS
<1> USE DEF IInv, RInv, BeginQuantised, Go
<1>0. Torn(weights) \in Nets /\ Torn(weights).weights = weights
  BY ExportTypes DEF WeightsOK, Training, Saving
<1>1. SavedOK' /\ VouchedOK' /\ \A t \in Convertible' : t <= weights.superbatch
  BY <1>0, QuantisedKept
<1>2. NewestOK'
  BY <1>1 DEF NewestOK, Publishing
<1>3. PublishedOK' /\ ExtendingOK' /\ CandidateIsFinished'
  BY DEF PublishedOK, Publishing, ExtendingOK, Working, CandidateIsFinished
<1> QED
  BY <1>1, <1>2, <1>3

LEMMA EndQuantisedKept == IInv /\ RInv /\ EndQuantised => RInv'
<1> SUFFICES ASSUME IInv, RInv, EndQuantised PROVE RInv'
  OBVIOUS
<1> USE DEF IInv, RInv, EndQuantised, Go
<1>0. Whole(weights) \in Nets /\ Whole(weights).weights = weights
  BY ExportTypes DEF WeightsOK, Training, Saving
<1>1. /\ SavedOK' /\ VouchedOK' /\ weights.superbatch \in Resumable'
      /\ Resumable' = Convertible'
      /\ \A t \in Convertible' : t <= weights.superbatch
  BY <1>0, QuantisedKept
<1>2. NewestOK'
  BY <1>1 DEF NewestOK, Publishing, Latest, WeightsOK, Training, Saving
<1>3. PublishedOK' /\ ExtendingOK' /\ CandidateIsFinished'
  BY DEF PublishedOK, Publishing, ExtendingOK, Working, CandidateIsFinished
<1> QED
  BY <1>1, <1>2, <1>3

LEMMA BeginModelKept == IInv /\ RInv /\ BeginModel => RInv'
<1> SUFFICES ASSUME IInv, RInv, BeginModel PROVE RInv'
  OBVIOUS
<1> USE DEF IInv, RInv
<1>0. PICK s \in Latest(Convertible) : model' = Torn(checkpoints[s].quantised.weights)
  BY DEF BeginModel
<1>a. /\ pc = "model" /\ pc' = "modelling"
      /\ UNCHANGED <<job, checkpoints, resume, provenance>>
  BY DEF BeginModel, Go
<1>b. Convertible = Resumable /\ Convertible \subseteq Superbatches
  BY <1>a DEF SavedOK, Convertible, Resumable
<1>c. s = job.target /\ s \in Convertible
  BY <1>a, <1>b, LatestIsOne DEF NewestOK
<1>d. checkpoints[s].quantised.weights = checkpoints[s].optimiser
  BY <1>a, <1>c DEF SavedOK
<1>e. /\ checkpoints[s].optimiser \in Weights
      /\ checkpoints[s].optimiser.superbatch = job.target
      /\ checkpoints[s].optimiser.configs = {job.config}
  BY <1>a, <1>b, <1>c DEF TypeOK, CheckpointsOK, Resumable, NewestOK
<1>1. SavedOK' /\ VouchedOK'
  BY <1>a, KeptOK
<1>2. NewestOK'
  BY <1>a DEF NewestOK, Publishing, Resumable, Latest
<1>3. PublishedOK'
  BY <1>0, <1>a, <1>d, <1>e, ExportTypes DEF PublishedOK
<1>4. ExtendingOK' /\ CandidateIsFinished'
  BY <1>a DEF ExtendingOK, Working, CandidateIsFinished
<1> QED
  BY <1>1, <1>2, <1>3, <1>4

LEMMA InitRInv == Init => RInv
BY DEF Init, RInv, SavedOK, NewestOK, PublishedOK, Publishing, VouchedOK, ExtendingOK,
       Working, CandidateIsFinished, Convertible, Absent

LEMMA NextKept == NoCrashInReset /\ IInv /\ RInv /\ [Next]_vars => RInv'
<1> SUFFICES ASSUME NoCrashInReset, IInv, RInv, [Next]_vars PROVE RInv'
  OBVIOUS
<1>1. CASE UNCHANGED vars
  BY <1>1 DEF vars, memory, run, RInv, SavedOK, NewestOK, PublishedOK, VouchedOK, ExtendingOK,
              CandidateIsFinished, Convertible, Resumable, Latest, Finished
<1>2. CASE Crash
  BY <1>2, GivingUpKept DEF Crash, NoCrashInReset
<1>3. CASE DecideStale \/ RefuseToResume \/ RefuseToConvert
  BY <1>3, GivingUpKept DEF DecideStale, RefuseToResume, RefuseToConvert, MustVouch, End
<1>4. CASE RemoveCheckpoints \/ RemoveModel \/ RemoveProvenance \/ RemoveResume \/ RemoveNet
  BY <1>4, ResettingKept
     DEF RemoveCheckpoints, RemoveModel, RemoveProvenance, RemoveResume, RemoveNet, memory
<1>5. CASE StartRun \/ TrainParent \/ LoseNet \/ RemoveCorpus
  BY <1>5, StartRunKept, TrainParentKept, LoseNetKept, RemoveCorpusKept
<1>6. CASE DecideToTrain \/ DecideToReuse \/ DecideToExtend \/ DecideReused \/ DecideRestored
  BY <1>6, DecideToTrainKept, DecideToReuseKept, DecideToExtendKept, DecideReusedKept,
     DecideRestoredKept
<1>7. CASE MaterializeCorpus \/ FindComplete \/ ResumeTraining \/ StartTraining \/ Train
  BY <1>7, MaterializeCorpusKept, FindCompleteKept, ResumeTrainingKept, StartTrainingKept,
     TrainKept
<1>8. CASE SaveOptimiser \/ BeginQuantised \/ EndQuantised
  BY <1>8, SaveOptimiserKept, BeginQuantisedKept, EndQuantisedKept
<1>9. CASE BeginModel \/ EndModel \/ BeginExport \/ EndExport \/ WriteProvenance
  BY <1>9, BeginModelKept, EndModelKept, BeginExportKept, EndExportKept, WriteProvenanceKept
<1> QED
  BY <1>1, <1>2, <1>3, <1>4, <1>5, <1>6, <1>7, <1>8, <1>9
     DEF Next, Process, Reset, Decide, Run, Publish

\* train.rs:2765-2789: where no process dies in a forced reset, a run that ends well
\* leaves a whole candidate of its own build, for any number of configurations and
\* superbatches and after any number of crashes and edits.
THEOREM CandidateIsItsBuild ==
    ASSUME NoCrashInReset
    PROVE  Spec => []CandidateIsFinished
<1>0. IInv /\ RInv /\ [Next]_vars => RInv'
  BY NextKept
<1>1. RInv => CandidateIsFinished
  BY DEF RInv
<1> QED
  BY <1>0, <1>1, InitRInv, Invariant, PTL DEF Spec

\* train.rs:2712-2761 and 3043-3049: where no process dies in a forced reset, a
\* candidate that provenance vouches for survives every run that asks neither for a
\* fresh start nor for more superbatches than it has.
THEOREM VouchedNetIsKept ==
    ASSUME NoCrashInReset
    PROVE  Spec => FinishedNetIsKept
<1>0. IInv /\ RInv /\ [Next]_vars => RInv'
  BY NextKept
<1>1. ASSUME IInv, RInv, Next, Vouched, ~Idle, net' # net
      PROVE  job.mode = "force" \/ job.target > provenance.target
  <2> USE <1>1 DEF IInv, RInv
  <2>1. CASE RemoveNet
    BY <2>1 DEF RemoveNet, JobOK
  <2>2. CASE DecideRestored
    BY <2>2 DEF DecideRestored, Vouched
  <2>3. CASE BeginExport
    BY <2>3 DEF BeginExport, Vouched, MayOverwriteNet, ExtendingOK, Working, Go
  <2>4. CASE EndExport
    <3>1. pc = "exporting" /\ net = Torn(model.weights) /\ model \in Nets
      BY <2>4 DEF EndExport, PublishedOK, JobOK, Publishing
    <3>2. ~net.whole
      BY <3>1, NetTypes, ExportTypes
    <3> QED
      BY <3>2 DEF Vouched, VouchedOK, Finished
  <2> QED
    BY <2>1, <2>2, <2>3, <2>4 DEF Next, Process, Reset, Decide, Run, Publish,
       StartRun, Crash, TrainParent, LoseNet, RemoveCheckpoints, RemoveModel,
       RemoveProvenance, RemoveResume, RemoveCorpus, DecideToTrain, DecideToReuse,
       DecideToExtend, DecideStale, DecideReused, MaterializeCorpus, RefuseToResume,
       FindComplete, ResumeTraining, StartTraining, Train, SaveOptimiser, BeginQuantised,
       EndQuantised, RefuseToConvert, BeginModel, EndModel, WriteProvenance, run
<1>2. ASSUME IInv, RInv, [Next]_vars
      PROVE  [Vouched /\ ~Idle /\ net' # net =>
                 job.mode = "force" \/ job.target > provenance.target]_vars
  BY <1>1, <1>2
<1> QED
  BY <1>0, <1>2, InitRInv, Invariant, PTL DEF Spec, FinishedNetIsKept

-----------------------------------------------------------------------------
(* Refusals, if no process dies in a forced reset. *)

Begun(s) == checkpoints[s].optimiser # None \/ checkpoints[s].quantised # None

\* The runs so far were started with the builds so far; before the first there is nothing.
BuildsOK ==
    /\ IsFiniteSet(builds)
    /\ pc # "off" => <<job.config, job.target>> \in builds
    /\ builds = {} => pc = "off" /\ NoArtifacts /\ \A s \in Superbatches : ~Begun(s)

\* From a model on, the last checkpoint of the training is there.
Late == Publishing \cup {"model", "restore", "failed"}

\* As long as there was one build only: what has been begun is on record and within the
\* build, and an artifact, a publication or a refusal follows the last checkpoint.
OneBuildOK ==
    \A c \in Configs, t \in Superbatches : builds = {<<c, t>>} =>
        /\ \A s \in Superbatches : Begun(s) => resume = c /\ s <= t
        /\ pc # "reset" /\ ~NoArtifacts => checkpoints[t].quantised # None
        /\ pc \in Late => checkpoints[t].quantised # None

EInv == BuildsOK /\ OneBuildOK

\* The build of a run is the only one, if there is only one.
LEMMA OwnBuild ==
    ASSUME IInv, EInv, pc # "off", NEW c, NEW t, builds = {<<c, t>>}
    PROVE  job.config = c /\ job.target = t /\ t \in Superbatches /\ c \in Configs
BY DEF EInv, BuildsOK, IInv, TypeOK, JobOK, Jobs

\* A step that leaves the checkpoints and the resume state alone.
LEMMA FilesKeptEarly ==
    ASSUME EInv, UNCHANGED <<builds, checkpoints, resume>>,
           pc' # "off" =>
               pc # "off" /\ job'.config = job.config /\ job'.target = job.target,
           builds = {} => pc' = "off" /\ NoArtifacts',
           \A c \in Configs, t \in Superbatches :
               builds = {<<c, t>>} /\ checkpoints[t].quantised = None =>
                   (pc' # "reset" => NoArtifacts') /\ pc' \notin Late
    PROVE  EInv'
<1>1. \A s \in Superbatches : Begun(s)' = Begun(s)
  BY DEF Begun
<1>2. BuildsOK'
  BY <1>1 DEF EInv, BuildsOK
<1>3. OneBuildOK'
  BY <1>1 DEF EInv, OneBuildOK
<1> QED
  BY <1>2, <1>3 DEF EInv

\* What a checkpoint may become while it is written, or in a reset.
LEMMA CheckpointsChangedEarly ==
    ASSUME IInv, EInv, pc \in Working, pc' \in Working, UNCHANGED <<builds, job, model, net, resume>>,
           \A s \in Superbatches : Begun(s)' => Begun(s) \/ (resume = job.config /\ s <= job.target),
           \A s \in Superbatches : pc' # "reset" =>
               (checkpoints[s].quantised # None => checkpoints'[s].quantised # None),
           pc' # "reset" => pc # "reset",
           pc' \in Late => checkpoints'[job.target].quantised # None
    PROVE  EInv'
<1>0. builds # {} /\ pc # "off"
  BY DEF EInv, BuildsOK, Working
<1>1. BuildsOK'
  BY <1>0 DEF EInv, BuildsOK
<1>2. OneBuildOK'
  <2> SUFFICES ASSUME NEW c \in Configs, NEW t \in Superbatches, builds = {<<c, t>>}
               PROVE  /\ \A s \in Superbatches : Begun(s)' => resume = c /\ s <= t
                      /\ pc' # "reset" /\ ~NoArtifacts => checkpoints'[t].quantised # None
                      /\ pc' \in Late => checkpoints'[t].quantised # None
    BY DEF OneBuildOK, NoArtifacts
  <2>1. job.config = c /\ job.target = t
    BY <1>0, OwnBuild
  <2> QED
    BY <2>1 DEF EInv, OneBuildOK
<1> QED
  BY <1>1, <1>2 DEF EInv

LEMMA InitEarly == Init => EInv
<1> SUFFICES ASSUME Init PROVE EInv
  OBVIOUS
<1>1. IsFiniteSet(builds)
  BY FS_EmptySet DEF Init
<1>2. \A s \in Superbatches : ~Begun(s)
  BY DEF Init, Begun, Absent
<1>3. builds = {} /\ pc = "off" /\ NoArtifacts
  BY DEF Init, NoArtifacts
<1> QED
  BY <1>1, <1>2, <1>3 DEF EInv, BuildsOK, OneBuildOK, Working

\* Whoever starts a first run finds nothing, and whoever starts another one what the
\* runs of the same build have left.
LEMMA StartRunEarly == IInv /\ EInv /\ StartRun => EInv'
<1> SUFFICES ASSUME IInv, EInv, StartRun PROVE EInv'
  OBVIOUS
<1>1. PICK config \in Configs, target \in Superbatches, mode \in Modes :
         /\ job' = [config |-> config, target |-> target, mode |-> mode, extending |-> FALSE]
         /\ builds' = builds \cup {<<config, target>>}
         /\ pc' = IF mode = "force" THEN "reset" ELSE "decide"
  BY DEF StartRun
<1>2. /\ UNCHANGED <<checkpoints, model, net, resume>>
      /\ pc \in {"off", "ok", "failed"} /\ pc' \in {"reset", "decide"}
      /\ job'.config = config /\ job'.target = target
  BY <1>1 DEF StartRun, run, Idle
<1>3. BuildsOK'
  <2>1. IsFiniteSet(builds')
    BY <1>1, FS_AddElement DEF EInv, BuildsOK
  <2> QED
    BY <1>1, <1>2, <2>1 DEF BuildsOK
<1>4. OneBuildOK'
  <2> SUFFICES ASSUME NEW c \in Configs, NEW t \in Superbatches, builds' = {<<c, t>>}
               PROVE  /\ \A s \in Superbatches : Begun(s) => resume = c /\ s <= t
                      /\ ~NoArtifacts => checkpoints[t].quantised # None
                      /\ pc' \notin Late
    BY <1>2 DEF OneBuildOK, Begun, NoArtifacts
  <2>1. pc' \notin Late
    BY <1>2 DEF Late, Publishing
  <2>2. builds = {} \/ builds = {<<c, t>>}
    BY <1>1
  <2> QED
    BY <1>2, <2>1, <2>2 DEF EInv, BuildsOK, OneBuildOK
<1> QED
  BY <1>3, <1>4 DEF EInv

\* A refusal of the artifacts comes after the last checkpoint.
LEMMA RefusalsEarly ==
    ASSUME IInv, EInv, DecideToExtend \/ DecideStale \/ RefuseToResume \/ RefuseToConvert
    PROVE  EInv'
<1>1. pc \in {"decide", "resume", "model"} /\ UNCHANGED <<builds, checkpoints, resume, model, net>>
  BY DEF DecideToExtend, DecideStale, RefuseToResume, RefuseToConvert, MustVouch, run, world
<1>2. \/ pc' = "data" /\ job' = [job EXCEPT !.extending = TRUE]
      \/ pc' = "failed" /\ UNCHANGED job
  BY DEF DecideToExtend, DecideStale, RefuseToResume, RefuseToConvert, End
<1>3. job \in Jobs /\ builds # {} /\ pc \in Working
  BY <1>1 DEF IInv, JobOK, EInv, BuildsOK, Working
<1>4. pc' # "off" => job'.config = job.config /\ job'.target = job.target
  BY <1>2, <1>3 DEF Working, Jobs
<1>5. ASSUME NEW c \in Configs, NEW t \in Superbatches, builds = {<<c, t>>},
             checkpoints[t].quantised = None
      PROVE  NoArtifacts' /\ pc' \notin Late
  <2>1. job.config = c /\ job.target = t
    BY <1>1, <1>5, OwnBuild
  <2>2. NoArtifacts /\ pc # "model"
    BY <1>1, <1>5 DEF EInv, OneBuildOK, Late
  <2>3. RefuseToResume
    BY <2>2 DEF DecideToExtend, DecideStale, RefuseToConvert, MustVouch
  <2>4. PICK s \in Latest(Resumable) : resume # job.config \/ s > job.target
    BY <2>3 DEF RefuseToResume
  <2>5. s \in Superbatches /\ Begun(s)
    BY <2>4, LatestIsOne DEF Resumable, Begun
  <2>6. resume = c /\ s <= t
    BY <1>5, <2>5 DEF EInv, OneBuildOK
  <2> QED
    BY <2>1, <2>4, <2>5, <2>6 DEF Superbatches
<1> QED
  BY <1>1, <1>2, <1>3, <1>4, <1>5, FilesKeptEarly

\* The steps that write no checkpoint and no resume state and refuse nothing.
LEMMA QuietEarly ==
    ASSUME NoCrashInReset, IInv, RInv, EInv,
           \/ Crash \/ TrainParent \/ LoseNet
           \/ RemoveModel \/ RemoveProvenance \/ RemoveNet \/ RemoveCorpus
           \/ DecideToTrain \/ DecideToReuse \/ DecideReused \/ DecideRestored
           \/ MaterializeCorpus \/ FindComplete \/ ResumeTraining \/ Train
    PROVE  EInv'
<1> USE DEF memory, world, run, Go, End
<1>1. /\ UNCHANGED <<builds, checkpoints, resume>>
      /\ builds = {} => pc = "off" /\ NoArtifacts
      /\ pc \in Working => job \in Jobs
  BY DEF Crash, TrainParent, LoseNet, RemoveModel, RemoveProvenance, RemoveNet, RemoveCorpus,
         DecideToTrain, DecideToReuse, DecideReused, DecideRestored, MaterializeCorpus,
         FindComplete, ResumeTraining, Train, EInv, BuildsOK, IInv, JobOK
<1>2. ASSUME NEW c \in Configs, NEW t \in Superbatches, builds = {<<c, t>>},
             checkpoints[t].quantised = None
      PROVE  (pc # "reset" => NoArtifacts) /\ pc \notin Late
  BY <1>2 DEF EInv, OneBuildOK
<1>3. CASE Crash
  BY <1>1, <1>2, <1>3, FilesKeptEarly
     DEF Crash, NoCrashInReset, Working, Late, Publishing, NoArtifacts
<1>4. CASE TrainParent
  BY <1>1, <1>2, <1>4, FilesKeptEarly DEF TrainParent, NoArtifacts
<1>5. CASE LoseNet
  BY <1>1, <1>2, <1>5, FilesKeptEarly DEF LoseNet, NoArtifacts
<1>6. CASE RemoveModel \/ RemoveProvenance \/ RemoveNet
  BY <1>1, <1>2, <1>6, FilesKeptEarly
     DEF RemoveModel, RemoveProvenance, RemoveNet, NoArtifacts, Late, Publishing
<1>7. CASE RemoveCorpus
  BY <1>1, <1>2, <1>7, FilesKeptEarly DEF RemoveCorpus, NoArtifacts, Late, Publishing, Working
<1>8. CASE DecideToTrain
  <2>1. pc = "decide" /\ pc' = "data" /\ job' = [job EXCEPT !.extending = Extendable]
    BY <1>8 DEF DecideToTrain
  <2>2. job'.config = job.config /\ job'.target = job.target
    BY <1>1, <2>1 DEF Jobs, Working
  <2> QED
    BY <1>1, <1>2, <1>8, <2>1, <2>2, FilesKeptEarly
       DEF DecideToTrain, NoArtifacts, Late, Publishing, Working
<1>9. CASE DecideToReuse \/ DecideReused
  BY <1>1, <1>2, <1>9, FilesKeptEarly
     DEF DecideToReuse, DecideReused, MustVouch, NoArtifacts, Late, Publishing, Working
<1>10. CASE DecideRestored
  <2>1. pc = "decide" /\ pc' = "restore" /\ ~NoArtifacts /\ UNCHANGED job
    BY <1>10 DEF DecideRestored, MustVouch
  <2> QED
    BY <1>1, <1>2, <2>1, FilesKeptEarly DEF Working
<1>11. CASE MaterializeCorpus \/ ResumeTraining \/ Train
  BY <1>1, <1>2, <1>11, FilesKeptEarly
     DEF MaterializeCorpus, ResumeTraining, Train, NoArtifacts, Late, Publishing, Working
<1>12. CASE FindComplete
  <2>1. pc = "resume" /\ pc' = "model" /\ job.target \in Resumable /\ UNCHANGED <<job, model, net>>
    BY <1>12 DEF FindComplete, Latest
  <2>2. checkpoints[job.target].quantised # None
    BY <2>1 DEF Resumable
  <2>3. ASSUME NEW c \in Configs, NEW t \in Superbatches, builds = {<<c, t>>} PROVE job.target = t
    BY <2>1, <2>3, OwnBuild DEF Working
  <2> QED
    BY <1>1, <1>2, <2>1, <2>2, <2>3, FilesKeptEarly DEF NoArtifacts, Working
<1> QED
  BY <1>3, <1>4, <1>5, <1>6, <1>7, <1>8, <1>9, <1>10, <1>11, <1>12

\* Whoever publishes has its last checkpoint.
LEMMA PublishingEarly ==
    ASSUME EInv, BeginModel \/ EndModel \/ BeginExport \/ EndExport \/ WriteProvenance
    PROVE  EInv'
<1> USE DEF BeginModel, EndModel, BeginExport, EndExport, WriteProvenance, Go, End
<1>1. /\ pc \in Late /\ pc \in Working /\ pc' # "reset"
      /\ UNCHANGED <<builds, checkpoints, resume, job>>
  BY DEF Late, Publishing, Working, world
<1>2. builds # {}
  BY <1>1 DEF EInv, BuildsOK
<1>3. ASSUME NEW c \in Configs, NEW t \in Superbatches, builds = {<<c, t>>}
      PROVE  checkpoints[t].quantised # None
  BY <1>1, <1>3 DEF EInv, OneBuildOK
<1> QED
  BY <1>1, <1>2, <1>3, FilesKeptEarly

LEMMA RemoveCheckpointsEarly == IInv /\ EInv /\ RemoveCheckpoints => EInv'
<1> SUFFICES ASSUME IInv, EInv, RemoveCheckpoints PROVE EInv'
  OBVIOUS
<1>1. pc = "reset" /\ pc' = "reset" /\ UNCHANGED <<builds, job, model, net, resume>>
  BY DEF RemoveCheckpoints, memory, world
<1>2. \A s \in Superbatches : Begun(s)' => Begun(s)
  <2>1. PICK s \in Superbatches, file \in {"optimiser", "quantised"} :
           checkpoints' = [checkpoints EXCEPT ![s][file] = None]
    BY DEF RemoveCheckpoints
  <2> QED
    BY <2>1 DEF Begun, IInv, TypeOK
<1> QED
  BY <1>1, <1>2, CheckpointsChangedEarly DEF Working, Late, Publishing

\* The resume state goes after the last checkpoint.
LEMMA RemoveResumeEarly == EInv /\ RemoveResume => EInv'
<1> SUFFICES ASSUME EInv, RemoveResume PROVE EInv'
  OBVIOUS
<1>1. /\ pc = "reset" /\ pc' = "reset" /\ NoCheckpoints
      /\ UNCHANGED <<builds, job, checkpoints>>
  BY DEF RemoveResume, memory, world
<1>2. \A s \in Superbatches : ~Begun(s)'
  BY <1>1 DEF Begun, NoCheckpoints, Absent
<1> QED
  BY <1>1, <1>2 DEF EInv, BuildsOK, OneBuildOK, Late, Publishing, Working

\* Whoever starts a training finds no checkpoint but what a kill has left of one, and
\* records the build before it writes any.
LEMMA StartTrainingEarly == IInv /\ EInv /\ StartTraining => EInv'
<1> SUFFICES ASSUME IInv, EInv, StartTraining PROVE EInv'
  OBVIOUS
<1>1. /\ pc = "resume" /\ pc' = "train" /\ resume' = job.config
      /\ UNCHANGED <<builds, job, checkpoints, model, net>>
  BY DEF StartTraining, world
<1>2. builds # {}
  BY <1>1 DEF EInv, BuildsOK
<1>3. BuildsOK'
  BY <1>1, <1>2 DEF EInv, BuildsOK, Working
<1>4. OneBuildOK'
  <2> SUFFICES ASSUME NEW c \in Configs, NEW t \in Superbatches, builds = {<<c, t>>}
               PROVE  /\ \A s \in Superbatches : Begun(s) => resume' = c /\ s <= t
                      /\ ~NoArtifacts => checkpoints[t].quantised # None
                      /\ pc' \notin Late
    BY <1>1 DEF OneBuildOK, Begun, NoArtifacts
  <2>1. job.config = c
    BY <1>1, OwnBuild DEF Working
  <2> QED
    BY <1>1, <2>1 DEF EInv, OneBuildOK, Late, Publishing
<1> QED
  BY <1>3, <1>4 DEF EInv

\* A checkpoint is written under the resume state and within the build.
LEMMA CheckpointEarly ==
    ASSUME IInv, EInv, SaveOptimiser \/ BeginQuantised \/ EndQuantised
    PROVE  EInv'
<1> DEFINE n == weights.superbatch
<1> USE DEF SaveOptimiser, BeginQuantised, EndQuantised, Go
<1>1. /\ pc \in Saving /\ pc \in Working /\ pc' \in {"quantise", "quantising", "model", "train"}
      /\ UNCHANGED <<builds, job, model, net, resume>>
  BY DEF Saving, Working, world
<1>2. /\ n \in Superbatches /\ n <= job.target /\ resume = job.config /\ weights \in Weights
      /\ job.target \in Superbatches
  BY <1>1 DEF IInv, WeightsOK, Training, Saving, Weights, Superbatches, JobOK, Jobs
<1>3. /\ \A s \in Superbatches \ {n} : checkpoints'[s] = checkpoints[s]
      /\ checkpoints[n].quantised # None => checkpoints'[n].quantised # None
      /\ pc' = "model" => n = job.target /\ checkpoints'[n].quantised # None
  <2>1. DOMAIN checkpoints = Superbatches
    BY DEF IInv, TypeOK
  <2>2. Torn(weights) # None /\ Whole(weights) # None
    BY <1>2, ExportTypes, NoneAssumption DEF NoneAssumption, Nets
  <2>3. CASE SaveOptimiser
    BY <1>2, <2>1, <2>3
  <2>4. CASE BeginQuantised \/ EndQuantised
    <3>1. PICK e \in {Torn(weights), Whole(weights)} :
             checkpoints' = [checkpoints EXCEPT ![n].quantised = e]
      BY <2>4
    <3>2. checkpoints'[n].quantised = e \/ checkpoints'[n] = checkpoints[n]
      BY <1>2, <2>1, <3>1
    <3> QED
      BY <1>2, <2>1, <2>2, <2>4, <3>1, <3>2
  <2> QED
    BY <2>3, <2>4
<1>4. \A s \in Superbatches : Begun(s)' => Begun(s) \/ (resume = job.config /\ s <= job.target)
  BY <1>2, <1>3 DEF Begun
<1> QED
  BY <1>1, <1>2, <1>3, <1>4, CheckpointsChangedEarly DEF Working, Late, Publishing, Saving

LEMMA NextEarly == NoCrashInReset /\ IInv /\ RInv /\ EInv /\ [Next]_vars => EInv'
<1>1. EInv /\ UNCHANGED vars => EInv'
  BY DEF vars, memory, run, world, EInv, BuildsOK, OneBuildOK, Begun, NoArtifacts
<1> QED
  BY <1>1, StartRunEarly, RefusalsEarly, QuietEarly, PublishingEarly, RemoveCheckpointsEarly,
     RemoveResumeEarly, StartTrainingEarly, CheckpointEarly
     DEF Next, Process, Reset, Decide, Run, Publish

\* train.rs:2712-2761 and 2880-2950: where no process dies in a forced reset, the same
\* build started again after any number of crashes is refused only if the last checkpoint
\* of its training had been begun.
THEOREM RerunsGetThrough ==
    ASSUME NoCrashInReset
    PROVE  Spec => []EarlyCrashesAreRepaired
<1>0. IInv /\ RInv /\ [Next]_vars => RInv'
  BY NextKept
<1>1. IInv /\ RInv /\ EInv /\ [Next]_vars => EInv'
  BY NextEarly
<1>2. IInv /\ EInv => EarlyCrashesAreRepaired
  <2> SUFFICES ASSUME IInv, EInv, pc = "failed", Cardinality(builds) = 1
               PROVE  checkpoints[job.target].quantised # None
    BY DEF EarlyCrashesAreRepaired
  <2>1. PICK b : builds = {b}
    BY FS_Singleton DEF EInv, BuildsOK
  <2>2. PICK c \in Configs, t \in Superbatches : b = <<c, t>>
    BY <2>1 DEF IInv, TypeOK
  <2>3. job.target = t
    BY <2>1, <2>2, OwnBuild
  <2> QED
    BY <2>1, <2>2, <2>3 DEF EInv, OneBuildOK, Late
<1> QED
  BY <1>0, <1>1, <1>2, InitRInv, InitEarly, Invariant, PTL DEF Spec

=============================================================================
