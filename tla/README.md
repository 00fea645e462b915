# Verification of the Enyo NNUE pipeline

The repository trains, validates and promotes the evaluation networks of the Enyo
chess engine. This directory holds TLA+ models of the parts of it whose
correctness depends on the order in which things happen: what several processes
do to each other, what a crash leaves behind, what a rerun finds. TLC checks the
models on small instances; TLAPS proves the safety properties of the processes, of the
tools that read and write nets, of the rows their input tables have, of the tools that
divide and mix corpora and of those that change scores, for every size, and that the
averaging protocol implements its specification. The tools that read their inputs and
write their outputs once are modelled as functions and checked against each other. Every
safety property the passing runs check is also a theorem; section 5 says what is not, and
why. `PROJECT.json` maps every definition to the lines it translates, lists the runs with
their properties, and records the hazards of the code with the properties that cover them.

Paths below are relative to the repository (`src/`). To repeat the results, in this
directory:

    tlc -workers 2 -config DistSyncFaults.cfg MCDistSync     # likewise the other runs
    tlapm DistSyncProofs.tla                                 # likewise TrainResumeProofs,
                                                             # NnueLoopProofs, Lc0PipelineProofs,
                                                             # UciLabelProofs, SelfplayCorpusProofs,
                                                             # ToolsProofs, CorpusProofs

## 1. Inventory

The program is not one process. A person starts `./nnue train`, a shell script; it
calls the Rust trainer, a handful of Python gates, and Forge, a distributed job
runner that lives in another repository. Around it stand converters that turn LC0
archives, self-play games and Stockfish binpacks into training corpora. Almost all
of these keep their progress in files, are killed now and then, and are started
again under the same name; the interesting properties are about that.

| Component | Code | State | Operations | Talks to | Hard behaviour | What makes it correct |
|---|---|---|---|---|---|---|
| Distributed weight averaging | `spike_trainer/src/distributed/`, `run_with_hook` in `bullet-local.patch` | weights, superbatch and checkpoints of every member; listener, connections | train a superbatch, send, collect, average, reply, load, save, resume | members, over TCP | members die, time out and come back while a round is open; requests outlive their sender | the final model holds the training of a whole fleet; no sync point is skipped; members that finish agree; without faults everybody finishes |
| Training artifacts | `spike_trainer/src/bin/train.rs` | corpus, checkpoints, `model.nn`, candidate net, `training.resume.json`, `train.provenance.json` | `all`, `data`, `run`, `export`, `--force`, extension, reuse, restore | bullet; the runs named by `continue_from` | a kill between any two writes; the build edited between runs; torn files | no training is mixed or passed off as another; a net that is vouched for is kept; a rerun repairs a kill |
| Iteration loop | `nnue` | lock, gate markers, SPRT logs, Stockfish ledger, result commits | train, gates, launch, poll, triage, judge, benchmark, commit | trainer, gates, Forge, git | kills; Forge runs that are stopped and resumed under it; leftovers of an earlier candidate | the verdict committed is that of this candidate's own gates and games; the loop ends |
| LC0 conversion | `tools/forge/lc0_to_enyo_bullet.py` | `work-state.json`; per batch plan, launch record, merged output, validation; corpus and its provenance | preflight, launch or resume, wait with quarantine, validate, merge, publish | Forge and its workers; `label.py` through them | kills; archives or net replaced; tasks that fail; workers that fall silent with a claim | only complete, sound batches of one net are published; valid batches are never redone; the script ends |
| UCI labelling | `tools/score/label_with_uci.py`, `tools/score/label.py` | engine process, reader threads, line queue, row in hand | handshake, confirm net, search or evaluate with a deadline, restart | a UCI engine, over pipes | the reader of a closed engine writes to the queue of the next; a late `bestmove`; an engine that hangs, dies or misses its net | a label is of the position it stands beside, by the net that was asked for; the task ends |
| Self-play corpora | `tools/bullet/selfplay_to_bullet.py`, `..._sf_oracle.py`, `..._tb.py` | corpus, state file, lock, intermediates | select shards, convert, append, note, reset | the generator's output directory | kills between append and note; overlapping invocations; outputs that share a directory; games that go on arriving | no shard is lost, none is there twice |
| Net format and inference | `tools/lib/enyo_nnue.py`, `nnue_forward.py`, `bullet/bullet.py`, `bullet/enyo_nn_to_bullet_weights.py` | the file | export, load, write, warm start, expand buckets | trainer, engine | twelve formats; files told by their size; layouts of different shape | what is written is read as what it was; a warm start has the child's shapes and keeps each king's rows |
| Corpus partition and relabelling | `tools/bullet/repartition_bullet.py`, `bullet_tb_relabel.py`, `tools/posgen/mix_jsonl.py`, `tools/lib/bullet_*.py` | chunk files | divide, mix, relabel by tablebase, pack a position into 32 bytes | | empty chunks; the last chunk; scores at a clamp | no record lost or repeated; scores keep their order |
| Position generation | `tools/posgen/lc0_to_jsonl.py`, `posgen.py`, ... | none across records | decode, divide over shards, sample | | limits that do not divide; broken records; both sides to move | the same item for both colours; no row lost |
| Score calibration | `tools/score/lc0_calibration.py` | fitted curve | pool, fit, apply | | ties, few pairs | the curve never falls and is the closest one |
| Packed datasets | `tools/pack/`, `tools/lib/nnue_dataset.py`, `packed_labels.py` | memory maps | pack, merge, read | | ids that are local to a shard | a row keeps its source |
| Self-play generation | `tools/posgen/selfplay_shards.py`, `run_selfplay.sh` | shard files | divide games, seed, merge | game runner | rounding at the last shard | shard counts add up |
| Trainer tensor code | `spike_trainer/src/main.rs`, `enyo_threats.rs` | none | build the graph and the sparse inputs | | index tables | those of `enyo_nnue.py` |
| Binpack tools | `convert_sfbinpack.rs`, `count_binpack.cpp` | none | decode | | vendored reader | - |
| Gates and validators | `tools/validate/` | none | measure one net | | | - |
| Stand-alone SPRT, events, smoke driver | `sprt_net.py`, `tools/events/`, `distributed_smoke.py` | none | | | | - |

Interaction: the loop calls the trainer and takes its exit status and the candidate
file; the trainer's members talk to one another over TCP; the loop and the LC0
conversion watch Forge by polling its command line, so each look is a snapshot that
may be old when it is acted on; Forge's workers run `label.py`, whose output files
the conversion validates. The trainer writes nets that the tools load, and reads the
warm starts and corpora the tools write. Everything else meets through files.

## 2. Modules

| Module | Models | Extended by |
|---|---|---|
| `LocalSGD` | what weight averaging promises, without a network | |
| `DistSync` | the averaging protocol, the checkpoints and restarts of its members; implements `LocalSGD` | `MCDistSync`, `DistSyncProofs` |
| `TrainResume` | `train all` over one run name, kills and edits between runs | `MCTrainResume`, `TrainResumeProofs` |
| `NnueLoop` | iterations of `./nnue train` over one run name, with Forge | `MCNnueLoop`, `NnueLoopProofs` |
| `Lc0Pipeline` | starts of the LC0 conversion over one work directory, with Forge | `MCLc0Pipeline`, `Lc0PipelineProofs` |
| `UciLabel` | one labelling task with its engines and their readers | `MCUciLabel`, `UciLabelProofs` |
| `SelfplayCorpus` | invocations of the three self-play converters | `MCSelfplayCorpus`, `SelfplayCorpusProofs` |
| `NetFormat` | the `.nn` file: shapes, sizes, flags, versions, and who writes and reads what | `Tools` |
| `NetFeatures` | king buckets, feature indices, threat tables, conversion of layouts | `TrainingRecords` |
| `TrainingRecords` | LC0 records, JSONL rows, Bullet records and training items | `CorpusOps` |
| `CorpusOps` | how corpora are divided, mixed, sampled, merged, and scores calibrated | `Tools` |
| `Tools` | the stand-alone tools, one invocation each | `MCTools`, `ToolsProofs`, `CorpusProofs` |

`TrainResume` is the detailed view of what `NnueLoop` reduces to one action
(`Train`); `NnueLoop` numbers candidates where `TrainResume` knows what they are
made of. `UciLabel` is what happens inside one `Label` of `Lc0Pipeline`. Forge, in the last two, is not in the repository; it is modelled from how
the scripts use it and marked external in the map.

Definitions named after a mistake, with the comment "Mutant:", stand before the
definition they alter. They take no part in the models: each one put in place of
its original makes a property fail, which shows that the property depends on that
line of the code.

### DistSync

State. `pc`, `superbatch`, `updates`, `base`, `checkpoint` are per member;
`backlog` is the listener's accept queue, `peers` the streams of the round,
`average` what is being written, `reply` what lies in a worker's socket, `rounds`
the averages so far. Weights are the set of pairs (member, superbatch) whose
training has gone into them, which is exactly what averaging preserves and what
"fleet-wide average" is about; tensor arithmetic is left out. `inc` numbers the
processes of a member, so that a request left by a dead process can be told from
that of its successor.

| Action | Code |
|---|---|
| `Boot` | `make_sync_hook` binds the listener before training (`mod.rs:40-68`) |
| `Train`, `EndSuperbatch` | one superbatch of `run_with_hook`: hook first, then the save if it is due, then the end |
| `SyncDue` | the cadence, and always the final superbatch (`mod.rs:77-82`) |
| `Connect`, `SendRequest`, `ReceiveAverage`, `LoseConnection` | `worker.rs`: connect until the deadline, write, read, compare the superbatch |
| `AcceptRequest`, `RejectRequest`, `Average`, `WriteReply`, `FinishRound` | `coordinator.rs`: accept and check one request after another, average, write stream after stream, load |
| `Timeout`, `Crash`, `Fail` | every error is a panic that ends the process and closes its sockets |
| `Restart` | `train run` once more, from the member's own newest checkpoint |

A request of a dead process may be read whole or torn; a write to a dead process may
succeed or fail; both outcomes are possible steps. Malformed frames fail the round
just as `RejectRequest` and `Crash` do and have no action of their own. `faults` says
whether anything goes wrong in a behaviour at all, so that one run answers for both kinds.

The deadlines have neither lengths nor start times. A worker counts from when it comes to
the round, the coordinator from when it does, and both hand what is left of it to the
socket as the timeout of each single read or write (`worker.rs:21-22`,
`coordinator.rs:22-23`), so either side may give up first, early or late: `Timeout` may happen to any process that waits, and need not. What
holds of every order holds of the real ones; that a deadline comes in time, or that the
coordinator's is long enough for its workers, is not stated.

The connections of one worker are accepted in the order they were made (`Oldest`): the
kernel queues them so, and one thread takes them off (`coordinator.rs:47-58`). The order
between workers is open. The model once left both open; the proof of `PeersShareBase`
could then not be completed, and TLC confirmed why: if a restarted worker's request could
overtake the one its dead process left, the old one would be averaged a round later.

### TrainResume

A build is a configuration (what `resume_config_sha256` covers) and a number of
superbatches (what it leaves out). Weights record how they were made: superbatches,
version of the parent, configurations and corpora that went in. A file that is
written in place is torn before it is whole; one that is replaced by a rename is
not. `pc` follows `cmd_all`: `reset` (`reset_training_artifacts_for_force`),
`decide` (`resume_training`), `data` (`cmd_data`), `resume`, `train`, `save`,
`quantise` (`cmd_run`), `model` (`write_model`), `export` (`cmd_export`),
`provenance`. The user may start another build at any time no process runs
(`StartRun`), the parent may be trained further (`TrainParent`), the candidate may
be deleted (`LoseNet`), and the process may die at every place in `CrashIn`.

Assumed: a build with `continue_from`, a materialized corpus and
`lr_superbatches` set. Without `lr_superbatches` the target is part of what is
hashed and every extension is refused.

### NnueLoop

`pc` follows one iteration: `train`, `gate`, `sprt` (`run_sprt_once`), `log`,
`setup`, then `wait`, `refuse`, `poll`, `step` (the two status reads of each turn of
`wait_for_existing_forge_sprt`), `stop`, `judge`, `benchmark`, `ledger`, `commit`. What
survives a kill is `net`, `passed` (the markers), `log`, `printed`, `ledger`, `dirty` and
`committed`. Candidates are numbered as they are exported and `flaw` names the gate
each one would fail. Forge runs know the candidate they play, have a state and an
LLR, publish a decision while still `stopped` (`Decide`, then `Close`), and are
stopped and resumed by an operator (`Operate`).

| Action | Code (`nnue`) |
|---|---|
| `Train` | `_train`; a forced training that fails may leave no candidate (`Remains`), as the reset removed it |
| `PassGate`, `FailGate` | `gate_passed` and the gates |
| `FindRun`, `Launch`, `LogRun`, `CheckSetup` | `run_sprt_once`: the run to wait for (`Found`), else `forge sprt \| tee` and the check of its workers |
| `ReadResult` | `read_forge_sprt_status` or else `read_completed_forge_sprt_log`: a log that ends with the games (`printed`) is a result of its own, of the run it names |
| `GiveUpUnread`, `GiveUpHalted`, `GiveUpWaiting`, `BeginPolling`, `Sleep` | the turns of `wait_for_existing_forge_sprt` |
| `RejectEarly`, `StopEarly` | the one look at the Elo at `SMOKE_GAMES`, and the stop that follows; Forge may move in between |
| `JudgeScreen`, `Judge` | `sprt_gate`, `full_sprt_gate` |
| `Benchmark`, `AppendLedger`, `CommitResult` | the Stockfish benchmark, the ledger, the result commit |

Every look at Forge may fail. In `Found` a run without a status is stale (`named`,
867-870), and a list that cannot be read counts as empty (`listed`): the `fail` of line 757
runs inside `$(... || true)` at 871 and ends the subshell alone. A launch after such a list
is `blind`. Before the loop an unread status ends the iteration, within it the turn is
slept over, and a stop that fails is passed over.

### Lc0Pipeline

`pc` follows `main`: `verify` (`init_or_verify_work_state`), then for each batch
`batch`, `launch`, `started`, `wait`, `collect`, `shards`, `merge`, `vouch`, and at
the end `final` and `sign`. A refusal has a place of its own, so that the runs can
tell them apart. Tasks are pending, claimed, failed or done; a done task records the
net it was labelled with and whether its statistics show a sound search. Every file
of the work directory is replaced by a rename, so files are whole or absent.

### UciLabel

The engine is a process with an `inbox` of commands and a `pipe` of lines; a reader
thread moves lines into `queue`. `late` is what the reader of the closed engine has not
delivered: `read_stdout` looks `self.lines` up for every line, so this ends in the
*new* queue (`label_with_uci.py:209-217`). Each line records the row it is about and
whether its process had loaded the net; the task sees neither.

| Action | Code |
|---|---|
| `HandshakeLine`, `HandshakeTimeout`, `StartFailed` | `start`, `wait_for`, `_verify_net_loaded` (eager, lazy and plain engines), `restart` with its attempts |
| `NextRow`, `LabelLine` | the loop of `main`; `label` keeps the last score until `bestmove`, `static_eval` takes the first evaluation |
| `LabelTimeout` | the row is given up, the engine closed and replaced |
| `Answer`, `Die`, `ReadStdout` | the engine and the readers, at any time or never |

Assumed: the lines of a closed engine are in the queue before the next one answers
`isready`. The reader only has to empty a pipe whose writer is dead while the task waits
for a process to start; without the assumption `AnswersAreOwn` is violated.

### SelfplayCorpus

Per output `corpus` (what was appended, in which label mode, whole or cut off), `state`
(the file) and `lock`; per invocation `pc`, its arguments, the shards `todo` and the
copy of the state it has `seen`; `chunks` are the converted shards before they are
appended. The three scripts differ in where intermediates lie (`Tmp`), what they
refuse (`Refuses`), what they note (`Noted`), and which shards may be asked for
(`NewShards`); the rest is the same code three times. `todo` is a set, as the code sorts
the names it finds and goes through them once: the next shard is the smallest.

| Action | Code (`selfplay_to_bullet.py`) |
|---|---|
| `Start`, `Lock` | arguments, `locked` (212-230) |
| `ResetState`, `ResetCorpus` | `--reset`, two removals (275-278) |
| `Select` | `load_state`, the checks of slice and mode, `select_shards` (279-322) |
| `Convert`, `AppendChunk`, `SaveState`, `Finish` | one turn of the loop (324-358) and the end |
| `Fail`, `Kill`, `Arrive` | a subprocess fails; the process dies anywhere, also within a write; games arrive |

A PGN is taken as it is found. The code does not tell one that is still written from one
that is complete, so `Convert` may find nothing in any shard, which it then notes as
processed for good (`bare`, a history variable); of a shard converted early the corpus has
what was in it by then, and the rest is never looked at. In a conversion that finds nothing
the intermediate of a killed one is removed, except in `_tb`, where `touch` leaves it and
it is appended.

`spoilt` is not in the code: it remembers the outputs to which one of the two things
happened that the scripts do not guard against, so that `ShardsOnce` can say that
nothing *else* breaks it.

### Tools, NetFormat, NetFeatures, TrainingRecords, CorpusOps

A behaviour of `Tools` is one invocation: `job` is the tool with its inputs, `result`
what it leaves. The four other modules are the tools as functions.

- `NetFormat` describes a net by its format, flags and sizes, never by its weights.
  `WriteModel` is `write_model` of the trainer, `BulletExport` the one of `bullet.py`,
  `Configurations` are those `validate_layout` accepts, `BulletConfigurations` the choices
  of `bullet.py`'s arguments. `LoadNet` is `load_net` with the layouts told by size, `WriteNet` and `ExportModel`
  are the two ways back, `WeightsFrom` is the warm start with the shape of each tensor.
- `NetFeatures` has the five tables of king buckets, the map from trained to engine
  buckets, the source rows of a converted layout, and the threat tables.
- `TrainingRecords` has a position through `lc0_to_jsonl.py`, the Bullet record, and the
  items either data set makes of it.
- `CorpusOps` has division over shards with limits and broken records, the cut into
  chunks, mixing and sampling (as sets of what some random draw leads to), source maps
  of packed shards, `_pav`, `fit_anchors` and `apply_anchors` with exact fractions.
  Folds stand for the loops, an insertion for `sorted`.

## 3. Runs

| Run | Question | Bounds | Distinct states |
|---|---|---|---|
| `dist_faults` | Do crashes, deadlines and restarts break the averaging? No, it implements `LocalSGD`. Does a group ever block itself where nothing goes wrong? No. | 2 workers, 5 superbatches, cadence 2, so three syncs, the last off the cadence; one restart per member | 68,592 |
| `train_edits` | Is a training ever mixed, passed off as another, overwritten, or unrepairable early? No. | 2 configurations, targets up to 3, save rate 2, 1 newer parent, 4 runs, kills outside the reset | 924,545 |
| `train_reset` | ... and with kills inside the forced reset? Violated. | targets up to 2, save rate 1, 4 runs | |
| `loop_restarts` | Is a verdict that of the games? Is FORCE=1 fresh? Is one run played at a time? Does the loop end? Yes, but for a blind launch. | 2 gates, screen and full match, 2 starts, 2 candidates, 2 Forge runs, 2 polls | 979,822 |
| `loop_blind` | Does an iteration that cannot read the list of runs end? Violated. | as above, no screen | |
| `loop_stale` | Is a plain iteration judged on its own gates and games? Violated. | as above, 3 starts, 3 Forge runs, no screen | |
| `lc0_restarts` | Is only complete and sound data published, and does every start end? Yes. | 2 batches, up to 2 shards, 2 workers, 1 change of the archives, 1 new net, 1 silence, 2 starts | 709,040 |
| `lc0_nets` | Is the corpus labelled under the net that provenance names? Violated. | 2 batches, 1 shard, 1 worker, 1 new net, 2 starts | |
| `uci` | Does every row get its own answer, and does the task end, whatever the engine does? Yes. | 3 rows, 3 attempts, 3 kinds of engine, search and evaluation | 27,751 |
| `selfplay` | Is any shard lost, or there twice? No, and only after a named event. | 2 processes, 2 outputs, 2 shards, 2 modes, 2 slices, 3 starts, 3 scripts | 3,622,752 |
| `tools` | Does each tool make what another one expects, and what it is defined to? Yes, with the exceptions named. | 14,992 invocations: see `MCTools` | 29,984 |
| `tools_v12` | Can every net that loads be written again? Violated. | the rewrites of the above | |

Why the bounds are enough. *DistSync*: two workers give every order of arrival and
a round that one member got and the other did not; a cadence that does not divide
the length gives the final sync off the cadence, after two on it; one restart of each
member gives leftovers in the queue and members on different rounds. *TrainResume*: two
configurations and three targets give every edit (back, forth, longer, shorter) with
a checkpoint before, at and beyond the target; four runs are build, change, change
back, look. *NnueLoop*: two candidates are one and its successor; the script treats
all gates alike. *Lc0Pipeline*: batches do not interact except through their order
and the common work state, so two are first and last; two starts are an
interruption and its repair. *UciLabel*: three rows are one that times out, one that
may get its answer, and one after; three attempts are the first, a retry and the last.
*SelfplayCorpus*: two processes and two outputs meet on one output or on one directory
of intermediates, two shards are one in hand and one to come, and three starts are a
kill, a restart, and somebody else. *Tools*: every combination of format and flags the
trainer accepts, with sizes on either side of each comparison in the code; all pairs of
layouts; eight boards chosen for what they contain; lists up to four long. All other integers are indices into these.

Deadlock is checked in `dist_faults`, where `Terminated` is the only way to
stop. The others stop when the bound on starts is spent, the task is over or the tool
has ended, so their configurations turn the check off; that no start and no task gets
stuck is `IterationEnds`, `ScriptEnds` and `TaskEnds`.

Fairness. *DistSync*: a process that can take a step of its own does; deadlines, crashes
and restarts are owed by nobody. *NnueLoop*: only the
script is fair, as it sleeps and polls for a bounded time; Forge owes it nothing.
*Lc0Pipeline*: the script, workers with a heartbeat, and the lease that releases
the claim of a silent worker; fewer silences than workers leave one that works,
without which the script rightly waits. *UciLabel*: only the task is fair, as each
of its waits has a deadline; the engine and the readers owe it nothing.

Properties, by component.

- *DistSync*: `FinalIsFleetAverage`, `NoSyncSkipped`, `FinalModelsAgree`,
  `PeersShareBase`, `RepliesMatch`, the refinement `Implements`, `EveryoneFinishes`.
  `PeersShareBase` and `FinalModelsAgree` hold because the coordinator waits for *all*
  workers: with more workers than seats a member left out of a round may be averaged later
  on an old base. Groups with strangers in the accept queue (of another run, two under one
  identity, more workers than seats) have no run: the theorems without an asterisk in
  section 5 hold of them too.
- *TrainResume*: `CandidateIsFinished`, `NoMixedTraining`, `ForcedRunNeverRefused`,
  `EarlyCrashesAreRepaired`, `FinishedNetIsKept`. "Early" is until the last
  checkpoint is begun: after that a kill before the provenance is written leaves a
  model nobody vouches for, and every plain rerun answers "stale train/export
  artifacts" until FORCE=1.
- *NnueLoop*: `ForcedIterationIsFresh`, `VerdictMatchesGames`,
  `FirstCandidateEarnsIt`, `OneRunAtATime`, `IterationEnds`.
- *Lc0Pipeline*: `CorpusIsComplete`, `BatchHasOneNet`, `DriftIsCaught`,
  `ValidBatchIsKept`, `ScriptEnds`.
- *UciLabel*: `AnswersAreOwn`, `TaskEnds`. Static evaluation by an engine that reports
  its net lazily is excepted: the answer to the probe stays in the queue, and every row
  gets the evaluation of the one before.
- *SelfplayCorpus*: `ProcessedIsAppended`, `ShardsOnce`.
- *Tools*: `ExportsLoad`, `RewritesKeepTheNet`, `WarmStartsFit`, `RegionsKept`,
  `ThreatRowsAreApart`, `SidesAgree`, `CorpusIsKept`, `ScoresKeepTheirOrder`. Each
  names its exceptions; they are listed in section 4.

## 4. What disagrees

Each violated run checks one statement the repository makes of itself.

- `train_reset` (`train.rs:2396`): what is published is the highest `quantised.bin`,
  what is trained the newest checkpoint with all four files. A reset that died half
  way leaves the first without the second.
- `loop_stale` (`nnue:427`): markers and logs carry the run's name, not the net's.
- `loop_blind` (`nnue:871`): `fail "could not read Forge active status"` (`nnue:757`) is
  called in a command substitution followed by `|| true`, so it ends the subshell only and
  a second run is launched while the first is played.
- `lc0_nets` (`lc0_to_enyo_bullet.py:543`): the work directory is bound to the path
  of the net, not to its contents.
- `tools_v12` (`enyo_nnue.py:1198-1201`): `write_net` raises an error for every net of
  version 12, once the right file is on disk; the round trip of
  `test_enyo_nnue_format.py:294-317` needs it to return.

Three more are stated as properties of the modules and have no run of their own. Put
as the INVARIANT or PROPERTY of the configuration named, TLC finds them violated:

- `TrainedOnOwnCorpus` (`train.rs:2779`; `TrainResumeReset.cfg` with
  `CrashIn <- CrashOutsideReset`): the corpus is replaced before the checkpoints are
  found to belong to another build; put back and extended, the build trains on it.
- `ProvenanceNamesOrigin` (`train.rs:2641`; the same, with `MaxParent = 1`): the initial
  weights are hashed when the training is over, not when it starts.
- `DecidedRunIsTaken` (`nnue:806`; `NnueLoopStale.cfg`): two status reads per turn; a
  decision published between them is reported as an incomplete run.

Exceptions written into the properties of the tools, each met as a counterexample:

- The trainer lets a net of format 8 or 9 without mixed activations and skip pass, and
  one with a PSQT table and fewer trained than engine buckets; `load_net` refuses both
  (`ExportsLoad`). What `bullet.py` exports narrower than the engine's width is unreadable
  until it is padded and put into a container, which only the tests do.
- `blend_weights.py` refuses pawn pairs, PSQT tables and a shared squared branch
  (`RewritesKeepTheNet`).
- A warm start does not carry the input rows behind the base rows along: on an unchanged
  layout those of the parent stay, whatever the child has, and full threats pass for
  slider x-rays as they have the same shape; on a changed layout those of the parent are
  dropped (`WarmStartsFit`). A warm start that stops midway leaves part of its output.
- 10 buckets made of 4 or 8, and 32 made of 2, 4 or 8, mix the rows of different king
  regions (`RegionsKept`).
- `WdlToCp` reverses the order of scores a tablebase puts on the other side; a limit
  below the number of shards gives some shards the quota 0, which means none
  (`ScoresKeepTheirOrder`, `CorpusIsKept`). `repartition_bullet.py` reports an error
  after a complete cut whose last source is empty.

Exceptions written into `ShardsOnce`: a kill between the append and the state file, or
between the two removals of a reset, has a shard appended twice, against the comment
at `selfplay_to_bullet.py:353-355`; a kill within the save leaves a state file that no
invocation can read; two outputs of `selfplay_to_bullet.py` in one directory convert
into one file. Further: `.tmp` that another output still uses cannot be removed, so an
invocation that saved everything exits with an error; slices go by position, so a shard
changes its slice when files arrive before it; `_sf_oracle` and `_tb` do not note the
label mode; `--shard-range` is not part of the state.

Met while reading, and not stated as properties: `eval_jsonl_engine.py` goes on with
the engine after a timeout, so that a late answer is taken for that of the next row (the
mutant `TimeoutKeepsEngine` of `UciLabel`); `--full-sprt-first` commits an
inconclusive match as a rejection, and its failed training may leave a torn candidate
to be played; a verdict on an unchanged build leaves no commit; a triage that stops
a run and dies before the commit leaves a run every restart refuses; a round whose
final broadcast is partial cannot be completed by plain restarts; a kill between
`forge start` and `launch.json` leaves a directory every later preflight refuses;
a changed `plan.json` is refused once only, as it has been overwritten by then;
a shard that Forge counts as done and the validation refuses is never queued again;
a kill between the corpus and its provenance leaves a corpus no later start touches.

## 5. Proofs

The proof modules follow one pattern: `Init => IInv`, one lemma per action that
it preserves `IInv`, a case split over `Next`, and the temporal theorem by PTL.

**DistSyncProofs**, from `DistSyncAssumption` (finitely many workers, positive
cadences and lengths). `NoSyncSkipped` is not inductive: it speaks of weights, and
weights come from the network. `IInv` adds that every member's weights, saved or
not, hold its own training (`MemberOK`); that this is so of every request, also of
a dead process (`RequestOK`); that the accepted streams are of distinct workers of
the coordinator's run at its superbatch (`PeersOK`), so that `NumPeers` of them are
a fleet (lemma `PeersFleet`, by a bijection); that the average, and a reply on its
way, therefore hold the fleet (`AverageOK`, `ReplyOK`); and that checkpoints skipped
no sync point either (`CheckpointOK`), which `Restart` needs.

| Theorem | Statement |
|---|---|
| `Invariant`, `TypeCorrect` | `Spec => []IInv`, `Spec => []TypeOK` |
| `SyncNeverSkipped` | `Spec => []NoSyncSkipped` |
| `FinalModelIsFleetAverage` | `Spec => []FinalIsFleetAverage` |

Three more layers lie on `IInv`, about which *round* weights,
requests and answers are of. `SInv`: a member's weights, running or saved, went through
all its sync points so far (`Settled`), or all but the one it waits at (`Open`); a request
asks for the round its sender is open for, also when that process is dead; an answer is
the average of a round its reader took part in (`DecidedFor`). That is what a step of
`LocalSGD` needs of the step before, so every action maps to one of `LocalSGD`'s or to
none: `Refinement`. `ConnInv`: only a live worker that waits has a connection, and only
one; hence `RepliesMatch`.

`UInv` is about the group as a whole: every round is at a sync point of all (`Shared`), of
each superbatch one round is in use (`Unique`) with one average (`Same`), and a worker
passes the superbatch of a request it, or its dead predecessor, left in the queue only
together with the coordinator (`Together`). It is inductive where the coordinator waits
for all the workers there are (`AllWorkersCount`), as `distributed_smoke.py:262` sets it up; with more
workers than seats, a member left out of a round may be averaged later
on an old base, and the two theorems marked * do not hold.

| Theorem | Statement |
|---|---|
| `RoundsInvariant` | `Spec => [](IInv /\ SInv /\ ConnInv)` |
| `Refinement` | `Spec => Implements`, that is `LocalSGD`'s specification under the mapping |
| `AnswersFindTheirRound` | `Spec => []RepliesMatch` |
| `OneRoundInUse` * | `Spec => []UInv`, assuming `AllWorkersCount` |
| `PeersDescendFromOneAverage` * | `Spec => []PeersShareBase`, likewise |
| `FinalModelsAreOne` * | `Spec => []FinalModelsAgree`, likewise |

**TrainResumeProofs**, from `TrainResumeAssumption` and `NoneAssumption`, comes in
three layers. `IInv` holds wherever a process dies: the weights being trained and the
resume state are of the configuration of the job (`WeightsOK`), a checkpoint that can
be resumed is of the configuration on record (`CheckpointsOK`), and a forced run
finds no checkpoint but its own (`ForcedOK`). `RInv` holds where no process dies
inside a forced reset (`NoCrashInReset`), which `train_reset` shows to be necessary:
what can be converted can be resumed and is of the same weights (`SavedOK`), nothing
on disk is ahead of the training (`NewestOK`), what is being published is of the
build (`PublishedOK`), and what is vouched for was made as provenance says and still
has its checkpoint (`VouchedOK`, `ExtendingOK`). `EInv` is about runs that have
known one build only (`BuildsOK`, `OneBuildOK`): whatever has been begun on disk is on
record in `training.resume.json` and within the build, and a model, a publication or a
refusal follows the last checkpoint. A refusal before that checkpoint is therefore
impossible, and a crash before it is repaired by a plain rerun.

| Theorem | Statement |
|---|---|
| `Invariant`, `TypeCorrect` | `Spec => []IInv`, `Spec => []TypeOK` |
| `TrainingIsNeverMixed` | `Spec => []NoMixedTraining` |
| `ForcedRunGetsThrough` | `Spec => []ForcedRunNeverRefused` |
| `CandidateIsItsBuild` | `Spec => []CandidateIsFinished`, assuming `NoCrashInReset` |
| `VouchedNetIsKept` | `Spec => FinishedNetIsKept`, assuming `NoCrashInReset` |
| `RerunsGetThrough` | `Spec => []EarlyCrashesAreRepaired`, assuming `NoCrashInReset` |

**NnueLoopProofs**, from `NnueLoopAssumption`. The script judges by files and by Forge
runs that carry a run's name and not the candidate's, so the invariant is in two halves.
`Place` is what the script may count on where it is: from the launch on there is a Forge
run of its label (`RunInHand`), in a forced iteration one that plays its candidate
(`OwnRun`) and is the one the log names, if it names any (`OwnLog`), the gates behind it were passed by that candidate (`GatesBehind`), what is
judged has ended and supports the verdict (`Earned`). `Files` is what holds of the disk and
of Forge whatever the script does: a log names a run of its label (`Logs`) and ends with
the games only of a run that was played out (`Printed`), the candidate
is the newest (`Newest`), a marker is of the one candidate as long as there was one
(`Markers`, `Nothing`), a catastrophic Elo is not seen before `SMOKE_GAMES` (`Flags`), and
whoever launches without FORCE=1 after a list that could be read finds the earlier runs of
the label complete (`Apart`). So `OneRunIsPlayed` excepts FORCE=1 and blind launches, and
nothing else; that blind launches happen is `loop_blind`.
Forge plays, decides, stops and resumes runs at every place of the script; lemma
`EvolveOne` says what a run may become, and that a complete one stays complete with its LLR.

| Theorem | Statement |
|---|---|
| `Invariance`, `TypeCorrect` | `Spec => []IInv`, `Spec => []TypeOK` |
| `ForcedIsFresh` | `Spec => []ForcedIterationIsFresh` |
| `VerdictsAreEarned` | `Spec => []VerdictMatchesGames` |
| `FirstCandidateIsSound` | `Spec => []FirstCandidateEarnsIt` |
| `OneRunIsPlayed` | `Spec => []OneRunAtATime` |

**Lc0PipelineProofs**, from `Lc0PipelineAssumption` and `NoneAssumption`. What is
published is complete because a batch is complete when it is marked valid *and*
nothing can change it afterwards; the second half is about workers the script does
not see. `IInv` says that a claimed task has one claim and belongs to a run that
exists (`ClaimOK`), and a run only the tasks it was planned with (`TasksOK`); so a
label, a lease that runs out and a worker that is deleted leave finished tasks
alone (lemma `WorkerStepOK`). `PlaceOK` says how far the batches are at each place
of the script, `ValidOK` that a valid batch is merged and has nothing left to do,
`OutputOK` that the corpus is what was merged, and `DriftOK` that runs and merges
are of the archives the work directory is bound to, unless these were changed under
a running script.

| Theorem | Statement |
|---|---|
| `Invariant`, `TypeCorrect` | `Spec => []IInv`, `Spec => []TypeOK` |
| `PublishedCorpusIsComplete` | `Spec => []CorpusIsComplete` |
| `PublishedBatchHasOneNet` | `Spec => []BatchHasOneNet` |
| `PublishedCorpusHasNotDrifted` | `Spec => []DriftIsCaught` |
| `ValidBatchIsNeverRedone` | `Spec => ValidBatchIsKept` |

**UciLabelProofs**, from `UciAssumption`. A label is the last score in the queue before
`bestmove`, so the argument is about every line on its way to the task. `Good` says which
kinds of lines may come at each wait, before the engine has taken the command and after
(`ComingOK`), in which order (`OrderOK`, `AnnouncedOK`), and that the lines of closed
engines are leftovers of searches which are all read before the net is confirmed
(`LateOK`); when a search begins nothing is left that could be taken for a score or a best
move, and those that come are of the row in hand by an engine with its net loaded
(`OwnOK`, `NetOK`). The case `AnswersAreOwn` excepts is left out (`Exempt`).

| Theorem | Statement |
|---|---|
| `Invariance` | `Spec => []IInv` |
| `ScoresAreOwn` | `Spec => []AnswersAreOwn` |

**SelfplayCorpusProofs**, from `SelfplayAssumption` and `NoneAssumption`. That a shard
in the state file is in the corpus is about three things that need not agree in
between: the file, the copy an invocation works on, and the corpus. `IInv` says of each
copy what is claimed of the file (`SeenOK`), both up to the shards in which nothing was
found (`Kept`), that the shard about to be noted has been
appended, that whoever is past the lock holds it (`LockOK`), so that nobody else changes
the corpus a copy is about, and that a reset which has come to the corpus has removed
the state (`ResetOK`), which is why the order of its two steps matters. Lemma `LeaveOK`
covers every end of an invocation, `HolderOK` every step of one that goes on.

`ShardsOnce` takes a second layer, `OInv`, about outputs to which none of the named
events happened (`Clean`): each shard is there at most once, whole, under one label mode
(`OnceEach`, `AllWhole`, `OneMode`); what is there is noted or in the hand of the
invocation that is about to note it (`AllNoted`), and known to the one that will append
more (`AllSeen`). The converted chunk between the two belongs to one invocation, unless
two outputs share a directory of intermediates (`ChunkOwned`), which is one of the events.
From `StateAssumption`: a state file is told from none and from an unreadable one.

| Theorem | Statement |
|---|---|
| `Invariant` | `Spec => []IInv` |
| `NoShardIsLost` | `Spec => []ProcessedIsAppended` |
| `OutputsAreLocked` | no two invocations are past the lock of one output |
| `CorporaStayClean` | `Spec => []OInv` |
| `ShardsAreThereOnce` | `Spec => []ShardsOnce` |

**ToolsProofs**, from `JobsAssumption` (the nets come from configurations the trainer or
`bullet.py` lets pass), `PositionAssumption` (an LC0 record is twelve planes of squares, at
most one of which has a given square), `LayoutAssumption` (the numbers of buckets are those
`enyo_parent_bucket` and `source_bucket_for_target` do not refuse) and `ThreatAssumption`
(the tables of threats are asked about pieces). The run enumerates those of `MCTools`, the
theorems hold for every configuration, every pair of parent and child, every record, every
pair of layouts and of pieces. A net without a header is known by its size alone, so the
lemmas are about sizes: no two plain layouts have one size
(`SizesTellLayouts`, linear arithmetic over the layouts there are), a narrow one has the
size of none, expanding the rows of a trained net gives the size of the exported one
(`ExpandedIsExported`), and a short PSQT table gives a size nobody accepts (`PsqtIsShort`).
With these, every usable export is accepted (`UsableIsAccepted`) and the two unusable kinds
are refused (`UnusableIsRefused`), which is the exception `ExportsLoad` names.

`SidesAgree` is about one map, `Turned`: a piece of the other colour on the other side of
the board. What the mover sees of the turned board is what he saw before: squares are
oriented alike (`OrientedTurned`), so a piece keeps its row (`FeatureTurned`); a ray goes
the other way and stops at the same piece (`RayTurned`, with `Between`: what lies before a
square of the board is on the board), so an attack is turned with its pieces
(`AttacksTurned`) and keeps its row, whatever the tables say (`IndexIsRow`, `RowTurned`).
Hence the items are alike (`ItemTurned`). A board out of a Bullet record is the board that
went in, as no square is taken twice (`BoardRead`), and it is the board of whichever row
is White's (`RecordItem`). That two pieces never share a row (`FeatureApart`) rests on the
buckets being below 16.

`RegionsKept` comes down to the tables having one shape (`Regions`): 32 buckets fall into 16
as `ENYO_LEGACY_BUCKET_FOR_32` says, and 10 are those 16 scaled, a fact the code nowhere
states. So every number of buckets but 32 is 16 scaled (`BucketOf`), and to scale up and
back is to scale (`ScaledTwice`) except when 10 buckets are made of 4 or 8. Every bucket
holds some square (`EveryRegion`), so the set of sources is never empty.

`ThreatRowsAreApart` needs to know how large the table is, so its size is proved and not
computed. A recursive sum over places is the sum of what comes before (`BeforeAdds`), by
least counterexample (`Least`), as the library's induction cannot be instantiated. What a
piece attacks on the empty board is bounded by the room it has in each direction
(`RookReach`, `BishopReach`, `KnightReach`, `PawnReach`: the steps on a ray are counted by
their numbers); added over the squares this gives at most 84, 336, 560, 896 and 1,456 rows
a region, and with the targets of each type at most 59,808 (`RegionsFit`), the number at
which `_threat_tables` raises an error if it is not met. Only this bound is proved, not that
it is met exactly. Within its region an attack is placed by its square and by what that
square attacks below (`SlotsApart`), between regions by the places of the targets
(`RegionsApart`), so a row tells the pieces and both squares (`RowsApart`). On a board,
attacks are found among those on the empty board (`AttackEmpty`), and mirroring keeps them
(`AttackMirrored`), whence an attack of a sound position has a row of the table and two
attacks never the same one (`PairsApart`). A piece, a pawn apart, is attacked by its like
from where it attacks (`AttackAnswered`), which is what makes one row of a mutual pair
enough; of pawns that attack pawns there are no rows. And from a square to another there is one ray
(`OneRay`), so an attack through a piece is through one piece only (`OneBlocker`), and x-ray
rows are told apart as well.

| Theorem | Statement |
|---|---|
| `EveryExportLoads` | `Spec => []ExportsLoad` |
| `RewritesAreFaithful` | `Spec => []RewritesKeepTheNet` |
| `WarmStartsHaveTheShapes` | `Spec => []WarmStartsFit` |
| `SidesAreAlike` | `Spec => []SidesAgree` |
| `KingsKeepTheirRows` | `Spec => []RegionsKept` |
| `ThreatRowsAreTheirOwn` | `Spec => []ThreatRowsAreApart` |

**CorpusProofs**, from `CorpusAssumption` and `ScoreAssumption`: what the inputs are
(sequences of records, ids that occur once, quotas and weights that are numbers, at least
two pairs to fit, scores with their negatives), never how many. The run goes through the
small lists of `MCTools`, the theorems hold for lists of every length. The tools are folds,
and the library's induction theorems take an operator, which no prover here can
instantiate, so the module has its own: `Least` is that a set of numbers has a least one,
`Induct` is induction for a *set* of positions, and `FoldExists` and `FoldRuns` give for
any fold, whose step is passed as a function, the values it has after each element.
Every tool is then an invariant of its run:

- conversion (`SharedWork`): a shard stops at its quota, the quotas add up to the limit
  when it gives each shard one, and without a limit a source is read by the one shard that
  selects it, up to its first broken record (`SourceIsRead`);
- `ChunksOfStream`: the chunks end to end are the stream, and their lengths are shares;
- `SelectedLines`: the draws can end in exactly the choices of the number asked for, and
  never with lines needed and none left;
- `SampledRows`: a reservoir has rows of its own bucket, each once, and as many as fit;
- `MergedNames`: the map of a merged pack begins with that of every earlier stage, so an
  id once given keeps its name;
- `_pav`: the blocks tile the values so far, and no beginning of a block is below the mean
  of the block (`IsBlock`, kept by a merge in `JointBlock`). The means rise but for the
  last one while a value is pooled (`PoolKeeps`), which is why the `while` must go on after
  a merge. So the block of a value separates the means that start at its beginning from
  those that end at its end (`BlockSeparates`), and its mean is the greatest of the least
  means (`PavIsClosest`), which defines the closest sequence that never falls;
- `fit_anchors`: every bucket has rows (`Edges`), so the medians and weights are defined;
  a point that is not right of the last anchor cannot meet the origin, as it would have
  to be at zero, where it is skipped (`AddedRises`);
- `apply_anchors`: rounding, half to even, follows fractions (`RoundMonotone`), each line
  begins and ends at its anchors (`LineRises`), and what is right of the last one is on its
  line, so the lines join (`LinesRise`).

| Theorem | Statement |
|---|---|
| `NoRowIsLost` | `Spec => []CorpusIsKept` |
| `ScoresAreInOrder` | `Spec => []ScoresKeepTheirOrder` |

Model-checked only, and why:

- liveness, and with it ENABLED: `EveryoneFinishes`, `IterationEnds`, `ScriptEnds`,
  `TaskEnds`. Every safety property of a passing run is a theorem.

## 6. Not modelled

- *Distributed weight averaging*: the lengths of the deadlines (section 2), the frames.
- *Training artifacts*: the streaming loader, `initialize_from`, and `data`, `run`
  and `export` as separate commands. Two trainers on one run name
  are left to the lock of the loop, which is in the plan.
- *Iteration loop*: the lock, which two starts after a kill can both clear
  (`nnue:1325`); edits of `build.json` during an iteration; `--solo`; scratch runs
  without a parent; promotion of the Stockfish benchmark.
- *LC0 conversion*: the division of archives into batches and shards, the caches,
  `--clean-old`, records nobody reads back. That Forge drops the late result of a
  claim it has released is assumed.
- *UCI labelling*: the name the engine gives itself, its options, and
  `--engine-timeout-s 0`, with which nothing ends a hanging search; `label.py` replaces
  its statistics before its output, which `Lc0Pipeline` has as one step.
- *Self-play corpora*: what conversion does to the rows of a shard, the log of skips, the
  statistics for Forge.
- *Tools*: the values of tensors and the forward pass, byte layouts, tablebase files, the
  sampling of calibration pairs by hash with its metrics and provenance, skip, limit and
  padding of memory maps, legacy layouts, and the scripts that filter one file into
  another record by record (`pgn_to_jsonl.py`, the relabelling scripts).
- *Self-play generation*: the division of games is `Share` of `CorpusOps`; the manifest
  and the merge are not modelled.
- The other components without a module are measurements or notifications without
  state a property could be about, vendored decoding, or floating point arithmetic.

## 7. Plan

Done: averaging, artifacts, loop, LC0 conversion, UCI labelling, self-play corpora, the
tools as functions. Left, in order of importance:

1. Proofs: that the modules which are not refinements yet implement a specification of
   their own (a journal for `TrainResume`, an exactly-once log for `SelfplayCorpus`); that
   the regions of the threat table fill it, which `_threat_tables` checks when it is built.
2. `TrainLock`: the lock of `nnue:1315-1330` with two starts, composed with the
   order of steps of `NnueLoop`; edits of `build.json` in the middle.
3. Forge's late results for released claims, the caches and the order of corpus and
   provenance in `Lc0Pipeline`.
4. The manifest and merge of `selfplay_shards.py`; `eval_jsonl_engine.py` as a second
   user of the engine of `UciLabel`.
