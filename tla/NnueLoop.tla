------------------------------ MODULE NnueLoop ------------------------------
(***************************************************************************)
(* One iteration of the NNUE loop, `./nnue train': train and export a      *)
(* candidate, pass the gates, play it against its parent on Forge, commit  *)
(* the verdict.  It is a shell script that is killed, fails and is started *)
(* again under the same run name; what is done is remembered in the        *)
(* candidate net, in gate markers and in the SPRT logs under runs/<run>.   *)
(*                                                                         *)
(* Candidates are numbered in the order they are exported, and each has at *)
(* most one gate it fails.  Forge is modelled from how the script uses it: *)
(* it plays the candidate it was launched with and publishes a state and   *)
(* an LLR, and an operator may stop or resume a run.  Any look at it, and  *)
(* any stop, may fail.  Modelled is a build that has a parent and is       *)
(* played on Forge (not --solo).                                           *)
(***************************************************************************)
EXTENDS Naturals, Sequences, FiniteSets, FiniteSetsExt

CONSTANTS
    Gates,          \* the gates, in the order they run
    Labels,         \* SPRT runs of an iteration: <<"sprt">>, or with a screen
    Options,        \* which of "force" and "full" the user may ask for
    MaxStarts,      \* bound on iterations started
    MaxCandidates,  \* bound on candidates trained
    MaxRuns,        \* bound on Forge runs
    MaxPolls,       \* SPRT_MAX_WAIT_SECONDS in polls
    None            \* no gate, no verdict

AllLabels == {"screen", "sprt"}
Llrs == {"between", "H0", "H1"}
Working == {"train", "gate", "sprt", "log", "setup", "wait", "refuse", "poll", "step",
            "stop", "judge", "benchmark", "ledger", "commit"}

ASSUME NnueLoopAssumption ==
    /\ Gates \in Seq(STRING) /\ Gates # <<>>
    /\ Labels \in {<<"sprt">>, <<"screen", "sprt">>}
    /\ Options \subseteq {"force", "full"}
    /\ {MaxStarts, MaxCandidates, MaxRuns, MaxPolls} \subseteq Nat \ {0}

VARIABLES
    pc,         \* where the script is; "off", "failed" and "finished" between runs
    options,    \* the options it was started with
    at,         \* index of the gate or of the SPRT run it is at
    using,      \* the Forge run it waits for or judges
    seen,       \* the LLR it read last
    triaged,    \* the SMOKE_GAMES checkpoint is behind it
    polls,      \* status polls made
    verdict,    \* what it makes of the candidate
    net,        \* the candidate on disk, 0 when there is none
    flaw,       \* the gate that each candidate fails
    extended,   \* the user asks for more superbatches than were trained
    passed,     \* the gates with a .passed_ marker
    log,        \* the Forge run named in each 05-<label>-<games>.log
    printed,    \* the log ends with the last of the games of that run
    forge,      \* the runs Forge knows of
    ledger,     \* candidates in the Stockfish ledger
    dirty,      \* build.json or the ledger differs from HEAD
    committed,  \* the result in the newest result commit
    starts,     \* iterations started
    checked     \* history: the candidates that have passed each gate

script == <<pc, options, at, using, seen, triaged, polls, verdict>>
artifacts == <<net, flaw, extended, passed, log, printed>>
records == <<ledger, dirty, committed>>
vars == <<script, artifacts, forge, records, starts, checked>>

----------------------------------------------------------------------------
Candidates == 1 .. Len(flaw)
RunIds == 1 .. Len(forge)
Idle == pc \in {"off", "failed", "finished"}

Full == "full" \in options
Forced == "force" \in options
Label == IF Full THEN "sprt" ELSE Labels[at]

\* What read_forge_sprt_status takes for a result: the run is done, or stopped with
\* a decision published.
Decided(run) == run.llr \in {"H0", "H1"}
\* Mutant: every run that is no longer played is taken for complete.
CompleteWhenHalted(run) == run.state \in {"done", "stopped"}

Complete(run) == run.state = "done" \/ (run.state = "stopped" /\ Decided(run))
Halted(run) == run.state = "stopped"

Init ==
    /\ pc = "off" /\ options = {} /\ at = 1 /\ using = 0
    /\ seen = "between" /\ triaged = FALSE /\ polls = 0 /\ verdict = None
    /\ net = 0 /\ flaw = <<>> /\ extended = FALSE
    /\ passed = {} /\ log = [l \in AllLabels |-> 0]
    /\ printed = [l \in AllLabels |-> FALSE]
    /\ forge = <<>>
    /\ ledger = {} /\ dirty = TRUE /\ committed = None
    /\ starts = 0 /\ checked = [g \in Range(Gates) |-> {}]

\* The script goes on to a place, or ends without a verdict and forgets everything.
Go(place) == pc' = place /\ UNCHANGED <<options, at, using, seen, triaged, polls, verdict>>
End(outcome) ==
    /\ pc' = outcome
    /\ options' = {} /\ at' = 1 /\ using' = 0
    /\ seen' = "between" /\ triaged' = FALSE /\ polls' = 0 /\ verdict' = None

----------------------------------------------------------------------------
\* The user and the machine.

Start ==
    /\ Idle /\ starts < MaxStarts
    /\ starts' = starts + 1
    /\ options' \in SUBSET Options
    /\ pc' = IF "full" \in options' THEN "sprt" ELSE "train"
    /\ at' = 1 /\ using' = 0 /\ seen' = "between"
    /\ triaged' = FALSE /\ polls' = 0 /\ verdict' = None
    /\ UNCHANGED <<artifacts, forge, records, checked>>

\* What a training that does not end leaves of the candidate: one that is forced
\* removes it first (TrainResume has the files in between).
Remains == IF pc = "train" /\ Forced THEN {net, 0} ELSE {net}

Crash ==
    /\ ~Idle
    /\ End("off")
    /\ net' \in Remains
    /\ UNCHANGED <<flaw, extended, passed, log, printed, forge, records, starts, checked>>

\* build.json is edited to train the run further.
Extend ==
    /\ net # 0 /\ ~extended /\ Len(flaw) < MaxCandidates
    /\ extended' = TRUE /\ dirty' = TRUE
    /\ UNCHANGED <<script, net, flaw, passed, log, printed, forge, ledger, committed, starts,
                   checked>>

----------------------------------------------------------------------------
\* Forge.

UnchangedButForge == UNCHANGED <<script, artifacts, records, starts, checked>>

\* Games are played past SMOKE_GAMES; a catastrophic candidate shows by then.
Play ==
    \E r \in RunIds, bad \in BOOLEAN :
        /\ forge[r].state = "active" /\ ~forge[r].far
        /\ forge' = [forge EXCEPT ![r].far = TRUE, ![r].bad = bad]
        /\ UnchangedButForge

\* The run reaches a bound, or plays all its games without reaching one.  The
\* decision is published while the state is still `stopped'.
Decide ==
    \E r \in RunIds, llr \in Llrs :
        /\ forge[r].state = "active" /\ forge[r].far
        /\ forge[r].bad => llr # "H1"
        /\ forge' = [forge EXCEPT ![r].llr = llr,
                                  ![r].state = IF llr = "between" THEN "done" ELSE "stopped"]
        /\ UnchangedButForge

Close ==
    \E r \in RunIds :
        /\ forge[r].state = "stopped" /\ Decided(forge[r])
        /\ forge' = [forge EXCEPT ![r].state = "done"]
        /\ UnchangedButForge

\* The operator stops a run, or resumes one that is not decided.
Operate ==
    \E r \in RunIds :
        /\ ~Decided(forge[r])
        /\ \/ forge[r].state = "active"
              /\ forge' = [forge EXCEPT ![r].state = "stopped"]
           \/ forge[r].state = "stopped"
              /\ forge' = [forge EXCEPT ![r].state = "active"]
        /\ UnchangedButForge

----------------------------------------------------------------------------
\* _train: the trainer keeps a candidate it can vouch for, and replaces it when it is
\* forced to or when superbatches were added (TrainResume).  It fails on anything it
\* cannot explain, and with the corpus checks before it.

Trains == Forced \/ net = 0 \/ extended

Train ==
    /\ pc = "train"
    /\ \/ /\ ~Trains
          /\ Go("gate")
          /\ UNCHANGED <<net, flaw, extended>>
       \/ /\ Trains /\ Len(flaw) < MaxCandidates
          /\ \E f \in {None} \cup Range(Gates) : flaw' = Append(flaw, f)
          /\ net' = Len(flaw) + 1
          /\ extended' = FALSE
          /\ Go("gate")
       \/ /\ End("failed")
          /\ net' \in Remains
          /\ UNCHANGED <<flaw, extended>>
    /\ UNCHANGED <<passed, log, printed, forge, records, starts, checked>>

----------------------------------------------------------------------------
\* The gates: distinct_net_gate, startpos_gate, static_gate and move_gate.

\* Mutant: a marker counts even when it is older than the candidate.
SkipsWhenForced(g) == g \in passed

Skips(g) == ~Forced /\ g \in passed

\* What the gate makes of the candidate.
Fails(g) == flaw[net] = g

\* Mutant: one gate too many.
PassGateAndOneMore ==
    /\ pc = "gate"
    /\ LET g == Gates[at]
       IN  /\ Skips(g) \/ ~Fails(g)
           /\ passed' = passed \cup {g}
           /\ checked' = IF Skips(g) THEN checked ELSE [checked EXCEPT ![g] = @ \cup {net}]
    /\ IF at <= Len(Gates)
         THEN at' = at + 1 /\ UNCHANGED pc
         ELSE at' = 1 /\ pc' = "sprt"
    /\ UNCHANGED <<options, using, seen, triaged, polls, verdict>>
    /\ UNCHANGED <<net, flaw, extended, log, printed, forge, records, starts>>

PassGate ==
    /\ pc = "gate"
    /\ LET g == Gates[at]
       IN  /\ Skips(g) \/ ~Fails(g)
           /\ passed' = passed \cup {g}
           /\ checked' = IF Skips(g) THEN checked ELSE [checked EXCEPT ![g] = @ \cup {net}]
    /\ IF at < Len(Gates)
         THEN at' = at + 1 /\ UNCHANGED pc
         ELSE at' = 1 /\ pc' = "sprt"
    /\ UNCHANGED <<options, using, seen, triaged, polls, verdict>>
    /\ UNCHANGED <<net, flaw, extended, log, printed, forge, records, starts>>

\* Mutant: the marker is left before the gate has decided.
FailGateMarked ==
    /\ pc = "gate"
    /\ ~Skips(Gates[at]) /\ Fails(Gates[at])
    /\ passed' = passed \cup {Gates[at]}
    /\ End("failed")
    /\ UNCHANGED <<net, flaw, extended, log, printed, forge, records, starts, checked>>

FailGate ==
    /\ pc = "gate"
    /\ ~Skips(Gates[at]) /\ Fails(Gates[at])
    /\ End("failed")
    /\ UNCHANGED <<artifacts, forge, records, starts, checked>>

----------------------------------------------------------------------------
\* run_sprt_once: find the Forge run of this candidate, or launch one.

Incomplete(l) ==
    {r \in RunIds : forge[r].label = l /\ ~Complete(forge[r])}

\* Mutant: only the log is asked.
FoundInLog(named, listed) == IF Forced \/ ~named THEN 0 ELSE log[Label]

\* The run named in the log, else the newest run of this name with tasks left, which a
\* run has until it is complete; a forced iteration takes neither.  A run that Forge
\* gives no status of (~named) is stale.  A list that cannot be read (~listed) fails in
\* a subshell whose status is dropped, and counts as an empty one.
Found(named, listed) ==
    IF Forced THEN 0
    ELSE IF named /\ log[Label] # 0 THEN log[Label]
    ELSE IF listed /\ Incomplete(Label) # {} THEN Max(Incomplete(Label))
    ELSE 0

\* The candidate, its parent or the engine is missing.
RefuseSprt ==
    /\ pc = "sprt"
    /\ End("failed")
    /\ UNCHANGED <<artifacts, forge, records, starts, checked>>

FindRun ==
    \E named, listed \in BOOLEAN :
        /\ pc = "sprt" /\ net # 0 /\ Found(named, listed) # 0
        /\ using' = Found(named, listed)
        /\ pc' = "wait"
        /\ UNCHANGED <<options, at, seen, triaged, polls, verdict>>
        /\ UNCHANGED <<artifacts, forge, records, starts, checked>>

\* `forge sprt | tee' truncates the log before Forge has created the run.  That the
\* launch was blind, after a list that could not be read, is history.
Launch ==
    \E named, listed \in BOOLEAN :
        /\ pc = "sprt" /\ net # 0 /\ Found(named, listed) = 0
        /\ log' = [log EXCEPT ![Label] = 0]
        /\ printed' = [printed EXCEPT ![Label] = FALSE]
        /\ \/ /\ Len(forge) < MaxRuns
              /\ forge' = Append(forge, [candidate |-> net, label |-> Label, forced |-> Forced,
                                         blind |-> ~Forced /\ ~listed,
                                         state |-> "active", llr |-> "between",
                                         far |-> FALSE, bad |-> FALSE])
              /\ using' = Len(forge) + 1
              /\ pc' = "log"
              /\ UNCHANGED <<options, at, seen, triaged, polls, verdict>>
           \/ End("failed") /\ UNCHANGED forge
        /\ UNCHANGED <<net, flaw, extended, passed, records, starts, checked>>

LogRun ==
    /\ pc = "log"
    /\ log' = [log EXCEPT ![Label] = using]
    /\ Go("setup")
    /\ UNCHANGED <<net, flaw, extended, passed, printed, forge, records, starts, checked>>

\* A stop that fails is passed over.
StopRun(r) ==
    \/ forge[r].state = "active" /\ forge' = [forge EXCEPT ![r].state = "stopped"]
    \/ UNCHANGED forge

PlayedOut(run) == run.state = "done" /\ run.llr = "between"

\* `forge sprt' has returned, with all the games in its output when they are played by
\* then: forge_worker_setup_complete, and the stop of a run without all its workers.
CheckSetup ==
    /\ pc = "setup"
    /\ \/ Go("wait") /\ UNCHANGED forge
       \/ End("failed") /\ StopRun(using)
    /\ \/ PlayedOut(forge[using]) /\ printed' = [printed EXCEPT ![Label] = TRUE]
       \/ UNCHANGED printed
    /\ UNCHANGED <<net, flaw, extended, passed, log, records, starts, checked>>

----------------------------------------------------------------------------
\* wait_for_existing_forge_sprt: every look at the run is a `forge status' of its own.

TakeResult(r) ==
    /\ using' = r /\ seen' = forge[r].llr
    /\ pc' = "judge"
    /\ UNCHANGED <<options, at, triaged, polls, verdict>>

\* read_forge_sprt_status or else read_completed_forge_sprt_log, before the loop and at
\* the top of every turn.  The log speaks for the run it names, whichever is waited for.
ReadResult ==
    /\ pc \in {"wait", "poll"} /\ polls < MaxPolls
    /\ \/ Complete(forge[using]) /\ TakeResult(using)
       \/ printed[Label] /\ TakeResult(log[Label])
       \/ ~printed[Label] /\ Go(IF pc = "wait" THEN "refuse" ELSE "step")
    /\ UNCHANGED <<artifacts, forge, records, starts, checked>>

\* The second status read fails before the loop.
GiveUpUnread ==
    /\ pc = "refuse"
    /\ End("failed")
    /\ UNCHANGED <<artifacts, forge, records, starts, checked>>

\* The second status read: a run that is stopped (or has failed, which is the same to
\* the script) is given up.
GiveUpHalted ==
    /\ pc \in {"refuse", "step"} /\ Halted(forge[using])
    /\ End("failed")
    /\ UNCHANGED <<artifacts, forge, records, starts, checked>>

BeginPolling ==
    /\ pc = "refuse" /\ ~Halted(forge[using])
    /\ pc' = "poll"
    /\ triaged' = FALSE /\ polls' = 0
    /\ UNCHANGED <<options, at, using, seen, verdict>>
    /\ UNCHANGED <<artifacts, forge, records, starts, checked>>

\* SMOKE_GAMES are played: one look at the Elo, once.
Triages == ~triaged /\ forge[using].far

RejectEarly ==
    /\ pc = "step" /\ ~Halted(forge[using])
    /\ Triages /\ forge[using].bad
    /\ seen' = forge[using].llr /\ triaged' = TRUE
    /\ pc' = "stop"
    /\ UNCHANGED <<options, at, using, polls, verdict>>
    /\ UNCHANGED <<artifacts, forge, records, starts, checked>>

\* Forge has gone on since.  full_sprt_gate does not look at the return code and judges
\* by the LLR.
StopEarly ==
    /\ pc = "stop"
    /\ StopRun(using)
    /\ IF Full
         THEN pc' = "judge" /\ UNCHANGED verdict
         ELSE pc' = "commit" /\ verdict' = "FAIL"
    /\ UNCHANGED <<options, at, using, seen, triaged, polls>>
    /\ UNCHANGED <<artifacts, records, starts, checked>>

\* What the status read of a turn leaves, when it does not fail.
LookAgain ==
    \/ /\ ~Halted(forge[using]) /\ ~(Triages /\ forge[using].bad)
       /\ seen' = forge[using].llr
       /\ triaged' = (triaged \/ forge[using].far)
    \/ UNCHANGED <<seen, triaged>>

\* Mutant: the polls are not counted.
SleepUncounted ==
    /\ pc = "step" /\ LookAgain
    /\ pc' = "poll"
    /\ UNCHANGED <<options, at, using, polls, verdict>>
    /\ UNCHANGED <<artifacts, forge, records, starts, checked>>

Sleep ==
    /\ pc = "step" /\ LookAgain
    /\ polls' = polls + 1
    /\ pc' = "poll"
    /\ UNCHANGED <<options, at, using, verdict>>
    /\ UNCHANGED <<artifacts, forge, records, starts, checked>>

\* SPRT_MAX_WAIT_SECONDS, looked at before the status is.
GiveUpWaiting ==
    /\ pc = "poll" /\ polls >= MaxPolls
    /\ End("failed")
    /\ UNCHANGED <<artifacts, forge, records, starts, checked>>

----------------------------------------------------------------------------
\* sprt_gate, full_sprt_gate and what train makes of them.

Screened == Label = "screen"

\* The screen only rejects a catastrophic candidate.
JudgeScreen ==
    /\ pc = "judge" /\ Screened
    /\ IF forge[using].bad
         THEN pc' = "commit" /\ verdict' = "FAIL" /\ UNCHANGED at
         ELSE pc' = "sprt" /\ at' = at + 1 /\ UNCHANGED verdict
    /\ triaged' = FALSE /\ polls' = 0
    /\ UNCHANGED <<options, using, seen>>
    /\ UNCHANGED <<artifacts, forge, records, starts, checked>>

\* With --full-sprt-first an inconclusive result is committed as a failed run.
Judge ==
    /\ pc = "judge" /\ ~Screened
    /\ verdict' = CASE seen = "H0" -> "FAIL"
                    [] seen = "H1" -> "PASS"
                    [] OTHER -> IF Full THEN "FAIL" ELSE "INCONCLUSIVE"
    /\ pc' = (IF verdict' = "INCONCLUSIVE" THEN "benchmark" ELSE "commit")
    /\ UNCHANGED <<options, at, using, seen, triaged, polls>>
    /\ UNCHANGED <<artifacts, forge, records, starts, checked>>

\* run_stockfish_benchmark: the result is pending until the commit.
Benchmark ==
    /\ pc = "benchmark"
    /\ \/ Go("ledger")
       \/ End("failed")
    /\ UNCHANGED <<artifacts, forge, records, starts, checked>>

\* commit_run_result: the pending result is appended and staged first.
AppendLedger ==
    /\ pc = "ledger"
    /\ ledger' = ledger \cup {net}
    /\ dirty' = TRUE
    /\ Go("commit")
    /\ UNCHANGED <<artifacts, forge, committed, starts, checked>>

\* A commit with nothing to commit is taken for success.
CommitResult ==
    /\ pc = "commit"
    /\ \/ /\ committed' = IF dirty THEN verdict ELSE committed
          /\ dirty' = FALSE
          /\ Go("finished")
       \/ End("failed") /\ UNCHANGED <<committed, dirty>>
    /\ UNCHANGED <<artifacts, forge, ledger, starts, checked>>

----------------------------------------------------------------------------
Script ==
    \/ Train \/ PassGate \/ FailGate
    \/ RefuseSprt \/ FindRun \/ Launch \/ LogRun \/ CheckSetup
    \/ ReadResult \/ GiveUpUnread \/ GiveUpHalted \/ BeginPolling
    \/ RejectEarly \/ StopEarly \/ Sleep \/ GiveUpWaiting
    \/ JudgeScreen \/ Judge \/ Benchmark \/ AppendLedger \/ CommitResult

Forge == Play \/ Decide \/ Close \/ Operate
Next == Start \/ Crash \/ Extend \/ Forge \/ Script

Spec == Init /\ [][Next]_vars

\* The script runs on: the commands it calls return.  Forge owes it nothing.
FairSpec == Spec /\ WF_vars(Script)

----------------------------------------------------------------------------
\* What must hold.

TypeOK ==
    /\ pc \in Working \cup {"off", "failed", "finished"}
    /\ options \in SUBSET Options
    /\ at \in 1 .. Max({Len(Gates), Len(Labels)})
    /\ using \in {0} \cup RunIds
    /\ seen \in Llrs /\ triaged \in BOOLEAN /\ polls \in 0 .. MaxPolls
    /\ verdict \in {None, "PASS", "FAIL", "INCONCLUSIVE"}
    /\ net \in {0} \cup Candidates
    /\ flaw \in Seq({None} \cup Range(Gates)) /\ Len(flaw) <= MaxCandidates
    /\ extended \in BOOLEAN /\ passed \subseteq Range(Gates)
    /\ log \in [AllLabels -> {0} \cup RunIds]
    /\ printed \in [AllLabels -> BOOLEAN]
    /\ forge \in Seq([candidate : Candidates, label : AllLabels, forced : BOOLEAN,
                      blind : BOOLEAN, state : {"active", "stopped", "done"},
                      llr : Llrs, far : BOOLEAN, bad : BOOLEAN])
    /\ ledger \subseteq Candidates /\ dirty \in BOOLEAN
    /\ committed \in {None, "PASS", "FAIL", "INCONCLUSIVE"}
    /\ starts \in 0 .. MaxStarts

Finished == pc = "finished"
OwnGates == \A g \in Range(Gates) : net \in checked[g]
OwnGames == forge[using].candidate = net

\* FORCE=1 means "regenerate and revalidate; never reuse prior run artifacts"
\* (nnue:1413): whatever markers, logs and Forge runs earlier iterations left, the
\* verdict of a forced iteration is about its own candidate, which has passed every
\* gate itself and has played the games itself.
ForcedIterationIsFresh ==
    Finished /\ Forced => OwnGames /\ (Full \/ OwnGates)

\* The verdict of a gated iteration is the one Forge's games support, although runs
\* are resumed, polled, triaged and stopped: a pass needs the H1 bound, a rejection
\* the H0 bound or a catastrophic Elo, and only a run that was played to the end
\* without a decision is inconclusive (wait_for_existing_forge_sprt, sprt_gate).
VerdictMatchesGames ==
    Finished /\ ~Full =>
        LET run == forge[using]
        IN  \/ verdict = "PASS" /\ run.llr = "H1"
            \/ verdict = "FAIL" /\ (run.llr = "H0" \/ run.bad)
            \/ verdict = "INCONCLUSIVE" /\ run.llr = "between" /\ run.state = "done"

\* As long as a run has had one candidate only, every crash and restart leaves a
\* finished iteration with a candidate that has no flaw and its own games.
FirstCandidateEarnsIt ==
    Finished /\ ~Full /\ Len(flaw) = 1 => flaw[1] = None /\ OwnGames

Played(r1, r2) ==
    /\ r1 < r2 /\ forge[r1].label = forge[r2].label
    /\ {forge[r1].state, forge[r2].state} = {"active"}

\* A restarted iteration takes up the Forge run its predecessor launched, whatever was
\* killed, given up, stale in the log or resumed: two runs of one label are played at
\* the same time only where FORCE=1 launched the second, or a list of the active runs
\* that could not be read (run_sprt_once).
OneRunAtATime ==
    \A r1, r2 \in RunIds : Played(r1, r2) => forge[r2].forced \/ forge[r2].blind

\* `fail "could not read Forge active status" sprt' (nnue:757): an iteration that cannot
\* tell whether a run is active ends instead of launching a second.
OnlyForceRunsTwo ==
    \A r1, r2 \in RunIds : Played(r1, r2) => forge[r2].forced

\* "a silently dead Forge run cannot hang the iteration forever" (nnue:43-44).
IterationEnds == ~Idle ~> Idle

\* Nothing is committed on the games or the gates of an earlier candidate: "a terminal
\* or active Forge run found by name/log can only describe a previous candidate and
\* must never be reused" (nnue:861-863), and the gates "stop obviously bad
\* exports/training before SPRT" (nnue:64).
JudgedOnOwnGames ==
    Finished /\ ~Full => OwnGames /\ OwnGates

\* "Forge publishes a terminal SPRT H0/H1 decision before its state flips from stopped
\* to done.  That is a completed result, not a resumable run" (nnue:718-719): no
\* iteration gives up on a decided run.
DecidedRunIsTaken ==
    [][(pc \in {"refuse", "step"} /\ pc' = "failed") => ~Decided(forge[using])]_vars

=============================================================================
