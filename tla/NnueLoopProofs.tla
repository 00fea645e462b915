--------------------------- MODULE NnueLoopProofs ---------------------------
(***************************************************************************)
(* Proofs about NnueLoop: its type invariant, and the four invariants of   *)
(* the loop_restarts run, for any gates, either list of SPRT runs and any  *)
(* bounds.                                                                 *)
(*                                                                         *)
(* IInv, the inductive invariant, says what the script may count on at     *)
(* each place (AtPlace, RunInHand, GatesBehind, OwnRun, OwnLog, Earned),   *)
(* and what is true of the files and of Forge whatever it does (Logs,      *)
(* Printed, Nothing, Markers, Flags, Apart).                               *)
(***************************************************************************)
EXTENDS NnueLoop, TLAPS, SequenceTheorems, FiniteSetTheorems,
        WellFoundedInduction

Run == [candidate : Candidates, label : AllLabels, forced : BOOLEAN,
        blind : BOOLEAN, state : {"active", "stopped", "done"}, llr : Llrs,
        far : BOOLEAN, bad : BOOLEAN]

\* TypeOK in three parts, with the type of the history.
ScriptTyped ==
    /\ pc \in Working \cup {"off", "failed", "finished"}
    /\ options \in SUBSET Options
    /\ at \in 1 .. Max({Len(Gates), Len(Labels)})
    /\ using \in {0} \cup RunIds
    /\ seen \in Llrs /\ triaged \in BOOLEAN /\ polls \in 0 .. MaxPolls
    /\ verdict \in {None, "PASS", "FAIL", "INCONCLUSIVE"}

FilesTyped ==
    /\ net \in {0} \cup Candidates
    /\ flaw \in Seq({None} \cup Range(Gates)) /\ Len(flaw) <= MaxCandidates
    /\ extended \in BOOLEAN /\ passed \subseteq Range(Gates)
    /\ log \in [AllLabels -> {0} \cup RunIds]
    /\ printed \in [AllLabels -> BOOLEAN]
    /\ ledger \subseteq Candidates /\ dirty \in BOOLEAN
    /\ committed \in {None, "PASS", "FAIL", "INCONCLUSIVE"}
    /\ starts \in 0 .. MaxStarts
    /\ checked \in [Range(Gates) -> SUBSET Candidates]

Typed == ScriptTyped /\ FilesTyped /\ forge \in Seq(Run)

Judging == {"log", "setup", "wait", "refuse", "poll", "step", "stop", "judge"}
Reporting == {"benchmark", "ledger", "commit", "finished"}
Playing == {"sprt"} \cup Judging \cup Reporting

\* The gates are passed by an iteration that is not --full-sprt-first, with a
\* candidate; `at' is an index of what the place runs through.
AtPlace ==
    /\ pc \in {"train", "gate"} => ~Full
    /\ pc = "train" => at = 1
    /\ pc = "gate" => at <= Len(Gates) /\ net # 0
    /\ pc \in Playing /\ ~Full => at <= Len(Labels) /\ net # 0
    /\ pc \in Judging \cup Reporting => net # 0

\* From the launch on there is a run, of the label the script is at.
RunInHand ==
    pc \in Judging \cup Reporting =>
        using # 0 /\ (forge[using].label = Label)

\* A forced iteration has played its own games,
OwnRun == Forced /\ pc \in Judging \cup Reporting => forge[using].candidate = net

\* has only its own run in its log,
OwnLog ==
    /\ pc = "log" => ~printed[Label]
    /\ pc = "setup" => log[Label] = using
    /\ Forced /\ pc \in Judging => log[Label] \in {0, using}

\* and has passed its own gates up to where it is.
GatesBehind ==
    Forced =>
        /\ pc = "gate" => \A i \in 1 .. (at - 1) : net \in checked[Gates[i]]
        /\ pc \in Playing /\ ~Full => \A g \in Range(Gates) : net \in checked[g]

\* What is judged has ended, and what was read of it has not changed since.
Supported ==
    LET run == forge[using]
    IN  \/ verdict = "PASS" /\ run.llr = "H1"
        \/ verdict = "FAIL" /\ (run.llr = "H0" \/ run.bad)
        \/ verdict = "INCONCLUSIVE" /\ run.llr = "between" /\ run.state = "done"

Earned ==
    ~Full =>
        /\ pc = "stop" => forge[using].bad
        /\ pc = "judge" => Complete(forge[using]) /\ seen = forge[using].llr
        /\ pc \in Reporting => \/ Complete(forge[using]) /\ Supported
                               \/ forge[using].bad /\ verdict = "FAIL"

\* SPRT_MAX_WAIT_SECONDS were not over when the turn of the loop began.
Waits == pc = "step" => polls < MaxPolls

\* A log names a run of its label.
Logs == \A l \in AllLabels : log[l] # 0 => forge[log[l]].label = l

\* A log that ends with the last of the games names a run that is played out.
Printed == \A l \in AllLabels : printed[l] => log[l] # 0 /\ PlayedOut(forge[log[l]])

\* The candidate on disk, if there is one, is the newest.
Newest == net \in {0, Len(flaw)}

\* A scratch directory without a candidate has no markers.
Nothing == Len(flaw) = 0 => passed = {}

\* As long as there was one candidate, a marker is its own,
Markers == Len(flaw) = 1 => flaw[1] \notin passed

\* and so are the gates the iteration has behind it.
Flawless ==
    Len(flaw) = 1 =>
        /\ pc = "gate" => \A i \in 1 .. (at - 1) : flaw[1] # Gates[i]
        /\ pc \in Playing /\ ~Full => flaw[1] \notin Range(Gates)

\* A catastrophic Elo is seen after SMOKE_GAMES, and never before.
Flags == \A r \in RunIds : forge[r].bad => forge[r].far

\* A run launched without FORCE=1, after a list of the active runs, finds every earlier
\* run of its label complete.
Apart ==
    \A r1, r2 \in RunIds :
        /\ r1 < r2 /\ forge[r1].label = forge[r2].label
        /\ ~forge[r2].forced /\ ~forge[r2].blind
        => Complete(forge[r1])

\* What the script may count on, and what is true wherever it is.
Place ==
    AtPlace /\ RunInHand /\ OwnRun /\ OwnLog /\ GatesBehind /\ Earned /\ Waits /\ Flawless
Files == Logs /\ Printed /\ Newest /\ Nothing /\ Markers /\ Flags /\ Apart

IInv == Typed /\ Place /\ Files

-----------------------------------------------------------------------------
(* Facts about the data. *)

LEMMA MaxOfTwo ==
    ASSUME NEW a \in Nat, NEW b \in Nat
    PROVE  /\ Max({a, b}) \in Nat
           /\ Max({a, b}) >= a /\ Max({a, b}) >= b
<1>1. \E x \in {a, b} : \A y \in {a, b} : x >= y
  <2>1. CASE a >= b
    BY <2>1
  <2>2. CASE ~(a >= b)
    BY <2>2
  <2> QED
    BY <2>1, <2>2
<1>2. Max({a, b}) \in {a, b} /\ \A y \in {a, b} : Max({a, b}) >= y
  BY <1>1 DEF Max
<1> QED
  BY <1>2

\* Among the elements of S above an element of S, some set is least; the element it is
\* above is the maximum.
LEMMA MaxIsMember ==
    ASSUME NEW n \in Nat, NEW S \in SUBSET (1 .. n), S # {}
    PROVE  Max(S) \in S
<1> DEFINE Above(x) == {y \in S : y > x}
           T == {Above(x) : x \in S}
<1>1. IsFiniteSet(S)
  <2>1. 1 \in Int /\ n \in Int
    OBVIOUS
  <2>2. IsFiniteSet(1 .. n)
    BY <2>1, FS_Interval, Zenon
  <2> QED
    BY <2>2, FS_Subset, Zenon
<1>2. T \subseteq FiniteSubsetsOf(S) /\ T # {}
  <2>1. FiniteSubsetsOf(S) = SUBSET S
    BY <1>1, FS_FiniteSubsetsOfFinite, Zenon
  <2>2. \A x \in S : Above(x) \subseteq S
    OBVIOUS
  <2> HIDE DEF Above
  <2>3. T \subseteq SUBSET S
    BY <2>2
  <2>4. T # {}
    OBVIOUS
  <2> QED
    BY <2>1, <2>3, <2>4
<1>3. \E t \in T : \A u \in T : <<u, t>> \notin StrictSubsetOrdering(S)
  <2> HIDE DEF T
  <2> QED
    BY <1>2, FS_StrictSubsetOrderingWellFounded, WFMin
<1>4. PICK x \in S : \A u \in T : <<u, Above(x)>> \notin StrictSubsetOrdering(S)
  BY <1>3
<1>5. ASSUME NEW y \in S, ~(x >= y)
      PROVE  FALSE
  <2>1. y \in Nat /\ x \in Nat /\ y > x
    BY <1>5
  <2>2. ASSUME NEW z \in Above(y)
        PROVE  z \in Above(x)
    <3>1. z \in S /\ z > y /\ z \in Nat
      OBVIOUS
    <3> QED
      BY <2>1, <3>1
  <2>3. y \in Above(x) /\ y \notin Above(y)
    BY <2>1
  <2>4. <<Above(y), Above(x)>> \in StrictSubsetOrdering(S)
    BY <2>2, <2>3 DEF StrictSubsetOrdering
  <2> QED
    BY <1>4, <2>4
<1> QED
  BY <1>5 DEF Max

LEMMA LabelFacts ==
    /\ Gates \in Seq(STRING) /\ Len(Gates) \in Nat \ {0}
    /\ Len(Labels) \in Nat \ {0} /\ \A i \in 1 .. Len(Labels) : Labels[i] \in AllLabels
    /\ Options \subseteq {"force", "full"}
    /\ MaxStarts \in Nat /\ MaxCandidates \in Nat /\ MaxRuns \in Nat /\ MaxPolls \in Nat
<1>1. Gates \in Seq(STRING) /\ Len(Gates) \in Nat \ {0}
  BY NnueLoopAssumption, EmptySeq, LenProperties
<1>2. ASSUME Labels = <<"sprt">>
      PROVE  Len(Labels) \in Nat \ {0} /\ \A i \in 1 .. Len(Labels) : Labels[i] \in AllLabels
  BY <1>2 DEF AllLabels
<1>3. ASSUME Labels = <<"screen", "sprt">>
      PROVE  Len(Labels) \in Nat \ {0} /\ \A i \in 1 .. Len(Labels) : Labels[i] \in AllLabels
  BY <1>3 DEF AllLabels
<1>4. Len(Labels) \in Nat \ {0} /\ \A i \in 1 .. Len(Labels) : Labels[i] \in AllLabels
  BY <1>2, <1>3, NnueLoopAssumption
<1> QED
  BY <1>1, <1>4, NnueLoopAssumption

LEMMA IndexFacts ==
    /\ Max({Len(Gates), Len(Labels)}) \in Nat
    /\ Max({Len(Gates), Len(Labels)}) >= Len(Gates)
    /\ Max({Len(Gates), Len(Labels)}) >= Len(Labels)
BY LabelFacts, MaxOfTwo

LEMMA TypedTypeOK == Typed => TypeOK
BY DEF Typed, ScriptTyped, FilesTyped, Run, TypeOK

LEMMA LabelIn ==
    ASSUME Typed, AtPlace, pc \in Playing
    PROVE  Label \in AllLabels
<1>1. CASE Full
  BY <1>1 DEF Label, AllLabels
<1>2. CASE ~Full
  <2>1. at \in 1 .. Len(Labels)
    BY <1>2, LabelFacts, IndexFacts DEF Typed, ScriptTyped, AtPlace
  <2> QED
    BY <1>2, <2>1, LabelFacts DEF Label
<1> QED
  BY <1>1, <1>2

\* The run the script finds is there, and of the label it is at.
LEMMA FoundFacts ==
    ASSUME IInv, pc = "sprt", NEW named \in BOOLEAN, NEW listed \in BOOLEAN,
           Found(named, listed) # 0
    PROVE  /\ Found(named, listed) \in RunIds
           /\ forge[Found(named, listed)].label = Label /\ ~Forced
<1>1. Label \in AllLabels
  BY LabelIn DEF IInv, Place, Playing
<1>2. ~Forced
  BY DEF Found
<1>3. CASE named /\ log[Label] # 0
  <2>1. Found(named, listed) = log[Label]
    BY <1>2, <1>3 DEF Found
  <2> QED
    BY <1>1, <1>2, <1>3, <2>1 DEF IInv, Typed, FilesTyped, Files, Logs
<1>4. CASE ~(named /\ log[Label] # 0)
  <2>1. Incomplete(Label) # {} /\ Found(named, listed) = Max(Incomplete(Label))
    BY <1>2, <1>4 DEF Found
  <2>2. Incomplete(Label) \in SUBSET (1 .. Len(forge)) /\ Len(forge) \in Nat
    BY LenProperties DEF Incomplete, RunIds, IInv, Typed
  <2>3. Found(named, listed) \in Incomplete(Label)
    BY <2>1, <2>2, MaxIsMember
  <2> QED
    BY <1>2, <2>3 DEF Incomplete
<1> QED
  BY <1>3, <1>4

-----------------------------------------------------------------------------
(* Init. *)

LEMMA InitOK == Init => IInv
<1> SUFFICES ASSUME Init PROVE IInv
  OBVIOUS
<1>1. forge = <<>> /\ flaw = <<>> /\ Len(forge) = 0 /\ Len(flaw) = 0 /\ pc = "off"
  BY DEF Init
<1>2. Typed
  <2>1. flaw \in Seq({None} \cup Range(Gates)) /\ forge \in Seq(Run)
    BY <1>1, EmptySeq
  <2>2. 1 \in 1 .. Max({Len(Gates), Len(Labels)})
    BY IndexFacts, LabelFacts
  <2>3. ScriptTyped
    <3>1. polls \in 0 .. MaxPolls /\ at \in 1 .. Max({Len(Gates), Len(Labels)})
      BY <2>2, LabelFacts DEF Init
    <3>2. using \in {0} \cup RunIds /\ options \in SUBSET Options /\ seen \in Llrs
      BY DEF Init, Llrs
    <3>3. triaged \in BOOLEAN /\ verdict \in {None, "PASS", "FAIL", "INCONCLUSIVE"}
      BY DEF Init
    <3> QED
      BY <1>1, <3>1, <3>2, <3>3 DEF ScriptTyped
  <2>4. FilesTyped
    <3>1. starts \in 0 .. MaxStarts /\ Len(flaw) <= MaxCandidates
      BY <1>1, LabelFacts DEF Init
    <3>2. checked \in [Range(Gates) -> SUBSET Candidates]
      BY DEF Init
    <3>3. log \in [AllLabels -> {0} \cup RunIds] /\ printed \in [AllLabels -> BOOLEAN]
      BY DEF Init
    <3>4. /\ net \in {0} \cup Candidates /\ extended \in BOOLEAN
          /\ passed \subseteq Range(Gates)
          /\ ledger \subseteq Candidates /\ dirty \in BOOLEAN
          /\ committed \in {None, "PASS", "FAIL", "INCONCLUSIVE"}
      BY DEF Init
    <3> QED
      BY <2>1, <3>1, <3>2, <3>3, <3>4 DEF FilesTyped
  <2> QED
    BY <2>1, <2>3, <2>4 DEF Typed
<1>3. Place
  BY <1>1 DEF Place, AtPlace, RunInHand, OwnRun, OwnLog, GatesBehind, Earned, Waits, Flawless,
              Judging, Reporting, Playing
<1>4. Files
  BY <1>1 DEF Files, Logs, Printed, Newest, Nothing, Markers, Flags, Apart, Init, RunIds
<1> QED
  BY <1>2, <1>3, <1>4 DEF IInv

-----------------------------------------------------------------------------
(* Forge: what any step but a launch makes of the runs. *)

Evolves ==
    /\ forge' \in Seq(Run) /\ Len(forge') = Len(forge)
    /\ \A r \in RunIds :
        /\ forge'[r].candidate = forge[r].candidate
        /\ forge'[r].label = forge[r].label /\ forge'[r].forced = forge[r].forced
        /\ forge'[r].blind = forge[r].blind
        /\ Complete(forge[r]) =>
              /\ Complete(forge'[r]) /\ forge'[r].llr = forge[r].llr
              /\ forge[r].state = "done" => forge'[r].state = "done"
        /\ forge[r].bad => forge'[r].bad
        /\ forge'[r].bad => forge'[r].far

LEMMA RunTyped ==
    ASSUME Typed, NEW r \in RunIds
    PROVE  /\ forge \in Seq(Run) /\ Len(forge) \in Nat /\ DOMAIN forge = RunIds
           /\ forge[r] \in Run
BY ElementOfSeq, LenProperties DEF Typed, RunIds

LEMMA EvolveOne ==
    ASSUME IInv, NEW r \in RunIds, NEW run \in Run, forge' = [forge EXCEPT ![r] = run],
           run.candidate = forge[r].candidate, run.label = forge[r].label,
           run.forced = forge[r].forced, run.blind = forge[r].blind,
           Complete(forge[r]) =>
              /\ Complete(run) /\ run.llr = forge[r].llr
              /\ forge[r].state = "done" => run.state = "done",
           forge[r].bad => run.bad, run.bad => run.far
    PROVE  Evolves
<1>1. forge \in Seq(Run) /\ DOMAIN forge = RunIds /\ RunIds = 1 .. Len(forge)
  BY RunTyped DEF IInv, RunIds
<1>2. forge' \in Seq(Run) /\ Len(forge') = Len(forge)
  BY <1>1, ExceptSeq
<1>3. forge'[r] = run /\ \A q \in RunIds \ {r} : forge'[q] = forge[q]
  BY <1>1
<1>4. \A q \in RunIds : forge[q].bad => forge[q].far
  BY DEF IInv, Files, Flags
<1> QED
  BY <1>2, <1>3, <1>4 DEF Evolves

LEMMA EvolveNone == ASSUME IInv, UNCHANGED forge PROVE Evolves
BY DEF Evolves, IInv, Typed, Files, Flags

\* What does not depend on where the script is survives whatever Forge does.
LEMMA FilesEvolve ==
    ASSUME IInv, Evolves, UNCHANGED artifacts
    PROVE  Files'
<1>1. /\ Logs /\ Printed /\ Newest /\ Nothing /\ Markers /\ Flags /\ Apart
      /\ UNCHANGED <<net, flaw, passed, log, printed>> /\ RunIds' = RunIds
      /\ log \in [AllLabels -> {0} \cup RunIds]
  BY DEF IInv, Files, Evolves, artifacts, RunIds, Typed, FilesTyped
<1>2. Logs' /\ Newest' /\ Nothing' /\ Markers'
  BY <1>1 DEF Logs, Newest, Nothing, Markers, Evolves
<1>3. Flags'
  BY <1>1 DEF Flags, Evolves
<1>4. Apart'
  BY <1>1 DEF Apart, Evolves
<1>5. Printed'
  BY <1>1 DEF Printed, Evolves, PlayedOut, Complete
<1> QED
  BY <1>2, <1>3, <1>4, <1>5 DEF Files

LEMMA TypedEvolve ==
    ASSUME IInv, Evolves, UNCHANGED <<artifacts, starts, checked>>,
           ledger' \subseteq Candidates, dirty' \in BOOLEAN,
           committed' \in {None, "PASS", "FAIL", "INCONCLUSIVE"}
    PROVE  FilesTyped' /\ forge' \in Seq(Run)' /\ UNCHANGED <<Candidates, RunIds, Run>>
<1>1. UNCHANGED <<Candidates, RunIds, Run>>
  BY DEF Evolves, artifacts, Candidates, RunIds, Run
<1>2. forge' \in Seq(Run)'
  BY <1>1 DEF Evolves
<1> QED
  BY <1>1, <1>2 DEF FilesTyped, IInv, Typed, artifacts

\* An iteration that has ended without a verdict, or only starts, counts on nothing.
LEMMA NoPlace == ASSUME pc \in {"off", "failed"} PROVE Place
BY DEF Place, AtPlace, RunInHand, OwnRun, OwnLog, GatesBehind, Earned, Waits, Flawless,
    Judging, Reporting,
       Playing

\* The places from the launch to the verdict differ only in what is known of the run.
LEMMA PlaceEvolve ==
    ASSUME IInv, Evolves, UNCHANGED <<options, at, using, artifacts, checked>>,
           pc \in Judging \cup Reporting, pc' \in Judging \cup Reporting, Earned', Waits',
           UNCHANGED pc \/ pc' \notin {"log", "setup"},
           pc' \in Judging => pc \in Judging
    PROVE  Place'
<1>1. /\ AtPlace /\ RunInHand /\ OwnRun /\ OwnLog /\ GatesBehind /\ Flawless
      /\ UNCHANGED <<net, flaw, log, printed>> /\ using \in RunIds \cup {0}
  BY DEF IInv, Place, artifacts, Typed, ScriptTyped
<1>2. pc \in Playing /\ pc' \in Playing /\ pc' \notin {"train", "gate"}
  BY DEF Judging, Reporting, Playing
<1>3. UNCHANGED <<Full, Forced, Label>>
  BY DEF Full, Forced, Label
<1>4. AtPlace'
  BY <1>1, <1>2, <1>3 DEF AtPlace
<1>5. using \in RunIds /\ forge[using].label = Label
  BY <1>1 DEF RunInHand
<1>6. RunInHand'
  BY <1>3, <1>5 DEF RunInHand, Evolves, RunIds
<1>7. OwnRun'
  BY <1>1, <1>3, <1>5 DEF OwnRun, Evolves
<1>8. GatesBehind'
  BY <1>1, <1>2, <1>3 DEF GatesBehind
<1>9. Flawless'
  BY <1>1, <1>2, <1>3 DEF Flawless
<1>10. OwnLog'
  BY <1>1, <1>3 DEF OwnLog
<1> QED
  BY <1>4, <1>6, <1>7, <1>8, <1>9, <1>10 DEF Place

LEMMA EarnedEvolve ==
    ASSUME IInv, Evolves, UNCHANGED script, pc \in Judging \cup Reporting
    PROVE  Earned'
<1>1. Earned /\ using \in RunIds /\ UNCHANGED <<pc, Full, seen, verdict, using>>
  BY DEF IInv, Place, RunInHand, Typed, ScriptTyped, script, Full
<1>2. /\ Complete(forge[using]) =>
            /\ Complete(forge[using])' /\ forge'[using].llr = forge[using].llr
            /\ forge[using].state = "done" => forge'[using].state = "done"
      /\ forge[using].bad => forge'[using].bad
  BY <1>1 DEF Evolves, Complete, Decided
<1>3. CASE pc = "judge"
  BY <1>1, <1>2, <1>3 DEF Earned, Reporting
<1>4. CASE pc \in Reporting
  BY <1>1, <1>2, <1>4 DEF Earned, Supported, Reporting
<1>5. CASE pc \notin {"stop", "judge"} /\ pc \notin Reporting
  BY <1>1, <1>5 DEF Earned
<1>6. CASE pc = "stop"
  BY <1>1, <1>2, <1>6 DEF Earned, Reporting
<1> QED
  BY <1>3, <1>4, <1>5, <1>6

\* A step of Forge, or of anybody who leaves the script where it is.
LEMMA WorldStep ==
    ASSUME IInv, Evolves, UNCHANGED <<script, artifacts, records, starts, checked>>
    PROVE  IInv'
<1>1. Typed'
  <2>1. FilesTyped' /\ forge' \in Seq(Run)' /\ UNCHANGED <<Candidates, RunIds>>
    BY TypedEvolve DEF IInv, Typed, FilesTyped, records
  <2> QED
    BY <2>1 DEF Typed, ScriptTyped, IInv, script
<1>2. Files'
  BY FilesEvolve
<1>3. Place'
  <2>1. CASE pc \in Judging \cup Reporting
    BY <2>1, EarnedEvolve, PlaceEvolve DEF script, Waits, IInv, Place
  <2>2. CASE pc \notin Judging \cup Reporting
    <3>1. /\ AtPlace /\ GatesBehind /\ Flawless
          /\ UNCHANGED <<pc, at, net, flaw, checked, Full, Forced>>
      BY DEF IInv, Place, artifacts, script, Full, Forced
    <3>2. AtPlace' /\ GatesBehind' /\ Flawless'
      BY <3>1 DEF AtPlace, GatesBehind, Flawless
    <3> QED
      BY <2>2, <3>1, <3>2 DEF Place, RunInHand, OwnRun, OwnLog, Earned, Waits, Judging
  <2> QED
    BY <2>1, <2>2
<1> QED
  BY <1>1, <1>2, <1>3 DEF IInv

-----------------------------------------------------------------------------
(* Forge's own steps, and the user's. *)

LEMMA PlayOK == ASSUME IInv, Play PROVE IInv'
<1>1. PICK r \in RunIds, bad \in BOOLEAN :
        /\ forge[r].state = "active" /\ ~forge[r].far
        /\ forge' = [forge EXCEPT ![r].far = TRUE, ![r].bad = bad]
        /\ UnchangedButForge
  BY DEF Play
<1> DEFINE run == [forge[r] EXCEPT !.far = TRUE, !.bad = bad]
<1>2. forge[r] \in Run /\ ~forge[r].bad /\ DOMAIN forge = RunIds
  BY <1>1, RunTyped DEF IInv, Files, Flags
<1>3. /\ run \in Run /\ run.far /\ run.state = forge[r].state /\ run.llr = forge[r].llr
      /\ run.candidate = forge[r].candidate /\ run.label = forge[r].label
      /\ run.forced = forge[r].forced /\ run.blind = forge[r].blind
      /\ forge' = [forge EXCEPT ![r] = run]
  BY <1>1, <1>2 DEF Run
<1>4. Complete(forge[r]) =>
        /\ Complete(run) /\ run.llr = forge[r].llr
        /\ forge[r].state = "done" => run.state = "done"
  BY <1>3 DEF Complete, Decided
<1> HIDE DEF run
<1>5. Evolves
  BY <1>2, <1>3, <1>4, EvolveOne
<1> QED
  BY <1>1, <1>5, WorldStep DEF UnchangedButForge

LEMMA DecideOK == ASSUME IInv, Decide PROVE IInv'
<1>1. PICK r \in RunIds, llr \in Llrs :
        /\ forge[r].state = "active" /\ forge[r].far
        /\ forge' = [forge EXCEPT ![r].llr = llr,
                                  ![r].state = IF llr = "between" THEN "done" ELSE "stopped"]
        /\ UnchangedButForge
  BY DEF Decide
<1> DEFINE run == [forge[r] EXCEPT !.llr = llr,
                                   !.state = IF llr = "between" THEN "done" ELSE "stopped"]
<1>2. forge[r] \in Run /\ DOMAIN forge = RunIds
  BY RunTyped DEF IInv
<1>3. /\ run \in Run /\ run.far = forge[r].far /\ run.bad = forge[r].bad
      /\ run.candidate = forge[r].candidate /\ run.label = forge[r].label
      /\ run.forced = forge[r].forced /\ run.blind = forge[r].blind
      /\ forge' = [forge EXCEPT ![r] = run]
  BY <1>1, <1>2 DEF Run
<1>4. ~Complete(forge[r])
  BY <1>1 DEF Complete
<1> HIDE DEF run
<1>5. Evolves
  BY <1>1, <1>2, <1>3, <1>4, EvolveOne
<1> QED
  BY <1>1, <1>5, WorldStep DEF UnchangedButForge

\* A run only changes state, and is not made less complete.
LEMMA StateStep ==
    ASSUME IInv, NEW r \in RunIds, NEW st \in {"active", "stopped", "done"},
           forge' = [forge EXCEPT ![r].state = st],
           Complete(forge[r]) => st = "done"
    PROVE  Evolves
<1> DEFINE run == [forge[r] EXCEPT !.state = st]
<1>1. forge[r] \in Run /\ DOMAIN forge = RunIds
  BY RunTyped DEF IInv
<1>2. /\ run \in Run /\ run.far = forge[r].far /\ run.bad = forge[r].bad
      /\ run.llr = forge[r].llr /\ run.state = st
      /\ run.candidate = forge[r].candidate /\ run.label = forge[r].label
      /\ run.forced = forge[r].forced /\ run.blind = forge[r].blind
      /\ forge' = [forge EXCEPT ![r] = run]
  BY <1>1 DEF Run
<1>3. Complete(forge[r]) =>
        /\ Complete(run) /\ run.llr = forge[r].llr
        /\ forge[r].state = "done" => run.state = "done"
  BY <1>2 DEF Complete, Decided
<1>4. run.bad => run.far
  BY <1>2 DEF IInv, Files, Flags
<1> HIDE DEF run
<1> QED
  BY <1>1, <1>2, <1>3, <1>4, EvolveOne

LEMMA CloseOK == ASSUME IInv, Close PROVE IInv'
<1>1. PICK r \in RunIds : forge' = [forge EXCEPT ![r].state = "done"] /\ UnchangedButForge
  BY DEF Close
<1>2. Evolves
  BY <1>1, StateStep
<1> QED
  BY <1>1, <1>2, WorldStep DEF UnchangedButForge

LEMMA OperateOK == ASSUME IInv, Operate PROVE IInv'
<1>1. PICK r \in RunIds :
        /\ ~Decided(forge[r])
        /\ \/ forge[r].state = "active"
              /\ forge' = [forge EXCEPT ![r].state = "stopped"]
           \/ forge[r].state = "stopped"
              /\ forge' = [forge EXCEPT ![r].state = "active"]
        /\ UnchangedButForge
  BY DEF Operate
<1>2. ~Complete(forge[r])
  BY <1>1 DEF Complete
<1>3. PICK st \in {"active", "stopped", "done"} : forge' = [forge EXCEPT ![r].state = st]
  BY <1>1
<1>4. Evolves
  BY <1>2, <1>3, StateStep
<1> QED
  BY <1>1, <1>4, WorldStep DEF UnchangedButForge

LEMMA ForgeOK == ASSUME IInv, Forge PROVE IInv'
BY PlayOK, DecideOK, CloseOK, OperateOK DEF Forge

\* stop_run
LEMMA StopRunEvolves == ASSUME IInv, NEW r \in RunIds, StopRun(r) PROVE Evolves
<1>1. CASE forge[r].state = "active" /\ forge' = [forge EXCEPT ![r].state = "stopped"]
  <2>1. ~Complete(forge[r])
    BY <1>1 DEF Complete
  <2> QED
    BY <1>1, <2>1, StateStep
<1>2. CASE UNCHANGED forge
  BY <1>2, EvolveNone
<1> QED
  BY <1>1, <1>2 DEF StopRun

LEMMA ExtendOK == ASSUME IInv, Extend PROVE IInv'
<1>1. /\ UNCHANGED <<script, net, flaw, passed, log, printed, forge, ledger, committed,
                      starts, checked>>
      /\ extended' = TRUE /\ dirty' = TRUE
  BY DEF Extend
<1>2. Typed'
  BY <1>1 DEF IInv, Typed, ScriptTyped, FilesTyped, Candidates, RunIds, Run, script
<1>3. Files'
  BY <1>1
  DEF IInv, Files, Logs, Printed, PlayedOut, Newest, Nothing, Markers, Flags, Apart, RunIds,
      Complete, Decided
<1>4. Place'
  BY <1>1 DEF IInv, Place, AtPlace, RunInHand, OwnRun, OwnLog, GatesBehind, Earned, Waits,
      Flawless, script,
              Full, Forced, Label, Supported, Complete, Decided
<1> QED
  BY <1>2, <1>3, <1>4 DEF IInv

-----------------------------------------------------------------------------
(* Starts and ends of an iteration. *)

LEMMA ScriptEnd ==
    ASSUME NEW outcome \in {"off", "failed"}, End(outcome)
    PROVE  ScriptTyped' /\ Place'
<1>1. pc' \in {"off", "failed"}
  BY DEF End
<1>2. Place'
  BY <1>1 DEF Place, AtPlace, RunInHand, OwnRun, OwnLog, GatesBehind, Earned, Waits, Flawless,
      Judging,
              Reporting, Playing
<1>3. polls' \in 0 .. MaxPolls /\ at' \in 1 .. Max({Len(Gates), Len(Labels)})
  BY LabelFacts, IndexFacts DEF End
<1>4. using' \in {0} \cup RunIds' /\ options' \in SUBSET Options /\ seen' \in Llrs
      /\ triaged' \in BOOLEAN /\ verdict' \in {None, "PASS", "FAIL", "INCONCLUSIVE"}
  BY DEF End, Llrs
<1> QED
  BY <1>1, <1>2, <1>3, <1>4 DEF ScriptTyped

LEMMA EndStep ==
    ASSUME IInv, Evolves, NEW outcome \in {"off", "failed"}, End(outcome),
           UNCHANGED <<artifacts, records, starts, checked>>
    PROVE  IInv'
<1>1. ScriptTyped' /\ Place'
  BY ScriptEnd
<1>2. FilesTyped' /\ forge' \in Seq(Run)'
  BY TypedEvolve DEF IInv, Typed, FilesTyped, records
<1>3. Files'
  BY FilesEvolve
<1> QED
  BY <1>1, <1>2, <1>3 DEF IInv, Typed

LEMMA StartOK == ASSUME IInv, Start PROVE IInv'
<1>1. Evolves
  BY EvolveNone DEF Start
<1>2. Files'
  BY <1>1, FilesEvolve DEF Start
<1>3. FilesTyped'
  <2>1. starts' \in 0 .. MaxStarts
    BY LabelFacts DEF Start, IInv, Typed, FilesTyped
  <2> QED
    BY <2>1 DEF Start, IInv, Typed, FilesTyped, artifacts, records, Candidates, RunIds
<1>4. forge' \in Seq(Run)'
  BY DEF Start, IInv, Typed, Run, Candidates, artifacts
<1>5. ScriptTyped'
  <2>1. polls' \in 0 .. MaxPolls /\ at' \in 1 .. Max({Len(Gates), Len(Labels)})
    BY LabelFacts, IndexFacts DEF Start
  <2>2. using' \in {0} \cup RunIds' /\ options' \in SUBSET Options /\ seen' \in Llrs
        /\ triaged' \in BOOLEAN /\ verdict' \in {None, "PASS", "FAIL", "INCONCLUSIVE"}
    BY DEF Start, Llrs
  <2>3. pc' \in Working
    BY DEF Start, Working
  <2> QED
    BY <2>1, <2>2, <2>3 DEF ScriptTyped
<1>6. Place'
  <2>1. ((pc' = "sprt" /\ Full') \/ (pc' = "train" /\ ~Full')) /\ at' = 1
    BY DEF Start, Full
  <2> QED
    BY <2>1, <1>5 DEF Place, AtPlace, RunInHand, OwnRun, OwnLog, GatesBehind, Earned, Waits,
        Flawless, Judging,
                Reporting, Playing
<1> QED
  BY <1>2, <1>3, <1>4, <1>5, <1>6 DEF IInv, Typed

\* A training that does not end, or a kill: the candidate may be gone.
LEMMA LossStep ==
    ASSUME IInv, NEW outcome \in {"off", "failed"}, End(outcome), net' \in {net, 0},
           UNCHANGED <<flaw, extended, passed, log, printed, forge, records, starts, checked>>
    PROVE  IInv'
<1>1. ScriptTyped' /\ Place'
  BY ScriptEnd
<1>2. UNCHANGED <<Candidates, RunIds, Run>>
  BY DEF Candidates, RunIds, Run
<1>3. FilesTyped' /\ forge' \in Seq(Run)'
  BY <1>2 DEF IInv, Typed, FilesTyped, records
<1>4. Files'
  BY <1>2
  DEF IInv, Files, Logs, Printed, PlayedOut, Newest, Nothing, Markers, Flags, Apart, RunIds,
      Complete, Decided
<1> QED
  BY <1>1, <1>3, <1>4 DEF IInv, Typed

LEMMA CrashOK == ASSUME IInv, Crash PROVE IInv'
BY LossStep DEF Crash, Remains

-----------------------------------------------------------------------------
(* Waiting for a run and judging it. *)

LEMMA JudgingStep ==
    ASSUME IInv, Evolves, UNCHANGED <<options, at, using, artifacts, starts, checked>>,
           pc \in Judging \cup Reporting, pc' \in Judging \cup Reporting,
           seen' \in Llrs, triaged' \in BOOLEAN, polls' \in 0 .. MaxPolls,
           verdict' \in {None, "PASS", "FAIL", "INCONCLUSIVE"},
           ledger' \subseteq Candidates, dirty' \in BOOLEAN,
           committed' \in {None, "PASS", "FAIL", "INCONCLUSIVE"},
           Earned', Waits',
           pc' \notin {"log", "setup"}, pc' \in Judging => pc \in Judging
    PROVE  IInv'
<1>1. FilesTyped' /\ forge' \in Seq(Run)' /\ UNCHANGED RunIds
  BY TypedEvolve
<1>2. ScriptTyped'
  BY <1>1 DEF ScriptTyped, IInv, Typed, Judging, Reporting, Working
<1>3. Files'
  BY FilesEvolve
<1>4. Place'
  BY PlaceEvolve
<1> QED
  BY <1>1, <1>2, <1>3, <1>4 DEF IInv, Typed

\* Nothing is known of a run that has not been judged.
LEMMA NothingEarned == ASSUME pc' \in Judging \ {"judge", "stop"} PROVE Earned'
BY DEF Earned, Judging, Reporting

LEMMA NotInStep == ASSUME pc' # "step" PROVE Waits'
BY DEF Waits

LEMMA RunOfPlace ==
    ASSUME IInv, pc \in Judging \cup Reporting
    PROVE  using \in RunIds /\ forge[using] \in Run
<1>1. using \in RunIds
  BY DEF IInv, Place, RunInHand, Typed, ScriptTyped
<1> QED
  BY <1>1, RunTyped DEF IInv

LEMMA CheckSetupOK == ASSUME IInv, CheckSetup PROVE IInv'
<1>1. /\ pc = "setup" /\ pc \in Judging /\ using \in RunIds /\ Label \in AllLabels
      /\ log[Label] = using /\ using # 0
      /\ UNCHANGED <<net, flaw, extended, passed, log, records, starts, checked>>
  BY RunOfPlace, LabelIn
  DEF IInv, Place, RunInHand, OwnLog, CheckSetup, Judging, Playing
<1>2. printed' \in [AllLabels -> BOOLEAN] /\ \A l \in AllLabels :
        printed'[l] => printed[l] \/ (l = Label /\ PlayedOut(forge[using]))
  BY <1>1 DEF CheckSetup, IInv, Typed, FilesTyped
<1>3. CASE Evolves
  <2>1. UNCHANGED <<Candidates, RunIds, Run>>
    BY <1>1, <1>3 DEF Evolves, Candidates, RunIds, Run
  <2>2. FilesTyped' /\ forge' \in Seq(Run)'
    BY <1>1, <1>2, <1>3, <2>1 DEF FilesTyped, IInv, Typed, records, Evolves
  <2>3. Printed'
    <3> SUFFICES ASSUME NEW l \in AllLabels, printed'[l]
                 PROVE  log[l] # 0 /\ PlayedOut(forge'[log[l]])
      BY <1>1 DEF Printed, PlayedOut
    <3>1. log[l] # 0 /\ PlayedOut(forge[log[l]]) /\ log[l] \in RunIds
      BY <1>1, <1>2 DEF IInv, Files, Printed, Typed, FilesTyped
    <3> QED
      BY <1>3, <3>1 DEF PlayedOut, Evolves, Complete
  <2>4. Logs' /\ Newest' /\ Nothing' /\ Markers' /\ Flags' /\ Apart'
    <3>1. Logs /\ Newest /\ Nothing /\ Markers /\ Flags /\ Apart
          /\ log \in [AllLabels -> {0} \cup RunIds]
      BY DEF IInv, Files, Typed, FilesTyped
    <3>2. Logs' /\ Newest' /\ Nothing' /\ Markers'
      BY <1>1, <1>3, <3>1 DEF Logs, Newest, Nothing, Markers, Evolves
    <3>3. Flags'
      BY <1>3, <2>1 DEF Flags, Evolves
    <3>4. Apart'
      BY <1>3, <2>1, <3>1 DEF Apart, Evolves
    <3> QED
      BY <3>2, <3>3, <3>4
  <2>5. Files'
    BY <2>3, <2>4 DEF Files
  <2>6. ScriptTyped' /\ Place'
    <3>1. CASE End("failed")
      BY <3>1, ScriptEnd
    <3>2. CASE Go("wait")
      <4>1. /\ UNCHANGED <<options, at, using, seen, triaged, polls, verdict>>
            /\ UNCHANGED <<Full, Forced, Label>> /\ pc' = "wait"
        BY <3>2 DEF Go, Full, Forced, Label
      <4>2. ScriptTyped'
        BY <2>1, <4>1 DEF ScriptTyped, IInv, Typed, Working
      <4>3. /\ AtPlace /\ RunInHand /\ OwnRun /\ OwnLog /\ GatesBehind /\ Flawless
        BY DEF IInv, Place
      <4>4. AtPlace' /\ GatesBehind' /\ Flawless'
        BY <1>1, <4>1, <4>3
        DEF AtPlace, GatesBehind, Flawless, Playing, Judging, Reporting
      <4>5. RunInHand' /\ OwnRun'
        BY <1>1, <1>3, <4>1, <4>3 DEF RunInHand, OwnRun, Evolves
      <4>6. OwnLog' /\ Earned' /\ Waits'
        BY <1>1, <4>1 DEF OwnLog, Earned, Waits, Reporting
      <4> QED
        BY <4>2, <4>4, <4>5, <4>6 DEF Place
    <3> QED
      BY <3>1, <3>2 DEF CheckSetup
  <2> QED
    BY <2>2, <2>5, <2>6 DEF IInv, Typed
<1>4. Evolves
  BY <1>1, StopRunEvolves, EvolveNone DEF CheckSetup
<1> QED
  BY <1>3, <1>4

\* A verdict is taken from the run that is waited for, or from the one its log names.
LEMMA TakeResultOK ==
    ASSUME IInv, pc \in Judging \ {"log", "setup"}, NEW r \in RunIds, TakeResult(r),
           r # 0, Complete(forge[r]), forge[r].label = Label, Forced => r = using,
           UNCHANGED <<artifacts, forge, records, starts, checked>>
    PROVE  IInv'
<1>1. /\ using' = r /\ seen' = forge[r].llr /\ pc' = "judge"
      /\ UNCHANGED <<options, at, triaged, polls, verdict>>
      /\ UNCHANGED <<Full, Forced, Label>>
  BY DEF TakeResult, Full, Forced, Label
<1>2. Evolves /\ forge[r] \in Run
  BY EvolveNone, RunTyped DEF IInv
<1>3. FilesTyped' /\ forge' \in Seq(Run)' /\ UNCHANGED RunIds
  BY <1>2, TypedEvolve DEF IInv, Typed, FilesTyped, records
<1>4. ScriptTyped'
  BY <1>1, <1>2, <1>3 DEF ScriptTyped, IInv, Typed, Working, Run
<1>5. Files'
  BY <1>2, FilesEvolve
<1>6. Place'
  <2>1. /\ AtPlace /\ RunInHand /\ OwnRun /\ OwnLog /\ GatesBehind /\ Flawless
        /\ UNCHANGED <<net, flaw, log, printed>>
    BY DEF IInv, Place, artifacts
  <2>2. AtPlace' /\ GatesBehind' /\ Flawless'
    BY <1>1, <2>1 DEF AtPlace, GatesBehind, Flawless, Playing, Judging, Reporting
  <2>3. RunInHand' /\ OwnRun' /\ OwnLog'
    BY <1>1, <2>1 DEF RunInHand, OwnRun, OwnLog
  <2>4. Earned' /\ Waits'
    BY <1>1 DEF Earned, Waits, Complete, Decided, Reporting
  <2> QED
    BY <2>2, <2>3, <2>4 DEF Place
<1> QED
  BY <1>3, <1>4, <1>5, <1>6 DEF IInv, Typed

LEMMA ReadResultOK == ASSUME IInv, ReadResult PROVE IInv'
<1>1. /\ pc \in Judging \ {"log", "setup"} /\ using \in RunIds /\ using # 0
      /\ forge[using].label = Label /\ Label \in AllLabels
      /\ UNCHANGED <<artifacts, forge, records, starts, checked>>
  BY RunOfPlace, LabelIn DEF ReadResult, Judging, Playing, IInv, Place, RunInHand
<1>2. CASE Complete(forge[using]) /\ TakeResult(using)
  BY <1>1, <1>2, TakeResultOK
<1>3. CASE printed[Label] /\ TakeResult(log[Label])
  <2>1. log[Label] # 0 /\ log[Label] \in RunIds /\ forge[log[Label]].label = Label
    BY <1>1, <1>3 DEF IInv, Files, Logs, Printed, Typed, FilesTyped
  <2>2. Complete(forge[log[Label]])
    BY <1>1, <1>3 DEF IInv, Files, Printed, PlayedOut, Complete
  <2>3. Forced => log[Label] = using
    BY <1>1, <2>1 DEF IInv, Place, OwnLog
  <2> QED
    BY <1>1, <1>3, <2>1, <2>2, <2>3, TakeResultOK
<1>4. CASE ~printed[Label] /\ Go(IF pc = "wait" THEN "refuse" ELSE "step")
  <2>1. pc' \in {"refuse", "step"} /\ Evolves
    BY <1>1, <1>4, EvolveNone DEF Go
  <2>2. Waits'
    BY <1>4 DEF ReadResult, Go, Waits
  <2>3. Earned'
    BY <2>1, NothingEarned DEF Judging
  <2>4. UNCHANGED <<options, at, using, seen, triaged, polls, verdict>>
    BY <1>4 DEF Go
  <2>5. pc' \in Judging /\ pc' \notin {"log", "setup"}
    BY <2>1 DEF Judging
  <2> QED
    BY <1>1, <2>1, <2>2, <2>3, <2>4, <2>5, JudgingStep
    DEF IInv, Typed, ScriptTyped, FilesTyped, records
<1> QED
  BY <1>2, <1>3, <1>4 DEF ReadResult

LEMMA GiveUpUnreadOK == ASSUME IInv, GiveUpUnread PROVE IInv'
BY EvolveNone, EndStep DEF GiveUpUnread

LEMMA GiveUpHaltedOK == ASSUME IInv, GiveUpHalted PROVE IInv'
BY EvolveNone, EndStep DEF GiveUpHalted

LEMMA GiveUpWaitingOK == ASSUME IInv, GiveUpWaiting PROVE IInv'
BY EvolveNone, EndStep DEF GiveUpWaiting

LEMMA BeginPollingOK == ASSUME IInv, BeginPolling PROVE IInv'
<1>1. pc \in Judging /\ pc' = "poll" /\ pc' \in Judging \ {"judge", "stop"} /\ Evolves
  BY EvolveNone DEF BeginPolling, Judging
<1>2. Earned' /\ Waits' /\ polls' \in 0 .. MaxPolls
  BY <1>1, NothingEarned, NotInStep, LabelFacts DEF BeginPolling
<1> QED
  BY <1>1, <1>2, JudgingStep
  DEF BeginPolling, IInv, Typed, ScriptTyped, FilesTyped, records

LEMMA SleepOK == ASSUME IInv, Sleep PROVE IInv'
<1>1. pc \in Judging /\ pc' = "poll" /\ pc' \in Judging \ {"judge", "stop"} /\ Evolves
  BY EvolveNone DEF Sleep, Judging
<1>2. forge[using] \in Run
  BY <1>1, RunOfPlace
<1>3. seen' \in Llrs /\ triaged' \in BOOLEAN
  <2>1. forge[using].llr \in Llrs /\ forge[using].far \in BOOLEAN
    BY <1>2 DEF Run
  <2> QED
    BY <2>1 DEF Sleep, LookAgain, IInv, Typed, ScriptTyped
<1>4. Earned' /\ Waits' /\ polls' \in 0 .. MaxPolls
  <2>1. polls < MaxPolls
    BY DEF IInv, Place, Waits, Sleep
  <2> QED
    BY <1>1, <2>1, NothingEarned, NotInStep, LabelFacts DEF Sleep, IInv, Typed, ScriptTyped
<1> QED
  BY <1>1, <1>3, <1>4, JudgingStep
  DEF Sleep, IInv, Typed, ScriptTyped, FilesTyped, records

LEMMA RejectEarlyOK == ASSUME IInv, RejectEarly PROVE IInv'
<1>1. /\ pc \in Judging /\ pc' = "stop" /\ pc' \in Judging /\ Evolves /\ forge[using].bad
      /\ UNCHANGED <<options, at, using, polls, verdict, artifacts, forge, records, starts,
                      checked>>
      /\ seen' = forge[using].llr /\ triaged' = TRUE
  BY EvolveNone DEF RejectEarly, Judging
<1>2. forge[using] \in Run
  BY <1>1, RunOfPlace
<1>3. seen' \in Llrs
  BY <1>1, <1>2 DEF Run
<1>4. Earned' /\ Waits'
  BY <1>1, NotInStep DEF Earned, Reporting
<1> QED
  BY <1>1, <1>3, <1>4, JudgingStep DEF IInv, Typed, ScriptTyped, FilesTyped, records

LEMMA StopEarlyOK == ASSUME IInv, StopEarly PROVE IInv'
<1>1. /\ pc = "stop" /\ pc \in Judging /\ StopRun(using)
      /\ UNCHANGED <<options, at, using, seen, triaged, polls, artifacts, records, starts,
                      checked>>
      /\ IF Full
           THEN pc' = "judge" /\ UNCHANGED verdict
           ELSE pc' = "commit" /\ verdict' = "FAIL"
  BY DEF StopEarly, Judging
<1>2. using \in RunIds /\ Evolves
  BY <1>1, RunOfPlace, StopRunEvolves
<1>3. ~Full => forge'[using].bad
  BY <1>1, <1>2 DEF Evolves, IInv, Place, Earned
<1>4. Earned'
  BY <1>1, <1>3 DEF Earned, Full, Reporting
<1>5. /\ Waits' /\ pc' \in Judging \cup Reporting /\ pc' \notin {"log", "setup"}
      /\ verdict' \in {None, "PASS", "FAIL", "INCONCLUSIVE"}
  BY <1>1, NotInStep DEF Judging, Reporting, IInv, Typed, ScriptTyped
<1> QED
  BY <1>1, <1>2, <1>4, <1>5, JudgingStep DEF IInv, Typed, ScriptTyped, FilesTyped, records

LEMMA JudgeScreenOK == ASSUME IInv, JudgeScreen PROVE IInv'
<1>1. /\ pc = "judge" /\ pc \in Judging /\ Label = "screen" /\ ~Full /\ Evolves
      /\ UNCHANGED <<options, using, seen, artifacts, forge, records, starts, checked>>
      /\ triaged' = FALSE /\ polls' = 0 /\ polls' \in 0 .. MaxPolls
  BY EvolveNone, LabelFacts DEF JudgeScreen, Judging, Screened, Label
<1>2. CASE forge[using].bad
  <2>1. pc' = "commit" /\ verdict' = "FAIL" /\ UNCHANGED at
    BY <1>2 DEF JudgeScreen
  <2>2. Earned' /\ Waits' /\ pc' \in Reporting /\ pc' \notin Judging \cup {"log", "setup"}
    BY <1>1, <1>2, <2>1, NotInStep DEF Earned, Reporting, Judging
  <2> QED
    BY <1>1, <2>1, <2>2, JudgingStep DEF IInv, Typed, ScriptTyped, FilesTyped, records
<1>3. CASE ~forge[using].bad
  <2>1. pc' = "sprt" /\ at' = at + 1 /\ UNCHANGED verdict
    BY <1>3 DEF JudgeScreen
  <2>2. at = 1 /\ Labels = <<"screen", "sprt">>
    <3>1. Labels[at] = "screen" /\ at \in 1 .. Len(Labels)
      BY <1>1, LabelFacts, IndexFacts
      DEF Label, IInv, Typed, ScriptTyped, Place, AtPlace, Playing
    <3>2. Labels # <<"sprt">>
      BY <3>1
    <3>3. Labels = <<"screen", "sprt">>
      BY <3>2, NnueLoopAssumption
    <3> QED
      BY <3>1, <3>3
  <2>3. at' = 2 /\ Len(Labels) = 2 /\ at' \in 1 .. Max({Len(Gates), Len(Labels)})
    BY <2>1, <2>2, IndexFacts
  <2>4. FilesTyped' /\ forge' \in Seq(Run)' /\ UNCHANGED RunIds
    BY <1>1, TypedEvolve DEF IInv, Typed, FilesTyped, records
  <2>5. ScriptTyped'
    BY <1>1, <2>1, <2>3, <2>4 DEF ScriptTyped, IInv, Typed, Working
  <2>6. Files'
    BY <1>1, FilesEvolve
  <2>7. Place'
    BY <1>1, <2>1, <2>3
    DEF IInv, Place, AtPlace, RunInHand, OwnRun, OwnLog, GatesBehind, Earned, Waits, Flawless,
        Judging,
        Reporting, Playing, Full, Forced, artifacts
  <2> QED
    BY <2>4, <2>5, <2>6, <2>7 DEF IInv, Typed
<1> QED
  BY <1>2, <1>3

LEMMA JudgeOK == ASSUME IInv, Judge PROVE IInv'
<1>1. /\ pc = "judge" /\ pc \in Judging /\ Evolves
      /\ UNCHANGED <<options, at, using, seen, triaged, polls>>
      /\ UNCHANGED <<artifacts, forge, records, starts, checked>>
  BY EvolveNone DEF Judge, Judging
<1>2. seen \in Llrs /\ using \in RunIds /\ forge[using] \in Run
  BY <1>1, RunOfPlace DEF IInv, Typed, ScriptTyped
<1>3. verdict' = IF seen = "H0" THEN "FAIL"
                 ELSE IF seen = "H1" THEN "PASS"
                 ELSE IF Full THEN "FAIL" ELSE "INCONCLUSIVE"
  BY <1>2 DEF Judge, Llrs
<1>4. verdict' \in {"PASS", "FAIL", "INCONCLUSIVE"} /\ pc' \in {"benchmark", "commit"}
  BY <1>3 DEF Judge
<1>5. ASSUME ~Full
      PROVE  Complete(forge[using])' /\ Supported'
  <2>1. Complete(forge[using]) /\ seen = forge[using].llr
    BY <1>1, <1>5 DEF IInv, Place, Earned
  <2>2. Complete(forge[using])'
    BY <1>1, <2>1 DEF Complete, Decided
  <2>3. seen = "between" => forge[using].state = "done"
    BY <2>1 DEF Complete, Decided
  <2>4. Supported'
    BY <1>1, <1>2, <1>3, <1>5, <2>1, <2>3 DEF Supported, Llrs
  <2> QED
    BY <2>2, <2>4
<1>6. Earned'
  BY <1>1, <1>4, <1>5 DEF Earned, Full
<1>7. Waits' /\ pc' \in Reporting /\ pc' \notin Judging \cup {"log", "setup"}
  BY <1>4, NotInStep DEF Reporting, Judging
<1> QED
  BY <1>1, <1>4, <1>6, <1>7, JudgingStep DEF IInv, Typed, ScriptTyped, FilesTyped, records

-----------------------------------------------------------------------------
(* The ledger and the result commit. *)

LEMMA KeepsEarned ==
    ASSUME IInv, pc \in Reporting, pc' \in Reporting, UNCHANGED <<options, using, verdict, forge>>
    PROVE  Earned' /\ Waits' /\ pc' \notin Judging \cup {"log", "setup"}
<1>1. pc' \notin {"judge", "step", "stop"} /\ pc' \notin Judging \cup {"log", "setup"}
  BY DEF Reporting, Judging
<1> QED
  BY <1>1 DEF IInv, Place, Earned, Waits, Full, Supported, Complete, Decided

LEMMA BenchmarkOK == ASSUME IInv, Benchmark PROVE IInv'
<1>1. CASE Go("ledger")
  <2>1. pc \in Reporting /\ pc' \in Reporting /\ Evolves
    BY <1>1, EvolveNone DEF Benchmark, Go, Reporting
  <2>2. Earned' /\ Waits' /\ pc' \notin Judging \cup {"log", "setup"}
    BY <1>1, <2>1, KeepsEarned DEF Benchmark, Go
  <2> QED
    BY <1>1, <2>1, <2>2, JudgingStep
    DEF Benchmark, Go, IInv, Typed, ScriptTyped, FilesTyped, records
<1>2. CASE End("failed")
  BY <1>2, EvolveNone, EndStep DEF Benchmark
<1> QED
  BY <1>1, <1>2 DEF Benchmark

LEMMA AppendLedgerOK == ASSUME IInv, AppendLedger PROVE IInv'
<1>1. pc \in Reporting /\ pc' \in Reporting /\ Evolves
  BY EvolveNone DEF AppendLedger, Go, Reporting
<1>2. Earned' /\ Waits' /\ pc' \notin Judging \cup {"log", "setup"}
  BY <1>1, KeepsEarned DEF AppendLedger, Go
<1>3. net \in Candidates
  BY <1>1 DEF IInv, Place, AtPlace, Typed, FilesTyped
<1> QED
  BY <1>1, <1>2, <1>3, JudgingStep
  DEF AppendLedger, Go, IInv, Typed, ScriptTyped, FilesTyped

LEMMA CommitResultOK == ASSUME IInv, CommitResult PROVE IInv'
<1>1. CASE Go("finished") /\ committed' = (IF dirty THEN verdict ELSE committed) /\ dirty' = FALSE
  <2>1. pc \in Reporting /\ pc' \in Reporting /\ Evolves
    BY <1>1, EvolveNone DEF CommitResult, Go, Reporting
  <2>2. Earned' /\ Waits' /\ pc' \notin Judging \cup {"log", "setup"}
    BY <1>1, <2>1, KeepsEarned DEF CommitResult, Go
  <2> QED
    BY <1>1, <2>1, <2>2, JudgingStep
    DEF CommitResult, Go, IInv, Typed, ScriptTyped, FilesTyped
<1>2. CASE End("failed") /\ UNCHANGED <<committed, dirty>>
  BY <1>2, EvolveNone, EndStep DEF CommitResult, records
<1> QED
  BY <1>1, <1>2 DEF CommitResult

-----------------------------------------------------------------------------
(* Training and the gates. *)

LEMMA TrainOK == ASSUME IInv, Train PROVE IInv'
<1>1. /\ pc = "train" /\ ~Full /\ at = 1 /\ Evolves
      /\ UNCHANGED <<passed, log, printed, forge, records, starts, checked>>
  BY EvolveNone DEF Train, IInv, Place, AtPlace
<1>2. CASE End("failed") /\ net' \in Remains /\ UNCHANGED <<flaw, extended>>
  BY <1>1, <1>2, LossStep DEF Remains
<1>3. CASE ~Trains /\ Go("gate") /\ UNCHANGED <<net, flaw, extended>>
  <2>1. /\ pc' = "gate" /\ net # 0 /\ at' = 1
        /\ UNCHANGED <<options, at, using, seen, triaged, polls, verdict, artifacts>>
    BY <1>1, <1>3 DEF Go, Trains, artifacts
  <2>2. FilesTyped' /\ forge' \in Seq(Run)' /\ UNCHANGED RunIds
    BY <1>1, <2>1, TypedEvolve DEF IInv, Typed, FilesTyped, records
  <2>3. ScriptTyped'
    BY <2>1, <2>2 DEF ScriptTyped, IInv, Typed, Working
  <2>4. Files'
    BY <1>1, <2>1, FilesEvolve
  <2>5. Place'
    BY <1>1, <2>1, LabelFacts
    DEF Place, AtPlace, RunInHand, OwnRun, OwnLog, GatesBehind, Earned, Waits, Flawless, Judging,
        Reporting, Playing, Full, artifacts
  <2> QED
    BY <2>2, <2>3, <2>4, <2>5 DEF IInv, Typed
<1>4. CASE /\ Trains /\ Len(flaw) < MaxCandidates
           /\ \E f \in {None} \cup Range(Gates) : flaw' = Append(flaw, f)
           /\ net' = Len(flaw) + 1
           /\ extended' = FALSE
           /\ Go("gate")
  <2>1. /\ pc' = "gate" /\ at' = 1
        /\ UNCHANGED <<options, at, using, seen, triaged, polls, verdict>>
    BY <1>1, <1>4 DEF Go
  <2>2. PICK f \in {None} \cup Range(Gates) : flaw' = Append(flaw, f)
    BY <1>4
  <2>3. flaw \in Seq({None} \cup Range(Gates)) /\ Len(flaw) \in Nat
    BY LenProperties DEF IInv, Typed, FilesTyped
  <2>4. flaw' \in Seq({None} \cup Range(Gates)) /\ Len(flaw') = Len(flaw) + 1
    BY <2>2, <2>3, AppendProperties
  <2>5. Candidates \subseteq Candidates' /\ net' \in Candidates' /\ UNCHANGED RunIds
    BY <1>1, <1>4, <2>3, <2>4 DEF Candidates, RunIds
  <2>6. ScriptTyped'
    BY <2>1, <2>5 DEF ScriptTyped, IInv, Typed, Working
  <2>7. FilesTyped'
    <3>1. checked' \in [Range(Gates)' -> SUBSET Candidates'] /\ ledger' \subseteq Candidates'
      BY <1>1, <2>5 DEF IInv, Typed, FilesTyped, records
    <3>2. Len(flaw') <= MaxCandidates
      BY <1>4, <2>3, <2>4, LabelFacts
    <3> QED
      BY <1>1, <1>4, <2>4, <2>5, <3>1, <3>2 DEF IInv, Typed, FilesTyped, records
  <2>8. forge' \in Seq(Run)'
    <3>1. Run \subseteq Run'
      BY <2>5 DEF Run
    <3> QED
      BY <1>1, <3>1, SeqMonotonic DEF IInv, Typed
  <2>9. Files'
    <3>1. Len(flaw') # 0 /\ net' = Len(flaw')
      BY <1>4, <2>3, <2>4
    <3>2. Len(flaw') = 1 => Len(flaw) = 0 /\ passed' = {}
      BY <1>1, <2>3, <2>4 DEF IInv, Files, Nothing
    <3> QED
      BY <1>1, <3>1, <3>2
      DEF IInv, Files, Logs, Printed, PlayedOut, Newest, Nothing, Markers, Flags, Apart, RunIds,
      Complete, Decided
  <2>10. Place'
    <3>1. net' # 0 /\ at' <= Len(Gates)
      BY <1>4, <2>1, <2>3, LabelFacts
    <3> QED
      BY <1>1, <2>1, <3>1
      DEF Place, AtPlace, RunInHand, OwnRun, OwnLog, GatesBehind, Earned, Waits, Flawless,
          Judging,
          Reporting, Playing, Full
  <2> QED
    BY <2>6, <2>7, <2>8, <2>9, <2>10 DEF IInv, Typed
<1> QED
  BY <1>2, <1>3, <1>4 DEF Train

LEMMA FailGateOK == ASSUME IInv, FailGate PROVE IInv'
BY EvolveNone, EndStep DEF FailGate

LEMMA PassGateOK == ASSUME IInv, PassGate PROVE IInv'
<1> DEFINE g == Gates[at]
<1>1. /\ pc = "gate" /\ ~Full /\ at \in 1 .. Len(Gates) /\ at \in Nat /\ net # 0 /\ Evolves
      /\ UNCHANGED <<options, using, seen, triaged, polls, verdict>>
      /\ UNCHANGED <<net, flaw, extended, log, printed, forge, records, starts>>
  BY EvolveNone, LabelFacts, IndexFacts
  DEF PassGate, IInv, Place, AtPlace, Typed, ScriptTyped
<1>2. g \in Range(Gates)
  BY <1>1, LabelFacts DEF Range
<1>3. /\ Skips(g) \/ flaw[net] # g
      /\ passed' = passed \cup {g}
      /\ checked' = IF Skips(g) THEN checked ELSE [checked EXCEPT ![g] = @ \cup {net}]
  BY DEF PassGate, Fails
<1>4. \/ at < Len(Gates) /\ at' = at + 1 /\ pc' = "gate"
      \/ at = Len(Gates) /\ at' = 1 /\ pc' = "sprt"
  BY <1>1, LabelFacts DEF PassGate
<1>5. net \in Candidates /\ checked \in [Range(Gates) -> SUBSET Candidates]
  BY <1>1 DEF IInv, Typed, FilesTyped
<1>6. /\ checked' \in [Range(Gates) -> SUBSET Candidates]
      /\ \A h \in Range(Gates) : checked[h] \subseteq checked'[h]
      /\ ~Skips(g) => net \in checked'[g]
  BY <1>2, <1>3, <1>5
<1>7. UNCHANGED <<Candidates, RunIds, Run, Full, Forced>>
  BY <1>1 DEF Candidates, RunIds, Run, Full, Forced
<1>8. Typed'
  <2>1. ScriptTyped'
    <3>1. at' \in 1 .. Max({Len(Gates), Len(Labels)}) /\ pc' \in Working
      BY <1>1, <1>4, LabelFacts, IndexFacts DEF Working
    <3> QED
      BY <1>1, <1>7, <3>1 DEF ScriptTyped, IInv, Typed
  <2>2. FilesTyped'
    <3>1. passed' \subseteq Range(Gates)
      BY <1>2, <1>3 DEF IInv, Typed, FilesTyped
    <3> QED
      BY <1>1, <1>6, <1>7, <3>1 DEF FilesTyped, IInv, Typed, records
  <2> QED
    BY <1>1, <1>7, <2>1, <2>2 DEF Typed, IInv
<1>9. Len(flaw) = 1 => flaw[1] # g
  <2>1. Len(flaw) = 1 => net = 1
    BY <1>1 DEF IInv, Files, Newest
  <2> QED
    BY <1>3, <2>1 DEF Skips, IInv, Files, Markers
<1>10. Files'
  <2>1. Markers'
    BY <1>1, <1>3, <1>9 DEF Markers, IInv, Files
  <2>2. Nothing'
    BY <1>1, <1>5 DEF Nothing, Candidates
  <2> QED
    BY <1>1, <1>7, <2>1, <2>2
    DEF IInv, Files, Logs, Printed, PlayedOut, Newest, Flags, Apart, RunIds, Complete, Decided
<1>11. \A i \in 1 .. at : /\ Forced => net \in checked'[Gates[i]]
                          /\ Len(flaw) = 1 => flaw[1] # Gates[i]
  <2> SUFFICES ASSUME NEW i \in 1 .. at
               PROVE  /\ Forced => net \in checked'[Gates[i]]
                      /\ Len(flaw) = 1 => flaw[1] # Gates[i]
    OBVIOUS
  <2>1. CASE i = at
    BY <1>6, <1>9, <2>1 DEF Skips
  <2>2. CASE i # at
    <3>1. i \in 1 .. (at - 1) /\ Gates[i] \in Range(Gates)
      BY <1>1, <2>2, LabelFacts DEF Range
    <3>2. /\ Forced => net \in checked[Gates[i]]
          /\ Len(flaw) = 1 => flaw[1] # Gates[i]
      BY <1>1, <3>1 DEF IInv, Place, GatesBehind, Flawless
    <3> QED
      BY <1>6, <3>1, <3>2
  <2> QED
    BY <2>1, <2>2
<1>12. Place'
  <2>1. CASE at < Len(Gates) /\ at' = at + 1 /\ pc' = "gate"
    <3>1. at' - 1 = at /\ at' <= Len(Gates)
      BY <1>1, <2>1, LabelFacts
    <3> QED
      BY <1>1, <1>7, <1>11, <2>1, <3>1
      DEF Place, AtPlace, RunInHand, OwnRun, OwnLog, GatesBehind, Earned, Waits, Flawless,
          Judging,
          Reporting, Playing
  <2>2. CASE at = Len(Gates) /\ at' = 1 /\ pc' = "sprt"
    <3>1. \A h \in Range(Gates) : /\ Forced => net \in checked'[h]
                                  /\ Len(flaw) = 1 => flaw[1] # h
      BY <1>11, <2>2, LabelFacts DEF Range
    <3> QED
      BY <1>1, <1>7, <2>2, <3>1, LabelFacts
      DEF Place, AtPlace, RunInHand, OwnRun, OwnLog, GatesBehind, Earned, Waits, Flawless,
          Judging,
          Reporting, Playing
  <2> QED
    BY <1>4, <2>1, <2>2
<1> QED
  BY <1>8, <1>10, <1>12 DEF IInv

-----------------------------------------------------------------------------
(* The Forge run of an iteration. *)

LEMMA RefuseSprtOK == ASSUME IInv, RefuseSprt PROVE IInv'
BY EvolveNone, EndStep DEF RefuseSprt

LEMMA FindRunOK == ASSUME IInv, FindRun PROVE IInv'
<1>1. PICK named \in BOOLEAN, listed \in BOOLEAN :
        /\ pc = "sprt" /\ net # 0 /\ Found(named, listed) # 0
        /\ using' = Found(named, listed)
        /\ pc' = "wait"
        /\ UNCHANGED <<options, at, seen, triaged, polls, verdict>>
        /\ UNCHANGED <<artifacts, forge, records, starts, checked>>
  BY DEF FindRun
<1>2. /\ using' \in RunIds /\ using' # 0 /\ forge[using'].label = Label
      /\ ~Forced /\ Evolves
  BY <1>1, FoundFacts, EvolveNone
<1>3. FilesTyped' /\ forge' \in Seq(Run)' /\ UNCHANGED RunIds
  BY <1>1, <1>2, TypedEvolve DEF IInv, Typed, FilesTyped, records
<1>4. ScriptTyped'
  BY <1>1, <1>2, <1>3 DEF ScriptTyped, IInv, Typed, Working
<1>5. Files'
  BY <1>1, <1>2, FilesEvolve
<1>6. UNCHANGED <<Full, Forced, Label>>
  BY <1>1 DEF Full, Forced, Label
<1>7. Place'
  <2>1. AtPlace /\ GatesBehind /\ Flawless /\ UNCHANGED <<net, flaw>>
    BY <1>1 DEF IInv, Place, artifacts
  <2> QED
    BY <1>1, <1>2, <1>6, <2>1
    DEF Place, AtPlace, RunInHand, OwnRun, OwnLog, GatesBehind, Earned, Waits, Flawless, Judging,
        Reporting, Playing
<1> QED
  BY <1>3, <1>4, <1>5, <1>7 DEF IInv, Typed

LEMMA LogRunOK == ASSUME IInv, LogRun PROVE IInv'
<1>1. /\ pc = "log" /\ pc' = "setup" /\ pc \in Judging /\ Evolves
      /\ log' = [log EXCEPT ![Label] = using]
      /\ UNCHANGED <<options, at, using, seen, triaged, polls, verdict>>
      /\ UNCHANGED <<net, flaw, extended, passed, printed, forge, records, starts, checked>>
  BY EvolveNone DEF LogRun, Go, Judging
<1>2. Label \in AllLabels /\ using \in RunIds /\ forge[using].label = Label /\ ~printed[Label]
  BY <1>1, RunOfPlace, LabelIn DEF IInv, Place, RunInHand, OwnLog, Playing
<1>3. UNCHANGED <<Candidates, RunIds, Run, Full, Forced, Label>>
  BY <1>1 DEF Candidates, RunIds, Run, Full, Forced, Label
<1>4. Typed'
  BY <1>1, <1>2, <1>3 DEF IInv, Typed, ScriptTyped, FilesTyped, Working, records
<1>5. Files'
  <2>1. \A l \in AllLabels : log'[l] = IF l = Label THEN using ELSE log[l]
    BY <1>1, <1>2 DEF IInv, Typed, FilesTyped
  <2>2. Logs'
    BY <1>1, <1>2, <2>1 DEF Logs, IInv, Files
  <2>3. Printed'
    BY <1>1, <1>2, <2>1 DEF Printed, PlayedOut, IInv, Files
  <2> QED
    BY <1>1, <1>3, <2>2, <2>3
    DEF IInv, Files, Newest, Nothing, Markers, Flags, Apart, RunIds, Complete, Decided
<1>6. Place'
  <2>1. AtPlace /\ RunInHand /\ OwnRun /\ GatesBehind /\ Flawless
    BY DEF IInv, Place
  <2>2. log'[Label] = using
    BY <1>1, <1>2 DEF IInv, Typed, FilesTyped
  <2> QED
    BY <1>1, <1>3, <2>1, <2>2
    DEF Place, AtPlace, RunInHand, OwnRun, OwnLog, GatesBehind, Earned, Waits, Flawless, Judging,
        Reporting, Playing
<1> QED
  BY <1>4, <1>5, <1>6 DEF IInv

LEMMA LaunchOK == ASSUME IInv, Launch PROVE IInv'
<1>0. PICK named \in BOOLEAN, listed \in BOOLEAN :
        /\ pc = "sprt" /\ net # 0 /\ Found(named, listed) = 0
        /\ log' = [log EXCEPT ![Label] = 0]
        /\ printed' = [printed EXCEPT ![Label] = FALSE]
        /\ \/ /\ Len(forge) < MaxRuns
              /\ forge' = Append(forge, [candidate |-> net, label |-> Label, forced |-> Forced,
                                         blind |-> ~Forced /\ ~listed,
                                         state |-> "active", llr |-> "between",
                                         far |-> FALSE, bad |-> FALSE])
              /\ using' = Len(forge) + 1
              /\ pc' = "log"
              /\ UNCHANGED <<options, at, seen, triaged, polls, verdict>>
           \/ End("failed") /\ UNCHANGED forge
        /\ UNCHANGED <<net, flaw, extended, passed, records, starts, checked>>
  BY DEF Launch
<1>1. Label \in AllLabels
  BY <1>0, LabelIn DEF IInv, Place, Playing
<1>2. /\ \A l \in AllLabels : log'[l] = IF l = Label THEN 0 ELSE log[l]
      /\ \A l \in AllLabels : printed'[l] = (l # Label /\ printed[l])
      /\ printed' \in [AllLabels -> BOOLEAN]
  <2>1. log \in [AllLabels -> {0} \cup RunIds] /\ printed \in [AllLabels -> BOOLEAN]
    BY DEF IInv, Typed, FilesTyped
  <2>2. \A l \in AllLabels : log'[l] = IF l = Label THEN 0 ELSE log[l]
    BY <1>0, <2>1
  <2>3. \A l \in AllLabels : printed'[l] = (l # Label /\ printed[l])
    BY <1>0, <2>1
  <2>4. printed' \in [AllLabels -> BOOLEAN]
    BY <1>0, <2>1
  <2> QED
    BY <2>2, <2>3, <2>4
<1>3. log' \in [AllLabels -> {0} \cup RunIds]
  BY <1>0 DEF IInv, Typed, FilesTyped
<1>4. UNCHANGED Candidates /\ UNCHANGED Run
  BY <1>0 DEF Candidates, Run
<1>5. CASE End("failed") /\ UNCHANGED forge
  <2>1. ScriptTyped' /\ Place'
    BY <1>5, ScriptEnd
  <2>2. FilesTyped' /\ forge' \in Seq(Run)'
    BY <1>0, <1>2, <1>3, <1>4, <1>5 DEF FilesTyped, IInv, Typed, RunIds, records
  <2>3. Files'
    BY <1>0, <1>2, <1>5
    DEF IInv, Files, Logs, Printed, PlayedOut, Newest, Nothing, Markers, Flags, Apart, RunIds,
      Complete, Decided
  <2> QED
    BY <2>1, <2>2, <2>3 DEF IInv, Typed
<1>6. CASE /\ Len(forge) < MaxRuns
           /\ forge' = Append(forge, [candidate |-> net, label |-> Label, forced |-> Forced,
                                      blind |-> ~Forced /\ ~listed,
                                      state |-> "active", llr |-> "between",
                                      far |-> FALSE, bad |-> FALSE])
           /\ using' = Len(forge) + 1
           /\ pc' = "log"
           /\ UNCHANGED <<options, at, seen, triaged, polls, verdict>>
  <2> DEFINE n == Len(forge) + 1
             run == [candidate |-> net, label |-> Label, forced |-> Forced,
                     blind |-> ~Forced /\ ~listed, state |-> "active",
                     llr |-> "between", far |-> FALSE, bad |-> FALSE]
  <2>1. run \in Run
    BY <1>0, <1>1 DEF Run, Llrs, IInv, Typed, FilesTyped, Forced
  <2>2. forge \in Seq(Run) /\ Len(forge) \in Nat
    BY LenProperties DEF IInv, Typed
  <2>3. /\ forge' \in Seq(Run) /\ Len(forge') = n
        /\ \A r \in RunIds : forge'[r] = forge[r]
        /\ forge'[n] = run
    <3>1. forge' = Append(forge, run)
      BY <1>6
    <3> HIDE DEF run
    <3> QED
      BY <2>1, <2>2, <3>1, AppendProperties DEF RunIds
  <2>4. RunIds' = RunIds \cup {n} /\ RunIds = 1 .. Len(forge) /\ n \notin RunIds
    BY <2>2, <2>3 DEF RunIds
  <2>5. UNCHANGED <<Full, Forced, Label>>
    BY <1>6 DEF Full, Forced, Label
  <2>6. Typed'
    <3>1. ScriptTyped'
      BY <1>6, <2>4 DEF ScriptTyped, IInv, Typed, Working
    <3>2. FilesTyped'
      <4>1. log' \in [AllLabels -> {0} \cup RunIds']
        BY <1>3, <2>4
      <4> QED
        BY <1>0, <1>2, <1>4, <4>1 DEF FilesTyped, IInv, Typed, records
    <3> QED
      BY <1>4, <2>3, <3>1, <3>2 DEF Typed
  <2>7. Logs'
    <3> SUFFICES ASSUME NEW l \in AllLabels, log'[l] # 0
                 PROVE  forge'[log'[l]].label = l
      BY DEF Logs
    <3>1. log'[l] = log[l] /\ log[l] \in RunIds /\ forge[log[l]].label = l
      BY <1>2 DEF IInv, Files, Logs, Typed, FilesTyped
    <3> QED
      BY <2>3, <3>1
  <2>8. Flags'
    <3> SUFFICES ASSUME NEW r \in RunIds', forge'[r].bad PROVE forge'[r].far
      BY DEF Flags
    <3> QED
      BY <2>3, <2>4 DEF IInv, Files, Flags
  <2>9. Apart'
    <3> SUFFICES ASSUME NEW r1 \in RunIds', NEW r2 \in RunIds', r1 < r2,
                        forge'[r1].label = forge'[r2].label,
                        ~forge'[r2].forced, ~forge'[r2].blind
                 PROVE  Complete(forge'[r1])
      BY DEF Apart, Complete, Decided
    <3>1. r1 \in RunIds /\ forge'[r1] = forge[r1]
      BY <2>2, <2>3, <2>4
    <3>2. CASE r2 \in RunIds
      BY <2>3, <3>1, <3>2 DEF IInv, Files, Apart
    <3>3. CASE r2 = n
      <4>1. ~Forced /\ listed /\ forge[r1].label = Label
        <5>1. forge'[n] = run /\ run.label = Label /\ ~run.forced /\ ~run.blind
          BY <2>3, <3>3
        <5>2. ~Forced /\ ~(~Forced /\ ~listed)
          BY <5>1, Zenon
        <5> QED
          BY <3>1, <3>3, <5>1, <5>2
      <4>2. ASSUME Incomplete(Label) # {} PROVE FALSE
        <5>1. ~(named /\ log[Label] # 0)
          BY <1>0, <4>1 DEF Found
        <5>2. Max(Incomplete(Label)) = 0
          BY <1>0, <4>1, <4>2, <5>1 DEF Found
        <5>3. Incomplete(Label) \in SUBSET (1 .. Len(forge))
          BY DEF Incomplete, RunIds
        <5>4. Max(Incomplete(Label)) \in 1 .. Len(forge)
          BY <2>2, <4>2, <5>3, MaxIsMember
        <5> QED
          BY <5>2, <5>4
      <4> QED
        BY <3>1, <4>1, <4>2 DEF Incomplete
    <3> QED
      BY <2>4, <3>2, <3>3
  <2>10. Files'
    <3>1. Newest' /\ Nothing' /\ Markers'
      BY <1>0 DEF IInv, Files, Newest, Nothing, Markers
    <3>2. Printed'
      <4> SUFFICES ASSUME NEW l \in AllLabels, printed'[l]
                   PROVE  log'[l] # 0 /\ PlayedOut(forge'[log'[l]])
        BY DEF Printed, PlayedOut
      <4>1. log'[l] = log[l] /\ log[l] \in RunIds /\ log[l] # 0 /\ PlayedOut(forge[log[l]])
        BY <1>2 DEF IInv, Files, Printed, Typed, FilesTyped
      <4> QED
        BY <2>3, <4>1 DEF PlayedOut
    <3> QED
      BY <2>7, <2>8, <2>9, <3>1, <3>2 DEF Files
  <2>11. Place'
    <3>1. AtPlace /\ GatesBehind /\ Flawless
      BY DEF IInv, Place
    <3>2. AtPlace' /\ GatesBehind' /\ Flawless'
      BY <1>0, <1>6, <2>5, <3>1 DEF AtPlace, GatesBehind, Flawless, Playing, Judging
    <3>3. RunInHand' /\ OwnRun'
      BY <1>0, <1>6, <2>2, <2>3, <2>5 DEF RunInHand, OwnRun
    <3>4. Earned' /\ Waits'
      BY <1>6 DEF Earned, Waits, Reporting
    <3>5. OwnLog'
      BY <1>1, <1>2, <1>6, <2>5 DEF OwnLog
    <3> QED
      BY <3>2, <3>3, <3>4, <3>5 DEF Place
  <2> QED
    BY <2>6, <2>10, <2>11 DEF IInv
<1> QED
  BY <1>0, <1>5, <1>6

-----------------------------------------------------------------------------
(* The invariant, and what follows from it. *)

LEMMA ScriptOK == ASSUME IInv, Script PROVE IInv'
BY TrainOK, PassGateOK, FailGateOK, RefuseSprtOK, FindRunOK, LaunchOK, LogRunOK, CheckSetupOK,
   ReadResultOK, GiveUpUnreadOK, GiveUpHaltedOK, BeginPollingOK, RejectEarlyOK, StopEarlyOK,
   SleepOK, GiveUpWaitingOK, JudgeScreenOK, JudgeOK, BenchmarkOK, AppendLedgerOK, CommitResultOK
   DEF Script

LEMMA StutterOK == ASSUME IInv, UNCHANGED vars PROVE IInv'
BY EvolveNone, WorldStep DEF vars

LEMMA NextOK == IInv /\ [Next]_vars => IInv'
BY StartOK, CrashOK, ExtendOK, ForgeOK, ScriptOK, StutterOK DEF Next

\* The inductive invariant holds of every behaviour of the loop: ./nnue train, killed and
\* started again, with the operator and Forge taking any steps of their own.
THEOREM Invariance == Spec => []IInv
<1>1. Init => IInv
  BY InitOK
<1>2. IInv /\ [Next]_vars => IInv'
  BY NextOK
<1> QED
  BY <1>1, <1>2, PTL DEF Spec

\* Type correctness: every variable of the script (load_config, train), of its files and
\* of Forge keeps its type, whatever the number of gates, starts, candidates and runs.
THEOREM TypeCorrect == Spec => []TypeOK
<1>1. IInv => TypeOK
  BY TypedTypeOK DEF IInv
<1> QED
  BY <1>1, Invariance, PTL

\* FORCE=1 never reuses prior run artifacts (nnue:861-863, nnue:1413): the verdict of a
\* forced iteration is about the candidate it has trained, gated and played itself.
THEOREM ForcedIsFresh == Spec => []ForcedIterationIsFresh
<1>1. IInv => ForcedIterationIsFresh
  BY DEF IInv, Place, OwnRun, GatesBehind, ForcedIterationIsFresh, Finished, OwnGames, OwnGates,
         Reporting, Playing
<1> QED
  BY <1>1, Invariance, PTL

\* wait_for_existing_forge_sprt and sprt_gate commit the verdict Forge's games support,
\* however often the run was stopped, resumed and polled.
THEOREM VerdictsAreEarned == Spec => []VerdictMatchesGames
<1>1. IInv => VerdictMatchesGames
  BY DEF IInv, Place, Earned, Supported, VerdictMatchesGames, Finished, Reporting
<1> QED
  BY <1>1, Invariance, PTL

\* Until a second candidate is trained, the markers of gate_passed and the logs of
\* forge_run_from_log are its own: a finished iteration has a flawless candidate.
THEOREM FirstCandidateIsSound == Spec => []FirstCandidateEarnsIt
<1>1. ASSUME IInv, Finished, ~Full, Len(flaw) = 1
      PROVE  flaw[1] = None /\ OwnGames
  <2>1. flaw \in Seq({None} \cup Range(Gates)) /\ net = 1
    BY <1>1 DEF IInv, Typed, FilesTyped, Files, Newest, Place, AtPlace, Finished, Reporting
  <2>2. flaw[1] \in {None} \cup Range(Gates)
    BY <1>1, <2>1, ElementOfSeq
  <2>3. flaw[1] \notin Range(Gates)
    BY <1>1 DEF IInv, Place, Flawless, Finished, Playing, Reporting
  <2>4. forge[using] \in Run
    BY <1>1, RunOfPlace DEF Finished, Reporting
  <2>5. forge[using].candidate \in 1 .. 1
    BY <1>1, <2>4 DEF Run, Candidates
  <2> QED
    BY <2>1, <2>2, <2>3, <2>5 DEF OwnGames
<1>2. IInv => FirstCandidateEarnsIt
  BY <1>1 DEF FirstCandidateEarnsIt
<1> QED
  BY <1>2, Invariance, PTL

\* run_sprt_once takes up the run its predecessor launched, although Forge may give no
\* status of the run in the log: two runs of one label are played at the same time only
\* when FORCE=1 launched the second, or an iteration that could not read the list of the
\* active runs (nnue:871), of which nothing more is proved.
THEOREM OneRunIsPlayed == Spec => []OneRunAtATime
<1>1. IInv => OneRunAtATime
  BY DEF IInv, Files, Apart, OneRunAtATime, Played, Complete
<1> QED
  BY <1>1, Invariance, PTL

=============================================================================
