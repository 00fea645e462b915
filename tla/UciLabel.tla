------------------------------ MODULE UciLabel ------------------------------
(***************************************************************************)
(* One labelling task and its UCI engine (label_with_uci.py, label.py).    *)
(*                                                                         *)
(* The engine is a process that takes commands and writes lines; a reader  *)
(* thread puts its lines into a queue the task takes them from.  When a    *)
(* search times out the task closes the engine and starts another.  The    *)
(* reader of the closed one is not joined, and as it looks the queue up    *)
(* for every line, what it has not delivered yet goes to the new queue.    *)
(*                                                                         *)
(* The engine may be slow, hang or die at any moment; nothing is assumed   *)
(* of it.  A line is a record [kind, of, net]: the row it is about (0 for  *)
(* none) and whether the process that wrote it had loaded its net.         *)
(***************************************************************************)
EXTENDS Naturals, Sequences, SequencesExt

CONSTANTS
    NumRows,        \* rows of the task
    MaxAttempts     \* starts of one restart

ASSUME UciAssumption == NumRows \in Nat \ {0} /\ MaxAttempts \in Nat \ {0}

VARIABLES
    engine,     \* how it reports its net: "eager", "lazy" at the first use, "plain" when none is asked for
    static,     \* rows are evaluated, not searched
    pc,         \* what the task waits for, or "next", "done", "failed"
    row,        \* the row in hand
    attempt,    \* start within a restart, 0 for the first engine of the task
    score,      \* the last score line of the search in hand
    answers,    \* what became of each row
    alive,      \* the process runs
    loaded,     \* it has its net
    inbox,      \* commands it has not answered
    pipe,       \* lines its reader has not delivered
    late,       \* lines the reader of the closed engine has not delivered
    queue

task == <<pc, row, attempt, score, answers>>
process == <<alive, loaded, inbox, pipe>>
setting == <<engine, static>>
vars == <<setting, task, process, late, queue>>

Rows == 1..NumRows
Line(kind, of) == [kind |-> kind, of |-> of, net |-> loaded]
End == [kind |-> "end", of |-> 0, net |-> FALSE]
NoScore == [kind |-> "none", of |-> 0, net |-> FALSE]
Waiting == {"uciok", "ready", "readyok", "probe", "label"}

\* What the engine writes for a command; the report on its net comes with the first
\* command that needs it.
Report == IF engine = "plain" THEN <<>>
          ELSE IF loaded THEN <<Line("confirm", 0)>> ELSE <<Line("refuse", 0)>>
Reply(command) ==
    CASE command.kind = "uci" -> <<Line("uciok", 0)>>
      [] command.kind = "isready" ->
            (IF engine = "eager" THEN Report ELSE <<>>) \o <<Line("readyok", 0)>>
      [] command.kind = "eval" ->
            (IF command.of = 0 THEN Report ELSE <<>>) \o <<Line("eval", command.of)>>
      [] command.kind = "go" -> <<Line("score", command.of), Line("bestmove", command.of)>>
Replies(n) == FlattenSeq([i \in 1..n |-> Reply(inbox[i])])

\* close: the engine may still answer before it quits or is killed.
LastWords ==
    IF ~alive THEN {pipe}
    ELSE {pipe \o Replies(n) \o <<End>> : n \in 0..Len(inbox)}

\* A new process with a new queue; "uci" is its first command.
Spawn ==
    /\ alive' = TRUE
    /\ loaded' \in BOOLEAN
    /\ inbox' = <<[kind |-> "uci", of |-> 0]>>
    /\ pipe' = <<>> /\ queue' = <<>>
    /\ score' = NoScore

---------------------------------------------------------------------------
\* The engine and the readers

Answer ==
    /\ alive /\ inbox # <<>>
    \* The lines of a closed engine are in the queue by the time the next one is ready:
    \* its reader has nothing else to do while the task waits for the handshake.
    /\ Head(inbox).kind = "isready" => late = <<>>
    /\ pipe' = pipe \o Reply(Head(inbox))
    /\ inbox' = Tail(inbox)
    /\ UNCHANGED <<setting, task, alive, loaded, late, queue>>

Die ==
    /\ alive
    /\ alive' = FALSE /\ inbox' = <<>>
    /\ pipe' = Append(pipe, End)
    /\ UNCHANGED <<setting, task, loaded, late, queue>>

ReadStdout ==
    \/ /\ pipe # <<>>
       /\ queue' = Append(queue, Head(pipe)) /\ pipe' = Tail(pipe)
       /\ UNCHANGED <<setting, task, alive, loaded, inbox, late>>
    \/ /\ late # <<>>
       /\ queue' = Append(queue, Head(late)) /\ late' = Tail(late)
       /\ UNCHANGED <<setting, task, process>>

---------------------------------------------------------------------------
\* The task

\* An attempt to start has failed: another one after a pause, in which the readers of
\* the closed engines come to their end, or the task fails.
StartFailed ==
    /\ late' = <<>>
    /\ IF attempt \in 1..(MaxAttempts - 1)
       THEN /\ Spawn
            /\ attempt' = attempt + 1 /\ pc' = "uciok"
            /\ UNCHANGED <<setting, row, answers>>
       ELSE /\ pc' = "failed"
            /\ alive' = FALSE /\ inbox' = <<>> /\ pipe' = <<>> /\ queue' = <<>>
            /\ UNCHANGED <<setting, row, attempt, score, answers, loaded>>

\* label and static_eval send the row in hand; a dead engine raises.
NextRow ==
    /\ pc = "next"
    /\ IF row = NumRows
       THEN /\ pc' = "done"
            /\ alive' = FALSE /\ inbox' = <<>> /\ pipe' = <<>> /\ queue' = <<>> /\ late' = <<>>
            /\ UNCHANGED <<setting, row, attempt, score, answers, loaded>>
       ELSE /\ row' = row + 1 /\ score' = NoScore
            /\ pc' = IF alive THEN "label" ELSE "failed"
            /\ inbox' = IF alive
                        THEN Append(inbox, [kind |-> IF static THEN "eval" ELSE "go", of |-> row + 1])
                        ELSE inbox
            /\ UNCHANGED <<setting, attempt, answers, alive, loaded, pipe, late, queue>>

\* Send a command of the handshake, or fail on a dead engine.
Proceed(next, commands) ==
    IF alive \/ commands = <<>>
    THEN /\ pc' = next
         /\ inbox' = inbox \o commands /\ queue' = Tail(queue)
         /\ UNCHANGED <<setting, row, attempt, score, answers, alive, loaded, pipe, late>>
    ELSE StartFailed

Skip == queue' = Tail(queue) /\ UNCHANGED <<setting, task, process, late>>

\* wait_for and _verify_net_loaded: one line of the handshake.
HandshakeLine ==
    /\ pc \in Waiting \ {"label"} /\ queue # <<>>
    /\ LET line == Head(queue)
       IN  CASE line.kind = "end" -> StartFailed
             [] pc = "uciok" /\ line.kind = "uciok" ->
                    Proceed(IF engine = "plain" THEN "readyok" ELSE "ready",
                            <<[kind |-> "isready", of |-> 0]>>)
             [] pc \in {"ready", "probe"} /\ line.kind = "refuse" -> StartFailed
             [] pc = "ready" /\ line.kind = "confirm" -> Proceed("readyok", <<>>)
             [] pc = "ready" /\ line.kind = "readyok" -> Proceed("probe", <<[kind |-> "eval", of |-> 0]>>)
             [] pc = "readyok" /\ line.kind = "readyok" -> Proceed("next", <<>>)
             [] pc = "probe" /\ line.kind = "confirm" -> Proceed("next", <<>>)
             [] OTHER -> Skip

\* label and static_eval: one line of the answer.
LabelLine ==
    /\ pc = "label" /\ queue # <<>>
    /\ LET line == Head(queue)
           answered(answer) ==
               /\ answers' = [answers EXCEPT ![row] = answer]
               /\ pc' = "next" /\ queue' = Tail(queue)
               /\ UNCHANGED <<setting, row, attempt, score, process, late>>
       IN  CASE line.kind = "end" ->
                    /\ pc' = "failed"
                    /\ UNCHANGED <<setting, row, attempt, score, answers, process, late, queue>>
             [] ~static /\ line.kind = "score" ->
                    /\ score' = line /\ queue' = Tail(queue)
                    /\ UNCHANGED <<setting, pc, row, attempt, answers, process, late>>
             [] ~static /\ line.kind = "bestmove" -> answered(score)
             [] static /\ line.kind = "eval" -> answered(line)
             [] OTHER -> Skip

\* Mutant: the probe of the net has no deadline.
TimeoutBeforeProbe == pc \in Waiting \ {"label", "probe"} /\ StartFailed
HandshakeTimeout == pc \in Waiting \ {"label"} /\ StartFailed

\* Mutant: the row is given up and the engine kept.
TimeoutKeepsEngine ==
    /\ pc = "label"
    /\ pc' = "next"
    /\ UNCHANGED <<setting, row, attempt, score, answers, process, late, queue>>
\* The row is given up and the engine restarted, the first time without a pause.
LabelTimeout ==
    /\ pc = "label"
    /\ pc' = "uciok" /\ attempt' = 1
    /\ \E words \in LastWords : late' \in Suffixes(late \o words)
    /\ Spawn
    /\ UNCHANGED <<setting, row, answers>>

---------------------------------------------------------------------------
Init ==
    /\ engine \in {"eager", "lazy", "plain"} /\ static \in BOOLEAN
    /\ pc = "uciok" /\ row = 0 /\ attempt = 0 /\ score = NoScore
    /\ answers = [r \in Rows |-> NoScore]
    /\ alive = TRUE /\ loaded \in BOOLEAN
    /\ inbox = <<[kind |-> "uci", of |-> 0]>>
    /\ pipe = <<>> /\ late = <<>> /\ queue = <<>>

Task == NextRow \/ HandshakeLine \/ LabelLine \/ HandshakeTimeout \/ LabelTimeout
Next == Task \/ Answer \/ Die \/ ReadStdout

Spec == Init /\ [][Next]_vars
\* The task goes on; of the engine and the readers nothing is asked.
FairSpec == Spec /\ WF_vars(Task)

---------------------------------------------------------------------------
\* A row keeps a score only from the search of its own position by an engine that had
\* loaded the net, over late answers, readers of closed engines and restarts.  Static
\* evaluation is excepted for an engine that reports its net at the first evaluation:
\* the answer to the probe of _verify_net_loaded is left in the queue, and every row
\* gets the evaluation asked for before it.
AnswersAreOwn ==
    \A r \in Rows :
        answers[r] # NoScore /\ ~(static /\ engine = "lazy") =>
            /\ answers[r].of = r
            /\ engine # "plain" => answers[r].net

\* The task comes to its end whatever the engine does, as every wait has its deadline
\* and every restart its attempts.
TaskEnds == <>(pc \in {"done", "failed"})

=============================================================================
