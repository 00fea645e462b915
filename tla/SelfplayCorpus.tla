--------------------------- MODULE SelfplayCorpus ---------------------------
(***************************************************************************)
(* The conversion of self-play games into corpora (selfplay_to_bullet.py   *)
(* and its two relatives, selfplay_to_bullet_sf_oracle.py and              *)
(* selfplay_to_bullet_tb.py).  Every invocation appends the shards it      *)
(* finds new to one output, under a file lock of that output, and notes    *)
(* them in a state file.  Invocations overlap, are killed at any point and *)
(* started again, and games go on arriving: a PGN may be read before the   *)
(* last of its games, or the first, is in it.  The code does not tell one  *)
(* that is still being written from one that is complete, and takes what   *)
(* it finds in it for the shard.                                           *)
(*                                                                         *)
(* Shards are numbers in the order of their file names.  A corpus is a     *)
(* sequence of [shard, mode, whole]: the records of a shard, labelled in a *)
(* mode, all of them or cut off.                                           *)
(***************************************************************************)
EXTENDS Naturals, Sequences, FiniteSets, FiniteSetsExt

CONSTANTS
    Procs,          \* invocations that may be under way together
    Outputs,        \* corpora, in one directory
    NumShards,
    Modes,          \* label modes
    MaxStarts,      \* bound on the invocations
    Scripts,        \* which script makes which output: functions from Outputs
    None,           \* no slice, no state, no owner
    Torn            \* a state file that cannot be read

ASSUME SelfplayAssumption ==
    /\ NumShards \in Nat /\ MaxStarts \in Nat
    /\ Scripts \subseteq [Outputs -> {"selfplay", "sf_oracle", "tb"}]
ASSUME NoneAssumption == None \notin Procs \cup Modes

Shards == 1..NumShards
Slices == {None, 0, 1}      \* of two
Args == [output : Outputs, mode : Modes, slice : Slices, reset : BOOLEAN]
\* What a state file says when it can be read.
States == [processed : SUBSET Shards, mode : Modes \cup {None}, slice : Slices, sliced : BOOLEAN]

ASSUME StateAssumption == States \cap {None, Torn} = {}

VARIABLES
    script,     \* which script makes which output
    pgns,       \* shards in the directory of games
    corpus,     \* per output
    state,      \* per output: the state file, None or Torn
    lock,       \* per output: who holds it
    chunks,     \* converted shards: the mode by the directory and the shard, or None
    pc, args,   \* per invocation
    todo,       \* its new shards that are not appended, taken in their order
    seen,       \* its copy of the state
    starts,
    bare,       \* history: <<output, shard>>, of which a conversion found nothing
    spoilt      \* history: outputs that met what the code does not guard against

files == <<pgns, corpus, state, chunks>>
history == <<bare, spoilt>>
vars == <<script, files, lock, pc, args, todo, seen, starts, history>>

Fresh == [processed |-> {}, mode |-> None, slice |-> None, sliced |-> FALSE]
Out(p) == args[p].output
\* selfplay_to_bullet.py has one directory of intermediates (.tmp), the others one for
\* each output.
Tmp(o) == IF script[o] = "selfplay" THEN None ELSE o
InHand(p) == Min(todo[p])
Chunk(p) == <<Tmp(Out(p)), InHand(p)>>

\* select_shards: every other one of the sorted files.
Selected(slice) ==
    {s \in pgns : slice = None \/ Cardinality({t \in pgns : t < s}) % 2 = slice}

\* An invocation ends: the lock goes with the process.
Leave(p) ==
    /\ pc' = [pc EXCEPT ![p] = "idle"]
    /\ lock' = [o \in Outputs |-> IF lock[o] = p THEN None ELSE lock[o]]
    /\ args' = [args EXCEPT ![p] = None]
    /\ todo' = [todo EXCEPT ![p] = {}]
    /\ seen' = [seen EXCEPT ![p] = Fresh]
    /\ UNCHANGED starts

Goto(p, label) == pc' = [pc EXCEPT ![p] = label]

---------------------------------------------------------------------------
Arrive(s) ==
    /\ s \notin pgns /\ pgns' = pgns \cup {s}
    /\ UNCHANGED <<script, corpus, state, lock, chunks, pc, args, todo, seen, starts, history>>

Start(p) ==
    /\ pc[p] = "idle" /\ starts < MaxStarts
    /\ starts' = starts + 1
    /\ \E a \in Args : args' = [args EXCEPT ![p] = a]
    /\ Goto(p, "lock")
    /\ UNCHANGED <<script, files, lock, todo, seen, history>>

\* Mutant: nobody waits for the lock.
LockAny(p) ==
    /\ pc[p] = "lock"
    /\ lock' = [lock EXCEPT ![Out(p)] = p]
    /\ Goto(p, IF args[p].reset THEN "reset state" ELSE "select")
    /\ UNCHANGED <<script, files, args, todo, seen, starts, history>>
Lock(p) ==
    /\ pc[p] = "lock" /\ lock[Out(p)] = None
    /\ lock' = [lock EXCEPT ![Out(p)] = p]
    /\ Goto(p, IF args[p].reset THEN "reset state" ELSE "select")
    /\ UNCHANGED <<script, files, args, todo, seen, starts, history>>

\* Mutant: the state file is left behind.
KeepState(p) ==
    /\ pc[p] = "reset state"
    /\ Goto(p, "reset corpus")
    /\ UNCHANGED <<script, files, lock, args, todo, seen, starts, history>>
\* --reset removes the state before the corpus.
ResetState(p) ==
    /\ pc[p] = "reset state"
    /\ state' = [state EXCEPT ![Out(p)] = None]
    /\ Goto(p, "reset corpus")
    /\ UNCHANGED <<script, pgns, corpus, lock, chunks, args, todo, seen, starts,
                   history>>

ResetCorpus(p) ==
    /\ pc[p] = "reset corpus"
    /\ corpus' = [corpus EXCEPT ![Out(p)] = <<>>]
    /\ spoilt' = spoilt \ {Out(p)}
    /\ bare' = {x \in bare : x[1] # Out(p)}
    /\ Goto(p, "select")
    /\ UNCHANGED <<script, pgns, state, lock, chunks, args, todo, seen, starts>>

\* A state that cannot be read ends the invocation, and so does another slice or label
\* mode where the script notes it.
SliceChanged(st, slice) ==
    IF st.sliced THEN st.slice # slice ELSE st.processed # {} /\ slice # None
Refuses(st, a) ==
    \/ script[a.output] = "selfplay" /\ st.mode \notin {None, a.mode}
    \/ script[a.output] # "tb" /\ SliceChanged(st, a.slice)
Noted(st, a) ==
    CASE script[a.output] = "selfplay" -> [st EXCEPT !.mode = a.mode, !.slice = a.slice, !.sliced = TRUE]
      [] script[a.output] = "sf_oracle" -> [st EXCEPT !.slice = a.slice, !.sliced = TRUE]
      [] OTHER -> st

\* The new shards an invocation may take: without a slice a range of the sorted files
\* (--shard-range) can be asked for, except in _tb, and a number of them
\* (--limit-shards), except in selfplay_to_bullet.py.
NewShards(st, a) ==
    LET ranges == IF a.slice # None \/ script[a.output] = "tb" THEN {Shards}
                  ELSE {i..j : i \in Shards, j \in 0..NumShards}
        new == {(Selected(a.slice) \cap r) \ st.processed : r \in ranges}
    IN  IF script[a.output] = "selfplay" THEN new
        ELSE UNION {IF n = {} THEN {n} ELSE {{s \in n : s <= m} : m \in n} : n \in new}

Select(p) ==
    /\ pc[p] = "select"
    /\ LET st == IF state[Out(p)] = None THEN Fresh ELSE state[Out(p)]
       IN  IF state[Out(p)] = Torn \/ Refuses(st, args[p])
           THEN Leave(p)
           ELSE \E new \in NewShards(st, args[p]) :
                   IF new = {} THEN Leave(p)
                   ELSE /\ todo' = [todo EXCEPT ![p] = new]
                        /\ seen' = [seen EXCEPT ![p] = Noted(st, args[p])]
                        /\ Goto(p, "convert")
                        /\ UNCHANGED <<lock, args, starts>>
    /\ UNCHANGED <<script, files, history>>

\* convert_shard; the intermediates are named after the shard.  Nothing is found in a PGN
\* of size zero, and in _tb in one without a game or a tablebase position; what a killed
\* invocation left of the shard is then removed, and in _tb taken for its chunk.
Convert(p) ==
    /\ pc[p] = "convert"
    /\ LET s == InHand(p)
           others == {q \in Procs \ {p} : /\ pc[q] \in {"convert", "append"} /\ InHand(q) = s
                                          /\ Tmp(Out(q)) = Tmp(Out(p))}
       IN  /\ \/ /\ chunks' = [chunks EXCEPT ![Chunk(p)] = args[p].mode]
                 /\ Goto(p, "append") /\ UNCHANGED bare
              \/ /\ chunks' = IF script[Out(p)] = "tb" THEN chunks
                              ELSE [chunks EXCEPT ![Chunk(p)] = None]
                 /\ Goto(p, IF chunks'[Chunk(p)] = None THEN "save" ELSE "append")
                 /\ bare' = bare \cup {<<Out(p), s>>}
           /\ spoilt' = IF others = {} THEN spoilt ELSE spoilt \cup {Out(q) : q \in others \cup {p}}
    /\ UNCHANGED <<script, pgns, corpus, state, lock, args, todo, seen, starts>>

\* A step of the conversion fails, or the directory of the intermediates cannot be
\* removed at the end because another output uses it.
Fail(p) ==
    /\ pc[p] = "convert" \/ (pc[p] = "finish" /\ script[Out(p)] = "selfplay")
    /\ Leave(p)
    /\ UNCHANGED <<script, files, history>>

Records(p, whole) == [shard |-> InHand(p), mode |-> chunks[Chunk(p)], whole |-> whole]
AppendChunk(p) ==
    /\ pc[p] = "append"
    /\ IF chunks[Chunk(p)] = None
       THEN Leave(p) /\ UNCHANGED <<corpus, chunks>>
       ELSE /\ corpus' = [corpus EXCEPT ![Out(p)] = Append(@, Records(p, TRUE))]
            /\ chunks' = [chunks EXCEPT ![Chunk(p)] = None]
            /\ Goto(p, "save")
            /\ UNCHANGED <<lock, args, todo, seen, starts>>
    /\ UNCHANGED <<script, pgns, state, history>>

Saved(p) == [seen[p] EXCEPT !.processed = @ \cup {InHand(p)}]
SaveState(p) ==
    /\ pc[p] = "save"
    /\ state' = [state EXCEPT ![Out(p)] = Saved(p)]
    /\ seen' = [seen EXCEPT ![p] = Saved(p)]
    /\ todo' = [todo EXCEPT ![p] = @ \ {InHand(p)}]
    /\ Goto(p, IF todo[p] = {InHand(p)} THEN "finish" ELSE "convert")
    /\ UNCHANGED <<script, pgns, corpus, lock, chunks, args, starts, history>>

Finish(p) ==
    /\ pc[p] = "finish"
    /\ Leave(p)
    /\ UNCHANGED <<script, files, history>>

HasRecords(o, s) == \E i \in 1..Len(corpus[o]) : corpus[o][i].shard = s

\* A kill: within the append a part of the records may be in the corpus, within the
\* save the state file may be cut off.  A corpus that is ahead of its state, or whose
\* state is gone, is spoilt.
Kill(p) ==
    /\ pc[p] # "idle"
    /\ corpus' \in {corpus} \cup
          (IF pc[p] = "append" /\ chunks[Chunk(p)] # None
           THEN {[corpus EXCEPT ![Out(p)] = Append(@, Records(p, whole))] : whole \in BOOLEAN} ELSE {})
    /\ state' \in {state} \cup
          (IF pc[p] = "save" THEN {[state EXCEPT ![Out(p)] = Torn]} ELSE {})
    /\ spoilt' = IF \/ corpus' # corpus \/ state' # state
                    \/ pc[p] = "save" /\ HasRecords(Out(p), InHand(p))
                    \/ pc[p] = "reset corpus" /\ corpus[Out(p)] # <<>>
                 THEN spoilt \cup {Out(p)} ELSE spoilt
    /\ Leave(p)
    /\ UNCHANGED <<script, pgns, chunks, bare>>

---------------------------------------------------------------------------
Init ==
    /\ script \in Scripts
    /\ pgns \in SUBSET Shards
    /\ corpus = [o \in Outputs |-> <<>>]
    /\ state = [o \in Outputs |-> None]
    /\ lock = [o \in Outputs |-> None]
    /\ chunks = [d \in (Outputs \cup {None}) \X Shards |-> None]
    /\ pc = [p \in Procs |-> "idle"]
    /\ args = [p \in Procs |-> None]
    /\ todo = [p \in Procs |-> {}]
    /\ seen = [p \in Procs |-> Fresh]
    /\ starts = 0 /\ bare = {} /\ spoilt = {}

Step(p) ==
    \/ Lock(p) \/ ResetState(p) \/ ResetCorpus(p) \/ Select(p) \/ Convert(p) \/ Fail(p)
    \/ AppendChunk(p) \/ SaveState(p) \/ Finish(p)
Next ==
    \/ \E s \in Shards : Arrive(s)
    \/ \E p \in Procs : Start(p) \/ Step(p) \/ Kill(p)
Spec == Init /\ [][Next]_vars

---------------------------------------------------------------------------
Copies(o, s) == Cardinality({i \in 1..Len(corpus[o]) : corpus[o][i].shard = s})
Readable(o) == state[o] # None /\ state[o] # Torn

\* Whatever is killed, overlaps or fails: what was found of a shard the state file calls
\* processed is in the corpus, so no later invocation leaves it out.  A shard in which a
\* conversion found nothing is processed for good, whatever games it gets.
Bare(o) == {x[2] : x \in {x \in bare : x[1] = o}}
ProcessedIsAppended ==
    \A o \in Outputs : Readable(o) =>
        \A s \in state[o].processed \ Bare(o) :
            \E i \in 1..Len(corpus[o]) : corpus[o][i].shard = s /\ corpus[o][i].whole

\* A corpus has every shard once and the whole of its chunk, and nothing its state does
\* not name but the shard in hand; one of selfplay_to_bullet.py is in one label mode,
\* which the other scripts do not note.  Excepted are corpora to which one of two things
\* has happened since they were begun: a kill between the append and the state file or
\* between the two removals of a reset, or two outputs that converted one shard at once in
\* the directory they share.
ShardsOnce ==
    \A o \in Outputs \ spoilt :
        LET inHand == {InHand(p) : p \in {p \in Procs : lock[o] = p /\ pc[p] = "save"}}
            known == (IF Readable(o) THEN state[o].processed ELSE {}) \cup inHand
        IN  /\ \A s \in Shards : Copies(o, s) <= 1
            /\ script[o] = "selfplay" =>
                  \A i, j \in 1..Len(corpus[o]) : corpus[o][i].mode = corpus[o][j].mode
            /\ \A i \in 1..Len(corpus[o]) : corpus[o][i].whole
            /\ (\A p \in Procs : lock[o] = p => pc[p] # "reset corpus") =>
                  {corpus[o][i].shard : i \in 1..Len(corpus[o])} \subseteq known

=============================================================================
