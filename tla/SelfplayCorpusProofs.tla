------------------------ MODULE SelfplayCorpusProofs ------------------------
(***************************************************************************)
(* Proofs about SelfplayCorpus for any number of processes, outputs,       *)
(* shards, label modes and starts, and any mixture of the three scripts.   *)
(***************************************************************************)
EXTENDS SelfplayCorpus, SequenceTheorems, FiniteSetTheorems, WellFoundedInduction, TLAPS

-----------------------------------------------------------------------------
(* The inductive invariant. *)

Busy == {"convert", "append", "save"}
Holding == Busy \cup {"reset state", "reset corpus", "select", "finish"}

\* The shards that are whole in each corpus, or of which nothing was found.
WholeIn(c) == {c[i].shard : i \in {i \in 1..Len(c) : c[i].whole}}
Kept == [o \in Outputs |-> WholeIn(corpus[o]) \cup Bare(o)]

IsState(st) ==
    st = [processed |-> st.processed, mode |-> st.mode, slice |-> st.slice, sliced |-> st.sliced]

\* What the variables are, as far as the argument needs it.
Shape ==
    /\ pc \in [Procs -> Holding \cup {"idle", "lock"}]
    /\ DOMAIN args = Procs /\ \A p \in Procs : pc[p] # "idle" => args[p] \in Args
    /\ DOMAIN todo = Procs
    /\ DOMAIN seen = Procs /\ \A p \in Procs : IsState(seen[p])
    /\ DOMAIN state = Outputs /\ \A o \in Outputs : Readable(o) => IsState(state[o])
    /\ DOMAIN lock = Outputs
    /\ DOMAIN corpus = Outputs /\ \A o \in Outputs : \E S : corpus[o] \in Seq(S)

\* Whoever works on an output holds its lock.
LockOK == \A p \in Procs : pc[p] \in Holding => lock[Out(p)] = p

\* A reset that has come to the corpus has removed the state.
ResetOK == \A p \in Procs : pc[p] = "reset corpus" => state[Out(p)] = None

\* What an invocation believes processed is in the corpus, and so is the shard it is
\* about to note.
SeenOK ==
    \A p \in Procs :
        /\ pc[p] \in Busy => seen[p].processed \subseteq Kept[Out(p)]
        /\ pc[p] = "save" => InHand(p) \in Kept[Out(p)]

\* What the state file calls processed is in the corpus.
NotedOK == \A o \in Outputs : Readable(o) => state[o].processed \subseteq Kept[o]

IInv == Shape /\ LockOK /\ ResetOK /\ SeenOK /\ NotedOK

-----------------------------------------------------------------------------
(* What keeps a corpus that is not spoilt free of copies. *)

\* The types, and that no shard in hand has been noted.
Typed ==
    /\ pgns \subseteq Shards
    /\ DOMAIN chunks = (Outputs \cup {None}) \X Shards
    /\ \A p \in Procs : seen[p] \in States
    /\ \A p \in Procs : pc[p] \in Busy =>
          todo[p] \in (SUBSET Shards) \ {{}} /\ todo[p] \cap seen[p].processed = {}
    /\ \A o \in Outputs : state[o] \in States \cup {None, Torn}

\* A lock belongs to an invocation that works on its output.
Locked == \A o \in Outputs, p \in Procs : lock[o] = p => pc[p] \in Holding /\ Out(p) = o

\* selfplay_to_bullet.py notes the label mode, and goes on in the one that was noted.
ModesNoted ==
    /\ \A o \in Outputs : script[o] = "selfplay" /\ Readable(o) => state[o].mode \in Modes
    /\ \A p \in Procs : pc[p] \in Busy /\ script[Out(p)] = "selfplay" =>
          /\ seen[p].mode = args[p].mode
          /\ Readable(Out(p)) => state[Out(p)].mode = args[p].mode

\* Whoever is about to append has a chunk of its own, in its own label mode, or else its
\* output is spoilt.
ChunkOwned ==
    \A p \in Procs : pc[p] = "append" =>
        /\ Out(p) \notin spoilt /\ script[Out(p)] = "selfplay" =>
               chunks[Chunk(p)] = args[p].mode
        /\ \A q \in Procs \ {p} : pc[q] = "append" /\ Chunk(q) = Chunk(p) => Out(p) \in spoilt

\* A corpus: each shard at most once, whole and in the one label mode; noted in the state
\* or in the hand of the invocation that is about to note it; and known to the one that is
\* going to append more.
Indices(o) == 1..Len(corpus[o])
OnceEach(o) == \A i, j \in Indices(o) : corpus[o][i].shard = corpus[o][j].shard => i = j
AllWhole(o) == \A i \in Indices(o) : corpus[o][i].whole /\ corpus[o][i].shard \in Shards
OneMode(o) ==
    script[o] = "selfplay" =>
        /\ \A i, j \in Indices(o) : corpus[o][i].mode = corpus[o][j].mode
        /\ Readable(o) => \A i \in Indices(o) : corpus[o][i].mode = state[o].mode
        /\ \A p \in Procs : lock[o] = p /\ pc[p] \in Busy =>
              \A i \in Indices(o) : corpus[o][i].mode = args[p].mode
InHandAt(o, s) == \E p \in Procs : lock[o] = p /\ pc[p] = "save" /\ s = InHand(p)
AllNoted(o) ==
    (\A p \in Procs : lock[o] = p => pc[p] # "reset corpus") =>
        \A i \in Indices(o) :
            \/ Readable(o) /\ corpus[o][i].shard \in state[o].processed
            \/ InHandAt(o, corpus[o][i].shard)
AllSeen(o) ==
    \A p \in Procs : lock[o] = p /\ pc[p] \in Busy =>
        \A i \in Indices(o) :
            \/ corpus[o][i].shard \in seen[p].processed
            \/ pc[p] = "save" /\ corpus[o][i].shard = InHand(p)
Clean(o) == OnceEach(o) /\ AllWhole(o) /\ OneMode(o) /\ AllNoted(o) /\ AllSeen(o)

OInv == Typed /\ Locked /\ ModesNoted /\ ChunkOwned /\ \A o \in Outputs \ spoilt : Clean(o)

-----------------------------------------------------------------------------
(* Facts about the data. *)

LEMMA AppendFacts ==
    ASSUME NEW S, NEW c \in Seq(S), NEW e
    PROVE  /\ \E T : Append(c, e) \in Seq(T)
           /\ WholeIn(c) \subseteq WholeIn(Append(c, e))
           /\ e.whole => e.shard \in WholeIn(Append(c, e))
<1> DEFINE T == S \cup {e}
<1>1. c \in Seq(T) /\ e \in T
  OBVIOUS
<1>2. Append(c, e) \in Seq(T)
  BY <1>1
<1>3. /\ Len(c) \in Nat
      /\ Len(Append(c, e)) = Len(c) + 1
      /\ \A i \in 1..Len(c) : Append(c, e)[i] = c[i]
      /\ Append(c, e)[Len(c) + 1] = e
  BY <1>1, AppendProperties
<1> QED
  BY <1>2, <1>3 DEF WholeIn

LEMMA OutIsOutput ==
    ASSUME Shape, NEW p \in Procs, pc[p] # "idle"
    PROVE  args[p].output \in Outputs
BY DEF Shape, Args

\* Records added to one corpus leave what is whole in any of them.
LEMMA AppendKeeps ==
    ASSUME Shape, NEW o \in Outputs, NEW e, corpus' = [corpus EXCEPT ![o] = Append(@, e)],
           UNCHANGED bare
    PROVE  /\ DOMAIN corpus' = Outputs
           /\ \A q \in Outputs : \E T : corpus'[q] \in Seq(T)
           /\ \A q \in Outputs : Kept[q] \subseteq Kept'[q]
           /\ e.whole => e.shard \in Kept'[o]
<1>1. PICK S : corpus[o] \in Seq(S)
  BY DEF Shape
<1>2. corpus'[o] = Append(corpus[o], e) /\ \A q \in Outputs \ {o} : corpus'[q] = corpus[q]
  BY DEF Shape
<1>3. /\ \E T : corpus'[o] \in Seq(T)
      /\ WholeIn(corpus[o]) \subseteq WholeIn(corpus'[o])
      /\ e.whole => e.shard \in WholeIn(corpus'[o])
  <2> DEFINE c == corpus[o]
  <2>1. c \in Seq(S) /\ corpus'[o] = Append(c, e)
    BY <1>1, <1>2
  <2> HIDE DEF c
  <2>2. /\ \E T : Append(c, e) \in Seq(T)
        /\ WholeIn(c) \subseteq WholeIn(Append(c, e))
        /\ e.whole => e.shard \in WholeIn(Append(c, e))
    BY <2>1, AppendFacts
  <2>3. corpus[o] = c
    BY DEF c
  <2> QED
    BY <2>1, <2>2, <2>3
<1>4. \A q \in Outputs : \E T : corpus'[q] \in Seq(T)
  BY <1>2, <1>3 DEF Shape
<1>5. \A q \in Outputs : /\ Kept[q] = WholeIn(corpus[q]) \cup Bare(q)
                         /\ Kept'[q] = WholeIn(corpus'[q]) \cup Bare(q)
  BY DEF Kept, Bare
<1>6. \A q \in Outputs : WholeIn(corpus[q]) \subseteq WholeIn(corpus'[q])
  BY <1>2, <1>3
<1>7. DOMAIN corpus' = Outputs
  BY DEF Shape
<1>8. e.whole => e.shard \in Kept'[o]
  BY <1>3, <1>5
<1> QED
  BY <1>4, <1>5, <1>6, <1>7, <1>8

-----------------------------------------------------------------------------
(* Every action preserves the invariant. *)

LEMMA InitOK == Init => IInv
<1> SUFFICES ASSUME Init PROVE IInv
  OBVIOUS
<1> USE DEF Init
<1>1. \A o \in Outputs : corpus[o] \in Seq({})
  OBVIOUS
<1>2. \A p \in Procs : IsState(seen[p])
  BY DEF IsState, Fresh
<1>3. Shape
  BY <1>1, <1>2 DEF Shape, Holding, Busy, Readable
<1>4. LockOK /\ ResetOK /\ SeenOK /\ NotedOK
  BY DEF LockOK, ResetOK, SeenOK, NotedOK, Holding, Busy, Readable
<1> QED
  BY <1>3, <1>4 DEF IInv

\* An invocation ends: nothing was taken from a corpus, and the state of its output may
\* be torn.
LEMMA LeaveOK ==
    ASSUME IInv, NEW p \in Procs, pc[p] # "idle", Leave(p),
           DOMAIN corpus' = Outputs,
           \A o \in Outputs : \E S : corpus'[o] \in Seq(S),
           \A o \in Outputs : Kept[o] \subseteq Kept'[o],
           \/ state' = state
           \/ pc[p] = "save" /\ state' = [state EXCEPT ![Out(p)] = Torn]
    PROVE  IInv'
<1> USE DEF IInv, Leave, Out
<1>1. /\ \A q \in Procs \ {p} : pc'[q] = pc[q] /\ args'[q] = args[q]
                                /\ todo'[q] = todo[q] /\ seen'[q] = seen[q]
      /\ pc'[p] = "idle" /\ seen'[p] = Fresh
  BY DEF Shape
<1>2. \A o \in Outputs : Readable(o)' => Readable(o) /\ state'[o] = state[o]
  BY DEF Shape, Readable
<1>3. Shape'
  BY <1>1, <1>2 DEF Shape, Fresh, IsState
<1>4. ASSUME NEW q \in Procs, pc'[q] \in Holding
      PROVE  /\ q # p /\ pc[q] = pc'[q] /\ args'[q] = args[q]
             /\ args[q].output \in Outputs /\ lock[args[q].output] = q
  <2>1. q # p
    BY <1>1, <1>4 DEF Holding, Busy
  <2>2. pc[q] \in Holding /\ pc[q] = pc'[q] /\ args'[q] = args[q]
    BY <1>1, <1>4, <2>1
  <2> QED
    BY <2>1, <2>2, OutIsOutput DEF LockOK, Holding, Busy
<1>5. LockOK'
  BY <1>4 DEF LockOK
<1>6. ResetOK'
  <2> SUFFICES ASSUME NEW q \in Procs, pc'[q] = "reset corpus" PROVE state'[args'[q].output] = None
    BY DEF ResetOK
  <2>1. /\ q # p /\ pc[q] = "reset corpus" /\ args'[q] = args[q]
        /\ args[q].output \in Outputs /\ lock[args[q].output] = q
    BY <1>4 DEF Holding
  <2>2. state[args[q].output] = None
    BY <2>1 DEF ResetOK
  <2>3. pc[p] = "save" => lock[args[p].output] = p
    BY DEF LockOK, Holding, Busy
  <2> QED
    BY <2>1, <2>2, <2>3 DEF Shape
<1>7. SeenOK'
  <2> SUFFICES ASSUME NEW q \in Procs, pc'[q] \in Busy
               PROVE  /\ seen'[q].processed \subseteq Kept'[args'[q].output]
                      /\ pc'[q] = "save" => InHand(q)' \in Kept'[args'[q].output]
    BY DEF SeenOK, Busy
  <2>1. /\ pc[q] \in Busy /\ pc'[q] = pc[q] /\ args'[q] = args[q] /\ args[q].output \in Outputs
        /\ seen'[q] = seen[q] /\ InHand(q)' = InHand(q)
    BY <1>1, <1>4 DEF Holding, InHand
  <2> QED
    BY <2>1 DEF SeenOK
<1>8. NotedOK'
  BY <1>2 DEF NotedOK
<1> QED
  BY <1>3, <1>5, <1>6, <1>7, <1>8

\* The holder of a lock goes on: it may change what belongs to its output, as long as the
\* state, its own copy of it and the corpus agree again.
LEMMA HolderOK ==
    ASSUME IInv, NEW p \in Procs, pc[p] \in Holding, NEW o \in Outputs, args[p].output = o,
           UNCHANGED <<args, lock>>,
           NEW label \in Holding, Goto(p, label),
           DOMAIN todo' = Procs, DOMAIN seen' = Procs, IsState(seen'[p]),
           \A q \in Procs \ {p} : todo'[q] = todo[q] /\ seen'[q] = seen[q],
           DOMAIN corpus' = Outputs, \A q \in Outputs : \E S : corpus'[q] \in Seq(S),
           \A q \in Outputs \ {o} : Kept[q] \subseteq Kept'[q],
           DOMAIN state' = Outputs, \A q \in Outputs \ {o} : state'[q] = state[q],
           Readable(o)' => IsState(state'[o]) /\ state'[o].processed \subseteq Kept'[o],
           label = "reset corpus" => state'[o] = None,
           label \in Busy => seen'[p].processed \subseteq Kept'[o],
           label = "save" => InHand(p)' \in Kept'[o]
    PROVE  IInv'
<1> USE DEF IInv, Goto, Out
<1>1. pc'[p] = label /\ \A q \in Procs \ {p} : pc'[q] = pc[q]
  BY DEF Shape
<1>2. \A q \in Outputs \ {o} : Readable(q)' = Readable(q)
  BY DEF Readable
<1>3. Shape'
  <2>1. pc' \in [Procs -> Holding \cup {"idle", "lock"}]
    BY DEF Shape
  <2>2. \A q \in Procs : pc'[q] # "idle" => args'[q] \in Args
    BY <1>1 DEF Shape, Holding, Busy
  <2>3. \A q \in Procs : IsState(seen'[q])
    BY DEF Shape
  <2>4. \A q \in Outputs : Readable(q)' => IsState(state'[q])
    BY <1>2 DEF Shape
  <2> QED
    BY <2>1, <2>2, <2>3, <2>4 DEF Shape
<1>4. LockOK'
  BY <1>1 DEF LockOK
\* Nobody else who holds a lock works on this output.
<1>5. ASSUME NEW q \in Procs \ {p}, pc'[q] \in Holding
      PROVE  pc[q] = pc'[q] /\ args[q].output \in Outputs \ {o}
  <2>1. pc[q] = pc'[q] /\ lock[args[q].output] = q /\ lock[o] = p
    BY <1>1, <1>5 DEF LockOK
  <2>2. args[q].output \in Outputs
    BY <2>1, <1>5, OutIsOutput DEF Holding, Busy
  <2> QED
    BY <2>1, <2>2
<1>6. ResetOK'
  <2> SUFFICES ASSUME NEW q \in Procs, pc'[q] = "reset corpus" PROVE state'[args[q].output] = None
    BY DEF ResetOK
  <2>1. CASE q = p
    BY <1>1, <2>1
  <2>2. CASE q # p
    <3>1. pc[q] = "reset corpus" /\ args[q].output \in Outputs \ {o}
      BY <1>5, <2>2 DEF Holding
    <3>2. state[args[q].output] = None
      BY <3>1 DEF ResetOK
    <3> QED
      BY <3>1, <3>2
  <2> QED
    BY <2>1, <2>2
<1>7. SeenOK'
  <2> SUFFICES ASSUME NEW q \in Procs, pc'[q] \in Busy
               PROVE  /\ seen'[q].processed \subseteq Kept'[args[q].output]
                      /\ pc'[q] = "save" => InHand(q)' \in Kept'[args[q].output]
    BY DEF SeenOK, Busy
  <2>1. CASE q = p
    <3>1. args[q].output = o /\ pc'[q] = label /\ seen'[q] = seen'[p] /\ InHand(q)' = InHand(p)'
      BY <2>1, <1>1
    <3> QED
      BY <3>1
  <2>2. CASE q # p
    <3>1. /\ pc[q] = pc'[q] /\ args[q].output \in Outputs \ {o}
          /\ seen'[q] = seen[q] /\ InHand(q)' = InHand(q)
      BY <2>2, <1>5 DEF Holding, InHand
    <3> QED
      BY <3>1 DEF SeenOK
  <2> QED
    BY <2>1, <2>2
<1>8. NotedOK'
  <2> SUFFICES ASSUME NEW q \in Outputs, Readable(q)'
               PROVE  state'[q].processed \subseteq Kept'[q]
    BY DEF NotedOK
  <2>1. CASE q = o
    BY <2>1
  <2>2. CASE q # o
    BY <2>2, <1>2 DEF NotedOK
  <2> QED
    BY <2>1, <2>2
<1> QED
  BY <1>3, <1>4, <1>6, <1>7, <1>8

LEMMA ArriveOK == ASSUME IInv, NEW s \in Shards, Arrive(s) PROVE IInv'
BY DEF IInv, Arrive, Shape, Readable, LockOK, ResetOK, SeenOK, NotedOK, Kept, Bare, Out, InHand,
       history

LEMMA StartOK == ASSUME IInv, NEW p \in Procs, Start(p) PROVE IInv'
<1> USE DEF IInv, Start, files, history, Goto
<1>1. PICK a \in Args : args' = [args EXCEPT ![p] = a]
  OBVIOUS
<1>2. /\ pc'[p] = "lock" /\ args'[p] = a
      /\ \A q \in Procs \ {p} : pc'[q] = pc[q] /\ args'[q] = args[q]
  BY <1>1 DEF Shape
<1>3. Shape'
  BY <1>1, <1>2 DEF Shape, Readable
<1>4. Kept' = Kept
  BY DEF Kept, Bare
<1>5. LockOK' /\ ResetOK' /\ NotedOK'
  BY <1>2, <1>4 DEF LockOK, ResetOK, NotedOK, Readable, Holding, Busy, Out
<1>6. SeenOK'
  BY <1>2, <1>4 DEF SeenOK, Busy, Out, InHand
<1> QED
  BY <1>3, <1>5, <1>6

LEMMA TakeLockOK == ASSUME IInv, NEW p \in Procs, Lock(p) PROVE IInv'
<1> USE DEF IInv, Lock, files, history, Goto
<1>0. args[p].output \in Outputs
  BY OutIsOutput
<1>1. /\ pc'[p] \in {"reset state", "select"} /\ lock'[args[p].output] = p
      /\ \A q \in Procs \ {p} : pc'[q] = pc[q]
      /\ \A o \in Outputs : o # args[p].output => lock'[o] = lock[o]
  BY <1>0 DEF Shape, Out
<1>2. Shape'
  <2>1. pc' \in [Procs -> Holding \cup {"idle", "lock"}]
    BY DEF Shape, Holding
  <2>2. \A q \in Procs : pc'[q] # "idle" => args'[q] \in Args
    BY <1>1 DEF Shape
  <2> QED
    BY <2>1, <2>2 DEF Shape, Readable
<1>3. Kept' = Kept
  BY DEF Kept, Bare
\* The lock was free, and no process is called None.
<1>4. LockOK'
  <2> SUFFICES ASSUME NEW q \in Procs \ {p}, pc[q] \in Holding PROVE lock'[args[q].output] = q
    BY <1>1 DEF LockOK, Out
  <2>1. lock[args[q].output] = q /\ lock[args[p].output] = None
    BY DEF LockOK, Out
  <2>2. args[q].output \in Outputs
    BY OutIsOutput DEF Holding, Busy
  <2> QED
    BY <1>1, <2>1, <2>2, NoneAssumption DEF NoneAssumption
<1>5. ResetOK' /\ NotedOK'
  BY <1>1, <1>3 DEF ResetOK, NotedOK, Readable, Out
<1>6. SeenOK'
  BY <1>1, <1>3 DEF SeenOK, Busy, Out, InHand
<1> QED
  BY <1>2, <1>4, <1>5, <1>6

\* An end that leaves the files as they are.
LEMMA LeaveFilesOK ==
    ASSUME IInv, NEW p \in Procs, pc[p] # "idle", Leave(p), UNCHANGED <<bare, corpus, state>>
    PROVE  IInv'
<1>1. Kept' = Kept
  BY DEF Kept, Bare
<1> QED
  BY <1>1, LeaveOK DEF IInv, Shape

\* What HolderOK asks for, of a process that leaves the corpora and the states alone.
LEMMA HolderFilesOK ==
    ASSUME IInv, NEW p \in Procs, pc[p] \in Holding,
           UNCHANGED <<args, lock, corpus, state>>, bare \subseteq bare',
           NEW label \in Holding, label # "reset corpus", Goto(p, label),
           DOMAIN todo' = Procs, DOMAIN seen' = Procs, IsState(seen'[p]),
           \A q \in Procs \ {p} : todo'[q] = todo[q] /\ seen'[q] = seen[q],
           label \in Busy => seen'[p].processed \subseteq Kept[args[p].output],
           label = "save" => InHand(p)' \in Kept'[args[p].output]
    PROVE  IInv'
<1>1. \A o \in Outputs : Kept[o] \subseteq Kept'[o] /\ Readable(o)' = Readable(o)
  <2>1. \A o \in Outputs : Bare(o) \subseteq Bare(o)'
    BY DEF Bare
  <2>2. \A o \in Outputs : /\ Kept[o] = WholeIn(corpus[o]) \cup Bare(o)
                           /\ Kept'[o] = WholeIn(corpus'[o]) \cup Bare(o)'
    BY DEF Kept
  <2>3. \A o \in Outputs : Readable(o)' = Readable(o)
    BY DEF Readable
  <2> QED
    BY <2>1, <2>2, <2>3
<1>2. args[p].output \in Outputs
  BY OutIsOutput DEF IInv, Holding, Busy
<1>3. \A o \in Outputs : Readable(o) => IsState(state[o]) /\ state[o].processed \subseteq Kept[o]
  BY DEF IInv, Shape, NotedOK
<1> QED
  BY <1>1, <1>2, <1>3, HolderOK DEF IInv, Shape

LEMMA ResetStateOK == ASSUME IInv, NEW p \in Procs, ResetState(p) PROVE IInv'
<1>0. /\ pc[p] = "reset state" /\ Goto(p, "reset corpus")
      /\ state' = [state EXCEPT ![Out(p)] = None]
      /\ UNCHANGED <<bare, corpus, lock, args, todo, seen>>
  BY DEF ResetState, history
<1>1. PICK o \in Outputs : o = args[p].output
  BY <1>0, OutIsOutput DEF IInv
<1>2. Kept' = Kept
  BY <1>0 DEF Kept, Bare
<1>3. /\ state'[o] = None /\ DOMAIN state' = Outputs
      /\ \A q \in Outputs \ {o} : state'[q] = state[q]
  BY <1>0, <1>1 DEF IInv, Shape, Out
<1>4. ~Readable(o)'
  BY <1>3 DEF Readable
<1>5. pc[p] \in Holding /\ "reset corpus" \in Holding /\ "reset corpus" \notin Busy
  BY <1>0 DEF Holding, Busy
<1>6. /\ DOMAIN corpus' = Outputs /\ \A q \in Outputs : \E S : corpus'[q] \in Seq(S)
      /\ DOMAIN todo' = Procs /\ DOMAIN seen' = Procs /\ IsState(seen'[p])
  BY <1>0 DEF IInv, Shape
<1> QED
  BY <1>0, <1>1, <1>2, <1>3, <1>4, <1>5, <1>6, HolderOK

LEMMA ResetCorpusOK == ASSUME IInv, NEW p \in Procs, ResetCorpus(p) PROVE IInv'
<1> USE DEF ResetCorpus
<1>1. PICK o \in Outputs : o = args[p].output
  BY OutIsOutput DEF IInv
<1>2. /\ corpus'[o] = <<>> /\ DOMAIN corpus' = Outputs
      /\ \A q \in Outputs \ {o} : corpus'[q] = corpus[q]
  BY <1>1 DEF IInv, Shape, Out
<1>3. \A q \in Outputs : \E S : corpus'[q] \in Seq(S)
  <2>1. <<>> \in Seq({})
    BY EmptySeq
  <2> QED
    BY <1>2, <2>1 DEF IInv, Shape
<1>4. \A q \in Outputs \ {o} : Kept[q] \subseteq Kept'[q]
  <2>1. \A q \in Outputs \ {o} : Bare(q)' = Bare(q)
    BY <1>1 DEF Bare, Out
  <2> QED
    BY <1>2, <2>1 DEF Kept
<1>5. state[o] = None
  BY <1>1 DEF IInv, ResetOK, Out
<1>6. ~Readable(o)'
  BY <1>5 DEF Readable
<1>7. pc[p] \in Holding /\ "select" \in Holding /\ "select" \notin Busy
  BY DEF Holding, Busy
<1> QED
  BY <1>1, <1>2, <1>3, <1>4, <1>6, <1>7, HolderOK DEF IInv, Shape

\* What an invocation starts from is what the state file says, or nothing.
LEMMA SelectOK == ASSUME IInv, NEW p \in Procs, Select(p) PROVE IInv'
<1> DEFINE o == args[p].output
           st == IF state[o] = None THEN Fresh ELSE state[o]
<1>1. pc[p] = "select" /\ UNCHANGED <<bare, corpus, state>>
  BY DEF Select, files, history
<1>2. CASE Leave(p)
  BY <1>1, <1>2, LeaveFilesOK
<1>3. CASE ~Leave(p)
  <2>1. PICK new :
          /\ state[o] # Torn
          /\ todo' = [todo EXCEPT ![p] = new]
          /\ seen' = [seen EXCEPT ![p] = Noted(st, args[p])]
          /\ Goto(p, "convert")
          /\ UNCHANGED <<lock, args>>
    BY <1>3 DEF Select, Out
  <2>2. o \in Outputs
    BY <1>1, OutIsOutput DEF IInv
  <2>3. IsState(st) /\ st.processed \subseteq Kept[o]
    <3>1. CASE state[o] = None
      BY <3>1 DEF Fresh, IsState
    <3>2. CASE state[o] # None
      BY <3>2, <2>1, <2>2 DEF IInv, Shape, NotedOK, Readable
    <3> QED
      BY <3>1, <3>2
  <2> HIDE DEF st
  <2>4. IsState(Noted(st, args[p])) /\ Noted(st, args[p]).processed = st.processed
    BY <2>3 DEF Noted, IsState
  <2>5. seen'[p] = Noted(st, args[p]) /\ DOMAIN seen' = Procs /\ DOMAIN todo' = Procs
    BY <2>1 DEF IInv, Shape
  <2>6. \A q \in Procs \ {p} : todo'[q] = todo[q] /\ seen'[q] = seen[q]
    BY <2>1 DEF IInv, Shape
  <2>7. pc[p] \in Holding /\ "convert" \in Holding
    BY <1>1 DEF Holding, Busy
  <2> QED
    BY <1>1, <2>1, <2>3, <2>4, <2>5, <2>6, <2>7, HolderFilesOK
<1> QED
  BY <1>2, <1>3

LEMMA ConvertOK == ASSUME IInv, NEW p \in Procs, Convert(p) PROVE IInv'
<1>1. PICK label \in {"save", "append"} :
        /\ pc[p] = "convert" /\ Goto(p, label)
        /\ bare \subseteq bare'
        /\ label = "save" => <<Out(p), InHand(p)>> \in bare'
        /\ UNCHANGED <<corpus, state, lock, args, todo, seen>>
  BY DEF Convert
<1>2. InHand(p)' = InHand(p)
  BY <1>1 DEF InHand
<1>3. seen[p].processed \subseteq Kept[args[p].output]
  BY <1>1 DEF IInv, SeenOK, Busy, Out
<1>4. pc[p] \in Holding /\ label \in Holding
  BY <1>1 DEF Holding, Busy
<1>5. label = "save" => InHand(p)' \in Kept'[args[p].output]
  <2>1. PICK o \in Outputs : o = args[p].output
    BY <1>1, OutIsOutput DEF IInv
  <2>2. label = "save" => InHand(p) \in Bare(o)'
    BY <1>1, <2>1 DEF Bare, Out
  <2>3. Kept'[o] = WholeIn(corpus'[o]) \cup Bare(o)'
    BY DEF Kept
  <2> QED
    BY <1>2, <2>1, <2>2, <2>3
<1> QED
  BY <1>1, <1>2, <1>3, <1>4, <1>5, HolderFilesOK DEF IInv, Shape

LEMMA FailOK == ASSUME IInv, NEW p \in Procs, Fail(p) \/ Finish(p) PROVE IInv'
BY LeaveFilesOK DEF Fail, Finish, files, history

LEMMA AppendChunkOK == ASSUME IInv, NEW p \in Procs, AppendChunk(p) PROVE IInv'
<1> DEFINE chunk == chunks[Chunk(p)]
<1>1. CASE chunk = None
  BY <1>1, LeaveFilesOK DEF AppendChunk, Chunk, history
<1>2. CASE chunk # None
  <2> DEFINE r == Records(p, TRUE)
  <2>1. /\ pc[p] = "append" /\ Goto(p, "save")
        /\ corpus' = [corpus EXCEPT ![Out(p)] = Append(@, r)]
        /\ UNCHANGED <<bare, state, lock, args, todo, seen>>
    BY <1>2 DEF AppendChunk, history
  <2>2. PICK o \in Outputs : o = Out(p)
    BY <2>1, OutIsOutput DEF IInv, Out
  <2>3. r.whole /\ r.shard = InHand(p)
    BY DEF Records
  <2> HIDE DEF r
  <2>4. /\ DOMAIN corpus' = Outputs
        /\ \A q \in Outputs : \E T : corpus'[q] \in Seq(T)
        /\ \A q \in Outputs : Kept[q] \subseteq Kept'[q]
        /\ InHand(p) \in Kept'[o]
    BY <2>1, <2>2, <2>3, AppendKeeps DEF IInv
  <2>5. InHand(p)' = InHand(p) /\ Readable(o)' = Readable(o)
    BY <2>1 DEF InHand, Readable
  <2>6. Readable(o) => IsState(state[o]) /\ state[o].processed \subseteq Kept[o]
    BY DEF IInv, Shape, NotedOK
  <2>7. seen[p].processed \subseteq Kept[o]
    BY <2>1, <2>2 DEF IInv, SeenOK, Busy
  <2>8. pc[p] \in Holding /\ "save" \in Holding /\ args[p].output = o
    BY <2>1, <2>2 DEF Holding, Busy, Out
  <2>9. Readable(o)' => IsState(state'[o]) /\ state'[o].processed \subseteq Kept'[o]
    BY <2>1, <2>4, <2>5, <2>6
  <2>10. seen'[p].processed \subseteq Kept'[o] /\ InHand(p)' \in Kept'[o]
    BY <2>1, <2>4, <2>5, <2>7
  <2>11. /\ DOMAIN todo' = Procs /\ DOMAIN seen' = Procs /\ IsState(seen'[p])
         /\ DOMAIN state' = Outputs
    BY <2>1 DEF IInv, Shape
  <2>12. /\ UNCHANGED <<args, lock>>
         /\ \A q \in Procs \ {p} : todo'[q] = todo[q] /\ seen'[q] = seen[q]
         /\ \A q \in Outputs \ {o} : state'[q] = state[q]
    BY <2>1
  <2> QED
    BY <2>1, <2>4, <2>8, <2>9, <2>10, <2>11, <2>12, HolderOK
<1> QED
  BY <1>1, <1>2

LEMMA SaveStateOK == ASSUME IInv, NEW p \in Procs, SaveState(p) PROVE IInv'
<1>1. PICK label \in {"finish", "convert"} :
        /\ pc[p] = "save" /\ Goto(p, label)
        /\ state' = [state EXCEPT ![Out(p)] = Saved(p)]
        /\ seen' = [seen EXCEPT ![p] = Saved(p)]
        /\ todo' = [todo EXCEPT ![p] = @ \ {InHand(p)}]
        /\ UNCHANGED <<bare, corpus, lock, args>>
  BY DEF SaveState, history
<1>2. PICK o \in Outputs : o = args[p].output
  BY <1>1, OutIsOutput DEF IInv
<1>3. IsState(Saved(p)) /\ Saved(p).processed = seen[p].processed \cup {InHand(p)}
  <2>1. IsState(seen[p])
    BY DEF IInv, Shape
  <2> QED
    BY <2>1 DEF Saved, IsState
<1>4. Saved(p).processed \subseteq Kept[o]
  BY <1>1, <1>2, <1>3 DEF IInv, SeenOK, Busy, Out
<1>5. Kept' = Kept
  BY <1>1 DEF Kept, Bare
<1>6. /\ DOMAIN state' = Outputs /\ state'[o] = Saved(p)
      /\ \A q \in Outputs \ {o} : state'[q] = state[q]
      /\ DOMAIN seen' = Procs /\ seen'[p] = Saved(p) /\ DOMAIN todo' = Procs
      /\ \A q \in Procs \ {p} : todo'[q] = todo[q] /\ seen'[q] = seen[q]
  BY <1>1, <1>2 DEF IInv, Shape, Out
<1>7. pc[p] \in Holding /\ label \in Holding /\ label \notin {"save", "reset corpus"}
  BY <1>1 DEF Holding, Busy
<1>8. DOMAIN corpus' = Outputs /\ \A q \in Outputs : \E S : corpus'[q] \in Seq(S)
  BY <1>1 DEF IInv, Shape
<1>9. /\ IsState(seen'[p]) /\ seen'[p].processed \subseteq Kept'[o]
      /\ IsState(state'[o]) /\ state'[o].processed \subseteq Kept'[o]
      /\ \A q \in Outputs \ {o} : Kept[q] \subseteq Kept'[q]
  BY <1>3, <1>4, <1>5, <1>6
<1>10. UNCHANGED <<args, lock>> /\ Goto(p, label)
  BY <1>1
<1> QED
  BY <1>2, <1>6, <1>7, <1>8, <1>9, <1>10, HolderOK

LEMMA KillOK == ASSUME IInv, NEW p \in Procs, Kill(p) PROVE IInv'
<1>1. pc[p] # "idle" /\ Leave(p) /\ UNCHANGED bare
  BY DEF Kill
<1>2. PICK o \in Outputs : o = Out(p)
  BY <1>1, OutIsOutput DEF IInv, Out
<1>3. \/ state' = state
      \/ pc[p] = "save" /\ state' = [state EXCEPT ![Out(p)] = Torn]
  BY DEF Kill
<1>4. \/ corpus' = corpus
      \/ \E whole \in BOOLEAN : corpus' = [corpus EXCEPT ![Out(p)] = Append(@, Records(p, whole))]
  BY DEF Kill
<1>5. /\ DOMAIN corpus' = Outputs
      /\ \A q \in Outputs : \E S : corpus'[q] \in Seq(S)
      /\ \A q \in Outputs : Kept[q] \subseteq Kept'[q]
  <2>1. CASE corpus' = corpus
    BY <1>1, <2>1 DEF IInv, Shape, Kept, Bare
  <2>2. ASSUME NEW r, corpus' = [corpus EXCEPT ![o] = Append(@, r)] PROVE
             /\ DOMAIN corpus' = Outputs
             /\ \A q \in Outputs : \E S : corpus'[q] \in Seq(S)
             /\ \A q \in Outputs : Kept[q] \subseteq Kept'[q]
    BY <1>1, <2>2, AppendKeeps DEF IInv
  <2> QED
    BY <1>2, <1>4, <2>1, <2>2
<1> QED
  BY <1>1, <1>3, <1>5, LeaveOK

LEMMA NextOK == IInv /\ [Next]_vars => IInv'
<1> SUFFICES ASSUME IInv, [Next]_vars PROVE IInv'
  OBVIOUS
<1>1. CASE \E s \in Shards : Arrive(s)
  BY <1>1, ArriveOK
<1>2. ASSUME NEW p \in Procs, Start(p) PROVE IInv'
  BY <1>2, StartOK
<1>3. ASSUME NEW p \in Procs, Step(p) PROVE IInv'
  BY <1>3, TakeLockOK, ResetStateOK, ResetCorpusOK, SelectOK, ConvertOK, FailOK,
     AppendChunkOK, SaveStateOK DEF Step
<1>4. ASSUME NEW p \in Procs, Kill(p) PROVE IInv'
  BY <1>4, KillOK
<1>5. CASE UNCHANGED vars
  <2>1. Kept' = Kept
    BY <1>5 DEF vars, files, history, Kept, Bare
  <2> QED
    BY <1>5, <2>1 DEF vars, files, IInv, Shape, Readable, LockOK, ResetOK, SeenOK, NotedOK, Out, InHand
<1> QED
  BY <1>1, <1>2, <1>3, <1>4, <1>5 DEF Next

-----------------------------------------------------------------------------
(* The frames of the argument that a corpus has each shard once. *)

\* The next shard is one of those to do.
LEMMA NextOfThem ==
    ASSUME NEW T \in SUBSET Shards, T # {}
    PROVE  Min(T) \in T
<1> DEFINE R == OpToRel(<, Nat)
<1>1. T \subseteq Nat
  BY SelfplayAssumption DEF SelfplayAssumption, Shards
<1>2. IsWellFoundedOn(R, Nat)
  BY NatLessThanWellFounded
<1> HIDE DEF R
<1>3. PICK x \in T : \A y \in T : <<y, x>> \notin R
  BY <1>1, <1>2, WFMin
<1>4. \A y \in T : x <= y
  <2> SUFFICES ASSUME NEW y \in T, y < x PROVE FALSE
    BY <1>1
  <2>1. <<y, x>> \in R
    BY <1>1 DEF R, OpToRel
  <2> QED
    BY <2>1, <1>3
<1> QED
  BY <1>4 DEF Min

LEMMA HandIsNew ==
    ASSUME Typed, NEW p \in Procs, pc[p] \in Busy
    PROVE  /\ InHand(p) \in todo[p] /\ InHand(p) \in Shards
           /\ InHand(p) \notin seen[p].processed
BY NextOfThem DEF Typed, InHand

\* One invocation takes a step, the others wait.
Alone(p) ==
    /\ UNCHANGED <<script, pgns>>
    /\ DOMAIN pc' = Procs
    /\ \A q \in Procs \ {p} :
          pc'[q] = pc[q] /\ args'[q] = args[q] /\ todo'[q] = todo[q] /\ seen'[q] = seen[q]

LEMMA OthersWait ==
    ASSUME Shape, NEW p \in Procs, Start(p) \/ Step(p) \/ Kill(p)
    PROVE  Alone(p)
<1> USE DEF Alone, Shape, Goto, Leave, files
<1>1. CASE Start(p)
  BY <1>1 DEF Start
<1>2. CASE Lock(p) \/ ResetState(p) \/ ResetCorpus(p) \/ Convert(p)
  BY <1>2 DEF Lock, ResetState, ResetCorpus, Convert
<1>3. CASE Select(p)
  BY <1>3 DEF Select
<1>4. CASE Fail(p) \/ Finish(p) \/ AppendChunk(p) \/ SaveState(p)
  BY <1>4 DEF Fail, Finish, AppendChunk, SaveState
<1>5. CASE Kill(p)
  BY <1>5 DEF Kill
<1> QED
  BY <1>1, <1>2, <1>3, <1>4, <1>5 DEF Step

LEMMA OthersKept ==
    ASSUME NEW p \in Procs, Alone(p), NEW q \in Procs \ {p}
    PROVE  Out(q)' = Out(q) /\ InHand(q)' = InHand(q) /\ Chunk(q)' = Chunk(q)
BY DEF Alone, Out, InHand, Chunk, Tmp

\* Whoever works on an output is alone with it.
LEMMA OneHolder ==
    ASSUME IInv, NEW p \in Procs, pc[p] \in Holding, NEW q \in Procs \ {p}, pc[q] \in Holding
    PROVE  /\ Out(p) \in Outputs /\ Out(q) \in Outputs /\ Out(q) # Out(p)
           /\ lock[Out(p)] = p /\ lock[Out(q)] = q
BY OutIsOutput DEF IInv, LockOK, Holding, Busy, Out

LEMMA TypedKept ==
    ASSUME Typed, NEW p \in Procs, Alone(p), seen'[p] \in States,
           DOMAIN chunks' = (Outputs \cup {None}) \X Shards,
           pc'[p] \in Busy => todo'[p] \in (SUBSET Shards) \ {{}}
                              /\ todo'[p] \cap seen'[p].processed = {},
           \A o \in Outputs : state'[o] \in States \cup {None, Torn}
    PROVE  Typed'
BY DEF Typed, Alone

LEMMA ModesKept ==
    ASSUME ModesNoted, NEW p \in Procs, Alone(p),
           \A o \in Outputs : \/ state'[o] = state[o] \/ state'[o] \in {None, Torn}
                              \/ script[o] = "selfplay" => state'[o].mode \in Modes,
           \A q \in Procs \ {p} : pc[q] \in Busy => state'[Out(q)] = state[Out(q)],
           pc'[p] \in Busy /\ script[Out(p)'] = "selfplay" =>
               /\ seen'[p].mode = args'[p].mode
               /\ Readable(Out(p))' => state'[Out(p)'].mode = args'[p].mode
    PROVE  ModesNoted'
<1>1. ASSUME NEW o \in Outputs, script[o] = "selfplay", Readable(o)' PROVE state'[o].mode \in Modes
  BY <1>1 DEF ModesNoted, Readable
<1>2. ASSUME NEW q \in Procs, pc'[q] \in Busy, script[Out(q)'] = "selfplay"
      PROVE  /\ seen'[q].mode = args'[q].mode
             /\ Readable(Out(q))' => state'[Out(q)'].mode = args'[q].mode
  <2>1. CASE q = p
    BY <1>2, <2>1
  <2>2. CASE q # p
    <3>1. /\ pc[q] \in Busy /\ Out(q)' = Out(q) /\ args'[q] = args[q] /\ seen'[q] = seen[q]
          /\ state'[Out(q)] = state[Out(q)]
      BY <1>2, <2>2, OthersKept DEF Alone
    <3> QED
      BY <1>2, <3>1 DEF ModesNoted, Readable
  <2> QED
    BY <2>1, <2>2
<1>3. script' = script
  BY DEF Alone
<1> QED
  BY <1>1, <1>2, <1>3 DEF ModesNoted

LEMMA ChunksKept ==
    ASSUME ChunkOwned, NEW p \in Procs, Alone(p),
           \A q \in Procs \ {p} : pc[q] = "append" /\ Out(q) \notin spoilt' =>
               Out(q) \notin spoilt /\ chunks'[Chunk(q)] = chunks[Chunk(q)],
           pc'[p] = "append" =>
               /\ Out(p)' \notin spoilt' /\ script[Out(p)'] = "selfplay" =>
                     chunks'[Chunk(p)'] = args'[p].mode
               /\ \A q \in Procs \ {p} : pc[q] = "append" /\ Chunk(q) = Chunk(p)' =>
                     Out(p)' \in spoilt' /\ Out(q) \in spoilt'
    PROVE  ChunkOwned'
<1>1. script' = script
  BY DEF Alone
<1>2. ASSUME NEW q \in Procs, pc'[q] = "append"
      PROVE  /\ Out(q)' \notin spoilt' /\ script'[Out(q)'] = "selfplay" =>
                   chunks'[Chunk(q)'] = args'[q].mode
             /\ \A r \in Procs \ {q} : pc'[r] = "append" /\ Chunk(r)' = Chunk(q)' =>
                   Out(q)' \in spoilt'
  <2>1. CASE q = p
    <3>1. \A r \in Procs \ {q} : pc'[r] = pc[r] /\ Chunk(r)' = Chunk(r)
      BY <2>1, OthersKept DEF Alone
    <3> QED
      BY <1>1, <1>2, <2>1, <3>1
  <2>2. CASE q # p
    <3>1. /\ pc[q] = "append" /\ Out(q)' = Out(q) /\ args'[q] = args[q]
          /\ InHand(q)' = InHand(q) /\ Chunk(q)' = Chunk(q)
      BY <1>2, <2>2, OthersKept DEF Alone
    <3>2. Out(q) \notin spoilt' /\ script[Out(q)] = "selfplay" =>
              chunks'[Chunk(q)] = args[q].mode
      BY <2>2, <3>1 DEF ChunkOwned
    <3>3. ASSUME NEW r \in Procs \ {q}, pc'[r] = "append", Chunk(r)' = Chunk(q)'
          PROVE  Out(q)' \in spoilt'
      <4>1. CASE r = p
        BY <2>2, <3>1, <3>3, <4>1
      <4>2. CASE r # p
        <5>1. pc[r] = "append" /\ Chunk(r)' = Chunk(r)
          BY <3>3, <4>2, OthersKept DEF Alone
        <5> QED
          BY <2>2, <3>1, <3>3, <5>1 DEF ChunkOwned
      <4> QED
        BY <4>1, <4>2
    <3> QED
      BY <1>1, <3>1, <3>2, <3>3
  <2> QED
    BY <2>1, <2>2
<1> QED
  BY <1>1, <1>2 DEF ChunkOwned

\* Where nobody is going to append, only what is noted matters.
LEMMA CorpusKept ==
    ASSUME NEW o \in Outputs, Clean(o), script' = script,
           corpus'[o] = corpus[o], state'[o] = state[o],
           \A q \in Procs : lock'[o] = q => pc'[q] \notin Busy
    PROVE  /\ Indices(o)' = Indices(o) /\ Readable(o)' = Readable(o)
           /\ AllNoted(o)' => Clean(o)'
<1>1. Indices(o)' = Indices(o) /\ Readable(o)' = Readable(o)
  BY DEF Indices, Readable
<1>2. OnceEach(o)' /\ AllWhole(o)'
  BY <1>1 DEF Clean, OnceEach, AllWhole
<1>3. OneMode(o)' /\ AllSeen(o)'
  BY <1>1 DEF Clean, OneMode, AllSeen
<1> QED
  BY <1>1, <1>2, <1>3 DEF Clean

\* A corpus stays clean as long as neither it nor its state nor its holder changes.
LEMMA CleanKept ==
    ASSUME NEW o \in Outputs, Clean(o), script' = script,
           corpus'[o] = corpus[o], state'[o] = state[o],
           \A q \in Procs : lock'[o] = q => lock[o] = q,
           \A q \in Procs : lock[o] = q =>
               /\ lock'[o] = q /\ pc'[q] = pc[q] /\ args'[q] = args[q]
               /\ todo'[q] = todo[q] /\ seen'[q] = seen[q]
    PROVE  Clean(o)'
<1>1. Indices(o)' = Indices(o) /\ Readable(o)' = Readable(o)
  BY DEF Indices, Readable
<1>2. \A q \in Procs : lock[o] = q => InHand(q)' = InHand(q)
  BY DEF InHand
<1>3. OnceEach(o)' /\ AllWhole(o)'
  BY <1>1 DEF Clean, OnceEach, AllWhole
<1>4. OneMode(o)' /\ AllSeen(o)'
  BY <1>1, <1>2 DEF Clean, OneMode, AllSeen
<1>5. AllNoted(o)'
  <2>1. \A x : InHandAt(o, x) => InHandAt(o, x)'
    BY <1>2 DEF InHandAt
  <2> QED
    BY <1>1, <2>1 DEF Clean, AllNoted
<1> QED
  BY <1>3, <1>4, <1>5 DEF Clean

-----------------------------------------------------------------------------
(* Every action keeps the corpora clean. *)

\* What the lemmas on the parts ask of a holder of a lock that goes on.
LEMMA HolderOnce ==
    ASSUME IInv, OInv, NEW p \in Procs, pc[p] \in Holding, Alone(p),
           NEW o \in Outputs, o = Out(p),
           UNCHANGED <<args, lock>>, pc'[p] \in Holding,
           Typed', ModesNoted', ChunkOwned',
           \A q \in Outputs \ {o} : corpus'[q] = corpus[q] /\ state'[q] = state[q],
           spoilt \ {o} \subseteq spoilt',
           o \notin spoilt' => Clean(o)'
    PROVE  OInv'
<1>1. Locked'
  BY DEF OInv, Locked, Alone, Out
<1>2. ASSUME NEW q \in Outputs \ spoilt' PROVE Clean(q)'
  <2>1. CASE q = o
    BY <1>2, <2>1
  <2>2. CASE q # o
    <3>1. q \in Outputs \ spoilt /\ lock[q] # p /\ corpus'[q] = corpus[q] /\ state'[q] = state[q]
      BY <1>2, <2>2 DEF OInv, Locked
    <3>2. Clean(q)
      BY <3>1 DEF OInv
    <3> QED
      BY <3>1, <3>2, CleanKept DEF Alone
  <2> QED
    BY <2>1, <2>2
<1> QED
  BY <1>1, <1>2 DEF OInv

LEMMA InitOnce == Init => OInv
<1> SUFFICES ASSUME Init PROVE OInv
  OBVIOUS
<1> USE DEF Init
<1>1. Fresh \in States
  BY DEF Fresh, States, Slices
<1>2. Typed
  BY <1>1 DEF Typed, Busy
<1>3. Locked /\ ModesNoted /\ ChunkOwned
  BY NoneAssumption DEF NoneAssumption, Locked, ModesNoted, ChunkOwned, Busy, Readable
<1>4. \A o \in Outputs : Indices(o) = {}
  BY DEF Indices
<1>5. \A o \in Outputs : Clean(o)
  BY <1>4 DEF Clean, OnceEach, AllWhole, OneMode, AllNoted, AllSeen, Busy, Readable
<1> QED
  BY <1>2, <1>3, <1>5 DEF OInv

LEMMA ArriveOnce == ASSUME IInv, OInv, NEW s \in Shards, Arrive(s) PROVE OInv'
<1> USE DEF Arrive, history
<1>1. Typed'
  BY DEF OInv, Typed
<1>2. Locked' /\ ModesNoted'
  BY DEF OInv, Locked, ModesNoted, Readable, Out
<1>3. ChunkOwned'
  BY DEF OInv, ChunkOwned, Chunk, Tmp, Out, InHand
<1>4. ASSUME NEW o \in Outputs \ spoilt' PROVE Clean(o)'
  BY CleanKept DEF OInv
<1> QED
  BY <1>1, <1>2, <1>3, <1>4 DEF OInv

LEMMA StartOnce == ASSUME IInv, OInv, NEW p \in Procs, Start(p) PROVE OInv'
<1> USE DEF Start, files, history
<1>1. Alone(p)
  BY OthersWait DEF IInv
<1>2. /\ pc[p] = "idle" /\ pc'[p] = "lock"
      /\ UNCHANGED <<corpus, state, chunks, lock, todo, seen, spoilt>>
  BY DEF Goto, IInv, Shape
<1>3. Typed'
  BY <1>1, <1>2, TypedKept DEF OInv, Typed, Busy
\* An idle invocation holds no lock.
<1>4. \A o \in Outputs : lock[o] # p
  BY <1>2 DEF OInv, Locked, Holding, Busy
<1>5. Locked'
  BY <1>1, <1>2, <1>4 DEF OInv, Locked, Alone, Out
<1>6. ModesNoted'
  BY <1>1, <1>2, ModesKept DEF OInv, Busy
<1>7. ChunkOwned'
  BY <1>1, <1>2, ChunksKept DEF OInv
<1>8. ASSUME NEW o \in Outputs \ spoilt' PROVE Clean(o)'
  BY <1>1, <1>2, <1>4, CleanKept DEF OInv, Alone
<1> QED
  BY <1>3, <1>5, <1>6, <1>7, <1>8 DEF OInv

LEMMA LockOnce == ASSUME IInv, OInv, NEW p \in Procs, Lock(p) PROVE OInv'
<1> USE DEF Lock, files, history
<1>1. Alone(p)
  BY OthersWait DEF IInv, Step
<1>2. PICK o \in Outputs : o = Out(p)
  BY OutIsOutput DEF IInv, Out
<1>3. /\ pc[p] = "lock" /\ pc'[p] \in {"reset state", "select"}
      /\ lock[o] = None /\ lock'[o] = p /\ \A q \in Outputs \ {o} : lock'[q] = lock[q]
      /\ UNCHANGED <<corpus, state, chunks, args, todo, seen, spoilt>>
  BY <1>2 DEF Goto, IInv, Shape
<1>4. Typed'
  BY <1>1, <1>3, TypedKept DEF OInv, Typed, Busy
<1>5. \A q \in Outputs : lock[q] # p
  BY <1>3 DEF OInv, Locked, Holding, Busy
<1>6. Locked'
  <2> SUFFICES ASSUME NEW q \in Outputs, NEW r \in Procs, lock'[q] = r
               PROVE  pc'[r] \in Holding /\ Out(r)' = q
    BY DEF Locked
  <2>0. Out(r)' = Out(r)
    BY <1>3 DEF Out
  <2>1. CASE r = p
    BY <1>2, <1>3, <1>5, <2>0, <2>1 DEF Holding
  <2>2. CASE r # p
    BY <1>1, <1>3, <2>0, <2>2 DEF OInv, Locked, Alone
  <2> QED
    BY <2>1, <2>2
<1>7. ModesNoted'
  BY <1>1, <1>3, ModesKept DEF OInv, Busy
<1>8. ChunkOwned'
  BY <1>1, <1>3, ChunksKept DEF OInv
<1>9. ASSUME NEW q \in Outputs \ spoilt' PROVE Clean(q)'
  <2>1. CASE q # o
    BY <1>1, <1>3, <1>5, <2>1, CleanKept DEF OInv, Alone
  <2>2. CASE q = o
    <3>1. Clean(o) /\ UNCHANGED <<script, corpus>>
      BY <1>1, <1>3, <1>9, <2>2 DEF OInv, Alone
    <3>2. \A r \in Procs : lock[o] # r /\ (lock'[o] = r => r = p)
      BY <1>3, NoneAssumption DEF NoneAssumption
    <3>3. \A r \in Procs : lock'[o] = r => pc'[r] \notin Busy
      BY <1>3, <3>2 DEF Busy
    <3>4. /\ Indices(o)' = Indices(o) /\ Readable(o)' = Readable(o)
          /\ AllNoted(o)' => Clean(o)'
      BY <1>3, <3>1, <3>3, CorpusKept
    <3>5. AllNoted(o)'
      BY <1>3, <3>1, <3>2, <3>4 DEF Clean, AllNoted, InHandAt
    <3> QED
      BY <2>2, <3>4, <3>5
  <2> QED
    BY <2>1, <2>2
<1> QED
  BY <1>4, <1>6, <1>7, <1>8, <1>9 DEF OInv

LEMMA ResetStateOnce == ASSUME IInv, OInv, NEW p \in Procs, ResetState(p) PROVE OInv'
<1>1. Alone(p)
  BY OthersWait DEF IInv, Step, ResetState
<1>2. PICK o \in Outputs : o = Out(p)
  BY OutIsOutput DEF IInv, Out, ResetState
<1>3. /\ pc[p] = "reset state" /\ pc'[p] = "reset corpus" /\ pc[p] \in Holding
      /\ state'[o] = None /\ \A q \in Outputs \ {o} : state'[q] = state[q]
      /\ UNCHANGED <<corpus, lock, chunks, args, todo, seen, spoilt>>
  BY <1>2 DEF Goto, IInv, Shape, Holding, ResetState, history
<1>4. Typed'
  BY <1>1, <1>3, TypedKept DEF OInv, Typed, Busy
<1>5. \A q \in Procs \ {p} : pc[q] \in Busy => state'[Out(q)] = state[Out(q)]
  BY <1>2, <1>3, OneHolder DEF Holding
<1>6. ModesNoted'
  BY <1>1, <1>3, <1>5, ModesKept DEF OInv, Busy
<1>7. ChunkOwned'
  BY <1>1, <1>3, ChunksKept DEF OInv
<1>8. ASSUME o \notin spoilt PROVE Clean(o)'
  <2>1. Clean(o) /\ script' = script /\ lock[o] = p
    BY <1>1, <1>2, <1>3, <1>8 DEF OInv, Alone, IInv, LockOK
  <2>2. Indices(o)' = Indices(o) /\ ~Readable(o)'
    BY <1>3 DEF Indices, Readable
  <2>3. OnceEach(o)' /\ AllWhole(o)'
    BY <1>3, <2>1, <2>2 DEF Clean, OnceEach, AllWhole
  <2>4. OneMode(o)' /\ AllSeen(o)' /\ AllNoted(o)'
    BY <1>3, <2>1, <2>2 DEF Clean, OneMode, AllSeen, AllNoted, Busy
  <2> QED
    BY <2>3, <2>4 DEF Clean
<1> QED
  BY <1>1, <1>2, <1>3, <1>4, <1>6, <1>7, <1>8, HolderOnce DEF Holding

LEMMA ResetCorpusOnce == ASSUME IInv, OInv, NEW p \in Procs, ResetCorpus(p) PROVE OInv'
<1>1. Alone(p)
  BY OthersWait DEF IInv, Step, ResetCorpus
<1>2. PICK o \in Outputs : o = Out(p)
  BY OutIsOutput DEF IInv, Out, ResetCorpus
<1>3. /\ pc[p] = "reset corpus" /\ pc'[p] = "select" /\ pc[p] \in Holding
      /\ corpus'[o] = <<>> /\ \A q \in Outputs \ {o} : corpus'[q] = corpus[q]
      /\ spoilt' = spoilt \ {o}
      /\ UNCHANGED <<state, lock, chunks, args, todo, seen>>
  BY <1>2 DEF Goto, IInv, Shape, Holding, ResetCorpus
<1>4. Typed'
  BY <1>1, <1>3, TypedKept DEF OInv, Typed, Busy
<1>5. ModesNoted'
  BY <1>1, <1>3, ModesKept DEF OInv, Busy
\* Nobody else works on the corpus that is no longer spoilt.
<1>6. \A q \in Procs \ {p} : pc[q] = "append" => Out(q) # o
  BY <1>2, <1>3, OneHolder DEF Holding, Busy
<1>7. ChunkOwned'
  BY <1>1, <1>3, <1>6, ChunksKept DEF OInv
<1>8. Clean(o)'
  <2>1. lock[o] = p
    BY <1>2, <1>3 DEF IInv, LockOK
  <2>2. Len(corpus'[o]) = 0
    BY <1>3, EmptySeq
  <2>3. Indices(o)' = {}
    BY <2>2 DEF Indices
  <2> QED
    BY <1>3, <2>1, <2>3 DEF Clean, OnceEach, AllWhole, OneMode, AllNoted, AllSeen, Busy
<1> QED
  BY <1>1, <1>2, <1>3, <1>4, <1>5, <1>7, <1>8, HolderOnce DEF Holding

LEMMA NoIndex == \A n : n = 0 => ~\E i : i \in 1..n
OBVIOUS

\* An invocation ends.  What it leaves behind is spoilt, or it has nothing in hand.
LEMMA LeaveOnce ==
    ASSUME IInv, OInv, NEW p \in Procs, pc[p] # "idle", Leave(p), Alone(p), UNCHANGED chunks,
           \A o \in Outputs : \/ state'[o] = state[o]
                              \/ state'[o] = Torn /\ o = Out(p) /\ pc[p] \in Holding,
           spoilt \subseteq spoilt',
           \A o \in Outputs \ spoilt' :
               /\ corpus'[o] = corpus[o] /\ state'[o] = state[o]
               /\ lock[o] = p => /\ pc[p] = "reset corpus" => corpus[o] = <<>>
                                 /\ pc[p] = "save" => ~HasRecords(o, InHand(p))
    PROVE  OInv'
<1>1. /\ pc'[p] = "idle" /\ seen'[p] = Fresh
      /\ \A o \in Outputs : lock'[o] = IF lock[o] = p THEN None ELSE lock[o]
  BY DEF Leave, IInv, Shape
<1>2. Fresh \in States
  BY DEF Fresh, States, Slices
<1>3. Typed'
  BY <1>1, <1>2, TypedKept DEF OInv, Typed, Busy
<1>4. \A o \in Outputs, q \in Procs : lock'[o] = q => lock[o] = q /\ q # p
  BY <1>1, NoneAssumption DEF NoneAssumption
<1>5. Locked'
  <2> SUFFICES ASSUME NEW o \in Outputs, NEW q \in Procs, lock'[o] = q
               PROVE  pc'[q] \in Holding /\ Out(q)' = o
    BY DEF Locked
  <2>1. lock[o] = q /\ q # p
    BY <1>4
  <2>2. pc'[q] = pc[q] /\ Out(q)' = Out(q)
    BY <2>1, OthersKept DEF Alone
  <2> QED
    BY <2>1, <2>2 DEF OInv, Locked
<1>6. ModesNoted'
  <2>1. ASSUME NEW q \in Procs \ {p}, pc[q] \in Busy PROVE state'[Out(q)] = state[Out(q)]
    <3>1. Out(q) \in Outputs
      BY <2>1, OutIsOutput DEF IInv, Out, Busy
    <3>2. CASE pc[p] \in Holding
      BY <2>1, <3>1, <3>2, OneHolder DEF Holding
    <3>3. CASE pc[p] \notin Holding
      BY <3>1, <3>3
    <3> QED
      BY <3>2, <3>3
  <2>2. \A o \in Outputs : state'[o] = state[o] \/ state'[o] \in {None, Torn}
    OBVIOUS
  <2>3. pc'[p] \notin Busy
    BY <1>1 DEF Busy
  <2> QED
    BY <2>1, <2>2, <2>3, ModesKept DEF OInv
<1>7. ChunkOwned'
  BY <1>1, ChunksKept DEF OInv
<1>8. ASSUME NEW o \in Outputs \ spoilt' PROVE Clean(o)'
  <2>1. Clean(o) /\ script' = script /\ corpus'[o] = corpus[o] /\ state'[o] = state[o]
    BY <1>8 DEF OInv, Alone
  <2>2. CASE lock[o] # p
    BY <1>1, <1>4, <2>1, <2>2, CleanKept DEF Alone
  <2>3. CASE lock[o] = p
    <3>1. \A q \in Procs : lock'[o] # q
      BY <1>4, <2>3
    <3>2. /\ Indices(o)' = Indices(o) /\ Readable(o)' = Readable(o)
          /\ AllNoted(o)' => Clean(o)'
      BY <2>1, <3>1, CorpusKept
    <3>3. ASSUME NEW i \in Indices(o) PROVE Readable(o) /\ corpus[o][i].shard \in state[o].processed
      <4>1. pc[p] # "reset corpus"
        <5>1. corpus[o] = <<>> => Len(corpus[o]) = 0
          BY EmptySeq
        <5>2. Len(corpus[o]) # 0
          BY <3>3, NoIndex DEF Indices
        <5> QED
          BY <1>8, <2>3, <5>1, <5>2
      <4>2. \/ Readable(o) /\ corpus[o][i].shard \in state[o].processed
            \/ InHandAt(o, corpus[o][i].shard)
        BY <2>1, <2>3, <3>3, <4>1 DEF Clean, AllNoted
      <4>3. ~InHandAt(o, corpus[o][i].shard)
        <5>1. pc[p] = "save" => corpus[o][i].shard # InHand(p)
          BY <1>8, <2>3, <3>3 DEF HasRecords, Indices
        <5> QED
          BY <2>3, <5>1 DEF InHandAt
      <4> QED
        BY <4>2, <4>3
    <3>4. AllNoted(o)'
      BY <2>1, <3>2, <3>3 DEF AllNoted
    <3> QED
      BY <3>2, <3>4
  <2> QED
    BY <2>2, <2>3
<1> QED
  BY <1>3, <1>5, <1>6, <1>7, <1>8 DEF OInv

\* An end that changes no file and comes neither in a reset of the corpus nor in a save.
LEMMA LeaveFilesOnce ==
    ASSUME IInv, OInv, NEW p \in Procs, pc[p] \notin {"idle", "reset corpus", "save"},
           Leave(p), Alone(p), UNCHANGED <<corpus, state, chunks, spoilt>>
    PROVE  OInv'
BY LeaveOnce

LEMMA FailOnce == ASSUME IInv, OInv, NEW p \in Procs, Fail(p) \/ Finish(p) PROVE OInv'
<1>1. Alone(p)
  BY OthersWait DEF IInv, Step
<1> QED
  BY <1>1, LeaveFilesOnce DEF Fail, Finish, files, history

\* A kill that leaves a shard in a corpus that is not noted, or a state gone or torn,
\* spoils the output.
LEMMA KillOnce == ASSUME IInv, OInv, NEW p \in Procs, Kill(p) PROVE OInv'
<1>1. /\ pc[p] # "idle" /\ Leave(p) /\ UNCHANGED chunks
      /\ spoilt' \in {spoilt, spoilt \cup {Out(p)}}
  BY DEF Kill
<1>2. Alone(p)
  BY OthersWait DEF IInv
<1>3. /\ \/ corpus' = corpus
         \/ \E r : corpus' = [corpus EXCEPT ![Out(p)] = Append(@, r)]
      /\ \/ state' = state
         \/ pc[p] = "save" /\ state' = [state EXCEPT ![Out(p)] = Torn]
  BY DEF Kill
<1>4. \/ Out(p) \in spoilt'
      \/ /\ UNCHANGED <<corpus, state>>
         /\ pc[p] = "reset corpus" => corpus[Out(p)] = <<>>
         /\ pc[p] = "save" => ~HasRecords(Out(p), InHand(p))
  BY DEF Kill
<1>5. \A o \in Outputs \ {Out(p)} : corpus'[o] = corpus[o] /\ state'[o] = state[o]
  BY <1>3 DEF IInv, Shape
<1>6. \A o \in Outputs : \/ state'[o] = state[o]
                         \/ state'[o] = Torn /\ o = Out(p) /\ pc[p] \in Holding
  BY <1>3, <1>5 DEF IInv, Shape, Holding, Busy
<1>7. \A o \in Outputs : lock[o] = p => Out(p) = o
  BY DEF OInv, Locked
<1>8. ASSUME NEW o \in Outputs \ spoilt'
      PROVE  /\ corpus'[o] = corpus[o] /\ state'[o] = state[o]
             /\ lock[o] = p => /\ pc[p] = "reset corpus" => corpus[o] = <<>>
                               /\ pc[p] = "save" => ~HasRecords(o, InHand(p))
  BY <1>4, <1>5, <1>7, <1>8
<1>9. spoilt \subseteq spoilt'
  BY <1>1
<1> QED
  BY <1>1, <1>2, <1>6, <1>8, <1>9, LeaveOnce

\* What is taken for new is in the directory and has not been noted.
LEMMA NewShardsAreNew ==
    ASSUME Typed, NEW st, NEW a, NEW new \in NewShards(st, a)
    PROVE  new \in SUBSET Shards /\ new \cap st.processed = {}
<1>1. Selected(a.slice) \subseteq Shards
  BY DEF Selected, Typed
<1> QED
  BY <1>1 DEF NewShards

LEMMA NotedIsState ==
    ASSUME NEW st \in States, NEW a \in Args
    PROVE  /\ Noted(st, a) \in States /\ Noted(st, a).processed = st.processed
           /\ script[a.output] = "selfplay" => Noted(st, a).mode = a.mode
BY DEF Noted, States, Args

\* What an invocation starts from is what its corpus has: in its label mode, and noted.
LEMMA SelectOnce == ASSUME IInv, OInv, NEW p \in Procs, Select(p) PROVE OInv'
<1> DEFINE st == IF state[Out(p)] = None THEN Fresh ELSE state[Out(p)]
<1>1. Alone(p)
  BY OthersWait DEF IInv, Step
<1>2. PICK o \in Outputs : o = Out(p)
  BY OutIsOutput DEF IInv, Out, Select
<1>3. pc[p] = "select" /\ pc[p] \in Holding /\ UNCHANGED <<corpus, state, chunks, spoilt>>
  BY DEF Select, files, history, Holding
<1>4. CASE Leave(p)
  BY <1>1, <1>3, <1>4, LeaveFilesOnce
<1>5. CASE ~Leave(p)
  <2>1. PICK new \in NewShards(st, args[p]) :
          /\ state[o] # Torn /\ ~Refuses(st, args[p])
          /\ new # {} /\ todo' = [todo EXCEPT ![p] = new]
          /\ seen' = [seen EXCEPT ![p] = Noted(st, args[p])]
          /\ Goto(p, "convert")
          /\ UNCHANGED <<lock, args>>
    BY <1>2, <1>5 DEF Select
  <2>2. st \in States /\ args[p] \in Args /\ args[p].output = o /\ lock[o] = p
    <3>1. Fresh \in States
      BY DEF Fresh, States, Slices
    <3>2. state[o] \in States \cup {None, Torn}
      BY DEF OInv, Typed
    <3> QED
      BY <1>2, <1>3, <2>1, <3>1, <3>2 DEF IInv, Shape, LockOK, Out
  <2>3. state[o] = None \/ (Readable(o) /\ st = state[o])
    BY <1>2, <2>1 DEF Readable
  <2> HIDE DEF st
  <2>4. pc'[p] = "convert" /\ todo'[p] = new /\ seen'[p] = Noted(st, args[p])
    BY <2>1 DEF Goto, IInv, Shape
  <2>5. new \in (SUBSET Shards) \ {{}} /\ new \cap st.processed = {}
    BY <2>1, NewShardsAreNew DEF OInv
  <2>6. /\ Noted(st, args[p]) \in States /\ Noted(st, args[p]).processed = st.processed
        /\ script[o] = "selfplay" => Noted(st, args[p]).mode = args[p].mode
    BY <2>2, NotedIsState
  <2>7. Typed'
    BY <1>1, <1>3, <2>4, <2>5, <2>6, TypedKept DEF OInv, Typed
  \* The label mode that is noted is that of the invocation.
  <2>8. script[o] = "selfplay" /\ Readable(o) => state[o].mode = args[p].mode
    <3> SUFFICES ASSUME script[o] = "selfplay", Readable(o) PROVE state[o].mode = args[p].mode
      OBVIOUS
    <3>1. st.mode \in {None, args[p].mode} /\ st = state[o]
      BY <2>1, <2>2, <2>3 DEF Refuses, Readable
    <3>2. state[o].mode \in Modes
      BY DEF OInv, ModesNoted
    <3> QED
      BY <3>1, <3>2, NoneAssumption DEF NoneAssumption
  <2>9. ModesNoted'
    BY <1>1, <1>2, <1>3, <2>1, <2>4, <2>6, <2>8, ModesKept DEF OInv, Readable, Out
  <2>10. ChunkOwned'
    BY <1>1, <1>3, <2>4, ChunksKept DEF OInv
  <2>11. ASSUME o \notin spoilt PROVE Clean(o)'
    <3>1. Clean(o)
      BY <2>11 DEF OInv
    <3>2. UNCHANGED <<script, corpus, state>>
      BY <1>1, <1>3 DEF Alone
    <3>3. Indices(o)' = Indices(o) /\ Readable(o)' = Readable(o)
      BY <3>2 DEF Indices, Readable
    <3>4. \A q \in Procs : lock[o] = q => q = p
      BY <2>2
    <3>5. \A i \in Indices(o) : Readable(o) /\ corpus[o][i].shard \in state[o].processed
      <4>1. \A q \in Procs : lock[o] = q => pc[q] \notin {"reset corpus", "save"}
        BY <1>3, <3>4
      <4> QED
        BY <3>1, <4>1 DEF Clean, AllNoted, InHandAt
    <3>6. OnceEach(o)' /\ AllWhole(o)'
      BY <3>1, <3>2, <3>3 DEF Clean, OnceEach, AllWhole
    <3>7. script[o] = "selfplay" => \A i \in Indices(o) : corpus[o][i].mode = args[p].mode
      BY <2>8, <3>1, <3>5 DEF Clean, OneMode
    <3>8. OneMode(o)'
      <4>1. OneMode(o) /\ args' = args /\ lock' = lock
        BY <2>1, <3>1 DEF Clean
      <4> QED
        BY <3>2, <3>3, <3>4, <3>7, <4>1 DEF OneMode
    <3>9. AllNoted(o)'
      BY <3>2, <3>3, <3>5 DEF AllNoted
    <3>10. AllSeen(o)'
      <4>1. \A i \in Indices(o) : corpus[o][i].shard \in seen'[p].processed
        BY <2>3, <2>4, <2>6, <3>5 DEF Readable
      <4> QED
        BY <2>1, <3>2, <3>3, <3>4, <4>1 DEF AllSeen
    <3> QED
      BY <3>6, <3>8, <3>9, <3>10 DEF Clean
  <2>12. pc'[p] \in Holding
    BY <2>4 DEF Holding, Busy
  <2> QED
    BY <1>1, <1>2, <1>3, <2>1, <2>7, <2>9, <2>10, <2>11, <2>12, HolderOnce
<1> QED
  BY <1>4, <1>5

\* A shard is converted into a chunk of the invocation's own, unless another output has the
\* same chunk in hand, and then both are spoilt.
LEMMA ConvertOnce == ASSUME IInv, OInv, NEW p \in Procs, Convert(p) PROVE OInv'
<1> DEFINE others == {q \in Procs \ {p} : /\ pc[q] \in {"convert", "append"} /\ InHand(q) = InHand(p)
                                          /\ Tmp(Out(q)) = Tmp(Out(p))}
<1>1. Alone(p)
  BY OthersWait DEF IInv, Step
<1>2. PICK o \in Outputs : o = Out(p)
  BY OutIsOutput DEF IInv, Out, Convert
<1>3. /\ pc[p] = "convert" /\ pc[p] \in Holding
      /\ \/ pc'[p] = "append" /\ chunks' = [chunks EXCEPT ![Chunk(p)] = args[p].mode]
         \/ /\ chunks' = IF script[o] = "tb" THEN chunks ELSE [chunks EXCEPT ![Chunk(p)] = None]
            /\ pc'[p] = IF chunks'[Chunk(p)] = None THEN "save" ELSE "append"
      /\ spoilt' = IF others = {} THEN spoilt ELSE spoilt \cup {Out(q) : q \in others \cup {p}}
      /\ UNCHANGED <<corpus, state, lock, args, todo, seen>>
  BY <1>2 DEF Convert, Goto, IInv, Shape, Holding, Busy
<1>4. InHand(p)' = InHand(p) /\ Out(p)' = Out(p) /\ Chunk(p)' = Chunk(p)
  BY <1>1, <1>3 DEF InHand, Out, Chunk, Tmp, Alone
<1>5. Chunk(p) \in (Outputs \cup {None}) \X Shards
  BY <1>2, <1>3, HandIsNew DEF OInv, Chunk, Tmp, Busy
<1>6. DOMAIN chunks = (Outputs \cup {None}) \X Shards
  BY DEF OInv, Typed
<1>7. Typed'
  BY <1>1, <1>3, <1>6, TypedKept DEF OInv, Typed, Busy
<1>8. ModesNoted'
  BY <1>1, <1>3, <1>4, ModesKept DEF OInv, ModesNoted, Busy, Readable
<1>9. \A q \in Procs \ {p} : pc[q] = "append" /\ Chunk(q) = Chunk(p) => q \in others
  BY DEF Chunk
<1>10. /\ spoilt \subseteq spoilt'
       /\ \A q \in others : Out(q) \in spoilt' /\ Out(p) \in spoilt'
  BY <1>3
<1> HIDE DEF others
<1>11. ChunkOwned'
  <2>1. ASSUME NEW q \in Procs \ {p}, pc[q] = "append", Out(q) \notin spoilt'
        PROVE  Out(q) \notin spoilt /\ chunks'[Chunk(q)] = chunks[Chunk(q)]
    <3>1. Out(q) \notin spoilt /\ Chunk(q) # Chunk(p)
      BY <1>9, <1>10, <2>1
    <3>2. Out(q) \in Outputs
      BY <2>1, OutIsOutput DEF IInv, Out
    <3>3. Chunk(q) \in DOMAIN chunks
      BY <1>6, <2>1, <3>2, HandIsNew DEF OInv, Chunk, Tmp, Busy
    <3>4. chunks' = chunks \/ \E v : chunks' = [chunks EXCEPT ![Chunk(p)] = v]
      BY <1>3
    <3> QED
      BY <3>1, <3>3, <3>4
  <2>2. pc'[p] = "append" /\ script[o] = "selfplay" => chunks'[Chunk(p)] = args[p].mode
    BY <1>3, <1>5, <1>6
  <2>3. \A q \in Procs \ {p} : pc[q] = "append" /\ Chunk(q) = Chunk(p) =>
            Out(p) \in spoilt' /\ Out(q) \in spoilt'
    BY <1>9, <1>10
  <2> QED
    BY <1>1, <1>2, <1>3, <1>4, <2>1, <2>2, <2>3, ChunksKept DEF OInv
<1>12. ASSUME o \notin spoilt' PROVE Clean(o)'
  <2>1. Clean(o) /\ lock[o] = p
    BY <1>2, <1>3, <1>10, <1>12 DEF OInv, IInv, LockOK
  <2>2. UNCHANGED <<script, corpus, state>>
    BY <1>1, <1>3 DEF Alone
  <2>3. Indices(o)' = Indices(o) /\ Readable(o)' = Readable(o)
    BY <2>2 DEF Indices, Readable
  <2>4. \A q \in Procs : lock[o] = q => q = p
    BY <2>1
  <2>5. OnceEach(o)' /\ AllWhole(o)'
    BY <2>1, <2>2, <2>3 DEF Clean, OnceEach, AllWhole
  <2>6. OneMode(o)'
    <3>1. OneMode(o) /\ args' = args /\ lock' = lock /\ pc[p] \in Busy
      BY <1>3, <2>1 DEF Clean, Busy
    <3> QED
      BY <2>1, <2>2, <2>3, <2>4, <3>1 DEF OneMode
  <2>7. AllNoted(o)'
    <3>1. \A i \in Indices(o) : Readable(o) /\ corpus[o][i].shard \in state[o].processed
      <4>1. \A q \in Procs : lock[o] = q => pc[q] \notin {"reset corpus", "save"}
        BY <1>3, <2>4
      <4> QED
        BY <2>1, <4>1 DEF Clean, AllNoted, InHandAt
    <3> QED
      BY <2>2, <2>3, <3>1 DEF AllNoted
  <2>8. AllSeen(o)'
    <3>1. \A i \in Indices(o) : corpus[o][i].shard \in seen[p].processed
      BY <1>3, <2>1 DEF Clean, AllSeen, Busy
    <3> QED
      BY <1>3, <2>2, <2>3, <2>4, <3>1 DEF AllSeen
  <2> QED
    BY <2>5, <2>6, <2>7, <2>8 DEF Clean
<1>13. spoilt \ {o} \subseteq spoilt' /\ pc'[p] \in Holding
  BY <1>3, <1>10 DEF Holding, Busy
<1> QED
  BY <1>1, <1>2, <1>3, <1>7, <1>8, <1>11, <1>12, <1>13, HolderOnce

\* What is appended is whole, new to the corpus and in the one label mode.
LEMMA AppendChunkOnce == ASSUME IInv, OInv, NEW p \in Procs, AppendChunk(p) PROVE OInv'
<1>1. Alone(p)
  BY OthersWait DEF IInv, Step
<1>2. PICK o \in Outputs : o = Out(p)
  BY OutIsOutput DEF IInv, Out, AppendChunk
<1>3. CASE chunks[Chunk(p)] = None
  BY <1>1, <1>3, LeaveFilesOnce DEF AppendChunk, history
<1>4. CASE chunks[Chunk(p)] # None
  <2> DEFINE e == Records(p, TRUE)
             n == Len(corpus[o])
  <2>1. /\ pc[p] = "append" /\ pc[p] \in Holding /\ pc'[p] = "save"
        /\ corpus'[o] = Append(corpus[o], e)
        /\ \A q \in Outputs \ {o} : corpus'[q] = corpus[q]
        /\ chunks' = [chunks EXCEPT ![Chunk(p)] = None]
        /\ UNCHANGED <<state, lock, args, todo, seen, spoilt>>
    BY <1>2, <1>4 DEF AppendChunk, history, Goto, IInv, Shape, Holding, Busy
  <2>2. /\ e.shard = InHand(p) /\ e.whole /\ e.mode = chunks[Chunk(p)]
        /\ e = [shard |-> e.shard, mode |-> e.mode, whole |-> e.whole]
    BY DEF Records, Chunk
  <2> HIDE DEF e
  <2>3. InHand(p)' = InHand(p) /\ Out(p)' = Out(p)
    BY <2>1 DEF InHand, Out
  <2>4. DOMAIN chunks' = (Outputs \cup {None}) \X Shards
    BY <2>1 DEF OInv, Typed
  <2>5. Typed'
    BY <1>1, <2>1, <2>4, TypedKept DEF OInv, Typed, Busy
  <2>6. ModesNoted'
    BY <1>1, <2>1, <2>3, ModesKept DEF OInv, ModesNoted, Busy, Readable
  <2>7. \A q \in Procs \ {p} : pc[q] = "append" /\ Out(q) \notin spoilt' =>
            Out(q) \notin spoilt /\ chunks'[Chunk(q)] = chunks[Chunk(q)]
    BY <2>1 DEF OInv, ChunkOwned
  <2>8. ChunkOwned'
    BY <1>1, <2>1, <2>7, ChunksKept DEF OInv
  <2>9. ASSUME o \notin spoilt PROVE Clean(o)'
    <3>1. Clean(o) /\ lock[o] = p /\ pc[p] \in Busy
      BY <1>2, <2>1, <2>9 DEF OInv, IInv, LockOK, Busy
    <3>2. UNCHANGED <<script, state>>
      BY <1>1, <2>1 DEF Alone
    <3>3. PICK S : corpus[o] \in Seq(S)
      BY DEF IInv, Shape
    <3>4. /\ n \in Nat /\ Indices(o) = 1..n /\ Indices(o)' = 1..(n + 1)
          /\ \A i \in 1..n : corpus'[o][i] = corpus[o][i]
          /\ corpus'[o][n + 1] = e
      <4> DEFINE T == S \cup {e}
      <4>1. corpus[o] \in Seq(T) /\ e \in T
        BY <3>3
      <4>2. /\ Len(corpus[o]) \in Nat
            /\ Len(Append(corpus[o], e)) = Len(corpus[o]) + 1
            /\ \A i \in 1..Len(corpus[o]) : Append(corpus[o], e)[i] = corpus[o][i]
            /\ Append(corpus[o], e)[Len(corpus[o]) + 1] = e
        BY <4>1, AppendProperties
      <4> QED
        BY <2>1, <4>2 DEF Indices
    <3> HIDE DEF n
    <3>5. \A i \in 1..(n + 1) : i \in 1..n \/ i = n + 1
      BY <3>4
    <3>6. InHand(p) \in Shards /\ InHand(p) \notin seen[p].processed
      BY <2>1, <3>1, HandIsNew DEF OInv, ChunkOwned
    <3>7. \A i \in 1..n : corpus[o][i].shard \in seen[p].processed
      BY <2>1, <3>1, <3>4 DEF Clean, AllSeen
    <3>8. \A q \in Procs : lock[o] = q => q = p
      BY <3>1
    <3>9. OnceEach(o)'
      BY <2>2, <3>1, <3>4, <3>5, <3>6, <3>7 DEF Clean, OnceEach
    <3>10. AllWhole(o)'
      BY <2>2, <3>1, <3>2, <3>4, <3>5, <3>6 DEF Clean, AllWhole
    <3>11. script[o] = "selfplay" => e.mode = args[p].mode
      BY <1>2, <2>1, <2>2, <2>9 DEF OInv, ChunkOwned
    <3>12. script[o] = "selfplay" => \A i \in 1..(n + 1) : corpus'[o][i].mode = args[p].mode
      BY <3>1, <3>4, <3>5, <3>11 DEF Clean, OneMode
    <3>13. script[o] = "selfplay" /\ Readable(o) => state[o].mode = args[p].mode
      BY <1>2, <3>1 DEF OInv, ModesNoted
    <3>14. OneMode(o)'
      <4>1. Readable(o)' = Readable(o) /\ UNCHANGED <<script, state, args, lock>>
        BY <2>1, <3>2 DEF Readable
      <4> QED
        BY <3>4, <3>8, <3>12, <3>13, <4>1 DEF OneMode
    <3>15. \A i \in 1..n : Readable(o) /\ corpus[o][i].shard \in state[o].processed
      <4>1. \A q \in Procs : lock[o] = q => pc[q] \notin {"reset corpus", "save"}
        BY <2>1, <3>8
      <4> QED
        BY <3>1, <3>4, <4>1 DEF Clean, AllNoted, InHandAt
    <3>16. lock'[o] = p /\ pc'[p] = "save" /\ corpus'[o][n + 1].shard = InHand(p)'
      BY <2>1, <2>2, <2>3, <3>1, <3>4
    <3>17. AllNoted(o)'
      <4>1. Readable(o)' = Readable(o)
        BY <3>2 DEF Readable
      <4> QED
        BY <3>2, <3>4, <3>5, <3>15, <3>16, <4>1 DEF AllNoted, InHandAt
    <3>18. AllSeen(o)'
      <4>1. \A i \in Indices(o)' : \/ corpus'[o][i].shard \in seen'[p].processed
                                   \/ corpus'[o][i].shard = InHand(p)'
        BY <2>1, <2>2, <2>3, <3>4, <3>5, <3>7
      <4> QED
        BY <2>1, <3>8, <4>1 DEF AllSeen
    <3> QED
      BY <3>9, <3>10, <3>14, <3>17, <3>18 DEF Clean
  <2>10. pc'[p] \in Holding
    BY <2>1 DEF Holding, Busy
  <2> QED
    BY <1>1, <1>2, <2>1, <2>5, <2>6, <2>8, <2>9, <2>10, HolderOnce
<1> QED
  BY <1>3, <1>4

\* What is noted is what the corpus has.
LEMMA SaveStateOnce == ASSUME IInv, OInv, NEW p \in Procs, SaveState(p) PROVE OInv'
<1>1. Alone(p)
  BY OthersWait DEF IInv, Step
<1>2. PICK o \in Outputs : o = Out(p)
  BY OutIsOutput DEF IInv, Out, SaveState
<1>3. /\ pc[p] = "save" /\ pc[p] \in Holding /\ pc[p] \in Busy
      /\ pc'[p] = IF todo[p] = {InHand(p)} THEN "finish" ELSE "convert"
      /\ state'[o] = Saved(p) /\ \A q \in Outputs \ {o} : state'[q] = state[q]
      /\ seen'[p] = Saved(p) /\ todo'[p] = todo[p] \ {InHand(p)}
      /\ UNCHANGED <<corpus, chunks, lock, args, spoilt>>
  BY <1>2 DEF SaveState, history, Goto, IInv, Shape, Holding, Busy
<1>4. /\ InHand(p) \in todo[p] /\ InHand(p) \in Shards /\ todo[p] \subseteq Shards
      /\ todo[p] \cap seen[p].processed = {} /\ seen[p] \in States
  BY <1>3, HandIsNew DEF OInv, Typed
<1>5. /\ Saved(p) \in States /\ Saved(p).processed = seen[p].processed \cup {InHand(p)}
      /\ Saved(p).mode = seen[p].mode
  BY <1>4 DEF Saved, States
<1>6. pc'[p] \in Busy => todo'[p] # {}
  BY <1>3, <1>4 DEF Busy
<1>7. \A q \in Outputs : state'[q] \in States \cup {None, Torn}
  BY <1>3, <1>5 DEF OInv, Typed
<1>8. Typed'
  BY <1>1, <1>3, <1>4, <1>5, <1>6, <1>7, TypedKept DEF OInv, Typed
<1>9. Readable(o)'
  BY <1>3, <1>5, StateAssumption DEF StateAssumption, Readable
<1>10. script[o] = "selfplay" => Saved(p).mode = args[p].mode /\ args[p].mode \in Modes
  <2>1. args[p] \in Args
    BY <1>3 DEF IInv, Shape
  <2> QED
    BY <1>2, <1>3, <1>5, <2>1 DEF OInv, ModesNoted, Args
<1>11. ModesNoted'
  <2>1. \A q \in Outputs : \/ state'[q] = state[q] \/ state'[q] \in {None, Torn}
                           \/ script[q] = "selfplay" => state'[q].mode \in Modes
    BY <1>3, <1>10
  <2>2. \A q \in Procs \ {p} : pc[q] \in Busy => state'[Out(q)] = state[Out(q)]
    BY <1>2, <1>3, OneHolder DEF Holding
  <2>3. Out(p)' = o /\ args' = args
    BY <1>2, <1>3 DEF Out
  <2> QED
    BY <1>1, <1>3, <1>10, <2>1, <2>2, <2>3, ModesKept DEF OInv
<1>12. ChunkOwned'
  BY <1>1, <1>3, ChunksKept DEF OInv
<1>13. ASSUME o \notin spoilt PROVE Clean(o)'
  <2>1. Clean(o) /\ lock[o] = p
    BY <1>2, <1>3, <1>13 DEF OInv, IInv, LockOK
  <2>2. UNCHANGED <<script, corpus, args, lock>>
    BY <1>1, <1>3 DEF Alone
  <2>3. Indices(o)' = Indices(o)
    BY <2>2 DEF Indices
  <2>4. \A q \in Procs : lock[o] = q => q = p
    BY <2>1
  <2>5. OnceEach(o)' /\ AllWhole(o)'
    BY <2>1, <2>2, <2>3 DEF Clean, OnceEach, AllWhole
  <2>6. \A i \in Indices(o) : corpus[o][i].shard \in Saved(p).processed
    BY <1>3, <1>5, <2>1 DEF Clean, AllSeen
  <2>7. script[o] = "selfplay" => \A i \in Indices(o) : corpus[o][i].mode = args[p].mode
    BY <1>3, <2>1 DEF Clean, OneMode
  <2>8. OneMode(o)'
    BY <1>3, <1>10, <2>2, <2>3, <2>4, <2>7 DEF OneMode
  <2>9. AllNoted(o)'
    BY <1>3, <1>9, <2>2, <2>3, <2>6 DEF AllNoted
  <2>10. AllSeen(o)'
    BY <1>3, <2>2, <2>3, <2>4, <2>6 DEF AllSeen
  <2> QED
    BY <2>5, <2>8, <2>9, <2>10 DEF Clean
<1>14. pc'[p] \in Holding
  BY <1>3 DEF Holding, Busy
<1> QED
  BY <1>1, <1>2, <1>3, <1>8, <1>11, <1>12, <1>13, <1>14, HolderOnce

LEMMA NextOnce == IInv /\ OInv /\ [Next]_vars => OInv'
<1> SUFFICES ASSUME IInv, OInv, [Next]_vars PROVE OInv'
  OBVIOUS
<1>1. CASE \E s \in Shards : Arrive(s)
  BY <1>1, ArriveOnce
<1>2. ASSUME NEW p \in Procs, Start(p) PROVE OInv'
  BY <1>2, StartOnce
<1>3. ASSUME NEW p \in Procs, Step(p) PROVE OInv'
  BY <1>3, LockOnce, ResetStateOnce, ResetCorpusOnce, SelectOnce, ConvertOnce, FailOnce,
     AppendChunkOnce, SaveStateOnce DEF Step
<1>4. ASSUME NEW p \in Procs, Kill(p) PROVE OInv'
  BY <1>4, KillOnce
<1>5. CASE UNCHANGED vars
  <2> USE <1>5 DEF vars, files, history
  <2>1. Typed' /\ Locked' /\ ModesNoted'
    BY DEF OInv, Typed, Locked, ModesNoted, Readable, Out
  <2>2. ChunkOwned'
    BY DEF OInv, ChunkOwned, Chunk, Tmp, Out, InHand
  <2>3. \A o \in Outputs \ spoilt' : Clean(o)'
    BY CleanKept DEF OInv
  <2> QED
    BY <2>1, <2>2, <2>3 DEF OInv
<1> QED
  BY <1>1, <1>2, <1>3, <1>4, <1>5 DEF Next

-----------------------------------------------------------------------------
(* The theorems. *)

\* Every process that works on an output holds its lock, and what it and the state file
\* call processed is in the corpus, wherever an invocation is killed.
THEOREM Invariant == Spec => []IInv
<1> QED
  BY InitOK, NextOK, PTL DEF Spec

\* selfplay_to_bullet.py:267-358 and the other two scripts: whatever is killed, overlaps or
\* fails, what was found of a shard that is called processed is in the corpus as a whole, so
\* that no later invocation leaves it out.
THEOREM NoShardIsLost == Spec => []ProcessedIsAppended
<1>1. IInv => ProcessedIsAppended
  <2> SUFFICES ASSUME IInv, NEW o \in Outputs, Readable(o), NEW s \in state[o].processed \ Bare(o)
               PROVE  \E i \in 1..Len(corpus[o]) : corpus[o][i].shard = s /\ corpus[o][i].whole
    BY DEF ProcessedIsAppended
  <2>1. s \in WholeIn(corpus[o])
    BY DEF IInv, NotedOK, Kept
  <2> QED
    BY <2>1 DEF WholeIn
<1> QED
  BY <1>1, Invariant, PTL

\* selfplay_to_bullet.py:212-230: two invocations are never at work on one output.
THEOREM OutputsAreLocked ==
    Spec => [](\A p, q \in Procs :
                  pc[p] \in Holding /\ pc[q] \in Holding /\ Out(p) = Out(q) => p = q)
<1>1. IInv => \A p, q \in Procs :
                  pc[p] \in Holding /\ pc[q] \in Holding /\ Out(p) = Out(q) => p = q
  BY DEF IInv, LockOK
<1> QED
  BY <1>1, Invariant, PTL

\* selfplay_to_bullet.py:267-358 and the other two scripts: what is in a corpus that is not
\* spoilt is there once, whole, in the one label mode and noted, and whoever is about to
\* append has a chunk of its own: inductive over overlapping and killed invocations.
THEOREM CorporaStayClean == Spec => []OInv
<1> QED
  BY InitOnce, NextOnce, Invariant, PTL DEF Spec

\* selfplay_to_bullet.py:346-358: a shard is appended once and whole and in one label mode,
\* and every shard of the corpus is noted or about to be, for any number of overlapping
\* invocations, but for the named events.
THEOREM ShardsAreThereOnce == Spec => []ShardsOnce
<1>1. ASSUME OInv PROVE ShardsOnce
  <2> SUFFICES ASSUME NEW o \in Outputs \ spoilt
               PROVE  LET inHand == {InHand(p) : p \in {p \in Procs : lock[o] = p /\ pc[p] = "save"}}
                          known == (IF Readable(o) THEN state[o].processed ELSE {}) \cup inHand
                      IN  /\ \A s \in Shards : Copies(o, s) <= 1
                          /\ script[o] = "selfplay" =>
                                \A i, j \in 1..Len(corpus[o]) : corpus[o][i].mode = corpus[o][j].mode
                          /\ \A i \in 1..Len(corpus[o]) : corpus[o][i].whole
                          /\ (\A p \in Procs : lock[o] = p => pc[p] # "reset corpus") =>
                                {corpus[o][i].shard : i \in 1..Len(corpus[o])} \subseteq known
    BY DEF ShardsOnce
  <2>1. Clean(o)
    BY <1>1 DEF OInv
  <2>2. ASSUME NEW s \in Shards PROVE Copies(o, s) <= 1
    <3> DEFINE X == {i \in 1..Len(corpus[o]) : corpus[o][i].shard = s}
    <3>1. \A i, j \in X : i = j
      BY <2>1 DEF Clean, OnceEach, Indices
    <3>2. X = {} \/ \E i : X = {i}
      BY <3>1
    <3>3. Copies(o, s) = Cardinality(X)
      BY DEF Copies
    <3> HIDE DEF X
    <3>4. Cardinality(X) \in {0, 1}
      BY <3>2, FS_EmptySet, FS_Singleton
    <3> QED
      BY <3>3, <3>4
  <2>3. script[o] = "selfplay" =>
            \A i, j \in 1..Len(corpus[o]) : corpus[o][i].mode = corpus[o][j].mode
    BY <2>1 DEF Clean, OneMode, Indices
  <2>4. \A i \in 1..Len(corpus[o]) : corpus[o][i].whole
    BY <2>1 DEF Clean, AllWhole, Indices
  <2>5. ASSUME \A p \in Procs : lock[o] = p => pc[p] # "reset corpus", NEW i \in 1..Len(corpus[o])
        PROVE  \/ Readable(o) /\ corpus[o][i].shard \in state[o].processed
               \/ \E p \in Procs : lock[o] = p /\ pc[p] = "save" /\ corpus[o][i].shard = InHand(p)
    BY <2>1, <2>5 DEF Clean, AllNoted, InHandAt, Indices
  <2> QED
    BY <2>2, <2>3, <2>4, <2>5
<1>2. OInv => ShardsOnce
  BY <1>1
<1> QED
  BY <1>2, CorporaStayClean, PTL

=============================================================================
