--------------------------- MODULE UciLabelProofs ---------------------------
(***************************************************************************)
(* Proofs about UciLabel: a row only gets a score of its own, for any      *)
(* number of rows and of attempts.                                         *)
(*                                                                         *)
(* The task reads the queue, then what its reader has not delivered, then  *)
(* the answers to its last command; lines of a closed engine come in       *)
(* between.  IInv says which kinds of lines can be on their way to the     *)
(* task at each of its waits, and in which order: what is left over when a *)
(* search begins is no score and no best move.                             *)
(***************************************************************************)
EXTENDS UciLabel, SequenceTheorems, TLAPS

\* static_eval with an engine that reports its net at the first use: the answer to the
\* probe is left in the queue (AnswersAreOwn excepts it).
Exempt == static /\ engine = "lazy"

Reports == {"confirm", "refuse"}
Stale == {"score", "bestmove", "eval", "end"}
Kinds == Stale \cup Reports \cup {"uciok", "readyok"}
ALine == [kind : Kinds, of : {0} \cup Rows, net : BOOLEAN]
Command(kind, of) == [kind |-> kind, of |-> of]

Shape ==
    /\ engine \in {"eager", "lazy", "plain"} /\ static \in BOOLEAN
    /\ pc \in Waiting \cup {"next"}
    /\ row \in {0} \cup Rows /\ (pc = "label" => row # 0)
    /\ DOMAIN answers = Rows
    /\ alive \in BOOLEAN /\ loaded \in BOOLEAN
    /\ pipe \in Seq(ALine) /\ queue \in Seq(ALine) /\ late \in Seq(ALine)

\* The lines on their way to the task, but for those of a closed engine.
Lines == Range(queue) \cup Range(pipe)
Coming == {line.kind : line \in Lines}

\* The command the task waits for the answer of, at each of its waits.
Sent ==
    [p \in Waiting |->
        CASE p = "uciok" -> Command("uci", 0)
          [] p \in {"ready", "readyok"} -> Command("isready", 0)
          [] p = "probe" -> Command("eval", 0)
          [] p = "label" -> Command(IF static THEN "eval" ELSE "go", row)]

\* It is unanswered, or answered, or lost with the engine.
InboxOK ==
    /\ pc \in Waiting => inbox \in {<<>>, <<Sent[pc]>>}
    /\ pc = "next" => inbox = <<>>

\* Lines of a closed engine are those of a search or an evaluation, and are all in the
\* queue before the net is confirmed.
LateOK ==
    /\ \A line \in Range(late) : line.kind \in Stale
    /\ pc \in {"probe", "next", "label"} => late = <<>>

\* The kinds of lines that may come at each place, before the answer and with it.
Before ==
    [p \in Waiting |->
        CASE p \in {"uciok", "ready", "readyok"} -> Stale
          [] p = "probe" -> {"end"}
          [] p = "label" -> IF static THEN {"end"} ELSE {"eval", "end"}]

With ==
    [p \in Waiting |->
        CASE p = "uciok" -> Stale \cup {"uciok"}
          [] p \in {"ready", "readyok"} -> Stale \cup Reports \cup {"readyok"}
          [] p = "probe" -> Reports \cup {"eval", "end"}
          [] p = "label" -> IF static THEN {"eval", "end"} ELSE Stale]

ComingOK ==
    /\ pc \in Waiting => Coming \subseteq With[pc]
    /\ pc \in Waiting /\ inbox # <<>> => Coming \subseteq Before[pc]
    /\ pc \in {"ready", "readyok"} /\ late # <<>> => Coming \subseteq Stale
    /\ pc = "next" => Coming \subseteq IF static THEN {"end"} ELSE {"eval", "end"}

\* What may come after a line of a kind.
Follows ==
    [k \in Kinds |->
        IF k = "uciok" THEN Stale
        ELSE IF k \in Reports THEN {"readyok", "eval", "end"}
        ELSE IF k = "readyok" \/ (pc = "label" /\ (k = "bestmove" \/ (k = "eval" /\ static)))
               THEN {"end"}
        ELSE Kinds]

Sorted(q, p, follows) ==
    /\ \A i, j \in 1 .. Len(q) : i < j => q[j].kind \in follows[q[i].kind]
    /\ \A i, j \in 1 .. Len(p) : i < j => p[j].kind \in follows[p[i].kind]
    /\ \A i \in 1 .. Len(q), j \in 1 .. Len(p) : p[j].kind \in follows[q[i].kind]

OrderOK == Sorted(queue, pipe, Follows)

\* An engine that reports its net when it is ready does so right before it says so.
Announced(q, p) ==
    /\ \A j \in 1 .. Len(q) : q[j].kind = "readyok" => j > 1 /\ q[j - 1].kind \in Reports
    /\ \A j \in 1 .. Len(p) :
          p[j].kind = "readyok" => IF j > 1 THEN p[j - 1].kind \in Reports
                                   ELSE q # <<>> /\ q[Len(q)].kind \in Reports

AnnouncedOK == pc = "ready" /\ engine = "eager" => Announced(queue, pipe)

\* Nobody confirms a net that is not loaded, and the task comes to its rows with one.
NetOK ==
    /\ "confirm" \in Coming => loaded
    /\ pc \in {"ready", "readyok"} /\ Coming \cap Reports # {} => engine = "eager"
    /\ pc = "ready" => engine # "plain"
    /\ pc = "probe" => engine = "lazy"
    /\ pc = "readyok" => engine = "plain" \/ (engine = "eager" /\ loaded)
    /\ pc \in {"next", "label"} /\ engine # "plain" => loaded

\* The answers to the row in hand are its own.
OwnOK ==
    pc = "label" =>
        /\ score = NoScore \/ (score.of = row /\ score.net = loaded)
        /\ \A line \in Lines :
              line.kind \in {"score", "bestmove"} \/ (static /\ line.kind = "eval") =>
                line.of = row /\ line.net = loaded

Good ==
    /\ Shape /\ InboxOK /\ LateOK /\ ComingOK /\ OrderOK /\ AnnouncedOK /\ NetOK /\ OwnOK
    /\ AnswersAreOwn

\* When the task has ended nothing is expected of the engine and its lines any more.
IInv == ~Exempt => AnswersAreOwn /\ (pc \in {"done", "failed"} \/ Good)

-----------------------------------------------------------------------------
(* Facts about sequences of lines. *)

LEMMA TailFacts ==
    ASSUME NEW q \in Seq(ALine), q # <<>>
    PROVE  /\ Tail(q) \in Seq(ALine) /\ Len(Tail(q)) = Len(q) - 1 /\ Len(q) \in Nat \ {0}
           /\ Head(q) = q[1] /\ Head(q) \in ALine
           /\ \A i \in 1 .. Len(Tail(q)) : Tail(q)[i] = q[i + 1]
BY HeadTailProperties, LenProperties, EmptySeq

LEMMA AppendFacts ==
    ASSUME NEW q \in Seq(ALine), NEW l \in ALine
    PROVE  /\ Append(q, l) \in Seq(ALine) /\ Len(Append(q, l)) = Len(q) + 1 /\ Len(q) \in Nat
           /\ \A i \in 1 .. Len(q) : Append(q, l)[i] = q[i]
           /\ Append(q, l)[Len(q) + 1] = l
BY AppendProperties, LenProperties

LEMMA RangeFacts ==
    ASSUME NEW q \in Seq(ALine)
    PROVE  /\ Range(q) = {q[i] : i \in 1 .. Len(q)} /\ Range(q) \subseteq ALine
           /\ \A l \in ALine : Range(Append(q, l)) = Range(q) \cup {l}
           /\ q # <<>> => Range(q) = {Head(q)} \cup Range(Tail(q))
<1>1. Range(q) = {q[i] : i \in 1 .. Len(q)} /\ Range(q) \subseteq ALine
  BY LenProperties, ElementOfSeq DEF Range
<1>2. ASSUME NEW l \in ALine PROVE Range(Append(q, l)) = Range(q) \cup {l}
  <2>1. Range(Append(q, l)) = {Append(q, l)[i] : i \in 1 .. (Len(q) + 1)}
    BY AppendFacts, LenProperties DEF Range
  <2>2. Len(q) \in Nat /\ 1 .. (Len(q) + 1) = (1 .. Len(q)) \cup {Len(q) + 1}
    BY LenProperties
  <2> QED
    BY <1>1, <2>1, <2>2, AppendFacts
<1>3. ASSUME q # <<>> PROVE Range(q) = {Head(q)} \cup Range(Tail(q))
  <2>1. Range(Tail(q)) = {Tail(q)[i] : i \in 1 .. Len(Tail(q))}
    BY <1>3, TailFacts, LenProperties DEF Range
  <2>2. \A x \in Range(Tail(q)) : x \in Range(q)
    <3>1. \A i \in 1 .. Len(Tail(q)) : i + 1 \in 1 .. Len(q) /\ Tail(q)[i] = q[i + 1]
      BY <1>3, TailFacts
    <3> QED
      BY <1>1, <2>1, <3>1
  <2>3. Head(q) \in Range(q)
    BY <1>1, <1>3, TailFacts
  <2>4. ASSUME NEW i \in 1 .. Len(q) PROVE q[i] \in {Head(q)} \cup Range(Tail(q))
    <3>1. CASE i = 1
      BY <1>3, <3>1, TailFacts
    <3>2. CASE i # 1
      <4>1. i - 1 \in 1 .. Len(Tail(q)) /\ (i - 1) + 1 = i
        BY <1>3, <3>2, TailFacts
      <4>2. Tail(q)[i - 1] = q[i]
        BY <1>3, <4>1, TailFacts
      <4> QED
        BY <2>1, <4>1, <4>2
    <3> QED
      BY <3>1, <3>2
  <2> QED
    BY <1>1, <2>2, <2>3, <2>4
<1> QED
  BY <1>1, <1>2, <1>3

LEMMA MoveSorted ==
    ASSUME NEW q \in Seq(ALine), NEW p \in Seq(ALine), NEW f, Sorted(q, p, f), p # <<>>
    PROVE  Sorted(Append(q, Head(p)), Tail(p), f)
<1> DEFINE l == Head(p)
           a == Append(q, l)
           t == Tail(p)
<1>1. /\ l = p[1] /\ l \in ALine /\ Len(t) = Len(p) - 1 /\ Len(p) \in Nat \ {0}
      /\ \A i \in 1 .. Len(t) : t[i] = p[i + 1]
  BY TailFacts
<1>2. /\ Len(a) = Len(q) + 1 /\ Len(q) \in Nat
      /\ \A i \in 1 .. Len(q) : a[i] = q[i]
      /\ a[Len(q) + 1] = l
  BY <1>1, AppendFacts
<1> HIDE DEF l, a, t
<1>3. ASSUME NEW i \in 1 .. Len(a), NEW j \in 1 .. Len(a), i < j
      PROVE  a[j].kind \in f[a[i].kind]
  <2>1. i \in 1 .. Len(q)
    BY <1>2, <1>3
  <2>2. CASE j \in 1 .. Len(q)
    BY <1>2, <1>3, <2>1, <2>2 DEF Sorted
  <2>3. CASE j = Len(q) + 1
    <3>1. 1 \in 1 .. Len(p)
      BY <1>1
    <3> QED
      BY <1>1, <1>2, <2>1, <2>3, <3>1 DEF Sorted
  <2> QED
    BY <1>2, <2>2, <2>3
<1>4. ASSUME NEW i \in 1 .. Len(t), NEW j \in 1 .. Len(t), i < j
      PROVE  t[j].kind \in f[t[i].kind]
  <2>1. i + 1 \in 1 .. Len(p) /\ j + 1 \in 1 .. Len(p) /\ i + 1 < j + 1
    BY <1>1, <1>4
  <2> QED
    BY <1>1, <2>1 DEF Sorted
<1>5. ASSUME NEW i \in 1 .. Len(a), NEW j \in 1 .. Len(t)
      PROVE  t[j].kind \in f[a[i].kind]
  <2>1. j + 1 \in 1 .. Len(p) /\ 1 \in 1 .. Len(p) /\ 1 < j + 1 /\ t[j] = p[j + 1]
    BY <1>1
  <2>2. CASE i \in 1 .. Len(q)
    BY <1>2, <2>1, <2>2 DEF Sorted
  <2>3. CASE i = Len(q) + 1
    BY <1>1, <1>2, <2>1, <2>3 DEF Sorted
  <2> QED
    BY <1>2, <2>2, <2>3
<1>6. Sorted(a, t, f)
  BY <1>3, <1>4, <1>5 DEF Sorted
<1> QED
  BY <1>6 DEF a, t, l

LEMMA TailSorted ==
    ASSUME NEW q \in Seq(ALine), NEW p \in Seq(ALine), NEW f, Sorted(q, p, f), q # <<>>
    PROVE  /\ Sorted(Tail(q), p, f)
           /\ \A l \in Range(Tail(q)) \cup Range(p) : l.kind \in f[Head(q).kind]
<1> DEFINE t == Tail(q)
<1>1. /\ Head(q) = q[1] /\ Len(t) = Len(q) - 1 /\ Len(q) \in Nat \ {0} /\ t \in Seq(ALine)
      /\ \A i \in 1 .. Len(t) : t[i] = q[i + 1]
  BY TailFacts
<1> HIDE DEF t
<1>2. \A i \in 1 .. Len(t) : i + 1 \in 1 .. Len(q) /\ 1 < i + 1 /\ 1 \in 1 .. Len(q)
  BY <1>1
<1>3. ASSUME NEW i \in 1 .. Len(t), NEW j \in 1 .. Len(t), i < j
      PROVE  t[j].kind \in f[t[i].kind]
  <2>1. i + 1 < j + 1
    BY <1>1, <1>3
  <2> QED
    BY <1>1, <1>2, <2>1 DEF Sorted
<1>4. \A i \in 1 .. Len(t), j \in 1 .. Len(p) : p[j].kind \in f[t[i].kind]
  BY <1>1, <1>2 DEF Sorted
<1>5. Sorted(t, p, f)
  BY <1>3, <1>4 DEF Sorted
<1>6. \A j \in 1 .. Len(t) : t[j].kind \in f[Head(q).kind]
  BY <1>1, <1>2 DEF Sorted
<1>7. \A j \in 1 .. Len(p) : p[j].kind \in f[Head(q).kind]
  BY <1>1 DEF Sorted
<1>8. Range(t) = {t[i] : i \in 1 .. Len(t)} /\ Range(p) = {p[i] : i \in 1 .. Len(p)}
  BY <1>1, RangeFacts
<1> QED
  BY <1>5, <1>6, <1>7, <1>8 DEF t

\* A line comes to the end of the pipe, or to the end of the queue.
LEMMA PipeSorted ==
    ASSUME NEW q \in Seq(ALine), NEW p \in Seq(ALine), NEW f, Sorted(q, p, f), NEW l \in ALine,
           \A o \in Range(q) \cup Range(p) : l.kind \in f[o.kind]
    PROVE  Sorted(q, Append(p, l), f)
<1> DEFINE a == Append(p, l)
<1>1. /\ Len(a) = Len(p) + 1 /\ Len(p) \in Nat
      /\ \A i \in 1 .. Len(p) : a[i] = p[i]
      /\ a[Len(p) + 1] = l
  BY AppendFacts
<1> HIDE DEF a
<1>2. /\ \A i \in 1 .. Len(p) : l.kind \in f[p[i].kind]
      /\ \A i \in 1 .. Len(q) : l.kind \in f[q[i].kind]
  BY RangeFacts
<1>3. \A i, j \in 1 .. Len(a) : i < j => a[j].kind \in f[a[i].kind]
  <2> SUFFICES ASSUME NEW i \in 1 .. Len(a), NEW j \in 1 .. Len(a), i < j
               PROVE  a[j].kind \in f[a[i].kind]
    OBVIOUS
  <2>1. i \in 1 .. Len(p) /\ (j \in 1 .. Len(p) \/ j = Len(p) + 1)
    BY <1>1
  <2> QED
    BY <1>1, <1>2, <2>1 DEF Sorted
<1>4. \A i \in 1 .. Len(q), j \in 1 .. Len(a) : a[j].kind \in f[q[i].kind]
  <2> SUFFICES ASSUME NEW i \in 1 .. Len(q), NEW j \in 1 .. Len(a)
               PROVE  a[j].kind \in f[q[i].kind]
    OBVIOUS
  <2>1. j \in 1 .. Len(p) \/ j = Len(p) + 1
    BY <1>1
  <2> QED
    BY <1>1, <1>2, <2>1 DEF Sorted
<1> QED
  BY <1>3, <1>4 DEF Sorted, a

LEMMA QueueSorted ==
    ASSUME NEW q \in Seq(ALine), NEW p \in Seq(ALine), NEW f, Sorted(q, p, f), NEW l \in ALine,
           \A o \in Range(q) : l.kind \in f[o.kind],
           \A o \in Range(p) : o.kind \in f[l.kind]
    PROVE  Sorted(Append(q, l), p, f)
<1> DEFINE a == Append(q, l)
<1>1. /\ Len(a) = Len(q) + 1 /\ Len(q) \in Nat
      /\ \A i \in 1 .. Len(q) : a[i] = q[i]
      /\ a[Len(q) + 1] = l
  BY AppendFacts
<1> HIDE DEF a
<1>2. /\ \A i \in 1 .. Len(p) : p[i].kind \in f[l.kind]
      /\ \A i \in 1 .. Len(q) : l.kind \in f[q[i].kind]
  BY RangeFacts
<1>3. \A i, j \in 1 .. Len(a) : i < j => a[j].kind \in f[a[i].kind]
  <2> SUFFICES ASSUME NEW i \in 1 .. Len(a), NEW j \in 1 .. Len(a), i < j
               PROVE  a[j].kind \in f[a[i].kind]
    OBVIOUS
  <2>1. i \in 1 .. Len(q) /\ (j \in 1 .. Len(q) \/ j = Len(q) + 1)
    BY <1>1
  <2> QED
    BY <1>1, <1>2, <2>1 DEF Sorted
<1>4. \A i \in 1 .. Len(a), j \in 1 .. Len(p) : p[j].kind \in f[a[i].kind]
  <2> SUFFICES ASSUME NEW i \in 1 .. Len(a), NEW j \in 1 .. Len(p)
               PROVE  p[j].kind \in f[a[i].kind]
    OBVIOUS
  <2>1. i \in 1 .. Len(q) \/ i = Len(q) + 1
    BY <1>1
  <2> QED
    BY <1>1, <1>2, <2>1 DEF Sorted
<1> QED
  BY <1>3, <1>4 DEF Sorted, a

\* The order is also one for a table that allows more after the kinds there are.
LEMMA WeakerSorted ==
    ASSUME NEW q \in Seq(ALine), NEW p \in Seq(ALine), NEW f, NEW g, Sorted(q, p, f),
           \A l \in Range(q) \cup Range(p) : f[l.kind] \subseteq g[l.kind]
    PROVE  Sorted(q, p, g)
<1>1. /\ \A i \in 1 .. Len(q) : q[i] \in Range(q)
      /\ \A i \in 1 .. Len(p) : p[i] \in Range(p)
  BY RangeFacts
<1>2. /\ \A i \in 1 .. Len(q) : f[q[i].kind] \subseteq g[q[i].kind]
      /\ \A i \in 1 .. Len(p) : f[p[i].kind] \subseteq g[p[i].kind]
  BY <1>1
<1> QED
  BY <1>2 DEF Sorted

LEMMA MoveAnnounced ==
    ASSUME NEW q \in Seq(ALine), NEW p \in Seq(ALine), Announced(q, p), p # <<>>
    PROVE  Announced(Append(q, Head(p)), Tail(p))
<1> DEFINE l == Head(p)
           a == Append(q, l)
           t == Tail(p)
<1>1. /\ l = p[1] /\ l \in ALine /\ Len(t) = Len(p) - 1 /\ Len(p) \in Nat \ {0}
      /\ \A i \in 1 .. Len(t) : t[i] = p[i + 1]
  BY TailFacts
<1>2. /\ Len(a) = Len(q) + 1 /\ Len(q) \in Nat /\ a \in Seq(ALine)
      /\ \A i \in 1 .. Len(q) : a[i] = q[i]
      /\ a[Len(q) + 1] = l
  BY <1>1, AppendFacts
<1> HIDE DEF l, a, t
<1>3. a # <<>> /\ (q # <<>> => Len(q) # 0)
  BY <1>2, EmptySeq, LenProperties
<1>4. ASSUME NEW j \in 1 .. Len(a), a[j].kind = "readyok"
      PROVE  j > 1 /\ a[j - 1].kind \in Reports
  <2>1. CASE j \in 1 .. Len(q)
    <3>1. j > 1 /\ q[j - 1].kind \in Reports
      BY <1>2, <1>4, <2>1 DEF Announced
    <3>2. j - 1 \in 1 .. Len(q)
      BY <1>2, <2>1, <3>1
    <3> QED
      BY <1>2, <3>1, <3>2
  <2>2. CASE j = Len(q) + 1
    <3>1. p[1].kind = "readyok" /\ 1 \in 1 .. Len(p)
      BY <1>1, <1>2, <1>4, <2>2
    <3>2. q # <<>> /\ q[Len(q)].kind \in Reports
      BY <3>1 DEF Announced
    <3>3. Len(q) \in 1 .. Len(q) /\ j - 1 = Len(q)
      BY <1>2, <1>3, <2>2, <3>2
    <3> QED
      BY <1>2, <2>2, <3>2, <3>3
  <2> QED
    BY <1>2, <2>1, <2>2
<1>5. ASSUME NEW j \in 1 .. Len(t), t[j].kind = "readyok"
      PROVE  IF j > 1 THEN t[j - 1].kind \in Reports ELSE a # <<>> /\ a[Len(a)].kind \in Reports
  <2>1. j + 1 \in 1 .. Len(p) /\ j + 1 > 1 /\ t[j] = p[j + 1] /\ (j + 1) - 1 = j
    BY <1>1
  <2>2. p[j].kind \in Reports
    BY <1>5, <2>1 DEF Announced
  <2>3. CASE j > 1
    <3>1. j - 1 \in 1 .. Len(t) /\ (j - 1) + 1 = j
      BY <1>1, <2>3
    <3>2. t[j - 1] = p[j]
      BY <1>1, <3>1
    <3> QED
      BY <2>2, <2>3, <3>2
  <2>4. CASE ~(j > 1)
    <3>1. j = 1
      BY <2>4
    <3> QED
      BY <1>1, <1>2, <1>3, <2>2, <3>1
  <2> QED
    BY <2>3, <2>4
<1>6. Announced(a, t)
  BY <1>4, <1>5 DEF Announced
<1> QED
  BY <1>6 DEF a, t, l

LEMMA TailAnnounced ==
    ASSUME NEW q \in Seq(ALine), NEW p \in Seq(ALine), Announced(q, p), q # <<>>
    PROVE  /\ Head(q).kind # "readyok"
           /\ Head(q).kind \notin Reports => Announced(Tail(q), p)
<1> DEFINE t == Tail(q)
<1>1. /\ Head(q) = q[1] /\ Len(t) = Len(q) - 1 /\ Len(q) \in Nat \ {0} /\ t \in Seq(ALine)
      /\ \A i \in 1 .. Len(t) : t[i] = q[i + 1]
  BY TailFacts
<1> HIDE DEF t
<1>2. Head(q).kind # "readyok"
  BY <1>1 DEF Announced
<1>3. ASSUME Head(q).kind \notin Reports PROVE Announced(t, p)
  <2>1. ASSUME NEW j \in 1 .. Len(t), t[j].kind = "readyok"
        PROVE  j > 1 /\ t[j - 1].kind \in Reports
    <3>1. j + 1 \in 1 .. Len(q) /\ t[j] = q[j + 1] /\ (j + 1) - 1 = j
      BY <1>1
    <3>2. q[j].kind \in Reports
      BY <2>1, <3>1 DEF Announced
    <3>3. j > 1
      BY <1>1, <1>3, <3>2
    <3>4. j - 1 \in 1 .. Len(t) /\ (j - 1) + 1 = j
      BY <1>1, <3>3
    <3> QED
      BY <1>1, <3>2, <3>3, <3>4
  <2>2. ASSUME NEW j \in 1 .. Len(p), p[j].kind = "readyok"
        PROVE  IF j > 1 THEN p[j - 1].kind \in Reports
               ELSE t # <<>> /\ t[Len(t)].kind \in Reports
    <3>1. IF j > 1 THEN p[j - 1].kind \in Reports ELSE q[Len(q)].kind \in Reports
      BY <2>2 DEF Announced
    <3>2. CASE j > 1
      BY <3>1, <3>2
    <3>3. CASE ~(j > 1)
      <4>1. Len(q) # 1 /\ q[Len(q)].kind \in Reports
        BY <1>1, <1>3, <3>1, <3>3
      <4>2. Len(t) \in 1 .. Len(t) /\ Len(t) + 1 = Len(q) /\ t # <<>>
        BY <1>1, <4>1, EmptySeq
      <4> QED
        BY <1>1, <3>3, <4>1, <4>2
    <3> QED
      BY <3>2, <3>3
  <2> QED
    BY <2>1, <2>2 DEF Announced
<1> QED
  BY <1>2, <1>3 DEF t

LEMMA NoneAnnounced ==
    ASSUME NEW q \in Seq(ALine), NEW p \in Seq(ALine),
           \A l \in Range(q) \cup Range(p) : l.kind # "readyok"
    PROVE  Announced(q, p)
BY RangeFacts DEF Announced

LEMMA PipeAnnounced ==
    ASSUME NEW q \in Seq(ALine), NEW p \in Seq(ALine), Announced(q, p), NEW l \in ALine,
           l.kind # "readyok"
    PROVE  Announced(q, Append(p, l))
<1> DEFINE a == Append(p, l)
<1>1. /\ Len(a) = Len(p) + 1 /\ Len(p) \in Nat
      /\ \A i \in 1 .. Len(p) : a[i] = p[i]
      /\ a[Len(p) + 1] = l
  BY AppendFacts
<1> HIDE DEF a
<1>2. ASSUME NEW j \in 1 .. Len(a), a[j].kind = "readyok"
      PROVE  IF j > 1 THEN a[j - 1].kind \in Reports ELSE q # <<>> /\ q[Len(q)].kind \in Reports
  <2>1. j \in 1 .. Len(p) /\ (j > 1 => j - 1 \in 1 .. Len(p))
    BY <1>1, <1>2
  <2> QED
    BY <1>1, <1>2, <2>1 DEF Announced
<1>3. Announced(q, a)
  BY <1>2 DEF Announced
<1> QED
  BY <1>3 DEF a

LEMMA ReportAnnounced ==
    ASSUME NEW q \in Seq(ALine), NEW p \in Seq(ALine), NEW r \in ALine, NEW l \in ALine,
           \A o \in Range(q) \cup Range(p) : o.kind # "readyok",
           r.kind \in Reports
    PROVE  Announced(q, Append(Append(p, r), l))
<1> DEFINE b == Append(p, r)
           a == Append(b, l)
<1>1. /\ Len(b) = Len(p) + 1 /\ Len(p) \in Nat /\ b \in Seq(ALine)
      /\ \A i \in 1 .. Len(p) : b[i] = p[i]
      /\ b[Len(p) + 1] = r
  BY AppendFacts
<1>2. /\ Len(a) = Len(b) + 1
      /\ \A i \in 1 .. Len(b) : a[i] = b[i]
      /\ a[Len(b) + 1] = l
  BY <1>1, AppendFacts
<1> HIDE DEF a, b
<1>3. \A i \in 1 .. Len(p) : p[i].kind # "readyok"
  BY RangeFacts
<1>4. \A j \in 1 .. Len(q) : q[j].kind # "readyok"
  BY RangeFacts
<1>5. ASSUME NEW j \in 1 .. Len(a), a[j].kind = "readyok"
      PROVE  j > 1 /\ a[j - 1].kind \in Reports
  <2>1. CASE j = Len(p) + 2
    BY <1>1, <1>2, <2>1
  <2>2. CASE j \in 1 .. Len(p)
    BY <1>1, <1>2, <1>3, <1>5, <2>2
  <2>3. CASE j = Len(p) + 1
    BY <1>1, <1>2, <1>5, <2>3 DEF Reports
  <2> QED
    BY <1>1, <1>2, <2>1, <2>2, <2>3
<1>6. Announced(q, a)
  BY <1>4, <1>5 DEF Announced
<1> QED
  BY <1>6 DEF a, b

-----------------------------------------------------------------------------
(* Starts and ends of an engine. *)

LEMMA NoLines ==
    /\ <<>> \in Seq(ALine) /\ Range(<<>>) = {}
    /\ \A f : Sorted(<<>>, <<>>, f)
    /\ Announced(<<>>, <<>>)
BY EmptySeq DEF Range, Sorted, Announced

\* A new engine has nothing but its first command; the lines of the closed one are late.
LEMMA FreshOK ==
    ASSUME Shape, LateOK', AnswersAreOwn', UNCHANGED <<setting, row, answers>>,
           pc' = "uciok", inbox' = <<Command("uci", 0)>>, queue' = <<>>, pipe' = <<>>,
           late' \in Seq(ALine), alive' \in BOOLEAN, loaded' \in BOOLEAN
    PROVE  Good'
<1>1. Shape'
  BY NoLines DEF Shape, setting, Waiting, Rows, ALine
<1>2. Lines' = {} /\ Coming' = {}
  BY NoLines DEF Lines, Coming
<1>3. InboxOK' /\ ComingOK'
  BY <1>2 DEF InboxOK, ComingOK, Sent, Waiting
<1>4. OrderOK' /\ AnnouncedOK' /\ NetOK' /\ OwnOK'
  BY <1>2, NoLines DEF OrderOK, AnnouncedOK, NetOK, OwnOK
<1> QED
  BY <1>1, <1>3, <1>4 DEF Good

LEMMA OverOK ==
    ASSUME Good, UNCHANGED <<setting, answers>>, pc' \in {"done", "failed"}
    PROVE  IInv'
BY DEF Good, IInv, AnswersAreOwn, setting

LEMMA StartFailedOK == ASSUME Good, StartFailed PROVE IInv'
<1>1. UNCHANGED <<setting, row, answers>> /\ late' = <<>>
  BY DEF StartFailed
<1>2. AnswersAreOwn' /\ LateOK' /\ Shape /\ late' \in Seq(ALine)
  BY <1>1, NoLines DEF Good, AnswersAreOwn, setting, LateOK
<1>3. CASE attempt \in 1..(MaxAttempts - 1)
  BY <1>1, <1>2, <1>3, FreshOK DEF StartFailed, Spawn, Command, IInv
<1>4. CASE ~(attempt \in 1..(MaxAttempts - 1))
  BY <1>1, <1>4, OverOK DEF StartFailed
<1> QED
  BY <1>3, <1>4

LEMMA InitOK == Init => IInv
<1> SUFFICES ASSUME Init PROVE Good
  BY DEF IInv, Good
<1>1. Shape
  BY NoLines DEF Init, Shape, Waiting
<1>2. Lines = {} /\ Coming = {}
  BY NoLines DEF Lines, Coming, Init
<1>3. InboxOK /\ ComingOK /\ LateOK
  BY <1>2, NoLines DEF InboxOK, ComingOK, LateOK, Sent, Waiting, Init, Command
<1>4. OrderOK /\ AnnouncedOK /\ NetOK /\ OwnOK
  BY <1>2, NoLines DEF OrderOK, AnnouncedOK, NetOK, OwnOK, Init
<1>5. AnswersAreOwn
  BY DEF AnswersAreOwn, Init
<1> QED
  BY <1>1, <1>3, <1>4, <1>5 DEF Good

\* close: what a closed engine has still to say are lines of its last search.
LEMMA FlattenOne ==
    ASSUME NEW s, Len(s) = 1
    PROVE  FlattenSeq(s) = s[1]
<1> DEFINE f[i \in 1..Len(s)] == IF i = 1 THEN s[i] ELSE f[i-1] \o s[i]
<1>1. \E g : g = [i \in 1..Len(s) |-> IF i = 1 THEN s[i] ELSE g[i-1] \o s[i]]
  <2> DEFINE g == [i \in 1..Len(s) |-> s[1]]
  <2>1. g = [i \in 1..Len(s) |-> IF i = 1 THEN s[i] ELSE g[i-1] \o s[i]]
    OBVIOUS
  <2> QED
    BY <2>1
<1>2. f = [i \in 1..Len(s) |-> IF i = 1 THEN s[i] ELSE f[i-1] \o s[i]]
  BY <1>1
<1>3. f[1] = s[1]
  <2> HIDE DEF f
  <2> QED
    BY <1>2
<1>4. FlattenSeq(s) = f[Len(s)]
  BY DEF FlattenSeq
<1> QED
  BY <1>3, <1>4

StaleLine == [kind : Stale, of : {0} \cup Rows, net : BOOLEAN]

LEMMA StaleFacts ==
    /\ StaleLine \subseteq ALine
    /\ Seq(StaleLine) \subseteq Seq(ALine)
    /\ \A s \in Seq(StaleLine) : \A line \in Range(s) : line.kind \in Stale
    /\ \A s \in Seq(ALine) : (\A line \in Range(s) : line.kind \in Stale) => s \in Seq(StaleLine)
<1>1. StaleLine \subseteq ALine
  BY DEF StaleLine, ALine, Kinds
<1>2. Seq(StaleLine) \subseteq Seq(ALine)
  BY <1>1, SeqMonotonic
<1>3. ASSUME NEW s \in Seq(StaleLine), NEW line \in Range(s) PROVE line.kind \in Stale
  <2>1. PICK i \in 1 .. Len(s) : line = s[i]
    BY LenProperties DEF Range
  <2>2. line \in StaleLine
    BY <2>1, ElementOfSeq
  <2> QED
    BY <2>2 DEF StaleLine
<1>4. ASSUME NEW s \in Seq(ALine), \A line \in Range(s) : line.kind \in Stale
      PROVE  s \in Seq(StaleLine)
  <2>1. Len(s) \in Nat /\ DOMAIN s = 1 .. Len(s) /\ s = [i \in 1 .. Len(s) |-> s[i]]
    BY LenProperties, SeqDef
  <2>2. \A i \in 1 .. Len(s) : s[i] \in StaleLine
    <3> SUFFICES ASSUME NEW i \in 1 .. Len(s) PROVE s[i] \in StaleLine
      OBVIOUS
    <3>1. s[i] \in Range(s) /\ s[i] \in ALine
      BY RangeFacts, ElementOfSeq
    <3> QED
      BY <1>4, <3>1 DEF ALine, StaleLine
  <2> QED
    BY <2>1, <2>2, IsASeq
<1> QED
  BY <1>1, <1>2, <1>3, <1>4

LEMMA LastWordsStale ==
    ASSUME Good, pc = "label"
    PROVE  LastWords \subseteq Seq(StaleLine)
<1>1. pipe \in Seq(StaleLine)
  <2>1. \A line \in Range(pipe) : line.kind \in Stale
    BY DEF Good, ComingOK, Coming, Lines, Waiting, With, Stale, Kinds
  <2> QED
    BY <2>1, StaleFacts DEF Good, Shape
<1>2. inbox = <<>> \/ inbox = <<Sent["label"]>>
  BY DEF Good, InboxOK, Waiting
<1>3. Replies(0) \in Seq(StaleLine)
  <2>1. Replies(0) = [i \in 1 .. 0 |-> Reply(inbox[i])]
    BY DEF Replies, FlattenSeq
  <2>2. [i \in 1 .. 0 |-> Reply(inbox[i])] \in [1 .. 0 -> StaleLine]
    OBVIOUS
  <2>3. \A n \in Nat : [1 .. n -> StaleLine] \subseteq Seq(StaleLine)
    BY SeqDef, Zenon
  <2>4. [1 .. 0 -> StaleLine] \subseteq Seq(StaleLine)
    BY <2>3
  <2> HIDE DEF StaleLine
  <2> QED
    BY <2>1, <2>2, <2>4, Zenon
<1>4. ASSUME inbox = <<Sent["label"]>>
      PROVE  Replies(1) \in Seq(StaleLine)
  <2> DEFINE command == Sent["label"]
             s == [i \in 1 .. 1 |-> Reply(inbox[i])]
  <2>1. Len(s) = 1 /\ s[1] = Reply(command)
    BY <1>4
  <2>2. Replies(1) = Reply(command)
    BY <2>1, FlattenOne DEF Replies
  <2>3. command = Command(IF static THEN "eval" ELSE "go", row)
    BY DEF Sent, Waiting
  <2>4. row \in Rows /\ row # 0 /\ loaded \in BOOLEAN
    BY DEF Good, Shape
  <2>5. Reply(command) = IF static THEN <<Line("eval", row)>>
                         ELSE <<Line("score", row), Line("bestmove", row)>>
    <3>1. CASE static
      BY <2>3, <2>4, <3>1 DEF Reply, Command
    <3>2. CASE ~static
      BY <2>3, <3>2 DEF Reply, Command
    <3> QED
      BY <3>1, <3>2
  <2>6. \A k \in {"eval", "score", "bestmove"} : Line(k, row) \in StaleLine
    BY <2>4 DEF Line, StaleLine, Stale
  <2>7. Line("eval", row) \in StaleLine /\ Line("score", row) \in StaleLine
        /\ Line("bestmove", row) \in StaleLine
    BY <2>6
  <2>8. <<Line("eval", row)>> \in Seq(StaleLine)
    BY <2>7
  <2>9. <<Line("score", row), Line("bestmove", row)>> \in Seq(StaleLine)
    BY <2>7
  <2> HIDE DEF command, s
  <2> QED
    BY <2>2, <2>5, <2>8, <2>9
<1>5. <<End>> \in Seq(StaleLine)
  BY DEF End, StaleLine, Stale
<1>6. \A n \in 0 .. Len(inbox) : Replies(n) \in Seq(StaleLine)
  <2>1. CASE inbox = <<>>
    BY <1>3, <2>1
  <2>2. CASE inbox = <<Sent["label"]>>
    BY <1>3, <1>4, <2>2
  <2> QED
    BY <1>2, <2>1, <2>2
<1>7. \A n \in 0 .. Len(inbox) : pipe \o Replies(n) \o <<End>> \in Seq(StaleLine)
  BY <1>1, <1>5, <1>6, ConcatProperties
<1> QED
  BY <1>1, <1>7 DEF LastWords

LEMMA LabelTimeoutOK == ASSUME Good, LabelTimeout PROVE Good'
<1>1. /\ pc = "label" /\ pc' = "uciok" /\ Spawn /\ late = <<>>
      /\ UNCHANGED <<setting, row, answers>>
  BY DEF LabelTimeout, Good, LateOK
<1>2. PICK words \in LastWords : late' \in Suffixes(late \o words)
  BY DEF LabelTimeout
<1>3. words \in Seq(StaleLine) /\ late \o words = words
  BY <1>1, <1>2, LastWordsStale, ConcatEmptySeq
<1>4. late' \in Seq(StaleLine)
  <2>1. CASE late' = <<>>
    BY <2>1
  <2>2. ASSUME NEW l \in 1 .. Len(words), late' = SubSeq(words, l, Len(words))
        PROVE  late' \in Seq(StaleLine)
    BY <1>3, <2>2, SubSeqProperties, LenProperties
  <2> QED
    BY <1>2, <1>3, <2>1, <2>2 DEF Suffixes
<1>5. LateOK' /\ late' \in Seq(ALine)
  BY <1>1, <1>4, StaleFacts DEF LateOK
<1>6. AnswersAreOwn' /\ Shape
  BY <1>1 DEF Good, AnswersAreOwn, setting
<1> QED
  BY <1>1, <1>5, <1>6, FreshOK DEF Spawn, Command

-----------------------------------------------------------------------------
(* The engine and its readers. *)

\* The lines on their way have kinds, and kinds the tables know.
LEMMA LineFacts ==
    ASSUME Good
    PROVE  /\ Lines \subseteq ALine /\ Coming \subseteq Kinds
           /\ queue \in Seq(ALine) /\ pipe \in Seq(ALine)
           /\ \A line \in Range(queue) \cup Range(pipe) : line.kind \in Coming
<1>1. queue \in Seq(ALine) /\ pipe \in Seq(ALine)
  BY DEF Good, Shape
<1>2. Lines \subseteq ALine
  BY <1>1, RangeFacts DEF Lines
<1>3. Coming \subseteq Kinds
  BY <1>2 DEF Coming, ALine
<1> QED
  BY <1>1, <1>2, <1>3 DEF Coming, Lines

\* Where the task stays at its wait, the tables stay too.
LEMMA SameTables ==
    ASSUME UNCHANGED <<pc, static, row>>
    PROVE  UNCHANGED <<Sent, Before, With, Follows>>
BY DEF Sent, Before, With, Follows

LEMMA DieOK == ASSUME Good, Die PROVE Good'
<1>1. /\ pipe' = Append(pipe, End) /\ inbox' = <<>> /\ alive' = FALSE
      /\ UNCHANGED <<setting, task, loaded, late, queue>>
      /\ UNCHANGED <<engine, static, pc, row, score, answers>>
  BY DEF Die, setting, task
<1>2. End \in ALine /\ End.kind = "end"
  BY DEF End, ALine, Kinds, Stale
<1>3. pipe' \in Seq(ALine) /\ Range(pipe') = Range(pipe) \cup {End}
  BY <1>1, <1>2, LineFacts, AppendFacts, RangeFacts
<1>4. Lines' = Lines \cup {End} /\ Coming' = Coming \cup {"end"}
  BY <1>1, <1>2, <1>3 DEF Lines, Coming
<1>5. UNCHANGED <<Sent, Before, With, Follows>>
  BY <1>1, SameTables
<1>6. Shape'
  BY <1>1, <1>3 DEF Good, Shape, Rows, ALine
<1>7. InboxOK' /\ LateOK'
  BY <1>1 DEF Good, InboxOK, LateOK
<1>8. ComingOK'
  <2>1. pc \in Waiting => "end" \in With[pc]
    BY DEF With, Waiting, Stale
  <2> QED
    BY <1>1, <1>4, <1>5, <2>1 DEF Good, ComingOK, Stale
<1>9. OrderOK'
  <2>1. \A k \in Kinds : "end" \in Follows[k]
    BY DEF Follows, Stale, Kinds
  <2>2. \A o \in Range(queue) \cup Range(pipe) : End.kind \in Follows[o.kind]
    BY <1>2, <2>1, LineFacts
  <2>3. Sorted(queue, Append(pipe, End), Follows)
    BY <1>2, <2>2, LineFacts, PipeSorted DEF Good, OrderOK
  <2> QED
    BY <1>1, <1>5, <2>3 DEF OrderOK
<1>10. AnnouncedOK'
  BY <1>1, <1>2, LineFacts, PipeAnnounced DEF Good, AnnouncedOK
<1>11. NetOK' /\ OwnOK'
  BY <1>1, <1>2, <1>4 DEF Good, NetOK, OwnOK, Reports
<1>12. AnswersAreOwn'
  BY <1>1 DEF Good, AnswersAreOwn
<1> QED
  BY <1>6, <1>7, <1>8, <1>9, <1>10, <1>11, <1>12 DEF Good

LEMMA DeliverOK ==
    ASSUME Good, pipe # <<>>,
           queue' = Append(queue, Head(pipe)), pipe' = Tail(pipe),
           UNCHANGED <<setting, task, alive, loaded, inbox, late>>
    PROVE  Good'
<1>1. UNCHANGED <<engine, static, pc, row, score, answers>>
  BY DEF setting, task
<1>2. /\ Head(pipe) \in ALine /\ queue' \in Seq(ALine) /\ pipe' \in Seq(ALine)
      /\ Range(queue') = Range(queue) \cup {Head(pipe)}
      /\ Range(pipe) = {Head(pipe)} \cup Range(pipe')
  BY LineFacts, TailFacts, AppendFacts, RangeFacts
<1>3. Lines' = Lines /\ Coming' = Coming
  BY <1>2 DEF Lines, Coming
<1>4. UNCHANGED <<Sent, Before, With, Follows>>
  BY <1>1, SameTables
<1>5. Shape'
  BY <1>1, <1>2 DEF Good, Shape, Rows, ALine
<1>6. InboxOK' /\ LateOK' /\ ComingOK' /\ NetOK' /\ OwnOK'
  BY <1>1, <1>3, <1>4 DEF Good, InboxOK, LateOK, ComingOK, NetOK, OwnOK
<1>7. OrderOK'
  BY <1>4, LineFacts, MoveSorted DEF Good, OrderOK
<1>8. AnnouncedOK'
  BY <1>1, LineFacts, MoveAnnounced DEF Good, AnnouncedOK
<1>9. AnswersAreOwn'
  BY <1>1 DEF Good, AnswersAreOwn
<1> QED
  BY <1>5, <1>6, <1>7, <1>8, <1>9 DEF Good

\* read_stdout of a closed engine: its lines go to the queue of the next one.
LEMMA DeliverLateOK ==
    ASSUME Good, late # <<>>,
           queue' = Append(queue, Head(late)), late' = Tail(late),
           UNCHANGED <<setting, task, process>>
    PROVE  Good'
<1> DEFINE l == Head(late)
<1>1. UNCHANGED <<engine, static, pc, row, score, answers, alive, loaded, inbox, pipe>>
  BY DEF setting, task, process
<1>2. /\ l \in ALine /\ queue' \in Seq(ALine) /\ late' \in Seq(ALine)
      /\ Range(queue') = Range(queue) \cup {l}
      /\ Range(late) = {l} \cup Range(late')
  BY LineFacts, TailFacts, AppendFacts, RangeFacts DEF Good, Shape
<1>3. l.kind \in Stale /\ \A line \in Range(late') : line.kind \in Stale
  BY <1>2 DEF Good, LateOK
<1>4. pc \in {"uciok", "ready", "readyok"}
  BY DEF Good, Shape, LateOK, Waiting
<1>5. Lines' = Lines \cup {l} /\ Coming' = Coming \cup {l.kind}
  BY <1>1, <1>2 DEF Lines, Coming
<1>6. pc \in {"ready", "readyok"} => Coming' \subseteq Stale
  BY <1>3, <1>5 DEF Good, ComingOK
<1>7. UNCHANGED <<Sent, Before, With, Follows>>
  BY <1>1, SameTables
<1>8. Shape'
  BY <1>1, <1>2 DEF Good, Shape, Rows, ALine
<1>9. InboxOK' /\ LateOK'
  BY <1>1, <1>3, <1>4, <1>7 DEF Good, InboxOK, LateOK
<1>10. ComingOK'
  <2>1. Stale \subseteq With[pc] /\ Before[pc] = Stale
    BY <1>4 DEF With, Before, Waiting
  <2> QED
    BY <1>1, <1>3, <1>4, <1>5, <1>6, <1>7, <2>1 DEF Good, ComingOK
<1>11. OrderOK'
  <2>1. Follows[l.kind] = Kinds
    BY <1>3, <1>4 DEF Follows, Stale, Kinds, Reports
  <2>2. \A k \in Stale \cup {"uciok"} : l.kind \in Follows[k]
    BY <1>3, <1>4 DEF Follows, Stale, Kinds, Reports
  <2>3. Coming \subseteq Stale \cup {"uciok"}
    BY <1>4, <1>5, <1>6 DEF Good, ComingOK, With, Waiting
  <2>4. /\ \A o \in Range(queue) : l.kind \in Follows[o.kind]
        /\ \A o \in Range(pipe) : o.kind \in Follows[l.kind]
    BY <2>1, <2>2, <2>3, LineFacts
  <2>5. Sorted(Append(queue, l), pipe, Follows)
    <3> HIDE DEF l
    <3> QED
      BY <1>2, <2>4, LineFacts, QueueSorted DEF Good, OrderOK
  <2> QED
    BY <1>1, <1>7, <2>5 DEF OrderOK
<1>12. AnnouncedOK'
  <2> SUFFICES ASSUME pc = "ready" PROVE Announced(queue', pipe')
    BY <1>1 DEF AnnouncedOK
  <2>1. \A o \in Range(queue') \cup Range(pipe') : o.kind # "readyok"
    BY <1>6 DEF Coming, Lines, Stale
  <2>2. queue' \in Seq(ALine) /\ pipe' \in Seq(ALine)
    BY <1>1, <1>2, LineFacts
  <2> QED
    BY <2>1, <2>2, NoneAnnounced
<1>13. NetOK'
  BY <1>1, <1>3, <1>4, <1>5, <1>6 DEF Good, NetOK, Stale, Reports
<1>14. OwnOK' /\ AnswersAreOwn'
  BY <1>1, <1>4 DEF Good, OwnOK, AnswersAreOwn
<1> QED
  BY <1>8, <1>9, <1>10, <1>11, <1>12, <1>13, <1>14 DEF Good

LEMMA ReadStdoutOK == ASSUME Good, ReadStdout PROVE Good'
BY DeliverOK, DeliverLateOK DEF ReadStdout

\* What the answers to the command at hand have to be like.
LEMMA AnswerLines ==
    ASSUME Good, pc \in Waiting, inbox' = <<>>, NEW new \in SUBSET ALine,
           UNCHANGED <<setting, task, alive, loaded, late, queue>>,
           pipe' \in Seq(ALine), Range(pipe') = Range(pipe) \cup new,
           OrderOK', AnnouncedOK',
           pc \in {"ready", "readyok"} => late = <<>>,
           \A l \in new :
              /\ l.kind \in With[pc]
              /\ l.kind = "confirm" => loaded
              /\ pc \in {"ready", "readyok"} /\ l.kind \in Reports => engine = "eager"
              /\ pc = "label" => l.of = row /\ l.net = loaded
    PROVE  Good'
<1>1. UNCHANGED <<engine, static, pc, row, score, answers>>
  BY DEF setting, task
<1>2. Lines' = Lines \cup new /\ Coming' = Coming \cup {l.kind : l \in new}
  BY DEF Lines, Coming
<1>3. UNCHANGED <<Sent, Before, With, Follows>>
  BY <1>1, SameTables
<1>4. Shape'
  BY <1>1 DEF Good, Shape, Rows, ALine
<1>5. InboxOK' /\ LateOK'
  BY <1>1, <1>3 DEF Good, InboxOK, LateOK, Waiting
<1>6. ComingOK'
  BY <1>1, <1>2, <1>3 DEF Good, ComingOK, Waiting
<1>7. NetOK'
  BY <1>1, <1>2 DEF Good, NetOK
<1>8. OwnOK'
  BY <1>1, <1>2 DEF Good, OwnOK
<1>9. AnswersAreOwn'
  BY <1>1 DEF Good, AnswersAreOwn
<1> QED
  BY <1>4, <1>5, <1>6, <1>7, <1>8, <1>9 DEF Good

\* A line, or two that go together, after lines they may follow.
LEMMA PipeOne ==
    ASSUME Good, NEW l \in ALine, \A k \in Coming : l.kind \in Follows[k],
           UNCHANGED <<pc, static, row, queue>>, pipe' = pipe \o <<l>>
    PROVE  /\ pipe' \in Seq(ALine) /\ Range(pipe') = Range(pipe) \cup {l}
           /\ pipe' = Append(pipe, l)
           /\ OrderOK'
<1>1. pipe' = Append(pipe, l)
  BY LineFacts, AppendIsConcat
<1>2. pipe' \in Seq(ALine) /\ Range(pipe') = Range(pipe) \cup {l}
  BY <1>1, LineFacts, AppendFacts, RangeFacts
<1>3. \A o \in Range(queue) \cup Range(pipe) : l.kind \in Follows[o.kind]
  BY LineFacts
<1>4. Sorted(queue, Append(pipe, l), Follows)
  BY <1>3, LineFacts, PipeSorted DEF Good, OrderOK
<1>5. UNCHANGED Follows
  BY SameTables
<1> QED
  BY <1>1, <1>2, <1>4, <1>5 DEF OrderOK

LEMMA PipeTwo ==
    ASSUME Good, NEW l \in ALine, NEW m \in ALine, \A k \in Coming : l.kind \in Follows[k],
           \A k \in Coming \cup {l.kind} : m.kind \in Follows[k],
           UNCHANGED <<pc, static, row, queue>>, pipe' = pipe \o <<l, m>>
    PROVE  /\ pipe' \in Seq(ALine) /\ Range(pipe') = Range(pipe) \cup {l, m}
           /\ pipe' = Append(Append(pipe, l), m)
           /\ OrderOK'
<1> DEFINE p == Append(pipe, l)
<1>1. p \in Seq(ALine) /\ Range(p) = Range(pipe) \cup {l}
  BY LineFacts, AppendFacts, RangeFacts
<1>2. pipe' = Append(p, m)
  <2>1. <<l>> \in Seq(ALine) /\ <<m>> \in Seq(ALine) /\ <<l, m>> = <<l>> \o <<m>>
    <3> HIDE DEF ALine, p
    <3>1. <<l>> \in Seq(ALine) /\ <<m>> \in Seq(ALine)
      OBVIOUS
    <3>2. Append(<<l>>, m) = <<l>> \o <<m>>
      BY <3>1, AppendIsConcat
    <3>3. Append(<<l>>, m) = <<l, m>>
      <4> DEFINE a == Append(<<l>>, m)
                 b == <<l, m>>
      <4>1. a \in Seq(ALine) /\ Len(a) = 2 /\ a[1] = l /\ a[2] = m
        <5>1. Len(<<l>>) = 1 /\ <<l>>[1] = l
          OBVIOUS
        <5> QED
          BY <3>1, <5>1, AppendProperties
      <4>2. b \in Seq(ALine) /\ Len(b) = 2 /\ b[1] = l /\ b[2] = m
        OBVIOUS
      <4> HIDE DEF a, b
      <4>3. Len(a) = Len(b) /\ \A i \in 1 .. Len(a) : a[i] = b[i]
        BY <4>1, <4>2
      <4>4. a = b
        BY <4>1, <4>2, <4>3, SeqEqual
      <4> QED
        BY <4>4 DEF a, b
    <3> QED
      BY <3>1, <3>2, <3>3
  <2>2. pipe \o (<<l>> \o <<m>>) = (pipe \o <<l>>) \o <<m>>
    BY <2>1, LineFacts, ConcatAssociative
  <2>3. p = pipe \o <<l>>
    BY LineFacts, AppendIsConcat
  <2>4. Append(p, m) = p \o <<m>>
    BY <1>1, AppendIsConcat
  <2> HIDE DEF p
  <2> QED
    BY <2>1, <2>2, <2>3, <2>4
<1>3. Sorted(queue, p, Follows)
  <2>1. \A o \in Range(queue) \cup Range(pipe) : l.kind \in Follows[o.kind]
    BY LineFacts
  <2> QED
    BY <2>1, LineFacts, PipeSorted DEF Good, OrderOK
<1> HIDE DEF p
<1>4. pipe' \in Seq(ALine) /\ Range(pipe') = Range(pipe) \cup {l, m}
  <2>1. Append(p, m) \in Seq(ALine) /\ Range(Append(p, m)) = Range(p) \cup {m}
    BY <1>1, AppendFacts, RangeFacts
  <2> QED
    BY <1>1, <1>2, <2>1
<1>5. \A o \in Range(queue) \cup Range(p) : m.kind \in Follows[o.kind]
  BY <1>1, LineFacts
<1>6. Sorted(queue, Append(p, m), Follows)
  BY <1>1, <1>3, <1>5, LineFacts, PipeSorted
<1>7. UNCHANGED Follows
  BY SameTables
<1> QED
  BY <1>2, <1>4, <1>6, <1>7 DEF OrderOK, p

\* What the engine answers at each wait.
LEMMA Answers ==
    ASSUME Good, ~Exempt, pc \in Waiting
    PROVE  /\ pc = "uciok" => Reply(Sent[pc]) = <<Line("uciok", 0)>>
           /\ pc \in {"ready", "readyok"} =>
                Reply(Sent[pc]) =
                  IF engine = "eager"
                    THEN <<Line(IF loaded THEN "confirm" ELSE "refuse", 0), Line("readyok", 0)>>
                    ELSE <<Line("readyok", 0)>>
           /\ pc = "probe" =>
                Reply(Sent[pc]) =
                  <<Line(IF loaded THEN "confirm" ELSE "refuse", 0), Line("eval", 0)>>
           /\ pc = "label" =>
                Reply(Sent[pc]) =
                  IF static THEN <<Line("eval", row)>>
                  ELSE <<Line("score", row), Line("bestmove", row)>>
<1> DEFINE r == Line(IF loaded THEN "confirm" ELSE "refuse", 0)
<1>1. engine # "plain" => Report = <<r>>
  BY DEF Report
<1>2. \A x : <<r>> \o <<x>> = <<r, x>> /\ <<>> \o <<x>> = <<x>>
  <2> HIDE DEF r
  <2> SUFFICES ASSUME NEW x PROVE <<r>> \o <<x>> = <<r, x>> /\ <<>> \o <<x>> = <<x>>
    OBVIOUS
  <2> DEFINE S == {r, x}
  <2>1. <<r>> \in Seq(S) /\ <<x>> \in Seq(S) /\ <<r, x>> \in Seq(S)
    OBVIOUS
  <2>2. <<>> \o <<x>> = <<x>>
    BY <2>1, ConcatEmptySeq
  <2> DEFINE a == <<r>> \o <<x>>
             b == <<r, x>>
  <2>3. a \in Seq(S) /\ Len(a) = 2 /\ a[1] = r /\ a[2] = x
    <3>1. Len(<<r>>) = 1 /\ Len(<<x>>) = 1 /\ <<r>>[1] = r /\ <<x>>[1] = x
      OBVIOUS
    <3> QED
      BY <2>1, <3>1, ConcatProperties
  <2>4. b \in Seq(S) /\ Len(b) = 2 /\ b[1] = r /\ b[2] = x
    BY <2>1
  <2> HIDE DEF a, b, S
  <2>5. Len(a) = Len(b) /\ \A i \in 1 .. Len(a) : a[i] = b[i]
    BY <2>3, <2>4
  <2>6. a = b
    BY <2>3, <2>4, <2>5, SeqEqual
  <2> QED
    BY <2>2, <2>6 DEF a, b
<1>3. pc = "uciok" => Reply(Sent[pc]) = <<Line("uciok", 0)>>
  BY DEF Sent, Waiting, Reply, Command
<1>4. ASSUME pc \in {"ready", "readyok"}
      PROVE  Reply(Sent[pc]) = IF engine = "eager" THEN <<r, Line("readyok", 0)>>
                               ELSE <<Line("readyok", 0)>>
  <2>1. Sent[pc] = Command("isready", 0)
    BY <1>4 DEF Sent, Waiting
  <2>2. Reply(Sent[pc]) = (IF engine = "eager" THEN Report ELSE <<>>) \o <<Line("readyok", 0)>>
    BY <2>1 DEF Reply, Command
  <2> HIDE DEF r
  <2> QED
    BY <1>1, <1>2, <2>2
<1>5. ASSUME pc = "probe" PROVE Reply(Sent[pc]) = <<r, Line("eval", 0)>>
  <2>1. Sent[pc] = Command("eval", 0) /\ engine = "lazy"
    BY <1>5 DEF Sent, Waiting, Good, NetOK
  <2>2. Reply(Sent[pc]) = Report \o <<Line("eval", 0)>>
    BY <2>1 DEF Reply, Command
  <2> HIDE DEF r
  <2> QED
    BY <1>1, <1>2, <2>1, <2>2
<1>6. ASSUME pc = "label"
      PROVE  Reply(Sent[pc]) = IF static THEN <<Line("eval", row)>>
                               ELSE <<Line("score", row), Line("bestmove", row)>>
  <2>1. Sent[pc] = Command(IF static THEN "eval" ELSE "go", row) /\ row # 0
    BY <1>6 DEF Sent, Waiting, Good, Shape
  <2>2. CASE static
    <3>1. Reply(Sent[pc]) = <<>> \o <<Line("eval", row)>>
      BY <2>1, <2>2 DEF Reply, Command
    <3> QED
      BY <1>2, <2>2, <3>1
  <2>3. CASE ~static
    BY <2>1, <2>3 DEF Reply, Command
  <2> QED
    BY <2>2, <2>3
<1> QED
  BY <1>3, <1>4, <1>5, <1>6

LEMMA AnswerOK == ASSUME Good, ~Exempt, Answer PROVE Good'
<1>1. /\ inbox # <<>> /\ UNCHANGED <<setting, task, alive, loaded, late, queue>>
      /\ UNCHANGED <<engine, static, pc, row, score, answers>>
      /\ pipe' = pipe \o Reply(Head(inbox)) /\ inbox' = Tail(inbox)
  BY DEF Answer, setting, task
<1>2. pc \in Waiting /\ inbox = <<Sent[pc]>>
  BY <1>1 DEF Good, Shape, InboxOK
<1>3. /\ inbox' = <<>> /\ Head(inbox) = Sent[pc] /\ pipe' = pipe \o Reply(Sent[pc])
      /\ Coming \subseteq Before[pc]
  BY <1>1, <1>2 DEF Good, ComingOK
<1>4. pc \in {"ready", "readyok"} => late = <<>>
  <2>1. pc \in {"ready", "readyok"} => Head(inbox).kind = "isready"
    BY <1>3 DEF Sent, Waiting, Command
  <2> QED
    BY <2>1 DEF Answer
<1>5. \A k \in Kinds, o \in {0} \cup Rows :
        /\ Line(k, o) \in ALine /\ Line(k, o).kind = k
        /\ Line(k, o).of = o /\ Line(k, o).net = loaded
  BY DEF Line, ALine, Good, Shape
<1>6. row \in Rows \/ pc # "label"
  BY DEF Good, Shape
<1>7. CASE pc = "uciok"
  <2> DEFINE l == Line("uciok", 0)
  <2>1. pipe' = pipe \o <<l>> /\ l \in ALine /\ l.kind = "uciok"
    BY <1>2, <1>3, <1>5, <1>7, Answers DEF Kinds
  <2>2. \A k \in Coming : l.kind \in Follows[k]
    BY <1>3, <1>7, <2>1 DEF Before, Waiting, Follows, Kinds, Stale, Reports
  <2> HIDE DEF l
  <2>3. pipe' \in Seq(ALine) /\ Range(pipe') = Range(pipe) \cup {l} /\ OrderOK'
    BY <1>1, <2>1, <2>2, PipeOne
  <2>4. AnnouncedOK' /\ l.kind \in With[pc]
    BY <1>1, <1>7, <2>1 DEF AnnouncedOK, With, Waiting
  <2> QED
    BY <1>1, <1>2, <1>3, <1>7, <2>1, <2>3, <2>4, AnswerLines
<1>8. CASE pc \in {"ready", "readyok"} /\ engine # "eager"
  <2> DEFINE l == Line("readyok", 0)
  <2>1. pipe' = pipe \o <<l>> /\ l \in ALine /\ l.kind = "readyok"
    BY <1>2, <1>3, <1>5, <1>8, Answers DEF Kinds
  <2>2. \A k \in Coming : l.kind \in Follows[k]
    BY <1>3, <1>8, <2>1 DEF Before, Waiting, Follows, Kinds, Stale, Reports
  <2> HIDE DEF l
  <2>3. pipe' \in Seq(ALine) /\ Range(pipe') = Range(pipe) \cup {l} /\ OrderOK'
    BY <1>1, <2>1, <2>2, PipeOne
  <2>4. AnnouncedOK' /\ l.kind \in With[pc]
    BY <1>1, <1>8, <2>1 DEF AnnouncedOK, With, Waiting
  <2> QED
    BY <1>1, <1>2, <1>3, <1>4, <1>8, <2>1, <2>3, <2>4, AnswerLines DEF Reports
<1>9. CASE pc \in {"ready", "readyok"} /\ engine = "eager"
  <2> DEFINE l == Line(IF loaded THEN "confirm" ELSE "refuse", 0)
             m == Line("readyok", 0)
  <2>1. /\ pipe' = pipe \o <<l, m>> /\ m \in ALine /\ m.kind = "readyok"
        /\ l \in ALine /\ l.kind = IF loaded THEN "confirm" ELSE "refuse"
    BY <1>2, <1>3, <1>5, <1>9, Answers DEF Kinds, Reports
  <2>2. Coming \subseteq Stale
    BY <1>3, <1>9 DEF Before, Waiting
  <2>3. /\ \A k \in Coming : l.kind \in Follows[k]
        /\ \A k \in Coming \cup {l.kind} : m.kind \in Follows[k]
    BY <1>9, <2>1, <2>2 DEF Follows, Kinds, Stale, Reports
  <2> HIDE DEF l, m
  <2>4. /\ pipe' \in Seq(ALine) /\ Range(pipe') = Range(pipe) \cup {l, m}
        /\ pipe' = Append(Append(pipe, l), m) /\ OrderOK'
    BY <1>1, <2>1, <2>3, PipeTwo
  <2>5. AnnouncedOK'
    <3>1. \A o \in Range(queue) \cup Range(pipe) : o.kind # "readyok"
      BY <2>2, LineFacts DEF Stale
    <3>2. Announced(queue, Append(Append(pipe, l), m))
      BY <2>1, <3>1, LineFacts, ReportAnnounced DEF Reports
    <3> QED
      BY <1>1, <2>4, <3>2 DEF AnnouncedOK
  <2>6. l.kind \in With[pc] /\ m.kind \in With[pc]
    BY <1>9, <2>1 DEF With, Waiting, Reports
  <2> QED
    BY <1>1, <1>2, <1>3, <1>4, <1>9, <2>1, <2>4, <2>5, <2>6, AnswerLines DEF Reports
<1>10. CASE pc = "probe"
  <2> DEFINE l == Line(IF loaded THEN "confirm" ELSE "refuse", 0)
             m == Line("eval", 0)
  <2>1. /\ pipe' = pipe \o <<l, m>> /\ m \in ALine /\ m.kind = "eval"
        /\ l \in ALine /\ l.kind = IF loaded THEN "confirm" ELSE "refuse"
    BY <1>2, <1>3, <1>5, <1>10, Answers DEF Kinds, Reports, Stale
  <2>2. Coming \subseteq {"end"}
    BY <1>3, <1>10 DEF Before, Waiting
  <2>3. /\ \A k \in Coming : l.kind \in Follows[k]
        /\ \A k \in Coming \cup {l.kind} : m.kind \in Follows[k]
    BY <1>10, <2>1, <2>2 DEF Follows, Kinds, Stale, Reports
  <2> HIDE DEF l, m
  <2>4. /\ pipe' \in Seq(ALine) /\ Range(pipe') = Range(pipe) \cup {l, m} /\ OrderOK'
    BY <1>1, <2>1, <2>3, PipeTwo
  <2>5. AnnouncedOK' /\ l.kind \in With[pc] /\ m.kind \in With[pc]
    BY <1>1, <1>10, <2>1 DEF AnnouncedOK, With, Waiting, Reports
  <2> QED
    BY <1>1, <1>2, <1>3, <1>10, <2>1, <2>4, <2>5, AnswerLines
<1>11. CASE pc = "label" /\ static
  <2> DEFINE l == Line("eval", row)
  <2>1. /\ pipe' = pipe \o <<l>> /\ l \in ALine /\ l.kind = "eval"
        /\ l.of = row /\ l.net = loaded
    BY <1>2, <1>3, <1>5, <1>6, <1>11, Answers DEF Kinds, Stale
  <2>2. \A k \in Coming : l.kind \in Follows[k]
    BY <1>3, <1>11, <2>1 DEF Before, Waiting, Follows, Kinds, Stale, Reports
  <2> HIDE DEF l
  <2>3. pipe' \in Seq(ALine) /\ Range(pipe') = Range(pipe) \cup {l} /\ OrderOK'
    BY <1>1, <2>1, <2>2, PipeOne
  <2>4. AnnouncedOK' /\ l.kind \in With[pc]
    BY <1>1, <1>11, <2>1 DEF AnnouncedOK, With, Waiting
  <2>5. /\ {l} \subseteq ALine
        /\ \A x \in {l} :
              /\ x.kind \in With[pc]
              /\ x.kind = "confirm" => loaded
              /\ pc \in {"ready", "readyok"} /\ x.kind \in Reports => engine = "eager"
              /\ pc = "label" => x.of = row /\ x.net = loaded
    BY <1>11, <2>1, <2>4
  <2>6. pc \notin {"ready", "readyok"}
    BY <1>11
  <2> QED
    BY <1>1, <1>2, <1>3, <2>3, <2>4, <2>5, <2>6, AnswerLines
<1>12. CASE pc = "label" /\ ~static
  <2> DEFINE l == Line("score", row)
             m == Line("bestmove", row)
  <2>1. /\ pipe' = pipe \o <<l, m>> /\ m \in ALine /\ m.kind = "bestmove"
        /\ l \in ALine /\ l.kind = "score"
        /\ l.of = row /\ l.net = loaded /\ m.of = row /\ m.net = loaded
    BY <1>2, <1>3, <1>5, <1>6, <1>12, Answers DEF Kinds, Stale
  <2>2. Coming \subseteq {"eval", "end"}
    BY <1>3, <1>12 DEF Before, Waiting
  <2>3. /\ \A k \in Coming : l.kind \in Follows[k]
        /\ \A k \in Coming \cup {l.kind} : m.kind \in Follows[k]
    BY <1>12, <2>1, <2>2 DEF Follows, Kinds, Stale, Reports
  <2> HIDE DEF l, m
  <2>4. /\ pipe' \in Seq(ALine) /\ Range(pipe') = Range(pipe) \cup {l, m} /\ OrderOK'
    BY <1>1, <2>1, <2>3, PipeTwo
  <2>5. AnnouncedOK' /\ l.kind \in With[pc] /\ m.kind \in With[pc]
    BY <1>1, <1>12, <2>1 DEF AnnouncedOK, With, Waiting, Stale
  <2>6. /\ {l, m} \subseteq ALine
        /\ \A x \in {l, m} :
              /\ x.kind \in With[pc]
              /\ x.kind = "confirm" => loaded
              /\ pc \in {"ready", "readyok"} /\ x.kind \in Reports => engine = "eager"
              /\ pc = "label" => x.of = row /\ x.net = loaded
    BY <1>12, <2>1, <2>5
  <2>7. pc \notin {"ready", "readyok"}
    BY <1>12
  <2> QED
    BY <1>1, <1>2, <1>3, <2>4, <2>5, <2>6, <2>7, AnswerLines
<1> QED
  BY <1>2, <1>7, <1>8, <1>9, <1>10, <1>11, <1>12 DEF Waiting

-----------------------------------------------------------------------------
(* The task. *)

\* Where only a wait other than that for an answer begins or ends, the order is the same.
LEMMA Reordered ==
    ASSUME Good, NEW q \in Seq(ALine), Sorted(q, pipe, Follows),
           Range(q) \subseteq Range(queue),
           static' = static, queue' = q, pipe' = pipe,
           pc' # "label" \/ \A k \in Coming' : k = "end" \/ (k = "eval" /\ ~static)
    PROVE  OrderOK'
<1> DEFINE f == Follows
           g == Follows'
<1>1. \A l \in Range(q) \cup Range(pipe) : l.kind \in Kinds /\ l.kind \in Coming'
  BY LineFacts DEF Coming, Lines, Kinds
<1>2. \A l \in Range(q) \cup Range(pipe) : f[l.kind] \subseteq g[l.kind]
  <2> SUFFICES ASSUME NEW l \in Range(q) \cup Range(pipe) PROVE f[l.kind] \subseteq g[l.kind]
    OBVIOUS
  <2>1. l.kind \in Kinds /\ l.kind \in Coming'
    BY <1>1
  <2>2. CASE pc' # "label"
    BY <2>1, <2>2 DEF Follows, Kinds, Stale, Reports
  <2>3. CASE l.kind = "end" \/ (l.kind = "eval" /\ ~static)
    BY <2>1, <2>3 DEF Follows, Kinds, Stale, Reports
  <2> QED
    BY <2>1, <2>2, <2>3
<1>3. Sorted(q, pipe, f) /\ pipe \in Seq(ALine)
  BY LineFacts
<1> HIDE DEF f, g
<1>4. Sorted(q, pipe, g)
  BY <1>2, <1>3, WeakerSorted
<1> QED
  BY <1>4 DEF OrderOK, g

LEMMA NextRowOK == ASSUME Good, NextRow PROVE IInv'
<1>1. pc = "next" /\ UNCHANGED <<setting, answers>> /\ UNCHANGED <<engine, static>>
  BY DEF NextRow, setting
<1>2. CASE row = NumRows
  BY <1>1, <1>2, OverOK DEF NextRow
<1>3. CASE row # NumRows /\ ~alive
  BY <1>1, <1>3, OverOK DEF NextRow
<1>4. CASE row # NumRows /\ alive
  <2>1. /\ pc' = "label" /\ row' = row + 1 /\ score' = NoScore
        /\ inbox' = Append(inbox, [kind |-> IF static THEN "eval" ELSE "go", of |-> row + 1])
        /\ UNCHANGED <<attempt, alive, loaded, pipe, late, queue>>
    BY <1>4 DEF NextRow
  <2>2. row' \in Rows /\ row' # 0
    BY <1>4, <2>1, UciAssumption DEF Good, Shape, Rows
  <2>3. inbox' = <<Sent'["label"]>>
    <3>1. inbox = <<>>
      BY <1>1 DEF Good, InboxOK
    <3>2. Sent'["label"] = [kind |-> IF static THEN "eval" ELSE "go", of |-> row + 1]
      BY <1>1, <2>1 DEF Sent, Waiting, Command
    <3> QED
      BY <2>1, <3>1, <3>2
  <2>4. Lines' = Lines /\ Coming' = Coming /\ Coming \subseteq IF static THEN {"end"} ELSE {"eval", "end"}
    BY <1>1, <2>1 DEF Lines, Coming, Good, ComingOK, Waiting
  <2>5. Shape'
    BY <1>1, <2>1, <2>2 DEF Good, Shape, Rows, ALine, Waiting
  <2>6. InboxOK' /\ LateOK'
    BY <1>1, <2>1, <2>3 DEF Good, InboxOK, LateOK, Waiting
  <2>7. ComingOK'
    <3>1. Before'["label"] \subseteq With'["label"]
          /\ Before'["label"] = IF static THEN {"end"} ELSE {"eval", "end"}
      BY <1>1 DEF Before, With, Waiting, Stale
    <3> QED
      BY <2>1, <2>4, <3>1 DEF ComingOK, Waiting
  <2>8. OrderOK'
    <3>1. \A k \in Coming' : k = "end" \/ (k = "eval" /\ ~static)
      BY <2>4
    <3> QED
      BY <1>1, <2>1, <3>1, LineFacts, Reordered DEF Good, OrderOK
  <2>9. AnnouncedOK' /\ NetOK'
    BY <1>1, <2>1, <2>4 DEF Good, AnnouncedOK, NetOK
  <2>10. OwnOK'
    <3>1. \A line \in Lines' : line.kind \in Coming'
      BY DEF Coming
    <3> QED
      BY <1>1, <2>1, <2>4, <3>1 DEF OwnOK
  <2>11. AnswersAreOwn'
    BY <1>1 DEF Good, AnswersAreOwn
  <2> QED
    BY <2>5, <2>6, <2>7, <2>8, <2>9, <2>10, <2>11 DEF Good, IInv
<1> QED
  BY <1>2, <1>3, <1>4

LEMMA TakeLine ==
    ASSUME Good, queue # <<>>, queue' = Tail(queue), pipe' = pipe
    PROVE  /\ queue' \in Seq(ALine) /\ Head(queue) \in Lines /\ Head(queue).kind \in Coming
           /\ Lines' \subseteq Lines /\ Coming' \subseteq Coming
           /\ Range(queue') \subseteq Range(queue)
           /\ Sorted(queue', pipe, Follows)
           /\ Coming' \subseteq Follows[Head(queue).kind]
<1>1. /\ queue' \in Seq(ALine) /\ Range(queue) = {Head(queue)} \cup Range(queue')
  BY LineFacts, TailFacts, RangeFacts
<1>2. Head(queue) \in Lines /\ Lines' \subseteq Lines /\ Range(queue') \subseteq Range(queue)
  BY <1>1 DEF Lines
<1>3. Head(queue).kind \in Coming /\ Coming' \subseteq Coming
  BY <1>2 DEF Coming
<1>4. /\ Sorted(Tail(queue), pipe, Follows)
      /\ \A l \in Range(Tail(queue)) \cup Range(pipe) : l.kind \in Follows[Head(queue).kind]
  BY LineFacts, TailSorted DEF Good, OrderOK
<1>5. Coming' \subseteq Follows[Head(queue).kind]
  BY <1>4 DEF Coming, Lines
<1> QED
  BY <1>1, <1>2, <1>3, <1>4, <1>5

\* A line is taken and the task waits on.
LEMMA TakenOK ==
    ASSUME Good, queue # <<>>, queue' = Tail(queue),
           UNCHANGED <<setting, pc, row, answers, process, late>>,
           pc = "ready" => Head(queue).kind \notin Reports,
           score' = score \/ (score'.of = row /\ score'.net = loaded)
    PROVE  Good'
<1>1. UNCHANGED <<engine, static, alive, loaded, inbox, pipe>>
  BY DEF setting, process
<1>2. /\ queue' \in Seq(ALine) /\ Lines' \subseteq Lines /\ Coming' \subseteq Coming
      /\ Sorted(queue', pipe, Follows)
  BY <1>1, TakeLine
<1>3. UNCHANGED <<Sent, Before, With, Follows>>
  BY <1>1, SameTables
<1>4. Shape'
  BY <1>1, <1>2 DEF Good, Shape, Rows, ALine
<1>5. InboxOK' /\ LateOK' /\ ComingOK' /\ NetOK'
  BY <1>1, <1>2, <1>3 DEF Good, InboxOK, LateOK, ComingOK, NetOK
<1>6. OrderOK'
  BY <1>1, <1>2, <1>3 DEF OrderOK
<1>7. AnnouncedOK'
  <2>1. CASE pc = "ready" /\ engine = "eager"
    <3>1. Announced(queue, pipe)
      BY <2>1 DEF Good, AnnouncedOK
    <3>2. Announced(Tail(queue), pipe)
      BY <2>1, <3>1, LineFacts, TailAnnounced
    <3> QED
      BY <1>1, <3>2 DEF AnnouncedOK
  <2>2. CASE ~(pc = "ready" /\ engine = "eager")
    BY <1>1, <2>2 DEF AnnouncedOK
  <2> QED
    BY <2>1, <2>2
<1>8. OwnOK'
  BY <1>1, <1>2 DEF Good, OwnOK
<1>9. AnswersAreOwn'
  BY <1>1 DEF Good, AnswersAreOwn
<1> QED
  BY <1>4, <1>5, <1>6, <1>7, <1>8, <1>9 DEF Good

\* The handshake goes on to its next wait, or to the rows.
LEMMA ProceedOK ==
    ASSUME Good, queue # <<>>, queue' = Tail(queue),
           UNCHANGED <<setting, row, attempt, score, answers, alive, loaded, pipe, late>>,
           pc' \in {"ready", "readyok", "probe", "next"},
           InboxOK', LateOK', ComingOK', AnnouncedOK', NetOK'
    PROVE  Good'
<1>1. UNCHANGED <<engine, static>>
  BY DEF setting
<1>2. /\ queue' \in Seq(ALine) /\ Range(queue') \subseteq Range(queue)
      /\ Sorted(queue', pipe, Follows)
  BY TakeLine
<1>3. Shape'
  BY <1>1, <1>2 DEF Good, Shape, Rows, ALine, Waiting
<1>4. OrderOK'
  BY <1>1, <1>2, Reordered
<1>5. OwnOK' /\ AnswersAreOwn'
  BY <1>1 DEF Good, OwnOK, AnswersAreOwn
<1> QED
  BY <1>3, <1>4, <1>5 DEF Good

LEMMA Commanded == \A c : <<>> \o <<c>> = <<c>> /\ Len(<<c>>) = 1
<1> SUFFICES ASSUME NEW c PROVE <<>> \o <<c>> = <<c>> /\ Len(<<c>>) = 1
  OBVIOUS
<1>1. <<c>> \in Seq({c})
  OBVIOUS
<1> QED
  BY <1>1, ConcatEmptySeq

\* Nothing is ready, reported or late while an answer is still asked for.
LEMMA Answered ==
    ASSUME Good, pc \in Waiting, Coming \cap (Reports \cup {"uciok", "readyok"}) # {}
    PROVE  /\ inbox = <<>>
           /\ pc \in {"ready", "readyok"} => late = <<>>
<1>1. Before[pc] \subseteq Stale
  BY DEF Before, Waiting, Stale
<1>2. ~(Coming \subseteq Stale)
  BY DEF Stale, Reports
<1> QED
  BY <1>1, <1>2 DEF Good, InboxOK, ComingOK

LEMMA UciokOK ==
    ASSUME Good, queue # <<>>, pc = "uciok", Head(queue).kind = "uciok",
           Proceed(IF engine = "plain" THEN "readyok" ELSE "ready", <<[kind |-> "isready", of |-> 0]>>)
    PROVE  IInv'
<1> DEFINE c == [kind |-> "isready", of |-> 0]
<1>1. <<c>> # <<>> /\ c = Command("isready", 0)
  BY DEF Command
<1> HIDE DEF c
<1>2. CASE ~alive
  BY <1>1, <1>2, StartFailedOK DEF Proceed, c
<1>3. CASE alive
  <2>1. /\ pc' = IF engine = "plain" THEN "readyok" ELSE "ready"
        /\ inbox' = inbox \o <<c>> /\ queue' = Tail(queue)
        /\ UNCHANGED <<setting, row, attempt, score, answers, alive, loaded, pipe, late>>
        /\ UNCHANGED <<engine, static>>
    BY <1>3 DEF Proceed, c, setting
  <2>2. /\ Head(queue).kind \in Coming /\ Coming' \subseteq Follows["uciok"]
        /\ queue' \in Seq(ALine)
    BY <2>1, TakeLine
  <2>3. Coming' \subseteq Stale
    BY <2>2 DEF Follows, Kinds
  <2>4. inbox' = <<Command("isready", 0)>> /\ pc' \in {"ready", "readyok"}
    BY <1>1, <2>1, <2>2, Answered, Commanded DEF Waiting
  <2>5. InboxOK' /\ LateOK'
    BY <2>1, <2>4 DEF Good, InboxOK, LateOK, Sent, Waiting
  <2>6. ComingOK'
    BY <2>3, <2>4 DEF ComingOK, With, Before, Waiting
  <2>7. NetOK'
    BY <2>1, <2>3, <2>4 DEF NetOK, Stale, Reports
  <2>8. AnnouncedOK'
    <3>1. \A l \in Range(queue') \cup Range(pipe') : l.kind # "readyok"
      BY <2>3 DEF Coming, Lines, Stale
    <3> QED
      BY <2>1, <2>2, <3>1, LineFacts, NoneAnnounced DEF AnnouncedOK
  <2> QED
    BY <2>1, <2>4, <2>5, <2>6, <2>7, <2>8, ProceedOK DEF Good, IInv
<1> QED
  BY <1>2, <1>3 DEF Good, Shape

LEMMA ReportedOK ==
    ASSUME Good, queue # <<>>, pc = "ready", Head(queue).kind = "confirm", Proceed("readyok", <<>>)
    PROVE  IInv'
<1>1. /\ pc' = "readyok" /\ inbox' = inbox \o <<>> /\ queue' = Tail(queue)
      /\ UNCHANGED <<setting, row, attempt, score, answers, alive, loaded, pipe, late>>
      /\ UNCHANGED <<engine, static>>
  BY DEF Proceed, setting
<1>2. Head(queue).kind \in Coming /\ Coming' \subseteq Coming
  BY <1>1, TakeLine
<1>3. inbox = <<>> /\ late = <<>> /\ engine = "eager" /\ loaded
  BY <1>2, Answered DEF Waiting, Reports, Good, NetOK
<1>4. inbox' = <<>>
  BY <1>1, <1>3, ConcatEmptySeq, EmptySeq
<1>5. InboxOK' /\ LateOK'
  BY <1>1, <1>3, <1>4 DEF Good, InboxOK, LateOK, Waiting
<1>6. ComingOK'
  BY <1>1, <1>2, <1>3, <1>4 DEF Good, ComingOK, With, Waiting
<1>7. NetOK' /\ AnnouncedOK'
  BY <1>1, <1>3 DEF NetOK, AnnouncedOK
<1> QED
  BY <1>1, <1>5, <1>6, <1>7, ProceedOK DEF Good, IInv

\* Only an engine that has not said anything of its net is asked for an evaluation.
LEMMA UnreportedOK ==
    ASSUME Good, queue # <<>>, pc = "ready", Head(queue).kind = "readyok",
           Proceed("probe", <<[kind |-> "eval", of |-> 0]>>)
    PROVE  IInv'
<1> DEFINE c == [kind |-> "eval", of |-> 0]
<1>1. <<c>> # <<>> /\ c = Command("eval", 0)
  BY DEF Command
<1> HIDE DEF c
<1>2. CASE ~alive
  BY <1>1, <1>2, StartFailedOK DEF Proceed, c
<1>3. CASE alive
  <2>1. /\ pc' = "probe" /\ inbox' = inbox \o <<c>> /\ queue' = Tail(queue)
        /\ UNCHANGED <<setting, row, attempt, score, answers, alive, loaded, pipe, late>>
        /\ UNCHANGED <<engine, static>>
    BY <1>3 DEF Proceed, c, setting
  <2>2. /\ Head(queue).kind \in Coming /\ Coming' \subseteq Follows["readyok"]
    BY <2>1, TakeLine
  <2>3. Coming' \subseteq {"end"}
    BY <2>2 DEF Follows, Kinds, Reports
  <2>4. inbox' = <<Command("eval", 0)>> /\ late = <<>>
    BY <1>1, <2>1, <2>2, Answered, Commanded DEF Waiting
  <2>5. engine = "lazy"
    <3>1. engine # "eager"
      BY LineFacts, TailAnnounced DEF Good, AnnouncedOK
    <3> QED
      BY <3>1 DEF Good, Shape, NetOK
  <2>6. InboxOK' /\ LateOK'
    BY <2>1, <2>4 DEF Good, InboxOK, LateOK, Sent, Waiting
  <2>7. ComingOK'
    BY <2>1, <2>3 DEF ComingOK, With, Before, Waiting
  <2>8. NetOK' /\ AnnouncedOK'
    BY <2>1, <2>3, <2>5 DEF NetOK, AnnouncedOK, Reports
  <2> QED
    BY <2>1, <2>6, <2>7, <2>8, ProceedOK DEF Good, IInv
<1> QED
  BY <1>2, <1>3 DEF Good, Shape

\* The task comes to its rows with a net and nothing but the end of the engine on its way,
\* or the answer to the probe.
LEMMA RowsOK ==
    ASSUME Good, ~Exempt, queue # <<>>,
           \/ pc = "readyok" /\ Head(queue).kind = "readyok"
           \/ pc = "probe" /\ Head(queue).kind = "confirm",
           Proceed("next", <<>>)
    PROVE  IInv'
<1>1. /\ pc' = "next" /\ inbox' = inbox \o <<>> /\ queue' = Tail(queue)
      /\ UNCHANGED <<setting, row, attempt, score, answers, alive, loaded, pipe, late>>
      /\ UNCHANGED <<engine, static>>
  BY DEF Proceed, setting
<1>2. /\ Head(queue).kind \in Coming /\ Coming' \subseteq Coming
      /\ Coming' \subseteq Follows[Head(queue).kind]
  BY <1>1, TakeLine
<1>3. inbox = <<>> /\ late = <<>>
  BY <1>2, Answered DEF Waiting, Reports, Good, LateOK
<1>4. Coming' \subseteq IF static THEN {"end"} ELSE {"eval", "end"}
  <2>1. CASE pc = "readyok"
    BY <1>2, <2>1 DEF Follows, Kinds, Reports
  <2>2. CASE pc = "probe"
    <3>1. ~static
      BY <2>2 DEF Good, NetOK, Exempt
    <3>2. Coming \subseteq Reports \cup {"eval", "end"}
      BY <2>2 DEF Good, ComingOK, With, Waiting
    <3>3. Follows["confirm"] = {"readyok", "eval", "end"}
      BY DEF Follows, Kinds, Reports
    <3> QED
      BY <1>2, <2>2, <3>1, <3>2, <3>3 DEF Reports
  <2> QED
    BY <2>1, <2>2
<1>5. engine # "plain" => loaded
  BY <1>2 DEF Good, NetOK
<1>6. inbox' = <<>>
  BY <1>1, <1>3, ConcatEmptySeq, EmptySeq
<1>7. InboxOK' /\ LateOK'
  BY <1>1, <1>3, <1>6 DEF Good, InboxOK, LateOK, Waiting
<1>8. ComingOK'
  BY <1>1, <1>4 DEF ComingOK, Waiting
<1>9. NetOK' /\ AnnouncedOK'
  BY <1>1, <1>4, <1>5 DEF NetOK, AnnouncedOK
<1> QED
  BY <1>1, <1>7, <1>8, <1>9, ProceedOK DEF Good, IInv

LEMMA HandshakeLineOK == ASSUME Good, ~Exempt, HandshakeLine PROVE IInv'
<1> DEFINE k == Head(queue).kind
<1>1. pc \in Waiting \ {"label"} /\ queue # <<>>
  BY DEF HandshakeLine
<1>2. CASE k = "end" \/ (pc \in {"ready", "probe"} /\ k = "refuse")
  <2>1. StartFailed
    BY <1>2 DEF HandshakeLine
  <2> QED
    BY <2>1, StartFailedOK
<1>3. CASE pc = "uciok" /\ k = "uciok"
  BY <1>1, <1>3, UciokOK DEF HandshakeLine
<1>4. CASE pc = "ready" /\ k = "confirm"
  BY <1>1, <1>4, ReportedOK DEF HandshakeLine
<1>5. CASE pc = "ready" /\ k = "readyok"
  BY <1>1, <1>5, UnreportedOK DEF HandshakeLine
<1>6. CASE (pc = "readyok" /\ k = "readyok") \/ (pc = "probe" /\ k = "confirm")
  <2>1. Proceed("next", <<>>)
    BY <1>6 DEF HandshakeLine
  <2> QED
    BY <1>1, <1>6, <2>1, RowsOK
<1>7. CASE ~(\/ k = "end" \/ (pc \in {"ready", "probe"} /\ k = "refuse")
             \/ (pc = "uciok" /\ k = "uciok") \/ (pc = "ready" /\ k = "confirm")
             \/ (pc = "ready" /\ k = "readyok") \/ (pc = "readyok" /\ k = "readyok")
             \/ (pc = "probe" /\ k = "confirm"))
  <2>1. Skip
    BY <1>7 DEF HandshakeLine
  <2>2. pc = "ready" => k \notin Reports
    BY <1>7 DEF Reports
  <2>3. /\ queue' = Tail(queue) /\ UNCHANGED <<setting, pc, row, answers, process, late>>
        /\ score' = score
    BY <2>1 DEF Skip, task
  <2> QED
    BY <1>1, <2>2, <2>3, TakenOK DEF Good, IInv
<1> QED
  BY <1>2, <1>3, <1>4, <1>5, <1>6, <1>7

\* One line of the answer to the row in hand.
LEMMA AnsweredOK ==
    ASSUME Good, ~Exempt, pc = "label", queue # <<>>,
           NEW answer, answer = NoScore \/ (answer.of = row /\ answer.net = loaded),
           Head(queue).kind = "bestmove" \/ (static /\ Head(queue).kind = "eval"),
           answers' = [answers EXCEPT ![row] = answer],
           pc' = "next", queue' = Tail(queue),
           UNCHANGED <<setting, row, attempt, score, process, late>>
    PROVE  Good'
<1>1. UNCHANGED <<engine, static, alive, loaded, inbox, pipe>>
  BY DEF setting, process
<1>2. /\ Head(queue).kind \in Coming /\ Coming' \subseteq Follows[Head(queue).kind]
      /\ queue' \in Seq(ALine) /\ Range(queue') \subseteq Range(queue)
      /\ Sorted(queue', pipe, Follows)
  BY <1>1, TakeLine
<1>3. Coming' \subseteq {"end"}
  BY <1>2 DEF Follows, Kinds, Stale, Reports
<1>4. inbox = <<>> /\ late = <<>>
  <2>1. ~(Coming \subseteq Before["label"])
    BY <1>2 DEF Before, Waiting
  <2> QED
    BY <2>1 DEF Good, InboxOK, ComingOK, LateOK, Waiting
<1>5. Shape'
  BY <1>1, <1>2 DEF Good, Shape, Rows, ALine, Waiting
<1>6. InboxOK' /\ LateOK'
  BY <1>1, <1>4 DEF Good, InboxOK, LateOK, Waiting
<1>7. ComingOK' /\ AnnouncedOK' /\ OwnOK'
  BY <1>3 DEF ComingOK, AnnouncedOK, OwnOK, Waiting
<1>8. OrderOK'
  BY <1>1, <1>2, Reordered
<1>9. NetOK'
  BY <1>1, <1>3 DEF Good, NetOK
<1>10. AnswersAreOwn'
  BY <1>1 DEF Good, AnswersAreOwn, Shape, NetOK
<1> QED
  BY <1>5, <1>6, <1>7, <1>8, <1>9, <1>10 DEF Good

LEMMA LabelLineOK == ASSUME Good, ~Exempt, LabelLine PROVE IInv'
<1> DEFINE line == Head(queue)
<1>1. pc = "label" /\ queue # <<>>
  BY DEF LabelLine
<1>2. /\ line \in Lines
      /\ line.kind \in {"score", "bestmove"} \/ (static /\ line.kind = "eval") =>
           line.of = row /\ line.net = loaded
      /\ score = NoScore \/ (score.of = row /\ score.net = loaded)
  <2>1. line \in Lines
    BY <1>1, LineFacts, RangeFacts DEF Lines
  <2> QED
    BY <1>1, <2>1 DEF Good, OwnOK
<1>3. CASE line.kind = "end"
  <2>1. pc' = "failed" /\ UNCHANGED <<setting, answers>>
    BY <1>3 DEF LabelLine
  <2> QED
    BY <2>1, OverOK
<1>4. CASE ~static /\ line.kind = "score"
  <2>1. /\ score' = line /\ queue' = Tail(queue)
        /\ UNCHANGED <<setting, pc, row, answers, process, late>>
    BY <1>4 DEF LabelLine
  <2> QED
    BY <1>1, <1>2, <1>4, <2>1, TakenOK DEF Good, IInv
<1>5. CASE ~static /\ line.kind = "bestmove"
  <2>1. /\ answers' = [answers EXCEPT ![row] = score]
        /\ pc' = "next" /\ queue' = Tail(queue)
        /\ UNCHANGED <<setting, row, attempt, score, process, late>>
    BY <1>5 DEF LabelLine
  <2> QED
    BY <1>1, <1>2, <1>5, <2>1, AnsweredOK DEF Good, IInv
<1>6. CASE static /\ line.kind = "eval"
  <2>1. /\ answers' = [answers EXCEPT ![row] = line]
        /\ pc' = "next" /\ queue' = Tail(queue)
        /\ UNCHANGED <<setting, row, attempt, score, process, late>>
    BY <1>6 DEF LabelLine
  <2> QED
    BY <1>1, <1>2, <1>6, <2>1, AnsweredOK DEF Good, IInv
<1>7. CASE ~(line.kind = "end" \/ (~static /\ line.kind \in {"score", "bestmove"})
             \/ (static /\ line.kind = "eval"))
  <2>1. Skip
    BY <1>7 DEF LabelLine
  <2>2. /\ queue' = Tail(queue) /\ UNCHANGED <<setting, pc, row, answers, process, late>>
        /\ score' = score
    BY <2>1 DEF Skip, task
  <2> QED
    BY <1>1, <2>2, TakenOK DEF Good, IInv
<1> QED
  BY <1>3, <1>4, <1>5, <1>6, <1>7

-----------------------------------------------------------------------------
(* Every step. *)

\* When the task has ended its answers stay what they are.
LEMMA EndedOK ==
    ASSUME AnswersAreOwn, pc \in {"done", "failed"}, Next
    PROVE  AnswersAreOwn' /\ pc' = pc
<1>1. ~Task
  BY DEF Task, NextRow, HandshakeLine, LabelLine, HandshakeTimeout, LabelTimeout, Waiting
<1>2. UNCHANGED <<setting, task>>
  BY <1>1 DEF Next, Answer, Die, ReadStdout
<1> QED
  BY <1>2 DEF AnswersAreOwn, setting, task

LEMMA StutterOK == ASSUME IInv, UNCHANGED vars PROVE IInv'
BY DEF IInv, Good, vars, setting, task, process, Exempt, AnswersAreOwn, Shape, ALine, Rows,
       InboxOK, Sent, LateOK, ComingOK, Coming, Lines, With, Before, OrderOK, Follows,
       AnnouncedOK, NetOK, OwnOK

LEMMA NextOK == IInv /\ [Next]_vars => IInv'
<1> SUFFICES ASSUME IInv, [Next]_vars PROVE IInv'
  OBVIOUS
<1>1. CASE UNCHANGED vars
  BY <1>1, StutterOK
<1>2. CASE Next
  <2>1. UNCHANGED setting
    BY <1>2 DEF Next, Task, NextRow, HandshakeLine, LabelLine, HandshakeTimeout, LabelTimeout,
                Answer, Die, ReadStdout, StartFailed, Proceed, Skip
  <2>2. Exempt' = Exempt
    BY <2>1 DEF Exempt, setting
  <2>3. CASE Exempt
    BY <2>2, <2>3 DEF IInv
  <2>4. CASE ~Exempt /\ pc \in {"done", "failed"}
    BY <1>2, <2>4, EndedOK DEF IInv
  <2>5. CASE ~Exempt /\ Good
    <3>1. ASSUME Good' PROVE IInv'
      BY <3>1 DEF IInv, Good
    <3>2. CASE NextRow
      BY <2>5, <3>2, NextRowOK
    <3>3. CASE HandshakeLine
      BY <2>5, <3>3, HandshakeLineOK
    <3>4. CASE LabelLine
      BY <2>5, <3>4, LabelLineOK
    <3>5. CASE HandshakeTimeout
      BY <2>5, <3>5, StartFailedOK DEF HandshakeTimeout
    <3>6. CASE LabelTimeout
      BY <2>5, <3>1, <3>6, LabelTimeoutOK
    <3>7. CASE Answer
      BY <2>5, <3>1, <3>7, AnswerOK
    <3>8. CASE Die
      BY <2>5, <3>1, <3>8, DieOK
    <3>9. CASE ReadStdout
      BY <2>5, <3>1, <3>9, ReadStdoutOK
    <3> QED
      BY <1>2, <3>2, <3>3, <3>4, <3>5, <3>6, <3>7, <3>8, <3>9 DEF Next, Task
  <2> QED
    BY <2>3, <2>4, <2>5 DEF IInv
<1> QED
  BY <1>1, <1>2

\* What can be on its way to the task at each of its waits: label_with_uci.py reads the
\* queue of the engine it has, into which the reader of a closed one still writes
\* (UciEngine._read_stdout, close, wait_for, _verify_net_loaded, label, static_eval).
THEOREM Invariance == Spec => []IInv
BY InitOK, NextOK, PTL DEF Spec

\* AnswersAreOwn holds for every number of rows and of attempts: over timeouts, restarts,
\* deaths and the late lines of closed engines, UciEngine.label and static_eval return a
\* score of the row that was asked for, by an engine that had loaded the net.
THEOREM ScoresAreOwn == Spec => []AnswersAreOwn
<1>1. IInv => AnswersAreOwn
  BY DEF IInv, Exempt, AnswersAreOwn
<1> QED
  BY <1>1, Invariance, PTL

=============================================================================
