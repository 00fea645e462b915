---------------------------- MODULE CorpusProofs ----------------------------
(***************************************************************************)
(* That the corpus tools keep the corpus, and the tools that change scores *)
(* the order of the scores, for all inputs.                                *)
(*                                                                         *)
(* The tools are folds, and what a fold makes of any sequence is shown     *)
(* from its runs: the values it has after each element.  That a run exists *)
(* is FoldExists and FoldRuns, once for the step of any fold; that an      *)
(* invariant of the runs holds to their end is Induct, for a set of        *)
(* positions, by the least position outside it.                            *)
(***************************************************************************)
EXTENDS Tools, FunctionTheorems, FiniteSetTheorems, SequenceTheorems, WellFoundedInduction, TLAPS

-----------------------------------------------------------------------------
(* Runs of a fold *)

\* The least number of a set.
LEMMA Least ==
    ASSUME NEW S, S \subseteq Nat, S # {}
    PROVE  \E x \in S : \A y \in S : x <= y
<1>1. PICK x \in S : \A y \in S : <<y, x>> \notin OpToRel(<, Nat)
  BY NatLessThanWellFounded, WFMin, Zenon
<1>2. ASSUME NEW y \in S PROVE x <= y
  <2>1. x \in Nat /\ y \in Nat
    BY <1>1
  <2>2. ~ (y < x)
    BY <1>1, <2>1 DEF OpToRel
  <2> QED
    BY <2>1, <2>2
<1> QED
  BY <1>2

\* Induction over the numbers up to n, for a set instead of a formula.
LEMMA Induct ==
    ASSUME NEW n \in Nat, NEW T, 0 \in T, \A k \in 1..n : k - 1 \in T => k \in T
    PROVE  \A k \in 0..n : k \in T
<1> SUFFICES ASSUME NEW k \in 0..n, k \notin T PROVE FALSE
  OBVIOUS
<1> DEFINE S == {i \in 0..n : i \notin T}
<1>1. PICK x \in S : \A y \in S : x <= y
  <2>1. S \subseteq Nat /\ S # {}
    OBVIOUS
  <2> QED
    BY <2>1, Least
<1>2. x \in 1..n /\ x - 1 \in 0..n
  BY <1>1
<1>3. x - 1 \in T
  BY <1>1, <1>2
<1> QED
  BY <1>1, <1>2, <1>3

LEMMA MaxOf ==
    ASSUME NEW n \in Nat, NEW S \in SUBSET (1..n), S # {}
    PROVE  Max(S) \in S /\ \A y \in S : y <= Max(S)
<1> DEFINE U == {u \in Nat : \A y \in S : y <= u}
<1>1. PICK u \in U : \A v \in U : u <= v
  <2>1. n \in U
    OBVIOUS
  <2> QED
    BY <2>1, Least
<1>2. u \in S
  <2> SUFFICES ASSUME u \notin S PROVE FALSE
    OBVIOUS
  <2>1. PICK y \in S : TRUE
    OBVIOUS
  <2>2. u \in Nat /\ \A z \in S : z \in 1..n /\ z <= u /\ z # u
    BY <1>1
  <2>3. u - 1 \in Nat /\ \A z \in S : z <= u - 1
    BY <2>1, <2>2
  <2>4. u - 1 \in U
    BY <2>3
  <2> QED
    BY <1>1, <2>2, <2>4
<1> QED
  BY <1>1, <1>2 DEF Max

LEMMA MaxUpTo ==
    ASSUME NEW n \in Nat, NEW k \in 1..n
    PROVE  Max(1..k) = k /\ (1..k) \ {k} = 1..(k - 1) /\ 1..k # {} /\ 1..k \in SUBSET (1..n)
<1>1. /\ 1..k # {} /\ 1..k \in SUBSET (1..n) /\ k \in 1..k
      /\ (1..k) \ {k} = 1..(k - 1)
  OBVIOUS
<1>2. Max(1..k) \in 1..k /\ k <= Max(1..k)
  BY <1>1, MaxOf
<1> QED
  BY <1>1, <1>2

\* step gives the next value of a fold from the position of an element and the value so far.
IsFold(f, n, V, base, step) ==
    /\ f \in [SUBSET (1..n) -> V]
    /\ \A s \in SUBSET (1..n) : f[s] = IF s = {} THEN base ELSE step[<<Max(s), f[s \ {Max(s)}]>>]
FoldsWhereTyped(f, n, V, base, step) ==
    \A s \in SUBSET (1..n) :
        IF s = {} THEN f[s] = base
        ELSE f[s \ {Max(s)}] \in V => f[s] = step[<<Max(s), f[s \ {Max(s)}]>>]
Runs(acc, n, V, base, step) ==
    /\ acc \in [0..n -> V] /\ acc[0] = base
    /\ \A k \in 1..n : acc[k - 1] \in V /\ acc[k] = step[<<k, acc[k - 1]>>]

\* A fold over n elements is defined: its step, given as a function of the position and
\* the value so far, gives a value for every set of positions.
LEMMA FoldExists ==
    ASSUME NEW n \in Nat, NEW V, NEW base \in V, NEW step \in [(1..n) \X V -> V]
    PROVE  \E f : IsFold(f, n, V, base, step)
<1> DEFINE Is(f, m) == \A s \in SUBSET (1..m) :
                           f[s] = IF s = {} THEN base ELSE step[<<Max(s), f[s \ {Max(s)}]>>]
           T == {m \in 0..n : \E f \in [SUBSET (1..m) -> V] : Is(f, m)}
<1>1. 0 \in T
  <2>1. [s \in SUBSET (1..0) |-> base] \in [SUBSET (1..0) -> V]
    OBVIOUS
  <2>2. Is([s \in SUBSET (1..0) |-> base], 0)
    OBVIOUS
  <2> HIDE DEF Is
  <2> QED
    BY <2>1, <2>2
<1>2. ASSUME NEW m \in 1..n, m - 1 \in T PROVE m \in T
  <2>1. PICK f \in [SUBSET (1..(m - 1)) -> V] : Is(f, m - 1)
    BY <1>2
  <2> DEFINE g == [s \in SUBSET (1..m) |->
                      IF s = {} THEN base
                      ELSE IF Max(s) = m THEN step[<<m, f[s \ {m}]>>] ELSE f[s]]
  <2>2. ASSUME NEW s \in SUBSET (1..m), s # {}
        PROVE  /\ Max(s) \in 1..m /\ Max(s) \in s
               /\ Max(s) = m => s \ {m} \in SUBSET (1..(m - 1))
               /\ Max(s) # m => /\ s \in SUBSET (1..(m - 1)) /\ s \ {Max(s)} \in SUBSET (1..(m - 1))
    <3>1. Max(s) \in s /\ \A y \in s : y <= Max(s)
      BY <2>2, MaxOf, m \in Nat
    <3>2. \A y \in s : y \in 1..m
      OBVIOUS
    <3>3. Max(s) = m => \A y \in s \ {m} : y \in 1..(m - 1)
      BY <3>2
    <3>4. Max(s) \in 1..m
      BY <3>1, <3>2
    <3>5. ASSUME Max(s) # m, NEW y \in s PROVE y \in 1..(m - 1)
      <4>1. y \in 1..m /\ y <= Max(s)
        BY <3>1, <3>2
      <4> QED
        BY <3>4, <3>5, <4>1
    <3> QED
      BY <3>1, <3>2, <3>3, <3>5
  <2>3. ASSUME NEW s \in SUBSET (1..(m - 1)) PROVE s \in SUBSET (1..m) /\ g[s] = f[s]
    <3>1. s \in SUBSET (1..m)
      OBVIOUS
    <3>2. CASE s = {}
      BY <2>1, <3>1, <3>2
    <3>3. CASE s # {}
      <4>1. Max(s) \in 1..(m - 1)
        BY <3>1, <3>3, <2>2
      <4>2. Max(s) # m
        BY <4>1
      <4> QED
        BY <3>1, <3>3, <4>2
    <3> QED
      BY <3>2, <3>3
  <2>4. ASSUME NEW s \in SUBSET (1..m)
        PROVE  g[s] \in V /\ g[s] = IF s = {} THEN base ELSE step[<<Max(s), g[s \ {Max(s)}]>>]
    <3>1. CASE s = {}
      BY <3>1
    <3>2. CASE s # {} /\ Max(s) = m
      <4>1. s \ {m} \in SUBSET (1..(m - 1)) /\ f[s \ {m}] \in V
        BY <2>2, <3>2
      <4>2. g[s \ {m}] = f[s \ {m}]
        BY <4>1, <2>3
      <4>3. step[<<m, f[s \ {m}]>>] \in V
        BY <4>1
      <4> QED
        BY <3>2, <4>2, <4>3
    <3>3. CASE s # {} /\ Max(s) # m
      <4>1. s \in SUBSET (1..(m - 1)) /\ s \ {Max(s)} \in SUBSET (1..(m - 1))
        BY <2>2, <3>3
      <4>2. g[s] = f[s] /\ g[s \ {Max(s)}] = f[s \ {Max(s)}]
        BY <4>1, <2>3
      <4>3. f[s] = step[<<Max(s), f[s \ {Max(s)}]>>] /\ f[s] \in V
        BY <2>1, <3>3, <4>1
      <4> QED
        BY <3>3, <4>2, <4>3
    <3> QED
      BY <3>1, <3>2, <3>3
  <2> HIDE DEF g
  <2>5. g \in [SUBSET (1..m) -> V]
    <3>1. g = [s \in SUBSET (1..m) |-> g[s]]
      BY DEF g
    <3> QED
      BY <3>1, <2>4
  <2>6. Is(g, m)
    BY <2>4
  <2> HIDE DEF Is
  <2> QED
    BY <2>5, <2>6
<1> HIDE DEF T
<1>3. n \in T
  BY <1>1, <1>2, Induct
<1>4. PICK f \in [SUBSET (1..n) -> V] : Is(f, n)
  BY <1>3 DEF T
<1>5. IsFold(f, n, V, base, step)
  BY <1>4 DEF IsFold
<1> QED
  BY <1>5

\* What a fold has made after each element, for the step of one fold.
LEMMA FoldRuns ==
    ASSUME NEW n \in Nat, NEW V, NEW base \in V, NEW step \in [(1..n) \X V -> V], NEW it,
           FoldsWhereTyped(it, n, V, base, step)
    PROVE  Runs([k \in 0..n |-> it[1..k]], n, V, base, step)
<1> DEFINE acc == [k \in 0..n |-> it[1..k]]
           T == {k \in 0..n : it[1..k] \in V}
<1>1. it[1..0] = base
  <2>1. 1..0 = {} /\ {} \in SUBSET (1..n)
    OBVIOUS
  <2> QED
    BY <2>1 DEF FoldsWhereTyped
<1>2. ASSUME NEW k \in 1..n, it[1..(k - 1)] \in V
      PROVE  it[1..k] = step[<<k, it[1..(k - 1)]>>] /\ it[1..k] \in V
  <2>1. 1..k \in SUBSET (1..n) /\ 1..k # {} /\ Max(1..k) = k /\ (1..k) \ {k} = 1..(k - 1)
    BY MaxUpTo
  <2>2. it[1..k] = step[<<k, it[1..(k - 1)]>>]
    BY <1>2, <2>1 DEF FoldsWhereTyped
  <2>3. k \in 1..n /\ <<k, it[1..(k - 1)]>> \in (1..n) \X V
    BY <1>2
  <2> QED
    BY <2>2, <2>3
<1>3. \A k \in 0..n : k \in T
  <2>1. 0 \in T
    BY <1>1
  <2>2. ASSUME NEW k \in 1..n, k - 1 \in T PROVE k \in T
    <3>1. it[1..(k - 1)] \in V
      BY <2>2
    <3>2. it[1..k] \in V
      BY <1>2, <3>1
    <3>3. k \in 0..n
      OBVIOUS
    <3> QED
      BY <3>2, <3>3
  <2> HIDE DEF T
  <2> QED
    BY <2>1, <2>2, Induct
<1>4. /\ acc \in [0..n -> V] /\ acc[0] = base
      /\ \A k \in 1..n : acc[k - 1] \in V /\ acc[k] = step[<<k, acc[k - 1]>>]
  BY <1>1, <1>2, <1>3
<1> QED
  BY <1>4 DEF Runs

\* The sum of numbers, one after another.
LEMMA TotalFold ==
    ASSUME NEW s \in Seq(Int)
    PROVE  \E acc \in [0..Len(s) -> Int] :
               /\ acc[0] = 0 /\ Total(s) = acc[Len(s)]
               /\ \A k \in 1..Len(s) : acc[k] = acc[k - 1] + s[k]
<1> DEFINE n == Len(s)
           step == [p \in (1..n) \X Int |-> p[2] + s[p[1]]]
           it == CHOOSE f : f = [t \in SUBSET (1..n) |->
                            IF t = {} THEN 0 ELSE f[t \ {Max(t)}] + s[Max(t)]]
           acc == [k \in 0..n |-> it[1..k]]
<1>1. n \in Nat /\ DOMAIN s = 1..n /\ \A k \in 1..n : s[k] \in Int
  OBVIOUS
<1>2. Total(s) = it[1..n]
  BY <1>1 DEF Total, FoldLeft, MapThenFoldSet
<1> HIDE DEF n
<1>3. step \in [(1..n) \X Int -> Int]
  BY <1>1
<1>4. \A k \in 1..n, v \in Int : step[<<k, v>>] = v + s[k]
  BY <1>1
<1> HIDE DEF step
<1>5. PICK f : IsFold(f, n, Int, 0, step)
  BY <1>1, <1>3, 0 \in Int, FoldExists
<1>6. f = [t \in SUBSET (1..n) |-> IF t = {} THEN 0 ELSE f[t \ {Max(t)}] + s[Max(t)]]
  <2>1. \A t \in SUBSET (1..n) : t # {} => Max(t) \in 1..n /\ f[t \ {Max(t)}] \in Int
    BY <1>1, <1>5, MaxOf DEF IsFold
  <2> QED
    BY <1>4, <1>5, <2>1 DEF IsFold
<1>7. it = [t \in SUBSET (1..n) |-> IF t = {} THEN 0 ELSE it[t \ {Max(t)}] + s[Max(t)]]
  BY <1>6
<1> HIDE DEF it
<1>8. FoldsWhereTyped(it, n, Int, 0, step)
  <2>1. \A t \in SUBSET (1..n) : t # {} => Max(t) \in 1..n
    BY <1>1, MaxOf
  <2> QED
    BY <1>4, <1>7, <2>1 DEF FoldsWhereTyped
<1>9. Runs(acc, n, Int, 0, step)
  BY <1>1, <1>3, <1>8, 0 \in Int, FoldRuns
<1>10. 1..n = 1..Len(s) /\ acc[n] = it[1..n]
  BY <1>1 DEF n
<1> HIDE DEF acc
<1>11. /\ acc \in [0..n -> Int] /\ acc[0] = 0
       /\ \A k \in 1..n : acc[k] = acc[k - 1] + s[k]
  BY <1>4, <1>9 DEF Runs
<1> QED
  BY <1>2, <1>10, <1>11 DEF n

-----------------------------------------------------------------------------
(* Sequences that are put together *)

\* w is u and then v.
Joins(w, u, v) ==
    /\ Len(w) = Len(u) + Len(v) /\ Len(u) \in Nat /\ Len(v) \in Nat
    /\ \A i \in 1..Len(u) : w[i] = u[i]
    /\ \A i \in 1..Len(v) : w[Len(u) + i] = v[i]

LEMMA Joined ==
    ASSUME NEW S, NEW u \in Seq(S), NEW v \in Seq(S)
    PROVE  u \o v \in Seq(S) /\ Joins(u \o v, u, v)
<1>1. Len(u) \in Nat /\ Len(v) \in Nat /\ u \o v \in Seq(S) /\ Len(u \o v) = Len(u) + Len(v)
  OBVIOUS
<1>2. \A i \in 1..(Len(u) + Len(v)) : (u \o v)[i] = IF i <= Len(u) THEN u[i] ELSE v[i - Len(u)]
  OBVIOUS
<1>3. \A i \in 1..Len(u) : i \in 1..(Len(u) + Len(v)) /\ i <= Len(u)
  BY <1>1
<1>4. ASSUME NEW i \in 1..Len(v) PROVE (u \o v)[Len(u) + i] = v[i]
  <2>1. /\ Len(u) + i \in 1..(Len(u) + Len(v)) /\ ~(Len(u) + i <= Len(u))
        /\ (Len(u) + i) - Len(u) = i
    BY <1>1
  <2> QED
    BY <1>2, <2>1
<1> QED
  BY <1>1, <1>2, <1>3, <1>4 DEF Joins

\* A place behind the first a of a + b.
LEMMA Behind ==
    \A a, b \in Nat : \A i \in 1..(a + b) : i \notin 1..a => i - a \in 1..b /\ a + (i - a) = i
OBVIOUS

LEMMA MadeSeq ==
    ASSUME NEW n \in Nat, NEW S, NEW f \in [1..n -> S]
    PROVE  f \in Seq(S) /\ Len(f) = n
OBVIOUS

LEMMA AsFunction == ASSUME NEW S, NEW s \in Seq(S) PROVE s = [i \in 1..Len(s) |-> s[i]]
OBVIOUS

Flattens(acc, ss, S) ==
    /\ acc \in [0..Len(ss) -> Seq(S)] /\ acc[0] = <<>> /\ FlattenSeq(ss) = acc[Len(ss)]
    /\ \A k \in 1..Len(ss) : acc[k - 1] \in Seq(S) /\ acc[k] = acc[k - 1] \o ss[k]

LEMMA FlattenRuns ==
    ASSUME NEW S, NEW ss \in Seq(Seq(S))
    PROVE  \E acc : Flattens(acc, ss, S)
<1> DEFINE n == Len(ss)
           V == Seq(S)
           step == [p \in (1..n) \X V |-> p[2] \o ss[p[1]]]
           flat == CHOOSE f : f = [i \in 1..n |-> IF i = 1 THEN ss[i] ELSE f[i - 1] \o ss[i]]
<1>1. n \in Nat /\ DOMAIN ss = 1..n /\ \A k \in 1..n : ss[k] \in V
  OBVIOUS
<1>2. FlattenSeq(ss) = IF n = 0 THEN ss ELSE flat[n]
  BY DEF FlattenSeq
<1>3. <<>> \in V /\ \A u, v \in V : u \o v \in V /\ <<>> \o v = v
  OBVIOUS
<1>4. n = 0 => ss = <<>>
  OBVIOUS
<1> HIDE DEF n, V
<1>5. step \in [(1..n) \X V -> V]
  BY <1>1, <1>3
<1>6. \A k \in 1..n, v \in V : step[<<k, v>>] = v \o ss[k]
  BY <1>1
<1> HIDE DEF step
<1>7. PICK g : IsFold(g, n, V, <<>>, step)
  BY <1>1, <1>3, <1>5, FoldExists
<1>8. FoldsWhereTyped(g, n, V, <<>>, step)
  BY <1>7 DEF IsFold, FoldsWhereTyped
<1> DEFINE acc == [k \in 0..n |-> g[1..k]]
<1>9. Runs(acc, n, V, <<>>, step)
  BY <1>1, <1>3, <1>5, <1>8, FoldRuns
<1> HIDE DEF acc
<1>10. /\ acc \in [0..n -> V] /\ acc[0] = <<>>
       /\ \A k \in 1..n : acc[k - 1] \in V /\ acc[k] = acc[k - 1] \o ss[k]
  BY <1>6, <1>9 DEF Runs
<1> DEFINE f == [i \in 1..n |-> acc[i]]
<1>11. f = [i \in 1..n |-> IF i = 1 THEN ss[i] ELSE f[i - 1] \o ss[i]]
  <2>1. ASSUME NEW i \in 1..n PROVE acc[i] = IF i = 1 THEN ss[i] ELSE f[i - 1] \o ss[i]
    <3>1. CASE i = 1
      <4>1. 1 \in 1..n /\ 1 - 1 = 0
        BY <3>1
      <4>2. acc[1] = acc[1 - 1] \o ss[1] /\ ss[1] \in V
        BY <1>1, <1>10, <4>1
      <4>3. acc[1] = ss[1]
        BY <1>3, <1>10, <4>1, <4>2
      <4> HIDE DEF f
      <4> QED
        BY <3>1, <4>3
    <3>2. CASE i # 1
      <4>1. i - 1 \in 1..n
        BY <1>1, <3>2
      <4>2. f[i - 1] = acc[i - 1]
        BY <4>1
      <4>3. acc[i] = acc[i - 1] \o ss[i]
        BY <1>10
      <4> HIDE DEF f
      <4> QED
        BY <3>2, <4>2, <4>3
    <3> QED
      BY <3>1, <3>2
  <2> QED
    BY <2>1
<1>12. flat = [i \in 1..n |-> IF i = 1 THEN ss[i] ELSE flat[i - 1] \o ss[i]]
  BY <1>11
<1> HIDE DEF flat, f
<1> DEFINE T == {k \in 0..n : k # 0 => flat[k] = acc[k]}
<1>13. \A k \in 0..n : k \in T
  <2>1. 0 \in T
    BY <1>1
  <2>2. ASSUME NEW k \in 1..n, k - 1 \in T PROVE k \in T
    <3>1. CASE k = 1
      <4>1. 1 \in 1..n /\ 1 - 1 = 0
        BY <3>1
      <4>2. acc[1] = acc[1 - 1] \o ss[1] /\ ss[1] \in V /\ flat[1] = ss[1]
        BY <1>1, <1>10, <1>12, <4>1
      <4>3. flat[1] = acc[1]
        BY <1>3, <1>10, <4>1, <4>2
      <4>4. k \in 0..n
        BY <1>1
      <4> QED
        BY <3>1, <4>3, <4>4
    <3>2. CASE k # 1
      <4>1. flat[k - 1] = acc[k - 1]
        BY <2>2, <3>2
      <4>2. flat[k] = flat[k - 1] \o ss[k]
        BY <1>12, <3>2
      <4>3. flat[k] = acc[k]
        BY <1>10, <4>1, <4>2
      <4>4. k \in 0..n
        BY <1>1
      <4> QED
        BY <4>3, <4>4
    <3> QED
      BY <3>1, <3>2
  <2> HIDE DEF T
  <2> QED
    BY <1>1, <2>1, <2>2, Induct
<1>14. FlattenSeq(ss) = acc[n]
  <2>1. n \in T
    BY <1>1, <1>13
  <2>2. CASE n = 0
    BY <1>2, <1>4, <1>10, <2>2
  <2>3. CASE n # 0
    BY <1>2, <2>1, <2>3
  <2> QED
    BY <2>2, <2>3
<1> QED
  BY <1>10, <1>14 DEF Flattens, n, V

\* All sequences but the last one, and the last one.
LEMMA FlattenAppend ==
    ASSUME NEW S, NEW ss \in Seq(Seq(S)), NEW s \in Seq(S)
    PROVE  /\ FlattenSeq(ss) \in Seq(S)
           /\ FlattenSeq(Append(ss, s)) = FlattenSeq(ss) \o s
<1> DEFINE n == Len(ss)
           all == Append(ss, s)
<1>1. n \in Nat /\ all \in Seq(Seq(S)) /\ Len(all) = n + 1 /\ all[n + 1] = s
      /\ \A k \in 1..n : all[k] = ss[k]
  OBVIOUS
<1>2. PICK a : Flattens(a, ss, S)
  BY FlattenRuns
<1>3. PICK b : Flattens(b, all, S)
  BY <1>1, FlattenRuns
<1> HIDE DEF n, all
<1>4. /\ a[0] = <<>> /\ b[0] = <<>>
      /\ \A k \in 1..n : a[k] = a[k - 1] \o ss[k] /\ b[k] = b[k - 1] \o ss[k]
  <2>1. \A k \in 1..n : k \in 1..(n + 1) /\ all[k] = ss[k]
    BY <1>1
  <2>2. \A k \in 1..n : a[k] = a[k - 1] \o ss[k]
    BY <1>2 DEF Flattens, n
  <2>3. \A k \in 1..(n + 1) : b[k] = b[k - 1] \o all[k]
    BY <1>1, <1>3 DEF Flattens
  <2> QED
    BY <1>2, <1>3, <2>1, <2>2, <2>3 DEF Flattens
<1> DEFINE T == {k \in 0..n : a[k] = b[k]}
<1>5. \A k \in 0..n : k \in T
  <2>1. 0 \in T
    BY <1>1, <1>4
  <2>2. ASSUME NEW k \in 1..n, k - 1 \in T PROVE k \in T
    <3>1. a[k - 1] = b[k - 1]
      BY <2>2
    <3>2. a[k] = a[k - 1] \o ss[k] /\ b[k] = b[k - 1] \o ss[k]
      BY <1>4
    <3>3. k \in 0..n
      BY <1>1
    <3> QED
      BY <3>1, <3>2, <3>3
  <2> HIDE DEF T
  <2> QED
    BY <1>1, <2>1, <2>2, Induct
<1>6. a[n] = b[n]
  BY <1>1, <1>5
<1>7. a[n] \in Seq(S) /\ FlattenSeq(ss) = a[n]
  <2>1. a \in [0..n -> Seq(S)] /\ FlattenSeq(ss) = a[n]
    BY <1>2 DEF Flattens, n
  <2>2. n \in 0..n
    BY <1>1
  <2> QED
    BY <2>1, <2>2
<1>8. FlattenSeq(all) = b[n + 1] /\ b[n + 1] = b[n] \o s
  <2>1. (n + 1) - 1 = n /\ n + 1 \in 1..(n + 1)
    BY <1>1
  <2> QED
    BY <1>1, <1>3, <2>1 DEF Flattens
<1> QED
  BY <1>6, <1>7, <1>8 DEF all

LEMMA OneToOneSeq ==
    ASSUME NEW S, NEW s \in Seq(S), \A i, j \in 1..Len(s) : s[i] = s[j] => i = j
    PROVE  OneToOne(s) /\ Cardinality(RowSet(s)) = Len(s) /\ IsFiniteSet(RowSet(s))
<1>1. Len(s) \in Nat /\ DOMAIN s = 1..Len(s) /\ \A i \in 1..Len(s) : s[i] \in S
  OBVIOUS
<1>2. s \in Bijection(1..Len(s), RowSet(s))
  <2>1. s \in [1..Len(s) -> RowSet(s)]
    BY <1>1 DEF RowSet
  <2>2. \A y \in RowSet(s) : \E i \in 1..Len(s) : s[i] = y
    BY <1>1 DEF RowSet
  <2>3. s \in Surjection(1..Len(s), RowSet(s))
    BY <2>1, <2>2, Fun_IsSurj
  <2>4. s \in Injection(1..Len(s), RowSet(s))
    BY <2>1, Fun_IsInj
  <2> QED
    BY <2>3, <2>4 DEF Bijection
<1>3. ExistsBijection(1..Len(s), RowSet(s))
  BY <1>2 DEF ExistsBijection
<1>4. Cardinality(RowSet(s)) = Len(s)
  BY <1>1, <1>3, FS_CountingElements
<1>5. Cardinality(1..Len(s)) = Len(s) /\ IsFiniteSet(RowSet(s))
  BY <1>1, <1>3, FS_Interval, FS_Bijection
<1> QED
  BY <1>1, <1>4, <1>5 DEF OneToOne

-----------------------------------------------------------------------------
(* Maps of source names *)

Distinct(s) == \A i, j \in 1..Len(s) : s[i] = s[j] => i = j

SeenStep(acc, x) == IF \E i \in 1..Len(acc) : acc[i] = x THEN acc ELSE Append(acc, x)

LEMMA FirstSeenRuns ==
    ASSUME NEW S, NEW names \in Seq(S)
    PROVE  \E acc \in [0..Len(names) -> Seq(S)] :
               /\ acc[0] = <<>> /\ FirstSeen(names) = acc[Len(names)]
               /\ \A k \in 1..Len(names) : acc[k - 1] \in Seq(S) /\ acc[k] = SeenStep(acc[k - 1], names[k])
<1> DEFINE n == Len(names)
           V == Seq(S)
           step == [p \in (1..n) \X V |-> SeenStep(p[2], names[p[1]])]
           it == CHOOSE f : f = [t \in SUBSET (1..n) |->
                     IF t = {} THEN <<>>
                     ELSE IF \E i \in 1..Len(f[t \ {Max(t)}]) : f[t \ {Max(t)}][i] = names[Max(t)]
                          THEN f[t \ {Max(t)}] ELSE Append(f[t \ {Max(t)}], names[Max(t)])]
           acc == [k \in 0..n |-> it[1..k]]
<1>1. n \in Nat /\ DOMAIN names = 1..n /\ \A k \in 1..n : names[k] \in S
  OBVIOUS
<1>2. FirstSeen(names) = it[1..n]
  BY <1>1 DEF FirstSeen, FoldLeft, MapThenFoldSet
<1>3. <<>> \in V /\ \A v \in V, x \in S : SeenStep(v, x) \in V
  BY DEF SeenStep
<1> HIDE DEF n, V
<1>4. step \in [(1..n) \X V -> V]
  BY <1>1, <1>3
<1>5. \A k \in 1..n, v \in V : step[<<k, v>>] = SeenStep(v, names[k])
  BY <1>1
<1> HIDE DEF step
<1>6. PICK f : IsFold(f, n, V, <<>>, step)
  BY <1>1, <1>3, <1>4, FoldExists
<1>7. f = [t \in SUBSET (1..n) |->
              IF t = {} THEN <<>>
              ELSE IF \E i \in 1..Len(f[t \ {Max(t)}]) : f[t \ {Max(t)}][i] = names[Max(t)]
                   THEN f[t \ {Max(t)}] ELSE Append(f[t \ {Max(t)}], names[Max(t)])]
  <2>1. \A t \in SUBSET (1..n) : t # {} => Max(t) \in 1..n /\ f[t \ {Max(t)}] \in V
    BY <1>1, <1>6, MaxOf DEF IsFold
  <2>2. \A t \in SUBSET (1..n) : f[t] = IF t = {} THEN <<>> ELSE SeenStep(f[t \ {Max(t)}], names[Max(t)])
    BY <1>5, <1>6, <2>1 DEF IsFold
  <2> QED
    BY <1>6, <2>2 DEF IsFold, SeenStep
<1>8. it = [t \in SUBSET (1..n) |->
              IF t = {} THEN <<>>
              ELSE IF \E i \in 1..Len(it[t \ {Max(t)}]) : it[t \ {Max(t)}][i] = names[Max(t)]
                   THEN it[t \ {Max(t)}] ELSE Append(it[t \ {Max(t)}], names[Max(t)])]
  BY <1>7
<1> HIDE DEF it
<1>9. FoldsWhereTyped(it, n, V, <<>>, step)
  <2>1. \A t \in SUBSET (1..n) : t # {} => Max(t) \in 1..n
    BY <1>1, MaxOf
  <2>2. \A t \in SUBSET (1..n) : it[t] = IF t = {} THEN <<>> ELSE SeenStep(it[t \ {Max(t)}], names[Max(t)])
    BY <1>8 DEF SeenStep
  <2> QED
    BY <1>5, <2>1, <2>2 DEF FoldsWhereTyped
<1>10. Runs(acc, n, V, <<>>, step)
  BY <1>1, <1>3, <1>4, <1>9, FoldRuns
<1>11. acc[n] = it[1..n]
  BY <1>1
<1> HIDE DEF acc
<1>12. /\ acc \in [0..n -> V] /\ acc[0] = <<>>
       /\ \A k \in 1..n : acc[k - 1] \in V /\ acc[k] = SeenStep(acc[k - 1], names[k])
  BY <1>5, <1>10 DEF Runs
<1> QED
  BY <1>2, <1>11, <1>12 DEF n, V

\* Every name has a place, no name has two, and a beginning without repetition stays.
LEMMA FirstSeenFacts ==
    ASSUME NEW S, NEW names \in Seq(S), NEW p \in 0..Len(names),
           \A i, j \in 1..p : names[i] = names[j] => i = j
    PROVE  LET m == FirstSeen(names)
           IN  /\ m \in Seq(S) /\ Distinct(m)
               /\ \A k \in 1..Len(names) : \E i \in 1..Len(m) : m[i] = names[k]
               /\ p <= Len(m) /\ \A i \in 1..p : m[i] = names[i]
<1> DEFINE n == Len(names)
<1>1. n \in Nat /\ \A k \in 1..n : names[k] \in S
  OBVIOUS
<1>2. PICK acc \in [0..n -> Seq(S)] :
          /\ acc[0] = <<>> /\ FirstSeen(names) = acc[n]
          /\ \A k \in 1..n : acc[k - 1] \in Seq(S) /\ acc[k] = SeenStep(acc[k - 1], names[k])
  BY FirstSeenRuns
<1> HIDE DEF n
<1> DEFINE Covers(v, k) == \A l \in 1..k : \E i \in 1..Len(v) : v[i] = names[l]
           Keeps(v, k) == IF k <= p THEN Len(v) = k /\ \A i \in 1..k : v[i] = names[i]
                          ELSE p <= Len(v) /\ \A i \in 1..p : v[i] = names[i]
           T == {k \in 0..n : Distinct(acc[k]) /\ Covers(acc[k], k) /\ Keeps(acc[k], k)}
<1>3. p \in 0..n
  BY DEF n
<1>4. 0 \in T
  BY <1>1, <1>2, <1>3 DEF Distinct
<1>5. ASSUME NEW k \in 1..n, k - 1 \in T PROVE k \in T
  <2> DEFINE v == acc[k - 1]
             w == acc[k]
             x == names[k]
  <2>1. v \in Seq(S) /\ x \in S /\ w = SeenStep(v, x) /\ k \in 0..n /\ k \in Nat /\ k - 1 \in Nat
    BY <1>1, <1>2
  <2>2. Distinct(v) /\ Covers(v, k - 1) /\ Keeps(v, k - 1)
    BY <1>5
  <2> HIDE DEF v, w, x
  <2>3. CASE \E i \in 1..Len(v) : v[i] = x
    <3>1. w = v
      BY <2>1, <2>3 DEF SeenStep
    <3>2. Covers(v, k)
      <4>1. ASSUME NEW l \in 1..k PROVE \E i \in 1..Len(v) : v[i] = names[l]
        <5>1. CASE l = k
          BY <2>3, <5>1 DEF x
        <5>2. CASE l # k
          <6>1. l \in 1..(k - 1)
            BY <2>1, <5>2
          <6> QED
            BY <2>2, <6>1
        <5> QED
          BY <5>1, <5>2
      <4> QED
        BY <4>1
    <3>3. Keeps(v, k)
      <4>1. CASE k <= p
        <5>1. k - 1 <= p /\ Len(v) = k - 1 /\ \A i \in 1..(k - 1) : v[i] = names[i]
          BY <1>1, <1>3, <2>1, <2>2, <4>1
        <5>2. PICK i \in 1..(k - 1) : v[i] = x
          BY <2>3, <5>1
        <5>3. names[i] = names[k] /\ i \in 1..p /\ k \in 1..p
          BY <1>1, <1>3, <2>1, <4>1, <5>1, <5>2 DEF x
        <5>4. i = k
          BY <5>3
        <5> QED
          BY <2>1, <5>2, <5>4
      <4>2. CASE ~(k <= p)
        <5>1. p <= Len(v) /\ \A i \in 1..p : v[i] = names[i]
          <6>1. CASE k - 1 = p
            BY <1>3, <2>1, <2>2, <6>1
          <6>2. CASE k - 1 # p
            <7>1. ~(k - 1 <= p)
              BY <1>1, <1>3, <2>1, <4>2, <6>2
            <7> QED
              BY <2>2, <7>1
          <6> QED
            BY <6>1, <6>2
        <5> QED
          BY <4>2, <5>1
      <4> QED
        BY <4>1, <4>2
    <3> QED
      BY <2>1, <2>2, <3>1, <3>2, <3>3 DEF v, w
  <2>4. CASE ~ \E i \in 1..Len(v) : v[i] = x
    <3>1. w = Append(v, x)
      BY <2>1, <2>4 DEF SeenStep
    <3>2. /\ w \in Seq(S) /\ Len(w) = Len(v) + 1 /\ w[Len(v) + 1] = x /\ Len(v) \in Nat
          /\ \A i \in 1..Len(v) : w[i] = v[i]
      BY <2>1, <3>1
    <3>3. Distinct(w)
      <4>1. ASSUME NEW i \in 1..Len(w), NEW j \in 1..Len(w), w[i] = w[j] PROVE i = j
        <5>1. CASE i \in 1..Len(v) /\ j \in 1..Len(v)
          BY <2>2, <3>2, <4>1, <5>1 DEF Distinct
        <5>2. CASE i = Len(v) + 1 /\ j \in 1..Len(v)
          BY <2>4, <3>2, <4>1, <5>2
        <5>3. CASE i \in 1..Len(v) /\ j = Len(v) + 1
          BY <2>4, <3>2, <4>1, <5>3
        <5>4. \A a \in 1..Len(w) : a \in 1..Len(v) \/ a = Len(v) + 1
          BY <3>2
        <5> QED
          BY <5>1, <5>2, <5>3, <5>4
      <4> QED
        BY <4>1 DEF Distinct
    <3>4. Covers(w, k)
      <4>1. ASSUME NEW l \in 1..k PROVE \E i \in 1..Len(w) : w[i] = names[l]
        <5>1. CASE l = k
          <6>1. Len(v) + 1 \in 1..Len(w) /\ w[Len(v) + 1] = names[l]
            BY <3>2, <5>1 DEF x
          <6> QED
            BY <6>1
        <5>2. CASE l # k
          <6>0. l \in 1..(k - 1)
            BY <2>1, <5>2
          <6>1. PICK i \in 1..Len(v) : v[i] = names[l]
            BY <2>2, <6>0
          <6>2. i \in 1..Len(w) /\ w[i] = names[l]
            BY <3>2, <6>1
          <6> QED
            BY <6>2
        <5> QED
          BY <5>1, <5>2
      <4> QED
        BY <4>1
    <3>5. Keeps(w, k)
      <4>1. CASE k <= p
        <5>1. k - 1 <= p /\ Len(v) = k - 1 /\ \A i \in 1..(k - 1) : v[i] = names[i]
          BY <1>1, <1>3, <2>1, <2>2, <4>1
        <5>2. ASSUME NEW i \in 1..k PROVE w[i] = names[i]
          BY <2>1, <3>2, <5>1 DEF x
        <5>3. Len(w) = k
          BY <2>1, <3>2, <5>1
        <5> QED
          BY <4>1, <5>2, <5>3
      <4>2. CASE ~(k <= p)
        <5>1. p <= Len(v) /\ \A i \in 1..p : v[i] = names[i]
          <6>1. CASE k - 1 = p
            BY <1>3, <2>1, <2>2, <6>1
          <6>2. CASE k - 1 # p
            <7>1. ~(k - 1 <= p)
              BY <1>1, <1>3, <2>1, <4>2, <6>2
            <7> QED
              BY <2>2, <7>1
          <6> QED
            BY <6>1, <6>2
        <5>2. p <= Len(w) /\ \A i \in 1..p : w[i] = names[i]
          BY <1>3, <3>2, <5>1
        <5> QED
          BY <4>2, <5>2
      <4> QED
        BY <4>1, <4>2
    <3> QED
      BY <2>1, <3>3, <3>4, <3>5 DEF w
  <2> QED
    BY <2>3, <2>4
<1> HIDE DEF T
<1>6. n \in T
  <2>1. \A k \in 0..n : k \in T
    BY <1>1, <1>4, <1>5, Induct
  <2> QED
    BY <1>1, <2>1
<1>7. Distinct(acc[n]) /\ Covers(acc[n], n) /\ Keeps(acc[n], n)
  BY <1>6 DEF T
<1>8. p <= Len(acc[n]) /\ \A i \in 1..p : acc[n][i] = names[i]
  <2>1. CASE n <= p
    <3>1. n = p
      BY <1>1, <1>3, <2>1
    <3> QED
      BY <1>1, <1>7, <3>1
  <2>2. CASE ~(n <= p)
    BY <1>7, <2>2
  <2> QED
    BY <2>1, <2>2
<1>9. acc[n] \in Seq(S)
  BY <1>1, <1>2
<1> QED
  BY <1>2, <1>7, <1>8, <1>9 DEF n

LEMMA IdOfFacts ==
    ASSUME NEW m, NEW x, \E i \in 1..Len(m) : m[i] = x
    PROVE  IdOf(m, x) \in 1..Len(m) /\ m[IdOf(m, x)] = x
BY DEF IdOf

\* What a shard and a merged set hold: places of a row's name in the map.
PackedSets(S) ==
    {p \in [map : Seq(S), ids : Seq(Nat)] :
        Distinct(p.map) /\ \A i \in 1..Len(p.ids) : p.ids[i] \in 1..Len(p.map)}

LEMMA PackFacts ==
    ASSUME NEW S, NEW names \in Seq(S)
    PROVE  /\ Pack(names) \in PackedSets(S) /\ Len(Pack(names).ids) = Len(names)
           /\ \A i \in 1..Len(names) : Pack(names).map[Pack(names).ids[i]] = names[i]
<1> DEFINE m == FirstSeen(names)
           ids == [i \in 1..Len(names) |-> IdOf(m, names[i])]
<1>1. m \in Seq(S) /\ Distinct(m) /\ \A k \in 1..Len(names) : \E i \in 1..Len(m) : m[i] = names[k]
  <2>1. 0 \in 0..Len(names) /\ \A i, j \in 1..0 : names[i] = names[j] => i = j
    OBVIOUS
  <2> QED
    BY <2>1, FirstSeenFacts
<1> HIDE DEF m
<1>2. \A i \in 1..Len(names) : ids[i] \in 1..Len(m) /\ m[ids[i]] = names[i]
  BY <1>1, IdOfFacts
<1>3. Len(m) \in Nat /\ Len(names) \in Nat
  BY <1>1
<1>4. ids \in Seq(Nat) /\ Len(ids) = Len(names)
  BY <1>2, <1>3
<1>5. Pack(names) = [map |-> m, ids |-> ids]
  BY DEF Pack, m
<1> HIDE DEF ids
<1> QED
  BY <1>1, <1>2, <1>3, <1>4, <1>5 DEF PackedSets

Merges(sum, acc, shard) ==
    /\ Len(sum.ids) = Len(acc.ids) + Len(shard.ids)
    /\ \A i \in 1..Len(acc.ids) : sum.map[sum.ids[i]] = acc.map[acc.ids[i]]
    /\ \A i \in 1..Len(shard.ids) : sum.map[sum.ids[Len(acc.ids) + i]] = shard.map[shard.ids[i]]

\* One more shard: the map keeps its beginning, the rows of the shard keep their names.
LEMMA MergeShardFacts ==
    ASSUME NEW S, NEW acc \in PackedSets(S), NEW shard \in PackedSets(S)
    PROVE  MergeShard(acc, shard) \in PackedSets(S) /\ Merges(MergeShard(acc, shard), acc, shard)
<1> DEFINE both == acc.map \o shard.map
           m == FirstSeen(both)
           new == [i \in 1..Len(shard.ids) |-> IdOf(m, shard.map[shard.ids[i]])]
           ids == acc.ids \o new
           a == Len(acc.ids)
           b == Len(shard.ids)
           p == Len(acc.map)
<1>1. /\ acc.map \in Seq(S) /\ shard.map \in Seq(S) /\ acc.ids \in Seq(Nat) /\ shard.ids \in Seq(Nat)
      /\ \A i \in 1..a : acc.ids[i] \in 1..p
      /\ \A i \in 1..b : shard.ids[i] \in 1..Len(shard.map)
      /\ Distinct(acc.map)
  BY DEF PackedSets
<1>2. /\ both \in Seq(S) /\ Len(both) = p + Len(shard.map) /\ p \in Nat /\ Len(shard.map) \in Nat
      /\ \A i \in 1..p : both[i] = acc.map[i]
      /\ \A i \in 1..Len(shard.map) : both[p + i] = shard.map[i]
  <2>1. both \in Seq(S) /\ Joins(both, acc.map, shard.map)
    BY <1>1, Joined
  <2> HIDE DEF both
  <2> QED
    BY <2>1 DEF Joins
<1>3. MergeShard(acc, shard) = [map |-> m, ids |-> ids]
  BY DEF MergeShard
<1>4. a \in Nat /\ b \in Nat
  BY <1>1
<1> HIDE DEF both
<1>5. /\ m \in Seq(S) /\ Distinct(m) /\ \A k \in 1..Len(both) : \E i \in 1..Len(m) : m[i] = both[k]
      /\ p <= Len(m) /\ \A i \in 1..p : m[i] = both[i]
  <2>1. \A i, j \in 1..p : both[i] = both[j] => i = j
    BY <1>1, <1>2 DEF Distinct
  <2> HIDE DEF p
  <2>2. p \in 0..Len(both)
    BY <1>2
  <2> QED
    BY <1>2, <2>1, <2>2, FirstSeenFacts
<1> HIDE DEF m, p
<1>6. ASSUME NEW i \in 1..b PROVE new[i] \in 1..Len(m) /\ m[new[i]] = shard.map[shard.ids[i]]
  <2>1. p + shard.ids[i] \in 1..Len(both) /\ both[p + shard.ids[i]] = shard.map[shard.ids[i]]
    <3>1. shard.ids[i] \in 1..Len(shard.map)
      BY <1>1
    <3>2. p + shard.ids[i] \in 1..(p + Len(shard.map))
      BY <1>2, <3>1
    <3> QED
      BY <1>2, <3>1, <3>2
  <2>2. \E j \in 1..Len(m) : m[j] = shard.map[shard.ids[i]]
    BY <1>5, <2>1
  <2> QED
    BY <2>2, IdOfFacts
<1>7. Len(m) \in Nat
  BY <1>5
<1>8. new \in Seq(Nat) /\ Len(new) = b
  <2>1. \A i \in 1..b : new[i] \in Nat
    BY <1>6, <1>7
  <2>2. new = [i \in 1..b |-> new[i]]
    OBVIOUS
  <2> HIDE DEF new, b
  <2> QED
    BY <1>4, <2>1, <2>2
<1> HIDE DEF new
<1>9. /\ ids \in Seq(Nat) /\ Len(ids) = a + b
      /\ \A i \in 1..a : ids[i] = acc.ids[i]
      /\ \A i \in 1..b : ids[a + i] = new[i]
  <2>1. ids \in Seq(Nat) /\ Joins(ids, acc.ids, new)
    BY <1>1, <1>8, Joined
  <2> HIDE DEF ids
  <2> QED
    BY <1>8, <2>1 DEF Joins
<1> HIDE DEF ids, a, b
<1>10. ASSUME NEW i \in 1..a PROVE ids[i] \in 1..Len(m) /\ m[ids[i]] = acc.map[acc.ids[i]]
  <2>1. acc.ids[i] \in 1..p /\ ids[i] = acc.ids[i]
    BY <1>1, <1>9
  <2>2. acc.ids[i] \in 1..Len(m)
    BY <1>2, <1>5, <1>7, <2>1
  <2>3. m[acc.ids[i]] = acc.map[acc.ids[i]]
    BY <1>2, <1>5, <2>1
  <2> QED
    BY <2>1, <2>2, <2>3
<1>11. \A i \in 1..b : ids[a + i] \in 1..Len(m) /\ m[ids[a + i]] = shard.map[shard.ids[i]]
  BY <1>6, <1>9
<1>12. ASSUME NEW i \in 1..Len(ids) PROVE ids[i] \in 1..Len(m)
  <2>1. CASE i \in 1..a
    BY <1>10, <2>1
  <2>2. CASE i \notin 1..a
    <3>1. i - a \in 1..b /\ a + (i - a) = i
      BY <1>4, <1>9, <2>2
    <3> QED
      BY <1>11, <3>1
  <2> QED
    BY <2>1, <2>2
<1>13. [map |-> m, ids |-> ids] \in PackedSets(S)
  BY <1>5, <1>9, <1>12 DEF PackedSets
<1> QED
  <2> DEFINE sum == [map |-> m, ids |-> ids]
  <2>1. sum.map = m /\ sum.ids = ids /\ sum \in PackedSets(S) /\ MergeShard(acc, shard) = sum
    BY <1>3, <1>13
  <2> HIDE DEF sum
  <2>2. Merges(sum, acc, shard)
    BY <1>9, <1>10, <1>11, <2>1 DEF Merges, a, b
  <2> QED
    BY <2>1, <2>2

\* What is merged after each shard.
LEMMA MergeRuns ==
    ASSUME NEW S, NEW shards \in Seq(PackedSets(S))
    PROVE  \E acc \in [0..Len(shards) -> PackedSets(S)] :
               /\ acc[0] = [map |-> <<>>, ids |-> <<>>] /\ MergeShards(shards) = acc[Len(shards)]
               /\ \A k \in 1..Len(shards) :
                     acc[k - 1] \in PackedSets(S) /\ acc[k] = MergeShard(acc[k - 1], shards[k])
<1> DEFINE n == Len(shards)
           V == PackedSets(S)
           base == [map |-> <<>>, ids |-> <<>>]
           step == [p \in (1..n) \X V |-> MergeShard(p[2], shards[p[1]])]
           it == CHOOSE f : f = [t \in SUBSET (1..n) |->
                     IF t = {} THEN base ELSE MergeShard(f[t \ {Max(t)}], shards[Max(t)])]
           acc == [k \in 0..n |-> it[1..k]]
<1>1. n \in Nat /\ DOMAIN shards = 1..n /\ \A k \in 1..n : shards[k] \in V
  OBVIOUS
<1>2. MergeShards(shards) = it[1..n]
  BY <1>1 DEF MergeShards, FoldLeft, MapThenFoldSet
<1>3. base \in V /\ \A v \in V, x \in V : MergeShard(v, x) \in V
  <2>1. base \in V
    <3>1. <<>> \in Seq(S) /\ <<>> \in Seq(Nat) /\ Len(<<>>) = 0
      OBVIOUS
    <3> QED
      BY <3>1 DEF PackedSets, Distinct
  <2> QED
    BY <2>1, MergeShardFacts
<1> HIDE DEF n, V, base
<1>4. step \in [(1..n) \X V -> V]
  BY <1>1, <1>3
<1>5. \A k \in 1..n, v \in V : step[<<k, v>>] = MergeShard(v, shards[k])
  BY <1>1
<1> HIDE DEF step
<1>6. PICK f : IsFold(f, n, V, base, step)
  BY <1>1, <1>3, <1>4, FoldExists
<1>7. f = [t \in SUBSET (1..n) |->
              IF t = {} THEN base ELSE MergeShard(f[t \ {Max(t)}], shards[Max(t)])]
  <2>1. \A t \in SUBSET (1..n) : t # {} => Max(t) \in 1..n /\ f[t \ {Max(t)}] \in V
    BY <1>1, <1>6, MaxOf DEF IsFold
  <2> QED
    BY <1>5, <1>6, <2>1 DEF IsFold
<1>8. it = [t \in SUBSET (1..n) |->
              IF t = {} THEN base ELSE MergeShard(it[t \ {Max(t)}], shards[Max(t)])]
  BY <1>7
<1> HIDE DEF it
<1>9. FoldsWhereTyped(it, n, V, base, step)
  <2>1. \A t \in SUBSET (1..n) : t # {} => Max(t) \in 1..n
    BY <1>1, MaxOf
  <2> QED
    BY <1>5, <1>8, <2>1 DEF FoldsWhereTyped
<1>10. Runs(acc, n, V, base, step)
  BY <1>1, <1>3, <1>4, <1>9, FoldRuns
<1>11. acc[n] = it[1..n]
  BY <1>1
<1> HIDE DEF acc
<1>12. /\ acc \in [0..n -> V] /\ acc[0] = base
       /\ \A k \in 1..n : acc[k - 1] \in V /\ acc[k] = MergeShard(acc[k - 1], shards[k])
  BY <1>5, <1>10 DEF Runs
<1> QED
  BY <1>2, <1>11, <1>12 DEF n, V, base

\* merge_packed_shards: every row of the merged set has the name of its source.
LEMMA MergedNames ==
    ASSUME NEW S, NEW shards \in Seq(Seq(S))
    PROVE  LET sum == MergeShards([i \in 1..Len(shards) |-> Pack(shards[i])])
           IN  /\ OneToOne(sum.map)
               /\ [i \in 1..Len(sum.ids) |-> sum.map[sum.ids[i]]] = FlattenSeq(shards)
<1> DEFINE n == Len(shards)
           packs == [i \in 1..Len(shards) |-> Pack(shards[i])]
           names(p) == [i \in 1..Len(p.ids) |-> p.map[p.ids[i]]]
<1>1. n \in Nat /\ \A k \in 1..n : shards[k] \in Seq(S) /\ packs[k] = Pack(shards[k])
  OBVIOUS
<1>2. packs \in Seq(PackedSets(S)) /\ Len(packs) = n
  <2>1. \A k \in 1..n : Pack(shards[k]) \in PackedSets(S)
    BY <1>1, PackFacts
  <2> QED
    BY <1>1, <2>1
<1> HIDE DEF packs
<1>3. PICK acc \in [0..n -> PackedSets(S)] :
          /\ acc[0] = [map |-> <<>>, ids |-> <<>>] /\ MergeShards(packs) = acc[n]
          /\ \A k \in 1..n : acc[k - 1] \in PackedSets(S) /\ acc[k] = MergeShard(acc[k - 1], packs[k])
  BY <1>2, MergeRuns
<1>4. PICK flat : Flattens(flat, shards, S)
  BY FlattenRuns
<1> HIDE DEF n
<1> DEFINE T == {k \in 0..n : names(acc[k]) = flat[k]}
<1>5. 0 \in T
  <2>1. acc[0].ids = <<>> /\ Len(<<>>) = 0 /\ flat[0] = <<>>
    BY <1>3, <1>4 DEF Flattens
  <2>2. names(acc[0]) = <<>>
    BY <2>1
  <2> QED
    BY <1>1, <2>1, <2>2
<1>6. ASSUME NEW k \in 1..n, k - 1 \in T PROVE k \in T
  <2> DEFINE u == acc[k - 1]
             w == acc[k]
             p == packs[k]
  <2>1. /\ u \in PackedSets(S) /\ p \in PackedSets(S) /\ w = MergeShard(u, p)
        /\ Len(p.ids) = Len(shards[k]) /\ shards[k] \in Seq(S)
        /\ \A i \in 1..Len(shards[k]) : p.map[p.ids[i]] = shards[k][i]
    BY <1>1, <1>3, PackFacts
  <2>2. names(u) = flat[k - 1] /\ flat[k - 1] \in Seq(S) /\ flat[k] = flat[k - 1] \o shards[k]
    BY <1>4, <1>6 DEF Flattens, n
  <2> HIDE DEF u, p
  <2>3. /\ w \in PackedSets(S)
        /\ Len(w.ids) = Len(u.ids) + Len(p.ids)
        /\ \A i \in 1..Len(u.ids) : w.map[w.ids[i]] = u.map[u.ids[i]]
        /\ \A i \in 1..Len(p.ids) : w.map[w.ids[Len(u.ids) + i]] = p.map[p.ids[i]]
    <3>1. w \in PackedSets(S) /\ Merges(w, u, p)
      BY <2>1, MergeShardFacts
    <3> QED
      BY <3>1 DEF Merges
  <2> HIDE DEF w
  <2>4. Len(u.ids) \in Nat /\ Len(p.ids) \in Nat
    BY <2>1 DEF PackedSets
  <2>5. Len(flat[k - 1]) = Len(u.ids) /\ \A i \in 1..Len(u.ids) : flat[k - 1][i] = u.map[u.ids[i]]
    BY <2>2, <2>4
  <2>6. /\ flat[k] \in Seq(S) /\ Len(flat[k]) = Len(u.ids) + Len(p.ids)
        /\ \A i \in 1..Len(u.ids) : flat[k][i] = u.map[u.ids[i]]
        /\ \A i \in 1..Len(p.ids) : flat[k][Len(u.ids) + i] = p.map[p.ids[i]]
    <3>1. flat[k] \in Seq(S) /\ Joins(flat[k], flat[k - 1], shards[k])
      BY <2>1, <2>2, Joined
    <3> QED
      BY <2>1, <2>5, <3>1 DEF Joins
  <2>7. ASSUME NEW i \in 1..Len(w.ids) PROVE w.map[w.ids[i]] = flat[k][i]
    <3>1. CASE i \in 1..Len(u.ids)
      BY <2>3, <2>6, <3>1
    <3>2. CASE i \notin 1..Len(u.ids)
      <4>1. i \in 1..(Len(u.ids) + Len(p.ids))
        BY <2>3
      <4>2. i - Len(u.ids) \in 1..Len(p.ids) /\ Len(u.ids) + (i - Len(u.ids)) = i
        BY <2>4, <3>2, <4>1, Behind
      <4> QED
        BY <2>3, <2>6, <4>2
    <3> QED
      BY <3>1, <3>2
  <2>8. names(w) = flat[k]
    <3>1. flat[k] = [i \in 1..Len(flat[k]) |-> flat[k][i]]
      BY <2>6, AsFunction
    <3>2. Len(flat[k]) = Len(w.ids)
      BY <2>3, <2>6
    <3> QED
      BY <2>7, <3>1, <3>2
  <2>9. k \in 0..n
    BY <1>1
  <2> HIDE DEF names
  <2> QED
    BY <2>8, <2>9 DEF w
<1> HIDE DEF T, names
<1>7. n \in T
  <2>1. \A k \in 0..n : k \in T
    BY <1>1, <1>5, <1>6, Induct
  <2> QED
    BY <1>1, <2>1
<1>8. acc[n] \in PackedSets(S) /\ FlattenSeq(shards) = flat[n]
  <2>1. n \in 0..n
    BY <1>1
  <2>2. FlattenSeq(shards) = flat[n]
    BY <1>4 DEF Flattens, n
  <2> QED
    BY <1>3, <2>1, <2>2
<1>9. OneToOne(acc[n].map)
  <2>1. acc[n].map \in Seq(S) /\ Distinct(acc[n].map)
    BY <1>8 DEF PackedSets
  <2> QED
    BY <2>1, OneToOneSeq DEF Distinct
<1> QED
  BY <1>3, <1>7, <1>8, <1>9 DEF T, names, packs

-----------------------------------------------------------------------------
(* Shares *)

LEMMA TotalAppend ==
    ASSUME NEW s \in Seq(Int), NEW x \in Int
    PROVE  Total(s) \in Int /\ Total(Append(s, x)) = Total(s) + x
<1> DEFINE n == Len(s)
           all == Append(s, x)
<1>1. n \in Nat /\ all \in Seq(Int) /\ Len(all) = n + 1 /\ all[n + 1] = x
      /\ \A k \in 1..n : all[k] = s[k]
  OBVIOUS
<1>2. PICK a \in [0..n -> Int] :
          /\ a[0] = 0 /\ Total(s) = a[n]
          /\ \A k \in 1..n : a[k] = a[k - 1] + s[k]
  BY TotalFold
<1> HIDE DEF n, all
<1>3. PICK b \in [0..Len(all) -> Int] :
          /\ b[0] = 0 /\ Total(all) = b[Len(all)]
          /\ \A k \in 1..Len(all) : b[k] = b[k - 1] + all[k]
  BY <1>1, TotalFold
<1> DEFINE T == {k \in 0..n : a[k] = b[k]}
<1>4. 0 \in T
  BY <1>1, <1>2, <1>3
<1>5. ASSUME NEW k \in 1..n, k - 1 \in T PROVE k \in T
  <2>1. a[k - 1] = b[k - 1]
    BY <1>5
  <2>2. k \in 1..Len(all) /\ k \in 0..n
    BY <1>1
  <2>3. a[k] = a[k - 1] + s[k] /\ b[k] = b[k - 1] + s[k]
    BY <1>1, <1>2, <1>3, <2>2
  <2> QED
    BY <2>1, <2>2, <2>3
<1> HIDE DEF T
<1>6. n \in T
  <2>1. \A k \in 0..n : k \in T
    BY <1>1, <1>4, <1>5, Induct
  <2> QED
    BY <1>1, <2>1
<1>7. a[n] = b[n] /\ a[n] \in Int
  BY <1>1, <1>2, <1>6 DEF T
<1>8. b[n + 1] = b[n] + x
  <2>1. n + 1 \in 1..Len(all) /\ (n + 1) - 1 = n
    BY <1>1
  <2> QED
    BY <1>1, <1>3, <2>1
<1> QED
  BY <1>1, <1>2, <1>3, <1>7, <1>8 DEF all

LEMMA Division ==
    \A t \in Nat, n \in Nat \ {0} :
        t \div n \in Nat /\ t % n \in 0..(n - 1) /\ t = n * (t \div n) + (t % n)
OBVIOUS

\* What the first k of n shares come to.
FirstShares(t, n, k) == k * (t \div n) + AtMost(k, t % n)

LEMMA ShareSum ==
    ASSUME NEW t \in Nat, NEW n \in Nat \ {0}, NEW k \in 0..n
    PROVE  Total([j \in 1..k |-> Share(t, n, j - 1)]) = FirstShares(t, n, k)
<1> DEFINE q == t \div n
           r == t % n
           size(j) == Share(t, n, j - 1)
           upto(i) == [j \in 1..i |-> size(j)]
           T == {i \in 0..n : Total(upto(i)) = FirstShares(t, n, i)}
<1>1. q \in Nat /\ r \in 0..(n - 1)
  BY Division
<1> HIDE DEF q, r
<1>2. \A j \in 1..n : size(j) = q + (IF j <= r THEN 1 ELSE 0) /\ size(j) \in Int
  BY <1>1 DEF Share, q, r
<1> HIDE DEF size
<1>3. \A i \in 0..n : FirstShares(t, n, i) = i * q + AtMost(i, r)
  BY DEF FirstShares, q, r
<1>4. 0 \in T
  <2>1. upto(0) = <<>> /\ <<>> \in Seq(Int) /\ Len(<<>>) = 0
    OBVIOUS
  <2>2. Total(<<>>) = 0
    BY <2>1, TotalFold
  <2>3. FirstShares(t, n, 0) = 0
    BY <1>1, <1>3 DEF AtMost
  <2> QED
    BY <2>1, <2>2, <2>3
<1>5. ASSUME NEW i \in 1..n, i - 1 \in T PROVE i \in T
  <2>1. upto(i - 1) \in Seq(Int) /\ size(i) \in Int
    BY <1>2
  <2>2. upto(i) = Append(upto(i - 1), size(i))
    BY <2>1
  <2> HIDE DEF upto
  <2>3. Total(upto(i)) = Total(upto(i - 1)) + size(i)
    BY <2>1, <2>2, TotalAppend
  <2>4. Total(upto(i - 1)) = (i - 1) * q + AtMost(i - 1, r)
    BY <1>3, <1>5
  <2>5. (i - 1) * q + q = i * q
    BY <1>1
  <2>6. AtMost(i - 1, r) + (IF i <= r THEN 1 ELSE 0) = AtMost(i, r)
    BY <1>1 DEF AtMost
  <2>7. (i - 1) * q \in Int /\ i * q \in Int /\ AtMost(i - 1, r) \in Int /\ AtMost(i, r) \in Int
    BY <1>1 DEF AtMost
  <2>8. Total(upto(i)) = FirstShares(t, n, i)
    BY <1>1, <1>2, <1>3, <2>3, <2>4, <2>5, <2>6, <2>7
  <2> QED
    BY <2>8
<1> HIDE DEF T
<1>6. \A i \in 0..n : i \in T
  BY <1>4, <1>5, Induct
<1> QED
  BY <1>6 DEF T, size

\* All shares are the whole.
LEMMA AllShares ==
    ASSUME NEW t \in Nat, NEW n \in Nat \ {0}
    PROVE  FirstShares(t, n, n) = t
<1>1. AtMost(n, t % n) = t % n
  BY Division DEF AtMost
<1> QED
  BY <1>1, Division DEF FirstShares

-----------------------------------------------------------------------------
(* repartition_bullet.py *)

LEMMA SubSeqIs ==
    ASSUME NEW S, NEW s \in Seq(S), NEW a \in 1..(Len(s) + 1), NEW b \in (a - 1)..Len(s)
    PROVE  /\ SubSeq(s, a, b) \in Seq(S) /\ Len(SubSeq(s, a, b)) = b - a + 1
           /\ \A i \in 1..(b - a + 1) : SubSeq(s, a, b)[i] = s[a + i - 1]
<1>1. SubSeq(s, a, b) = [i \in 1..(b - a + 1) |-> s[a + i - 1]]
  OBVIOUS
<1>2. b - a + 1 \in Nat /\ Len(s) \in Nat
  OBVIOUS
<1>3. ASSUME NEW i \in 1..(b - a + 1) PROVE s[a + i - 1] \in S
  <2>1. a + i - 1 \in 1..Len(s)
    BY <1>2
  <2> QED
    BY <2>1
<1>4. SubSeq(s, a, b) \in Seq(S)
  BY <1>1, <1>2, <1>3
<1> QED
  BY <1>1, <1>2, <1>4

\* s from its a-th element to its b-th.
IsPiece(p, s, a, b, S) ==
    p \in Seq(S) /\ Len(p) = b - a + 1 /\ \A i \in 1..(b - a + 1) : p[i] = s[a + i - 1]

LEMMA Piece ==
    ASSUME NEW S, NEW s \in Seq(S), NEW a \in 1..(Len(s) + 1), NEW b \in (a - 1)..Len(s)
    PROVE  IsPiece(SubSeq(s, a, b), s, a, b, S)
BY SubSeqIs DEF IsPiece

LEMMA PiecesJoin ==
    ASSUME NEW S, NEW s \in Seq(S), NEW a \in 0..Len(s), NEW b \in a..Len(s)
    PROVE  SubSeq(s, 1, a) \o SubSeq(s, a + 1, b) = SubSeq(s, 1, b)
<1> DEFINE u == SubSeq(s, 1, a)
           v == SubSeq(s, a + 1, b)
           w == SubSeq(s, 1, b)
<1>1. Len(s) \in Nat /\ a \in Nat /\ b \in Nat
  OBVIOUS
<1>2. /\ u \in Seq(S) /\ Len(u) = a /\ \A i \in 1..a : u[i] = s[i]
      /\ w \in Seq(S) /\ Len(w) = b /\ \A i \in 1..b : w[i] = s[i]
  <2>1. /\ 1 \in 1..(Len(s) + 1) /\ a \in (1 - 1)..Len(s) /\ b \in (1 - 1)..Len(s)
        /\ a - 1 + 1 = a /\ b - 1 + 1 = b
    BY <1>1
  <2>2. IsPiece(u, s, 1, a, S) /\ IsPiece(w, s, 1, b, S)
    BY <2>1, Piece
  <2> HIDE DEF u, w
  <2> QED
    BY <1>1, <2>1, <2>2 DEF IsPiece
<1>3. v \in Seq(S) /\ Len(v) = b - a /\ \A i \in 1..(b - a) : v[i] = s[a + i]
  <2>1. /\ a + 1 \in 1..(Len(s) + 1) /\ b \in ((a + 1) - 1)..Len(s)
        /\ b - (a + 1) + 1 = b - a /\ \A i \in 1..(b - a) : (a + 1) + i - 1 = a + i
    BY <1>1
  <2>2. IsPiece(v, s, a + 1, b, S)
    BY <2>1, Piece
  <2> HIDE DEF v
  <2> QED
    BY <1>1, <2>1, <2>2 DEF IsPiece
<1> HIDE DEF u, v, w
<1>4. u \o v \in Seq(S) /\ Joins(u \o v, u, v)
  BY <1>2, <1>3, Joined
<1>5. Len(u \o v) = b
  BY <1>1, <1>2, <1>3, <1>4 DEF Joins
<1>6. ASSUME NEW i \in 1..b PROVE (u \o v)[i] = w[i]
  <2>1. CASE i \in 1..a
    BY <1>2, <1>4, <2>1 DEF Joins
  <2>2. CASE i \notin 1..a
    <3>1. i - a \in 1..(b - a) /\ a + (i - a) = i
      BY <1>1, <2>2
    <3>2. (u \o v)[a + (i - a)] = v[i - a]
      BY <1>2, <1>3, <1>4, <3>1 DEF Joins
    <3> QED
      BY <1>2, <1>3, <3>1, <3>2
  <2> QED
    BY <2>1, <2>2
<1>7. u \o v = [i \in 1..Len(u \o v) |-> (u \o v)[i]] /\ w = [i \in 1..Len(w) |-> w[i]]
  BY <1>2, <1>4, AsFunction
<1> QED
  BY <1>2, <1>5, <1>6, <1>7 DEF u, v, w

LEMMA WholePiece ==
    ASSUME NEW S, NEW s \in Seq(S)
    PROVE  SubSeq(s, 1, Len(s)) = s /\ SubSeq(s, 1, 0) = <<>>
<1>1. SubSeq(s, 1, Len(s)) = [i \in 1..Len(s) |-> s[i]] /\ SubSeq(s, 1, 0) = <<>>
  OBVIOUS
<1> QED
  BY <1>1, AsFunction

\* The chunks are the stream, and no two differ by more than one record.
LEMMA ChunksOfStream ==
    ASSUME NEW S, NEW stream \in Seq(S), NEW chunks \in Nat \ {0}, NEW cs,
           cs = [i \in 1..chunks |->
                    SubSeq(stream, Total([j \in 1..(i - 1) |-> Share(Len(stream), chunks, j - 1)]) + 1,
                           Total([j \in 1..(i - 1) |-> Share(Len(stream), chunks, j - 1)])
                               + Share(Len(stream), chunks, i - 1))]
    PROVE  /\ FlattenSeq(cs) = stream
           /\ \A a, b \in RowSet(cs) : Len(a) - Len(b) \in -1..1
<1> DEFINE t == Len(stream)
           q == t \div chunks
           r == t % chunks
           upto(i) == FirstShares(t, chunks, i)
<1>0. t \in Nat
  OBVIOUS
<1> HIDE DEF t
<1>1. t \in Nat /\ q \in Nat /\ r \in 0..(chunks - 1)
  BY <1>0, Division
<1> HIDE DEF q, r
<1>2. upto(0) = 0 /\ upto(chunks) = t /\ \A i \in 0..chunks : upto(i) \in Nat
  <2>1. upto(chunks) = t
    BY <1>1, AllShares
  <2>2. \A i \in 0..chunks : i * q \in Nat /\ AtMost(i, r) \in Nat
    BY <1>1 DEF AtMost
  <2>3. 0 * q + AtMost(0, r) = 0
    BY <1>1 DEF AtMost
  <2>4. \A i \in 0..chunks : upto(i) = i * q + AtMost(i, r)
    BY DEF FirstShares, q, r
  <2>5. 0 \in 0..chunks /\ upto(0) = 0 * q + AtMost(0, r)
    BY <2>4
  <2> HIDE DEF upto
  <2>6. ASSUME NEW i \in 0..chunks PROVE upto(i) \in Nat
    <3>1. i * q \in Nat /\ AtMost(i, r) \in Nat
      BY <2>2
    <3>2. \A x, y \in Nat : x + y \in Nat
      OBVIOUS
    <3>3. i * q + AtMost(i, r) \in Nat
      BY <3>1, <3>2
    <3> QED
      BY <2>4, <3>3
  <2> QED
    BY <2>1, <2>3, <2>5, <2>6
<1>3. ASSUME NEW i \in 1..chunks
      PROVE  /\ Share(t, chunks, i - 1) \in {q, q + 1}
             /\ upto(i) = upto(i - 1) + Share(t, chunks, i - 1)
             /\ Total([j \in 1..(i - 1) |-> Share(t, chunks, j - 1)]) = upto(i - 1)
  <2>1. Share(t, chunks, i - 1) = q + (IF i <= r THEN 1 ELSE 0)
    BY <1>1 DEF Share, q, r
  <2>2. upto(i) = i * q + AtMost(i, r) /\ upto(i - 1) = (i - 1) * q + AtMost(i - 1, r)
    BY DEF FirstShares, q, r
  <2>3. (i - 1) * q + q = i * q /\ (i - 1) * q \in Int /\ i * q \in Int
    BY <1>1
  <2>4. AtMost(i - 1, r) + (IF i <= r THEN 1 ELSE 0) = AtMost(i, r)
        /\ AtMost(i - 1, r) \in Int /\ AtMost(i, r) \in Int
    BY <1>1 DEF AtMost
  <2> HIDE DEF upto
  <2>5. upto(i) = upto(i - 1) + Share(t, chunks, i - 1)
    BY <1>1, <2>1, <2>2, <2>3, <2>4
  <2>6. i - 1 \in 0..chunks
    OBVIOUS
  <2>7. Total([j \in 1..(i - 1) |-> Share(t, chunks, j - 1)]) = upto(i - 1)
    BY <1>1, <2>6, ShareSum DEF upto
  <2> QED
    BY <1>1, <2>1, <2>5, <2>7
<1> HIDE DEF upto
<1>4. \A i \in 0..chunks : upto(i) <= t
  <2> DEFINE D == {d \in 0..chunks : upto(chunks - d) <= t}
  <2>1. 0 \in D
    BY <1>1, <1>2
  <2>2. ASSUME NEW d \in 1..chunks, d - 1 \in D PROVE d \in D
    <3> DEFINE i == chunks - (d - 1)
    <3>1. i \in 1..chunks /\ i - 1 = chunks - d /\ i - 1 \in 0..chunks /\ i \in 0..chunks /\ d \in 0..chunks
      OBVIOUS
    <3>2. upto(i) <= t
      BY <2>2
    <3> HIDE DEF i
    <3>3. upto(i) = upto(i - 1) + Share(t, chunks, i - 1) /\ Share(t, chunks, i - 1) \in Nat
      <4>1. upto(i) = upto(i - 1) + Share(t, chunks, i - 1) /\ Share(t, chunks, i - 1) \in {q, q + 1}
        BY <1>3, <3>1
      <4> QED
        BY <1>1, <4>1
    <3>4. upto(i) \in Nat /\ upto(i - 1) \in Nat
      BY <1>2, <3>1
    <3>5. upto(i - 1) <= t
      BY <1>1, <3>2, <3>3, <3>4
    <3> QED
      BY <3>1, <3>5
  <2> HIDE DEF D
  <2>3. \A d \in 0..chunks : d \in D
    BY <2>1, <2>2, Induct
  <2>4. ASSUME NEW i \in 0..chunks PROVE upto(i) <= t
    <3>1. chunks - i \in 0..chunks /\ chunks - (chunks - i) = i
      OBVIOUS
    <3>2. chunks - i \in D
      BY <2>3, <3>1
    <3> QED
      BY <3>1, <3>2 DEF D
  <2> QED
    BY <2>4
<1>5. \A i \in 1..chunks : cs[i] = SubSeq(stream, upto(i - 1) + 1, upto(i))
  BY <1>3 DEF t
<1>6. ASSUME NEW i \in 1..chunks
      PROVE  /\ cs[i] \in Seq(S) /\ Len(cs[i]) \in {q, q + 1}
             /\ SubSeq(stream, 1, upto(i - 1)) \o cs[i] = SubSeq(stream, 1, upto(i))
  <2>1. i - 1 \in 0..chunks /\ i \in 0..chunks
    OBVIOUS
  <2>2. /\ upto(i - 1) \in Nat /\ upto(i) \in Nat /\ upto(i) <= t
        /\ upto(i) = upto(i - 1) + Share(t, chunks, i - 1) /\ Share(t, chunks, i - 1) \in {q, q + 1}
    BY <1>2, <1>3, <1>4, <2>1
  <2>3. upto(i - 1) \in 0..t /\ upto(i) \in upto(i - 1)..t
    BY <1>1, <2>2
  <2>4. SubSeq(stream, 1, upto(i - 1)) \o SubSeq(stream, upto(i - 1) + 1, upto(i)) = SubSeq(stream, 1, upto(i))
    BY <2>3, PiecesJoin DEF t
  <2>5. upto(i - 1) + 1 \in 1..(t + 1) /\ upto(i) \in ((upto(i - 1) + 1) - 1)..t
    BY <1>1, <2>3
  <2>6. IsPiece(cs[i], stream, upto(i - 1) + 1, upto(i), S)
    BY <1>5, <2>5, Piece DEF t
  <2>7. upto(i) - (upto(i - 1) + 1) + 1 = Share(t, chunks, i - 1)
    BY <1>1, <2>2
  <2> QED
    BY <1>5, <2>2, <2>4, <2>6, <2>7 DEF IsPiece
<1>7. cs \in Seq(Seq(S)) /\ Len(cs) = chunks
  <2>1. cs = [i \in 1..chunks |-> cs[i]]
    OBVIOUS
  <2>2. \A i \in 1..chunks : cs[i] \in Seq(S)
    BY <1>6
  <2>3. cs \in [1..chunks -> Seq(S)]
    BY <2>1, <2>2
  <2>4. chunks \in Nat
    OBVIOUS
  <2> QED
    BY <2>3, <2>4, MadeSeq
<1>8. FlattenSeq(cs) = stream
  <2>1. PICK flat : Flattens(flat, cs, S)
    BY <1>7, FlattenRuns
  <2> DEFINE T == {k \in 0..chunks : flat[k] = SubSeq(stream, 1, upto(k))}
  <2>2. 0 \in T
    <3>1. flat[0] = <<>> /\ SubSeq(stream, 1, 0) = <<>>
      BY <2>1, WholePiece DEF Flattens
    <3>2. flat[0] = SubSeq(stream, 1, upto(0)) /\ 0 \in 0..chunks
      BY <1>2, <3>1
    <3> QED
      BY <3>2
  <2>3. ASSUME NEW k \in 1..chunks, k - 1 \in T PROVE k \in T
    <3>1. flat[k] = flat[k - 1] \o cs[k]
      BY <1>7, <2>1 DEF Flattens
    <3>2. flat[k - 1] = SubSeq(stream, 1, upto(k - 1))
      BY <2>3
    <3>3. flat[k] = SubSeq(stream, 1, upto(k))
      BY <1>6, <3>1, <3>2
    <3>4. k \in 0..chunks
      OBVIOUS
    <3> QED
      BY <3>3, <3>4
  <2> HIDE DEF T
  <2>4. chunks \in T
    <3>1. \A k \in 0..chunks : k \in T
      BY <2>2, <2>3, Induct
    <3> QED
      BY <3>1
  <2>5. flat[chunks] = SubSeq(stream, 1, t)
    BY <1>2, <2>4 DEF T
  <2> QED
    BY <1>7, <2>1, <2>5, WholePiece DEF Flattens, t
<1>9. ASSUME NEW a \in RowSet(cs), NEW b \in RowSet(cs) PROVE Len(a) - Len(b) \in -1..1
  <2>1. Len(a) \in {q, q + 1} /\ Len(b) \in {q, q + 1}
    BY <1>6, <1>9 DEF RowSet
  <2> QED
    BY <1>1, <2>1
<1> QED
  BY <1>8, <1>9

-----------------------------------------------------------------------------
(* mix_jsonl.py *)

Lines == [id : Nat, scored : BOOLEAN, score : Int]

LEMMA EligibleType ==
    ASSUME NEW source, source.rows \in Seq(Lines)
    PROVE  Eligible(source) \in Seq(Lines)
<1> DEFINE rows == source.rows
           n == Len(rows)
           V == Seq(Lines)
           Keep(acc, row) == IF KeepLine(row, source.bound) THEN Append(acc, row) ELSE acc
           step == [p \in (1..n) \X V |-> Keep(p[2], rows[p[1]])]
           it == CHOOSE f : f = [t \in SUBSET (1..n) |->
                     IF t = {} THEN <<>>
                     ELSE IF KeepLine(rows[Max(t)], source.bound)
                          THEN Append(f[t \ {Max(t)}], rows[Max(t)]) ELSE f[t \ {Max(t)}]]
           acc == [k \in 0..n |-> it[1..k]]
<1>1. n \in Nat /\ DOMAIN rows = 1..n /\ \A k \in 1..n : rows[k] \in Lines
  OBVIOUS
<1>2. Eligible(source) = it[1..n]
  BY <1>1 DEF Eligible, FoldLeft, MapThenFoldSet
<1>3. <<>> \in V /\ \A v \in V, x \in Lines : Keep(v, x) \in V
  OBVIOUS
<1> HIDE DEF n, V, rows
<1>4. step \in [(1..n) \X V -> V]
  BY <1>1, <1>3
<1>5. \A k \in 1..n, v \in V : step[<<k, v>>] = Keep(v, rows[k])
  BY <1>1
<1> HIDE DEF step
<1>6. PICK f : IsFold(f, n, V, <<>>, step)
  BY <1>1, <1>3, <1>4, FoldExists
<1>7. f = [t \in SUBSET (1..n) |->
              IF t = {} THEN <<>>
              ELSE IF KeepLine(rows[Max(t)], source.bound)
                   THEN Append(f[t \ {Max(t)}], rows[Max(t)]) ELSE f[t \ {Max(t)}]]
  <2>1. \A t \in SUBSET (1..n) : t # {} => Max(t) \in 1..n /\ f[t \ {Max(t)}] \in V
    BY <1>1, <1>6, MaxOf DEF IsFold
  <2> QED
    BY <1>5, <1>6, <2>1 DEF IsFold
<1>8. it = [t \in SUBSET (1..n) |->
              IF t = {} THEN <<>>
              ELSE IF KeepLine(rows[Max(t)], source.bound)
                   THEN Append(it[t \ {Max(t)}], rows[Max(t)]) ELSE it[t \ {Max(t)}]]
  BY <1>7
<1> HIDE DEF it
<1>9. FoldsWhereTyped(it, n, V, <<>>, step)
  <2>1. \A t \in SUBSET (1..n) : t # {} => Max(t) \in 1..n
    BY <1>1, MaxOf
  <2> QED
    BY <1>5, <1>8, <2>1 DEF FoldsWhereTyped
<1>10. Runs(acc, n, V, <<>>, step)
  BY <1>1, <1>3, <1>4, <1>9, FoldRuns
<1>11. acc[n] = it[1..n] /\ n \in 0..n
  BY <1>1
<1> HIDE DEF acc
<1>12. acc[n] \in V
  BY <1>10, <1>11 DEF Runs
<1> QED
  BY <1>2, <1>11, <1>12 DEF V

\* The picks of the first k lines, and what the draws have left after them.
Kept(lines, P, k) == [i \in 1..k |-> IF i \in P THEN <<lines[i].id>> ELSE <<>>]
PickState(lines, q, P, k) ==
    [picked |-> FlattenSeq(Kept(lines, P, k)), needed |-> q - Cardinality(P), left |-> Len(lines) - k]
PickSets(lines, q, k) ==
    {P \in SUBSET (1..k) : Cardinality(P) <= q /\ q - Cardinality(P) <= Len(lines) - k}
PickReach(lines, q, k) == {PickState(lines, q, P, k) : P \in PickSets(lines, q, k)}
PickStates == [picked : Seq(Nat), needed : Int, left : Int]

LEMMA KeptAppends ==
    ASSUME NEW lines \in Seq(Lines), NEW k \in 1..Len(lines), NEW P \in SUBSET (1..(k - 1))
    PROVE  /\ FlattenSeq(Kept(lines, P, k - 1)) \in Seq(Nat)
           /\ FlattenSeq(Kept(lines, P, k)) = FlattenSeq(Kept(lines, P, k - 1))
           /\ FlattenSeq(Kept(lines, P \cup {k}, k)) = Append(FlattenSeq(Kept(lines, P, k - 1)), lines[k].id)
<1> DEFINE before == Kept(lines, P, k - 1)
<1>1. k \notin P /\ k \in Nat /\ k - 1 \in Nat /\ \A i \in 1..k : lines[i].id \in Nat
  <2>1. k \notin P /\ k \in Nat /\ k - 1 \in Nat
    OBVIOUS
  <2>2. \A i \in 1..k : lines[i] \in Lines
    <3>1. \A i \in 1..k : i \in 1..Len(lines)
      OBVIOUS
    <3> QED
      BY <3>1
  <2> QED
    BY <2>1, <2>2 DEF Lines
<1>2. before \in Seq(Seq(Nat)) /\ Len(before) = k - 1
  <2>1. \A i \in 1..(k - 1) : (IF i \in P THEN <<lines[i].id>> ELSE <<>>) \in Seq(Nat)
    BY <1>1
  <2> QED
    BY <1>1, <2>1 DEF Kept
<1>3. Kept(lines, P, k) = Append(before, <<>>)
  BY <1>1 DEF Kept
<1>4. Kept(lines, P \cup {k}, k) = Append(before, <<lines[k].id>>)
  BY <1>1 DEF Kept
<1> HIDE DEF before
<1>5. <<>> \in Seq(Nat) /\ <<lines[k].id>> \in Seq(Nat)
  BY <1>1
<1>6. FlattenSeq(before) \in Seq(Nat) /\ FlattenSeq(Append(before, <<>>)) = FlattenSeq(before) \o <<>>
  BY <1>2, <1>5, FlattenAppend
<1>7. FlattenSeq(Append(before, <<lines[k].id>>)) = FlattenSeq(before) \o <<lines[k].id>>
  BY <1>2, <1>5, FlattenAppend
<1>8. FlattenSeq(before) \o <<>> = FlattenSeq(before)
      /\ FlattenSeq(before) \o <<lines[k].id>> = Append(FlattenSeq(before), lines[k].id)
  BY <1>1, <1>6
<1> QED
  BY <1>3, <1>4, <1>6, <1>7, <1>8 DEF before

LEMMA PickCount ==
    ASSUME NEW k \in Nat, NEW P \in SUBSET (1..k)
    PROVE  /\ IsFiniteSet(P) /\ Cardinality(P) \in Nat
           /\ \A x : x \notin P => Cardinality(P \cup {x}) = Cardinality(P) + 1
<1>1. IsFiniteSet(P)
  <2>1. IsFiniteSet(1..k)
    BY FS_Interval
  <2> QED
    BY <2>1, FS_Subset
<1>2. Cardinality(P) \in Nat
  BY <1>1, FS_CardinalityType
<1>3. ASSUME NEW x, x \notin P PROVE Cardinality(P \cup {x}) = Cardinality(P) + 1
  BY <1>1, <1>3, FS_AddElement
<1> QED
  BY <1>1, <1>2, <1>3

\* What the draws have made after each line.
Selects(acc, source) ==
    LET lines == Eligible(source)
    IN  /\ acc \in [0..Len(lines) -> SUBSET PickStates]
        /\ acc[0] = {[picked |-> <<>>, needed |-> Quota(source), left |-> Len(lines)]}
        /\ SelectLines(source) = {st.picked : st \in acc[Len(lines)]}
        /\ \A k \in 1..Len(lines) :
              /\ acc[k - 1] \in SUBSET PickStates
              /\ acc[k] = UNION {TakeOrLeave(st, lines[k]) : st \in acc[k - 1]}

LEMMA SelectRuns ==
    ASSUME NEW source, Eligible(source) \in Seq(Lines), Quota(source) \in Int
    PROVE  \E acc : Selects(acc, source)
<1> DEFINE lines == Eligible(source)
           n == Len(lines)
           V == SUBSET PickStates
           base == {[picked |-> <<>>, needed |-> Quota(source), left |-> Len(lines)]}
           step == [p \in (1..n) \X V |-> UNION {TakeOrLeave(st, lines[p[1]]) : st \in p[2]}]
           it == CHOOSE f : f = [t \in SUBSET (1..n) |->
                     IF t = {} THEN base
                     ELSE UNION {TakeOrLeave(st, lines[Max(t)]) : st \in f[t \ {Max(t)}]}]
           acc == [k \in 0..n |-> it[1..k]]
<1>1. n \in Nat /\ DOMAIN lines = 1..n /\ \A k \in 1..n : lines[k] \in Lines
  OBVIOUS
<1>2. SelectLines(source) = {st.picked : st \in it[1..n]}
  BY <1>1 DEF SelectLines, FoldLeft, MapThenFoldSet
<1>3. base \in V
  BY DEF PickStates
<1>4. ASSUME NEW v \in V, NEW x \in Lines PROVE UNION {TakeOrLeave(st, x) : st \in v} \in V
  <2>1. \A st \in PickStates : TakeOrLeave(st, x) \subseteq PickStates
    <3> SUFFICES ASSUME NEW st \in PickStates PROVE TakeOrLeave(st, x) \subseteq PickStates
      OBVIOUS
    <3>1. /\ st.picked \in Seq(Nat) /\ st.needed - 1 \in Int /\ st.left - 1 \in Int
          /\ Append(st.picked, x.id) \in Seq(Nat)
      BY DEF PickStates, Lines
    <3>2. [picked |-> Append(st.picked, x.id), needed |-> st.needed - 1, left |-> st.left - 1]
              \in PickStates
      BY <3>1 DEF PickStates
    <3>3. [st EXCEPT !.left = @ - 1] \in PickStates
      BY <3>1 DEF PickStates
    <3> QED
      BY <3>2, <3>3 DEF TakeOrLeave
  <2> QED
    BY <2>1
<1> HIDE DEF n, V, base, lines
<1>5. step \in [(1..n) \X V -> V]
  BY <1>1, <1>4
<1>6. \A k \in 1..n, v \in V : step[<<k, v>>] = UNION {TakeOrLeave(st, lines[k]) : st \in v}
  BY <1>1
<1> HIDE DEF step
<1>7. PICK f : IsFold(f, n, V, base, step)
  BY <1>1, <1>3, <1>5, FoldExists
<1>8. f = [t \in SUBSET (1..n) |->
              IF t = {} THEN base
              ELSE UNION {TakeOrLeave(st, lines[Max(t)]) : st \in f[t \ {Max(t)}]}]
  <2>1. ASSUME NEW t \in SUBSET (1..n)
        PROVE  f[t] = IF t = {} THEN base
                      ELSE UNION {TakeOrLeave(st, lines[Max(t)]) : st \in f[t \ {Max(t)}]}
    <3>1. CASE t = {}
      BY <1>7, <3>1 DEF IsFold
    <3>2. CASE t # {}
      <4>1. Max(t) \in 1..n /\ f[t \ {Max(t)}] \in V
        BY <1>1, <1>7, <3>2, MaxOf DEF IsFold
      <4>2. f[t] = step[<<Max(t), f[t \ {Max(t)}]>>]
        BY <1>7, <3>2 DEF IsFold
      <4>3. step[<<Max(t), f[t \ {Max(t)}]>>]
                = UNION {TakeOrLeave(st, lines[Max(t)]) : st \in f[t \ {Max(t)}]}
        BY <1>6, <4>1
      <4> QED
        BY <3>2, <4>2, <4>3
    <3> QED
      BY <3>1, <3>2
  <2>2. f = [t \in SUBSET (1..n) |-> f[t]]
    BY <1>7 DEF IsFold
  <2> QED
    BY <2>1, <2>2
<1>9. it = [t \in SUBSET (1..n) |->
              IF t = {} THEN base
              ELSE UNION {TakeOrLeave(st, lines[Max(t)]) : st \in it[t \ {Max(t)}]}]
  BY <1>8
<1> HIDE DEF it
<1>10. FoldsWhereTyped(it, n, V, base, step)
  <2>1. \A t \in SUBSET (1..n) : t # {} => Max(t) \in 1..n
    BY <1>1, MaxOf
  <2> QED
    BY <1>6, <1>9, <2>1 DEF FoldsWhereTyped
<1>11. Runs(acc, n, V, base, step)
  BY <1>1, <1>3, <1>5, <1>10, FoldRuns
<1>12. acc[n] = it[1..n]
  BY <1>1
<1> HIDE DEF acc
<1>13. /\ acc \in [0..n -> V] /\ acc[0] = base
       /\ \A k \in 1..n : /\ acc[k - 1] \in V
                          /\ acc[k] = UNION {TakeOrLeave(st, lines[k]) : st \in acc[k - 1]}
  BY <1>6, <1>11 DEF Runs
<1>14. Selects(acc, source)
  BY <1>2, <1>12, <1>13 DEF n, V, base, lines, Selects
<1> QED
  BY <1>14

\* One line: the picks grow by it or not, as the quota allows.
LEMMA PickStep ==
    ASSUME NEW lines \in Seq(Lines), NEW q \in Nat, NEW k \in 1..Len(lines)
    PROVE  UNION {TakeOrLeave(st, lines[k]) : st \in PickReach(lines, q, k - 1)}
               = PickReach(lines, q, k)
<1> DEFINE n == Len(lines)
           old == {PickState(lines, q, P, k - 1) : P \in PickSets(lines, q, k - 1)}
           new == {PickState(lines, q, P, k) : P \in PickSets(lines, q, k)}
<1>1. n \in Nat /\ k \in Nat /\ k - 1 \in Nat /\ k <= n /\ n - (k - 1) = n - k + 1
      /\ (n - k + 1) - 1 = n - k /\ n - k \in Nat
  OBVIOUS
<1>2. ASSUME NEW P \in SUBSET (1..(k - 1))
      PROVE  LET st == PickState(lines, q, P, k - 1)
             IN  /\ Cardinality(P) \in Nat /\ Cardinality(P \cup {k}) = Cardinality(P) + 1
                 /\ P \in SUBSET (1..k) /\ P \cup {k} \in SUBSET (1..k)
                 /\ [picked |-> Append(st.picked, lines[k].id), needed |-> st.needed - 1,
                     left |-> st.left - 1] = PickState(lines, q, P \cup {k}, k)
                 /\ [st EXCEPT !.left = @ - 1] = PickState(lines, q, P, k)
                 /\ st.needed = q - Cardinality(P) /\ st.left = n - k + 1
  <2> DEFINE st == PickState(lines, q, P, k - 1)
  <2>1. k \notin P
    OBVIOUS
  <2>2. Cardinality(P) \in Nat /\ Cardinality(P \cup {k}) = Cardinality(P) + 1
    BY <1>1, <2>1, PickCount
  <2>3. P \in SUBSET (1..k) /\ P \cup {k} \in SUBSET (1..k)
    BY <1>1
  <2>4. /\ st.picked = FlattenSeq(Kept(lines, P, k - 1)) /\ st.needed = q - Cardinality(P)
        /\ st.left = n - k + 1 /\ st = [picked |-> st.picked, needed |-> st.needed, left |-> st.left]
    BY <1>1 DEF PickState
  <2>5. /\ FlattenSeq(Kept(lines, P, k)) = st.picked
        /\ FlattenSeq(Kept(lines, P \cup {k}, k)) = Append(st.picked, lines[k].id)
    BY <2>4, KeptAppends
  <2> HIDE DEF st
  <2>6. st.needed - 1 = q - Cardinality(P \cup {k}) /\ st.left - 1 = n - k
    BY <1>1, <2>2, <2>4
  <2>7. [picked |-> Append(st.picked, lines[k].id), needed |-> st.needed - 1,
         left |-> st.left - 1] = PickState(lines, q, P \cup {k}, k)
    BY <2>5, <2>6 DEF PickState
  <2>8. [st EXCEPT !.left = @ - 1] = [picked |-> st.picked, needed |-> st.needed, left |-> n - k]
    BY <2>4, <2>6
  <2>9. [st EXCEPT !.left = @ - 1] = PickState(lines, q, P, k)
    BY <2>4, <2>5, <2>8 DEF PickState
  <2> QED
    BY <2>2, <2>3, <2>4, <2>7, <2>9 DEF st
<1>3. ASSUME NEW st \in old, NEW next \in TakeOrLeave(st, lines[k]) PROVE next \in new
  <2>1. PICK P \in PickSets(lines, q, k - 1) : st = PickState(lines, q, P, k - 1)
    OBVIOUS
  <2>2. P \in SUBSET (1..(k - 1)) /\ Cardinality(P) <= q /\ q - Cardinality(P) <= n - k + 1
    BY <1>1 DEF PickSets
  <2>3. /\ Cardinality(P) \in Nat /\ Cardinality(P \cup {k}) = Cardinality(P) + 1
        /\ P \in SUBSET (1..k) /\ P \cup {k} \in SUBSET (1..k)
        /\ [picked |-> Append(st.picked, lines[k].id), needed |-> st.needed - 1,
            left |-> st.left - 1] = PickState(lines, q, P \cup {k}, k)
        /\ [st EXCEPT !.left = @ - 1] = PickState(lines, q, P, k)
        /\ st.needed = q - Cardinality(P) /\ st.left = n - k + 1
    BY <1>2, <2>1, <2>2
  <2>4. CASE st.needed > 0 /\ next = PickState(lines, q, P \cup {k}, k)
    <3>1. Cardinality(P \cup {k}) <= q /\ q - Cardinality(P \cup {k}) <= n - k
      <4> DEFINE c == Cardinality(P)
                 d == Cardinality(P \cup {k})
      <4>1. c \in Nat /\ d = c + 1 /\ q - c > 0 /\ q - c <= n - k + 1
        BY <2>2, <2>3, <2>4
      <4> HIDE DEF c, d
      <4>2. d <= q /\ q - d <= n - k
        BY <1>1, <4>1
      <4> QED
        BY <4>2 DEF d
    <3> QED
      BY <2>3, <2>4, <3>1 DEF PickSets
  <2>5. CASE (st.needed < st.left \/ st.needed = 0) /\ next = PickState(lines, q, P, k)
    <3>1. q - Cardinality(P) <= n - k
      BY <1>1, <2>2, <2>3, <2>5
    <3> QED
      BY <2>2, <2>3, <2>5, <3>1 DEF PickSets
  <2>6. \/ st.needed > 0 /\ next = PickState(lines, q, P \cup {k}, k)
        \/ (st.needed < st.left \/ st.needed = 0) /\ next = PickState(lines, q, P, k)
    BY <2>3 DEF TakeOrLeave
  <2> QED
    BY <2>4, <2>5, <2>6
<1>4. ASSUME NEW next \in new PROVE \E st \in old : next \in TakeOrLeave(st, lines[k])
  <2>1. PICK P \in PickSets(lines, q, k) : next = PickState(lines, q, P, k)
    OBVIOUS
  <2>2. P \in SUBSET (1..k) /\ Cardinality(P) <= q /\ q - Cardinality(P) <= n - k
    BY DEF PickSets
  <2>3. CASE k \in P
    <3> DEFINE Q == P \ {k}
               st == PickState(lines, q, Q, k - 1)
    <3>1. Q \in SUBSET (1..(k - 1)) /\ Q \cup {k} = P
      BY <1>1, <2>2, <2>3
    <3> HIDE DEF Q
    <3>2. /\ Cardinality(Q) \in Nat /\ Cardinality(P) = Cardinality(Q) + 1
          /\ [picked |-> Append(st.picked, lines[k].id), needed |-> st.needed - 1,
              left |-> st.left - 1] = next
          /\ st.needed = q - Cardinality(Q) /\ st.left = n - k + 1
      BY <1>2, <2>1, <3>1
    <3>3. Cardinality(Q) <= q /\ q - Cardinality(Q) <= n - k + 1 /\ st.needed > 0
      BY <1>1, <2>2, <3>2
    <3>4. Q \in PickSets(lines, q, k - 1)
      BY <1>1, <3>1, <3>3 DEF PickSets
    <3>5. st \in old
      BY <3>4
    <3> HIDE DEF st
    <3>6. next \in TakeOrLeave(st, lines[k])
      BY <3>2, <3>3 DEF TakeOrLeave
    <3> QED
      BY <3>5, <3>6
  <2>4. CASE k \notin P
    <3> DEFINE st == PickState(lines, q, P, k - 1)
    <3>1. P \in SUBSET (1..(k - 1))
      BY <1>1, <2>2, <2>4
    <3>2. /\ Cardinality(P) \in Nat
          /\ [st EXCEPT !.left = @ - 1] = next
          /\ st.needed = q - Cardinality(P) /\ st.left = n - k + 1
      BY <1>2, <2>1, <3>1
    <3>3. q - Cardinality(P) <= n - k + 1 /\ st.needed < st.left
      BY <1>1, <2>2, <3>2
    <3>4. P \in PickSets(lines, q, k - 1)
      BY <1>1, <2>2, <3>1, <3>3 DEF PickSets
    <3>5. st \in old
      BY <3>4
    <3> HIDE DEF st
    <3>6. next \in TakeOrLeave(st, lines[k])
      BY <3>2, <3>3 DEF TakeOrLeave
    <3> QED
      BY <3>5, <3>6
  <2> QED
    BY <2>3, <2>4
<1> HIDE DEF old, new
<1>5. UNION {TakeOrLeave(st, lines[k]) : st \in old} = new
  BY <1>3, <1>4
<1> QED
  BY <1>5 DEF old, new, PickReach

\* The draws pick any lines of the number asked for, and no other number.
LEMMA SelectedLines ==
    ASSUME NEW source, source.rows \in Seq(Lines), source.requested \in Nat
    PROVE  LET lines == Eligible(source)
           IN  SelectLines(source)
                   = {FlattenSeq(Kept(lines, P, Len(lines))) : P \in kSubset(Quota(source), 1..Len(lines))}
<1> DEFINE lines == Eligible(source)
           n == Len(lines)
           q == Quota(source)
<1>1. lines \in Seq(Lines) /\ n \in Nat
  BY EligibleType
<1>2. q \in Nat /\ q <= n
  BY <1>1 DEF Quota, AtMost
<1>3. PICK acc : Selects(acc, source)
  <2>1. Quota(source) \in Int
    BY <1>2
  <2> QED
    BY <1>1, <2>1, SelectRuns
<1>30. /\ acc[0] = {[picked |-> <<>>, needed |-> q, left |-> n]}
       /\ SelectLines(source) = {st.picked : st \in acc[n]}
       /\ \A k \in 1..n : acc[k] = UNION {TakeOrLeave(st, lines[k]) : st \in acc[k - 1]}
  BY <1>3 DEF Selects
<1> DEFINE G == {k \in 0..n : acc[k] = PickReach(lines, q, k)}
<1> HIDE DEF lines, q
<1>4. 0 \in G
  <2>1. SUBSET (1..0) = {{}} /\ Cardinality({}) = 0
    BY FS_EmptySet
  <2>2. PickSets(lines, q, 0) = {{}}
    <3>1. 0 <= q /\ q - 0 <= n
      BY <1>1, <1>2
    <3>2. PickSets(lines, q, 0)
              = {P \in {{}} : Cardinality(P) <= q /\ q - Cardinality(P) <= Len(lines) - 0}
      BY <2>1 DEF PickSets
    <3>3. n - 0 = n
      BY <1>1
    <3> QED
      BY <2>1, <3>1, <3>2, <3>3
  <2>3. Kept(lines, {}, 0) = <<>> /\ FlattenSeq(<<>>) = <<>>
    BY DEF Kept, FlattenSeq
  <2>4. PickState(lines, q, {}, 0) = [picked |-> <<>>, needed |-> q, left |-> n]
    BY <1>1, <1>2, <2>1, <2>3 DEF PickState
  <2>5. acc[0] = PickReach(lines, q, 0)
    <3>1. PickReach(lines, q, 0) = {PickState(lines, q, {}, 0)}
      BY <2>2 DEF PickReach
    <3> QED
      BY <1>30, <2>4, <3>1
  <2> QED
    BY <1>1, <2>5
<1>5. ASSUME NEW k \in 1..n, k - 1 \in G PROVE k \in G
  <2>1. acc[k - 1] = PickReach(lines, q, k - 1)
    BY <1>5
  <2>2. acc[k] = PickReach(lines, q, k)
    <3>1. acc[k] = UNION {TakeOrLeave(st, lines[k]) : st \in acc[k - 1]}
      BY <1>30
    <3>2. k \in 1..Len(lines)
      OBVIOUS
    <3> HIDE DEF n
    <3>3. UNION {TakeOrLeave(st, lines[k]) : st \in PickReach(lines, q, k - 1)} = PickReach(lines, q, k)
      BY <1>1, <1>2, <3>2, PickStep
    <3> QED
      BY <2>1, <3>1, <3>3, Zenon
  <2> QED
    BY <1>1, <2>2
<1> HIDE DEF G
<1>6. acc[n] = PickReach(lines, q, n)
  <2>1. \A k \in 0..n : k \in G
    BY <1>1, <1>4, <1>5, Induct
  <2> QED
    BY <1>1, <2>1 DEF G
<1>7. PickSets(lines, q, n) = kSubset(q, 1..n)
  <2>1. ASSUME NEW P \in SUBSET (1..n)
        PROVE  Cardinality(P) <= q /\ q - Cardinality(P) <= n - n <=> Cardinality(P) = q
    <3>1. Cardinality(P) \in Nat
      BY <1>1, PickCount
    <3> QED
      BY <1>1, <1>2, <3>1
  <2> QED
    BY <2>1 DEF PickSets, kSubset
<1>8. \A P : PickState(lines, q, P, n).picked = FlattenSeq(Kept(lines, P, n))
  BY DEF PickState
<1>9. {st.picked : st \in PickReach(lines, q, n)} = {FlattenSeq(Kept(lines, P, n)) : P \in kSubset(q, 1..n)}
  BY <1>7, <1>8 DEF PickReach
<1> QED
  BY <1>30, <1>6, <1>9 DEF lines, q

-----------------------------------------------------------------------------
(* posgen.py sample *)

Pools == [reservoir : Seq(Nat), accepted : Nat]
Wants(buckets, row, b) == row.scored /\ BucketFor(buckets, row) = b

\* What the draws have left in the reservoir of a bucket after each row.
Samples(acc, buckets, rows, b) ==
    /\ acc \in [0..Len(rows) -> SUBSET Pools]
    /\ acc[0] = {[reservoir |-> <<>>, accepted |-> 0]}
    /\ Reservoirs(buckets, rows, b) = acc[Len(rows)]
    /\ \A k \in 1..Len(rows) :
          /\ acc[k - 1] \in SUBSET Pools
          /\ acc[k] = IF Wants(buckets, rows[k], b)
                      THEN UNION {MaybeTake(st, buckets[b].rows, rows[k]) : st \in acc[k - 1]}
                      ELSE acc[k - 1]

LEMMA PoolExcept ==
    ASSUME NEW a, NEW c, NEW x
    PROVE  [[reservoir |-> a, accepted |-> c] EXCEPT !.reservoir = x] = [reservoir |-> x, accepted |-> c]
OBVIOUS

LEMMA SeqExcept ==
    ASSUME NEW s \in Seq(Nat), NEW y \in Nat, NEW i
    PROVE  [s EXCEPT ![i] = y] \in Seq(Nat) /\ Len([s EXCEPT ![i] = y]) = Len(s)
<1> DEFINE n == Len(s)
           e == [s EXCEPT ![i] = y]
<1>1. n \in Nat /\ s \in [1..n -> Nat]
  OBVIOUS
<1> HIDE DEF n
<1>2. e \in [1..n -> Nat]
  BY <1>1
<1> HIDE DEF e
<1>3. e \in Seq(Nat) /\ Len(e) = n
  BY <1>1, <1>2
<1> QED
  BY <1>3 DEF e, n

Taken(st, size, id) ==
    IF Len(st.reservoir) < size
    THEN {[reservoir |-> Append(st.reservoir, id), accepted |-> st.accepted + 1]}
    ELSE {[reservoir |-> st.reservoir, accepted |-> st.accepted + 1]}
         \cup {[reservoir |-> [st.reservoir EXCEPT ![i] = id], accepted |-> st.accepted + 1] : i \in 1..size}

LEMMA MaybeTakeType ==
    ASSUME NEW st \in Pools, NEW size \in Nat, NEW row \in Lines
    PROVE  MaybeTake(st, size, row) \subseteq Pools /\ MaybeTake(st, size, row) = Taken(st, size, row.id)
<1> DEFINE taken == [st EXCEPT !.accepted = @ + 1]
<1>1. st.reservoir \in Seq(Nat) /\ st.accepted + 1 \in Nat /\ row.id \in Nat
  BY DEF Pools, Lines
<1>2. taken = [reservoir |-> st.reservoir, accepted |-> st.accepted + 1]
  BY DEF Pools
<1> HIDE DEF taken
<1>3. [taken EXCEPT !.reservoir = Append(@, row.id)]
          = [reservoir |-> Append(st.reservoir, row.id), accepted |-> st.accepted + 1]
  <2>1. taken.reservoir = st.reservoir
    BY <1>2
  <2> QED
    BY <1>2, <2>1, PoolExcept, Zenon
<1>4. \A i : [taken EXCEPT !.reservoir[i] = row.id]
                 = [reservoir |-> [st.reservoir EXCEPT ![i] = row.id], accepted |-> st.accepted + 1]
  <2>1. taken.reservoir = st.reservoir
    BY <1>2
  <2> SUFFICES ASSUME NEW i
               PROVE  [taken EXCEPT !.reservoir = [taken.reservoir EXCEPT ![i] = row.id]]
                          = [reservoir |-> [st.reservoir EXCEPT ![i] = row.id], accepted |-> st.accepted + 1]
    OBVIOUS
  <2> QED
    BY <1>2, <2>1, PoolExcept, Zenon
<1>5. taken \in Pools
  BY <1>1, <1>2 DEF Pools
<1>6. [reservoir |-> Append(st.reservoir, row.id), accepted |-> st.accepted + 1] \in Pools
  BY <1>1 DEF Pools
<1>7. \A i : [reservoir |-> [st.reservoir EXCEPT ![i] = row.id], accepted |-> st.accepted + 1] \in Pools
  <2>1. \A i : [st.reservoir EXCEPT ![i] = row.id] \in Seq(Nat)
    BY <1>1, SeqExcept
  <2> QED
    BY <1>1, <2>1 DEF Pools
<1>8. MaybeTake(st, size, row) =
          IF Len(st.reservoir) < size
          THEN {[reservoir |-> Append(st.reservoir, row.id), accepted |-> st.accepted + 1]}
          ELSE {[reservoir |-> st.reservoir, accepted |-> st.accepted + 1]}
               \cup {[reservoir |-> [st.reservoir EXCEPT ![i] = row.id],
                      accepted |-> st.accepted + 1] : i \in 1..size}
  <2>1. MaybeTake(st, size, row) =
            IF Len(st.reservoir) < size THEN {[taken EXCEPT !.reservoir = Append(@, row.id)]}
            ELSE {taken} \cup {[taken EXCEPT !.reservoir[i] = row.id] : i \in 1..size}
    BY DEF MaybeTake, taken
  <2>2. {[taken EXCEPT !.reservoir[i] = row.id] : i \in 1..size}
            = {[reservoir |-> [st.reservoir EXCEPT ![i] = row.id], accepted |-> st.accepted + 1] :
                  i \in 1..size}
    <3> DEFINE F(i) == [taken EXCEPT !.reservoir[i] = row.id]
               H(i) == [reservoir |-> [st.reservoir EXCEPT ![i] = row.id], accepted |-> st.accepted + 1]
    <3>1. \A i : F(i) = H(i)
      BY <1>4
    <3> HIDE DEF F, H
    <3>2. {F(i) : i \in 1..size} = {H(i) : i \in 1..size}
      BY <3>1
    <3> QED
      BY <3>2 DEF F, H
  <2> QED
    BY <1>2, <1>3, <2>1, <2>2, Zenon
<1>9. MaybeTake(st, size, row) \subseteq Pools
  <2> SUFFICES ASSUME NEW new \in MaybeTake(st, size, row) PROVE new \in Pools
    OBVIOUS
  <2>1. \/ new = [reservoir |-> Append(st.reservoir, row.id), accepted |-> st.accepted + 1]
        \/ new = taken
        \/ \E i : new = [reservoir |-> [st.reservoir EXCEPT ![i] = row.id], accepted |-> st.accepted + 1]
    BY <1>2, <1>8
  <2> QED
    BY <1>5, <1>6, <1>7, <2>1
<1> QED
  BY <1>8, <1>9 DEF Taken

LEMMA SampleRuns ==
    ASSUME NEW buckets, NEW rows \in Seq(Lines), NEW b, buckets[b].rows \in Nat
    PROVE  \E acc : Samples(acc, buckets, rows, b)
<1> DEFINE n == Len(rows)
           V == SUBSET Pools
           base == {[reservoir |-> <<>>, accepted |-> 0]}
           size == buckets[b].rows
           Take(v, row) == IF Wants(buckets, row, b) THEN UNION {MaybeTake(st, size, row) : st \in v} ELSE v
           step == [p \in (1..n) \X V |-> Take(p[2], rows[p[1]])]
           it == CHOOSE f : f = [t \in SUBSET (1..n) |->
                     IF t = {} THEN base
                     ELSE IF rows[Max(t)].scored /\ BucketFor(buckets, rows[Max(t)]) = b
                          THEN UNION {MaybeTake(st, buckets[b].rows, rows[Max(t)]) : st \in f[t \ {Max(t)}]}
                          ELSE f[t \ {Max(t)}]]
           acc == [k \in 0..n |-> it[1..k]]
<1>1. n \in Nat /\ DOMAIN rows = 1..n /\ \A k \in 1..n : rows[k] \in Lines
  OBVIOUS
<1>2. Reservoirs(buckets, rows, b) = it[1..n]
  BY <1>1 DEF Reservoirs, FoldLeft, MapThenFoldSet
<1>3. base \in V
  BY DEF Pools
<1>4. ASSUME NEW v \in V, NEW x \in Lines PROVE Take(v, x) \in V
  <2>1. \A st \in v : MaybeTake(st, size, x) \subseteq Pools
    BY MaybeTakeType
  <2> QED
    BY <2>1
<1> HIDE DEF n, V, base, size, Take
<1>5. step \in [(1..n) \X V -> V]
  BY <1>1, <1>4
<1>6. \A k \in 1..n, v \in V : step[<<k, v>>] = Take(v, rows[k])
  BY <1>1
<1> HIDE DEF step
<1>7. PICK f : IsFold(f, n, V, base, step)
  BY <1>1, <1>3, <1>5, FoldExists
<1>8. f = [t \in SUBSET (1..n) |-> IF t = {} THEN base ELSE Take(f[t \ {Max(t)}], rows[Max(t)])]
  <2>1. ASSUME NEW t \in SUBSET (1..n)
        PROVE  f[t] = IF t = {} THEN base ELSE Take(f[t \ {Max(t)}], rows[Max(t)])
    <3>1. CASE t = {}
      BY <1>7, <3>1 DEF IsFold
    <3>2. CASE t # {}
      <4>1. Max(t) \in 1..n /\ f[t \ {Max(t)}] \in V
        BY <1>1, <1>7, <3>2, MaxOf DEF IsFold
      <4>2. f[t] = step[<<Max(t), f[t \ {Max(t)}]>>]
        BY <1>7, <3>2 DEF IsFold
      <4> QED
        BY <1>6, <3>2, <4>1, <4>2
    <3> QED
      BY <3>1, <3>2
  <2>2. f = [t \in SUBSET (1..n) |-> f[t]]
    BY <1>7 DEF IsFold
  <2> QED
    BY <2>1, <2>2
<1>9. it = [t \in SUBSET (1..n) |-> IF t = {} THEN base ELSE Take(it[t \ {Max(t)}], rows[Max(t)])]
  <2> DEFINE Same(f2) == f2 = [t \in SUBSET (1..n) |->
                                 IF t = {} THEN base ELSE Take(f2[t \ {Max(t)}], rows[Max(t)])]
  <2>1. it = CHOOSE f2 : Same(f2)
    BY DEF Take, size, Wants
  <2>2. Same(f)
    BY <1>8
  <2> HIDE DEF it, Same
  <2>3. Same(it)
    BY <2>1, <2>2
  <2> QED
    BY <2>3 DEF Same
<1> HIDE DEF it
<1>10. FoldsWhereTyped(it, n, V, base, step)
  <2>1. \A t \in SUBSET (1..n) : t # {} => Max(t) \in 1..n
    BY <1>1, MaxOf
  <2> QED
    BY <1>6, <1>9, <2>1 DEF FoldsWhereTyped
<1>11. Runs(acc, n, V, base, step)
  BY <1>1, <1>3, <1>5, <1>10, FoldRuns
<1>12. acc[n] = it[1..n]
  BY <1>1
<1> HIDE DEF acc
<1>13. /\ acc \in [0..n -> V] /\ acc[0] = base
       /\ \A k \in 1..n : acc[k - 1] \in V /\ acc[k] = Take(acc[k - 1], rows[k])
  BY <1>6, <1>11 DEF Runs
<1>14. Samples(acc, buckets, rows, b)
  BY <1>2, <1>12, <1>13 DEF n, V, base, size, Take, Samples
<1> QED
  BY <1>14

WantedUpTo(buckets, rows, b, k) == {i \in 1..k : Wants(buckets, rows[i], b)}

\* A reservoir after k rows: ids of rows wanted so far, each once, as many as fit.
Filled(res, ids, size) ==
    /\ res \in Seq(Nat) /\ Distinct(res)
    /\ \A j \in 1..Len(res) : res[j] \in ids
    /\ Len(res) = AtMost(size, Cardinality(ids))

LEMMA FillStep ==
    ASSUME NEW ids \in SUBSET Nat, IsFiniteSet(ids), NEW id \in Nat, id \notin ids,
           NEW size \in Nat, NEW res, Filled(res, ids, size)
    PROVE  /\ Len(res) < size => Filled(Append(res, id), ids \cup {id}, size)
           /\ ~(Len(res) < size) =>
                 /\ Filled(res, ids \cup {id}, size)
                 /\ \A i \in 1..size : Filled([res EXCEPT ![i] = id], ids \cup {id}, size)
<1> DEFINE c == Cardinality(ids)
           more == ids \cup {id}
<1>1. c \in Nat /\ Cardinality(more) = c + 1
  BY FS_CardinalityType, FS_AddElement
<1>2. /\ res \in Seq(Nat) /\ Len(res) \in Nat /\ \A i, j \in 1..Len(res) : res[i] = res[j] => i = j
      /\ \A j \in 1..Len(res) : res[j] \in ids /\ res[j] \in more /\ res[j] # id
      /\ Len(res) = AtMost(size, c)
  BY DEF Filled, Distinct
<1> HIDE DEF c
<1>3. ASSUME Len(res) < size PROVE Filled(Append(res, id), more, size)
  <2> DEFINE new == Append(res, id)
             l == Len(res)
  <2>1. /\ new \in Seq(Nat) /\ Len(new) = l + 1 /\ new[l + 1] = id
        /\ \A i \in 1..l : new[i] = res[i]
    BY <1>2
  <2>2. l = c /\ c < size /\ Len(new) = AtMost(size, c + 1)
    BY <1>1, <1>2, <1>3, <2>1 DEF AtMost
  <2>3. \A i \in 1..(l + 1) : i = l + 1 \/ i \in 1..l
    BY <1>2
  <2> HIDE DEF new, l
  <2>4. \A i, j \in 1..(l + 1) : new[i] = new[j] => i = j
    BY <1>2, <2>1, <2>3 DEF l
  <2>5. \A j \in 1..(l + 1) : new[j] \in more
    BY <1>2, <2>1, <2>3 DEF l
  <2> QED
    BY <1>1, <2>1, <2>2, <2>4, <2>5 DEF Filled, Distinct, new
<1>4. ASSUME ~(Len(res) < size) PROVE Len(res) = size /\ Len(res) = AtMost(size, c + 1)
  BY <1>1, <1>2, <1>4 DEF AtMost
<1>5. ASSUME ~(Len(res) < size) PROVE Filled(res, more, size)
  BY <1>1, <1>2, <1>4, <1>5 DEF Filled, Distinct
<1>6. ASSUME ~(Len(res) < size), NEW i \in 1..size PROVE Filled([res EXCEPT ![i] = id], more, size)
  <2> DEFINE new == [res EXCEPT ![i] = id]
  <2>1. Len(res) = size /\ i \in 1..Len(res)
    BY <1>4, <1>6
  <2>2. /\ new \in Seq(Nat) /\ Len(new) = Len(res) /\ new[i] = id
        /\ \A j \in 1..Len(res) : j # i => new[j] = res[j]
    BY <1>2, <2>1
  <2> HIDE DEF new
  <2>3. \A j, k \in 1..Len(res) : new[j] = new[k] => j = k
    BY <1>2, <2>2
  <2>4. \A j \in 1..Len(res) : new[j] \in more
    BY <1>2, <2>2
  <2>5. Len(new) = AtMost(size, c + 1)
    BY <1>4, <1>6, <2>2
  <2> QED
    BY <1>1, <2>2, <2>3, <2>4, <2>5 DEF Filled, Distinct, new
<1> QED
  BY <1>3, <1>5, <1>6

IdsUpTo(buckets, rows, b, k) == {rows[i].id : i \in WantedUpTo(buckets, rows, b, k)}

Grows(buckets, rows, b, k) ==
    /\ IdsUpTo(buckets, rows, b, k - 1) \in SUBSET Nat
    /\ IsFiniteSet(IdsUpTo(buckets, rows, b, k - 1))
    /\ rows[k].id \in Nat /\ rows[k].id \notin IdsUpTo(buckets, rows, b, k - 1)
    /\ IdsUpTo(buckets, rows, b, k) = IF Wants(buckets, rows[k], b)
                                       THEN IdsUpTo(buckets, rows, b, k - 1) \cup {rows[k].id}
                                       ELSE IdsUpTo(buckets, rows, b, k - 1)

LEMMA WantedGrows ==
    ASSUME NEW buckets, NEW rows \in Seq(Lines), NEW b, NEW k \in 1..Len(rows),
           \A i, j \in 1..Len(rows) : rows[i].id = rows[j].id => i = j
    PROVE  Grows(buckets, rows, b, k)
<1> DEFINE old == WantedUpTo(buckets, rows, b, k - 1)
           new == WantedUpTo(buckets, rows, b, k)
<1>1. k \in Nat /\ k - 1 \in Nat /\ k \in 1..k /\ \A i \in 1..k : i = k \/ i \in 1..(k - 1)
  OBVIOUS
<1>2. \A i \in 1..(k - 1) : i \in 1..k /\ i \in 1..Len(rows) /\ i # k
  OBVIOUS
<1>3. new = IF Wants(buckets, rows[k], b) THEN old \cup {k} ELSE old
  BY <1>1, <1>2 DEF WantedUpTo
<1>4. old \subseteq 1..(k - 1)
  BY DEF WantedUpTo
<1>5. \A i \in 1..Len(rows) : rows[i].id \in Nat
  <2>1. \A i \in 1..Len(rows) : rows[i] \in Lines
    OBVIOUS
  <2> QED
    BY <2>1 DEF Lines
<1>6. IsFiniteSet(old)
  <2>1. IsFiniteSet(1..(k - 1))
    BY <1>1, FS_Interval
  <2> QED
    BY <1>4, <2>1, FS_Subset
<1> HIDE DEF old, new
<1>7. /\ IdsUpTo(buckets, rows, b, k - 1) = {rows[i].id : i \in old}
      /\ IdsUpTo(buckets, rows, b, k) = {rows[i].id : i \in new}
  BY DEF IdsUpTo, old, new
<1>8. IsFiniteSet({rows[i].id : i \in old})
  <2> DEFINE h == [i \in old |-> rows[i].id]
             im == {rows[i].id : i \in old}
  <2>1. h \in Surjection(old, im)
    BY DEF Surjection
  <2> QED
    BY <1>6, <2>1, FS_Surjection
<1>9. {rows[i].id : i \in old} \in SUBSET Nat /\ rows[k].id \notin {rows[i].id : i \in old}
  BY <1>2, <1>4, <1>5
<1>10. {rows[i].id : i \in new} = IF Wants(buckets, rows[k], b)
                                   THEN {rows[i].id : i \in old} \cup {rows[k].id}
                                   ELSE {rows[i].id : i \in old}
  BY <1>3
<1> QED
  BY <1>5, <1>7, <1>8, <1>9, <1>10 DEF Grows

Fills(st, buckets, rows, b) ==
    LET wanted == {row \in RowSet(rows) : row.scored /\ BucketFor(buckets, row) = b}
    IN  /\ OneToOne(st.reservoir)
        /\ RowSet(st.reservoir) \subseteq {row.id : row \in wanted}
        /\ Len(st.reservoir) = AtMost(buckets[b].rows, Cardinality(wanted))

\* Whatever is drawn, the reservoir of a bucket holds rows of the bucket, each once, and
\* is filled while there are any.
LEMMA SampledRows ==
    ASSUME NEW buckets, NEW rows \in Seq(Lines), NEW b, buckets[b].rows \in Nat,
           \A i, j \in 1..Len(rows) : rows[i].id = rows[j].id => i = j,
           NEW st \in Reservoirs(buckets, rows, b)
    PROVE  Fills(st, buckets, rows, b)
<1> DEFINE n == Len(rows)
           size == buckets[b].rows
           ids(k) == IdsUpTo(buckets, rows, b, k)
           wanted == {row \in RowSet(rows) : row.scored /\ BucketFor(buckets, row) = b}
<1>1. n \in Nat /\ DOMAIN rows = 1..n
  OBVIOUS
<1>2. PICK acc : Samples(acc, buckets, rows, b)
  BY SampleRuns
<1>3. /\ acc[0] = {[reservoir |-> <<>>, accepted |-> 0]} /\ Reservoirs(buckets, rows, b) = acc[n]
      /\ \A k \in 1..n : acc[k - 1] \in SUBSET Pools
      /\ \A k \in 1..n : acc[k] = IF Wants(buckets, rows[k], b)
                                  THEN UNION {MaybeTake(s, size, rows[k]) : s \in acc[k - 1]}
                                  ELSE acc[k - 1]
  BY <1>2 DEF Samples
<1> DEFINE G == {k \in 0..n : \A s \in acc[k] : Filled(s.reservoir, ids(k), size)}
<1>4. 0 \in G
  <2>1. ids(0) = {} /\ Cardinality({}) = 0
    BY FS_EmptySet DEF IdsUpTo, WantedUpTo
  <2>2. <<>> \in Seq(Nat) /\ Len(<<>>) = 0 /\ AtMost(size, 0) = 0
    BY DEF AtMost
  <2>3. Filled(<<>>, {}, size)
    BY <2>1, <2>2 DEF Filled, Distinct
  <2>4. \A s \in acc[0] : s.reservoir = <<>>
    BY <1>3
  <2> HIDE DEF ids
  <2>5. \A s \in acc[0] : Filled(s.reservoir, ids(0), size)
    BY <2>1, <2>3, <2>4, Zenon
  <2>6. 0 \in 0..n
    BY <1>1
  <2> QED
    BY <2>5, <2>6
<1>5. ASSUME NEW k \in 1..n, k - 1 \in G PROVE k \in G
  <2> DEFINE old == ids(k - 1)
             new == ids(k)
  <2>1. \A s \in acc[k - 1] : Filled(s.reservoir, old, size)
    BY <1>5
  <2>2. /\ old \in SUBSET Nat /\ IsFiniteSet(old) /\ rows[k].id \in Nat /\ rows[k].id \notin old
        /\ new = IF Wants(buckets, rows[k], b) THEN old \cup {rows[k].id} ELSE old
    <3>1. k \in 1..Len(rows)
      OBVIOUS
    <3>2. Grows(buckets, rows, b, k)
      BY <3>1, WantedGrows
    <3> QED
      BY <3>2 DEF Grows
  <2> HIDE DEF old, new
  <2>3. ASSUME NEW s \in acc[k] PROVE Filled(s.reservoir, new, size)
    <3>1. CASE ~Wants(buckets, rows[k], b)
      <4>1. acc[k] = acc[k - 1] /\ new = old
        BY <1>3, <2>2, <3>1
      <4> QED
        BY <2>1, <4>1, Zenon
    <3>2. CASE Wants(buckets, rows[k], b)
      <4>1. PICK s0 \in acc[k - 1] : s \in MaybeTake(s0, size, rows[k])
        <5>1. acc[k] = UNION {MaybeTake(s1, size, rows[k]) : s1 \in acc[k - 1]}
          BY <1>3, <3>2
        <5> HIDE DEF size, n
        <5> QED
          BY <5>1, Zenon
      <4>2. s0 \in Pools /\ rows[k] \in Lines /\ Filled(s0.reservoir, old, size)
        BY <1>3, <2>1, <4>1
      <4>3. s \in IF Len(s0.reservoir) < size
                  THEN {[reservoir |-> Append(s0.reservoir, rows[k].id), accepted |-> s0.accepted + 1]}
                  ELSE {[reservoir |-> s0.reservoir, accepted |-> s0.accepted + 1]}
                       \cup {[reservoir |-> [s0.reservoir EXCEPT ![i] = rows[k].id],
                              accepted |-> s0.accepted + 1] : i \in 1..size}
        <5>1. size \in Nat
          OBVIOUS
        <5> HIDE DEF size
        <5>2. s \in Taken(s0, size, rows[k].id)
          BY <4>1, <4>2, <5>1, MaybeTakeType
        <5> QED
          BY <5>2 DEF Taken
      <4> HIDE DEF size
      <4>4. size \in Nat
        BY DEF size
      <4>5. /\ Len(s0.reservoir) < size =>
                  Filled(Append(s0.reservoir, rows[k].id), old \cup {rows[k].id}, size)
            /\ ~(Len(s0.reservoir) < size) =>
                  /\ Filled(s0.reservoir, old \cup {rows[k].id}, size)
                  /\ \A i \in 1..size :
                        Filled([s0.reservoir EXCEPT ![i] = rows[k].id], old \cup {rows[k].id}, size)
        BY <2>2, <4>2, <4>4, FillStep
      <4>6. new = old \cup {rows[k].id}
        BY <2>2, <3>2
      <4>7. CASE Len(s0.reservoir) < size
        <5>1. s = [reservoir |-> Append(s0.reservoir, rows[k].id), accepted |-> s0.accepted + 1]
          BY <4>3, <4>7
        <5>2. s.reservoir = Append(s0.reservoir, rows[k].id)
          BY <5>1
        <5> QED
          BY <4>5, <4>6, <4>7, <5>2, Zenon
      <4>8. CASE ~(Len(s0.reservoir) < size) /\ s.reservoir = s0.reservoir
        BY <4>5, <4>6, <4>8
      <4>9. CASE ~(Len(s0.reservoir) < size)
                 /\ \E i \in 1..size : s.reservoir = [s0.reservoir EXCEPT ![i] = rows[k].id]
        <5>1. PICK i \in 1..size : s.reservoir = [s0.reservoir EXCEPT ![i] = rows[k].id]
          BY <4>9
        <5> DEFINE changed == [s0.reservoir EXCEPT ![i] = rows[k].id]
                   more == old \cup {rows[k].id}
        <5>2. Filled(changed, more, size) /\ s.reservoir = changed /\ new = more
          BY <4>5, <4>6, <4>9, <5>1
        <5> HIDE DEF changed, more
        <5> QED
          BY <5>2
      <4>10. ASSUME ~(Len(s0.reservoir) < size)
             PROVE  \/ s.reservoir = s0.reservoir
                    \/ \E i \in 1..size : s.reservoir = [s0.reservoir EXCEPT ![i] = rows[k].id]
        <5>1. \/ s = [reservoir |-> s0.reservoir, accepted |-> s0.accepted + 1]
              \/ \E i \in 1..size : s = [reservoir |-> [s0.reservoir EXCEPT ![i] = rows[k].id],
                                        accepted |-> s0.accepted + 1]
          BY <4>3, <4>10
        <5>2. CASE s = [reservoir |-> s0.reservoir, accepted |-> s0.accepted + 1]
          BY <5>2
        <5>3. CASE \E i \in 1..size : s = [reservoir |-> [s0.reservoir EXCEPT ![i] = rows[k].id],
                                          accepted |-> s0.accepted + 1]
          <6>1. PICK i \in 1..size : s = [reservoir |-> [s0.reservoir EXCEPT ![i] = rows[k].id],
                                         accepted |-> s0.accepted + 1]
            BY <5>3
          <6>2. s.reservoir = [s0.reservoir EXCEPT ![i] = rows[k].id]
            BY <6>1
          <6> QED
            BY <6>2
        <5> QED
          BY <5>1, <5>2, <5>3
      <4> QED
        BY <4>7, <4>8, <4>9, <4>10
    <3> QED
      BY <3>1, <3>2
  <2>4. k \in 0..n
    BY <1>1
  <2> QED
    BY <2>3, <2>4 DEF new
<1> HIDE DEF G
<1>6. Filled(st.reservoir, ids(n), size)
  <2>1. \A k \in 0..n : k \in G
    BY <1>1, <1>4, <1>5, Induct
  <2>2. n \in G /\ st \in acc[n]
    BY <1>1, <1>3, <2>1
  <2> QED
    BY <2>2 DEF G
<1>7. /\ st.reservoir \in Seq(Nat) /\ \A i, j \in 1..Len(st.reservoir) : st.reservoir[i] = st.reservoir[j] => i = j
      /\ \A j \in 1..Len(st.reservoir) : st.reservoir[j] \in ids(n)
      /\ Len(st.reservoir) = AtMost(size, Cardinality(ids(n)))
  BY <1>6 DEF Filled, Distinct
<1>8. OneToOne(st.reservoir)
  BY <1>7, OneToOneSeq
<1>9. {row.id : row \in wanted} = ids(n)
  <2>1. RowSet(rows) = {rows[i] : i \in 1..n}
    BY <1>1 DEF RowSet
  <2>2. wanted = {rows[i] : i \in WantedUpTo(buckets, rows, b, n)}
    BY <2>1 DEF WantedUpTo, Wants
  <2> QED
    BY <2>2 DEF IdsUpTo
<1>10. Cardinality(wanted) = Cardinality(ids(n))
  <2> DEFINE h == [row \in wanted |-> row.id]
  <2>1. \A x, y \in RowSet(rows) : x.id = y.id => x = y
    BY <1>1 DEF RowSet
  <2>2. \A x, y \in wanted : x.id = y.id => x = y
    BY <2>1
  <2>3. IsFiniteSet(wanted)
    <3>1. IsFiniteSet(1..n)
      BY <1>1, FS_Interval
    <3>2. [i \in 1..n |-> rows[i]] \in Surjection(1..n, RowSet(rows))
      BY <1>1 DEF Surjection, RowSet
    <3>3. IsFiniteSet(RowSet(rows))
      BY <3>1, <3>2, FS_Surjection
    <3>4. wanted \subseteq RowSet(rows)
      OBVIOUS
    <3> QED
      BY <3>3, <3>4, FS_Subset
  <2> HIDE DEF wanted, ids
  <2>4. h \in Bijection(wanted, ids(n))
    <3>1. h \in [wanted -> ids(n)]
      BY <1>9
    <3>2. \A y \in ids(n) : \E x \in wanted : h[x] = y
      BY <1>9
    <3>3. h \in Surjection(wanted, ids(n))
      BY <3>1, <3>2, Fun_IsSurj
    <3>4. h \in Injection(wanted, ids(n))
      BY <2>2, <3>1, Fun_IsInj
    <3> QED
      BY <3>3, <3>4 DEF Bijection
  <2>5. ExistsBijection(wanted, ids(n))
    BY <2>4 DEF ExistsBijection
  <2> QED
    BY <2>3, <2>5, FS_Bijection
<1>11. RowSet(st.reservoir) \subseteq ids(n)
  <2>1. DOMAIN st.reservoir = 1..Len(st.reservoir)
    BY <1>7
  <2> HIDE DEF ids
  <2> QED
    BY <1>7, <2>1 DEF RowSet
<1> QED
  BY <1>7, <1>8, <1>9, <1>10, <1>11 DEF Fills

-----------------------------------------------------------------------------
(* lc0_to_jsonl.py: one source of one shard *)

Read == [kind : {"row", "invalid", "skip", "broken"}, id : Nat]
Readers == [files : Nat, records : Nat, invalid : Nat, rows : Seq(Nat), stopped : BOOLEAN, broken : BOOLEAN]

\* A reader as it was but for the record read.
Reads(new, st, rec, quota) ==
    /\ new \in Readers /\ new.files = st.files
    /\ IF st.stopped \/ st.broken THEN new = st
       ELSE IF rec.kind = "broken"
            THEN new.broken /\ ~new.stopped /\ new.records = st.records /\ new.rows = st.rows
       ELSE IF quota > 0 /\ st.records >= quota
            THEN new.stopped /\ ~new.broken /\ new.records = st.records /\ new.rows = st.rows
       ELSE /\ ~new.stopped /\ ~new.broken /\ new.records = st.records + 1
            /\ new.rows = IF rec.kind = "row" THEN Append(st.rows, rec.id) ELSE st.rows

LEMMA ReadRecordIs ==
    ASSUME NEW st \in Readers, NEW rec \in Read, NEW quota \in Nat
    PROVE  Reads(ReadRecord(st, rec, quota), st, rec, quota)
<1>1. /\ st.files \in Nat /\ st.records \in Nat /\ st.invalid \in Nat /\ st.rows \in Seq(Nat)
      /\ st.stopped \in BOOLEAN /\ st.broken \in BOOLEAN
      /\ st = [files |-> st.files, records |-> st.records, invalid |-> st.invalid, rows |-> st.rows,
               stopped |-> st.stopped, broken |-> st.broken]
  BY DEF Readers
<1>2. st.records + 1 \in Nat /\ st.invalid + 1 \in Nat /\ rec.id \in Nat /\ Append(st.rows, rec.id) \in Seq(Nat)
  BY <1>1 DEF Read
<1>3. CASE st.stopped \/ st.broken
  BY <1>3 DEF ReadRecord, Reads
<1>4. CASE ~(st.stopped \/ st.broken) /\ rec.kind = "broken"
  <2> DEFINE new == [st EXCEPT !.broken = TRUE, !.invalid = @ + 1]
  <2>1. new \in Readers /\ new.files = st.files /\ new.broken /\ new.stopped = st.stopped
        /\ new.records = st.records /\ new.rows = st.rows
    BY <1>1, <1>2 DEF Readers
  <2>2. ReadRecord(st, rec, quota) = new
    BY <1>4 DEF ReadRecord
  <2> HIDE DEF new
  <2> QED
    BY <1>4, <2>1, <2>2 DEF Reads
<1>5. CASE ~(st.stopped \/ st.broken) /\ rec.kind # "broken" /\ quota > 0 /\ st.records >= quota
  <2> DEFINE new == [st EXCEPT !.stopped = TRUE]
  <2>1. new \in Readers /\ new.files = st.files /\ new.stopped /\ new.broken = st.broken
        /\ new.records = st.records /\ new.rows = st.rows
    BY <1>1, <1>2 DEF Readers
  <2>2. ReadRecord(st, rec, quota) = new
    BY <1>5 DEF ReadRecord
  <2> HIDE DEF new
  <2> QED
    BY <1>5, <2>1, <2>2 DEF Reads
<1>6. CASE ~(st.stopped \/ st.broken) /\ rec.kind # "broken" /\ ~(quota > 0 /\ st.records >= quota)
  <2> DEFINE i == IF rec.kind = "invalid" THEN st.invalid + 1 ELSE st.invalid
             r == IF rec.kind = "row" THEN Append(st.rows, rec.id) ELSE st.rows
             new == [st EXCEPT !.records = @ + 1, !.invalid = i, !.rows = r]
  <2>1. i \in Nat /\ r \in Seq(Nat)
    BY <1>1, <1>2
  <2>2. ReadRecord(st, rec, quota) = new
    BY <1>6 DEF ReadRecord
  <2> HIDE DEF i, r
  <2>3. new \in Readers /\ new.files = st.files /\ new.stopped = st.stopped /\ new.broken = st.broken
        /\ new.records = st.records + 1 /\ new.rows = r
    BY <1>1, <1>2, <2>1 DEF Readers
  <2> HIDE DEF new
  <2> QED
    BY <1>6, <2>2, <2>3 DEF Reads, r
<1> QED
  BY <1>3, <1>4, <1>5, <1>6

LEMMA SourceStarts ==
    ASSUME NEW st \in Readers
    PROVE  LET new == [st EXCEPT !.files = @ + 1, !.broken = FALSE]
           IN  /\ new \in Readers /\ new.rows = st.rows /\ new.records = st.records
               /\ new.stopped = st.stopped /\ ~new.broken
<1>1. /\ st.files \in Nat /\ st.records \in Nat /\ st.invalid \in Nat /\ st.rows \in Seq(Nat)
      /\ st.stopped \in BOOLEAN /\ st.broken \in BOOLEAN
      /\ st = [files |-> st.files, records |-> st.records, invalid |-> st.invalid, rows |-> st.rows,
               stopped |-> st.stopped, broken |-> st.broken]
  BY DEF Readers
<1>2. st.files + 1 \in Nat
  BY <1>1
<1> DEFINE new == [st EXCEPT !.files = @ + 1, !.broken = FALSE]
<1>3. new \in Readers
  BY <1>1, <1>2 DEF Readers
<1>4. new.rows = st.rows /\ new.records = st.records /\ new.stopped = st.stopped /\ ~new.broken
  BY <1>1
<1> QED
  BY <1>3, <1>4

SourceRuns(acc, st, source, quota) ==
    /\ acc \in [0..Len(source) -> Readers]
    /\ acc[0] = [st EXCEPT !.files = @ + 1, !.broken = FALSE]
    /\ ReadSource(st, source, quota) = acc[Len(source)]
    /\ \A k \in 1..Len(source) :
          acc[k - 1] \in Readers /\ acc[k] = ReadRecord(acc[k - 1], source[k], quota)

LEMMA ReadSourceRuns ==
    ASSUME NEW st \in Readers, NEW source \in Seq(Read), NEW quota \in Nat
    PROVE  \E acc : SourceRuns(acc, st, source, quota)
<1> DEFINE n == Len(source)
           V == Readers
           base == [st EXCEPT !.files = @ + 1, !.broken = FALSE]
           step == [p \in (1..n) \X V |-> ReadRecord(p[2], source[p[1]], quota)]
           it == CHOOSE f : f = [t \in SUBSET (1..n) |->
                     IF t = {} THEN base ELSE ReadRecord(f[t \ {Max(t)}], source[Max(t)], quota)]
           acc == [k \in 0..n |-> it[1..k]]
<1>1. n \in Nat /\ DOMAIN source = 1..n /\ \A k \in 1..n : source[k] \in Read
  OBVIOUS
<1>2. ReadSource(st, source, quota) = it[1..n]
  BY <1>1 DEF ReadSource, FoldLeft, MapThenFoldSet
<1>3. base \in V /\ \A v \in V, x \in Read : ReadRecord(v, x, quota) \in V
  <2>1. base \in V
    BY SourceStarts
  <2> QED
    BY <2>1, ReadRecordIs DEF Reads
<1> HIDE DEF n, V, base
<1>4. step \in [(1..n) \X V -> V]
  BY <1>1, <1>3
<1>5. \A k \in 1..n, v \in V : step[<<k, v>>] = ReadRecord(v, source[k], quota)
  BY <1>1
<1> HIDE DEF step
<1>6. PICK f : IsFold(f, n, V, base, step)
  BY <1>1, <1>3, <1>4, FoldExists
<1>7. f = [t \in SUBSET (1..n) |->
              IF t = {} THEN base ELSE ReadRecord(f[t \ {Max(t)}], source[Max(t)], quota)]
  <2>1. \A t \in SUBSET (1..n) : t # {} => Max(t) \in 1..n /\ f[t \ {Max(t)}] \in V
    BY <1>1, <1>6, MaxOf DEF IsFold
  <2> QED
    BY <1>5, <1>6, <2>1 DEF IsFold
<1>8. it = [t \in SUBSET (1..n) |->
              IF t = {} THEN base ELSE ReadRecord(it[t \ {Max(t)}], source[Max(t)], quota)]
  BY <1>7
<1> HIDE DEF it
<1>9. FoldsWhereTyped(it, n, V, base, step)
  <2>1. \A t \in SUBSET (1..n) : t # {} => Max(t) \in 1..n
    BY <1>1, MaxOf
  <2> QED
    BY <1>5, <1>8, <2>1 DEF FoldsWhereTyped
<1>10. Runs(acc, n, V, base, step)
  BY <1>1, <1>3, <1>4, <1>9, FoldRuns
<1>11. acc[n] = it[1..n]
  BY <1>1
<1> HIDE DEF acc
<1>12. /\ acc \in [0..n -> V] /\ acc[0] = base
       /\ \A k \in 1..n : acc[k - 1] \in V /\ acc[k] = ReadRecord(acc[k - 1], source[k], quota)
  BY <1>5, <1>10 DEF Runs
<1>13. SourceRuns(acc, st, source, quota)
  BY <1>2, <1>11, <1>12 DEF n, V, base, SourceRuns
<1> QED
  BY <1>13

\* The ids of the first k records, and of the rows among them before a broken one.
IdsOf(source, k) == {source[i].id : i \in 1..k}
SoundRows(source, k) == {i \in 1..k : source[i].kind = "row" /\ \A j \in 1..i : source[j].kind # "broken"}
SoundIds(source, k) == {source[i].id : i \in SoundRows(source, k)}

\* A reader whose rows are among ids, within the quota or, without one, exactly the sound ones.
ReadWell(v, quota, ids, sound) ==
    /\ v \in Readers /\ Distinct(v.rows) /\ RowSet(v.rows) \subseteq ids
    /\ quota > 0 => v.records <= quota
    /\ quota = 0 => ~v.stopped /\ RowSet(v.rows) = sound

LEMMA AppendRow ==
    ASSUME NEW s \in Seq(Nat), NEW x \in Nat
    PROVE  /\ RowSet(Append(s, x)) = RowSet(s) \cup {x}
           /\ Distinct(s) /\ x \notin RowSet(s) => Distinct(Append(s, x))
<1> DEFINE n == Len(s)
           new == Append(s, x)
<1>1. /\ n \in Nat /\ new \in Seq(Nat) /\ Len(new) = n + 1 /\ new[n + 1] = x
      /\ \A i \in 1..n : new[i] = s[i]
  OBVIOUS
<1>2. DOMAIN s = 1..n /\ DOMAIN new = 1..(n + 1)
  BY <1>1
<1>3. \A i \in 1..(n + 1) : i = n + 1 \/ i \in 1..n
  BY <1>1
<1>4. n + 1 \in 1..(n + 1) /\ \A i \in 1..n : i \in 1..(n + 1)
  BY <1>1
<1> HIDE DEF new, n
<1>5. RowSet(new) = RowSet(s) \cup {x}
  BY <1>1, <1>2, <1>3, <1>4 DEF RowSet
<1>6. ASSUME Distinct(s), x \notin RowSet(s) PROVE Distinct(new)
  <2>1. \A i \in 1..n : s[i] # x
    BY <1>2, <1>6 DEF RowSet
  <2>2. \A i, j \in 1..n : s[i] = s[j] => i = j
    BY <1>6 DEF Distinct, n
  <2>3. \A i, j \in 1..(n + 1) : new[i] = new[j] => i = j
    BY <1>1, <1>3, <2>1, <2>2
  <2> QED
    BY <1>1, <2>3 DEF Distinct
<1> QED
  BY <1>5, <1>6 DEF new

Ends(source, k) == \E i \in 1..k : source[i].kind = "broken"
SourceGrows(source, k) ==
    /\ IdsOf(source, k) = IdsOf(source, k - 1) \cup {source[k].id}
    /\ Ends(source, k) <=> Ends(source, k - 1) \/ source[k].kind = "broken"
    /\ SoundIds(source, k) = IF source[k].kind = "row" /\ ~Ends(source, k - 1)
                             THEN SoundIds(source, k - 1) \cup {source[k].id}
                             ELSE SoundIds(source, k - 1)

LEMMA OneMoreRead == ASSUME NEW source, NEW n \in Nat, NEW k \in 1..n PROVE SourceGrows(source, k)
<1>1. k \in Nat /\ k \in 1..k /\ \A i \in 1..k : i = k \/ i \in 1..(k - 1)
  OBVIOUS
<1>2. \A i \in 1..(k - 1) : i \in 1..k /\ \A j \in 1..i : j \in 1..(k - 1)
  OBVIOUS
<1>3. IdsOf(source, k) = IdsOf(source, k - 1) \cup {source[k].id}
  BY <1>1, <1>2 DEF IdsOf
<1>4. Ends(source, k) <=> Ends(source, k - 1) \/ source[k].kind = "broken"
  BY <1>1, <1>2 DEF Ends
<1>5. SoundRows(source, k) = IF source[k].kind = "row" /\ ~Ends(source, k - 1)
                             THEN SoundRows(source, k - 1) \cup {k} ELSE SoundRows(source, k - 1)
  <2>1. (\A j \in 1..k : source[j].kind # "broken")
            <=> ~Ends(source, k - 1) /\ source[k].kind # "broken"
    BY <1>1, <1>2 DEF Ends
  <2>2. \A i \in SoundRows(source, k) : i = k \/ i \in SoundRows(source, k - 1)
    BY <1>1 DEF SoundRows
  <2>3. \A i \in SoundRows(source, k - 1) : i \in SoundRows(source, k) /\ i # k
    BY <1>1, <1>2 DEF SoundRows
  <2>4. k \in SoundRows(source, k) <=> source[k].kind = "row" /\ ~Ends(source, k - 1)
    BY <1>1, <2>1 DEF SoundRows
  <2> QED
    BY <2>2, <2>3, <2>4
<1>6. SoundIds(source, k) = IF source[k].kind = "row" /\ ~Ends(source, k - 1)
                            THEN SoundIds(source, k - 1) \cup {source[k].id}
                            ELSE SoundIds(source, k - 1)
  BY <1>5 DEF SoundIds
<1> QED
  BY <1>3, <1>4, <1>6 DEF SourceGrows

\* One source adds its rows, up to its first broken record or the quota.
LEMMA SourceIsRead ==
    ASSUME NEW quota \in Nat, NEW source \in Seq(Read), NEW ids, NEW sound,
           NEW st, ReadWell(st, quota, ids, sound), ~st.stopped,
           \A i, j \in 1..Len(source) : source[i].id = source[j].id => i = j,
           \A i \in 1..Len(source) : source[i].id \notin ids
    PROVE  ReadWell(ReadSource(st, source, quota), quota, ids \cup IdsOf(source, Len(source)),
                    sound \cup SoundIds(source, Len(source)))
<1> DEFINE n == Len(source)
           Well(v, k) == ReadWell(v, quota, ids \cup IdsOf(source, k), sound \cup SoundIds(source, k))
<1>1. n \in Nat /\ \A k \in 1..n : source[k] \in Read
  OBVIOUS
<1>2. st \in Readers
  BY DEF ReadWell
<1>3. PICK acc : SourceRuns(acc, st, source, quota)
  BY <1>2, ReadSourceRuns
<1>4. /\ acc[0] = [st EXCEPT !.files = @ + 1, !.broken = FALSE]
      /\ ReadSource(st, source, quota) = acc[n]
      /\ \A k \in 1..n : acc[k - 1] \in Readers /\ acc[k] = ReadRecord(acc[k - 1], source[k], quota)
  BY <1>3 DEF SourceRuns
<1> DEFINE Good(k) == Well(acc[k], k) /\ (quota = 0 => (acc[k].broken <=> Ends(source, k)))
           G == {k \in 0..n : Good(k)}
<1>5. 0 \in G
  <2>1. /\ IdsOf(source, 0) = {} /\ SoundIds(source, 0) = {} /\ ~Ends(source, 0)
    BY DEF IdsOf, SoundIds, SoundRows, Ends
  <2>2. /\ acc[0] \in Readers /\ acc[0].rows = st.rows /\ acc[0].records = st.records
        /\ acc[0].stopped = st.stopped /\ ~acc[0].broken
    BY <1>2, <1>4, SourceStarts
  <2>3. Well(acc[0], 0)
    BY <2>1, <2>2 DEF ReadWell
  <2>4. Good(0)
    BY <2>1, <2>2, <2>3
  <2> HIDE DEF Good
  <2> QED
    BY <1>1, <2>4
<1>6. ASSUME NEW k \in 1..n, k - 1 \in G PROVE k \in G
  <2> DEFINE v == acc[k - 1]
             w == acc[k]
             rec == source[k]
             all == ids \cup IdsOf(source, k - 1)
             ok == sound \cup SoundIds(source, k - 1)
             more == ids \cup IdsOf(source, k)
             okay == sound \cup SoundIds(source, k)
             ended == Ends(source, k - 1)
  <2>1. ReadWell(v, quota, all, ok) /\ (quota = 0 => (v.broken <=> ended))
    BY <1>6
  <2>2. Reads(w, v, rec, quota)
    BY <1>1, <1>4, ReadRecordIs
  <2>3. /\ more = all \cup {rec.id}
        /\ Ends(source, k) <=> ended \/ rec.kind = "broken"
        /\ okay = IF rec.kind = "row" /\ ~ended THEN ok \cup {rec.id} ELSE ok
    <3>1. SourceGrows(source, k)
      BY <1>1, OneMoreRead
    <3> QED
      BY <3>1 DEF SourceGrows
  <2>4. rec.id \notin all /\ rec.id \in Nat
    <3>1. \A i \in 1..(k - 1) : i \in 1..n /\ i # k
      BY <1>1
    <3>2. rec.id \notin IdsOf(source, k - 1)
      BY <3>1 DEF IdsOf
    <3> QED
      BY <1>1, <3>2 DEF Read
  <2> HIDE DEF v, w, rec, all, ok, more, okay, ended
  <2>5. /\ v \in Readers /\ w \in Readers /\ v.rows \in Seq(Nat) /\ Distinct(v.rows)
        /\ RowSet(v.rows) \subseteq all /\ v.records \in Nat
        /\ quota > 0 => v.records <= quota
        /\ quota = 0 => ~v.stopped /\ RowSet(v.rows) = ok
    BY <2>1, <2>2 DEF ReadWell, Reads, Readers
  <2>6. ReadWell(w, quota, more, okay) /\ (quota = 0 => (w.broken <=> ended \/ rec.kind = "broken"))
    <3>1. CASE v.stopped \/ v.broken
      <4>1. w = v
        BY <2>2, <3>1 DEF Reads
      <4>2. quota = 0 => v.broken /\ ended /\ okay = ok
        BY <2>1, <2>3, <2>5, <3>1
      <4> QED
        BY <2>3, <2>5, <4>1, <4>2 DEF ReadWell
    <3>2. CASE ~(v.stopped \/ v.broken) /\ rec.kind = "broken"
      <4>1. w.broken /\ ~w.stopped /\ w.records = v.records /\ w.rows = v.rows
        BY <2>2, <3>2 DEF Reads
      <4> QED
        BY <2>3, <2>5, <3>2, <4>1 DEF ReadWell
    <3>3. CASE ~(v.stopped \/ v.broken) /\ rec.kind # "broken" /\ quota > 0 /\ v.records >= quota
      <4>1. w.stopped /\ ~w.broken /\ w.records = v.records /\ w.rows = v.rows
        BY <2>2, <3>3 DEF Reads
      <4> QED
        BY <2>3, <2>5, <3>3, <4>1 DEF ReadWell
    <3>4. CASE ~(v.stopped \/ v.broken) /\ rec.kind # "broken" /\ ~(quota > 0 /\ v.records >= quota)
      <4>1. /\ ~w.stopped /\ ~w.broken /\ w.records = v.records + 1
            /\ w.rows = IF rec.kind = "row" THEN Append(v.rows, rec.id) ELSE v.rows
        BY <2>2, <3>4 DEF Reads
      <4>2. quota > 0 => w.records <= quota
        BY <2>5, <3>4, <4>1
      <4>3. quota = 0 => ~ended
        BY <2>1, <3>4
      <4>4. CASE rec.kind = "row"
        <5>1. RowSet(w.rows) = RowSet(v.rows) \cup {rec.id} /\ Distinct(w.rows)
          BY <2>4, <2>5, <4>1, <4>4, AppendRow
        <5> QED
          BY <2>3, <2>5, <3>4, <4>1, <4>2, <4>3, <4>4, <5>1 DEF ReadWell
      <4>5. CASE rec.kind # "row"
        BY <2>3, <2>5, <3>4, <4>1, <4>2, <4>3, <4>5 DEF ReadWell
      <4> QED
        BY <4>4, <4>5
    <3> QED
      BY <3>1, <3>2, <3>3, <3>4
  <2>7. Good(k)
    BY <2>3, <2>6 DEF w, more, okay
  <2>8. k \in 0..n
    BY <1>1
  <2> HIDE DEF Good
  <2> QED
    BY <2>7, <2>8
<1> HIDE DEF G
<1>7. Good(n)
  <2>1. \A k \in 0..n : k \in G
    BY <1>1, <1>5, <1>6, Induct
  <2>2. n \in G
    BY <1>1, <2>1
  <2> QED
    BY <2>2 DEF G
<1> QED
  BY <1>4, <1>7

-----------------------------------------------------------------------------
(* lc0_to_jsonl.py: the sources of one shard *)

Sources == Seq(Seq(Read))
NoIdTwice(sources) ==
    \A a, b \in DOMAIN sources : \A k \in DOMAIN sources[a], l \in DOMAIN sources[b] :
        sources[a][k].id = sources[b][l].id => a = b /\ k = l
NoneRead == [files |-> 0, records |-> 0, invalid |-> 0, rows |-> <<>>, stopped |-> FALSE, broken |-> FALSE]
ReadNext(st, sources, i, limit, shards, index) ==
    IF st.stopped \/ ~SelectedPath(i - 1, shards, index) THEN st
    ELSE ReadSource(st, sources[i], SplitRecordLimit(limit, shards, index))

LEMMA QuotaType ==
    ASSUME NEW limit \in Int, NEW shards \in Nat \ {0}, NEW index \in Nat
    PROVE  SplitRecordLimit(limit, shards, index) \in Nat
<1>1. CASE limit <= 0
  BY <1>1 DEF SplitRecordLimit
<1>2. CASE ~(limit <= 0)
  <2>1. limit \in Nat
    BY <1>2
  <2>2. limit \div shards \in Nat
    BY <2>1, Division
  <2>3. Share(limit, shards, index) \in Nat
    <3> DEFINE q == limit \div shards
               more == IF index < limit % shards THEN 1 ELSE 0
    <3>1. more \in Nat
      OBVIOUS
    <3> HIDE DEF more, q
    <3>2. q + more \in Nat
      BY <2>2, <3>1 DEF q
    <3> QED
      BY <3>2 DEF Share, q, more
  <2> QED
    BY <1>2, <2>3 DEF SplitRecordLimit
<1> QED
  BY <1>1, <1>2

ShardRuns(acc, sources, limit, shards, index) ==
    /\ acc \in [0..Len(sources) -> Readers] /\ acc[0] = NoneRead
    /\ IterRows(sources, limit, shards, index) = acc[Len(sources)]
    /\ \A k \in 1..Len(sources) :
          acc[k - 1] \in Readers /\ acc[k] = ReadNext(acc[k - 1], sources, k, limit, shards, index)

LEMMA IterRowsRuns ==
    ASSUME NEW sources \in Sources, NEW limit \in Int, NEW shards \in Nat \ {0}, NEW index \in Nat
    PROVE  \E acc : ShardRuns(acc, sources, limit, shards, index)
<1> DEFINE n == Len(sources)
           V == Readers
           quota == SplitRecordLimit(limit, shards, index)
           Next1(v, i) == ReadNext(v, sources, i, limit, shards, index)
           order == [i \in 1..n |-> i]
           step == [p \in (1..n) \X V |-> Next1(p[2], p[1])]
           it == CHOOSE f : f = [t \in SUBSET (1..n) |->
                     IF t = {} THEN NoneRead
                     ELSE IF f[t \ {Max(t)}].stopped \/ ~SelectedPath(order[Max(t)] - 1, shards, index)
                          THEN f[t \ {Max(t)}]
                          ELSE ReadSource(f[t \ {Max(t)}], sources[order[Max(t)]], quota)]
           acc == [k \in 0..n |-> it[1..k]]
<1>1. n \in Nat /\ \A k \in 1..n : sources[k] \in Seq(Read)
  BY DEF Sources
<1>2. IterRows(sources, limit, shards, index) = it[1..n]
  <2>1. DOMAIN order = 1..n
    OBVIOUS
  <2> QED
    BY <1>1, <2>1 DEF IterRows, FoldLeft, MapThenFoldSet, NoneRead
<1>3. NoneRead \in V
  BY DEF NoneRead, Readers
<1>4. ASSUME NEW v \in V, NEW i \in 1..n PROVE Next1(v, i) \in V
  <2>1. quota \in Nat
    BY QuotaType
  <2>2. PICK r : SourceRuns(r, v, sources[i], quota)
    BY <1>1, <2>1, ReadSourceRuns
  <2>3. Len(sources[i]) \in 0..Len(sources[i])
    <3>1. Len(sources[i]) \in Nat
      BY <1>1
    <3> QED
      BY <3>1
  <2>4. ReadSource(v, sources[i], quota) \in V
    BY <2>2, <2>3 DEF SourceRuns
  <2> QED
    BY <2>4 DEF ReadNext
<1> HIDE DEF n, V, quota, Next1
<1>5. step \in [(1..n) \X V -> V]
  BY <1>4
<1>6. \A k \in 1..n, v \in V : step[<<k, v>>] = Next1(v, k)
  OBVIOUS
<1> HIDE DEF step
<1>7. PICK f : IsFold(f, n, V, NoneRead, step)
  BY <1>1, <1>3, <1>5, FoldExists
<1> DEFINE Same(g) == g = [t \in SUBSET (1..n) |->
                              IF t = {} THEN NoneRead ELSE Next1(g[t \ {Max(t)}], Max(t))]
<1>8. Same(f)
  <2>1. ASSUME NEW t \in SUBSET (1..n)
        PROVE  f[t] = IF t = {} THEN NoneRead ELSE Next1(f[t \ {Max(t)}], Max(t))
    <3>1. CASE t = {}
      BY <1>7, <3>1 DEF IsFold
    <3>2. CASE t # {}
      <4>1. Max(t) \in 1..n /\ f[t \ {Max(t)}] \in V
        BY <1>1, <1>7, <3>2, MaxOf DEF IsFold
      <4>2. f[t] = step[<<Max(t), f[t \ {Max(t)}]>>]
        BY <1>7, <3>2 DEF IsFold
      <4> QED
        BY <1>6, <3>2, <4>1, <4>2
    <3> QED
      BY <3>1, <3>2
  <2>2. f = [t \in SUBSET (1..n) |-> f[t]]
    BY <1>7 DEF IsFold
  <2> QED
    BY <2>1, <2>2
<1>9. it = CHOOSE g : Same(g)
  <2>1. \A t \in SUBSET (1..n) : t # {} => order[Max(t)] = Max(t)
    BY <1>1, MaxOf
  <2> HIDE DEF order
  <2>2. \A g : [t \in SUBSET (1..n) |->
                  IF t = {} THEN NoneRead
                  ELSE IF g[t \ {Max(t)}].stopped \/ ~SelectedPath(order[Max(t)] - 1, shards, index)
                       THEN g[t \ {Max(t)}]
                       ELSE ReadSource(g[t \ {Max(t)}], sources[order[Max(t)]], quota)]
             = [t \in SUBSET (1..n) |-> IF t = {} THEN NoneRead ELSE Next1(g[t \ {Max(t)}], Max(t))]
    BY <2>1 DEF Next1, ReadNext, quota
  <2> QED
    BY <2>2
<1> HIDE DEF it
<1>10. Same(it)
  <2> HIDE DEF Same
  <2> QED
    BY <1>8, <1>9
<1>11. FoldsWhereTyped(it, n, V, NoneRead, step)
  <2>1. \A t \in SUBSET (1..n) : t # {} => Max(t) \in 1..n
    BY <1>1, MaxOf
  <2> QED
    BY <1>6, <1>10, <2>1 DEF FoldsWhereTyped
<1>12. Runs(acc, n, V, NoneRead, step)
  BY <1>1, <1>3, <1>5, <1>11, FoldRuns
<1>13. acc[n] = it[1..n]
  BY <1>1
<1> HIDE DEF acc
<1>14. /\ acc \in [0..n -> V] /\ acc[0] = NoneRead
       /\ \A k \in 1..n : acc[k - 1] \in V /\ acc[k] = Next1(acc[k - 1], k)
  BY <1>6, <1>12 DEF Runs
<1>15. ShardRuns(acc, sources, limit, shards, index)
  BY <1>2, <1>13, <1>14 DEF n, V, Next1, ShardRuns
<1> QED
  BY <1>15

\* The sources of a shard among the first k, the ids in them and those of their sound rows.
TakenUpTo(shards, index, k) == {i \in 1..k : SelectedPath(i - 1, shards, index)}
ShardIds(sources, shards, index, k) ==
    UNION {IdsOf(sources[i], Len(sources[i])) : i \in TakenUpTo(shards, index, k)}
ShardSound(sources, shards, index, k) ==
    UNION {SoundIds(sources[i], Len(sources[i])) : i \in TakenUpTo(shards, index, k)}

LEMMA ShardIsRead ==
    ASSUME NEW sources \in Sources, NEW limit \in Int, NEW shards \in Nat \ {0}, NEW index \in Nat,
           NoIdTwice(sources)
    PROVE  ReadWell(IterRows(sources, limit, shards, index), SplitRecordLimit(limit, shards, index),
                    ShardIds(sources, shards, index, Len(sources)),
                    ShardSound(sources, shards, index, Len(sources)))
<1> DEFINE n == Len(sources)
           quota == SplitRecordLimit(limit, shards, index)
           ids(k) == ShardIds(sources, shards, index, k)
           sound(k) == ShardSound(sources, shards, index, k)
<1>1. n \in Nat /\ DOMAIN sources = 1..n /\ \A k \in 1..n : sources[k] \in Seq(Read)
  BY DEF Sources
<1>2. \A k \in 1..n : Len(sources[k]) \in Nat /\ DOMAIN sources[k] = 1..Len(sources[k])
  BY <1>1
<1>3. quota \in Nat
  BY QuotaType
<1>4. PICK acc : ShardRuns(acc, sources, limit, shards, index)
  BY IterRowsRuns
<1>5. /\ acc[0] = NoneRead /\ IterRows(sources, limit, shards, index) = acc[n]
      /\ \A k \in 1..n : acc[k] = ReadNext(acc[k - 1], sources, k, limit, shards, index)
  BY <1>4 DEF ShardRuns
<1> DEFINE Good(k) == ReadWell(acc[k], quota, ids(k), sound(k))
           G == {k \in 0..n : Good(k)}
<1>6. 0 \in G
  <2>1. ids(0) = {} /\ sound(0) = {}
    BY DEF ShardIds, ShardSound, TakenUpTo
  <2>2. /\ NoneRead \in Readers /\ NoneRead.rows = <<>> /\ NoneRead.records = 0 /\ ~NoneRead.stopped
    BY DEF NoneRead, Readers
  <2>3. Distinct(<<>>) /\ RowSet(<<>>) = {}
    BY DEF Distinct, RowSet
  <2> HIDE DEF quota, ids, sound
  <2>4. Good(0)
    <3>1. ReadWell(NoneRead, quota, {}, {})
      <4>1. NoneRead.records <= quota
        BY <1>3, <2>2
      <4>2. Distinct(NoneRead.rows) /\ RowSet(NoneRead.rows) = {}
        BY <2>2, <2>3
      <4> QED
        BY <2>2, <4>1, <4>2 DEF ReadWell
    <3> QED
      BY <1>5, <2>1, <3>1
  <2> HIDE DEF Good
  <2> QED
    BY <1>1, <2>4
<1>7. ASSUME NEW k \in 1..n, k - 1 \in G PROVE k \in G
  <2> DEFINE v == acc[k - 1]
             w == acc[k]
             s == sources[k]
             mine == SelectedPath(k - 1, shards, index)
  <2>1. ReadWell(v, quota, ids(k - 1), sound(k - 1))
    BY <1>7
  <2>2. w = IF v.stopped \/ ~mine THEN v ELSE ReadSource(v, s, quota)
    BY <1>5 DEF ReadNext
  <2>3. TakenUpTo(shards, index, k) = IF mine THEN TakenUpTo(shards, index, k - 1) \cup {k}
                                      ELSE TakenUpTo(shards, index, k - 1)
    <3>1. k \in 1..k /\ \A i \in 1..k : i = k \/ i \in 1..(k - 1)
      BY <1>1
    <3>2. \A i \in 1..(k - 1) : i \in 1..k
      BY <1>1
    <3> QED
      BY <3>1, <3>2 DEF TakenUpTo
  <2>4. /\ ids(k) = IF mine THEN ids(k - 1) \cup IdsOf(s, Len(s)) ELSE ids(k - 1)
        /\ sound(k) = IF mine THEN sound(k - 1) \cup SoundIds(s, Len(s)) ELSE sound(k - 1)
    BY <2>3 DEF ShardIds, ShardSound
  <2>5. \A i, j \in 1..Len(s) : s[i].id = s[j].id => i = j
    BY <1>1, <1>2 DEF NoIdTwice
  <2>6. ASSUME NEW i \in 1..Len(s) PROVE s[i].id \notin ids(k - 1)
    <3> SUFFICES ASSUME s[i].id \in ids(k - 1) PROVE FALSE
      OBVIOUS
    <3>1. PICK a \in TakenUpTo(shards, index, k - 1) : s[i].id \in IdsOf(sources[a], Len(sources[a]))
      BY DEF ShardIds
    <3>2. a \in 1..(k - 1) /\ a \in 1..n /\ a # k
      BY <1>1 DEF TakenUpTo
    <3>3. PICK l \in 1..Len(sources[a]) : s[i].id = sources[a][l].id
      BY <3>1 DEF IdsOf
    <3>4. a = k
      <4>1. a \in DOMAIN sources /\ k \in DOMAIN sources
        BY <1>1, <3>2
      <4>2. l \in DOMAIN sources[a] /\ i \in DOMAIN sources[k]
        BY <1>2, <3>2
      <4>3. sources[a][l].id = sources[k][i].id
        BY <3>3
      <4> QED
        BY <4>1, <4>2, <4>3, Zenon DEF NoIdTwice
    <3> QED
      BY <3>2, <3>4
  <2>7. s \in Seq(Read)
    BY <1>1
  <2> HIDE DEF v, w, s, mine, quota, ids, sound
  <2>8. ReadWell(w, quota, ids(k), sound(k))
    <3>1. CASE ~mine
      BY <2>1, <2>2, <2>4, <3>1
    <3>2. CASE mine /\ v.stopped
      <4>1. w = v /\ quota # 0 /\ quota > 0
        BY <1>3, <2>1, <2>2, <3>2 DEF ReadWell
      <4>2. ids(k - 1) \subseteq ids(k)
        BY <2>4, <3>2
      <4> QED
        BY <2>1, <4>1, <4>2 DEF ReadWell
    <3>3. CASE mine /\ ~v.stopped
      <4>1. ReadWell(ReadSource(v, s, quota), quota, ids(k - 1) \cup IdsOf(s, Len(s)),
                     sound(k - 1) \cup SoundIds(s, Len(s)))
        BY <1>3, <2>1, <2>5, <2>6, <2>7, <3>3, SourceIsRead
      <4> QED
        BY <2>2, <2>4, <3>3, <4>1
    <3> QED
      BY <3>1, <3>2, <3>3
  <2>9. Good(k)
    BY <2>8 DEF w
  <2>10. k \in 0..n
    BY <1>1
  <2> HIDE DEF Good
  <2> QED
    BY <2>9, <2>10
<1> HIDE DEF G
<1>8. Good(n)
  <2>1. \A k \in 0..n : k \in G
    BY <1>1, <1>6, <1>7, Induct
  <2>2. n \in G
    BY <1>1, <2>1
  <2> QED
    BY <2>2 DEF G
<1> QED
  BY <1>5, <1>8

-----------------------------------------------------------------------------
(* All the shards of a conversion *)

LEMMA TotalMonotone ==
    ASSUME NEW s \in Seq(Int), NEW t \in Seq(Int), Len(s) = Len(t), \A i \in 1..Len(s) : s[i] <= t[i]
    PROVE  Total(s) <= Total(t)
<1> DEFINE n == Len(s)
<1>1. n \in Nat /\ \A k \in 1..n : s[k] \in Int /\ t[k] \in Int /\ s[k] <= t[k]
  OBVIOUS
<1>2. PICK a \in [0..n -> Int] : /\ a[0] = 0 /\ Total(s) = a[n]
                                 /\ \A k \in 1..n : a[k] = a[k - 1] + s[k]
  BY TotalFold
<1>3. PICK b \in [0..n -> Int] : /\ b[0] = 0 /\ Total(t) = b[n]
                                 /\ \A k \in 1..n : b[k] = b[k - 1] + t[k]
  <2>1. Len(t) = n
    OBVIOUS
  <2>2. \E b \in [0..Len(t) -> Int] : /\ b[0] = 0 /\ Total(t) = b[Len(t)]
                                      /\ \A k \in 1..Len(t) : b[k] = b[k - 1] + t[k]
    BY TotalFold
  <2> HIDE DEF n
  <2> QED
    BY <2>1, <2>2
<1> HIDE DEF n
<1> DEFINE G == {k \in 0..n : a[k] <= b[k]}
<1>4. 0 \in G
  BY <1>1, <1>2, <1>3
<1>5. ASSUME NEW k \in 1..n, k - 1 \in G PROVE k \in G
  <2>1. k - 1 \in 0..n /\ k \in 0..n
    BY <1>1
  <2>2. a[k - 1] <= b[k - 1] /\ a[k - 1] \in Int /\ b[k - 1] \in Int
    BY <1>5, <2>1
  <2>3. a[k] = a[k - 1] + s[k] /\ b[k] = b[k - 1] + t[k] /\ s[k] <= t[k] /\ s[k] \in Int /\ t[k] \in Int
    BY <1>1, <1>2, <1>3
  <2>4. a[k] <= b[k]
    BY <2>2, <2>3
  <2> QED
    BY <2>1, <2>4
<1> HIDE DEF G
<1>6. a[n] <= b[n]
  <2>1. \A k \in 0..n : k \in G
    BY <1>1, <1>4, <1>5, Induct
  <2>2. n \in G
    BY <1>1, <2>1
  <2> QED
    BY <2>2 DEF G
<1> QED
  BY <1>2, <1>3, <1>6

LEMMA JoinedRows ==
    ASSUME NEW u \in Seq(Nat), NEW v \in Seq(Nat)
    PROVE  /\ RowSet(u \o v) = RowSet(u) \cup RowSet(v)
           /\ Distinct(u) /\ Distinct(v) /\ RowSet(u) \cap RowSet(v) = {} => Distinct(u \o v)
<1> DEFINE w == u \o v
           a == Len(u)
           b == Len(v)
<1>1. w \in Seq(Nat) /\ Joins(w, u, v)
  BY Joined
<1>2. a \in Nat /\ b \in Nat /\ DOMAIN u = 1..a /\ DOMAIN v = 1..b /\ DOMAIN w = 1..Len(w)
  BY <1>1
<1> HIDE DEF w
<1>3. Len(w) = a + b /\ (\A i \in 1..a : w[i] = u[i]) /\ (\A i \in 1..b : w[a + i] = v[i])
  BY <1>1 DEF Joins
<1> HIDE DEF a, b
<1>4. (\A i \in 1..a : i \in 1..(a + b)) /\ (\A i \in 1..b : a + i \in 1..(a + b))
  BY <1>2
<1>5. \A i \in 1..(a + b) : i \notin 1..a => i - a \in 1..b /\ a + (i - a) = i
  BY <1>2, Behind
<1>6. \A i \in 1..(a + b) :
          \/ i \in 1..a /\ w[i] = u[i]
          \/ i - a \in 1..b /\ a + (i - a) = i /\ w[i] = v[i - a]
  BY <1>3, <1>5
<1>7. RowSet(w) = RowSet(u) \cup RowSet(v)
  <2>1. \A x \in RowSet(w) : x \in RowSet(u) \cup RowSet(v)
    BY <1>2, <1>3, <1>6 DEF RowSet
  <2>2. \A x \in RowSet(u) : x \in RowSet(w)
    BY <1>2, <1>3, <1>4 DEF RowSet
  <2>3. \A x \in RowSet(v) : x \in RowSet(w)
    BY <1>2, <1>3, <1>4 DEF RowSet
  <2> QED
    BY <2>1, <2>2, <2>3
<1>8. ASSUME Distinct(u), Distinct(v), RowSet(u) \cap RowSet(v) = {} PROVE Distinct(w)
  <2>1. \A i, j \in 1..a : u[i] = u[j] => i = j
    BY <1>8 DEF Distinct, a
  <2>2. \A i, j \in 1..b : v[i] = v[j] => i = j
    BY <1>8 DEF Distinct, b
  <2>3. \A i \in 1..a, j \in 1..b : u[i] # v[j]
    BY <1>2, <1>8 DEF RowSet
  <2>4. ASSUME NEW i \in 1..(a + b), NEW j \in 1..(a + b), w[i] = w[j] PROVE i = j
    <3>1. CASE i \in 1..a /\ j \in 1..a
      BY <1>3, <2>1, <2>4, <3>1
    <3>2. CASE i \in 1..a /\ j \notin 1..a
      <4>1. j - a \in 1..b /\ w[j] = v[j - a] /\ w[i] = u[i]
        BY <1>3, <1>6, <3>2
      <4> QED
        BY <2>3, <2>4, <3>2, <4>1
    <3>3. CASE i \notin 1..a /\ j \in 1..a
      <4>1. i - a \in 1..b /\ w[i] = v[i - a] /\ w[j] = u[j]
        BY <1>3, <1>6, <3>3
      <4> QED
        BY <2>3, <2>4, <3>3, <4>1
    <3>4. CASE i \notin 1..a /\ j \notin 1..a
      <4>1. /\ i - a \in 1..b /\ a + (i - a) = i /\ j - a \in 1..b /\ a + (j - a) = j
        BY <1>5, <3>4
      <4>2. w[i] = v[i - a] /\ w[j] = v[j - a]
        BY <1>3, <4>1
      <4>3. i - a = j - a
        BY <2>2, <2>4, <4>1, <4>2
      <4> QED
        BY <4>1, <4>3
    <3> QED
      BY <3>1, <3>2, <3>3, <3>4
  <2> QED
    BY <1>3, <2>4 DEF Distinct
<1> QED
  BY <1>7, <1>8 DEF w

\* A source up to its first broken record.
SoundPath(path) ==
    LET ends == {k \in 1..Len(path) : path[k].kind = "broken"}
    IN  IF ends = {} THEN path
        ELSE SubSeq(path, 1, (CHOOSE k \in ends : \A n \in ends : k <= n) - 1)

LEMMA SoundPathIds ==
    ASSUME NEW path \in Seq(Read)
    PROVE  Ids(SoundPath(path), "row") = SoundIds(path, Len(path))
<1> DEFINE n == Len(path)
           ends == {k \in 1..n : path[k].kind = "broken"}
           sound == SoundPath(path)
<1>1. n \in Nat /\ DOMAIN path = 1..n
  OBVIOUS
<1>2. PICK m \in 0..n :
          /\ DOMAIN sound = 1..m /\ \A i \in 1..m : sound[i] = path[i]
          /\ \A i \in 1..n : i \in 1..m <=> \A j \in 1..i : path[j].kind # "broken"
  <2>1. CASE ends = {}
    <3>1. sound = path
      BY <2>1 DEF SoundPath
    <3>2. \A i \in 1..n : \A j \in 1..i : j \in 1..n
      BY <1>1
    <3>3. \A i \in 1..n : \A j \in 1..i : path[j].kind # "broken"
      BY <2>1, <3>2
    <3>4. n \in 0..n
      BY <1>1
    <3> QED
      BY <1>1, <3>1, <3>3, <3>4
  <2>2. CASE ends # {}
    <3> DEFINE e == CHOOSE k \in ends : \A l \in ends : k <= l
    <3>1. ends \subseteq Nat
      BY <1>1
    <3>2. e \in ends /\ \A l \in ends : e <= l
      BY <2>2, <3>1, Least
    <3>3. sound = SubSeq(path, 1, e - 1)
      BY <2>2 DEF SoundPath
    <3> HIDE DEF e, sound
    <3>4. e \in 1..n /\ path[e].kind = "broken" /\ \A j \in 1..n : path[j].kind = "broken" => e <= j
      BY <3>2
    <3> HIDE DEF ends
    <3>5. e - 1 \in 0..n /\ 1 \in 1..(n + 1) /\ e - 1 \in (1 - 1)..n /\ (e - 1) - 1 + 1 = e - 1
      BY <1>1, <3>4
    <3>6. IsPiece(sound, path, 1, e - 1, Read)
      BY <3>3, <3>5, Piece
    <3>7. DOMAIN sound = 1..(e - 1) /\ \A i \in 1..(e - 1) : sound[i] = path[i]
      <4>1. sound \in Seq(Read) /\ Len(sound) = e - 1 /\ \A i \in 1..(e - 1) : sound[i] = path[1 + i - 1]
        BY <3>5, <3>6 DEF IsPiece
      <4>2. \A i \in 1..(e - 1) : 1 + i - 1 = i
        BY <1>1, <3>4
      <4> QED
        BY <4>1, <4>2
    <3>8. ASSUME NEW i \in 1..n PROVE i \in 1..(e - 1) <=> \A j \in 1..i : path[j].kind # "broken"
      <4>1. CASE i \in 1..(e - 1)
        <5>1. \A j \in 1..i : j \in 1..n /\ ~(e <= j)
          BY <1>1, <3>4, <4>1
        <5> QED
          BY <3>4, <4>1, <5>1
      <4>2. CASE i \notin 1..(e - 1)
        <5>1. e \in 1..i
          BY <1>1, <3>4, <4>2
        <5> QED
          BY <3>4, <4>2, <5>1
      <4> QED
        BY <4>1, <4>2
    <3> QED
      BY <3>5, <3>7, <3>8
  <2> QED
    BY <2>1, <2>2
<1> HIDE DEF sound
<1>3. RowSet(sound) = {path[i] : i \in 1..m}
  BY <1>2 DEF RowSet
<1>4. \A i \in 1..m : i \in 1..n
  BY <1>1
<1>5. SoundRows(path, n) = {i \in 1..m : path[i].kind = "row"}
  BY <1>2, <1>4 DEF SoundRows
<1>6. Ids(sound, "row") = {path[i].id : i \in SoundRows(path, n)}
  BY <1>3, <1>5 DEF Ids
<1> QED
  BY <1>6 DEF SoundIds, sound

Shared(sources, limit, shards, res) ==
    LET rows == FlattenSeq([i \in 1..shards |-> res[i].rows])
        records == Total([i \in 1..shards |-> res[i].records])
    IN  /\ OneToOne(rows)
        /\ limit >= shards => records <= limit
        /\ limit = 0 =>
              RowSet(rows) = UNION {Ids(SoundPath(sources[i]), "row") : i \in 1..Len(sources)}

\* The shards of a conversion share its sources and its limit.
LEMMA SharedWork ==
    ASSUME NEW sources \in Sources, NEW limit \in Int, NEW shards \in Nat \ {0}, NoIdTwice(sources),
           NEW res, res = [i \in 1..shards |-> IterRows(sources, limit, shards, i - 1)]
    PROVE  Shared(sources, limit, shards, res)
<1> DEFINE n == Len(sources)
           rows == [i \in 1..shards |-> res[i].rows]
           records == [i \in 1..shards |-> res[i].records]
           quota(i) == SplitRecordLimit(limit, shards, i - 1)
           ids(i) == ShardIds(sources, shards, i - 1, n)
           sound(i) == ShardSound(sources, shards, i - 1, n)
<1>1. n \in Nat /\ DOMAIN sources = 1..n /\ \A k \in 1..n : sources[k] \in Seq(Read)
  BY DEF Sources
<1>2. \A k \in 1..n : DOMAIN sources[k] = 1..Len(sources[k])
  BY <1>1
<1>3. \A i \in 1..shards : i - 1 \in Nat /\ i - 1 \in 0..(shards - 1)
  OBVIOUS
<1>4. \A i \in 1..shards : ReadWell(res[i], quota(i), ids(i), sound(i)) /\ quota(i) \in Nat
  BY <1>3, ShardIsRead, QuotaType
<1> HIDE DEF quota, ids, sound, n
<1>5. \A i \in 1..shards :
          /\ res[i].rows \in Seq(Nat) /\ Distinct(res[i].rows) /\ res[i].records \in Int
          /\ RowSet(res[i].rows) \subseteq ids(i)
          /\ quota(i) > 0 => res[i].records <= quota(i)
          /\ quota(i) = 0 => RowSet(res[i].rows) = sound(i)
  BY <1>4 DEF ReadWell, Readers
<1>6. ASSUME NEW i \in 1..shards, NEW j \in 1..shards, i # j PROVE ids(i) \cap ids(j) = {}
  <2> SUFFICES ASSUME NEW x \in ids(i), x \in ids(j) PROVE FALSE
    OBVIOUS
  <2>1. PICK a \in TakenUpTo(shards, i - 1, n) : x \in IdsOf(sources[a], Len(sources[a]))
    BY DEF ids, ShardIds
  <2>2. PICK b \in TakenUpTo(shards, j - 1, n) : x \in IdsOf(sources[b], Len(sources[b]))
    BY DEF ids, ShardIds
  <2>3. a \in 1..n /\ (a - 1) % shards = i - 1
    BY DEF TakenUpTo, SelectedPath
  <2>4. b \in 1..n /\ (b - 1) % shards = j - 1
    BY DEF TakenUpTo, SelectedPath
  <2>5. PICK k \in 1..Len(sources[a]) : x = sources[a][k].id
    BY <2>1 DEF IdsOf
  <2>6. PICK l \in 1..Len(sources[b]) : x = sources[b][l].id
    BY <2>2 DEF IdsOf
  <2>7. a = b
    <3>1. a \in DOMAIN sources /\ b \in DOMAIN sources
      BY <1>1, <2>3, <2>4
    <3>2. k \in DOMAIN sources[a] /\ l \in DOMAIN sources[b]
      BY <1>2, <2>3, <2>4
    <3>3. sources[a][k].id = sources[b][l].id
      BY <2>5, <2>6
    <3> QED
      BY <3>1, <3>2, <3>3, Zenon DEF NoIdTwice
  <2>8. i - 1 = j - 1
    BY <2>3, <2>4, <2>7
  <2> QED
    BY <1>6, <2>8
<1>7. rows \in Seq(Seq(Nat)) /\ Len(rows) = shards /\ \A i \in 1..shards : rows[i] = res[i].rows
  <2>1. \A i \in 1..shards : res[i].rows \in Seq(Nat)
    BY <1>5
  <2>2. rows \in [1..shards -> Seq(Nat)]
    BY <2>1
  <2>3. shards \in Nat
    OBVIOUS
  <2> QED
    BY <2>2, <2>3, MadeSeq
<1> HIDE DEF rows
<1>8. PICK flat : Flattens(flat, rows, Nat)
  BY <1>7, FlattenRuns
<1>9. /\ flat[0] = <<>> /\ FlattenSeq(rows) = flat[shards]
      /\ \A k \in 1..shards : flat[k - 1] \in Seq(Nat) /\ flat[k] = flat[k - 1] \o rows[k]
      /\ flat[shards] \in Seq(Nat)
  <2>1. Len(rows) \in 0..Len(rows)
    BY <1>7
  <2> QED
    BY <1>7, <1>8, <2>1 DEF Flattens
<1> DEFINE upto(k) == UNION {RowSet(res[i].rows) : i \in 1..k}
           Good(k) == Distinct(flat[k]) /\ RowSet(flat[k]) = upto(k)
           G == {k \in 0..shards : Good(k)}
<1>10. 0 \in G
  <2>1. Distinct(<<>>) /\ RowSet(<<>>) = {} /\ upto(0) = {}
    BY DEF Distinct, RowSet
  <2> HIDE DEF upto
  <2>2. Good(0)
    BY <1>9, <2>1
  <2> HIDE DEF Good
  <2> QED
    BY <2>2
<1>11. ASSUME NEW k \in 1..shards, k - 1 \in G PROVE k \in G
  <2>1. Good(k - 1)
    BY <1>11
  <2>2. flat[k - 1] \in Seq(Nat) /\ rows[k] \in Seq(Nat) /\ flat[k] = flat[k - 1] \o rows[k]
    BY <1>5, <1>7, <1>9
  <2>3. upto(k) = upto(k - 1) \cup RowSet(rows[k])
    <3>1. k \in 1..k /\ \A i \in 1..k : i = k \/ i \in 1..(k - 1)
      OBVIOUS
    <3>2. \A i \in 1..(k - 1) : i \in 1..k
      OBVIOUS
    <3> QED
      BY <1>7, <3>1, <3>2
  <2>4. upto(k - 1) \cap RowSet(rows[k]) = {}
    <3> SUFFICES ASSUME NEW x \in RowSet(rows[k]), x \in upto(k - 1) PROVE FALSE
      OBVIOUS
    <3>1. PICK i \in 1..(k - 1) : x \in RowSet(res[i].rows)
      OBVIOUS
    <3>2. i \in 1..shards /\ i # k
      OBVIOUS
    <3>3. x \in ids(i) /\ x \in ids(k)
      BY <1>5, <1>7, <3>1, <3>2
    <3> QED
      BY <1>6, <3>2, <3>3
  <2> HIDE DEF upto
  <2>5. Good(k)
    <3>1. Distinct(rows[k])
      BY <1>5, <1>7
    <3>2. RowSet(flat[k]) = RowSet(flat[k - 1]) \cup RowSet(rows[k])
      BY <2>2, JoinedRows
    <3>3. Distinct(flat[k])
      BY <2>1, <2>2, <2>4, <3>1, JoinedRows
    <3> QED
      BY <2>1, <2>3, <3>2, <3>3
  <2>6. k \in 0..shards
    OBVIOUS
  <2> HIDE DEF Good
  <2> QED
    BY <2>5, <2>6
<1> HIDE DEF G
<1>12. Good(shards)
  <2>1. \A k \in 0..shards : k \in G
    BY <1>10, <1>11, Induct
  <2>2. shards \in G
    BY <2>1
  <2> QED
    BY <2>2 DEF G
<1>13. OneToOne(FlattenSeq(rows))
  BY <1>9, <1>12, OneToOneSeq DEF Distinct
<1>14. ASSUME limit >= shards PROVE Total(records) <= limit
  <2> DEFINE shares == [i \in 1..shards |-> Share(limit, shards, i - 1)]
  <2>1. limit \in Nat /\ limit > 0 /\ ~(limit <= 0)
    BY <1>14
  <2>2. limit \div shards \in Nat /\ limit \div shards >= 1
    <3> DEFINE q == limit \div shards
               r == limit % shards
    <3>1. q \in Nat /\ r \in 0..(shards - 1) /\ limit = shards * q + r
      BY <2>1, Division
    <3> HIDE DEF q, r
    <3>2. q # 0
      BY <1>14, <3>1
    <3> QED
      BY <3>1, <3>2 DEF q
  <2>3. \A i \in 1..shards : quota(i) = Share(limit, shards, i - 1)
    BY <2>1 DEF quota, SplitRecordLimit
  <2>4. \A i \in 1..shards : quota(i) \in Nat /\ quota(i) > 0
    <3> SUFFICES ASSUME NEW i \in 1..shards PROVE quota(i) \in Nat /\ quota(i) > 0
      OBVIOUS
    <3> DEFINE q == limit \div shards
               more == IF i - 1 < limit % shards THEN 1 ELSE 0
    <3>1. more \in Nat
      OBVIOUS
    <3>2. quota(i) = q + more
      BY <2>3 DEF Share
    <3> HIDE DEF q, more
    <3>3. q \in Nat /\ q >= 1
      BY <2>2 DEF q
    <3> QED
      BY <3>1, <3>2, <3>3
  <2>5. records \in Seq(Int) /\ Len(records) = shards /\ \A i \in 1..shards : records[i] = res[i].records
    <3>1. \A i \in 1..shards : res[i].records \in Int
      BY <1>5
    <3>2. records \in [1..shards -> Int]
      BY <3>1
    <3>3. shards \in Nat
      OBVIOUS
    <3> QED
      BY <3>2, <3>3, MadeSeq
  <2>6. shares \in Seq(Int) /\ Len(shares) = shards /\ \A i \in 1..shards : shares[i] = quota(i)
    <3>1. \A i \in 1..shards : Share(limit, shards, i - 1) \in Int
      <4>1. \A i \in 1..shards : quota(i) \in Int
        BY <2>4
      <4> QED
        BY <2>3, <4>1
    <3>2. shares \in [1..shards -> Int]
      BY <3>1
    <3>3. shards \in Nat
      OBVIOUS
    <3> QED
      BY <2>3, <3>2, <3>3, MadeSeq
  <2>7. Total(shares) = limit
    <3>1. shards \in 0..shards
      OBVIOUS
    <3>2. Total(shares) = FirstShares(limit, shards, shards)
      BY <2>1, <3>1, ShareSum
    <3> QED
      BY <2>1, <3>2, AllShares
  <2> HIDE DEF records, shares
  <2>8. \A i \in 1..shards : records[i] <= shares[i]
    BY <1>5, <2>4, <2>5, <2>6
  <2>9. Total(records) <= Total(shares)
    BY <2>5, <2>6, <2>8, TotalMonotone
  <2> QED
    BY <2>7, <2>9
<1>15. ASSUME limit = 0
       PROVE  upto(shards) = UNION {Ids(SoundPath(sources[i]), "row") : i \in 1..n}
  <2>1. \A i \in 1..shards : RowSet(res[i].rows) = sound(i)
    <3>1. \A i \in 1..shards : quota(i) = 0
      BY <1>15 DEF quota, SplitRecordLimit
    <3> QED
      BY <1>5, <3>1
  <2>2. \A a \in 1..n : Ids(SoundPath(sources[a]), "row") = SoundIds(sources[a], Len(sources[a]))
    BY <1>1, SoundPathIds
  <2>3. ASSUME NEW x \in upto(shards) PROVE \E a \in 1..n : x \in Ids(SoundPath(sources[a]), "row")
    <3>1. PICK i \in 1..shards : x \in sound(i)
      BY <2>1
    <3>2. PICK a \in TakenUpTo(shards, i - 1, n) : x \in SoundIds(sources[a], Len(sources[a]))
      BY <3>1 DEF sound, ShardSound
    <3>3. a \in 1..n
      BY DEF TakenUpTo
    <3> QED
      BY <2>2, <3>2, <3>3
  <2>4. ASSUME NEW a \in 1..n, NEW x \in Ids(SoundPath(sources[a]), "row") PROVE x \in upto(shards)
    <3> DEFINE r == (a - 1) % shards
    <3>1. a - 1 \in Nat
      BY <1>1
    <3>2. r \in 0..(shards - 1)
      BY <3>1, Division
    <3> HIDE DEF r
    <3>3. r + 1 \in 1..shards /\ (r + 1) - 1 = r
      BY <3>2
    <3>4. a \in TakenUpTo(shards, (r + 1) - 1, n)
      BY <3>3 DEF TakenUpTo, SelectedPath, r
    <3>5. x \in sound(r + 1)
      BY <2>2, <3>4 DEF sound, ShardSound
    <3> QED
      BY <2>1, <3>3, <3>5
  <2> HIDE DEF upto
  <2> QED
    BY <2>3, <2>4
<1> HIDE DEF upto
<1> QED
  BY <1>9, <1>12, <1>13, <1>14, <1>15 DEF Shared, rows, records, n

-----------------------------------------------------------------------------
(* The tools *)

LEMMA OneCorpusTool ==
    ASSUME Next
    PROVE  /\ job' = job
           /\ job.tool = "shards" =>
                 result' = [i \in 1..job.shards |-> IterRows(job.sources, job.limit, job.shards, i - 1)]
           /\ job.tool = "recut" => result' = Repartition(job.sources, job.chunks)
           /\ job.tool = "mix" => result' = SelectLines(job.source)
           /\ job.tool = "sample" =>
                 result' = [b \in 1..Len(job.buckets) |-> Reservoirs(job.buckets, job.rows, b)]
           /\ job.tool = "pack" => result' = MergeShards([i \in 1..Len(job.shards) |-> Pack(job.shards[i])])
BY DEF Next, Export, ExportBullet, Rewrite, WarmStart, Expand, Convert, Threats,
       ConvertPosition, RelabelRecords, ConvertShards, Recut, Mix, Sample, PackShards, Calibrate,
       PoolValues, Run

LEMMA ShardsStep == ASSUME job \in Jobs, Next, job.tool = "shards" PROVE ShardsShareTheWork'
<1> DEFINE sources == job.sources
           limit == job.limit
           shards == job.shards
           res == result'
<1>1. /\ shards \in Nat \ {0} /\ limit \in Int /\ sources \in Sources /\ NoIdTwice(sources)
  BY CorpusAssumption DEF Sources, Read, NoIdTwice
<1>2. res = [i \in 1..shards |-> IterRows(sources, limit, shards, i - 1)] /\ job' = job
  BY OneCorpusTool
<1> HIDE DEF sources, limit, shards, res
<1>3. Shared(sources, limit, shards, res)
  BY <1>1, <1>2, SharedWork
<1> USE DEF sources, limit, shards, res
<1>4. Shared(job'.sources, job'.limit, job'.shards, result')
  BY <1>2, <1>3
<1> QED
  BY <1>4 DEF Shared, SoundPath, ShardsShareTheWork

LEMMA RecutStep == ASSUME job \in Jobs, Next, job.tool = "recut" PROVE ChunksAreTheSources'
<1> DEFINE sources == job.sources
           chunks == job.chunks
           stream == FlattenSeq(sources)
           cs == [i \in 1..chunks |->
                    SubSeq(stream, Total([j \in 1..(i - 1) |-> Share(Len(stream), chunks, j - 1)]) + 1,
                           Total([j \in 1..(i - 1) |-> Share(Len(stream), chunks, j - 1)])
                               + Share(Len(stream), chunks, i - 1))]
<1>1. chunks \in Nat \ {0} /\ sources \in Seq(Seq(Nat))
  BY CorpusAssumption
<1>2. stream \in Seq(Nat)
  BY <1>1, FlattenAppend, <<>> \in Seq(Nat)
<1>3. job' = job /\ (result'.chunks = <<>> \/ result'.chunks = cs)
  <2>1. Repartition(sources, chunks).chunks = IF Len(stream) < chunks THEN <<>> ELSE cs
    BY DEF Repartition
  <2>2. job' = job /\ result' = Repartition(sources, chunks)
    BY OneCorpusTool
  <2> QED
    BY <2>1, <2>2
<1>4. FlattenSeq(cs) = stream /\ \A a, b \in RowSet(cs) : Len(a) - Len(b) \in -1..1
  <2> HIDE DEF stream
  <2> QED
    BY <1>1, <1>2, ChunksOfStream
<1> HIDE DEF cs
<1> QED
  BY <1>3, <1>4 DEF ChunksAreTheSources

LEMMA MixStep == ASSUME job \in Jobs, Next, job.tool = "mix" PROVE AnyLinesAreMixed'
<1> DEFINE source == job.source
           lines == Eligible(source)
<1>1. source.rows \in Seq(Lines) /\ source.requested \in Nat
  BY CorpusAssumption DEF Lines
<1>2. job' = job /\ result' = SelectLines(source)
  BY OneCorpusTool
<1>3. SelectLines(source) = {FlattenSeq(Kept(lines, P, Len(lines))) : P \in kSubset(Quota(source), 1..Len(lines))}
  BY <1>1, SelectedLines
<1> QED
  BY <1>2, <1>3 DEF AnyLinesAreMixed, Kept

LEMMA SampleStep == ASSUME job \in Jobs, Next, job.tool = "sample" PROVE ReservoirsFill'
<1> DEFINE rows == job.rows
           buckets == job.buckets
<1>1. /\ rows \in Seq(Lines) /\ \A b \in 1..Len(buckets) : buckets[b].rows \in Nat
      /\ \A k, l \in DOMAIN rows : rows[k].id = rows[l].id => k = l
  BY CorpusAssumption DEF Lines
<1>2. \A k, l \in 1..Len(rows) : rows[k].id = rows[l].id => k = l
  <2>1. DOMAIN rows = 1..Len(rows)
    BY <1>1
  <2> QED
    BY <1>1, <2>1
<1>3. job' = job /\ result' = [b \in 1..Len(buckets) |-> Reservoirs(buckets, rows, b)]
  BY OneCorpusTool
<1> HIDE DEF rows, buckets
<1>4. ASSUME NEW b \in 1..Len(buckets), NEW st \in result'[b]
      PROVE  Fills(st, buckets, rows, b)
  <2>1. st \in Reservoirs(buckets, rows, b)
    BY <1>3
  <2> QED
    BY <1>1, <1>2, <2>1, SampledRows
<1> QED
  BY <1>3, <1>4 DEF ReservoirsFill, Fills, rows, buckets

LEMMA PackStep == ASSUME job \in Jobs, Next, job.tool = "pack" PROVE NamesAreKept'
<1> DEFINE shards == job.shards
           sum == MergeShards([i \in 1..Len(shards) |-> Pack(shards[i])])
<1>1. shards \in Seq(Seq(STRING))
  BY CorpusAssumption
<1>2. job' = job /\ result' = sum
  BY OneCorpusTool
<1>3. OneToOne(sum.map) /\ [i \in 1..Len(sum.ids) |-> sum.map[sum.ids[i]]] = FlattenSeq(shards)
  BY <1>1, MergedNames
<1> HIDE DEF sum
<1> QED
  BY <1>2, <1>3 DEF NamesAreKept

\* Whatever corpus the tools are given, of any size: the shards of lc0_to_jsonl.py read
\* every source once and together no more than the limit, repartition_bullet.py cuts the
\* corpus into even chunks in its order, mix_jsonl.py picks any lines of the number asked
\* for, posgen.py sample fills its reservoirs with rows of their own buckets, each once,
\* and every row of a merged pack has the name of its source.
THEOREM NoRowIsLost == Spec => []CorpusIsKept
<1> DEFINE Kept1 == job \in Jobs /\ CorpusIsKept
<1>1. Init => Kept1
  BY DEF Init, CorpusIsKept, Done
<1>2. Kept1 /\ [Next]_vars => Kept1'
  <2> SUFFICES ASSUME Kept1, [Next]_vars PROVE Kept1'
    OBVIOUS
  <2>1. CASE Next
    <3>1. job' = job
      BY <2>1, OneCorpusTool
    <3>2. Done("shards")' => ShardsShareTheWork'
      BY <2>1, <3>1, ShardsStep DEF Done
    <3>3. Done("recut")' => ChunksAreTheSources'
      BY <2>1, <3>1, RecutStep DEF Done
    <3>4. Done("mix")' => AnyLinesAreMixed'
      BY <2>1, <3>1, MixStep DEF Done
    <3>5. Done("sample")' => ReservoirsFill'
      BY <2>1, <3>1, SampleStep DEF Done
    <3>6. Done("pack")' => NamesAreKept'
      BY <2>1, <3>1, PackStep DEF Done
    <3> QED
      BY <3>1, <3>2, <3>3, <3>4, <3>5, <3>6 DEF CorpusIsKept
  <2>2. CASE UNCHANGED vars
    <3>1. job' = job /\ result' = result
      BY <2>2 DEF vars
    <3>2. ShardsShareTheWork' <=> ShardsShareTheWork
      BY <3>1 DEF ShardsShareTheWork
    <3>3. ChunksAreTheSources' <=> ChunksAreTheSources
      BY <3>1 DEF ChunksAreTheSources
    <3>4. AnyLinesAreMixed' <=> AnyLinesAreMixed
      BY <3>1 DEF AnyLinesAreMixed
    <3>5. ReservoirsFill' <=> ReservoirsFill
      BY <3>1 DEF ReservoirsFill
    <3>6. NamesAreKept' <=> NamesAreKept
      BY <3>1 DEF NamesAreKept
    <3>7. CorpusIsKept'
      BY <3>1, <3>2, <3>3, <3>4, <3>5, <3>6 DEF CorpusIsKept, Done
    <3> QED
      BY <3>1, <3>7
  <2> QED
    BY <2>1, <2>2
<1> QED
  BY <1>1, <1>2, PTL DEF Spec

-----------------------------------------------------------------------------
(* Products and means *)

\* Products of integers.
LEMMA TimesMonotone == \A a, b \in Int, c \in Nat : a <= b => a * c <= b * c
OBVIOUS

LEMMA TimesCancels == \A a, b \in Int, c \in Nat \ {0} : a * c <= b * c => a <= b
<1> SUFFICES ASSUME NEW a \in Int, NEW b \in Int, NEW c \in Nat \ {0}, a * c <= b * c, b + 1 <= a PROVE FALSE
  OBVIOUS
<1>1. (b + 1) * c <= a * c
  BY TimesMonotone, b + 1 \in Int, c \in Nat
<1>2. (b + 1) * c = b * c + c /\ b * c \in Int /\ a * c \in Int
  OBVIOUS
<1> QED
  BY <1>1, <1>2

LEMMA TimesMoves ==
    \A a, b, c \in Int : a * b \in Int /\ a * b = b * a /\ (a * b) * c = (a * c) * b /\ (a * b) * c = (b * c) * a
OBVIOUS

\* A mean x / y that is not below n1 / d1 is not below a smaller n / d.
LEMMA MeansFollow ==
    ASSUME NEW x \in Int, NEW y \in Nat, NEW n1 \in Int, NEW d1 \in Nat \ {0},
           NEW n \in Int, NEW d \in Nat \ {0}, n1 * y <= x * d1, n * d1 <= n1 * d
    PROVE  n * y <= x * d
<1>1. (n1 * y) * d <= (x * d1) * d
  BY TimesMonotone, n1 * y \in Int, x * d1 \in Int, d \in Nat
<1>2. (n * d1) * y <= (n1 * d) * y
  BY TimesMonotone, n * d1 \in Int, n1 * d \in Int
<1>3. /\ (n1 * y) * d = (n1 * d) * y /\ (x * d1) * d = (x * d) * d1
      /\ (n * d1) * y = (n * y) * d1
  BY TimesMoves, y \in Int, d \in Int, d1 \in Int
<1>4. (n * y) * d1 <= (x * d) * d1
  <2>1. (n * y) * d1 \in Int /\ (n1 * d) * y \in Int /\ (x * d) * d1 \in Int
    OBVIOUS
  <2> QED
    BY <1>1, <1>2, <1>3, <2>1
<1> QED
  BY <1>4, TimesCancels, n * y \in Int, x * d \in Int

\* The same from above.
LEMMA MeansLead ==
    ASSUME NEW x \in Int, NEW y \in Nat, NEW n1 \in Int, NEW d1 \in Nat \ {0},
           NEW n \in Int, NEW d \in Nat \ {0}, x * d1 <= n1 * y, n1 * d <= n * d1
    PROVE  x * d <= n * y
<1>1. (x * d1) * d <= (n1 * y) * d
  BY TimesMonotone, n1 * y \in Int, x * d1 \in Int, d \in Nat
<1>2. (n1 * d) * y <= (n * d1) * y
  BY TimesMonotone, n * d1 \in Int, n1 * d \in Int
<1>3. /\ (n1 * y) * d = (n1 * d) * y /\ (x * d1) * d = (x * d) * d1
      /\ (n * d1) * y = (n * y) * d1
  BY TimesMoves, y \in Int, d \in Int, d1 \in Int
<1>4. (x * d) * d1 <= (n * y) * d1
  <2>1. (n * y) * d1 \in Int /\ (n1 * d) * y \in Int /\ (x * d) * d1 \in Int
    OBVIOUS
  <2> QED
    BY <1>1, <1>2, <1>3, <2>1
<1> QED
  BY <1>4, TimesCancels, n * y \in Int, x * d \in Int

LEMMA TimesDistributes ==
    \A a, b, c \in Int : (a + b) * c = a * c + b * c /\ c * (a + b) = c * a + c * b /\ a * b \in Int
OBVIOUS

LEMMA RestOfMean ==
    \A s, w, x, y \in Int : /\ s * y <= x * w <=> (s - x) * w <= s * (w - y)
                            /\ x * w <= s * y <=> s * (w - y) <= (s - x) * w
<1> SUFFICES ASSUME NEW s \in Int, NEW w \in Int, NEW x \in Int, NEW y \in Int
             PROVE  (s - x) * w = s * w - x * w /\ s * (w - y) = s * w - s * y
                    /\ s * w \in Int /\ x * w \in Int /\ s * y \in Int
  OBVIOUS
<1> QED
  OBVIOUS

-----------------------------------------------------------------------------
(* The blocks of _pav.  V and W are the weighted sums and the weights of the beginnings. *)

Block == [size : Nat \ {0}, sum : Int, weight : Nat \ {0}]
Joint(a, b) == [size |-> a.size + b.size, sum |-> a.sum + b.sum, weight |-> a.weight + b.weight]
Sums(V, W, n) ==
    /\ V \in [0..n -> Int] /\ W \in [0..n -> Nat]
    /\ \A p, q \in 0..n : p <= q => W[p] <= W[q]

\* b is the values after lo up to hi, no beginning of which has a smaller mean.
IsBlock(b, lo, hi, V, W) ==
    /\ b \in Block /\ hi = lo + b.size /\ b.sum = V[hi] - V[lo] /\ b.weight = W[hi] - W[lo]
    /\ \A p \in lo..hi : b.sum * (W[p] - W[lo]) <= (V[p] - V[lo]) * b.weight

\* Two blocks whose means fall are one.
LEMMA JointBlock ==
    ASSUME NEW n \in Nat, NEW V, NEW W, Sums(V, W, n),
           NEW lo \in 0..n, NEW mid \in 0..n, NEW hi \in 0..n, NEW a, NEW b,
           IsBlock(a, lo, mid, V, W), IsBlock(b, mid, hi, V, W), ~NotAbove(Mean(a), Mean(b))
    PROVE  IsBlock(Joint(a, b), lo, hi, V, W)
<1> DEFINE sa == a.sum
           wa == a.weight
           sb == b.sum
           wb == b.weight
           sc == sa + sb
           wc == wa + wb
<1>1. /\ sa \in Int /\ sb \in Int /\ wa \in Nat \ {0} /\ wb \in Nat \ {0}
      /\ a.size \in Nat \ {0} /\ b.size \in Nat \ {0}
      /\ mid = lo + a.size /\ hi = mid + b.size
      /\ sa = V[mid] - V[lo] /\ sb = V[hi] - V[mid]
      /\ wa = W[mid] - W[lo] /\ wb = W[hi] - W[mid]
  BY DEF IsBlock, Block
<1>2. /\ \A p \in 0..n : V[p] \in Int /\ W[p] \in Nat
      /\ \A p, q \in 0..n : p <= q => W[p] <= W[q]
  BY DEF Sums
<1>3. sb * wa < sa * wb
  <2>1. ~(sa * wb <= sb * wa)
    BY DEF NotAbove, Mean
  <2> QED
    BY <1>1, <2>1, sa * wb \in Int, sb * wa \in Int
<1>p. /\ \A p \in lo..mid : sa * (W[p] - W[lo]) <= (V[p] - V[lo]) * wa
      /\ \A p \in mid..hi : sb * (W[p] - W[mid]) <= (V[p] - V[mid]) * wb
  BY DEF IsBlock
<1> HIDE DEF sa, wa, sb, wb
<1>4. sc \in Int /\ wc \in Nat \ {0} /\ sc = V[hi] - V[lo] /\ wc = W[hi] - W[lo]
  BY <1>1, <1>2
<1>5. sc * wa <= sa * wc /\ sb * wc <= sc * wb
  <2>1. /\ sc * wa = sa * wa + sb * wa /\ sa * wc = sa * wa + sa * wb
        /\ sb * wc = sb * wa + sb * wb /\ sc * wb = sa * wb + sb * wb
    BY <1>1, TimesDistributes, wa \in Int, wb \in Int
  <2>2. sa * wa \in Int /\ sb * wa \in Int /\ sa * wb \in Int /\ sb * wb \in Int
    BY <1>1
  <2>3. sa * wa + sb * wa <= sa * wa + sa * wb /\ sb * wa + sb * wb <= sa * wb + sb * wb
    <3>1. \A p, q, r, s \in Int : q < r => p + q <= p + r /\ q + s <= r + s
      OBVIOUS
    <3> QED
      BY <1>3, <2>2, <3>1, Zenon
  <2> HIDE DEF sc, wc
  <2> QED
    BY <2>1, <2>3, Zenon
<1> HIDE DEF sc, wc
<1>6. ASSUME NEW p \in lo..hi PROVE sc * (W[p] - W[lo]) <= (V[p] - V[lo]) * wc
  <2>1. p \in 0..n /\ V[p] \in Int /\ W[p] \in Nat /\ V[lo] \in Int /\ W[lo] \in Nat
        /\ V[hi] \in Int /\ W[hi] \in Nat /\ W[lo] <= W[p] /\ W[p] <= W[hi]
    <3>1. p \in 0..n /\ lo <= p /\ p <= hi
      BY <1>1
    <3> QED
      BY <1>2, <3>1
  <2>2. CASE p \in lo..mid
    <3> DEFINE x == V[p] - V[lo]
               y == W[p] - W[lo]
    <3>1. y \in Nat /\ x \in Int
      BY <2>1
    <3>2. sa * y <= x * wa
      BY <1>p, <2>2
    <3> HIDE DEF x, y
    <3>3. sc * y <= x * wc
      BY <1>1, <1>4, <1>5, <3>1, <3>2, MeansFollow
    <3> QED
      BY <3>3 DEF x, y
  <2>3. CASE p \in mid..hi
    <3> DEFINE x == V[p] - V[mid]
               y == W[p] - W[mid]
    <3>1. /\ x \in Int /\ y \in Int /\ sb - x = V[hi] - V[p] /\ wb - y = W[hi] - W[p]
          /\ sb - x \in Int /\ wb - y \in Nat
      BY <1>1, <1>2, <2>1
    <3>2. sb * y <= x * wb
      BY <1>p, <2>3
    <3> HIDE DEF x, y
    <3>3. (sb - x) * wb <= sb * (wb - y)
      BY <1>1, <3>1, <3>2, RestOfMean, wb \in Int
    <3>4. (sb - x) * wc <= sc * (wb - y)
      <4> DEFINE u == sb - x
                 v == wb - y
      <4>1. u \in Int /\ v \in Nat /\ u * wb <= sb * v
        BY <3>1, <3>3
      <4> HIDE DEF u, v
      <4>2. u * wc <= sc * v
        BY <1>1, <1>4, <1>5, <4>1, MeansLead
      <4> QED
        BY <4>2 DEF u, v
    <3>5. /\ sb - x = sc - (V[p] - V[lo]) /\ wb - y = wc - (W[p] - W[lo])
          /\ V[p] - V[lo] \in Int /\ W[p] - W[lo] \in Int
      BY <1>4, <2>1, <3>1
    <3> QED
      BY <1>4, <3>4, <3>5, RestOfMean, wc \in Int
  <2>4. p \in lo..mid \/ p \in mid..hi
    BY <1>1
  <2> QED
    BY <2>2, <2>3, <2>4
<1>7. Joint(a, b) = [size |-> a.size + b.size, sum |-> sc, weight |-> wc]
  BY DEF Joint, sc, wc, sa, wa, sb, wb
<1>8. a.size + b.size \in Nat \ {0} /\ hi = lo + (a.size + b.size)
  BY <1>1
<1> QED
  BY <1>4, <1>6, <1>7, <1>8 DEF IsBlock, Block

\* The means of the first m blocks do not fall.
Rising(bs, m) == \A j \in 2..m : NotAbove(Mean(bs[j - 1]), Mean(bs[j]))
Settled(bs) == Len(bs) < 2 \/ NotAbove(Mean(bs[Len(bs) - 1]), Mean(bs[Len(bs)]))
LastJoined(m, bs) ==
    /\ Len(bs) >= 2 /\ m \in Seq(Block) /\ Len(m) = Len(bs) - 1
    /\ \A i \in 1..(Len(bs) - 2) : m[i] = bs[i]
    /\ m[Len(bs) - 1] = Joint(bs[Len(bs) - 1], bs[Len(bs)])

LEMMA JointType == ASSUME NEW a \in Block, NEW b \in Block PROVE Joint(a, b) \in Block
<1>1. /\ a.size \in Nat \ {0} /\ a.sum \in Int /\ a.weight \in Nat \ {0}
      /\ b.size \in Nat \ {0} /\ b.sum \in Int /\ b.weight \in Nat \ {0}
  BY DEF Block
<1>2. a.size + b.size \in Nat \ {0} /\ a.sum + b.sum \in Int /\ a.weight + b.weight \in Nat \ {0}
  BY <1>1
<1> QED
  BY <1>2 DEF Joint, Block

LEMMA MergeLastIs ==
    ASSUME NEW bs \in Seq(Block)
    PROVE  IF Settled(bs) THEN MergeLast(bs) = bs ELSE LastJoined(MergeLast(bs), bs)
<1> DEFINE k == Len(bs)
           c == Joint(bs[k - 1], bs[k])
           u == SubSeq(bs, 1, k - 2)
<1>1. k \in Nat /\ \A i \in 1..k : bs[i] \in Block
  OBVIOUS
<1>2. MergeLast(bs) = IF Settled(bs) THEN bs ELSE Append(u, c)
  BY DEF MergeLast, Settled, Joint
<1>3. CASE Settled(bs)
  BY <1>2, <1>3
<1>4. CASE ~Settled(bs)
  <2>1. k >= 2
    BY <1>1, <1>4 DEF Settled
  <2>2. u \in Seq(Block) /\ Len(u) = k - 2 /\ \A i \in 1..(k - 2) : u[i] = bs[i]
    <3>1. 1 \in 1..(Len(bs) + 1) /\ k - 2 \in (1 - 1)..Len(bs) /\ (k - 2) - 1 + 1 = k - 2
      BY <1>1, <2>1
    <3>2. IsPiece(u, bs, 1, k - 2, Block)
      BY <3>1, Piece
    <3> HIDE DEF u, k
    <3>3. \A i \in 1..(k - 2) : 1 + i - 1 = i
      OBVIOUS
    <3> QED
      BY <3>1, <3>2, <3>3 DEF IsPiece
  <2>3. c \in Block
    <3>1. bs[k - 1] \in Block /\ bs[k] \in Block
      BY <1>1, <2>1
    <3> QED
      BY <3>1, JointType
  <2> HIDE DEF u, c
  <2>4. /\ Append(u, c) \in Seq(Block) /\ Len(Append(u, c)) = k - 1 /\ Append(u, c)[k - 1] = c
        /\ \A i \in 1..(k - 2) : Append(u, c)[i] = u[i]
    BY <1>1, <2>1, <2>2, <2>3
  <2>5. LastJoined(Append(u, c), bs)
    BY <2>1, <2>2, <2>4 DEF LastJoined, c
  <2> QED
    BY <1>2, <1>4, <2>5
<1> QED
  BY <1>3, <1>4

\* The blocks bs are the first k values, the j-th ends at E[j].
Tiles(bs, E, k, V, W) ==
    /\ E \in [0..Len(bs) -> 0..k] /\ E[0] = 0 /\ E[Len(bs)] = k
    /\ \A j \in 1..Len(bs) : IsBlock(bs[j], E[j - 1], E[j], V, W)
Tiled(bs, k, V, W) == bs \in Seq(Block) /\ \E E : Tiles(bs, E, k, V, W)

LEMMA MergeKeepsTiles ==
    ASSUME NEW n \in Nat, NEW V, NEW W, Sums(V, W, n), NEW k \in 0..n, NEW bs, Tiled(bs, k, V, W)
    PROVE  Tiled(MergeLast(bs), k, V, W)
<1> DEFINE m == MergeLast(bs)
           l == Len(bs)
<1>1. bs \in Seq(Block) /\ l \in Nat
  BY DEF Tiled
<1>2. PICK E : Tiles(bs, E, k, V, W)
  BY DEF Tiled
<1>3. CASE Settled(bs)
  BY <1>1, <1>3, MergeLastIs
<1>4. CASE ~Settled(bs)
  <2>1. LastJoined(m, bs)
    BY <1>1, <1>4, MergeLastIs
  <2> HIDE DEF m, l
  <2>2. /\ l >= 2 /\ m \in Seq(Block) /\ Len(m) = l - 1 /\ \A i \in 1..(l - 2) : m[i] = bs[i]
        /\ m[l - 1] = Joint(bs[l - 1], bs[l])
    BY <2>1 DEF LastJoined, l
  <2>3. /\ E \in [0..l -> 0..k] /\ E[0] = 0 /\ E[l] = k
        /\ \A j \in 1..l : IsBlock(bs[j], E[j - 1], E[j], V, W)
    BY <1>2 DEF Tiles, l
  <2> DEFINE F == [j \in 0..(l - 1) |-> IF j = l - 1 THEN k ELSE E[j]]
  <2>4. \A j \in 0..(l - 2) : F[j] = E[j] /\ j \in 0..l
    BY <1>1, <2>2
  <2>5. F[l - 1] = k /\ F \in [0..(l - 1) -> 0..k]
    BY <1>1, <2>2, <2>3
  <2> HIDE DEF F
  <2>6. ASSUME NEW j \in 1..(l - 1) PROVE IsBlock(m[j], F[j - 1], F[j], V, W)
    <3>1. CASE j \in 1..(l - 2)
      <4>1. m[j] = bs[j] /\ F[j - 1] = E[j - 1] /\ F[j] = E[j] /\ j \in 1..l
        BY <1>1, <2>2, <2>4, <3>1
      <4> QED
        BY <2>3, <4>1
    <3>2. CASE j = l - 1
      <4>1. /\ IsBlock(bs[l - 1], E[l - 2], E[l - 1], V, W)
            /\ IsBlock(bs[l], E[l - 1], E[l], V, W)
        <5>1. l - 1 \in 1..l /\ (l - 1) - 1 = l - 2 /\ l \in 1..l
          BY <1>1, <2>2
        <5> QED
          BY <2>3, <5>1
      <4>2. E[l - 2] \in 0..n /\ E[l - 1] \in 0..n /\ E[l] \in 0..n
        <5>1. l - 2 \in 0..l /\ l - 1 \in 0..l /\ l \in 0..l
          BY <1>1, <2>2
        <5>2. E[l - 2] \in 0..k /\ E[l - 1] \in 0..k /\ E[l] \in 0..k
          BY <2>3, <5>1
        <5> QED
          BY <5>2
      <4>3. ~NotAbove(Mean(bs[l - 1]), Mean(bs[l]))
        BY <1>4 DEF Settled, l
      <4>4. IsBlock(Joint(bs[l - 1], bs[l]), E[l - 2], E[l], V, W)
        BY <4>1, <4>2, <4>3, JointBlock
      <4>5. F[j - 1] = E[l - 2] /\ F[j] = E[l] /\ m[j] = Joint(bs[l - 1], bs[l])
        <5>1. j - 1 = l - 2 /\ l - 2 \in 0..(l - 2)
          BY <1>1, <2>2, <3>2
        <5> QED
          BY <2>2, <2>3, <2>4, <2>5, <3>2, <5>1
      <4> QED
        BY <4>4, <4>5
    <3> QED
      BY <1>1, <3>1, <3>2
  <2>7. F[0] = 0
    <3>1. 0 \in 0..(l - 2)
      BY <1>1, <2>2
    <3> QED
      BY <2>3, <2>4, <3>1
  <2>8. Tiles(m, F, k, V, W)
    BY <2>2, <2>5, <2>6, <2>7 DEF Tiles
  <2>9. Tiled(m, k, V, W)
    BY <2>2, <2>8 DEF Tiled
  <2> QED
    BY <2>9 DEF m
<1> QED
  BY <1>3, <1>4

LEMMA MergeLastType == ASSUME NEW bs \in Seq(Block) PROVE MergeLast(bs) \in Seq(Block)
<1>1. CASE Settled(bs)
  BY <1>1, MergeLastIs
<1>2. CASE ~Settled(bs)
  <2>1. LastJoined(MergeLast(bs), bs)
    BY <1>2, MergeLastIs
  <2> QED
    BY <2>1 DEF LastJoined
<1> QED
  BY <1>1, <1>2

\* The blocks after each round of Pool.
PoolRounds(acc, blocks) ==
    /\ acc \in [0..Len(blocks) -> Seq(Block)]
    /\ acc[0] = blocks /\ Pool(blocks) = acc[Len(blocks)]
    /\ \A k \in 1..Len(blocks) : acc[k - 1] \in Seq(Block) /\ acc[k] = MergeLast(acc[k - 1])

LEMMA PoolRuns == ASSUME NEW blocks \in Seq(Block) PROVE \E acc : PoolRounds(acc, blocks)
<1> DEFINE n == Len(blocks)
           V == Seq(Block)
           step == [p \in (1..n) \X V |-> MergeLast(p[2])]
           it == CHOOSE f : f = [t \in SUBSET (1..n) |->
                     IF t = {} THEN blocks ELSE MergeLast(f[t \ {Max(t)}])]
           acc == [k \in 0..n |-> it[1..k]]
<1>1. n \in Nat /\ DOMAIN blocks = 1..n /\ blocks \in V
  OBVIOUS
<1>2. Pool(blocks) = it[1..n]
  BY <1>1 DEF Pool, FoldLeft, MapThenFoldSet
<1>3. \A v \in V : MergeLast(v) \in V
  BY MergeLastType
<1> HIDE DEF n, V
<1>4. step \in [(1..n) \X V -> V]
  BY <1>1, <1>3
<1>5. \A k \in 1..n, v \in V : step[<<k, v>>] = MergeLast(v)
  BY <1>1
<1> HIDE DEF step
<1>6. PICK f : IsFold(f, n, V, blocks, step)
  BY <1>1, <1>3, <1>4, FoldExists
<1>7. f = [t \in SUBSET (1..n) |-> IF t = {} THEN blocks ELSE MergeLast(f[t \ {Max(t)}])]
  <2>1. \A t \in SUBSET (1..n) : t # {} => Max(t) \in 1..n /\ f[t \ {Max(t)}] \in V
    BY <1>1, <1>6, MaxOf DEF IsFold
  <2> QED
    BY <1>5, <1>6, <2>1 DEF IsFold
<1>8. it = [t \in SUBSET (1..n) |-> IF t = {} THEN blocks ELSE MergeLast(it[t \ {Max(t)}])]
  BY <1>7
<1> HIDE DEF it
<1>9. FoldsWhereTyped(it, n, V, blocks, step)
  <2>1. \A t \in SUBSET (1..n) : t # {} => Max(t) \in 1..n
    BY <1>1, MaxOf
  <2> QED
    BY <1>5, <1>8, <2>1 DEF FoldsWhereTyped
<1>10. Runs(acc, n, V, blocks, step)
  BY <1>1, <1>3, <1>4, <1>9, FoldRuns
<1>11. acc[n] = it[1..n]
  BY <1>1
<1> HIDE DEF acc
<1>12. /\ acc \in [0..n -> V] /\ acc[0] = blocks
       /\ \A k \in 1..n : acc[k - 1] \in V /\ acc[k] = MergeLast(acc[k - 1])
  BY <1>5, <1>10 DEF Runs
<1>13. PoolRounds(acc, blocks)
  BY <1>2, <1>11, <1>12 DEF PoolRounds, n, V
<1> QED
  BY <1>13

\* Pool brings blocks that rise but for the last one into order.
LEMMA PoolKeeps ==
    ASSUME NEW n \in Nat, NEW V, NEW W, Sums(V, W, n), NEW k \in 0..n,
           NEW blocks, Tiled(blocks, k, V, W), Rising(blocks, Len(blocks) - 1)
    PROVE  Tiled(Pool(blocks), k, V, W) /\ Rising(Pool(blocks), Len(Pool(blocks)))
<1> DEFINE l == Len(blocks)
<1>1. blocks \in Seq(Block) /\ l \in Nat
  BY DEF Tiled
<1>2. PICK acc : PoolRounds(acc, blocks)
  BY <1>1, PoolRuns
<1> HIDE DEF l
<1>3. /\ acc \in [0..l -> Seq(Block)] /\ acc[0] = blocks /\ Pool(blocks) = acc[l]
      /\ \A i \in 1..l : acc[i - 1] \in Seq(Block) /\ acc[i] = MergeLast(acc[i - 1])
  BY <1>2 DEF PoolRounds, l
<1> DEFINE Good(bs, i) == /\ Tiled(bs, k, V, W) /\ Rising(bs, Len(bs) - 1)
                          /\ Rising(bs, Len(bs)) \/ Len(bs) <= l - i
           T == {i \in 0..l : Good(acc[i], i)}
<1>4. 0 \in T
  BY <1>1, <1>3 DEF l
<1>5. ASSUME NEW i \in 1..l, i - 1 \in T PROVE i \in T
  <2> DEFINE bs == acc[i - 1]
             m == MergeLast(bs)
  <2>1. bs \in Seq(Block) /\ acc[i] = m /\ Good(bs, i - 1) /\ i \in 0..l /\ Len(bs) \in Nat
    BY <1>3, <1>5
  <2>2. Tiled(m, k, V, W)
    BY <2>1, MergeKeepsTiles
  <2> HIDE DEF bs
  <2>3. CASE Settled(bs)
    <3>1. m = bs
      BY <2>1, <2>3, MergeLastIs
    <3>2. Rising(bs, Len(bs))
      <4>1. ASSUME NEW j \in 2..Len(bs) PROVE NotAbove(Mean(bs[j - 1]), Mean(bs[j]))
        <5>1. CASE j = Len(bs)
          BY <2>1, <2>3, <5>1 DEF Settled
        <5>2. CASE j # Len(bs)
          <6>1. j \in 2..(Len(bs) - 1)
            BY <2>1, <5>2
          <6> QED
            BY <2>1, <6>1 DEF Rising
        <5> QED
          BY <5>1, <5>2
      <4> QED
        BY <4>1 DEF Rising
    <3> QED
      BY <2>1, <3>1, <3>2
  <2>4. CASE ~Settled(bs)
    <3>1. LastJoined(m, bs)
      BY <2>1, <2>4, MergeLastIs
    <3> HIDE DEF m
    <3>2. /\ Len(bs) >= 2 /\ Len(m) = Len(bs) - 1 /\ \A j \in 1..(Len(bs) - 2) : m[j] = bs[j]
      BY <3>1 DEF LastJoined
    <3>3. Rising(m, Len(m) - 1)
      <4>1. ASSUME NEW j \in 2..(Len(m) - 1) PROVE NotAbove(Mean(m[j - 1]), Mean(m[j]))
        <5>1. j - 1 \in 1..(Len(bs) - 2) /\ j \in 1..(Len(bs) - 2) /\ j \in 2..(Len(bs) - 1)
          BY <2>1, <3>2
        <5>2. m[j - 1] = bs[j - 1] /\ m[j] = bs[j]
          BY <3>2, <5>1
        <5> QED
          BY <2>1, <5>1, <5>2 DEF Rising
      <4> QED
        BY <4>1 DEF Rising
    <3>4. Len(m) <= l - i
      <4>1. ~Rising(bs, Len(bs))
        <5>1. Len(bs) \in 2..Len(bs)
          BY <2>1, <3>2
        <5> QED
          BY <2>4, <5>1 DEF Rising, Settled
      <4>2. Len(bs) <= l - (i - 1)
        BY <2>1, <4>1
      <4> QED
        BY <1>1, <2>1, <3>2, <4>2
    <3> QED
      BY <2>1, <2>2, <3>3, <3>4
  <2> QED
    BY <2>3, <2>4
<1> HIDE DEF T
<1>6. l \in T
  <2>1. \A i \in 0..l : i \in T
    BY <1>1, <1>4, <1>5, Induct
  <2> QED
    BY <1>1, <2>1
<1>7. Good(acc[l], l) /\ Len(acc[l]) \in Nat
  <2>1. Good(acc[l], l)
    BY <1>6 DEF T
  <2>2. acc[l] \in Seq(Block)
    BY <1>1, <1>3
  <2> QED
    BY <2>1, <2>2
<1>8. Rising(acc[l], Len(acc[l]))
  <2>1. CASE Len(acc[l]) <= l - l
    <3>1. 2..Len(acc[l]) = {}
      BY <1>1, <1>7, <2>1
    <3> QED
      BY <3>1 DEF Rising
  <2> QED
    BY <1>7, <2>1
<1> QED
  BY <1>3, <1>7, <1>8

LEMMA PoolType == ASSUME NEW blocks \in Seq(Block) PROVE Pool(blocks) \in Seq(Block)
<1>1. PICK acc : PoolRounds(acc, blocks)
  BY PoolRuns
<1>2. Len(blocks) \in 0..Len(blocks)
  OBVIOUS
<1> QED
  BY <1>1, <1>2 DEF PoolRounds

Weighted(values, weights) ==
    /\ values \in Seq(Int) /\ weights \in Seq(Nat \ {0}) /\ Len(values) = Len(weights)
Single(values, weights, i) == [size |-> 1, sum |-> values[i] * weights[i], weight |-> weights[i]]
PavNext(bs, values, weights, i) == Pool(Append(bs, Single(values, weights, i)))
Shown(blocks) == FlattenSeq([b \in 1..Len(blocks) |-> [i \in 1..blocks[b].size |-> Mean(blocks[b])]])

LEMMA PavNextType ==
    ASSUME NEW values, NEW weights, Weighted(values, weights),
           NEW bs \in Seq(Block), NEW i \in 1..Len(values)
    PROVE  /\ Single(values, weights, i) \in Block
           /\ PavNext(bs, values, weights, i) \in Seq(Block)
<1>1. values[i] \in Int /\ weights[i] \in Nat \ {0}
  BY DEF Weighted
<1>2. values[i] * weights[i] \in Int
  BY <1>1
<1>3. Single(values, weights, i) \in Block
  BY <1>1, <1>2 DEF Single, Block
<1>4. Append(bs, Single(values, weights, i)) \in Seq(Block)
  BY <1>3
<1> QED
  BY <1>3, <1>4, PoolType DEF PavNext

\* The blocks after each value.
PavRounds(acc, values, weights) ==
    /\ acc \in [0..Len(values) -> Seq(Block)] /\ acc[0] = <<>>
    /\ Pav(values, weights) = Shown(acc[Len(values)])
    /\ \A k \in 1..Len(values) :
          acc[k - 1] \in Seq(Block) /\ acc[k] = PavNext(acc[k - 1], values, weights, k)

LEMMA PavRuns ==
    ASSUME NEW values, NEW weights, Weighted(values, weights)
    PROVE  \E acc : PavRounds(acc, values, weights)
<1> DEFINE n == Len(values)
           V == Seq(Block)
           Next1(v, i) == PavNext(v, values, weights, i)
           order == [i \in 1..n |-> i]
           step == [p \in (1..n) \X V |-> Next1(p[2], p[1])]
           it == CHOOSE f : f = [t \in SUBSET (1..n) |->
                     IF t = {} THEN <<>>
                     ELSE Pool(Append(f[t \ {Max(t)}],
                                      [size |-> 1,
                                       sum |-> values[order[Max(t)]] * weights[order[Max(t)]],
                                       weight |-> weights[order[Max(t)]]]))]
           acc == [k \in 0..n |-> it[1..k]]
<1>1. n \in Nat /\ <<>> \in V
  BY DEF Weighted
<1>2. Pav(values, weights) = Shown(it[1..n])
  <2>1. DOMAIN order = 1..n
    OBVIOUS
  <2> QED
    BY <1>1, <2>1 DEF Pav, Shown, FoldLeft, MapThenFoldSet
<1>3. \A v \in V, i \in 1..n : Next1(v, i) \in V
  BY PavNextType
<1> HIDE DEF n, V, Next1
<1>4. step \in [(1..n) \X V -> V]
  BY <1>3
<1>5. \A k \in 1..n, v \in V : step[<<k, v>>] = Next1(v, k)
  OBVIOUS
<1> HIDE DEF step
<1>6. PICK f : IsFold(f, n, V, <<>>, step)
  BY <1>1, <1>4, FoldExists
<1> DEFINE Same(g) == g = [t \in SUBSET (1..n) |->
                              IF t = {} THEN <<>> ELSE Next1(g[t \ {Max(t)}], Max(t))]
<1>7. Same(f)
  <2>1. ASSUME NEW t \in SUBSET (1..n)
        PROVE  f[t] = IF t = {} THEN <<>> ELSE Next1(f[t \ {Max(t)}], Max(t))
    <3>1. CASE t = {}
      BY <1>6, <3>1 DEF IsFold
    <3>2. CASE t # {}
      <4>1. Max(t) \in 1..n /\ f[t \ {Max(t)}] \in V
        BY <1>1, <1>6, <3>2, MaxOf DEF IsFold
      <4>2. f[t] = step[<<Max(t), f[t \ {Max(t)}]>>]
        BY <1>6, <3>2 DEF IsFold
      <4> QED
        BY <1>5, <3>2, <4>1, <4>2
    <3> QED
      BY <3>1, <3>2
  <2>2. f = [t \in SUBSET (1..n) |-> f[t]]
    BY <1>6 DEF IsFold
  <2> QED
    BY <2>1, <2>2
<1>8. it = CHOOSE g : Same(g)
  <2>1. \A t \in SUBSET (1..n) : t # {} => order[Max(t)] = Max(t)
    BY <1>1, MaxOf
  <2> HIDE DEF order
  <2>2. \A g : [t \in SUBSET (1..n) |->
                  IF t = {} THEN <<>>
                  ELSE Pool(Append(g[t \ {Max(t)}],
                                   [size |-> 1,
                                    sum |-> values[order[Max(t)]] * weights[order[Max(t)]],
                                    weight |-> weights[order[Max(t)]]]))]
             = [t \in SUBSET (1..n) |-> IF t = {} THEN <<>> ELSE Next1(g[t \ {Max(t)}], Max(t))]
    BY <2>1 DEF Next1, PavNext, Single
  <2> QED
    BY <2>2
<1> HIDE DEF it
<1>9. Same(it)
  <2> HIDE DEF Same
  <2> QED
    BY <1>7, <1>8
<1>10. FoldsWhereTyped(it, n, V, <<>>, step)
  <2>1. \A t \in SUBSET (1..n) : t # {} => Max(t) \in 1..n
    BY <1>1, MaxOf
  <2> QED
    BY <1>5, <1>9, <2>1 DEF FoldsWhereTyped
<1>11. Runs(acc, n, V, <<>>, step)
  BY <1>1, <1>4, <1>10, FoldRuns
<1>12. acc[n] = it[1..n]
  BY <1>1
<1> HIDE DEF acc
<1>13. /\ acc \in [0..n -> V] /\ acc[0] = <<>>
       /\ \A k \in 1..n : acc[k - 1] \in V /\ acc[k] = Next1(acc[k - 1], k)
  BY <1>5, <1>11 DEF Runs
<1>14. PavRounds(acc, values, weights)
  BY <1>2, <1>12, <1>13 DEF n, V, Next1, PavRounds
<1> QED
  BY <1>14

\* The weighted sums and the weights of the beginnings.
SumsOf(V, W, values, weights) ==
    /\ Sums(V, W, Len(values)) /\ V[0] = 0 /\ W[0] = 0
    /\ \A k \in 1..Len(values) : V[k] = V[k - 1] + values[k] * weights[k] /\ W[k] = W[k - 1] + weights[k]

LEMMA SumsExist ==
    ASSUME NEW values, NEW weights, Weighted(values, weights)
    PROVE  \E V, W : SumsOf(V, W, values, weights)
<1> DEFINE n == Len(values)
           s == [i \in 1..n |-> values[i] * weights[i]]
<1>1. /\ n \in Nat /\ \A i \in 1..n : values[i] \in Int /\ weights[i] \in Nat \ {0}
      /\ weights \in Seq(Int) /\ Len(weights) = n
  BY DEF Weighted
<1>2. s \in Seq(Int) /\ Len(s) = n
  <2>1. \A i \in 1..n : values[i] * weights[i] \in Int
    BY <1>1
  <2>2. s \in [1..n -> Int]
    BY <2>1
  <2> HIDE DEF s
  <2> QED
    BY <1>1, <2>2, MadeSeq
<1>3. PICK V \in [0..n -> Int] : V[0] = 0 /\ \A k \in 1..n : V[k] = V[k - 1] + s[k]
  <2> HIDE DEF s, n
  <2> QED
    BY <1>2, TotalFold
<1>4. PICK W \in [0..n -> Int] : W[0] = 0 /\ \A k \in 1..n : W[k] = W[k - 1] + weights[k]
  <2> HIDE DEF s, n
  <2> QED
    BY <1>1, TotalFold
<1>5. \A k \in 1..n : s[k] = values[k] * weights[k]
  OBVIOUS
<1> HIDE DEF s, n
<1> DEFINE A == {k \in 0..n : W[k] \in Nat}
<1>6. \A k \in 0..n : k \in A
  <2>1. 0 \in A
    BY <1>1, <1>4
  <2>2. ASSUME NEW k \in 1..n, k - 1 \in A PROVE k \in A
    <3>1. W[k - 1] \in Nat /\ W[k] = W[k - 1] + weights[k] /\ weights[k] \in Nat /\ k \in 0..n
      BY <1>1, <1>4, <2>2
    <3> QED
      BY <3>1
  <2> HIDE DEF A
  <2> QED
    BY <1>1, <2>1, <2>2, Induct
<1>7. ASSUME NEW p \in 0..n, NEW q \in 0..n, p <= q PROVE W[p] <= W[q]
  <2> DEFINE T == {k \in 0..n : p <= k => W[p] <= W[k]}
  <2>1. \A k \in 0..n : k \in T
    <3>1. 0 \in T
      <4>1. p <= 0 => p = 0
        BY <1>1
      <4>2. W[p] <= W[p] /\ 0 \in 0..n
        BY <1>1, <1>6
      <4> QED
        BY <4>1, <4>2
    <3>2. ASSUME NEW k \in 1..n, k - 1 \in T PROVE k \in T
      <4>1. W[k] = W[k - 1] + weights[k] /\ weights[k] \in Nat /\ k \in 0..n /\ k - 1 \in 0..n
        BY <1>1, <1>4
      <4>2. W[k - 1] \in Nat /\ W[p] \in Nat /\ W[k] \in Nat
        BY <1>6, <4>1
      <4>3. CASE p = k
        BY <4>1, <4>2, <4>3
      <4>4. CASE p # k
        <5>1. p <= k => p <= k - 1
          BY <1>1, <4>4
        <5>2. p <= k - 1 => W[p] <= W[k - 1]
          BY <3>2
        <5>3. W[k - 1] <= W[k]
          BY <4>1, <4>2
        <5> QED
          BY <4>1, <4>2, <5>1, <5>2, <5>3
      <4> QED
        BY <4>3, <4>4
    <3> HIDE DEF T
    <3> QED
      BY <1>1, <3>1, <3>2, Induct
  <2>2. q \in T
    BY <2>1
  <2> QED
    BY <1>7, <2>2
<1>8. W \in [0..n -> Nat]
  BY <1>4, <1>6
<1>9. Sums(V, W, n)
  BY <1>3, <1>7, <1>8 DEF Sums
<1>10. SumsOf(V, W, values, weights)
  BY <1>3, <1>4, <1>5, <1>9 DEF SumsOf, n
<1> QED
  BY <1>10

LEMMA SingleBlock ==
    ASSUME NEW values, NEW weights, Weighted(values, weights), NEW V, NEW W,
           SumsOf(V, W, values, weights), NEW k \in 1..Len(values)
    PROVE  IsBlock(Single(values, weights, k), k - 1, k, V, W)
<1> DEFINE s == values[k] * weights[k]
           w == weights[k]
<1>1. values[k] \in Int /\ weights[k] \in Nat \ {0}
  BY DEF Weighted
<1>2. s \in Int /\ w \in Nat \ {0}
  BY <1>1
<1>3. /\ V[k] \in Int /\ V[k - 1] \in Int /\ W[k] \in Int /\ W[k - 1] \in Int
      /\ V[k] = V[k - 1] + s /\ W[k] = W[k - 1] + w
  <2>1. k \in 0..Len(values) /\ k - 1 \in 0..Len(values)
    BY DEF Weighted
  <2> QED
    BY <2>1 DEF SumsOf, Sums
<1>4. Single(values, weights, k) = [size |-> 1, sum |-> s, weight |-> w]
  BY DEF Single
<1> HIDE DEF s, w
<1>5. ASSUME NEW p \in (k - 1)..k PROVE s * (W[p] - W[k - 1]) <= (V[p] - V[k - 1]) * w
  <2>1. CASE p = k
    <3>1. W[p] - W[k - 1] = w /\ V[p] - V[k - 1] = s /\ s * w \in Int
      BY <1>2, <1>3, <2>1
    <3> QED
      BY <3>1
  <2>2. CASE p = k - 1
    <3>1. W[p] - W[k - 1] = 0 /\ V[p] - V[k - 1] = 0 /\ s * 0 = 0 /\ 0 * w = 0
      BY <1>2, <1>3, <2>2
    <3> QED
      BY <3>1
  <2>3. p = k \/ p = k - 1
    OBVIOUS
  <2> QED
    BY <2>1, <2>2, <2>3
<1>6. s = V[k] - V[k - 1] /\ w = W[k] - W[k - 1] /\ k = (k - 1) + 1
  BY <1>2, <1>3
<1> QED
  BY <1>2, <1>4, <1>5, <1>6 DEF IsBlock, Block

\* One more value, as a block of its own.
LEMMA SingleTiled ==
    ASSUME NEW values, NEW weights, Weighted(values, weights), NEW V, NEW W,
           SumsOf(V, W, values, weights), NEW k \in 1..Len(values),
           NEW bs, Tiled(bs, k - 1, V, W), Rising(bs, Len(bs))
    PROVE  LET all == Append(bs, Single(values, weights, k))
           IN  Tiled(all, k, V, W) /\ Rising(all, Len(all) - 1)
<1> DEFINE one == Single(values, weights, k)
           all == Append(bs, one)
           l == Len(bs)
<1>1. bs \in Seq(Block) /\ l \in Nat /\ Len(values) \in Nat
  BY DEF Tiled, Weighted
<1>2. PICK E : Tiles(bs, E, k - 1, V, W)
  BY DEF Tiled
<1>3. one \in Block /\ IsBlock(one, k - 1, k, V, W)
  BY SingleBlock DEF IsBlock
<1> HIDE DEF one
<1>4. /\ all \in Seq(Block) /\ Len(all) = l + 1 /\ all[l + 1] = one
      /\ \A i \in 1..l : all[i] = bs[i]
  BY <1>1, <1>3
<1> HIDE DEF all, l
<1>5. /\ E \in [0..l -> 0..(k - 1)] /\ E[0] = 0 /\ E[l] = k - 1
      /\ \A j \in 1..l : IsBlock(bs[j], E[j - 1], E[j], V, W)
  BY <1>2 DEF Tiles, l
<1> DEFINE F == [j \in 0..(l + 1) |-> IF j = l + 1 THEN k ELSE E[j]]
<1>6. \A j \in 0..l : F[j] = E[j]
  BY <1>1
<1>7. F[l + 1] = k /\ F \in [0..(l + 1) -> 0..k]
  BY <1>1, <1>5
<1> HIDE DEF F
<1>8. ASSUME NEW j \in 1..(l + 1) PROVE IsBlock(all[j], F[j - 1], F[j], V, W)
  <2>1. CASE j \in 1..l
    <3>1. j - 1 \in 0..l /\ j \in 0..l
      BY <1>1, <2>1
    <3> QED
      BY <1>4, <1>5, <1>6, <2>1, <3>1
  <2>2. CASE j = l + 1
    <3>1. j - 1 = l /\ l \in 0..l
      BY <1>1, <2>2
    <3> QED
      BY <1>3, <1>4, <1>5, <1>6, <1>7, <2>2, <3>1
  <2> QED
    BY <1>1, <2>1, <2>2
<1>9. F[0] = 0
  <2>1. 0 \in 0..l
    BY <1>1
  <2> QED
    BY <1>5, <1>6, <2>1
<1>10. Tiles(all, F, k, V, W)
  BY <1>4, <1>7, <1>8, <1>9 DEF Tiles
<1>11. Rising(all, Len(all) - 1)
  <2>1. ASSUME NEW j \in 2..(Len(all) - 1) PROVE NotAbove(Mean(all[j - 1]), Mean(all[j]))
    <3>1. j \in 2..l /\ j - 1 \in 1..l /\ j \in 1..l
      BY <1>1, <1>4
    <3> QED
      BY <1>4, <3>1 DEF Rising, l
  <2> QED
    BY <2>1 DEF Rising
<1> QED
  BY <1>4, <1>10, <1>11 DEF Tiled, all, one

LEMMA PavTiled ==
    ASSUME NEW values, NEW weights, Weighted(values, weights), NEW V, NEW W,
           SumsOf(V, W, values, weights)
    PROVE  \E bs : /\ Tiled(bs, Len(values), V, W) /\ Rising(bs, Len(bs))
                   /\ Pav(values, weights) = Shown(bs)
<1> DEFINE n == Len(values)
<1>1. n \in Nat /\ Sums(V, W, n)
  BY DEF Weighted, SumsOf
<1>2. PICK acc : PavRounds(acc, values, weights)
  BY PavRuns
<1>3. /\ acc[0] = <<>> /\ Pav(values, weights) = Shown(acc[n])
      /\ \A k \in 1..n : acc[k] = PavNext(acc[k - 1], values, weights, k)
  BY <1>2 DEF PavRounds
<1> DEFINE T == {k \in 0..n : Tiled(acc[k], k, V, W) /\ Rising(acc[k], Len(acc[k]))}
<1>4. 0 \in T
  <2>1. Len(<<>>) = 0 /\ <<>> \in Seq(Block)
    OBVIOUS
  <2>2. Tiles(<<>>, [j \in 0..0 |-> 0], 0, V, W)
    <3>1. 1..0 = {} /\ [j \in 0..0 |-> 0] \in [0..0 -> 0..0] /\ [j \in 0..0 |-> 0][0] = 0
      OBVIOUS
    <3> QED
      BY <2>1, <3>1 DEF Tiles
  <2>3. Rising(<<>>, Len(<<>>))
    BY <2>1 DEF Rising
  <2>4. Tiled(<<>>, 0, V, W)
    BY <2>1, <2>2 DEF Tiled
  <2>5. 0 \in 0..n
    BY <1>1
  <2> QED
    BY <1>3, <2>3, <2>4, <2>5
<1>5. ASSUME NEW k \in 1..n, k - 1 \in T PROVE k \in T
  <2> DEFINE all == Append(acc[k - 1], Single(values, weights, k))
  <2>1. Tiled(acc[k - 1], k - 1, V, W) /\ Rising(acc[k - 1], Len(acc[k - 1]))
    BY <1>5
  <2>2. Tiled(all, k, V, W) /\ Rising(all, Len(all) - 1)
    BY <2>1, SingleTiled
  <2>3. acc[k] = Pool(all) /\ k \in 0..n
    BY <1>1, <1>3 DEF PavNext
  <2> HIDE DEF all, n
  <2>4. Tiled(Pool(all), k, V, W) /\ Rising(Pool(all), Len(Pool(all)))
    BY <1>1, <2>2, <2>3, PoolKeeps
  <2> QED
    BY <2>3, <2>4
<1> HIDE DEF T
<1>6. n \in T
  <2>1. \A k \in 0..n : k \in T
    BY <1>1, <1>4, <1>5, Induct
  <2> QED
    BY <1>1, <2>1
<1> QED
  BY <1>3, <1>6 DEF T

-----------------------------------------------------------------------------
(* What _pav returns *)

Fraction == [n : Int, d : Nat \ {0}]

LEMMA MeanType == ASSUME NEW b \in Block PROVE Mean(b) \in Fraction
BY DEF Mean, Block, Fraction

LEMMA EndsRise ==
    ASSUME NEW bs \in Seq(Block), NEW E, NEW V, NEW W, NEW k \in Nat, Tiles(bs, E, k, V, W)
    PROVE  \A i \in 0..Len(bs) : \A j \in i..Len(bs) : E[i] <= E[j]
<1> DEFINE l == Len(bs)
<1>1. l \in Nat /\ \A j \in 1..l : bs[j] \in Block
  OBVIOUS
<1>2. \A j \in 0..l : E[j] \in 0..k
  BY DEF Tiles
<1>3. \A j \in 1..l : E[j] = E[j - 1] + bs[j].size /\ bs[j].size \in Nat
  BY DEF Tiles, IsBlock, Block
<1> HIDE DEF l
<1>4. ASSUME NEW i \in 0..l, NEW j \in i..l PROVE E[i] <= E[j]
  <2> DEFINE T == {q \in 0..l : i <= q => E[i] <= E[q]}
  <2>1. E[i] \in Nat
    BY <1>2
  <2>2. 0 \in T
    <3>1. i <= 0 => i = 0
      BY <1>1
    <3>2. 0 \in 0..l
      BY <1>1
    <3> QED
      BY <2>1, <3>1, <3>2
  <2>3. ASSUME NEW q \in 1..l, q - 1 \in T PROVE q \in T
    <3>1. q \in 0..l /\ q - 1 \in 0..l
      BY <1>1
    <3>2. E[q] \in Nat /\ E[q - 1] \in Nat /\ E[q - 1] <= E[q]
      <4>1. E[q] \in Nat /\ E[q - 1] \in Nat
        BY <1>2, <3>1
      <4>2. E[q - 1] <= E[q]
        <5> DEFINE x == E[q - 1]
                   y == E[q]
                   z == bs[q].size
        <5>1. x \in Nat /\ z \in Nat /\ y = x + z
          BY <1>3, <4>1
        <5> HIDE DEF x, y, z
        <5>2. x <= y
          BY <5>1
        <5> QED
          BY <5>2 DEF x, y
      <4> QED
        BY <4>1, <4>2
    <3>3. i <= q - 1 => E[i] <= E[q - 1]
      BY <2>3
    <3>4. i <= q => i <= q - 1 \/ i = q
      BY <1>1
    <3>5. i <= q => E[i] <= E[q]
      BY <2>1, <3>2, <3>3, <3>4
    <3> QED
      BY <3>1, <3>5
  <2> HIDE DEF T
  <2>4. j \in T /\ i <= j
    <3>1. j \in 0..l /\ i <= j
      BY <1>1
    <3> QED
      BY <1>1, <2>2, <2>3, <3>1, Induct
  <2> QED
    BY <2>4 DEF T
<1> QED
  BY <1>4 DEF l

\* Every value lies in one of the blocks.
LEMMA InBlock ==
    ASSUME NEW bs, NEW E, NEW V, NEW W, NEW k \in Nat, bs \in Seq(Block), Tiles(bs, E, k, V, W)
    PROVE  \A i \in 1..k : \E j \in 1..Len(bs) : i \in (E[j - 1] + 1)..E[j]
<1> DEFINE l == Len(bs)
           T == {m \in 0..l : \A i \in 1..E[m] : \E j \in 1..m : i \in (E[j - 1] + 1)..E[j]}
<1>1. /\ l \in Nat /\ E[0] = 0 /\ E[l] = k /\ \A j \in 0..l : E[j] \in 0..k
  BY DEF Tiles
<1> HIDE DEF l
<1>2. \A m \in 0..l : m \in T
  <2>1. 0 \in T
    BY <1>1
  <2>2. ASSUME NEW m \in 1..l, m - 1 \in T PROVE m \in T
    <3>1. m \in 0..l /\ m - 1 \in 0..l /\ E[m] \in Nat /\ E[m - 1] \in Nat
      BY <1>1
    <3>2. ASSUME NEW i \in 1..E[m] PROVE \E j \in 1..m : i \in (E[j - 1] + 1)..E[j]
      <4>1. CASE i \in 1..E[m - 1]
        <5>1. PICK j \in 1..(m - 1) : i \in (E[j - 1] + 1)..E[j]
          BY <2>2, <4>1
        <5>2. j \in 1..m
          BY <3>1
        <5> QED
          BY <5>1, <5>2
      <4>2. CASE i \notin 1..E[m - 1]
        <5>1. i \in (E[m - 1] + 1)..E[m] /\ m \in 1..m
          BY <3>1, <4>2
        <5> QED
          BY <5>1
      <4> QED
        BY <4>1, <4>2
    <3> QED
      BY <3>1, <3>2
  <2> HIDE DEF T
  <2> QED
    BY <1>1, <2>1, <2>2, Induct
<1>3. l \in T
  BY <1>1, <1>2
<1> QED
  BY <1>1, <1>3 DEF l

\* Each value becomes the mean of its block.
LEMMA ShownValues ==
    ASSUME NEW bs, NEW E, NEW V, NEW W, NEW k \in Nat, bs \in Seq(Block), Tiles(bs, E, k, V, W)
    PROVE  /\ Shown(bs) \in Seq(Fraction) /\ Len(Shown(bs)) = k
           /\ \A j \in 1..Len(bs) : \A i \in (E[j - 1] + 1)..E[j] : Shown(bs)[i] = Mean(bs[j])
<1> DEFINE l == Len(bs)
           ss == [b \in 1..l |-> [i \in 1..bs[b].size |-> Mean(bs[b])]]
<1>1. /\ l \in Nat /\ E[0] = 0 /\ E[l] = k /\ \A j \in 0..l : E[j] \in 0..k
      /\ \A j \in 1..l : bs[j] \in Block /\ IsBlock(bs[j], E[j - 1], E[j], V, W)
  <2>1. l \in Nat /\ \A j \in 1..l : bs[j] \in Block
    OBVIOUS
  <2>2. E \in [0..l -> 0..k] /\ E[0] = 0 /\ E[l] = k /\ \A j \in 1..l : IsBlock(bs[j], E[j - 1], E[j], V, W)
    BY DEF Tiles
  <2> HIDE DEF l
  <2> QED
    BY <2>1, <2>2
<1>2. \A j \in 1..l : bs[j].size \in Nat /\ E[j] = E[j - 1] + bs[j].size /\ Mean(bs[j]) \in Fraction
  BY <1>1, MeanType DEF IsBlock, Block
<1>3. \A j \in 1..l : /\ ss[j] \in Seq(Fraction) /\ Len(ss[j]) = bs[j].size
                      /\ \A i \in 1..bs[j].size : ss[j][i] = Mean(bs[j])
  <2>1. ASSUME NEW j \in 1..l
        PROVE  /\ ss[j] \in Seq(Fraction) /\ Len(ss[j]) = bs[j].size
               /\ \A i \in 1..bs[j].size : ss[j][i] = Mean(bs[j])
    <3> DEFINE m == bs[j].size
               v == Mean(bs[j])
    <3>1. m \in Nat /\ v \in Fraction /\ ss[j] = [i \in 1..m |-> v]
      BY <1>2
    <3> HIDE DEF m, v, ss
    <3>2. ss[j] \in [1..m -> Fraction]
      BY <3>1
    <3>3. ss[j] \in Seq(Fraction) /\ Len(ss[j]) = m
      BY <3>1, <3>2, MadeSeq
    <3>4. \A i \in 1..m : ss[j][i] = v
      BY <3>1
    <3> QED
      BY <3>3, <3>4 DEF m, v
  <2> QED
    BY <2>1
<1>4. ss \in Seq(Seq(Fraction)) /\ Len(ss) = l
  <2>1. ss \in [1..l -> Seq(Fraction)]
    BY <1>3
  <2> HIDE DEF ss, l
  <2> QED
    BY <1>1, <2>1, MadeSeq
<1>5. Shown(bs) = FlattenSeq(ss)
  BY DEF Shown
<1>12. \A i \in 0..l : \A j \in i..l : E[i] <= E[j]
  BY EndsRise
<1> HIDE DEF ss, l
<1>6. PICK a : Flattens(a, ss, Fraction)
  BY <1>4, FlattenRuns
<1>7. /\ a \in [0..l -> Seq(Fraction)] /\ a[0] = <<>> /\ FlattenSeq(ss) = a[l]
      /\ \A j \in 1..l : a[j - 1] \in Seq(Fraction) /\ a[j] = a[j - 1] \o ss[j]
  BY <1>4, <1>6 DEF Flattens
<1> DEFINE Right(m) == /\ Len(a[m]) = E[m]
                       /\ \A j \in 1..m : \A i \in (E[j - 1] + 1)..E[j] : a[m][i] = Mean(bs[j])
           T == {m \in 0..l : Right(m)}
<1>8. 0 \in T
  BY <1>1, <1>7
<1>9. ASSUME NEW m \in 1..l, m - 1 \in T PROVE m \in T
  <2>1. /\ m \in 0..l /\ m - 1 \in 0..l /\ E[m] \in Nat /\ E[m - 1] \in Nat /\ Right(m - 1)
        /\ E[m] = E[m - 1] + bs[m].size /\ bs[m].size \in Nat
    BY <1>1, <1>2, <1>9
  <2>2. /\ a[m - 1] \in Seq(Fraction) /\ ss[m] \in Seq(Fraction) /\ a[m] = a[m - 1] \o ss[m]
        /\ Len(ss[m]) = bs[m].size /\ Len(a[m - 1]) = E[m - 1]
    BY <1>3, <1>7, <2>1
  <2>3. Joins(a[m], a[m - 1], ss[m])
    BY <2>2, Joined
  <2>4. Len(a[m]) = E[m]
    BY <2>1, <2>2, <2>3 DEF Joins
  <2>5. ASSUME NEW j \in 1..m, NEW i \in (E[j - 1] + 1)..E[j] PROVE a[m][i] = Mean(bs[j])
    <3>1. CASE j \in 1..(m - 1)
      <4>1. a[m - 1][i] = Mean(bs[j])
        BY <2>1, <3>1
      <4>2. i \in 1..E[m - 1]
        <5>1. j \in 0..l /\ j - 1 \in 0..l
          BY <1>1, <3>1
        <5>2. E[j - 1] \in Nat /\ E[j] \in Nat
          BY <1>1, <5>1
        <5>3. E[j] <= E[m - 1]
          <6>1. m - 1 \in j..l
            BY <2>1, <3>1
          <6> QED
            BY <1>12, <5>1, <6>1
        <5> QED
          BY <2>1, <5>2, <5>3
      <4>3. a[m][i] = a[m - 1][i]
        BY <2>2, <2>3, <4>2 DEF Joins
      <4> QED
        BY <4>1, <4>3
    <3>2. CASE j = m
      <4>1. i - E[m - 1] \in 1..bs[m].size /\ E[m - 1] + (i - E[m - 1]) = i
        <5> DEFINE e == E[m - 1]
                   z == bs[m].size
        <5>1. e \in Nat /\ z \in Nat /\ i \in (e + 1)..(e + z)
          BY <2>1, <3>2
        <5> HIDE DEF e, z
        <5>2. i - e \in 1..z /\ e + (i - e) = i
          BY <5>1
        <5> QED
          BY <5>2 DEF e, z
      <4>2. a[m][E[m - 1] + (i - E[m - 1])] = ss[m][i - E[m - 1]]
        BY <2>2, <2>3, <4>1 DEF Joins
      <4>3. ss[m][i - E[m - 1]] = Mean(bs[m])
        BY <1>3, <4>1
      <4> QED
        BY <3>2, <4>1, <4>2, <4>3
    <3> QED
      BY <2>1, <3>1, <3>2
  <2> QED
    BY <2>1, <2>4, <2>5
<1> HIDE DEF T
<1>10. l \in T
  <2>1. \A m \in 0..l : m \in T
    BY <1>1, <1>8, <1>9, Induct
  <2> QED
    BY <1>1, <2>1
<1>11. Right(l) /\ a[l] \in Seq(Fraction)
  <2>1. Right(l)
    BY <1>10 DEF T
  <2>2. l \in 0..l
    BY <1>1
  <2> QED
    BY <1>7, <2>1, <2>2
<1> QED
  BY <1>1, <1>5, <1>7, <1>11 DEF l

LEMMA NotAboveFollows ==
    ASSUME NEW a \in Fraction, NEW b \in Fraction, NEW c \in Fraction, NotAbove(a, b), NotAbove(b, c)
    PROVE  NotAbove(a, c)
<1>1. /\ a.n \in Int /\ a.d \in Nat \ {0} /\ b.n \in Int /\ b.d \in Nat \ {0}
      /\ c.n \in Int /\ c.d \in Nat \ {0} /\ c.d \in Nat
      /\ a.n * b.d <= b.n * a.d /\ b.n * c.d <= c.n * b.d
  BY DEF Fraction, NotAbove
<1>2. a.n * c.d <= c.n * a.d
  BY <1>1, MeansFollow
<1> QED
  BY <1>2 DEF NotAbove

LEMMA NotAboveTotal ==
    ASSUME NEW a \in Fraction, NEW b \in Fraction
    PROVE  NotAbove(a, a) /\ (NotAbove(a, b) \/ NotAbove(b, a))
<1>1. a.n * b.d \in Int /\ b.n * a.d \in Int /\ a.n * a.d \in Int
  BY DEF Fraction
<1> QED
  BY <1>1 DEF NotAbove

\* The means of any two blocks are in order.
LEMMA RisingBlocks ==
    ASSUME NEW bs \in Seq(Block), Rising(bs, Len(bs)), NEW i \in 1..Len(bs)
    PROVE  \A j \in i..Len(bs) : NotAbove(Mean(bs[i]), Mean(bs[j]))
<1> DEFINE l == Len(bs)
           T == {j \in 0..l : i <= j => NotAbove(Mean(bs[i]), Mean(bs[j]))}
<1>1. l \in Nat /\ \A j \in 1..l : bs[j] \in Block /\ Mean(bs[j]) \in Fraction
  BY MeanType
<1>2. \A j \in 2..l : NotAbove(Mean(bs[j - 1]), Mean(bs[j]))
  BY DEF Rising
<1> HIDE DEF l
<1>3. i \in 1..l
  BY DEF l
<1>4. \A j \in 0..l : j \in T
  <2>1. 0 \in T
    BY <1>1, <1>3
  <2>2. ASSUME NEW j \in 1..l, j - 1 \in T PROVE j \in T
    <3>1. j \in 0..l
      BY <1>1
    <3>2. CASE i = j
      <4>1. NotAbove(Mean(bs[i]), Mean(bs[j]))
        BY <1>1, <3>2, NotAboveTotal
      <4> QED
        BY <3>1, <4>1
    <3>3. CASE i # j
      <4> SUFFICES ASSUME i <= j PROVE NotAbove(Mean(bs[i]), Mean(bs[j]))
        BY <3>1
      <4>1. i <= j - 1 /\ j \in 2..l /\ j - 1 \in 1..l
        BY <1>1, <1>3, <3>3
      <4>2. NotAbove(Mean(bs[i]), Mean(bs[j - 1])) /\ NotAbove(Mean(bs[j - 1]), Mean(bs[j]))
        BY <1>2, <2>2, <4>1
      <4> QED
        BY <1>1, <1>3, <4>1, <4>2, NotAboveFollows
    <3> QED
      BY <3>2, <3>3
  <2> HIDE DEF T
  <2> QED
    BY <1>1, <2>1, <2>2, Induct
<1> QED
  BY <1>1, <1>3, <1>4 DEF l

\* The values after p up to q have a mean that is not below, or not above, that of block c.
NotBelowBlock(c, p, q, V, W) == c.sum * (W[q] - W[p]) <= (V[q] - V[p]) * c.weight
NotAboveBlock(c, p, q, V, W) == (V[q] - V[p]) * c.weight <= c.sum * (W[q] - W[p])

LEMMA BlocksAdd ==
    ASSUME NEW n \in Nat, NEW V, NEW W, Sums(V, W, n), NEW c \in Block,
           NEW p \in 0..n, NEW q \in 0..n, NEW r \in 0..n
    PROVE  /\ NotBelowBlock(c, p, q, V, W) /\ NotBelowBlock(c, q, r, V, W) => NotBelowBlock(c, p, r, V, W)
           /\ NotAboveBlock(c, p, q, V, W) /\ NotAboveBlock(c, q, r, V, W) => NotAboveBlock(c, p, r, V, W)
<1> DEFINE s == c.sum
           w == c.weight
           x == V[q] - V[p]
           y == V[r] - V[q]
           a == W[q] - W[p]
           b == W[r] - W[q]
<1>0. /\ V[p] \in Int /\ V[q] \in Int /\ V[r] \in Int
      /\ W[p] \in Nat /\ W[q] \in Nat /\ W[r] \in Nat
  BY DEF Sums
<1>1. /\ s \in Int /\ w \in Int /\ x \in Int /\ y \in Int /\ a \in Int /\ b \in Int
      /\ V[r] - V[p] = x + y /\ W[r] - W[p] = a + b
  <2>1. s \in Int /\ w \in Int
    BY DEF Block
  <2> QED
    BY <1>0, <2>1
<1> HIDE DEF s, w, x, y, a, b
<1>2. /\ s * (a + b) = s * a + s * b /\ (x + y) * w = x * w + y * w
      /\ s * a \in Int /\ s * b \in Int /\ x * w \in Int /\ y * w \in Int
  BY <1>1, TimesDistributes
<1>3. /\ s * a <= x * w /\ s * b <= y * w => s * (a + b) <= (x + y) * w
      /\ x * w <= s * a /\ y * w <= s * b => (x + y) * w <= s * (a + b)
  <2>1. \A k, l, m, o \in Int : k <= m /\ l <= o => k + l <= m + o
    OBVIOUS
  <2> QED
    BY <1>2, <2>1, Zenon
<1> QED
  BY <1>1, <1>3, Zenon DEF NotBelowBlock, NotAboveBlock, s, w, x, y, a, b

\* Of a block e that is not below c no beginning is, and of one not above c no rest is.
LEMMA BlockParts ==
    ASSUME NEW n \in Nat, NEW V, NEW W, Sums(V, W, n), NEW c \in Block, NEW e,
           NEW lo \in 0..n, NEW hi \in 0..n, IsBlock(e, lo, hi, V, W), NEW p \in lo..hi
    PROVE  /\ NotAbove(Mean(c), Mean(e)) => NotBelowBlock(c, lo, p, V, W)
           /\ NotAbove(Mean(e), Mean(c)) => NotAboveBlock(c, p, hi, V, W)
<1> DEFINE x == V[p] - V[lo]
           y == W[p] - W[lo]
           s == e.sum
           w == e.weight
<1>1. /\ c.sum \in Int /\ c.weight \in Nat \ {0} /\ s \in Int /\ w \in Nat \ {0}
      /\ s = V[hi] - V[lo] /\ w = W[hi] - W[lo] /\ s * y <= x * w
  BY DEF IsBlock, Block
<1>2. /\ x \in Int /\ y \in Nat /\ s - x = V[hi] - V[p] /\ w - y = W[hi] - W[p]
      /\ s - x \in Int /\ w - y \in Nat
  <2>1. p \in 0..n /\ lo <= p /\ p <= hi
    OBVIOUS
  <2>2. /\ V[p] \in Int /\ V[lo] \in Int /\ V[hi] \in Int /\ W[p] \in Nat /\ W[lo] \in Nat
        /\ W[hi] \in Nat /\ W[lo] <= W[p] /\ W[p] <= W[hi]
    BY <2>1 DEF Sums
  <2> QED
    BY <1>1, <2>2
<1>3. NotAbove(Mean(c), Mean(e)) <=> c.sum * w <= s * c.weight
  BY DEF NotAbove, Mean
<1>4. NotAbove(Mean(e), Mean(c)) <=> s * c.weight <= c.sum * w
  BY DEF NotAbove, Mean
<1>5. NotBelowBlock(c, lo, p, V, W) <=> c.sum * y <= x * c.weight
  BY DEF NotBelowBlock
<1>6. NotAboveBlock(c, p, hi, V, W) <=> (s - x) * c.weight <= c.sum * (w - y)
  BY <1>2 DEF NotAboveBlock
<1> HIDE DEF x, y, s, w
<1>7. (s - x) * w <= s * (w - y)
  BY <1>1, <1>2, RestOfMean, w \in Int, y \in Int
<1> DEFINE cs == c.sum
           cw == c.weight
<1>8. cs \in Int /\ cw \in Nat \ {0} /\ s \in Int /\ w \in Nat \ {0} /\ s * y <= x * w
  BY <1>1
<1> HIDE DEF cs, cw
<1>9. ASSUME cs * w <= s * cw PROVE cs * y <= x * cw
  BY <1>2, <1>8, <1>9, MeansFollow
<1>10. ASSUME s * cw <= cs * w PROVE (s - x) * cw <= cs * (w - y)
  BY <1>2, <1>7, <1>8, <1>10, MeansLead
<1> QED
  BY <1>3, <1>4, <1>5, <1>6, <1>9, <1>10 DEF cs, cw

\* From the start of a block no mean is below its own, and up to its end none is above.
LEMMA BlockSeparates ==
    ASSUME NEW n \in Nat, NEW V, NEW W, Sums(V, W, n), NEW bs \in Seq(Block), NEW E,
           Tiles(bs, E, n, V, W), Rising(bs, Len(bs)), NEW j \in 1..Len(bs)
    PROVE  /\ \A q \in E[j - 1]..n : NotBelowBlock(bs[j], E[j - 1], q, V, W)
           /\ \A p \in 0..E[j] : NotAboveBlock(bs[j], p, E[j], V, W)
<1> DEFINE l == Len(bs)
           c == bs[j]
<1>1. /\ l \in Nat /\ E[0] = 0 /\ E[l] = n /\ \A m \in 0..l : E[m] \in 0..n
      /\ \A m \in 1..l : bs[m] \in Block /\ IsBlock(bs[m], E[m - 1], E[m], V, W)
  <2>1. l \in Nat /\ \A m \in 1..l : bs[m] \in Block
    OBVIOUS
  <2> QED
    BY <2>1 DEF Tiles
<1>2. /\ j \in 1..l /\ c \in Block
      /\ \A m \in j..l : NotAbove(Mean(c), Mean(bs[m]))
      /\ \A m \in 1..j : NotAbove(Mean(bs[m]), Mean(c))
  <2>1. \A m \in 1..l : \A o \in m..l : NotAbove(Mean(bs[m]), Mean(bs[o]))
    BY RisingBlocks
  <2>2. \A m \in 1..j : m \in 1..l /\ j \in m..l
    BY <1>1
  <2> QED
    BY <1>1, <2>1, <2>2
<1> HIDE DEF l, c
<1>3. /\ \A m \in 1..l : E[m - 1] \in 0..n /\ E[m] \in 0..n /\ E[m - 1] <= E[m]
      /\ \A m \in 0..l : \A o \in m..l : E[m] <= E[o]
  <2>1. \A m \in 0..l : \A o \in m..l : E[m] <= E[o]
    BY EndsRise DEF l
  <2>2. \A m \in 1..l : m - 1 \in 0..l /\ m \in 0..l /\ m \in (m - 1)..l
    BY <1>1
  <2>3. \A m \in 1..l : E[m - 1] <= E[m]
    BY <2>1, <2>2
  <2> QED
    BY <1>1, <2>1, <2>2, <2>3
<1>4. \A q \in E[j - 1]..n : NotBelowBlock(c, E[j - 1], q, V, W)
  <2> DEFINE lo == E[j - 1]
             T == {m \in 0..l : j - 1 <= m => \A q \in lo..E[m] : NotBelowBlock(c, lo, q, V, W)}
  <2>1. lo \in 0..n
    BY <1>2, <1>3
  <2>2. NotBelowBlock(c, lo, lo, V, W)
    <3>1. j \in j..l /\ lo \in lo..E[j]
      BY <1>1, <1>2, <1>3
    <3> QED
      BY <1>1, <1>2, <1>3, <3>1, BlockParts
  <2>3. \A m \in 0..l : m \in T
    <3>1. 0 \in T
      <4>1. j - 1 <= 0 => j - 1 = 0
        BY <1>1, <1>2
      <4>2. j - 1 = 0 => \A q \in lo..E[0] : q = lo
        BY <1>1, <2>1
      <4>3. 0 \in 0..l
        BY <1>1
      <4> HIDE DEF lo
      <4> QED
        BY <2>2, <4>1, <4>2, <4>3
    <3>2. ASSUME NEW m \in 1..l, m - 1 \in T PROVE m \in T
      <4>1. m \in 0..l
        BY <1>1
      <4>2. CASE m < j
        <5>1. j - 1 <= m => m = j - 1
          BY <1>1, <1>2, <4>2
        <5>2. m = j - 1 => \A q \in lo..E[m] : q = lo
          BY <2>1
        <5> HIDE DEF lo
        <5> QED
          BY <2>2, <4>1, <5>1, <5>2
      <4>3. CASE ~(m < j)
        <5> SUFFICES ASSUME NEW q \in lo..E[m] PROVE NotBelowBlock(c, lo, q, V, W)
          BY <4>1
        <5>1. m \in j..l /\ j - 1 <= m - 1 /\ E[m - 1] \in 0..n /\ E[m] \in 0..n
          BY <1>1, <1>2, <1>3, <4>3
        <5>2. \A r \in lo..E[m - 1] : NotBelowBlock(c, lo, r, V, W)
          BY <3>2, <5>1
        <5> HIDE DEF lo
        <5>3. CASE q <= E[m - 1]
          <6>1. q \in lo..E[m - 1]
            BY <2>1, <5>1, <5>3
          <6> QED
            BY <5>2, <6>1
        <5>4. CASE ~(q <= E[m - 1])
          <6>1. q \in E[m - 1]..E[m] /\ q \in 0..n
            BY <2>1, <5>1, <5>4
          <6>2. NotBelowBlock(c, E[m - 1], q, V, W)
            BY <1>1, <1>2, <5>1, <6>1, BlockParts
          <6>3. NotBelowBlock(c, lo, E[m - 1], V, W)
            <7>1. CASE m = j
              BY <2>2, <7>1 DEF lo
            <7>2. CASE m # j
              <8>1. lo <= E[m - 1]
                <9>1. j - 1 \in 0..l /\ m - 1 \in (j - 1)..l
                  BY <1>1, <1>2, <5>1
                <9> QED
                  BY <1>3, <9>1 DEF lo
              <8>2. E[m - 1] \in lo..E[m - 1]
                BY <2>1, <5>1, <8>1
              <8> QED
                BY <5>2, <8>2
            <7> QED
              BY <7>1, <7>2
          <6> QED
            BY <1>2, <2>1, <5>1, <6>1, <6>2, <6>3, BlocksAdd
        <5> QED
          BY <5>3, <5>4
      <4> QED
        BY <4>2, <4>3
    <3> HIDE DEF T
    <3> QED
      BY <1>1, <3>1, <3>2, Induct
  <2>4. l \in T /\ j - 1 <= l
    <3>1. l \in 0..l
      BY <1>1
    <3> QED
      BY <1>1, <1>2, <2>3, <3>1
  <2> QED
    BY <1>1, <2>4
<1>5. \A p \in 0..E[j] : NotAboveBlock(c, p, E[j], V, W)
  <2> DEFINE hi == E[j]
             T == {k \in 0..j : \A p \in E[j - k]..hi : NotAboveBlock(c, p, hi, V, W)}
  <2>1. hi \in 0..n /\ j \in Nat
    BY <1>2, <1>3
  <2>2. NotAboveBlock(c, hi, hi, V, W)
    <3>1. j \in 1..j /\ hi \in E[j - 1]..E[j]
      BY <1>2, <1>3, <2>1
    <3> QED
      BY <1>1, <1>2, <1>3, <3>1, BlockParts
  <2>3. \A k \in 0..j : k \in T
    <3>1. 0 \in T
      <4>1. \A p \in E[j - 0]..hi : p = hi
        BY <2>1
      <4>2. 0 \in 0..j
        BY <2>1
      <4> HIDE DEF hi
      <4> QED
        BY <2>2, <4>1, <4>2
    <3>2. ASSUME NEW k \in 1..j, k - 1 \in T PROVE k \in T
      <4> DEFINE m == (j - k) + 1
      <4>1. m \in 1..j /\ m \in 1..l /\ m - 1 = j - k /\ j - (k - 1) = m /\ k \in 0..j
        BY <1>1, <1>2
      <4> HIDE DEF m
      <4>2. E[m - 1] \in 0..n /\ E[m] \in 0..n
        BY <1>3, <4>1
      <4>3. \A p \in E[m]..hi : NotAboveBlock(c, p, hi, V, W)
        BY <3>2, <4>1
      <4> HIDE DEF hi
      <4>4. ASSUME NEW p \in E[m - 1]..hi PROVE NotAboveBlock(c, p, hi, V, W)
        <5>1. CASE E[m] <= p
          <6>1. p \in E[m]..hi
            BY <2>1, <4>2, <5>1
          <6> QED
            BY <4>3, <6>1
        <5>2. CASE ~(E[m] <= p)
          <6>1. p \in E[m - 1]..E[m] /\ p \in 0..n
            BY <2>1, <4>2, <5>2
          <6>2. NotAboveBlock(c, p, E[m], V, W)
            BY <1>1, <1>2, <4>1, <4>2, <6>1, BlockParts
          <6>3. NotAboveBlock(c, E[m], hi, V, W)
            <7>1. E[m] <= hi
              <8>1. m \in 0..l /\ j \in m..l
                BY <1>1, <1>2, <4>1
              <8> QED
                BY <1>3, <8>1 DEF hi
            <7>2. E[m] \in E[m]..hi
              BY <2>1, <4>2, <7>1
            <7> QED
              BY <4>3, <7>2
          <6> QED
            BY <1>2, <2>1, <4>2, <6>1, <6>2, <6>3, BlocksAdd
        <5> QED
          BY <5>1, <5>2
      <4> QED
        BY <4>1, <4>4
    <3> HIDE DEF T
    <3> QED
      BY <2>1, <3>1, <3>2, Induct
  <2>4. j \in T /\ j - j = 0
    <3>1. j \in 0..j /\ j - j = 0
      BY <2>1
    <3> QED
      BY <2>3, <3>1
  <2> QED
    BY <1>1, <2>4
<1> QED
  BY <1>4, <1>5 DEF c

-----------------------------------------------------------------------------
(* The closest sequence that never falls *)

\* A sum of differences.
LEMMA WindowTotal ==
    ASSUME NEW m \in Nat, NEW f \in [1..m -> Int], NEW p \in Nat, NEW A,
           \A k \in 0..m : A[p + k] \in Int, \A k \in 1..m : A[p + k] = A[p + k - 1] + f[k]
    PROVE  Total(f) = A[p + m] - A[p]
<1>1. f \in Seq(Int) /\ Len(f) = m
  BY MadeSeq
<1>2. PICK acc \in [0..m -> Int] : /\ acc[0] = 0 /\ Total(f) = acc[m]
                                   /\ \A k \in 1..m : acc[k] = acc[k - 1] + f[k]
  BY <1>1, TotalFold
<1> DEFINE T == {k \in 0..m : acc[k] = A[p + k] - A[p]}
<1>3. 0 \in T
  <2>1. p + 0 = p /\ A[p + 0] \in Int /\ 0 \in 0..m
    OBVIOUS
  <2> QED
    BY <1>2, <2>1
<1>4. ASSUME NEW k \in 1..m, k - 1 \in T PROVE k \in T
  <2>1. /\ acc[k - 1] = A[p + (k - 1)] - A[p] /\ acc[k] = acc[k - 1] + f[k]
        /\ A[p + k] = A[p + k - 1] + f[k] /\ k \in 0..m /\ k - 1 \in 0..m /\ 0 \in 0..m
    BY <1>2, <1>4
  <2>2. p + (k - 1) = p + k - 1 /\ p + 0 = p /\ f[k] \in Int
    OBVIOUS
  <2>3. A[p + (k - 1)] \in Int /\ A[p + k] \in Int /\ A[p + 0] \in Int
    BY <2>1
  <2>4. acc[k] = A[p + k] - A[p]
    <3> DEFINE a0 == A[p]
               a1 == A[p + (k - 1)]
               a2 == A[p + k]
               c1 == acc[k - 1]
               c2 == acc[k]
               g == f[k]
    <3>1. /\ a0 \in Int /\ a1 \in Int /\ a2 \in Int /\ g \in Int
          /\ c1 = a1 - a0 /\ c2 = c1 + g /\ a2 = a1 + g
      BY <2>1, <2>2, <2>3
    <3> HIDE DEF a0, a1, a2, c1, c2, g
    <3>2. c2 = a2 - a0
      BY <3>1
    <3> QED
      BY <3>2 DEF a0, a2, c2
  <2> QED
    BY <2>1, <2>4
<1> HIDE DEF T
<1>5. m \in T
  <2>1. \A k \in 0..m : k \in T
    BY <1>3, <1>4, Induct
  <2> QED
    BY <2>1
<1> QED
  BY <1>2, <1>5 DEF T

\* Among finitely many fractions there are a lowest and a highest.
LEMMA LowestFraction ==
    ASSUME NEW lo \in Nat, NEW n \in Nat, NEW F, \A b \in lo..(lo + n) : F[b] \in Fraction
    PROVE  /\ \E b \in lo..(lo + n) : \A c \in lo..(lo + n) : NotAbove(F[b], F[c])
           /\ \E b \in lo..(lo + n) : \A c \in lo..(lo + n) : NotAbove(F[c], F[b])
<1> DEFINE T == {k \in 0..n : /\ \E b \in lo..(lo + k) : \A c \in lo..(lo + k) : NotAbove(F[b], F[c])
                              /\ \E b \in lo..(lo + k) : \A c \in lo..(lo + k) : NotAbove(F[c], F[b])}
<1>1. 0 \in T
  <2>1. lo \in lo..(lo + 0) /\ \A c \in lo..(lo + 0) : c = lo
    OBVIOUS
  <2>2. NotAbove(F[lo], F[lo])
    <3>1. F[lo] \in Fraction
      OBVIOUS
    <3> QED
      BY <3>1, NotAboveTotal
  <2>3. 0 \in 0..n
    OBVIOUS
  <2> QED
    BY <2>1, <2>2, <2>3
<1>2. ASSUME NEW k \in 1..n, k - 1 \in T PROVE k \in T
  <2> DEFINE K == lo..(lo + (k - 1))
             x == lo + k
  <2>1. /\ lo..(lo + k) = K \cup {x} /\ k \in 0..n
        /\ \A c \in K \cup {x} : F[c] \in Fraction
    OBVIOUS
  <2>2. PICK b \in K : \A c \in K : NotAbove(F[b], F[c])
    BY <1>2
  <2>3. PICK h \in K : \A c \in K : NotAbove(F[c], F[h])
    BY <1>2
  <2> HIDE DEF K, x
  <2>4. \E z \in K \cup {x} : \A c \in K \cup {x} : NotAbove(F[z], F[c])
    <3>1. CASE NotAbove(F[b], F[x])
      BY <2>2, <3>1
    <3>2. CASE NotAbove(F[x], F[b])
      <4>1. \A c \in K : NotAbove(F[x], F[c])
        BY <2>1, <2>2, <3>2, NotAboveFollows
      <4>2. NotAbove(F[x], F[x])
        BY <2>1, NotAboveTotal
      <4> QED
        BY <4>1, <4>2
    <3> QED
      BY <2>1, <3>1, <3>2, NotAboveTotal
  <2>5. \E z \in K \cup {x} : \A c \in K \cup {x} : NotAbove(F[c], F[z])
    <3>1. CASE NotAbove(F[x], F[h])
      BY <2>3, <3>1
    <3>2. CASE NotAbove(F[h], F[x])
      <4>1. \A c \in K : NotAbove(F[c], F[x])
        BY <2>1, <2>3, <3>2, NotAboveFollows
      <4>2. NotAbove(F[x], F[x])
        BY <2>1, NotAboveTotal
      <4> QED
        BY <4>1, <4>2
    <3> QED
      BY <2>1, <3>1, <3>2, NotAboveTotal
  <2> QED
    BY <2>1, <2>4, <2>5
<1> HIDE DEF T
<1>3. n \in T
  <2>1. \A k \in 0..n : k \in T
    BY <1>1, <1>2, Induct
  <2> QED
    BY <2>1
<1> QED
  BY <1>3 DEF T

\* The mean of the values from a to b.
MeanOf(V, W, a, b) == [n |-> V[b] - V[a - 1], d |-> W[b] - W[a - 1]]

LEMMA MeanOfType ==
    ASSUME NEW values, NEW weights, Weighted(values, weights), NEW V, NEW W,
           SumsOf(V, W, values, weights), NEW a \in 1..Len(values), NEW b \in a..Len(values)
    PROVE  MeanOf(V, W, a, b) \in Fraction
<1>1. /\ a - 1 \in 0..Len(values) /\ a \in 0..Len(values) /\ b \in 0..Len(values) /\ a <= b
      /\ weights[a] \in Nat \ {0}
  BY DEF Weighted
<1>2. /\ V[b] \in Int /\ V[a - 1] \in Int /\ W[b] \in Nat /\ W[a] \in Nat /\ W[a - 1] \in Nat
      /\ W[a] <= W[b] /\ W[a] = W[a - 1] + weights[a]
  BY <1>1 DEF SumsOf, Sums
<1>3. V[b] - V[a - 1] \in Int /\ W[b] - W[a - 1] \in Nat \ {0}
  <2> DEFINE v0 == V[a - 1]
             v2 == V[b]
             w0 == W[a - 1]
             w1 == W[a]
             w2 == W[b]
             w == weights[a]
  <2>1. v0 \in Int /\ v2 \in Int /\ w0 \in Nat /\ w1 \in Nat /\ w2 \in Nat /\ w \in Nat \ {0}
        /\ w1 <= w2 /\ w1 = w0 + w
    BY <1>1, <1>2
  <2> HIDE DEF v0, v2, w0, w1, w2, w
  <2>2. v2 - v0 \in Int /\ w2 - w0 \in Nat \ {0}
    BY <2>1
  <2> QED
    BY <2>2 DEF v0, v2, w0, w2
<1> QED
  BY <1>3 DEF MeanOf, Fraction

\* The smallest mean of a range from a that has i in it, as Isotonic takes it.
IsotonicMean(values, weights, a, b) ==
    [n |-> Total([k \in 1..(b - a + 1) |-> values[a + k - 1] * weights[a + k - 1]]),
     d |-> Total([k \in 1..(b - a + 1) |-> weights[a + k - 1]])]
LeastFrom(values, weights, i, a) ==
    CHOOSE v \in {IsotonicMean(values, weights, a, b) : b \in i..Len(values)} :
        \A b \in i..Len(values) : NotAbove(v, IsotonicMean(values, weights, a, b))

LEMMA IsotonicIs ==
    \A values, weights, i :
        Isotonic(values, weights, i)
            = CHOOSE v \in {LeastFrom(values, weights, i, a) : a \in 1..i} :
                  \A a \in 1..i : NotAbove(LeastFrom(values, weights, i, a), v)
BY DEF Isotonic, LeastFrom, IsotonicMean

LEMMA IsotonicMeanIs ==
    ASSUME NEW values, NEW weights, Weighted(values, weights), NEW V, NEW W,
           SumsOf(V, W, values, weights), NEW a \in 1..Len(values), NEW b \in a..Len(values)
    PROVE  IsotonicMean(values, weights, a, b) = MeanOf(V, W, a, b)
<1> DEFINE n == Len(values)
           m == b - a + 1
           p == a - 1
           f == [k \in 1..m |-> values[a + k - 1] * weights[a + k - 1]]
           g == [k \in 1..m |-> weights[a + k - 1]]
<1>1. /\ n \in Nat /\ \A i \in 1..n : values[i] \in Int /\ weights[i] \in Nat \ {0}
      /\ \A i \in 1..n : V[i] = V[i - 1] + values[i] * weights[i] /\ W[i] = W[i - 1] + weights[i]
      /\ \A i \in 0..n : V[i] \in Int /\ W[i] \in Nat
  <2>1. n \in Nat /\ \A i \in 1..n : values[i] \in Int /\ weights[i] \in Nat \ {0}
    BY DEF Weighted
  <2>2. \A i \in 1..n : V[i] = V[i - 1] + values[i] * weights[i] /\ W[i] = W[i - 1] + weights[i]
    BY DEF SumsOf
  <2>3. \A i \in 0..n : V[i] \in Int /\ W[i] \in Nat
    BY DEF SumsOf, Sums
  <2> QED
    BY <2>1, <2>2, <2>3
<1>2. m \in Nat /\ p \in Nat /\ p + m = b
  BY <1>1
<1>3. \A k \in 0..m : p + k \in 0..n
  BY <1>1
<1>4. \A k \in 1..m : a + k - 1 \in 1..n /\ a + k - 1 = p + k /\ (a + k - 1) - 1 = p + k - 1
  BY <1>1
<1>5. \A k \in 1..m : f[k] \in Int /\ V[p + k] = V[p + k - 1] + f[k]
  <2>1. ASSUME NEW k \in 1..m PROVE f[k] \in Int /\ V[p + k] = V[p + k - 1] + f[k]
    <3> DEFINE q == a + k - 1
    <3>1. q \in 1..n /\ q = p + k /\ q - 1 = p + k - 1 /\ f[k] = values[q] * weights[q]
      BY <1>4
    <3> HIDE DEF q, f, m, p
    <3>2. values[q] * weights[q] \in Int /\ V[q] = V[q - 1] + values[q] * weights[q]
      BY <1>1, <3>1
    <3> QED
      BY <3>1, <3>2
  <2> QED
    BY <2>1
<1>6. \A k \in 1..m : g[k] \in Int /\ W[p + k] = W[p + k - 1] + g[k]
  <2>1. ASSUME NEW k \in 1..m PROVE g[k] \in Int /\ W[p + k] = W[p + k - 1] + g[k]
    <3> DEFINE q == a + k - 1
    <3>1. q \in 1..n /\ q = p + k /\ q - 1 = p + k - 1 /\ g[k] = weights[q]
      BY <1>4
    <3> HIDE DEF q, g, m, p
    <3>2. weights[q] \in Int /\ W[q] = W[q - 1] + weights[q]
      BY <1>1, <3>1
    <3> QED
      BY <3>1, <3>2
  <2> QED
    BY <2>1
<1>7. f \in [1..m -> Int] /\ g \in [1..m -> Int]
  BY <1>5, <1>6
<1>8. IsotonicMean(values, weights, a, b) = [n |-> Total(f), d |-> Total(g)]
  BY DEF IsotonicMean
<1> HIDE DEF n, m, p, f, g
<1>9. \A k \in 0..m : V[p + k] \in Int /\ W[p + k] \in Int
  BY <1>1, <1>3
<1>10. Total(f) = V[p + m] - V[p] /\ Total(g) = W[p + m] - W[p]
  BY <1>2, <1>5, <1>6, <1>7, <1>9, WindowTotal
<1>11. MeanOf(V, W, a, b) = [n |-> V[b] - V[p], d |-> W[b] - W[p]]
  BY DEF MeanOf, p
<1> QED
  BY <1>2, <1>8, <1>10, <1>11

\* What the choices of Isotonic find.
LEMMA IsotonicFinds ==
    ASSUME NEW values, NEW weights, Weighted(values, weights), NEW i \in 1..Len(values)
    PROVE  /\ \A a \in 1..i : LET v == LeastFrom(values, weights, i, a) IN
                  /\ \E b \in i..Len(values) : v = IsotonicMean(values, weights, a, b)
                  /\ \A b \in i..Len(values) : NotAbove(v, IsotonicMean(values, weights, a, b))
           /\ \E a \in 1..i : Isotonic(values, weights, i) = LeastFrom(values, weights, i, a)
           /\ \A a \in 1..i : NotAbove(LeastFrom(values, weights, i, a), Isotonic(values, weights, i))
<1> DEFINE n == Len(values)
           M(a, b) == IsotonicMean(values, weights, a, b)
           L(a) == LeastFrom(values, weights, i, a)
<1>1. PICK V, W : SumsOf(V, W, values, weights)
  BY SumsExist
<1>2. n \in Nat /\ i \in 1..n
  BY DEF Weighted
<1>3. \A a \in 1..i, b \in i..n : M(a, b) \in Fraction
  <2>1. ASSUME NEW a \in 1..i, NEW b \in i..n PROVE M(a, b) \in Fraction
    <3>1. a \in 1..Len(values) /\ b \in a..Len(values)
      BY <1>2
    <3> QED
      BY <1>1, <3>1, IsotonicMeanIs, MeanOfType
  <2> QED
    BY <2>1
<1>4. ASSUME NEW a \in 1..i
      PROVE  /\ \E b \in i..n : L(a) = M(a, b)
             /\ \A b \in i..n : NotAbove(L(a), M(a, b))
  <2> DEFINE F == [b \in i..n |-> M(a, b)]
             S == {M(a, b) : b \in i..n}
  <2>1. L(a) = CHOOSE v \in S : \A b \in i..n : NotAbove(v, M(a, b))
    BY DEF LeastFrom
  <2> HIDE DEF M, L, n
  <2>2. \A b \in i..n : F[b] \in Fraction /\ F[b] = M(a, b)
    BY <1>3
  <2>3. i \in Nat /\ n - i \in Nat /\ i + (n - i) = n
    BY <1>2
  <2> HIDE DEF F
  <2>4. PICK b \in i..n : \A c \in i..n : NotAbove(F[b], F[c])
    BY <2>2, <2>3, LowestFraction
  <2>5. \E v \in S : \A c \in i..n : NotAbove(v, M(a, c))
    BY <2>2, <2>4
  <2>6. L(a) \in S /\ \A c \in i..n : NotAbove(L(a), M(a, c))
    BY <2>1, <2>5
  <2> QED
    BY <2>6
<1> HIDE DEF M, L
<1>5. \A a \in 1..i : L(a) \in Fraction
  BY <1>3, <1>4
<1>6. /\ \E a \in 1..i : Isotonic(values, weights, i) = L(a)
      /\ \A a \in 1..i : NotAbove(L(a), Isotonic(values, weights, i))
  <2> DEFINE F == [a \in 1..i |-> L(a)]
             S == {L(a) : a \in 1..i}
  <2>1. Isotonic(values, weights, i) = CHOOSE v \in S : \A a \in 1..i : NotAbove(L(a), v)
    BY IsotonicIs DEF L
  <2>2. \A a \in 1..i : F[a] \in Fraction /\ F[a] = L(a)
    BY <1>5
  <2>3. 1 \in Nat /\ i - 1 \in Nat /\ 1 + (i - 1) = i
    BY <1>2
  <2> HIDE DEF F
  <2>4. PICK h \in 1..i : \A a \in 1..i : NotAbove(F[a], F[h])
    BY <2>2, <2>3, LowestFraction
  <2>5. \E v \in S : \A a \in 1..i : NotAbove(L(a), v)
    BY <2>2, <2>4
  <2>6. Isotonic(values, weights, i) \in S /\ \A a \in 1..i : NotAbove(L(a), Isotonic(values, weights, i))
    BY <2>1, <2>5
  <2> QED
    BY <2>6
<1> QED
  BY <1>4, <1>6 DEF M, L, n

\* _pav: what it returns is as long as the values, never falls and is the closest
\* sequence that does not.
LEMMA PavIsClosest ==
    ASSUME NEW values, NEW weights, Weighted(values, weights)
    PROVE  LET p == Pav(values, weights)
           IN  /\ p \in Seq(Fraction) /\ Len(p) = Len(values)
               /\ \A i \in 1..Len(p) : Equal(p[i], Isotonic(values, weights, i))
               /\ \A i \in 1..Len(p) : \A k \in i..Len(p) : NotAbove(p[i], p[k])
<1> DEFINE n == Len(values)
           p == Pav(values, weights)
<1>1. PICK V, W : SumsOf(V, W, values, weights)
  BY SumsExist
<1>2. n \in Nat /\ Sums(V, W, n)
  BY <1>1 DEF Weighted, SumsOf
<1>3. PICK bs : Tiled(bs, n, V, W) /\ Rising(bs, Len(bs)) /\ p = Shown(bs)
  BY <1>1, PavTiled
<1>4. bs \in Seq(Block) /\ Len(bs) \in Nat
  BY <1>3 DEF Tiled
<1>5. PICK E : Tiles(bs, E, n, V, W)
  BY <1>3 DEF Tiled
<1> HIDE DEF n, p
<1>6. /\ p \in Seq(Fraction) /\ Len(p) = n
      /\ \A j \in 1..Len(bs) : \A i \in (E[j - 1] + 1)..E[j] : p[i] = Mean(bs[j])
  BY <1>2, <1>3, <1>4, <1>5, ShownValues
<1>7. \A i \in 1..n : \E j \in 1..Len(bs) : i \in (E[j - 1] + 1)..E[j]
  BY <1>2, <1>4, <1>5, InBlock
<1>8. \A j \in 0..Len(bs) : E[j] \in 0..n /\ \A k \in j..Len(bs) : E[j] <= E[k]
  <2>1. \A j \in 0..Len(bs) : E[j] \in 0..n
    BY <1>5 DEF Tiles
  <2>2. \A j \in 0..Len(bs) : \A k \in j..Len(bs) : E[j] <= E[k]
    BY <1>2, <1>4, <1>5, EndsRise
  <2> QED
    BY <2>1, <2>2
<1>9. ASSUME NEW i \in 1..n PROVE Equal(p[i], Isotonic(values, weights, i))
  <2> DEFINE M(a, b) == IsotonicMean(values, weights, a, b)
             L(a) == LeastFrom(values, weights, i, a)
             iso == Isotonic(values, weights, i)
  <2>1. PICK j \in 1..Len(bs) : i \in (E[j - 1] + 1)..E[j]
    BY <1>7
  <2> DEFINE c == bs[j]
             m == Mean(c)
             lo == E[j - 1]
             hi == E[j]
  <2>2. /\ p[i] = m /\ c \in Block /\ m \in Fraction /\ lo \in 0..n /\ hi \in 0..n
        /\ lo + 1 \in 1..i /\ i \in 1..hi /\ hi \in i..n
    <3>1. j - 1 \in 0..Len(bs) /\ j \in 0..Len(bs) /\ c \in Block
      BY <1>4
    <3>2. lo \in 0..n /\ hi \in 0..n
      BY <1>8, <3>1
    <3>3. m \in Fraction /\ p[i] = m
      BY <1>6, <2>1, <3>1, MeanType
    <3> HIDE DEF m, c
    <3> QED
      BY <1>2, <2>1, <3>1, <3>2, <3>3
  <2>3. /\ \A q \in lo..n : NotBelowBlock(c, lo, q, V, W)
        /\ \A q \in 0..hi : NotAboveBlock(c, q, hi, V, W)
    BY <1>2, <1>3, <1>4, <1>5, BlockSeparates
  <2>4. /\ \A a \in 1..i : /\ \E b \in i..n : L(a) = M(a, b)
                           /\ \A b \in i..n : NotAbove(L(a), M(a, b))
        /\ \E a \in 1..i : iso = L(a)
        /\ \A a \in 1..i : NotAbove(L(a), iso)
    BY IsotonicFinds DEF n
  <2>5. \A a \in 1..i, b \in i..n : M(a, b) = MeanOf(V, W, a, b) /\ M(a, b) \in Fraction
    <3>1. ASSUME NEW a \in 1..i, NEW b \in i..n
          PROVE  M(a, b) = MeanOf(V, W, a, b) /\ M(a, b) \in Fraction
      <4>1. a \in 1..Len(values) /\ b \in a..Len(values)
        BY <1>2 DEF n
      <4> QED
        BY <1>1, <4>1, IsotonicMeanIs, MeanOfType
    <3> QED
      BY <3>1
  <2> HIDE DEF M, L, iso, c, lo, hi
  <2>6. \A a \in 1..i : L(a) \in Fraction
    BY <2>4, <2>5
  <2>7. ASSUME NEW a \in 1..i PROVE NotAbove(L(a), m)
    <3>1. a - 1 \in 0..hi /\ hi \in i..n
      BY <1>2, <2>2
    <3>2. NotAboveBlock(c, a - 1, hi, V, W)
      BY <2>3, <3>1
    <3>3. NotAbove(MeanOf(V, W, a, hi), m)
      BY <3>2 DEF NotAboveBlock, NotAbove, MeanOf, Mean
    <3> HIDE DEF m
    <3>4. NotAbove(L(a), M(a, hi)) /\ M(a, hi) = MeanOf(V, W, a, hi) /\ M(a, hi) \in Fraction
      BY <2>4, <2>5, <3>1
    <3> QED
      BY <2>2, <2>6, <3>3, <3>4, NotAboveFollows
  <2>8. NotAbove(m, L(lo + 1))
    <3>1. ASSUME NEW b \in i..n PROVE NotAbove(m, MeanOf(V, W, lo + 1, b))
      <4>1. b \in lo..n /\ (lo + 1) - 1 = lo
        BY <1>2, <2>2
      <4>2. NotBelowBlock(c, lo, b, V, W)
        BY <2>3, <4>1
      <4> QED
        BY <4>1, <4>2 DEF NotBelowBlock, NotAbove, MeanOf, Mean
    <3> HIDE DEF m
    <3> QED
      BY <2>2, <2>4, <2>5, <3>1
  <2> HIDE DEF m
  <2>9. NotAbove(iso, m)
    BY <2>4, <2>7
  <2>10. NotAbove(m, iso)
    <3>1. lo + 1 \in 1..i /\ iso \in Fraction
      BY <2>2, <2>4, <2>6
    <3> QED
      BY <2>2, <2>4, <2>6, <2>8, <3>1, NotAboveFollows
  <2> QED
    BY <2>2, <2>9, <2>10 DEF Equal, iso
<1>10. ASSUME NEW i \in 1..n, NEW k \in i..n PROVE NotAbove(p[i], p[k])
  <2>1. k \in 1..n
    BY <1>2
  <2>2. PICK j \in 1..Len(bs) : i \in (E[j - 1] + 1)..E[j]
    BY <1>7
  <2>3. PICK o \in 1..Len(bs) : k \in (E[o - 1] + 1)..E[o]
    BY <1>7, <2>1
  <2>4. o \in j..Len(bs)
    <3> SUFFICES ASSUME o < j PROVE FALSE
      BY <1>4
    <3>1. o \in 0..Len(bs) /\ j - 1 \in o..Len(bs) /\ j - 1 \in 0..Len(bs)
      BY <1>4
    <3>2. E[o] <= E[j - 1] /\ E[o] \in Nat /\ E[j - 1] \in Nat
      BY <1>8, <3>1
    <3>3. k <= E[o] /\ E[j - 1] + 1 <= i /\ i <= k
      <4>1. o - 1 \in 0..Len(bs) /\ j \in 0..Len(bs)
        BY <1>4
      <4>2. E[o - 1] \in Nat /\ E[j] \in Nat
        BY <1>8, <4>1
      <4> QED
        BY <1>2, <2>1, <2>2, <2>3, <3>2, <4>2
    <3> QED
      BY <1>2, <2>1, <3>2, <3>3
  <2>5. NotAbove(Mean(bs[j]), Mean(bs[o]))
    BY <1>3, <1>4, <2>4, RisingBlocks
  <2> QED
    BY <1>6, <2>2, <2>3, <2>5
<1> QED
  BY <1>6, <1>9, <1>10 DEF n, p

-----------------------------------------------------------------------------
(* Rounding and the correction by tablebases *)

LEMMA IntDivision ==
    \A t \in Int, n \in Nat \ {0} :
        t \div n \in Int /\ t % n \in 0..(n - 1) /\ t = n * (t \div n) + (t % n)
OBVIOUS

\* Quotients follow fractions.
LEMMA RoundMonotone ==
    ASSUME NEW a \in Int, NEW b \in Int, NEW c \in Nat \ {0}, NEW d \in Nat \ {0}, a * d <= b * c
    PROVE  Round(a, c) \in Int /\ Round(b, d) \in Int /\ Round(a, c) <= Round(b, d)
<1> DEFINE p == a \div c
           r == a % c
           q == b \div d
           s == b % d
           up == 2 * r > c \/ (2 * r = c /\ p % 2 = 1)
           uq == 2 * s > d \/ (2 * s = d /\ q % 2 = 1)
<1>1. /\ p \in Int /\ r \in 0..(c - 1) /\ a = c * p + r
      /\ q \in Int /\ s \in 0..(d - 1) /\ b = d * q + s
  BY IntDivision
<1>2. Round(a, c) = (IF up THEN p + 1 ELSE p) /\ Round(b, d) = (IF uq THEN q + 1 ELSE q)
  BY DEF Round
<1> HIDE DEF p, r, q, s
<1>3. /\ a * d = (p * c) * d + r * d /\ b * c = (q * c) * d + s * c
      /\ (p * c) * d \in Int /\ (q * c) * d \in Int /\ r * d \in Int /\ s * c \in Int
      /\ r * d >= 0 /\ s * c < c * d /\ c * d \in Nat
  <2>1. a * d = (c * p) * d + r * d /\ b * c = (d * q) * c + s * c
    BY <1>1, TimesDistributes, c * p \in Int, d * q \in Int, c \in Int, d \in Int
  <2>2. (c * p) * d = (p * c) * d /\ (d * q) * c = (q * c) * d
    BY <1>1, TimesMoves, c \in Int, d \in Int
  <2>3. (p * c) * d \in Int /\ (q * c) * d \in Int /\ r * d \in Int /\ s * c \in Int /\ c * d \in Nat
    BY <1>1
  <2>4. r * d >= 0 * d /\ 0 * d = 0
    BY <1>1, TimesMonotone, 0 \in Int, r \in Int, d \in Nat
  <2>5. s * c <= (d - 1) * c /\ (d - 1) * c = d * c - c /\ d * c = c * d
    <3>1. s * c <= (d - 1) * c
      BY <1>1, TimesMonotone, s \in Int, d - 1 \in Int, s <= d - 1, c \in Nat
    <3>2. (d - 1) * c = d * c - c /\ d * c = c * d
      OBVIOUS
    <3> QED
      BY <3>1, <3>2
  <2> QED
    BY <2>1, <2>2, <2>3, <2>4, <2>5
<1>4. p <= q
  <2> SUFFICES ASSUME q + 1 <= p PROVE FALSE
    BY <1>1
  <2>1. ((q + 1) * c) * d <= (p * c) * d
    <3>1. (q + 1) * c <= p * c
      BY <1>1, TimesMonotone, q + 1 \in Int, c \in Nat
    <3> QED
      BY <1>1, <3>1, TimesMonotone, (q + 1) * c \in Int, p * c \in Int, d \in Nat
  <2>2. ((q + 1) * c) * d = (q * c) * d + c * d
    <3>1. (q + 1) * c = q * c + c /\ q * c \in Int
      BY <1>1
    <3> QED
      BY <3>1, TimesDistributes, c \in Int, d \in Int
  <2> QED
    BY <1>3, <2>1, <2>2
<1>5. CASE p = q
  <2>1. r * d <= s * c
    BY <1>3, <1>5
  <2>2. up => uq
    <3>1. ASSUME 2 * r >= c PROVE 2 * s >= d /\ (2 * r > c => 2 * s > d)
      <4>1. (2 * r) * d <= (2 * s) * c
        <5>1. (2 * r) * d = 2 * (r * d) /\ (2 * s) * c = 2 * (s * c)
          BY <1>1
        <5> QED
          BY <1>3, <2>1, <5>1
      <4>2. c * d <= (2 * r) * d
        BY <1>1, <3>1, TimesMonotone, c \in Int, 2 * r \in Int, d \in Nat
      <4>3. d * c <= (2 * s) * c
        <5>1. d * c = c * d /\ (2 * r) * d \in Int /\ (2 * s) * c \in Int
          BY <1>1
        <5> QED
          BY <1>3, <4>1, <4>2, <5>1
      <4>4. d <= 2 * s
        BY <1>1, <4>3, TimesCancels, d \in Int, 2 * s \in Int
      <4>5. ASSUME 2 * r > c PROVE 2 * s > d
        <5> SUFFICES ASSUME 2 * s = d PROVE FALSE
          BY <1>1, <4>4
        <5>1. (2 * r) * d <= d * c /\ d * c = c * d
          BY <1>1, <4>1
        <5>2. 2 * r <= c
          BY <1>1, <5>1, TimesCancels, 2 * r \in Int, c \in Int
        <5> QED
          BY <1>1, <4>5, <5>2
      <4> QED
        BY <4>4, <4>5
    <3>2. up => 2 * r >= c
      BY <1>1
    <3> QED
      BY <1>1, <1>5, <3>1, <3>2
  <2> QED
    BY <1>1, <1>2, <1>5, <2>2
<1>6. CASE p # q
  <2>1. p + 1 <= q
    BY <1>1, <1>4, <1>6
  <2> HIDE DEF up, uq
  <2> QED
    BY <1>1, <1>2, <2>1
<1> QED
  BY <1>5, <1>6

LEMMA RoundWhole == ASSUME NEW k \in Int, NEW d \in Nat \ {0} PROVE Round(k * d, d) = k
<1>1. k * d \in Int /\ k * d = d * k
  OBVIOUS
<1>2. (k * d) \div d = k /\ (k * d) % d = 0
  <2> DEFINE q == (k * d) \div d
             r == (k * d) % d
  <2>1. q \in Int /\ r \in 0..(d - 1) /\ k * d = d * q + r
    BY <1>1, IntDivision
  <2> HIDE DEF q, r
  <2>2. q = k
    <3>1. d * q = q * d /\ q * d \in Int
      BY <2>1
    <3>2. q * d <= k * d
      BY <1>1, <2>1, <3>1
    <3>3. k * d <= (q + 1) * d
      <4>1. (q + 1) * d = q * d + d
        BY <2>1
      <4> QED
        BY <1>1, <2>1, <3>1, <4>1
    <3>4. q <= k
      BY <2>1, <3>2, TimesCancels
    <3>5. ASSUME q + 1 <= k PROVE FALSE
      <4>1. (q + 1) * d <= k * d /\ (q + 1) * d = q * d + d
        BY <2>1, <3>5, TimesMonotone, q + 1 \in Int, d \in Nat
      <4> QED
        BY <1>1, <2>1, <3>1, <4>1
    <3> QED
      BY <2>1, <3>4, <3>5
  <2>3. r = 0
    BY <1>1, <2>1, <2>2
  <2> QED
    BY <2>2, <2>3 DEF q, r
<1> QED
  BY <1>2 DEF Round

LEMMA ScoreSet ==
    ASSUME NEW p, NEW v, NEW z, NEW x
    PROVE  [[pieces |-> p, score |-> v, result |-> z] EXCEPT !.score = x]
               = [pieces |-> p, score |-> x, result |-> z]
OBVIOUS

LEMMA ResultSet ==
    ASSUME NEW p, NEW v, NEW z, NEW y
    PROVE  [[pieces |-> p, score |-> v, result |-> z] EXCEPT !.result = y]
               = [pieces |-> p, score |-> v, result |-> y]
OBVIOUS

\* bullet_tb_relabel.py on a record with one score and another.
LEMMA RelabelKeepsOrder ==
    ASSUME NEW rec, rec = [pieces |-> rec.pieces, score |-> rec.score, result |-> rec.result],
           DOMAIN rec.pieces \subseteq Squares,
           NEW wdl \in -2..2 \cup {NoTable}, NEW s \in Int, NEW t \in Int
    PROVE  LET a == Relabel([rec EXCEPT !.score = s], 6, wdl)
               b == Relabel([rec EXCEPT !.score = t], 6, wdl)
           IN  /\ s <= t /\ (wdl = 2 => s >= 0) /\ (wdl = -2 => t <= 0) => a.score <= b.score
               /\ wdl # NoTable /\ Cardinality(DOMAIN a.pieces) <= 6 =>
                     /\ a.result = 2 => a.score > WdlToCp(0, ScoreClamp)
                     /\ a.result = 0 => a.score < WdlToCp(0, -ScoreClamp)
                     /\ a.result = (IF wdl = 2 THEN 2 ELSE IF wdl = -2 THEN 0 ELSE 1)
<1> DEFINE of(v) == [rec EXCEPT !.score = v]
           p == rec.pieces
           size == Cardinality(DOMAIN p)
<1>1. size \in Nat
  <2>1. IsFiniteSet(Squares)
    BY FS_Interval, 0 \in Int, 63 \in Int DEF Squares
  <2> QED
    BY <2>1, FS_Subset, FS_CardinalityType
<1>2. \A v \in Int : /\ of(v).pieces = p /\ of(v).score = v
                     /\ of(v) = [pieces |-> p, score |-> v, result |-> rec.result]
  OBVIOUS
<1>3. ASSUME NEW v \in Int
      PROVE  Relabel(of(v), 6, wdl) =
                 IF size > 6 \/ wdl = NoTable THEN [pieces |-> p, score |-> v, result |-> rec.result]
                 ELSE [pieces |-> p, score |-> WdlToCp(wdl, v), result |-> WdlToResult(wdl)]
  <2> DEFINE r == [pieces |-> p, score |-> v, result |-> rec.result]
  <2>1. of(v) = r /\ r.pieces = p /\ r.score = v
    BY <1>2
  <2>2. [r EXCEPT !.score = WdlToCp(wdl, @), !.result = WdlToResult(wdl)]
            = [pieces |-> p, score |-> WdlToCp(wdl, v), result |-> WdlToResult(wdl)]
    <3> DEFINE x == WdlToCp(wdl, v)
               y == WdlToResult(wdl)
    <3>1. [r EXCEPT !.score = WdlToCp(wdl, @), !.result = y]
              = [[r EXCEPT !.score = WdlToCp(wdl, @)] EXCEPT !.result = y]
      OBVIOUS
    <3>2. [r EXCEPT !.score = WdlToCp(wdl, @)] = [r EXCEPT !.score = x]
      BY <2>1
    <3>3. [r EXCEPT !.score = x] = [pieces |-> p, score |-> x, result |-> rec.result]
      BY ScoreSet
    <3>4. [[pieces |-> p, score |-> x, result |-> rec.result] EXCEPT !.result = y]
              = [pieces |-> p, score |-> x, result |-> y]
      BY ResultSet
    <3> HIDE DEF r, x, y
    <3>5. [[r EXCEPT !.score = x] EXCEPT !.result = y] = [pieces |-> p, score |-> x, result |-> y]
      BY <3>3, <3>4
    <3> QED
      BY <3>1, <3>2, <3>5 DEF x, y
  <2> HIDE DEF of, r
  <2>3. Relabel(r, 6, wdl) = IF size > 6 \/ wdl = NoTable THEN r
                             ELSE [pieces |-> p, score |-> WdlToCp(wdl, v), result |-> WdlToResult(wdl)]
    BY <2>1, <2>2 DEF Relabel
  <2> QED
    BY <2>1, <2>3 DEF r
<1> HIDE DEF of, size
<1> DEFINE a == Relabel(of(s), 6, wdl)
           b == Relabel(of(t), 6, wdl)
<1>4. CASE size > 6 \/ wdl = NoTable
  <2>1. a.score = s /\ b.score = t /\ a.pieces = p
    BY <1>3, <1>4
  <2>2. wdl # NoTable => ~(Cardinality(DOMAIN a.pieces) <= 6)
    BY <1>1, <1>4, <2>1 DEF size
  <2> QED
    BY <2>1, <2>2 DEF of
<1>5. CASE ~(size > 6 \/ wdl = NoTable)
  <2>1. /\ a.score = WdlToCp(wdl, s) /\ b.score = WdlToCp(wdl, t) /\ a.result = WdlToResult(wdl)
    BY <1>3, <1>5
  <2>2. wdl \in -2..2
    BY <1>5
  <2> HIDE DEF a, b
  <2>3. WdlToCp(0, ScoreClamp) = 204 /\ WdlToCp(0, -ScoreClamp) = -204
    <3>1. 2045 \div 10 = 204 /\ 2045 % 10 = 5 /\ 204 % 2 = 0
      OBVIOUS
    <3> DEFINE u == -ScoreClamp
               q == u \div 10
    <3>2. u \in Int /\ u = -2045
      BY DEF ScoreClamp
    <3> HIDE DEF u
    <3>3. q = -205 /\ u % 10 = 5
      <4> u \in Int
        BY <3>2
      <4>1. u \div 10 \in Int /\ u % 10 \in 0..(10 - 1) /\ u = 10 * (u \div 10) + (u % 10)
        BY 10 \in Nat \ {0}, IntDivision
      <4>2. \A k, m \in Int : u = 10 * k + m /\ 0 <= m /\ m <= 9 => k = -205 /\ m = 5
        BY <3>2
      <4> QED
        BY <4>1, <4>2
    <3> HIDE DEF q
    <3>4. q % 2 = 1
      <4>1. q \in Int
        BY <3>3
      <4>2. q \div 2 \in Int /\ q % 2 \in 0..(2 - 1) /\ q = 2 * (q \div 2) + (q % 2)
        BY <4>1, 2 \in Nat \ {0}, IntDivision
      <4>3. \A k, m \in Int : q = 2 * k + m /\ 0 <= m /\ m <= 1 => m = 1
        BY <3>3
      <4> QED
        BY <4>2, <4>3
    <3>5. Round(u, 10) = -204
      BY <3>3, <3>4 DEF Round, q
    <3>6. WdlToCp(0, u) = -204 /\ WdlToCp(0, ScoreClamp) = 204
      BY <3>1, <3>5 DEF WdlToCp, ScoreClamp, Round
    <3> QED
      BY <3>6 DEF u
  <2>4. a.result = (IF wdl = 2 THEN 2 ELSE IF wdl = -2 THEN 0 ELSE 1)
    BY <2>1, <2>2 DEF WdlToResult
  <2>5. CASE wdl \in -1..1
    <3>1. a.score = Round(s, 10) /\ b.score = Round(t, 10)
      BY <2>1, <2>5 DEF WdlToCp
    <3>2. s <= t => Round(s, 10) <= Round(t, 10)
      <4>1. s <= t => s * 10 <= t * 10
        OBVIOUS
      <4> QED
        BY <4>1, 10 \in Nat \ {0}, RoundMonotone
    <3> QED
      BY <2>4, <2>5, <3>1, <3>2 DEF a, b, of
  <2>6. CASE wdl = 2
    <3>1. a.score = Clamp(Abs(s), 350, 1200) /\ b.score = Clamp(Abs(t), 350, 1200)
      BY <2>1, <2>6 DEF WdlToCp, WinFloor, WinCeil
    <3>2. a.score > 204 /\ (0 <= s /\ s <= t => a.score <= b.score)
      BY <3>1 DEF Clamp, Abs
    <3> QED
      BY <2>3, <2>4, <2>6, <3>2 DEF a, b, of
  <2>7. CASE wdl = -2
    <3>1. a.score = -Clamp(Abs(s), 350, 1200) /\ b.score = -Clamp(Abs(t), 350, 1200)
      BY <2>1, <2>7 DEF WdlToCp, WinFloor, WinCeil
    <3>2. a.score < -204 /\ (t <= 0 /\ s <= t => a.score <= b.score)
      BY <3>1 DEF Clamp, Abs
    <3> QED
      BY <2>3, <2>4, <2>7, <3>2 DEF a, b, of
  <2>8. wdl \in -1..1 \/ wdl = 2 \/ wdl = -2
    BY <2>2
  <2> QED
    BY <2>5, <2>6, <2>7, <2>8
<1> QED
  BY <1>4, <1>5

-----------------------------------------------------------------------------
(* Sorting *)

LEMMA Inserted ==
    ASSUME NEW V, NEW seq \in Seq(V), NEW x \in V, NEW S \in SUBSET (1..Len(seq))
    PROVE  /\ InsertAt(seq, Cardinality(S) + 1, x) \in Seq(V)
           /\ Len(InsertAt(seq, Cardinality(S) + 1, x)) = Len(seq) + 1
<1> DEFINE n == Len(seq)
           c == Cardinality(S)
<1>1. n \in Nat
  OBVIOUS
<1>2. c \in 0..n
  <2>1. IsFiniteSet(1..n) /\ Cardinality(1..n) = n
    <3> HIDE DEF n
    <3>1. 1 \in Int /\ n \in Int
      BY <1>1
    <3>2. IsFiniteSet(1..n) /\ Cardinality(1..n) = IF 1 > n THEN 0 ELSE n - 1 + 1
      BY <3>1, FS_Interval, Zenon
    <3> QED
      BY <1>1, <3>2
  <2>2. c \in Nat /\ c <= n
    BY <2>1, FS_Subset, FS_CardinalityType
  <2> QED
    BY <1>1, <2>2
<1> HIDE DEF c
<1>3. SubSeq(seq, 1, c) \in Seq(V) /\ Len(SubSeq(seq, 1, c)) = c
  <2>1. 1 \in 1..(n + 1) /\ c \in (1 - 1)..n
    BY <1>1, <1>2
  <2> QED
    BY <1>2, <2>1, SubSeqIs
<1>4. SubSeq(seq, c + 1, n) \in Seq(V) /\ Len(SubSeq(seq, c + 1, n)) = n - c
  <2>1. c + 1 \in 1..(n + 1) /\ n \in ((c + 1) - 1)..n
    BY <1>1, <1>2
  <2> QED
    BY <1>1, <1>2, <2>1, SubSeqIs
<1>5. (c + 1) - 1 = c
  BY <1>2
<1>6. InsertAt(seq, c + 1, x) = SubSeq(seq, 1, c) \o <<x>> \o SubSeq(seq, c + 1, n)
  BY <1>5 DEF InsertAt
<1>7. /\ SubSeq(seq, 1, c) \o <<x>> \in Seq(V) /\ Len(SubSeq(seq, 1, c) \o <<x>>) = c + 1
  BY <1>2, <1>3
<1>8. /\ (SubSeq(seq, 1, c) \o <<x>>) \o SubSeq(seq, c + 1, n) \in Seq(V)
      /\ Len((SubSeq(seq, 1, c) \o <<x>>) \o SubSeq(seq, c + 1, n)) = (c + 1) + (n - c)
  BY <1>4, <1>7
<1>9. (c + 1) + (n - c) = n + 1
  BY <1>1, <1>2
<1> QED
  BY <1>6, <1>8, <1>9 DEF c

\* A fold whose step adds an element has the length of its sequence.
LEMMA Lengths ==
    ASSUME NEW n \in Nat, NEW S, NEW V, V = Seq(S), NEW step, NEW acc, Runs(acc, n, V, <<>>, step),
           \A k \in 1..n, v \in V : Len(step[<<k, v>>]) = Len(v) + 1
    PROVE  acc[n] \in Seq(S) /\ Len(acc[n]) = n
<1> DEFINE T == {k \in 0..n : Len(acc[k]) = k}
<1>1. 0 \in T
  BY DEF Runs
<1>2. ASSUME NEW k \in 1..n, k - 1 \in T PROVE k \in T
  <2>1. acc[k - 1] \in V /\ acc[k] = step[<<k, acc[k - 1]>>] /\ Len(acc[k - 1]) = k - 1
    BY <1>2 DEF Runs
  <2>2. Len(acc[k]) = (k - 1) + 1 /\ k \in 0..n /\ (k - 1) + 1 = k
    BY <2>1
  <2> QED
    BY <2>2
<1> HIDE DEF T
<1>3. \A k \in 0..n : k \in T
  BY <1>1, <1>2, Induct
<1>4. n \in T /\ acc[n] \in V
  BY <1>3, n \in 0..n DEF Runs
<1> QED
  BY <1>4 DEF T

LEMMA SortedType ==
    ASSUME NEW seq \in Seq(Nat)
    PROVE  Sorted(seq) \in Seq(Nat) /\ Len(Sorted(seq)) = Len(seq)
<1> DEFINE n == Len(seq)
           V == Seq(Nat)
           add(v, x) == InsertAt(v, Cardinality({i \in 1..Len(v) : ~(x < v[i])}) + 1, x)
           step == [p \in (1..n) \X V |-> add(p[2], seq[p[1]])]
           it == CHOOSE f : f = [t \in SUBSET (1..n) |->
                     IF t = {} THEN <<>> ELSE add(f[t \ {Max(t)}], seq[Max(t)])]
           acc == [k \in 0..n |-> it[1..k]]
<1>1. n \in Nat /\ DOMAIN seq = 1..n /\ <<>> \in V /\ \A k \in 1..n : seq[k] \in Nat
  OBVIOUS
<1>2. Sorted(seq) = it[1..n]
  BY <1>1 DEF Sorted, FoldLeft, MapThenFoldSet
<1>3. \A v \in V, x \in Nat : add(v, x) \in V /\ Len(add(v, x)) = Len(v) + 1
  <2>1. ASSUME NEW v \in V, NEW x \in Nat PROVE add(v, x) \in V /\ Len(add(v, x)) = Len(v) + 1
    <3>1. {i \in 1..Len(v) : ~(x < v[i])} \in SUBSET (1..Len(v))
      OBVIOUS
    <3> QED
      BY <3>1, Inserted
  <2> QED
    BY <2>1
<1> HIDE DEF n, V, add
<1>4. step \in [(1..n) \X V -> V]
  BY <1>1, <1>3
<1>5. \A k \in 1..n, v \in V : step[<<k, v>>] = add(v, seq[k])
  OBVIOUS
<1> HIDE DEF step
<1>6. PICK f : IsFold(f, n, V, <<>>, step)
  BY <1>1, <1>4, FoldExists
<1>7. f = [t \in SUBSET (1..n) |-> IF t = {} THEN <<>> ELSE add(f[t \ {Max(t)}], seq[Max(t)])]
  <2>1. \A t \in SUBSET (1..n) : t # {} => Max(t) \in 1..n /\ f[t \ {Max(t)}] \in V
    BY <1>1, <1>6, MaxOf DEF IsFold
  <2> QED
    BY <1>5, <1>6, <2>1 DEF IsFold
<1>8. it = [t \in SUBSET (1..n) |-> IF t = {} THEN <<>> ELSE add(it[t \ {Max(t)}], seq[Max(t)])]
  BY <1>7
<1> HIDE DEF it
<1>9. FoldsWhereTyped(it, n, V, <<>>, step)
  <2>1. \A t \in SUBSET (1..n) : t # {} => Max(t) \in 1..n
    BY <1>1, MaxOf
  <2> QED
    BY <1>5, <1>8, <2>1 DEF FoldsWhereTyped
<1>10. Runs(acc, n, V, <<>>, step)
  BY <1>1, <1>4, <1>9, FoldRuns
<1>11. acc[n] = it[1..n]
  BY <1>1
<1> HIDE DEF acc
<1>12. \A k \in 1..n, v \in V : Len(step[<<k, v>>]) = Len(v) + 1
  BY <1>1, <1>3, <1>5
<1>13. acc[n] \in Seq(Nat) /\ Len(acc[n]) = n
  BY <1>1, <1>10, <1>12, Lengths DEF V
<1> QED
  BY <1>2, <1>11, <1>13 DEF n

Pair == [raw : Nat, target : Nat]

LEMMA SortedPairsType ==
    ASSUME NEW seq \in Seq(Pair)
    PROVE  SortedPairs(seq) \in Seq(Pair) /\ Len(SortedPairs(seq)) = Len(seq)
<1> DEFINE n == Len(seq)
           V == Seq(Pair)
           add(v, x) == InsertAt(v, Cardinality({i \in 1..Len(v) : ~PairBefore(x, v[i])}) + 1, x)
           step == [p \in (1..n) \X V |-> add(p[2], seq[p[1]])]
           it == CHOOSE f : f = [t \in SUBSET (1..n) |->
                     IF t = {} THEN <<>> ELSE add(f[t \ {Max(t)}], seq[Max(t)])]
           acc == [k \in 0..n |-> it[1..k]]
<1>1. n \in Nat /\ DOMAIN seq = 1..n /\ <<>> \in V /\ \A k \in 1..n : seq[k] \in Pair
  OBVIOUS
<1>2. SortedPairs(seq) = it[1..n]
  BY <1>1 DEF SortedPairs, FoldLeft, MapThenFoldSet
<1>3. \A v \in V, x \in Pair : add(v, x) \in V /\ Len(add(v, x)) = Len(v) + 1
  <2>1. ASSUME NEW v \in V, NEW x \in Pair PROVE add(v, x) \in V /\ Len(add(v, x)) = Len(v) + 1
    <3>1. {i \in 1..Len(v) : ~PairBefore(x, v[i])} \in SUBSET (1..Len(v))
      OBVIOUS
    <3> QED
      BY <3>1, Inserted
  <2> QED
    BY <2>1
<1> HIDE DEF n, V, add
<1>4. step \in [(1..n) \X V -> V]
  BY <1>1, <1>3
<1>5. \A k \in 1..n, v \in V : step[<<k, v>>] = add(v, seq[k])
  OBVIOUS
<1> HIDE DEF step
<1>6. PICK f : IsFold(f, n, V, <<>>, step)
  BY <1>1, <1>4, FoldExists
<1>7. f = [t \in SUBSET (1..n) |-> IF t = {} THEN <<>> ELSE add(f[t \ {Max(t)}], seq[Max(t)])]
  <2>1. \A t \in SUBSET (1..n) : t # {} => Max(t) \in 1..n /\ f[t \ {Max(t)}] \in V
    BY <1>1, <1>6, MaxOf DEF IsFold
  <2> QED
    BY <1>5, <1>6, <2>1 DEF IsFold
<1>8. it = [t \in SUBSET (1..n) |-> IF t = {} THEN <<>> ELSE add(it[t \ {Max(t)}], seq[Max(t)])]
  BY <1>7
<1> HIDE DEF it
<1>9. FoldsWhereTyped(it, n, V, <<>>, step)
  <2>1. \A t \in SUBSET (1..n) : t # {} => Max(t) \in 1..n
    BY <1>1, MaxOf
  <2> QED
    BY <1>5, <1>8, <2>1 DEF FoldsWhereTyped
<1>10. Runs(acc, n, V, <<>>, step)
  BY <1>1, <1>4, <1>9, FoldRuns
<1>11. acc[n] = it[1..n]
  BY <1>1
<1> HIDE DEF acc
<1>12. \A k \in 1..n, v \in V : Len(step[<<k, v>>]) = Len(v) + 1
  BY <1>1, <1>3, <1>5
<1>13. acc[n] \in Seq(Pair) /\ Len(acc[n]) = n
  BY <1>1, <1>10, <1>12, Lengths DEF V
<1> QED
  BY <1>2, <1>11, <1>13 DEF n

-----------------------------------------------------------------------------
(* The buckets of a calibration *)

LEMMA MedianType ==
    ASSUME NEW seq \in Seq(Nat), Len(seq) >= 1
    PROVE  MedianTwice(seq) \in Nat
<1> DEFINE n == Len(seq)
           a == (n + 1) \div 2
           b == (n + 2) \div 2
<1>1. n \in Nat \ {0}
  OBVIOUS
<1>2. a \in 1..n /\ b \in 1..n
  BY <1>1
<1>3. seq[a] \in Nat /\ seq[b] \in Nat
  BY <1>2
<1> QED
  BY <1>3 DEF MedianTwice

\* The edges of the buckets when len rows are dealt to as many bins or fewer.
Edge(b, len, bins) == (b * len) \div bins

LEMMA Edges ==
    ASSUME NEW len \in Nat, NEW bins \in 1..len, NEW b \in 1..bins
    PROVE  /\ Edge(b - 1, len, bins) \in 0..(len - 1) /\ Edge(b, len, bins) \in 1..len
           /\ Edge(b - 1, len, bins) < Edge(b, len, bins)
<1> DEFINE p == Edge(b - 1, len, bins)
           q == Edge(b, len, bins)
           r == ((b - 1) * len) % bins
           s == (b * len) % bins
<1>1. /\ bins \in Nat \ {0} /\ b - 1 \in Nat /\ b \in Nat /\ len \in Int /\ b \in Int /\ bins \in Int
      /\ b - 1 \in Int
  OBVIOUS
<1>2. /\ p \in Int /\ r \in 0..(bins - 1) /\ (b - 1) * len = bins * p + r
      /\ q \in Int /\ s \in 0..(bins - 1) /\ b * len = bins * q + s
  <2>1. (b - 1) * len \in Int /\ b * len \in Int
    BY <1>1
  <2> QED
    BY <1>1, <2>1, IntDivision DEF Edge
<1>3. b * len = (b - 1) * len + len /\ b * len <= bins * len /\ 0 <= (b - 1) * len
  <2>1. (b - 1) * len = b * len - len
    BY <1>1
  <2>2. b * len <= bins * len
    BY <1>1, TimesMonotone
  <2>3. 0 * len <= (b - 1) * len /\ 0 * len = 0
    BY <1>1, TimesMonotone
  <2> QED
    BY <1>1, <2>1, <2>2, <2>3
<1> DEFINE u == b * len
           v == (b - 1) * len
           w == bins * len
<1>4. u \in Int /\ v \in Int /\ w \in Int /\ bins * p = p * bins /\ bins * q = q * bins
      /\ w = len * bins /\ p * bins \in Int /\ q * bins \in Int
  BY <1>1, <1>2
<1> HIDE DEF p, q, r, s, u, v, w
<1>5. v = p * bins + r /\ u = q * bins + s /\ u = v + len /\ u <= w /\ 0 <= v
  BY <1>2, <1>3, <1>4 DEF u, v, w
<1>6. p < q
  <2> SUFFICES ASSUME q <= p PROVE FALSE
    BY <1>2
  <2>1. q * bins <= p * bins
    BY <1>1, <1>2, TimesMonotone
  <2> QED
    BY <1>1, <1>2, <1>4, <1>5, <2>1
<1>7. q <= len
  <2>1. q * bins <= len * bins
    BY <1>2, <1>4, <1>5
  <2> QED
    BY <1>1, <1>2, <2>1, TimesCancels
<1>8. 0 <= p
  <2> SUFFICES ASSUME p + 1 <= 0 PROVE FALSE
    BY <1>2
  <2>1. (p + 1) * bins <= 0 * bins /\ 0 * bins = 0 /\ (p + 1) * bins = p * bins + bins
    <3>1. (p + 1) * bins <= 0 * bins
      BY <1>1, <1>2, TimesMonotone, p + 1 \in Int, 0 \in Int
    <3>2. 0 * bins = 0 /\ (p + 1) * bins = p * bins + bins
      BY <1>1, <1>2
    <3> QED
      BY <3>1, <3>2
  <2> QED
    BY <1>1, <1>2, <1>4, <1>5, <2>1
<1> QED
  BY <1>2, <1>6, <1>7, <1>8 DEF p, q

Bucket(rows, bins, b) == SubSeq(rows, Edge(b - 1, Len(rows), bins) + 1, Edge(b, Len(rows), bins))

\* Every bucket has rows.
LEMMA BucketType ==
    ASSUME NEW rows \in Seq(Pair), NEW bins \in 1..Len(rows), NEW b \in 1..bins
    PROVE  /\ Bucket(rows, bins, b) \in Seq(Pair) /\ Len(Bucket(rows, bins, b)) \in Nat \ {0}
           /\ MedianTwice([i \in 1..Len(Bucket(rows, bins, b)) |-> Bucket(rows, bins, b)[i].raw]) \in Nat
           /\ MedianTwice(Sorted([i \in 1..Len(Bucket(rows, bins, b)) |->
                                     Bucket(rows, bins, b)[i].target])) \in Nat
<1> DEFINE len == Len(rows)
           p == Edge(b - 1, len, bins)
           q == Edge(b, len, bins)
           c == Bucket(rows, bins, b)
           raws == [i \in 1..Len(c) |-> c[i].raw]
           targets == [i \in 1..Len(c) |-> c[i].target]
<1>1. len \in Nat
  OBVIOUS
<1>2. p \in 0..(len - 1) /\ q \in 1..len /\ p < q
  BY <1>1, Edges
<1> HIDE DEF p, q
<1>3. c = SubSeq(rows, p + 1, q)
  BY DEF Bucket, p, q
<1> HIDE DEF c
<1>4. c \in Seq(Pair) /\ Len(c) = q - p
  <2>1. p + 1 \in 1..(len + 1) /\ q \in ((p + 1) - 1)..len /\ q - (p + 1) + 1 = q - p
    BY <1>1, <1>2
  <2> QED
    BY <1>3, <2>1, SubSeqIs
<1>5. Len(c) \in Nat \ {0}
  BY <1>2, <1>4
<1>6. raws \in Seq(Nat) /\ Len(raws) = Len(c) /\ targets \in Seq(Nat) /\ Len(targets) = Len(c)
  <2>1. \A i \in 1..Len(c) : c[i] \in Pair
    BY <1>4
  <2>2. raws \in [1..Len(c) -> Nat] /\ targets \in [1..Len(c) -> Nat]
    BY <2>1 DEF Pair
  <2> HIDE DEF raws, targets
  <2> QED
    BY <1>5, <2>2, MadeSeq
<1> HIDE DEF raws, targets
<1>7. Sorted(targets) \in Seq(Nat) /\ Len(Sorted(targets)) = Len(c)
  BY <1>6, SortedType
<1>8. MedianTwice(raws) \in Nat /\ MedianTwice(Sorted(targets)) \in Nat
  BY <1>5, <1>6, <1>7, MedianType
<1> QED
  BY <1>4, <1>5, <1>8 DEF c, raws, targets

-----------------------------------------------------------------------------
(* Anchors *)

Anchor == [x : Nat, y : Nat]
Anchors == {old \in Seq(Anchor) : Len(old) >= 1}
Origin == <<[x |-> 0, y |-> 0]>>
Add(old, p) ==
    IF p.x = 0 THEN old
    ELSE IF p.x <= Last(old).x THEN [old EXCEPT ![Len(old)].y = AtLeast(@, p.y)]
    ELSE Append(old, p)

\* The point of each bucket, from the medians of the buckets.
Middles(rows, bins) ==
    [b \in 1..bins |-> MedianTwice([i \in 1..Len(Bucket(rows, bins, b)) |-> Bucket(rows, bins, b)[i].raw])]
Heights(rows, bins) ==
    Pav([b \in 1..bins |-> MedianTwice(Sorted([i \in 1..Len(Bucket(rows, bins, b)) |->
                                                  Bucket(rows, bins, b)[i].target]))],
        [b \in 1..bins |-> Len(Bucket(rows, bins, b))])
Point(xs, ys, b) == [x |-> Round(xs[b], 2),
                     y |-> AtMost(2045, AtLeast(0, Round(ys[b].n, 2 * ys[b].d)))]
Points(rows, bins) == [b \in 1..bins |-> Point(Middles(rows, bins), Heights(rows, bins), b)]

RisingPoints(ps) ==
    /\ ps \in Seq(Anchor)
    /\ \A i \in 1..Len(ps) : \A k \in i..Len(ps) : ps[i].y <= ps[k].y

LEMMA PointsRise ==
    ASSUME NEW rows \in Seq(Pair), NEW bins \in 1..Len(rows)
    PROVE  RisingPoints(Points(rows, bins)) /\ Len(Points(rows, bins)) = bins
<1> DEFINE xs == Middles(rows, bins)
           values == [b \in 1..bins |-> MedianTwice(Sorted([i \in 1..Len(Bucket(rows, bins, b)) |->
                                                  Bucket(rows, bins, b)[i].target]))]
           weights == [b \in 1..bins |-> Len(Bucket(rows, bins, b))]
           ys == Heights(rows, bins)
           ps == Points(rows, bins)
<1>1. bins \in Nat /\ \A b \in 1..bins : xs[b] \in Nat /\ values[b] \in Int /\ weights[b] \in Nat \ {0}
  BY BucketType DEF Middles
<1>2. Weighted(values, weights) /\ Len(values) = bins
  <2>1. values \in [1..bins -> Int] /\ weights \in [1..bins -> Nat \ {0}]
    BY <1>1
  <2> HIDE DEF values, weights
  <2>2. /\ values \in Seq(Int) /\ Len(values) = bins
        /\ weights \in Seq(Nat \ {0}) /\ Len(weights) = bins
    BY <1>1, <2>1, MadeSeq
  <2> QED
    BY <2>2 DEF Weighted
<1>3. ys = Pav(values, weights)
  BY DEF Heights
<1> HIDE DEF xs, values, weights, ys
<1>4. /\ ys \in Seq(Fraction) /\ Len(ys) = bins
      /\ \A i \in 1..bins : \A k \in i..bins : NotAbove(ys[i], ys[k])
  BY <1>2, <1>3, PavIsClosest
<1> DEFINE h(b) == Round(ys[b].n, 2 * ys[b].d)
<1>5. \A b \in 1..bins : ys[b].n \in Int /\ ys[b].d \in Nat \ {0} /\ 2 * ys[b].d \in Nat \ {0}
  <2>1. ASSUME NEW b \in 1..bins PROVE ys[b].n \in Int /\ ys[b].d \in Nat \ {0}
    <3>1. ys[b] \in Fraction
      BY <1>4
    <3> QED
      BY <3>1 DEF Fraction
  <2> QED
    BY <2>1
<1>6. ASSUME NEW i \in 1..bins, NEW k \in i..bins PROVE h(i) \in Int /\ h(k) \in Int /\ h(i) <= h(k)
  <2> DEFINE a == ys[i].n
             c == ys[i].d
             b == ys[k].n
             d == ys[k].d
  <2>1. k \in 1..bins
    BY <1>1
  <2>2. a \in Int /\ c \in Nat \ {0} /\ b \in Int /\ d \in Nat \ {0} /\ a * d <= b * c
        /\ 2 * c \in Nat \ {0} /\ 2 * d \in Nat \ {0}
    BY <1>4, <1>5, <2>1 DEF NotAbove
  <2>3. h(i) = Round(a, 2 * c) /\ h(k) = Round(b, 2 * d)
    OBVIOUS
  <2> HIDE DEF a, b, c, d, h
  <2>4. a * (2 * d) <= b * (2 * c)
    <3>1. a * (2 * d) = 2 * (a * d) /\ b * (2 * c) = 2 * (b * c) /\ a * d \in Int /\ b * c \in Int
      BY <2>2
    <3> QED
      BY <2>2, <3>1
  <2> QED
    BY <2>2, <2>3, <2>4, RoundMonotone
<1>7. ASSUME NEW b \in 1..bins PROVE Round(xs[b], 2) \in Nat
  <2>1. Round(0 * 2, 2) = 0 /\ 0 * 2 = 0
    BY RoundWhole, 0 \in Int, 2 \in Nat \ {0}
  <2>2. xs[b] \in Nat
    BY <1>1
  <2>3. 0 * 2 <= xs[b] * 2 /\ xs[b] \in Int
    BY <2>2
  <2>4. Round(0, 2) <= Round(xs[b], 2) /\ Round(xs[b], 2) \in Int
    BY <2>3, RoundMonotone, 0 \in Int, 2 \in Nat \ {0}
  <2> QED
    BY <2>1, <2>4
<1>8. ps = [b \in 1..bins |-> [x |-> Round(xs[b], 2), y |-> AtMost(2045, AtLeast(0, h(b)))]]
  BY DEF Points, Point, xs, ys
<1> HIDE DEF h, ps
<1>9. \A b \in 1..bins : h(b) \in Int
  BY <1>1, <1>6
<1>10. \A b \in 1..bins : AtMost(2045, AtLeast(0, h(b))) \in Nat
  BY <1>9 DEF AtMost, AtLeast
<1>11. ps \in [1..bins -> Anchor]
  <2>1. \A b \in 1..bins : [x |-> Round(xs[b], 2), y |-> AtMost(2045, AtLeast(0, h(b)))] \in Anchor
    BY <1>7, <1>10 DEF Anchor
  <2> QED
    BY <1>8, <2>1
<1>12. ps \in Seq(Anchor) /\ Len(ps) = bins
  BY <1>1, <1>11, MadeSeq
<1>13. \A i \in 1..bins : \A k \in i..bins : ps[i].y <= ps[k].y
  <2>1. ASSUME NEW i \in 1..bins, NEW k \in i..bins PROVE ps[i].y <= ps[k].y
    <3>1. k \in 1..bins
      BY <1>1
    <3>2. ps[i].y = AtMost(2045, AtLeast(0, h(i))) /\ ps[k].y = AtMost(2045, AtLeast(0, h(k)))
      BY <1>8, <3>1
    <3> QED
      BY <1>6, <3>2 DEF AtMost, AtLeast
  <2> QED
    BY <2>1
<1> QED
  BY <1>12, <1>13 DEF RisingPoints, ps

LEMMA HeightSet ==
    ASSUME NEW x, NEW y, NEW z
    PROVE  [[x |-> x, y |-> y] EXCEPT !.y = z] = [x |-> x, y |-> z]
OBVIOUS

\* What a point does to the anchors.
Raises(new, old, p) ==
    LET n == Len(old)
    IN  /\ Len(new) = n /\ \A i \in 1..(n - 1) : new[i] = old[i]
        /\ new[n] = [x |-> old[n].x, y |-> AtLeast(old[n].y, p.y)]
Extends(new, old, p) ==
    Len(new) = Len(old) + 1 /\ new[Len(old) + 1] = p /\ \A i \in 1..Len(old) : new[i] = old[i]

LEMMA Added ==
    ASSUME NEW old \in Anchors, NEW p \in Anchor
    PROVE  /\ Add(old, p) \in Anchors
           /\ \/ p.x = 0 /\ Add(old, p) = old
              \/ p.x # 0 /\ p.x <= old[Len(old)].x /\ Raises(Add(old, p), old, p)
              \/ p.x # 0 /\ old[Len(old)].x < p.x /\ Extends(Add(old, p), old, p)
<1> DEFINE n == Len(old)
           new == Add(old, p)
           top == [x |-> old[n].x, y |-> AtLeast(old[n].y, p.y)]
<1>1. old \in Seq(Anchor) /\ n \in Nat \ {0} /\ Last(old) = old[n]
  BY DEF Anchors, Last
<1>2. DOMAIN old = 1..n /\ old = [i \in 1..n |-> old[i]] /\ \A i \in 1..n : old[i] \in Anchor
  BY <1>1
<1> HIDE DEF n
<1>3. old[n] \in Anchor
  BY <1>1, <1>2
<1>4. old[n].x \in Nat /\ old[n].y \in Nat /\ p.x \in Nat /\ p.y \in Nat
      /\ old[n] = [x |-> old[n].x, y |-> old[n].y]
  BY <1>3 DEF Anchor
<1>5. top \in Anchor
  <2>1. AtLeast(old[n].y, p.y) \in Nat
    BY <1>4 DEF AtLeast
  <2> QED
    BY <1>4, <2>1 DEF Anchor
<1>6. [old[n] EXCEPT !.y = AtLeast(old[n].y, p.y)] = top
  <2> DEFINE h == AtLeast(old[n].y, p.y)
  <2>1. [[x |-> old[n].x, y |-> old[n].y] EXCEPT !.y = h] = [x |-> old[n].x, y |-> h]
    BY HeightSet
  <2> HIDE DEF h
  <2>2. [old[n] EXCEPT !.y = h] = [x |-> old[n].x, y |-> h]
    BY <1>4, <2>1
  <2> QED
    BY <2>2 DEF h
<1>7. CASE p.x = 0
  <2>1. new = old
    BY <1>7 DEF Add
  <2> QED
    BY <1>7, <2>1
<1>8. CASE p.x # 0 /\ p.x <= old[n].x
  <2>1. new = [old EXCEPT ![n] = [old[n] EXCEPT !.y = AtLeast(old[n].y, p.y)]]
    BY <1>1, <1>8 DEF Add, n
  <2> HIDE DEF new, top
  <2>2. new = [old EXCEPT ![n] = top]
    BY <1>6, <2>1
  <2>3. new = [i \in 1..n |-> IF i = n THEN top ELSE old[i]]
    BY <1>1, <1>2, <2>2
  <2>4. new \in [1..n -> Anchor]
    BY <1>2, <1>5, <2>3
  <2>5. new \in Seq(Anchor) /\ Len(new) = n
    BY <1>1, <2>4, MadeSeq
  <2>6. new[n] = top /\ \A i \in 1..(n - 1) : new[i] = old[i]
    <3>1. n \in 1..n /\ \A i \in 1..(n - 1) : i \in 1..n /\ i # n
      BY <1>1
    <3> QED
      BY <2>3, <3>1
  <2>7. new \in Anchors
    BY <1>1, <2>5 DEF Anchors
  <2>8. Raises(new, old, p)
    BY <2>5, <2>6 DEF Raises, n, top
  <2> QED
    BY <1>8, <2>7, <2>8 DEF new, n
<1>9. CASE p.x # 0 /\ old[n].x < p.x
  <2>1. new = Append(old, p)
    <3>1. ~(p.x <= old[n].x)
      BY <1>4, <1>9
    <3> QED
      BY <1>1, <1>9, <3>1 DEF Add
  <2> HIDE DEF new, top
  <2>2. /\ new \in Seq(Anchor) /\ Len(new) = Len(old) + 1 /\ new[Len(old) + 1] = p
        /\ \A i \in 1..Len(old) : new[i] = old[i]
    BY <1>1, <2>1
  <2>3. new \in Anchors
    BY <1>1, <2>2 DEF Anchors, n
  <2>4. Extends(new, old, p)
    BY <2>2 DEF Extends
  <2> QED
    BY <1>9, <2>3, <2>4 DEF new, n
<1>10. p.x = 0 \/ (p.x # 0 /\ p.x <= old[n].x) \/ (p.x # 0 /\ old[n].x < p.x)
  BY <1>4
<1> QED
  BY <1>7, <1>8, <1>9, <1>10

\* The anchors after each bucket.
FitRounds(acc, ps) ==
    /\ acc \in [0..Len(ps) -> Anchors] /\ acc[0] = Origin
    /\ \A k \in 1..Len(ps) : acc[k - 1] \in Anchors /\ acc[k] = Add(acc[k - 1], ps[k])

LEMMA FitRuns ==
    ASSUME NEW pairs \in Seq(Pair), Len(pairs) >= 2, NEW wanted \in Int
    PROVE  \E ps : /\ RisingPoints(ps)
                   /\ \E acc : FitRounds(acc, ps) /\ FitAnchors(pairs, wanted) = acc[Len(ps)]
<1> DEFINE rows == SortedPairs(pairs)
           n == AtLeast(2, AtMost(wanted, Len(rows)))
           ps == Points(rows, n)
           order == [b \in 1..n |-> b]
           chunk(b) == SubSeq(rows, ((b - 1) * Len(rows)) \div n + 1, (b * Len(rows)) \div n)
           xs == [b \in 1..n |-> MedianTwice([i \in 1..Len(chunk(b)) |-> chunk(b)[i].raw])]
           ys == Pav([b \in 1..n |-> MedianTwice(Sorted([i \in 1..Len(chunk(b)) |-> chunk(b)[i].target]))],
                     [b \in 1..n |-> Len(chunk(b))])
           add(v, b) == Add(v, Point(xs, ys, b))
           step == [p \in (1..n) \X Anchors |-> Add(p[2], ps[p[1]])]
           it == CHOOSE f : f = [t \in SUBSET (1..n) |->
                     IF t = {} THEN Origin ELSE add(f[t \ {Max(t)}], order[Max(t)])]
           acc == [k \in 0..n |-> it[1..k]]
<1>1. rows \in Seq(Pair) /\ Len(rows) = Len(pairs) /\ Len(rows) \in Nat
  BY SortedPairsType
<1>2. FitAnchors(pairs, wanted) = it[1..n]
  <2>1. DOMAIN order = 1..n
    OBVIOUS
  <2> QED
    BY <2>1 DEF FitAnchors, FoldLeft, MapThenFoldSet, Add, Point, Origin
<1>3. xs = Middles(rows, n) /\ ys = Heights(rows, n)
  BY DEF Middles, Heights, Bucket, Edge
<1> HIDE DEF rows, xs, ys
<1>4. n \in Nat \ {0} /\ n \in 1..Len(rows)
  BY <1>1 DEF AtLeast, AtMost
<1>5. \A b \in 1..n : ps[b] = Point(xs, ys, b)
  BY <1>3 DEF Points
<1> HIDE DEF n, ps
<1>6. RisingPoints(ps) /\ Len(ps) = n
  BY <1>1, <1>4, PointsRise DEF ps
<1>7. \A k \in 1..n : ps[k] \in Anchor
  BY <1>6 DEF RisingPoints
<1>8. \A v \in Anchors, k \in 1..n : Add(v, ps[k]) \in Anchors
  BY <1>7, Added
<1>9. Origin \in Anchors /\ n \in Nat
  <2>1. [x |-> 0, y |-> 0] \in Anchor
    BY DEF Anchor
  <2>2. Origin \in Seq(Anchor) /\ Len(Origin) = 1
    BY <2>1 DEF Origin
  <2>3. Origin \in Anchors
    BY <2>2 DEF Anchors
  <2>4. n \in Nat
    BY <1>4
  <2> QED
    BY <2>3, <2>4
<1>10. step \in [(1..n) \X Anchors -> Anchors]
  BY <1>8
<1>11. \A k \in 1..n, v \in Anchors : step[<<k, v>>] = Add(v, ps[k])
  OBVIOUS
<1> HIDE DEF step
<1>12. PICK f : IsFold(f, n, Anchors, Origin, step)
  BY <1>9, <1>10, FoldExists
<1> DEFINE Same(g) == g = [t \in SUBSET (1..n) |->
                              IF t = {} THEN Origin ELSE Add(g[t \ {Max(t)}], ps[Max(t)])]
<1>13. Same(f)
  <2>1. ASSUME NEW t \in SUBSET (1..n)
        PROVE  f[t] = IF t = {} THEN Origin ELSE Add(f[t \ {Max(t)}], ps[Max(t)])
    <3>1. CASE t = {}
      BY <1>12, <3>1 DEF IsFold
    <3>2. CASE t # {}
      <4>1. Max(t) \in 1..n /\ f[t \ {Max(t)}] \in Anchors
        BY <1>9, <1>12, <3>2, MaxOf DEF IsFold
      <4>2. f[t] = step[<<Max(t), f[t \ {Max(t)}]>>]
        BY <1>12, <3>2 DEF IsFold
      <4> QED
        BY <1>11, <3>2, <4>1, <4>2
    <3> QED
      BY <3>1, <3>2
  <2>2. f = [t \in SUBSET (1..n) |-> f[t]]
    BY <1>12 DEF IsFold
  <2> QED
    BY <2>1, <2>2
<1>14. it = CHOOSE g : Same(g)
  <2>1. \A t \in SUBSET (1..n) : t # {} => order[Max(t)] = Max(t) /\ ps[Max(t)] = Point(xs, ys, Max(t))
    BY <1>5, <1>9, MaxOf
  <2> HIDE DEF order
  <2>2. \A g : [t \in SUBSET (1..n) |->
                   IF t = {} THEN Origin ELSE add(g[t \ {Max(t)}], order[Max(t)])]
             = [t \in SUBSET (1..n) |-> IF t = {} THEN Origin ELSE Add(g[t \ {Max(t)}], ps[Max(t)])]
    BY <2>1
  <2> QED
    BY <2>2
<1> HIDE DEF it
<1>15. Same(it)
  <2> HIDE DEF Same
  <2> QED
    BY <1>13, <1>14
<1>16. FoldsWhereTyped(it, n, Anchors, Origin, step)
  <2>1. \A t \in SUBSET (1..n) : t # {} => Max(t) \in 1..n
    BY <1>9, MaxOf
  <2> QED
    BY <1>11, <1>15, <2>1 DEF FoldsWhereTyped
<1>17. Runs(acc, n, Anchors, Origin, step)
  BY <1>9, <1>10, <1>16, FoldRuns
<1>18. acc[n] = it[1..n]
  BY <1>9
<1> HIDE DEF acc
<1>19. FitRounds(acc, ps)
  <2>1. /\ acc \in [0..n -> Anchors] /\ acc[0] = Origin
        /\ \A k \in 1..n : acc[k - 1] \in Anchors /\ acc[k] = Add(acc[k - 1], ps[k])
    BY <1>11, <1>17 DEF Runs
  <2> QED
    BY <1>6, <2>1 DEF FitRounds
<1>20. FitAnchors(pairs, wanted) = acc[Len(ps)]
  BY <1>2, <1>6, <1>18
<1> QED
  BY <1>6, <1>19, <1>20

\* Anchors that rise strictly from the origin.
RisingAnchors(old) ==
    /\ old \in Anchors /\ old[1] = [x |-> 0, y |-> 0]
    /\ \A i \in 2..Len(old) : old[i - 1].x < old[i].x /\ old[i - 1].y <= old[i].y

\* A point that is not below the last anchor keeps them rising: at the x of the last
\* anchor it cannot be the origin, which it would have to be at zero.
LEMMA AddedRises ==
    ASSUME NEW old, RisingAnchors(old), NEW p \in Anchor, old[Len(old)].y <= p.y
    PROVE  LET new == Add(old, p)
           IN  RisingAnchors(new) /\ new[Len(new)].y <= p.y
<1> DEFINE n == Len(old)
           new == Add(old, p)
<1>1. /\ old \in Anchors /\ n \in Nat \ {0} /\ \A i \in 1..n : old[i] \in Anchor
      /\ old[1] = [x |-> 0, y |-> 0]
      /\ \A i \in 2..n : old[i - 1].x < old[i].x /\ old[i - 1].y <= old[i].y
  BY DEF RisingAnchors, Anchors
<1>2. p.x \in Nat /\ p.y \in Nat /\ \A i \in 1..n : old[i].x \in Nat /\ old[i].y \in Nat
  BY <1>1 DEF Anchor
<1>3. new \in Anchors /\ old[n].y <= p.y
  BY <1>1, Added
<1> HIDE DEF n, new
<1>4. CASE p.x = 0 /\ new = old
  <2>1. RisingAnchors(new) /\ new[Len(new)].y <= p.y
    BY <1>3, <1>4 DEF n
  <2> QED
    BY <2>1 DEF new
<1>5. CASE p.x # 0 /\ p.x <= old[n].x /\ Raises(new, old, p)
  <2>1. Len(new) = n /\ \A i \in 1..(n - 1) : new[i] = old[i]
    BY <1>5 DEF Raises, n
  <2>2. new[n] = [x |-> old[n].x, y |-> AtLeast(old[n].y, p.y)]
    BY <1>5 DEF Raises, n
  <2>3. n \in 1..n
    BY <1>1
  <2>4. new[n].x = old[n].x /\ new[n].y = p.y
    <3>1. AtLeast(old[n].y, p.y) = p.y
      BY <1>2, <1>3, <2>3 DEF AtLeast
    <3> QED
      BY <2>2, <3>1
  <2>5. n >= 2
    <3>1. n = 1 => old[n].x = 0
      BY <1>1
    <3> QED
      BY <1>1, <1>2, <1>5, <3>1
  <2>6. new[1] = [x |-> 0, y |-> 0]
    BY <1>1, <2>1, <2>5
  <2>7. ASSUME NEW i \in 2..n PROVE new[i - 1].x < new[i].x /\ new[i - 1].y <= new[i].y
    <3>1. /\ i - 1 \in 1..(n - 1) /\ i - 1 \in 1..n /\ i \in 1..n
          /\ old[i - 1].x < old[i].x /\ old[i - 1].y <= old[i].y
      BY <1>1
    <3>2. new[i - 1] = old[i - 1]
      BY <2>1, <3>1
    <3>3. CASE i = n
      <4>1. old[i - 1].y <= p.y
        BY <1>2, <1>3, <2>3, <3>1, <3>3
      <4> QED
        BY <2>4, <3>1, <3>2, <3>3, <4>1
    <3>4. CASE i # n
      <4>1. new[i] = old[i]
        BY <1>1, <2>1, <3>4
      <4> QED
        BY <3>1, <3>2, <4>1
    <3> QED
      BY <3>3, <3>4
  <2>8. RisingAnchors(new)
    BY <1>3, <2>1, <2>6, <2>7 DEF RisingAnchors
  <2>9. new[Len(new)].y <= p.y
    BY <1>2, <2>1, <2>4
  <2> QED
    BY <2>8, <2>9 DEF new
<1>6. CASE p.x # 0 /\ old[n].x < p.x /\ Extends(new, old, p)
  <2>1. Len(new) = n + 1 /\ new[n + 1] = p /\ \A i \in 1..n : new[i] = old[i]
    BY <1>6 DEF Extends, n
  <2>2. new[1] = [x |-> 0, y |-> 0] /\ n + 1 \in Nat
    BY <1>1, <2>1
  <2>3. ASSUME NEW i \in 2..(n + 1) PROVE new[i - 1].x < new[i].x /\ new[i - 1].y <= new[i].y
    <3>1. i - 1 \in 1..n /\ new[i - 1] = old[i - 1]
      BY <1>1, <2>1
    <3>2. CASE i = n + 1
      BY <1>1, <1>3, <1>6, <2>1, <3>1, <3>2
    <3>3. CASE i # n + 1
      <4>1. i \in 2..n /\ i \in 1..n
        BY <1>1, <3>3
      <4> QED
        BY <1>1, <2>1, <3>1, <4>1
    <3> QED
      BY <3>2, <3>3
  <2>4. RisingAnchors(new)
    BY <1>3, <2>1, <2>2, <2>3 DEF RisingAnchors
  <2>5. new[Len(new)].y <= p.y
    BY <1>2, <2>1
  <2> QED
    BY <2>4, <2>5 DEF new
<1>7. \/ p.x = 0 /\ new = old
      \/ p.x # 0 /\ p.x <= old[n].x /\ Raises(new, old, p)
      \/ p.x # 0 /\ old[n].x < p.x /\ Extends(new, old, p)
  BY <1>1, Added DEF n, new
<1>8. RisingAnchors(new) /\ new[Len(new)].y <= p.y
  <2>1. CASE p.x = 0 /\ new = old
    BY <1>4, <2>1 DEF new
  <2>2. CASE p.x # 0 /\ p.x <= old[n].x /\ Raises(new, old, p)
    BY <1>5, <2>2 DEF new
  <2>3. CASE p.x # 0 /\ old[n].x < p.x /\ Extends(new, old, p)
    BY <1>6, <2>3 DEF new
  <2> QED
    BY <1>7, <2>1, <2>2, <2>3
<1> QED
  BY <1>8 DEF new

\* fit_anchors: the anchors rise strictly from the origin.
LEMMA FittedRise ==
    ASSUME NEW pairs \in Seq(Pair), Len(pairs) >= 2, NEW wanted \in Int
    PROVE  RisingAnchors(FitAnchors(pairs, wanted))
<1>1. PICK ps, acc : RisingPoints(ps) /\ FitRounds(acc, ps) /\ FitAnchors(pairs, wanted) = acc[Len(ps)]
  BY FitRuns
<1> DEFINE n == Len(ps)
           Below(old, k) == \A i \in 1..n : k <= i => old[Len(old)].y <= ps[i].y
           T == {k \in 0..n : RisingAnchors(acc[k]) /\ Below(acc[k], k)}
<1>2. n \in Nat /\ \A i \in 1..n : ps[i] \in Anchor /\ ps[i].y \in Nat
  <2>1. ps \in Seq(Anchor)
    BY <1>1 DEF RisingPoints
  <2>2. n \in Nat /\ \A i \in 1..n : ps[i] \in Anchor
    BY <2>1
  <2>3. \A p \in Anchor : p.y \in Nat
    BY DEF Anchor
  <2> QED
    BY <2>2, <2>3
<1>3. 0 \in T
  <2>1. acc[0] = Origin /\ acc[0] \in Anchors
    BY <1>1, <1>2 DEF FitRounds
  <2>2. Len(Origin) = 1 /\ Origin[1] = [x |-> 0, y |-> 0]
    BY DEF Origin
  <2>3. RisingAnchors(acc[0])
    BY <2>1, <2>2 DEF RisingAnchors
  <2>4. Below(acc[0], 0)
    BY <1>2, <2>1, <2>2
  <2> QED
    BY <1>2, <2>3, <2>4
<1>4. ASSUME NEW k \in 1..n, k - 1 \in T PROVE k \in T
  <2> DEFINE old == acc[k - 1]
             new == acc[k]
  <2>1. old \in Anchors /\ new = Add(old, ps[k])
    BY <1>1 DEF FitRounds
  <2>2. RisingAnchors(old) /\ old[Len(old)].y <= ps[k].y
    <3>1. k - 1 <= k
      BY <1>2
    <3> QED
      BY <1>4, <3>1
  <2> HIDE DEF old, new
  <2>3. RisingAnchors(new) /\ new[Len(new)].y <= ps[k].y
    BY <1>2, <2>1, <2>2, AddedRises
  <2>4. new[Len(new)].y \in Nat
    <3>1. Len(new) \in 1..Len(new) /\ new \in Seq(Anchor)
      BY <2>3 DEF RisingAnchors, Anchors
    <3>2. new[Len(new)] \in Anchor
      BY <3>1
    <3> QED
      BY <3>2 DEF Anchor
  <2>5. ASSUME NEW i \in 1..n, k <= i PROVE new[Len(new)].y <= ps[i].y
    <3>1. i \in k..n
      BY <1>2, <2>5
    <3>2. ps[k].y <= ps[i].y
      BY <1>1, <3>1 DEF RisingPoints
    <3> QED
      BY <1>2, <2>3, <2>4, <3>2
  <2>6. k \in 0..n
    OBVIOUS
  <2> QED
    BY <2>3, <2>5, <2>6 DEF new
<1> HIDE DEF T
<1>5. \A k \in 0..n : k \in T
  BY <1>2, <1>3, <1>4, Induct
<1>6. n \in T
  BY <1>2, <1>5
<1> QED
  BY <1>1, <1>6 DEF T

-----------------------------------------------------------------------------
(* Applying anchors *)

\* The piece a magnitude falls into, and what its line makes of it; the last line goes on.
PieceOf(old, m) ==
    LET within == {i \in 2..Len(old) : m <= old[i].x}
    IN  IF within = {} THEN Len(old) ELSE CHOOSE i \in within : \A j \in within : i <= j
OnLine(old, i, m) ==
    Round(old[i - 1].y * (old[i].x - old[i - 1].x) + (m - old[i - 1].x) * (old[i].y - old[i - 1].y),
          old[i].x - old[i - 1].x)

LEMMA AnchorsType ==
    ASSUME NEW old, RisingAnchors(old)
    PROVE  /\ Len(old) \in Nat \ {0} /\ \A i \in 1..Len(old) : old[i].x \in Nat /\ old[i].y \in Nat
           /\ \A i \in 1..Len(old) : \A j \in i..Len(old) : old[i].y <= old[j].y
<1> DEFINE n == Len(old)
<1>1. /\ n \in Nat \ {0} /\ \A i \in 1..n : old[i] \in Anchor
      /\ \A i \in 2..n : old[i - 1].x < old[i].x /\ old[i - 1].y <= old[i].y
  BY DEF RisingAnchors, Anchors
<1> HIDE DEF n
<1>2. \A i \in 1..n : old[i].x \in Nat /\ old[i].y \in Nat
  BY <1>1 DEF Anchor
<1>3. ASSUME NEW i \in 1..n, NEW j \in i..n PROVE old[i].y <= old[j].y
  <2> DEFINE T == {k \in 0..n : i <= k => old[i].y <= old[k].y}
  <2>1. 0 \in T
    BY <1>1
  <2>2. ASSUME NEW k \in 1..n, k - 1 \in T PROVE k \in T
    <3>1. CASE i = k
      BY <1>1, <1>2, <3>1
    <3>2. CASE i # k
      <4>1. i <= k => i <= k - 1 /\ k \in 2..n /\ k - 1 \in 1..n
        BY <1>1, <3>2
      <4>2. i <= k - 1 => old[i].y <= old[k - 1].y
        BY <2>2
      <4>3. k \in 2..n => old[k - 1].y <= old[k].y
        BY <1>1
      <4>4. i <= k => old[i].y <= old[k].y
        BY <1>2, <4>1, <4>2, <4>3
      <4> QED
        BY <1>1, <4>4
    <3> QED
      BY <3>1, <3>2
  <2> HIDE DEF T
  <2>3. j \in T /\ i <= j
    <3>1. n \in Nat /\ j \in 0..n /\ i <= j
      BY <1>1
    <3> QED
      BY <2>1, <2>2, <3>1, Induct
  <2> QED
    BY <2>3 DEF T
<1> QED
  BY <1>1, <1>2, <1>3 DEF n

\* A line starts and ends at its anchors and does not fall.
LEMMA LineRises ==
    ASSUME NEW old, RisingAnchors(old), NEW i \in 2..Len(old)
    PROVE  /\ OnLine(old, i, old[i - 1].x) = old[i - 1].y
           /\ OnLine(old, i, old[i].x) = old[i].y
           /\ \A m, k \in Int : m <= k => /\ OnLine(old, i, m) \in Int /\ OnLine(old, i, k) \in Int
                                          /\ OnLine(old, i, m) <= OnLine(old, i, k)
<1> DEFINE px == old[i - 1].x
           py == old[i - 1].y
           qx == old[i].x
           qy == old[i].y
           w == qx - px
           h == qy - py
           at(m) == Round(py * w + (m - px) * h, w)
<1>1. /\ px \in Nat /\ py \in Nat /\ qx \in Nat /\ qy \in Nat /\ px < qx /\ py <= qy
  <2>1. i - 1 \in 1..Len(old) /\ i \in 1..Len(old)
    BY AnchorsType
  <2> QED
    BY <2>1, AnchorsType DEF RisingAnchors
<1>2. \A m : OnLine(old, i, m) = at(m)
  BY DEF OnLine
<1> HIDE DEF px, py, qx, qy
<1>3. w \in Nat \ {0} /\ h \in Nat
  BY <1>1
<1>4. at(px) = py
  <2>1. py * w + (px - px) * h = py * w
    <3>1. px - px = 0 /\ 0 * h = 0 /\ py * w \in Int
      BY <1>1, <1>3
    <3> QED
      BY <3>1
  <2>2. Round(py * w, w) = py
    BY <1>1, <1>3, RoundWhole
  <2> QED
    BY <2>1, <2>2
<1>5. at(qx) = qy
  <2>1. py * w + (qx - px) * h = qy * w
    <3>1. (qx - px) * h = w * h /\ w * h = h * w /\ h * w = qy * w - py * w /\ py * w \in Int /\ qy * w \in Int
      <4> DEFINE v == w
      <4>1. v \in Nat
        BY <1>3
      <4> HIDE DEF v
      <4>2. (qy - py) * v = qy * v - py * v /\ py * v \in Int /\ qy * v \in Int /\ v * (qy - py) = (qy - py) * v
        BY <1>1, <4>1
      <4> QED
        BY <4>2 DEF v
    <3> QED
      BY <3>1
  <2>2. Round(qy * w, w) = qy
    BY <1>1, <1>3, RoundWhole
  <2> QED
    BY <2>1, <2>2
<1>6. ASSUME NEW m \in Int, NEW k \in Int, m <= k
      PROVE  at(m) \in Int /\ at(k) \in Int /\ at(m) <= at(k)
  <2> DEFINE a == py * w + (m - px) * h
             b == py * w + (k - px) * h
  <2>1. (m - px) * h <= (k - px) * h /\ py * w \in Int /\ (m - px) * h \in Int /\ (k - px) * h \in Int
    <3>1. m - px \in Int /\ k - px \in Int /\ m - px <= k - px
      BY <1>1, <1>6
    <3> QED
      BY <1>1, <1>3, <3>1, TimesMonotone
  <2>2. a \in Int /\ b \in Int /\ a <= b
    BY <2>1
  <2> HIDE DEF a, b
  <2>3. a * w <= b * w
    BY <1>3, <2>2, TimesMonotone
  <2> HIDE DEF w
  <2>4. Round(a, w) \in Int /\ Round(b, w) \in Int /\ Round(a, w) <= Round(b, w)
    BY <1>3, <2>2, <2>3, RoundMonotone
  <2> QED
    BY <2>4 DEF a, b
<1> QED
  BY <1>2, <1>4, <1>5, <1>6 DEF px, py, qx, qy

LEMMA PieceIs ==
    ASSUME NEW old, RisingAnchors(old), Len(old) >= 2, NEW m \in Nat
    PROVE  LET i == PieceOf(old, m)
           IN  /\ i \in 2..Len(old)
               /\ i < Len(old) => m <= old[i].x
               /\ \A j \in 1..(i - 1) : old[j].x <= m
<1> DEFINE n == Len(old)
           within == {i \in 2..n : m <= old[i].x}
           i == PieceOf(old, m)
<1>1. n \in Nat /\ n >= 2 /\ old[1].x = 0 /\ \A j \in 1..n : old[j].x \in Nat
  BY AnchorsType DEF RisingAnchors
<1> HIDE DEF n
<1>2. \A j \in 1..n : j \notin within => old[j].x <= m
  <2>1. ASSUME NEW j \in 1..n, j \notin within PROVE old[j].x <= m
    <3>1. CASE j = 1
      BY <1>1, <3>1
    <3>2. CASE j # 1
      <4>1. j \in 2..n /\ old[j].x \in Nat
        BY <1>1, <3>2
      <4> QED
        BY <2>1, <4>1
    <3> QED
      BY <3>1, <3>2
  <2> QED
    BY <2>1
<1>3. CASE within = {}
  <2>1. i = n
    BY <1>3 DEF PieceOf, n
  <2> HIDE DEF i
  <2>2. \A j \in 1..(i - 1) : old[j].x <= m
    BY <1>1, <1>2, <1>3, <2>1
  <2> QED
    BY <1>1, <2>1, <2>2 DEF i, n
<1>4. CASE within # {}
  <2>1. within \subseteq 2..n
    OBVIOUS
  <2>2. PICK e \in within : \A j \in within : e <= j
    <3>1. within \subseteq Nat
      BY <1>1
    <3> HIDE DEF within
    <3> QED
      BY <1>4, <3>1, Least
  <2>3. i = CHOOSE k \in within : \A j \in within : k <= j
    BY <1>4 DEF PieceOf, n
  <2> HIDE DEF i
  <2>4. i \in within /\ \A j \in within : i <= j
    BY <2>2, <2>3
  <2>5. i \in 2..n /\ m <= old[i].x
    BY <2>4
  <2>6. ASSUME NEW j \in 1..(i - 1) PROVE old[j].x <= m
    <3>1. j \in 1..n /\ ~(i <= j)
      BY <1>1, <2>5
    <3>2. j \notin within
      BY <2>4, <3>1
    <3> QED
      BY <1>2, <3>1, <3>2
  <2> QED
    BY <2>5, <2>6 DEF i, n
<1> QED
  BY <1>3, <1>4

\* A higher magnitude is not lower on the lines, and none is below zero.
LEMMA LinesRise ==
    ASSUME NEW old, RisingAnchors(old), Len(old) >= 2, NEW m \in Nat, NEW k \in Nat, m <= k
    PROVE  LET at(v) == OnLine(old, PieceOf(old, v), v)
           IN  at(m) \in Int /\ at(k) \in Int /\ 0 <= at(m) /\ at(m) <= at(k)
<1> DEFINE n == Len(old)
           i == PieceOf(old, m)
           j == PieceOf(old, k)
           a == OnLine(old, i, m)
           b == OnLine(old, j, k)
<1>1. /\ n \in Nat /\ \A e \in 1..n : old[e].x \in Nat /\ old[e].y \in Nat
      /\ \A e \in 1..n : \A f \in e..n : old[e].y <= old[f].y
  BY AnchorsType
<1>2. /\ i \in 2..n /\ (i < n => m <= old[i].x) /\ old[i - 1].x <= m
  <2>1. i \in 2..n /\ (i < n => m <= old[i].x) /\ \A e \in 1..(i - 1) : old[e].x <= m
    BY PieceIs
  <2>2. i - 1 \in 1..(i - 1)
    BY <1>1, <2>1
  <2> QED
    BY <2>1, <2>2
<1>3. /\ j \in 2..n /\ \A e \in 1..(j - 1) : old[e].x <= k
  BY PieceIs
<1>4. \A e \in 1..(i - 1) : old[e].x <= m
  BY PieceIs
<1>5. (j < n => k <= old[j].x)
  BY PieceIs
<1> HIDE DEF i, j
<1>6. /\ a \in Int /\ b \in Int
      /\ OnLine(old, i, old[i - 1].x) <= a /\ OnLine(old, i, old[i - 1].x) = old[i - 1].y
  <2>1. m \in Int /\ k \in Int /\ old[i - 1].x \in Int /\ i - 1 \in 1..n
    BY <1>1, <1>2
  <2> QED
    BY <1>2, <1>3, <2>1, LineRises
<1>7. 0 <= a
  <2>1. old[i - 1].y \in Nat
    BY <1>1, <1>2
  <2> HIDE DEF a
  <2> QED
    BY <1>6, <2>1
<1>8. CASE i = j
  <2>1. m \in Int /\ k \in Int
    OBVIOUS
  <2>2. OnLine(old, i, m) <= OnLine(old, i, k)
    BY <1>2, <2>1, LineRises
  <2>3. a <= b
    BY <1>8, <2>2
  <2> QED
    BY <1>6, <1>7, <2>3 DEF i, j
<1>9. CASE i < j
  <2>1. i \in 1..n /\ i < n /\ m <= old[i].x /\ old[i].x \in Int /\ m \in Int /\ k \in Int
    BY <1>1, <1>2, <1>3, <1>9
  <2>2. a <= old[i].y
    <3>1. OnLine(old, i, m) <= OnLine(old, i, old[i].x) /\ OnLine(old, i, old[i].x) = old[i].y
      BY <1>2, <2>1, LineRises
    <3> QED
      BY <3>1
  <2>3. j - 1 \in i..n /\ j - 1 \in 1..n /\ j - 1 \in 1..(j - 1)
    BY <1>1, <1>2, <1>3, <1>9
  <2>4. old[i].y <= old[j - 1].y
    BY <1>1, <2>1, <2>3
  <2>5. old[j - 1].y <= b
    <3>1. old[j - 1].x <= k /\ old[j - 1].x \in Int
      BY <1>1, <1>3, <2>3
    <3>2. OnLine(old, j, old[j - 1].x) <= OnLine(old, j, k) /\ OnLine(old, j, old[j - 1].x) = old[j - 1].y
      BY <1>3, <2>1, <3>1, LineRises
    <3> QED
      BY <3>2
  <2>6. old[i].y \in Int /\ old[j - 1].y \in Int
    BY <1>1, <2>1, <2>3
  <2> HIDE DEF a, b
  <2>7. a <= b
    BY <1>6, <2>2, <2>4, <2>5, <2>6
  <2> QED
    BY <1>6, <1>7, <2>7 DEF a, b, i, j
<1>10. ~(j < i)
  <2> SUFFICES ASSUME j < i PROVE FALSE
    OBVIOUS
  <2>1. j < n /\ j \in 1..(i - 1) /\ j \in 1..n
    BY <1>1, <1>2, <1>3
  <2>2. k <= old[j].x /\ old[j].x <= m /\ old[j].x \in Nat
    BY <1>1, <1>4, <1>5, <2>1
  <2>3. m = k
    BY <2>2
  <2>4. i = j
    BY <2>3 DEF i, j
  <2> QED
    BY <1>2, <2>4
<1>11. i = j \/ i < j \/ j < i
  BY <1>2, <1>3
<1> QED
  BY <1>8, <1>9, <1>10, <1>11

\* apply_anchors on a score, from its magnitude.
Height(old, m) == AtMost(2045, OnLine(old, PieceOf(old, m), m))

LEMMA ApplyIs ==
    ASSUME NEW old, RisingAnchors(old), Len(old) >= 2, NEW score \in Int
    PROVE  ApplyAnchors(score, old) =
               IF Abs(score) = 0 THEN 0
               ELSE (IF score < 0 THEN -1 ELSE 1) * Height(old, Abs(score))
<1> DEFINE m == Abs(score)
           n == Len(old)
           within == {i \in 2..n : m <= old[i].x}
           i == PieceOf(old, m)
           p == old[i - 1]
           q == old[i]
           width == AtLeast(1, q.x - p.x)
           y == IF within = {} THEN Round(q.y * width + (m - q.x) * (q.y - p.y), width)
                ELSE Round(p.y * width + (m - p.x) * (q.y - p.y), width)
<1>1. ApplyAnchors(score, old) = IF m = 0 THEN 0 ELSE (IF score < 0 THEN -1 ELSE 1) * AtMost(2045, y)
  BY DEF ApplyAnchors, PieceOf
<1>2. m \in Nat
  BY DEF Abs
<1> HIDE DEF m
<1>3. i \in 2..n
  BY <1>2, PieceIs
<1> HIDE DEF i, n, within
<1>4. p.x \in Nat /\ p.y \in Nat /\ q.x \in Nat /\ q.y \in Nat /\ p.x < q.x
  <2>1. i - 1 \in 1..n /\ i \in 1..n /\ n \in Nat
    BY <1>3, AnchorsType DEF n
  <2> QED
    BY <1>3, <2>1, AnchorsType DEF RisingAnchors, n
<1> DEFINE w == q.x - p.x
<1>5. OnLine(old, i, m) = Round(p.y * w + (m - p.x) * (q.y - p.y), w)
  BY DEF OnLine
<1>6. width = w
  BY <1>4 DEF AtLeast
<1>7. q.y * w + (m - q.x) * (q.y - p.y) = p.y * w + (m - p.x) * (q.y - p.y)
  <2>1. \A px, py, qx, qy, v \in Int :
            qy * (qx - px) + (v - qx) * (qy - py) = py * (qx - px) + (v - px) * (qy - py)
    OBVIOUS
  <2> HIDE DEF p, q
  <2>2. p.x \in Int /\ p.y \in Int /\ q.x \in Int /\ q.y \in Int /\ m \in Int
    BY <1>2, <1>4
  <2> QED
    BY <2>1, <2>2
<1>8. y = OnLine(old, i, m)
  BY <1>5, <1>6, <1>7
<1> HIDE DEF y
<1> QED
  BY <1>1, <1>8 DEF Height, m, i

\* What a calibration makes of scores is odd and does not fall.
LEMMA AppliedInOrder ==
    ASSUME NEW old, RisingAnchors(old), Len(old) >= 2, NEW s \in Int, NEW t \in Int
    PROVE  /\ s <= t => ApplyAnchors(s, old) <= ApplyAnchors(t, old)
           /\ ApplyAnchors(-s, old) = -ApplyAnchors(s, old)
<1> DEFINE h(m) == Height(old, m)
<1>1. ASSUME NEW m \in Nat, NEW k \in Nat, m <= k PROVE h(m) \in Nat /\ h(k) \in Nat /\ h(m) <= h(k)
  <2> DEFINE a == OnLine(old, PieceOf(old, m), m)
             b == OnLine(old, PieceOf(old, k), k)
  <2>1. a \in Int /\ b \in Int /\ 0 <= a /\ a <= b
    BY <1>1, LinesRise
  <2>2. h(m) = AtMost(2045, a) /\ h(k) = AtMost(2045, b)
    BY DEF Height
  <2> HIDE DEF a, b, h
  <2> QED
    BY <2>1, <2>2 DEF AtMost
<1> HIDE DEF h
<1>2. ASSUME NEW v \in Int
      PROVE  /\ Abs(v) \in Nat /\ h(Abs(v)) \in Nat /\ Abs(-v) = Abs(v) /\ -v \in Int
             /\ v > 0 => ApplyAnchors(v, old) = h(Abs(v)) /\ Abs(v) = v
             /\ v < 0 => ApplyAnchors(v, old) = -h(Abs(v)) /\ Abs(v) = -v
             /\ v = 0 => ApplyAnchors(v, old) = 0
  <2>1. /\ Abs(v) \in Nat /\ Abs(-v) = Abs(v) /\ -v \in Int /\ (v > 0 => Abs(v) = v)
        /\ (v < 0 => Abs(v) = -v) /\ (v = 0 <=> Abs(v) = 0)
    BY DEF Abs
  <2>2. h(Abs(v)) \in Nat
    BY <1>1, <2>1
  <2>3. ApplyAnchors(v, old) =
            IF Abs(v) = 0 THEN 0 ELSE (IF v < 0 THEN -1 ELSE 1) * h(Abs(v))
    BY ApplyIs DEF h
  <2>4. \A z \in Nat : (-1) * z = -z /\ 1 * z = z
    OBVIOUS
  <2> QED
    BY <2>1, <2>2, <2>3, <2>4
<1>3. ASSUME s <= t PROVE ApplyAnchors(s, old) <= ApplyAnchors(t, old)
  <2> DEFINE hs == h(Abs(s))
             ht == h(Abs(t))
             as2 == ApplyAnchors(s, old)
             at2 == ApplyAnchors(t, old)
  <2>1. /\ hs \in Nat /\ ht \in Nat
        /\ (s > 0 => as2 = hs) /\ (s < 0 => as2 = -hs) /\ (s = 0 => as2 = 0)
        /\ (t > 0 => at2 = ht) /\ (t < 0 => at2 = -ht) /\ (t = 0 => at2 = 0)
    BY <1>2
  <2>2. s > 0 => hs <= ht
    <3>1. s > 0 => t > 0 /\ Abs(s) = s /\ Abs(t) = t /\ s \in Nat /\ t \in Nat
      BY <1>3 DEF Abs
    <3> QED
      BY <1>1, <1>3, <3>1
  <2>3. t < 0 => ht <= hs
    <3>1. t < 0 => s < 0 /\ Abs(s) = -s /\ Abs(t) = -t /\ -s \in Nat /\ -t \in Nat /\ -t <= -s
      BY <1>3 DEF Abs
    <3> QED
      BY <1>1, <3>1
  <2> HIDE DEF hs, ht, as2, at2
  <2>4. as2 <= at2
    BY <1>3, <2>1, <2>2, <2>3
  <2> QED
    BY <2>4 DEF as2, at2
<1>4. ApplyAnchors(-s, old) = -ApplyAnchors(s, old)
  <2> DEFINE z == -s
             hs == h(Abs(s))
             hz == h(Abs(z))
             as2 == ApplyAnchors(s, old)
             az2 == ApplyAnchors(z, old)
  <2>1. z \in Int /\ z = -s /\ Abs(z) = Abs(s)
    BY <1>2
  <2> HIDE DEF z
  <2>2. /\ hs \in Nat /\ hz = hs
        /\ (s > 0 => as2 = hs) /\ (s < 0 => as2 = -hs) /\ (s = 0 => as2 = 0)
        /\ (z > 0 => az2 = hz) /\ (z < 0 => az2 = -hz) /\ (z = 0 => az2 = 0)
    BY <1>2, <2>1
  <2> HIDE DEF hs, hz, as2, az2
  <2>3. az2 = -as2
    BY <2>1, <2>2
  <2> QED
    BY <2>3 DEF z, as2, az2
<1> QED
  BY <1>3, <1>4

-----------------------------------------------------------------------------
(* The tools that change scores *)

LEMMA OneScoreTool ==
    ASSUME Next
    PROVE  /\ job' = job
           /\ job.tool = "relabel" =>
                 result' = [s \in job.scores |-> Relabel([job.record EXCEPT !.score = s], 6, job.wdl)]
           /\ job.tool = "pav" => result' = Pav(job.values, job.weights)
           /\ job.tool = "calibrate" =>
                 LET anchors == FitAnchors(job.pairs, job.bins)
                 IN  result' = [anchors |-> anchors,
                                scores |-> IF Len(anchors) < 2 THEN <<>>
                                           ELSE [s \in job.scores |-> ApplyAnchors(s, anchors)]]
BY DEF Next, Export, ExportBullet, Rewrite, WarmStart, Expand, Convert, Threats,
       ConvertPosition, RelabelRecords, ConvertShards, Recut, Mix, Sample, PackShards, Calibrate,
       PoolValues, Run

LEMMA RelabelStep == ASSUME job \in Jobs, Next, job.tool = "relabel" PROVE CorrectionKeepsOrder'
<1> DEFINE rec == job.record
           scores == job.scores
           wdl == job.wdl
           res == result'
<1>1. scores \subseteq Int /\ wdl \in -2..2 \cup {NoTable} /\ DOMAIN rec.pieces \subseteq Squares
  BY ScoreAssumption
<1>2. rec = [pieces |-> rec.pieces, score |-> rec.score, result |-> rec.result]
  BY ScoreAssumption
<1>3. job' = job /\ res = [s \in scores |-> Relabel([rec EXCEPT !.score = s], 6, wdl)]
  BY OneScoreTool
<1> HIDE DEF rec, scores, wdl, res
<1>4. ASSUME NEW s \in scores
      PROVE  /\ \A t \in scores : s <= t /\ (wdl = 2 => s >= 0) /\ (wdl = -2 => t <= 0)
                                  => res[s].score <= res[t].score
             /\ wdl # NoTable /\ Cardinality(DOMAIN res[s].pieces) <= 6 =>
                   /\ res[s].result = 2 => res[s].score > WdlToCp(0, ScoreClamp)
                   /\ res[s].result = 0 => res[s].score < WdlToCp(0, -ScoreClamp)
                   /\ res[s].result = (IF wdl = 2 THEN 2 ELSE IF wdl = -2 THEN 0 ELSE 1)
  <2>1. \A t \in scores : t \in Int /\ res[t] = Relabel([rec EXCEPT !.score = t], 6, wdl)
    BY <1>1, <1>3
  <2>2. s \in Int
    BY <1>1
  <2> DEFINE a == Relabel([rec EXCEPT !.score = s], 6, wdl)
  <2>3. ASSUME NEW t \in scores, s <= t, wdl = 2 => s >= 0, wdl = -2 => t <= 0
        PROVE  res[s].score <= res[t].score
    <3> DEFINE b == Relabel([rec EXCEPT !.score = t], 6, wdl)
    <3>1. res[s] = a /\ res[t] = b
      BY <2>1
    <3>2. t \in Int
      BY <1>1
    <3>3. s <= t /\ (wdl = 2 => s >= 0) /\ (wdl = -2 => t <= 0) => a.score <= b.score
      BY <1>1, <1>2, <2>2, <3>2, RelabelKeepsOrder
    <3> HIDE DEF a, b
    <3> QED
      BY <2>3, <3>1, <3>3
  <2>4. ASSUME wdl # NoTable, Cardinality(DOMAIN res[s].pieces) <= 6
        PROVE  /\ res[s].result = 2 => res[s].score > WdlToCp(0, ScoreClamp)
               /\ res[s].result = 0 => res[s].score < WdlToCp(0, -ScoreClamp)
               /\ res[s].result = (IF wdl = 2 THEN 2 ELSE IF wdl = -2 THEN 0 ELSE 1)
    <3>1. res[s] = a
      BY <2>1
    <3>2. wdl # NoTable /\ Cardinality(DOMAIN a.pieces) <= 6 =>
             /\ a.result = 2 => a.score > WdlToCp(0, ScoreClamp)
             /\ a.result = 0 => a.score < WdlToCp(0, -ScoreClamp)
             /\ a.result = (IF wdl = 2 THEN 2 ELSE IF wdl = -2 THEN 0 ELSE 1)
      BY <1>1, <1>2, <2>2, RelabelKeepsOrder
    <3> HIDE DEF a
    <3> QED
      BY <2>4, <3>1, <3>2
  <2> QED
    BY <2>3, <2>4
<1> QED
  BY <1>3, <1>4 DEF CorrectionKeepsOrder, rec, scores, wdl, res

LEMMA PoolStep == ASSUME job \in Jobs, Next, job.tool = "pav" PROVE PooledIsClosest'
<1> DEFINE values == job.values
           weights == job.weights
           res == result'
<1>1. Weighted(values, weights)
  BY ScoreAssumption DEF Weighted
<1>2. job' = job /\ res = Pav(values, weights)
  BY OneScoreTool
<1> HIDE DEF values, weights, res
<1>3. Len(res) = Len(values) /\ \A i \in 1..Len(res) : Equal(res[i], Isotonic(values, weights, i))
  BY <1>1, <1>2, PavIsClosest
<1> QED
  BY <1>2, <1>3 DEF PooledIsClosest, values, weights, res

LEMMA CalibrateStep == ASSUME job \in Jobs, Next, job.tool = "calibrate" PROVE CalibrationRises'
<1> DEFINE anchors == FitAnchors(job.pairs, job.bins)
           scores == job.scores
           res == result'
<1>1. /\ job.pairs \in Seq(Pair) /\ Len(job.pairs) >= 2 /\ job.bins \in Int
      /\ scores \subseteq Int /\ \A s \in scores : -s \in scores
  BY ScoreAssumption DEF Pair
<1>2. RisingAnchors(anchors)
  BY <1>1, FittedRise
<1>3. /\ job' = job /\ res.anchors = anchors
      /\ res.scores = IF Len(anchors) < 2 THEN <<>> ELSE [s \in scores |-> ApplyAnchors(s, anchors)]
  BY OneScoreTool
<1> HIDE DEF anchors, scores, res
<1>4. /\ res.anchors[1] = [x |-> 0, y |-> 0]
      /\ \A i \in 2..Len(res.anchors) : /\ res.anchors[i - 1].x < res.anchors[i].x
                                        /\ res.anchors[i - 1].y <= res.anchors[i].y
  BY <1>2, <1>3 DEF RisingAnchors
<1>5. ASSUME res.scores # <<>>, NEW s \in scores, NEW t \in scores
      PROVE  (s <= t => res.scores[s] <= res.scores[t]) /\ res.scores[-s] = -res.scores[s]
  <2>1. Len(anchors) >= 2 /\ res.scores = [v \in scores |-> ApplyAnchors(v, anchors)]
    <3>1. ~(Len(anchors) < 2)
      BY <1>3, <1>5
    <3>2. Len(anchors) \in Nat
      BY <1>2 DEF RisingAnchors, Anchors
    <3> QED
      BY <1>3, <3>1, <3>2
  <2>2. s \in Int /\ t \in Int /\ -s \in scores
    BY <1>1
  <2>3. /\ res.scores[s] = ApplyAnchors(s, anchors) /\ res.scores[t] = ApplyAnchors(t, anchors)
        /\ res.scores[-s] = ApplyAnchors(-s, anchors)
    BY <2>1, <2>2
  <2> QED
    BY <1>2, <2>1, <2>2, <2>3, AppliedInOrder
<1> QED
  BY <1>3, <1>4, <1>5 DEF CalibrationRises, scores, res

\* Whatever scores the tools are given: the correction by tablebases keeps the order of the
\* scores of a record, but where the tables say otherwise, and agrees with its result; what
\* _pav returns is the sequence closest to its values, in the weighted square mean, that
\* never falls; and the anchors fit_anchors makes of any two pairs or more rise strictly
\* from zero, so that apply_anchors is odd and never falls.
THEOREM ScoresAreInOrder == Spec => []ScoresKeepTheirOrder
<1> DEFINE Ordered == job \in Jobs /\ ScoresKeepTheirOrder
<1>1. Init => Ordered
  BY DEF Init, ScoresKeepTheirOrder, Done
<1>2. Ordered /\ [Next]_vars => Ordered'
  <2> SUFFICES ASSUME Ordered, [Next]_vars PROVE Ordered'
    OBVIOUS
  <2>1. CASE Next
    <3>1. job' = job
      BY <2>1, OneScoreTool
    <3>2. Done("relabel")' => CorrectionKeepsOrder'
      BY <2>1, <3>1, RelabelStep DEF Done
    <3>3. Done("pav")' => PooledIsClosest'
      BY <2>1, <3>1, PoolStep DEF Done
    <3>4. Done("calibrate")' => CalibrationRises'
      BY <2>1, <3>1, CalibrateStep DEF Done
    <3> QED
      BY <3>1, <3>2, <3>3, <3>4 DEF ScoresKeepTheirOrder
  <2>2. CASE UNCHANGED vars
    <3>1. job' = job /\ result' = result
      BY <2>2 DEF vars
    <3>2. CorrectionKeepsOrder' <=> CorrectionKeepsOrder
      BY <3>1 DEF CorrectionKeepsOrder
    <3>3. PooledIsClosest' <=> PooledIsClosest
      BY <3>1 DEF PooledIsClosest
    <3>4. CalibrationRises' <=> CalibrationRises
      BY <3>1 DEF CalibrationRises
    <3>5. ScoresKeepTheirOrder'
      BY <3>1, <3>2, <3>3, <3>4 DEF ScoresKeepTheirOrder, Done
    <3> QED
      BY <3>1, <3>5
  <2> QED
    BY <2>1, <2>2
<1> QED
  BY <1>1, <1>2, PTL DEF Spec

=============================================================================
