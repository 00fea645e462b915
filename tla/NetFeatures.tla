---------------------------- MODULE NetFeatures ----------------------------
(***************************************************************************)
(* The input features of a net: which rows of the input table a position   *)
(* switches on (piece-square rows by king bucket, threats, x-ray threats,  *)
(* the legacy direct layout), and how the tables of one layout are copied  *)
(* into another (expansion at export, conversion at a warm start).         *)
(*                                                                         *)
(* A position is a set of pieces [type, color, sq]; squares count from h1  *)
(* as in the engine (h1 = 0, g1 = 1, ..., a8 = 63).  A feature list is a   *)
(* function from what switched a row on to the row.                        *)
(***************************************************************************)
EXTENDS Integers, FiniteSets

Squares == 0..63
File(s) == s % 8
Rank(s) == s \div 8
FlipFile(s) == s + 7 - 2 * File(s)
FlipRank(s) == s + 56 - 16 * Rank(s)
Views == {0, 1}
Pawn == 1
Knight == 2
Bishop == 3
Rook == 4
Queen == 5
King == 6

---------------------------------------------------------------------------
\* King buckets

\* A table that is the same on both wings, from its four outer files.
KingTable(rows) ==
    [s \in Squares |-> rows[Rank(s) + 1][IF File(s) < 4 THEN File(s) + 1 ELSE 8 - File(s)]]
KingBuckets10 ==
    KingTable(<< <<9, 9, 8, 8>>, <<9, 9, 8, 8>>, <<8, 8, 7, 7>>, <<8, 8, 7, 7>>,
                 <<6, 6, 5, 5>>, <<6, 6, 5, 5>>, <<4, 3, 3, 2>>, <<1, 1, 0, 0>> >>)
KingBuckets16 ==
    KingTable(<< <<15, 15, 14, 14>>, <<15, 15, 14, 14>>, <<13, 13, 12, 12>>, <<13, 13, 12, 12>>,
                 <<11, 10, 9, 8>>, <<11, 10, 9, 8>>, <<7, 6, 5, 4>>, <<3, 2, 1, 0>> >>)
KingBuckets32 ==
    KingTable([r \in 1..8 |-> [f \in 1..4 |-> 36 - 4 * r - f]])
LegacyDirectKingBuckets ==
    KingTable(<< <<0, 1, 2, 3>>, <<4, 5, 6, 7>>, <<8, 9, 10, 11>>, <<8, 9, 10, 11>>,
                 <<12, 12, 13, 13>>, <<12, 12, 13, 13>>, <<14, 14, 15, 15>>, <<14, 14, 15, 15>> >>)
KingBuckets(n) ==
    CASE n \in {1, 2, 4, 8, 16} -> [s \in Squares |-> (KingBuckets16[s] * n) \div 16]
      [] n = 10 -> KingBuckets10
      [] n = 32 -> KingBuckets32

---------------------------------------------------------------------------
\* Piece-square rows

ToBerserk(s) == 63 - s
\* A square seen from view, mirrored so that the king stands on the files 4..7.
Oriented(s, king, view) ==
    LET t == IF view = 1 THEN FlipRank(s) ELSE s
    IN  IF File(king) < 4 THEN FlipFile(t) ELSE t

FeatureChannel(type, color, view, channels) ==
    IF channels = 11
    THEN IF type = King THEN 10 ELSE 5 * (IF color = view THEN 0 ELSE 1) + type - 1
    ELSE 6 * (IF color = view THEN 0 ELSE 1) + type - 1

FeatureIndex(p, king, view, buckets, channels) ==
    LET k == ToBerserk(king)
    IN  KingBuckets(buckets)[Oriented(k, k, view)] * channels * 64
        + FeatureChannel(p.type, p.color, view, channels) * 64
        + Oriented(ToBerserk(p.sq), k, view)

KingOf(pos, view) == (CHOOSE p \in pos : p.type = King /\ p.color = view).sq

FeaturesFromPieces(pos, view, buckets, channels) ==
    [p \in pos |-> FeatureIndex(p, KingOf(pos, view), view, buckets, channels)]

\* Rows of the 16x12x512 direct net, where enemy pieces come first.
LegacyDirectFeatures(pos, view) ==
    LET king == KingOf(pos, view)
        seen(s) == IF view = 1 THEN FlipRank(s) ELSE s
    IN  [p \in pos |->
            LegacyDirectKingBuckets[seen(king)] * 768
            + (p.type - 1 + (IF p.color = view THEN 6 ELSE 0)) * 64
            + (IF File(king) >= 4 THEN FlipFile(seen(p.sq)) ELSE seen(p.sq))]

OutputBucket(pieces, n) ==
    LET divisor == (32 + n - 1) \div n
        bucket == (pieces - 2) \div divisor
    IN  IF n <= 1 \/ bucket < 0 THEN 0 ELSE IF bucket > n - 1 THEN n - 1 ELSE bucket

---------------------------------------------------------------------------
\* Attacks

OnBoard(f, r) == f \in 0..7 /\ r \in 0..7
Along(s, d, k) == [f |-> File(s) + k * d[1], r |-> Rank(s) + k * d[2]]
SquareAt(at) == 8 * at.r + at.f
Diagonals == {1, -1} \X {1, -1}
Straights == {<<1, 0>>, <<-1, 0>>, <<0, 1>>, <<0, -1>>}
KnightSteps == ({1, -1} \X {2, -2}) \cup ({2, -2} \X {1, -1})
Directions(type) ==
    CASE type = Bishop -> Diagonals
      [] type = Rook -> Straights
      [] OTHER -> Diagonals \cup Straights

\* The squares of a ray up to the first occupied one.
Ray(s, d, occupied) ==
    {SquareAt(Along(s, d, k)) :
        k \in {k \in 1..7 :
                 /\ OnBoard(Along(s, d, k).f, Along(s, d, k).r)
                 /\ \A j \in 1..(k - 1) : SquareAt(Along(s, d, j)) \notin occupied}}
SliderAttacks(type, s, occupied) == UNION {Ray(s, d, occupied) : d \in Directions(type)}
LeaperAttacks(steps, s) ==
    {SquareAt(Along(s, d, 1)) : d \in {d \in steps : OnBoard(Along(s, d, 1).f, Along(s, d, 1).r)}}
PawnAttacks(color, s) == LeaperAttacks({-1, 1} \X {IF color = 0 THEN 1 ELSE -1}, s)

AttacksOf(type, color, s, occupied) ==
    CASE type = Pawn -> PawnAttacks(color, s)
      [] type = Knight -> LeaperAttacks(KnightSteps, s)
      [] type = King -> LeaperAttacks(Diagonals \cup Straights, s)
      [] OTHER -> SliderAttacks(type, s, occupied)

---------------------------------------------------------------------------
\* Threat rows

ThreatFeatureCount == 59808
ThreatPieces == (1..6) \cup (9..14)
TypeOf(code) == code % 8
ColorOf(code) == code \div 8
CodeOf(p) == p.type + 8 * p.color

ValidTargets == <<4, 10, 8, 8, 10, 0>>
ThreatTargetMap ==
    << <<-1, 0, -1, 1, -1, -1>>, <<0, 1, 2, 3, 4, -1>>, <<0, 1, 2, 3, -1, -1>>,
       <<0, 1, 2, 3, -1, -1>>, <<0, 1, 2, 3, 4, -1>>, <<-1, -1, -1, -1, -1, -1>> >>

PseudoAttacks ==
    [c \in ThreatPieces |-> [s \in Squares |-> AttacksOf(TypeOf(c), ColorOf(c), s, {})]]
\* Pawns on the first and the last rank take no rows.
RowsOf(c, s) ==
    IF TypeOf(c) = Pawn /\ s \notin 8..55 THEN 0 ELSE Cardinality(PseudoAttacks[c][s])
\* What comes before each of n places, and before their end.
Before(f, n) ==
    LET before[k \in 0..n] == IF k = 0 THEN 0 ELSE before[k - 1] + f[k - 1]
    IN  [k \in 0..n |-> before[k]]
SquareOffset == [c \in ThreatPieces |-> Before([s \in Squares |-> RowsOf(c, s)], 64)]
Span(c) == SquareOffset[c][64]
RegionsOf(c) == IF c \in ThreatPieces THEN ValidTargets[TypeOf(c)] * Span(c) ELSE 0
GlobalOffset == Before([c \in 0..15 |-> RegionsOf(c)], 16)
AttackOffset(c, from, to) == Cardinality({s \in PseudoAttacks[c][from] : s < to})

Mapped(attacker, attacked) == ThreatTargetMap[TypeOf(attacker)][TypeOf(attacked)]
\* Of two like pieces that attack each other only the higher square is a row.
Excluded(attacker, attacked, upward) ==
    \/ Mapped(attacker, attacked) < 0
    \/ /\ upward /\ TypeOf(attacker) = TypeOf(attacked)
       /\ ColorOf(attacker) # ColorOf(attacked) \/ TypeOf(attacker) # Pawn
\* Mutant: the colour of the attacked piece has no region.
OffsetOfType(attacker, attacked) ==
    GlobalOffset[attacker] + Mapped(attacker, attacked) * Span(attacker)
TargetOffset(attacker, attacked) ==
    GlobalOffset[attacker]
    + (ColorOf(attacked) * (ValidTargets[TypeOf(attacker)] \div 2) + Mapped(attacker, attacked))
      * Span(attacker)

\* Here squares count from a1: FlipFile of the engine's.
ThreatIndex(view, attacker, from, to, attacked, king) ==
    LET turn(s) == LET t == IF view = 1 THEN FlipRank(s) ELSE s
                   IN  IF File(king) < 4 THEN t ELSE FlipFile(t)
        side(c) == IF view = 1 THEN (c + 8) % 16 ELSE c
    IN  IF Excluded(side(attacker), side(attacked), turn(from) < turn(to)) THEN ThreatFeatureCount
        ELSE TargetOffset(side(attacker), side(attacked))
             + SquareOffset[side(attacker)][turn(from)]
             + AttackOffset(side(attacker), turn(from), turn(to))

Occupied(pos) == {p.sq : p \in pos}
\* The targets worth a look, by the type of the attacker.
TargetTypes(type) ==
    CASE type = Pawn -> {Knight, Rook}
      [] type \in {Knight, Queen} -> {Pawn, Knight, Bishop, Rook, Queen}
      [] OTHER -> {Pawn, Knight, Bishop, Rook}

Emitted(pairs, pos, view) ==
    LET row(pq) == ThreatIndex(view, CodeOf(pq[1]), FlipFile(pq[1].sq), FlipFile(pq[2].sq),
                               CodeOf(pq[2]), FlipFile(KingOf(pos, view)))
    IN  [pq \in {pq \in pairs : row(pq) < ThreatFeatureCount} |-> row(pq)]

ThreatFeatures(pos, view) ==
    Emitted({pq \in pos \X pos :
                /\ pq[1].type # King /\ pq[2].type \in TargetTypes(pq[1].type)
                /\ pq[2].sq \in AttacksOf(pq[1].type, pq[1].color, pq[1].sq, Occupied(pos))},
            pos, view)

\* What a slider would attack if one piece it attacks were not there, with that piece.
XrayFeatures(pos, view) ==
    LET occupied == Occupied(pos)
        sees(p, without) == SliderAttacks(p.type, p.sq, occupied \ without)
        sliders == {p \in pos : p.type \in {Bishop, Rook, Queen}}
        revealed == {pbq \in sliders \X pos \X pos :
                        /\ pbq[2].sq \in sees(pbq[1], {})
                        /\ pbq[3].sq \in sees(pbq[1], {pbq[2].sq}) \ sees(pbq[1], {})
                        /\ pbq[3] # pbq[2]}
    IN  Emitted({<<pbq[1], pbq[3], pbq[2]>> : pbq \in revealed}, pos, view)

---------------------------------------------------------------------------
\* From one layout to another

LegacyBucketFor32 ==
    <<0, 1, 2, 3, 4, 5, 6, 7, 8, 9, 10, 11, 8, 9, 10, 11,
      12, 12, 13, 13, 12, 12, 13, 13, 14, 14, 15, 15, 14, 14, 15, 15>>

\* Mutant: 32 buckets are taken for a division of the trained ones.
ParentByDivision(target, trained, runtime) == (target * trained) \div runtime
\* bullet.py and the trainer, at the export.
ParentBucket(target, trained, runtime) ==
    IF trained = runtime THEN target
    ELSE IF runtime = 32 THEN (LegacyBucketFor32[target + 1] * trained) \div 16
    ELSE (target * trained) \div runtime

\* The warm-start converter.
SourceBuckets(target, from, to) ==
    IF from = 32 /\ to = 16 THEN {b \in 0..31 : LegacyBucketFor32[b + 1] = target}
    ELSE IF from = to THEN {target}
    ELSE IF from = 1 THEN {0}
    ELSE IF from = 16 /\ to = 32 THEN {LegacyBucketFor32[target + 1]}
    ELSE {(target * from) \div to}

SourceChannel(channel, square, bucket, from, to) ==
    CASE from = to \/ channel < 5 -> channel
      [] channel \in 5..9 -> channel + 1
      [] OTHER -> IF KingBuckets32[square] = bucket THEN 5 ELSE 11

=============================================================================
