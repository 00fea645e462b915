-------------------------- MODULE TrainingRecords --------------------------
(***************************************************************************)
(* What becomes of a position on its way to the trainer: decoding of an    *)
(* LC0 record, the white-relative score and result of a row, the 32-byte   *)
(* Bullet record seen from the side to move, its correction with           *)
(* tablebases, and the two data sets that read rows and records back.      *)
(*                                                                         *)
(* A board is a set of pieces [type, color, sq] with squares counted from  *)
(* a1.  Results and win/draw/loss values are counted in halves: 0, 1, 2.   *)
(***************************************************************************)
EXTENDS NetFeatures

Abs(n) == IF n < 0 THEN -n ELSE n
Clamp(n, lo, hi) == IF n < lo THEN lo ELSE IF n > hi THEN hi ELSE n
\* round(n / d) of the code, half to even.
Round(n, d) ==
    LET q == n \div d
        r == n % d
    IN  IF 2 * r > d \/ (2 * r = d /\ q % 2 = 1) THEN q + 1 ELSE q

Swapped(board) == {[p EXCEPT !.color = 1 - @, !.sq = FlipRank(@)] : p \in board}
\* The squares of the engine's features count from h1.
ForFeatures(board) == {[p EXCEPT !.sq = FlipFile(@)] : p \in board}

---------------------------------------------------------------------------
\* LC0 records

\* Mutant: the board of Black is not turned.
DecodeUnturned(planes, black) ==
    {[type |-> (pl[1] % 6) + 1, color |-> IF (pl[1] < 6) = black THEN 1 ELSE 0,
      sq |-> FlipFile(pl[2])] : pl \in planes}

\* Planes are pairs <<plane, sq>>: six of the mover's pieces, six of the other's, on
\* mirrored files and with the mover's first rank at the bottom.
DecodePieces(planes, black) ==
    {[type |-> (pl[1] % 6) + 1,
      color |-> IF (pl[1] < 6) = black THEN 1 ELSE 0,
      sq |-> IF black THEN FlipRank(FlipFile(pl[2])) ELSE FlipFile(pl[2])] : pl \in planes}

\* Castling rights by the corner of the rook; clean_castling_rights keeps those with
\* king and rook at home.
Corner(color, side) == (IF color = 0 THEN 0 ELSE 56) + (IF side = "00" THEN 7 ELSE 0)
DecodeCastling(meta, black, board) ==
    LET mover == IF black THEN 1 ELSE 0
        named == {Corner(mover, side) : side \in meta.we}
                 \cup {Corner(1 - mover, side) : side \in meta.they}
        home(c) == IF c < 8 THEN 0 ELSE 1
    IN  {c \in named :
            /\ [type |-> Rook, color |-> home(c), sq |-> c] \in board
            /\ [type |-> King, color |-> home(c), sq |-> 56 * home(c) + 4] \in board}

\* A policy move [from, to, promo] on the board of its record; promotions to a knight
\* are written without a piece.
MapPolicy(move, board, black) ==
    LET turn(s) == IF black THEN FlipRank(s) ELSE s
        last(color) == IF color = 0 THEN 7 ELSE 0
        knights == /\ move.promo = "none"
                   /\ \E p \in board : /\ p.sq = turn(move.from) /\ p.type = Pawn
                                       /\ Rank(turn(move.to)) = last(p.color)
    IN  [from |-> turn(move.from), to |-> turn(move.to),
         promo |-> IF knights THEN "n" ELSE move.promo]

\* categorical_result: q in -1..1 and d in 0..1 of the mover, 2 for anything between.
Categorical(q, d, black) ==
    CASE q = 0 /\ d = 1 -> "1/2-1/2"
      [] q \in {-1, 1} /\ d = 0 -> IF (q = 1) # black THEN "1-0" ELSE "0-1"
      [] OTHER -> "none"

\* chess.Board.status, as far as it matters here.
ValidBoard(board) ==
    /\ \A color \in {0, 1} : Cardinality({p \in board : p.type = King /\ p.color = color}) = 1
    /\ \A p \in board : p.type = Pawn => Rank(p.sq) \in 1..6

\* record_to_row: what came of a record, and the row.
RecordToRow(rec) ==
    LET board == DecodePieces(rec.planes, rec.black)
        result == Categorical(rec.q, rec.d, rec.black)
    IN  IF ~rec.v6 THEN [kind |-> "unsupported"]
        ELSE IF ~ValidBoard(board) THEN [kind |-> "invalid_board"]
        ELSE IF result = "none" THEN [kind |-> "invalid"]
        ELSE [kind |-> "row", board |-> board, black |-> rec.black,
              castling |-> DecodeCastling(rec.meta, rec.black, board),
              result |-> result, wdl |-> Clamp(1 + rec.q, 0, 2),
              moves |-> {MapPolicy(move, board, rec.black) : move \in rec.policy}]

---------------------------------------------------------------------------
\* Rows and Bullet records

WdlForSide(result, black) ==
    CASE result = "1/2-1/2" -> 1
      [] result = "1-0" -> IF black THEN 0 ELSE 2
      [] OTHER -> IF black THEN 2 ELSE 0
WhiteResult(result) == WdlForSide(result, FALSE)

Count(board, types) == Cardinality({p \in board : p.type \in types})
\* phase_scale_from_fen times 128.
PhaseScale(board) ==
    128 + 3 * Count(board, {Knight, Bishop}) + 5 * Count(board, {Rook}) + 10 * Count(board, {Queen})
ScoreClamp == 2045
WhiteScore(row, runtime) ==
    LET score == IF runtime
                 THEN Round(Clamp(row.score, -ScoreClamp, ScoreClamp) * 128, PhaseScale(row.board))
                 ELSE row.score
    IN  IF row.black THEN -score ELSE score

\* chessboard_from_raw, from a row: the position as the side to move sees it.
BulletRecord(row, runtime) ==
    LET board == IF row.black THEN Swapped(row.board) ELSE row.board
        score == WhiteScore(row, runtime)
        king(color) == (CHOOSE p \in board : p.type = King /\ p.color = color).sq
    IN  [pieces |-> [s \in {p.sq : p \in board} |->
                        LET p == CHOOSE p \in board : p.sq = s IN p.type - 1 + 8 * p.color],
         score |-> IF row.black THEN -score ELSE score,
         result |-> IF row.black THEN 2 - WhiteResult(row.result) ELSE WhiteResult(row.result),
         ksq |-> king(0), oppKsq |-> FlipRank(king(1))]

BoardOf(record) ==
    {[type |-> (record.pieces[s] % 8) + 1, color |-> record.pieces[s] \div 8, sq |-> s] :
        s \in DOMAIN record.pieces}

\* An item of a data set: the rows both sides switch on, the mover's first.
Item(board, mover, count, score, wdl) ==
    [us |-> FeaturesFromPieces(ForFeatures(board), mover, 16, 12),
     them |-> FeaturesFromPieces(ForFeatures(board), 1 - mover, 16, 12),
     threats |-> ThreatFeatures(ForFeatures(board), mover),
     xrays |-> XrayFeatures(ForFeatures(board), mover),
     direct |-> LegacyDirectFeatures(ForFeatures(board), mover),
     count |-> count, phase |-> PhaseScale(board), score |-> score, wdl |-> wdl]
ItemOfRow(row) ==
    Item(row.board, IF row.black THEN 1 ELSE 0, Cardinality(row.board), row.score, row.wdl)
ItemOfRecord(record) ==
    Item(BoardOf(record), 0, Cardinality(DOMAIN record.pieces), record.score, record.result)

---------------------------------------------------------------------------
\* Tablebases

WinFloor == 350
WinCeil == 1200
WdlToCp(wdl, score) ==
    IF wdl \in -1..1 THEN Round(score, 10)
    ELSE IF wdl > 0 THEN Clamp(Abs(score), WinFloor, WinCeil)
    ELSE -Clamp(Abs(score), WinFloor, WinCeil)
WdlToResult(wdl) == IF wdl > 1 THEN 2 ELSE IF wdl < -1 THEN 0 ELSE 1

\* relabel, for one record: wdl is what the tables say of its board, -2..2 or NoTable.
NoTable == 3
Relabel(record, pieces, wdl) ==
    IF Cardinality(DOMAIN record.pieces) > pieces \/ wdl = NoTable THEN record
    ELSE [record EXCEPT !.score = WdlToCp(wdl, @), !.result = WdlToResult(wdl)]

=============================================================================
