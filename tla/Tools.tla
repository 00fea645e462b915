------------------------------- MODULE Tools -------------------------------
(***************************************************************************)
(* The stand-alone tools around the trainer, each a program that reads its *)
(* inputs, writes its outputs and ends.  A behaviour is one invocation:    *)
(* job is the tool with its inputs, result what it leaves behind.  What    *)
(* the tools compute is in NetFormat, NetFeatures, TrainingRecords and     *)
(* CorpusOps.                                                              *)
(***************************************************************************)
EXTENDS NetFormat, CorpusOps

CONSTANTS
    Jobs,       \* the invocations: records with a field tool and the inputs of that tool
    Pending     \* no result yet

\* A net comes out of a training, which validate_layout and bullet.py's choices let pass.
ASSUME JobsAssumption ==
    \A j \in Jobs :
        /\ j.tool = "export" => j.c \in Configurations
        /\ j.tool = "bullet" => j.c \in BulletConfigurations
        /\ j.tool = "warmstart" => j.parent \in Configurations /\ j.child \in Configurations

\* The inputs of the corpus tools: records of a source are what they are told apart by
\* and a number of their own, rows have a score or none, names are strings.
ASSUME CorpusAssumption ==
    \A j \in Jobs :
        /\ j.tool = "shards" =>
              /\ j.shards \in Nat \ {0} /\ j.limit \in Int
              /\ j.sources \in Seq(Seq([kind : {"row", "invalid", "skip", "broken"}, id : Nat]))
              /\ \A a, b \in DOMAIN j.sources :
                    \A k \in DOMAIN j.sources[a], l \in DOMAIN j.sources[b] :
                        j.sources[a][k].id = j.sources[b][l].id => a = b /\ k = l
        /\ j.tool = "recut" => j.chunks \in Nat \ {0} /\ j.sources \in Seq(Seq(Nat))
        /\ j.tool = "mix" =>
              /\ j.source.rows \in Seq([id : Nat, scored : BOOLEAN, score : Int])
              /\ j.source.bound \in Nat /\ j.source.requested \in Nat
        /\ j.tool = "sample" =>
              /\ j.rows \in Seq([id : Nat, scored : BOOLEAN, score : Int])
              /\ \A k, l \in DOMAIN j.rows : j.rows[k].id = j.rows[l].id => k = l
              /\ \A b \in 1..Len(j.buckets) : j.buckets[b].rows \in Nat
        /\ j.tool = "pack" => j.shards \in Seq(Seq(STRING))

\* The inputs of the tools for scores: scores are integers, the calibration has at least
\* two pairs, as fit_anchors demands, and is asked about a score for either side.
ASSUME ScoreAssumption ==
    \A j \in Jobs :
        /\ j.tool = "relabel" =>
              /\ j.scores \subseteq Int /\ j.wdl \in -2..2 \cup {NoTable}
              /\ j.record = [pieces |-> j.record.pieces, score |-> j.record.score,
                             result |-> j.record.result]
              /\ DOMAIN j.record.pieces \subseteq Squares
        /\ j.tool = "pav" =>
              /\ j.values \in Seq(Int) /\ j.weights \in Seq(Nat \ {0})
              /\ Len(j.values) = Len(j.weights)
        /\ j.tool = "calibrate" =>
              /\ j.pairs \in Seq([raw : Nat, target : Nat]) /\ Len(j.pairs) >= 2
              /\ j.bins \in Int /\ j.scores \subseteq Int /\ \A s \in j.scores : -s \in j.scores

\* An LC0 record has a piece on a square at most once.
ASSUME PositionAssumption ==
    \A j \in Jobs : j.tool = "position" =>
        /\ j.score \in Int
        /\ j.rec \in [v6 : BOOLEAN, planes : SUBSET ((0..11) \X Squares), black : BOOLEAN,
                      meta : [we : SUBSET {"00", "000"}, they : SUBSET {"00", "000"}],
                      policy : SUBSET [from : Squares, to : Squares, promo : STRING],
                      q : Int, d : Int]
        /\ \A a, b \in j.rec.planes : a[2] = b[2] => a = b

\* enyo_parent_bucket and source_bucket_for_target refuse other numbers of buckets.
ASSUME LayoutAssumption ==
    \A j \in Jobs :
        /\ j.tool = "expand" =>
              /\ j.trained \in BucketCounts /\ j.runtime \in BucketCounts
              /\ j.trained <= j.runtime
        /\ j.tool = "convert" =>
              /\ j.from \in BucketCounts /\ j.to \in BucketCounts
              /\ BucketsMap(j.from, j.to)

\* The tables of threats are asked about the codes of two pieces.
ASSUME ThreatAssumption ==
    \A j \in Jobs : j.tool = "threats" => j.attacker \in ThreatPieces /\ j.attacked \in ThreatPieces

VARIABLES job, result
vars == <<job, result>>

Init == job \in Jobs /\ result = Pending

\* Start one tool: the others' results do not concern it.
Run(tool, outcome) == result = Pending /\ job.tool = tool /\ result' = outcome /\ UNCHANGED job

\* The trainer exports a net and a tool loads it.
Export == Run("export", [file |-> WriteModel(job.c), net |-> LoadNet(WriteModel(job.c))])

\* bullet.py train, and the same net padded and put into a container.
ExportBullet ==
    Run("bullet", [plain |-> LoadNet(BulletExport(job.c)), file |-> BulletContainer(job.c)])

\* roundtrip.py and blend_weights.py: load a net and write it again, as it is or from
\* the numpy model.
Rewrite ==
    Run("rewrite", [net |-> LoadNet(WriteModel(job.c)),
                    copy |-> WriteNet(LoadNet(WriteModel(job.c))),
                    blend |-> ExportModel(ModelOf(LoadNet(WriteModel(job.c))))])

\* enyo_nn_to_bullet_weights.py: tensors for a child from the net of a parent.
WarmStart == Run("warmstart", WeightsFrom(LoadNet(WriteModel(job.parent)), job.child, job.reset))

\* bullet.py export: for every bucket of the engine the trained one it is a copy of.
Expand == Run("expand", [b \in 0..(job.runtime - 1) |-> ParentBucket(b, job.trained, job.runtime)])

\* The converter: the buckets each bucket is the mean of, and where its king rows come from.
Convert ==
    Run("convert", [buckets |-> [b \in 0..(job.to - 1) |-> SourceBuckets(b, job.from, job.to)],
                    kings |-> [b \in 0..(job.to - 1) |->
                                  [s \in Squares |-> SourceChannel(10, s, b, 12, 11)]]])

\* The rows of the threat table that belong to one attacker and one attacked piece.
Threats ==
    Run("threats",
        LET squares(c) == IF TypeOf(c) = Pawn THEN 8..55 ELSE Squares
            pairs == {ft \in squares(job.attacker) \X squares(job.attacked) :
                         ft[2] \in PseudoAttacks[job.attacker][ft[1]]}
        IN  [ft \in pairs |-> ThreatIndex(0, job.attacker, ft[1], ft[2], job.attacked, 0)])

\* lc0_to_jsonl.py, the Bullet record of the row, and what either data set reads.
ConvertPosition ==
    Run("position",
        LET row(rec) == [field \in DOMAIN RecordToRow(rec) \cup {"score"} |->
                            IF field = "score" THEN job.score ELSE RecordToRow(rec)[field]]
            mirrored == [job.rec EXCEPT !.black = ~@]
            items(rec) == [kind |-> "items", row |-> row(rec), record |-> BulletRecord(row(rec), FALSE),
                           read |-> ItemOfRecord(BulletRecord(row(rec), FALSE)),
                           item |-> ItemOfRow(row(rec))]
        IN  IF RecordToRow(job.rec).kind # "row" THEN <<RecordToRow(job.rec), RecordToRow(mirrored)>>
            ELSE <<items(job.rec), items(mirrored)>>)

\* bullet_tb_relabel.py on a corpus of records of one table value.
RelabelRecords ==
    Run("relabel", [s \in job.scores |-> Relabel([job.record EXCEPT !.score = s], 6, job.wdl)])

\* A conversion by all its shards.
ConvertShards ==
    Run("shards", [i \in 1..job.shards |-> IterRows(job.sources, job.limit, job.shards, i - 1)])

\* repartition_bullet.py
Recut == Run("recut", Repartition(job.sources, job.chunks))

\* mix_jsonl.py: what may be selected from one source.
Mix == Run("mix", SelectLines(job.source))

\* posgen.py sample: what may remain in each bucket.
Sample == Run("sample", [b \in 1..Len(job.buckets) |-> Reservoirs(job.buckets, job.rows, b)])

\* label.py packs each shard, pack_dataset.py merges them.
PackShards == Run("pack", MergeShards([i \in 1..Len(job.shards) |-> Pack(job.shards[i])]))

\* lc0_calibration.py fits anchors and label.py applies them.
Calibrate ==
    Run("calibrate",
        LET anchors == FitAnchors(job.pairs, job.bins)
        IN  [anchors |-> anchors,
             scores |-> IF Len(anchors) < 2 THEN <<>>
                        ELSE [s \in job.scores |-> ApplyAnchors(s, anchors)]])
\* _pav on its own.
PoolValues == Run("pav", Pav(job.values, job.weights))

Next ==
    \/ Export \/ ExportBullet \/ Rewrite \/ WarmStart \/ Expand \/ Convert \/ Threats \/ ConvertPosition
    \/ RelabelRecords \/ ConvertShards \/ Recut \/ Mix \/ Sample \/ PackShards
    \/ Calibrate \/ PoolValues

Spec == Init /\ [][Next]_vars

---------------------------------------------------------------------------
Done(tool) == result # Pending /\ job.tool = tool
RowSet(f) == {f[x] : x \in DOMAIN f}
OneToOne(f) == Cardinality(RowSet(f)) = Cardinality(DOMAIN f)

\* The tools load every net the trainer exports, as the net it was: except one of format
\* 8 or 9 that does not use what those formats are for, which validate_layout lets pass,
\* and one with a PSQT table and fewer trained buckets than the engine has, whose table
\* bullet.py does not expand.  What bullet.py exports without a header is known by its
\* size alone: it loads as the layout it has, or not at all when it is narrow; padded and
\* put into a container it is the file the trainer writes.
ExportsLoad ==
    /\ Done("export") =>
          LET unusable == \/ job.c.format \in {8, 9} /\ ~Has(job.c, "l2_output_skip")
                          \/ Has(job.c, "psqt_residual") /\ job.c.buckets # job.c.runtime
          IN  IF unusable THEN ~result.net.made
              ELSE result.net.made /\ result.net.arch = Exported(job.c)
    /\ Done("bullet") /\ BulletExport(job.c).made =>
          /\ result.plain.made <=> job.c.hidden = RuntimeHidden
          /\ result.plain.made => result.plain.arch = [Exported(job.c) EXCEPT !.version = 1]
          /\ TrainerAccepts(job.c) => result.file = WriteModel(job.c)

\* A loaded net written again is the file it came from (roundtrip.py), and write_net says
\* so; of version 12 see WritesReturn.  Through the numpy model (blend_weights.py) the
\* same file is written or none: pawn pairs, a PSQT table and a shared squared branch are
\* refused, never dropped.
RewritesKeepTheNet ==
    Done("rewrite") /\ result.net.made =>
        LET a == result.net.arch
        IN  /\ result.copy.file = WriteModel(job.c)
            /\ a.version # 12 => result.copy.ok
            /\ result.blend.file \in {NotMade, result.copy.file}
            /\ result.blend.ok <=> /\ a.flags \cap {"pawn_pairs", "psqt_residual"} = {}
                                  /\ result.net.squared # "shared"

\* Every net that loads can be written again without an error, one of version 12 included:
\* test_full_threats_l2_output_skip_v12_roundtrip (test_enyo_nnue_format.py:294-317) writes
\* one and goes on to load it.
WritesReturn == Done("rewrite") /\ result.net.made => result.copy.ok

\* Tensors converted from a parent have the shapes the trainer of the child loads,
\* wherever the converter does not refuse, unless the input features behind the base
\* rows change along: on an unchanged layout those of the parent stay and are not
\* replaced, on a new one those of the parent are not carried over.
WarmStartsFit ==
    Done("warmstart") /\ result.made =>
        LET parent == LoadNet(WriteModel(job.parent)).arch
            same == parent.buckets = job.child.buckets /\ parent.channels = job.child.channels
            fits == IF same THEN \/ parent.flags \cap InputFlags = {}
                                 \/ HasThreats(parent) /\ HasThreats(job.child)
                    ELSE ~(HasThreats(parent) /\ HasThreats(job.child))
        IN  (result = TensorsOf(job.child)) <=> fits

\* Every king keeps its trained rows: at the export the bucket of the engine that holds
\* a square is a copy of the trained one that holds it, except for 10 buckets made of
\* fewer; at a warm start a bucket is the mean of exactly those of the parent that hold
\* one of its squares, except for 32 buckets made of 2, 4 or 8; and in 32 buckets of 11
\* channels the king's own rows and no others come from the parent's own king.
RegionsKept ==
    /\ Done("expand") /\ <<job.trained, job.runtime>> \notin {<<4, 10>>, <<8, 10>>} =>
          \A k \in Squares :
              result[KingBuckets(job.runtime)[k]] = KingBuckets(job.trained)[k]
    /\ Done("convert") /\ (job.to # 32 \/ job.from \notin {2, 4, 8}) =>
          \A b \in 0..(job.to - 1) :
              result.buckets[b] =
                  {KingBuckets(job.from)[k] : k \in {k \in Squares : KingBuckets(job.to)[k] = b}}
    /\ Done("convert") /\ job.to = 32 =>
          \A b \in 0..31 : {s \in Squares : result.kings[b][s] = 5}
                             = {k \in Squares : KingBuckets32[k] = b}

\* The threat rows of one kind of attacker on one kind of target are all different and
\* lie in a region of the table that no other two kinds share.
RegionIsApart ==
    LET made == {ft \in DOMAIN result : result[ft] # ThreatFeatureCount}
        first == TargetOffset(job.attacker, job.attacked)
        last == first + Span(job.attacker) - 1
        others == {ab \in ThreatPieces \X ThreatPieces :
                      ab # <<job.attacker, job.attacked>> /\ Mapped(ab[1], ab[2]) >= 0}
    IN  /\ OneToOne([ft \in made |-> result[ft]])
        /\ made # {} =>
              /\ \A ft \in made : result[ft] \in first..last
              /\ 0 <= first /\ last < ThreatFeatureCount
              /\ \A ab \in others : \/ TargetOffset(ab[1], ab[2]) > last
                                     \/ TargetOffset(ab[1], ab[2]) + Span(ab[1]) <= first

\* An attack on the board of a kind that has rows has one, and only one of a mutual pair.
EveryAttackOnce(board, threats) ==
    LET pos == ForFeatures(board)
        attacks == {pq \in pos \X pos :
                       /\ pq[2].sq \in AttacksOf(pq[1].type, pq[1].color, pq[1].sq, Occupied(pos))
                       /\ Mapped(CodeOf(pq[1]), CodeOf(pq[2])) >= 0}
    IN  /\ DOMAIN threats \subseteq attacks
        /\ \A pq \in attacks :
              IF pq[1].type = pq[2].type
              THEN (pq \in DOMAIN threats) # (<<pq[2], pq[1]>> \in DOMAIN threats)
              ELSE pq \in DOMAIN threats
        /\ OneToOne(threats)

\* Every kind of threat has a region of the table to itself, and on a board no attack is
\* missing, counted twice or given the row of another, seen through a piece or not.
ThreatRowsAreApart ==
    /\ Done("threats") => RegionIsApart
    /\ Done("position") /\ result[1].kind = "items" =>
          /\ EveryAttackOnce(result[1].row.board, result[1].item.threats)
          /\ OneToOne(result[1].item.xrays)

SameItem(a, b) ==
    /\ \A part \in {"us", "them", "threats", "xrays", "direct"} : RowSet(a[part]) = RowSet(b[part])
    /\ \A part \in {"count", "phase", "score", "wdl"} : a[part] = b[part]

\* A position and the same one with the colours changed give the same training item,
\* and so does either through its Bullet record: same rows for the mover and for the
\* other side, each piece a row of its own, same score and result.  Castling rights and
\* moves are mirrored.
SidesAgree ==
    Done("position") =>
        IF result[1].kind # "items" THEN result[1] = result[2]
        ELSE LET a == result[1]
                 b == result[2]
             IN  /\ SameItem(a.item, b.item) /\ SameItem(a.item, a.read)
                 /\ a.record = b.record
                 /\ b.row.board = Swapped(a.row.board)
                 /\ b.row.castling = {FlipRank(c) : c \in a.row.castling}
                 /\ b.row.moves = {[move EXCEPT !.from = FlipRank(@), !.to = FlipRank(@)] :
                                      move \in a.row.moves}
                 /\ OneToOne(a.item.us) /\ OneToOne(a.item.them)

Ids(path, kind) == {rec.id : rec \in {rec \in RowSet(path) : rec.kind = kind}}

\* The shards of a conversion: with a limit that gives each at least one record they
\* read no more than the limit, without one every source up to its first broken record.
ShardsShareTheWork ==
    LET ends(path) == {k \in 1..Len(path) : path[k].kind = "broken"}
        sound(path) == IF ends(path) = {} THEN path
                       ELSE SubSeq(path, 1, (CHOOSE k \in ends(path) : \A n \in ends(path) : k <= n) - 1)
        rows == FlattenSeq([i \in 1..job.shards |-> result[i].rows])
        records == Total([i \in 1..job.shards |-> result[i].records])
    IN  /\ OneToOne(rows)
        /\ job.limit >= job.shards => records <= job.limit
        /\ job.limit = 0 =>
              RowSet(rows) = UNION {Ids(sound(job.sources[i]), "row") : i \in 1..Len(job.sources)}

\* repartition_bullet.py cuts the sources into chunks that differ by one record at most.
ChunksAreTheSources ==
    result.chunks # <<>> =>
        /\ FlattenSeq(result.chunks) = FlattenSeq(job.sources)
        /\ \A a, b \in RowSet(result.chunks) : Len(a) - Len(b) \in -1..1

\* mix_jsonl.py takes any of the eligible lines, in order, as many as asked for.
AnyLinesAreMixed ==
    LET lines == Eligible(job.source)
        kept(picks) == [i \in 1..Len(lines) |-> IF i \in picks THEN <<lines[i].id>> ELSE <<>>]
    IN  result = {FlattenSeq(kept(picks)) : picks \in kSubset(Quota(job.source), 1..Len(lines))}

\* A reservoir of posgen.py sample holds rows of its own bucket, each once, and is filled
\* while there are any.
ReservoirsFill ==
    \A b \in 1..Len(job.buckets) : \A st \in result[b] :
        LET wanted == {row \in RowSet(job.rows) : row.scored /\ BucketFor(job.buckets, row) = b}
        IN  /\ OneToOne(st.reservoir)
            /\ RowSet(st.reservoir) \subseteq {row.id : row \in wanted}
            /\ Len(st.reservoir) = AtMost(job.buckets[b].rows, Cardinality(wanted))

\* In a merged set every row keeps the name of its source.
NamesAreKept ==
    /\ OneToOne(result.map)
    /\ [i \in 1..Len(result.ids) |-> result.map[result.ids[i]]] = FlattenSeq(job.shards)

\* No tool that divides, selects or merges rows loses one, takes one twice or changes
\* whose it is: conversion shards, the chunks of a corpus, the lines of a mixture, the
\* reservoirs of a sample and merged shards.
CorpusIsKept ==
    /\ Done("shards") => ShardsShareTheWork
    /\ Done("recut") => ChunksAreTheSources
    /\ Done("mix") => AnyLinesAreMixed
    /\ Done("sample") => ReservoirsFill
    /\ Done("pack") => NamesAreKept

\* The values closest to the given ones, in the weighted square mean, that never fall:
\* the i-th is the largest over its beginnings of the smallest mean of a range with i.
Isotonic(values, weights, i) ==
    LET mean(a, b) == [n |-> Total([k \in 1..(b - a + 1) |-> values[a + k - 1] * weights[a + k - 1]]),
                       d |-> Total([k \in 1..(b - a + 1) |-> weights[a + k - 1]])]
        least(a) == CHOOSE v \in {mean(a, b) : b \in i..Len(values)} :
                        \A b \in i..Len(values) : NotAbove(v, mean(a, b))
    IN  CHOOSE v \in {least(a) : a \in 1..i} : \A a \in 1..i : NotAbove(least(a), v)
Equal(a, b) == NotAbove(a, b) /\ NotAbove(b, a)

\* A corrected score orders positions as the raw one did.  Tablebases may move a record
\* between lost, drawn and won, and among draws, or wins and losses the raw score had on
\* the right side, the order stays; a win stands above every draw and a draw above every
\* loss as long as scores keep to the clamp, and the result agrees.
CorrectionKeepsOrder ==
    \A s \in job.scores :
        LET record == result[s]
        IN  /\ \A t \in job.scores :
                  s <= t /\ (job.wdl = 2 => s >= 0) /\ (job.wdl = -2 => t <= 0)
                  => record.score <= result[t].score
            /\ job.wdl # NoTable /\ Cardinality(DOMAIN record.pieces) <= 6 =>
                  /\ record.result = 2 => record.score > WdlToCp(0, ScoreClamp)
                  /\ record.result = 0 => record.score < WdlToCp(0, -ScoreClamp)
                  /\ record.result = (IF job.wdl = 2 THEN 2 ELSE IF job.wdl = -2 THEN 0 ELSE 1)

\* What _pav makes of values and weights is the closest sequence that never falls.
PooledIsClosest ==
    /\ Len(result) = Len(job.values)
    /\ \A i \in 1..Len(result) : Equal(result[i], Isotonic(job.values, job.weights, i))

\* The anchors of a calibration rise strictly from zero, and what it makes of a score is
\* odd and never falls.
CalibrationRises ==
    /\ result.anchors[1] = [x |-> 0, y |-> 0]
    /\ \A i \in 2..Len(result.anchors) :
          /\ result.anchors[i - 1].x < result.anchors[i].x
          /\ result.anchors[i - 1].y <= result.anchors[i].y
    /\ result.scores # <<>> =>
          \A s, t \in job.scores :
              /\ s <= t => result.scores[s] <= result.scores[t]
              /\ result.scores[-s] = -result.scores[s]

\* No tool that changes scores reorders them: the correction by tablebases, the pooling
\* of adjacent violators, and the calibration made from it.
ScoresKeepTheirOrder ==
    /\ Done("relabel") => CorrectionKeepsOrder
    /\ Done("pav") => PooledIsClosest
    /\ Done("calibrate") => CalibrationRises

=============================================================================
