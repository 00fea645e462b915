----------------------------- MODULE CorpusOps -----------------------------
(***************************************************************************)
(* The corpus tools as functions of their inputs: how work is split over   *)
(* shards, which records a shard reads, how corpora are cut, mixed,        *)
(* sampled and merged, and how the score calibration is fitted and         *)
(* applied.  Where a tool draws random numbers the result is the set of    *)
(* outcomes some draw leads to.                                            *)
(***************************************************************************)
EXTENDS TrainingRecords, Sequences, SequencesExt

AtMost(a, b) == IF a < b THEN a ELSE b
AtLeast(a, b) == IF a > b THEN a ELSE b
Total(numbers) == FoldLeft(LAMBDA acc, n : acc + n, 0, numbers)

---------------------------------------------------------------------------
\* Shards of a conversion

\* split_record_limit, the same as shard_game_count of the self-play shards.
Share(total, shards, index) == total \div shards + (IF index < total % shards THEN 1 ELSE 0)
SplitRecordLimit(total, shards, index) == IF total <= 0 THEN 0 ELSE Share(total, shards, index)

\* selected_input_paths: ordinals count all inputs, sorted by name.
SelectedPath(ordinal, shards, index) == ordinal % shards = index

\* One record of a source; a broken one raises and ends its source.
ReadRecord(st, rec, quota) ==
    IF st.stopped \/ st.broken THEN st
    ELSE IF rec.kind = "broken" THEN [st EXCEPT !.broken = TRUE, !.invalid = @ + 1]
    ELSE IF quota > 0 /\ st.records >= quota THEN [st EXCEPT !.stopped = TRUE]
    ELSE [st EXCEPT !.records = @ + 1,
                    !.invalid = IF rec.kind = "invalid" THEN @ + 1 ELSE @,
                    !.rows = IF rec.kind = "row" THEN Append(@, rec.id) ELSE @]

ReadSource(st, source, quota) ==
    FoldLeft(LAMBDA acc, rec : ReadRecord(acc, rec, quota),
             [st EXCEPT !.files = @ + 1, !.broken = FALSE], source)

IterRows(sources, limit, shards, index) ==
    LET quota == SplitRecordLimit(limit, shards, index)
        read(st, i) == IF st.stopped \/ ~SelectedPath(i - 1, shards, index) THEN st
                       ELSE ReadSource(st, sources[i], quota)
    IN  FoldLeft(read, [files |-> 0, records |-> 0, invalid |-> 0, rows |-> <<>>,
                        stopped |-> FALSE, broken |-> FALSE],
                 [i \in 1..Len(sources) |-> i])

---------------------------------------------------------------------------
\* repartition_bullet.py: sources are sequences of records

Repartition(sources, chunks) ==
    LET stream == FlattenSeq(sources)
        total == Len(stream)
        size(i) == Share(total, chunks, i - 1)
        start(i) == Total([j \in 1..(i - 1) |-> size(j)])
        lastRead == CHOOSE i \in 1..Len(sources) :
                        /\ i = 1 \/ sources[i] # <<>>
                        /\ \A j \in (i + 1)..Len(sources) : sources[j] = <<>>
    IN  IF total < chunks THEN [ok |-> FALSE, chunks |-> <<>>]
        ELSE [ok |-> lastRead = Len(sources),
              chunks |-> [i \in 1..chunks |-> SubSeq(stream, start(i) + 1, start(i) + size(i))]]

---------------------------------------------------------------------------
\* mix_jsonl.py: rows are records [id, score]; a source is its rows, the quota
\* asked for and the bound on the score

KeepLine(row, bound) == bound <= 0 \/ (row.scored /\ row.score <= bound /\ -row.score <= bound)
Eligible(source) ==
    FoldLeft(LAMBDA acc, row : IF KeepLine(row, source.bound) THEN Append(acc, row) ELSE acc,
             <<>>, source.rows)
Quota(source) == AtMost(source.requested, Len(Eligible(source)))

\* randrange(available) < needed may take a line when any is needed and must when as
\* many are needed as are left.
TakeOrLeave(st, row) ==
    (IF st.needed > 0
     THEN {[picked |-> Append(st.picked, row.id), needed |-> st.needed - 1, left |-> st.left - 1]}
     ELSE {})
    \cup (IF st.needed < st.left \/ st.needed = 0 THEN {[st EXCEPT !.left = @ - 1]} ELSE {})

\* selected_lines: what the draws may pick.
SelectLines(source) ==
    {st.picked :
        st \in FoldLeft(LAMBDA states, row : UNION {TakeOrLeave(st, row) : st \in states},
                        {[picked |-> <<>>, needed |-> Quota(source), left |-> Len(Eligible(source))]},
                        Eligible(source))}

---------------------------------------------------------------------------
\* posgen.py sample: every row goes to the first bucket that contains its score

BucketContains(bucket, score) ==
    /\ bucket.sign = "pos" => score > 0
    /\ bucket.sign = "neg" => score < 0
    /\ bucket.sign = "zero" => score = 0
    /\ bucket.lo <= Abs(score) /\ Abs(score) < bucket.hi

BucketFor(buckets, row) ==
    LET fits == {i \in 1..Len(buckets) : BucketContains(buckets[i], row.score)}
    IN  IF fits = {} THEN 0 ELSE CHOOSE i \in fits : \A j \in fits : i <= j

\* maybe_take: the reservoirs some draw leads to.
MaybeTake(st, size, row) ==
    LET taken == [st EXCEPT !.accepted = @ + 1]
    IN  IF Len(st.reservoir) < size THEN {[taken EXCEPT !.reservoir = Append(@, row.id)]}
        ELSE {taken} \cup {[taken EXCEPT !.reservoir[i] = row.id] : i \in 1..size}

Reservoirs(buckets, rows, b) ==
    FoldLeft(LAMBDA states, row :
                IF row.scored /\ BucketFor(buckets, row) = b
                THEN UNION {MaybeTake(st, buckets[b].rows, row) : st \in states} ELSE states,
             {[reservoir |-> <<>>, accepted |-> 0]}, rows)

---------------------------------------------------------------------------
\* pack_dataset.py: shards number their sources on their own

\* source_map of one shard: names in the order of their first row.
FirstSeen(names) ==
    FoldLeft(LAMBDA acc, n : IF \E i \in 1..Len(acc) : acc[i] = n THEN acc ELSE Append(acc, n),
             <<>>, names)
IdOf(map, name) == CHOOSE i \in 1..Len(map) : map[i] = name
Pack(names) == [map |-> FirstSeen(names),
                ids |-> [i \in 1..Len(names) |-> IdOf(FirstSeen(names), names[i])]]

\* merge_packed_shards: the local ids of a shard, in ascending order, claim their
\* places in the map of the merged set.
MergeShard(acc, shard) ==
    LET map == FirstSeen(acc.map \o shard.map)
    IN  [map |-> map,
         ids |-> acc.ids \o [i \in 1..Len(shard.ids) |-> IdOf(map, shard.map[shard.ids[i]])]]
\* Mutant: the ids of a shard are kept.
MergeLocalIds(shards) ==
    FoldLeft(LAMBDA acc, shard : [map |-> FirstSeen(acc.map \o shard.map), ids |-> acc.ids \o shard.ids],
             [map |-> <<>>, ids |-> <<>>], shards)
MergeShards(shards) == FoldLeft(MergeShard, [map |-> <<>>, ids |-> <<>>], shards)

---------------------------------------------------------------------------
\* lc0_calibration.py

\* A block of _pav is the number, the weighted sum and the weight of adjacent values.
Mean(block) == [n |-> block.sum, d |-> block.weight]
NotAbove(a, b) == a.n * b.d <= b.n * a.d
\* The last two blocks become one if their means fall.
MergeLast(bs) ==
    LET k == Len(bs)
    IN  IF k < 2 \/ NotAbove(Mean(bs[k - 1]), Mean(bs[k])) THEN bs
        ELSE Append(SubSeq(bs, 1, k - 2), [size |-> bs[k - 1].size + bs[k].size,
                                           sum |-> bs[k - 1].sum + bs[k].sum,
                                           weight |-> bs[k - 1].weight + bs[k].weight])
\* Mutant: a merged block is not compared with the one before it.
PoolOnce(blocks) == MergeLast(blocks)
Pool(blocks) == FoldLeft(LAMBDA bs, b : MergeLast(bs), blocks, blocks)

Pav(values, weights) ==
    LET blocks == FoldLeft(LAMBDA bs, i :
                               Pool(Append(bs, [size |-> 1, sum |-> values[i] * weights[i],
                                                weight |-> weights[i]])),
                           <<>>, [i \in 1..Len(values) |-> i])
    IN  FlattenSeq([b \in 1..Len(blocks) |-> [i \in 1..blocks[b].size |-> Mean(blocks[b])]])

\* Twice the median of a nonempty sorted sequence.
MedianTwice(seq) == seq[(Len(seq) + 1) \div 2] + seq[(Len(seq) + 2) \div 2]

\* sorted: each element goes behind those it does not come before.
Sorted(seq) ==
    FoldLeft(LAMBDA acc, x : InsertAt(acc, Cardinality({i \in 1..Len(acc) : ~(x < acc[i])}) + 1, x),
             <<>>, seq)
PairBefore(a, b) == a.raw < b.raw \/ (a.raw = b.raw /\ a.target < b.target)
SortedPairs(pairs) ==
    FoldLeft(LAMBDA acc, x : InsertAt(acc, Cardinality({i \in 1..Len(acc) : ~PairBefore(x, acc[i])}) + 1, x),
             <<>>, pairs)

\* fit_anchors: pairs are records [raw, target] of absolute values.
FitAnchors(pairs, wanted) ==
    LET rows == SortedPairs(pairs)
        bins == AtLeast(2, AtMost(wanted, Len(rows)))
        chunk(b) == SubSeq(rows, ((b - 1) * Len(rows)) \div bins + 1, (b * Len(rows)) \div bins)
        xs == [b \in 1..bins |-> MedianTwice([i \in 1..Len(chunk(b)) |-> chunk(b)[i].raw])]
        ys == Pav([b \in 1..bins |-> MedianTwice(Sorted([i \in 1..Len(chunk(b)) |-> chunk(b)[i].target]))],
                  [b \in 1..bins |-> Len(chunk(b))])
        point(b) == [x |-> Round(xs[b], 2),
                     y |-> AtMost(2045, AtLeast(0, Round(ys[b].n, 2 * ys[b].d)))]
        add(anchors, b) ==
            IF point(b).x = 0 THEN anchors
            ELSE IF point(b).x <= Last(anchors).x
            THEN [anchors EXCEPT ![Len(anchors)].y = AtLeast(@, point(b).y)]
            ELSE Append(anchors, point(b))
    IN  FoldLeft(add, <<[x |-> 0, y |-> 0]>>, [b \in 1..bins |-> b])

\* apply_anchors: the piece the magnitude falls into, or the last one prolonged.
ApplyAnchors(score, anchors) ==
    LET m == Abs(score)
        within == {i \in 2..Len(anchors) : m <= anchors[i].x}
        i == IF within = {} THEN Len(anchors) ELSE CHOOSE i \in within : \A j \in within : i <= j
        p == anchors[i - 1]
        q == anchors[i]
        width == AtLeast(1, q.x - p.x)
        y == IF within = {} THEN Round(q.y * width + (m - q.x) * (q.y - p.y), width)
             ELSE Round(p.y * width + (m - p.x) * (q.y - p.y), width)
    IN  IF m = 0 THEN 0 ELSE (IF score < 0 THEN -1 ELSE 1) * AtMost(2045, y)

=============================================================================
