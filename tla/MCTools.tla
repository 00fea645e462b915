------------------------------ MODULE MCTools ------------------------------
(***************************************************************************)
(* The invocations of the tools for TLC.                                   *)
(***************************************************************************)
EXTENDS Tools, TLC

\* The configurations the trainer accepts, found first for one size.
Config(kind, size) ==
    [format |-> kind[1], flags |-> kind[2], buckets |-> size[1], runtime |-> size[2],
     channels |-> size[3], outputs |-> size[4], hidden |-> size[5]]
NetKinds ==
    {k \in (1..12) \X SUBSET Flags : TrainerAccepts(Config(k, <<16, 16, 12, 8, 1024>>))}
Configs ==
    {c \in {Config(k, s) : k \in NetKinds,
                           s \in {8, 16, 32} \X {16, 32} \X {11, 12} \X {1, 8} \X {512, 1024}} :
        TrainerAccepts(c)}
Parents ==
    {c \in Configs : c.outputs = 8 /\ c.hidden = 1024 /\ c.buckets = c.runtime
                     /\ (c.channels = 12 \/ c.runtime = 32)}
Children == {c \in Configs : c.buckets = c.runtime /\ (c.hidden = 1024 \/ c.format = 2)}

TrainedSizes == {1, 2, 4, 8, 10, 16, 32}
NetJobs ==
    {[tool |-> t, c |-> c] : t \in {"export", "rewrite"}, c \in Configs}
    \cup {[tool |-> "bullet", c |-> Config(<<2, {}>>, s)] :
             s \in TrainedSizes \X TrainedSizes \X {11, 12} \X OutputBuckets \X Hiddens}
    \cup {[tool |-> "warmstart", parent |-> p, child |-> c, reset |-> FALSE] :
             p \in Parents, c \in Children}
    \cup {[tool |-> "warmstart", parent |-> p, child |-> c, reset |-> TRUE] :
             p \in {p \in Parents : p.format \in {2, 6, 8}}, c \in Children}
RewriteJobs == {j \in NetJobs : j.tool = "rewrite"}

LayoutJobs ==
    {[tool |-> "expand", trained |-> l[1], runtime |-> l[2]] :
        l \in {l \in TrainedSizes \X TrainedSizes : l[1] <= l[2]}}
    \cup {[tool |-> "convert", from |-> l[1], to |-> l[2]] :
        l \in {l \in TrainedSizes \X TrainedSizes : BucketsMap(l[1], l[2])}}
    \cup {[tool |-> "threats", attacker |-> a, attacked |-> b] :
        a \in {1, 2, 3, 4, 5, 9, 12}, b \in {1, 2, 4, 5, 11, 13}}

\* Kings on either wing, a slider behind a piece, like pieces that attack each other,
\* pawns of both sides, castling rights with and without the rook, a promotion.
Lone(k, q) == {<<5, k>>, <<11, q>>}
Boards ==
    << Lone(3, 59),
       Lone(6, 57) \cup {<<0, 8>>, <<0, 33>>, <<6, 42>>, <<6, 49>>, <<1, 18>>},
       Lone(3, 59) \cup {<<3, 0>>, <<3, 7>>, <<9, 56>>, <<9, 63>>, <<0, 11>>, <<6, 51>>},
       Lone(1, 62) \cup {<<4, 27>>, <<10, 31>>, <<2, 20>>, <<8, 38>>, <<7, 37>>},
       Lone(12, 45) \cup {<<3, 24>>, <<0, 26>>, <<9, 29>>, <<9, 26 + 8>>, <<3, 2>>},
       Lone(4, 60) \cup {<<1, 21>>, <<7, 36>>, <<1, 42>>, <<8, 35>>, <<2, 49>>},
       Lone(0, 63) \cup {<<0, 50>>, <<10, 5>>, <<4, 61>>, <<6, 13>>},
       Lone(5, 58) \cup {<<0, 3>>} >>
Records ==
    {[v6 |-> TRUE, planes |-> Boards[i], black |-> black, meta |-> meta,
      policy |-> {[from |-> 50, to |-> 58, promo |-> "none"], [from |-> 50, to |-> 57, promo |-> "q"],
                  [from |-> 8, to |-> 16, promo |-> "none"]}, q |-> v[1], d |-> v[2]] :
        i \in DOMAIN Boards, black \in BOOLEAN, v \in {<<1, 0>>, <<-1, 0>>, <<0, 1>>},
        meta \in {[we |-> {"00", "000"}, they |-> {"00"}]}}
    \cup {[v6 |-> v6, planes |-> Boards[1], black |-> FALSE, meta |-> [we |-> {}, they |-> {}],
           policy |-> {}, q |-> 0, d |-> 2] : v6 \in BOOLEAN}
PositionJobs == {[tool |-> "position", rec |-> rec, score |-> s] : rec \in Records, s \in {-70, 333}}

RelabelScores == {s * 89 : s \in -22..22} \cup {0, 1, -1, 349, 350, 351, 1199, 1201, -2045, 2045}
RelabelJobs ==
    {[tool |-> "relabel", scores |-> RelabelScores \cup {-s : s \in RelabelScores},
      record |-> [pieces |-> [s \in 0..(n - 1) |-> 0], score |-> 0, result |-> 1], wdl |-> w] :
        n \in {6, 7}, w \in -2..2 \cup {NoTable}}

\* Records of a source, numbered through.
Kinds == {<<>>, <<"row">>, <<"row", "invalid">>, <<"row", "broken", "row">>, <<"row", "skip", "row">>}
Numbered(kinds) ==
    [i \in 1..Len(kinds) |->
        [k \in 1..Len(kinds[i]) |-> [kind |-> kinds[i][k], id |-> 10 * i + k]]]
ShardJobs ==
    {[tool |-> "shards", sources |-> Numbered(kinds), limit |-> limit, shards |-> n] :
        kinds \in [1..3 -> Kinds], limit \in {0, 1, 3, 5}, n \in 1..3}
Lengths == UNION {[1..n -> 0..2] : n \in 1..3}
RecutJobs ==
    {[tool |-> "recut", chunks |-> c,
      sources |-> [i \in 1..Len(ls) |-> [k \in 1..ls[i] |-> 10 * i + k]]] :
        ls \in {[i \in 1..Len(f) |-> f[i]] : f \in Lengths}, c \in 1..4}

Rows(scores) ==
    [i \in 1..Len(scores) |-> [id |-> i, scored |-> scores[i] # 99, score |-> scores[i]]]
Scores == {-40, 0, 7, 40, 99}
MixJobs ==
    {[tool |-> "mix", source |-> [rows |-> Rows(s), bound |-> b, requested |-> n]] :
        s \in [1..3 -> Scores], b \in {0, 20}, n \in {1, 2, 9}}
SampleJobs ==
    {[tool |-> "sample", rows |-> Rows(s),
      buckets |-> << [sign |-> "pos", lo |-> 0, hi |-> 30, rows |-> 1],
                     [sign |-> "any", lo |-> 0, hi |-> 41, rows |-> 2] >>] : s \in [1..4 -> Scores]}
Names == UNION {[1..n -> {"a", "b"}] : n \in 0..2}
PackJobs == {[tool |-> "pack", shards |-> s] : s \in UNION {[1..n -> Names] : n \in 1..3}}

Values == {0, 3, 10}
PavJobs ==
    {[tool |-> "pav", values |-> v, weights |-> w] :
        v \in [1..4 -> Values], w \in {<<1, 1, 1, 1>>, <<1, 2, 1, 2>>, <<2, 1, 1, 1>>}}
Pairs == [raw : {0, 10, 11, 40}, target : {2, 30}]
CalibrateJobs ==
    {[tool |-> "calibrate", pairs |-> p, bins |-> b, scores |-> -60..60] :
        p \in [1..3 -> Pairs], b \in {2, 3}}

MCJobs ==
    NetJobs \cup LayoutJobs \cup PositionJobs \cup RelabelJobs \cup ShardJobs \cup RecutJobs
    \cup MixJobs \cup SampleJobs \cup PackJobs \cup PavJobs \cup CalibrateJobs

=============================================================================
