----------------------------- MODULE NetFormat -----------------------------
(***************************************************************************)
(* The .nn container: what the trainer exports, what load_net accepts and  *)
(* what write_net, the numpy model and the warm-start converter make of a  *)
(* loaded net.  Tensors are abstracted to their shapes, since every check  *)
(* of these tools is about shapes, flags and sizes.                        *)
(*                                                                         *)
(* A configuration is the trainer's: format (1..12), buckets (trained),    *)
(* runtime (buckets of the exported net), channels, outputs, hidden and    *)
(* flags.  An architecture is a net's: version, buckets, channels,         *)
(* outputs, head (output head features), hidden and flags.                 *)
(***************************************************************************)
EXTENDS Integers, FiniteSets

RuntimeHidden == 1024
HeaderSize == 64
BucketCounts == {1, 2, 4, 8, 10, 16, 32}
Layouts == (BucketCounts \X {12}) \cup ({10, 16, 32} \X {11})
OutputBuckets == {1, 2, 4, 8}
HeadFeatures == {0, 2}
Hiddens == {512, 768, 1024}
Versions == {2, 3, 4, 5, 6, 8, 9, 10, 11, 12}

ThreatFlags == {"full_threats", "slider_xray_threats"}
InputFlags == ThreatFlags \cup {"pawn_pairs"}
Flags == InputFlags \cup {"full_heads", "mixed_activation", "psqt_residual", "l2_output_skip"}

HasThreats(a) == a.flags \cap ThreatFlags # {}
Has(a, flag) == flag \in a.flags
NotMade == [made |-> FALSE]

---------------------------------------------------------------------------
\* Sizes

Features(a) ==
    a.buckets * a.channels * 64
    + (IF HasThreats(a) THEN 59808 ELSE 0)
    + (IF Has(a, "pawn_pairs") THEN 4560 ELSE 0)

\* Bytes of the payload of a net of width h (exported nets have RuntimeHidden).
NetworkSize(a, h) ==
    LET heads == IF Has(a, "full_heads") THEN a.outputs ELSE 1
        tail == 16 * 32 * 4 + 32 * 4
    IN  Features(a) * h * 2 + h * 2
        + heads * (2 * h * 16 + 16 * 4 + tail)
        + (IF Has(a, "mixed_activation") THEN heads * tail ELSE 0)
        + a.outputs * (32 + a.head) * 4 + a.outputs * 4
        + (IF Has(a, "l2_output_skip") THEN a.outputs * 16 * 4 ELSE 0)
        + (IF Has(a, "psqt_residual") THEN (Features(a) + 1) * a.outputs * 4 ELSE 0)

\* The layouts whose headerless size is s, tried for the whole file first and then
\* for the file without a header; the first match in the order of the tables wins.
Plain(l, o, h) ==
    [version |-> 1, buckets |-> l[1], channels |-> l[2], outputs |-> o, head |-> h,
     hidden |-> RuntimeHidden, flags |-> {}]
LayoutsOfSize(s) ==
    {a \in {Plain(l, o, h) : l \in Layouts, o \in OutputBuckets, h \in HeadFeatures} :
        NetworkSize(a, RuntimeHidden) = s}
DetectLayout(size) ==
    IF LayoutsOfSize(size) # {} THEN LayoutsOfSize(size) ELSE LayoutsOfSize(size - HeaderSize)

---------------------------------------------------------------------------
\* The trainer

\* validate_layout of the trainer, mode "enyo".
TrainerAccepts(c) ==
    LET threats == HasThreats(c)
        full == Has(c, "full_heads")
        mixed == Has(c, "mixed_activation")
        skip == Has(c, "l2_output_skip")
        psqt == Has(c, "psqt_residual")
        pairs == Has(c, "pawn_pairs")
    IN  /\ c.buckets <= c.runtime
        /\ <<c.buckets, c.channels>> \in Layouts /\ <<c.runtime, c.channels>> \in Layouts
        /\ c.outputs \in OutputBuckets /\ c.hidden \in Hiddens
        /\ c.format \in Versions \cup {1}
        /\ c.format = 1 => c.hidden = RuntimeHidden
        /\ Cardinality(c.flags \cap InputFlags) <= 1
        /\ threats => c.format \in {2, 6, 12}
        /\ pairs => c.format = 10
        /\ full => c.format \in {3, 6, 11} /\ c.outputs > 1
        /\ c.format = 3 => full
        /\ c.format = 6 => full /\ threats
        /\ mixed => c.format = 4 \/ (skip /\ c.format \in 8..12)
        /\ skip => c.format \in 8..12 /\ mixed
        /\ c.format = 4 => mixed
        /\ psqt <=> c.format = 5
        /\ psqt => ~mixed /\ ~full /\ ~threats /\ c.outputs = 8
        /\ mixed \/ skip => (full => c.format = 11) /\ (threats => c.format = 12) /\ c.outputs = 8
        /\ threats \/ pairs => c.buckets = c.runtime
        /\ c.format = 12 => threats /\ ~full /\ mixed /\ skip /\ c.outputs = 8
        /\ c.format = 10 => pairs /\ ~full /\ mixed /\ skip /\ c.outputs = 8
        /\ c.format = 11 => full /\ ~threats /\ ~pairs /\ mixed /\ skip /\ c.outputs = 8

\* What the trainer can be asked to train, and what bullet.py asks it for.
AnyConfiguration ==
    [format : 1..12, flags : SUBSET Flags, buckets : BucketCounts, runtime : BucketCounts,
     channels : {11, 12}, outputs : OutputBuckets, hidden : Hiddens]
Configurations == {c \in AnyConfiguration : TrainerAccepts(c)}
BulletConfigurations == {c \in AnyConfiguration : c.format = 2 /\ c.flags = {}}

\* The architecture a configuration names: trained, and as exported.
Trained(c) ==
    [version |-> c.format, buckets |-> c.buckets, channels |-> c.channels,
     outputs |-> c.outputs, head |-> 0, hidden |-> c.hidden, flags |-> c.flags]
Exported(c) == [Trained(c) EXCEPT !.buckets = c.runtime]

\* The flags write_model hands to enyo_container for each format.
HeaderFlags(c) ==
    c.flags \cap
        CASE c.format = 2 -> ThreatFlags
          [] c.format = 3 -> {"full_heads"}
          [] c.format = 4 -> {"mixed_activation"}
          [] c.format = 5 -> {"psqt_residual"}
          [] c.format = 6 -> ThreatFlags \cup {"full_heads"}
          [] c.format = 8 -> {"mixed_activation", "l2_output_skip"}
          [] c.format \in {9, 12} -> ThreatFlags \cup {"mixed_activation", "l2_output_skip"}
          [] c.format = 10 -> {"pawn_pairs", "mixed_activation", "l2_output_skip"}
          [] c.format = 11 -> {"full_heads", "mixed_activation", "l2_output_skip"}
          [] OTHER -> {}

\* Mutant: the buckets are not expanded.
SizeUnexpanded(c) == NetworkSize(Trained(c), c.hidden)
\* expand_input_buckets copies rows of the input table only; a PSQT table in the
\* tail keeps the rows of the trained buckets.
ExpandedSize(c) ==
    NetworkSize(Trained(c), c.hidden) + (c.runtime - c.buckets) * c.channels * 64 * c.hidden * 2

\* pad_hidden_width trims against the size of the runtime layout before it pads.
WriteModel(c) ==
    LET narrow == NetworkSize(Exported(c), c.hidden)
        payload == IF c.hidden = RuntimeHidden THEN ExpandedSize(c)
                   ELSE NetworkSize(Exported(c), RuntimeHidden)
        named == [Exported(c) EXCEPT !.flags = HeaderFlags(c)]
    IN  IF c.hidden # RuntimeHidden /\ ExpandedSize(c) < narrow THEN NotMade
        ELSE IF c.format = 1 THEN [made |-> TRUE, header |-> FALSE, size |-> payload]
        ELSE [made |-> TRUE, header |-> TRUE, arch |-> named, size |-> payload + HeaderSize]

---------------------------------------------------------------------------
\* bullet.py, which starts the trainer without flags and exports on its own

\* cmd_train trims and expands the newest checkpoint; the net has no header and stays
\* as wide as it was trained.
BulletExport(c) ==
    IF (c.channels = 11 /\ <<c.buckets, c.runtime>> # <<32, 32>>) \/ c.buckets > c.runtime
    THEN NotMade ELSE [made |-> TRUE, header |-> FALSE, size |-> ExpandedSize(c)]

\* pad_enyo_hidden adds the missing width to the input table, its bias and the first
\* layer; enyo_v2_container puts the header before the net.
BulletContainer(c) ==
    LET missing == RuntimeHidden - c.hidden
        padding == (Features(Exported(c)) * 2 + 2 + 2 * 16) * missing
    IN  IF ~BulletExport(c).made THEN NotMade
        ELSE [made |-> TRUE, header |-> TRUE, arch |-> [Exported(c) EXCEPT !.version = 2],
              size |-> BulletExport(c).size + padding + HeaderSize]

---------------------------------------------------------------------------
\* load_net

AllowedFlags(v) ==
    ThreatFlags
    \cup (IF v \in {3, 6, 11} THEN {"full_heads"} ELSE {})
    \cup (IF v \in {4, 8, 9, 10, 11, 12} THEN {"mixed_activation"} ELSE {})
    \cup (IF v = 5 THEN {"psqt_residual"} ELSE {})
    \cup (IF v \in {8, 9, 10, 11, 12} THEN {"l2_output_skip"} ELSE {})
    \cup (IF v = 10 THEN {"pawn_pairs"} ELSE {})

LoadAccepts(a) ==
    LET threats == HasThreats(a)
        full == Has(a, "full_heads")
        mixed == Has(a, "mixed_activation")
        skip == Has(a, "l2_output_skip")
        psqt == Has(a, "psqt_residual")
        v == a.version
    IN  /\ v \in Versions /\ a.hidden \in Hiddens /\ <<a.buckets, a.channels>> \in Layouts
        /\ a.outputs \in OutputBuckets /\ a.head \in HeadFeatures
        /\ a.flags \subseteq AllowedFlags(v)
        /\ Cardinality(a.flags \cap InputFlags) <= 1
        /\ full <=> v \in {3, 6, 11}
        /\ full => a.outputs > 1
        /\ v = 3 => ~threats
        /\ v = 6 => threats
        /\ mixed <=> v \in {4, 8, 9, 10, 11, 12}
        /\ mixed => (full => v = 11) /\ (threats => v = 12) /\ a.outputs = 8
        /\ psqt <=> v = 5
        /\ psqt => ~full /\ ~threats /\ ~mixed /\ a.outputs = 8
        /\ skip <=> v \in {8, 9, 10, 11, 12}
        /\ skip => mixed /\ (full => v = 11) /\ (threats => v = 12) /\ a.outputs = 8 /\ a.head = 0
        /\ v = 12 => threats /\ ~full
        /\ v = 10 => Has(a, "pawn_pairs") /\ ~threats /\ ~full
        /\ v = 11 => full /\ ~threats /\ ~Has(a, "pawn_pairs")

\* The net in memory: its architecture, the rows of its input table and the
\* shape of its squared branch ("none", "shared" or "heads").
InMemory(a) ==
    [made |-> TRUE, arch |-> a, rows |-> Features(a),
     squared |-> IF ~Has(a, "mixed_activation") THEN "none"
                 ELSE IF Has(a, "full_heads") THEN "heads" ELSE "shared"]

LoadNet(f) ==
    IF ~f.made THEN NotMade
    ELSE IF f.header
    THEN IF LoadAccepts(f.arch) /\ f.size = HeaderSize + NetworkSize(f.arch, RuntimeHidden)
         THEN InMemory(f.arch) ELSE NotMade
    ELSE LET found == DetectLayout(f.size)
         IN  IF \E a \in found : NetworkSize(a, RuntimeHidden) = f.size
             THEN InMemory(CHOOSE a \in found : TRUE) ELSE NotMade

---------------------------------------------------------------------------
\* write_net, and the numpy model in between

WriteAcceptsShape(n) ==
    LET a == n.arch
    IN  /\ <<a.buckets, a.channels>> \in Layouts /\ a.hidden \in Hiddens
        /\ n.rows = Features(a)
        /\ Has(a, "mixed_activation") =>
              n.squared = (IF Has(a, "full_heads") THEN "heads" ELSE "shared")
        /\ a.outputs \in OutputBuckets /\ a.head \in HeadFeatures
        /\ Has(a, "full_heads") => a.outputs > 1 /\ a.head = 0

\* Mutant: the version is not compared with the PSQT table.
AcceptsAnyPsqt(a) ==
    /\ Has(a, "full_heads") <=> a.version \in {3, 6, 11}
    /\ Has(a, "mixed_activation") <=> a.version \in {4, 8, 9, 10, 11, 12}
WriteAcceptsVersion(a) ==
    LET threats == HasThreats(a)
        full == Has(a, "full_heads")
        mixed == Has(a, "mixed_activation")
        skip == Has(a, "l2_output_skip")
        v == a.version
    IN  \/ v = 1 /\ ~full /\ a.hidden = RuntimeHidden
        \/ /\ v \in Versions
           /\ full <=> v \in {3, 6, 11}
           /\ v = 3 => ~threats
           /\ v = 6 => threats
           /\ mixed <=> v \in {4, 8, 9, 10, 11, 12}
           /\ Has(a, "psqt_residual") <=> v = 5
           /\ skip <=> v \in {8, 9, 10, 11, 12}
           /\ skip => (full => v = 11) /\ (threats => v = 12) /\ a.outputs = 8 /\ a.head = 0
           /\ v = 12 => threats /\ ~full
           /\ v = 10 => Has(a, "pawn_pairs") /\ ~threats /\ ~full
           /\ v = 11 => full /\ ~threats /\ ~Has(a, "pawn_pairs")

\* The size write_net expects to find on disk; version 12 is missing from its list
\* of formats with a header.
ExpectedSize(a) ==
    NetworkSize(a, RuntimeHidden)
    + (IF a.version \in {2, 3, 4, 5, 6, 8, 9, 10, 11} THEN HeaderSize ELSE 0)

\* The file is on disk before its size is looked at.
WriteNet(n) ==
    IF ~n.made \/ ~WriteAcceptsShape(n) \/ ~WriteAcceptsVersion(n.arch)
    THEN [file |-> NotMade, ok |-> FALSE]
    ELSE LET a == n.arch
             payload == NetworkSize(a, RuntimeHidden)
             file == IF a.version = 1 THEN [made |-> TRUE, header |-> FALSE, size |-> payload]
                     ELSE [made |-> TRUE, header |-> TRUE, arch |-> a, size |-> payload + HeaderSize]
         IN  [file |-> file, ok |-> file.size = ExpectedSize(a)]

\* load_model_from_nn: the model has no place for pawn pairs and PSQT tables, and
\* keeps the squared branch with a leading axis of heads.
ModelOf(n) ==
    IF ~n.made THEN NotMade
    ELSE [n EXCEPT !.arch.flags = @ \ {"pawn_pairs", "psqt_residual"},
                   !.squared = IF @ = "none" THEN @ ELSE "heads"]
ExportModel(m) == WriteNet(m)

---------------------------------------------------------------------------
\* enyo_nn_to_bullet_weights.py: a child configuration starts from a parent net

\* source_bucket_for_target and source_buckets_for_target find a parent bucket.
BucketsMap(from, to) == from = to \/ from = 1 \/ to % from = 0 \/ (from = 32 /\ to = 16)
OutputsMap(from, to) == from = to \/ from = 1 \/ (to > from /\ to % from = 0)
ChannelsMap(from, to) == from = to \/ (from = 12 /\ to = 11)

\* Mutant: a table of another layout is kept.
RowsOfParent(n, c) == n.rows
\* The rows convert_input_weights returns: the whole table of an unchanged layout,
\* else the base rows of the new one.
ConvertedRows(n, c) ==
    IF n.arch.buckets = c.buckets /\ n.arch.channels = c.channels
    THEN n.rows ELSE c.buckets * c.channels * 64

StartAccepts(n, c, reset) ==
    LET a == n.arch
        full == Has(c, "full_heads")
        mixed == Has(c, "mixed_activation")
    IN  /\ c.channels = 11 => c.buckets \in {10, 16, 32}
        /\ BucketsMap(a.buckets, c.buckets) /\ ChannelsMap(a.channels, c.channels)
        /\ IF reset
           THEN /\ c.flags \cap {"mixed_activation", "l2_output_skip", "psqt_residual"} = {}
                /\ c.hidden = RuntimeHidden
           ELSE /\ OutputsMap(a.outputs, c.outputs)
                /\ a.head = 0 \/ a.outputs = c.outputs
                /\ Has(a, "full_heads") => full
        /\ Cardinality(c.flags \cap InputFlags) <= 1
        /\ Has(c, "pawn_pairs") => ~HasThreats(a)
        /\ mixed /\ n.squared = "heads" => full /\ OutputsMap(a.outputs, c.outputs)
        /\ Has(c, "l2_output_skip") /\ Has(a, "l2_output_skip") => a.outputs = c.outputs

\* The tensors of weights.bin: rows of the input table, dense heads and width of
\* the output layer.
WeightsFrom(n, c, reset) ==
    IF ~n.made \/ ~StartAccepts(n, c, reset) THEN NotMade
    ELSE [made |-> TRUE,
          rows |-> ConvertedRows(n, c)
                   + (IF HasThreats(c) /\ ~HasThreats(n.arch) THEN 59808 ELSE 0)
                   + (IF Has(c, "pawn_pairs") THEN 4560 ELSE 0),
          heads |-> IF Has(c, "full_heads") THEN c.outputs ELSE 1,
          width |-> 32 + (IF reset THEN 0 ELSE n.arch.head),
          outputs |-> c.outputs,
          psqt |-> IF Has(c, "psqt_residual") THEN c.buckets * c.channels * 64 ELSE 0,
          mixed |-> Has(c, "mixed_activation"), skip |-> Has(c, "l2_output_skip")]

\* What a trainer of the child loads.
TensorsOf(c) ==
    [made |-> TRUE, rows |-> Features(Trained(c)),
     heads |-> IF Has(c, "full_heads") THEN c.outputs ELSE 1,
     width |-> 32, outputs |-> c.outputs,
     psqt |-> IF Has(c, "psqt_residual") THEN Features(Trained(c)) ELSE 0,
     mixed |-> Has(c, "mixed_activation"), skip |-> Has(c, "l2_output_skip")]

=============================================================================
