---------------------------- MODULE ToolsProofs ----------------------------
(***************************************************************************)
(* What holds of the net tools for every configuration, of a position seen *)
(* by either side for every record, and of the rows of the threat table    *)
(* for every pair of pieces and every board.                               *)
(***************************************************************************)
EXTENDS Tools, FunctionTheorems, FiniteSetTheorems, WellFoundedInduction, TLAPS

-----------------------------------------------------------------------------
(* Sizes *)

\* What every net that is accepted has of numbers.
Sized(a) ==
    /\ <<a.buckets, a.channels>> \in Layouts
    /\ a.outputs \in OutputBuckets /\ a.head \in HeadFeatures

LEMMA LayoutRange ==
    ASSUME NEW b, NEW c, <<b, c>> \in Layouts
    PROVE  /\ b \in {1, 2, 4, 8, 10, 16, 32} /\ c \in {11, 12}
           /\ c = 11 => b \in {10, 16, 32}
BY DEF Layouts, BucketCounts

LEMMA LayoutHas ==
    ASSUME NEW b \in {1, 2, 4, 8, 10, 16, 32}, NEW c \in {11, 12}, c = 11 => b \in {10, 16, 32}
    PROVE  <<b, c>> \in Layouts
BY DEF Layouts, BucketCounts

LEMMA FeaturesType == ASSUME NEW a, Sized(a) PROVE Features(a) \in Nat
<1>1. a.buckets \in Nat /\ a.channels \in Nat
  BY LayoutRange DEF Sized
<1>2. a.buckets * a.channels * 64 \in Nat
  BY <1>1
<1> QED
  BY <1>2 DEF Features

LEMMA SizeType == ASSUME NEW a, Sized(a), NEW h \in Nat PROVE NetworkSize(a, h) \in Nat
<1>1. a.outputs \in Nat /\ a.head \in Nat
  BY DEF Sized, OutputBuckets, HeadFeatures
<1> DEFINE heads == IF Has(a, "full_heads") THEN a.outputs ELSE 1
           tail == 16 * 32 * 4 + 32 * 4
<1>2. heads \in Nat /\ tail \in Nat
  BY <1>1
<1>3. Features(a) \in Nat
  BY FeaturesType
<1>4. /\ Features(a) * h * 2 + h * 2 \in Nat
      /\ heads * (2 * h * 16 + 16 * 4 + tail) \in Nat
      /\ heads * tail \in Nat
      /\ a.outputs * (32 + a.head) * 4 + a.outputs * 4 \in Nat
      /\ a.outputs * 16 * 4 \in Nat
      /\ (Features(a) + 1) * a.outputs * 4 \in Nat
  <2> HIDE DEF heads, tail
  <2> QED
    BY <1>1, <1>2, <1>3
<1> DEFINE first == Features(a) * h * 2 + h * 2
           dense == heads * (2 * h * 16 + 16 * 4 + tail)
           mixed == IF Has(a, "mixed_activation") THEN heads * tail ELSE 0
           output == a.outputs * (32 + a.head) * 4 + a.outputs * 4
           skip == IF Has(a, "l2_output_skip") THEN a.outputs * 16 * 4 ELSE 0
           psqt == IF Has(a, "psqt_residual") THEN (Features(a) + 1) * a.outputs * 4 ELSE 0
<1>5. first \in Nat /\ dense \in Nat /\ mixed \in Nat /\ output \in Nat /\ skip \in Nat /\ psqt \in Nat
  BY <1>4
<1>6. NetworkSize(a, h) = Features(a) * h * 2 + h * 2 + dense + mixed
                          + a.outputs * (32 + a.head) * 4 + a.outputs * 4 + skip + psqt
  BY DEF NetworkSize
<1>7. /\ Features(a) * h * 2 \in Nat /\ h * 2 \in Nat
      /\ a.outputs * (32 + a.head) * 4 \in Nat /\ a.outputs * 4 \in Nat
  BY <1>1, <1>3
<1> HIDE DEF first, dense, mixed, output, skip, psqt
<1> QED
  BY <1>5, <1>6, <1>7

-----------------------------------------------------------------------------
(* Rewriting *)

LEMMA OfSize ==
    ASSUME NEW s, NEW a \in LayoutsOfSize(s)
    PROVE  \E l \in Layouts, o \in OutputBuckets, h \in HeadFeatures :
               a = Plain(l, o, h) /\ NetworkSize(a, RuntimeHidden) = s
<1>1. /\ a \in {Plain(l, o, h) : l \in Layouts, o \in OutputBuckets, h \in HeadFeatures}
      /\ NetworkSize(a, RuntimeHidden) = s
  BY DEF LayoutsOfSize
<1> QED
  BY <1>1

\* load_net finds the net of a headerless file among the plain layouts of its size.
LEMMA LoadPlain ==
    ASSUME NEW f, f.made, ~f.header, LoadNet(f).made
    PROVE  \E l \in Layouts, o \in OutputBuckets, h \in HeadFeatures :
               LoadNet(f) = InMemory(Plain(l, o, h)) /\ NetworkSize(Plain(l, o, h), RuntimeHidden) = f.size
<1> DEFINE found == DetectLayout(f.size)
<1>1. /\ \E a \in found : NetworkSize(a, RuntimeHidden) = f.size
      /\ LoadNet(f) = InMemory(CHOOSE a \in found : TRUE)
  BY DEF LoadNet, NotMade
<1>2. LayoutsOfSize(f.size) # {}
  <2>1. CASE LayoutsOfSize(f.size) = {}
    <3>1. PICK a \in LayoutsOfSize(f.size - HeaderSize) : NetworkSize(a, RuntimeHidden) = f.size
      BY <1>1, <2>1 DEF DetectLayout
    <3>2. a \in LayoutsOfSize(f.size)
      BY <3>1 DEF LayoutsOfSize
    <3> QED
      BY <3>2
  <2> QED
    BY <2>1
<1>3. found = LayoutsOfSize(f.size)
  BY <1>2 DEF DetectLayout
<1>4. (CHOOSE a \in found : TRUE) \in LayoutsOfSize(f.size)
  BY <1>2, <1>3
<1> HIDE DEF found
<1>5. PICK a : a = (CHOOSE x \in found : TRUE)
  OBVIOUS
<1>6. a \in LayoutsOfSize(f.size) /\ LoadNet(f) = InMemory(a)
  BY <1>1, <1>4, <1>5
<1>7. \E l \in Layouts, o \in OutputBuckets, h \in HeadFeatures :
          a = Plain(l, o, h) /\ NetworkSize(a, RuntimeHidden) = f.size
  BY <1>6, OfSize
<1> QED
  BY <1>6, <1>7

LEMMA ModelShape ==
    ASSUME NEW a
    PROVE  ModelOf(InMemory(a)) =
               [made |-> TRUE, arch |-> [a EXCEPT !.flags = @ \ {"pawn_pairs", "psqt_residual"}],
                rows |-> Features(a),
                squared |-> IF InMemory(a).squared = "none" THEN "none" ELSE "heads"]
BY DEF InMemory, ModelOf

LEMMA PlainWrittenBack ==
    ASSUME NEW l \in Layouts, NEW o \in OutputBuckets, NEW h \in HeadFeatures,
           NEW a, a = Plain(l, o, h)
    PROVE  LET file == [made |-> TRUE, header |-> FALSE, size |-> NetworkSize(a, RuntimeHidden)]
           IN  /\ WriteNet(InMemory(a)) = [file |-> file, ok |-> TRUE]
               /\ ModelOf(InMemory(a)) = InMemory(a)
<1>1. /\ a.version = 1 /\ <<a.buckets, a.channels>> = l /\ a.outputs = o /\ a.head = h
      /\ a.hidden = RuntimeHidden /\ a.flags = {}
  BY DEF Plain, Layouts
<1>2. ~Has(a, "full_heads") /\ ~Has(a, "mixed_activation")
  BY <1>1 DEF Has
<1>3. WriteAcceptsShape(InMemory(a)) /\ WriteAcceptsVersion(a)
  BY <1>1, <1>2 DEF WriteAcceptsShape, WriteAcceptsVersion, InMemory, Hiddens, RuntimeHidden
<1>4. NetworkSize(a, RuntimeHidden) \in Nat
  BY <1>1, SizeType DEF Sized, RuntimeHidden
<1>5. ExpectedSize(a) = NetworkSize(a, RuntimeHidden)
  BY <1>1, <1>4 DEF ExpectedSize
<1>6. InMemory(a).arch = a /\ InMemory(a).made
  BY DEF InMemory
<1>7. WriteNet(InMemory(a)) =
          [file |-> [made |-> TRUE, header |-> FALSE, size |-> NetworkSize(a, RuntimeHidden)], ok |-> TRUE]
  BY <1>1, <1>3, <1>5, <1>6 DEF WriteNet
<1>8. ModelOf(InMemory(a)) = InMemory(a)
  <2>1. [a EXCEPT !.flags = @ \ {"pawn_pairs", "psqt_residual"}] = a
    BY <1>1 DEF Plain
  <2>2. InMemory(a) = [made |-> TRUE, arch |-> a, rows |-> Features(a), squared |-> "none"]
    BY <1>2 DEF InMemory
  <2>3. InMemory(a).squared = "none"
    BY <2>2
  <2> QED
    BY <2>1, <2>2, <2>3, ModelShape
<1> QED
  BY <1>7, <1>8

\* What load_net accepts, write_net writes: the same header and the same payload.
LEMMA AcceptedWrittenBack ==
    ASSUME NEW a, LoadAccepts(a), Has(a, "full_heads") => a.head = 0
    PROVE  /\ WriteNet(InMemory(a)).file =
                  [made |-> TRUE, header |-> TRUE, arch |-> a,
                   size |-> HeaderSize + NetworkSize(a, RuntimeHidden)]
           /\ WriteNet(InMemory(a)).ok <=> a.version # 12
<1>1. InMemory(a).arch = a /\ InMemory(a).made
  BY DEF InMemory
<1>2. NetworkSize(a, RuntimeHidden) \in Nat /\ a.version \in Versions
  BY SizeType DEF Sized, RuntimeHidden, LoadAccepts
<1>3. WriteAcceptsShape(InMemory(a))
  BY <1>1 DEF WriteAcceptsShape, InMemory, LoadAccepts
<1>4. WriteAcceptsVersion(a)
  BY DEF WriteAcceptsVersion, LoadAccepts
<1>5. a.version # 1
  BY <1>2 DEF Versions
<1>6. ExpectedSize(a) = NetworkSize(a, RuntimeHidden) + HeaderSize <=> a.version # 12
  BY <1>2 DEF ExpectedSize, Versions, HeaderSize
<1>7. NetworkSize(a, RuntimeHidden) + HeaderSize = HeaderSize + NetworkSize(a, RuntimeHidden)
  BY <1>2 DEF HeaderSize
<1>8. /\ WriteNet(InMemory(a)).file =
             [made |-> TRUE, header |-> TRUE, arch |-> a,
              size |-> NetworkSize(a, RuntimeHidden) + HeaderSize]
      /\ WriteNet(InMemory(a)).ok <=> NetworkSize(a, RuntimeHidden) + HeaderSize = ExpectedSize(a)
  BY <1>1, <1>3, <1>4, <1>5 DEF WriteNet
<1> QED
  BY <1>6, <1>7, <1>8

\* A header names these fields and no others.
IsArch(a) ==
    a = [version |-> a.version, buckets |-> a.buckets, channels |-> a.channels,
         outputs |-> a.outputs, head |-> a.head, hidden |-> a.hidden, flags |-> a.flags]

\* Through the numpy model the same, or nothing where the model has no place for a part.
LEMMA AcceptedBlended ==
    ASSUME NEW a, IsArch(a), LoadAccepts(a), Has(a, "full_heads") => a.head = 0
    PROVE  LET blend == ExportModel(ModelOf(InMemory(a)))
           IN  /\ blend.file \in {NotMade, WriteNet(InMemory(a)).file}
               /\ blend.ok <=> /\ a.flags \cap {"pawn_pairs", "psqt_residual"} = {}
                              /\ InMemory(a).squared # "shared"
<1> DEFINE n == ModelOf(InMemory(a))
           gone == {"pawn_pairs", "psqt_residual"}
           b == [a EXCEPT !.flags = @ \ gone]
<1>1. /\ n = [made |-> TRUE, arch |-> b, rows |-> Features(a),
              squared |-> IF InMemory(a).squared = "none" THEN "none" ELSE "heads"]
  BY ModelShape
<1>2. b = [version |-> a.version, buckets |-> a.buckets, channels |-> a.channels, outputs |-> a.outputs,
           head |-> a.head, hidden |-> a.hidden, flags |-> a.flags \ gone]
  BY DEF IsArch
<1>3. b.version = a.version /\ b.flags = a.flags \ gone
  BY <1>2
<1> HIDE DEF n, b
<1>4. n.arch = b
  BY <1>1
<1>5. a.version \in Versions /\ a.version # 1
  BY DEF LoadAccepts, Versions
<1>6. CASE "psqt_residual" \in a.flags
  <2>1. a.version = 5 /\ ~Has(b, "psqt_residual")
    BY <1>3, <1>6 DEF LoadAccepts, Has
  <2>2. ~WriteAcceptsVersion(b)
    BY <1>3, <2>1 DEF WriteAcceptsVersion
  <2>3. ExportModel(n) = [file |-> NotMade, ok |-> FALSE]
    BY <1>4, <2>2 DEF ExportModel, WriteNet
  <2> QED
    BY <1>6, <2>3 DEF n
<1>7. CASE "pawn_pairs" \in a.flags
  <2>1. a.version = 10 /\ ~Has(b, "pawn_pairs")
    BY <1>3, <1>7 DEF LoadAccepts, Has, AllowedFlags, ThreatFlags
  <2>2. ~WriteAcceptsVersion(b)
    BY <1>3, <2>1 DEF WriteAcceptsVersion
  <2>3. ExportModel(n) = [file |-> NotMade, ok |-> FALSE]
    BY <1>4, <2>2 DEF ExportModel, WriteNet
  <2> QED
    BY <1>7, <2>3 DEF n
<1>8. CASE a.flags \cap gone = {} /\ InMemory(a).squared = "shared"
  <2>1. Has(a, "mixed_activation") /\ ~Has(a, "full_heads")
    BY <1>8 DEF InMemory
  <2>2. Has(b, "mixed_activation") /\ ~Has(b, "full_heads")
    BY <1>3, <2>1 DEF Has
  <2>3. n.squared = "heads"
    BY <1>1, <1>8
  <2>4. ~WriteAcceptsShape(n)
    BY <1>4, <2>2, <2>3 DEF WriteAcceptsShape
  <2>5. ExportModel(n) = [file |-> NotMade, ok |-> FALSE]
    BY <2>4 DEF ExportModel, WriteNet
  <2> QED
    BY <1>8, <2>5 DEF n
<1>9. CASE a.flags \cap gone = {} /\ InMemory(a).squared # "shared"
  <2>1. a.flags \ gone = a.flags
    BY <1>9
  <2>2. b = a
    BY <1>2, <2>1 DEF IsArch
  <2>3. InMemory(a).squared \in {"none", "heads"}
    BY <1>9 DEF InMemory
  <2>4. n = InMemory(a)
    BY <1>1, <2>2, <2>3 DEF InMemory
  <2>5. a.version # 12
    BY <1>9, <2>3 DEF InMemory, LoadAccepts
  <2>6. WriteNet(InMemory(a)).ok
    BY <2>5, AcceptedWrittenBack
  <2> QED
    BY <1>9, <2>4, <2>6 DEF n, ExportModel
<1> QED
  BY <1>6, <1>7, <1>8, <1>9

\* The header write_model makes.
LEMMA NamedArch ==
    ASSUME NEW c, WriteModel(c).made, WriteModel(c).header
    PROVE  IsArch(WriteModel(c).arch) /\ WriteModel(c).arch.head = 0
<1>1. Exported(c) = [version |-> c.format, buckets |-> c.runtime, channels |-> c.channels,
                     outputs |-> c.outputs, head |-> 0, hidden |-> c.hidden, flags |-> c.flags]
  BY DEF Exported, Trained
<1>2. [Exported(c) EXCEPT !.flags = HeaderFlags(c)] =
          [version |-> c.format, buckets |-> c.runtime, channels |-> c.channels,
           outputs |-> c.outputs, head |-> 0, hidden |-> c.hidden, flags |-> HeaderFlags(c)]
  BY <1>1
<1>3. WriteModel(c).arch = [Exported(c) EXCEPT !.flags = HeaderFlags(c)]
  BY DEF WriteModel, NotMade
<1> QED
  BY <1>2, <1>3 DEF IsArch

\* write_model makes a file without a header, one with a header, or none.
LEMMA ModelFiles ==
    ASSUME NEW c, WriteModel(c).made
    PROVE  LET f == WriteModel(c)
           IN  \/ f = [made |-> TRUE, header |-> FALSE, size |-> f.size]
               \/ f = [made |-> TRUE, header |-> TRUE, arch |-> f.arch, size |-> f.size]
BY DEF WriteModel, NotMade

\* RewritesKeepTheNet of one net.
LEMMA RewriteKeeps ==
    ASSUME NEW c, LoadNet(WriteModel(c)).made
    PROVE  LET net == LoadNet(WriteModel(c))
               copy == WriteNet(net)
               blend == ExportModel(ModelOf(net))
           IN  /\ copy.file = WriteModel(c)
               /\ copy.ok <=> net.arch.version # 12
               /\ blend.file \in {NotMade, copy.file}
               /\ blend.ok <=> /\ net.arch.flags \cap {"pawn_pairs", "psqt_residual"} = {}
                              /\ net.squared # "shared"
<1> DEFINE f == WriteModel(c)
<1>1. f.made
  BY DEF LoadNet, NotMade
<1>2. CASE ~f.header
  <2>1. PICK l \in Layouts, o \in OutputBuckets, h \in HeadFeatures :
            LoadNet(f) = InMemory(Plain(l, o, h)) /\ NetworkSize(Plain(l, o, h), RuntimeHidden) = f.size
    BY <1>1, <1>2, LoadPlain
  <2> DEFINE a == Plain(l, o, h)
  <2>2. f = [made |-> TRUE, header |-> FALSE, size |-> f.size]
    BY <1>1, <1>2, ModelFiles
  <2>3. /\ WriteNet(InMemory(a)) = [file |-> f, ok |-> TRUE]
        /\ ModelOf(InMemory(a)) = InMemory(a)
    <3> HIDE DEF f
    <3> QED
      BY <2>1, <2>2, PlainWrittenBack
  <2>4. /\ InMemory(a).arch = a /\ a.version = 1 /\ a.flags = {}
        /\ InMemory(a).squared = "none"
    BY DEF InMemory, Plain, Has
  <2> HIDE DEF a, f
  <2> QED
    BY <2>1, <2>3, <2>4 DEF ExportModel, f, a
<1>3. CASE f.header
  <2> DEFINE a == f.arch
  <2>1. /\ LoadAccepts(a) /\ f.size = HeaderSize + NetworkSize(a, RuntimeHidden)
        /\ LoadNet(f) = InMemory(a)
    BY <1>1, <1>3 DEF LoadNet, NotMade
  <2>2. IsArch(a) /\ a.head = 0
    BY <1>1, <1>3, NamedArch
  <2>3. f = [made |-> TRUE, header |-> TRUE, arch |-> a, size |-> f.size]
    BY <1>1, <1>3, ModelFiles
  <2>4. InMemory(a).arch = a
    BY DEF InMemory
  <2> HIDE DEF a, f
  <2> QED
    BY <2>1, <2>2, <2>3, <2>4, AcceptedWrittenBack, AcceptedBlended DEF f
<1> QED
  BY <1>2, <1>3

-----------------------------------------------------------------------------
(* Exports *)

\* The sizes of plain layouts.
PlainSize(p, o, h) == p * 131072 + o * (33 + h) * 4 + 37056

LEMMA SizeOfPlain ==
    ASSUME NEW l \in Layouts, NEW o \in OutputBuckets, NEW h \in HeadFeatures
    PROVE  /\ l[1] \in BucketCounts /\ l[2] \in {11, 12} /\ l = <<l[1], l[2]>>
           /\ l[2] = 11 => l[1] \in {10, 16, 32}
           /\ NetworkSize(Plain(l, o, h), RuntimeHidden) = PlainSize(l[1] * l[2], o, h)
<1>1. l[1] \in BucketCounts /\ l[2] \in {11, 12} /\ (l[2] = 11 => l[1] \in {10, 16, 32}) /\ l = <<l[1], l[2]>>
  BY DEF Layouts, BucketCounts
<1>2. l[1] \in Nat /\ l[2] \in Nat /\ l[1] * l[2] \in Nat /\ o \in Nat /\ h \in Nat
  BY <1>1 DEF BucketCounts, OutputBuckets, HeadFeatures
<1> DEFINE a == Plain(l, o, h)
<1>3. /\ \A flag : ~Has(a, flag)
      /\ ~HasThreats(a)
      /\ a.outputs = o /\ a.head = h /\ a.buckets = l[1] /\ a.channels = l[2]
  BY DEF Plain, Has, HasThreats
<1>4. Features(a) = l[1] * l[2] * 64
  <2> HIDE DEF a
  <2> QED
    BY <1>2, <1>3 DEF Features
<1>5. NetworkSize(a, 1024) =
          Features(a) * 1024 * 2 + 1024 * 2 + 1 * (2 * 1024 * 16 + 16 * 4 + (16 * 32 * 4 + 32 * 4)) + 0
          + o * (32 + h) * 4 + o * 4 + 0 + 0
  <2> HIDE DEF a
  <2> QED
    BY <1>3 DEF NetworkSize
<1> HIDE DEF a
<1> QED
  BY <1>1, <1>2, <1>4, <1>5 DEF PlainSize, RuntimeHidden, a

LEMMA OutputSizes ==
    ASSUME NEW o \in OutputBuckets, NEW h \in HeadFeatures,
           NEW p \in OutputBuckets, NEW k \in HeadFeatures
    PROVE  /\ o * (33 + h) * 4 \in Nat
           /\ 132 <= o * (33 + h) * 4 /\ o * (33 + h) * 4 <= 1120
           /\ o * (33 + h) * 4 = p * (33 + k) * 4 => o = p /\ h = k
BY DEF OutputBuckets, HeadFeatures

\* No two plain layouts have one size.
LEMMA SizesTellLayouts ==
    ASSUME NEW l \in Layouts, NEW o \in OutputBuckets, NEW h \in HeadFeatures,
           NEW m \in Layouts, NEW p \in OutputBuckets, NEW k \in HeadFeatures,
           NetworkSize(Plain(l, o, h), RuntimeHidden) = NetworkSize(Plain(m, p, k), RuntimeHidden)
    PROVE  l = m /\ o = p /\ h = k
<1> DEFINE x == l[1] * l[2]
           y == m[1] * m[2]
<1>1. x \in Nat /\ y \in Nat
  BY SizeOfPlain DEF BucketCounts
<1>2. PlainSize(x, o, h) = PlainSize(y, p, k)
  BY SizeOfPlain
<1>3. x = y /\ o * (33 + h) * 4 = p * (33 + k) * 4
  <2> HIDE DEF x, y
  <2>1. PICK s \in Nat : s = o * (33 + h) * 4 /\ 132 <= s /\ s <= 1120
    BY OutputSizes
  <2>2. PICK t \in Nat : t = p * (33 + k) * 4 /\ 132 <= t /\ t <= 1120
    BY OutputSizes
  <2>3. PICK u \in Nat, v \in Nat : u = x /\ v = y
    BY <1>1
  <2>5. u * 131072 + s + 37056 = v * 131072 + t + 37056
    BY <1>2, <2>1, <2>2, <2>3 DEF PlainSize
  <2>4. x = y /\ s = t
    <3>1. u < v + 1
      BY <2>1, <2>2, <2>5
    <3>2. v < u + 1
      BY <2>1, <2>2, <2>5
    <3>3. u = v
      BY <3>1, <3>2
    <3>4. s = t
      BY <2>5, <3>3
    <3> QED
      BY <2>3, <3>3, <3>4
  <2> QED
    BY <2>1, <2>2, <2>4
<1>4. o = p /\ h = k
  BY <1>3, OutputSizes
<1>5. l[1] = m[1] /\ l[2] = m[2]
  BY <1>3, SizeOfPlain DEF BucketCounts
<1> QED
  BY <1>4, <1>5, SizeOfPlain

\* A headerless file of a plain layout is read as that layout.
LEMMA PlainIsLoaded ==
    ASSUME NEW l \in Layouts, NEW o \in OutputBuckets, NEW h \in HeadFeatures,
           NEW f, f.made, ~f.header, f.size = NetworkSize(Plain(l, o, h), RuntimeHidden)
    PROVE  LoadNet(f) = InMemory(Plain(l, o, h))
<1>1. Plain(l, o, h) \in LayoutsOfSize(f.size)
  BY DEF LayoutsOfSize
<1>2. DetectLayout(f.size) = LayoutsOfSize(f.size)
  BY <1>1 DEF DetectLayout
<1>3. \A a \in LayoutsOfSize(f.size) : a = Plain(l, o, h)
  BY OfSize, SizesTellLayouts
<1>4. (CHOOSE a \in LayoutsOfSize(f.size) : TRUE) = Plain(l, o, h)
  BY <1>1, <1>3
<1> DEFINE found == LayoutsOfSize(f.size)
           plain == Plain(l, o, h)
<1>5. LoadNet(f) = IF \E a \in found : NetworkSize(a, RuntimeHidden) = f.size
                   THEN InMemory(CHOOSE a \in found : TRUE) ELSE NotMade
  BY <1>2 DEF LoadNet
<1>6. plain \in found /\ NetworkSize(plain, RuntimeHidden) = f.size /\ (CHOOSE a \in found : TRUE) = plain
  BY <1>1, <1>4
<1> HIDE DEF found, plain
<1>7. LoadNet(f) = InMemory(plain)
  BY <1>5, <1>6
<1> QED
  BY <1>7 DEF plain

\* What the properties need to know of a configuration.
LEMMA ConfigurationShape ==
    ASSUME NEW c \in Configurations
    PROVE  /\ TrainerAccepts(c)
           /\ c.format \in Versions \cup {1} /\ c.flags \subseteq Flags
           /\ c.buckets \in BucketCounts /\ c.runtime \in BucketCounts /\ c.channels \in {11, 12}
           /\ c.outputs \in OutputBuckets /\ c.hidden \in Hiddens
           /\ <<c.buckets, c.channels>> \in Layouts /\ <<c.runtime, c.channels>> \in Layouts
           /\ c.buckets <= c.runtime
BY DEF Configurations, AnyConfiguration, TrainerAccepts

LEMMA ArchFields ==
    ASSUME NEW c, NEW a, a = Trained(c) \/ a = Exported(c)
    PROVE  /\ a.version = c.format /\ a.channels = c.channels /\ a.outputs = c.outputs /\ a.head = 0
           /\ a.hidden = c.hidden /\ a.flags = c.flags
           /\ a = Trained(c) => a.buckets = c.buckets
           /\ a = Exported(c) => a.buckets = c.runtime
           /\ HasThreats(a) <=> HasThreats(c)
           /\ \A flag : Has(a, flag) <=> Has(c, flag)
<1>1. /\ a.version = c.format /\ a.channels = c.channels /\ a.outputs = c.outputs /\ a.head = 0
      /\ a.hidden = c.hidden /\ a.flags = c.flags
      /\ a = Trained(c) => a.buckets = c.buckets
      /\ a = Exported(c) => a.buckets = c.runtime
  BY DEF Trained, Exported
<1> QED
  BY <1>1 DEF Has, HasThreats

\* A net is its input table and the rest, which knows nothing of buckets without PSQT.
LEMMA SizeByFeatures ==
    ASSUME NEW a, NEW b, Sized(a), Sized(b), a.flags = b.flags, a.outputs = b.outputs, a.head = b.head,
           ~Has(a, "psqt_residual"), NEW h \in Nat
    PROVE  \E rest \in Nat : /\ NetworkSize(a, h) = Features(a) * h * 2 + rest
                             /\ NetworkSize(b, h) = Features(b) * h * 2 + rest
<1> DEFINE heads == IF Has(a, "full_heads") THEN a.outputs ELSE 1
           tail == 16 * 32 * 4 + 32 * 4
           dense == heads * (2 * h * 16 + 16 * 4 + tail)
           mixed == IF Has(a, "mixed_activation") THEN heads * tail ELSE 0
           output == a.outputs * (32 + a.head) * 4
           skip == IF Has(a, "l2_output_skip") THEN a.outputs * 16 * 4 ELSE 0
<1>1. a.outputs \in Nat /\ a.head \in Nat
  BY DEF Sized, OutputBuckets, HeadFeatures
<1>2. heads \in Nat /\ tail \in Nat
  BY <1>1
<1>3. dense \in Nat /\ mixed \in Nat /\ output \in Nat /\ skip \in Nat
  <2>1. /\ heads * (2 * h * 16 + 16 * 4 + tail) \in Nat /\ heads * tail \in Nat
        /\ a.outputs * (32 + a.head) * 4 \in Nat /\ a.outputs * 16 * 4 \in Nat
    <3> HIDE DEF heads, tail
    <3> QED
      BY <1>1, <1>2
  <2> HIDE DEF heads, tail
  <2> QED
    BY <2>1
<1>4. /\ NetworkSize(a, h) = Features(a) * h * 2 + h * 2 + dense + mixed + output + a.outputs * 4 + skip + 0
      /\ NetworkSize(b, h) = Features(b) * h * 2 + h * 2 + dense + mixed + output + a.outputs * 4 + skip + 0
  BY DEF NetworkSize, Has
<1>5. Features(a) * h * 2 \in Nat /\ Features(b) * h * 2 \in Nat
  BY FeaturesType
<1> HIDE DEF dense, mixed, output, skip
<1>6. PICK rest \in Nat : rest = h * 2 + dense + mixed + output + a.outputs * 4 + skip
  BY <1>1, <1>3
<1> QED
  BY <1>1, <1>3, <1>4, <1>5, <1>6

\* expand_input_buckets makes an exported net of a trained one, but for a PSQT table.
LEMMA ExpandedIsExported ==
    ASSUME NEW c, <<c.buckets, c.channels>> \in Layouts, <<c.runtime, c.channels>> \in Layouts,
           c.outputs \in OutputBuckets, c.hidden \in Hiddens,
           Has(c, "psqt_residual") => c.buckets = c.runtime
    PROVE  ExpandedSize(c) = NetworkSize(Exported(c), c.hidden)
<1> DEFINE t == Trained(c)
           e == Exported(c)
           h == c.hidden
           more == (IF HasThreats(c) THEN 59808 ELSE 0) + (IF Has(c, "pawn_pairs") THEN 4560 ELSE 0)
<1>0. /\ t.flags = c.flags /\ t.outputs = c.outputs /\ t.head = 0 /\ t.buckets = c.buckets
      /\ e.flags = c.flags /\ e.outputs = c.outputs /\ e.head = 0 /\ e.buckets = c.runtime
      /\ t.channels = c.channels /\ e.channels = c.channels
      /\ HasThreats(t) <=> HasThreats(c)
      /\ HasThreats(e) <=> HasThreats(c)
      /\ \A flag : (Has(t, flag) <=> Has(c, flag)) /\ (Has(e, flag) <=> Has(c, flag))
  <2>1. t = Trained(c) /\ e = Exported(c)
    OBVIOUS
  <2> HIDE DEF t, e
  <2> QED
    BY <2>1, ArchFields
<1>1. Sized(t) /\ Sized(e)
  <2> HIDE DEF t, e
  <2> QED
    BY <1>0 DEF Sized, HeadFeatures
<1>2. /\ h \in Nat /\ more \in Nat /\ c.buckets \in Nat /\ c.runtime \in Nat /\ c.channels \in Nat
  BY LayoutRange DEF Hiddens
<1>3. /\ Features(t) = c.buckets * c.channels * 64 + more
      /\ Features(e) = c.runtime * c.channels * 64 + more
  <2>1. /\ Features(t) = c.buckets * c.channels * 64 + (IF HasThreats(c) THEN 59808 ELSE 0)
                         + (IF Has(c, "pawn_pairs") THEN 4560 ELSE 0)
        /\ Features(e) = c.runtime * c.channels * 64 + (IF HasThreats(c) THEN 59808 ELSE 0)
                         + (IF Has(c, "pawn_pairs") THEN 4560 ELSE 0)
    <3> HIDE DEF t, e
    <3> QED
      BY <1>0 DEF Features
  <2>2. /\ (IF HasThreats(c) THEN 59808 ELSE 0) \in Nat
        /\ (IF Has(c, "pawn_pairs") THEN 4560 ELSE 0) \in Nat
    OBVIOUS
  <2>3. c.buckets * c.channels * 64 \in Nat /\ c.runtime * c.channels * 64 \in Nat
    BY <1>2
  <2> HIDE DEF t, e
  <2> QED
    BY <2>1, <2>2, <2>3
<1>4. CASE c.buckets = c.runtime
  <2>1. t = e
    <3>1. /\ Trained(c) = [version |-> c.format, buckets |-> c.buckets, channels |-> c.channels,
                            outputs |-> c.outputs, head |-> 0, hidden |-> c.hidden, flags |-> c.flags]
          /\ Exported(c) = [version |-> c.format, buckets |-> c.runtime, channels |-> c.channels,
                             outputs |-> c.outputs, head |-> 0, hidden |-> c.hidden, flags |-> c.flags]
      BY DEF Trained, Exported
    <3> QED
      BY <1>4, <3>1
  <2>2. NetworkSize(t, h) \in Nat
    BY <1>1, <1>2, SizeType
  <2>3. (c.runtime - c.buckets) * c.channels * 64 * h * 2 = 0
    <3>1. c.runtime - c.buckets = 0
      BY <1>2, <1>4
    <3> HIDE DEF h
    <3> QED
      BY <1>2, <3>1
  <2> QED
    BY <2>1, <2>2, <2>3 DEF ExpandedSize
<1>5. CASE c.buckets # c.runtime
  <2>1. ~Has(t, "psqt_residual")
    BY <1>0, <1>5
  <2>2. PICK rest \in Nat : /\ NetworkSize(t, h) = Features(t) * h * 2 + rest
                            /\ NetworkSize(e, h) = Features(e) * h * 2 + rest
    <3>1. t.flags = e.flags /\ t.outputs = e.outputs /\ t.head = e.head
      BY <1>0
    <3> HIDE DEF t, e, h
    <3>2. /\ \A x, y, k : Sized(x) /\ Sized(y) /\ x.flags = y.flags /\ x.outputs = y.outputs /\ x.head = y.head
                          /\ ~Has(x, "psqt_residual") /\ k \in Nat =>
               \E rest \in Nat : /\ NetworkSize(x, k) = Features(x) * k * 2 + rest
                                 /\ NetworkSize(y, k) = Features(y) * k * 2 + rest
      BY SizeByFeatures
    <3> QED
      BY <1>1, <1>2, <2>1, <3>1, <3>2
  <2> DEFINE old == c.buckets * c.channels
             new == c.runtime * c.channels
  <2>3. old \in Nat /\ new \in Nat /\ (c.runtime - c.buckets) * c.channels = new - old
    BY <1>2
  <2>4. ExpandedSize(c) = (old * 64 + more) * h * 2 + rest + (new - old) * 64 * h * 2
    BY <1>3, <2>2, <2>3 DEF ExpandedSize
  <2>5. NetworkSize(e, h) = (new * 64 + more) * h * 2 + rest
    BY <1>3, <2>2
  <2>6. h \in {512, 768, 1024}
    BY DEF Hiddens
  <2> HIDE DEF old, new, more, h, e
  <2>7. (old * 64 + more) * h * 2 + rest + (new - old) * 64 * h * 2 = (new * 64 + more) * h * 2 + rest
    BY <1>2, <2>3, <2>6
  <2>8. ExpandedSize(c) = NetworkSize(e, h)
    BY <2>4, <2>5, <2>7
  <2> QED
    BY <2>8 DEF e, h
<1> QED
  BY <1>4, <1>5

\* What validate_layout lets pass although no loader takes it.
Unusable(c) ==
    \/ c.format \in {8, 9} /\ ~Has(c, "l2_output_skip")
    \/ Has(c, "psqt_residual") /\ c.buckets # c.runtime

\* write_model names every flag of a configuration that is of use.
LEMMA FlagsAreNamed ==
    ASSUME NEW c \in Configurations, ~Unusable(c)
    PROVE  /\ HeaderFlags(c) = c.flags
           /\ c.format = 1 => c.flags = {}
<1>1. TrainerAccepts(c) /\ c.format \in Versions \cup {1} /\ c.flags \subseteq Flags
  BY ConfigurationShape
<1>2. c.format \in {1, 2, 3, 4, 5, 6, 8, 9, 10, 11, 12}
  BY <1>1 DEF Versions
<1> DEFINE only(S) == c.flags \subseteq S
<1>3. c.format = 1 => c.flags = {}
  BY <1>1 DEF TrainerAccepts, Has, HasThreats, Flags, InputFlags, ThreatFlags
<1>4. /\ c.format = 2 => only(ThreatFlags)
      /\ c.format = 3 => only({"full_heads"})
      /\ c.format = 4 => only({"mixed_activation"})
      /\ c.format = 5 => only({"psqt_residual"})
      /\ c.format = 6 => only(ThreatFlags \cup {"full_heads"})
  BY <1>1 DEF TrainerAccepts, Has, HasThreats, Flags, InputFlags, ThreatFlags
<1>5. /\ c.format = 8 => only({"mixed_activation", "l2_output_skip"})
      /\ c.format \in {9, 12} => only(ThreatFlags \cup {"mixed_activation", "l2_output_skip"})
      /\ c.format = 10 => only({"pawn_pairs", "mixed_activation", "l2_output_skip"})
      /\ c.format = 11 => only({"full_heads", "mixed_activation", "l2_output_skip"})
  BY <1>1 DEF TrainerAccepts, Has, HasThreats, Flags, InputFlags, ThreatFlags
<1> QED
  BY <1>2, <1>3, <1>4, <1>5 DEF HeaderFlags

LEMMA UsableIsAccepted ==
    ASSUME NEW c \in Configurations, ~Unusable(c), c.format # 1
    PROVE  LoadAccepts(Exported(c))
<1> DEFINE a == Exported(c)
<1>1. /\ a.version = c.format /\ a.channels = c.channels /\ a.outputs = c.outputs /\ a.head = 0
      /\ a.hidden = c.hidden /\ a.flags = c.flags /\ a.buckets = c.runtime
      /\ HasThreats(a) <=> HasThreats(c)
      /\ \A flag : Has(a, flag) <=> Has(c, flag)
  BY ArchFields
<1>2. TrainerAccepts(c) /\ c.format \in Versions /\ c.flags \subseteq Flags
  BY ConfigurationShape
<1> HIDE DEF a
<1>3. a.flags \subseteq AllowedFlags(a.version)
  BY <1>1, <1>2 DEF TrainerAccepts, AllowedFlags, Has, HasThreats, Flags, InputFlags, ThreatFlags, Unusable
<1>4. /\ a.version \in Versions /\ a.hidden \in Hiddens /\ <<a.buckets, a.channels>> \in Layouts
      /\ a.outputs \in OutputBuckets /\ a.head \in HeadFeatures
      /\ Cardinality(a.flags \cap InputFlags) <= 1
  BY <1>1, <1>2, ConfigurationShape DEF HeadFeatures, TrainerAccepts
<1>5. LET threats == HasThreats(a)
          full == Has(a, "full_heads")
          mixed == Has(a, "mixed_activation")
          skip == Has(a, "l2_output_skip")
          psqt == Has(a, "psqt_residual")
          v == a.version
      IN  /\ full <=> v \in {3, 6, 11}
          /\ full => a.outputs > 1
          /\ v = 3 => ~threats
          /\ v = 6 => threats
          /\ mixed <=> v \in {4, 8, 9, 10, 11, 12}
          /\ mixed => (full => v = 11) /\ (threats => v = 12) /\ a.outputs = 8
          /\ psqt <=> v = 5
          /\ psqt => ~full /\ ~threats /\ ~mixed /\ a.outputs = 8
          /\ skip <=> v \in {8, 9, 10, 11, 12}
          /\ skip => mixed /\ (full => v = 11) /\ (threats => v = 12) /\ a.outputs = 8 /\ a.head = 0
          /\ v = 12 => threats /\ ~full
          /\ v = 10 => Has(a, "pawn_pairs") /\ ~threats /\ ~full
          /\ v = 11 => full /\ ~threats /\ ~Has(a, "pawn_pairs")
  BY <1>1, <1>2 DEF TrainerAccepts, Unusable, Versions
<1>6. LoadAccepts(a)
  BY <1>3, <1>4, <1>5 DEF LoadAccepts
<1> QED
  BY <1>6 DEF a

LEMMA ExportIsLoaded ==
    ASSUME NEW c \in Configurations, ~Unusable(c)
    PROVE  LoadNet(WriteModel(c)) = InMemory(Exported(c))
<1> DEFINE a == Exported(c)
           f == WriteModel(c)
<1>1. /\ a.version = c.format /\ a.channels = c.channels /\ a.outputs = c.outputs /\ a.head = 0
      /\ a.hidden = c.hidden /\ a.flags = c.flags /\ a.buckets = c.runtime
  BY ArchFields
<1>2. Sized(a)
  BY <1>1, ConfigurationShape DEF Sized, HeadFeatures
<1>3. ExpandedSize(c) = NetworkSize(a, c.hidden)
  BY ConfigurationShape, ExpandedIsExported DEF Unusable
<1>4. NetworkSize(a, c.hidden) \in Nat /\ NetworkSize(a, RuntimeHidden) \in Nat
  <2>1. c.hidden \in Nat /\ RuntimeHidden \in Nat
    <3>1. c.hidden \in Hiddens
      BY ConfigurationShape
    <3> QED
      BY <3>1 DEF Hiddens, RuntimeHidden
  <2> HIDE DEF a
  <2> QED
    BY <1>2, <2>1, SizeType
<1>5. [a EXCEPT !.flags = HeaderFlags(c)] = a
  <2>1. HeaderFlags(c) = c.flags
    BY FlagsAreNamed
  <2>2. Exported(c) = [version |-> c.format, buckets |-> c.runtime, channels |-> c.channels,
                       outputs |-> c.outputs, head |-> 0, hidden |-> c.hidden, flags |-> c.flags]
    BY DEF Exported, Trained
  <2>3. [Exported(c) EXCEPT !.flags = c.flags] = Exported(c)
    BY <2>2
  <2> QED
    BY <2>1, <2>3
<1>6. /\ ~(c.hidden # RuntimeHidden /\ ExpandedSize(c) < NetworkSize(a, c.hidden))
      /\ (IF c.hidden = RuntimeHidden THEN ExpandedSize(c) ELSE NetworkSize(a, RuntimeHidden))
             = NetworkSize(a, RuntimeHidden)
  BY <1>3, <1>4
<1>7. CASE c.format = 1
  <2>1. f = [made |-> TRUE, header |-> FALSE, size |-> NetworkSize(a, RuntimeHidden)]
    BY <1>6, <1>7 DEF WriteModel
  <2>2. a = Plain(<<c.runtime, c.channels>>, c.outputs, 0)
    <3>1. c.flags = {} /\ c.hidden = RuntimeHidden
      BY <1>7, FlagsAreNamed, ConfigurationShape DEF TrainerAccepts
    <3> QED
      BY <1>7, <3>1 DEF Exported, Trained, Plain
  <2>3. f.made /\ ~f.header /\ f.size = NetworkSize(a, RuntimeHidden)
    BY <2>1
  <2>4. <<c.runtime, c.channels>> \in Layouts /\ c.outputs \in OutputBuckets /\ 0 \in HeadFeatures
    BY ConfigurationShape DEF HeadFeatures
  <2> HIDE DEF f, a
  <2>5. LoadNet(f) = InMemory(a)
    BY <2>2, <2>3, <2>4, PlainIsLoaded
  <2> QED
    BY <2>5 DEF f, a
<1>8. CASE c.format # 1
  <2>1. f = [made |-> TRUE, header |-> TRUE, arch |-> a, size |-> NetworkSize(a, RuntimeHidden) + HeaderSize]
    BY <1>5, <1>6, <1>8 DEF WriteModel
  <2>2. LoadAccepts(a)
    BY <1>8, UsableIsAccepted
  <2>3. f.made /\ f.header /\ f.arch = a /\ f.size = HeaderSize + NetworkSize(a, RuntimeHidden)
    <3> HIDE DEF a
    <3> QED
      BY <1>4, <2>1 DEF HeaderSize
  <2> HIDE DEF f, a
  <2>4. LoadNet(f) = InMemory(a)
    BY <2>2, <2>3 DEF LoadNet
  <2> QED
    BY <2>4 DEF f, a
<1> QED
  BY <1>7, <1>8

\* A PSQT table of too few buckets makes a file of the wrong size.
LEMMA PsqtIsShort ==
    ASSUME NEW c \in Configurations, Has(c, "psqt_residual"), c.buckets # c.runtime
    PROVE  /\ c.format = 5 /\ c.flags = {"psqt_residual"}
           /\ ExpandedSize(c) \in Nat /\ NetworkSize(Exported(c), c.hidden) \in Nat
           /\ ExpandedSize(c) < NetworkSize(Exported(c), c.hidden)
<1> DEFINE t == Trained(c)
           e == Exported(c)
           h == c.hidden
<1>1. /\ t.channels = c.channels /\ t.outputs = c.outputs /\ t.head = 0
      /\ t.flags = c.flags /\ t.buckets = c.buckets
      /\ HasThreats(t) <=> HasThreats(c)
      /\ \A flag : Has(t, flag) <=> Has(c, flag)
  BY ArchFields
<1>2. /\ e.channels = c.channels /\ e.outputs = c.outputs /\ e.head = 0
      /\ e.flags = c.flags /\ e.buckets = c.runtime
      /\ HasThreats(e) <=> HasThreats(c)
      /\ \A flag : Has(e, flag) <=> Has(c, flag)
  BY ArchFields
<1>3. TrainerAccepts(c) /\ c.flags \subseteq Flags
  BY ConfigurationShape
<1>4. /\ c.format = 5 /\ c.outputs = 8 /\ ~HasThreats(c) /\ ~Has(c, "pawn_pairs")
      /\ ~Has(c, "full_heads") /\ ~Has(c, "mixed_activation") /\ ~Has(c, "l2_output_skip")
  BY <1>3 DEF TrainerAccepts
<1>5. c.flags = {"psqt_residual"}
  BY <1>3, <1>4 DEF Flags, InputFlags, ThreatFlags, Has, HasThreats
<1>61. /\ c.buckets \in BucketCounts /\ c.runtime \in BucketCounts /\ c.channels \in {11, 12}
       /\ c.buckets <= c.runtime /\ c.hidden \in Hiddens
  BY ConfigurationShape
<1>62. PICK x \in Nat, y \in Nat, z \in {11, 12} :
           x = c.buckets /\ y = c.runtime /\ z = c.channels /\ x < y
  BY <1>61 DEF BucketCounts
<1>63. (y - x) * z \in Nat /\ (y - x) * z > 0 /\ x * z \in Nat /\ y * z = x * z + (y - x) * z
  BY <1>62
<1>6. PICK D \in Nat : D = (c.runtime - c.buckets) * c.channels /\ D > 0
  BY <1>62, <1>63
<1>7. PICK B \in Nat : B = c.buckets * c.channels
  BY <1>62, <1>63
<1>8. c.runtime * c.channels = B + D /\ h \in {512, 768, 1024}
  BY <1>6, <1>7, <1>61, <1>62, <1>63 DEF Hiddens
<1> HIDE DEF t, e, h
<1>9. Features(t) = B * 64 /\ Features(e) = (B + D) * 64
  BY <1>1, <1>2, <1>4, <1>7, <1>8 DEF Features
<1>10. /\ NetworkSize(t, h) = Features(t) * h * 2 + h * 2 + 1 * (2 * h * 16 + 16 * 4 + (16 * 32 * 4 + 32 * 4))
                              + 0 + 8 * (32 + 0) * 4 + 8 * 4 + 0 + (Features(t) + 1) * 8 * 4
       /\ NetworkSize(e, h) = Features(e) * h * 2 + h * 2 + 1 * (2 * h * 16 + 16 * 4 + (16 * 32 * 4 + 32 * 4))
                              + 0 + 8 * (32 + 0) * 4 + 8 * 4 + 0 + (Features(e) + 1) * 8 * 4
  BY <1>1, <1>2, <1>4 DEF NetworkSize
<1>11. ExpandedSize(c) = NetworkSize(t, h) + D * 64 * h * 2
  BY <1>6 DEF ExpandedSize, t, h
<1>12. ExpandedSize(c) \in Nat /\ NetworkSize(e, h) \in Nat /\ ExpandedSize(c) < NetworkSize(e, h)
  BY <1>6, <1>8, <1>9, <1>10, <1>11
<1> QED
  BY <1>4, <1>5, <1>12 DEF e, h

LEMMA UnusableIsRefused ==
    ASSUME NEW c \in Configurations, Unusable(c)
    PROVE  ~LoadNet(WriteModel(c)).made
<1> DEFINE f == WriteModel(c)
           named == [Exported(c) EXCEPT !.flags = HeaderFlags(c)]
<1>1. named = [version |-> c.format, buckets |-> c.runtime, channels |-> c.channels, outputs |-> c.outputs,
               head |-> 0, hidden |-> c.hidden, flags |-> HeaderFlags(c)]
  <2>1. Exported(c) = [version |-> c.format, buckets |-> c.runtime, channels |-> c.channels,
                       outputs |-> c.outputs, head |-> 0, hidden |-> c.hidden, flags |-> c.flags]
    BY DEF Exported, Trained
  <2> QED
    BY <2>1
<1>2. CASE c.format \in {8, 9} /\ ~Has(c, "l2_output_skip")
  <2>1. named.version \in {8, 9} /\ ~Has(named, "l2_output_skip")
    <3>1. "l2_output_skip" \notin HeaderFlags(c)
      BY <1>2 DEF HeaderFlags, Has
    <3> QED
      BY <1>1, <1>2, <3>1 DEF Has
  <2>2. ~LoadAccepts(named)
    BY <2>1 DEF LoadAccepts
  <2>3. f = NotMade \/ (f.made /\ f.header /\ f.arch = named)
    BY <1>2 DEF WriteModel
  <2> HIDE DEF f, named
  <2>4. ~LoadNet(f).made
    BY <2>2, <2>3 DEF LoadNet, NotMade
  <2> QED
    BY <2>4 DEF f
<1>3. CASE Has(c, "psqt_residual") /\ c.buckets # c.runtime
  <2>1. /\ c.format = 5 /\ c.flags = {"psqt_residual"}
        /\ ExpandedSize(c) \in Nat /\ NetworkSize(Exported(c), c.hidden) \in Nat
        /\ ExpandedSize(c) < NetworkSize(Exported(c), c.hidden)
    BY <1>3, PsqtIsShort
  <2>2. CASE c.hidden # RuntimeHidden
    <3>1. f = NotMade
      BY <2>1, <2>2 DEF WriteModel
    <3> QED
      BY <3>1 DEF LoadNet, NotMade
  <2>3. CASE c.hidden = RuntimeHidden
    <3>1. HeaderFlags(c) = c.flags
      BY <2>1 DEF HeaderFlags
    <3>2. named = Exported(c)
      BY <1>1, <3>1 DEF Exported, Trained
    <3>3. f.made /\ f.header /\ f.arch = named /\ f.size = ExpandedSize(c) + HeaderSize
      BY <2>1, <2>3 DEF WriteModel
    <3> HIDE DEF f, named
    <3>4. f.size # HeaderSize + NetworkSize(f.arch, RuntimeHidden)
      <4>1. NetworkSize(f.arch, RuntimeHidden) = NetworkSize(Exported(c), c.hidden)
        BY <2>3, <3>2, <3>3
      <4> QED
        BY <2>1, <3>3, <4>1 DEF HeaderSize
    <3>5. ~LoadNet(f).made
      BY <3>3, <3>4 DEF LoadNet, NotMade
    <3> QED
      BY <3>5 DEF f
  <2> QED
    BY <2>2, <2>3
<1> QED
  BY <1>2, <1>3 DEF Unusable

\* What bullet.py trains has no flags; its sizes are those of plain layouts of a width.
LEMMA BulletShape ==
    ASSUME NEW c \in BulletConfigurations, BulletExport(c).made
    PROVE  /\ <<c.buckets, c.channels>> \in Layouts /\ <<c.runtime, c.channels>> \in Layouts
           /\ c.outputs \in OutputBuckets /\ c.hidden \in Hiddens /\ c.flags = {} /\ c.format = 2
           /\ BulletExport(c) = [made |-> TRUE, header |-> FALSE, size |-> ExpandedSize(c)]
           /\ ExpandedSize(c) = NetworkSize(Exported(c), c.hidden)
<1>1. /\ c.buckets \in BucketCounts /\ c.runtime \in BucketCounts /\ c.channels \in {11, 12}
      /\ c.outputs \in OutputBuckets /\ c.hidden \in Hiddens /\ c.flags = {} /\ c.format = 2
  BY DEF BulletConfigurations, AnyConfiguration
<1>2. ~((c.channels = 11 /\ <<c.buckets, c.runtime>> # <<32, 32>>) \/ c.buckets > c.runtime)
  BY DEF BulletExport, NotMade
<1>3. BulletExport(c) = [made |-> TRUE, header |-> FALSE, size |-> ExpandedSize(c)]
  BY <1>2 DEF BulletExport
<1>4. <<c.buckets, c.channels>> \in Layouts /\ <<c.runtime, c.channels>> \in Layouts
  <2>1. c.channels = 11 => c.buckets = 32 /\ c.runtime = 32
    BY <1>2
  <2> QED
    BY <1>1, <2>1 DEF Layouts, BucketCounts
<1>5. ~Has(c, "psqt_residual")
  BY <1>1 DEF Has
<1>6. ExpandedSize(c) = NetworkSize(Exported(c), c.hidden)
  BY <1>1, <1>4, <1>5, ExpandedIsExported
<1> QED
  BY <1>1, <1>3, <1>4, <1>6

\* Without flags a net of any width is its table, its bias and the small layers.
LEMMA BulletSizes ==
    ASSUME NEW c, c.flags = {}, <<c.runtime, c.channels>> \in Layouts, c.outputs \in OutputBuckets,
           NEW h \in Nat
    PROVE  /\ Features(Exported(c)) = c.runtime * c.channels * 64
           /\ NetworkSize(Exported(c), h) =
                  Features(Exported(c)) * h * 2 + h * 34 + c.outputs * 33 * 4 + 2240
<1> DEFINE e == Exported(c)
<1>1. /\ e.channels = c.channels /\ e.outputs = c.outputs /\ e.head = 0
      /\ e.flags = {} /\ e.buckets = c.runtime
  BY ArchFields
<1>2. ~HasThreats(e) /\ \A flag : ~Has(e, flag)
  <2> HIDE DEF e
  <2> QED
    BY <1>1 DEF HasThreats, Has
<1>3. Sized(e)
  <2> HIDE DEF e
  <2> QED
    BY <1>1 DEF Sized, HeadFeatures
<1>4. Features(e) \in Nat /\ c.outputs \in Nat /\ c.runtime \in Nat /\ c.channels \in Nat
  <2> HIDE DEF e
  <2>1. Features(e) \in Nat
    BY <1>3, FeaturesType
  <2>2. c.outputs \in Nat
    BY DEF OutputBuckets
  <2>3. c.runtime \in Nat /\ c.channels \in Nat
    BY LayoutRange
  <2> QED
    BY <2>1, <2>2, <2>3
<1> HIDE DEF e
<1>5. Features(e) = c.runtime * c.channels * 64 + 0 + 0
  BY <1>1, <1>2 DEF Features
<1>6. NetworkSize(e, h) =
          Features(e) * h * 2 + h * 2 + 1 * (2 * h * 16 + 16 * 4 + (16 * 32 * 4 + 32 * 4)) + 0
          + c.outputs * (32 + 0) * 4 + c.outputs * 4 + 0 + 0
  BY <1>1, <1>2 DEF NetworkSize
<1>7. NetworkSize(e, h) = Features(e) * h * 2 + h * 34 + c.outputs * 33 * 4 + 2240
  BY <1>4, <1>6
<1>8. Features(e) = c.runtime * c.channels * 64
  BY <1>4, <1>5
<1> QED
  BY <1>7, <1>8 DEF e

\* A net that is narrower than the engine's has the size of none that is not: without a
\* header it is not recognised, never taken for another.
LEMMA BulletIsLoaded ==
    ASSUME NEW c \in BulletConfigurations, BulletExport(c).made
    PROVE  LET plain == LoadNet(BulletExport(c))
           IN  /\ plain.made <=> c.hidden = RuntimeHidden
               /\ plain.made => plain.arch = [Exported(c) EXCEPT !.version = 1]
<1> DEFINE f == BulletExport(c)
           l == <<c.runtime, c.channels>>
           a == Plain(l, c.outputs, 0)
<1>1. /\ <<c.buckets, c.channels>> \in Layouts /\ l \in Layouts
      /\ c.outputs \in OutputBuckets /\ c.hidden \in Hiddens /\ c.flags = {} /\ c.format = 2
      /\ f = [made |-> TRUE, header |-> FALSE, size |-> ExpandedSize(c)]
      /\ ExpandedSize(c) = NetworkSize(Exported(c), c.hidden)
  BY BulletShape
<1>2. f.made /\ ~f.header /\ f.size = NetworkSize(Exported(c), c.hidden)
  <2> HIDE DEF f
  <2> QED
    BY <1>1
<1>3. CASE c.hidden = RuntimeHidden
  <2>1. [Exported(c) EXCEPT !.version = 1] = a
    <3>1. Exported(c) = [version |-> c.format, buckets |-> c.runtime, channels |-> c.channels,
                         outputs |-> c.outputs, head |-> 0, hidden |-> c.hidden, flags |-> c.flags]
      BY DEF Exported, Trained
    <3>2. a = [version |-> 1, buckets |-> c.runtime, channels |-> c.channels,
               outputs |-> c.outputs, head |-> 0, hidden |-> RuntimeHidden, flags |-> {}]
      BY DEF Plain
    <3> HIDE DEF a
    <3>3. [Exported(c) EXCEPT !.version = 1] =
              [version |-> 1, buckets |-> c.runtime, channels |-> c.channels,
               outputs |-> c.outputs, head |-> 0, hidden |-> c.hidden, flags |-> c.flags]
      BY <3>1
    <3>4. c.hidden = RuntimeHidden /\ c.flags = {}
      BY <1>1, <1>3
    <3> QED
      BY <3>2, <3>3, <3>4
  <2>2. NetworkSize([Exported(c) EXCEPT !.version = 1], RuntimeHidden) = NetworkSize(Exported(c), RuntimeHidden)
    <3>1. Exported(c) = [version |-> c.format, buckets |-> c.runtime, channels |-> c.channels,
                         outputs |-> c.outputs, head |-> 0, hidden |-> c.hidden, flags |-> c.flags]
      BY DEF Exported, Trained
    <3>2. [Exported(c) EXCEPT !.version = 1] =
              [version |-> 1, buckets |-> c.runtime, channels |-> c.channels,
               outputs |-> c.outputs, head |-> 0, hidden |-> c.hidden, flags |-> c.flags]
      BY <3>1
    <3>3. ASSUME NEW x, NEW y, x.buckets = y.buckets, x.channels = y.channels, x.outputs = y.outputs,
                 x.head = y.head, x.flags = y.flags
          PROVE  NetworkSize(x, RuntimeHidden) = NetworkSize(y, RuntimeHidden)
      BY <3>3 DEF NetworkSize, Features, Has, HasThreats
    <3> QED
      BY <3>1, <3>2, <3>3
  <2>3. f.size = NetworkSize(a, RuntimeHidden)
    BY <1>2, <1>3, <2>1, <2>2
  <2>4. 0 \in HeadFeatures
    BY DEF HeadFeatures
  <2> HIDE DEF f, a, l
  <2>5. LoadNet(f) = InMemory(a)
    <3> USE DEF a
    <3> QED
      BY <1>1, <1>2, <2>3, <2>4, PlainIsLoaded
  <2>6. LoadNet(f).made /\ LoadNet(f).arch = a
    BY <2>5 DEF InMemory
  <2> QED
    BY <1>3, <2>1, <2>6 DEF f
<1>4. CASE c.hidden # RuntimeHidden
  <2> SUFFICES ASSUME LoadNet(f).made PROVE FALSE
    BY <1>4
  <2>1. PICK m \in Layouts, o \in OutputBuckets, k \in HeadFeatures :
            NetworkSize(Plain(m, o, k), RuntimeHidden) = f.size
    <3> HIDE DEF f
    <3> QED
      BY <1>2, LoadPlain
  <2>2. PICK q \in Nat, t \in Nat :
            f.size = q * 131072 + t + 37056 /\ 132 <= t /\ t <= 1120
    <3>1. f.size = PlainSize(m[1] * m[2], o, k)
      BY <2>1, SizeOfPlain
    <3>2. m[1] \in BucketCounts /\ m[2] \in {11, 12}
      BY SizeOfPlain
    <3>3. PICK q \in Nat : q = m[1] * m[2]
      <4>1. m[1] * m[2] \in Nat
        BY <3>2 DEF BucketCounts
      <4> QED
        BY <4>1
    <3>4. PICK t \in Nat : t = o * (33 + k) * 4 /\ 132 <= t /\ t <= 1120
      BY OutputSizes
    <3>5. PlainSize(m[1] * m[2], o, k) = (m[1] * m[2]) * 131072 + o * (33 + k) * 4 + 37056
      BY DEF PlainSize
    <3> HIDE DEF f
    <3>6. f.size = q * 131072 + t + 37056
      BY <3>1, <3>3, <3>4, <3>5
    <3> QED
      BY <3>4, <3>6
  <2>3. PICK h \in {512, 768} : h = c.hidden
    BY <1>1, <1>4 DEF Hiddens, RuntimeHidden
  <2>4. /\ Features(Exported(c)) = c.runtime * c.channels * 64
        /\ NetworkSize(Exported(c), h) = Features(Exported(c)) * h * 2 + h * 34 + c.outputs * 33 * 4 + 2240
    <3>1. h \in Nat
      BY <2>3
    <3> QED
      BY <1>1, <3>1, BulletSizes
  <2>5. PICK p \in Nat : p = c.runtime * c.channels
    <3>1. c.runtime \in BucketCounts /\ c.channels \in {11, 12}
      BY <1>1, LayoutRange DEF BucketCounts
    <3>2. c.runtime \in Nat /\ c.channels \in Nat
      BY <3>1 DEF BucketCounts
    <3> QED
      BY <3>2
  <2>6. PICK s \in Nat : s = c.outputs * 33 * 4 /\ 132 <= s /\ s <= 1120
    BY <1>1 DEF OutputBuckets
  <2>7. p * 64 * h * 2 + h * 34 + s + 2240 = q * 131072 + t + 37056
    <3>1. NetworkSize(Exported(c), h) = p * 64 * h * 2 + h * 34 + s + 2240
      BY <2>4, <2>5, <2>6
    <3>2. f.size = NetworkSize(Exported(c), h)
      BY <1>2, <2>3
    <3> HIDE DEF f, l, a
    <3>3. f.size = p * 64 * h * 2 + h * 34 + s + 2240
      BY <3>1, <3>2
    <3> QED
      BY <2>2, <3>3
  <2>8. 132 <= s /\ s <= 1120 /\ 132 <= t /\ t <= 1120
    BY <2>2, <2>6
  <2> HIDE DEF f, l, a
  <2>9. CASE h = 512
    <3>1. p * 65536 + 512 * 34 + s + 2240 = q * 131072 + t + 37056
      BY <2>7, <2>8, <2>9
    <3>0. p - 2 * q \in Int
      OBVIOUS
    <3>2. PICK z \in Int : z = p - 2 * q
      BY <3>0, Zenon
    <3>5. p = z + 2 * q
      BY <3>2
    <3>3. 65536 * z = t - s + 17408
      BY <2>8, <3>1, <3>5
    <3>4. z > 0
      BY <2>8, <3>3
    <3>6. z < 1
      BY <2>8, <3>3
    <3> QED
      BY <3>2, <3>4, <3>6
  <2>10. CASE h = 768
    <3>1. p * 98304 + 768 * 34 + s + 2240 = q * 131072 + t + 37056
      BY <2>7, <2>8, <2>10
    <3>0. 3 * p - 4 * q \in Int
      OBVIOUS
    <3>2. PICK z \in Int : z = 3 * p - 4 * q
      BY <3>0, Zenon
    <3>3. 32768 * z = t - s + 8704
      BY <2>8, <3>1, <3>2
    <3>4. z > 0
      BY <2>8, <3>3
    <3>6. z < 1
      BY <2>8, <3>3
    <3> QED
      BY <3>2, <3>4, <3>6
  <2> QED
    BY <2>9, <2>10
<1> QED
  BY <1>3, <1>4

\* Padded and put into a container it is what write_model makes of the same training.
LEMMA BulletIsContained ==
    ASSUME NEW c \in BulletConfigurations, BulletExport(c).made, TrainerAccepts(c)
    PROVE  BulletContainer(c) = WriteModel(c)
<1> DEFINE e == Exported(c)
           F == Features(e)
<1>1. /\ <<c.buckets, c.channels>> \in Layouts /\ <<c.runtime, c.channels>> \in Layouts
      /\ c.outputs \in OutputBuckets /\ c.hidden \in Hiddens /\ c.flags = {} /\ c.format = 2
      /\ BulletExport(c) = [made |-> TRUE, header |-> FALSE, size |-> ExpandedSize(c)]
      /\ ExpandedSize(c) = NetworkSize(e, c.hidden)
  BY BulletShape
<1>2. /\ e = [version |-> c.format, buckets |-> c.runtime, channels |-> c.channels,
              outputs |-> c.outputs, head |-> 0, hidden |-> c.hidden, flags |-> c.flags]
  BY DEF Exported, Trained
<1> HIDE DEF e
<1>3. [e EXCEPT !.version = 2] = e /\ [e EXCEPT !.flags = HeaderFlags(c)] = e
  <2>1. HeaderFlags(c) = {}
    BY <1>1 DEF HeaderFlags
  <2>2. e = [version |-> 2, buckets |-> c.runtime, channels |-> c.channels,
             outputs |-> c.outputs, head |-> 0, hidden |-> c.hidden, flags |-> {}]
    BY <1>1, <1>2
  <2>3. [e EXCEPT !.version = 2] = e
    BY <2>2
  <2>4. [e EXCEPT !.flags = {}] = e
    BY <2>2
  <2> QED
    BY <2>1, <2>3, <2>4
<1>4. PICK h \in {512, 768, 1024} : h = c.hidden
  BY <1>1 DEF Hiddens
<1>5. /\ NetworkSize(e, h) = F * h * 2 + h * 34 + c.outputs * 33 * 4 + 2240
      /\ NetworkSize(e, 1024) = F * 1024 * 2 + 1024 * 34 + c.outputs * 33 * 4 + 2240
  <2>1. \A k \in Nat : NetworkSize(e, k) = F * k * 2 + k * 34 + c.outputs * 33 * 4 + 2240
    BY <1>1, BulletSizes DEF e
  <2> QED
    BY <2>1
<1>6. F \in Nat /\ c.outputs \in Nat
  <2>1. Sized(e)
    BY <1>1, <1>2 DEF Sized, HeadFeatures
  <2>2. F \in Nat
    BY <2>1, FeaturesType
  <2>3. c.outputs \in Nat
    BY <1>1 DEF OutputBuckets
  <2> QED
    BY <2>2, <2>3
<1> HIDE DEF F
<1>7. NetworkSize(e, h) + (F * 2 + 2 + 2 * 16) * (1024 - h) = NetworkSize(e, 1024)
  BY <1>4, <1>5, <1>6
<1> DEFINE padded == ExpandedSize(c) + (F * 2 + 2 + 2 * 16) * (RuntimeHidden - c.hidden) + HeaderSize
           written == (IF c.hidden = RuntimeHidden THEN ExpandedSize(c) ELSE NetworkSize(e, RuntimeHidden))
                      + HeaderSize
<1>8. BulletContainer(c) = [made |-> TRUE, header |-> TRUE, arch |-> e, size |-> padded]
  <2>1. BulletContainer(c) =
            [made |-> TRUE, header |-> TRUE, arch |-> [Exported(c) EXCEPT !.version = 2],
             size |-> BulletExport(c).size
                      + (Features(Exported(c)) * 2 + 2 + 2 * 16) * (RuntimeHidden - c.hidden) + HeaderSize]
    BY DEF BulletContainer
  <2>2. [Exported(c) EXCEPT !.version = 2] = e
    BY <1>3 DEF e
  <2>3. BulletExport(c).size
            + (Features(Exported(c)) * 2 + 2 + 2 * 16) * (RuntimeHidden - c.hidden) + HeaderSize = padded
    BY <1>1 DEF e, F
  <2> DEFINE arch == [Exported(c) EXCEPT !.version = 2]
             size == BulletExport(c).size
                     + (Features(Exported(c)) * 2 + 2 + 2 * 16) * (RuntimeHidden - c.hidden) + HeaderSize
  <2>4. BulletContainer(c) = [made |-> TRUE, header |-> TRUE, arch |-> arch, size |-> size]
    BY <2>1
  <2>5. arch = e /\ size = padded
    BY <2>2, <2>3
  <2> HIDE DEF padded, arch, size
  <2> QED
    BY <2>4, <2>5
<1>9. WriteModel(c) = [made |-> TRUE, header |-> TRUE, arch |-> e, size |-> written]
  <2>1. NetworkSize(e, h) \in Nat
    BY <1>4, <1>5, <1>6
  <2>2. ~(ExpandedSize(c) < NetworkSize(e, c.hidden))
    BY <1>1, <1>4, <2>1
  <2>3. WriteModel(c) =
            [made |-> TRUE, header |-> TRUE, arch |-> [Exported(c) EXCEPT !.flags = HeaderFlags(c)],
             size |-> (IF c.hidden = RuntimeHidden THEN ExpandedSize(c)
                       ELSE NetworkSize(Exported(c), RuntimeHidden)) + HeaderSize]
    <3>1. c.format # 1 /\ ~(c.hidden # RuntimeHidden /\ ExpandedSize(c) < NetworkSize(Exported(c), c.hidden))
      BY <1>1, <2>2 DEF e
    <3> HIDE DEF written
    <3> QED
      BY <3>1 DEF WriteModel
  <2>4. [Exported(c) EXCEPT !.flags = HeaderFlags(c)] = e
    BY <1>3 DEF e
  <2>5. (IF c.hidden = RuntimeHidden THEN ExpandedSize(c)
         ELSE NetworkSize(Exported(c), RuntimeHidden)) + HeaderSize = written
    BY DEF e
  <2> DEFINE arch == [Exported(c) EXCEPT !.flags = HeaderFlags(c)]
             size == (IF c.hidden = RuntimeHidden THEN ExpandedSize(c)
                      ELSE NetworkSize(Exported(c), RuntimeHidden)) + HeaderSize
  <2>6. WriteModel(c) = [made |-> TRUE, header |-> TRUE, arch |-> arch, size |-> size]
    BY <2>3
  <2>7. arch = e /\ size = written
    BY <2>4, <2>5
  <2> HIDE DEF written, arch, size
  <2> QED
    BY <2>6, <2>7
<1>10. padded = written
  <2>1. NetworkSize(e, h) + (F * 2 + 2 + 2 * 16) * (1024 - h) =
            (IF h = 1024 THEN NetworkSize(e, h) ELSE NetworkSize(e, 1024))
    BY <1>4, <1>7
  <2>2. ExpandedSize(c) = NetworkSize(e, h)
    BY <1>1, <1>4
  <2> QED
    BY <1>4, <2>1, <2>2 DEF RuntimeHidden
<1> HIDE DEF padded, written
<1> QED
  BY <1>8, <1>9, <1>10

-----------------------------------------------------------------------------
(* Warm starts *)

\* A configuration is of one kind of input features at most.
LEMMA OneInputKind ==
    ASSUME NEW c \in Configurations
    PROVE  \A f, g \in c.flags \cap InputFlags : f = g
<1> DEFINE S == c.flags \cap InputFlags
<1>1. IsFiniteSet(InputFlags)
  <2>1. IsFiniteSet({"full_threats"})
    BY FS_Singleton
  <2>2. IsFiniteSet({"full_threats"} \cup {"slider_xray_threats"})
    BY <2>1, FS_AddElement
  <2>3. IsFiniteSet(({"full_threats"} \cup {"slider_xray_threats"}) \cup {"pawn_pairs"})
    BY <2>2, FS_AddElement
  <2>4. InputFlags = ({"full_threats"} \cup {"slider_xray_threats"}) \cup {"pawn_pairs"}
    BY DEF InputFlags, ThreatFlags
  <2> QED
    BY <2>3, <2>4
<1>2. IsFiniteSet(S)
  BY <1>1, FS_Subset
<1>3. Cardinality(S) <= 1
  BY ConfigurationShape DEF TrainerAccepts
<1> SUFFICES ASSUME NEW f \in S, NEW g \in S, f # g PROVE FALSE
  OBVIOUS
<1>4. IsFiniteSet({g}) /\ Cardinality({g}) = 1
  BY FS_Singleton
<1>6. {g} \cup {f} \subseteq S
  OBVIOUS
<1> HIDE DEF S
<1>5. Cardinality({g} \cup {f}) = 2
  <2>1. f \notin {g}
    OBVIOUS
  <2>2. Cardinality({g} \cup {f}) = Cardinality({g}) + 1
    BY <1>4, <2>1, FS_AddElement
  <2> QED
    BY <1>4, <2>2
<1>7. Cardinality({g} \cup {f}) <= Cardinality(S)
  BY <1>2, <1>6, FS_Subset
<1>8. Cardinality(S) \in Nat
  BY <1>2, FS_CardinalityType
<1> QED
  BY <1>3, <1>5, <1>7, <1>8

\* The input features behind the base rows, in numbers.
LEMMA RowsOfKind ==
    ASSUME NEW c \in Configurations
    PROVE  LET threats == IF HasThreats(c) THEN 59808 ELSE 0
               pairs == IF Has(c, "pawn_pairs") THEN 4560 ELSE 0
           IN  /\ ~(HasThreats(c) /\ Has(c, "pawn_pairs"))
               /\ c.flags \cap InputFlags = {} <=> ~HasThreats(c) /\ ~Has(c, "pawn_pairs")
               /\ Features(Trained(c)) = c.buckets * c.channels * 64 + threats + pairs
               /\ Features(Exported(c)) = c.runtime * c.channels * 64 + threats + pairs
<1>1. ~(HasThreats(c) /\ Has(c, "pawn_pairs"))
  <2> SUFFICES ASSUME NEW f \in c.flags \cap ThreatFlags, "pawn_pairs" \in c.flags PROVE FALSE
    BY DEF HasThreats, Has
  <2>1. f \in c.flags \cap InputFlags /\ "pawn_pairs" \in c.flags \cap InputFlags
    BY DEF InputFlags
  <2>2. f = "pawn_pairs"
    BY <2>1, OneInputKind
  <2> QED
    BY <2>2 DEF ThreatFlags
<1>2. c.flags \cap InputFlags = {} <=> ~HasThreats(c) /\ ~Has(c, "pawn_pairs")
  BY DEF InputFlags, HasThreats, Has
<1>4. Features(Trained(c)) = c.buckets * c.channels * 64
          + (IF HasThreats(c) THEN 59808 ELSE 0) + (IF Has(c, "pawn_pairs") THEN 4560 ELSE 0)
  <2> DEFINE a == Trained(c)
  <2>1. /\ a.channels = c.channels /\ a.buckets = c.buckets
        /\ HasThreats(a) <=> HasThreats(c)
        /\ Has(a, "pawn_pairs") <=> Has(c, "pawn_pairs")
    BY ArchFields
  <2> HIDE DEF a
  <2>2. Features(a) = c.buckets * c.channels * 64
            + (IF HasThreats(c) THEN 59808 ELSE 0) + (IF Has(c, "pawn_pairs") THEN 4560 ELSE 0)
    BY <2>1 DEF Features
  <2> QED
    BY <2>2 DEF a
<1>5. Features(Exported(c)) = c.runtime * c.channels * 64
          + (IF HasThreats(c) THEN 59808 ELSE 0) + (IF Has(c, "pawn_pairs") THEN 4560 ELSE 0)
  <2> DEFINE a == Exported(c)
  <2>1. /\ a.channels = c.channels /\ a.buckets = c.runtime
        /\ HasThreats(a) <=> HasThreats(c)
        /\ Has(a, "pawn_pairs") <=> Has(c, "pawn_pairs")
    BY ArchFields
  <2> HIDE DEF a
  <2>2. Features(a) = c.runtime * c.channels * 64
            + (IF HasThreats(c) THEN 59808 ELSE 0) + (IF Has(c, "pawn_pairs") THEN 4560 ELSE 0)
    BY <2>1 DEF Features
  <2> QED
    BY <2>2 DEF a
<1> QED
  BY <1>1, <1>2, <1>4, <1>5

\* WarmStartsFit of one parent and one child.
LEMMA StartFits ==
    ASSUME NEW p \in Configurations, NEW c \in Configurations, NEW reset,
           WeightsFrom(LoadNet(WriteModel(p)), c, reset).made
    PROVE  LET parent == LoadNet(WriteModel(p)).arch
               same == parent.buckets = c.buckets /\ parent.channels = c.channels
               fits == IF same THEN \/ parent.flags \cap InputFlags = {}
                                    \/ HasThreats(parent) /\ HasThreats(c)
                       ELSE ~(HasThreats(parent) /\ HasThreats(c))
           IN  (WeightsFrom(LoadNet(WriteModel(p)), c, reset) = TensorsOf(c)) <=> fits
<1> DEFINE n == LoadNet(WriteModel(p))
           a == Exported(p)
           w == WeightsFrom(n, c, reset)
<1>1. n.made /\ StartAccepts(n, c, reset)
  BY DEF WeightsFrom, NotMade
<1>2. ~Unusable(p)
  BY <1>1, UnusableIsRefused
<1>3. n = InMemory(a)
  BY <1>2, ExportIsLoaded
<1>4. n.arch = a /\ n.rows = Features(a)
  BY <1>3 DEF InMemory
<1>5. /\ a.channels = p.channels /\ a.head = 0 /\ a.flags = p.flags /\ a.buckets = p.runtime
      /\ HasThreats(a) <=> HasThreats(p)
      /\ \A flag : Has(a, flag) <=> Has(p, flag)
  BY ArchFields
<1> HIDE DEF n, a
<1>6. w = [made |-> TRUE,
           rows |-> ConvertedRows(n, c)
                    + (IF HasThreats(c) /\ ~HasThreats(a) THEN 59808 ELSE 0)
                    + (IF Has(c, "pawn_pairs") THEN 4560 ELSE 0),
           heads |-> IF Has(c, "full_heads") THEN c.outputs ELSE 1,
           width |-> 32 + (IF reset THEN 0 ELSE 0),
           outputs |-> c.outputs,
           psqt |-> IF Has(c, "psqt_residual") THEN c.buckets * c.channels * 64 ELSE 0,
           mixed |-> Has(c, "mixed_activation"), skip |-> Has(c, "l2_output_skip")]
  BY <1>1, <1>4, <1>5 DEF WeightsFrom
<1>7. TensorsOf(c).rows = Features(Trained(c)) /\ w.rows = ConvertedRows(n, c)
                    + (IF HasThreats(c) /\ ~HasThreats(a) THEN 59808 ELSE 0)
                    + (IF Has(c, "pawn_pairs") THEN 4560 ELSE 0)
  BY <1>6 DEF TensorsOf
<1>8. Has(c, "psqt_residual") => Features(Trained(c)) = c.buckets * c.channels * 64
  <2>1. Has(c, "psqt_residual") => ~HasThreats(c) /\ ~Has(c, "pawn_pairs")
    <3>1. TrainerAccepts(c)
      BY ConfigurationShape
    <3> QED
      BY <3>1 DEF TrainerAccepts
  <2>2. c.buckets * c.channels * 64 \in Nat
    <3>1. c.buckets \in BucketCounts /\ c.channels \in {11, 12}
      BY ConfigurationShape
    <3>2. c.buckets \in Nat /\ c.channels \in Nat
      BY <3>1 DEF BucketCounts
    <3> QED
      BY <3>2
  <2> QED
    BY <2>1, <2>2, RowsOfKind
<1>9. w = TensorsOf(c) <=> w.rows = TensorsOf(c).rows
  <2> DEFINE psqt == IF Has(c, "psqt_residual") THEN c.buckets * c.channels * 64 ELSE 0
             heads == IF Has(c, "full_heads") THEN c.outputs ELSE 1
             mixed == Has(c, "mixed_activation")
             skip == Has(c, "l2_output_skip")
  <2>1. psqt = IF Has(c, "psqt_residual") THEN Features(Trained(c)) ELSE 0
    BY <1>8
  <2>2. TensorsOf(c) = [made |-> TRUE, rows |-> Features(Trained(c)), heads |-> heads, width |-> 32,
                        outputs |-> c.outputs, psqt |-> psqt, mixed |-> mixed, skip |-> skip]
    BY <2>1 DEF TensorsOf
  <2>3. 32 + (IF reset THEN 0 ELSE 0) = 32
    OBVIOUS
  <2>4. w = [made |-> TRUE, rows |-> w.rows, heads |-> heads, width |-> 32,
             outputs |-> c.outputs, psqt |-> psqt, mixed |-> mixed, skip |-> skip]
    BY <1>6, <1>7, <2>3
  <2> HIDE DEF w, psqt, heads, mixed, skip
  <2> QED
    BY <1>7, <2>2, <2>4
<1>10. (w.rows = TensorsOf(c).rows) <=>
           IF a.buckets = c.buckets /\ a.channels = c.channels
           THEN a.flags \cap InputFlags = {} \/ (HasThreats(a) /\ HasThreats(c))
           ELSE ~(HasThreats(a) /\ HasThreats(c))
  <2>1. Has(c, "pawn_pairs") => ~HasThreats(a)
    BY <1>1, <1>4 DEF StartAccepts
  <2>2. PICK base \in Nat : base = c.buckets * c.channels * 64
    <3>1. c.buckets \in BucketCounts /\ c.channels \in {11, 12}
      BY ConfigurationShape
    <3>2. c.buckets \in Nat /\ c.channels \in Nat
      BY <3>1 DEF BucketCounts
    <3> QED
      BY <3>2
  <2>3. /\ ~(HasThreats(c) /\ Has(c, "pawn_pairs"))
        /\ TensorsOf(c).rows = base + (IF HasThreats(c) THEN 59808 ELSE 0)
                               + (IF Has(c, "pawn_pairs") THEN 4560 ELSE 0)
    BY <1>7, <2>2, RowsOfKind
  <2>4. /\ ~(HasThreats(a) /\ Has(a, "pawn_pairs"))
        /\ a.flags \cap InputFlags = {} <=> ~HasThreats(a) /\ ~Has(a, "pawn_pairs")
        /\ Features(a) = a.buckets * a.channels * 64 + (IF HasThreats(a) THEN 59808 ELSE 0)
                         + (IF Has(a, "pawn_pairs") THEN 4560 ELSE 0)
    BY <1>5, RowsOfKind DEF a
  <2>5. CASE a.buckets = c.buckets /\ a.channels = c.channels
    <3>1. ConvertedRows(n, c) = base + (IF HasThreats(a) THEN 59808 ELSE 0)
                                + (IF Has(a, "pawn_pairs") THEN 4560 ELSE 0)
      BY <1>4, <2>2, <2>4, <2>5 DEF ConvertedRows
    <3> QED
      BY <1>7, <2>1, <2>3, <2>4, <2>5, <3>1
  <2>6. CASE ~(a.buckets = c.buckets /\ a.channels = c.channels)
    <3>1. ConvertedRows(n, c) = base
      BY <1>4, <2>2, <2>6 DEF ConvertedRows
    <3> QED
      BY <1>7, <2>1, <2>3, <2>6, <3>1
  <2> QED
    BY <2>5, <2>6
<1> HIDE DEF w
<1> QED
  BY <1>4, <1>9, <1>10 DEF n, w

-----------------------------------------------------------------------------
(* Boards, turned *)

Pieces == [type : 1..6, color : {0, 1}, sq : Squares]
\* What holds of the squares: turning is its own inverse, on ranks and on files.
LEMMA Flips ==
    ASSUME NEW s \in Squares
    PROVE  /\ FlipRank(s) \in Squares /\ FlipFile(s) \in Squares /\ ToBerserk(s) \in Squares
           /\ File(s) \in 0..7 /\ Rank(s) \in 0..7 /\ s = 8 * Rank(s) + File(s)
           /\ FlipRank(FlipRank(s)) = s /\ FlipFile(FlipFile(s)) = s
           /\ File(FlipRank(s)) = File(s) /\ Rank(FlipRank(s)) = 7 - Rank(s)
           /\ File(FlipFile(s)) = 7 - File(s) /\ Rank(FlipFile(s)) = Rank(s)
           /\ FlipRank(FlipFile(s)) = FlipFile(FlipRank(s))
           /\ ToBerserk(FlipRank(s)) = FlipRank(ToBerserk(s))
           /\ ToBerserk(ToBerserk(s)) = s
<1>1. PICK r \in 0..7, f \in 0..7 : s = 8 * r + f
  <2> DEFINE a == s \div 8
             b == s % 8
  <2>1. a \in 0..7 /\ b \in 0..7 /\ s = 8 * a + b
    BY DEF Squares
  <2> HIDE DEF a, b
  <2> QED
    BY <2>1
<1>2. \A a \in 0..7, b \in 0..7 :
          /\ 8 * a + b \in Squares /\ File(8 * a + b) = b /\ Rank(8 * a + b) = a
          /\ FlipRank(8 * a + b) = 8 * (7 - a) + b
          /\ FlipFile(8 * a + b) = 8 * a + (7 - b)
          /\ ToBerserk(8 * a + b) = 8 * (7 - a) + (7 - b)
  <2> TAKE a \in 0..7, b \in 0..7
  <2>1. (8 * a + b) % 8 = b /\ (8 * a + b) \div 8 = a
    OBVIOUS
  <2> QED
    BY <2>1 DEF Squares, File, Rank, FlipRank, FlipFile, ToBerserk
<1>3. 7 - r \in 0..7 /\ 7 - f \in 0..7 /\ 7 - (7 - r) = r /\ 7 - (7 - f) = f
  OBVIOUS
<1>4. /\ File(s) = f /\ Rank(s) = r
      /\ FlipRank(s) = 8 * (7 - r) + f /\ FlipFile(s) = 8 * r + (7 - f)
      /\ ToBerserk(s) = 8 * (7 - r) + (7 - f)
  BY <1>1, <1>2
<1> DEFINE x == 7 - r
           y == 7 - f
<1>5. /\ FlipRank(8 * x + f) = 8 * r + f /\ FlipFile(8 * r + y) = 8 * r + f
      /\ File(8 * x + f) = f /\ Rank(8 * x + f) = x /\ File(8 * r + y) = y /\ Rank(8 * r + y) = r
      /\ FlipRank(8 * r + y) = 8 * x + y /\ FlipFile(8 * x + f) = 8 * x + y
      /\ ToBerserk(8 * x + f) = 8 * r + y /\ FlipRank(8 * x + y) = 8 * r + y
      /\ ToBerserk(8 * x + y) = 8 * r + f
      /\ 8 * x + f \in Squares /\ 8 * r + y \in Squares /\ 8 * x + y \in Squares
  BY <1>2, <1>3
<1> QED
  BY <1>1, <1>4, <1>5

\* A function on a finite set that never gives a value twice has as many values as arguments.
LEMMA ManyValues ==
    ASSUME NEW f, f = [x \in DOMAIN f |-> f[x]], IsFiniteSet(DOMAIN f),
           \A x, y \in DOMAIN f : f[x] = f[y] => x = y
    PROVE  OneToOne(f) /\ IsFiniteSet(RowSet(f)) /\ Cardinality(RowSet(f)) = Cardinality(DOMAIN f)
<1>1. f \in Surjection(DOMAIN f, RowSet(f))
  <2>1. f \in [DOMAIN f -> RowSet(f)]
    BY DEF RowSet
  <2> QED
    BY <2>1 DEF Surjection, RowSet
<1>2. f \in Injection(DOMAIN f, RowSet(f))
  BY <1>1 DEF Injection, Surjection, IsInjective
<1>3. IsFiniteSet(RowSet(f)) /\ Cardinality(RowSet(f)) = Cardinality(DOMAIN f)
  BY <1>1, <1>2, FS_Surjection
<1> QED
  BY <1>3 DEF OneToOne

\* The piece the other side sees, and the piece as the features count squares.
Turned(p) == [p EXCEPT !.color = 1 - @, !.sq = FlipRank(@)]
Seen(p) == [p EXCEPT !.sq = FlipFile(@)]

LEMMA PieceOf ==
    ASSUME NEW p \in Pieces
    PROVE  /\ p = [type |-> p.type, color |-> p.color, sq |-> p.sq]
           /\ p.type \in 1..6 /\ p.color \in {0, 1} /\ p.sq \in Squares
BY DEF Pieces

LEMMA SamePiece ==
    ASSUME NEW p \in Pieces, NEW q \in Pieces, p.type = q.type, p.color = q.color, p.sq = q.sq
    PROVE  p = q
BY PieceOf

LEMMA ExceptPiece ==
    ASSUME NEW t, NEW c, NEW s
    PROVE  /\ Turned([type |-> t, color |-> c, sq |-> s]) = [type |-> t, color |-> 1 - c, sq |-> FlipRank(s)]
           /\ Seen([type |-> t, color |-> c, sq |-> s]) = [type |-> t, color |-> c, sq |-> FlipFile(s)]
<1> DEFINE p == [type |-> t, color |-> c, sq |-> s]
           e == 1 - c
           q == [type |-> t, color |-> e, sq |-> s]
<1>1. Turned(p) = [[p EXCEPT !.color = e] EXCEPT !.sq = FlipRank(s)]
  BY DEF Turned
<1>2. [p EXCEPT !.color = e] = q
  <2> HIDE DEF e
  <2> QED
    OBVIOUS
<1>3. [q EXCEPT !.sq = FlipRank(s)] = [type |-> t, color |-> e, sq |-> FlipRank(s)]
  <2> HIDE DEF e
  <2> QED
    OBVIOUS
<1>4. Seen(p) = [p EXCEPT !.sq = FlipFile(s)]
  BY DEF Seen
<1>5. [p EXCEPT !.sq = FlipFile(s)] = [type |-> t, color |-> c, sq |-> FlipFile(s)]
  OBVIOUS
<1>6. Turned(p) = [type |-> t, color |-> e, sq |-> FlipRank(s)]
  <2> HIDE DEF p, q, e
  <2> QED
    BY <1>1, <1>2, <1>3
<1> QED
  BY <1>4, <1>5, <1>6

LEMMA ExceptTurned ==
    ASSUME NEW p \in Pieces
    PROVE  /\ Turned(p) = [type |-> p.type, color |-> 1 - p.color, sq |-> FlipRank(p.sq)]
           /\ Seen(p) = [type |-> p.type, color |-> p.color, sq |-> FlipFile(p.sq)]
<1>1. PICK t, c, s : p = [type |-> t, color |-> c, sq |-> s] /\ t = p.type /\ c = p.color /\ s = p.sq
  BY PieceOf
<1> QED
  BY <1>1, ExceptPiece

LEMMA TurnedPiece ==
    ASSUME NEW p \in Pieces
    PROVE  /\ Turned(p) \in Pieces /\ Turned(p).type = p.type /\ Turned(p).color = 1 - p.color
           /\ Turned(p).sq = FlipRank(p.sq)
           /\ Turned(Turned(p)) = p
<1>1. Turned(p) = [type |-> p.type, color |-> 1 - p.color, sq |-> FlipRank(p.sq)]
  BY ExceptTurned
<1>2. 1 - p.color \in {0, 1} /\ FlipRank(p.sq) \in Squares
  BY PieceOf, Flips
<1>3. Turned(p) \in Pieces
  BY <1>1, <1>2, PieceOf DEF Pieces
<1>4. Turned(p).type = p.type /\ Turned(p).color = 1 - p.color /\ Turned(p).sq = FlipRank(p.sq)
  BY <1>1
<1>5. Turned(Turned(p)) = [type |-> Turned(p).type, color |-> 1 - Turned(p).color,
                           sq |-> FlipRank(Turned(p).sq)]
  BY <1>3, ExceptTurned
<1>6. 1 - Turned(p).color = p.color /\ FlipRank(Turned(p).sq) = p.sq
  <2>1. 1 - (1 - p.color) = p.color
    BY PieceOf
  <2> QED
    BY <1>4, <2>1, PieceOf, Flips
<1>7. Turned(Turned(p)) = p
  BY <1>4, <1>5, <1>6, PieceOf
<1> QED
  BY <1>3, <1>4, <1>7

LEMMA SeenPiece ==
    ASSUME NEW p \in Pieces
    PROVE  /\ Seen(p) \in Pieces /\ Seen(p).type = p.type /\ Seen(p).color = p.color
           /\ Seen(p).sq = FlipFile(p.sq)
           /\ Seen(Seen(p)) = p
<1>1. Seen(p) = [type |-> p.type, color |-> p.color, sq |-> FlipFile(p.sq)]
  BY ExceptTurned
<1>2. Seen(p) \in Pieces
  BY <1>1, PieceOf, Flips DEF Pieces
<1>3. Seen(p).type = p.type /\ Seen(p).color = p.color /\ Seen(p).sq = FlipFile(p.sq)
  BY <1>1
<1>4. Seen(Seen(p)) = [type |-> Seen(p).type, color |-> Seen(p).color, sq |-> FlipFile(Seen(p).sq)]
  BY <1>2, ExceptTurned
<1> QED
  BY <1>2, <1>3, <1>4, PieceOf, Flips

LEMMA SeenTurned ==
    ASSUME NEW p \in Pieces
    PROVE  Seen(Turned(p)) = Turned(Seen(p))
<1>1. Seen(Turned(p)) \in Pieces /\ Turned(Seen(p)) \in Pieces
  BY TurnedPiece, SeenPiece
<1>2. /\ Seen(Turned(p)).type = Turned(Seen(p)).type
      /\ Seen(Turned(p)).color = Turned(Seen(p)).color
      /\ Seen(Turned(p)).sq = Turned(Seen(p)).sq
  BY PieceOf, TurnedPiece, SeenPiece, Flips
<1> QED
  BY <1>1, <1>2, SamePiece

LEMMA SwappedBoard ==
    ASSUME NEW board \in SUBSET Pieces
    PROVE  /\ Swapped(board) = {Turned(p) : p \in board}
           /\ Swapped(board) \in SUBSET Pieces
           /\ Swapped(Swapped(board)) = board
           /\ \A p \in Pieces : Turned(p) \in Swapped(board) <=> p \in board
<1>1. Swapped(board) = {Turned(p) : p \in board}
  BY DEF Swapped, Turned
<1>2. Swapped(board) \in SUBSET Pieces
  BY <1>1, TurnedPiece
<1>3. Swapped(Swapped(board)) = {Turned(p) : p \in Swapped(board)}
  BY DEF Swapped, Turned
<1>4. \A p \in Pieces : Turned(p) \in Swapped(board) <=> p \in board
  <2> SUFFICES ASSUME NEW p \in Pieces, Turned(p) \in Swapped(board) PROVE p \in board
    BY <1>1
  <2>1. PICK q \in board : Turned(p) = Turned(q)
    BY <1>1
  <2>2. Turned(Turned(p)) = p /\ Turned(Turned(q)) = q
    BY TurnedPiece
  <2> QED
    BY <2>1, <2>2
<1>5. Swapped(Swapped(board)) = board
  <2>1. ASSUME NEW p \in board PROVE p \in Swapped(Swapped(board))
    <3>1. Turned(p) \in Swapped(board) /\ Turned(Turned(p)) = p
      BY <1>1, TurnedPiece
    <3> QED
      BY <1>3, <3>1
  <2>2. ASSUME NEW p \in Swapped(Swapped(board)) PROVE p \in board
    <3>1. PICK q \in Swapped(board) : p = Turned(q)
      BY <1>3
    <3>2. PICK r \in board : q = Turned(r)
      BY <1>1, <3>1
    <3> QED
      BY <3>1, <3>2, TurnedPiece
  <2> QED
    BY <2>1, <2>2
<1> QED
  BY <1>1, <1>2, <1>4, <1>5

LEMMA SeenBoard ==
    ASSUME NEW board \in SUBSET Pieces
    PROVE  /\ ForFeatures(board) = {Seen(p) : p \in board}
           /\ ForFeatures(board) \in SUBSET Pieces
           /\ \A p \in Pieces : Seen(p) \in ForFeatures(board) <=> p \in board
           /\ ForFeatures(Swapped(board)) = Swapped(ForFeatures(board))
<1>1. ForFeatures(board) = {Seen(p) : p \in board}
  BY DEF ForFeatures, Seen
<1>2. ForFeatures(board) \in SUBSET Pieces
  BY <1>1, SeenPiece
<1>3. \A p \in Pieces : Seen(p) \in ForFeatures(board) <=> p \in board
  <2> SUFFICES ASSUME NEW p \in Pieces, Seen(p) \in ForFeatures(board) PROVE p \in board
    BY <1>1
  <2>1. PICK q \in board : Seen(p) = Seen(q)
    BY <1>1
  <2>2. Seen(Seen(p)) = p /\ Seen(Seen(q)) = q
    BY SeenPiece
  <2> QED
    BY <2>1, <2>2
<1>4. ForFeatures(Swapped(board)) = {Seen(p) : p \in Swapped(board)}
  BY DEF ForFeatures, Seen
<1>5. Swapped(ForFeatures(board)) = {Turned(p) : p \in ForFeatures(board)}
  BY <1>2, SwappedBoard
<1>6. Swapped(board) = {Turned(p) : p \in board}
  BY SwappedBoard
<1>7. ASSUME NEW x PROVE x \in ForFeatures(Swapped(board)) <=> \E p \in board : x = Seen(Turned(p))
  BY <1>4, <1>6
<1>8. ASSUME NEW x PROVE x \in Swapped(ForFeatures(board)) <=> \E p \in board : x = Turned(Seen(p))
  BY <1>1, <1>5
<1>9. \A p \in board : Seen(Turned(p)) = Turned(Seen(p))
  BY SeenTurned
<1>10. ForFeatures(Swapped(board)) = Swapped(ForFeatures(board))
  BY <1>7, <1>8, <1>9
<1> QED
  BY <1>1, <1>2, <1>3, <1>10

\* Turning and counting: as many pieces of every kind on either board.
LEMMA SwappedSize ==
    ASSUME NEW board \in SUBSET Pieces, IsFiniteSet(board)
    PROVE  IsFiniteSet(Swapped(board)) /\ Cardinality(Swapped(board)) = Cardinality(board)
<1> DEFINE f == [p \in board |-> Turned(p)]
<1>1. RowSet(f) = Swapped(board)
  BY SwappedBoard DEF RowSet
<1>2. \A x, y \in DOMAIN f : f[x] = f[y] => x = y
  <2> SUFFICES ASSUME NEW x \in board, NEW y \in board, Turned(x) = Turned(y) PROVE x = y
    OBVIOUS
  <2> QED
    BY TurnedPiece
<1>3. f = [x \in DOMAIN f |-> f[x]] /\ DOMAIN f = board
  OBVIOUS
<1> HIDE DEF f
<1> QED
  BY <1>1, <1>2, <1>3, ManyValues

LEMMA SwappedCount ==
    ASSUME NEW board \in SUBSET Pieces, IsFiniteSet(board), NEW types, NEW c \in {0, 1}
    PROVE  /\ Count(Swapped(board), types) = Count(board, types)
           /\ Cardinality({p \in Swapped(board) : p.type = King /\ p.color = c})
                = Cardinality({p \in board : p.type = King /\ p.color = 1 - c})
<1> DEFINE A == {p \in board : p.type \in types}
           K == {p \in board : p.type = King /\ p.color = 1 - c}
<1>1. A \in SUBSET Pieces /\ IsFiniteSet(A) /\ K \in SUBSET Pieces /\ IsFiniteSet(K)
  BY FS_Subset
<1>2. {p \in Swapped(board) : p.type \in types} = Swapped(A)
  <2>1. ASSUME NEW x
        PROVE x \in {p \in Swapped(board) : p.type \in types} <=> x \in Swapped(A)
    <3>1. x \in Swapped(A) <=> \E p \in board : p.type \in types /\ x = Turned(p)
      BY <1>1, SwappedBoard
    <3>2. x \in {p \in Swapped(board) : p.type \in types}
              <=> \E p \in board : x = Turned(p) /\ Turned(p).type \in types
      BY SwappedBoard
    <3> QED
      BY <3>1, <3>2, TurnedPiece
  <2> QED
    BY <2>1
<1>3. {p \in Swapped(board) : p.type = King /\ p.color = c} = Swapped(K)
  <2>1. ASSUME NEW x
        PROVE x \in {p \in Swapped(board) : p.type = King /\ p.color = c} <=> x \in Swapped(K)
    <3>1. x \in Swapped(K) <=> \E p \in board : p.type = King /\ p.color = 1 - c /\ x = Turned(p)
      BY <1>1, SwappedBoard
    <3>2. x \in {p \in Swapped(board) : p.type = King /\ p.color = c}
              <=> \E p \in board : x = Turned(p) /\ Turned(p).type = King /\ Turned(p).color = c
      BY SwappedBoard
    <3>3. \A p \in board : Turned(p).type = p.type /\ (Turned(p).color = c <=> p.color = 1 - c)
      <4> TAKE p \in board
      <4>1. p.color \in {0, 1} /\ Turned(p).type = p.type /\ Turned(p).color = 1 - p.color
        BY TurnedPiece, PieceOf
      <4> QED
        BY <4>1
    <3> QED
      BY <3>1, <3>2, <3>3
  <2> QED
    BY <2>1
<1> HIDE DEF A, K
<1>4. Cardinality(Swapped(A)) = Cardinality(A) /\ Cardinality(Swapped(K)) = Cardinality(K)
  BY <1>1, SwappedSize
<1> QED
  BY <1>2, <1>3, <1>4 DEF Count, A, K

-----------------------------------------------------------------------------
(* Piece-square rows *)

\* One king on either side.
IsKing(k, pos, c) ==
    /\ k \in pos /\ k.type = King /\ k.color = c
    /\ \A q \in pos : q.type = King /\ q.color = c => q = k
Kings(pos) == pos \in SUBSET Pieces /\ \A c \in {0, 1} : \E k \in pos : IsKing(k, pos, c)

LEMMA KingSquare ==
    ASSUME NEW pos, NEW c, NEW k, IsKing(k, pos, c)
    PROVE  KingOf(pos, c) = k.sq
<1> DEFINE P(p) == p.type = King /\ p.color = c
<1>1. (CHOOSE p \in pos : P(p)) \in pos /\ P(CHOOSE p \in pos : P(p))
  BY DEF IsKing
<1>2. (CHOOSE p \in pos : P(p)) = k
  BY <1>1 DEF IsKing
<1> QED
  BY <1>2 DEF KingOf

LEMMA TurnedKings ==
    ASSUME NEW pos, Kings(pos), NEW v \in {0, 1}
    PROVE  /\ KingOf(pos, v) \in Squares
           /\ KingOf(Swapped(pos), 1 - v) = FlipRank(KingOf(pos, v))
           /\ Kings(Swapped(pos))
<1>1. ASSUME NEW c \in {0, 1}, NEW k \in pos, IsKing(k, pos, c)
      PROVE  IsKing(Turned(k), Swapped(pos), 1 - c)
  <2>1. Turned(k) \in Swapped(pos) /\ Turned(k).type = King /\ Turned(k).color = 1 - c
    BY <1>1, SwappedBoard, TurnedPiece DEF Kings, IsKing
  <2>2. ASSUME NEW q \in Swapped(pos), q.type = King, q.color = 1 - c PROVE q = Turned(k)
    <3>1. PICK p \in pos : q = Turned(p)
      BY SwappedBoard DEF Kings
    <3>2. p.type = King /\ 1 - p.color = 1 - c /\ p.color \in {0, 1}
      BY <2>2, <3>1, TurnedPiece, PieceOf DEF Kings
    <3>3. p.color = c
      BY <3>2
    <3> QED
      BY <1>1, <3>1, <3>2, <3>3 DEF IsKing
  <2> QED
    BY <2>1, <2>2 DEF IsKing
<1>2. ASSUME NEW c \in {0, 1} PROVE \E k \in Swapped(pos) : IsKing(k, Swapped(pos), c)
  <2>1. 1 - c \in {0, 1} /\ 1 - (1 - c) = c
    OBVIOUS
  <2>2. PICK k \in pos : IsKing(k, pos, 1 - c)
    BY <2>1 DEF Kings
  <2>3. IsKing(Turned(k), Swapped(pos), c)
    BY <1>1, <2>1, <2>2
  <2> QED
    BY <2>3 DEF IsKing
<1>3. Swapped(pos) \in SUBSET Pieces
  BY SwappedBoard DEF Kings
<1>4. PICK k \in pos : IsKing(k, pos, v)
  BY DEF Kings
<1>5. KingOf(pos, v) = k.sq /\ k \in Pieces
  BY <1>4, KingSquare DEF Kings
<1>6. KingOf(Swapped(pos), 1 - v) = Turned(k).sq
  BY <1>1, <1>4, KingSquare
<1> QED
  BY <1>2, <1>3, <1>5, <1>6, TurnedPiece, PieceOf DEF Kings

LEMMA OrientedTurned ==
    ASSUME NEW s \in Squares, NEW k \in Squares, NEW v \in {0, 1}
    PROVE  /\ Oriented(FlipRank(s), FlipRank(k), 1 - v) = Oriented(s, k, v)
           /\ Oriented(s, k, v) \in Squares
<1>1. CASE v = 0
  <2>1. 1 - v = 1
    BY <1>1
  <2> QED
    BY <1>1, <2>1, Flips DEF Oriented
<1>2. CASE v = 1
  <2>1. 1 - v = 0
    BY <1>2
  <2> QED
    BY <1>2, <2>1, Flips DEF Oriented
<1> QED
  BY <1>1, <1>2

LEMMA OrientedApart ==
    ASSUME NEW s \in Squares, NEW t \in Squares, NEW k \in Squares, NEW v \in {0, 1},
           Oriented(s, k, v) = Oriented(t, k, v)
    PROVE  s = t
<1>1. CASE v = 0
  BY <1>1, Flips DEF Oriented
<1>2. CASE v = 1
  BY <1>2, Flips DEF Oriented
<1> QED
  BY <1>1, <1>2

LEMMA FeatureTurned ==
    ASSUME NEW p \in Pieces, NEW king \in Squares, NEW v \in {0, 1}, NEW b, NEW n
    PROVE  FeatureIndex(Turned(p), FlipRank(king), 1 - v, b, n) = FeatureIndex(p, king, v, b, n)
<1>1. /\ Turned(p).type = p.type /\ Turned(p).color = 1 - p.color /\ Turned(p).sq = FlipRank(p.sq)
      /\ p.color \in {0, 1} /\ p.sq \in Squares
  BY TurnedPiece, PieceOf
<1>2. FeatureChannel(Turned(p).type, Turned(p).color, 1 - v, n) = FeatureChannel(p.type, p.color, v, n)
  <2>1. 1 - p.color = 1 - v <=> p.color = v
    BY <1>1
  <2> QED
    BY <1>1, <2>1 DEF FeatureChannel
<1>3. PICK k \in Squares : k = ToBerserk(king) /\ ToBerserk(FlipRank(king)) = FlipRank(k)
  BY Flips
<1>4. PICK s \in Squares : s = ToBerserk(p.sq) /\ ToBerserk(Turned(p).sq) = FlipRank(s)
  BY <1>1, Flips
<1>5. /\ Oriented(FlipRank(k), FlipRank(k), 1 - v) = Oriented(k, k, v)
      /\ Oriented(FlipRank(s), FlipRank(k), 1 - v) = Oriented(s, k, v)
  BY OrientedTurned
<1>6. FeatureIndex(Turned(p), FlipRank(king), 1 - v, b, n) =
          KingBuckets(b)[Oriented(FlipRank(k), FlipRank(k), 1 - v)] * n * 64
          + FeatureChannel(Turned(p).type, Turned(p).color, 1 - v, n) * 64
          + Oriented(FlipRank(s), FlipRank(k), 1 - v)
  BY <1>3, <1>4 DEF FeatureIndex
<1>7. FeatureIndex(p, king, v, b, n) =
          KingBuckets(b)[Oriented(k, k, v)] * n * 64 + FeatureChannel(p.type, p.color, v, n) * 64
          + Oriented(s, k, v)
  BY <1>3, <1>4 DEF FeatureIndex
<1> QED
  BY <1>2, <1>5, <1>6, <1>7

\* A list of rows has the values of another if every row of either is in the other.
LEMMA SameRowSet ==
    ASSUME NEW f, NEW g, \A x \in DOMAIN f : \E y \in DOMAIN g : g[y] = f[x],
           \A x \in DOMAIN g : \E y \in DOMAIN f : f[y] = g[x]
    PROVE  RowSet(f) = RowSet(g)
BY DEF RowSet

LEMMA FeaturesTurned ==
    ASSUME NEW pos, Kings(pos), NEW v \in {0, 1}, NEW b, NEW n
    PROVE  RowSet(FeaturesFromPieces(Swapped(pos), 1 - v, b, n)) = RowSet(FeaturesFromPieces(pos, v, b, n))
<1> DEFINE f == FeaturesFromPieces(pos, v, b, n)
           g == FeaturesFromPieces(Swapped(pos), 1 - v, b, n)
<1>1. /\ KingOf(pos, v) \in Squares /\ KingOf(Swapped(pos), 1 - v) = FlipRank(KingOf(pos, v))
      /\ Swapped(pos) = {Turned(p) : p \in pos} /\ pos \in SUBSET Pieces
  BY TurnedKings, SwappedBoard DEF Kings
<1>2. DOMAIN f = pos /\ DOMAIN g = Swapped(pos)
  BY DEF FeaturesFromPieces
<1>3. \A p \in pos : Turned(p) \in Swapped(pos) /\ g[Turned(p)] = f[p]
  <2> TAKE p \in pos
  <2>1. Turned(p) \in Swapped(pos)
    BY <1>1
  <2>2. g[Turned(p)] = FeatureIndex(Turned(p), KingOf(Swapped(pos), 1 - v), 1 - v, b, n)
    BY <2>1 DEF FeaturesFromPieces
  <2>3. f[p] = FeatureIndex(p, KingOf(pos, v), v, b, n)
    BY DEF FeaturesFromPieces
  <2> QED
    BY <1>1, <2>1, <2>2, <2>3, FeatureTurned
<1> HIDE DEF f, g
<1>4. \A x \in DOMAIN f : \E y \in DOMAIN g : g[y] = f[x]
  BY <1>2, <1>3
<1>5. \A x \in DOMAIN g : \E y \in DOMAIN f : f[y] = g[x]
  BY <1>1, <1>2, <1>3
<1>6. RowSet(f) = RowSet(g)
  BY <1>4, <1>5, SameRowSet
<1> QED
  BY <1>6 DEF f, g

LEMMA DirectTurned ==
    ASSUME NEW pos, Kings(pos), NEW v \in {0, 1}
    PROVE  RowSet(LegacyDirectFeatures(Swapped(pos), 1 - v)) = RowSet(LegacyDirectFeatures(pos, v))
<1> DEFINE f == LegacyDirectFeatures(pos, v)
           g == LegacyDirectFeatures(Swapped(pos), 1 - v)
           seen(s, w) == IF w = 1 THEN FlipRank(s) ELSE s
           index(p, king, w) ==
               LegacyDirectKingBuckets[seen(king, w)] * 768
               + (p.type - 1 + (IF p.color = w THEN 6 ELSE 0)) * 64
               + (IF File(king) >= 4 THEN FlipFile(seen(p.sq, w)) ELSE seen(p.sq, w))
<1>1. /\ KingOf(pos, v) \in Squares /\ KingOf(Swapped(pos), 1 - v) = FlipRank(KingOf(pos, v))
      /\ Swapped(pos) = {Turned(p) : p \in pos} /\ pos \in SUBSET Pieces
  BY TurnedKings, SwappedBoard DEF Kings
<1>2. /\ f = [p \in pos |-> index(p, KingOf(pos, v), v)]
      /\ g = [p \in Swapped(pos) |-> index(p, KingOf(Swapped(pos), 1 - v), 1 - v)]
  BY DEF LegacyDirectFeatures
<1>3. \A s \in Squares : seen(FlipRank(s), 1 - v) = seen(s, v)
  <2>1. CASE v = 0
    <3>1. 1 - v = 1
      BY <2>1
    <3> QED
      BY <2>1, <3>1, Flips
  <2>2. CASE v = 1
    <3>1. 1 - v = 0
      BY <2>2
    <3> QED
      BY <2>2, <3>1, Flips
  <2> QED
    BY <2>1, <2>2
<1>4. ASSUME NEW p \in Pieces, NEW king \in Squares
      PROVE  index(Turned(p), FlipRank(king), 1 - v) = index(p, king, v)
  <2>1. /\ Turned(p).type = p.type /\ Turned(p).color = 1 - p.color /\ Turned(p).sq = FlipRank(p.sq)
        /\ p.color \in {0, 1} /\ p.sq \in Squares
    BY TurnedPiece, PieceOf
  <2>2. Turned(p).color = 1 - v <=> p.color = v
    BY <2>1
  <2>3. File(FlipRank(king)) = File(king)
    BY Flips
  <2>4. seen(Turned(p).sq, 1 - v) = seen(p.sq, v) /\ seen(FlipRank(king), 1 - v) = seen(king, v)
    BY <1>3, <2>1
  <2> HIDE DEF seen
  <2> QED
    BY <2>1, <2>2, <2>3, <2>4
<1> HIDE DEF seen, index, f, g
<1>5. \A p \in pos : Turned(p) \in DOMAIN g /\ g[Turned(p)] = f[p]
  BY <1>1, <1>2, <1>4
<1>6. DOMAIN f = pos /\ DOMAIN g = Swapped(pos)
  BY <1>2
<1>7. \A x \in DOMAIN f : \E y \in DOMAIN g : g[y] = f[x]
  BY <1>5, <1>6
<1>8. \A x \in DOMAIN g : \E y \in DOMAIN f : f[y] = g[x]
  BY <1>1, <1>5, <1>6
<1>9. RowSet(f) = RowSet(g)
  BY <1>7, <1>8, SameRowSet
<1> QED
  BY <1>9 DEF f, g

-----------------------------------------------------------------------------
(* Attacks, turned *)

Flipped(S) == {FlipRank(s) : s \in S}
Steps == (-2..2) \X (-2..2)
Back(d) == <<d[1], -d[2]>>

LEMMA FlippedTwice ==
    ASSUME NEW S \in SUBSET Squares
    PROVE  /\ Flipped(S) \in SUBSET Squares /\ Flipped(Flipped(S)) = S
           /\ \A s \in Squares : FlipRank(s) \in Flipped(S) <=> s \in S
<1>1. \A s \in Squares : FlipRank(s) \in Squares /\ FlipRank(FlipRank(s)) = s
  BY Flips
<1>2. Flipped(S) \in SUBSET Squares
  BY <1>1 DEF Flipped
<1>3. \A s \in Squares : FlipRank(s) \in Flipped(S) <=> s \in S
  <2> TAKE s \in Squares
  <2>1. ASSUME FlipRank(s) \in Flipped(S) PROVE s \in S
    <3>1. PICK t \in S : FlipRank(s) = FlipRank(t)
      BY <2>1 DEF Flipped
    <3> QED
      BY <1>1, <3>1
  <2> QED
    BY <2>1 DEF Flipped
<1>4. ASSUME NEW s PROVE s \in Flipped(Flipped(S)) <=> s \in S
  <2>1. ASSUME s \in S PROVE s \in Flipped(Flipped(S))
    <3>1. FlipRank(s) \in Flipped(S) /\ FlipRank(FlipRank(s)) = s
      BY <1>1, <2>1 DEF Flipped
    <3> QED
      BY <3>1 DEF Flipped
  <2>2. ASSUME s \in Flipped(Flipped(S)) PROVE s \in S
    <3>1. PICK t \in S : s = FlipRank(FlipRank(t))
      BY <2>2 DEF Flipped
    <3> QED
      BY <1>1, <3>1
  <2> QED
    BY <2>1, <2>2
<1> QED
  BY <1>2, <1>3, <1>4

LEMMA BackStep ==
    ASSUME NEW d \in Steps
    PROVE  /\ d = <<d[1], d[2]>> /\ d[1] \in -2..2 /\ d[2] \in -2..2
           /\ Back(d) \in Steps /\ Back(d)[1] = d[1] /\ Back(d)[2] = -d[2]
<1>1. d = <<d[1], d[2]>> /\ d[1] \in -2..2 /\ d[2] \in -2..2
  BY DEF Steps
<1>2. -d[2] \in -2..2
  BY <1>1
<1> QED
  BY <1>1, <1>2 DEF Back, Steps

\* The square k steps on, on a board and on the turned one.
LEMMA AlongTurned ==
    ASSUME NEW s \in Squares, NEW d \in Steps, NEW k \in Nat
    PROVE  /\ Along(s, d, k).f \in Int /\ Along(s, d, k).r \in Int
           /\ Along(FlipRank(s), Back(d), k).f = Along(s, d, k).f
           /\ Along(FlipRank(s), Back(d), k).r = 7 - Along(s, d, k).r
           /\ OnBoard(Along(s, d, k).f, Along(s, d, k).r) =>
                 /\ OnBoard(Along(FlipRank(s), Back(d), k).f, Along(FlipRank(s), Back(d), k).r)
                 /\ SquareAt(Along(s, d, k)) \in Squares
                 /\ SquareAt(Along(FlipRank(s), Back(d), k)) = FlipRank(SquareAt(Along(s, d, k)))
<1> DEFINE a == Along(s, d, k)
           b == Along(FlipRank(s), Back(d), k)
<1>1. PICK x \in Int, y \in Int : x = d[1] /\ y = d[2]
  BY BackStep
<1>2. PICK f \in Int, r \in Int :
          f = File(s) /\ r = Rank(s) /\ File(FlipRank(s)) = f /\ Rank(FlipRank(s)) = 7 - r
  BY Flips
<1>3. a.f = f + k * x /\ a.r = r + k * y
  BY <1>1, <1>2 DEF Along
<1>4. b.f = f + k * x /\ b.r = 7 - r + k * (-y)
  BY <1>1, <1>2, BackStep DEF Along
<1>5. k * x \in Int /\ k * y \in Int /\ k * (-y) = -(k * y)
  OBVIOUS
<1>6. a.f \in Int /\ a.r \in Int /\ b.f = a.f /\ b.r = 7 - a.r
  <2>1. PICK kx \in Int, ky \in Int : kx = k * x /\ ky = k * y /\ k * (-y) = -ky
    BY <1>5
  <2> HIDE DEF a, b
  <2>2. a.f = f + kx /\ a.r = r + ky /\ b.f = f + kx /\ b.r = 7 - r + -ky
    BY <1>3, <1>4, <2>1
  <2> QED
    BY <2>2
<1> HIDE DEF a, b
<1>7. ASSUME OnBoard(a.f, a.r)
      PROVE  /\ OnBoard(b.f, b.r) /\ SquareAt(a) \in Squares
             /\ SquareAt(b) = FlipRank(SquareAt(a))
  <2>1. PICK i \in 0..7, j \in 0..7 : i = a.f /\ j = a.r
    BY <1>7 DEF OnBoard
  <2>2. SquareAt(a) = 8 * j + i /\ SquareAt(b) = 8 * (7 - j) + i
    BY <1>6, <2>1 DEF SquareAt
  <2>3. (8 * j + i) \div 8 = j
    BY <2>1
  <2>4. FlipRank(8 * j + i) = 8 * (7 - j) + i
    BY <2>1, <2>3 DEF FlipRank, Rank
  <2>5. 8 * j + i \in Squares /\ 7 - j \in 0..7
    BY <2>1 DEF Squares
  <2> QED
    BY <1>6, <2>1, <2>2, <2>4, <2>5 DEF OnBoard
<1> QED
  BY <1>6, <1>7 DEF a, b

Rays == Diagonals \cup Straights
LEMMA RaySteps ==
    /\ Rays \subseteq Steps /\ KnightSteps \subseteq Steps
    /\ \A d \in Rays : d[1] \in -1..1 /\ d[2] \in -1..1
    /\ \A d \in Diagonals : Back(d) \in Diagonals
    /\ \A d \in Straights : Back(d) \in Straights
    /\ \A d \in KnightSteps : Back(d) \in KnightSteps
    /\ \A c \in {0, 1} : \A d \in {-1, 1} \X {IF c = 0 THEN 1 ELSE -1} :
          d \in Steps /\ Back(d) \in {-1, 1} \X {IF 1 - c = 0 THEN 1 ELSE -1}
<1>1. ASSUME NEW x \in {1, -1}, NEW y \in {1, -1}
      PROVE  /\ <<x, y>> \in Steps /\ Back(<<x, y>>) = <<x, -y>>
             /\ x \in -1..1 /\ y \in -1..1 /\ -y \in {1, -1}
  BY DEF Steps, Back
<1>2. ASSUME NEW x \in {1, -1}, NEW y \in {2, -2}
      PROVE  /\ <<x, y>> \in Steps /\ Back(<<x, y>>) = <<x, -y>> /\ -y \in {2, -2}
             /\ <<y, x>> \in Steps /\ Back(<<y, x>>) = <<y, -x>> /\ -x \in {1, -1}
  BY DEF Steps, Back
<1>3. /\ <<1, 0>> \in Steps /\ Back(<<1, 0>>) = <<1, 0>> /\ <<-1, 0>> \in Steps
      /\ Back(<<-1, 0>>) = <<-1, 0>> /\ <<0, 1>> \in Steps /\ Back(<<0, 1>>) = <<0, -1>>
      /\ <<0, -1>> \in Steps /\ Back(<<0, -1>>) = <<0, 1>>
  <2>1. \A x \in -1..1, y \in -1..1 : <<x, y>> \in Steps
    BY DEF Steps
  <2>2. \A x \in Int, y \in Int, z \in Int : z = -y => Back(<<x, y>>) = <<x, z>>
    BY DEF Back
  <2>3. \A y \in Int : (y = 0 => -y = 0) /\ (y = 1 => -y = -1) /\ (y = -1 => -y = 1)
    OBVIOUS
  <2>4. 0 \in Int /\ 1 \in Int /\ -1 \in Int
    OBVIOUS
  <2>5. 0 \in -1..1 /\ 1 \in -1..1 /\ -1 \in -1..1
    OBVIOUS
  <2>6. /\ <<1, 0>> \in Steps /\ <<-1, 0>> \in Steps /\ <<0, 1>> \in Steps /\ <<0, -1>> \in Steps
    BY <2>1, <2>5
  <2>7. /\ Back(<<1, 0>>) = <<1, 0>> /\ Back(<<-1, 0>>) = <<-1, 0>>
        /\ Back(<<0, 1>>) = <<0, -1>> /\ Back(<<0, -1>>) = <<0, 1>>
    BY <2>2, <2>3, <2>4
  <2> QED
    BY <2>6, <2>7
<1>4. \A d \in Diagonals : d \in Steps /\ d[1] \in -1..1 /\ d[2] \in -1..1 /\ Back(d) \in Diagonals
  BY <1>1 DEF Diagonals
<1>5. \A d \in Straights : d \in Steps /\ d[1] \in -1..1 /\ d[2] \in -1..1 /\ Back(d) \in Straights
  BY <1>3 DEF Straights
<1>6. \A d \in KnightSteps : d \in Steps /\ Back(d) \in KnightSteps
  BY <1>2 DEF KnightSteps
<1>7. \A c \in {0, 1} : \A d \in {-1, 1} \X {IF c = 0 THEN 1 ELSE -1} :
          d \in Steps /\ Back(d) \in {-1, 1} \X {IF 1 - c = 0 THEN 1 ELSE -1}
  BY <1>1
<1> QED
  BY <1>4, <1>5, <1>6, <1>7 DEF Rays

\* What lies before a square of the board on a ray is on the board.
LEMMA Between ==
    ASSUME NEW s \in Squares, NEW d \in Rays, NEW k \in 1..7, NEW j \in 0..k,
           OnBoard(Along(s, d, k).f, Along(s, d, k).r)
    PROVE  OnBoard(Along(s, d, j).f, Along(s, d, j).r)
<1>1. PICK x \in -1..1, y \in -1..1 : x = d[1] /\ y = d[2]
  BY RaySteps
<1>2. PICK f \in 0..7, r \in 0..7 : f = File(s) /\ r = Rank(s)
  BY Flips
<1>3. f + k * x \in 0..7 /\ r + k * y \in 0..7
  BY <1>1, <1>2 DEF OnBoard, Along
<1>4. f + j * x \in 0..7
  <2>1. CASE x = -1
    BY <1>3, <2>1
  <2>2. CASE x = 0
    BY <1>3, <2>2
  <2>3. CASE x = 1
    BY <1>3, <2>3
  <2> QED
    BY <2>1, <2>2, <2>3
<1>5. r + j * y \in 0..7
  <2>1. CASE y = -1
    BY <1>3, <2>1
  <2>2. CASE y = 0
    BY <1>3, <2>2
  <2>3. CASE y = 1
    BY <1>3, <2>3
  <2> QED
    BY <2>1, <2>2, <2>3
<1> QED
  BY <1>1, <1>2, <1>4, <1>5 DEF OnBoard, Along

LEMMA RayTurned ==
    ASSUME NEW s \in Squares, NEW d \in Rays, NEW occupied \in SUBSET Squares,
           NEW t \in Ray(s, d, occupied)
    PROVE  t \in Squares /\ FlipRank(t) \in Ray(FlipRank(s), Back(d), Flipped(occupied))
<1>1. d \in Steps
  BY RaySteps
<1>2. PICK k \in 1..7 : /\ OnBoard(Along(s, d, k).f, Along(s, d, k).r)
                        /\ \A j \in 1..(k - 1) : SquareAt(Along(s, d, j)) \notin occupied
                        /\ t = SquareAt(Along(s, d, k))
  BY DEF Ray
<1> DEFINE u(j) == SquareAt(Along(FlipRank(s), Back(d), j))
<1>3. \A j \in 1..(k - 1) : u(j) \notin Flipped(occupied)
  <2> TAKE j \in 1..(k - 1)
  <2>1. j \in 0..k /\ j \in Nat
    OBVIOUS
  <2>2. OnBoard(Along(s, d, j).f, Along(s, d, j).r)
    BY <1>2, <2>1, Between
  <2>3. u(j) = FlipRank(SquareAt(Along(s, d, j))) /\ SquareAt(Along(s, d, j)) \in Squares
    BY <1>1, <2>1, <2>2, AlongTurned
  <2> QED
    BY <1>2, <2>3, FlippedTwice
<1>4. /\ OnBoard(Along(FlipRank(s), Back(d), k).f, Along(FlipRank(s), Back(d), k).r)
      /\ t \in Squares /\ u(k) = FlipRank(t)
  BY <1>1, <1>2, AlongTurned
<1>5. u(k) \in Ray(FlipRank(s), Back(d), Flipped(occupied))
  BY <1>3, <1>4 DEF Ray
<1> QED
  BY <1>4, <1>5

LEMMA LeaperTurned ==
    ASSUME NEW s \in Squares, NEW steps \in SUBSET Steps, NEW back, \A d \in steps : Back(d) \in back,
           NEW t \in LeaperAttacks(steps, s)
    PROVE  t \in Squares /\ FlipRank(t) \in LeaperAttacks(back, FlipRank(s))
<1>1. PICK d \in steps : OnBoard(Along(s, d, 1).f, Along(s, d, 1).r) /\ t = SquareAt(Along(s, d, 1))
  BY DEF LeaperAttacks
<1>2. /\ OnBoard(Along(FlipRank(s), Back(d), 1).f, Along(FlipRank(s), Back(d), 1).r)
      /\ t \in Squares /\ SquareAt(Along(FlipRank(s), Back(d), 1)) = FlipRank(t)
  BY <1>1, AlongTurned
<1> QED
  BY <1>1, <1>2 DEF LeaperAttacks

LEMMA SliderTurned ==
    ASSUME NEW type \in {Bishop, Rook, Queen}, NEW s \in Squares, NEW occupied \in SUBSET Squares,
           NEW t \in SliderAttacks(type, s, occupied)
    PROVE  t \in Squares /\ FlipRank(t) \in SliderAttacks(type, FlipRank(s), Flipped(occupied))
<1>1. PICK d \in Directions(type) : t \in Ray(s, d, occupied)
  BY DEF SliderAttacks
<1>2. d \in Rays /\ Back(d) \in Directions(type)
  BY RaySteps DEF Directions, Rays
<1>3. t \in Squares /\ FlipRank(t) \in Ray(FlipRank(s), Back(d), Flipped(occupied))
  BY <1>1, <1>2, RayTurned
<1> QED
  BY <1>2, <1>3 DEF SliderAttacks

LEMMA PawnKind ==
    ASSUME NEW type \in 1..6, type = Pawn, NEW c, NEW s, NEW occupied
    PROVE  AttacksOf(type, c, s, occupied) = LeaperAttacks({-1, 1} \X {IF c = 0 THEN 1 ELSE -1}, s)
<1>1. AttacksOf(type, c, s, occupied) = PawnAttacks(c, s)
  BY DEF AttacksOf, Pawn, Knight, King
<1> QED
  BY <1>1 DEF PawnAttacks

LEMMA KnightKind ==
    ASSUME NEW type \in 1..6, type = Knight, NEW c, NEW s, NEW occupied
    PROVE  AttacksOf(type, c, s, occupied) = LeaperAttacks(KnightSteps, s)
BY DEF AttacksOf, Pawn, Knight, King

LEMMA KingKind ==
    ASSUME NEW type \in 1..6, type = King, NEW c, NEW s, NEW occupied
    PROVE  AttacksOf(type, c, s, occupied) = LeaperAttacks(Diagonals \cup Straights, s)
BY DEF AttacksOf, Pawn, Knight, King

LEMMA SliderKind ==
    ASSUME NEW type \in 1..6, type \notin {Pawn, Knight, King}, NEW c, NEW s, NEW occupied
    PROVE  AttacksOf(type, c, s, occupied) = SliderAttacks(type, s, occupied)
BY DEF AttacksOf

LEMMA AttackTurned ==
    ASSUME NEW type \in 1..6, NEW c \in {0, 1}, NEW s \in Squares, NEW occupied \in SUBSET Squares,
           NEW t \in AttacksOf(type, c, s, occupied)
    PROVE  t \in Squares /\ FlipRank(t) \in AttacksOf(type, 1 - c, FlipRank(s), Flipped(occupied))
<1>1. CASE type = Pawn
  <2> DEFINE ahead(w) == {-1, 1} \X {IF w = 0 THEN 1 ELSE -1}
  <2>1. ahead(c) \in SUBSET Steps /\ \A d \in ahead(c) : Back(d) \in ahead(1 - c)
    BY RaySteps
  <2>2. t \in LeaperAttacks(ahead(c), s)
    BY <1>1, PawnKind
  <2>3. t \in Squares /\ FlipRank(t) \in LeaperAttacks(ahead(1 - c), FlipRank(s))
    <3> HIDE DEF ahead
    <3> QED
      BY <2>1, <2>2, LeaperTurned
  <2>4. AttacksOf(type, 1 - c, FlipRank(s), Flipped(occupied)) = LeaperAttacks(ahead(1 - c), FlipRank(s))
    BY <1>1, PawnKind
  <2> QED
    BY <2>3, <2>4
<1>2. CASE type = Knight
  <2>1. t \in LeaperAttacks(KnightSteps, s)
    BY <1>2, KnightKind
  <2>2. t \in Squares /\ FlipRank(t) \in LeaperAttacks(KnightSteps, FlipRank(s))
    BY <2>1, RaySteps, LeaperTurned
  <2> QED
    BY <1>2, <2>2, KnightKind
<1>3. CASE type = King
  <2>1. t \in LeaperAttacks(Diagonals \cup Straights, s)
    BY <1>3, KingKind
  <2>2. \A d \in Diagonals \cup Straights : Back(d) \in Diagonals \cup Straights
    BY RaySteps
  <2>3. t \in Squares /\ FlipRank(t) \in LeaperAttacks(Diagonals \cup Straights, FlipRank(s))
    BY <2>1, <2>2, RaySteps, LeaperTurned DEF Rays
  <2> QED
    BY <1>3, <2>3, KingKind
<1>4. CASE type \notin {Pawn, Knight, King}
  <2>1. type \in {Bishop, Rook, Queen}
    BY <1>4 DEF Pawn, Knight, King, Bishop, Rook, Queen
  <2>2. \A w, o, x : AttacksOf(type, w, x, o) = SliderAttacks(type, x, o)
    BY <1>4, SliderKind
  <2> QED
    BY <2>1, <2>2, SliderTurned
<1> QED
  BY <1>1, <1>2, <1>3, <1>4

LEMMA AttacksTurned ==
    ASSUME NEW type \in 1..6, NEW c \in {0, 1}, NEW s \in Squares, NEW t \in Squares,
           NEW occupied \in SUBSET Squares
    PROVE  FlipRank(t) \in AttacksOf(type, 1 - c, FlipRank(s), Flipped(occupied))
               <=> t \in AttacksOf(type, c, s, occupied)
<1>1. /\ 1 - c \in {0, 1} /\ 1 - (1 - c) = c /\ FlipRank(s) \in Squares /\ FlipRank(t) \in Squares
      /\ FlipRank(FlipRank(s)) = s /\ FlipRank(FlipRank(t)) = t
      /\ Flipped(occupied) \in SUBSET Squares /\ Flipped(Flipped(occupied)) = occupied
  BY Flips, FlippedTwice
<1>2. t \in AttacksOf(type, c, s, occupied)
          => FlipRank(t) \in AttacksOf(type, 1 - c, FlipRank(s), Flipped(occupied))
  BY AttackTurned
<1>3. ASSUME FlipRank(t) \in AttacksOf(type, 1 - c, FlipRank(s), Flipped(occupied))
      PROVE  t \in AttacksOf(type, c, s, occupied)
  <2>1. FlipRank(FlipRank(t)) \in AttacksOf(type, 1 - (1 - c), FlipRank(FlipRank(s)),
                                            Flipped(Flipped(occupied)))
    BY <1>1, <1>3, AttackTurned
  <2> QED
    BY <1>1, <2>1
<1> QED
  BY <1>2, <1>3

-----------------------------------------------------------------------------
(* Threat rows, turned *)

\* A row from what the side that looks sees: its code of either piece, its squares.
SideOf(view, code) == IF view = 1 THEN (code + 8) % 16 ELSE code
TurnOf(view, king, s) ==
    IF File(king) < 4 THEN (IF view = 1 THEN FlipRank(s) ELSE s)
    ELSE FlipFile(IF view = 1 THEN FlipRank(s) ELSE s)
RowOf(attacker, from, to, attacked) ==
    IF Excluded(attacker, attacked, from < to) THEN ThreatFeatureCount
    ELSE TargetOffset(attacker, attacked) + SquareOffset[attacker][from] + AttackOffset(attacker, from, to)

LEMMA IndexIsRow ==
    ASSUME NEW view, NEW a, NEW from, NEW to, NEW b, NEW king
    PROVE  ThreatIndex(view, a, from, to, b, king) =
               RowOf(SideOf(view, a), TurnOf(view, king, from), TurnOf(view, king, to), SideOf(view, b))
<1> DEFINE x == TurnOf(view, king, from)
           y == TurnOf(view, king, to)
<1>1. /\ x = (LET t == IF view = 1 THEN FlipRank(from) ELSE from
              IN  IF File(king) < 4 THEN t ELSE FlipFile(t))
      /\ y = (LET t == IF view = 1 THEN FlipRank(to) ELSE to
              IN  IF File(king) < 4 THEN t ELSE FlipFile(t))
  BY DEF TurnOf
<1>2. SideOf(view, a) = (IF view = 1 THEN (a + 8) % 16 ELSE a)
      /\ SideOf(view, b) = (IF view = 1 THEN (b + 8) % 16 ELSE b)
  BY DEF SideOf
<1> QED
  BY <1>1, <1>2 DEF ThreatIndex, RowOf

LEMMA SideTurned ==
    ASSUME NEW p \in Pieces, NEW v \in {0, 1}
    PROVE  /\ SideOf(1 - v, CodeOf(Turned(p))) = SideOf(v, CodeOf(p))
           /\ SideOf(v, CodeOf(p)) = p.type + 8 * (IF p.color = v THEN 0 ELSE 1)
<1>1. PICK t \in 1..6, c \in {0, 1} : /\ t = p.type /\ c = p.color
                                     /\ t = Turned(p).type /\ 1 - c = Turned(p).color
  BY TurnedPiece, PieceOf
<1>2. CodeOf(p) = t + 8 * c /\ CodeOf(Turned(p)) = t + 8 * (1 - c)
  BY <1>1 DEF CodeOf
<1>3. ASSUME NEW w \in {0, 1}, NEW d \in {0, 1}
      PROVE  SideOf(w, t + 8 * d) = t + 8 * (IF d = w THEN 0 ELSE 1)
  <2>1. CASE w = 0
    BY <2>1 DEF SideOf
  <2>2. CASE w = 1 /\ d = 0
    <3>1. (t + 8 * d + 8) % 16 = t + 8
      BY <2>2
    <3> QED
      BY <2>2, <3>1 DEF SideOf
  <2>3. CASE w = 1 /\ d = 1
    <3>1. (t + 8 * d + 8) % 16 = t
      BY <2>3
    <3> QED
      BY <2>3, <3>1 DEF SideOf
  <2> QED
    BY <2>1, <2>2, <2>3
<1>4. 1 - v \in {0, 1} /\ 1 - c \in {0, 1} /\ (1 - c = 1 - v <=> c = v)
  OBVIOUS
<1>5. SideOf(v, t + 8 * c) = t + 8 * (IF c = v THEN 0 ELSE 1)
  BY <1>3
<1>6. SideOf(1 - v, t + 8 * (1 - c)) = t + 8 * (IF 1 - c = 1 - v THEN 0 ELSE 1)
  BY <1>3, <1>4
<1> QED
  BY <1>1, <1>2, <1>4, <1>5, <1>6

LEMMA TurnTurned ==
    ASSUME NEW s \in Squares, NEW king \in Squares, NEW v \in {0, 1}
    PROVE  /\ TurnOf(1 - v, FlipFile(FlipRank(king)), FlipFile(FlipRank(s)))
                = TurnOf(v, FlipFile(king), FlipFile(s))
           /\ TurnOf(v, FlipFile(king), FlipFile(s)) \in Squares
<1>1. PICK t \in Squares : t = FlipFile(s) /\ FlipFile(FlipRank(s)) = FlipRank(t)
  BY Flips
<1>2. File(FlipFile(FlipRank(king))) = File(FlipFile(king))
  BY Flips
<1>3. FlipRank(FlipRank(t)) = t /\ FlipRank(t) \in Squares /\ FlipFile(t) \in Squares
      /\ FlipFile(FlipRank(t)) \in Squares
  BY Flips
<1>4. CASE v = 0
  <2>1. 1 - v = 1
    BY <1>4
  <2> QED
    BY <1>1, <1>2, <1>3, <1>4, <2>1 DEF TurnOf
<1>5. CASE v = 1
  <2>1. 1 - v = 0
    BY <1>5
  <2> QED
    BY <1>1, <1>2, <1>3, <1>5, <2>1 DEF TurnOf
<1> QED
  BY <1>4, <1>5

\* The row of an attack in Emitted.
RowIn(pos, view, p, q) ==
    ThreatIndex(view, CodeOf(p), FlipFile(p.sq), FlipFile(q.sq), CodeOf(q), FlipFile(KingOf(pos, view)))

LEMMA EmittedRows ==
    ASSUME NEW pairs, NEW pos, NEW view
    PROVE  Emitted(pairs, pos, view) =
               [pq \in {pq \in pairs : RowIn(pos, view, pq[1], pq[2]) < ThreatFeatureCount} |->
                   RowIn(pos, view, pq[1], pq[2])]
BY DEF Emitted, RowIn

LEMMA RowTurned ==
    ASSUME NEW pos, Kings(pos), NEW v \in {0, 1}, NEW p \in pos, NEW q \in pos
    PROVE  RowIn(Swapped(pos), 1 - v, Turned(p), Turned(q)) = RowIn(pos, v, p, q)
<1>1. KingOf(pos, v) \in Squares /\ KingOf(Swapped(pos), 1 - v) = FlipRank(KingOf(pos, v))
  BY TurnedKings
<1>2. /\ p \in Pieces /\ q \in Pieces /\ p.sq \in Squares /\ q.sq \in Squares
      /\ Turned(p).sq = FlipRank(p.sq) /\ Turned(q).sq = FlipRank(q.sq)
  BY TurnedPiece, PieceOf DEF Kings
<1> DEFINE king == FlipFile(KingOf(pos, v))
           turned == FlipFile(FlipRank(KingOf(pos, v)))
           a == SideOf(v, CodeOf(p))
           b == SideOf(v, CodeOf(q))
           x == TurnOf(v, king, FlipFile(p.sq))
           y == TurnOf(v, king, FlipFile(q.sq))
<1>3. RowIn(pos, v, p, q) = RowOf(a, x, y, b)
  BY IndexIsRow DEF RowIn
<1>4. RowIn(Swapped(pos), 1 - v, Turned(p), Turned(q)) =
          RowOf(SideOf(1 - v, CodeOf(Turned(p))), TurnOf(1 - v, turned, FlipFile(FlipRank(p.sq))),
                TurnOf(1 - v, turned, FlipFile(FlipRank(q.sq))), SideOf(1 - v, CodeOf(Turned(q))))
  BY <1>1, <1>2, IndexIsRow DEF RowIn
<1>5. SideOf(1 - v, CodeOf(Turned(p))) = a /\ SideOf(1 - v, CodeOf(Turned(q))) = b
  BY <1>2, SideTurned
<1>6. /\ TurnOf(1 - v, turned, FlipFile(FlipRank(p.sq))) = x
      /\ TurnOf(1 - v, turned, FlipFile(FlipRank(q.sq))) = y
  BY <1>1, <1>2, TurnTurned
<1> QED
  BY <1>3, <1>4, <1>5, <1>6

\* A list of attacks whose turned ones are in another gives no row the other does not.
LEMMA EmittedTurned ==
    ASSUME NEW pos, Kings(pos), NEW v \in {0, 1}, NEW pairs, NEW others,
           \A pq \in pairs : /\ pq[1] \in pos /\ pq[2] \in pos
                             /\ \E st \in others : st[1] = Turned(pq[1]) /\ st[2] = Turned(pq[2])
    PROVE  \A x \in DOMAIN Emitted(pairs, pos, v) :
               \E y \in DOMAIN Emitted(others, Swapped(pos), 1 - v) :
                   Emitted(others, Swapped(pos), 1 - v)[y] = Emitted(pairs, pos, v)[x]
<1> DEFINE f == Emitted(pairs, pos, v)
           g == Emitted(others, Swapped(pos), 1 - v)
<1>1. /\ DOMAIN f = {pq \in pairs : RowIn(pos, v, pq[1], pq[2]) < ThreatFeatureCount}
      /\ \A x \in DOMAIN f : f[x] = RowIn(pos, v, x[1], x[2])
  BY EmittedRows
<1>2. /\ DOMAIN g = {pq \in others : RowIn(Swapped(pos), 1 - v, pq[1], pq[2]) < ThreatFeatureCount}
      /\ \A x \in DOMAIN g : g[x] = RowIn(Swapped(pos), 1 - v, x[1], x[2])
  BY EmittedRows
<1> HIDE DEF f, g
<1> SUFFICES ASSUME NEW x \in DOMAIN f PROVE \E y \in DOMAIN g : g[y] = f[x]
  BY DEF f, g
<1>3. x \in pairs /\ RowIn(pos, v, x[1], x[2]) < ThreatFeatureCount /\ f[x] = RowIn(pos, v, x[1], x[2])
  BY <1>1
<1>4. PICK y \in others : y[1] = Turned(x[1]) /\ y[2] = Turned(x[2])
  BY <1>3
<1>5. RowIn(Swapped(pos), 1 - v, y[1], y[2]) = RowIn(pos, v, x[1], x[2])
  BY <1>3, <1>4, RowTurned
<1> QED
  BY <1>2, <1>3, <1>4, <1>5

LEMMA OccupiedTurned ==
    ASSUME NEW pos \in SUBSET Pieces
    PROVE  Occupied(pos) \in SUBSET Squares /\ Occupied(Swapped(pos)) = Flipped(Occupied(pos))
<1>1. Occupied(pos) \in SUBSET Squares
  BY PieceOf DEF Occupied
<1>2. Swapped(pos) = {Turned(p) : p \in pos} /\ \A p \in pos : Turned(p).sq = FlipRank(p.sq)
  BY SwappedBoard, TurnedPiece
<1>3. ASSUME NEW s PROVE s \in Occupied(Swapped(pos)) <=> \E p \in pos : s = FlipRank(p.sq)
  BY <1>2 DEF Occupied
<1>4. ASSUME NEW s PROVE s \in Flipped(Occupied(pos)) <=> \E p \in pos : s = FlipRank(p.sq)
  BY DEF Flipped, Occupied
<1> QED
  BY <1>1, <1>3, <1>4

\* The attacks ThreatFeatures and XrayFeatures look at.
ThreatPairs(pos) ==
    {pq \in pos \X pos :
        /\ pq[1].type # King /\ pq[2].type \in TargetTypes(pq[1].type)
        /\ pq[2].sq \in AttacksOf(pq[1].type, pq[1].color, pq[1].sq, Occupied(pos))}
XrayTriples(pos) ==
    {pbq \in {p \in pos : p.type \in {Bishop, Rook, Queen}} \X pos \X pos :
        /\ pbq[2].sq \in SliderAttacks(pbq[1].type, pbq[1].sq, Occupied(pos) \ {})
        /\ pbq[3].sq \in SliderAttacks(pbq[1].type, pbq[1].sq, Occupied(pos) \ {pbq[2].sq})
                         \ SliderAttacks(pbq[1].type, pbq[1].sq, Occupied(pos) \ {})
        /\ pbq[3] # pbq[2]}
XrayPairs(pos) == {<<pbq[1], pbq[3], pbq[2]>> : pbq \in XrayTriples(pos)}

LEMMA ThreatsOf ==
    ASSUME NEW pos, NEW v
    PROVE  /\ ThreatFeatures(pos, v) = Emitted(ThreatPairs(pos), pos, v)
           /\ XrayFeatures(pos, v) = Emitted(XrayPairs(pos), pos, v)
BY DEF ThreatFeatures, ThreatPairs, XrayFeatures, XrayTriples, XrayPairs

LEMMA ThreatPairsTurned ==
    ASSUME NEW pos \in SUBSET Pieces, NEW pq \in ThreatPairs(pos)
    PROVE  /\ pq[1] \in pos /\ pq[2] \in pos
           /\ <<Turned(pq[1]), Turned(pq[2])>> \in ThreatPairs(Swapped(pos))
<1>1. PICK p \in pos, q \in pos : pq = <<p, q>>
  BY DEF ThreatPairs
<1>2. /\ p.type # King /\ q.type \in TargetTypes(p.type)
      /\ q.sq \in AttacksOf(p.type, p.color, p.sq, Occupied(pos))
  BY <1>1 DEF ThreatPairs
<1>3. /\ p \in Pieces /\ q \in Pieces /\ p.type \in 1..6 /\ p.color \in {0, 1} /\ p.sq \in Squares
      /\ q.sq \in Squares
  BY PieceOf
<1>4. /\ Turned(p).type = p.type /\ Turned(p).color = 1 - p.color /\ Turned(p).sq = FlipRank(p.sq)
      /\ Turned(q).type = q.type /\ Turned(q).sq = FlipRank(q.sq)
  BY <1>3, TurnedPiece
<1>5. FlipRank(q.sq) \in AttacksOf(p.type, 1 - p.color, FlipRank(p.sq), Occupied(Swapped(pos)))
  BY <1>2, <1>3, AttacksTurned, OccupiedTurned
<1>6. Turned(p) \in Swapped(pos) /\ Turned(q) \in Swapped(pos)
  BY SwappedBoard
<1> DEFINE x == Turned(p)
           y == Turned(q)
<1>7. /\ x \in Swapped(pos) /\ y \in Swapped(pos) /\ x.type # King /\ y.type \in TargetTypes(x.type)
      /\ y.sq \in AttacksOf(x.type, x.color, x.sq, Occupied(Swapped(pos)))
  BY <1>2, <1>4, <1>5, <1>6
<1> HIDE DEF x, y
<1>8. <<x, y>> \in ThreatPairs(Swapped(pos))
  BY <1>7 DEF ThreatPairs
<1> QED
  BY <1>1, <1>8 DEF x, y

LEMMA SlidersTurned ==
    ASSUME NEW type \in {Bishop, Rook, Queen}, NEW s \in Squares, NEW t \in Squares,
           NEW occupied \in SUBSET Squares
    PROVE  FlipRank(t) \in SliderAttacks(type, FlipRank(s), Flipped(occupied))
               <=> t \in SliderAttacks(type, s, occupied)
<1>1. /\ FlipRank(s) \in Squares /\ FlipRank(t) \in Squares
      /\ FlipRank(FlipRank(s)) = s /\ FlipRank(FlipRank(t)) = t
      /\ Flipped(occupied) \in SUBSET Squares /\ Flipped(Flipped(occupied)) = occupied
  BY Flips, FlippedTwice
<1>2. t \in SliderAttacks(type, s, occupied)
          => FlipRank(t) \in SliderAttacks(type, FlipRank(s), Flipped(occupied))
  BY SliderTurned
<1>3. ASSUME FlipRank(t) \in SliderAttacks(type, FlipRank(s), Flipped(occupied))
      PROVE  t \in SliderAttacks(type, s, occupied)
  <2>1. FlipRank(FlipRank(t)) \in SliderAttacks(type, FlipRank(FlipRank(s)), Flipped(Flipped(occupied)))
    BY <1>1, <1>3, SliderTurned
  <2> QED
    BY <1>1, <2>1
<1> QED
  BY <1>2, <1>3

LEMMA XrayTriplesTurned ==
    ASSUME NEW pos \in SUBSET Pieces, NEW p \in pos, NEW b \in pos, NEW q \in pos,
           <<p, b, q>> \in XrayTriples(pos)
    PROVE  <<Turned(p), Turned(b), Turned(q)>> \in XrayTriples(Swapped(pos))
<1> DEFINE o == Occupied(pos)
           r == Occupied(Swapped(pos))
<1>1. /\ p.type \in {Bishop, Rook, Queen} /\ b.sq \in SliderAttacks(p.type, p.sq, o \ {})
      /\ q.sq \in SliderAttacks(p.type, p.sq, o \ {b.sq})
      /\ q.sq \notin SliderAttacks(p.type, p.sq, o \ {}) /\ q # b
  BY DEF XrayTriples
<1>2. /\ p \in Pieces /\ b \in Pieces /\ q \in Pieces
      /\ p.sq \in Squares /\ b.sq \in Squares /\ q.sq \in Squares
  BY PieceOf
<1>3. /\ Turned(p).type = p.type /\ Turned(p).sq = FlipRank(p.sq)
      /\ Turned(b).sq = FlipRank(b.sq) /\ Turned(q).sq = FlipRank(q.sq)
      /\ Turned(q) # Turned(b)
      /\ Turned(p) \in Swapped(pos) /\ Turned(b) \in Swapped(pos) /\ Turned(q) \in Swapped(pos)
  <2>1. Turned(Turned(q)) = q /\ Turned(Turned(b)) = b
    BY <1>2, TurnedPiece
  <2>2. Turned(q) # Turned(b)
    BY <1>1, <2>1
  <2> QED
    BY <1>2, <2>2, TurnedPiece, SwappedBoard
<1>4. o \in SUBSET Squares /\ r = Flipped(o)
  BY OccupiedTurned
<1> HIDE DEF o, r
<1>5. r \ {} = Flipped(o \ {}) /\ r \ {FlipRank(b.sq)} = Flipped(o \ {b.sq})
  <2>1. r \ {} = r /\ o \ {} = o
    OBVIOUS
  <2>2. ASSUME NEW s PROVE s \in r \ {FlipRank(b.sq)} <=> s \in Flipped(o \ {b.sq})
    <3>1. \A t \in o : FlipRank(t) = FlipRank(b.sq) <=> t = b.sq
      BY <1>2, <1>4, Flips
    <3> QED
      BY <1>4, <3>1 DEF Flipped
  <2> QED
    BY <1>4, <2>1, <2>2
<1>6. o \ {} \in SUBSET Squares /\ o \ {b.sq} \in SUBSET Squares
  BY <1>4
<1> DEFINE x == Turned(p)
           y == Turned(b)
           z == Turned(q)
<1>7. /\ y.sq \in SliderAttacks(x.type, x.sq, r \ {})
      /\ z.sq \in SliderAttacks(x.type, x.sq, r \ {y.sq})
      /\ z.sq \notin SliderAttacks(x.type, x.sq, r \ {})
  <2>1. FlipRank(b.sq) \in SliderAttacks(p.type, FlipRank(p.sq), Flipped(o \ {}))
    BY <1>1, <1>2, <1>6, SlidersTurned
  <2>2. FlipRank(q.sq) \in SliderAttacks(p.type, FlipRank(p.sq), Flipped(o \ {b.sq}))
    BY <1>1, <1>2, <1>6, SlidersTurned
  <2>3. FlipRank(q.sq) \notin SliderAttacks(p.type, FlipRank(p.sq), Flipped(o \ {}))
    BY <1>1, <1>2, <1>6, SlidersTurned
  <2> QED
    BY <1>3, <1>5, <2>1, <2>2, <2>3
<1>8. /\ x \in Swapped(pos) /\ y \in Swapped(pos) /\ z \in Swapped(pos) /\ z # y
      /\ x.type \in {Bishop, Rook, Queen}
  BY <1>1, <1>3
<1> HIDE DEF x, y, z
<1>9. <<x, y, z>> \in XrayTriples(Swapped(pos))
  BY <1>7, <1>8 DEF XrayTriples, r
<1> QED
  BY <1>9 DEF x, y, z

LEMMA XrayPairsTurned ==
    ASSUME NEW pos \in SUBSET Pieces, NEW pq \in XrayPairs(pos)
    PROVE  /\ pq[1] \in pos /\ pq[2] \in pos
           /\ \E st \in XrayPairs(Swapped(pos)) : st[1] = Turned(pq[1]) /\ st[2] = Turned(pq[2])
<1>1. PICK t \in XrayTriples(pos) : pq = <<t[1], t[3], t[2]>>
  BY DEF XrayPairs
<1>2. PICK p \in pos, b \in pos, q \in pos : t = <<p, b, q>>
  BY DEF XrayTriples
<1>3. <<Turned(p), Turned(b), Turned(q)>> \in XrayTriples(Swapped(pos))
  BY <1>2, XrayTriplesTurned
<1> DEFINE u == <<Turned(p), Turned(b), Turned(q)>>
           st == <<Turned(p), Turned(q), Turned(b)>>
<1>4. u[1] = Turned(p) /\ u[2] = Turned(b) /\ u[3] = Turned(q)
  OBVIOUS
<1>5. st = <<u[1], u[3], u[2]>> /\ u \in XrayTriples(Swapped(pos))
  BY <1>3
<1> HIDE DEF u
<1>6. st \in XrayPairs(Swapped(pos))
  BY <1>5 DEF XrayPairs
<1>7. st[1] = Turned(p) /\ st[2] = Turned(q)
  OBVIOUS
<1>8. pq[1] = p /\ pq[2] = q
  BY <1>1, <1>2
<1> HIDE DEF st
<1> QED
  BY <1>6, <1>7, <1>8

LEMMA ThreatsTurned ==
    ASSUME NEW pos, Kings(pos), NEW v \in {0, 1}
    PROVE  /\ RowSet(ThreatFeatures(Swapped(pos), 1 - v)) = RowSet(ThreatFeatures(pos, v))
           /\ RowSet(XrayFeatures(Swapped(pos), 1 - v)) = RowSet(XrayFeatures(pos, v))
<1> DEFINE w == 1 - v
           mirror == Swapped(pos)
<1>1. /\ pos \in SUBSET Pieces /\ mirror \in SUBSET Pieces /\ Kings(mirror)
      /\ Swapped(mirror) = pos /\ w \in {0, 1} /\ 1 - w = v
  BY TurnedKings, SwappedBoard DEF Kings
<1> HIDE DEF w, mirror
<1>2. ASSUME NEW a, Kings(a), NEW u \in {0, 1}
      PROVE  /\ \A x \in DOMAIN ThreatFeatures(a, u) :
                    \E y \in DOMAIN ThreatFeatures(Swapped(a), 1 - u) :
                        ThreatFeatures(Swapped(a), 1 - u)[y] = ThreatFeatures(a, u)[x]
             /\ \A x \in DOMAIN XrayFeatures(a, u) :
                    \E y \in DOMAIN XrayFeatures(Swapped(a), 1 - u) :
                        XrayFeatures(Swapped(a), 1 - u)[y] = XrayFeatures(a, u)[x]
  <2>1. \A pq \in ThreatPairs(a) :
            /\ pq[1] \in a /\ pq[2] \in a
            /\ \E st \in ThreatPairs(Swapped(a)) : st[1] = Turned(pq[1]) /\ st[2] = Turned(pq[2])
    <3> TAKE pq \in ThreatPairs(a)
    <3>1. /\ pq[1] \in a /\ pq[2] \in a
          /\ <<Turned(pq[1]), Turned(pq[2])>> \in ThreatPairs(Swapped(a))
      BY <1>2, ThreatPairsTurned DEF Kings
    <3> QED
      BY <3>1
  <2>2. \A pq \in XrayPairs(a) :
            /\ pq[1] \in a /\ pq[2] \in a
            /\ \E st \in XrayPairs(Swapped(a)) : st[1] = Turned(pq[1]) /\ st[2] = Turned(pq[2])
    BY <1>2, XrayPairsTurned DEF Kings
  <2>3. \A x \in DOMAIN Emitted(ThreatPairs(a), a, u) :
            \E y \in DOMAIN Emitted(ThreatPairs(Swapped(a)), Swapped(a), 1 - u) :
                Emitted(ThreatPairs(Swapped(a)), Swapped(a), 1 - u)[y] = Emitted(ThreatPairs(a), a, u)[x]
    BY <1>2, <2>1, EmittedTurned
  <2>4. \A x \in DOMAIN Emitted(XrayPairs(a), a, u) :
            \E y \in DOMAIN Emitted(XrayPairs(Swapped(a)), Swapped(a), 1 - u) :
                Emitted(XrayPairs(Swapped(a)), Swapped(a), 1 - u)[y] = Emitted(XrayPairs(a), a, u)[x]
    BY <1>2, <2>2, EmittedTurned
  <2> QED
    BY <2>3, <2>4, ThreatsOf
<1> DEFINE f == ThreatFeatures(pos, v)
           g == ThreatFeatures(mirror, w)
           h == XrayFeatures(pos, v)
           k == XrayFeatures(mirror, w)
<1>3. /\ \A x \in DOMAIN f : \E y \in DOMAIN g : g[y] = f[x]
      /\ \A x \in DOMAIN h : \E y \in DOMAIN k : k[y] = h[x]
  BY <1>2 DEF w, mirror
<1>4. /\ \A x \in DOMAIN g : \E y \in DOMAIN f : f[y] = g[x]
      /\ \A x \in DOMAIN k : \E y \in DOMAIN h : h[y] = k[x]
  BY <1>1, <1>2
<1> HIDE DEF f, g, h, k
<1>5. RowSet(f) = RowSet(g) /\ RowSet(h) = RowSet(k)
  BY <1>3, <1>4, SameRowSet
<1> QED
  BY <1>5 DEF f, g, h, k, w, mirror

-----------------------------------------------------------------------------
(* King buckets *)

FoldedFile(s) == IF File(s) < 4 THEN File(s) + 1 ELSE 8 - File(s)

\* A table by king squares has what its rows have for the rank and the file from the edge.
LEMMA TableAt ==
    ASSUME NEW rows, NEW s \in Squares
    PROVE  /\ KingTable(rows)[s] = rows[Rank(s) + 1][FoldedFile(s)]
           /\ Rank(s) + 1 \in 1..8 /\ FoldedFile(s) \in 1..4
<1>1. Rank(s) + 1 \in 1..8 /\ FoldedFile(s) \in 1..4
  BY DEF Squares, Rank, File, FoldedFile
<1>2. KingTable(rows)[s] = rows[Rank(s) + 1][FoldedFile(s)]
  BY DEF KingTable, FoldedFile
<1> QED
  BY <1>1, <1>2

LEMMA TableHas ==
    ASSUME NEW rows, NEW r \in 1..8, NEW f \in 1..4
    PROVE  \E s \in Squares : KingTable(rows)[s] = rows[r][f]
<1> DEFINE s == 8 * (r - 1) + f - 1
<1>1. s \in Squares /\ Rank(s) + 1 = r /\ File(s) = f - 1
  BY DEF Squares, Rank, File
<1>2. FoldedFile(s) = f
  BY <1>1 DEF FoldedFile
<1> HIDE DEF s
<1> QED
  BY <1>1, <1>2, TableAt

Rows16 ==
    << <<15, 15, 14, 14>>, <<15, 15, 14, 14>>, <<13, 13, 12, 12>>, <<13, 13, 12, 12>>,
       <<11, 10, 9, 8>>, <<11, 10, 9, 8>>, <<7, 6, 5, 4>>, <<3, 2, 1, 0>> >>
Rows10 ==
    << <<9, 9, 8, 8>>, <<9, 9, 8, 8>>, <<8, 8, 7, 7>>, <<8, 8, 7, 7>>,
       <<6, 6, 5, 5>>, <<6, 6, 5, 5>>, <<4, 3, 3, 2>>, <<1, 1, 0, 0>> >>
Rows32 == [r \in 1..8 |-> [f \in 1..4 |-> 36 - 4 * r - f]]

\* The three tables agree: 32 buckets are divided as the 16 they were made from, and 10
\* are those 16 scaled.
LEMMA RowsAgree ==
    ASSUME NEW r \in 1..8, NEW f \in 1..4
    PROVE  /\ Rows16[r][f] \in 0..15 /\ Rows32[r][f] \in 0..31
           /\ LegacyBucketFor32[Rows32[r][f] + 1] = Rows16[r][f]
           /\ Rows10[r][f] = (Rows16[r][f] * 10) \div 16
<1>1. Rows32[r][f] = 36 - 4 * r - f
  BY DEF Rows32
<1>2. Rows32[r][f] \in 0..31
  BY <1>1
<1>3. CASE r = 1
  <2>1. Rows16[r] = <<15, 15, 14, 14>> /\ Rows10[r] = <<9, 9, 8, 8>>
    BY <1>3 DEF Rows16, Rows10
  <2>2. /\ LegacyBucketFor32[32] = 15
        /\ LegacyBucketFor32[31] = 15
        /\ LegacyBucketFor32[30] = 14
        /\ LegacyBucketFor32[29] = 14
    BY DEF LegacyBucketFor32
  <2>3. f \in {1, 2, 3, 4} /\ Rows32[r][f] + 1 = 33 - f
    BY <1>1, <1>3
  <2> QED
    BY <1>2, <2>1, <2>2, <2>3
<1>4. CASE r = 2
  <2>1. Rows16[r] = <<15, 15, 14, 14>> /\ Rows10[r] = <<9, 9, 8, 8>>
    BY <1>4 DEF Rows16, Rows10
  <2>2. /\ LegacyBucketFor32[28] = 15
        /\ LegacyBucketFor32[27] = 15
        /\ LegacyBucketFor32[26] = 14
        /\ LegacyBucketFor32[25] = 14
    BY DEF LegacyBucketFor32
  <2>3. f \in {1, 2, 3, 4} /\ Rows32[r][f] + 1 = 29 - f
    BY <1>1, <1>4
  <2> QED
    BY <1>2, <2>1, <2>2, <2>3
<1>5. CASE r = 3
  <2>1. Rows16[r] = <<13, 13, 12, 12>> /\ Rows10[r] = <<8, 8, 7, 7>>
    BY <1>5 DEF Rows16, Rows10
  <2>2. /\ LegacyBucketFor32[24] = 13
        /\ LegacyBucketFor32[23] = 13
        /\ LegacyBucketFor32[22] = 12
        /\ LegacyBucketFor32[21] = 12
    BY DEF LegacyBucketFor32
  <2>3. f \in {1, 2, 3, 4} /\ Rows32[r][f] + 1 = 25 - f
    BY <1>1, <1>5
  <2> QED
    BY <1>2, <2>1, <2>2, <2>3
<1>6. CASE r = 4
  <2>1. Rows16[r] = <<13, 13, 12, 12>> /\ Rows10[r] = <<8, 8, 7, 7>>
    BY <1>6 DEF Rows16, Rows10
  <2>2. /\ LegacyBucketFor32[20] = 13
        /\ LegacyBucketFor32[19] = 13
        /\ LegacyBucketFor32[18] = 12
        /\ LegacyBucketFor32[17] = 12
    BY DEF LegacyBucketFor32
  <2>3. f \in {1, 2, 3, 4} /\ Rows32[r][f] + 1 = 21 - f
    BY <1>1, <1>6
  <2> QED
    BY <1>2, <2>1, <2>2, <2>3
<1>7. CASE r = 5
  <2>1. Rows16[r] = <<11, 10, 9, 8>> /\ Rows10[r] = <<6, 6, 5, 5>>
    BY <1>7 DEF Rows16, Rows10
  <2>2. /\ LegacyBucketFor32[16] = 11
        /\ LegacyBucketFor32[15] = 10
        /\ LegacyBucketFor32[14] = 9
        /\ LegacyBucketFor32[13] = 8
    BY DEF LegacyBucketFor32
  <2>3. f \in {1, 2, 3, 4} /\ Rows32[r][f] + 1 = 17 - f
    BY <1>1, <1>7
  <2> QED
    BY <1>2, <2>1, <2>2, <2>3
<1>8. CASE r = 6
  <2>1. Rows16[r] = <<11, 10, 9, 8>> /\ Rows10[r] = <<6, 6, 5, 5>>
    BY <1>8 DEF Rows16, Rows10
  <2>2. /\ LegacyBucketFor32[12] = 11
        /\ LegacyBucketFor32[11] = 10
        /\ LegacyBucketFor32[10] = 9
        /\ LegacyBucketFor32[9] = 8
    BY DEF LegacyBucketFor32
  <2>3. f \in {1, 2, 3, 4} /\ Rows32[r][f] + 1 = 13 - f
    BY <1>1, <1>8
  <2> QED
    BY <1>2, <2>1, <2>2, <2>3
<1>9. CASE r = 7
  <2>1. Rows16[r] = <<7, 6, 5, 4>> /\ Rows10[r] = <<4, 3, 3, 2>>
    BY <1>9 DEF Rows16, Rows10
  <2>2. /\ LegacyBucketFor32[8] = 7
        /\ LegacyBucketFor32[7] = 6
        /\ LegacyBucketFor32[6] = 5
        /\ LegacyBucketFor32[5] = 4
    BY DEF LegacyBucketFor32
  <2>3. f \in {1, 2, 3, 4} /\ Rows32[r][f] + 1 = 9 - f
    BY <1>1, <1>9
  <2> QED
    BY <1>2, <2>1, <2>2, <2>3
<1>10. CASE r = 8
  <2>1. Rows16[r] = <<3, 2, 1, 0>> /\ Rows10[r] = <<1, 1, 0, 0>>
    BY <1>10 DEF Rows16, Rows10
  <2>2. /\ LegacyBucketFor32[4] = 3
        /\ LegacyBucketFor32[3] = 2
        /\ LegacyBucketFor32[2] = 1
        /\ LegacyBucketFor32[1] = 0
    BY DEF LegacyBucketFor32
  <2>3. f \in {1, 2, 3, 4} /\ Rows32[r][f] + 1 = 5 - f
    BY <1>1, <1>10
  <2> QED
    BY <1>2, <2>1, <2>2, <2>3
<1> QED
  BY <1>3, <1>4, <1>5, <1>6, <1>7, <1>8, <1>9, <1>10

LEMMA Regions ==
    ASSUME NEW s \in Squares
    PROVE  /\ KingBuckets16[s] \in 0..15 /\ KingBuckets32[s] \in 0..31
           /\ LegacyBucketFor32[KingBuckets32[s] + 1] = KingBuckets16[s]
           /\ KingBuckets10[s] = (KingBuckets16[s] * 10) \div 16
<1>1. KingBuckets16 = KingTable(Rows16) /\ KingBuckets10 = KingTable(Rows10)
  BY DEF KingBuckets16, KingBuckets10, Rows16, Rows10
<1>2. KingBuckets32 = KingTable(Rows32)
  BY DEF KingBuckets32, Rows32
<1>3. PICK r \in 1..8, f \in 1..4 :
          /\ KingBuckets16[s] = Rows16[r][f] /\ KingBuckets10[s] = Rows10[r][f]
          /\ KingBuckets32[s] = Rows32[r][f]
  BY <1>1, <1>2, TableAt
<1> QED
  BY <1>3, RowsAgree

\* No bucket is without a square.
LEMMA EveryRegion ==
    /\ \A v \in 0..15 : \E s \in Squares : KingBuckets16[s] = v
    /\ \A v \in 0..31 : \E s \in Squares : KingBuckets32[s] = v
<1>1. ASSUME NEW v \in 0..31 PROVE \E s \in Squares : KingBuckets32[s] = v
  <2>1. PICK r \in 1..8 : r = 8 - v \div 4
    OBVIOUS
  <2>2. PICK f \in 1..4 : f = 4 - (v % 4)
    OBVIOUS
  <2>3. Rows32[r][f] = v
    <3>1. Rows32[r][f] = 36 - 4 * r - f
      BY DEF Rows32
    <3> QED
      BY <2>1, <2>2, <3>1
  <2>4. KingBuckets32 = KingTable(Rows32)
    BY DEF KingBuckets32, Rows32
  <2> QED
    BY <2>3, <2>4, TableHas
<1>2. ASSUME NEW v \in 0..15 PROVE \E s \in Squares : KingBuckets16[s] = v
  <2>1. PICK b \in 0..31 : LegacyBucketFor32[b + 1] = v
    <3>1. /\ LegacyBucketFor32[1] = 0 /\ LegacyBucketFor32[2] = 1 /\ LegacyBucketFor32[3] = 2
          /\ LegacyBucketFor32[4] = 3 /\ LegacyBucketFor32[5] = 4 /\ LegacyBucketFor32[6] = 5
          /\ LegacyBucketFor32[7] = 6 /\ LegacyBucketFor32[8] = 7 /\ LegacyBucketFor32[9] = 8
          /\ LegacyBucketFor32[10] = 9 /\ LegacyBucketFor32[11] = 10 /\ LegacyBucketFor32[12] = 11
          /\ LegacyBucketFor32[17] = 12 /\ LegacyBucketFor32[19] = 13 /\ LegacyBucketFor32[25] = 14
          /\ LegacyBucketFor32[27] = 15
      BY DEF LegacyBucketFor32
    <3>2. PICK b \in 0..31 : b = IF v < 12 THEN v ELSE 2 * v - 8 + (IF v > 13 THEN 4 ELSE 0)
      OBVIOUS
    <3> QED
      BY <3>1, <3>2
  <2>2. PICK s \in Squares : KingBuckets32[s] = b
    BY <1>1
  <2> QED
    BY <2>1, <2>2, Regions
<1> QED
  BY <1>1, <1>2

LEMMA Buckets16 ==
    ASSUME NEW s \in Squares
    PROVE  KingBuckets16[s] \in 0..15 /\ KingBuckets(16)[s] = KingBuckets16[s]
<1>1. KingBuckets16[s] \in 0..15
  BY Regions
<1>2. KingBuckets(16)[s] = (KingBuckets16[s] * 16) \div 16
  BY DEF KingBuckets
<1>3. \A x \in 0..15 : (x * 16) \div 16 = x
  OBVIOUS
<1> QED
  BY <1>1, <1>2, <1>3

\* Two pieces of one board never have one row.
LEMMA FeatureApart ==
    ASSUME NEW p \in Pieces, NEW q \in Pieces, NEW king \in Squares, NEW v \in {0, 1},
           FeatureIndex(p, king, v, 16, 12) = FeatureIndex(q, king, v, 16, 12)
    PROVE  p = q
<1> DEFINE channel(x) == 6 * (IF x.color = v THEN 0 ELSE 1) + x.type - 1
           k == ToBerserk(king)
           at(x) == Oriented(ToBerserk(x.sq), k, v)
<1>1. /\ p.type \in 1..6 /\ p.color \in {0, 1} /\ p.sq \in Squares
      /\ q.type \in 1..6 /\ q.color \in {0, 1} /\ q.sq \in Squares
  BY PieceOf
<1>2. /\ k \in Squares /\ ToBerserk(p.sq) \in Squares /\ ToBerserk(q.sq) \in Squares
      /\ ToBerserk(ToBerserk(p.sq)) = p.sq /\ ToBerserk(ToBerserk(q.sq)) = q.sq
  BY <1>1, Flips
<1>3. FeatureChannel(p.type, p.color, v, 12) = channel(p) /\ FeatureChannel(q.type, q.color, v, 12) = channel(q)
  BY DEF FeatureChannel
<1>4. PICK base \in Int : base = KingBuckets(16)[Oriented(k, k, v)] * 12 * 64
  <2>1. Oriented(k, k, v) \in Squares
    BY <1>2, OrientedTurned
  <2>2. KingBuckets(16)[Oriented(k, k, v)] \in Int
    BY <2>1, Buckets16
  <2> QED
    BY <2>2
<1>5. /\ FeatureIndex(p, king, v, 16, 12) = base + channel(p) * 64 + at(p)
      /\ FeatureIndex(q, king, v, 16, 12) = base + channel(q) * 64 + at(q)
  BY <1>3, <1>4 DEF FeatureIndex
<1>6. at(p) \in 0..63 /\ at(q) \in 0..63
  BY <1>2, OrientedTurned DEF Squares
<1>7. channel(p) \in 0..11 /\ channel(q) \in 0..11
  BY <1>1
<1>8. channel(p) = channel(q) /\ at(p) = at(q)
  <2>1. PICK c \in 0..11, d \in 0..11, x \in 0..63, y \in 0..63 :
            c = channel(p) /\ d = channel(q) /\ x = at(p) /\ y = at(q)
    BY <1>6, <1>7
  <2> HIDE DEF channel, at, k
  <2>2. base + c * 64 + x = base + d * 64 + y
    BY <1>5, <2>1
  <2>3. c = d /\ x = y
    BY <2>2
  <2> QED
    BY <2>1, <2>3
<1>9. p.type = q.type /\ p.color = q.color
  <2>1. PICK t \in 1..6, u \in 1..6, c \in {0, 1}, d \in {0, 1} :
            t = p.type /\ u = q.type /\ c = p.color /\ d = q.color
    BY <1>1
  <2>2. 6 * (IF c = v THEN 0 ELSE 1) + t - 1 = 6 * (IF d = v THEN 0 ELSE 1) + u - 1
    BY <1>8, <2>1
  <2>3. (c = v <=> d = v) /\ t = u
    BY <2>2
  <2> QED
    BY <2>1, <2>3
<1>10. p.sq = q.sq
  <2>1. ToBerserk(p.sq) = ToBerserk(q.sq)
    BY <1>2, <1>8, OrientedApart
  <2> QED
    BY <1>2, <2>1
<1> QED
  BY <1>9, <1>10, SamePiece

LEMMA FeaturesApart ==
    ASSUME NEW pos, Kings(pos), IsFiniteSet(pos), NEW v \in {0, 1}
    PROVE  OneToOne(FeaturesFromPieces(pos, v, 16, 12))
<1> DEFINE f == FeaturesFromPieces(pos, v, 16, 12)
<1>1. f = [p \in pos |-> FeatureIndex(p, KingOf(pos, v), v, 16, 12)]
  BY DEF FeaturesFromPieces
<1>2. \A x, y \in pos : f[x] = f[y] => x = y
  BY <1>1, TurnedKings, FeatureApart DEF Kings
<1>3. f = [x \in DOMAIN f |-> f[x]] /\ DOMAIN f = pos
  BY <1>1
<1> HIDE DEF f
<1>4. OneToOne(f)
  BY <1>2, <1>3, ManyValues
<1> QED
  BY <1>4 DEF f

-----------------------------------------------------------------------------
(* Items of either side *)

LEMMA ItemTurned ==
    ASSUME NEW board \in SUBSET Pieces, IsFiniteSet(board), Kings(ForFeatures(board)),
           NEW mover \in {0, 1}, NEW n, NEW score, NEW wdl
    PROVE  SameItem(Item(board, mover, n, score, wdl), Item(Swapped(board), 1 - mover, n, score, wdl))
<1> DEFINE pos == ForFeatures(board)
           a == Item(board, mover, n, score, wdl)
           b == Item(Swapped(board), 1 - mover, n, score, wdl)
<1>1. ForFeatures(Swapped(board)) = Swapped(pos)
  BY SeenBoard
<1>2. PhaseScale(Swapped(board)) = PhaseScale(board)
  <2>1. \A types : Count(Swapped(board), types) = Count(board, types)
    BY SwappedCount
  <2> QED
    BY <2>1 DEF PhaseScale
<1>3. /\ a.us = FeaturesFromPieces(pos, mover, 16, 12)
      /\ a.them = FeaturesFromPieces(pos, 1 - mover, 16, 12)
      /\ a.threats = ThreatFeatures(pos, mover) /\ a.xrays = XrayFeatures(pos, mover)
      /\ a.direct = LegacyDirectFeatures(pos, mover)
      /\ a.count = n /\ a.phase = PhaseScale(board) /\ a.score = score /\ a.wdl = wdl
  BY DEF Item
<1>4. /\ b.us = FeaturesFromPieces(Swapped(pos), 1 - mover, 16, 12)
      /\ b.them = FeaturesFromPieces(Swapped(pos), 1 - (1 - mover), 16, 12)
      /\ b.threats = ThreatFeatures(Swapped(pos), 1 - mover)
      /\ b.xrays = XrayFeatures(Swapped(pos), 1 - mover)
      /\ b.direct = LegacyDirectFeatures(Swapped(pos), 1 - mover)
      /\ b.count = n /\ b.phase = PhaseScale(Swapped(board)) /\ b.score = score /\ b.wdl = wdl
  BY <1>1 DEF Item
<1> HIDE DEF a, b, pos
<1>5. Kings(pos) /\ 1 - mover \in {0, 1}
  BY DEF pos
<1>6. /\ RowSet(a.us) = RowSet(b.us) /\ RowSet(a.them) = RowSet(b.them)
      /\ RowSet(a.threats) = RowSet(b.threats) /\ RowSet(a.xrays) = RowSet(b.xrays)
      /\ RowSet(a.direct) = RowSet(b.direct)
  <2>1. RowSet(a.us) = RowSet(b.us)
    BY <1>3, <1>4, <1>5, FeaturesTurned
  <2>2. RowSet(a.them) = RowSet(b.them)
    BY <1>3, <1>4, <1>5, FeaturesTurned
  <2>3. RowSet(a.threats) = RowSet(b.threats) /\ RowSet(a.xrays) = RowSet(b.xrays)
    BY <1>3, <1>4, <1>5, ThreatsTurned
  <2>4. RowSet(a.direct) = RowSet(b.direct)
    BY <1>3, <1>4, <1>5, DirectTurned
  <2> QED
    BY <2>1, <2>2, <2>3, <2>4
<1>7. a.count = b.count /\ a.phase = b.phase /\ a.score = b.score /\ a.wdl = b.wdl
  BY <1>2, <1>3, <1>4
<1>8. SameItem(a, b)
  BY <1>6, <1>7 DEF SameItem
<1> QED
  BY <1>8 DEF a, b

-----------------------------------------------------------------------------
(* From a record to a board *)

\* A board: pieces, at most one on a square.
OnePerSquare(board) == \A p, q \in board : p.sq = q.sq => p = q
Planes == SUBSET ((0..11) \X Squares)

LEMMA DecodedPiece ==
    ASSUME NEW pl \in (0..11) \X Squares, NEW black \in BOOLEAN
    PROVE  LET p == [type |-> (pl[1] % 6) + 1, color |-> IF (pl[1] < 6) = black THEN 1 ELSE 0,
                     sq |-> IF black THEN FlipRank(FlipFile(pl[2])) ELSE FlipFile(pl[2])]
               q == [type |-> (pl[1] % 6) + 1, color |-> IF (pl[1] < 6) = (~black) THEN 1 ELSE 0,
                     sq |-> IF ~black THEN FlipRank(FlipFile(pl[2])) ELSE FlipFile(pl[2])]
           IN  p \in Pieces /\ q = Turned(p)
<1> DEFINE t == (pl[1] % 6) + 1
           c == IF (pl[1] < 6) = black THEN 1 ELSE 0
           d == IF (pl[1] < 6) = (~black) THEN 1 ELSE 0
           x == IF black THEN FlipRank(FlipFile(pl[2])) ELSE FlipFile(pl[2])
           y == IF ~black THEN FlipRank(FlipFile(pl[2])) ELSE FlipFile(pl[2])
           p == [type |-> t, color |-> c, sq |-> x]
<1>1. pl[1] \in 0..11 /\ pl[2] \in Squares
  OBVIOUS
<1>2. t \in 1..6
  BY <1>1
<1>3. c \in {0, 1} /\ d = 1 - c
  <2> DEFINE low == pl[1] < 6
  <2>1. low \in BOOLEAN
    BY <1>1
  <2>2. c = (IF low = black THEN 1 ELSE 0) /\ d = (IF low = (~black) THEN 1 ELSE 0)
    OBVIOUS
  <2>3. (low = black) <=> ~(low = (~black))
    <3> HIDE DEF low
    <3>1. CASE black = TRUE
      BY <2>1, <3>1
    <3>2. CASE black = FALSE
      BY <2>1, <3>2
    <3> QED
      BY <3>1, <3>2
  <2> HIDE DEF low, c, d
  <2>4. CASE low = black
    BY <2>2, <2>3, <2>4
  <2>5. CASE ~(low = black)
    BY <2>2, <2>3, <2>5
  <2> QED
    BY <2>4, <2>5
<1>4. x \in Squares /\ y = FlipRank(x)
  <2>1. FlipFile(pl[2]) \in Squares
    BY <1>1, Flips
  <2>2. FlipRank(FlipFile(pl[2])) \in Squares /\ FlipRank(FlipRank(FlipFile(pl[2]))) = FlipFile(pl[2])
    BY <2>1, Flips
  <2>3. CASE black
    BY <2>1, <2>2, <2>3
  <2>4. CASE ~black
    BY <2>1, <2>2, <2>4
  <2> QED
    BY <2>3, <2>4
<1> HIDE DEF t, c, d, x, y
<1>5. p \in Pieces
  BY <1>2, <1>3, <1>4 DEF Pieces
<1>6. Turned(p) = [type |-> t, color |-> d, sq |-> y]
  BY <1>3, <1>4, ExceptPiece
<1> QED
  BY <1>5, <1>6 DEF t, c, d, x, y

LEMMA Decoded ==
    ASSUME NEW planes \in Planes, NEW black \in BOOLEAN
    PROVE  /\ DecodePieces(planes, black) \in SUBSET Pieces
           /\ DecodePieces(planes, ~black) = Swapped(DecodePieces(planes, black))
           /\ IsFiniteSet(DecodePieces(planes, black))
<1> DEFINE P(pl) == [type |-> (pl[1] % 6) + 1, color |-> IF (pl[1] < 6) = black THEN 1 ELSE 0,
                     sq |-> IF black THEN FlipRank(FlipFile(pl[2])) ELSE FlipFile(pl[2])]
           Q(pl) == [type |-> (pl[1] % 6) + 1, color |-> IF (pl[1] < 6) = (~black) THEN 1 ELSE 0,
                     sq |-> IF ~black THEN FlipRank(FlipFile(pl[2])) ELSE FlipFile(pl[2])]
<1>1. \A pl \in planes : P(pl) \in Pieces /\ Q(pl) = Turned(P(pl))
  BY DecodedPiece DEF Planes
<1>2. DecodePieces(planes, black) = {P(pl) : pl \in planes}
  BY DEF DecodePieces
<1>3. DecodePieces(planes, ~black) = {Q(pl) : pl \in planes}
  BY DEF DecodePieces
<1>4. IsFiniteSet(planes)
  <2>4. 0 \in Int /\ 11 \in Int /\ 63 \in Int
    OBVIOUS
  <2>1. IsFiniteSet(0..11)
    BY <2>4, FS_Interval, Zenon
  <2>3. IsFiniteSet(Squares)
    BY <2>4, FS_Interval, Zenon DEF Squares
  <2>2. IsFiniteSet((0..11) \X Squares)
    BY <2>1, <2>3, FS_Product
  <2> QED
    BY <2>2, FS_Subset DEF Planes
<1> HIDE DEF P, Q
<1>5. DecodePieces(planes, black) \in SUBSET Pieces
  BY <1>1, <1>2
<1>6. DecodePieces(planes, ~black) = Swapped(DecodePieces(planes, black))
  <2>1. Swapped(DecodePieces(planes, black)) = {Turned(p) : p \in DecodePieces(planes, black)}
    BY <1>5, SwappedBoard
  <2>2. ASSUME NEW x PROVE x \in Swapped(DecodePieces(planes, black)) <=> \E pl \in planes : x = Turned(P(pl))
    BY <1>2, <2>1
  <2>3. ASSUME NEW x PROVE x \in DecodePieces(planes, ~black) <=> \E pl \in planes : x = Turned(P(pl))
    BY <1>1, <1>3
  <2> QED
    BY <2>2, <2>3
<1>7. IsFiniteSet(DecodePieces(planes, black))
  <2> DEFINE f == [pl \in planes |-> P(pl)]
  <2>1. f \in Surjection(planes, DecodePieces(planes, black))
    BY <1>2 DEF Surjection
  <2> QED
    BY <1>4, <2>1, FS_Surjection
<1> QED
  BY <1>5, <1>6, <1>7

LEMMA DecodedApart ==
    ASSUME NEW planes \in Planes, NEW black \in BOOLEAN, \A a, b \in planes : a[2] = b[2] => a = b
    PROVE  OnePerSquare(DecodePieces(planes, black))
<1> DEFINE P(pl) == [type |-> (pl[1] % 6) + 1, color |-> IF (pl[1] < 6) = black THEN 1 ELSE 0,
                     sq |-> IF black THEN FlipRank(FlipFile(pl[2])) ELSE FlipFile(pl[2])]
<1>1. DecodePieces(planes, black) = {P(pl) : pl \in planes}
  BY DEF DecodePieces
<1>2. ASSUME NEW a \in planes, NEW b \in planes, P(a).sq = P(b).sq PROVE a = b
  <2>1. a[2] \in Squares /\ b[2] \in Squares
    BY DEF Planes
  <2>2. FlipFile(a[2]) \in Squares /\ FlipFile(b[2]) \in Squares
        /\ FlipFile(FlipFile(a[2])) = a[2] /\ FlipFile(FlipFile(b[2])) = b[2]
    BY <2>1, Flips
  <2>3. FlipRank(FlipRank(FlipFile(a[2]))) = FlipFile(a[2])
        /\ FlipRank(FlipRank(FlipFile(b[2]))) = FlipFile(b[2])
    BY <2>2, Flips
  <2>4. FlipFile(a[2]) = FlipFile(b[2])
    BY <1>2, <2>3
  <2> QED
    BY <2>2, <2>4
<1> HIDE DEF P
<1> QED
  BY <1>1, <1>2 DEF OnePerSquare

\* chess.Board.status finds the same on either board.
LEMMA ValidTurned ==
    ASSUME NEW board \in SUBSET Pieces, IsFiniteSet(board)
    PROVE  ValidBoard(Swapped(board)) <=> ValidBoard(board)
<1>1. \A c \in {0, 1} : Cardinality({p \in Swapped(board) : p.type = King /\ p.color = c})
                          = Cardinality({p \in board : p.type = King /\ p.color = 1 - c})
  BY SwappedCount
<1>2. (\A c \in {0, 1} : Cardinality({p \in Swapped(board) : p.type = King /\ p.color = c}) = 1)
      <=> \A c \in {0, 1} : Cardinality({p \in board : p.type = King /\ p.color = c}) = 1
  <2>1. \A c \in {0, 1} : 1 - c \in {0, 1} /\ 1 - (1 - c) = c
    OBVIOUS
  <2> DEFINE K(b, c) == Cardinality({p \in b : p.type = King /\ p.color = c})
  <2>2. \A c \in {0, 1} : K(Swapped(board), c) = K(board, 1 - c)
    BY <1>1
  <2> HIDE DEF K
  <2>3. (\A c \in {0, 1} : K(Swapped(board), c) = 1) <=> \A c \in {0, 1} : K(board, c) = 1
    BY <2>1, <2>2
  <2> QED
    BY <2>3 DEF K
<1>3. (\A p \in Swapped(board) : p.type = Pawn => Rank(p.sq) \in 1..6)
      <=> \A p \in board : p.type = Pawn => Rank(p.sq) \in 1..6
  <2>1. \A p \in board : /\ Turned(p) \in Swapped(board) /\ Turned(p).type = p.type
                         /\ Rank(Turned(p).sq) \in 1..6 <=> Rank(p.sq) \in 1..6
    <3> TAKE p \in board
    <3>1. Turned(p).type = p.type /\ Turned(p).sq = FlipRank(p.sq) /\ p.sq \in Squares
      BY TurnedPiece, PieceOf
    <3>2. Rank(p.sq) \in 0..7 /\ Rank(FlipRank(p.sq)) = 7 - Rank(p.sq)
      BY <3>1, Flips
    <3>3. 7 - Rank(p.sq) \in 1..6 <=> Rank(p.sq) \in 1..6
      BY <3>2
    <3> QED
      BY <3>1, <3>2, <3>3, SwappedBoard
  <2>2. \A q \in Swapped(board) : \E p \in board : q = Turned(p)
    BY SwappedBoard
  <2> QED
    BY <2>1, <2>2
<1> QED
  BY <1>2, <1>3 DEF ValidBoard

LEMMA ValidKings ==
    ASSUME NEW board \in SUBSET Pieces, IsFiniteSet(board), ValidBoard(board)
    PROVE  Kings(board) /\ Kings(ForFeatures(board))
<1>1. ASSUME NEW c \in {0, 1} PROVE \E k \in board : IsKing(k, board, c)
  <2> DEFINE S == {p \in board : p.type = King /\ p.color = c}
  <2>1. IsFiniteSet(S) /\ Cardinality(S) = 1
    BY FS_Subset DEF ValidBoard
  <2> HIDE DEF S
  <2>2. PICK k : S = {k}
    BY <2>1, FS_Singleton
  <2> USE DEF S
  <2> QED
    BY <2>2 DEF IsKing
<1>2. ForFeatures(board) \in SUBSET Pieces /\ ForFeatures(board) = {Seen(p) : p \in board}
  BY SeenBoard
<1>3. \A p \in board : Seen(p).type = p.type /\ Seen(p).color = p.color
  BY SeenPiece
<1>4. ASSUME NEW c \in {0, 1} PROVE \E k \in ForFeatures(board) : IsKing(k, ForFeatures(board), c)
  <2>1. PICK k \in board : IsKing(k, board, c)
    BY <1>1
  <2>2. Seen(k) \in ForFeatures(board) /\ Seen(k).type = King /\ Seen(k).color = c
    BY <1>2, <1>3, <2>1 DEF IsKing
  <2>3. ASSUME NEW q \in ForFeatures(board), q.type = King, q.color = c PROVE q = Seen(k)
    <3>1. PICK p \in board : q = Seen(p)
      BY <1>2
    <3> QED
      BY <1>3, <2>1, <2>3, <3>1 DEF IsKing
  <2> QED
    BY <2>2, <2>3 DEF IsKing
<1> QED
  BY <1>1, <1>2, <1>4 DEF Kings

LEMMA FiniteSeen ==
    ASSUME NEW board, IsFiniteSet(board)
    PROVE  IsFiniteSet(ForFeatures(board))
<1> DEFINE f == [p \in board |-> Seen(p)]
<1>1. f \in Surjection(board, ForFeatures(board))
  BY DEF Surjection, ForFeatures, Seen
<1> QED
  BY <1>1, FS_Surjection

\* The squares of a board are as many as its pieces.
LEMMA SquaresOf ==
    ASSUME NEW board \in SUBSET Pieces, IsFiniteSet(board), OnePerSquare(board)
    PROVE  Cardinality({p.sq : p \in board}) = Cardinality(board)
<1> DEFINE f == [p \in board |-> p.sq]
<1>1. RowSet(f) = {p.sq : p \in board}
  BY DEF RowSet
<1>2. \A x, y \in DOMAIN f : f[x] = f[y] => x = y
  BY DEF OnePerSquare
<1>3. f = [x \in DOMAIN f |-> f[x]] /\ DOMAIN f = board
  OBVIOUS
<1> HIDE DEF f
<1> QED
  BY <1>1, <1>2, <1>3, ManyValues

-----------------------------------------------------------------------------
(* Rows and records *)

\* What convert_bin and label.py make of an LC0 record, as ConvertPosition has it.
RowWith(rec, score) ==
    [field \in DOMAIN RecordToRow(rec) \cup {"score"} |->
        IF field = "score" THEN score ELSE RecordToRow(rec)[field]]
\* What Bullet keeps of the side to move.
LEMMA RowFields ==
    ASSUME NEW rec, RecordToRow(rec).kind = "row", NEW score
    PROVE  LET row == RowWith(rec, score)
               board == DecodePieces(rec.planes, rec.black)
           IN  /\ row.board = board /\ row.black = rec.black /\ row.score = score
               /\ row.castling = DecodeCastling(rec.meta, rec.black, board)
               /\ row.result = Categorical(rec.q, rec.d, rec.black)
               /\ row.wdl = Clamp(1 + rec.q, 0, 2)
               /\ row.moves = {MapPolicy(move, board, rec.black) : move \in rec.policy}
               /\ ValidBoard(board) /\ row.result # "none"
<1> DEFINE board == DecodePieces(rec.planes, rec.black)
           result0 == Categorical(rec.q, rec.d, rec.black)
           castling == DecodeCastling(rec.meta, rec.black, board)
           wdl == Clamp(1 + rec.q, 0, 2)
           moves == {MapPolicy(move, board, rec.black) : move \in rec.policy}
           r == [kind |-> "row", board |-> board, black |-> rec.black, castling |-> castling,
                 result |-> result0, wdl |-> wdl, moves |-> moves]
<1>1. RecordToRow(rec) = IF ~rec.v6 THEN [kind |-> "unsupported"]
                         ELSE IF ~ValidBoard(board) THEN [kind |-> "invalid_board"]
                         ELSE IF result0 = "none" THEN [kind |-> "invalid"] ELSE r
  BY DEF RecordToRow
<1> HIDE DEF board, result0, castling, wdl, moves
<1>2. RecordToRow(rec) = r /\ ValidBoard(board) /\ result0 # "none"
  BY <1>1
<1> DEFINE row == RowWith(rec, score)
<1>3. DOMAIN r = {"kind", "board", "black", "castling", "result", "wdl", "moves"}
  OBVIOUS
<1>4. row = [field \in DOMAIN r \cup {"score"} |-> IF field = "score" THEN score ELSE r[field]]
  BY <1>2 DEF RowWith
<1>5. /\ row["board"] = r["board"] /\ row["black"] = r["black"] /\ row["castling"] = r["castling"]
      /\ row["result"] = r["result"] /\ row["wdl"] = r["wdl"] /\ row["moves"] = r["moves"]
      /\ row["score"] = score
  <2> HIDE DEF r, row
  <2> QED
    BY <1>3, <1>4
<1>6. /\ r["board"] = board /\ r["black"] = rec.black /\ r["castling"] = castling
      /\ r["result"] = result0 /\ r["wdl"] = wdl /\ r["moves"] = moves
  OBVIOUS
<1> HIDE DEF r, row
<1> QED
  BY <1>2, <1>5, <1>6 DEF row, board, result0, castling, wdl, moves

Results == {"1/2-1/2", "1-0", "0-1"}
LEMMA DecidedResult ==
    ASSUME NEW q \in Int, NEW d \in Int, NEW b \in BOOLEAN, q \in {-1, 1}, d = 0
    PROVE  Categorical(q, d, b) = IF (q = 1) # b THEN "1-0" ELSE "0-1"
<1>1. q # 0
  OBVIOUS
<1> QED
  BY <1>1 DEF Categorical
LEMMA ResultTurned ==
    ASSUME NEW q \in Int, NEW d \in Int, NEW black \in BOOLEAN
    PROVE  /\ Categorical(q, d, black) \in Results \cup {"none"}
           /\ Categorical(q, d, ~black) = "none" <=> Categorical(q, d, black) = "none"
           /\ Categorical(q, d, black) # "none" =>
                 /\ Clamp(1 + q, 0, 2) = WdlForSide(Categorical(q, d, black), black)
                 /\ WdlForSide(Categorical(q, d, ~black), ~black) = WdlForSide(Categorical(q, d, black), black)
<1>1. CASE q = 0 /\ d = 1
  <2>1. Categorical(q, d, black) = "1/2-1/2" /\ Categorical(q, d, ~black) = "1/2-1/2"
    BY <1>1 DEF Categorical
  <2>2. Clamp(1 + q, 0, 2) = 1
    BY <1>1 DEF Clamp
  <2> QED
    BY <2>1, <2>2 DEF WdlForSide, Results
<1>2. CASE q \in {-1, 1} /\ d = 0
  <2>1. /\ Categorical(q, d, black) = IF (q = 1) # black THEN "1-0" ELSE "0-1"
        /\ Categorical(q, d, ~black) = IF (q = 1) # ~black THEN "1-0" ELSE "0-1"
    BY <1>2, DecidedResult
  <2>2. Clamp(1 + q, 0, 2) = IF q = 1 THEN 2 ELSE 0
    BY <1>2 DEF Clamp
  <2> DEFINE x == Categorical(q, d, black)
             y == Categorical(q, d, ~black)
  <2>3. CASE black = TRUE
    <3>1. x = (IF q = 1 THEN "0-1" ELSE "1-0") /\ y = (IF q = 1 THEN "1-0" ELSE "0-1")
      BY <2>1, <2>3
    <3> HIDE DEF x, y
    <3>2. x \in Results /\ y \in Results /\ x # "none" /\ y # "none"
      BY <3>1 DEF Results
    <3>3. WdlForSide(x, black) = (IF q = 1 THEN 2 ELSE 0) /\ WdlForSide(y, ~black) = (IF q = 1 THEN 2 ELSE 0)
      BY <3>1, <2>3 DEF WdlForSide
    <3> QED
      BY <2>2, <3>2, <3>3 DEF x, y
  <2>4. CASE black = FALSE
    <3>1. x = (IF q = 1 THEN "1-0" ELSE "0-1") /\ y = (IF q = 1 THEN "0-1" ELSE "1-0")
      BY <2>1, <2>4
    <3> HIDE DEF x, y
    <3>2. x \in Results /\ y \in Results /\ x # "none" /\ y # "none"
      BY <3>1 DEF Results
    <3>3. WdlForSide(x, black) = (IF q = 1 THEN 2 ELSE 0) /\ WdlForSide(y, ~black) = (IF q = 1 THEN 2 ELSE 0)
      BY <3>1, <2>4 DEF WdlForSide
    <3> QED
      BY <2>2, <3>2, <3>3 DEF x, y
  <2> QED
    BY <2>3, <2>4
<1>4. CASE ~(q = 0 /\ d = 1) /\ ~(q \in {-1, 1} /\ d = 0)
  <2>1. Categorical(q, d, black) = "none" /\ Categorical(q, d, ~black) = "none"
    BY <1>4 DEF Categorical
  <2> QED
    BY <2>1
<1> QED
  BY <1>1, <1>2, <1>4

\* The records convert_bin reads.
LcRecords ==
    [v6 : BOOLEAN, planes : SUBSET ((0..11) \X Squares), black : BOOLEAN,
     meta : [we : SUBSET {"00", "000"}, they : SUBSET {"00", "000"}],
     policy : SUBSET [from : Squares, to : Squares, promo : STRING], q : Int, d : Int]
Other(rec) == [rec EXCEPT !.black = ~@]

LEMMA OtherRecord ==
    ASSUME NEW rec \in LcRecords
    PROVE  /\ Other(rec) \in LcRecords /\ Other(rec).black = (~rec.black) /\ Other(rec).v6 = rec.v6
           /\ Other(rec).planes = rec.planes /\ Other(rec).meta = rec.meta
           /\ Other(rec).policy = rec.policy /\ Other(rec).q = rec.q /\ Other(rec).d = rec.d
           /\ rec.black \in BOOLEAN /\ rec.planes \in Planes /\ rec.q \in Int /\ rec.d \in Int
BY DEF LcRecords, Other, Planes

\* What is a row of one colour is a row of the other, and what is not is refused alike.
LEMMA KindTurned ==
    ASSUME NEW rec \in LcRecords
    PROVE  /\ RecordToRow(Other(rec)).kind = "row" <=> RecordToRow(rec).kind = "row"
           /\ RecordToRow(rec).kind # "row" => RecordToRow(Other(rec)) = RecordToRow(rec)
<1> DEFINE board == DecodePieces(rec.planes, rec.black)
           mirror == DecodePieces(rec.planes, ~rec.black)
           m == Other(rec)
           a == Categorical(rec.q, rec.d, rec.black)
           b == Categorical(rec.q, rec.d, ~rec.black)
<1>1. ValidBoard(mirror) <=> ValidBoard(board)
  BY OtherRecord, Decoded, ValidTurned
<1>2. b = "none" <=> a = "none"
  BY OtherRecord, ResultTurned
<1>3. \E r : /\ r.kind = "row"
             /\ RecordToRow(rec) = IF ~rec.v6 THEN [kind |-> "unsupported"]
                                   ELSE IF ~ValidBoard(board) THEN [kind |-> "invalid_board"]
                                   ELSE IF a = "none" THEN [kind |-> "invalid"] ELSE r
  <2> DEFINE castling == DecodeCastling(rec.meta, rec.black, board)
             wdl == Clamp(1 + rec.q, 0, 2)
             moves == {MapPolicy(move, board, rec.black) : move \in rec.policy}
             r == [kind |-> "row", board |-> board, black |-> rec.black, castling |-> castling,
                   result |-> a, wdl |-> wdl, moves |-> moves]
  <2>1. RecordToRow(rec) = IF ~rec.v6 THEN [kind |-> "unsupported"]
                           ELSE IF ~ValidBoard(board) THEN [kind |-> "invalid_board"]
                           ELSE IF a = "none" THEN [kind |-> "invalid"] ELSE r
    BY DEF RecordToRow
  <2>2. r.kind = "row"
    OBVIOUS
  <2> HIDE DEF r, a, board
  <2> QED
    BY <2>1, <2>2
<1>4. \E r : /\ r.kind = "row"
             /\ RecordToRow(m) = IF ~rec.v6 THEN [kind |-> "unsupported"]
                                 ELSE IF ~ValidBoard(mirror) THEN [kind |-> "invalid_board"]
                                 ELSE IF b = "none" THEN [kind |-> "invalid"] ELSE r
  <2> DEFINE castling == DecodeCastling(m.meta, m.black, mirror)
             wdl == Clamp(1 + m.q, 0, 2)
             moves == {MapPolicy(move, mirror, m.black) : move \in m.policy}
             r == [kind |-> "row", board |-> mirror, black |-> m.black, castling |-> castling,
                   result |-> b, wdl |-> wdl, moves |-> moves]
  <2>0. /\ m.black = (~rec.black) /\ m.v6 = rec.v6 /\ m.planes = rec.planes /\ m.q = rec.q /\ m.d = rec.d
        /\ m.meta = rec.meta /\ m.policy = rec.policy
    BY OtherRecord
  <2>3. DecodePieces(m.planes, m.black) = mirror /\ Categorical(m.q, m.d, m.black) = b
    BY <2>0
  <2>1. RecordToRow(m) = IF ~m.v6 THEN [kind |-> "unsupported"]
                         ELSE IF ~ValidBoard(mirror) THEN [kind |-> "invalid_board"]
                         ELSE IF b = "none" THEN [kind |-> "invalid"] ELSE r
    <3> HIDE DEF m, mirror, b
    <3> QED
      BY <2>3 DEF RecordToRow
  <2>2. r.kind = "row"
    OBVIOUS
  <2> HIDE DEF r, b, mirror, m
  <2> QED
    BY <2>0, <2>1, <2>2
<1> HIDE DEF board, mirror, a, b, m
<1>5. PICK r : /\ r.kind = "row"
               /\ RecordToRow(rec) = IF ~rec.v6 THEN [kind |-> "unsupported"]
                                     ELSE IF ~ValidBoard(board) THEN [kind |-> "invalid_board"]
                                     ELSE IF a = "none" THEN [kind |-> "invalid"] ELSE r
  BY <1>3
<1>6. PICK s : /\ s.kind = "row"
               /\ RecordToRow(m) = IF ~rec.v6 THEN [kind |-> "unsupported"]
                                   ELSE IF ~ValidBoard(mirror) THEN [kind |-> "invalid_board"]
                                   ELSE IF b = "none" THEN [kind |-> "invalid"] ELSE s
  BY <1>4
<1> QED
  BY <1>1, <1>2, <1>5, <1>6 DEF m

PiecesOf(board) ==
    [s \in {p.sq : p \in board} |-> LET p == CHOOSE p \in board : p.sq = s IN p.type - 1 + 8 * p.color]
\* The board as the side to move sees it, which is the record's.
Facing(row) == IF row.black THEN Swapped(row.board) ELSE row.board

Bullet(row) == BulletRecord(row, FALSE)
Faced(row) ==
    [pieces |-> PiecesOf(Facing(row)), score |-> row.score, result |-> WdlForSide(row.result, row.black),
     ksq |-> KingOf(Facing(row), 0), oppKsq |-> FlipRank(KingOf(Facing(row), 1))]

LEMMA BulletOf ==
    ASSUME NEW row, row.black \in BOOLEAN, row.score \in Int, row.result \in Results
    PROVE  Bullet(row) = Faced(row)
<1> DEFINE board == Facing(row)
           score == WhiteScore(row, FALSE)
           s == IF row.black THEN -score ELSE score
           w == IF row.black THEN 2 - WhiteResult(row.result) ELSE WhiteResult(row.result)
<1>1. score = IF row.black THEN -row.score ELSE row.score
  BY DEF WhiteScore
<1>2. s = row.score
  <2>1. \A n \in Int : -(-n) = n
    OBVIOUS
  <2> HIDE DEF score
  <2> QED
    BY <1>1, <2>1
<1>3. w = WdlForSide(row.result, row.black)
  BY DEF WhiteResult, WdlForSide, Results
<1>4. BulletRecord(row, FALSE) =
          [pieces |-> PiecesOf(board), score |-> s, result |-> w,
           ksq |-> KingOf(board, 0), oppKsq |-> FlipRank(KingOf(board, 1))]
  BY DEF BulletRecord, PiecesOf, KingOf, Facing
<1> HIDE DEF s, w, board
<1>5. BulletRecord(row, FALSE) =
          [pieces |-> PiecesOf(board), score |-> row.score, result |-> WdlForSide(row.result, row.black),
           ksq |-> KingOf(board, 0), oppKsq |-> FlipRank(KingOf(board, 1))]
  BY <1>2, <1>3, <1>4
<1> QED
  BY <1>5 DEF board, Faced, Bullet

\* A board out of a record is the board that went in.
LEMMA BoardRead ==
    ASSUME NEW board \in SUBSET Pieces, OnePerSquare(board), NEW record, record.pieces = PiecesOf(board)
    PROVE  BoardOf(record) = board /\ DOMAIN record.pieces = {p.sq : p \in board}
<1>1. DOMAIN record.pieces = {p.sq : p \in board}
  BY DEF PiecesOf
<1>2. ASSUME NEW p \in board PROVE record.pieces[p.sq] = p.type - 1 + 8 * p.color
  <2>1. (CHOOSE q \in board : q.sq = p.sq) = p
    <3> DEFINE q == CHOOSE q \in board : q.sq = p.sq
    <3>1. q \in board /\ q.sq = p.sq
      OBVIOUS
    <3> QED
      BY <3>1 DEF OnePerSquare
  <2>2. p.sq \in {x.sq : x \in board}
    OBVIOUS
  <2>3. PiecesOf(board)[p.sq] = LET q == CHOOSE q \in board : q.sq = p.sq IN q.type - 1 + 8 * q.color
    BY <2>2 DEF PiecesOf
  <2> QED
    BY <2>1, <2>3
<1> DEFINE P(s) == [type |-> (record.pieces[s] % 8) + 1, color |-> record.pieces[s] \div 8, sq |-> s]
<1>3. ASSUME NEW p \in board PROVE P(p.sq) = p
  <2>1. PICK t \in 1..6, c \in {0, 1}, s \in Squares : t = p.type /\ c = p.color /\ s = p.sq
                                          /\ p = [type |-> t, color |-> c, sq |-> s]
    BY PieceOf
  <2>2. record.pieces[s] = t - 1 + 8 * c
    BY <1>2, <2>1
  <2>3. (t - 1 + 8 * c) % 8 = t - 1 /\ (t - 1 + 8 * c) \div 8 = c
    <3>1. CASE c = 0
      BY <3>1
    <3>2. CASE c = 1
      BY <3>2
    <3> QED
      BY <3>1, <3>2
  <2>4. t - 1 + 1 = t
    OBVIOUS
  <2>5. P(s) = [type |-> t, color |-> c, sq |-> s]
    BY <2>2, <2>3, <2>4
  <2> QED
    BY <2>1, <2>5
<1>4. BoardOf(record) = {P(s) : s \in DOMAIN record.pieces}
  BY DEF BoardOf
<1> HIDE DEF P
<1>5. BoardOf(record) = board
  <2>1. ASSUME NEW x PROVE x \in BoardOf(record) <=> \E p \in board : x = P(p.sq)
    BY <1>1, <1>4
  <2> QED
    BY <1>3, <2>1
<1> QED
  BY <1>1, <1>5

\* Castling rights keep their rook when the colours change.
LEMMA CornerTurned ==
    ASSUME NEW c \in {0, 1}, NEW side \in {"00", "000"}
    PROVE  /\ Corner(c, side) \in {0, 7, 56, 63}
           /\ Corner(1 - c, side) = FlipRank(Corner(c, side))
<1>1. CASE c = 0 /\ side = "00"
  BY <1>1 DEF Corner, FlipRank, Rank, File
<1>2. CASE c = 0 /\ side = "000"
  BY <1>2 DEF Corner, FlipRank, Rank, File
<1>3. CASE c = 1 /\ side = "00"
  BY <1>3 DEF Corner, FlipRank, Rank, File
<1>4. CASE c = 1 /\ side = "000"
  BY <1>4 DEF Corner, FlipRank, Rank, File
<1> QED
  BY <1>1, <1>2, <1>3, <1>4

\* The color of a corner, and what has to be at home for its right to stay.
HomeOf(c) == IF c < 8 THEN 0 ELSE 1
AtHome(c, board) ==
    /\ [type |-> Rook, color |-> HomeOf(c), sq |-> c] \in board
    /\ [type |-> King, color |-> HomeOf(c), sq |-> 56 * HomeOf(c) + 4] \in board
Named(meta, mover) ==
    {Corner(mover, side) : side \in meta.we} \cup {Corner(1 - mover, side) : side \in meta.they}

LEMMA AtHomeTurned ==
    ASSUME NEW board \in SUBSET Pieces, NEW c \in {0, 7, 56, 63}
    PROVE  AtHome(FlipRank(c), Swapped(board)) <=> AtHome(c, board)
<1>1. /\ c \in Squares /\ HomeOf(c) \in {0, 1} /\ HomeOf(FlipRank(c)) = 1 - HomeOf(c)
      /\ 56 * HomeOf(c) + 4 \in Squares
      /\ FlipRank(56 * HomeOf(c) + 4) = 56 * (1 - HomeOf(c)) + 4
  <2>1. CASE c = 0
    BY <2>1 DEF HomeOf, FlipRank, Rank, File, Squares
  <2>2. CASE c = 7
    BY <2>2 DEF HomeOf, FlipRank, Rank, File, Squares
  <2>3. CASE c = 56
    BY <2>3 DEF HomeOf, FlipRank, Rank, File, Squares
  <2>4. CASE c = 63
    BY <2>4 DEF HomeOf, FlipRank, Rank, File, Squares
  <2> QED
    BY <2>1, <2>2, <2>3, <2>4
<1> DEFINE h == HomeOf(c)
           k == 56 * h + 4
           rook == [type |-> Rook, color |-> h, sq |-> c]
           king == [type |-> King, color |-> h, sq |-> k]
<1>3. rook \in Pieces /\ king \in Pieces
  BY <1>1 DEF Pieces, Rook, King
<1>8. /\ rook.type = Rook /\ rook.color = h /\ rook.sq = c
      /\ king.type = King /\ king.color = h /\ king.sq = k
  OBVIOUS
<1>2. /\ Turned(rook) = [type |-> Rook, color |-> 1 - h, sq |-> FlipRank(c)]
      /\ Turned(king) = [type |-> King, color |-> 1 - h, sq |-> FlipRank(k)]
  <2> HIDE DEF rook, king, h, k
  <2> QED
    BY <1>3, <1>8, ExceptTurned
<1> HIDE DEF rook, king
<1>4. (Turned(rook) \in Swapped(board) <=> rook \in board) /\ (Turned(king) \in Swapped(board) <=> king \in board)
  BY <1>3, SwappedBoard
<1>5. AtHome(c, board) <=> rook \in board /\ king \in board
  BY DEF AtHome, rook, king
<1>6. AtHome(FlipRank(c), Swapped(board)) <=> Turned(rook) \in Swapped(board) /\ Turned(king) \in Swapped(board)
  BY <1>1, <1>2 DEF AtHome
<1> QED
  BY <1>4, <1>5, <1>6

LEMMA CastlingTurned ==
    ASSUME NEW meta \in [we : SUBSET {"00", "000"}, they : SUBSET {"00", "000"}],
           NEW black \in BOOLEAN, NEW board \in SUBSET Pieces
    PROVE  DecodeCastling(meta, ~black, Swapped(board)) = {FlipRank(c) : c \in DecodeCastling(meta, black, board)}
<1> DEFINE mover == IF black THEN 1 ELSE 0
<1>1. /\ DecodeCastling(meta, black, board) = {c \in Named(meta, mover) : AtHome(c, board)}
      /\ DecodeCastling(meta, ~black, Swapped(board)) = {c \in Named(meta, 1 - mover) : AtHome(c, Swapped(board))}
  <2>1. DecodeCastling(meta, black, board) = {c \in Named(meta, mover) : AtHome(c, board)}
    BY DEF DecodeCastling, Named, AtHome, HomeOf
  <2>2. (IF ~black THEN 1 ELSE 0) = 1 - mover
    OBVIOUS
  <2>3. DecodeCastling(meta, ~black, Swapped(board)) =
            {c \in Named(meta, IF ~black THEN 1 ELSE 0) : AtHome(c, Swapped(board))}
    BY DEF DecodeCastling, Named, AtHome, HomeOf
  <2> QED
    BY <2>1, <2>2, <2>3
<1>2. mover \in {0, 1} /\ 1 - mover \in {0, 1} /\ 1 - (1 - mover) = mover
  OBVIOUS
<1> HIDE DEF mover
<1>3. meta.we \subseteq {"00", "000"} /\ meta.they \subseteq {"00", "000"}
  OBVIOUS
<1>4. ASSUME NEW v \in {0, 1}, NEW c \in Named(meta, v)
      PROVE  c \in {0, 7, 56, 63} /\ FlipRank(c) \in Named(meta, 1 - v) /\ FlipRank(FlipRank(c)) = c
  <2>1. c \in {0, 7, 56, 63} /\ FlipRank(c) \in Named(meta, 1 - v)
    <3>1. CASE \E side \in meta.we : c = Corner(v, side)
      <4>1. PICK side \in meta.we : c = Corner(v, side)
        BY <3>1
      <4>2. c \in {0, 7, 56, 63} /\ Corner(1 - v, side) = FlipRank(c)
        BY <4>1, <1>3, CornerTurned
      <4> QED
        BY <4>1, <4>2 DEF Named
    <3>2. CASE \E side \in meta.they : c = Corner(1 - v, side)
      <4>1. PICK side \in meta.they : c = Corner(1 - v, side)
        BY <3>2
      <4>2. 1 - v \in {0, 1} /\ side \in {"00", "000"}
        BY <1>3
      <4>3. c \in {0, 7, 56, 63} /\ Corner(1 - (1 - v), side) = FlipRank(c)
        BY <4>1, <4>2, CornerTurned
      <4> QED
        BY <4>1, <4>3 DEF Named
    <3> QED
      BY <3>1, <3>2 DEF Named
  <2>2. c \in Squares
    BY <2>1 DEF Squares
  <2> QED
    BY <2>1, <2>2, Flips
<1>5. ASSUME NEW c \in Named(meta, mover), AtHome(c, board)
      PROVE  FlipRank(c) \in Named(meta, 1 - mover) /\ AtHome(FlipRank(c), Swapped(board))
  BY <1>2, <1>4, <1>5, AtHomeTurned
<1>6. ASSUME NEW c \in Named(meta, 1 - mover), AtHome(c, Swapped(board))
      PROVE  \E e \in Named(meta, mover) : AtHome(e, board) /\ c = FlipRank(e)
  <2> DEFINE e == FlipRank(c)
  <2>1. e \in Named(meta, 1 - (1 - mover)) /\ c = FlipRank(e) /\ c \in {0, 7, 56, 63}
    BY <1>2, <1>4
  <2>2. e \in Named(meta, mover)
    BY <2>1, <1>2
  <2>3. e \in {0, 7, 56, 63}
    BY <2>2, <1>2, <1>4
  <2>4. AtHome(e, board)
    BY <2>1, <2>3, <1>6, AtHomeTurned
  <2> QED
    BY <2>1, <2>2, <2>4
<1> QED
  BY <1>1, <1>5, <1>6

\* Moves are turned with the board, and a promotion is one on either.
LEMMA MoveTurned ==
    ASSUME NEW board \in SUBSET Pieces, NEW black \in BOOLEAN,
           NEW move \in [from : Squares, to : Squares, promo : STRING]
    PROVE  MapPolicy(move, Swapped(board), ~black) =
               [MapPolicy(move, board, black) EXCEPT !.from = FlipRank(@), !.to = FlipRank(@)]
<1> DEFINE turn(b, s) == IF b THEN FlipRank(s) ELSE s
           last(color) == IF color = 0 THEN 7 ELSE 0
           becomes(pos, b) == /\ move.promo = "none"
                              /\ \E p \in pos : /\ p.sq = turn(b, move.from) /\ p.type = Pawn
                                                /\ Rank(turn(b, move.to)) = last(p.color)
           promo(pos, b) == IF becomes(pos, b) THEN "n" ELSE move.promo
<1>1. /\ MapPolicy(move, board, black) =
             [from |-> turn(black, move.from), to |-> turn(black, move.to), promo |-> promo(board, black)]
      /\ MapPolicy(move, Swapped(board), ~black) =
             [from |-> turn(~black, move.from), to |-> turn(~black, move.to), promo |-> promo(Swapped(board), ~black)]
  BY DEF MapPolicy
<1>2. ASSUME NEW s \in Squares, NEW b \in BOOLEAN
      PROVE  /\ turn(b, s) \in Squares /\ turn(~b, s) = FlipRank(turn(b, s))
             /\ Rank(turn(~b, s)) = 7 - Rank(turn(b, s)) /\ Rank(turn(b, s)) \in 0..7
  BY Flips
<1>3. ASSUME NEW pos \in SUBSET Pieces, NEW b \in BOOLEAN, becomes(pos, b)
      PROVE  becomes(Swapped(pos), ~b)
  <2>1. PICK p \in pos : /\ p.sq = turn(b, move.from) /\ p.type = Pawn
                         /\ Rank(turn(b, move.to)) = last(p.color)
    BY <1>3
  <2>2. /\ Turned(p) \in Swapped(pos) /\ Turned(p).type = Pawn
        /\ Turned(p).sq = FlipRank(turn(b, move.from)) /\ Turned(p).color = 1 - p.color
        /\ p.color \in {0, 1}
    BY <2>1, TurnedPiece, SwappedBoard, PieceOf
  <2>3. turn(~b, move.from) = FlipRank(turn(b, move.from)) /\ Rank(turn(~b, move.to)) = 7 - Rank(turn(b, move.to))
    BY <1>2
  <2>4. 7 - last(p.color) = last(1 - p.color)
    BY <2>2
  <2> HIDE DEF turn, last
  <2>5. Rank(turn(~b, move.to)) = last(Turned(p).color)
    BY <2>1, <2>2, <2>3, <2>4
  <2> QED
    BY <1>3, <2>2, <2>3, <2>5
<1>4. promo(Swapped(board), ~black) = promo(board, black)
  <2> HIDE DEF becomes
  <2>1. becomes(board, black) => becomes(Swapped(board), ~black)
    BY <1>3
  <2>2. becomes(Swapped(board), ~black) => becomes(board, black)
    <3>1. Swapped(board) \in SUBSET Pieces /\ Swapped(Swapped(board)) = board /\ ~~black = black
      BY SwappedBoard
    <3>2. becomes(Swapped(board), ~black) => becomes(Swapped(Swapped(board)), ~~black)
      BY <3>1, <1>3
    <3> QED
      BY <3>1, <3>2
  <2> QED
    BY <2>1, <2>2
<1>5. turn(~black, move.from) = FlipRank(turn(black, move.from)) /\ turn(~black, move.to) = FlipRank(turn(black, move.to))
  BY <1>2
<1> HIDE DEF turn, promo
<1> DEFINE f == turn(black, move.from)
           t == turn(black, move.to)
           r == promo(board, black)
<1> HIDE DEF f, t, r
<1>6. [[from |-> f, to |-> t, promo |-> r] EXCEPT !.from = FlipRank(@), !.to = FlipRank(@)] =
          [from |-> FlipRank(f), to |-> FlipRank(t), promo |-> r]
  <2> DEFINE g == FlipRank(f)
             u == FlipRank(t)
             m == [from |-> f, to |-> t, promo |-> r]
  <2>1. m.from = f /\ m.to = t
    OBVIOUS
  <2>2. [m EXCEPT !.from = FlipRank(@), !.to = FlipRank(@)] = [[m EXCEPT !.from = g] EXCEPT !.to = u]
    OBVIOUS
  <2> HIDE DEF g, u
  <2>3. [m EXCEPT !.from = g] = [from |-> g, to |-> t, promo |-> r]
    OBVIOUS
  <2>4. [[from |-> g, to |-> t, promo |-> r] EXCEPT !.to = u] = [from |-> g, to |-> u, promo |-> r]
    OBVIOUS
  <2>5. [[m EXCEPT !.from = g] EXCEPT !.to = u] = [from |-> g, to |-> u, promo |-> r]
    BY <2>3, <2>4
  <2> QED
    BY <2>2, <2>5 DEF g, u
<1> QED
  BY <1>1, <1>4, <1>5, <1>6 DEF f, t, r

-----------------------------------------------------------------------------
(* Either side of a position *)

\* What ConvertPosition reports of a record.
ItemsOf(rec, score) ==
    [kind |-> "items", row |-> RowWith(rec, score), record |-> Bullet(RowWith(rec, score)),
     read |-> ItemOfRecord(Bullet(RowWith(rec, score))),
     item |-> ItemOfRow(RowWith(rec, score))]
OneToASquare(rec) == \A a, b \in rec.planes : a[2] = b[2] => a = b

\* A row of a record is one of a board, with what its result is to the side to move.
LEMMA RowOfRecord ==
    ASSUME NEW rec \in LcRecords, OneToASquare(rec), RecordToRow(rec).kind = "row", NEW score \in Int
    PROVE  LET row == RowWith(rec, score)
           IN  /\ row.board \in SUBSET Pieces /\ IsFiniteSet(row.board) /\ OnePerSquare(row.board)
               /\ Kings(row.board) /\ Kings(ForFeatures(row.board))
               /\ row.black \in BOOLEAN /\ row.score \in Int /\ row.result \in Results
               /\ row.wdl = WdlForSide(row.result, row.black)
<1> DEFINE row == RowWith(rec, score)
           board == DecodePieces(rec.planes, rec.black)
<1>1. /\ rec.black \in BOOLEAN /\ rec.planes \in Planes /\ rec.q \in Int /\ rec.d \in Int
  BY OtherRecord
<1>2. /\ row.board = board /\ row.black = rec.black /\ row.score = score
      /\ row.result = Categorical(rec.q, rec.d, rec.black) /\ row.wdl = Clamp(1 + rec.q, 0, 2)
      /\ ValidBoard(board) /\ row.result # "none"
  BY RowFields
<1> HIDE DEF row, board
<1>3. board \in SUBSET Pieces /\ IsFiniteSet(board)
  BY <1>1, Decoded DEF board
<1>4. OnePerSquare(board)
  BY <1>1, DecodedApart DEF board, OneToASquare
<1>5. Kings(board) /\ Kings(ForFeatures(board))
  BY <1>2, <1>3, ValidKings
<1>6. row.result \in Results /\ row.wdl = WdlForSide(row.result, row.black)
  BY <1>1, <1>2, ResultTurned
<1> QED
  BY <1>1, <1>2, <1>3, <1>4, <1>5, <1>6 DEF row

\* The row of the other colour is the row turned.
LEMMA RowsTurned ==
    ASSUME NEW rec \in LcRecords, RecordToRow(rec).kind = "row", NEW score \in Int
    PROVE  LET a == RowWith(rec, score)
               b == RowWith(Other(rec), score)
           IN  /\ b.board = Swapped(a.board) /\ b.black = (~a.black) /\ b.score = a.score /\ b.wdl = a.wdl
               /\ b.castling = {FlipRank(c) : c \in a.castling}
               /\ b.moves = {[move EXCEPT !.from = FlipRank(@), !.to = FlipRank(@)] : move \in a.moves}
<1> DEFINE a == RowWith(rec, score)
           o == Other(rec)
           b == RowWith(o, score)
           board == DecodePieces(rec.planes, rec.black)
<1>1. /\ o \in LcRecords /\ o.black = (~rec.black) /\ o.planes = rec.planes /\ o.meta = rec.meta
      /\ o.policy = rec.policy /\ o.q = rec.q
      /\ rec.black \in BOOLEAN /\ rec.planes \in Planes
  BY OtherRecord
<1>2. RecordToRow(o).kind = "row"
  BY KindTurned
<1>3. /\ a.board = board /\ a.black = rec.black /\ a.score = score
      /\ a.castling = DecodeCastling(rec.meta, rec.black, board) /\ a.wdl = Clamp(1 + rec.q, 0, 2)
      /\ a.moves = {MapPolicy(move, board, rec.black) : move \in rec.policy}
  BY RowFields
<1> DEFINE mirror == DecodePieces(o.planes, o.black)
<1>4. /\ b.board = mirror /\ b.black = o.black /\ b.score = score
      /\ b.castling = DecodeCastling(o.meta, o.black, mirror) /\ b.wdl = Clamp(1 + o.q, 0, 2)
      /\ b.moves = {MapPolicy(move, mirror, o.black) : move \in o.policy}
  BY <1>2, RowFields
<1>5. mirror = Swapped(board) /\ board \in SUBSET Pieces
  BY <1>1, Decoded
<1>6. /\ rec.meta \in [we : SUBSET {"00", "000"}, they : SUBSET {"00", "000"}]
      /\ rec.policy \subseteq [from : Squares, to : Squares, promo : STRING]
  BY DEF LcRecords
<1> HIDE DEF a, b, o, board, mirror
<1>7. b.castling = {FlipRank(c) : c \in a.castling}
  <2>1. DecodeCastling(rec.meta, ~rec.black, Swapped(board)) =
            {FlipRank(c) : c \in DecodeCastling(rec.meta, rec.black, board)}
    BY <1>1, <1>5, <1>6, CastlingTurned
  <2>2. b.castling = DecodeCastling(rec.meta, ~rec.black, Swapped(board))
    BY <1>1, <1>4, <1>5
  <2> QED
    BY <1>3, <2>1, <2>2
<1>8. b.moves = {[move EXCEPT !.from = FlipRank(@), !.to = FlipRank(@)] : move \in a.moves}
  <2> DEFINE T(m) == [m EXCEPT !.from = FlipRank(@), !.to = FlipRank(@)]
             M(move) == MapPolicy(move, board, rec.black)
             N(move) == MapPolicy(move, Swapped(board), ~rec.black)
  <2>1. ASSUME NEW move \in rec.policy PROVE N(move) = T(M(move))
    <3>1. move \in [from : Squares, to : Squares, promo : STRING]
      BY <1>6
    <3>2. PICK black \in BOOLEAN : black = rec.black
      BY <1>1
    <3>3. board \in SUBSET Pieces
      BY <1>5
    <3>4. MapPolicy(move, Swapped(board), ~black) =
              [MapPolicy(move, board, black) EXCEPT !.from = FlipRank(@), !.to = FlipRank(@)]
      BY <3>1, <3>3, MoveTurned
    <3> QED
      BY <3>2, <3>4
  <2>2. a.moves = {M(move) : move \in rec.policy} /\ b.moves = {N(move) : move \in rec.policy}
    BY <1>1, <1>3, <1>4, <1>5
  <2>3. b.moves = {T(m) : m \in a.moves}
    <3> HIDE DEF M, N, T
    <3> QED
      BY <2>1, <2>2
  <2> QED
    BY <2>3
<1>9. b.board = Swapped(a.board) /\ b.black = (~a.black) /\ b.score = a.score /\ b.wdl = a.wdl
  BY <1>1, <1>3, <1>4, <1>5
<1> QED
  BY <1>7, <1>8, <1>9 DEF a, b, o

\* A row is an item, and so is what its record is read back as.
LEMMA RowItem ==
    ASSUME NEW row, row.black \in BOOLEAN
    PROVE  ItemOfRow(row) =
               Item(row.board, IF row.black THEN 1 ELSE 0, Cardinality(row.board), row.score, row.wdl)
BY DEF ItemOfRow

LEMMA RecordItem ==
    ASSUME NEW row, row.board \in SUBSET Pieces, IsFiniteSet(row.board), OnePerSquare(row.board),
           row.black \in BOOLEAN, row.score \in Int, row.result \in Results,
           row.wdl = WdlForSide(row.result, row.black)
    PROVE  ItemOfRecord(Bullet(row)) =
               Item(Facing(row), 0, Cardinality(row.board), row.score, row.wdl)
<1> DEFINE record == Bullet(row)
           facing == Facing(row)
<1>1. /\ record.pieces = PiecesOf(facing) /\ record.score = row.score
      /\ record.result = WdlForSide(row.result, row.black)
  <2>1. record = Faced(row)
    BY BulletOf
  <2> HIDE DEF record, facing
  <2> QED
    BY <2>1 DEF Faced, facing
<1>2. /\ facing \in SUBSET Pieces /\ IsFiniteSet(facing) /\ OnePerSquare(facing)
      /\ Cardinality(facing) = Cardinality(row.board)
  <2>1. CASE row.black = FALSE
    BY <2>1 DEF Facing
  <2>2. CASE row.black = TRUE
    <3>1. facing = Swapped(row.board)
      BY <2>2 DEF Facing
    <3>2. OnePerSquare(Swapped(row.board))
      <4> SUFFICES ASSUME NEW p \in Swapped(row.board), NEW q \in Swapped(row.board), p.sq = q.sq
                   PROVE  p = q
        BY DEF OnePerSquare
      <4>1. PICK u \in row.board, v \in row.board : p = Turned(u) /\ q = Turned(v)
        BY SwappedBoard
      <4>2. /\ p.sq = FlipRank(u.sq) /\ q.sq = FlipRank(v.sq) /\ u.sq \in Squares /\ v.sq \in Squares
        BY <4>1, TurnedPiece, PieceOf
      <4>3. FlipRank(FlipRank(u.sq)) = u.sq /\ FlipRank(FlipRank(v.sq)) = v.sq
        BY <4>2, Flips
      <4>4. u.sq = v.sq
        BY <4>2, <4>3
      <4> QED
        BY <4>1, <4>4 DEF OnePerSquare
    <3> QED
      BY <3>1, <3>2, SwappedBoard, SwappedSize
  <2> QED
    BY <2>1, <2>2
<1> HIDE DEF record, facing
<1>3. BoardOf(record) = facing /\ DOMAIN record.pieces = {p.sq : p \in facing}
  BY <1>1, <1>2, BoardRead
<1>4. Cardinality(DOMAIN record.pieces) = Cardinality(row.board)
  BY <1>2, <1>3, SquaresOf
<1>5. ItemOfRecord(record) =
          Item(BoardOf(record), 0, Cardinality(DOMAIN record.pieces), record.score, record.result)
  BY DEF ItemOfRecord
<1>6. ItemOfRecord(record) = Item(facing, 0, Cardinality(row.board), row.score, row.wdl)
  BY <1>1, <1>3, <1>4, <1>5
<1> QED
  BY <1>6 DEF record, facing

LEMMA OwnItem ==
    ASSUME NEW board, NEW mover, NEW n, NEW score, NEW wdl
    PROVE  /\ SameItem(Item(board, mover, n, score, wdl), Item(board, mover, n, score, wdl))
           /\ Item(board, mover, n, score, wdl).us = FeaturesFromPieces(ForFeatures(board), mover, 16, 12)
           /\ Item(board, mover, n, score, wdl).them = FeaturesFromPieces(ForFeatures(board), 1 - mover, 16, 12)
BY DEF SameItem, Item

\* Both rows of a position give one record and one item, and the record gives it back.
LEMMA SidesOfPosition ==
    ASSUME NEW rec \in LcRecords, OneToASquare(rec), RecordToRow(rec).kind = "row", NEW score \in Int
    PROVE  LET a == ItemsOf(rec, score)
               b == ItemsOf(Other(rec), score)
           IN  /\ SameItem(a.item, b.item) /\ SameItem(a.item, a.read) /\ a.record = b.record
               /\ OneToOne(a.item.us) /\ OneToOne(a.item.them)
<1> DEFINE r == RowWith(rec, score)
           s == RowWith(Other(rec), score)
           board == r.board
           mover == IF r.black THEN 1 ELSE 0
           n == Cardinality(board)
<1>1. /\ Other(rec) \in LcRecords /\ OneToASquare(Other(rec)) /\ RecordToRow(Other(rec)).kind = "row"
  BY OtherRecord, KindTurned DEF OneToASquare
<1>2. /\ r.board \in SUBSET Pieces /\ IsFiniteSet(r.board) /\ OnePerSquare(r.board)
      /\ Kings(r.board) /\ Kings(ForFeatures(r.board))
      /\ r.black \in BOOLEAN /\ r.score \in Int /\ r.result \in Results
      /\ r.wdl = WdlForSide(r.result, r.black)
  BY RowOfRecord
<1>3. s.black \in BOOLEAN /\ s.score \in Int /\ s.result \in Results /\ s.wdl = WdlForSide(s.result, s.black)
  BY <1>1, RowOfRecord
<1>4. s.board = Swapped(board) /\ s.black = (~r.black) /\ s.score = r.score /\ s.wdl = r.wdl
  BY RowsTurned
<1>5. /\ ItemsOf(rec, score).item = ItemOfRow(r) /\ ItemsOf(Other(rec), score).item = ItemOfRow(s)
      /\ ItemsOf(rec, score).record = Bullet(r)
      /\ ItemsOf(Other(rec), score).record = Bullet(s)
      /\ ItemsOf(rec, score).read = ItemOfRecord(Bullet(r))
  BY DEF ItemsOf
<1> HIDE DEF r, s
<1>6. mover \in {0, 1} /\ 1 - mover \in {0, 1} /\ (IF s.black THEN 1 ELSE 0) = 1 - mover
  <2>1. CASE r.black
    <3>1. mover = 1 /\ ~s.black
      BY <2>1, <1>4
    <3> QED
      BY <3>1
  <2>2. CASE ~r.black
    <3>1. mover = 0 /\ s.black
      BY <2>2, <1>4
    <3> QED
      BY <3>1
  <2> QED
    BY <2>1, <2>2
<1>7. ItemOfRow(r) = Item(board, mover, n, r.score, r.wdl)
  BY <1>2, RowItem
<1>8. ItemOfRow(s) = Item(Swapped(board), 1 - mover, n, r.score, r.wdl)
  <2>1. Cardinality(Swapped(board)) = n
    BY <1>2, SwappedSize
  <2>2. ItemOfRow(s) = Item(s.board, IF s.black THEN 1 ELSE 0, Cardinality(s.board), s.score, s.wdl)
    BY <1>3, RowItem
  <2> HIDE DEF n, mover, board
  <2> QED
    BY <1>4, <1>6, <2>1, <2>2
<1>9. SameItem(ItemOfRow(r), ItemOfRow(s))
  <2>1. SameItem(Item(board, mover, n, r.score, r.wdl), Item(Swapped(board), 1 - mover, n, r.score, r.wdl))
    <3> HIDE DEF mover, n
    <3> QED
      BY <1>2, <1>6, ItemTurned
  <2> QED
    BY <1>7, <1>8, <2>1
<1>10. ItemOfRecord(Bullet(r)) = Item(Facing(r), 0, n, r.score, r.wdl)
  BY <1>2, RecordItem
<1>11. SameItem(ItemOfRow(r), ItemOfRecord(Bullet(r)))
  <2>1. CASE ~r.black
    <3>1. Facing(r) = board /\ mover = 0
      BY <2>1 DEF Facing
    <3>2. ItemOfRecord(Bullet(r)) = ItemOfRow(r)
      BY <1>7, <1>10, <3>1
    <3> QED
      BY <1>7, <3>2, OwnItem
  <2>2. CASE r.black
    <3>1. Facing(r) = Swapped(board) /\ 1 - mover = 0
      BY <2>2 DEF Facing
    <3>2. ItemOfRecord(Bullet(r)) = ItemOfRow(s)
      <4> HIDE DEF mover, board, n
      <4> QED
        BY <1>8, <1>10, <3>1
    <3> QED
      BY <1>9, <3>2
  <2> QED
    BY <2>1, <2>2
<1>12. Bullet(r) = Bullet(s)
  <2>1. Facing(s) = Facing(r)
    BY <1>2, <1>4, SwappedBoard DEF Facing
  <2>2. WdlForSide(s.result, s.black) = WdlForSide(r.result, r.black)
    BY <1>2, <1>3, <1>4
  <2>3. Bullet(r) = Faced(r) /\ Bullet(s) = Faced(s)
    BY <1>2, <1>3, BulletOf
  <2>4. Faced(s) = Faced(r)
    BY <1>4, <2>1, <2>2 DEF Faced
  <2> QED
    BY <2>3, <2>4
<1>13. /\ OneToOne(FeaturesFromPieces(ForFeatures(board), mover, 16, 12))
       /\ OneToOne(FeaturesFromPieces(ForFeatures(board), 1 - mover, 16, 12))
  <2> HIDE DEF mover
  <2> QED
    BY <1>2, <1>6, FiniteSeen, FeaturesApart
<1>14. OneToOne(ItemOfRow(r).us) /\ OneToOne(ItemOfRow(r).them)
  BY <1>7, <1>13, OwnItem
<1> QED
  BY <1>5, <1>9, <1>11, <1>12, <1>14

PositionJob == \A j \in Jobs : j.tool = "position" =>
                  j.score \in Int /\ j.rec \in LcRecords /\ OneToASquare(j.rec)
LEMMA PositionJobs == PositionJob
BY PositionAssumption DEF PositionJob, LcRecords, OneToASquare

LEMMA PositionSides ==
    ASSUME job \in Jobs, ConvertPosition
    PROVE  SidesAgree'
<1>1. job' = job /\ job.tool = "position"
  BY DEF ConvertPosition, Run
<1> DEFINE rec == job.rec
           score == job.score
<1>2. score \in Int /\ rec \in LcRecords /\ OneToASquare(rec)
  BY <1>1, PositionJobs DEF PositionJob
<1>3. result' = IF RecordToRow(rec).kind # "row" THEN <<RecordToRow(rec), RecordToRow(Other(rec))>>
                ELSE <<ItemsOf(rec, score), ItemsOf(Other(rec), score)>>
  BY DEF ConvertPosition, Run, ItemsOf, RowWith, Other, Bullet
<1> HIDE DEF rec, score
<1>4. CASE RecordToRow(rec).kind # "row"
  <2>1. result'[1] = result'[2] /\ result'[1] = RecordToRow(rec)
    BY <1>2, <1>3, <1>4, KindTurned
  <2>2. RecordToRow(rec).kind # "items"
    BY DEF RecordToRow
  <2> QED
    BY <2>1, <2>2 DEF SidesAgree
<1>5. CASE RecordToRow(rec).kind = "row"
  <2> DEFINE a == ItemsOf(rec, score)
             b == ItemsOf(Other(rec), score)
  <2>1. result'[1] = a /\ result'[2] = b
    BY <1>3, <1>5
  <2>2. a.kind = "items" /\ a.row = RowWith(rec, score) /\ b.row = RowWith(Other(rec), score)
    BY DEF ItemsOf
  <2>3. /\ SameItem(a.item, b.item) /\ SameItem(a.item, a.read) /\ a.record = b.record
        /\ OneToOne(a.item.us) /\ OneToOne(a.item.them)
    BY <1>2, <1>5, SidesOfPosition
  <2> HIDE DEF a, b
  <2>4. /\ b.row.board = Swapped(a.row.board)
        /\ b.row.castling = {FlipRank(c) : c \in a.row.castling}
        /\ b.row.moves = {[move EXCEPT !.from = FlipRank(@), !.to = FlipRank(@)] : move \in a.row.moves}
    <3> DEFINE x == RowWith(rec, score)
               y == RowWith(Other(rec), score)
    <3>1. /\ y.board = Swapped(x.board) /\ y.castling = {FlipRank(c) : c \in x.castling}
          /\ y.moves = {[move EXCEPT !.from = FlipRank(@), !.to = FlipRank(@)] : move \in x.moves}
      BY <1>2, <1>5, RowsTurned
    <3> HIDE DEF x, y
    <3>2. a.row = x /\ b.row = y
      BY <2>2 DEF x, y
    <3> QED
      BY <3>1, <3>2
  <2> QED
    BY <2>1, <2>2, <2>3, <2>4 DEF SidesAgree
<1> QED
  BY <1>4, <1>5

-----------------------------------------------------------------------------
(* The regions of the kings *)

\* The bucket of one of 16 among n.
Scaled(v, n) == (v * n) \div 16
Fewer == {1, 2, 4, 8, 10, 16}

LEMMA BucketOf ==
    ASSUME NEW n \in Fewer, NEW s \in Squares
    PROVE  KingBuckets(n)[s] = Scaled(KingBuckets16[s], n)
<1>1. CASE n = 10
  <2>1. KingBuckets(n) = KingBuckets10
    BY <1>1 DEF KingBuckets
  <2> QED
    BY <1>1, <2>1, Regions DEF Scaled
<1>2. CASE n \in {1, 2, 4, 8, 16}
  <2>1. KingBuckets(n) = [t \in Squares |-> Scaled(KingBuckets16[t], n)]
    BY <1>2 DEF KingBuckets, Scaled
  <2> QED
    BY <2>1
<1> QED
  BY <1>1, <1>2 DEF Fewer

\* Every bucket of n is one of 16 scaled.
LEMMA ScaledRange ==
    ASSUME NEW n \in Fewer
    PROVE  /\ \A v \in 0..15 : Scaled(v, n) \in 0..(n - 1)
           /\ \A b \in 0..(n - 1) : \E v \in 0..15 : Scaled(v, n) = b
<1>1. CASE n = 1
  <2>1. ASSUME NEW v \in 0..15 PROVE Scaled(v, n) \in 0..(n - 1)
    BY <1>1 DEF Scaled
  <2>2. ASSUME NEW b \in 0..(n - 1) PROVE \E v \in 0..15 : Scaled(v, n) = b
    <3>1. PICK v \in 0..15 : v = (16 * b + 0) \div 1
      BY <1>1
    <3> QED
      BY <1>1, <3>1 DEF Scaled
  <2> QED
    BY <2>1, <2>2
<1>2. CASE n = 2
  <2>1. ASSUME NEW v \in 0..15 PROVE Scaled(v, n) \in 0..(n - 1)
    BY <1>2 DEF Scaled
  <2>2. ASSUME NEW b \in 0..(n - 1) PROVE \E v \in 0..15 : Scaled(v, n) = b
    <3>1. PICK v \in 0..15 : v = (16 * b + 1) \div 2
      BY <1>2
    <3> QED
      BY <1>2, <3>1 DEF Scaled
  <2> QED
    BY <2>1, <2>2
<1>3. CASE n = 4
  <2>1. ASSUME NEW v \in 0..15 PROVE Scaled(v, n) \in 0..(n - 1)
    BY <1>3 DEF Scaled
  <2>2. ASSUME NEW b \in 0..(n - 1) PROVE \E v \in 0..15 : Scaled(v, n) = b
    <3>1. PICK v \in 0..15 : v = (16 * b + 3) \div 4
      BY <1>3
    <3> QED
      BY <1>3, <3>1 DEF Scaled
  <2> QED
    BY <2>1, <2>2
<1>4. CASE n = 8
  <2>1. ASSUME NEW v \in 0..15 PROVE Scaled(v, n) \in 0..(n - 1)
    BY <1>4 DEF Scaled
  <2>2. ASSUME NEW b \in 0..(n - 1) PROVE \E v \in 0..15 : Scaled(v, n) = b
    <3>1. PICK v \in 0..15 : v = (16 * b + 7) \div 8
      BY <1>4
    <3> QED
      BY <1>4, <3>1 DEF Scaled
  <2> QED
    BY <2>1, <2>2
<1>5. CASE n = 10
  <2>1. ASSUME NEW v \in 0..15 PROVE Scaled(v, n) \in 0..(n - 1)
    BY <1>5 DEF Scaled
  <2>2. ASSUME NEW b \in 0..(n - 1) PROVE \E v \in 0..15 : Scaled(v, n) = b
    <3>1. PICK v \in 0..15 : v = (16 * b + 9) \div 10
      BY <1>5
    <3> QED
      BY <1>5, <3>1 DEF Scaled
  <2> QED
    BY <2>1, <2>2
<1>6. CASE n = 16
  <2>1. ASSUME NEW v \in 0..15 PROVE Scaled(v, n) \in 0..(n - 1)
    BY <1>6 DEF Scaled
  <2>2. ASSUME NEW b \in 0..(n - 1) PROVE \E v \in 0..15 : Scaled(v, n) = b
    <3>1. PICK v \in 0..15 : v = (16 * b + 15) \div 16
      BY <1>6
    <3> QED
      BY <1>6, <3>1 DEF Scaled
  <2> QED
    BY <2>1, <2>2
<1> QED
  BY <1>1, <1>2, <1>3, <1>4, <1>5, <1>6 DEF Fewer

\* Scaling to more buckets and back is scaling, but for 10 of which 4 or 8 are made.
LEMMA ScaledTwice ==
    ASSUME NEW a \in Fewer, NEW n \in Fewer, a <= n, a = n \/ n # 10 \/ a \in {1, 2}, NEW v \in 0..15
    PROVE  (Scaled(v, n) * a) \div n = Scaled(v, a)
<1>1. CASE a = n
  <2>1. Scaled(v, n) \in 0..(n - 1)
    BY ScaledRange
  <2>2. CASE n = 1
    BY <1>1, <2>1, <2>2
  <2>3. CASE n = 2
    BY <1>1, <2>1, <2>3
  <2>4. CASE n = 4
    BY <1>1, <2>1, <2>4
  <2>5. CASE n = 8
    BY <1>1, <2>1, <2>5
  <2>6. CASE n = 10
    BY <1>1, <2>1, <2>6
  <2>7. CASE n = 16
    BY <1>1, <2>1, <2>7
  <2> QED
    BY <2>2, <2>3, <2>4, <2>5, <2>6, <2>7 DEF Fewer
<1>2. CASE n = 2 /\ a # n
  <2>1. CASE a = 1
    BY <1>2, <2>1 DEF Scaled
  <2> QED
    BY <1>2, <2>1 DEF Fewer
<1>3. CASE n = 4 /\ a # n
  <2>1. CASE a = 1
    BY <1>3, <2>1 DEF Scaled
  <2>2. CASE a = 2
    BY <1>3, <2>2 DEF Scaled
  <2> QED
    BY <1>3, <2>1, <2>2 DEF Fewer
<1>4. CASE n = 8 /\ a # n
  <2>1. CASE a = 1
    BY <1>4, <2>1 DEF Scaled
  <2>2. CASE a = 2
    BY <1>4, <2>2 DEF Scaled
  <2>3. CASE a = 4
    BY <1>4, <2>3 DEF Scaled
  <2> QED
    BY <1>4, <2>1, <2>2, <2>3 DEF Fewer
<1>5. CASE n = 10 /\ a # n
  <2>1. CASE a = 1
    BY <1>5, <2>1 DEF Scaled
  <2>2. CASE a = 2
    BY <1>5, <2>2 DEF Scaled
  <2> QED
    BY <1>5, <2>1, <2>2 DEF Fewer
<1>6. CASE n = 16 /\ a # n
  <2>1. CASE a = 1
    BY <1>6, <2>1 DEF Scaled
  <2>2. CASE a = 2
    BY <1>6, <2>2 DEF Scaled
  <2>3. CASE a = 4
    BY <1>6, <2>3 DEF Scaled
  <2>4. CASE a = 8
    BY <1>6, <2>4 DEF Scaled
  <2>5. CASE a = 10
    BY <1>6, <2>5 DEF Scaled
  <2> QED
    BY <1>6, <2>1, <2>2, <2>3, <2>4, <2>5 DEF Fewer
<1> QED
  BY <1>1, <1>2, <1>3, <1>4, <1>5, <1>6 DEF Fewer

LEMMA ExpandKeeps ==
    ASSUME NEW a \in BucketCounts, NEW n \in BucketCounts, a <= n, <<a, n>> \notin {<<4, 10>>, <<8, 10>>},
           NEW k \in Squares
    PROVE  /\ KingBuckets(n)[k] \in 0..(n - 1)
           /\ ParentBucket(KingBuckets(n)[k], a, n) = KingBuckets(a)[k]
<1>1. CASE n = 32
  <2>1. KingBuckets(n) = KingBuckets32
    BY <1>1 DEF KingBuckets
  <2>2. KingBuckets(n)[k] \in 0..31 /\ LegacyBucketFor32[KingBuckets(n)[k] + 1] = KingBuckets16[k]
    BY <2>1, Regions
  <2>3. CASE a = 32
    BY <1>1, <2>2, <2>3 DEF ParentBucket
  <2>4. CASE a # 32
    <3>1. a \in Fewer
      BY <2>4 DEF Fewer, BucketCounts
    <3>2. ParentBucket(KingBuckets(n)[k], a, n) = Scaled(KingBuckets16[k], a)
      BY <1>1, <2>2, <2>4 DEF ParentBucket, Scaled
    <3> QED
      BY <1>1, <2>2, <3>1, <3>2, BucketOf
  <2> QED
    BY <2>3, <2>4
<1>2. CASE n # 32
  <2>1. n \in Fewer /\ a \in Fewer
    BY <1>2 DEF Fewer, BucketCounts
  <2> DEFINE v == KingBuckets16[k]
  <2>2. v \in 0..15
    BY Regions
  <2>3. KingBuckets(n)[k] = Scaled(v, n) /\ KingBuckets(a)[k] = Scaled(v, a)
    BY <2>1, BucketOf
  <2>4. KingBuckets(n)[k] \in 0..(n - 1)
    BY <2>1, <2>2, <2>3, ScaledRange
  <2> HIDE DEF v
  <2>5. CASE a = n
    BY <2>4, <2>5 DEF ParentBucket
  <2>6. CASE a # n
    <3>1. n # 10 \/ a \in {1, 2}
      BY <2>1, <2>6 DEF Fewer
    <3>2. (Scaled(v, n) * a) \div n = Scaled(v, a)
      BY <2>1, <2>2, <3>1, ScaledTwice
    <3>3. ParentBucket(KingBuckets(n)[k], a, n) = (KingBuckets(n)[k] * a) \div n
      BY <1>2, <2>6 DEF ParentBucket
    <3> QED
      BY <2>3, <2>4, <3>2, <3>3
  <2> QED
    BY <2>5, <2>6
<1> QED
  BY <1>1, <1>2

LEMMA EveryBucket ==
    ASSUME NEW n \in BucketCounts, NEW b \in 0..(n - 1)
    PROVE  \E k \in Squares : KingBuckets(n)[k] = b
<1>1. CASE n = 32
  <2>1. KingBuckets(n) = KingBuckets32
    BY <1>1 DEF KingBuckets
  <2> QED
    BY <1>1, <2>1, EveryRegion
<1>2. CASE n # 32
  <2>1. n \in Fewer
    BY <1>2 DEF Fewer, BucketCounts
  <2>2. PICK v \in 0..15 : Scaled(v, n) = b
    BY <2>1, ScaledRange
  <2>3. PICK k \in Squares : KingBuckets16[k] = v
    BY EveryRegion
  <2> QED
    BY <2>1, <2>2, <2>3, BucketOf
<1> QED
  BY <1>1, <1>2

\* The buckets of the parent that hold a square of a bucket.
HeldBy(from, to, b) == {KingBuckets(from)[k] : k \in {k \in Squares : KingBuckets(to)[k] = b}}

LEMMA ConvertKeeps ==
    ASSUME NEW from \in BucketCounts, NEW to \in BucketCounts, BucketsMap(from, to),
           to # 32 \/ from \notin {2, 4, 8}, NEW b \in 0..(to - 1)
    PROVE  SourceBuckets(b, from, to) = HeldBy(from, to, b)
<1>0. PICK w \in Squares : KingBuckets(to)[w] = b
  BY EveryBucket
<1>1. CASE from = to
  <2>1. SourceBuckets(b, from, to) = {b}
    BY <1>1 DEF SourceBuckets
  <2>2. \A k \in Squares : KingBuckets(to)[k] = b => KingBuckets(from)[k] = b
    BY <1>1
  <2>3. HeldBy(from, to, b) = {b}
    BY <1>0, <2>2 DEF HeldBy
  <2> QED
    BY <2>1, <2>3
<1>2. CASE from = 1 /\ to # 1
  <2>1. SourceBuckets(b, from, to) = {0}
    BY <1>2 DEF SourceBuckets
  <2>2. \A k \in Squares : KingBuckets(from)[k] = 0
    BY <1>2, BucketOf, Regions DEF Fewer, Scaled
  <2> QED
    BY <1>0, <2>1, <2>2 DEF HeldBy
<1>3. CASE from = 16 /\ to = 32
  <2>1. SourceBuckets(b, from, to) = {LegacyBucketFor32[b + 1]}
    BY <1>3 DEF SourceBuckets
  <2>2. KingBuckets(to) = KingBuckets32
    BY <1>3 DEF KingBuckets
  <2>3. \A k \in Squares : KingBuckets(from)[k] = KingBuckets16[k]
    <3> TAKE k \in Squares
    <3>1. KingBuckets16[k] \in 0..15
      BY Regions
    <3>2. KingBuckets(from)[k] = Scaled(KingBuckets16[k], 16)
      BY <1>3, BucketOf DEF Fewer
    <3> QED
      BY <3>1, <3>2 DEF Scaled
  <2> DEFINE c == LegacyBucketFor32[b + 1]
  <2>4. \A k \in Squares : KingBuckets(to)[k] = b => KingBuckets(from)[k] = c
    BY <2>2, <2>3, Regions
  <2> HIDE DEF c
  <2>5. HeldBy(from, to, b) = {c}
    BY <1>0, <2>4 DEF HeldBy
  <2> QED
    BY <2>1, <2>5 DEF c
<1>4. CASE from = 32 /\ to = 16
  <2>1. SourceBuckets(b, from, to) = {c \in 0..31 : LegacyBucketFor32[c + 1] = b}
    BY <1>4 DEF SourceBuckets
  <2>2. KingBuckets(from) = KingBuckets32
    BY <1>4 DEF KingBuckets
  <2>3. \A k \in Squares : KingBuckets(to)[k] = KingBuckets16[k]
    <3> TAKE k \in Squares
    <3>1. KingBuckets16[k] \in 0..15
      BY Regions
    <3>2. KingBuckets(to)[k] = Scaled(KingBuckets16[k], 16)
      BY <1>4, BucketOf DEF Fewer
    <3> QED
      BY <3>1, <3>2 DEF Scaled
  <2>4. ASSUME NEW c \in 0..31, LegacyBucketFor32[c + 1] = b
        PROVE  c \in HeldBy(from, to, b)
    <3>1. PICK k \in Squares : KingBuckets32[k] = c
      BY EveryRegion
    <3> QED
      BY <2>2, <2>3, <2>4, <3>1, Regions DEF HeldBy
  <2>5. ASSUME NEW c \in HeldBy(from, to, b)
        PROVE  c \in 0..31 /\ LegacyBucketFor32[c + 1] = b
    BY <2>2, <2>3, Regions DEF HeldBy
  <2> QED
    BY <2>1, <2>4, <2>5
<1>5. CASE from \notin {to, 1, 32} /\ to # 32
  <2>1. from \in Fewer /\ to \in Fewer /\ to % from = 0
    BY <1>5 DEF Fewer, BucketCounts, BucketsMap
  <2>2. from <= to /\ (to # 10 \/ from = 2)
    BY <1>5, <2>1 DEF Fewer
  <2>3. SourceBuckets(b, from, to) = {(b * from) \div to}
    BY <1>5 DEF SourceBuckets
  <2>4. ASSUME NEW k \in Squares, KingBuckets(to)[k] = b
        PROVE  KingBuckets(from)[k] = (b * from) \div to
    <3> DEFINE v == KingBuckets16[k]
    <3>1. v \in 0..15
      BY Regions
    <3>2. KingBuckets(to)[k] = Scaled(v, to) /\ KingBuckets(from)[k] = Scaled(v, from)
      BY <2>1, BucketOf
    <3> HIDE DEF v
    <3>3. (Scaled(v, to) * from) \div to = Scaled(v, from)
      BY <2>1, <2>2, <3>1, ScaledTwice
    <3> QED
      BY <2>4, <3>2, <3>3
  <2> DEFINE c == (b * from) \div to
  <2>5. \A k \in Squares : KingBuckets(to)[k] = b => KingBuckets(from)[k] = c
    BY <2>4
  <2>6. SourceBuckets(b, from, to) = {c}
    BY <2>3
  <2> HIDE DEF c
  <2>7. HeldBy(from, to, b) = {c}
    BY <1>0, <2>5 DEF HeldBy
  <2> QED
    BY <2>6, <2>7
<1>6. from = to \/ from = 1 \/ (from = 16 /\ to = 32) \/ (from = 32 /\ to = 16)
      \/ (from \notin {to, 1, 32} /\ to # 32)
  BY DEF BucketCounts, BucketsMap
<1> QED
  BY <1>1, <1>2, <1>3, <1>4, <1>5, <1>6

-----------------------------------------------------------------------------
(* Sums and sizes *)

\* A set of numbers has a least one.
LEMMA Least ==
    ASSUME NEW S, S \subseteq Nat, S # {}
    PROVE  \E x \in S : \A y \in S : x <= y
<1>1. PICK x \in S : \A y \in S : <<y, x>> \notin OpToRel(<, Nat)
  BY NatLessThanWellFounded, WFMin, Zenon
<1>2. ASSUME NEW y \in S PROVE x <= y
  <2>1. x \in Nat /\ y \in Nat
    BY <1>1
  <2>2. ~ (y < x)
    BY <1>1, <2>1 DEF OpToRel
  <2> QED
    BY <2>1, <2>2
<1> QED
  BY <1>2

\* Induction up to n, for a set of numbers.
LEMMA UpTo ==
    ASSUME NEW n \in Nat, NEW T, 0 \in T, \A k \in 1..n : k - 1 \in T => k \in T
    PROVE  \A k \in 0..n : k \in T
<1> SUFFICES ASSUME NEW k \in 0..n, k \notin T PROVE FALSE
  OBVIOUS
<1> DEFINE S == {i \in 0..n : i \notin T}
<1>1. PICK x \in S : \A y \in S : x <= y
  <2>1. S \subseteq Nat /\ S # {}
    OBVIOUS
  <2> QED
    BY <2>1, Least
<1>2. x \in 1..n /\ x - 1 \in 0..n
  BY <1>1
<1>3. x - 1 \in T
  BY <1>1, <1>2
<1> QED
  BY <1>1, <1>2, <1>3

\* Each place of Before has the sum up to the one before it.
Adds(A, f, n) ==
    /\ A[0] = 0 /\ \A k \in 1..n : A[k] = A[k - 1] + f[k - 1]
    /\ \A k \in 0..n : A[k] \in Nat
    /\ \A i \in 0..n : \A j \in i..n : A[i] <= A[j]

LEMMA BeforeAdds ==
    ASSUME NEW n \in Nat, NEW f, \A k \in 0..(n - 1) : f[k] \in Nat
    PROVE  Adds(Before(f, n), f, n)
<1> DEFINE Is(g, m) == g = [k \in 0..m |-> IF k = 0 THEN 0 ELSE g[k - 1] + f[k - 1]]
           T == {m \in 0..n : \E g : Is(g, m)}
<1>1. 0 \in T
  <2> DEFINE g == [k \in 0..0 |-> 0]
  <2>1. Is(g, 0)
    OBVIOUS
  <2> HIDE DEF Is
  <2> QED
    BY <2>1
<1>2. ASSUME NEW m \in 1..n, m - 1 \in T PROVE m \in T
  <2>1. PICK g : Is(g, m - 1)
    BY <1>2
  <2> DEFINE h == [k \in 0..m |-> IF k = m THEN g[m - 1] + f[m - 1] ELSE g[k]]
  <2>2. \A k \in 0..(m - 1) : h[k] = g[k]
    OBVIOUS
  <2>3. \A k \in 0..(m - 1) : g[k] = IF k = 0 THEN 0 ELSE g[k - 1] + f[k - 1]
    <3> SUFFICES ASSUME NEW k \in 0..(m - 1)
                 PROVE  g[k] = IF k = 0 THEN 0 ELSE g[k - 1] + f[k - 1]
      OBVIOUS
    <3> DEFINE F == [i \in 0..(m - 1) |-> IF i = 0 THEN 0 ELSE g[i - 1] + f[i - 1]]
    <3>1. g = F
      BY <2>1
    <3>2. F[k] = IF k = 0 THEN 0 ELSE g[k - 1] + f[k - 1]
      OBVIOUS
    <3> HIDE DEF F
    <3> QED
      BY <3>1, <3>2
  <2>4. ASSUME NEW k \in 0..m PROVE h[k] = IF k = 0 THEN 0 ELSE h[k - 1] + f[k - 1]
    <3>1. CASE k = m
      <4>1. h[k] = g[m - 1] + f[m - 1] /\ k # 0 /\ m - 1 \in 0..(m - 1)
        BY <3>1
      <4>2. h[m - 1] = g[m - 1]
        BY <2>2, <4>1
      <4> HIDE DEF h
      <4> QED
        BY <3>1, <4>1, <4>2
    <3>2. CASE k # m
      <4>1. k \in 0..(m - 1) /\ (k # 0 => k - 1 \in 0..(m - 1))
        BY <3>2
      <4>2. h[k] = g[k] /\ (k # 0 => h[k - 1] = g[k - 1])
        BY <2>2, <4>1
      <4> HIDE DEF h
      <4> QED
        BY <2>3, <4>1, <4>2
    <3> QED
      BY <3>1, <3>2
  <2>5. h = [k \in 0..m |-> h[k]]
    OBVIOUS
  <2> HIDE DEF h
  <2>6. Is(h, m)
    BY <2>4, <2>5
  <2> HIDE DEF Is
  <2> QED
    BY <2>6
<1>3. n \in T
  <2> HIDE DEF T
  <2>1. \A k \in 0..n : k \in T
    BY <1>1, <1>2, UpTo
  <2> QED
    BY <2>1
<1> DEFINE before == CHOOSE g : Is(g, n)
           A == Before(f, n)
<1>4. Is(before, n)
  <2> HIDE DEF Is
  <2> QED
    BY <1>3
<1>5. A = [k \in 0..n |-> before[k]]
  BY DEF Before
<1> HIDE DEF before, A
<1>6. \A k \in 0..n : A[k] = before[k]
  BY <1>5
<1>7. \A k \in 0..n : before[k] = IF k = 0 THEN 0 ELSE before[k - 1] + f[k - 1]
  <2> SUFFICES ASSUME NEW k \in 0..n
               PROVE  before[k] = IF k = 0 THEN 0 ELSE before[k - 1] + f[k - 1]
    OBVIOUS
  <2> DEFINE F == [i \in 0..n |-> IF i = 0 THEN 0 ELSE before[i - 1] + f[i - 1]]
  <2>1. before = F
    BY <1>4
  <2>2. F[k] = IF k = 0 THEN 0 ELSE before[k - 1] + f[k - 1]
    OBVIOUS
  <2> HIDE DEF F
  <2> QED
    BY <2>1, <2>2
<1>8. A[0] = 0 /\ \A k \in 1..n : A[k] = A[k - 1] + f[k - 1]
  <2>1. 0 \in 0..n /\ \A k \in 1..n : k \in 0..n /\ k - 1 \in 0..n /\ k # 0
    OBVIOUS
  <2> QED
    BY <1>6, <1>7, <2>1
<1>9. \A k \in 0..n : A[k] \in Nat
  <2> DEFINE U == {k \in 0..n : A[k] \in Nat}
  <2>1. 0 \in U
    BY <1>8
  <2>2. ASSUME NEW k \in 1..n, k - 1 \in U PROVE k \in U
    <3>1. A[k] = A[k - 1] + f[k - 1] /\ f[k - 1] \in Nat /\ A[k - 1] \in Nat /\ k \in 0..n
      BY <1>8, <2>2
    <3> QED
      BY <3>1
  <2> HIDE DEF U
  <2>3. \A k \in 0..n : k \in U
    BY <2>1, <2>2, UpTo
  <2> QED
    BY <2>3 DEF U
<1>10. ASSUME NEW i \in 0..n PROVE \A j \in i..n : A[i] <= A[j]
  <2> DEFINE U == {j \in 0..n : i <= j => A[i] <= A[j]}
  <2>1. A[i] \in Nat
    BY <1>9
  <2>2. 0 \in U
    BY <2>1
  <2>3. ASSUME NEW k \in 1..n, k - 1 \in U PROVE k \in U
    <3> DEFINE x == A[i]
               y == A[k - 1]
               z == A[k]
               w == f[k - 1]
    <3>1. z = y + w /\ w \in Nat /\ y \in Nat /\ x \in Nat /\ (i <= k - 1 => x <= y) /\ k \in 0..n
      BY <1>8, <1>9, <2>1, <2>3
    <3>2. i <= k => i <= k - 1 \/ i = k
      OBVIOUS
    <3>3. i = k => x = z
      OBVIOUS
    <3> HIDE DEF x, y, z, w
    <3>4. i <= k => x <= z
      BY <3>1, <3>2, <3>3
    <3> QED
      BY <3>1, <3>4 DEF x, z
  <2> HIDE DEF U
  <2>4. \A k \in 0..n : k \in U
    BY <2>2, <2>3, UpTo
  <2> QED
    BY <2>4 DEF U
<1> QED
  BY <1>8, <1>9, <1>10 DEF Adds, A

\* What is counted by numbers up to n has no more than n elements.
LEMMA Counted ==
    ASSUME NEW n \in Nat, NEW T, NEW g, \A t \in T : \E k \in 1..n : t = g[k]
    PROVE  IsFiniteSet(T) /\ Cardinality(T) <= n /\ Cardinality(T) \in Nat
<1> DEFINE h == [k \in 1..n |-> g[k]]
           W == {h[k] : k \in 1..n}
<1>1. h \in Surjection(1..n, W)
  BY DEF Surjection
<1>2. IsFiniteSet(1..n) /\ Cardinality(1..n) = n
  <2>1. 1 \in Int /\ n \in Int
    OBVIOUS
  <2>2. IsFiniteSet(1..n) /\ Cardinality(1..n) = IF 1 > n THEN 0 ELSE n - 1 + 1
    BY <2>1, FS_Interval, Zenon
  <2> QED
    BY <2>2
<1>3. T \in SUBSET W
  OBVIOUS
<1> HIDE DEF h, W
<1>4. IsFiniteSet(W) /\ Cardinality(W) <= n
  BY <1>1, <1>2, FS_Surjection
<1>5. IsFiniteSet(T) /\ Cardinality(T) <= Cardinality(W) /\ Cardinality(T) \in Nat /\ Cardinality(W) \in Nat
  BY <1>3, <1>4, FS_Subset, FS_CardinalityType
<1> QED
  BY <1>4, <1>5

LEMMA CountedTwice ==
    ASSUME NEW S, NEW T, IsFiniteSet(S), IsFiniteSet(T), NEW m \in Nat, NEW n \in Nat,
           Cardinality(S) <= m, Cardinality(T) <= n
    PROVE  IsFiniteSet(S \cup T) /\ Cardinality(S \cup T) <= m + n
<1>1. /\ IsFiniteSet(S \cup T) /\ Cardinality(S \cup T) = Cardinality(S) + Cardinality(T) - Cardinality(S \cap T)
      /\ IsFiniteSet(S \cap T)
  BY FS_Union, FS_Intersection
<1>2. Cardinality(S) \in Nat /\ Cardinality(T) \in Nat /\ Cardinality(S \cap T) \in Nat
  BY <1>1, FS_CardinalityType
<1> QED
  BY <1>1, <1>2

-----------------------------------------------------------------------------
(* How far pieces reach on an empty board *)

LEMMA CodeParts ==
    ASSUME NEW c \in ThreatPieces
    PROVE  /\ TypeOf(c) \in 1..6 /\ ColorOf(c) \in {0, 1} /\ c = TypeOf(c) + 8 * ColorOf(c) /\ c \in 1..14
BY DEF ThreatPieces, TypeOf, ColorOf

LEMMA SlidersReach ==
    ASSUME NEW type \in 1..6, type \in {Bishop, Rook, Queen}, NEW s, NEW occupied
    PROVE  AttacksOf(type, 0, s, occupied) = SliderAttacks(type, s, occupied)
BY SliderKind DEF Bishop, Rook, Queen, Pawn, Knight, King

LEMMA PseudoOf ==
    ASSUME NEW c \in ThreatPieces, NEW s \in Squares
    PROVE  /\ PseudoAttacks[c][s] = AttacksOf(TypeOf(c), ColorOf(c), s, {})
           /\ PseudoAttacks[c][s] \in SUBSET Squares
           /\ IsFiniteSet(PseudoAttacks[c][s]) /\ Cardinality(PseudoAttacks[c][s]) \in Nat
<1>1. PseudoAttacks[c][s] = AttacksOf(TypeOf(c), ColorOf(c), s, {})
  BY DEF PseudoAttacks
<1>2. TypeOf(c) \in 1..6 /\ ColorOf(c) \in {0, 1} /\ {} \in SUBSET Squares
  BY CodeParts
<1>3. PseudoAttacks[c][s] \in SUBSET Squares
  BY <1>1, <1>2, AttackTurned
<1>4. IsFiniteSet(Squares)
  <2>1. 0 \in Int /\ 63 \in Int
    OBVIOUS
  <2> QED
    BY <2>1, FS_Interval, Zenon DEF Squares
<1> QED
  BY <1>1, <1>3, <1>4, FS_Subset, FS_CardinalityType

\* A ray is as long as there is room.
LEMMA RayReach ==
    ASSUME NEW s \in Squares, NEW d \in Rays, NEW n \in Nat,
           \A k \in 1..7 : OnBoard(Along(s, d, k).f, Along(s, d, k).r) => k <= n
    PROVE  IsFiniteSet(Ray(s, d, {})) /\ Cardinality(Ray(s, d, {})) <= n
<1> DEFINE g == [k \in 1..n |-> SquareAt(Along(s, d, k))]
<1>1. \A t \in Ray(s, d, {}) : \E k \in 1..n : t = g[k]
  <2> SUFFICES ASSUME NEW t \in Ray(s, d, {}) PROVE \E k \in 1..n : t = g[k]
    OBVIOUS
  <2>1. PICK k \in 1..7 : OnBoard(Along(s, d, k).f, Along(s, d, k).r) /\ t = SquareAt(Along(s, d, k))
    BY DEF Ray
  <2>2. k \in 1..n
    BY <2>1
  <2> QED
    BY <2>1, <2>2
<1> HIDE DEF g
<1> QED
  BY <1>1, Counted

Lesser(x, y) == IF x <= y THEN x ELSE y
\* The room on the four diagonals.
DiagonalRoom(f, r) ==
    (Lesser(7 - f, 7 - r) + Lesser(7 - f, r)) + (Lesser(f, 7 - r) + Lesser(f, r))

LEMMA RookReach ==
    ASSUME NEW s \in Squares, NEW type \in 1..6, type = Rook
    PROVE  IsFiniteSet(SliderAttacks(type, s, {})) /\ Cardinality(SliderAttacks(type, s, {})) <= 14
<1> DEFINE f == File(s)
           r == Rank(s)
           a == <<1, 0>>
           b == <<-1, 0>>
           c == <<0, 1>>
           d == <<0, -1>>
<1>1. f \in 0..7 /\ r \in 0..7
  BY Flips
<1>2. a \in Rays /\ b \in Rays /\ c \in Rays /\ d \in Rays
  BY DEF Rays, Straights
<1>3. SliderAttacks(type, s, {}) \subseteq (Ray(s, a, {}) \cup Ray(s, b, {})) \cup (Ray(s, c, {}) \cup Ray(s, d, {}))
  BY DEF SliderAttacks, Directions, Straights, Rook, Bishop
<1>4. /\ \A k \in 1..7 : OnBoard(Along(s, a, k).f, Along(s, a, k).r) => k <= 7 - f
      /\ \A k \in 1..7 : OnBoard(Along(s, b, k).f, Along(s, b, k).r) => k <= f
      /\ \A k \in 1..7 : OnBoard(Along(s, c, k).f, Along(s, c, k).r) => k <= 7 - r
      /\ \A k \in 1..7 : OnBoard(Along(s, d, k).f, Along(s, d, k).r) => k <= r
  BY <1>1 DEF OnBoard, Along
<1>5. 7 - f \in Nat /\ f \in Nat /\ 7 - r \in Nat /\ r \in Nat
  BY <1>1
<1> HIDE DEF f, r, a, b, c, d
<1>6. /\ IsFiniteSet(Ray(s, a, {})) /\ Cardinality(Ray(s, a, {})) <= 7 - f
      /\ IsFiniteSet(Ray(s, b, {})) /\ Cardinality(Ray(s, b, {})) <= f
      /\ IsFiniteSet(Ray(s, c, {})) /\ Cardinality(Ray(s, c, {})) <= 7 - r
      /\ IsFiniteSet(Ray(s, d, {})) /\ Cardinality(Ray(s, d, {})) <= r
  BY <1>2, <1>4, <1>5, RayReach
<1>7. /\ IsFiniteSet(Ray(s, a, {}) \cup Ray(s, b, {})) /\ Cardinality(Ray(s, a, {}) \cup Ray(s, b, {})) <= 7
      /\ IsFiniteSet(Ray(s, c, {}) \cup Ray(s, d, {})) /\ Cardinality(Ray(s, c, {}) \cup Ray(s, d, {})) <= 7
  <2>1. (7 - f) + f = 7 /\ (7 - r) + r = 7
    BY <1>1
  <2> QED
    BY <1>5, <1>6, <2>1, CountedTwice
<1> DEFINE U == (Ray(s, a, {}) \cup Ray(s, b, {})) \cup (Ray(s, c, {}) \cup Ray(s, d, {}))
<1>8. IsFiniteSet(U) /\ Cardinality(U) <= 14
  <2> DEFINE A == Ray(s, a, {}) \cup Ray(s, b, {})
             B == Ray(s, c, {}) \cup Ray(s, d, {})
  <2>1. PICK n \in Nat : n = 7
    OBVIOUS
  <2>2. IsFiniteSet(A) /\ Cardinality(A) <= n /\ IsFiniteSet(B) /\ Cardinality(B) <= n
    BY <1>7, <2>1
  <2> HIDE DEF A, B
  <2>3. IsFiniteSet(A \cup B) /\ Cardinality(A \cup B) <= n + n
    BY <2>2, CountedTwice
  <2>4. IsFiniteSet(A \cup B) /\ Cardinality(A \cup B) <= 14
    BY <2>1, <2>3
  <2> QED
    BY <2>4 DEF A, B
<1>9. SliderAttacks(type, s, {}) \in SUBSET U
  BY <1>3
<1> HIDE DEF U
<1>10. /\ IsFiniteSet(SliderAttacks(type, s, {})) /\ Cardinality(SliderAttacks(type, s, {})) <= Cardinality(U)
       /\ Cardinality(SliderAttacks(type, s, {})) \in Nat /\ Cardinality(U) \in Nat
  BY <1>8, <1>9, FS_Subset, FS_CardinalityType
<1> QED
  BY <1>8, <1>10

LEMMA BishopReach ==
    ASSUME NEW s \in Squares, NEW type \in 1..6, type = Bishop
    PROVE  /\ IsFiniteSet(SliderAttacks(type, s, {}))
           /\ Cardinality(SliderAttacks(type, s, {})) <= DiagonalRoom(File(s), Rank(s))
<1> DEFINE f == File(s)
           r == Rank(s)
           a == <<1, 1>>
           b == <<1, -1>>
           c == <<-1, 1>>
           d == <<-1, -1>>
           l == Lesser(7 - f, 7 - r)
           m == Lesser(7 - f, r)
           n == Lesser(f, 7 - r)
           o == Lesser(f, r)
<1>1. f \in 0..7 /\ r \in 0..7
  BY Flips
<1>2. a \in Rays /\ b \in Rays /\ c \in Rays /\ d \in Rays
  BY DEF Rays, Diagonals
<1>3. SliderAttacks(type, s, {}) \subseteq (Ray(s, a, {}) \cup Ray(s, b, {})) \cup (Ray(s, c, {}) \cup Ray(s, d, {}))
  <2>1. Directions(type) = Diagonals
    BY DEF Directions, Bishop, Rook
  <2>2. \A e \in Diagonals : e = a \/ e = b \/ e = c \/ e = d
    BY DEF Diagonals
  <2> HIDE DEF a, b, c, d
  <2> QED
    BY <2>1, <2>2 DEF SliderAttacks
<1>4. /\ \A k \in 1..7 : OnBoard(Along(s, a, k).f, Along(s, a, k).r) => k <= l
      /\ \A k \in 1..7 : OnBoard(Along(s, b, k).f, Along(s, b, k).r) => k <= m
      /\ \A k \in 1..7 : OnBoard(Along(s, c, k).f, Along(s, c, k).r) => k <= n
      /\ \A k \in 1..7 : OnBoard(Along(s, d, k).f, Along(s, d, k).r) => k <= o
  BY <1>1 DEF OnBoard, Along, Lesser
<1>5. l \in Nat /\ m \in Nat /\ n \in Nat /\ o \in Nat
  BY <1>1 DEF Lesser
<1>0. DiagonalRoom(File(s), Rank(s)) = (l + m) + (n + o)
  BY DEF DiagonalRoom
<1> HIDE DEF f, r, a, b, c, d, l, m, n, o
<1>6. /\ IsFiniteSet(Ray(s, a, {})) /\ Cardinality(Ray(s, a, {})) <= l
      /\ IsFiniteSet(Ray(s, b, {})) /\ Cardinality(Ray(s, b, {})) <= m
      /\ IsFiniteSet(Ray(s, c, {})) /\ Cardinality(Ray(s, c, {})) <= n
      /\ IsFiniteSet(Ray(s, d, {})) /\ Cardinality(Ray(s, d, {})) <= o
  BY <1>2, <1>4, <1>5, RayReach
<1> DEFINE v == l + m
           w == n + o
<1>7. /\ IsFiniteSet(Ray(s, a, {}) \cup Ray(s, b, {})) /\ Cardinality(Ray(s, a, {}) \cup Ray(s, b, {})) <= v
      /\ IsFiniteSet(Ray(s, c, {}) \cup Ray(s, d, {})) /\ Cardinality(Ray(s, c, {}) \cup Ray(s, d, {})) <= w
  BY <1>5, <1>6, CountedTwice
<1>11. v \in Nat /\ w \in Nat /\ DiagonalRoom(File(s), Rank(s)) = v + w
  BY <1>0, <1>5
<1> HIDE DEF v, w
<1> DEFINE U == (Ray(s, a, {}) \cup Ray(s, b, {})) \cup (Ray(s, c, {}) \cup Ray(s, d, {}))
<1>8. IsFiniteSet(U) /\ Cardinality(U) <= v + w
  BY <1>7, <1>11, CountedTwice
<1>9. SliderAttacks(type, s, {}) \in SUBSET U
  BY <1>3
<1> HIDE DEF U
<1>10. /\ IsFiniteSet(SliderAttacks(type, s, {})) /\ Cardinality(SliderAttacks(type, s, {})) <= Cardinality(U)
       /\ Cardinality(SliderAttacks(type, s, {})) \in Nat /\ Cardinality(U) \in Nat
  BY <1>8, <1>9, FS_Subset, FS_CardinalityType
<1> QED
  BY <1>8, <1>10, <1>11

LEMMA QueenReach ==
    ASSUME NEW s \in Squares, NEW type \in 1..6, type = Queen
    PROVE  /\ IsFiniteSet(SliderAttacks(type, s, {}))
           /\ Cardinality(SliderAttacks(type, s, {})) <= 14 + DiagonalRoom(File(s), Rank(s))
<1> DEFINE rook == SliderAttacks(Rook, s, {})
           bishop == SliderAttacks(Bishop, s, {})
           n == DiagonalRoom(File(s), Rank(s))
           S == SliderAttacks(type, s, {})
<1>1. S \subseteq rook \cup bishop
  BY DEF SliderAttacks, Directions, Queen, Rook, Bishop
<1>2. IsFiniteSet(rook) /\ Cardinality(rook) <= 14 /\ IsFiniteSet(bishop) /\ Cardinality(bishop) <= n
  <2>1. PICK x \in 1..6 : x = Rook
    BY DEF Rook
  <2>2. PICK y \in 1..6 : y = Bishop
    BY DEF Bishop
  <2>3. /\ IsFiniteSet(SliderAttacks(x, s, {})) /\ Cardinality(SliderAttacks(x, s, {})) <= 14
        /\ IsFiniteSet(SliderAttacks(y, s, {})) /\ Cardinality(SliderAttacks(y, s, {})) <= n
    BY <2>1, <2>2, RookReach, BishopReach
  <2> QED
    BY <2>1, <2>2, <2>3
<1>3. n \in Nat
  <2>1. File(s) \in 0..7 /\ Rank(s) \in 0..7
    BY Flips
  <2> QED
    BY <2>1 DEF DiagonalRoom, Lesser
<1> HIDE DEF rook, bishop, n, S
<1>4. IsFiniteSet(rook \cup bishop) /\ Cardinality(rook \cup bishop) <= 14 + n
  <2>1. 14 \in Nat
    OBVIOUS
  <2> QED
    BY <1>2, <1>3, <2>1, CountedTwice
<1>5. S \in SUBSET (rook \cup bishop)
  BY <1>1
<1>6. /\ IsFiniteSet(S) /\ Cardinality(S) <= Cardinality(rook \cup bishop)
      /\ Cardinality(S) \in Nat /\ Cardinality(rook \cup bishop) \in Nat
  BY <1>4, <1>5, FS_Subset, FS_CardinalityType
<1> QED
  BY <1>3, <1>4, <1>6 DEF S, n

\* One step to (x, y): 1 when it stays on the board.
On(x, y) == IF x \in 0..7 /\ y \in 0..7 THEN 1 ELSE 0
Hop(s, d) == IF OnBoard(Along(s, d, 1).f, Along(s, d, 1).r) THEN {SquareAt(Along(s, d, 1))} ELSE {}
HopRoom(s, d) == On(File(s) + d[1], Rank(s) + d[2])

LEMMA HopReach ==
    ASSUME NEW s \in Squares, NEW d \in Steps
    PROVE  IsFiniteSet(Hop(s, d)) /\ Cardinality(Hop(s, d)) <= HopRoom(s, d) /\ HopRoom(s, d) \in Nat
<1>1. OnBoard(Along(s, d, 1).f, Along(s, d, 1).r) <=> HopRoom(s, d) = 1
  <2>1. d[1] \in Int /\ d[2] \in Int
    BY BackStep
  <2>2. Along(s, d, 1).f = File(s) + d[1] /\ Along(s, d, 1).r = Rank(s) + d[2]
    BY <2>1 DEF Along
  <2> QED
    BY <2>2 DEF OnBoard, HopRoom, On
<1>2. HopRoom(s, d) \in {0, 1}
  BY DEF HopRoom, On
<1> DEFINE t == SquareAt(Along(s, d, 1))
<1>3. IsFiniteSet({t}) /\ Cardinality({t}) = 1 /\ IsFiniteSet({}) /\ Cardinality({}) = 0
  BY FS_Singleton, FS_EmptySet
<1>4. Hop(s, d) = IF HopRoom(s, d) = 1 THEN {t} ELSE {}
  BY <1>1 DEF Hop
<1> HIDE DEF t
<1> QED
  BY <1>2, <1>3, <1>4

LEMMA HopsReach ==
    ASSUME NEW s \in Squares, NEW a \in Steps, NEW b \in Steps
    PROVE  /\ IsFiniteSet(Hop(s, a) \cup Hop(s, b))
           /\ Cardinality(Hop(s, a) \cup Hop(s, b)) <= HopRoom(s, a) + HopRoom(s, b)
           /\ HopRoom(s, a) + HopRoom(s, b) \in Nat
<1> DEFINE m == HopRoom(s, a)
           n == HopRoom(s, b)
<1>1. /\ IsFiniteSet(Hop(s, a)) /\ Cardinality(Hop(s, a)) <= m /\ m \in Nat
      /\ IsFiniteSet(Hop(s, b)) /\ Cardinality(Hop(s, b)) <= n /\ n \in Nat
  BY HopReach
<1> HIDE DEF m, n
<1>2. IsFiniteSet(Hop(s, a) \cup Hop(s, b)) /\ Cardinality(Hop(s, a) \cup Hop(s, b)) <= m + n
  BY <1>1, CountedTwice
<1>3. m + n \in Nat
  BY <1>1
<1> QED
  BY <1>2, <1>3 DEF m, n

\* The room for four knight steps, with a file step of two or of one.
Four(s, a, b, c, d) == (HopRoom(s, a) + HopRoom(s, b)) + (HopRoom(s, c) + HopRoom(s, d))
FourHops(s, a, b, c, d) == (Hop(s, a) \cup Hop(s, b)) \cup (Hop(s, c) \cup Hop(s, d))

LEMMA FourReach ==
    ASSUME NEW s \in Squares, NEW a \in Steps, NEW b \in Steps, NEW c \in Steps, NEW d \in Steps
    PROVE  /\ IsFiniteSet(FourHops(s, a, b, c, d))
           /\ Cardinality(FourHops(s, a, b, c, d)) <= Four(s, a, b, c, d)
           /\ Four(s, a, b, c, d) \in Nat
<1> DEFINE m == HopRoom(s, a) + HopRoom(s, b)
           n == HopRoom(s, c) + HopRoom(s, d)
           S == Hop(s, a) \cup Hop(s, b)
           T == Hop(s, c) \cup Hop(s, d)
<1>1. IsFiniteSet(S) /\ Cardinality(S) <= m /\ m \in Nat /\ IsFiniteSet(T) /\ Cardinality(T) <= n /\ n \in Nat
  BY HopsReach
<1>2. Four(s, a, b, c, d) = m + n /\ FourHops(s, a, b, c, d) = S \cup T
  BY DEF Four, FourHops
<1> HIDE DEF m, n, S, T
<1>3. IsFiniteSet(S \cup T) /\ Cardinality(S \cup T) <= m + n
  BY <1>1, CountedTwice
<1>4. m + n \in Nat
  BY <1>1
<1> QED
  BY <1>2, <1>3, <1>4

KnightRoom(s) ==
    Four(s, <<1, 2>>, <<1, -2>>, <<-1, 2>>, <<-1, -2>>) + Four(s, <<2, 1>>, <<2, -1>>, <<-2, 1>>, <<-2, -1>>)

LEMMA KnightReach ==
    ASSUME NEW s \in Squares
    PROVE  /\ IsFiniteSet(LeaperAttacks(KnightSteps, s))
           /\ Cardinality(LeaperAttacks(KnightSteps, s)) <= KnightRoom(s)
<1> DEFINE S == FourHops(s, <<1, 2>>, <<1, -2>>, <<-1, 2>>, <<-1, -2>>)
           T == FourHops(s, <<2, 1>>, <<2, -1>>, <<-2, 1>>, <<-2, -1>>)
           m == Four(s, <<1, 2>>, <<1, -2>>, <<-1, 2>>, <<-1, -2>>)
           n == Four(s, <<2, 1>>, <<2, -1>>, <<-2, 1>>, <<-2, -1>>)
           L == LeaperAttacks(KnightSteps, s)
<1>1. \A d \in KnightSteps :
          \/ d \in {<<1, 2>>, <<1, -2>>, <<-1, 2>>, <<-1, -2>>}
          \/ d \in {<<2, 1>>, <<2, -1>>, <<-2, 1>>, <<-2, -1>>}
  BY DEF KnightSteps
<1>2. \A d \in KnightSteps : Hop(s, d) \subseteq S \cup T
  <2> TAKE d \in KnightSteps
  <2>1. CASE d \in {<<1, 2>>, <<1, -2>>, <<-1, 2>>, <<-1, -2>>}
    BY <2>1, Zenon DEF FourHops
  <2>2. CASE d \in {<<2, 1>>, <<2, -1>>, <<-2, 1>>, <<-2, -1>>}
    BY <2>2, Zenon DEF FourHops
  <2> QED
    BY <1>1, <2>1, <2>2
<1>3. \A t \in L : \E d \in KnightSteps : t \in Hop(s, d)
  BY DEF LeaperAttacks, Hop
<1>4. /\ IsFiniteSet(S) /\ Cardinality(S) <= m /\ m \in Nat /\ IsFiniteSet(T) /\ Cardinality(T) <= n /\ n \in Nat
  <2>1. /\ <<1, 2>> \in Steps /\ <<1, -2>> \in Steps /\ <<-1, 2>> \in Steps /\ <<-1, -2>> \in Steps
        /\ <<2, 1>> \in Steps /\ <<2, -1>> \in Steps /\ <<-2, 1>> \in Steps /\ <<-2, -1>> \in Steps
    BY DEF Steps
  <2> QED
    BY <2>1, FourReach
<1>5. KnightRoom(s) = m + n
  BY DEF KnightRoom
<1> HIDE DEF S, T, m, n
<1>6. IsFiniteSet(S \cup T) /\ Cardinality(S \cup T) <= m + n
  BY <1>4, CountedTwice
<1>7. L \in SUBSET (S \cup T)
  BY <1>2, <1>3
<1> HIDE DEF L
<1>8. /\ IsFiniteSet(L) /\ Cardinality(L) <= Cardinality(S \cup T)
      /\ Cardinality(L) \in Nat /\ Cardinality(S \cup T) \in Nat
  BY <1>6, <1>7, FS_Subset, FS_CardinalityType
<1> QED
  BY <1>4, <1>5, <1>6, <1>8 DEF L

LEMMA PawnReach ==
    ASSUME NEW s \in Squares, NEW color \in {0, 1}
    PROVE  /\ IsFiniteSet(PawnAttacks(color, s))
           /\ Cardinality(PawnAttacks(color, s)) <= IF File(s) \in 1..6 THEN 2 ELSE 1
<1> DEFINE v == IF color = 0 THEN 1 ELSE -1
           a == <<1, v>>
           b == <<-1, v>>
           L == PawnAttacks(color, s)
           U == Hop(s, a) \cup Hop(s, b)
<1>1. \A d \in {-1, 1} \X {v} : d = a \/ d = b
  OBVIOUS
<1>2. L \in SUBSET U
  <2> HIDE DEF a, b
  <2> QED
    BY <1>1 DEF PawnAttacks, LeaperAttacks, Hop
<1>0. a \in Steps /\ b \in Steps
  BY DEF Steps
<1>3. IsFiniteSet(U) /\ Cardinality(U) <= HopRoom(s, a) + HopRoom(s, b)
  BY <1>0, HopsReach
<1>4. HopRoom(s, a) + HopRoom(s, b) <= IF File(s) \in 1..6 THEN 2 ELSE 1
  <2>1. File(s) \in 0..7 /\ Rank(s) \in 0..7
    BY Flips
  <2>2. a[1] = 1 /\ b[1] = -1
    OBVIOUS
  <2>3. HopRoom(s, a) \in {0, 1} /\ HopRoom(s, b) \in {0, 1}
    BY DEF HopRoom, On
  <2>4. File(s) = 7 => HopRoom(s, a) = 0
    <3> HIDE DEF a
    <3> QED
      BY <2>2 DEF HopRoom, On
  <2>5. File(s) = 0 => HopRoom(s, b) = 0
    <3> HIDE DEF b
    <3> QED
      BY <2>2 DEF HopRoom, On
  <2> HIDE DEF a, b
  <2> QED
    BY <2>1, <2>3, <2>4, <2>5
<1>5. HopRoom(s, a) + HopRoom(s, b) \in Nat
  BY <1>0, HopsReach
<1> HIDE DEF U, L
<1>6. IsFiniteSet(L) /\ Cardinality(L) <= Cardinality(U) /\ Cardinality(L) \in Nat /\ Cardinality(U) \in Nat
  BY <1>2, <1>3, FS_Subset, FS_CardinalityType
<1> HIDE DEF a, b
<1>7. Cardinality(L) <= IF File(s) \in 1..6 THEN 2 ELSE 1
  BY <1>3, <1>4, <1>5, <1>6
<1> QED
  BY <1>6, <1>7 DEF L

Sum8(g) == ((g[0] + g[1]) + (g[2] + g[3])) + ((g[4] + g[5]) + (g[6] + g[7]))

LEMMA OffsetsAdd ==
    ASSUME NEW c \in ThreatPieces
    PROVE  /\ \A s \in Squares : RowsOf(c, s) \in Nat
           /\ SquareOffset[c][0] = 0
           /\ \A k \in 1..64 : SquareOffset[c][k] = SquareOffset[c][k - 1] + RowsOf(c, k - 1)
           /\ \A k \in 0..64 : SquareOffset[c][k] \in Nat
           /\ \A i \in 0..64 : \A j \in i..64 : SquareOffset[c][i] <= SquareOffset[c][j]
<1> DEFINE f == [s \in Squares |-> RowsOf(c, s)]
           A == SquareOffset[c]
<1>1. \A s \in Squares : RowsOf(c, s) \in Nat
  BY PseudoOf DEF RowsOf
<1>2. \A s \in 0..63 : f[s] = RowsOf(c, s)
  BY DEF Squares
<1>3. A = Before(f, 64)
  BY DEF SquareOffset
<1>4. \A k \in 0..(64 - 1) : f[k] \in Nat
  BY <1>1, <1>2 DEF Squares
<1> HIDE DEF f, A
<1>5. PICK n \in Nat : n = 64
  OBVIOUS
<1>6. Adds(Before(f, n), f, n)
  BY <1>4, <1>5, BeforeAdds
<1>7. /\ A[0] = 0 /\ \A k \in 1..64 : A[k] = A[k - 1] + f[k - 1]
      /\ \A k \in 0..64 : A[k] \in Nat
      /\ \A i \in 0..64 : \A j \in i..64 : A[i] <= A[j]
  BY <1>3, <1>5, <1>6, Zenon DEF Adds
<1>8. \A k \in 1..64 : f[k - 1] = RowsOf(c, k - 1)
  BY <1>2
<1> QED
  BY <1>1, <1>7, <1>8 DEF A

LEMMA OneRank ==
    ASSUME NEW c \in ThreatPieces, NEW r \in 0..7, NEW g,
           \A f \in 0..7 : g[f] \in Nat /\ RowsOf(c, 8 * r + f) <= g[f]
    PROVE  SquareOffset[c][8 * r + 8] <= SquareOffset[c][8 * r] + Sum8(g) /\ Sum8(g) \in Nat
<1> DEFINE A(k) == SquareOffset[c][8 * r + k]
           R(k) == RowsOf(c, 8 * r + k)
<1>1. \A f \in 0..7 : A(f + 1) = A(f) + R(f) /\ A(f) \in Nat /\ R(f) \in Nat
  <2> SUFFICES ASSUME NEW f \in 0..7 PROVE A(f + 1) = A(f) + R(f) /\ A(f) \in Nat /\ R(f) \in Nat
    OBVIOUS
  <2>1. PICK k \in 0..63 : k = 8 * r + f
    OBVIOUS
  <2>2. k + 1 \in 1..64 /\ (k + 1) - 1 = k /\ k \in Squares /\ k \in 0..64 /\ 8 * r + (f + 1) = k + 1
    BY <2>1 DEF Squares
  <2>3. SquareOffset[c][k + 1] = SquareOffset[c][k] + RowsOf(c, k)
    BY <2>2, OffsetsAdd
  <2>4. SquareOffset[c][k] \in Nat /\ RowsOf(c, k) \in Nat
    BY <2>2, OffsetsAdd
  <2> QED
    BY <2>1, <2>2, <2>3, <2>4
<1>2. A(0) = SquareOffset[c][8 * r] /\ A(8) = SquareOffset[c][8 * r + 8]
  BY DEF Squares
<1>3. \A f \in 0..7 : g[f] \in Nat /\ R(f) <= g[f]
  OBVIOUS
<1> HIDE DEF A, R
<1>4. /\ A(1) <= A(0) + g[0] /\ A(2) <= A(1) + g[1] /\ A(3) <= A(2) + g[2] /\ A(4) <= A(3) + g[3]
      /\ A(5) <= A(4) + g[4] /\ A(6) <= A(5) + g[5] /\ A(7) <= A(6) + g[6] /\ A(8) <= A(7) + g[7]
  BY <1>1, <1>3
<1>5. /\ A(0) \in Nat /\ A(1) \in Nat /\ A(2) \in Nat /\ A(3) \in Nat /\ A(4) \in Nat
      /\ A(5) \in Nat /\ A(6) \in Nat /\ A(7) \in Nat
  BY <1>1
<1>6. A(8) \in Nat
  <2>1. A(7 + 1) = A(7) + R(7) /\ R(7) \in Nat
    BY <1>1
  <2> QED
    BY <1>5, <2>1
<1>7. /\ g[0] \in Nat /\ g[1] \in Nat /\ g[2] \in Nat /\ g[3] \in Nat
      /\ g[4] \in Nat /\ g[5] \in Nat /\ g[6] \in Nat /\ g[7] \in Nat
  BY <1>3
<1>8. A(8) <= A(0) + Sum8(g) /\ Sum8(g) \in Nat
  BY <1>4, <1>5, <1>6, <1>7 DEF Sum8
<1> QED
  BY <1>2, <1>8

LEMMA AllRanks ==
    ASSUME NEW c \in ThreatPieces, NEW w,
           \A r \in 0..7 : w[r] \in Nat /\ SquareOffset[c][8 * r + 8] <= SquareOffset[c][8 * r] + w[r]
    PROVE  Span(c) <= Sum8(w) /\ Span(c) \in Nat
<1> DEFINE A == SquareOffset[c]
<1>1. A[0] = 0 /\ \A k \in 0..64 : A[k] \in Nat
  BY OffsetsAdd
<1>2. Span(c) = A[64]
  BY DEF Span
<1>3. \A r \in 0..7 : w[r] \in Nat /\ A[8 * r + 8] <= A[8 * r] + w[r]
  OBVIOUS
<1> HIDE DEF A
<1>4. /\ A[8] <= A[0] + w[0] /\ A[16] <= A[8] + w[1] /\ A[24] <= A[16] + w[2] /\ A[32] <= A[24] + w[3]
      /\ A[40] <= A[32] + w[4] /\ A[48] <= A[40] + w[5] /\ A[56] <= A[48] + w[6] /\ A[64] <= A[56] + w[7]
  BY <1>3
<1>5. /\ A[8] \in Nat /\ A[16] \in Nat /\ A[24] \in Nat /\ A[32] \in Nat
      /\ A[40] \in Nat /\ A[48] \in Nat /\ A[56] \in Nat /\ A[64] \in Nat
  BY <1>1
<1>6. /\ w[0] \in Nat /\ w[1] \in Nat /\ w[2] \in Nat /\ w[3] \in Nat
      /\ w[4] \in Nat /\ w[5] \in Nat /\ w[6] \in Nat /\ w[7] \in Nat
  BY <1>3
<1> QED
  BY <1>1, <1>2, <1>4, <1>5, <1>6 DEF Sum8

\* A piece that has at most room[r][f] rows on a square, and w[r] on a rank.
LEMMA SpanBound ==
    ASSUME NEW c \in ThreatPieces, NEW room, NEW w,
           \A r \in 0..7 : \A f \in 0..7 : room[r][f] \in Nat /\ RowsOf(c, 8 * r + f) <= room[r][f],
           \A r \in 0..7 : w[r] \in Nat /\ Sum8(room[r]) <= w[r]
    PROVE  Span(c) <= Sum8(w) /\ Span(c) \in Nat
<1>1. ASSUME NEW r \in 0..7 PROVE SquareOffset[c][8 * r + 8] <= SquareOffset[c][8 * r] + w[r]
  <2> DEFINE g == room[r]
             A == SquareOffset[c]
  <2>2. \A f \in 0..7 : g[f] \in Nat /\ RowsOf(c, 8 * r + f) <= g[f]
    OBVIOUS
  <2>4. Sum8(g) <= w[r]
    OBVIOUS
  <2> HIDE DEF g
  <2>5. A[8 * r + 8] <= A[8 * r] + Sum8(g) /\ Sum8(g) \in Nat
    BY <2>2, OneRank
  <2>6. A[8 * r] \in Nat /\ A[8 * r + 8] \in Nat /\ w[r] \in Nat
    <3>1. 8 * r \in 0..64 /\ 8 * r + 8 \in 0..64
      OBVIOUS
    <3> QED
      BY <3>1, OffsetsAdd
  <2> HIDE DEF A
  <2>7. A[8 * r + 8] <= A[8 * r] + w[r]
    BY <2>4, <2>5, <2>6
  <2> QED
    BY <2>7 DEF A
<1>2. \A r \in 0..7 : w[r] \in Nat
  OBVIOUS
<1> QED
  BY <1>1, <1>2, AllRanks

\* Where the square of a file and a rank is.
LEMMA OnRank ==
    ASSUME NEW f \in 0..7, NEW r \in 0..7
    PROVE  8 * r + f \in Squares /\ File(8 * r + f) = f /\ Rank(8 * r + f) = r
BY DEF Squares, File, Rank

LEMMA PawnSpan ==
    ASSUME NEW c \in ThreatPieces, TypeOf(c) = Pawn
    PROVE  Span(c) <= 84 /\ Span(c) \in Nat
<1> DEFINE full == [f \in 0..7 |-> IF f \in 1..6 THEN 2 ELSE 1]
           none == [f \in 0..7 |-> 0]
           room == [r \in 0..7 |-> IF r \in 1..6 THEN full ELSE none]
           w == [r \in 0..7 |-> IF r \in 1..6 THEN 14 ELSE 0]
<1>1. ASSUME NEW r \in 0..7, NEW f \in 0..7
      PROVE  room[r][f] \in Nat /\ RowsOf(c, 8 * r + f) <= room[r][f]
  <2>1. room[r][f] = IF r \in 1..6 THEN (IF f \in 1..6 THEN 2 ELSE 1) ELSE 0
    OBVIOUS
  <2> HIDE DEF room
  <2>2. PICK s \in Squares : s = 8 * r + f /\ File(s) = f /\ Rank(s) = r
    BY OnRank
  <2>3. CASE r \in 1..6
    <3>1. PseudoAttacks[c][s] = AttacksOf(TypeOf(c), ColorOf(c), s, {})
      BY PseudoOf
    <3>2. TypeOf(c) \in 1..6 /\ ColorOf(c) \in {0, 1}
      BY CodeParts
    <3>3. PseudoAttacks[c][s] = PawnAttacks(ColorOf(c), s)
      BY <3>1, <3>2, PawnKind DEF PawnAttacks
    <3>4. Cardinality(PseudoAttacks[c][s]) <= IF File(s) \in 1..6 THEN 2 ELSE 1
      BY <3>2, <3>3, PawnReach
    <3>5. s \in 8..55
      BY <2>2, <2>3
    <3>6. RowsOf(c, s) = Cardinality(PseudoAttacks[c][s])
      BY <3>5 DEF RowsOf
    <3> QED
      BY <2>1, <2>2, <2>3, <3>4, <3>6
  <2>4. CASE r \notin 1..6
    <3>1. s \notin 8..55
      BY <2>2, <2>4
    <3>2. RowsOf(c, s) = 0
      BY <3>1 DEF RowsOf
    <3> QED
      BY <2>1, <2>2, <2>4, <3>2
  <2> QED
    BY <2>3, <2>4
<1>2. ASSUME NEW r \in 0..7 PROVE w[r] \in Nat /\ Sum8(room[r]) <= w[r]
  BY DEF Sum8
<1>3. Sum8(w) = 84
  BY DEF Sum8
<1> HIDE DEF room, w
<1>4. Span(c) <= Sum8(w) /\ Span(c) \in Nat
  BY <1>1, <1>2, SpanBound
<1> QED
  BY <1>3, <1>4

LEMMA RookSpan ==
    ASSUME NEW c \in ThreatPieces, TypeOf(c) = Rook
    PROVE  Span(c) <= 896 /\ Span(c) \in Nat
<1> DEFINE full == [f \in 0..7 |-> 14]
           room == [r \in 0..7 |-> full]
           w == [r \in 0..7 |-> 112]
<1>1. ASSUME NEW r \in 0..7, NEW f \in 0..7
      PROVE  room[r][f] \in Nat /\ RowsOf(c, 8 * r + f) <= room[r][f]
  <2>1. room[r][f] = 14
    OBVIOUS
  <2> HIDE DEF room
  <2>2. PICK s \in Squares : s = 8 * r + f
    BY OnRank
  <2>3. PseudoAttacks[c][s] = SliderAttacks(TypeOf(c), s, {})
    BY PseudoOf, CodeParts, SliderKind DEF Rook, Pawn, Knight, King
  <2>4. Cardinality(PseudoAttacks[c][s]) <= 14
    BY <2>3, CodeParts, RookReach
  <2>5. RowsOf(c, s) = Cardinality(PseudoAttacks[c][s])
    BY DEF RowsOf, Pawn, Rook
  <2> QED
    BY <2>1, <2>2, <2>4, <2>5
<1>2. ASSUME NEW r \in 0..7 PROVE w[r] \in Nat /\ Sum8(room[r]) <= w[r]
  BY DEF Sum8
<1>3. Sum8(w) = 896
  BY DEF Sum8
<1> HIDE DEF room, w
<1>4. Span(c) <= Sum8(w) /\ Span(c) \in Nat
  BY <1>1, <1>2, SpanBound
<1> QED
  BY <1>3, <1>4

\* The room on the diagonals of a rank, and the sums over the ranks.
DiagonalRanks == [r \in 0..7 |-> CASE r \in {0, 7} -> 56 [] r \in {1, 6} -> 68
                                   [] r \in {2, 5} -> 76 [] OTHER -> 80]

LEMMA RankOfDiagonals ==
    ASSUME NEW r \in 0..7
    PROVE  /\ \A f \in 0..7 : DiagonalRoom(f, r) \in Nat
           /\ ((DiagonalRoom(0, r) + DiagonalRoom(1, r)) + (DiagonalRoom(2, r) + DiagonalRoom(3, r)))
              + ((DiagonalRoom(4, r) + DiagonalRoom(5, r)) + (DiagonalRoom(6, r) + DiagonalRoom(7, r)))
              = DiagonalRanks[r]
           /\ DiagonalRanks[r] \in Nat
<1>1. \A f \in 0..7 : DiagonalRoom(f, r) \in Nat
  BY DEF DiagonalRoom, Lesser
<1>2. DiagonalRanks[r] = CASE r \in {0, 7} -> 56 [] r \in {1, 6} -> 68 [] r \in {2, 5} -> 76 [] OTHER -> 80
  BY DEF DiagonalRanks
<1> DEFINE T == ((DiagonalRoom(0, r) + DiagonalRoom(1, r)) + (DiagonalRoom(2, r) + DiagonalRoom(3, r)))
                + ((DiagonalRoom(4, r) + DiagonalRoom(5, r)) + (DiagonalRoom(6, r) + DiagonalRoom(7, r)))
<1>3. r \in {0, 7} => T = 56
  BY DEF DiagonalRoom, Lesser
<1>4. r \in {1, 6} => T = 68
  BY DEF DiagonalRoom, Lesser
<1>5. r \in {2, 5} => T = 76
  BY DEF DiagonalRoom, Lesser
<1>6. r \in {3, 4} => T = 80
  BY DEF DiagonalRoom, Lesser
<1> HIDE DEF T
<1>7. r \in {0, 7} \/ r \in {1, 6} \/ r \in {2, 5} \/ r \in {3, 4}
  OBVIOUS
<1>8. T = DiagonalRanks[r]
  BY <1>2, <1>3, <1>4, <1>5, <1>6, <1>7
<1>9. DiagonalRanks[r] \in Nat
  BY <1>2, <1>7
<1> QED
  BY <1>1, <1>8, <1>9 DEF T

LEMMA BishopSpan ==
    ASSUME NEW c \in ThreatPieces, TypeOf(c) = Bishop
    PROVE  Span(c) <= 560 /\ Span(c) \in Nat
<1> DEFINE room == [r \in 0..7 |-> [f \in 0..7 |-> DiagonalRoom(f, r)]]
           w == DiagonalRanks
<1>1. ASSUME NEW r \in 0..7, NEW f \in 0..7
      PROVE  room[r][f] \in Nat /\ RowsOf(c, 8 * r + f) <= room[r][f]
  <2>1. room[r][f] = DiagonalRoom(f, r)
    OBVIOUS
  <2> HIDE DEF room
  <2>2. PICK s \in Squares : s = 8 * r + f /\ File(s) = f /\ Rank(s) = r
    BY OnRank
  <2>3. PseudoAttacks[c][s] = SliderAttacks(TypeOf(c), s, {})
    BY PseudoOf, CodeParts, SliderKind DEF Bishop, Pawn, Knight, King
  <2>4. Cardinality(PseudoAttacks[c][s]) <= DiagonalRoom(File(s), Rank(s))
    BY <2>3, CodeParts, BishopReach
  <2>5. RowsOf(c, s) = Cardinality(PseudoAttacks[c][s])
    BY DEF RowsOf, Pawn, Bishop
  <2>6. DiagonalRoom(f, r) \in Nat
    BY RankOfDiagonals
  <2> QED
    BY <2>1, <2>2, <2>4, <2>5, <2>6
<1>2. ASSUME NEW r \in 0..7 PROVE w[r] \in Nat /\ Sum8(room[r]) <= w[r]
  <2> DEFINE g == room[r]
  <2>1. /\ g[0] = DiagonalRoom(0, r) /\ g[1] = DiagonalRoom(1, r)
        /\ g[2] = DiagonalRoom(2, r) /\ g[3] = DiagonalRoom(3, r)
        /\ g[4] = DiagonalRoom(4, r) /\ g[5] = DiagonalRoom(5, r)
        /\ g[6] = DiagonalRoom(6, r) /\ g[7] = DiagonalRoom(7, r)
    OBVIOUS
  <2> HIDE DEF g
  <2>2. Sum8(g) = DiagonalRanks[r] /\ DiagonalRanks[r] \in Nat
    BY <2>1, RankOfDiagonals DEF Sum8
  <2> QED
    BY <2>2 DEF g
<1>3. Sum8(w) = 560
  BY DEF Sum8, DiagonalRanks
<1> HIDE DEF room, w
<1>4. Span(c) <= Sum8(w) /\ Span(c) \in Nat
  BY <1>1, <1>2, SpanBound
<1> QED
  BY <1>3, <1>4

LEMMA QueenSpan ==
    ASSUME NEW c \in ThreatPieces, TypeOf(c) = Queen
    PROVE  Span(c) <= 1456 /\ Span(c) \in Nat
<1> DEFINE room == [r \in 0..7 |-> [f \in 0..7 |-> 14 + DiagonalRoom(f, r)]]
           w == [r \in 0..7 |-> 112 + DiagonalRanks[r]]
<1>1. ASSUME NEW r \in 0..7, NEW f \in 0..7
      PROVE  room[r][f] \in Nat /\ RowsOf(c, 8 * r + f) <= room[r][f]
  <2>1. room[r][f] = 14 + DiagonalRoom(f, r)
    OBVIOUS
  <2> HIDE DEF room
  <2>2. PICK s \in Squares : s = 8 * r + f /\ File(s) = f /\ Rank(s) = r
    BY OnRank
  <2>3. PseudoAttacks[c][s] = SliderAttacks(TypeOf(c), s, {})
    BY PseudoOf, CodeParts, SliderKind DEF Queen, Pawn, Knight, King
  <2>4. Cardinality(PseudoAttacks[c][s]) <= 14 + DiagonalRoom(File(s), Rank(s))
    BY <2>3, CodeParts, QueenReach
  <2>5. RowsOf(c, s) = Cardinality(PseudoAttacks[c][s])
    BY DEF RowsOf, Pawn, Queen
  <2>6. DiagonalRoom(f, r) \in Nat
    BY RankOfDiagonals
  <2> QED
    BY <2>1, <2>2, <2>4, <2>5, <2>6
<1>2. ASSUME NEW r \in 0..7 PROVE w[r] \in Nat /\ Sum8(room[r]) <= w[r]
  <2> DEFINE g == room[r]
  <2>1. /\ g[0] = 14 + DiagonalRoom(0, r) /\ g[1] = 14 + DiagonalRoom(1, r)
        /\ g[2] = 14 + DiagonalRoom(2, r) /\ g[3] = 14 + DiagonalRoom(3, r)
        /\ g[4] = 14 + DiagonalRoom(4, r) /\ g[5] = 14 + DiagonalRoom(5, r)
        /\ g[6] = 14 + DiagonalRoom(6, r) /\ g[7] = 14 + DiagonalRoom(7, r)
    OBVIOUS
  <2> HIDE DEF g
  <2>2. Sum8(g) = 112 + DiagonalRanks[r] /\ DiagonalRanks[r] \in Nat
    <3>1. \A f \in 0..7 : DiagonalRoom(f, r) \in Nat
      BY RankOfDiagonals
    <3> QED
      BY <2>1, <3>1, RankOfDiagonals DEF Sum8
  <2> QED
    BY <2>2 DEF g
<1>3. Sum8(w) = 1456
  BY DEF Sum8, DiagonalRanks
<1> HIDE DEF room, w
<1>4. Span(c) <= Sum8(w) /\ Span(c) \in Nat
  BY <1>1, <1>2, SpanBound
<1> QED
  BY <1>3, <1>4

\* The room for knight steps from a file and a rank.
FourFrom(f, r, m, n) == (On(f + m, r + n) + On(f + m, r - n)) + (On(f - m, r + n) + On(f - m, r - n))
KnightFrom(f, r) == FourFrom(f, r, 1, 2) + FourFrom(f, r, 2, 1)
KnightRanks == [r \in 0..7 |-> CASE r \in {0, 7} -> 26 [] r \in {1, 6} -> 38 [] OTHER -> 52]

LEMMA KnightRoomFrom ==
    ASSUME NEW s \in Squares
    PROVE  KnightRoom(s) = KnightFrom(File(s), Rank(s))
<1>1. File(s) \in 0..7 /\ Rank(s) \in 0..7
  BY Flips
<1>2. ASSUME NEW m \in {1, 2}, NEW n \in {1, 2}
      PROVE  Four(s, <<m, n>>, <<m, -n>>, <<-m, n>>, <<-m, -n>>) = FourFrom(File(s), Rank(s), m, n)
  <2>1. /\ File(s) + (-m) = File(s) - m /\ Rank(s) + (-n) = Rank(s) - n
    BY <1>1
  <2> QED
    BY <2>1 DEF Four, FourFrom, HopRoom
<1>3. /\ Four(s, <<1, 2>>, <<1, -2>>, <<-1, 2>>, <<-1, -2>>) = FourFrom(File(s), Rank(s), 1, 2)
      /\ Four(s, <<2, 1>>, <<2, -1>>, <<-2, 1>>, <<-2, -1>>) = FourFrom(File(s), Rank(s), 2, 1)
  BY <1>2
<1> QED
  BY <1>3 DEF KnightRoom, KnightFrom

LEMMA RankOfKnights ==
    ASSUME NEW r \in 0..7
    PROVE  /\ \A f \in 0..7 : KnightFrom(f, r) \in Nat
           /\ ((KnightFrom(0, r) + KnightFrom(1, r)) + (KnightFrom(2, r) + KnightFrom(3, r)))
              + ((KnightFrom(4, r) + KnightFrom(5, r)) + (KnightFrom(6, r) + KnightFrom(7, r)))
              = KnightRanks[r]
           /\ KnightRanks[r] \in Nat
<1> DEFINE up == On(0, r + 2) + On(0, r - 2)
           by == On(0, r + 1) + On(0, r - 1)
<1>0. \A x, y : On(x, y) \in {0, 1}
  BY DEF On
<1>1. \A f \in 0..7 : KnightFrom(f, r) \in Nat
  BY <1>0 DEF KnightFrom, FourFrom
<1>2. up \in Nat /\ by \in Nat
  BY <1>0
<1>3. /\ FourFrom(0, r, 1, 2) = up /\ FourFrom(7, r, 1, 2) = up
      /\ \A f \in 1..6 : FourFrom(f, r, 1, 2) = up + up
  BY DEF FourFrom, On
<1>4. /\ FourFrom(0, r, 2, 1) = by /\ FourFrom(7, r, 2, 1) = by
      /\ FourFrom(1, r, 2, 1) = by /\ FourFrom(6, r, 2, 1) = by
      /\ \A f \in 2..5 : FourFrom(f, r, 2, 1) = by + by
  BY DEF FourFrom, On
<1>5. 14 * up + 12 * by = KnightRanks[r] /\ KnightRanks[r] \in Nat
  BY DEF On, KnightRanks
<1> HIDE DEF up, by
<1>6. /\ KnightFrom(0, r) = up + by /\ KnightFrom(7, r) = up + by
      /\ KnightFrom(1, r) = (up + up) + by /\ KnightFrom(6, r) = (up + up) + by
      /\ \A f \in 2..5 : KnightFrom(f, r) = (up + up) + (by + by)
  BY <1>3, <1>4 DEF KnightFrom
<1>7. ((KnightFrom(0, r) + KnightFrom(1, r)) + (KnightFrom(2, r) + KnightFrom(3, r)))
      + ((KnightFrom(4, r) + KnightFrom(5, r)) + (KnightFrom(6, r) + KnightFrom(7, r)))
      = 14 * up + 12 * by
  BY <1>2, <1>6
<1> QED
  BY <1>1, <1>5, <1>7

LEMMA KnightSpan ==
    ASSUME NEW c \in ThreatPieces, TypeOf(c) = Knight
    PROVE  Span(c) <= 336 /\ Span(c) \in Nat
<1> DEFINE room == [r \in 0..7 |-> [f \in 0..7 |-> KnightFrom(f, r)]]
           w == KnightRanks
<1>1. ASSUME NEW r \in 0..7, NEW f \in 0..7
      PROVE  room[r][f] \in Nat /\ RowsOf(c, 8 * r + f) <= room[r][f]
  <2>1. room[r][f] = KnightFrom(f, r)
    OBVIOUS
  <2> HIDE DEF room
  <2>2. PICK s \in Squares : s = 8 * r + f /\ File(s) = f /\ Rank(s) = r
    BY OnRank
  <2>3. PseudoAttacks[c][s] = LeaperAttacks(KnightSteps, s)
    BY PseudoOf, CodeParts, KnightKind
  <2>4. Cardinality(PseudoAttacks[c][s]) <= KnightFrom(File(s), Rank(s))
    BY <2>3, KnightReach, KnightRoomFrom
  <2>5. RowsOf(c, s) = Cardinality(PseudoAttacks[c][s])
    BY DEF RowsOf, Pawn, Knight
  <2>6. KnightFrom(f, r) \in Nat
    BY RankOfKnights
  <2> QED
    BY <2>1, <2>2, <2>4, <2>5, <2>6
<1>2. ASSUME NEW r \in 0..7 PROVE w[r] \in Nat /\ Sum8(room[r]) <= w[r]
  <2> DEFINE g == room[r]
  <2>1. /\ g[0] = KnightFrom(0, r) /\ g[1] = KnightFrom(1, r)
        /\ g[2] = KnightFrom(2, r) /\ g[3] = KnightFrom(3, r)
        /\ g[4] = KnightFrom(4, r) /\ g[5] = KnightFrom(5, r)
        /\ g[6] = KnightFrom(6, r) /\ g[7] = KnightFrom(7, r)
    OBVIOUS
  <2> HIDE DEF g
  <2>2. Sum8(g) = KnightRanks[r] /\ KnightRanks[r] \in Nat
    BY <2>1, RankOfKnights DEF Sum8
  <2> QED
    BY <2>2 DEF g
<1>3. Sum8(w) = 336
  BY DEF Sum8, KnightRanks
<1> HIDE DEF room, w
<1>4. Span(c) <= Sum8(w) /\ Span(c) \in Nat
  BY <1>1, <1>2, SpanBound
<1> QED
  BY <1>3, <1>4

-----------------------------------------------------------------------------
(* The regions of the threat table *)

LEMMA Grows ==
    ASSUME NEW p \in Int, NEW q \in Int, NEW n \in Nat, p < q
    PROVE  p * n + n <= q * n
<1> DEFINE k == q - p - 1
           x == p * n
           y == k * n
<1>1. k \in Nat /\ q = p + k + 1
  OBVIOUS
<1> HIDE DEF k
<1>2. q * n = p * n + k * n + n
  BY <1>1
<1>3. y \in Nat /\ x \in Int
  BY <1>1
<1>4. q * n = x + y + n
  BY <1>2
<1> HIDE DEF x, y
<1>5. x + n <= q * n
  BY <1>3, <1>4
<1> QED
  BY <1>5 DEF x

\* The targets of a type, by their place in its regions.
LEMMA TargetPlaces ==
    ASSUME NEW x \in 1..6
    PROVE  /\ ValidTargets[x] \in {0, 4, 8, 10}
           /\ \A y \in 1..6 : ThreatTargetMap[x][y] \in Int /\ ThreatTargetMap[x][y] < ValidTargets[x] \div 2
           /\ \A y, z \in 1..6 :
                  ThreatTargetMap[x][y] >= 0 /\ ThreatTargetMap[x][y] = ThreatTargetMap[x][z] => y = z
<1> DEFINE Good(n, row) == /\ \A y \in 1..6 : row[y] \in Int /\ row[y] < n \div 2
                           /\ \A y, z \in 1..6 : row[y] >= 0 /\ row[y] = row[z] => y = z
<1>1. ASSUME x = 1 PROVE ValidTargets[x] = 4 /\ ThreatTargetMap[x] = <<-1, 0, -1, 1, -1, -1>>
  BY <1>1 DEF ValidTargets, ThreatTargetMap
<1>2. ASSUME x = 2 PROVE ValidTargets[x] = 10 /\ ThreatTargetMap[x] = <<0, 1, 2, 3, 4, -1>>
  BY <1>2 DEF ValidTargets, ThreatTargetMap
<1>3. ASSUME x = 3 PROVE ValidTargets[x] = 8 /\ ThreatTargetMap[x] = <<0, 1, 2, 3, -1, -1>>
  BY <1>3 DEF ValidTargets, ThreatTargetMap
<1>4. ASSUME x = 4 PROVE ValidTargets[x] = 8 /\ ThreatTargetMap[x] = <<0, 1, 2, 3, -1, -1>>
  BY <1>4 DEF ValidTargets, ThreatTargetMap
<1>5. ASSUME x = 5 PROVE ValidTargets[x] = 10 /\ ThreatTargetMap[x] = <<0, 1, 2, 3, 4, -1>>
  BY <1>5 DEF ValidTargets, ThreatTargetMap
<1>6. ASSUME x = 6 PROVE ValidTargets[x] = 0 /\ ThreatTargetMap[x] = <<-1, -1, -1, -1, -1, -1>>
  BY <1>6 DEF ValidTargets, ThreatTargetMap
<1>7. /\ Good(4, <<-1, 0, -1, 1, -1, -1>>) /\ Good(10, <<0, 1, 2, 3, 4, -1>>)
      /\ Good(8, <<0, 1, 2, 3, -1, -1>>) /\ Good(0, <<-1, -1, -1, -1, -1, -1>>)
  OBVIOUS
<1> HIDE DEF Good
<1>8. ValidTargets[x] \in {0, 4, 8, 10} /\ Good(ValidTargets[x], ThreatTargetMap[x])
  <2>1. x = 1 \/ x = 2 \/ x = 3 \/ x = 4 \/ x = 5 \/ x = 6
    OBVIOUS
  <2> QED
    BY <2>1, <1>1, <1>2, <1>3, <1>4, <1>5, <1>6, <1>7
<1>9. PICK n, row : n = ValidTargets[x] /\ row = ThreatTargetMap[x] /\ Good(n, row)
  BY <1>8
<1>10. /\ \A y \in 1..6 : row[y] \in Int /\ row[y] < n \div 2
       /\ \A y, z \in 1..6 : row[y] >= 0 /\ row[y] = row[z] => y = z
  BY <1>9 DEF Good
<1>11. ValidTargets[x] \in {0, 4, 8, 10}
  BY <1>8
<1>12. \A y \in 1..6 : ThreatTargetMap[x][y] \in Int /\ ThreatTargetMap[x][y] < ValidTargets[x] \div 2
  BY <1>9, <1>10
<1>13. \A y, z \in 1..6 : ThreatTargetMap[x][y] >= 0 /\ ThreatTargetMap[x][y] = ThreatTargetMap[x][z] => y = z
  BY <1>9, <1>10
<1> QED
  BY <1>11, <1>12, <1>13

\* The place of a target's region among those of an attacker.
Place(a, b) == ColorOf(b) * (ValidTargets[TypeOf(a)] \div 2) + Mapped(a, b)

LEMMA PlaceOf ==
    ASSUME NEW a \in ThreatPieces, NEW b \in ThreatPieces, Mapped(a, b) >= 0
    PROVE  /\ ValidTargets[TypeOf(a)] \in Nat /\ Place(a, b) \in Nat /\ Place(a, b) < ValidTargets[TypeOf(a)]
           /\ \A e \in ThreatPieces : Mapped(a, e) >= 0 /\ Place(a, e) = Place(a, b) => e = b
<1> DEFINE v == ValidTargets[TypeOf(a)]
           h == v \div 2
<1>1. v \in {0, 4, 8, 10}
  BY CodeParts, TargetPlaces
<1>2. v \in Nat /\ h \in Nat /\ h + h = v
  <2>1. \A n \in {0, 4, 8, 10} : n \in Nat /\ n \div 2 \in Nat /\ n \div 2 + n \div 2 = n
    OBVIOUS
  <2> HIDE DEF v
  <2> QED
    BY <1>1, <2>1
<1>3. \A e \in ThreatPieces : Mapped(a, e) \in Int /\ Mapped(a, e) < h
  BY CodeParts, TargetPlaces DEF Mapped
<1>4. \A e \in ThreatPieces : ColorOf(e) \in {0, 1} /\ Place(a, e) = ColorOf(e) * h + Mapped(a, e)
  BY CodeParts DEF Place
<1> HIDE DEF v, h
<1>5. \A e \in ThreatPieces : Place(a, e) = IF ColorOf(e) = 1 THEN h + Mapped(a, e) ELSE Mapped(a, e)
  BY <1>2, <1>3, <1>4
<1>6. Place(a, b) \in Nat /\ Place(a, b) < v
  BY <1>2, <1>3, <1>4, <1>5
<1>7. ASSUME NEW e \in ThreatPieces, Mapped(a, e) >= 0, Place(a, e) = Place(a, b) PROVE e = b
  <2>1. ColorOf(e) = ColorOf(b) /\ Mapped(a, e) = Mapped(a, b)
    BY <1>2, <1>3, <1>4, <1>5, <1>7
  <2>2. TypeOf(e) = TypeOf(b)
    BY <2>1, CodeParts, TargetPlaces DEF Mapped
  <2> QED
    BY <2>1, <2>2, CodeParts
<1> QED
  BY <1>2, <1>6, <1>7 DEF v

LEMMA RegionsFit ==
    /\ \A c \in 0..15 : RegionsOf(c) \in Nat /\ GlobalOffset[c + 1] = GlobalOffset[c] + RegionsOf(c)
    /\ \A c \in 0..16 : GlobalOffset[c] \in Nat
    /\ \A i, j \in 0..16 : i <= j => GlobalOffset[i] <= GlobalOffset[j]
    /\ GlobalOffset[16] <= 59808
<1> DEFINE R == [c \in 0..15 |-> RegionsOf(c)]
           G == GlobalOffset
<1>1. \A c \in 0..15 : R[c] = RegionsOf(c)
  OBVIOUS
<1>2. \A c \in ThreatPieces : Span(c) \in Nat
  <2>1. 64 \in 0..64
    OBVIOUS
  <2> QED
    BY <2>1, OffsetsAdd DEF Span
<1>3. ASSUME NEW c \in 0..15
      PROVE  /\ RegionsOf(c) \in Nat
             /\ c \in {0, 6, 7, 8, 14, 15} => RegionsOf(c) = 0
             /\ c \in {1, 9} => RegionsOf(c) <= 336
             /\ c \in {2, 10} => RegionsOf(c) <= 3360
             /\ c \in {3, 11} => RegionsOf(c) <= 4480
             /\ c \in {4, 12} => RegionsOf(c) <= 7168
             /\ c \in {5, 13} => RegionsOf(c) <= 14560
  <2>1. CASE c \notin ThreatPieces
    BY <2>1 DEF RegionsOf, ThreatPieces
  <2>2. CASE c \in ThreatPieces
    <3> DEFINE n == Span(c)
               v == ValidTargets[TypeOf(c)]
    <3>1. RegionsOf(c) = v * n
      BY <2>2 DEF RegionsOf
    <3>2. n \in Nat
      BY <1>2, <2>2
    <3>3. /\ c \in {1, 9} => TypeOf(c) = Pawn /\ v = 4
          /\ c \in {2, 10} => TypeOf(c) = Knight /\ v = 10
          /\ c \in {3, 11} => TypeOf(c) = Bishop /\ v = 8
          /\ c \in {4, 12} => TypeOf(c) = Rook /\ v = 8
          /\ c \in {5, 13} => TypeOf(c) = Queen /\ v = 10
          /\ c \in {6, 14} => v = 0
      BY DEF TypeOf, ValidTargets, Pawn, Knight, Bishop, Rook, Queen
    <3>4. /\ c \in {1, 9} => n <= 84
          /\ c \in {2, 10} => n <= 336
          /\ c \in {3, 11} => n <= 560
          /\ c \in {4, 12} => n <= 896
          /\ c \in {5, 13} => n <= 1456
      BY <2>2, <3>3, PawnSpan, KnightSpan, BishopSpan, RookSpan, QueenSpan
    <3>5. c \in {1, 2, 3, 4, 5, 6} \cup {9, 10, 11, 12, 13, 14}
      BY <2>2 DEF ThreatPieces
    <3> HIDE DEF n, v
    <3>6. /\ c \in {1, 9} => v * n = 4 * n
          /\ c \in {2, 10} => v * n = 10 * n
          /\ c \in {3, 11} => v * n = 8 * n
          /\ c \in {4, 12} => v * n = 8 * n
          /\ c \in {5, 13} => v * n = 10 * n
          /\ c \in {6, 14} => v * n = 0
      BY <3>2, <3>3
    <3> QED
      BY <3>1, <3>2, <3>4, <3>5, <3>6
  <2> QED
    BY <2>1, <2>2
<1>4. G = Before(R, 16)
  BY DEF GlobalOffset
<1>5. \A k \in 0..(16 - 1) : R[k] \in Nat
  BY <1>1, <1>3
<1> HIDE DEF R, G
<1>6. PICK n \in Nat : n = 16
  OBVIOUS
<1>7. Adds(Before(R, n), R, n)
  BY <1>5, <1>6, BeforeAdds
<1>8. /\ G[0] = 0 /\ \A k \in 1..16 : G[k] = G[k - 1] + R[k - 1]
      /\ \A k \in 0..16 : G[k] \in Nat
      /\ \A i \in 0..16 : \A j \in i..16 : G[i] <= G[j]
  BY <1>4, <1>6, <1>7, Zenon DEF Adds
<1>9. \A c \in 0..15 : G[c + 1] = G[c] + RegionsOf(c)
  <2> TAKE c \in 0..15
  <2>1. c + 1 \in 1..16 /\ (c + 1) - 1 = c
    OBVIOUS
  <2>2. G[c + 1] = G[(c + 1) - 1] + R[(c + 1) - 1]
    BY <1>8, <2>1
  <2> QED
    BY <1>1, <2>1, <2>2
<1>10. G[16] <= 59808
  <2>1. /\ G[1] = G[0] + RegionsOf(0) /\ G[2] = G[1] + RegionsOf(1)
        /\ G[3] = G[2] + RegionsOf(2) /\ G[4] = G[3] + RegionsOf(3)
        /\ G[5] = G[4] + RegionsOf(4) /\ G[6] = G[5] + RegionsOf(5)
        /\ G[7] = G[6] + RegionsOf(6) /\ G[8] = G[7] + RegionsOf(7)
        /\ G[9] = G[8] + RegionsOf(8) /\ G[10] = G[9] + RegionsOf(9)
        /\ G[11] = G[10] + RegionsOf(10) /\ G[12] = G[11] + RegionsOf(11)
        /\ G[13] = G[12] + RegionsOf(12) /\ G[14] = G[13] + RegionsOf(13)
        /\ G[15] = G[14] + RegionsOf(14) /\ G[16] = G[15] + RegionsOf(15)
    BY <1>9
  <2>2. /\ RegionsOf(0) = 0 /\ RegionsOf(6) = 0 /\ RegionsOf(7) = 0 /\ RegionsOf(8) = 0
        /\ RegionsOf(14) = 0 /\ RegionsOf(15) = 0
        /\ RegionsOf(1) <= 336 /\ RegionsOf(2) <= 3360 /\ RegionsOf(3) <= 4480
        /\ RegionsOf(4) <= 7168 /\ RegionsOf(5) <= 14560
        /\ RegionsOf(9) <= 336 /\ RegionsOf(10) <= 3360 /\ RegionsOf(11) <= 4480
        /\ RegionsOf(12) <= 7168 /\ RegionsOf(13) <= 14560
        /\ \A c \in 0..15 : RegionsOf(c) \in Nat
    BY <1>3
  <2>3. G[0] = 0
    BY <1>8
  <2>4. /\ G[5] <= 15344 /\ G[5] \in Nat
    BY <2>1, <2>2, <2>3
  <2>5. G[9] <= 29904 /\ G[9] \in Nat
    BY <2>1, <2>2, <2>4
  <2>6. G[12] <= G[9] + 8176 /\ G[12] \in Nat
    BY <2>1, <2>2, <2>5
  <2>7. G[16] <= G[12] + 21728 /\ G[16] \in Nat
    BY <2>1, <2>2, <2>6
  <2> QED
    BY <2>5, <2>6, <2>7
<1>11. \A i, j \in 0..16 : i <= j => G[i] <= G[j]
  BY <1>8
<1> QED
  BY <1>3, <1>8, <1>9, <1>10, <1>11 DEF G

LEMMA RegionOf ==
    ASSUME NEW a \in ThreatPieces, NEW b \in ThreatPieces, Mapped(a, b) >= 0
    PROVE  /\ Span(a) \in Nat /\ TargetOffset(a, b) \in Nat /\ GlobalOffset[a] <= TargetOffset(a, b)
           /\ TargetOffset(a, b) = GlobalOffset[a] + Place(a, b) * Span(a)
           /\ TargetOffset(a, b) + Span(a) <= GlobalOffset[a + 1]
           /\ TargetOffset(a, b) + Span(a) <= 59808
<1> DEFINE n == Span(a)
           p == Place(a, b)
           v == ValidTargets[TypeOf(a)]
           x == p * n
           y == v * n
           g == GlobalOffset[a]
           h == GlobalOffset[a + 1]
<1>1. n \in Nat
  <2>1. 64 \in 0..64
    OBVIOUS
  <2> QED
    BY <2>1, OffsetsAdd DEF Span
<1>2. v \in Nat /\ p \in Nat /\ p < v
  BY PlaceOf
<1>3. a \in 0..15 /\ a + 1 \in 0..16 /\ a \in 0..16 /\ 16 \in 0..16 /\ a + 1 <= 16
  BY CodeParts
<1>4. g \in Nat /\ h \in Nat /\ h = g + RegionsOf(a) /\ h <= GlobalOffset[16] /\ GlobalOffset[16] \in Nat
  BY <1>3, RegionsFit
<1>5. RegionsOf(a) = y
  BY DEF RegionsOf
<1>6. TargetOffset(a, b) = g + x
  BY DEF TargetOffset, Place
<1> HIDE DEF n, p, v, g, h
<1>7. x + n <= y /\ x \in Nat /\ y \in Nat
  <2>1. p * n + n <= v * n
    BY <1>1, <1>2, Grows
  <2>2. p * n \in Nat /\ v * n \in Nat
    BY <1>1, <1>2
  <2> QED
    BY <2>1, <2>2
<1>8. TargetOffset(a, b) = g + p * n
  BY <1>6
<1> HIDE DEF x, y
<1>9. GlobalOffset[16] <= 59808
  BY RegionsFit
<1>10. TargetOffset(a, b) \in Nat /\ g <= TargetOffset(a, b) /\ TargetOffset(a, b) + n <= h
  BY <1>1, <1>4, <1>5, <1>6, <1>7
<1>11. TargetOffset(a, b) + n <= 59808
  BY <1>1, <1>4, <1>9, <1>10
<1> QED
  BY <1>1, <1>8, <1>10, <1>11 DEF n, p, g, h

LEMMA RegionsApart ==
    ASSUME NEW a \in ThreatPieces, NEW b \in ThreatPieces, Mapped(a, b) >= 0,
           NEW d \in ThreatPieces, NEW e \in ThreatPieces, Mapped(d, e) >= 0,
           a # d \/ b # e
    PROVE  \/ TargetOffset(a, b) + Span(a) <= TargetOffset(d, e)
           \/ TargetOffset(d, e) + Span(d) <= TargetOffset(a, b)
<1>1. a \in 0..15 /\ d \in 0..15
  BY CodeParts
<1>2. /\ Span(a) \in Nat /\ TargetOffset(a, b) \in Nat /\ GlobalOffset[a] <= TargetOffset(a, b)
      /\ TargetOffset(a, b) + Span(a) <= GlobalOffset[a + 1]
      /\ Span(d) \in Nat /\ TargetOffset(d, e) \in Nat /\ GlobalOffset[d] <= TargetOffset(d, e)
      /\ TargetOffset(d, e) + Span(d) <= GlobalOffset[d + 1]
  BY RegionOf
<1>3. CASE a < d
  <2>1. a + 1 \in 0..16 /\ d \in 0..16 /\ a + 1 <= d
    BY <1>1, <1>3
  <2>2. GlobalOffset[a + 1] <= GlobalOffset[d] /\ GlobalOffset[a + 1] \in Nat /\ GlobalOffset[d] \in Nat
    <3>1. PICK k \in 0..16 : k = a + 1
      BY <2>1
    <3>2. PICK l \in 0..16 : l = d
      BY <2>1
    <3>3. k <= l
      BY <2>1, <3>1, <3>2
    <3>4. GlobalOffset[k] <= GlobalOffset[l] /\ GlobalOffset[k] \in Nat /\ GlobalOffset[l] \in Nat
      BY <3>3, RegionsFit
    <3> QED
      BY <3>1, <3>2, <3>4
  <2> QED
    BY <1>2, <2>2
<1>4. CASE d < a
  <2>1. d + 1 \in 0..16 /\ a \in 0..16 /\ d + 1 <= a
    BY <1>1, <1>4
  <2>2. GlobalOffset[d + 1] <= GlobalOffset[a] /\ GlobalOffset[d + 1] \in Nat /\ GlobalOffset[a] \in Nat
    <3>1. PICK k \in 0..16 : k = d + 1
      BY <2>1
    <3>2. PICK l \in 0..16 : l = a
      BY <2>1
    <3>3. k <= l
      BY <2>1, <3>1, <3>2
    <3>4. GlobalOffset[k] <= GlobalOffset[l] /\ GlobalOffset[k] \in Nat /\ GlobalOffset[l] \in Nat
      BY <3>3, RegionsFit
    <3> QED
      BY <3>1, <3>2, <3>4
  <2> QED
    BY <1>2, <2>2
<1>5. CASE a = d
  <2> DEFINE n == Span(a)
             p == Place(a, b)
             q == Place(a, e)
             g == GlobalOffset[a]
  <2>1. n \in Nat /\ p \in Nat /\ q \in Nat /\ p # q /\ Span(d) = n
    BY <1>2, <1>5, PlaceOf
  <2>2. TargetOffset(a, b) = g + p * n /\ TargetOffset(d, e) = g + q * n
    BY <1>5, RegionOf
  <2>3. g \in Nat
    <3>1. a \in 0..16
      BY <1>1
    <3> QED
      BY <3>1, RegionsFit
  <2> HIDE DEF n, p, q, g
  <2>4. (p < q => p * n + n <= q * n) /\ (q < p => q * n + n <= p * n)
    BY <2>1, Grows
  <2> DEFINE x == p * n
             y == q * n
  <2>5. x \in Nat /\ y \in Nat /\ (p < q \/ q < p)
    BY <2>1
  <2>6. TargetOffset(a, b) = g + x /\ TargetOffset(d, e) = g + y /\ (p < q => x + n <= y) /\ (q < p => y + n <= x)
    BY <2>2, <2>4
  <2> HIDE DEF x, y
  <2>7. (g + x) + n <= g + y \/ (g + y) + n <= g + x
    BY <2>1, <2>3, <2>5, <2>6
  <2>8. n = Span(a)
    BY DEF n
  <2> QED
    BY <2>1, <2>6, <2>7, <2>8
<1> QED
  BY <1>1, <1>3, <1>4, <1>5

\* A piece on from and what it attacks on to have a slot of their own in a region.
Slot(a, from, to) == SquareOffset[a][from] + AttackOffset(a, from, to)
Attacks(a, from, to) ==
    from \in Squares /\ to \in PseudoAttacks[a][from] /\ (TypeOf(a) = Pawn => from \in 8..55)

LEMMA AttackOrder ==
    ASSUME NEW a \in ThreatPieces, NEW from \in Squares, NEW to \in PseudoAttacks[a][from]
    PROVE  /\ AttackOffset(a, from, to) \in Nat
           /\ AttackOffset(a, from, to) < Cardinality(PseudoAttacks[a][from])
           /\ \A t \in PseudoAttacks[a][from] : to < t => AttackOffset(a, from, to) < AttackOffset(a, from, t)
<1> DEFINE P == PseudoAttacks[a][from]
           Q(t) == {s \in P : s < t}
<1>1. P \in SUBSET Squares /\ IsFiniteSet(P) /\ Cardinality(P) \in Nat
  BY PseudoOf
<1>2. \A t : AttackOffset(a, from, t) = Cardinality(Q(t))
  BY DEF AttackOffset
<1>3. to \in P /\ P \subseteq 0..63
  BY <1>1 DEF Squares
<1>4. Q(to) \in SUBSET P /\ to \notin Q(to)
  BY <1>3
<1>5. \A t \in P : to < t => Q(to) \in SUBSET Q(t) /\ to \in Q(t) /\ Q(t) \in SUBSET P
  BY <1>3
<1> HIDE DEF P, Q
<1>6. Cardinality(Q(to)) \in Nat /\ Cardinality(Q(to)) < Cardinality(P)
  <2>1. IsFiniteSet(Q(to)) /\ Cardinality(Q(to)) <= Cardinality(P)
        /\ (Cardinality(Q(to)) = Cardinality(P) => Q(to) = P)
    BY <1>1, <1>4, FS_Subset
  <2>2. Cardinality(Q(to)) \in Nat
    BY <2>1, FS_CardinalityType
  <2> QED
    BY <1>1, <1>3, <1>4, <2>1, <2>2
<1>7. ASSUME NEW t \in P, to < t PROVE Cardinality(Q(to)) < Cardinality(Q(t))
  <2>1. IsFiniteSet(Q(t))
    BY <1>1, <1>5, <1>7, FS_Subset
  <2>2. IsFiniteSet(Q(to)) /\ Cardinality(Q(to)) <= Cardinality(Q(t))
        /\ (Cardinality(Q(to)) = Cardinality(Q(t)) => Q(to) = Q(t))
    BY <1>5, <1>7, <2>1, FS_Subset
  <2>3. Cardinality(Q(to)) \in Nat /\ Cardinality(Q(t)) \in Nat
    BY <2>1, <2>2, FS_CardinalityType
  <2> QED
    BY <1>4, <1>5, <1>7, <2>2, <2>3
<1> QED
  BY <1>2, <1>6, <1>7 DEF P

LEMMA SlotFits ==
    ASSUME NEW a \in ThreatPieces, NEW from, NEW to, Attacks(a, from, to)
    PROVE  /\ SquareOffset[a][from] \in Nat /\ AttackOffset(a, from, to) \in Nat
           /\ from \in 0..63 /\ to \in 0..63
           /\ Slot(a, from, to) \in Nat /\ Slot(a, from, to) < SquareOffset[a][from + 1]
           /\ Slot(a, from, to) < Span(a)
<1>1. from \in Squares /\ to \in PseudoAttacks[a][from]
  BY DEF Attacks
<1>2. from \in 0..63 /\ from \in 0..64 /\ from + 1 \in 1..64 /\ (from + 1) - 1 = from
      /\ from + 1 \in 0..64 /\ 64 \in (from + 1)..64 /\ 64 \in 0..64
  BY <1>1 DEF Squares
<1>3. to \in 0..63
  BY <1>1, PseudoOf DEF Squares
<1>4. RowsOf(a, from) = Cardinality(PseudoAttacks[a][from])
  BY DEF RowsOf, Attacks
<1>5. SquareOffset[a][from + 1] = SquareOffset[a][from] + Cardinality(PseudoAttacks[a][from])
  <2>1. SquareOffset[a][from + 1] = SquareOffset[a][(from + 1) - 1] + RowsOf(a, (from + 1) - 1)
    BY <1>2, OffsetsAdd
  <2> QED
    BY <1>2, <1>4, <2>1
<1>6. SquareOffset[a][from] \in Nat /\ SquareOffset[a][from + 1] \in Nat /\ SquareOffset[a][64] \in Nat
      /\ SquareOffset[a][from + 1] <= SquareOffset[a][64]
  BY <1>2, OffsetsAdd
<1>7. AttackOffset(a, from, to) \in Nat /\ AttackOffset(a, from, to) < Cardinality(PseudoAttacks[a][from])
      /\ Cardinality(PseudoAttacks[a][from]) \in Nat
  BY <1>1, AttackOrder, PseudoOf
<1>8. Slot(a, from, to) \in Nat /\ Slot(a, from, to) < SquareOffset[a][from + 1]
  BY <1>5, <1>6, <1>7 DEF Slot
<1> QED
  BY <1>2, <1>3, <1>6, <1>7, <1>8 DEF Span

LEMMA SlotsApart ==
    ASSUME NEW a \in ThreatPieces, NEW from, NEW to, Attacks(a, from, to),
           NEW start, NEW end, Attacks(a, start, end), Slot(a, from, to) = Slot(a, start, end)
    PROVE  from = start /\ to = end
<1>1. ASSUME NEW x, NEW y, Attacks(a, x, y), NEW s, NEW t, Attacks(a, s, t), x < s
      PROVE  Slot(a, x, y) < Slot(a, s, t)
  <2>1. x \in 0..63 /\ s \in 0..63 /\ Slot(a, x, y) < SquareOffset[a][x + 1] /\ Slot(a, x, y) \in Nat
        /\ Slot(a, s, t) \in Nat /\ AttackOffset(a, s, t) \in Nat /\ SquareOffset[a][s] \in Nat
    BY <1>1, SlotFits
  <2>2. x + 1 \in 0..64 /\ s \in (x + 1)..64
    BY <1>1, <2>1
  <2>3. SquareOffset[a][x + 1] <= SquareOffset[a][s] /\ SquareOffset[a][x + 1] \in Nat
    BY <2>2, OffsetsAdd
  <2> QED
    BY <2>1, <2>3 DEF Slot
<1>2. from \in 0..63 /\ start \in 0..63 /\ to \in 0..63 /\ end \in 0..63 /\ Slot(a, from, to) \in Nat
  BY SlotFits
<1>3. from = start
  <2>1. ~ (from < start) /\ ~ (start < from)
    BY <1>1, <1>2
  <2> QED
    BY <1>2, <2>1
<1>4. AttackOffset(a, from, to) = AttackOffset(a, from, end)
  <2> DEFINE g == SquareOffset[a][from]
             x == AttackOffset(a, from, to)
             y == AttackOffset(a, from, end)
  <2>1. g \in Nat /\ x \in Nat /\ y \in Nat
    BY <1>3, SlotFits
  <2>2. g + x = g + y
    BY <1>3 DEF Slot
  <2> HIDE DEF g, x, y
  <2>3. x = y
    BY <2>1, <2>2
  <2> QED
    BY <2>3 DEF x, y
<1>5. to = end
  <2>1. from \in Squares /\ to \in PseudoAttacks[a][from] /\ end \in PseudoAttacks[a][from]
    BY <1>3 DEF Attacks
  <2>2. AttackOffset(a, from, to) \in Nat
    BY <2>1, AttackOrder
  <2>3. /\ to < end => AttackOffset(a, from, to) < AttackOffset(a, from, end)
        /\ end < to => AttackOffset(a, from, end) < AttackOffset(a, from, to)
    BY <2>1, AttackOrder
  <2> QED
    BY <1>2, <1>4, <2>2, <2>3
<1> QED
  BY <1>3, <1>5

\* The row of an attack: in the region of its pieces, and in the table.
LEMMA RowFits ==
    ASSUME NEW a \in ThreatPieces, NEW b \in ThreatPieces, NEW from, NEW to, Attacks(a, from, to)
    PROVE  /\ RowOf(a, from, to, b) \in Nat
           /\ RowOf(a, from, to, b) < ThreatFeatureCount <=> ~ Excluded(a, b, from < to)
           /\ RowOf(a, from, to, b) < ThreatFeatureCount =>
                 /\ Mapped(a, b) >= 0
                 /\ RowOf(a, from, to, b) = TargetOffset(a, b) + Slot(a, from, to)
           /\ RowOf(a, from, to, b) >= ThreatFeatureCount => RowOf(a, from, to, b) = ThreatFeatureCount
<1>1. CASE Excluded(a, b, from < to)
  BY <1>1 DEF RowOf, ThreatFeatureCount
<1>2. CASE ~ Excluded(a, b, from < to)
  <2> DEFINE x == TargetOffset(a, b)
             y == SquareOffset[a][from]
             z == AttackOffset(a, from, to)
             n == Span(a)
  <2>1. RowOf(a, from, to, b) = (x + y) + z
    BY <1>2 DEF RowOf
  <2>2. Mapped(a, b) >= 0
    <3>1. ~ (Mapped(a, b) < 0)
      BY <1>2 DEF Excluded
    <3>2. Mapped(a, b) \in Int
      BY CodeParts, TargetPlaces DEF Mapped
    <3> QED
      BY <3>1, <3>2
  <2>3. x \in Nat /\ n \in Nat /\ x + n <= 59808
    BY <2>2, RegionOf
  <2>4. y \in Nat /\ z \in Nat /\ Slot(a, from, to) = y + z /\ Slot(a, from, to) < n
    BY SlotFits DEF Slot
  <2> HIDE DEF x, y, z, n
  <2>5. (x + y) + z = x + Slot(a, from, to) /\ (x + y) + z \in Nat /\ (x + y) + z < 59808
    BY <2>3, <2>4
  <2>6. RowOf(a, from, to, b) \in Nat /\ RowOf(a, from, to, b) < ThreatFeatureCount
        /\ RowOf(a, from, to, b) = x + Slot(a, from, to)
    BY <2>1, <2>5 DEF ThreatFeatureCount
  <2> QED
    BY <1>2, <2>2, <2>6 DEF x, ThreatFeatureCount
<1> QED
  BY <1>1, <1>2

\* Two attacks with one row are of the same pieces on the same squares.
LEMMA RowsApart ==
    ASSUME NEW a \in ThreatPieces, NEW b \in ThreatPieces, NEW from, NEW to, Attacks(a, from, to),
           NEW d \in ThreatPieces, NEW e \in ThreatPieces, NEW start, NEW end, Attacks(d, start, end),
           RowOf(a, from, to, b) < ThreatFeatureCount,
           RowOf(a, from, to, b) = RowOf(d, start, end, e)
    PROVE  a = d /\ b = e /\ from = start /\ to = end
<1> DEFINE x == TargetOffset(a, b)
           y == TargetOffset(d, e)
           s == Slot(a, from, to)
           t == Slot(d, start, end)
           m == Span(a)
           n == Span(d)
<1>1. Mapped(a, b) >= 0 /\ Mapped(d, e) >= 0 /\ x + s = y + t
  BY RowFits
<1>2. x \in Nat /\ y \in Nat /\ m \in Nat /\ n \in Nat
  BY <1>1, RegionOf
<1>3. s \in Nat /\ t \in Nat /\ s < m /\ t < n
  BY SlotFits
<1>4. a # d \/ b # e => x + m <= y \/ y + n <= x
  BY <1>1, RegionsApart
<1>5. a = d /\ b = e => x = y
  OBVIOUS
<1> HIDE DEF x, y, s, t, m, n
<1>6. a = d /\ b = e
  BY <1>1, <1>2, <1>3, <1>4
<1>7. s = t
  BY <1>1, <1>2, <1>3, <1>5, <1>6
<1> QED
  BY <1>6, <1>7, SlotsApart DEF s, t

\* The attacks a "threats" job lists.
SquaresFor(c) == IF TypeOf(c) = Pawn THEN 8..55 ELSE Squares
ListedPairs(a, b) == {ft \in SquaresFor(a) \X SquaresFor(b) : ft[2] \in PseudoAttacks[a][ft[1]]}

LEMMA Listed ==
    ASSUME NEW a \in ThreatPieces, NEW b, NEW ft \in ListedPairs(a, b)
    PROVE  /\ Attacks(a, ft[1], ft[2])
           /\ ThreatIndex(0, a, ft[1], ft[2], b, 0) = RowOf(a, ft[1], ft[2], b)
           /\ ft = <<ft[1], ft[2]>>
<1>1. Attacks(a, ft[1], ft[2]) /\ ft = <<ft[1], ft[2]>>
  <2> DEFINE S == SquaresFor(a)
             T == SquaresFor(b)
  <2>0. ft \in S \X T /\ ft[2] \in PseudoAttacks[a][ft[1]]
    BY DEF ListedPairs
  <2>4. S \subseteq Squares /\ (TypeOf(a) = Pawn => S = 8..55)
    BY DEF Squares, SquaresFor
  <2> HIDE DEF S, T
  <2>1. PICK from \in S, to \in T : ft = <<from, to>>
    BY <2>0
  <2>2. from \in Squares /\ (TypeOf(a) = Pawn => from \in 8..55) /\ to \in PseudoAttacks[a][from]
    BY <2>0, <2>1, <2>4
  <2> QED
    BY <2>1, <2>2 DEF Attacks
<1>2. \A s : TurnOf(0, 0, s) = s
  <2>1. File(0) < 4
    BY DEF File
  <2> QED
    BY <2>1 DEF TurnOf
<1>3. \A c : SideOf(0, c) = c
  BY DEF SideOf
<1>4. ThreatIndex(0, a, ft[1], ft[2], b, 0) = RowOf(a, ft[1], ft[2], b)
  BY <1>2, <1>3, IndexIsRow
<1> QED
  BY <1>1, <1>4

\* RegionIsApart of a result.
ApartIn(a, b, f) ==
    LET made == {ft \in DOMAIN f : f[ft] # ThreatFeatureCount}
        first == TargetOffset(a, b)
        last == first + Span(a) - 1
        others == {de \in ThreatPieces \X ThreatPieces : de # <<a, b>> /\ Mapped(de[1], de[2]) >= 0}
    IN  /\ OneToOne([ft \in made |-> f[ft]])
        /\ made # {} =>
              /\ \A ft \in made : f[ft] \in first..last
              /\ 0 <= first /\ last < ThreatFeatureCount
              /\ \A de \in others : \/ TargetOffset(de[1], de[2]) > last
                                     \/ TargetOffset(de[1], de[2]) + Span(de[1]) <= first

LEMMA ListApart ==
    ASSUME NEW a \in ThreatPieces, NEW b \in ThreatPieces
    PROVE  ApartIn(a, b, [ft \in ListedPairs(a, b) |-> ThreatIndex(0, a, ft[1], ft[2], b, 0)])
<1> DEFINE f == [ft \in ListedPairs(a, b) |-> ThreatIndex(0, a, ft[1], ft[2], b, 0)]
           made == {ft \in DOMAIN f : f[ft] # ThreatFeatureCount}
           g == [ft \in made |-> f[ft]]
           first == TargetOffset(a, b)
           n == Span(a)
           last == first + Span(a) - 1
           others == {de \in ThreatPieces \X ThreatPieces : de # <<a, b>> /\ Mapped(de[1], de[2]) >= 0}
<1>1. DOMAIN f = ListedPairs(a, b)
  OBVIOUS
<1>2. \A ft \in ListedPairs(a, b) : f[ft] = RowOf(a, ft[1], ft[2], b)
  BY Listed
<1>3. IsFiniteSet(made)
  <2>1. IsFiniteSet(Squares)
    <3>1. 0 \in Int /\ 63 \in Int
      OBVIOUS
    <3> QED
      BY <3>1, FS_Interval, Zenon DEF Squares
  <2>2. IsFiniteSet(Squares \X Squares)
    BY <2>1, FS_Product
  <2>3. made \in SUBSET (Squares \X Squares)
    <3> DEFINE S == SquaresFor(a)
               T == SquaresFor(b)
    <3>1. ListedPairs(a, b) \subseteq S \X T
      BY DEF ListedPairs
    <3>2. S \subseteq Squares /\ T \subseteq Squares
      BY DEF Squares, SquaresFor
    <3>3. made \subseteq ListedPairs(a, b)
      BY <1>1
    <3> HIDE DEF S, T, made, f
    <3> QED
      BY <3>1, <3>2, <3>3
  <2> HIDE DEF made
  <2> QED
    BY <2>2, <2>3, FS_Subset
<1> HIDE DEF f
<1>4. \A ft \in made :
          /\ ft \in ListedPairs(a, b) /\ ft = <<ft[1], ft[2]>> /\ Attacks(a, ft[1], ft[2])
          /\ RowOf(a, ft[1], ft[2], b) < ThreatFeatureCount /\ f[ft] = RowOf(a, ft[1], ft[2], b)
  <2> TAKE ft \in made
  <2>1. ft \in ListedPairs(a, b) /\ f[ft] # ThreatFeatureCount
    BY <1>1
  <2>2. Attacks(a, ft[1], ft[2]) /\ ft = <<ft[1], ft[2]>>
    BY <2>1, Listed
  <2>3. RowOf(a, ft[1], ft[2], b) \in Nat
        /\ (RowOf(a, ft[1], ft[2], b) >= ThreatFeatureCount => RowOf(a, ft[1], ft[2], b) = ThreatFeatureCount)
    BY <2>2, RowFits
  <2>4. RowOf(a, ft[1], ft[2], b) < ThreatFeatureCount
    BY <1>2, <2>1, <2>3 DEF ThreatFeatureCount
  <2> QED
    BY <1>2, <2>1, <2>2, <2>4
<1>5. DOMAIN g = made /\ g = [x \in DOMAIN g |-> g[x]] /\ \A x \in made : g[x] = f[x]
  OBVIOUS
<1> HIDE DEF made, g
<1>6. \A x, y \in made : f[x] = f[y] => x = y
  BY <1>4, RowsApart
<1>7. OneToOne(g)
  <2>1. IsFiniteSet(DOMAIN g) /\ \A x, y \in DOMAIN g : g[x] = g[y] => x = y
    BY <1>3, <1>5, <1>6
  <2> QED
    BY <1>5, <2>1, ManyValues
<1>8. ASSUME made # {}
      PROVE  /\ \A ft \in made : f[ft] \in first..last
             /\ 0 <= first /\ last < ThreatFeatureCount
             /\ \A de \in others : \/ TargetOffset(de[1], de[2]) > last
                                    \/ TargetOffset(de[1], de[2]) + Span(de[1]) <= first
  <2>1. Mapped(a, b) >= 0
    BY <1>4, <1>8, RowFits
  <2>2. first \in Nat /\ n \in Nat /\ first + n <= 59808 /\ last = (first + n) - 1
    BY <2>1, RegionOf
  <2>3. ASSUME NEW ft \in made PROVE f[ft] \in first..last
    <3>1. f[ft] = first + Slot(a, ft[1], ft[2])
      BY <1>4, RowFits
    <3>2. Slot(a, ft[1], ft[2]) \in Nat /\ Slot(a, ft[1], ft[2]) < n
      BY <1>4, SlotFits
    <3> HIDE DEF first, n, last
    <3> QED
      BY <2>2, <3>1, <3>2
  <2>4. ASSUME NEW de \in others
        PROVE  \/ TargetOffset(de[1], de[2]) > last
               \/ TargetOffset(de[1], de[2]) + Span(de[1]) <= first
    <3>1. PICK d \in ThreatPieces, e \in ThreatPieces : de = <<d, e>>
      OBVIOUS
    <3>2. Mapped(d, e) >= 0 /\ (d # a \/ e # b)
      BY <3>1
    <3>3. first + n <= TargetOffset(d, e) \/ TargetOffset(d, e) + Span(d) <= first
      BY <2>1, <3>2, RegionsApart
    <3>4. TargetOffset(d, e) \in Nat
      BY <3>2, RegionOf
    <3> HIDE DEF first, n, last, others
    <3>5. TargetOffset(d, e) > last \/ TargetOffset(d, e) + Span(d) <= first
      BY <2>2, <3>3, <3>4
    <3> QED
      BY <3>1, <3>5
  <2>5. 0 <= first /\ last < ThreatFeatureCount
    <3> HIDE DEF first, n, last
    <3> QED
      BY <2>2 DEF ThreatFeatureCount
  <2> HIDE DEF first, n, last, others
  <2> QED
    BY <2>3, <2>4, <2>5
<1>9. ApartIn(a, b, f)
  <2> HIDE DEF first, n, last, others
  <2>1. /\ OneToOne(g)
        /\ made # {} =>
             /\ \A ft \in made : f[ft] \in first..last
             /\ 0 <= first /\ last < ThreatFeatureCount
             /\ \A de \in others : \/ TargetOffset(de[1], de[2]) > last
                                    \/ TargetOffset(de[1], de[2]) + Span(de[1]) <= first
    BY <1>7, <1>8
  <2> QED
    BY <2>1 DEF ApartIn, first, last, others, made, g
<1> QED
  BY <1>9 DEF f

-----------------------------------------------------------------------------
(* Attacks on the empty board, mirrored and answered *)

Over(d) == <<-d[1], d[2]>>
Ahead(c) == {-1, 1} \X {IF c = 0 THEN 1 ELSE -1}
StepsOf(type, c) ==
    CASE type = Pawn -> Ahead(c) [] type = Knight -> KnightSteps [] type = King -> Rays
      [] OTHER -> Directions(type)
Far(type) == IF type \in {Pawn, Knight, King} THEN 1 ELSE 7
Goes(s, d, k, t) == File(t) = File(s) + k * d[1] /\ Rank(t) = Rank(s) + k * d[2]

LEMMA OverSteps ==
    /\ \A d \in Steps : Over(d) \in Steps /\ Over(d)[1] = -d[1] /\ Over(d)[2] = d[2]
    /\ \A d \in Diagonals : Over(d) \in Diagonals
    /\ \A d \in Straights : Over(d) \in Straights
    /\ \A d \in KnightSteps : Over(d) \in KnightSteps
    /\ \A c \in {0, 1} : \A d \in Ahead(c) : Over(d) \in Ahead(c)
<1>1. ASSUME NEW d \in Steps PROVE Over(d) \in Steps /\ Over(d)[1] = -d[1] /\ Over(d)[2] = d[2]
  <2>1. d[1] \in -2..2 /\ d[2] \in -2..2
    BY BackStep
  <2>2. -d[1] \in -2..2
    BY <2>1
  <2> QED
    BY <2>1, <2>2 DEF Over, Steps
<1>2. ASSUME NEW x \in {1, -1}, NEW y \in {1, -1}
      PROVE  Over(<<x, y>>) = <<-x, y>> /\ -x \in {1, -1}
  BY DEF Over
<1>3. ASSUME NEW x \in {1, -1}, NEW y \in {2, -2}
      PROVE  /\ Over(<<x, y>>) = <<-x, y>> /\ -x \in {1, -1}
             /\ Over(<<y, x>>) = <<-y, x>> /\ -y \in {2, -2}
  BY DEF Over
<1>4. \A d \in Diagonals : Over(d) \in Diagonals
  BY <1>2 DEF Diagonals
<1>5. \A d \in KnightSteps : Over(d) \in KnightSteps
  BY <1>3 DEF KnightSteps
<1>6. \A d \in Straights : Over(d) \in Straights
  <2>1. \A x \in Int, y \in Int, z \in Int : z = -x => Over(<<x, y>>) = <<z, y>>
    BY DEF Over
  <2>2. \A y \in Int : (y = 0 => -y = 0) /\ (y = 1 => -y = -1) /\ (y = -1 => -y = 1)
    OBVIOUS
  <2>3. 0 \in Int /\ 1 \in Int /\ -1 \in Int
    OBVIOUS
  <2>4. /\ Over(<<1, 0>>) = <<-1, 0>> /\ Over(<<-1, 0>>) = <<1, 0>>
        /\ Over(<<0, 1>>) = <<0, 1>> /\ Over(<<0, -1>>) = <<0, -1>>
    BY <2>1, <2>2, <2>3
  <2> QED
    BY <2>4 DEF Straights
<1>7. \A c \in {0, 1} : \A d \in Ahead(c) : Over(d) \in Ahead(c)
  BY <1>2 DEF Ahead
<1> QED
  BY <1>1, <1>4, <1>5, <1>6, <1>7

LEMMA StepKinds ==
    ASSUME NEW type \in 1..6, NEW c \in {0, 1}
    PROVE  /\ StepsOf(type, c) \subseteq Steps
           /\ \A d \in StepsOf(type, c) : Over(d) \in StepsOf(type, c)
           /\ type # Pawn => \A d \in StepsOf(type, c) : Back(Over(d)) \in StepsOf(type, c)
           /\ type \notin {Pawn, Knight} => StepsOf(type, c) \subseteq Rays
           /\ type # Pawn => StepsOf(type, 0) = StepsOf(type, c)
<1>1. CASE type = Pawn
  <2>1. StepsOf(type, c) = Ahead(c)
    BY <1>1 DEF StepsOf, Pawn, Knight, King
  <2> QED
    BY <1>1, <2>1, OverSteps, RaySteps DEF Ahead
<1>2. CASE type = Knight
  <2>1. StepsOf(type, c) = KnightSteps /\ StepsOf(type, 0) = KnightSteps
    BY <1>2 DEF StepsOf, Pawn, Knight, King
  <2> QED
    BY <1>2, <2>1, OverSteps, RaySteps DEF Knight, Pawn
<1>3. \A d \in Rays : Over(d) \in Rays /\ Back(d) \in Rays /\ d \in Steps
  BY OverSteps, RaySteps DEF Rays
<1>4. CASE type = King
  <2>1. StepsOf(type, c) = Rays /\ StepsOf(type, 0) = Rays
    BY <1>4 DEF StepsOf, Pawn, Knight, King
  <2> QED
    BY <1>3, <1>4, <2>1
<1>5. CASE type \notin {Pawn, Knight, King}
  <2>1. StepsOf(type, c) = Directions(type) /\ StepsOf(type, 0) = Directions(type)
    BY <1>5 DEF StepsOf
  <2>2. Directions(type) = Diagonals \/ Directions(type) = Straights \/ Directions(type) = Rays
    BY DEF Directions, Rays, Bishop, Rook
  <2>3. Directions(type) \subseteq Rays
    BY <2>2 DEF Rays
  <2>4. \A d \in Directions(type) : Over(d) \in Directions(type) /\ Back(d) \in Directions(type)
    BY <1>3, <2>2, OverSteps, RaySteps
  <2> QED
    BY <1>3, <1>5, <2>1, <2>3, <2>4
<1> QED
  BY <1>1, <1>2, <1>4, <1>5

\* A square of the board is where its file and its rank are.
LEMMA AtSquare ==
    ASSUME NEW s \in Squares, NEW d \in Steps, NEW k \in Nat, NEW t \in Squares
    PROVE  /\ (OnBoard(Along(s, d, k).f, Along(s, d, k).r) /\ t = SquareAt(Along(s, d, k))) <=> Goes(s, d, k, t)
           /\ OnBoard(Along(s, d, k).f, Along(s, d, k).r) => SquareAt(Along(s, d, k)) \in Squares
<1>1. PICK f \in Int, r \in Int : f = Along(s, d, k).f /\ r = Along(s, d, k).r
  BY AlongTurned
<1>2. Along(s, d, k).f = File(s) + k * d[1] /\ Along(s, d, k).r = Rank(s) + k * d[2]
  BY DEF Along
<1>3. SquareAt(Along(s, d, k)) = 8 * r + f
  BY <1>1 DEF SquareAt
<1>4. OnBoard(f, r) => 8 * r + f \in Squares /\ File(8 * r + f) = f /\ Rank(8 * r + f) = r
  BY OnRank DEF OnBoard
<1>5. File(t) \in 0..7 /\ Rank(t) \in 0..7 /\ t = 8 * Rank(t) + File(t)
  BY Flips
<1>6. (OnBoard(f, r) /\ t = 8 * r + f) <=> (File(t) = f /\ Rank(t) = r)
  BY <1>4, <1>5 DEF OnBoard
<1>7. Goes(s, d, k, t) <=> (File(t) = f /\ Rank(t) = r)
  BY <1>1, <1>2 DEF Goes
<1> QED
  BY <1>1, <1>3, <1>4, <1>6, <1>7

\* What a piece attacks on a board, by its steps.
LEMMA AttackSteps ==
    ASSUME NEW type \in 1..6, NEW c \in {0, 1}, NEW s \in Squares, NEW t \in Squares, NEW occupied
    PROVE  t \in AttacksOf(type, c, s, occupied) <=>
               \E d \in StepsOf(type, c) : \E k \in 1..Far(type) :
                   /\ Goes(s, d, k, t)
                   /\ \A j \in 1..(k - 1) : SquareAt(Along(s, d, j)) \notin occupied
<1> DEFINE Free(d, k) == \A j \in 1..(k - 1) : SquareAt(Along(s, d, j)) \notin occupied
<1>0. StepsOf(type, c) \subseteq Steps
  BY StepKinds
<1>1. CASE type \in {Pawn, Knight, King}
  <2>1. AttacksOf(type, c, s, occupied) = LeaperAttacks(StepsOf(type, c), s)
    <3>1. CASE type = Pawn
      BY <3>1, PawnKind DEF StepsOf, Ahead, Pawn, Knight, King
    <3>2. CASE type = Knight
      BY <3>2, KnightKind DEF StepsOf, Pawn, Knight, King
    <3>3. CASE type = King
      BY <3>3, KingKind DEF StepsOf, Rays, Pawn, Knight, King
    <3> QED
      BY <1>1, <3>1, <3>2, <3>3
  <2>2. t \in LeaperAttacks(StepsOf(type, c), s) <=> \E d \in StepsOf(type, c) : Goes(s, d, 1, t)
    <3>1. \A d \in StepsOf(type, c) :
              (OnBoard(Along(s, d, 1).f, Along(s, d, 1).r) /\ t = SquareAt(Along(s, d, 1))) <=> Goes(s, d, 1, t)
      BY <1>0, AtSquare
    <3> QED
      BY <3>1 DEF LeaperAttacks
  <2>3. Far(type) = 1
    BY <1>1 DEF Far
  <2>4. \A k \in 1..1 : k = 1
    OBVIOUS
  <2>5. \A d : Free(d, 1)
    OBVIOUS
  <2> HIDE DEF Free
  <2>6. (\E d \in StepsOf(type, c) : Goes(s, d, 1, t)) <=>
            \E d \in StepsOf(type, c) : \E k \in 1..Far(type) : Goes(s, d, k, t) /\ Free(d, k)
    BY <2>3, <2>4, <2>5
  <2> QED
    BY <2>1, <2>2, <2>6 DEF Free
<1>2. CASE type \notin {Pawn, Knight, King}
  <2>1. AttacksOf(type, c, s, occupied) = UNION {Ray(s, d, occupied) : d \in StepsOf(type, c)}
    BY <1>2, SliderKind DEF StepsOf, SliderAttacks
  <2>2. Far(type) = 7
    BY <1>2 DEF Far
  <2>3. ASSUME NEW d \in StepsOf(type, c)
        PROVE  t \in Ray(s, d, occupied) <=> \E k \in 1..7 : Goes(s, d, k, t) /\ Free(d, k)
    <3>1. \A k \in 1..7 :
              (OnBoard(Along(s, d, k).f, Along(s, d, k).r) /\ t = SquareAt(Along(s, d, k))) <=> Goes(s, d, k, t)
      BY <1>0, AtSquare
    <3>2. t \in Ray(s, d, occupied) <=>
              \E k \in 1..7 : /\ OnBoard(Along(s, d, k).f, Along(s, d, k).r) /\ Free(d, k)
                              /\ t = SquareAt(Along(s, d, k))
      BY DEF Ray
    <3> HIDE DEF Free
    <3> QED
      BY <3>1, <3>2
  <2>4. t \in AttacksOf(type, c, s, occupied) <=> \E d \in StepsOf(type, c) : t \in Ray(s, d, occupied)
    BY <2>1
  <2> HIDE DEF Free
  <2>5. t \in AttacksOf(type, c, s, occupied) <=>
            \E d \in StepsOf(type, c) : \E k \in 1..Far(type) : Goes(s, d, k, t) /\ Free(d, k)
    BY <2>2, <2>3, <2>4
  <2> QED
    BY <2>5 DEF Free
<1> QED
  BY <1>1, <1>2

LEMMA AttackEmpty ==
    ASSUME NEW type \in 1..6, NEW c \in {0, 1}, NEW s \in Squares, NEW t \in Squares, NEW occupied,
           t \in AttacksOf(type, c, s, occupied)
    PROVE  t \in AttacksOf(type, c, s, {})
<1>1. \E d \in StepsOf(type, c) : \E k \in 1..Far(type) : Goes(s, d, k, t)
  BY AttackSteps
<1>2. \A d, k : \A j \in 1..(k - 1) : SquareAt(Along(s, d, j)) \notin {}
  OBVIOUS
<1> QED
  BY <1>1, <1>2, AttackSteps

LEMMA NoStill ==
    ASSUME NEW type \in 1..6, NEW c \in {0, 1}, NEW d \in StepsOf(type, c)
    PROVE  d[1] \in -2..2 /\ d[2] \in -2..2 /\ (d[1] # 0 \/ d[2] # 0)
<1>1. d \in Steps
  BY StepKinds
<1>2. \A e \in Diagonals : e[1] # 0
  BY DEF Diagonals
<1>3. \A e \in Straights : e[1] # 0 \/ e[2] # 0
  BY DEF Straights
<1>4. \A e \in KnightSteps : e[1] # 0
  BY DEF KnightSteps
<1>5. \A e \in Ahead(c) : e[1] # 0
  BY DEF Ahead
<1>6. \/ StepsOf(type, c) = Ahead(c) \/ StepsOf(type, c) = KnightSteps
      \/ StepsOf(type, c) = Diagonals \/ StepsOf(type, c) = Straights
      \/ StepsOf(type, c) = Diagonals \cup Straights
  BY DEF StepsOf, Directions, Rays, Pawn, Knight, King, Bishop, Rook
<1>7. d[1] # 0 \/ d[2] # 0
  BY <1>2, <1>3, <1>4, <1>5, <1>6
<1> QED
  BY <1>1, <1>7, BackStep

LEMMA NotSelf ==
    ASSUME NEW type \in 1..6, NEW c \in {0, 1}, NEW s \in Squares, NEW occupied
    PROVE  s \notin AttacksOf(type, c, s, occupied)
<1> SUFFICES ASSUME s \in AttacksOf(type, c, s, occupied) PROVE FALSE
  OBVIOUS
<1>1. PICK d \in StepsOf(type, c) : \E k \in 1..Far(type) : Goes(s, d, k, s)
  BY AttackSteps
<1>2. PICK k \in 1..Far(type) : Goes(s, d, k, s)
  BY <1>1
<1>3. k \in 1..7
  BY DEF Far
<1>4. PICK x \in -2..2, y \in -2..2 : x = d[1] /\ y = d[2] /\ (x # 0 \/ y # 0)
  BY NoStill
<1>5. PICK f \in Int, r \in Int : f = File(s) /\ r = Rank(s)
  BY Flips
<1>6. f = f + k * x /\ r = r + k * y
  BY <1>2, <1>4, <1>5 DEF Goes
<1>7. PICK m \in Int, n \in Int : m = k * x /\ n = k * y
  BY <1>3
<1>8. m = 0 /\ n = 0
  BY <1>6, <1>7
<1>9. (x # 0 => k * x # 0) /\ (y # 0 => k * y # 0)
  BY <1>3
<1> QED
  BY <1>4, <1>7, <1>8, <1>9

LEMMA AttackMirrored ==
    ASSUME NEW type \in 1..6, NEW c \in {0, 1}, NEW s \in Squares, NEW t \in Squares,
           t \in AttacksOf(type, c, s, {})
    PROVE  FlipFile(t) \in AttacksOf(type, c, FlipFile(s), {})
<1>1. PICK d \in StepsOf(type, c) : \E k \in 1..Far(type) : Goes(s, d, k, t)
  BY AttackSteps
<1>2. PICK k \in 1..Far(type) : Goes(s, d, k, t)
  BY <1>1
<1>3. Over(d) \in StepsOf(type, c) /\ Over(d)[1] = -d[1] /\ Over(d)[2] = d[2] /\ d[1] \in Int /\ d[2] \in Int
  BY StepKinds, OverSteps, NoStill
<1>4. k \in Int
  BY DEF Far
<1>5. /\ FlipFile(s) \in Squares /\ FlipFile(t) \in Squares
      /\ File(FlipFile(s)) = 7 - File(s) /\ Rank(FlipFile(s)) = Rank(s)
      /\ File(FlipFile(t)) = 7 - File(t) /\ Rank(FlipFile(t)) = Rank(t)
      /\ File(s) \in Int /\ File(t) \in Int
  BY Flips
<1>6. PICK x \in Int, m \in Int : x = d[1] /\ m = k * x /\ k * (-x) = -m
  BY <1>3, <1>4
<1>7. File(t) = File(s) + m
  BY <1>2, <1>6 DEF Goes
<1>8. 7 - File(t) = (7 - File(s)) + -m
  BY <1>5, <1>7
<1>9. Goes(FlipFile(s), Over(d), k, FlipFile(t))
  BY <1>2, <1>3, <1>5, <1>6, <1>8 DEF Goes
<1>10. \A j \in 1..(k - 1) : SquareAt(Along(FlipFile(s), Over(d), j)) \notin {}
  OBVIOUS
<1> QED
  BY <1>3, <1>5, <1>9, <1>10, AttackSteps

\* What attacks is attacked by its like from there, a pawn apart.
LEMMA AttackAnswered ==
    ASSUME NEW type \in 1..6, type # Pawn, NEW c \in {0, 1}, NEW e \in {0, 1},
           NEW s \in Squares, NEW t \in Squares, NEW occupied, t \in AttacksOf(type, c, s, occupied)
    PROVE  s \in AttacksOf(type, e, t, occupied)
<1>1. PICK d \in StepsOf(type, c) : \E k \in 1..Far(type) :
          Goes(s, d, k, t) /\ \A j \in 1..(k - 1) : SquareAt(Along(s, d, j)) \notin occupied
  BY AttackSteps
<1>2. PICK k \in 1..Far(type) :
          Goes(s, d, k, t) /\ \A j \in 1..(k - 1) : SquareAt(Along(s, d, j)) \notin occupied
  BY <1>1
<1> DEFINE o == Back(Over(d))
<1>3. o \in StepsOf(type, e)
  <2>1. o \in StepsOf(type, c)
    BY StepKinds
  <2>2. StepsOf(type, 0) = StepsOf(type, c) /\ StepsOf(type, 0) = StepsOf(type, e)
    BY StepKinds
  <2> QED
    BY <2>1, <2>2
<1>4. d \in Steps /\ d[1] \in Int /\ d[2] \in Int
  BY NoStill, StepKinds
<1>5. o[1] = -d[1] /\ o[2] = -d[2]
  BY <1>4, OverSteps, BackStep
<1>6. k \in 1..7 /\ k \in Int
  BY DEF Far
<1>7. PICK f \in Int, r \in Int, g \in Int, h \in Int :
          f = File(s) /\ r = Rank(s) /\ g = File(t) /\ h = Rank(t)
  <2>1. File(s) \in Int /\ Rank(s) \in Int /\ File(t) \in Int /\ Rank(t) \in Int
    BY Flips
  <2> QED
    BY <2>1
<1>8. PICK x \in Int, y \in Int : x = d[1] /\ y = d[2] /\ o[1] = -x /\ o[2] = -y
  BY <1>4, <1>5
<1>9. g = f + k * x /\ h = r + k * y
  BY <1>2, <1>7, <1>8 DEF Goes
<1> HIDE DEF o
<1>10. Goes(t, o, k, s)
  <2>1. f = g + k * (-x) /\ r = h + k * (-y)
    BY <1>6, <1>9
  <2> QED
    BY <1>7, <1>8, <2>1 DEF Goes
<1>11. ASSUME NEW j \in 1..(k - 1) PROVE SquareAt(Along(t, o, j)) \notin occupied
  <2>1. PICK i \in 1..(k - 1) : i = k - j
    BY <1>6
  <2>2. g + j * (-x) = f + i * x /\ h + j * (-y) = r + i * y
    BY <1>6, <1>9, <2>1
  <2>3. Along(t, o, j) = Along(s, d, i)
    BY <1>7, <1>8, <2>2 DEF Along
  <2> QED
    BY <1>2, <2>1, <2>3
<1> QED
  BY <1>3, <1>10, <1>11, AttackSteps

\* From one square to another there is one ray, and one number of steps on it.
LEMMA OneRay ==
    ASSUME NEW s \in Squares, NEW t \in Squares, NEW d \in Rays, NEW e \in Rays,
           NEW k \in 1..7, NEW l \in 1..7, Goes(s, d, k, t), Goes(s, e, l, t),
           d[1] # 0 \/ d[2] # 0, e[1] # 0 \/ e[2] # 0
    PROVE  d = e /\ k = l
<1>1. PICK x \in -1..1, y \in -1..1 : x = d[1] /\ y = d[2]
  BY RaySteps
<1>2. PICK v \in -1..1, w \in -1..1 : v = e[1] /\ w = e[2]
  BY RaySteps
<1>3. d = <<d[1], d[2]>> /\ e = <<e[1], e[2]>>
  BY RaySteps, BackStep
<1>4. PICK f \in Int, r \in Int : f = File(s) /\ r = Rank(s)
  BY Flips
<1>5. f + k * x = f + l * v /\ r + k * y = r + l * w
  BY <1>1, <1>2, <1>4 DEF Goes
<1>6. PICK m \in Int, n \in Int, i \in Int, j \in Int :
          /\ m = k * x /\ n = k * y /\ i = l * v /\ j = l * w
          /\ m = (IF x = 1 THEN k ELSE IF x = 0 THEN 0 ELSE -k)
          /\ n = (IF y = 1 THEN k ELSE IF y = 0 THEN 0 ELSE -k)
          /\ i = (IF v = 1 THEN l ELSE IF v = 0 THEN 0 ELSE -l)
          /\ j = (IF w = 1 THEN l ELSE IF w = 0 THEN 0 ELSE -l)
  <2> DEFINE T(z, u) == IF u = 1 THEN z ELSE IF u = 0 THEN 0 ELSE -z
  <2>1. k * x = T(k, x) /\ k * y = T(k, y) /\ l * v = T(l, v) /\ l * w = T(l, w)
    OBVIOUS
  <2>2. T(k, x) \in Int /\ T(k, y) \in Int /\ T(l, v) \in Int /\ T(l, w) \in Int
    OBVIOUS
  <2> QED
    BY <2>1, <2>2
<1>7. m = i /\ n = j
  <2>1. f + m = f + i /\ r + n = r + j
    BY <1>5, <1>6
  <2> QED
    BY <2>1
<1>8. (x # 0 \/ y # 0) /\ (v # 0 \/ w # 0)
  BY <1>1, <1>2
<1>9. /\ m = (IF x = 1 THEN k ELSE IF x = 0 THEN 0 ELSE -k)
      /\ n = (IF y = 1 THEN k ELSE IF y = 0 THEN 0 ELSE -k)
      /\ m = (IF v = 1 THEN l ELSE IF v = 0 THEN 0 ELSE -l)
      /\ n = (IF w = 1 THEN l ELSE IF w = 0 THEN 0 ELSE -l)
  BY <1>6, <1>7
<1>10. x = v /\ y = w /\ k = l
  BY <1>8, <1>9
<1> QED
  BY <1>1, <1>2, <1>3, <1>10

-----------------------------------------------------------------------------
(* The threats of a board *)

\* A board as the features see it, with no pawn on the first or the last rank.
Sound(pos) ==
    /\ pos \in SUBSET Pieces /\ IsFiniteSet(pos) /\ Kings(pos) /\ OnePerSquare(pos)
    /\ \A p \in pos : p.type = Pawn => Rank(p.sq) \in 1..6
\* What the side to move takes a piece for, and its square.
CodeIn(v, p) == SideOf(v, CodeOf(p))
PlaceIn(pos, v, p) == TurnOf(v, FlipFile(KingOf(pos, v)), FlipFile(p.sq))

LEMMA CodesOf ==
    ASSUME NEW p \in Pieces, NEW v \in {0, 1}
    PROVE  /\ CodeIn(v, p) \in ThreatPieces /\ TypeOf(CodeIn(v, p)) = p.type
           /\ ColorOf(CodeIn(v, p)) = (IF p.color = v THEN 0 ELSE 1)
           /\ TypeOf(CodeOf(p)) = p.type
<1>1. p.type \in 1..6 /\ p.color \in {0, 1}
  BY PieceOf
<1>2. ASSUME NEW t \in 1..6, NEW c \in {0, 1}
      PROVE  t + 8 * c \in ThreatPieces /\ TypeOf(t + 8 * c) = t /\ ColorOf(t + 8 * c) = c
  BY DEF ThreatPieces, TypeOf, ColorOf
<1>3. CodeIn(v, p) = p.type + 8 * (IF p.color = v THEN 0 ELSE 1)
  BY SideTurned DEF CodeIn
<1>4. CodeOf(p) = p.type + 8 * p.color
  BY DEF CodeOf
<1>5. (IF p.color = v THEN 0 ELSE 1) \in {0, 1}
  OBVIOUS
<1> QED
  BY <1>1, <1>2, <1>3, <1>4, <1>5

LEMMA PlaceApart ==
    ASSUME NEW v, NEW king, NEW s \in Squares, NEW t \in Squares
    PROVE  /\ TurnOf(v, king, FlipFile(s)) \in Squares
           /\ Rank(TurnOf(v, king, FlipFile(s))) \in {Rank(s), 7 - Rank(s)}
           /\ TurnOf(v, king, FlipFile(s)) = TurnOf(v, king, FlipFile(t)) => s = t
<1>1. ASSUME NEW x \in Squares
      PROVE  /\ FlipRank(x) \in Squares /\ FlipFile(x) \in Squares
             /\ FlipRank(FlipRank(x)) = x /\ FlipFile(FlipFile(x)) = x
             /\ Rank(FlipRank(x)) = 7 - Rank(x) /\ Rank(FlipFile(x)) = Rank(x)
  BY Flips
<1> DEFINE g(x) == IF v = 1 THEN FlipRank(x) ELSE x
           h(x) == IF File(king) < 4 THEN x ELSE FlipFile(x)
<1>2. ASSUME NEW x \in Squares
      PROVE  g(x) \in Squares /\ h(x) \in Squares /\ g(g(x)) = x /\ h(h(x)) = x
             /\ Rank(g(x)) \in {Rank(x), 7 - Rank(x)} /\ Rank(h(x)) = Rank(x)
  BY <1>1
<1>3. \A x : TurnOf(v, king, x) = h(g(x))
  BY DEF TurnOf
<1> HIDE DEF g, h
<1> QED
  BY <1>1, <1>2, <1>3

LEMMA TurnedAttack ==
    ASSUME NEW type \in 1..6, NEW c \in {0, 1}, NEW v \in {0, 1}, NEW king,
           NEW s \in Squares, NEW t \in Squares, t \in AttacksOf(type, c, s, {})
    PROVE  TurnOf(v, king, FlipFile(t))
               \in AttacksOf(type, IF c = v THEN 0 ELSE 1, TurnOf(v, king, FlipFile(s)), {})
<1> DEFINE e == IF c = v THEN 0 ELSE 1
           g(x) == IF v = 1 THEN FlipRank(x) ELSE x
           h(x) == IF File(king) < 4 THEN x ELSE FlipFile(x)
<1>1. e \in {0, 1} /\ (v = 1 => e = 1 - c) /\ (v # 1 => e = c)
  OBVIOUS
<1>2. FlipFile(s) \in Squares /\ FlipFile(t) \in Squares /\ FlipFile(t) \in AttacksOf(type, c, FlipFile(s), {})
  BY AttackMirrored, Flips
<1>3. \A x \in Squares : FlipRank(x) \in Squares /\ FlipFile(x) \in Squares
  BY Flips
<1>4. g(FlipFile(t)) \in AttacksOf(type, e, g(FlipFile(s)), {})
      /\ g(FlipFile(s)) \in Squares /\ g(FlipFile(t)) \in Squares
  <2>1. CASE v = 1
    <3>1. Flipped({}) = {} /\ {} \in SUBSET Squares
      BY DEF Flipped
    <3>2. FlipRank(FlipFile(t)) \in AttacksOf(type, 1 - c, FlipRank(FlipFile(s)), {})
      BY <1>2, <3>1, AttackTurned
    <3> QED
      BY <1>1, <1>2, <1>3, <2>1, <3>2
  <2>2. CASE v # 1
    BY <1>1, <1>2, <2>2
  <2> QED
    BY <2>1, <2>2
<1>5. \A x : TurnOf(v, king, x) = h(g(x))
  BY DEF TurnOf
<1> HIDE DEF e, g
<1>6. h(g(FlipFile(t))) \in AttacksOf(type, e, h(g(FlipFile(s))), {})
  <2>1. FlipFile(g(FlipFile(t))) \in AttacksOf(type, e, FlipFile(g(FlipFile(s))), {})
    BY <1>1, <1>4, AttackMirrored
  <2> QED
    BY <1>4, <2>1
<1> QED
  BY <1>5, <1>6 DEF e

\* An attack on the board is one of the table.
LEMMA AttackInTable ==
    ASSUME NEW pos, Sound(pos), NEW v \in {0, 1}, NEW p \in pos, NEW q \in pos,
           NEW occupied, q.sq \in AttacksOf(p.type, p.color, p.sq, occupied)
    PROVE  /\ Attacks(CodeIn(v, p), PlaceIn(pos, v, p), PlaceIn(pos, v, q))
           /\ CodeIn(v, p) \in ThreatPieces /\ CodeIn(v, q) \in ThreatPieces
           /\ RowIn(pos, v, p, q) = RowOf(CodeIn(v, p), PlaceIn(pos, v, p), PlaceIn(pos, v, q), CodeIn(v, q))
<1> DEFINE a == CodeIn(v, p)
           x == PlaceIn(pos, v, p)
           y == PlaceIn(pos, v, q)
<1>1. /\ p \in Pieces /\ q \in Pieces /\ p.type \in 1..6 /\ p.color \in {0, 1}
      /\ p.sq \in Squares /\ q.sq \in Squares
  BY PieceOf DEF Sound
<1>2. q.sq \in AttacksOf(p.type, p.color, p.sq, {})
  BY <1>1, AttackEmpty
<1>3. a \in ThreatPieces /\ TypeOf(a) = p.type /\ ColorOf(a) = (IF p.color = v THEN 0 ELSE 1)
      /\ CodeIn(v, q) \in ThreatPieces
  BY <1>1, CodesOf
<1>4. x \in Squares /\ Rank(x) \in {Rank(p.sq), 7 - Rank(p.sq)}
  BY <1>1, PlaceApart DEF PlaceIn
<1>5. y \in AttacksOf(p.type, IF p.color = v THEN 0 ELSE 1, x, {})
  BY <1>1, <1>2, TurnedAttack DEF PlaceIn
<1>6. RowIn(pos, v, p, q) = RowOf(a, x, y, CodeIn(v, q))
  BY IndexIsRow DEF RowIn, CodeIn, PlaceIn
<1> HIDE DEF a, x, y
<1>7. y \in PseudoAttacks[a][x]
  BY <1>3, <1>4, <1>5, PseudoOf
<1>8. TypeOf(a) = Pawn => x \in 8..55
  <2> SUFFICES ASSUME TypeOf(a) = Pawn PROVE x \in 8..55
    OBVIOUS
  <2>1. Rank(p.sq) \in 1..6
    BY <1>3 DEF Sound
  <2>2. Rank(x) \in 1..6
    BY <1>4, <2>1
  <2>3. x = 8 * Rank(x) + File(x) /\ File(x) \in 0..7
    BY <1>4, Flips
  <2> QED
    BY <2>2, <2>3
<1>9. Attacks(a, x, y)
  BY <1>4, <1>7, <1>8 DEF Attacks
<1> QED
  BY <1>3, <1>6, <1>9 DEF a, x, y

\* Two attacks on a board with one row are one attack.
LEMMA PairsApart ==
    ASSUME NEW pos, Sound(pos), NEW v \in {0, 1},
           NEW p \in pos, NEW q \in pos, NEW o, q.sq \in AttacksOf(p.type, p.color, p.sq, o),
           NEW r \in pos, NEW s \in pos, NEW w, s.sq \in AttacksOf(r.type, r.color, r.sq, w),
           RowIn(pos, v, p, q) < ThreatFeatureCount, RowIn(pos, v, p, q) = RowIn(pos, v, r, s)
    PROVE  p = r /\ q = s
<1>1. /\ Attacks(CodeIn(v, p), PlaceIn(pos, v, p), PlaceIn(pos, v, q))
      /\ CodeIn(v, p) \in ThreatPieces /\ CodeIn(v, q) \in ThreatPieces
      /\ RowIn(pos, v, p, q) = RowOf(CodeIn(v, p), PlaceIn(pos, v, p), PlaceIn(pos, v, q), CodeIn(v, q))
  BY AttackInTable
<1>2. /\ Attacks(CodeIn(v, r), PlaceIn(pos, v, r), PlaceIn(pos, v, s))
      /\ CodeIn(v, r) \in ThreatPieces /\ CodeIn(v, s) \in ThreatPieces
      /\ RowIn(pos, v, r, s) = RowOf(CodeIn(v, r), PlaceIn(pos, v, r), PlaceIn(pos, v, s), CodeIn(v, s))
  BY AttackInTable
<1>3. PlaceIn(pos, v, p) = PlaceIn(pos, v, r) /\ PlaceIn(pos, v, q) = PlaceIn(pos, v, s)
  <2> DEFINE a == CodeIn(v, p)
             b == CodeIn(v, q)
             d == CodeIn(v, r)
             e == CodeIn(v, s)
             from == PlaceIn(pos, v, p)
             to == PlaceIn(pos, v, q)
             start == PlaceIn(pos, v, r)
             end == PlaceIn(pos, v, s)
  <2>1. /\ a \in ThreatPieces /\ b \in ThreatPieces /\ Attacks(a, from, to)
        /\ d \in ThreatPieces /\ e \in ThreatPieces /\ Attacks(d, start, end)
        /\ RowOf(a, from, to, b) < ThreatFeatureCount /\ RowOf(a, from, to, b) = RowOf(d, start, end, e)
    BY <1>1, <1>2
  <2> HIDE DEF a, b, d, e, from, to, start, end
  <2>2. from = start /\ to = end
    BY <2>1, RowsApart
  <2> QED
    BY <2>2 DEF from, to, start, end
<1>4. \A x \in pos : x.sq \in Squares
  BY PieceOf DEF Sound
<1>5. p.sq = r.sq /\ q.sq = s.sq
  BY <1>3, <1>4, PlaceApart DEF PlaceIn
<1> QED
  BY <1>5 DEF Sound, OnePerSquare

\* What has a region is a target worth a look.
LEMMA MappedTargets ==
    ASSUME NEW x \in 1..6, NEW y \in 1..6, ThreatTargetMap[x][y] >= 0
    PROVE  x # King /\ y \in TargetTypes(x) /\ (x = y => x # Pawn)
<1>1. x = 1 => ThreatTargetMap[x] = <<-1, 0, -1, 1, -1, -1>>
  BY DEF ThreatTargetMap
<1>2. x = 2 => ThreatTargetMap[x] = <<0, 1, 2, 3, 4, -1>>
  BY DEF ThreatTargetMap
<1>3. x \in {3, 4} => ThreatTargetMap[x] = <<0, 1, 2, 3, -1, -1>>
  BY DEF ThreatTargetMap
<1>4. x = 5 => ThreatTargetMap[x] = <<0, 1, 2, 3, 4, -1>>
  BY DEF ThreatTargetMap
<1>5. x = 6 => ThreatTargetMap[x] = <<-1, -1, -1, -1, -1, -1>>
  BY DEF ThreatTargetMap
<1>6. x = 1 \/ x = 2 \/ x \in {3, 4} \/ x = 5 \/ x = 6
  OBVIOUS
<1>7. CASE x = 1
  <2>1. y \in {2, 4}
    BY <1>1, <1>7
  <2>2. TargetTypes(x) = {2, 4}
    BY <1>7 DEF TargetTypes, Pawn, Knight, Bishop, Rook, Queen
  <2> QED
    BY <1>7, <2>1, <2>2 DEF King, Pawn
<1>8. CASE x = 2 \/ x = 5
  <2>1. y \in 1..5
    BY <1>2, <1>4, <1>8
  <2>2. TargetTypes(x) = {1, 2, 3, 4, 5}
    BY <1>8 DEF TargetTypes, Pawn, Knight, Bishop, Rook, Queen
  <2> QED
    BY <1>8, <2>1, <2>2 DEF King, Pawn
<1>9. CASE x \in {3, 4}
  <2>1. y \in 1..4
    BY <1>3, <1>9
  <2>2. TargetTypes(x) = {1, 2, 3, 4}
    BY <1>9 DEF TargetTypes, Pawn, Knight, Bishop, Rook, Queen
  <2> QED
    BY <1>9, <2>1, <2>2 DEF King, Pawn
<1>10. x # 6
  BY <1>5
<1> QED
  BY <1>6, <1>7, <1>8, <1>9, <1>10

\* A list of attacks, and which of them have a row.
LEMMA EmittedPairs ==
    ASSUME NEW pairs, NEW pos, NEW v
    PROVE  LET f == Emitted(pairs, pos, v)
           IN  /\ f = [x \in DOMAIN f |-> f[x]]
               /\ \A x : x \in DOMAIN f <=> x \in pairs /\ RowIn(pos, v, x[1], x[2]) < ThreatFeatureCount
               /\ \A x \in DOMAIN f : f[x] = RowIn(pos, v, x[1], x[2])
<1> DEFINE S == {x \in pairs : RowIn(pos, v, x[1], x[2]) < ThreatFeatureCount}
           f == Emitted(pairs, pos, v)
<1>1. f = [x \in S |-> RowIn(pos, v, x[1], x[2])]
  BY EmittedRows
<1>2. \A x : x \in S <=> x \in pairs /\ RowIn(pos, v, x[1], x[2]) < ThreatFeatureCount
  OBVIOUS
<1> HIDE DEF S, f
<1>3. DOMAIN f = S /\ f = [x \in DOMAIN f |-> f[x]] /\ \A x \in S : f[x] = RowIn(pos, v, x[1], x[2])
  BY <1>1
<1> QED
  BY <1>2, <1>3 DEF f

\* The attacks of a board of a kind that has rows.
RowedAttacks(pos) ==
    {pq \in pos \X pos :
        /\ pq[2].sq \in AttacksOf(pq[1].type, pq[1].color, pq[1].sq, Occupied(pos))
        /\ Mapped(CodeOf(pq[1]), CodeOf(pq[2])) >= 0}

\* Which of them have a row.
LEMMA RowedPairs ==
    ASSUME NEW pos, Sound(pos), NEW v \in {0, 1}, NEW p \in pos, NEW q \in pos
    PROVE  /\ <<p, q>> \in RowedAttacks(pos) =>
                 (<<p, q>> \in DOMAIN ThreatFeatures(pos, v)
                     <=> ~ (p.type = q.type /\ PlaceIn(pos, v, p) < PlaceIn(pos, v, q)))
           /\ <<p, q>> \in DOMAIN ThreatFeatures(pos, v) => <<p, q>> \in RowedAttacks(pos)
<1> DEFINE pq == <<p, q>>
           f == ThreatFeatures(pos, v)
           seen == q.sq \in AttacksOf(p.type, p.color, p.sq, Occupied(pos))
           m == ThreatTargetMap[p.type][q.type]
           a == CodeIn(v, p)
           b == CodeIn(v, q)
           up == PlaceIn(pos, v, p) < PlaceIn(pos, v, q)
<1>1. /\ p \in Pieces /\ q \in Pieces /\ p.type \in 1..6 /\ q.type \in 1..6
  BY PieceOf DEF Sound
<1>2. /\ TypeOf(CodeOf(p)) = p.type /\ TypeOf(CodeOf(q)) = q.type
      /\ TypeOf(a) = p.type /\ TypeOf(b) = q.type
  BY <1>1, CodesOf
<1>3. Mapped(CodeOf(p), CodeOf(q)) = m /\ Mapped(a, b) = m /\ m \in Int
  BY <1>1, <1>2, TargetPlaces DEF Mapped
<1>4. pq \in RowedAttacks(pos) <=> seen /\ m >= 0
  BY <1>3 DEF RowedAttacks
<1>5. f = Emitted(ThreatPairs(pos), pos, v)
  BY ThreatsOf
<1>6. pq \in ThreatPairs(pos) <=> seen /\ p.type # King /\ q.type \in TargetTypes(p.type)
  BY DEF ThreatPairs
<1>7. pq \in DOMAIN f <=> pq \in ThreatPairs(pos) /\ RowIn(pos, v, p, q) < ThreatFeatureCount
  BY <1>5, EmittedPairs
<1>8. seen => (RowIn(pos, v, p, q) < ThreatFeatureCount <=> ~ Excluded(a, b, up))
  BY AttackInTable, RowFits
<1>9. m >= 0 => p.type # King /\ q.type \in TargetTypes(p.type) /\ (p.type = q.type => p.type # Pawn)
  BY <1>1, MappedTargets
<1>10. Excluded(a, b, up) <=>
           \/ m < 0
           \/ up /\ p.type = q.type /\ (ColorOf(a) # ColorOf(b) \/ p.type # Pawn)
  BY <1>2, <1>3 DEF Excluded
<1> HIDE DEF seen, m, a, b, up, f, pq
<1>11. m < 0 <=> ~ (m >= 0)
  BY <1>3
<1> QED
  <2>1. pq \in RowedAttacks(pos) => (pq \in DOMAIN f <=> ~ (p.type = q.type /\ up))
    BY <1>4, <1>6, <1>7, <1>8, <1>9, <1>10, <1>11
  <2>2. pq \in DOMAIN f => pq \in RowedAttacks(pos)
    BY <1>4, <1>6, <1>7, <1>8, <1>10, <1>11
  <2> QED
    BY <2>1, <2>2 DEF pq, f, up

LEMMA AttacksHaveRows ==
    ASSUME NEW pos, Sound(pos), NEW v \in {0, 1}
    PROVE  /\ DOMAIN ThreatFeatures(pos, v) \subseteq RowedAttacks(pos)
           /\ \A pq \in RowedAttacks(pos) :
                 IF pq[1].type = pq[2].type
                 THEN (pq \in DOMAIN ThreatFeatures(pos, v))
                         # (<<pq[2], pq[1]>> \in DOMAIN ThreatFeatures(pos, v))
                 ELSE pq \in DOMAIN ThreatFeatures(pos, v)
<1> DEFINE D == DOMAIN ThreatFeatures(pos, v)
<1>1. \A pq \in D : \E p \in pos, q \in pos : pq = <<p, q>>
  <2>1. ThreatFeatures(pos, v) = Emitted(ThreatPairs(pos), pos, v)
    BY ThreatsOf
  <2>2. D \subseteq ThreatPairs(pos)
    BY <2>1, EmittedPairs
  <2> QED
    BY <2>2 DEF ThreatPairs
<1>2. D \subseteq RowedAttacks(pos)
  BY <1>1, RowedPairs
<1>3. ASSUME NEW pq \in RowedAttacks(pos)
      PROVE  IF pq[1].type = pq[2].type THEN (pq \in D) # (<<pq[2], pq[1]>> \in D) ELSE pq \in D
  <2>1. PICK p \in pos, q \in pos : pq = <<p, q>>
    BY DEF RowedAttacks
  <2> DEFINE x == PlaceIn(pos, v, p)
             y == PlaceIn(pos, v, q)
  <2>2. pq \in D <=> ~ (p.type = q.type /\ x < y)
    BY <2>1, RowedPairs
  <2>3. /\ p.type \in 1..6 /\ p.color \in {0, 1} /\ p.sq \in Squares
        /\ q.type \in 1..6 /\ q.color \in {0, 1} /\ q.sq \in Squares
        /\ p \in Pieces /\ q \in Pieces
    BY PieceOf DEF Sound
  <2>4. q.sq \in AttacksOf(p.type, p.color, p.sq, Occupied(pos)) /\ Mapped(CodeOf(p), CodeOf(q)) >= 0
    BY <2>1 DEF RowedAttacks
  <2>5. CASE p.type = q.type
    <3>1. Mapped(CodeOf(p), CodeOf(q)) = ThreatTargetMap[p.type][q.type]
          /\ Mapped(CodeOf(q), CodeOf(p)) = ThreatTargetMap[q.type][p.type]
      BY <2>3, CodesOf DEF Mapped
    <3>2. p.type # Pawn
      BY <2>3, <2>4, <2>5, <3>1, MappedTargets
    <3>3. p.sq \in AttacksOf(p.type, q.color, q.sq, Occupied(pos))
      BY <2>3, <2>4, <3>2, AttackAnswered
    <3>4. <<q, p>> \in RowedAttacks(pos)
      BY <2>4, <2>5, <3>1, <3>3 DEF RowedAttacks
    <3>5. <<q, p>> \in D <=> ~ (q.type = p.type /\ y < x)
      BY <3>4, RowedPairs
    <3>6. p.sq # q.sq
      BY <2>3, <2>4, NotSelf
    <3>7. x \in Squares /\ y \in Squares /\ x # y
      BY <2>3, <3>6, PlaceApart DEF PlaceIn
    <3> HIDE DEF x, y, D
    <3>8. x < y <=> ~ (y < x)
      BY <3>7 DEF Squares
    <3>9. (pq \in D) # (<<q, p>> \in D)
      BY <2>2, <2>5, <3>5, <3>8
    <3> QED
      BY <2>1, <2>5, <3>9
  <2>6. CASE p.type # q.type
    BY <2>1, <2>2, <2>6
  <2> QED
    BY <2>5, <2>6
<1> QED
  BY <1>2, <1>3

LEMMA ThreatRowsOnce ==
    ASSUME NEW pos, Sound(pos), NEW v \in {0, 1}
    PROVE  OneToOne(ThreatFeatures(pos, v))
<1> DEFINE f == ThreatFeatures(pos, v)
<1>1. f = Emitted(ThreatPairs(pos), pos, v)
  BY ThreatsOf
<1>2. f = [x \in DOMAIN f |-> f[x]] /\ \A x \in DOMAIN f : f[x] = RowIn(pos, v, x[1], x[2])
  BY <1>1, EmittedPairs
<1>3. \A x \in DOMAIN f : x \in ThreatPairs(pos) /\ RowIn(pos, v, x[1], x[2]) < ThreatFeatureCount
  BY <1>1, EmittedPairs
<1>4. \A x \in ThreatPairs(pos) :
          /\ x \in pos \X pos /\ x = <<x[1], x[2]>> /\ x[1] \in pos /\ x[2] \in pos
          /\ x[2].sq \in AttacksOf(x[1].type, x[1].color, x[1].sq, Occupied(pos))
  BY DEF ThreatPairs
<1> HIDE DEF f
<1>5. IsFiniteSet(DOMAIN f)
  <2>1. IsFiniteSet(pos \X pos)
    BY FS_Product DEF Sound
  <2>2. DOMAIN f \in SUBSET (pos \X pos)
    BY <1>3, <1>4
  <2> QED
    BY <2>1, <2>2, FS_Subset
<1>6. ASSUME NEW x \in DOMAIN f, NEW y \in DOMAIN f, f[x] = f[y] PROVE x = y
  <2>1. PICK p \in pos, q \in pos : x = <<p, q>>
    BY <1>3, <1>4
  <2>2. PICK r \in pos, s \in pos : y = <<r, s>>
    BY <1>3, <1>4
  <2>3. /\ q.sq \in AttacksOf(p.type, p.color, p.sq, Occupied(pos))
        /\ s.sq \in AttacksOf(r.type, r.color, r.sq, Occupied(pos))
    BY <1>3, <1>4, <2>1, <2>2
  <2>4. RowIn(pos, v, p, q) < ThreatFeatureCount /\ RowIn(pos, v, p, q) = RowIn(pos, v, r, s)
    BY <1>2, <1>3, <1>6, <2>1, <2>2
  <2>5. p = r /\ q = s
    BY <2>3, <2>4, PairsApart
  <2> QED
    BY <2>1, <2>2, <2>5
<1> QED
  BY <1>2, <1>5, <1>6, ManyValues DEF f

\* A piece behind another is seen past that one, and past no other.
LEMMA OneBlocker ==
    ASSUME NEW type \in 1..6, type \notin {Pawn, Knight, King}, NEW c \in {0, 1},
           NEW s \in Squares, NEW t \in Squares, NEW occupied, NEW b \in occupied, NEW e \in occupied,
           t \notin AttacksOf(type, c, s, occupied),
           t \in AttacksOf(type, c, s, occupied \ {b}), t \in AttacksOf(type, c, s, occupied \ {e})
    PROVE  b = e
<1>1. StepsOf(type, c) \subseteq Rays /\ Far(type) = 7
  BY StepKinds DEF Far
<1>2. PICK d \in StepsOf(type, c) : \E k \in 1..7 :
          Goes(s, d, k, t) /\ \A j \in 1..(k - 1) : SquareAt(Along(s, d, j)) \notin occupied \ {b}
  <2> DEFINE o == occupied \ {b}
  <2>1. t \in AttacksOf(type, c, s, o)
    OBVIOUS
  <2> HIDE DEF o
  <2>2. \E d \in StepsOf(type, c) : \E k \in 1..Far(type) :
            Goes(s, d, k, t) /\ \A j \in 1..(k - 1) : SquareAt(Along(s, d, j)) \notin o
    BY <2>1, AttackSteps
  <2> QED
    BY <1>1, <2>2 DEF o
<1>3. PICK k \in 1..7 :
          Goes(s, d, k, t) /\ \A j \in 1..(k - 1) : SquareAt(Along(s, d, j)) \notin occupied \ {b}
  BY <1>2
<1>4. PICK g \in StepsOf(type, c) : \E l \in 1..7 :
          Goes(s, g, l, t) /\ \A j \in 1..(l - 1) : SquareAt(Along(s, g, j)) \notin occupied \ {e}
  <2> DEFINE o == occupied \ {e}
  <2>1. t \in AttacksOf(type, c, s, o)
    OBVIOUS
  <2> HIDE DEF o
  <2>2. \E g \in StepsOf(type, c) : \E l \in 1..Far(type) :
            Goes(s, g, l, t) /\ \A j \in 1..(l - 1) : SquareAt(Along(s, g, j)) \notin o
    BY <2>1, AttackSteps
  <2> QED
    BY <1>1, <2>2 DEF o
<1>5. PICK l \in 1..7 :
          Goes(s, g, l, t) /\ \A j \in 1..(l - 1) : SquareAt(Along(s, g, j)) \notin occupied \ {e}
  BY <1>4
<1>6. d = g /\ k = l
  BY <1>1, <1>3, <1>5, NoStill, OneRay
<1>7. PICK j \in 1..(k - 1) : SquareAt(Along(s, d, j)) \in occupied
  BY <1>1, <1>3, AttackSteps
<1>8. SquareAt(Along(s, d, j)) = b /\ SquareAt(Along(s, d, j)) = e
  BY <1>3, <1>5, <1>6, <1>7
<1> QED
  BY <1>8

LEMMA XrayOf ==
    ASSUME NEW pos, Sound(pos), NEW x \in XrayPairs(pos)
    PROVE  \E p, q, b \in pos :
               /\ x = <<p, q, b>> /\ p.type \in {Bishop, Rook, Queen}
               /\ q.sq \notin AttacksOf(p.type, p.color, p.sq, Occupied(pos))
               /\ q.sq \in AttacksOf(p.type, p.color, p.sq, Occupied(pos) \ {b.sq})
<1>1. PICK y \in XrayTriples(pos) : x = <<y[1], y[3], y[2]>>
  BY DEF XrayPairs
<1> DEFINE S == {p \in pos : p.type \in {Bishop, Rook, Queen}}
<1>2. /\ y \in S \X pos \X pos
      /\ y[3].sq \in SliderAttacks(y[1].type, y[1].sq, Occupied(pos) \ {y[2].sq})
      /\ y[3].sq \notin SliderAttacks(y[1].type, y[1].sq, Occupied(pos) \ {})
  BY DEF XrayTriples
<1>3. y[1] \in S /\ y[2] \in pos /\ y[3] \in pos
  BY <1>2
<1> DEFINE p == y[1]
           b == y[2]
           q == y[3]
<1>4. p \in pos /\ b \in pos /\ q \in pos /\ p.type \in {Bishop, Rook, Queen}
  BY <1>3
<1>5. x = <<p, q, b>>
  BY <1>1
<1>6. p.type \in 1..6 /\ p.type \notin {Pawn, Knight, King}
  BY <1>4, PieceOf DEF Sound, Pawn, Knight, King, Bishop, Rook, Queen
<1>7. \A o : SliderAttacks(p.type, p.sq, o) = AttacksOf(p.type, p.color, p.sq, o)
  BY <1>6, SliderKind
<1>8. Occupied(pos) \ {} = Occupied(pos)
  OBVIOUS
<1>9. /\ q.sq \notin AttacksOf(p.type, p.color, p.sq, Occupied(pos))
      /\ q.sq \in AttacksOf(p.type, p.color, p.sq, Occupied(pos) \ {b.sq})
  BY <1>2, <1>7, <1>8
<1> HIDE DEF p, q, b
<1> QED
  BY <1>4, <1>5, <1>9

LEMMA XrayRowsOnce ==
    ASSUME NEW pos, Sound(pos), NEW v \in {0, 1}
    PROVE  OneToOne(XrayFeatures(pos, v))
<1> DEFINE f == XrayFeatures(pos, v)
<1>1. f = Emitted(XrayPairs(pos), pos, v)
  BY ThreatsOf
<1>2. f = [x \in DOMAIN f |-> f[x]] /\ \A x \in DOMAIN f : f[x] = RowIn(pos, v, x[1], x[2])
  BY <1>1, EmittedPairs
<1>3. \A x \in DOMAIN f : x \in XrayPairs(pos) /\ RowIn(pos, v, x[1], x[2]) < ThreatFeatureCount
  BY <1>1, EmittedPairs
<1> HIDE DEF f
<1>4. IsFiniteSet(DOMAIN f)
  <2>1. IsFiniteSet((pos \X pos) \X pos)
    BY FS_Product DEF Sound
  <2> DEFINE g == [z \in (pos \X pos) \X pos |-> <<z[1][1], z[1][2], z[2]>>]
             W == {g[z] : z \in DOMAIN g}
  <2>2. g \in Surjection((pos \X pos) \X pos, W)
    BY DEF Surjection
  <2>3. \A x \in DOMAIN f : x \in W
    <3> TAKE x \in DOMAIN f
    <3>1. PICK p \in pos, q \in pos, b \in pos : x = <<p, q, b>>
      <4>1. x \in XrayPairs(pos)
        BY <1>3
      <4>2. \E p, q, b \in pos :
               /\ x = <<p, q, b>> /\ p.type \in {Bishop, Rook, Queen}
               /\ q.sq \notin AttacksOf(p.type, p.color, p.sq, Occupied(pos))
               /\ q.sq \in AttacksOf(p.type, p.color, p.sq, Occupied(pos) \ {b.sq})
        BY <4>1, XrayOf
      <4> QED
        BY <4>2
    <3>2. <<<<p, q>>, b>> \in DOMAIN g /\ g[<<<<p, q>>, b>>] = <<p, q, b>>
      OBVIOUS
    <3> HIDE DEF g
    <3> QED
      BY <3>1, <3>2
  <2> HIDE DEF g, W
  <2>4. IsFiniteSet(W)
    BY <2>1, <2>2, FS_Surjection
  <2>5. DOMAIN f \in SUBSET W
    BY <2>3
  <2> QED
    BY <2>4, <2>5, FS_Subset
<1>5. ASSUME NEW x \in DOMAIN f, NEW y \in DOMAIN f, f[x] = f[y] PROVE x = y
  <2>1. PICK p \in pos, q \in pos, b \in pos :
            /\ x = <<p, q, b>> /\ p.type \in {Bishop, Rook, Queen}
            /\ q.sq \notin AttacksOf(p.type, p.color, p.sq, Occupied(pos))
            /\ q.sq \in AttacksOf(p.type, p.color, p.sq, Occupied(pos) \ {b.sq})
    BY <1>3, XrayOf
  <2>2. PICK r \in pos, s \in pos, e \in pos :
            /\ y = <<r, s, e>> /\ r.type \in {Bishop, Rook, Queen}
            /\ s.sq \in AttacksOf(r.type, r.color, r.sq, Occupied(pos) \ {e.sq})
    BY <1>3, XrayOf
  <2>3. RowIn(pos, v, p, q) < ThreatFeatureCount /\ RowIn(pos, v, p, q) = RowIn(pos, v, r, s)
    BY <1>2, <1>3, <1>5, <2>1, <2>2
  <2>4. p = r /\ q = s
    BY <2>1, <2>2, <2>3, PairsApart
  <2>5. p.type \in 1..6 /\ p.type \notin {Pawn, Knight, King} /\ p.color \in {0, 1}
        /\ p.sq \in Squares /\ q.sq \in Squares
    BY <2>1, PieceOf DEF Sound, Pawn, Knight, King, Bishop, Rook, Queen
  <2>6. b.sq \in Occupied(pos) /\ e.sq \in Occupied(pos)
    BY DEF Occupied
  <2>7. b.sq = e.sq
    <3>1. /\ q.sq \notin AttacksOf(p.type, p.color, p.sq, Occupied(pos))
          /\ q.sq \in AttacksOf(p.type, p.color, p.sq, Occupied(pos) \ {b.sq})
          /\ q.sq \in AttacksOf(p.type, p.color, p.sq, Occupied(pos) \ {e.sq})
      BY <2>1, <2>2, <2>4
    <3> DEFINE type == p.type
               c == p.color
               from == p.sq
               to == q.sq
               occupied == Occupied(pos)
               i == b.sq
               j == e.sq
    <3>2. /\ type \in 1..6 /\ type \notin {Pawn, Knight, King} /\ c \in {0, 1}
          /\ from \in Squares /\ to \in Squares /\ i \in occupied /\ j \in occupied
          /\ to \notin AttacksOf(type, c, from, occupied)
          /\ to \in AttacksOf(type, c, from, occupied \ {i})
          /\ to \in AttacksOf(type, c, from, occupied \ {j})
      BY <2>5, <2>6, <3>1
    <3> HIDE DEF type, c, from, to, occupied, i, j
    <3>3. i = j
      BY <3>2, OneBlocker
    <3> QED
      BY <3>3 DEF i, j
  <2>8. b = e
    BY <2>7 DEF Sound, OnePerSquare
  <2> QED
    BY <2>1, <2>2, <2>4, <2>8
<1> QED
  BY <1>2, <1>4, <1>5, ManyValues DEF f

\* What the property asks of a position, for a board that the converter lets pass.
LEMMA BoardThreats ==
    ASSUME NEW board \in SUBSET Pieces, IsFiniteSet(board), OnePerSquare(board), ValidBoard(board),
           NEW v \in {0, 1}
    PROVE  /\ EveryAttackOnce(board, ThreatFeatures(ForFeatures(board), v))
           /\ OneToOne(XrayFeatures(ForFeatures(board), v))
<1> DEFINE pos == ForFeatures(board)
<1>1. Sound(pos)
  <2>1. pos \in SUBSET Pieces /\ pos = {Seen(p) : p \in board} /\ IsFiniteSet(pos) /\ Kings(pos)
    BY SeenBoard, FiniteSeen, ValidKings
  <2>2. \A p \in board : Seen(p).type = p.type /\ Seen(p).sq = FlipFile(p.sq) /\ p.sq \in Squares
    BY SeenPiece, PieceOf
  <2>3. \A p \in board : Rank(FlipFile(p.sq)) = Rank(p.sq) /\ FlipFile(FlipFile(p.sq)) = p.sq
    BY <2>2, Flips
  <2>4. \A p \in board : p.type = Pawn => Rank(p.sq) \in 1..6
    BY DEF ValidBoard
  <2>5. OnePerSquare(pos)
    BY <2>1, <2>2, <2>3 DEF OnePerSquare
  <2>6. \A p \in pos : p.type = Pawn => Rank(p.sq) \in 1..6
    BY <2>1, <2>2, <2>3, <2>4
  <2> HIDE DEF pos
  <2> QED
    BY <2>1, <2>5, <2>6 DEF Sound
<1> HIDE DEF pos
<1>2. /\ DOMAIN ThreatFeatures(pos, v) \subseteq RowedAttacks(pos)
      /\ \A pq \in RowedAttacks(pos) :
            IF pq[1].type = pq[2].type
            THEN (pq \in DOMAIN ThreatFeatures(pos, v))
                    # (<<pq[2], pq[1]>> \in DOMAIN ThreatFeatures(pos, v))
            ELSE pq \in DOMAIN ThreatFeatures(pos, v)
      /\ OneToOne(ThreatFeatures(pos, v))
  BY <1>1, AttacksHaveRows, ThreatRowsOnce
<1>3. EveryAttackOnce(board, ThreatFeatures(pos, v))
  BY <1>2 DEF EveryAttackOnce, RowedAttacks, pos
<1> QED
  BY <1>1, <1>3, XrayRowsOnce DEF pos

\* Of the pieces a record decodes to.
LEMMA PositionThreats ==
    ASSUME job \in Jobs, ConvertPosition, result'[1].kind = "items"
    PROVE  /\ EveryAttackOnce(result'[1].row.board, result'[1].item.threats)
           /\ OneToOne(result'[1].item.xrays)
<1>1. job' = job /\ job.tool = "position"
  BY DEF ConvertPosition, Run
<1> DEFINE rec == job.rec
           score == job.score
<1>2. score \in Int /\ rec \in LcRecords /\ OneToASquare(rec)
  BY <1>1, PositionJobs DEF PositionJob
<1>3. result' = IF RecordToRow(rec).kind # "row" THEN <<RecordToRow(rec), RecordToRow(Other(rec))>>
                ELSE <<ItemsOf(rec, score), ItemsOf(Other(rec), score)>>
  BY DEF ConvertPosition, Run, ItemsOf, RowWith, Other, Bullet
<1> HIDE DEF rec, score
<1>4. RecordToRow(rec).kind = "row"
  <2>1. SUFFICES ASSUME RecordToRow(rec).kind # "row" PROVE FALSE
    OBVIOUS
  <2>2. result'[1] = RecordToRow(rec)
    BY <1>3, <2>1
  <2>3. RecordToRow(rec).kind # "items"
    BY DEF RecordToRow
  <2> QED
    BY <2>2, <2>3
<1> DEFINE a == ItemsOf(rec, score)
           row == RowWith(rec, score)
           board == row.board
           mover == IF row.black THEN 1 ELSE 0
<1>5. result'[1] = a
  BY <1>3, <1>4
<1>6. a.row = row /\ a.item = ItemOfRow(row)
  BY DEF ItemsOf
<1>7. /\ board \in SUBSET Pieces /\ IsFiniteSet(board) /\ OnePerSquare(board)
      /\ row.black \in BOOLEAN
  BY <1>2, <1>4, RowOfRecord
<1>8. ValidBoard(board)
  BY <1>4, RowFields
<1>9. mover \in {0, 1}
  OBVIOUS
<1>10. a.item.threats = ThreatFeatures(ForFeatures(board), mover)
       /\ a.item.xrays = XrayFeatures(ForFeatures(board), mover)
  <2> DEFINE count == Cardinality(row.board)
             x == Item(board, mover, count, row.score, row.wdl)
  <2>1. a.item = x
    BY <1>6 DEF ItemOfRow
  <2> HIDE DEF board, mover, a, row, count
  <2>2. x.threats = ThreatFeatures(ForFeatures(board), mover)
        /\ x.xrays = XrayFeatures(ForFeatures(board), mover)
    BY DEF Item
  <2> QED
    BY <2>1, <2>2
<1> HIDE DEF mover, a, row
<1>11. /\ EveryAttackOnce(board, ThreatFeatures(ForFeatures(board), mover))
       /\ OneToOne(XrayFeatures(ForFeatures(board), mover))
  <2> HIDE DEF board
  <2> QED
    BY <1>7, <1>8, <1>9, BoardThreats
<1> QED
  BY <1>5, <1>6, <1>10, <1>11

-----------------------------------------------------------------------------
(* The invocations *)

\* The tool that is run is the one the job is for.
LEMMA OneTool ==
    ASSUME Next
    PROVE  /\ UNCHANGED job
           /\ job.tool = "export" => Export
           /\ job.tool = "bullet" => ExportBullet
           /\ job.tool = "rewrite" => Rewrite
           /\ job.tool = "warmstart" => WarmStart
           /\ job.tool = "expand" => Expand
           /\ job.tool = "convert" => Convert
           /\ job.tool = "threats" => Threats
           /\ job.tool = "position" => ConvertPosition
BY DEF Next, Export, ExportBullet, Rewrite, WarmStart, Expand, Convert, Threats,
       ConvertPosition, RelabelRecords, ConvertShards, Recut, Mix, Sample, PackShards, Calibrate,
       PoolValues, Run

ToolsHold ==
    /\ job \in Jobs
    /\ ExportsLoad /\ RewritesKeepTheNet /\ WarmStartsFit /\ SidesAgree
    /\ RegionsKept /\ ThreatRowsAreApart

LEMMA ExportStep == ASSUME job \in Jobs, Next PROVE ExportsLoad'
<1>1. job' = job
  BY OneTool
<1>2. ASSUME job.tool = "export"
      PROVE  IF Unusable(job.c) THEN ~result'.net.made
             ELSE result'.net.made /\ result'.net.arch = Exported(job.c)
  <2>1. job.c \in Configurations
    BY <1>2, JobsAssumption
  <2>2. result'.net = LoadNet(WriteModel(job.c))
    BY <1>2, OneTool DEF Export, Run
  <2>3. ~Unusable(job.c) => result'.net = InMemory(Exported(job.c))
    BY <2>1, <2>2, ExportIsLoaded
  <2> QED
    BY <2>1, <2>2, <2>3, UnusableIsRefused DEF InMemory
<1>3. ASSUME job.tool = "bullet", BulletExport(job.c).made
      PROVE  /\ result'.plain.made <=> job.c.hidden = RuntimeHidden
             /\ result'.plain.made => result'.plain.arch = [Exported(job.c) EXCEPT !.version = 1]
             /\ TrainerAccepts(job.c) => result'.file = WriteModel(job.c)
  <2>1. job.c \in BulletConfigurations
    BY <1>3, JobsAssumption
  <2>2. result'.plain = LoadNet(BulletExport(job.c)) /\ result'.file = BulletContainer(job.c)
    BY <1>3, OneTool DEF ExportBullet, Run
  <2>3. /\ result'.plain.made <=> job.c.hidden = RuntimeHidden
        /\ result'.plain.made => result'.plain.arch = [Exported(job.c) EXCEPT !.version = 1]
    BY <1>3, <2>1, <2>2, BulletIsLoaded
  <2>4. TrainerAccepts(job.c) => result'.file = WriteModel(job.c)
    BY <1>3, <2>1, <2>2, BulletIsContained
  <2> QED
    BY <2>3, <2>4
<1>4. /\ Done("export")' => job.tool = "export"
      /\ Done("bullet")' => job.tool = "bullet"
  BY <1>1 DEF Done
<1> QED
  BY <1>1, <1>2, <1>3, <1>4 DEF ExportsLoad, Unusable

LEMMA RewriteStep == ASSUME Next PROVE RewritesKeepTheNet'
<1> SUFFICES ASSUME Done("rewrite")', result'.net.made
             PROVE  LET a == result'.net.arch
                    IN  /\ result'.copy.file = WriteModel(job'.c)
                        /\ a.version # 12 => result'.copy.ok
                        /\ result'.blend.file \in {NotMade, result'.copy.file}
                        /\ result'.blend.ok <=> /\ a.flags \cap {"pawn_pairs", "psqt_residual"} = {}
                                               /\ result'.net.squared # "shared"
  BY DEF RewritesKeepTheNet
<1>1. job' = job /\ Rewrite
  BY OneTool DEF Done
<1> QED
  BY <1>1, RewriteKeeps DEF Rewrite, Run

LEMMA WarmStartStep == ASSUME job \in Jobs, Next PROVE WarmStartsFit'
<1> SUFFICES ASSUME Done("warmstart")', result'.made
             PROVE  LET parent == LoadNet(WriteModel(job'.parent)).arch
                        same == parent.buckets = job'.child.buckets /\ parent.channels = job'.child.channels
                        fits == IF same THEN \/ parent.flags \cap InputFlags = {}
                                             \/ HasThreats(parent) /\ HasThreats(job'.child)
                                ELSE ~(HasThreats(parent) /\ HasThreats(job'.child))
                    IN  (result' = TensorsOf(job'.child)) <=> fits
  BY DEF WarmStartsFit
<1>1. job' = job /\ WarmStart
  BY OneTool DEF Done
<1>2. job.parent \in Configurations /\ job.child \in Configurations
  BY <1>1, JobsAssumption DEF WarmStart, Run
<1>3. result' = WeightsFrom(LoadNet(WriteModel(job.parent)), job.child, job.reset)
  BY <1>1 DEF WarmStart, Run
<1> QED
  BY <1>1, <1>2, <1>3, StartFits

LEMMA PositionStep == ASSUME job \in Jobs, Next PROVE SidesAgree'
<1>1. job' = job /\ (job.tool = "position" => ConvertPosition)
  BY OneTool
<1>2. CASE job.tool = "position"
  BY <1>1, <1>2, PositionSides
<1>3. CASE job.tool # "position"
  BY <1>1, <1>3 DEF SidesAgree, Done
<1> QED
  BY <1>2, <1>3

LEMMA KingsStep == ASSUME job \in Jobs, Next PROVE RegionsKept'
<1>1. /\ job' = job
      /\ job.tool = "expand" => Expand
      /\ job.tool = "convert" => Convert
  BY OneTool
<1>2. ASSUME job.tool = "expand", <<job.trained, job.runtime>> \notin {<<4, 10>>, <<8, 10>>},
             NEW k \in Squares
      PROVE  result'[KingBuckets(job.runtime)[k]] = KingBuckets(job.trained)[k]
  <2>1. result' = [b \in 0..(job.runtime - 1) |-> ParentBucket(b, job.trained, job.runtime)]
    BY <1>1, <1>2 DEF Expand, Run
  <2>2. job.trained \in BucketCounts /\ job.runtime \in BucketCounts /\ job.trained <= job.runtime
    BY <1>2, LayoutAssumption
  <2>3. /\ KingBuckets(job.runtime)[k] \in 0..(job.runtime - 1)
        /\ ParentBucket(KingBuckets(job.runtime)[k], job.trained, job.runtime) = KingBuckets(job.trained)[k]
    BY <1>2, <2>2, ExpandKeeps
  <2> QED
    BY <2>1, <2>3
<1>3. ASSUME job.tool = "convert"
      PROVE  /\ job.from \in BucketCounts /\ job.to \in BucketCounts /\ BucketsMap(job.from, job.to)
             /\ result'.buckets = [b \in 0..(job.to - 1) |-> SourceBuckets(b, job.from, job.to)]
             /\ result'.kings = [b \in 0..(job.to - 1) |->
                                    [s \in Squares |-> SourceChannel(10, s, b, 12, 11)]]
  BY <1>1, <1>3, LayoutAssumption DEF Convert, Run
<1>4. ASSUME job.tool = "convert", job.to # 32 \/ job.from \notin {2, 4, 8}, NEW b \in 0..(job.to - 1)
      PROVE  result'.buckets[b] =
                 {KingBuckets(job.from)[k] : k \in {k \in Squares : KingBuckets(job.to)[k] = b}}
  <2>1. result'.buckets[b] = SourceBuckets(b, job.from, job.to)
    BY <1>3, <1>4
  <2>2. SourceBuckets(b, job.from, job.to) = HeldBy(job.from, job.to, b)
    BY <1>3, <1>4, ConvertKeeps
  <2> QED
    BY <2>1, <2>2 DEF HeldBy
<1>5. ASSUME job.tool = "convert", job.to = 32, NEW b \in 0..31
      PROVE  {s \in Squares : result'.kings[b][s] = 5} = {k \in Squares : KingBuckets32[k] = b}
  <2>1. \A s \in Squares : result'.kings[b][s] = SourceChannel(10, s, b, 12, 11)
    BY <1>3, <1>5
  <2>2. \A s \in Squares : SourceChannel(10, s, b, 12, 11) = 5 <=> KingBuckets32[s] = b
    BY DEF SourceChannel
  <2> QED
    BY <2>1, <2>2
<1>6. /\ Done("expand")' => job.tool = "expand"
      /\ Done("convert")' => job.tool = "convert"
  BY <1>1 DEF Done
<1> QED
  BY <1>1, <1>2, <1>4, <1>5, <1>6 DEF RegionsKept

LEMMA ThreatRowsStep == ASSUME job \in Jobs, Next PROVE ThreatRowsAreApart'
<1>1. job' = job /\ (job.tool = "position" => ConvertPosition)
  BY OneTool
<1>2. Done("threats")' => RegionIsApart'
  <2>1. SUFFICES ASSUME job.tool = "threats" PROVE RegionIsApart'
    BY <1>1 DEF Done
  <2>2. job.attacker \in ThreatPieces /\ job.attacked \in ThreatPieces
    BY <2>1, ThreatAssumption
  <2>3. result' = [ft \in ListedPairs(job.attacker, job.attacked) |->
                      ThreatIndex(0, job.attacker, ft[1], ft[2], job.attacked, 0)]
    BY <2>1, OneTool DEF Threats, Run, ListedPairs, SquaresFor
  <2>4. ApartIn(job.attacker, job.attacked, result')
    BY <2>2, <2>3, ListApart
  <2> QED
    BY <1>1, <2>4 DEF RegionIsApart, ApartIn
<1>3. Done("position")' /\ result'[1].kind = "items" =>
          /\ EveryAttackOnce(result'[1].row.board, result'[1].item.threats)
          /\ OneToOne(result'[1].item.xrays)
  <2>1. SUFFICES ASSUME job.tool = "position", result'[1].kind = "items"
                 PROVE  /\ EveryAttackOnce(result'[1].row.board, result'[1].item.threats)
                        /\ OneToOne(result'[1].item.xrays)
    BY <1>1 DEF Done
  <2> QED
    BY <1>1, <2>1, PositionThreats
<1> QED
  BY <1>2, <1>3 DEF ThreatRowsAreApart

LEMMA ToolsInvariant == Spec => []ToolsHold
<1>1. Init => ToolsHold
  BY DEF Init, ToolsHold, ExportsLoad, RewritesKeepTheNet, WarmStartsFit, SidesAgree,
         RegionsKept, ThreatRowsAreApart, Done
<1>2. ToolsHold /\ [Next]_vars => ToolsHold'
  <2> SUFFICES ASSUME ToolsHold, [Next]_vars PROVE ToolsHold'
    OBVIOUS
  <2>1. CASE Next
    <3>1. job' \in Jobs
      BY <2>1, OneTool DEF ToolsHold
    <3> QED
      BY <2>1, <3>1, ExportStep, RewriteStep, WarmStartStep, PositionStep, KingsStep,
         ThreatRowsStep DEF ToolsHold
  <2>2. CASE UNCHANGED vars
    <3>1. job' = job /\ result' = result
      BY <2>2 DEF vars
    <3>2. RegionIsApart' = RegionIsApart
      BY <3>1 DEF RegionIsApart
    <3>3. ThreatRowsAreApart'
      BY <3>1, <3>2 DEF ThreatRowsAreApart, ToolsHold, Done
    <3>4. ExportsLoad' /\ RewritesKeepTheNet'
      BY <3>1 DEF ToolsHold, ExportsLoad, RewritesKeepTheNet, Done
    <3>5. WarmStartsFit' /\ SidesAgree'
      BY <3>1 DEF ToolsHold, WarmStartsFit, SidesAgree, Done
    <3>6. RegionsKept'
      BY <3>1 DEF ToolsHold, RegionsKept, Done
    <3> QED
      BY <3>1, <3>3, <3>4, <3>5, <3>6 DEF ToolsHold
  <2> QED
    BY <2>1, <2>2
<1> QED
  BY <1>1, <1>2, PTL DEF Spec

\* Of every configuration validate_layout accepts, load_net reads the net of write_model as
\* what it was, with the two exceptions the property names; of every choice of bullet.py it
\* reads the net without a header or refuses it, and the container is write_model's file.
THEOREM EveryExportLoads == Spec => []ExportsLoad
BY ToolsInvariant, PTL DEF ToolsHold

\* Whatever load_net accepts, write_net writes back, header and payload, and through the
\* numpy model of blend_weights.py the same file comes out or none, whatever was exported.
THEOREM RewritesAreFaithful == Spec => []RewritesKeepTheNet
BY ToolsInvariant, PTL DEF ToolsHold

\* For every parent and every child the trainer accepts, wherever the converter does not
\* refuse (enyo_nn_to_bullet_weights.py): the tensors have the child's shapes, unless the
\* input features behind the base rows change along.
THEOREM WarmStartsHaveTheShapes == Spec => []WarmStartsFit
BY ToolsInvariant, PTL DEF ToolsHold

\* For every LC0 record with one piece on a square at most, and every score
\* (lc0_to_jsonl.py, bullet.py, the two data sets): of either colour's point of view, and
\* through the Bullet record, the same item, one row for each piece, and mirrored castling
\* rights and moves; or both are refused alike.
THEOREM SidesAreAlike == Spec => []SidesAgree
BY ToolsInvariant, PTL DEF ToolsHold

\* Of every two numbers of buckets between which the export or the warm start maps: a
\* bucket is a copy of the trained one that holds its squares, or the mean of exactly
\* those that do, and the king's own rows come from the parent's own king, with the
\* exceptions the property names.
THEOREM KingsKeepTheirRows == Spec => []RegionsKept
BY ToolsInvariant, PTL DEF ToolsHold

\* Every attacker and attacked piece the table has a region for have one that no other
\* two share, inside the table, with a row for every attack between squares; and of every
\* board the converter lets pass each attack of a kind with rows gets one row, one of a
\* mutual pair, which no other gets, and no two attacks through a piece share one.
THEOREM ThreatRowsAreTheirOwn == Spec => []ThreatRowsAreApart
BY ToolsInvariant, PTL DEF ToolsHold

=============================================================================
