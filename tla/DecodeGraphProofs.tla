------------------------- MODULE DecodeGraphProofs --------------------------
(***************************************************************************)
(* A replay of a captured graph reads the inputs of the pass that launched *)
(* it, for any batches, buckets and block tables, however far the device   *)
(* lags behind the host (model_runner.py).                                 *)
(***************************************************************************)
EXTENDS DecodeGraph, WellFoundedInduction, FiniteSetTheorems, TLAPS

Fields == {"input", "slot_mapping", "context_lens", "deltanet_slots", "block_tables"}

(* A row is a record of the five fields.                                   *)
IsRow(r) == DOMAIN r = Fields /\ r = [f \in Fields |-> r[f]]

Ops == [op : {"copy"}, field : Fields, bucket : GraphBuckets, rows : Nat]
         \cup [op : {"pad", "replay"}, bucket : GraphBuckets, rows : Nat]

GraphTypeOK ==
    /\ max_batch \in GraphMax
    /\ host \in {"idle", "fill", "sample"}
    /\ batch \in Seq(DecodeSeqs) /\ filled \in Nat
    /\ host # "idle" => Len(batch) >= 1 /\ HasBucket(Len(batch)) /\ filled <= Len(batch)
    /\ DOMAIN pinned = 1 .. Max(GraphBuckets)
    /\ \A i \in DOMAIN pinned : IsRow(pinned[i])
    /\ DOMAIN static = GraphBuckets
    /\ \A b \in GraphBuckets : /\ DOMAIN static[b] = 1 .. b
                               /\ \A i \in 1 .. b : IsRow(static[b][i])
    /\ stream \in Seq(Ops)

(* What the host has written of the pass.                                  *)
RowsFilled ==
    host = "fill" => \A i \in 1 .. filled : pinned[i] = DecodeRow(batch[i])

RowsPrepared ==
    host = "sample" =>
        /\ \A i \in 1 .. Len(batch) : pinned[i] = DecodeRow(batch[i])
        /\ \A i \in Len(batch) + 1 .. Bucket : pinned[i].block_tables = NoBlocks

(* The effect of an operation of this pass, once the device has run it.    *)
Applied(o) ==
    /\ o.op = "copy" => \A i \in 1 .. o.rows : static[Bucket][i][o.field] = pinned[i][o.field]
    /\ o.op = "pad" => \A i \in o.rows + 1 .. Bucket :
                           /\ static[Bucket][i].slot_mapping = -1
                           /\ static[Bucket][i].deltanet_slots = padding_deltanet_slot
    /\ o.op = "replay" => replay = static[Bucket]

(* The stream ends with the operations of this pass that are still to run; *)
(* the others have been applied, and nothing has undone them.              *)
QueueEnds ==
    host = "sample" =>
        LET L == Operations(Len(batch))
            d == Len(stream) - Len(L)
        IN  \A j \in 1 .. Len(L) : IF j + d >= 1 THEN stream[j + d] = L[j] ELSE Applied(L[j])

GraphInv == GraphTypeOK /\ RowsFilled /\ RowsPrepared /\ QueueEnds

-----------------------------------------------------------------------------
(* The smallest and the largest element of a set of graph sizes.           *)
LEMMA LeastNatural ==
    ASSUME NEW T, T \subseteq Nat, T # {}
    PROVE  \E x \in T : \A y \in T : x <= y
<1> DEFINE R == OpToRel(<, Nat)
<1>1. IsWellFoundedOn(R, Nat)
  BY NatLessThanWellFounded
<1> HIDE DEF R
<1>2. PICK x \in T : \A y \in T : ~ (<<y, x>> \in R)
  BY <1>1, WFMin, Zenon
<1>3. \A y \in T : y < x => <<y, x>> \in R
  BY DEF OpToRel, R
<1> SUFFICES ASSUME NEW y \in T
             PROVE  x <= y
  OBVIOUS
<1>4. ~ (y < x)
  BY <1>2, <1>3, Zenon
<1> QED
  BY <1>4

(* The buckets are numbers up to a bound, and the largest bounds them.     *)
LEMMA BucketsBounded ==
    ASSUME max_batch \in GraphMax
    PROVE  \E k \in Nat : GraphBuckets \subseteq 1 .. k
<1>1. GraphSeqs \in Nat /\ max_batch \in Nat
  BY GraphAssumption
<1>2. Min({GraphSeqs, max_batch}) \in Nat
  <2>1. \E x \in {GraphSeqs, max_batch} : \A y \in {GraphSeqs, max_batch} : x <= y
    BY <1>1
  <2> QED
    BY <1>1, <2>1 DEF Min
<1> QED
  BY <1>2 DEF GraphBuckets

LEMMA LargestBucket ==
    ASSUME max_batch \in GraphMax, NEW b \in GraphBuckets
    PROVE  Max(GraphBuckets) \in Nat /\ b <= Max(GraphBuckets)
<1>1. PICK k \in Nat : GraphBuckets \subseteq 1 .. k
  BY BucketsBounded
<1> DEFINE Gaps == {k - c : c \in GraphBuckets}
<1>2. Gaps \subseteq Nat /\ Gaps # {}
  BY <1>1
<1>3. PICK g \in Gaps : \A h \in Gaps : g <= h
  BY <1>2, LeastNatural
<1>4. PICK m \in GraphBuckets : g = k - m
  BY <1>3
<1>5. \A c \in GraphBuckets : m >= c
  <2> SUFFICES ASSUME NEW c \in GraphBuckets PROVE m >= c
    OBVIOUS
  <2>1. k - m <= k - c
    BY <1>3, <1>4
  <2> QED
    BY <1>1, <1>4, <2>1
<1>6. /\ Max(GraphBuckets) \in GraphBuckets
      /\ \A c \in GraphBuckets : Max(GraphBuckets) >= c
  BY <1>4, <1>5 DEF Max
<1>7. \A c \in GraphBuckets : c \in Nat
  BY <1>1
<1> DEFINE top == Max(GraphBuckets)
<1>8. top \in Nat /\ top >= b
  BY <1>6, <1>7
<1> HIDE DEF top
<1>9. b <= top
  BY <1>7, <1>8
<1> QED
  BY <1>8, <1>9 DEF top

(* _select_bucket finds the smallest size that the batch fits in.          *)
LEMMA BucketFits ==
    ASSUME max_batch \in GraphMax, NEW n \in Nat, HasBucket(n)
    PROVE  /\ SelectBucket(n) \in GraphBuckets
           /\ SelectBucket(n) \in Nat
           /\ n <= SelectBucket(n)
<1> DEFINE Fits == {b \in GraphBuckets : b >= n}
<1>1. \A b \in GraphBuckets : b \in Nat
  BY BucketsBounded
<1>2. PICK c \in GraphBuckets : c >= n
  BY DEF HasBucket
<1>3. Fits \subseteq Nat /\ Fits # {}
  BY <1>1, <1>2
<1>4. PICK x \in Fits : \A y \in Fits : x <= y
  BY <1>3, LeastNatural
<1>5. Min(Fits) \in Fits
  BY <1>4 DEF Min
<1>6. SelectBucket(n) = Min(Fits)
  BY DEF SelectBucket
<1> HIDE DEF Fits
<1>7. SelectBucket(n) \in Fits
  BY <1>5, <1>6
<1>8. SelectBucket(n) \in GraphBuckets /\ SelectBucket(n) >= n
  BY <1>7 DEF Fits
<1>9. SelectBucket(n) \in Nat
  BY <1>1, <1>8
<1> QED
  BY <1>8, <1>9

-----------------------------------------------------------------------------
(* What a pass queues: a copy of each field, the padding when there are    *)
(* rows left over, and last the replay, all of one bucket.                 *)
IsCopy(o, n) ==
    /\ o.op = "copy" /\ o.field \in Fields
    /\ o.rows = IF o.field = "block_tables" THEN Bucket ELSE n

LEMMA OperationsShape ==
    ASSUME NEW n \in Nat, Bucket \in GraphBuckets, Bucket \in Nat, n <= Bucket,
           NEW L, L = Operations(n)
    PROVE  /\ L \in Seq(Ops)
           /\ Len(L) = IF n < Bucket THEN 7 ELSE 6
           /\ \A j \in 1 .. Len(L) : L[j].bucket = Bucket
           /\ \A j \in 1 .. 5 : IsCopy(L[j], n)
           /\ \A i \in 1 .. 5 : \A j \in 1 .. 5 : i # j => L[i].field # L[j].field
           /\ \A f \in Fields : \E j \in 1 .. 5 : L[j].field = f
           /\ n < Bucket => L[6].op = "pad" /\ L[6].rows = n
           /\ L[Len(L)].op = "replay"
<1> DEFINE Copy(f) == [op |-> "copy", field |-> f, bucket |-> Bucket,
                       rows |-> IF f = "block_tables" THEN Bucket ELSE n]
           pad == [op |-> "pad", bucket |-> Bucket, rows |-> n]
           run == [op |-> "replay", bucket |-> Bucket, rows |-> n]
<1>1. \A f \in Fields : Copy(f) \in Ops /\ IsCopy(Copy(f), n) /\ Copy(f).bucket = Bucket
                        /\ Copy(f).field = f
  BY DEF Ops, IsCopy
<1>2. pad \in Ops /\ run \in Ops
  BY DEF Ops
<1>3. CASE n < Bucket
  <2>1. L = <<Copy("input"), Copy("slot_mapping"), Copy("context_lens"),
              Copy("deltanet_slots"), Copy("block_tables"), pad, run>>
    BY <1>3 DEF Operations
  <2> QED
    BY <1>1, <1>2, <1>3, <2>1 DEF Fields
<1>4. CASE ~ (n < Bucket)
  <2>1. L = <<Copy("input"), Copy("slot_mapping"), Copy("context_lens"),
              Copy("deltanet_slots"), Copy("block_tables"), run>>
    BY <1>4 DEF Operations
  <2> QED
    BY <1>1, <1>2, <1>4, <2>1 DEF Fields
<1> QED
  BY <1>3, <1>4

-----------------------------------------------------------------------------
LEMMA GraphInitInv ==
    ASSUME GraphInit
    PROVE  GraphInv
<1>1. GraphTypeOK
  <2>1. IsRow(EmptyRow)
    BY DEF IsRow, Fields, EmptyRow
  <2> QED
    BY <2>1 DEF GraphInit, GraphTypeOK
<1> QED
  BY <1>1 DEF GraphInit, GraphInv, RowsFilled, RowsPrepared, QueueEnds

(* While the limit on the graph sizes stays, so do the sizes.              *)
LEMMA BucketsStay ==
    ASSUME max_batch' = max_batch
    PROVE  /\ GraphBuckets' = GraphBuckets
           /\ \A n : HasBucket(n)' = HasBucket(n)
           /\ batch' = batch => Bucket' = Bucket
BY DEF GraphBuckets, HasBucket, Bucket, SelectBucket

LEMMA BeginPassInv ==
    ASSUME GraphInv, BeginPass
    PROVE  GraphInv'
<1>1. GraphBuckets' = GraphBuckets /\ \A n : HasBucket(n)' = HasBucket(n)
  BY BucketsStay DEF BeginPass
<1>2. PICK S \in SUBSET {s \in DecodeSeqs : num_tokens[s] < TokenBound} :
          /\ S # {}
          /\ \E q \in SetToSeqs(S) :
                IF HasBucket(Len(q))
                THEN /\ batch' = q /\ host' = "fill"
                     /\ UNCHANGED num_tokens
                ELSE /\ num_tokens' = [s \in DecodeSeqs |->
                                          num_tokens[s] + IF s \in S THEN 1 ELSE 0]
                     /\ UNCHANGED <<batch, host>>
  BY DEF BeginPass
<1>3. PICK q \in SetToSeqs(S) :
          IF HasBucket(Len(q)) THEN batch' = q /\ host' = "fill"
                               ELSE batch' = batch /\ host' = host
  BY <1>2
<1>4. q \in Seq(DecodeSeqs) /\ Len(q) >= 1
  <2>1. S \in SUBSET DecodeSeqs /\ IsFiniteSet(DecodeSeqs)
    BY GraphAssumption
  <2>2. IsFiniteSet(S) /\ Cardinality(S) \in Nat /\ Cardinality(S) # 0
    BY <1>2, <2>1, FS_Subset, FS_CardinalityType, FS_EmptySet
  <2>3. q \in [1 .. Cardinality(S) -> S]
    BY <1>3 DEF SetToSeqs
  <2> QED
    BY <2>1, <2>2, <2>3
<1>5. host = "idle" /\ filled' = 0 /\ UNCHANGED <<max_batch, pinned, static, stream>>
  BY DEF BeginPass
<1>6. GraphTypeOK'
  <2>1. Ops' = Ops
    BY <1>1 DEF Ops
  <2> QED
    BY <1>1, <1>3, <1>4, <1>5, <2>1 DEF GraphInv, GraphTypeOK
<1>7. RowsFilled' /\ RowsPrepared' /\ QueueEnds'
  BY <1>3, <1>5 DEF RowsFilled, RowsPrepared, QueueEnds
<1> QED
  BY <1>6, <1>7 DEF GraphInv

(* The bucket of a pass that runs in a graph holds its batch.              *)
LEMMA PassFits ==
    ASSUME GraphTypeOK, host # "idle"
    PROVE  /\ Len(batch) \in Nat /\ Len(batch) >= 1
           /\ Bucket \in GraphBuckets /\ Bucket \in Nat /\ Len(batch) <= Bucket
           /\ Max(GraphBuckets) \in Nat /\ Bucket <= Max(GraphBuckets)
<1>1. Len(batch) \in Nat /\ Len(batch) >= 1 /\ HasBucket(Len(batch)) /\ max_batch \in GraphMax
  BY DEF GraphTypeOK
<1>2. Bucket \in GraphBuckets /\ Bucket \in Nat /\ Len(batch) <= Bucket
  BY <1>1, BucketFits DEF Bucket
<1> QED
  BY <1>1, <1>2, LargestBucket

LEMMA FillRowInv ==
    ASSUME GraphInv, FillRow
    PROVE  GraphInv'
<1>1. GraphBuckets' = GraphBuckets /\ \A n : HasBucket(n)' = HasBucket(n)
  BY BucketsStay DEF FillRow
<1> DEFINE i == filled + 1
<1>2. /\ host = "fill" /\ host' = "fill" /\ filled' = i
      /\ pinned' = [pinned EXCEPT ![i] = DecodeRow(batch[i])]
      /\ UNCHANGED <<max_batch, num_tokens, batch, static, stream>>
  BY DEF FillRow
<1>3. filled \in Nat /\ i <= Len(batch)
  BY PassFits DEF FillRow, GraphInv, GraphTypeOK
<1>4. IsRow(DecodeRow(batch[i]))
  BY DEF IsRow, Fields, DecodeRow
<1>5. DOMAIN pinned = 1 .. Max(GraphBuckets) /\ i \in DOMAIN pinned
  BY <1>2, <1>3, PassFits DEF GraphInv, GraphTypeOK
<1>6. \A j \in DOMAIN pinned' : IsRow(pinned'[j])
  BY <1>2, <1>4, <1>5 DEF GraphInv, GraphTypeOK
<1>7. \A s : DecodeRow(s)' = DecodeRow(s)
  BY <1>2 DEF DecodeRow, Position
<1>8. GraphTypeOK'
  <2>1. DOMAIN pinned' = 1 .. Max(GraphBuckets)
    BY <1>2, <1>5
  <2>2. Ops' = Ops
    BY <1>1 DEF Ops
  <2> QED
    BY <1>1, <1>2, <1>3, <1>6, <2>1, <2>2 DEF GraphInv, GraphTypeOK
<1>9. RowsFilled'
  <2> SUFFICES ASSUME NEW j \in 1 .. i
               PROVE  pinned'[j] = DecodeRow(batch[j])
    BY <1>2, <1>7 DEF RowsFilled
  <2>1. CASE j = i
    BY <1>2, <1>5, <2>1
  <2>2. CASE j # i
    BY <1>2, <1>3, <1>5, <2>2 DEF GraphInv, RowsFilled
  <2> QED
    BY <2>1, <2>2
<1> QED
  BY <1>2, <1>8, <1>9 DEF GraphInv, RowsPrepared, QueueEnds

LEMMA LaunchInv ==
    ASSUME GraphInv, Launch
    PROVE  GraphInv'
<1> DEFINE n == Len(batch)
           L == Operations(n)
<1>1. /\ GraphBuckets' = GraphBuckets /\ Bucket' = Bucket
      /\ \A m : HasBucket(m)' = HasBucket(m)
  BY BucketsStay DEF Launch
<1>2. /\ host = "fill" /\ host' = "sample" /\ filled = n
      /\ pinned' = [i \in DOMAIN pinned |->
                       IF n < i /\ i <= Bucket THEN [pinned[i] EXCEPT !.block_tables = NoBlocks]
                       ELSE pinned[i]]
      /\ stream' = stream \o L
      /\ UNCHANGED <<max_batch, num_tokens, batch, filled, static, replay>>
  BY DEF Launch
<1>3. /\ n \in Nat /\ n >= 1 /\ n <= Bucket
      /\ Bucket \in Nat /\ Bucket \in GraphBuckets
      /\ Max(GraphBuckets) \in Nat /\ Bucket <= Max(GraphBuckets)
  BY <1>2, PassFits DEF GraphInv
<1>4. L \in Seq(Ops) /\ Len(L) \in Nat
  BY <1>3, OperationsShape
<1>5. L' = L /\ Ops' = Ops
  BY <1>1, <1>2 DEF Operations, Ops
<1>6. DOMAIN pinned = 1 .. Max(GraphBuckets) /\ stream \in Seq(Ops)
  BY DEF GraphInv, GraphTypeOK
<1> HIDE DEF L
<1>7. GraphTypeOK'
  <2>1. \A i \in DOMAIN pinned : IsRow(pinned'[i])
    BY <1>2 DEF GraphInv, GraphTypeOK, IsRow
  <2>2. stream' \in Seq(Ops)
    BY <1>2, <1>4, <1>6
  <2> QED
    BY <1>1, <1>2, <1>3, <1>5, <2>1, <2>2 DEF GraphInv, GraphTypeOK
<1>8. RowsPrepared'
  <2>1. \A s : DecodeRow(s)' = DecodeRow(s)
    BY <1>2 DEF DecodeRow, Position
  <2>2. NoBlocks' = NoBlocks
    BY DEF NoBlocks
  <2>3. \A i \in 1 .. n : pinned'[i] = DecodeRow(batch[i])
    BY <1>2, <1>3, <1>6 DEF GraphInv, RowsFilled
  <2>4. \A i \in n + 1 .. Bucket : pinned'[i].block_tables = NoBlocks
    BY <1>2, <1>3, <1>6 DEF GraphInv, GraphTypeOK, IsRow, Fields
  <2> QED
    BY <1>1, <1>2, <2>1, <2>2, <2>3, <2>4 DEF RowsPrepared
<1>9. QueueEnds'
  <2>1. Len(stream') = Len(stream) + Len(L) /\ Len(stream) \in Nat
    BY <1>2, <1>4, <1>6
  <2>2. \A j \in 1 .. Len(L) : stream'[j + Len(stream)] = L[j]
    BY <1>2, <1>4, <1>6
  <2>3. Operations(Len(batch))' = L
    BY <1>5 DEF L
  <2>4. \A j \in 1 .. Len(L) :
            /\ j + (Len(stream') - Len(L)) >= 1
            /\ stream'[j + (Len(stream') - Len(L))] = L[j]
    BY <1>4, <2>1, <2>2
  <2> QED
    BY <2>3, <2>4 DEF QueueEnds
<1> QED
  BY <1>2, <1>7, <1>8, <1>9 DEF GraphInv, RowsFilled

LEMMA SampleOomInv ==
    ASSUME GraphInv, SampleOom
    PROVE  GraphInv'
<1>1. GraphBuckets' = GraphBuckets /\ \A m : HasBucket(m)' = HasBucket(m)
  BY BucketsStay DEF SampleOom
<1>2. /\ host = "sample" /\ host' = "fill" /\ Len(batch) > 1
      /\ batch' = SubSeq(batch, 1, Len(batch) - 1) /\ filled' = 0
      /\ UNCHANGED <<max_batch, num_tokens, pinned, static, stream, replay>>
  BY DEF SampleOom, Front
<1>3. batch' \in Seq(DecodeSeqs) /\ Len(batch') = Len(batch) - 1 /\ Len(batch) \in Nat
  BY <1>2 DEF GraphInv, GraphTypeOK
<1>4. HasBucket(Len(batch'))
  <2>1. PICK b \in GraphBuckets : b >= Len(batch)
    BY <1>2 DEF GraphInv, GraphTypeOK, HasBucket
  <2>2. b \in Nat
    BY <2>1, BucketsBounded DEF GraphInv, GraphTypeOK
  <2>3. b >= Len(batch')
    BY <1>3, <2>1, <2>2
  <2> QED
    BY <2>3 DEF HasBucket
<1>5. GraphTypeOK'
  <2>1. Ops' = Ops
    BY <1>1 DEF Ops
  <2>2. Len(batch') >= 1 /\ filled' <= Len(batch')
    BY <1>2, <1>3
  <2> QED
    BY <1>1, <1>2, <1>3, <1>4, <2>1, <2>2 DEF GraphInv, GraphTypeOK
<1> QED
  BY <1>2, <1>5 DEF GraphInv, RowsFilled, RowsPrepared, QueueEnds

LEMMA EndPassInv ==
    ASSUME GraphInv, EndPass
    PROVE  GraphInv'
<1>1. GraphBuckets' = GraphBuckets /\ \A m : HasBucket(m)' = HasBucket(m)
  BY BucketsStay DEF EndPass
<1>2. host' = "idle" /\ UNCHANGED <<max_batch, batch, filled, pinned, static, stream>>
  BY DEF EndPass
<1>3. GraphTypeOK'
  <2>1. Ops' = Ops
    BY <1>1 DEF Ops
  <2> QED
    BY <1>1, <1>2, <2>1 DEF GraphInv, GraphTypeOK
<1> QED
  BY <1>2, <1>3 DEF GraphInv, RowsFilled, RowsPrepared, QueueEnds

-----------------------------------------------------------------------------
(* A row left over is blank.                                               *)
LEMMA PadRowBlank ==
    ASSUME NEW r, IsRow(r)
    PROVE  /\ IsRow(PadRow(r))
           /\ PadRow(r).slot_mapping = -1
           /\ PadRow(r).deltanet_slots = padding_deltanet_slot
           /\ PadRow(r).block_tables = NoBlocks
BY DEF IsRow, Fields, PadRow

(* A step of the device keeps the shape of the buffers.                    *)
LEMMA DeviceTypes ==
    ASSUME GraphTypeOK, Device
    PROVE  /\ GraphTypeOK'
           /\ Head(stream) \in Ops /\ stream # <<>>
<1> DEFINE o == Head(stream)
           b == o.bucket
<1>1. /\ GraphBuckets' = GraphBuckets
      /\ \A m : HasBucket(m)' = HasBucket(m)
  BY BucketsStay DEF Device
<1>2. /\ stream # <<>> /\ stream' = Tail(stream)
      /\ UNCHANGED <<max_batch, host, batch, filled, pinned>>
  BY DEF Device
<1>3. o \in Ops /\ stream' \in Seq(Ops)
  BY <1>2 DEF GraphTypeOK
<1>4. b \in GraphBuckets /\ o.op \in {"copy", "pad", "replay"}
      /\ (o.op = "copy" => o.field \in Fields)
  BY <1>3 DEF Ops
<1>5. DOMAIN static = GraphBuckets /\ DOMAIN static[b] = 1 .. b
      /\ \A i \in 1 .. b : IsRow(static[b][i])
  BY <1>4 DEF GraphTypeOK
<1> HIDE DEF o
<1>6. /\ DOMAIN static' = GraphBuckets
      /\ \A c \in GraphBuckets : /\ DOMAIN static'[c] = 1 .. c
                                 /\ \A i \in 1 .. c : IsRow(static'[c][i])
  <2>1. CASE o.op = "copy"
    <3>1. static' = [static EXCEPT ![b] = [i \in 1 .. b |->
              IF i <= o.rows THEN [static[b][i] EXCEPT ![o.field] = pinned[i][o.field]]
                             ELSE static[b][i]]]
      BY <1>2, <1>5, <2>1 DEF Device, o
    <3>2. \A r, v : IsRow(r) => IsRow([r EXCEPT ![o.field] = v])
      BY <1>4, <2>1 DEF IsRow
    <3> QED
      BY <1>4, <1>5, <3>1, <3>2 DEF GraphTypeOK
  <2>2. CASE o.op = "pad"
    <3>1. static' = [static EXCEPT ![b] = [i \in 1 .. b |->
              IF i > o.rows THEN PadRow(static[b][i]) ELSE static[b][i]]]
      BY <1>2, <1>5, <2>2 DEF Device, o
    <3>2. \A r : IsRow(r) => IsRow(PadRow(r))
      BY PadRowBlank
    <3> QED
      BY <1>4, <1>5, <3>1, <3>2 DEF GraphTypeOK
  <2>3. CASE o.op = "replay"
    <3>1. static' = static
      BY <2>3 DEF Device, o
    <3> QED
      BY <3>1 DEF GraphTypeOK
  <2> QED
    BY <1>4, <2>1, <2>2, <2>3
<1>7. Ops' = Ops
  BY <1>1 DEF Ops
<1> QED
  BY <1>1, <1>2, <1>3, <1>6, <1>7 DEF GraphTypeOK, IsRow, o

(* An operation of this pass takes effect and undoes none before it: two   *)
(* copies write different fields, and the padding writes only the rows     *)
(* left over, whose block table is already blank.                          *)
LEMMA DeviceApplies ==
    ASSUME GraphInv, Device, host = "sample",
           NEW L, L = Operations(Len(batch)),
           NEW k \in 1 .. Len(L), Head(stream) = L[k],
           \A j \in 1 .. k - 1 : Applied(L[j])
    PROVE  \A j \in 1 .. k : Applied(L[j])'
<1> DEFINE n == Len(batch)
           b == Bucket
           o == L[k]
<1>1. /\ n \in Nat /\ b \in GraphBuckets /\ b \in Nat /\ n <= b
      /\ Max(GraphBuckets) \in Nat /\ b <= Max(GraphBuckets)
  BY PassFits DEF GraphInv
<1>2. /\ Len(L) = IF n < b THEN 7 ELSE 6
      /\ \A j \in 1 .. Len(L) : L[j].bucket = b
      /\ \A j \in 1 .. 5 : IsCopy(L[j], n)
      /\ \A i \in 1 .. 5 : \A j \in 1 .. 5 : i # j => L[i].field # L[j].field
      /\ n < b => L[6].op = "pad" /\ L[6].rows = n
      /\ L[Len(L)].op = "replay"
  <2> HIDE DEF n, b
  <2>1. /\ n \in Nat /\ Bucket \in GraphBuckets /\ Bucket \in Nat /\ n <= Bucket
        /\ L = Operations(n) /\ b = Bucket
    BY <1>1 DEF n, b
  <2> QED
    BY <2>1, OperationsShape
<1>3. /\ Bucket' = b /\ UNCHANGED <<pinned, batch>>
      /\ padding_deltanet_slot' = padding_deltanet_slot
  BY BucketsStay DEF Device, padding_deltanet_slot
<1>4. /\ DOMAIN static = GraphBuckets /\ DOMAIN static[b] = 1 .. b
      /\ \A i \in 1 .. b : IsRow(static[b][i])
  BY <1>1 DEF GraphInv, GraphTypeOK
<1>5. o.bucket = b
  BY <1>2
<1>6. CASE k \in 1 .. 5
  <2>1. o.op = "copy" /\ o.field \in Fields /\ o.rows \in 0 .. b
    BY <1>1, <1>2, <1>6 DEF IsCopy
  <2>2. static'[b] = [i \in 1 .. b |->
            IF i <= o.rows THEN [static[b][i] EXCEPT ![o.field] = pinned[i][o.field]]
                           ELSE static[b][i]]
    BY <1>1, <1>4, <1>5, <2>1 DEF Device
  <2>3. ASSUME NEW j \in 1 .. k
        PROVE  Applied(L[j])'
    <3>1. L[j].op = "copy" /\ L[j].field \in Fields /\ L[j].rows \in 0 .. b
      BY <1>1, <1>2, <1>6 DEF IsCopy
    <3>2. ASSUME NEW i \in 1 .. L[j].rows
          PROVE  static'[b][i][L[j].field] = pinned[i][L[j].field]
      <4>1. i \in 1 .. b
        BY <1>1, <3>1
      <4>2. DOMAIN static[b][i] = Fields
        BY <1>4, <4>1 DEF IsRow
      <4>3. CASE j = k
        BY <2>1, <2>2, <4>1, <4>2, <4>3
      <4>4. CASE j # k
        <5>1. j \in 1 .. k - 1 /\ j \in 1 .. 5
          BY <1>6, <4>4
        <5>2. L[j].field # o.field
          BY <1>2, <1>6, <4>4, <5>1
        <5>3. static[b][i][L[j].field] = pinned[i][L[j].field]
          BY <3>1, <5>1 DEF Applied
        <5> QED
          BY <2>2, <3>1, <4>1, <4>2, <5>2, <5>3
      <4> QED
        BY <4>3, <4>4
    <3> QED
      BY <1>3, <3>1, <3>2 DEF Applied
  <2> QED
    BY <2>3
<1>7. CASE n < b /\ k = 6
  <2>1. o.op = "pad" /\ o.rows = n
    BY <1>2, <1>7
  <2>2. static'[b] = [i \in 1 .. b |->
            IF i > o.rows THEN PadRow(static[b][i]) ELSE static[b][i]]
    <3> DEFINE h == Head(stream)
    <3>1. h.op = "pad" /\ h.bucket = b /\ h = o
      BY <1>5, <2>1
    <3> HIDE DEF h, b, o
    <3>2. static' = [static EXCEPT ![h.bucket] = [i \in 1 .. h.bucket |->
              IF i > h.rows THEN PadRow(@[i]) ELSE @[i]]]
      BY <3>1 DEF Device, h
    <3> QED
      BY <1>1, <1>4, <3>1, <3>2 DEF b, o
  <2>3. ASSUME NEW j \in 1 .. 5
        PROVE  Applied(L[j])'
    <3>1. L[j].op = "copy" /\ L[j].field \in Fields /\ L[j].rows \in 0 .. b
      BY <1>1, <1>2 DEF IsCopy
    <3>2. ASSUME NEW i \in 1 .. L[j].rows
          PROVE  static'[b][i][L[j].field] = pinned[i][L[j].field]
      <4>1. i \in 1 .. b
        BY <1>1, <3>1
      <4>2. static[b][i][L[j].field] = pinned[i][L[j].field]
        <5>1. j \in 1 .. k - 1
          BY <1>7
        <5> QED
          BY <3>1, <5>1 DEF Applied
      <4>3. CASE i > n
        <5>1. L[j].field = "block_tables"
          BY <1>1, <1>2, <4>3 DEF IsCopy
        <5>2. pinned[i].block_tables = NoBlocks
          BY <1>1, <4>1, <4>3 DEF GraphInv, RowsPrepared
        <5>3. static'[b][i].block_tables = NoBlocks
          <6>1. static'[b][i] = PadRow(static[b][i]) /\ IsRow(static[b][i])
            BY <1>4, <2>1, <2>2, <4>1, <4>3
          <6> QED
            BY <6>1, PadRowBlank
        <5> QED
          BY <5>1, <5>2, <5>3
      <4>4. CASE ~ (i > n)
        BY <2>1, <2>2, <4>1, <4>2, <4>4
      <4> QED
        BY <4>3, <4>4
    <3> QED
      BY <1>3, <3>1, <3>2 DEF Applied
  <2>4. Applied(o)'
    <3>1. ASSUME NEW i \in n + 1 .. b
          PROVE  /\ static'[b][i].slot_mapping = -1
                 /\ static'[b][i].deltanet_slots = padding_deltanet_slot
      <4>1. i \in 1 .. b /\ i > n
        BY <1>1
      <4> QED
        <5>1. static'[b][i] = PadRow(static[b][i]) /\ IsRow(static[b][i])
          BY <1>4, <2>1, <2>2, <4>1
        <5> QED
          BY <5>1, PadRowBlank
    <3> QED
      BY <1>3, <2>1, <3>1 DEF Applied
  <2> QED
    BY <1>7, <2>3, <2>4
<1>8. CASE k = Len(L)
  <2>1. o.op = "replay"
    BY <1>2, <1>8
  <2>2. static' = static /\ replay' = static[b]
    BY <1>5, <2>1 DEF Device
  <2>3. \A j \in 1 .. k - 1 : L[j].op # "replay"
    BY <1>1, <1>2, <1>8 DEF IsCopy
  <2>4. \A j \in 1 .. k - 1 : Applied(L[j])'
    BY <1>3, <2>2, <2>3 DEF Applied
  <2>5. Applied(o)'
    BY <1>3, <2>1, <2>2 DEF Applied
  <2> QED
    BY <2>4, <2>5
<1> QED
  BY <1>1, <1>2, <1>6, <1>7, <1>8

LEMMA DeviceInv ==
    ASSUME GraphInv, Device
    PROVE  GraphInv'
<1>1. GraphTypeOK' /\ stream # <<>>
  BY DeviceTypes DEF GraphInv
<1>2. /\ stream' = Tail(stream) /\ stream \in Seq(Ops)
      /\ UNCHANGED <<max_batch, num_tokens, host, batch, filled, pinned>>
      /\ Bucket' = Bucket
  BY BucketsStay DEF Device, GraphInv, GraphTypeOK
<1>3. RowsFilled' /\ RowsPrepared'
  <2>1. \A s : DecodeRow(s)' = DecodeRow(s)
    BY <1>2 DEF DecodeRow, Position
  <2> QED
    BY <1>2, <2>1 DEF GraphInv, RowsFilled, RowsPrepared, NoBlocks
<1>4. QueueEnds'
  <2> SUFFICES ASSUME host = "sample"
               PROVE  QueueEnds'
    BY <1>2 DEF QueueEnds
  <2>1. PICK L : L = Operations(Len(batch))
    OBVIOUS
  <2>2. Operations(Len(batch))' = L
    BY <1>2, <2>1 DEF Operations
  <2>3. Len(L) \in Nat
    BY <2>1, PassFits, OperationsShape DEF GraphInv
  <2>4. /\ Len(stream) \in Nat /\ Len(stream) >= 1 /\ Len(stream') = Len(stream) - 1
        /\ Head(stream) = stream[1]
        /\ \A i \in 1 .. Len(stream) - 1 : stream'[i] = stream[i + 1]
    BY <1>1, <1>2
  <2> DEFINE d == Len(stream) - Len(L)
  <2>5. \A j \in 1 .. Len(L) : IF j + d >= 1 THEN stream[j + d] = L[j] ELSE Applied(L[j])
    BY <2>1 DEF GraphInv, QueueEnds
  <2>6. \A j \in 1 .. Len(L) : j + d >= 2 => stream'[j + d - 1] = L[j]
    <3> SUFFICES ASSUME NEW j \in 1 .. Len(L), j + d >= 2
                 PROVE  stream'[j + d - 1] = L[j]
      OBVIOUS
    <3>1. stream[j + d] = L[j]
      BY <2>3, <2>4, <2>5
    <3> DEFINE i == j + d - 1
    <3>2. i \in 1 .. Len(stream) - 1 /\ i + 1 = j + d
      BY <2>3, <2>4
    <3>3. stream'[i] = stream[i + 1]
      BY <2>4, <3>2
    <3> QED
      BY <3>1, <3>2, <3>3
  <2>7. \A j \in 1 .. Len(L) : j + d < 2 => Applied(L[j])'
    <3>1. CASE d >= 1
      BY <2>3, <2>4, <3>1
    <3>2. CASE d < 1
      <4> DEFINE k == 1 - d
      <4>1. k \in 1 .. Len(L) /\ k + d = 1
        BY <2>3, <2>4, <3>2
      <4>2. Head(stream) = L[k]
        BY <2>4, <2>5, <4>1
      <4>3. \A j \in 1 .. k - 1 : Applied(L[j])
        BY <2>3, <2>4, <2>5, <4>1
      <4>4. \A j \in 1 .. k : Applied(L[j])'
        BY <2>1, <4>1, <4>2, <4>3, DeviceApplies
      <4> QED
        BY <2>3, <2>4, <4>4
    <3> QED
      BY <2>3, <2>4, <3>1, <3>2
  <2>8. \A j \in 1 .. Len(L) :
            IF j + (Len(stream') - Len(L)) >= 1
            THEN stream'[j + (Len(stream') - Len(L))] = L[j]
            ELSE Applied(L[j])'
    <3> SUFFICES ASSUME NEW j \in 1 .. Len(L)
                 PROVE  IF j + (Len(stream') - Len(L)) >= 1
                        THEN stream'[j + (Len(stream') - Len(L))] = L[j]
                        ELSE Applied(L[j])'
      OBVIOUS
    <3>1. j + (Len(stream') - Len(L)) = j + d - 1
      BY <2>3, <2>4
    <3>2. CASE j + d >= 2
      BY <2>3, <2>4, <2>6, <3>1, <3>2
    <3>3. CASE j + d < 2
      BY <2>3, <2>4, <2>7, <3>1, <3>3
    <3> QED
      BY <2>3, <2>4, <3>2, <3>3
  <2> QED
    BY <2>2, <2>8 DEF QueueEnds
<1> QED
  BY <1>1, <1>3, <1>4 DEF GraphInv

-----------------------------------------------------------------------------
(* When the tokens are taken the device has run all that the pass queued:  *)
(* the replay has read the rows of the batch, and padding after them.      *)
LEMMA EndPassReads ==
    ASSUME GraphInv, EndPass
    PROVE  OfThisPass
<1> DEFINE n == Len(batch)
           b == Bucket
<1>1. host = "sample" /\ stream = <<>>
  BY DEF EndPass, Synchronised
<1>2. n \in Nat /\ b \in GraphBuckets /\ b \in Nat /\ n <= b
  BY <1>1, PassFits DEF GraphInv
<1>3. PICK L : L = Operations(n)
  OBVIOUS
<1>4. /\ Len(L) = IF n < b THEN 7 ELSE 6
      /\ \A j \in 1 .. 5 : IsCopy(L[j], n)
      /\ \A f \in Fields : \E j \in 1 .. 5 : L[j].field = f
      /\ n < b => L[6].op = "pad" /\ L[6].rows = n
      /\ L[Len(L)].op = "replay"
  <2> HIDE DEF n, b
  <2>1. n \in Nat /\ Bucket \in GraphBuckets /\ Bucket \in Nat /\ n <= Bucket
        /\ L = Operations(n) /\ b = Bucket
    BY <1>2, <1>3 DEF n, b
  <2>2. \A f \in Fields : \E j \in 1 .. 5 : L[j].field = f
    BY <2>1, OperationsShape
  <2>3. /\ Len(L) = IF n < Bucket THEN 7 ELSE 6
        /\ \A j \in 1 .. 5 : IsCopy(L[j], n)
        /\ n < Bucket => L[6].op = "pad" /\ L[6].rows = n
        /\ L[Len(L)].op = "replay"
    BY <2>1, OperationsShape
  <2> QED
    BY <2>1, <2>2, <2>3
<1>5. \A j \in 1 .. Len(L) : Applied(L[j])
  <2>1. Len(stream) = 0
    BY <1>1
  <2> QED
    BY <1>1, <1>3, <1>4, <2>1 DEF GraphInv, QueueEnds
<1>6. replay = static[b]
  BY <1>4, <1>5 DEF Applied
<1>7. DOMAIN replay = 1 .. b /\ \A i \in 1 .. b : IsRow(replay[i])
  BY <1>2, <1>6 DEF GraphInv, GraphTypeOK
<1>8. ASSUME NEW f \in Fields, NEW i \in 1 .. IF f = "block_tables" THEN b ELSE n
      PROVE  replay[i][f] = pinned[i][f]
  <2>1. PICK j \in 1 .. 5 : L[j].field = f
    BY <1>4
  <2>2. L[j].op = "copy" /\ i \in 1 .. L[j].rows
    BY <1>2, <1>4, <1>8, <2>1 DEF IsCopy
  <2> QED
    BY <1>4, <1>5, <1>6, <2>1, <2>2 DEF Applied
<1>9. ASSUME NEW i \in 1 .. n
      PROVE  replay[i] = DecodeRow(batch[i])
  <2>1. IsRow(replay[i]) /\ IsRow(DecodeRow(batch[i]))
    <3>1. i \in 1 .. b
      BY <1>2
    <3>2. IsRow(DecodeRow(batch[i]))
      BY DEF IsRow, Fields, DecodeRow
    <3> QED
      BY <1>7, <3>1, <3>2
  <2>2. pinned[i] = DecodeRow(batch[i])
    BY <1>1 DEF GraphInv, RowsPrepared
  <2>3. \A f \in Fields : replay[i][f] = DecodeRow(batch[i])[f]
    BY <1>2, <1>8, <2>2
  <2> QED
    BY <2>1, <2>3 DEF IsRow
<1>10. ASSUME NEW i \in n + 1 .. b
       PROVE  /\ replay[i].slot_mapping = -1
              /\ \A s \in DecodeSeqs : replay[i].deltanet_slots # SlotOf[s]
              /\ \A p \in 1 .. TableWidth : replay[i].block_tables[p] = -1
  <2>1. n < b
    BY <1>2
  <2>2. replay[i].slot_mapping = -1 /\ replay[i].deltanet_slots = GraphSeqs
    BY <1>4, <1>5, <1>6, <2>1 DEF Applied, padding_deltanet_slot
  <2>3. \A s \in DecodeSeqs : SlotOf[s] # GraphSeqs
    BY GraphAssumption
  <2>4. replay[i].block_tables = pinned[i].block_tables
    BY <1>2, <1>8 DEF Fields
  <2>5. pinned[i].block_tables = NoBlocks
    BY <1>1 DEF GraphInv, RowsPrepared
  <2> QED
    BY <2>2, <2>3, <2>4, <2>5 DEF NoBlocks
<1> QED
  BY <1>2, <1>7, <1>9, <1>10 DEF OfThisPass

LEMMA GraphStep ==
    GraphInv /\ [GraphNext]_graphVars => GraphInv'
<1> SUFFICES ASSUME GraphInv, [GraphNext]_graphVars
             PROVE  GraphInv'
  OBVIOUS
<1>1. CASE UNCHANGED graphVars
  <2>1. /\ UNCHANGED <<max_batch, num_tokens, host, batch, filled, pinned, static, stream, replay>>
        /\ GraphBuckets' = GraphBuckets /\ \A n : HasBucket(n)' = HasBucket(n)
        /\ Bucket' = Bucket
    BY <1>1, BucketsStay DEF graphVars
  <2>2. GraphTypeOK'
    BY <2>1 DEF GraphInv, GraphTypeOK, Ops, IsRow
  <2>3. RowsFilled' /\ RowsPrepared'
    <3>1. NoBlocks' = NoBlocks /\ \A s : DecodeRow(s)' = DecodeRow(s)
      BY <2>1 DEF DecodeRow, Position, NoBlocks
    <3> QED
      BY <2>1, <3>1 DEF GraphInv, RowsFilled, RowsPrepared
  <2>4. QueueEnds'
    <3>1. Operations(Len(batch))' = Operations(Len(batch))
      BY <2>1 DEF Operations
    <3>2. ASSUME NEW o PROVE Applied(o)' = Applied(o)
      BY <2>1 DEF Applied, padding_deltanet_slot
    <3> QED
      BY <2>1, <3>1, <3>2 DEF GraphInv, QueueEnds
  <2> QED
    BY <2>2, <2>3, <2>4 DEF GraphInv
<1> QED
  BY <1>1, BeginPassInv, FillRowInv, LaunchInv, DeviceInv, EndPassInv, SampleOomInv DEF GraphNext

(* The tokens of a pass come from a replay that read the inputs of that    *)
(* pass in its first rows and whose other rows touch no sequence: for all  *)
(* numbers and sizes of sequences, tables and graphs, and when an out of   *)
(* memory error makes the host prepare a smaller batch in the same buffers *)
(* while the device is still busy with the pass that failed.               *)
THEOREM GraphReplaysThisPass == GraphSpec => ReplayIsOfThisPass
<1>1. GraphInit => GraphInv
  BY GraphInitInv
<1>2. GraphInv /\ [GraphNext]_graphVars =>
          [host = "sample" /\ host' = "idle" => OfThisPass]_graphVars
  <2> SUFFICES ASSUME GraphInv, GraphNext, host = "sample", host' = "idle"
               PROVE  OfThisPass
    OBVIOUS
  <2>1. EndPass
    BY DEF GraphNext, BeginPass, FillRow, Launch, Device, SampleOom
  <2> QED
    BY <2>1, EndPassReads
<1> QED
  BY <1>1, <1>2, GraphStep, PTL DEF GraphSpec, ReplayIsOfThisPass
=============================================================================
