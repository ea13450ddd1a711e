--------------------------- MODULE AttentionKernel --------------------------
(***************************************************************************)
(* The attention kernels: decode over the paged KV cache                   *)
(* (gqa_decode_paged.py) and prefill over packed sequences                 *)
(* (gqa_varlen.py), each as a simple loop over chunks of keys and, on      *)
(* sm_90, as the warp-specialised loop of WarpPipeline.                    *)
(*                                                                         *)
(* One thread block of one launch is run.  The arithmetic is abstracted to *)
(* what goes into it: a row of acc_o is the sequence of the <<K row, V     *)
(* row>> pairs that its online softmax has folded in, and a row of the     *)
(* cache is a <<token row, KV head>> pair.                                 *)
(***************************************************************************)
EXTENDS WarpPipeline, Sequences, FiniteSets

CONSTANTS
    Launches,   \* calls of gqa_decode_paged_fn() and flashattn()
    MinBlockN   \* 64, the least block_N of the decode kernels

Least(a, b) == IF a < b THEN a ELSE b
Most(a, b) == IF a < b THEN b ELSE a
CeilDiv(a, b) == (a + b - 1) \div b
kv_group_num(l) == l.heads \div l.kv_heads
valid_block_H(l) == Least(l.block_H, kv_group_num(l))

(* A table has a page for every position; a small page divides the tile,   *)
(* the query heads divide into groups and these into blocks.               *)
PagedCall(l) ==
    /\ {l.page_size, l.heads, l.kv_heads, l.block_H} \subseteq Nat \ {0}
    /\ l.seqlen_kv \in Seq(Nat) /\ l.block_table \in Seq(Seq(Int))
    /\ Len(l.block_table) = Len(l.seqlen_kv)
    /\ \A b \in DOMAIN l.seqlen_kv : l.seqlen_kv[b] <= Len(l.block_table[b]) * l.page_size
    /\ l.page_size < MinBlockN => MinBlockN % l.page_size = 0
    /\ l.heads % l.kv_heads = 0 /\ kv_group_num(l) % valid_block_H(l) = 0

(* The queries of a packed sequence are the last of its keys, and no more  *)
(* than the grid is wide for.                                              *)
PackedCall(l) ==
    /\ {l.block_M, l.block_N, l.heads, l.groups} \subseteq Nat \ {0} /\ l.is_causal \in BOOLEAN
    /\ l.cu_seqlens_q \in Seq(Nat) /\ l.cu_seqlens_k \in Seq(Nat)
    /\ Len(l.cu_seqlens_k) = Len(l.cu_seqlens_q)
    /\ l.cu_seqlens_q # <<>> /\ l.cu_seqlens_q[1] = 0 /\ l.max_seqlen_q \in Nat
    /\ \A b \in 1 .. Len(l.cu_seqlens_q) - 1 :
          LET q == l.cu_seqlens_q[b + 1] - l.cu_seqlens_q[b]
          IN  q \in 0 .. l.max_seqlen_q /\ q <= l.cu_seqlens_k[b + 1] - l.cu_seqlens_k[b]

ASSUME KernelAssumption ==
    /\ MinBlockN \in Nat \ {0}
    /\ \A T \in {ComputeThreads, MemoryThreads} : IsFiniteSet(T) /\ T = 0 .. Cardinality(T) - 1
    /\ \A l \in Launches :
          /\ l.ws \in BOOLEAN
          /\ \/ l.kernel = "decode" /\ PagedCall(l)
             \/ l.kernel = "varlen" /\ PackedCall(l)

VARIABLES
    launch,   \* the call and whether it runs the warp-specialised kernel
    cta,      \* the thread block: <<row block or head block, head, sequence>>
    scores,   \* scores[t]: chunk of every slice of K that thread t multiplied
    acc_o,    \* acc_o[i]: what row i of the block has folded in
    Output    \* rows of the result written so far

kernelVars == <<launch, cta, scores, acc_o, Output>>
attentionVars == <<pipeVars, kernelVars>>

Decode == launch.kernel = "decode"

-----------------------------------------------------------------------------
(* Decode: one query per sequence, block_H heads of one KV head a block.   *)
DecodeBlockN(l) == Most(MinBlockN, l.page_size)
pages_per_block(l) == IF l.page_size >= DecodeBlockN(l) THEN 1
                      ELSE DecodeBlockN(l) \div l.page_size
num_blockn_in_page(l) == IF l.page_size >= DecodeBlockN(l)
                         THEN l.page_size \div DecodeBlockN(l) ELSE 1

(* The table, padded with -1 to the width the kernel is compiled for.      *)
BlockTable(l, b, p) ==
    IF p < Len(l.block_table[b]) THEN l.block_table[b][p + 1] ELSE -1

(* Mutant: every sub-page of a chunk is the first one. *)
PagedRowFirst(l, b, k, j) ==
    LET page == BlockTable(l, b, k * pages_per_block(l))
    IN  page * l.page_size + (j % l.page_size)

(* The cache row copied to row j of the buffer for chunk k.                *)
PagedRow(l, b, k, j) ==
    IF pages_per_block(l) = 1
    THEN LET page == BlockTable(l, b, k \div num_blockn_in_page(l))
         IN  page * l.page_size + (k % num_blockn_in_page(l)) * DecodeBlockN(l) + j
    ELSE LET page == BlockTable(l, b, k * pages_per_block(l) + j \div l.page_size)
         IN  page * l.page_size + (j % l.page_size)

DecodeGrid(l) == {<<hid, 0, b>> : hid \in 0 .. l.heads \div valid_block_H(l) - 1,
                                  b \in DOMAIN l.seqlen_kv}
DecodeKvHead(l, c) == c[1] \div (kv_group_num(l) \div valid_block_H(l))
DecodeRange(l, c) == CeilDiv(l.seqlen_kv[c[3]], DecodeBlockN(l))
DecodeVisible(l, c, i, k, j) == k * DecodeBlockN(l) + j < l.seqlen_kv[c[3]]
DecodeQuery(l, c, i) == <<c[3], c[1] * valid_block_H(l) + i>>

-----------------------------------------------------------------------------
(* Prefill: sequences packed one after the other, block_M queries a block. *)
VarlenGrid(l) == {<<bx, h, b>> : bx \in 0 .. CeilDiv(l.max_seqlen_q, l.block_M) - 1,
                                 h \in 0 .. l.heads - 1, b \in 1 .. Len(l.cu_seqlens_q) - 1}
q_start_idx(l, c) == l.cu_seqlens_q[c[3]]
kv_start_idx(l, c) == l.cu_seqlens_k[c[3]]
q_seqlen(l, c) == l.cu_seqlens_q[c[3] + 1] - q_start_idx(l, c)
kv_seqlen(l, c) == l.cu_seqlens_k[c[3] + 1] - kv_start_idx(l, c)
offset(l, c) == kv_seqlen(l, c) - q_seqlen(l, c)

VarlenKvHead(l, c) == c[2] \div l.groups
PackedRow(l, c, k, j) == kv_start_idx(l, c) + k * l.block_N + j

is_valid_cta(l, c) == c[1] * l.block_M < q_seqlen(l, c)
max_visible_k_idx(l, c) == offset(l, c) + (c[1] + 1) * l.block_M

(* The warp-specialised kernel has no is_valid_cta.                        *)
VarlenRange(l, c) ==
    IF ~ (l.ws \/ is_valid_cta(l, c)) THEN 0
    ELSE IF l.is_causal
         THEN Least(CeilDiv(max_visible_k_idx(l, c), l.block_N),
                    CeilDiv(kv_seqlen(l, c), l.block_N))
         ELSE CeilDiv(kv_seqlen(l, c), l.block_N)

(* The simple loop masks only the chunks that some element is outside of.  *)
need_mask(l, c, k) ==
    \/ l.is_causal /\ (k + 1) * l.block_N - 1 > c[1] * l.block_M + offset(l, c)
    \/ (c[1] + 1) * l.block_M > q_seqlen(l, c)
    \/ (k + 1) * l.block_N > kv_seqlen(l, c)

VarlenVisible(l, c, i, k, j) ==
    LET q_pos == c[1] * l.block_M + i
        k_pos == k * l.block_N + j
        masked == \/ l.is_causal /\ q_pos + offset(l, c) < k_pos
                  \/ q_pos >= q_seqlen(l, c)
                  \/ k_pos >= kv_seqlen(l, c)
    IN  (l.ws \/ need_mask(l, c, k)) => ~ masked

VarlenQuery(l, c, i) == <<q_start_idx(l, c) + c[1] * l.block_M + i, c[2]>>

-----------------------------------------------------------------------------
Grid(l) == IF l.kernel = "decode" THEN DecodeGrid(l) ELSE VarlenGrid(l)
LoopRange(l, c) == IF l.kernel = "decode" THEN DecodeRange(l, c) ELSE VarlenRange(l, c)
ChunkRows == IF Decode THEN DecodeBlockN(launch) ELSE launch.block_N
BlockRows(l) == 0 .. (IF l.kernel = "decode" THEN valid_block_H(l) ELSE l.block_M) - 1
Query(l, c, i) == IF l.kernel = "decode" THEN DecodeQuery(l, c, i) ELSE VarlenQuery(l, c, i)
Visible(i, k, j) == IF Decode THEN DecodeVisible(launch, cta, i, k, j)
                    ELSE VarlenVisible(launch, cta, i, k, j)

(* The <<cache row, KV head>> in row j of a buffer that holds chunk k.     *)
Row(k, j) == IF Decode THEN <<PagedRow(launch, cta[3], k, j), DecodeKvHead(launch, cta)>>
             ELSE <<PackedRow(launch, cta, k, j), VarlenKvHead(launch, cta)>>

(* Which rows of a block a query stands in, and which rows a thread owns.  *)
Stored(l, c, i) == l.kernel = "decode" \/ c[1] * l.block_M + i < q_seqlen(l, c)
RowsOf(t) == {i \in BlockRows(launch) : i % Cardinality(ComputeThreads) = t}
SliceOf(j) == j % Cardinality(MemoryThreads)

(* What row i folds in at chunk k, given the chunks its slices came from.  *)
Folded(i, k, kc, vc) ==
    LET row(j) == <<Row(kc[SliceOf(j)], j), Row(vc[SliceOf(j)], j)>>
        f[n \in 0 .. ChunkRows] ==
            IF n = 0 THEN <<>>
            ELSE IF Visible(i, k, n - 1) THEN Append(f[n - 1], row(n - 1)) ELSE f[n - 1]
    IN  f[ChunkRows]

Fold(t, kc, vc) ==
    acc_o' = [i \in DOMAIN acc_o |->
                 IF i \in RowsOf(t) THEN acc_o[i] \o Folded(i, ck[t], kc, vc) ELSE acc_o[i]]

-----------------------------------------------------------------------------
AttentionInit ==
    /\ launch \in Launches
    /\ cta \in Grid(launch)
    /\ loop_range = LoopRange(launch, cta)
    /\ PipeInit
    /\ scores = [t \in ComputeThreads |-> [m \in MemoryThreads |-> Nothing]]
    /\ acc_o = [i \in BlockRows(launch) |-> <<>>]
    /\ Output = {}

Wait ==
    /\ launch.ws
    /\ \/ \E t \in ComputeThreads : ComputeWait(t)
       \/ \E m \in MemoryThreads : MemoryStep(m)
    /\ UNCHANGED kernelVars

(* T.gemm(Q_shared, K_shared_b)                                            *)
MultiplyK(t) ==
    /\ Scores(t)
    /\ scores' = [scores EXCEPT ![t] = k_shared[ck[t] % 2]]
    /\ UNCHANGED <<launch, cta, acc_o, Output>>

(* The mask, the online softmax and T.gemm(S_shared, V_shared_b)           *)
MultiplyV(t) ==
    /\ Values(t)
    /\ Fold(t, scores[t], v_shared[ck[t] % 2])
    /\ UNCHANGED <<launch, cta, scores, Output>>

(* A chunk of the simple loop, whose copies the compiler overlaps.         *)
Chunk(t) ==
    LET here == [m \in MemoryThreads |-> ck[t]]
    IN  /\ ~ launch.ws /\ ck[t] < loop_range
        /\ Fold(t, here, here)
        /\ ck' = [ck EXCEPT ![t] = @ + 1]
        /\ UNCHANGED <<loop_range, sharedVars, readyVars, doneVars, compute, memoryVars,
                       launch, cta, scores, Output>>

(* The rows are normalised and written.                                    *)
Store(t) ==
    LET mine == {i \in RowsOf(t) : Stored(launch, cta, i)}
        rows == {<<Query(launch, cta, i), acc_o[i]>> : i \in mine}
    IN  /\ compute[t] = "wait" /\ ck[t] = loop_range
        /\ ~ rows \subseteq Output
        /\ Output' = Output \cup rows
        /\ UNCHANGED <<pipeVars, launch, cta, scores, acc_o>>

AttentionNext ==
    \/ Wait
    \/ \E t \in ComputeThreads : MultiplyK(t) \/ MultiplyV(t) \/ Chunk(t) \/ Store(t)

AttentionSpec == AttentionInit /\ [][AttentionNext]_attentionVars
=============================================================================
