------------------------- MODULE AttentionProperties ------------------------
(***************************************************************************)
(* What the attention kernels must compute.                                *)
(***************************************************************************)
EXTENDS AttentionKernel

(* The queries of a launch, and the keys that attention gives each one:    *)
(* every position of its sequence up to its own, from the pages or the     *)
(* packed rows of that sequence, with the KV head of its head's group.     *)
DecodeReference(l, b, h) ==
    [p \in 1 .. l.seqlen_kv[b] |->
        <<l.block_table[b][(p - 1) \div l.page_size + 1] * l.page_size + ((p - 1) % l.page_size),
          h \div (l.heads \div l.kv_heads)>>]

VarlenReference(l, b, q, h) ==
    LET qn == l.cu_seqlens_q[b + 1] - l.cu_seqlens_q[b]
        kn == l.cu_seqlens_k[b + 1] - l.cu_seqlens_k[b]
        seen == IF l.is_causal THEN q - l.cu_seqlens_q[b] + (kn - qn) + 1 ELSE kn
    IN  [p \in 1 .. seen |-> <<l.cu_seqlens_k[b] + p - 1, h \div l.groups>>]

Queries(l) ==
    IF l.kernel = "decode" THEN (DOMAIN l.seqlen_kv) \X (0 .. l.heads - 1)
    ELSE (0 .. l.cu_seqlens_q[Len(l.cu_seqlens_q)] - 1) \X (0 .. l.heads - 1)

Keys(l, q) ==
    IF l.kernel = "decode" THEN DecodeReference(l, q[1], q[2])
    ELSE LET b == CHOOSE n \in 1 .. Len(l.cu_seqlens_q) - 1 :
                      l.cu_seqlens_q[n] <= q[1] /\ q[1] < l.cu_seqlens_q[n + 1]
         IN  VarlenReference(l, b, q[1], q[2])

(* Every row written has folded in each key of its query once, with the    *)
(* value of the same position, and no other; and every query of the launch *)
(* is a row of exactly one block.                                          *)
EachKeyOnce ==
    /\ \A row \in Output :
          /\ row[1] \in Queries(launch)
          /\ row[2] = [p \in DOMAIN Keys(launch, row[1]) |->
                          <<Keys(launch, row[1])[p], Keys(launch, row[1])[p]>>]
    /\ \A q \in Queries(launch) :
          \E c \in Grid(launch) : \E i \in BlockRows(launch) :
             /\ Stored(launch, c, i) /\ Query(launch, c, i) = q
             /\ \A d \in Grid(launch) : \A n \in BlockRows(launch) :
                   Stored(launch, d, n) /\ Query(launch, d, n) = q => d = c /\ n = i

(* The block ends: no group of threads waits for ever for the other.       *)
AttentionOver ==
    /\ \A t \in ComputeThreads : ck[t] = loop_range /\ compute[t] = "wait"
    /\ \A i \in BlockRows(launch) : Stored(launch, cta, i) =>
          \E row \in Output : row[1] = Query(launch, cta, i)
=============================================================================
