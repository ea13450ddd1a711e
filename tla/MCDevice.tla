------------------------------ MODULE MCDevice ------------------------------
(***************************************************************************)
(* The parts below the engine on small instances: an attention kernel, the *)
(* decode graphs, and the choice of tokens by the ranks.  The three share  *)
(* no state; a behaviour runs one of them and leaves the others as they    *)
(* start.                                                                  *)
(***************************************************************************)
EXTENDS AttentionProperties, SamplingProperties, DecodeGraph, TLC

CONSTANTS s1, s2, s3

VARIABLE unit

-----------------------------------------------------------------------------
(* Attention: pages smaller than a chunk, as large and larger; two head    *)
(* blocks to a KV head; prompts with and without a cached prefix.          *)
Paged(page, lens, table, block_H, ws) ==
    [kernel |-> "decode", ws |-> ws, seqlen_kv |-> lens, block_table |-> table,
     page_size |-> page, heads |-> 4, kv_heads |-> 2, block_H |-> block_H]
Packed(q, k, m, n, causal, ws) ==
    [kernel |-> "varlen", ws |-> ws, cu_seqlens_q |-> q, cu_seqlens_k |-> k,
     max_seqlen_q |-> 3, block_M |-> m, block_N |-> n, is_causal |-> causal,
     heads |-> 2, groups |-> 2]
MCLaunches == UNION {
    {Paged(1, <<5, 1>>, <<<<4, 9, 0, 3, 7>>, <<2, -1, -1, -1, -1>>>>, 1, ws),
     Paged(2, <<3, 7>>, <<<<4, 1>>, <<2, 5, 0, 3>>>>, 4, ws),
     Paged(4, <<9>>, <<<<4, 1, 0>>>>, 2, ws),
     Packed(<<0, 3, 4>>, <<0, 5, 9>>, 2, 2, TRUE, ws),
     Packed(<<0, 3, 4>>, <<0, 3, 6>>, 2, 3, FALSE, ws),
     Packed(<<0, 3>>, <<0, 3>>, 4, 2, TRUE, ws)} : ws \in BOOLEAN}

-----------------------------------------------------------------------------
(* Sampling: six tokens, logits with ties within and across the shards.    *)
MCMinusInf == -1000
MCWeight(v) == IF v < -12 THEN 0 ELSE 2 ^ (v + 12)

Plain == [temperature |-> 0, repetition_penalty |-> 1, appeared |-> {1, 4},
          constraint |-> <<>>, top_k |-> -1, top_p |-> 4]
Repeating == [Plain EXCEPT !.repetition_penalty = 2]
Constrained == [Repeating EXCEPT !.constraint =
    <<[kind |-> "bias", tokens |-> {2, 5}, bias |-> 3],
      [kind |-> "forbid", tokens |-> {3}], [kind |-> "allow", tokens |-> {0, 2, 3, 5}]>>]
Warm(seq, k, p) == [seq EXCEPT !.temperature = 1, !.top_k = k, !.top_p = p]

Parts == {<<0, 0, 2>>, <<2, 0, 2>>, <<-4, -2, -2>>, <<4, 2, -2>>}
Vector(x, y) == [t \in 0 .. 5 |-> IF t < 3 THEN x[t + 1] ELSE y[t - 2]]
Vectors == {Vector(x, y) : x, y \in Parts}
Second == Vector(<<2, 0, -2>>, <<0, 4, 2>>)

Prefill(seq) == [pass |-> [is_prefill |-> TRUE, cuda_graph |-> FALSE, seqs |-> <<seq>>],
                 logits |-> {<<v>> : v \in Vectors}]
Decoding(pair, graph) ==
    [pass |-> [is_prefill |-> FALSE, cuda_graph |-> graph, seqs |-> pair],
     logits |-> {<<v, Second>> : v \in Vectors}]

MCBatches ==
    {Prefill(q) : q \in {Plain, Warm(Plain, -1, 4), Warm(Constrained, 3, 3)}}
    \cup {Decoding(q, graph) : graph \in BOOLEAN, q \in
            {<<Plain, Plain>>, <<Repeating, Plain>>, <<Constrained, Repeating>>,
             <<Warm(Plain, 2, 4), Plain>>, <<Warm(Constrained, 3, 2), Warm(Plain, -1, 2)>>,
             <<Warm(Repeating, -1, 3), Constrained>>}}

(* A greedy prompt with a repetition penalty.                              *)
PenalisedPrompt == {Prefill(Repeating)}

-----------------------------------------------------------------------------
(* Decode graphs: three sequences that cross page boundaries.              *)
MCSlotOf == s1 :> 0 @@ s2 :> 1 @@ s3 :> 3
MCTableOf == s1 :> <<2, 5>> @@ s2 :> <<0, 4, 1>> @@ s3 :> <<3, 6>>
MCStart == s1 :> 2 @@ s2 :> 3 @@ s3 :> 1

-----------------------------------------------------------------------------
AttentionAtRest == AttentionInit /\ launch = Paged(4, <<9>>, <<<<4, 1, 0>>>>, 2, TRUE)
                                 /\ cta = <<0, 0, 1>>
SampleAtRest == /\ SampleInit /\ tp_size = 1 /\ pass = Prefill(Plain).pass
                /\ lm_head = <<Vector(<<0, 0, 2>>, <<2, 0, 2>>)>>
GraphAtRest == GraphInit /\ max_batch = 2

DeviceVars == <<attentionVars, sampleVars, graphVars, unit>>

DeviceInit ==
    \/ unit = "attention" /\ AttentionInit /\ SampleAtRest /\ GraphAtRest
    \/ unit = "sampling" /\ AttentionAtRest /\ SampleInit /\ GraphAtRest
    \/ unit = "graph" /\ AttentionAtRest /\ SampleAtRest /\ GraphInit

UnitOver == CASE unit = "attention" -> AttentionOver
              [] unit = "sampling" -> SampleOver
              [] unit = "graph" -> GraphOver

DeviceNext ==
    \/ unit = "attention" /\ AttentionNext /\ UNCHANGED <<sampleVars, graphVars, unit>>
    \/ unit = "sampling" /\ SampleNext /\ UNCHANGED <<attentionVars, graphVars, unit>>
    \/ unit = "graph" /\ GraphNext /\ UNCHANGED <<attentionVars, sampleVars, unit>>

DeviceSpec == DeviceInit /\ [][DeviceNext]_DeviceVars /\ WF_DeviceVars(DeviceNext)

(* No group of threads, no rank and neither host nor device waits for ever *)
(* for the other, and a behaviour stops only when its unit is through: the *)
(* block has stored its rows, the ranks have their tokens, the sequences   *)
(* are decoded.  Warps, ranks and the device all run on.                   *)
DeviceEnds == <>UnitOver
=============================================================================
