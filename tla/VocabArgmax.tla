---------------------------- MODULE VocabArgmax -----------------------------
(***************************************************************************)
(* The greedy token: the first index of the largest logit, found in two    *)
(* levels.  The fused LM head takes the maximum of every block of rows of  *)
(* its weight and then of the blocks (lm_head_topk.py); the ranks take     *)
(* that of their shard of the vocabulary and then of the ranks             *)
(* (parallel.py).                                                          *)
(*                                                                         *)
(* Logits are a function on 0 .. n-1.  A maximum is a record: its value    *)
(* and its first index.                                                    *)
(***************************************************************************)
EXTENDS Integers, FiniteSets

(* i is the first index of the largest element of a (torch.argmax).        *)
IsFirstMax(a, i) ==
    /\ i \in DOMAIN a
    /\ \A j \in DOMAIN a : a[j] <= a[i] /\ (a[j] = a[i] => i <= j)

FirstMax(a) == CHOOSE i \in DOMAIN a : IsFirstMax(a, i)

(* local_logits.max(dim=-1): what a rank sends.                            *)
LocalMax(a) == [max |-> a[FirstMax(a)], idx |-> FirstMax(a)]

(* The rank's rows of the LM head (shard_weight_col).                      *)
ShardOf(a, rank, shard) == [i \in 0 .. shard - 1 |-> a[rank * shard + i]]

(* The first rank with the largest maximum, and its index moved to its     *)
(* place in the vocabulary.                                                *)
BestRank(all) == FirstMax([r \in DOMAIN all |-> all[r].max])
(* Mutant: the last of the best ranks. *)
tp_distributed_argmaxLast(all, shard) ==
    LET best == CHOOSE r \in DOMAIN all : \A q \in DOMAIN all :
                    all[q].max <= all[r].max /\ (all[q].max = all[r].max => q <= r)
    IN  all[best].idx + best * shard

tp_distributed_argmax(all, shard) == all[BestRank(all)].idx + BestRank(all) * shard

(* Step 1 of the fused LM head: the maximum of each block of block_N rows. *)
(* A row past the end of the weight reads as zeros.                        *)
num_N_blocks(n, block_N) == (n + block_N - 1) \div block_N
BlockOf(a, b, block_N) ==
    [i \in 0 .. block_N - 1 |->
        IF b * block_N + i \in DOMAIN a THEN a[b * block_N + i] ELSE 0]
PartialMax(a, block_N) ==
    [b \in 0 .. num_N_blocks(Cardinality(DOMAIN a), block_N) - 1 |->
        LET m == LocalMax(BlockOf(a, b, block_N))
        IN  [max |-> m.max, idx |-> b * block_N + m.idx]]

(* Step 2: the least index among the blocks with the largest maximum.      *)
GlobalMax(p) == CHOOSE m \in {p[b].max : b \in DOMAIN p} : \A b \in DOMAIN p : p[b].max <= m
ArgmaxReduce(p) ==
    LET winners == {p[b].idx : b \in {c \in DOMAIN p : p[c].max = GlobalMax(p)}}
    IN  [max |-> GlobalMax(p), idx |-> CHOOSE i \in winners : \A j \in winners : i <= j]

fused_lm_head_argmax_with_max(a, block_N) == ArgmaxReduce(PartialMax(a, block_N))
=============================================================================
