------------------------------ MODULE Sampling ------------------------------
(***************************************************************************)
(* How the ranks choose the next tokens (model_runner.py): the path that a *)
(* pass takes to its tokens, the edits of the logits, and the collectives. *)
(* Each rank computes the logits of its shard of the vocabulary, sends     *)
(* what the path needs, chooses, and takes rank 0's tokens unless every    *)
(* request of the batch is greedy.                                         *)
(*                                                                         *)
(* Logits are integers, scaled so that a penalised one is an integer too,  *)
(* and probabilities are integer weights over their sum.                   *)
(***************************************************************************)
EXTENDS VocabArgmax, Sequences, SequencesExt, FiniteSetsExt

CONSTANTS
    VocabSize,
    TpSizes,      \* sizes of the tensor-parallel group
    BlockN,       \* rows of the LM head that a thread block takes
    DefaultK,     \* 20: candidates of a rank when no request sets top_k
    NucleusK,     \* 50: the least when one has top_p but no top_k
    MinusInf,     \* the logit of a masked token
    Weight(_),    \* exp(logit / temperature), increasing, 0 for MinusInf
    PDenominator, \* top_p is a fraction with this denominator
    Batches       \* passes to choose tokens for

Tokens == 0 .. VocabSize - 1

(* What a request asks of its tokens (SamplingParams), with what its       *)
(* sequence holds already.                                                 *)
ConstraintPart == [kind : {"allow", "forbid"}, tokens : SUBSET Tokens]
                  \cup [kind : {"bias"}, tokens : SUBSET Tokens, bias : Int]
SamplingRequest ==
    [temperature : Nat, repetition_penalty : Nat \ {0}, appeared : SUBSET Tokens,
     constraint : Seq(ConstraintPart), top_k : Int, top_p : 1 .. PDenominator]
SamplingPass == [is_prefill : BOOLEAN, cuda_graph : BOOLEAN, seqs : Seq(SamplingRequest)]

ASSUME SamplingAssumption ==
    /\ VocabSize \in Nat \ {0} /\ BlockN \in Nat \ {0}
    /\ \A n \in TpSizes : n \in Nat \ {0} /\ VocabSize % n = 0
    /\ DefaultK \in Nat \ {0} /\ NucleusK \in Nat \ {0}
    /\ MinusInf \in Int /\ PDenominator \in Nat \ {0}
    /\ \A b \in Batches :
          /\ b.pass \in SamplingPass /\ b.pass.seqs # <<>>
          /\ b.pass.is_prefill => Len(b.pass.seqs) = 1
          /\ \A l \in b.logits : l \in [DOMAIN b.pass.seqs -> [Tokens -> Int]]

VARIABLES
    tp_size,
    pass,      \* is_prefill, cuda_graph, seqs
    lm_head,   \* lm_head[i]: the logits of row i over the whole vocabulary
    rank_pc,   \* rank_pc[r]: "forward", "gather", "sync" or "done"
    sent,      \* sent[r][i]: what rank r sends to the others for row i
    token_ids  \* token_ids[r]: the tokens that run() returns on rank r

sampleVars == <<tp_size, pass, lm_head, rank_pc, sent, token_ids>>

TpRanks == 0 .. tp_size - 1
vocab_shard == VocabSize \div tp_size
seqs == pass.seqs
Rows == DOMAIN seqs

Greedy(seq) == seq.temperature = 0
Penalised(seq) == seq.repetition_penalty > 1
all_greedy == \A i \in Rows : Greedy(seqs[i])
SeqsHaveConstraints == \E i \in Rows : seqs[i].constraint # <<>>

-----------------------------------------------------------------------------
(* Edits.  An array of logits is that of the tokens from offset on.        *)
Length(a) == Cardinality(DOMAIN a)

(* repetition_penalty divides a positive logit and multiplies another.     *)
PenaltyOffset(r, n) == IF tp_size > 1 THEN r * n ELSE 0
Penalise(v, p) == IF v > 0 THEN v \div p ELSE v * p
ApplyRepetitionPenalty(a, r, seq) ==
    LET off == PenaltyOffset(r, Length(a))
        local == {t - off : t \in {u \in seq.appeared : 0 <= u - off /\ u - off < Length(a)}}
    IN  [i \in DOMAIN a |-> IF i \in local THEN Penalise(a[i], seq.repetition_penalty) ELSE a[i]]

(* Mutant: a mask is read from the start of the vocabulary. *)
ApplyPartLocal(a, off, part) ==
    [i \in DOMAIN a |->
        CASE part.kind = "bias" ->
                IF i + off \in part.tokens /\ a[i] # MinusInf THEN a[i] + part.bias ELSE a[i]
          [] part.kind = "allow" -> IF i \in part.tokens THEN a[i] ELSE MinusInf
          [] part.kind = "forbid" -> IF i \in part.tokens THEN MinusInf ELSE a[i]]

(* The parts of a request's constraint, applied in turn: an added bias, an *)
(* allow-list (allowed_token_ids, or what a guide allows) or a deny-list.  *)
ApplyPart(a, off, part) ==
    [i \in DOMAIN a |->
        CASE part.kind = "bias" ->
                IF i + off \in part.tokens /\ a[i] # MinusInf THEN a[i] + part.bias ELSE a[i]
          [] part.kind = "allow" -> IF i + off \in part.tokens THEN a[i] ELSE MinusInf
          [] part.kind = "forbid" -> IF i + off \in part.tokens THEN MinusInf ELSE a[i]]

ApplyConstraints(a, off, seq) ==
    LET after[n \in 0 .. Len(seq.constraint)] ==
            IF n = 0 THEN a ELSE ApplyPart(after[n - 1], off, seq.constraint[n])
    IN  after[Len(seq.constraint)]

(* _sample_decode edits each rank's shard.                                 *)
EditedShard(r, i) ==
    ApplyConstraints(ApplyRepetitionPenalty(ShardOf(lm_head[i], r, vocab_shard), r, seqs[i]),
                     r * vocab_shard, seqs[i])

(* _sample_prefill_fused puts the shards together and edits the whole.     *)
Gathered(i) == [t \in Tokens |-> sent[t \div vocab_shard][i][t % vocab_shard]]
EditedWhole(r, i) == ApplyConstraints(ApplyRepetitionPenalty(Gathered(i), r, seqs[i]), 0, seqs[i])

-----------------------------------------------------------------------------
(* Candidates are sets of <<token, logit>> pairs.                          *)
Pairs(a, off) == {<<i + off, a[i]>> : i \in DOMAIN a}
Total(C) == MapThenSumSet(LAMBDA c : Weight(c[2]), C)
Larger(C, c) == {d \in C : d[2] > c[2]}

(* torch.topk and torch.sort break ties as they like.                      *)
TopK(C, k) == {T \in kSubset(k, C) : \A c \in T : \A d \in C \ T : c[2] >= d[2]}

(* _apply_top_k_top_p: the k most probable, then the most probable of them *)
(* until those before weigh more than top_p of all the candidates.         *)
Nucleus(T, total, top_p) ==
    {c \in T : /\ Weight(c[2]) > 0
               /\ \/ top_p = PDenominator
                  \/ PDenominator * Total(Larger(T, c)) <= top_p * total}
Sampled(C, seq) ==
    LET cut == IF seq.top_k > 0 /\ seq.top_k < Cardinality(C) THEN TopK(C, seq.top_k) ELSE {C}
    IN  {c[1] : c \in UNION {Nucleus(T, Total(C), seq.top_p) : T \in cut}}

(* _distributed_sample_topk: how many candidates a rank sends.             *)
CandidateCount ==
    LET ks == {seqs[i].top_k : i \in {j \in Rows : seqs[j].top_k > 0}}
        k == IF ks = {} THEN DefaultK ELSE Max(ks)
        nucleus == \E i \in Rows : seqs[i].top_p < PDenominator /\ seqs[i].top_k <= 0
    IN  Min({IF nucleus THEN Max({k, NucleusK}) ELSE k, vocab_shard})

(* The global top k of what the ranks sent; a greedy row takes the first   *)
(* of them.                                                                *)
FromCandidates(seq, C) ==
    UNION {IF Greedy(seq) THEN {c[1] : c \in {d \in G : Larger(G, d) = {}}} ELSE Sampled(G, seq)
              : G \in TopK(C, CandidateCount)}

FromWhole(seq, a) == IF Greedy(seq) THEN {FirstMax(a)} ELSE Sampled(Pairs(a, 0), seq)

-----------------------------------------------------------------------------
(* The branches of _run_impl, _sample_decode and _sample_prefill_fused.    *)
path ==
    IF pass.is_prefill
    THEN IF Greedy(seqs[1]) /\ ~ Penalised(seqs[1]) /\ seqs[1].constraint = <<>>
         THEN "fused" ELSE "whole"
    ELSE IF /\ ~ pass.cuda_graph /\ all_greedy /\ ~ SeqsHaveConstraints
            /\ \A i \in Rows : ~ Penalised(seqs[i])
         THEN "fused"
         ELSE IF all_greedy THEN "argmax" ELSE IF tp_size > 1 THEN "topk" ELSE "rows"

(* What rank r may send for row i.                                         *)
Message(r, i) ==
    CASE path = "fused" ->
            {fused_lm_head_argmax_with_max(ShardOf(lm_head[i], r, vocab_shard), BlockN)}
      [] path = "argmax" -> {LocalMax(EditedShard(r, i))}
      [] path = "topk" -> TopK(Pairs(EditedShard(r, i), r * vocab_shard), CandidateCount)
      [] path = "whole" -> {ShardOf(lm_head[i], r, vocab_shard)}
      [] path = "rows" -> {EditedShard(r, i)}

(* The tokens that rank r may take for row i, once all have sent.          *)
Choice(r, i) ==
    CASE path \in {"fused", "argmax"} ->
            {tp_distributed_argmax([q \in TpRanks |-> sent[q][i]], vocab_shard)}
      [] path = "topk" -> FromCandidates(seqs[i], UNION {sent[q][i] : q \in TpRanks})
      [] path = "whole" -> FromWhole(seqs[i], EditedWhole(r, i))
      [] path = "rows" -> FromWhole(seqs[i], sent[0][i])

SampleInit ==
    /\ tp_size \in TpSizes
    /\ \E b \in Batches : pass = b.pass /\ lm_head \in b.logits
    /\ rank_pc = [r \in TpRanks |-> "forward"]
    /\ sent = [r \in TpRanks |-> <<>>]
    /\ token_ids = [r \in TpRanks |-> <<>>]

Forward(r) ==
    /\ rank_pc[r] = "forward"
    /\ \E m \in [Rows -> UNION {Message(r, i) : i \in Rows}] :
          /\ \A i \in Rows : m[i] \in Message(r, i)
          /\ sent' = [sent EXCEPT ![r] = m]
    /\ rank_pc' = [rank_pc EXCEPT ![r] = "gather"]
    /\ UNCHANGED <<tp_size, pass, lm_head, token_ids>>

(* Mutant: tokens are sent round only if every request samples. *)
NeedsSyncOfAll == tp_size > 1 /\ \A i \in Rows : ~ Greedy(seqs[i])

NeedsSync == tp_size > 1 /\ ~ all_greedy

(* all_gather returns when every rank has sent.  A rank draws by itself.   *)
Choose(r) ==
    /\ rank_pc[r] = "gather" /\ \A q \in TpRanks : rank_pc[q] # "forward"
    /\ \E f \in [Rows -> Tokens] :
          /\ \A i \in Rows : f[i] \in Choice(r, i)
          /\ token_ids' = [token_ids EXCEPT ![r] = f]
    /\ rank_pc' = [rank_pc EXCEPT ![r] = IF NeedsSync THEN "sync" ELSE "done"]
    /\ UNCHANGED <<tp_size, pass, lm_head, sent>>

(* _sync_tokens: a broadcast from rank 0.                                  *)
SyncTokens(r) ==
    /\ rank_pc[r] = "sync" /\ rank_pc[0] \in {"sync", "done"}
    /\ token_ids' = [token_ids EXCEPT ![r] = token_ids[0]]
    /\ rank_pc' = [rank_pc EXCEPT ![r] = "done"]
    /\ UNCHANGED <<tp_size, pass, lm_head, sent>>

SampleNext == \E r \in TpRanks : Forward(r) \/ Choose(r) \/ SyncTokens(r)

SampleSpec == SampleInit /\ [][SampleNext]_sampleVars

SampleOver == \A r \in TpRanks : rank_pc[r] = "done"
=============================================================================
