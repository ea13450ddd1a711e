------------------------- MODULE SamplingProperties -------------------------
(***************************************************************************)
(* What the choice of tokens promises, against the logits of the whole     *)
(* vocabulary on one device.                                               *)
(***************************************************************************)
EXTENDS Sampling

(* The logit that a token should be chosen by.                             *)
AfterPart(v, t, part) ==
    CASE part.kind = "bias" -> IF t \in part.tokens /\ v # MinusInf THEN v + part.bias ELSE v
      [] part.kind = "allow" -> IF t \in part.tokens THEN v ELSE MinusInf
      [] part.kind = "forbid" -> IF t \in part.tokens THEN MinusInf ELSE v
AfterParts(v, t, parts) ==
    LET w[n \in 0 .. Len(parts)] == IF n = 0 THEN v ELSE AfterPart(w[n - 1], t, parts[n])
    IN  w[Len(parts)]
AfterPenalty(v, t, seq) ==
    LET p == seq.repetition_penalty
    IN  IF t \notin seq.appeared THEN v ELSE IF v > 0 THEN v \div p ELSE v * p
Wanted(i) ==
    [t \in Tokens |-> AfterParts(AfterPenalty(lm_head[i][t], t, seqs[i]), t, seqs[i].constraint)]

(* A token that top_k and top_p leave, with ties broken in its favour.     *)
WeightOf(w, S) == MapThenSumSet(LAMBDA u : Weight(w[u]), S)
MayBeSampled(i, t) ==
    LET w == Wanted(i)
        larger == {u \in Tokens : w[u] > w[t]}
    IN  /\ Weight(w[t]) > 0
        /\ seqs[i].top_k > 0 => Cardinality(larger) < seqs[i].top_k
        /\ PDenominator * WeightOf(w, larger) <= seqs[i].top_p * WeightOf(w, Tokens)

(* Ranks that return from run() return the same tokens: the copies of the  *)
(* scheduler that the ranks keep would otherwise drift apart.              *)
RanksAgree ==
    \A r, q \in TpRanks : rank_pc[r] = "done" /\ rank_pc[q] = "done" => token_ids[r] = token_ids[q]

(* A greedy request gets a token with the largest edited logit, on every   *)
(* path; the first of them unless it shares a pass with sampled ones.      *)
GreedyIsArgmax ==
    \A r \in TpRanks : rank_pc[r] = "done" =>
        \A i \in Rows : Greedy(seqs[i]) =>
            /\ \A t \in Tokens : Wanted(i)[t] <= Wanted(i)[token_ids[r][i]]
            /\ all_greedy => token_ids[r][i] = FirstMax(Wanted(i))

(* A sampled token is one that the request's mask, top_k and top_p leave   *)
(* of the whole vocabulary, though a rank saw only a few candidates.       *)
WithinSupport ==
    \A r \in TpRanks : rank_pc[r] = "done" =>
        \A i \in Rows : ~ Greedy(seqs[i]) => MayBeSampled(i, token_ids[r][i])
=============================================================================
