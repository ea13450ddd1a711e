-------------------------- MODULE EngineProperties --------------------------
(***************************************************************************)
(* What the engine promises, stated over LLMEngine.                        *)
(***************************************************************************)
EXTENDS LLMEngine

Unfinished == {s \in submitted : ~Finished(s)}
Queued == waiting \o running \o decode_seqs

(* Type invariant of the engine's variables (the pool has its own).        *)
EngineTypeOK ==
    /\ seq \in [Seqs -> Fields]
    /\ \A s \in Seqs : NumTokens(s) \in 1 .. MaxLen
    /\ Range(Queued) \subseteq submitted
    /\ pc \in {"idle", "decode", "admit", "prepare", "forward", "requeue", "record",
               "sample", "advance", "raised"}
    /\ Range(batch) \cup Range(later) \cup Range(todo) \subseteq submitted
    /\ Len(prefix_state_cache) <= MaxPrefixStates

(* A request that was added and has not finished is in exactly one place   *)
(* of exactly one queue, whatever preemptions and out-of-memory drops did. *)
QueuedOnce ==
    IsInjective(Queued) /\ Range(Queued) = Unfinished

(* Every slot is free once or held by one sequence, and a prefill or       *)
(* decode never finds the slots exhausted (the assert of                   *)
(* allocate_deltanet_slot).                                                *)
SlotDiscipline ==
    /\ IsInjective(free_deltanet_slots)
    /\ \A i \in Slots :
         Cardinality({s \in Seqs : seq_to_slot[s] = i})
            = IF i \in Range(free_deltanet_slots) THEN 0 ELSE 1
    /\ exception # "AssertionError"

(* A forward pass reads exactly the context of its sequence: the recurrent *)
(* state has read the tokens before the pass, each once, and every earlier *)
(* position holds the key and value of this sequence's own prefix.  This   *)
(* is what preemption, prefix reuse, chunking and retries must preserve.   *)
ContextExactFor(s) ==
    /\ State(s).recurrent = Read(s, First(s))
    /\ \A p \in 0 .. (First(s) - 1) :
         Mapped(s, p) /\ kv_cache[BlockAt(s, p)][p % BlockSize] = Read(s, p + 1)

ContextExact == pc = "forward" => \A s \in Range(batch) : ContextExactFor(s)

(* The conv1d of a pass continues from the last ConvKernel - 1 tokens of   *)
(* its sequence: "boundary continuity in chunked prefill" (qwen_36.py 591) *)
(* however the tokens were cut into chunks, and after a restored prefix.   *)
ConvExactFor(s) ==
    \A k \in 1 .. (ConvKernel - 1) :
        LET p == First(s) - ConvKernel + 1 + k
        IN  State(s).conv[k + 1] = IF p > 0 THEN token_ids[s][p] ELSE 0

ConvExact == pc = "forward" => \A s \in Range(batch) : ConvExactFor(s)

(* A forward pass stores into blocks of its own sequence only: never into  *)
(* a block that another table shares, and a prefill position always has a  *)
(* block (the case _build_slot_mapping_prefill says should not happen).    *)
WritesOwnBlocks ==
    pc = "forward" =>
        \A s \in Range(batch) : \A p \in Positions(s) :
            /\ batch_is_prefill => Mapped(s, p)
            /\ Mapped(s, p) => ref_count[BlockAt(s, p)] = 1

(* A slot mapping kept from an earlier pass is as long as the chunk it is  *)
(* used for: chunk sizes follow the budget, so the mappings of a preempted *)
(* or dropped sequence must go before it is prefilled again.               *)
GatherExact == pc = "forward" => GatherFits

(* A snapshot is kept only while its blocks are live, and it is the state  *)
(* after the very tokens whose keys and values those blocks hold.          *)
SnapshotsExact ==
    \A i \in DOMAIN prefix_state_cache :
        LET e == prefix_state_cache[i]
        IN  /\ Range(e.key) \subseteq used_block_ids
            /\ Len(e.state.recurrent) = Len(e.key) * BlockSize
            /\ \A p \in 0 .. (Len(e.state.recurrent) - 1) :
                 kv_cache[e.key[p \div BlockSize + 1]][p % BlockSize]
                    = SubSeq(e.state.recurrent, 1, p + 1)

(* A prefix that the cache would hand out is the prefix whose keys, values *)
(* and state it hands out.                                                 *)
HitsExact ==
    \A p \in DOMAIN trie : HasState(trie[p]) => Snapshot(trie[p]).state.recurrent = p

(* A pass, with the decode pass that follows it in the same step, stays    *)
(* within max_num_batched_tokens and max_num_seqs.                         *)
StepBudget ==
    pc = "prepare" =>
        LET members == Range(batch) \cup Range(later)
            tokens == UNION {{s} \X (1 .. seq[s].num_scheduled_tokens) : s \in members}
        IN  /\ Cardinality(members) <= MaxNumSeqs
            /\ Cardinality(tokens) <= MaxNumBatchedTokens

(* When a generate() call has returned and none runs, all memory is back:  *)
(* no block and no slot is held by a sequence nobody waits for.            *)
NoLeak ==
    pc = "idle" /\ call = {} =>
        /\ Len(free_block_ids) = NumBlocks
        /\ Len(free_deltanet_slots) = MaxNumSeqs

(* A finished sequence keeps its answer and holds no memory: no later step *)
(* of its batch or of the scheduler touches it again.                      *)
FinishedIsFinal ==
    [][\A s \in Seqs : Finished(s) =>
          /\ Finished(s)' /\ token_ids'[s] = token_ids[s]
          /\ block_table'[s] = <<>>]_vars

(* The engine is a correct user of the block pool: every step is a step of *)
(* BlockManager's specification or leaves the pool alone, and a prefix hit *)
(* adopts the first blocks of a live table.                                *)
PoolContract == PoolSpec

(* Every request is answered (generate: "Generate completions for a list   *)
(* of prompts").                                                           *)
Answered == \A s \in Seqs : s \in submitted ~> Finished(s)

(* Under memory pressure too: every request is answered, or the call that  *)
(* serves it raises; it never spins or waits for ever.                     *)
AnsweredOrFails ==
    \A s \in Seqs : s \in submitted ~> (Finished(s) \/ pc = "raised")

(* The engine runs on the caller's thread: while generate() loops, its     *)
(* next step comes.                                                        *)
Fairness == WF_vars(EngineStep)
FairSpec == EngineSpec /\ Fairness

-----------------------------------------------------------------------------
(* Promises of the documentation that the code does not keep; each has a   *)
(* run of its own that ends in a counterexample.                           *)

(* may_append: "Append a slot for the new token, allocating a new block if *)
(* needed" - so a decode pass finds a block for its position.              *)
DecodeHasBlock ==
    pc = "forward" /\ ~batch_is_prefill =>
        \A s \in Range(batch) : Mapped(s, NumTokens(s) - 1)

(* Preemption releases the victim "and re-prefill[s] it later": schedule() *)
(* survives every preemption it makes.                                     *)
PreemptionSurvived == exception # "KeyError"

(* max_tokens: "only 1 decode token" for max_tokens=1 (bench_prefill.py     *)
(* 113) - an answer is never longer, however often its sequence was        *)
(* released and prefilled again.                                           *)
LengthKept == \A s \in Seqs : NumCompletion(s) <= MaxTokens[s]

(* advance_decode: "Preempt if possible, otherwise the caller will drop    *)
(* the sequence" - a sequence sent back to waiting is out of the batch.    *)
PreemptedLeaveBatch ==
    pc = "forward" /\ ~batch_is_prefill => Range(batch) \cap Range(waiting) = {}

=============================================================================
