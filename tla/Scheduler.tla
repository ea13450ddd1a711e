----------------------------- MODULE Scheduler ------------------------------
(***************************************************************************)
(* The scheduler (engine/scheduler.py).  schedule() is a loop over the     *)
(* running sequences followed by the admission of one prefill chunk; the   *)
(* model takes one iteration of a loop, or one call that changes the pool, *)
(* per step, and pc says which comes next.  Nothing else runs in between.  *)
(*                                                                         *)
(* The callbacks that LLMEngine wires (llm_engine.py 58-63) are calls into *)
(* ModelRunner: on_preempt frees the slot, on_block_freed evicts snapshots,*)
(* on_prefix_hit asks for one and on_prefix_save takes one.                *)
(***************************************************************************)
EXTENDS PrefixCache, ModelRunner

CONSTANTS
    MaxNumBatchedTokens,     \* config.max_num_batched_tokens
    MaxPrefillChunkTokens,   \* config.max_prefill_chunk_tokens
    EnablePrefixCaching      \* config.enable_prefix_caching

ASSUME SchedulerAssumption ==
    /\ MaxNumBatchedTokens \in Nat \ {0}
    /\ MaxPrefillChunkTokens \in Nat \ {0}
    /\ EnablePrefixCaching \in BOOLEAN

VARIABLES
    waiting,       \* deque of sequences to prefill
    running,       \* OrderedDict of sequences to decode, last added last
    decode_list,   \* schedule(): running sequences not yet looked at
    decode_seqs,   \* schedule(): sequences picked for decode
    preempted,     \* schedule(): preemptions so far
    tried,         \* the head of the loop has preempted once already
    pc,            \* the next step of the engine
    exception      \* what was raised, "" when nothing was

queueVars == <<waiting, running>>
loopVars == <<decode_list, decode_seqs, preempted, tried>>

MaxPreemptCount == Max({1, MaxNumSeqs \div 4})

SchedulerInit ==
    /\ waiting = <<>> /\ running = <<>>
    /\ decode_list = <<>> /\ decode_seqs = <<>>
    /\ preempted = 0 /\ tried = FALSE
    /\ pc = "idle" /\ exception = ""

Raise(what) == pc' = "raised" /\ exception' = what
Goto(next) == pc' = next /\ UNCHANGED exception

is_finished == waiting = <<>> /\ running = <<>>

(* Mutant: on_block_freed is not wired. *)
ReleaseUnseen(s) ==
    /\ Deallocate(s)
    /\ UNCHANGED <<cacheVars, prefix_state_cache>>

(* deallocate() with on_block_freed for every block it frees. *)
ReleaseBlocks(s) ==
    /\ Deallocate(s)
    /\ EvictBlocks(OnlyHeldBy(s))
    /\ EvictStates(OnlyHeldBy(s))

(* _preempt_seq(), and the change of running that came before it. *)
PreemptSeq(s, others) ==
    /\ seq' = [seq EXCEPT ![s] = Recomputed(@)]
    /\ ReleaseBlocks(s)
    /\ FreeSlots(<<s>>)
    /\ waiting' = <<s>> \o waiting
    /\ running' = others
    /\ UNCHANGED <<token_ids, kv_cache, oom_preempted>>

(* _try_preempt(s): the last of running, or s when none runs.  Decoded     *)
(* sequences are put back behind a new one: the last is often the oldest.  *)
TryPreempt(s) ==
    IF running = <<>> THEN PreemptSeq(s, running)
    ELSE PreemptSeq(Last(running), Front(running))

-----------------------------------------------------------------------------
(* schedule(), phase 1: the decode batch. *)

LimitReached ==
    Len(decode_seqs) >= MaxNumSeqs \/ Len(decode_seqs) >= MaxNumBatchedTokens

Blocked(s) == ~CanAppend(NumTokens(s))

StartSchedule ==
    /\ decode_list' = running /\ decode_seqs' = <<>>
    /\ preempted' = 0 /\ tried' = FALSE
    /\ Goto("decode")

(* A sequence that can append joins the batch and leaves running; one that *)
(* is no longer in running (preempted for an earlier one) is a KeyError.   *)
ScheduleDecode ==
    /\ pc = "decode" /\ decode_list # <<>> /\ ~LimitReached
    /\ LET s == Head(decode_list)
       IN  /\ ~Blocked(s)
           /\ seq' = [seq EXCEPT ![s].num_scheduled_tokens = 1, ![s].is_prefill = FALSE]
           /\ MayAppend(s, NumTokens(s))
           /\ IF Contains(running, s)
              THEN /\ running' = Without(running, s)
                   /\ decode_seqs' = Append(decode_seqs, s)
                   /\ decode_list' = Tail(decode_list)
                   /\ tried' = FALSE
                   /\ UNCHANGED <<pc, exception>>
              ELSE /\ Raise("KeyError")
                   /\ UNCHANGED <<running, decode_seqs, decode_list, tried>>
    /\ UNCHANGED <<token_ids, cacheVars, runnerVars, batchVars, ooms, waiting, preempted>>

SchedulePreempt ==
    /\ pc = "decode" /\ decode_list # <<>> /\ ~LimitReached
    /\ Blocked(Head(decode_list)) /\ preempted < MaxPreemptCount /\ ~tried
    /\ TryPreempt(Head(decode_list))
    /\ preempted' = preempted + 1
    /\ tried' = TRUE
    /\ UNCHANGED <<batchVars, ooms, decode_list, decode_seqs, pc, exception>>

EndDecode ==
    /\ pc = "decode"
    /\ \/ decode_list = <<>>
       \/ LimitReached
       \/ /\ decode_list # <<>> /\ Blocked(Head(decode_list))
          /\ preempted >= MaxPreemptCount \/ tried
    /\ Goto("admit")
    /\ UNCHANGED <<poolVars, seqVars, cacheVars, runnerVars, batchVars, ooms,
                   queueVars, loopVars>>

-----------------------------------------------------------------------------
(* schedule(), phase 2: one chunk of the first waiting sequence. *)

(* Mutant: the decode sequences are not charged to the budget. *)
FullBudget == MaxNumBatchedTokens

Budget == MaxNumBatchedTokens - Len(decode_seqs)

MayPrefill == waiting # <<>> /\ Budget > 0 /\ Len(decode_seqs) < MaxNumSeqs

(* Mutant: the other end of the deque. *)
LastWaiting == Last(waiting)

Candidate == Head(waiting)

Fresher == MayPrefill /\ block_table[Candidate] = <<>>

(* _allocate_blocks_for_new_seq(): a cached prefix is used when the rest   *)
(* of the blocks is free and its recurrent state was saved.                *)
PrefixUsable(s) ==
    LET chain == LongestPrefix(token_ids[s])
    IN  /\ EnablePrefixCaching
        /\ chain # <<>>
        /\ NumFree >= BlocksFor(NumTokens(s)) - Len(chain)
        /\ HasState(chain)

AdmitShared ==
    /\ pc = "admit" /\ Fresher /\ PrefixUsable(Candidate)
    /\ LET s == Candidate
           chain == LongestPrefix(token_ids[s])
       IN  /\ ShareAndExtend(s, chain, NumTokens(s))
           /\ seq' = [seq EXCEPT ![s].num_cached_tokens = MatchedTokens(token_ids[s]),
                                 ![s].prefix_restore_blocks = chain]
    /\ UNCHANGED <<token_ids, cacheVars, runnerVars, batchVars, ooms, queueVars,
                   loopVars, pc, exception>>

AdmitFresh ==
    /\ pc = "admit" /\ Fresher /\ ~PrefixUsable(Candidate)
    /\ Allocate(Candidate, NumTokens(Candidate))
    /\ seq' = [seq EXCEPT ![Candidate].num_cached_tokens = 0]
    /\ UNCHANGED <<token_ids, cacheVars, runnerVars, batchVars, ooms, queueVars,
                   loopVars, pc, exception>>

(* The chunk of the candidate, 0 when there is none to run: no candidate,  *)
(* no memory for it, or nothing left to prefill.                           *)
Remaining(s) == NumTokens(s) - seq[s].num_cached_tokens
Deferred == Fresher /\ ~PrefixUsable(Candidate) /\ ~CanAllocate(NumTokens(Candidate))
NoChunk ==
    \/ ~MayPrefill
    \/ Deferred
    \/ MayPrefill /\ block_table[Candidate] # <<>> /\ Remaining(Candidate) <= 0

Chunk(s) == Min({Remaining(s), Budget, MaxPrefillChunkTokens})

(* The end of schedule() with the prefill sequences given: the decode      *)
(* sequences return to running, behind a sequence that just finished its   *)
(* prefill.                                                                *)
ScheduleChunk ==
    /\ pc = "admit" /\ MayPrefill /\ block_table[Candidate] # <<>>
    /\ Remaining(Candidate) > 0
    /\ LET s == Candidate
           last == seq[s].num_cached_tokens + Chunk(s) >= NumTokens(s)
       IN  /\ seq' = [seq EXCEPT ![s].num_scheduled_tokens = Chunk(s),
                                 ![s].status = IF last THEN "RUNNING" ELSE @]
           /\ waiting' = IF last THEN Tail(waiting) ELSE waiting
           /\ running' = (IF last THEN Append(running, s) ELSE running) \o decode_seqs
    /\ UNCHANGED <<poolVars, token_ids, cacheVars, ooms>>

(* Mutant: the decode sequences are not put back. *)
ForgetDecoding ==
    /\ pc = "admit" /\ NoChunk
    /\ UNCHANGED <<poolVars, seqVars, cacheVars, ooms, queueVars>>

ScheduleNoChunk ==
    /\ pc = "admit" /\ NoChunk
    /\ running' = running \o decode_seqs
    /\ UNCHANGED <<poolVars, seqVars, cacheVars, ooms, waiting>>

-----------------------------------------------------------------------------
(* postprocess(), per sequence of the batch: the counters and the prefix   *)
(* cache, lines 239-253, then the sampled token, lines 255-292.            *)

(* Mutant: a snapshot is saved in the middle of a block too. *)
SavesAnywhere(s, cached) == EnablePrefixCaching /\ seq[s].is_prefill /\ cached > 0

Saves(s, cached) ==
    /\ EnablePrefixCaching /\ seq[s].is_prefill
    /\ cached > 0 /\ cached % BlockSize = 0

RecordProgress(s) ==
    LET cached == seq[s].num_cached_tokens + seq[s].num_scheduled_tokens
    IN  /\ seq' = [seq EXCEPT ![s].num_cached_tokens = cached,
                              ![s].num_scheduled_tokens = 0]
        /\ IF Saves(s, cached)
           THEN /\ AddPrefix(token_ids[s], block_table[s])
                /\ SaveState(s, SubSeq(block_table[s], 1,
                                       Min({cached \div BlockSize, Len(block_table[s])})))
           ELSE UNCHANGED <<cacheVars, prefix_state_cache>>

(* A prefill that has not reached the last token yields no token. *)
StillPrefilling(s) == batch_is_prefill /\ seq[s].num_cached_tokens < NumTokens(s)

Finish(s) ==
    /\ seq' = [seq EXCEPT ![s].status = "FINISHED"]
    /\ ReleaseBlocks(s)
    /\ running' = Without(running, s)

(* The token is appended; max_tokens, an end-of-sequence token, a complete *)
(* constraint or a stop string ends the sequence (all but the first are    *)
(* the choice of `ends`).                                                  *)
AppendToken(s) ==
    \E token \in Vocab, ends \in BOOLEAN :
        /\ token_ids' = [token_ids EXCEPT ![s] = Append(@, token)]
        /\ IF ends \/ NumCompletion(s) + 1 >= MaxTokens[s]
           THEN Finish(s)
           ELSE UNCHANGED <<seq, poolVars, cacheVars, prefix_state_cache, running>>

-----------------------------------------------------------------------------
(* advance_decode(), per sequence: a slot for its next token, preempting   *)
(* once when the pool is empty and appending all the same.                 *)
AdvancePreempt(s) ==
    /\ Blocked(s) /\ ~tried
    /\ TryPreempt(s)
    /\ tried' = TRUE

AdvanceAppend(s) ==
    /\ ~Blocked(s)
    /\ seq' = [seq EXCEPT ![s].num_scheduled_tokens = 1, ![s].is_prefill = FALSE]
    /\ MayAppend(s, NumTokens(s))
    /\ tried' = FALSE

(* Preemption freed no block (all of them shared): pop from an empty list. *)
AdvanceFails(s) == Blocked(s) /\ tried

=============================================================================
