----------------------------- MODULE LLMEngine ------------------------------
(***************************************************************************)
(* The engine (engine/llm_engine.py): generate() adds its prompts and      *)
(* calls step() until the scheduler is finished; step() schedules, runs    *)
(* one or two sub-batches (or several decode sub-steps on one batch) and   *)
(* post-processes them.                                                    *)
(***************************************************************************)
EXTENDS Scheduler

CONSTANTS
    NumSchedulerSteps,   \* config.num_scheduler_steps
    ServeAfterError      \* the caller goes on after a call that ended early

ASSUME EngineAssumption ==
    /\ NumSchedulerSteps \in Nat \ {0}
    /\ ServeAfterError \in BOOLEAN

VARIABLES
    call,       \* seqs of the current generate() call
    all_seqs,   \* _all_seqs: sequences tracked and not yet finalized
    submitted,  \* history: every sequence ever added
    later,      \* the decode sub-batch that follows a prefill sub-batch
    substeps,   \* multi-step decode: sub-steps left, 0 in a plain step
    todo        \* sequences of the batch not yet post-processed or advanced

requestVars == <<call, all_seqs, submitted>>
stepVars == <<later, substeps, todo>>

vars == <<poolVars, seqVars, cacheVars, runnerVars, batchVars, ooms, queueVars,
          loopVars, pc, exception, requestVars, stepVars>>

EngineInit ==
    /\ PoolInit /\ SequenceInit /\ CacheInit /\ RunnerInit /\ SchedulerInit
    /\ call = {} /\ all_seqs = {} /\ submitted = {}
    /\ later = <<>> /\ substeps = 0 /\ todo = <<>>

Finished(s) == seq[s].status = "FINISHED"

(* The local variables of schedule() and of step() end with the call. *)
ResetLoop ==
    decode_list' = <<>> /\ decode_seqs' = <<>> /\ preempted' = 0 /\ tried' = FALSE
NoBatch == batch' = <<>> /\ batch_is_prefill' = FALSE /\ retries' = 0

-----------------------------------------------------------------------------
(* generate(): the prompts are added together, and the call returns when   *)
(* the scheduler has nothing left.                                         *)

Generate ==
    /\ pc = "idle" /\ call = {}
    /\ \E new \in (SUBSET (Seqs \ submitted)) \ {{}} :
         \E prompts \in SetToSeqs(new) :
            /\ waiting' = waiting \o prompts
            /\ call' = new
            /\ all_seqs' = all_seqs \cup new
            /\ submitted' = submitted \cup new
    /\ UNCHANGED <<poolVars, seqVars, cacheVars, runnerVars, batchVars, ooms, running,
                   loopVars, pc, exception, stepVars>>

(* add_request() rejects a prompt: generate() raises before its try block, *)
(* and the prompts that came first stay queued though nobody waits.        *)
GenerateRejected ==
    /\ pc = "idle" /\ call = {} /\ ServeAfterError
    /\ \E s \in Seqs \ submitted :
          /\ waiting' = Append(waiting, s)
          /\ all_seqs' = all_seqs \cup {s}
          /\ submitted' = submitted \cup {s}
    /\ UNCHANGED <<poolVars, seqVars, cacheVars, runnerVars, batchVars, ooms, running,
                   loopVars, pc, exception, call, stepVars>>

(* _cleanup_seqs(): slots of the call's sequences that are still tracked.  *)
Cleanup ==
    /\ FreeSlots(SetToSeq(call \cap all_seqs))
    /\ all_seqs' = all_seqs \ call
    /\ call' = {}
    /\ UNCHANGED submitted

Return ==
    /\ pc = "idle" /\ call # {} /\ is_finished
    /\ Cleanup
    /\ UNCHANGED <<poolVars, seqVars, cacheVars, kv_cache, prefix_state_cache,
                   oom_preempted, batchVars, ooms, queueVars, loopVars, pc, exception,
                   stepVars>>

(* The reader of generate_stream() goes away between two steps, or line    *)
(* 329 raises for a sequence of an earlier call: the call cleans up, the   *)
(* scheduler keeps what it held.                                           *)
Abandon ==
    /\ pc = "idle" /\ call # {} /\ ServeAfterError
    /\ Cleanup
    /\ UNCHANGED <<poolVars, seqVars, cacheVars, kv_cache, prefix_state_cache,
                   oom_preempted, batchVars, ooms, queueVars, loopVars, pc, exception,
                   stepVars>>

(* An exception leaves the call, which cleans up; the scheduler keeps what *)
(* it held.  A caller such as the HTTP handler reports the error and goes  *)
(* on to the next request.                                                 *)
Recover ==
    /\ pc = "raised" /\ ServeAfterError
    /\ Cleanup
    /\ Goto("idle")
    /\ ResetLoop
    /\ NoBatch
    /\ later' = <<>> /\ substeps' = 0 /\ todo' = <<>>
    /\ UNCHANGED <<poolVars, seqVars, cacheVars, kv_cache, prefix_state_cache,
                   oom_preempted, ooms, queueVars>>

-----------------------------------------------------------------------------
(* step(). *)

BeginStep ==
    /\ pc = "idle" /\ call # {} /\ ~is_finished
    /\ StartSchedule
    /\ UNCHANGED <<poolVars, seqVars, cacheVars, runnerVars, batchVars, ooms, queueVars,
                   requestVars, stepVars>>

(* The batches of a step.  A batch that mixes a prefill sequence with      *)
(* decode sequences is run as two; a pure decode batch may be run several  *)
(* times.                                                                  *)
StartBatch(seqs, is_prefill) ==
    /\ batch' = seqs /\ batch_is_prefill' = is_prefill /\ retries' = 0
    /\ Goto("prepare")

Dispatch(prefill) ==
    LET scheduled == prefill \o decode_seqs
        prefilling == Only(scheduled, {s \in Seqs : seq'[s].is_prefill})
        decoding == Only(scheduled, {s \in Seqs : ~seq'[s].is_prefill})
        mixed == decode_seqs # <<>> /\ prefilling # <<>>
        multi == decode_seqs # <<>> /\ prefilling = <<>> /\ NumSchedulerSteps > 1
    IN  IF scheduled = <<>>
        THEN /\ Goto("idle")
             /\ UNCHANGED <<batchVars, later, substeps, oom_preempted>>
        ELSE /\ IF mixed THEN StartBatch(prefilling, TRUE)
                ELSE StartBatch(scheduled, decode_seqs = <<>>)
             /\ later' = IF mixed THEN decoding ELSE <<>>
             /\ substeps' = IF multi THEN NumSchedulerSteps ELSE 0
             /\ oom_preempted' = <<>>

EndSchedule ==
    /\ \/ ScheduleChunk /\ Dispatch(<<Candidate>>)
       \/ ScheduleNoChunk /\ Dispatch(<<>>)
    /\ ResetLoop
    /\ UNCHANGED <<free_deltanet_slots, seq_to_slot, deltanet_pool, prefill_gather_cache,
                   kv_cache, prefix_state_cache, requestVars, todo>>

Schedule ==
    \/ /\ \/ ScheduleDecode
          \/ SchedulePreempt
          \/ EndDecode
          \/ AdmitShared
          \/ AdmitFresh
       /\ UNCHANGED <<requestVars, stepVars>>
    \/ EndSchedule

-----------------------------------------------------------------------------
(* model_runner.run() on the current batch. *)

Prepare ==
    /\ pc = "prepare"
    /\ IF SlotsSuffice
       THEN PrepareStates /\ Goto("forward")
       ELSE /\ Raise("AssertionError")
            /\ UNCHANGED <<seq, free_deltanet_slots, seq_to_slot, deltanet_pool,
                           prefix_state_cache>>
    /\ UNCHANGED <<poolVars, token_ids, cacheVars, prefill_gather_cache, kv_cache,
                   oom_preempted, batchVars, ooms, queueVars, loopVars, requestVars, stepVars>>

Forward ==
    /\ pc = "forward"
    /\ \/ ForwardPass /\ Goto("requeue")
       \/ RejectedPass /\ Raise(IF TablesCover THEN "ValueError" ELSE "IndexError")
    /\ prefill_gather_cache' = Gathered
    /\ UNCHANGED <<poolVars, seqVars, cacheVars, free_deltanet_slots, seq_to_slot,
                   prefix_state_cache, oom_preempted, batchVars, ooms, queueVars,
                   loopVars, requestVars, stepVars>>

Retry ==
    /\ pc = "forward" /\ OutOfMemory /\ Goto("prepare")
    /\ UNCHANGED <<poolVars, seqVars, cacheVars, queueVars, loopVars, requestVars,
                   stepVars>>

GiveUp ==
    /\ pc = "forward" /\ retries = MaxRetries /\ ooms < MaxOOMs
    /\ ooms' = ooms + 1
    /\ InputsFit
    /\ deltanet_pool' \in StatesAfterError
    /\ prefill_gather_cache' = Gathered
    /\ Raise("RuntimeError")
    /\ UNCHANGED <<poolVars, seqVars, cacheVars, free_deltanet_slots, seq_to_slot, kv_cache,
                   prefix_state_cache, oom_preempted, batchVars, queueVars, loopVars,
                   requestVars, stepVars>>

(* _handle_preempted(), one dropped sequence per step. *)
Requeue ==
    /\ pc = "requeue" /\ oom_preempted # <<>>
    /\ LET s == Head(oom_preempted)
       IN  /\ seq' = [seq EXCEPT ![s] = Recomputed(@)]
           /\ ReleaseBlocks(s)
           /\ waiting' = <<s>> \o waiting
           /\ running' = Without(running, s)
           /\ oom_preempted' = Tail(oom_preempted)
    /\ UNCHANGED <<token_ids, free_deltanet_slots, seq_to_slot, deltanet_pool,
                   prefill_gather_cache, kv_cache, batchVars, ooms, loopVars, pc, exception,
                   requestVars, stepVars>>

EndRequeue ==
    /\ pc = "requeue" /\ oom_preempted = <<>>
    /\ todo' = batch
    /\ Goto("record")
    /\ UNCHANGED <<poolVars, seqVars, cacheVars, runnerVars, batchVars, ooms, queueVars,
                   loopVars, requestVars, later, substeps>>

-----------------------------------------------------------------------------
(* postprocess() and _finalize_finished(). *)

Record ==
    /\ pc = "record" /\ todo # <<>>
    /\ RecordProgress(Head(todo))
    /\ Goto("sample")
    /\ UNCHANGED <<poolVars, token_ids, free_deltanet_slots, seq_to_slot, deltanet_pool,
                   prefill_gather_cache, kv_cache, oom_preempted, batchVars, ooms, queueVars, loopVars,
                   requestVars, stepVars>>

Sample ==
    /\ pc = "sample"
    /\ IF StillPrefilling(Head(todo))
       THEN UNCHANGED <<seqVars, poolVars, cacheVars, prefix_state_cache, running>>
       ELSE AppendToken(Head(todo))
    /\ todo' = Tail(todo)
    /\ Goto("record")
    /\ UNCHANGED <<free_deltanet_slots, seq_to_slot, deltanet_pool, prefill_gather_cache,
                   kv_cache, oom_preempted, batchVars, ooms, waiting, loopVars, requestVars, later,
                   substeps>>

(* Mutant: finished sequences stay in the batch of a multi-step decode. *)
WholeBatch == batch

Survivors == Only(batch, {s \in Seqs : ~Finished(s)})

(* The batch is done: slots of its finished sequences are freed.  Then the *)
(* decode sub-batch of a mixed step, the next sub-step, or the next step.  *)
Finalize ==
    /\ pc = "record" /\ todo = <<>>
    /\ FreeSlots(Only(batch, {s \in Seqs : Finished(s)}))
    /\ all_seqs' = all_seqs \ {s \in Range(batch) : Finished(s)}
    /\ IF substeps > 0 /\ Survivors # <<>>
       THEN /\ batch' = Survivors /\ todo' = Survivors
            /\ Goto("advance")
            /\ UNCHANGED <<batch_is_prefill, retries, later, substeps>>
       ELSE IF later # <<>>
       THEN /\ StartBatch(later, FALSE)
            /\ later' = <<>>
            /\ UNCHANGED <<substeps, todo>>
       ELSE /\ NoBatch
            /\ substeps' = 0
            /\ Goto("idle")
            /\ UNCHANGED <<later, todo>>
    /\ UNCHANGED <<poolVars, seqVars, cacheVars, kv_cache, prefix_state_cache,
                   oom_preempted, ooms, queueVars, loopVars, call, submitted>>

-----------------------------------------------------------------------------
(* _multi_step_decode(): advance_decode() after every sub-step, the last   *)
(* one included.                                                           *)

Advance ==
    /\ pc = "advance" /\ todo # <<>>
    /\ \/ /\ AdvancePreempt(Head(todo))
          /\ UNCHANGED <<todo, pc, exception>>
       \/ /\ AdvanceAppend(Head(todo))
          /\ todo' = Tail(todo)
          /\ UNCHANGED <<token_ids, cacheVars, runnerVars, queueVars, pc, exception>>
       \/ /\ AdvanceFails(Head(todo))
          /\ Raise("IndexError")
          /\ UNCHANGED <<poolVars, seqVars, cacheVars, runnerVars, queueVars, tried, todo>>
    /\ UNCHANGED <<batchVars, ooms, decode_list, decode_seqs, preempted, requestVars, later,
                   substeps>>

EndAdvance ==
    /\ pc = "advance" /\ todo = <<>>
    /\ substeps' = substeps - 1
    /\ IF substeps > 1 THEN StartBatch(batch, FALSE)
       ELSE NoBatch /\ Goto("idle")
    /\ UNCHANGED <<poolVars, seqVars, cacheVars, runnerVars, ooms, queueVars, loopVars,
                   requestVars, later, todo>>

-----------------------------------------------------------------------------
(* Nothing left to ask, or an exception nobody caught. *)
Stopped ==
    /\ \/ pc = "idle" /\ call = {} /\ submitted = Seqs
       \/ pc = "raised" /\ ~ServeAfterError
    /\ UNCHANGED vars

EngineStep ==
    \/ BeginStep \/ Schedule \/ Prepare \/ Forward \/ Retry \/ GiveUp
    \/ Requeue \/ EndRequeue \/ Record \/ Sample \/ Finalize \/ Advance \/ EndAdvance
    \/ Return \/ Recover

EngineNext == Generate \/ GenerateRejected \/ Abandon \/ EngineStep \/ Stopped

EngineSpec == EngineInit /\ [][EngineNext]_vars

=============================================================================
