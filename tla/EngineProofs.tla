---------------------------- MODULE EngineProofs ----------------------------
(***************************************************************************)
(* Proofs about what the passes of the engine read, for any requests,      *)
(* sizes and memory: the slot mappings of a pass fit, and it reads the     *)
(* very tokens that come before it, through preemption, chunks, retries    *)
(* and shared prefixes.                                                    *)
(***************************************************************************)
EXTENDS SchedulerProofs

-----------------------------------------------------------------------------
(* What a pass reads.  The tokens a sequence has read are those its blocks *)
(* and its recurrent state hold; a pass continues from the first unread    *)
(* one, and what it adds is counted by postprocess().                      *)

Cached(s) == seq[s].num_cached_tokens
Scheduled(s) == seq[s].num_scheduled_tokens

(* The pass over s is done and not counted yet; s is or was in a pass.     *)
Passed(s) ==
    \/ pc = "requeue" /\ s \in Range(batch)
    \/ pc = "record" /\ s \in Range(todo)
    \/ pc = "sample" /\ s \in Range(Tail(todo))
Started(s) == Passed(s) \/ (pc = "forward" /\ s \in Range(batch))
InPass(s) == Started(s) \/ (pc = "prepare" /\ s \in Range(batch))
InPrefill(s) == InPass(s) /\ batch_is_prefill
Retrying(s) == Prefilling /\ s \in Range(batch)
Sampled(s) == pc = "sample" /\ s = Head(todo)
Dropped(s) == pc \in Running /\ s \in Range(oom_preempted)

Progress(s) == IF Passed(s) THEN Cached(s) + Scheduled(s) ELSE Cached(s)

(* Tokens that s reads before its next one is sampled. *)
Pending(s) == IF Sampled(s) THEN 0 ELSE IF InPrefill(s) THEN Scheduled(s) ELSE 1

(* s is in a decode pass, this one or one that is already arranged.        *)
Picked(s) ==
    \/ s \in Range(decode_seqs)
    \/ InPass(s) /\ ~batch_is_prefill
    \/ pc \in Running \cup Processing /\ s \in Range(later)
    \/ pc = "advance" /\ s \in Range(batch) /\ s \notin Range(todo)

(* A sequence that decodes has read all its tokens but the last, which is  *)
(* the next pass's, or is about to.                                        *)
Due(s) ==
    /\ Cached(s) + Pending(s) = NumTokens(s)
    /\ InPrefill(s) \/ Cached(s) > 0

(* A mapping kept for a chunk is of one already read, or of the chunk that *)
(* is tried again.                                                         *)
Mapping(s, e) ==
    /\ e.start \in Nat
    /\ \/ e.start < Progress(s)
       \/ Retrying(s) /\ e.start = Cached(s) /\ e.tokens = Scheduled(s)

Paced(s) ==
    /\ s \in Decoders => Due(s)
    /\ Picked(s) => Scheduled(s) = 1
    /\ InPrefill(s) => Scheduled(s) > 0 /\ block_table[s] # <<>>
    /\ block_table[s] = <<>> => Finished(s) \/ Cached(s) = 0
    /\ \A e \in prefill_gather_cache[s] : Mapping(s, e)
    /\ Dropped(s) => prefill_gather_cache[s] = {}

PaceInv == pc # "raised" => \A s \in Seqs : Paced(s)

(* A step that leaves t alone, and where t is in the work of the step.     *)
SamePace(t) ==
    /\ seq'[t].num_cached_tokens = seq[t].num_cached_tokens
    /\ seq'[t].num_scheduled_tokens = seq[t].num_scheduled_tokens
    /\ token_ids'[t] = token_ids[t] /\ block_table'[t] = block_table[t]
    /\ prefill_gather_cache'[t] \subseteq prefill_gather_cache[t]
    /\ Finished(t) => Finished(t)'
    /\ t \in Decoders' => t \in Decoders
    /\ Passed(t)' <=> Passed(t)
    /\ InPrefill(t)' <=> InPrefill(t)
    /\ Sampled(t)' <=> Sampled(t)
    /\ Picked(t)' => Picked(t)
    /\ Retrying(t) => Retrying(t)'
    /\ Dropped(t)' => Dropped(t)

(* A sequence that the step leaves alone keeps pace.                       *)
LEMMA SteadyPaced ==
    ASSUME NEW t \in Seqs, Paced(t), SamePace(t)
    PROVE  Paced(t)'
  <1>1. Progress(t)' = Progress(t)
    BY DEF Progress, Cached, Scheduled, SamePace
  <1>2. t \in Decoders' => Due(t)'
    <2>1. Pending(t)' = Pending(t) /\ (InPrefill(t)' <=> InPrefill(t))
      BY DEF Pending, Scheduled, SamePace
    <2> QED
      BY <2>1 DEF Paced, Due, Cached, NumTokens, SamePace
  <1>3. Picked(t)' => Scheduled(t)' = 1
    BY DEF Paced, Scheduled, SamePace
  <1>4. ASSUME NEW e \in prefill_gather_cache'[t] PROVE Mapping(t, e)'
    <2>1. Mapping(t, e)
      BY <1>4 DEF Paced, SamePace
    <2> QED
      BY <1>1, <2>1 DEF Mapping, Cached, Scheduled, SamePace
  <1>5. Dropped(t)' => prefill_gather_cache'[t] = {}
    BY DEF Paced, SamePace
  <1>6. block_table'[t] = <<>> => Finished(t)' \/ Cached(t)' = 0
    BY DEF Paced, Cached, SamePace
  <1>7. InPrefill(t)' => Scheduled(t)' > 0 /\ block_table'[t] # <<>>
    BY DEF Paced, Scheduled, SamePace
  <1> QED
    BY <1>2, <1>3, <1>4, <1>5, <1>6, <1>7 DEF Paced

(* A step of the engine that nothing has stopped. *)
Pacing == Filling /\ PaceInv /\ pc # "raised" /\ pc' # "raised" /\ ~ServeAfterError

LEMMA PacingFacts ==
    ASSUME Pacing
    PROVE  /\ Filling /\ \A s \in Seqs : Paced(s)
           /\ QueueTypes /\ SeqTypes /\ QueuesApart /\ LoopInv /\ BatchInv /\ ChunkInv
           /\ SlotsApart /\ SlotHolders
           /\ PoolInv /\ TokensWithin /\ KeysLive /\ NoneHeld
           /\ block_table \in [Seqs -> Seq(Blocks)]
           /\ Range(waiting) \subseteq Seqs /\ Range(running) \subseteq Seqs
           /\ Range(decode_seqs) \subseteq Seqs /\ Range(batch) \subseteq Seqs
           /\ Range(oom_preempted) \subseteq Seqs /\ Unfinished \subseteq Seqs
  <1>1. QueueTypes /\ QueuesApart
    BY SteppingFacts DEF Pacing, Filling
  <1>2. /\ Range(waiting) \subseteq Seqs /\ Range(running) \subseteq Seqs
        /\ Range(decode_seqs) \subseteq Seqs /\ Range(batch) \subseteq Seqs
        /\ Range(oom_preempted) \subseteq Seqs /\ Unfinished \subseteq Seqs
    BY <1>1, InQueues, BatchMembers
  <1>3. ChunkInv
    BY DEF Pacing, Filling, Stepping, QueueInv
  <1>4. block_table \in [Seqs -> Seq(Blocks)]
    BY DEF Pacing, Filling, MemInv, PoolInv, PoolTypeOK
  <1> QED
    BY <1>1, <1>2, <1>3, <1>4, SteppingFacts DEF Pacing, PaceInv, Filling, MemInv

(* A step is proved for the sequences it is about; the rest keep pace.     *)
LEMMA PaceNext ==
    ASSUME Pacing, NEW moved, \A t \in Seqs : t \in moved \/ SamePace(t),
           \A t \in moved : Paced(t)'
    PROVE  PaceInv'
  BY PacingFacts, SteadyPaced DEF PaceInv

(* A step that is about none of them.                                      *)
LEMMA SteadyNext ==
    ASSUME Pacing, \A t \in Seqs : SamePace(t)
    PROVE  PaceInv'
  <1>1. PICK moved : moved = {}
    OBVIOUS
  <1> QED
    BY <1>1, PaceNext

(* Between calls and steps.                                                *)
LEMMA IdlePace ==
    ASSUME Pacing, Generate \/ BeginStep \/ Return \/ EndDecode,
           EndDecode => UNCHANGED stepVars
    PROVE  \A t \in Seqs : SamePace(t)
  <1>1. /\ UNCHANGED <<seq, token_ids, block_table, running, batch, batch_is_prefill, later,
                       todo, oom_preempted>>
        /\ pc \in {"idle", "decode"} /\ pc' \in {"idle", "decode", "admit"}
        /\ decode_seqs' = decode_seqs \/ decode_seqs' = <<>>
    BY DEF Generate, BeginStep, StartSchedule, Return, EndDecode, Cleanup, Goto, seqVars,
           poolVars, queueVars, loopVars, batchVars, stepVars, runnerVars
  <1>2. \A t \in Seqs : prefill_gather_cache'[t] \subseteq prefill_gather_cache[t]
    BY DEF Generate, BeginStep, Return, EndDecode, Cleanup, FreeSlots, ForgetGathered,
           runnerVars
  <1>3. Decoders' \subseteq Decoders /\ Range(decode_seqs') \subseteq Range(decode_seqs)
    BY <1>1, EmptyList DEF Decoders
  <1> QED
    BY <1>1, <1>2, <1>3
       DEF SamePace, Finished, Passed, InPrefill, InPass, Started, Sampled, Picked, Retrying,
           Prefilling, Dropped, Running, Processing

(* A step without a prefill goes on to the decode sequences alone.         *)
LEMMA NoChunkPace ==
    ASSUME Pacing, EndSchedule, ScheduleNoChunk /\ Dispatch(<<>>)
    PROVE  \A t \in Seqs : SamePace(t)
  <1>1. /\ pc = "admit" /\ decode_seqs' = <<>>
        /\ UNCHANGED <<seq, block_table, token_ids, prefill_gather_cache>>
    BY DEF EndSchedule, ScheduleNoChunk, ResetLoop, seqVars, poolVars
  <1>2. PICK run, dec : run = running /\ dec = decode_seqs
    OBVIOUS
  <1>3. /\ run \in Seq(Seqs) /\ dec \in Seq(Seqs) /\ IsInjective(dec)
        /\ running' = run \o dec
    BY <1>2, PacingFacts DEF QueueTypes, QueuesApart, ScheduleNoChunk
  <1>4. Decoders' = Decoders
    <2>1. Range(run \o dec) = Range(run) \cup Range(dec)
      BY <1>3, RangeOfConcat
    <2> QED
      BY <1>1, <1>2, <1>3, <2>1, EmptyList DEF Decoders
  <1>5. PICK none : none = <<>>
    OBVIOUS
  <1>6. /\ pc' = "idle" \/ pc' = "prepare"
        /\ pc' = "prepare" => /\ oom_preempted' = <<>> /\ (~batch_is_prefill' \/ Range(batch') = {})
                              /\ Range(batch') \subseteq Range(decode_seqs)
                              /\ Range(later') \subseteq Range(decode_seqs)
    <2>1. Range(none) = {} /\ Dispatch(none) /\ QueueTypes
      BY <1>5, EmptyList, PacingFacts, Zenon
    <2>2. \A t \in Range(decode_seqs) : ~seq'[t].is_prefill
      BY <1>1, PacingFacts DEF LoopInv
    <2> QED
      BY <1>2, <1>3, <1>5, <2>1, <2>2, DispatchBatch
  <1>7. Range(decode_seqs') = {}
    BY <1>1, EmptyList
  <1> QED
    BY <1>1, <1>4, <1>6, <1>7
       DEF SamePace, Finished, Passed, InPrefill, InPass, Started, Sampled, Picked, Retrying,
           Prefilling, Dropped, Running, Processing

(* may_append() adds at most one block, to this table.                     *)
LEMMA GrownTable ==
    ASSUME block_table \in [Seqs -> Seq(Blocks)], PoolInv, NEW s \in Seqs,
           NEW n, MayAppend(s, n)
    PROVE  /\ \E more \in Seq(Blocks) : block_table'[s] = block_table[s] \o more
           /\ \A t \in Seqs : t # s => block_table'[t] = block_table[t]
           /\ block_table'[s] = <<>> => block_table[s] = <<>>
  <1>1. PICK q, p : q = block_table[s] /\ p = Popped(1)
    OBVIOUS
  <1>2. q \in Seq(Blocks)
    BY <1>1
  <1>3. /\ \E more \in Seq(Blocks) : block_table'[s] = q \o more
        /\ \A t \in Seqs : t # s => block_table'[t] = block_table[t]
    <2>1. CASE TakeBlocks(s, <<>>, 1)
      <3>1. p \in Seq(Blocks)
        BY <1>1, <2>1, PopSplits DEF TakeBlocks, PoolInv, PoolTypeOK
      <3>2. /\ block_table'[s] = (q \o <<>>) \o p
            /\ \A t \in Seqs : t # s => block_table'[t] = block_table[t]
        BY <1>1, <2>1 DEF TakeBlocks
      <3>3. q \o <<>> = q
        BY <1>2
      <3> QED
        BY <3>1, <3>2, <3>3
    <2>2. CASE UNCHANGED poolVars
      <3>1. q \o <<>> = q /\ <<>> \in Seq(Blocks)
        BY <1>2
      <3> QED
        BY <1>1, <2>2, <3>1 DEF poolVars
    <2> QED
      BY <2>1, <2>2 DEF MayAppend
  <1>4. PICK more \in Seq(Blocks) : block_table'[s] = q \o more
    BY <1>3
  <1>5. q \o more = <<>> => q = <<>>
    BY <1>2
  <1> QED
    BY <1>1, <1>3, <1>4, <1>5

(* A sequence takes its place in the next decode pass. *)
LEMMA NextPassPace ==
    ASSUME Pacing, NEW s \in Decoders, pc \in {"decode", "advance"}, UNCHANGED pc,
           seq' = [seq EXCEPT ![s].num_scheduled_tokens = 1, ![s].is_prefill = FALSE],
           MayAppend(s, NumTokens(s)),
           UNCHANGED <<token_ids, prefill_gather_cache>>, Decoders' = Decoders,
           \A t \in Seqs : t # s /\ Picked(t)' => Picked(t)
    PROVE  (\A t \in Seqs : t = s \/ SamePace(t)) /\ PaceInv'
  <1>1. s \in Seqs /\ Paced(s) /\ SeqTypes
    BY PacingFacts DEF Decoders
  <1>2. /\ \A t \in Seqs : t # s => seq'[t] = seq[t]
        /\ seq'[s].num_scheduled_tokens = 1
        /\ seq'[s].num_cached_tokens = seq[s].num_cached_tokens
    BY <1>1, DecodingSeq
  <1>3. /\ \A t \in Seqs : t # s => block_table'[t] = block_table[t]
        /\ block_table'[s] = <<>> => block_table[s] = <<>>
    BY <1>1, PacingFacts, GrownTable
  <1>4. \A t : /\ ~Passed(t) /\ ~InPrefill(t) /\ ~Sampled(t) /\ ~Retrying(t) /\ ~Dropped(t)
               /\ ~Passed(t)' /\ ~InPrefill(t)' /\ ~Sampled(t)' /\ ~Dropped(t)'
    BY DEF Passed, Started, InPass, InPrefill, Sampled, Retrying, Prefilling, Dropped, Running
  <1>5. \A t \in Seqs : t = s \/ SamePace(t)
    BY <1>2, <1>3, <1>4 DEF SamePace, Finished
  <1>6. Paced(s)'
    <2>1. Due(s) /\ Cached(s) > 0 /\ Cached(s) + 1 = NumTokens(s)
      BY <1>1, <1>4 DEF Paced, Due, Pending
    <2>2. Due(s)'
      BY <1>2, <1>4, <2>1 DEF Due, Pending, Cached, NumTokens
    <2>3. block_table[s] # <<>>
      <3>1. ~Finished(s)
        BY PacingFacts, InQueues DEF Decoders, Unfinished
      <3>2. Cached(s) # 0
        BY <2>1
      <3> QED
        BY <1>1, <3>1, <3>2 DEF Paced
    <2>4. \A e \in prefill_gather_cache'[s] : Mapping(s, e)'
      BY <1>1, <1>2, <1>4 DEF Paced, Mapping, Progress, Cached
    <2> QED
      BY <1>2, <1>3, <1>4, <2>2, <2>3, <2>4 DEF Paced, Scheduled
  <1>7. PICK moved : moved = {s}
    OBVIOUS
  <1> QED
    BY <1>5, <1>6, <1>7, PaceNext

(* ... in schedule(),                                                      *)
LEMMA ScheduleDecodePace ==
    ASSUME Pacing, ScheduleDecode, UNCHANGED stepVars, NEW s, s = Head(decode_list)
    PROVE  (\A t \in Seqs : t = s \/ SamePace(t)) /\ PaceInv'
  <1>1. /\ pc = "decode" /\ decode_list # <<>> /\ MayAppend(s, NumTokens(s))
        /\ seq' = [seq EXCEPT ![s].num_scheduled_tokens = 1, ![s].is_prefill = FALSE]
        /\ UNCHANGED <<token_ids, prefill_gather_cache>>
        /\ Contains(running, s) /\ UNCHANGED pc
        /\ running' = Without(running, s) /\ decode_seqs' = Append(decode_seqs, s)
    BY DEF ScheduleDecode, Raise, Pacing, runnerVars
  <1>2. decode_list \in Seq(Seqs) /\ running \in Seq(Seqs) /\ decode_seqs \in Seq(Seqs)
    BY PacingFacts DEF QueueTypes
  <1>3. s \in Seqs
    BY <1>1, <1>2 DEF Range
  <1>4. PICK q, r : q = running /\ r = decode_seqs
    OBVIOUS
  <1>5. s \in Range(running) /\ running' = Without(q, s) /\ decode_seqs' = Append(r, s)
    BY <1>1, <1>4 DEF Contains, Range
  <1>6. Range(running') = Range(running) \ {s}
    BY <1>2, <1>4, <1>5, WithoutKeeps
  <1>7. Range(decode_seqs') = Range(decode_seqs) \cup {s}
    BY <1>2, <1>3, <1>4, <1>5, RangeOfAppend
  <1>8. s \in Decoders /\ Decoders' = Decoders
    BY <1>5, <1>6, <1>7 DEF Decoders
  <1>9. \A t \in Seqs : t # s /\ Picked(t)' => Picked(t)
    BY <1>1, <1>7 DEF Picked, InPass, Started, Passed, Running, Processing
  <1> QED
    BY <1>1, <1>8, <1>9, NextPassPace

(* ... and in advance_decode().                                            *)
LEMMA AdvanceAppendPace ==
    ASSUME Pacing, Advance, NEW s, s = Head(todo), AdvanceAppend(s), todo' = Tail(todo),
           UNCHANGED <<token_ids, runnerVars, queueVars, pc>>
    PROVE  (\A t \in Seqs : t = s \/ SamePace(t)) /\ PaceInv'
  <1>1. /\ pc = "advance" /\ pc \in Processing /\ todo # <<>> /\ MayAppend(s, NumTokens(s))
        /\ seq' = [seq EXCEPT ![s].num_scheduled_tokens = 1, ![s].is_prefill = FALSE]
        /\ UNCHANGED <<token_ids, prefill_gather_cache, running, decode_seqs, batch,
                       batch_is_prefill, later, pc>>
    BY DEF Advance, AdvanceAppend, runnerVars, queueVars, batchVars, Processing
  <1>2. s \in Range(running) /\ Range(todo) = {s} \cup Range(todo')
    <2>1. /\ s \in Range(batch) /\ Range(todo) = {s} \cup Range(todo')
          /\ s \notin Range(waiting) => s \in Range(running)
      BY <1>1, PacingFacts, HeadOfTodo
    <2> QED
      BY <1>1, <2>1 DEF Pacing, Filling, Stepping, Undisturbed, AdvancesRunning
  <1>3. s \in Decoders /\ Decoders' = Decoders
    BY <1>1, <1>2 DEF Decoders
  <1>4. \A t \in Seqs : t # s /\ Picked(t)' => Picked(t)
    BY <1>1, <1>2 DEF Picked, InPass, Started, Passed, Running, Processing
  <1> QED
    BY <1>1, <1>3, <1>4, NextPassPace

(* A sequence that loses its blocks starts again in waiting. *)
LEMMA RestartPace ==
    ASSUME Pacing, NEW v \in Range(running), pc \in {"decode", "advance", "requeue"},
           seq' = [seq EXCEPT ![v] = Recomputed(@)], Deallocate(v),
           UNCHANGED <<pc, token_ids, decode_seqs, batch, batch_is_prefill, later, todo>>,
           Range(running') = Range(running) \ {v}, ~InPrefill(v),
           Range(oom_preempted') \subseteq Range(oom_preempted),
           \A t \in Seqs : prefill_gather_cache'[t] \subseteq prefill_gather_cache[t],
           prefill_gather_cache'[v] = {}
    PROVE  (\A t \in Seqs : t = v \/ SamePace(t)) /\ PaceInv'
  <1>1. v \in Seqs /\ Paced(v) /\ SeqTypes /\ v \notin Range(decode_seqs)
    BY PacingFacts DEF QueuesApart
  <1>2. /\ \A t \in Seqs : t # v => seq'[t] = seq[t]
        /\ seq'[v].num_cached_tokens = 0
        /\ seq'[v].num_scheduled_tokens = seq[v].num_scheduled_tokens
    BY <1>1, PreemptedSeq, RecomputedFields DEF SeqTypes
  <1>3. block_table'[v] = <<>> /\ \A t \in Seqs : t # v => block_table'[t] = block_table[t]
    BY <1>1, PacingFacts DEF Deallocate
  <1>4. v \notin Decoders' /\ Decoders' \subseteq Decoders
    BY <1>1 DEF Decoders
  <1>5. \A t \in Seqs : /\ Passed(t)' <=> Passed(t)
                        /\ InPrefill(t)' <=> InPrefill(t)
                        /\ ~Sampled(t) /\ ~Sampled(t)' /\ ~Retrying(t)
                        /\ Picked(t)' <=> Picked(t)
                        /\ Dropped(t)' => Dropped(t)
    BY DEF Passed, Started, InPass, InPrefill, Sampled, Retrying, Prefilling, Picked, Dropped
  <1>6. \A t \in Seqs : t = v \/ SamePace(t)
    BY <1>2, <1>3, <1>4, <1>5 DEF SamePace, Finished
  <1>7. Paced(v)'
    BY <1>1, <1>2, <1>3, <1>4, <1>5 DEF Paced, Cached, Scheduled
  <1>8. PICK moved : moved = {v}
    OBVIOUS
  <1> QED
    BY <1>6, <1>7, <1>8, PaceNext

(* A preemption takes the sequence that came last to running,              *)
LEMMA PreemptPace ==
    ASSUME Pacing, running # <<>>, NEW s, TryPreempt(s), pc \in {"decode", "advance"},
           UNCHANGED <<pc, decode_seqs, batch, batch_is_prefill, later, todo>>,
           NEW v, v = Last(running)
    PROVE  (\A t \in Seqs : t = v \/ SamePace(t)) /\ PaceInv'
  <1>1. /\ v \in Range(running) /\ v \in Seqs
        /\ Range(Front(running)) = Range(running) \ {v}
    BY PacingFacts, LastOfRunning
  <1>2. /\ seq' = [seq EXCEPT ![v] = Recomputed(@)] /\ Deallocate(v)
        /\ FreeSlots(<<v>>)
        /\ UNCHANGED <<token_ids, oom_preempted>> /\ running' = Front(running)
    BY DEF TryPreempt, PreemptSeq, ReleaseBlocks
  <1>3. /\ \A t \in Seqs : prefill_gather_cache'[t] \subseteq prefill_gather_cache[t]
        /\ prefill_gather_cache'[v] = {}
    <2>1. PICK one : one = <<v>>
      OBVIOUS
    <2>2. v \in Range(one)
      BY <2>1, RangeOfPair
    <2>3. prefill_gather_cache' =
             [t \in Seqs |-> IF t \in Range(one) THEN {} ELSE prefill_gather_cache[t]]
      BY <1>2, <2>1 DEF FreeSlots, ForgetGathered
    <2> QED
      BY <1>1, <2>2, <2>3
  <1>4. ~InPrefill(v)
    BY DEF InPrefill, InPass, Started, Passed
  <1> QED
    BY <1>1, <1>2, <1>3, <1>4, RestartPace

(* ... in schedule(),                                                      *)
LEMMA SchedulePreemptPace ==
    ASSUME Pacing, SchedulePreempt, UNCHANGED stepVars, NEW v, v = Last(running)
    PROVE  running # <<>> /\ (\A t \in Seqs : t = v \/ SamePace(t)) /\ PaceInv'
  <1>1. running # <<>>
    BY EmptyList DEF SchedulePreempt, Pacing, Filling, Stepping, Undisturbed, PreemptsForRunning
  <1>2. /\ TryPreempt(Head(decode_list)) /\ pc \in {"decode", "advance"}
        /\ UNCHANGED <<pc, decode_seqs, batch, batch_is_prefill, later, todo>>
    BY DEF SchedulePreempt, batchVars, stepVars
  <1> QED
    BY <1>1, <1>2, PreemptPace

(* ... and in advance_decode().                                            *)
LEMMA AdvancePreemptPace ==
    ASSUME Pacing, Advance, AdvancePreempt(Head(todo)), UNCHANGED <<todo, pc>>,
           NEW v, v = Last(running)
    PROVE  running # <<>> /\ (\A t \in Seqs : t = v \/ SamePace(t)) /\ PaceInv'
  <1>1. PICK s : s = Head(todo)
    OBVIOUS
  <1>2. /\ pc = "advance" /\ pc \in Processing /\ todo # <<>> /\ TryPreempt(s)
        /\ pc \in {"decode", "advance"}
        /\ UNCHANGED <<pc, decode_seqs, batch, batch_is_prefill, later, todo>>
    BY <1>1 DEF Advance, AdvancePreempt, batchVars, Processing
  <1>3. s \in Range(running)
    <2>1. /\ s \in Range(batch)
          /\ s \notin Range(waiting) => s \in Range(running)
      BY <1>1, <1>2, PacingFacts, HeadOfTodo
    <2> QED
      BY <1>2, <2>1 DEF Pacing, Filling, Stepping, Undisturbed, AdvancesRunning
  <1>4. running # <<>>
    BY <1>3, EmptyList
  <1> QED
    BY <1>2, <1>4, PreemptPace

(* A sequence that was dropped for want of memory starts again too.        *)
LEMMA RequeuePace ==
    ASSUME Pacing, Requeue, NEW s, s = Head(oom_preempted)
    PROVE  (\A t \in Seqs : t = s \/ SamePace(t)) /\ PaceInv'
  <1>1. /\ seq' = [seq EXCEPT ![s] = Recomputed(@)] /\ Deallocate(s)
        /\ running' = Without(running, s) /\ oom_preempted' = Tail(oom_preempted)
        /\ UNCHANGED <<token_ids, decode_seqs, batch, batch_is_prefill, later, todo, pc,
                       prefill_gather_cache>>
        /\ pc = "requeue" /\ oom_preempted # <<>>
    BY DEF Requeue, ReleaseBlocks, loopVars, stepVars, batchVars
  <1>2. /\ Range(oom_preempted) = {s} \cup Range(oom_preempted')
        /\ s \in Range(oom_preempted)
    <2>1. oom_preempted \in Seq(Seqs)
      BY PacingFacts DEF QueueTypes
    <2> QED
      BY <1>1, <2>1, HeadAndTail
  <1>3. s \in Range(running) /\ s \in Seqs /\ ~InPrefill(s)
    BY <1>1, <1>2, PacingFacts, EmptyList DEF BatchInv, Running, InPrefill
  <1>4. PICK q : q = running
    OBVIOUS
  <1>5. Range(running') = Range(running) \ {s}
    BY <1>1, <1>4, PacingFacts, WithoutKeeps DEF QueueTypes
  <1>6. prefill_gather_cache'[s] = {}
    BY <1>1, <1>2, <1>3, PacingFacts DEF Paced, Dropped, Running
  <1> QED
    BY <1>1, <1>2, <1>3, <1>5, <1>6, RestartPace

(* An admitted sequence has blocks, and has read what the cache gave it.   *)
LEMMA AdmitPace ==
    ASSUME Pacing, AdmitShared \/ AdmitFresh, UNCHANGED stepVars, NEW s, s = Candidate
    PROVE  (\A t \in Seqs : t = s \/ SamePace(t)) /\ PaceInv'
  <1>1. PICK chain \in Seq(Blocks), n, m \in Nat :
          /\ TakeBlocks(s, chain, n) /\ Len(chain) + n = BlocksFor(NumTokens(s))
          /\ block_table[s] = <<>> /\ s \in Seqs /\ s \in Range(waiting)
          /\ \A t \in Seqs : t # s => seq'[t] = seq[t]
          /\ seq'[s].num_cached_tokens = m
    BY Admission DEF Pacing
  <1>2. /\ Len(block_table'[s]) = BlocksFor(NumTokens(s))
        /\ \A t \in Seqs : t # s => block_table'[t] = block_table[t]
    BY <1>1, PacingFacts, TakenLength
  <1>3. /\ UNCHANGED <<token_ids, running, decode_seqs, prefill_gather_cache>>
        /\ pc = "admit" /\ pc' = "admit"
    BY DEF AdmitShared, AdmitFresh, queueVars, loopVars, runnerVars
  <1>4. block_table'[s] # <<>>
    <2>1. PICK p \in Nat, z \in Nat \ {0} : p = 0 /\ z = BlockSize
      BY PoolAssumption DEF PoolAssumption
    <2>2. PICK k \in Nat : k = NumTokens(s) /\ p < k
      <3>1. NumTokens(s) \in Lengths
        BY <1>1, PacingFacts, LengthOK
      <3> QED
        BY <2>1, <3>1 DEF Lengths
    <2>3. p \div z \in Nat /\ p \div z < (k + z - 1) \div z
      BY <2>1, <2>2, BlockOfPosition
    <2>4. k + z - 1 \in Nat /\ BlocksFor(NumTokens(s)) = (k + z - 1) \div z
      BY <2>1, <2>2 DEF BlocksFor
    <2> QED
      BY <1>2, <2>1, <2>3, <2>4
  <1>5. s \notin Decoders' /\ Decoders' = Decoders
    BY <1>1, <1>3, PacingFacts DEF QueuesApart, Decoders
  <1>6. \A t \in Seqs : /\ ~Passed(t) /\ ~InPrefill(t) /\ ~Sampled(t) /\ ~Retrying(t)
                        /\ ~Passed(t)' /\ ~InPrefill(t)' /\ ~Sampled(t)' /\ ~Dropped(t)'
                        /\ Picked(t)' => t \in Range(decode_seqs)
                        /\ t \in Range(decode_seqs) => Picked(t)
    BY <1>3 DEF Passed, Started, InPass, InPrefill, Sampled, Retrying, Prefilling, Dropped,
                Picked, Running, Processing
  <1>7. \A t \in Seqs : t = s \/ SamePace(t)
    BY <1>1, <1>2, <1>3, <1>5, <1>6 DEF SamePace, Finished
  <1>8. prefill_gather_cache[s] = {}
    <2>1. Paced(s) /\ ~Finished(s) /\ Cached(s) \in Nat
      BY <1>1, PacingFacts, InQueues DEF Unfinished, SeqTypes, IsFields, Cached
    <2>2. Progress(s) = 0
      BY <1>1, <1>6, <2>1 DEF Paced, Progress
    <2>3. \A e \in prefill_gather_cache[s] : e.start \in Nat /\ e.start < 0
      BY <1>1, <1>6, <2>1, <2>2 DEF Paced, Mapping
    <2> QED
      BY <2>3
  <1>9. Paced(s)'
    <2>1. s \notin Range(decode_seqs)
      BY <1>1, PacingFacts DEF QueuesApart
    <2> QED
      BY <1>1, <1>3, <1>4, <1>5, <1>6, <1>8, <2>1 DEF Paced
  <1>10. PICK moved : moved = {s}
    OBVIOUS
  <1>11. \A t \in moved : Paced(t)'
    BY <1>9, <1>10
  <1>12. \A t \in Seqs : t \in moved \/ SamePace(t)
    BY <1>7, <1>10
  <1>13. PaceInv'
    BY <1>11, <1>12, PaceNext
  <1> QED
    BY <1>7, <1>13

(* What a chunk adds to the work of the step. *)
LEMMA ChunkPace ==
    ASSUME Pacing, EndSchedule, ScheduleChunk /\ Dispatch(<<Candidate>>), NEW s, s = Candidate
    PROVE  (\A t \in Seqs : t = s \/ SamePace(t)) /\ PaceInv'
  <1>1. /\ pc = "admit" /\ decode_seqs' = <<>>
        /\ UNCHANGED <<block_table, token_ids, prefill_gather_cache>>
        /\ QueueTypes /\ SeqTypes /\ QueuesApart /\ LoopInv
    BY PacingFacts DEF EndSchedule, ScheduleChunk, ResetLoop, poolVars
  <1>2. PICK q, run, dec : q = waiting /\ run = running /\ dec = decode_seqs
    OBVIOUS
  <1>3. /\ q \in Seq(Seqs) /\ run \in Seq(Seqs) /\ dec \in Seq(Seqs) /\ IsInjective(dec)
    BY <1>1, <1>2 DEF QueueTypes, QueuesApart
  <1>4. PICK last \in BOOLEAN :
          /\ last <=> seq[s].num_cached_tokens + Chunk(s) >= NumTokens(s)
          /\ running' = (IF last THEN Append(run, s) ELSE run) \o dec
          /\ seq' = [seq EXCEPT ![s].num_scheduled_tokens = Chunk(s),
                                ![s].status = IF last THEN "RUNNING" ELSE @]
    <2>1. LET end == seq[s].num_cached_tokens + Chunk(s) >= NumTokens(s)
          IN  /\ running' = (IF end THEN Append(run, s) ELSE run) \o dec
              /\ seq' = [seq EXCEPT ![s].num_scheduled_tokens = Chunk(s),
                                    ![s].status = IF end THEN "RUNNING" ELSE @]
      BY <1>2, Zenon DEF ScheduleChunk
    <2>2. CASE seq[s].num_cached_tokens + Chunk(s) >= NumTokens(s)
      <3>1. /\ running' = (IF TRUE THEN Append(run, s) ELSE run) \o dec
            /\ seq' = [seq EXCEPT ![s].num_scheduled_tokens = Chunk(s),
                                  ![s].status = IF TRUE THEN "RUNNING" ELSE @]
        BY <2>1, <2>2
      <3> QED
        BY <2>2, <3>1
    <2>3. CASE ~(seq[s].num_cached_tokens + Chunk(s) >= NumTokens(s))
      <3>1. /\ running' = (IF FALSE THEN Append(run, s) ELSE run) \o dec
            /\ seq' = [seq EXCEPT ![s].num_scheduled_tokens = Chunk(s),
                                  ![s].status = IF FALSE THEN "RUNNING" ELSE @]
        BY <2>1, <2>3
      <3> QED
        BY <2>3, <3>1
    <2> QED
      BY <2>2, <2>3
  <1>5. /\ s \in Seqs /\ s \in Range(q)
        /\ block_table[s] # <<>> /\ Remaining(s) > 0 /\ MayPrefill
    <2>1. q # <<>>
      BY <1>2 DEF ScheduleChunk, MayPrefill
    <2>2. s \in Seqs /\ Range(q) = {s} \cup Range(Tail(q))
      BY <1>1, <1>2, <2>1, HeadOfWaiting
    <2> QED
      BY <1>2, <2>2 DEF ScheduleChunk
  <1>6. ~Finished(s) /\ s \notin Range(dec) /\ s \notin Range(run) /\ seq[s].is_prefill
    BY <1>1, <1>2, <1>5, InQueues DEF Unfinished, QueuesApart, LoopInv
  <1>7. PICK n \in Nat : n = Chunk(s) /\ n > 0 /\ n <= Remaining(s)
    BY <1>1, <1>2, <1>3, <1>5, ChunkIsNat
  <1>8. /\ \A t \in Seqs : t # s => seq'[t] = seq[t]
        /\ \A t \in Seqs : seq'[t].is_prefill = seq[t].is_prefill
        /\ \A t \in Seqs : Finished(t)' <=> Finished(t)
        /\ seq'[s].num_scheduled_tokens = n
        /\ seq'[s].num_cached_tokens = seq[s].num_cached_tokens
    <2>1. seq' = [seq EXCEPT ![s].num_scheduled_tokens = n,
                             ![s].status = IF last THEN "RUNNING" ELSE @]
      BY <1>4, <1>7
    <2> QED
      <3>1. SeqTypes /\ UNCHANGED token_ids /\ ~Finished(s)
        BY <1>1, <1>6, Zenon
      <3> QED
        BY <1>5, <2>1, <3>1, ScheduledSeq, ZenonT(40)
  <1>9. /\ pc' = "prepare" /\ batch_is_prefill' /\ Range(batch') = {s}
        /\ Range(later') \subseteq Range(dec) /\ oom_preempted' = <<>>
    <2>1. PICK one : one = <<s>>
      OBVIOUS
    <2>2. Range(one) = {s} /\ Dispatch(one) /\ seq'[s].is_prefill /\ one # <<>>
      BY <1>5, <1>6, <1>8, <2>1, RangeOfPair
    <2>3. \A t \in Range(decode_seqs) : ~seq'[t].is_prefill
      BY <1>1, <1>8, InQueues DEF LoopInv
    <2>4. s \in Seqs \ Range(decode_seqs)
      BY <1>2, <1>5, <1>6
    <2> QED
      BY <1>1, <1>2, <1>3, <2>1, <2>2, <2>3, <2>4, DispatchBatch
  <1>10. Decoders' \subseteq Decoders \cup {s} /\ (s \in Decoders' => last)
    <2>1. PICK r : r = IF last THEN Append(run, s) ELSE run
      OBVIOUS
    <2>2. /\ Append(run, s) \in Seq(Seqs)
          /\ Range(Append(run, s)) = Range(run) \cup {s}
      BY <1>3, <1>5, RangeOfAppend
    <2>3. /\ r \in Seq(Seqs) /\ Range(r) \subseteq Range(run) \cup {s}
          /\ s \in Range(r) => last
      BY <1>3, <1>6, <2>1, <2>2
    <2>4. Range(r \o dec) = Range(r) \cup Range(dec)
      BY <1>3, <2>3, RangeOfConcat
    <2>5. Range(running') = Range(r) \cup Range(dec)
      BY <1>4, <2>1, <2>4
    <2> QED
      BY <1>1, <1>2, <1>6, <2>3, <2>5, EmptyList DEF Decoders
  <1>11. /\ \A t : /\ ~Passed(t) /\ ~InPrefill(t) /\ ~Sampled(t) /\ ~Retrying(t)
                   /\ ~Passed(t)' /\ ~Sampled(t)' /\ ~Dropped(t)'
                   /\ t # s => ~InPrefill(t)'
                   /\ Picked(t)' => t \in Range(dec)
                   /\ t \in Range(dec) => Picked(t)
         /\ InPrefill(s)'
    BY <1>1, <1>2, <1>9, EmptyList
       DEF Passed, Started, InPass, InPrefill, Sampled, Retrying, Prefilling, Dropped, Picked,
           Running, Processing
  <1>12. \A t \in Seqs : t = s \/ SamePace(t)
    BY <1>1, <1>8, <1>10, <1>11 DEF SamePace
  <1>13. Paced(s)'
    <2>1. PICK c, m \in Nat : c = Cached(s) /\ m = NumTokens(s)
      BY <1>1, <1>5, SMTT(20) DEF SeqTypes, IsFields, NumTokens, Cached
    <2>2. NumTokens(s)' = m /\ Cached(s)' = c /\ Scheduled(s)' = n
      BY <1>1, <1>8, <2>1 DEF NumTokens, Cached, Scheduled
    <2>3. last => c + n = m
      <3>1. last => c + n >= m
        BY <1>4, <1>7, <2>1 DEF Cached
      <3>2. n <= m - c
        BY <1>7, <2>1 DEF Remaining, Cached
      <3> QED
        BY <3>1, <3>2
    <2>4. s \in Decoders' => Due(s)'
      BY <1>10, <1>11, <2>2, <2>3 DEF Due, Pending
    <2>5. \A e \in prefill_gather_cache'[s] : Mapping(s, e)'
      BY <1>1, <1>5, <1>11, <2>1, <2>2, PacingFacts DEF Paced, Mapping, Progress
    <2> QED
      BY <1>1, <1>2, <1>5, <1>6, <1>7, <1>11, <2>2, <2>4, <2>5 DEF Paced
  <1>14. PICK moved : moved = {s}
    OBVIOUS
  <1>15. \A t \in moved : Paced(t)'
    BY <1>13, <1>14
  <1>16. \A t \in Seqs : t \in moved \/ SamePace(t)
    BY <1>12, <1>14
  <1>17. PaceInv'
    BY <1>15, <1>16, PaceNext
  <1> QED
    BY <1>12, <1>17

(* The steps between the passes of a batch. *)
LEMMA BetweenPace ==
    ASSUME Pacing, Prepare \/ EndRequeue \/ Finalize \/ EndAdvance
    PROVE  \A t \in Seqs : SamePace(t)
  <1>1. UNCHANGED <<token_ids, block_table, running, decode_seqs, oom_preempted>>
    BY DEF Prepare, EndRequeue, Finalize, EndAdvance, seqVars, poolVars, queueVars, loopVars,
           runnerVars
  <1>2. \A t \in Seqs : /\ Finished(t)' <=> Finished(t)
                        /\ seq'[t].num_cached_tokens = seq[t].num_cached_tokens
                        /\ seq'[t].num_scheduled_tokens = seq[t].num_scheduled_tokens
    <2>1. CASE Prepare
      <3>1. PICK members : members = Range(batch)
        OBVIOUS
      <3>2. seq' = [s \in Seqs |-> IF s \in members
                                   THEN [seq[s] EXCEPT !.prefix_restore_blocks = None]
                                   ELSE seq[s]]
        BY <2>1, <3>1 DEF Prepare, PrepareStates, Raise, Pacing
      <3> QED
        BY <1>1, <3>2, PacingFacts, RestoredSeq
    <2>2. CASE EndRequeue \/ Finalize \/ EndAdvance
      <3>1. UNCHANGED seq
        BY <2>2 DEF EndRequeue, Finalize, EndAdvance, seqVars
      <3> QED
        BY <3>1 DEF Finished
    <2> QED
      BY <2>1, <2>2
  <1>3. \A t \in Seqs : prefill_gather_cache'[t] \subseteq prefill_gather_cache[t]
    BY DEF Prepare, EndRequeue, Finalize, EndAdvance, FreeSlots, ForgetGathered, runnerVars
  <1>4. Decoders' = Decoders
    BY <1>1 DEF Decoders
  <1>5. oom_preempted = <<>> \/ Prepare \/ EndRequeue
    BY PacingFacts DEF Finalize, EndAdvance, BatchInv, Processing
  <1>6. \A t \in Seqs : /\ Passed(t)' <=> Passed(t)
                        /\ InPrefill(t)' <=> InPrefill(t)
                        /\ Sampled(t)' <=> Sampled(t)
                        /\ Picked(t)' => Picked(t)
                        /\ Retrying(t) => Retrying(t)'
                        /\ Dropped(t)' => Dropped(t)
    <2>1. CASE Prepare
      <3>1. /\ pc = "prepare" /\ pc' = "forward"
            /\ UNCHANGED <<batch, batch_is_prefill, later, todo>>
        BY <2>1 DEF Prepare, Raise, Goto, Pacing, batchVars, stepVars
      <3> QED
        BY <1>1, <3>1 DEF Passed, InPrefill, InPass, Started, Sampled, Picked, Retrying,
                          Prefilling, Dropped, Running, Processing
    <2>2. CASE EndRequeue
      <3>1. /\ pc = "requeue" /\ pc' = "record" /\ todo' = batch
            /\ UNCHANGED <<batch, batch_is_prefill, later>>
        BY <2>2 DEF EndRequeue, Goto, batchVars
      <3> QED
        BY <1>1, <3>1 DEF Passed, InPrefill, InPass, Started, Sampled, Picked, Retrying,
                          Prefilling, Dropped, Running, Processing
    <2>3. CASE Finalize
      <3>1. /\ pc = "record" /\ todo = <<>>
            /\ \/ pc' = "advance" /\ batch' = todo' /\ UNCHANGED later
               \/ pc' = "prepare" /\ batch' = later /\ ~batch_is_prefill' /\ later' = <<>>
               \/ pc' = "idle"
        BY <2>3 DEF Finalize, StartBatch, Goto
      <3> QED
        BY <1>1, <1>5, <2>3, <3>1, EmptyList
           DEF Passed, InPrefill, InPass, Started, Sampled, Picked, Retrying,
               Prefilling, Dropped, Running, Processing, Prepare, EndRequeue
    <2>4. CASE EndAdvance
      <3>1. /\ pc = "advance" /\ todo = <<>> /\ UNCHANGED later
            /\ \/ pc' = "prepare" /\ batch' = batch /\ ~batch_is_prefill'
               \/ pc' = "idle"
        BY <2>4 DEF EndAdvance, StartBatch, Goto
      <3> QED
        BY <1>1, <1>5, <2>4, <3>1, EmptyList
           DEF Passed, InPrefill, InPass, Started, Sampled, Picked, Retrying,
               Prefilling, Dropped, Running, Processing, Prepare, EndRequeue
    <2> QED
      BY <2>1, <2>2, <2>3, <2>4
  <1> QED
    BY <1>1, <1>2, <1>3, <1>4, <1>6 DEF SamePace

(* The first position of a prefill pass. *)
LEMMA ForwardPace ==
    ASSUME Pacing, Forward
    PROVE  (\A t \in Seqs : t \in Range(batch) \/ SamePace(t)) /\ PaceInv'
  <1>1. /\ pc = "forward" /\ pc' = "requeue" /\ pc \in Running
        /\ UNCHANGED <<seq, token_ids, block_table, running, decode_seqs, oom_preempted, batch,
                       batch_is_prefill, later, todo>>
        /\ prefill_gather_cache' = Gathered
    BY DEF Forward, Raise, Goto, Pacing, seqVars, poolVars, queueVars, loopVars, batchVars,
           stepVars, Running
  <1>2. Decoders' = Decoders
    BY <1>1 DEF Decoders
  <1>3. \A t \in Seqs : /\ ~Passed(t) /\ ~Sampled(t) /\ ~Sampled(t)'
                        /\ Passed(t)' <=> t \in Range(batch)
                        /\ InPrefill(t)' <=> InPrefill(t)
                        /\ Picked(t)' <=> Picked(t)
                        /\ Retrying(t) => t \in Range(batch)
                        /\ Dropped(t)' <=> Dropped(t)
    BY <1>1 DEF Passed, InPrefill, InPass, Started, Sampled, Picked, Retrying,
                Prefilling, Dropped, Running, Processing
  <1>4. \A t \in Seqs : t \in Range(batch) \/ SamePace(t)
    BY <1>1, <1>2, <1>3 DEF SamePace, Finished, Gathered
  <1>5. ASSUME NEW t \in Seqs, t \in Range(batch) PROVE Paced(t)'
    <2>1. Paced(t)
      BY PacingFacts
    <2>2. PICK c, m \in Nat : c = Cached(t) /\ m = Scheduled(t)
      BY PacingFacts DEF SeqTypes, IsFields, Cached, Scheduled
    <2>3. Cached(t)' = c /\ Scheduled(t)' = m /\ NumTokens(t)' = NumTokens(t)
      BY <1>1, <2>2 DEF Cached, Scheduled, NumTokens
    <2>4. Progress(t) = c /\ Progress(t)' = c + m
      BY <1>3, <1>5, <2>2, <2>3 DEF Progress
    <2>5. m > 0
      <3>1. CASE batch_is_prefill
        BY <1>1, <1>5, <2>1, <2>2, <3>1 DEF Paced, InPrefill, InPass, Started
      <3>2. CASE ~batch_is_prefill
        BY <1>1, <1>5, <2>1, <2>2, <3>2 DEF Paced, Picked, InPass, Started
      <3> QED
        BY <3>1, <3>2
    <2>6. ASSUME NEW e \in prefill_gather_cache'[t] PROVE Mapping(t, e)'
      <3>1. \/ e \in prefill_gather_cache[t] /\ (~batch_is_prefill \/ e.start # First(t))
            \/ batch_is_prefill /\ e.start = First(t)
        BY <1>1, <1>5, <2>6 DEF Gathered
      <3>2. batch_is_prefill => First(t) = c
        BY <2>2 DEF First, Cached
      <3>3. e \in prefill_gather_cache[t] => Mapping(t, e)
        BY <2>1 DEF Paced
      <3>4. e.start \in Nat /\ e.start < c + m
        <4>1. c < c + m /\ \A k \in Nat : k < c => k < c + m
          BY <2>2, <2>5
        <4> QED
          BY <2>2, <2>4, <3>1, <3>2, <3>3, <4>1 DEF Mapping, Retrying, Prefilling
      <3> QED
        BY <2>4, <3>4 DEF Mapping
    <2>7. t \notin Range(oom_preempted)
      BY <1>1, <1>5, PacingFacts DEF BatchInv
    <2>8. ~Dropped(t)'
      BY <1>3, <2>7 DEF Dropped
    <2>9. t \in Decoders' => Due(t)'
      BY <1>2, <1>3, <2>1, <2>2, <2>3 DEF Paced, Due, Pending
    <2>10. /\ Picked(t)' => Scheduled(t)' = 1
           /\ InPrefill(t)' => Scheduled(t)' > 0 /\ block_table'[t] # <<>>
           /\ block_table'[t] = <<>> => Finished(t)' \/ Cached(t)' = 0
      BY <1>1, <1>3, <2>1, <2>2, <2>3 DEF Paced, Finished
    <2> QED
      BY <2>6, <2>8, <2>9, <2>10 DEF Paced
  <1>6. PICK moved : moved = Range(batch)
    OBVIOUS
  <1>7. (\A t \in Seqs : t \in moved \/ SamePace(t)) /\ \A t \in moved : Paced(t)'
    BY <1>4, <1>5, <1>6, PacingFacts
  <1> QED
    BY <1>4, <1>7, PaceNext

(* A pass that is tried again keeps the mapping it built. *)
LEMMA RetryPace ==
    ASSUME Pacing, Retry
    PROVE  (\A t \in Seqs : t \in Range(batch) \/ SamePace(t)) /\ PaceInv'
  <1>1. PICK last : last = Last(batch)
    OBVIOUS
  <1>2. /\ pc = "forward" /\ pc' = "prepare" /\ pc \in Running
        /\ UNCHANGED <<seq, token_ids, block_table, running, decode_seqs, batch_is_prefill,
                       later, todo>>
        /\ InputsFit
        /\ IF Len(batch) > 1
           THEN /\ batch' = Front(batch) /\ oom_preempted' = Append(oom_preempted, last)
                /\ ForgetGathered(<<last>>)
           ELSE prefill_gather_cache' = Gathered /\ UNCHANGED <<batch, oom_preempted>>
    BY <1>1 DEF Retry, OutOfMemory, Goto, seqVars, poolVars, queueVars, loopVars, stepVars,
                Running
  <1>3. /\ Decoders' = Decoders /\ QueueTypes /\ BatchInv /\ QueuesApart
        /\ \A t \in Range(batch) : t \notin Range(oom_preempted) /\ t \in Unfinished
    BY <1>2, PacingFacts DEF Decoders, BatchInv
  <1>4. \A t \in Seqs : /\ Cached(t)' = Cached(t) /\ Scheduled(t)' = Scheduled(t)
                        /\ NumTokens(t)' = NumTokens(t)
                        /\ ~Passed(t) /\ ~Passed(t)' /\ ~Sampled(t) /\ ~Sampled(t)'
    BY <1>2 DEF Cached, Scheduled, NumTokens, Passed, Sampled
  <1>5. CASE Len(batch) > 1
    <2>1. PICK q, p, one : q = batch /\ p = oom_preempted /\ one = <<last>>
      OBVIOUS
    <2>2. q \in Seq(Seqs) /\ p \in Seq(Seqs) /\ Len(q) > 1
      BY <1>3, <1>5, <2>1 DEF QueueTypes
    <2>3. q # <<>>
      BY <2>2
    <2>4. Range(q) = Range(Front(q)) \cup {last} /\ last \in Seqs
      <3>1. Range(q) = Range(Front(q)) \cup {Last(q)}
        BY <2>2, <2>3, FrontAndLast
      <3>2. Range(q) \subseteq Seqs
        BY <2>2 DEF Range
      <3> QED
        BY <1>1, <2>1, <3>1, <3>2
    <2>5. last \notin Range(Front(q))
      <3>1. IsInjective(q)
        BY <1>2, <1>3, <2>1 DEF BatchInv
      <3> QED
        BY <1>1, <2>1, <2>2, <2>3, <3>1, FrontAndLast
    <2>6. /\ Range(Append(p, last)) = Range(p) \cup {last} /\ Range(one) = {last}
      BY <2>1, <2>2, <2>4, RangeOfAppend, RangeOfPair
    <2>7. /\ Range(batch) = Range(batch') \cup {last}
          /\ Range(oom_preempted') = Range(oom_preempted) \cup {last}
      BY <1>2, <1>5, <2>1, <2>4, <2>6
    <2>8. ~batch_is_prefill
      BY <1>2, <1>3, <1>5, <2>1, <2>2 DEF BatchInv
    <2>9. \A t \in Seqs : /\ prefill_gather_cache'[t] \subseteq prefill_gather_cache[t]
                          /\ t = last => prefill_gather_cache'[t] = {}
      BY <1>2, <1>5, <2>1, <2>6 DEF ForgetGathered
    <2>10. \A t \in Seqs : /\ ~InPrefill(t) /\ ~InPrefill(t)' /\ ~Retrying(t)
                           /\ Picked(t)' => Picked(t)
                           /\ Dropped(t)' => Dropped(t) \/ t = last
      BY <1>2, <2>7, <2>8 DEF InPrefill, InPass, Started, Passed, Picked, Retrying, Prefilling,
                              Dropped, Running
    <2>11. \A t \in Seqs : t = last \/ SamePace(t)
      BY <1>2, <1>3, <1>4, <2>9, <2>10 DEF SamePace, Finished
    <2>12. Paced(last)'
      <3>1. Paced(last)
        BY <2>4, PacingFacts
      <3>2. last \in Decoders' => Due(last)'
        BY <1>3, <1>4, <2>4, <2>10, <3>1 DEF Paced, Due, Pending
      <3> QED
        BY <1>2, <1>4, <2>4, <2>9, <2>10, <3>1, <3>2 DEF Paced, Finished
    <2>13. PICK moved : moved = {last}
      OBVIOUS
    <2>14. (\A t \in Seqs : t \in moved \/ SamePace(t)) /\ \A t \in moved : Paced(t)'
      BY <2>11, <2>12, <2>13
    <2>15. PaceInv'
      BY <2>14, PaceNext
    <2> QED
      BY <2>7, <2>11, <2>15
  <1>6. CASE ~(Len(batch) > 1)
    <2>1. prefill_gather_cache' = Gathered /\ UNCHANGED <<batch, oom_preempted>>
      BY <1>2, <1>6
    <2>2. \A t \in Seqs : /\ InPrefill(t)' <=> InPrefill(t)
                          /\ Retrying(t)' <=> Retrying(t)
                          /\ Retrying(t) <=> batch_is_prefill /\ t \in Range(batch)
                          /\ Picked(t)' <=> Picked(t)
                          /\ Dropped(t)' <=> Dropped(t)
      BY <1>2, <2>1 DEF InPrefill, InPass, Started, Passed, Picked, Retrying, Prefilling,
                        Dropped, Running
    <2>3. \A t \in Seqs : t \in Range(batch) \/ SamePace(t)
      BY <1>2, <1>3, <1>4, <2>1, <2>2 DEF SamePace, Finished, Gathered
    <2>4. ASSUME NEW t \in Seqs, t \in Range(batch) PROVE Paced(t)'
      <3>1. Paced(t)
        BY PacingFacts
      <3>2. ASSUME NEW e \in prefill_gather_cache'[t] PROVE Mapping(t, e)'
        <4>1. \/ e \in prefill_gather_cache[t]
              \/ /\ batch_is_prefill
                 /\ e = [start |-> First(t), table |-> block_table[t],
                         tokens |-> MappedTokens(t)]
          BY <2>1, <2>4, <3>2 DEF Gathered
        <4>2. CASE e \in prefill_gather_cache[t]
          BY <1>4, <2>2, <3>1, <4>2 DEF Paced, Mapping, Progress
        <4>3. CASE /\ batch_is_prefill
                   /\ e = [start |-> First(t), table |-> block_table[t],
                           tokens |-> MappedTokens(t)]
          <5>1. e.start = Cached(t) /\ e.tokens = Scheduled(t) /\ Cached(t) \in Nat
            BY <1>2, <2>4, <4>3, PacingFacts
               DEF First, Cached, Scheduled, InputsFit, GatherFits, SeqTypes, IsFields
          <5> QED
            BY <1>4, <2>2, <2>4, <4>3, <5>1 DEF Mapping
        <4> QED
          BY <4>1, <4>2, <4>3
      <3>3. t \in Decoders' => Due(t)'
        BY <1>3, <1>4, <2>2, <3>1 DEF Paced, Due, Pending
      <3>4. ~Dropped(t)'
        BY <1>3, <2>2, <2>4 DEF Dropped
      <3> QED
        BY <1>2, <1>4, <2>2, <3>1, <3>2, <3>3, <3>4 DEF Paced, Finished
    <2>5. PICK moved : moved = Range(batch)
      OBVIOUS
    <2>6. (\A t \in Seqs : t \in moved \/ SamePace(t)) /\ \A t \in moved : Paced(t)'
      BY <2>3, <2>4, <2>5, PacingFacts
    <2> QED
      BY <2>3, <2>6, PaceNext
  <1> QED
    BY <1>5, <1>6

(* What the pass has read is counted.                                      *)
LEMMA RecordPace ==
    ASSUME Pacing, Record, NEW s, s = Head(todo)
    PROVE  (\A t \in Seqs : t = s \/ SamePace(t)) /\ PaceInv'
  <1>1. PICK c : c = seq[s].num_cached_tokens + seq[s].num_scheduled_tokens
    OBVIOUS
  <1>2. /\ seq' = [seq EXCEPT ![s].num_cached_tokens = c, ![s].num_scheduled_tokens = 0]
        /\ pc = "record" /\ pc' = "sample" /\ todo # <<>> /\ pc \in Processing
        /\ UNCHANGED <<token_ids, block_table, prefill_gather_cache, running, decode_seqs,
                       batch, batch_is_prefill, later, todo>>
    BY <1>1 DEF Record, RecordProgress, Goto, poolVars, queueVars, loopVars, batchVars,
                stepVars, Processing
  <1>3. /\ s \in Seqs /\ SeqTypes /\ s \in Range(batch) /\ s \in Unfinished
        /\ Range(todo) = {s} \cup Range(Tail(todo)) /\ s \notin Range(Tail(todo))
        /\ s \notin Range(waiting) => s \in Range(running)
        /\ decode_seqs = <<>> /\ BatchInv /\ Paced(s)
    BY <1>2, PacingFacts, HeadOfTodo
  <1>4. /\ \A t \in Seqs : t # s => seq'[t] = seq[t]
        /\ seq'[s].num_cached_tokens = c /\ seq'[s].num_scheduled_tokens = 0
    <2>1. /\ c = seq[s].num_cached_tokens + seq[s].num_scheduled_tokens
          /\ seq' = [seq EXCEPT ![s].num_cached_tokens = c, ![s].num_scheduled_tokens = 0]
      BY <1>1, <1>2
    <2>2. UNCHANGED token_ids /\ SeqTypes /\ s \in Seqs
      BY <1>2, <1>3
    <2> QED
      BY <2>1, <2>2, RecordedSeq
  <1>5. Decoders' = Decoders
    BY <1>2 DEF Decoders
  <1>6. /\ \A t \in Seqs : /\ Passed(t)' <=> Passed(t) /\ t # s
                           /\ InPrefill(t)' <=> InPrefill(t) /\ t # s
                           /\ ~Sampled(t)
                           /\ Sampled(t)' <=> t = s
                           /\ Picked(t)' => Picked(t)
                           /\ ~Retrying(t) /\ ~Dropped(t)'
        /\ Passed(s) /\ (InPrefill(s) <=> batch_is_prefill)
        /\ ~batch_is_prefill => Picked(s)
    BY <1>2, <1>3 DEF Passed, InPrefill, InPass, Started, Sampled, Picked, Retrying, Prefilling,
                      Dropped, Running, Processing
  <1>7. \A t \in Seqs : t = s \/ SamePace(t)
    BY <1>2, <1>4, <1>5, <1>6 DEF SamePace, Finished
  <1>8. PICK k, m, n \in Nat : k = Cached(s) /\ m = Scheduled(s) /\ n = NumTokens(s)
    <2>1. token_ids[s] \in Seq(Nat)
      BY <1>3 DEF SeqTypes
    <2>2. NumTokens(s) \in Nat
      BY <2>1 DEF NumTokens
    <2>3. Cached(s) \in Nat /\ Scheduled(s) \in Nat
      BY <1>3 DEF SeqTypes, IsFields, Cached, Scheduled
    <2> QED
      BY <2>2, <2>3
  <1>9. /\ Cached(s)' = k + m /\ Scheduled(s)' = 0 /\ NumTokens(s)' = n
        /\ Progress(s) = k + m /\ Progress(s)' = k + m
    BY <1>1, <1>2, <1>3, <1>4, <1>6, <1>8 DEF Progress, Cached, Scheduled, NumTokens
  <1>10. s \in Decoders => k + m = n /\ k + m > 0 /\ block_table[s] # <<>>
    <2>1. SUFFICES ASSUME s \in Decoders
                   PROVE  k + m = n /\ k + m > 0 /\ block_table[s] # <<>>
      OBVIOUS
    <2>2. Due(s)
      BY <1>3, <2>1 DEF Paced
    <2>3. CASE batch_is_prefill
      BY <1>3, <1>6, <1>8, <2>2, <2>3 DEF Due, Pending, Paced
    <2>4. CASE ~batch_is_prefill
      <3>1. m = 1 /\ k + 1 = n /\ k > 0
        BY <1>3, <1>6, <1>8, <2>2, <2>4 DEF Due, Pending, Paced
      <3> QED
        BY <1>3, <1>8, <3>1 DEF Paced, Unfinished
    <2> QED
      BY <2>3, <2>4
  <1>11. block_table[s] # <<>>
    <2>1. CASE batch_is_prefill
      BY <1>3, <1>6, <2>1 DEF Paced
    <2>2. CASE ~batch_is_prefill
      BY <1>2, <1>3, <1>10, <2>2 DEF BatchInv, Decoders
    <2> QED
      BY <2>1, <2>2
  <1>12. ~Picked(s)'
    <2>1. s \notin Range(later)
      BY <1>2, <1>3 DEF BatchInv
    <2> QED
      BY <1>2, <1>3, <1>6, <2>1, EmptyList DEF Picked, InPass, Started, Passed, Running, Processing
  <1>13. Paced(s)'
    <2>1. s \in Decoders' => Due(s)'
      BY <1>3, <1>5, <1>6, <1>8, <1>9, <1>10 DEF Due, Pending
    <2>2. \A e \in prefill_gather_cache'[s] : Mapping(s, e)'
      BY <1>2, <1>3, <1>6, <1>9 DEF Paced, Mapping
    <2> QED
      BY <1>2, <1>3, <1>6, <1>11, <1>12, <2>1, <2>2 DEF Paced
  <1>14. PICK moved : moved = {s}
    OBVIOUS
  <1>15. (\A t \in Seqs : t \in moved \/ SamePace(t)) /\ \A t \in moved : Paced(t)'
    BY <1>7, <1>13, <1>14
  <1>16. PaceInv'
    BY <1>15, PaceNext
  <1> QED
    BY <1>7, <1>16

(* What finish() writes in the sequence leaves its counters alone. *)
LEMMA FinishedCounters ==
    ASSUME SeqTypes, NEW s \in Seqs, seq' = [seq EXCEPT ![s].status = "FINISHED"]
    PROVE  \A t \in Seqs : /\ seq'[t].num_cached_tokens = seq[t].num_cached_tokens
                           /\ seq'[t].num_scheduled_tokens = seq[t].num_scheduled_tokens
  <1>1. IsFields(seq[s]) /\ seq = [t \in Seqs |-> seq[t]]
    BY DEF SeqTypes
  <1>2. PICK r : r = [seq[s] EXCEPT !.status = "FINISHED"]
    OBVIOUS
  <1>3. /\ r.num_cached_tokens = seq[s].num_cached_tokens
        /\ r.num_scheduled_tokens = seq[s].num_scheduled_tokens
    BY <1>1, <1>2 DEF IsFields, FieldNames
  <1>4. seq' = [seq EXCEPT ![s] = r]
    BY <1>1, <1>2
  <1>5. seq'[s] = r /\ \A t \in Seqs : t # s => seq'[t] = seq[t]
    BY <1>1, <1>4
  <1> QED
    BY <1>3, <1>5

(* A sequence that gets a token has read all the ones before it. *)
LEMMA SamplePace ==
    ASSUME Pacing, Sample, NEW s, s = Head(todo)
    PROVE  (\A t \in Seqs : t = s \/ SamePace(t)) /\ PaceInv'
  <1>1. /\ pc = "sample" /\ pc' = "record" /\ pc \in Processing
        /\ todo' = Tail(todo)
        /\ UNCHANGED <<waiting, decode_seqs, prefill_gather_cache, batch, batch_is_prefill,
                       later, oom_preempted>>
        /\ IF StillPrefilling(s) THEN UNCHANGED <<seq, token_ids, block_table, running>>
                                 ELSE AppendToken(s)
    BY DEF Sample, Goto, loopVars, batchVars, Processing, seqVars, poolVars
  <1>2. /\ s \in Seqs /\ s \in Range(batch) /\ s \in Range(todo)
        /\ Range(todo) = {s} \cup Range(Tail(todo)) /\ s \notin Range(Tail(todo))
        /\ s \notin Range(waiting) => s \in Range(running)
        /\ SeqTypes /\ QueueTypes /\ QueuesApart /\ ChunkInv /\ BatchInv /\ Paced(s)
    <2>1. todo # <<>>
      BY <1>1, PacingFacts DEF BatchInv
    <2> QED
      BY <1>1, <2>1, PacingFacts, HeadOfTodo
  <1>3. PICK k, m, n \in Nat : k = Cached(s) /\ m = Scheduled(s) /\ n = NumTokens(s)
    <2>1. token_ids[s] \in Seq(Nat)
      BY <1>2 DEF SeqTypes
    <2>2. NumTokens(s) \in Nat
      BY <2>1 DEF NumTokens
    <2>3. Cached(s) \in Nat /\ Scheduled(s) \in Nat
      BY <1>2 DEF SeqTypes, IsFields, Cached, Scheduled
    <2> QED
      BY <2>2, <2>3
  <1>4. /\ \A t \in Seqs : /\ Passed(t)' <=> Passed(t)
                           /\ InPrefill(t)' <=> InPrefill(t)
                           /\ ~Sampled(t)' /\ (Sampled(t) <=> t = s)
                           /\ Picked(t)' => Picked(t)
                           /\ ~Retrying(t) /\ ~Dropped(t)'
        /\ ~Passed(s) /\ ~InPrefill(s)
    BY <1>1, <1>2 DEF Passed, InPrefill, InPass, Started, Sampled, Picked, Retrying, Prefilling,
                      Dropped, Running, Processing
  <1>5. s \in Decoders => k = n /\ k > 0
    BY <1>2, <1>3, <1>4 DEF Paced, Due, Pending
  <1>6. PICK moved : moved = {s}
    OBVIOUS
  <1>7. CASE StillPrefilling(s) /\ UNCHANGED <<seq, token_ids, block_table, running>>
    <2>1. Decoders' = Decoders
      BY <1>1, <1>7 DEF Decoders
    <2>2. s \notin Decoders
      BY <1>3, <1>5, <1>7 DEF StillPrefilling, Cached
    <2>3. \A t \in Seqs : t = s \/ SamePace(t)
      BY <1>1, <1>4, <1>7, <2>1 DEF SamePace, Finished
    <2>4. \A e \in prefill_gather_cache'[s] : Mapping(s, e)'
      BY <1>1, <1>2, <1>4, <1>7 DEF Paced, Mapping, Progress, Cached
    <2>5. Paced(s)'
      BY <1>1, <1>2, <1>4, <1>7, <2>1, <2>2, <2>4 DEF Paced, Cached, Scheduled, Finished
    <2>6. (\A t \in Seqs : t \in moved \/ SamePace(t)) /\ \A t \in moved : Paced(t)'
      BY <1>6, <2>3, <2>5
    <2> QED
      BY <2>3, <2>6, PaceNext
  <1>8. CASE ~StillPrefilling(s) /\ AppendToken(s)
    <2>1. s \in Range(running) /\ s \notin Range(waiting)
      <3>1. s \notin Range(waiting)
        BY <1>1, <1>2, <1>8 DEF StillPrefilling, ChunkInv, BatchInv
      <3> QED
        BY <1>2, <3>1
    <2>2. PICK token \in Vocab :
             /\ token_ids' = [token_ids EXCEPT ![s] = Append(@, token)]
             /\ Finish(s) \/ UNCHANGED <<seq, block_table, running>>
      BY <1>8 DEF AppendToken, poolVars
    <2>3. /\ \A t \in Seqs : t # s => token_ids'[t] = token_ids[t]
          /\ Len(token_ids'[s]) = n + 1
      BY <1>2, <1>3, <2>2, AppendedTokens DEF NumTokens
    <2>4. CASE UNCHANGED <<seq, block_table, running>>
      <3>1. Decoders' = Decoders /\ s \in Decoders
        BY <1>1, <2>1, <2>4 DEF Decoders
      <3>2. \A t \in Seqs : t = s \/ SamePace(t)
        BY <1>1, <1>4, <2>3, <2>4, <3>1 DEF SamePace, Finished
      <3>3. \A e \in prefill_gather_cache'[s] : Mapping(s, e)'
        BY <1>1, <1>2, <1>4, <2>4 DEF Paced, Mapping, Progress, Cached
      <3>4. Due(s)'
        BY <1>2, <1>3, <1>4, <1>5, <2>3, <2>4, <3>1 DEF Due, Pending, Cached, NumTokens
      <3>5. Paced(s)'
        BY <1>1, <1>2, <1>4, <2>4, <3>3, <3>4 DEF Paced, Cached, Scheduled, Finished
      <3>6. (\A t \in Seqs : t \in moved \/ SamePace(t)) /\ \A t \in moved : Paced(t)'
        BY <1>6, <3>2, <3>5
      <3> QED
        BY <3>2, <3>6, PaceNext
    <2>5. CASE Finish(s)
      <3>1. PICK q : q = running
        OBVIOUS
      <3>2. q \in Seq(Seqs) /\ running' = Without(q, s) /\ s \notin Range(decode_seqs)
        BY <1>2, <2>1, <2>5, <3>1 DEF QueueTypes, Finish, QueuesApart
      <3>3. Range(running') = Range(running) \ {s}
        BY <1>2, <3>1, <3>2, WithoutKeeps DEF QueuesApart
      <3>4. Decoders' \subseteq Decoders /\ s \notin Decoders'
        BY <1>1, <3>2, <3>3 DEF Decoders
      <3>5. (\A t \in Seqs : t # s => seq'[t] = seq[t]) /\ Finished(s)'
        BY <1>2, <2>5, FinishedSeq DEF Finish
      <3>6. /\ seq'[s].num_cached_tokens = seq[s].num_cached_tokens
            /\ seq'[s].num_scheduled_tokens = seq[s].num_scheduled_tokens
        BY <1>2, <2>5, FinishedCounters DEF Finish
      <3>7. \A t \in Seqs : t # s => block_table'[t] = block_table[t]
        BY <1>2, <2>5, PacingFacts DEF Finish, ReleaseBlocks, Deallocate
      <3>8. \A t \in Seqs : t = s \/ SamePace(t)
        BY <1>1, <1>4, <2>3, <3>4, <3>5, <3>7 DEF SamePace, Finished
      <3>9. \A e \in prefill_gather_cache'[s] : Mapping(s, e)'
        BY <1>1, <1>2, <1>4, <3>6 DEF Paced, Mapping, Progress, Cached
      <3>10. Paced(s)'
        BY <1>1, <1>2, <1>4, <3>4, <3>5, <3>6, <3>9 DEF Paced, Scheduled
      <3>11. (\A t \in Seqs : t \in moved \/ SamePace(t)) /\ \A t \in moved : Paced(t)'
        BY <1>6, <3>8, <3>10
      <3> QED
        BY <3>8, <3>11, PaceNext
    <2> QED
      BY <2>2, <2>4, <2>5
  <1> QED
    BY <1>1, <1>7, <1>8

(* An exception that nobody catches is the end. *)
LEMMA RaisedStays ==
    ASSUME [EngineNext]_vars, pc = "raised", ~ServeAfterError
    PROVE  UNCHANGED vars
  BY DEF EngineNext, EngineStep, Generate, GenerateRejected, Abandon, BeginStep, Schedule,
         ScheduleDecode, SchedulePreempt, EndDecode, AdmitShared, AdmitFresh, EndSchedule,
         ScheduleChunk, ScheduleNoChunk, Prepare, Forward, Retry, GiveUp, Requeue, EndRequeue,
         Record, Sample, Finalize, Advance, EndAdvance, Return, Recover, Stopped

(* Nothing is read, kept or arranged at first.                             *)
LEMMA PaceInitially == EngineInit => PaceInv
  <1>1. SUFFICES ASSUME EngineInit, NEW s \in Seqs PROVE Paced(s)
    BY DEF PaceInv
  <1>2. /\ seq = [t \in Seqs |-> NewSequence] /\ prefill_gather_cache = [t \in Seqs |-> {}]
        /\ pc = "idle" /\ running = <<>> /\ decode_seqs = <<>>
    BY <1>1 DEF EngineInit, SequenceInit, RunnerInit, SchedulerInit
  <1>3. seq[s].num_cached_tokens = 0
    BY <1>2 DEF NewSequence
  <1>4. s \notin Decoders
    BY <1>2, EmptyList DEF Decoders
  <1>5. ~Picked(s) /\ ~InPrefill(s) /\ ~Dropped(s)
    BY <1>2, EmptyList DEF Picked, InPrefill, InPass, Started, Passed, Dropped, Running,
                           Processing
  <1>6. prefill_gather_cache[s] = {} /\ Cached(s) = 0
    BY <1>2, <1>3 DEF Cached
  <1> QED
    BY <1>4, <1>5, <1>6 DEF Paced

(* Nothing of what is read is touched. *)
LEMMA StillPace ==
    ASSUME Pacing, UNCHANGED vars
    PROVE  \A t \in Seqs : SamePace(t)
  BY DEF SamePace, Finished, Decoders, Passed, InPrefill, InPass, Started, Sampled, Picked,
         Retrying, Prefilling, Dropped, vars, poolVars, seqVars, runnerVars, batchVars,
         queueVars, loopVars, stepVars

(* The loops of schedule().                                                *)
LEMMA SchedulePace ==
    ASSUME Pacing, Schedule
    PROVE  PaceInv'
  <1>1. CASE ScheduleDecode /\ UNCHANGED stepVars
    <2>1. PICK s : s = Head(decode_list)
      OBVIOUS
    <2> QED
      BY <1>1, <2>1, ScheduleDecodePace
  <1>2. CASE SchedulePreempt /\ UNCHANGED stepVars
    <2>1. PICK v : v = Last(running)
      OBVIOUS
    <2> QED
      BY <1>2, <2>1, SchedulePreemptPace
  <1>3. CASE EndDecode /\ UNCHANGED stepVars
    <2>1. \A t \in Seqs : SamePace(t)
      BY <1>3, IdlePace
    <2> QED
      BY <2>1, SteadyNext
  <1>4. CASE (AdmitShared \/ AdmitFresh) /\ UNCHANGED stepVars
    <2>1. PICK s : s = Candidate
      OBVIOUS
    <2> QED
      BY <1>4, <2>1, AdmitPace
  <1>5. CASE EndSchedule
    <2>1. CASE ScheduleChunk /\ Dispatch(<<Candidate>>)
      <3>1. PICK s : s = Candidate
        OBVIOUS
      <3> QED
        BY <1>5, <2>1, <3>1, ChunkPace
    <2>2. CASE ScheduleNoChunk /\ Dispatch(<<>>)
      <3>1. \A t \in Seqs : SamePace(t)
        BY <1>5, <2>2, NoChunkPace
      <3> QED
        BY <3>1, SteadyNext
    <2> QED
      BY <1>5, <2>1, <2>2 DEF EndSchedule
  <1> QED
    BY <1>1, <1>2, <1>3, <1>4, <1>5 DEF Schedule

(* The loop of advance_decode().                                           *)
LEMMA AdvancePace ==
    ASSUME Pacing, Advance
    PROVE  PaceInv'
  <1>1. CASE AdvancePreempt(Head(todo)) /\ UNCHANGED <<todo, pc>>
    <2>1. PICK v : v = Last(running)
      OBVIOUS
    <2> QED
      BY <1>1, <2>1, AdvancePreemptPace
  <1>2. CASE /\ AdvanceAppend(Head(todo)) /\ todo' = Tail(todo)
             /\ UNCHANGED <<token_ids, runnerVars, queueVars, pc>>
    <2>1. PICK s : s = Head(todo)
      OBVIOUS
    <2>2. AdvanceAppend(s)
      BY <1>2, <2>1
    <2> QED
      BY <1>2, <2>1, <2>2, AdvanceAppendPace
  <1>3. pc' # "raised"
    BY DEF Pacing
  <1> QED
    BY <1>1, <1>2, <1>3 DEF Advance, Raise

(* Every step of the engine.                                               *)
LEMMA PaceStep ==
    ASSUME EngineInv, SlotInv, WriteInv, PaceInv, Undisturbed, [EngineNext]_vars, EngineInv',
           ~ServeAfterError
    PROVE  PaceInv'
  <1>1. CASE pc' = "raised"
    BY <1>1 DEF PaceInv
  <1>2. CASE pc = "raised"
    <2>1. pc' = "raised"
      BY <1>2, RaisedStays DEF vars, loopVars
    <2> QED
      BY <2>1 DEF PaceInv
  <1>3. CASE pc # "raised" /\ pc' # "raised"
    <2>1. exception # "KeyError"
      BY <1>3 DEF EngineInv, QueueInv
    <2>2. Pacing
      BY <1>3, <2>1 DEF Pacing, Filling, Stepping, EngineInv, WriteInv
    <2>3. CASE Schedule
      BY <2>2, <2>3, SchedulePace
    <2>4. CASE Prepare \/ EndRequeue \/ Finalize \/ EndAdvance
      BY <2>2, <2>4, BetweenPace, SteadyNext
    <2>5. CASE Forward \/ Retry
      BY <2>2, <2>5, ForwardPace, RetryPace
    <2>6. CASE Requeue
      <3>1. PICK s : s = Head(oom_preempted)
        OBVIOUS
      <3> QED
        BY <2>2, <2>6, <3>1, RequeuePace
    <2>7. CASE Record \/ Sample
      <3>1. PICK s : s = Head(todo)
        OBVIOUS
      <3> QED
        BY <2>2, <2>7, <3>1, RecordPace, SamplePace
    <2>8. CASE Advance
      BY <2>2, <2>8, AdvancePace
    <2>9. CASE Generate \/ BeginStep \/ Return
      <3>1. ~EndDecode
        BY <2>9 DEF Generate, BeginStep, Return, StartSchedule, EndDecode
      <3>2. \A t \in Seqs : SamePace(t)
        BY <2>2, <2>9, <3>1, IdlePace
      <3> QED
        BY <2>2, <3>2, SteadyNext
    <2>10. CASE Stopped \/ UNCHANGED vars
      <3>1. UNCHANGED vars
        BY <2>10 DEF Stopped
      <3>2. \A t \in Seqs : SamePace(t)
        BY <2>2, <3>1, StillPace
      <3> QED
        BY <2>2, <3>2, SteadyNext
    <2>11. ~GenerateRejected /\ ~Abandon /\ ~Recover /\ ~GiveUp
      BY <1>3 DEF GenerateRejected, Abandon, Recover, GiveUp, Raise
    <2> QED
      BY <2>3, <2>4, <2>5, <2>6, <2>7, <2>8, <2>9, <2>10, <2>11 DEF EngineNext, EngineStep
  <1> QED
    BY <1>1, <1>2, <1>3

LEMMA PaceInvariant ==
    ASSUME ~ServeAfterError
    PROVE  EngineSpec /\ []Undisturbed => [](EngineInv /\ PaceInv)
  <1>1. EngineInit => PaceInv
    BY PaceInitially
  <1>2. /\ EngineInv /\ SlotInv /\ WriteInv /\ PaceInv /\ Undisturbed /\ [EngineNext]_vars
        /\ EngineInv'
        => PaceInv'
    BY PaceStep
  <1> QED
    BY <1>1, <1>2, WriteInvariant, PTL DEF EngineSpec

(* A slot mapping that the runner finds for a chunk is as long as the      *)
(* chunk: a mapping is kept for a first token that is read by the pass it  *)
(* was built for, and when that pass runs out of memory it is tried again  *)
(* with the same chunk.                                                    *)
THEOREM MappingsFit ==
    ASSUME ~ServeAfterError
    PROVE  EngineSpec /\ []Undisturbed => []GatherExact
  <1>1. ASSUME EngineInv, PaceInv PROVE GatherExact
    <2>1. SUFFICES ASSUME pc = "forward", batch_is_prefill, NEW s \in Range(batch)
                   PROVE  MappedTokens(s) = seq[s].num_scheduled_tokens
      BY DEF GatherExact, GatherFits
    <2>2. s \in Seqs /\ Paced(s)
      BY <1>1, <2>1, BatchMembers DEF PaceInv, EngineInv, QueueInv
    <2>3. ~Passed(s)
      BY <2>1 DEF Passed
    <2>4. Cached(s) \in Nat
      BY <1>1, <2>2 DEF EngineInv, QueueInv, SeqTypes, IsFields, Cached
    <2>5. ASSUME NEW e \in Kept(s) PROVE e.tokens = seq[s].num_scheduled_tokens
      <3>1. Mapping(s, e) /\ e.start = Cached(s)
        BY <2>1, <2>2 DEF Kept, First, Cached, Paced
      <3>2. ~(e.start < Progress(s))
        BY <2>3, <2>4, <3>1 DEF Progress
      <3> QED
        BY <3>1, <3>2 DEF Mapping, Scheduled
    <2> QED
      BY <2>5 DEF MappedTokens
  <1>2. EngineInv /\ PaceInv => GatherExact
    BY <1>1
  <1> QED
    BY <1>2, PaceInvariant, PTL

(* ... without a premise when nothing can disturb the engine.              *)
THEOREM MappingsFitInPlainEngine ==
    ASSUME PlainEngine PROVE EngineSpec => []GatherExact
  <1>1. ~ServeAfterError
    BY DEF PlainEngine
  <1> QED
    BY <1>1, NeverDisturbed, MappingsFit, PTL

-----------------------------------------------------------------------------
(* What is read is kept.  Up to where a sequence has read, its blocks hold *)
(* the keys and values of its tokens, and its slot the state after them,   *)
(* or it is about to get that state.                                       *)

Stores(s, n) ==
    \A p \in 0 .. (n - 1) :
        Mapped(s, p) /\ kv_cache[BlockAt(s, p)][p % BlockSize] = Read(s, p + 1)
Holds(s) == HasSlot(s) /\ State(s).recurrent = Read(s, Progress(s))

(* A prompt found whole in the cache has nothing left to read, and waits.  *)
Stuck(s) == s \in Range(waiting) /\ Cached(s) >= NumTokens(s)

(* The sequence that the step admits, until its state is set.              *)
Entering(s) ==
    \/ pc = "admit" /\ MayPrefill /\ s = Candidate
    \/ pc = "prepare" /\ batch_is_prefill /\ s \in Range(batch)
Restorable(s) ==
    /\ HasState(seq[s].prefix_restore_blocks)
    /\ Snapshot(seq[s].prefix_restore_blocks).state.recurrent = Read(s, Cached(s))

Ready(s) ==
    \/ Dropped(s)
    \/ Cached(s) = 0 /\ ~Passed(s)
    \/ Restoring(s)
    \/ Holds(s)

KeysKept(s) == ~Finished(s) => Stores(s, Progress(s))
Stated(s) ==
    /\ ~Finished(s) => Ready(s) /\ (Started(s) => Holds(s))
    /\ Restoring(s) => block_table[s] # <<>> /\ (Stuck(s) \/ (Entering(s) /\ Restorable(s)))

IsState(x) == x = [recurrent |-> x.recurrent, conv |-> x.conv] /\ x.recurrent \in Seq(Nat)
IsPool(pool) == pool = [i \in Slots |-> pool[i]] /\ \A i \in Slots : IsState(pool[i])
PoolTypes == IsPool(deltanet_pool)
StateTypes ==
    /\ PoolTypes
    /\ \A e \in Range(prefix_state_cache) : IsState(e.state)

(* A snapshot is the state after the tokens whose keys its blocks hold.    *)
SnapshotRead(e) ==
    /\ e.key # <<>> /\ Len(e.state.recurrent) = Len(e.key) * BlockSize
    /\ \A p \in 0 .. (Len(e.state.recurrent) - 1) :
         kv_cache[e.key[p \div BlockSize + 1]][p % BlockSize]
            = SubSeq(e.state.recurrent, 1, p + 1)
SnapInv == \A e \in Range(prefix_state_cache) : SnapshotRead(e)

ContextInv ==
    pc # "raised" => StateTypes /\ \A s \in Seqs : KeysKept(s) /\ Stated(s)

(* A step that leaves the state of t alone. *)
SameState(t) ==
    /\ seq'[t].prefix_restore_blocks = seq[t].prefix_restore_blocks
    /\ HasSlot(t) /\ ~Finished(t)' =>
         HasSlot(t)' /\ deltanet_pool'[seq_to_slot'[t]].recurrent = State(t).recurrent
    /\ Started(t)' => Started(t)
    /\ Dropped(t) => Dropped(t)'
    /\ t \in Range(waiting) => t \in Range(waiting')
    /\ Restoring(t) => Stuck(t)

(* What is true of the state of t is true after such a step, *)
LEMMA SteadyStated ==
    ASSUME NEW t \in Seqs, Stated(t), SamePace(t), SameState(t)
    PROVE  Stated(t)'
  <1>1. /\ Progress(t)' = Progress(t) /\ Cached(t)' = Cached(t)
        /\ token_ids'[t] = token_ids[t]
        /\ ~Finished(t)' => ~Finished(t)
    BY DEF Progress, Cached, Scheduled, SamePace
  <1>2. ~Finished(t)' /\ Holds(t) => Holds(t)'
    BY <1>1 DEF Holds, SameState, State, Read
  <1>3. ~Finished(t)' => Ready(t)'
    BY <1>1, <1>2 DEF Stated, Ready, SameState, SamePace, Restoring
  <1>4. ~Finished(t)' /\ Started(t)' => Holds(t)'
    BY <1>1, <1>2 DEF Stated, SameState
  <1>5. Restoring(t)' => block_table'[t] # <<>> /\ Stuck(t)'
    BY <1>1 DEF Stated, Restoring, SameState, SamePace, Stuck, NumTokens
  <1> QED
    BY <1>3, <1>4, <1>5 DEF Stated

(* ... and of its keys and values, when none are stored. *)
LEMMA SteadyKept ==
    ASSUME NEW t \in Seqs, KeysKept(t), SamePace(t), UNCHANGED kv_cache
    PROVE  KeysKept(t)'
  <1>1. /\ Progress(t)' = Progress(t) /\ block_table'[t] = block_table[t]
        /\ token_ids'[t] = token_ids[t]
        /\ ~Finished(t)' => ~Finished(t)
    BY DEF Progress, Cached, Scheduled, SamePace
  <1> QED
    BY <1>1 DEF KeysKept, Stores, Mapped, BlockAt, Read

(* Tokens and blocks are added behind what is read. *)
LEMMA GrownStores ==
    ASSUME NEW t \in Seqs, NEW n \in Nat, Stores(t, n), UNCHANGED kv_cache,
           NEW more \in Seq(Blocks), NEW new \in Seq(Nat),
           block_table[t] \in Seq(Blocks), block_table'[t] = block_table[t] \o more,
           token_ids[t] \in Seq(Nat), token_ids'[t] = token_ids[t] \o new, n <= NumTokens(t)
    PROVE  Stores(t, n)'
  <1>1. PICK q, r : q = block_table[t] /\ r = token_ids[t]
    OBVIOUS
  <1>2. PICK z \in Nat \ {0} : z = BlockSize
    BY PoolAssumption DEF PoolAssumption
  <1>3. SUFFICES ASSUME NEW p \in 0 .. (n - 1)
                 PROVE  (Mapped(t, p) /\ kv_cache[BlockAt(t, p)][p % BlockSize]
                                           = Read(t, p + 1))'
    BY DEF Stores
  <1>4. PICK i \in Nat : i = p \div z
    <2>1. p \in Nat
      OBVIOUS
    <2> QED
      BY <2>1, BlockOfPosition
  <1>5. i < Len(q) /\ kv_cache[q[i + 1]][p % z] = SubSeq(r, 1, p + 1)
    BY <1>1, <1>2, <1>4 DEF Stores, Mapped, BlockAt, Read
  <1>6. q \in Seq(Blocks) /\ r \in Seq(Nat) /\ p + 1 \in 1 .. Len(r)
    BY <1>1 DEF NumTokens
  <1>7. i < Len(q \o more) /\ (q \o more)[i + 1] = q[i + 1]
    <2>1. i + 1 \in 1 .. Len(q)
      <3>1. Len(q) \in Nat /\ i < Len(q)
        BY <1>5, <1>6
      <3> QED
        BY <3>1
    <2>2. Len(q \o more) = Len(q) + Len(more) /\ Len(q) \in Nat /\ Len(more) \in Nat
      BY <1>6
    <2>3. (q \o more)[i + 1] = q[i + 1]
      BY <1>6, <2>1
    <2> QED
      BY <2>1, <2>2, <2>3
  <1>8. SubSeq(r \o new, 1, p + 1) = SubSeq(r, 1, p + 1)
    BY <1>6, StartOfConcat
  <1> QED
    BY <1>1, <1>2, <1>4, <1>5, <1>7, <1>8 DEF Mapped, BlockAt, Read

(* A new slot is the state before the first token. *)
LEMMA ZeroIsState == IsState(ZeroState) /\ ZeroState.recurrent = <<>>
  BY EmptyList DEF ZeroState, IsState

(* The state of a slot that is freed goes, and no other. *)
LEMMA FreedStates ==
    ASSUME SlotsApart, PoolTypes, NEW ss \in Seq(Seqs), IsInjective(ss), FreeSlots(ss)
    PROVE  /\ PoolTypes'
           /\ \A t \in Seqs : HasSlot(t) /\ t \notin Range(ss) =>
                 HasSlot(t)' /\ deltanet_pool'[seq_to_slot'[t]] = State(t)
  <1>1. PICK held, given :
          /\ held = Only(ss, {s \in Seqs : HasSlot(s)})
          /\ given = [i \in DOMAIN held |-> seq_to_slot[held[i]]]
    OBVIOUS
  <1>2. /\ deltanet_pool' = [i \in Slots |-> IF i \in Range(given) THEN ZeroState
                                             ELSE deltanet_pool[i]]
        /\ seq_to_slot' = [s \in Seqs |-> IF s \in Range(ss) THEN NoSlot ELSE seq_to_slot[s]]
    BY <1>1 DEF FreeSlots
  <1>3. Range(held) = Range(ss) \cap {s \in Seqs : HasSlot(s)}
    BY <1>1, OnlyKeeps
  <1>4. ASSUME NEW t \in Seqs, HasSlot(t), t \notin Range(ss)
        PROVE  HasSlot(t)' /\ deltanet_pool'[seq_to_slot'[t]] = State(t)
    <2>1. seq_to_slot'[t] = seq_to_slot[t] /\ HasSlot(t)'
      BY <1>2, <1>4 DEF HasSlot
    <2>2. seq_to_slot[t] \in Slots
      BY <1>4 DEF SlotsApart, HasSlot
    <2>3. seq_to_slot[t] \notin Range(given)
      <3>1. SUFFICES ASSUME NEW i \in DOMAIN held, seq_to_slot[held[i]] = seq_to_slot[t]
                     PROVE  FALSE
        BY <1>1 DEF Range
      <3>2. held[i] \in Range(held)
        BY DEF Range
      <3>3. held[i] \in Seqs /\ held[i] = t
        BY <1>3, <1>4, <3>1, <3>2 DEF SlotsApart
      <3> QED
        BY <1>3, <1>4, <3>2, <3>3
    <2> QED
      BY <1>2, <2>1, <2>2, <2>3 DEF State
  <1>5. PoolTypes'
    BY <1>2, ZeroIsState DEF PoolTypes, IsPool
  <1> QED
    BY <1>4, <1>5

(* Before a pass each sequence of the batch has a slot with its start      *)
(* state, and the rest keep what they have.                                *)
LEMMA PreparedStates ==
    ASSUME SlotsApart, StateTypes, QueueTypes, IsInjective(batch), PrepareStates
    PROVE  /\ PoolTypes'
           /\ \A s \in Range(batch) :
                 HasSlot(s)' /\ deltanet_pool'[seq_to_slot'[s]] = StartState(s)
           /\ \A t \in Seqs : HasSlot(t) /\ t \notin Range(batch) =>
                 HasSlot(t)' /\ deltanet_pool'[seq_to_slot'[t]] = State(t)
           /\ \A s \in Range(batch) : HasSlot(s) => SlotFor(s) = seq_to_slot[s]
  <1>1. SlotsApart' /\ \A s \in Seqs : HasSlot(s)' <=> HasSlot(s) \/ s \in Range(batch)
    BY TakenSlots
  <1>2. Range(batch) \subseteq Seqs
    BY BatchMembers
  <1>3. PICK members : members = Range(batch)
    OBVIOUS
  <1>4. /\ seq_to_slot' = [s \in Seqs |-> SlotFor(s)]
        /\ deltanet_pool' = [i \in Slots |->
                IF \E s \in members : SlotFor(s) = i
                THEN StartState(CHOOSE s \in members : SlotFor(s) = i)
                ELSE deltanet_pool[i]]
    BY <1>3 DEF PrepareStates
  <1>5. \A s \in Seqs : seq_to_slot'[s] = SlotFor(s)
    BY <1>4
  <1>6. \A s \in members : s \in Seqs /\ SlotFor(s) \in Slots
    <2>1. TAKE s \in members
    <2>2. s \in Seqs /\ seq_to_slot'[s] \in Slots
      BY <1>1, <1>2, <1>3 DEF SlotsApart, HasSlot
    <2> QED
      BY <1>5, <2>2
  <1>7. \A s \in members, t \in Seqs : SlotFor(s) = SlotFor(t) => s = t
    <2>1. TAKE s \in members, t \in Seqs
    <2>2. seq_to_slot'[s] = SlotFor(s) /\ seq_to_slot'[t] = SlotFor(t) /\ HasSlot(s)'
      BY <1>1, <1>2, <1>3, <1>5
    <2> QED
      BY <1>1, <1>6, <2>2 DEF SlotsApart
  <1>8. ASSUME NEW s \in members
        PROVE  deltanet_pool'[SlotFor(s)] = StartState(s)
    <2>1. (CHOOSE u \in members : SlotFor(u) = SlotFor(s)) = s
      BY <1>6, <1>7
    <2> QED
      BY <1>4, <1>6, <2>1
  <1>9. ASSUME NEW t \in Seqs, HasSlot(t), t \notin members
        PROVE  HasSlot(t)' /\ deltanet_pool'[seq_to_slot'[t]] = State(t)
    <2>1. SlotFor(t) = seq_to_slot[t] /\ seq_to_slot[t] \in Slots /\ HasSlot(t)'
      BY <1>1, <1>9 DEF SlotFor, SlotsApart, HasSlot
    <2>2. ~\E s \in members : SlotFor(s) = SlotFor(t)
      BY <1>7, <1>9
    <2> QED
      BY <1>4, <1>5, <2>1, <2>2 DEF State
  <1>10. \A s \in members : IsState(StartState(s))
    <2>1. TAKE s \in members
    <2>2. PICK chain : chain = seq[s].prefix_restore_blocks
      OBVIOUS
    <2>3. HasState(chain) => Snapshot(chain) \in Range(prefix_state_cache)
      BY DEF HasState, Keys, Snapshot, Range
    <2>4. HasState(chain) => IsState(Snapshot(chain).state)
      BY <2>3 DEF StateTypes, PoolTypes, IsPool
    <2>5. IsState(deltanet_pool[SlotFor(s)])
      BY <1>6 DEF StateTypes, PoolTypes, IsPool
    <2> QED
      BY <2>2, <2>4, <2>5, ZeroIsState DEF StartState
  <1>11. PoolTypes'
    <2>1. ASSUME NEW i \in Slots PROVE IsState(deltanet_pool'[i])
      BY <1>4, <1>10 DEF StateTypes, PoolTypes, IsPool
    <2> QED
      BY <1>4, <2>1 DEF PoolTypes, IsPool, IsState
  <1> QED
    BY <1>1, <1>2, <1>3, <1>5, <1>8, <1>9, <1>11 DEF SlotFor

(* Reading a sequence in two parts is reading it. *)
LEMMA ReadOn ==
    ASSUME NEW q \in Seq(Nat), NEW c \in Nat, NEW m \in Nat, c + m <= Len(q)
    PROVE  /\ SubSeq(q, 1, c) \in Seq(Nat) /\ SubSeq(q, c + 1, c + m) \in Seq(Nat)
           /\ SubSeq(q, 1, c) \o SubSeq(q, c + 1, c + m) = SubSeq(q, 1, c + m)
           /\ Len(SubSeq(q, 1, c)) = c
           /\ m > 0 => SubSeq(q, c + 1, c + m) # <<>>
  OBVIOUS

(* A pass reads on from where its sequences stand. *)
LEMMA PassRange ==
    ASSUME Pacing, pc \in {"prepare", "forward"}, NEW s \in Range(batch)
    PROVE  /\ s \in Seqs /\ ~Finished(s) /\ Cached(s) \in Nat /\ Scheduled(s) \in Nat \ {0}
           /\ First(s) = Cached(s) /\ Past(s) = Cached(s) + Scheduled(s)
           /\ Past(s) <= NumTokens(s) /\ token_ids[s] \in Seq(Nat)
           /\ ~batch_is_prefill => Cached(s) > 0
  <1>1. /\ pc \in Running /\ SeqTypes /\ BatchInv /\ ChunkInv /\ QueuesApart
        /\ Range(batch) \subseteq Seqs /\ Unfinished \subseteq Seqs
        /\ \A t \in Seqs : Paced(t)
    BY PacingFacts DEF Running
  <1>2. s \in Seqs /\ s \in Unfinished /\ (s \in Range(waiting) \/ s \in Decoders)
    BY <1>1 DEF BatchInv, QueuesApart, Decoders
  <1>3. token_ids[s] \in Seq(Nat)
    BY <1>1, <1>2 DEF SeqTypes
  <1>4. PICK k, m, n \in Nat : k = Cached(s) /\ m = Scheduled(s) /\ n = NumTokens(s)
    <2>1. NumTokens(s) \in Nat
      BY <1>3 DEF NumTokens
    <2>2. Cached(s) \in Nat /\ Scheduled(s) \in Nat
      BY <1>1, <1>2 DEF SeqTypes, IsFields, Cached, Scheduled
    <2> QED
      BY <2>1, <2>2
  <1>5. InPass(s) /\ ~Sampled(s)
    BY <1>1 DEF InPass, Started, Sampled
  <1>6. Paced(s)
    BY <1>1, <1>2
  <1>7. CASE batch_is_prefill
    <2>1. First(s) = k /\ Past(s) = k + m
      BY <1>4, <1>7 DEF First, Past, Cached, Scheduled
    <2>2. m > 0
      BY <1>4, <1>5, <1>6, <1>7 DEF Paced, InPrefill
    <2>3. k + m <= n
      <3>1. CASE s \in Range(waiting)
        BY <1>1, <1>4, <1>7, <3>1 DEF ChunkInv, Cached, Scheduled
      <3>2. CASE s \in Decoders
        BY <1>4, <1>5, <1>6, <1>7, <3>2 DEF Paced, Due, Pending, InPrefill
      <3> QED
        BY <1>2, <3>1, <3>2
    <2> QED
      BY <1>2, <1>3, <1>4, <1>7, <2>1, <2>2, <2>3 DEF Unfinished
  <1>8. CASE ~batch_is_prefill
    <2>1. s \in Decoders
      BY <1>1, <1>2, <1>8 DEF BatchInv
    <2>2. k + 1 = n /\ k > 0
      BY <1>4, <1>5, <1>6, <1>8, <2>1 DEF Paced, Due, Pending, InPrefill
    <2>3. m = 1
      BY <1>4, <1>5, <1>6, <1>8 DEF Paced, Picked
    <2>4. First(s) = n - 1 /\ Past(s) = n
      BY <1>4, <1>8 DEF First, Past
    <2> QED
      BY <1>2, <1>3, <1>4, <1>8, <2>2, <2>3, <2>4 DEF Unfinished
  <1> QED
    BY <1>7, <1>8

(* What a pass adds to the state of a slot. *)
LEMMA PassInputs ==
    ASSUME Pacing, pc = "forward"
    PROVE  /\ \A s \in Range(batch) :
                 /\ HasSlot(s) /\ seq_to_slot[s] \in Slots
                 /\ Inputs(seq_to_slot[s]) = SubSeq(token_ids[s], First(s) + 1, Past(s))
                 /\ Inputs(seq_to_slot[s]) # <<>>
           /\ \A i \in Slots : Inputs(i) \in Seq(Nat)
           /\ \A t \in Seqs : HasSlot(t) /\ t \notin Range(batch) =>
                 seq_to_slot[t] \in Slots /\ Inputs(seq_to_slot[t]) = <<>>
  <1>1. SlotsApart /\ SlotHolders /\ Range(batch) \subseteq Seqs
    BY PacingFacts
  <1>2. ASSUME NEW s \in Range(batch)
        PROVE  /\ HasSlot(s) /\ seq_to_slot[s] \in Slots
               /\ Inputs(seq_to_slot[s]) = SubSeq(token_ids[s], First(s) + 1, Past(s))
               /\ SubSeq(token_ids[s], First(s) + 1, Past(s)) # <<>>
               /\ SubSeq(token_ids[s], First(s) + 1, Past(s)) \in Seq(Nat)
    <2>1. HasSlot(s) /\ seq_to_slot[s] \in Slots
      BY <1>1 DEF SlotHolders, SlotsApart, HasSlot
    <2>2. (CHOOSE t \in Range(batch) : seq_to_slot[t] = seq_to_slot[s]) = s
      BY <1>1, <2>1 DEF SlotsApart
    <2>3. Inputs(seq_to_slot[s]) = SubSeq(token_ids[s], First(s) + 1, Past(s))
      BY <2>2 DEF Inputs
    <2>4. PICK q, c, m : q = token_ids[s] /\ c = Cached(s) /\ m = Scheduled(s)
      OBVIOUS
    <2>5. /\ q \in Seq(Nat) /\ c \in Nat /\ m \in Nat \ {0} /\ First(s) = c /\ Past(s) = c + m
          /\ c + m <= Len(q)
      BY <2>4, PassRange DEF NumTokens
    <2>6. SubSeq(q, c + 1, c + m) # <<>> /\ SubSeq(q, c + 1, c + m) \in Seq(Nat)
      BY <2>5, ReadOn
    <2> QED
      BY <2>1, <2>3, <2>4, <2>5, <2>6
  <1>3. ASSUME NEW i \in Slots PROVE Inputs(i) \in Seq(Nat)
    <2>1. CASE \E s \in Range(batch) : seq_to_slot[s] = i
      BY <1>2, <2>1
    <2>2. CASE ~\E s \in Range(batch) : seq_to_slot[s] = i
      BY <2>2, EmptyList DEF Inputs
    <2> QED
      BY <2>1, <2>2
  <1>4. ASSUME NEW t \in Seqs, HasSlot(t), t \notin Range(batch)
        PROVE  seq_to_slot[t] \in Slots /\ Inputs(seq_to_slot[t]) = <<>>
    <2>1. ~\E s \in Range(batch) : seq_to_slot[s] = seq_to_slot[t]
      BY <1>1, <1>4 DEF SlotsApart
    <2> QED
      BY <1>1, <1>4, <2>1 DEF Inputs, SlotsApart, HasSlot
  <1> QED
    BY <1>2, <1>3, <1>4

(* A pass writes the two states of a slot one after the other. *)
LEMMA ConvWritten ==
    ASSUME NEW x, IsState(x), NEW v, NEW y, y = [x EXCEPT !.conv = v]
    PROVE  IsState(y) /\ y.recurrent = x.recurrent
  <1>1. PICK r, c : r \in Seq(Nat) /\ x = [recurrent |-> r, conv |-> c]
    BY DEF IsState
  <1>2. y = [recurrent |-> r, conv |-> v]
    BY <1>1
  <1> QED
    BY <1>1, <1>2 DEF IsState

(* The recurrent one makes the slot ready for the next pass. *)
LEMMA RecurrentWritten ==
    ASSUME NEW x, IsState(x), NEW w, w \in Seq(Nat), NEW y, y = [x EXCEPT !.recurrent = w]
    PROVE  IsState(y) /\ y.recurrent = w
  <1>1. PICK r, c : r \in Seq(Nat) /\ x = [recurrent |-> r, conv |-> c]
    BY DEF IsState
  <1>2. y = [recurrent |-> w, conv |-> c]
    BY <1>1
  <1> QED
    BY <1>2 DEF IsState

(* The states of a pass, half way and in full. *)
LEMMA AdvancedStates ==
    ASSUME PoolTypes, \A i \in Slots : Inputs(i) \in Seq(Nat)
    PROVE  /\ IsPool(ConvAdvanced) /\ IsPool(Advanced)
           /\ \A i \in Slots : /\ ConvAdvanced[i].recurrent = deltanet_pool[i].recurrent
                               /\ Advanced[i].recurrent = deltanet_pool[i].recurrent \o Inputs(i)
  <1>1. PICK p, c, a : p = deltanet_pool /\ c = ConvAdvanced /\ a = Advanced
    OBVIOUS
  <1>2. ASSUME NEW i \in Slots
        PROVE  /\ IsState(c[i]) /\ c[i].recurrent = p[i].recurrent
               /\ IsState(a[i]) /\ a[i].recurrent = p[i].recurrent \o Inputs(i)
    <2>1. PICK x, y, z, v : x = p[i] /\ y = c[i] /\ z = a[i] /\ v = ConvAfter(p[i].conv, Inputs(i))
      OBVIOUS
    <2>2. IsState(x)
      BY <1>1, <2>1 DEF PoolTypes, IsPool
    <2>3. y = x \/ y = [x EXCEPT !.conv = v]
      BY <1>1, <2>1 DEF ConvAdvanced
    <2>4. IsState(y) /\ y.recurrent = x.recurrent
      BY <2>2, <2>3, ConvWritten, Zenon
    <2>5. PICK w : w = y.recurrent \o Inputs(i)
      OBVIOUS
    <2>6. z = [y EXCEPT !.recurrent = w]
      BY <1>1, <2>1, <2>5 DEF Advanced
    <2>7. w \in Seq(Nat)
      <3>1. PICK r \in Seq(Nat), new \in Seq(Nat) : r = y.recurrent /\ new = Inputs(i)
        BY <2>4 DEF IsState
      <3>2. r \o new \in Seq(Nat)
        OBVIOUS
      <3> QED
        BY <2>5, <3>1, <3>2
    <2>8. IsState(z) /\ z.recurrent = w
      BY <2>4, <2>6, <2>7, RecurrentWritten, Zenon
    <2> QED
      BY <2>1, <2>4, <2>5, <2>8
  <1>3. c = [i \in Slots |-> c[i]] /\ a = [i \in Slots |-> a[i]]
    BY <1>1 DEF ConvAdvanced, Advanced
  <1> QED
    BY <1>1, <1>2, <1>3 DEF IsPool

(* A position is told by its block and its place in it. *)
LEMMA SamePosition ==
    ASSUME NEW p \in Nat, NEW r \in Nat, NEW z \in Nat \ {0}
    PROVE  /\ p % z \in 0 .. (z - 1)
           /\ p \div z = r \div z /\ p % z = r % z => p = r
  OBVIOUS

(* A pass writes at and past the first unread token. *)
LEMMA WritesUnsettled ==
    ASSUME Pacing, SettledRead, pc = "forward", NEW s \in Range(batch), NEW p \in Positions(s),
           Mapped(s, p)
    PROVE  /\ p \in Nat /\ Cached(s) <= p
           /\ BlockAt(s, p) \in Range(block_table[s]) /\ ~Settled(BlockAt(s, p))
  <1>1. /\ s \in Seqs /\ First(s) = Cached(s) /\ Cached(s) \in Nat
        /\ block_table \in [Seqs -> Seq(Blocks)]
    BY PassRange, PacingFacts
  <1>2. PICK c \in Nat : c = Cached(s)
    BY <1>1
  <1>3. p \in Nat /\ c <= p
    BY <1>1, <1>2 DEF Positions
  <1>4. PICK z \in Nat \ {0} : z = BlockSize
    BY PoolAssumption DEF PoolAssumption
  <1>5. PICK d \in Nat : d = p \div z /\ p < (d + 1) * z
    BY <1>3, <1>4, BlockOfPosition
  <1>6. PICK q, i, b : q = block_table[s] /\ i = d + 1 /\ b = q[i]
    OBVIOUS
  <1>7. BlockAt(s, p) = b /\ d < Len(q)
    BY <1>4, <1>5, <1>6 DEF BlockAt, Mapped
  <1>8. q \in Seq(Blocks)
    BY <1>1, <1>6
  <1>9. i \in DOMAIN q
    BY <1>6, <1>7, <1>8
  <1>10. ~Settled(b)
    <2>1. Settled(b) => i * z <= c
      BY <1>1, <1>2, <1>4, <1>6, <1>9 DEF SettledRead, Cached
    <2>2. i * z \in Nat /\ p < i * z
      BY <1>4, <1>5, <1>6
    <2> QED
      BY <1>2, <1>3, <2>1, <2>2
  <1>11. b \in Range(block_table[s])
    BY <1>6, <1>9 DEF Range
  <1> QED
    BY <1>2, <1>3, <1>7, <1>10, <1>11

(* No other sequence and no other position writes what t reads. *)
LEMMA WrittenAlone ==
    ASSUME Pacing, SettledRead, pc = "forward", NEW t \in Seqs, NEW p \in Nat, Mapped(t, p),
           NEW w \in Writes(BlockAt(t, p), p % BlockSize)
    PROVE  w = <<t, p>> /\ t \in Range(batch) /\ p \in Positions(t)
  <1>1. PICK u, r, b, z : /\ u = w[1] /\ r = w[2] /\ b = BlockAt(t, p) /\ z = BlockSize
    OBVIOUS
  <1>2. /\ w = <<u, r>> /\ u \in Range(batch) /\ r \in Positions(u) /\ Mapped(u, r)
        /\ BlockAt(u, r) = b /\ r % z = p % z
    BY <1>1 DEF Writes
  <1>3. /\ u \in Seqs /\ PoolInv /\ block_table \in [Seqs -> Seq(Blocks)] /\ z \in Nat \ {0}
    BY <1>1, <1>2, PacingFacts, PoolAssumption DEF PoolAssumption
  <1>4. r \in Nat /\ b \in Range(block_table[u]) /\ ~Settled(b)
    BY <1>2, WritesUnsettled
  <1>5. PICK q \in Seq(Blocks) : q = block_table[t]
    BY <1>3
  <1>6. PICK i \in Nat, k \in Nat : i = p \div z /\ k = r \div z
    BY <1>3, <1>4, BlockOfPosition
  <1>7. i < Len(q) /\ q[i + 1] = b
    BY <1>1, <1>5, <1>6 DEF Mapped, BlockAt
  <1>8. i + 1 \in DOMAIN q
    BY <1>7
  <1>9. b \in Range(block_table[t])
    BY <1>5, <1>7, <1>8 DEF Range
  <1>10. u = t
    BY <1>3, <1>4, <1>9, TwoHolders DEF Settled
  <1>11. k < Len(q) /\ q[k + 1] = b
    BY <1>1, <1>2, <1>5, <1>6, <1>10 DEF Mapped, BlockAt
  <1>12. k + 1 \in DOMAIN q
    BY <1>11
  <1>13. IsInjective(q)
    BY <1>3, <1>5, TableInjective
  <1>14. k + 1 = i + 1
    BY <1>7, <1>8, <1>11, <1>12, <1>13 DEF IsInjective
  <1>15. r = p
    <2>1. i = k
      BY <1>14
    <2>2. p \div z = r \div z /\ p % z = r % z
      BY <1>2, <1>6, <2>1
    <2>3. p \in Nat /\ r \in Nat /\ z \in Nat \ {0}
      BY <1>3, <1>4
    <2> QED
      BY <2>2, <2>3, SamePosition
  <1> QED
    BY <1>2, <1>10, <1>15

(* A position within k blocks is in one of them. *)
LEMMA QuotientBelow ==
    ASSUME NEW p \in Nat, NEW k \in Nat, NEW z \in Nat \ {0}, p < k * z
    PROVE  p \div z \in Nat /\ p \div z < k
  OBVIOUS

(* A place that the pass does not write stays as it is. *)
LEMMA KeptBytes ==
    ASSUME NEW b \in Blocks, NEW p \in Nat, Writes(b, p % BlockSize) = {}, kv_cache' = Stored
    PROVE  kv_cache'[b][p % BlockSize] = kv_cache[b][p % BlockSize]
  <1>1. PICK z, o : z \in Nat \ {0} /\ z = BlockSize /\ o = p % z
    BY PoolAssumption DEF PoolAssumption
  <1>2. o \in 0 .. (z - 1)
    BY <1>1, SamePosition
  <1> QED
    BY <1>1, <1>2 DEF Stored

(* A pass stores the keys and values of the tokens it reads. *)
LEMMA PassStores ==
    ASSUME Pacing, SettledRead, pc = "forward", ForwardPass, NEW t \in Range(batch),
           NEW p \in Nat, Cached(t) <= p, p < Cached(t) + Scheduled(t)
    PROVE  Mapped(t, p) /\ kv_cache'[BlockAt(t, p)][p % BlockSize] = Read(t, p + 1)
  <1>1. /\ t \in Seqs /\ First(t) = Cached(t) /\ Past(t) = Cached(t) + Scheduled(t)
        /\ Cached(t) \in Nat /\ Scheduled(t) \in Nat \ {0} /\ Past(t) <= NumTokens(t)
    BY PassRange
  <1>2. PICK c, m \in Nat : c = Cached(t) /\ m = Scheduled(t)
    BY <1>1
  <1>3. PICK n \in Nat, top \in Nat : n = NumTokens(t) /\ top = MaxLen /\ n <= top
    <2>1. NumTokens(t) \in Lengths /\ MaxLen \in Nat
      BY <1>1, PacingFacts, LengthOK, PoolAssumption DEF PoolAssumption
    <2> QED
      BY <2>1 DEF Lengths
  <1>4. p \in Positions(t)
    <2>1. c <= p /\ p < c + m /\ c + m <= n
      BY <1>1, <1>2, <1>3
    <2>2. p \in 0 .. top
      BY <1>2, <1>3, <2>1
    <2> QED
      BY <1>1, <1>2, <1>3, <2>1, <2>2 DEF Positions
  <1>5. Mapped(t, p)
    <2>1. CASE batch_is_prefill
      <3>1. EngineInv /\ WriteInv
        BY DEF Pacing, Filling, Stepping, EngineInv, WriteInv
      <3>2. WritesOwnBlocks
        BY <3>1, WritesOwn
      <3> QED
        BY <1>4, <2>1, <3>2 DEF WritesOwnBlocks
    <2>2. CASE ~batch_is_prefill
      <3>1. First(t) = n - 1 /\ Past(t) = n
        BY <1>3, <2>2 DEF First, Past
      <3>2. p = n - 1
        <4>1. n - 1 <= p /\ p < n
          BY <1>1, <3>1
        <4> QED
          BY <1>3, <4>1
      <3>3. Mapped(t, n - 1)
        BY <1>3, <2>2 DEF ForwardPass, InputsFit, TablesCover
      <3> QED
        BY <3>2, <3>3
    <2> QED
      BY <2>1, <2>2
  <1>6. PICK b, o, z : b = BlockAt(t, p) /\ o = p % z /\ z = BlockSize
    OBVIOUS
  <1>7. b \in Blocks /\ o \in 0 .. (z - 1)
    <2>1. b \in Range(block_table[t])
      BY <1>4, <1>5, <1>6, WritesUnsettled
    <2>2. b \in Blocks
      BY <1>1, <2>1, PacingFacts DEF Range
    <2>3. z \in Nat \ {0}
      BY <1>6, PoolAssumption DEF PoolAssumption
    <2> QED
      BY <1>6, <2>2, <2>3, SamePosition
  <1>8. \A w \in Writes(b, o) : w = <<t, p>>
    BY <1>1, <1>5, <1>6, WrittenAlone
  <1>9. <<t, p>> \in Writes(b, o)
    <2>1. p \in 0 .. MaxLen
      BY <1>4 DEF Positions
    <2> QED
      BY <1>4, <1>5, <1>6, <2>1 DEF Writes
  <1>10. (CHOOSE w \in Writes(b, o) : TRUE) = <<t, p>>
    BY <1>8, <1>9
  <1>11. Stored[b][o] = Read(t, p + 1)
    BY <1>6, <1>7, <1>9, <1>10 DEF Stored
  <1> QED
    BY <1>5, <1>6, <1>11 DEF ForwardPass

(* What is read stays where it is, and the pass adds to it. *)
LEMMA ForwardStores ==
    ASSUME Pacing, SettledRead, pc = "forward", ForwardPass, UNCHANGED <<block_table, token_ids>>,
           NEW t \in Seqs, NEW n \in Nat, Stores(t, n), t \in Range(batch) => n = Cached(t),
           NEW m \in Nat, m = IF t \in Range(batch) THEN n + Scheduled(t) ELSE n
    PROVE  Stores(t, m)'
  <1>1. SUFFICES ASSUME NEW p \in 0 .. (m - 1)
                 PROVE  Mapped(t, p) /\ kv_cache'[BlockAt(t, p)][p % BlockSize] = Read(t, p + 1)
    BY DEF Stores, Mapped, BlockAt, Read
  <1>2. p \in Nat /\ p < m
    OBVIOUS
  <1>3. CASE p < n
    <2>1. Mapped(t, p) /\ kv_cache[BlockAt(t, p)][p % BlockSize] = Read(t, p + 1)
      <3>1. p \in 0 .. (n - 1)
        BY <1>2, <1>3
      <3> QED
        BY <3>1 DEF Stores
    <2>2. PICK b : b = BlockAt(t, p)
      OBVIOUS
    <2>3. Writes(b, p % BlockSize) = {}
      <3>1. SUFFICES ASSUME NEW w \in Writes(b, p % BlockSize) PROVE FALSE
        OBVIOUS
      <3>2. t \in Range(batch) /\ p \in Positions(t)
        BY <1>2, <2>1, <2>2, WrittenAlone
      <3>3. Cached(t) <= p
        BY <2>1, <3>2, WritesUnsettled
      <3>4. n <= p
        BY <3>2, <3>3
      <3> QED
        BY <1>2, <1>3, <3>4
    <2>4. b \in Blocks
      <3>1. PICK q \in Seq(Blocks) : q = block_table[t]
        BY PacingFacts
      <3>2. PICK i \in Nat : i = p \div BlockSize
        BY <1>2, BlockOfPosition, PoolAssumption DEF PoolAssumption
      <3>3. i < Len(q) /\ b = q[i + 1]
        BY <2>1, <2>2, <3>1, <3>2 DEF Mapped, BlockAt
      <3> QED
        BY <3>3
    <2>5. kv_cache'[b][p % BlockSize] = kv_cache[b][p % BlockSize]
      BY <1>2, <2>3, <2>4, KeptBytes DEF ForwardPass
    <2> QED
      BY <2>1, <2>2, <2>5
  <1>4. CASE ~(p < n)
    <2>1. t \in Range(batch)
      BY <1>2, <1>4
    <2>2. Cached(t) <= p /\ p < Cached(t) + Scheduled(t)
      BY <1>2, <1>4, <2>1
    <2> QED
      BY <1>2, <2>1, <2>2, PassStores
  <1> QED
    BY <1>3, <1>4

(* A pass leaves the blocks of the snapshots alone. *)
LEMMA ForwardSnapshots ==
    ASSUME Pacing, SettledRead, pc = "forward", ForwardPass, SnapInv
    PROVE  \A e \in Range(prefix_state_cache) : SnapshotRead(e)'
  <1>1. SUFFICES ASSUME NEW e \in Range(prefix_state_cache),
                        NEW p \in 0 .. (Len(e.state.recurrent) - 1)
                 PROVE  kv_cache'[e.key[p \div BlockSize + 1]][p % BlockSize]
                           = kv_cache[e.key[p \div BlockSize + 1]][p % BlockSize]
    BY DEF SnapInv, SnapshotRead
  <1>2. PICK z, key : z \in Nat \ {0} /\ z = BlockSize /\ key = e.key
    BY PoolAssumption DEF PoolAssumption
  <1>3. PICK k, i \in Nat : k = Len(key) /\ i = p \div z /\ i < k /\ p \in Nat
    <2>1. e.key \in Chains /\ PoolInv
      BY PacingFacts DEF KeysLive, SnapInv, SnapshotRead
    <2>2. Len(key) \in Nat
      BY <1>2, <2>1, PacingFacts DEF Chains
    <2>3. PICK k, l : k \in Nat /\ k = Len(key) /\ l = Len(e.state.recurrent)
      BY <2>2
    <2>4. l = k * z /\ p \in 0 .. (l - 1)
      BY <1>1, <1>2, <2>3 DEF SnapInv, SnapshotRead
    <2>5. p \in Nat /\ p < k * z
      BY <2>4
    <2>6. p \div z \in Nat /\ p \div z < k
      BY <1>2, <2>3, <2>5, QuotientBelow
    <2> QED
      BY <2>3, <2>5, <2>6
  <1>4. PICK b : b = key[i + 1]
    OBVIOUS
  <1>5. b \in Keyed
    <2>1. e.key \in Chains
      BY PacingFacts DEF KeysLive, SnapInv, SnapshotRead
    <2>2. i + 1 \in DOMAIN key
      BY <1>2, <1>3, <2>1, PacingFacts DEF Chains
    <2> QED
      BY <1>2, <1>4, <2>2 DEF Keyed, Range
  <1>6. b \in Blocks
    BY <1>5, PacingFacts, KeyedHeld
  <1>7. Writes(b, p % BlockSize) = {}
    <2>1. SUFFICES ASSUME NEW w \in Writes(b, p % BlockSize) PROVE FALSE
      OBVIOUS
    <2>2. PICK u, r : /\ u = w[1] /\ r = w[2] /\ u \in Range(batch) /\ r \in Positions(u)
                      /\ Mapped(u, r) /\ BlockAt(u, r) = b
      BY DEF Writes
    <2>3. ~Settled(b)
      BY <2>2, WritesUnsettled
    <2> QED
      BY <1>5, <2>3 DEF Settled
  <1>8. kv_cache'[b][p % BlockSize] = kv_cache[b][p % BlockSize]
    BY <1>3, <1>6, <1>7, KeptBytes DEF ForwardPass
  <1> QED
    BY <1>2, <1>3, <1>4, <1>8

(* A step of the engine while what is read is what it should be. *)
Reading ==
    /\ Pacing /\ SettledRead /\ ContextInv /\ SnapInv
    /\ EnablePrefixCaching => HitsExact
    /\ "resumed" \notin LateOOM

(* What is cited of such a step. *)
LEMMA ReadingFacts ==
    ASSUME Reading
    PROVE  /\ Pacing /\ SettledRead /\ SnapInv /\ StateTypes /\ PoolTypes
           /\ EnablePrefixCaching => HitsExact
           /\ \A t \in Seqs : KeysKept(t) /\ Stated(t)
           /\ \A t \in Seqs : Restoring(t) => Stuck(t) \/ Entering(t)
           /\ \A t \in Seqs : block_table[t] = <<>> => ~Restoring(t)
           /\ \A t \in Seqs : Stuck(t) => t \in Range(waiting)
           /\ pc # "raised" /\ pc' # "raised"
  <1>1. pc # "raised" /\ pc' # "raised" /\ StateTypes /\ \A t \in Seqs : KeysKept(t) /\ Stated(t)
    BY DEF Reading, Pacing, ContextInv
  <1> QED
    BY <1>1 DEF Reading, Stated, StateTypes, Stuck

(* Only a pass stores keys and values. *)
LEMMA KeysUnwritten ==
    ASSUME [EngineNext]_vars, ~ServeAfterError, ~(Forward /\ ForwardPass)
    PROVE  UNCHANGED kv_cache
  BY DEF EngineNext, EngineStep, Generate, GenerateRejected, Abandon, BeginStep, Schedule,
         ScheduleDecode, SchedulePreempt, EndDecode, AdmitShared, AdmitFresh, EndSchedule,
         Prepare, Forward, RejectedPass, Retry, OutOfMemory, GiveUp, Requeue, EndRequeue,
         Record, Sample, Finalize, Advance, EndAdvance, Return, Recover, Stopped,
         AdvancePreempt, TryPreempt, PreemptSeq, runnerVars, vars

(* Only postprocess() saves a snapshot. *)
LEMMA StatesWithin ==
    ASSUME QueueTypes, IsList(prefix_state_cache), [EngineNext]_vars, ~Record
    PROVE  Range(prefix_state_cache') \subseteq Range(prefix_state_cache)
  <1>1. ASSUME NEW s, ReleaseBlocks(s)
        PROVE  Range(prefix_state_cache') \subseteq Range(prefix_state_cache)
    BY <1>1, EvictedWithin DEF ReleaseBlocks
  <1>2. ASSUME NEW s, TryPreempt(s)
        PROVE  Range(prefix_state_cache') \subseteq Range(prefix_state_cache)
    BY <1>1, <1>2 DEF TryPreempt, PreemptSeq
  <1>3. CASE Schedule
    <2>1. CASE SchedulePreempt
      BY <1>2, <2>1 DEF SchedulePreempt
    <2>2. CASE ~SchedulePreempt
      <3>1. UNCHANGED prefix_state_cache
        BY <1>3, <2>2 DEF Schedule, ScheduleDecode, EndDecode, AdmitShared, AdmitFresh,
                          EndSchedule, runnerVars
      <3> QED
        BY <3>1
    <2> QED
      BY <2>1, <2>2
  <1>4. CASE Prepare
    <2>1. CASE PrepareStates
      BY <2>1, RestoresWithin
    <2>2. CASE UNCHANGED prefix_state_cache
      BY <2>2
    <2> QED
      BY <1>4, <2>1, <2>2 DEF Prepare
  <1>5. CASE Requeue
    BY <1>1, <1>5 DEF Requeue
  <1>6. CASE Sample
    <2>1. CASE UNCHANGED prefix_state_cache
      BY <2>1
    <2>2. CASE ~UNCHANGED prefix_state_cache
      BY <1>1, <1>6, <2>2 DEF Sample, AppendToken, Finish
    <2> QED
      BY <2>1, <2>2
  <1>7. CASE Advance
    <2>1. CASE UNCHANGED prefix_state_cache
      BY <2>1
    <2>2. CASE ~UNCHANGED prefix_state_cache
      BY <1>2, <1>7, <2>2 DEF Advance, AdvancePreempt, runnerVars
    <2> QED
      BY <2>1, <2>2
  <1>8. CASE \/ Generate \/ GenerateRejected \/ Abandon \/ Stopped \/ BeginStep \/ Forward
             \/ Retry \/ GiveUp \/ EndRequeue \/ Finalize \/ EndAdvance \/ Return \/ Recover
             \/ UNCHANGED vars
    <2>1. UNCHANGED prefix_state_cache
      BY <1>8 DEF Generate, GenerateRejected, Abandon, Stopped, BeginStep, Forward, Retry,
                  OutOfMemory, GiveUp, EndRequeue, Finalize, EndAdvance, Return, Recover,
                  runnerVars, vars
    <2> QED
      BY <2>1
  <1> QED
    BY <1>3, <1>4, <1>5, <1>6, <1>7, <1>8 DEF EngineNext, EngineStep

(* A step is proved for the sequences it is about. *)
LEMMA ContextNext ==
    ASSUME Reading, NEW moved, \A t \in Seqs : t \in moved \/ (SamePace(t) /\ SameState(t)),
           UNCHANGED kv_cache, PoolTypes',
           \A e \in Range(prefix_state_cache') : IsState(e.state),
           \A t \in moved : KeysKept(t)' /\ Stated(t)'
    PROVE  ContextInv'
  <1>1. \A t \in Seqs : KeysKept(t)' /\ Stated(t)'
    BY ReadingFacts, SteadyStated, SteadyKept
  <1> QED
    BY <1>1 DEF ContextInv, StateTypes

(* Where no snapshot is saved, each is one that was there before. *)
LEMMA KnownStates ==
    ASSUME Reading, Range(prefix_state_cache') \subseteq Range(prefix_state_cache)
    PROVE  \A e \in Range(prefix_state_cache') : IsState(e.state)
  BY ReadingFacts DEF StateTypes

(* Where neither the slots nor the states change. *)
SameSlotsAndStates == UNCHANGED <<seq_to_slot, deltanet_pool>>

(* A step that moves neither slots nor states leaves t its state. *)
LEMMA StillState ==
    ASSUME Reading, NEW t \in Seqs, ~Entering(t), SameSlotsAndStates,
           seq'[t].prefix_restore_blocks = seq[t].prefix_restore_blocks,
           Started(t)' => Started(t), Dropped(t) => Dropped(t)',
           t \in Range(waiting) => t \in Range(waiting')
    PROVE  SameState(t) /\ PoolTypes'
  <1>1. HasSlot(t) => HasSlot(t)' /\ deltanet_pool'[seq_to_slot'[t]].recurrent = State(t).recurrent
    BY DEF SameSlotsAndStates, HasSlot, State
  <1>2. Restoring(t) => Stuck(t)
    BY ReadingFacts
  <1>3. PoolTypes'
    BY ReadingFacts DEF PoolTypes, SameSlotsAndStates
  <1> QED
    BY <1>1, <1>2, <1>3 DEF SameState

(* A step that is about none of them. *)
LEMMA SteadyContext ==
    ASSUME Reading, \A t \in Seqs : SamePace(t), \A t \in Seqs : SameState(t),
           UNCHANGED kv_cache, PoolTypes',
           \A e \in Range(prefix_state_cache') : IsState(e.state)
    PROVE  ContextInv'
  <1>1. PICK moved : moved = {}
    OBVIOUS
  <1>2. \A t \in Seqs : t \in moved \/ (SamePace(t) /\ SameState(t))
    OBVIOUS
  <1>3. \A t \in moved : KeysKept(t)' /\ Stated(t)'
    BY <1>1
  <1> QED
    BY <1>2, <1>3, ContextNext

(* Between calls and steps. *)
LEMMA IdleContext ==
    ASSUME Reading, Generate \/ BeginStep \/ EndDecode, EndDecode => UNCHANGED stepVars
    PROVE  ContextInv'
  <1>1. /\ UNCHANGED <<seq, seq_to_slot, deltanet_pool, kv_cache, prefix_state_cache>>
        /\ pc \in {"idle", "decode"} /\ pc' \in {"idle", "decode", "admit"}
    BY DEF Generate, BeginStep, StartSchedule, EndDecode, Goto, seqVars, runnerVars
  <1>2. Range(waiting) \subseteq Range(waiting')
    <2>1. CASE Generate
      <3>0. PICK new \in SUBSET (Seqs \ submitted) :
              \E q \in SetToSeqs(new) : waiting' = waiting \o q
        BY <2>1 DEF Generate
      <3>1. PICK q \in SetToSeqs(new) : waiting' = waiting \o q
        BY <3>0
      <3>2. IsFiniteSet(new)
        BY FS_Subset, PoolAssumption DEF PoolAssumption
      <3>3. PICK w : w = waiting
        OBVIOUS
      <3>4. q \in Seq(Seqs)
        <4>1. q \in Seq(new)
          BY <3>2, OrderingOf
        <4> QED
          BY <4>1
      <3>5. w \in Seq(Seqs)
        BY <3>3, ReadingFacts, PacingFacts DEF QueueTypes
      <3>6. Range(w \o q) = Range(w) \cup Range(q)
        BY <3>4, <3>5, RangeOfConcat
      <3> QED
        BY <3>1, <3>3, <3>6
    <2>2. CASE BeginStep \/ EndDecode
      <3>1. UNCHANGED waiting
        BY <2>2 DEF BeginStep, EndDecode, queueVars
      <3> QED
        BY <3>1
    <2> QED
      BY <2>1, <2>2
  <1>3. \A t \in Seqs : SamePace(t)
    BY ReadingFacts, IdlePace
  <1>4. \A t \in Seqs : ~Entering(t) /\ ~Started(t)' /\ ~Dropped(t)
    BY <1>1 DEF Entering, Started, Passed, Dropped, Running
  <1>5. \A t \in Seqs : SameState(t)
    BY <1>1, <1>2, <1>4, StillState DEF SameSlotsAndStates
  <1>6. PoolTypes' /\ \A e \in Range(prefix_state_cache') : IsState(e.state)
    BY <1>1, ReadingFacts, KnownStates DEF PoolTypes
  <1> QED
    BY <1>1, <1>3, <1>5, <1>6, SteadyContext

(* Nobody is left when a call returns. *)
LEMMA ReturnContext ==
    ASSUME Reading, Return
    PROVE  ContextInv'
  <1>1. /\ UNCHANGED <<seq, kv_cache, prefix_state_cache, waiting>>
        /\ pc = "idle" /\ pc' = "idle" /\ waiting = <<>> /\ running = <<>>
    BY DEF Return, is_finished, seqVars, queueVars
  <1>2. PICK ss : ss = SetToSeq(call \cap all_seqs)
    OBVIOUS
  <1>3. FreeSlots(ss)
    BY <1>2 DEF Return, Cleanup
  <1>4. ss \in Seq(Seqs) /\ IsInjective(ss)
    <2>1. PICK S : S = call \cap all_seqs
      OBVIOUS
    <2>2. S \subseteq Seqs
      BY <2>1, ReadingFacts, SteppingFacts DEF Pacing, Filling
    <2>3. IsFiniteSet(S)
      BY <2>2, FS_Subset, PoolAssumption DEF PoolAssumption
    <2>4. SetToSeq(S) \in Seq(S) /\ IsInjective(SetToSeq(S))
      BY <2>3, SomeOrderingOf
    <2> QED
      BY <1>2, <2>1, <2>2, <2>4
  <1>5. PoolTypes'
    <2>1. SlotsApart /\ PoolTypes
      BY ReadingFacts, PacingFacts
    <2> QED
      BY <1>3, <1>4, <2>1, FreedStates
  <1>6. \A t \in Seqs : ~HasSlot(t)
    <2>1. QueuesApart /\ LoopInv /\ SlotHolders
      BY ReadingFacts, PacingFacts
    <2>2. Unfinished = {}
      BY <1>1, <2>1, EmptyList DEF QueuesApart, LoopInv
    <2> QED
      BY <1>1, <2>1, <2>2 DEF SlotHolders
  <1>7. \A t \in Seqs : ~Entering(t) /\ ~Started(t)' /\ ~Dropped(t)
    BY <1>1 DEF Entering, Started, Passed, Dropped, Running
  <1>8. \A t \in Seqs : SameState(t)
    BY <1>1, <1>6, <1>7, ReadingFacts DEF SameState
  <1>9. \A t \in Seqs : SamePace(t)
    <2>1. ~EndDecode
      BY <1>1 DEF EndDecode
    <2> QED
      BY <2>1, ReadingFacts, IdlePace
  <1>10. \A e \in Range(prefix_state_cache') : IsState(e.state)
    BY <1>1, KnownStates
  <1> QED
    BY <1>1, <1>5, <1>8, <1>9, <1>10, SteadyContext

(* Between the passes of a step. *)
LEMMA BetweenContext ==
    ASSUME Reading, EndRequeue \/ EndAdvance
    PROVE  ContextInv'
  <1>1. /\ UNCHANGED <<seq, seq_to_slot, deltanet_pool, kv_cache, prefix_state_cache, waiting>>
        /\ \/ pc = "requeue" /\ pc' = "record" /\ oom_preempted = <<>> /\ todo' = batch
           \/ pc = "advance" /\ pc' \in {"prepare", "idle"}
    BY DEF EndRequeue, EndAdvance, StartBatch, Goto, seqVars, runnerVars, queueVars
  <1>2. \A t \in Seqs : ~Entering(t) /\ ~Dropped(t) /\ (Started(t)' => Started(t))
    BY <1>1, EmptyList DEF Entering, Started, Passed, Dropped, Running
  <1>3. \A t \in Seqs : SamePace(t)
    BY ReadingFacts, BetweenPace
  <1>4. \A t \in Seqs : SameState(t)
    BY <1>1, <1>2, StillState DEF SameSlotsAndStates
  <1>5. PoolTypes' /\ \A e \in Range(prefix_state_cache') : IsState(e.state)
    BY <1>1, ReadingFacts, KnownStates DEF PoolTypes
  <1> QED
    BY <1>1, <1>3, <1>4, <1>5, SteadyContext

(* Only what is finished loses its state at the end of a batch. *)
LEMMA FinalizeContext ==
    ASSUME Reading, Finalize
    PROVE  ContextInv'
  <1>1. /\ UNCHANGED <<seq, kv_cache, prefix_state_cache, waiting>>
        /\ pc = "record" /\ pc' \in {"advance", "prepare", "idle"}
    BY DEF Finalize, StartBatch, Goto, seqVars, queueVars
  <1>2. PICK q, S, ss : /\ q = batch /\ S = {s \in Seqs : Finished(s)} /\ ss = Only(q, S)
    OBVIOUS
  <1>3. FreeSlots(ss)
    BY <1>2 DEF Finalize
  <1>4. ss \in Seq(Seqs) /\ IsInjective(ss) /\ Range(ss) = Range(q) \cap S
    <2>1. QueueTypes /\ BatchInv
      BY ReadingFacts, PacingFacts
    <2>2. q \in Seq(Seqs) /\ IsInjective(q)
      BY <1>1, <1>2, <2>1 DEF QueueTypes, BatchInv, Processing
    <2> QED
      BY <1>2, <2>2, OnlyKeeps
  <1>5. /\ PoolTypes'
        /\ \A t \in Seqs : HasSlot(t) /\ t \notin Range(ss) =>
              HasSlot(t)' /\ deltanet_pool'[seq_to_slot'[t]] = State(t)
    <2>1. SlotsApart /\ PoolTypes
      BY ReadingFacts, PacingFacts
    <2> QED
      BY <1>3, <1>4, <2>1, FreedStates
  <1>6. \A t \in Seqs : ~Entering(t) /\ ~Started(t)' /\ ~Dropped(t)
    BY <1>1 DEF Entering, Started, Passed, Dropped, Running
  <1>7. \A t \in Seqs : ~Finished(t)' => t \notin Range(ss)
    BY <1>1, <1>2, <1>4 DEF Finished
  <1>8. \A t \in Seqs : SameState(t)
    BY <1>1, <1>5, <1>6, <1>7, ReadingFacts DEF SameState
  <1>9. \A t \in Seqs : SamePace(t)
    BY ReadingFacts, BetweenPace
  <1>10. \A e \in Range(prefix_state_cache') : IsState(e.state)
    BY <1>1, KnownStates
  <1> QED
    BY <1>1, <1>5, <1>8, <1>9, <1>10, SteadyContext

(* A candidate without a chunk has nothing left to read, or no blocks. *)
LEMMA NoChunkContext ==
    ASSUME Reading, EndSchedule, ScheduleNoChunk /\ Dispatch(<<>>)
    PROVE  ContextInv'
  <1>1. /\ UNCHANGED <<seq, seq_to_slot, deltanet_pool, kv_cache, prefix_state_cache, waiting>>
        /\ pc = "admit" /\ NoChunk
    BY DEF EndSchedule, ScheduleNoChunk, seqVars
  <1>2. pc' \in {"idle", "prepare"}
    BY DEF Dispatch, StartBatch, Goto
  <1>3. \A t \in Seqs : ~Dropped(t) /\ ~Started(t)'
    BY <1>1, <1>2 DEF Started, Passed, Dropped, Running
  <1>4. ASSUME NEW t \in Seqs, Restoring(t) PROVE Stuck(t)
    <2>1. SUFFICES ASSUME Entering(t) PROVE Stuck(t)
      BY <1>4, ReadingFacts
    <2>2. MayPrefill /\ t = Candidate /\ block_table[t] # <<>>
      BY <1>1, <1>4, <2>1, ReadingFacts DEF Entering
    <2>3. Remaining(t) <= 0
      BY <1>1, <2>2 DEF NoChunk, Deferred, Fresher
    <2>4. t \in Range(waiting)
      BY <2>2, ReadingFacts, PacingFacts, HeadAndTail DEF QueueTypes, MayPrefill, Candidate
    <2>5. PICK c, n \in Nat : c = Cached(t) /\ n = NumTokens(t)
      <3>1. NumTokens(t) \in Nat
        <4>1. token_ids[t] \in Seq(Nat)
          BY ReadingFacts, PacingFacts DEF SeqTypes
        <4> QED
          BY <4>1 DEF NumTokens
      <3> QED
        BY <3>1, ReadingFacts, PacingFacts DEF SeqTypes, IsFields, Cached
    <2>6. n - c <= 0
      BY <2>3, <2>5 DEF Remaining, Cached
    <2>7. c >= n
      BY <2>5, <2>6
    <2> QED
      BY <2>4, <2>5, <2>7 DEF Stuck
  <1>5. \A t \in Seqs : SamePace(t)
    BY ReadingFacts, NoChunkPace
  <1>6. \A t \in Seqs : SameState(t)
    BY <1>1, <1>3, <1>4 DEF SameState, HasSlot, State
  <1>7. PoolTypes' /\ \A e \in Range(prefix_state_cache') : IsState(e.state)
    BY <1>1, ReadingFacts, KnownStates DEF PoolTypes
  <1> QED
    BY <1>1, <1>5, <1>6, <1>7, SteadyContext

(* Only admission sets the chain to restore, and a pass or a preemption    *)
(* takes it back.                                                          *)
LEMMA SameChain ==
    ASSUME SeqTypes, NEW s \in Seqs, NEW a, NEW b,
           \/ seq' = [seq EXCEPT ![s].num_scheduled_tokens = 1, ![s].is_prefill = FALSE]
           \/ seq' = [seq EXCEPT ![s].num_cached_tokens = a]
           \/ seq' = [seq EXCEPT ![s].num_cached_tokens = a, ![s].num_scheduled_tokens = 0]
           \/ seq' = [seq EXCEPT ![s].num_scheduled_tokens = a,
                                 ![s].status = IF b THEN "RUNNING" ELSE @]
           \/ seq' = [seq EXCEPT ![s].status = "FINISHED"]
    PROVE  \A t \in Seqs : seq'[t].prefix_restore_blocks = seq[t].prefix_restore_blocks
  <1>1. IsFields(seq[s]) /\ seq = [t \in Seqs |-> seq[t]]
    BY DEF SeqTypes
  <1>2. PICK r1, r2, r3, r4, r5 :
          /\ r1 = [seq[s] EXCEPT !.num_scheduled_tokens = 1, !.is_prefill = FALSE]
          /\ r2 = [seq[s] EXCEPT !.num_cached_tokens = a]
          /\ r3 = [seq[s] EXCEPT !.num_cached_tokens = a, !.num_scheduled_tokens = 0]
          /\ r4 = [seq[s] EXCEPT !.num_scheduled_tokens = a,
                                 !.status = IF b THEN "RUNNING" ELSE @]
          /\ r5 = [seq[s] EXCEPT !.status = "FINISHED"]
    OBVIOUS
  <1>3. PICK chain : chain = seq[s].prefix_restore_blocks
    OBVIOUS
  <1>4. /\ r1.prefix_restore_blocks = chain /\ r2.prefix_restore_blocks = chain
        /\ r3.prefix_restore_blocks = chain /\ r4.prefix_restore_blocks = chain
        /\ r5.prefix_restore_blocks = chain
    BY <1>1, <1>2, <1>3 DEF IsFields, FieldNames
  <1>5. \/ seq' = [seq EXCEPT ![s] = r1]
        \/ seq' = [seq EXCEPT ![s] = r2]
        \/ seq' = [seq EXCEPT ![s] = r3]
        \/ seq' = [seq EXCEPT ![s] = r4]
        \/ seq' = [seq EXCEPT ![s] = r5]
    BY <1>1, <1>2
  <1>6. seq'[s].prefix_restore_blocks = chain /\ \A t \in Seqs : t # s => seq'[t] = seq[t]
    BY <1>1, <1>4, <1>5
  <1> QED
    BY <1>3, <1>6

(* What s has read is known to be no more than it has. *)
LEMMA ReadSoFar ==
    ASSUME Reading, NEW s \in Seqs
    PROVE  /\ token_ids[s] \in Seq(Nat) /\ NumTokens(s) \in Nat
           /\ Cached(s) \in Nat /\ Scheduled(s) \in Nat
           /\ s \in Decoders => Cached(s) <= NumTokens(s)
  <1>1. token_ids[s] \in Seq(Nat)
    BY ReadingFacts, PacingFacts DEF SeqTypes
  <1>2. NumTokens(s) \in Nat
    BY <1>1 DEF NumTokens
  <1>3. Cached(s) \in Nat /\ Scheduled(s) \in Nat
    BY ReadingFacts, PacingFacts DEF SeqTypes, IsFields, Cached, Scheduled
  <1>4. s \in Decoders => Cached(s) <= NumTokens(s)
    <2>1. SUFFICES ASSUME s \in Decoders PROVE Cached(s) <= NumTokens(s)
      OBVIOUS
    <2>2. Counted(s)
      BY <2>1, ReadingFacts, FillingFacts DEF Pacing
    <2>3. PICK c, m, n \in Nat : c = Cached(s) /\ m = Scheduled(s) /\ n = NumTokens(s)
      BY <1>2, <1>3
    <2>4. c + m <= n
      BY <2>2, <2>3 DEF Counted, Cached, Scheduled
    <2>5. c <= n
      BY <2>3, <2>4
    <2> QED
      BY <2>3, <2>5
  <1> QED
    BY <1>1, <1>2, <1>3, <1>4

(* The next token of a decoding sequence gets its block. *)
LEMMA GrownContext ==
    ASSUME Reading, NEW s \in Decoders, pc \in {"decode", "advance"}, UNCHANGED pc,
           seq' = [seq EXCEPT ![s].num_scheduled_tokens = 1, ![s].is_prefill = FALSE],
           MayAppend(s, NumTokens(s)), UNCHANGED <<token_ids, kv_cache>>, SameSlotsAndStates
    PROVE  KeysKept(s)' /\ Stated(s)'
  <1>1. s \in Seqs /\ s \notin Range(waiting) /\ SeqTypes
    BY ReadingFacts, PacingFacts DEF Decoders, QueuesApart
  <1>2. KeysKept(s) /\ Stated(s) /\ ~Restoring(s)
    BY <1>1, ReadingFacts DEF Entering
  <1>3. /\ seq'[s].prefix_restore_blocks = seq[s].prefix_restore_blocks
        /\ Cached(s)' = Cached(s) /\ (Finished(s)' <=> Finished(s))
    BY <1>1, SameChain, DecodingSeq DEF Cached
  <1>4. /\ ~Passed(s) /\ ~Passed(s)' /\ ~Started(s)' /\ ~Dropped(s)
        /\ Progress(s) = Cached(s) /\ Progress(s)' = Cached(s)
    BY <1>3 DEF Passed, Started, Dropped, Running, Progress
  <1>5. ~Restoring(s)'
    BY <1>2, <1>3 DEF Restoring
  <1>6. PICK c \in Nat : c = Cached(s) /\ c <= NumTokens(s)
    BY <1>1, ReadSoFar
  <1>7. KeysKept(s)'
    <2>1. SUFFICES ASSUME ~Finished(s) PROVE Stores(s, c)'
      BY <1>3, <1>4, <1>6 DEF KeysKept
    <2>2. Stores(s, c)
      BY <1>2, <1>4, <1>6, <2>1 DEF KeysKept
    <2>3. PICK more \in Seq(Blocks) : block_table'[s] = block_table[s] \o more
      BY <1>1, ReadingFacts, PacingFacts, GrownTable
    <2>4. PICK new \in Seq(Nat) : new = <<>>
      BY EmptyList
    <2>5. block_table[s] \in Seq(Blocks) /\ token_ids[s] \in Seq(Nat)
      BY <1>1, ReadingFacts, PacingFacts, ReadSoFar
    <2>6. token_ids'[s] = token_ids[s] \o new
      <3>1. PICK r \in Seq(Nat) : r = token_ids[s]
        BY <2>5
      <3>2. r \o <<>> = r
        OBVIOUS
      <3> QED
        BY <2>4, <3>1, <3>2
    <2> QED
      BY <1>1, <1>6, <2>2, <2>3, <2>5, <2>6, GrownStores
  <1>8. Stated(s)'
    <2>1. ASSUME ~Finished(s), Holds(s) PROVE Holds(s)'
      BY <1>4, <2>1 DEF Holds, HasSlot, State, Read, SameSlotsAndStates
    <2>2. ~Finished(s) => Ready(s)'
      BY <1>2, <1>3, <1>4, <2>1 DEF Stated, Ready
    <2> QED
      BY <1>3, <1>4, <1>5, <2>2 DEF Stated
  <1> QED
    BY <1>7, <1>8

(* A sequence that starts again has read nothing. *)
LEMMA RestartedContext ==
    ASSUME Reading, NEW v \in Seqs, seq' = [seq EXCEPT ![v] = Recomputed(@)],
           UNCHANGED <<token_ids, pc>>, ~Passed(v)', ~Started(v)'
    PROVE  /\ KeysKept(v)' /\ Stated(v)'
           /\ \A t \in Seqs : t # v => seq'[t] = seq[t]
  <1>1. seq'[v] = Recomputed(seq[v]) /\ IsFields(seq[v])
        /\ \A t \in Seqs : t # v => seq'[t] = seq[t]
    BY ReadingFacts, PacingFacts, PreemptedSeq DEF SeqTypes
  <1>2. seq'[v].num_cached_tokens = 0 /\ seq'[v].prefix_restore_blocks = None
    <2>1. PICK r : r = seq[v] /\ IsFields(r)
      BY <1>1
    <2>2. Recomputed(r).num_cached_tokens = 0 /\ Recomputed(r).prefix_restore_blocks = None
      BY <2>1 DEF Recomputed, IsFields, FieldNames
    <2> QED
      BY <1>1, <2>1, <2>2
  <1>3. Cached(v)' = 0 /\ Progress(v)' = 0 /\ ~Restoring(v)'
    BY <1>2 DEF Cached, Progress, Restoring
  <1>4. Stores(v, 0)'
    BY DEF Stores
  <1> QED
    BY <1>1, <1>3, <1>4 DEF KeysKept, Stated, Ready

(* A sequence joins the next decode pass, *)
LEMMA AppendContext ==
    ASSUME Reading, NEW s \in Decoders, pc \in {"decode", "advance"}, UNCHANGED pc,
           seq' = [seq EXCEPT ![s].num_scheduled_tokens = 1, ![s].is_prefill = FALSE],
           MayAppend(s, NumTokens(s)), UNCHANGED <<token_ids, runnerVars, waiting>>,
           \A t \in Seqs : t = s \/ SamePace(t)
    PROVE  ContextInv'
  <1>1. UNCHANGED <<kv_cache, prefix_state_cache, seq_to_slot, deltanet_pool>>
    BY DEF runnerVars
  <1>2. SameSlotsAndStates /\ UNCHANGED <<token_ids, kv_cache>>
    BY <1>1 DEF SameSlotsAndStates
  <1>3. KeysKept(s)' /\ Stated(s)'
    BY <1>2, GrownContext
  <1>4. s \in Seqs /\ SeqTypes
    BY ReadingFacts, PacingFacts DEF Decoders
  <1>5. \A t \in Seqs : seq'[t].prefix_restore_blocks = seq[t].prefix_restore_blocks
    BY <1>4, SameChain
  <1>6. \A t \in Seqs : ~Entering(t) /\ ~Started(t)' /\ ~Dropped(t)
    BY DEF Entering, Started, Passed, Dropped, Running
  <1>7. \A t \in Seqs : SameState(t) /\ PoolTypes'
    BY <1>2, <1>5, <1>6, StillState
  <1>8. PICK moved : moved = {s}
    OBVIOUS
  <1>9. \A t \in Seqs : t \in moved \/ (SamePace(t) /\ SameState(t))
    BY <1>7, <1>8
  <1>10. \A t \in moved : KeysKept(t)' /\ Stated(t)'
    BY <1>3, <1>8
  <1>11. PoolTypes' /\ \A e \in Range(prefix_state_cache') : IsState(e.state)
    BY <1>1, <1>4, <1>7, KnownStates
  <1> QED
    BY <1>1, <1>9, <1>10, <1>11, ContextNext

(* ... in schedule(), *)
LEMMA ScheduleDecodeContext ==
    ASSUME Reading, ScheduleDecode, UNCHANGED stepVars
    PROVE  ContextInv'
  <1>1. PICK s : s = Head(decode_list)
    OBVIOUS
  <1>2. /\ pc = "decode" /\ decode_list # <<>> /\ MayAppend(s, NumTokens(s))
        /\ seq' = [seq EXCEPT ![s].num_scheduled_tokens = 1, ![s].is_prefill = FALSE]
        /\ UNCHANGED <<token_ids, runnerVars, waiting>>
        /\ Contains(running, s) /\ UNCHANGED pc
    BY <1>1, ReadingFacts DEF ScheduleDecode, Raise
  <1>3. s \in Decoders
    BY <1>2 DEF Contains, Range, Decoders
  <1>4. \A t \in Seqs : t = s \/ SamePace(t)
    BY <1>1, ReadingFacts, ScheduleDecodePace
  <1> QED
    BY <1>2, <1>3, <1>4, AppendContext

(* ... and in advance_decode(). *)
LEMMA AdvanceAppendContext ==
    ASSUME Reading, Advance, NEW s, s = Head(todo), AdvanceAppend(s), todo' = Tail(todo),
           UNCHANGED <<token_ids, runnerVars, queueVars, pc>>
    PROVE  ContextInv'
  <1>1. /\ pc = "advance" /\ pc \in Processing /\ todo # <<>> /\ MayAppend(s, NumTokens(s))
        /\ seq' = [seq EXCEPT ![s].num_scheduled_tokens = 1, ![s].is_prefill = FALSE]
        /\ UNCHANGED <<token_ids, runnerVars, waiting, pc>>
    BY DEF Advance, AdvanceAppend, queueVars, Processing
  <1>2. s \in Decoders
    <2>1. /\ s \in Range(batch)
          /\ s \notin Range(waiting) => s \in Range(running)
      BY <1>1, ReadingFacts, PacingFacts, HeadOfTodo
    <2>2. AdvancesRunning
      BY ReadingFacts DEF Pacing, Filling, Stepping, Undisturbed
    <2> QED
      BY <1>1, <2>1, <2>2 DEF AdvancesRunning, Decoders
  <1>3. \A t \in Seqs : t = s \/ SamePace(t)
    BY ReadingFacts, AdvanceAppendPace
  <1> QED
    BY <1>1, <1>2, <1>3, AppendContext

(* A preemption takes the slot of the sequence that starts again. *)
LEMMA PreemptContext ==
    ASSUME Reading, running # <<>>, NEW s, TryPreempt(s), pc \in {"decode", "advance"},
           UNCHANGED pc, [EngineNext]_vars,
           NEW v, v = Last(running), \A t \in Seqs : t = v \/ SamePace(t)
    PROVE  ContextInv'
  <1>1. v \in Range(running) /\ v \in Seqs
    BY ReadingFacts, PacingFacts, LastOfRunning
  <1>2. PICK one : one = <<v>>
    OBVIOUS
  <1>3. one \in Seq(Seqs) /\ IsInjective(one) /\ Range(one) = {v}
    BY <1>1, <1>2, RangeOfPair
  <1>4. /\ seq' = [seq EXCEPT ![v] = Recomputed(@)] /\ FreeSlots(one)
        /\ UNCHANGED <<token_ids, kv_cache>>
    BY <1>2 DEF TryPreempt, PreemptSeq
  <1>5. PICK q : q = waiting
    OBVIOUS
  <1>6. waiting' = one \o q
    BY <1>2, <1>5 DEF TryPreempt, PreemptSeq
  <1>7. Range(waiting) \subseteq Range(waiting')
    <2>1. q \in Seq(Seqs)
      BY <1>5, ReadingFacts, PacingFacts DEF QueueTypes
    <2>2. Range(one \o q) = Range(one) \cup Range(q)
      BY <1>3, <2>1, RangeOfConcat
    <2> QED
      BY <1>5, <1>6, <2>2
  <1>8. /\ PoolTypes'
        /\ \A t \in Seqs : HasSlot(t) /\ t \notin Range(one) =>
              HasSlot(t)' /\ deltanet_pool'[seq_to_slot'[t]] = State(t)
    <2>1. SlotsApart /\ PoolTypes
      BY ReadingFacts, PacingFacts
    <2> QED
      BY <1>3, <1>4, <2>1, FreedStates
  <1>9. \A t \in Seqs : ~Entering(t) /\ ~Started(t)' /\ ~Dropped(t) /\ ~Passed(t)'
    BY DEF Entering, Started, Passed, Dropped, Running
  <1>10. /\ KeysKept(v)' /\ Stated(v)'
         /\ \A t \in Seqs : t # v => seq'[t] = seq[t]
    BY <1>1, <1>4, <1>9, RestartedContext
  <1>11. \A t \in Seqs : t # v => SameState(t)
    BY <1>3, <1>7, <1>8, <1>9, <1>10, ReadingFacts DEF SameState
  <1>12. PICK moved : moved = {v}
    OBVIOUS
  <1>13. \A t \in Seqs : t \in moved \/ (SamePace(t) /\ SameState(t))
    BY <1>11, <1>12
  <1>14. \A t \in moved : KeysKept(t)' /\ Stated(t)'
    BY <1>10, <1>12
  <1>15. \A e \in Range(prefix_state_cache') : IsState(e.state)
    <2>1. QueueTypes /\ IsList(prefix_state_cache)
      BY ReadingFacts, PacingFacts DEF KeysLive
    <2>2. ~Record
      BY DEF Record
    <2>3. Range(prefix_state_cache') \subseteq Range(prefix_state_cache)
      BY <2>1, <2>2, StatesWithin
    <2> QED
      BY <2>3, KnownStates
  <1>16. PoolTypes' /\ UNCHANGED kv_cache
    BY <1>4, <1>8
  <1> QED
    BY <1>13, <1>14, <1>15, <1>16, ContextNext

(* A preemption in schedule(), *)
LEMMA SchedulePreemptContext ==
    ASSUME Reading, SchedulePreempt, UNCHANGED stepVars, [EngineNext]_vars
    PROVE  ContextInv'
  <1>1. PICK v : v = Last(running)
    OBVIOUS
  <1>2. running # <<>> /\ (\A t \in Seqs : t = v \/ SamePace(t))
    BY <1>1, ReadingFacts, SchedulePreemptPace
  <1>3. PICK s : s = Head(decode_list)
    OBVIOUS
  <1>4. TryPreempt(s) /\ pc \in {"decode", "advance"} /\ UNCHANGED pc
    BY <1>3 DEF SchedulePreempt
  <1> QED
    BY <1>1, <1>2, <1>4, PreemptContext

(* ... and one in advance_decode(). *)
LEMMA AdvancePreemptContext ==
    ASSUME Reading, Advance, AdvancePreempt(Head(todo)), UNCHANGED <<todo, pc>>,
           [EngineNext]_vars
    PROVE  ContextInv'
  <1>1. PICK v : v = Last(running)
    OBVIOUS
  <1>2. running # <<>> /\ (\A t \in Seqs : t = v \/ SamePace(t))
    BY <1>1, ReadingFacts, AdvancePreemptPace
  <1>3. PICK s : s = Head(todo)
    OBVIOUS
  <1>4. TryPreempt(s) /\ pc \in {"decode", "advance"} /\ UNCHANGED pc
    BY <1>3 DEF Advance, AdvancePreempt
  <1> QED
    BY <1>1, <1>2, <1>4, PreemptContext

(* The start of a start is a start. *)
LEMMA StartOfStart ==
    ASSUME NEW q \in Seq(Nat), NEW n \in Nat, n <= Len(q), NEW k \in 1 .. n
    PROVE  SubSeq(SubSeq(q, 1, n), 1, k) = SubSeq(q, 1, k)
  OBVIOUS

(* A table that starts with the chain it adopts. *)
LEMMA AdoptedTable ==
    ASSUME PoolInv, NEW s \in Seqs, NEW chain \in Seq(Blocks), chain # <<>>, NEW n \in Nat,
           TakeBlocks(s, chain, n), block_table[s] = <<>>
    PROVE  /\ block_table'[s] # <<>>
           /\ \A i \in Nat : i < Len(chain) =>
                 i < Len(block_table'[s]) /\ block_table'[s][i + 1] = chain[i + 1]
  <1>1. PICK q, p : q = block_table[s] /\ p = Popped(n)
    OBVIOUS
  <1>2. /\ q = <<>> /\ p \in Seq(Blocks)
        /\ block_table \in [Seqs -> Seq(Blocks)]
    BY <1>1, PopSplits DEF TakeBlocks, PoolInv, PoolTypeOK
  <1>3. block_table'[s] = (q \o chain) \o p
    BY <1>1, <1>2 DEF TakeBlocks
  <1>4. q \o chain = chain
    BY <1>2
  <1>5. block_table'[s] = chain \o p
    BY <1>3, <1>4
  <1>6. /\ Len(chain) \in Nat /\ Len(chain) > 0 /\ Len(p) \in Nat
        /\ Len(chain \o p) = Len(chain) + Len(p)
    BY <1>2
  <1>7. \A i \in Nat : i < Len(chain) =>
           i < Len(chain \o p) /\ (chain \o p)[i + 1] = chain[i + 1]
    <2>1. \A j \in 1 .. Len(chain) : (chain \o p)[j] = chain[j]
      BY <1>2
    <2> QED
      BY <1>6, <2>1
  <1>8. chain \o p # <<>>
    <2>1. Len(chain \o p) > 0
      BY <1>6
    <2> QED
      BY <2>1
  <1> QED
    BY <1>5, <1>7, <1>8

(* What admission sets is the chain of the hit. *)
LEMMA AdmittedChain ==
    ASSUME SeqTypes, NEW s \in Seqs, NEW m, NEW chain,
           seq' = [seq EXCEPT ![s].num_cached_tokens = m, ![s].prefix_restore_blocks = chain]
    PROVE  /\ seq'[s].num_cached_tokens = m /\ seq'[s].prefix_restore_blocks = chain
           /\ \A t \in Seqs : t # s => seq'[t] = seq[t]
  <1>1. IsFields(seq[s]) /\ seq = [t \in Seqs |-> seq[t]]
    BY DEF SeqTypes
  <1>2. PICK r : r = [seq[s] EXCEPT !.num_cached_tokens = m, !.prefix_restore_blocks = chain]
    OBVIOUS
  <1>3. r.num_cached_tokens = m /\ r.prefix_restore_blocks = chain
    BY <1>1, <1>2 DEF IsFields, FieldNames
  <1>4. seq' = [seq EXCEPT ![s] = r]
    BY <1>1, <1>2
  <1> QED
    BY <1>1, <1>3, <1>4

(* What a hit gives: a snapshot of the tokens it counts, over their keys. *)
LEMMA HitRead ==
    ASSUME Reading, AdmitShared, NEW s, s = Candidate
    PROVE  \E chain \in Seq(Blocks), m \in Nat :
              /\ chain # <<>> /\ m = Len(chain) * BlockSize /\ m <= NumTokens(s)
              /\ HasState(chain) /\ Snapshot(chain).state.recurrent = Read(s, m)
              /\ \A p \in 0 .. (m - 1) :
                    kv_cache[chain[p \div BlockSize + 1]][p % BlockSize] = Read(s, p + 1)
              /\ \E n \in Nat : TakeBlocks(s, chain, n)
              /\ seq'[s].num_cached_tokens = m /\ seq'[s].prefix_restore_blocks = chain
  <1>1. /\ PrefixUsable(s) /\ s \in Seqs /\ token_ids[s] \in Seq(Nat)
        /\ TrieDepth /\ KeysLive
    <2>1. QueueTypes /\ SeqTypes /\ waiting # <<>>
      BY ReadingFacts, PacingFacts DEF AdmitShared, Fresher, MayPrefill
    <2>2. MemInv
      BY ReadingFacts DEF Pacing, Filling
    <2> QED
      BY <2>1, <2>2, HeadOfWaiting DEF AdmitShared, SeqTypes, MemInv
  <1>2. PICK tokens, chain, m :
          /\ tokens \in Seq(Nat) /\ tokens = token_ids[s]
          /\ chain = LongestPrefix(tokens) /\ m = MatchedTokens(tokens)
    BY <1>1
  <1>3. /\ ShareAndExtend(s, chain, NumTokens(s))
        /\ seq' = [seq EXCEPT ![s].num_cached_tokens = m, ![s].prefix_restore_blocks = chain]
        /\ EnablePrefixCaching /\ chain # <<>> /\ HasState(chain)
    BY <1>1, <1>2 DEF AdmitShared, PrefixUsable
  <1>4. chain \in Chains /\ Len(chain) <= BlocksFor(NumTokens(s))
    BY <1>1, <1>2, AdoptsLiveChain
  <1>5. chain \in Seq(Blocks)
    <2>1. PICK t \in Seqs : \E k \in 1 .. Len(block_table[t]) :
             chain = SubSeq(block_table[t], 1, k)
      BY <1>4 DEF Chains
    <2>2. block_table[t] \in Seq(Blocks)
      BY <2>1, ReadingFacts, PacingFacts
    <2> QED
      BY <2>1, <2>2
  <1>6. PICK n : n = BlocksFor(NumTokens(s)) - Len(chain)
    OBVIOUS
  <1>7. n \in Nat /\ TakeBlocks(s, chain, n)
    <2>1. BlocksFor(NumTokens(s)) \in Nat
      <3>1. NumTokens(s) \in Lengths
        BY <1>1, ReadingFacts, PacingFacts, LengthOK
      <3> QED
        BY <3>1, BlocksForType
    <2> QED
      BY <1>3, <1>4, <1>5, <1>6, <2>1 DEF ShareAndExtend
  <1>8. PICK k, f : k = Max(Matches(tokens)) /\ f = FullBlocks(tokens) /\ f \in Nat
    <2>1. /\ BlockSize \in Nat \ {0} /\ Len(tokens) \in Nat
      BY <1>2, PoolAssumption DEF PoolAssumption
    <2>2. FullBlocks(tokens) \in Nat
      BY <2>1 DEF FullBlocks
    <2> QED
      BY <2>2
  <1>9. /\ k \in Nat /\ k <= f /\ Boundary(tokens, k) \in DOMAIN trie
        /\ m = k * BlockSize /\ chain = trie[Boundary(tokens, k)]
    <2>1. Matches(tokens) # {} /\ Matches(tokens) \in SUBSET (0 .. f)
      BY <1>2, <1>3, <1>8 DEF LongestPrefix, Matches
    <2>2. k \in Matches(tokens)
      <3>1. PICK sizes \in SUBSET (0 .. f) : sizes = Matches(tokens)
        BY <2>1
      <3>2. Max(sizes) \in sizes
        BY <1>8, <2>1, <3>1, LargestOf
      <3> QED
        BY <1>8, <3>1, <3>2
    <2>3. k \in 1 .. f /\ Boundary(tokens, k) \in DOMAIN trie
      BY <1>8, <2>2 DEF Matches
    <2> QED
      BY <1>2, <1>8, <2>1, <2>3 DEF LongestPrefix, MatchedTokens
  <1>10. /\ Len(chain) = k /\ Len(Boundary(tokens, k)) = m
         /\ Boundary(tokens, k) = SubSeq(tokens, 1, m)
    <2>1. Len(Boundary(tokens, k)) = k * BlockSize /\ Len(Boundary(tokens, k)) \div BlockSize = k
      BY <1>2, <1>8, <1>9, BoundaryDepth
    <2> QED
      BY <1>1, <1>9, <2>1 DEF TrieDepth, Boundary
  <1>11. m \in Nat /\ m <= Len(tokens)
    <2>1. PICK z \in Nat \ {0} : z = BlockSize
      BY PoolAssumption DEF PoolAssumption
    <2>2. f = Len(tokens) \div z /\ Len(tokens) \in Nat
      BY <1>2, <1>8, <2>1 DEF FullBlocks
    <2>3. k * z <= Len(tokens)
      BY <1>9, <2>1, <2>2, DivTimes
    <2> QED
      BY <1>9, <2>1, <2>3
  <1>12. Snapshot(chain).state.recurrent = SubSeq(tokens, 1, m)
    BY <1>3, <1>9, <1>10, ReadingFacts DEF HitsExact
  <1>13. \A p \in 0 .. (m - 1) :
            kv_cache[chain[p \div BlockSize + 1]][p % BlockSize] = SubSeq(tokens, 1, p + 1)
    <2>1. PICK e : e = Snapshot(chain)
      OBVIOUS
    <2>2. e \in Range(prefix_state_cache) /\ e.key = chain
      BY <1>3, <2>1 DEF HasState, Keys, Snapshot, Range
    <2>3. SnapshotRead(e)
      BY <2>2, ReadingFacts DEF SnapInv
    <2>4. e.state.recurrent = SubSeq(tokens, 1, m) /\ Len(e.state.recurrent) = m
      BY <1>11, <1>12, <2>1
    <2>5. SUFFICES ASSUME NEW p \in 0 .. (m - 1)
                   PROVE  kv_cache[chain[p \div BlockSize + 1]][p % BlockSize]
                             = SubSeq(tokens, 1, p + 1)
      OBVIOUS
    <2>6. kv_cache[chain[p \div BlockSize + 1]][p % BlockSize]
             = SubSeq(SubSeq(tokens, 1, m), 1, p + 1)
      BY <2>2, <2>3, <2>4, <2>5 DEF SnapshotRead
    <2>7. p + 1 \in 1 .. m
      BY <1>11, <2>5
    <2>8. SubSeq(SubSeq(tokens, 1, m), 1, p + 1) = SubSeq(tokens, 1, p + 1)
      BY <1>11, <2>7, StartOfStart
    <2> QED
      BY <2>6, <2>8
  <1>14. seq'[s].num_cached_tokens = m /\ seq'[s].prefix_restore_blocks = chain
    <2>1. SeqTypes
      BY ReadingFacts, PacingFacts
    <2>2. seq' = [seq EXCEPT ![s].num_cached_tokens = m, ![s].prefix_restore_blocks = chain]
      BY <1>3
    <2> QED
      BY <1>1, <2>1, <2>2, AdmittedChain, ZenonT(40)
  <1> QED
    BY <1>2, <1>3, <1>5, <1>7, <1>9, <1>10, <1>11, <1>12, <1>13, <1>14 DEF Read, NumTokens

(* A hit is restored to where it was saved. *)
LEMMA SharedContext ==
    ASSUME Reading, AdmitShared, NEW s, s = Candidate, s \in Seqs
    PROVE  KeysKept(s)' /\ Stated(s)'
  <1>1. /\ pc = "admit" /\ UNCHANGED <<pc, waiting, decode_seqs, token_ids, kv_cache,
                                       prefix_state_cache>>
        /\ MayPrefill /\ block_table[s] = <<>>
    BY DEF AdmitShared, Fresher, queueVars, loopVars, runnerVars
  <1>2. PICK chain \in Seq(Blocks), m \in Nat :
          /\ chain # <<>> /\ m = Len(chain) * BlockSize /\ m <= NumTokens(s)
          /\ HasState(chain) /\ Snapshot(chain).state.recurrent = Read(s, m)
          /\ \A p \in 0 .. (m - 1) :
                kv_cache[chain[p \div BlockSize + 1]][p % BlockSize] = Read(s, p + 1)
          /\ \E n \in Nat : TakeBlocks(s, chain, n)
          /\ seq'[s].num_cached_tokens = m /\ seq'[s].prefix_restore_blocks = chain
    BY HitRead
  <1>3. PICK n \in Nat : TakeBlocks(s, chain, n)
    BY <1>2
  <1>4. seq'[s].num_cached_tokens = m /\ seq'[s].prefix_restore_blocks = chain
    BY <1>2
  <1>5. /\ block_table'[s] # <<>>
        /\ \A i \in Nat : i < Len(chain) =>
              i < Len(block_table'[s]) /\ block_table'[s][i + 1] = chain[i + 1]
    BY <1>1, <1>2, <1>3, ReadingFacts, PacingFacts, AdoptedTable
  <1>6. /\ ~Passed(s)' /\ ~Started(s)' /\ Cached(s)' = m /\ Progress(s)' = m
    BY <1>1, <1>4 DEF Passed, Started, Cached, Progress
  <1>7. Restoring(s)' /\ Restorable(s)'
    BY <1>1, <1>2, <1>4, <1>6 DEF Restoring, Restorable, HasState, Snapshot, Read, None
  <1>8. Entering(s)'
    BY <1>1 DEF Entering, MayPrefill, Budget, Candidate
  <1>9. Stated(s)'
    BY <1>5, <1>6, <1>7, <1>8 DEF Stated, Ready
  <1>10. Stores(s, m)'
    <2>1. SUFFICES ASSUME NEW p \in 0 .. (m - 1)
                   PROVE  (Mapped(s, p) /\ kv_cache[BlockAt(s, p)][p % BlockSize]
                                             = Read(s, p + 1))'
      BY DEF Stores
    <2>2. PICK z \in Nat \ {0}, l \in Nat : z = BlockSize /\ l = Len(chain)
      <3>1. Len(chain) \in Nat
        OBVIOUS
      <3> QED
        BY <3>1, PoolAssumption DEF PoolAssumption
    <2>3. p \in Nat /\ p < l * z
      BY <1>2, <2>1, <2>2
    <2>4. PICK i \in Nat : i = p \div z /\ i < l
      <3>1. PICK i \in Nat : i = p \div z
        BY <2>3, BlockOfPosition
      <3>2. i * z <= p
        BY <2>2, <2>3, <3>1, DivTimes
      <3>3. i < l
        BY <2>2, <2>3, <3>1, <3>2
      <3> QED
        BY <3>1, <3>3
    <2>5. i < Len(block_table'[s]) /\ block_table'[s][i + 1] = chain[i + 1]
      BY <1>5, <2>2, <2>4
    <2>6. kv_cache[chain[i + 1]][p % z] = Read(s, p + 1)
      BY <1>2, <2>1, <2>2, <2>4
    <2> QED
      BY <1>1, <2>2, <2>4, <2>5, <2>6 DEF Mapped, BlockAt, Read
  <1>11. KeysKept(s)'
    BY <1>6, <1>10 DEF KeysKept
  <1> QED
    BY <1>9, <1>11

(* Without a hit nothing is read. *)
LEMMA FreshContext ==
    ASSUME Reading, AdmitFresh, NEW s, s = Candidate, s \in Seqs
    PROVE  KeysKept(s)' /\ Stated(s)'
  <1>1. /\ pc = "admit" /\ pc' = "admit" /\ block_table[s] = <<>>
        /\ seq' = [seq EXCEPT ![s].num_cached_tokens = 0] /\ UNCHANGED token_ids
    BY DEF AdmitFresh, Fresher
  <1>2. SeqTypes
    BY ReadingFacts, PacingFacts
  <1>3. PICK z \in Nat : z = 0
    OBVIOUS
  <1>4. seq' = [seq EXCEPT ![s].num_cached_tokens = z]
    BY <1>1, <1>3
  <1>5. seq'[s].prefix_restore_blocks = seq[s].prefix_restore_blocks
    BY <1>2, <1>4, SameChain
  <1>6. seq'[s].num_cached_tokens = z
    <2>1. PICK chain : chain = None
      OBVIOUS
    <2> QED
      BY <1>1, <1>2, <1>3, <1>4, <2>1, AdmittedSeq
  <1>7. ~Restoring(s)'
    BY <1>1, <1>5, ReadingFacts DEF Restoring
  <1>8. ~Passed(s)' /\ ~Started(s)' /\ Cached(s)' = 0 /\ Progress(s)' = 0
    BY <1>1, <1>3, <1>6 DEF Passed, Started, Cached, Progress
  <1>9. Stores(s, 0)'
    BY DEF Stores
  <1> QED
    BY <1>7, <1>8, <1>9 DEF KeysKept, Stated, Ready

(* A prompt is admitted with a cached prefix or without one. *)
LEMMA AdmitContext ==
    ASSUME Reading, AdmitShared \/ AdmitFresh, UNCHANGED stepVars
    PROVE  ContextInv'
  <1>1. PICK s : s = Candidate
    OBVIOUS
  <1>2. s \in Seqs
    BY <1>1, ReadingFacts, PacingFacts, HeadOfWaiting
       DEF AdmitShared, AdmitFresh, Fresher, MayPrefill
  <1>3. KeysKept(s)' /\ Stated(s)'
    BY <1>1, <1>2, SharedContext, FreshContext
  <1>4. \A t \in Seqs : t = s \/ SamePace(t)
    BY <1>1, ReadingFacts, AdmitPace
  <1>5. /\ pc = "admit" /\ pc' = "admit"
        /\ UNCHANGED <<waiting, kv_cache, prefix_state_cache, seq_to_slot, deltanet_pool>>
    BY DEF AdmitShared, AdmitFresh, queueVars, runnerVars
  <1>6. \A t \in Seqs : t # s => seq'[t] = seq[t]
    BY <1>1, ReadingFacts, Admission DEF Pacing
  <1>7. \A t \in Seqs : t # s => ~Entering(t)
    BY <1>1, <1>5 DEF Entering
  <1>8. \A t \in Seqs : ~Started(t)' /\ ~Dropped(t)
    BY <1>5 DEF Started, Passed, Dropped, Running
  <1>9. \A t \in Seqs : t # s => SameState(t)
    BY <1>5, <1>6, <1>7, <1>8, StillState DEF SameSlotsAndStates
  <1>10. PICK moved : moved = {s}
    OBVIOUS
  <1>11. \A t \in Seqs : t \in moved \/ (SamePace(t) /\ SameState(t))
    BY <1>4, <1>9, <1>10
  <1>12. \A t \in moved : KeysKept(t)' /\ Stated(t)'
    BY <1>3, <1>10
  <1>13. PoolTypes' /\ \A e \in Range(prefix_state_cache') : IsState(e.state)
    BY <1>5, ReadingFacts, KnownStates DEF PoolTypes
  <1> QED
    BY <1>5, <1>11, <1>12, <1>13, ContextNext

(* A dropped sequence starts again; its slot went with the pass. *)
LEMMA RequeueContext ==
    ASSUME Reading, Requeue, [EngineNext]_vars
    PROVE  ContextInv'
  <1>1. PICK s : s = Head(oom_preempted)
    OBVIOUS
  <1>2. PICK q, w : q = oom_preempted /\ w = waiting
    OBVIOUS
  <1>3. /\ seq' = [seq EXCEPT ![s] = Recomputed(@)] /\ q # <<>>
        /\ oom_preempted' = Tail(q) /\ waiting' = <<s>> \o w
        /\ UNCHANGED <<token_ids, batch, pc, kv_cache, seq_to_slot, deltanet_pool>>
        /\ pc = "requeue"
    BY <1>1, <1>2 DEF Requeue, batchVars
  <1>4. q \in Seq(Seqs) /\ w \in Seq(Seqs)
    BY <1>2, ReadingFacts, PacingFacts DEF QueueTypes
  <1>5. s \in Range(q) /\ Range(q) = {s} \cup Range(Tail(q))
    BY <1>1, <1>2, <1>3, <1>4, HeadAndTail
  <1>6. s \in Seqs /\ s \notin Range(batch)
    BY <1>2, <1>3, <1>5, ReadingFacts, PacingFacts DEF BatchInv, Running
  <1>7. ~Passed(s)' /\ ~Started(s)'
    BY <1>3, <1>6 DEF Passed, Started
  <1>8. /\ KeysKept(s)' /\ Stated(s)'
        /\ \A t \in Seqs : t # s => seq'[t] = seq[t]
    BY <1>3, <1>6, <1>7, RestartedContext
  <1>9. Range(waiting) \subseteq Range(waiting')
    <2>1. PICK one : one = <<s>>
      OBVIOUS
    <2>2. one \in Seq(Seqs)
      BY <1>6, <2>1
    <2>3. Range(one \o w) = Range(one) \cup Range(w)
      BY <1>4, <2>2, RangeOfConcat
    <2> QED
      BY <1>2, <1>3, <2>1, <2>3
  <1>10. ASSUME NEW t \in Seqs, t # s PROVE SameState(t)
    <2>1. ~Entering(t) /\ (Started(t)' => Started(t))
      BY <1>3 DEF Entering, Started, Passed
    <2>2. Dropped(t) => Dropped(t)'
      BY <1>2, <1>3, <1>5, <1>10 DEF Dropped
    <2>3. SameSlotsAndStates
      BY <1>3 DEF SameSlotsAndStates
    <2> QED
      BY <1>8, <1>9, <1>10, <2>1, <2>2, <2>3, StillState
  <1>11. \A t \in Seqs : t = s \/ SamePace(t)
    BY <1>1, ReadingFacts, RequeuePace
  <1>12. PICK moved : moved = {s}
    OBVIOUS
  <1>13. \A t \in Seqs : t \in moved \/ (SamePace(t) /\ SameState(t))
    BY <1>10, <1>11, <1>12
  <1>14. \A t \in moved : KeysKept(t)' /\ Stated(t)'
    BY <1>8, <1>12
  <1>15. \A e \in Range(prefix_state_cache') : IsState(e.state)
    <2>1. QueueTypes /\ IsList(prefix_state_cache)
      BY ReadingFacts, PacingFacts DEF KeysLive
    <2>2. ~Record
      BY <1>3 DEF Record
    <2>3. Range(prefix_state_cache') \subseteq Range(prefix_state_cache)
      BY <2>1, <2>2, StatesWithin
    <2> QED
      BY <2>3, KnownStates
  <1>16. PoolTypes' /\ UNCHANGED kv_cache
    BY <1>3, ReadingFacts DEF PoolTypes
  <1> QED
    BY <1>13, <1>14, <1>15, <1>16, ContextNext

(* The batch that the chunk of the candidate starts. *)
LEMMA ChunkBatch ==
    ASSUME Pacing, EndSchedule, ScheduleChunk /\ Dispatch(<<Candidate>>), NEW s, s = Candidate
    PROVE  /\ s \in Seqs /\ Remaining(s) > 0
           /\ pc' = "prepare" /\ batch_is_prefill' /\ Range(batch') = {s}
           /\ Range(later') \subseteq Range(decode_seqs) /\ Scheduled(s)' = Chunk(s)
           /\ Range(waiting) \subseteq Range(waiting') \cup {s}
           /\ \A t \in Seqs : seq'[t].prefix_restore_blocks = seq[t].prefix_restore_blocks
           /\ Cached(s)' = Cached(s) /\ (Finished(s)' <=> Finished(s))
  <1>1. /\ pc = "admit" /\ UNCHANGED token_ids
        /\ QueueTypes /\ SeqTypes /\ QueuesApart /\ LoopInv
    BY PacingFacts DEF EndSchedule, ScheduleChunk
  <1>2. PICK q, dec : q = waiting /\ dec = decode_seqs
    OBVIOUS
  <1>3. /\ q \in Seq(Seqs) /\ dec \in Seq(Seqs) /\ IsInjective(dec)
    BY <1>1, <1>2 DEF QueueTypes, QueuesApart
  <1>4. PICK last \in BOOLEAN :
          seq' = [seq EXCEPT ![s].num_scheduled_tokens = Chunk(s),
                             ![s].status = IF last THEN "RUNNING" ELSE @]
    <2>1. LET end == seq[s].num_cached_tokens + Chunk(s) >= NumTokens(s)
          IN  seq' = [seq EXCEPT ![s].num_scheduled_tokens = Chunk(s),
                                 ![s].status = IF end THEN "RUNNING" ELSE @]
      BY Zenon DEF ScheduleChunk
    <2>2. CASE seq[s].num_cached_tokens + Chunk(s) >= NumTokens(s)
      <3>1. seq' = [seq EXCEPT ![s].num_scheduled_tokens = Chunk(s),
                               ![s].status = IF TRUE THEN "RUNNING" ELSE @]
        BY <2>1, <2>2
      <3> QED
        BY <3>1
    <2>3. CASE ~(seq[s].num_cached_tokens + Chunk(s) >= NumTokens(s))
      <3>1. seq' = [seq EXCEPT ![s].num_scheduled_tokens = Chunk(s),
                               ![s].status = IF FALSE THEN "RUNNING" ELSE @]
        BY <2>1, <2>3
      <3> QED
        BY <3>1
    <2> QED
      BY <2>2, <2>3
  <1>5. /\ s \in Seqs /\ s \in Range(q) /\ Range(q) = {s} \cup Range(Tail(q))
        /\ block_table[s] # <<>> /\ Remaining(s) > 0 /\ MayPrefill
    <2>1. q # <<>>
      BY <1>2 DEF ScheduleChunk, MayPrefill
    <2>2. s \in Seqs /\ Range(q) = {s} \cup Range(Tail(q))
      BY <1>1, <1>2, <2>1, HeadOfWaiting
    <2> QED
      BY <1>2, <2>2 DEF ScheduleChunk
  <1>6. ~Finished(s) /\ s \notin Range(dec) /\ seq[s].is_prefill
    BY <1>1, <1>2, <1>5, InQueues DEF Unfinished, QueuesApart, LoopInv
  <1>7. PICK n \in Nat : n = Chunk(s)
    BY <1>1, <1>2, <1>3, <1>5, ChunkIsNat
  <1>8. seq' = [seq EXCEPT ![s].num_scheduled_tokens = n,
                           ![s].status = IF last THEN "RUNNING" ELSE @]
    BY <1>4, <1>7
  <1>9. /\ \A t \in Seqs : seq'[t].is_prefill = seq[t].is_prefill
        /\ \A t \in Seqs : Finished(t)' <=> Finished(t)
        /\ seq'[s].num_cached_tokens = seq[s].num_cached_tokens
        /\ seq'[s].num_scheduled_tokens = n
    <2>1. SeqTypes /\ UNCHANGED token_ids /\ ~Finished(s)
      BY <1>1, <1>6, Zenon
    <2> QED
      BY <1>5, <1>8, <2>1, ScheduledSeq, ZenonT(40)
  <1>10. \A t \in Seqs : seq'[t].prefix_restore_blocks = seq[t].prefix_restore_blocks
    BY <1>1, <1>5, <1>8, SameChain
  <1>11. /\ pc' = "prepare" /\ batch_is_prefill' /\ Range(batch') = {s}
         /\ Range(later') \subseteq Range(decode_seqs)
    <2>1. PICK one : one = <<s>>
      OBVIOUS
    <2>2. Range(one) = {s} /\ Dispatch(one) /\ seq'[s].is_prefill /\ one # <<>>
      BY <1>5, <1>6, <1>9, <2>1, RangeOfPair
    <2>3. \A t \in Range(decode_seqs) : ~seq'[t].is_prefill
      BY <1>1, <1>9, InQueues DEF LoopInv
    <2>4. s \in Seqs \ Range(decode_seqs)
      BY <1>2, <1>5, <1>6
    <2> QED
      BY <1>1, <1>2, <1>3, <2>1, <2>2, <2>3, <2>4, DispatchBatch
  <1>12. Range(waiting) \subseteq Range(waiting') \cup {s}
    <2>1. waiting' = q \/ waiting' = Tail(q)
      BY <1>2 DEF ScheduleChunk
    <2> QED
      BY <1>2, <1>5, <2>1
  <1> QED
    BY <1>5, <1>7, <1>9, <1>10, <1>11, <1>12 DEF Cached, Scheduled

(* The candidate is still what is to be restored. *)
LEMMA ChunkContext ==
    ASSUME Reading, EndSchedule, ScheduleChunk /\ Dispatch(<<Candidate>>)
    PROVE  ContextInv'
  <1>1. PICK s : s = Candidate
    OBVIOUS
  <1>2. /\ s \in Seqs /\ Remaining(s) > 0
        /\ pc' = "prepare" /\ batch_is_prefill' /\ Range(batch') = {s}
        /\ Range(waiting) \subseteq Range(waiting') \cup {s}
        /\ \A t \in Seqs : seq'[t].prefix_restore_blocks = seq[t].prefix_restore_blocks
    BY <1>1, ReadingFacts, ChunkBatch
  <1>3. /\ UNCHANGED <<seq_to_slot, deltanet_pool, kv_cache, prefix_state_cache>>
        /\ UNCHANGED <<block_table, token_ids>> /\ pc = "admit"
    BY DEF EndSchedule, ScheduleChunk, poolVars
  <1>4. \A t \in Seqs : t = s \/ SamePace(t)
    BY <1>1, ReadingFacts, ChunkPace
  <1>5. /\ \A t \in Seqs : ~Started(t)' /\ ~Dropped(t) /\ ~Passed(t) /\ ~Passed(t)'
        /\ \A t \in Seqs : t # s => ~Entering(t)
    BY <1>1, <1>2, <1>3 DEF Started, Passed, Dropped, Running, Entering
  <1>6. \A t \in Seqs : t # s => SameState(t)
    BY <1>2, <1>3, <1>5, StillState DEF SameSlotsAndStates
  <1>7. Cached(s)' = Cached(s) /\ (Finished(s)' <=> Finished(s))
    BY <1>1, ReadingFacts, ChunkBatch
  <1>8. ~Stuck(s)
    <2>1. PICK c, n \in Nat : c = Cached(s) /\ n = NumTokens(s)
      BY <1>2, ReadSoFar
    <2>2. n - c > 0
      BY <1>2, <2>1 DEF Remaining, Cached
    <2>3. ~(c >= n)
      BY <2>1, <2>2
    <2> QED
      BY <2>1, <2>3 DEF Stuck
  <1>9. Restoring(s)' => block_table'[s] # <<>> /\ Entering(s)' /\ Restorable(s)'
    <2>1. Restoring(s)' => Restoring(s)
      BY <1>2 DEF Restoring
    <2>2. Restoring(s) => block_table[s] # <<>> /\ Restorable(s)
      BY <1>2, <1>8, ReadingFacts DEF Stated
    <2>3. Restorable(s) => Restorable(s)'
      BY <1>2, <1>3, <1>7 DEF Restorable, HasState, Snapshot, Read
    <2>4. Entering(s)'
      BY <1>2 DEF Entering
    <2> QED
      BY <1>3, <2>1, <2>2, <2>3, <2>4
  <1>10. ~Finished(s)' => Ready(s)'
    <2>1. Progress(s)' = Progress(s)
      BY <1>2, <1>5, <1>7 DEF Progress
    <2>2. Holds(s) => Holds(s)'
      BY <1>3, <2>1 DEF Holds, HasSlot, State, Read
    <2>3. ~Finished(s)' => Ready(s)
      BY <1>2, <1>7, ReadingFacts DEF Stated
    <2> QED
      BY <1>2, <1>5, <1>7, <2>2, <2>3 DEF Ready, Restoring
  <1>11. Stated(s)'
    BY <1>2, <1>5, <1>9, <1>10 DEF Stated
  <1>12. KeysKept(s)'
    BY <1>2, <1>3, <1>5, <1>7, ReadingFacts DEF KeysKept, Stores, Mapped, BlockAt, Read, Progress
  <1>13. PICK moved : moved = {s}
    OBVIOUS
  <1>14. \A t \in Seqs : t \in moved \/ (SamePace(t) /\ SameState(t))
    BY <1>4, <1>6, <1>13
  <1>15. \A t \in moved : KeysKept(t)' /\ Stated(t)'
    BY <1>11, <1>12, <1>13
  <1>16. PoolTypes' /\ \A e \in Range(prefix_state_cache') : IsState(e.state)
    BY <1>3, ReadingFacts, KnownStates DEF PoolTypes
  <1> QED
    BY <1>3, <1>14, <1>15, <1>16, ContextNext

(* After run() has set the states, no chain of the batch is left to restore. *)
LEMMA RestoredChains ==
    ASSUME SeqTypes, NEW members,
           seq' = [s \in Seqs |-> IF s \in members
                                  THEN [seq[s] EXCEPT !.prefix_restore_blocks = None]
                                  ELSE seq[s]]
    PROVE  /\ \A t \in Seqs : t \in members => seq'[t].prefix_restore_blocks = None
           /\ \A t \in Seqs : t \notin members => seq'[t] = seq[t]
  <1>1. ASSUME NEW t \in Seqs, t \in members
        PROVE  seq'[t].prefix_restore_blocks = None
    <2>1. IsFields(seq[t])
      BY DEF SeqTypes
    <2>2. PICK r : r = [seq[t] EXCEPT !.prefix_restore_blocks = None]
      OBVIOUS
    <2>3. r.prefix_restore_blocks = None
      BY <2>1, <2>2 DEF IsFields, FieldNames
    <2>4. seq'[t] = r
      BY <1>1, <2>2
    <2> QED
      BY <2>3, <2>4
  <1> QED
    BY <1>1

(* The state that a pass starts from has read what was read. *)
LEMMA StartRead ==
    ASSUME Reading, pc = "prepare", NEW s \in Range(batch),
           HasSlot(s) => SlotFor(s) = seq_to_slot[s]
    PROVE  StartState(s).recurrent = Read(s, Cached(s))
  <1>1. /\ s \in Seqs /\ ~Finished(s) /\ Cached(s) \in Nat /\ Scheduled(s) \in Nat \ {0}
        /\ Past(s) = Cached(s) + Scheduled(s) /\ Past(s) <= NumTokens(s)
        /\ ~batch_is_prefill => Cached(s) > 0
    BY ReadingFacts, PassRange
  <1>2. ~Stuck(s)
    <2>1. PICK c, n \in Nat, m \in Nat \ {0} :
            c = Cached(s) /\ n = NumTokens(s) /\ m = Scheduled(s)
      BY <1>1, ReadSoFar
    <2>2. c + m <= n
      BY <1>1, <2>1
    <2>3. ~(c >= n)
      BY <2>1, <2>2
    <2> QED
      BY <2>1, <2>3 DEF Stuck
  <1>3. Stated(s) /\ ~Dropped(s) /\ ~Passed(s)
    <2>1. s \notin Range(oom_preempted)
      BY ReadingFacts, PacingFacts DEF BatchInv, Running
    <2> QED
      BY <1>1, <2>1, ReadingFacts DEF Dropped, Passed
  <1>4. CASE FromScratch(s)
    <2>1. Cached(s) = 0
      BY <1>4 DEF FromScratch, Cached
    <2>2. StartState(s).recurrent = <<>>
      BY <1>4, ZeroIsState DEF StartState
    <2>3. PICK q \in Seq(Nat) : q = token_ids[s]
      BY <1>1, ReadSoFar
    <2>4. SubSeq(q, 1, 0) = <<>>
      BY <2>3
    <2> QED
      BY <2>1, <2>2, <2>3, <2>4 DEF Read
  <1>5. CASE ~FromScratch(s) /\ Restoring(s)
    <2>1. Restorable(s)
      BY <1>2, <1>3, <1>5 DEF Stated
    <2>2. PICK chain : chain = seq[s].prefix_restore_blocks
      OBVIOUS
    <2>3. HasState(chain) /\ Snapshot(chain).state.recurrent = Read(s, Cached(s))
      BY <2>1, <2>2 DEF Restorable
    <2> QED
      BY <1>5, <2>2, <2>3 DEF StartState
  <1>6. CASE ~FromScratch(s) /\ ~Restoring(s)
    <2>1. ~(Cached(s) = 0)
      BY <1>1, <1>6 DEF FromScratch, Cached
    <2>2. Holds(s)
      BY <1>1, <1>3, <1>6, <2>1 DEF Stated, Ready
    <2>3. StartState(s) = State(s)
      BY <1>6, <2>2 DEF StartState, State, Holds
    <2> QED
      BY <1>3, <2>2, <2>3 DEF Holds, Progress
  <1> QED
    BY <1>4, <1>5, <1>6

(* Before a pass every sequence of the batch has its state. *)
LEMMA PrepareContext ==
    ASSUME Reading, Prepare
    PROVE  ContextInv'
  <1>1. /\ pc = "prepare" /\ pc' = "forward" /\ PrepareStates
        /\ UNCHANGED <<token_ids, batch, waiting, oom_preempted, kv_cache>>
    BY ReadingFacts DEF Prepare, Raise, Goto, batchVars, queueVars
  <1>2. PICK M : M = Range(batch)
    OBVIOUS
  <1>3. /\ \A t \in Seqs : t \in M => seq'[t].prefix_restore_blocks = None
        /\ \A t \in Seqs : t \notin M => seq'[t] = seq[t]
    <2>1. seq' = [s \in Seqs |-> IF s \in M
                                 THEN [seq[s] EXCEPT !.prefix_restore_blocks = None]
                                 ELSE seq[s]]
      BY <1>1, <1>2 DEF PrepareStates
    <2>2. SeqTypes
      BY ReadingFacts, PacingFacts
    <2> QED
      BY <2>1, <2>2, RestoredChains
  <1>4. /\ PoolTypes'
        /\ \A s \in Range(batch) :
              HasSlot(s)' /\ deltanet_pool'[seq_to_slot'[s]] = StartState(s)
        /\ \A t \in Seqs : HasSlot(t) /\ t \notin Range(batch) =>
              HasSlot(t)' /\ deltanet_pool'[seq_to_slot'[t]] = State(t)
        /\ \A s \in Range(batch) : HasSlot(s) => SlotFor(s) = seq_to_slot[s]
    <2>1. IsInjective(batch) /\ SlotsApart /\ QueueTypes /\ StateTypes
      BY <1>1, ReadingFacts, PacingFacts DEF BatchInv, Running
    <2> QED
      BY <1>1, <2>1, PreparedStates
  <1>5. \A t \in Seqs : SamePace(t)
    BY ReadingFacts, BetweenPace
  <1>6. M \subseteq Seqs
    BY <1>2, ReadingFacts, PacingFacts
  <1>7. ASSUME NEW t \in Seqs, t \notin M PROVE SameState(t)
    <2>1. ~Entering(t) /\ (Started(t)' => Started(t)) /\ (Dropped(t) => Dropped(t)')
      BY <1>1, <1>2, <1>7 DEF Entering, Started, Passed, Dropped, Running
    <2>2. Restoring(t) => Stuck(t)
      BY <2>1, ReadingFacts
    <2> QED
      BY <1>1, <1>2, <1>3, <1>4, <1>7, <2>1, <2>2 DEF SameState
  <1>8. ASSUME NEW s \in M PROVE KeysKept(s)' /\ Stated(s)'
    <2>1. s \in Seqs /\ SamePace(s) /\ KeysKept(s)
      BY <1>5, <1>6, <1>8, ReadingFacts
    <2>2. KeysKept(s)'
      BY <1>1, <2>1, SteadyKept
    <2>3. /\ ~Passed(s)' /\ Cached(s)' = Cached(s) /\ Progress(s)' = Cached(s)
          /\ ~Restoring(s)'
      BY <1>1, <1>3, <1>8, <2>1 DEF Passed, Cached, Progress, SamePace, Restoring
    <2>4. StartState(s).recurrent = Read(s, Cached(s))
      BY <1>1, <1>2, <1>4, <1>8, StartRead
    <2>5. Holds(s)'
      BY <1>1, <1>2, <1>4, <1>8, <2>3, <2>4 DEF Holds, State, Read
    <2> QED
      BY <2>2, <2>3, <2>5 DEF Stated, Ready
  <1>9. \A t \in Seqs : t \in M \/ (SamePace(t) /\ SameState(t))
    BY <1>5, <1>7
  <1>10. \A e \in Range(prefix_state_cache') : IsState(e.state)
    <2>1. QueueTypes /\ IsList(prefix_state_cache)
      BY ReadingFacts, PacingFacts DEF KeysLive
    <2>2. Range(prefix_state_cache') \subseteq Range(prefix_state_cache)
      BY <1>1, <2>1, RestoresWithin
    <2> QED
      BY <2>2, KnownStates
  <1> QED
    BY <1>1, <1>4, <1>8, <1>9, <1>10, ContextNext

(* An error that leaves the states changed was met by prefills from the    *)
(* first token only.                                                       *)
LEMMA ErrorStates ==
    ASSUME Reading, pc = "forward", NEW pool, pool \in StatesAfterError
    PROVE  /\ IsPool(pool)
           /\ \A t \in Seqs : HasSlot(t) /\ t \notin Range(batch) =>
                 pool[seq_to_slot[t]].recurrent = State(t).recurrent
           /\ pool = deltanet_pool \/ Fresh
  <1>1. PoolTypes /\ \A i \in Slots : Inputs(i) \in Seq(Nat)
    BY ReadingFacts, PassInputs
  <1>2. /\ IsPool(ConvAdvanced) /\ IsPool(Advanced)
        /\ \A i \in Slots : /\ ConvAdvanced[i].recurrent = deltanet_pool[i].recurrent
                            /\ Advanced[i].recurrent = deltanet_pool[i].recurrent \o Inputs(i)
    BY <1>1, AdvancedStates
  <1>3. pool \in {deltanet_pool, ConvAdvanced, Advanced}
    BY DEF StatesAfterError
  <1>4. ASSUME NEW t \in Seqs, HasSlot(t), t \notin Range(batch)
        PROVE  pool[seq_to_slot[t]].recurrent = State(t).recurrent
    <2>1. seq_to_slot[t] \in Slots /\ Inputs(seq_to_slot[t]) = <<>>
      BY <1>4, ReadingFacts, PassInputs
    <2>2. PICK i \in Slots : i = seq_to_slot[t]
      BY <2>1
    <2>3. PICK w \in Seq(Nat) : w = deltanet_pool[i].recurrent
      BY <1>1 DEF PoolTypes, IsPool, IsState
    <2>4. w \o <<>> = w
      OBVIOUS
    <2>5. pool[i].recurrent = w
      BY <1>2, <1>3, <2>1, <2>2, <2>3, <2>4
    <2> QED
      BY <2>2, <2>3, <2>5 DEF State
  <1>5. pool = deltanet_pool \/ Fresh
    BY DEF StatesAfterError, LatePossible, Reading
  <1> QED
    BY <1>1, <1>2, <1>3, <1>4, <1>5 DEF PoolTypes

(* A pass that ran out of memory is tried again from the same states, or   *)
(* from the first token; who is dropped starts again later.                *)
LEMMA RetryContext ==
    ASSUME Reading, Retry
    PROVE  ContextInv'
  <1>1. PICK last : last = Last(batch)
    OBVIOUS
  <1>2. PICK dropped : dropped = IF Len(batch) > 1 /\ HasSlot(last) THEN {seq_to_slot[last]}
                                 ELSE {}
    OBVIOUS
  <1>3. /\ pc = "forward" /\ pc' = "prepare"
        /\ UNCHANGED <<seq, token_ids, block_table, kv_cache, prefix_state_cache, waiting>>
        /\ IF Len(batch) > 1
           THEN /\ oom_preempted' = Append(oom_preempted, last)
                /\ seq_to_slot' = [seq_to_slot EXCEPT ![last] = NoSlot]
           ELSE UNCHANGED <<oom_preempted, seq_to_slot>>
        /\ \E pool \in StatesAfterError :
              deltanet_pool' = [i \in Slots |-> IF i \in dropped THEN ZeroState ELSE pool[i]]
    BY <1>1, <1>2 DEF Retry, OutOfMemory, Goto, seqVars, poolVars, queueVars
  <1>4. PICK pool \in StatesAfterError :
          deltanet_pool' = [i \in Slots |-> IF i \in dropped THEN ZeroState ELSE pool[i]]
    BY <1>3
  <1>5. /\ IsPool(pool)
        /\ \A t \in Seqs : HasSlot(t) /\ t \notin Range(batch) =>
              pool[seq_to_slot[t]].recurrent = State(t).recurrent
        /\ pool = deltanet_pool \/ Fresh
    BY <1>3, ReadingFacts, ErrorStates
  <1>6. PoolTypes'
    BY <1>4, <1>5, ZeroIsState DEF PoolTypes, IsPool
  <1>7. PICK gone : gone = IF Len(batch) > 1 THEN {last} ELSE {}
    OBVIOUS
  <1>8. gone \subseteq Range(batch)
    <2>1. CASE Len(batch) > 1
      <3>1. PICK q \in Seq(Seqs) : q = batch
        BY ReadingFacts, PacingFacts DEF QueueTypes
      <3>2. Len(q) > 1 /\ q # <<>>
        BY <2>1, <3>1
      <3>3. Range(q) = Range(Front(q)) \cup {Last(q)}
        BY <3>1, <3>2, FrontAndLast
      <3> QED
        BY <1>1, <1>7, <2>1, <3>1, <3>3
    <2>2. CASE ~(Len(batch) > 1)
      BY <1>7, <2>2
    <2> QED
      BY <2>1, <2>2
  <1>9. \A t \in Seqs : HasSlot(t) /\ t \notin gone =>
           HasSlot(t)' /\ deltanet_pool'[seq_to_slot'[t]] = pool[seq_to_slot[t]]
    <2>1. SUFFICES ASSUME NEW t \in Seqs, HasSlot(t), t \notin gone
                   PROVE  HasSlot(t)' /\ deltanet_pool'[seq_to_slot'[t]] = pool[seq_to_slot[t]]
      OBVIOUS
    <2>2. SlotsApart
      BY ReadingFacts, PacingFacts
    <2>3. seq_to_slot'[t] = seq_to_slot[t] /\ seq_to_slot[t] \in Slots
      BY <1>3, <1>7, <2>1, <2>2 DEF SlotsApart, HasSlot
    <2>4. seq_to_slot[t] \notin dropped
      <3>1. CASE Len(batch) > 1 /\ HasSlot(last)
        <4>1. last \in Seqs /\ t # last
          BY <1>7, <1>8, <2>1, <3>1, ReadingFacts, PacingFacts
        <4> QED
          BY <1>2, <2>1, <2>2, <3>1, <4>1 DEF SlotsApart
      <3>2. CASE ~(Len(batch) > 1 /\ HasSlot(last))
        BY <1>2, <3>2
      <3> QED
        BY <3>1, <3>2
    <2> QED
      BY <1>4, <2>1, <2>3, <2>4 DEF HasSlot
  <1>10. /\ Range(oom_preempted) \subseteq Range(oom_preempted')
         /\ gone \subseteq Range(oom_preempted')
    <2>1. CASE Len(batch) > 1
      <3>1. PICK p \in Seq(Seqs) : p = oom_preempted
        BY ReadingFacts, PacingFacts DEF QueueTypes
      <3>2. last \in Seqs /\ gone = {last}
        BY <1>7, <1>8, <2>1, ReadingFacts, PacingFacts
      <3>3. Range(Append(p, last)) = Range(p) \cup {last}
        BY <3>1, <3>2, RangeOfAppend
      <3> QED
        BY <1>3, <2>1, <3>1, <3>2, <3>3
    <2>2. CASE ~(Len(batch) > 1)
      BY <1>3, <1>7, <2>2
    <2> QED
      BY <2>1, <2>2
  <1>11. \A t \in Seqs : /\ ~Entering(t) /\ ~Passed(t) /\ ~Passed(t)' /\ ~Started(t)'
                         /\ Dropped(t) => Dropped(t)'
                         /\ t \in gone => Dropped(t)'
    BY <1>3, <1>10 DEF Entering, Started, Passed, Dropped, Running
  <1>12. \A t \in Seqs : t \in Range(batch) \/ SamePace(t)
    BY ReadingFacts, RetryPace
  <1>13. ASSUME NEW t \in Seqs, t \notin Range(batch) PROVE SameState(t)
    <2>1. Restoring(t) => Stuck(t)
      BY <1>11, ReadingFacts
    <2>2. HasSlot(t) => HasSlot(t)' /\ deltanet_pool'[seq_to_slot'[t]].recurrent = State(t).recurrent
      BY <1>5, <1>8, <1>9, <1>13
    <2> QED
      BY <1>3, <1>11, <2>1, <2>2 DEF SameState
  <1>14. ASSUME NEW s \in Range(batch) PROVE KeysKept(s)' /\ Stated(s)'
    <2>1. /\ s \in Seqs /\ ~Finished(s) /\ KeysKept(s) /\ Stated(s)
      BY ReadingFacts, PassRange, <1>3
    <2>2. Started(s) /\ Holds(s)
      BY <1>3, <1>14, <2>1 DEF Started, Stated
    <2>3. ~Restoring(s)
      <3>1. ~Stuck(s)
        <4>1. /\ Cached(s) \in Nat /\ Scheduled(s) \in Nat \ {0}
              /\ Past(s) = Cached(s) + Scheduled(s) /\ Past(s) <= NumTokens(s)
          BY <1>3, ReadingFacts, PassRange
        <4>2. PICK c, n \in Nat, m \in Nat \ {0} :
                c = Cached(s) /\ n = NumTokens(s) /\ m = Scheduled(s)
          BY <2>1, <4>1, ReadSoFar
        <4>3. c + m <= n
          BY <4>1, <4>2
        <4>4. ~(c >= n)
          BY <4>2, <4>3
        <4> QED
          BY <4>2, <4>4 DEF Stuck
      <3> QED
        BY <1>11, <2>1, <3>1, ReadingFacts
    <2>4. /\ Cached(s)' = Cached(s) /\ Progress(s)' = Progress(s)
          /\ Progress(s) = Cached(s) /\ (Finished(s)' <=> Finished(s))
          /\ ~Restoring(s)'
      BY <1>3, <1>11, <2>1, <2>3 DEF Cached, Progress, Finished, Restoring
    <2>5. KeysKept(s)'
      BY <1>3, <2>1, <2>4 DEF KeysKept, Stores, Mapped, BlockAt, Read
    <2>6. Ready(s)'
      <3>1. CASE s \in gone
        BY <1>11, <2>1, <3>1 DEF Ready
      <3>2. CASE Fresh
        <4>1. Cached(s)' = 0
          BY <1>14, <2>4, <3>2 DEF Fresh, FromScratch, Cached
        <4> QED
          BY <1>11, <2>1, <4>1 DEF Ready
      <3>3. CASE s \notin gone /\ pool = deltanet_pool
        <4>1. HasSlot(s)' /\ deltanet_pool'[seq_to_slot'[s]] = State(s)
          BY <1>9, <2>1, <2>2, <3>3 DEF Holds, State
        <4>2. Holds(s)'
          BY <1>3, <2>2, <2>4, <4>1 DEF Holds, State, Read
        <4> QED
          BY <4>2 DEF Ready
      <3> QED
        BY <1>5, <3>1, <3>2, <3>3
    <2>7. ~Started(s)'
      BY <1>11, <2>1
    <2> QED
      BY <2>4, <2>5, <2>6, <2>7 DEF Stated
  <1>15. PICK moved : moved = Range(batch)
    OBVIOUS
  <1>16. \A t \in Seqs : t \in moved \/ (SamePace(t) /\ SameState(t))
    BY <1>12, <1>13, <1>15
  <1>17. \A t \in moved : KeysKept(t)' /\ Stated(t)'
    BY <1>14, <1>15
  <1>18. \A e \in Range(prefix_state_cache') : IsState(e.state)
    BY <1>3, KnownStates
  <1> QED
    BY <1>3, <1>6, <1>16, <1>17, <1>18, ContextNext

(* A pass moves every sequence of its batch on by what it was given. *)
LEMMA ForwardContext ==
    ASSUME Reading, Forward
    PROVE  ContextInv'
  <1>1. /\ pc = "forward" /\ pc' = "requeue" /\ ForwardPass
        /\ UNCHANGED <<seq, token_ids, block_table, seq_to_slot, batch, oom_preempted, waiting,
                       prefix_state_cache>>
        /\ deltanet_pool' = Advanced
    BY ReadingFacts DEF Forward, ForwardPass, Raise, Goto, seqVars, poolVars, queueVars, batchVars
  <1>2. /\ IsPool(Advanced)
        /\ \A i \in Slots : Advanced[i].recurrent = deltanet_pool[i].recurrent \o Inputs(i)
    <2>1. PoolTypes /\ \A i \in Slots : Inputs(i) \in Seq(Nat)
      BY <1>1, ReadingFacts, PassInputs
    <2> QED
      BY <2>1, AdvancedStates
  <1>3. PoolTypes'
    BY <1>1, <1>2 DEF PoolTypes, IsPool
  <1>4. \A t \in Seqs : ~Entering(t) /\ ~Passed(t) /\ (Passed(t)' <=> t \in Range(batch))
    BY <1>1 DEF Entering, Passed
  <1>5. ASSUME NEW t \in Seqs PROVE KeysKept(t)'
    <2>1. KeysKept(t) /\ (Finished(t)' <=> Finished(t))
      BY <1>1, ReadingFacts DEF Finished
    <2>2. PICK n, k \in Nat : n = Cached(t) /\ k = Scheduled(t)
      BY ReadSoFar
    <2>3. PICK m \in Nat : m = IF t \in Range(batch) THEN n + Scheduled(t) ELSE n
      BY <2>2
    <2>4. Progress(t) = n /\ Progress(t)' = m
      BY <1>1, <1>4, <2>2, <2>3 DEF Progress, Cached, Scheduled
    <2>5. SUFFICES ASSUME ~Finished(t) PROVE Stores(t, m)'
      BY <2>1, <2>4 DEF KeysKept
    <2>6. Stores(t, n)
      BY <2>1, <2>4, <2>5 DEF KeysKept
    <2>7. Pacing /\ SettledRead /\ UNCHANGED <<block_table, token_ids>>
      BY <1>1, ReadingFacts
    <2> QED
      BY <1>1, <2>2, <2>3, <2>6, <2>7, ForwardStores
  <1>6. ASSUME NEW t \in Seqs, t \notin Range(batch) PROVE Stated(t)'
    <2>1. SamePace(t) /\ Stated(t)
      BY <1>6, ReadingFacts, ForwardPace
    <2>2. HasSlot(t) => deltanet_pool'[seq_to_slot'[t]].recurrent = State(t).recurrent
      <3>1. SUFFICES ASSUME HasSlot(t)
                     PROVE  Advanced[seq_to_slot[t]].recurrent = State(t).recurrent
        BY <1>1
      <3>2. seq_to_slot[t] \in Slots /\ Inputs(seq_to_slot[t]) = <<>>
        BY <1>1, <1>6, <3>1, ReadingFacts, PassInputs
      <3>3. PICK i \in Slots : i = seq_to_slot[t]
        BY <3>2
      <3>4. PICK w \in Seq(Nat) : w = deltanet_pool[i].recurrent
        BY ReadingFacts DEF PoolTypes, IsPool, IsState
      <3>5. w \o <<>> = w
        OBVIOUS
      <3> QED
        BY <1>2, <3>2, <3>3, <3>4, <3>5 DEF State
    <2>3. Restoring(t) => Stuck(t)
      BY <1>4, ReadingFacts
    <2>4. SameState(t)
      BY <1>1, <1>4, <1>6, <2>2, <2>3 DEF SameState, HasSlot, Started, Dropped, Running
    <2> QED
      BY <2>1, <2>4, SteadyStated
  <1>7. ASSUME NEW s \in Range(batch) PROVE Stated(s)'
    <2>1. /\ s \in Seqs /\ ~Finished(s) /\ Cached(s) \in Nat /\ Scheduled(s) \in Nat \ {0}
          /\ First(s) = Cached(s) /\ Past(s) = Cached(s) + Scheduled(s)
          /\ Past(s) <= NumTokens(s)
      BY <1>1, ReadingFacts, PassRange
    <2>2. Holds(s) /\ Stated(s)
      BY <1>1, <1>7, <2>1, ReadingFacts DEF Started, Stated
    <2>3. PICK c, n \in Nat, m \in Nat \ {0}, q \in Seq(Nat) :
            /\ c = Cached(s) /\ n = NumTokens(s) /\ m = Scheduled(s)
            /\ q = token_ids[s] /\ n = Len(q) /\ c + m <= n
      BY <2>1, ReadSoFar DEF NumTokens
    <2>4. ~Restoring(s)
      <3>1. ~(c >= n)
        BY <2>3
      <3>2. ~Stuck(s)
        BY <2>3, <3>1 DEF Stuck
      <3> QED
        BY <1>4, <2>1, <3>2, ReadingFacts
    <2>5. Holds(s)'
      <3>1. /\ seq_to_slot[s] \in Slots
            /\ Inputs(seq_to_slot[s]) = SubSeq(token_ids[s], First(s) + 1, Past(s))
        BY <1>1, ReadingFacts, PassInputs
      <3>2. PICK i \in Slots : i = seq_to_slot[s]
        BY <3>1
      <3>3. deltanet_pool[i].recurrent = SubSeq(q, 1, c)
        BY <1>4, <2>1, <2>2, <2>3, <3>2 DEF Holds, State, Read, Progress
      <3>4. Inputs(i) = SubSeq(q, c + 1, c + m)
        BY <2>1, <2>3, <3>1, <3>2
      <3>5. SubSeq(q, 1, c) \o SubSeq(q, c + 1, c + m) = SubSeq(q, 1, c + m)
        <4>1. m \in Nat /\ c + m <= Len(q)
          BY <2>3
        <4> QED
          BY <4>1, ReadOn
      <3>6. Advanced[i].recurrent = SubSeq(q, 1, c + m)
        BY <1>2, <3>3, <3>4, <3>5
      <3>7. Progress(s)' = c + m
        BY <1>1, <1>4, <1>7, <2>1, <2>3 DEF Progress, Cached, Scheduled
      <3> QED
        BY <1>1, <2>2, <2>3, <3>2, <3>6, <3>7 DEF Holds, HasSlot, State, Read
    <2> QED
      BY <1>1, <2>4, <2>5 DEF Stated, Ready, Restoring
  <1>8. \A t \in Seqs : KeysKept(t)' /\ Stated(t)'
    BY <1>5, <1>6, <1>7
  <1>9. \A e \in Range(prefix_state_cache') : IsState(e.state)
    BY <1>1, KnownStates
  <1> QED
    BY <1>3, <1>8, <1>9 DEF ContextInv, StateTypes

(* The sequence that postprocess() counts has just been passed. *)
LEMMA RecordFacts ==
    ASSUME Reading, Record, NEW s, s = Head(todo)
    PROVE  /\ pc = "record" /\ pc' = "sample" /\ todo' = todo
           /\ UNCHANGED <<token_ids, block_table, kv_cache, seq_to_slot, deltanet_pool, waiting,
                          batch, oom_preempted>>
           /\ s \in Seqs /\ s \in Unfinished /\ s \in Range(todo) /\ s \notin Range(Tail(todo))
           /\ Cached(s) \in Nat /\ Scheduled(s) \in Nat
           /\ Stores(s, Cached(s) + Scheduled(s)) /\ Holds(s)
           /\ Progress(s) = Cached(s) + Scheduled(s) /\ RecordProgress(s)
           /\ seq' = [seq EXCEPT ![s].num_cached_tokens = Cached(s) + Scheduled(s),
                                 ![s].num_scheduled_tokens = 0]
  <1>1. /\ pc = "record" /\ pc' = "sample" /\ todo # <<>> /\ RecordProgress(s)
        /\ UNCHANGED <<token_ids, block_table, kv_cache, seq_to_slot, deltanet_pool, waiting,
                       batch, oom_preempted, todo>>
    BY DEF Record, Goto, poolVars, queueVars, batchVars, stepVars
  <1>2. /\ s \in Seqs /\ s \in Unfinished
        /\ Range(todo) = {s} \cup Range(Tail(todo)) /\ s \notin Range(Tail(todo))
    <2>1. pc \in Processing
      BY <1>1 DEF Processing
    <2> QED
      BY <1>1, <2>1, ReadingFacts, PacingFacts, HeadOfTodo
  <1>3. Passed(s) /\ Started(s) /\ ~Finished(s)
    BY <1>1, <1>2 DEF Passed, Started, Unfinished
  <1>4. Progress(s) = Cached(s) + Scheduled(s)
    BY <1>3 DEF Progress
  <1>5. Stores(s, Cached(s) + Scheduled(s)) /\ Holds(s)
    BY <1>2, <1>3, <1>4, ReadingFacts DEF KeysKept, Stated
  <1>6. seq' = [seq EXCEPT ![s].num_cached_tokens = Cached(s) + Scheduled(s),
                           ![s].num_scheduled_tokens = 0]
    BY <1>1 DEF RecordProgress, Cached, Scheduled
  <1> QED
    BY <1>1, <1>2, <1>4, <1>5, <1>6, ReadSoFar

(* What the pass has read is counted, and may be kept as a snapshot. *)
LEMMA RecordContext ==
    ASSUME Reading, Record, NEW s, s = Head(todo)
    PROVE  ContextInv'
  <1>1. /\ pc = "record" /\ pc' = "sample" /\ todo' = todo
        /\ UNCHANGED <<token_ids, block_table, kv_cache, seq_to_slot, deltanet_pool, waiting,
                       batch, oom_preempted>>
        /\ s \in Seqs /\ s \in Unfinished /\ s \in Range(todo) /\ s \notin Range(Tail(todo))
        /\ Stores(s, Cached(s) + Scheduled(s)) /\ Holds(s)
        /\ Progress(s) = Cached(s) + Scheduled(s) /\ RecordProgress(s)
        /\ SeqTypes /\ BatchInv /\ ChunkInv
    BY RecordFacts, ReadingFacts, PacingFacts
  <1>2. PICK k, m, n, c \in Nat :
           k = Cached(s) /\ m = Scheduled(s) /\ n = NumTokens(s) /\ c = k + m
    <2>1. PICK k, m, n \in Nat : k = Cached(s) /\ m = Scheduled(s) /\ n = NumTokens(s)
      BY <1>1, ReadSoFar
    <2> QED
      BY <2>1
  <1>3. seq' = [seq EXCEPT ![s].num_cached_tokens = c, ![s].num_scheduled_tokens = 0]
    BY <1>2, RecordFacts
  <1>4. /\ \A t \in Seqs : (t # s => seq'[t] = seq[t]) /\ (Finished(t)' <=> Finished(t))
        /\ Cached(s)' = c
    <2>1. c = seq[s].num_cached_tokens + seq[s].num_scheduled_tokens
      BY <1>2 DEF Cached, Scheduled
    <2> QED
      BY <1>1, <1>3, <2>1, RecordedSeq DEF Cached
  <1>5. \A t \in Seqs : seq'[t].prefix_restore_blocks = seq[t].prefix_restore_blocks
    BY <1>1, <1>3, SameChain
  <1>6. \A t \in Seqs : ~Entering(t) /\ ~Dropped(t) /\ (Started(t)' => Started(t))
                        /\ (t = s => ~Passed(t)' /\ ~Started(t)')
    <2>1. pc \in Processing
      BY <1>1 DEF Processing
    <2>2. Range(Tail(todo)) \subseteq Range(todo)
      BY <1>1, <2>1, ReadingFacts, PacingFacts, HeadOfTodo, EmptyList
    <2> QED
      BY <1>1, <2>2 DEF Entering, Started, Passed, Dropped, Running
  <1>7. \A t \in Seqs : t = s \/ SamePace(t)
    BY ReadingFacts, RecordPace
  <1>8. \A t \in Seqs : SameState(t) /\ PoolTypes'
    BY <1>1, <1>5, <1>6, StillState DEF SameSlotsAndStates
  <1>9. ~Restoring(s)
    <2>1. SUFFICES ASSUME Stuck(s) PROVE FALSE
      BY <1>1, <1>6, ReadingFacts
    <2>2. s \in Range(waiting) /\ s \in Range(batch) /\ batch_is_prefill
      BY <1>1, <2>1 DEF Stuck, BatchInv, Processing
    <2>3. k + m < n
      BY <1>1, <1>2, <2>2 DEF ChunkInv, Cached, Scheduled
    <2>4. k >= n
      BY <1>2, <2>1 DEF Stuck
    <2> QED
      BY <1>2, <2>3, <2>4
  <1>10. Progress(s)' = c /\ ~Restoring(s)'
    BY <1>1, <1>4, <1>5, <1>6, <1>9 DEF Progress, Restoring
  <1>11. KeysKept(s)'
    <2>1. Stores(s, c)
      BY <1>1, <1>2
    <2>2. Stores(s, c)'
      BY <1>1, <2>1 DEF Stores, Mapped, BlockAt, Read
    <2> QED
      BY <1>10, <2>2 DEF KeysKept
  <1>12. Holds(s)'
    BY <1>1, <1>2, <1>10 DEF Holds, HasSlot, State, Read
  <1>13. Stated(s)'
    BY <1>10, <1>12 DEF Stated, Ready
  <1>14. \A e \in Range(prefix_state_cache') : IsState(e.state)
    <2>1. CASE UNCHANGED prefix_state_cache
      BY <2>1, KnownStates
    <2>2. CASE ~UNCHANGED prefix_state_cache
      <3>1. PICK key : SaveState(s, key)
        BY <1>1, <2>2 DEF RecordProgress
      <3>2. PICK new : new = [key |-> key, state |-> State(s)]
        OBVIOUS
      <3>3. Range(prefix_state_cache') \subseteq Range(prefix_state_cache) \cup {new}
        BY <3>1, <3>2, ReadingFacts, PacingFacts, SavedWithin DEF KeysLive
      <3>4. IsState(State(s))
        <4>1. seq_to_slot[s] \in Slots
          BY <1>1, ReadingFacts, PacingFacts DEF SlotsApart, Holds, HasSlot
        <4> QED
          BY <4>1, ReadingFacts DEF PoolTypes, IsPool, State
      <3>5. IsState(new.state)
        BY <3>2, <3>4
      <3> QED
        BY <3>3, <3>5, ReadingFacts DEF StateTypes
    <2> QED
      BY <2>1, <2>2
  <1>15. PICK moved : moved = {s}
    OBVIOUS
  <1>16. \A t \in Seqs : t \in moved \/ (SamePace(t) /\ SameState(t))
    BY <1>7, <1>8, <1>15
  <1>17. \A t \in moved : KeysKept(t)' /\ Stated(t)'
    BY <1>11, <1>13, <1>15
  <1>18. PoolTypes' /\ UNCHANGED kv_cache
    BY <1>1, <1>8
  <1> QED
    BY <1>14, <1>16, <1>17, <1>18, ContextNext

(* The token that was sampled is behind what its sequence has read. *)
LEMMA SampleContext ==
    ASSUME Reading, Sample, [EngineNext]_vars, NEW s, s = Head(todo)
    PROVE  ContextInv'
  <1>1. /\ pc = "sample" /\ pc' = "record" /\ todo # <<>> /\ todo' = Tail(todo)
        /\ UNCHANGED <<waiting, kv_cache, seq_to_slot, deltanet_pool, batch, oom_preempted>>
        /\ IF StillPrefilling(s) THEN UNCHANGED <<seq, token_ids, block_table>>
                                 ELSE AppendToken(s)
    <2>1. pc = "sample"
      BY DEF Sample
    <2>2. todo # <<>>
      BY <2>1, ReadingFacts, PacingFacts DEF BatchInv
    <2> QED
      BY <2>1, <2>2 DEF Sample, Goto, loopVars, batchVars, seqVars, poolVars
  <1>2. /\ s \in Seqs /\ s \in Unfinished /\ s \notin Range(Tail(todo))
        /\ SeqTypes /\ BatchInv /\ ChunkInv /\ s \in Range(batch)
    <2>1. pc \in Processing
      BY <1>1 DEF Processing
    <2> QED
      BY <1>1, <2>1, ReadingFacts, PacingFacts, HeadOfTodo
  <1>3. \A t \in Seqs : ~Entering(t) /\ ~Dropped(t) /\ (Passed(t)' <=> Passed(t))
                        /\ (Started(t)' => Started(t))
                        /\ (t = s => ~Passed(t) /\ ~Passed(t)' /\ ~Started(t)')
    BY <1>1, <1>2 DEF Entering, Started, Passed, Dropped, Running
  <1>4. \A t \in Seqs : t = s \/ SamePace(t)
    BY ReadingFacts, SamplePace
  <1>5. \A e \in Range(prefix_state_cache') : IsState(e.state)
    <2>1. ~Record
      BY <1>1 DEF Record
    <2> QED
      BY <2>1, ReadingFacts, PacingFacts, StatesWithin, KnownStates DEF KeysLive
  <1>6. KeysKept(s) /\ Stated(s) /\ ~Finished(s)
    BY <1>2, ReadingFacts DEF Unfinished
  <1>7. /\ \A t \in Seqs : seq'[t].prefix_restore_blocks = seq[t].prefix_restore_blocks
        /\ Cached(s)' = Cached(s)
    <2>1. CASE UNCHANGED seq
      BY <2>1 DEF Cached
    <2>2. CASE seq' = [seq EXCEPT ![s].status = "FINISHED"]
      BY <1>2, <2>2, SameChain, FinishedCounters DEF Cached
    <2> QED
      BY <1>1, <2>1, <2>2 DEF AppendToken, Finish
  <1>8. \A t \in Seqs : SameState(t) /\ PoolTypes'
    BY <1>1, <1>3, <1>7, StillState DEF SameSlotsAndStates
  <1>9. Progress(s) = Cached(s) /\ Progress(s)' = Cached(s)
    BY <1>2, <1>3, <1>7 DEF Progress
  <1>10. KeysKept(s)' /\ Stated(s)'
    <2>1. CASE UNCHANGED <<seq, token_ids, block_table>>
      <3>1. KeysKept(s)'
        BY <1>1, <1>6, <1>9, <2>1 DEF KeysKept, Stores, Mapped, BlockAt, Read, Finished
      <3>2. Holds(s) => Holds(s)'
        BY <1>1, <1>9, <2>1 DEF Holds, HasSlot, State, Read
      <3>3. Ready(s)'
        BY <1>2, <1>3, <1>6, <1>7, <3>2 DEF Stated, Ready, Restoring
      <3>4. Restoring(s)' => block_table'[s] # <<>> /\ Stuck(s)'
        <4>1. Restoring(s) => block_table[s] # <<>> /\ Stuck(s)
          BY <1>2, <1>3, <1>6, ReadingFacts DEF Stated
        <4> QED
          BY <1>1, <1>2, <1>7, <2>1, <4>1 DEF Restoring, Stuck, NumTokens
      <3> QED
        BY <1>2, <1>3, <3>1, <3>3, <3>4 DEF Stated
    <2>2. CASE ~StillPrefilling(s) /\ AppendToken(s)
      <3>1. ~Restoring(s)'
        <4>1. ~Restoring(s)
          <5>1. s \notin Range(waiting)
            BY <1>1, <1>2, <2>2 DEF StillPrefilling, ChunkInv, BatchInv
          <5> QED
            BY <1>2, <1>3, <5>1, ReadingFacts
        <4> QED
          BY <1>2, <1>7, <4>1 DEF Restoring
      <3>2. PICK token \in Vocab :
               /\ token_ids' = [token_ids EXCEPT ![s] = Append(@, token)]
               /\ Finish(s) \/ UNCHANGED <<seq, block_table>>
        BY <2>2 DEF AppendToken, poolVars
      <3>3. CASE Finish(s)
        <4>1. Finished(s)'
          BY <1>2, <3>3, FinishedSeq DEF Finish
        <4> QED
          BY <3>1, <4>1 DEF KeysKept, Stated
      <3>4. CASE UNCHANGED <<seq, block_table>>
        <4>1. PICK q \in Seq(Nat) : q = token_ids[s]
          BY <1>2, ReadSoFar
        <4>2. PICK new \in Seq(Nat) : new = <<token>>
          <5>1. token \in Nat
            BY SequenceAssumption
          <5>2. <<token>> \in Seq(Nat)
            BY <5>1
          <5> QED
            BY <5>2
        <4>3. token_ids'[s] = q \o new
          <5>1. token_ids'[s] = Append(q, token)
            BY <1>2, <3>2, <4>1 DEF SeqTypes
          <5>2. token \in Nat
            BY SequenceAssumption
          <5>3. Append(q, token) = q \o <<token>>
            BY <5>2
          <5> QED
            BY <4>2, <5>1, <5>3
        <4>4. PICK k \in Nat : k = Cached(s) /\ k <= Len(q)
          <5>1. PICK k, n \in Nat : k = Cached(s) /\ n = NumTokens(s)
            BY <1>2, ReadSoFar
          <5>2. s \in Decoders
            <6>1. s \notin Range(waiting)
              BY <1>1, <1>2, <2>2 DEF StillPrefilling, ChunkInv, BatchInv
            <6> QED
              BY <1>2, <6>1, ReadingFacts, PacingFacts DEF QueuesApart, Decoders
          <5> QED
            BY <1>2, <4>1, <5>1, <5>2, ReadSoFar DEF NumTokens
        <4>5. KeysKept(s)'
          <5>1. Stores(s, k)
            BY <1>6, <1>9, <4>4 DEF KeysKept
          <5>2. PICK more \in Seq(Blocks) : more = <<>>
            BY EmptyList
          <5>3. block_table[s] \in Seq(Blocks) /\ block_table'[s] = block_table[s] \o more
            <6>1. PICK b \in Seq(Blocks) : b = block_table[s]
              BY <1>2, ReadingFacts, PacingFacts
            <6>2. b \o <<>> = b
              OBVIOUS
            <6> QED
              BY <3>4, <5>2, <6>1, <6>2
          <5>4. k <= NumTokens(s) /\ token_ids[s] \in Seq(Nat) /\ token_ids'[s] = token_ids[s] \o new
            BY <4>1, <4>3, <4>4 DEF NumTokens
          <5>5. Stores(s, k)'
            BY <1>1, <1>2, <5>1, <5>3, <5>4, GrownStores
          <5> QED
            BY <1>9, <4>4, <5>5 DEF KeysKept
        <4>6. Read(s, k)' = Read(s, k)
          <5>1. SubSeq(q \o new, 1, k) = SubSeq(q, 1, k)
            <6>1. CASE k = 0
              BY <6>1
            <6>2. CASE k # 0
              <7>1. k \in 1 .. Len(q)
                BY <4>4, <6>2
              <7> QED
                BY <7>1, StartOfConcat
            <6> QED
              BY <6>1, <6>2
          <5> QED
            BY <4>1, <4>3, <5>1 DEF Read
        <4>7. Holds(s) => Holds(s)'
          BY <1>1, <1>9, <4>4, <4>6 DEF Holds, HasSlot, State
        <4>8. Ready(s)'
          <5>1. Cached(s) = 0 \/ Holds(s)
            BY <1>2, <1>3, <1>6, <3>1, <1>7 DEF Stated, Ready, Restoring
          <5> QED
            BY <1>2, <1>3, <1>7, <4>7, <5>1 DEF Ready
        <4> QED
          BY <1>2, <1>3, <3>1, <4>5, <4>8 DEF Stated
      <3> QED
        BY <3>2, <3>3, <3>4
    <2> QED
      BY <1>1, <2>1, <2>2
  <1>11. PICK moved : moved = {s}
    OBVIOUS
  <1>12. \A t \in Seqs : t \in moved \/ (SamePace(t) /\ SameState(t))
    BY <1>4, <1>8, <1>11
  <1>13. \A t \in moved : KeysKept(t)' /\ Stated(t)'
    BY <1>10, <1>11
  <1>14. PoolTypes' /\ UNCHANGED kv_cache
    BY <1>1, <1>2, <1>8
  <1> QED
    BY <1>5, <1>12, <1>13, <1>14, ContextNext

(* The loops of schedule(). *)
LEMMA ScheduleContext ==
    ASSUME Reading, Schedule, [EngineNext]_vars
    PROVE  ContextInv'
  <1>1. CASE ScheduleDecode /\ UNCHANGED stepVars
    BY <1>1, ScheduleDecodeContext
  <1>2. CASE SchedulePreempt /\ UNCHANGED stepVars
    BY <1>2, SchedulePreemptContext
  <1>3. CASE EndDecode /\ UNCHANGED stepVars
    BY <1>3, IdleContext
  <1>4. CASE (AdmitShared \/ AdmitFresh) /\ UNCHANGED stepVars
    BY <1>4, AdmitContext
  <1>5. CASE EndSchedule
    BY <1>5, ChunkContext, NoChunkContext DEF EndSchedule
  <1> QED
    BY <1>1, <1>2, <1>3, <1>4, <1>5 DEF Schedule

(* The loop of advance_decode(). *)
LEMMA AdvanceContext ==
    ASSUME Reading, Advance, [EngineNext]_vars
    PROVE  ContextInv'
  <1>1. CASE AdvancePreempt(Head(todo)) /\ UNCHANGED <<todo, pc>>
    BY <1>1, AdvancePreemptContext
  <1>2. CASE /\ AdvanceAppend(Head(todo)) /\ todo' = Tail(todo)
             /\ UNCHANGED <<token_ids, runnerVars, queueVars, pc>>
    <2>1. PICK s : s = Head(todo)
      OBVIOUS
    <2>2. AdvanceAppend(s)
      BY <1>2, <2>1
    <2> QED
      BY <1>2, <2>1, <2>2, AdvanceAppendContext
  <1>3. pc' # "raised"
    BY ReadingFacts
  <1> QED
    BY <1>1, <1>2, <1>3 DEF Advance, Raise

(* Nothing of what is read is touched. *)
LEMMA StillContext ==
    ASSUME Reading, UNCHANGED vars
    PROVE  ContextInv'
  <1>1. UNCHANGED <<seq, token_ids, block_table, seq_to_slot, deltanet_pool, kv_cache,
                    prefix_state_cache, waiting, pc, batch, batch_is_prefill, todo,
                    oom_preempted>>
    BY DEF vars, poolVars, seqVars, runnerVars, batchVars, queueVars, loopVars, stepVars
  <1>2. StateTypes'
    BY <1>1, ReadingFacts DEF StateTypes, PoolTypes
  <1>3. ASSUME NEW s \in Seqs PROVE KeysKept(s)' /\ Stated(s)'
    <2>1. KeysKept(s) /\ Stated(s)
      BY ReadingFacts
    <2>2. /\ Progress(s)' = Progress(s) /\ (Finished(s)' <=> Finished(s))
          /\ Cached(s)' = Cached(s) /\ (Passed(s)' <=> Passed(s))
          /\ (Started(s)' <=> Started(s)) /\ (Dropped(s)' <=> Dropped(s))
          /\ (Restoring(s)' <=> Restoring(s)) /\ (Stuck(s)' <=> Stuck(s))
      BY <1>1 DEF Progress, Cached, Scheduled, Passed, Started, Dropped, Finished, Restoring,
                  Stuck, NumTokens
    <2>3. KeysKept(s)'
      BY <1>1, <2>1, <2>2 DEF KeysKept, Stores, Mapped, BlockAt, Read
    <2>4. Holds(s)' <=> Holds(s)
      BY <1>1, <2>2 DEF Holds, HasSlot, State, Read
    <2>5. (Ready(s)' <=> Ready(s))
      BY <2>2, <2>4 DEF Ready
    <2>6. Entering(s) => Entering(s)'
      BY <1>1 DEF Entering, MayPrefill, Candidate, Budget, vars, loopVars
    <2>7. Restorable(s) => Restorable(s)'
      BY <1>1, <2>2 DEF Restorable, HasState, Snapshot, Keys, Read
    <2> QED
      BY <1>1, <2>1, <2>2, <2>3, <2>4, <2>5, <2>6, <2>7 DEF Stated
  <1> QED
    BY <1>2, <1>3 DEF ContextInv

(* What a step is taken from, whatever it raises. *)
Knowing ==
    /\ EngineInv /\ SlotInv /\ WriteInv /\ PaceInv /\ ContextInv /\ SnapInv
    /\ Undisturbed /\ [EngineNext]_vars /\ EngineInv'
    /\ EnablePrefixCaching => HitsExact
    /\ ~ServeAfterError /\ "resumed" \notin LateOOM

(* A step that raises nothing is one that reads. *)
LEMMA KnowingReads ==
    ASSUME Knowing, pc # "raised", pc' # "raised"
    PROVE  Reading
  <1>1. exception # "KeyError"
    BY DEF Knowing, EngineInv, QueueInv
  <1>2. Pacing
    BY <1>1 DEF Knowing, Pacing, Filling, Stepping, EngineInv, WriteInv
  <1> QED
    BY <1>2 DEF Knowing, Reading, WriteInv

(* Every step of the engine. *)
LEMMA ContextStep ==
    ASSUME Knowing
    PROVE  ContextInv'
  <1>1. CASE pc' = "raised"
    BY <1>1 DEF ContextInv
  <1>2. CASE pc = "raised"
    <2>1. pc' = "raised"
      BY <1>2, RaisedStays DEF Knowing, vars, loopVars
    <2> QED
      BY <2>1 DEF ContextInv
  <1>3. CASE pc # "raised" /\ pc' # "raised"
    <2>1. Reading /\ [EngineNext]_vars
      BY <1>3, KnowingReads DEF Knowing
    <2>2. CASE Schedule
      BY <2>1, <2>2, ScheduleContext
    <2>3. CASE Prepare \/ Forward \/ Retry \/ Requeue
      BY <2>1, <2>3, PrepareContext, ForwardContext, RetryContext, RequeueContext
    <2>4. CASE EndRequeue \/ EndAdvance \/ Finalize
      BY <2>1, <2>4, BetweenContext, FinalizeContext
    <2>5. CASE Record \/ Sample
      <3>1. PICK s : s = Head(todo)
        OBVIOUS
      <3> QED
        BY <2>1, <2>5, <3>1, RecordContext, SampleContext
    <2>6. CASE Advance
      BY <2>1, <2>6, AdvanceContext
    <2>7. CASE Generate \/ BeginStep \/ Return
      <3>1. ~EndDecode
        BY <2>7 DEF Generate, BeginStep, Return, StartSchedule, EndDecode
      <3> QED
        BY <2>1, <2>7, <3>1, IdleContext, ReturnContext
    <2>8. CASE Stopped \/ UNCHANGED vars
      BY <2>1, <2>8, StillContext DEF Stopped
    <2>9. ~GenerateRejected /\ ~Abandon /\ ~Recover /\ ~GiveUp
      BY <1>3 DEF Knowing, GenerateRejected, Abandon, Recover, GiveUp, Raise
    <2> QED
      BY <2>1, <2>2, <2>3, <2>4, <2>5, <2>6, <2>7, <2>8, <2>9 DEF EngineNext, EngineStep
  <1> QED
    BY <1>1, <1>2, <1>3

(* A multiple is its quotient times the divisor. *)
LEMMA ExactDiv == \A c \in Nat, z \in Nat \ {0} : c % z = 0 => c = (c \div z) * z
  OBVIOUS

(* What was passed is no more than there is. *)
LEMMA RecordRead ==
    ASSUME Reading, Record, NEW s, s = Head(todo)
    PROVE  Cached(s) + Scheduled(s) <= NumTokens(s)
  <1>1. /\ pc = "record" /\ s \in Seqs /\ s \in Unfinished /\ s \in Range(todo)
        /\ s \in Range(batch) /\ Paced(s) /\ BatchInv /\ ChunkInv /\ QueuesApart
    BY RecordFacts, ReadingFacts, PacingFacts DEF BatchInv, Processing
  <1>2. PICK k, m, n \in Nat : k = Cached(s) /\ m = Scheduled(s) /\ n = NumTokens(s)
    BY <1>1, ReadSoFar
  <1>3. CASE s \in Range(waiting)
    <2>1. batch_is_prefill
      BY <1>1, <1>3 DEF BatchInv
    <2>2. k + m < n
      BY <1>1, <1>2, <1>3, <2>1 DEF ChunkInv, Cached, Scheduled
    <2>3. k + m <= n
      BY <2>2
    <2> QED
      BY <1>2, <2>3
  <1>4. CASE s \in Decoders
    <2>1. Due(s) /\ ~Sampled(s) /\ Passed(s)
      BY <1>1, <1>4 DEF Paced, Sampled, Passed
    <2>2. CASE batch_is_prefill
      <3>1. k + m = n
        BY <1>2, <2>1, <2>2 DEF Due, Pending, InPrefill, InPass, Started
      <3>2. k + m <= n
        BY <3>1
      <3> QED
        BY <1>2, <3>2
    <2>3. CASE ~batch_is_prefill
      <3>1. Picked(s)
        BY <2>1, <2>3 DEF Picked, InPass, Started
      <3>2. k + 1 = n /\ m = 1
        BY <1>1, <1>2, <2>1, <2>3, <3>1 DEF Paced, Due, Pending, InPrefill
      <3>3. k + m <= n
        BY <3>2, SMTT(20)
      <3> QED
        BY <1>2, <3>3
    <2> QED
      BY <2>2, <2>3
  <1> QED
    BY <1>1, <1>3, <1>4 DEF QueuesApart, Decoders

(* The snapshot that postprocess() saves is of the blocks' own tokens. *)
LEMMA SavedRead ==
    ASSUME Reading, Record, NEW s, s = Head(todo), NEW c, c = Cached(s) + Scheduled(s),
           c > 0, c % BlockSize = 0,
           NEW key, key = SubSeq(block_table[s], 1, Min({c \div BlockSize, Len(block_table[s])})),
           NEW e, e = [key |-> key, state |-> State(s)]
    PROVE  SnapshotRead(e)
  <1>1. PICK z \in Nat \ {0} : z = BlockSize
    BY PoolAssumption DEF PoolAssumption
  <1>2. PICK q \in Seq(Blocks), r \in Seq(Nat) : q = block_table[s] /\ r = token_ids[s]
    BY RecordFacts, ReadSoFar, ReadingFacts, PacingFacts
  <1>3. c \in Nat /\ c <= Len(r)
    <2>1. Cached(s) \in Nat /\ Scheduled(s) \in Nat
      BY RecordFacts
    <2>2. c <= NumTokens(s)
      BY RecordRead
    <2> QED
      BY <1>2, <2>1, <2>2 DEF NumTokens
  <1>4. PICK d \in Nat : d = c \div z /\ c = d * z
    <2>1. c \div z \in Nat /\ c = (c \div z) * z
      BY <1>1, <1>3, ExactDiv, BlockOfPosition
    <2> QED
      BY <2>1
  <1>5. d > 0
    <2>1. SUFFICES ASSUME d = 0 PROVE FALSE
      OBVIOUS
    <2>2. c = 0
      BY <1>4, <2>1
    <2> QED
      BY <1>3, <2>2
  <1>6. /\ Stores(s, c) /\ Holds(s) /\ Progress(s) = c
    BY RecordFacts
  <1>7. \A p \in 0 .. (c - 1) : p \div z < Len(q)
                               /\ kv_cache[q[p \div z + 1]][p % z] = SubSeq(r, 1, p + 1)
    BY <1>1, <1>2, <1>6 DEF Stores, Mapped, BlockAt, Read
  <1>8. d <= Len(q)
    <2>1. PICK j \in Nat : j = d - 1 /\ d = j + 1
      BY <1>5
    <2>2. PICK p \in Nat : p = j * z
      BY <2>1
    <2>3. p + z = d * z
      BY <2>1, <2>2
    <2>4. p \in 0 .. (c - 1)
      BY <1>3, <1>4, <2>3
    <2>5. p \div z = j
      BY <2>2, DivOfProduct
    <2>6. j < Len(q)
      BY <1>7, <2>4, <2>5
    <2> QED
      BY <2>1, <2>6
  <1>9. key = SubSeq(q, 1, d)
    <2>1. Min({d, Len(q)}) = d
      <3>1. PICK m, n \in Nat : m = Len(q) /\ n = Min({d, m})
        <4>1. Len(q) \in Nat
          OBVIOUS
        <4> QED
          BY <4>1, SmallerOf
      <3>2. n <= d /\ n <= m /\ (n = d \/ n = m)
        BY <3>1, SmallerOf
      <3>3. n = d
        BY <1>8, <3>1, <3>2
      <3> QED
        BY <3>1, <3>3
    <2> QED
      BY <1>1, <1>2, <1>4, <2>1
  <1>10. Len(key) = d /\ key # <<>> /\ \A i \in 1 .. d : key[i] = q[i]
    <2>1. SubSeq(q, 1, d) \in Seq(Blocks) /\ Len(SubSeq(q, 1, d)) = d
          /\ \A i \in 1 .. d : SubSeq(q, 1, d)[i] = q[i]
      BY <1>8
    <2>2. key # <<>>
      <3>1. Len(key) = d
        BY <1>9, <2>1
      <3>2. d # 0
        BY <1>5
      <3>3. Len(<<>>) = 0
        OBVIOUS
      <3> QED
        BY <3>1, <3>2, <3>3, Zenon
    <2> QED
      BY <1>9, <2>1, <2>2
  <1>11. PICK w : w = SubSeq(r, 1, c)
    OBVIOUS
  <1>12. e.key = key /\ e.state.recurrent = w
    BY <1>2, <1>6, <1>11 DEF Holds, Read
  <1>13. Len(w) = c /\ \A i \in 1 .. c : SubSeq(w, 1, i) = SubSeq(r, 1, i)
    <2>1. Len(w) = c
      BY <1>3, <1>11, SMTT(20)
    <2>2. \A i \in 1 .. c : SubSeq(SubSeq(r, 1, c), 1, i) = SubSeq(r, 1, i)
      BY <1>3, StartOfStart, SMTT(20)
    <2> QED
      BY <1>11, <2>1, <2>2, Zenon
  <1>14. ASSUME NEW p \in 0 .. (c - 1)
         PROVE  kv_cache[key[p \div z + 1]][p % z] = SubSeq(w, 1, p + 1)
    <2>1. p \in Nat /\ p < d * z /\ p + 1 \in 1 .. c
      <3>1. p \in Nat /\ p < c /\ p + 1 \in 1 .. c
        BY <1>3, <1>14, SMTT(20)
      <3> QED
        BY <1>4, <3>1, Zenon
    <2>2. PICK j \in Nat : j = p \div z
      BY <2>1, BlockOfPosition
    <2>3. j < d
      BY <2>1, <2>2, QuotientBelow
    <2>4. key[j + 1] = q[j + 1]
      <3>1. j + 1 \in 1 .. d
        BY <2>3
      <3> QED
        BY <1>10, <3>1
    <2>5. SubSeq(w, 1, p + 1) = SubSeq(r, 1, p + 1)
      BY <1>13, <2>1
    <2>6. kv_cache[q[j + 1]][p % z] = SubSeq(r, 1, p + 1)
      BY <1>7, <1>14, <2>2
    <2> QED
      BY <2>2, <2>4, <2>5, <2>6
  <1>15. Len(e.state.recurrent) = Len(e.key) * BlockSize
    BY <1>1, <1>4, <1>10, <1>12, <1>13
  <1>16. \A p \in 0 .. (Len(e.state.recurrent) - 1) :
            kv_cache[e.key[p \div BlockSize + 1]][p % BlockSize]
               = SubSeq(e.state.recurrent, 1, p + 1)
    <2>1. SUFFICES ASSUME NEW p \in 0 .. (Len(e.state.recurrent) - 1)
                   PROVE  kv_cache[e.key[p \div BlockSize + 1]][p % BlockSize]
                             = SubSeq(e.state.recurrent, 1, p + 1)
      BY Zenon
    <2>2. e.state.recurrent = w /\ e.key = key /\ BlockSize = z
      BY <1>1, <1>12, Zenon
    <2>3. p \in 0 .. (c - 1)
      <3>1. Len(e.state.recurrent) = c
        BY <1>13, <2>2, Zenon
      <3> QED
        BY <2>1, <3>1, Zenon
    <2>4. kv_cache[key[p \div z + 1]][p % z] = SubSeq(w, 1, p + 1)
      BY <1>14, <2>3, Zenon
    <2> QED
      BY <2>2, <2>4, Zenon
  <1> QED
    BY <1>10, <1>12, <1>15, <1>16, Zenon DEF SnapshotRead

(* Every step of the engine. *)
LEMMA SnapStep ==
    ASSUME Knowing
    PROVE  SnapInv'
  <1>1. CASE Forward /\ ForwardPass
    <2>1. pc = "forward" /\ pc' = "requeue" /\ UNCHANGED prefix_state_cache
      BY <1>1 DEF Forward, ForwardPass, RejectedPass, Goto
    <2>2. Reading
      BY <2>1, KnowingReads
    <2>3. \A e \in Range(prefix_state_cache) : SnapshotRead(e)'
      BY <1>1, <2>1, <2>2, ReadingFacts, ForwardSnapshots
    <2> QED
      BY <2>1, <2>3 DEF SnapInv
  <1>2. CASE Record
    <2>1. pc = "record" /\ pc' = "sample" /\ UNCHANGED kv_cache
      BY <1>2 DEF Record, Goto
    <2>2. Reading
      BY <2>1, KnowingReads
    <2>3. PICK s, c : s = Head(todo) /\ c = Cached(s) + Scheduled(s)
      OBVIOUS
    <2>4. RecordProgress(s)
      BY <1>2, <2>3 DEF Record
    <2>5. \A e \in Range(prefix_state_cache') : SnapshotRead(e)
      <3>1. CASE UNCHANGED prefix_state_cache
        BY <2>2, <3>1, ReadingFacts DEF SnapInv
      <3>2. CASE ~UNCHANGED prefix_state_cache
        <4>1. PICK key : /\ key = SubSeq(block_table[s], 1,
                                         Min({c \div BlockSize, Len(block_table[s])}))
                         /\ SaveState(s, key) /\ c > 0 /\ c % BlockSize = 0
          BY <2>3, <2>4, <3>2 DEF RecordProgress, Saves, Cached, Scheduled
        <4>2. PICK new : new = [key |-> key, state |-> State(s)]
          OBVIOUS
        <4>3. Range(prefix_state_cache') \subseteq Range(prefix_state_cache) \cup {new}
          BY <2>2, <4>1, <4>2, ReadingFacts, PacingFacts, SavedWithin DEF KeysLive
        <4>4. SnapshotRead(new)
          BY <1>2, <2>2, <2>3, <4>1, <4>2, SavedRead
        <4> QED
          BY <2>2, <4>3, <4>4, ReadingFacts DEF SnapInv
      <3> QED
        BY <3>1, <3>2
    <2> QED
      BY <2>1, <2>5 DEF SnapInv, SnapshotRead
  <1>3. CASE ~Record /\ ~(Forward /\ ForwardPass)
    <2>1. UNCHANGED kv_cache
      BY <1>3, KeysUnwritten DEF Knowing
    <2>2. QueueTypes /\ IsList(prefix_state_cache) /\ [EngineNext]_vars /\ SnapInv
      BY DEF Knowing, EngineInv, QueueInv, MemInv, KeysLive
    <2>3. Range(prefix_state_cache') \subseteq Range(prefix_state_cache)
      BY <1>3, <2>2, StatesWithin
    <2> QED
      BY <2>1, <2>2, <2>3 DEF SnapInv, SnapshotRead
  <1> QED
    BY <1>1, <1>2, <1>3

(* Nothing is read at first. *)
LEMMA ContextInitially == EngineInit => ContextInv /\ SnapInv
  <1>1. SUFFICES ASSUME EngineInit PROVE ContextInv /\ SnapInv
    OBVIOUS
  <1>2. /\ seq = [t \in Seqs |-> NewSequence] /\ pc = "idle" /\ prefix_state_cache = <<>>
        /\ deltanet_pool = [i \in Slots |-> ZeroState]
    BY <1>1 DEF EngineInit, SequenceInit, RunnerInit, SchedulerInit
  <1>3. Range(prefix_state_cache) = {}
    BY <1>2, EmptyList
  <1>4. PoolTypes
    BY <1>2, ZeroIsState DEF PoolTypes, IsPool
  <1>5. ASSUME NEW s \in Seqs PROVE KeysKept(s) /\ Stated(s)
    <2>1. Cached(s) = 0 /\ ~Restoring(s)
      BY <1>2 DEF NewSequence, Cached, Restoring
    <2>2. ~Passed(s) /\ ~Started(s)
      BY <1>2 DEF Passed, Started
    <2>3. Progress(s) = 0 /\ Stores(s, 0)
      BY <2>1, <2>2 DEF Progress, Stores
    <2> QED
      BY <2>1, <2>2, <2>3 DEF KeysKept, Stated, Ready
  <1> QED
    BY <1>3, <1>4, <1>5 DEF ContextInv, StateTypes, SnapInv

(* What is read is what is stored, while the hits of the cache are exact. *)
LEMMA ContextInvariant ==
    ASSUME ~ServeAfterError, "resumed" \notin LateOOM
    PROVE  EngineSpec /\ []Undisturbed /\ [](EnablePrefixCaching => HitsExact)
           => [](EngineInv /\ PaceInv /\ ContextInv /\ SnapInv)
  <1>1. EngineInit => ContextInv /\ SnapInv
    BY ContextInitially
  <1>2. /\ EngineInv /\ SlotInv /\ WriteInv /\ PaceInv /\ ContextInv /\ SnapInv
        /\ Undisturbed /\ [EngineNext]_vars /\ EngineInv'
        /\ (EnablePrefixCaching => HitsExact)
        => ContextInv' /\ SnapInv'
    BY ContextStep, SnapStep DEF Knowing
  <1> QED
    BY <1>1, <1>2, WriteInvariant, PaceInvariant, PTL DEF EngineSpec

(* A pass continues from what its sequence has read. *)
LEMMA ContextIsExact ==
    ASSUME EngineInv, PaceInv, ContextInv
    PROVE  ContextExact
  <1>1. SUFFICES ASSUME pc = "forward", NEW s \in Range(batch)
                 PROVE  ContextExactFor(s)
    BY DEF ContextExact
  <1>2. /\ s \in Seqs /\ s \in Unfinished /\ ~Finished(s)
        /\ BatchInv /\ QueuesApart /\ SeqTypes
    <2>1. QueueTypes /\ BatchInv /\ QueuesApart /\ SeqTypes
      BY <1>1 DEF EngineInv, QueueInv
    <2> QED
      BY <1>1, <2>1, BatchMembers DEF BatchInv, Running, Unfinished
  <1>3. Paced(s) /\ KeysKept(s) /\ Stated(s)
    BY <1>1, <1>2 DEF PaceInv, ContextInv
  <1>4. ~Passed(s) /\ Started(s) /\ ~Sampled(s)
    BY <1>1 DEF Passed, Started, Sampled
  <1>5. Holds(s) /\ Stores(s, Cached(s)) /\ Progress(s) = Cached(s)
    BY <1>2, <1>3, <1>4 DEF KeysKept, Stated, Progress
  <1>6. First(s) = Cached(s)
    <2>1. CASE batch_is_prefill
      BY <2>1 DEF First, Cached
    <2>2. CASE ~batch_is_prefill
      <3>1. s \notin Range(waiting)
        BY <1>1, <1>2, <2>2 DEF BatchInv, Running
      <3>2. Due(s)
        BY <1>2, <1>3, <3>1 DEF QueuesApart, Decoders, Paced
      <3>3. Cached(s) + 1 = NumTokens(s)
        BY <1>4, <2>2, <3>2 DEF Due, Pending, InPrefill
      <3>4. PICK c \in Nat : c = Cached(s)
        BY <1>2 DEF SeqTypes, IsFields, Cached
      <3>5. NumTokens(s) - 1 = c
        <4>1. PICK n : n = NumTokens(s) /\ n = c + 1
          BY <3>3, <3>4
        <4> QED
          BY <3>4, <4>1
      <3> QED
        BY <2>2, <3>4, <3>5 DEF First
    <2> QED
      BY <2>1, <2>2
  <1> QED
    BY <1>5, <1>6 DEF ContextExactFor, Holds, Stores

(* A snapshot's blocks stand in a table, so they are in use. *)
LEMMA SnapshotsAreExact ==
    ASSUME EngineInv, SnapInv
    PROVE  SnapshotsExact
  <1>1. SUFFICES ASSUME NEW i \in DOMAIN prefix_state_cache, NEW e, e = prefix_state_cache[i]
                 PROVE  /\ Range(e.key) \subseteq used_block_ids
                        /\ Len(e.state.recurrent) = Len(e.key) * BlockSize
                        /\ \A p \in 0 .. (Len(e.state.recurrent) - 1) :
                              kv_cache[e.key[p \div BlockSize + 1]][p % BlockSize]
                                 = SubSeq(e.state.recurrent, 1, p + 1)
    BY DEF SnapshotsExact
  <1>2. e \in Range(prefix_state_cache)
    BY <1>1 DEF Range
  <1>3. SnapshotRead(e)
    BY <1>2 DEF SnapInv
  <1>4. ASSUME NEW b \in Range(e.key) PROVE b \in used_block_ids
    <2>1. PoolInv /\ KeysLive
      BY DEF EngineInv, MemInv
    <2>2. b \in Keyed
      BY <1>2, <1>4 DEF Keyed
    <2>3. b \in Blocks /\ b \notin Range(free_block_ids)
      BY <2>1, <2>2, KeyedHeld
    <2> QED
      BY <2>1, <2>3 DEF PoolInv, FreeUsedPartition
  <1> QED
    BY <1>3, <1>4 DEF SnapshotRead

(* A forward pass reads exactly the context of its sequence: its recurrent *)
(* state has read the tokens before the pass, each once, and every earlier *)
(* position holds the key and value of its own prefix.  The premise leaves *)
(* out the two faults of the code that break this: a hit on a stale node of *)
(* the trie (prefix_cache.py 97), and the retry of a pass that had already *)
(* moved its states on when it ran out of memory (model_runner.py 708).    *)
THEOREM PassesReadTheirContext ==
    ASSUME ~ServeAfterError, "resumed" \notin LateOOM
    PROVE  EngineSpec /\ []Undisturbed /\ [](EnablePrefixCaching => HitsExact) => []ContextExact
  <1>1. EngineInv /\ PaceInv /\ ContextInv => ContextExact
    BY ContextIsExact
  <1> QED
    BY <1>1, ContextInvariant, PTL

(* A snapshot is kept only while its blocks are in use, and it is the state *)
(* after the very tokens whose keys and values those blocks hold: nothing  *)
(* is stored over a block that a snapshot names, and none is saved in the  *)
(* middle of a block or before its tokens are read.                        *)
THEOREM SnapshotsStayExact ==
    ASSUME ~ServeAfterError, "resumed" \notin LateOOM
    PROVE  EngineSpec /\ []Undisturbed /\ [](EnablePrefixCaching => HitsExact) => []SnapshotsExact
  <1>1. EngineInv /\ SnapInv => SnapshotsExact
    BY SnapshotsAreExact
  <1> QED
    BY <1>1, ContextInvariant, PTL

(* ... without a premise on the behaviour when no prefix is shared. *)
THEOREM PassesReadTheirContextInPlainEngine ==
    ASSUME PlainEngine, ~EnablePrefixCaching, "resumed" \notin LateOOM
    PROVE  EngineSpec => []ContextExact
  <1>1. ~ServeAfterError
    BY DEF PlainEngine
  <1>2. EnablePrefixCaching => HitsExact
    OBVIOUS
  <1> QED
    BY <1>1, <1>2, NeverDisturbed, PassesReadTheirContext, PTL

-----------------------------------------------------------------------------
(* The budget of a step.                                                   *)

Size(q) == Cardinality(Range(q))

(* The decode batch stops growing at either limit; what is run in a step   *)
(* is no more than was scheduled; a chunk has what the decode batch left.  *)
BudgetInv ==
    /\ pc \in {"decode", "admit"} =>
         Len(decode_seqs) <= MaxNumSeqs /\ Len(decode_seqs) <= MaxNumBatchedTokens
    /\ pc \in Running \cup Processing =>
         /\ Size(batch) + Size(later) <= MaxNumSeqs
         /\ Size(batch) <= MaxNumBatchedTokens /\ Size(later) <= MaxNumBatchedTokens
    /\ Prefilling => \A s \in Range(batch) : Scheduled(s) + Size(later) <= MaxNumBatchedTokens

(* A list without repetitions is as long as the set of its elements.       *)
LEMMA Sizes ==
    ASSUME NEW T, NEW q \in Seq(T), IsInjective(q)
    PROVE  IsFiniteSet(Range(q)) /\ Size(q) = Len(q) /\ Size(q) \in Nat
  BY LengthOfInjective DEF Size

(* A part of a finite set is finite and no larger.                         *)
LEMMA SizeOfPart ==
    ASSUME NEW S, NEW R, IsFiniteSet(S), R \subseteq S
    PROVE  IsFiniteSet(R) /\ Cardinality(R) \in Nat /\ Cardinality(S) \in Nat
           /\ Cardinality(R) <= Cardinality(S)
  BY FS_Subset, FS_CardinalityType

(* The batches of a step are finite.                                       *)
LEMMA BatchSizes ==
    ASSUME QueueTypes, BatchInv, pc \in Running \cup Processing
    PROVE  /\ IsFiniteSet(Range(batch)) /\ IsFiniteSet(Range(later))
           /\ Size(batch) \in Nat /\ Size(later) \in Nat
  BY Sizes DEF QueueTypes, BatchInv

(* The chunk of a candidate is within what the decode batch leaves.        *)
LEMMA ChunkWithinBudget ==
    ASSUME NEW s \in Seqs, SeqTypes, MayPrefill, decode_seqs \in Seq(Seqs), Remaining(s) > 0
    PROVE  Chunk(s) \in Nat /\ Chunk(s) + Len(decode_seqs) <= MaxNumBatchedTokens
  <1>1. /\ Remaining(s) \in Int /\ Budget \in Int /\ MaxPrefillChunkTokens \in Nat \ {0}
        /\ Budget > 0
    <2>1. Len(decode_seqs) \in Nat /\ Len(token_ids[s]) \in Nat
      BY DEF SeqTypes
    <2>2. seq[s].num_cached_tokens \in Nat
      BY DEF SeqTypes, IsFields
    <2> QED
      BY <2>1, <2>2, SchedulerAssumption DEF Remaining, Budget, NumTokens, MayPrefill
  <1>2. PICK r, b, c \in Nat \ {0} :
          r = Remaining(s) /\ b = Budget /\ c = MaxPrefillChunkTokens
    BY <1>1
  <1>3. PICK sizes \in SUBSET (Nat \ {0}) : sizes = {r, b, c}
    OBVIOUS
  <1>4. Min(sizes) \in sizes /\ Min(sizes) <= b
    BY <1>3, SmallestOf
  <1>5. Chunk(s) \in Nat /\ Chunk(s) <= Budget
    BY <1>2, <1>3, <1>4 DEF Chunk
  <1>6. Len(decode_seqs) \in Nat /\ MaxNumBatchedTokens \in Nat
    BY SchedulerAssumption
  <1> QED
    BY <1>5, <1>6 DEF Budget

(* A step of a batch runs what was scheduled, or some of it.               *)
LEMMA BatchShrinks ==
    ASSUME QueueTypes, BatchInv, BudgetInv,
           pc \in Running \cup Processing, pc' \in Running \cup Processing,
           Range(batch') \subseteq Range(batch), Range(later') \subseteq Range(later),
           Prefilling' => /\ Prefilling
                          /\ \A s \in Range(batch') : Scheduled(s)' = Scheduled(s) /\ Scheduled(s) \in Nat
    PROVE  BudgetInv'
  <1>1. /\ Size(batch) \in Nat /\ Size(batch') \in Nat /\ Size(batch') <= Size(batch)
        /\ Size(later) \in Nat /\ Size(later') \in Nat /\ Size(later') <= Size(later)
    BY BatchSizes, SizeOfPart DEF Size
  <1>2. PICK a, b, c, d \in Nat : a = Size(batch) /\ b = Size(batch') /\ c = Size(later)
                                  /\ d = Size(later') /\ b <= a /\ d <= c
    BY <1>1
  <1>3. MaxNumSeqs \in Nat /\ MaxNumBatchedTokens \in Nat
    BY RunnerAssumption, SchedulerAssumption
  <1>4. /\ a + c <= MaxNumSeqs /\ a <= MaxNumBatchedTokens /\ c <= MaxNumBatchedTokens
        /\ Prefilling => \A s \in Range(batch) : Scheduled(s) + c <= MaxNumBatchedTokens
    BY <1>2 DEF BudgetInv
  <1>5. b + d <= MaxNumSeqs /\ b <= MaxNumBatchedTokens /\ d <= MaxNumBatchedTokens
    BY <1>2, <1>3, <1>4
  <1>6. Prefilling' => \A s \in Range(batch') : Scheduled(s)' + d <= MaxNumBatchedTokens
    BY <1>2, <1>3, <1>4
  <1>7. pc' \notin {"decode", "admit"}
    BY DEF Running, Processing
  <1> QED
    BY <1>2, <1>5, <1>6, <1>7 DEF BudgetInv, Size

(* What schedule() hands over is what it counted.                          *)
LEMMA DispatchBudget ==
    ASSUME Pacing, BudgetInv, EndSchedule
    PROVE  BudgetInv'
  <1>1. /\ QueueTypes /\ SeqTypes /\ QueuesApart /\ LoopInv
        /\ MaxNumSeqs \in Nat /\ MaxNumBatchedTokens \in Nat
    BY PacingFacts, RunnerAssumption, SchedulerAssumption
  <1>2. PICK q, dec : q = waiting /\ dec = decode_seqs
    OBVIOUS
  <1>3. /\ dec \in Seq(Seqs) /\ IsInjective(dec) /\ q \in Seq(Seqs)
        /\ IsFiniteSet(Range(dec)) /\ Size(dec) = Len(dec) /\ Len(dec) \in Nat
    BY <1>1, <1>2, Sizes DEF QueueTypes, QueuesApart
  <1>4. pc = "admit" /\ Len(dec) <= MaxNumSeqs /\ Len(dec) <= MaxNumBatchedTokens
    BY <1>2 DEF EndSchedule, ScheduleChunk, ScheduleNoChunk, BudgetInv
  <1>5. CASE ScheduleNoChunk /\ Dispatch(<<>>)
    <2>1. PICK none : none = <<>>
      OBVIOUS
    <2>2. UNCHANGED seq /\ Range(none) = {} /\ Dispatch(none)
          /\ \A t \in Range(decode_seqs) : ~seq'[t].is_prefill
      BY <1>1, <1>5, <2>1, EmptyList DEF ScheduleNoChunk, seqVars, LoopInv
    <2>3. \/ pc' = "idle"
          \/ /\ pc' = "prepare" /\ IsInjective(batch') /\ IsInjective(later')
             /\ \/ batch_is_prefill' /\ Range(batch') = {}
                \/ ~batch_is_prefill' /\ later' = <<>>
             /\ Range(batch') \subseteq Range(dec) /\ Range(later') \subseteq Range(dec)
      BY <1>1, <1>2, <1>3, <2>1, <2>2, DispatchBatch
    <2>4. CASE pc' = "prepare"
      <3>1. /\ Range(batch') = {} \/ Range(later') = {}
            /\ Range(batch') \subseteq Range(dec) /\ Range(later') \subseteq Range(dec)
            /\ Prefilling' => Range(batch') = {}
        BY <2>3, <2>4, EmptyList DEF Prefilling
      <3>2. /\ Size(batch') \in Nat /\ Size(batch') <= Len(dec)
            /\ Size(later') \in Nat /\ Size(later') <= Len(dec)
            /\ Size(batch') = 0 \/ Size(later') = 0
        BY <1>3, <3>1, SizeOfPart, FS_EmptySet DEF Size
      <3>3. pc' \notin {"decode", "admit"}
        BY <2>4
      <3> QED
        BY <1>1, <1>3, <1>4, <3>1, <3>2, <3>3 DEF BudgetInv, Size
    <2>5. CASE pc' = "idle"
      BY <2>5 DEF BudgetInv, Running, Processing, Prefilling
    <2> QED
      BY <2>3, <2>4, <2>5
  <1>6. CASE ScheduleChunk /\ Dispatch(<<Candidate>>)
    <2>1. PICK s : s = Candidate
      OBVIOUS
    <2>2. /\ s \in Seqs /\ Remaining(s) > 0
          /\ pc' = "prepare" /\ batch_is_prefill' /\ Range(batch') = {s}
          /\ Range(later') \subseteq Range(dec) /\ Scheduled(s)' = Chunk(s)
      <3>1. Pacing /\ EndSchedule /\ ScheduleChunk /\ Dispatch(<<Candidate>>)
        BY <1>6, Zenon
      <3> QED
        BY <1>2, <2>1, <3>1, ChunkBatch
    <2>3. MayPrefill
      BY <1>6 DEF ScheduleChunk
    <2>4. Chunk(s) \in Nat /\ Chunk(s) + Len(dec) <= MaxNumBatchedTokens
      BY <1>1, <1>2, <1>3, <2>2, <2>3, ChunkWithinBudget
    <2>5. Size(batch') = 1 /\ Size(later') \in Nat /\ Size(later') <= Len(dec)
      <3>1. Cardinality({s}) = 1
        BY FS_Singleton
      <3>2. Size(batch') = 1
        BY <2>2, <3>1 DEF Size
      <3>3. IsFiniteSet(Range(dec)) /\ Cardinality(Range(dec)) = Len(dec)
        BY <1>3 DEF Size
      <3>4. Size(later') \in Nat /\ Size(later') <= Len(dec)
        BY <2>2, <3>3, SizeOfPart DEF Size
      <3> QED
        BY <3>2, <3>4
    <2>6. Len(dec) + 1 <= MaxNumSeqs
      BY <1>1, <1>2, <1>3, <2>3 DEF MayPrefill
    <2>7. pc' \notin {"decode", "admit"} /\ MaxNumBatchedTokens > 0
      BY <2>2, SchedulerAssumption
    <2> QED
      BY <1>1, <1>3, <1>4, <2>2, <2>4, <2>5, <2>6, <2>7 DEF BudgetInv, Size
  <1> QED
    BY <1>5, <1>6 DEF EndSchedule

(* The loop of schedule() stops before a limit is passed.                  *)
LEMMA LoopBudget ==
    ASSUME Pacing, BudgetInv,
           \/ (ScheduleDecode \/ SchedulePreempt \/ EndDecode \/ AdmitShared \/ AdmitFresh)
           \/ Generate \/ BeginStep \/ Return
    PROVE  BudgetInv'
  <1>1. PICK dec : dec = decode_seqs
    OBVIOUS
  <1>2. dec \in Seq(Seqs) /\ Len(dec) \in Nat
        /\ MaxNumSeqs \in Nat /\ MaxNumBatchedTokens \in Nat
    BY <1>1, PacingFacts, RunnerAssumption, SchedulerAssumption DEF QueueTypes
  <1>3. pc' \in {"idle", "decode", "admit"}
    BY DEF Pacing, ScheduleDecode, SchedulePreempt, EndDecode, AdmitShared, AdmitFresh, Generate,
           BeginStep, StartSchedule, Return, Goto, Raise
  <1>4. CASE ScheduleDecode
    <2>1. /\ pc = "decode" /\ ~LimitReached
          /\ decode_seqs' = dec \/ decode_seqs' = Append(dec, Head(decode_list))
      BY <1>1, <1>4 DEF ScheduleDecode
    <2>2. Len(dec) < MaxNumSeqs /\ Len(dec) < MaxNumBatchedTokens
      BY <1>1, <1>2, <2>1 DEF LimitReached
    <2>3. Len(decode_seqs') <= Len(dec) + 1 /\ Len(decode_seqs') \in Nat
      BY <1>2, <2>1
    <2> QED
      BY <1>2, <1>3, <2>2, <2>3 DEF BudgetInv, Running, Processing, Prefilling
  <1>5. CASE SchedulePreempt \/ EndDecode \/ AdmitShared \/ AdmitFresh
    <2>1. pc \in {"decode", "admit"} /\ UNCHANGED decode_seqs
      BY <1>5 DEF SchedulePreempt, EndDecode, AdmitShared, AdmitFresh, loopVars
    <2> QED
      BY <1>3, <2>1 DEF BudgetInv, Running, Processing, Prefilling
  <1>6. CASE Generate \/ Return
    <2>1. pc' = "idle"
      BY <1>6 DEF Generate, Return
    <2> QED
      BY <2>1 DEF BudgetInv, Running, Processing, Prefilling
  <1>7. CASE BeginStep
    <2>1. Len(decode_seqs') = 0
      BY <1>7 DEF BeginStep, StartSchedule
    <2> QED
      BY <1>2, <1>3, <2>1 DEF BudgetInv, Running, Processing, Prefilling
  <1> QED
    BY <1>4, <1>5, <1>6, <1>7

(* From the first pass of a step to the end of its last.                   *)
LEMMA PassBudget ==
    ASSUME Pacing, BudgetInv,
           \/ Prepare \/ Forward \/ Retry \/ Requeue \/ EndRequeue \/ Record \/ Sample
           \/ Advance \/ EndAdvance
    PROVE  BudgetInv'
  <1>1. QueueTypes /\ BatchInv /\ SeqTypes /\ Range(batch) \subseteq Seqs
    BY PacingFacts
  <1>2. \A s \in Range(batch) : Scheduled(s) \in Nat
    BY <1>1 DEF SeqTypes, IsFields, Scheduled
  <1>3. CASE Prepare
    <2>1. \A t \in Seqs : Scheduled(t)' = Scheduled(t)
      BY <1>3, BetweenPace DEF SamePace, Scheduled
    <2>2. pc = "prepare" /\ pc' = "forward" /\ UNCHANGED <<batch, later, batch_is_prefill>>
      BY <1>3 DEF Prepare, Raise, Goto, Pacing, batchVars, stepVars
    <2> QED
      BY <1>1, <1>2, <2>1, <2>2, BatchShrinks DEF Running, Processing, Prefilling
  <1>4. CASE Retry
    <2>1. PICK q : q = batch
      OBVIOUS
    <2>2. /\ pc = "forward" /\ pc' = "prepare" /\ UNCHANGED <<seq, later, batch_is_prefill>>
          /\ batch' = IF Len(q) > 1 THEN Front(q) ELSE q
      BY <1>4, <2>1 DEF Retry, OutOfMemory, Goto, seqVars, stepVars
    <2>3. Range(batch') \subseteq Range(batch)
      <3>1. CASE Len(q) > 1
        <4>1. q \in Seq(Seqs) /\ q # <<>>
          BY <1>1, <2>1, <3>1 DEF QueueTypes
        <4> QED
          BY <2>1, <2>2, <3>1, <4>1, FrontAndLast
      <3> QED
        BY <2>1, <2>2, <3>1
    <2> QED
      BY <1>1, <1>2, <2>2, <2>3, BatchShrinks DEF Running, Processing, Prefilling, Scheduled
  <1>5. CASE Forward \/ Requeue \/ EndRequeue \/ Record \/ Sample \/ Advance
    <2>1. /\ pc \in Running \cup Processing /\ pc' \in {"requeue", "record", "sample", "advance"}
          /\ UNCHANGED <<batch, later>>
      BY <1>5 DEF Pacing, Forward, Requeue, EndRequeue, Record, Sample, Advance, Raise, Goto,
                  batchVars, stepVars, Running, Processing
    <2> QED
      BY <1>1, <2>1, BatchShrinks DEF Running, Processing, Prefilling
  <1>6. CASE EndAdvance
    <2>1. pc = "advance" /\ \/ pc' = "idle"
                            \/ pc' = "prepare" /\ ~batch_is_prefill' /\ UNCHANGED <<batch, later>>
      BY <1>6 DEF EndAdvance, StartBatch, Goto
    <2>2. CASE pc' = "idle"
      BY <2>2 DEF BudgetInv, Running, Processing, Prefilling
    <2>3. CASE pc' = "prepare"
      BY <1>1, <2>1, <2>3, BatchShrinks DEF Running, Processing, Prefilling
    <2> QED
      BY <2>1, <2>2, <2>3
  <1> QED
    BY <1>3, <1>4, <1>5, <1>6

(* The decode pass of a mixed step was counted with the prefill one.       *)
LEMMA FinalizeBudget ==
    ASSUME Pacing, BudgetInv, Finalize
    PROVE  BudgetInv'
  <1>1. QueueTypes /\ BatchInv /\ pc = "record" /\ pc \in Running \cup Processing
    BY PacingFacts DEF Finalize, Running, Processing
  <1>2. CASE pc' = "idle"
    BY <1>2 DEF BudgetInv, Running, Processing, Prefilling
  <1>3. CASE pc' = "advance"
    <2>1. batch' = Survivors /\ UNCHANGED later
      BY <1>3 DEF Finalize, StartBatch, Goto
    <2>2. Range(Survivors) \subseteq Range(batch)
      <3>1. PICK q, S : q = batch /\ S = {s \in Seqs : ~Finished(s)}
        OBVIOUS
      <3>2. q \in Seq(Seqs)
        BY <1>1, <3>1 DEF QueueTypes
      <3>3. Range(Only(q, S)) \subseteq Range(q)
        BY <3>2, OnlyKeeps
      <3> QED
        BY <3>1, <3>3 DEF Survivors
    <2> QED
      BY <1>1, <1>3, <2>1, <2>2, BatchShrinks DEF Running, Processing, Prefilling
  <1>4. CASE pc' = "prepare"
    <2>1. batch' = later /\ later' = <<>> /\ ~batch_is_prefill'
      BY <1>4 DEF Finalize, StartBatch, Goto
    <2>2. /\ Size(batch) \in Nat /\ Size(later) \in Nat /\ Size(later') = 0
          /\ Size(batch') = Size(later)
      BY <1>1, <2>1, BatchSizes, EmptyList, FS_EmptySet DEF Size
    <2>3. PICK a, c \in Nat : a = Size(batch) /\ c = Size(later)
      BY <2>2
    <2>4. MaxNumSeqs \in Nat /\ MaxNumBatchedTokens \in Nat /\ a + c <= MaxNumSeqs
          /\ c <= MaxNumBatchedTokens
      BY <1>1, <2>3, RunnerAssumption, SchedulerAssumption DEF BudgetInv
    <2>5. pc' \notin {"decode", "admit"} /\ ~Prefilling'
      BY <1>4, <2>1 DEF Prefilling
    <2>6. c + 0 <= MaxNumSeqs /\ 0 <= MaxNumBatchedTokens
      BY <2>3, <2>4
    <2> QED
      BY <2>2, <2>3, <2>4, <2>5, <2>6 DEF BudgetInv, Size
  <1> QED
    BY <1>2, <1>3, <1>4 DEF Finalize, StartBatch, Goto

(* Every step of the engine.                                               *)
LEMMA BudgetStep ==
    ASSUME EngineInv, SlotInv, WriteInv, PaceInv, BudgetInv, Undisturbed, [EngineNext]_vars,
           EngineInv', ~ServeAfterError
    PROVE  BudgetInv'
  <1>1. CASE pc' = "raised"
    BY <1>1 DEF BudgetInv, Running, Processing, Prefilling
  <1>2. CASE pc = "raised"
    <2>1. pc' = "raised"
      BY <1>2, RaisedStays DEF vars, loopVars
    <2> QED
      BY <1>1, <2>1
  <1>3. CASE pc # "raised" /\ pc' # "raised"
    <2>1. exception # "KeyError"
      BY <1>3 DEF EngineInv, QueueInv
    <2>2. Pacing
      BY <1>3, <2>1 DEF Pacing, Filling, Stepping, EngineInv, WriteInv
    <2>3. CASE Schedule
      <3>1. EndSchedule \/ ScheduleDecode \/ SchedulePreempt \/ EndDecode \/ AdmitShared \/ AdmitFresh
        BY <2>3 DEF Schedule
      <3> QED
        BY <2>2, <3>1, LoopBudget, DispatchBudget
    <2>4. CASE Generate \/ BeginStep \/ Return
      BY <2>2, <2>4, LoopBudget
    <2>5. CASE \/ Prepare \/ Forward \/ Retry \/ Requeue \/ EndRequeue \/ Record \/ Sample
               \/ Advance \/ EndAdvance
      BY <2>2, <2>5, PassBudget
    <2>6. CASE Finalize
      BY <2>2, <2>6, FinalizeBudget
    <2>7. CASE Stopped \/ UNCHANGED vars
      <3>1. UNCHANGED <<pc, decode_seqs, batch, later, batch_is_prefill, seq>>
        BY <2>7 DEF Stopped, vars, loopVars, batchVars, stepVars, seqVars
      <3> QED
        BY <3>1, Zenon DEF BudgetInv, Size, Scheduled, Prefilling
    <2>8. ~GenerateRejected /\ ~Abandon /\ ~Recover /\ ~GiveUp
      BY <1>3 DEF GenerateRejected, Abandon, Recover, GiveUp, Raise
    <2> QED
      BY <2>3, <2>4, <2>5, <2>6, <2>7, <2>8 DEF EngineNext, EngineStep
  <1> QED
    BY <1>1, <1>2, <1>3

(* From the first state on.                                                *)
LEMMA BudgetInvariant ==
    ASSUME ~ServeAfterError
    PROVE  EngineSpec /\ []Undisturbed => [](EngineInv /\ PaceInv /\ BudgetInv)
  <1>1. EngineInit => BudgetInv
    BY DEF EngineInit, SchedulerInit, BudgetInv, Running, Processing, Prefilling
  <1>2. /\ EngineInv /\ SlotInv /\ WriteInv /\ PaceInv /\ BudgetInv /\ Undisturbed
        /\ [EngineNext]_vars /\ EngineInv'
        => BudgetInv'
    BY BudgetStep
  <1> QED
    BY <1>1, <1>2, WriteInvariant, PaceInvariant, PTL DEF EngineSpec

(* The tokens of sequences that run one each, and of one that runs a chunk.*)
LEMMA TokensOf ==
    ASSUME NEW S, IsFiniteSet(S), NEW c, NEW m \in Nat, NEW T,
           T \subseteq ({c} \X (1 .. m)) \cup (S \X {1})
    PROVE  IsFiniteSet(T) /\ Cardinality(T) \in Nat /\ Cardinality(T) <= m + Cardinality(S)
  <1>1. IsFiniteSet({c}) /\ Cardinality({c}) = 1 /\ IsFiniteSet({1}) /\ Cardinality({1}) = 1
    BY FS_Singleton
  <1>2. IsFiniteSet(1 .. m) /\ Cardinality(1 .. m) = m
    BY FS_Interval
  <1>3. Cardinality(S) \in Nat
    BY FS_CardinalityType
  <1>4. PICK A, B : A = {c} \X (1 .. m) /\ B = S \X {1}
    OBVIOUS
  <1>5. IsFiniteSet(A) /\ Cardinality(A) = 1 * m
    <2>1. /\ IsFiniteSet({c} \X (1 .. m))
          /\ Cardinality({c} \X (1 .. m)) = Cardinality({c}) * Cardinality(1 .. m)
      BY <1>1, <1>2, FS_Product, Zenon
    <2> QED
      BY <1>1, <1>2, <1>4, <2>1
  <1>6. IsFiniteSet(B) /\ Cardinality(B) = Cardinality(S) * 1
    <2>1. /\ IsFiniteSet(S \X {1})
          /\ Cardinality(S \X {1}) = Cardinality(S) * Cardinality({1})
      BY <1>1, FS_Product, Zenon
    <2> QED
      BY <1>1, <1>4, <2>1
  <1>7. /\ IsFiniteSet(A \cup B) /\ Cardinality(A \cap B) \in Nat
        /\ Cardinality(A \cup B) = Cardinality(A) + Cardinality(B) - Cardinality(A \cap B)
    <2>1. IsFiniteSet(A \cap B)
      BY <1>5, FS_Subset
    <2> QED
      BY <1>5, <1>6, <2>1, FS_Union, FS_CardinalityType
  <1>8. Cardinality(A \cup B) <= m + Cardinality(S) /\ Cardinality(A \cup B) \in Nat
    BY <1>3, <1>5, <1>6, <1>7, FS_CardinalityType
  <1>9. T \subseteq A \cup B
    BY <1>4
  <1>10. IsFiniteSet(T) /\ Cardinality(T) \in Nat /\ Cardinality(T) <= Cardinality(A \cup B)
    BY <1>7, <1>9, SizeOfPart
  <1> QED
    BY <1>3, <1>8, <1>10

(* What a step runs.                                                       *)
LEMMA BudgetKept ==
    ASSUME EngineInv, PaceInv, BudgetInv
    PROVE  StepBudget
  <1>1. SUFFICES ASSUME pc = "prepare",
                        NEW members, members = Range(batch) \cup Range(later),
                        NEW tokens, tokens = UNION {{s} \X (1 .. seq[s].num_scheduled_tokens)
                                                      : s \in members}
                 PROVE  /\ Cardinality(members) <= MaxNumSeqs
                        /\ Cardinality(tokens) <= MaxNumBatchedTokens
    BY DEF StepBudget
  <1>2. /\ QueueTypes /\ BatchInv /\ SeqTypes /\ pc \in Running \cup Processing
        /\ MaxNumSeqs \in Nat /\ MaxNumBatchedTokens \in Nat
    BY <1>1, RunnerAssumption, SchedulerAssumption DEF EngineInv, QueueInv, Running
  <1>3. PICK B, L : B = Range(batch) /\ L = Range(later)
    OBVIOUS
  <1>4. PICK b, l \in Nat :
           b = Cardinality(B) /\ l = Cardinality(L) /\ IsFiniteSet(B) /\ IsFiniteSet(L)
    BY <1>2, <1>3, BatchSizes DEF Size
  <1>5. /\ b + l <= MaxNumSeqs /\ b <= MaxNumBatchedTokens /\ l <= MaxNumBatchedTokens
        /\ batch_is_prefill => \A s \in B : Scheduled(s) + l <= MaxNumBatchedTokens
    BY <1>1, <1>2, <1>3, <1>4 DEF BudgetInv, Size, Prefilling
  <1>6. B \subseteq Seqs /\ L \subseteq Seqs
    <2>1. PICK q : q = later
      OBVIOUS
    <2>2. q \in Seq(Seqs)
      BY <1>2, <2>1 DEF QueueTypes
    <2>3. Range(q) \subseteq Seqs
      BY <2>2 DEF Range
    <2> QED
      BY <1>2, <1>3, <2>1, <2>3, BatchMembers
  <1>7. Cardinality(members) <= MaxNumSeqs
    <2>1. IsFiniteSet(B \cap L) /\ Cardinality(B \cap L) \in Nat
      BY <1>4, SizeOfPart
    <2>2. Cardinality(B \cup L) = b + l - Cardinality(B \cap L)
      BY <1>4, FS_Union
    <2>3. Cardinality(B \cup L) <= b + l
      BY <2>1, <2>2
    <2> QED
      BY <1>1, <1>2, <1>3, <1>5, <2>1, <2>2
  <1>8. \A s \in L : seq[s].num_scheduled_tokens = 1
    <2>1. SUFFICES ASSUME NEW s \in L PROVE Scheduled(s) = 1
      BY DEF Scheduled
    <2>2. s \in Seqs /\ Paced(s) /\ Picked(s)
      BY <1>1, <1>2, <1>3, <1>6, <2>1 DEF PaceInv, Picked
    <2> QED
      BY <2>2 DEF Paced
  <1>9. CASE batch_is_prefill /\ B # {}
    <2>1. PICK c : B = {c}
      <3>1. PICK q : q = batch
        OBVIOUS
      <3>2. q \in Seq(Seqs) /\ Len(q) <= 1
        BY <1>2, <1>9, <3>1 DEF QueueTypes, BatchInv
      <3>3. \A i, j \in DOMAIN q : i = j
        BY <3>2
      <3> QED
        BY <1>3, <1>9, <3>1, <3>3 DEF Range
    <2>2. PICK m \in Nat : m = seq[c].num_scheduled_tokens
      BY <1>2, <1>6, <2>1 DEF SeqTypes, IsFields
    <2>3. m + l <= MaxNumBatchedTokens
      BY <1>5, <1>9, <2>1, <2>2 DEF Scheduled
    <2>4. tokens \subseteq ({c} \X (1 .. m)) \cup (L \X {1})
      <3>1. ASSUME NEW x \in tokens PROVE x \in ({c} \X (1 .. m)) \cup (L \X {1})
        <4>1. PICK s \in members : x \in {s} \X (1 .. seq[s].num_scheduled_tokens)
          BY <1>1
        <4>2. CASE s \in L
          <5>1. x \in {s} \X (1 .. 1)
            BY <1>8, <4>1, <4>2
          <5> QED
            BY <4>2, <5>1
        <4>3. CASE s = c
          BY <2>2, <4>1, <4>3
        <4> QED
          BY <1>1, <1>3, <2>1, <4>1, <4>2, <4>3
      <3> QED
        BY <3>1
    <2>5. Cardinality(tokens) \in Nat /\ Cardinality(tokens) <= m + l
      BY <1>4, <2>4, TokensOf
    <2> QED
      BY <1>2, <1>7, <2>3, <2>5
  <1>10. CASE ~(batch_is_prefill /\ B # {})
    <2>1. (members = B /\ L = {} /\ ~batch_is_prefill) \/ (members = L /\ B = {})
      BY <1>1, <1>2, <1>3, <1>10, EmptyList DEF BatchInv
    <2>2. \A s \in members : seq[s].num_scheduled_tokens = 1
      <3>1. ASSUME NEW s \in B, ~batch_is_prefill PROVE seq[s].num_scheduled_tokens = 1
        <4>1. s \in Seqs /\ Paced(s) /\ Picked(s)
          BY <1>1, <1>3, <1>6, <3>1 DEF PaceInv, Picked, InPass
        <4> QED
          BY <4>1 DEF Paced, Scheduled
      <3> QED
        BY <1>8, <2>1, <3>1
    <2>3. IsFiniteSet(members) /\ Cardinality(members) <= MaxNumBatchedTokens
          /\ Cardinality(members) \in Nat
      BY <1>4, <1>5, <2>1
    <2>4. PICK c : c \notin {}
      OBVIOUS
    <2>5. tokens \subseteq ({c} \X (1 .. 0)) \cup (members \X {1})
      <3>1. ASSUME NEW x \in tokens PROVE x \in members \X {1}
        <4>1. PICK s \in members : x \in {s} \X (1 .. seq[s].num_scheduled_tokens)
          BY <1>1
        <4>2. x \in {s} \X (1 .. 1)
          BY <2>2, <4>1
        <4> QED
          BY <4>2
      <3> QED
        BY <3>1
    <2>6. Cardinality(tokens) \in Nat /\ Cardinality(tokens) <= 0 + Cardinality(members)
      BY <2>3, <2>5, TokensOf
    <2> QED
      BY <1>2, <1>7, <2>3, <2>6
  <1> QED
    BY <1>9, <1>10

(* A step never runs more sequences or more tokens than the configuration  *)
(* allows, with the decode pass of a mixed step counted in, and whatever   *)
(* was preempted, retried or dropped on the way.                           *)
THEOREM StepsStayInBudget ==
    ASSUME ~ServeAfterError
    PROVE  EngineSpec /\ []Undisturbed => []StepBudget
  <1>1. EngineInv /\ PaceInv /\ BudgetInv => StepBudget
    BY BudgetKept
  <1> QED
    BY <1>1, BudgetInvariant, PTL

(* ... without a premise when nothing can disturb the engine.              *)
THEOREM StepsStayInBudgetInPlainEngine ==
    ASSUME PlainEngine PROVE EngineSpec => []StepBudget
  <1>1. ~ServeAfterError
    BY DEF PlainEngine
  <1> QED
    BY <1>1, NeverDisturbed, StepsStayInBudget, PTL

=============================================================================
