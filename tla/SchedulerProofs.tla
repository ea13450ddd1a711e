--------------------------- MODULE SchedulerProofs ---------------------------
(***************************************************************************)
(* Proofs about the queues of the engine and the memory that scheduling    *)
(* moves, for any requests, sizes and memory: every unfinished request is  *)
(* queued once, the engine is a correct user of the block pool, a finished *)
(* request keeps nothing, the recurrent-state slots never run out, and a   *)
(* pass stores into blocks of its own sequence only.                       *)
(***************************************************************************)
EXTENDS EngineProperties, ListProofs, BlockManagerProofs, TLAPS

(* Three faults of schedule() and advance_decode() let a preempted         *)
(* sequence be scheduled as if it still ran (README, Proofs); the theorems *)
(* are about the behaviours up to the first of them.  A KeyError that ends *)
(* the engine disturbs nothing more.                                       *)
KeyErrorEnds == ServeAfterError => exception # "KeyError"

(* schedule() preempts for a sequence that still runs. *)
PreemptsForRunning ==
    pc = "decode" /\ decode_list # <<>> /\ ~LimitReached
      /\ Blocked(Head(decode_list)) /\ preempted < MaxPreemptCount /\ ~tried
      => Head(decode_list) \in Range(running)

(* No sequence of a multi-step batch has been preempted. *)
AdvancesRunning == pc = "advance" => Range(batch) \cap Range(waiting) = {}

Undisturbed == KeyErrorEnds /\ PreemptsForRunning /\ AdvancesRunning

-----------------------------------------------------------------------------
(* The inductive invariant of the queues. *)

FieldNames ==
    {"status", "num_cached_tokens", "num_scheduled_tokens", "is_prefill",
     "prefix_restore_blocks"}

QueueTypes ==
    /\ submitted \subseteq Seqs
    /\ waiting \in Seq(Seqs) /\ running \in Seq(Seqs)
    /\ decode_list \in Seq(Seqs) /\ decode_seqs \in Seq(Seqs)
    /\ batch \in Seq(Seqs) /\ later \in Seq(Seqs) /\ todo \in Seq(Seqs)
    /\ oom_preempted \in Seq(Seqs)
    /\ substeps \in Nat

IsFields(r) ==
    /\ DOMAIN r = FieldNames
    /\ r = [f \in FieldNames |-> r[f]]
    /\ r.num_cached_tokens \in Nat
    /\ r.num_scheduled_tokens \in Nat
    /\ r.is_prefill \in BOOLEAN

SeqTypes ==
    /\ seq = [s \in Seqs |-> seq[s]]
    /\ \A s \in Seqs : IsFields(seq[s])
    /\ token_ids \in [Seqs -> Seq(Nat)]

(* QueuedOnce, list by list. *)
QueuesApart ==
    /\ IsInjective(waiting) /\ IsInjective(running) /\ IsInjective(decode_seqs)
    /\ Range(waiting) \cap Range(running) = {}
    /\ Range(waiting) \cap Range(decode_seqs) = {}
    /\ Range(running) \cap Range(decode_seqs) = {}
    /\ Range(waiting) \cup Range(running) \cup Range(decode_seqs) = Unfinished

(* The steps of a batch before it is post-processed, and after. *)
Running == {"prepare", "forward", "requeue"}
Processing == {"record", "sample", "advance"}

(* The scheduler's loop: what it took from running is decoding, what waits *)
(* is to be prefilled, and until a preemption everything ahead still runs. *)
LoopInv ==
    /\ decode_seqs # <<>> => pc \in {"decode", "admit"}
    /\ \A s \in Range(waiting) \cup (Seqs \ submitted) : seq[s].is_prefill
    /\ \A s \in Range(decode_seqs) : ~seq[s].is_prefill
    /\ pc = "decode" =>
         IsInjective(decode_list) /\ Range(decode_list) \subseteq Unfinished
    /\ pc = "decode" /\ preempted = 0 => Range(decode_list) \subseteq Range(running)
    /\ pc = "decode" => preempted \in Nat

(* The batches of a step, and what a sequence in them may still be doing. *)
BatchInv ==
    /\ pc \in Running \cup Processing =>
         /\ IsInjective(batch) /\ IsInjective(later)
         /\ batch_is_prefill => Len(batch) <= 1
         /\ ~batch_is_prefill => later = <<>>
         /\ Range(batch) \cap Range(later) = {}
         /\ Range(later) \subseteq Range(running)
    /\ pc \in Running =>
         /\ Range(batch) \subseteq Unfinished
         /\ IsInjective(oom_preempted)
         /\ batch_is_prefill => oom_preempted = <<>>
         /\ Range(oom_preempted) \subseteq Range(running) \ Range(batch)
    /\ pc \in Processing =>
         /\ oom_preempted = <<>>
         /\ IsInjective(todo)
         /\ Range(todo) \subseteq Range(batch) \cap Unfinished
         /\ Range(batch) \subseteq submitted
    /\ pc \in Running \cup {"record", "sample"} /\ ~batch_is_prefill =>
         Range(batch) \cap Range(waiting) = {}
    /\ pc = "sample" => todo # <<>>
    /\ pc = "advance" => substeps > 0 /\ Range(batch) \subseteq Unfinished
    /\ substeps > 0 => NumSchedulerSteps > 1 /\ later = <<>>

(* A prompt that is not read to its end stays in waiting, and only such a  *)
(* one does.                                                               *)
ChunkInv ==
    /\ pc \in Running /\ batch_is_prefill =>
         \A s \in Range(batch) \cap Range(waiting) :
            seq[s].num_cached_tokens + seq[s].num_scheduled_tokens < NumTokens(s)
    /\ pc = "record" /\ batch_is_prefill =>
         \A s \in Range(todo) \cap Range(waiting) :
            seq[s].num_cached_tokens + seq[s].num_scheduled_tokens < NumTokens(s)
    /\ pc = "sample" /\ batch_is_prefill =>
         /\ Head(todo) \in Range(waiting) =>
               seq[Head(todo)].num_cached_tokens < NumTokens(Head(todo))
         /\ \A s \in Range(Tail(todo)) \cap Range(waiting) :
               seq[s].num_cached_tokens + seq[s].num_scheduled_tokens < NumTokens(s)

QueueInv ==
    /\ QueueTypes
    /\ SeqTypes
    /\ QueuesApart
    /\ \A s \in Seqs \ submitted : ~Finished(s)
    /\ \/ exception = "KeyError" /\ pc = "raised" /\ ~ServeAfterError
       \/ exception # "KeyError" /\ LoopInv /\ BatchInv /\ ChunkInv

LEMMA ApartIsOnce == ASSUME QueueTypes, QueuesApart PROVE QueuedOnce
  <1>1. /\ Range(waiting \o running \o decode_seqs) =
             Range(waiting) \cup Range(running) \cup Range(decode_seqs)
        /\ IsInjective(waiting \o running \o decode_seqs) <=>
             /\ IsInjective(waiting) /\ IsInjective(running) /\ IsInjective(decode_seqs)
             /\ Range(waiting) \cap Range(running) = {}
             /\ Range(waiting) \cap Range(decode_seqs) = {}
             /\ Range(running) \cap Range(decode_seqs) = {}
    <2>1. waiting \in Seq(Seqs) /\ running \in Seq(Seqs) /\ decode_seqs \in Seq(Seqs)
      BY DEF QueueTypes
    <2> QED
      BY <2>1, ThreeLists
  <1> QED
    BY <1>1 DEF QueuesApart, QueuedOnce, Queued

LEMMA InQueues ==
    ASSUME QueueTypes, QueuesApart
    PROVE  /\ Range(waiting) \subseteq Unfinished
           /\ Range(running) \subseteq Unfinished
           /\ Range(decode_seqs) \subseteq Unfinished
           /\ Unfinished \subseteq Seqs
  BY DEF QueueTypes, QueuesApart, Unfinished

(* Between batches only what the requests are is left to show. *)
LEMMA NoBatchNext ==
    ASSUME pc' \notin Running \cup Processing,
           substeps' > 0 => NumSchedulerSteps > 1 /\ later' = <<>>
    PROVE  BatchInv' /\ ChunkInv'
  BY DEF BatchInv, ChunkInv, Running, Processing

LEMMA NoLoopNext ==
    ASSUME pc' \notin {"decode", "admit"}, decode_seqs' = <<>>,
           \A s \in Range(waiting') \cup (Seqs \ submitted') : seq'[s].is_prefill
    PROVE  LoopInv'
  BY RangeOfPair DEF LoopInv

(* Changing one sequence's fields leaves the others alone. *)
LEMMA UpdateFields ==
    ASSUME NEW q, q = [s \in Seqs |-> q[s]], \A s \in Seqs : IsFields(q[s]),
           NEW s \in Seqs, NEW r, IsFields(r)
    PROVE  LET p == [q EXCEPT ![s] = r]
           IN  /\ p = [t \in Seqs |-> p[t]]
               /\ \A t \in Seqs : IsFields(p[t])
               /\ \A t \in Seqs : t # s => p[t] = q[t]
               /\ p[s] = r
  OBVIOUS

LEMMA RecomputedFields ==
    ASSUME NEW r, IsFields(r)
    PROVE  /\ IsFields(Recomputed(r))
           /\ Recomputed(r).status = "WAITING"
           /\ Recomputed(r).is_prefill
           /\ Recomputed(r).num_cached_tokens = 0
           /\ Recomputed(r).num_scheduled_tokens = r.num_scheduled_tokens
  BY DEF Recomputed, IsFields, FieldNames

LEMMA PreemptedSeq ==
    ASSUME SeqTypes, NEW s \in Seqs, seq' = [seq EXCEPT ![s] = Recomputed(@)],
           UNCHANGED token_ids
    PROVE  /\ SeqTypes'
           /\ \A t \in Seqs : t # s => seq'[t] = seq[t]
           /\ seq'[s] = Recomputed(seq[s])
           /\ ~Finished(s)' /\ seq'[s].is_prefill
  <1>1. IsFields(Recomputed(seq[s])) /\ IsFields(seq[s])
    BY RecomputedFields DEF SeqTypes
  <1>2. seq' = [seq EXCEPT ![s] = Recomputed(seq[s])]
    BY DEF SeqTypes
  <1>3. /\ seq' = [t \in Seqs |-> seq'[t]]
        /\ \A t \in Seqs : IsFields(seq'[t])
        /\ \A t \in Seqs : t # s => seq'[t] = seq[t]
        /\ seq'[s] = Recomputed(seq[s])
    BY <1>1, <1>2, UpdateFields DEF SeqTypes
  <1> QED
    BY <1>1, <1>3, RecomputedFields DEF SeqTypes, Finished

LEMMA DecodingSeq ==
    ASSUME SeqTypes, NEW s \in Seqs, UNCHANGED token_ids,
           seq' = [seq EXCEPT ![s].num_scheduled_tokens = 1, ![s].is_prefill = FALSE]
    PROVE  /\ SeqTypes'
           /\ \A t \in Seqs : t # s => seq'[t] = seq[t]
           /\ \A t \in Seqs : Finished(t)' <=> Finished(t)
           /\ seq'[s].num_scheduled_tokens = 1
           /\ seq'[s].num_cached_tokens = seq[s].num_cached_tokens
           /\ ~seq'[s].is_prefill
  <1>1. IsFields(seq[s]) /\ seq = [t \in Seqs |-> seq[t]]
    BY DEF SeqTypes
  <1>2. PICK r : r = [seq[s] EXCEPT !.num_scheduled_tokens = 1, !.is_prefill = FALSE]
    OBVIOUS
  <1>3. /\ IsFields(r) /\ r.status = seq[s].status /\ r.num_scheduled_tokens = 1
        /\ r.num_cached_tokens = seq[s].num_cached_tokens /\ ~r.is_prefill
    BY <1>1, <1>2 DEF IsFields, FieldNames
  <1>4. seq' = [seq EXCEPT ![s] = r]
    BY <1>1, <1>2
  <1>5. /\ seq' = [t \in Seqs |-> seq'[t]]
        /\ \A t \in Seqs : IsFields(seq'[t])
        /\ \A t \in Seqs : t # s => seq'[t] = seq[t]
        /\ seq'[s] = r
    BY <1>3, <1>4, UpdateFields DEF SeqTypes
  <1> QED
    BY <1>3, <1>5 DEF SeqTypes, Finished

LEMMA SameUnfinished ==
    ASSUME QueueTypes, UNCHANGED submitted, \A t \in Seqs : Finished(t)' <=> Finished(t)
    PROVE  /\ Unfinished' = Unfinished
           /\ (\A s \in Seqs \ submitted : ~Finished(s)) =>
                 \A s \in Seqs \ submitted' : ~Finished(s)'
  BY DEF QueueTypes, Unfinished

(* A sequence that leaves running for the head of waiting. *)
LEMMA BackToWaiting ==
    ASSUME QueueTypes, QueuesApart, UNCHANGED <<submitted, decode_seqs>>,
           Unfinished' = Unfinished,
           NEW v \in Range(running), waiting' = <<v>> \o waiting,
           running' \in Seq(Seqs), IsInjective(running'),
           Range(running') = Range(running) \ {v}
    PROVE  /\ QueuesApart'
           /\ waiting' \in Seq(Seqs)
           /\ Range(waiting') = {v} \cup Range(waiting)
  <1>1. /\ v \in Seqs /\ v \notin Range(waiting) /\ v \notin Range(decode_seqs)
        /\ waiting \in Seq(Seqs) /\ <<v>> \in Seq(Seqs)
    BY InQueues DEF QueuesApart, QueueTypes
  <1>2. Range(<<v>>) = {v} /\ IsInjective(<<v>>)
    BY RangeOfPair
  <1>a. PICK p : p = <<v>>
    OBVIOUS
  <1>b. p \in Seq(Seqs) /\ waiting' = p \o waiting
    BY <1>1, <1>a
  <1>c. /\ p \o waiting \in Seq(Seqs)
        /\ Range(p \o waiting) = Range(p) \cup Range(waiting)
    BY <1>1, <1>b, RangeOfConcat
  <1>d. IsInjective(p \o waiting) <=>
          IsInjective(p) /\ IsInjective(waiting) /\ Range(p) \cap Range(waiting) = {}
    BY <1>1, <1>b, InjectiveConcat
  <1>3. waiting' \in Seq(Seqs) /\ Range(waiting') = Range(<<v>>) \cup Range(waiting)
    BY <1>a, <1>b, <1>c
  <1>4. IsInjective(waiting') <=>
          IsInjective(<<v>>) /\ IsInjective(waiting) /\ Range(<<v>>) \cap Range(waiting) = {}
    BY <1>a, <1>b, <1>d
  <1>5. IsInjective(waiting')
    BY <1>1, <1>2, <1>4 DEF QueuesApart
  <1> QED
    BY <1>1, <1>2, <1>3, <1>5 DEF QueuesApart

LEMMA LastOfRunning ==
    ASSUME QueueTypes, QueuesApart, running # <<>>
    PROVE  /\ Last(running) \in Range(running)
           /\ Front(running) \in Seq(Seqs) /\ IsInjective(Front(running))
           /\ Range(Front(running)) = Range(running) \ {Last(running)}
  <1>1. running \in Seq(Seqs) /\ IsInjective(running)
    BY DEF QueueTypes, QueuesApart
  <1>2. /\ Front(running) \in Seq(Seqs)
        /\ Range(running) = Range(Front(running)) \cup {Last(running)}
        /\ IsInjective(Front(running)) /\ Last(running) \notin Range(Front(running))
    BY <1>1, FrontAndLast
  <1> QED
    BY <1>2

(* What a preemption for s does while something runs. *)
LEMMA PreemptQueues ==
    ASSUME QueueTypes, SeqTypes, QueuesApart, \A t \in Seqs \ submitted : ~Finished(t),
           running # <<>>, NEW s, TryPreempt(s), UNCHANGED <<submitted, decode_seqs>>
    PROVE  /\ SeqTypes' /\ QueuesApart'
           /\ waiting' \in Seq(Seqs) /\ running' \in Seq(Seqs)
           /\ Unfinished' = Unfinished
           /\ \A t \in Seqs \ submitted' : ~Finished(t)'
           /\ \E v \in Range(running) :
                /\ Range(waiting') = {v} \cup Range(waiting)
                /\ Range(running') = Range(running) \ {v}
                /\ seq'[v].is_prefill
                /\ \A t \in Seqs : t # v => seq'[t] = seq[t]
           /\ UNCHANGED <<token_ids, oom_preempted>>
  <1>0. PICK v : v = Last(running)
    OBVIOUS
  <1>1. PreemptSeq(v, Front(running))
    BY <1>0 DEF TryPreempt
  <1>2. /\ v \in Range(running)
        /\ Front(running) \in Seq(Seqs) /\ IsInjective(Front(running))
        /\ Range(Front(running)) = Range(running) \ {v}
    BY <1>0, LastOfRunning
  <1>3. /\ seq' = [seq EXCEPT ![v] = Recomputed(@)]
        /\ waiting' = <<v>> \o waiting /\ running' = Front(running)
        /\ UNCHANGED <<token_ids, oom_preempted>>
    BY <1>1 DEF PreemptSeq
  <1>4. v \in Unfinished /\ v \in Seqs /\ ~Finished(v)
    BY <1>2, InQueues DEF Unfinished
  <1>5. /\ SeqTypes'
        /\ \A t \in Seqs : t # v => seq'[t] = seq[t]
        /\ ~Finished(v)' /\ seq'[v].is_prefill
    BY <1>3, <1>4, PreemptedSeq
  <1>6. \A t \in Seqs : Finished(t)' <=> Finished(t)
    BY <1>4, <1>5 DEF Finished
  <1>7. Unfinished' = Unfinished /\ \A t \in Seqs \ submitted' : ~Finished(t)'
    BY <1>6, SameUnfinished
  <1>8. /\ QueuesApart' /\ waiting' \in Seq(Seqs)
        /\ Range(waiting') = {v} \cup Range(waiting)
    BY <1>2, <1>3, <1>7, BackToWaiting
  <1> QED
    BY <1>2, <1>3, <1>5, <1>7, <1>8

-----------------------------------------------------------------------------
(* schedule(). *)

LEMMA ScheduleDecodeQueue ==
    ASSUME QueueInv, KeyErrorEnds', ScheduleDecode, UNCHANGED <<requestVars, stepVars>>
    PROVE  QueueInv'
  <1>0. PICK s : s = Head(decode_list)
    OBVIOUS
  <1>1. /\ QueueTypes /\ SeqTypes /\ QueuesApart /\ LoopInv /\ BatchInv /\ ChunkInv
        /\ exception # "KeyError" /\ pc = "decode" /\ decode_list # <<>>
        /\ \A t \in Seqs \ submitted : ~Finished(t)
    BY DEF ScheduleDecode, QueueInv
  <1>2. /\ seq' = [seq EXCEPT ![s].num_scheduled_tokens = 1, ![s].is_prefill = FALSE]
        /\ UNCHANGED <<token_ids, waiting, submitted, batch, later, todo, substeps,
                       oom_preempted, preempted>>
    BY <1>0 DEF ScheduleDecode, requestVars, stepVars, batchVars, runnerVars
  <1>3. /\ decode_list \in Seq(Seqs) /\ s \in Seqs /\ s \in Range(decode_list)
        /\ Tail(decode_list) \in Seq(Seqs)
        /\ Range(decode_list) = {s} \cup Range(Tail(decode_list))
        /\ IsInjective(Tail(decode_list)) /\ s \notin Range(Tail(decode_list))
    <2>1. decode_list \in Seq(Seqs) /\ s \in Seqs /\ IsInjective(decode_list)
      BY <1>0, <1>1 DEF QueueTypes, LoopInv
    <2> QED
      BY <1>0, <1>1, <2>1, HeadAndTail
  <1>4. /\ SeqTypes'
        /\ \A t \in Seqs : t # s => seq'[t] = seq[t]
        /\ \A t \in Seqs : Finished(t)' <=> Finished(t)
        /\ ~seq'[s].is_prefill
    BY <1>1, <1>2, <1>3, DecodingSeq
  <1>5. Unfinished' = Unfinished /\ \A t \in Seqs \ submitted' : ~Finished(t)'
    BY <1>1, <1>2, <1>4, SameUnfinished
  <1>6. CASE ~Contains(running, s)
    <2>1. /\ UNCHANGED <<running, decode_seqs, decode_list>>
          /\ pc' = "raised" /\ exception' = "KeyError"
      BY <1>0, <1>6 DEF ScheduleDecode, Raise
    <2>2. ~ServeAfterError
      BY <2>1 DEF KeyErrorEnds
    <2>3. QueueTypes' /\ QueuesApart'
      BY <1>1, <1>2, <1>5, <2>1 DEF QueueTypes, QueuesApart
    <2> QED
      BY <1>4, <1>5, <2>1, <2>2, <2>3 DEF QueueInv
  <1>7. CASE Contains(running, s)
    <2>1. /\ running' = Without(running, s) /\ decode_seqs' = Append(decode_seqs, s)
          /\ decode_list' = Tail(decode_list) /\ UNCHANGED <<pc, exception>>
      BY <1>0, <1>7 DEF ScheduleDecode
    <2>2. s \in Range(running) /\ s \notin Range(waiting) /\ s \notin Range(decode_seqs)
      <3>1. DOMAIN running = 1 .. Len(running)
        BY <1>1 DEF QueueTypes
      <3>2. s \in Range(running)
        BY <1>7, <3>1 DEF Contains, Range
      <3> QED
        BY <1>1, <3>2 DEF QueuesApart
    <2>3. /\ running \in Seq(Seqs) /\ decode_seqs \in Seq(Seqs)
          /\ IsInjective(running) /\ IsInjective(decode_seqs)
      BY <1>1 DEF QueueTypes, QueuesApart
    <2>4. /\ running' \in Seq(Seqs) /\ IsInjective(running')
          /\ Range(running') = Range(running) \ {s}
      BY <2>1, <2>3, WithoutKeeps
    <2>5. /\ decode_seqs' \in Seq(Seqs) /\ IsInjective(decode_seqs')
          /\ Range(decode_seqs') = Range(decode_seqs) \cup {s}
      BY <1>3, <2>1, <2>2, <2>3, RangeOfAppend
    <2>6. QueueTypes'
      BY <1>1, <1>2, <1>3, <2>1, <2>4, <2>5 DEF QueueTypes
    <2>7. QueuesApart'
      BY <1>1, <1>2, <1>5, <2>2, <2>4, <2>5 DEF QueuesApart
    <2>8. LoopInv'
      <3>1. \A t \in Range(waiting') \cup (Seqs \ submitted') : seq'[t].is_prefill
        BY <1>1, <1>2, <1>4, <2>2, InQueues DEF LoopInv, Unfinished
      <3>2. \A t \in Range(decode_seqs') : ~seq'[t].is_prefill
        BY <1>1, <1>4, <2>5, InQueues DEF LoopInv
      <3>3. IsInjective(decode_list') /\ Range(decode_list') \subseteq Unfinished'
        BY <1>1, <1>3, <1>5, <2>1 DEF LoopInv
      <3>4. pc' = "decode" /\ preempted' = preempted /\ preempted \in Nat
        BY <1>1, <1>2, <2>1 DEF LoopInv
      <3>5. ASSUME preempted' = 0 PROVE Range(decode_list') \subseteq Range(running')
        BY <1>1, <1>2, <1>3, <2>1, <2>4, <3>5 DEF LoopInv
      <3> QED
        BY <3>1, <3>2, <3>3, <3>4, <3>5 DEF LoopInv
    <2>9. BatchInv' /\ ChunkInv'
      <3>1. pc' \notin Running \cup Processing
        BY <1>1, <2>1 DEF Running, Processing
      <3> QED
        BY <1>1, <1>2, <3>1, NoBatchNext DEF BatchInv
    <2> QED
      BY <1>1, <1>4, <1>5, <2>1, <2>6, <2>7, <2>8, <2>9 DEF QueueInv
  <1> QED
    BY <1>6, <1>7

LEMMA SchedulePreemptQueue ==
    ASSUME QueueInv, Undisturbed, SchedulePreempt, UNCHANGED <<requestVars, stepVars>>
    PROVE  QueueInv'
  <1>1. /\ QueueTypes /\ SeqTypes /\ QueuesApart /\ LoopInv /\ BatchInv /\ ChunkInv
        /\ exception # "KeyError" /\ pc = "decode"
        /\ \A t \in Seqs \ submitted : ~Finished(t)
    BY DEF SchedulePreempt, QueueInv
  <1>2. /\ TryPreempt(Head(decode_list)) /\ preempted' = preempted + 1
        /\ UNCHANGED <<submitted, batch, later, todo, substeps,
                       decode_list, decode_seqs, pc, exception>>
    BY DEF SchedulePreempt, requestVars, stepVars, batchVars
  <1>3. running # <<>>
    BY RangeOfPair DEF SchedulePreempt, Undisturbed, PreemptsForRunning
  <1>4. /\ SeqTypes' /\ QueuesApart'
        /\ waiting' \in Seq(Seqs) /\ running' \in Seq(Seqs)
        /\ Unfinished' = Unfinished
        /\ \A t \in Seqs \ submitted' : ~Finished(t)'
        /\ UNCHANGED <<token_ids, oom_preempted>>
    BY <1>1, <1>2, <1>3, PreemptQueues
  <1>5. PICK v \in Range(running) :
             /\ Range(waiting') = {v} \cup Range(waiting)
             /\ seq'[v].is_prefill
             /\ \A t \in Seqs : t # v => seq'[t] = seq[t]
    BY <1>1, <1>2, <1>3, PreemptQueues
  <1>6. QueueTypes'
    BY <1>1, <1>2, <1>4 DEF QueueTypes
  <1>7. LoopInv'
    <2>1. \A t \in Range(waiting') \cup (Seqs \ submitted') : seq'[t].is_prefill
      BY <1>1, <1>2, <1>5, InQueues DEF LoopInv, Unfinished
    <2>2. \A t \in Range(decode_seqs') : ~seq'[t].is_prefill
      BY <1>1, <1>2, <1>5, InQueues DEF LoopInv, QueuesApart
    <2>3. preempted' \in Nat /\ preempted' # 0
      BY <1>1, <1>2 DEF LoopInv
    <2> QED
      BY <1>1, <1>2, <1>4, <2>1, <2>2, <2>3 DEF LoopInv
  <1>8. BatchInv' /\ ChunkInv'
    <2>1. pc' \notin Running \cup Processing
      BY <1>1, <1>2 DEF Running, Processing
    <2> QED
      BY <1>1, <1>2, <2>1, NoBatchNext DEF BatchInv
  <1> QED
    BY <1>1, <1>2, <1>4, <1>6, <1>7, <1>8 DEF QueueInv

(* A step of schedule() that only looks, or prepares the memory of the     *)
(* next prompt.                                                            *)
LEMMA AdmissionQueue ==
    ASSUME QueueInv, pc \in {"decode", "admit"}, pc' = "admit",
           UNCHANGED <<waiting, running, decode_list, decode_seqs, preempted, submitted,
                       batch, later, todo, substeps, oom_preempted, exception>>,
           SeqTypes',
           \A t \in Seqs : /\ Finished(t)' <=> Finished(t)
                           /\ seq'[t].is_prefill = seq[t].is_prefill
    PROVE  QueueInv'
  <1>1. /\ QueueTypes /\ SeqTypes /\ QueuesApart /\ LoopInv /\ BatchInv /\ ChunkInv
        /\ exception # "KeyError"
        /\ \A t \in Seqs \ submitted : ~Finished(t)
    BY DEF QueueInv
  <1>2. Unfinished' = Unfinished /\ \A t \in Seqs \ submitted' : ~Finished(t)'
    BY <1>1, SameUnfinished
  <1>3. QueueTypes' /\ QueuesApart'
    BY <1>1, <1>2 DEF QueueTypes, QueuesApart
  <1>4. LoopInv'
    BY <1>1, InQueues DEF LoopInv
  <1>5. BatchInv' /\ ChunkInv'
    <2>1. pc' \notin Running \cup Processing
      BY DEF Running, Processing
    <2> QED
      BY <1>1, <2>1, NoBatchNext DEF BatchInv
  <1> QED
    BY <1>1, <1>2, <1>3, <1>4, <1>5 DEF QueueInv

LEMMA AdmittedSeq ==
    ASSUME SeqTypes, NEW s \in Seqs, NEW n \in Nat, NEW chain, UNCHANGED token_ids,
           \/ seq' = [seq EXCEPT ![s].num_cached_tokens = n,
                                 ![s].prefix_restore_blocks = chain]
           \/ seq' = [seq EXCEPT ![s].num_cached_tokens = n]
    PROVE  /\ SeqTypes'
           /\ \A t \in Seqs : t # s => seq'[t] = seq[t]
           /\ \A t \in Seqs : /\ Finished(t)' <=> Finished(t)
                              /\ seq'[t].is_prefill = seq[t].is_prefill
           /\ seq'[s].num_cached_tokens = n
  <1>1. IsFields(seq[s]) /\ seq = [t \in Seqs |-> seq[t]]
    BY DEF SeqTypes
  <1>2. \E r : /\ r = [seq[s] EXCEPT !.num_cached_tokens = n, !.prefix_restore_blocks = chain]
                  \/ r = [seq[s] EXCEPT !.num_cached_tokens = n]
               /\ seq' = [seq EXCEPT ![s] = r]
    BY <1>1
  <1>3. PICK r : /\ r = [seq[s] EXCEPT !.num_cached_tokens = n,
                                       !.prefix_restore_blocks = chain]
                    \/ r = [seq[s] EXCEPT !.num_cached_tokens = n]
                 /\ seq' = [seq EXCEPT ![s] = r]
    BY <1>2
  <1>4. /\ IsFields(r) /\ r.status = seq[s].status /\ r.num_cached_tokens = n
        /\ r.is_prefill = seq[s].is_prefill
    BY <1>1, <1>3 DEF IsFields, FieldNames
  <1>5. /\ seq' = [t \in Seqs |-> seq'[t]]
        /\ \A t \in Seqs : IsFields(seq'[t])
        /\ \A t \in Seqs : t # s => seq'[t] = seq[t]
        /\ seq'[s] = r
    BY <1>3, <1>4, UpdateFields DEF SeqTypes
  <1> QED
    BY <1>4, <1>5 DEF SeqTypes, Finished

LEMMA MatchedIsNat == \A tokens \in Seq(Nat) : MatchedTokens(tokens) \in Nat
  <1>1. SUFFICES ASSUME NEW tokens \in Seq(Nat), Matches(tokens) # {}
                 PROVE  Max(Matches(tokens)) * BlockSize \in Nat
    BY DEF MatchedTokens
  <1>2. FullBlocks(tokens) \in Nat
    <2>1. Len(tokens) \in Nat /\ BlockSize \in Nat \ {0}
      BY PoolAssumption
    <2> QED
      BY <2>1 DEF FullBlocks
  <1>3. Matches(tokens) \in SUBSET (0 .. FullBlocks(tokens))
    BY <1>2 DEF Matches
  <1>4. Max(Matches(tokens)) \in 0 .. FullBlocks(tokens)
    BY <1>1, <1>2, <1>3, LargestOf
  <1>5. Max(Matches(tokens)) \in Nat /\ BlockSize \in Nat
    BY <1>2, <1>4, PoolAssumption
  <1> QED
    BY <1>5

LEMMA HeadOfWaiting ==
    ASSUME QueueTypes, waiting # <<>>
    PROVE  /\ Candidate \in Seqs
           /\ Tail(waiting) \in Seq(Seqs)
           /\ Range(waiting) = {Candidate} \cup Range(Tail(waiting))
           /\ IsInjective(waiting) =>
                IsInjective(Tail(waiting)) /\ Candidate \notin Range(Tail(waiting))
  <1>1. waiting \in Seq(Seqs) /\ Head(waiting) \in Seqs
    BY DEF QueueTypes
  <1> QED
    BY <1>1, HeadAndTail DEF Candidate

LEMMA AdmitQueue ==
    ASSUME QueueInv, EndDecode \/ AdmitShared \/ AdmitFresh,
           UNCHANGED <<requestVars, stepVars>>
    PROVE  QueueInv'
  <1>1. QueueTypes /\ SeqTypes
    BY DEF QueueInv
  <1>2. /\ pc \in {"decode", "admit"} /\ pc' = "admit"
        /\ UNCHANGED <<waiting, running, decode_list, decode_seqs, preempted, submitted,
                       batch, later, todo, substeps, oom_preempted, exception, token_ids>>
    BY DEF EndDecode, AdmitShared, AdmitFresh, Goto, queueVars, loopVars, requestVars,
           stepVars, batchVars, runnerVars, seqVars
  <1>3. CASE EndDecode
    <2>1. UNCHANGED seq
      BY <1>3 DEF EndDecode, seqVars
    <2>2. SeqTypes' /\ \A t \in Seqs : /\ Finished(t)' <=> Finished(t)
                                       /\ seq'[t].is_prefill = seq[t].is_prefill
      BY <1>1, <1>2, <2>1 DEF SeqTypes, Finished
    <2> QED
      BY <1>2, <2>2, AdmissionQueue
  <1>4. CASE AdmitShared \/ AdmitFresh
    <2>1. PICK s : s = Candidate
      OBVIOUS
    <2>2. s \in Seqs
      BY <1>1, <1>4, <2>1, HeadOfWaiting DEF AdmitShared, AdmitFresh, Fresher, MayPrefill
    <2>3. \E n \in Nat : \E chain :
            \/ seq' = [seq EXCEPT ![s].num_cached_tokens = n,
                                  ![s].prefix_restore_blocks = chain]
            \/ seq' = [seq EXCEPT ![s].num_cached_tokens = n]
      <3>1. CASE AdmitShared
        <4>1. MatchedTokens(token_ids[s]) \in Nat
          BY <1>1, <2>2, MatchedIsNat DEF SeqTypes
        <4> QED
          BY <2>1, <3>1, <4>1 DEF AdmitShared
      <3>2. CASE AdmitFresh
        BY <2>1, <3>2 DEF AdmitFresh
      <3> QED
        BY <1>4, <3>1, <3>2
    <2>4. SeqTypes' /\ \A t \in Seqs : /\ Finished(t)' <=> Finished(t)
                                       /\ seq'[t].is_prefill = seq[t].is_prefill
      BY <1>1, <1>2, <2>2, <2>3, AdmittedSeq
    <2> QED
      BY <1>2, <2>4, AdmissionQueue
  <1> QED
    BY <1>3, <1>4

(* The batches that the end of schedule() hands to step(). *)
LEMMA DispatchBatch ==
    ASSUME QueueTypes, IsInjective(decode_seqs), NEW prefill, Dispatch(prefill),
           \A t \in Range(decode_seqs) : ~seq'[t].is_prefill,
           \/ prefill = <<>>
           \/ \E s \in Seqs \ Range(decode_seqs) : prefill = <<s>> /\ seq'[s].is_prefill
    PROVE  /\ UNCHANGED exception
           /\ batch' \in Seq(Seqs) /\ later' \in Seq(Seqs) /\ substeps' \in Nat
           /\ oom_preempted' \in Seq(Seqs)
           /\ \/ pc' = "idle" /\ prefill = <<>> /\ UNCHANGED <<later, substeps>>
              \/ /\ pc' = "prepare" /\ oom_preempted' = <<>>
                 /\ IsInjective(batch') /\ IsInjective(later')
                 /\ \/ /\ batch_is_prefill' /\ Len(batch') <= 1
                       /\ Range(batch') = Range(prefill)
                       /\ Range(batch') \cap Range(later') = {}
                    \/ /\ ~batch_is_prefill' /\ later' = <<>> /\ prefill = <<>>
                       /\ Range(batch') = Range(decode_seqs)
                 /\ Range(later') \subseteq Range(decode_seqs)
                 /\ substeps' > 0 => NumSchedulerSteps > 1 /\ later' = <<>>
  <1>1. /\ decode_seqs \in Seq(Seqs) /\ prefill \in Seq(Seqs) /\ IsInjective(prefill)
        /\ prefill = <<>> \/ Len(prefill) = 1
        /\ Range(prefill) \cap Range(decode_seqs) = {}
        /\ \A t \in Range(prefill) : seq'[t].is_prefill
    <2>1. decode_seqs \in Seq(Seqs)
      BY DEF QueueTypes
    <2>2. CASE prefill = <<>>
      BY <2>1, <2>2, EmptyList
    <2>3. CASE prefill # <<>>
      <3>1. PICK s \in Seqs \ Range(decode_seqs) : prefill = <<s>> /\ seq'[s].is_prefill
        BY <2>3
      <3>2. Range(<<s>>) = {s} /\ IsInjective(<<s>>) /\ Len(<<s>>) = 1
        BY RangeOfPair
      <3> QED
        BY <2>1, <3>1, <3>2
    <2> QED
      BY <2>2, <2>3
  <1>2. PICK all : all = prefill \o decode_seqs
    OBVIOUS
  <1>3. /\ all \in Seq(Seqs) /\ Range(all) = Range(prefill) \cup Range(decode_seqs)
        /\ IsInjective(all)
    <2>1. Range(prefill \o decode_seqs) = Range(prefill) \cup Range(decode_seqs)
      BY <1>1, RangeOfConcat
    <2>2. IsInjective(prefill \o decode_seqs)
      BY <1>1, InjectiveConcat
    <2> QED
      BY <1>1, <1>2, <2>1, <2>2
  <1>4. /\ Range(prefill) \subseteq Seqs /\ Range(decode_seqs) \subseteq Seqs
        /\ decode_seqs = <<>> => all = prefill
    BY <1>1, <1>2 DEF Range
  <1>5. PICK pf : pf = Only(all, {s \in Seqs : seq'[s].is_prefill})
    OBVIOUS
  <1>6. PICK df : df = Only(all, {s \in Seqs : ~seq'[s].is_prefill})
    OBVIOUS
  <1>7. /\ pf \in Seq(Seqs) /\ IsInjective(pf) /\ Range(pf) = Range(prefill)
        /\ df \in Seq(Seqs) /\ IsInjective(df) /\ Range(df) = Range(decode_seqs)
    <2>1. /\ pf \in Seq(Seqs) /\ IsInjective(pf)
          /\ Range(pf) = Range(all) \cap {s \in Seqs : seq'[s].is_prefill}
      BY <1>3, <1>5, OnlyKeeps
    <2>2. /\ df \in Seq(Seqs) /\ IsInjective(df)
          /\ Range(df) = Range(all) \cap {s \in Seqs : ~seq'[s].is_prefill}
      BY <1>3, <1>6, OnlyKeeps
    <2> QED
      BY <1>1, <1>3, <1>4, <2>1, <2>2
  <1>8. prefill = <<>> => pf = <<>>
    <2>1. ASSUME prefill = <<>> PROVE Len(pf) = 0
      <3>1. Cardinality(Range(pf)) = Len(pf) /\ Range(pf) = {}
        BY <1>7, <2>1, LengthOfInjective, RangeOfPair
      <3> QED
        BY <3>1, FS_EmptySet
    <2> QED
      BY <1>7, <2>1
  <1>9. Len(prefill) = 1 => Len(pf) = 1
    <2>1. Cardinality(Range(pf)) = Len(pf)
      BY <1>7, LengthOfInjective
    <2>2. Cardinality(Range(prefill)) = Len(prefill)
      BY <1>1, LengthOfInjective
    <2> QED
      BY <1>7, <2>1, <2>2
  <1>10. LET mixed == decode_seqs # <<>> /\ pf # <<>>
             multi == decode_seqs # <<>> /\ pf = <<>> /\ NumSchedulerSteps > 1
         IN  IF all = <<>>
             THEN /\ Goto("idle")
                  /\ UNCHANGED <<batchVars, later, substeps, oom_preempted>>
             ELSE /\ IF mixed THEN StartBatch(pf, TRUE)
                     ELSE StartBatch(all, decode_seqs = <<>>)
                  /\ later' = IF mixed THEN df ELSE <<>>
                  /\ substeps' = IF multi THEN NumSchedulerSteps ELSE 0
                  /\ oom_preempted' = <<>>
    BY <1>2, <1>5, <1>6, Zenon DEF Dispatch
  <1>11. NumSchedulerSteps \in Nat
    BY EngineAssumption
  <1>12. CASE all = <<>>
    <2>1. /\ Len(prefill) \in Nat /\ Len(decode_seqs) \in Nat
          /\ Len(prefill \o decode_seqs) = Len(prefill) + Len(decode_seqs)
      BY <1>1
    <2>2. prefill = <<>>
      BY <1>1, <1>2, <1>12, <2>1
    <2> QED
      BY <1>10, <1>12, <2>2 DEF Goto, QueueTypes, batchVars
  <1>13. CASE all # <<>> /\ decode_seqs # <<>> /\ pf # <<>>
    <2>1. /\ batch' = pf /\ batch_is_prefill' = TRUE /\ pc' = "prepare"
          /\ later' = df /\ substeps' = 0 /\ oom_preempted' = <<>> /\ UNCHANGED exception
      BY <1>10, <1>13 DEF Goto, StartBatch
    <2>2. Len(pf) = 1
      BY <1>1, <1>8, <1>9, <1>13
    <2> QED
      BY <1>1, <1>7, <2>1, <2>2
  <1>14. CASE all # <<>> /\ decode_seqs # <<>> /\ pf = <<>>
    <2>0. StartBatch(all, decode_seqs = <<>>)
      BY <1>10, <1>14
    <2>1. /\ batch' = all /\ ~batch_is_prefill' /\ pc' = "prepare"
          /\ later' = <<>> /\ oom_preempted' = <<>>
          /\ UNCHANGED exception
      BY <1>10, <1>14, <2>0 DEF Goto, StartBatch
    <2>a. substeps' = IF NumSchedulerSteps > 1 THEN NumSchedulerSteps ELSE 0
      BY <1>10, <1>14
    <2>b. substeps' \in Nat /\ (substeps' > 0 => NumSchedulerSteps > 1)
      BY <1>11, <2>a
    <2>2. Range(prefill) = {} /\ prefill = <<>>
      <3>1. Len(pf) = 0
        BY <1>14
      <3>2. prefill = <<>>
        BY <1>1, <1>9, <3>1
      <3> QED
        BY <3>2, EmptyList
    <2> QED
      BY <1>3, <2>1, <2>b, <2>2, EmptyList DEF QueueTypes
  <1>15. CASE all # <<>> /\ decode_seqs = <<>>
    <2>1. /\ batch' = all /\ batch_is_prefill' = TRUE /\ pc' = "prepare"
          /\ later' = <<>> /\ substeps' = 0 /\ oom_preempted' = <<>>
          /\ UNCHANGED exception
      BY <1>10, <1>15 DEF Goto, StartBatch
    <2>2. all = prefill /\ Len(prefill) = 1
      BY <1>1, <1>4, <1>15
    <2>3. later' \in Seq(Seqs) /\ IsInjective(later') /\ Range(later') = {}
      BY <2>1, EmptyList
    <2>4. batch' \in Seq(Seqs) /\ IsInjective(batch') /\ Range(batch') = Range(prefill)
          /\ Len(batch') <= 1 /\ substeps' \in Nat /\ oom_preempted' \in Seq(Seqs)
          /\ ~(substeps' > 0)
      BY <1>1, <1>3, <2>1, <2>2, EmptyList
    <2> QED
      BY <2>1, <2>3, <2>4
  <1> QED
    BY <1>12, <1>13, <1>14, <1>15

LEMMA ChunkIsNat ==
    ASSUME NEW s \in Seqs, SeqTypes, MayPrefill, decode_seqs \in Seq(Seqs), Remaining(s) > 0
    PROVE  Chunk(s) \in Nat /\ Chunk(s) > 0 /\ Chunk(s) <= Remaining(s)
  <1>1. /\ Remaining(s) \in Int /\ Budget \in Int /\ MaxPrefillChunkTokens \in Nat \ {0}
        /\ Budget > 0
    <2>1. Len(decode_seqs) \in Nat /\ Len(token_ids[s]) \in Nat
      BY DEF SeqTypes
    <2>2. seq[s].num_cached_tokens \in Nat
      BY DEF SeqTypes, IsFields
    <2> QED
      BY <2>1, <2>2, SchedulerAssumption DEF Remaining, Budget, NumTokens, MayPrefill
  <1>2. PICK r, b, c \in Nat \ {0} :
          r = Remaining(s) /\ b = Budget /\ c = MaxPrefillChunkTokens
    BY <1>1
  <1>3. PICK sizes \in SUBSET (Nat \ {0}) : sizes = {r, b, c}
    OBVIOUS
  <1>4. Min(sizes) \in sizes /\ Min(sizes) <= r
    BY <1>3, SmallestOf
  <1> QED
    BY <1>2, <1>3, <1>4 DEF Chunk

LEMMA ScheduledSeq ==
    ASSUME SeqTypes, NEW s \in Seqs, ~Finished(s), NEW n \in Nat, NEW last \in BOOLEAN,
           UNCHANGED token_ids,
           seq' = [seq EXCEPT ![s].num_scheduled_tokens = n,
                              ![s].status = IF last THEN "RUNNING" ELSE @]
    PROVE  /\ SeqTypes'
           /\ \A t \in Seqs : t # s => seq'[t] = seq[t]
           /\ \A t \in Seqs : /\ Finished(t)' <=> Finished(t)
                              /\ seq'[t].is_prefill = seq[t].is_prefill
           /\ seq'[s].num_scheduled_tokens = n
           /\ seq'[s].num_cached_tokens = seq[s].num_cached_tokens
  <1>1. IsFields(seq[s]) /\ seq = [t \in Seqs |-> seq[t]] /\ seq[s].status # "FINISHED"
    BY DEF SeqTypes, Finished
  <1>2. PICK r : r = [seq[s] EXCEPT !.num_scheduled_tokens = n,
                                    !.status = IF last THEN "RUNNING" ELSE @]
    OBVIOUS
  <1>3. /\ IsFields(r) /\ r.status # "FINISHED" /\ r.num_scheduled_tokens = n
        /\ r.num_cached_tokens = seq[s].num_cached_tokens
        /\ r.is_prefill = seq[s].is_prefill
    BY <1>1, <1>2 DEF IsFields, FieldNames
  <1>4. seq' = [seq EXCEPT ![s] = r]
    BY <1>1, <1>2
  <1>5. /\ seq' = [t \in Seqs |-> seq'[t]]
        /\ \A t \in Seqs : IsFields(seq'[t])
        /\ \A t \in Seqs : t # s => seq'[t] = seq[t]
        /\ seq'[s] = r
    BY <1>3, <1>4, UpdateFields DEF SeqTypes
  <1> QED
    BY <1>1, <1>3, <1>5 DEF SeqTypes, Finished

(* A step leads to idle, or to a batch made of the prompt that was chosen  *)
(* and of what decodes.                                                    *)
LEMMA EndScheduleQueue ==
    ASSUME QueueInv, EndSchedule
    PROVE  QueueInv'
  <1>1. /\ QueueTypes /\ SeqTypes /\ QueuesApart /\ LoopInv /\ BatchInv /\ ChunkInv
        /\ exception # "KeyError" /\ pc = "admit"
        /\ \A t \in Seqs \ submitted : ~Finished(t)
    BY DEF EndSchedule, ScheduleChunk, ScheduleNoChunk, QueueInv
  <1>2. /\ decode_list' = <<>> /\ decode_seqs' = <<>>
        /\ UNCHANGED <<submitted, todo, token_ids>>
    BY DEF EndSchedule, ResetLoop, requestVars, ScheduleChunk, ScheduleNoChunk, seqVars
  <1>3. /\ decode_seqs \in Seq(Seqs) /\ running \in Seq(Seqs) /\ waiting \in Seq(Seqs)
        /\ IsInjective(decode_seqs) /\ IsInjective(running) /\ IsInjective(waiting)
    BY <1>1 DEF QueueTypes, QueuesApart
  <1>4. PICK s : s = Candidate
    OBVIOUS
  <1>5. PICK last \in BOOLEAN :
             last <=> seq[s].num_cached_tokens + Chunk(s) >= NumTokens(s)
    <2>1. CASE seq[s].num_cached_tokens + Chunk(s) >= NumTokens(s)
      BY <2>1, Zenon
    <2>2. CASE ~(seq[s].num_cached_tokens + Chunk(s) >= NumTokens(s))
      BY <2>2, Zenon
    <2> QED
      BY <2>1, <2>2
  <1>6. CASE ScheduleChunk /\ Dispatch(<<Candidate>>)
    <2>1. /\ s \in Seqs /\ Tail(waiting) \in Seq(Seqs)
          /\ Range(waiting) = {s} \cup Range(Tail(waiting))
          /\ IsInjective(Tail(waiting)) /\ s \notin Range(Tail(waiting))
      BY <1>1, <1>3, <1>4, <1>6, HeadOfWaiting DEF ScheduleChunk, MayPrefill
    <2>2. /\ s \notin Range(running) /\ s \notin Range(decode_seqs) /\ ~Finished(s)
          /\ seq[s].is_prefill
      BY <1>1, <2>1, InQueues DEF QueuesApart, LoopInv, Unfinished
    <2>3. Chunk(s) \in Nat
      BY <1>1, <1>3, <1>4, <1>6, <2>1, ChunkIsNat DEF ScheduleChunk
    <2>4. /\ seq' = [seq EXCEPT ![s].num_scheduled_tokens = Chunk(s),
                                ![s].status = IF last THEN "RUNNING" ELSE @]
          /\ waiting' = IF last THEN Tail(waiting) ELSE waiting
          /\ running' = (IF last THEN Append(running, s) ELSE running) \o decode_seqs
      BY <1>4, <1>5, <1>6 DEF ScheduleChunk
    <2>5. /\ SeqTypes'
          /\ \A t \in Seqs : /\ Finished(t)' <=> Finished(t)
                             /\ seq'[t].is_prefill = seq[t].is_prefill
          /\ seq'[s].num_scheduled_tokens = Chunk(s)
          /\ seq'[s].num_cached_tokens = seq[s].num_cached_tokens
      <3>1. PICK n \in Nat : n = Chunk(s)
        BY <2>3
      <3>2. seq' = [seq EXCEPT ![s].num_scheduled_tokens = n,
                               ![s].status = IF last THEN "RUNNING" ELSE @]
        BY <2>4, <3>1
      <3> QED
        BY <1>1, <1>2, <2>1, <2>2, <3>1, <3>2, ScheduledSeq
    <2>6. Unfinished' = Unfinished /\ \A t \in Seqs \ submitted' : ~Finished(t)'
      BY <1>1, <1>2, <2>5, SameUnfinished
    <2>7. /\ running' \in Seq(Seqs) /\ IsInjective(running')
          /\ Range(running') = (IF last THEN {s} ELSE {}) \cup Range(running)
                                 \cup Range(decode_seqs)
      <3>1. PICK r : r = IF last THEN Append(running, s) ELSE running
        OBVIOUS
      <3>2. /\ r \in Seq(Seqs) /\ IsInjective(r)
            /\ Range(r) = (IF last THEN {s} ELSE {}) \cup Range(running)
        <4>1. /\ Append(running, s) \in Seq(Seqs)
              /\ Range(Append(running, s)) = Range(running) \cup {s}
              /\ IsInjective(Append(running, s))
          BY <1>3, <2>1, <2>2, RangeOfAppend
        <4> QED
          BY <1>3, <3>1, <4>1
      <3>3. /\ r \o decode_seqs \in Seq(Seqs)
            /\ Range(r \o decode_seqs) = Range(r) \cup Range(decode_seqs)
        BY <1>3, <3>2, RangeOfConcat
      <3>4. Range(r) \cap Range(decode_seqs) = {}
        BY <1>1, <2>2, <3>2 DEF QueuesApart
      <3>5. IsInjective(r \o decode_seqs)
        BY <1>3, <3>2, <3>4, InjectiveConcat
      <3> QED
        BY <2>4, <3>1, <3>2, <3>3, <3>5
    <2>8. /\ waiting' \in Seq(Seqs) /\ IsInjective(waiting')
          /\ Range(waiting') = Range(waiting) \ (IF last THEN {s} ELSE {})
      BY <1>3, <2>1, <2>4
    <2>9. QueuesApart'
      BY <1>1, <1>2, <2>1, <2>2, <2>6, <2>7, <2>8, EmptyList DEF QueuesApart
    <2>10. PICK prefill : prefill = <<s>>
      OBVIOUS
    <2>11. /\ Dispatch(prefill) /\ seq'[s].is_prefill
           /\ \A t \in Range(decode_seqs) : ~seq'[t].is_prefill
      BY <1>1, <1>4, <1>6, <2>1, <2>2, <2>5, <2>10, InQueues DEF LoopInv
    <2>12. Range(prefill) = {s}
      BY <2>10, RangeOfPair
    <2>13. /\ UNCHANGED exception
           /\ batch' \in Seq(Seqs) /\ later' \in Seq(Seqs) /\ substeps' \in Nat
           /\ oom_preempted' \in Seq(Seqs)
           /\ \/ pc' = "idle" /\ UNCHANGED <<later, substeps>>
              \/ /\ pc' = "prepare" /\ oom_preempted' = <<>>
                 /\ IsInjective(batch') /\ IsInjective(later')
                 /\ \/ /\ batch_is_prefill' /\ Len(batch') <= 1
                       /\ Range(batch') = {s}
                       /\ Range(batch') \cap Range(later') = {}
                    \/ /\ ~batch_is_prefill' /\ later' = <<>>
                       /\ Range(batch') = Range(decode_seqs)
                 /\ Range(later') \subseteq Range(decode_seqs)
                 /\ substeps' > 0 => NumSchedulerSteps > 1 /\ later' = <<>>
      BY <1>1, <1>3, <2>1, <2>2, <2>10, <2>11, <2>12, DispatchBatch
    <2>14. QueueTypes'
      BY <1>1, <1>2, <2>7, <2>8, <2>13, EmptyList DEF QueueTypes
    <2>15. LoopInv'
      BY <1>1, <1>2, <2>5, <2>8, <2>13, InQueues, NoLoopNext DEF LoopInv
    <2>16. BatchInv'
      <3>1. Range(decode_seqs) \subseteq Unfinished /\ s \in Unfinished
        BY <1>1, <2>1, InQueues
      <3> QED
        BY <1>1, <2>6, <2>7, <2>8, <2>13, <3>1, EmptyList
           DEF BatchInv, Running, Processing, QueuesApart
    <2>17. ChunkInv'
      <3>1. seq[s].num_cached_tokens \in Nat /\ NumTokens(s) \in Nat
        BY <1>1, <2>1 DEF SeqTypes, IsFields, NumTokens
      <3>2. ~last => seq[s].num_cached_tokens + Chunk(s) < NumTokens(s)
        BY <1>5, <2>3, <3>1
      <3>3. NumTokens(s)' = NumTokens(s)
        BY <1>2 DEF NumTokens
      <3> QED
        BY <1>2, <2>5, <2>8, <2>13, <3>2, <3>3 DEF ChunkInv, Running
    <2> QED
      BY <1>1, <2>5, <2>6, <2>9, <2>13, <2>14, <2>15, <2>16, <2>17 DEF QueueInv
  <1>7. CASE ScheduleNoChunk /\ Dispatch(<<>>)
    <2>1. running' = running \o decode_seqs /\ UNCHANGED <<seq, waiting>>
      BY <1>7 DEF ScheduleNoChunk, seqVars
    <2>2. SeqTypes' /\ \A t \in Seqs : Finished(t)' <=> Finished(t)
      BY <1>1, <1>2, <2>1 DEF SeqTypes, Finished
    <2>3. Unfinished' = Unfinished /\ \A t \in Seqs \ submitted' : ~Finished(t)'
      BY <1>1, <1>2, <2>2, SameUnfinished
    <2>4. /\ running' \in Seq(Seqs) /\ IsInjective(running')
          /\ Range(running') = Range(running) \cup Range(decode_seqs)
      <3>1. /\ running \o decode_seqs \in Seq(Seqs)
            /\ Range(running \o decode_seqs) = Range(running) \cup Range(decode_seqs)
        BY <1>3, RangeOfConcat
      <3>2. IsInjective(running \o decode_seqs)
        BY <1>1, <1>3, InjectiveConcat DEF QueuesApart
      <3> QED
        BY <2>1, <3>1, <3>2
    <2>5. QueuesApart'
      BY <1>1, <1>2, <2>1, <2>3, <2>4, EmptyList DEF QueuesApart
    <2>6. PICK prefill : prefill = <<>>
      OBVIOUS
    <2>7. Dispatch(prefill) /\ \A t \in Range(decode_seqs) : ~seq'[t].is_prefill
      BY <1>1, <1>7, <2>1, <2>6 DEF LoopInv
    <2>8. /\ UNCHANGED exception
          /\ batch' \in Seq(Seqs) /\ later' \in Seq(Seqs) /\ substeps' \in Nat
          /\ oom_preempted' \in Seq(Seqs)
          /\ \/ pc' = "idle" /\ UNCHANGED <<later, substeps>>
             \/ /\ pc' = "prepare" /\ oom_preempted' = <<>>
                /\ IsInjective(batch') /\ IsInjective(later')
                /\ \/ /\ batch_is_prefill' /\ Len(batch') <= 1
                      /\ Range(batch') = {}
                      /\ Range(batch') \cap Range(later') = {}
                   \/ /\ ~batch_is_prefill' /\ later' = <<>>
                      /\ Range(batch') = Range(decode_seqs)
                /\ Range(later') \subseteq Range(decode_seqs)
                /\ substeps' > 0 => NumSchedulerSteps > 1 /\ later' = <<>>
      <3>1. Range(prefill) = {}
        BY <2>6, EmptyList
      <3> QED
        BY <1>1, <1>3, <2>6, <2>7, <3>1, DispatchBatch
    <2>9. QueueTypes'
      BY <1>1, <1>2, <2>1, <2>4, <2>8, EmptyList DEF QueueTypes
    <2>10. LoopInv'
      BY <1>1, <1>2, <2>1, <2>8, NoLoopNext DEF LoopInv
    <2>11. BatchInv'
      <3>1. Range(decode_seqs) \subseteq Unfinished
        BY <1>1, InQueues
      <3> QED
        BY <1>1, <2>1, <2>3, <2>4, <2>8, <3>1, EmptyList
           DEF BatchInv, Running, Processing, QueuesApart
    <2>12. ChunkInv'
      BY <2>8 DEF ChunkInv, Running
    <2> QED
      BY <1>1, <2>2, <2>3, <2>5, <2>8, <2>9, <2>10, <2>11, <2>12 DEF QueueInv
  <1> QED
    BY <1>6, <1>7 DEF EndSchedule

-----------------------------------------------------------------------------
(* model_runner.run() and what follows it. *)

(* A pass over the batch that changes no counter and no queue. *)
LEMMA PassQueue ==
    ASSUME QueueInv, pc \in Running, pc' \in Running \cup {"raised"},
           exception' # "KeyError",
           UNCHANGED <<queueVars, loopVars, batch, batch_is_prefill, later, todo, substeps,
                       oom_preempted, submitted, token_ids>>,
           SeqTypes',
           \A t \in Seqs :
              /\ Finished(t)' <=> Finished(t)
              /\ seq'[t].is_prefill = seq[t].is_prefill
              /\ seq'[t].num_cached_tokens = seq[t].num_cached_tokens
              /\ seq'[t].num_scheduled_tokens = seq[t].num_scheduled_tokens
    PROVE  QueueInv'
  <1>1. /\ QueueTypes /\ SeqTypes /\ QueuesApart /\ LoopInv /\ BatchInv /\ ChunkInv
        /\ \A t \in Seqs \ submitted : ~Finished(t)
    BY DEF QueueInv, Running
  <1>2. UNCHANGED <<waiting, running, decode_list, decode_seqs, preempted, batch,
                    batch_is_prefill, later, todo, substeps, oom_preempted, submitted,
                    token_ids>>
    BY DEF queueVars, loopVars
  <1>3. Unfinished' = Unfinished /\ \A t \in Seqs \ submitted' : ~Finished(t)'
    BY <1>1, SameUnfinished
  <1>4. QueueTypes' /\ QueuesApart'
    BY <1>1, <1>2, <1>3 DEF QueueTypes, QueuesApart
  <1>5. LoopInv'
    <2>1. decode_seqs = <<>>
      BY <1>1 DEF LoopInv, Running
    <2>2. pc' \notin {"decode", "admit"}
      BY DEF Running
    <2> QED
      BY <1>1, <1>2, <2>1, <2>2, InQueues, NoLoopNext DEF LoopInv
  <1>6. BatchInv'
    BY <1>1, <1>2, <1>3 DEF BatchInv, Running, Processing
  <1>7. ChunkInv'
    <2>1. \A t \in Seqs : NumTokens(t)' = NumTokens(t)
      BY <1>2 DEF NumTokens
    <2>2. Range(batch) \subseteq Seqs
      BY <1>1, InQueues DEF BatchInv
    <2> QED
      BY <1>1, <1>2, <2>1, <2>2 DEF ChunkInv, Running
  <1> QED
    BY <1>1, <1>3, <1>4, <1>5, <1>6, <1>7 DEF QueueInv

LEMMA SameSeq ==
    ASSUME SeqTypes, UNCHANGED <<seq, token_ids>>
    PROVE  /\ SeqTypes'
           /\ \A t \in Seqs :
                /\ Finished(t)' <=> Finished(t)
                /\ seq'[t].is_prefill = seq[t].is_prefill
                /\ seq'[t].num_cached_tokens = seq[t].num_cached_tokens
                /\ seq'[t].num_scheduled_tokens = seq[t].num_scheduled_tokens
  BY DEF SeqTypes, Finished

LEMMA RestoredSeq ==
    ASSUME SeqTypes, UNCHANGED token_ids, NEW members,
           seq' = [s \in Seqs |-> IF s \in members
                                  THEN [seq[s] EXCEPT !.prefix_restore_blocks = None]
                                  ELSE seq[s]]
    PROVE  /\ SeqTypes'
           /\ \A t \in Seqs :
                /\ Finished(t)' <=> Finished(t)
                /\ seq'[t].is_prefill = seq[t].is_prefill
                /\ seq'[t].num_cached_tokens = seq[t].num_cached_tokens
                /\ seq'[t].num_scheduled_tokens = seq[t].num_scheduled_tokens
  <1>1. ASSUME NEW t \in Seqs
        PROVE  /\ IsFields(seq'[t])
               /\ seq'[t].status = seq[t].status
               /\ seq'[t].is_prefill = seq[t].is_prefill
               /\ seq'[t].num_cached_tokens = seq[t].num_cached_tokens
               /\ seq'[t].num_scheduled_tokens = seq[t].num_scheduled_tokens
    <2>1. IsFields(seq[t])
      BY DEF SeqTypes
    <2>2. PICK r : r = [seq[t] EXCEPT !.prefix_restore_blocks = None]
      OBVIOUS
    <2>3. /\ IsFields(r) /\ r.status = seq[t].status
          /\ r.is_prefill = seq[t].is_prefill
          /\ r.num_cached_tokens = seq[t].num_cached_tokens
          /\ r.num_scheduled_tokens = seq[t].num_scheduled_tokens
      BY <2>1, <2>2 DEF IsFields, FieldNames
    <2>4. seq'[t] = r \/ seq'[t] = seq[t]
      BY <2>2
    <2> QED
      BY <2>1, <2>3, <2>4
  <1>2. seq' = [s \in Seqs |-> seq'[s]]
    OBVIOUS
  <1> QED
    BY <1>1, <1>2 DEF SeqTypes, Finished

LEMMA RunQueue ==
    ASSUME QueueInv, Prepare \/ Forward \/ GiveUp
    PROVE  QueueInv'
  <1>1. SeqTypes
    BY DEF QueueInv
  <1>2. /\ pc \in Running /\ pc' \in Running \cup {"raised"}
        /\ UNCHANGED <<queueVars, loopVars, batch, batch_is_prefill, later, todo, substeps,
                       oom_preempted, submitted, token_ids>>
    BY DEF Prepare, Forward, GiveUp, Running, Goto, Raise, batchVars, requestVars, stepVars,
           seqVars
  <1>3. exception' # "KeyError"
    BY <1>2 DEF Prepare, Forward, GiveUp, Goto, Raise, QueueInv, Running
  <1>4. CASE UNCHANGED seq
    BY <1>1, <1>2, <1>3, <1>4, SameSeq, PassQueue
  <1>5. CASE Prepare /\ SlotsSuffice
    <2>1. PICK members : members = Range(batch)
      OBVIOUS
    <2>2. seq' = [s \in Seqs |-> IF s \in members
                                 THEN [seq[s] EXCEPT !.prefix_restore_blocks = None]
                                 ELSE seq[s]]
      BY <1>5, <2>1 DEF Prepare, PrepareStates
    <2> QED
      BY <1>1, <1>2, <1>3, <2>2, RestoredSeq, PassQueue
  <1> QED
    BY <1>4, <1>5 DEF Prepare, Forward, GiveUp, seqVars

(* An out-of-memory error drops the last of a batch that decodes. *)
LEMMA RetryQueue ==
    ASSUME QueueInv, Retry
    PROVE  QueueInv'
  <1>1. /\ QueueTypes /\ SeqTypes /\ QueuesApart /\ LoopInv /\ BatchInv /\ ChunkInv
        /\ \A t \in Seqs \ submitted : ~Finished(t)
        /\ exception # "KeyError" /\ pc = "forward" /\ pc' = "prepare"
        /\ UNCHANGED <<exception, waiting, running, decode_list, decode_seqs, preempted,
                       batch_is_prefill, later, todo, substeps, submitted, token_ids, seq>>
    BY DEF QueueInv, Retry, Goto, OutOfMemory, seqVars, queueVars, loopVars, requestVars,
           stepVars
  <1>2. /\ SeqTypes' /\ Unfinished' = Unfinished
        /\ \A t \in Seqs \ submitted' : ~Finished(t)'
        /\ \A t \in Seqs : seq'[t].is_prefill = seq[t].is_prefill
    BY <1>1, SameSeq, SameUnfinished
  <1>3. CASE Len(batch) <= 1
    <2>1. UNCHANGED <<batch, oom_preempted, queueVars, loopVars>>
      <3>1. ~(Len(batch) > 1)
        <4>1. Len(batch) \in Nat
          BY <1>1 DEF QueueTypes
        <4> QED
          BY <1>3, <4>1
      <3> QED
        BY <3>1 DEF Retry, OutOfMemory
    <2>2. pc \in Running /\ pc' \in Running \cup {"raised"}
      BY <1>1 DEF Running
    <2> QED
      BY <1>1, <2>1, <2>2, SameSeq, PassQueue
  <1>4. CASE Len(batch) > 1
    <2>1. PICK last : last = Last(batch)
      OBVIOUS
    <2>2. batch' = Front(batch) /\ oom_preempted' = Append(oom_preempted, last)
      BY <1>4, <2>1 DEF Retry, OutOfMemory
    <2>3. batch \in Seq(Seqs) /\ IsInjective(batch) /\ batch # <<>> /\ ~batch_is_prefill
      <3>1. Len(batch) \in Nat /\ batch \in Seq(Seqs) /\ IsInjective(batch)
        BY <1>1 DEF QueueTypes, BatchInv, Running
      <3>2. ~(Len(batch) <= 1)
        BY <1>4, <3>1
      <3>3. ~batch_is_prefill
        BY <1>1, <3>2 DEF BatchInv, Running
      <3>4. batch # <<>>
        BY <1>4
      <3> QED
        BY <3>1, <3>3, <3>4
    <2>4. /\ Front(batch) \in Seq(Seqs)
          /\ Range(batch) = Range(Front(batch)) \cup {last}
          /\ IsInjective(Front(batch)) /\ last \notin Range(Front(batch))
      BY <2>1, <2>3, FrontAndLast
    <2>5. /\ Range(batch) \subseteq Unfinished /\ Range(batch) \cap Range(waiting) = {}
          /\ Range(oom_preempted) \subseteq Range(running) \ Range(batch)
          /\ IsInjective(oom_preempted) /\ oom_preempted \in Seq(Seqs)
          /\ later = <<>> /\ decode_seqs = <<>>
      BY <1>1, <2>3 DEF BatchInv, Running, QueueTypes, LoopInv
    <2>6. last \in Seqs /\ last \in Range(running) /\ last \notin Range(oom_preempted)
      <3>1. Range(decode_seqs) = {}
        BY <2>5, EmptyList
      <3> QED
        BY <1>1, <2>4, <2>5, <3>1, InQueues DEF QueuesApart
    <2>7. /\ oom_preempted' \in Seq(Seqs) /\ IsInjective(oom_preempted')
          /\ Range(oom_preempted') = Range(oom_preempted) \cup {last}
      BY <2>2, <2>5, <2>6, RangeOfAppend
    <2>8. QueueTypes' /\ QueuesApart'
      BY <1>1, <1>2, <2>2, <2>4, <2>7 DEF QueueTypes, QueuesApart
    <2>9. LoopInv'
      BY <1>1, <1>2, <2>5, InQueues, NoLoopNext DEF LoopInv
    <2>10. BatchInv'
      BY <1>1, <1>2, <2>2, <2>3, <2>4, <2>5, <2>6, <2>7, EmptyList
         DEF BatchInv, Running, Processing
    <2>11. ChunkInv'
      BY <1>1, <2>3 DEF ChunkInv, Running
    <2> QED
      BY <1>1, <1>2, <2>8, <2>9, <2>10, <2>11 DEF QueueInv
  <1> QED
    <2>1. Len(batch) \in Nat
      BY <1>1 DEF QueueTypes
    <2> QED
      BY <1>3, <1>4, <2>1

(* _handle_preempted() sends what run() dropped back to the scheduler. *)
LEMMA RequeueQueue ==
    ASSUME QueueInv, Requeue
    PROVE  QueueInv'
  <1>0. PICK s : s = Head(oom_preempted)
    OBVIOUS
  <1>1. /\ QueueTypes /\ SeqTypes /\ QueuesApart /\ LoopInv /\ BatchInv /\ ChunkInv
        /\ \A t \in Seqs \ submitted : ~Finished(t)
        /\ exception # "KeyError" /\ pc = "requeue" /\ pc' = "requeue"
        /\ oom_preempted # <<>>
        /\ seq' = [seq EXCEPT ![s] = Recomputed(@)]
        /\ waiting' = <<s>> \o waiting /\ running' = Without(running, s)
        /\ oom_preempted' = Tail(oom_preempted)
        /\ UNCHANGED <<exception, decode_list, decode_seqs, preempted, batch,
                       batch_is_prefill, later, todo, substeps, submitted, token_ids>>
    BY <1>0 DEF QueueInv, Requeue, batchVars, loopVars, requestVars, stepVars
  <1>2. /\ oom_preempted \in Seq(Seqs) /\ IsInjective(oom_preempted)
        /\ running \in Seq(Seqs) /\ IsInjective(running) /\ ~batch_is_prefill
        /\ Range(oom_preempted) \subseteq Range(running) \ Range(batch)
        /\ decode_seqs = <<>> /\ later = <<>>
    BY <1>1 DEF QueueTypes, QueuesApart, BatchInv, LoopInv, Running
  <1>3. /\ Tail(oom_preempted) \in Seq(Seqs) /\ IsInjective(Tail(oom_preempted))
        /\ Range(oom_preempted) = {s} \cup Range(Tail(oom_preempted))
        /\ s \notin Range(Tail(oom_preempted))
    BY <1>0, <1>1, <1>2, HeadAndTail
  <1>4. /\ s \in Range(running) /\ s \in Seqs /\ ~Finished(s)
        /\ Range(running) \subseteq Unfinished
    BY <1>1, <1>2, <1>3, InQueues DEF Unfinished
  <1>5. /\ SeqTypes'
        /\ \A t \in Seqs : t # s => seq'[t] = seq[t]
        /\ ~Finished(s)' /\ seq'[s].is_prefill
    BY <1>1, <1>4, PreemptedSeq
  <1>6. \A t \in Seqs : Finished(t)' <=> Finished(t)
    BY <1>4, <1>5 DEF Finished
  <1>7. Unfinished' = Unfinished /\ \A t \in Seqs \ submitted' : ~Finished(t)'
    BY <1>1, <1>6, SameUnfinished
  <1>8. /\ running' \in Seq(Seqs) /\ IsInjective(running')
        /\ Range(running') = Range(running) \ {s}
    BY <1>1, <1>2, WithoutKeeps
  <1>9. /\ QueuesApart' /\ waiting' \in Seq(Seqs)
        /\ Range(waiting') = {s} \cup Range(waiting)
    BY <1>1, <1>4, <1>7, <1>8, BackToWaiting
  <1>10. QueueTypes'
    BY <1>1, <1>3, <1>8, <1>9 DEF QueueTypes
  <1>11. LoopInv'
    BY <1>1, <1>2, <1>5, <1>9, InQueues, NoLoopNext DEF LoopInv
  <1>12. BatchInv'
    BY <1>1, <1>2, <1>3, <1>7, <1>8, <1>9, EmptyList DEF BatchInv, Running, Processing
  <1>13. ChunkInv'
    BY <1>1, <1>2 DEF ChunkInv, Running
  <1> QED
    BY <1>1, <1>5, <1>7, <1>9, <1>10, <1>11, <1>12, <1>13 DEF QueueInv

LEMMA EndRequeueQueue ==
    ASSUME QueueInv, EndRequeue
    PROVE  QueueInv'
  <1>1. /\ QueueTypes /\ SeqTypes /\ QueuesApart /\ LoopInv /\ BatchInv /\ ChunkInv
        /\ \A t \in Seqs \ submitted : ~Finished(t)
        /\ exception # "KeyError" /\ pc = "requeue" /\ pc' = "record"
        /\ oom_preempted = <<>> /\ todo' = batch
        /\ UNCHANGED <<exception, waiting, running, decode_list, decode_seqs, preempted,
                       batch, batch_is_prefill, later, substeps, submitted, oom_preempted,
                       token_ids, seq>>
    BY DEF QueueInv, EndRequeue, Goto, batchVars, loopVars, queueVars, requestVars,
           runnerVars, seqVars
  <1>2. /\ SeqTypes' /\ Unfinished' = Unfinished
        /\ \A t \in Seqs \ submitted' : ~Finished(t)'
        /\ \A t \in Seqs : seq'[t].is_prefill = seq[t].is_prefill
    BY <1>1, SameSeq, SameUnfinished
  <1>3. QueueTypes' /\ QueuesApart'
    BY <1>1, <1>2 DEF QueueTypes, QueuesApart
  <1>4. LoopInv'
    BY <1>1, <1>2, InQueues, NoLoopNext DEF LoopInv
  <1>5. BatchInv'
    BY <1>1, <1>2 DEF BatchInv, Running, Processing, Unfinished
  <1>6. ChunkInv'
    BY <1>1 DEF ChunkInv, Running, NumTokens
  <1> QED
    BY <1>1, <1>2, <1>3, <1>4, <1>5, <1>6 DEF QueueInv

LEMMA RecordedSeq ==
    ASSUME SeqTypes, NEW s \in Seqs, UNCHANGED token_ids, NEW cached,
           cached = seq[s].num_cached_tokens + seq[s].num_scheduled_tokens,
           seq' = [seq EXCEPT ![s].num_cached_tokens = cached,
                              ![s].num_scheduled_tokens = 0]
    PROVE  /\ SeqTypes'
           /\ \A t \in Seqs : t # s => seq'[t] = seq[t]
           /\ \A t \in Seqs : /\ Finished(t)' <=> Finished(t)
                              /\ seq'[t].is_prefill = seq[t].is_prefill
           /\ seq'[s].num_cached_tokens = cached
           /\ seq'[s].num_scheduled_tokens = 0
  <1>1. IsFields(seq[s]) /\ seq = [t \in Seqs |-> seq[t]]
    BY DEF SeqTypes
  <1>2. PICK r : r = [seq[s] EXCEPT !.num_cached_tokens = cached,
                                    !.num_scheduled_tokens = 0]
    OBVIOUS
  <1>3. cached \in Nat
    <2>1. seq[s].num_cached_tokens \in Nat /\ seq[s].num_scheduled_tokens \in Nat
      BY <1>1 DEF IsFields
    <2> QED
      BY <2>1
  <1>4. /\ IsFields(r) /\ r.status = seq[s].status /\ r.num_cached_tokens = cached
        /\ r.is_prefill = seq[s].is_prefill /\ r.num_scheduled_tokens = 0
    BY <1>1, <1>2, <1>3 DEF IsFields, FieldNames
  <1>5. seq' = [seq EXCEPT ![s] = r]
    BY <1>1, <1>2
  <1>6. /\ seq' = [t \in Seqs |-> seq'[t]]
        /\ \A t \in Seqs : IsFields(seq'[t])
        /\ \A t \in Seqs : t # s => seq'[t] = seq[t]
        /\ seq'[s] = r
    BY <1>4, <1>5, UpdateFields DEF SeqTypes
  <1> QED
    BY <1>4, <1>6 DEF SeqTypes, Finished

(* The head of todo still runs or waits, and nothing else holds it. *)
LEMMA HeadOfTodo ==
    ASSUME QueueTypes, QueuesApart, LoopInv, BatchInv, pc \in Processing, todo # <<>>
    PROVE  /\ Head(todo) \in Seqs /\ Head(todo) \in Range(batch)
           /\ Head(todo) \in Unfinished
           /\ Tail(todo) \in Seq(Seqs) /\ IsInjective(Tail(todo))
           /\ Range(todo) = {Head(todo)} \cup Range(Tail(todo))
           /\ Head(todo) \notin Range(Tail(todo))
           /\ Head(todo) \notin Range(waiting) => Head(todo) \in Range(running)
           /\ decode_seqs = <<>>
  <1>1. todo \in Seq(Seqs) /\ IsInjective(todo) /\ decode_seqs = <<>>
    BY DEF QueueTypes, BatchInv, LoopInv, Processing
  <1>2. /\ Tail(todo) \in Seq(Seqs) /\ IsInjective(Tail(todo))
        /\ Range(todo) = {Head(todo)} \cup Range(Tail(todo))
        /\ Head(todo) \notin Range(Tail(todo))
    BY <1>1, HeadAndTail
  <1>3. Head(todo) \in Range(batch) /\ Head(todo) \in Unfinished
    BY <1>2 DEF BatchInv
  <1>4. Range(decode_seqs) = {}
    BY <1>1, EmptyList
  <1> QED
    BY <1>1, <1>2, <1>3, <1>4, InQueues DEF QueuesApart

LEMMA RecordQueue ==
    ASSUME QueueInv, Record
    PROVE  QueueInv'
  <1>0. PICK s : s = Head(todo)
    OBVIOUS
  <1>1. /\ QueueTypes /\ SeqTypes /\ QueuesApart /\ LoopInv /\ BatchInv /\ ChunkInv
        /\ \A t \in Seqs \ submitted : ~Finished(t)
        /\ exception # "KeyError" /\ pc = "record" /\ pc' = "sample" /\ todo # <<>>
        /\ UNCHANGED <<exception, waiting, running, decode_list, decode_seqs, preempted,
                       batch, batch_is_prefill, later, substeps, submitted, oom_preempted,
                       token_ids, todo>>
    BY DEF QueueInv, Record, Goto, batchVars, loopVars, queueVars, requestVars, stepVars
  <1>2. pc \in Processing
    BY <1>1 DEF Processing
  <1>3. /\ s \in Seqs /\ s \in Unfinished /\ decode_seqs = <<>>
        /\ Range(todo) = {s} \cup Range(Tail(todo)) /\ s \notin Range(Tail(todo))
        /\ Range(todo) \subseteq Seqs
    BY <1>0, <1>1, <1>2, HeadOfTodo, InQueues DEF BatchInv
  <1>4. PICK cached : cached = seq[s].num_cached_tokens + seq[s].num_scheduled_tokens
    OBVIOUS
  <1>5. seq' = [seq EXCEPT ![s].num_cached_tokens = cached, ![s].num_scheduled_tokens = 0]
    BY <1>0, <1>4 DEF Record, RecordProgress
  <1>6. /\ SeqTypes'
        /\ \A t \in Seqs : t # s => seq'[t] = seq[t]
        /\ \A t \in Seqs : /\ Finished(t)' <=> Finished(t)
                           /\ seq'[t].is_prefill = seq[t].is_prefill
        /\ seq'[s].num_cached_tokens = cached
    BY <1>1, <1>3, <1>4, <1>5, RecordedSeq
  <1>7. Unfinished' = Unfinished /\ \A t \in Seqs \ submitted' : ~Finished(t)'
    BY <1>1, <1>6, SameUnfinished
  <1>8. QueueTypes' /\ QueuesApart'
    BY <1>1, <1>7 DEF QueueTypes, QueuesApart
  <1>9. LoopInv'
    BY <1>1, <1>3, <1>6, InQueues, NoLoopNext DEF LoopInv
  <1>10. BatchInv'
    BY <1>1, <1>7 DEF BatchInv, Running, Processing
  <1>11. ChunkInv'
    <2>1. \A t \in Seqs : NumTokens(t)' = NumTokens(t)
      BY <1>1 DEF NumTokens
    <2> QED
      BY <1>0, <1>1, <1>3, <1>4, <1>6, <2>1 DEF ChunkInv, Running
  <1> QED
    BY <1>1, <1>6, <1>7, <1>8, <1>9, <1>10, <1>11 DEF QueueInv

LEMMA AppendedTokens ==
    ASSUME SeqTypes, NEW s \in Seqs, NEW token \in Vocab,
           token_ids' = [token_ids EXCEPT ![s] = Append(@, token)]
    PROVE  /\ token_ids' \in [Seqs -> Seq(Nat)]
           /\ \A t \in Seqs : t # s => token_ids'[t] = token_ids[t]
           /\ Len(token_ids'[s]) = Len(token_ids[s]) + 1
  <1>1. token \in Nat /\ token_ids \in [Seqs -> Seq(Nat)]
    BY SequenceAssumption DEF SeqTypes
  <1>2. token_ids[s] \in Seq(Nat) /\ token_ids'[s] = Append(token_ids[s], token)
    BY <1>1
  <1>3. /\ Append(token_ids[s], token) \in Seq(Nat)
        /\ Len(Append(token_ids[s], token)) = Len(token_ids[s]) + 1
    BY <1>1, <1>2
  <1> QED
    BY <1>1, <1>2, <1>3

LEMMA FinishedSeq ==
    ASSUME SeqTypes, NEW s \in Seqs, seq' = [seq EXCEPT ![s].status = "FINISHED"]
    PROVE  /\ seq' = [t \in Seqs |-> seq'[t]]
           /\ \A t \in Seqs : IsFields(seq'[t])
           /\ \A t \in Seqs : t # s => seq'[t] = seq[t]
           /\ \A t \in Seqs : seq'[t].is_prefill = seq[t].is_prefill
           /\ Finished(s)'
  <1>1. IsFields(seq[s]) /\ seq = [t \in Seqs |-> seq[t]]
    BY DEF SeqTypes
  <1>2. PICK r : r = [seq[s] EXCEPT !.status = "FINISHED"]
    OBVIOUS
  <1>3. IsFields(r) /\ r.status = "FINISHED" /\ r.is_prefill = seq[s].is_prefill
    BY <1>1, <1>2 DEF IsFields, FieldNames
  <1>4. seq' = [seq EXCEPT ![s] = r]
    BY <1>1, <1>2
  <1>5. /\ seq' = [t \in Seqs |-> seq'[t]]
        /\ \A t \in Seqs : IsFields(seq'[t])
        /\ \A t \in Seqs : t # s => seq'[t] = seq[t]
        /\ seq'[s] = r
    BY <1>3, <1>4, UpdateFields DEF SeqTypes
  <1> QED
    BY <1>3, <1>5 DEF Finished

(* A token ends a sequence only when it runs: a prompt that was not read   *)
(* to its end still waits, and yields none.                                *)
LEMMA SampleQueue ==
    ASSUME QueueInv, Sample
    PROVE  QueueInv'
  <1>0. PICK s : s = Head(todo)
    OBVIOUS
  <1>1. /\ QueueTypes /\ SeqTypes /\ QueuesApart /\ LoopInv /\ BatchInv /\ ChunkInv
        /\ \A t \in Seqs \ submitted : ~Finished(t)
        /\ exception # "KeyError" /\ pc = "sample" /\ pc' = "record"
        /\ todo' = Tail(todo)
        /\ UNCHANGED <<exception, waiting, decode_list, decode_seqs, preempted, batch,
                       batch_is_prefill, later, substeps, submitted, oom_preempted>>
    BY DEF QueueInv, Sample, Goto, batchVars, loopVars, requestVars
  <1>2. pc \in Processing /\ todo # <<>>
    BY <1>1 DEF Processing, BatchInv
  <1>3. /\ s \in Seqs /\ s \in Range(batch) /\ s \in Unfinished /\ decode_seqs = <<>>
        /\ Tail(todo) \in Seq(Seqs) /\ IsInjective(Tail(todo))
        /\ Range(todo) = {s} \cup Range(Tail(todo)) /\ s \notin Range(Tail(todo))
        /\ s \notin Range(waiting) => s \in Range(running)
        /\ Range(todo) \subseteq Range(batch) \cap Unfinished
        /\ Range(todo) \subseteq Seqs
    BY <1>0, <1>1, <1>2, HeadOfTodo, InQueues DEF BatchInv
  <1>4. \/ UNCHANGED <<seq, token_ids, running>>
        \/ /\ ~StillPrefilling(s)
           /\ AppendToken(s)
    BY <1>0 DEF Sample, seqVars
  (* What follows in every case from the changes to the queues. *)
  <1>5. ASSUME SeqTypes', QueuesApart', running' \in Seq(Seqs),
               \A t \in Seqs : seq'[t].is_prefill = seq[t].is_prefill,
               \A t \in Seqs : t # s => seq'[t] = seq[t] /\ token_ids'[t] = token_ids[t],
               \/ Range(running') = Range(running)
               \/ Range(running') = Range(running) \ {s} /\ Finished(s)'
        PROVE  QueueInv'
    <2>1. QueueTypes'
      BY <1>1, <1>3, <1>5 DEF QueueTypes
    <2>2. LoopInv'
      BY <1>1, <1>3, <1>5, InQueues, NoLoopNext DEF LoopInv
    <2>3. \A t \in Unfinished : t # s => t \in Unfinished'
      BY <1>1, <1>5, InQueues DEF Unfinished, Finished
    <2>4. BatchInv'
      BY <1>1, <1>3, <1>5, <2>3 DEF BatchInv, Running, Processing
    <2>5. ChunkInv'
      <3>1. \A t \in Seqs : t # s => NumTokens(t)' = NumTokens(t)
        BY <1>5 DEF NumTokens
      <3> QED
        BY <1>0, <1>1, <1>3, <1>5, <3>1 DEF ChunkInv, Running
    <2>6. \A t \in Seqs \ submitted' : ~Finished(t)'
      <3>1. s \in submitted
        BY <1>3 DEF Unfinished
      <3> QED
        BY <1>1, <1>5, <3>1 DEF Finished
    <2> QED
      BY <1>1, <1>5, <2>1, <2>2, <2>4, <2>5, <2>6 DEF QueueInv
  <1>6. CASE UNCHANGED <<seq, token_ids, running>>
    <2>1. SeqTypes' /\ Unfinished' = Unfinished
      BY <1>1, <1>6, SameSeq, SameUnfinished
    <2>2. QueuesApart' /\ running' \in Seq(Seqs)
      BY <1>1, <1>6, <2>1 DEF QueuesApart, QueueTypes
    <2>3. /\ \A t \in Seqs : seq'[t].is_prefill = seq[t].is_prefill
          /\ \A t \in Seqs : t # s => seq'[t] = seq[t] /\ token_ids'[t] = token_ids[t]
          /\ Range(running') = Range(running)
      BY <1>6
    <2> QED
      BY <1>5, <2>1, <2>2, <2>3, Zenon
  <1>7. CASE ~StillPrefilling(s) /\ AppendToken(s)
    <2>1. s \in Range(running) /\ s \notin Range(waiting)
      <3>1. s \notin Range(waiting)
        BY <1>0, <1>1, <1>3, <1>7 DEF StillPrefilling, ChunkInv, BatchInv
      <3> QED
        BY <1>3, <3>1
    <2>2. PICK token \in Vocab, ends \in BOOLEAN :
             /\ token_ids' = [token_ids EXCEPT ![s] = Append(@, token)]
             /\ Finish(s) \/ UNCHANGED <<seq, running>>
      BY <1>7 DEF AppendToken
    <2>3. /\ token_ids' \in [Seqs -> Seq(Nat)]
          /\ \A t \in Seqs : t # s => token_ids'[t] = token_ids[t]
      BY <1>1, <1>3, <2>2, AppendedTokens
    <2>4. CASE UNCHANGED <<seq, running>>
      <3>1. SeqTypes' /\ \A t \in Seqs : Finished(t)' <=> Finished(t)
        BY <1>1, <2>3, <2>4 DEF SeqTypes, Finished
      <3>2. Unfinished' = Unfinished
        BY <1>1, <3>1, SameUnfinished
      <3>3. QueuesApart' /\ running' \in Seq(Seqs)
        BY <1>1, <2>4, <3>2 DEF QueuesApart, QueueTypes
      <3>4. /\ \A t \in Seqs : seq'[t].is_prefill = seq[t].is_prefill
            /\ \A t \in Seqs : t # s => seq'[t] = seq[t] /\ token_ids'[t] = token_ids[t]
            /\ Range(running') = Range(running)
        BY <2>3, <2>4
      <3> QED
        BY <1>5, <3>1, <3>3, <3>4, Zenon
    <2>5. CASE Finish(s)
      <3>1. seq' = [seq EXCEPT ![s].status = "FINISHED"] /\ running' = Without(running, s)
        BY <2>5 DEF Finish
      <3>2. /\ seq' = [t \in Seqs |-> seq'[t]]
            /\ \A t \in Seqs : IsFields(seq'[t])
            /\ \A t \in Seqs : t # s => seq'[t] = seq[t]
            /\ \A t \in Seqs : seq'[t].is_prefill = seq[t].is_prefill
            /\ Finished(s)'
        BY <1>1, <1>3, <3>1, FinishedSeq
      <3>3. SeqTypes'
        BY <2>3, <3>2 DEF SeqTypes
      <3>4. Unfinished' = Unfinished \ {s}
        BY <1>1, <3>2, InQueues DEF Unfinished, Finished, QueueTypes
      <3>5. /\ running' \in Seq(Seqs) /\ IsInjective(running')
            /\ Range(running') = Range(running) \ {s}
        <4>1. running \in Seq(Seqs) /\ IsInjective(running)
          BY <1>1 DEF QueueTypes, QueuesApart
        <4> QED
          BY <3>1, <4>1, WithoutKeeps
      <3>6. QueuesApart'
        BY <1>1, <1>3, <2>1, <3>4, <3>5, EmptyList DEF QueuesApart
      <3> QED
        BY <1>5, <2>3, <3>2, <3>3, <3>5, <3>6
    <2> QED
      BY <2>2, <2>4, <2>5
  <1> QED
    BY <1>4, <1>6, <1>7

(* A batch that ends goes on with its decode half, with the sequences that *)
(* have not finished, or with the next step.                               *)
LEMMA FinalizeQueue ==
    ASSUME QueueInv, Finalize
    PROVE  QueueInv'
  <1>1. /\ QueueTypes /\ SeqTypes /\ QueuesApart /\ LoopInv /\ BatchInv /\ ChunkInv
        /\ \A t \in Seqs \ submitted : ~Finished(t)
        /\ exception # "KeyError" /\ pc = "record" /\ todo = <<>>
        /\ UNCHANGED <<waiting, running, decode_list, decode_seqs, preempted, submitted,
                       oom_preempted, token_ids, seq>>
    BY DEF QueueInv, Finalize, loopVars, queueVars, seqVars
  <1>2. /\ SeqTypes' /\ Unfinished' = Unfinished
        /\ \A t \in Seqs \ submitted' : ~Finished(t)'
        /\ \A t \in Seqs : seq'[t].is_prefill = seq[t].is_prefill
    BY <1>1, SameSeq, SameUnfinished
  <1>3. QueuesApart'
    BY <1>1, <1>2 DEF QueuesApart
  <1>4. PICK left : left = Survivors
    OBVIOUS
  <1>5. /\ left \in Seq(Seqs) /\ IsInjective(left)
        /\ Len(left) <= Len(batch)
        /\ Range(left) = Range(batch) \cap {t \in Seqs : ~Finished(t)}
    <2>1. batch \in Seq(Seqs) /\ IsInjective(batch)
      BY <1>1 DEF QueueTypes, BatchInv, Processing
    <2> QED
      BY <1>4, <2>1, OnlyKeeps DEF Survivors
  <1>6. \/ /\ substeps > 0 /\ batch' = left /\ todo' = left /\ pc' = "advance"
           /\ UNCHANGED <<batch_is_prefill, later, substeps, exception>>
        \/ /\ later # <<>> /\ batch' = later /\ ~batch_is_prefill' /\ pc' = "prepare"
           /\ later' = <<>>
           /\ UNCHANGED <<substeps, todo, exception>>
        \/ /\ batch' = <<>> /\ substeps' = 0 /\ pc' = "idle"
           /\ UNCHANGED <<later, todo, exception>>
    BY <1>4 DEF Finalize, Goto, StartBatch, NoBatch
  <1>7. LoopInv'
    BY <1>1, <1>2, <1>6, InQueues, NoLoopNext DEF LoopInv
  <1>8. QueueTypes'
    <2>1. /\ batch' \in Seq(Seqs) /\ later' \in Seq(Seqs) /\ todo' \in Seq(Seqs)
          /\ substeps' \in Nat
      <3>1. /\ batch \in Seq(Seqs) /\ later \in Seq(Seqs) /\ todo \in Seq(Seqs)
            /\ substeps \in Nat /\ <<>> \in Seq(Seqs)
        BY <1>1 DEF QueueTypes
      <3>2. left \in Seq(Seqs)
        BY <1>5
      <3>3. batch' \in {left, later, <<>>} /\ todo' \in {left, todo}
        BY <1>6
      <3>4. later' \in {later, <<>>} /\ substeps' \in {substeps, 0}
        BY <1>6
      <3>5. substeps' \in Nat
        BY <3>1, <3>4
      <3> QED
        BY <3>1, <3>2, <3>3, <3>4, <3>5, Zenon
    <2> QED
      BY <1>1, <2>1 DEF QueueTypes
  <1>9. BatchInv' /\ ChunkInv'
    <2>1. CASE pc' = "advance"
      <3>1. Range(left) \subseteq Unfinished
        BY <1>1, <1>5 DEF BatchInv, Processing, Unfinished
      <3>2. /\ substeps > 0 /\ batch' = left /\ todo' = left /\ pc' = "advance"
            /\ UNCHANGED <<batch_is_prefill, later, substeps, oom_preempted>>
        BY <1>1, <1>6, <2>1
      <3>3. batch_is_prefill' => Len(batch') <= 1
        <4>1. batch_is_prefill => Len(batch) <= 1
          BY <1>1 DEF BatchInv, Processing
        <4>2. Len(left) \in Nat /\ Len(batch) \in Nat
          BY <1>1, <1>5 DEF QueueTypes
        <4> QED
          BY <1>5, <3>2, <4>1, <4>2
      <3>4. later = <<>> /\ Range(later) = {} /\ oom_preempted = <<>>
        BY <1>1, <3>2, EmptyList DEF BatchInv, Processing
      <3>5. BatchInv'
        BY <1>1, <1>2, <1>5, <3>1, <3>2, <3>3, <3>4, EmptyList
           DEF BatchInv, Running, Processing, Unfinished
      <3>6. ChunkInv'
        BY <2>1 DEF ChunkInv, Running
      <3> QED
        BY <3>5, <3>6
    <2>2. CASE pc' = "prepare"
      <3>1. /\ later # <<>> /\ batch' = later /\ ~batch_is_prefill' /\ pc' = "prepare"
            /\ later' = <<>>
            /\ UNCHANGED substeps
        BY <1>6, <2>2
      <3>2. /\ IsInjective(later) /\ Range(later) \subseteq Range(running)
            /\ oom_preempted = <<>>
            /\ substeps > 0 => NumSchedulerSteps > 1 /\ later = <<>>
        BY <1>1 DEF BatchInv, Processing
      <3>3. BatchInv'
        BY <1>1, <1>2, <3>1, <3>2, InQueues, EmptyList
           DEF BatchInv, Running, Processing, QueuesApart
      <3>4. ChunkInv'
        BY <3>1 DEF ChunkInv, Running
      <3> QED
        BY <3>3, <3>4
    <2>3. CASE pc' = "idle"
      <3>1. substeps' = 0
        BY <1>6, <2>3
      <3>2. pc' \notin Running \cup Processing
        BY <2>3 DEF Running, Processing
      <3> QED
        BY <3>1, <3>2, NoBatchNext
    <2> QED
      BY <1>6, <2>1, <2>2, <2>3
  <1> QED
    BY <1>1, <1>2, <1>3, <1>6, <1>7, <1>8, <1>9 DEF QueueInv

-----------------------------------------------------------------------------
(* Multi-step decode. *)

(* Making room for a sequence of the batch: it runs, so what is preempted  *)
(* runs too.                                                               *)
LEMMA AdvanceQueue ==
    ASSUME QueueInv, Undisturbed, Advance
    PROVE  QueueInv'
  <1>0. PICK s : s = Head(todo)
    OBVIOUS
  <1>1. /\ QueueTypes /\ SeqTypes /\ QueuesApart /\ LoopInv /\ BatchInv /\ ChunkInv
        /\ \A t \in Seqs \ submitted : ~Finished(t)
        /\ exception # "KeyError" /\ pc = "advance" /\ todo # <<>>
        /\ UNCHANGED <<decode_list, decode_seqs, preempted, batch, batch_is_prefill, later,
                       substeps, submitted>>
    BY DEF QueueInv, Advance, batchVars, requestVars
  <1>2. pc \in Processing /\ substeps > 0 /\ later = <<>> /\ oom_preempted = <<>>
    BY <1>1 DEF Processing, BatchInv
  <1>3. /\ s \in Seqs /\ s \in Range(batch) /\ s \in Unfinished /\ decode_seqs = <<>>
        /\ Tail(todo) \in Seq(Seqs) /\ IsInjective(Tail(todo))
        /\ Range(todo) = {s} \cup Range(Tail(todo))
        /\ s \notin Range(waiting) => s \in Range(running)
    BY <1>0, <1>1, <1>2, HeadOfTodo
  <1>4. s \notin Range(waiting) /\ s \in Range(running)
    BY <1>1, <1>3 DEF Undisturbed, AdvancesRunning
  <1>5. CASE AdvancePreempt(s) /\ UNCHANGED <<todo, pc, exception>>
    <2>1. TryPreempt(s) /\ running # <<>>
      BY <1>4, <1>5, EmptyList DEF AdvancePreempt
    <2>2. /\ SeqTypes' /\ QueuesApart'
          /\ waiting' \in Seq(Seqs) /\ running' \in Seq(Seqs)
          /\ Unfinished' = Unfinished
          /\ \A t \in Seqs \ submitted' : ~Finished(t)'
          /\ UNCHANGED <<token_ids, oom_preempted>>
      BY <1>1, <2>1, PreemptQueues
    <2>3. PICK v \in Range(running) :
               /\ Range(waiting') = {v} \cup Range(waiting)
               /\ seq'[v].is_prefill
               /\ \A t \in Seqs : t # v => seq'[t] = seq[t]
      BY <1>1, <2>1, PreemptQueues
    <2>4. QueueTypes'
      BY <1>1, <1>5, <2>2 DEF QueueTypes
    <2>5. LoopInv'
      BY <1>1, <1>3, <1>5, <2>3, InQueues, NoLoopNext DEF LoopInv, Unfinished
    <2>6. BatchInv'
      BY <1>1, <1>2, <1>5, <2>2, EmptyList DEF BatchInv, Running, Processing
    <2>7. ChunkInv'
      BY <1>1, <1>5 DEF ChunkInv, Running
    <2> QED
      BY <1>1, <1>5, <2>2, <2>4, <2>5, <2>6, <2>7 DEF QueueInv
  <1>6. CASE /\ AdvanceAppend(s) /\ todo' = Tail(todo)
             /\ UNCHANGED <<token_ids, cacheVars, runnerVars, queueVars, pc, exception>>
    <2>1. /\ seq' = [seq EXCEPT ![s].num_scheduled_tokens = 1, ![s].is_prefill = FALSE]
          /\ UNCHANGED <<waiting, running, oom_preempted, token_ids>>
      BY <1>6 DEF AdvanceAppend, queueVars, runnerVars
    <2>2. /\ SeqTypes'
          /\ \A t \in Seqs : t # s => seq'[t] = seq[t]
          /\ \A t \in Seqs : Finished(t)' <=> Finished(t)
      BY <1>1, <1>3, <2>1, DecodingSeq
    <2>3. Unfinished' = Unfinished /\ \A t \in Seqs \ submitted' : ~Finished(t)'
      BY <1>1, <2>2, SameUnfinished
    <2>4. QueueTypes' /\ QueuesApart'
      BY <1>1, <1>3, <1>6, <2>1, <2>3 DEF QueueTypes, QueuesApart
    <2>5. LoopInv'
      BY <1>1, <1>3, <1>4, <1>6, <2>1, <2>2, InQueues, NoLoopNext DEF LoopInv, Unfinished
    <2>6. BatchInv'
      BY <1>1, <1>2, <1>3, <1>6, <2>1, <2>3 DEF BatchInv, Running, Processing
    <2>7. ChunkInv'
      BY <1>1, <1>6 DEF ChunkInv, Running
    <2> QED
      BY <1>1, <1>6, <2>2, <2>3, <2>4, <2>5, <2>6, <2>7 DEF QueueInv
  <1>7. CASE /\ Raise("IndexError")
             /\ UNCHANGED <<seqVars, runnerVars, queueVars, tried, todo>>
    <2>1. /\ pc' = "raised" /\ exception' = "IndexError"
          /\ UNCHANGED <<seq, token_ids, oom_preempted, waiting, running, todo>>
      BY <1>7 DEF Raise, seqVars, runnerVars, queueVars
    <2>2. /\ SeqTypes' /\ Unfinished' = Unfinished
          /\ \A t \in Seqs \ submitted' : ~Finished(t)'
          /\ \A t \in Seqs : seq'[t].is_prefill = seq[t].is_prefill
      BY <1>1, <2>1, SameSeq, SameUnfinished
    <2>3. QueueTypes' /\ QueuesApart'
      BY <1>1, <2>1, <2>2 DEF QueueTypes, QueuesApart
    <2>4. LoopInv'
      BY <1>1, <1>3, <2>1, <2>2, InQueues, NoLoopNext DEF LoopInv
    <2>5. BatchInv' /\ ChunkInv'
      <3>1. pc' \notin Running \cup Processing
        BY <2>1 DEF Running, Processing
      <3> QED
        BY <1>1, <2>1, <3>1, NoBatchNext DEF BatchInv
    <2> QED
      BY <2>1, <2>2, <2>3, <2>4, <2>5 DEF QueueInv
  <1> QED
    BY <1>0, <1>5, <1>6, <1>7 DEF Advance

LEMMA EndAdvanceQueue ==
    ASSUME QueueInv, Undisturbed, EndAdvance
    PROVE  QueueInv'
  <1>1. /\ QueueTypes /\ SeqTypes /\ QueuesApart /\ LoopInv /\ BatchInv /\ ChunkInv
        /\ \A t \in Seqs \ submitted : ~Finished(t)
        /\ exception # "KeyError" /\ pc = "advance" /\ substeps' = substeps - 1
        /\ UNCHANGED <<waiting, running, decode_list, decode_seqs, preempted, submitted,
                       oom_preempted, token_ids, seq, later, todo>>
    BY DEF QueueInv, EndAdvance, loopVars, queueVars, seqVars, requestVars, runnerVars
  <1>2. /\ SeqTypes' /\ Unfinished' = Unfinished
        /\ \A t \in Seqs \ submitted' : ~Finished(t)'
        /\ \A t \in Seqs : seq'[t].is_prefill = seq[t].is_prefill
    BY <1>1, SameSeq, SameUnfinished
  <1>3. /\ substeps \in Nat /\ substeps > 0 /\ NumSchedulerSteps > 1
        /\ later = <<>> /\ oom_preempted = <<>>
        /\ IsInjective(batch) /\ Range(batch) \subseteq Unfinished
        /\ Range(batch) \cap Range(waiting) = {}
    BY <1>1 DEF BatchInv, Processing, QueueTypes, Undisturbed, AdvancesRunning
  <1>4. /\ substeps' \in Nat
        /\ substeps' > 0 => NumSchedulerSteps > 1 /\ later' = <<>>
    BY <1>1, <1>3
  <1>5. \/ pc' = "prepare" /\ batch' = batch /\ ~batch_is_prefill' /\ UNCHANGED exception
        \/ pc' = "idle" /\ batch' = <<>> /\ UNCHANGED exception
    BY DEF EndAdvance, StartBatch, NoBatch, Goto
  <1>6. QueueTypes' /\ QueuesApart'
    BY <1>1, <1>2, <1>4, <1>5, EmptyList DEF QueueTypes, QueuesApart
  <1>7. LoopInv'
    BY <1>1, <1>2, <1>5, InQueues, NoLoopNext DEF LoopInv
  <1>8. BatchInv' /\ ChunkInv'
    <2>1. CASE pc' = "prepare"
      <3>1. BatchInv'
        BY <1>1, <1>2, <1>3, <1>4, <1>5, <2>1, EmptyList DEF BatchInv, Running, Processing
      <3>2. ChunkInv'
        BY <1>5, <2>1 DEF ChunkInv, Running
      <3> QED
        BY <3>1, <3>2
    <2>2. CASE pc' = "idle"
      <3>1. pc' \notin Running \cup Processing
        BY <2>2 DEF Running, Processing
      <3> QED
        BY <1>4, <3>1, NoBatchNext
    <2> QED
      BY <1>5, <2>1, <2>2
  <1> QED
    BY <1>1, <1>2, <1>5, <1>6, <1>7, <1>8 DEF QueueInv

-----------------------------------------------------------------------------
(* Between steps. *)

(* New prompts join the queue: the end of it, and no other queue. *)
LEMMA NewPrompts ==
    ASSUME QueueInv, pc = "idle", NEW new \in SUBSET (Seqs \ submitted),
           NEW prompts \in Seq(Seqs), IsInjective(prompts), Range(prompts) = new,
           waiting' = waiting \o prompts, submitted' = submitted \cup new,
           UNCHANGED <<seqVars, runnerVars, batchVars, running, loopVars, pc, exception,
                       stepVars>>
    PROVE  QueueInv'
  <1>1. /\ QueueTypes /\ SeqTypes /\ QueuesApart /\ LoopInv /\ BatchInv
        /\ exception # "KeyError"
        /\ \A t \in Seqs \ submitted : ~Finished(t)
        /\ UNCHANGED <<seq, token_ids, running, decode_list, decode_seqs, preempted, batch,
                       later, todo, substeps, oom_preempted>>
    BY DEF QueueInv, seqVars, runnerVars, batchVars, loopVars, stepVars
  <1>2. /\ SeqTypes'
        /\ \A t \in Seqs : Finished(t)' <=> Finished(t)
        /\ \A t \in Seqs : seq'[t].is_prefill = seq[t].is_prefill
    BY <1>1, SameSeq
  <1>3. submitted' \subseteq Seqs /\ submitted \subseteq Seqs
    BY <1>1 DEF QueueTypes
  <1>4. Unfinished' = Unfinished \cup new
    BY <1>1, <1>2, <1>3 DEF Unfinished
  <1>5. new \cap Unfinished = {} /\ decode_seqs = <<>>
    BY <1>1 DEF Unfinished, LoopInv
  <1>6. waiting \in Seq(Seqs) /\ IsInjective(waiting)
    BY <1>1 DEF QueueTypes, QueuesApart
  <1>7. waiting' \in Seq(Seqs) /\ Range(waiting') = Range(waiting) \cup new
    BY <1>6, RangeOfConcat
  <1>8. IsInjective(waiting')
    <2>1. Range(waiting) \cap Range(prompts) = {}
      BY <1>1, <1>5, InQueues
    <2> QED
      BY <1>6, <2>1, InjectiveConcat
  <1>9. QueueTypes'
    BY <1>1, <1>3, <1>7 DEF QueueTypes
  <1>10. QueuesApart'
    BY <1>1, <1>4, <1>5, <1>7, <1>8, InQueues DEF QueuesApart
  <1>11. LoopInv'
    BY <1>1, <1>2, <1>5, <1>7, InQueues, NoLoopNext DEF LoopInv
  <1>12. BatchInv' /\ ChunkInv'
    <2>1. pc' \notin Running \cup Processing
      BY DEF Running, Processing
    <2> QED
      BY <1>1, <2>1, NoBatchNext DEF BatchInv
  <1>13. \A t \in Seqs \ submitted' : ~Finished(t)'
    BY <1>1, <1>2
  <1> QED
    BY <1>1, <1>2, <1>9, <1>10, <1>11, <1>12, <1>13 DEF QueueInv

LEMMA GenerateQueue ==
    ASSUME QueueInv, Generate \/ GenerateRejected
    PROVE  QueueInv'
  <1>1. CASE Generate
    <2>0. PICK new \in SUBSET (Seqs \ submitted) :
             \E prompts \in SetToSeqs(new) :
                waiting' = waiting \o prompts /\ submitted' = submitted \cup new
      BY <1>1 DEF Generate
    <2>1. PICK prompts \in SetToSeqs(new) :
             waiting' = waiting \o prompts /\ submitted' = submitted \cup new
      BY <2>0
    <2>2. IsFiniteSet(new)
      BY PoolAssumption, FS_Subset
    <2>3. prompts \in Seq(new) /\ IsInjective(prompts) /\ Range(prompts) = new
      BY <2>2, OrderingOf
    <2>4. prompts \in Seq(Seqs)
      BY <2>3
    <2> QED
      BY <1>1, <2>1, <2>3, <2>4, NewPrompts DEF Generate
  <1>2. CASE GenerateRejected
    <2>1. PICK s \in Seqs \ submitted :
             waiting' = Append(waiting, s) /\ submitted' = submitted \cup {s}
      BY <1>2 DEF GenerateRejected
    <2>2. PICK prompts : prompts = <<s>>
      OBVIOUS
    <2>3. PICK new : new = {s}
      OBVIOUS
    <2>4. /\ prompts \in Seq(Seqs) /\ IsInjective(prompts) /\ Range(prompts) = new
          /\ new \in SUBSET (Seqs \ submitted)
      BY <2>2, <2>3, RangeOfPair
    <2>5. waiting' = waiting \o prompts /\ submitted' = submitted \cup new
      <3>1. waiting \in Seq(Seqs)
        BY DEF QueueInv, QueueTypes
      <3> QED
        BY <2>1, <2>2, <2>3, <3>1
    <2> QED
      BY <1>2, <2>4, <2>5, NewPrompts DEF GenerateRejected
  <1> QED
    BY <1>1, <1>2

(* The end of a call, and the start of the next step. *)
LEMMA IdleQueue ==
    ASSUME QueueInv, Return \/ Abandon \/ Recover \/ BeginStep
    PROVE  QueueInv'
  <1>1. /\ QueueTypes /\ SeqTypes /\ QueuesApart /\ LoopInv /\ BatchInv
        /\ exception # "KeyError" /\ pc \in {"idle", "raised"}
        /\ \A t \in Seqs \ submitted : ~Finished(t)
        /\ UNCHANGED <<seq, token_ids, waiting, running, oom_preempted, submitted>>
    BY DEF QueueInv, Return, Abandon, Recover, BeginStep, Cleanup, seqVars, queueVars,
           runnerVars, requestVars
  <1>2. /\ SeqTypes' /\ Unfinished' = Unfinished
        /\ \A t \in Seqs \ submitted' : ~Finished(t)'
        /\ \A t \in Seqs : seq'[t].is_prefill = seq[t].is_prefill
    BY <1>1, SameSeq, SameUnfinished
  <1>3. decode_seqs = <<>>
    BY <1>1 DEF LoopInv
  <1>4. /\ decode_seqs' = <<>> /\ UNCHANGED exception
        /\ \/ pc' = "idle" /\ decode_list' \in {decode_list, <<>>}
           \/ pc' = "decode" /\ decode_list' = running /\ preempted' = 0
        /\ \/ UNCHANGED <<batch, later, todo, substeps>>
           \/ batch' = <<>> /\ later' = <<>> /\ todo' = <<>> /\ substeps' = 0
    BY <1>3 DEF Return, Abandon, Recover, BeginStep, Goto, ResetLoop, NoBatch, StartSchedule,
                loopVars, batchVars, stepVars
  <1>5. QueueTypes'
    <2>1. /\ decode_list' \in Seq(Seqs) /\ decode_seqs' \in Seq(Seqs)
          /\ batch' \in Seq(Seqs) /\ later' \in Seq(Seqs) /\ todo' \in Seq(Seqs)
      <3>1. /\ decode_list \in Seq(Seqs) /\ running \in Seq(Seqs) /\ <<>> \in Seq(Seqs)
            /\ batch \in Seq(Seqs) /\ later \in Seq(Seqs) /\ todo \in Seq(Seqs)
        BY <1>1 DEF QueueTypes
      <3> QED
        BY <1>4, <3>1, Zenon
    <2>2. substeps' \in Nat
      BY <1>1, <1>4 DEF QueueTypes
    <2> QED
      BY <1>1, <2>1, <2>2 DEF QueueTypes
  <1>6. QueuesApart'
    BY <1>1, <1>2, <1>3, <1>4 DEF QueuesApart
  <1>7. LoopInv'
    <2>1. \A t \in Range(waiting') \cup (Seqs \ submitted') : seq'[t].is_prefill
      BY <1>1, <1>2, InQueues DEF LoopInv
    <2>2. CASE pc' = "idle"
      BY <1>4, <2>1, <2>2, NoLoopNext
    <2>3. CASE pc' = "decode"
      <3>1. decode_list' = running /\ preempted' = 0 /\ decode_seqs' = <<>>
        BY <1>4, <2>3
      <3>2. IsInjective(running) /\ Range(running) \subseteq Unfinished
        BY <1>1, InQueues DEF QueuesApart
      <3> QED
        BY <1>1, <1>2, <2>1, <3>1, <3>2, EmptyList DEF LoopInv
    <2> QED
      BY <1>4, <2>2, <2>3
  <1>8. BatchInv' /\ ChunkInv'
    <2>1. pc' \notin Running \cup Processing
      BY <1>4 DEF Running, Processing
    <2> QED
      BY <1>1, <1>4, <2>1, NoBatchNext DEF BatchInv
  <1> QED
    BY <1>1, <1>2, <1>4, <1>5, <1>6, <1>7, <1>8 DEF QueueInv

LEMMA QueueStutter == QueueInv /\ UNCHANGED vars => QueueInv'
  <1>1. SUFFICES ASSUME QueueInv, UNCHANGED vars PROVE QueueInv'
    OBVIOUS
  <1>2. /\ UNCHANGED <<seq, token_ids, waiting, running, decode_list, decode_seqs, preempted,
                       pc, exception, batch, batch_is_prefill, later, todo, substeps,
                       oom_preempted, submitted>>
    BY <1>1 DEF vars, seqVars, queueVars, loopVars, batchVars, stepVars, requestVars,
                runnerVars
  <1>3. Unfinished' = Unfinished /\ \A t : Finished(t)' <=> Finished(t)
    BY <1>2 DEF Unfinished, Finished
  <1>4. QueueTypes' <=> QueueTypes
    BY <1>2 DEF QueueTypes
  <1>5. SeqTypes' <=> SeqTypes
    BY <1>2 DEF SeqTypes
  <1>6. QueuesApart' <=> QueuesApart
    BY <1>2, <1>3 DEF QueuesApart
  <1>7. LoopInv' <=> LoopInv
    BY <1>2, <1>3 DEF LoopInv
  <1>8. BatchInv' <=> BatchInv
    BY <1>2, <1>3 DEF BatchInv
  <1>9. ChunkInv' <=> ChunkInv
    BY <1>2 DEF ChunkInv, NumTokens
  <1> QED
    BY <1>1, <1>2, <1>3, <1>4, <1>5, <1>6, <1>7, <1>8, <1>9 DEF QueueInv

LEMMA QueueInitially == EngineInit => QueueInv
  <1>1. SUFFICES ASSUME EngineInit PROVE QueueInv
    OBVIOUS
  <1>2. /\ seq = [s \in Seqs |-> NewSequence] /\ token_ids = [s \in Seqs |-> Prompt[s]]
        /\ waiting = <<>> /\ running = <<>> /\ decode_list = <<>> /\ decode_seqs = <<>>
        /\ pc = "idle" /\ exception = "" /\ submitted = {}
        /\ batch = <<>> /\ later = <<>> /\ todo = <<>> /\ oom_preempted = <<>>
        /\ substeps = 0
    BY <1>1 DEF EngineInit, SequenceInit, RunnerInit, SchedulerInit
  <1>3. QueueTypes
    <2>1. <<>> \in Seq(Seqs) /\ 0 \in Nat
      BY EmptyList
    <2> QED
      BY <1>2, <2>1, Zenon DEF QueueTypes
  <1>4. IsFields(NewSequence) /\ NewSequence.status = "WAITING" /\ NewSequence.is_prefill
    BY DEF IsFields, NewSequence, FieldNames
  <1>5. SeqTypes
    <2>1. \A s \in Seqs : Prompt[s] \in Seq(Nat)
      BY SequenceAssumption
    <2> QED
      BY <1>2, <1>4, <2>1 DEF SeqTypes
  <1>6. \A s \in Seqs : ~Finished(s) /\ seq[s].is_prefill
    BY <1>2, <1>4 DEF Finished
  <1>7. QueuesApart
    BY <1>2, EmptyList DEF QueuesApart, Unfinished
  <1>8. LoopInv
    BY <1>2, <1>6, EmptyList DEF LoopInv
  <1>9. BatchInv /\ ChunkInv
    <2>1. pc = "idle" /\ substeps = 0
      BY <1>2
    <2>2. pc \notin Running \cup Processing \cup {"record", "sample"}
      BY <2>1 DEF Running, Processing
    <2>3. pc # "sample" /\ pc # "advance" /\ pc # "record" /\ ~(substeps > 0)
      BY <2>1
    <2> QED
      BY <2>2, <2>3 DEF BatchInv, ChunkInv
  <1> QED
    BY <1>2, <1>3, <1>5, <1>6, <1>7, <1>8, <1>9 DEF QueueInv

LEMMA QueueStep ==
    QueueInv /\ Undisturbed /\ KeyErrorEnds' /\ [EngineNext]_vars => QueueInv'
  <1>1. SUFFICES ASSUME QueueInv, Undisturbed, KeyErrorEnds', [EngineNext]_vars
                 PROVE  QueueInv'
    OBVIOUS
  <1>2. CASE Schedule
    BY <1>1, <1>2, ScheduleDecodeQueue, SchedulePreemptQueue, AdmitQueue, EndScheduleQueue
       DEF Schedule
  <1>3. CASE Prepare \/ Forward \/ Retry \/ GiveUp \/ Requeue \/ EndRequeue
    BY <1>1, <1>3, RunQueue, RetryQueue, RequeueQueue, EndRequeueQueue
  <1>4. CASE Record \/ Sample \/ Finalize
    BY <1>1, <1>4, RecordQueue, SampleQueue, FinalizeQueue
  <1>5. CASE Advance \/ EndAdvance
    BY <1>1, <1>5, AdvanceQueue, EndAdvanceQueue
  <1>6. CASE Generate \/ GenerateRejected \/ Return \/ Abandon \/ Recover \/ BeginStep
    BY <1>1, <1>6, GenerateQueue, IdleQueue
  <1>7. CASE Stopped \/ UNCHANGED vars
    BY <1>1, <1>7, QueueStutter DEF Stopped
  <1> QED
    BY <1>1, <1>2, <1>3, <1>4, <1>5, <1>6, <1>7 DEF EngineNext, EngineStep

(* A request that was added and has not finished stands in exactly one     *)
(* place of exactly one queue - whatever memory pressure, drops, errors    *)
(* and abandoned calls did - as long as no preempted sequence is scheduled *)
(* as a running one.                                                       *)
THEOREM EachQueuedOnce == EngineSpec /\ []Undisturbed => []QueuedOnce
  <1>1. QueueInv => QueuedOnce
    BY ApartIsOnce DEF QueueInv
  <1> QED
    <2>1. Undisturbed => KeyErrorEnds
      BY DEF Undisturbed
    <2> QED
      BY <1>1, <2>1, QueueInitially, QueueStep, PTL DEF EngineSpec

(* With one decode per step, at most one preemption in a round (fewer than *)
(* eight sequences) and no call after a failed one, nothing disturbs the   *)
(* engine: the only fault left is the KeyError, which ends it.             *)
PlainEngine == NumSchedulerSteps = 1 /\ MaxNumSeqs < 8 /\ ~ServeAfterError

LEMMA NeverDisturbed == ASSUME PlainEngine PROVE EngineSpec => []Undisturbed
  <1>1. MaxPreemptCount = 1
    <2>1. MaxNumSeqs \div 4 \in 0 .. 1
      BY RunnerAssumption DEF PlainEngine
    <2>2. {1, MaxNumSeqs \div 4} \in SUBSET (0 .. 1)
      BY <2>1
    <2>3. /\ Max({1, MaxNumSeqs \div 4}) \in {1, MaxNumSeqs \div 4}
          /\ \A i \in {1, MaxNumSeqs \div 4} : i <= Max({1, MaxNumSeqs \div 4})
      BY <2>2, LargestOf
    <2> QED
      BY <2>1, <2>3 DEF MaxPreemptCount
  <1>2. QueueInv => Undisturbed
    <2>1. SUFFICES ASSUME QueueInv PROVE PreemptsForRunning /\ AdvancesRunning
      BY DEF Undisturbed, KeyErrorEnds, PlainEngine
    <2>2. PreemptsForRunning
      <3>1. SUFFICES ASSUME pc = "decode", decode_list # <<>>, preempted < MaxPreemptCount
                     PROVE  Head(decode_list) \in Range(running)
        BY DEF PreemptsForRunning
      <3>2. decode_list \in Seq(Seqs) /\ LoopInv
        BY <2>1, <3>1 DEF QueueInv, QueueTypes
      <3>3. Head(decode_list) \in Range(decode_list)
        BY <3>1, <3>2, HeadAndTail
      <3>4. preempted = 0
        BY <1>1, <3>1, <3>2 DEF LoopInv
      <3> QED
        BY <3>1, <3>2, <3>3, <3>4 DEF LoopInv
    <2>3. AdvancesRunning
      <3>1. SUFFICES ASSUME pc = "advance" PROVE FALSE
        BY DEF AdvancesRunning
      <3>2. BatchInv
        BY <2>1, <3>1 DEF QueueInv
      <3> QED
        BY <3>1, <3>2 DEF BatchInv, PlainEngine
    <2> QED
      BY <2>2, <2>3
  <1>3. KeyErrorEnds'
    BY DEF KeyErrorEnds, PlainEngine
  <1>4. QueueInv /\ [EngineNext]_vars => QueueInv'
    BY <1>2, <1>3, QueueStep
  <1> QED
    BY <1>2, <1>4, QueueInitially, PTL DEF EngineSpec

(* Such an engine keeps every request queued once, without a premise.      *)
THEOREM EachQueuedOnceInPlainEngine ==
    ASSUME PlainEngine PROVE EngineSpec => []QueuedOnce
  BY NeverDisturbed, EachQueuedOnce, PTL

-----------------------------------------------------------------------------
(* What the steps of the engine do to blocks and caches. *)

SameRequests == UNCHANGED token_ids /\ \A t \in Seqs : Finished(t)' <=> Finished(t)
SameCaches == UNCHANGED <<cacheVars, prefix_state_cache>>

Quiet == UNCHANGED poolVars /\ SameCaches /\ SameRequests
Grows(s) == MayAppend(s, NumTokens(s)) /\ SameCaches /\ SameRequests
Admits == (AdmitShared \/ AdmitFresh) /\ Candidate \in Unfinished /\ SameRequests
Releases(s) == ReleaseBlocks(s) /\ SameRequests
Records(s) == RecordProgress(s) /\ UNCHANGED poolVars /\ SameRequests
Restores == PrepareStates /\ UNCHANGED <<poolVars, cacheVars>> /\ SameRequests
Samples(s) ==
    /\ \E token \in Vocab : token_ids' = [token_ids EXCEPT ![s] = Append(@, token)]
    /\ \A t \in Seqs : t # s => (Finished(t)' <=> Finished(t))
    /\ \/ Finished(s)' /\ ReleaseBlocks(s)
       \/ /\ ~Finished(s)' /\ UNCHANGED poolVars /\ SameCaches
          /\ Len(token_ids[s]) + 1 - Len(Prompt[s]) < MaxTokens[s]

MemoryStep ==
    \/ Quiet
    \/ Admits
    \/ Restores
    \/ \E s \in Unfinished : Grows(s) \/ Releases(s) \/ Records(s) \/ Samples(s)

LEMMA QuietStep ==
    ASSUME UNCHANGED <<poolVars, cacheVars, prefix_state_cache, seq, token_ids>>
    PROVE  Quiet
  BY DEF Quiet, SameCaches, SameRequests, Finished

LEMMA PreemptReleases ==
    ASSUME QueueInv, exception # "KeyError", running # <<>>, NEW s, TryPreempt(s)
    PROVE  \E v \in Unfinished : Releases(v)
  <1>1. QueueTypes /\ SeqTypes /\ QueuesApart
    BY DEF QueueInv
  <1>2. PICK v : v = Last(running)
    OBVIOUS
  <1>3. v \in Unfinished /\ v \in Seqs
    BY <1>1, <1>2, LastOfRunning, InQueues
  <1>4. /\ seq' = [seq EXCEPT ![v] = Recomputed(@)] /\ ReleaseBlocks(v)
        /\ UNCHANGED token_ids
    BY <1>2 DEF TryPreempt, PreemptSeq
  <1>5. SameRequests
    BY <1>1, <1>3, <1>4, PreemptedSeq DEF SameRequests, Finished, Unfinished
  <1> QED
    BY <1>3, <1>4, <1>5 DEF Releases

LEMMA ScheduleMemory ==
    ASSUME QueueInv, Undisturbed, Schedule
    PROVE  MemoryStep
  <1>1. /\ QueueTypes /\ SeqTypes /\ QueuesApart /\ LoopInv /\ exception # "KeyError"
        /\ \A t \in Seqs \ submitted : ~Finished(t)
    BY DEF QueueInv, Schedule, ScheduleDecode, SchedulePreempt, EndDecode, AdmitShared,
           AdmitFresh, EndSchedule, ScheduleChunk, ScheduleNoChunk
  <1>2. CASE ScheduleDecode
    <2>1. PICK s : s = Head(decode_list)
      OBVIOUS
    <2>2. /\ MayAppend(s, NumTokens(s)) /\ UNCHANGED token_ids /\ SameCaches
          /\ seq' = [seq EXCEPT ![s].num_scheduled_tokens = 1, ![s].is_prefill = FALSE]
      BY <1>2, <2>1 DEF ScheduleDecode, SameCaches, runnerVars
    <2>3. s \in Unfinished /\ s \in Seqs
      <3>1. decode_list \in Seq(Seqs) /\ decode_list # <<>>
        BY <1>1, <1>2 DEF QueueTypes, ScheduleDecode
      <3>2. s \in Range(decode_list)
        BY <2>1, <3>1, HeadAndTail
      <3> QED
        BY <1>1, <1>2, <3>2, InQueues DEF LoopInv, ScheduleDecode
    <2>4. SameRequests
      BY <1>1, <2>2, <2>3, DecodingSeq DEF SameRequests
    <2> QED
      BY <2>2, <2>3, <2>4 DEF MemoryStep, Grows
  <1>3. CASE SchedulePreempt
    <2>1. running # <<>>
      BY <1>3, EmptyList DEF SchedulePreempt, Undisturbed, PreemptsForRunning
    <2> QED
      BY <1>1, <1>3, <2>1, PreemptReleases DEF SchedulePreempt, MemoryStep
  <1>4. CASE EndDecode
    BY <1>4, QuietStep DEF EndDecode, MemoryStep, seqVars, runnerVars
  <1>5. CASE AdmitShared \/ AdmitFresh
    <2>1. PICK s : s = Candidate
      OBVIOUS
    <2>2. s \in Seqs /\ s \in Unfinished
      BY <1>1, <1>5, <2>1, HeadOfWaiting, InQueues
         DEF AdmitShared, AdmitFresh, Fresher, MayPrefill
    <2>3. MatchedTokens(token_ids[s]) \in Nat /\ UNCHANGED token_ids
      BY <1>1, <1>5, <2>2, MatchedIsNat DEF SeqTypes, AdmitShared, AdmitFresh
    <2>4. \E n \in Nat : \E chain :
            \/ seq' = [seq EXCEPT ![s].num_cached_tokens = n,
                                  ![s].prefix_restore_blocks = chain]
            \/ seq' = [seq EXCEPT ![s].num_cached_tokens = n]
      <3>1. CASE AdmitShared
        BY <2>1, <2>3, <3>1 DEF AdmitShared
      <3>2. CASE AdmitFresh
        BY <2>1, <3>2 DEF AdmitFresh
      <3> QED
        BY <1>5, <3>1, <3>2
    <2>5. SameRequests
      BY <1>1, <2>2, <2>3, <2>4, AdmittedSeq DEF SameRequests
    <2> QED
      BY <1>5, <2>1, <2>2, <2>5 DEF Admits, MemoryStep
  <1>6. CASE EndSchedule
    <2>1. UNCHANGED <<poolVars, cacheVars, prefix_state_cache, token_ids>>
      BY <1>6 DEF EndSchedule, ScheduleChunk, ScheduleNoChunk, seqVars
    <2>2. SameRequests
      <3>1. CASE ScheduleChunk
        <4>1. PICK s : s = Candidate
          OBVIOUS
        <4>2. PICK last \in BOOLEAN :
                 last <=> seq[s].num_cached_tokens + Chunk(s) >= NumTokens(s)
          <5>1. CASE seq[s].num_cached_tokens + Chunk(s) >= NumTokens(s)
            BY <5>1, Zenon
          <5>2. CASE ~(seq[s].num_cached_tokens + Chunk(s) >= NumTokens(s))
            BY <5>2, Zenon
          <5> QED
            BY <5>1, <5>2
        <4>3. s \in Seqs /\ ~Finished(s)
          BY <1>1, <3>1, <4>1, HeadOfWaiting, InQueues
             DEF ScheduleChunk, MayPrefill, Unfinished
        <4>4. PICK n \in Nat : n = Chunk(s)
          BY <1>1, <3>1, <4>1, <4>3, ChunkIsNat DEF ScheduleChunk, QueueTypes
        <4>5. seq' = [seq EXCEPT ![s].num_scheduled_tokens = n,
                                 ![s].status = IF last THEN "RUNNING" ELSE @]
          BY <3>1, <4>1, <4>2, <4>4 DEF ScheduleChunk
        <4> QED
          BY <1>1, <2>1, <4>3, <4>5, ScheduledSeq DEF SameRequests
      <3>2. CASE ScheduleNoChunk
        BY <2>1, <3>2 DEF ScheduleNoChunk, SameRequests, Finished, seqVars
      <3> QED
        BY <1>6, <3>1, <3>2 DEF EndSchedule
    <2> QED
      BY <2>1, <2>2 DEF MemoryStep, Quiet, SameCaches
  <1> QED
    BY <1>2, <1>3, <1>4, <1>5, <1>6 DEF Schedule

LEMMA BatchMemory ==
    ASSUME QueueInv, Undisturbed, Prepare \/ Requeue \/ Record \/ Sample \/ Advance
    PROVE  MemoryStep
  <1>1. /\ QueueTypes /\ SeqTypes /\ QueuesApart /\ LoopInv /\ BatchInv /\ ChunkInv
        /\ exception # "KeyError" /\ pc \in Running \cup Processing
    BY DEF QueueInv, Prepare, Requeue, Record, Sample, Advance, Running, Processing
  <1>2. CASE Prepare
    <2>1. CASE SlotsSuffice
      <3>1. PICK members : members = Range(batch)
        OBVIOUS
      <3>2. /\ PrepareStates /\ UNCHANGED <<poolVars, cacheVars, token_ids>>
            /\ seq' = [s \in Seqs |-> IF s \in members
                                      THEN [seq[s] EXCEPT !.prefix_restore_blocks = None]
                                      ELSE seq[s]]
        BY <1>2, <2>1, <3>1 DEF Prepare, PrepareStates
      <3> QED
        BY <1>1, <3>2, RestoredSeq DEF MemoryStep, Restores, SameRequests
    <2>2. CASE ~SlotsSuffice
      BY <1>2, <2>2, QuietStep DEF Prepare, MemoryStep
    <2> QED
      BY <2>1, <2>2
  <1>3. CASE Requeue
    <2>1. PICK s : s = Head(oom_preempted)
      OBVIOUS
    <2>2. /\ seq' = [seq EXCEPT ![s] = Recomputed(@)] /\ ReleaseBlocks(s)
          /\ UNCHANGED token_ids
      BY <1>3, <2>1 DEF Requeue
    <2>3. s \in Unfinished /\ s \in Seqs
      <3>1. oom_preempted \in Seq(Seqs) /\ oom_preempted # <<>> /\ pc \in Running
        BY <1>1, <1>3 DEF QueueTypes, Requeue, Running
      <3>2. s \in Range(oom_preempted)
        BY <2>1, <3>1, HeadAndTail
      <3> QED
        BY <1>1, <3>1, <3>2, InQueues DEF BatchInv
    <2>4. SameRequests
      BY <1>1, <2>2, <2>3, PreemptedSeq DEF SameRequests, Finished, Unfinished
    <2> QED
      BY <2>2, <2>3, <2>4 DEF Releases, MemoryStep
  <1>4. CASE Record \/ Sample \/ (Advance /\ todo # <<>>)
    <2>1. PICK s : s = Head(todo)
      OBVIOUS
    <2>2. /\ s \in Seqs /\ s \in Unfinished /\ s \in Range(batch)
          /\ s \notin Range(waiting) => s \in Range(running)
      <3>1. pc \in Processing /\ todo # <<>>
        BY <1>1, <1>4 DEF BatchInv, Processing, Record, Sample, Advance
      <3> QED
        BY <1>1, <2>1, <3>1, HeadOfTodo
    <2>3. CASE Record
      <3>1. RecordProgress(s) /\ UNCHANGED <<poolVars, token_ids>>
        BY <2>1, <2>3 DEF Record
      <3>2. PICK cached : cached = seq[s].num_cached_tokens + seq[s].num_scheduled_tokens
        OBVIOUS
      <3>3. seq' = [seq EXCEPT ![s].num_cached_tokens = cached,
                               ![s].num_scheduled_tokens = 0]
        BY <3>1, <3>2 DEF RecordProgress
      <3>4. SameRequests
        BY <1>1, <2>2, <3>1, <3>2, <3>3, RecordedSeq DEF SameRequests
      <3> QED
        BY <2>2, <3>1, <3>4 DEF Records, MemoryStep
    <2>4. CASE Sample
      <3>1. CASE StillPrefilling(s)
        BY <2>1, <2>4, <3>1, QuietStep DEF Sample, MemoryStep, seqVars
      <3>2. CASE ~StillPrefilling(s)
        <4>1. PICK token \in Vocab, ends \in BOOLEAN :
                /\ token_ids' = [token_ids EXCEPT ![s] = Append(@, token)]
                /\ IF ends \/ NumCompletion(s) + 1 >= MaxTokens[s]
                   THEN Finish(s)
                   ELSE UNCHANGED <<seq, poolVars, cacheVars, prefix_state_cache, running>>
          BY <2>1, <2>4, <3>2 DEF Sample, AppendToken
        <4>2. CASE Finish(s)
          <5>1. seq' = [seq EXCEPT ![s].status = "FINISHED"] /\ ReleaseBlocks(s)
            BY <4>2 DEF Finish
          <5>2. Finished(s)' /\ \A t \in Seqs : t # s => (Finished(t)' <=> Finished(t))
            BY <1>1, <2>2, <5>1, FinishedSeq DEF Finished
          <5> QED
            BY <2>2, <4>1, <5>1, <5>2 DEF Samples, MemoryStep
        <4>3. CASE ~Finish(s)
          <5>1. /\ UNCHANGED <<seq, poolVars, cacheVars, prefix_state_cache>>
                /\ ~(NumCompletion(s) + 1 >= MaxTokens[s])
            BY <4>1, <4>3
          <5>2. Len(token_ids[s]) + 1 - Len(Prompt[s]) < MaxTokens[s]
            <6>1. /\ Len(token_ids[s]) \in Nat /\ Len(Prompt[s]) \in Nat
                  /\ MaxTokens[s] \in Nat
              BY <1>1, <2>2, SequenceAssumption DEF SeqTypes
            <6>2. PICK n, p, m \in Nat :
                     n = Len(token_ids[s]) /\ p = Len(Prompt[s]) /\ m = MaxTokens[s]
              BY <6>1
            <6>3. ~((n - p) + 1 >= m)
              BY <5>1, <6>2 DEF NumCompletion, NumTokens
            <6>4. n + 1 - p < m
              BY <6>3
            <6> QED
              BY <6>2, <6>4
          <5>3. \A t \in Seqs : Finished(t)' <=> Finished(t)
            BY <5>1 DEF Finished
          <5>4. ~Finished(s)'
            BY <2>2, <5>3 DEF Unfinished
          <5> QED
            BY <2>2, <4>1, <5>1, <5>2, <5>3, <5>4 DEF Samples, MemoryStep, SameCaches
        <4> QED
          BY <4>2, <4>3
      <3> QED
        BY <3>1, <3>2
    <2>5. CASE Advance
      <3>1. CASE AdvancePreempt(s)
        <4>1. s \in Range(running)
          BY <1>1, <2>2, <2>5 DEF Undisturbed, AdvancesRunning, Advance
        <4> QED
          BY <1>1, <3>1, <4>1, PreemptReleases, EmptyList DEF AdvancePreempt, MemoryStep
      <3>2. CASE AdvanceAppend(s) /\ UNCHANGED <<token_ids, cacheVars, runnerVars>>
        <4>1. /\ seq' = [seq EXCEPT ![s].num_scheduled_tokens = 1, ![s].is_prefill = FALSE]
              /\ MayAppend(s, NumTokens(s)) /\ UNCHANGED token_ids /\ SameCaches
          BY <3>2 DEF AdvanceAppend, SameCaches, runnerVars
        <4>2. SameRequests
          BY <1>1, <2>2, <4>1, DecodingSeq DEF SameRequests
        <4> QED
          BY <2>2, <4>1, <4>2 DEF Grows, MemoryStep
      <3>3. CASE UNCHANGED <<poolVars, seqVars, cacheVars, runnerVars>>
        BY <3>3, QuietStep DEF MemoryStep, seqVars, runnerVars
      <3> QED
        BY <2>1, <2>5, <3>1, <3>2, <3>3 DEF Advance
    <2> QED
      BY <1>4, <2>3, <2>4, <2>5
  <1> QED
    BY <1>2, <1>3, <1>4 DEF Advance

LEMMA MemorySteps ==
    ASSUME QueueInv, Undisturbed, [EngineNext]_vars
    PROVE  MemoryStep
  <1>1. CASE Schedule
    BY <1>1, ScheduleMemory
  <1>2. CASE Prepare \/ Requeue \/ Record \/ Sample \/ Advance
    BY <1>2, BatchMemory
  <1>3. CASE \/ Generate \/ GenerateRejected \/ BeginStep \/ Forward \/ Retry \/ GiveUp
             \/ EndRequeue \/ EndAdvance \/ Finalize \/ Return \/ Abandon \/ Recover
             \/ Stopped \/ UNCHANGED vars
    <2>1. UNCHANGED <<poolVars, cacheVars, prefix_state_cache, seq, token_ids>>
      BY <1>3 DEF Generate, GenerateRejected, BeginStep, Forward, Retry, GiveUp,
                  EndRequeue, EndAdvance, Finalize, Return, Abandon, Recover, Stopped, vars,
                  seqVars, runnerVars, OutOfMemory
    <2> QED
      BY <2>1, QuietStep DEF MemoryStep
  <1> QED
    BY <1>1, <1>2, <1>3 DEF EngineNext, EngineStep

-----------------------------------------------------------------------------
(* The invariant of the memory: what the engine knows of a block table,    *)
(* of a node of the trie and of a snapshot when it adopts a prefix.        *)

IsList(q) == q \in Seq(Range(q))

(* A request grows to its limit and no further. *)
TokensWithin ==
    \A s \in Seqs :
        /\ Len(Prompt[s]) <= NumTokens(s) /\ NumTokens(s) <= Len(Prompt[s]) + MaxTokens[s]
        /\ ~Finished(s) => NumTokens(s) < Len(Prompt[s]) + MaxTokens[s]

(* A node remembers one block for each block of its tokens. *)
TrieDepth ==
    \A p \in DOMAIN trie : Len(trie[p]) = Len(p) \div BlockSize

(* A snapshot's blocks stand at the start of a table. *)
KeysLive ==
    /\ IsList(prefix_state_cache)
    /\ \A e \in Range(prefix_state_cache) : e.key = <<>> \/ e.key \in Chains

NoneHeld == \A s \in Seqs : Finished(s) => block_table[s] = <<>>

MemInv == PoolInv /\ TokensWithin /\ TrieDepth /\ KeysLive /\ NoneHeld

-----------------------------------------------------------------------------
(* Arithmetic and lists. *)

LEMMA DivOfProduct == \A k \in Nat, b \in Nat \ {0} : (k * b) \div b = k
  OBVIOUS

LEMMA DivTimes == \A a, k \in Nat, b \in Nat \ {0} : k <= a \div b => k * b <= a
  OBVIOUS

LEMMA DivRoundsUp == \A a \in Nat, b \in Nat \ {0} : a \div b <= (a + b - 1) \div b
  OBVIOUS

LEMMA OfItsRange ==
    ASSUME NEW T, NEW q \in Seq(T)
    PROVE  IsList(q) /\ Range(q) \subseteq T
  BY DEF IsList, Range

LEMMA StartOfConcat ==
    ASSUME NEW T, NEW q \in Seq(T), NEW r \in Seq(T), NEW k \in 1 .. Len(q)
    PROVE  SubSeq(q \o r, 1, k) = SubSeq(q, 1, k) /\ Len(q) <= Len(q \o r)
  OBVIOUS

LEMMA SmallerOf ==
    ASSUME NEW m \in Nat, NEW n \in Nat
    PROVE  /\ Min({m, n}) \in Nat /\ Min({m, n}) <= m /\ Min({m, n}) <= n
           /\ Min({m, n}) = m \/ Min({m, n}) = n
  BY SmallestOf

-----------------------------------------------------------------------------
(* Chains.  Blocks that are taken extend tables; a release leaves a chain  *)
(* whole unless it gives one of its blocks back, for the last of them then *)
(* stands in another table behind the same blocks.                         *)

LEMMA ChainsGrow ==
    ASSUME PoolInv, NEW s \in Seqs, NEW shared \in Seq(Blocks), NEW n \in Nat,
           TakeBlocks(s, shared, n)
    PROVE  Chains \subseteq Chains'
  <1>1. PICK q, p : q = block_table[s] /\ p = Popped(n)
    OBVIOUS
  <1>2. q \in Seq(Blocks) /\ p \in Seq(Blocks) /\ block_table \in [Seqs -> Seq(Blocks)]
    BY <1>1, PopSplits DEF TakeBlocks, PoolInv, PoolTypeOK
  <1>3. /\ block_table'[s] = (q \o shared) \o p
        /\ \A t \in Seqs : t # s => block_table'[t] = block_table[t]
    BY <1>1, <1>2 DEF TakeBlocks
  <1>4. SUFFICES ASSUME NEW t \in Seqs, NEW k \in 1 .. Len(block_table[t])
                 PROVE  SubSeq(block_table[t], 1, k) \in Chains'
    BY DEF Chains
  <1>5. CASE t # s
    BY <1>3, <1>4, <1>5 DEF Chains
  <1>6. CASE t = s
    <2>1. q \o shared \in Seq(Blocks)
      BY <1>2
    <2>2. SubSeq(q \o shared, 1, k) = SubSeq(q, 1, k) /\ Len(q) <= Len(q \o shared)
      BY <1>1, <1>2, <1>4, <1>6, StartOfConcat
    <2>3. k \in 1 .. Len(q \o shared)
      BY <1>1, <1>4, <1>6, <2>1, <2>2
    <2>4. /\ SubSeq((q \o shared) \o p, 1, k) = SubSeq(q \o shared, 1, k)
          /\ Len(q \o shared) <= Len((q \o shared) \o p)
      BY <1>2, <2>1, <2>3, StartOfConcat
    <2>5. (q \o shared) \o p \in Seq(Blocks)
      BY <1>2, <2>1
    <2>6. k \in 1 .. Len(block_table'[s])
      BY <1>3, <2>1, <2>3, <2>4, <2>5
    <2>7. SubSeq(block_table[t], 1, k) = SubSeq(block_table'[s], 1, k)
      BY <1>1, <1>3, <1>6, <2>2, <2>4
    <2> QED
      BY <2>6, <2>7 DEF Chains
  <1> QED
    BY <1>5, <1>6

LEMMA ReleaseKeepsChains ==
    ASSUME PoolInv, NEW s \in Seqs, Deallocate(s),
           NEW chain \in Chains, Range(chain) \cap OnlyHeldBy(s) = {}
    PROVE  chain \in Chains'
  <1>1. PICK t \in Seqs : \E k \in 1 .. Len(block_table[t]) :
           chain = SubSeq(block_table[t], 1, k)
    BY DEF Chains
  <1>0. PICK k \in 1 .. Len(block_table[t]) : chain = SubSeq(block_table[t], 1, k)
    BY <1>1
  <1>2. /\ block_table \in [Seqs -> Seq(Blocks)]
        /\ \A u \in Seqs : u # s => block_table'[u] = block_table[u]
    BY DEF PoolInv, PoolTypeOK, Deallocate
  <1>3. CASE t # s
    BY <1>0, <1>2, <1>3, SMTT(20) DEF Chains
  <1>4. CASE t = s
    <2>1. PICK b : b = block_table[s][k]
      OBVIOUS
    <2>2. /\ b \in Range(block_table[s]) /\ b \in Blocks
          /\ b \in Range(chain)
      <3>1. block_table[s] \in Seq(Blocks) /\ k \in 1 .. Len(block_table[s])
        BY <1>0, <1>2, <1>4
      <3>2. chain[k] = block_table[s][k] /\ k \in DOMAIN chain
        BY <1>0, <1>4, <3>1
      <3> QED
        BY <2>1, <3>1, <3>2 DEF Range
    <2>3. ref_count[b] > 1
      <3>1. b \notin OnlyHeldBy(s)
        BY <2>2
      <3>2. ref_count[b] \in Nat
        BY <2>2 DEF PoolInv, PoolTypeOK
      <3> QED
        BY <2>2, <3>1, <3>2 DEF OnlyHeldBy
    <2>4. PICK u \in Seqs : u # s /\ b \in Range(block_table[u])
      <3>1. Cardinality(Holders(b)) # 1 /\ s \in Holders(b)
        BY <2>2, <2>3 DEF PoolInv, RefCountExact, Holders
      <3>2. Cardinality({s}) = 1
        BY FS_Singleton
      <3>3. Holders(b) # {s}
        BY <3>1, <3>2, Zenon
      <3> QED
        BY <3>1, <3>3 DEF Holders
    <2>5. PICK j \in DOMAIN block_table[u] : block_table[u][j] = b
      BY <2>4 DEF Range
    <2>6. /\ k \in DOMAIN block_table[s] /\ block_table[s][k] = block_table[u][j]
          /\ block_table[s] \in Seq(Blocks) /\ block_table[u] \in Seq(Blocks)
      BY <1>0, <1>2, <1>4, <2>1, <2>4, <2>5
    <2>7. k = j /\ \A i \in 1 .. k : block_table[s][i] = block_table[u][i]
      BY <2>4, <2>5, <2>6 DEF PoolInv, SharedFromStart
    <2>8. k \in 1 .. Len(block_table[u])
      BY <2>5, <2>6, <2>7
    <2>9. SubSeq(block_table[s], 1, k) = SubSeq(block_table[u], 1, k)
      BY <1>0, <1>4, <2>6, <2>7, <2>8
    <2>10. block_table'[u] = block_table[u]
      BY <1>2, <2>4
    <2> QED
      BY <1>0, <1>4, <2>4, <2>8, <2>9, <2>10 DEF Chains
  <1> QED
    BY <1>3, <1>4

-----------------------------------------------------------------------------
(* The trie and the snapshots. *)

LEMMA BoundaryDepth ==
    ASSUME NEW T, NEW tokens \in Seq(T), NEW k \in Nat, k <= FullBlocks(tokens)
    PROVE  /\ Boundary(tokens, k) \in Seq(T)
           /\ Len(Boundary(tokens, k)) = k * BlockSize
           /\ Len(Boundary(tokens, k)) \div BlockSize = k
  <1>1. BlockSize \in Nat \ {0} /\ Len(tokens) \in Nat
    BY PoolAssumption DEF PoolAssumption
  <1>2. k * BlockSize <= Len(tokens)
    BY <1>1, DivTimes DEF FullBlocks
  <1>3. k * BlockSize \in Nat
    BY <1>1
  <1>4. /\ SubSeq(tokens, 1, k * BlockSize) \in Seq(T)
        /\ Len(SubSeq(tokens, 1, k * BlockSize)) = k * BlockSize
    BY <1>2, <1>3
  <1> QED
    BY <1>1, <1>4, DivOfProduct DEF Boundary

LEMMA HitFits ==
    ASSUME TrieDepth, NEW T, NEW tokens \in Seq(T), LongestPrefix(tokens) # <<>>
    PROVE  /\ Len(LongestPrefix(tokens)) \in Nat
           /\ Len(LongestPrefix(tokens)) <= BlocksFor(Len(tokens))
  <1>1. /\ BlockSize \in Nat \ {0} /\ Len(tokens) \in Nat
        /\ Matches(tokens) # {}
        /\ LongestPrefix(tokens) = trie[Boundary(tokens, Max(Matches(tokens)))]
    BY PoolAssumption DEF PoolAssumption, LongestPrefix
  <1>2. PICK n \in Nat : n = FullBlocks(tokens)
    BY <1>1 DEF FullBlocks
  <1>3. Matches(tokens) \in SUBSET (0 .. n)
    BY <1>2 DEF Matches
  <1>4. Max(Matches(tokens)) \in Matches(tokens)
    BY <1>1, <1>2, <1>3, LargestOf
  <1>5. PICK k : k = Max(Matches(tokens))
    OBVIOUS
  <1>6. k \in Nat /\ k <= n /\ Boundary(tokens, k) \in DOMAIN trie
    BY <1>2, <1>4, <1>5 DEF Matches
  <1>7. Len(LongestPrefix(tokens)) = k
    BY <1>1, <1>2, <1>5, <1>6, BoundaryDepth DEF TrieDepth
  <1>8. FullBlocks(tokens) <= BlocksFor(Len(tokens))
    BY <1>1, DivRoundsUp DEF FullBlocks, BlocksFor
  <1>9. PICK f : f = BlocksFor(Len(tokens))
    OBVIOUS
  <1>10. f \in Nat
    BY <1>1, <1>9 DEF BlocksFor
  <1> QED
    BY <1>2, <1>6, <1>7, <1>8, <1>9, <1>10

LEMMA AddPrefixDepth ==
    ASSUME TrieDepth, NEW T, NEW tokens \in Seq(T), NEW S, NEW table \in Seq(S),
           AddPrefix(tokens, table)
    PROVE  TrieDepth'
  <1>1. PICK n : n = Min({FullBlocks(tokens), Len(table)})
    OBVIOUS
  <1>2. FullBlocks(tokens) \in Nat /\ Len(table) \in Nat
    BY PoolAssumption DEF PoolAssumption, FullBlocks
  <1>3. n \in Nat /\ n <= FullBlocks(tokens) /\ n <= Len(table)
    BY <1>1, <1>2, SmallerOf
  <1>4. PICK nodes : nodes = {Boundary(tokens, k) : k \in 1 .. n}
    OBVIOUS
  <1>5. trie' = [p \in DOMAIN trie \cup nodes |->
                    IF p \in nodes THEN SubSeq(table, 1, Len(p) \div BlockSize)
                    ELSE trie[p]]
    BY <1>1, <1>4 DEF AddPrefix
  <1>6. SUFFICES ASSUME NEW p \in DOMAIN trie'
                 PROVE  Len(trie'[p]) = Len(p) \div BlockSize
    BY DEF TrieDepth
  <1>7. CASE p \in nodes
    <2>1. PICK k \in 1 .. n : p = Boundary(tokens, k)
      BY <1>4, <1>7
    <2>2. k \in Nat /\ k <= FullBlocks(tokens) /\ k <= Len(table)
      BY <1>2, <1>3
    <2>3. Len(p) \div BlockSize = k
      BY <2>1, <2>2, BoundaryDepth
    <2>4. Len(SubSeq(table, 1, k)) = k
      BY <2>2
    <2> QED
      BY <1>5, <1>6, <1>7, <2>3, <2>4
  <1>8. CASE p \notin nodes
    BY <1>5, <1>6, <1>8 DEF TrieDepth
  <1> QED
    BY <1>7, <1>8

LEMMA EvictBlocksDepth ==
    ASSUME TrieDepth, NEW freed, EvictBlocks(freed)
    PROVE  TrieDepth'
  BY DEF TrieDepth, EvictBlocks, Restrict

LEMMA TouchedWithin ==
    ASSUME NEW cache, IsList(cache), NEW T, NEW chains \in Seq(T)
    PROVE  /\ IsList(Touched(cache, chains))
           /\ Range(Touched(cache, chains)) \subseteq Range(cache)
  <1>1. PICK others, lasts, moved :
          /\ others = Only(cache, {e \in Range(cache) : e.key \notin Range(chains)})
          /\ lasts = {i \in DOMAIN chains :
                        /\ chains[i] \in Keys(cache)
                        /\ \A j \in DOMAIN chains : j > i => chains[j] # chains[i]}
          /\ moved = [k \in 1 .. Cardinality(lasts) |->
                        CHOOSE e \in Range(cache) : e.key = chains[Nth(lasts, k)]]
    OBVIOUS
  <1>2. Touched(cache, chains) = others \o moved
    BY <1>1 DEF Touched
  <1>3. cache \in Seq(Range(cache))
    BY DEF IsList
  <1>4. others \in Seq(Range(cache))
    BY <1>1, <1>3, OnlyKeeps
  <1>5. Len(chains) \in Nat /\ lasts \in SUBSET (1 .. Len(chains))
    BY <1>1
  <1>6. /\ Cardinality(lasts) \in Nat
        /\ \A k \in 1 .. Cardinality(lasts) : Nth(lasts, k) \in lasts
    BY <1>5, NthListsSet
  <1>7. \A i \in lasts : (CHOOSE e \in Range(cache) : e.key = chains[i]) \in Range(cache)
    <2>1. TAKE i \in lasts
    <2>2. chains[i] \in Keys(cache)
      BY <1>1, <2>1
    <2>3. PICK j \in DOMAIN cache : chains[i] = cache[j].key
      BY <2>2 DEF Keys
    <2>4. \E e \in Range(cache) : e.key = chains[i]
      BY <2>3 DEF Range
    <2> QED
      BY <2>4
  <1>8. moved \in Seq(Range(cache))
    <2>1. PICK m \in Nat : m = Cardinality(lasts)
      BY <1>6
    <2>2. moved \in [1 .. m -> Range(cache)]
      BY <1>1, <1>6, <1>7, <2>1
    <2> QED
      BY <2>1, <2>2
  <1>9. others \o moved \in Seq(Range(cache))
    BY <1>4, <1>8
  <1> QED
    BY <1>2, <1>9, OfItsRange

LEMMA SavedWithin ==
    ASSUME IsList(prefix_state_cache), NEW s, NEW chain, SaveState(s, chain)
    PROVE  /\ IsList(prefix_state_cache')
           /\ Range(prefix_state_cache') \subseteq
                Range(prefix_state_cache) \cup {[key |-> chain, state |-> State(s)]}
  <1>1. PICK cache, e : cache = prefix_state_cache
                        /\ e = [key |-> chain, state |-> State(s)]
    OBVIOUS
  <1>2. cache \in Seq(Range(cache))
    BY <1>1 DEF IsList
  <1>3. CASE HasState(chain)
    <2>1. prefix_state_cache' = Touched(cache, <<chain>>)
      BY <1>1, <1>3 DEF SaveState
    <2>2. <<chain>> \in Seq({chain})
      OBVIOUS
    <2> QED
      BY <1>1, <2>1, <2>2, TouchedWithin
  <1>4. CASE ~HasState(chain) /\ ~HasSlot(s)
    BY <1>4 DEF SaveState
  <1>5. CASE ~HasState(chain) /\ HasSlot(s)
    <2>1. PICK T, all : T = Range(cache) \cup {e} /\ all = Append(cache, e)
      OBVIOUS
    <2>2. all \in Seq(T) /\ all # <<>>
      <3>1. Range(cache) \subseteq T /\ e \in T
        BY <2>1
      <3>2. cache \in Seq(T)
        BY <1>2, <3>1
      <3> QED
        BY <2>1, <3>1, <3>2
    <2>3. Tail(all) \in Seq(T)
      BY <2>2
    <2>4. prefix_state_cache' = IF Len(all) > MaxPrefixStates THEN Tail(all) ELSE all
      BY <1>1, <1>5, <2>1 DEF SaveState
    <2>5. prefix_state_cache' \in Seq(T)
      BY <2>2, <2>3, <2>4
    <2> QED
      BY <1>1, <2>1, <2>5, OfItsRange
  <1> QED
    BY <1>3, <1>4, <1>5

-----------------------------------------------------------------------------
(* The engine is a correct user of the pool. *)

LEMMA LengthOK ==
    ASSUME SeqTypes, TokensWithin, NEW s \in Seqs
    PROVE  NumTokens(s) \in Lengths /\ token_ids[s] \in Seq(Nat)
  <1>1. /\ Prompt[s] \in Seq(Nat \ {0}) /\ Prompt[s] # <<>> /\ MaxTokens[s] \in Nat
        /\ Len(Prompt[s]) + MaxTokens[s] <= MaxLen /\ MaxLen \in Nat
    BY SequenceAssumption, PoolAssumption DEF PoolAssumption
  <1>2. token_ids[s] \in Seq(Nat)
    BY DEF SeqTypes
  <1>3. PICK p, m, n \in Nat : p = Len(Prompt[s]) /\ m = MaxTokens[s] /\ n = NumTokens(s)
    BY <1>1, <1>2 DEF NumTokens
  <1>4. p # 0 /\ p <= n /\ n <= p + m /\ p + m <= MaxLen
    BY <1>1, <1>3 DEF TokensWithin
  <1>5. n \in 1 .. MaxLen
    BY <1>1, <1>3, <1>4
  <1> QED
    BY <1>2, <1>3, <1>5 DEF Lengths

LEMMA AdoptsLiveChain ==
    ASSUME TrieDepth, KeysLive, NEW T, NEW s, token_ids[s] \in Seq(T), PrefixUsable(s)
    PROVE  /\ LongestPrefix(token_ids[s]) \in Chains
           /\ Len(LongestPrefix(token_ids[s])) <= BlocksFor(NumTokens(s))
  <1>1. PICK tokens, chain : tokens = token_ids[s] /\ chain = LongestPrefix(tokens)
    OBVIOUS
  <1>2. chain # <<>> /\ chain \in Keys(prefix_state_cache) /\ tokens \in Seq(T)
    BY <1>1 DEF PrefixUsable, HasState
  <1>3. PICK i \in DOMAIN prefix_state_cache : chain = prefix_state_cache[i].key
    BY <1>2 DEF Keys
  <1>4. chain \in Chains
    BY <1>2, <1>3 DEF KeysLive, Range
  <1>5. Len(chain) <= BlocksFor(Len(tokens))
    BY <1>1, <1>2, HitFits
  <1> QED
    BY <1>1, <1>4, <1>5 DEF NumTokens

LEMMA PoolSteps ==
    ASSUME SeqTypes, submitted \subseteq Seqs, MemInv, MemoryStep
    PROVE  [PoolNext]_poolVars
  <1>1. TokensWithin /\ TrieDepth /\ KeysLive
    BY DEF MemInv
  <1>2. CASE Quiet \/ Restores
    BY <1>2 DEF Quiet, Restores
  <1>3. CASE Admits
    <2>1. PICK s : s = Candidate
      OBVIOUS
    <2>2. s \in Seqs
      BY <1>3, <2>1 DEF Admits, Unfinished
    <2>3. NumTokens(s) \in Lengths /\ token_ids[s] \in Seq(Nat)
      BY <1>1, <2>2, LengthOK
    <2>4. CASE AdmitShared
      <3>1. PICK chain : chain = LongestPrefix(token_ids[s])
        OBVIOUS
      <3>2. ShareAndExtend(s, chain, NumTokens(s)) /\ PrefixUsable(s)
        BY <2>1, <2>4, <3>1 DEF AdmitShared
      <3>3. chain \in Chains /\ Len(chain) <= BlocksFor(NumTokens(s))
        BY <1>1, <2>3, <3>1, <3>2, AdoptsLiveChain
      <3> QED
        BY <2>2, <2>3, <3>2, <3>3 DEF PoolNext
    <2>5. CASE AdmitFresh
      BY <2>1, <2>2, <2>3, <2>5 DEF AdmitFresh, PoolNext
    <2> QED
      BY <1>3, <2>4, <2>5 DEF Admits
  <1>4. CASE \E s \in Unfinished : Grows(s) \/ Releases(s) \/ Records(s) \/ Samples(s)
    <2>1. PICK s \in Unfinished : Grows(s) \/ Releases(s) \/ Records(s) \/ Samples(s)
      BY <1>4
    <2>2. s \in Seqs
      BY <2>1 DEF Unfinished
    <2>3. NumTokens(s) \in Lengths
      BY <1>1, <2>2, LengthOK
    <2>4. CASE Grows(s)
      BY <2>2, <2>3, <2>4 DEF Grows, PoolNext
    <2>5. CASE Deallocate(s) \/ UNCHANGED poolVars
      BY <2>2, <2>5 DEF PoolNext
    <2> QED
      BY <2>1, <2>4, <2>5 DEF Releases, Records, Samples, ReleaseBlocks
  <1> QED
    BY <1>2, <1>3, <1>4 DEF MemoryStep

-----------------------------------------------------------------------------
(* Every step keeps the invariant of the memory. *)

LEMMA TokensNext ==
    ASSUME SeqTypes, submitted \subseteq Seqs, TokensWithin, MemoryStep
    PROVE  TokensWithin'
  <1>1. CASE SameRequests
    BY <1>1 DEF SameRequests, TokensWithin, NumTokens
  <1>2. CASE \E s \in Unfinished : Samples(s)
    <2>1. PICK s \in Unfinished : Samples(s)
      BY <1>2
    <2>2. s \in Seqs /\ ~Finished(s)
      BY <2>1 DEF Unfinished
    <2>3. PICK token \in Vocab : token_ids' = [token_ids EXCEPT ![s] = Append(@, token)]
      BY <2>1 DEF Samples
    <2>4. token_ids \in [Seqs -> Seq(Nat)] /\ token \in Nat
      BY SequenceAssumption DEF SeqTypes
    <2>5. PICK n, p, m \in Nat :
             n = Len(token_ids[s]) /\ p = Len(Prompt[s]) /\ m = MaxTokens[s]
      <3>1. token_ids[s] \in Seq(Nat) /\ Prompt[s] \in Seq(Nat \ {0}) /\ MaxTokens[s] \in Nat
        BY <2>2, <2>4, SequenceAssumption
      <3> QED
        BY <3>1
    <2>6. Len(token_ids'[s]) = n + 1
      <3>1. token_ids'[s] = Append(token_ids[s], token)
        BY <2>2, <2>3, <2>4
      <3> QED
        BY <2>2, <2>4, <2>5, <3>1
    <2>7. p <= n /\ n < p + m
      BY <2>2, <2>5 DEF TokensWithin, NumTokens
    <2>8. ~Finished(s)' => n + 1 - p < m
      BY <2>1, <2>5 DEF Samples
    <2>9. p <= n + 1 /\ n + 1 <= p + m /\ (n + 1 - p < m => n + 1 < p + m)
      BY <2>7
    <2>10. ASSUME NEW t \in Seqs
           PROVE  /\ Len(Prompt[t]) <= NumTokens(t)'
                  /\ NumTokens(t)' <= Len(Prompt[t]) + MaxTokens[t]
                  /\ ~Finished(t)' => NumTokens(t)' < Len(Prompt[t]) + MaxTokens[t]
      <3>1. CASE t = s
        BY <2>5, <2>6, <2>8, <2>9, <3>1 DEF NumTokens
      <3>2. CASE t # s
        <4>1. NumTokens(t)' = NumTokens(t)
          BY <2>3, <2>4, <2>10, <3>2 DEF NumTokens
        <4>2. Finished(t)' <=> Finished(t)
          BY <2>1, <2>10, <3>2 DEF Samples
        <4> QED
          BY <2>10, <4>1, <4>2 DEF TokensWithin
      <3> QED
        BY <3>1, <3>2
    <2> QED
      BY <2>10 DEF TokensWithin
  <1> QED
    BY <1>1, <1>2 DEF MemoryStep, Quiet, Admits, Restores, Grows, Releases, Records

LEMMA TrieNext ==
    ASSUME SeqTypes, submitted \subseteq Seqs, MemInv, MemoryStep
    PROVE  TrieDepth'
  <1>1. TrieDepth /\ block_table \in [Seqs -> Seq(Blocks)]
    BY DEF MemInv, PoolInv, PoolTypeOK
  <1>2. CASE UNCHANGED cacheVars
    BY <1>1, <1>2 DEF TrieDepth, cacheVars
  <1>3. CASE \E s \in Unfinished : ReleaseBlocks(s)
    BY <1>1, <1>3, EvictBlocksDepth DEF ReleaseBlocks
  <1>4. CASE \E s \in Unfinished : RecordProgress(s)
    <2>1. PICK s \in Unfinished : RecordProgress(s)
      BY <1>4
    <2>2. token_ids[s] \in Seq(Nat) /\ block_table[s] \in Seq(Blocks)
      BY <1>1, <2>1 DEF Unfinished, SeqTypes
    <2>3. CASE AddPrefix(token_ids[s], block_table[s])
      BY <1>1, <2>2, <2>3, AddPrefixDepth
    <2> QED
      BY <1>2, <2>1, <2>3 DEF RecordProgress
  <1> QED
    BY <1>2, <1>3, <1>4
       DEF MemoryStep, Quiet, SameCaches, Admits, AdmitShared, AdmitFresh, Restores, Grows,
           Releases, Records, Samples

LEMMA NoneHeldNext ==
    ASSUME submitted \subseteq Seqs, MemInv, MemoryStep
    PROVE  NoneHeld'
  <1>1. NoneHeld /\ block_table \in [Seqs -> Seq(Blocks)]
    BY DEF MemInv, PoolInv, PoolTypeOK
  <1>2. CASE UNCHANGED poolVars /\ SameRequests
    BY <1>1, <1>2 DEF NoneHeld, SameRequests, poolVars
  <1>3. CASE Admits \/ \E s \in Unfinished : Grows(s) \/ Releases(s)
    <2>1. PICK s \in Unfinished : \A t \in Seqs : t # s => block_table'[t] = block_table[t]
      BY <1>1, <1>3
         DEF Admits, AdmitShared, AdmitFresh, ShareAndExtend, Allocate, Grows, MayAppend,
             TakeBlocks, Releases, ReleaseBlocks, Deallocate, poolVars
    <2>2. \A t \in Seqs : Finished(t)' <=> Finished(t)
      BY <1>3 DEF Admits, Grows, Releases, SameRequests
    <2>3. ~Finished(s)
      BY <2>1 DEF Unfinished
    <2> QED
      BY <1>1, <2>1, <2>2, <2>3 DEF NoneHeld
  <1>4. CASE \E s \in Unfinished : Samples(s)
    <2>1. PICK s \in Unfinished : Samples(s)
      BY <1>4
    <2>2. s \in Seqs /\ \A t \in Seqs : t # s => (Finished(t)' <=> Finished(t))
      BY <2>1 DEF Unfinished, Samples
    <2>3. CASE Finished(s)' /\ Deallocate(s)
      <3>1. /\ block_table'[s] = <<>>
            /\ \A t \in Seqs : t # s => block_table'[t] = block_table[t]
        BY <1>1, <2>2, <2>3 DEF Deallocate
      <3> QED
        BY <1>1, <2>2, <3>1 DEF NoneHeld
    <2>4. CASE ~Finished(s)' /\ UNCHANGED poolVars
      BY <1>1, <2>2, <2>4 DEF NoneHeld, poolVars
    <2> QED
      BY <2>1, <2>3, <2>4 DEF Samples, ReleaseBlocks
  <1> QED
    BY <1>2, <1>3, <1>4 DEF MemoryStep, Quiet, Restores, Records

(* A restored prefix is moved to the end of the cache, a freed one goes. *)
LEMMA RestoresWithin ==
    ASSUME QueueTypes, IsList(prefix_state_cache), PrepareStates
    PROVE  /\ IsList(prefix_state_cache')
           /\ Range(prefix_state_cache') \subseteq Range(prefix_state_cache)
  <1>1. PICK restored, keys :
          /\ restored = Only(batch, {s \in Seqs : Restoring(s)})
          /\ keys = [i \in DOMAIN restored |-> seq[restored[i]].prefix_restore_blocks]
    OBVIOUS
  <1>2. restored \in Seq(Seqs)
    BY <1>1, OnlyKeeps DEF QueueTypes
  <1>3. keys \in Seq(Range(keys))
    <2>1. PICK n \in Nat : n = Len(restored)
      BY <1>2
    <2>2. DOMAIN keys = 1 .. n /\ keys = [i \in 1 .. n |-> keys[i]]
      BY <1>1, <1>2, <2>1
    <2>3. keys \in [1 .. n -> Range(keys)]
      BY <2>2 DEF Range
    <2> QED
      BY <2>1, <2>3
  <1>4. prefix_state_cache' = Touched(prefix_state_cache, keys)
    BY <1>1 DEF PrepareStates
  <1> QED
    BY <1>3, <1>4, TouchedWithin

LEMMA EvictedWithin ==
    ASSUME IsList(prefix_state_cache), NEW freed, EvictStates(freed)
    PROVE  /\ IsList(prefix_state_cache')
           /\ \A e \in Range(prefix_state_cache') :
                 e \in Range(prefix_state_cache) /\ Range(e.key) \cap freed = {}
  <1>1. PICK cache, kept : /\ cache = prefix_state_cache
                           /\ kept = {e \in Range(cache) : Range(e.key) \cap freed = {}}
    OBVIOUS
  <1>2. prefix_state_cache' = Only(cache, kept) /\ cache \in Seq(Range(cache))
    BY <1>1 DEF EvictStates, IsList
  <1>3. /\ Only(cache, kept) \in Seq(Range(cache))
        /\ Range(Only(cache, kept)) = Range(cache) \cap kept
    BY <1>2, OnlyKeeps
  <1>4. IsList(prefix_state_cache')
    BY <1>2, <1>3, OfItsRange
  <1> QED
    BY <1>1, <1>2, <1>3, <1>4

LEMMA KeysNext ==
    ASSUME SeqTypes, QueueTypes, MemInv, MemoryStep
    PROVE  KeysLive'
  <1>1. /\ KeysLive /\ PoolInv /\ TrieDepth /\ TokensWithin
        /\ block_table \in [Seqs -> Seq(Blocks)]
        /\ submitted \subseteq Seqs
    BY DEF MemInv, PoolInv, PoolTypeOK, QueueTypes
  <1>2. UNCHANGED poolVars => Chains' = Chains
    BY DEF poolVars, Chains
  <1>3. CASE UNCHANGED prefix_state_cache /\ Chains \subseteq Chains'
    BY <1>1, <1>3 DEF KeysLive
  <1>4. CASE Quiet
    BY <1>2, <1>3, <1>4 DEF Quiet, SameCaches
  <1>5. CASE \E s \in Unfinished : Grows(s)
    <2>1. PICK s \in Unfinished : Grows(s)
      BY <1>5
    <2>2. s \in Seqs /\ UNCHANGED prefix_state_cache /\ <<>> \in Seq(Blocks)
      BY <1>1, <2>1 DEF Unfinished, Grows, SameCaches
    <2>3. CASE TakeBlocks(s, <<>>, 1)
      <3>1. Chains \subseteq Chains'
        BY <1>1, <2>2, <2>3, ChainsGrow
      <3> QED
        BY <1>3, <2>2, <3>1
    <2> QED
      BY <1>2, <1>3, <2>1, <2>2, <2>3 DEF Grows, MayAppend
  <1>6. CASE Admits
    <2>1. PICK s : s = Candidate
      OBVIOUS
    <2>2. s \in Seqs /\ UNCHANGED prefix_state_cache
      BY <1>1, <1>6, <2>1 DEF Admits, AdmitShared, AdmitFresh, runnerVars, Unfinished
    <2>3. /\ NumTokens(s) \in Lengths /\ token_ids[s] \in Seq(Nat)
          /\ BlocksFor(NumTokens(s)) \in Nat
      BY <1>1, <2>2, LengthOK, BlocksForType
    <2>4. CASE AdmitShared
      <3>1. PICK chain : chain = LongestPrefix(token_ids[s])
        OBVIOUS
      <3>2. ShareAndExtend(s, chain, NumTokens(s)) /\ PrefixUsable(s)
        BY <2>1, <2>4, <3>1 DEF AdmitShared
      <3>3. chain \in Chains /\ Len(chain) <= BlocksFor(NumTokens(s))
        BY <1>1, <2>3, <3>1, <3>2, AdoptsLiveChain
      <3>4. chain \in Seq(Blocks)
        <4>1. PICK t \in Seqs : \E k \in 1 .. Len(block_table[t]) :
                 chain = SubSeq(block_table[t], 1, k)
          BY <3>3 DEF Chains
        <4>2. block_table[t] \in Seq(Blocks)
          BY <1>1, <4>1
        <4> QED
          BY <4>1, <4>2
      <3>5. PICK n : n = BlocksFor(NumTokens(s)) - Len(chain)
        OBVIOUS
      <3>6. n \in Nat
        BY <2>3, <3>3, <3>4, <3>5
      <3>7. TakeBlocks(s, chain, n)
        BY <3>2, <3>5 DEF ShareAndExtend
      <3>8. Chains \subseteq Chains'
        BY <1>1, <2>2, <3>4, <3>6, <3>7, ChainsGrow
      <3> QED
        BY <1>3, <2>2, <3>8
    <2>5. CASE AdmitFresh
      <3>1. TakeBlocks(s, <<>>, BlocksFor(NumTokens(s))) /\ <<>> \in Seq(Blocks)
        BY <2>1, <2>5 DEF AdmitFresh, Allocate
      <3>2. PICK n \in Nat : n = BlocksFor(NumTokens(s))
        BY <2>3
      <3>3. Chains \subseteq Chains'
        BY <1>1, <2>2, <3>1, <3>2, ChainsGrow
      <3> QED
        BY <1>3, <2>2, <3>3
    <2> QED
      BY <1>6, <2>4, <2>5 DEF Admits
  <1>7. CASE Restores
    <2>1. /\ IsList(prefix_state_cache')
          /\ Range(prefix_state_cache') \subseteq Range(prefix_state_cache)
      BY <1>1, <1>7, RestoresWithin DEF KeysLive, Restores
    <2> QED
      BY <1>1, <1>2, <1>7, <2>1 DEF Restores, KeysLive
  <1>8. CASE \E s \in Unfinished : ReleaseBlocks(s)
    <2>1. PICK s \in Unfinished : ReleaseBlocks(s)
      BY <1>8
    <2>2. s \in Seqs /\ Deallocate(s) /\ EvictStates(OnlyHeldBy(s))
      BY <1>1, <2>1 DEF Unfinished, ReleaseBlocks
    <2>3. /\ IsList(prefix_state_cache')
          /\ \A e \in Range(prefix_state_cache') :
                e \in Range(prefix_state_cache) /\ Range(e.key) \cap OnlyHeldBy(s) = {}
      BY <1>1, <2>2, EvictedWithin DEF KeysLive
    <2>4. ASSUME NEW e \in Range(prefix_state_cache')
          PROVE  e.key = <<>> \/ e.key \in Chains'
      <3>1. e \in Range(prefix_state_cache) /\ Range(e.key) \cap OnlyHeldBy(s) = {}
        BY <2>3, <2>4
      <3>2. e.key = <<>> \/ e.key \in Chains
        BY <1>1, <3>1 DEF KeysLive
      <3>3. PICK chain : chain = e.key
        OBVIOUS
      <3>4. CASE chain \in Chains
        BY <1>1, <2>2, <3>1, <3>3, <3>4, ReleaseKeepsChains
      <3> QED
        BY <3>2, <3>3, <3>4
    <2> QED
      BY <2>3, <2>4 DEF KeysLive
  <1>9. CASE \E s \in Unfinished : Records(s)
    <2>1. PICK s \in Unfinished : Records(s)
      BY <1>9
    <2>2. /\ s \in Seqs /\ block_table[s] \in Seq(Blocks) /\ UNCHANGED poolVars
          /\ RecordProgress(s)
      BY <1>1, <2>1 DEF Unfinished, Records
    <2>3. PICK cached : cached = seq[s].num_cached_tokens + seq[s].num_scheduled_tokens
      OBVIOUS
    <2>4. cached \in Nat
      BY <2>2, <2>3 DEF SeqTypes, IsFields
    <2>5. CASE Saves(s, cached)
      <3>1. PICK m : m = Min({cached \div BlockSize, Len(block_table[s])})
        OBVIOUS
      <3>2. cached \div BlockSize \in Nat /\ Len(block_table[s]) \in Nat
        BY <2>2, <2>4, PoolAssumption DEF PoolAssumption
      <3>3. m \in Nat /\ m <= Len(block_table[s])
        BY <3>1, <3>2, SmallerOf
      <3>4. PICK chain : chain = SubSeq(block_table[s], 1, m)
        OBVIOUS
      <3>5. chain = <<>> \/ chain \in Chains
        <4>1. CASE m = 0
          BY <2>2, <3>4, <4>1
        <4>2. CASE m # 0
          <5>1. m \in 1 .. Len(block_table[s])
            BY <2>2, <3>3, <4>2
          <5> QED
            BY <2>2, <3>4, <5>1 DEF Chains
        <4> QED
          BY <4>1, <4>2
      <3>6. SaveState(s, chain)
        BY <2>2, <2>3, <2>5, <3>1, <3>4 DEF RecordProgress
      <3>7. /\ IsList(prefix_state_cache')
            /\ Range(prefix_state_cache') \subseteq
                 Range(prefix_state_cache) \cup {[key |-> chain, state |-> State(s)]}
        BY <1>1, <3>6, SavedWithin DEF KeysLive
      <3>8. \A e \in Range(prefix_state_cache') : e.key = <<>> \/ e.key \in Chains
        BY <1>1, <3>5, <3>7 DEF KeysLive
      <3> QED
        BY <1>2, <2>2, <3>7, <3>8 DEF KeysLive
    <2>6. CASE UNCHANGED prefix_state_cache
      BY <1>2, <1>3, <2>2, <2>6
    <2> QED
      BY <2>2, <2>3, <2>5, <2>6 DEF RecordProgress
  <1>10. CASE \E s \in Unfinished : UNCHANGED <<poolVars, prefix_state_cache>>
    BY <1>2, <1>3, <1>10
  <1> QED
    BY <1>4, <1>5, <1>6, <1>7, <1>8, <1>9, <1>10
       DEF MemoryStep, Releases, Samples, SameCaches

-----------------------------------------------------------------------------
(* Theorems. *)

LEMMA MemoryInitially == EngineInit => MemInv
  <1>1. SUFFICES ASSUME EngineInit PROVE MemInv
    OBVIOUS
  <1>2. PoolInv
    BY <1>1, InitInv DEF EngineInit
  <1>3. /\ seq = [s \in Seqs |-> NewSequence] /\ token_ids = [s \in Seqs |-> Prompt[s]]
        /\ prefix_state_cache = <<>> /\ DOMAIN trie = {}
    BY <1>1 DEF EngineInit, SequenceInit, RunnerInit, CacheInit
  <1>4. \A s \in Seqs : ~Finished(s)
    BY <1>3 DEF Finished, NewSequence
  <1>5. TokensWithin
    <2>1. ASSUME NEW s \in Seqs
          PROVE  /\ Len(Prompt[s]) <= NumTokens(s)
                 /\ NumTokens(s) < Len(Prompt[s]) + MaxTokens[s]
                 /\ NumTokens(s) <= Len(Prompt[s]) + MaxTokens[s]
      <3>1. Prompt[s] \in Seq(Nat \ {0}) /\ MaxTokens[s] \in Nat \ {0}
        BY <2>1, SequenceAssumption
      <3>2. PICK p \in Nat, m \in Nat \ {0} : p = Len(Prompt[s]) /\ m = MaxTokens[s]
        BY <3>1
      <3>3. NumTokens(s) = p
        BY <1>3, <2>1, <3>2 DEF NumTokens
      <3> QED
        BY <3>2, <3>3
    <2> QED
      BY <2>1 DEF TokensWithin
  <1>6. TrieDepth /\ NoneHeld
    BY <1>3, <1>4 DEF TrieDepth, NoneHeld
  <1>7. KeysLive
    BY <1>3, EmptyList DEF KeysLive, IsList
  <1> QED
    BY <1>2, <1>5, <1>6, <1>7 DEF MemInv

LEMMA EngineMemory ==
    ASSUME QueueInv, MemInv, Undisturbed, [EngineNext]_vars
    PROVE  MemInv' /\ MemoryStep /\ [PoolNext]_poolVars
  <1>1. QueueTypes /\ SeqTypes /\ submitted \subseteq Seqs
    BY DEF QueueInv, QueueTypes
  <1>2. MemoryStep
    BY MemorySteps
  <1>3. [PoolNext]_poolVars
    BY <1>1, <1>2, PoolSteps
  <1>4. PoolInv'
    BY <1>3, NextInv DEF MemInv
  <1>5. TokensWithin'
    BY <1>1, <1>2, TokensNext DEF MemInv
  <1>6. TrieDepth' /\ KeysLive' /\ NoneHeld'
    BY <1>1, <1>2, TrieNext, KeysNext, NoneHeldNext
  <1> QED
    BY <1>2, <1>3, <1>4, <1>5, <1>6 DEF MemInv

EngineInv == QueueInv /\ MemInv

LEMMA EngineInvariant == EngineSpec /\ []Undisturbed => []EngineInv
  <1>1. EngineInit => EngineInv
    BY QueueInitially, MemoryInitially DEF EngineInv
  <1>2. EngineInv /\ Undisturbed /\ Undisturbed' /\ [EngineNext]_vars => EngineInv'
    <2>1. Undisturbed' => KeyErrorEnds'
      BY DEF Undisturbed
    <2> QED
      BY <2>1, QueueStep, EngineMemory DEF EngineInv
  <1> QED
    BY <1>1, <1>2, PTL DEF EngineSpec

(* The engine implements the specification of the block pool: whatever is  *)
(* scheduled, preempted, dropped or abandoned, every step allocates,       *)
(* shares, appends or releases as block_manager.py expects - never past    *)
(* the pool, never for a table that is in use, and a prefix hit adopts the *)
(* first blocks of a live table.  So what is proved about the pool holds   *)
(* in the engine.                                                          *)
THEOREM EngineImplementsPool == EngineSpec /\ []Undisturbed => PoolContract
  <1>1. EngineInit => PoolInit
    BY DEF EngineInit
  <1>2. EngineInv /\ Undisturbed /\ [EngineNext]_vars => [PoolNext]_poolVars
    BY EngineMemory DEF EngineInv
  <1> QED
    BY <1>1, <1>2, EngineInvariant, PTL DEF EngineSpec, PoolContract, PoolSpec

(* ... without a premise when nothing can disturb the engine.              *)
THEOREM PlainEngineImplementsPool ==
    ASSUME PlainEngine PROVE EngineSpec => PoolContract
  BY NeverDisturbed, EngineImplementsPool, PTL

(* A finished sequence keeps its answer and holds no memory: no later step *)
(* of its batch or of the scheduler touches it again.                      *)
THEOREM FinishedStays == EngineSpec /\ []Undisturbed => FinishedIsFinal
  <1>1. ASSUME EngineInv, Undisturbed, [EngineNext]_vars
        PROVE  \A s \in Seqs : Finished(s) =>
                  /\ Finished(s)' /\ token_ids'[s] = token_ids[s]
                  /\ block_table'[s] = <<>>
    <2>1. SUFFICES ASSUME NEW s \in Seqs, Finished(s)
                   PROVE  Finished(s)' /\ token_ids'[s] = token_ids[s]
      BY <1>1, EngineMemory DEF EngineInv, MemInv, NoneHeld
    <2>2. MemoryStep /\ token_ids \in [Seqs -> Seq(Nat)]
      BY <1>1, EngineMemory DEF EngineInv, QueueInv, SeqTypes
    <2>3. CASE SameRequests
      BY <2>1, <2>3 DEF SameRequests
    <2>4. CASE \E t \in Unfinished : Samples(t)
      <3>1. PICK t \in Unfinished : Samples(t)
        BY <2>4
      <3>2. t # s
        BY <2>1, <3>1 DEF Unfinished
      <3> QED
        BY <2>1, <2>2, <3>1, <3>2 DEF Samples
    <2> QED
      BY <2>2, <2>3, <2>4
         DEF MemoryStep, Quiet, Admits, Restores, Grows, Releases, Records
  <1> QED
    BY <1>1, EngineInvariant, PTL DEF EngineSpec, FinishedIsFinal

-----------------------------------------------------------------------------
(* The slots.  A sequence may hold one while it is prefilled chunk by      *)
(* chunk in waiting, so the slots suffice only because schedule() leaves   *)
(* room: the place in waiting of a sequence with a slot, and the sequences *)
(* decoding, stay within max_num_seqs.                                     *)

SlotsApart ==
    /\ free_deltanet_slots \in Seq(Slots) /\ IsInjective(free_deltanet_slots)
    /\ seq_to_slot \in [Seqs -> Slots \cup {NoSlot}]
    /\ \A s, t \in Seqs : HasSlot(s) /\ seq_to_slot[s] = seq_to_slot[t] => s = t
    /\ \A i \in Slots :
         i \in Range(free_deltanet_slots) <=> \A s \in Seqs : seq_to_slot[s] # i

SlotHolders ==
    /\ \A s \in Seqs : HasSlot(s) =>
         s \in Unfinished \/ (pc \in {"record", "sample"} /\ s \in Range(batch))
    /\ pc = "forward" => \A s \in Range(batch) : HasSlot(s)
    /\ pc \in Running => \A s \in Range(oom_preempted) : ~HasSlot(s)

Decoding == Len(running) + Len(decode_seqs)
NeedsSlot(s) == HasSlot(s) \/ (pc = "prepare" /\ s \in Range(batch))

(* Whoever of q is in N comes early enough for n others. *)
Room(q, N, n) == \A i \in DOMAIN q : q[i] \in N => n + i <= MaxNumSeqs

SlotRoom ==
    /\ Decoding <= MaxNumSeqs
    /\ Room(waiting, {s \in Seqs : NeedsSlot(s)}, Decoding)

(* What a preemption gave up in this round of schedule() is still free.    *)
LoopRoom ==
    /\ pc \in {"decode", "admit"} =>
         preempted \in Nat /\ Decoding + preempted <= MaxNumSeqs
    /\ pc = "decode" => /\ Range(running) \subseteq Range(decode_list)
                        /\ tried => preempted >= 1
    /\ pc = "admit" => running = <<>> \/ LimitReached \/ preempted >= 1

SlotInv ==
    /\ SlotsApart /\ call \subseteq Seqs
    /\ \/ exception = "KeyError"
       \/ exception # "AssertionError" /\ SlotHolders /\ SlotRoom /\ LoopRoom

LEMMA SlotNumbers ==
    /\ MaxNumSeqs \in Nat \ {0} /\ NoSlot \notin Slots
    /\ IsFiniteSet(Slots) /\ Cardinality(Slots) = MaxNumSeqs
  <1>1. MaxNumSeqs \in Nat \ {0} /\ 0 \in Int /\ MaxNumSeqs - 1 \in Int
    BY RunnerAssumption
  <1>2. IsFiniteSet(Slots) /\ Cardinality(Slots) = MaxNumSeqs
    BY <1>1, FS_Interval DEF Slots
  <1> QED
    BY <1>1, <1>2 DEF Slots, NoSlot

(* Slots that come back are those of sequences that lose them. *)
LEMMA SlotsReturned ==
    ASSUME SlotsApart, NEW losers \in SUBSET Seqs,
           NEW given \in Seq(Slots), IsInjective(given),
           \A i \in Slots :
             i \in Range(given) <=> \E s \in losers : HasSlot(s) /\ seq_to_slot[s] = i,
           free_deltanet_slots' = free_deltanet_slots \o given,
           seq_to_slot' = [s \in Seqs |-> IF s \in losers THEN NoSlot ELSE seq_to_slot[s]]
    PROVE  SlotsApart' /\ \A s \in Seqs : HasSlot(s)' <=> HasSlot(s) /\ s \notin losers
  <1>1. PICK free : free = free_deltanet_slots
    OBVIOUS
  <1>2. free \in Seq(Slots) /\ IsInjective(free) /\ free_deltanet_slots' = free \o given
    BY <1>1 DEF SlotsApart
  <1>3. free \o given \in Seq(Slots) /\ Range(free \o given) = Range(free) \cup Range(given)
    BY <1>2, RangeOfConcat
  <1>4. Range(free) \cap Range(given) = {}
    <2>1. SUFFICES ASSUME NEW i \in Slots, i \in Range(free), i \in Range(given)
                   PROVE  FALSE
      BY <1>2 DEF Range
    <2>2. PICK s \in losers : seq_to_slot[s] = i
      BY <2>1
    <2> QED
      BY <1>1, <2>1, <2>2 DEF SlotsApart
  <1>5. IsInjective(free \o given)
    BY <1>2, <1>4, InjectiveConcat
  <1>6. \A s \in Seqs : /\ s \in losers => seq_to_slot'[s] = NoSlot
                        /\ s \notin losers => seq_to_slot'[s] = seq_to_slot[s]
    OBVIOUS
  <1>7. \A s \in Seqs : HasSlot(s)' <=> HasSlot(s) /\ s \notin losers
    BY <1>6 DEF HasSlot
  <1>8. seq_to_slot' \in [Seqs -> Slots \cup {NoSlot}]
    BY <1>6 DEF SlotsApart
  <1>9. \A s, t \in Seqs : HasSlot(s)' /\ seq_to_slot'[s] = seq_to_slot'[t] => s = t
    BY <1>6, <1>7 DEF SlotsApart, HasSlot
  <1>10. ASSUME NEW i \in Slots
         PROVE  i \in Range(free_deltanet_slots') <=> \A s \in Seqs : seq_to_slot'[s] # i
    <2>1. i # NoSlot
      BY <1>10, SlotNumbers
    <2>2. i \in Range(free_deltanet_slots') <=> i \in Range(free) \/ i \in Range(given)
      BY <1>2, <1>3
    <2>3. i \in Range(free) <=> \A s \in Seqs : seq_to_slot[s] # i
      BY <1>1, <1>10 DEF SlotsApart
    <2>4. i \in Range(given) <=> \E s \in losers : seq_to_slot[s] = i
      BY <1>10, <2>1 DEF HasSlot
    <2>5. CASE \E s \in losers : seq_to_slot[s] = i
      <3>1. PICK s \in losers : seq_to_slot[s] = i
        BY <2>5
      <3>2. ASSUME NEW t \in Seqs PROVE seq_to_slot'[t] # i
        BY <1>6, <2>1, <3>1, <3>2 DEF SlotsApart, HasSlot
      <3> QED
        BY <2>2, <2>4, <2>5, <3>2
    <2>6. CASE ~ \E s \in losers : seq_to_slot[s] = i
      BY <1>6, <2>1, <2>2, <2>3, <2>4, <2>6
    <2> QED
      BY <2>5, <2>6
  <1> QED
    BY <1>2, <1>3, <1>5, <1>7, <1>8, <1>9, <1>10 DEF SlotsApart

LEMMA FreedSlots ==
    ASSUME SlotsApart, NEW ss \in Seq(Seqs), IsInjective(ss), FreeSlots(ss)
    PROVE  SlotsApart' /\ \A s \in Seqs : HasSlot(s)' <=> HasSlot(s) /\ s \notin Range(ss)
  <1>1. PICK held, given :
          /\ held = Only(ss, {s \in Seqs : HasSlot(s)})
          /\ given = [i \in DOMAIN held |-> seq_to_slot[held[i]]]
    OBVIOUS
  <1>2. /\ free_deltanet_slots' = free_deltanet_slots \o given
        /\ seq_to_slot' = [s \in Seqs |-> IF s \in Range(ss) THEN NoSlot ELSE seq_to_slot[s]]
    BY <1>1 DEF FreeSlots
  <1>3. /\ held \in Seq(Seqs) /\ IsInjective(held)
        /\ Range(held) = Range(ss) \cap {s \in Seqs : HasSlot(s)}
    BY <1>1, OnlyKeeps
  <1>4. Range(ss) \in SUBSET Seqs
    BY DEF Range
  <1>5. \A i \in DOMAIN held : held[i] \in Seqs /\ HasSlot(held[i]) /\ held[i] \in Range(ss)
    BY <1>3 DEF Range
  <1>6. \A i \in DOMAIN held : seq_to_slot[held[i]] \in Slots
    BY <1>5 DEF SlotsApart, HasSlot
  <1>7. given \in Seq(Slots)
    <2>1. PICK n \in Nat : n = Len(held)
      BY <1>3
    <2>2. given \in [1 .. n -> Slots]
      BY <1>1, <1>3, <1>6, <2>1
    <2> QED
      BY <2>1, <2>2
  <1>8. IsInjective(given)
    BY <1>1, <1>3, <1>5 DEF IsInjective, SlotsApart
  <1>9. ASSUME NEW i \in Slots
        PROVE  i \in Range(given) <=>
                 \E s \in Range(ss) : HasSlot(s) /\ seq_to_slot[s] = i
    <2>1. ASSUME i \in Range(given)
          PROVE  \E s \in Range(ss) : HasSlot(s) /\ seq_to_slot[s] = i
      BY <1>1, <1>5, <2>1 DEF Range
    <2>2. ASSUME NEW s \in Range(ss), HasSlot(s), seq_to_slot[s] = i
          PROVE  i \in Range(given)
      <3>1. s \in Range(held)
        BY <1>3, <1>4, <2>2
      <3> QED
        BY <1>1, <2>2, <3>1 DEF Range
    <2> QED
      BY <2>1, <2>2
  <1> QED
    BY <1>2, <1>4, <1>7, <1>8, <1>9, SlotsReturned

(* A pass takes the first free slots for the sequences without one.        *)
LEMMA TakenSlots ==
    ASSUME SlotsApart, QueueTypes, IsInjective(batch), PrepareStates
    PROVE  SlotsApart' /\ \A s \in Seqs : HasSlot(s)' <=> HasSlot(s) \/ s \in Range(batch)
  <1>1. PICK free, new : free = free_deltanet_slots /\ new = Slotless
    OBVIOUS
  <1>2. /\ free \in Seq(Slots) /\ IsInjective(free)
        /\ new \in Seq(Seqs) /\ IsInjective(new)
        /\ Range(new) = Range(batch) \cap {s \in Seqs : ~HasSlot(s)}
    BY <1>1, OnlyKeeps DEF SlotsApart, QueueTypes, Slotless
  <1>3. PICK k \in Nat : k = Len(new)
    BY <1>2
  <1>4. PICK n \in Nat : n = Len(free)
    BY <1>2
  <1>5. k <= n /\ free_deltanet_slots' = SubSeq(free, k + 1, n)
    BY <1>1, <1>3, <1>4 DEF PrepareStates, SlotsSuffice
  <1>6. PICK rest : rest = SubSeq(free, k + 1, n)
    OBVIOUS
  <1>7. /\ rest \in Seq(Slots) /\ Len(rest) = n - k
        /\ \A j \in 1 .. (n - k) : rest[j] = free[k + j]
    BY <1>2, <1>4, <1>5, <1>6
  <1>8. DOMAIN free = 1 .. n /\ DOMAIN new = 1 .. k /\ DOMAIN rest = 1 .. (n - k)
    BY <1>2, <1>3, <1>4, <1>5, <1>7
  <1>9. PICK place : place = [s \in Range(new) |-> CHOOSE i \in DOMAIN new : new[i] = s]
    OBVIOUS
  <1>10. \A s \in Range(new) : place[s] \in 1 .. k /\ new[place[s]] = s
    BY <1>8, <1>9 DEF Range
  <1>11. \A s \in Seqs :
           /\ s \in Range(new) => seq_to_slot'[s] = free[place[s]]
           /\ s \notin Range(new) => seq_to_slot'[s] = seq_to_slot[s]
    <2>1. TAKE s \in Seqs
    <2>2. seq_to_slot'[s] = SlotFor(s)
      BY DEF PrepareStates
    <2>3. CASE s \in Range(new)
      <3>1. ~(HasSlot(s) \/ s \notin Range(batch))
        BY <1>2, <2>3
      <3>2. SlotFor(s) = free[CHOOSE i \in DOMAIN new : new[i] = s]
        BY <1>1, <3>1, Zenon DEF SlotFor
      <3> QED
        BY <1>9, <2>2, <2>3, <3>2
    <2>4. CASE s \notin Range(new)
      <3>1. HasSlot(s) \/ s \notin Range(batch)
        BY <1>2, <2>4
      <3> QED
        BY <2>2, <2>4, <3>1 DEF SlotFor
    <2> QED
      BY <2>3, <2>4
  <1>12. \A s \in Range(new) : /\ place[s] \in 1 .. n /\ s \in Seqs
                               /\ free[place[s]] \in Slots /\ free[place[s]] \in Range(free)
    BY <1>2, <1>4, <1>5, <1>8, <1>10 DEF Range
  <1>13. \A s \in Seqs : HasSlot(s)' <=> HasSlot(s) \/ s \in Range(batch)
    <2>1. TAKE s \in Seqs
    <2>2. CASE s \in Range(new)
      BY <1>2, <1>11, <1>12, <2>2, SlotNumbers DEF HasSlot
    <2>3. CASE s \notin Range(new)
      BY <1>2, <1>11, <2>3 DEF HasSlot
    <2> QED
      BY <2>2, <2>3
  <1>14. seq_to_slot' \in [Seqs -> Slots \cup {NoSlot}]
    <2>1. seq_to_slot' = [s \in Seqs |-> SlotFor(s)]
      BY DEF PrepareStates
    <2>2. \A s \in Seqs : seq_to_slot'[s] \in Slots \cup {NoSlot}
      BY <1>11, <1>12 DEF SlotsApart
    <2> QED
      BY <2>1, <2>2
  <1>15. IsInjective(rest)
    <2>1. SUFFICES ASSUME NEW i \in 1 .. (n - k), NEW j \in 1 .. (n - k), rest[i] = rest[j]
                   PROVE  i = j
      BY <1>8 DEF IsInjective
    <2>2. k + i \in 1 .. n /\ k + j \in 1 .. n /\ (k + i = k + j => i = j)
      BY <1>5
    <2>3. free[k + i] = free[k + j]
      BY <1>7, <2>1
    <2> QED
      BY <1>2, <1>8, <2>2, <2>3 DEF IsInjective
  <1>16. ASSUME NEW s \in Seqs, NEW t \in Seqs, HasSlot(s)', seq_to_slot'[s] = seq_to_slot'[t]
         PROVE  s = t
    <2>1. ASSUME NEW u \in Range(new), NEW v \in Seqs, v \notin Range(new)
          PROVE  seq_to_slot'[u] # seq_to_slot'[v]
      <3>1. seq_to_slot'[u] \in Slots /\ seq_to_slot'[u] \in Range(free)
        BY <1>11, <1>12, <2>1
      <3> QED
        BY <1>1, <1>11, <2>1, <3>1 DEF SlotsApart
    <2>2. CASE s \in Range(new) /\ t \in Range(new)
      <3>1. free[place[s]] = free[place[t]]
        BY <1>11, <1>16, <2>2
      <3>2. place[s] = place[t]
        BY <1>2, <1>8, <1>12, <2>2, <3>1 DEF IsInjective
      <3> QED
        BY <1>10, <2>2, <3>2
    <2>3. CASE s \notin Range(new) /\ t \notin Range(new)
      BY <1>11, <1>16, <2>3 DEF SlotsApart, HasSlot
    <2> QED
      BY <1>16, <2>1, <2>2, <2>3
  <1>17. ASSUME NEW i \in Slots
         PROVE  i \in Range(rest) <=> \A s \in Seqs : seq_to_slot'[s] # i
    <2>1. i \in Range(free) <=> \A s \in Seqs : seq_to_slot[s] # i
      BY <1>1, <1>17 DEF SlotsApart
    <2>2. ASSUME i \in Range(rest), NEW s \in Seqs
          PROVE  seq_to_slot'[s] # i
      <3>1. PICK j \in 1 .. (n - k) : i = free[k + j]
        BY <1>7, <1>8, <2>2 DEF Range
      <3>2. k + j \in 1 .. n /\ ~(k + j <= k)
        BY <1>5, <3>1
      <3>3. i \in Range(free)
        BY <1>8, <3>1, <3>2 DEF Range
      <3>4. CASE s \in Range(new)
        <4>1. place[s] \in 1 .. k /\ place[s] \in 1 .. n
          BY <1>10, <1>12, <3>4
        <4>2. place[s] # k + j
          BY <3>2, <4>1
        <4> QED
          BY <1>2, <1>8, <1>11, <3>1, <3>2, <3>4, <4>1, <4>2 DEF IsInjective
      <3>5. CASE s \notin Range(new)
        BY <1>11, <2>1, <3>3, <3>5
      <3> QED
        BY <3>4, <3>5
    <2>3. ASSUME \A s \in Seqs : seq_to_slot'[s] # i
          PROVE  i \in Range(rest)
      <3>1. \A s \in Seqs : seq_to_slot[s] # i
        BY <1>2, <1>11, <1>17, <2>3, SlotNumbers DEF HasSlot
      <3>2. PICK m \in 1 .. n : i = free[m]
        BY <1>8, <2>1, <3>1 DEF Range
      <3>3. ~(m <= k)
        <4>1. SUFFICES ASSUME m <= k PROVE FALSE
          OBVIOUS
        <4>2. m \in 1 .. k /\ new[m] \in Range(new) /\ new[m] \in Seqs
          BY <1>2, <1>8, <3>2, <4>1 DEF Range
        <4>3. place[new[m]] = m
          BY <1>2, <1>8, <1>10, <4>2 DEF IsInjective
        <4> QED
          BY <1>11, <2>3, <3>2, <4>2, <4>3
      <3>4. PICK j \in 1 .. (n - k) : m = k + j
        <4>1. m - k \in 1 .. (n - k) /\ m = k + (m - k)
          BY <1>5, <3>2, <3>3
        <4> QED
          BY <4>1
      <3> QED
        BY <1>7, <1>8, <3>2, <3>4 DEF Range
    <2> QED
      BY <2>2, <2>3
  <1> QED
    BY <1>5, <1>6, <1>7, <1>13, <1>14, <1>15, <1>16, <1>17 DEF SlotsApart

LEMMA SlotCount ==
    ASSUME SlotsApart, NEW holders, holders = {s \in Seqs : HasSlot(s)},
           NEW n, n = Len(free_deltanet_slots)
    PROVE  /\ IsFiniteSet(holders) /\ Cardinality(holders) \in Nat /\ n \in Nat
           /\ Cardinality(holders) + n = MaxNumSeqs
  <1>1. PICK free, used : free = Range(free_deltanet_slots) /\ used = Slots \ free
    OBVIOUS
  <1>2. IsFiniteSet(free) /\ Cardinality(free) = n /\ n \in Nat /\ free \subseteq Slots
    <2>1. PICK q : q = free_deltanet_slots
      OBVIOUS
    <2>2. q \in Seq(Slots) /\ IsInjective(q)
      BY <2>1 DEF SlotsApart
    <2>3. IsFiniteSet(Range(q)) /\ Cardinality(Range(q)) = Len(q)
      BY <2>2, LengthOfInjective
    <2> QED
      BY <1>1, <2>1, <2>2, <2>3 DEF Range
  <1>3. Slots \cap free = free
    BY <1>2
  <1>4. IsFiniteSet(used) /\ Cardinality(used) = MaxNumSeqs - n
    <2>1. /\ IsFiniteSet(Slots \ free)
          /\ Cardinality(Slots \ free) = Cardinality(Slots) - Cardinality(Slots \cap free)
      BY SlotNumbers, FS_Difference
    <2>2. Cardinality(Slots) = MaxNumSeqs
      BY SlotNumbers
    <2> QED
      BY <1>1, <1>2, <1>3, <2>1, <2>2
  <1>5. PICK f : f = [i \in used |-> CHOOSE s \in Seqs : seq_to_slot[s] = i]
    OBVIOUS
  <1>6. ASSUME NEW i \in used
        PROVE  f[i] \in holders /\ seq_to_slot[f[i]] = i
    <2>1. i \in Slots /\ i \notin free /\ i # NoSlot
      BY <1>1, <1>6, SlotNumbers
    <2>2. \E s \in Seqs : seq_to_slot[s] = i
      BY <1>1, <2>1 DEF SlotsApart
    <2>3. f[i] \in Seqs /\ seq_to_slot[f[i]] = i
      BY <1>5, <1>6, <2>2
    <2> QED
      BY <2>1, <2>3 DEF HasSlot
  <1>7. ASSUME NEW s \in holders
        PROVE  \E i \in used : f[i] = s
    <2>1. s \in Seqs /\ HasSlot(s) /\ seq_to_slot[s] \in Slots
      BY <1>7 DEF SlotsApart, HasSlot
    <2>2. seq_to_slot[s] \in used
      BY <1>1, <2>1 DEF SlotsApart
    <2>3. f[seq_to_slot[s]] = s
      BY <1>6, <2>1, <2>2 DEF SlotsApart
    <2> QED
      BY <2>2, <2>3
  <1>8. f \in Bijection(used, holders)
    <2>1. f \in [used -> holders]
      BY <1>5, <1>6
    <2>2. \A i, j \in used : f[i] = f[j] => i = j
      BY <1>6
    <2> QED
      BY <1>7, <2>1, <2>2 DEF Bijection, Injection, Surjection, IsInjective
  <1>9. IsFiniteSet(holders) /\ Cardinality(holders) = Cardinality(used)
    BY <1>4, <1>8, FS_Bijection DEF ExistsBijection
  <1>10. PICK c \in Nat : c = Cardinality(used)
    BY <1>4, FS_CardinalityType
  <1>11. c + n = MaxNumSeqs
    BY <1>2, <1>4, <1>10, SlotNumbers
  <1> QED
    BY <1>2, <1>9, <1>10, <1>11

(* Every list of sequences reaches no more of them than it is long.        *)
LEMMA RangeIsNoLonger ==
    ASSUME NEW T, NEW q \in Seq(T)
    PROVE  IsFiniteSet(Range(q)) /\ Cardinality(Range(q)) <= Len(q)
  <1>1. Len(q) \in Nat /\ DOMAIN q = 1 .. Len(q)
    OBVIOUS
  <1>2. q \in Surjection(1 .. Len(q), Range(q))
    BY <1>1 DEF Surjection, Range
  <1>3. IsFiniteSet(1 .. Len(q)) /\ Cardinality(1 .. Len(q)) = Len(q)
    BY <1>1, FS_Interval
  <1> QED
    BY <1>2, <1>3, FS_Surjection

(* The assert of allocate_deltanet_slot: a batch always finds its slots.   *)
LEMMA SlotsAreEnough ==
    ASSUME QueueTypes, QueuesApart, BatchInv, SlotsApart, SlotHolders, SlotRoom,
           pc = "prepare", decode_seqs = <<>>
    PROVE  SlotsSuffice
  <1>1. /\ batch \in Seq(Seqs) /\ waiting \in Seq(Seqs) /\ running \in Seq(Seqs)
        /\ IsInjective(batch) /\ Range(batch) \subseteq Unfinished
    BY DEF QueueTypes, BatchInv, Running
  <1>2. PICK r, w \in Nat : r = Len(running) /\ w = Len(waiting)
    BY <1>1
  <1>3. PICK m : m = MaxNumSeqs
    OBVIOUS
  <1>4. m \in Nat /\ Decoding = r /\ r <= m
    BY <1>2, <1>3, SlotNumbers DEF SlotRoom, Decoding
  <1>5. PICK k \in Nat : /\ k <= w /\ r + k <= m
                         /\ \A i \in 1 .. w : r + i <= m => i <= k
    <2>1. CASE w <= m - r
      <3>1. w <= w /\ r + w <= m /\ \A i \in 1 .. w : r + i <= m => i <= w
        BY <1>2, <1>4, <2>1
      <3> QED
        BY <1>2, <3>1
    <2>2. CASE ~(w <= m - r)
      <3>1. m - r \in Nat /\ m - r <= w /\ r + (m - r) <= m
        BY <1>2, <1>4, <2>2
      <3>2. \A i \in 1 .. w : r + i <= m => i <= m - r
        BY <1>2, <1>4
      <3> QED
        BY <3>1, <3>2
    <2> QED
      BY <2>1, <2>2
  <1>6. PICK early : early = SubSeq(waiting, 1, k)
    OBVIOUS
  <1>7. /\ early \in Seq(Seqs) /\ Len(early) = k
        /\ \A i \in 1 .. k : early[i] = waiting[i] /\ i \in DOMAIN early
    BY <1>1, <1>2, <1>5, <1>6
  <1>8. PICK near : near = running \o early
    OBVIOUS
  <1>9. near \in Seq(Seqs) /\ Len(near) = r + k /\ Range(near) = Range(running) \cup Range(early)
    <2>1. PICK q : q = running
      OBVIOUS
    <2>2. q \in Seq(Seqs) /\ early \in Seq(Seqs)
      BY <1>1, <1>7, <2>1
    <2>3. /\ q \o early \in Seq(Seqs) /\ Len(q \o early) = Len(q) + Len(early)
          /\ Range(q \o early) = Range(q) \cup Range(early)
      BY <2>2, RangeOfConcat
    <2> QED
      BY <1>2, <1>7, <1>8, <2>1, <2>3
  <1>10. IsFiniteSet(Range(near)) /\ Cardinality(Range(near)) <= r + k
    BY <1>9, RangeIsNoLonger
  <1>11. PICK holders, members, new :
           /\ holders = {s \in Seqs : HasSlot(s)} /\ members = holders \cup Range(batch)
           /\ new = Range(batch) \cap {s \in Seqs : ~HasSlot(s)}
    OBVIOUS
  <1>12. members \subseteq Range(near)
    <2>1. SUFFICES ASSUME NEW s \in members PROVE s \in Range(near)
      OBVIOUS
    <2>2. s \in Unfinished /\ NeedsSlot(s) /\ s \in Seqs
      BY <1>1, <1>11, <2>1, InQueues DEF SlotHolders, NeedsSlot
    <2>3. s \in Range(waiting) \/ s \in Range(running)
      BY <2>2, EmptyList DEF QueuesApart
    <2>4. CASE s \in Range(waiting)
      <3>1. PICK i \in 1 .. w : s = waiting[i]
        BY <1>1, <1>2, <2>4 DEF Range
      <3>2. r + i <= m
        BY <1>1, <1>2, <1>3, <1>4, <2>2, <3>1 DEF SlotRoom, Room
      <3>3. i \in 1 .. k
        BY <1>5, <3>1, <3>2
      <3> QED
        BY <1>7, <1>9, <3>1, <3>3 DEF Range
    <2> QED
      BY <1>9, <2>3, <2>4
  <1>13. IsFiniteSet(members) /\ Cardinality(members) <= Cardinality(Range(near))
    BY <1>10, <1>12, FS_Subset
  <1>14. PICK n : n = Len(free_deltanet_slots)
    OBVIOUS
  <1>15. /\ IsFiniteSet(holders) /\ Cardinality(holders) \in Nat /\ n \in Nat
         /\ Cardinality(holders) + n = m
    BY <1>3, <1>11, <1>14, SlotCount
  <1>16. /\ Slotless \in Seq(Seqs) /\ IsInjective(Slotless) /\ Range(Slotless) = new
    BY <1>1, <1>11, OnlyKeeps DEF Slotless
  <1>17. IsFiniteSet(new) /\ Cardinality(new) = Len(Slotless)
    BY <1>16, LengthOfInjective
  <1>18. holders \cup new = members /\ holders \cap new = {}
    BY <1>1, <1>11 DEF Range
  <1>19. Cardinality(members) = Cardinality(holders) + Cardinality(new)
    <2>1. Cardinality(holders \cap new) = 0
      BY <1>18, FS_EmptySet, Zenon
    <2>2. Cardinality(holders \cup new) =
            Cardinality(holders) + Cardinality(new) - Cardinality(holders \cap new)
      BY <1>15, <1>17, FS_Union
    <2>3. PICK h, c \in Nat : h = Cardinality(holders) /\ c = Cardinality(new)
      BY <1>15, <1>16, <1>17
    <2>4. h + c - 0 = h + c
      BY <2>3
    <2> QED
      BY <1>18, <2>1, <2>2, <2>3, <2>4
  <1>20. PICK h, c, o, a \in Nat :
           /\ h = Cardinality(holders) /\ c = Cardinality(new)
           /\ o = Cardinality(members) /\ a = Cardinality(Range(near))
    BY <1>10, <1>13, <1>15, <1>16, <1>17, FS_CardinalityType
  <1>21. o = h + c /\ o <= a /\ a <= r + k /\ r + k <= m /\ h + n = m
    BY <1>5, <1>10, <1>13, <1>15, <1>19, <1>20
  <1>22. c <= n
    BY <1>4, <1>15, <1>20, <1>21
  <1> QED
    BY <1>14, <1>17, <1>20, <1>22 DEF SlotsSuffice

-----------------------------------------------------------------------------
(* Every step keeps the invariant of the slots. *)

Stepping ==
    /\ QueueInv /\ Undisturbed /\ [EngineNext]_vars /\ QueueInv'
    /\ SlotInv /\ exception # "KeyError"

LEMMA SteppingFacts ==
    ASSUME Stepping
    PROVE  /\ QueueTypes /\ SeqTypes /\ QueuesApart /\ LoopInv /\ BatchInv
           /\ QueueTypes' /\ QueuesApart' /\ (exception' # "KeyError" => BatchInv')
           /\ SlotsApart /\ call \subseteq Seqs
           /\ exception # "AssertionError" /\ SlotHolders /\ SlotRoom /\ LoopRoom
           /\ Decoding \in Nat /\ Decoding' \in Nat
  <1>1. QueueTypes /\ QueueTypes'
    BY DEF Stepping, QueueInv
  <1>2. Len(running) \in Nat /\ Len(decode_seqs) \in Nat
    BY <1>1, SMTT(20) DEF QueueTypes
  <1>3. Len(running') \in Nat /\ Len(decode_seqs') \in Nat
    BY <1>1 DEF QueueTypes
  <1> QED
    BY <1>1, <1>2, <1>3 DEF Stepping, QueueInv, SlotInv, Decoding

LEMMA StillUnfinished ==
    ASSUME Stepping, UNCHANGED token_ids, submitted \subseteq submitted'
    PROVE  Unfinished \subseteq Unfinished'
  <1>1. MemoryStep /\ SeqTypes /\ submitted \subseteq Seqs
    BY MemorySteps, SteppingFacts DEF Stepping, QueueTypes
  <1>2. CASE \E s \in Unfinished : Samples(s)
    <2>1. PICK s \in Unfinished : Samples(s)
      BY <1>2
    <2>2. PICK token \in Vocab : token_ids' = [token_ids EXCEPT ![s] = Append(@, token)]
      BY <2>1 DEF Samples
    <2>3. s \in Seqs /\ token_ids \in [Seqs -> Seq(Nat)] /\ token \in Nat
      BY <1>1, <2>1, SequenceAssumption DEF Unfinished, SeqTypes
    <2>4. token_ids'[s] = Append(token_ids[s], token) /\ token_ids[s] \in Seq(Nat)
      BY <2>2, <2>3
    <2>5. Len(token_ids[s]) \in Nat /\ Len(token_ids'[s]) = Len(token_ids[s]) + 1
      BY <2>3, <2>4
    <2> QED
      BY <2>5
  <1>3. CASE SameRequests
    BY <1>1, <1>3 DEF SameRequests, Unfinished
  <1> QED
    BY <1>1, <1>2, <1>3
       DEF MemoryStep, Quiet, Admits, Restores, Grows, Releases, Records

LEMMA SameSlots ==
    ASSUME SlotsApart, UNCHANGED <<free_deltanet_slots, seq_to_slot>>
    PROVE  SlotsApart' /\ \A s \in Seqs : HasSlot(s)' <=> HasSlot(s)
  BY DEF SlotsApart, HasSlot

LEMMA RoomKept ==
    ASSUME QueueTypes, SlotRoom, UNCHANGED waiting,
           Decoding \in Nat, Decoding' \in Nat, Decoding' <= Decoding,
           \A s \in Range(waiting) : NeedsSlot(s)' => NeedsSlot(s)
    PROVE  SlotRoom'
  <1>1. PICK d, e \in Nat : d = Decoding /\ e = Decoding'
    OBVIOUS
  <1>2. MaxNumSeqs \in Nat /\ d <= MaxNumSeqs /\ e <= d
    BY <1>1, SlotNumbers DEF SlotRoom
  <1>3. ASSUME NEW i \in DOMAIN waiting, NeedsSlot(waiting[i])', waiting[i] \in Seqs
        PROVE  e + i <= MaxNumSeqs
    <2>1. NeedsSlot(waiting[i]) /\ i \in Nat
      BY <1>3 DEF Range, QueueTypes
    <2>2. d + i <= MaxNumSeqs
      BY <1>1, <1>3, <2>1 DEF SlotRoom, Room
    <2> QED
      BY <1>2, <2>1, <2>2
  <1>4. Room(waiting, {s \in Seqs : NeedsSlot(s)}, Decoding)'
    BY <1>1, <1>3 DEF Room
  <1> QED
    BY <1>1, <1>2, <1>4 DEF SlotRoom

(* A preemption moves a sequence to the front, without its slot.           *)
LEMMA RoomPreempt ==
    ASSUME QueueTypes, SlotRoom, NEW v, waiting' = <<v>> \o waiting,
           Decoding \in Nat, Decoding' \in Nat, Decoding' + 1 <= Decoding, ~NeedsSlot(v)',
           \A s \in Range(waiting) : NeedsSlot(s)' => NeedsSlot(s)
    PROVE  SlotRoom'
  <1>1. PICK d, e \in Nat : d = Decoding /\ e = Decoding'
    OBVIOUS
  <1>2. MaxNumSeqs \in Nat /\ d <= MaxNumSeqs /\ e + 1 <= d
    BY <1>1, SlotNumbers DEF SlotRoom
  <1>3. PICK p, q, N : /\ p = waiting /\ q = <<v>> \o p /\ q = waiting'
                       /\ N = {s \in Seqs : NeedsSlot(s)'}
    OBVIOUS
  <1>4. p \in Seq(Seqs)
    BY <1>3 DEF QueueTypes
  <1>5. PICK w \in Nat : w = Len(p)
    BY <1>4
  <1>6. /\ DOMAIN p = 1 .. w /\ \A i \in DOMAIN p : p[i] \in Seqs
        /\ \A i \in DOMAIN q : \/ i = 1 /\ q[i] = v
                               \/ \E j \in 1 .. w : i = j + 1 /\ q[i] = p[j]
    BY <1>3, <1>4, <1>5
  <1>7. \A i \in DOMAIN p : p[i] \in N => d + i <= MaxNumSeqs
    BY <1>1, <1>3, <1>6 DEF SlotRoom, Room, Range
  <1>8. ASSUME NEW i \in DOMAIN q, q[i] \in N
        PROVE  e + i <= MaxNumSeqs
    <2>1. q[i] # v
      BY <1>3, <1>8
    <2>2. PICK j \in 1 .. w : i = j + 1 /\ q[i] = p[j]
      BY <1>6, <1>8, <2>1
    <2>3. d + j <= MaxNumSeqs
      BY <1>6, <1>7, <1>8, <2>2
    <2> QED
      BY <1>2, <2>2, <2>3
  <1>9. e <= MaxNumSeqs
    BY <1>2
  <1>10. Room(q, N, e)
    BY <1>8 DEF Room
  <1> QED
    BY <1>1, <1>3, <1>9, <1>10 DEF SlotRoom

LEMMA ScheduleDecodeSlots ==
    ASSUME Stepping, ScheduleDecode, UNCHANGED <<requestVars, stepVars>>
    PROVE  SlotInv'
  <1>1. PICK s : s = Head(decode_list)
    OBVIOUS
  <1>2. /\ pc = "decode" /\ decode_list # <<>>
        /\ UNCHANGED <<free_deltanet_slots, seq_to_slot, waiting, preempted, call, submitted,
                       token_ids, oom_preempted, batch>>
        /\ IF Contains(running, s)
           THEN /\ running' = Without(running, s)
                /\ decode_seqs' = Append(decode_seqs, s)
                /\ decode_list' = Tail(decode_list)
                /\ ~tried'
                /\ UNCHANGED <<pc, exception>>
           ELSE exception' = "KeyError"
    BY <1>1 DEF ScheduleDecode, Raise, runnerVars, requestVars, batchVars
  <1>3. SlotsApart' /\ call' \subseteq Seqs /\ \A t \in Seqs : HasSlot(t)' <=> HasSlot(t)
    BY <1>2, SteppingFacts, SameSlots
  <1>4. CASE Contains(running, s)
    <2>1. s \in Range(running) /\ decode_list \in Seq(Seqs) /\ running \in Seq(Seqs)
          /\ decode_seqs \in Seq(Seqs) /\ IsInjective(running) /\ s \in Seqs
      <3>1. /\ decode_list \in Seq(Seqs) /\ running \in Seq(Seqs)
            /\ decode_seqs \in Seq(Seqs) /\ IsInjective(running)
        BY SteppingFacts DEF QueueTypes, QueuesApart
      <3>2. s \in Range(running)
        BY <1>4, <3>1 DEF Contains, Range
      <3> QED
        BY <3>1, <3>2 DEF Range
    <2>2. PICK r, n \in Nat : r = Len(running) /\ n = Len(decode_seqs)
      BY <2>1
    <2>3. Len(running') = r - 1 /\ Len(decode_seqs') = n + 1 /\ r - 1 \in Int
      <3>1. PICK q : q = running
        OBVIOUS
      <3>2. Len(Without(q, s)) = Len(q) - 1
        BY <2>1, <3>1, WithoutLength
      <3> QED
        BY <1>2, <1>4, <2>1, <2>2, <3>1, <3>2
    <2>4. Decoding' = Decoding
      <3>1. (r - 1) + (n + 1) = r + n
        BY <2>2
      <3> QED
        BY <2>2, <2>3, <3>1 DEF Decoding
    <2>5. SlotRoom'
      <3>1. /\ QueueTypes /\ SlotRoom /\ Decoding \in Nat /\ Decoding' \in Nat
            /\ Decoding' <= Decoding
        BY <2>4, SteppingFacts
      <3>2. \A t \in Range(waiting) : NeedsSlot(t)' => NeedsSlot(t)
        BY <1>2, <1>3, <1>4, SteppingFacts, InQueues DEF NeedsSlot
      <3> QED
        BY <1>2, <3>1, <3>2, RoomKept
    <2>6. LoopRoom'
      <3>1. preempted \in Nat /\ Decoding' + preempted <= MaxNumSeqs
        BY <1>2, <2>4, SteppingFacts DEF LoopRoom
      <3>2. Range(running') \subseteq Range(decode_list')
        <4>1. Range(running') = Range(running) \ {s}
          <5>1. PICK q : q = running
            OBVIOUS
          <5>2. Range(Without(q, s)) = Range(q) \ {s}
            BY <2>1, <5>1, WithoutKeeps
          <5> QED
            BY <1>2, <1>4, <5>1, <5>2
        <4>2. Range(decode_list) = {s} \cup Range(Tail(decode_list))
          <5>1. PICK q : q = decode_list
            OBVIOUS
          <5>2. Range(q) = {Head(q)} \cup Range(Tail(q))
            BY <1>2, <2>1, <5>1, HeadAndTail
          <5> QED
            BY <1>1, <5>1, <5>2
        <4>3. Range(running) \subseteq Range(decode_list)
          BY <1>2, SteppingFacts DEF LoopRoom
        <4> QED
          BY <1>2, <1>4, <4>1, <4>2, <4>3
      <3> QED
        BY <1>2, <1>4, <3>1, <3>2 DEF LoopRoom
    <2>7. SlotHolders'
      <3>1. Unfinished \subseteq Unfinished'
        BY <1>2, StillUnfinished
      <3> QED
        BY <1>2, <1>3, <1>4, <3>1, SteppingFacts DEF SlotHolders, Running
    <2> QED
      BY <1>2, <1>3, <1>4, <2>5, <2>6, <2>7, SteppingFacts DEF SlotInv
  <1>5. CASE ~Contains(running, s)
    BY <1>2, <1>3, <1>5 DEF SlotInv
  <1> QED
    BY <1>4, <1>5

(* The victim of a preemption leaves running, and its slot is free.        *)
LEMMA PreemptSlots ==
    ASSUME Stepping, running # <<>>, NEW s, TryPreempt(s), pc \in {"decode", "advance"},
           UNCHANGED <<call, submitted, decode_list, decode_seqs, batch, pc, exception>>
    PROVE  /\ SlotsApart' /\ SlotHolders' /\ SlotRoom' /\ Decoding' + 1 = Decoding
           /\ Range(running') \subseteq Range(running)
           /\ call' \subseteq Seqs /\ exception' # "AssertionError"
  <1>1. PICK v : v = Last(running)
    OBVIOUS
  <1>2. /\ running' = Front(running) /\ waiting' = <<v>> \o waiting /\ FreeSlots(<<v>>)
        /\ UNCHANGED <<token_ids, oom_preempted>>
    BY <1>1 DEF TryPreempt, PreemptSeq
  <1>3. /\ v \in Seqs /\ Len(running') = Len(running) - 1
        /\ Range(running') \subseteq Range(running)
    <2>1. PICK q : q = running
      OBVIOUS
    <2>2. q \in Seq(Seqs) /\ q # <<>>
      BY <2>1, SteppingFacts DEF QueueTypes
    <2>3. Len(Front(q)) = Len(q) - 1 /\ Range(q) = Range(Front(q)) \cup {Last(q)}
      BY <2>2, FrontAndLast
    <2>4. Range(q) \subseteq Seqs
      BY <2>2 DEF Range
    <2> QED
      BY <1>1, <1>2, <2>1, <2>3, <2>4
  <1>4. SlotsApart' /\ \A t \in Seqs : HasSlot(t)' <=> HasSlot(t) /\ t # v
    <2>1. <<v>> \in Seq(Seqs) /\ IsInjective(<<v>>) /\ Range(<<v>>) = {v}
      BY <1>3, RangeOfPair
    <2>2. PICK one : one = <<v>>
      OBVIOUS
    <2>3. SlotsApart' /\ \A t \in Seqs : HasSlot(t)' <=> HasSlot(t) /\ t \notin Range(one)
      BY <1>2, <2>1, <2>2, SteppingFacts, FreedSlots
    <2> QED
      BY <2>1, <2>2, <2>3
  <1>5. Decoding' + 1 = Decoding
    <2>1. PICK r, n \in Nat : r = Len(running) /\ n = Len(decode_seqs)
      BY SteppingFacts DEF QueueTypes
    <2>2. Decoding' = (r - 1) + n /\ Decoding = r + n
      BY <1>3, <2>1 DEF Decoding
    <2> QED
      BY <2>1, <2>2
  <1>6. SlotRoom'
    <2>1. ~NeedsSlot(v)' /\ \A t \in Range(waiting) : NeedsSlot(t)' => NeedsSlot(t)
      <3>1. pc # "prepare" /\ pc' = pc
        OBVIOUS
      <3>2. \A t \in Range(waiting) : t \in Seqs
        BY SteppingFacts DEF QueueTypes, Range
      <3> QED
        BY <1>3, <1>4, <3>1, <3>2 DEF NeedsSlot
    <2>2. Decoding \in Nat /\ Decoding' \in Nat /\ Decoding' + 1 <= Decoding
      BY <1>5, SteppingFacts
    <2>3. QueueTypes /\ SlotRoom
      BY SteppingFacts
    <2> QED
      BY <1>2, <2>1, <2>2, <2>3, RoomPreempt
  <1>7. SlotHolders'
    <2>1. Unfinished \subseteq Unfinished'
      BY <1>2, StillUnfinished
    <2> QED
      BY <1>2, <1>4, <2>1, SteppingFacts DEF SlotHolders, Running
  <1> QED
    BY <1>3, <1>4, <1>5, <1>6, <1>7, SteppingFacts

LEMMA SchedulePreemptSlots ==
    ASSUME Stepping, SchedulePreempt, UNCHANGED <<requestVars, stepVars>>
    PROVE  SlotInv'
  <1>1. /\ pc = "decode" /\ decode_list # <<>> /\ preempted' = preempted + 1
        /\ UNCHANGED <<call, submitted, decode_list, decode_seqs, batch, pc, exception>>
    BY DEF SchedulePreempt, requestVars, batchVars
  <1>2. running # <<>>
    BY EmptyList DEF Stepping, SchedulePreempt, Undisturbed, PreemptsForRunning
  <1>3. /\ SlotsApart' /\ SlotHolders' /\ SlotRoom' /\ Decoding' + 1 = Decoding
        /\ Range(running') \subseteq Range(running)
        /\ call' \subseteq Seqs /\ exception' # "AssertionError"
    <2>1. PICK s : s = Head(decode_list)
      OBVIOUS
    <2> QED
      BY <1>1, <1>2, <2>1, PreemptSlots DEF SchedulePreempt
  <1>4. LoopRoom'
    <2>1. /\ preempted \in Nat /\ Decoding + preempted <= MaxNumSeqs
          /\ Range(running) \subseteq Range(decode_list)
          /\ Decoding \in Nat /\ Decoding' \in Nat
      BY <1>1, SteppingFacts DEF LoopRoom
    <2>2. PICK d, n, m \in Nat : d = Decoding' /\ n = preempted /\ m = MaxNumSeqs
      BY <2>1, SlotNumbers
    <2>3. (d + 1) + n <= m
      BY <1>3, <2>1, <2>2
    <2>4. d + (n + 1) <= m /\ n + 1 \in Nat /\ n + 1 >= 1
      BY <2>3
    <2> QED
      BY <1>1, <1>3, <2>1, <2>2, <2>4 DEF LoopRoom
  <1> QED
    BY <1>3, <1>4 DEF SlotInv

LEMMA PreemptsAtLeastOnce == MaxPreemptCount \in Nat /\ MaxPreemptCount >= 1
  <1>1. PICK m \in Nat : m = MaxNumSeqs \div 4
    BY RunnerAssumption
  <1>2. {1, m} \in SUBSET (0 .. (m + 1)) /\ {1, m} # {}
    BY <1>1
  <1>3. Max({1, m}) \in {1, m} /\ \A i \in {1, m} : i <= Max({1, m})
    BY <1>2, LargestOf
  <1> QED
    BY <1>1, <1>3 DEF MaxPreemptCount

LEMMA AdmitSlots ==
    ASSUME Stepping, EndDecode \/ AdmitShared \/ AdmitFresh, UNCHANGED <<requestVars, stepVars>>
    PROVE  SlotInv'
  <1>1. /\ UNCHANGED <<free_deltanet_slots, seq_to_slot, waiting, running, decode_list,
                       decode_seqs, preempted, call, submitted, token_ids, batch, exception>>
        /\ pc \in {"decode", "admit"} /\ pc' = "admit"
    BY DEF EndDecode, AdmitShared, AdmitFresh, Goto, runnerVars, queueVars, loopVars,
           requestVars, batchVars, seqVars
  <1>2. SlotsApart' /\ call' \subseteq Seqs /\ \A t \in Seqs : HasSlot(t)' <=> HasSlot(t)
    BY <1>1, SteppingFacts, SameSlots
  <1>3. SlotHolders'
    <2>1. Unfinished \subseteq Unfinished'
      BY <1>1, StillUnfinished
    <2> QED
      BY <1>1, <1>2, <2>1, SteppingFacts DEF SlotHolders, Running
  <1>4. Decoding' = Decoding /\ (LimitReached' <=> LimitReached)
    BY <1>1 DEF Decoding, LimitReached
  <1>5. SlotRoom'
    <2>1. Decoding \in Nat /\ Decoding' <= Decoding /\ Decoding' \in Nat
      BY <1>4, SteppingFacts
    <2>2. \A t \in Range(waiting) : NeedsSlot(t)' => NeedsSlot(t)
      BY <1>1, <1>2, SteppingFacts, InQueues DEF NeedsSlot
    <2> QED
      BY <1>1, <2>1, <2>2, RoomKept, SteppingFacts
  <1>6. LoopRoom'
    <2>1. preempted \in Nat /\ Decoding' + preempted <= MaxNumSeqs
      BY <1>1, <1>4, SteppingFacts DEF LoopRoom
    <2>2. running = <<>> \/ LimitReached \/ preempted >= 1
      <3>1. CASE pc = "admit"
        BY <3>1, SteppingFacts DEF LoopRoom
      <3>2. CASE EndDecode /\ decode_list = <<>>
        <4>1. Range(running) = {}
          BY <3>2, SteppingFacts, EmptyList DEF EndDecode, LoopRoom
        <4>2. running \in Seq(Seqs)
          BY SteppingFacts DEF QueueTypes
        <4> QED
          BY <4>1, <4>2 DEF Range
      <3>3. CASE EndDecode /\ preempted >= MaxPreemptCount
        BY <2>1, <3>3, PreemptsAtLeastOnce
      <3>4. CASE EndDecode /\ tried
        BY <3>4, SteppingFacts DEF EndDecode, LoopRoom
      <3> QED
        BY <1>1, <3>1, <3>2, <3>3, <3>4 DEF EndDecode, AdmitShared, AdmitFresh
    <2> QED
      BY <1>1, <1>4, <2>1, <2>2 DEF LoopRoom
  <1> QED
    BY <1>1, <1>2, <1>3, <1>5, <1>6, SteppingFacts DEF SlotInv

LEMMA DispatchWithin ==
    ASSUME QueueTypes, NEW prefill \in Seq(Seqs), Dispatch(prefill)
    PROVE  /\ pc' \in {"idle", "prepare"} /\ UNCHANGED exception
           /\ pc' = "prepare" =>
                /\ oom_preempted' = <<>>
                /\ Range(batch') \subseteq Range(prefill) \cup Range(decode_seqs)
  <1>1. PICK next, all, pf, df :
          /\ next = decode_seqs /\ all = prefill \o next
          /\ pf = Only(all, {s \in Seqs : seq'[s].is_prefill})
          /\ df = Only(all, {s \in Seqs : ~seq'[s].is_prefill})
    OBVIOUS
  <1>2. next \in Seq(Seqs)
    BY <1>1 DEF QueueTypes
  <1>3. all \in Seq(Seqs) /\ Range(all) = Range(prefill) \cup Range(next)
    BY <1>1, <1>2, RangeOfConcat
  <1>4. Range(pf) \subseteq Range(all)
    <2>1. PICK S : S = {s \in Seqs : seq'[s].is_prefill}
      OBVIOUS
    <2>2. pf = Only(all, S)
      BY <1>1, <2>1
    <2> QED
      BY <1>3, <2>2, OnlyKeeps
  <1>5. LET mixed == decode_seqs # <<>> /\ pf # <<>>
        IN  IF all = <<>>
            THEN Goto("idle")
            ELSE /\ IF mixed THEN StartBatch(pf, TRUE)
                    ELSE StartBatch(all, decode_seqs = <<>>)
                 /\ oom_preempted' = <<>>
    BY <1>1, Zenon DEF Dispatch
  <1>6. CASE all = <<>>
    BY <1>5, <1>6 DEF Goto
  <1>7. CASE all # <<>> /\ (StartBatch(pf, TRUE) \/ StartBatch(all, decode_seqs = <<>>))
    <2>1. /\ pc' = "prepare" /\ UNCHANGED exception /\ (batch' = pf \/ batch' = all)
          /\ oom_preempted' = <<>>
      BY <1>5, <1>7 DEF StartBatch, Goto
    <2> QED
      BY <1>1, <1>3, <1>4, <2>1
  <1> QED
    BY <1>5, <1>6, <1>7

LEMMA EndScheduleSlots ==
    ASSUME Stepping, EndSchedule
    PROVE  SlotInv'
  <1>1. /\ pc = "admit" /\ decode_seqs' = <<>>
        /\ UNCHANGED <<free_deltanet_slots, seq_to_slot, call, submitted, token_ids>>
    BY DEF EndSchedule, ScheduleChunk, ScheduleNoChunk, ResetLoop, requestVars, seqVars
  <1>2. SlotsApart' /\ call' \subseteq Seqs /\ \A t \in Seqs : HasSlot(t)' <=> HasSlot(t)
    BY <1>1, SteppingFacts, SameSlots
  <1>3. PICK s, q, run, dec : s = Candidate /\ q = waiting /\ run = running /\ dec = decode_seqs
    OBVIOUS
  <1>4. /\ q \in Seq(Seqs) /\ run \in Seq(Seqs) /\ dec \in Seq(Seqs) /\ IsInjective(q)
        /\ Range(q) \cap Range(dec) = {}
    BY <1>3, SteppingFacts DEF QueueTypes, QueuesApart
  <1>5. PICK r, n, m, w \in Nat :
          r = Len(run) /\ n = Len(dec) /\ m = MaxNumSeqs /\ w = Len(q)
    BY <1>4, SlotNumbers
  <1>6. /\ Decoding = r + n /\ r + n <= m
        /\ \A i \in 1 .. w : q[i] \in Seqs /\ (HasSlot(q[i]) => r + n + i <= m)
    BY <1>3, <1>4, <1>5, SteppingFacts DEF Decoding, SlotRoom, Room, NeedsSlot
  <1>7. /\ run \o dec \in Seq(Seqs) /\ Len(run \o dec) = r + n
    BY <1>4, <1>5
  <1>8. /\ pc' \in {"idle", "prepare"} /\ UNCHANGED exception
        /\ pc' = "prepare" => oom_preempted' = <<>>
        /\ SlotRoom'
    <2>1. CASE ScheduleChunk /\ Dispatch(<<Candidate>>)
      <3>1. PICK last \in BOOLEAN :
               /\ waiting' = IF last THEN Tail(q) ELSE q
               /\ running' = (IF last THEN Append(run, s) ELSE run) \o dec
        BY <1>3, <2>1, Zenon DEF ScheduleChunk
      <3>2. q # <<>> /\ s = q[1] /\ w # 0 /\ s \in Seqs
        BY <1>3, <1>4, <1>5, <2>1 DEF ScheduleChunk, MayPrefill, Candidate
      <3>3. /\ pc' \in {"idle", "prepare"} /\ UNCHANGED exception
            /\ pc' = "prepare" =>
                 /\ oom_preempted' = <<>> /\ Range(batch') \subseteq {s} \cup Range(dec)
        <4>1. PICK one : one = <<s>>
          OBVIOUS
        <4>2. one \in Seq(Seqs) /\ Range(one) = {s} /\ Dispatch(one)
          BY <1>3, <2>1, <3>2, <4>1, RangeOfPair
        <4> QED
          BY <1>3, <4>2, SteppingFacts, DispatchWithin
      <3>4. r + n + 1 <= m
        <4>1. n < m /\ ~LimitReached
          BY <1>3, <1>5, <2>1, SchedulerAssumption
             DEF ScheduleChunk, MayPrefill, LimitReached, Budget
        <4>2. CASE run = <<>>
          <5>1. r = 0
            BY <1>5, <4>2
          <5> QED
            BY <1>5, <4>1, <5>1
        <4>3. CASE run # <<>>
          <5>1. PICK p \in Nat : p = preempted
            BY <1>1, SteppingFacts DEF LoopRoom
          <5>2. p >= 1 /\ r + n + p <= m
            BY <1>1, <1>3, <1>5, <1>6, <4>1, <4>3, <5>1, SteppingFacts DEF LoopRoom
          <5> QED
            BY <5>1, <5>2
        <4> QED
          BY <4>2, <4>3
      <3>5. ASSUME NEW i \in 1 .. w, NeedsSlot(q[i])'
            PROVE  HasSlot(q[i]) \/ i = 1
        <4>1. q[i] \in Seqs /\ q[i] \in Range(q)
          BY <1>4, <1>5, <1>6 DEF Range
        <4>2. CASE pc' = "prepare" /\ q[i] \in Range(batch')
          <5>1. q[i] = s
            BY <1>4, <3>3, <4>1, <4>2
          <5> QED
            BY <1>4, <1>5, <3>2, <5>1 DEF IsInjective
        <4> QED
          BY <1>2, <3>5, <4>1, <4>2 DEF NeedsSlot
      <3>6. PICK N : N = {t \in Seqs : NeedsSlot(t)'}
        OBVIOUS
      <3>7. CASE ~last
        <4>1. waiting' = q /\ Decoding' = r + n
          <5>1. Len(running') = r + n /\ Len(decode_seqs') = 0
            BY <1>1, <1>7, <3>1, <3>7
          <5> QED
            BY <1>5, <3>1, <3>7, <5>1 DEF Decoding
        <4>2. ASSUME NEW i \in DOMAIN q, q[i] \in N
              PROVE  (r + n) + i <= m
          <5>1. i \in 1 .. w
            BY <1>4, <1>5, <4>2
          <5>2. HasSlot(q[i]) \/ i = 1
            BY <3>5, <3>6, <4>2, <5>1
          <5> QED
            BY <1>6, <3>4, <5>1, <5>2
        <4>3. Room(q, N, r + n)
          BY <1>5, <4>2 DEF Room
        <4> QED
          BY <1>5, <1>6, <3>3, <3>6, <4>1, <4>3 DEF SlotRoom
      <3>8. CASE last
        <4>1. waiting' = Tail(q) /\ Decoding' = r + n + 1
          <5>1. Append(run, s) \in Seq(Seqs) /\ Len(Append(run, s)) = r + 1
            BY <1>4, <1>5, <3>2
          <5>2. Len(Append(run, s) \o dec) = (r + 1) + n
            BY <1>4, <1>5, <5>1
          <5>3. running' = Append(run, s) \o dec /\ Len(decode_seqs') = 0
            BY <1>1, <3>1, <3>8
          <5>4. (r + 1) + n + 0 = r + n + 1
            BY <1>5
          <5> QED
            BY <3>1, <3>8, <5>2, <5>3, <5>4 DEF Decoding
        <4>2. ASSUME NEW i \in DOMAIN Tail(q), Tail(q)[i] \in N
              PROVE  (r + n + 1) + i <= m
          <5>1. i + 1 \in 1 .. w /\ Tail(q)[i] = q[i + 1] /\ i \in Nat /\ i + 1 # 1
            BY <1>4, <1>5, <3>2, <4>2
          <5>2. PICK j \in 1 .. w : j = i + 1
            BY <5>1
          <5>3. HasSlot(q[j])
            BY <3>5, <3>6, <4>2, <5>1, <5>2
          <5>4. r + n + j <= m
            BY <1>6, <5>2, <5>3
          <5> QED
            BY <1>5, <5>1, <5>2, <5>4
        <4>3. Room(Tail(q), N, r + n + 1)
          BY <1>5, <4>2 DEF Room
        <4> QED
          BY <1>5, <3>3, <3>4, <3>6, <4>1, <4>3 DEF SlotRoom
      <3> QED
        BY <3>7, <3>8
    <2>2. CASE ScheduleNoChunk /\ Dispatch(<<>>)
      <3>1. waiting' = q /\ running' = run \o dec
        BY <1>3, <2>2 DEF ScheduleNoChunk
      <3>2. /\ pc' \in {"idle", "prepare"} /\ UNCHANGED exception
            /\ pc' = "prepare" => oom_preempted' = <<>> /\ Range(batch') \subseteq Range(dec)
        <4>1. PICK none : none = <<>>
          OBVIOUS
        <4>2. none \in Seq(Seqs) /\ Range(none) = {} /\ Dispatch(none)
          BY <2>2, <4>1, EmptyList, Zenon
        <4> QED
          BY <1>3, <4>2, SteppingFacts, DispatchWithin
      <3>3. Decoding' = Decoding
        <4>1. Len(running') = r + n /\ Len(decode_seqs') = 0
          BY <1>1, <1>7, <3>1
        <4> QED
          BY <1>5, <1>6, <4>1 DEF Decoding
      <3>4. ASSUME NEW t \in Range(waiting), NeedsSlot(t)'
            PROVE  NeedsSlot(t)
        <4>1. t \in Seqs
          BY <1>3, <1>4, <3>4 DEF Range
        <4>2. t \notin Range(batch') \/ pc' # "prepare"
          BY <1>3, <1>4, <3>2, <3>4
        <4>3. HasSlot(t)'
          BY <3>4, <4>2 DEF NeedsSlot
        <4> QED
          BY <1>2, <4>1, <4>3 DEF NeedsSlot
      <3>5. SlotRoom'
        <4>1. Decoding \in Nat /\ Decoding' \in Nat /\ Decoding' <= Decoding
          BY <3>3, SteppingFacts
        <4> QED
          BY <1>3, <3>1, <3>4, <4>1, SteppingFacts, RoomKept
      <3> QED
        BY <3>2, <3>5
    <2> QED
      BY <2>1, <2>2 DEF EndSchedule
  <1>9. SlotHolders'
    <2>1. Unfinished \subseteq Unfinished'
      BY <1>1, StillUnfinished
    <2> QED
      BY <1>1, <1>2, <1>8, <2>1, SteppingFacts, EmptyList DEF SlotHolders, Running
  <1>10. LoopRoom'
    BY <1>8 DEF LoopRoom
  <1> QED
    BY <1>2, <1>8, <1>9, <1>10, SteppingFacts DEF SlotInv

(* A step outside schedule() that leaves waiting as it is. *)
LEMMA BatchSlots ==
    ASSUME Stepping, SlotsApart', SlotHolders', Decoding' <= Decoding, UNCHANGED waiting,
           \A t \in Range(waiting) : NeedsSlot(t)' => NeedsSlot(t),
           pc' \notin {"decode", "admit"}, call' \subseteq Seqs,
           exception' # "AssertionError"
    PROVE  SlotInv'
  <1>1. SlotRoom'
    BY SteppingFacts, RoomKept
  <1>2. LoopRoom'
    BY DEF LoopRoom
  <1> QED
    BY <1>1, <1>2 DEF SlotInv

LEMMA BatchMembers ==
    ASSUME QueueTypes
    PROVE  Range(batch) \subseteq Seqs /\ Range(oom_preempted) \subseteq Seqs
  <1>1. PICK p, q : p = batch /\ q = oom_preempted
    OBVIOUS
  <1>2. p \in Seq(Seqs) /\ q \in Seq(Seqs)
    BY <1>1 DEF QueueTypes
  <1>3. Range(p) \subseteq Seqs /\ Range(q) \subseteq Seqs
    BY <1>2 DEF Range
  <1> QED
    BY <1>1, <1>3

LEMMA PrepareSlots ==
    ASSUME Stepping, Prepare
    PROVE  SlotInv'
  <1>1. /\ pc = "prepare" /\ pc \in Running
        /\ UNCHANGED <<token_ids, oom_preempted, batch, waiting, running, decode_seqs, call,
                       submitted>>
    BY DEF Prepare, batchVars, queueVars, loopVars, requestVars, Running
  <1>2. decode_seqs = <<>>
    BY <1>1, SteppingFacts DEF LoopInv
  <1>3. SlotsSuffice
    BY <1>1, <1>2, SteppingFacts, SlotsAreEnough
  <1>4. PrepareStates /\ pc' = "forward" /\ UNCHANGED exception
    BY <1>3 DEF Prepare, Goto
  <1>5. /\ IsInjective(batch) /\ Range(batch) \subseteq Unfinished
        /\ Range(oom_preempted) \cap Range(batch) = {}
    BY <1>1, SteppingFacts DEF BatchInv
  <1>6. SlotsApart' /\ \A t \in Seqs : HasSlot(t)' <=> HasSlot(t) \/ t \in Range(batch)
    BY <1>4, <1>5, SteppingFacts, TakenSlots
  <1>7. Unfinished \subseteq Unfinished' /\ Unfinished \subseteq Seqs
    BY <1>1, StillUnfinished, SteppingFacts, InQueues
  <1>8. SlotHolders'
    <2>1. Range(batch) \subseteq Seqs /\ Range(oom_preempted) \subseteq Seqs
      BY SteppingFacts, BatchMembers
    <2> QED
      BY <1>1, <1>4, <1>5, <1>6, <1>7, <2>1, SteppingFacts DEF SlotHolders
  <1>9. Decoding' <= Decoding
    BY <1>1, SteppingFacts DEF Decoding
  <1>10. \A t \in Range(waiting) : NeedsSlot(t)' => NeedsSlot(t)
    <2>1. Range(waiting) \subseteq Seqs
      BY SteppingFacts, InQueues
    <2> QED
      BY <1>1, <1>4, <1>6, <2>1 DEF NeedsSlot
  <1> QED
    BY <1>1, <1>4, <1>6, <1>8, <1>9, <1>10, SteppingFacts, BatchSlots

(* The steps of a batch that neither take a slot nor give one back.        *)
LEMMA QuietSlots ==
    ASSUME Stepping, Forward \/ GiveUp \/ EndRequeue \/ Record
    PROVE  SlotInv'
  <1>1. /\ UNCHANGED <<free_deltanet_slots, seq_to_slot, token_ids, oom_preempted, batch,
                       waiting, running, decode_seqs, call, submitted>>
        /\ pc \in {"forward", "requeue", "record"}
        /\ pc' \in {"requeue", "raised", "record", "sample"}
        /\ pc' = "requeue" => pc = "forward"
        /\ pc = "record" => pc' = "sample"
        /\ exception' \in {exception, "ValueError", "IndexError", "RuntimeError"}
    BY DEF Forward, GiveUp, EndRequeue, Record, Goto, Raise, batchVars, queueVars, loopVars,
           requestVars, runnerVars, seqVars
  <1>2. SlotsApart' /\ \A t \in Seqs : HasSlot(t)' <=> HasSlot(t)
    BY <1>1, SteppingFacts, SameSlots
  <1>3. Unfinished \subseteq Unfinished'
    BY <1>1, StillUnfinished
  <1>4. SlotHolders'
    <2>1. Range(oom_preempted) \subseteq Seqs
      BY SteppingFacts, BatchMembers
    <2> QED
      BY <1>1, <1>2, <1>3, <2>1, SteppingFacts DEF SlotHolders, Running
  <1>5. Decoding' <= Decoding
    BY <1>1, SteppingFacts DEF Decoding
  <1>6. \A t \in Range(waiting) : NeedsSlot(t)' => NeedsSlot(t)
    BY <1>1, <1>2, SteppingFacts, InQueues DEF NeedsSlot
  <1>7. call' \subseteq Seqs /\ exception' # "AssertionError"
    BY <1>1, SteppingFacts
  <1> QED
    BY <1>1, <1>2, <1>4, <1>5, <1>6, <1>7, BatchSlots

LEMMA SampleSlots ==
    ASSUME Stepping, Sample
    PROVE  SlotInv'
  <1>1. PICK s : s = Head(todo)
    OBVIOUS
  <1>2. /\ UNCHANGED <<free_deltanet_slots, seq_to_slot, oom_preempted, batch, waiting,
                       decode_seqs, call, submitted, exception>>
        /\ pc = "sample" /\ pc' = "record"
        /\ \/ UNCHANGED <<seq, running>>
           \/ AppendToken(s)
    BY <1>1 DEF Sample, Goto, batchVars, loopVars, requestVars, seqVars
  <1>3. s \in Range(batch) /\ s \in Seqs /\ IsInjective(running) /\ running \in Seq(Seqs)
    <2>1. pc \in Processing /\ todo # <<>> /\ todo \in Seq(Seqs)
      BY <1>2, SteppingFacts DEF Processing, BatchInv, QueueTypes
    <2>2. s \in Range(todo)
      BY <1>1, <2>1 DEF Range
    <2> QED
      BY <2>1, <2>2, SteppingFacts, InQueues DEF BatchInv, QueuesApart, QueueTypes
  <1>4. /\ \A t \in Seqs : t # s => seq'[t] = seq[t]
        /\ running' = running \/ running' = Without(running, s)
    <2>1. CASE UNCHANGED <<seq, running>>
      BY <2>1
    <2>2. CASE AppendToken(s)
      <3>1. \/ UNCHANGED <<seq, running>>
            \/ Finish(s)
        BY <2>2 DEF AppendToken
      <3>2. ASSUME Finish(s)
            PROVE  \A t \in Seqs : t # s => seq'[t] = seq[t]
        BY <3>2, SteppingFacts DEF Finish, SeqTypes
      <3> QED
        BY <3>1, <3>2 DEF Finish
    <2> QED
      BY <1>2, <2>1, <2>2
  <1>5. SlotsApart' /\ \A t \in Seqs : HasSlot(t)' <=> HasSlot(t)
    BY <1>2, SteppingFacts, SameSlots
  <1>6. SlotHolders'
    <2>1. \A t \in Unfinished : t # s => t \in Unfinished'
      BY <1>2, <1>4, SteppingFacts, InQueues DEF Unfinished, Finished
    <2> QED
      BY <1>2, <1>3, <1>5, <2>1, SteppingFacts DEF SlotHolders, Running
  <1>7. Decoding' <= Decoding
    <2>1. PICK r, n, k \in Nat : r = Len(running) /\ n = Len(decode_seqs) /\ k = Len(running')
      <3>0. QueueTypes /\ QueueTypes'
        BY SteppingFacts
      <3>1. Len(running) \in Nat /\ Len(decode_seqs) \in Nat
        BY <3>0 DEF QueueTypes
      <3>2. Len(running') \in Nat
        BY <3>0 DEF QueueTypes
      <3> QED
        BY <3>1, <3>2
    <2>2. k <= r
      <3>1. PICK q : q = running
        OBVIOUS
      <3>2. Len(Without(q, s)) <= Len(q)
        BY <1>3, <3>1, WithoutShrinks
      <3> QED
        BY <1>4, <2>1, <3>1, <3>2
    <2>3. k + n <= r + n
      BY <2>2
    <2> QED
      BY <1>2, <2>1, <2>3 DEF Decoding
  <1>8. \A t \in Range(waiting) : NeedsSlot(t)' => NeedsSlot(t)
    BY <1>2, <1>5, SteppingFacts, InQueues DEF NeedsSlot
  <1> QED
    BY <1>2, <1>5, <1>6, <1>7, <1>8, SteppingFacts, BatchSlots

LEMMA RetrySlots ==
    ASSUME Stepping, Retry
    PROVE  SlotInv'
  <1>1. PICK last : last = Last(batch)
    OBVIOUS
  <1>2. /\ pc = "forward" /\ pc \in Running /\ pc' = "prepare"
        /\ UNCHANGED <<token_ids, waiting, running, decode_seqs, call, submitted, exception>>
        /\ IF Len(batch) > 1
           THEN /\ batch' = Front(batch)
                /\ oom_preempted' = Append(oom_preempted, last)
                /\ free_deltanet_slots' = Append(free_deltanet_slots, seq_to_slot[last])
                /\ seq_to_slot' = [seq_to_slot EXCEPT ![last] = NoSlot]
           ELSE UNCHANGED <<batch, oom_preempted, free_deltanet_slots, seq_to_slot>>
    BY <1>1 DEF Retry, OutOfMemory, Goto, Running, seqVars, queueVars, loopVars, requestVars
  <1>3. Unfinished \subseteq Unfinished'
    BY <1>2, StillUnfinished
  <1>4. /\ SlotsApart' /\ \A t \in Seqs : HasSlot(t)' => HasSlot(t)
        /\ Range(batch') \subseteq Range(batch)
        /\ \A t \in Range(oom_preempted') : ~HasSlot(t)'
    <2>1. CASE Len(batch) > 1
      <3>1. PICK q, p : q = batch /\ p = oom_preempted
        OBVIOUS
      <3>2. q \in Seq(Seqs) /\ p \in Seq(Seqs) /\ Len(q) > 1
        BY <2>1, <3>1, SteppingFacts DEF QueueTypes
      <3>3. q # <<>>
        BY <3>2
      <3>4. Range(q) = Range(Front(q)) \cup {last} /\ last \in Seqs
        <4>1. Range(q) = Range(Front(q)) \cup {Last(q)}
          BY <3>2, <3>3, FrontAndLast
        <4>2. Range(q) \subseteq Seqs
          BY <3>2 DEF Range
        <4> QED
          BY <1>1, <3>1, <4>1, <4>2
      <3>5. Range(Append(p, last)) = Range(p) \cup {last} /\ Range(p) \subseteq Seqs
        BY <3>1, <3>2, <3>4, RangeOfAppend, SteppingFacts, BatchMembers
      <3>6. HasSlot(last) /\ seq_to_slot[last] \in Slots
        BY <1>2, <3>1, <3>4, SteppingFacts DEF SlotHolders, SlotsApart, HasSlot
      <3>7. PICK given, losers : given = <<seq_to_slot[last]>> /\ losers = {last}
        OBVIOUS
      <3>8. /\ given \in Seq(Slots) /\ IsInjective(given)
            /\ Range(given) = {seq_to_slot[last]} /\ losers \in SUBSET Seqs
        BY <3>4, <3>6, <3>7, RangeOfPair
      <3>9. \A i \in Slots :
              i \in Range(given) <=> \E s \in losers : HasSlot(s) /\ seq_to_slot[s] = i
        BY <3>6, <3>7, <3>8
      <3>10. free_deltanet_slots' = free_deltanet_slots \o given
        <4>1. PICK free, i : free = free_deltanet_slots /\ i = seq_to_slot[last]
          OBVIOUS
        <4>2. free \in Seq(Slots) /\ i \in Slots
          BY <3>6, <4>1, SteppingFacts DEF SlotsApart
        <4>3. Append(free, i) = free \o <<i>>
          BY <4>2
        <4> QED
          BY <1>2, <2>1, <3>7, <4>1, <4>3
      <3>11. seq_to_slot' = [s \in Seqs |-> IF s \in losers THEN NoSlot ELSE seq_to_slot[s]]
        BY <1>2, <2>1, <3>7, SteppingFacts DEF SlotsApart
      <3>12. SlotsApart' /\ \A t \in Seqs : HasSlot(t)' <=> HasSlot(t) /\ t \notin losers
        BY <3>8, <3>9, <3>10, <3>11, SteppingFacts, SlotsReturned
      <3>13. \A t \in Range(p) : ~HasSlot(t)
        BY <1>2, <3>1, SteppingFacts DEF SlotHolders
      <3> QED
        BY <1>2, <2>1, <3>1, <3>4, <3>5, <3>7, <3>12, <3>13
    <2>2. CASE ~(Len(batch) > 1)
      <3>1. SlotsApart' /\ \A t \in Seqs : HasSlot(t)' <=> HasSlot(t)
        BY <1>2, <2>2, SteppingFacts, SameSlots
      <3>2. Range(oom_preempted) \subseteq Seqs
        BY SteppingFacts, BatchMembers
      <3> QED
        BY <1>2, <2>2, <3>1, <3>2, SteppingFacts DEF SlotHolders
    <2> QED
      BY <2>1, <2>2
  <1>5. SlotHolders'
    BY <1>2, <1>3, <1>4, SteppingFacts DEF SlotHolders
  <1>6. Decoding' <= Decoding
    BY <1>2, SteppingFacts DEF Decoding
  <1>7. \A t \in Range(waiting) : NeedsSlot(t)' => NeedsSlot(t)
    <2>1. \A t \in Range(batch) : HasSlot(t)
      BY <1>2, SteppingFacts DEF SlotHolders
    <2> QED
      BY <1>2, <1>4, <2>1, SteppingFacts, InQueues DEF NeedsSlot
  <1> QED
    BY <1>2, <1>4, <1>5, <1>6, <1>7, SteppingFacts, BatchSlots

LEMMA RequeueSlots ==
    ASSUME Stepping, Requeue
    PROVE  SlotInv'
  <1>1. PICK s : s = Head(oom_preempted)
    OBVIOUS
  <1>2. /\ pc = "requeue" /\ pc \in Running /\ pc' = "requeue" /\ oom_preempted # <<>>
        /\ waiting' = <<s>> \o waiting /\ running' = Without(running, s)
        /\ oom_preempted' = Tail(oom_preempted)
        /\ UNCHANGED <<free_deltanet_slots, seq_to_slot, token_ids, batch, decode_seqs, call,
                       submitted, exception>>
    BY <1>1 DEF Requeue, batchVars, loopVars, requestVars, Running
  <1>3. /\ Range(oom_preempted) = {s} \cup Range(oom_preempted') /\ s \in Range(oom_preempted)
        /\ s \in Range(running) /\ s \in Seqs /\ ~HasSlot(s)
    <2>1. PICK p : p = oom_preempted
      OBVIOUS
    <2>2. p \in Seq(Seqs) /\ p # <<>>
      BY <1>2, <2>1, SteppingFacts DEF QueueTypes
    <2>3. Range(p) = {Head(p)} \cup Range(Tail(p))
      BY <2>2, HeadAndTail
    <2>4. Range(oom_preempted) = {s} \cup Range(oom_preempted')
      BY <1>1, <1>2, <2>1, <2>3
    <2> QED
      BY <1>2, <2>4, SteppingFacts, InQueues DEF BatchInv, SlotHolders
  <1>4. SlotsApart' /\ \A t \in Seqs : HasSlot(t)' <=> HasSlot(t)
    BY <1>2, SteppingFacts, SameSlots
  <1>5. Unfinished \subseteq Unfinished'
    BY <1>2, StillUnfinished
  <1>6. SlotHolders'
    <2>1. Range(oom_preempted) \subseteq Seqs
      BY SteppingFacts, BatchMembers
    <2> QED
      BY <1>2, <1>3, <1>4, <1>5, <2>1, SteppingFacts DEF SlotHolders
  <1>7. Decoding' + 1 <= Decoding
    <2>1. PICK q : q = running
      OBVIOUS
    <2>2. q \in Seq(Seqs) /\ IsInjective(q) /\ s \in Range(q)
      BY <1>3, <2>1, SteppingFacts DEF QueueTypes, QueuesApart
    <2>3. Len(Without(q, s)) = Len(q) - 1
      BY <2>2, WithoutLength
    <2>4. PICK r, n \in Nat : r = Len(running) /\ n = Len(decode_seqs)
      <3>1. QueueTypes
        BY SteppingFacts
      <3> QED
        BY <3>1 DEF QueueTypes
    <2>5. Decoding = r + n /\ Decoding' = (r - 1) + n
      BY <1>2, <2>1, <2>3, <2>4 DEF Decoding
    <2> QED
      BY <2>4, <2>5
  <1>8. SlotRoom'
    <2>1. ~NeedsSlot(s)'
      BY <1>2, <1>3, <1>4 DEF NeedsSlot
    <2>2. \A t \in Range(waiting) : NeedsSlot(t)' => NeedsSlot(t)
      BY <1>2, <1>4, SteppingFacts, InQueues DEF NeedsSlot
    <2>3. QueueTypes /\ SlotRoom /\ Decoding \in Nat /\ Decoding' \in Nat
      BY SteppingFacts
    <2> QED
      BY <1>2, <1>7, <2>1, <2>2, <2>3, RoomPreempt
  <1>9. LoopRoom'
    BY <1>2 DEF LoopRoom
  <1> QED
    BY <1>2, <1>4, <1>6, <1>8, <1>9, SteppingFacts DEF SlotInv

LEMMA FinalizeSlots ==
    ASSUME Stepping, Finalize
    PROVE  SlotInv'
  <1>1. PICK S, q : S = {s \in Seqs : Finished(s)} /\ q = batch
    OBVIOUS
  <1>2. PICK gone : gone = Only(q, S)
    OBVIOUS
  <1>3. /\ pc = "record" /\ pc \in Processing /\ FreeSlots(gone)
        /\ UNCHANGED <<seq, token_ids, oom_preempted, waiting, running, decode_seqs, call,
                       submitted, exception>>
        /\ \/ pc' \in {"advance", "idle"}
           \/ pc' = "prepare" /\ ~batch_is_prefill'
    BY <1>1, <1>2 DEF Finalize, StartBatch, Goto, Processing, seqVars, loopVars, queueVars
  <1>4. /\ q \in Seq(Seqs) /\ IsInjective(q) /\ Range(q) \subseteq submitted
        /\ oom_preempted = <<>>
    BY <1>1, <1>3, SteppingFacts DEF QueueTypes, BatchInv
  <1>5. gone \in Seq(Seqs) /\ IsInjective(gone) /\ Range(gone) = Range(q) \cap S
    BY <1>1, <1>2, <1>4, OnlyKeeps
  <1>6. SlotsApart' /\ \A t \in Seqs : HasSlot(t)' <=> HasSlot(t) /\ t \notin Range(gone)
    BY <1>3, <1>5, SteppingFacts, FreedSlots
  <1>7. Unfinished \subseteq Unfinished'
    BY <1>3, StillUnfinished
  <1>8. SlotHolders'
    <2>1. \A t \in Seqs : HasSlot(t)' => t \in Unfinished
      BY <1>1, <1>3, <1>4, <1>5, <1>6, SteppingFacts DEF SlotHolders, Unfinished
    <2> QED
      BY <1>3, <1>4, <1>7, <2>1, EmptyList DEF SlotHolders
  <1>9. Decoding' <= Decoding
    BY <1>3, SteppingFacts DEF Decoding
  <1>10. \A t \in Range(waiting) : NeedsSlot(t)' => NeedsSlot(t)
    <2>1. pc' = "prepare" => Range(batch') \cap Range(waiting) = {}
      BY <1>3, SteppingFacts DEF BatchInv, Running, Stepping
    <2> QED
      BY <1>6, <2>1, SteppingFacts, InQueues DEF NeedsSlot
  <1> QED
    BY <1>3, <1>6, <1>8, <1>9, <1>10, SteppingFacts, BatchSlots

LEMMA AdvanceSlots ==
    ASSUME Stepping, Advance
    PROVE  SlotInv'
  <1>1. PICK s : s = Head(todo)
    OBVIOUS
  <1>2. /\ pc = "advance" /\ pc \in Processing /\ todo # <<>> /\ decode_seqs = <<>>
        /\ UNCHANGED <<batch, decode_list, decode_seqs, call, submitted>>
    BY SteppingFacts DEF Advance, batchVars, requestVars, LoopInv, Processing
  <1>3. running # <<>>
    <2>1. s \in Range(todo)
      BY <1>1, <1>2, SteppingFacts DEF QueueTypes, Range
    <2>2. s \in Range(batch) /\ s \in Unfinished /\ s \notin Range(waiting)
      BY <1>2, <2>1, SteppingFacts DEF BatchInv, Stepping, Undisturbed, AdvancesRunning
    <2>3. s \in Range(running)
      BY <1>2, <2>2, SteppingFacts, EmptyList DEF QueuesApart
    <2> QED
      BY <2>3, EmptyList
  <1>4. CASE AdvancePreempt(s) /\ UNCHANGED <<todo, pc, exception>>
    <2>1. /\ SlotsApart' /\ SlotHolders' /\ SlotRoom' /\ call' \subseteq Seqs
          /\ exception' # "AssertionError"
      BY <1>2, <1>3, <1>4, PreemptSlots DEF AdvancePreempt
    <2>2. LoopRoom'
      BY <1>2, <1>4 DEF LoopRoom
    <2> QED
      BY <2>1, <2>2 DEF SlotInv
  <1>5. CASE /\ UNCHANGED <<free_deltanet_slots, seq_to_slot, token_ids, oom_preempted,
                            waiting, running>>
             /\ pc' \in {"advance", "raised"}
             /\ exception' \in {exception, "IndexError"}
    <2>1. SlotsApart' /\ \A t \in Seqs : HasSlot(t)' <=> HasSlot(t)
      BY <1>5, SteppingFacts, SameSlots
    <2>2. Unfinished \subseteq Unfinished'
      BY <1>2, <1>5, StillUnfinished
    <2>3. SlotHolders'
      BY <1>2, <1>5, <2>1, <2>2, SteppingFacts DEF SlotHolders, Running
    <2>4. Decoding' <= Decoding
      BY <1>2, <1>5, SteppingFacts DEF Decoding
    <2>5. \A t \in Range(waiting) : NeedsSlot(t)' => NeedsSlot(t)
      BY <1>5, <2>1, SteppingFacts, InQueues DEF NeedsSlot
    <2>6. call' \subseteq Seqs /\ exception' # "AssertionError"
      BY <1>2, <1>5, SteppingFacts
    <2> QED
      BY <1>5, <2>1, <2>3, <2>4, <2>5, <2>6, BatchSlots
  <1> QED
    BY <1>1, <1>2, <1>4, <1>5 DEF Advance, AdvanceAppend, Raise, runnerVars, queueVars, seqVars

LEMMA EndAdvanceSlots ==
    ASSUME Stepping, EndAdvance
    PROVE  SlotInv'
  <1>1. /\ pc = "advance" /\ pc \in Processing
        /\ UNCHANGED <<free_deltanet_slots, seq_to_slot, token_ids, oom_preempted, waiting,
                       running, decode_seqs, call, submitted, exception>>
        /\ \/ pc' = "idle"
           \/ pc' = "prepare" /\ ~batch_is_prefill'
    BY DEF EndAdvance, StartBatch, Goto, Processing, seqVars, runnerVars, loopVars, queueVars,
           requestVars
  <1>2. SlotsApart' /\ \A t \in Seqs : HasSlot(t)' <=> HasSlot(t)
    BY <1>1, SteppingFacts, SameSlots
  <1>3. Unfinished \subseteq Unfinished'
    BY <1>1, StillUnfinished
  <1>4. SlotHolders'
    <2>1. oom_preempted = <<>>
      BY <1>1, SteppingFacts DEF BatchInv
    <2> QED
      BY <1>1, <1>2, <1>3, <2>1, SteppingFacts, EmptyList DEF SlotHolders
  <1>5. Decoding' <= Decoding
    BY <1>1, SteppingFacts DEF Decoding
  <1>6. \A t \in Range(waiting) : NeedsSlot(t)' => NeedsSlot(t)
    <2>1. pc' = "prepare" => Range(batch') \cap Range(waiting) = {}
      BY <1>1, SteppingFacts DEF BatchInv, Running, Stepping
    <2> QED
      BY <1>2, <2>1, SteppingFacts, InQueues DEF NeedsSlot
  <1> QED
    BY <1>1, <1>2, <1>4, <1>5, <1>6, SteppingFacts, BatchSlots

(* New prompts wait behind the others and hold no slot yet. *)
LEMMA RoomAppended ==
    ASSUME QueueTypes, SlotRoom, NEW p \in Seq(Seqs), waiting' = waiting \o p,
           Decoding \in Nat, Decoding' = Decoding,
           \A t \in Range(waiting) : NeedsSlot(t)' => NeedsSlot(t),
           \A t \in Range(p) : ~NeedsSlot(t)'
    PROVE  SlotRoom'
  <1>1. PICK q, r, d, N : /\ q = waiting /\ r = q \o p /\ d = Decoding
                          /\ N = {s \in Seqs : NeedsSlot(s)'}
    OBVIOUS
  <1>2. q \in Seq(Seqs) /\ d \in Nat /\ d <= MaxNumSeqs
    BY <1>1 DEF QueueTypes, SlotRoom
  <1>3. PICK w, n \in Nat : w = Len(q) /\ n = Len(p)
    BY <1>2
  <1>4. /\ DOMAIN q = 1 .. w /\ DOMAIN p = 1 .. n
        /\ \A i \in DOMAIN r : \/ i \in 1 .. w /\ r[i] = q[i]
                               \/ \E j \in 1 .. n : r[i] = p[j]
    <2>1. /\ DOMAIN q = 1 .. w /\ DOMAIN p = 1 .. n /\ DOMAIN r = 1 .. (w + n)
          /\ \A i \in 1 .. (w + n) : r[i] = IF i <= w THEN q[i] ELSE p[i - w]
      BY <1>1, <1>2, <1>3
    <2>2. ASSUME NEW i \in 1 .. (w + n), ~(i <= w)
          PROVE  i - w \in 1 .. n /\ r[i] = p[i - w]
      BY <1>3, <2>1, <2>2
    <2> QED
      BY <1>3, <2>1, <2>2
  <1>5. Room(q, {s \in Seqs : NeedsSlot(s)}, d)
    BY <1>1 DEF SlotRoom
  <1>6. ASSUME NEW i \in DOMAIN r, r[i] \in N
        PROVE  d + i <= MaxNumSeqs
    <2>1. \A j \in 1 .. n : p[j] \in Range(p) /\ ~(p[j] \in N)
      BY <1>1, <1>4 DEF Range
    <2>2. i \in DOMAIN q /\ r[i] = q[i]
      BY <1>4, <1>6, <2>1
    <2>3. q[i] \in Range(q) /\ q[i] \in Seqs /\ NeedsSlot(q[i])
      BY <1>1, <1>6, <2>2 DEF Range
    <2> QED
      BY <1>5, <2>2, <2>3 DEF Room
  <1>7. Room(r, N, d)
    BY <1>6 DEF Room
  <1> QED
    BY <1>1, <1>2, <1>7 DEF SlotRoom

LEMMA PromptSlots ==
    ASSUME Stepping, pc = "idle", NEW prompts \in Seq(Seqs),
           Range(prompts) \cap submitted = {}, waiting' = waiting \o prompts,
           submitted \subseteq submitted', call' \subseteq Seqs,
           UNCHANGED <<seqVars, runnerVars, batchVars, running, loopVars, pc, exception>>
    PROVE  SlotInv'
  <1>1. UNCHANGED <<free_deltanet_slots, seq_to_slot, token_ids, oom_preempted, running,
                    decode_seqs, batch>>
    BY DEF seqVars, runnerVars, loopVars, batchVars
  <1>2. SlotsApart' /\ \A t \in Seqs : HasSlot(t)' <=> HasSlot(t)
    BY <1>1, SteppingFacts, SameSlots
  <1>3. Unfinished \subseteq Unfinished'
    BY <1>1, StillUnfinished
  <1>4. \A t \in Seqs : HasSlot(t) => t \in Unfinished
    BY SteppingFacts DEF SlotHolders
  <1>5. SlotHolders'
    BY <1>2, <1>3, <1>4 DEF SlotHolders, Running
  <1>6. SlotRoom'
    <2>1. \A t \in Seqs : NeedsSlot(t)' <=> HasSlot(t)
      BY <1>2 DEF NeedsSlot
    <2>2. \A t \in Range(waiting) : NeedsSlot(t)' => NeedsSlot(t)
      BY <2>1, SteppingFacts, InQueues DEF NeedsSlot
    <2>3. \A t \in Range(prompts) : ~NeedsSlot(t)'
      BY <1>4, <2>1 DEF Range, Unfinished
    <2>4. QueueTypes /\ SlotRoom /\ Decoding \in Nat /\ Decoding' = Decoding
      BY <1>1, SteppingFacts DEF Decoding
    <2> QED
      BY <2>2, <2>3, <2>4, RoomAppended
  <1>7. LoopRoom'
    BY DEF LoopRoom
  <1> QED
    BY <1>2, <1>5, <1>6, <1>7, SteppingFacts DEF SlotInv

LEMMA GenerateSlots ==
    ASSUME Stepping, Generate \/ GenerateRejected
    PROVE  SlotInv'
  <1>1. CASE Generate
    <2>1. PICK new \in SUBSET (Seqs \ submitted) :
             \E prompts \in SetToSeqs(new) :
                /\ waiting' = waiting \o prompts /\ call' = new
                /\ submitted' = submitted \cup new
      BY <1>1 DEF Generate
    <2>2. PICK prompts \in SetToSeqs(new) : waiting' = waiting \o prompts
      BY <2>1
    <2>3. IsFiniteSet(new)
      BY PoolAssumption, FS_Subset
    <2>4. prompts \in Seq(new) /\ Range(prompts) = new
      BY <2>3, OrderingOf
    <2>5. prompts \in Seq(Seqs) /\ Range(prompts) \cap submitted = {}
      BY <2>4
    <2> QED
      BY <1>1, <2>1, <2>2, <2>5, PromptSlots DEF Generate
  <1>2. CASE GenerateRejected
    <2>1. PICK s \in Seqs \ submitted :
             waiting' = Append(waiting, s) /\ submitted' = submitted \cup {s}
      BY <1>2 DEF GenerateRejected
    <2>2. PICK prompts, q : prompts = <<s>> /\ q = waiting
      OBVIOUS
    <2>3. prompts \in Seq(Seqs) /\ Range(prompts) \cap submitted = {}
      BY <2>2, RangeOfPair
    <2>4. q \in Seq(Seqs)
      BY <2>2, SteppingFacts DEF QueueTypes
    <2>5. Append(q, s) = q \o <<s>>
      BY <2>4
    <2>6. waiting' = waiting \o prompts
      BY <2>1, <2>2, <2>5
    <2> QED
      BY <1>2, <2>1, <2>3, <2>6, SteppingFacts, PromptSlots DEF GenerateRejected
  <1> QED
    BY <1>1, <1>2

(* The end of a call gives back the slots of its sequences. *)
LEMMA CleanupSlots ==
    ASSUME Stepping, Return \/ Abandon \/ Recover
    PROVE  SlotInv'
  <1>1. PICK ss : ss = SetToSeq(call \cap all_seqs)
    OBVIOUS
  <1>2. /\ FreeSlots(ss) /\ call' = {} /\ pc \in {"idle", "raised"} /\ pc' = "idle"
        /\ UNCHANGED <<token_ids, waiting, running, submitted, exception, oom_preempted>>
    BY <1>1 DEF Return, Abandon, Recover, Cleanup, Goto, seqVars, queueVars
  <1>3. ss \in Seq(Seqs) /\ IsInjective(ss)
    <2>1. PICK S : S = call \cap all_seqs
      OBVIOUS
    <2>2. S \subseteq Seqs /\ IsFiniteSet(S)
      BY <2>1, SteppingFacts, PoolAssumption, FS_Subset
    <2>3. ss \in Seq(S) /\ IsInjective(ss)
      BY <1>1, <2>1, <2>2, SomeOrderingOf
    <2> QED
      BY <2>2, <2>3
  <1>4. SlotsApart' /\ \A t \in Seqs : HasSlot(t)' <=> HasSlot(t) /\ t \notin Range(ss)
    BY <1>2, <1>3, SteppingFacts, FreedSlots
  <1>5. Unfinished \subseteq Unfinished'
    BY <1>2, StillUnfinished
  <1>6. SlotHolders'
    BY <1>2, <1>4, <1>5, SteppingFacts DEF SlotHolders, Running
  <1>7. Decoding' <= Decoding
    <2>1. decode_seqs = <<>>
      BY <1>2, SteppingFacts DEF LoopInv
    <2>2. decode_seqs' = <<>>
      BY <2>1 DEF Return, Abandon, Recover, ResetLoop, loopVars
    <2> QED
      BY <1>2, <2>1, <2>2, SteppingFacts DEF Decoding
  <1>8. \A t \in Range(waiting) : NeedsSlot(t)' => NeedsSlot(t)
    BY <1>2, <1>4, SteppingFacts, InQueues DEF NeedsSlot
  <1> QED
    BY <1>2, <1>4, <1>6, <1>7, <1>8, SteppingFacts, BatchSlots

LEMMA BeginStepSlots ==
    ASSUME Stepping, BeginStep
    PROVE  SlotInv'
  <1>1. /\ pc = "idle" /\ pc' = "decode" /\ decode_list' = running /\ decode_seqs' = <<>>
        /\ preempted' = 0 /\ ~tried'
        /\ UNCHANGED <<free_deltanet_slots, seq_to_slot, token_ids, oom_preempted, batch,
                       waiting, running, call, submitted, exception>>
    BY DEF BeginStep, StartSchedule, Goto, seqVars, runnerVars, batchVars, queueVars,
           requestVars
  <1>2. decode_seqs = <<>>
    BY <1>1, SteppingFacts DEF LoopInv
  <1>3. SlotsApart' /\ \A t \in Seqs : HasSlot(t)' <=> HasSlot(t)
    BY <1>1, SteppingFacts, SameSlots
  <1>4. Unfinished \subseteq Unfinished'
    BY <1>1, StillUnfinished
  <1>5. SlotHolders'
    BY <1>1, <1>3, <1>4, SteppingFacts DEF SlotHolders, Running
  <1>6. Decoding' = Decoding
    BY <1>1, <1>2 DEF Decoding
  <1>7. SlotRoom'
    <2>1. \A t \in Range(waiting) : NeedsSlot(t)' => NeedsSlot(t)
      BY <1>1, <1>3, SteppingFacts, InQueues DEF NeedsSlot
    <2>2. Decoding' <= Decoding
      BY <1>6, SteppingFacts
    <2> QED
      BY <1>1, <2>1, <2>2, SteppingFacts, RoomKept
  <1>8. LoopRoom'
    <2>1. PICK d, m \in Nat : d = Decoding' /\ m = MaxNumSeqs
      BY SteppingFacts, SlotNumbers
    <2>2. d <= m
      BY <1>6, <2>1, SteppingFacts DEF SlotRoom
    <2>3. d + 0 <= m
      BY <2>2
    <2> QED
      BY <1>1, <2>1, <2>3 DEF LoopRoom
  <1> QED
    BY <1>1, <1>3, <1>5, <1>7, <1>8, SteppingFacts DEF SlotInv

LEMMA SlotStutter == ASSUME SlotInv, UNCHANGED vars PROVE SlotInv'
  <1>1. /\ UNCHANGED <<free_deltanet_slots, seq_to_slot, call, exception, pc, waiting,
                       running, decode_seqs, decode_list, preempted, tried, batch>>
        /\ UNCHANGED <<oom_preempted, submitted, seq>>
    BY DEF vars, runnerVars, requestVars, queueVars, loopVars, batchVars, seqVars
  <1>2. \A s : (HasSlot(s)' <=> HasSlot(s)) /\ (NeedsSlot(s)' <=> NeedsSlot(s))
    BY <1>1 DEF HasSlot, NeedsSlot
  <1>3. Unfinished' = Unfinished /\ Decoding' = Decoding /\ (LimitReached' <=> LimitReached)
    BY <1>1 DEF Unfinished, Finished, Decoding, LimitReached
  <1>4. SlotsApart' <=> SlotsApart
    BY <1>1, <1>2 DEF SlotsApart
  <1>5. SlotHolders' <=> SlotHolders
    BY <1>1, <1>2, <1>3 DEF SlotHolders
  <1>6. SlotRoom' <=> SlotRoom
    BY <1>1, <1>2, <1>3 DEF SlotRoom
  <1>7. LoopRoom' <=> LoopRoom
    BY <1>1, <1>3 DEF LoopRoom
  <1> QED
    BY <1>1, <1>4, <1>5, <1>6, <1>7 DEF SlotInv

(* A KeyError that left schedule() ends the engine. *)
LEMMA KeyErrorStays ==
    ASSUME QueueInv, [EngineNext]_vars, exception = "KeyError"
    PROVE  UNCHANGED vars
  <1>1. pc = "raised" /\ ~ServeAfterError
    BY DEF QueueInv
  <1> QED
    BY <1>1 DEF EngineNext, EngineStep, Generate, GenerateRejected, Abandon, BeginStep,
                Schedule, ScheduleDecode, SchedulePreempt, EndDecode, AdmitShared,
                AdmitFresh, EndSchedule, ScheduleChunk, ScheduleNoChunk, Prepare, Forward,
                Retry, GiveUp, Requeue, EndRequeue, Record, Sample, Finalize, Advance,
                EndAdvance, Return, Recover, Stopped

LEMMA SlotStep ==
    ASSUME QueueInv, SlotInv, Undisturbed, [EngineNext]_vars, QueueInv'
    PROVE  SlotInv'
  <1>1. CASE exception = "KeyError"
    BY <1>1, KeyErrorStays, SlotStutter
  <1>2. CASE exception # "KeyError"
    <2>1. Stepping
      BY <1>2 DEF Stepping
    <2>2. CASE Schedule
      BY <2>1, <2>2, ScheduleDecodeSlots, SchedulePreemptSlots, AdmitSlots, EndScheduleSlots
         DEF Schedule
    <2>3. CASE Prepare \/ Forward \/ Retry \/ GiveUp \/ Requeue \/ EndRequeue
      BY <2>1, <2>3, PrepareSlots, QuietSlots, RetrySlots, RequeueSlots
    <2>4. CASE Record \/ Sample \/ Finalize \/ Advance \/ EndAdvance
      BY <2>1, <2>4, QuietSlots, SampleSlots, FinalizeSlots, AdvanceSlots, EndAdvanceSlots
    <2>5. CASE Generate \/ GenerateRejected \/ Return \/ Abandon \/ Recover \/ BeginStep
      BY <2>1, <2>5, GenerateSlots, CleanupSlots, BeginStepSlots
    <2>6. CASE Stopped \/ UNCHANGED vars
      BY <2>6, SlotStutter DEF Stopped
    <2> QED
      BY <2>2, <2>3, <2>4, <2>5, <2>6 DEF EngineNext, EngineStep
  <1> QED
    BY <1>1, <1>2

LEMMA SlotsInitially == EngineInit => SlotInv
  <1>1. SUFFICES ASSUME EngineInit PROVE SlotInv
    OBVIOUS
  <1>2. /\ free_deltanet_slots = [i \in 1 .. MaxNumSeqs |-> i - 1]
        /\ seq_to_slot = [s \in Seqs |-> NoSlot]
        /\ waiting = <<>> /\ running = <<>> /\ decode_seqs = <<>>
        /\ pc = "idle" /\ exception = "" /\ call = {}
    BY <1>1 DEF EngineInit, RunnerInit, SchedulerInit
  <1>3. PICK free, m : free = free_deltanet_slots /\ m = MaxNumSeqs
    OBVIOUS
  <1>4. m \in Nat \ {0} /\ Slots = 0 .. (m - 1) /\ free = [i \in 1 .. m |-> i - 1]
    BY <1>2, <1>3, SlotNumbers DEF Slots
  <1>5. /\ DOMAIN free = 1 .. m /\ free \in Seq(Slots)
        /\ \A i \in 1 .. m : free[i] = i - 1
    <2>1. free \in [1 .. m -> Slots]
      BY <1>4
    <2> QED
      BY <1>4, <2>1
  <1>6. IsInjective(free)
    BY <1>4, <1>5 DEF IsInjective
  <1>7. \A i \in Slots : i \in Range(free)
    <2>1. SUFFICES ASSUME NEW i \in Slots PROVE i \in Range(free)
      OBVIOUS
    <2>2. i + 1 \in 1 .. m /\ (i + 1) - 1 = i
      BY <1>4
    <2> QED
      BY <1>5, <2>2 DEF Range
  <1>8. SlotsApart /\ \A s \in Seqs : ~HasSlot(s)
    BY <1>2, <1>3, <1>5, <1>6, <1>7, SlotNumbers DEF SlotsApart, HasSlot
  <1>9. SlotHolders
    BY <1>2, <1>8 DEF SlotHolders, Running
  <1>10. SlotRoom
    <2>1. Len(running) = 0 /\ Len(decode_seqs) = 0 /\ DOMAIN waiting = {}
      <3>1. Len(<<>>) = 0 /\ DOMAIN <<>> = {}
        OBVIOUS
      <3> QED
        BY <1>2, <3>1, Zenon
    <2>2. Decoding = 0
      BY <2>1 DEF Decoding
    <2> QED
      BY <2>1, <2>2, SlotNumbers DEF SlotRoom, Room
  <1>11. LoopRoom
    BY <1>2 DEF LoopRoom
  <1> QED
    BY <1>2, <1>8, <1>9, <1>10, <1>11 DEF SlotInv

LEMMA DisciplineOfSlots == ASSUME SlotInv PROVE SlotDiscipline
  <1>1. SlotsApart /\ exception # "AssertionError"
    BY DEF SlotInv
  <1>2. ASSUME NEW i \in Slots
        PROVE  Cardinality({s \in Seqs : seq_to_slot[s] = i})
                 = IF i \in Range(free_deltanet_slots) THEN 0 ELSE 1
    <2>1. PICK S : S = {s \in Seqs : seq_to_slot[s] = i}
      OBVIOUS
    <2>2. CASE i \in Range(free_deltanet_slots)
      <3>1. S = {}
        BY <1>1, <2>1, <2>2 DEF SlotsApart
      <3>2. Cardinality(S) = 0
        BY <3>1, FS_EmptySet, Zenon
      <3> QED
        BY <2>1, <2>2, <3>2
    <2>3. CASE i \notin Range(free_deltanet_slots)
      <3>1. PICK s \in Seqs : seq_to_slot[s] = i
        BY <1>1, <2>3 DEF SlotsApart
      <3>2. HasSlot(s)
        BY <3>1, SlotNumbers DEF HasSlot
      <3>3. S = {s}
        BY <1>1, <2>1, <3>1, <3>2 DEF SlotsApart
      <3>4. Cardinality(S) = 1
        BY <3>3, FS_Singleton, Zenon
      <3> QED
        BY <2>1, <2>3, <3>4
    <2> QED
      BY <2>2, <2>3
  <1> QED
    BY <1>1, <1>2 DEF SlotDiscipline, SlotsApart

LEMMA SlotInvariant == EngineSpec /\ []Undisturbed => [](EngineInv /\ SlotInv)
  <1>1. EngineInit => EngineInv /\ SlotInv
    BY QueueInitially, MemoryInitially, SlotsInitially DEF EngineInv
  <1>2. /\ EngineInv /\ SlotInv /\ Undisturbed /\ Undisturbed' /\ [EngineNext]_vars
        => EngineInv' /\ SlotInv'
    <2>1. Undisturbed' => KeyErrorEnds'
      BY DEF Undisturbed
    <2> QED
      BY <2>1, QueueStep, EngineMemory, SlotStep DEF EngineInv
  <1> QED
    BY <1>1, <1>2, PTL DEF EngineSpec

(* A recurrent-state slot is free once or belongs to one sequence - also   *)
(* when a batch is cut short by an out-of-memory error, a sequence is      *)
(* preempted or finishes, or a call is abandoned - and every batch that    *)
(* schedule() builds finds the slots it needs: the assert of               *)
(* allocate_deltanet_slot never fails.                                     *)
THEOREM SlotsDisciplined == EngineSpec /\ []Undisturbed => []SlotDiscipline
  <1>1. SlotInv => SlotDiscipline
    BY DisciplineOfSlots
  <1> QED
    BY <1>1, SlotInvariant, PTL

(* ... without a premise when nothing can disturb the engine.              *)
THEOREM SlotsDisciplinedInPlainEngine ==
    ASSUME PlainEngine PROVE EngineSpec => []SlotDiscipline
  BY NeverDisturbed, SlotsDisciplined, PTL

-----------------------------------------------------------------------------
(* What is left between calls.  A caller that goes on after a failed call  *)
(* may leave sequences behind that nobody waits for (llm_engine.py 329);   *)
(* without one the queues are empty whenever no call runs.                 *)

IdleInv ==
    /\ call = {} => pc = "idle" /\ is_finished
    /\ \A s \in Seqs \ submitted : block_table[s] = <<>>

(* A step changes the table of an unfinished request only. *)
LEMMA OtherTables ==
    ASSUME QueueTypes, MemInv, MemoryStep, NEW t \in Seqs, t \notin Unfinished
    PROVE  block_table'[t] = block_table[t]
  <1>1. block_table \in [Seqs -> Seq(Blocks)]
    BY DEF MemInv, PoolInv, PoolTypeOK
  <1>2. CASE UNCHANGED poolVars
    BY <1>2 DEF poolVars
  <1>3. CASE Admits \/ \E s \in Unfinished : Grows(s) \/ Releases(s)
    <2>1. PICK s \in Unfinished : \A u \in Seqs : u # s => block_table'[u] = block_table[u]
      BY <1>1, <1>3
         DEF Admits, AdmitShared, AdmitFresh, ShareAndExtend, Allocate, Grows, MayAppend,
             TakeBlocks, Releases, ReleaseBlocks, Deallocate, poolVars
    <2> QED
      BY <2>1
  <1>4. CASE \E s \in Unfinished : ReleaseBlocks(s)
    BY <1>1, <1>4 DEF ReleaseBlocks, Deallocate
  <1> QED
    BY <1>2, <1>3, <1>4 DEF MemoryStep, Quiet, Restores, Records, Samples

LEMMA IdleStep ==
    ASSUME ~ServeAfterError, QueueInv, MemInv, Undisturbed, [EngineNext]_vars, IdleInv
    PROVE  IdleInv'
  <1>1. ASSUME call' = {}
        PROVE  pc' = "idle" /\ is_finished'
    <2>1. CASE call # {}
      <3>1. Return
        BY <1>1, <2>1
           DEF EngineNext, EngineStep, Generate, GenerateRejected, Abandon, BeginStep,
               Schedule, EndSchedule, Prepare, Forward, Retry, GiveUp, Requeue, EndRequeue,
               Record, Sample, Finalize, Advance, EndAdvance, Recover, Stopped, requestVars,
               vars
      <3> QED
        BY <3>1 DEF Return, queueVars, is_finished
    <2>2. CASE call = {}
      <3>1. pc = "idle" /\ is_finished
        BY <2>2 DEF IdleInv
      <3>2. ~Generate
        <4>1. SUFFICES ASSUME Generate PROVE FALSE
          OBVIOUS
        <4>2. PICK new \in (SUBSET (Seqs \ submitted)) \ {{}} : call' = new
          BY <4>1 DEF Generate
        <4>3. new # {}
          BY <4>2, Zenon
        <4> QED
          BY <1>1, <4>2, <4>3, Zenon
      <3>3. Stopped \/ UNCHANGED vars
        BY <2>2, <3>1, <3>2
           DEF EngineNext, EngineStep, GenerateRejected, Abandon, BeginStep, Schedule,
               ScheduleDecode, SchedulePreempt, EndDecode, AdmitShared, AdmitFresh,
               EndSchedule, ScheduleChunk, ScheduleNoChunk, Prepare, Forward, Retry, GiveUp,
               Requeue, EndRequeue, Record, Sample, Finalize, Advance, EndAdvance, Return,
               Recover
      <3> QED
        BY <3>1, <3>3 DEF Stopped, vars, queueVars, is_finished
    <2> QED
      BY <2>1, <2>2
  <1>2. submitted \subseteq submitted'
    BY DEF EngineNext, EngineStep, Generate, GenerateRejected, Abandon, BeginStep, Schedule,
           EndSchedule, Prepare, Forward, Retry, GiveUp, Requeue, EndRequeue, Record, Sample,
           Finalize, Advance, EndAdvance, Return, Recover, Cleanup, Stopped, requestVars, vars
  <1>3. \A s \in Seqs \ submitted' : block_table'[s] = <<>>
    BY <1>2, MemorySteps, OtherTables DEF IdleInv, QueueInv, Unfinished
  <1> QED
    BY <1>1, <1>3 DEF IdleInv

LEMMA AllIsBack == ASSUME EngineInv, SlotInv, IdleInv PROVE NoLeak
  <1>1. SUFFICES ASSUME pc = "idle", call = {}
                 PROVE  /\ Len(free_block_ids) = NumBlocks
                        /\ Len(free_deltanet_slots) = MaxNumSeqs
    BY DEF NoLeak
  <1>2. /\ QueueTypes /\ QueuesApart /\ LoopInv /\ PoolInv /\ NoneHeld
        /\ waiting = <<>> /\ running = <<>>
    BY <1>1 DEF EngineInv, QueueInv, MemInv, IdleInv, is_finished
  <1>3. Unfinished = {}
    BY <1>1, <1>2, EmptyList DEF QueuesApart, LoopInv
  <1>4. Len(free_block_ids) = NumBlocks
    <2>1. \A s \in Seqs : block_table[s] = <<>>
      BY <1>2, <1>3 DEF NoneHeld, IdleInv, Unfinished
    <2>2. \A b \in Blocks : Holders(b) = {}
      BY <2>1, EmptyList DEF Holders
    <2>3. PICK q, n : q = free_block_ids /\ n = NumBlocks
      OBVIOUS
    <2>4. q \in Seq(Blocks) /\ IsInjective(q)
      BY <1>2, <2>3 DEF PoolInv, PoolTypeOK, FreeUsedPartition
    <2>5. Range(q) = Blocks
      BY <1>2, <2>2, <2>3, <2>4, FreeIffUnheld DEF Range
    <2>6. Cardinality(Range(q)) = Len(q)
      BY <2>4, LengthOfInjective
    <2>7. n \in Nat /\ Blocks = 0 .. (n - 1)
      BY <2>3, PoolAssumption DEF Blocks
    <2>8. Cardinality(0 .. (n - 1)) = n
      BY <2>7, FS_Interval
    <2> QED
      BY <2>3, <2>5, <2>6, <2>7, <2>8
  <1>5. Len(free_deltanet_slots) = MaxNumSeqs
    <2>1. PICK holders, n : /\ holders = {s \in Seqs : HasSlot(s)}
                            /\ n = Len(free_deltanet_slots)
      OBVIOUS
    <2>2. SlotsApart /\ SlotHolders
      BY <1>1 DEF SlotInv, EngineInv, QueueInv
    <2>3. n \in Nat /\ Cardinality(holders) \in Nat /\ Cardinality(holders) + n = MaxNumSeqs
      BY <2>1, <2>2, SlotCount
    <2>4. holders = {}
      BY <1>1, <1>3, <2>1, <2>2 DEF SlotHolders
    <2>5. Cardinality(holders) = 0
      BY <2>4, FS_EmptySet, Zenon
    <2> QED
      BY <2>1, <2>3, <2>5
  <1> QED
    BY <1>4, <1>5

(* A call that returns gives everything back: between calls every block is *)
(* in the pool and every slot is free, whatever preemptions, drops and     *)
(* retries came before - as long as the engine does not serve on after a   *)
(* failed call, which leaves that call's sequences queued.                 *)
THEOREM NothingLeaks ==
    ASSUME ~ServeAfterError PROVE EngineSpec /\ []Undisturbed => []NoLeak
  <1>1. EngineInit => IdleInv
    BY EmptyList
       DEF EngineInit, SchedulerInit, PoolInit, IdleInv, is_finished
  <1>2. EngineInv /\ Undisturbed /\ [EngineNext]_vars /\ IdleInv => IdleInv'
    BY IdleStep DEF EngineInv
  <1>3. EngineInv /\ SlotInv /\ IdleInv => NoLeak
    BY AllIsBack
  <1> QED
    BY <1>1, <1>2, <1>3, SlotInvariant, PTL DEF EngineSpec

(* ... without a premise when nothing can disturb the engine.              *)
THEOREM NothingLeaksInPlainEngine ==
    ASSUME PlainEngine PROVE EngineSpec => []NoLeak
  <1>1. ~ServeAfterError
    BY DEF PlainEngine
  <1> QED
    BY <1>1, NeverDisturbed, NothingLeaks, PTL

-----------------------------------------------------------------------------
(* What is stored where.  A block that another table holds, or that the    *)
(* cache may hand out, is behind the tokens its sequence has read; a pass  *)
(* stores from the first unread token on.                                  *)

Keyed == UNION {Range(e.key) : e \in Range(prefix_state_cache)}
Settled(b) == ref_count[b] > 1 \/ b \in Keyed

SettledRead ==
    \A s \in Seqs : \A i \in DOMAIN block_table[s] :
        Settled(block_table[s][i]) => i * BlockSize <= seq[s].num_cached_tokens

(* A sequence forgets what it has read only with its table. *)
CachedKept ==
    \A t \in Seqs : block_table[t] # <<>> /\ block_table'[t] # <<>> =>
        seq[t].num_cached_tokens <= seq'[t].num_cached_tokens

LEMMA TwoHolders ==
    ASSUME PoolInv, NEW s \in Seqs, NEW t \in Seqs, s # t, NEW b,
           b \in Range(block_table[s]), b \in Range(block_table[t])
    PROVE  ref_count[b] > 1
  <1>1. b \in Blocks
    BY TableNotFree
  <1>2. {s, t} \subseteq Holders(b)
    BY DEF Holders
  <1>3. IsFiniteSet(Holders(b)) /\ Cardinality(Holders(b)) \in Nat
    BY HoldersFinite
  <1>4. Cardinality({s, t}) = 2
    <2>1. IsFiniteSet({s}) /\ Cardinality({s}) = 1 /\ t \notin {s}
      BY FS_Singleton, Zenon
    <2>2. {s, t} = {s} \cup {t}
      OBVIOUS
    <2>3. Cardinality({s} \cup {t}) = Cardinality({s}) + 1
      BY <2>1, FS_AddElement
    <2> QED
      BY <2>1, <2>2, <2>3
  <1>5. Cardinality({s, t}) <= Cardinality(Holders(b))
    BY <1>2, <1>3, FS_Subset
  <1> QED
    BY <1>1, <1>3, <1>4, <1>5 DEF PoolInv, RefCountExact

LEMMA KeyedHeld ==
    ASSUME PoolInv, KeysLive, NEW b \in Keyed
    PROVE  b \in Blocks /\ b \notin Range(free_block_ids)
  <1>1. PICK e \in Range(prefix_state_cache) : b \in Range(e.key)
    BY DEF Keyed
  <1>2. e.key \in Chains
    BY <1>1, EmptyList DEF KeysLive
  <1>3. PICK t \in Seqs : \E n \in 1 .. Len(block_table[t]) : e.key = SubSeq(block_table[t], 1, n)
    BY <1>2 DEF Chains
  <1>4. PICK n \in 1 .. Len(block_table[t]) : e.key = SubSeq(block_table[t], 1, n)
    BY <1>3
  <1>5. block_table[t] \in Seq(Blocks)
    BY TableInjective
  <1>6. PICK k, key : key = e.key /\ k \in DOMAIN key /\ b = key[k]
    BY <1>1 DEF Range
  <1>7. k \in DOMAIN block_table[t] /\ b = block_table[t][k]
    BY <1>4, <1>5, <1>6
  <1>8. b \in Range(block_table[t])
    BY <1>7 DEF Range
  <1> QED
    BY <1>8, TableNotFree

LEMMA SameSettled ==
    ASSUME SettledRead, CachedKept, SeqTypes, SeqTypes', PoolInv,
           NEW t \in Seqs, block_table'[t] = block_table[t],
           NEW i \in DOMAIN block_table[t], Settled(block_table[t][i])
    PROVE  i * BlockSize <= seq'[t].num_cached_tokens
  <1>1. block_table[t] \in Seq(Blocks) /\ BlockSize \in Nat
    BY TableInjective, PoolAssumption DEF PoolAssumption
  <1>2. block_table[t] # <<>>
    BY <1>1
  <1>3. PICK m, n \in Nat : m = seq[t].num_cached_tokens /\ n = seq'[t].num_cached_tokens
    BY DEF SeqTypes, IsFields
  <1>4. m <= n /\ i * BlockSize <= m
    BY <1>2, <1>3 DEF SettledRead, CachedKept
  <1>5. i * BlockSize \in Nat
    BY <1>1
  <1> QED
    BY <1>3, <1>4, <1>5

LEMMA TakenSettled ==
    ASSUME PoolInv, KeysLive, SettledRead, CachedKept, SeqTypes, SeqTypes',
           UNCHANGED prefix_state_cache, NEW s \in Seqs,
           NEW shared \in Seq(Blocks), Range(shared) \subseteq Keyed,
           NEW n \in Nat, TakeBlocks(s, shared, n),
           \/ shared = <<>>
           \/ /\ block_table[s] = <<>>
              /\ Len(shared) * BlockSize <= seq'[s].num_cached_tokens
    PROVE  SettledRead'
  <1>1. PICK q, p : q = block_table[s] /\ p = Popped(n)
    OBVIOUS
  <1>2. /\ q \in Seq(Blocks) /\ p \in Seq(Blocks) /\ block_table \in [Seqs -> Seq(Blocks)]
        /\ Range(p) \subseteq Range(free_block_ids) /\ n <= NumFree
    BY <1>1, PopSplits DEF TakeBlocks, PoolInv, PoolTypeOK
  <1>3. /\ block_table'[s] = (q \o shared) \o p
        /\ \A t \in Seqs : t # s => block_table'[t] = block_table[t]
        /\ \A b \in Blocks : ref_count'[b] = IF b \in Range(p) THEN 1
                                             ELSE IF b \in Range(shared) THEN ref_count[b] + 1
                                             ELSE ref_count[b]
    BY <1>1, <1>2 DEF TakeBlocks
  <1>4. SUFFICES ASSUME NEW t \in Seqs, NEW i \in DOMAIN block_table'[t],
                        NEW b, b = block_table'[t][i],
                        ref_count'[b] > 1 \/ b \in Keyed'
                 PROVE  i * BlockSize <= seq'[t].num_cached_tokens
    BY DEF SettledRead, Settled
  <1>6. b \in Blocks /\ ref_count[b] \in Nat
    <2>1. block_table'[t] \in Seq(Blocks)
      <3>1. (q \o shared) \o p \in Seq(Blocks)
        BY <1>2
      <3> QED
        BY <1>2, <1>3, <3>1
    <2>2. b \in Blocks
      BY <1>4, <2>1
    <2> QED
      BY <2>2 DEF PoolInv, PoolTypeOK
  <1>7. Keyed' = Keyed
    BY DEF Keyed
  <1>8. b \notin Range(p)
    <2>1. SUFFICES ASSUME b \in Range(p) PROVE FALSE
      OBVIOUS
    <2>2. ref_count'[b] = 1 /\ b \notin Keyed
      BY <1>2, <1>3, <1>6, <2>1, KeyedHeld
    <2> QED
      BY <1>4, <1>7, <2>2
  <1>9. Settled(b)
    <2>1. CASE b \in Keyed'
      BY <1>7, <2>1 DEF Settled
    <2>2. CASE ref_count'[b] > 1 /\ b \in Range(shared)
      BY <2>2 DEF Settled
    <2>3. CASE ref_count'[b] > 1 /\ b \notin Range(shared)
      BY <1>3, <1>6, <1>8, <2>3 DEF Settled
    <2> QED
      BY <1>4, <2>1, <2>2, <2>3
  <1>10. CASE t # s
    BY <1>3, <1>4, <1>9, <1>10, SameSettled
  <1>11. CASE t = s
    <2>1. q \o shared \in Seq(Blocks) /\ i \in DOMAIN ((q \o shared) \o p)
      BY <1>2, <1>3, <1>4, <1>11
    <2>2. i \in 1 .. Len(q \o shared) /\ b = (q \o shared)[i]
      <3>1. PICK front : front = q \o shared
        OBVIOUS
      <3>2. /\ front \in Seq(Blocks) /\ i \in 1 .. Len(front) + Len(p)
            /\ b = (front \o p)[i]
        <4>1. front \in Seq(Blocks) /\ i \in DOMAIN (front \o p)
          BY <2>1, <3>1
        <4>2. block_table'[t] = front \o p
          BY <1>3, <1>11, <3>1
        <4> QED
          BY <1>2, <1>4, <4>1, <4>2
      <3>3. PICK k : k = i - Len(front)
        OBVIOUS
      <3>4. CASE i > Len(front)
        <4>1. k \in 1 .. Len(p) /\ b = p[k]
          BY <1>2, <3>2, <3>3, <3>4
        <4> QED
          BY <1>2, <1>8, <4>1 DEF Range
      <3>5. CASE ~(i > Len(front))
        BY <3>1, <3>2, <3>5, <1>2
      <3> QED
        BY <3>4, <3>5
    <2>3. CASE shared = <<>>
      <3>1. i \in DOMAIN block_table[s] /\ b = block_table[s][i]
        BY <1>1, <1>2, <2>2, <2>3
      <3>2. PICK m, c \in Nat : m = seq[s].num_cached_tokens /\ c = seq'[s].num_cached_tokens
        BY DEF SeqTypes, IsFields
      <3>3. i * BlockSize <= m
        BY <1>9, <3>1, <3>2 DEF SettledRead
      <3>4. block_table[s] # <<>> /\ block_table'[s] # <<>>
        BY <1>1, <1>2, <1>3, <2>1, <3>1
      <3>5. m <= c
        BY <3>2, <3>4 DEF CachedKept
      <3>6. i * BlockSize \in Nat
        BY <2>1, <2>2, PoolAssumption DEF PoolAssumption
      <3> QED
        BY <1>11, <3>2, <3>3, <3>5, <3>6
    <2>4. CASE q = <<>> /\ Len(shared) * BlockSize <= seq'[s].num_cached_tokens
      <3>1. PICK l, z \in Nat : l = Len(shared) /\ z = BlockSize
        BY PoolAssumption DEF PoolAssumption
      <3>2. PICK c \in Nat : c = seq'[s].num_cached_tokens
        BY DEF SeqTypes, IsFields
      <3>3. i \in Nat /\ i <= l /\ l * z <= c
        BY <1>2, <2>2, <2>4, <3>1, <3>2
      <3>4. i * z <= l * z
        BY <3>1, <3>3
      <3>5. i * z <= c
        <4>1. i * z \in Nat /\ l * z \in Nat
          BY <3>1, <3>3
        <4> QED
          BY <3>2, <3>3, <3>4, <4>1
      <3> QED
        BY <1>11, <3>1, <3>2, <3>5
    <2> QED
      BY <1>1, <2>3, <2>4
  <1> QED
    BY <1>10, <1>11

-----------------------------------------------------------------------------
(* What is read and what is left to read.                                  *)

Decoders == Range(running) \cup Range(decode_seqs)
Outside == Range(waiting) \cup (Seqs \ submitted)
Prefilling == pc \in {"prepare", "forward"} /\ batch_is_prefill

(* A sequence that decodes has a token left to read, except while its next *)
(* one is sampled.                                                         *)
Counted(s) ==
    /\ seq[s].num_cached_tokens + seq[s].num_scheduled_tokens <= NumTokens(s)
    /\ \/ seq[s].num_cached_tokens < NumTokens(s)
       \/ pc = "sample" /\ s = Head(todo)

HasRoom(s) == BlocksFor(NumTokens(s)) <= Len(block_table[s])

CountInv ==
    \/ exception = "KeyError"
    \/ /\ \A s \in Decoders : Counted(s)
       /\ \A s \in Outside : block_table[s] = <<>> \/ HasRoom(s)
       /\ Prefilling => \A s \in Range(batch) : HasRoom(s)

Filling == Stepping /\ MemInv /\ CountInv

SameCounts(t) ==
    /\ seq'[t].num_cached_tokens = seq[t].num_cached_tokens
    /\ seq'[t].num_scheduled_tokens = seq[t].num_scheduled_tokens
    /\ token_ids'[t] = token_ids[t]
    /\ block_table'[t] = block_table[t]

LEMMA FillingFacts ==
    ASSUME Filling
    PROVE  /\ \A s \in Decoders : Counted(s)
           /\ \A s \in Outside : block_table[s] = <<>> \/ HasRoom(s)
           /\ Prefilling => \A s \in Range(batch) : HasRoom(s)
           /\ PoolInv /\ TokensWithin
           /\ Decoders \subseteq Seqs /\ Outside \subseteq Seqs /\ Range(batch) \subseteq Seqs
  BY SteppingFacts, InQueues, BatchMembers
     DEF Filling, CountInv, Stepping, MemInv, Decoders, Outside

(* A step that changes the counters of the sequences in moved.             *)
LEMMA CountsNext ==
    ASSUME Filling, NEW moved, \A t \in Seqs : t \in moved \/ SameCounts(t),
           Decoders' \subseteq Decoders \cup moved, Outside' \subseteq Outside \cup moved,
           Prefilling' => \/ Range(batch') \subseteq moved
                          \/ Prefilling /\ Range(batch') \subseteq Range(batch),
           pc = "sample" => Head(todo) \in moved,
           \A s \in moved :
              /\ s \in Decoders' => Counted(s)'
              /\ s \in Outside' => block_table'[s] = <<>> \/ HasRoom(s)'
              /\ Prefilling' /\ s \in Range(batch') => HasRoom(s)'
              /\ s \in Seqs /\ block_table[s] # <<>> /\ block_table'[s] # <<>> =>
                    seq[s].num_cached_tokens <= seq'[s].num_cached_tokens
    PROVE  CountInv' /\ CachedKept
  <1>1. \A t \in Seqs : t \notin moved => /\ Counted(t) => Counted(t)'
                                          /\ HasRoom(t) => HasRoom(t)'
    BY DEF SameCounts, Counted, HasRoom, NumTokens
  <1>2. \A s \in Decoders' : Counted(s)'
    BY <1>1, FillingFacts
  <1>3. \A s \in Outside' : block_table'[s] = <<>> \/ HasRoom(s)'
    BY <1>1, FillingFacts DEF SameCounts
  <1>4. Prefilling' => \A s \in Range(batch') : HasRoom(s)'
    BY <1>1, FillingFacts
  <1>5. CachedKept
    <2>1. SUFFICES ASSUME NEW t \in Seqs, block_table[t] # <<>>, block_table'[t] # <<>>
                   PROVE  seq[t].num_cached_tokens <= seq'[t].num_cached_tokens
      BY DEF CachedKept
    <2>2. CASE t \notin moved
      <3>1. seq[t].num_cached_tokens \in Nat
        BY SteppingFacts DEF SeqTypes, IsFields, Filling
      <3> QED
        BY <2>1, <2>2, <3>1 DEF SameCounts
    <2> QED
      BY <2>1, <2>2
  <1> QED
    BY <1>2, <1>3, <1>4, <1>5 DEF CountInv

(* A step that changes no counter and no table. *)
LEMMA QuietCounts ==
    ASSUME Filling, pc # "sample", \A t \in Seqs : SameCounts(t),
           Decoders' \subseteq Decoders, Outside' \subseteq Outside,
           Prefilling' => Prefilling /\ Range(batch') \subseteq Range(batch)
    PROVE  CountInv' /\ CachedKept
  <1>1. PICK moved : moved = {}
    OBVIOUS
  <1> QED
    BY <1>1, CountsNext

LEMMA IdleCounts ==
    ASSUME Filling, Generate \/ GenerateRejected \/ BeginStep \/ Return \/ Abandon \/ Recover
    PROVE  CountInv' /\ CachedKept
  <1>1. /\ UNCHANGED <<seq, token_ids, block_table, running>>
        /\ pc \in {"idle", "raised"} /\ pc' \in {"idle", "decode"}
        /\ decode_seqs' = decode_seqs \/ decode_seqs' = <<>>
    BY DEF Generate, GenerateRejected, BeginStep, StartSchedule, Return, Abandon, Recover,
           Cleanup, ResetLoop, Goto, seqVars, poolVars, queueVars, loopVars
  <1>2. Outside' \subseteq Outside
    <2>1. CASE UNCHANGED <<waiting, submitted>>
      BY <2>1 DEF Outside
    <2>2. CASE Generate
      <3>1. PICK new \in SUBSET (Seqs \ submitted) :
               \E prompts \in SetToSeqs(new) :
                  /\ waiting' = waiting \o prompts
                  /\ submitted' = submitted \cup new
        BY <2>2 DEF Generate
      <3>2. PICK prompts \in SetToSeqs(new) : waiting' = waiting \o prompts
        BY <3>1
      <3>3. IsFiniteSet(new)
        BY PoolAssumption, FS_Subset DEF PoolAssumption
      <3>4. prompts \in Seq(new) /\ Range(prompts) = new
        BY <3>3, OrderingOf
      <3>5. PICK q : q = waiting
        OBVIOUS
      <3>6. q \in Seq(Seqs) /\ prompts \in Seq(Seqs)
        BY <3>4, <3>5, SteppingFacts DEF QueueTypes, Filling
      <3>7. Range(waiting') = Range(waiting) \cup new
        BY <3>2, <3>4, <3>5, <3>6, RangeOfConcat
      <3> QED
        BY <3>1, <3>7 DEF Outside
    <2>3. CASE GenerateRejected
      <3>1. PICK s \in Seqs \ submitted :
               waiting' = Append(waiting, s) /\ submitted' = submitted \cup {s}
        BY <2>3 DEF GenerateRejected
      <3>2. PICK q : q = waiting
        OBVIOUS
      <3>3. q \in Seq(Seqs)
        BY <3>2, SteppingFacts DEF QueueTypes, Filling
      <3>4. Range(waiting') = Range(waiting) \cup {s}
        BY <3>1, <3>2, <3>3, RangeOfAppend
      <3> QED
        BY <3>1, <3>4 DEF Outside
    <2> QED
      BY <2>1, <2>2, <2>3 DEF BeginStep, Return, Abandon, Recover, Cleanup, queueVars,
                              requestVars
  <1> QED
    BY <1>1, <1>2, QuietCounts, EmptyList DEF Decoders, Prefilling, SameCounts

LEMMA PassCounts ==
    ASSUME Filling, EndDecode \/ Prepare \/ Forward \/ Retry \/ GiveUp \/ EndRequeue
                      \/ Finalize \/ EndAdvance,
           EndDecode => UNCHANGED <<requestVars, stepVars>>
    PROVE  CountInv' /\ CachedKept
  <1>1. /\ UNCHANGED <<token_ids, block_table, running, decode_seqs, waiting, submitted>>
        /\ pc # "sample"
        /\ UNCHANGED seq \/ (Prepare /\ PrepareStates)
    BY DEF EndDecode, Prepare, Forward, Retry, GiveUp, EndRequeue, Finalize, EndAdvance,
           seqVars, poolVars, queueVars, loopVars, requestVars
  <1>2. \A t \in Seqs : SameCounts(t)
    <2>1. CASE UNCHANGED seq
      BY <1>1, <2>1 DEF SameCounts
    <2>2. CASE PrepareStates
      <3>1. PICK members : members = Range(batch)
        OBVIOUS
      <3>2. seq' = [s \in Seqs |-> IF s \in members
                                   THEN [seq[s] EXCEPT !.prefix_restore_blocks = None]
                                   ELSE seq[s]]
        BY <2>2, <3>1 DEF PrepareStates
      <3>3. SeqTypes
        BY SteppingFacts DEF Filling
      <3> QED
        BY <1>1, <3>2, <3>3, RestoredSeq DEF SameCounts
    <2> QED
      BY <1>1, <2>1, <2>2
  <1>3. Prefilling' => Prefilling /\ Range(batch') \subseteq Range(batch)
    <2>1. CASE EndDecode \/ EndRequeue \/ Finalize \/ EndAdvance
      BY <2>1 DEF EndDecode, EndRequeue, Finalize, EndAdvance, StartBatch, NoBatch, Goto,
                  Prefilling
    <2>2. CASE Prepare \/ Forward \/ GiveUp
      BY <2>2 DEF Prepare, Forward, GiveUp, Goto, Raise, Prefilling, batchVars
    <2>3. CASE Retry
      <3>1. /\ pc = "forward" /\ UNCHANGED batch_is_prefill
            /\ batch' = batch \/ (Len(batch) > 1 /\ batch' = Front(batch))
        BY <2>3 DEF Retry, OutOfMemory
      <3>2. PICK q : q = batch
        OBVIOUS
      <3>3. q \in Seq(Seqs)
        BY <3>2, SteppingFacts DEF QueueTypes, Filling
      <3>4. CASE Len(q) > 1
        <4>1. q # <<>>
          BY <3>3, <3>4
        <4>2. Range(Front(q)) \subseteq Range(q)
          BY <3>3, <4>1, FrontAndLast
        <4> QED
          BY <3>1, <3>2, <4>2 DEF Prefilling
      <3> QED
        BY <3>1, <3>2, <3>4 DEF Prefilling
    <2> QED
      BY <2>1, <2>2, <2>3
  <1> QED
    BY <1>1, <1>2, <1>3, QuietCounts DEF Decoders, Outside

(* A sequence takes its place in the next decode pass. *)
LEMMA DecodeCounts ==
    ASSUME Filling, NEW s \in Seqs, s \in Decoders \/ exception' = "KeyError",
           seq' = [seq EXCEPT ![s].num_scheduled_tokens = 1, ![s].is_prefill = FALSE],
           MayAppend(s, NumTokens(s)), UNCHANGED <<token_ids, waiting, submitted>>,
           exception' = "KeyError" \/ Decoders' \subseteq Decoders,
           pc # "sample", ~Prefilling'
    PROVE  CountInv' /\ CachedKept
  <1>1. /\ SeqTypes /\ SeqTypes' /\ \A t \in Seqs : t # s => seq'[t] = seq[t]
        /\ seq'[s].num_scheduled_tokens = 1
        /\ seq'[s].num_cached_tokens = seq[s].num_cached_tokens
    BY SteppingFacts, DecodingSeq DEF Filling
  <1>2. \A t \in Seqs : t # s => block_table'[t] = block_table[t]
    <2>1. block_table \in [Seqs -> Seq(Blocks)]
      BY FillingFacts DEF PoolInv, PoolTypeOK
    <2> QED
      BY <2>1 DEF MayAppend, TakeBlocks, poolVars
  <1>3. PICK c \in Nat : c = seq[s].num_cached_tokens
    BY <1>1 DEF SeqTypes, IsFields
  <1>4. \A t \in Seqs : seq[t].num_cached_tokens <= seq'[t].num_cached_tokens
    BY <1>1, <1>3 DEF SeqTypes, IsFields
  <1>5. CASE exception' = "KeyError"
    BY <1>4, <1>5 DEF CountInv, CachedKept
  <1>6. CASE exception' # "KeyError"
    <2>1. s \notin Outside
      BY <1>6, SteppingFacts, InQueues DEF Outside, Decoders, Filling, QueuesApart, Unfinished
    <2>2. c < NumTokens(s) /\ NumTokens(s) \in Nat /\ NumTokens(s)' = NumTokens(s)
      <3>1. Counted(s) /\ token_ids[s] \in Seq(Nat)
        BY <1>1, <1>6, FillingFacts DEF SeqTypes
      <3>2. c < NumTokens(s)
        BY <1>3, <3>1 DEF Counted
      <3> QED
        BY <3>1, <3>2 DEF NumTokens
    <2>3. PICK n \in Nat : n = NumTokens(s)
      BY <2>2
    <2>4. c + 1 <= n
      BY <2>2, <2>3
    <2>5. Counted(s)'
      BY <1>1, <1>3, <2>2, <2>3, <2>4 DEF Counted
    <2>6. PICK moved : moved = {s}
      OBVIOUS
    <2>7. \A t \in Seqs : t \in moved \/ SameCounts(t)
      BY <1>1, <1>2, <2>6 DEF SameCounts
    <2> QED
      BY <1>4, <1>6, <2>1, <2>5, <2>6, <2>7, CountsNext DEF Outside
  <1> QED
    BY <1>5, <1>6

(* A sequence that loses its blocks starts again in waiting. *)
LEMMA RestartCounts ==
    ASSUME Filling, NEW v \in Range(running), seq' = [seq EXCEPT ![v] = Recomputed(@)],
           Deallocate(v), UNCHANGED <<token_ids, decode_seqs, submitted>>,
           Range(waiting') = {v} \cup Range(waiting), Range(running') = Range(running) \ {v},
           pc # "sample", ~Prefilling'
    PROVE  CountInv' /\ CachedKept
  <1>1. v \in Seqs /\ SeqTypes /\ v \notin Range(decode_seqs)
    BY SteppingFacts, InQueues DEF Filling, QueuesApart
  <1>2. \A t \in Seqs : t # v => seq'[t] = seq[t]
    BY <1>1, PreemptedSeq
  <1>3. block_table'[v] = <<>> /\ \A t \in Seqs : t # v => block_table'[t] = block_table[t]
    <2>1. block_table \in [Seqs -> Seq(Blocks)]
      BY FillingFacts DEF PoolInv, PoolTypeOK
    <2> QED
      BY <1>1, <2>1 DEF Deallocate
  <1>4. PICK moved : moved = {v}
    OBVIOUS
  <1>5. \A t \in Seqs : t \in moved \/ SameCounts(t)
    BY <1>2, <1>3, <1>4 DEF SameCounts
  <1>6. v \notin Decoders' /\ Decoders' \subseteq Decoders /\ Outside' \subseteq Outside \cup moved
    BY <1>1, <1>4 DEF Decoders, Outside
  <1> QED
    BY <1>3, <1>4, <1>5, <1>6, CountsNext

LEMMA PreemptCounts ==
    ASSUME Filling, running # <<>>, NEW s, TryPreempt(s), UNCHANGED <<decode_seqs, submitted>>,
           pc # "sample", ~Prefilling'
    PROVE  CountInv' /\ CachedKept
  <1>1. PICK v : v = Last(running)
    OBVIOUS
  <1>2. /\ v \in Range(running) /\ v \in Seqs
        /\ Range(Front(running)) = Range(running) \ {v}
        /\ waiting \in Seq(Seqs)
    BY <1>1, SteppingFacts, LastOfRunning, InQueues DEF Filling, QueueTypes
  <1>3. /\ seq' = [seq EXCEPT ![v] = Recomputed(@)] /\ Deallocate(v) /\ UNCHANGED token_ids
        /\ waiting' = <<v>> \o waiting /\ running' = Front(running)
    BY <1>1 DEF TryPreempt, PreemptSeq, ReleaseBlocks
  <1>4. Range(waiting') = {v} \cup Range(waiting)
    <2>1. PICK one, q : one = <<v>> /\ q = waiting
      OBVIOUS
    <2>2. one \in Seq(Seqs) /\ Range(one) = {v} /\ q \in Seq(Seqs)
      BY <1>2, <2>1, RangeOfPair
    <2>3. waiting' = one \o q
      BY <1>3, <2>1
    <2>4. Range(one \o q) = Range(one) \cup Range(q)
      BY <2>2, RangeOfConcat
    <2> QED
      BY <2>1, <2>2, <2>3, <2>4
  <1> QED
    BY <1>2, <1>3, <1>4, RestartCounts

LEMMA RequeueCounts ==
    ASSUME Filling, Requeue
    PROVE  CountInv' /\ CachedKept
  <1>1. PICK s : s = Head(oom_preempted)
    OBVIOUS
  <1>2. /\ seq' = [seq EXCEPT ![s] = Recomputed(@)] /\ Deallocate(s)
        /\ waiting' = <<s>> \o waiting /\ running' = Without(running, s)
        /\ UNCHANGED <<token_ids, decode_seqs, submitted>>
        /\ pc = "requeue" /\ pc' = "requeue" /\ oom_preempted # <<>>
    BY <1>1 DEF Requeue, ReleaseBlocks, loopVars, requestVars
  <1>3. s \in Range(running) /\ s \in Seqs
    <2>1. oom_preempted \in Seq(Seqs) /\ pc \in Running
      BY <1>2, SteppingFacts DEF QueueTypes, Filling, Running
    <2>2. s \in Range(oom_preempted)
      BY <1>1, <1>2, <2>1, HeadAndTail
    <2> QED
      BY <2>1, <2>2, SteppingFacts, InQueues DEF BatchInv, Filling
  <1>4. PICK one, q, r : one = <<s>> /\ q = waiting /\ r = running
    OBVIOUS
  <1>5. one \in Seq(Seqs) /\ Range(one) = {s} /\ q \in Seq(Seqs) /\ r \in Seq(Seqs)
    <2>1. waiting \in Seq(Seqs) /\ running \in Seq(Seqs)
      BY SteppingFacts DEF QueueTypes, Filling
    <2> QED
      BY <1>3, <1>4, <2>1, RangeOfPair
  <1>6. Range(waiting') = {s} \cup Range(waiting)
    <2>1. waiting' = one \o q
      BY <1>2, <1>4
    <2>2. Range(one \o q) = Range(one) \cup Range(q)
      BY <1>5, RangeOfConcat
    <2> QED
      BY <1>4, <1>5, <2>1, <2>2
  <1>7. Range(running') = Range(running) \ {s}
    BY <1>2, <1>4, <1>5, WithoutKeeps
  <1> QED
    BY <1>2, <1>3, <1>6, <1>7, RestartCounts DEF Prefilling

LEMMA LoopCounts ==
    ASSUME Filling, ScheduleDecode \/ SchedulePreempt, UNCHANGED <<requestVars, stepVars>>
    PROVE  CountInv' /\ CachedKept
  <1>1. CASE ScheduleDecode
    <2>1. PICK s : s = Head(decode_list)
      OBVIOUS
    <2>2. /\ pc = "decode" /\ decode_list # <<>> /\ MayAppend(s, NumTokens(s))
          /\ seq' = [seq EXCEPT ![s].num_scheduled_tokens = 1, ![s].is_prefill = FALSE]
          /\ UNCHANGED <<token_ids, waiting, submitted>>
          /\ IF Contains(running, s)
             THEN /\ running' = Without(running, s) /\ decode_seqs' = Append(decode_seqs, s)
                  /\ UNCHANGED pc
             ELSE pc' = "raised" /\ exception' = "KeyError"
      BY <1>1, <2>1 DEF ScheduleDecode, Raise, requestVars
    <2>3. decode_list \in Seq(Seqs) /\ running \in Seq(Seqs) /\ decode_seqs \in Seq(Seqs)
      BY SteppingFacts DEF QueueTypes, Filling
    <2>4. s \in Seqs
      BY <2>1, <2>2, <2>3 DEF Range
    <2>5. CASE Contains(running, s)
      <3>1. PICK q, r : q = running /\ r = decode_seqs
        OBVIOUS
      <3>2. s \in Range(running) /\ running' = Without(q, s) /\ decode_seqs' = Append(r, s)
        BY <2>2, <2>5, <3>1 DEF Contains, Range
      <3>3. Range(running') = Range(running) \ {s}
        BY <2>3, <3>1, <3>2, WithoutKeeps
      <3>4. Range(decode_seqs') = Range(decode_seqs) \cup {s}
        BY <2>3, <2>4, <3>1, <3>2, RangeOfAppend
      <3> QED
        BY <2>2, <2>4, <2>5, <3>2, <3>3, <3>4, DecodeCounts DEF Decoders, Prefilling
    <2>6. CASE ~Contains(running, s)
      BY <2>2, <2>4, <2>6, DecodeCounts DEF Prefilling
    <2> QED
      BY <2>5, <2>6
  <1>2. CASE SchedulePreempt
    <2>1. running # <<>>
      BY <1>2, EmptyList
         DEF SchedulePreempt, Filling, Stepping, Undisturbed, PreemptsForRunning
    <2> QED
      BY <1>2, <2>1, PreemptCounts DEF SchedulePreempt, Prefilling, requestVars
  <1> QED
    BY <1>1, <1>2

LEMMA AdvanceCounts ==
    ASSUME Filling, Advance
    PROVE  CountInv' /\ CachedKept
  <1>1. PICK s : s = Head(todo)
    OBVIOUS
  <1>2. /\ pc = "advance" /\ pc \in Processing /\ todo # <<>>
        /\ pc' \in {"advance", "raised"} /\ UNCHANGED <<decode_seqs, submitted>>
    BY DEF Advance, Raise, Processing, requestVars
  <1>3. s \in Seqs /\ s \in Range(running)
    <2>1. /\ s \in Seqs /\ s \in Range(batch)
          /\ s \notin Range(waiting) => s \in Range(running)
      BY <1>1, <1>2, SteppingFacts, HeadOfTodo DEF Filling
    <2> QED
      BY <1>2, <2>1 DEF Filling, Stepping, Undisturbed, AdvancesRunning
  <1>4. CASE AdvancePreempt(s)
    BY <1>2, <1>3, <1>4, PreemptCounts, EmptyList DEF AdvancePreempt, Prefilling
  <1>5. CASE AdvanceAppend(s) /\ UNCHANGED <<token_ids, queueVars>>
    BY <1>2, <1>3, <1>5, DecodeCounts DEF AdvanceAppend, queueVars, Decoders, Prefilling
  <1>6. CASE UNCHANGED <<poolVars, seqVars, queueVars>>
    BY <1>2, <1>6, QuietCounts
       DEF poolVars, seqVars, queueVars, SameCounts, Decoders, Outside, Prefilling
  <1> QED
    BY <1>1, <1>4, <1>5, <1>6 DEF Advance

LEMMA TakenLength ==
    ASSUME PoolInv, NEW s \in Seqs, NEW shared \in Seq(Blocks), NEW n \in Nat,
           TakeBlocks(s, shared, n), block_table[s] = <<>>
    PROVE  /\ Len(block_table'[s]) = Len(shared) + n
           /\ \A t \in Seqs : t # s => block_table'[t] = block_table[t]
  <1>1. PICK q, p : q = block_table[s] /\ p = Popped(n)
    OBVIOUS
  <1>2. /\ q = <<>> /\ p \in Seq(Blocks) /\ Len(p) = n
        /\ block_table \in [Seqs -> Seq(Blocks)]
    BY <1>1, PopSplits DEF TakeBlocks, PoolInv, PoolTypeOK
  <1>3. /\ block_table'[s] = (q \o shared) \o p
        /\ \A t \in Seqs : t # s => block_table'[t] = block_table[t]
    BY <1>1, <1>2 DEF TakeBlocks
  <1>4. Len((q \o shared) \o p) = Len(shared) + n
    <2>1. Len(q) = 0 /\ q \in Seq(Blocks)
      BY <1>2
    <2>2. q \o shared \in Seq(Blocks) /\ Len(q \o shared) = Len(shared)
      BY <2>1
    <2>3. PICK front : front = q \o shared
      OBVIOUS
    <2>4. front \in Seq(Blocks) /\ p \in Seq(Blocks)
      BY <1>2, <2>2, <2>3
    <2>5. Len(front \o p) = Len(front) + Len(p)
      BY <2>4
    <2> QED
      BY <1>2, <2>2, <2>3, <2>5
  <1> QED
    BY <1>3, <1>4

(* What admission takes, a shared prefix or none. *)
LEMMA Admission ==
    ASSUME Filling, AdmitShared \/ AdmitFresh
    PROVE  \E chain \in Seq(Blocks), n, m \in Nat :
              /\ TakeBlocks(Candidate, chain, n)
              /\ Len(chain) + n = BlocksFor(NumTokens(Candidate))
              /\ Candidate \in Seqs /\ Candidate \in Range(waiting)
              /\ block_table[Candidate] = <<>>
              /\ seq'[Candidate].num_cached_tokens = m
              /\ chain = <<>> \/ /\ chain \in Keys(prefix_state_cache)
                                 /\ Len(chain) * BlockSize = m
              /\ \A t \in Seqs : t # Candidate => seq'[t] = seq[t]
              /\ SeqTypes'
  <1>1. PICK s : s = Candidate
    OBVIOUS
  <1>2. /\ s \in Seqs /\ s \in Range(waiting) /\ block_table[s] = <<>> /\ UNCHANGED token_ids
        /\ SeqTypes
    BY <1>1, SteppingFacts, HeadOfWaiting
       DEF AdmitShared, AdmitFresh, Fresher, MayPrefill, Filling
  <1>3. /\ NumTokens(s) \in Lengths /\ token_ids[s] \in Seq(Nat)
        /\ BlocksFor(NumTokens(s)) \in Nat
    BY <1>2, FillingFacts, LengthOK, BlocksForType
  <1>4. CASE AdmitShared
    <2>1. PICK chain, m : chain = LongestPrefix(token_ids[s]) /\ m = MatchedTokens(token_ids[s])
      OBVIOUS
    <2>2. ShareAndExtend(s, chain, NumTokens(s)) /\ PrefixUsable(s)
      BY <1>1, <1>4, <2>1 DEF AdmitShared
    <2>3. /\ chain \in Chains /\ Len(chain) <= BlocksFor(NumTokens(s))
          /\ chain \in Keys(prefix_state_cache) /\ chain # <<>>
      BY <1>3, <2>1, <2>2, AdoptsLiveChain DEF Filling, MemInv, PrefixUsable, HasState
    <2>4. chain \in Seq(Blocks)
      <3>1. PICK t \in Seqs : \E k \in 1 .. Len(block_table[t]) :
               chain = SubSeq(block_table[t], 1, k)
        BY <2>3 DEF Chains
      <3>2. block_table[t] \in Seq(Blocks)
        BY <3>1, FillingFacts DEF PoolInv, PoolTypeOK
      <3> QED
        BY <3>1, <3>2
    <2>5. PICK n : n = BlocksFor(NumTokens(s)) - Len(chain)
      OBVIOUS
    <2>6. n \in Nat /\ Len(chain) + n = BlocksFor(NumTokens(s))
      BY <1>3, <2>3, <2>4, <2>5
    <2>7. TakeBlocks(s, chain, n)
      BY <2>2, <2>5 DEF ShareAndExtend
    <2>8. m \in Nat /\ Len(chain) * BlockSize = m
      <3>1. PICK tokens : tokens = token_ids[s]
        OBVIOUS
      <3>2. /\ Matches(tokens) # {} /\ m = Max(Matches(tokens)) * BlockSize
            /\ chain = trie[Boundary(tokens, Max(Matches(tokens)))]
        BY <2>1, <2>3, <3>1 DEF LongestPrefix, MatchedTokens
      <3>3. FullBlocks(tokens) \in Nat /\ BlockSize \in Nat /\ tokens \in Seq(Nat)
        <4>1. /\ BlockSize \in Nat \ {0} /\ tokens \in Seq(Nat)
              /\ Len(tokens) \in Nat
          BY <1>3, <3>1, PoolAssumption DEF PoolAssumption
        <4> QED
          BY <4>1 DEF FullBlocks
      <3>4. PICK k, f : k = Max(Matches(tokens)) /\ f = FullBlocks(tokens)
        OBVIOUS
      <3>5. Matches(tokens) \in SUBSET (0 .. f) /\ f \in Nat
        BY <3>3, <3>4 DEF Matches
      <3>6. k \in Matches(tokens) /\ k \in Nat
        <4>1. PICK sizes \in SUBSET (0 .. f) : sizes = Matches(tokens)
          BY <3>5
        <4>2. Max(sizes) \in sizes
          BY <3>2, <3>5, <4>1, LargestOf
        <4> QED
          BY <3>4, <3>5, <4>1, <4>2
      <3>7. k <= FullBlocks(tokens) /\ Boundary(tokens, k) \in DOMAIN trie
        BY <3>4, <3>5, <3>6 DEF Matches
      <3>8. Len(chain) = k
        BY <3>2, <3>3, <3>4, <3>6, <3>7, BoundaryDepth DEF TrieDepth, Filling, MemInv
      <3> QED
        BY <3>2, <3>3, <3>4, <3>6, <3>8
    <2>9. /\ SeqTypes' /\ \A t \in Seqs : t # s => seq'[t] = seq[t]
          /\ seq'[s].num_cached_tokens = m
      <3>1. seq' = [seq EXCEPT ![s].num_cached_tokens = m, ![s].prefix_restore_blocks = chain]
        BY <1>1, <1>4, <2>1 DEF AdmitShared
      <3> QED
        BY <1>2, <2>8, <3>1, AdmittedSeq
    <2> QED
      BY <1>1, <1>2, <2>3, <2>4, <2>6, <2>7, <2>8, <2>9
  <1>5. CASE AdmitFresh
    <2>1. PICK chain, n, m : chain = <<>> /\ n = BlocksFor(NumTokens(s)) /\ m = 0
      OBVIOUS
    <2>2. TakeBlocks(s, chain, n)
      BY <1>1, <1>5, <2>1 DEF AdmitFresh, Allocate
    <2>3. chain \in Seq(Blocks) /\ Len(chain) = 0
      BY <2>1
    <2>4. n \in Nat /\ m \in Nat /\ Len(chain) + n = BlocksFor(NumTokens(s))
      BY <1>3, <2>1, <2>3
    <2>5. /\ SeqTypes' /\ \A t \in Seqs : t # s => seq'[t] = seq[t]
          /\ seq'[s].num_cached_tokens = m
      <3>1. seq' = [seq EXCEPT ![s].num_cached_tokens = m]
        BY <1>1, <1>5, <2>1 DEF AdmitFresh
      <3> QED
        BY <1>2, <2>4, <3>1, AdmittedSeq
    <2> QED
      BY <1>1, <1>2, <2>1, <2>2, <2>3, <2>4, <2>5
  <1> QED
    BY <1>4, <1>5

LEMMA AdmitCounts ==
    ASSUME Filling, AdmitShared \/ AdmitFresh, UNCHANGED <<requestVars, stepVars>>
    PROVE  CountInv' /\ CachedKept
  <1>1. PICK s, f : s = Candidate /\ f = BlocksFor(NumTokens(s))
    OBVIOUS
  <1>2. PICK chain \in Seq(Blocks), n \in Nat :
          /\ TakeBlocks(s, chain, n) /\ Len(chain) + n = f /\ block_table[s] = <<>>
          /\ s \in Seqs /\ s \in Range(waiting)
          /\ \A t \in Seqs : t # s => seq'[t] = seq[t]
    BY <1>1, Admission
  <1>3. /\ Len(block_table'[s]) = f
        /\ \A t \in Seqs : t # s => block_table'[t] = block_table[t]
    BY <1>2, FillingFacts, TakenLength
  <1>4. /\ UNCHANGED <<token_ids, waiting, running, decode_seqs, submitted>>
        /\ pc = "admit" /\ pc' = "admit"
    BY DEF AdmitShared, AdmitFresh, queueVars, loopVars, requestVars
  <1>5. HasRoom(s)'
    <2>1. BlocksFor(NumTokens(s))' = f /\ f \in Nat
      <3>1. NumTokens(s) \in Lengths
        BY <1>2, SteppingFacts, FillingFacts, LengthOK DEF Filling
      <3> QED
        BY <1>1, <1>4, <3>1, BlocksForType DEF NumTokens, BlocksFor
    <2> QED
      BY <1>3, <2>1 DEF HasRoom
  <1>6. s \notin Decoders' /\ Decoders' = Decoders /\ Outside' = Outside
    BY <1>2, <1>4, SteppingFacts DEF Filling, QueuesApart, Decoders, Outside
  <1>7. PICK moved : moved = {s}
    OBVIOUS
  <1>8. \A t \in Seqs : t \in moved \/ SameCounts(t)
    BY <1>2, <1>3, <1>4, <1>7 DEF SameCounts
  <1> QED
    <2>1. ~Prefilling' /\ pc # "sample"
      BY <1>4 DEF Prefilling
    <2>2. \A t \in moved :
             /\ t \in Decoders' => Counted(t)'
             /\ t \in Outside' => block_table'[t] = <<>> \/ HasRoom(t)'
             /\ Prefilling' /\ t \in Range(batch') => HasRoom(t)'
             /\ t \in Seqs /\ block_table[t] # <<>> /\ block_table'[t] # <<>> =>
                   seq[t].num_cached_tokens <= seq'[t].num_cached_tokens
      BY <1>2, <1>5, <1>6, <1>7
    <2>3. Decoders' \subseteq Decoders \cup moved /\ Outside' \subseteq Outside \cup moved
      BY <1>6
    <2> QED
      BY <1>8, <2>1, <2>2, <2>3, CountsNext, Zenon

LEMMA EndScheduleCounts ==
    ASSUME Filling, EndSchedule
    PROVE  CountInv' /\ CachedKept
  <1>1. /\ pc = "admit" /\ decode_seqs' = <<>>
        /\ UNCHANGED <<block_table, token_ids, submitted>>
        /\ QueueTypes /\ SeqTypes /\ QueuesApart /\ LoopInv
    BY SteppingFacts DEF EndSchedule, ScheduleChunk, ScheduleNoChunk, ResetLoop, requestVars,
                         seqVars, poolVars, Filling
  <1>2. PICK s, q, run, dec : s = Candidate /\ q = waiting /\ run = running /\ dec = decode_seqs
    OBVIOUS
  <1>3. /\ q \in Seq(Seqs) /\ run \in Seq(Seqs) /\ dec \in Seq(Seqs) /\ IsInjective(dec)
        /\ Range(run \o dec) = Range(run) \cup Range(dec)
    <2>1. q \in Seq(Seqs) /\ run \in Seq(Seqs) /\ dec \in Seq(Seqs) /\ IsInjective(dec)
      BY <1>1, <1>2 DEF QueueTypes, QueuesApart
    <2> QED
      BY <2>1, RangeOfConcat
  <1>4. CASE ScheduleChunk /\ Dispatch(<<Candidate>>)
    <2>1. PICK last \in BOOLEAN :
            /\ waiting' = IF last THEN Tail(q) ELSE q
            /\ running' = (IF last THEN Append(run, s) ELSE run) \o dec
            /\ seq' = [seq EXCEPT ![s].num_scheduled_tokens = Chunk(s),
                                  ![s].status = IF last THEN "RUNNING" ELSE @]
      BY <1>2, <1>4, Zenon DEF ScheduleChunk
    <2>2. /\ s \in Seqs /\ s \in Range(q) /\ Range(Tail(q)) \subseteq Range(q)
          /\ block_table[s] # <<>> /\ Remaining(s) > 0 /\ MayPrefill
      <3>1. q # <<>>
        BY <1>2, <1>4 DEF ScheduleChunk, MayPrefill
      <3>2. s \in Seqs /\ Range(q) = {s} \cup Range(Tail(q))
        BY <1>1, <1>2, <3>1, HeadOfWaiting
      <3> QED
        BY <1>2, <1>4, <3>2 DEF ScheduleChunk
    <2>3. ~Finished(s) /\ s \notin Range(dec) /\ seq[s].is_prefill
      BY <1>1, <1>2, <2>2, InQueues DEF Unfinished, QueuesApart, LoopInv
    <2>4. PICK n \in Nat : n = Chunk(s) /\ n <= Remaining(s)
      BY <1>1, <1>2, <1>3, <2>2, ChunkIsNat
    <2>5. /\ \A t \in Seqs : t # s => seq'[t] = seq[t]
          /\ \A t \in Seqs : seq'[t].is_prefill = seq[t].is_prefill
          /\ seq'[s].num_scheduled_tokens = n
          /\ seq'[s].num_cached_tokens = seq[s].num_cached_tokens
      <3>1. seq' = [seq EXCEPT ![s].num_scheduled_tokens = n,
                               ![s].status = IF last THEN "RUNNING" ELSE @]
        BY <2>1, <2>4
      <3> QED
        BY <1>1, <2>2, <2>3, <3>1, ScheduledSeq
    <2>6. Counted(s)'
      <3>1. PICK c, m \in Nat : c = seq[s].num_cached_tokens /\ m = NumTokens(s)
        BY <1>1, <2>2 DEF SeqTypes, IsFields, NumTokens
      <3>2. n <= m - c /\ m - c > 0
        BY <2>2, <2>4, <3>1 DEF Remaining
      <3>3. c + n <= m /\ c < m
        BY <3>1, <3>2
      <3>4. NumTokens(s)' = m
        BY <1>1, <3>1 DEF NumTokens
      <3> QED
        BY <2>5, <3>1, <3>3, <3>4 DEF Counted
    <2>7. HasRoom(s)'
      <3>1. HasRoom(s)
        BY <1>2, <2>2, FillingFacts DEF Outside
      <3> QED
        BY <1>1, <3>1 DEF HasRoom, NumTokens
    <2>8. Decoders' \subseteq Decoders \cup {s}
      <3>1. PICK r : r = IF last THEN Append(run, s) ELSE run
        OBVIOUS
      <3>2. /\ Append(run, s) \in Seq(Seqs)
            /\ Range(Append(run, s)) = Range(run) \cup {s}
        BY <1>3, <2>2, RangeOfAppend
      <3>3. r \in Seq(Seqs) /\ Range(r) \subseteq Range(run) \cup {s}
        BY <1>3, <3>1, <3>2
      <3>4. Range(r \o dec) = Range(r) \cup Range(dec)
        BY <1>3, <3>3, RangeOfConcat
      <3>5. Range(running') \subseteq Range(running) \cup Range(decode_seqs) \cup {s}
        BY <1>2, <2>1, <3>1, <3>3, <3>4
      <3> QED
        BY <1>1, <3>5, EmptyList DEF Decoders
    <2>9. Outside' \subseteq Outside
      BY <1>1, <1>2, <2>1, <2>2 DEF Outside
    <2>10. Prefilling' => Range(batch') \subseteq {s}
      <3>1. PICK one : one = <<s>>
        OBVIOUS
      <3>2. Range(one) = {s} /\ Dispatch(one) /\ seq'[s].is_prefill
        BY <1>2, <1>4, <2>2, <2>3, <2>5, <3>1, RangeOfPair
      <3>3. \A t \in Range(decode_seqs) : ~seq'[t].is_prefill
        BY <1>1, <2>5, InQueues DEF LoopInv
      <3>4. s \in Seqs \ Range(decode_seqs)
        BY <1>2, <2>2, <2>3
      <3> QED
        BY <1>1, <1>2, <1>3, <3>1, <3>2, <3>3, <3>4, DispatchBatch DEF Prefilling
    <2>11. PICK moved : moved = {s}
      OBVIOUS
    <2>12. \A t \in Seqs : t \in moved \/ SameCounts(t)
      BY <1>1, <2>5, <2>11 DEF SameCounts
    <2>13. seq[s].num_cached_tokens <= seq'[s].num_cached_tokens
      BY <1>1, <2>2, <2>5 DEF SeqTypes, IsFields
    <2>14. /\ Decoders' \subseteq Decoders \cup moved /\ Outside' \subseteq Outside \cup moved
           /\ Prefilling' => Range(batch') \subseteq moved
      BY <2>8, <2>9, <2>10, <2>11
    <2>15. pc # "sample"
      BY <1>1
    <2>16. \A t \in moved :
              /\ t \in Decoders' => Counted(t)'
              /\ t \in Outside' => block_table'[t] = <<>> \/ HasRoom(t)'
              /\ Prefilling' /\ t \in Range(batch') => HasRoom(t)'
              /\ t \in Seqs /\ block_table[t] # <<>> /\ block_table'[t] # <<>> =>
                    seq[t].num_cached_tokens <= seq'[t].num_cached_tokens
      BY <2>6, <2>7, <2>11, <2>13
    <2> QED
      BY <2>12, <2>14, <2>15, <2>16, CountsNext, Zenon
  <1>5. CASE ScheduleNoChunk /\ Dispatch(<<>>)
    <2>1. running' = run \o dec /\ UNCHANGED <<seq, waiting>>
      BY <1>2, <1>5 DEF ScheduleNoChunk, seqVars
    <2>2. Decoders' \subseteq Decoders /\ Outside' \subseteq Outside
      BY <1>1, <1>2, <1>3, <2>1, EmptyList DEF Decoders, Outside
    <2>3. Prefilling' => Range(batch') \subseteq {}
      <3>1. PICK none : none = <<>>
        OBVIOUS
      <3>2. Range(none) = {} /\ Dispatch(none)
        BY <1>5, <3>1, EmptyList, Zenon
      <3>3. \A t \in Range(decode_seqs) : ~seq'[t].is_prefill
        BY <1>1, <2>1 DEF LoopInv
      <3> QED
        BY <1>1, <1>2, <1>3, <3>1, <3>2, <3>3, DispatchBatch DEF Prefilling
    <2>4. PICK moved : moved = {}
      OBVIOUS
    <2>5. \A t \in Seqs : t \in moved \/ SameCounts(t)
      BY <1>1, <2>1 DEF SameCounts
    <2>6. pc # "sample"
      BY <1>1
    <2>7. /\ Decoders' \subseteq Decoders \cup moved /\ Outside' \subseteq Outside \cup moved
          /\ Prefilling' => Range(batch') \subseteq moved
      BY <2>2, <2>3, <2>4
    <2>8. \A t \in moved :
             /\ t \in Decoders' => Counted(t)'
             /\ t \in Outside' => block_table'[t] = <<>> \/ HasRoom(t)'
             /\ Prefilling' /\ t \in Range(batch') => HasRoom(t)'
             /\ t \in Seqs /\ block_table[t] # <<>> /\ block_table'[t] # <<>> =>
                   seq[t].num_cached_tokens <= seq'[t].num_cached_tokens
      BY <2>4
    <2> QED
      BY <2>5, <2>6, <2>7, <2>8, CountsNext, Zenon
  <1> QED
    BY <1>4, <1>5 DEF EndSchedule

LEMMA RecordCounts ==
    ASSUME Filling, Record
    PROVE  CountInv' /\ CachedKept
  <1>1. PICK s, c : /\ s = Head(todo)
                    /\ c = seq[s].num_cached_tokens + seq[s].num_scheduled_tokens
    OBVIOUS
  <1>2. /\ seq' = [seq EXCEPT ![s].num_cached_tokens = c, ![s].num_scheduled_tokens = 0]
        /\ pc = "record" /\ pc' = "sample" /\ todo # <<>>
        /\ UNCHANGED <<token_ids, block_table, running, decode_seqs, waiting, submitted, todo>>
    BY <1>1 DEF Record, RecordProgress, Goto, poolVars, queueVars, loopVars, requestVars,
                stepVars
  <1>3. s \in Seqs /\ SeqTypes
    BY <1>1, <1>2, SteppingFacts, HeadOfTodo DEF Filling, Processing
  <1>4. /\ \A t \in Seqs : t # s => seq'[t] = seq[t]
        /\ seq'[s].num_cached_tokens = c /\ seq'[s].num_scheduled_tokens = 0
    BY <1>1, <1>2, <1>3, RecordedSeq
  <1>5. seq[s].num_cached_tokens <= c /\ c \in Nat
    <2>1. seq[s].num_cached_tokens \in Nat /\ seq[s].num_scheduled_tokens \in Nat
      BY <1>3 DEF SeqTypes, IsFields
    <2> QED
      BY <1>1, <2>1
  <1>6. Decoders' = Decoders /\ Outside' = Outside
    BY <1>2 DEF Decoders, Outside
  <1>7. s \in Decoders => Counted(s)'
    <2>1. Counted(s) => c <= NumTokens(s)'
      BY <1>1, <1>2 DEF Counted, NumTokens
    <2>2. c + 0 = c
      BY <1>5
    <2> QED
      BY <1>1, <1>2, <1>4, <2>1, <2>2, FillingFacts DEF Counted
  <1>8. s \in Outside => block_table'[s] = <<>> \/ HasRoom(s)'
    BY <1>2, FillingFacts DEF HasRoom, NumTokens
  <1>9. PICK moved : moved = {s}
    OBVIOUS
  <1>10. \A t \in Seqs : t \in moved \/ SameCounts(t)
    BY <1>2, <1>4, <1>9 DEF SameCounts
  <1>11. ~Prefilling'
    BY <1>2 DEF Prefilling
  <1>12. \A t \in moved :
            /\ t \in Decoders' => Counted(t)'
            /\ t \in Outside' => block_table'[t] = <<>> \/ HasRoom(t)'
            /\ Prefilling' /\ t \in Range(batch') => HasRoom(t)'
            /\ t \in Seqs /\ block_table[t] # <<>> /\ block_table'[t] # <<>> =>
                  seq[t].num_cached_tokens <= seq'[t].num_cached_tokens
    BY <1>4, <1>5, <1>6, <1>7, <1>8, <1>9, <1>11
  <1>13. pc # "sample"
    BY <1>2
  <1>14. Decoders' \subseteq Decoders \cup moved /\ Outside' \subseteq Outside \cup moved
    BY <1>6
  <1> QED
    BY <1>10, <1>11, <1>12, <1>13, <1>14, CountsNext, Zenon

LEMMA SampleCounts ==
    ASSUME Filling, Sample
    PROVE  CountInv' /\ CachedKept
  <1>1. PICK s : s = Head(todo)
    OBVIOUS
  <1>2. /\ pc = "sample" /\ pc' = "record" /\ pc \in Processing
        /\ UNCHANGED <<waiting, decode_seqs, submitted>>
    BY DEF Sample, Goto, loopVars, requestVars, Processing
  <1>3. /\ s \in Seqs /\ s \in submitted /\ s \in Range(batch) /\ s \in Range(todo)
        /\ s \notin Range(waiting) => s \in Range(running)
        /\ SeqTypes /\ QueueTypes /\ QueuesApart /\ ChunkInv /\ BatchInv
    BY <1>1, <1>2, SteppingFacts, HeadOfTodo
       DEF Filling, BatchInv, Unfinished, Stepping, QueueInv
  <1>4. PICK moved : moved = {s}
    OBVIOUS
  <1>5. PICK c, m, n \in Nat : /\ c = seq[s].num_cached_tokens
                               /\ m = seq[s].num_scheduled_tokens
                               /\ n = NumTokens(s)
    <2>1. token_ids[s] \in Seq(Nat)
      BY <1>3 DEF SeqTypes
    <2>2. NumTokens(s) \in Nat
      BY <2>1 DEF NumTokens
    <2> QED
      BY <1>3, <2>2 DEF SeqTypes, IsFields
  <1>6. ~Prefilling'
    BY <1>2 DEF Prefilling
  <1>7. CASE StillPrefilling(s) /\ UNCHANGED <<seq, token_ids, block_table, running>>
    <2>1. Decoders' = Decoders /\ Outside' = Outside
      BY <1>2, <1>7 DEF Decoders, Outside
    <2>2. s \in Decoders => Counted(s)'
      BY <1>7, FillingFacts DEF StillPrefilling, Counted, NumTokens
    <2>3. s \in Outside => block_table'[s] = <<>> \/ HasRoom(s)'
      BY <1>7, FillingFacts DEF HasRoom, NumTokens
    <2>4. \A t \in Seqs : t \in moved \/ SameCounts(t)
      BY <1>7 DEF SameCounts
    <2>5. seq[s].num_cached_tokens <= seq'[s].num_cached_tokens
      BY <1>5, <1>7
    <2>6. \A t \in moved :
             /\ t \in Decoders' => Counted(t)'
             /\ t \in Outside' => block_table'[t] = <<>> \/ HasRoom(t)'
             /\ Prefilling' /\ t \in Range(batch') => HasRoom(t)'
             /\ t \in Seqs /\ block_table[t] # <<>> /\ block_table'[t] # <<>> =>
                   seq[t].num_cached_tokens <= seq'[t].num_cached_tokens
      BY <1>4, <1>6, <2>2, <2>3, <2>1, <2>5
    <2>7. /\ Decoders' \subseteq Decoders \cup moved /\ Outside' \subseteq Outside \cup moved
          /\ Head(todo) \in moved
      BY <1>1, <1>4, <2>1
    <2> QED
      BY <1>6, <2>4, <2>6, <2>7, CountsNext, Zenon
  <1>8. CASE ~StillPrefilling(s) /\ AppendToken(s)
    <2>1. s \in Range(running) /\ s \notin Range(waiting)
      <3>1. s \notin Range(waiting)
        BY <1>1, <1>2, <1>3, <1>8 DEF StillPrefilling, ChunkInv, BatchInv
      <3> QED
        BY <1>3, <3>1
    <2>2. PICK token \in Vocab :
             /\ token_ids' = [token_ids EXCEPT ![s] = Append(@, token)]
             /\ Finish(s) \/ UNCHANGED <<seq, block_table, running>>
      BY <1>8 DEF AppendToken, poolVars
    <2>3. /\ \A t \in Seqs : t # s => token_ids'[t] = token_ids[t]
          /\ Len(token_ids'[s]) = n + 1
      BY <1>3, <1>5, <2>2, AppendedTokens DEF NumTokens
    <2>4. s \notin Outside /\ Outside' = Outside
      BY <1>2, <1>3, <2>1 DEF Outside
    <2>5. CASE UNCHANGED <<seq, block_table, running>>
      <3>1. Decoders' = Decoders /\ s \in Decoders
        BY <1>2, <2>1, <2>5 DEF Decoders
      <3>2. Counted(s)'
        <4>1. c + m <= n
          BY <1>5, <3>1, FillingFacts DEF Counted
        <4>2. c + m <= n + 1 /\ c < n + 1
          BY <4>1
        <4> QED
          BY <1>5, <2>3, <2>5, <4>2 DEF Counted, NumTokens
      <3>3. \A t \in Seqs : t \in moved \/ SameCounts(t)
        BY <1>4, <2>3, <2>5 DEF SameCounts
      <3>4. seq[s].num_cached_tokens <= seq'[s].num_cached_tokens
        BY <1>5, <2>5
      <3> QED
        BY <1>1, <1>4, <1>6, <2>4, <3>1, <3>2, <3>3, <3>4, CountsNext
    <2>6. CASE Finish(s)
      <3>1. PICK q : q = running
        OBVIOUS
      <3>2. q \in Seq(Seqs) /\ running' = Without(q, s) /\ s \notin Range(decode_seqs)
        BY <1>3, <2>1, <2>6, <3>1 DEF QueueTypes, Finish, QueuesApart
      <3>3. Range(running') = Range(running) \ {s}
        BY <1>3, <3>1, <3>2, WithoutKeeps DEF QueuesApart
      <3>4. Decoders' \subseteq Decoders /\ s \notin Decoders'
        BY <1>2, <3>2, <3>3 DEF Decoders
      <3>5. \A t \in Seqs : t # s => seq'[t] = seq[t]
        BY <1>3, <2>6, FinishedSeq DEF Finish
      <3>6. block_table'[s] = <<>> /\ \A t \in Seqs : t # s => block_table'[t] = block_table[t]
        <4>1. block_table \in [Seqs -> Seq(Blocks)]
          BY FillingFacts DEF PoolInv, PoolTypeOK
        <4> QED
          BY <1>3, <2>6, <4>1 DEF Finish, ReleaseBlocks, Deallocate
      <3>7. \A t \in Seqs : t \in moved \/ SameCounts(t)
        BY <1>4, <2>3, <3>5, <3>6 DEF SameCounts
      <3> QED
        BY <1>1, <1>4, <1>6, <2>4, <3>4, <3>6, <3>7, CountsNext
    <2> QED
      BY <2>2, <2>5, <2>6
  <1> QED
    BY <1>1, <1>7, <1>8 DEF Sample, seqVars, poolVars

LEMMA StutterCounts ==
    ASSUME CountInv, SeqTypes, UNCHANGED vars
    PROVE  CountInv' /\ CachedKept
  <1>1. /\ UNCHANGED <<seq, token_ids, block_table, exception, pc, batch, batch_is_prefill,
                       running, decode_seqs, waiting, submitted, todo>>
    BY DEF vars, poolVars, seqVars, queueVars, loopVars, batchVars, requestVars, stepVars
  <1>2. Decoders' = Decoders /\ Outside' = Outside /\ (Prefilling' <=> Prefilling)
    BY <1>1 DEF Decoders, Outside, Prefilling
  <1>3. \A s : (Counted(s)' <=> Counted(s)) /\ (HasRoom(s)' <=> HasRoom(s))
    BY <1>1 DEF Counted, HasRoom, NumTokens
  <1>4. CountInv'
    BY <1>1, <1>2, <1>3 DEF CountInv
  <1>5. \A t \in Seqs : seq[t].num_cached_tokens \in Nat
    BY DEF SeqTypes, IsFields
  <1> QED
    BY <1>1, <1>4, <1>5 DEF CachedKept

LEMMA CountStep ==
    ASSUME QueueInv, SlotInv, MemInv, CountInv, Undisturbed, [EngineNext]_vars, QueueInv'
    PROVE  CountInv' /\ CachedKept
  <1>1. CASE exception = "KeyError"
    BY <1>1, KeyErrorStays, StutterCounts DEF QueueInv
  <1>2. CASE exception # "KeyError"
    <2>1. Filling
      BY <1>2 DEF Filling, Stepping
    <2>2. CASE Schedule
      BY <2>1, <2>2, LoopCounts, PassCounts, AdmitCounts, EndScheduleCounts DEF Schedule
    <2>3. CASE Prepare \/ Forward \/ Retry \/ GiveUp \/ Requeue \/ EndRequeue
      BY <2>1, <2>3, PassCounts, RequeueCounts DEF EndDecode, Prepare, Forward, Retry, GiveUp,
                                                   EndRequeue
    <2>4. CASE Record \/ Sample \/ Finalize \/ Advance \/ EndAdvance
      BY <2>1, <2>4, PassCounts, RecordCounts, SampleCounts, AdvanceCounts
         DEF EndDecode, Finalize, EndAdvance
    <2>5. CASE Generate \/ GenerateRejected \/ Return \/ Abandon \/ Recover \/ BeginStep
      BY <2>1, <2>5, IdleCounts
    <2>6. CASE Stopped \/ UNCHANGED vars
      BY <2>6, StutterCounts DEF Stopped, QueueInv
    <2> QED
      BY <2>2, <2>3, <2>4, <2>5, <2>6 DEF EngineNext, EngineStep
  <1> QED
    BY <1>1, <1>2

LEMMA CountsInitially == EngineInit => CountInv /\ SettledRead
  <1>1. SUFFICES ASSUME EngineInit PROVE CountInv /\ SettledRead
    OBVIOUS
  <1>2. /\ pc = "idle" /\ running = <<>> /\ decode_seqs = <<>>
        /\ block_table = [s \in Seqs |-> <<>>]
    BY <1>1 DEF EngineInit, PoolInit, SchedulerInit
  <1>3. Decoders = {} /\ ~Prefilling
    BY <1>2, EmptyList DEF Decoders, Prefilling
  <1>4. \A s \in Seqs : block_table[s] = <<>>
    BY <1>2
  <1>5. Outside \subseteq Seqs
    <2>1. QueueTypes /\ QueuesApart
      BY <1>1, QueueInitially DEF QueueInv
    <2> QED
      BY <2>1, InQueues DEF Outside, Unfinished
  <1> QED
    BY <1>3, <1>4, <1>5 DEF CountInv, SettledRead

(* A step that takes no block and keeps no new one in the cache. *)
LEMMA ShrinkSettled ==
    ASSUME SettledRead, CachedKept, SeqTypes, SeqTypes', PoolInv, PoolInv',
           Range(prefix_state_cache') \subseteq Range(prefix_state_cache),
           \A t \in Seqs : block_table'[t] = block_table[t] \/ block_table'[t] = <<>>,
           \A b \in Blocks : ref_count'[b] > 1 => ref_count[b] > 1
    PROVE  SettledRead'
  <1>1. SUFFICES ASSUME NEW t \in Seqs, NEW i \in DOMAIN block_table'[t],
                        NEW b, b = block_table'[t][i],
                        ref_count'[b] > 1 \/ b \in Keyed'
                 PROVE  i * BlockSize <= seq'[t].num_cached_tokens
    BY DEF SettledRead, Settled
  <1>2. block_table'[t] = block_table[t]
    BY <1>1
  <1>3. b \in Blocks
    <2>1. block_table[t] \in Seq(Blocks)
      BY TableInjective
    <2> QED
      BY <1>1, <1>2, <2>1
  <1>4. Keyed' \subseteq Keyed
    BY DEF Keyed
  <1>5. Settled(b)
    BY <1>1, <1>3, <1>4 DEF Settled
  <1> QED
    BY <1>1, <1>2, <1>5, SameSettled

LEMMA ReleaseSettled ==
    ASSUME SettledRead, CachedKept, SeqTypes, SeqTypes', MemInv, PoolInv',
           NEW s \in Seqs, ReleaseBlocks(s)
    PROVE  SettledRead'
  <1>1. /\ PoolInv /\ IsList(prefix_state_cache)
        /\ ref_count \in [Blocks -> Nat] /\ block_table \in [Seqs -> Seq(Blocks)]
    BY DEF MemInv, KeysLive, PoolInv, PoolTypeOK
  <1>2. Range(prefix_state_cache') \subseteq Range(prefix_state_cache)
    BY <1>1, EvictedWithin DEF ReleaseBlocks
  <1>3. \A t \in Seqs : block_table'[t] = block_table[t] \/ block_table'[t] = <<>>
    BY <1>1 DEF ReleaseBlocks, Deallocate
  <1>4. ASSUME NEW b \in Blocks, ref_count'[b] > 1
        PROVE  ref_count[b] > 1
    <2>1. PICK n \in Nat : n = ref_count[b]
      BY <1>1, <1>4
    <2>2. ref_count'[b] = 0 \/ ref_count'[b] = n - 1 \/ ref_count'[b] = n
      BY <1>4, <2>1 DEF ReleaseBlocks, Deallocate
    <2> QED
      BY <1>4, <2>1, <2>2
  <1> QED
    BY <1>1, <1>2, <1>3, <1>4, ShrinkSettled

(* A snapshot is keyed by blocks that its sequence has read to their end.  *)
LEMMA RecordSettled ==
    ASSUME SettledRead, CachedKept, SeqTypes, SeqTypes', MemInv,
           NEW s \in Seqs, Records(s)
    PROVE  SettledRead'
  <1>1. /\ PoolInv /\ IsList(prefix_state_cache) /\ UNCHANGED poolVars
        /\ block_table[s] \in Seq(Blocks) /\ IsInjective(block_table[s])
        /\ RecordProgress(s) /\ UNCHANGED token_ids
    BY TableInjective DEF MemInv, KeysLive, Records, SameRequests
  <1>2. PICK c : c = seq[s].num_cached_tokens + seq[s].num_scheduled_tokens
    OBVIOUS
  <1>3. c \in Nat
    <2>1. seq[s].num_cached_tokens \in Nat /\ seq[s].num_scheduled_tokens \in Nat
      BY DEF SeqTypes, IsFields
    <2> QED
      BY <1>2, <2>1
  <1>4. seq'[s].num_cached_tokens = c
    <2>1. seq' = [seq EXCEPT ![s].num_cached_tokens = c, ![s].num_scheduled_tokens = 0]
      BY <1>1, <1>2 DEF RecordProgress
    <2> QED
      BY <1>1, <1>2, <2>1, RecordedSeq
  <1>5. PICK m : m = Min({c \div BlockSize, Len(block_table[s])})
    OBVIOUS
  <1>6. PICK key : key = SubSeq(block_table[s], 1, m)
    OBVIOUS
  <1>7. m \in Nat /\ m <= c \div BlockSize /\ m <= Len(block_table[s])
    <2>1. c \div BlockSize \in Nat /\ Len(block_table[s]) \in Nat
      BY <1>1, <1>3, PoolAssumption DEF PoolAssumption
    <2> QED
      BY <1>5, <2>1, SmallerOf
  <1>8. \A b \in Keyed' : b \in Keyed \/ b \in Range(key)
    <2>1. CASE SaveState(s, key)
      <3>1. \A e \in Range(prefix_state_cache') :
               e \in Range(prefix_state_cache) \/ e.key = key
        BY <1>1, <2>1, SavedWithin
      <3> QED
        BY <3>1 DEF Keyed
    <2>2. CASE UNCHANGED prefix_state_cache
      BY <2>2 DEF Keyed
    <2> QED
      BY <1>1, <1>2, <1>5, <1>6, <2>1, <2>2 DEF RecordProgress
  <1>9. SUFFICES ASSUME NEW t \in Seqs, NEW i \in DOMAIN block_table'[t],
                        NEW b, b = block_table'[t][i],
                        ref_count'[b] > 1 \/ b \in Keyed'
                 PROVE  i * BlockSize <= seq'[t].num_cached_tokens
    BY DEF SettledRead, Settled
  <1>10. UNCHANGED <<block_table, ref_count>>
    BY <1>1 DEF poolVars
  <1>11. CASE Settled(b)
    BY <1>1, <1>9, <1>10, <1>11, SameSettled
  <1>12. CASE ~Settled(b)
    <2>1. b \in Range(key)
      BY <1>8, <1>9, <1>10, <1>12 DEF Settled
    <2>2. PICK k \in 1 .. m : k \in DOMAIN block_table[s] /\ b = block_table[s][k]
      <3>1. DOMAIN key = 1 .. m /\ \A k \in 1 .. m : key[k] = block_table[s][k]
        BY <1>1, <1>6, <1>7
      <3>2. \A k \in 1 .. m : k \in DOMAIN block_table[s]
        BY <1>1, <1>7
      <3> QED
        BY <2>1, <3>1, <3>2 DEF Range
    <2>3. t = s
      <3>1. b \in Range(block_table[s]) /\ b \in Range(block_table[t])
        BY <1>9, <1>10, <2>2 DEF Range
      <3> QED
        BY <1>1, <1>12, <3>1, TwoHolders DEF Settled
    <2>4. i = k
      BY <1>1, <1>9, <1>10, <2>2, <2>3 DEF IsInjective
    <2>5. PICK z \in Nat \ {0} : z = BlockSize
      BY PoolAssumption DEF PoolAssumption
    <2>6. k \in Nat /\ k <= c \div z
      <3>1. c \div z \in Nat
        BY <1>3, <2>5
      <3> QED
        BY <1>7, <2>2, <2>5, <3>1
    <2>7. k * z <= c
      BY <1>3, <2>5, <2>6, DivTimes
    <2> QED
      BY <1>4, <2>3, <2>4, <2>5, <2>7
  <1> QED
    BY <1>11, <1>12

LEMMA AdmitSettled ==
    ASSUME Filling, SettledRead, CachedKept, AdmitShared \/ AdmitFresh
    PROVE  SettledRead'
  <1>1. PICK s : s = Candidate
    OBVIOUS
  <1>2. PICK chain \in Seq(Blocks), n \in Nat, m \in Nat :
           /\ TakeBlocks(s, chain, n) /\ s \in Seqs /\ block_table[s] = <<>>
           /\ seq'[s].num_cached_tokens = m
           /\ chain = <<>> \/ /\ chain \in Keys(prefix_state_cache)
                              /\ Len(chain) * BlockSize = m
           /\ SeqTypes'
    BY <1>1, Admission
  <1>3. PoolInv /\ KeysLive /\ SeqTypes /\ UNCHANGED prefix_state_cache
    BY SteppingFacts DEF Filling, MemInv, AdmitShared, AdmitFresh, runnerVars
  <1>4. Range(chain) \subseteq Keyed
    BY <1>2, EmptyList DEF Keys, Keyed, Range
  <1>5. Len(chain) * BlockSize <= m \/ chain = <<>>
    BY <1>2
  <1> QED
    BY <1>2, <1>3, <1>4, <1>5, TakenSettled

LEMMA SettledNext ==
    ASSUME Filling, SettledRead, CachedKept, PoolInv'
    PROVE  SettledRead'
  <1>1. /\ MemoryStep /\ SeqTypes /\ SeqTypes' /\ PoolInv /\ KeysLive /\ QueueTypes /\ MemInv
        /\ \A s \in Unfinished : s \in Seqs
    BY SteppingFacts, MemorySteps
       DEF Filling, Stepping, QueueInv, MemInv, Unfinished, QueueTypes
  <1>2. CASE UNCHANGED poolVars /\ Range(prefix_state_cache') \subseteq Range(prefix_state_cache)
    BY <1>1, <1>2, ShrinkSettled DEF poolVars
  <1>3. CASE Quiet
    BY <1>2, <1>3 DEF Quiet, SameCaches
  <1>4. CASE Admits
    BY <1>4, AdmitSettled DEF Admits
  <1>5. CASE Restores
    BY <1>1, <1>2, <1>5, RestoresWithin DEF Restores, KeysLive
  <1>6. CASE \E s \in Unfinished : Grows(s) \/ Releases(s) \/ Records(s) \/ Samples(s)
    <2>1. PICK s \in Unfinished : Grows(s) \/ Releases(s) \/ Records(s) \/ Samples(s)
      BY <1>6
    <2>2. s \in Seqs
      BY <1>1, <2>1
    <2>3. CASE Grows(s)
      <3>1. UNCHANGED prefix_state_cache
        BY <2>3 DEF Grows, SameCaches
      <3>2. CASE TakeBlocks(s, <<>>, 1)
        <4>1. PICK none, one : none = <<>> /\ one = 1
          OBVIOUS
        <4>2. none \in Seq(Blocks) /\ Range(none) \subseteq Keyed /\ one \in Nat
          BY <4>1, EmptyList
        <4>3. TakeBlocks(s, none, one)
          BY <3>2, <4>1
        <4> QED
          BY <1>1, <2>2, <3>1, <4>1, <4>2, <4>3, TakenSettled
      <3> QED
        BY <1>2, <2>3, <3>1, <3>2 DEF Grows, MayAppend
    <2>4. CASE ReleaseBlocks(s)
      BY <1>1, <2>2, <2>4, ReleaseSettled
    <2>5. CASE Records(s)
      BY <1>1, <2>2, <2>5, RecordSettled
    <2>6. CASE UNCHANGED poolVars /\ SameCaches
      BY <1>2, <2>6 DEF SameCaches
    <2> QED
      BY <2>1, <2>3, <2>4, <2>5, <2>6 DEF Releases, Samples
  <1> QED
    BY <1>1, <1>3, <1>4, <1>5, <1>6 DEF MemoryStep

WriteInv == CountInv /\ SettledRead

LEMMA WriteStep ==
    ASSUME EngineInv, SlotInv, WriteInv, Undisturbed, [EngineNext]_vars, EngineInv'
    PROVE  WriteInv'
  <1>1. CountInv' /\ CachedKept
    BY CountStep DEF EngineInv, WriteInv
  <1>2. SettledRead'
    <2>1. CASE exception = "KeyError"
      <3>1. SeqTypes /\ SeqTypes' /\ PoolInv /\ PoolInv'
        BY DEF EngineInv, QueueInv, MemInv
      <3>2. UNCHANGED <<block_table, ref_count, prefix_state_cache>>
        BY <2>1, KeyErrorStays DEF EngineInv, vars, poolVars, runnerVars
      <3> QED
        BY <1>1, <3>1, <3>2, ShrinkSettled DEF WriteInv
    <2>2. CASE exception # "KeyError"
      <3>1. Filling
        BY <2>2 DEF EngineInv, WriteInv, Filling, Stepping
      <3> QED
        BY <1>1, <3>1, SettledNext DEF EngineInv, WriteInv, MemInv
    <2> QED
      BY <2>1, <2>2
  <1> QED
    BY <1>1, <1>2 DEF WriteInv

LEMMA BlockOfPosition ==
    ASSUME NEW p \in Nat, NEW z \in Nat \ {0}
    PROVE  /\ p \div z \in Nat /\ p < (p \div z + 1) * z
           /\ \A n \in Nat : p < n => p \div z < (n + z - 1) \div z
  <1>1. p \div z \in Nat /\ p < (p \div z + 1) * z
    OBVIOUS
  <1>2. ASSUME NEW n \in Nat, p < n
        PROVE  p \div z < (n + z - 1) \div z
    BY <1>2
  <1> QED
    BY <1>1, <1>2

LEMMA WritesOwn == ASSUME EngineInv, WriteInv PROVE WritesOwnBlocks
  <1>1. SUFFICES ASSUME pc = "forward", NEW s \in Range(batch), NEW p \in Positions(s)
                 PROVE  /\ batch_is_prefill => Mapped(s, p)
                        /\ Mapped(s, p) => ref_count[BlockAt(s, p)] = 1
    BY DEF WritesOwnBlocks
  <1>2. /\ QueueTypes /\ SeqTypes /\ QueuesApart /\ BatchInv /\ ChunkInv /\ PoolInv
        /\ exception # "KeyError" /\ pc \in Running
    BY <1>1 DEF EngineInv, QueueInv, MemInv, Running
  <1>3. s \in Unfinished /\ s \in Seqs
    BY <1>1, <1>2, InQueues DEF BatchInv
  <1>4. s \in Range(waiting) \/ s \in Decoders
    BY <1>2, <1>3 DEF QueuesApart, Decoders
  <1>5. PICK c, m, n \in Nat : /\ c = seq[s].num_cached_tokens
                               /\ m = seq[s].num_scheduled_tokens
                               /\ n = NumTokens(s)
    <2>1. token_ids[s] \in Seq(Nat)
      BY <1>2, <1>3 DEF SeqTypes
    <2>2. NumTokens(s) \in Nat
      BY <2>1 DEF NumTokens
    <2> QED
      BY <1>2, <1>3, <2>2 DEF SeqTypes, IsFields
  <1>6. /\ s \in Decoders => c + m <= n /\ c < n
        /\ batch_is_prefill => HasRoom(s)
    BY <1>1, <1>2, <1>5 DEF WriteInv, CountInv, Counted, Prefilling
  <1>7. p \in Nat /\ c <= p /\ (batch_is_prefill => p < n)
    <2>1. CASE batch_is_prefill
      <3>1. c + m <= n
        BY <1>1, <1>2, <1>4, <1>5, <1>6, <2>1 DEF ChunkInv
      <3>2. p \in Nat /\ c <= p /\ p < c + m
        BY <1>1, <1>5, <2>1 DEF Positions, First, Past
      <3> QED
        BY <3>1, <3>2
    <2>2. CASE ~batch_is_prefill
      <3>1. s \notin Range(waiting)
        BY <1>1, <1>2, <2>2 DEF BatchInv
      <3>2. c < n
        BY <1>4, <1>6, <3>1
      <3>3. p \in Nat /\ n - 1 <= p
        BY <1>1, <1>5, <2>2 DEF Positions, First
      <3> QED
        BY <2>2, <3>2, <3>3
    <2> QED
      BY <2>1, <2>2
  <1>8. PICK z \in Nat \ {0} : z = BlockSize
    BY PoolAssumption DEF PoolAssumption
  <1>9. PICK d \in Nat : d = p \div z
    BY <1>7, <1>8, BlockOfPosition
  <1>10. p < (d + 1) * z /\ (p < n => d < (n + z - 1) \div z)
    BY <1>7, <1>8, <1>9, BlockOfPosition
  <1>11. PICK q : q = block_table[s]
    OBVIOUS
  <1>12. q \in Seq(Blocks)
    BY <1>2, <1>3, <1>11, TableInjective
  <1>13. batch_is_prefill => Mapped(s, p)
    <2>1. SUFFICES ASSUME batch_is_prefill PROVE d < Len(q)
      BY <1>8, <1>9, <1>11 DEF Mapped
    <2>2. PICK r : r = (n + z - 1) \div z
      OBVIOUS
    <2>3. r <= Len(q) /\ d < r
      BY <1>5, <1>6, <1>7, <1>8, <1>10, <1>11, <2>1, <2>2 DEF HasRoom, BlocksFor
    <2>4. r \in Nat
      <3>1. n + z - 1 \in Nat
        BY <1>8
      <3> QED
        BY <2>2, <3>1, <1>8
    <2> QED
      BY <1>12, <2>3, <2>4
  <1>14. ASSUME Mapped(s, p) PROVE ref_count[BlockAt(s, p)] = 1
    <2>1. PICK i, b : i = d + 1 /\ b = q[i]
      OBVIOUS
    <2>2. BlockAt(s, p) = b /\ d < Len(q)
      BY <1>8, <1>9, <1>11, <1>14, <2>1 DEF BlockAt, Mapped
    <2>3. i \in DOMAIN q
      BY <1>12, <2>1, <2>2
    <2>4. ~Settled(b)
      <3>1. Settled(b) => i * z <= c
        BY <1>3, <1>5, <1>8, <1>11, <2>1, <2>3 DEF WriteInv, SettledRead
      <3>2. i * z \in Nat /\ p < i * z
        BY <1>8, <1>10, <2>1
      <3> QED
        BY <1>7, <3>1, <3>2
    <2>5. b \in Range(block_table[s])
      BY <1>11, <2>1, <2>3 DEF Range
    <2>6. b \in Blocks /\ ref_count[b] # 0
      BY <1>2, <1>3, <2>5, TableNotFree DEF PoolInv, FreeUncounted
    <2>7. ref_count[b] \in Nat /\ ~(ref_count[b] > 1)
      BY <1>2, <2>4, <2>6 DEF PoolInv, PoolTypeOK, Settled
    <2> QED
      BY <2>2, <2>6, <2>7
  <1> QED
    BY <1>13, <1>14

LEMMA WriteInvariant == EngineSpec /\ []Undisturbed => [](EngineInv /\ SlotInv /\ WriteInv)
  <1>1. EngineInit => WriteInv
    BY CountsInitially DEF WriteInv
  <1>2. /\ EngineInv /\ SlotInv /\ WriteInv /\ Undisturbed /\ [EngineNext]_vars /\ EngineInv'
        => WriteInv'
    BY WriteStep
  <1> QED
    BY <1>1, <1>2, SlotInvariant, PTL DEF EngineSpec

(* A forward pass stores keys and values into blocks of its own sequence   *)
(* only: never into a block that another table or a snapshot of the prefix *)
(* cache shares, and every position of a prefill has a block.  The steps   *)
(* between (a victim preempted, a chunk dropped for want of memory, a      *)
(* prefix adopted, a snapshot saved) never put what others share at or     *)
(* past the first token still to be read.                                  *)
THEOREM PassesWriteOwnBlocks == EngineSpec /\ []Undisturbed => []WritesOwnBlocks
  <1>1. EngineInv /\ WriteInv => WritesOwnBlocks
    BY WritesOwn
  <1> QED
    BY <1>1, WriteInvariant, PTL

(* ... without a premise when nothing can disturb the engine.              *)
THEOREM PassesWriteOwnBlocksInPlainEngine ==
    ASSUME PlainEngine PROVE EngineSpec => []WritesOwnBlocks
  BY NeverDisturbed, PassesWriteOwnBlocks, PTL

=============================================================================
