----------------------------- MODULE CacheProofs -----------------------------
(***************************************************************************)
(* What the prefix cache hands out, and what the conv1d continues from,    *)
(* for any requests, limits, pools and errors.                             *)
(*                                                                         *)
(* A node of the trie describes its blocks as long as the last of them is  *)
(* in use; NodeInv says so against every table, and RegisterInv that the   *)
(* reverse index lets no node outlive its last block unless the node is    *)
(* given a second chain.  ConvInv couples the conv state of every slot and *)
(* every snapshot to the tokens its recurrent state has read.              *)
(***************************************************************************)
EXTENDS EngineProofs

-----------------------------------------------------------------------------
(* What has been read.                                                     *)

(* No sequence has read more than there is.                                *)
ReadInv == pc # "raised" => \A t \in Seqs : Cached(t) <= NumTokens(t)

(* What is read is counted by postprocess(), set by admission and          *)
(* forgotten by preemption.                                                *)
CountMoves ==
    \A t \in Seqs : \/ Cached(t)' = Cached(t) \/ Cached(t)' = 0
                    \/ Cached(t)' <= NumTokens(t)

(* A preempted sequence has read nothing.                                  *)
LEMMA PreemptMoves ==
    ASSUME SeqTypes, QueueTypes, QueuesApart, NEW s, TryPreempt(s), running # <<>>
    PROVE  CountMoves
  <1>1. PICK v : v = Last(running)
    OBVIOUS
  <1>2. v \in Seqs
    BY <1>1, LastOfRunning, InQueues
  <1>3. seq' = [seq EXCEPT ![v] = Recomputed(@)] /\ UNCHANGED token_ids
    BY <1>1 DEF TryPreempt, PreemptSeq
  <1>4. (\A t \in Seqs : t # v => seq'[t] = seq[t]) /\ seq'[v] = Recomputed(seq[v])
    BY <1>2, <1>3, PreemptedSeq
  <1>5. seq'[v].num_cached_tokens = 0
    BY <1>2, <1>4, RecomputedFields DEF SeqTypes
  <1> QED
    BY <1>4, <1>5 DEF CountMoves, Cached

(* schedule() reads nothing; admission counts what a hit hands out.        *)
LEMMA ScheduleMoves ==
    ASSUME Reading, Schedule
    PROVE  CountMoves
  <1>0. SeqTypes /\ QueueTypes /\ QueuesApart /\ Filling
    BY ReadingFacts, PacingFacts
  <1>1. CASE ScheduleDecode
    <2>1. PICK s : s = Head(decode_list)
      OBVIOUS
    <2>2. /\ decode_list # <<>> /\ UNCHANGED token_ids
          /\ seq' = [seq EXCEPT ![s].num_scheduled_tokens = 1, ![s].is_prefill = FALSE]
      BY <1>1, <2>1 DEF ScheduleDecode
    <2>3. s \in Seqs
      BY <1>0, <2>1, <2>2 DEF QueueTypes
    <2> QED
      BY <1>0, <2>2, <2>3, DecodingSeq DEF CountMoves, Cached
  <1>2. CASE SchedulePreempt
    <2>1. running # <<>>
      BY <1>0, <1>2, EmptyList
         DEF SchedulePreempt, Filling, Stepping, Undisturbed, PreemptsForRunning
    <2> QED
      BY <1>0, <1>2, <2>1, PreemptMoves DEF SchedulePreempt
  <1>3. CASE EndDecode
    BY <1>3 DEF EndDecode, seqVars, CountMoves, Cached
  <1>4. CASE AdmitShared
    <2>1. PICK s : s = Candidate
      OBVIOUS
    <2>2. PICK m \in Nat : m <= NumTokens(s) /\ seq'[s].num_cached_tokens = m
      BY <1>4, <2>1, HitRead
    <2>3. \A t \in Seqs : t # s => seq'[t] = seq[t]
      BY <1>0, <1>4, <2>1, Admission
    <2> QED
      BY <2>2, <2>3 DEF CountMoves, Cached
  <1>5. CASE AdmitFresh
    <2>1. PICK s : s = Candidate
      OBVIOUS
    <2>2. /\ seq' = [seq EXCEPT ![s].num_cached_tokens = 0] /\ s \in Seqs
      BY <1>0, <1>5, <2>1, HeadOfWaiting DEF AdmitFresh, Fresher, MayPrefill
    <2>3. UNCHANGED token_ids
      BY <1>5 DEF AdmitFresh
    <2>4. seq'[s].num_cached_tokens = 0 /\ \A t \in Seqs : t # s => seq'[t] = seq[t]
      BY <1>0, <2>2, <2>3, AdmittedSeq
    <2> QED
      BY <2>4 DEF CountMoves, Cached
  <1>6. CASE ScheduleChunk
    <2>1. PICK s, n, last : /\ s = Candidate /\ n = Chunk(s)
                            /\ last = (seq[s].num_cached_tokens + Chunk(s) >= NumTokens(s))
      OBVIOUS
    <2>2. /\ seq' = [seq EXCEPT ![s].num_scheduled_tokens = n,
                                ![s].status = IF last THEN "RUNNING" ELSE @]
          /\ UNCHANGED token_ids /\ waiting # <<>>
      BY <1>6, <2>1 DEF ScheduleChunk, MayPrefill
    <2>3. s \in Seqs /\ last \in BOOLEAN
      BY <1>0, <2>1, <2>2, HeadOfWaiting
    <2>4. (\A t \in Seqs : t # s => seq'[t] = seq[t])
          /\ seq'[s].num_cached_tokens = seq[s].num_cached_tokens
      <3>1. IsFields(seq[s]) /\ seq = [t \in Seqs |-> seq[t]]
        BY <1>0, <2>3 DEF SeqTypes
      <3>2. PICK r : r = [seq[s] EXCEPT !.num_scheduled_tokens = n,
                                        !.status = IF last THEN "RUNNING" ELSE @]
        OBVIOUS
      <3>3. r.num_cached_tokens = seq[s].num_cached_tokens
        BY <3>1, <3>2 DEF IsFields, FieldNames
      <3>4. seq' = [seq EXCEPT ![s] = r]
        BY <2>2, <2>3, <3>1, <3>2
      <3> QED
        BY <2>3, <3>1, <3>3, <3>4
    <2> QED
      BY <2>4 DEF CountMoves, Cached
  <1>7. CASE ScheduleNoChunk
    BY <1>7 DEF ScheduleNoChunk, seqVars, CountMoves, Cached
  <1> QED
    BY <1>1, <1>2, <1>3, <1>4, <1>5, <1>6, <1>7 DEF Schedule, EndSchedule

(* A batch counts what its pass has read; a preempted or dropped sequence  *)
(* starts again.                                                           *)
LEMMA BatchMoves ==
    ASSUME Reading, Prepare \/ Requeue \/ Record \/ Sample \/ Advance
    PROVE  CountMoves
  <1>0. SeqTypes /\ QueueTypes /\ QueuesApart /\ Filling /\ pc' # "raised"
    BY ReadingFacts, PacingFacts
  <1>1. CASE Prepare
    <2>1. CASE PrepareStates
      <3>1. PICK members : members = Range(batch)
        OBVIOUS
      <3>2. /\ UNCHANGED token_ids
            /\ seq' = [s \in Seqs |-> IF s \in members
                                      THEN [seq[s] EXCEPT !.prefix_restore_blocks = None]
                                      ELSE seq[s]]
        BY <1>1, <2>1, <3>1 DEF Prepare, PrepareStates
      <3> QED
        BY <1>0, <3>2, RestoredSeq DEF CountMoves, Cached
    <2>2. CASE UNCHANGED seq
      BY <2>2 DEF CountMoves, Cached
    <2> QED
      BY <1>1, <2>1, <2>2 DEF Prepare
  <1>2. CASE Requeue
    <2>1. PICK s : s = Head(oom_preempted)
      OBVIOUS
    <2>2. /\ seq' = [seq EXCEPT ![s] = Recomputed(@)] /\ UNCHANGED token_ids
          /\ oom_preempted # <<>>
      BY <1>2, <2>1 DEF Requeue
    <2>3. s \in Seqs
      BY <1>0, <2>1, <2>2 DEF QueueTypes
    <2>4. (\A t \in Seqs : t # s => seq'[t] = seq[t]) /\ seq'[s] = Recomputed(seq[s])
      BY <1>0, <2>2, <2>3, PreemptedSeq
    <2>5. seq'[s].num_cached_tokens = 0
      BY <1>0, <2>3, <2>4, RecomputedFields DEF SeqTypes
    <2> QED
      BY <2>4, <2>5 DEF CountMoves, Cached
  <1>3. CASE Record
    <2>1. PICK s, c : s = Head(todo) /\ c = Cached(s) + Scheduled(s)
      OBVIOUS
    <2>2. /\ s \in Seqs /\ UNCHANGED token_ids
          /\ seq' = [seq EXCEPT ![s].num_cached_tokens = c, ![s].num_scheduled_tokens = 0]
      BY <1>3, <2>1, RecordFacts
    <2>3. c <= NumTokens(s)
      BY <1>3, <2>1, RecordRead
    <2>4. c = seq[s].num_cached_tokens + seq[s].num_scheduled_tokens
      BY <2>1 DEF Cached, Scheduled
    <2>5. (\A t \in Seqs : t # s => seq'[t] = seq[t]) /\ seq'[s].num_cached_tokens = c
      BY <1>0, <2>2, <2>4, RecordedSeq
    <2> QED
      BY <2>3, <2>5 DEF CountMoves, Cached
  <1>4. CASE Sample
    <2>1. PICK s : s = Head(todo)
      OBVIOUS
    <2>2. CASE UNCHANGED seq
      BY <2>2 DEF CountMoves, Cached
    <2>3. CASE ~UNCHANGED seq
      <3>1. seq' = [seq EXCEPT ![s].status = "FINISHED"]
        BY <1>4, <2>1, <2>3 DEF Sample, AppendToken, Finish, seqVars
      <3>2. s \in Seqs
        <4>1. todo # <<>>
          BY <1>0, <1>4, SteppingFacts DEF Sample, BatchInv, Filling
        <4> QED
          BY <1>0, <2>1, <4>1 DEF QueueTypes
      <3> QED
        BY <1>0, <3>1, <3>2, FinishedCounters DEF CountMoves, Cached
    <2> QED
      BY <2>2, <2>3
  <1>5. CASE Advance
    <2>1. PICK s : s = Head(todo)
      OBVIOUS
    <2>2. pc = "advance" /\ todo # <<>> /\ s \in Seqs
      <3>1. pc = "advance" /\ todo # <<>>
        BY <1>5 DEF Advance
      <3> QED
        BY <1>0, <2>1, <3>1 DEF QueueTypes
    <2>3. CASE AdvancePreempt(s)
      <3>1. s \in Range(running)
        <4>1. /\ s \in Range(batch)
              /\ s \notin Range(waiting) => s \in Range(running)
          BY <1>0, <2>1, <2>2, SteppingFacts, HeadOfTodo DEF Filling, Processing
        <4> QED
          BY <1>0, <2>2, <4>1 DEF Filling, Stepping, Undisturbed, AdvancesRunning
      <3> QED
        BY <1>0, <2>3, <3>1, PreemptMoves, EmptyList DEF AdvancePreempt
    <2>4. CASE AdvanceAppend(s) /\ UNCHANGED token_ids
      BY <1>0, <2>2, <2>4, DecodingSeq DEF AdvanceAppend, CountMoves, Cached
    <2>5. CASE UNCHANGED seq
      BY <2>5 DEF CountMoves, Cached
    <2> QED
      BY <1>0, <1>5, <2>1, <2>3, <2>4, <2>5 DEF Advance, Raise, seqVars
  <1> QED
    BY <1>1, <1>2, <1>3, <1>4, <1>5

(* Every step of the engine.                                               *)
LEMMA ReadStep ==
    ASSUME Knowing, ReadInv
    PROVE  ReadInv'
  <1>1. CASE pc' = "raised"
    BY <1>1 DEF ReadInv
  <1>2. CASE pc = "raised"
    BY <1>2, RaisedStays DEF Knowing, vars, loopVars, ReadInv, Cached, NumTokens, seqVars
  <1>3. CASE pc # "raised" /\ pc' # "raised"
    <2>1. Reading /\ [EngineNext]_vars
      BY <1>3, KnowingReads DEF Knowing
    <2>2. CountMoves
      <3>1. CASE Schedule
        BY <2>1, <3>1, ScheduleMoves
      <3>2. CASE Prepare \/ Requeue \/ Record \/ Sample \/ Advance
        BY <2>1, <3>2, BatchMoves
      <3>3. CASE \/ Generate \/ GenerateRejected \/ BeginStep \/ Forward \/ Retry \/ GiveUp
                 \/ EndRequeue \/ EndAdvance \/ Finalize \/ Return \/ Abandon \/ Recover
                 \/ Stopped \/ UNCHANGED vars
        <4>1. UNCHANGED seq
          BY <3>3 DEF Generate, GenerateRejected, BeginStep, Forward, Retry, GiveUp,
                      EndRequeue, EndAdvance, Finalize, Return, Abandon, Recover, Stopped,
                      vars, seqVars
        <4> QED
          BY <4>1 DEF CountMoves, Cached
      <3> QED
        BY <2>1, <3>1, <3>2, <3>3 DEF EngineNext, EngineStep
    <2>3. SeqTypes /\ SeqTypes' /\ MemoryStep /\ Unfinished \subseteq Seqs
      <3>1. SeqTypes /\ SeqTypes' /\ QueueInv /\ Undisturbed /\ [EngineNext]_vars
        BY DEF Knowing, EngineInv, QueueInv
      <3>2. Unfinished \subseteq Seqs
        BY <2>1, ReadingFacts, PacingFacts
      <3> QED
        BY <3>1, <3>2, MemorySteps
    <2>4. SUFFICES ASSUME NEW t \in Seqs PROVE Cached(t)' <= NumTokens(t)'
      BY DEF ReadInv
    <2>5. PICK c, n, d, k \in Nat : /\ c = Cached(t) /\ n = NumTokens(t)
                                    /\ d = Cached(t)' /\ k = NumTokens(t)'
      <3>1. /\ Cached(t) \in Nat /\ Cached(t)' \in Nat
            /\ token_ids[t] \in Seq(Nat) /\ token_ids'[t] \in Seq(Nat)
        BY <2>3, <2>4 DEF SeqTypes, IsFields, Cached
      <3> QED
        BY <3>1 DEF NumTokens
    <2>6. n <= k
      <3>1. CASE SameRequests
        BY <2>5, <3>1 DEF SameRequests, NumTokens
      <3>2. CASE \E s \in Unfinished : Samples(s)
        <4>1. PICK s \in Seqs, token \in Vocab :
                 token_ids' = [token_ids EXCEPT ![s] = Append(@, token)]
          BY <2>3, <3>2 DEF Samples
        <4>2. /\ t # s => token_ids'[t] = token_ids[t]
              /\ Len(token_ids'[s]) = Len(token_ids[s]) + 1
          BY <2>3, <4>1, AppendedTokens
        <4>3. k = n \/ k = n + 1
          BY <2>5, <4>2 DEF NumTokens
        <4> QED
          BY <4>3
      <3> QED
        BY <2>3, <3>1, <3>2
           DEF MemoryStep, Quiet, Admits, Restores, Grows, Releases, Records
    <2>7. c <= n
      BY <1>3, <2>5 DEF ReadInv
    <2>8. d = c \/ d = 0 \/ d <= n
      BY <2>2, <2>5 DEF CountMoves
    <2>9. d <= k
      BY <2>6, <2>7, <2>8
    <2> QED
      BY <2>5, <2>9
  <1> QED
    BY <1>1, <1>2, <1>3

-----------------------------------------------------------------------------
(* What the prefix cache finds.                                            *)

(* The blocks that the nodes of the trie name last are in use.             *)
ChainsLive == \A p \in DOMAIN trie : Last(trie[p]) \notin Range(free_block_ids)

(* A sequence that holds the last block of a node starts with its tokens.  *)
StartsWith(t, chain, p) ==
    Last(chain) \in Range(block_table[t]) =>
        /\ Len(chain) <= Len(block_table[t]) /\ block_table[t][Len(chain)] = Last(chain)
        /\ Len(p) <= NumTokens(t) /\ Read(t, Len(p)) = p
IsNode(p, chain) ==
    /\ p \in Seq(Nat) /\ chain \in Seq(Blocks) /\ chain # <<>>
    /\ Len(p) = Len(chain) * BlockSize
NodeInv ==
    \A p \in DOMAIN trie :
        IsNode(p, trie[p]) /\ \A t \in Seqs : StartsWith(t, trie[p], p)

(* The last position of the k-th block.                                    *)
LEMMA LastPosition ==
    ASSUME NEW k \in Nat \ {0}, NEW z \in Nat \ {0}
    PROVE  \E j, q \in Nat :
              j + 1 = k /\ q + 1 = k * z /\ q \div z = j /\ q % z = z - 1
  <1>1. PICK j \in Nat : j + 1 = k
    <2>1. k - 1 \in Nat /\ (k - 1) + 1 = k
      OBVIOUS
    <2> QED
      BY <2>1
  <1>2. PICK q \in Nat : q = j * z + (z - 1)
    OBVIOUS
  <1>3. q + 1 = k * z
    BY <1>1, <1>2
  <1>4. q \div z = j /\ q % z = z - 1
    BY <1>2
  <1> QED
    BY <1>1, <1>3, <1>4

(* What the blocks of a sequence hold at the end of a block that it has    *)
(* read.                                                                   *)
LEMMA EndOfBlock ==
    ASSUME NEW t \in Seqs, NEW n \in Nat, Stores(t, n), NEW k \in Nat \ {0},
           k * BlockSize <= n
    PROVE  kv_cache[block_table[t][k]][BlockSize - 1] = Read(t, k * BlockSize)
  <1>1. PICK z \in Nat \ {0} : z = BlockSize
    BY PoolAssumption DEF PoolAssumption
  <1>2. PICK j, p \in Nat : j + 1 = k /\ p + 1 = k * z /\ p \div z = j /\ p % z = z - 1
    BY <1>1, LastPosition
  <1>6. p \in 0 .. (n - 1)
    BY <1>1, <1>2
  <1>7. kv_cache[BlockAt(t, p)][p % BlockSize] = Read(t, p + 1)
    BY <1>6 DEF Stores
  <1> QED
    BY <1>1, <1>2, <1>7 DEF BlockAt

(* Two sequences that share a block have read the same tokens up to it.    *)
LEMMA SharedRead ==
    ASSUME Reading, ReadInv, NEW s \in Seqs, NEW t \in Seqs, NEW k \in DOMAIN block_table[s],
           block_table[s][k] \in Range(block_table[t]), s # t
    PROVE  /\ k \in DOMAIN block_table[t] /\ block_table[t][k] = block_table[s][k]
           /\ k * BlockSize <= NumTokens(t)
           /\ Read(t, k * BlockSize) = Read(s, k * BlockSize)
  <1>1. PICK b : b = block_table[s][k]
    OBVIOUS
  <1>2. PICK i \in DOMAIN block_table[t] : block_table[t][i] = b
    BY <1>1 DEF Range
  <1>3. PoolInv /\ SeqTypes /\ NoneHeld /\ SettledRead /\ ~(pc = "raised")
    BY ReadingFacts, PacingFacts
  <1>4. i = k
    BY <1>1, <1>2, <1>3 DEF PoolInv, SharedFromStart
  <1>5. b \in Range(block_table[s]) /\ b \in Range(block_table[t])
    BY <1>1, <1>2 DEF Range
  <1>6. Settled(b)
    BY <1>3, <1>5, TwoHolders DEF Settled
  <1>7. block_table[s] \in Seq(Blocks) /\ block_table[t] \in Seq(Blocks)
    BY <1>3, TableInjective
  <1>8. k \in Nat \ {0}
    BY <1>7
  <1>9. PICK m \in Nat : m = k * BlockSize
    BY <1>8, PoolAssumption DEF PoolAssumption
  <1>10. ASSUME NEW u \in {s, t}
         PROVE  m <= NumTokens(u) /\ kv_cache[b][BlockSize - 1] = Read(u, m)
    <2>1. u \in Seqs /\ k \in DOMAIN block_table[u] /\ block_table[u][k] = b
      BY <1>1, <1>2, <1>4, <1>10
    <2>2. m <= Cached(u)
      BY <1>3, <1>6, <1>9, <2>1 DEF SettledRead, Cached
    <2>3. ~Finished(u)
      <3>1. block_table[u] # <<>>
        BY <1>7, <1>10, <2>1
      <3> QED
        BY <1>3, <2>1, <3>1 DEF NoneHeld
    <2>4. KeysKept(u)
      BY <2>1, ReadingFacts
    <2>5. PICK c, d, n \in Nat : c = Cached(u) /\ d = Scheduled(u) /\ n = NumTokens(u)
      BY <2>1, ReadSoFar
    <2>6. PICK r \in Nat : r = Progress(u) /\ c <= r
      <3>1. Progress(u) = c \/ Progress(u) = c + d
        BY <2>5 DEF Progress
      <3> QED
        BY <2>5, <3>1
    <2>7. Stores(u, r) /\ m <= r
      BY <2>2, <2>3, <2>4, <2>5, <2>6 DEF KeysKept
    <2>8. kv_cache[b][BlockSize - 1] = Read(u, m)
      BY <1>8, <1>9, <2>1, <2>6, <2>7, EndOfBlock
    <2>9. c <= n
      BY <1>3, <2>1, <2>5 DEF ReadInv
    <2> QED
      BY <2>2, <2>5, <2>8, <2>9
  <1> QED
    BY <1>1, <1>2, <1>4, <1>9, <1>10

(* While the nodes are true of the tables that hold them, a hit is exact:  *)
(* the snapshot's blocks stand in a table, which starts with the node's    *)
(* tokens, and what the last of those blocks holds is all of them.         *)
LEMMA HitsAreExact ==
    ASSUME EngineInv, WriteInv, ContextInv, SnapInv, NodeInv, pc # "raised"
    PROVE  HitsExact
  <1>1. SUFFICES ASSUME NEW p \in DOMAIN trie, HasState(trie[p])
                 PROVE  Snapshot(trie[p]).state.recurrent = p
    BY DEF HitsExact
  <1>2. PICK chain, e : chain = trie[p] /\ e = Snapshot(chain)
    OBVIOUS
  <1>3. e \in Range(prefix_state_cache) /\ e.key = chain
    BY <1>1, <1>2 DEF HasState, Keys, Snapshot, Range
  <1>4. SnapshotRead(e) /\ IsState(e.state)
    BY <1>3 DEF SnapInv, ContextInv, StateTypes
  <1>5. /\ p \in Seq(Nat) /\ chain \in Seq(Blocks) /\ chain # <<>>
        /\ Len(p) = Len(chain) * BlockSize /\ \A t \in Seqs : StartsWith(t, chain, p)
    BY <1>2 DEF NodeInv, IsNode
  <1>6. PoolInv /\ KeysLive /\ NoneHeld /\ SeqTypes /\ SettledRead
    BY DEF EngineInv, QueueInv, MemInv, WriteInv
  <1>7. chain \in Chains
    BY <1>3, <1>5, <1>6 DEF KeysLive
  <1>8. PICK t \in Seqs : \E n \in 1 .. Len(block_table[t]) : chain = SubSeq(block_table[t], 1, n)
    BY <1>7 DEF Chains
  <1>9. PICK n \in 1 .. Len(block_table[t]) : chain = SubSeq(block_table[t], 1, n)
    BY <1>8
  <1>10. block_table[t] \in Seq(Blocks)
    BY <1>6, TableInjective
  <1>11. PICK b : b = block_table[t][n]
    OBVIOUS
  <1>12. /\ n \in Nat \ {0} /\ Len(chain) = n /\ chain[n] = b /\ n \in DOMAIN block_table[t]
         /\ n \in DOMAIN chain
    BY <1>9, <1>10, <1>11
  <1>13. b \in Range(block_table[t]) /\ Last(chain) = b /\ b \in Range(chain)
    BY <1>11, <1>12 DEF Range, Last
  <1>14. PICK m \in Nat : m = n * BlockSize
    BY <1>12, PoolAssumption DEF PoolAssumption
  <1>15. Len(p) = m /\ Read(t, m) = p
    BY <1>5, <1>8, <1>12, <1>13, <1>14 DEF StartsWith
  <1>16. kv_cache[b][BlockSize - 1] = Read(t, m)
    <2>1. Settled(b)
      BY <1>3, <1>13 DEF Settled, Keyed
    <2>2. m <= Cached(t)
      BY <1>6, <1>11, <1>12, <1>14, <2>1 DEF SettledRead, Cached
    <2>3. ~Finished(t)
      <3>1. block_table[t] # <<>>
        BY <1>10, <1>12
      <3> QED
        BY <1>6, <1>8, <3>1 DEF NoneHeld
    <2>4. KeysKept(t)
      BY DEF ContextInv
    <2>5. PICK c, d \in Nat : c = Cached(t) /\ d = Scheduled(t)
      BY <1>6 DEF SeqTypes, IsFields, Cached, Scheduled
    <2>6. PICK r \in Nat : r = Progress(t) /\ c <= r
      <3>1. Progress(t) = c \/ Progress(t) = c + d
        BY <2>5 DEF Progress
      <3> QED
        BY <2>5, <3>1
    <2>7. Stores(t, r) /\ m <= r
      BY <2>2, <2>3, <2>4, <2>5, <2>6 DEF KeysKept
    <2> QED
      BY <1>11, <1>12, <1>14, <2>6, <2>7, EndOfBlock
  <1>17. kv_cache[b][BlockSize - 1] = e.state.recurrent
    <2>1. PICK z \in Nat \ {0}, w \in Seq(Nat) : z = BlockSize /\ w = e.state.recurrent
      BY <1>4, PoolAssumption DEF PoolAssumption, IsState
    <2>2. PICK j, q \in Nat : j + 1 = n /\ q + 1 = n * z /\ q \div z = j /\ q % z = z - 1
      BY <1>12, <2>1, LastPosition
    <2>4. Len(w) = m /\ m = n * z
      BY <1>3, <1>4, <1>12, <1>14, <2>1 DEF SnapshotRead
    <2>6. q \in 0 .. (Len(w) - 1) /\ q + 1 = m
      BY <2>2, <2>4
    <2>7. kv_cache[chain[q \div z + 1]][q % z] = SubSeq(w, 1, q + 1)
      BY <1>3, <1>4, <2>1, <2>6 DEF SnapshotRead
    <2>8. SubSeq(w, 1, m) = w
      BY <2>1, <2>4
    <2> QED
      BY <1>12, <2>1, <2>2, <2>6, <2>7, <2>8
  <1> QED
    BY <1>2, <1>15, <1>16, <1>17

(* Where tables and tokens are added to at the end, or dropped.            *)
LEMMA NodesKept ==
    ASSUME NodeInv, SeqTypes, PoolInv,
           \A p \in DOMAIN trie' : p \in DOMAIN trie /\ trie'[p] = trie[p],
           \A t \in Seqs : /\ \/ block_table'[t] = block_table[t]
                              \/ block_table'[t] = <<>>
                           /\ \/ token_ids'[t] = token_ids[t]
                              \/ \E token \in Nat : token_ids'[t] = Append(token_ids[t], token)
    PROVE  NodeInv'
  <1>1. SUFFICES ASSUME NEW p \in DOMAIN trie, NEW t \in Seqs, trie'[p] = trie[p],
                        NEW b, b = Last(trie[p]), b \in Range(block_table'[t])
                 PROVE  /\ Len(trie[p]) <= Len(block_table'[t])
                        /\ block_table'[t][Len(trie[p])] = b
                        /\ Len(p) <= NumTokens(t)' /\ Read(t, Len(p))' = p
    BY DEF NodeInv, StartsWith, IsNode
  <1>2. block_table'[t] = block_table[t]
    BY <1>1, EmptyList
  <1>3. /\ Len(trie[p]) <= Len(block_table[t])
        /\ block_table[t][Len(trie[p])] = b
        /\ Len(p) <= NumTokens(t) /\ Read(t, Len(p)) = p /\ p \in Seq(Nat)
    BY <1>1, <1>2 DEF NodeInv, StartsWith, IsNode
  <1>4. token_ids[t] \in Seq(Nat)
    BY <1>1 DEF SeqTypes
  <1>5. PICK q : q = token_ids[t]
    OBVIOUS
  <1>6. CASE token_ids'[t] = q
    BY <1>1, <1>2, <1>3, <1>5, <1>6 DEF NumTokens, Read
  <1>7. CASE \E token \in Nat : token_ids'[t] = Append(q, token)
    <2>1. PICK token \in Nat : token_ids'[t] = Append(q, token)
      BY <1>7
    <2>2. PICK n \in Nat : n = Len(p)
      BY <1>3
    <2>3. q \in Seq(Nat) /\ n <= Len(q) /\ SubSeq(q, 1, n) = p
      BY <1>3, <1>4, <1>5, <2>2 DEF NumTokens, Read
    <2>4. n <= Len(Append(q, token)) /\ SubSeq(Append(q, token), 1, n) = p
      BY <2>3
    <2> QED
      BY <1>1, <1>2, <1>3, <2>1, <2>2, <2>4 DEF NumTokens, Read
  <1> QED
    BY <1>1, <1>5, <1>6, <1>7

(* Blocks that are taken are of no node, and a chain that is adopted is of *)
(* the adopter's tokens.                                                   *)
LEMMA NodesTaken ==
    ASSUME NodeInv, ChainsLive, PoolInv, SeqTypes, UNCHANGED <<trie, token_ids>>,
           NEW s \in Seqs, NEW shared \in Seq(Blocks), NEW n \in Nat,
           TakeBlocks(s, shared, n),
           shared = <<>> \/ block_table[s] = <<>>,
           NEW u \in Seqs, Len(shared) <= Len(block_table[u]),
           \A i \in DOMAIN shared : shared[i] = block_table[u][i],
           NEW r \in DOMAIN trie \cup {<<>>},
           shared # <<>> => /\ r \in DOMAIN trie /\ shared = trie[r]
                            /\ Len(r) <= NumTokens(s) /\ Read(s, Len(r)) = r
    PROVE  NodeInv'
  <1>1. SUFFICES ASSUME NEW p \in DOMAIN trie, NEW t \in Seqs,
                        NEW b, b = Last(trie[p]), b \in Range(block_table'[t])
                 PROVE  /\ Len(trie[p]) <= Len(block_table'[t])
                        /\ block_table'[t][Len(trie[p])] = b
                        /\ Len(p) <= NumTokens(t) /\ Read(t, Len(p)) = p
    BY DEF NodeInv, StartsWith, IsNode, NumTokens, Read
  <1>2. PICK q, new, k : q = block_table[s] /\ new = Popped(n) /\ k = Len(trie[p])
    OBVIOUS
  <1>3. /\ q \in Seq(Blocks) /\ new \in Seq(Blocks) /\ block_table \in [Seqs -> Seq(Blocks)]
        /\ Range(new) \subseteq Range(free_block_ids)
    BY <1>2, PopSplits DEF TakeBlocks, PoolInv, PoolTypeOK
  <1>4. /\ block_table'[s] = (q \o shared) \o new
        /\ \A v \in Seqs : v # s => block_table'[v] = block_table[v]
    BY <1>2, <1>3 DEF TakeBlocks
  <1>5. b \notin Range(new)
    BY <1>1, <1>3 DEF ChainsLive
  <1>6. /\ k \in Nat \ {0} /\ b = trie[p][k] /\ p \in Seq(Nat) /\ Len(p) = k * BlockSize
        /\ \A v \in Seqs : b \in Range(block_table[v]) =>
              /\ k <= Len(block_table[v]) /\ block_table[v][k] = b
              /\ Len(p) <= NumTokens(v) /\ Read(v, Len(p)) = p
    <2>1. trie[p] \in Seq(Blocks) /\ trie[p] # <<>>
      BY <1>1 DEF NodeInv, IsNode
    <2>2. k \in Nat \ {0}
      BY <1>2, <2>1
    <2> QED
      BY <1>1, <1>2, <2>2 DEF NodeInv, IsNode, StartsWith, Last
  <1>7. CASE t # s
    BY <1>1, <1>2, <1>4, <1>6, <1>7
  <1>8. CASE t = s /\ shared = <<>>
    <2>1. q \o shared = q
      BY <1>3, <1>8
    <2>2. b \in Range(q \o new)
      BY <1>1, <1>4, <1>8, <2>1
    <2>3. b \in Range(q)
      BY <1>3, <1>5, <2>2, RangeOfConcat
    <2>4. /\ k <= Len(q) /\ q[k] = b /\ Len(p) <= NumTokens(s) /\ Read(s, Len(p)) = p
      BY <1>2, <1>6, <2>3
    <2>5. k <= Len(q \o new) /\ (q \o new)[k] = b
      BY <1>3, <1>6, <2>4
    <2> QED
      BY <1>2, <1>4, <1>8, <2>1, <2>4, <2>5
  <1>9. CASE t = s /\ q = <<>> /\ shared # <<>>
    <2>1. q \o shared = shared
      BY <1>3, <1>9
    <2>2. b \in Range(shared \o new)
      BY <1>1, <1>4, <1>9, <2>1
    <2>3. b \in Range(shared)
      BY <1>3, <1>5, <2>2, RangeOfConcat
    <2>4. PICK i \in DOMAIN shared : shared[i] = b
      BY <2>3 DEF Range
    <2>5. i \in DOMAIN block_table[u] /\ block_table[u][i] = b
      <3>1. block_table[u] \in Seq(Blocks)
        BY <1>3
      <3> QED
        BY <2>4, <3>1
    <2>6. b \in Range(block_table[u])
      BY <2>5 DEF Range
    <2>7. k <= Len(block_table[u]) /\ block_table[u][k] = b
          /\ Len(p) <= NumTokens(u) /\ Read(u, Len(p)) = p
      BY <1>6, <2>6
    <2>8. i = k
      <3>1. block_table[u] \in Seq(Blocks) /\ IsInjective(block_table[u])
        BY TableInjective
      <3>2. k \in DOMAIN block_table[u]
        BY <1>6, <2>7, <3>1
      <3> QED
        BY <2>5, <2>7, <3>1, <3>2 DEF IsInjective
    <2>9. /\ r \in Seq(Nat) /\ Len(r) = Len(shared) * BlockSize
          /\ Len(r) <= NumTokens(s) /\ Read(s, Len(r)) = r /\ Read(u, Len(r)) = r
      <3>1. /\ r \in DOMAIN trie /\ shared = trie[r]
            /\ Len(r) <= NumTokens(s) /\ Read(s, Len(r)) = r
        BY <1>9
      <3>2. r \in Seq(Nat) /\ Len(r) = Len(shared) * BlockSize /\ StartsWith(u, shared, r)
        BY <3>1 DEF NodeInv, IsNode
      <3>3. Len(shared) \in DOMAIN shared
        <4>1. Len(shared) \in Nat /\ Len(shared) # 0
          BY <1>9
        <4> QED
          BY <4>1
      <3>4. Last(shared) \in Range(block_table[u])
        <4>1. block_table[u] \in Seq(Blocks)
          BY <1>3
        <4>2. Last(shared) = block_table[u][Len(shared)] /\ Len(shared) \in DOMAIN block_table[u]
          BY <3>3, <4>1 DEF Last
        <4> QED
          BY <4>2 DEF Range
      <3> QED
        BY <3>1, <3>2, <3>4 DEF StartsWith
    <2>10. PICK z \in Nat \ {0} : z = BlockSize
      BY PoolAssumption DEF PoolAssumption
    <2>11. PICK m, l \in Nat : m = Len(p) /\ l = Len(r)
      BY <1>6, <2>9
    <2>12. m <= l
      <3>1. PICK j \in Nat : j = Len(shared)
        OBVIOUS
      <3>2. k <= j
        BY <2>4, <2>8, <3>1
      <3>3. m = k * z /\ l = j * z
        BY <1>6, <2>9, <2>10, <2>11, <3>1
      <3> QED
        BY <1>6, <2>10, <3>2, <3>3
    <2>13. m <= NumTokens(s)
      <3>1. token_ids[s] \in Seq(Nat)
        BY DEF SeqTypes
      <3>2. NumTokens(s) \in Nat
        BY <3>1 DEF NumTokens
      <3> QED
        BY <2>9, <2>11, <2>12, <3>2
    <2>14. Read(s, m) = p
      <3>1. \A w \in {s, u} : SubSeq(SubSeq(token_ids[w], 1, l), 1, m) = SubSeq(token_ids[w], 1, m)
        <4>1. CASE m = 0
          BY <4>1
        <4>2. CASE m # 0
          BY <2>12, <4>2
        <4> QED
          BY <4>1, <4>2
      <3>2. Read(s, l) = Read(u, l)
        BY <2>9, <2>11
      <3>3. Read(s, m) = Read(u, m)
        BY <3>1, <3>2 DEF Read
      <3> QED
        BY <2>7, <2>11, <3>3
    <2>15. k <= Len(block_table'[s]) /\ block_table'[s][k] = b
      <3>1. k \in DOMAIN shared /\ shared[k] = b
        BY <2>4, <2>8
      <3>2. k <= Len(shared \o new) /\ (shared \o new)[k] = shared[k]
        BY <1>3, <3>1
      <3> QED
        BY <1>4, <2>1, <3>1, <3>2
    <2> QED
      BY <1>2, <1>9, <2>11, <2>13, <2>14, <2>15
  <1> QED
    BY <1>2, <1>7, <1>8, <1>9

(* The nodes that postprocess() registers are of the tokens its sequence   *)
(* has, and of those that share its blocks.                                *)
LEMMA NodesRecorded ==
    ASSUME Reading, ReadInv, NodeInv, Record
    PROVE  NodeInv'
  <1>1. PICK s, tokens, table :
           s = Head(todo) /\ tokens = token_ids[s] /\ table = block_table[s]
    OBVIOUS
  <1>2. /\ s \in Seqs /\ RecordProgress(s) /\ UNCHANGED <<token_ids, block_table>>
        /\ SeqTypes /\ PoolInv /\ tokens \in Seq(Nat) /\ table \in Seq(Blocks)
    <2>1. s \in Seqs /\ RecordProgress(s) /\ UNCHANGED <<token_ids, block_table>>
          /\ SeqTypes /\ PoolInv
      BY <1>1, RecordFacts, ReadingFacts, PacingFacts
    <2> QED
      BY <1>1, <2>1, TableInjective DEF SeqTypes
  <1>3. CASE UNCHANGED trie
    BY <1>2, <1>3, NodesKept
  <1>4. CASE AddPrefix(tokens, table)
    <2>1. PICK n, nodes : /\ n = Min({FullBlocks(tokens), Len(table)})
                          /\ nodes = {Boundary(tokens, k) : k \in 1 .. n}
      OBVIOUS
    <2>2. PICK f \in Nat, z \in Nat \ {0} : f = FullBlocks(tokens) /\ z = BlockSize
      BY <1>2, PoolAssumption DEF PoolAssumption, FullBlocks
    <2>3. n \in Nat /\ n <= f /\ n <= Len(table)
      BY <1>2, <2>1, <2>2, SmallerOf
    <2>4. trie' = [p \in DOMAIN trie \cup nodes |->
                      IF p \in nodes THEN SubSeq(table, 1, Len(p) \div BlockSize)
                      ELSE trie[p]]
      BY <1>4, <2>1 DEF AddPrefix
    <2>5. SUFFICES ASSUME NEW p \in DOMAIN trie'
                   PROVE  IsNode(p, trie'[p]) /\ \A t \in Seqs : StartsWith(t, trie'[p], p)
      <3>1. \A p \in DOMAIN trie', t \in Seqs :
               StartsWith(t, trie'[p], p) => StartsWith(t, trie[p], p)'
        BY <1>2 DEF StartsWith, NumTokens, Read
      <3>2. \A p \in DOMAIN trie' : IsNode(p, trie'[p]) => IsNode(p, trie[p])'
        BY DEF IsNode
      <3> QED
        BY <2>5, <3>1, <3>2 DEF NodeInv
    <2>6. CASE p \notin nodes
      BY <2>4, <2>5, <2>6 DEF NodeInv
    <2>7. CASE p \in nodes
      <3>1. PICK k \in 1 .. n : p = Boundary(tokens, k)
        BY <2>1, <2>7
      <3>2. k \in Nat \ {0} /\ k <= f /\ k <= Len(table) /\ k \in DOMAIN table
        BY <1>2, <2>3, <3>1
      <3>3. /\ p \in Seq(Nat) /\ Len(p) = k * z /\ Len(p) \div z = k
            /\ p = SubSeq(tokens, 1, k * z)
        BY <1>2, <2>2, <3>1, <3>2, BoundaryDepth DEF Boundary
      <3>4. PICK chain : chain = SubSeq(table, 1, k) /\ chain = trie'[p]
        BY <2>2, <2>4, <2>7, <3>3
      <3>5. /\ chain \in Seq(Blocks) /\ Len(chain) = k /\ chain # <<>>
            /\ Last(chain) = table[k]
        <4>1. chain \in Seq(Blocks) /\ Len(chain) = k /\ chain[k] = table[k]
          BY <1>2, <3>2, <3>4
        <4> QED
          BY <3>2, <4>1 DEF Last
      <3>6. IsNode(p, chain)
        BY <2>2, <3>3, <3>5 DEF IsNode
      <3>7. k * z <= Len(tokens)
        <4>1. Len(tokens) \in Nat /\ k <= Len(tokens) \div z
          BY <1>2, <2>2, <3>2 DEF FullBlocks
        <4> QED
          BY <2>2, <3>2, <4>1, DivTimes
      <3>8. ASSUME NEW t \in Seqs PROVE StartsWith(t, chain, p)
        <4>1. CASE t = s
          BY <1>1, <1>2, <3>2, <3>3, <3>5, <3>7, <4>1 DEF StartsWith, NumTokens, Read
        <4>2. CASE t # s /\ table[k] \in Range(block_table[t])
          <5>1. /\ k \in DOMAIN block_table[t] /\ block_table[t][k] = table[k]
                /\ k * BlockSize <= NumTokens(t)
                /\ Read(t, k * BlockSize) = Read(s, k * BlockSize)
            BY <1>1, <1>2, <3>2, <3>8, <4>2, SharedRead
          <5>2. block_table[t] \in Seq(Blocks)
            BY <1>2, <3>8, TableInjective
          <5>3. k <= Len(block_table[t])
            BY <3>2, <5>1, <5>2
          <5>4. Read(t, Len(p)) = p /\ Len(p) <= NumTokens(t)
            BY <1>1, <2>2, <3>3, <5>1 DEF Read
          <5>5. /\ Len(chain) <= Len(block_table[t])
                /\ block_table[t][Len(chain)] = Last(chain)
            BY <3>5, <5>1, <5>3
          <5> QED
            BY <5>4, <5>5 DEF StartsWith
        <4> QED
          BY <3>5, <4>1, <4>2 DEF StartsWith
      <3> QED
        BY <3>4, <3>6, <3>8
    <2> QED
      BY <2>6, <2>7
  <1> QED
    BY <1>1, <1>2, <1>3, <1>4 DEF RecordProgress, cacheVars

(* The node whose chain a lookup finds is of the first tokens.             *)
LEMMA HitNode ==
    ASSUME NEW tokens \in Seq(Nat), LongestPrefix(tokens) # <<>>
    PROVE  \E r \in DOMAIN trie :
              /\ LongestPrefix(tokens) = trie[r]
              /\ Len(r) <= Len(tokens) /\ SubSeq(tokens, 1, Len(r)) = r
  <1>1. PICK f \in Nat, z \in Nat \ {0} :
           z = BlockSize /\ f = FullBlocks(tokens) /\ f = Len(tokens) \div z
    BY PoolAssumption DEF PoolAssumption, FullBlocks
  <1>2. PICK sizes \in SUBSET (0 .. f) : sizes = Matches(tokens)
    <2>1. Matches(tokens) \in SUBSET (0 .. f)
      BY <1>1 DEF Matches
    <2> QED
      BY <2>1
  <1>3. PICK k : k = Max(sizes)
    OBVIOUS
  <1>4. k \in sizes /\ LongestPrefix(tokens) = trie[Boundary(tokens, k)]
    <2>1. sizes # {} /\ LongestPrefix(tokens) = trie[Boundary(tokens, k)]
      BY <1>2, <1>3 DEF LongestPrefix
    <2>2. sizes # {} /\ Max(sizes) \in sizes
      BY <1>1, <1>2, <2>1, LargestOf
    <2> QED
      BY <1>3, <2>1, <2>2
  <1>5. k \in Nat /\ k <= f /\ Boundary(tokens, k) \in DOMAIN trie
    BY <1>1, <1>2, <1>4 DEF Matches
  <1>6. /\ Len(Boundary(tokens, k)) = k * z
        /\ Boundary(tokens, k) = SubSeq(tokens, 1, k * z)
    BY <1>1, <1>5, BoundaryDepth DEF Boundary
  <1>7. k * z <= Len(tokens)
    <2>1. Len(tokens) \in Nat /\ k <= Len(tokens) \div z
      BY <1>1, <1>5
    <2> QED
      BY <1>1, <1>5, <2>1, DivTimes
  <1>8. PICK r \in DOMAIN trie : r = Boundary(tokens, k)
    BY <1>5
  <1>9. LongestPrefix(tokens) = trie[r] /\ Len(r) = k * z /\ r = SubSeq(tokens, 1, k * z)
    BY <1>4, <1>6, <1>8
  <1> QED
    BY <1>7, <1>8, <1>9

(* Admission takes blocks, and adopts the chain of a node.                 *)
LEMMA NodesAdmitted ==
    ASSUME Reading, NodeInv, ChainsLive, AdmitShared \/ AdmitFresh
    PROVE  NodeInv'
  <1>1. PICK s, tokens : s = Candidate /\ tokens = token_ids[s]
    OBVIOUS
  <1>2. /\ s \in Seqs /\ SeqTypes /\ PoolInv /\ TrieDepth /\ KeysLive
        /\ tokens \in Seq(Nat) /\ UNCHANGED <<trie, token_ids>>
        /\ block_table[s] = <<>> /\ TokensWithin
    <2>1. QueueTypes /\ SeqTypes /\ PoolInv
      BY ReadingFacts, PacingFacts
    <2>2. waiting # <<>> /\ block_table[s] = <<>> /\ UNCHANGED <<trie, token_ids>>
      BY <1>1 DEF AdmitShared, AdmitFresh, Fresher, MayPrefill, cacheVars
    <2>3. MemInv
      BY ReadingFacts DEF Pacing, Filling
    <2> QED
      BY <1>1, <2>1, <2>2, <2>3, HeadOfWaiting DEF SeqTypes, MemInv
  <1>3. BlocksFor(NumTokens(s)) \in Nat
    BY <1>2, LengthOK, BlocksForType
  <1>4. CASE AdmitShared
    <2>1. PICK chain : chain = LongestPrefix(tokens)
      OBVIOUS
    <2>2. PrefixUsable(s) /\ ShareAndExtend(s, chain, NumTokens(s)) /\ chain # <<>>
      BY <1>1, <1>4, <2>1 DEF AdmitShared, PrefixUsable
    <2>3. chain \in Chains /\ Len(chain) <= BlocksFor(NumTokens(s))
      BY <1>1, <1>2, <2>1, <2>2, AdoptsLiveChain
    <2>4. PICK u \in Seqs : \E k \in 1 .. Len(block_table[u]) :
             chain = SubSeq(block_table[u], 1, k)
      BY <2>3 DEF Chains
    <2>5. PICK k \in 1 .. Len(block_table[u]) : chain = SubSeq(block_table[u], 1, k)
      BY <2>4
    <2>6. block_table[u] \in Seq(Blocks)
      BY <1>2, <2>4, TableInjective
    <2>7. /\ chain \in Seq(Blocks) /\ Len(chain) <= Len(block_table[u])
          /\ \A i \in DOMAIN chain : chain[i] = block_table[u][i]
      BY <2>5, <2>6
    <2>8. PICK n : n = BlocksFor(NumTokens(s)) - Len(chain)
      OBVIOUS
    <2>9. n \in Nat /\ TakeBlocks(s, chain, n)
      BY <1>3, <2>2, <2>3, <2>7, <2>8 DEF ShareAndExtend
    <2>10. PICK r \in DOMAIN trie : /\ chain = trie[r] /\ Len(r) <= Len(tokens)
                                    /\ SubSeq(tokens, 1, Len(r)) = r
      BY <1>2, <2>1, <2>2, HitNode
    <2>11. /\ r \in DOMAIN trie \cup {<<>>}
           /\ Len(r) <= NumTokens(s) /\ Read(s, Len(r)) = r
      BY <1>1, <2>10 DEF NumTokens, Read
    <2> QED
      BY <1>2, <2>4, <2>7, <2>9, <2>10, <2>11, NodesTaken
  <1>5. CASE AdmitFresh
    <2>1. PICK none, n : none = <<>> /\ n = BlocksFor(NumTokens(s))
      OBVIOUS
    <2>2. TakeBlocks(s, none, n) /\ n \in Nat /\ none \in Seq(Blocks)
      BY <1>1, <1>3, <1>5, <2>1 DEF AdmitFresh, Allocate
    <2>3. Len(none) <= Len(block_table[s]) /\ \A i \in DOMAIN none : none[i] = block_table[s][i]
      BY <1>2, <2>1
    <2>4. none \in DOMAIN trie \cup {<<>>}
      BY <2>1
    <2> QED
      BY <1>2, <2>1, <2>2, <2>3, <2>4, NodesTaken
  <1> QED
    BY <1>4, <1>5

(* A sequence grows by a block that is of no node.                         *)
LEMMA NodesGrown ==
    ASSUME NodeInv, ChainsLive, PoolInv, SeqTypes, UNCHANGED <<trie, token_ids>>,
           NEW s \in Seqs, MayAppend(s, NumTokens(s))
    PROVE  NodeInv'
  <1>1. CASE UNCHANGED poolVars
    BY <1>1, NodesKept DEF poolVars
  <1>2. CASE TakeBlocks(s, <<>>, 1)
    <2>1. PICK none, n : none = <<>> /\ n = 1
      OBVIOUS
    <2>2. TakeBlocks(s, none, n) /\ n \in Nat /\ none \in Seq(Blocks)
      BY <1>2, <2>1
    <2>3. Len(none) <= Len(block_table[s]) /\ \A i \in DOMAIN none : none[i] = block_table[s][i]
      <3>1. block_table[s] \in Seq(Blocks)
        BY TableInjective
      <3> QED
        BY <2>1, <3>1
    <2>4. none \in DOMAIN trie \cup {<<>>}
      BY <2>1
    <2> QED
      BY <2>1, <2>2, <2>3, <2>4, NodesTaken
  <1> QED
    BY <1>1, <1>2 DEF MayAppend

(* Only postprocess() registers nodes; the others forget them.             *)
LEMMA TrieWithin ==
    ASSUME [EngineNext]_vars, ~Record
    PROVE  \A p \in DOMAIN trie' : p \in DOMAIN trie /\ trie'[p] = trie[p]
  <1>1. ASSUME NEW s, ReleaseBlocks(s)
        PROVE  \A p \in DOMAIN trie' : p \in DOMAIN trie /\ trie'[p] = trie[p]
    BY <1>1 DEF ReleaseBlocks, EvictBlocks, Restrict
  <1>2. ASSUME NEW s, TryPreempt(s)
        PROVE  \A p \in DOMAIN trie' : p \in DOMAIN trie /\ trie'[p] = trie[p]
    BY <1>1, <1>2 DEF TryPreempt, PreemptSeq
  <1>3. CASE SchedulePreempt
    BY <1>2, <1>3 DEF SchedulePreempt
  <1>4. CASE Requeue
    BY <1>1, <1>4 DEF Requeue
  <1>5. CASE Sample /\ ~UNCHANGED trie
    BY <1>1, <1>5 DEF Sample, AppendToken, Finish, cacheVars
  <1>6. CASE Advance /\ ~UNCHANGED trie
    BY <1>2, <1>6 DEF Advance, AdvancePreempt, cacheVars
  <1>7. CASE UNCHANGED trie
    BY <1>7
  <1>8. CASE \/ Generate \/ GenerateRejected \/ Abandon \/ Stopped \/ BeginStep \/ Forward
             \/ Retry \/ GiveUp \/ EndRequeue \/ Finalize \/ EndAdvance \/ Return \/ Recover
             \/ Prepare \/ (Schedule /\ ~SchedulePreempt) \/ UNCHANGED vars
    <2>1. UNCHANGED trie
      BY <1>8 DEF Generate, GenerateRejected, Abandon, Stopped, BeginStep, Forward, Retry,
                  GiveUp, EndRequeue, Finalize, EndAdvance, Return, Recover, Prepare, Schedule,
                  ScheduleDecode, EndDecode, AdmitShared, AdmitFresh, EndSchedule,
                  ScheduleChunk, ScheduleNoChunk, cacheVars, vars
    <2> QED
      BY <1>7, <2>1
  <1> QED
    BY <1>3, <1>4, <1>5, <1>6, <1>7, <1>8 DEF EngineNext, EngineStep, Schedule

(* Every step of the engine.                                               *)
LEMMA NodeStep ==
    ASSUME Knowing, ReadInv, NodeInv, ChainsLive
    PROVE  NodeInv'
  <1>1. /\ SeqTypes /\ SeqTypes' /\ PoolInv /\ MemoryStep /\ Unfinished \subseteq Seqs
        /\ block_table \in [Seqs -> Seq(Blocks)] /\ token_ids \in [Seqs -> Seq(Nat)]
    <2>1. SeqTypes /\ SeqTypes' /\ QueueInv /\ Undisturbed /\ [EngineNext]_vars /\ MemInv
          /\ QueueTypes
      BY DEF Knowing, EngineInv, QueueInv
    <2> QED
      BY <2>1, MemorySteps DEF MemInv, PoolInv, PoolTypeOK, SeqTypes, QueueTypes, Unfinished
  <1>2. CASE Record
    <2>1. pc # "raised" /\ pc' # "raised"
      BY <1>2 DEF Record, Goto
    <2> QED
      BY <1>2, <2>1, KnowingReads, NodesRecorded
  <1>3. CASE AdmitShared \/ AdmitFresh
    <2>1. pc # "raised" /\ pc' # "raised"
      BY <1>3 DEF AdmitShared, AdmitFresh
    <2> QED
      BY <1>3, <2>1, KnowingReads, NodesAdmitted
  <1>4. CASE \E s \in Unfinished : Grows(s)
    <2>1. PICK s \in Unfinished : Grows(s)
      BY <1>4
    <2>2. s \in Seqs /\ MayAppend(s, NumTokens(s)) /\ UNCHANGED <<trie, token_ids>>
      BY <1>1, <2>1 DEF Grows, SameCaches, SameRequests, cacheVars
    <2> QED
      BY <1>1, <2>2, NodesGrown
  <1>5. ASSUME NEW s \in Seqs, ReleaseBlocks(s)
        PROVE  /\ \A p \in DOMAIN trie' : p \in DOMAIN trie /\ trie'[p] = trie[p]
               /\ \A t \in Seqs : block_table'[t] = block_table[t] \/ block_table'[t] = <<>>
    BY <1>1, <1>5 DEF ReleaseBlocks, Deallocate, EvictBlocks, Restrict
  <1>6. CASE \/ Quiet \/ Restores
             \/ \E s \in Unfinished : Releases(s) \/ Samples(s)
    <2>1. \A p \in DOMAIN trie' : p \in DOMAIN trie /\ trie'[p] = trie[p]
      BY <1>1, <1>5, <1>6 DEF Quiet, SameCaches, cacheVars, Restores, Releases, Samples
    <2>2. \A t \in Seqs : block_table'[t] = block_table[t] \/ block_table'[t] = <<>>
      BY <1>1, <1>5, <1>6 DEF Quiet, poolVars, Restores, Releases, Samples
    <2>3. \A t \in Seqs : \/ token_ids'[t] = token_ids[t]
                          \/ \E token \in Nat : token_ids'[t] = Append(token_ids[t], token)
      <3>1. CASE SameRequests
        BY <3>1 DEF SameRequests
      <3>2. CASE \E s \in Unfinished : Samples(s)
        <4>1. PICK s \in Seqs, token \in Vocab :
                 token_ids' = [token_ids EXCEPT ![s] = Append(@, token)]
          BY <1>1, <3>2 DEF Samples
        <4>2. token \in Nat
          BY <4>1, SequenceAssumption
        <4> QED
          BY <1>1, <4>1, <4>2
      <3> QED
        BY <1>6, <3>1, <3>2 DEF Quiet, Restores, Releases
    <2> QED
      BY <1>1, <2>1, <2>2, <2>3, NodesKept
  <1>7. CASE ~Record /\ \E s \in Unfinished : Records(s)
    <2>1. UNCHANGED <<poolVars, token_ids>>
      BY <1>7 DEF Records, SameRequests
    <2>2. \A p \in DOMAIN trie' : p \in DOMAIN trie /\ trie'[p] = trie[p]
      BY <1>7, TrieWithin DEF Knowing
    <2>3. \A t \in Seqs : block_table'[t] = block_table[t]
      BY <2>1 DEF poolVars
    <2> QED
      BY <1>1, <2>1, <2>2, <2>3, NodesKept
  <1> QED
    BY <1>1, <1>2, <1>3, <1>4, <1>6, <1>7 DEF MemoryStep, Admits

Raised == pc = "raised"

(* An exception leaves trie and snapshots as they are.                     *)
LEMMA RaiseKeepsHits ==
    ASSUME [EngineNext]_vars, ~ServeAfterError, Raised', HitsExact
    PROVE  HitsExact'
  <1>1. CASE pc = "raised"
    <2>1. UNCHANGED vars
      BY <1>1, RaisedStays
    <2>2. UNCHANGED <<trie, prefix_state_cache>>
      BY <2>1 DEF vars, cacheVars, runnerVars
    <2> QED
      BY <2>2 DEF HitsExact, HasState, Snapshot, Keys
  <1>2. CASE pc # "raised"
    <2>1. UNCHANGED <<trie, prefix_state_cache>>
      <3>1. CASE Schedule
        BY <1>2, <3>1 DEF Raised, Schedule, ScheduleDecode, SchedulePreempt, EndDecode,
                          AdmitShared, AdmitFresh, EndSchedule, Dispatch, StartBatch, Goto,
                          Raise, cacheVars, runnerVars, ScheduleChunk, ScheduleNoChunk
      <3>2. CASE Prepare \/ Forward \/ GiveUp
        BY <1>2, <3>2 DEF Raised, Prepare, PrepareStates, Forward, GiveUp, Goto, Raise, cacheVars
      <3>3. CASE Advance
        BY <1>2, <3>3 DEF Raised, Advance, AdvanceFails, Raise, cacheVars, runnerVars
      <3>4. CASE UNCHANGED vars
        BY <1>2, <3>4 DEF Raised, vars
      <3>5. CASE \/ Generate \/ GenerateRejected \/ Abandon \/ Stopped \/ BeginStep \/ Retry
                 \/ Requeue \/ EndRequeue \/ Record \/ Sample \/ Finalize \/ EndAdvance
                 \/ Return \/ Recover
        <4>1. pc' # "raised"
          BY <1>2, <3>5 DEF Generate, GenerateRejected, Abandon, Stopped, BeginStep, Retry,
                  Requeue, EndRequeue, Record, Sample, Finalize, EndAdvance, Return, Recover,
                  StartSchedule, StartBatch, Goto, vars
        <4> QED
          BY <4>1 DEF Raised
      <3> QED
        BY <3>1, <3>2, <3>3, <3>4, <3>5 DEF EngineNext, EngineStep
    <2> QED
      BY <2>1 DEF HitsExact, HasState, Snapshot, Keys
  <1> QED
    BY <1>1, <1>2

(* The trie is empty at first.                                             *)
LEMMA NodesInitially == EngineInit => ReadInv /\ NodeInv /\ HitsExact
  <1>1. SUFFICES ASSUME EngineInit PROVE ReadInv /\ NodeInv /\ HitsExact
    OBVIOUS
  <1>2. DOMAIN trie = {}
    BY <1>1 DEF EngineInit, CacheInit
  <1>3. NodeInv /\ HitsExact
    BY <1>2 DEF NodeInv, HitsExact
  <1>4. ASSUME NEW t \in Seqs PROVE Cached(t) <= NumTokens(t)
    <2>1. Cached(t) = 0 /\ token_ids[t] = Prompt[t]
      BY <1>1 DEF EngineInit, SequenceInit, NewSequence, Cached
    <2>2. token_ids[t] \in Seq(Nat \ {0})
      BY <2>1, SequenceAssumption
    <2>3. NumTokens(t) \in Nat
      BY <2>2 DEF NumTokens
    <2> QED
      BY <2>1, <2>3
  <1> QED
    BY <1>3, <1>4 DEF ReadInv

(* While no node outlives its last block, what the cache hands out is what *)
(* it says it is, and so is what is read.                                  *)
LEMMA CacheInvariant ==
    ASSUME ~ServeAfterError, "resumed" \notin LateOOM
    PROVE  EngineSpec /\ []Undisturbed /\ []ChainsLive
           => [](EngineInv /\ PaceInv /\ ContextInv /\ SnapInv /\ HitsExact)
  <1>1. EngineInit => ContextInv /\ SnapInv /\ ReadInv /\ NodeInv /\ HitsExact
    BY ContextInitially, NodesInitially
  <1>2. /\ EngineInv /\ SlotInv /\ WriteInv /\ PaceInv /\ ContextInv /\ SnapInv /\ ReadInv
        /\ NodeInv /\ HitsExact /\ ChainsLive
        /\ Undisturbed /\ [EngineNext]_vars /\ EngineInv'
        => ContextInv' /\ SnapInv' /\ ReadInv' /\ NodeInv'
    BY ContextStep, SnapStep, ReadStep, NodeStep DEF Knowing
  <1>3. EngineInv /\ WriteInv /\ ContextInv /\ SnapInv /\ NodeInv /\ ~Raised => HitsExact
    BY HitsAreExact DEF Raised
  <1>4. HitsExact /\ [EngineNext]_vars /\ Raised' => HitsExact'
    BY RaiseKeepsHits
  <1> QED
    BY <1>1, <1>2, <1>3, <1>4, WriteInvariant, PaceInvariant, PTL DEF EngineSpec

(* A prefix that the cache would hand out is the prefix whose keys, values *)
(* and state it hands out, as long as no node of the trie outlives the     *)
(* last block of its chain.                                                *)
THEOREM HitsStayExact ==
    ASSUME ~ServeAfterError, "resumed" \notin LateOOM
    PROVE  EngineSpec /\ []Undisturbed /\ []ChainsLive => []HitsExact
  BY CacheInvariant, PTL

-----------------------------------------------------------------------------
(* Which steps leave a node behind.                                        *)

(* A node that has a chain is given no other one.                          *)
ChainsKept == \A p \in DOMAIN trie \cap DOMAIN trie' : trie'[p] = trie[p]

(* A node is registered under the last block of its chain.                 *)
Registered(p, chain) ==
    /\ p \in Seq(Nat) /\ chain \in Seq(Blocks) /\ chain # <<>>
    /\ p \in block_to_nodes[Last(chain)] /\ Last(chain) \in used_block_ids
RegisterInv == \A p \in DOMAIN trie : Registered(p, trie[p])

(* A freed block takes the nodes registered under it along.                *)
LEMMA RegisterReleased ==
    ASSUME RegisterInv, NEW s, ReleaseBlocks(s)
    PROVE  RegisterInv'
  <1>1. SUFFICES ASSUME NEW p \in DOMAIN trie'
                 PROVE  /\ p \in Seq(Nat) /\ trie'[p] \in Seq(Blocks) /\ trie'[p] # <<>>
                        /\ p \in block_to_nodes'[Last(trie'[p])]
                        /\ Last(trie'[p]) \in used_block_ids'
    BY DEF RegisterInv, Registered
  <1>2. PICK freed : freed = OnlyHeldBy(s)
    OBVIOUS
  <1>3. /\ p \in DOMAIN trie /\ trie'[p] = trie[p]
        /\ \A r \in UNION {block_to_nodes[b] : b \in freed} : ~IsPrefix(r, p)
        /\ \A b \in Blocks : b \notin freed => block_to_nodes'[b] = block_to_nodes[b]
        /\ used_block_ids' = used_block_ids \ freed
    BY <1>1, <1>2 DEF ReleaseBlocks, EvictBlocks, Restrict, Deallocate
  <1>4. PICK b : b = Last(trie[p])
    OBVIOUS
  <1>5. /\ p \in Seq(Nat) /\ trie[p] \in Seq(Blocks) /\ trie[p] # <<>>
        /\ p \in block_to_nodes[b] /\ b \in used_block_ids
    BY <1>3, <1>4 DEF RegisterInv, Registered
  <1>6. b \in Blocks
    BY <1>4, <1>5 DEF Last
  <1>7. IsPrefix(p, p)
    BY <1>5 DEF IsPrefix
  <1>8. b \notin freed
    BY <1>3, <1>5, <1>7
  <1> QED
    BY <1>3, <1>4, <1>5, <1>6, <1>8

(* A new node is registered; one that was there keeps chain and place.     *)
LEMMA RegisterRecorded ==
    ASSUME RegisterInv, PoolInv, SeqTypes, ChainsKept, UNCHANGED poolVars,
           NEW s \in Seqs, AddPrefix(token_ids[s], block_table[s])
    PROVE  RegisterInv'
  <1>1. PICK tokens \in Seq(Nat), table \in Seq(Blocks) :
           tokens = token_ids[s] /\ table = block_table[s]
    BY TableInjective DEF SeqTypes
  <1>2. PICK n, nodes : /\ n = Min({FullBlocks(tokens), Len(table)})
                        /\ nodes = {Boundary(tokens, k) : k \in 1 .. n}
    OBVIOUS
  <1>3. FullBlocks(tokens) \in Nat
    BY PoolAssumption DEF PoolAssumption, FullBlocks
  <1>4. n \in Nat /\ n <= FullBlocks(tokens) /\ n <= Len(table)
    BY <1>2, <1>3, SmallerOf
  <1>5. /\ trie' = [p \in DOMAIN trie \cup nodes |->
                      IF p \in nodes THEN SubSeq(table, 1, Len(p) \div BlockSize)
                      ELSE trie[p]]
        /\ block_to_nodes' =
             [b \in Blocks |-> block_to_nodes[b] \cup
                {p \in nodes \ DOMAIN trie : table[Len(p) \div BlockSize] = b}]
    BY <1>1, <1>2 DEF AddPrefix
  <1>6. SUFFICES ASSUME NEW p \in DOMAIN trie'
                 PROVE  /\ p \in Seq(Nat) /\ trie'[p] \in Seq(Blocks) /\ trie'[p] # <<>>
                        /\ p \in block_to_nodes'[Last(trie'[p])]
                        /\ Last(trie'[p]) \in used_block_ids'
    BY DEF RegisterInv, Registered
  <1>7. UNCHANGED used_block_ids
    BY DEF poolVars
  <1>8. CASE p \in DOMAIN trie
    <2>1. trie'[p] = trie[p]
      BY <1>6, <1>8 DEF ChainsKept
    <2>2. Registered(p, trie[p])
      BY <1>8 DEF RegisterInv
    <2>3. Last(trie[p]) \in Blocks
      BY <2>2 DEF Registered, Last
    <2> QED
      BY <1>5, <1>7, <2>1, <2>2, <2>3 DEF Registered
  <1>9. CASE p \notin DOMAIN trie
    <2>1. p \in nodes
      BY <1>5, <1>6, <1>9
    <2>2. PICK k \in 1 .. n : p = Boundary(tokens, k)
      BY <1>2, <2>1
    <2>3. k \in Nat \ {0} /\ k <= FullBlocks(tokens) /\ k <= Len(table) /\ k \in DOMAIN table
      BY <1>3, <1>4, <2>2
    <2>4. p \in Seq(Nat) /\ Len(p) \div BlockSize = k
      BY <1>1, <2>2, <2>3, BoundaryDepth
    <2>5. PICK chain : chain = SubSeq(table, 1, k) /\ chain = trie'[p]
      BY <1>5, <2>1, <2>4
    <2>6. chain \in Seq(Blocks) /\ chain # <<>> /\ Last(chain) = table[k]
      <3>1. chain \in Seq(Blocks) /\ Len(chain) = k /\ chain[k] = table[k]
        BY <1>1, <2>3, <2>5
      <3> QED
        BY <2>3, <3>1 DEF Last
    <2>7. table[k] \in Blocks /\ table[k] \in used_block_ids
      <3>1. table[k] \in Range(block_table[s])
        BY <1>1, <2>3 DEF Range
      <3>2. table[k] \in Blocks /\ table[k] \notin Range(free_block_ids)
        BY <3>1, TableNotFree
      <3> QED
        BY <3>2 DEF PoolInv, FreeUsedPartition
    <2>8. p \in block_to_nodes'[table[k]]
      BY <1>5, <1>9, <2>1, <2>4, <2>7
    <2> QED
      BY <1>7, <2>4, <2>5, <2>6, <2>7, <2>8
  <1> QED
    BY <1>8, <1>9

(* Every step of the engine, as an effect on the memory.                   *)
LEMMA RegisterStep ==
    ASSUME EngineInv, Undisturbed, [EngineNext]_vars, RegisterInv, [ChainsKept]_vars
    PROVE  RegisterInv'
  <1>1. /\ SeqTypes /\ PoolInv /\ MemoryStep /\ Unfinished \subseteq Seqs
    <2>1. SeqTypes /\ QueueInv /\ QueueTypes /\ MemInv
      BY DEF EngineInv, QueueInv
    <2> QED
      BY <2>1, MemorySteps DEF MemInv, QueueTypes, Unfinished
  <1>2. CASE UNCHANGED cacheVars /\ used_block_ids \subseteq used_block_ids'
    BY <1>2 DEF cacheVars, RegisterInv, Registered
  <1>3. CASE \E s : ReleaseBlocks(s)
    BY <1>3, RegisterReleased
  <1>4. CASE Quiet \/ Restores
    BY <1>2, <1>4 DEF Quiet, Restores, SameCaches, poolVars
  <1>5. CASE Admits \/ \E s \in Unfinished : Grows(s)
    <2>1. UNCHANGED cacheVars
      BY <1>5 DEF Admits, AdmitShared, AdmitFresh, Grows, SameCaches
    <2>2. used_block_ids \subseteq used_block_ids'
      BY <1>5 DEF Admits, AdmitShared, AdmitFresh, ShareAndExtend, Allocate, Grows, MayAppend,
                  TakeBlocks, poolVars
    <2> QED
      BY <1>2, <2>1, <2>2
  <1>6. CASE \E s \in Unfinished : Releases(s) \/ Samples(s)
    BY <1>2, <1>3, <1>6 DEF Releases, Samples, SameCaches, poolVars
  <1>7. CASE \E s \in Unfinished : Records(s)
    <2>1. PICK s \in Unfinished : Records(s)
      BY <1>7
    <2>2. s \in Seqs /\ UNCHANGED poolVars /\ RecordProgress(s)
      BY <1>1, <2>1 DEF Records
    <2>3. CASE UNCHANGED cacheVars
      BY <1>2, <2>2, <2>3 DEF poolVars
    <2>4. CASE ~UNCHANGED cacheVars
      <3>1. AddPrefix(token_ids[s], block_table[s])
        BY <2>2, <2>4 DEF RecordProgress
      <3>2. ChainsKept
        BY <2>4 DEF vars
      <3> QED
        BY <1>1, <2>2, <3>1, <3>2, RegisterRecorded
    <2> QED
      BY <2>3, <2>4
  <1> QED
    BY <1>1, <1>4, <1>5, <1>6, <1>7 DEF MemoryStep

(* No node outlives the last block of its chain unless one that has a      *)
(* chain is given another: add() keeps it registered under the old one     *)
(* (prefix_cache.py 97), the only way a freed block misses a node.         *)
THEOREM ChainsStayLive ==
    EngineSpec /\ []Undisturbed /\ [][ChainsKept]_vars => []ChainsLive
  <1>1. EngineInit => RegisterInv
    BY DEF EngineInit, CacheInit, RegisterInv
  <1>2. EngineInv /\ Undisturbed /\ [EngineNext]_vars /\ RegisterInv /\ [ChainsKept]_vars
        => RegisterInv'
    BY RegisterStep
  <1>3. EngineInv /\ RegisterInv => ChainsLive
    <2>1. EngineInv => FreeUsedPartition
      BY DEF EngineInv, MemInv, PoolInv
    <2> QED
      BY <2>1 DEF FreeUsedPartition, RegisterInv, Registered, ChainsLive
  <1> QED
    BY <1>1, <1>2, <1>3, EngineInvariant, PTL DEF EngineSpec

(* So what a pass reads, what a snapshot is and what a hit hands out are   *)
(* exact in every behaviour that gives no node a second chain: the stale   *)
(* node is the only fault of the cache.                                    *)
THEOREM CacheIsExactWhileChainsAreKept ==
    ASSUME ~ServeAfterError, "resumed" \notin LateOOM
    PROVE  EngineSpec /\ []Undisturbed /\ [][ChainsKept]_vars
           => [](HitsExact /\ ContextExact /\ SnapshotsExact)
  <1>1. EngineInv /\ PaceInv /\ ContextInv /\ SnapInv => ContextExact /\ SnapshotsExact
    BY ContextIsExact, SnapshotsAreExact
  <1> QED
    BY <1>1, CacheInvariant, ChainsStayLive, PTL

(* ... and without a premise on preemption when nothing can disturb it.    *)
THEOREM CacheIsExactInPlainEngine ==
    ASSUME PlainEngine, "resumed" \notin LateOOM
    PROVE  EngineSpec /\ [][ChainsKept]_vars => [](HitsExact /\ ContextExact /\ SnapshotsExact)
  <1>1. ~ServeAfterError
    BY DEF PlainEngine
  <1> QED
    BY <1>1, NeverDisturbed, CacheIsExactWhileChainsAreKept, PTL

-----------------------------------------------------------------------------
(* The history of the conv1d.                                              *)

(* A history of k inputs after the tokens r.                               *)
History(c, k, r) ==
    /\ c \in Seq(Nat) /\ Len(c) = k
    /\ \A j \in 2 .. k : c[j] = IF Len(r) + j > k THEN r[Len(r) + j - k] ELSE 0

(* The conv state of a slot is the last inputs of its recurrent one.       *)
Coupled(x) == History(x.conv, ConvKernel, x.recurrent)

(* A retry may find the state of a prefill from the first token half       *)
(* written, and sets it to zero.                                           *)
Stale(i) ==
    pc = "prepare" /\ \E s \in Range(batch) : seq_to_slot[s] = i /\ FromScratch(s)
ConvInv ==
    pc # "raised" =>
        /\ \A i \in Slots : Coupled(deltanet_pool[i]) \/ Stale(i)
        /\ \A e \in Range(prefix_state_cache) : Coupled(e.state)

(* A chunk that continues a prompt fills the history: nothing is shifted.  *)
ChunksLong ==
    pc = "forward" /\ batch_is_prefill =>
        \A s \in Range(batch) : Cached(s) = 0 \/ Scheduled(s) >= ConvKernel - 1

(* A zeroed state has read nothing.                                        *)
LEMMA ZeroCoupled == Coupled(ZeroState)
  <1>1. PICK k \in Nat \ {0} : k = ConvKernel
    BY RunnerAssumption DEF RunnerAssumption
  <1>2. PICK c, r : c = [j \in 1 .. k |-> 0] /\ r = <<>> /\ ZeroState = [recurrent |-> r, conv |-> c]
    BY <1>1 DEF ZeroState
  <1>3. c \in Seq(Nat) /\ Len(c) = k /\ \A j \in 2 .. k : c[j] = 0
    BY <1>2
  <1>4. Len(r) = 0
    BY <1>2
  <1>5. ZeroState.conv = c /\ ZeroState.recurrent = r
    BY <1>2
  <1> QED
    BY <1>1, <1>3, <1>4, <1>5 DEF Coupled, History

(* Elements of lists put together, of their ends, starts and tails.        *)
LEMMA ConcatElements ==
    ASSUME NEW q \in Seq(Nat), NEW r \in Seq(Nat)
    PROVE  /\ q \o r \in Seq(Nat) /\ Len(q \o r) = Len(q) + Len(r)
           /\ \A i \in 1 .. Len(q) : (q \o r)[i] = q[i]
           /\ \A i \in 1 .. Len(r) : (q \o r)[Len(q) + i] = r[i]
  OBVIOUS

(* The last elements of a list.                                            *)
LEMMA PartElements ==
    ASSUME NEW q \in Seq(Nat), NEW k \in Nat, NEW n \in Nat, k + n = Len(q)
    PROVE  /\ LastOf(q, n) \in Seq(Nat) /\ Len(LastOf(q, n)) = n
           /\ \A i \in 1 .. n : LastOf(q, n)[i] = q[k + i]
  <1>1. PICK t, l : t = SubSeq(q, k + 1, l) /\ l = Len(q)
    OBVIOUS
  <1>2. t \in Seq(Nat) /\ Len(t) = n /\ \A i \in 1 .. n : t[i] = q[k + i]
    BY <1>1
  <1>3. LastOf(q, n) = t
    <2>1. Len(q) - n + 1 = k + 1
      OBVIOUS
    <2> QED
      BY <1>1, <2>1 DEF LastOf
  <1> QED
    BY <1>2, <1>3

(* The first elements of a list.                                           *)
LEMMA StartElements ==
    ASSUME NEW q \in Seq(Nat), NEW n \in Nat, n <= Len(q)
    PROVE  /\ SubSeq(q, 1, n) \in Seq(Nat) /\ Len(SubSeq(q, 1, n)) = n
           /\ \A i \in 1 .. n : SubSeq(q, 1, n)[i] = q[i]
  OBVIOUS

(* A list without its first element.                                       *)
LEMMA TailElements ==
    ASSUME NEW q \in Seq(Nat), NEW n \in Nat, Len(q) = n + 1
    PROVE  Tail(q) \in Seq(Nat) /\ Len(Tail(q)) = n /\ \A i \in 1 .. n : Tail(q)[i] = q[i + 1]
  OBVIOUS

(* A decode pass shifts its one input in.                                  *)
LEMMA ShiftedIn ==
    ASSUME NEW k \in Nat \ {0}, NEW c, NEW r \in Seq(Nat), History(c, k, r),
           NEW w \in Seq(Nat), Len(w) = 1
    PROVE  History(Tail(c) \o w, k, r \o w)
  <1>1. PICK m, n \in Nat : m = Len(r) /\ n + 1 = k
    OBVIOUS
  <1>2. PICK d, q, u : d = Tail(c) \o w /\ q = r \o w /\ u = Tail(c)
    OBVIOUS
  <1>3. u \in Seq(Nat) /\ Len(u) = n /\ \A i \in 1 .. n : u[i] = c[i + 1]
    BY <1>1, <1>2, TailElements DEF History
  <1>4. /\ d \in Seq(Nat) /\ Len(d) = k /\ \A i \in 1 .. n : d[i] = u[i]
        /\ \A i \in 1 .. 1 : d[n + i] = w[i]
    <2>1. /\ d \in Seq(Nat) /\ Len(d) = Len(u) + Len(w)
          /\ \A i \in 1 .. Len(u) : d[i] = u[i]
          /\ \A i \in 1 .. Len(w) : d[Len(u) + i] = w[i]
      <3>1. u \in Seq(Nat) /\ d = u \o w
        BY <1>2, <1>3
      <3>2. /\ u \o w \in Seq(Nat) /\ Len(u \o w) = Len(u) + Len(w)
            /\ \A i \in 1 .. Len(u) : (u \o w)[i] = u[i]
            /\ \A i \in 1 .. Len(w) : (u \o w)[Len(u) + i] = w[i]
        BY <3>1, ConcatElements, Zenon
      <3> QED
        BY <3>1, <3>2, Zenon
    <2> QED
      BY <1>1, <1>3, <2>1
  <1>5. /\ q \in Seq(Nat) /\ Len(q) = m + 1 /\ \A i \in 1 .. m : q[i] = r[i]
        /\ \A i \in 1 .. 1 : q[m + i] = w[i]
    <2>1. /\ q \in Seq(Nat) /\ Len(q) = Len(r) + Len(w)
          /\ \A i \in 1 .. Len(r) : q[i] = r[i]
          /\ \A i \in 1 .. Len(w) : q[Len(r) + i] = w[i]
      BY <1>2, ConcatElements
    <2> QED
      BY <1>1, <2>1
  <1>6. ASSUME NEW j \in 2 .. k
        PROVE  d[j] = IF m + 1 + j > k THEN q[m + 1 + j - k] ELSE 0
    <2>1. CASE j = k
      <3>1. d[j] = w[1] /\ m + 1 + j - k = m + 1 /\ m + 1 + j > k
        BY <1>1, <1>4, <2>1
      <3>2. q[m + 1] = w[1]
        BY <1>5
      <3> QED
        BY <3>1, <3>2
    <2>2. CASE j # k
      <3>1. j \in 1 .. n /\ j + 1 \in 2 .. k
        BY <1>1, <2>2
      <3>2. d[j] = c[j + 1]
        BY <1>3, <1>4, <3>1
      <3>3. d[j] = IF m + (j + 1) > k THEN r[m + (j + 1) - k] ELSE 0
        BY <1>1, <3>1, <3>2 DEF History
      <3>4. m + 1 + j > k => m + 1 + j - k \in 1 .. m
        BY <1>1, <3>1
      <3>5. m + 1 + j - k = m + (j + 1) - k /\ m + 1 + j = m + (j + 1)
        BY <1>1
      <3> QED
        BY <1>5, <3>3, <3>4, <3>5
    <2> QED
      BY <2>1, <2>2
  <1> QED
    BY <1>2, <1>4, <1>5, <1>6 DEF History

(* A prefill pass overwrites the end of the history, all of it or all that *)
(* has been read.                                                          *)
LEMMA WrittenOver ==
    ASSUME NEW k \in Nat \ {0}, NEW c, NEW r \in Seq(Nat), History(c, k, r),
           NEW w \in Seq(Nat), Len(r) = 0 \/ Len(w) >= k - 1,
           NEW n \in Nat, n <= k - 1, n <= Len(w), n = k - 1 \/ n = Len(w)
    PROVE  History(SubSeq(c, 1, k - n) \o LastOf(w, n), k, r \o w)
  <1>1. PICK m, l, h, g \in Nat : m = Len(r) /\ l = Len(w) /\ h = k - n /\ g + n = l
    <2>1. Len(r) \in Nat /\ Len(w) \in Nat /\ k - n \in Nat /\ Len(w) - n \in Nat
      OBVIOUS
    <2>2. (Len(w) - n) + n = Len(w)
      OBVIOUS
    <2> QED
      BY <2>1, <2>2, Zenon
  <1>2. PICK u, v, d, q : /\ u = SubSeq(c, 1, h) /\ v = LastOf(w, n)
                          /\ d = u \o v /\ q = r \o w
    OBVIOUS
  <1>3. u \in Seq(Nat) /\ Len(u) = h /\ \A i \in 1 .. h : u[i] = c[i]
    <2>1. c \in Seq(Nat) /\ h <= Len(c)
      BY <1>1 DEF History
    <2> QED
      BY <1>2, <2>1, StartElements
  <1>4. v \in Seq(Nat) /\ Len(v) = n /\ \A i \in 1 .. n : v[i] = w[g + i]
    <2>1. g + n = Len(w)
      BY <1>1
    <2>2. /\ LastOf(w, n) \in Seq(Nat) /\ Len(LastOf(w, n)) = n
          /\ \A i \in 1 .. n : LastOf(w, n)[i] = w[g + i]
      BY <2>1, PartElements, Zenon
    <2> QED
      BY <1>2, <2>2, Zenon
  <1>5. /\ d \in Seq(Nat) /\ Len(d) = k /\ \A i \in 1 .. h : d[i] = u[i]
        /\ \A i \in 1 .. n : d[h + i] = v[i]
    <2>1. /\ d \in Seq(Nat) /\ Len(d) = Len(u) + Len(v)
          /\ \A i \in 1 .. Len(u) : d[i] = u[i]
          /\ \A i \in 1 .. Len(v) : d[Len(u) + i] = v[i]
      <3>1. u \in Seq(Nat) /\ v \in Seq(Nat) /\ d = u \o v
        BY <1>2, <1>3, <1>4
      <3>2. /\ u \o v \in Seq(Nat) /\ Len(u \o v) = Len(u) + Len(v)
            /\ \A i \in 1 .. Len(u) : (u \o v)[i] = u[i]
            /\ \A i \in 1 .. Len(v) : (u \o v)[Len(u) + i] = v[i]
        BY <3>1, ConcatElements, Zenon
      <3> QED
        BY <3>1, <3>2, Zenon
    <2>2. h + n = k
      BY <1>1
    <2> QED
      BY <1>3, <1>4, <2>1, <2>2
  <1>6. q \in Seq(Nat) /\ Len(q) = m + l /\ \A i \in 1 .. l : q[m + i] = w[i]
    BY <1>1, <1>2, ConcatElements
  <1>7. ASSUME NEW j \in 2 .. k
        PROVE  d[j] = IF m + l + j > k THEN q[m + l + j - k] ELSE 0
    <2>1. CASE j > h
      <3>1. PICK i \in 1 .. n : h + i = j
        <4>1. j - h \in 1 .. n /\ h + (j - h) = j
          BY <1>1, <2>1
        <4> QED
          BY <4>1
      <3>2. g + i \in 1 .. l /\ m + (g + i) = m + l + j - k /\ m + l + j > k
        BY <1>1, <3>1
      <3>3. d[j] = w[g + i] /\ q[m + (g + i)] = w[g + i]
        BY <1>4, <1>5, <1>6, <3>1, <3>2
      <3> QED
        BY <3>2, <3>3
    <2>2. CASE ~(j > h)
      <3>1. n = l /\ m = 0 /\ ~(m + l + j > k) /\ ~(m + j > k) /\ j \in 1 .. h
        BY <1>1, <2>2
      <3>2. d[j] = c[j]
        BY <1>3, <1>5, <3>1
      <3>3. c[j] = 0
        BY <1>1, <3>1 DEF History
      <3> QED
        BY <3>1, <3>2, <3>3
    <2> QED
      BY <2>1, <2>2
  <1>8. History(d, k, q)
    BY <1>5, <1>6, <1>7 DEF History
  <1> QED
    <2>1. d = SubSeq(c, 1, k - n) \o LastOf(w, n) /\ q = r \o w
      BY <1>1, <1>2, Zenon
    <2> QED
      BY <1>8, <2>1, Zenon

(* The conv state after a pass is the history after its inputs.            *)
Continues(x, w) ==
    IF batch_is_prefill THEN x.recurrent = <<>> \/ Len(w) >= ConvKernel - 1
    ELSE Len(w) = 1

(* The two fields of a state are written one after the other.              *)
LEMMA TwoWrites ==
    ASSUME NEW r, NEW c, NEW x, x = [recurrent |-> r, conv |-> c], NEW v, NEW q,
           NEW y, y = [x EXCEPT !.conv = v], NEW z, z = [y EXCEPT !.recurrent = q]
    PROVE  z.conv = v /\ z.recurrent = q /\ y.recurrent = r
  <1>1. y = [recurrent |-> r, conv |-> v]
    OBVIOUS
  <1>2. z = [recurrent |-> q, conv |-> v]
    BY <1>1
  <1> QED
    BY <1>1, <1>2

(* A pass writes the history that belongs to the tokens it has read.       *)
LEMMA WrittenCoupled ==
    ASSUME NEW x, IsState(x), Coupled(x), NEW w \in Seq(Nat), Continues(x, w),
           NEW z, z.conv = ConvAfter(x.conv, w), z.recurrent = x.recurrent \o w
    PROVE  Coupled(z)
  <1>1. PICK r, c : r \in Seq(Nat) /\ x = [recurrent |-> r, conv |-> c]
    BY DEF IsState
  <1>2. PICK v, q : v = ConvAfter(c, w) /\ q = r \o w
    OBVIOUS
  <1>3. z.conv = v /\ z.recurrent = q
    <2>1. x.conv = c /\ x.recurrent = r
      BY <1>1
    <2> QED
      BY <1>2, <2>1
  <1>4. PICK k \in Nat \ {0} : k = ConvKernel
    BY RunnerAssumption DEF RunnerAssumption
  <1>5. x.recurrent = r /\ History(c, k, r)
    BY <1>1, <1>4 DEF Coupled
  <1>6. CASE batch_is_prefill
    <2>1. PICK n : n = Min({ConvKernel - 1, Len(w)})
      OBVIOUS
    <2>2. n \in Nat /\ n <= k - 1 /\ n <= Len(w) /\ (n = k - 1 \/ n = Len(w))
      <3>1. k - 1 \in Nat /\ Len(w) \in Nat
        OBVIOUS
      <3> QED
        BY <1>4, <2>1, <3>1, SmallerOf
    <2>3. Len(r) = 0 \/ Len(w) >= k - 1
      BY <1>4, <1>5, <1>6 DEF Continues
    <2>4. History(SubSeq(c, 1, k - n) \o LastOf(w, n), k, r \o w)
      BY <1>1, <1>5, <2>2, <2>3, WrittenOver
    <2>5. ConvAfter(c, w) = SubSeq(c, 1, k - n) \o LastOf(w, n)
      BY <1>4, <1>6, <2>1 DEF ConvAfter
    <2>6. History(v, k, q)
      BY <1>2, <2>4, <2>5
    <2> QED
      BY <1>3, <1>4, <2>6 DEF Coupled
  <1>7. CASE ~batch_is_prefill
    <2>1. History(Tail(c) \o w, k, r \o w)
      BY <1>1, <1>5, <1>7, ShiftedIn DEF Continues
    <2>2. ConvAfter(c, w) = Tail(c) \o w
      BY <1>7 DEF ConvAfter
    <2>3. History(v, k, q)
      BY <1>2, <2>1, <2>2
    <2> QED
      BY <1>3, <1>4, <2>3 DEF Coupled
  <1> QED
    BY <1>6, <1>7

(* A run of elements in the middle of a list.                              *)
LEMMA PartLength ==
    ASSUME NEW q \in Seq(Nat), NEW c \in Nat, NEW m \in Nat, c + m <= Len(q)
    PROVE  Len(SubSeq(q, c + 1, c + m)) = m
  OBVIOUS

(* A pass that runs leaves every slot with its history.                    *)
LEMMA PassCoupled ==
    ASSUME Reading, ConvInv, ChunksLong, pc = "forward", NEW i \in Slots
    PROVE  Coupled(Advanced[i])
  <1>1. PICK x, y, z, w : /\ x = deltanet_pool[i] /\ y = ConvAdvanced[i] /\ z = Advanced[i]
                          /\ w = Inputs(i)
    OBVIOUS
  <1>2. IsState(x) /\ Coupled(x)
    BY <1>1, ReadingFacts DEF ConvInv, Stale, PoolTypes, IsPool
  <1>3. w \in Seq(Nat) /\ z = [y EXCEPT !.recurrent = y.recurrent \o w]
    BY <1>1, ReadingFacts, PassInputs DEF Advanced
  <1>4. CASE w = <<>>
    <2>1. y = x
      BY <1>1, <1>4 DEF ConvAdvanced
    <2>2. PICK r, c : r \in Seq(Nat) /\ x = [recurrent |-> r, conv |-> c]
      BY <1>2 DEF IsState
    <2>3. r \o <<>> = r
      BY <2>2
    <2>4. z = x
      BY <1>3, <1>4, <2>1, <2>2, <2>3
    <2> QED
      BY <1>1, <1>2, <2>4
  <1>5. CASE w # <<>>
    <2>1. y = [x EXCEPT !.conv = ConvAfter(x.conv, w)]
      BY <1>1, <1>5 DEF ConvAdvanced
    <2>2. PICK s \in Range(batch) : seq_to_slot[s] = i
      BY <1>1, <1>5 DEF Inputs
    <2>3. w = SubSeq(token_ids[s], First(s) + 1, Past(s))
      BY <1>1, <2>2, ReadingFacts, PassInputs
    <2>4. /\ s \in Seqs /\ ~Finished(s) /\ First(s) = Cached(s) /\ Past(s) = Cached(s) + Scheduled(s)
          /\ Past(s) <= NumTokens(s)
      BY <2>2, ReadingFacts, PassRange
    <2>5. PICK c, m \in Nat, q \in Seq(Nat) :
             c = Cached(s) /\ m = Scheduled(s) /\ q = token_ids[s] /\ Len(q) = NumTokens(s)
      <3>1. Cached(s) \in Nat /\ Scheduled(s) \in Nat /\ token_ids[s] \in Seq(Nat)
        BY <2>2, ReadingFacts, PassRange
      <3> QED
        BY <3>1 DEF NumTokens
    <2>6. w = SubSeq(q, c + 1, c + m) /\ c + m <= Len(q)
      BY <2>3, <2>4, <2>5
    <2>7. Len(w) = m
      BY <2>5, <2>6, PartLength
    <2>8. Continues(x, w)
      <3>1. CASE batch_is_prefill
        <4>1. c = 0 \/ m >= ConvKernel - 1
          BY <2>2, <2>5, <3>1 DEF ChunksLong
        <4>2. c = 0 => x.recurrent = <<>>
          <5>1. Stated(s) /\ Started(s) /\ ~Passed(s)
            BY <2>2, <2>4, ReadingFacts DEF Started, Passed
          <5>2. x.recurrent = Read(s, c)
            BY <1>1, <2>2, <2>4, <2>5, <5>1 DEF Stated, Holds, State, Progress
          <5>3. SubSeq(q, 1, 0) = <<>>
            BY <2>5
          <5> QED
            BY <2>5, <5>2, <5>3 DEF Read
        <4> QED
          BY <2>7, <3>1, <4>1, <4>2 DEF Continues
      <3>2. CASE ~batch_is_prefill
        <4>1. c = Len(q) - 1 /\ c + m = Len(q)
          BY <2>4, <2>5, <3>2 DEF First, Past
        <4>2. m = 1
          BY <2>5, <4>1
        <4> QED
          BY <2>7, <3>2, <4>2 DEF Continues
      <3> QED
        BY <3>1, <3>2
    <2>9. z.conv = ConvAfter(x.conv, w) /\ z.recurrent = x.recurrent \o w
      <3>1. PICK r, d : r \in Seq(Nat) /\ x = [recurrent |-> r, conv |-> d]
        BY <1>2 DEF IsState
      <3>2. PICK v, u : v = ConvAfter(x.conv, w) /\ u = y.recurrent \o w
        OBVIOUS
      <3>3. z.conv = v /\ z.recurrent = u /\ y.recurrent = r
        BY <1>3, <2>1, <3>1, <3>2, TwoWrites, Zenon
      <3>4. x.recurrent = r
        BY <3>1
      <3> QED
        BY <3>2, <3>3, <3>4
    <2>10. Coupled(z)
      BY <1>2, <1>3, <2>8, <2>9, WrittenCoupled, Zenon
    <2> QED
      BY <1>1, <2>10
  <1> QED
    BY <1>4, <1>5

(* Outside run() a state is set to zero or left alone.                     *)
Zeroed == \A i \in Slots : deltanet_pool'[i] \in {deltanet_pool[i], ZeroState}

(* Outside run() a slot is only zeroed, and a step waits for its passes.   *)
LEMMA OutsideRun ==
    ASSUME EngineNext, ~Prepare, ~Forward, ~Retry, ~GiveUp
    PROVE  Zeroed /\ (pc = "prepare" => UNCHANGED vars)
  <1>1. ASSUME NEW ss, FreeSlots(ss) PROVE Zeroed
    BY <1>1 DEF FreeSlots, Zeroed
  <1>2. ASSUME UNCHANGED deltanet_pool PROVE Zeroed
    BY <1>2 DEF Zeroed
  <1>3. ASSUME NEW s, TryPreempt(s) PROVE Zeroed
    BY <1>1, <1>3 DEF TryPreempt, PreemptSeq
  <1>4. CASE Schedule
    <2>1. pc # "prepare"
      BY <1>4 DEF Schedule, ScheduleDecode, SchedulePreempt, EndDecode, AdmitShared, AdmitFresh,
                  EndSchedule, ScheduleChunk, ScheduleNoChunk, MayPrefill
    <2>2. SchedulePreempt \/ UNCHANGED deltanet_pool
      BY <1>4 DEF Schedule, ScheduleDecode, EndDecode, AdmitShared, AdmitFresh,
                  EndSchedule, runnerVars
    <2> QED
      BY <1>2, <1>3, <2>1, <2>2 DEF SchedulePreempt
  <1>5. CASE Return \/ Abandon \/ Recover
    BY <1>1, <1>5 DEF Return, Abandon, Recover, Cleanup
  <1>6. CASE Finalize
    BY <1>1, <1>6 DEF Finalize
  <1>7. CASE Advance
    <2>1. pc # "prepare"
      BY <1>7 DEF Advance
    <2>2. (\E s : TryPreempt(s)) \/ UNCHANGED deltanet_pool
      BY <1>7 DEF Advance, AdvancePreempt, runnerVars
    <2> QED
      BY <1>2, <1>3, <2>1, <2>2
  <1>8. CASE \/ Generate \/ GenerateRejected \/ Stopped \/ BeginStep \/ Requeue \/ EndRequeue
             \/ Record \/ Sample \/ EndAdvance
    <2>1. UNCHANGED deltanet_pool /\ (pc = "prepare" => UNCHANGED vars)
      BY <1>8 DEF Generate, GenerateRejected, Stopped, BeginStep, Requeue, EndRequeue, Record,
                  Sample, EndAdvance, runnerVars, vars
    <2> QED
      BY <1>2, <2>1
  <1> QED
    BY <1>4, <1>5, <1>6, <1>7, <1>8 DEF EngineNext, EngineStep

(* Before a pass a stale state is set to zero.                             *)
LEMMA PrepareCoupled ==
    ASSUME Reading, ConvInv, Prepare, NEW i \in Slots
    PROVE  Coupled(deltanet_pool'[i])
  <1>1. pc = "prepare" /\ PrepareStates
    BY ReadingFacts DEF Prepare, Raise
  <1>2. /\ \A s \in Range(batch) : HasSlot(s)' /\ deltanet_pool'[seq_to_slot'[s]] = StartState(s)
        /\ \A s \in Range(batch) : HasSlot(s) => SlotFor(s) = seq_to_slot[s]
    <2>1. QueueTypes /\ BatchInv /\ SlotsApart /\ QueuesApart /\ StateTypes
      BY ReadingFacts, PacingFacts
    <2>2. IsInjective(batch)
      BY <1>1, <2>1 DEF QueuesApart, BatchInv, Running
    <2> QED
      BY <1>1, <2>1, <2>2, PreparedStates
  <1>3. /\ seq_to_slot' = [s \in Seqs |-> SlotFor(s)]
        /\ deltanet_pool'[i] = IF \E s \in Range(batch) : SlotFor(s) = i
                               THEN StartState(CHOOSE s \in Range(batch) : SlotFor(s) = i)
                               ELSE deltanet_pool[i]
    BY <1>1 DEF PrepareStates
  <1>4. CASE Stale(i)
    <2>1. PICK s \in Range(batch) : seq_to_slot[s] = i /\ FromScratch(s)
      BY <1>4 DEF Stale
    <2>2. s \in Seqs
      BY <2>1, ReadingFacts, PacingFacts
    <2>3. HasSlot(s)
      <3>1. MaxNumSeqs \in Nat
        BY RunnerAssumption DEF RunnerAssumption
      <3> QED
        BY <2>1, <3>1 DEF HasSlot, NoSlot, Slots
    <2>4. seq_to_slot'[s] = i
      BY <1>2, <1>3, <2>1, <2>2, <2>3
    <2>5. deltanet_pool'[i] = ZeroState
      BY <1>2, <2>1, <2>4 DEF StartState
    <2> QED
      BY <2>5, ZeroCoupled
  <1>5. CASE ~Stale(i)
    <2>1. Coupled(deltanet_pool[i]) /\ \A e \in Range(prefix_state_cache) : Coupled(e.state)
      BY <1>1, <1>5 DEF ConvInv
    <2>2. CASE \E s \in Range(batch) : SlotFor(s) = i
      <3>1. PICK s \in Range(batch) : SlotFor(s) = i /\ deltanet_pool'[i] = StartState(s)
        BY <1>3, <2>2
      <3>2. PICK chain : chain = seq[s].prefix_restore_blocks
        OBVIOUS
      <3>3. HasState(chain) => Snapshot(chain) \in Range(prefix_state_cache)
        BY DEF HasState, Keys, Snapshot, Range
      <3> QED
        BY <2>1, <3>1, <3>2, <3>3, ZeroCoupled DEF StartState
    <2>3. CASE ~\E s \in Range(batch) : SlotFor(s) = i
      BY <1>3, <2>1, <2>3
    <2> QED
      BY <2>2, <2>3
  <1> QED
    BY <1>4, <1>5

(* What a pass that ran out of memory has half written is stale.           *)
LEMMA RetryCoupled ==
    ASSUME Reading, ConvInv, Retry, NEW i \in Slots
    PROVE  Coupled(deltanet_pool'[i]) \/ Stale(i)'
  <1>1. PICK last : last = Last(batch)
    OBVIOUS
  <1>2. PICK dropped : dropped = IF Len(batch) > 1 /\ HasSlot(last) THEN {seq_to_slot[last]}
                                 ELSE {}
    OBVIOUS
  <1>3. /\ pc = "forward" /\ pc' = "prepare" /\ UNCHANGED <<seq, batch_is_prefill>>
        /\ IF Len(batch) > 1
           THEN /\ batch' = Front(batch)
                /\ seq_to_slot' = [seq_to_slot EXCEPT ![last] = NoSlot]
           ELSE UNCHANGED <<batch, seq_to_slot>>
    BY <1>1 DEF Retry, OutOfMemory, Goto, seqVars
  <1>4. PICK pool \in StatesAfterError :
          deltanet_pool' = [k \in Slots |-> IF k \in dropped THEN ZeroState ELSE pool[k]]
    BY <1>1, <1>2 DEF Retry, OutOfMemory
  <1>5. Coupled(deltanet_pool[i])
    BY <1>3 DEF ConvInv, Stale
  <1>6. CASE i \in dropped
    BY <1>4, <1>6, ZeroCoupled
  <1>7. CASE i \notin dropped /\ pool[i] = deltanet_pool[i]
    BY <1>4, <1>5, <1>7
  <1>8. CASE i \notin dropped /\ pool[i] # deltanet_pool[i]
    <2>1. Fresh /\ pool \in {ConvAdvanced, Advanced}
      BY <1>3, <1>8, ReadingFacts, ErrorStates DEF StatesAfterError
    <2>2. Inputs(i) # <<>>
      <3>1. SUFFICES ASSUME Inputs(i) = <<>> PROVE pool[i] = deltanet_pool[i]
        BY <1>8
      <3>2. ConvAdvanced[i] = deltanet_pool[i]
        BY <3>1 DEF ConvAdvanced
      <3>3. Advanced[i] = [deltanet_pool[i] EXCEPT !.recurrent = @ \o <<>>]
        BY <3>1, <3>2 DEF Advanced
      <3>4. PICK r, c, x : /\ r \in Seq(Nat) /\ x = [recurrent |-> r, conv |-> c]
                           /\ x = deltanet_pool[i]
        BY ReadingFacts DEF PoolTypes, IsPool, IsState
      <3>5. r \o <<>> = r
        BY <3>4
      <3>6. Advanced[i] = x
        BY <3>3, <3>4, <3>5
      <3> QED
        BY <2>1, <3>2, <3>4, <3>6
    <2>3. PICK s \in Range(batch) : seq_to_slot[s] = i
      BY <2>2 DEF Inputs
    <2>4. FromScratch(s)'
      BY <1>3, <2>1, <2>3 DEF Fresh, FromScratch
    <2>5. s \in Range(batch') /\ seq_to_slot'[s] = i
      <3>1. CASE Len(batch) > 1
        <4>1. PICK q \in Seq(Seqs) : q = batch
          BY ReadingFacts, PacingFacts DEF QueueTypes
        <4>2. Len(q) > 1 /\ q # <<>>
          BY <3>1, <4>1
        <4>3. Range(q) = Range(Front(q)) \cup {Last(q)}
          BY <4>1, <4>2, FrontAndLast
        <4>4. s # last
          <5>1. SUFFICES ASSUME s = last PROVE FALSE
            OBVIOUS
          <5>2. HasSlot(last)
            <6>1. MaxNumSeqs \in Nat
              BY RunnerAssumption DEF RunnerAssumption
            <6> QED
              BY <2>3, <5>1, <6>1 DEF HasSlot, NoSlot, Slots
          <5> QED
            BY <1>2, <1>8, <2>3, <3>1, <5>1, <5>2
        <4>5. s \in Range(batch')
          BY <1>1, <1>3, <2>3, <3>1, <4>1, <4>3, <4>4
        <4>6. s \in Seqs /\ SlotsApart
          BY <2>3, ReadingFacts, PacingFacts
        <4> QED
          BY <1>3, <2>3, <3>1, <4>4, <4>5, <4>6 DEF SlotsApart
      <3>2. CASE ~(Len(batch) > 1)
        BY <1>3, <2>3, <3>2
      <3> QED
        BY <3>1, <3>2
    <2> QED
      BY <1>3, <2>4, <2>5 DEF Stale
  <1> QED
    BY <1>6, <1>7, <1>8

(* A snapshot that is saved is the state of a slot.                        *)
LEMMA SnapshotsCoupled ==
    ASSUME Reading, ConvInv, [EngineNext]_vars
    PROVE  \A e \in Range(prefix_state_cache') : Coupled(e.state)
  <1>1. QueueTypes /\ IsList(prefix_state_cache) /\ SlotsApart
    BY ReadingFacts, PacingFacts DEF KeysLive
  <1>2. \A e \in Range(prefix_state_cache) : Coupled(e.state)
    BY ReadingFacts DEF ConvInv
  <1>3. CASE ~Record \/ UNCHANGED prefix_state_cache
    BY <1>1, <1>2, <1>3, StatesWithin
  <1>4. CASE Record /\ ~UNCHANGED prefix_state_cache
    <2>1. PICK s : s = Head(todo)
      OBVIOUS
    <2>2. pc = "record" /\ s \in Seqs /\ HasSlot(s) /\ RecordProgress(s)
      BY <1>4, <2>1, RecordFacts DEF Holds
    <2>3. PICK key : SaveState(s, key)
      BY <1>4, <2>2 DEF RecordProgress, Saves
    <2>4. PICK new : new = [key |-> key, state |-> State(s)]
      OBVIOUS
    <2>5. Range(prefix_state_cache') \subseteq Range(prefix_state_cache) \cup {new}
      BY <1>1, <2>3, <2>4, SavedWithin
    <2>6. seq_to_slot[s] \in Slots
      BY <1>1, <2>2 DEF SlotsApart, HasSlot
    <2>7. Coupled(new.state)
      BY <2>2, <2>4, <2>6 DEF ConvInv, Stale, State
    <2> QED
      BY <1>2, <2>5, <2>7
  <1> QED
    BY <1>3, <1>4

(* Every step of the engine.                                               *)
LEMMA ConvStep ==
    ASSUME Knowing, ConvInv, ChunksLong
    PROVE  ConvInv'
  <1>1. CASE pc' = "raised"
    BY <1>1 DEF ConvInv
  <1>2. CASE pc = "raised"
    BY <1>2, RaisedStays DEF Knowing, vars, loopVars, ConvInv
  <1>3. CASE pc # "raised" /\ pc' # "raised"
    <2>1. Reading /\ [EngineNext]_vars
      BY <1>3, KnowingReads DEF Knowing
    <2>2. SUFFICES ASSUME NEW i \in Slots PROVE Coupled(deltanet_pool'[i]) \/ Stale(i)'
      BY <2>1, SnapshotsCoupled DEF ConvInv
    <2>3. Coupled(deltanet_pool[i]) \/ Stale(i)
      BY <1>3 DEF ConvInv
    <2>4. CASE UNCHANGED vars
      <3>1. /\ UNCHANGED <<seq, pc, batch, batch_is_prefill, seq_to_slot, deltanet_pool>>
        BY <2>4 DEF vars, seqVars, loopVars, batchVars, runnerVars
      <3>2. Stale(i) => Stale(i)'
        BY <3>1 DEF Stale, FromScratch
      <3> QED
        BY <2>3, <3>1, <3>2
    <2>5. CASE Prepare
      BY <2>1, <2>5, PrepareCoupled
    <2>6. CASE Forward
      <3>1. pc = "forward" /\ deltanet_pool' = Advanced
        BY <1>3, <2>6 DEF Forward, ForwardPass, Raise
      <3> QED
        BY <2>1, <3>1, PassCoupled
    <2>7. CASE Retry
      BY <2>1, <2>7, RetryCoupled
    <2>8. CASE GiveUp
      BY <1>3, <2>8 DEF GiveUp, Raise
    <2>9. CASE EngineNext /\ ~Prepare /\ ~Forward /\ ~Retry /\ ~GiveUp /\ ~UNCHANGED vars
      <3>1. Zeroed /\ pc # "prepare"
        BY <2>9, OutsideRun
      <3>2. Coupled(deltanet_pool[i])
        BY <2>3, <3>1 DEF Stale
      <3> QED
        BY <3>1, <3>2, ZeroCoupled DEF Zeroed
    <2> QED
      BY <2>1, <2>4, <2>5, <2>6, <2>7, <2>8, <2>9
  <1> QED
    BY <1>1, <1>2, <1>3

(* All states are zero at first.                                           *)
LEMMA ConvInitially == EngineInit => ConvInv
  <1>1. SUFFICES ASSUME EngineInit PROVE ConvInv
    OBVIOUS
  <1>2. prefix_state_cache = <<>> /\ deltanet_pool = [i \in Slots |-> ZeroState]
    BY <1>1 DEF EngineInit, RunnerInit
  <1>3. Range(prefix_state_cache) = {}
    BY <1>2, EmptyList
  <1> QED
    BY <1>2, <1>3, ZeroCoupled DEF ConvInv

(* Where a pass begins.                                                    *)
LEMMA PassBegins ==
    ASSUME EngineInv, PaceInv, pc = "forward", NEW s \in Range(batch)
    PROVE  /\ s \in Seqs /\ token_ids[s] \in Seq(Nat) /\ First(s) \in Nat
           /\ First(s) <= Len(token_ids[s])
           /\ Scheduled(s) \in Nat \ {0}
  <1>1. QueueTypes /\ BatchInv /\ QueuesApart /\ SeqTypes /\ ChunkInv /\ pc \in Running
    BY DEF EngineInv, QueueInv, Running
  <1>2. /\ s \in Seqs /\ s \in Unfinished
    BY <1>1, BatchMembers DEF BatchInv, Running
  <1>3. Paced(s) /\ InPass(s) /\ ~Sampled(s)
    BY <1>2 DEF PaceInv, InPass, Started, Sampled
  <1>4. token_ids[s] \in Seq(Nat) /\ Cached(s) \in Nat /\ Scheduled(s) \in Nat
    BY <1>1, <1>2 DEF SeqTypes, IsFields, Cached, Scheduled
  <1>5. PICK k, m, n \in Nat :
           k = Cached(s) /\ m = Scheduled(s) /\ n = NumTokens(s) /\ n = Len(token_ids[s])
    BY <1>4 DEF NumTokens
  <1>6. CASE batch_is_prefill
    <2>1. First(s) = k
      BY <1>5, <1>6 DEF First, Cached
    <2>2. m > 0
      BY <1>3, <1>5, <1>6 DEF Paced, InPrefill
    <2>3. k + m <= n
      <3>1. CASE s \in Range(waiting)
        <4>1. seq[s].num_cached_tokens + seq[s].num_scheduled_tokens < NumTokens(s)
          BY <1>1, <1>6, <3>1 DEF ChunkInv
        <4>2. k + m < n
          BY <1>5, <4>1 DEF Cached, Scheduled
        <4> QED
          BY <4>2
      <3>2. CASE s \notin Range(waiting)
        <4>1. s \in Decoders
          BY <1>1, <1>2, <3>2 DEF QueuesApart, Decoders
        <4> QED
          BY <1>3, <1>5, <1>6, <4>1 DEF Paced, Due, Pending, InPrefill
      <3> QED
        BY <3>1, <3>2
    <2> QED
      BY <1>2, <1>4, <1>5, <2>1, <2>2, <2>3
  <1>7. CASE ~batch_is_prefill
    <2>1. s \notin Range(waiting)
      BY <1>1, <1>7 DEF BatchInv, Running
    <2>2. Due(s)
      BY <1>1, <1>2, <1>3, <2>1 DEF QueuesApart, Decoders, Paced
    <2>3. k + 1 = n
      BY <1>3, <1>5, <1>7, <2>2 DEF Due, Pending, InPrefill
    <2>4. m = 1
      BY <1>3, <1>5, <1>7 DEF Paced, Picked
    <2>5. First(s) = n - 1
      BY <1>5, <1>7 DEF First
    <2> QED
      BY <1>2, <1>4, <1>5, <2>3, <2>4, <2>5
  <1> QED
    BY <1>6, <1>7

(* The history that a pass continues from ends at its first token.         *)
LEMMA HistoryIsExact ==
    ASSUME EngineInv, SlotInv, PaceInv, ContextInv, ConvInv
    PROVE  ConvExact
  <1>1. SUFFICES ASSUME pc = "forward", NEW s \in Range(batch), NEW k \in 1 .. (ConvKernel - 1),
                        NEW p, p = First(s) - ConvKernel + 1 + k
                 PROVE  State(s).conv[k + 1] = IF p > 0 THEN token_ids[s][p] ELSE 0
    BY DEF ConvExact, ConvExactFor
  <1>2. PICK f, z \in Nat, q \in Seq(Nat) :
           f = First(s) /\ z = ConvKernel /\ q = token_ids[s] /\ f <= Len(q)
    <2>1. ConvKernel \in Nat
      BY RunnerAssumption DEF RunnerAssumption
    <2> QED
      BY <1>1, <2>1, PassBegins
  <1>3. PICK r : r = SubSeq(q, 1, f)
    OBVIOUS
  <1>4. Len(r) = f /\ \A i \in 1 .. f : r[i] = q[i]
    BY <1>2, <1>3
  <1>5. State(s).recurrent = r
    <2>1. ContextExactFor(s)
      BY <1>1, ContextIsExact DEF ContextExact
    <2> QED
      BY <1>2, <1>3, <2>1 DEF ContextExactFor, Read
  <1>6. seq_to_slot[s] \in Slots
    <2>1. SlotsApart /\ SlotHolders
      BY <1>1 DEF EngineInv, QueueInv, SlotInv
    <2> QED
      BY <1>1, <2>1, PassBegins DEF SlotHolders, SlotsApart, HasSlot
  <1>7. Coupled(State(s))
    BY <1>1, <1>6 DEF ConvInv, Stale, State
  <1>8. State(s).conv[k + 1] = IF f + (k + 1) > z THEN r[f + (k + 1) - z] ELSE 0
    <2>1. k + 1 \in 2 .. z
      BY <1>2
    <2> QED
      BY <1>2, <1>4, <1>5, <1>7, <2>1 DEF Coupled, History
  <1>9. p = f + (k + 1) - z
    BY <1>1, <1>2
  <1>10. (f + (k + 1) > z <=> p > 0) /\ (p > 0 => p \in 1 .. f)
    BY <1>2, <1>9
  <1>11. State(s).conv[k + 1] = IF p > 0 THEN r[p] ELSE 0
    BY <1>8, <1>9, <1>10
  <1> QED
    BY <1>2, <1>4, <1>10, <1>11

(* From the first state on.                                                *)
LEMMA ConvInvariant ==
    ASSUME ~ServeAfterError, "resumed" \notin LateOOM
    PROVE  EngineSpec /\ []Undisturbed /\ [](EnablePrefixCaching => HitsExact) /\ []ChunksLong
           => [](EngineInv /\ SlotInv /\ PaceInv /\ ContextInv /\ ConvInv)
  <1>1. EngineInit => ConvInv
    BY ConvInitially
  <1>2. /\ EngineInv /\ SlotInv /\ WriteInv /\ PaceInv /\ ContextInv /\ SnapInv
        /\ Undisturbed /\ [EngineNext]_vars /\ EngineInv'
        /\ (EnablePrefixCaching => HitsExact) /\ ConvInv /\ ChunksLong
        => ConvInv'
    BY ConvStep DEF Knowing
  <1> QED
    BY <1>1, <1>2, WriteInvariant, ContextInvariant, PTL DEF EngineSpec

(* The conv1d of a pass continues from the last ConvKernel - 1 tokens of   *)
(* its sequence, after decode passes, restored prefixes, retries and       *)
(* preemptions alike, where every chunk that continues a prompt is as long *)
(* as that: a shorter one overwrites the end of the history and shifts     *)
(* nothing (qwen_36.py 591), the one way to lose it.                       *)
THEOREM PassesContinueTheConv ==
    ASSUME ~ServeAfterError, "resumed" \notin LateOOM
    PROVE  EngineSpec /\ []Undisturbed /\ [](EnablePrefixCaching => HitsExact) /\ []ChunksLong
           => []ConvExact
  <1>1. EngineInv /\ SlotInv /\ PaceInv /\ ContextInv /\ ConvInv => ConvExact
    BY HistoryIsExact
  <1> QED
    BY <1>1, ConvInvariant, PTL

(* All that a pass starts from is exact in an engine that nothing disturbs *)
(* and that gives no node of its trie a second chain, for every length of  *)
(* the conv1d, while the chunks that continue a prompt are long enough.    *)
THEOREM PassesAreExactInPlainEngine ==
    ASSUME PlainEngine, "resumed" \notin LateOOM
    PROVE  EngineSpec /\ [][ChainsKept]_vars /\ []ChunksLong => [](ContextExact /\ ConvExact)
  <1>1. ~ServeAfterError
    BY DEF PlainEngine
  <1>2. HitsExact => (EnablePrefixCaching => HitsExact)
    OBVIOUS
  <1> QED
    BY <1>1, <1>2, NeverDisturbed, CacheIsExactInPlainEngine, PassesContinueTheConv, PTL

=============================================================================
