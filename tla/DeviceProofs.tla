----------------------------- MODULE DeviceProofs -----------------------------
(***************************************************************************)
(* The kernels and the choice of tokens, for any number of threads, chunks,*)
(* tokens, ranks and blocks.                                               *)
(*                                                                         *)
(* The threads of a warp-specialised kernel wait by parity only.  What     *)
(* makes a parity enough is that the phases of the two barriers of a       *)
(* buffer stay within one of the rounds that each thread has made over it; *)
(* the inductive invariant says so.                                        *)
(*                                                                         *)
(* So a thread that is through k chunks has folded in the keys of the      *)
(* first k, in order; and dividing positions into chunks, pages, rows and  *)
(* heads on both sides loses none and repeats none.                        *)
(*                                                                         *)
(* Taking the maximum in two levels, of shards and then of ranks, or of    *)
(* blocks and then of all blocks, gives the first index of the largest     *)
(* logit of the whole vocabulary.  Logits are bounded, as in every         *)
(* floating-point format.                                                  *)
(*                                                                         *)
(* A pass edits the logits of each shard or of the gathered whole, part by *)
(* part; what comes out is what editing token by token wants.  The rest is *)
(* the collectives: nobody chooses before everybody has sent, and what a   *)
(* rank returns is its own choice or rank 0's.                             *)
(*                                                                         *)
(* The candidates that the ranks send hold every token larger than any of  *)
(* them; so top_k and top_p of the candidates are those of the vocabulary. *)
(* The sums of weights are folds, read here as the only function that      *)
(* takes out one summand at a time.                                        *)
(***************************************************************************)
EXTENDS AttentionProperties, SamplingProperties, SequenceTheorems, WellFoundedInduction,
        FiniteSetTheorems, TLAPS

-----------------------------------------------------------------------------
(* The pipeline.                                                           *)

(* How often a thread that is at chunk k has been through buffer b.        *)
Rounds(b, k) == (k + 1 - b) \div 2

(* The chunk of a buffer's n-th round.                                     *)
ChunkOf(b, n) == 2 * (n - 1) + b

PipeTypeOK ==
    /\ loop_range \in Nat
    /\ k_shared \in [Buffers -> [MemoryThreads -> Nat \cup {Nothing}]]
    /\ v_shared \in [Buffers -> [MemoryThreads -> Nat \cup {Nothing}]]
    /\ kv_ready \in [Buffers -> Nat] /\ kv_in \in [Buffers -> SUBSET MemoryThreads]
    /\ compute_done \in [Buffers -> Nat]
    /\ done_in \in [Buffers -> SUBSET ComputeThreads]
    /\ compute \in [ComputeThreads -> {"wait", "scores", "values"}]
    /\ ck \in [ComputeThreads -> Nat]
    /\ memory \in [MemoryThreads -> {"wait", "copy_k", "copy_v"}]
    /\ mk \in [MemoryThreads -> Nat]

(* The current phase of kv_ready[b] is that of the round a thread is in,   *)
(* or of the one it has just ended and then it has arrived.                *)
ReadyExact ==
    \A b \in Buffers :
        /\ kv_in[b] # MemoryThreads
        /\ \A m \in MemoryThreads :
              Rounds(b, mk[m]) = kv_ready[b] + (IF m \in kv_in[b] THEN 1 ELSE 0)

DoneExact ==
    \A b \in Buffers :
        /\ done_in[b] # ComputeThreads
        /\ \A t \in ComputeThreads :
              Rounds(b, ck[t]) = compute_done[b] + (IF t \in done_in[b] THEN 1 ELSE 0)

(* The copies of a buffer are at most one round ahead of its readers.      *)
ReadyAhead ==
    \A t \in ComputeThreads :
        /\ \A b \in Buffers : kv_ready[b] \in Rounds(b, ck[t]) .. Rounds(b, ck[t]) + 1
        /\ compute[t] # "wait" => kv_ready[ck[t] % 2] = ck[t] \div 2 + 1

(* No copy begins before the readers of the round before have left.        *)
DoneBehind ==
    \A m \in MemoryThreads :
        /\ \A b \in Buffers : compute_done[b] >= Rounds(b, mk[m]) - 1
        /\ memory[m] # "wait" => compute_done[mk[m] % 2] >= mk[m] \div 2

(* What a buffer holds of each thread's slice.                             *)
Contents ==
    \A m \in MemoryThreads, b \in Buffers :
        /\ Rounds(b, mk[m]) > 0 => v_shared[b][m] = ChunkOf(b, Rounds(b, mk[m]))
        /\ Rounds(b, mk[m]) > 0 /\ ~ (memory[m] = "copy_v" /\ mk[m] % 2 = b)
              => k_shared[b][m] = ChunkOf(b, Rounds(b, mk[m]))
        /\ memory[m] = "copy_v" => k_shared[mk[m] % 2][m] = mk[m]

PipeInv == PipeTypeOK /\ ReadyExact /\ DoneExact /\ ReadyAhead /\ DoneBehind /\ Contents

-----------------------------------------------------------------------------
(* A thread goes through the two buffers in turn.                          *)
LEMMA RoundsFacts ==
    ASSUME NEW k \in Nat
    PROVE  /\ k % 2 \in Buffers /\ k \div 2 \in Nat
           /\ Rounds(k % 2, k) = k \div 2
           /\ ChunkOf(k % 2, k \div 2 + 1) = k
           /\ \A b \in Buffers :
                 /\ Rounds(b, k) \in Nat
                 /\ Rounds(b, k + 1) = Rounds(b, k) + (IF b = k % 2 THEN 1 ELSE 0)
BY SMT DEF Rounds, ChunkOf, Buffers

(* The invariant holds before the first copy.                              *)
LEMMA PipeInvInit == loop_range \in Nat /\ PipeInit => PipeInv
<1> SUFFICES ASSUME loop_range \in Nat, PipeInit PROVE PipeInv
  OBVIOUS
<1> USE ThreadsAssumption
<1>0. \A b \in Buffers : Rounds(b, 0) = 0
  BY SMT DEF Rounds, Buffers
<1>1. PipeTypeOK
  BY DEF PipeInit, PipeTypeOK
<1>2. ReadyExact /\ DoneExact
  BY <1>0 DEF PipeInit, ReadyExact, DoneExact
<1>3. ReadyAhead /\ DoneBehind
  BY <1>0 DEF PipeInit, ReadyAhead, DoneBehind, Buffers
<1>4. Contents
  BY <1>0 DEF PipeInit, Contents
<1> QED
  BY <1>1, <1>2, <1>3, <1>4 DEF PipeInv

(* Passing the wait at kv_ready means that the chunk itself has come, not  *)
(* one of another round with the same parity.                              *)
LEMMA ReadyMeansThisRound ==
    ASSUME PipeInv, NEW t \in ComputeThreads,
           Passes(kv_ready[ck[t] % 2], ReadyParity(ck[t]))
    PROVE  kv_ready[ck[t] % 2] = ck[t] \div 2 + 1
<1> DEFINE k == ck[t]
<1>1. k \in Nat /\ k % 2 \in Buffers /\ k \div 2 \in Nat /\ Rounds(k % 2, k) = k \div 2
  BY RoundsFacts DEF PipeInv, PipeTypeOK
<1>2. kv_ready[k % 2] \in k \div 2 .. k \div 2 + 1
  BY <1>1 DEF PipeInv, ReadyAhead
<1>3. kv_ready[k % 2] % 2 # (k \div 2) % 2
  BY DEF Passes, ReadyParity
<1> QED
  BY <1>1, <1>2, <1>3

(* Readers cannot have been through a buffer more often than its copiers.  *)
LEMMA DoneWithinRounds ==
    ASSUME PipeInv, NEW b \in Buffers, NEW m \in MemoryThreads
    PROVE  compute_done[b] \in Rounds(b, mk[m]) - 1 .. Rounds(b, mk[m])
<1>1. PICK t \in ComputeThreads : TRUE
  BY ThreadsAssumption
<1>2. /\ Rounds(b, mk[m]) \in Nat /\ Rounds(b, ck[t]) \in Nat
      /\ kv_ready[b] \in Nat /\ compute_done[b] \in Nat
  BY RoundsFacts DEF PipeInv, PipeTypeOK
<1>3. compute_done[b] <= Rounds(b, ck[t])
  BY <1>2 DEF PipeInv, DoneExact
<1>4. Rounds(b, ck[t]) <= kv_ready[b]
  BY <1>2 DEF PipeInv, ReadyAhead
<1>5. kv_ready[b] <= Rounds(b, mk[m])
  BY <1>2 DEF PipeInv, ReadyExact
<1>6. compute_done[b] >= Rounds(b, mk[m]) - 1
  BY DEF PipeInv, DoneBehind
<1> QED
  BY <1>2, <1>3, <1>4, <1>5, <1>6

(* Passing the wait at compute_done means that the round before is over.   *)
LEMMA DoneMeansRoundBefore ==
    ASSUME PipeInv, NEW m \in MemoryThreads, MayCopy(mk[m])
    PROVE  compute_done[mk[m] % 2] >= mk[m] \div 2
<1> DEFINE k == mk[m]
<1>1. k \in Nat /\ k % 2 \in Buffers /\ k \div 2 \in Nat /\ Rounds(k % 2, k) = k \div 2
  BY RoundsFacts DEF PipeInv, PipeTypeOK
<1>2. compute_done[k % 2] \in k \div 2 - 1 .. k \div 2 /\ compute_done[k % 2] \in Nat
  BY <1>1, DoneWithinRounds DEF PipeInv, PipeTypeOK
<1>3. CASE k < 2
  BY <1>1, <1>2, <1>3
<1>4. CASE k >= 2
  <2>1. compute_done[k % 2] % 2 # (k \div 2 - 1) % 2
    BY <1>4 DEF MayCopy, Passes, DoneParity
  <2> QED
    BY <2>1, <1>1, <1>2
<1> QED
  BY <1>1, <1>3, <1>4

(* Waiting and reading move no chunk and no barrier.                       *)
LEMMA InvWaitScores ==
    ASSUME PipeInv, NEW t \in ComputeThreads, ComputeWait(t) \/ Scores(t)
    PROVE  PipeInv'
<1>1. /\ compute' \in [ComputeThreads -> {"wait", "scores", "values"}]
      /\ \A u \in ComputeThreads : compute'[u] # "wait" => u = t \/ compute[u] # "wait"
      /\ UNCHANGED <<loop_range, sharedVars, readyVars, doneVars, ck, memoryVars>>
  BY DEF PipeInv, PipeTypeOK, ComputeWait, Scores
<1>2. kv_ready[ck[t] % 2] = ck[t] \div 2 + 1
  BY ReadyMeansThisRound DEF PipeInv, ReadyAhead, ComputeWait, Scores
<1>3. PipeTypeOK' /\ ReadyExact' /\ DoneExact' /\ DoneBehind' /\ Contents'
  BY <1>1 DEF PipeInv, PipeTypeOK, ReadyExact, DoneExact, DoneBehind, Contents,
      sharedVars, readyVars, doneVars, memoryVars
<1>4. ReadyAhead'
  BY <1>1, <1>2 DEF PipeInv, ReadyAhead, readyVars
<1> QED
  BY <1>3, <1>4 DEF PipeInv

(* A reader that leaves a buffer has been through it once more, and its    *)
(* arrival counts for the phase of that round.                             *)
LEMMA InvValues ==
    ASSUME PipeInv, NEW t \in ComputeThreads, Values(t)
    PROVE  PipeInv'
<1> DEFINE b == ck[t] % 2
           last == done_in[b] \cup {t} = ComputeThreads
<1>1. /\ ck[t] \in Nat /\ b \in Buffers /\ Rounds(b, ck[t]) = ck[t] \div 2
      /\ ck[t] \div 2 \in Nat
      /\ ck' = [ck EXCEPT ![t] = @ + 1]
      /\ compute' = [compute EXCEPT ![t] = "wait"]
      /\ done_in' = [done_in EXCEPT ![b] = IF last THEN {} ELSE @ \cup {t}]
      /\ compute_done' = [compute_done EXCEPT ![b] = IF last THEN @ + 1 ELSE @]
      /\ UNCHANGED <<loop_range, sharedVars, readyVars, memoryVars>>
  BY RoundsFacts DEF PipeInv, PipeTypeOK, Values
<1>2. /\ \A u \in ComputeThreads : ck'[u] \in Nat /\ (u # t => ck'[u] = ck[u])
      /\ ck'[t] = ck[t] + 1
      /\ \A c \in Buffers : c # b => Rounds(c, ck'[t]) = Rounds(c, ck[t])
      /\ Rounds(b, ck'[t]) = Rounds(b, ck[t]) + 1
  <2>1. /\ \A u \in ComputeThreads : ck'[u] \in Nat /\ (u # t => ck'[u] = ck[u])
        /\ ck'[t] = ck[t] + 1
    BY <1>1 DEF PipeInv, PipeTypeOK
  <2>2. \A c \in Buffers :
           /\ Rounds(c, ck[t]) \in Nat
           /\ Rounds(c, ck[t] + 1) = Rounds(c, ck[t]) + (IF c = b THEN 1 ELSE 0)
    BY <1>1, RoundsFacts
  <2> QED
    BY <1>1, <2>1, <2>2
<1>3. kv_ready[b] = Rounds(b, ck[t]) + 1
  BY <1>1 DEF PipeInv, ReadyAhead, Values
<1>4. t \notin done_in[b] /\ Rounds(b, ck[t]) = compute_done[b]
  <2>1. compute_done[b] \in Nat /\ \A m \in MemoryThreads : Rounds(b, mk[m]) \in Nat
    BY <1>1, RoundsFacts DEF PipeInv, PipeTypeOK
  <2>2. Rounds(b, ck[t]) = compute_done[b] + (IF t \in done_in[b] THEN 1 ELSE 0)
    BY <1>1 DEF PipeInv, DoneExact
  <2>3. PICK m \in MemoryThreads : m \notin kv_in[b]
    BY <1>1 DEF PipeInv, ReadyExact, PipeTypeOK
  <2>4. Rounds(b, mk[m]) = kv_ready[b] /\ compute_done[b] >= Rounds(b, mk[m]) - 1
    BY <1>1, <2>1, <2>3 DEF PipeInv, PipeTypeOK, ReadyExact, DoneBehind
  <2> QED
    BY <1>1, <1>3, <2>1, <2>2, <2>4
<1>5. PipeTypeOK'
  BY <1>1 DEF PipeInv, PipeTypeOK, sharedVars, readyVars, memoryVars
<1>6. ReadyExact' /\ Contents'
  BY <1>1 DEF PipeInv, ReadyExact, Contents, sharedVars, readyVars, memoryVars
<1>7. DoneExact'
  <2> SUFFICES ASSUME NEW c \in Buffers
               PROVE  /\ done_in'[c] # ComputeThreads
                      /\ \A u \in ComputeThreads :
                            Rounds(c, ck'[u]) = compute_done'[c]
                                                + (IF u \in done_in'[c] THEN 1 ELSE 0)
    BY DEF DoneExact
  <2>0. /\ compute_done[c] \in Nat /\ done_in[c] \subseteq ComputeThreads
        /\ done_in[c] # ComputeThreads
        /\ \A u \in ComputeThreads :
              /\ Rounds(c, ck[u]) \in Nat
              /\ Rounds(c, ck[u]) = compute_done[c] + (IF u \in done_in[c] THEN 1 ELSE 0)
    BY RoundsFacts DEF PipeInv, PipeTypeOK, DoneExact
  <2>1. CASE c # b
    <3>1. done_in'[c] = done_in[c] /\ compute_done'[c] = compute_done[c]
      BY <1>1, <2>1 DEF PipeInv, PipeTypeOK
    <3>2. \A u \in ComputeThreads : Rounds(c, ck'[u]) = Rounds(c, ck[u])
      BY <1>2, <2>1
    <3> QED
      BY <2>0, <3>1, <3>2
  <2>2. CASE c = b /\ last
    <3>1. done_in'[c] = {} /\ compute_done'[c] = compute_done[c] + 1
      BY <1>1, <2>2 DEF PipeInv, PipeTypeOK
    <3>2. \A u \in ComputeThreads : u # t => u \in done_in[c]
      BY <2>2
    <3> QED
      BY <1>2, <1>4, <2>0, <2>2, <3>1, <3>2, ThreadsAssumption
  <2>3. CASE c = b /\ ~ last
    <3>1. done_in'[c] = done_in[c] \cup {t} /\ compute_done'[c] = compute_done[c]
      BY <1>1, <2>3 DEF PipeInv, PipeTypeOK
    <3> QED
      BY <1>2, <1>4, <2>0, <2>3, <3>1
  <2> QED
    BY <2>1, <2>2, <2>3
<1>8. ReadyAhead'
  <2>1. ASSUME NEW c \in Buffers PROVE kv_ready[c] \in Nat /\ Rounds(c, ck[t]) \in Nat
    BY RoundsFacts DEF PipeInv, PipeTypeOK
  <2>2. \A c \in Buffers : kv_ready[c] \in Rounds(c, ck'[t]) .. Rounds(c, ck'[t]) + 1
    BY <1>1, <1>2, <1>3, <2>1 DEF PipeInv, ReadyAhead
  <2>3. compute'[t] = "wait" /\ \A u \in ComputeThreads : u # t => compute'[u] = compute[u]
    BY <1>1 DEF PipeInv, PipeTypeOK
  <2> QED
    BY <1>1, <1>2, <2>2, <2>3 DEF PipeInv, ReadyAhead, readyVars
<1>9. DoneBehind'
  <2>1. \A c \in Buffers : compute_done'[c] >= compute_done[c]
                          /\ compute_done[c] \in Nat /\ compute_done'[c] \in Nat
    BY <1>1 DEF PipeInv, PipeTypeOK
  <2>2. \A m \in MemoryThreads : /\ mk[m] % 2 \in Buffers /\ mk[m] \div 2 \in Nat
                                /\ \A c \in Buffers : Rounds(c, mk[m]) \in Nat
    BY RoundsFacts DEF PipeInv, PipeTypeOK
  <2> QED
    BY <1>1, <2>1, <2>2 DEF PipeInv, DoneBehind, memoryVars
<1> QED
  BY <1>5, <1>6, <1>7, <1>8, <1>9 DEF PipeInv

(* A copier that waits, or copies K, arrives nowhere.                      *)
LEMMA InvWaitCopyK ==
    ASSUME PipeInv, NEW m \in MemoryThreads, MemoryWait(m) \/ CopyK(m)
    PROVE  PipeInv'
<1>1. /\ memory' \in [MemoryThreads -> {"wait", "copy_k", "copy_v"}]
      /\ \A n \in MemoryThreads : n # m => memory'[n] = memory[n]
      /\ k_shared' \in [Buffers -> [MemoryThreads -> Nat \cup {Nothing}]]
      /\ \A n \in MemoryThreads, b \in Buffers :
            n # m \/ b # mk[m] % 2 => k_shared'[b][n] = k_shared[b][n]
      /\ \/ memory[m] = "wait" /\ memory'[m] = "copy_k" /\ k_shared' = k_shared
         \/ memory'[m] = "copy_v" /\ k_shared'[mk[m] % 2][m] = mk[m]
      /\ UNCHANGED <<loop_range, v_shared, readyVars, doneVars, computeVars, mk>>
  <2>1. mk[m] \in Nat /\ mk[m] % 2 \in Buffers
    BY RoundsFacts DEF PipeInv, PipeTypeOK
  <2>2. CASE MemoryWait(m)
    BY <2>2 DEF PipeInv, PipeTypeOK, MemoryWait, sharedVars
  <2>3. CASE CopyK(m)
    <3>1. /\ k_shared' = [k_shared EXCEPT ![mk[m] % 2] = [@ EXCEPT ![m] = mk[m]]]
          /\ k_shared[mk[m] % 2] \in [MemoryThreads -> Nat \cup {Nothing}]
      BY <2>1, <2>3 DEF PipeInv, PipeTypeOK, CopyK
    <3>2. memory' = [memory EXCEPT ![m] = "copy_v"]
      BY <2>3 DEF CopyK
    <3>3. /\ k_shared' \in [Buffers -> [MemoryThreads -> Nat \cup {Nothing}]]
          /\ \A n \in MemoryThreads, b \in Buffers :
                n # m \/ b # mk[m] % 2 => k_shared'[b][n] = k_shared[b][n]
          /\ k_shared'[mk[m] % 2][m] = mk[m]
      BY <2>1, <3>1 DEF PipeInv, PipeTypeOK
    <3> QED
      BY <2>3, <3>2, <3>3 DEF PipeInv, PipeTypeOK, CopyK
  <2> QED
    BY <2>2, <2>3
<1>2. compute_done[mk[m] % 2] >= mk[m] \div 2
  BY DoneMeansRoundBefore DEF PipeInv, DoneBehind, MemoryWait, CopyK
<1>3. PipeTypeOK' /\ ReadyExact' /\ DoneExact' /\ ReadyAhead'
  BY <1>1 DEF PipeInv, PipeTypeOK, ReadyExact, DoneExact, ReadyAhead,
      readyVars, doneVars, computeVars
<1>4. DoneBehind'
  BY <1>1, <1>2 DEF PipeInv, DoneBehind, doneVars
<1>5. Contents'
  <2> SUFFICES ASSUME NEW n \in MemoryThreads, NEW b \in Buffers
               PROVE  /\ Rounds(b, mk[n]) > 0 => v_shared[b][n] = ChunkOf(b, Rounds(b, mk[n]))
                      /\ Rounds(b, mk[n]) > 0 /\ ~ (memory'[n] = "copy_v" /\ mk[n] % 2 = b)
                            => k_shared'[b][n] = ChunkOf(b, Rounds(b, mk[n]))
                      /\ memory'[n] = "copy_v" => k_shared'[mk[n] % 2][n] = mk[n]
    BY <1>1 DEF Contents
  <2>1. CASE n # m
    BY <1>1, <2>1, RoundsFacts DEF PipeInv, PipeTypeOK, Contents
  <2>2. CASE n = m /\ memory'[m] = "copy_k" /\ k_shared' = k_shared /\ memory[m] = "wait"
    BY <2>2 DEF PipeInv, Contents
  <2>3. CASE n = m /\ memory'[m] = "copy_v" /\ k_shared'[mk[m] % 2][m] = mk[m]
    <3>1. b # mk[m] % 2 => k_shared'[b][m] = k_shared[b][m]
      BY <1>1
    <3> QED
      BY <2>3, <3>1 DEF PipeInv, Contents
  <2> QED
    BY <1>1, <2>1, <2>2, <2>3
<1> QED
  BY <1>3, <1>4, <1>5 DEF PipeInv

(* A copier that has filled its slice arrives for the phase of its round.  *)
LEMMA InvCopyV ==
    ASSUME PipeInv, NEW m \in MemoryThreads, CopyV(m)
    PROVE  PipeInv'
<1> DEFINE b == mk[m] % 2
           last == kv_in[b] \cup {m} = MemoryThreads
<1>1. /\ mk[m] \in Nat /\ b \in Buffers /\ Rounds(b, mk[m]) = mk[m] \div 2
      /\ mk[m] \div 2 \in Nat
      /\ memory[m] = "copy_v"
      /\ v_shared' = [v_shared EXCEPT ![b][m] = mk[m]]
      /\ mk' = [mk EXCEPT ![m] = @ + 1]
      /\ memory' = [memory EXCEPT ![m] = "wait"]
      /\ kv_in' = [kv_in EXCEPT ![b] = IF last THEN {} ELSE @ \cup {m}]
      /\ kv_ready' = [kv_ready EXCEPT ![b] = IF last THEN @ + 1 ELSE @]
      /\ UNCHANGED <<loop_range, k_shared, doneVars, computeVars>>
  BY RoundsFacts DEF PipeInv, PipeTypeOK, CopyV
<1>2. /\ \A n \in MemoryThreads : mk'[n] \in Nat /\ (n # m => mk'[n] = mk[n])
      /\ mk'[m] = mk[m] + 1
      /\ \A c \in Buffers : c # b => Rounds(c, mk'[m]) = Rounds(c, mk[m])
      /\ Rounds(b, mk'[m]) = Rounds(b, mk[m]) + 1
  <2>1. /\ \A n \in MemoryThreads : mk'[n] \in Nat /\ (n # m => mk'[n] = mk[n])
        /\ mk'[m] = mk[m] + 1
    BY <1>1 DEF PipeInv, PipeTypeOK
  <2>2. \A c \in Buffers :
           /\ Rounds(c, mk[m]) \in Nat
           /\ Rounds(c, mk[m] + 1) = Rounds(c, mk[m]) + (IF c = b THEN 1 ELSE 0)
    BY <1>1, RoundsFacts
  <2> QED
    BY <1>1, <2>1, <2>2
<1>3. compute_done[b] >= Rounds(b, mk[m]) /\ compute_done[b] \in Nat
  BY <1>1 DEF PipeInv, PipeTypeOK, DoneBehind
<1>4. m \notin kv_in[b] /\ Rounds(b, mk[m]) = kv_ready[b]
  <2>1. kv_ready[b] \in Nat /\ \A t \in ComputeThreads : Rounds(b, ck[t]) \in Nat
    BY <1>1, RoundsFacts DEF PipeInv, PipeTypeOK
  <2>2. Rounds(b, mk[m]) = kv_ready[b] + (IF m \in kv_in[b] THEN 1 ELSE 0)
    BY <1>1 DEF PipeInv, ReadyExact
  <2>3. PICK t \in ComputeThreads : t \notin done_in[b]
    BY <1>1 DEF PipeInv, DoneExact, PipeTypeOK
  <2>4. Rounds(b, ck[t]) = compute_done[b] /\ Rounds(b, ck[t]) <= kv_ready[b]
    BY <1>1, <1>3, <2>1, <2>3 DEF PipeInv, DoneExact, ReadyAhead
  <2> QED
    BY <1>1, <1>3, <2>1, <2>2, <2>4
<1>5. PipeTypeOK'
  BY <1>1 DEF PipeInv, PipeTypeOK, doneVars, computeVars
<1>6. DoneExact'
  BY <1>1 DEF PipeInv, DoneExact, doneVars, computeVars
<1>7. ReadyExact'
  <2> SUFFICES ASSUME NEW c \in Buffers
               PROVE  /\ kv_in'[c] # MemoryThreads
                      /\ \A n \in MemoryThreads :
                            Rounds(c, mk'[n]) = kv_ready'[c]
                                                + (IF n \in kv_in'[c] THEN 1 ELSE 0)
    BY DEF ReadyExact
  <2>0. /\ kv_ready[c] \in Nat /\ kv_in[c] \subseteq MemoryThreads
        /\ kv_in[c] # MemoryThreads
        /\ \A n \in MemoryThreads :
              /\ Rounds(c, mk[n]) \in Nat
              /\ Rounds(c, mk[n]) = kv_ready[c] + (IF n \in kv_in[c] THEN 1 ELSE 0)
    BY RoundsFacts DEF PipeInv, PipeTypeOK, ReadyExact
  <2>1. CASE c # b
    <3>1. kv_in'[c] = kv_in[c] /\ kv_ready'[c] = kv_ready[c]
      BY <1>1, <2>1 DEF PipeInv, PipeTypeOK
    <3>2. \A n \in MemoryThreads : Rounds(c, mk'[n]) = Rounds(c, mk[n])
      BY <1>2, <2>1
    <3> QED
      BY <2>0, <3>1, <3>2
  <2>2. CASE c = b /\ last
    <3>1. kv_in'[c] = {} /\ kv_ready'[c] = kv_ready[c] + 1
      BY <1>1, <2>2 DEF PipeInv, PipeTypeOK
    <3>2. \A n \in MemoryThreads : n # m => n \in kv_in[c]
      BY <2>2
    <3> QED
      BY <1>2, <1>4, <2>0, <2>2, <3>1, <3>2, ThreadsAssumption
  <2>3. CASE c = b /\ ~ last
    <3>1. kv_in'[c] = kv_in[c] \cup {m} /\ kv_ready'[c] = kv_ready[c]
      BY <1>1, <2>3 DEF PipeInv, PipeTypeOK
    <3> QED
      BY <1>2, <1>4, <2>0, <2>3, <3>1
  <2> QED
    BY <2>1, <2>2, <2>3
<1>8. ReadyAhead'
  <2> SUFFICES ASSUME NEW t \in ComputeThreads
               PROVE  /\ \A c \in Buffers :
                            kv_ready'[c] \in Rounds(c, ck[t]) .. Rounds(c, ck[t]) + 1
                      /\ compute[t] # "wait" => kv_ready'[ck[t] % 2] = ck[t] \div 2 + 1
    BY <1>1 DEF ReadyAhead, computeVars
  <2>1. /\ ck[t] % 2 \in Buffers /\ Rounds(ck[t] % 2, ck[t]) = ck[t] \div 2
        /\ ck[t] \div 2 \in Nat
        /\ \A c \in Buffers : kv_ready[c] \in Nat /\ Rounds(c, ck[t]) \in Nat
    BY RoundsFacts DEF PipeInv, PipeTypeOK
  <2>2. \A c \in Buffers : kv_ready'[c] \in {kv_ready[c], kv_ready[c] + 1}
                          /\ (c # b => kv_ready'[c] = kv_ready[c])
    BY <1>1 DEF PipeInv, PipeTypeOK
  <2>3. kv_ready[b] <= Rounds(b, ck[t])
    <3>1. compute_done[b] <= Rounds(b, ck[t])
      BY <1>1, <1>3, <2>1 DEF PipeInv, DoneExact
    <3> QED
      BY <1>1, <1>3, <1>4, <2>1, <3>1
  <2>4. \A c \in Buffers : kv_ready'[c] \in Rounds(c, ck[t]) .. Rounds(c, ck[t]) + 1
    BY <1>1, <2>1, <2>2, <2>3 DEF PipeInv, ReadyAhead
  <2>5. compute[t] # "wait" => kv_ready'[ck[t] % 2] = ck[t] \div 2 + 1
    BY <1>1, <2>1, <2>2, <2>3 DEF PipeInv, ReadyAhead
  <2> QED
    BY <2>4, <2>5
<1>9. DoneBehind'
  <2>1. \A c \in Buffers : /\ compute_done[c] \in Nat
                          /\ Rounds(c, mk[m]) \in Nat
    BY <1>1, RoundsFacts DEF PipeInv, PipeTypeOK
  <2>2. \A c \in Buffers : compute_done[c] >= Rounds(c, mk'[m]) - 1
    BY <1>1, <1>2, <1>3, <2>1 DEF PipeInv, DoneBehind
  <2>3. memory'[m] = "wait" /\ \A n \in MemoryThreads : n # m => memory'[n] = memory[n]
    BY <1>1 DEF PipeInv, PipeTypeOK
  <2> QED
    BY <1>1, <1>2, <2>2, <2>3 DEF PipeInv, DoneBehind, doneVars
<1>10. Contents'
  <2> SUFFICES ASSUME NEW n \in MemoryThreads, NEW c \in Buffers
               PROVE  /\ Rounds(c, mk'[n]) > 0
                            => v_shared'[c][n] = ChunkOf(c, Rounds(c, mk'[n]))
                      /\ Rounds(c, mk'[n]) > 0 /\ ~ (memory'[n] = "copy_v" /\ mk'[n] % 2 = c)
                            => k_shared[c][n] = ChunkOf(c, Rounds(c, mk'[n]))
                      /\ memory'[n] = "copy_v" => k_shared[mk'[n] % 2][n] = mk'[n]
    BY <1>1 DEF Contents
  <2>0. /\ memory'[m] = "wait" /\ \A o \in MemoryThreads : o # m => memory'[o] = memory[o]
        /\ v_shared'[b][m] = mk[m]
        /\ \A o \in MemoryThreads, d \in Buffers :
              o # m \/ d # b => v_shared'[d][o] = v_shared[d][o]
    BY <1>1 DEF PipeInv, PipeTypeOK
  <2>1. CASE n # m
    BY <1>2, <2>0, <2>1 DEF PipeInv, Contents
  <2>2. CASE n = m /\ c # b
    <3>1. Rounds(c, mk'[m]) = Rounds(c, mk[m])
      BY <1>2, <2>2
    <3> QED
      BY <2>0, <2>2, <3>1 DEF PipeInv, Contents
  <2>3. CASE n = m /\ c = b
    <3>1. ChunkOf(b, Rounds(b, mk'[m])) = mk[m]
      BY <1>1, <1>2, RoundsFacts
    <3>2. k_shared[b][m] = mk[m]
      BY <1>1 DEF PipeInv, Contents
    <3> QED
      BY <2>0, <2>3, <3>1, <3>2
  <2> QED
    BY <2>1, <2>2, <2>3
<1> QED
  BY <1>5, <1>6, <1>7, <1>8, <1>9, <1>10 DEF PipeInv

(* Every step of a thread keeps the invariant.                             *)
LEMMA PipeInvNext == PipeInv /\ [PipeNext]_pipeVars => PipeInv'
<1> SUFFICES ASSUME PipeInv, [PipeNext]_pipeVars PROVE PipeInv'
  OBVIOUS
<1>1. CASE UNCHANGED pipeVars
  BY <1>1 DEF pipeVars, sharedVars, readyVars, doneVars, computeVars, memoryVars,
      PipeInv, PipeTypeOK, ReadyExact, DoneExact, ReadyAhead, DoneBehind, Contents
<1>2. ASSUME NEW t \in ComputeThreads, ComputeStep(t) PROVE PipeInv'
  BY <1>2, InvWaitScores, InvValues DEF ComputeStep
<1>3. ASSUME NEW m \in MemoryThreads, MemoryStep(m) PROVE PipeInv'
  BY <1>3, InvWaitCopyK, InvCopyV DEF MemoryStep
<1> QED
  BY <1>1, <1>2, <1>3 DEF PipeNext

(* What the invariant says of a thread that multiplies.                    *)
LEMMA PipeInvReads == PipeInv => ReadsItsChunk
<1> SUFFICES ASSUME PipeInv, NEW t \in ComputeThreads, NEW m \in MemoryThreads,
                    compute[t] # "wait"
             PROVE  /\ compute[t] = "scores" => k_shared[ck[t] % 2][m] = ck[t]
                    /\ v_shared[ck[t] % 2][m] = ck[t]
  BY DEF ReadsItsChunk, PipeInv, PipeTypeOK
<1> DEFINE b == ck[t] % 2
<1>1. /\ b \in Buffers /\ ck[t] \div 2 \in Nat /\ Rounds(b, ck[t]) = ck[t] \div 2
      /\ ChunkOf(b, ck[t] \div 2 + 1) = ck[t]
      /\ mk[m] % 2 \in Buffers /\ Rounds(mk[m] % 2, mk[m]) = mk[m] \div 2
      /\ \A c \in Buffers : Rounds(c, mk[m]) \in Nat
      /\ kv_ready[b] \in Nat /\ compute_done[b] \in Nat
  BY RoundsFacts DEF PipeInv, PipeTypeOK
<1>2. kv_ready[b] = ck[t] \div 2 + 1
  BY DEF PipeInv, ReadyAhead
<1>3. compute_done[b] <= ck[t] \div 2
  BY <1>1 DEF PipeInv, DoneExact
<1>4. Rounds(b, mk[m]) = ck[t] \div 2 + 1
  BY <1>1, <1>2, <1>3 DEF PipeInv, ReadyExact, DoneBehind
<1>5. ~ (memory[m] = "copy_v" /\ mk[m] % 2 = b)
  BY <1>1, <1>3, <1>4 DEF PipeInv, DoneBehind
<1> QED
  BY <1>1, <1>4, <1>5 DEF PipeInv, Contents

(* The invariant of the two buffers.                                       *)
THEOREM PipeInvariant == PipeSpec => []PipeInv
<1> QED
  BY PipeInvInit, PipeInvNext, PTL DEF PipeSpec

(* No compute thread of gqa_decode_paged_ws or flashattn_ws reads a chunk  *)
(* that is not its own or half overwritten, however many threads and       *)
(* chunks there are: two barriers per buffer and a parity are enough.      *)
THEOREM PipeReadsItsChunk == PipeSpec => []ReadsItsChunk
<1> QED
  BY PipeInvariant, PipeInvReads, PTL

-----------------------------------------------------------------------------
(* The argmax.                                                             *)

Logits(n, bound) == [0 .. n - 1 -> -bound .. bound]

-----------------------------------------------------------------------------
LEMMA LeastElement ==
    ASSUME NEW T, T \subseteq Nat, T # {}
    PROVE  \E x \in T : \A y \in T : x <= y
<1> DEFINE R == OpToRel(<, Nat)
<1>1. IsWellFoundedOn(R, Nat)
  BY NatLessThanWellFounded
<1> HIDE DEF R
<1>2. PICK x \in T : \A y \in T : ~ (<<y, x>> \in R)
  BY <1>1, WFMin, Zenon
<1>3. \A y \in T : y < x => <<y, x>> \in R
  BY DEF OpToRel, R
<1> SUFFICES ASSUME NEW y \in T
             PROVE  x <= y
  OBVIOUS
<1>4. ~ (y < x)
  BY <1>2, <1>3, Zenon
<1> QED
  BY <1>4

(* The first index of the largest element exists.                          *)
LEMMA FirstMaxExists ==
    ASSUME NEW n \in Nat \ {0}, NEW bound \in Nat, NEW a \in Logits(n, bound)
    PROVE  /\ FirstMax(a) \in 0 .. n - 1
           /\ IsFirstMax(a, FirstMax(a))
<1> DEFINE Gaps == {bound - a[i] : i \in 0 .. n - 1}
<1>1. \A i \in 0 .. n - 1 : a[i] \in Int /\ bound - a[i] \in Nat
  BY DEF Logits
<1>2. Gaps \subseteq Nat /\ Gaps # {}
  <2>1. 0 \in 0 .. n - 1
    OBVIOUS
  <2> QED
    BY <1>1, <2>1
<1>3. PICK g \in Gaps : \A h \in Gaps : g <= h
  BY <1>2, LeastElement
<1> DEFINE Best == {i \in 0 .. n - 1 : bound - a[i] = g}
<1>4. Best \subseteq Nat /\ Best # {}
  BY <1>3
<1>5. PICK i \in Best : \A j \in Best : i <= j
  BY <1>4, LeastElement
<1>6. DOMAIN a = 0 .. n - 1
  BY DEF Logits
<1>7. IsFirstMax(a, i)
  <2> SUFFICES ASSUME NEW j \in 0 .. n - 1
               PROVE  a[j] <= a[i] /\ (a[j] = a[i] => i <= j)
    BY <1>5, <1>6 DEF IsFirstMax
  <2>1. bound - a[i] <= bound - a[j]
    BY <1>3, <1>5
  <2>2. a[j] = a[i] => i <= j
    BY <1>5
  <2> QED
    BY <1>1, <1>5, <2>1, <2>2
<1> QED
  BY <1>6, <1>7 DEF FirstMax, IsFirstMax

-----------------------------------------------------------------------------
(* An index is a shard and a place in it, and the shards are in order.     *)
LEMMA Divided ==
    ASSUME NEW n \in Nat \ {0}, NEW m \in Nat \ {0}, NEW j \in 0 .. n * m - 1
    PROVE  \E r \in 0 .. n - 1 : \E i \in 0 .. m - 1 : j = r * m + i
<1> DEFINE r == j \div m
           i == j % m
<1>1. r \in Int /\ i \in 0 .. m - 1 /\ j = r * m + i
  BY Z3
<1> HIDE DEF r, i
<1>2. 0 <= r
  <2> SUFFICES ASSUME r <= -1 PROVE FALSE
    BY <1>1
  <2>1. r * m <= -1 * m
    BY <1>1, Z3
  <2> QED
    BY <1>1, <2>1
<1>3. r < n
  <2> SUFFICES ASSUME n <= r PROVE FALSE
    BY <1>1
  <2>1. n * m <= r * m
    BY <1>1, Z3
  <2> QED
    BY <1>1, <2>1
<1> QED
  BY <1>1, <1>2, <1>3

LEMMA InOrder ==
    ASSUME NEW m \in Nat \ {0}, NEW r \in Nat, NEW q \in Nat, r < q,
           NEW i \in 0 .. m - 1, NEW j \in 0 .. m - 1
    PROVE  r * m + i < q * m + j
<1>1. (r + 1) * m <= q * m
  BY Z3
<1>2. (r + 1) * m = r * m + m
  BY Z3
<1> QED
  BY <1>1, <1>2

LEMMA InRange ==
    ASSUME NEW n \in Nat \ {0}, NEW m \in Nat \ {0}, NEW r \in 0 .. n - 1, NEW i \in 0 .. m - 1
    PROVE  r * m + i \in 0 .. n * m - 1
<1>1. r * m \in Nat
  BY Z3
<1>2. (r + 1) * m <= n * m
  BY Z3
<1>3. (r + 1) * m = r * m + m
  BY Z3
<1> QED
  BY <1>1, <1>2, <1>3

-----------------------------------------------------------------------------
(* There is one first maximum.                                             *)
LEMMA FirstMaxUnique ==
    ASSUME NEW n \in Nat \ {0}, NEW bound \in Nat, NEW a \in Logits(n, bound),
           NEW i, NEW j, IsFirstMax(a, i), IsFirstMax(a, j)
    PROVE  i = j
<1>1. DOMAIN a = 0 .. n - 1 /\ \A k \in 0 .. n - 1 : a[k] \in Int
  BY DEF Logits
<1>2. i \in 0 .. n - 1 /\ j \in 0 .. n - 1
  BY <1>1 DEF IsFirstMax
<1>3. a[i] <= a[j] /\ a[j] <= a[i]
  BY <1>1, <1>2 DEF IsFirstMax
<1>4. a[i] = a[j]
  BY <1>1, <1>2, <1>3
<1>5. i <= j /\ j <= i
  BY <1>1, <1>2, <1>4 DEF IsFirstMax
<1> QED
  BY <1>2, <1>5

OneFirstMax(a) == \A i, j : IsFirstMax(a, i) /\ IsFirstMax(a, j) => i = j
LEMMA FirstMaxIsOne ==
    ASSUME NEW n \in Nat \ {0}, NEW bound \in Nat, NEW a \in Logits(n, bound)
    PROVE  OneFirstMax(a)
  BY FirstMaxUnique DEF OneFirstMax

(* place[r] is the first maximum of part r, and best the first part whose  *)
(* maximum is the largest.                                                 *)
PlacesAreFirst(a, n, m, place) ==
    \A r \in 0 .. n - 1 : IsFirstMax(ShardOf(a, r, m), place[r])
BestIsFirst(a, n, m, place, best) ==
    \A r \in 0 .. n - 1 :
        /\ a[r * m + place[r]] <= a[best * m + place[best]]
        /\ a[r * m + place[r]] = a[best * m + place[best]] => best <= r

(* The first maximum of the first part with the largest maximum is the     *)
(* first maximum of the whole.                                             *)
LEMMA TwoLevels ==
    ASSUME NEW n \in Nat \ {0}, NEW m \in Nat \ {0}, NEW bound \in Nat,
           NEW a \in Logits(n * m, bound),
           NEW place \in [0 .. n - 1 -> 0 .. m - 1], NEW best \in 0 .. n - 1,
           PlacesAreFirst(a, n, m, place), BestIsFirst(a, n, m, place, best)
    PROVE  IsFirstMax(a, best * m + place[best])
<1> DEFINE first(r) == r * m + place[r]
<1>1. n * m \in Nat
  BY Z3
<1>2. DOMAIN a = 0 .. n * m - 1 /\ \A k \in 0 .. n * m - 1 : a[k] \in Int
  BY <1>1 DEF Logits
<1>3. \A r \in 0 .. n - 1 : first(r) \in 0 .. n * m - 1
  BY InRange
<1>4. \A r \in 0 .. n - 1 : \A i \in 0 .. m - 1 :
         a[r * m + i] <= a[first(r)] /\ (a[r * m + i] = a[first(r)] => place[r] <= i)
  BY DEF PlacesAreFirst, IsFirstMax, ShardOf
<1>5. \A r \in 0 .. n - 1 :
         a[first(r)] <= a[first(best)] /\ (a[first(r)] = a[first(best)] => best <= r)
  BY DEF BestIsFirst
<1>6. \A r \in 0 .. n - 1 : \A i \in 0 .. m - 1 : best < r => first(best) < r * m + i
  <2> SUFFICES ASSUME NEW r \in 0 .. n - 1, NEW i \in 0 .. m - 1, best < r
               PROVE  best * m + place[best] < r * m + i
    OBVIOUS
  <2>1. best \in Nat /\ r \in Nat /\ place[best] \in 0 .. m - 1
    OBVIOUS
  <2> QED
    BY <2>1, InOrder, Zenon
<1>7. \A i \in 0 .. m - 1 : place[best] <= i => first(best) <= best * m + i
  <2>1. best * m \in Int
    BY Z3
  <2> QED
    BY <2>1
<1> HIDE DEF first
<1>8. ASSUME NEW j \in 0 .. n * m - 1
      PROVE  a[j] <= a[first(best)] /\ (a[j] = a[first(best)] => first(best) <= j)
  <2>1. PICK r \in 0 .. n - 1, i \in 0 .. m - 1 : j = r * m + i
    BY Divided
  <2>2. a[j] <= a[first(r)] /\ (a[j] = a[first(r)] => place[r] <= i)
    <3>1. a[r * m + i] <= a[first(r)] /\ (a[r * m + i] = a[first(r)] => place[r] <= i)
      BY ONLY <1>4, <2>1
    <3> QED
      BY ONLY <2>1, <3>1
  <2>3. a[j] \in Int /\ a[first(r)] \in Int /\ a[first(best)] \in Int
    BY <1>2, <1>3
  <2> DEFINE x == a[j]
             y == a[first(r)]
             z == a[first(best)]
  <2>4. x \in Int /\ y \in Int /\ z \in Int
        /\ x <= y /\ (x = y => place[r] <= i) /\ y <= z /\ (y = z => best <= r)
    <3>1. a[first(r)] <= a[first(best)] /\ (a[first(r)] = a[first(best)] => best <= r)
      BY ONLY <1>5
    <3> QED
      BY ONLY <2>2, <2>3, <3>1
  <2> HIDE DEF x, y, z
  <2>5. x <= z
    BY ONLY <2>4
  <2>6. ASSUME x = z
        PROVE  first(best) <= j
    <3>1. best <= r /\ place[r] <= i
      BY ONLY <2>4, <2>6
    <3>2. CASE best = r
      <4>1. place[best] <= i /\ j = best * m + i
        BY <2>1, <3>1, <3>2
      <4> QED
        BY ONLY <1>7, <2>1, <4>1
    <3>3. CASE best < r
      <4>1. first(best) < j
        BY <1>6, <2>1, <3>3
      <4> QED
        BY <1>3, <4>1
    <3> QED
      BY <3>1, <3>2, <3>3
  <2> QED
    BY <2>5, <2>6 DEF x, z
<1>9. IsFirstMax(a, first(best))
  BY <1>2, <1>3, <1>8 DEF IsFirstMax
<1> QED
  BY <1>9 DEF first

-----------------------------------------------------------------------------
LEMMA ShardIsLogits ==
    ASSUME NEW n \in Nat \ {0}, NEW m \in Nat \ {0}, NEW bound \in Nat,
           NEW a \in Logits(n * m, bound), NEW r \in 0 .. n - 1
    PROVE  ShardOf(a, r, m) \in Logits(m, bound)
<1>1. \A i \in 0 .. m - 1 : r * m + i \in 0 .. n * m - 1
  BY InRange
<1> QED
  BY <1>1 DEF ShardOf, Logits

(* What the ranks choose from the maxima of their shards is the first      *)
(* largest logit of the whole vocabulary (tp_distributed_argmax).          *)
THEOREM DistributedArgmax ==
    ASSUME NEW n \in Nat \ {0}, NEW shard \in Nat \ {0}, NEW bound \in Nat,
           NEW a \in Logits(n * shard, bound)
    PROVE  IsFirstMax(a, tp_distributed_argmax(
               [r \in 0 .. n - 1 |-> LocalMax(ShardOf(a, r, shard))], shard))
<1> DEFINE all == [r \in 0 .. n - 1 |-> LocalMax(ShardOf(a, r, shard))]
           place == [r \in 0 .. n - 1 |-> FirstMax(ShardOf(a, r, shard))]
           maxima == [r \in 0 .. n - 1 |-> all[r].max]
           best == FirstMax(maxima)
<1>1. \A r \in 0 .. n - 1 : /\ place[r] \in 0 .. shard - 1
                            /\ IsFirstMax(ShardOf(a, r, shard), place[r])
  BY ShardIsLogits, FirstMaxExists
<1>2. \A r \in 0 .. n - 1 : maxima[r] = a[r * shard + place[r]] /\ all[r].idx = place[r]
  BY <1>1 DEF LocalMax, ShardOf
<1>3. maxima \in Logits(n, bound)
  <2>1. \A r \in 0 .. n - 1 : r * shard + place[r] \in 0 .. n * shard - 1
    BY <1>1, InRange
  <2> QED
    BY <1>2, <2>1 DEF Logits
<1> HIDE DEF place, maxima
<1>4. best \in 0 .. n - 1 /\ IsFirstMax(maxima, best)
  BY <1>3, FirstMaxExists
<1>5. \A r \in 0 .. n - 1 : maxima[r] <= maxima[best] /\ (maxima[r] = maxima[best] => best <= r)
  BY <1>3, <1>4 DEF IsFirstMax, Logits
<1>6. place \in [0 .. n - 1 -> 0 .. shard - 1]
  BY <1>1 DEF place
<1> HIDE DEF best
<1>7. IsFirstMax(a, best * shard + place[best])
  <2>1. PlacesAreFirst(a, n, shard, place)
    BY <1>1 DEF PlacesAreFirst
  <2>2. BestIsFirst(a, n, shard, place, best)
    BY <1>2, <1>4, <1>5 DEF BestIsFirst
  <2> QED
    BY <1>4, <1>6, <2>1, <2>2, TwoLevels
<1>8. BestRank(all) = best
  BY DEF BestRank, best, maxima
<1>9. place[best] \in Int /\ best * shard \in Int
  BY <1>4, <1>6, Z3
<1>10. tp_distributed_argmax(all, shard) = best * shard + place[best]
  <2>1. all[best].idx = place[best]
    BY <1>2, <1>4
  <2>2. tp_distributed_argmax(all, shard) = all[best].idx + best * shard
    BY <1>8 DEF tp_distributed_argmax
  <2>3. PICK p, t \in Int : p = place[best] /\ t = best * shard
    BY <1>9
  <2> QED
    BY <2>1, <2>2, <2>3
<1> QED
  BY <1>7, <1>10

-----------------------------------------------------------------------------
LEMMA IntervalSize ==
    ASSUME NEW n \in Nat \ {0}
    PROVE  Cardinality(0 .. n - 1) = n
<1>1. 0 \in Int /\ n - 1 \in Int /\ ~ (0 > n - 1)
  OBVIOUS
<1>2. Cardinality(0 .. n - 1) = n - 1 - 0 + 1
  BY <1>1, FS_Interval
<1> QED
  BY <1>2

(* The fused LM head, on a weight that fills its blocks, finds what a      *)
(* maximum over all the logits finds: ranks that use it send each other    *)
(* the same as ranks that do not (fused_lm_head_argmax_with_max).          *)
THEOREM FusedArgmaxIsArgmax ==
    ASSUME NEW n \in Nat \ {0}, NEW block_N \in Nat \ {0}, NEW bound \in Nat,
           NEW a \in Logits(n * block_N, bound)
    PROVE  fused_lm_head_argmax_with_max(a, block_N) = LocalMax(a)
<1> DEFINE p == PartialMax(a, block_N)
           place == [b \in 0 .. n - 1 |-> FirstMax(ShardOf(a, b, block_N))]
           at(b) == b * block_N + place[b]
           maxima == [b \in 0 .. n - 1 |-> a[at(b)]]
           best == FirstMax(maxima)
<1>1. n * block_N \in Nat \ {0}
  BY Z3
<1>2. DOMAIN a = 0 .. n * block_N - 1
  BY DEF Logits
<1>3. num_N_blocks(Cardinality(DOMAIN a), block_N) = n
  <2>1. Cardinality(DOMAIN a) = n * block_N
    BY <1>1, <1>2, IntervalSize, Zenon
  <2>2. (n * block_N + block_N - 1) \div block_N = n
    BY Z3
  <2> QED
    BY <2>1, <2>2 DEF num_N_blocks
<1>4. \A b \in 0 .. n - 1 : BlockOf(a, b, block_N) = ShardOf(a, b, block_N)
  BY <1>2, InRange DEF BlockOf, ShardOf
<1>5. \A b \in 0 .. n - 1 : /\ place[b] \in 0 .. block_N - 1
                            /\ IsFirstMax(ShardOf(a, b, block_N), place[b])
  BY ShardIsLogits, FirstMaxExists
<1>6. \A b \in 0 .. n - 1 : at(b) \in 0 .. n * block_N - 1 /\ maxima[b] \in -bound .. bound
  BY <1>5, InRange DEF Logits
<1>7. p = [b \in 0 .. n - 1 |-> [max |-> maxima[b], idx |-> at(b)]]
  <2>1. \A b \in 0 .. n - 1 :
           LocalMax(BlockOf(a, b, block_N)) = [max |-> maxima[b], idx |-> place[b]]
    <3> SUFFICES ASSUME NEW b \in 0 .. n - 1
                 PROVE  LocalMax(ShardOf(a, b, block_N)) = [max |-> maxima[b], idx |-> place[b]]
      BY <1>4
    <3>1. ShardOf(a, b, block_N)[place[b]] = maxima[b]
      <4>1. place[b] \in 0 .. block_N - 1
        BY <1>5
      <4> HIDE DEF place
      <4> QED
        BY <4>1 DEF ShardOf
    <3> QED
      BY <3>1 DEF LocalMax
  <2> HIDE DEF place, maxima
  <2>2. \A b \in 0 .. n - 1 : LET m == LocalMax(BlockOf(a, b, block_N))
                             IN  /\ m.max = maxima[b]
                                 /\ b * block_N + m.idx = at(b)
    BY <2>1
  <2> QED
    BY <1>3, <2>2 DEF PartialMax
<1>8. best \in 0 .. n - 1 /\ IsFirstMax(maxima, best)
  BY <1>6, FirstMaxExists DEF Logits
<1>9. place \in [0 .. n - 1 -> 0 .. block_N - 1]
  BY <1>5
<1>10. \A b \in 0 .. n - 1 : maxima[b] <= maxima[best] /\ (maxima[b] = maxima[best] => best <= b)
  BY <1>8 DEF IsFirstMax
<1>11. IsFirstMax(a, at(best))
  <2>1. PlacesAreFirst(a, n, block_N, place)
    BY <1>5 DEF PlacesAreFirst
  <2>2. BestIsFirst(a, n, block_N, place, best)
    BY <1>8, <1>10 DEF BestIsFirst
  <2> QED
    BY <1>8, <1>9, <2>1, <2>2, TwoLevels
<1>12. FirstMax(a) = at(best)
  <2> DEFINE k == n * block_N
  <2>1. k \in Nat \ {0} /\ a \in Logits(k, bound)
    BY <1>1
  <2> HIDE DEF k, at
  <2>2. IsFirstMax(a, FirstMax(a))
    BY ONLY <2>1, bound \in Nat, FirstMaxExists, Zenon
  <2>3. OneFirstMax(a)
    BY ONLY <2>1, bound \in Nat, FirstMaxIsOne
  <2> QED
    BY ONLY <1>11, <2>2, <2>3, Zenon DEF OneFirstMax
<1>13. ASSUME NEW b \in 0 .. n - 1, maxima[b] = maxima[best]
       PROVE  at(best) <= at(b)
  <2>1. a[at(b)] = a[at(best)] /\ at(b) \in DOMAIN a
    BY <1>2, <1>6, <1>8, <1>13
  <2> HIDE DEF at, maxima, best
  <2> QED
    BY ONLY <1>11, <2>1, Zenon DEF IsFirstMax
<1> HIDE DEF p, at, maxima, best, place
<1>14. GlobalMax(p) = maxima[best]
  <2> DEFINE values == {p[b].max : b \in DOMAIN p}
             largest(v) == \A b \in DOMAIN p : p[b].max <= v
  <2>1. DOMAIN p = 0 .. n - 1 /\ \A b \in 0 .. n - 1 : p[b].max = maxima[b]
    BY <1>7
  <2>2. maxima[best] \in values /\ largest(maxima[best])
    BY <1>8, <1>10, <2>1
  <2>3. ASSUME NEW v \in values, largest(v)
        PROVE  v = maxima[best]
    <3>1. PICK b \in 0 .. n - 1 : v = maxima[b]
      BY <2>1
    <3>2. maxima[best] <= maxima[b] /\ maxima[b] <= maxima[best]
      BY <1>8, <1>10, <2>1, <2>3, <3>1
    <3> QED
      BY <1>6, <1>8, <3>1, <3>2
  <2> HIDE DEF values
  <2>4. (CHOOSE v \in values : largest(v)) = maxima[best]
    BY <2>2, <2>3
  <2> QED
    BY <2>4 DEF GlobalMax, values
<1>15. ArgmaxReduce(p) = [max |-> maxima[best], idx |-> at(best)]
  <2> DEFINE winners == {p[b].idx : b \in {c \in DOMAIN p : p[c].max = GlobalMax(p)}}
             least(i) == \A j \in winners : i <= j
  <2>1. /\ DOMAIN p = 0 .. n - 1
        /\ \A b \in 0 .. n - 1 : p[b].max = maxima[b] /\ p[b].idx = at(b)
    BY <1>7
  <2>2. winners = {at(b) : b \in {c \in 0 .. n - 1 : maxima[c] = maxima[best]}}
    BY <1>14, <2>1
  <2>3. winners \subseteq Int
    BY <1>1, <1>6, <2>2
  <2>4. at(best) \in winners /\ least(at(best))
    BY <1>8, <1>13, <2>2
  <2> HIDE DEF winners
  <2>5. \A i \in winners : least(i) => i = at(best)
    <3> SUFFICES ASSUME NEW i \in winners, least(i)
                 PROVE  i = at(best)
      OBVIOUS
    <3>1. i \in Int /\ at(best) \in Int
      BY <2>3, <2>4
    <3>2. i <= at(best) /\ at(best) <= i
      BY <2>4
    <3> QED
      BY <3>1, <3>2
  <2>6. (CHOOSE i \in winners : least(i)) = at(best)
    BY <2>4, <2>5
  <2> QED
    BY <1>14, <2>6 DEF ArgmaxReduce, winners
<1>16. LocalMax(a) = [max |-> maxima[best], idx |-> at(best)]
  BY <1>8, <1>12 DEF LocalMax, maxima
<1> QED
  BY <1>15, <1>16 DEF fused_lm_head_argmax_with_max, p

-----------------------------------------------------------------------------
(* The choice of tokens.                                                   *)

(* What holds of 0 and is kept by a step of one holds of N.                *)
LEMMA Stepwise ==
    ASSUME NEW N \in Nat, NEW T, 0 \in T, \A n \in 1 .. N : n - 1 \in T => n \in T
    PROVE  N \in T
<1> DEFINE Bad == {n \in 0 .. N : n \notin T}
<1> SUFFICES ASSUME Bad # {}
             PROVE  FALSE
  OBVIOUS
<1>1. Bad \subseteq Nat
  OBVIOUS
<1>2. PICK n \in Bad : \A k \in Bad : n <= k
  BY <1>1, LeastElement
<1>3. n \in 1 .. N /\ n - 1 \in 0 .. N
  BY <1>2
<1>4. n - 1 \notin Bad
  BY <1>2, <1>3
<1> QED
  BY <1>2, <1>3, <1>4

(* A finite array of integers has a bound. *)
LEMMA Bounded ==
    ASSUME NEW n \in Nat \ {0}, NEW a \in [0 .. n - 1 -> Int]
    PROVE  \E bound \in Nat : a \in Logits(n, bound)
<1> DEFINE Within(m, b) == \A i \in 0 .. m - 1 : -b <= a[i] /\ a[i] <= b
           T == {m \in 0 .. n : \E b \in Nat : Within(m, b)}
<1>1. 0 \in T
  OBVIOUS
<1>2. \A m \in 1 .. n : m - 1 \in T => m \in T
  <2> SUFFICES ASSUME NEW m \in 1 .. n, m - 1 \in T
               PROVE  m \in T
    OBVIOUS
  <2>1. PICK b \in Nat : Within(m - 1, b)
    OBVIOUS
  <2>2. PICK v \in Int : v = a[m - 1]
    OBVIOUS
  <2> DEFINE c == IF v < 0 THEN b - v ELSE b + v
  <2>3. c \in Nat /\ b <= c /\ -c <= v /\ v <= c
    BY <2>2
  <2> HIDE DEF c
  <2>4. Within(m, c)
    <3> SUFFICES ASSUME NEW i \in 0 .. m - 1
                 PROVE  -c <= a[i] /\ a[i] <= c
      OBVIOUS
    <3>1. CASE i = m - 1
      BY <2>2, <2>3, <3>1
    <3>2. CASE i \in 0 .. m - 2
      BY <2>1, <2>3, <3>2
    <3> QED
      BY <3>1, <3>2
  <2> QED
    BY <2>3, <2>4
<1> HIDE DEF T
<1>3. n \in T
  BY <1>1, <1>2, Stepwise, Zenon
<1>4. PICK b \in Nat : Within(n, b)
  BY <1>3 DEF T
<1>5. \A i \in 0 .. n - 1 : a[i] \in -b .. b
  BY <1>4
<1> QED
  BY <1>5 DEF Logits

(* The first largest logit, with no bound to name.                         *)
LEMMA FirstMaxOfInts ==
    ASSUME NEW n \in Nat \ {0}, NEW a \in [0 .. n - 1 -> Int]
    PROVE  /\ FirstMax(a) \in 0 .. n - 1
           /\ IsFirstMax(a, FirstMax(a))
           /\ \A i : IsFirstMax(a, i) => i = FirstMax(a)
<1>1. PICK bound \in Nat : a \in Logits(n, bound)
  BY Bounded
<1>2. FirstMax(a) \in 0 .. n - 1 /\ IsFirstMax(a, FirstMax(a))
  BY <1>1, FirstMaxExists, Zenon
<1>3. ASSUME NEW i, IsFirstMax(a, i)
      PROVE  i = FirstMax(a)
  BY <1>1, <1>2, <1>3, FirstMaxUnique, Zenon
<1> QED
  BY <1>2, <1>3

(* A finite number of steps from a can be taken.                           *)
Iterable(N, A, a, F) ==
    \E g \in [0 .. N -> A] : g[0] = a /\ \A n \in 1 .. N : g[n] = F[n][g[n - 1]]
LEMMA Iterates ==
    ASSUME NEW N \in Nat, NEW A, NEW a \in A, NEW F \in [1 .. N -> [A -> A]]
    PROVE  Iterable(N, A, a, F)
<1> DEFINE Walk(m, g) == g[0] = a /\ \A n \in 1 .. m : g[n] = F[n][g[n - 1]]
           T == {m \in 0 .. N : \E g \in [0 .. m -> A] : Walk(m, g)}
<1>1. 0 \in T
  <2> DEFINE h == [k \in 0 .. 0 |-> a]
  <2>1. h \in [0 .. 0 -> A] /\ Walk(0, h)
    OBVIOUS
  <2> HIDE DEF h
  <2>2. 0 \in 0 .. N /\ \E g \in [0 .. 0 -> A] : Walk(0, g)
    BY <2>1
  <2> QED
    BY <2>2
<1>2. \A m \in 1 .. N : m - 1 \in T => m \in T
  <2> SUFFICES ASSUME NEW m \in 1 .. N, m - 1 \in T
               PROVE  m \in T
    OBVIOUS
  <2>1. PICK g \in [0 .. m - 1 -> A] : Walk(m - 1, g)
    OBVIOUS
  <2> DEFINE h == [k \in 0 .. m |-> IF k = m THEN F[m][g[m - 1]] ELSE g[k]]
  <2>2. h \in [0 .. m -> A]
    <3>1. g[m - 1] \in A /\ F[m] \in [A -> A]
      OBVIOUS
    <3>2. \A k \in 0 .. m : k # m => g[k] \in A
      OBVIOUS
    <3> QED
      BY <3>1, <3>2
  <2>3. Walk(m, h)
    <3>1. h[0] = a
      BY <2>1
    <3>2. \A k \in 1 .. m : h[k] = F[k][h[k - 1]]
      <4> SUFFICES ASSUME NEW k \in 1 .. m
                   PROVE  h[k] = F[k][h[k - 1]]
        OBVIOUS
      <4>1. h[k - 1] = g[k - 1]
        OBVIOUS
      <4>2. CASE k = m
        BY <4>1, <4>2
      <4>3. CASE k \in 1 .. m - 1
        BY <2>1, <4>1, <4>3
      <4> QED
        BY <4>2, <4>3
    <3> QED
      BY <3>1, <3>2
  <2> HIDE DEF h
  <2> HIDE DEF Walk
  <2>4. m \in 0 .. N /\ \E k \in [0 .. m -> A] : Walk(m, k)
    <3>1. m \in 0 .. N
      OBVIOUS
    <3>2. \E k \in [0 .. m -> A] : Walk(m, k)
      BY ONLY <2>2, <2>3
    <3> QED
      BY <3>1, <3>2
  <2> QED
    BY <2>4
<1> HIDE DEF T
<1>3. N \in T
  BY <1>1, <1>2, Stepwise, Zenon
<1> QED
  BY <1>3 DEF T, Iterable

-----------------------------------------------------------------------------
(* The edits of an array of logits are those of its tokens.                *)
LEMMA PartTypes ==
    ASSUME NEW part \in ConstraintPart
    PROVE  /\ part.kind \in {"allow", "forbid", "bias"}
           /\ part.kind = "bias" => part.bias \in Int
BY DEF ConstraintPart

LEMMA AfterPartType ==
    ASSUME NEW v \in Int, NEW t, NEW part \in ConstraintPart
    PROVE  AfterPart(v, t, part) \in Int
BY PartTypes, SamplingAssumption DEF AfterPart

(* AfterParts takes the parts one by one.                                  *)
TakenInTurn(v, t, parts) ==
    \E w \in [0 .. Len(parts) -> Int] :
        /\ w[0] = v
        /\ \A n \in 1 .. Len(parts) : w[n] = AfterPart(w[n - 1], t, parts[n])
        /\ AfterParts(v, t, parts) = w[Len(parts)]
LEMMA AfterPartsFold ==
    ASSUME NEW v \in Int, NEW t, NEW parts \in Seq(ConstraintPart)
    PROVE  TakenInTurn(v, t, parts)
<1> DEFINE N == Len(parts)
           Eqn(w) == w = [n \in 0 .. N |-> IF n = 0 THEN v ELSE AfterPart(w[n - 1], t, parts[n])]
           W == CHOOSE w : Eqn(w)
           F == [n \in 1 .. N |-> [x \in Int |-> AfterPart(x, t, parts[n])]]
<1>1. N \in Nat /\ \A n \in 1 .. N : parts[n] \in ConstraintPart
  OBVIOUS
<1>2. F \in [1 .. N -> [Int -> Int]]
  BY <1>1, AfterPartType
<1>3. PICK g \in [0 .. N -> Int] : g[0] = v /\ \A n \in 1 .. N : g[n] = F[n][g[n - 1]]
  <2>1. N \in Nat
    BY <1>1
  <2> HIDE DEF F, N, Eqn, W
  <2>2. Iterable(N, Int, v, F)
    BY <1>2, <2>1, Iterates
  <2> QED
    BY <2>2, Zenon DEF Iterable
<1>4. \A n \in 1 .. N : g[n] = AfterPart(g[n - 1], t, parts[n])
  <2> SUFFICES ASSUME NEW n \in 1 .. N
               PROVE  g[n] = AfterPart(g[n - 1], t, parts[n])
    OBVIOUS
  <2>1. g[n - 1] \in Int
    BY <1>1
  <2> QED
    BY <1>3, <2>1
<1>5. Eqn(g)
  BY <1>1, <1>3, <1>4
<1>6. AfterParts(v, t, parts) = W[N]
  BY DEF AfterParts
<1>7. Eqn(W)
  <2> HIDE DEF Eqn
  <2> QED
    BY <1>5
<1> DEFINE T == {n \in 0 .. N : W[n] = g[n]}
<1> HIDE DEF W, F, N
<1>8. W[0] = v /\ \A n \in 1 .. N : W[n] = AfterPart(W[n - 1], t, parts[n])
  <2> SUFFICES ASSUME NEW n \in 0 .. N
               PROVE  W[n] = IF n = 0 THEN v ELSE AfterPart(W[n - 1], t, parts[n])
    BY <1>1
  <2> QED
    BY <1>7
<1>9. 0 \in T /\ \A n \in 1 .. N : n - 1 \in T => n \in T
  BY <1>1, <1>3, <1>4, <1>8
<1>10. N \in T
  <2> HIDE DEF T
  <2> QED
    BY <1>1, <1>9, Stepwise, Zenon
<1> QED
  BY <1>3, <1>4, <1>6, <1>10 DEF N, TakenInTurn

LEMMA ConstraintsPointwise ==
    ASSUME NEW m \in Nat \ {0}, NEW a \in [0 .. m - 1 -> Int], NEW off \in Int,
           NEW seq \in SamplingRequest
    PROVE  ApplyConstraints(a, off, seq) =
              [j \in 0 .. m - 1 |-> AfterParts(a[j], j + off, seq.constraint)]
<1> DEFINE parts == seq.constraint
           N == Len(parts)
           D == 0 .. m - 1
           A == [D -> Int]
           Eqn(w) == w = [n \in 0 .. N |-> IF n = 0 THEN a ELSE ApplyPart(w[n - 1], off, parts[n])]
           W == CHOOSE w : Eqn(w)
           F == [n \in 1 .. N |-> [x \in A |-> ApplyPart(x, off, parts[n])]]
<1>1. parts \in Seq(ConstraintPart)
  BY DEF SamplingRequest
<1>2. N \in Nat /\ \A n \in 1 .. N : parts[n] \in ConstraintPart
  BY <1>1
<1>3. ASSUME NEW x \in A, NEW n \in 1 .. N
      PROVE  /\ ApplyPart(x, off, parts[n]) \in A
             /\ \A j \in D : ApplyPart(x, off, parts[n])[j] = AfterPart(x[j], j + off, parts[n])
  <2>1. DOMAIN x = D /\ \A j \in D : x[j] \in Int
    OBVIOUS
  <2>2. PICK part \in ConstraintPart : part = parts[n]
    BY <1>2
  <2> HIDE DEF parts, D
  <2>3. ApplyPart(x, off, part) = [j \in D |-> AfterPart(x[j], j + off, part)]
    BY <2>1, <2>2, PartTypes DEF ApplyPart, AfterPart
  <2>4. \A j \in D : AfterPart(x[j], j + off, part) \in Int
    BY <2>1, AfterPartType
  <2> QED
    BY <2>2, <2>3, <2>4
<1>4. F \in [1 .. N -> [A -> A]]
  <2> HIDE DEF A, D, N, parts
  <2> QED
    BY <1>3
<1>5. PICK g \in [0 .. N -> A] : g[0] = a /\ \A n \in 1 .. N : g[n] = F[n][g[n - 1]]
  <2>1. a \in A
    OBVIOUS
  <2>2. N \in Nat
    BY <1>2
  <2> HIDE DEF F, N, A, Eqn, W
  <2>3. Iterable(N, A, a, F)
    BY <1>4, <2>1, <2>2, Iterates
  <2> QED
    BY <2>3, Zenon DEF Iterable
<1>6. \A n \in 1 .. N : g[n - 1] \in A /\ g[n] = ApplyPart(g[n - 1], off, parts[n])
  <2> SUFFICES ASSUME NEW n \in 1 .. N
               PROVE  g[n - 1] \in A /\ g[n] = ApplyPart(g[n - 1], off, parts[n])
    OBVIOUS
  <2> HIDE DEF A, parts
  <2>1. n - 1 \in 0 .. N
    BY <1>2
  <2>2. g[n - 1] \in A
    BY <2>1
  <2>3. g[n] = F[n][g[n - 1]]
    BY <1>5
  <2> QED
    BY <2>2, <2>3
<1>7. Eqn(g)
  <2> HIDE DEF A, parts, F
  <2>1. DOMAIN g = 0 .. N
    OBVIOUS
  <2> QED
    BY <1>2, <1>5, <1>6, <2>1
<1>8. ApplyConstraints(a, off, seq) = W[N]
  BY DEF ApplyConstraints
<1>9. Eqn(W)
  <2> HIDE DEF Eqn
  <2> QED
    BY <1>7
<1> DEFINE T == {n \in 0 .. N : W[n] = g[n]}
<1> HIDE DEF W, F, N, A, parts
<1>10. W[0] = a /\ \A n \in 1 .. N : W[n] = ApplyPart(W[n - 1], off, parts[n])
  <2> SUFFICES ASSUME NEW n \in 0 .. N
               PROVE  W[n] = IF n = 0 THEN a ELSE ApplyPart(W[n - 1], off, parts[n])
    BY <1>2
  <2> QED
    BY <1>9
<1>11. 0 \in T /\ \A n \in 1 .. N : n - 1 \in T => n \in T
  BY <1>2, <1>5, <1>6, <1>10
<1>12. N \in T
  <2> HIDE DEF T
  <2> QED
    BY <1>2, <1>11, Stepwise, Zenon
<1>13. g[N] \in A /\ ApplyConstraints(a, off, seq) = g[N]
  BY <1>2, <1>8, <1>12
<1>14. ASSUME NEW j \in D
       PROVE  g[N][j] = AfterParts(a[j], j + off, parts)
  <2>1. a[j] \in Int
    OBVIOUS
  <2>2. PICK w \in [0 .. Len(parts) -> Int] :
              /\ w[0] = a[j]
              /\ \A n \in 1 .. Len(parts) : w[n] = AfterPart(w[n - 1], j + off, parts[n])
              /\ AfterParts(a[j], j + off, parts) = w[Len(parts)]
    <3> HIDE DEF D, Eqn
    <3>1. TakenInTurn(a[j], j + off, parts)
      BY <1>1, <2>1, AfterPartsFold
    <3> QED
      BY <3>1, Zenon DEF TakenInTurn
  <2> DEFINE U == {n \in 0 .. N : g[n][j] = w[n]}
  <2>3. 0 \in U
    BY <1>2, <1>5, <2>2
  <2>4. \A n \in 1 .. N : n - 1 \in U => n \in U
    <3> SUFFICES ASSUME NEW n \in 1 .. N, n - 1 \in U
                 PROVE  n \in U
      OBVIOUS
    <3>1. g[n][j] = AfterPart(g[n - 1][j], j + off, parts[n])
      <4>1. g[n - 1] \in A /\ g[n] = ApplyPart(g[n - 1], off, parts[n])
        BY <1>6
      <4> HIDE DEF D
      <4> QED
        BY <1>3, <4>1
    <3>2. w[n] = AfterPart(w[n - 1], j + off, parts[n])
      BY <2>2 DEF N
    <3> QED
      BY <1>2, <3>1, <3>2
  <2>5. N \in U
    <3> HIDE DEF U
    <3> QED
      BY <1>2, <2>3, <2>4, Stepwise, Zenon
  <2> QED
    BY <2>2, <2>5 DEF N
<1>15. g[N] = [j \in D |-> g[N][j]]
  BY <1>13 DEF A
<1> QED
  BY <1>13, <1>14, <1>15 DEF parts

LEMMA AfterPenaltyType ==
    ASSUME NEW v \in Int, NEW t, NEW seq \in SamplingRequest
    PROVE  AfterPenalty(v, t, seq) \in Int
<1>1. seq.repetition_penalty \in Nat \ {0}
  BY DEF SamplingRequest
<1>2. \A p \in Nat \ {0} : v \div p \in Int /\ v * p \in Int
  BY Z3
<1> QED
  BY <1>1, <1>2 DEF AfterPenalty

PenalisedEach(a, r, m, seq) ==
    ApplyRepetitionPenalty(a, r, seq) =
        [j \in 0 .. m - 1 |-> AfterPenalty(a[j], j + PenaltyOffset(r, m), seq)]
LEMMA PenaltyPointwise ==
    ASSUME NEW m \in Nat \ {0}, NEW a \in [0 .. m - 1 -> Int], NEW r,
           PenaltyOffset(r, m) \in Int, NEW seq \in SamplingRequest
    PROVE  PenalisedEach(a, r, m, seq)
<1> DEFINE off == PenaltyOffset(r, m)
           local == {t - off : t \in {u \in seq.appeared : 0 <= u - off /\ u - off < m}}
<1>1. Length(a) = m
  BY IntervalSize DEF Length
<1>2. seq.appeared \subseteq Int /\ off \in Int
  BY SamplingAssumption DEF SamplingRequest, Tokens
<1>3. ASSUME NEW j \in 0 .. m - 1
      PROVE  j \in local <=> j + off \in seq.appeared
  <2> HIDE DEF off
  <2>1. ASSUME j \in local PROVE j + off \in seq.appeared
    <3>1. PICK t \in seq.appeared : j = t - off
      BY ONLY <2>1
    <3>2. j + off = t
      BY ONLY <1>2, <3>1
    <3> QED
      BY ONLY <3>1, <3>2
  <2>2. ASSUME j + off \in seq.appeared PROVE j \in local
    <3>1. (j + off) - off = j
      BY <1>2
    <3> QED
      BY <1>2, <2>2, <3>1
  <2> QED
    BY <2>1, <2>2
<1> HIDE DEF local
<1>4. ApplyRepetitionPenalty(a, r, seq) =
         [j \in 0 .. m - 1 |-> IF j \in local THEN Penalise(a[j], seq.repetition_penalty) ELSE a[j]]
  BY <1>1 DEF ApplyRepetitionPenalty, local
<1> QED
  BY <1>3, <1>4 DEF AfterPenalty, Penalise, PenalisedEach

-----------------------------------------------------------------------------
(* A pass on its ranks.                                                    *)
Prepared == tp_size \in TpSizes /\ \E b \in Batches : pass = b.pass /\ lm_head \in b.logits

LEMMA Quotient ==
    ASSUME NEW v \in Nat \ {0}, NEW n \in Nat \ {0}, v % n = 0
    PROVE  v \div n \in Nat \ {0} /\ n * (v \div n) = v
<1>1. v \div n \in Int /\ v % n \in Int /\ v = n * (v \div n) + (v % n)
  BY Z3
<1>2. n * (v \div n) = v
  <2>1. PICK k, l, p \in Int : k = v \div n /\ l = v % n /\ p = n * (v \div n)
    BY <1>1, Z3
  <2> QED
    BY <1>1, <2>1
<1>3. v \div n > 0
  <2> DEFINE k == v \div n
  <2>1. k \in Int /\ n * k = v
    BY <1>1, <1>2
  <2> HIDE DEF k
  <2>2. k <= 0 => n * k <= 0
    BY <2>1, Z3
  <2>3. ~ (k <= 0)
    BY <2>1, <2>2
  <2>4. k > 0
    BY <2>1, <2>3
  <2> QED
    BY <2>4 DEF k
<1> QED
  BY <1>1, <1>2, <1>3

LEMMA ShardFacts ==
    ASSUME Prepared
    PROVE  /\ tp_size \in Nat \ {0} /\ vocab_shard \in Nat \ {0}
           /\ tp_size * vocab_shard = VocabSize /\ VocabSize \in Nat \ {0}
           /\ 0 \in TpRanks
<1>1. VocabSize \in Nat \ {0} /\ tp_size \in Nat \ {0} /\ VocabSize % tp_size = 0
  BY SamplingAssumption DEF Prepared
<1>2. VocabSize \div tp_size \in Nat \ {0} /\ tp_size * (VocabSize \div tp_size) = VocabSize
  BY <1>1, Quotient, Zenon
<1> QED
  BY <1>1, <1>2 DEF vocab_shard, TpRanks

LEMMA RowFacts ==
    ASSUME Prepared
    PROVE  /\ pass \in SamplingPass /\ seqs \in Seq(SamplingRequest) /\ Len(seqs) \in Nat \ {0}
           /\ Rows = 1 .. Len(seqs) /\ 1 \in Rows
           /\ pass.is_prefill => Rows = {1}
           /\ \A i \in Rows : seqs[i] \in SamplingRequest /\ lm_head[i] \in [Tokens -> Int]
<1>1. PICK b \in Batches : pass = b.pass /\ lm_head \in b.logits
  BY DEF Prepared
<1>2. /\ pass \in SamplingPass /\ pass.seqs # <<>>
      /\ pass.is_prefill => Len(pass.seqs) = 1
      /\ lm_head \in [DOMAIN pass.seqs -> [Tokens -> Int]]
  BY <1>1, SamplingAssumption
<1>3. seqs \in Seq(SamplingRequest) /\ seqs # <<>>
  BY <1>2 DEF SamplingPass, seqs
<1>4. Len(seqs) \in Nat \ {0} /\ Rows = 1 .. Len(seqs)
  BY <1>3 DEF Rows
<1>5. \A i \in Rows : seqs[i] \in SamplingRequest
  BY <1>3, <1>4
<1>6. \A i \in Rows : lm_head[i] \in [Tokens -> Int]
  BY <1>2 DEF Rows, seqs
<1>7. pass.is_prefill => Rows = {1}
  <2>1. pass.is_prefill => Len(seqs) = 1
    BY <1>2 DEF seqs
  <2>2. 1 .. 1 = {1}
    OBVIOUS
  <2> QED
    BY <1>4, <2>1, <2>2
<1> QED
  BY <1>2, <1>3, <1>4, <1>5, <1>6, <1>7

LEMMA WantedType ==
    ASSUME Prepared, NEW i \in Rows
    PROVE  Wanted(i) \in [Tokens -> Int]
<1>1. seqs[i] \in SamplingRequest /\ lm_head[i] \in [Tokens -> Int]
  BY RowFacts
<1>2. seqs[i].constraint \in Seq(ConstraintPart)
  BY <1>1 DEF SamplingRequest
<1>3. ASSUME NEW v \in Int, NEW t
      PROVE  AfterParts(v, t, seqs[i].constraint) \in Int
  <2>1. TakenInTurn(v, t, seqs[i].constraint)
    BY <1>2, AfterPartsFold
  <2>2. Len(seqs[i].constraint) \in 0 .. Len(seqs[i].constraint)
    BY <1>2
  <2> QED
    BY <2>1, <2>2 DEF TakenInTurn
<1>4. \A t \in Tokens : AfterPenalty(lm_head[i][t], t, seqs[i]) \in Int
  BY <1>1, AfterPenaltyType
<1> QED
  BY <1>3, <1>4 DEF Wanted

LEMMA FirstWanted ==
    ASSUME Prepared, NEW i \in Rows
    PROVE  /\ FirstMax(Wanted(i)) \in Tokens
           /\ IsFirstMax(Wanted(i), FirstMax(Wanted(i)))
           /\ \A t : IsFirstMax(Wanted(i), t) => t = FirstMax(Wanted(i))
<1>1. VocabSize \in Nat \ {0} /\ Wanted(i) \in [0 .. VocabSize - 1 -> Int]
  BY ShardFacts, WantedType DEF Tokens
<1>2. PICK w \in [0 .. VocabSize - 1 -> Int] : w = Wanted(i)
  BY <1>1
<1> QED
  BY <1>1, <1>2, FirstMaxOfInts DEF Tokens

(* A logit that nothing edits.                                             *)
LEMMA UnpenalisedStays ==
    ASSUME NEW v \in Int, NEW t, NEW seq \in SamplingRequest, ~ Penalised(seq)
    PROVE  AfterPenalty(v, t, seq) = v
<1>1. seq.repetition_penalty = 1
  BY DEF SamplingRequest, Penalised
<1>2. v \div 1 = v /\ v * 1 = v
  BY Z3
<1> QED
  BY <1>1, <1>2 DEF AfterPenalty

LEMMA NothingWanted ==
    ASSUME Prepared, NEW i \in Rows, ~ Penalised(seqs[i]), seqs[i].constraint = <<>>
    PROVE  Wanted(i) = lm_head[i]
<1>1. seqs[i] \in SamplingRequest /\ lm_head[i] \in [Tokens -> Int]
  BY RowFacts
<1>2. ASSUME NEW v \in Int, NEW t
      PROVE  AfterParts(v, t, <<>>) = v
  <2>0. <<>> \in Seq(ConstraintPart)
    OBVIOUS
  <2>1. TakenInTurn(v, t, <<>>)
    BY <2>0, AfterPartsFold, Zenon
  <2>2. Len(<<>>) = 0
    OBVIOUS
  <2> QED
    BY <2>1, <2>2 DEF TakenInTurn
<1>3. \A t \in Tokens : AfterPenalty(lm_head[i][t], t, seqs[i]) = lm_head[i][t]
  BY <1>1, UnpenalisedStays
<1>4. \A t \in Tokens : lm_head[i][t] \in Int
  BY <1>1
<1>5. Wanted(i) = [t \in Tokens |-> lm_head[i][t]]
  BY <1>2, <1>3, <1>4 DEF Wanted
<1> QED
  BY <1>1, <1>5

-----------------------------------------------------------------------------
(* A shard that its rank edits is a shard of the edited vocabulary.        *)
LEMMA ShardType ==
    ASSUME Prepared, NEW a \in [Tokens -> Int], NEW r \in TpRanks
    PROVE  /\ ShardOf(a, r, vocab_shard) \in [0 .. vocab_shard - 1 -> Int]
           /\ \A j \in 0 .. vocab_shard - 1 : r * vocab_shard + j \in Tokens
<1>1. \A j \in 0 .. vocab_shard - 1 : r * vocab_shard + j \in 0 .. tp_size * vocab_shard - 1
  BY ShardFacts, InRange DEF TpRanks
<1>2. \A j \in 0 .. vocab_shard - 1 : r * vocab_shard + j \in Tokens
  BY <1>1, ShardFacts DEF Tokens
<1> QED
  BY <1>2 DEF ShardOf

LEMMA ShardEdits ==
    ASSUME Prepared, NEW r \in TpRanks, NEW i \in Rows
    PROVE  EditedShard(r, i) = ShardOf(Wanted(i), r, vocab_shard)
<1> DEFINE m == vocab_shard
           seq == seqs[i]
           a == ShardOf(lm_head[i], r, m)
           b == [j \in 0 .. m - 1 |-> AfterPenalty(a[j], j + r * m, seq)]
<1>1. m \in Nat \ {0} /\ tp_size \in Nat \ {0} /\ r \in Nat /\ r * m \in Int
  <2>1. m \in Nat \ {0} /\ tp_size \in Nat \ {0} /\ r \in Nat
    BY ShardFacts DEF TpRanks
  <2> HIDE DEF m
  <2> QED
    BY <2>1, Z3
<1>2. seq \in SamplingRequest /\ lm_head[i] \in [Tokens -> Int]
  BY RowFacts
<1>3. a \in [0 .. m - 1 -> Int] /\ \A j \in 0 .. m - 1 : r * m + j \in Tokens
  BY <1>2, ShardType
<1>4. \A j \in 0 .. m - 1 : a[j] = lm_head[i][r * m + j]
  BY DEF ShardOf
<1>5. PenaltyOffset(r, m) = r * m
  <2>1. CASE tp_size > 1
    BY <2>1 DEF PenaltyOffset
  <2>2. CASE ~ (tp_size > 1)
    <3>1. r = 0
      BY <1>1, <2>2 DEF TpRanks
    <3>2. 0 * m = 0
      BY <1>1
    <3> QED
      BY <2>2, <3>1, <3>2 DEF PenaltyOffset
  <2> QED
    BY <2>1, <2>2
<1> HIDE DEF a, m, seq
<1>6. ApplyRepetitionPenalty(a, r, seq) = b
  <2>1. PenaltyOffset(r, m) \in Int
    BY <1>1, <1>5
  <2>2. m \in Nat \ {0} /\ a \in [0 .. m - 1 -> Int] /\ seq \in SamplingRequest
    BY <1>1, <1>2, <1>3
  <2>3. PenalisedEach(a, r, m, seq)
    BY <2>1, <2>2, PenaltyPointwise
  <2> QED
    BY <1>5, <2>3 DEF PenalisedEach
<1>7. b \in [0 .. m - 1 -> Int]
  <2>1. \A j \in 0 .. m - 1 : AfterPenalty(a[j], j + r * m, seq) \in Int
    BY <1>2, <1>3, AfterPenaltyType
  <2> QED
    BY <2>1
<1> DEFINE off == r * m
<1>8. b \in [0 .. m - 1 -> Int] /\ off \in Int
  BY <1>1, <1>7
<1> HIDE DEF b, off
<1>9. ApplyConstraints(b, off, seq) = [j \in 0 .. m - 1 |-> AfterParts(b[j], j + off, seq.constraint)]
  <2>1. m \in Nat \ {0} /\ seq \in SamplingRequest
    BY <1>1, <1>2
  <2> QED
    BY ONLY <1>8, <2>1, ConstraintsPointwise
<1>10. EditedShard(r, i) = [j \in 0 .. m - 1 |-> AfterParts(b[j], j + off, seq.constraint)]
  BY <1>6, <1>9 DEF EditedShard, a, m, seq, off
<1>11. ASSUME NEW j \in 0 .. m - 1
       PROVE  AfterParts(b[j], j + off, seq.constraint) = Wanted(i)[off + j]
  <2>1. j + off = off + j /\ off + j \in Tokens
    BY <1>1, <1>3, <1>8 DEF off
  <2>2. b[j] = AfterPenalty(lm_head[i][off + j], off + j, seq)
    BY <1>4, <2>1 DEF b, off
  <2> QED
    BY <2>1, <2>2 DEF Wanted, seq
<1>12. ShardOf(Wanted(i), r, vocab_shard) = [j \in 0 .. m - 1 |-> Wanted(i)[off + j]]
  BY DEF ShardOf, m, off
<1> QED
  BY <1>10, <1>11, <1>12

(* Rank 0 edits the gathered logits as the ranks edit their shards, and so *)
(* does every rank if no penalty is asked for.                             *)
LEMMA WholeEdits ==
    ASSUME Prepared, NEW r \in TpRanks, NEW i \in Rows, Gathered(i) = lm_head[i],
           r = 0 \/ ~ Penalised(seqs[i])
    PROVE  EditedWhole(r, i) = Wanted(i)
<1> DEFINE m == VocabSize
           seq == seqs[i]
           a == lm_head[i]
           b == [t \in 0 .. m - 1 |-> AfterPenalty(a[t], t, seq)]
<1>1. m \in Nat \ {0} /\ r \in Nat /\ r * m \in Int /\ Tokens = 0 .. m - 1
  <2>1. m \in Nat \ {0} /\ r \in Nat
    BY ShardFacts DEF TpRanks
  <2>2. r * m \in Int
    BY <2>1, Z3
  <2> QED
    BY <2>1, <2>2 DEF Tokens
<1>2. seq \in SamplingRequest /\ a \in [0 .. m - 1 -> Int]
  BY <1>1, RowFacts
<1> DEFINE off == PenaltyOffset(r, m)
<1>3. off \in Int /\ (r = 0 => off = 0)
  <2>1. r = 0 => r * m = 0
    BY <1>1
  <2> QED
    BY <1>1, <2>1 DEF PenaltyOffset
<1> HIDE DEF a, seq
<1>4. ApplyRepetitionPenalty(a, r, seq) = [t \in 0 .. m - 1 |-> AfterPenalty(a[t], t + off, seq)]
  <2>1. PenaltyOffset(r, m) \in Int /\ m \in Nat \ {0}
    BY <1>1, <1>3
  <2> HIDE DEF m
  <2> QED
    BY <1>2, <2>1, PenaltyPointwise DEF PenalisedEach
<1>5. \A t \in 0 .. m - 1 : AfterPenalty(a[t], t + off, seq) = AfterPenalty(a[t], t, seq)
  <2>1. CASE r = 0
    <3>1. \A t \in 0 .. m - 1 : t + off = t
      BY <1>1, <1>3, <2>1
    <3> QED
      BY <3>1
  <2>2. CASE ~ Penalised(seq)
    <3>1. \A t \in 0 .. m - 1 : a[t] \in Int
      BY <1>2
    <3> QED
      BY <1>2, <2>2, <3>1, UnpenalisedStays
  <2> QED
    BY <2>1, <2>2 DEF seq
<1>6. ApplyRepetitionPenalty(a, r, seq) = b
  BY <1>4, <1>5
<1>7. b \in [0 .. m - 1 -> Int]
  BY <1>2, AfterPenaltyType
<1> HIDE DEF b
<1>8. ApplyConstraints(b, 0, seq) = [t \in 0 .. m - 1 |-> AfterParts(b[t], t + 0, seq.constraint)]
  <2> DEFINE z == 0
  <2>1. z \in Int /\ m \in Nat \ {0}
    BY <1>1
  <2>2. b \in [0 .. m - 1 -> Int] /\ seq \in SamplingRequest
    BY <1>2, <1>7
  <2> HIDE DEF z, m, seq
  <2>3. ApplyConstraints(b, z, seq) = [t \in 0 .. m - 1 |-> AfterParts(b[t], t + z, seq.constraint)]
    BY ONLY <2>1, <2>2, ConstraintsPointwise
  <2> QED
    BY <2>3 DEF z
<1>9. \A t \in 0 .. m - 1 : t + 0 = t /\ b[t] = AfterPenalty(a[t], t, seq)
  BY <1>1 DEF b
<1>10. ApplyConstraints(b, 0, seq) = Wanted(i)
  BY <1>1, <1>8, <1>9 DEF Wanted, a, seq
<1> QED
  BY <1>6, <1>10 DEF EditedWhole, a, seq

-----------------------------------------------------------------------------
(* The collectives, on the logits w of the whole vocabulary.               *)
LEMMA MaximaMeet ==
    ASSUME Prepared, NEW i \in Rows, NEW all,
           all = [q \in TpRanks |-> LocalMax(ShardOf(Wanted(i), q, vocab_shard))]
    PROVE  tp_distributed_argmax(all, vocab_shard) = FirstMax(Wanted(i))
<1> DEFINE n == tp_size
           m == vocab_shard
           w == Wanted(i)
<1>1. n \in Nat \ {0} /\ m \in Nat \ {0} /\ n * m = VocabSize /\ VocabSize \in Nat \ {0}
  BY ShardFacts
<1>2. w \in [0 .. VocabSize - 1 -> Int]
  BY WantedType DEF Tokens
<1> HIDE DEF w, m, n
<1>3. PICK bound \in Nat : w \in Logits(VocabSize, bound)
  BY <1>1, <1>2, Bounded
<1>4. w \in Logits(n * m, bound)
  BY <1>1, <1>3
<1>5. IsFirstMax(w, tp_distributed_argmax([r \in 0 .. n - 1 |-> LocalMax(ShardOf(w, r, m))], m))
  BY <1>1, <1>4, DistributedArgmax
<1>6. IsFirstMax(Wanted(i), tp_distributed_argmax(all, vocab_shard))
  BY <1>5 DEF w, m, n, TpRanks
<1> QED
  BY <1>6, FirstWanted

BlocksWhole == vocab_shard % BlockN = 0

LEMMA FusedIsLocal ==
    ASSUME Prepared, BlocksWhole, NEW r \in TpRanks, NEW a \in [Tokens -> Int]
    PROVE  fused_lm_head_argmax_with_max(ShardOf(a, r, vocab_shard), BlockN)
             = LocalMax(ShardOf(a, r, vocab_shard))
<1> DEFINE s == ShardOf(a, r, vocab_shard)
           n == vocab_shard \div BlockN
<1>1. vocab_shard \in Nat \ {0} /\ BlockN \in Nat \ {0} /\ vocab_shard % BlockN = 0
  BY ShardFacts, SamplingAssumption DEF BlocksWhole
<1>2. n \in Nat \ {0} /\ BlockN * n = vocab_shard
  BY <1>1, Quotient
<1>3. s \in [0 .. vocab_shard - 1 -> Int]
  BY ShardType
<1> HIDE DEF s, n
<1>4. PICK bound \in Nat : s \in Logits(vocab_shard, bound)
  BY <1>1, <1>3, Bounded
<1>5. n * BlockN = vocab_shard
  BY <1>1, <1>2, Z3
<1>6. s \in Logits(n * BlockN, bound)
  BY <1>4, <1>5
<1>7. fused_lm_head_argmax_with_max(s, BlockN) = LocalMax(s)
  <2>1. BlockN \in Nat \ {0} /\ n \in Nat \ {0}
    BY <1>1, <1>2
  <2> QED
    BY <1>6, <2>1, FusedArgmaxIsArgmax, Zenon
<1> QED
  BY <1>7 DEF s

-----------------------------------------------------------------------------
(* The candidates that the ranks send hold one with the largest logit.     *)
LEMMA OfTwo ==
    ASSUME NEW x \in Nat \ {0}, NEW y \in Nat \ {0}
    PROVE  Max({x, y}) \in Nat \ {0} /\ Min({x, y}) \in Nat \ {0}
<1>1. \E z \in {x, y} : \A u \in {x, y} : z >= u
  OBVIOUS
<1>2. \E z \in {x, y} : \A u \in {x, y} : z =< u
  OBVIOUS
<1>3. Max({x, y}) \in {x, y}
  BY <1>1, Zenon DEF Max
<1>4. Min({x, y}) \in {x, y}
  BY <1>2, Zenon DEF Min
<1> QED
  BY <1>3, <1>4

LEMMA LargestTopK ==
    ASSUME Prepared, NEW ks, ks # {},
           ks = {seqs[i].top_k : i \in {j \in Rows : seqs[j].top_k > 0}}
    PROVE  Max(ks) \in Nat \ {0}
<1> DEFINE n == Len(seqs)
           a == [j \in 0 .. n - 1 |-> seqs[j + 1].top_k]
           best == FirstMax(a)
<1>1. n \in Nat \ {0} /\ Rows = 1 .. n /\ \A i \in Rows : seqs[i].top_k \in Int
  BY RowFacts DEF SamplingRequest
<1> HIDE DEF n
<1>2. \A j \in 0 .. n - 1 : j + 1 \in Rows /\ a[j] = seqs[j + 1].top_k
  BY <1>1
<1>3. a \in [0 .. n - 1 -> Int]
  BY <1>1, <1>2
<1>4. \A i \in Rows : i - 1 \in 0 .. n - 1 /\ a[i - 1] = seqs[i].top_k
  BY <1>1
<1> HIDE DEF a
<1>5. best \in 0 .. n - 1 /\ IsFirstMax(a, best)
  BY <1>1, <1>3, FirstMaxOfInts
<1>6. \A j \in 0 .. n - 1 : a[j] <= a[best]
  BY <1>3, <1>5 DEF IsFirstMax
<1> HIDE DEF best
<1>7. \A i \in Rows : seqs[i].top_k <= a[best]
  BY <1>4, <1>6
<1>8. a[best] \in Int /\ best + 1 \in Rows /\ a[best] = seqs[best + 1].top_k
  BY <1>2, <1>3, <1>5
<1>9. a[best] > 0
  BY <1>1, <1>7, <1>8
<1>10. a[best] \in ks /\ \A y \in ks : a[best] >= y
  BY <1>1, <1>7, <1>8, <1>9
<1>11. Max(ks) \in ks
  BY <1>10, Zenon DEF Max
<1> QED
  BY <1>1, <1>11

LEMMA SomeCandidates ==
    ASSUME Prepared
    PROVE  CandidateCount \in Nat \ {0}
<1> DEFINE ks == {seqs[i].top_k : i \in {j \in Rows : seqs[j].top_k > 0}}
           k == IF ks = {} THEN DefaultK ELSE Max(ks)
           nucleus == \E i \in Rows : seqs[i].top_p < PDenominator /\ seqs[i].top_k <= 0
           c == IF nucleus THEN Max({k, NucleusK}) ELSE k
<1>1. k \in Nat \ {0}
  <2>1. ks # {} => Max(ks) \in Nat \ {0}
    BY LargestTopK
  <2> QED
    BY <2>1, SamplingAssumption
<1> HIDE DEF k
<1>2. c \in Nat \ {0}
  <2>1. Max({k, NucleusK}) \in Nat \ {0}
    BY <1>1, OfTwo, SamplingAssumption
  <2> QED
    BY <1>1, <2>1
<1> HIDE DEF c
<1>3. Min({c, vocab_shard}) \in Nat \ {0}
  BY <1>2, OfTwo, ShardFacts
<1>4. CandidateCount = Min({c, vocab_shard})
  BY Zenon DEF CandidateCount, c, k
<1> QED
  BY <1>3, <1>4

LEMMA TopKHasLargest ==
    ASSUME NEW C, NEW k \in Nat \ {0}, NEW T \in TopK(C, k),
           \A e \in C : e[2] \in Int, NEW c \in C
    PROVE  T \subseteq C /\ \E d \in T : c[2] <= d[2]
<1>1. T \subseteq C /\ Cardinality(T) = k
  BY DEF TopK, kSubset
<1>2. \A d \in T : \A e \in C \ T : d[2] >= e[2]
  BY DEF TopK
<1>3. T # {}
  <2>1. Cardinality({}) = 0
    BY FS_EmptySet
  <2> QED
    BY <1>1, <2>1
<1>4. CASE c \in T
  BY <1>1, <1>4
<1>5. CASE c \notin T
  <2>1. PICK d \in T : TRUE
    BY <1>3
  <2>2. d[2] >= c[2] /\ d[2] \in Int /\ c[2] \in Int
    BY <1>1, <1>2, <1>5, <2>1
  <2>3. c[2] <= d[2]
    BY <2>2
  <2> QED
    BY <1>1, <2>3
<1> QED
  BY <1>4, <1>5

(* A candidate is a token with its edited logit.                           *)
IsCandidate(i, c) == c[1] \in Tokens /\ c[2] = Wanted(i)[c[1]]

LEMMA ShardCandidates ==
    ASSUME Prepared, NEW q \in TpRanks, NEW i \in Rows
    PROVE  /\ \A c \in Pairs(EditedShard(q, i), q * vocab_shard) : IsCandidate(i, c)
           /\ \A j \in 0 .. vocab_shard - 1 :
                 <<j + q * vocab_shard, Wanted(i)[q * vocab_shard + j]>>
                     \in Pairs(EditedShard(q, i), q * vocab_shard)
<1> DEFINE m == vocab_shard
           off == q * m
           w == Wanted(i)
<1>1. w \in [Tokens -> Int]
  BY WantedType
<1>2. \A j \in 0 .. m - 1 : off + j \in Tokens
  BY <1>1, ShardType
<1>3. EditedShard(q, i) = [j \in 0 .. m - 1 |-> w[off + j]]
  BY ShardEdits DEF ShardOf
<1>4. m \in Nat /\ off \in Int
  <2>1. m \in Nat /\ q \in Nat
    BY ShardFacts DEF TpRanks
  <2> HIDE DEF m
  <2> QED
    BY <2>1, Z3
<1> HIDE DEF off, m, w
<1>5. Pairs(EditedShard(q, i), off) = {<<j + off, w[off + j]>> : j \in 0 .. m - 1}
  BY <1>3 DEF Pairs
<1>6. \A j \in 0 .. m - 1 : j + off = off + j
  BY <1>4
<1>7. \A c \in Pairs(EditedShard(q, i), off) : IsCandidate(i, c)
  BY <1>2, <1>5, <1>6 DEF IsCandidate, w
<1>8. \A j \in 0 .. m - 1 : <<j + off, w[off + j]>> \in Pairs(EditedShard(q, i), off)
  BY <1>5
<1> QED
  BY <1>7, <1>8 DEF off, m, w

LEMMA GreedyCandidate ==
    ASSUME Prepared, NEW i \in Rows, Greedy(seqs[i]),
           \A q \in TpRanks : sent[q][i] \in TopK(Pairs(EditedShard(q, i), q * vocab_shard),
                                                  CandidateCount),
           NEW t \in FromCandidates(seqs[i], UNION {sent[q][i] : q \in TpRanks})
    PROVE  t \in Tokens /\ \A u \in Tokens : Wanted(i)[u] <= Wanted(i)[t]
<1> DEFINE C == UNION {sent[q][i] : q \in TpRanks}
           w == Wanted(i)
           k == CandidateCount
           m == vocab_shard
<1>1. k \in Nat \ {0} /\ w \in [Tokens -> Int]
  BY SomeCandidates, WantedType
<1>2. PICK G \in TopK(C, k) : t \in {c[1] : c \in {d \in G : Larger(G, d) = {}}}
  BY DEF FromCandidates
<1>3. PICK d \in G : t = d[1] /\ Larger(G, d) = {}
  BY <1>2
<1>4. \A q \in TpRanks : \A c \in sent[q][i] : c \in Pairs(EditedShard(q, i), q * m)
  BY DEF TopK, kSubset
<1>5. \A c \in C : IsCandidate(i, c)
  BY <1>4, ShardCandidates
<1>6. \A c \in C : c[2] \in Int
  BY <1>1, <1>5 DEF IsCandidate
<1>7. G \subseteq C
  BY DEF TopK, kSubset
<1> HIDE DEF C, w, k, m
<1>8. t \in Tokens /\ d[2] = w[t] /\ d[2] \in Int
  BY <1>3, <1>5, <1>6, <1>7 DEF IsCandidate, w
<1>9. ASSUME NEW u \in Tokens
      PROVE  w[u] <= w[t]
  <2>1. PICK q \in TpRanks, j \in 0 .. m - 1 : u = q * m + j
    <3>1. tp_size \in Nat \ {0} /\ m \in Nat \ {0} /\ tp_size * m = VocabSize
      BY ShardFacts DEF m
    <3>2. u \in 0 .. tp_size * m - 1
      BY <3>1 DEF Tokens
    <3>3. \E r \in 0 .. tp_size - 1 : \E l \in 0 .. m - 1 : u = r * m + l
      BY <3>1, <3>2, Divided
    <3> QED
      BY <3>3 DEF TpRanks
  <2> DEFINE P == Pairs(EditedShard(q, i), q * m)
             c == <<j + q * m, w[u]>>
  <2>2. c \in P /\ \A e \in P : IsCandidate(i, e)
    BY <2>1, ShardCandidates DEF m, w
  <2>3. \A e \in P : e[2] \in Int
    BY <1>1, <2>2 DEF IsCandidate, w
  <2>4. sent[q][i] \in TopK(P, k)
    BY DEF k, m
  <2>5. c[2] = w[u]
    OBVIOUS
  <2> HIDE DEF P, c
  <2>6. PICK e \in sent[q][i] : c[2] <= e[2]
    BY <1>1, <2>2, <2>3, <2>4, TopKHasLargest
  <2>7. e \in C
    BY <2>6 DEF C
  <2>8. PICK g \in G : e[2] <= g[2]
    BY <1>1, <1>2, <1>6, <2>7, TopKHasLargest
  <2>9. ~ (g[2] > d[2])
    BY <1>3, <2>8 DEF Larger
  <2>10. w[u] \in Int /\ e[2] \in Int /\ g[2] \in Int
    BY <1>1, <1>6, <1>7, <2>7, <2>8
  <2> QED
    BY <1>8, <2>5, <2>6, <2>8, <2>9, <2>10
<1> QED
  BY <1>8, <1>9 DEF w

-----------------------------------------------------------------------------
(* Every path leads a greedy request to its token.                         *)
AllSent == \A q \in TpRanks : \A i \in Rows : sent[q][i] \in Message(q, i)

IsGreedyToken(i, t) ==
    /\ t \in Tokens
    /\ \A u \in Tokens : Wanted(i)[u] <= Wanted(i)[t]
    /\ all_greedy => t = FirstMax(Wanted(i))

LEMMA FirstIsGreedyToken ==
    ASSUME Prepared, NEW i \in Rows
    PROVE  IsGreedyToken(i, FirstMax(Wanted(i)))
<1>1. DOMAIN Wanted(i) = Tokens
  BY WantedType
<1> QED
  BY <1>1, FirstWanted DEF IsGreedyToken, IsFirstMax

(* On the fused path nothing is edited.                                    *)
LEMMA FusedUnedited ==
    ASSUME Prepared, path = "fused", NEW i \in Rows
    PROVE  Wanted(i) = lm_head[i]
<1>1. ~ Penalised(seqs[i]) /\ seqs[i].constraint = <<>>
  <2>1. CASE pass.is_prefill
    <3>1. i = 1
      BY <2>1, RowFacts
    <3> QED
      BY <2>1, <3>1 DEF path
  <2>2. CASE ~ pass.is_prefill
    BY <2>2 DEF path, SeqsHaveConstraints
  <2> QED
    BY <2>1, <2>2
<1> QED
  BY <1>1, NothingWanted

LEMMA MaximaSent ==
    ASSUME Prepared, BlocksWhole, AllSent, path \in {"fused", "argmax"}, NEW i \in Rows
    PROVE  \A q \in TpRanks : sent[q][i] = LocalMax(ShardOf(Wanted(i), q, vocab_shard))
<1> SUFFICES ASSUME NEW q \in TpRanks
             PROVE  sent[q][i] = LocalMax(ShardOf(Wanted(i), q, vocab_shard))
  OBVIOUS
<1>1. sent[q][i] \in Message(q, i)
  BY DEF AllSent
<1>2. CASE path = "fused"
  <2>1. sent[q][i] = fused_lm_head_argmax_with_max(ShardOf(lm_head[i], q, vocab_shard), BlockN)
    BY <1>1, <1>2 DEF Message
  <2>2. Wanted(i) = lm_head[i] /\ Wanted(i) \in [Tokens -> Int]
    BY <1>2, FusedUnedited, WantedType
  <2> QED
    BY <2>1, <2>2, FusedIsLocal
<1>3. CASE path = "argmax"
  <2>1. sent[q][i] = LocalMax(EditedShard(q, i))
    BY <1>1, <1>3 DEF Message
  <2> QED
    BY <2>1, ShardEdits
<1> QED
  BY <1>2, <1>3

LEMMA PlaceInShard ==
    ASSUME NEW m \in Nat \ {0}, NEW r \in Nat, NEW j \in 0 .. m - 1, NEW t, t = r * m + j
    PROVE  t \div m = r /\ t % m = j
<1>1. (r * m + j) \div m = r
  BY Z3
<1>2. m * ((r * m + j) \div m) + ((r * m + j) % m) = r * m + j
  BY Z3
<1>3. (r * m + j) % m = j
  BY <1>1, <1>2, Z3
<1> QED
  BY <1>1, <1>3

LEMMA GatheredWhole ==
    ASSUME Prepared, AllSent, path = "whole", NEW i \in Rows
    PROVE  Gathered(i) = lm_head[i]
<1> DEFINE m == vocab_shard
           a == lm_head[i]
<1>1. \A q \in TpRanks : sent[q][i] = ShardOf(a, q, m)
  BY DEF AllSent, Message
<1>2. a \in [Tokens -> Int] /\ m \in Nat \ {0} /\ tp_size \in Nat \ {0} /\ tp_size * m = VocabSize
  BY RowFacts, ShardFacts
<1> HIDE DEF m, a
<1>3. ASSUME NEW t \in Tokens
      PROVE  sent[t \div m][i][t % m] = a[t]
  <2>1. t \in 0 .. tp_size * m - 1
    BY <1>2 DEF Tokens
  <2>2. PICK r \in 0 .. tp_size - 1 : \E j \in 0 .. m - 1 : t = r * m + j
    BY <1>2, <2>1, Divided
  <2>3. PICK j \in 0 .. m - 1 : t = r * m + j
    BY <2>2
  <2>4. t \div m = r /\ t % m = j
    <3>1. r \in Nat /\ m \in Nat \ {0}
      BY <1>2
    <3> QED
      BY <2>3, <3>1, PlaceInShard
  <2>5. r \in TpRanks
    BY DEF TpRanks
  <2>6. sent[r][i][j] = a[r * m + j]
    BY <1>1, <2>5 DEF ShardOf
  <2> QED
    BY <2>3, <2>4, <2>6, Zenon
<1>4. Gathered(i) = [t \in Tokens |-> a[t]]
  BY <1>3 DEF Gathered, m
<1> QED
  BY <1>2, <1>4 DEF a

LEMMA RowsSent ==
    ASSUME Prepared, AllSent, path = "rows", NEW i \in Rows
    PROVE  sent[0][i] = Wanted(i)
<1>1. 0 \in TpRanks
  BY ShardFacts
<1>2. sent[0][i] = EditedShard(0, i)
  BY <1>1 DEF AllSent, Message
<1>3. tp_size = 1
  BY ShardFacts DEF path, TpRanks
<1>4. vocab_shard = VocabSize
  BY <1>3, ShardFacts
<1>5. ShardOf(Wanted(i), 0, VocabSize) = [j \in Tokens |-> Wanted(i)[0 * VocabSize + j]]
  BY DEF ShardOf, Tokens
<1>6. \A j \in Tokens : 0 * VocabSize + j = j
  BY ShardFacts DEF Tokens
<1>7. ShardOf(Wanted(i), 0, VocabSize) = [j \in Tokens |-> Wanted(i)[j]]
  BY <1>5, <1>6
<1> QED
  BY <1>1, <1>2, <1>4, <1>7, ShardEdits, WantedType

LEMMA GreedyChoice ==
    ASSUME Prepared, BlocksWhole, AllSent, NEW r \in TpRanks, NEW i \in Rows,
           Greedy(seqs[i]), NEW t \in Choice(r, i),
           path = "whole" => r = 0 \/ ~ Penalised(seqs[i])
    PROVE  IsGreedyToken(i, t)
<1>1. path \in {"fused", "argmax", "topk", "whole", "rows"}
  BY DEF path
<1>2. CASE path \in {"fused", "argmax"}
  <2> DEFINE all == [q \in TpRanks |-> sent[q][i]]
  <2>1. all = [q \in TpRanks |-> LocalMax(ShardOf(Wanted(i), q, vocab_shard))]
    BY <1>2, MaximaSent
  <2>2. t = tp_distributed_argmax(all, vocab_shard)
    BY <1>2 DEF Choice
  <2> HIDE DEF all
  <2>3. t = FirstMax(Wanted(i))
    BY <2>1, <2>2, MaximaMeet
  <2> QED
    BY <2>3, FirstIsGreedyToken
<1>3. CASE path = "topk"
  <2>1. ~ all_greedy
    BY <1>3 DEF path
  <2>2. \A q \in TpRanks : sent[q][i] \in TopK(Pairs(EditedShard(q, i), q * vocab_shard),
                                               CandidateCount)
    BY <1>3 DEF AllSent, Message
  <2>3. t \in FromCandidates(seqs[i], UNION {sent[q][i] : q \in TpRanks})
    BY <1>3 DEF Choice
  <2> QED
    BY <2>1, <2>2, <2>3, GreedyCandidate DEF IsGreedyToken
<1>4. CASE path = "whole"
  <2>1. EditedWhole(r, i) = Wanted(i)
    BY <1>4, GatheredWhole, WholeEdits
  <2>2. t = FirstMax(Wanted(i))
    BY <1>4, <2>1 DEF Choice, FromWhole
  <2> QED
    BY <2>2, FirstIsGreedyToken
<1>5. CASE path = "rows"
  <2>1. t = FirstMax(Wanted(i))
    BY <1>5, RowsSent DEF Choice, FromWhole
  <2> QED
    BY <2>1, FirstIsGreedyToken
<1> QED
  BY <1>1, <1>2, <1>3, <1>4, <1>5

-----------------------------------------------------------------------------
(* The inductive invariant of the choice of tokens.                        *)
RankPcType ==
    /\ rank_pc \in [TpRanks -> {"forward", "gather", "sync", "done"}]
    /\ DOMAIN sent = TpRanks /\ DOMAIN token_ids = TpRanks

(* A rank that is through with its forward pass has sent what its path     *)
(* asks for, and no rank chooses before all are.                           *)
SentAsAsked ==
    /\ \A r \in TpRanks : rank_pc[r] # "forward" => \A i \in Rows : sent[r][i] \in Message(r, i)
    /\ \A r, q \in TpRanks : rank_pc[r] \in {"sync", "done"} => rank_pc[q] # "forward"

(* Tokens are a rank's own choice until rank 0's take their place.         *)
OwnChoice(r) ==
    token_ids[r] \in [Rows -> Tokens] /\ \A i \in Rows : token_ids[r][i] \in Choice(r, i)
ChosenOrSynced ==
    /\ \A r \in TpRanks : rank_pc[r] = "sync" => NeedsSync /\ OwnChoice(r)
    /\ \A r \in TpRanks : rank_pc[r] = "done" =>
          IF NeedsSync THEN /\ rank_pc[0] \in {"sync", "done"} /\ OwnChoice(0)
                            /\ token_ids[r] = token_ids[0]
          ELSE OwnChoice(r)

SampleInv == Prepared /\ RankPcType /\ SentAsAsked /\ ChosenOrSynced

LEMMA SampleInvInit == SampleInit => SampleInv
<1> SUFFICES ASSUME SampleInit
             PROVE  SampleInv
  OBVIOUS
<1>1. Prepared
  BY DEF SampleInit, Prepared
<1>2. RankPcType
  BY DEF SampleInit, RankPcType
<1>3. \A r \in TpRanks : rank_pc[r] = "forward"
  BY DEF SampleInit
<1> QED
  BY <1>1, <1>2, <1>3 DEF SampleInv, SentAsAsked, ChosenOrSynced

(* What a pass is stays as it is.                                          *)
LEMMA PassStays ==
    ASSUME Prepared, UNCHANGED <<tp_size, pass, lm_head>>
    PROVE  /\ Prepared' /\ TpRanks' = TpRanks /\ Rows' = Rows /\ NeedsSync' = NeedsSync
           /\ \A r, i : Message(r, i)' = Message(r, i)
<1>1. Prepared'
  BY DEF Prepared
<1>2. TpRanks' = TpRanks /\ seqs' = seqs /\ vocab_shard' = vocab_shard
  BY DEF TpRanks, seqs, vocab_shard
<1>3. Rows' = Rows
  BY <1>2 DEF Rows
<1>4. all_greedy' = all_greedy
  BY <1>2, <1>3 DEF all_greedy
<1>5. NeedsSync' = NeedsSync
  BY <1>4 DEF NeedsSync
<1>6. path' = path
  BY <1>2, <1>3, <1>4 DEF path, SeqsHaveConstraints
<1>7. CandidateCount' = CandidateCount
  BY <1>2, <1>3 DEF CandidateCount
<1>8. \A r, i : EditedShard(r, i)' = EditedShard(r, i)
  BY <1>2 DEF EditedShard, ApplyRepetitionPenalty, PenaltyOffset
<1> QED
  BY <1>1, <1>2, <1>3, <1>5, <1>6, <1>7, <1>8 DEF Message

LEMMA ChoiceStays ==
    ASSUME Prepared, UNCHANGED <<tp_size, pass, lm_head, sent>>
    PROVE  \A r, i : Choice(r, i)' = Choice(r, i)
<1>1. TpRanks' = TpRanks /\ seqs' = seqs /\ vocab_shard' = vocab_shard
  BY DEF TpRanks, seqs, vocab_shard
<1>2. Rows' = Rows
  BY <1>1 DEF Rows
<1>3. all_greedy' = all_greedy
  BY <1>1, <1>2 DEF all_greedy
<1>4. path' = path
  BY <1>1, <1>2, <1>3 DEF path, SeqsHaveConstraints
<1>5. CandidateCount' = CandidateCount
  BY <1>1, <1>2 DEF CandidateCount
<1>6. \A r, i : EditedWhole(r, i)' = EditedWhole(r, i)
  BY <1>1 DEF EditedWhole, Gathered, ApplyRepetitionPenalty, PenaltyOffset
<1> QED
  BY <1>1, <1>4, <1>5, <1>6 DEF Choice, FromCandidates

LEMMA ForwardKeepsInv ==
    ASSUME SampleInv, NEW r \in TpRanks, Forward(r)
    PROVE  SampleInv'
<1>1. /\ rank_pc[r] = "forward" /\ rank_pc' = [rank_pc EXCEPT ![r] = "gather"]
      /\ UNCHANGED <<tp_size, pass, lm_head, token_ids>>
  BY DEF Forward
<1>2. PICK m \in [Rows -> UNION {Message(r, i) : i \in Rows}] :
         /\ \A i \in Rows : m[i] \in Message(r, i)
         /\ sent' = [sent EXCEPT ![r] = m]
  BY DEF Forward
<1>3. Prepared' /\ TpRanks' = TpRanks /\ Rows' = Rows /\ \A q, i : Message(q, i)' = Message(q, i)
  BY <1>1, PassStays DEF SampleInv
<1>4. RankPcType'
  BY <1>1, <1>2, <1>3 DEF SampleInv, RankPcType
<1>5. \A q \in TpRanks : rank_pc[q] \notin {"sync", "done"}
  BY <1>1 DEF SampleInv, SentAsAsked
<1>6. \A q \in TpRanks : rank_pc'[q] \notin {"sync", "done"}
  BY <1>1, <1>5 DEF SampleInv, RankPcType
<1>7. \A q \in TpRanks : rank_pc'[q] # "forward" => \A i \in Rows : sent'[q][i] \in Message(q, i)
  <2> SUFFICES ASSUME NEW q \in TpRanks, rank_pc'[q] # "forward", NEW i \in Rows
               PROVE  sent'[q][i] \in Message(q, i)
    OBVIOUS
  <2>1. CASE q = r
    <3>1. sent'[q] = m
      BY <1>2, <2>1 DEF SampleInv, RankPcType
    <3> QED
      BY <1>2, <2>1, <3>1
  <2>2. CASE q # r
    <3>1. sent'[q] = sent[q] /\ rank_pc[q] # "forward"
      BY <1>1, <1>2, <2>2 DEF SampleInv, RankPcType
    <3> QED
      BY <3>1 DEF SampleInv, SentAsAsked
  <2> QED
    BY <2>1, <2>2
<1>8. SentAsAsked'
  BY <1>3, <1>6, <1>7 DEF SentAsAsked
<1>9. ChosenOrSynced'
  <2>1. \A q \in TpRanks' : rank_pc'[q] # "sync" /\ rank_pc'[q] # "done"
    BY <1>3, <1>6
  <2> QED
    BY <2>1 DEF ChosenOrSynced
<1> QED
  BY <1>3, <1>4, <1>8, <1>9 DEF SampleInv

(* After a choice or a broadcast the messages are as they were.            *)
LEMMA SentStays ==
    ASSUME SampleInv, UNCHANGED <<tp_size, pass, lm_head, sent>>,
           \A q \in TpRanks : rank_pc[q] # "forward", \A q \in TpRanks : rank_pc'[q] # "forward"
    PROVE  SentAsAsked'
<1>1. TpRanks' = TpRanks /\ Rows' = Rows /\ \A q, i : Message(q, i)' = Message(q, i)
  BY PassStays DEF SampleInv
<1>2. \A q \in TpRanks : \A i \in Rows : sent'[q][i] \in Message(q, i)
  BY DEF SampleInv, SentAsAsked
<1> QED
  BY <1>1, <1>2 DEF SentAsAsked

LEMMA ChooseKeepsInv ==
    ASSUME SampleInv, NEW r \in TpRanks, Choose(r)
    PROVE  SampleInv'
<1>1. /\ rank_pc[r] = "gather" /\ \A q \in TpRanks : rank_pc[q] # "forward"
      /\ rank_pc' = [rank_pc EXCEPT ![r] = IF NeedsSync THEN "sync" ELSE "done"]
      /\ UNCHANGED <<tp_size, pass, lm_head, sent>>
  BY DEF Choose
<1>2. PICK f \in [Rows -> Tokens] :
         /\ \A i \in Rows : f[i] \in Choice(r, i)
         /\ token_ids' = [token_ids EXCEPT ![r] = f]
  BY DEF Choose
<1>3. Prepared' /\ TpRanks' = TpRanks /\ Rows' = Rows /\ NeedsSync' = NeedsSync
  BY <1>1, PassStays DEF SampleInv
<1>4. \A q, i : Choice(q, i)' = Choice(q, i)
  BY <1>1, ChoiceStays DEF SampleInv
<1>5. RankPcType'
  BY <1>1, <1>2, <1>3 DEF SampleInv, RankPcType
<1>6. /\ token_ids'[r] = f /\ rank_pc'[r] = IF NeedsSync THEN "sync" ELSE "done"
      /\ \A q \in TpRanks : q # r => token_ids'[q] = token_ids[q] /\ rank_pc'[q] = rank_pc[q]
  BY <1>1, <1>2 DEF SampleInv, RankPcType
<1>7. SentAsAsked'
  BY <1>1, <1>6, SentStays
<1>8. OwnChoice(r)'
  BY <1>2, <1>3, <1>4, <1>6 DEF OwnChoice
<1>9. \A q \in TpRanks : q # r /\ OwnChoice(q) => OwnChoice(q)'
  BY <1>3, <1>4, <1>6 DEF OwnChoice
<1>10. ASSUME NEW q \in TpRanks, rank_pc'[q] = "sync"
       PROVE  NeedsSync /\ OwnChoice(q)'
  <2>1. CASE q = r
    BY <1>6, <1>8, <1>10, <2>1
  <2>2. CASE q # r
    BY <1>6, <1>9, <1>10, <2>2 DEF SampleInv, ChosenOrSynced
  <2> QED
    BY <2>1, <2>2
<1>11. ASSUME NEW q \in TpRanks, rank_pc'[q] = "done", ~ NeedsSync
       PROVE  OwnChoice(q)'
  <2>1. CASE q = r
    BY <1>8, <2>1
  <2>2. CASE q # r
    BY <1>6, <1>9, <1>11, <2>2 DEF SampleInv, ChosenOrSynced
  <2> QED
    BY <2>1, <2>2
<1>12. ASSUME NEW q \in TpRanks, rank_pc'[q] = "done", NeedsSync
       PROVE  /\ rank_pc'[0] \in {"sync", "done"} /\ OwnChoice(0)'
              /\ token_ids'[q] = token_ids'[0]
  <2>1. q # r /\ rank_pc[q] = "done"
    BY <1>6, <1>12
  <2>2. rank_pc[0] \in {"sync", "done"} /\ OwnChoice(0) /\ token_ids[q] = token_ids[0]
    BY <1>12, <2>1 DEF SampleInv, ChosenOrSynced
  <2>3. 0 \in TpRanks /\ 0 # r
    BY <1>1, <2>2, ShardFacts DEF SampleInv
  <2> QED
    BY <1>6, <1>9, <2>1, <2>2, <2>3
<1>13. ChosenOrSynced'
  BY <1>3, <1>10, <1>11, <1>12 DEF ChosenOrSynced
<1> QED
  BY <1>3, <1>5, <1>7, <1>13 DEF SampleInv

LEMMA SyncKeepsInv ==
    ASSUME SampleInv, NEW r \in TpRanks, SyncTokens(r)
    PROVE  SampleInv'
<1>1. /\ rank_pc[r] = "sync" /\ rank_pc[0] \in {"sync", "done"}
      /\ token_ids' = [token_ids EXCEPT ![r] = token_ids[0]]
      /\ rank_pc' = [rank_pc EXCEPT ![r] = "done"]
      /\ UNCHANGED <<tp_size, pass, lm_head, sent>>
  BY DEF SyncTokens
<1>2. Prepared' /\ TpRanks' = TpRanks /\ Rows' = Rows /\ NeedsSync' = NeedsSync
  BY <1>1, PassStays DEF SampleInv
<1>3. \A q, i : Choice(q, i)' = Choice(q, i)
  BY <1>1, ChoiceStays DEF SampleInv
<1>4. RankPcType'
  BY <1>1, <1>2 DEF SampleInv, RankPcType
<1>5. /\ token_ids'[r] = token_ids[0] /\ rank_pc'[r] = "done"
      /\ \A q \in TpRanks : q # r => token_ids'[q] = token_ids[q] /\ rank_pc'[q] = rank_pc[q]
  BY <1>1 DEF SampleInv, RankPcType
<1>6. \A q \in TpRanks : rank_pc[q] # "forward" /\ rank_pc'[q] # "forward"
  BY <1>1, <1>5 DEF SampleInv, SentAsAsked
<1>7. SentAsAsked'
  BY <1>1, <1>6, SentStays
<1>8. NeedsSync /\ 0 \in TpRanks /\ OwnChoice(0)
  BY <1>1, ShardFacts DEF SampleInv, ChosenOrSynced
<1>9. token_ids'[0] = token_ids[0] /\ rank_pc'[0] \in {"sync", "done"}
  BY <1>1, <1>5, <1>8
<1>10. OwnChoice(0)'
  BY <1>2, <1>3, <1>8, <1>9 DEF OwnChoice
<1>11. ASSUME NEW q \in TpRanks, rank_pc'[q] = "sync"
       PROVE  OwnChoice(q)'
  <2>1. q # r /\ rank_pc[q] = "sync" /\ token_ids'[q] = token_ids[q]
    BY <1>5, <1>11
  <2>2. OwnChoice(q)
    BY <2>1 DEF SampleInv, ChosenOrSynced
  <2> QED
    BY <1>2, <1>3, <2>1, <2>2 DEF OwnChoice
<1>12. ASSUME NEW q \in TpRanks, rank_pc'[q] = "done"
       PROVE  token_ids'[q] = token_ids'[0]
  <2>1. CASE q = r
    BY <1>5, <1>9, <2>1
  <2>2. CASE q # r
    BY <1>5, <1>8, <1>9, <1>12, <2>2 DEF SampleInv, ChosenOrSynced
  <2> QED
    BY <2>1, <2>2
<1>13. ChosenOrSynced'
  BY <1>2, <1>8, <1>9, <1>10, <1>11, <1>12 DEF ChosenOrSynced
<1> QED
  BY <1>2, <1>4, <1>7, <1>13 DEF SampleInv

LEMMA SampleInvNext == SampleInv /\ [SampleNext]_sampleVars => SampleInv'
<1> SUFFICES ASSUME SampleInv, [SampleNext]_sampleVars
             PROVE  SampleInv'
  OBVIOUS
<1>1. CASE SampleNext
  <2>1. PICK r \in TpRanks : Forward(r) \/ Choose(r) \/ SyncTokens(r)
    BY <1>1 DEF SampleNext
  <2> QED
    BY <2>1, ForwardKeepsInv, ChooseKeepsInv, SyncKeepsInv
<1>2. CASE UNCHANGED sampleVars
  <2>1. UNCHANGED <<tp_size, pass, lm_head, sent, rank_pc, token_ids>>
    BY <1>2 DEF sampleVars
  <2>2. /\ Prepared' /\ TpRanks' = TpRanks /\ Rows' = Rows /\ NeedsSync' = NeedsSync
        /\ \A r, i : Message(r, i)' = Message(r, i)
    BY <2>1, PassStays DEF SampleInv
  <2>3. \A r, i : Choice(r, i)' = Choice(r, i)
    BY <2>1, ChoiceStays DEF SampleInv
  <2>4. RankPcType' /\ SentAsAsked'
    BY <2>1, <2>2 DEF SampleInv, RankPcType, SentAsAsked
  <2>5. \A r : OwnChoice(r)' <=> OwnChoice(r)
    BY <2>1, <2>2, <2>3 DEF OwnChoice
  <2>6. ChosenOrSynced'
    BY <2>1, <2>2, <2>5 DEF SampleInv, ChosenOrSynced
  <2> QED
    BY <2>2, <2>4, <2>6 DEF SampleInv
<1> QED
  BY <1>1, <1>2

(* The invariant of the choice of tokens.                                  *)
THEOREM SampleInvariant == SampleSpec => []SampleInv
BY SampleInvInit, SampleInvNext, PTL DEF SampleSpec

-----------------------------------------------------------------------------
(* The weight of the LM head fills the blocks of the fused kernel.         *)
BlocksFill == \A n \in TpSizes : (VocabSize \div n) % BlockN = 0

(* No greedy prompt has a repetition penalty where there are several       *)
(* ranks: with one, ranks other than 0 penalise nothing (MCPenaltyRanks).  *)
PromptsUnpenalised ==
    \A b \in Batches :
        b.pass.is_prefill /\ Greedy(b.pass.seqs[1]) /\ Penalised(b.pass.seqs[1]) =>
            TpSizes \subseteq {1}

LEMMA DoneIsGreedy ==
    ASSUME BlocksFill, PromptsUnpenalised, SampleInv,
           NEW r \in TpRanks, rank_pc[r] = "done", NEW i \in Rows, Greedy(seqs[i])
    PROVE  IsGreedyToken(i, token_ids[r][i])
<1>1. Prepared /\ BlocksWhole /\ AllSent
  <2>1. Prepared
    BY DEF SampleInv
  <2>2. BlocksWhole
    BY <2>1 DEF BlocksFill, BlocksWhole, Prepared, vocab_shard
  <2>3. AllSent
    BY DEF SampleInv, SentAsAsked, AllSent
  <2> QED
    BY <2>1, <2>2, <2>3
<1>2. CASE NeedsSync
  <2>1. token_ids[r] = token_ids[0] /\ token_ids[0][i] \in Choice(0, i) /\ 0 \in TpRanks
    BY <1>1, <1>2, ShardFacts DEF SampleInv, ChosenOrSynced, OwnChoice
  <2> QED
    BY <1>1, <2>1, GreedyChoice
<1>3. CASE ~ NeedsSync
  <2>1. token_ids[r][i] \in Choice(r, i)
    BY <1>3 DEF SampleInv, ChosenOrSynced, OwnChoice
  <2>2. ASSUME path = "whole"
        PROVE  r = 0 \/ ~ Penalised(seqs[i])
    <3>1. pass.is_prefill /\ i = 1
      BY <1>1, <2>2, RowFacts DEF path
    <3>2. PICK b \in Batches : pass = b.pass
      BY <1>1 DEF Prepared
    <3>3. Penalised(seqs[i]) => TpSizes \subseteq {1}
      BY <3>1, <3>2 DEF PromptsUnpenalised, seqs
    <3>4. TpSizes \subseteq {1} => r = 0
      BY <1>1 DEF Prepared, TpRanks
    <3> QED
      BY <3>3, <3>4
  <2> QED
    BY <1>1, <2>1, <2>2, GreedyChoice
<1> QED
  BY <1>2, <1>3

(* A greedy request gets a token with the largest edited logit of the      *)
(* whole vocabulary on every path, and the first of them in a batch of     *)
(* greedy requests, however many ranks share the vocabulary.               *)
THEOREM GreedyTakesTheArgmax ==
    ASSUME BlocksFill, PromptsUnpenalised
    PROVE  SampleSpec => []GreedyIsArgmax
<1>1. SampleInv => GreedyIsArgmax
  <2> SUFFICES ASSUME SampleInv, NEW r \in TpRanks, rank_pc[r] = "done",
                      NEW i \in Rows, Greedy(seqs[i])
               PROVE  /\ \A t \in Tokens : Wanted(i)[t] <= Wanted(i)[token_ids[r][i]]
                      /\ all_greedy => token_ids[r][i] = FirstMax(Wanted(i))
    BY DEF GreedyIsArgmax
  <2> QED
    BY DoneIsGreedy DEF IsGreedyToken
<1> QED
  BY <1>1, SampleInvariant, PTL

(* Ranks that return from run() return the same tokens, whichever path the *)
(* pass took and whatever order they got there in.                         *)
THEOREM RanksReturnTheSame ==
    ASSUME BlocksFill, PromptsUnpenalised
    PROVE  SampleSpec => []RanksAgree
<1>1. SampleInv => RanksAgree
  <2> SUFFICES ASSUME SampleInv, NEW r \in TpRanks, NEW q \in TpRanks,
                      rank_pc[r] = "done", rank_pc[q] = "done"
               PROVE  token_ids[r] = token_ids[q]
    BY DEF RanksAgree
  <2>1. CASE NeedsSync
    BY <2>1 DEF SampleInv, ChosenOrSynced
  <2>2. CASE ~ NeedsSync /\ all_greedy
    <3>1. \A i \in Rows : token_ids[r][i] = token_ids[q][i]
      <4> SUFFICES ASSUME NEW i \in Rows
                   PROVE  token_ids[r][i] = token_ids[q][i]
        OBVIOUS
      <4>1. Greedy(seqs[i])
        BY <2>2 DEF all_greedy
      <4>2. IsGreedyToken(i, token_ids[r][i]) /\ IsGreedyToken(i, token_ids[q][i])
        BY <4>1, DoneIsGreedy
      <4> QED
        BY <2>2, <4>2 DEF IsGreedyToken
    <3>2. token_ids[r] \in [Rows -> Tokens] /\ token_ids[q] \in [Rows -> Tokens]
      BY <2>2 DEF SampleInv, ChosenOrSynced, OwnChoice
    <3> QED
      BY <3>1, <3>2
  <2>3. CASE ~ NeedsSync /\ ~ all_greedy
    <3>1. tp_size = 1
      BY <2>3, ShardFacts DEF SampleInv, NeedsSync
    <3> QED
      BY <3>1 DEF TpRanks
  <2> QED
    BY <2>1, <2>2, <2>3
<1> QED
  BY <1>1, SampleInvariant, PTL

-----------------------------------------------------------------------------
(* Sums over finite sets.                                                  *)

(* T passes from the smaller subsets of D to the larger.                   *)
Inherited(D, T) ==
    \A s \in SUBSET D : (\A r \in SUBSET s : r # s => r \in T) => s \in T

LEMMA Subsets ==
    ASSUME NEW D, IsFiniteSet(D), NEW T, Inherited(D, T), NEW s \in SUBSET D
    PROVE  s \in T
<1> DEFINE Bad == {r \in SUBSET D : r \notin T}
           Sizes == {Cardinality(r) : r \in Bad}
<1> SUFFICES ASSUME s \notin T
             PROVE  FALSE
  OBVIOUS
<1>1. \A r \in SUBSET D : IsFiniteSet(r) /\ Cardinality(r) \in Nat
  BY FS_Subset, FS_CardinalityType
<1>2. Sizes \subseteq Nat /\ Sizes # {}
  BY <1>1
<1>3. PICK n \in Sizes : \A k \in Sizes : n <= k
  BY <1>2, LeastElement
<1>4. PICK b \in Bad : Cardinality(b) = n
  BY <1>3
<1>5. ASSUME NEW r \in SUBSET b, r # b
      PROVE  r \in T
  <2>1. Cardinality(r) <= Cardinality(b) /\ Cardinality(r) # Cardinality(b)
    BY <1>1, <1>5, FS_Subset
  <2>2. r \in SUBSET D /\ Cardinality(r) \in Nat /\ Cardinality(b) \in Nat
    BY <1>1
  <2>3. Cardinality(r) \notin Sizes
    BY <1>3, <1>4, <2>1, <2>2
  <2> QED
    BY <2>2, <2>3
<1>6. b \in T
  BY <1>5 DEF Inherited
<1> QED
  BY <1>6

(* F[s] is the sum of f over s, taken in the order of CHOOSE.              *)
Taken(s) == CHOOSE x \in s : TRUE
SumTo(D, f, F) ==
    /\ F \in [SUBSET D -> Nat]
    /\ \A s \in SUBSET D : F[s] = IF s = {} THEN 0 ELSE f[Taken(s)] + F[s \ {Taken(s)}]

LEMMA TakenIsMember == \A s : s # {} => Taken(s) \in s
BY DEF Taken

LEMMA Summable ==
    ASSUME NEW D, IsFiniteSet(D), NEW f \in [D -> Nat]
    PROVE  \E F : SumTo(D, f, F)
<1> DEFINE Small(m) == {s \in SUBSET D : Cardinality(s) <= m}
           Sums(m, F) ==
               /\ F \in [Small(m) -> Nat]
               /\ \A s \in Small(m) : F[s] = IF s = {} THEN 0 ELSE f[Taken(s)] + F[s \ {Taken(s)}]
           N == Cardinality(D)
           T == {m \in 0 .. N : \E F : Sums(m, F)}
<1>1. N \in Nat /\ \A s \in SUBSET D : IsFiniteSet(s) /\ Cardinality(s) \in Nat /\ Cardinality(s) <= N
  BY FS_Subset, FS_CardinalityType
<1>2. \A s \in SUBSET D : s # {} => /\ Taken(s) \in D /\ s \ {Taken(s)} \in SUBSET D
                                    /\ Cardinality(s \ {Taken(s)}) = Cardinality(s) - 1
  BY <1>1, FS_RemoveElement, TakenIsMember
<1>3. 0 \in T
  <2> DEFINE F == [s \in Small(0) |-> 0]
  <2>1. \A s \in Small(0) : s = {}
    BY <1>1, FS_EmptySet
  <2>2. Sums(0, F)
    BY <2>1
  <2> HIDE DEF F, Sums
  <2> QED
    BY <1>1, <2>2
<1>4. \A m \in 1 .. N : m - 1 \in T => m \in T
  <2> SUFFICES ASSUME NEW m \in 1 .. N, m - 1 \in T
               PROVE  m \in T
    OBVIOUS
  <2>1. PICK F : Sums(m - 1, F)
    OBVIOUS
  <2> DEFINE e(s) == IF s = {} THEN 0 ELSE f[Taken(s)] + F[s \ {Taken(s)}]
             G == [s \in Small(m) |-> e(s)]
  <2>2. ASSUME NEW s \in Small(m), s # {}
        PROVE  s \ {Taken(s)} \in Small(m - 1)
    BY <1>1, <1>2, <2>2
  <2>3. \A s \in Small(m) : s # {} => f[Taken(s)] \in Nat /\ F[s \ {Taken(s)}] \in Nat
    BY <1>2, <2>1, <2>2
  <2>4. G \in [Small(m) -> Nat]
    <3> HIDE DEF Small
    <3>1. ASSUME NEW s \in Small(m)
          PROVE  e(s) \in Nat
      <4>1. CASE s = {}
        BY ONLY <4>1
      <4>2. CASE s # {}
        <5> DEFINE x == f[Taken(s)]
                   y == F[s \ {Taken(s)}]
        <5>1. x \in Nat /\ y \in Nat
          BY <2>3, <4>2, Zenon
        <5>2. e(s) = x + y
          BY ONLY <4>2
        <5> HIDE DEF x, y, e
        <5> QED
          BY ONLY <5>1, <5>2
      <4> QED
        BY ONLY <4>1, <4>2
    <3> HIDE DEF e
    <3> QED
      BY ONLY <3>1
  <2>5. \A s \in Small(m - 1) : s \in Small(m) /\ G[s] = F[s]
    BY <1>1, <2>1
  <2>6. \A s \in Small(m) : G[s] = IF s = {} THEN 0 ELSE f[Taken(s)] + G[s \ {Taken(s)}]
    BY <2>2, <2>5
  <2>7. Sums(m, G)
    BY <2>4, <2>6
  <2> HIDE DEF Sums, G
  <2> QED
    BY <2>7
<1> HIDE DEF T, N
<1>5. N \in T
  BY <1>1, <1>3, <1>4, Stepwise, Zenon
<1>6. PICK F : Sums(N, F)
  BY <1>5 DEF T
<1>7. Small(N) = SUBSET D
  BY <1>1
<1> QED
  BY <1>6, <1>7 DEF SumTo

(* A sum may start with any element.                                       *)
LEMMA SumTakesAny ==
    ASSUME NEW D, IsFiniteSet(D), NEW f \in [D -> Nat], NEW F, SumTo(D, f, F),
           NEW s \in SUBSET D, NEW x \in s
    PROVE  F[s] = f[x] + F[s \ {x}]
<1> DEFINE T == {r \in SUBSET D : \A y \in r : F[r] = f[y] + F[r \ {y}]}
<1>1. \A r \in SUBSET D : F[r] \in Nat
  BY DEF SumTo
<1>2. Inherited(D, T)
  <2> SUFFICES ASSUME NEW r \in SUBSET D, \A q \in SUBSET r : q # r => q \in T, NEW y \in r
               PROVE  F[r] = f[y] + F[r \ {y}]
    BY DEF Inherited
  <2> DEFINE a == Taken(r)
  <2>1. a \in r
    BY TakenIsMember
  <2>2. F[r] = f[a] + F[r \ {a}]
    BY DEF SumTo
  <2> HIDE DEF a
  <2>3. CASE y = a
    BY <2>2, <2>3
  <2>4. CASE y # a
    <3>1. r \ {a} \in T /\ r \ {y} \in T
      BY <2>1
    <3>2. F[r \ {a}] = f[y] + F[(r \ {a}) \ {y}]
      BY <2>4, <3>1
    <3>3. F[r \ {y}] = f[a] + F[(r \ {y}) \ {a}]
      BY <2>1, <2>4, <3>1
    <3>4. (r \ {a}) \ {y} = (r \ {y}) \ {a}
      OBVIOUS
    <3> DEFINE q == (r \ {y}) \ {a}
    <3>5. q \in SUBSET D /\ F[q] \in Nat /\ f[a] \in Nat /\ f[y] \in Nat
      BY <1>1, <2>1
    <3> HIDE DEF q
    <3>6. F[r \ {a}] = f[y] + F[q] /\ F[r \ {y}] = f[a] + F[q]
      BY <3>2, <3>3, <3>4 DEF q
    <3> QED
      BY <2>2, <3>5, <3>6
  <2> QED
    BY <2>3, <2>4
<1>3. s \in T
  <2> HIDE DEF T
  <2> QED
    BY <1>2, Subsets
<1> QED
  BY <1>3

LEMMA SumMonotone ==
    ASSUME NEW D, IsFiniteSet(D), NEW f \in [D -> Nat], NEW F, SumTo(D, f, F),
           NEW s \in SUBSET D, NEW r \in SUBSET s
    PROVE  F[r] \in Nat /\ F[s] \in Nat /\ F[r] <= F[s]
<1> DEFINE T == {q \in SUBSET D : \A p \in SUBSET q : F[p] <= F[q]}
<1>1. \A q \in SUBSET D : F[q] \in Nat
  BY DEF SumTo
<1>2. Inherited(D, T)
  <2> SUFFICES ASSUME NEW q \in SUBSET D, \A o \in SUBSET q : o # q => o \in T, NEW p \in SUBSET q
               PROVE  F[p] <= F[q]
    BY DEF Inherited
  <2>1. CASE p = q
    BY <1>1, <2>1
  <2>2. CASE p # q
    <3>1. PICK x \in q : x \notin p
      BY <2>2
    <3>2. F[q] = f[x] + F[q \ {x}]
      BY SumTakesAny
    <3>3. F[p] <= F[q \ {x}]
      BY <3>1
    <3>4. F[p] \in Nat /\ F[q \ {x}] \in Nat /\ F[q] \in Nat /\ f[x] \in Nat
      BY <1>1
    <3> QED
      BY <3>2, <3>3, <3>4
  <2> QED
    BY <2>1, <2>2
<1>3. s \in T
  <2> HIDE DEF T
  <2> QED
    BY <1>2, Subsets
<1> QED
  BY <1>1, <1>3

(* A one-to-one image with the same values has the same sum.               *)
SameSums(D, F, G, h) == \A s \in SUBSET D : G[{h[x] : x \in s}] = F[s]

LEMMA SumsMatch ==
    ASSUME NEW D, IsFiniteSet(D), NEW f \in [D -> Nat], NEW F, SumTo(D, f, F),
           NEW E, IsFiniteSet(E), NEW g \in [E -> Nat], NEW G, SumTo(E, g, G),
           NEW h \in [D -> E], \A x, y \in D : h[x] = h[y] => x = y,
           \A x \in D : g[h[x]] = f[x]
    PROVE  SameSums(D, F, G, h)
<1> DEFINE Image(r) == {h[x] : x \in r}
           T == {r \in SUBSET D : G[Image(r)] = F[r]}
<1>1. Inherited(D, T)
  <2> SUFFICES ASSUME NEW r \in SUBSET D, \A q \in SUBSET r : q # r => q \in T
               PROVE  G[Image(r)] = F[r]
    BY DEF Inherited
  <2>1. Image(r) \in SUBSET E
    OBVIOUS
  <2>2. CASE r = {}
    <3>1. Image(r) = {}
      BY <2>2
    <3> HIDE DEF Image
    <3>2. {} \in SUBSET D /\ {} \in SUBSET E
      OBVIOUS
    <3>3. F[{}] = 0 /\ G[{}] = 0
      BY <3>2 DEF SumTo
    <3> QED
      BY <2>2, <3>1, <3>3
  <2>3. CASE r # {}
    <3>1. PICK x \in r : TRUE
      BY <2>3
    <3>2. F[r] = f[x] + F[r \ {x}]
      BY SumTakesAny
    <3>3. h[x] \in Image(r) /\ Image(r) \ {h[x]} = Image(r \ {x})
      OBVIOUS
    <3>4. r \ {x} \in T
      BY <3>1
    <3>5. G[Image(r \ {x})] = F[r \ {x}]
      BY <3>4
    <3> HIDE DEF Image, T
    <3>6. G[Image(r)] = g[h[x]] + G[Image(r) \ {h[x]}]
      BY <2>1, <3>3, SumTakesAny
    <3>7. g[h[x]] = f[x]
      OBVIOUS
    <3> QED
      BY <3>2, <3>3, <3>5, <3>6, <3>7
  <2> QED
    BY <2>2, <2>3
<1>2. \A s \in SUBSET D : s \in T
  <2> HIDE DEF T
  <2> QED
    BY <1>1, Subsets
<1> QED
  BY <1>2 DEF SameSums

(* What a recursion over the subsets of C computes.                        *)
SumEquation(C, f, g) ==
    g = [s \in SUBSET C |-> IF s = {} THEN 0 ELSE f[Taken(s)] + g[s \ {Taken(s)}]]

LEMMA SumSolution ==
    ASSUME NEW D, IsFiniteSet(D), NEW f \in [D -> Nat], NEW F, SumTo(D, f, F), NEW C \in SUBSET D
    PROVE  /\ \E g : SumEquation(C, f, g)
           /\ \A g : SumEquation(C, f, g) => g[C] = F[C]
<1> DEFINE H == [s \in SUBSET C |-> F[s]]
<1>1. IsFiniteSet(C)
  BY FS_Subset
<1>2. \A s \in SUBSET C : s \in SUBSET D /\ (s # {} => s \ {Taken(s)} \in SUBSET C)
  OBVIOUS
<1>3. \A s \in SUBSET C : F[s] = IF s = {} THEN 0 ELSE f[Taken(s)] + F[s \ {Taken(s)}]
  BY <1>2 DEF SumTo
<1>4. SumEquation(C, f, H)
  BY <1>2, <1>3 DEF SumEquation
<1>5. ASSUME NEW W, SumEquation(C, f, W)
      PROVE  W[C] = F[C]
  <2> DEFINE T == {s \in SUBSET C : W[s] = F[s]}
  <2>1. \A s \in SUBSET C : W[s] = IF s = {} THEN 0 ELSE f[Taken(s)] + W[s \ {Taken(s)}]
    BY <1>5 DEF SumEquation
  <2>2. Inherited(C, T)
    <3> SUFFICES ASSUME NEW s \in SUBSET C, \A r \in SUBSET s : r # s => r \in T
                 PROVE  W[s] = F[s]
      BY DEF Inherited
    <3>1. CASE s = {}
      BY <1>3, <2>1, <3>1
    <3>2. CASE s # {}
      <4>1. s \ {Taken(s)} \in T
        BY <3>2, TakenIsMember
      <4> QED
        BY <1>3, <2>1, <3>2, <4>1
    <3> QED
      BY <3>1, <3>2
  <2>3. C \in T
    <3> HIDE DEF T
    <3> QED
      BY <1>1, <2>2, Subsets
  <2> QED
    BY <2>3
<1> HIDE DEF H
<1>6. \E g : SumEquation(C, f, g)
  BY <1>4
<1> QED
  BY <1>5, <1>6

(* Total, and the weight of a set of tokens, are such sums.                *)
LEMMA TotalIsSum ==
    ASSUME NEW D, IsFiniteSet(D), NEW f \in [D -> Nat], NEW F, SumTo(D, f, F), NEW C \in SUBSET D,
           \A c \in D : f[c] = Weight(c[2])
    PROVE  Total(C) = F[C]
<1> DEFINE E(g) == g = [s \in SUBSET C |-> IF s = {} THEN 0
                                          ELSE Weight(Taken(s)[2]) + g[s \ {Taken(s)}]]
           W == CHOOSE g : E(g)
<1>1. Total(C) = W[C]
  BY DEF Total, MapThenSumSet, MapThenFoldSet, Taken
<1>2. \A s \in SUBSET C : s # {} => f[Taken(s)] = Weight(Taken(s)[2])
  BY TakenIsMember
<1>3. \A g : E(g) <=> SumEquation(C, f, g)
  BY <1>2 DEF SumEquation
<1>4. PICK g : SumEquation(C, f, g)
  BY SumSolution
<1>5. E(g)
  BY <1>3, <1>4
<1>6. E(W)
  <2> HIDE DEF E
  <2> QED
    BY <1>5
<1> HIDE DEF W, E
<1>7. SumEquation(C, f, W)
  BY <1>3, <1>6
<1> QED
  BY <1>1, <1>7, SumSolution

LEMMA WeightOfIsSum ==
    ASSUME NEW w, NEW D, IsFiniteSet(D), NEW f \in [D -> Nat], NEW F, SumTo(D, f, F),
           NEW S \in SUBSET D, \A u \in D : f[u] = Weight(w[u])
    PROVE  WeightOf(w, S) = F[S]
<1> DEFINE E(g) == g = [s \in SUBSET S |-> IF s = {} THEN 0
                                          ELSE Weight(w[Taken(s)]) + g[s \ {Taken(s)}]]
           W == CHOOSE g : E(g)
<1>1. WeightOf(w, S) = W[S]
  BY DEF WeightOf, MapThenSumSet, MapThenFoldSet, Taken
<1>2. \A s \in SUBSET S : s # {} => f[Taken(s)] = Weight(w[Taken(s)])
  BY TakenIsMember
<1>3. \A g : E(g) <=> SumEquation(S, f, g)
  BY <1>2 DEF SumEquation
<1>4. PICK g : SumEquation(S, f, g)
  BY SumSolution
<1>5. E(g)
  BY <1>3, <1>4
<1>6. E(W)
  <2> HIDE DEF E
  <2> QED
    BY <1>5
<1> HIDE DEF W, E
<1>7. SumEquation(S, f, W)
  BY <1>3, <1>6
<1> QED
  BY <1>1, <1>7, SumSolution

-----------------------------------------------------------------------------
(* Sampling: candidates that hold all that is larger than any of them.     *)
WeightsCount == \A v \in Int : Weight(v) \in Nat

AllPairs(i) == {<<u, Wanted(i)[u]>> : u \in Tokens}

TopHeavy(i, G) ==
    /\ G \subseteq AllPairs(i)
    /\ \A c \in G : \A u \in Tokens : Wanted(i)[u] > c[2] => <<u, Wanted(i)[u]>> \in G

LEMMA PairsFinite ==
    ASSUME Prepared, NEW i \in Rows
    PROVE  IsFiniteSet(Tokens) /\ IsFiniteSet(AllPairs(i))
<1> DEFINE h == [u \in Tokens |-> <<u, Wanted(i)[u]>>]
<1>1. IsFiniteSet(Tokens)
  <2>1. 0 \in Int /\ VocabSize - 1 \in Int
    BY ShardFacts
  <2> QED
    BY <2>1, FS_Interval DEF Tokens
<1>2. h \in Surjection(Tokens, AllPairs(i))
  BY DEF Surjection, AllPairs
<1> QED
  BY <1>1, <1>2, FS_Surjection

(* The sums over pairs and over tokens.                                    *)
LEMMA PairSums ==
    ASSUME Prepared, WeightsCount, NEW i \in Rows, NEW G \in SUBSET AllPairs(i),
           NEW L \in SUBSET Tokens, NEW H, H = {<<u, Wanted(i)[u]>> : u \in L}
    PROVE  /\ Total(H) = WeightOf(Wanted(i), L) /\ Total(H) \in Nat
           /\ Total(G) <= WeightOf(Wanted(i), Tokens)
           /\ Total(G) \in Nat /\ WeightOf(Wanted(i), Tokens) \in Nat
           /\ WeightOf(Wanted(i), L) <= WeightOf(Wanted(i), Tokens)
<1> DEFINE w == Wanted(i)
           D == AllPairs(i)
           f == [c \in D |-> Weight(c[2])]
           e == [u \in Tokens |-> Weight(w[u])]
           h == [u \in Tokens |-> <<u, w[u]>>]
<1>1. IsFiniteSet(Tokens) /\ IsFiniteSet(D) /\ w \in [Tokens -> Int]
  BY PairsFinite, WantedType
<1> HIDE DEF w
<1>2. \A c \in D : c[2] \in Int
  BY <1>1 DEF AllPairs, w
<1>3. f \in [D -> Nat] /\ e \in [Tokens -> Nat]
  <2>1. \A c \in D : Weight(c[2]) \in Nat
    BY <1>2 DEF WeightsCount
  <2>2. \A u \in Tokens : Weight(w[u]) \in Nat
    BY <1>1 DEF WeightsCount
  <2> QED
    BY <2>1, <2>2
<1>4. h \in [Tokens -> D] /\ \A x, y \in Tokens : h[x] = h[y] => x = y
  BY DEF AllPairs, w
<1>5. \A u \in Tokens : f[h[u]] = e[u]
  BY <1>4
<1>6. \A c \in D : f[c] = Weight(c[2])
  OBVIOUS
<1>7. \A u \in Tokens : e[u] = Weight(w[u])
  OBVIOUS
<1>8. H = {h[u] : u \in L} /\ D = {h[u] : u \in Tokens} /\ H \in SUBSET D
  BY DEF AllPairs, w
<1> HIDE DEF f, e, h, D
<1>9. PICK F : SumTo(D, f, F)
  BY <1>1, <1>3, Summable
<1>10. PICK E : SumTo(Tokens, e, E)
  BY <1>1, <1>3, Summable
<1>11. SameSums(Tokens, E, F, h)
  BY <1>1, <1>3, <1>4, <1>5, <1>9, <1>10, SumsMatch
<1>12. F[{h[u] : u \in L}] = E[L] /\ F[{h[u] : u \in Tokens}] = E[Tokens]
  BY <1>11 DEF SameSums
<1>13. Total(H) = F[H] /\ Total(G) = F[G]
  <2>1. G \in SUBSET D
    BY DEF D
  <2>2. Total(G) = F[G]
    BY <1>1, <1>3, <1>6, <1>9, <2>1, TotalIsSum
  <2>3. Total(H) = F[H]
    BY <1>1, <1>3, <1>6, <1>8, <1>9, TotalIsSum
  <2> QED
    BY <2>2, <2>3
<1>14. WeightOf(w, L) = E[L] /\ WeightOf(w, Tokens) = E[Tokens]
  <2>1. Tokens \in SUBSET Tokens
    OBVIOUS
  <2>2. WeightOf(w, L) = E[L]
    BY <1>1, <1>3, <1>7, <1>10, WeightOfIsSum
  <2>3. WeightOf(w, Tokens) = E[Tokens]
    BY <1>1, <1>3, <1>7, <1>10, <2>1, WeightOfIsSum
  <2> QED
    BY <2>2, <2>3
<1>15. F[G] \in Nat /\ F[D] \in Nat /\ F[G] <= F[D]
  <2>1. D \in SUBSET D /\ G \in SUBSET D
    BY DEF D
  <2> QED
    BY <1>1, <1>3, <1>9, <2>1, SumMonotone
<1>16. E[L] \in Nat /\ E[Tokens] \in Nat /\ E[L] <= E[Tokens]
  <2>1. Tokens \in SUBSET Tokens
    OBVIOUS
  <2> QED
    BY <1>1, <1>3, <1>10, <2>1, SumMonotone
<1> QED
  BY <1>8, <1>12, <1>13, <1>14, <1>15, <1>16 DEF w

LEMMA ScaledOrder ==
    ASSUME NEW k \in Nat, NEW a \in Nat, NEW b \in Nat, a <= b
    PROVE  k * a <= k * b
BY Z3

(* What top_k and top_p leave of such candidates, they leave of the whole  *)
(* vocabulary.                                                             *)
LEMMA SampledWithin ==
    ASSUME Prepared, WeightsCount, NEW i \in Rows, NEW G, TopHeavy(i, G),
           NEW t \in Sampled(G, seqs[i])
    PROVE  t \in Tokens /\ MayBeSampled(i, t)
<1> DEFINE w == Wanted(i)
           seq == seqs[i]
           cut == IF seq.top_k > 0 /\ seq.top_k < Cardinality(G) THEN TopK(G, seq.top_k) ELSE {G}
           L == {u \in Tokens : w[u] > w[t]}
<1>1. PICK T \in cut : \E c \in Nucleus(T, Total(G), seq.top_p) : t = c[1]
  BY DEF Sampled
<1>2. PICK c \in Nucleus(T, Total(G), seq.top_p) : t = c[1]
  BY <1>1
<1>3. /\ c \in T /\ Weight(c[2]) > 0
      /\ seq.top_p = PDenominator \/ PDenominator * Total(Larger(T, c)) <= seq.top_p * Total(G)
  BY <1>2 DEF Nucleus
<1>4. w \in [Tokens -> Int] /\ seq.top_k \in Int /\ seq.top_p \in Nat /\ PDenominator \in Nat
  <2>1. seq.top_p \in 1 .. PDenominator /\ seq.top_k \in Int
    BY RowFacts DEF SamplingRequest
  <2> QED
    BY <2>1, WantedType, SamplingAssumption
<1>5. IsFiniteSet(AllPairs(i)) /\ IsFiniteSet(Tokens) /\ G \in SUBSET AllPairs(i)
  BY PairsFinite DEF TopHeavy
<1>6. T \subseteq G
  BY DEF TopK, kSubset
<1>7. \A d \in G : d[2] > c[2] => d \in T
  <2> SUFFICES ASSUME NEW d \in G, d[2] > c[2], d \notin T
               PROVE  FALSE
    OBVIOUS
  <2>1. T \in TopK(G, seq.top_k)
    OBVIOUS
  <2>2. c[2] >= d[2]
    BY <1>3, <2>1 DEF TopK
  <2>3. c[2] \in Int /\ d[2] \in Int
    <3>1. \A p \in AllPairs(i) : p[2] \in Int
      BY <1>4 DEF AllPairs
    <3> QED
      BY <1>3, <1>5, <1>6, <3>1
  <2> QED
    BY <2>2, <2>3
<1>8. t \in Tokens /\ c = <<t, w[t]>>
  BY <1>2, <1>3, <1>5, <1>6 DEF AllPairs
<1>9. IsFiniteSet(T) /\ Cardinality(T) \in Nat /\ (seq.top_k > 0 => Cardinality(T) <= seq.top_k)
  <2>1. IsFiniteSet(G) /\ IsFiniteSet(T) /\ Cardinality(G) \in Nat /\ Cardinality(T) \in Nat
    BY <1>5, <1>6, FS_Subset, FS_CardinalityType
  <2>2. CASE seq.top_k > 0 /\ seq.top_k < Cardinality(G)
    BY <1>4, <2>1, <2>2 DEF TopK, kSubset
  <2>3. CASE ~ (seq.top_k > 0 /\ seq.top_k < Cardinality(G))
    BY <1>4, <2>1, <2>3
  <2> QED
    BY <2>1, <2>2, <2>3
<1> HIDE DEF cut, seq
<1>10. Larger(T, c) = {<<u, w[u]>> : u \in L}
  <2>1. \A u \in L : <<u, w[u]>> \in Larger(T, c)
    <3> SUFFICES ASSUME NEW u \in L
                 PROVE  <<u, w[u]>> \in Larger(T, c)
      OBVIOUS
    <3>1. w[u] > c[2] /\ <<u, w[u]>> \in G
      BY <1>3, <1>6, <1>8 DEF TopHeavy
    <3>2. <<u, w[u]>>[2] > c[2]
      BY <3>1
    <3> QED
      BY <1>7, <3>1, <3>2 DEF Larger
  <2>2. \A d \in Larger(T, c) : \E u \in L : d = <<u, w[u]>>
    <3> SUFFICES ASSUME NEW d \in Larger(T, c)
                 PROVE  \E u \in L : d = <<u, w[u]>>
      OBVIOUS
    <3>1. d \in AllPairs(i) /\ d[2] > c[2]
      BY <1>5, <1>6 DEF Larger
    <3>2. PICK u \in Tokens : d = <<u, w[u]>>
      BY <3>1 DEF AllPairs
    <3>3. w[u] > w[t]
      BY <1>8, <3>1, <3>2
    <3> QED
      BY <3>2, <3>3
  <2> QED
    BY <2>1, <2>2
<1>11. L \in SUBSET Tokens
  OBVIOUS
<1>12. /\ Total(Larger(T, c)) = WeightOf(w, L) /\ Total(Larger(T, c)) \in Nat
       /\ Total(G) <= WeightOf(w, Tokens)
       /\ Total(G) \in Nat /\ WeightOf(w, Tokens) \in Nat
       /\ WeightOf(w, L) <= WeightOf(w, Tokens)
  <2> HIDE DEF L
  <2> QED
    BY <1>5, <1>10, <1>11, PairSums
<1>13. seq.top_k > 0 => Cardinality(L) < seq.top_k
  <2> DEFINE H == Larger(T, c)
             g == [u \in L |-> <<u, w[u]>>]
  <2>1. H \in SUBSET T /\ c \notin H /\ c \in T
    <3>1. ~ (c[2] > c[2])
      BY <1>4, <1>8
    <3> QED
      BY <1>3, <3>1 DEF Larger
  <2>2. IsFiniteSet(H) /\ Cardinality(H) \in Nat
    BY <1>9, <2>1, FS_Subset, FS_CardinalityType
  <2>3. Cardinality(H \cup {c}) = Cardinality(H) + 1
    BY <2>1, <2>2, FS_AddElement
  <2>4. Cardinality(H \cup {c}) <= Cardinality(T)
    <3>1. H \cup {c} \in SUBSET T
      BY <2>1
    <3> HIDE DEF H
    <3> QED
      BY <1>9, <3>1, FS_Subset
  <2>5. g \in Injection(L, H)
    BY <1>10 DEF Injection, IsInjective
  <2>6. Cardinality(L) <= Cardinality(H)
    <3> HIDE DEF g, L, H
    <3> QED
      BY <2>2, <2>5, FS_Injection
  <2>7. Cardinality(L) \in Nat
    BY <1>5, FS_Subset, FS_CardinalityType
  <2> HIDE DEF L, H
  <2> QED
    BY <1>4, <1>9, <2>2, <2>3, <2>4, <2>6, <2>7
<1>14. PDenominator * WeightOf(w, L) <= seq.top_p * WeightOf(w, Tokens)
  <2>1. CASE seq.top_p = PDenominator
    BY <1>4, <1>12, <2>1, ScaledOrder
  <2>2. CASE PDenominator * Total(Larger(T, c)) <= seq.top_p * Total(G)
    <3>1. seq.top_p * Total(G) <= seq.top_p * WeightOf(w, Tokens)
      BY <1>4, <1>12, ScaledOrder
    <3>2. \A x, y \in Nat : x * y \in Nat
      BY Z3
    <3> DEFINE a == PDenominator * WeightOf(w, L)
               b == seq.top_p * Total(G)
               d == seq.top_p * WeightOf(w, Tokens)
    <3>3. a \in Nat /\ b \in Nat /\ d \in Nat
      BY <1>4, <1>12, <3>2
    <3>4. a <= b /\ b <= d
      BY <1>12, <2>2, <3>1
    <3> HIDE DEF a, b, d
    <3>5. a <= d
      BY <3>3, <3>4
    <3> QED
      BY <3>5 DEF a, d
  <2> QED
    BY <1>3, <2>1, <2>2
<1>15. Weight(w[t]) > 0
  BY <1>3, <1>8
<1> QED
  BY <1>8, <1>13, <1>14, <1>15 DEF MayBeSampled, w, seq

(* The whole vocabulary, and what the ranks send of it.                    *)
LEMMA WholeIsTopHeavy ==
    ASSUME Prepared, NEW i \in Rows
    PROVE  TopHeavy(i, Pairs(Wanted(i), 0))
<1> DEFINE w == Wanted(i)
<1>1. w \in [Tokens -> Int] /\ \A t \in Tokens : t + 0 = t
  BY WantedType, ShardFacts DEF Tokens
<1> HIDE DEF w
<1>2. Pairs(w, 0) = {<<t, w[t]>> : t \in Tokens}
  BY <1>1 DEF Pairs
<1>3. Pairs(Wanted(i), 0) = AllPairs(i)
  BY <1>2 DEF AllPairs, w
<1> QED
  BY <1>3 DEF TopHeavy, AllPairs

LEMMA SentIsTopHeavy ==
    ASSUME Prepared, NEW i \in Rows,
           \A q \in TpRanks : sent[q][i] \in TopK(Pairs(EditedShard(q, i), q * vocab_shard),
                                                  CandidateCount),
           NEW G \in TopK(UNION {sent[q][i] : q \in TpRanks}, CandidateCount)
    PROVE  TopHeavy(i, G)
<1> DEFINE C == UNION {sent[q][i] : q \in TpRanks}
           w == Wanted(i)
           k == CandidateCount
           m == vocab_shard
           P(q) == Pairs(EditedShard(q, i), q * m)
<1>1. k \in Nat \ {0} /\ w \in [Tokens -> Int]
  BY SomeCandidates, WantedType
<1>2. \A q \in TpRanks : P(q) \subseteq AllPairs(i)
  <2> SUFFICES ASSUME NEW q \in TpRanks, NEW c \in P(q)
               PROVE  c \in AllPairs(i)
    OBVIOUS
  <2>1. IsCandidate(i, c)
    BY ShardCandidates
  <2>2. \E x, y : c = <<x, y>>
    BY DEF Pairs
  <2> QED
    BY <2>1, <2>2 DEF IsCandidate, AllPairs
<1>3. \A q \in TpRanks : sent[q][i] \subseteq P(q) /\ Cardinality(sent[q][i]) = k
  BY DEF TopK, kSubset
<1>4. C \subseteq AllPairs(i)
  BY <1>2, <1>3
<1>5. /\ G \subseteq C /\ Cardinality(G) = k
      /\ \A c \in G : \A d \in C \ G : c[2] >= d[2]
  BY DEF TopK, kSubset
<1>6. \A c \in AllPairs(i) : c[2] \in Int
  BY <1>1 DEF AllPairs
<1>7. IsFiniteSet(G)
  BY <1>4, <1>5, PairsFinite, FS_Subset
<1>8. ASSUME NEW c \in G, NEW u \in Tokens, w[u] > c[2], <<u, w[u]>> \notin G
      PROVE  FALSE
  <2> DEFINE e == <<u, w[u]>>
  <2>1. c[2] \in Int /\ w[u] \in Int /\ e[2] = w[u]
    BY <1>1, <1>4, <1>5, <1>6
  <2>2. e \notin C
    <3>1. ~ (c[2] >= e[2])
      BY <1>8, <2>1
    <3> QED
      BY <1>5, <1>8, <3>1
  <2>3. PICK q \in TpRanks : e \in P(q)
    <3>1. tp_size \in Nat \ {0} /\ m \in Nat \ {0} /\ tp_size * m = VocabSize
      BY ShardFacts
    <3>2. \E r \in 0 .. tp_size - 1 : \E j \in 0 .. m - 1 : u = r * m + j
      <4> HIDE DEF m
      <4>1. u \in 0 .. tp_size * m - 1
        BY <3>1 DEF Tokens
      <4> QED
        BY <3>1, <4>1, Divided
    <3>3. PICK r \in TpRanks, j \in 0 .. m - 1 : u = r * m + j
      BY <3>2 DEF TpRanks
    <3>4. <<j + r * m, w[r * m + j]>> \in P(r)
      BY ShardCandidates
    <3>5. j + r * m = r * m + j
      <4>1. r \in Nat /\ m \in Nat
        BY <3>1 DEF TpRanks
      <4> HIDE DEF m
      <4>2. r * m \in Int
        BY <4>1, Z3
      <4> QED
        BY <4>2
    <3>6. <<u, w[u]>> \in P(r)
      BY <3>3, <3>4, <3>5
    <3> QED
      BY <3>6
  <2> DEFINE S == sent[q][i]
  <2>4. e \notin S /\ S \subseteq C
    BY <2>2
  <2>5. \A s \in S : s[2] >= w[u]
    BY <2>1, <2>3, <2>4 DEF TopK
  <2>6. \A s \in S : s \in G /\ s # c
    <3> SUFFICES ASSUME NEW s \in S
                 PROVE  s \in G /\ s # c
      OBVIOUS
    <3>1. s[2] >= w[u] /\ s \in C /\ s[2] \in Int
      BY <1>4, <1>6, <2>4, <2>5
    <3>2. s[2] > c[2]
      BY <1>8, <2>1, <3>1
    <3>3. ~ (c[2] >= s[2])
      BY <2>1, <3>1, <3>2
    <3> QED
      BY <1>5, <2>1, <3>1, <3>2, <3>3
  <2>7. IsFiniteSet(S) /\ Cardinality(S) = k
    BY <1>3, <1>7, <2>6, FS_Subset
  <2> HIDE DEF S
  <2>8. Cardinality(S \cup {c}) = k + 1
    BY <2>6, <2>7, FS_AddElement
  <2>9. Cardinality(S \cup {c}) <= k
    BY <1>5, <1>7, <2>6, FS_Subset
  <2> QED
    BY <1>1, <2>8, <2>9
<1> QED
  BY <1>4, <1>5, <1>8 DEF TopHeavy

LEMMA SampledChoice ==
    ASSUME Prepared, AllSent, WeightsCount, NEW i \in Rows, ~ Greedy(seqs[i]), NEW t \in Choice(0, i)
    PROVE  MayBeSampled(i, t)
<1>1. path \in {"topk", "whole", "rows"}
  <2>1. ~ all_greedy
    BY DEF all_greedy
  <2>2. pass.is_prefill => i = 1
    BY RowFacts
  <2> QED
    BY <2>1, <2>2 DEF path
<1>2. 0 \in TpRanks
  BY ShardFacts
<1>3. CASE path = "topk"
  <2>1. \A q \in TpRanks : sent[q][i] \in TopK(Pairs(EditedShard(q, i), q * vocab_shard),
                                               CandidateCount)
    BY <1>3 DEF AllSent, Message
  <2>2. t \in FromCandidates(seqs[i], UNION {sent[q][i] : q \in TpRanks})
    BY <1>3 DEF Choice
  <2>3. PICK G \in TopK(UNION {sent[q][i] : q \in TpRanks}, CandidateCount) : t \in Sampled(G, seqs[i])
    BY <2>2 DEF FromCandidates
  <2> QED
    BY <2>1, <2>3, SentIsTopHeavy, SampledWithin
<1>4. CASE path = "whole"
  <2>1. EditedWhole(0, i) = Wanted(i)
    BY <1>2, <1>4, GatheredWhole, WholeEdits
  <2>2. t \in Sampled(Pairs(Wanted(i), 0), seqs[i])
    BY <1>4, <2>1 DEF Choice, FromWhole
  <2> QED
    BY <2>2, WholeIsTopHeavy, SampledWithin
<1>5. CASE path = "rows"
  <2>1. t \in Sampled(Pairs(Wanted(i), 0), seqs[i])
    BY <1>5, RowsSent DEF Choice, FromWhole
  <2> QED
    BY <2>1, WholeIsTopHeavy, SampledWithin
<1> QED
  BY <1>1, <1>3, <1>4, <1>5

(* A sampled token is one that the request's mask, top_k and top_p leave   *)
(* of the whole vocabulary: the candidates that a rank saw were enough.    *)
THEOREM SamplesStayWithinSupport ==
    ASSUME WeightsCount
    PROVE  SampleSpec => []WithinSupport
<1>1. SampleInv => WithinSupport
  <2> SUFFICES ASSUME SampleInv, NEW r \in TpRanks, rank_pc[r] = "done",
                      NEW i \in Rows, ~ Greedy(seqs[i])
               PROVE  MayBeSampled(i, token_ids[r][i])
    BY DEF WithinSupport
  <2>1. Prepared /\ AllSent
    BY DEF SampleInv, SentAsAsked, AllSent
  <2>2. token_ids[r][i] \in Choice(0, i)
    <3>1. CASE NeedsSync
      BY <3>1 DEF SampleInv, ChosenOrSynced, OwnChoice
    <3>2. CASE ~ NeedsSync
      <4>1. ~ all_greedy
        BY DEF all_greedy
      <4>2. r = 0
        BY <2>1, <3>2, <4>1, ShardFacts DEF NeedsSync, TpRanks
      <4> QED
        BY <3>2, <4>2 DEF SampleInv, ChosenOrSynced, OwnChoice
    <3> QED
      BY <3>1, <3>2
  <2> QED
    BY <2>1, <2>2, SampledChoice
<1> QED
  BY <1>1, SampleInvariant, PTL

-----------------------------------------------------------------------------
(* The attention kernels: what a row folds in.                             *)

Running == launch \in Launches /\ cta \in Grid(launch)

LEMMA DivisionIs ==
    ASSUME NEW q \in Nat, NEW m \in Nat \ {0}, NEW r \in 0 .. m - 1
    PROVE  (q * m + r) \div m = q /\ (q * m + r) % m = r
<1> DEFINE p == q * m + r
           a == p \div m
           b == p % m
<1>1. p \in Nat /\ a \in Int /\ b \in 0 .. m - 1 /\ p = a * m + b
  <2>1. p \in Nat
    <3>1. q * m \in Nat
      BY Z3
    <3> QED
      BY <3>1
  <2> HIDE DEF p
  <2> QED
    BY <2>1, Z3
<1>2. p = q * m + r
  OBVIOUS
<1> HIDE DEF p, a, b
<1>3. a = q
  <2>1. CASE a < q
    <3>1. (a + 1) * m <= q * m
      BY <1>1, <2>1, Z3
    <3>2. (a + 1) * m = a * m + m /\ a * m \in Int /\ q * m \in Int
      BY <1>1, Z3
    <3> QED
      BY <1>1, <1>2, <3>1, <3>2
  <2>2. CASE q < a
    <3>1. (q + 1) * m <= a * m
      BY <1>1, <2>2, Z3
    <3>2. (q + 1) * m = q * m + m /\ a * m \in Int /\ q * m \in Int
      BY <1>1, Z3
    <3> QED
      BY <1>1, <1>2, <3>1, <3>2
  <2> QED
    BY <1>1, <2>1, <2>2
<1>4. b = r
  <2>1. q * m \in Int
    BY Z3
  <2> QED
    BY <1>1, <1>2, <1>3, <2>1
<1> QED
  BY <1>3, <1>4 DEF p, a, b

LEMMA DivisionOf ==
    ASSUME NEW p \in Nat, NEW m \in Nat \ {0}
    PROVE  /\ p \div m \in Nat /\ p % m \in 0 .. m - 1
           /\ p = (p \div m) * m + (p % m) /\ (p \div m) * m <= p
<1> DEFINE a == p \div m
           b == p % m
<1>1. a \in Int /\ b \in 0 .. m - 1 /\ p = a * m + b
  BY Z3
<1> HIDE DEF a, b
<1>2. a >= 0
  <2> SUFFICES ASSUME a <= -1 PROVE FALSE
    BY <1>1
  <2>1. a * m <= -1 * m
    BY <1>1, Z3
  <2> QED
    BY <1>1, <2>1
<1>3. a * m \in Int
  BY <1>1, Z3
<1> QED
  BY <1>1, <1>2, <1>3 DEF a, b

LEMMA CeilCovers ==
    ASSUME NEW p \in Nat, NEW m \in Nat \ {0}
    PROVE  /\ CeilDiv(p, m) \in Nat /\ p <= CeilDiv(p, m) * m
           /\ \A r \in 0 .. p - 1 : r \div m \in 0 .. CeilDiv(p, m) - 1
<1> DEFINE c == CeilDiv(p, m)
<1>1. /\ c \in Nat /\ (p + m - 1) % m \in 0 .. m - 1
      /\ p + m - 1 = c * m + ((p + m - 1) % m)
  <2>1. p + m - 1 \in Nat
    OBVIOUS
  <2> QED
    BY <2>1, DivisionOf DEF CeilDiv
<1>2. c * m \in Nat
  BY <1>1, Z3
<1> HIDE DEF c
<1>3. p <= c * m
  BY <1>1, <1>2
<1>4. ASSUME NEW r \in 0 .. p - 1
      PROVE  r \div m \in 0 .. c - 1
  <2>1. r \div m \in Nat /\ (r \div m) * m <= r
    BY DivisionOf
  <2> DEFINE k == r \div m
  <2>2. k \in Nat /\ k * m <= r
    BY <2>1
  <2> HIDE DEF k
  <2>3. ASSUME c <= k
        PROVE  FALSE
    <3>1. c * m <= k * m
      BY <1>1, <2>2, <2>3, Z3
    <3>2. k * m \in Nat
      BY <2>2, Z3
    <3> QED
      BY <1>2, <1>3, <2>2, <3>1, <3>2
  <2>4. k < c
    BY <1>1, <2>2, <2>3
  <2>5. k \in 0 .. c - 1
    BY <1>1, <2>2, <2>4
  <2> QED
    BY <2>5 DEF k
<1> QED
  BY <1>1, <1>3, <1>4 DEF c

(* A chunk of N keys, of which those below `seen` are visible.             *)
InChunk(k, N, seen) == IF seen <= k * N THEN 0 ELSE Least(N, seen - k * N)

LEMMA FoldedPrefix ==
    ASSUME NEW i, NEW k \in Nat, NEW kc, NEW vc, NEW seen \in Nat, ChunkRows \in Nat \ {0},
           \A j \in 0 .. ChunkRows - 1 : Visible(i, k, j) <=> k * ChunkRows + j < seen
    PROVE  Folded(i, k, kc, vc) =
              [n \in 1 .. InChunk(k, ChunkRows, seen) |->
                  <<Row(kc[SliceOf(n - 1)], n - 1), Row(vc[SliceOf(n - 1)], n - 1)>>]
<1> DEFINE N == ChunkRows
           m == InChunk(k, N, seen)
           row(j) == <<Row(kc[SliceOf(j)], j), Row(vc[SliceOf(j)], j)>>
           G(n) == [x \in 1 .. Least(n, m) |-> row(x - 1)]
           f[n \in 0 .. N] ==
             IF n = 0 THEN <<>>
             ELSE IF Visible(i, k, n - 1) THEN Append(f[n - 1], row(n - 1)) ELSE f[n - 1]
           Step(g, n) == IF n = 0 THEN <<>>
                         ELSE IF Visible(i, k, n - 1) THEN Append(g[n - 1], row(n - 1)) ELSE g[n - 1]
<1>1. Folded(i, k, kc, vc) = f[N]
  BY DEF Folded
<1>2. k * N \in Nat
  BY Z3
<1> HIDE DEF row
<1>3. m \in 0 .. N /\ \A j \in 0 .. N - 1 : Visible(i, k, j) <=> j < m
  <2> DEFINE x == k * N
  <2>1. x \in Nat /\ m = (IF seen <= x THEN 0 ELSE Least(N, seen - x))
    BY <1>2 DEF InChunk
  <2>2. \A j \in 0 .. N - 1 : Visible(i, k, j) <=> x + j < seen
    OBVIOUS
  <2> HIDE DEF x, m
  <2> QED
    BY <2>1, <2>2 DEF Least
<1> HIDE DEF m
<1>4. \A n \in 0 .. N : G(n) = IF n = 0 THEN <<>>
                               ELSE IF Visible(i, k, n - 1) THEN Append(G(n - 1), row(n - 1)) ELSE G(n - 1)
  <2> SUFFICES ASSUME NEW n \in 1 .. N
               PROVE  G(n) = IF Visible(i, k, n - 1) THEN Append(G(n - 1), row(n - 1)) ELSE G(n - 1)
    <3>1. G(0) = <<>>
      BY <1>3 DEF Least
    <3> HIDE DEF G
    <3> QED
      BY <3>1
  <2>1. CASE n <= m
    <3>1. Visible(i, k, n - 1) /\ Least(n, m) = n /\ Least(n - 1, m) = n - 1
      BY <1>3, <2>1 DEF Least
    <3>2. G(n) = [x \in 1 .. n |-> row(x - 1)] /\ G(n - 1) = [x \in 1 .. n - 1 |-> row(x - 1)]
      BY <3>1
    <3>3. G(n) = Append(G(n - 1), row(n - 1))
      <4> HIDE DEF G
      <4> QED
        BY <3>2
    <3> QED
      BY <3>1, <3>3
  <2>2. CASE m < n
    <3>1. ~ Visible(i, k, n - 1) /\ Least(n, m) = m /\ Least(n - 1, m) = m
      BY <1>3, <2>2 DEF Least
    <3>2. G(n) = [x \in 1 .. m |-> row(x - 1)] /\ G(n - 1) = [x \in 1 .. m |-> row(x - 1)]
      BY ONLY <3>1 DEF G
    <3> HIDE DEF G
    <3> QED
      BY ONLY <3>1, <3>2, Zenon
  <2> QED
    BY <1>3, <2>1, <2>2
<1>5. f = [n \in 0 .. N |-> Step(f, n)]
  <2> DEFINE g == [n \in 0 .. N |-> G(n)]
  <2>1. g = [n \in 0 .. N |-> Step(g, n)]
    <3>1. \A n \in 0 .. N : n # 0 => g[n - 1] = G(n - 1)
      OBVIOUS
    <3>2. \A n \in 0 .. N : G(n) = Step(g, n)
      <4> HIDE DEF G, g
      <4> QED
        BY <1>4, <3>1
    <3> QED
      BY <3>2
  <2> HIDE DEF g
  <2>2. \E h : h = [n \in 0 .. N |-> Step(h, n)]
    BY <2>1
  <2> QED
    BY <2>2, Zenon
<1> HIDE DEF f
<1>6. /\ f[0] = <<>> /\ G(0) = <<>>
      /\ \A n \in 1 .. N : f[n] = IF Visible(i, k, n - 1) THEN Append(f[n - 1], row(n - 1)) ELSE f[n - 1]
  <2> HIDE DEF G
  <2>1. \A n \in 0 .. N : f[n] = Step(f, n)
    <3> HIDE DEF Step
    <3> QED
      BY <1>5, Zenon
  <2> QED
    BY <1>4, <2>1
<1> HIDE DEF G, Step
<1>8. \A n \in 0 .. N : f[n] = G(n)
  <2> DEFINE T == {n \in 0 .. N : f[n] = G(n)}
  <2>1. 0 \in T
    BY <1>6
  <2>2. \A n \in 1 .. N : n - 1 \in T => n \in T
    <3> SUFFICES ASSUME NEW n \in 1 .. N, f[n - 1] = G(n - 1)
                 PROVE  f[n] = G(n)
      OBVIOUS
    <3>1. n \in 0 .. N /\ n # 0
      OBVIOUS
    <3> QED
      BY <1>4, <1>6, <3>1
  <2>3. \A M \in 0 .. N : M \in T
    <3> SUFFICES ASSUME NEW M \in 0 .. N
                 PROVE  M \in T
      OBVIOUS
    <3>1. \A n \in 1 .. M : n - 1 \in T => n \in T
      BY <2>2
    <3> HIDE DEF T
    <3> QED
      BY <2>1, <3>1, Stepwise
  <2> QED
    BY <2>3
<1>7. Least(N, m) = m
  BY <1>3 DEF Least
<1> QED
  BY <1>1, <1>7, <1>8 DEF m, row, G

(* How many keys the query in row i of the block has.                      *)
Seen(i) ==
    IF Decode THEN launch.seqlen_kv[cta[3]]
    ELSE IF launch.is_causal THEN cta[1] * launch.block_M + i + offset(launch, cta) + 1
    ELSE kv_seqlen(launch, cta)

LEMMA MoreTimes ==
    ASSUME NEW m \in Nat, NEW a \in Nat, NEW b \in Nat
    PROVE  /\ a * m \in Nat /\ (a + 1) * m = a * m + m
           /\ a <= b => a * m <= b * m
<1>1. a * m \in Nat /\ (a + 1) * m = a * m + m
  BY Z3
<1>2. a <= b => a * m <= b * m
  BY Z3
<1> QED
  BY <1>1, <1>2

LEMMA DecodeFacts ==
    ASSUME Running, Decode
    PROVE  /\ PagedCall(launch) /\ launch.ws \in BOOLEAN
           /\ ChunkRows = DecodeBlockN(launch) /\ ChunkRows \in Nat \ {0}
           /\ cta[3] \in DOMAIN launch.seqlen_kv /\ cta[2] = 0
           /\ cta[1] \in 0 .. launch.heads \div valid_block_H(launch) - 1
           /\ cta = <<cta[1], 0, cta[3]>>
           /\ launch.seqlen_kv[cta[3]] \in Nat
           /\ launch.block_table[cta[3]] \in Seq(Int)
           /\ launch.seqlen_kv[cta[3]] <= Len(launch.block_table[cta[3]]) * launch.page_size
           /\ launch.page_size \in Nat \ {0} /\ launch.block_H \in Nat \ {0}
           /\ launch.heads \in Nat \ {0} /\ launch.kv_heads \in Nat \ {0}
<1>1. PagedCall(launch) /\ launch.ws \in BOOLEAN /\ MinBlockN \in Nat \ {0}
  BY KernelAssumption DEF Running, Decode
<1>2. /\ launch.page_size \in Nat \ {0} /\ launch.block_H \in Nat \ {0}
      /\ launch.heads \in Nat \ {0} /\ launch.kv_heads \in Nat \ {0}
  BY <1>1 DEF PagedCall
<1>3. ChunkRows = DecodeBlockN(launch) /\ ChunkRows \in Nat \ {0}
  BY <1>1, <1>2 DEF ChunkRows, DecodeBlockN, Most, Decode
<1>4. /\ cta[3] \in DOMAIN launch.seqlen_kv /\ cta[2] = 0 /\ cta = <<cta[1], 0, cta[3]>>
      /\ cta[1] \in 0 .. launch.heads \div valid_block_H(launch) - 1
  BY DEF Running, Grid, Decode, DecodeGrid
<1>5. /\ launch.seqlen_kv[cta[3]] \in Nat
      /\ launch.block_table[cta[3]] \in Seq(Int)
      /\ launch.seqlen_kv[cta[3]] <= Len(launch.block_table[cta[3]]) * launch.page_size
  <2> DEFINE b == cta[3]
             L == launch.seqlen_kv
             T == launch.block_table
  <2>1. L \in Seq(Nat) /\ T \in Seq(Seq(Int)) /\ Len(T) = Len(L) /\ b \in DOMAIN L
    BY <1>1, <1>4 DEF PagedCall
  <2>2. L[b] <= Len(T[b]) * launch.page_size
    BY <1>1, <1>4 DEF PagedCall
  <2>3. L[b] \in Nat /\ T[b] \in Seq(Int)
    <3> HIDE DEF b, L, T
    <3> QED
      BY <2>1
  <2> QED
    BY <2>2, <2>3
<1> QED
  BY <1>1, <1>2, <1>3, <1>4, <1>5

LEMMA VarlenFacts ==
    ASSUME Running, ~ Decode
    PROVE  /\ PackedCall(launch) /\ launch.ws \in BOOLEAN /\ launch.kernel = "varlen"
           /\ launch.block_M \in Nat \ {0} /\ launch.block_N \in Nat \ {0}
           /\ launch.heads \in Nat \ {0} /\ launch.groups \in Nat \ {0}
           /\ launch.is_causal \in BOOLEAN
           /\ ChunkRows = launch.block_N
           /\ cta[3] \in 1 .. Len(launch.cu_seqlens_q) - 1
           /\ cta[2] \in 0 .. launch.heads - 1
           /\ cta[1] \in Nat
           /\ cta = <<cta[1], cta[2], cta[3]>>
           /\ q_start_idx(launch, cta) \in Nat /\ kv_start_idx(launch, cta) \in Nat
           /\ q_seqlen(launch, cta) \in 0 .. launch.max_seqlen_q
           /\ kv_seqlen(launch, cta) \in Nat /\ offset(launch, cta) \in Nat
           /\ kv_seqlen(launch, cta) = q_seqlen(launch, cta) + offset(launch, cta)
<1>1. PackedCall(launch) /\ launch.ws \in BOOLEAN /\ launch.kernel = "varlen"
  BY KernelAssumption DEF Running, Decode
<1>2. /\ launch.block_M \in Nat \ {0} /\ launch.block_N \in Nat \ {0}
      /\ launch.heads \in Nat \ {0} /\ launch.groups \in Nat \ {0}
      /\ launch.is_causal \in BOOLEAN /\ ChunkRows = launch.block_N
  BY <1>1 DEF PackedCall, ChunkRows, Decode
<1>3. /\ cta[3] \in 1 .. Len(launch.cu_seqlens_q) - 1
      /\ cta[2] \in 0 .. launch.heads - 1
      /\ cta[1] \in Nat
      /\ cta = <<cta[1], cta[2], cta[3]>>
  <2> DEFINE w == CeilDiv(launch.max_seqlen_q, launch.block_M) - 1
  <2>1. /\ cta[3] \in 1 .. Len(launch.cu_seqlens_q) - 1
        /\ cta[2] \in 0 .. launch.heads - 1
        /\ cta[1] \in 0 .. w
        /\ cta = <<cta[1], cta[2], cta[3]>>
    BY DEF Running, Grid, Decode, VarlenGrid
  <2> HIDE DEF w
  <2>2. cta[1] \in Nat
    BY <2>1
  <2> QED
    BY <2>1, <2>2
<1> DEFINE b == cta[3]
           Q == launch.cu_seqlens_q
           K == launch.cu_seqlens_k
<1>4. Q \in Seq(Nat) /\ K \in Seq(Nat) /\ Len(K) = Len(Q) /\ launch.max_seqlen_q \in Nat
  BY <1>1 DEF PackedCall
<1>5. Q[b] \in Nat /\ Q[b + 1] \in Nat /\ K[b] \in Nat /\ K[b + 1] \in Nat
  <2>1. b \in 1 .. Len(Q) - 1
    BY <1>3
  <2> HIDE DEF Q, K, b
  <2>2. Len(Q) \in Nat /\ Len(K) = Len(Q) /\ b \in 1 .. Len(Q) /\ b + 1 \in 1 .. Len(Q)
    BY ONLY <1>4, <2>1
  <2>3. b + 1 \in 1 .. Len(K) /\ b \in 1 .. Len(K)
    BY ONLY <2>2
  <2>4. Q[b] \in Nat /\ Q[b + 1] \in Nat
    <3>1. Q \in Seq(Nat)
      BY <1>4
    <3> QED
      BY ONLY <2>2, <3>1
  <2>5. K[b] \in Nat /\ K[b + 1] \in Nat
    <3>1. K \in Seq(Nat)
      BY <1>4
    <3> QED
      BY ONLY <2>3, <3>1
  <2> QED
    BY <2>4, <2>5
<1>6. Q[b + 1] - Q[b] \in 0 .. launch.max_seqlen_q /\ Q[b + 1] - Q[b] <= K[b + 1] - K[b]
  BY <1>1, <1>3 DEF PackedCall
<1>7. /\ q_start_idx(launch, cta) = Q[b] /\ kv_start_idx(launch, cta) = K[b]
      /\ q_seqlen(launch, cta) = Q[b + 1] - Q[b]
      /\ kv_seqlen(launch, cta) = K[b + 1] - K[b]
      /\ offset(launch, cta) = (K[b + 1] - K[b]) - (Q[b + 1] - Q[b])
  BY DEF q_start_idx, kv_start_idx, q_seqlen, kv_seqlen, offset
<1> HIDE DEF Q, K, b
<1>8. /\ kv_seqlen(launch, cta) \in Nat /\ offset(launch, cta) \in Nat
      /\ kv_seqlen(launch, cta) = q_seqlen(launch, cta) + offset(launch, cta)
  BY <1>5, <1>6, <1>7
<1> QED
  BY <1>1, <1>2, <1>3, <1>5, <1>6, <1>7, <1>8

(* The keys that row i sees are those before a place, and the chunks that  *)
(* the block goes through hold all of them.                                *)
LEMMA SeenFirst ==
    ASSUME Running, NEW i \in BlockRows(launch), Stored(launch, cta, i)
    PROVE  /\ ChunkRows \in Nat \ {0} /\ Seen(i) \in Nat
           /\ \A k \in Nat : \A j \in 0 .. ChunkRows - 1 :
                 Visible(i, k, j) <=> k * ChunkRows + j < Seen(i)
           /\ LoopRange(launch, cta) \in Nat
           /\ Seen(i) <= LoopRange(launch, cta) * ChunkRows
<1>1. CASE Decode
  <2>1. /\ ChunkRows = DecodeBlockN(launch) /\ ChunkRows \in Nat \ {0}
        /\ launch.seqlen_kv[cta[3]] \in Nat
    BY <1>1, DecodeFacts
  <2>2. Seen(i) = launch.seqlen_kv[cta[3]]
    BY <1>1 DEF Seen
  <2>3. \A k \in Nat : \A j \in 0 .. ChunkRows - 1 :
           Visible(i, k, j) <=> k * ChunkRows + j < Seen(i)
    BY <1>1, <2>1, <2>2 DEF Visible, DecodeVisible
  <2>4. LoopRange(launch, cta) = CeilDiv(Seen(i), ChunkRows)
    BY <1>1, <2>1, <2>2 DEF LoopRange, DecodeRange, Decode
  <2> QED
    BY <2>1, <2>2, <2>3, <2>4, CeilCovers
<1>2. CASE ~ Decode
  <2> DEFINE x == cta[1] * launch.block_M
             N == ChunkRows
             o == offset(launch, cta)
             qn == q_seqlen(launch, cta)
             kn == kv_seqlen(launch, cta)
             M == launch.block_M
  <2>1. /\ M \in Nat \ {0} /\ N \in Nat \ {0} /\ N = launch.block_N /\ cta[1] \in Nat
        /\ o \in Nat /\ kn \in Nat /\ qn \in Nat /\ kn = qn + o /\ launch.is_causal \in BOOLEAN
        /\ launch.ws \in BOOLEAN /\ launch.kernel # "decode"
    <3>1. cta[1] \in Nat
      BY <1>2, VarlenFacts
    <3> QED
      BY <1>2, <3>1, VarlenFacts DEF Decode
  <2>2. x \in Nat /\ (cta[1] + 1) * M = x + M
    BY <2>1, MoreTimes
  <2>3. i \in 0 .. M - 1 /\ x + i < qn
    BY <1>2, <2>1 DEF BlockRows, Stored, Decode
  <2>4. /\ Seen(i) = IF launch.is_causal THEN x + i + o + 1 ELSE kn
        /\ Seen(i) \in Nat /\ Seen(i) <= kn
    <3>1. Seen(i) = IF launch.is_causal THEN x + i + o + 1 ELSE kn
      BY <1>2 DEF Seen
    <3> HIDE DEF x, o, qn, kn, M, N
    <3> QED
      BY <2>1, <2>2, <2>3, <3>1
  <2>5. ASSUME NEW k \in Nat, NEW j \in 0 .. N - 1
        PROVE  Visible(i, k, j) <=> k * N + j < Seen(i)
    <3> DEFINE y == k * N
               masked == (launch.is_causal /\ x + i + o < y + j) \/ x + i >= qn \/ y + j >= kn
               need == \/ launch.is_causal /\ y + N - 1 > x + o
                       \/ x + M > qn \/ y + N > kn
    <3>1. y \in Nat /\ (k + 1) * N = y + N
      BY <2>1, MoreTimes
    <3>2. Visible(i, k, j) <=> ((launch.ws \/ need_mask(launch, cta, k)) => ~ masked)
      BY <1>2, <2>1 DEF Visible, VarlenVisible
    <3>3. need_mask(launch, cta, k) <=> need
      BY <2>1, <2>2, <3>1 DEF need_mask
    <3> HIDE DEF x, y, o, qn, kn, M, N
    <3>4. ~ masked <=> y + j < Seen(i)
      BY <2>1, <2>2, <2>3, <2>4, <3>1
    <3>5. ~ need => ~ masked
      BY <2>1, <2>2, <2>3, <3>1
    <3> HIDE DEF masked, need
    <3> QED
      BY <3>2, <3>3, <3>4, <3>5 DEF y
  <2>6. LoopRange(launch, cta) \in Nat /\ Seen(i) <= LoopRange(launch, cta) * N
    <3> DEFINE v == max_visible_k_idx(launch, cta)
               r == LoopRange(launch, cta)
    <3>1. v = o + (x + M)
      BY <2>1, <2>2 DEF max_visible_k_idx
    <3>2. is_valid_cta(launch, cta)
      <4>1. is_valid_cta(launch, cta) <=> x < qn
        BY DEF is_valid_cta
      <4> HIDE DEF x, qn
      <4> QED
        BY <2>1, <2>2, <2>3, <4>1
    <3>3. r = IF launch.is_causal THEN Least(CeilDiv(v, N), CeilDiv(kn, N)) ELSE CeilDiv(kn, N)
      BY <1>2, <2>1, <3>2 DEF LoopRange, VarlenRange, Decode
    <3> HIDE DEF x, o, qn, kn, M, N, v, r
    <3>4. v \in Nat /\ (launch.is_causal => Seen(i) <= v)
      BY <2>1, <2>2, <2>3, <2>4, <3>1
    <3>5. /\ CeilDiv(v, N) \in Nat /\ v <= CeilDiv(v, N) * N /\ CeilDiv(v, N) * N \in Nat
          /\ CeilDiv(kn, N) \in Nat /\ kn <= CeilDiv(kn, N) * N /\ CeilDiv(kn, N) * N \in Nat
      BY <2>1, <3>4, CeilCovers, MoreTimes
    <3>6. r \in {CeilDiv(v, N), CeilDiv(kn, N)} /\ (r = CeilDiv(v, N) => launch.is_causal \/ r = CeilDiv(kn, N))
      BY <3>3 DEF Least
    <3>7. CASE r = CeilDiv(kn, N)
      BY <2>1, <2>4, <3>5, <3>7 DEF r
    <3>8. CASE r = CeilDiv(v, N) /\ launch.is_causal
      BY <2>1, <2>4, <3>4, <3>5, <3>8 DEF r
    <3> QED
      BY <3>6, <3>7, <3>8
  <2> QED
    BY <2>1, <2>4, <2>5, <2>6
<1> QED
  BY <1>1, <1>2

(* The row of the cache that holds the key of position p, and the pairs of *)
(* the first k chunks.                                                     *)
KeyAt(p) == Row(p \div ChunkRows, p % ChunkRows)

FoldedUpTo(i, k) ==
    [n \in 1 .. Least(Seen(i), k * ChunkRows) |-> <<KeyAt(n - 1), KeyAt(n - 1)>>]

Whole(k, c) == \A m \in MemoryThreads : c[m] = k

LEMMA SlicesAreCopied ==
    ASSUME NEW j \in Nat
    PROVE  SliceOf(j) \in MemoryThreads
<1> DEFINE n == Cardinality(MemoryThreads)
<1>1. IsFiniteSet(MemoryThreads) /\ MemoryThreads = 0 .. n - 1
  BY KernelAssumption
<1>2. n \in Nat
  BY <1>1, FS_CardinalityType
<1> HIDE DEF n
<1>3. n # 0
  BY <1>1, <1>2, ThreadsAssumption
<1>4. j % n \in 0 .. n - 1
  BY <1>2, <1>3, DivisionOf
<1> QED
  BY <1>1, <1>4 DEF SliceOf, n

LEMMA FoldGrows ==
    ASSUME Running, NEW i \in BlockRows(launch), Stored(launch, cta, i),
           NEW k \in Nat, NEW kc, NEW vc, Whole(k, kc), Whole(k, vc)
    PROVE  FoldedUpTo(i, k) \o Folded(i, k, kc, vc) = FoldedUpTo(i, k + 1)
<1> DEFINE N == ChunkRows
           s == Seen(i)
           y == k * N
           m == InChunk(k, N, s)
           a == Least(s, y)
           z == Least(s, (k + 1) * N)
           G == [n \in 1 .. m |-> <<Row(kc[SliceOf(n - 1)], n - 1), Row(vc[SliceOf(n - 1)], n - 1)>>]
           P(p) == <<KeyAt(p), KeyAt(p)>>
<1>1. N \in Nat \ {0} /\ s \in Nat
  BY SeenFirst
<1>2. Folded(i, k, kc, vc) = G
  <2>1. \A j \in 0 .. N - 1 : Visible(i, k, j) <=> k * N + j < s
    BY SeenFirst
  <2> HIDE DEF s
  <2> QED
    BY <1>1, <2>1, FoldedPrefix
<1>3. y \in Nat /\ (k + 1) * N = y + N
  BY <1>1, MoreTimes
<1>4. a \in Nat /\ m \in 0 .. N /\ z = a + m /\ (m > 0 => a = y)
  <2>1. m = (IF s <= y THEN 0 ELSE Least(N, s - y)) /\ z = Least(s, y + N)
    BY <1>3 DEF InChunk
  <2> HIDE DEF N, s, y, m, z
  <2> QED
    BY <1>1, <1>3, <2>1 DEF Least
<1>5. \A n \in 1 .. m : G[n] = P(a + n - 1)
  <2> SUFFICES ASSUME NEW n \in 1 .. m
               PROVE  G[n] = P(a + n - 1)
    OBVIOUS
  <2>1. n - 1 \in 0 .. N - 1 /\ a + n - 1 = y + (n - 1)
    <3> HIDE DEF N, m, y, a
    <3> QED
      BY <1>1, <1>3, <1>4
  <2>2. (k * N + (n - 1)) \div N = k /\ (k * N + (n - 1)) % N = n - 1
    BY <1>1, <2>1, DivisionIs
  <2>3. kc[SliceOf(n - 1)] = k /\ vc[SliceOf(n - 1)] = k
    <3>1. SliceOf(n - 1) \in MemoryThreads
      BY <2>1, SlicesAreCopied
    <3> QED
      BY <3>1 DEF Whole
  <2>4. KeyAt(a + n - 1) = Row(k, n - 1)
    BY <2>1, <2>2 DEF KeyAt
  <2> QED
    BY <2>3, <2>4
<1>6. /\ FoldedUpTo(i, k) = [n \in 1 .. a |-> P(n - 1)]
      /\ FoldedUpTo(i, k + 1) = [n \in 1 .. z |-> P(n - 1)]
  BY DEF FoldedUpTo
<1> HIDE DEF N, s, y, m, a, z, P
<1>7. [n \in 1 .. a |-> P(n - 1)] \o G = [n \in 1 .. a + m |-> P(n - 1)]
  <2>1. Len(G) = m /\ DOMAIN G = 1 .. m
    BY <1>4
  <2> DEFINE F == [n \in 1 .. a |-> P(n - 1)]
             H == [n \in 1 .. a + m |-> P(n - 1)]
  <2>2. Len(F) = a /\ DOMAIN F = 1 .. a /\ Len(H) = a + m /\ DOMAIN H = 1 .. a + m
    BY <1>4
  <2>3. F \o G = [n \in 1 .. a + m |-> IF n <= a THEN F[n] ELSE G[n - a]]
    <3> DEFINE S == {F[n] : n \in 1 .. a} \cup {G[n] : n \in 1 .. m}
    <3>1. F \in [1 .. a -> S] /\ G \in [1 .. m -> S]
      <4>1. \A n \in 1 .. a : F[n] \in S
        OBVIOUS
      <4>2. \A n \in 1 .. m : G[n] \in S
        OBVIOUS
      <4> HIDE DEF S
      <4> QED
        BY <4>1, <4>2
    <3>2. m \in Nat
      BY <1>4
    <3> HIDE DEF F, G, S
    <3>3. F \in Seq(S) /\ G \in Seq(S)
      BY <1>4, <3>1, <3>2
    <3>4. /\ F \o G \in Seq(S) /\ Len(F \o G) = a + m
          /\ \A n \in 1 .. a + m : (F \o G)[n] = IF n <= a THEN F[n] ELSE G[n - a]
      <4>1. /\ F \o G \in Seq(S) /\ Len(F \o G) = Len(F) + Len(G)
            /\ \A n \in 1 .. Len(F) + Len(G) : (F \o G)[n] = IF n <= Len(F) THEN F[n] ELSE G[n - Len(F)]
        BY <3>3, ConcatProperties
      <4> QED
        BY <2>1, <2>2, <4>1
    <3> DEFINE J == F \o G
    <3> HIDE DEF J
    <3>5. J \in [1 .. a + m -> S]
      <4>1. J \in Seq(S) /\ Len(J) = a + m
        BY <3>4 DEF J
      <4> QED
        BY <4>1, LenProperties
    <3>6. \A n \in 1 .. a + m : J[n] = IF n <= a THEN F[n] ELSE G[n - a]
      BY <3>4 DEF J
    <3> QED
      BY <3>5, <3>6 DEF J
  <2>4. \A n \in 1 .. a + m : (IF n <= a THEN F[n] ELSE G[n - a]) = P(n - 1)
    <3> SUFFICES ASSUME NEW n \in 1 .. a + m
                 PROVE  (IF n <= a THEN F[n] ELSE G[n - a]) = P(n - 1)
      OBVIOUS
    <3>1. CASE n <= a
      <4>1. n \in 1 .. a
        BY <1>4, <3>1
      <4> QED
        BY <3>1, <4>1
    <3>2. CASE ~ (n <= a)
      <4>1. n - a \in 1 .. m /\ a + (n - a) - 1 = n - 1
        BY <1>4, <3>2
      <4>2. G[n - a] = P(a + (n - a) - 1)
        <5> HIDE DEF G
        <5> QED
          BY <1>5, <4>1
      <4> HIDE DEF G
      <4> QED
        BY <3>2, <4>1, <4>2
    <3> QED
      BY <3>1, <3>2
  <2> QED
    BY <2>3, <2>4
<1> QED
  BY <1>2, <1>4, <1>6, <1>7

(* A compute thread that is through k chunks has folded the first k into   *)
(* each of its rows, and what it is to fold in next are slices of its own  *)
(* chunk.                                                                  *)
ThreadsInv ==
    IF launch.ws THEN PipeInv
    ELSE ck \in [ComputeThreads -> Nat] /\ \A t \in ComputeThreads : compute[t] = "wait"

ScoresInv ==
    /\ DOMAIN scores = ComputeThreads
    /\ \A t \in ComputeThreads : compute[t] = "values" => Whole(ck[t], scores[t])

RowsInv ==
    /\ DOMAIN acc_o = BlockRows(launch)
    /\ \A t \in ComputeThreads : \A i \in RowsOf(t) :
          Stored(launch, cta, i) => acc_o[i] = FoldedUpTo(i, ck[t])

WrittenInv ==
    \A row \in Output : \E i \in BlockRows(launch) :
        Stored(launch, cta, i) /\ row = <<Query(launch, cta, i), FoldedUpTo(i, loop_range)>>

AttentionInv ==
    /\ Running /\ loop_range = LoopRange(launch, cta)
    /\ ThreadsInv /\ ScoresInv /\ RowsInv /\ WrittenInv

LEMMA BlockStays ==
    ASSUME Running, loop_range = LoopRange(launch, cta), UNCHANGED <<launch, cta, loop_range>>
    PROVE  /\ Running' /\ (loop_range = LoopRange(launch, cta))'
           /\ \A t : RowsOf(t)' = RowsOf(t)
           /\ \A i, k : FoldedUpTo(i, k)' = FoldedUpTo(i, k)
<1>1. Running' /\ (loop_range = LoopRange(launch, cta))' /\ \A t : RowsOf(t)' = RowsOf(t)
  BY DEF Running, RowsOf
<1>2. \A i : Seen(i)' = Seen(i)
  BY DEF Seen, Decode
<1>3. ChunkRows' = ChunkRows /\ \A p : KeyAt(p)' = KeyAt(p)
  BY DEF KeyAt, Row, ChunkRows, Decode
<1>4. \A i, k : FoldedUpTo(i, k)' = FoldedUpTo(i, k)
  BY <1>2, <1>3 DEF FoldedUpTo
<1> QED
  BY <1>1, <1>4

LEMMA NoKeysYet ==
    ASSUME Running, NEW i \in BlockRows(launch), Stored(launch, cta, i)
    PROVE  FoldedUpTo(i, 0) = <<>>
<1>1. Seen(i) \in Nat /\ ChunkRows \in Nat
  BY SeenFirst
<1>2. Least(Seen(i), 0 * ChunkRows) = 0
  BY <1>1 DEF Least
<1> QED
  BY <1>2 DEF FoldedUpTo

LEMMA GridHasChunks ==
    ASSUME Running
    PROVE  LoopRange(launch, cta) \in Nat
<1>1. CASE Decode
  BY <1>1, DecodeFacts, CeilCovers DEF LoopRange, DecodeRange, Decode
<1>2. CASE ~ Decode
  <2> DEFINE N == launch.block_N
             v == max_visible_k_idx(launch, cta)
             kn == kv_seqlen(launch, cta)
  <2>1. N \in Nat \ {0} /\ kn \in Nat /\ offset(launch, cta) \in Nat
    BY <1>2, VarlenFacts
  <2>2. v \in Nat
    <3>1. cta[1] + 1 \in Nat /\ launch.block_M \in Nat
      <4>1. cta[1] \in Nat /\ launch.block_M \in Nat
        BY <1>2, VarlenFacts
      <4> QED
        BY <4>1
    <3>2. (cta[1] + 1) * launch.block_M \in Nat
      BY <3>1, MoreTimes
    <3> QED
      BY <2>1, <3>2 DEF max_visible_k_idx
  <2> HIDE DEF N, v, kn
  <2>3. CeilDiv(v, N) \in Nat /\ CeilDiv(kn, N) \in Nat
    BY <2>1, <2>2, CeilCovers
  <2> QED
    BY <1>2, <2>3 DEF LoopRange, VarlenRange, Decode, Least, N, v, kn
<1> QED
  BY <1>1, <1>2

LEMMA AttentionInvInit == AttentionInit => AttentionInv
<1> SUFFICES ASSUME AttentionInit
             PROVE  AttentionInv
  OBVIOUS
<1>1. Running /\ loop_range = LoopRange(launch, cta) /\ loop_range \in Nat
  BY GridHasChunks DEF AttentionInit, Running
<1>2. ThreadsInv
  <2>1. PipeInv
    BY <1>1, PipeInvInit DEF AttentionInit
  <2>2. ck \in [ComputeThreads -> Nat] /\ \A t \in ComputeThreads : compute[t] = "wait"
    BY DEF AttentionInit, PipeInit
  <2> QED
    BY <2>1, <2>2 DEF ThreadsInv
<1>3. ScoresInv
  BY DEF AttentionInit, PipeInit, ScoresInv
<1>4. RowsInv
  <2>1. \A t \in ComputeThreads : ck[t] = 0
    BY DEF AttentionInit, PipeInit
  <2>2. acc_o = [i \in BlockRows(launch) |-> <<>>]
    BY DEF AttentionInit
  <2>3. \A t : RowsOf(t) \subseteq BlockRows(launch)
    BY DEF RowsOf
  <2> QED
    BY <1>1, <2>1, <2>2, <2>3, NoKeysYet DEF RowsInv
<1>5. WrittenInv
  BY DEF AttentionInit, WrittenInv
<1> QED
  BY <1>1, <1>2, <1>3, <1>4, <1>5 DEF AttentionInv

(* A thread that folds in its chunk is the only one to change its rows.    *)
LEMMA FoldKeepsRows ==
    ASSUME AttentionInv, NEW t \in ComputeThreads, ck \in [ComputeThreads -> Nat],
           NEW kc, NEW vc, Whole(ck[t], kc), Whole(ck[t], vc), Fold(t, kc, vc),
           ck' = [ck EXCEPT ![t] = @ + 1], UNCHANGED <<launch, cta, loop_range>>
    PROVE  RowsInv'
<1>1. /\ Running /\ loop_range = LoopRange(launch, cta)
      /\ DOMAIN acc_o = BlockRows(launch)
      /\ \A u \in ComputeThreads : \A i \in RowsOf(u) :
            Stored(launch, cta, i) => acc_o[i] = FoldedUpTo(i, ck[u])
  BY DEF AttentionInv, RowsInv
<1>2. /\ \A u : RowsOf(u)' = RowsOf(u)
      /\ \A i, k : FoldedUpTo(i, k)' = FoldedUpTo(i, k)
  BY <1>1, BlockStays
<1>3. DOMAIN acc_o' = BlockRows(launch')
  BY <1>1 DEF Fold
<1>4. ASSUME NEW u \in ComputeThreads, NEW i \in RowsOf(u), Stored(launch, cta, i)
      PROVE  acc_o'[i] = FoldedUpTo(i, ck'[u])
  <2>1. i \in BlockRows(launch) /\ i % Cardinality(ComputeThreads) = u
    BY DEF RowsOf
  <2>2. acc_o'[i] = IF i \in RowsOf(t) THEN acc_o[i] \o Folded(i, ck[t], kc, vc) ELSE acc_o[i]
    BY <1>1, <2>1 DEF Fold
  <2>3. CASE u = t
    <3>1. acc_o[i] = FoldedUpTo(i, ck[t]) /\ ck[t] \in Nat /\ ck'[u] = ck[t] + 1 /\ i \in RowsOf(t)
      BY <1>1, <1>4, <2>3
    <3>2. FoldedUpTo(i, ck[t]) \o Folded(i, ck[t], kc, vc) = FoldedUpTo(i, ck[t] + 1)
      <4> DEFINE k == ck[t]
      <4>1. /\ Running /\ i \in BlockRows(launch) /\ Stored(launch, cta, i)
            /\ k \in Nat /\ Whole(k, kc) /\ Whole(k, vc)
        BY <1>1, <1>4, <2>1, <3>1
      <4> HIDE DEF k
      <4>2. FoldedUpTo(i, k) \o Folded(i, k, kc, vc) = FoldedUpTo(i, k + 1)
        BY ONLY <4>1, FoldGrows
      <4> QED
        BY <4>2 DEF k
    <3> QED
      BY <2>2, <3>1, <3>2
  <2>4. CASE u # t
    <3>1. i \notin RowsOf(t) /\ ck'[u] = ck[u]
      BY <2>1, <2>4 DEF RowsOf
    <3> QED
      BY <1>1, <1>4, <2>2, <3>1
  <2> QED
    BY <2>3, <2>4
<1>5. \A u \in ComputeThreads : \A i \in RowsOf(u)' :
         Stored(launch', cta', i) => acc_o'[i] = FoldedUpTo(i, ck[u])'
  <2>1. \A u \in ComputeThreads : \A i \in RowsOf(u) :
           Stored(launch, cta, i) => acc_o'[i] = FoldedUpTo(i, ck'[u])
    BY <1>4
  <2> QED
    BY <1>2, <2>1
<1> QED
  BY <1>3, <1>5 DEF RowsInv

LEMMA RowsStay ==
    ASSUME AttentionInv, UNCHANGED <<launch, cta, loop_range, ck, acc_o>>
    PROVE  RowsInv'
<1>1. /\ \A u : RowsOf(u)' = RowsOf(u)
      /\ \A i, k : FoldedUpTo(i, k)' = FoldedUpTo(i, k)
  BY BlockStays DEF AttentionInv
<1> QED
  BY <1>1 DEF AttentionInv, RowsInv

LEMMA WrittenStays ==
    ASSUME AttentionInv, UNCHANGED <<launch, cta, loop_range, Output>>
    PROVE  WrittenInv'
<1>1. \A i, k : FoldedUpTo(i, k)' = FoldedUpTo(i, k)
  BY BlockStays DEF AttentionInv
<1> QED
  BY <1>1 DEF AttentionInv, WrittenInv

LEMMA WaitKeepsInv == AttentionInv /\ Wait => AttentionInv'
<1> SUFFICES ASSUME AttentionInv, Wait
             PROVE  AttentionInv'
  OBVIOUS
<1>1. /\ launch.ws /\ PipeInv
      /\ launch' = launch /\ cta' = cta /\ scores' = scores /\ acc_o' = acc_o /\ Output' = Output
      /\ PipeNext
  BY DEF AttentionInv, ThreadsInv, Wait, kernelVars, PipeNext, ComputeStep
<1>2. /\ loop_range' = loop_range /\ ck' = ck
      /\ \A t \in ComputeThreads : compute'[t] = "values" => compute[t] = "values"
  <2>1. CASE \E t \in ComputeThreads : ComputeWait(t)
    BY <1>1, <2>1 DEF PipeInv, PipeTypeOK, ComputeWait
  <2>2. CASE \E m \in MemoryThreads : MemoryStep(m)
    BY <2>2 DEF MemoryStep, MemoryWait, CopyK, CopyV, computeVars
  <2> QED
    BY <2>1, <2>2 DEF Wait
<1>3. PipeInv'
  BY <1>1, PipeInvNext
<1>4. ThreadsInv' /\ ScoresInv'
  BY <1>1, <1>2, <1>3 DEF AttentionInv, ThreadsInv, ScoresInv, Whole
<1> QED
  BY <1>1, <1>2, <1>4, BlockStays, RowsStay, WrittenStays DEF AttentionInv

LEMMA MultiplyKKeepsInv ==
    ASSUME AttentionInv, NEW t \in ComputeThreads, MultiplyK(t)
    PROVE  AttentionInv'
<1>1. launch.ws /\ PipeInv /\ compute[t] = "scores"
  BY DEF AttentionInv, ThreadsInv, MultiplyK, Scores
<1>2. /\ launch' = launch /\ cta' = cta /\ acc_o' = acc_o /\ Output' = Output
      /\ loop_range' = loop_range /\ ck' = ck
      /\ compute' = [compute EXCEPT ![t] = "values"]
      /\ scores' = [scores EXCEPT ![t] = k_shared[ck[t] % 2]]
  BY DEF MultiplyK, Scores
<1>3. PipeInv'
  BY <1>1, PipeInvNext DEF PipeNext, ComputeStep, MultiplyK
<1>4. Whole(ck[t], k_shared[ck[t] % 2])
  BY <1>1, PipeInvReads DEF ReadsItsChunk, Whole
<1>5. compute \in [ComputeThreads -> {"wait", "scores", "values"}]
  BY <1>1 DEF PipeInv, PipeTypeOK
<1>6. ScoresInv'
  BY <1>2, <1>4, <1>5 DEF AttentionInv, ScoresInv, Whole
<1>7. ThreadsInv'
  BY <1>1, <1>2, <1>3 DEF ThreadsInv
<1> QED
  BY <1>2, <1>6, <1>7, BlockStays, RowsStay, WrittenStays DEF AttentionInv

LEMMA MultiplyVKeepsInv ==
    ASSUME AttentionInv, NEW t \in ComputeThreads, MultiplyV(t)
    PROVE  AttentionInv'
<1>1. launch.ws /\ PipeInv /\ compute[t] = "values"
  BY DEF AttentionInv, ThreadsInv, MultiplyV, Values
<1>2. /\ launch' = launch /\ cta' = cta /\ scores' = scores /\ Output' = Output
      /\ loop_range' = loop_range
      /\ compute' = [compute EXCEPT ![t] = "wait"] /\ ck' = [ck EXCEPT ![t] = @ + 1]
      /\ Fold(t, scores[t], v_shared[ck[t] % 2])
  BY DEF MultiplyV, Values
<1>3. PipeInv'
  BY <1>1, PipeInvNext DEF PipeNext, ComputeStep, MultiplyV
<1>4. Whole(ck[t], scores[t]) /\ Whole(ck[t], v_shared[ck[t] % 2])
  BY <1>1, PipeInvReads DEF ReadsItsChunk, Whole, AttentionInv, ScoresInv
<1>5. /\ compute \in [ComputeThreads -> {"wait", "scores", "values"}]
      /\ ck \in [ComputeThreads -> Nat]
  BY <1>1 DEF PipeInv, PipeTypeOK
<1>6. ScoresInv'
  BY <1>2, <1>5 DEF AttentionInv, ScoresInv, Whole
<1>7. ThreadsInv'
  BY <1>1, <1>2, <1>3 DEF ThreadsInv
<1>8. RowsInv'
  BY <1>2, <1>4, <1>5, FoldKeepsRows
<1> QED
  BY <1>2, <1>6, <1>7, <1>8, BlockStays, WrittenStays DEF AttentionInv

LEMMA ChunkKeepsInv ==
    ASSUME AttentionInv, NEW t \in ComputeThreads, Chunk(t)
    PROVE  AttentionInv'
<1> DEFINE here == [m \in MemoryThreads |-> ck[t]]
<1>1. /\ ~ launch.ws /\ ck \in [ComputeThreads -> Nat]
      /\ \A u \in ComputeThreads : compute[u] = "wait"
  BY DEF AttentionInv, ThreadsInv, Chunk
<1>2. /\ launch' = launch /\ cta' = cta /\ scores' = scores /\ Output' = Output
      /\ loop_range' = loop_range /\ compute' = compute
      /\ ck' = [ck EXCEPT ![t] = @ + 1]
      /\ Fold(t, here, here)
  BY DEF Chunk
<1>3. ThreadsInv' /\ ScoresInv'
  BY <1>1, <1>2 DEF AttentionInv, ThreadsInv, ScoresInv
<1>4. Whole(ck[t], here)
  BY DEF Whole
<1> HIDE DEF here
<1>5. RowsInv'
  BY <1>1, <1>2, <1>4, FoldKeepsRows
<1> QED
  BY <1>2, <1>3, <1>5, BlockStays, WrittenStays DEF AttentionInv

LEMMA StoreKeepsInv ==
    ASSUME AttentionInv, NEW t \in ComputeThreads, Store(t)
    PROVE  AttentionInv'
<1>1. /\ launch' = launch /\ cta' = cta /\ scores' = scores /\ acc_o' = acc_o
      /\ UNCHANGED pipeVars /\ ck[t] = loop_range
      /\ Output' = Output \cup {<<Query(launch, cta, i), acc_o[i]>> :
                                   i \in {i \in RowsOf(t) : Stored(launch, cta, i)}}
  BY DEF Store
<1>2. loop_range' = loop_range /\ compute' = compute /\ ck' = ck
  BY <1>1 DEF pipeVars, computeVars
<1>3. PipeInv => PipeInv'
  BY <1>1, PipeInvNext
<1>4. ThreadsInv' /\ ScoresInv'
  BY <1>1, <1>2, <1>3 DEF AttentionInv, ThreadsInv, ScoresInv, Whole
<1>5. WrittenInv'
  <2>1. \A i, k : FoldedUpTo(i, k)' = FoldedUpTo(i, k)
    BY <1>1, <1>2, BlockStays DEF AttentionInv
  <2>2. \A i \in RowsOf(t) : Stored(launch, cta, i) =>
           i \in BlockRows(launch) /\ acc_o[i] = FoldedUpTo(i, loop_range)
    BY <1>1 DEF AttentionInv, RowsInv, RowsOf
  <2>3. \A row \in Output' : \E i \in BlockRows(launch) :
           Stored(launch, cta, i) /\ row = <<Query(launch, cta, i), FoldedUpTo(i, loop_range)>>
    <3> SUFFICES ASSUME NEW row \in Output'
                 PROVE  \E i \in BlockRows(launch) :
                            /\ Stored(launch, cta, i)
                            /\ row = <<Query(launch, cta, i), FoldedUpTo(i, loop_range)>>
      OBVIOUS
    <3>1. CASE row \in Output
      BY <3>1 DEF AttentionInv, WrittenInv
    <3>2. CASE row \notin Output
      <4>1. PICK i \in RowsOf(t) : Stored(launch, cta, i) /\ row = <<Query(launch, cta, i), acc_o[i]>>
        BY <1>1, <3>2
      <4> QED
        BY <2>2, <4>1
    <3> QED
      BY <3>1, <3>2
  <2> QED
    BY <1>1, <1>2, <2>1, <2>3 DEF WrittenInv
<1> QED
  BY <1>1, <1>2, <1>4, <1>5, BlockStays, RowsStay DEF AttentionInv

LEMMA AttentionInvNext == AttentionInv /\ [AttentionNext]_attentionVars => AttentionInv'
<1> SUFFICES ASSUME AttentionInv, [AttentionNext]_attentionVars
             PROVE  AttentionInv'
  OBVIOUS
<1>1. CASE UNCHANGED attentionVars
  <2>1. /\ launch' = launch /\ cta' = cta /\ scores' = scores /\ acc_o' = acc_o /\ Output' = Output
        /\ UNCHANGED pipeVars
    BY <1>1 DEF attentionVars, kernelVars
  <2>2. loop_range' = loop_range /\ compute' = compute /\ ck' = ck
    BY <2>1 DEF pipeVars, computeVars
  <2>3. PipeInv => PipeInv'
    BY <2>1, PipeInvNext
  <2>4. ThreadsInv' /\ ScoresInv'
    BY <2>1, <2>2, <2>3 DEF AttentionInv, ThreadsInv, ScoresInv, Whole
  <2> QED
    BY <2>1, <2>2, <2>4, BlockStays, RowsStay, WrittenStays DEF AttentionInv
<1> QED
  BY <1>1, WaitKeepsInv, MultiplyKKeepsInv, MultiplyVKeepsInv, ChunkKeepsInv, StoreKeepsInv
     DEF AttentionNext

(* Every row a block has written is the fold of all its keys in order.     *)
THEOREM AttentionInvariant == AttentionSpec => []AttentionInv
BY AttentionInvInit, AttentionInvNext, PTL DEF AttentionSpec

-----------------------------------------------------------------------------
(* The rows of the grid and the queries of the launch.                     *)

(* Heads per block, blocks per KV head.                                    *)
LEMMA HeadFacts ==
    ASSUME NEW l \in Launches, l.kernel = "decode"
    PROVE  /\ PagedCall(l) /\ valid_block_H(l) \in Nat \ {0} /\ l.kv_heads \in Nat \ {0}
           /\ kv_group_num(l) \div valid_block_H(l) \in Nat \ {0}
           /\ kv_group_num(l) = (kv_group_num(l) \div valid_block_H(l)) * valid_block_H(l)
           /\ l.heads \div valid_block_H(l) \in Nat \ {0}
           /\ l.heads = (l.heads \div valid_block_H(l)) * valid_block_H(l)
<1> DEFINE v == valid_block_H(l)
           g == kv_group_num(l)
           m == g \div v
           q == l.kv_heads
<1>1. PagedCall(l)
  BY KernelAssumption
<1>2. /\ l.heads \in Nat \ {0} /\ q \in Nat \ {0} /\ l.block_H \in Nat \ {0}
      /\ l.heads % q = 0 /\ g % v = 0
  BY <1>1 DEF PagedCall
<1>3. g \in Nat \ {0} /\ q * g = l.heads
  BY <1>2, Quotient DEF kv_group_num
<1>4. v \in Nat \ {0}
  BY <1>2, <1>3 DEF valid_block_H, Least
<1> HIDE DEF v, g
<1>5. m \in Nat \ {0} /\ v * m = g
  BY <1>2, <1>3, <1>4, Quotient
<1> HIDE DEF m, q
<1>6. m * v = g
  BY <1>4, <1>5, Z3
<1>7. (q * m) * v = l.heads /\ q * m \in Nat \ {0}
  <2>1. \A a, b, c \in Nat : (a * b) * c = a * (c * b)
    BY Z3
  <2>2. (q * m) * v = l.heads
    BY <1>2, <1>3, <1>4, <1>5, <2>1
  <2>3. q * m \in Nat
    BY <1>2, <1>5, MoreTimes
  <2>4. q * m # 0
    <3>1. 0 * v = 0
      BY <1>4
    <3> QED
      BY <1>2, <2>2, <3>1
  <2> QED
    BY <2>2, <2>3, <2>4
<1>8. l.heads \div v = q * m
  <2> DEFINE a == q * m
  <2>1. a \in Nat /\ a * v + 0 = l.heads /\ 0 \in 0 .. v - 1
    BY <1>2, <1>4, <1>7
  <2> HIDE DEF a
  <2>2. (a * v + 0) \div v = a
    BY <1>4, <2>1, DivisionIs
  <2> QED
    BY <2>1, <2>2 DEF a
<1> QED
  BY <1>1, <1>2, <1>4, <1>5, <1>6, <1>7, <1>8 DEF v, g, m, q

(* The query of a row, and the keys of that query where the block reads    *)
(* them.                                                                   *)
ReadsItsKeys(i) ==
    /\ Query(launch, cta, i) \in Queries(launch)
    /\ Keys(launch, Query(launch, cta, i)) = [p \in 1 .. Seen(i) |-> KeyAt(p - 1)]

LEMMA DecodeHead ==
    ASSUME Running, Decode, NEW i \in BlockRows(launch)
    PROVE  LET h == cta[1] * valid_block_H(launch) + i
           IN  h \in 0 .. launch.heads - 1
               /\ h \div (launch.heads \div launch.kv_heads) = DecodeKvHead(launch, cta)
<1> DEFINE v == valid_block_H(launch)
           g == kv_group_num(launch)
           m == g \div v
           c == cta[1]
           h == c * v + i
           d == c \div m
           r == c % m
<1>1. /\ v \in Nat \ {0} /\ m \in Nat \ {0} /\ g = m * v
      /\ launch.heads \div v \in Nat \ {0} /\ launch.heads = (launch.heads \div v) * v
  BY HeadFacts DEF Running, Decode
<1>2. c \in 0 .. launch.heads \div v - 1 /\ i \in 0 .. v - 1
  BY DecodeFacts DEF BlockRows, Decode
<1>3. h \in 0 .. launch.heads - 1
  <2> DEFINE n == launch.heads \div v
  <2>1. n \in Nat \ {0} /\ c \in 0 .. n - 1 /\ launch.heads = n * v
    BY <1>1, <1>2
  <2> HIDE DEF n, c, v
  <2> QED
    BY <1>1, <1>2, <2>1, InRange
<1> HIDE DEF v, g, c, m
<1>4. d \in Nat /\ r \in 0 .. m - 1 /\ c = d * m + r
  <2>1. c \in Nat /\ m \in Nat \ {0}
    BY <1>1, <1>2
  <2> QED
    BY ONLY <2>1, DivisionOf
<1> HIDE DEF d, r
<1>5. r * v + i \in 0 .. m * v - 1
  BY <1>1, <1>2, <1>4, InRange
<1>6. h = d * (m * v) + (r * v + i)
  <2>1. \A a, b \in Nat : a * b \in Nat
    BY Z3
  <2>2. (d * m + r) * v = d * (m * v) + r * v
    BY <1>1, <1>4, Z3
  <2>3. d * (m * v) \in Nat /\ r * v \in Nat
    BY <1>1, <1>4, <2>1
  <2> QED
    BY <1>2, <1>4, <2>2, <2>3
<1>7. m * v \in Nat \ {0}
  <2>1. m * v \in Nat
    BY <1>1, MoreTimes
  <2> QED
    BY <1>5, <2>1
<1> HIDE DEF h
<1>8. h \div g = d
  <2>1. (d * (m * v) + (r * v + i)) \div (m * v) = d
    BY <1>4, <1>5, <1>7, DivisionIs
  <2> QED
    BY <1>1, <1>6, <2>1
<1> QED
  BY <1>3, <1>8 DEF h, d, g, m, c, v, kv_group_num, DecodeKvHead

LEMMA PageOfPosition ==
    ASSUME Running, Decode, NEW p \in 0 .. launch.seqlen_kv[cta[3]] - 1
    PROVE  PagedRow(launch, cta[3], p \div ChunkRows, p % ChunkRows) =
              launch.block_table[cta[3]][p \div launch.page_size + 1] * launch.page_size
                  + (p % launch.page_size)
<1> DEFINE N == ChunkRows
           P == launch.page_size
           T == launch.block_table[cta[3]]
           k == p \div N
           j == p % N
<1>1. /\ PagedCall(launch) /\ N = DecodeBlockN(launch) /\ N \in Nat \ {0} /\ P \in Nat \ {0}
      /\ T \in Seq(Int) /\ launch.seqlen_kv[cta[3]] \in Nat
      /\ launch.seqlen_kv[cta[3]] <= Len(T) * P
  BY DecodeFacts
<1>2. /\ p \in Nat /\ k \in Nat /\ j \in 0 .. N - 1 /\ p = k * N + j
      /\ p \div P \in Nat /\ p % P \in 0 .. P - 1 /\ p = (p \div P) * P + (p % P)
      /\ (p \div P) * P <= p
  <2>1. p \in Nat /\ N \in Nat \ {0} /\ P \in Nat \ {0}
    BY <1>1
  <2> HIDE DEF N, P
  <2> QED
    BY ONLY <2>1, DivisionOf
<1>3. p \div P < Len(T)
  <2> DEFINE a == p \div P
             n == Len(T)
             s == launch.seqlen_kv[cta[3]]
  <2>1. a \in Nat /\ a * P <= p
    BY ONLY <1>2
  <2>2. n \in Nat /\ p < s /\ s <= n * P /\ s \in Nat
    <3> HIDE DEF a, P
    <3> QED
      BY ONLY <1>1 DEF n, s
  <2> HIDE DEF a, n, s, P
  <2>3. n <= a => n * P <= a * P
    BY <1>1, <2>1, <2>2, MoreTimes
  <2>4. n * P \in Nat /\ a * P \in Nat
    BY <1>1, <2>1, <2>2, MoreTimes
  <2>5. a < n
    BY <1>2, <2>1, <2>2, <2>3, <2>4
  <2> QED
    BY <2>5 DEF a, n
<1>4. BlockTable(launch, cta[3], p \div P) = T[p \div P + 1]
  BY <1>3 DEF BlockTable
<1>5. T[p \div P + 1] \in Int
  <2> DEFINE a == p \div P
  <2>1. a \in Nat /\ a < Len(T)
    BY <1>2, <1>3
  <2> HIDE DEF a, T
  <2>2. Len(T) \in Nat /\ a + 1 \in 1 .. Len(T)
    BY <1>1, <2>1
  <2> QED
    BY <1>1, <2>2 DEF a
<1>6. CASE P >= MinBlockN
  <2>1. N = P /\ pages_per_block(launch) = 1 /\ num_blockn_in_page(launch) = P \div P
    BY <1>1, <1>6, KernelAssumption DEF DecodeBlockN, Most, pages_per_block, num_blockn_in_page
  <2>2. P \div P = 1 /\ k \div 1 = k /\ k % 1 = 0
    <3> HIDE DEF P, k
    <3>1. 1 * P + 0 = P /\ k * 1 + 0 = k /\ 0 \in 0 .. P - 1 /\ 0 \in 0 .. 1 - 1
      BY <1>1, <1>2
    <3>2. (1 * P + 0) \div P = 1
      BY ONLY <1>1, <3>1, DivisionIs
    <3>3. (k * 1 + 0) \div 1 = k /\ (k * 1 + 0) % 1 = 0
      BY ONLY <1>2, <3>1, DivisionIs
    <3> QED
      BY <3>1, <3>2, <3>3
  <2>3. PagedRow(launch, cta[3], k, j) = BlockTable(launch, cta[3], k) * P + 0 * N + j
    BY <1>1, <2>1, <2>2 DEF PagedRow
  <2>4. k = p \div P /\ j = p % P
    BY <2>1
  <2> DEFINE r == p % P
             x == T[p \div P + 1]
  <2>5. BlockTable(launch, cta[3], k) = x /\ x \in Int /\ j = r /\ r \in Int
    <3>1. r \in Int
      BY ONLY <1>1, <1>2
    <3>2. x \in Int
      BY <1>5
    <3>3. BlockTable(launch, cta[3], k) = x
      <4> HIDE DEF k
      <4> QED
        BY <1>4, <2>4
    <3> QED
      BY <2>4, <3>1, <3>2, <3>3
  <2> HIDE DEF T, k, j, N, P, x, r
  <2>6. x * P \in Int /\ 0 * N = 0
    BY <1>1, <2>5, Z3
  <2>7. BlockTable(launch, cta[3], k) * P + 0 * N + j = x * P + r
    BY <1>1, <2>5, <2>6
  <2> QED
    BY <2>3, <2>7 DEF T, P, k, j, N, x, r
<1>7. CASE P < MinBlockN
  <2> DEFINE m == N \div P
  <2>1. N = MinBlockN /\ N % P = 0 /\ pages_per_block(launch) = m
    <3>1. N = MinBlockN /\ ~ (P >= N)
      BY <1>1, <1>7, KernelAssumption DEF DecodeBlockN, Most
    <3>2. MinBlockN % P = 0
      BY <1>1, <1>7 DEF PagedCall
    <3>3. pages_per_block(launch) = m
      BY <1>1, <3>1 DEF pages_per_block
    <3> QED
      BY <3>1, <3>2, <3>3
  <2>2. m \in Nat \ {0} /\ P * m = N
    BY <1>1, <2>1, Quotient
  <2>3. m # 1
    <3>1. P * 1 = P
      BY <1>1
    <3>2. P < N
      BY <1>7, <2>1
    <3> HIDE DEF m, N, P
    <3> QED
      BY <1>1, <2>2, <3>1, <3>2
  <2>4. PagedRow(launch, cta[3], k, j) = BlockTable(launch, cta[3], k * m + j \div P) * P + (j % P)
    BY <2>1, <2>3 DEF PagedRow
  <2> DEFINE e == j \div P
             f == j % P
  <2> HIDE DEF m, N, k, j, P
  <2>5. e \in Nat /\ f \in 0 .. P - 1 /\ j = e * P + f
    <3>1. j \in Nat /\ P \in Nat \ {0}
      BY <1>1, <1>2
    <3> QED
      BY ONLY <3>1, DivisionOf
  <2> HIDE DEF e, f
  <2>6. p = (k * m + e) * P + f /\ k * m + e \in Nat
    <3>1. k * (P * m) = (k * m) * P
      BY <1>1, <1>2, <2>2, Z3
    <3>2. k * m \in Nat /\ (k * m) * P \in Nat /\ e * P \in Nat
      BY <1>1, <1>2, <2>2, <2>5, MoreTimes
    <3>3. (k * m + e) * P = (k * m) * P + e * P
      BY <1>1, <2>5, <3>2, Z3
    <3> QED
      BY <1>2, <2>2, <2>5, <3>1, <3>2, <3>3
  <2>7. p \div P = k * m + e /\ p % P = f
    <3> DEFINE a == k * m + e
    <3>1. a \in Nat /\ p = a * P + f
      BY <2>6
    <3> HIDE DEF a
    <3>2. (a * P + f) \div P = a /\ (a * P + f) % P = f
      BY <1>1, <2>5, <3>1, DivisionIs
    <3> QED
      BY <3>1, <3>2 DEF a
  <2> QED
    BY <1>4, <2>4, <2>7 DEF e, f, T, P, k, j, N
<1> QED
  BY <1>1, <1>6, <1>7, KernelAssumption

LEMMA DecodeReads ==
    ASSUME Running, Decode, NEW i \in BlockRows(launch)
    PROVE  ReadsItsKeys(i)
<1> DEFINE h == cta[1] * valid_block_H(launch) + i
           b == cta[3]
           n == launch.seqlen_kv[b]
<1>1. /\ b \in DOMAIN launch.seqlen_kv /\ n \in Nat /\ ChunkRows \in Nat \ {0} /\ Seen(i) = n
  BY DecodeFacts DEF Seen
<1>2. Query(launch, cta, i) = <<b, h>>
  BY DEF Query, DecodeQuery, Decode
<1>3. h \in 0 .. launch.heads - 1 /\ h \div (launch.heads \div launch.kv_heads) = DecodeKvHead(launch, cta)
  BY DecodeHead
<1> HIDE DEF h, b
<1>4. <<b, h>> \in Queries(launch)
  BY <1>1, <1>3 DEF Queries, Decode
<1>5. Keys(launch, <<b, h>>) = DecodeReference(launch, b, h)
  BY DEF Keys, Decode
<1>6. \A p \in 1 .. n : DecodeReference(launch, b, h)[p] = KeyAt(p - 1)
  <2> SUFFICES ASSUME NEW p \in 1 .. n
               PROVE  DecodeReference(launch, b, h)[p] = KeyAt(p - 1)
    OBVIOUS
  <2>1. p - 1 \in 0 .. n - 1
    BY <1>1
  <2>2. PagedRow(launch, b, (p - 1) \div ChunkRows, (p - 1) % ChunkRows) =
           launch.block_table[b][(p - 1) \div launch.page_size + 1] * launch.page_size
               + ((p - 1) % launch.page_size)
    BY <2>1, PageOfPosition DEF b
  <2>3. KeyAt(p - 1) = <<PagedRow(launch, b, (p - 1) \div ChunkRows, (p - 1) % ChunkRows),
                         DecodeKvHead(launch, cta)>>
    BY DEF KeyAt, Row, b
  <2> QED
    BY <1>3, <2>2, <2>3 DEF DecodeReference
<1>7. DecodeReference(launch, b, h) = [p \in 1 .. n |-> KeyAt(p - 1)]
  <2>1. DecodeReference(launch, b, h) = [p \in 1 .. n |-> DecodeReference(launch, b, h)[p]]
    BY DEF DecodeReference
  <2> HIDE DEF n
  <2> QED
    BY <1>6, <2>1
<1> QED
  BY <1>1, <1>2, <1>4, <1>5, <1>7 DEF ReadsItsKeys

(* The packed sequences follow each other.                                 *)
Ascending(Q) ==
    Q \in Seq(Nat) /\ Q # <<>> /\ \A b \in 1 .. Len(Q) - 1 : Q[b] <= Q[b + 1]

LEMMA AscendingAll ==
    ASSUME NEW Q, Ascending(Q), NEW a \in 1 .. Len(Q), NEW b \in 1 .. Len(Q), a <= b
    PROVE  Q[a] <= Q[b]
<1> DEFINE T == {n \in 0 .. b - a : Q[a] <= Q[a + n]}
<1>1. Len(Q) \in Nat /\ \A n \in 1 .. Len(Q) : Q[n] \in Nat
  BY DEF Ascending
<1>2. 0 \in T
  BY <1>1
<1>3. \A n \in 1 .. b - a : n - 1 \in T => n \in T
  <2> SUFFICES ASSUME NEW n \in 1 .. b - a, Q[a] <= Q[a + (n - 1)]
               PROVE  Q[a] <= Q[a + n]
    OBVIOUS
  <2> DEFINE c == a + (n - 1)
  <2>1. c \in 1 .. Len(Q) - 1 /\ c + 1 = a + n /\ c \in 1 .. Len(Q) /\ c + 1 \in 1 .. Len(Q)
    BY <1>1
  <2> HIDE DEF c
  <2>2. Q[c] <= Q[c + 1]
    BY <2>1 DEF Ascending
  <2>3. Q[a] \in Nat /\ Q[c] \in Nat /\ Q[c + 1] \in Nat
    BY <1>1, <2>1
  <2>4. Q[a] <= Q[c]
    BY DEF c
  <2>5. Q[a] <= Q[c + 1]
    BY <2>2, <2>3, <2>4
  <2> QED
    BY <2>1, <2>5
<1> HIDE DEF T
<1>4. b - a \in Nat
  BY <1>1
<1>5. b - a \in T
  BY <1>2, <1>3, <1>4, Stepwise
<1>6. a + (b - a) = b
  BY <1>1
<1> QED
  BY <1>5, <1>6 DEF T

LEMMA OneSegment ==
    ASSUME NEW Q, Ascending(Q), NEW x \in Int,
           NEW a \in 1 .. Len(Q) - 1, Q[a] <= x, x < Q[a + 1],
           NEW b \in 1 .. Len(Q) - 1, Q[b] <= x, x < Q[b + 1]
    PROVE  a = b
<1>1. /\ Len(Q) \in Nat /\ \A n \in 1 .. Len(Q) : Q[n] \in Nat
      /\ a \in 1 .. Len(Q) /\ b \in 1 .. Len(Q) /\ a + 1 \in 1 .. Len(Q) /\ b + 1 \in 1 .. Len(Q)
  <2>1. Q \in Seq(Nat)
    BY DEF Ascending
  <2>2. Len(Q) \in Nat /\ \A n \in 1 .. Len(Q) : Q[n] \in Nat
    BY ONLY <2>1
  <2> QED
    BY <2>2
<1>2. a < b => Q[a + 1] <= Q[b]
  BY <1>1, AscendingAll
<1>3. b < a => Q[b + 1] <= Q[a]
  BY <1>1, AscendingAll
<1>4. Q[a] \in Nat /\ Q[b] \in Nat /\ Q[a + 1] \in Nat /\ Q[b + 1] \in Nat
  BY <1>1
<1> QED
  BY <1>1, <1>2, <1>3, <1>4

LEMMA SomeSegment ==
    ASSUME NEW Q, Ascending(Q), NEW x \in Nat, Q[1] <= x, x < Q[Len(Q)]
    PROVE  \E b \in 1 .. Len(Q) - 1 : Q[b] <= x /\ x < Q[b + 1]
<1> DEFINE T == {n \in Nat : n \in 1 .. Len(Q) /\ x < Q[n]}
<1>1. Len(Q) \in Nat \ {0} /\ \A n \in 1 .. Len(Q) : Q[n] \in Nat
  <2>1. Q \in Seq(Nat) /\ Q # <<>>
    BY DEF Ascending
  <2> QED
    BY <2>1
<1>2. T \subseteq Nat /\ T # {}
  BY <1>1
<1>3. PICK n \in T : \A m \in T : n <= m
  BY <1>2, LeastElement
<1>4. n # 1 /\ n - 1 \in 1 .. Len(Q) - 1 /\ n - 1 \in 1 .. Len(Q) /\ n - 1 \notin T /\ n - 1 + 1 = n
  BY <1>1, <1>3
<1>5. Q[n - 1] <= x
  <2>1. Q[n - 1] \in Nat /\ ~ (x < Q[n - 1])
    BY <1>1, <1>4
  <2> QED
    BY <2>1
<1> QED
  BY <1>3, <1>4, <1>5

LEMMA PackedAscending ==
    ASSUME NEW l, PackedCall(l)
    PROVE  Ascending(l.cu_seqlens_q) /\ l.cu_seqlens_q[1] = 0
<1>1. l.cu_seqlens_q \in Seq(Nat) /\ l.cu_seqlens_q # <<>> /\ l.cu_seqlens_q[1] = 0
  BY DEF PackedCall
<1>2. ASSUME NEW b \in 1 .. Len(l.cu_seqlens_q) - 1
      PROVE  l.cu_seqlens_q[b] <= l.cu_seqlens_q[b + 1]
  <2> DEFINE Q == l.cu_seqlens_q
  <2>1. Q[b + 1] - Q[b] \in 0 .. l.max_seqlen_q
    BY DEF PackedCall
  <2>2. Q[b] \in Nat /\ Q[b + 1] \in Nat
    <3> HIDE DEF Q
    <3>1. Q \in Seq(Nat) /\ b \in 1 .. Len(Q) - 1
      BY <1>1 DEF Q
    <3>2. b \in 1 .. Len(Q) /\ b + 1 \in 1 .. Len(Q)
      BY <3>1
    <3> QED
      BY <3>1, <3>2
  <2> HIDE DEF Q
  <2>3. Q[b] <= Q[b + 1]
    BY <2>1, <2>2
  <2> QED
    BY <2>3 DEF Q
<1> QED
  BY <1>1, <1>2 DEF Ascending

LEMMA VarlenReads ==
    ASSUME Running, ~ Decode, NEW i \in BlockRows(launch), Stored(launch, cta, i)
    PROVE  ReadsItsKeys(i)
<1> DEFINE Q == launch.cu_seqlens_q
           b == cta[3]
           h == cta[2]
           x == cta[1] * launch.block_M
           y == Q[b] + (x + i)
           qn == q_seqlen(launch, cta)
           kn == kv_seqlen(launch, cta)
           o == offset(launch, cta)
           N == ChunkRows
<1>1. /\ PackedCall(launch) /\ launch.kernel = "varlen" /\ launch.is_causal \in BOOLEAN
      /\ N = launch.block_N /\ N \in Nat \ {0} /\ launch.block_M \in Nat \ {0}
      /\ b \in 1 .. Len(Q) - 1 /\ h \in 0 .. launch.heads - 1
      /\ Q[b] \in Nat /\ qn \in Nat /\ kn \in Nat /\ o \in Nat /\ kn = qn + o
      /\ kv_start_idx(launch, cta) \in Nat
  BY VarlenFacts DEF q_start_idx
<1>2. qn = Q[b + 1] - Q[b] /\ kn = launch.cu_seqlens_k[b + 1] - launch.cu_seqlens_k[b]
      /\ o = kn - qn /\ kv_start_idx(launch, cta) = launch.cu_seqlens_k[b]
  BY DEF q_seqlen, kv_seqlen, q_start_idx, kv_start_idx, offset
<1>3. x \in Nat /\ i \in 0 .. launch.block_M - 1 /\ x + i < qn
  <2>1. cta[1] \in Nat
    BY VarlenFacts
  <2>2. x \in Nat
    BY <1>1, <2>1, MoreTimes
  <2> QED
    BY <1>1, <2>2 DEF BlockRows, Stored
<1>4. Ascending(Q) /\ Q[1] = 0 /\ Len(Q) \in Nat /\ \A n \in 1 .. Len(Q) : Q[n] \in Nat
  <2>1. Ascending(Q) /\ Q[1] = 0
    BY <1>1, PackedAscending
  <2> HIDE DEF Q
  <2> QED
    BY ONLY <2>1 DEF Ascending
<1>5. Query(launch, cta, i) = <<y, h>>
  <2>1. Query(launch, cta, i) = <<Q[b] + x + i, h>>
    BY <1>1 DEF Query, VarlenQuery, q_start_idx
  <2> HIDE DEF Q, b, x, h
  <2>2. Q[b] + x + i = Q[b] + (x + i)
    <3>1. Q[b] \in Int /\ x \in Int /\ i \in Int
      BY ONLY <1>1, <1>3
    <3> QED
      BY ONLY <3>1
  <2> QED
    BY ONLY <2>1, <2>2 DEF y
<1>6. y \in Nat /\ Q[b] <= y /\ y < Q[b + 1] /\ y < Q[Len(Q)] /\ Q[b + 1] \in Nat
  <2> HIDE DEF Q, b, x, qn
  <2>1. b + 1 \in 1 .. Len(Q) /\ Len(Q) \in 1 .. Len(Q) /\ b + 1 <= Len(Q)
    BY <1>1, <1>4
  <2>2. Q[b + 1] <= Q[Len(Q)] /\ Q[b + 1] \in Nat /\ Q[Len(Q)] \in Nat
    BY ONLY <1>4, <2>1, AscendingAll
  <2>3. y = Q[b] + (x + i) /\ i \in Nat /\ x \in Nat /\ x + i < qn /\ Q[b] \in Nat
        /\ qn = Q[b + 1] - Q[b]
    <3>1. x + i < qn /\ i \in Nat /\ x \in Nat
      BY ONLY <1>1, <1>3
    <3> QED
      BY <1>1, <1>2, <3>1
  <2> HIDE DEF y
  <2> QED
    BY ONLY <2>2, <2>3
<1> HIDE DEF y
<1>7. <<y, h>> \in Queries(launch)
  <2>1. Queries(launch) = (0 .. Q[Len(Q)] - 1) \X (0 .. launch.heads - 1)
    BY <1>1 DEF Queries
  <2>2. y \in 0 .. Q[Len(Q)] - 1
    <3>1. Q[Len(Q)] \in Nat
      <4> HIDE DEF Q
      <4>1. Len(Q) \in 1 .. Len(Q)
        BY <1>1, <1>4
      <4> QED
        BY <1>4, <4>1
    <3> HIDE DEF Q
    <3> QED
      BY <1>6, <3>1
  <2> HIDE DEF Q, h
  <2>3. h \in 0 .. launch.heads - 1
    BY <1>1
  <2> QED
    BY <2>1, <2>2, <2>3
<1> DEFINE seen == IF launch.is_causal THEN y - Q[b] + (kn - qn) + 1 ELSE kn
<1>8. Keys(launch, <<y, h>>) =
         [p \in 1 .. seen |-> <<launch.cu_seqlens_k[b] + p - 1, h \div launch.groups>>]
  <2>1. b = CHOOSE n \in 1 .. Len(Q) - 1 : Q[n] <= y /\ y < Q[n + 1]
    <3> HIDE DEF Q, b
    <3>1. ASSUME NEW n \in 1 .. Len(Q) - 1, Q[n] <= y, y < Q[n + 1]
          PROVE  n = b
      <4>1. y \in Int /\ b \in 1 .. Len(Q) - 1
        BY <1>1, <1>6
      <4> QED
        BY <1>4, <1>6, <3>1, <4>1, OneSegment
    <3> QED
      BY <1>1, <1>6, <3>1
  <2>2. Keys(launch, <<y, h>>) = VarlenReference(launch, b, y, h)
    <3> HIDE DEF b
    <3> QED
      BY <1>1, <2>1 DEF Keys
  <2> QED
    BY <1>2, <2>2 DEF VarlenReference
<1>9. Seen(i) = seen /\ seen \in Nat
  <2>1. Seen(i) = IF launch.is_causal THEN x + i + o + 1 ELSE kn
    BY DEF Seen
  <2> HIDE DEF Q, b, x, kn, qn, o
  <2>2. y - Q[b] = x + i /\ i \in Nat /\ x \in Nat
    BY <1>1, <1>3 DEF y
  <2>3. o = kn - qn /\ o \in Nat /\ kn \in Nat /\ launch.is_causal \in BOOLEAN
    BY <1>1, <1>2
  <2>4. seen = IF launch.is_causal THEN x + i + o + 1 ELSE kn
    BY <2>2, <2>3
  <2> HIDE DEF seen
  <2> QED
    BY <2>1, <2>2, <2>3, <2>4
<1>10. \A p \in 1 .. seen : KeyAt(p - 1) = <<launch.cu_seqlens_k[b] + p - 1, h \div launch.groups>>
  <2> SUFFICES ASSUME NEW p \in 1 .. seen
               PROVE  KeyAt(p - 1) = <<launch.cu_seqlens_k[b] + p - 1, h \div launch.groups>>
    OBVIOUS
  <2>1. p - 1 \in Nat
    BY <1>9
  <2> DEFINE k == (p - 1) \div N
             j == (p - 1) % N
             s == launch.cu_seqlens_k[b]
  <2>2. k \in Nat /\ j \in 0 .. N - 1 /\ p - 1 = k * N + j /\ k * N \in Nat
    <3> HIDE DEF N
    <3>1. k \in Nat /\ j \in 0 .. N - 1 /\ p - 1 = k * N + j
      BY ONLY <1>1, <2>1, DivisionOf
    <3> HIDE DEF k
    <3> QED
      BY <1>1, <3>1, MoreTimes
  <2>3. KeyAt(p - 1) = <<s + k * N + j, h \div launch.groups>>
    BY <1>1, <1>2 DEF KeyAt, Row, PackedRow, VarlenKvHead
  <2>4. s \in Nat
    BY <1>1, <1>2
  <2> HIDE DEF k, j, N, s
  <2>5. s + k * N + j = s + p - 1
    <3>1. j \in Nat /\ p \in Nat
      BY <1>1, <2>1, <2>2
    <3> QED
      BY <2>2, <2>4, <3>1
  <2> QED
    BY <2>3, <2>5 DEF s
<1> HIDE DEF seen
<1>11. Keys(launch, <<y, h>>) = [p \in 1 .. seen |-> KeyAt(p - 1)]
  BY <1>8, <1>10
<1> QED
  BY <1>5, <1>7, <1>9, <1>11 DEF ReadsItsKeys

(* Row i of block c is the one row for query q.                            *)
IsRowOf(l, q, c, i) ==
    /\ Stored(l, c, i) /\ Query(l, c, i) = q
    /\ \A d \in Grid(l) : \A n \in BlockRows(l) :
          Stored(l, d, n) /\ Query(l, d, n) = q => d = c /\ n = i

LEMMA DecodeCovers ==
    ASSUME NEW l \in Launches, l.kernel = "decode", NEW q \in Queries(l)
    PROVE  \E c \in Grid(l) : \E i \in BlockRows(l) : IsRowOf(l, q, c, i)
<1> DEFINE v == valid_block_H(l)
           g == l.heads \div v
           b == q[1]
           h == q[2]
           c == <<h \div v, 0, b>>
           i == h % v
<1>1. v \in Nat \ {0} /\ g \in Nat \ {0} /\ l.heads = g * v
  BY HeadFacts
<1>2. b \in DOMAIN l.seqlen_kv /\ h \in 0 .. l.heads - 1 /\ q = <<b, h>>
  BY DEF Queries
<1>3. BlockRows(l) = 0 .. v - 1 /\ Grid(l) = {<<hid, 0, s>> : hid \in 0 .. g - 1, s \in DOMAIN l.seqlen_kv}
  BY DEF BlockRows, Grid, DecodeGrid
<1>4. \A d, n : Query(l, d, n) = <<d[3], d[1] * v + n>> /\ Stored(l, d, n)
  BY DEF Query, DecodeQuery, Stored
<1> HIDE DEF v, g, b, h
<1>5. h \in Nat /\ h \in 0 .. g * v - 1
  <2>1. g * v \in Nat
    BY <1>1, MoreTimes
  <2> QED
    BY <1>1, <1>2, <2>1
<1>6. h \div v \in Nat /\ i \in 0 .. v - 1 /\ h = (h \div v) * v + i
  BY ONLY <1>1, <1>5, DivisionOf
<1>7. \A r \in Nat : \A n \in 0 .. v - 1 : h = r * v + n => r = h \div v /\ n = i
  BY ONLY <1>1, <1>5, DivisionIs
<1>8. h \div v \in 0 .. g - 1
  <2>1. PICK r \in 0 .. g - 1 : \E n \in 0 .. v - 1 : h = r * v + n
    BY ONLY <1>1, <1>5, Divided
  <2>2. r = h \div v
    BY <1>1, <1>7, <2>1
  <2> QED
    BY <2>1, <2>2
<1>9. c \in Grid(l) /\ i \in BlockRows(l)
  BY <1>2, <1>3, <1>6, <1>8
<1>10. Query(l, c, i) = q
  BY <1>2, <1>4, <1>6
<1>11. ASSUME NEW d \in Grid(l), NEW n \in BlockRows(l), Query(l, d, n) = q
       PROVE  d = c /\ n = i
  <2>1. PICK hid \in 0 .. g - 1, s \in DOMAIN l.seqlen_kv : d = <<hid, 0, s>>
    BY <1>3
  <2>2. <<s, hid * v + n>> = <<b, h>>
    BY <1>2, <1>4, <1>11, <2>1
  <2>3. s = b /\ h = hid * v + n
    BY <2>2
  <2>4. hid \in Nat /\ n \in 0 .. v - 1
    BY <1>1, <1>3, <2>1
  <2>5. hid = h \div v /\ n = i
    BY <1>7, <2>3, <2>4
  <2> QED
    BY <2>1, <2>3, <2>5
<1> QED
  BY <1>4, <1>9, <1>10, <1>11 DEF IsRowOf

LEMMA VarlenCovers ==
    ASSUME NEW l \in Launches, l.kernel # "decode", NEW q \in Queries(l)
    PROVE  \E c \in Grid(l) : \E i \in BlockRows(l) : IsRowOf(l, q, c, i)
<1> DEFINE Q == l.cu_seqlens_q
           M == l.block_M
           w == CeilDiv(l.max_seqlen_q, M)
           y == q[1]
           h == q[2]
<1>1. PackedCall(l) /\ M \in Nat \ {0} /\ l.max_seqlen_q \in Nat
  <2>1. PackedCall(l)
    BY KernelAssumption
  <2> QED
    BY <2>1 DEF PackedCall
<1>2. Ascending(Q) /\ Q[1] = 0 /\ Len(Q) \in Nat /\ \A n \in 1 .. Len(Q) : Q[n] \in Nat
  <2>1. Ascending(Q) /\ Q[1] = 0
    BY <1>1, PackedAscending
  <2> HIDE DEF Q
  <2> QED
    BY <2>1 DEF Ascending
<1>3. y \in 0 .. Q[Len(Q)] - 1 /\ h \in 0 .. l.heads - 1 /\ q = <<y, h>>
  <2>1. q \in (0 .. Q[Len(Q)] - 1) \X (0 .. l.heads - 1)
    BY DEF Queries
  <2> HIDE DEF Q
  <2> QED
    BY <2>1
<1>4. /\ BlockRows(l) = 0 .. M - 1
      /\ Grid(l) = {<<bx, k, s>> : bx \in 0 .. w - 1, k \in 0 .. l.heads - 1, s \in 1 .. Len(Q) - 1}
  BY DEF BlockRows, Grid, VarlenGrid
<1>5. \A d, n : /\ Query(l, d, n) = <<Q[d[3]] + d[1] * M + n, d[2]>>
                /\ Stored(l, d, n) <=> d[1] * M + n < Q[d[3] + 1] - Q[d[3]]
  BY DEF Query, VarlenQuery, q_start_idx, Stored, q_seqlen
<1>6. \A s \in 1 .. Len(Q) - 1 :
         /\ Q[s] \in Nat /\ Q[s + 1] \in Nat
         /\ Q[s + 1] - Q[s] <= l.max_seqlen_q
  <2> SUFFICES ASSUME NEW s \in 1 .. Len(Q) - 1
               PROVE  Q[s] \in Nat /\ Q[s + 1] \in Nat /\ Q[s + 1] - Q[s] <= l.max_seqlen_q
    OBVIOUS
  <2>1. Q[s + 1] - Q[s] \in 0 .. l.max_seqlen_q
    BY <1>1 DEF PackedCall
  <2> HIDE DEF Q
  <2>2. s \in 1 .. Len(Q) /\ s + 1 \in 1 .. Len(Q)
    BY <1>2
  <2> QED
    BY <1>1, <1>2, <2>1, <2>2
<1> HIDE DEF Q, M, y, h
<1>7. y \in Nat /\ Q[1] <= y /\ y < Q[Len(Q)]
  <2>1. Q[Len(Q)] \in Nat
    BY <1>2, <1>3, AscendingAll DEF Ascending
  <2> QED
    BY <1>2, <1>3, <2>1
<1>8. PICK b \in 1 .. Len(Q) - 1 : Q[b] <= y /\ y < Q[b + 1]
  BY <1>2, <1>7, SomeSegment
<1> DEFINE r == y - Q[b]
           c == <<r \div M, h, b>>
           i == r % M
<1>9. r \in Nat /\ r < Q[b + 1] - Q[b] /\ r \in 0 .. l.max_seqlen_q - 1 /\ y = Q[b] + r
  BY <1>1, <1>6, <1>7, <1>8
<1> HIDE DEF r
<1>10. r \div M \in Nat /\ i \in 0 .. M - 1 /\ r = (r \div M) * M + i
  BY ONLY <1>1, <1>9, DivisionOf
<1>11. r \div M \in 0 .. w - 1
  <2>1. \A x \in 0 .. l.max_seqlen_q - 1 : x \div M \in 0 .. CeilDiv(l.max_seqlen_q, M) - 1
    BY ONLY <1>1, CeilCovers
  <2> QED
    BY <1>9, <2>1
<1> HIDE DEF w
<1>12. c \in Grid(l) /\ i \in BlockRows(l)
  BY <1>3, <1>4, <1>8, <1>10, <1>11
<1>13. Query(l, c, i) = q /\ Stored(l, c, i)
  <2> DEFINE k == (r \div M) * M
  <2>1. Query(l, c, i) = <<Q[b] + k + i, h>> /\ (Stored(l, c, i) <=> k + i < Q[b + 1] - Q[b])
    BY <1>5
  <2>2. k \in Nat /\ r = k + i /\ i \in Nat /\ Q[b] \in Nat
    <3>1. k \in Nat
      BY ONLY <1>1, <1>10, MoreTimes
    <3>2. r = k + i /\ i \in Nat
      BY <1>1, <1>10
    <3> QED
      BY <1>6, <3>1, <3>2
  <2> HIDE DEF k, i, c
  <2>3. Q[b] + k + i = y
    BY <1>9, <2>2
  <2> QED
    BY <1>3, <1>9, <2>1, <2>2, <2>3
<1>14. ASSUME NEW d \in Grid(l), NEW n \in BlockRows(l), Stored(l, d, n), Query(l, d, n) = q
       PROVE  d = c /\ n = i
  <2>1. PICK bx \in 0 .. w - 1, k \in 0 .. l.heads - 1, s \in 1 .. Len(Q) - 1 : d = <<bx, k, s>>
    BY <1>4
  <2> DEFINE z == bx * M
  <2>2. <<Q[s] + z + n, k>> = <<y, h>> /\ z + n < Q[s + 1] - Q[s]
    BY <1>3, <1>5, <1>14, <2>1
  <2>3. bx \in Nat /\ n \in 0 .. M - 1 /\ n \in Nat /\ z \in Nat /\ Q[s] \in Nat /\ Q[s + 1] \in Nat
    <3>1. bx \in Nat
      <4>1. w \in Nat
        BY <1>1, CeilCovers DEF w
      <4> QED
        BY <2>1, <4>1
    <3>2. n \in 0 .. M - 1 /\ n \in Nat
      BY <1>1, <1>4
    <3>3. z \in Nat
      BY ONLY <1>1, <3>1, MoreTimes
    <3> QED
      BY <1>6, <3>1, <3>2, <3>3
  <2> HIDE DEF z, i, c
  <2>4. k = h /\ y = Q[s] + (z + n)
    BY <2>2, <2>3
  <2>5. Q[s] <= y /\ y < Q[s + 1]
    <3>1. Q[s] \in Int /\ Q[s + 1] \in Int /\ z + n \in Nat /\ z + n < Q[s + 1] - Q[s]
      BY ONLY <2>2, <2>3
    <3> QED
      BY ONLY <2>4, <3>1
  <2>6. s = b
    <3>1. Ascending(Q) /\ y \in Int
      BY ONLY <1>2, <1>7
    <3> QED
      BY ONLY <1>8, <2>5, <3>1, OneSegment, Zenon
  <2>7. r = z + n
    BY <1>9, <2>3, <2>4, <2>6
  <2>8. (bx * M + n) \div M = bx /\ (bx * M + n) % M = n
    BY ONLY <1>1, <2>3, DivisionIs
  <2>9. bx * M + n = r
    BY <2>7 DEF z
  <2>10. c = <<bx, k, s>> /\ i = n
    BY ONLY <2>4, <2>6, <2>8, <2>9 DEF c, i
  <2> QED
    BY ONLY <2>1, <2>10
<1> QED
  BY <1>12, <1>13, <1>14 DEF IsRowOf

(* Whatever the order of the threads, a block of either kernel folds each  *)
(* key of each of its queries in once and in order, and every query of a   *)
(* launch has one row of one block.                                        *)
THEOREM EachKeyIsFoldedOnce == AttentionSpec => []EachKeyOnce
<1>1. AttentionInv => EachKeyOnce
  <2> SUFFICES ASSUME AttentionInv
               PROVE  EachKeyOnce
    OBVIOUS
  <2>1. Running /\ launch \in Launches /\ loop_range = LoopRange(launch, cta)
    BY DEF AttentionInv, Running
  <2>2. ASSUME NEW row \in Output
        PROVE  /\ row[1] \in Queries(launch)
               /\ row[2] = [p \in DOMAIN Keys(launch, row[1]) |->
                               <<Keys(launch, row[1])[p], Keys(launch, row[1])[p]>>]
    <3>1. PICK i \in BlockRows(launch) :
             Stored(launch, cta, i) /\ row = <<Query(launch, cta, i), FoldedUpTo(i, loop_range)>>
      BY DEF AttentionInv, WrittenInv
    <3>2. /\ Query(launch, cta, i) \in Queries(launch)
          /\ Keys(launch, Query(launch, cta, i)) = [p \in 1 .. Seen(i) |-> KeyAt(p - 1)]
      BY <2>1, <3>1, DecodeReads, VarlenReads DEF ReadsItsKeys
    <3>3. Least(Seen(i), loop_range * ChunkRows) = Seen(i)
      <4> DEFINE s == Seen(i)
                 e == loop_range * ChunkRows
      <4>1. s \in Nat /\ loop_range \in Nat /\ ChunkRows \in Nat /\ s <= e
        BY <2>1, <3>1, SeenFirst
      <4>2. e \in Nat
        BY <4>1, MoreTimes
      <4> HIDE DEF s, e
      <4>3. Least(s, e) = s
        BY <4>1, <4>2 DEF Least
      <4> QED
        BY <4>3 DEF s, e
    <3>4. FoldedUpTo(i, loop_range) = [p \in 1 .. Seen(i) |-> <<KeyAt(p - 1), KeyAt(p - 1)>>]
      BY <3>3 DEF FoldedUpTo
    <3> DEFINE K == Keys(launch, Query(launch, cta, i))
               Y == [p \in 1 .. Seen(i) |-> KeyAt(p - 1)]
    <3>5. [p \in DOMAIN Y |-> <<Y[p], Y[p]>>] = [p \in 1 .. Seen(i) |-> <<KeyAt(p - 1), KeyAt(p - 1)>>]
      OBVIOUS
    <3>6. row[1] = Query(launch, cta, i) /\ row[2] = FoldedUpTo(i, loop_range)
      BY <3>1
    <3>7. K = Y
      BY <3>2
    <3> HIDE DEF K, Y
    <3>8. row[2] = [p \in DOMAIN K |-> <<K[p], K[p]>>]
      BY <3>4, <3>5, <3>6, <3>7
    <3> QED
      BY <3>2, <3>6, <3>8 DEF K
  <2>3. ASSUME NEW q \in Queries(launch)
        PROVE  \E c \in Grid(launch) : \E i \in BlockRows(launch) : IsRowOf(launch, q, c, i)
    BY <2>1, DecodeCovers, VarlenCovers
  <2> QED
    BY <2>2, <2>3 DEF EachKeyOnce, IsRowOf
<1> QED
  BY <1>1, AttentionInvariant, PTL

=============================================================================
