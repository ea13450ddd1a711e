---------------------------- MODULE WarpPipeline ----------------------------
(***************************************************************************)
(* The warp-specialised loop of the attention kernels for sm_90            *)
(* (gqa_decode_paged_ws, flashattn_ws).  Memory threads copy the chunks of *)
(* K and V into two shared buffers in turn, compute threads read them, and *)
(* four mbarriers keep the two groups apart: kv_ready[b] says that buffer  *)
(* b is full, compute_done[b] that it may be overwritten.                  *)
(*                                                                         *)
(* A phase of a barrier ends when every thread of one group has arrived.   *)
(* barrier_wait() is given only the parity of the phase it waits for: a    *)
(* thread two phases behind would wait for the wrong one.                  *)
(***************************************************************************)
EXTENDS Integers

CONSTANTS
    ComputeThreads,  \* the 128 threads that multiply
    MemoryThreads,   \* the 128 threads that copy, each a slice of a chunk
    Nothing          \* content of shared memory before the first copy

ASSUME ThreadsAssumption ==
    /\ ComputeThreads # {} /\ MemoryThreads # {}
    /\ Nothing \notin Nat

VARIABLES
    loop_range,    \* number of chunks
    k_shared,      \* k_shared[b][m]: the chunk whose slice m is in buffer b
    v_shared,
    kv_ready,      \* kv_ready[b]: phases that have ended
    kv_in,         \* kv_in[b]: memory threads arrived in the current phase
    compute_done,
    done_in,
    compute,       \* compute[t]: "wait", "scores" or "values"
    ck,            \* ck[t]: the chunk that compute thread t is at
    memory,        \* memory[m]: "wait", "copy_k" or "copy_v"
    mk             \* mk[m]: the chunk that memory thread m is at

sharedVars == <<k_shared, v_shared>>
readyVars == <<kv_ready, kv_in>>
doneVars == <<compute_done, done_in>>
computeVars == <<compute, ck>>
memoryVars == <<memory, mk>>
pipeVars == <<loop_range, sharedVars, readyVars, doneVars, computeVars, memoryVars>>

Buffers == 0 .. 1

PipeInit ==
    /\ k_shared = [b \in Buffers |-> [m \in MemoryThreads |-> Nothing]]
    /\ v_shared = k_shared
    /\ kv_ready = [b \in Buffers |-> 0] /\ kv_in = [b \in Buffers |-> {}]
    /\ compute_done = [b \in Buffers |-> 0] /\ done_in = [b \in Buffers |-> {}]
    /\ compute = [t \in ComputeThreads |-> "wait"]
    /\ ck = [t \in ComputeThreads |-> 0]
    /\ memory = [m \in MemoryThreads |-> "wait"]
    /\ mk = [m \in MemoryThreads |-> 0]

(* barrier_wait(barrier, parity) lets a thread pass while the current      *)
(* phase has the other parity.                                             *)
Passes(phases, parity) == phases % 2 # parity

(* The parities that the two groups wait for at chunk k.                   *)
ReadyParity(k) == (k \div 2) % 2
DoneParity(k) == (k \div 2 - 1) % 2

(* Mutant: a third chunk is taken for one of the first. *)
MayCopyEarly(k) == k > 2 => Passes(compute_done[k % 2], DoneParity(k))

(* Mutant: a first wait for readers that have nothing to read. *)
MayCopyRead(k) == Passes(compute_done[k % 2], (k \div 2) % 2)

(* The first two chunks find their buffers free.                           *)
MayCopy(k) == k >= 2 => Passes(compute_done[k % 2], DoneParity(k))

ComputeWait(t) ==
    /\ compute[t] = "wait" /\ ck[t] < loop_range
    /\ Passes(kv_ready[ck[t] % 2], ReadyParity(ck[t]))
    /\ compute' = [compute EXCEPT ![t] = "scores"]
    /\ UNCHANGED <<loop_range, sharedVars, readyVars, doneVars, ck, memoryVars>>

(* The product with K.                                                     *)
Scores(t) ==
    /\ compute[t] = "scores"
    /\ compute' = [compute EXCEPT ![t] = "values"]
    /\ UNCHANGED <<loop_range, sharedVars, readyVars, doneVars, ck, memoryVars>>

(* The product with V, and the arrival at compute_done.                    *)
Values(t) ==
    LET b == ck[t] % 2
        last == done_in[b] \cup {t} = ComputeThreads
    IN  /\ compute[t] = "values"
        /\ compute' = [compute EXCEPT ![t] = "wait"]
        /\ ck' = [ck EXCEPT ![t] = @ + 1]
        /\ done_in' = [done_in EXCEPT ![b] = IF last THEN {} ELSE @ \cup {t}]
        /\ compute_done' = [compute_done EXCEPT ![b] = IF last THEN @ + 1 ELSE @]
        /\ UNCHANGED <<loop_range, sharedVars, readyVars, memoryVars>>

MemoryWait(m) ==
    /\ memory[m] = "wait" /\ mk[m] < loop_range
    /\ MayCopy(mk[m])
    /\ memory' = [memory EXCEPT ![m] = "copy_k"]
    /\ UNCHANGED <<loop_range, sharedVars, readyVars, doneVars, computeVars, mk>>

CopyK(m) ==
    /\ memory[m] = "copy_k"
    /\ k_shared' = [k_shared EXCEPT ![mk[m] % 2][m] = mk[m]]
    /\ memory' = [memory EXCEPT ![m] = "copy_v"]
    /\ UNCHANGED <<loop_range, v_shared, readyVars, doneVars, computeVars, mk>>

(* The copy of V, and the arrival at kv_ready.                             *)
CopyV(m) ==
    LET b == mk[m] % 2
        last == kv_in[b] \cup {m} = MemoryThreads
    IN  /\ memory[m] = "copy_v"
        /\ v_shared' = [v_shared EXCEPT ![b][m] = mk[m]]
        /\ memory' = [memory EXCEPT ![m] = "wait"]
        /\ mk' = [mk EXCEPT ![m] = @ + 1]
        /\ kv_in' = [kv_in EXCEPT ![b] = IF last THEN {} ELSE @ \cup {m}]
        /\ kv_ready' = [kv_ready EXCEPT ![b] = IF last THEN @ + 1 ELSE @]
        /\ UNCHANGED <<loop_range, k_shared, doneVars, computeVars>>

ComputeStep(t) == ComputeWait(t) \/ Scores(t) \/ Values(t)
MemoryStep(m) == MemoryWait(m) \/ CopyK(m) \/ CopyV(m)

PipeNext ==
    \/ \E t \in ComputeThreads : ComputeStep(t)
    \/ \E m \in MemoryThreads : MemoryStep(m)

PipeSpec == loop_range \in Nat /\ PipeInit /\ [][PipeNext]_pipeVars

PipeOver ==
    /\ \A t \in ComputeThreads : ck[t] = loop_range
    /\ \A m \in MemoryThreads : mk[m] = loop_range

-----------------------------------------------------------------------------
(* A thread that multiplies finds every slice of its own chunk in the      *)
(* buffer, whichever threads are ahead or behind: nobody reads a buffer    *)
(* that is not full, and nobody overwrites one that is still read.         *)
ReadsItsChunk ==
    \A t \in ComputeThreads : \A m \in MemoryThreads :
        /\ compute[t] = "scores" => k_shared[ck[t] % 2][m] = ck[t]
        /\ compute[t] \in {"scores", "values"} => v_shared[ck[t] % 2][m] = ck[t]
=============================================================================
