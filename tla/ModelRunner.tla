---------------------------- MODULE ModelRunner -----------------------------
(***************************************************************************)
(* The model runner (engine/model_runner.py): DeltaNet state slots, their  *)
(* snapshots for the prefix cache, and one forward pass over a batch with  *)
(* the recovery from CUDA out-of-memory errors.                            *)
(*                                                                         *)
(* Tensors are abstracted to the tokens they were computed from.  The key  *)
(* and value at a position depend on every token up to it, so a KV slot    *)
(* holds that token prefix; a recurrent state holds the tokens it has read *)
(* and a conv state the last inputs of the conv1d, oldest first, 0 for the *)
(* zeros it starts with.                                                   *)
(***************************************************************************)
EXTENDS Sequence, SequencesExt, Lists

CONSTANTS
    MaxNumSeqs,        \* config.max_num_seqs
    MaxPrefixStates,   \* config.max_prefix_states
    ConvKernel,        \* kernel size of the conv1d
    MaxOOMs,           \* bound: CUDA out-of-memory errors of a behaviour
    LateOOM            \* passes whose error may come after the state update:
                       \* a subset of {"fresh", "resumed"}

ASSUME RunnerAssumption ==
    /\ MaxNumSeqs \in Nat \ {0}
    /\ MaxPrefixStates \in Nat
    /\ ConvKernel \in Nat \ {0}
    /\ MaxOOMs \in Nat
    /\ LateOOM \subseteq {"fresh", "resumed"}

VARIABLES
    free_deltanet_slots,   \* queue of free slots
    seq_to_slot,           \* seq_to_slot[s], NoSlot when s has none
    deltanet_pool,         \* slot -> its recurrent and conv states
    prefill_gather_cache,  \* s -> slot mappings kept per chunk start
    kv_cache,              \* block -> offset -> token prefix stored there
    prefix_state_cache,    \* snapshots, least recently used first
    oom_preempted,         \* sequences dropped by run() since the last step
    batch,                 \* seqs: the batch of the current run()
    batch_is_prefill,      \* is_prefill of the current run()
    retries,               \* attempt
    ooms                   \* history: out-of-memory errors so far

runnerVars == <<free_deltanet_slots, seq_to_slot, deltanet_pool, prefill_gather_cache,
                kv_cache, prefix_state_cache, oom_preempted>>
batchVars == <<batch, batch_is_prefill, retries>>

MaxRetries == 2

(* With captured graphs one of the max_num_seqs + 1 slots is the padding   *)
(* slot and is never given to a sequence; this is the tighter case.        *)
Slots == 0 .. (MaxNumSeqs - 1)
NoSlot == MaxNumSeqs

ZeroState == [recurrent |-> <<>>, conv |-> [k \in 1 .. ConvKernel |-> 0]]

RunnerInit ==
    /\ free_deltanet_slots = [i \in 1 .. MaxNumSeqs |-> i - 1]
    /\ seq_to_slot = [s \in Seqs |-> NoSlot]
    /\ deltanet_pool = [i \in Slots |-> ZeroState]
    /\ prefill_gather_cache = [s \in Seqs |-> {}]
    /\ kv_cache = [b \in Blocks |-> [o \in 0 .. (BlockSize - 1) |-> <<>>]]
    /\ prefix_state_cache = <<>>
    /\ oom_preempted = <<>>
    /\ batch = <<>>
    /\ batch_is_prefill = FALSE
    /\ retries = 0
    /\ ooms = 0

HasSlot(s) == seq_to_slot[s] # NoSlot
State(s) == deltanet_pool[seq_to_slot[s]]

-----------------------------------------------------------------------------
(* DeltaNet slots. *)

(* The kept slot mappings of freed sequences go too, slot or no slot.      *)
ForgetGathered(ss) ==
    prefill_gather_cache' =
        [s \in Seqs |-> IF s \in Range(ss) THEN {} ELSE prefill_gather_cache[s]]

(* free_deltanet_slot() for each of ss in turn: the state is zeroed.       *)
FreeSlots(ss) ==
    LET held == Only(ss, {s \in Seqs : HasSlot(s)})
        slots == [i \in DOMAIN held |-> seq_to_slot[held[i]]]
    IN  /\ free_deltanet_slots' = free_deltanet_slots \o slots
        /\ deltanet_pool' = [i \in Slots |->
                                IF i \in Range(slots) THEN ZeroState ELSE deltanet_pool[i]]
        /\ seq_to_slot' = [s \in Seqs |->
                                IF s \in Range(ss) THEN NoSlot ELSE seq_to_slot[s]]
        /\ ForgetGathered(ss)

-----------------------------------------------------------------------------
(* Snapshots of a slot's states, keyed by block chain. *)

Keys(cache) == {cache[i].key : i \in DOMAIN cache}
HasState(chain) == chain \in Keys(prefix_state_cache)
Snapshot(chain) ==
    CHOOSE e \in Range(prefix_state_cache) : e.key = chain

(* move_to_end() for each of the chains in turn: the snapshots they name   *)
(* stand last, in the order of their last mention.                         *)
Touched(cache, chains) ==
    LET lasts == {i \in DOMAIN chains :
                    /\ chains[i] \in Keys(cache)
                    /\ \A j \in DOMAIN chains : j > i => chains[j] # chains[i]}
    IN  Only(cache, {e \in Range(cache) : e.key \notin Range(chains)})
          \o [k \in 1 .. Cardinality(lasts) |->
                CHOOSE e \in Range(cache) : e.key = chains[Nth(lasts, k)]]

(* save_prefix_state(): an existing key is only touched; over the limit    *)
(* the least recently used snapshot goes.                                  *)
SaveState(s, chain) ==
    prefix_state_cache' =
        IF HasState(chain) THEN Touched(prefix_state_cache, <<chain>>)
        ELSE IF ~HasSlot(s) THEN prefix_state_cache
        ELSE LET all == Append(prefix_state_cache, [key |-> chain, state |-> State(s)])
             IN  IF Len(all) > MaxPrefixStates THEN Tail(all) ELSE all

(* Mutant: snapshots outlive their blocks. *)
EvictNoStates(freed) == UNCHANGED prefix_state_cache

(* evict_prefix_state() for every freed block. *)
EvictStates(freed) ==
    prefix_state_cache' =
        Only(prefix_state_cache,
             {e \in Range(prefix_state_cache) : Range(e.key) \cap freed = {}})

-----------------------------------------------------------------------------
(* run(): slots and states before the forward pass, _run_impl 724-742. *)

Restoring(s) == seq[s].prefix_restore_blocks # None
FromScratch(s) == batch_is_prefill /\ seq[s].num_cached_tokens = 0

(* Mutant: a slot is taken for every sequence, with or without one. *)
AnySlot == batch

Slotless == Only(batch, {s \in Seqs : ~HasSlot(s)})

SlotsSuffice == Len(Slotless) <= Len(free_deltanet_slots)

(* The slot of s once every sequence of the batch has one. *)
SlotFor(s) ==
    IF HasSlot(s) \/ s \notin Range(batch) THEN seq_to_slot[s]
    ELSE free_deltanet_slots[CHOOSE i \in DOMAIN Slotless : Slotless[i] = s]

(* Mutant: the snapshot of a reused prefix is not restored. *)
StartUnrestored(s) ==
    IF FromScratch(s) THEN ZeroState ELSE deltanet_pool[SlotFor(s)]

(* The state a pass over s starts from: zero for a prefill from the first  *)
(* token, else the snapshot to be restored, else what the slot holds.      *)
StartState(s) ==
    LET chain == seq[s].prefix_restore_blocks
    IN  IF FromScratch(s) THEN ZeroState
        ELSE IF Restoring(s) /\ HasState(chain) THEN Snapshot(chain).state
        ELSE deltanet_pool[SlotFor(s)]

PrepareStates ==
    LET members == Range(batch)
        restored == Only(batch, {s \in Seqs : Restoring(s)})
    IN  /\ SlotsSuffice
        /\ free_deltanet_slots' =
             SubSeq(free_deltanet_slots, Len(Slotless) + 1, Len(free_deltanet_slots))
        /\ seq_to_slot' = [s \in Seqs |-> SlotFor(s)]
        /\ deltanet_pool' =
             [i \in Slots |->
                IF \E s \in members : SlotFor(s) = i
                THEN StartState(CHOOSE s \in members : SlotFor(s) = i)
                ELSE deltanet_pool[i]]
        /\ prefix_state_cache' =
             Touched(prefix_state_cache,
                     [i \in DOMAIN restored |-> seq[restored[i]].prefix_restore_blocks])
        /\ seq' = [s \in Seqs |-> IF s \in members
                                  THEN [seq[s] EXCEPT !.prefix_restore_blocks = None]
                                  ELSE seq[s]]

-----------------------------------------------------------------------------
(* run(): the forward pass. *)

(* Positions (from 0) that the pass reads from the input and writes.       *)
First(s) == IF batch_is_prefill THEN seq[s].num_cached_tokens ELSE NumTokens(s) - 1
Past(s) == IF batch_is_prefill
           THEN seq[s].num_cached_tokens + seq[s].num_scheduled_tokens
           ELSE NumTokens(s)
Positions(s) == {p \in 0 .. MaxLen : First(s) <= p /\ p < Past(s)}

BlockAt(s, p) == block_table[s][p \div BlockSize + 1]
Mapped(s, p) == p \div BlockSize < Len(block_table[s])

(* prepare_decode indexes the table at the new token's position; prefill   *)
(* gives a position outside the table slot -1, and nothing is stored.      *)
TablesCover ==
    batch_is_prefill \/ \A s \in Range(batch) : Mapped(s, NumTokens(s) - 1)

(* Mutant: a mapping is looked up by its table alone. *)
KeptForTable(s) == {e \in prefill_gather_cache[s] : e.table = block_table[s]}

(* _build_slot_mapping_prefill(): a mapping kept for the same first        *)
(* position is used again while the table is the same, whatever the length *)
(* of the chunk; the KV kernel rejects a mapping of another length.        *)
Kept(s) ==
    {e \in prefill_gather_cache[s] : e.start = First(s) /\ e.table = block_table[s]}
MappedTokens(s) ==
    IF Kept(s) = {} THEN seq[s].num_scheduled_tokens
    ELSE (CHOOSE e \in Kept(s) : TRUE).tokens

GatherFits ==
    batch_is_prefill =>
        \A s \in Range(batch) : MappedTokens(s) = seq[s].num_scheduled_tokens

Gathered ==
    [s \in Seqs |->
        IF batch_is_prefill /\ s \in Range(batch)
        THEN {e \in prefill_gather_cache[s] : e.start # First(s)} \cup
             {[start |-> First(s), table |-> block_table[s], tokens |-> MappedTokens(s)]}
        ELSE prefill_gather_cache[s]]

Writes(b, o) ==
    {w \in Range(batch) \X (0 .. MaxLen) :
        /\ w[2] \in Positions(w[1]) /\ Mapped(w[1], w[2])
        /\ BlockAt(w[1], w[2]) = b /\ w[2] % BlockSize = o}

Stored ==
    [b \in Blocks |-> [o \in 0 .. (BlockSize - 1) |->
        IF Writes(b, o) = {} THEN kv_cache[b][o]
        ELSE LET w == CHOOSE w \in Writes(b, o) : TRUE
             IN  Read(w[1], w[2] + 1)]]

LastOf(tokens, n) == SubSeq(tokens, Len(tokens) - n + 1, Len(tokens))

(* Mutant: the first inputs of a chunk are kept. *)
ConvFirstInputs(conv, inputs) ==
    IF batch_is_prefill
    THEN LET n == Min({ConvKernel - 1, Len(inputs)})
         IN  SubSeq(conv, 1, ConvKernel - n) \o SubSeq(inputs, 1, n)
    ELSE Tail(conv) \o inputs

(* A decode pass shifts its one input in; a prefill pass overwrites the    *)
(* end with the last inputs of its chunk, and nothing is shifted.          *)
ConvAfter(conv, inputs) ==
    IF batch_is_prefill
    THEN LET n == Min({ConvKernel - 1, Len(inputs)})
         IN  SubSeq(conv, 1, ConvKernel - n) \o LastOf(inputs, n)
    ELSE Tail(conv) \o inputs

(* The tokens that the pass runs through the state in slot i. *)
Inputs(i) ==
    IF \E s \in Range(batch) : seq_to_slot[s] = i
    THEN LET s == CHOOSE s \in Range(batch) : seq_to_slot[s] = i
         IN  SubSeq(token_ids[s], First(s) + 1, Past(s))
    ELSE <<>>

(* Every state of the batch after the tokens of the pass; the conv state   *)
(* is written before the recurrent one is computed.                        *)
ConvAdvanced ==
    [i \in Slots |-> IF Inputs(i) = <<>> THEN deltanet_pool[i]
                     ELSE [deltanet_pool[i] EXCEPT !.conv = ConvAfter(@, Inputs(i))]]
Advanced ==
    [i \in Slots |-> [ConvAdvanced[i] EXCEPT !.recurrent = @ \o Inputs(i)]]

InputsFit == TablesCover /\ GatherFits

ForwardPass ==
    /\ InputsFit
    /\ kv_cache' = Stored
    /\ deltanet_pool' = Advanced

(* Inputs that do not fit: an IndexError while they are built, or the KV   *)
(* kernel's ValueError once recurrent layers may have run.                 *)
RejectedPass ==
    /\ ~InputsFit
    /\ deltanet_pool' \in IF TablesCover THEN {deltanet_pool, Advanced} ELSE {deltanet_pool}
    /\ UNCHANGED kv_cache

(* run() 708-720: an error leaves the states as they were (early) or       *)
(* updated in part or in full (late); the last of several sequences is     *)
(* dropped.                                                                *)
Fresh == \A s \in Range(batch) : FromScratch(s)
LatePossible == (IF Fresh THEN "fresh" ELSE "resumed") \in LateOOM
StatesAfterError ==
    IF LatePossible THEN {deltanet_pool, ConvAdvanced, Advanced} ELSE {deltanet_pool}

OutOfMemory ==
    LET last == Last(batch)
        dropped == IF Len(batch) > 1 /\ HasSlot(last) THEN {seq_to_slot[last]} ELSE {}
    IN  /\ ooms < MaxOOMs
        /\ InputsFit
        /\ retries < MaxRetries
        /\ ooms' = ooms + 1
        /\ retries' = retries + 1
        /\ \E pool \in StatesAfterError :
             deltanet_pool' =
                [i \in Slots |-> IF i \in dropped THEN ZeroState ELSE pool[i]]
        /\ IF Len(batch) > 1
           THEN /\ batch' = Front(batch)
                /\ oom_preempted' = Append(oom_preempted, last)
                /\ free_deltanet_slots' = Append(free_deltanet_slots, seq_to_slot[last])
                /\ seq_to_slot' = [seq_to_slot EXCEPT ![last] = NoSlot]
                /\ ForgetGathered(<<last>>)
           ELSE /\ prefill_gather_cache' = Gathered
                /\ UNCHANGED <<batch, oom_preempted, free_deltanet_slots, seq_to_slot>>
        /\ UNCHANGED <<kv_cache, prefix_state_cache, batch_is_prefill>>

=============================================================================
