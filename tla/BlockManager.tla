---------------------------- MODULE BlockManager ----------------------------
(***************************************************************************)
(* The pool of paged KV-cache blocks (engine/block_manager.py).            *)
(*                                                                         *)
(* The pool keeps a stack of free block ids, the set of used ids and a     *)
(* reference count per block; every sequence keeps a block table, the list *)
(* of the blocks that hold its keys and values in position order.  A block *)
(* may stand in the tables of several sequences when they share a prefix.  *)
(*                                                                         *)
(* The module is the specification of the pool against any caller that     *)
(* respects its asserts.  Scheduler uses the same actions, so a run of the *)
(* engine can be checked to be a run of this specification.                *)
(***************************************************************************)
EXTENDS Naturals, Sequences, FiniteSets, Functions

CONSTANTS
    Seqs,        \* the sequences (requests) that may hold blocks
    NumBlocks,   \* config.num_kvcache_blocks
    BlockSize,   \* config.kvcache_block_size, in tokens
    MaxLen       \* bound: the longest sequence, in tokens

ASSUME PoolAssumption ==
    /\ IsFiniteSet(Seqs)
    /\ NumBlocks \in Nat
    /\ BlockSize \in Nat \ {0}
    /\ MaxLen \in Nat

VARIABLES
    free_block_ids,   \* stack of free ids, the last one is the next allocated
    used_block_ids,   \* set of allocated ids
    ref_count,        \* blocks[b].ref_count
    block_table       \* block_table[s]: seq.block_table

poolVars == <<free_block_ids, used_block_ids, ref_count, block_table>>

Blocks == 0 .. (NumBlocks - 1)
Lengths == 1 .. MaxLen

(* Sequence.num_blocks: the blocks that hold len tokens. *)
BlocksFor(len) == (len + BlockSize - 1) \div BlockSize

NumFree == Len(free_block_ids)

-----------------------------------------------------------------------------
(* What one caller may ask before it acts. *)

CanAllocate(len) == NumFree >= BlocksFor(len)

NeedsNewBlock(len) == len % BlockSize = 0

CanAppend(len) == NeedsNewBlock(len) => NumFree > 0

-----------------------------------------------------------------------------
(* Effects. *)

(* Mutant: the oldest free ids are handed out, the newest removed. *)
PoppedOldest(n) == [i \in 1 .. n |-> free_block_ids[i]]

(* n pops of the free stack: the ids taken, newest free first. *)
Popped(n) == [i \in 1 .. n |-> free_block_ids[NumFree + 1 - i]]

(* n calls of _allocate_block, each appended after `shared`: the blocks    *)
(* that s adopts from other sequences, whose counts grow by one.           *)
TakeBlocks(s, shared, n) ==
    /\ n <= NumFree
    /\ free_block_ids' = SubSeq(free_block_ids, 1, NumFree - n)
    /\ used_block_ids' = used_block_ids \cup Range(Popped(n))
    /\ ref_count' = [b \in Blocks |->
                        IF b \in Range(Popped(n)) THEN 1
                        ELSE IF b \in Range(shared) THEN ref_count[b] + 1
                        ELSE ref_count[b]]
    /\ block_table' = [block_table EXCEPT ![s] = @ \o shared \o Popped(n)]

(* Mutants: shared blocks are freed too; a last reference frees nothing. *)
HeldAtAll(s) == Range(block_table[s])
HeldByNobody(s) == {b \in Range(block_table[s]) : ref_count[b] < 1}

(* The blocks of s that no other table counts. *)
OnlyHeldBy(s) == {b \in Range(block_table[s]) : ref_count[b] <= 1}

(* The order in which deallocate() pushes blocks: last of the table first. *)
After(table, b) ==
    {c \in Range(table) :
        \E p, q \in DOMAIN table : p < q /\ table[p] = b /\ table[q] = c}

FreedOrder(table, freed) ==
    [i \in 1 .. Cardinality(freed) |->
        CHOOSE b \in freed : Cardinality(freed \cap After(table, b)) = i - 1]

-----------------------------------------------------------------------------
(* Operations. *)

(* Mutant: block ids count from 1. *)
PoolInitFromOne ==
    /\ free_block_ids = [i \in 1 .. NumBlocks |-> NumBlocks + 1 - i]
    /\ used_block_ids = {}
    /\ ref_count = [b \in Blocks |-> 0]
    /\ block_table = [s \in Seqs |-> <<>>]

PoolInit ==
    /\ free_block_ids = [i \in 1 .. NumBlocks |-> NumBlocks - i]
    /\ used_block_ids = {}
    /\ ref_count = [b \in Blocks |-> 0]
    /\ block_table = [s \in Seqs |-> <<>>]

(* allocate(): a fresh table for a sequence of len tokens. *)
Allocate(s, len) ==
    /\ block_table[s] = <<>>
    /\ CanAllocate(len)
    /\ TakeBlocks(s, <<>>, BlocksFor(len))

(* Mutant: only the last block of the chain is adopted. *)
ShareLastBlock(s, chain, len) ==
    /\ block_table[s] = <<>>
    /\ TakeBlocks(s, <<chain[Len(chain)]>>, BlocksFor(len) - 1)

(* share_blocks() and then allocate_extra(), as the scheduler always pairs *)
(* them: s adopts a chain of live blocks and takes the rest from the pool. *)
ShareAndExtend(s, chain, len) ==
    /\ block_table[s] = <<>>
    /\ TakeBlocks(s, chain, BlocksFor(len) - Len(chain))

(* may_append(): one more block, only when len is a multiple of the size. *)
MayAppend(s, len) ==
    IF NeedsNewBlock(len)
    THEN TakeBlocks(s, <<>>, 1)
    ELSE UNCHANGED poolVars

(* deallocate(): drop every reference of s; the blocks nobody else counts  *)
(* go back to the free stack.                                              *)
Deallocate(s) ==
    /\ free_block_ids' = free_block_ids \o FreedOrder(block_table[s], OnlyHeldBy(s))
    /\ used_block_ids' = used_block_ids \ OnlyHeldBy(s)
    /\ ref_count' = [b \in Blocks |->
                        IF b \in OnlyHeldBy(s) THEN 0
                        ELSE IF b \in Range(block_table[s]) THEN ref_count[b] - 1
                        ELSE ref_count[b]]
    /\ block_table' = [block_table EXCEPT ![s] = <<>>]

(* Chains a caller may adopt: the first blocks of some table.  The code    *)
(* does not check this; it is the contract that the engine is checked to   *)
(* keep.                                                                   *)
Chains == UNION {{SubSeq(block_table[t], 1, n) : n \in 1 .. Len(block_table[t])} : t \in Seqs}

PoolNext ==
    \E s \in Seqs :
        \/ \E len \in Lengths : Allocate(s, len)
        \/ \E len \in Lengths, chain \in Chains :
              Len(chain) <= BlocksFor(len) /\ ShareAndExtend(s, chain, len)
        \/ \E len \in Lengths : MayAppend(s, len)
        \/ Deallocate(s)

PoolSpec == PoolInit /\ [][PoolNext]_poolVars

-----------------------------------------------------------------------------
(* Properties. *)

Holders(b) == {s \in Seqs : b \in Range(block_table[s])}

(* Type invariant of the four fields of the pool and of the tables. *)
PoolTypeOK ==
    /\ free_block_ids \in Seq(Blocks)
    /\ used_block_ids \subseteq Blocks
    /\ ref_count \in [Blocks -> Nat]
    /\ block_table \in [Seqs -> Seq(Blocks)]

(* Every block is either once on the free stack or in the used set, never  *)
(* both and never neither: `used_block_ids.remove` always finds the id and *)
(* no id is pushed twice (_deallocate_block).                              *)
FreeUsedPartition ==
    /\ IsInjective(free_block_ids)
    /\ used_block_ids = Blocks \ Range(free_block_ids)

(* The reference count is the number of tables the block stands in.  One   *)
(* count too few would return a block to the pool under a live sequence;   *)
(* one too many would leak it (share_blocks against deallocate).           *)
RefCountExact == \A b \in Blocks : ref_count[b] = Cardinality(Holders(b))

(* Free blocks are counted by nobody: the assert of _allocate_block.       *)
FreeUncounted ==
    \A b \in Blocks : b \in Range(free_block_ids) <=> ref_count[b] = 0

(* Two tables that share a block hold it at the same index and share every *)
(* block before it: keys keep the positions they were computed for, which  *)
(* is what prefix_cache.py 3-7 asks of every reuse.                        *)
SharedFromStart ==
    \A s, t \in Seqs :
        \A i \in DOMAIN block_table[s], j \in DOMAIN block_table[t] :
            block_table[s][i] = block_table[t][j] =>
                i = j /\ \A k \in 1 .. i : block_table[s][k] = block_table[t][k]

(* A block that a step takes from the free stack enters one table only and *)
(* was in no table before: the KV slots of a live sequence are never given *)
(* to another one.                                                         *)
FreshBlocksPrivate ==
    [][\A b \in Blocks :
          b \in Range(free_block_ids) /\ b \notin Range(free_block_ids') =>
              Holders(b) = {} /\ \E s \in Seqs : Holders(b)' = {s}]_poolVars

(* A block that a step returns to the pool leaves its last table in that   *)
(* step: deallocate() never frees a block that another sequence shares.    *)
FreedOnlyByLastHolder ==
    [][\A b \in Blocks :
          b \notin Range(free_block_ids) /\ b \in Range(free_block_ids') =>
              \E s \in Seqs : Holders(b) = {s} /\ Holders(b)' = {}]_poolVars

=============================================================================
