---------------------------- MODULE PrefixCache -----------------------------
(***************************************************************************)
(* The prefix cache (engine/prefix_cache.py): a trie over blocks of tokens *)
(* that remembers for a token prefix the chain of physical blocks holding  *)
(* its keys and values.                                                    *)
(*                                                                         *)
(* A node is named by the tokens on the path to it.  The model keeps the   *)
(* nodes whose block_ids is not None: an emptied node is an interior one,  *)
(* a lookup walks through it, and its descendants are still found.         *)
(***************************************************************************)
EXTENDS BlockManager, SequencesExt

VARIABLES
    trie,            \* token prefix -> node.block_ids
    block_to_nodes   \* _block_to_nodes: block id -> nodes registered under it

cacheVars == <<trie, block_to_nodes>>

CacheInit ==
    /\ trie = [p \in {} |-> <<>>]
    /\ block_to_nodes = [b \in Blocks |-> {}]

(* The prefixes of the tokens that end at a block boundary. *)
Boundary(tokens, n) == SubSeq(tokens, 1, n * BlockSize)
FullBlocks(tokens) == Len(tokens) \div BlockSize

(* find_longest_prefix(): the deepest node with a chain on the path. *)
Matches(tokens) ==
    {n \in 1 .. FullBlocks(tokens) : Boundary(tokens, n) \in DOMAIN trie}

LongestPrefix(tokens) ==
    IF Matches(tokens) = {} THEN <<>>
    ELSE trie[Boundary(tokens, Max(Matches(tokens)))]

(* Mutant: the last matched block is to be computed again. *)
MatchedTokensShort(tokens) ==
    IF Matches(tokens) = {} THEN 0 ELSE (Max(Matches(tokens)) - 1) * BlockSize

MatchedTokens(tokens) ==
    IF Matches(tokens) = {} THEN 0 ELSE Max(Matches(tokens)) * BlockSize

(* add(): register every full block of the tokens, computed yet or not.    *)
(* A node that already has a chain gets the new chain but keeps its old    *)
(* place in the reverse index.                                             *)
AddPrefix(tokens, table) ==
    LET n == Min({FullBlocks(tokens), Len(table)})
        nodes == {Boundary(tokens, k) : k \in 1 .. n}
        depth(p) == Len(p) \div BlockSize
    IN  /\ trie' = [p \in DOMAIN trie \cup nodes |->
                      IF p \in nodes THEN SubSeq(table, 1, depth(p)) ELSE trie[p]]
        /\ block_to_nodes' =
             [b \in Blocks |-> block_to_nodes[b] \cup
                {p \in nodes \ DOMAIN trie : table[depth(p)] = b}]

(* evict_block() for every freed block: the nodes registered under it and  *)
(* their subtrees lose their chains, and its index entry goes.             *)
EvictBlocks(freed) ==
    LET roots == UNION {block_to_nodes[b] : b \in freed}
        kept == {p \in DOMAIN trie : \A r \in roots : ~IsPrefix(r, p)}
    IN  /\ trie' = Restrict(trie, kept)
        /\ block_to_nodes' =
             [b \in Blocks |-> IF b \in freed THEN {} ELSE block_to_nodes[b]]

=============================================================================
