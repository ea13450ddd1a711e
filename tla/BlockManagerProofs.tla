------------------------- MODULE BlockManagerProofs -------------------------
(***************************************************************************)
(* Proofs about the block pool, for any number of sequences and blocks.    *)
(*                                                                         *)
(* The invariants of BlockManager are inductive together and not alone:    *)
(* that a popped block is in no table needs the counts (FreeUncounted and  *)
(* RefCountExact), the counts need that deallocate() pushes each block     *)
(* once, and that needs tables without repetition (SharedFromStart).       *)
(***************************************************************************)
EXTENDS BlockManager, FiniteSetTheorems, SequenceTheorems, TLAPS

(* The inductive invariant. *)
PoolInv ==
    /\ PoolTypeOK
    /\ FreeUsedPartition
    /\ FreeUncounted
    /\ RefCountExact
    /\ SharedFromStart

-----------------------------------------------------------------------------
(* Data. *)

(* Blocks are finitely many, and so are the sequences that hold one. *)
LEMMA HoldersFinite ==
    \A b : /\ IsFiniteSet(Holders(b))
           /\ Cardinality(Holders(b)) \in Nat
           /\ Cardinality(Holders(b)) = 0 <=> Holders(b) = {}
  <1>1. TAKE b
  <1>2. Holders(b) \in SUBSET Seqs
    BY DEF Holders
  <1>3. IsFiniteSet(Holders(b))
    BY <1>2, FS_Subset, PoolAssumption DEF PoolAssumption
  <1> QED
    BY <1>3, FS_CardinalityType, FS_EmptySet

(* Ranks without ties below the size of a set list the set, one by one.    *)
LEMMA ListedByRank ==
    ASSUME NEW F, IsFiniteSet(F), NEW n \in Nat, n = Cardinality(F),
           NEW rank \in Injection(F, 0 .. (n - 1)),
           NEW f, f = [i \in 1 .. n |-> f[i]],
           \A i \in 1 .. n : (\E b \in F : rank[b] = i - 1)
                                 => f[i] \in F /\ rank[f[i]] = i - 1
    PROVE  f \in [1 .. n -> F] /\ IsInjective(f) /\ Range(f) = F
  <1>1. rank \in Surjection(F, 0 .. (n - 1))
    <2>1. 0 \in Int /\ n - 1 \in Int
      OBVIOUS
    <2>2. IsFiniteSet(0 .. (n - 1)) /\ Cardinality(0 .. (n - 1)) = n
      <3>1. /\ IsFiniteSet(0 .. (n - 1))
            /\ Cardinality(0 .. (n - 1)) = IF 0 > n - 1 THEN 0 ELSE (n - 1) - 0 + 1
        BY <2>1, FS_Interval, Zenon
      <3> QED
        BY <3>1
    <2> QED
      BY <2>2, FS_Injection
  <1>2. \A i \in 1 .. n : f[i] \in F /\ rank[f[i]] = i - 1
    <2>1. ASSUME NEW i \in 1 .. n
          PROVE  \E b \in F : rank[b] = i - 1
      <3>1. i - 1 \in 0 .. (n - 1)
        OBVIOUS
      <3> QED
        BY <1>1, <3>1 DEF Surjection
    <2> QED
      BY <2>1
  <1>3. IsInjective(f)
    BY <1>2 DEF IsInjective
  <1>4. ASSUME NEW b \in F
        PROVE  b \in Range(f)
    <2>1. rank[b] \in 0 .. (n - 1)
      BY DEF Injection
    <2>2. rank[b] + 1 \in 1 .. n /\ (rank[b] + 1) - 1 = rank[b]
      BY <2>1
    <2>3. f[rank[b] + 1] \in F /\ rank[f[rank[b] + 1]] = rank[b]
      BY <1>2, <2>2
    <2>4. f[rank[b] + 1] = b
      BY <2>3 DEF Injection, IsInjective
    <2> QED
      BY <2>2, <2>4 DEF Range
  <1> QED
    BY <1>2, <1>3, <1>4 DEF Range

(* The order in which deallocate() pushes blocks lists each of them once,  *)
(* provided that the table lists no block twice.                           *)
LEMMA FreedOrderBijection ==
    ASSUME NEW S, NEW table \in Seq(S), IsInjective(table),
           NEW freed \in SUBSET Range(table)
    PROVE  /\ Cardinality(freed) \in Nat
           /\ FreedOrder(table, freed) \in [1 .. Cardinality(freed) -> freed]
           /\ IsInjective(FreedOrder(table, freed))
           /\ Range(FreedOrder(table, freed)) = freed
  <1> DEFINE n == Cardinality(freed)
             Behind(b) == freed \cap After(table, b)
             size(b) == Cardinality(Behind(b))
             rank == [b \in freed |-> size(b)]
  <1>1. IsFiniteSet(freed) /\ n \in Nat
    <2>1. table \in Surjection(DOMAIN table, Range(table))
      BY DEF Surjection, Range
    <2>2. IsFiniteSet(DOMAIN table)
      BY FS_Interval
    <2>3. IsFiniteSet(Range(table))
      BY <2>1, <2>2, FS_Surjection
    <2> QED
      BY <2>3, FS_Subset, FS_CardinalityType
  <1>2. ASSUME NEW b \in freed
        PROVE  IsFiniteSet(Behind(b)) /\ size(b) \in Nat /\ size(b) <= n - 1
    <2>1. b \notin Behind(b)
      BY DEF After, IsInjective
    <2>2. Behind(b) \in SUBSET (freed \ {b})
      BY <2>1
    <2>3. IsFiniteSet(freed \ {b}) /\ Cardinality(freed \ {b}) = n - 1
      BY <1>1, FS_RemoveElement
    <2>4. IsFiniteSet(Behind(b)) /\ size(b) <= n - 1
      BY <2>2, <2>3, FS_Subset
    <2> QED
      BY <2>4, FS_CardinalityType
  <1>3. ASSUME NEW x \in freed, NEW y \in freed, y \in After(table, x)
        PROVE  size(y) # size(x)
    <2>1. Behind(y) \cup {y} \in SUBSET Behind(x)
      BY <1>3 DEF After, IsInjective
    <2>2. y \notin Behind(y)
      BY DEF After, IsInjective
    <2>3. Cardinality(Behind(y) \cup {y}) = size(y) + 1
      BY <1>2, <2>2, FS_AddElement
    <2>4. Cardinality(Behind(y) \cup {y}) <= size(x)
      BY <1>2, <2>1, FS_Subset
    <2>5. size(x) \in Nat /\ size(y) \in Nat
      BY <1>2
    <2> HIDE DEF size, Behind
    <2> QED
      BY <2>3, <2>4, <2>5
  <1>4. ASSUME NEW b \in freed, NEW c \in freed, b # c
        PROVE  c \in After(table, b) \/ b \in After(table, c)
    <2>1. PICK p \in DOMAIN table : table[p] = b
      BY DEF Range
    <2>2. PICK q \in DOMAIN table : table[q] = c
      BY DEF Range
    <2>3. p < q \/ q < p
      BY <1>4, <2>1, <2>2
    <2> QED
      BY <2>1, <2>2, <2>3 DEF After, Range
  <1>5. rank \in Injection(freed, 0 .. (n - 1))
    <2>1. \A b \in freed : size(b) \in 0 .. (n - 1)
      <3>1. TAKE b \in freed
      <3>2. n \in Nat /\ size(b) \in Nat /\ size(b) <= n - 1
        BY <1>1, <1>2
      <3> HIDE DEF size, n
      <3> QED
        BY <3>2
    <2>2. \A b, c \in freed : size(b) = size(c) => b = c
      BY <1>3, <1>4
    <2> HIDE DEF size, n
    <2> QED
      BY <2>1, <2>2 DEF Injection, IsInjective
  <1> DEFINE f == FreedOrder(table, freed)
  <1>6. f = [i \in 1 .. n |-> f[i]]
    <2> DEFINE g(i) == CHOOSE b \in freed : Cardinality(freed \cap After(table, b)) = i - 1
    <2>1. f = [i \in 1 .. n |-> g(i)]
      BY DEF FreedOrder
    <2> HIDE DEF f, g, n
    <2> QED
      BY <2>1
  <1>7. ASSUME NEW i \in 1 .. n, NEW b \in freed, rank[b] = i - 1
        PROVE  f[i] \in freed /\ rank[f[i]] = i - 1
    <2>1. size(b) = i - 1
      BY <1>7
    <2>2. f[i] \in freed /\ size(f[i]) = i - 1
      BY <2>1 DEF FreedOrder
    <2> QED
      BY <2>2
  <1> HIDE DEF n, rank, f
  <1>8. f \in [1 .. n -> freed] /\ IsInjective(f) /\ Range(f) = freed
    BY <1>1, <1>5, <1>6, <1>7, ListedByRank DEF n
  <1> QED
    BY <1>1, <1>8 DEF n, f

-----------------------------------------------------------------------------
(* Consequences of the invariant. *)

(* A block is free exactly when it stands in no table. *)
LEMMA FreeIffUnheld ==
    ASSUME PoolInv, NEW b \in Blocks
    PROVE  b \in Range(free_block_ids) <=> Holders(b) = {}
  BY HoldersFinite DEF PoolInv, FreeUncounted, RefCountExact

(* The blocks of a table are not free. *)
LEMMA TableNotFree ==
    ASSUME PoolInv, NEW s \in Seqs, NEW b \in Range(block_table[s])
    PROVE  b \in Blocks /\ b \notin Range(free_block_ids)
  <1>1. b \in Blocks
    BY DEF PoolInv, PoolTypeOK, Range
  <1>2. s \in Holders(b)
    BY DEF Holders
  <1> QED
    BY <1>1, <1>2, FreeIffUnheld

(* No table lists a block twice. *)
LEMMA TableInjective ==
    ASSUME PoolInv, NEW s \in Seqs
    PROVE  block_table[s] \in Seq(Blocks) /\ IsInjective(block_table[s])
  BY DEF PoolInv, PoolTypeOK, SharedFromStart, IsInjective

(* n pops split the free stack: the popped ids, each once, and the rest.   *)
LEMMA PopSplits ==
    ASSUME PoolInv, NEW n \in Nat, n <= NumFree,
           NEW rest, rest = SubSeq(free_block_ids, 1, NumFree - n)
    PROVE  /\ Popped(n) \in Seq(Blocks) /\ Len(Popped(n)) = n
           /\ IsInjective(Popped(n))
           /\ Range(Popped(n)) \subseteq Range(free_block_ids)
           /\ rest \in Seq(Blocks) /\ IsInjective(rest)
           /\ Range(rest) = Range(free_block_ids) \ Range(Popped(n))
  <1> DEFINE free == free_block_ids
             N == NumFree
             pop == Popped(n)
  <1>1. free \in Seq(Blocks) /\ N \in Nat /\ N = Len(free) /\ DOMAIN free = 1 .. N
    BY DEF PoolInv, PoolTypeOK, NumFree
  <1>2. \A i, j \in 1 .. N : free[i] = free[j] => i = j
    BY <1>1 DEF PoolInv, FreeUsedPartition, IsInjective
  <1>3. /\ pop \in Seq(Blocks) /\ Len(pop) = n /\ DOMAIN pop = 1 .. n
        /\ \A i \in 1 .. n : N + 1 - i \in 1 .. N /\ pop[i] = free[N + 1 - i]
    BY <1>1 DEF Popped
  <1>4. /\ rest \in Seq(Blocks) /\ DOMAIN rest = 1 .. (N - n)
        /\ \A i \in 1 .. (N - n) : i \in 1 .. N /\ rest[i] = free[i]
    BY <1>1
  <1> HIDE DEF free, N, pop
  <1>5. IsInjective(pop)
    BY <1>1, <1>2, <1>3 DEF IsInjective
  <1>6. IsInjective(rest)
    <2>1. ASSUME NEW i \in 1 .. (N - n), NEW j \in 1 .. (N - n), rest[i] = rest[j]
          PROVE  i = j
      <3>1. i \in 1 .. N /\ j \in 1 .. N /\ free[i] = free[j]
        BY <1>4, <2>1
      <3> QED
        BY <1>2, <3>1
    <2> QED
      BY <1>4, <2>1 DEF IsInjective
  <1>7. Range(pop) \subseteq Range(free)
    BY <1>1, <1>3 DEF Range
  <1>8. ASSUME NEW i \in 1 .. N, free[i] \notin Range(rest)
        PROVE  free[i] \in Range(pop)
    <2>1. i > N - n
      <3>1. SUFFICES ASSUME ~(i > N - n) PROVE FALSE
        OBVIOUS
      <3>2. i \in 1 .. (N - n)
        BY <1>1, <3>1
      <3>3. i \in DOMAIN rest /\ rest[i] = free[i]
        BY <1>4, <3>2
      <3> QED
        BY <1>8, <3>3 DEF Range
    <2>2. N + 1 - i \in 1 .. n /\ N + 1 - (N + 1 - i) = i
      BY <1>1, <2>1
    <2> QED
      BY <1>3, <2>2 DEF Range
  <1>9. ASSUME NEW i \in 1 .. n, NEW j \in 1 .. (N - n)
        PROVE  pop[i] # rest[j]
    <2>1. /\ N + 1 - i \in 1 .. N /\ pop[i] = free[N + 1 - i]
          /\ j \in 1 .. N /\ rest[j] = free[j]
      BY <1>3, <1>4
    <2>2. N + 1 - i # j
      BY <1>1
    <2> QED
      BY <1>2, <2>1, <2>2
  <1>10. Range(rest) = Range(free) \ Range(pop)
    <2>1. Range(rest) \subseteq Range(free)
      BY <1>1, <1>4 DEF Range
    <2>2. Range(rest) \cap Range(pop) = {}
      <3>1. ASSUME NEW b \in Range(rest), b \in Range(pop)
            PROVE  FALSE
        <4>1. PICK j \in 1 .. (N - n) : b = rest[j]
          BY <1>4 DEF Range
        <4>2. PICK i \in 1 .. n : b = pop[i]
          BY <1>3, <3>1 DEF Range
        <4> QED
          BY <1>9, <4>1, <4>2
      <3> QED
        BY <3>1
    <2>3. Range(free) \subseteq Range(rest) \cup Range(pop)
      BY <1>1, <1>8 DEF Range
    <2> QED
      BY <2>1, <2>2, <2>3
  <1> QED
    BY <1>3, <1>4, <1>5, <1>6, <1>7, <1>10 DEF pop, free

-----------------------------------------------------------------------------
(* Taking blocks.  The table of s becomes the first m blocks of the table  *)
(* of t, and then n popped blocks: t is s itself when s only extends its   *)
(* table, and another sequence when s, empty so far, adopts a prefix.      *)

LEMMA TakeBlocksPreserves ==
    ASSUME PoolInv,
           NEW s \in Seqs, NEW t \in Seqs, NEW n \in Nat,
           NEW m \in 0 .. Len(block_table[t]), NEW shared,
           \/ s = t /\ shared = <<>> /\ m = Len(block_table[t])
           \/ block_table[s] = <<>> /\ shared = SubSeq(block_table[t], 1, m),
           TakeBlocks(s, shared, n)
    PROVE  /\ PoolInv'
           /\ \A b \in Range(Popped(n)) : Holders(b) = {} /\ Holders(b)' = {s}
           /\ Range(free_block_ids') = Range(free_block_ids) \ Range(Popped(n))
  <1> DEFINE P == Range(Popped(n))
             base == block_table[t]
             T == block_table'[s]
             H(b) == Holders(b)
             K(b) == Holders(b)'
  <1>1. /\ n <= NumFree
        /\ free_block_ids' = SubSeq(free_block_ids, 1, NumFree - n)
        /\ used_block_ids' = used_block_ids \cup P
        /\ ref_count' = [b \in Blocks |-> IF b \in P THEN 1
                                          ELSE IF b \in Range(shared) THEN ref_count[b] + 1
                                          ELSE ref_count[b]]
        /\ block_table' = [block_table EXCEPT ![s] = @ \o shared \o Popped(n)]
    BY DEF TakeBlocks
  <1>2. /\ Popped(n) \in Seq(Blocks) /\ Len(Popped(n)) = n
        /\ IsInjective(Popped(n))
        /\ P \subseteq Range(free_block_ids)
        /\ free_block_ids' \in Seq(Blocks) /\ IsInjective(free_block_ids')
        /\ Range(free_block_ids') = Range(free_block_ids) \ P
    BY <1>1, PopSplits
  <1>3. /\ block_table \in [Seqs -> Seq(Blocks)] /\ base \in Seq(Blocks)
        /\ m \in Nat /\ m <= Len(base) /\ m \in 0 .. Len(base)
    BY DEF PoolInv, PoolTypeOK
  <1> DEFINE kept == block_table[s] \o shared
             new == kept \o Popped(n)
  <1>4. /\ kept \in Seq(Blocks) /\ Len(kept) = m
        /\ \A k \in 1 .. m : kept[k] = base[k]
        /\ Range(kept) = Range(block_table[s]) \cup Range(shared)
    <2>1. block_table[s] \in Seq(Blocks)
      BY <1>3
    <2>2. CASE s = t /\ shared = <<>> /\ m = Len(base)
      <3>1. kept = base
        BY <2>1, <2>2, ConcatEmptySeq
      <3>2. Range(shared) = {}
        BY <2>2 DEF Range
      <3> QED
        BY <1>3, <2>2, <3>1, <3>2
    <2>3. CASE block_table[s] = <<>> /\ shared = SubSeq(base, 1, m)
      <3>1. /\ shared \in Seq(Blocks) /\ Len(shared) = m
            /\ \A k \in 1 .. m : shared[k] = base[k]
        <4> HIDE DEF base
        <4> QED
          BY <1>3, <2>3
      <3>2. kept = shared
        BY <2>3, <3>1, ConcatEmptySeq
      <3>3. Range(block_table[s]) = {}
        BY <2>3 DEF Range
      <3> QED
        BY <3>1, <3>2, <3>3
    <2> QED
      BY <2>2, <2>3
  <1> HIDE DEF kept
  <1>5. /\ new \in Seq(Blocks) /\ DOMAIN new = 1 .. (m + n)
        /\ \A k \in 1 .. (m + n) : new[k] = IF k <= m THEN kept[k] ELSE Popped(n)[k - m]
        /\ Range(new) = Range(block_table[s]) \cup Range(shared) \cup P
    <2>1. /\ new \in Seq(Blocks)
          /\ Len(new) = Len(kept) + Len(Popped(n))
          /\ \A k \in 1 .. (Len(kept) + Len(Popped(n))) :
                new[k] = IF k <= Len(kept) THEN kept[k] ELSE Popped(n)[k - Len(kept)]
      BY <1>2, <1>4, ConcatProperties
    <2>2. Range(new) = Range(kept) \cup P
      BY <1>2, <1>4, RangeConcatenation
    <2> HIDE DEF new
    <2> QED
      BY <1>2, <1>3, <1>4, <2>1, <2>2
  <1>6. /\ T = new
        /\ block_table' \in [Seqs -> Seq(Blocks)]
        /\ \A u \in Seqs \ {s} : block_table'[u] = block_table[u]
    BY <1>1, <1>3, <1>5 DEF kept
  <1> HIDE DEF new, T
  <1>7. \A k \in 1 .. m : k \in DOMAIN T /\ T[k] = base[k] /\ k \in DOMAIN base
    <2> HIDE DEF base
    <2>1. \A k \in 1 .. m : k \in 1 .. (m + n) /\ k <= m
      BY <1>3
    <2> QED
      BY <1>3, <1>4, <1>5, <1>6, <2>1
  <1>8. \A k \in DOMAIN T : k > m => k - m \in 1 .. n /\ T[k] = Popped(n)[k - m] /\ T[k] \in P
    <2>1. TAKE k \in DOMAIN T
    <2>2. HAVE k > m
    <2>3. k \in 1 .. (m + n) /\ k - m \in 1 .. n /\ ~(k <= m)
      BY <1>3, <1>5, <1>6, <2>2
    <2>4. T[k] = Popped(n)[k - m]
      BY <1>5, <1>6, <2>3
    <2> QED
      BY <1>2, <2>3, <2>4 DEF Range
  <1>9. ASSUME NEW j \in DOMAIN T, NEW k \in DOMAIN T, j > m, k > m, T[j] = T[k]
        PROVE  j = k
    <2>1. /\ j \in 1 .. (m + n) /\ k \in 1 .. (m + n)
          /\ j - m \in DOMAIN Popped(n) /\ k - m \in DOMAIN Popped(n)
          /\ Popped(n)[j - m] = Popped(n)[k - m]
      BY <1>2, <1>5, <1>6, <1>8, <1>9
    <2>2. j - m = k - m
      BY <1>2, <2>1 DEF IsInjective
    <2> QED
      BY <1>3, <2>1, <2>2
  <1>10. /\ Range(shared) \subseteq Range(base)
         /\ Range(shared) # {} => block_table[s] = <<>>
         /\ Range(shared) \cap Range(free_block_ids) = {}
    <2>1. CASE shared = <<>>
      BY <2>1 DEF Range
    <2>2. CASE block_table[s] = <<>> /\ shared = SubSeq(base, 1, m)
      <3>1. Range(shared) \subseteq Range(base)
        <4> HIDE DEF base
        <4> QED
          BY <1>3, <2>2 DEF Range
      <3> QED
        BY <2>2, <3>1, TableNotFree
    <2> QED
      BY <2>1, <2>2
  <1>11. \A b : H(b) = {u \in Seqs : b \in Range(block_table[u])}
    BY DEF Holders
  <1>12. \A b : K(b) = {u \in Seqs : b \in Range(block_table'[u])}
    BY DEF Holders
  <1>13. \A b \in P : H(b) = {} /\ b \in Blocks /\ b \in Range(free_block_ids)
    BY <1>2, FreeIffUnheld DEF Range
  <1> HIDE DEF H, K, P, base
  <1>14. Range(T) = Range(block_table[s]) \cup Range(shared) \cup P
    BY <1>5, <1>6
  <1>15. \A b \in P : K(b) = {s}
    BY <1>6, <1>11, <1>12, <1>13, <1>14 DEF T
  <1>16. \A b \in Range(shared) : s \notin H(b) /\ K(b) = H(b) \cup {s}
    <2>1. block_table[s] = <<>> => Range(block_table[s]) = {}
      BY DEF Range
    <2> QED
      BY <1>6, <1>10, <1>11, <1>12, <1>14, <2>1 DEF T
  <1>17. \A b : b \notin P /\ b \notin Range(shared) => K(b) = H(b)
    BY <1>6, <1>11, <1>12, <1>14 DEF T
  <1>18. PoolTypeOK'
    <2>1. used_block_ids' \subseteq Blocks
      BY <1>1, <1>13 DEF PoolInv, PoolTypeOK, P
    <2>2. ref_count' \in [Blocks -> Nat]
      BY <1>1 DEF PoolInv, PoolTypeOK
    <2> QED
      BY <1>2, <1>6, <2>1, <2>2 DEF PoolTypeOK, Blocks
  <1>19. FreeUsedPartition'
    BY <1>1, <1>2, <1>13 DEF PoolInv, FreeUsedPartition, P, Blocks
  <1>20. FreeUncounted'
    <2>1. ASSUME NEW b \in Blocks
          PROVE  b \in Range(free_block_ids') <=> ref_count'[b] = 0
      <3>1. b \in Range(free_block_ids) <=> ref_count[b] = 0
        BY DEF PoolInv, FreeUncounted
      <3>2. ref_count[b] \in Nat
        BY DEF PoolInv, PoolTypeOK
      <3> QED
        BY <1>1, <1>2, <1>10, <3>1, <3>2 DEF P
    <2> QED
      BY <2>1 DEF FreeUncounted, Blocks
  <1>21. RefCountExact'
    <2>1. ASSUME NEW b \in Blocks
          PROVE  ref_count'[b] = Cardinality(K(b))
      <3>1. ref_count[b] = Cardinality(H(b)) /\ IsFiniteSet(H(b))
        BY HoldersFinite DEF PoolInv, RefCountExact, H
      <3>2. CASE b \in P
        BY <1>1, <1>15, <3>2, FS_Singleton DEF P
      <3>3. CASE b \in Range(shared) /\ b \notin P
        BY <1>1, <1>16, <3>1, <3>3, FS_AddElement DEF P
      <3>4. CASE b \notin Range(shared) /\ b \notin P
        BY <1>1, <1>17, <3>1, <3>4 DEF P
      <3> QED
        BY <3>2, <3>3, <3>4
    <2> QED
      BY <2>1 DEF RefCountExact, K, Blocks
  <1>22. SharedFromStart'
    <2> DEFINE new_table == block_table'
               Agree(u, v, i, j) == i = j /\ \A k \in 1 .. i : new_table[u][k] = new_table[v][k]
    <2>1. \A u, v \in Seqs : \A i \in DOMAIN block_table[u], j \in DOMAIN block_table[v] :
              block_table[u][i] = block_table[v][j] =>
                  i = j /\ \A k \in 1 .. i : block_table[u][k] = block_table[v][k]
      BY DEF PoolInv, SharedFromStart
    <2>2. \A u \in Seqs : \A i \in DOMAIN block_table[u] : block_table[u][i] \notin P
      <3>1. \A u \in Seqs : \A b \in Range(block_table[u]) : b \notin P
        BY <1>13, TableNotFree
      <3> QED
        BY <3>1 DEF Range
    <2>3. /\ \A i \in DOMAIN T : i <= m \/ i > m
          /\ \A i \in DOMAIN T : i <= m => i \in 1 .. m /\ \A k \in 1 .. i : k \in 1 .. m
      BY <1>3, <1>5, <1>6
    <2>4. ASSUME NEW v \in Seqs, v # s, NEW i \in DOMAIN T, NEW j \in DOMAIN block_table[v],
                 T[i] = block_table[v][j]
          PROVE  i = j /\ \A k \in 1 .. i : T[k] = block_table[v][k]
      <3>1. i <= m
        BY <1>8, <2>2, <2>3, <2>4
      <3>2. i \in DOMAIN base /\ base[i] = block_table[v][j]
        BY <1>7, <2>3, <2>4, <3>1
      <3>3. i = j /\ \A k \in 1 .. i : base[k] = block_table[v][k]
        BY <2>1, <3>2 DEF base
      <3> QED
        BY <1>7, <2>3, <3>1, <3>3
    <2>5. ASSUME NEW i \in DOMAIN T, NEW j \in DOMAIN T, T[i] = T[j]
          PROVE  i = j
      <3>1. CASE i <= m /\ j <= m
        <4>1. i \in DOMAIN base /\ j \in DOMAIN base /\ base[i] = base[j]
          BY <1>7, <2>3, <2>5, <3>1
        <4> QED
          BY <2>1, <4>1 DEF base
      <3>2. CASE i <= m /\ j > m
        BY <1>7, <1>8, <2>2, <2>3, <2>5, <3>2 DEF base
      <3>3. CASE i > m /\ j <= m
        BY <1>7, <1>8, <2>2, <2>3, <2>5, <3>3 DEF base
      <3>4. CASE i > m /\ j > m
        BY <1>9, <2>5, <3>4
      <3> QED
        BY <2>3, <3>1, <3>2, <3>3, <3>4
    <2>6. ASSUME NEW u \in Seqs, NEW v \in Seqs,
                 NEW i \in DOMAIN new_table[u], NEW j \in DOMAIN new_table[v],
                 new_table[u][i] = new_table[v][j]
          PROVE  Agree(u, v, i, j)
      <3>1. new_table[s] = T
        BY DEF T
      <3>2. CASE u = s /\ v = s
        BY <2>5, <2>6, <3>1, <3>2
      <3>3. CASE u = s /\ v # s
        BY <1>6, <2>4, <2>6, <3>1, <3>3
      <3>4. CASE u # s /\ v = s
        <4>1. j \in DOMAIN T /\ i \in DOMAIN block_table[u] /\ T[j] = block_table[u][i]
          BY <1>6, <2>6, <3>1, <3>4
        <4>2. j = i /\ \A k \in 1 .. j : T[k] = block_table[u][k]
          BY <2>4, <3>4, <4>1
        <4>3. new_table[u] = block_table[u] /\ new_table[v] = T
          BY <1>6, <3>1, <3>4
        <4> HIDE DEF new_table
        <4>4. ASSUME NEW k \in 1 .. i
              PROVE  new_table[u][k] = new_table[v][k]
          BY <4>2, <4>3
        <4> QED
          BY <4>2, <4>4
      <3>5. CASE u # s /\ v # s
        <4>1. new_table[u] = block_table[u] /\ new_table[v] = block_table[v]
          BY <1>6, <3>5
        <4> HIDE DEF new_table
        <4>2. i \in DOMAIN block_table[u] /\ j \in DOMAIN block_table[v]
          BY <4>1
        <4> QED
          BY <2>1, <2>6, <4>1, <4>2
      <3> QED
        BY <3>2, <3>3, <3>4, <3>5
    <2> QED
      BY <2>6 DEF SharedFromStart
  <1> QED
    BY <1>2, <1>13, <1>15, <1>18, <1>19, <1>20, <1>21, <1>22 DEF PoolInv, H, K, P

-----------------------------------------------------------------------------
(* Giving blocks back. *)

(* What deallocate() does to the pool, to the counts and to the tables.    *)
LEMMA DeallocatePreserves ==
    ASSUME PoolInv, NEW s \in Seqs, Deallocate(s)
    PROVE  /\ PoolInv'
           /\ \A b \in OnlyHeldBy(s) : Holders(b) = {s} /\ Holders(b)' = {}
           /\ Range(free_block_ids') = Range(free_block_ids) \cup OnlyHeldBy(s)
  <1> DEFINE O == OnlyHeldBy(s)
             table == block_table[s]
             freed == FreedOrder(table, O)
             H(b) == Holders(b)
             K(b) == Holders(b)'
  <1>1. /\ free_block_ids' = free_block_ids \o freed
        /\ used_block_ids' = used_block_ids \ O
        /\ ref_count' = [b \in Blocks |-> IF b \in O THEN 0
                                          ELSE IF b \in Range(table) THEN ref_count[b] - 1
                                          ELSE ref_count[b]]
        /\ block_table' = [block_table EXCEPT ![s] = <<>>]
    BY DEF Deallocate
  <1>2. O = {b \in Range(table) : ref_count[b] <= 1}
    BY DEF OnlyHeldBy
  <1>3. /\ table \in Seq(Blocks) /\ IsInjective(table)
        /\ \A b \in Range(table) : b \in Blocks /\ b \notin Range(free_block_ids)
    BY TableInjective, TableNotFree
  <1>4. /\ Cardinality(O) \in Nat
        /\ freed \in [1 .. Cardinality(O) -> O] /\ IsInjective(freed) /\ Range(freed) = O
    <2> HIDE DEF O, table
    <2> QED
      BY <1>2, <1>3, FreedOrderBijection
  <1>5. /\ free_block_ids \in Seq(Blocks) /\ IsInjective(free_block_ids)
        /\ used_block_ids = Blocks \ Range(free_block_ids)
        /\ ref_count \in [Blocks -> Nat]
        /\ block_table \in [Seqs -> Seq(Blocks)]
    BY DEF PoolInv, PoolTypeOK, FreeUsedPartition
  <1>6. \A b : H(b) = {u \in Seqs : b \in Range(block_table[u])}
    BY DEF Holders
  <1>7. \A b : K(b) = {u \in Seqs : b \in Range(block_table'[u])}
    BY DEF Holders
  <1>8. \A b \in Blocks : ref_count[b] = Cardinality(H(b)) /\ IsFiniteSet(H(b))
    BY HoldersFinite DEF PoolInv, RefCountExact
  <1>9. block_table' \in [Seqs -> Seq(Blocks)]
    BY <1>1, <1>5
  <1>10. \A b : K(b) = H(b) \ {s}
    BY <1>1, <1>5, <1>6, <1>7 DEF Range
  <1>11. freed \in Seq(Blocks)
    BY <1>2, <1>3, <1>4
  <1> HIDE DEF O, table, freed, H, K
  <1>12. /\ free_block_ids' \in Seq(Blocks)
         /\ Range(free_block_ids') = Range(free_block_ids) \cup O
    BY <1>1, <1>4, <1>5, <1>11, ConcatProperties, RangeConcatenation
  <1>13. ASSUME NEW b \in O
         PROVE  H(b) = {s}
    <2>1. s \in H(b) /\ b \in Blocks
      BY <1>2, <1>3, <1>6 DEF table
    <2>2. Cardinality(H(b)) = 1
      <3>1. Cardinality(H(b)) <= 1 /\ Cardinality(H(b)) \in Nat
        BY <1>2, <1>5, <1>8, <2>1
      <3>2. Cardinality(H(b)) # 0
        BY <1>8, <2>1, FS_EmptySet
      <3> QED
        BY <3>1, <3>2
    <2>3. \E x : H(b) = {x}
      BY <1>8, <2>1, <2>2, FS_Singleton
    <2> QED
      BY <2>1, <2>3
  <1>14. IsInjective(free_block_ids')
    <2> DEFINE free == free_block_ids
               N == Len(free)
    <2>1. /\ DOMAIN free_block_ids' = 1 .. (N + Len(freed))
          /\ \A i \in 1 .. (N + Len(freed)) :
                free_block_ids'[i] = IF i <= N THEN free[i] ELSE freed[i - N]
      BY <1>1, <1>5, <1>11, <1>12, ConcatProperties
    <2>2. /\ N \in Nat /\ DOMAIN free = 1 .. N
          /\ Len(freed) \in Nat /\ DOMAIN freed = 1 .. Len(freed)
      BY <1>5, <1>11
    <2>3. \A i \in DOMAIN free, j \in DOMAIN freed : free[i] # freed[j]
      BY <1>2, <1>3, <1>4 DEF Range
    <2>4. ASSUME NEW i \in 1 .. (N + Len(freed)), NEW j \in 1 .. (N + Len(freed)),
                 free_block_ids'[i] = free_block_ids'[j]
          PROVE  i = j
      <3> HIDE DEF free, N
      <3>1. CASE i <= N /\ j <= N
        <4>1. i \in DOMAIN free /\ j \in DOMAIN free /\ free[i] = free[j]
          BY <2>1, <2>2, <2>4, <3>1
        <4> QED
          BY <1>5, <4>1 DEF free, IsInjective
      <3>2. CASE i <= N /\ j > N
        <4>1. /\ i \in DOMAIN free /\ j - N \in DOMAIN freed
              /\ free[i] = freed[j - N]
          BY <2>1, <2>2, <2>4, <3>2
        <4> QED
          BY <2>3, <4>1
      <3>3. CASE i > N /\ j <= N
        <4>1. /\ j \in DOMAIN free /\ i - N \in DOMAIN freed
              /\ free[j] = freed[i - N]
          BY <2>1, <2>2, <2>4, <3>3
        <4> QED
          BY <2>3, <4>1
      <3>4. CASE i > N /\ j > N
        <4>1. /\ i - N \in DOMAIN freed /\ j - N \in DOMAIN freed
              /\ freed[i - N] = freed[j - N]
          BY <2>1, <2>2, <2>4, <3>4
        <4>2. i - N = j - N
          BY <1>4, <4>1 DEF IsInjective
        <4> QED
          BY <2>2, <4>2
      <3> QED
        BY <2>2, <3>1, <3>2, <3>3, <3>4
    <2> QED
      BY <2>1, <2>4 DEF IsInjective
  <1>15. PoolTypeOK' /\ FreeUsedPartition'
    <2>1. used_block_ids' = Blocks \ Range(free_block_ids')
      BY <1>1, <1>5, <1>12
    <2>2. ASSUME NEW b \in Range(table), b \notin O
          PROVE  ref_count[b] - 1 \in Nat
      BY <1>2, <1>3, <1>5, <2>2
    <2>3. ref_count' \in [Blocks -> Nat]
      BY <1>1, <1>5, <2>2
    <2> QED
      BY <1>9, <1>12, <1>14, <2>1, <2>3 DEF PoolTypeOK, FreeUsedPartition, Blocks
  <1>16. RefCountExact' /\ FreeUncounted'
    <2>1. ASSUME NEW b \in Blocks
          PROVE  /\ ref_count'[b] = Cardinality(K(b))
                 /\ b \in Range(free_block_ids') <=> ref_count'[b] = 0
      <3>1. b \in Range(free_block_ids) <=> ref_count[b] = 0
        BY DEF PoolInv, FreeUncounted
      <3>2. CASE b \in O
        BY <1>1, <1>10, <1>12, <1>13, <3>2, FS_EmptySet
      <3>3. CASE b \in Range(table) /\ b \notin O
        <4>1. s \in H(b)
          BY <1>6, <3>3 DEF table
        <4>2. Cardinality(K(b)) = ref_count[b] - 1
          BY <1>8, <1>10, <4>1, FS_RemoveElement
        <4>3. ref_count[b] \in Nat /\ ref_count[b] > 1
          BY <1>2, <1>5, <3>3
        <4> QED
          BY <1>1, <1>12, <3>1, <3>3, <4>2, <4>3
      <3>4. CASE b \notin Range(table)
        <4>1. K(b) = H(b) /\ b \notin O
          BY <1>2, <1>6, <1>10, <3>4 DEF table
        <4> QED
          BY <1>1, <1>8, <1>12, <3>1, <3>4, <4>1
      <3> QED
        BY <3>2, <3>3, <3>4
    <2> QED
      BY <2>1 DEF RefCountExact, FreeUncounted, K, Blocks
  <1>17. SharedFromStart'
    BY <1>1, <1>5, <1>9 DEF SharedFromStart, PoolInv
  <1> QED
    BY <1>10, <1>12, <1>13, <1>15, <1>16, <1>17 DEF PoolInv, O, H, K

-----------------------------------------------------------------------------
(* Steps of the pool. *)

(* A length needs some number of blocks. *)
LEMMA BlocksForType == \A len \in Lengths : BlocksFor(len) \in Nat
  BY PoolAssumption DEF PoolAssumption, Lengths, BlocksFor

(* The initial pool: every block free. *)
LEMMA InitInv == PoolInit => PoolInv
  <1> SUFFICES ASSUME PoolInit PROVE PoolInv
    OBVIOUS
  <1>1. /\ free_block_ids = [i \in 1 .. NumBlocks |-> NumBlocks - i]
        /\ NumBlocks \in Nat
    BY PoolAssumption DEF PoolInit, PoolAssumption
  <1>2. free_block_ids \in Seq(Blocks) /\ DOMAIN free_block_ids = 1 .. NumBlocks
    BY <1>1 DEF Blocks
  <1>3. IsInjective(free_block_ids)
    BY <1>1 DEF IsInjective
  <1>4. Range(free_block_ids) = Blocks
    <2>1. ASSUME NEW b \in Blocks
          PROVE  NumBlocks - b \in 1 .. NumBlocks /\ free_block_ids[NumBlocks - b] = b
      BY <1>1 DEF Blocks
    <2>2. Range(free_block_ids) \subseteq Blocks
      BY <1>2, RangeOfSeq
    <2> QED
      BY <1>2, <2>1, <2>2 DEF Range
  <1>5. \A b : Holders(b) = {}
    BY DEF PoolInit, Holders, Range
  <1>6. PoolTypeOK
    BY <1>2 DEF PoolInit, PoolTypeOK
  <1>7. FreeUsedPartition
    BY <1>3, <1>4 DEF PoolInit, FreeUsedPartition
  <1>8. FreeUncounted /\ RefCountExact
    BY <1>4, <1>5, FS_EmptySet DEF PoolInit, FreeUncounted, RefCountExact
  <1>9. SharedFromStart
    BY DEF PoolInit, SharedFromStart
  <1> QED
    BY <1>6, <1>7, <1>8, <1>9 DEF PoolInv

(* What a step does to the free stack and to the holders. *)
Handover ==
    /\ \A b \in Blocks :
          b \in Range(free_block_ids) /\ b \notin Range(free_block_ids') =>
              Holders(b) = {} /\ \E s \in Seqs : Holders(b)' = {s}
    /\ \A b \in Blocks :
          b \notin Range(free_block_ids) /\ b \in Range(free_block_ids') =>
              \E s \in Seqs : Holders(b) = {s} /\ Holders(b)' = {}

(* Every step keeps the invariant and hands blocks over properly. *)
LEMMA NextInv ==
    ASSUME PoolInv, [PoolNext]_poolVars
    PROVE  PoolInv' /\ Handover
  <1>1. CASE UNCHANGED poolVars
    <2>1. \A b : Holders(b)' = Holders(b)
      BY <1>1 DEF poolVars, Holders
    <2> QED
      BY <1>1, <2>1 DEF poolVars, Handover, PoolInv, PoolTypeOK, FreeUsedPartition,
                        FreeUncounted, RefCountExact, SharedFromStart, Blocks
  <1>2. ASSUME NEW s \in Seqs, NEW t \in Seqs, NEW n \in Nat,
               NEW m \in 0 .. Len(block_table[t]), NEW shared,
               \/ s = t /\ shared = <<>> /\ m = Len(block_table[t])
               \/ block_table[s] = <<>> /\ shared = SubSeq(block_table[t], 1, m),
               TakeBlocks(s, shared, n)
        PROVE  PoolInv' /\ Handover
    BY <1>2, TakeBlocksPreserves DEF Handover
  <1>3. ASSUME NEW s \in Seqs, NEW n \in Nat, TakeBlocks(s, <<>>, n)
        PROVE  PoolInv' /\ Handover
    <2>1. Len(block_table[s]) \in 0 .. Len(block_table[s])
      BY DEF PoolInv, PoolTypeOK
    <2> QED
      BY <1>2, <1>3, <2>1
  <1>4. ASSUME NEW s \in Seqs, NEW len \in Lengths, Allocate(s, len)
        PROVE  PoolInv' /\ Handover
    BY <1>3, <1>4, BlocksForType DEF Allocate
  <1>5. ASSUME NEW s \in Seqs, NEW len \in Lengths, NEW chain \in Chains,
               Len(chain) <= BlocksFor(len), ShareAndExtend(s, chain, len)
        PROVE  PoolInv' /\ Handover
    <2>0. PICK t \in Seqs :
               \E m \in 1 .. Len(block_table[t]) : chain = SubSeq(block_table[t], 1, m)
      BY DEF Chains
    <2>1. PICK m \in 1 .. Len(block_table[t]) : chain = SubSeq(block_table[t], 1, m)
      BY <2>0
    <2>2. m \in 0 .. Len(block_table[t]) /\ Len(chain) \in Nat
      BY <2>1 DEF PoolInv, PoolTypeOK
    <2>3. BlocksFor(len) - Len(chain) \in Nat
      BY <1>5, <2>2, BlocksForType
    <2> QED
      BY <1>2, <1>5, <2>1, <2>2, <2>3 DEF ShareAndExtend
  <1>6. ASSUME NEW s \in Seqs, NEW len \in Lengths, MayAppend(s, len)
        PROVE  PoolInv' /\ Handover
    BY <1>1, <1>3, <1>6 DEF MayAppend
  <1>7. ASSUME NEW s \in Seqs, Deallocate(s)
        PROVE  PoolInv' /\ Handover
    <2>1. OnlyHeldBy(s) \subseteq Range(block_table[s])
      BY DEF OnlyHeldBy
    <2> QED
      BY <1>7, DeallocatePreserves DEF Handover
  <1> QED
    BY <1>1, <1>4, <1>5, <1>6, <1>7 DEF PoolNext

-----------------------------------------------------------------------------
(* The pool keeps all of its invariants under every sequence of calls that *)
(* respects its asserts and adopts only chains of live tables.             *)
THEOREM PoolInvariant == PoolSpec => []PoolInv
  BY InitInv, NextInv, PTL DEF PoolSpec

(* Type correctness: the fields of the pool and the tables keep their types. *)
THEOREM PoolTypeCorrect == PoolSpec => []PoolTypeOK
  <1>1. PoolInv => PoolTypeOK
    BY DEF PoolInv
  <1> QED
    BY <1>1, PoolInvariant, PTL

(* No block is on the free stack twice, and none is both free and used: a  *)
(* block is never handed out while somebody uses it.                       *)
THEOREM PoolPartitioned == PoolSpec => []FreeUsedPartition
  <1>1. PoolInv => FreeUsedPartition
    BY DEF PoolInv
  <1> QED
    BY <1>1, PoolInvariant, PTL

(* The reference counts of block_manager.py are exact. *)
THEOREM PoolCountsExact == PoolSpec => []RefCountExact
  <1>1. PoolInv => RefCountExact
    BY DEF PoolInv
  <1> QED
    BY <1>1, PoolInvariant, PTL

(* The assert of _allocate_block, `block.ref_count == 0`, never fails, and *)
(* a block with no reference is back in the pool (no leak).                *)
THEOREM PoolFreeUncounted == PoolSpec => []FreeUncounted
  <1>1. PoolInv => FreeUncounted
    BY DEF PoolInv
  <1> QED
    BY <1>1, PoolInvariant, PTL

(* Blocks are shared only as a common prefix of two tables. *)
THEOREM PoolSharedFromStart == PoolSpec => []SharedFromStart
  <1>1. PoolInv => SharedFromStart
    BY DEF PoolInv
  <1> QED
    BY <1>1, PoolInvariant, PTL

(* A block that leaves the free stack goes to exactly one table. *)
THEOREM PoolFreshBlocksPrivate == PoolSpec => FreshBlocksPrivate
  <1>1. PoolInv /\ [PoolNext]_poolVars =>
          [\A b \in Blocks :
              b \in Range(free_block_ids) /\ b \notin Range(free_block_ids') =>
                  Holders(b) = {} /\ \E s \in Seqs : Holders(b)' = {s}]_poolVars
    BY NextInv DEF Handover
  <1> QED
    BY <1>1, PoolInvariant, PTL DEF PoolSpec, FreshBlocksPrivate

(* A block returns to the free stack in the step in which its last table   *)
(* lets go of it.                                                          *)
THEOREM PoolFreedOnlyByLastHolder == PoolSpec => FreedOnlyByLastHolder
  <1>1. PoolInv /\ [PoolNext]_poolVars =>
          [\A b \in Blocks :
              b \notin Range(free_block_ids) /\ b \in Range(free_block_ids') =>
                  \E s \in Seqs : Holders(b) = {s} /\ Holders(b)' = {}]_poolVars
    BY NextInv DEF Handover
  <1> QED
    BY <1>1, PoolInvariant, PTL DEF PoolSpec, FreedOnlyByLastHolder

=============================================================================
