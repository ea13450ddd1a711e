----------------------------- MODULE ListProofs -----------------------------
(***************************************************************************)
(* Lemmas about the lists of the engine: what a comprehension, a deletion, *)
(* a concatenation and the ends of a list hold, and how often.             *)
(***************************************************************************)
EXTENDS Lists, SequencesExt, FiniteSetTheorems, SequenceTheorems, NaturalsInduction, TLAPS

(* The smallest k members of a finite set of positions are counted by      *)
(* their largest, so that Nth lists the set in order.                      *)
LEMMA NthListsSet ==
    ASSUME NEW n \in Nat, NEW K \in SUBSET (1 .. n)
    PROVE  /\ Cardinality(K) \in Nat
           /\ Cardinality(K) <= n
           /\ \A k \in 1 .. Cardinality(K) : Nth(K, k) \in K
           /\ \A k \in 1 .. Cardinality(K) : \A l \in 1 .. Cardinality(K) :
                 Nth(K, k) = Nth(K, l) => k = l
           /\ \A i \in K : \E k \in 1 .. Cardinality(K) : Nth(K, k) = i
  <1> DEFINE below(i) == {j \in K : j <= i}
             rank == [i \in K |-> Cardinality(below(i))]
             c == Cardinality(K)
  <1>1. IsFiniteSet(K) /\ c \in Nat /\ c <= n
    <2>1. IsFiniteSet(1 .. n) /\ Cardinality(1 .. n) = n
      BY FS_Interval
    <2> QED
      BY <2>1, FS_Subset, FS_CardinalityType
  <1>2. ASSUME NEW i \in K
        PROVE  /\ IsFiniteSet(below(i))
               /\ Cardinality(below(i)) \in 1 .. c
    <2>1. below(i) \in SUBSET K /\ i \in below(i)
      OBVIOUS
    <2>2. IsFiniteSet(below(i)) /\ Cardinality(below(i)) <= c
      BY <1>1, <2>1, FS_Subset
    <2>3. Cardinality(below(i)) \in Nat /\ Cardinality(below(i)) # 0
      BY <2>1, <2>2, FS_CardinalityType, FS_EmptySet
    <2> QED
      BY <1>1, <2>2, <2>3
  <1>3. ASSUME NEW i \in K, NEW j \in K, i < j
        PROVE  Cardinality(below(i)) # Cardinality(below(j))
    <2>a. j \in below(j) /\ j \notin below(i)
      BY <1>3
    <2>b. ASSUME NEW k \in K, k <= i PROVE k <= j
      BY <1>3, <2>b
    <2>1. below(i) \in SUBSET below(j) /\ j \in below(j) /\ j \notin below(i)
      BY <2>a, <2>b
    <2>2. IsFiniteSet(below(j))
      BY <1>2
    <2>3. Cardinality(below(i)) = Cardinality(below(j)) => below(j) = below(i)
      BY <2>1, <2>2, FS_Subset
    <2> QED
      BY <2>1, <2>3
  <1>4. rank \in Injection(K, 1 .. c)
    <2>1. rank \in [K -> 1 .. c]
      BY <1>2
    <2>2. ASSUME NEW i \in K, NEW j \in K, rank[i] = rank[j]
          PROVE  i = j
      <3>1. ~(i < j) /\ ~(j < i)
        BY <1>3, <2>2
      <3> QED
        BY <3>1
    <2> QED
      BY <2>1, <2>2 DEF Injection, IsInjective
  <1>5. rank \in Surjection(K, 1 .. c)
    <2>1. IsFiniteSet(1 .. c) /\ Cardinality(1 .. c) = c
      BY <1>1, FS_Interval
    <2> QED
      BY <1>4, <2>1, FS_Injection
  <1>6. \A k \in 1 .. c : Nth(K, k) \in K /\ rank[Nth(K, k)] = k
    <2>1. SUFFICES ASSUME NEW k \in 1 .. c
                   PROVE  Nth(K, k) \in K /\ rank[Nth(K, k)] = k
      OBVIOUS
    <2>2. PICK i \in K : rank[i] = k
      BY <1>5 DEF Surjection
    <2>3. Cardinality({j \in K : j <= i}) = k
      BY <2>2
    <2>4. /\ Nth(K, k) \in K
          /\ Cardinality({j \in K : j <= Nth(K, k)}) = k
      BY <2>3 DEF Nth
    <2> QED
      BY <2>4
  <1>7. \A i \in K : Nth(K, rank[i]) = i
    <2>1. SUFFICES ASSUME NEW i \in K PROVE Nth(K, rank[i]) = i
      OBVIOUS
    <2>2. rank[i] \in 1 .. c
      BY <1>2
    <2>3. Nth(K, rank[i]) \in K /\ rank[Nth(K, rank[i])] = rank[i]
      BY <1>6, <2>2
    <2> QED
      BY <1>4, <2>3 DEF Injection, IsInjective
  <1> QED
    BY <1>1, <1>2, <1>6, <1>7

(* A comprehension keeps the members that satisfy its condition, each as   *)
(* often as the list has it.                                               *)
LEMMA OnlyKeeps ==
    ASSUME NEW T, NEW q \in Seq(T), NEW S
    PROVE  /\ Only(q, S) \in Seq(T)
           /\ Len(Only(q, S)) <= Len(q)
           /\ Range(Only(q, S)) = Range(q) \cap S
           /\ IsInjective(q) => IsInjective(Only(q, S))
  <1> DEFINE kept == {i \in DOMAIN q : q[i] \in S}
             c == Cardinality(kept)
             r == [k \in 1 .. c |-> q[Nth(kept, k)]]
  <1>1. Len(q) \in Nat /\ DOMAIN q = 1 .. Len(q) /\ \A i \in DOMAIN q : q[i] \in T
    OBVIOUS
  <1>2. kept \in SUBSET (1 .. Len(q))
    BY <1>1
  <1>3. Only(q, S) = r
    BY DEF Only
  <1>4. c \in Nat /\ c <= Len(q)
    BY <1>1, <1>2, NthListsSet
  <1>5. \A k \in 1 .. c : Nth(kept, k) \in kept
    BY <1>1, <1>2, NthListsSet
  <1>6. \A k \in 1 .. c : \A l \in 1 .. c : Nth(kept, k) = Nth(kept, l) => k = l
    BY <1>1, <1>2, NthListsSet
  <1>7. \A i \in kept : \E k \in 1 .. c : Nth(kept, k) = i
    BY <1>1, <1>2, NthListsSet
  <1>8. \A i \in kept : i \in DOMAIN q /\ q[i] \in S
    OBVIOUS
  <1>9. \A i \in DOMAIN q : q[i] \in S => i \in kept
    OBVIOUS
  <1> HIDE DEF kept, c
  <1>10. r \in Seq(T) /\ Len(r) = c /\ DOMAIN r = 1 .. c
    <2>1. \A k \in 1 .. c : q[Nth(kept, k)] \in T
      BY <1>1, <1>5, <1>8
    <2> QED
      BY <1>4, <2>1
  <1>11. Range(r) = Range(q) \cap S
    <2>1. ASSUME NEW x \in Range(r) PROVE x \in Range(q) \cap S
      <3>1. PICK k \in 1 .. c : x = r[k]
        BY <1>10 DEF Range
      <3> QED
        BY <1>5, <1>8, <3>1 DEF Range
    <2>2. ASSUME NEW x \in Range(q), x \in S PROVE x \in Range(r)
      <3>1. PICK i \in DOMAIN q : x = q[i]
        BY DEF Range
      <3>2. PICK k \in 1 .. c : Nth(kept, k) = i
        BY <1>7, <1>9, <2>2, <3>1
      <3>3. r[k] = x /\ k \in DOMAIN r
        BY <1>10, <3>1, <3>2
      <3> QED
        BY <3>3 DEF Range
    <2> QED
      BY <2>1, <2>2
  <1>12. ASSUME IsInjective(q) PROVE IsInjective(r)
    <2>1. SUFFICES ASSUME NEW k \in 1 .. c, NEW l \in 1 .. c, r[k] = r[l]
                   PROVE  k = l
      BY <1>10 DEF IsInjective
    <2>2. q[Nth(kept, k)] = q[Nth(kept, l)]
      BY <2>1
    <2>3. Nth(kept, k) = Nth(kept, l)
      BY <1>5, <1>8, <1>12, <2>2 DEF IsInjective
    <2> QED
      BY <1>6, <2>3
  <1> QED
    BY <1>3, <1>4, <1>10, <1>11, <1>12

(* Deletion takes out one element and nothing else. *)
LEMMA WithoutKeeps ==
    ASSUME NEW T, NEW q \in Seq(T), NEW e
    PROVE  /\ Without(q, e) \in Seq(T)
           /\ Len(Without(q, e)) <= Len(q)
           /\ Range(Without(q, e)) = Range(q) \ {e}
           /\ IsInjective(q) => IsInjective(Without(q, e))
  <1>1. Range(q) \cap (Range(q) \ {e}) = Range(q) \ {e}
    OBVIOUS
  <1> QED
    BY <1>1, OnlyKeeps DEF Without

(* A list without repetition is as long as its range is large. *)
LEMMA LengthOfInjective ==
    ASSUME NEW T, NEW q \in Seq(T), IsInjective(q)
    PROVE  IsFiniteSet(Range(q)) /\ Cardinality(Range(q)) = Len(q)
  <1>1. Len(q) \in Nat /\ DOMAIN q = 1 .. Len(q)
    OBVIOUS
  <1>2. q \in Bijection(1 .. Len(q), Range(q))
    BY <1>1 DEF Bijection, Injection, Surjection, IsInjective, Range
  <1>3. IsFiniteSet(1 .. Len(q)) /\ Cardinality(1 .. Len(q)) = Len(q)
    BY <1>1, FS_Interval
  <1> QED
    BY <1>2, <1>3, FS_Bijection DEF ExistsBijection

(* Deletion of an element that stands in a list once makes it one shorter. *)
LEMMA WithoutLength ==
    ASSUME NEW T, NEW q \in Seq(T), IsInjective(q), NEW e \in Range(q)
    PROVE  Len(Without(q, e)) = Len(q) - 1
  <1>1. PICK p : p = Without(q, e)
    OBVIOUS
  <1>2. p \in Seq(T) /\ IsInjective(p) /\ Range(p) = Range(q) \ {e}
    BY <1>1, WithoutKeeps
  <1>3. Cardinality(Range(p)) = Len(p) /\ Cardinality(Range(q)) = Len(q)
        /\ IsFiniteSet(Range(q))
    BY <1>2, LengthOfInjective
  <1>4. Cardinality(Range(q) \ {e}) = Cardinality(Range(q)) - 1
    BY <1>3, FS_RemoveElement
  <1> QED
    BY <1>1, <1>2, <1>3, <1>4

(* Removing a member never lengthens a list. *)
LEMMA WithoutShrinks ==
    ASSUME NEW T, NEW q \in Seq(T), IsInjective(q), NEW e
    PROVE  Len(Without(q, e)) <= Len(q)
  <1>1. PICK p : p = Without(q, e)
    OBVIOUS
  <1>2. p \in Seq(T) /\ IsInjective(p) /\ Range(p) = Range(q) \ {e}
    BY <1>1, WithoutKeeps
  <1>3. /\ Cardinality(Range(p)) = Len(p) /\ Cardinality(Range(q)) = Len(q)
        /\ IsFiniteSet(Range(q))
    BY <1>2, LengthOfInjective
  <1>4. Range(p) \subseteq Range(q)
    BY <1>2
  <1> QED
    BY <1>1, <1>3, <1>4, FS_Subset

-----------------------------------------------------------------------------
(* Ends of a list and concatenation. *)

LEMMA RangeOfConcat ==
    ASSUME NEW T, NEW p \in Seq(T), NEW q \in Seq(T)
    PROVE  /\ p \o q \in Seq(T)
           /\ Len(p \o q) = Len(p) + Len(q)
           /\ Range(p \o q) = Range(p) \cup Range(q)
  BY RangeConcatenation, ConcatProperties

(* No member occurs twice in p followed by q when none does in p, none in  *)
(* q, and they have none in common.                                        *)
LEMMA InjectiveConcat ==
    ASSUME NEW T, NEW p \in Seq(T), NEW q \in Seq(T)
    PROVE  IsInjective(p \o q) <=>
             IsInjective(p) /\ IsInjective(q) /\ Range(p) \cap Range(q) = {}
  <1> DEFINE m == Len(p)
             n == Len(q)
             r == p \o q
  <1>1. m \in Nat /\ n \in Nat /\ DOMAIN p = 1 .. m /\ DOMAIN q = 1 .. n
    OBVIOUS
  <1>2. /\ DOMAIN r = 1 .. m + n
        /\ \A i \in 1 .. m : r[i] = p[i] /\ i \in DOMAIN r
        /\ \A j \in 1 .. n : r[m + j] = q[j] /\ m + j \in DOMAIN r
    BY <1>1
  <1>3. \A i \in 1 .. m + n : i \in 1 .. m \/ \E j \in 1 .. n : i = m + j
    <2>1. SUFFICES ASSUME NEW i \in 1 .. m + n, i \notin 1 .. m
                   PROVE  \E j \in 1 .. n : i = m + j
      OBVIOUS
    <2>2. i - m \in 1 .. n /\ i = m + (i - m)
      BY <1>1, <2>1
    <2> QED
      BY <2>2
  <1> HIDE DEF m, n, r
  <1>4. ASSUME IsInjective(r)
        PROVE  IsInjective(p) /\ IsInjective(q) /\ Range(p) \cap Range(q) = {}
    <2>1. ASSUME NEW i \in 1 .. m, NEW k \in 1 .. m, p[i] = p[k] PROVE i = k
      BY <1>2, <1>4, <2>1 DEF IsInjective
    <2>2. ASSUME NEW i \in 1 .. n, NEW k \in 1 .. n, q[i] = q[k] PROVE i = k
      <3>1. m + i = m + k
        BY <1>2, <1>4, <2>2 DEF IsInjective
      <3> QED
        BY <1>1, <3>1
    <2>3. ASSUME NEW i \in 1 .. m, NEW k \in 1 .. n, p[i] = q[k] PROVE FALSE
      <3>1. i = m + k
        BY <1>2, <1>4, <2>3 DEF IsInjective
      <3> QED
        BY <1>1, <3>1
    <2> QED
      BY <1>1, <2>1, <2>2, <2>3 DEF IsInjective, Range
  <1>5. ASSUME IsInjective(p), IsInjective(q), Range(p) \cap Range(q) = {}
        PROVE  IsInjective(r)
    <2>1. \A i \in 1 .. m : \A k \in 1 .. n : p[i] # q[k]
      BY <1>1, <1>5 DEF Range
    <2>2. SUFFICES ASSUME NEW i \in 1 .. m + n, NEW k \in 1 .. m + n, r[i] = r[k]
                   PROVE  i = k
      BY <1>2 DEF IsInjective
    <2>3. CASE i \in 1 .. m /\ k \in 1 .. m
      BY <1>1, <1>2, <1>5, <2>2, <2>3 DEF IsInjective
    <2>4. CASE i \in 1 .. m /\ k \notin 1 .. m
      BY <1>2, <1>3, <2>1, <2>2, <2>4
    <2>5. CASE i \notin 1 .. m /\ k \in 1 .. m
      BY <1>2, <1>3, <2>1, <2>2, <2>5
    <2>6. CASE i \notin 1 .. m /\ k \notin 1 .. m
      <3>1. PICK j \in 1 .. n : i = m + j
        BY <1>3, <2>6
      <3>2. PICK l \in 1 .. n : k = m + l
        BY <1>3, <2>6
      <3>3. q[j] = q[l]
        BY <1>2, <2>2, <3>1, <3>2
      <3> QED
        BY <1>1, <1>5, <3>1, <3>2, <3>3 DEF IsInjective
    <2> QED
      BY <2>3, <2>4, <2>5, <2>6
  <1> QED
    BY <1>4, <1>5 DEF r

LEMMA RangeOfPair ==
    ASSUME NEW e
    PROVE  /\ Range(<<e>>) = {e} /\ IsInjective(<<e>>) /\ Len(<<e>>) = 1
           /\ Range(<<>>) = {} /\ IsInjective(<<>>)
  BY DEF Range, IsInjective

LEMMA EmptyList == \A T : <<>> \in Seq(T) /\ Range(<<>>) = {} /\ IsInjective(<<>>)
  BY DEF Range, IsInjective

LEMMA RangeOfAppend ==
    ASSUME NEW T, NEW q \in Seq(T), NEW e \in T
    PROVE  /\ Append(q, e) \in Seq(T)
           /\ Range(Append(q, e)) = Range(q) \cup {e}
           /\ IsInjective(Append(q, e)) <=> IsInjective(q) /\ e \notin Range(q)
  <1>1. Append(q, e) = q \o <<e>> /\ <<e>> \in Seq(T)
    OBVIOUS
  <1>2. Range(<<e>>) = {e} /\ IsInjective(<<e>>)
    BY RangeOfPair
  <1>3. q \o <<e>> \in Seq(T) /\ Range(q \o <<e>>) = Range(q) \cup Range(<<e>>)
    BY <1>1, RangeOfConcat
  <1>4. IsInjective(q \o <<e>>) <=> IsInjective(q) /\ Range(q) \cap {e} = {}
    BY <1>1, <1>2, InjectiveConcat
  <1> QED
    BY <1>1, <1>2, <1>3, <1>4

LEMMA HeadAndTail ==
    ASSUME NEW T, NEW q \in Seq(T), q # <<>>
    PROVE  /\ Tail(q) \in Seq(T)
           /\ Len(Tail(q)) = Len(q) - 1
           /\ Range(q) = {Head(q)} \cup Range(Tail(q))
           /\ IsInjective(q) => IsInjective(Tail(q)) /\ Head(q) \notin Range(Tail(q))
  <1>1. /\ q = <<Head(q)>> \o Tail(q) /\ <<Head(q)>> \in Seq(T) /\ Tail(q) \in Seq(T)
        /\ Len(Tail(q)) = Len(q) - 1
    OBVIOUS
  <1>2. Range(<<Head(q)>>) = {Head(q)}
    BY RangeOfPair
  <1>3. Range(<<Head(q)>> \o Tail(q)) = Range(<<Head(q)>>) \cup Range(Tail(q))
    BY <1>1, RangeOfConcat
  <1>4. IsInjective(q) => IsInjective(Tail(q)) /\ {Head(q)} \cap Range(Tail(q)) = {}
    BY <1>1, <1>2, InjectiveConcat
  <1> QED
    BY <1>1, <1>2, <1>3, <1>4

LEMMA FrontAndLast ==
    ASSUME NEW T, NEW q \in Seq(T), q # <<>>
    PROVE  /\ Front(q) \in Seq(T)
           /\ Len(Front(q)) = Len(q) - 1
           /\ Range(q) = Range(Front(q)) \cup {Last(q)}
           /\ IsInjective(q) => IsInjective(Front(q)) /\ Last(q) \notin Range(Front(q))
  <1>1. Len(q) \in Nat \ {0} /\ \A i \in 1 .. Len(q) : q[i] \in T
    OBVIOUS
  <1>2. \A i \in 1 .. Len(q) - 1 : q[i] \in T
    BY <1>1
  <1>3. /\ Front(q) \in Seq(T) /\ Len(Front(q)) = Len(q) - 1
        /\ \A i \in 1 .. Len(q) - 1 : Front(q)[i] = q[i]
    <2> DEFINE n == Len(q) - 1
    <2>1. n \in Int /\ 1 \in Int /\ \A i \in 1 .. n : q[i] \in T
      BY <1>1, <1>2
    <2>2. /\ SubSeq(q, 1, n) \in Seq(T)
          /\ Len(SubSeq(q, 1, n)) = IF 1 <= n THEN n - 1 + 1 ELSE 0
          /\ \A i \in 1 .. n - 1 + 1 : SubSeq(q, 1, n)[i] = q[1 + i - 1]
      <3> HIDE DEF n
      <3> QED
        BY <2>1, SubSeqProperties
    <2>3. Front(q) = SubSeq(q, 1, n)
      BY DEF Front
    <2> HIDE DEF n
    <2>a. n = Len(q) - 1 /\ Len(q) \in Nat /\ Len(q) # 0
      BY <1>1 DEF n
    <2>4. n \in Nat /\ (1 <= n \/ n = 0)
      BY <2>a, Z3
    <2> HIDE DEF n
    <2>5. Front(q) \in Seq(T) /\ Len(Front(q)) = n
      BY <2>2, <2>3, <2>4
    <2>6. \A i \in 1 .. n : Front(q)[i] = q[i]
      BY <2>2, <2>3, <2>4
    <2> QED
      BY <2>5, <2>6 DEF n
  <1>4. <<Last(q)>> \in Seq(T) /\ Last(q) = q[Len(q)]
    BY <1>1 DEF Last
  <1>5. q = Front(q) \o <<Last(q)>>
    BY <1>1, <1>3, <1>4
  <1>6. Range(<<Last(q)>>) = {Last(q)}
    BY RangeOfPair
  <1>7. Range(Front(q) \o <<Last(q)>>) = Range(Front(q)) \cup Range(<<Last(q)>>)
    BY <1>3, <1>4, RangeOfConcat
  <1>8. IsInjective(q) => IsInjective(Front(q)) /\ Range(Front(q)) \cap {Last(q)} = {}
    BY <1>3, <1>4, <1>5, <1>6, InjectiveConcat
  <1> QED
    BY <1>3, <1>5, <1>6, <1>7, <1>8

(* Three lists one after the other hold no member twice when none of them  *)
(* does and no two have one in common.                                     *)
LEMMA ThreeLists ==
    ASSUME NEW T, NEW p \in Seq(T), NEW q \in Seq(T), NEW r \in Seq(T)
    PROVE  /\ Range(p \o q \o r) = Range(p) \cup Range(q) \cup Range(r)
           /\ IsInjective(p \o q \o r) <=>
                /\ IsInjective(p) /\ IsInjective(q) /\ IsInjective(r)
                /\ Range(p) \cap Range(q) = {} /\ Range(p) \cap Range(r) = {}
                /\ Range(q) \cap Range(r) = {}
  <1>a. PICK pq : pq = p \o q
    OBVIOUS
  <1>1. pq \in Seq(T) /\ Range(pq) = Range(p) \cup Range(q)
    BY <1>a, RangeOfConcat
  <1>2. Range(pq \o r) = Range(pq) \cup Range(r)
    BY <1>1, RangeOfConcat
  <1>3. IsInjective(pq) <=>
          IsInjective(p) /\ IsInjective(q) /\ Range(p) \cap Range(q) = {}
    BY <1>a, InjectiveConcat
  <1>4. IsInjective(pq \o r) <=>
          IsInjective(pq) /\ IsInjective(r) /\ Range(pq) \cap Range(r) = {}
    BY <1>1, InjectiveConcat
  <1> QED
    BY <1>a, <1>1, <1>2, <1>3, <1>4

(* An ordering of a finite set lists its members, each once. *)
LEMMA OrderingOf ==
    ASSUME NEW S, IsFiniteSet(S), NEW q \in SetToSeqs(S)
    PROVE  q \in Seq(S) /\ IsInjective(q) /\ Range(q) = S
  <1> DEFINE n == Cardinality(S)
  <1>1. n \in Nat
    BY FS_CardinalityType
  <1>2. q \in [1 .. n -> S] /\ \A i, j \in 1 .. n : i # j => q[i] # q[j]
    BY DEF SetToSeqs
  <1> HIDE DEF n
  <1>3. q \in Seq(S) /\ DOMAIN q = 1 .. n
    BY <1>1, <1>2
  <1>4. q \in Injection(1 .. n, S)
    BY <1>2, <1>3 DEF Injection, IsInjective
  <1>5. IsFiniteSet(1 .. n) /\ Cardinality(1 .. n) = n
    BY <1>1, FS_Interval
  <1>6. q \in Surjection(1 .. n, S)
    BY <1>4, <1>5, FS_Injection DEF n
  <1> QED
    BY <1>3, <1>4, <1>6 DEF Injection, Surjection, Range

LEMMA SomeOrderingOf ==
    ASSUME NEW S, IsFiniteSet(S)
    PROVE  SetToSeq(S) \in Seq(S) /\ IsInjective(SetToSeq(S)) /\ Range(SetToSeq(S)) = S
  <1>1. PICK n \in Nat : n = Cardinality(S)
    BY FS_CardinalityType
  <1>2. ExistsBijection(1 .. n, S)
    BY <1>1, FS_CountingElements, FS_NatBijection, FS_CardinalityType
  <1>3. PICK f \in [1 .. n -> S] : IsInjective(f)
    BY <1>2 DEF ExistsBijection, Bijection, Injection
  <1>4. PICK q : q = SetToSeq(S)
    OBVIOUS
  <1>5. q \in [1 .. n -> S] /\ IsInjective(q)
    BY <1>1, <1>3, <1>4 DEF SetToSeq
  <1>6. q \in Seq(S) /\ DOMAIN q = 1 .. n
    BY <1>5
  <1>7. q \in Injection(1 .. n, S)
    BY <1>5, <1>6 DEF Injection, IsInjective
  <1>8. IsFiniteSet(1 .. n) /\ Cardinality(1 .. n) = n
    BY FS_Interval
  <1>9. q \in Surjection(1 .. n, S)
    BY <1>1, <1>7, <1>8, FS_Injection
  <1> QED
    BY <1>4, <1>5, <1>6, <1>9 DEF Surjection, Range

-----------------------------------------------------------------------------
(* Extremes of sets of numbers. *)

LEMMA SmallestOf ==
    ASSUME NEW K \in SUBSET Nat, K # {}
    PROVE  Min(K) \in K /\ \A i \in K : Min(K) <= i
  <1> DEFINE R == OpToRel(<, Nat)
  <1>1. IsWellFoundedOn(R, Nat)
    BY NatLessThanWellFounded
  <1> HIDE DEF R
  <1>2. PICK i \in K : \A j \in K : ~ (<<j, i>> \in R)
    BY <1>1, WFMin, Zenon
  <1>3. \A j \in K : j < i => <<j, i>> \in R
    BY DEF OpToRel, R
  <1>4. \A j \in K : i <= j
    <2>1. SUFFICES ASSUME NEW j \in K PROVE i <= j
      OBVIOUS
    <2>2. ~ (j < i)
      BY <1>2, <1>3, Zenon
    <2> QED
      BY <2>2
  <1> QED
    BY <1>4 DEF Min

LEMMA LargestOf ==
    ASSUME NEW n \in Nat, NEW K \in SUBSET (0 .. n), K # {}
    PROVE  Max(K) \in K /\ \A i \in K : i <= Max(K)
  <1> DEFINE gaps == {n - i : i \in K}
  <1>0. \A i \in K : i \in 0 .. n /\ n - i \in Nat
    OBVIOUS
  <1>1. gaps \in SUBSET Nat /\ gaps # {}
    BY <1>0
  <1>2. Min(gaps) \in gaps /\ \A g \in gaps : Min(gaps) <= g
    <2> HIDE DEF gaps
    <2> QED
      BY <1>1, SmallestOf
  <1>3. PICK m \in K : Min(gaps) = n - m
    BY <1>2
  <1>4. ASSUME NEW i \in K PROVE m >= i
    <2>1. n - m <= n - i
      BY <1>2, <1>3
    <2>2. m \in 0 .. n /\ i \in 0 .. n
      BY <1>0
    <2> QED
      BY <2>1, <2>2
  <1>5. /\ Max(K) \in K
        /\ \A i \in K : Max(K) >= i
    BY <1>4 DEF Max
  <1>6. \A i \in K : i \in 0 .. n
    BY <1>0
  <1> QED
    BY <1>5, <1>6

=============================================================================
