------------------------------- MODULE Lists --------------------------------
(***************************************************************************)
(* The list comprehension [x for x in q if x in S], which the engine uses  *)
(* for its batches, and deletion from an ordered dictionary or deque.      *)
(*                                                                         *)
(* SelectSeq and Remove say the same, but take the condition as an         *)
(* operator and recurse over the list; these definitions only count, so    *)
(* that theorems can be proved about the modules that use them.            *)
(***************************************************************************)
EXTENDS Naturals, Sequences, FiniteSets, Functions

(* The k-th smallest of a finite set of positions. *)
Nth(K, k) == CHOOSE i \in K : Cardinality({j \in K : j <= i}) = k

(* The elements of q that are in S, in the order of q. *)
Only(q, S) ==
    LET kept == {i \in DOMAIN q : q[i] \in S}
    IN  [k \in 1 .. Cardinality(kept) |-> q[Nth(kept, k)]]

(* q without e. *)
Without(q, e) == Only(q, Range(q) \ {e})

=============================================================================
