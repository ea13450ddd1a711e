------------------------------ MODULE RegexNfa ------------------------------
(***************************************************************************)
(* The regular expressions of guided_regex (constraints.py): the Thompson  *)
(* automaton that compile_regex() builds, its steps, and what a regular    *)
(* expression means, by derivatives.                                       *)
(*                                                                         *)
(* A pattern is given parsed, by the parts the parser finds:               *)
(*   <<"lit", c>>, <<"esc", e>>, <<"any">>, <<"class", negate, items>>     *)
(*   <<"seq", <<p1, ..., pk>>>>, <<"alt", <<p1, ..., pk>>>>                *)
(*   <<"quant", p, op>> with op in {"*", "+", "?"}                         *)
(*   <<"count", p, m, n>> for p{m,n}, n = -1 for p{m,}                     *)
(***************************************************************************)
EXTENDS Integers, Sequences

CONSTANTS
    Chars,    \* the characters of the alphabet
    Digits,   \* those of \d
    Word,     \* those of \w
    Space     \* those of \s

ASSUME RegexAssumption == Digits \cup Word \cup Space \subseteq Chars

Newline == "\n"

(* _ESCAPE_SETS: the capital escapes name the same sets as the small ones. *)
EscapeSet(e) ==
    IF e \in {"d", "D"} THEN Digits
    ELSE IF e \in {"w", "W"} THEN Word
    ELSE IF e \in {"s", "S"} THEN Space
    ELSE {e}

(* The characters that an atom's predicate lets through. *)
Predicate(p) ==
    CASE p[1] = "lit" -> {p[2]}
      [] p[1] = "esc" -> EscapeSet(p[2])
      [] p[1] = "any" -> Chars \ {Newline}
      [] p[1] = "class" -> IF p[2] THEN Chars \ p[3] ELSE p[3]

IsAtom(p) == p[1] \in {"lit", "esc", "any", "class"}

-----------------------------------------------------------------------------
(* Fragments: a graph and its ends.  States are numbers below `next`.      *)

Joined(f, edges) == [f EXCEPT !.eps = @ \cup edges]

(* A fragment with ends of its own around f. *)
Wrapped(f, edges(_, _)) ==
    [f EXCEPT !.start = f.next, !.accept = f.next + 1, !.next = @ + 2,
              !.eps = @ \cup edges(f.next, f.next + 1)]

(* Mutant: the body of + is not entered again. *)
QuantifyOnce(f, op) ==
    Wrapped(f, LAMBDA s, a :
        {<<s, f.start>>, <<f.accept, a>>}
            \cup (IF op = "*" THEN {<<f.accept, f.start>>} ELSE {})
            \cup (IF op \in {"*", "?"} THEN {<<s, a>>} ELSE {}))

Quantify(f, op) ==
    Wrapped(f, LAMBDA s, a :
        {<<s, f.start>>, <<f.accept, a>>}
            \cup (IF op \in {"*", "+"} THEN {<<f.accept, f.start>>} ELSE {})
            \cup (IF op \in {"*", "?"} THEN {<<s, a>>} ELSE {}))

Edges(f) == f.eps \cup {<<t[1], t[3]>> : t \in f.trans}

RECURSIVE Reached(_, _)
Reached(edges, S) ==
    LET T == S \cup {e[2] : e \in {d \in edges : d[1] \in S}}
    IN  IF T = S THEN S ELSE Reached(edges, T)

(* Mutant: the copy's empty moves are left out. *)
ClonedBare(f, start, accept) ==
    LET body == Reached(Edges(f), {start, accept})
        k == f.next
    IN  [f EXCEPT !.next = 2 * k,
                  !.trans = @ \cup {<<t[1] + k, t[2], t[3] + k>> :
                                        t \in {d \in f.trans : d[1] \in body}}]

(* _clone_fragment: a copy of all that can be reached from start and       *)
(* accept, which includes what earlier copies were linked to.              *)
Cloned(f, start, accept) ==
    LET body == Reached(Edges(f), {start, accept})
        k == f.next
    IN  [f EXCEPT !.next = 2 * k,
                  !.eps = @ \cup {<<e[1] + k, e[2] + k>> : e \in {d \in f.eps : d[1] \in body}},
                  !.trans = @ \cup {<<t[1] + k, t[2], t[3] + k>> :
                                        t \in {d \in f.trans : d[1] \in body}}]

(* m copies of the body in series after cur; optional ones after them.     *)
(* Both return the graph and the end of the last copy.                     *)
RECURSIVE Mandatory(_, _, _, _, _)
Mandatory(g, body, cur, k, m) ==
    IF k = m THEN [graph |-> g, cur |-> cur]
    ELSE IF k = 0
    THEN Mandatory(Joined(g, {<<cur, body.start>>}), body, body.accept, 1, m)
    ELSE Mandatory(Joined(Cloned(g, body.start, body.accept), {<<cur, body.start + g.next>>}),
                   body, body.accept + g.next, k + 1, m)

RECURSIVE Optional(_, _, _, _)
Optional(g, body, cur, left) ==
    IF left = 0 THEN g
    ELSE LET k == g.next
         IN  Optional(Joined(Cloned(g, body.start, body.accept),
                             {<<cur, body.start + k>>, <<body.accept + k, g.accept>>}),
                      body, body.accept + k, left - 1)

Repeat(f, m, n) ==
    LET done == Mandatory(Wrapped(f, LAMBDA s, a : {}), f, f.next, 0, m)
        g == done.graph
    IN  IF n = -1
        THEN Joined(g, {<<done.cur, f.start>>, <<done.cur, g.accept>>})
        ELSE Optional(Joined(g, {<<done.cur, g.accept>>}), f, done.cur, n - m)

(* _parse_atom, _parse_concat and _parse_alt; states are numbered from n.  *)
RECURSIVE Fragment(_, _), InSeries(_, _, _), InParallel(_, _)
InSeries(f, ps, i) ==
    IF i > Len(ps) THEN f
    ELSE LET g == Fragment(ps[i], f.next)
         IN  InSeries([start |-> f.start, accept |-> g.accept, next |-> g.next,
                       eps |-> f.eps \cup g.eps \cup {<<f.accept, g.start>>},
                       trans |-> f.trans \cup g.trans], ps, i + 1)

InParallel(f, ps) ==
    IF ps = <<>> THEN f
    ELSE LET g == Fragment(Head(ps), f.next)
         IN  InParallel([f EXCEPT !.next = g.next,
                                  !.eps = @ \cup g.eps \cup {<<f.start, g.start>>, <<g.accept, f.accept>>},
                                  !.trans = @ \cup g.trans], Tail(ps))

Fragment(p, n) ==
    IF IsAtom(p)
    THEN [start |-> n, accept |-> n + 1, eps |-> {}, trans |-> {<<n, Predicate(p), n + 1>>},
          next |-> n + 2]
    ELSE CASE p[1] = "seq" ->
                InSeries([start |-> n, accept |-> n, eps |-> {}, trans |-> {}, next |-> n + 1],
                         p[2], 1)
           [] p[1] = "alt" ->
                InParallel([start |-> n, accept |-> n + 1, eps |-> {}, trans |-> {},
                            next |-> n + 2], p[2])
           [] p[1] = "quant" -> Quantify(Fragment(p[2], n), p[3])
           [] p[1] = "count" -> Repeat(Fragment(p[2], n), p[3], p[4])

compile_regex(p) == Fragment(p, 0)

-----------------------------------------------------------------------------
(* RegexState: the set of states the automaton may be in.                  *)

EpsilonClosure(nfa, S) == Reached(nfa.eps, S)

RegexStart(nfa) == EpsilonClosure(nfa, {nfa.start})

(* step(): the empty set stands for its answer None. *)
RegexStep(nfa, S, ch) ==
    EpsilonClosure(nfa, {t[3] : t \in {u \in nfa.trans : u[1] \in S /\ ch \in u[2]}})

RegexAccepts(nfa, S) == nfa.accept \in S

-----------------------------------------------------------------------------
(* Reference: what the pattern means, by partial derivatives.              *)

Meaning(p) ==
    IF p[1] = "esc" /\ p[2] \in {"D", "W", "S"}
    THEN Chars \ EscapeSet(p[2])
    ELSE Predicate(p)

RECURSIVE Nullable(_)
Nullable(p) ==
    IF IsAtom(p) THEN FALSE
    ELSE CASE p[1] = "seq" -> \A i \in DOMAIN p[2] : Nullable(p[2][i])
           [] p[1] = "alt" -> \E i \in DOMAIN p[2] : Nullable(p[2][i])
           [] p[1] = "quant" -> p[3] \in {"*", "?"} \/ Nullable(p[2])
           [] p[1] = "count" -> p[3] = 0 \/ Nullable(p[2])

(* What may follow ch in the words of p that begin with it: a set of       *)
(* patterns.  The empty word is <<"seq", <<>>>>.                           *)
RECURSIVE Derivatives(_, _)
Derivatives(p, ch) ==
    IF IsAtom(p) THEN IF ch \in Meaning(p) THEN {<<"seq", <<>>>>} ELSE {}
    ELSE CASE p[1] = "seq" ->
                UNION {{<<"seq", <<d>> \o SubSeq(p[2], i + 1, Len(p[2]))>> :
                            d \in Derivatives(p[2][i], ch)} :
                       i \in {j \in DOMAIN p[2] : \A k \in 1 .. (j - 1) : Nullable(p[2][k])}}
           [] p[1] = "alt" -> UNION {Derivatives(p[2][i], ch) : i \in DOMAIN p[2]}
           [] p[1] = "quant" ->
                IF p[3] = "?" THEN Derivatives(p[2], ch)
                ELSE {<<"seq", <<d, <<"quant", p[2], "*">>>>>> : d \in Derivatives(p[2], ch)}
           [] p[1] = "count" ->
                IF p[4] = 0 THEN {}
                ELSE {<<"seq", <<d, <<"count", p[2], IF p[3] = 0 THEN 0 ELSE p[3] - 1,
                                      IF p[4] = -1 THEN -1 ELSE p[4] - 1>>>>>> :
                        d \in Derivatives(p[2], ch)}

(* Sequences within sequences and empty ones are flattened, so that equal  *)
(* rests are one.                                                          *)
RECURSIVE Flat(_)
Flat(p) ==
    IF p[1] # "seq" THEN <<p>>
    ELSE IF p[2] = <<>> THEN <<>>
    ELSE Flat(Head(p[2])) \o Flat(<<"seq", Tail(p[2])>>)

Rest(S, ch) == {<<"seq", Flat(d)>> : d \in UNION {Derivatives(p, ch) : p \in S}}

=============================================================================
