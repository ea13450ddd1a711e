--------------------------- MODULE GuidedDecoding ---------------------------
(***************************************************************************)
(* Guided decoding of one sequence: the constraints that make_constraint() *)
(* builds for a request, the mask they put on the logits of each step, and *)
(* their state seq.constraint_state, which postprocess() moves on with the *)
(* token that was sampled.                                                 *)
(*                                                                         *)
(* A token is a sequence of characters.  Any token that the mask leaves    *)
(* may be sampled.  `goals` follows what each guide asks for by its        *)
(* reference definition.                                                   *)
(***************************************************************************)
EXTENDS JsonGrammar, RegexNfa, FiniteSets

CONSTANTS
    Tokens,      \* the vocabulary, without special tokens
    FirstToken,  \* the token with index 0
    Requests,    \* parameters: [allowed, bad, choice, json, regex]
    MaxDepth     \* bound: nesting of JSON containers

NoRegex == <<"none">>

ASSUME GuidedAssumption ==
    /\ Tokens \subseteq Seq(Chars) /\ <<>> \notin Tokens /\ FirstToken \in Tokens
    /\ {<<c>> : c \in Chars} \subseteq Tokens
    /\ \A q \in Requests : q.allowed \cup q.bad \subseteq Tokens /\ q.choice \subseteq Seq(Tokens)

VARIABLES
    params,      \* the SamplingParams of the request
    state,       \* seq.constraint_state
    outcome,     \* "running", "complete" (by the guide), "length" or "failed"
    goals,       \* history: goals[i] is what may follow by guide i
    lax, zero,   \* history: see Lax
    forced       \* history: a token was sampled although all were masked

vars == <<params, state, outcome, goals, lax, zero, forced>>

-----------------------------------------------------------------------------
(* make_constraint: the parts in order; those that guide keep a state.     *)

Only(condition, part) == IF condition THEN <<part>> ELSE <<>>

MaskParts(q) ==
    Only(q.allowed # {}, [kind |-> "allow", ids |-> q.allowed])
        \o Only(q.bad # {}, [kind |-> "bad", ids |-> q.bad])

Guides(q) ==
    Only(q.choice # {}, [kind |-> "choice", choices |-> q.choice])
        \o Only(q.json, [kind |-> "json"])
        \o Only(q.regex # NoRegex, [kind |-> "regex", nfa |-> compile_regex(q.regex)])

GuidesOf == [q \in Requests |-> Guides(q)]
guides == GuidesOf[params]

-----------------------------------------------------------------------------
(* seq.constraint_state is one for all guides: the first that asks for it  *)
(* makes it.  A choice keeps the node of its trie, named by the tokens     *)
(* that lead there.                                                        *)

NoState == [kind |-> "none"]
Dead == [kind |-> "dead"]

NewState(guide) ==
    CASE guide.kind = "choice" -> [kind |-> "choice", node |-> <<>>]
      [] guide.kind = "json" -> [kind |-> "json", g |-> NewGrammar]
      [] guide.kind = "regex" -> [kind |-> "regex", states |-> RegexStart(guide.nfa)]

StateFor(guide, s) == IF s = NoState THEN NewState(guide) ELSE s

(* The characters of a token, one after the other, through a grammar; a    *)
(* step that refuses may leave its state changed.                          *)
CharStep(guide, s, ch) ==
    IF s.kind = "json"
    THEN LET step == JsonStep(s.g, ch) IN [s |-> [s EXCEPT !.g = step.g], ok |-> step.ok]
    ELSE LET next == RegexStep(guide.nfa, s.states, ch)
         IN  IF next = {} THEN [s |-> s, ok |-> FALSE]
             ELSE [s |-> [s EXCEPT !.states = next], ok |-> TRUE]

RECURSIVE Walk(_, _, _)
Walk(guide, s, token) ==
    IF token = <<>> THEN [s |-> s, ok |-> TRUE]
    ELSE LET step == CharStep(guide, s, Head(token))
             rest == Walk(guide, step.s, Tail(token))
         IN  [s |-> rest.s, ok |-> step.ok /\ rest.ok]

Children(guide, node) ==
    {c[Len(node) + 1] : c \in {d \in guide.choices :
                                 Len(d) > Len(node) /\ SubSeq(d, 1, Len(node)) = node}}

(* apply(): raises when the state is not of the guide's own kind; json and *)
(* regex take each other's state for their own.                            *)
Raises(guide, s) ==
    IF guide.kind = "choice" THEN s = Dead ELSE s.kind \in {"choice", "dead"}

Allowed(guide, s) ==
    IF guide.kind = "choice" THEN Children(guide, s.node)
    ELSE {t \in Tokens : Walk(guide, s, t).ok}

Advance(guide, s, token) ==
    IF guide.kind # "choice" THEN Walk(guide, s, token).s
    ELSE IF token \in Children(guide, s.node) THEN [s EXCEPT !.node = Append(@, token)]
    ELSE Dead

(* Mutant: only a grammar ends a sequence. *)
IsCompleteGrammar(guide, s) ==
    CASE s.kind = "json" -> JsonAccepts(s.g)
      [] s.kind = "regex" -> RegexAccepts(guide.nfa, s.states)
      [] OTHER -> FALSE

IsComplete(guide, s) ==
    CASE s.kind = "json" -> JsonAccepts(s.g)
      [] s.kind = "regex" -> RegexAccepts(guide.nfa, s.states)
      [] s.kind = "choice" -> s.node \in guide.choices
      [] s.kind = "dead" -> FALSE

(* CompositeConstraint: each part in turn; all share the state.            *)
RECURSIVE Prepared(_, _), AdvanceAll(_, _, _)
Prepared(gs, s) == IF gs = <<>> THEN s ELSE Prepared(Tail(gs), StateFor(Head(gs), s))
AdvanceAll(gs, s, token) ==
    IF gs = <<>> THEN s ELSE AdvanceAll(Tail(gs), Advance(Head(gs), s, token), token)

Unmasked ==
    LET s == Prepared(guides, state)
        allow == IF params.allowed # {} THEN params.allowed ELSE Tokens
    IN  {t \in allow \ params.bad :
            \A i \in DOMAIN guides : t \in Allowed(guides[i], s)}

AllComplete(s) == guides # <<>> /\ \A i \in DOMAIN guides : IsComplete(guides[i], s)

-----------------------------------------------------------------------------
(* What the guides ask for.                                                *)

Goal(q, guide) ==
    CASE guide.kind = "choice" -> q.choice
      [] guide.kind = "json" -> JsonTexts
      [] guide.kind = "regex" -> {<<"seq", Flat(q.regex)>>}

RECURSIVE Onward(_, _, _)
Onward(kind, goal, chars) ==
    IF chars = <<>> THEN goal
    ELSE Onward(kind, IF kind = "json" THEN After(goal, Head(chars)) ELSE Rest(goal, Head(chars)),
                Tail(chars))

GoalAfter(guide, goal, token) ==
    IF guide.kind = "choice" THEN {Tail(c) : c \in {d \in goal : d # <<>> /\ Head(d) = token}}
    ELSE Onward(guide.kind, goal, token)

Met(guide, goal) ==
    IF guide.kind = "regex" THEN \E p \in goal : Nullable(p) ELSE <<>> \in goal

(* The history of laxness over the characters of a token.                  *)
RECURSIVE LaxAfter(_, _, _, _)
LaxAfter(g, z, l, token) ==
    IF token = <<>> THEN [lax |-> l, zero |-> z]
    ELSE LET ch == Head(token)
             h == JsonStep(g, ch).g
         IN  LaxAfter(h, h.num # NoNum /\ h.num.phase = "int" /\ (z \/ StartsZero(g, ch)),
                      l \/ Lax(g, z, ch), Tail(token))

-----------------------------------------------------------------------------
Init ==
    /\ params \in Requests
    /\ state = NoState
    /\ outcome = "running"
    /\ goals = [i \in DOMAIN guides |-> Goal(params, guides[i])]
    /\ lax = FALSE /\ zero = FALSE /\ forced = FALSE

(* postprocess(): the token is appended and the constraint told; max_tokens *)
(* may be reached at any token.                                             *)
Take(token) ==
    LET s == Prepared(guides, state)
        s2 == AdvanceAll(guides, s, token)
        history == IF s.kind = "json" THEN LaxAfter(s.g, zero, lax, token)
                   ELSE [lax |-> lax, zero |-> zero]
    IN  /\ s2.kind = "json" => Len(s2.g.stack) <= MaxDepth
        /\ state' = s2
        /\ outcome' \in {"length", IF AllComplete(s2) THEN "complete" ELSE "running"}
        /\ goals' = [i \in DOMAIN guides |-> GoalAfter(guides[i], goals[i], token)]
        /\ lax' = history.lax /\ zero' = history.zero

Sample ==
    /\ outcome = "running"
    /\ ~\E i \in DOMAIN guides : Raises(guides[i], Prepared(guides, state))
    /\ \E token \in Unmasked : Take(token)
    /\ UNCHANGED <<params, forced>>

(* All logits are -inf: argmax gives the index 0, and softmax gives no     *)
(* numbers, of which multinomial() raises.                                 *)
SampleMasked ==
    /\ outcome = "running"
    /\ ~\E i \in DOMAIN guides : Raises(guides[i], Prepared(guides, state))
    /\ Unmasked = {}
    /\ \/ Take(FirstToken) /\ forced' = TRUE
       \/ outcome' = "failed" /\ UNCHANGED <<state, goals, lax, zero, forced>>
    /\ UNCHANGED params

(* apply() raises out of generate(). *)
ApplyRaises ==
    /\ outcome = "running"
    /\ \E i \in DOMAIN guides : Raises(guides[i], Prepared(guides, state))
    /\ outcome' = "failed"
    /\ UNCHANGED <<params, state, goals, lax, zero, forced>>

Ended == outcome # "running" /\ UNCHANGED vars

Next == Sample \/ SampleMasked \/ ApplyRaises \/ Ended

Spec == Init /\ [][Next]_vars

=============================================================================
