-------------------------- MODULE GuidedProperties --------------------------
(***************************************************************************)
(* What guided decoding promises, stated over GuidedDecoding: the guides   *)
(* against the reference definitions of what they ask for.                 *)
(***************************************************************************)
EXTENDS GuidedDecoding

Prefixes(c) == {SubSeq(c, 1, n) : n \in DOMAIN c}

(* Type invariant: among other things, a choice stays on a path of its     *)
(* trie, and an automaton that refuses a character is left where it was,   *)
(* never without states, also after a token that no guide allowed.         *)
GuidedTypeOK ==
    /\ params \in Requests
    /\ state.kind \in {"none", "choice", "json", "regex", "dead"}
    /\ state.kind = "choice" => state.node \in {<<>>} \cup UNION {Prefixes(c) : c \in params.choice}
    /\ state.kind = "json" => Len(state.g.stack) <= MaxDepth
    /\ state.kind = "regex" => state.states # {}
    /\ outcome \in {"running", "complete", "length", "failed"}
    /\ lax \in BOOLEAN /\ zero \in BOOLEAN /\ forced \in BOOLEAN

(* What the guides are known to get wrong.  JsonGrammar is laxer than JSON  *)
(* in the ways that Lax lists.  Counted repetitions: a copy of the body     *)
(* takes along what the body is linked to, so from the third on there is a  *)
(* copy too many; the loop of {m,} enters the first of its m copies again   *)
(* (only multiples of m match), and that of {0,} does not come back.        *)
RECURSIVE Counts(_)
Counts(p) ==
    IF p = NoRegex \/ IsAtom(p) THEN {}
    ELSE IF p[1] \in {"seq", "alt"} THEN UNION {Counts(p[2][i]) : i \in DOMAIN p[2]}
    ELSE Counts(p[2]) \cup IF p[1] = "count" THEN {<<p[3], p[4]>>} ELSE {}

CountsOf == [q \in Requests |-> Counts(q.regex)]

TakesMore == \E k \in CountsOf[params] : k[1] > 0 /\ k[2] > 2
TakesFewer == \E k \in CountsOf[params] : k[1] # 1 /\ k[2] = -1
Loses == \E k \in CountsOf[params] : k = <<0, -1>>

(* "Force the output": what has been generated can still be completed to   *)
(* what the guide asks for.                                                *)
OnCourse == \A i \in DOMAIN guides : goals[i] # {}

OutputOnCourse == ~lax /\ ~forced /\ ~TakesMore => OnCourse

(* Generation that its guide ends has produced a whole document, a whole   *)
(* choice or a full match, miscounted or not: never a prefix of one.       *)
CompleteIsWhole ==
    outcome = "complete" /\ ~lax /\ ~forced =>
        \A i \in DOMAIN guides : Met(guides[i], goals[i])

(* The guide forbids nothing that it should allow: every token that can be *)
(* continued to a legal output is in the mask, however many characters the *)
(* token has and wherever it crosses from one part of the grammar to the   *)
(* next.                                                                   *)
LegalAllowed ==
    outcome = "running" /\ ~forced =>
        \A i \in DOMAIN guides : \A t \in Tokens :
            GoalAfter(guides[i], goals[i], t) # {}
                => t \in Allowed(guides[i], StateFor(guides[i], state))

NothingForbidden == ~TakesFewer => LegalAllowed

(* A guide that has not ended the sequence leaves some token to sample:    *)
(* also after lax input there is no state that masks everything.  (A       *)
(* request whose allow and deny lists contradict its guide does.)          *)
WayOn ==
    outcome = "running" /\ ~forced =>
        \A i \in DOMAIN guides : Allowed(guides[i], StateFor(guides[i], state)) # {}

NeverStuck == ~TakesMore /\ ~Loses => WayOn

(* All logits are masked, and generate() raises at once or after a token   *)
(* that no guide allowed, only for a request that contradicts itself: its  *)
(* lists exclude every token with which a legal output could go on, and    *)
(* there is one, so that the guide alone would not have stopped it.        *)
Legal ==
    {t \in Tokens : \A i \in DOMAIN guides : GoalAfter(guides[i], goals[i], t) # {}}

Contradicted ==
    /\ lax \/ Legal # {}
    /\ \A t \in Legal : t \in params.bad \/ (params.allowed # {} /\ t \notin params.allowed)

RaisesForContradiction ==
    [][~forced /\ ~TakesMore /\ ~Loses /\ (forced' \/ outcome' = "failed")
          => Contradicted]_vars

-----------------------------------------------------------------------------
(* Promises of the documentation that the code does not keep.              *)

(* "force the output to be valid JSON", "force the output to match a       *)
(* regular expression": without exception.                                 *)
OutputForced == ~forced => OnCourse

=============================================================================
