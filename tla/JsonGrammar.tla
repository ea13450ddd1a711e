---------------------------- MODULE JsonGrammar ----------------------------
(***************************************************************************)
(* The character automaton of guided_json (constraints.py): _NumberState,  *)
(* _LiteralState and JsonGrammar as records and functions of them, and     *)
(* RFC 8259 as a reference.                                                *)
(*                                                                         *)
(* Characters are strings of length one; "x" stands for any character that *)
(* only a string may hold, 0 and 1 for the digits, "true" for the three    *)
(* literals.                                                               *)
(***************************************************************************)
EXTENDS Naturals, Sequences

White == {" ", "\n"}
Digit == {"0", "1"}
Literal == <<"t", "r", "u", "e">>
JsonChars == White \cup Digit \cup {"t", "r", "u", "e", "x", "-", "+", ".", "\"", "\\",
                                    "{", "}", "[", "]", ",", ":"}

NoNum == [phase |-> "none"]
NoLit == 0

(* A step gives the state after it and whether the character was taken.    *)
Took(g) == [g |-> g, ok |-> TRUE]
Refused(g) == [g |-> g, ok |-> FALSE]

-----------------------------------------------------------------------------
(* _NumberState.  Its flag done is set only by a step that refuses, after  *)
(* which JsonGrammar drops the number.                                     *)

NewNumber == [phase |-> "int", saw_digit |-> FALSE, allow_sign |-> TRUE,
              frac_digit |-> FALSE, exp_digit |-> FALSE]

NumberStep(n, ch) ==
    CASE n.allow_sign /\ ch = "-" -> Took([n EXCEPT !.allow_sign = FALSE])
      [] n.phase = "int" /\ ch \in Digit ->
            Took([n EXCEPT !.saw_digit = TRUE, !.allow_sign = FALSE])
      [] n.phase = "int" /\ ch = "." /\ n.saw_digit -> Took([n EXCEPT !.phase = "frac"])
      [] n.phase = "int" /\ ch = "e" /\ n.saw_digit -> Took([n EXCEPT !.phase = "exp"])
      [] n.phase = "frac" /\ ch \in Digit -> Took([n EXCEPT !.frac_digit = TRUE])
      [] n.phase = "frac" /\ ch = "e" /\ n.frac_digit -> Took([n EXCEPT !.phase = "exp"])
      [] n.phase = "exp" /\ ch \in {"+", "-"} -> Took([n EXCEPT !.phase = "exp_sign"])
      [] n.phase \in {"exp", "exp_sign", "exp_digits"} /\ ch \in Digit ->
            Took([n EXCEPT !.phase = "exp_digits", !.exp_digit = TRUE])
      [] OTHER -> Refused(n)

NumberComplete(n) ==
    CASE n.phase = "int" -> n.saw_digit
      [] n.phase = "frac" -> n.frac_digit
      [] n.phase = "exp_digits" -> n.exp_digit
      [] OTHER -> FALSE

-----------------------------------------------------------------------------
(* JsonGrammar.  The stack's top is its last entry.                        *)

NewGrammar ==
    [stack |-> <<>>, expect |-> "value", in_str |-> FALSE, esc |-> FALSE,
     str_is_key |-> FALSE, num |-> NoNum, lit |-> NoLit, complete |-> FALSE]

Top(g) == g.stack[Len(g.stack)]
Popped(g) == [g EXCEPT !.stack = SubSeq(@, 1, Len(@) - 1)]
Pushed(g, kind, expect) ==
    [g EXCEPT !.stack = Append(@, [kind |-> kind, has |-> FALSE]), !.expect = expect]

(* Mutant: a container is not marked when it gets an element. *)
MarkNothing(g) == g

MarkTop(g) == [g EXCEPT !.stack[Len(g.stack)].has = TRUE]

AfterValue(g) ==
    IF g.stack = <<>> THEN [g EXCEPT !.expect = "done", !.complete = TRUE]
    ELSE IF Top(g).kind = "obj" THEN [g EXCEPT !.expect = "key_end"]
    ELSE [g EXCEPT !.expect = "arr_end"]

Closed(g) == AfterValue(Popped(g))

InArray(g) == g.stack # <<>> /\ Top(g).kind = "arr"

StartValue(g, ch) ==
    IF ch = "]" /\ InArray(g)
    THEN IF Top(g).has THEN Refused(g) ELSE Took(Closed(g))
    ELSE LET h == IF InArray(g) THEN MarkTop(g) ELSE g
         IN  CASE ch = "{" -> Took(Pushed(h, "obj", "key"))
               [] ch = "[" -> Took(Pushed(h, "arr", "value"))
               [] ch = "\"" -> Took([h EXCEPT !.in_str = TRUE, !.str_is_key = FALSE])
               [] ch = "t" -> Took([h EXCEPT !.lit = 1])
               [] ch \in {"-"} \cup Digit -> Took([h EXCEPT !.num = NumberStep(NewNumber, ch).g])
               [] OTHER -> Refused(h)

Structural(g, ch) ==
    CASE g.expect = "value" -> StartValue(g, ch)
      [] g.expect = "key" /\ ch = "}" /\ ~Top(g).has -> Took(Closed(g))
      [] g.expect = "key" /\ ch = "\"" ->
            Took([MarkTop(g) EXCEPT !.in_str = TRUE, !.str_is_key = TRUE])
      [] g.expect = "colon" /\ ch = ":" -> Took([g EXCEPT !.expect = "value"])
      [] g.expect = "key_end" /\ ch = "," -> Took([g EXCEPT !.expect = "key"])
      [] g.expect = "key_end" /\ ch = "}" -> Took(Closed(g))
      [] g.expect = "arr_end" /\ ch = "," -> Took([g EXCEPT !.expect = "value"])
      [] g.expect = "arr_end" /\ ch = "]" -> Took(Closed(g))
      [] OTHER -> Refused(g)

InString(g, ch) ==
    CASE g.esc -> Took([g EXCEPT !.esc = FALSE])
      [] ch = "\\" -> Took([g EXCEPT !.esc = TRUE])
      [] ch = "\"" ->
            LET h == [g EXCEPT !.in_str = FALSE]
            IN  Took(IF g.str_is_key THEN [h EXCEPT !.expect = "colon"] ELSE AfterValue(h))
      [] ch = "\n" -> Refused(g)
      [] OTHER -> Took(g)

(* A character that a number or a literal does not take ends it, complete  *)
(* or not, and is looked at again.                                         *)
InLiteral(g, ch) ==
    IF ch = Literal[g.lit + 1]
    THEN IF g.lit + 1 = Len(Literal)
         THEN Took(AfterValue([g EXCEPT !.lit = NoLit]))
         ELSE Took([g EXCEPT !.lit = @ + 1])
    ELSE Structural(AfterValue([g EXCEPT !.lit = NoLit]), ch)

InNumber(g, ch) ==
    LET step == NumberStep(g.num, ch)
    IN  IF step.ok THEN Took([g EXCEPT !.num = step.g])
        ELSE Structural(AfterValue([g EXCEPT !.num = NoNum]), ch)

JsonStep(g, ch) ==
    CASE g.complete -> [g |-> g, ok |-> ch \in White]
      [] g.in_str -> InString(g, ch)
      [] ch \in White -> Took(g)
      [] g.num # NoNum -> InNumber(g, ch)
      [] g.lit # NoLit -> InLiteral(g, ch)
      [] OTHER -> Structural(g, ch)

(* Mutant: an open container does not matter. *)
AcceptsOpen(g) ==
    \/ g.complete
    \/ ~g.in_str /\ g.num # NoNum /\ NumberComplete(g.num)

JsonAccepts(g) ==
    \/ g.complete
    \/ g.stack = <<>> /\ ~g.in_str /\ g.num # NoNum /\ NumberComplete(g.num)

-----------------------------------------------------------------------------
(* Where the automaton is known to be laxer than RFC 8259: white space and *)
(* other characters inside a number or a literal, a leading zero, any      *)
(* escaped character.  `zero` says that the number so far is 0 or -0.      *)

StartsZero(g, ch) == ch = "0" /\ ~g.in_str /\ (g.num = NoNum \/ ~g.num.saw_digit)

Lax(g, zero, ch) ==
    CASE g.complete -> FALSE
      [] g.in_str -> g.esc /\ ch \notin {"\"", "\\", "t", "r"}
      [] g.num # NoNum ->
            \/ ch \in White
            \/ ~NumberStep(g.num, ch).ok /\ ~NumberComplete(g.num)
            \/ zero /\ g.num.phase = "int" /\ ch \in Digit
      [] g.lit # NoLit -> ch # Literal[g.lit + 1]
      [] OTHER -> FALSE

(* Reference: RFC 8259 as productions of a predictive parser.  A symbol    *)
(* that has productions stands for any of them, another for itself.        *)
Productions ==
    [Text |-> {<<"Ws", "Value", "Ws">>},
     Value |-> {<<"{", "Ws", "Object">>, <<"[", "Ws", "Array">>, <<"\"", "String">>,
                Literal, <<"-", "Int", "Frac", "Exp">>, <<"Int", "Frac", "Exp">>},
     Object |-> {<<"}">>, <<"Member", "Members">>},
     Member |-> {<<"\"", "String", "Ws", ":", "Ws", "Value", "Ws">>},
     Members |-> {<<"}">>, <<",", "Ws", "Member", "Members">>},
     Array |-> {<<"]">>, <<"Value", "Ws", "Elements">>},
     Elements |-> {<<"]">>, <<",", "Ws", "Value", "Ws", "Elements">>},
     String |-> {<<"\"">>, <<"\\", "Escape", "String">>}
                    \cup {<<c, "String">> : c \in JsonChars \ {"\"", "\\", "\n"}},
     Escape |-> {<<"\"">>, <<"\\">>, <<"t">>, <<"r">>},
     Int |-> {<<"0">>, <<"1", "Digits">>},
     Digits |-> {<<>>, <<"0", "Digits">>, <<"1", "Digits">>},
     Frac |-> {<<>>, <<".", "0", "Digits">>, <<".", "1", "Digits">>},
     Exp |-> {<<>>, <<"e", "Sign", "0", "Digits">>, <<"e", "Sign", "1", "Digits">>},
     Sign |-> {<<>>, <<"+">>, <<"-">>},
     Ws |-> {<<>>, <<" ", "Ws">>, <<"\n", "Ws">>}]

(* What may follow, with a character in front: sequences of symbols.       *)
RECURSIVE Expand(_)
Expand(symbols) ==
    IF symbols = <<>> \/ Head(symbols) \notin DOMAIN Productions THEN {symbols}
    ELSE UNION {Expand(p \o Tail(symbols)) : p \in Productions[Head(symbols)]}

JsonTexts == Expand(<<"Text">>)
After(S, ch) == UNION {Expand(Tail(s)) : s \in {t \in S : t # <<>> /\ Head(t) = ch}}

=============================================================================
