------------------------------ MODULE MCGuided ------------------------------
(***************************************************************************)
(* Requests for the model-checking runs of guided decoding.                *)
(***************************************************************************)
EXTENDS GuidedProperties

MCDigits == Digit
MCWord == Digit \cup {"t", "r", "u", "e", "x"}
MCSpace == White

(* Every character, and tokens that cross from one part to another.        *)
MCTokens ==
    {<<c>> : c \in JsonChars} \cup
    {<<"t", "r", "u", "e">>, <<"r", "u">>, <<"\"", ":">>, <<"}", "}">>, <<"1", "]">>,
     <<"1", ",", "0">>, <<"[", "]">>, <<" ", "[">>, <<"\\", "\"">>, <<"-", "x">>, <<"x", "x">>}

MCFirst == <<"x">>

Lit(c) == <<"lit", c>>
Group(p) == <<"alt", <<p>>>>
Cat(ps) == <<"alt", <<<<"seq", ps>>>>>>

Plain == [allowed |-> {}, bad |-> {}, choice |-> {}, json |-> FALSE, regex |-> NoRegex]
ByRegex(p) == [Plain EXCEPT !.regex = p]

Patterns ==
    {\* (te|x)+\d
     Cat(<<<<"quant", <<"alt", <<<<"seq", <<Lit("t"), Lit("e")>>>>, <<"seq", <<Lit("x")>>>>>>>>, "+">>,
           <<"esc", "d">>>>),
     \* [^x1]?\w*-
     Cat(<<<<"quant", <<"class", TRUE, {"x", "1"}>>, "?">>, <<"quant", <<"esc", "w">>, "*">>, Lit("-")>>),
     \* x{2}1{1,2}.
     Cat(<<<<"count", Lit("x"), 2, 2>>, <<"count", Lit("1"), 1, 2>>, <<"any">>>>),
     \* \d(-x){0,1}\s, -{1,}0
     Cat(<<<<"esc", "d">>, <<"count", Cat(<<Lit("-"), Lit("x")>>), 0, 1>>, <<"esc", "s">>>>),
     Cat(<<<<"count", Lit("-"), 1, -1>>, Lit("0")>>),
     \* (-x){2}1
     Cat(<<<<"count", Cat(<<Lit("-"), Lit("x")>>), 2, 2>>, Lit("1")>>),
     \* ((0?1)*x)+
     Cat(<<<<"quant", Cat(<<<<"quant", Cat(<<<<"quant", Lit("0"), "?">>, Lit("1")>>), "*">>, Lit("x")>>),
             "+">>>>)}

(* (x0?){m,n}1 for all small m and n, and the open {m,}. *)
Counted ==
    {Cat(<<<<"count", Cat(<<Lit("x"), <<"quant", Lit("0"), "?">>>>), k[1], k[2]>>, Lit("1")>>) :
        k \in {j \in (0 .. 3) \X (-1 .. 3) : j[2] = -1 \/ j[1] <= j[2]}}

MCRequests ==
    {[Plain EXCEPT !.json = TRUE],
     [Plain EXCEPT !.json = TRUE, !.bad = {<<"\"">>, <<"\"", ":">>}],
     [Plain EXCEPT !.choice = {<<<<"x">>>>, <<<<"x">>, <<"1">>>>, <<<<"x", "x">>, <<"1">>, <<"-">>>>}],
     [Plain EXCEPT !.choice = {<<<<"1">>, <<"t">>>>, <<<<"0">>, <<"t">>>>}, !.bad = {<<"t">>}],
     [Plain EXCEPT !.choice = {<<<<"1">>, <<"x">>>>, <<<<"0">>, <<"x">>>>}, !.allowed = {<<"x">>, <<"1">>}]}
        \cup {ByRegex(p) : p \in Patterns \cup Counted}

(* x{3}1 *)
Thrice == {ByRegex(Cat(<<<<"count", Lit("x"), 3, 3>>, Lit("1")>>))}

(* x{2,}1 and x{0,}1 *)
Open == {ByRegex(Cat(<<<<"count", Lit("x"), m, -1>>, Lit("1")>>)) : m \in {0, 2}}

(* \D; JSON alone, with (0|1)+x and with a choice. *)
Capital == ByRegex(Cat(<<<<"esc", "D">>>>))
JsonOnly == [Plain EXCEPT !.json = TRUE]
TwoGuides ==
    [ByRegex(Cat(<<<<"quant", <<"class", FALSE, {"0", "1"}>>, "+">>, Lit("x")>>)) EXCEPT !.json = TRUE]
TwoKinds == [Plain EXCEPT !.choice = {<<<<"1">>, <<"x">>>>}, !.json = TRUE]

Faulty == Open \cup {Capital, JsonOnly, TwoGuides, TwoKinds}
=============================================================================
