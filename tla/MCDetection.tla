---------------------------- MODULE MCDetection ----------------------------
(* Detections and events that belong together, by what they are about.  An    *)
(* IPv4 address is four bits here and an IPv6 one five; 2^53 is 16.           *)
EXTENDS DetectionSpec

MCChars == ToSet(Alphabet) \union {"=", "*", "?", "\\", " ", "-", "endash", "emdash",
                                   "bar", "nul", "."}

UpperLetters == SubSeq(Alphabet, 1, 26)
MCLower ==
    [c \in MCChars |->
        IF Contains(UpperLetters, c)
        THEN Alphabet[26 + (CHOOSE i \in 1..26 : UpperLetters[i] = c)] ELSE c]

MCUtf8(c) ==
    LET Place(first, last) == {i \in first..last : Alphabet[i] = c} IN
    IF Place(1, 26) # {} THEN <<64 + Max(Place(1, 26))>>
    ELSE IF Place(27, 52) # {} THEN <<70 + Max(Place(27, 52))>>
    ELSE IF Place(53, 62) # {} THEN <<Max(Place(53, 62)) - 5>>
    ELSE CASE c = "+" -> <<43>> [] c = "-" -> <<45>> [] c = "." -> <<46>> [] c = "/" -> <<47>>
           [] c = " " -> <<32>> [] c = "=" -> <<61>> [] c = "*" -> <<42>> [] c = "?" -> <<63>>
           [] c = "\\" -> <<92>> [] c = "nul" -> <<0>>
           [] c = "endash" -> <<226, 128, 147>> [] c = "emdash" -> <<226, 128, 148>>
           [] c = "bar" -> <<226, 128, 149>>

Digits == <<"0", "1", "2", "3", "4", "5", "6", "7", "8", "9">>
Digit(c) == (CHOOSE i \in 1..10 : Digits[i] = c) - 1
AllDigits(t) == t # <<>> /\ \A i \in DOMAIN t : Contains(Digits, t[i])
Number(t) == FoldLeft(LAMBDA n, c : 10 * n + Digit(c), 0, t)

MCParseI64(t) == IF AllDigits(t) THEN {Number(t)} ELSE {}

\* Whole numbers, or one digit after the point.
MCDecimal(t) ==
    IF AllDigits(t) THEN {10 * Number(t)}
    ELSE IF /\ Len(t) > 2 /\ t[Len(t) - 1] = "." /\ AllDigits(<<t[Len(t)]>>)
            /\ AllDigits(SubSeq(t, 1, Len(t) - 2))
    THEN {10 * Number(SubSeq(t, 1, Len(t) - 2)) + Digit(t[Len(t)])}
    ELSE {}

MCWidth == [v \in {4, 6} |-> IF v = 4 THEN 4 ELSE 5]
MCParseIp(t) ==
    IF Len(t) \in {4, 5} /\ ToSet(t) \subseteq {"0", "1"}
    THEN {[version |-> IF Len(t) = 4 THEN 4 ELSE 6,
           bits |-> FoldLeft(LAMBDA n, c : 2 * n + Digit(c), 0, t)]}
    ELSE {}

\* Patterns without operators: a regex finds its text, in either case.
MCRegexMatches(p, t) == Occurs(Fold(p), Fold(t))

MCDebugText == <<"b", "a">>

-----------------------------------------------------------------------------
Node(name, node) == <<[name |-> name, node |-> node]>>
Sel(node)     == Node("sel", node)
IntOf(text)     == [kind |-> "int", text |-> text]
FloatOf(text)   == [kind |-> "float", text |-> text]
Null          == [kind |-> "null", text |-> <<>>]
True          == [kind |-> "bool", text |-> <<"t", "r", "u", "e">>]
False         == [kind |-> "bool", text |-> <<"f", "a", "l", "s", "e">>]
List(items)   == [items |-> items]
Map(entries)  == [entries |-> entries]
Entry(field, modifiers, value) == [field |-> field, modifiers |-> modifiers, value |-> value]
One(field, modifiers, value)   == Map(<<Entry(field, modifiers, value)>>)

F == <<"F">>      \* a field, as a rule spells it
F_lower == <<"f">>   \* as the field map does
G == <<"G">>
P == <<"p">>      \* what the application calls it
Q == <<"q">>

Field(key, value) == [key |-> key, value |-> value]
NoPairs == {}
NoFields == {}

Texts == {<<>>, <<"a">>, <<"A", "b">>, <<"b", "a">>, <<"*">>, <<"b", "*", "a">>, <<"a", "\\">>}

-----------------------------------------------------------------------------
\* Text: patterns with wildcards and escapes under every mode, lists, all, null.
TextModifiers == {<<>>, <<"contains">>, <<"startswith">>, <<"endswith">>, <<"re">>}
TextValues == {<<>>, <<"A">>, <<"b", "?">>, <<"*", "b">>, <<"\\", "*">>, <<"\\">>, <<"a", "\\", "\\">>}
TextCase ==
    [pairs |-> NoPairs, streams |-> {}, fields |-> {Field(G, <<"a">>)},
     detections |->
        {Sel(One(F, m, Str(v))) : m \in TextModifiers, v \in TextValues}
        \union {Sel(One(F, m, List(<<Str(<<"a">>), Str(<<"B">>)>>))) :
                    m \in {<<>>, <<"contains">>, <<"contains", "all">>, <<"all">>, <<"re", "all">>}}
        \union {Sel(One(F, m, v)) : m \in {<<>>, <<"re">>}, v \in {Null, True, IntOf(<<"1">>)}},
     events |-> {F :> t : t \in Texts} \union {<< >>}
                    \union {(F :> t) @@ (F_lower :> u) : t, u \in {<<"a">>, <<"b">>}}]

\* Shapes: maps, lists of maps, keywords, mixed lists, and what is refused.
Shapes ==
    {Map(<<Entry(F, <<>>, Str(<<"a">>)), Entry(G, <<"contains">>, Str(<<"b">>))>>),
     Map(<<>>), List(<<One(F, <<>>, Str(<<"a">>)), One(G, <<>>, Str(<<"b">>))>>),
     List(<<Str(<<"a">>), Str(<<"b">>)>>), List(<<Str(<<"B">>), One(F, <<>>, Str(<<"a">>))>>),
     Str(<<"b">>), Null, List(<<>>), List(<<Map(<<>>), One(F, <<"i">>, Str(<<"a">>))>>),
     One(F, <<"re", "i">>, Str(<<"A">>)), One(F, <<"i", "re">>, Str(<<"a">>)),
     One(F, <<"near">>, Str(<<"a">>)), One(F, <<>>, List(<<List(<<Str(<<"a">>)>>)>>))}
ShapeCase ==
    [pairs |-> NoPairs, streams |-> {}, fields |-> {Field(G, <<"b">>), Field(F_lower, <<"a">>)},
     detections |->
        {Sel(n) : n \in Shapes} \union {Node("condition", Str(<<"s">>)), << >>}
        \union {Node("a", m) \o Node("condition", Str(<<"s">>)) \o Node("b", n) :
                    m \in {Str(<<"a">>)}, n \in {One(G, <<>>, Str(<<"b">>)), List(<<>>)}},
     events |-> {(F :> t) @@ (G :> u) : t, u \in {<<"a">>, <<"b">>, <<"a", "b">>}}
                    \union {F :> <<"b", "a">>, << >>}]

\* Aliases: two names of the application for one of Sigma, and the Sigma name itself.
AliasCase ==
    [pairs |-> {<<F, P>>, <<F, Q>>, <<G, P>>}, streams |-> {},
     fields |-> {Field(k, t) : k \in {F_lower, P, Q, F}, t \in {<<"a">>, <<"b">>}},
     detections |-> {Sel(One(F, <<>>, Str(<<"a">>))), Sel(One(F, <<"exists">>, False)),
                     Sel(One(F, <<"fieldref">>, Str(P)))},
     events |-> {k :> <<"a">> : k \in {F_lower, F, P}}
                    \union {(P :> <<"a">>) @@ (k :> <<"b">>) : k \in {F_lower, F, Q, <<"P">>}}]

\* Numbers: at 2^53 and above, padded, fractions, texts that are none.
Numerals == {<<"1", "6">>, <<"1", "7">>, <<"1", "8">>, <<"7">>, <<"7", ".", "5">>}
NumberCase ==
    [pairs |-> NoPairs, streams |-> {}, fields |-> NoFields,
     detections |->
        {Sel(One(F, <<m>>, v)) : m \in Comparisons,
            v \in {IntOf(t) : t \in Numerals \ {<<"7", ".", "5">>}}
                    \union {FloatOf(<<"7", ".", "5">>), Str(<<"1", "7">>), Str(<<"a">>), True, Null}}
        \union {Sel(One(F, <<"gte", "all">>, List(<<IntOf(<<"7">>), IntOf(<<"1", "6">>)>>)))},
     events |-> {F :> t : t \in Numerals \union {<<" ", "7">>, <<"a">>, <<>>}}]

\* Networks: every prefix length, one too long, both versions.
PrefixLengths == {<<"0">>, <<"1">>, <<"2">>, <<"4">>, <<"5">>, <<"6">>}
CidrCase ==
    [pairs |-> NoPairs, streams |-> {}, fields |-> NoFields,
     detections |->
        {Sel(One(F, <<"cidr">>, Str(net \o <<"/">> \o n))) : n \in PrefixLengths,
            net \in {<<"0", "1", "1", "0">>, <<"0", "1", "1", "0", "1">>}}
        \union {Sel(One(F, <<"cidr">>, Str(t))) :
                    t \in {<<"0", "1", "1", "0">>, <<"a", "/", "1">>, <<"0", "1", "1", "0", "/", "1", "/", "1">>}},
     events |-> {F :> t : t \in {<<"0", "1", "1", "0">>, <<"0", "1", "1", "1">>, <<"1", "1", "1", "0">>,
                                 <<" ", "0", "0", "1", "0">>, <<"0", "1", "1", "0", "0">>, <<"a">>}}]

\* Presence and references.
RefCase ==
    [pairs |-> NoPairs, streams |-> {}, fields |-> {Field(G, <<"a">>), Field(F_lower, <<"b">>)},
     detections |->
        {Sel(One(F, <<"exists">>, v)) :
            v \in {True, False, Null, Str(<<"0">>), IntOf(<<"0">>), IntOf(<<"1">>), List(<<>>)}}
        \union {Sel(One(F, <<"fieldref">> \o m, v)) :
            m \in {<<>>, <<"contains">>, <<"startswith">>, <<"endswith">>, <<"all">>},
            v \in {Str(<<"g">>), List(<<Str(<<"g">>), Str(<<"h">>)>>)}}
        \union {Sel(One(<<>>, <<"exists">>, True)), Sel(One(F, <<"fieldref">>, Str(<<>>)))},
     events |-> {(F :> t) @@ (G :> u) : t \in {<<"a", "*">>, <<"B", "a">>}, u \in {<<"A">>, <<"*">>, <<"b", "a">>}}
                    \union {F :> <<"a">>, G :> <<"a">>}]

\* Encoded payloads, and the other transforms.
Payloads == {<<"a">>, <<"a", "b">>, <<"b", "-", "a">>, <<"b", "endash">>}
Before   == {<<>>, <<"a">>, <<"b", "c">>, <<"c", "c", "A">>}
After    == {<<>>, <<"c">>, <<"A", "c">>}
Streams  == {b \o w \o a : b \in Before, w \in Payloads, a \in After}
TransformCase ==
    [pairs |-> NoPairs, streams |-> Streams, fields |-> NoFields,
     detections |->
        {Sel(One(F, <<"base64offset", "contains">>, Str(w))) : w \in Payloads}
        \union {Sel(One(F, m, Str(<<"a", "-">>))) :
                    m \in {<<"base64">>, <<"wide", "base64", "contains">>, <<"wide">>}},
     events |-> {F :> base64_encode(s) : s \in Streams}]
DashCase ==
    [pairs |-> NoPairs, streams |-> {}, fields |-> NoFields,
     detections |->
        {Sel(One(F, <<"windash">> \o m, v)) : m \in {<<>>, <<"contains">>, <<"contains", "all">>, <<"windash", "re">>},
            v \in {Str(<<"-", "a">>), Str(<<"endash", "a", "/">>), Str(<<"a">>), IntOf(<<"1">>),
                   List(<<Str(<<"a">>), Str(<<"-", "b">>)>>)}},
     events |-> {F :> t : t \in {<<"/", "a">>, <<"-", "a", "-">>, <<"endash", "a", "/">>, <<"bar", "a", "bar", "b">>,
                                 <<"emdash", "b">>, <<"a">>, <<"1">>}}]

MCCases == {TextCase, ShapeCase, AliasCase, NumberCase, CidrCase, RefCase, TransformCase, DashCase}

\* One rule and one event for MatchesAsDocumented: the value is there with one of its dashes,
\* the second field is missing, and 17 is 16 as an f64 here.
DocumentedCase ==
    [pairs |-> NoPairs, streams |-> {}, fields |-> NoFields,
     detections |->
        {Node("dash", One(F, <<"windash", "contains", "all">>, Str(<<"-", "a">>)))
            \o Node("null", One(G, <<>>, Null))
            \o Node("number", One(P, <<"gte">>, Str(<<"1", "7">>)))},
     events |-> {(F :> <<"b", "/", "a">>) @@ (P :> <<"1", "6">>)}]
MCDocumentedCases == {DocumentedCase}

\* Every node, with what is inside.
Inside(nodes) ==
    UNION {ToSet(n.items) : n \in {m \in nodes : IsList(m)}}
        \union {entry.value : entry \in UNION {ToSet(n.entries) : n \in {m \in nodes : IsMap(m)}}}

MCNodes ==
    LET outer == UNION {{d[i].node : i \in DOMAIN d} : 
                    d \in UNION {c.detections : c \in MCCases \union MCDocumentedCases}}
    IN outer \union Inside(outer) \union Inside(Inside(outer)) \union Inside(Inside(Inside(outer)))
=============================================================================
