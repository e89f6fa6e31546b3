---------------------------- MODULE MCCondition ----------------------------
(* Finite conditions: every sequence of up to four tokens, and longer ones of *)
(* the shapes where precedence, brackets and quantifiers meet.                *)
EXTENDS ConditionGrammar

MCIdentifiers == {"sel_a", "sel_b", "filter"}
MCAggregates  == {"count"}
MCPatterns    == {"sel*", "sel**", "x*"}
MCStarts      == [p \in MCPatterns |-> IF p = "x*" THEN {} ELSE {"sel_a", "sel_b"}]
MCChecked     == [p \in MCPatterns |-> IF p = "sel*" THEN {"sel_a", "sel_b"} ELSE {}]

MCDetections == {<<"filter", "sel_a", "sel_b">>, <<"sel_a", "filter">>, <<"filter">>}

Alphabet == {"sel_a", "filter", "sel*", "1", "of", "not", "and", "or", "(", ")"}

Short == UNION {[1..n -> Alphabet] : n \in 0..4}

\* x op y op z, each operand possibly negated or quantified, brackets on one side.
Operands == {<<"sel_a">>, <<"not", "sel_b">>, <<"1", "of", "sel*">>}
Ops      == {<<"and">>, <<"or">>}

Long ==
    UNION {{x \o o \o y \o p \o z,
            <<"(">> \o x \o o \o y \o <<")">> \o p \o z,
            x \o o \o <<"(">> \o y \o p \o z \o <<")">>,
            <<"not", "(">> \o x \o o \o y \o <<")">> \o p \o z} :
              x, z \in Operands, y \in Operands \union {<<"filter">>}, o, p \in Ops}

Quantifications ==
    {<<q, "of">> \o t :
        q \in {"0", "1", "2", "all"},
        t \in {<<"them">>, <<"sel**">>, <<"x*">>, <<"count">>, <<"(", "sel_a", "comma", "filter", ")">>,
               <<"(", "sel_a", "comma", "sel*", ")">>, <<"(", "filter", "comma", "sel*", ")">>,
               <<"(", "sel_a", "comma", ")">>, <<"(", ")">>}}

Malformed == {<<"sel_a", "|", "count">>, <<"sel_a", "invalid">>}

MCConditions == Short \union Long \union Quantifications \union Malformed
=============================================================================
