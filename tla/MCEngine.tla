------------------------------ MODULE MCEngine ------------------------------
(* Finite rules and events for the engine.  Letters: "a" and "A", and for the  *)
(* Unicode run "e" and "E", which stand for a pair that only Unicode folds.    *)
EXTENDS Engine

CONSTANTS e1, e2

AsciiChar == {"a", "A"}
AllChar   == {"a", "A", "e", "E"}

MCLower      == [c \in Char |-> CASE c = "A" -> "a" [] c = "E" -> "e" [] OTHER -> c]
MCAsciiLower == [c \in Char |-> IF c = "A" THEN "a" ELSE c]

MCField  == {"", "f", "g"}
MCSource == {"s1", "s2", "s3"}
MCNames  == {"sel", "other"}

\* s1 and s2 collide.
MCHash == [s \in Source |-> IF s = "s3" THEN 2 ELSE 1]

-----------------------------------------------------------------------------
Literal(text) == [text |-> text, literal |-> TRUE]

Cond(field, modifiers, texts) ==
    [field |-> field, values |-> {Literal(t) : t \in texts}, modifiers |-> modifiers]

From(category) == [category |-> category, product |-> Absent, service |-> Absent]

\* A rule with identifiers "sel" and "other"; each condition lists assignments.
Rule(category, sel, other, conditions) ==
    [logsource |-> From(category),
     identifiers |-> {[name |-> "sel", groups |-> sel], [name |-> "other", groups |-> other]},
     conditions |-> conditions, defect |-> "none"]

\* A rule with identifier "sel" only.
Simple(category, sel, condition) ==
    [logsource |-> From(category), identifiers |-> {[name |-> "sel", groups |-> sel]},
     conditions |-> <<condition>>, defect |-> "none"]

IsTrue  == {{"sel"}}
IsFalse == {{}}
Opaque  == Cond("f", {"windash"}, {<<"a">>})

HasA   == {{Cond("f", {"contains"}, {<<"A">>})}}
HasAA  == {{Cond("g", {"contains"}, {<<"a", "a">>})}}

MCRules == {
    Simple(Absent, HasA, IsTrue),
    Simple("s1", HasAA, IsTrue),
    Simple(Absent, HasAA, IsFalse),
    Simple(Absent, {{Cond("", {"startswith", "all"}, {<<"a">>, <<"a", "A">>})}}, IsTrue),
    Simple(Absent, HasAA \union {{Cond("f", {}, {<<>>})}}, IsTrue),
    Simple(Absent, {{Opaque}}, IsTrue),
    Rule(Absent, HasA, {{Opaque}}, <<{{"sel"}, {"other"}, {"sel", "other"}}, {{"sel", "other"}}>>),
    Rule(Absent, HasAA, {{Opaque}}, <<{{"sel"}}>>),
    [Simple(Absent, {{Cond("f", {"endswith"}, {<<"a", "a", "a">>})}}, IsTrue)
        EXCEPT !.defect = "regex"]}

Cells == {{}, {<<"f", <<"A">>>>}, {<<"f", <<>>>>, <<"g", <<"a", "A", "a">>>>},
          {<<"f", <<"a", "A">>>>, <<"f", <<>>>>}, {<<"g", <<"a">>>>}}

MCInputs ==
    [cells : Cells, source : {From("s1"), From("s2")}, holds : {{}}]
        \union [cells : Cells, source : {From(Absent)}, holds : {{Opaque}}]

\* One engine with two rules, and another with one.
MCMaxRules == [e \in Engines |-> IF e = e1 THEN 2 ELSE 1]

\* For the run about Unicode: one rule.
UnicodeRules  == {Simple(Absent, {{Cond("f", {"contains"}, {<<"e">>})}}, IsTrue)}
UnicodeInputs == {[cells |-> {<<"f", t>>}, source |-> From(Absent), holds |-> {}] :
                    t \in {<<"e">>, <<"a", "E">>}}
=============================================================================
