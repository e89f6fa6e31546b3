------------------------------ MODULE Pattern ------------------------------
(***************************************************************************)
(* The two ways from the text of a Sigma value to a match: a value without *)
(* an active wildcard is compared as a literal, by plain substring         *)
(* operations; any other goes to the loop of module Wildcard, with a star  *)
(* before or after as its modifier asks.  Tokens has the operators; here   *)
(* are the values to consider and what the two ways must agree on.  Value  *)
(* and text are already case-folded.                                       *)
(***************************************************************************)
EXTENDS Wildcard, FiniteSets

CONSTANT Patterns    \* the values to consider: sequences of characters

ASSUME PatternsAssumption == Patterns \subseteq Seq(Chars)

LiteralPatterns == {p \in Patterns : IsLiteral(p)}

\* The tokens the loop may be given.
TokensOf(patterns) == {Wrapped(p, mode) : p \in patterns, mode \in Modes}

-----------------------------------------------------------------------------
(* Properties.                                                              *)

\* The fast path for literals and the wildcard loop are interchangeable: whenever a
\* value without active wildcards were given to the loop, wrapped for its modifier,
\* the loop would return what the substring operation returns.
FastPathAgrees ==
    pc = "done" =>
        \A p \in LiteralPatterns, mode \in Modes :
            pattern = Wrapped(p, mode) => (verdict <=> LiteralMatches(p, mode, text))

\* A character as a value must be written to stand for itself.
Escape(t) ==
    LET from[i \in 1..(Len(t) + 1)] ==
            IF i > Len(t) THEN <<>>
            ELSE (IF t[i] \in Escapable THEN <<"\\", t[i]>> ELSE <<t[i]>>) \o from[i + 1]
    IN from[1]

\* Sigma's escaping rules: a value in which every special character is escaped is
\* a literal, and matches the text it spells and no other.
EscapedMatchesItself ==
    pc = "done" =>
        \A t \in Texts :
            pattern = tokenize_pattern(Escape(t)) => (verdict <=> text = t)
=============================================================================
