------------------------------- MODULE Tokens -------------------------------
(***************************************************************************)
(* The pattern language of src/matcher.rs: the text of a Sigma value is    *)
(* tokenized, resolving its escapes; a value without an active wildcard is *)
(* compared as a literal, by plain substring operations; any other goes to *)
(* the wildcard loop, with a star before or after as its modifier asks.    *)
(* Value and text are already case-folded.                                 *)
(***************************************************************************)
EXTENDS Naturals, Sequences

CONSTANT Chars       \* characters

\* PatToken.
Star      == [wild |-> "star"]
Question  == [wild |-> "question"]
Lit(c)    == [lit |-> c]
PatTokens == {Star, Question} \union {Lit(c) : c \in Chars}

\* Mutant of Accepts: a question mark is a character like another.
Accepts_NoQuestion(token, c) == token = Lit(c)

\* A token that takes one character takes this one.
Accepts(token, c) == token = Question \/ token = Lit(c)

-----------------------------------------------------------------------------
(* From the value to its tokens.                                            *)

Modes == {"exact", "contains", "startswith", "endswith"}

\* Characters that a backslash before them makes literal.
Escapable == {"*", "?", "\\"}

\* Mutant of EscapesNext: a backslash does not escape a backslash.
EscapesNext_NotItself(p, i) == p[i] = "\\" /\ i < Len(p) /\ p[i + 1] \in {"*", "?"}

EscapesNext(p, i) == p[i] = "\\" /\ i < Len(p) /\ p[i + 1] \in Escapable

Token(c) == IF c = "*" THEN Star ELSE IF c = "?" THEN Question ELSE Lit(c)

tokenize_pattern(p) ==
    LET from[i \in 1..(Len(p) + 1)] ==
            IF i > Len(p) THEN <<>>
            ELSE IF EscapesNext(p, i) THEN <<Lit(p[i + 1])>> \o from[i + 2]
            ELSE <<Token(p[i])>> \o from[i + 1]
    IN from[1]

\* pattern_literal answers Some.
IsLiteral(p) ==
    \A i \in 1..Len(tokenize_pattern(p)) : tokenize_pattern(p)[i] \notin {Star, Question}

\* The unescaped text of a literal.
pattern_literal(p) == [i \in 1..Len(tokenize_pattern(p)) |-> tokenize_pattern(p)[i].lit]

\* Mutant of StarBefore: the modifiers are swapped.
StarBefore_Swapped(mode) == mode \in {"contains", "startswith"}
StarBefore(mode) == mode \in {"contains", "endswith"}
StarAfter(mode)  == mode \in {"contains", "startswith"}

\* wildcard_match_wrapped_tokens.
Wrapped(p, mode) ==
    (IF StarBefore(mode) THEN <<Star>> ELSE <<>>)
        \o tokenize_pattern(p)
        \o (IF StarAfter(mode) THEN <<Star>> ELSE <<>>)

\* value_matches_*: contains, starts_with, ends_with or == on the literal.
LiteralMatches(p, mode, t) ==
    LET lit == pattern_literal(p) IN
    \E i \in 0..(Len(t) - Len(lit)) :
        /\ mode \in {"exact", "startswith"} => i = 0
        /\ mode \in {"exact", "endswith"} => i = Len(t) - Len(lit)
        /\ \A j \in 1..Len(lit) : t[i + j] = lit[j]

-----------------------------------------------------------------------------
(* What a match is: the text is cut into one piece per token, of which a    *)
(* star takes any piece and the others take one character.                  *)

Takes(token, t, from, to) ==
    \/ token = Star /\ from <= to
    \/ to = from + 1 /\ Accepts(token, t[to])

\* The tokens of p after the first i match the characters of t after the first j.
Covers(p, t, i, j) ==
    \E cut \in [i..Len(p) -> 0..Len(t)] :
        /\ cut[i] = j /\ cut[Len(p)] = Len(t)
        /\ \A k \in i..(Len(p) - 1) : Takes(p[k + 1], t, cut[k], cut[k + 1])

Matches(p, t) == Covers(p, t, 0, 0)
=============================================================================
