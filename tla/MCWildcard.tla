----------------------------- MODULE MCWildcard -----------------------------
(* Values and texts over the characters that matter: two letters, the two     *)
(* wildcards and the backslash.                                               *)
EXTENDS Pattern

MCChars == {"a", "b", "*", "?", "\\"}

UpTo(S, n) == UNION {[1..k -> S] : k \in 0..n}

\* Values with escapes, as their modifiers wrap them.
MCPatterns == UpTo(MCChars \ {"b"}, 2) \union
                 {<<"\\", "\\", "*">>, <<"\\", "a", "*">>, <<"a", "\\", "?">>,
                  <<"\\", "\\", "\\">>, <<"a", "a", "\\">>}

SpecialTexts == UpTo({"a", "*", "\\"}, 2) \union {<<"a", "a", "*">>, <<"\\", "a", "a">>}

\* Every pattern of up to three tokens, and longer ones that need a star before
\* them moved more than once.
MCTokens == TokensOf(MCPatterns \union {Escape(t) : t \in SpecialTexts})
               \union UpTo({Star, Question, Lit("a"), Lit("b")}, 3)
               \union {<<Star>> \o s \o <<Star>> : s \in [1..3 -> {Star, Lit("a"), Lit("b")}]}
               \union {<<Star>> \o s : s \in [1..3 -> {Star, Question, Lit("a"), Lit("b")}]}

MCTexts == UpTo({"a", "b"}, 3) \union {<<"a", "a", "b", "a">>, <<"a", "b", "a", "b">>}
              \union SpecialTexts
=============================================================================
