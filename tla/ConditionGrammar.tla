-------------------------- MODULE ConditionGrammar --------------------------
(***************************************************************************)
(* What a condition means, declared by its grammar: a sequence of tokens   *)
(* denotes the outcomes of the identifiers that satisfy it, found by       *)
(* trying every way to cut it, with no parser.  The comments of            *)
(* condition.rs give the grammar and the precedences.                      *)
(***************************************************************************)
EXTENDS Condition

\* `( item, item ... )` from token i to token j, no identifier twice.
Places(i, j) == {k \in (i + 1)..(j - 1) : (k - i) % 2 = 1}

IsList(ts, i, j, names) ==
    /\ i + 1 < j /\ ts[i] = "(" /\ ts[j] = ")" /\ (j - i) % 2 = 0
    /\ \A k \in (i + 1)..(j - 1) : IF k \in Places(i, j) THEN ts[k] \in Words ELSE ts[k] = "comma"
    /\ \A k, l \in Places(i, j) :
          k # l => resolve_wildcard(ts[k], names) \intersect resolve_wildcard(ts[l], names) = {}

ListNames(ts, i, j, names) == UNION {resolve_wildcard(ts[k], names) : k \in Places(i, j)}

\* The identifiers a quantifier is about; none if the tokens are no target.
Targets(ts, i, j, names) ==
    IF i = j /\ ts[i] = "them" THEN {names}
    ELSE IF i = j /\ ts[i] \in Words THEN {resolve_wildcard(ts[i], names)}
    ELSE IF IsList(ts, i, j, names) THEN {ListNames(ts, i, j, names)}
    ELSE {}

\* `count = 0` means "all of".
Quantified(q, targets, names) ==
    {t \in SUBSET names :
        IF q \in {"all", "0"} THEN targets # {} /\ targets \subseteq t
        ELSE Cardinality(targets \intersect t) >= Quantity[q]}

\* The tokens from one to another, taken as one of the four constructs.
Constructs == {"or", "and", "not", "primary"}
Spans(ts)  == [as : Constructs, from : 1..(Len(ts) + 1), to : 0..Len(ts)]
Span(as, i, j) == [as |-> as, from |-> i, to |-> j]

Cuts(ts, op, i, j) == {k \in (i + 1)..(j - 1) : ts[k] = op}

\* What a span means, given what the spans within it mean.
Meaning(ts, names, s, means) ==
    LET i == s.from
        j == s.to
    IN CASE s.as = "or" ->
              means[Span("and", i, j)] \union
              UNION {{a \union b : a \in means[Span("or", i, k - 1)],
                                    b \in means[Span("and", k + 1, j)]} :
                        k \in Cuts(ts, "or", i, j)}
         [] s.as = "and" ->
              means[Span("not", i, j)] \union
              UNION {{a \intersect b : a \in means[Span("and", i, k - 1)],
                                        b \in means[Span("not", k + 1, j)]} :
                        k \in Cuts(ts, "and", i, j)}
         [] s.as = "not" ->
              means[Span("primary", i, j)] \union
              (IF i < j /\ ts[i] = "not"
               THEN {(SUBSET names) \ a : a \in means[Span("not", i + 1, j)]} ELSE {})
         [] s.as = "primary" ->
              IF i = j /\ ts[i] \in Words THEN {{t \in SUBSET names : ts[i] \in t}}
              ELSE IF i + 1 < j /\ ts[i] = "(" /\ ts[j] = ")" THEN means[Span("or", i + 1, j - 1)]
              ELSE IF i + 1 < j /\ ts[i] \in Numbers \union {"all"} /\ ts[i + 1] = "of"
              THEN {Quantified(ts[i], targets, names) : targets \in Targets(ts, i + 2, j, names)}
              ELSE {}

\* A meaning is the set of the outcomes that satisfy the condition.
Meanings(ts, names) ==
    LET means[s \in Spans(ts)] == Meaning(ts, names, s, means)
    IN means[Span("or", 1, Len(ts))]

-----------------------------------------------------------------------------
(* Properties.                                                              *)

Loaded == phase \in {"loaded", "evaluated"}

TypeOK ==
    /\ phase \in {"written", "valid", "rejected", "loaded", "evaluated"}
    /\ condition \in Conditions /\ known \in Detections
    /\ node \in Nodes \union {NoNode}
    /\ phase = "evaluated" => results \in [1..Len(known) -> BOOLEAN]
    /\ fired \in BOOLEAN

\* The recursive-descent parser accepts exactly the conditions the grammar gives a
\* meaning, and what it builds, run over a map as conditions_require_gated_hit does,
\* is satisfied by exactly the outcomes of that meaning: `not` binds before `and`
\* before `or`, brackets override, and no token is ignored.
ParsesAsWritten ==
    /\ phase = "loaded" =>
          Meanings(condition, Names) = {{t \in SUBSET Names : evaluate(node, t)}}
    /\ phase = "rejected" /\ validate_conditions(condition, Names) =>
          Meanings(condition, Names) = {}

\* What the engine's vector evaluator says of an event is what the condition says
\* of the identifiers that matched it: positions and names are never confused.
FiresAsWritten ==
    phase = "evaluated" =>
        \A meaning \in Meanings(condition, Names) :
            fired <=> {known[i] : i \in {j \in 1..Len(known) : results[j]}} \in meaning

\* No quantifier of a rule that loads is over nothing, and its names are its identifiers'
\* but for two kinds: validation and the compiler read the text on their own, and trim the
\* stars of a pattern differently.  Names of aggregation functions are never looked up, and
\* a pattern outside a quantifier is looked up as a pattern and compiled to a name: such a
\* name is false for ever, although the comment of validate_conditions has it check "that
\* all identifiers referenced in conditions actually exist".
ReferencesResolve ==
    Loaded => node \in Trees(NameNodes(Names \union Aggregates \union Patterns)
                                 \union OneOfNodes((SUBSET (Names \union Aggregates)) \ {{}}),
                             Longest)
=============================================================================
