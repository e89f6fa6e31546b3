----------------------------- MODULE Condition -----------------------------
(***************************************************************************)
(* The condition language: what a rule's `condition:` line goes through    *)
(* from text to evaluation.  validate_conditions (parser.rs) looks at its  *)
(* words, compile_condition (condition.rs) parses it into a ConditionNode, *)
(* conditions_require_gated_hit runs the node over maps (evaluate) and the *)
(* engine runs it over vectors (evaluate_vec).                             *)
(*                                                                         *)
(* A condition is its sequence of tokens.  A token is a string: a keyword, *)
(* a number, a punctuation mark, "|", "invalid" for a character no token   *)
(* begins with, or a word; case and white space are gone.                  *)
(***************************************************************************)
EXTENDS Naturals, Sequences, FiniteSets

CONSTANTS Identifiers,   \* words that may name an identifier of a rule
          Aggregates,    \* the words count, near, by, avg, sum, min, max
          Patterns,      \* words with a '*' in them
          Starts,        \* pattern -> names that start with it, stars trimmed
          Checked,       \* pattern -> names validation accepts it for: one
                         \* star trimmed, so fewer for a pattern like sel**
          Conditions,    \* the conditions to consider
          Longest,       \* no condition has more tokens
          Detections     \* the sequences of identifier names to consider

Words == Identifiers \union Aggregates \union Patterns

Quantity == [number \in {"0", "1", "2"} |-> IF number = "0" THEN 0 ELSE IF number = "1" THEN 1 ELSE 2]
Numbers  == DOMAIN Quantity

Keywords == {"and", "or", "not", "of", "all", "them"}
Marks    == {"(", ")", "comma", "|", "invalid"}
Tokens   == Words \union Numbers \union Keywords \union Marks

\* The tokenizer takes a word for a name only if it is no keyword and no number.
ASSUME WordAssumption ==
    /\ Words \intersect (Numbers \union Keywords \union Marks \union {"eof"}) = {}
    /\ Patterns \intersect (Identifiers \union Aggregates) = {}

ASSUME PatternAssumption ==
    /\ Starts \in [Patterns -> SUBSET (Identifiers \union Aggregates)]
    /\ \A p \in Patterns : Checked[p] \subseteq Starts[p]

ASSUME ConditionAssumption ==
    Longest \in Nat /\ \A c \in Conditions : c \in Seq(Tokens) /\ Len(c) <= Longest

\* parse_detection refuses a rule with no identifier; the keys of a map are distinct.
ASSUME DetectionAssumption ==
    \A d \in Detections :
        /\ d \in Seq(Identifiers \union Aggregates) /\ d # <<>>
        /\ \A i, j \in 1..Len(d) : d[i] = d[j] => i = j

VARIABLES phase,       \* "written", "valid", "rejected", "loaded" or "evaluated"
          condition,   \* the tokens
          known,       \* the rule's identifier names, in the order of the map
          node,        \* the compiled ConditionNode
          results,     \* per identifier, by position: did it match?
          fired        \* what evaluate_vec said

vars == <<phase, condition, known, node, results, fired>>

NamesOf(identifiers) == {identifiers[i] : i \in 1..Len(identifiers)}
Names == NamesOf(known)

-----------------------------------------------------------------------------
(* validate_conditions.                                                     *)

\* Mutant of WordIsDefined: a pattern need not match any name.
WordIsDefined_AnyPattern(word, names) ==
    word \in Patterns \/ word \in names \/ word \in Aggregates

\* is_identifier_token skips the names of aggregation functions, defined or not.
WordIsDefined(word, names) ==
    \/ word \in Aggregates
    \/ word \in Patterns /\ Checked[word] \intersect names # {}
    \/ word \in names

validate_conditions(ts, names) ==
    \A i \in 1..Len(ts) : ts[i] # "|" /\ (ts[i] \in Words => WordIsDefined(ts[i], names))

-----------------------------------------------------------------------------
(* ConditionNode.                                                           *)

NoNode == [op |-> "none"]

\* An Identifier and a OneOf; `all of` is stored as the count 0.
NameNodes(names)   == [op : {"name"}, name : names]
OneOfNodes(groups) == [op : {"of"}, names : groups, count : Nat]

\* One level of And, Or and Not over these nodes.
Combined(nodes) ==
    nodes \union [op : {"and", "or"}, left : nodes, right : nodes]
          \union [op : {"not"}, inner : nodes]

\* The trees over these leaves, no deeper than this.
Trees(leaves, depth) ==
    LET upTo[d \in 0..depth] == IF d = 0 THEN leaves ELSE Combined(upTo[d - 1])
    IN upTo[depth]

Leaves == NameNodes(Words) \union OneOfNodes(SUBSET Words)
Nodes  == Trees(Leaves, Longest)

-----------------------------------------------------------------------------
(* compile_condition: recursive descent.  A parser returns what it built   *)
(* and the position after it, or Failed.                                    *)

Failed == [ok |-> FALSE, value |-> NoNode, pos |-> 0]

Parsed(v, p) == [ok |-> TRUE, value |-> v, pos |-> p]

Positions(ts) == 1..(Len(ts) + 1)
Peek(ts, p)   == IF p <= Len(ts) THEN ts[p] ELSE "eof"

resolve_wildcard(word, names) ==
    IF word \in Patterns THEN Starts[word] \intersect names ELSE {word}

\* The explicit list of parse_of_target, from its first item: as many items as are
\* followed by a comma, and one more.  None may resolve to a name found before it.
ParseList(ts, p, names) ==
    LET Item(i)      == Peek(ts, p + 2 * i - 2)
        Separator(i) == Peek(ts, p + 2 * i - 1)
        Found(i)     == resolve_wildcard(Item(i), names)
        size == CHOOSE n \in 1..Len(ts) :
                    Separator(n) # "comma" /\ \A i \in 1..(n - 1) : Separator(i) = "comma"
    IN IF /\ Separator(size) = ")"
          /\ \A i \in 1..size : Item(i) \in Words
          /\ \A i \in 1..size, j \in 1..size : i < j => Found(i) \intersect Found(j) = {}
       THEN Parsed(UNION {Found(i) : i \in 1..size}, p + 2 * size)
       ELSE Failed

parse_of_target(ts, p, names) ==
    CASE Peek(ts, p) = "them"   -> Parsed(names, p + 1)
      [] Peek(ts, p) \in Words  -> Parsed(resolve_wildcard(ts[p], names), p + 1)
      [] Peek(ts, p) = "("      -> ParseList(ts, p + 1, names)
      [] OTHER                  -> Failed

\* `n of ...` and `all of ...`.
ParseQuantifier(ts, p, names) ==
    LET target == parse_of_target(ts, p + 2, names) IN
    IF Peek(ts, p + 1) # "of" \/ ~target.ok THEN Failed
    ELSE Parsed([op |-> "of", names |-> target.value,
                 count |-> IF ts[p] = "all" THEN 0 ELSE Quantity[ts[p]]], target.pos)

\* parse_expr is what the parser of expressions says at each position, one nesting
\* level further in.
parse_primary(ts, p, names, parse_expr) ==
    CASE Peek(ts, p) = "(" ->
            LET expr == parse_expr[p + 1] IN
            IF expr.ok /\ Peek(ts, expr.pos) = ")" THEN Parsed(expr.value, expr.pos + 1)
            ELSE Failed
      [] Peek(ts, p) \in Numbers \union {"all"} -> ParseQuantifier(ts, p, names)
      [] Peek(ts, p) \in Words -> Parsed([op |-> "name", name |-> ts[p]], p + 1)
      [] OTHER -> Failed

parse_not(ts, p, names, inside) ==
    IF Peek(ts, p) # "not" THEN parse_primary(ts, p, names, inside.expr)
    ELSE LET inner == inside.negation[p + 1] IN
         IF inner.ok THEN Parsed([op |-> "not", inner |-> inner.value], inner.pos) ELSE Failed

\* One round of the loop of parse_or and parse_and.
Extended(ts, op, operand, left) ==
    LET right == operand[left.pos + 1] IN
    IF ~left.ok \/ Peek(ts, left.pos) # op THEN left
    ELSE IF ~right.ok THEN Failed
    ELSE Parsed([op |-> op, left |-> left.value, right |-> right.value], right.pos)

\* parse_or and parse_and are one loop: operands of the next tighter level,
\* joined from the left.
ParseChain(ts, op, operand, p) ==
    LET after[n \in 0..Len(ts)] ==
            IF n = 0 THEN operand[p] ELSE Extended(ts, op, operand, after[n - 1])
    IN after[Len(ts)]

\* What the parsers say everywhere, given what they say one nesting level further in.
Outside(ts, names, inside) ==
    LET negation == [p \in Positions(ts) |-> parse_not(ts, p, names, inside)]
        parse_and == [p \in Positions(ts) |-> ParseChain(ts, "and", negation, p)]
        parse_or  == [p \in Positions(ts) |-> ParseChain(ts, "or", parse_and, p)]
    IN [expr |-> parse_or, negation |-> negation]

Nowhere(ts) == [p \in Positions(ts) |-> Failed]

\* A bracket or a `not` that nests takes a token: no call nests deeper than this.
parse_expr(ts, names) ==
    LET nested[d \in 0..(Len(ts) + 1)] ==
            IF d = 0 THEN [expr |-> Nowhere(ts), negation |-> Nowhere(ts)]
            ELSE Outside(ts, names, nested[d - 1])
    IN nested[Len(ts) + 1].expr

\* Mutant of compile_condition: what follows a complete expression is ignored.
compile_condition_Prefix(ts, names) == parse_expr(ts, names)[1]

\* The whole text must be one expression.
compile_condition(ts, names) ==
    LET expr == parse_expr(ts, names)[1]
    IN IF expr.ok /\ expr.pos = Len(ts) + 1 THEN expr ELSE Failed

-----------------------------------------------------------------------------
(* Evaluation.  A map of results is the set of the names it makes true.     *)

OneOf(count, size, matched) ==
    IF count = 0 THEN matched = size /\ size > 0 ELSE matched >= count

\* What a node says, given what the nodes below it say.
Evaluated(n, truth, value) ==
    CASE n.op = "name" -> n.name \in truth
      [] n.op = "and"  -> value[n.left] /\ value[n.right]
      [] n.op = "or"   -> value[n.left] \/ value[n.right]
      [] n.op = "not"  -> ~value[n.inner]
      [] n.op = "of"   -> OneOf(n.count, Cardinality(n.names), Cardinality(n.names \intersect truth))

evaluate(root, truth) ==
    LET value[n \in Nodes] == Evaluated(n, truth, value) IN value[root]

\* ident_index: name -> position.
Index(identifiers) ==
    [name \in NamesOf(identifiers) |-> CHOOSE i \in 1..Len(identifiers) : identifiers[i] = name]

\* Mutant of Lookup: positions are counted from the other end.
Lookup_Reversed(name, bits, index) ==
    name \in DOMAIN index /\ bits[Cardinality(DOMAIN index) + 1 - index[name]]

Lookup(name, bits, index) == name \in DOMAIN index /\ bits[index[name]]

EvaluatedVec(n, bits, index, value) ==
    CASE n.op = "name" -> Lookup(n.name, bits, index)
      [] n.op = "and"  -> value[n.left] /\ value[n.right]
      [] n.op = "or"   -> value[n.left] \/ value[n.right]
      [] n.op = "not"  -> ~value[n.inner]
      [] n.op = "of"   -> OneOf(n.count, Cardinality(n.names),
                                Cardinality({name \in n.names : Lookup(name, bits, index)}))

evaluate_vec(root, bits, index) ==
    LET value[n \in Nodes] == EvaluatedVec(n, bits, index, value) IN value[root]

-----------------------------------------------------------------------------
Init ==
    /\ phase = "written"
    /\ condition \in Conditions
    /\ known \in Detections
    /\ node = NoNode
    /\ results = <<>>
    /\ fired = FALSE

Validate ==
    /\ phase = "written"
    /\ phase' = IF validate_conditions(condition, Names) THEN "valid" ELSE "rejected"
    /\ UNCHANGED <<condition, known, node, results, fired>>

Compile ==
    LET compiled == compile_condition(condition, Names) IN
    /\ phase = "valid"
    /\ phase' = IF compiled.ok THEN "loaded" ELSE "rejected"
    /\ node' = compiled.value
    /\ UNCHANGED <<condition, known, results, fired>>

\* Mutant of Evaluate: id_results keeps the size of a rule with more identifiers.
Evaluate_NotResized ==
    /\ phase \in {"loaded", "evaluated"}
    /\ phase' = "evaluated"
    /\ results' \in [1..(Len(known) + 1) -> BOOLEAN]
    /\ fired' = evaluate_vec(node, results', Index(known))
    /\ UNCHANGED <<condition, known, node>>

\* One event: id_results has one bit per identifier, and any outcome is possible.
Evaluate ==
    /\ phase \in {"loaded", "evaluated"}
    /\ phase' = "evaluated"
    /\ results' \in [1..Len(known) -> BOOLEAN]
    /\ fired' = evaluate_vec(node, results', Index(known))
    /\ UNCHANGED <<condition, known, node>>

\* A rejected rule is gone.
Dropped == phase = "rejected" /\ UNCHANGED vars

Next == Validate \/ Compile \/ Evaluate \/ Dropped

Spec == Init /\ [][Next]_vars
=============================================================================
