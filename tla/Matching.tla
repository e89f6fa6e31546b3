------------------------------ MODULE Matching ------------------------------
(***************************************************************************)
(* What it means for a Sigma rule to match one event, as matcher.rs and    *)
(* condition.rs decide it, with no prefilter: field conditions compare     *)
(* case-folded text, are ANDed in a group, groups are ORed in an           *)
(* identifier, and a condition is a Boolean function of the identifiers.   *)
(*                                                                         *)
(* An event is its enriched view: a set of <<folded field name, value>>    *)
(* cells, its logsource, and `holds`.  Conditions whose evaluation is not  *)
(* modelled here (wildcards, non-string values, regex, CIDR, numbers,      *)
(* exists, fieldref, transforms) hold on the events that say so: any       *)
(* answer is possible, independently of the text of the event.             *)
(***************************************************************************)
EXTENDS Naturals, Sequences, FiniteSets

CONSTANTS Char,        \* characters
          Lower,       \* str::to_lowercase, one character to one
          Field,       \* folded field names; "" is the keyword search
          Source,      \* ASCII-lowercased logsource values
          NoSource,    \* an absent one
          Names        \* identifier names

ASSUME CharAssumption == Lower \in [Char -> Char]
ASSUME SourceAssumption == NoSource \notin Source

Text == Seq(Char)

Fold(case, s) == [i \in 1..Len(s) |-> case[s[i]]]

\* p occurs in t right after its first i characters.
OccursAt(p, t, i) ==
    /\ i + Len(p) <= Len(t)
    /\ \A j \in 1..Len(p) : t[i + j] = p[j]

Occurs(p, t) == \E i \in 0..Len(t) : OccursAt(p, t, i)

-----------------------------------------------------------------------------
(* Rules.                                                                   *)

\* A value: its unescaped text, and whether it is a string without an active
\* wildcard (what pattern_literal answers).
Values == [text : Text, literal : BOOLEAN]

MatchModifiers == {"contains", "startswith", "endswith", "all"}
Numeric        == {"gt", "gte", "lt", "lte"}
Transforms     == {"base64", "base64offset", "wide", "windash"}
Modifiers      == MatchModifiers \union Numeric \union Transforms
                      \union {"re", "cidr", "exists", "fieldref"}

FieldConditions ==
    [field : Field, values : SUBSET Values, modifiers : SUBSET Modifiers]

\* The groups of an identifier are ORed, the conditions of a group ANDed.
Groups            == SUBSET FieldConditions
SearchIdentifiers == [name : Names, groups : SUBSET Groups]

Absent     == NoSource
LogSources == [category : Source \union {Absent}, product : Source \union {Absent},
               service : Source \union {Absent}]

\* A compiled condition is the set of truth assignments that satisfy it, each
\* given by the identifiers it makes true.  `defect` is why a load rejects the
\* rule: it does not parse, its condition does not compile or a regex does not.
Defects  == {"none", "parse", "compile", "regex"}
SigmaRules ==
    {rule \in [logsource : LogSources, identifiers : SUBSET SearchIdentifiers,
               conditions : Seq(SUBSET SUBSET Names), defect : Defects] :
        \A a, b \in rule.identifiers : a.name = b.name => a = b}

Events == [cells : SUBSET (Field \X Text), source : LogSources,
           holds : SUBSET FieldConditions]

-----------------------------------------------------------------------------
(* Matching.                                                                *)

\* Conditions that compare text: the others are decided by event.holds.
ComparesText(cond) ==
    cond.modifiers \subseteq MatchModifiers /\ \A v \in cond.values : v.literal

\* value_matches, its string modes in the order the code tries them.
value_matches(v, modifiers, text) ==
    LET p == Fold(Lower, v.text)
        t == Fold(Lower, text)
    IN \/ "contains" \in modifiers /\ Occurs(p, t)
       \/ /\ "contains" \notin modifiers /\ "startswith" \in modifiers
          /\ OccursAt(p, t, 0)
       \/ /\ modifiers \intersect {"contains", "startswith"} = {}
          /\ "endswith" \in modifiers
          /\ Len(p) <= Len(t) /\ OccursAt(p, t, Len(t) - Len(p))
       \/ /\ modifiers \intersect {"contains", "startswith", "endswith"} = {}
          /\ p = t

\* The cells the condition looks at: one field's, or all for a keyword.
CellsOf(cond, event) ==
    {cell \in event.cells : cond.field = "" \/ cell[1] = cond.field}

match_field_condition(cond, event) ==
    IF ~ComparesText(cond) THEN cond \in event.holds
    ELSE \E cell \in CellsOf(cond, event) :
            IF "all" \in cond.modifiers
            THEN \A v \in cond.values : value_matches(v, cond.modifiers, cell[2])
            ELSE \E v \in cond.values : value_matches(v, cond.modifiers, cell[2])

match_identifier(ident, event) ==
    \E group \in ident.groups : \A cond \in group : match_field_condition(cond, event)

NamesOf(idents) == {ident.name : ident \in idents}

TrueIdentifiers(rule, event) ==
    NamesOf({ident \in rule.identifiers : match_identifier(ident, event)})

\* The conditions of the rule that a truth assignment satisfies.
Satisfied(rule, truth) == {c \in 1..Len(rule.conditions) : truth \in rule.conditions[c]}

\* LogSource::matches.
SourceOk(wanted, given) == wanted = Absent \/ wanted = given

LogSourceMatches(rule, event) ==
    /\ SourceOk(rule.logsource.category, event.source.category)
    /\ SourceOk(rule.logsource.product, event.source.product)
    /\ SourceOk(rule.logsource.service, event.source.service)

\* The rule matches the event.
RuleMatches(rule, event) ==
    /\ LogSourceMatches(rule, event)
    /\ Satisfied(rule, TrueIdentifiers(rule, event)) # {}
=============================================================================
