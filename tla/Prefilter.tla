----------------------------- MODULE Prefilter -----------------------------
(***************************************************************************)
(* What engine.rs computes about a rule when it loads it, so that most     *)
(* rules can be skipped for most events: logsource hashes, the literals    *)
(* that go to the Aho-Corasick automaton, and whether the rule may be      *)
(* skipped when none of them occurs.                                       *)
(***************************************************************************)
EXTENDS Matching

CONSTANTS AsciiLower,    \* ascii_case_insensitive(true), char by char
          Hash,          \* hash_logsource: 32 bits, so it may collide
          MAX_UNGATED    \* 12 in the code

ASSUME AsciiAssumption == AsciiLower \in [Char -> Char]
ASSUME HashAssumption  == Hash \in [Source -> Nat \ {0}]
ASSUME MaxUngatedAssumption == MAX_UNGATED \in Nat

\* 0 is "no constraint" in a rule and "absent" in an event.
HashOf(s) == IF s = Absent THEN 0 ELSE Hash[s]

logsource_ok(rule_hash, event_hash) ==
    rule_hash = 0 \/ (event_hash # 0 /\ rule_hash = event_hash)

is_ac_eligible(cond) ==
    /\ \A v \in cond.values : v.literal
    /\ cond.modifiers \intersect
         ({"re", "cidr", "exists", "fieldref"} \union Numeric \union Transforms) = {}

\* The literals of a condition, as registered with the automaton.
Literals(cond) == {Fold(Lower, v.text) : v \in cond.values}

\* Mutant of CanGate: an empty literal is registered too.
CanGate_Empty(cond) == is_ac_eligible(cond) /\ cond.values # {}

\* A condition that can gate its group: every value yields a non-empty literal.
CanGate(cond) ==
    is_ac_eligible(cond) /\ cond.values # {} /\ \A v \in cond.values : v.text # <<>>

IdentLiterals(ident) ==
    UNION {Literals(cond) : cond \in {c \in UNION ident.groups : CanGate(c)}}

\* An identifier is AC-gated when each of its OR-groups has such a condition.
Gated(ident) ==
    ident.groups # {} /\ \A group \in ident.groups : \E cond \in group : CanGate(cond)

GatedIn(rule)   == {ident \in rule.identifiers : Gated(ident)}
UngatedIn(rule) == rule.identifiers \ GatedIn(rule)

\* Every literal that is interned, and those of the gated identifiers.
InternedLiterals(rule) == UNION {IdentLiterals(ident) : ident \in rule.identifiers}
GatedLiterals(rule)    == UNION {IdentLiterals(ident) : ident \in GatedIn(rule)}

\* Mutant of conditions_require_gated_hit: only "all false" is tried.
conditions_require_gated_hit_AllFalse(rule) ==
    /\ Cardinality(UngatedIn(rule)) <= MAX_UNGATED
    /\ Satisfied(rule, {}) = {}

\* With every gated identifier false, no assignment of the others satisfies a
\* condition; not even tried for more than MAX_UNGATED of them.
conditions_require_gated_hit(rule) ==
    /\ Cardinality(UngatedIn(rule)) <= MAX_UNGATED
    /\ \A idents \in SUBSET UngatedIn(rule) : Satisfied(rule, NamesOf(idents)) = {}

fully_ac_covered(rule) ==
    GatedLiterals(rule) # {} /\ conditions_require_gated_hit(rule)

\* One pattern occurs in one of the values of the event, up to ASCII case.
Hits(pattern, event) ==
    \E cell \in event.cells : Occurs(Fold(AsciiLower, pattern), Fold(AsciiLower, cell[2]))
=============================================================================
