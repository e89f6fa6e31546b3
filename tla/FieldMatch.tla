----------------------------- MODULE FieldMatch -----------------------------
(***************************************************************************)
(* How src/matcher.rs decides one search identifier against one event, in  *)
(* full: value lists, string modes, numbers, CIDR, regex, exists, fieldref *)
(* and transforms, each with the caches a condition has and has not.       *)
(*                                                                         *)
(* The code decides a condition in two places, match_field_condition_on_-  *)
(* view and, for rules with a regex, match_field_condition_with_cache_on_- *)
(* view; both are here.  Names and texts are sequences of characters.      *)
(***************************************************************************)
EXTENDS Transforms

CONSTANTS Lower,               \* str::to_lowercase, one character to one
          Decimal(_),          \* the number a text spells, in tenths: {} if none
          ParseI64(_),         \* str::parse::<i64>: {} or the number
          Exact,               \* 2^53: whole numbers up to it are f64
          ParseIp(_),          \* str::parse::<IpAddr>: {} or an address
          RegexMatches(_, _)   \* what the regex crate says of a pattern and a text

\* Nothing but itself is folded to a character that patterns treat specially.
ASSUME LowerAssumption ==
    /\ Lower \in [Chars -> Chars]
    /\ \A c \in Chars, special \in Escapable : Lower[c] = special <=> c = special

Fold(text) == [i \in DOMAIN text |-> Lower[text[i]]]

Has(cond, modifier) == Contains(cond.modifiers, modifier)

HasTransform(cond) == \E i \in DOMAIN cond.modifiers : is_transform(cond.modifiers[i])

-----------------------------------------------------------------------------
(* What is prepared when a rule is loaded.                                  *)

\* Mutant of CachedPattern: transformed values are cached too.
CachedPattern_Transforms(cond, i) == {Fold(cond.values[i].text)}

\* The text that build_value_match_cache is given for a value, if it is.
CachedPattern(cond, i) == IF HasTransform(cond) THEN {} ELSE {Fold(cond.values[i].text)}

\* finalize_identifiers, for one condition.
Finalized(cond) ==
    [cond EXCEPT
        !.field_folded = Fold(cond.field),
        !.values_folded = [i \in DOMAIN cond.values |-> Fold(cond.values[i].text)],
        !.values_match_cache = [i \in DOMAIN cond.values |-> CachedPattern(cond, i)]]

-----------------------------------------------------------------------------
(* Text.                                                                    *)

Mode(modifiers) ==
    CASE Contains(modifiers, "contains") -> "contains"
      [] ~Contains(modifiers, "contains") /\ Contains(modifiers, "startswith") -> "startswith"
      [] ToSet(modifiers) \intersect {"contains", "startswith", "endswith"} = {"endswith"} -> "endswith"
      [] OTHER -> "exact"

has_wildcards(v) == v.kind = "string" /\ ToSet(v.text) \intersect {"*", "?"} # {}

\* The literal fast path, or the wildcard loop between its implied stars.
PatternMatches(p, mode, t) ==
    IF IsLiteral(p) THEN LiteralMatches(p, mode, t) ELSE Matches(Wrapped(p, mode), t)

\* p is the text the cache was built from, or sigma_lower itself.
TextMatches(v, sigma_lower, p, t, modifiers) ==
    IF Mode(modifiers) = "exact" /\ ~has_wildcards(v) /\ "\\" \notin ToSet(sigma_lower)
    THEN sigma_lower = t
    ELSE PatternMatches(p, Mode(modifiers), t)

-----------------------------------------------------------------------------
(* Numbers, in tenths.  Above 2^53 an f64 holds even whole numbers only,    *)
(* ties going to the multiple of four.                                      *)

Abs(x) == IF x < 0 THEN -x ELSE x

F64(x) ==
    IF Abs(x) <= 10 * Exact THEN x
    ELSE CHOOSE n \in {20 * k : k \in ((x \div 20) - 1)..((x \div 20) + 2)} :
            \/ Abs(n - x) < 10
            \/ Abs(n - x) = 10 /\ n % 40 = 0

ParseF64(text) == {F64(x) : x \in Decimal(text)}

Trim(text) ==
    LET kept == {i \in DOMAIN text : text[i] # " "}
    IN IF kept = {} THEN <<>> ELSE SubSeq(text, Min(kept), Max(kept))

Comparisons == {"gt", "gte", "lt", "lte"}

Compares(modifiers, a, b) ==
    IF Contains(modifiers, "gt") THEN a > b
    ELSE IF Contains(modifiers, "gte") THEN a >= b
    ELSE IF Contains(modifiers, "lt") THEN a < b
    ELSE a <= b

\* The value as an f64; none for a Boolean, nor for a string that spells no number.
SigmaNumber(v) ==
    IF v.kind = "bool" THEN {}
    ELSE IF v.kind = "int" THEN {F64(10 * n) : n \in ParseI64(v.text)}
    ELSE ParseF64(v.text)

ComparesFloats(v, raw, modifiers) ==
    \E a \in ParseF64(raw), b \in SigmaNumber(v) : Compares(modifiers, a, b)

\* try_numeric_comparison: {} when it leaves the value to the other comparisons.
try_numeric_comparison(v, raw, modifiers) ==
    IF ToSet(modifiers) \intersect Comparisons = {} THEN {}
    ELSE IF v.kind = "int" /\ ParseI64(Trim(raw)) # {}
    THEN {Compares(modifiers, a, b) : a \in ParseI64(Trim(raw)), b \in ParseI64(v.text)}
    ELSE IF v.kind = "string" /\ ParseF64(v.text) = {} THEN {}
    ELSE {ComparesFloats(v, raw, modifiers)}

-----------------------------------------------------------------------------
(* CIDR.  An address is its version and its bits as a number; Width gives   *)
(* the number of bits.                                                      *)

CONSTANT Width       \* of the versions 4 and 6

ASSUME WidthAssumption == Width \in [{4, 6} -> Nat \ {0}] /\ Exact \in Nat

\* 2 ^ n
Pow2[n \in Nat] == IF n = 0 THEN 1 ELSE 2 * Pow2[n - 1]

\* Shifting by the whole width leaves the number as it is.
Shl(x, n, w) == (x * Pow2[n % w]) % Pow2[w]

\* Mutant of SameNetwork: a prefix of no bits has no case of its own.
SameNetwork_NoZero(net, target, prefix_len) ==
    LET w    == Width[net.version]
        mask == Shl(Pow2[w] - 1, w - prefix_len, w)
        And(x) == x - (x % (Pow2[w] - mask))
    IN And(net.bits) = And(target.bits)

\* The mask is a run of ones followed by zeros: x & mask drops what the zeros cover.
SameNetwork(net, target, prefix_len) ==
    LET w    == Width[net.version]
        mask == Shl(Pow2[w] - 1, w - prefix_len, w)
        And(x) == x - (x % (Pow2[w] - mask))
    IN prefix_len = 0 \/ And(net.bits) = And(target.bits)

\* The places of the slashes say whether the text has two parts.
cidr_matches(cidr, ip) ==
    \E slash \in DOMAIN cidr :
        /\ {i \in DOMAIN cidr : cidr[i] = "/"} = {slash}
        /\ \E net \in ParseIp(SubSeq(cidr, 1, slash - 1)),
              prefix_len \in ParseI64(SubSeq(cidr, slash + 1, Len(cidr))),
              target \in ParseIp(Trim(ip)) :
            /\ net.version = target.version
            /\ prefix_len \in 0..Width[net.version]
            /\ SameNetwork(net, target, prefix_len)

-----------------------------------------------------------------------------
\* One value against one field value, the comparisons in the order they are tried.
value_matches(v, sigma_lower, p, raw, modifiers) ==
    LET number == try_numeric_comparison(v, raw, modifiers) IN
    IF v.kind = "null" THEN raw = <<>>
    ELSE IF number # {} THEN number = {TRUE}
    ELSE IF Contains(modifiers, "cidr") THEN cidr_matches(v.text, raw)
    ELSE IF Contains(modifiers, "re") THEN RegexMatches(v.text, raw)
    ELSE TextMatches(v, sigma_lower, p, Fold(raw), modifiers)
-----------------------------------------------------------------------------
(* One condition against one event.  A view is the event as enriched, with  *)
(* the key that comes first among those of one folded name.                 *)

\* The fields a condition looks at: those of its name, or all for a keyword.
KeysOf(folded, view) == {key \in DOMAIN view.cells : folded = <<>> \/ Fold(key) = folded}

condition_field_folded(cond) ==
    IF cond.field_folded = <<>> THEN Fold(cond.field) ELSE cond.field_folded

HasField(folded, view) == folded \in DOMAIN view.first

First(folded, view) == view.cells[view.first[folded]]

\* handle_exists_on_view: the first value says what is expected.
ExpectsField(values) ==
    values = <<>> \/
    LET v == values[1] IN
    CASE v.kind = "string" -> v.text \notin {<<"f", "a", "l", "s", "e">>, <<"0">>}
      [] v.kind = "bool"   -> v.text = <<"t", "r", "u", "e">>
      [] v.kind = "int"    -> ParseI64(v.text) # {0}
      [] OTHER             -> TRUE

handle_exists(cond, view) ==
    HasField(condition_field_folded(cond), view) = ExpectsField(cond.values)

\* Any value that passes, or all of them.
Quantified(cond, indices, passing) ==
    IF Has(cond, "all") THEN indices \subseteq passing ELSE passing # {}

\* handle_fieldref_on_view: the values name fields, whose text is data, no pattern.
handle_fieldref(cond, view) ==
    LET subject == condition_field_folded(cond)
        Passes(i) ==
            LET name == Fold(cond.values[i].text) IN
            /\ HasField(name, view)
            /\ LET other == Fold(First(name, view))
                   text  == Fold(First(subject, view))
               IN \E from \in 0..(Len(text) - Len(other)) :
                    /\ SubSeq(text, from + 1, from + Len(other)) = other
                    /\ Mode(cond.modifiers) \in {"exact", "startswith"} => from = 0
                    /\ Mode(cond.modifiers) \in {"exact", "endswith"} =>
                            from = Len(text) - Len(other)
        passing == {i \in DOMAIN cond.values : Passes(i)}
    IN HasField(subject, view) /\ Quantified(cond, DOMAIN cond.values, passing)

\* match_field_condition_on_view: folds and caches are found by the value's place.
match_field_condition(cond, view) ==
    LET values == apply_transforms(cond.values, cond.modifiers)
        precomputed == ~HasTransform(cond) /\ Len(values) = Len(cond.values_folded)
        SigmaLower(i) == IF precomputed THEN cond.values_folded[i] ELSE Fold(values[i].text)
        Pattern(i) ==
            IF i \in DOMAIN cond.values_match_cache /\ cond.values_match_cache[i] # {}
            THEN CHOOSE p \in cond.values_match_cache[i] : TRUE
            ELSE SigmaLower(i)
        Matched(key) ==
            LET Passes(i) == value_matches(values[i], SigmaLower(i), Pattern(i),
                                           view.cells[key], cond.modifiers)
            IN Quantified(cond, DOMAIN values, {i \in DOMAIN values : Passes(i)})
    IN IF Has(cond, "exists") THEN handle_exists(cond, view)
       ELSE IF Has(cond, "fieldref") THEN handle_fieldref(cond, view)
       ELSE \E key \in KeysOf(condition_field_folded(cond), view) : Matched(key)

\* match_field_condition_with_cache_on_view: folds and caches are found by looking
\* the value up among the rule's, and a regex is tried before anything else.
match_field_condition_with_cache(cond, view) ==
    LET values == apply_transforms(cond.values, cond.modifiers)
        precomputed == ~HasTransform(cond) /\ Len(values) = Len(cond.values_folded)
        Places(i) == {j \in DOMAIN cond.values : cond.values[j] = values[i]}
        SigmaLower(i) ==
            IF precomputed /\ Places(i) # {} THEN cond.values_folded[Min(Places(i))]
            ELSE Fold(values[i].text)
        Pattern(i) ==
            IF \E j \in Places(i) : j \in DOMAIN cond.values_match_cache
                                        /\ cond.values_match_cache[j] # {}
            THEN CHOOSE p \in cond.values_match_cache[Min(Places(i))] : TRUE
            ELSE SigmaLower(i)
        Matched(key) ==
            LET raw == view.cells[key]
                Passes(i) ==
                    IF Has(cond, "re") THEN RegexMatches(values[i].text, raw)
                    ELSE value_matches(values[i], SigmaLower(i), Pattern(i), raw,
                                       cond.modifiers)
            IN Quantified(cond, DOMAIN values, {i \in DOMAIN values : Passes(i)})
    IN IF Has(cond, "exists") THEN handle_exists(cond, view)
       ELSE IF Has(cond, "fieldref") THEN handle_fieldref(cond, view)
       ELSE \E key \in KeysOf(condition_field_folded(cond), view) : Matched(key)

\* Groups are ORed, the conditions of a group ANDed.
match_identifier(ident, view) ==
    \E g \in DOMAIN ident.groups : \A c \in DOMAIN ident.groups[g] :
        match_field_condition(ident.groups[g][c], view)

match_identifier_with_cache(ident, view) ==
    \E g \in DOMAIN ident.groups : \A c \in DOMAIN ident.groups[g] :
        match_field_condition_with_cache(ident.groups[g][c], view)

finalize_identifiers(ident) ==
    [ident EXCEPT !.groups =
        [g \in DOMAIN ident.groups |->
            [c \in DOMAIN ident.groups[g] |-> Finalized(ident.groups[g][c])]]]
=============================================================================
