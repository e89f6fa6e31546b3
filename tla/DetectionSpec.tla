--------------------------- MODULE DetectionSpec ---------------------------
(***************************************************************************)
(* What the README and the Sigma specification say a detection means, read *)
(* off the YAML with no parser, no caches and no masks; and the properties *)
(* of module Detection.                                                    *)
(***************************************************************************)
EXTENDS Detection

Occurs(part, whole) ==
    \E from \in 0..(Len(whole) - Len(part)) : SubSeq(whole, from + 1, from + Len(part)) = part

\* A pattern matches a text as written, or with any text before or after it.
MeansPattern(p, mode, t) ==
    \E from, to \in 0..Len(t) :
        /\ from <= to
        /\ mode \notin {"contains", "endswith"} => from = 0
        /\ mode \notin {"contains", "startswith"} => to = Len(t)
        /\ Matches(tokenize_pattern(Fold(p)), SubSeq(Fold(t), from + 1, to))

\* The first bits of two addresses of one version agree.
MeansCidr(cidr, ip) ==
    \E i \in DOMAIN cidr :
        /\ cidr[i] = "/"
        /\ \E net \in ParseIp(SubSeq(cidr, 1, i - 1)), target \in ParseIp(Trim(ip)),
              bits \in ParseI64(SubSeq(cidr, i + 1, Len(cidr))) :
            /\ net.version = target.version
            /\ bits \in 0..Width[net.version]
            /\ \A b \in (Width[net.version] - bits)..(Width[net.version] - 1) :
                    (net.bits \div Pow2[b]) % 2 = (target.bits \div Pow2[b]) % 2

\* Numbers compare as numbers.
MeansOrder(op, value, text) ==
    \E a \in Decimal(Trim(text)), b \in Decimal(value) :
        CASE op = "gt" -> a > b [] op = "gte" -> a >= b
          [] op = "lt" -> a < b [] op = "lte" -> a <= b

MeansValue(v, modifiers, text) ==
    IF v.kind = "null" THEN text = <<>>
    ELSE IF \E op \in Comparisons : Contains(modifiers, op)
    THEN \E op \in Comparisons : Contains(modifiers, op) /\ MeansOrder(op, v.text, text)
    ELSE IF Contains(modifiers, "cidr") THEN MeansCidr(v.text, text)
    ELSE IF Contains(modifiers, "re") THEN RegexMatches(v.text, text)
    ELSE MeansPattern(v.text, Mode(modifiers), text)

\* windash: any of the dashes stands for all of them.
Spellings(v, modifiers) ==
    {v} \union (IF Contains(modifiers, "windash")
                THEN {[v EXCEPT !.text = WithDash(v.text, d)] : d \in ToSet(DashVariants)}
                ELSE {})

Cells(field, fields) ==
    {fields[key] : key \in {k \in DOMAIN fields : field = <<>> \/ Fold(k) = Fold(field)}}

\* Presence and references are about a name, were it an empty one.
CellsNamed(name, fields) == {fields[key] : key \in {k \in DOMAIN fields : Fold(k) = Fold(name)}}

MeansField(field, values, modifiers, fields) ==
    \E text \in Cells(field, fields) :
        LET Says(v) == \E w \in Spellings(v, modifiers) : MeansValue(w, modifiers, text) IN
        IF Contains(modifiers, "all")
        THEN \A i \in DOMAIN values : Says(values[i])
        ELSE \E i \in DOMAIN values : Says(values[i])

\* types.rs says of null "field must not exist or be empty": for want of a field, null is all
\* that can be meant.
MeansMissing(field, values, modifiers, fields) ==
    /\ field # <<>> /\ Cells(field, fields) = {}
    /\ \E v \in ToSet(values) : v.kind = "null"
    /\ Contains(modifiers, "all") => \A v \in ToSet(values) : v.kind = "null"

\* Another field of the event in the place of a value.
MeansFieldref(field, values, modifiers, fields) ==
    \E text \in CellsNamed(field, fields) :
        LET Says(v) ==
                \E other \in CellsNamed(v.text, fields) :
                    LET a == Fold(other)  b == Fold(text)
                    IN CASE Mode(modifiers) = "contains"   -> Occurs(a, b)
                         [] Mode(modifiers) = "startswith" -> Len(a) <= Len(b) /\ SubSeq(b, 1, Len(a)) = a
                         [] Mode(modifiers) = "endswith"   -> Len(a) <= Len(b) /\ SubSeq(b, Len(b) - Len(a) + 1, Len(b)) = a
                         [] Mode(modifiers) = "exact"      -> a = b
        IN IF Contains(modifiers, "all")
           THEN \A i \in DOMAIN values : Says(values[i])
           ELSE \E i \in DOMAIN values : Says(values[i])

MeansEntry(entry, fields) ==
    LET values == parse_field_values(entry.value) IN
    IF Contains(entry.modifiers, "exists")
    THEN (CellsNamed(entry.field, fields) # {}) = ExpectsField(values)
    ELSE IF Contains(entry.modifiers, "fieldref")
    THEN MeansFieldref(entry.field, values, entry.modifiers, fields)
    ELSE \/ MeansField(entry.field, values, entry.modifiers, fields)
         \/ MeansMissing(entry.field, values, entry.modifiers, fields)

MeansMap(node, fields) == \A i \in DOMAIN node.entries : MeansEntry(node.entries[i], fields)

\* A map is all of its entries, a list of maps any of them, other values keywords.
MeansNode(node, fields) ==
    \/ IsMap(node) /\ MeansMap(node, fields)
    \/ IsList(node) /\ AllMaps(node.items)
        /\ \E i \in DOMAIN node.items : MeansMap(node.items[i], fields)
    \/ IsList(node) /\ ~AllMaps(node.items)
        /\ MeansField(<<>>, Values(node.items), <<"contains">>, fields)
    \/ ~IsMap(node) /\ ~IsList(node)
        /\ MeansField(<<>>, <<node>>, <<"contains">>, fields)

-----------------------------------------------------------------------------
(* Where the documents say what is meant.                                   *)

\* A comparison with a number that an f64 holds, or with a whole number that is not quoted;
\* MatchesAsDocumented is about those that are.
ExactNumbers(entry, fields) ==
    \A v \in ToSet(parse_field_values(entry.value)), text \in Cells(entry.field, fields) :
        \/ v.kind \in {"int", "null", "bool"} /\ ParseI64(Trim(text)) # {}
        \/ /\ v.kind # "string" \/ Decimal(v.text) # {}
           /\ text = Trim(text)
           /\ \A x \in Decimal(v.text) \union Decimal(text) : Abs(x) <= 10 * Exact

OneSpelling(fields) == \A j, k \in DOMAIN fields : Fold(j) = Fold(k) => j = k

\* Left out are encoded values (OffsetsFindPayload is about them), two comparisons at once,
\* windash for anything but text; and windash with `all`, and a null for a field that is
\* missing, which MatchesAsDocumented is about.
EntryDocumented(entry, fields) ==
    LET modifiers == ToSet(entry.modifiers) IN
    /\ \/ modifiers \intersect {"exists", "fieldref"} # {}
       \/ ~MeansMissing(entry.field, parse_field_values(entry.value), entry.modifiers, fields)
    /\ modifiers \intersect {"base64", "base64offset", "wide"} = {}
    /\ \A a, b \in modifiers \intersect Comparisons : a = b
    /\ modifiers \intersect Comparisons # {} => ExactNumbers(entry, fields)
    /\ "fieldref" \in modifiers => OneSpelling(fields)
    /\ "windash" \in modifiers => modifiers \intersect (Comparisons \union {"cidr", "all"}) = {}

\* Where a list has other things than maps, its maps are keywords like them.
Maps(node) ==
    IF IsMap(node) THEN {node}
    ELSE IF IsList(node) /\ AllMaps(node.items) THEN ToSet(node.items) ELSE {}

Entries(node) == UNION {ToSet(map.entries) : map \in Maps(node)}

Documented(node, fields) == \A entry \in Entries(node) : EntryDocumented(entry, fields)

NodeOf(i) == Named(detection)[i].node

-----------------------------------------------------------------------------
(* Properties.                                                              *)

\* The fields a rule sees: those of the event, and for every Sigma name it lacks the
\* value of a field that goes by a name of the application.
SeenFields ==
    LET Sources(name) == {key \in DOMAIN event : name \in SigmaNames(mapping, key)}
        names == (UNION {SigmaNames(mapping, key) : key \in DOMAIN event}) \ DOMAIN event
    IN {[key \in DOMAIN event \union names |->
            IF key \in names THEN event[source[key]] ELSE event[key]] :
            source \in {f \in [names -> DOMAIN event] : \A n \in names : f[n] \in Sources(n)}}

\* What the parser, the caches, the field map and the matcher make of a detection is
\* what its YAML says, for every shape, modifier and kind of value together.
IdentifierMeansItsYaml ==
    phase = "done" =>
        \E fields \in SeenFields :
            \A i \in DOMAIN matches :
                Documented(NodeOf(i), fields) =>
                    (matches[i].loaded <=> MeansNode(NodeOf(i), fields))

\* Where the documents say it outright: windash on texts, with `all` or not; nothing but
\* nulls; one comparison of integers, quoted in the rule or not.
SpeaksOfDashes(entry, fields) ==
    /\ Contains(entry.modifiers, "windash")
    /\ ToSet(entry.modifiers) \subseteq {"windash", "contains", "startswith", "endswith", "all"}

SpeaksOfNulls(entry, fields) ==
    /\ entry.modifiers = <<>>
    /\ \A v \in ToSet(parse_field_values(entry.value)) : v.kind = "null"

ComparesIntegers(entry, fields) ==
    /\ \E op \in Comparisons : entry.modifiers = <<op>>
    /\ \A v \in ToSet(parse_field_values(entry.value)) : ParseI64(v.text) # {}
    /\ \A text \in Cells(entry.field, fields) : ParseI64(text) # {}

SpokenOf(node, fields) ==
    \/ \A entry \in Entries(node) : SpeaksOfDashes(entry, fields)
    \/ \A entry \in Entries(node) : SpeaksOfNulls(entry, fields)
    \/ \A entry \in Entries(node) : ComparesIntegers(entry, fields)

\* What is said of them holds.  README on windash: "a rule written with any variant matches
\* all of them", each value in any of its spellings; types.rs on null: "field must not exist
\* or be empty", and value_matches: "Null matches empty/missing fields only"; README:
\* "Numeric comparisons use i64 integer arithmetic when both sides parse as integers".
MatchesAsDocumented ==
    phase = "done" =>
        \E fields \in SeenFields :
            \A i \in DOMAIN matches :
                Entries(NodeOf(i)) # {} /\ SpokenOf(NodeOf(i), fields) =>
                    (matches[i].loaded <=> MeansNode(NodeOf(i), fields))

\* The documented twins agree (matcher.rs: "Identical semantics to match_identifier"):
\* an identifier built by hand, one prepared by the engine, and one in a rule that has
\* a regex.  Left out is `re` next to a null, a number or a network, where the twin for
\* regexes takes the value for a pattern.
PathsAgree ==
    phase = "done" =>
        \A i \in DOMAIN matches :
            (\A entry \in Entries(NodeOf(i)) :
                Contains(entry.modifiers, "re") =>
                    /\ ToSet(entry.modifiers) \intersect (Comparisons \union {"cidr"}) = {}
                    /\ \A v \in ToSet(parse_field_values(entry.value)) : v.kind # "null")
            => /\ matches[i].plain <=> matches[i].loaded
               /\ matches[i].loaded <=> matches[i].cached

\* The field that was added has nothing to do with a name the event has already, nor
\* with one that stands for another there.
Unrelated(old) ==
    \A new \in DOMAIN event \ DOMAIN old : \A key \in DOMAIN old :
        /\ new \notin SigmaNames(mapping, key)
        /\ SigmaNames(mapping, new) \intersect SigmaNames(mapping, key) = {}

\* Every Sigma name is supplied by one field at most.
OneSource(old) ==
    \A j, k \in DOMAIN old :
        SigmaNames(mapping, j) \intersect SigmaNames(mapping, k) # {} => j = k

\* README "Monotonicity": extra fields never suppress a match, unless the identifier
\* asks for the absence of a field or compares with one.
ExtraFieldsKeepMatches ==
    phase = "done" =>
        \A old \in before :
            Unrelated(old.event) /\ OneSource(old.event) =>
                \A i \in DOMAIN matches :
                    (\A entry \in Entries(NodeOf(i)) :
                        ToSet(entry.modifiers) \intersect {"exists", "fieldref"} = {})
                    => (old.matches[i].loaded => matches[i].loaded)

\* README "base64offset": a payload of at least two bytes is found in the encoding of
\* any stream that holds it, wherever it starts and whatever follows.
OffsetsFindPayload ==
    phase = "done" =>
        \A i \in DOMAIN matches : \A entry \in Entries(NodeOf(i)) :
            LET payload == parse_field_values(entry.value)[1].text IN
            (/\ entry.modifiers = <<"base64offset", "contains">>
             /\ parse_field_values(entry.value) # <<>>
             /\ Entries(NodeOf(i)) = {entry}
             /\ Len(Bytes(payload)) >= 2
             /\ \E stream \in case.streams :
                    /\ Occurs(payload, stream)
                    /\ base64_encode(stream) \in Cells(entry.field, event))
            => matches[i].loaded
=============================================================================
