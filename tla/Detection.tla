----------------------------- MODULE Detection -----------------------------
(***************************************************************************)
(* From the YAML of a detection block to its verdict on an event: the      *)
(* parser of src/parser.rs makes search identifiers of the shapes a rule   *)
(* may be written in, the engine prepares their caches and gives the event *)
(* its Sigma names, and the matcher decides each identifier.  Then a field *)
(* is added to the event and it is decided again.                          *)
(*                                                                         *)
(* A YAML node is a scalar, a list or a map; a map entry has its key split *)
(* at the bars, into the field and the modifiers as they are spelled (in   *)
(* lower case here, the code folds them).                                  *)
(***************************************************************************)
EXTENDS FieldMap

CONSTANTS Nodes,        \* YAML nodes, closed under items and the values of entries
          Cases,        \* sets of mapping entries, detections, events and added
                        \* fields that belong together
          MaxMappings,  \* bound: entries added to the field map
          DebugText     \* what a list or a map prints as in the place of a value

ListNodes     == [items : Seq(Nodes)]
MapNodes  == [entries : Seq([field : Seq(Chars), modifiers : Seq(STRING), value : Nodes])]
Documents == Seq([name : STRING, node : Nodes])

\* What the fields of the events of a case hold, those added too.
EventTexts(c) ==
    (UNION {{e[key] : key \in DOMAIN e} : e \in c.events}) \union {field.value : field \in c.fields}

ASSUME MaxMappingsAssumption == MaxMappings \in Nat
ASSUME NodesAssumption == Nodes \subseteq SigmaValues \union ListNodes \union MapNodes
ASSUME CasesAssumption ==
    \A c \in Cases :
        /\ c.detections \subseteq Documents /\ c.streams \subseteq Seq(Chars)
        /\ EventTexts(c) \subseteq Seq(Chars)
ASSUME DebugTextAssumption == DebugText \in Seq(Chars)

\* How as_str_lossy writes what is no string.
ASSUME ScalarsAssumption ==
    \A v \in Nodes \intersect SigmaValues :
        /\ v.kind # "string" => ToSet(v.text) \intersect Escapable = {}
        /\ v.kind = "null" => v.text = <<>>
        /\ v.kind = "int" => ParseI64(v.text) # {}
        /\ v.kind = "bool" => Decimal(v.text) = {}

\* The texts there are, and their parts.
WholeTexts ==
    {v.text : v \in Nodes \intersect SigmaValues} \union {DebugText}
        \union UNION {EventTexts(c) : c \in Cases}

AllTexts ==
    UNION {{SubSeq(t, i, j) : i \in 1..(Len(t) + 1), j \in 0..Len(t)} : t \in WholeTexts}

\* A text spells one number at most, in digits, signs and points; it is no number and no
\* address where it has a slash; and an address is a number of its width.
ASSUME NumbersAssumption ==
    \A t \in AllTexts :
        /\ Decimal(t) \subseteq Int /\ ParseI64(t) \subseteq Int
        /\ \A n \in ParseI64(t) : ParseI64(t) = {n} /\ Decimal(t) = {10 * n}
        /\ "/" \in ToSet(t) => ParseI64(t) = {} /\ ParseIp(t) = {}
        /\ \A a \in ParseIp(t) :
                a.version \in DOMAIN Width /\ a.bits \in 0..(Pow2[Width[a.version]] - 1)

VARIABLES case,           \* the case at hand
          phase,          \* "map", "enrich", "evaluate", "done" or "rejected"
          mapping,        \* FieldMapping
          detection,      \* the YAML: its named nodes
          identifiers,    \* what parse_detection made of it
          event,          \* the fields of the event
          visited,        \* keys enrich_event_cow has looked at
          aliases,        \* the aliases it has collected
          view,           \* EventView of the enriched event
          matches,        \* per identifier, the three answers of the matcher
          before          \* {}, or the fields and the answers of the event before a
                          \* field was added

vars == <<case, phase, mapping, detection, identifiers, event, visited, aliases,
          view, matches, before>>

-----------------------------------------------------------------------------
(* The parser.                                                              *)

ModifierNames ==
    {"contains", "endswith", "startswith", "re", "cidr", "all", "base64", "base64offset",
     "wide", "windash", "gt", "gte", "lt", "lte", "exists", "fieldref", "i", "m", "s"}

\* Flags of a regex make sense after `re` only.
ModifiersOk(modifiers) ==
    /\ ToSet(modifiers) \subseteq ModifierNames
    /\ \A i \in DOMAIN modifiers :
            modifiers[i] \in {"i", "m", "s"} => \E j \in 1..(i - 1) : modifiers[j] = "re"

IsMap(node)  == "entries" \in DOMAIN node
IsList(node) == "items" \in DOMAIN node

\* SigmaValue::from_yaml.
from_yaml(node) == IF IsMap(node) \/ IsList(node) THEN Str(DebugText) ELSE node

FieldCondition(field, folded, values, modifiers) ==
    [field |-> field, field_folded |-> folded, values |-> values, values_folded |-> << >>,
     values_match_cache |-> << >>, modifiers |-> modifiers]

Values(nodes) == [i \in DOMAIN nodes |-> from_yaml(nodes[i])]

parse_field_values(node) == IF IsList(node) THEN Values(node.items) ELSE <<from_yaml(node)>>

EntryCondition(entry) ==
    FieldCondition(entry.field, Fold(entry.field), parse_field_values(entry.value),
                   entry.modifiers)

parse_field_map(node) == [i \in DOMAIN node.entries |-> EntryCondition(node.entries[i])]

\* Values without a field are looked for in every field.
Keywords(values) == << <<FieldCondition(<<>>, <<>>, values, <<"contains">>)>> >>

AllMaps(nodes) == \A i \in DOMAIN nodes : IsMap(nodes[i])

parse_search_identifier(name, node) ==
    [name |-> name,
     groups |-> IF IsMap(node) THEN <<parse_field_map(node)>>
                ELSE IF ~IsList(node) THEN Keywords(<<from_yaml(node)>>)
                ELSE IF AllMaps(node.items)
                THEN [i \in DOMAIN node.items |-> parse_field_map(node.items[i])]
                ELSE Keywords(Values(node.items))]

MapOk(node) == \A i \in DOMAIN node.entries : ModifiersOk(node.entries[i].modifiers)

NodeOk(node) ==
    /\ IsMap(node) => MapOk(node)
    /\ IsList(node) =>
        /\ node.items # <<>>
        /\ AllMaps(node.items) => \A i \in DOMAIN node.items : MapOk(node.items[i])

\* The identifiers of a detection; "condition" is not one.
Named(nodes) ==
    LET upTo[i \in 0..Len(nodes)] ==
            IF i = 0 THEN <<>>
            ELSE IF nodes[i].name = "condition" THEN upTo[i - 1]
            ELSE Append(upTo[i - 1], nodes[i])
    IN upTo[Len(nodes)]

DetectionOk(nodes) ==
    /\ Named(nodes) # <<>>
    /\ \A i \in DOMAIN Named(nodes) : NodeOk(Named(nodes)[i].node)

parse_detection(nodes) ==
    [i \in DOMAIN Named(nodes) |->
        parse_search_identifier(Named(nodes)[i].name, Named(nodes)[i].node)]

-----------------------------------------------------------------------------
Init ==
    /\ case \in Cases
    /\ phase = "map"
    /\ mapping = EmptyMapping
    /\ detection \in case.detections
    /\ identifiers = << >>
    /\ event \in case.events
    /\ visited = {} /\ aliases = << >>
    /\ view \in Views(<< >>)
    /\ matches = << >>
    /\ before = {}

AddMapping ==
    /\ phase = "map"
    /\ Cardinality(DOMAIN mapping.mappings) < MaxMappings
    /\ \E pair \in case.pairs : mapping' = add_mapping(mapping, pair[1], pair[2])
    /\ UNCHANGED <<case, phase, detection, identifiers, event, visited, aliases, view,
                   matches, before>>

\* parse_rule takes the detection; its caches are prepared where it is evaluated.
LoadRule ==
    /\ phase = "map"
    /\ DetectionOk(detection)
    /\ identifiers' = parse_detection(detection)
    /\ phase' = "enrich"
    /\ UNCHANGED <<case, mapping, detection, event, visited, aliases, view, matches, before>>

RejectRule ==
    /\ phase = "map"
    /\ ~DetectionOk(detection)
    /\ phase' = "rejected"
    /\ UNCHANGED <<case, mapping, detection, identifiers, event, visited, aliases, view,
                   matches, before>>

\* enrich_event_cow looks at the keys in the order of a hash map.
VisitKey ==
    /\ phase = "enrich"
    /\ \E key \in DOMAIN event \ visited :
        /\ visited' = visited \union {key}
        /\ aliases' =
            aliases \o SetToSeq({[name |-> name, value |-> event[key]] :
                                    name \in Aliases(mapping, event, key)})
    /\ UNCHANGED <<case, phase, mapping, detection, identifiers, event, view, matches, before>>

BuildView ==
    /\ phase = "enrich" /\ visited = DOMAIN event
    /\ view' \in Views(enriched(event, aliases))
    /\ phase' = "evaluate"
    /\ UNCHANGED <<case, mapping, detection, identifiers, event, visited, aliases,
                   matches, before>>

\* The identifier as a caller of the library builds it, as the engine prepares it,
\* and as the engine treats it in a rule that has a regex.
Evaluate ==
    /\ phase = "evaluate"
    /\ matches' =
        [i \in DOMAIN identifiers |->
            [plain  |-> match_identifier(identifiers[i], view),
             loaded |-> match_identifier(finalize_identifiers(identifiers[i]), view),
             cached |-> match_identifier_with_cache(finalize_identifiers(identifiers[i]), view)]]
    /\ phase' = "done"
    /\ UNCHANGED <<case, mapping, detection, identifiers, event, visited, aliases, view, before>>

\* The same event again, with one more field.
AddField ==
    /\ phase = "done" /\ before = {}
    /\ \E field \in case.fields :
        /\ field.key \notin DOMAIN event
        /\ event' = [key \in DOMAIN event \union {field.key} |->
                        IF key = field.key THEN field.value ELSE event[key]]
    /\ before' = {[event |-> event, matches |-> matches]}
    /\ phase' = "enrich"
    /\ visited' = {} /\ aliases' = << >>
    /\ UNCHANGED <<case, mapping, detection, identifiers, view, matches>>

Finished == phase \in {"done", "rejected"} /\ UNCHANGED vars

Next ==
    \/ AddMapping \/ LoadRule \/ RejectRule \/ VisitKey \/ BuildView \/ Evaluate
    \/ AddField \/ Finished

Spec == Init /\ [][Next]_vars
=============================================================================
