------------------------------ MODULE FieldMap ------------------------------
(***************************************************************************)
(* src/fieldmap.rs: the two tables of a FieldMapping, and what they say of *)
(* an event.  `mappings` leads from a folded Sigma name to the             *)
(* application's, `reverse` from a folded application name to the folded   *)
(* Sigma name; the first entry for an application name stays.  Names are   *)
(* sequences of characters.                                                *)
(***************************************************************************)
EXTENDS FieldMatch

EmptyMapping == [mappings |-> << >>, reverse |-> << >>]

\* add_mapping: mappings.insert, and reverse.entry().or_insert.
add_mapping(mapping, sigma, canonical) ==
    [mappings |-> (Fold(sigma) :> canonical) @@ mapping.mappings,
     reverse  |-> mapping.reverse @@ (Fold(canonical) :> Fold(sigma))]

translate(mapping, sigma) ==
    IF Fold(sigma) \in DOMAIN mapping.mappings THEN mapping.mappings[Fold(sigma)] ELSE sigma

\* The Sigma name this key of the event is an application's name for, if any.
SigmaNames(mapping, key) ==
    {mapping.reverse[name] : name \in {Fold(key)} \intersect DOMAIN mapping.reverse}

\* Mutant of Aliases: a field the event has under the Sigma name is aliased too.
Aliases_Always(mapping, event, key) == SigmaNames(mapping, key)

\* The aliases that visiting one key of the event adds.
Aliases(mapping, event, key) == SigmaNames(mapping, key) \ DOMAIN event

\* The aliases are inserted in turn: the last one for a name stays.
enriched(event, aliases) ==
    LET Places(key) == {i \in DOMAIN aliases : aliases[i].name = key}
    IN [key \in DOMAIN event \union {alias.name : alias \in ToSet(aliases)} |->
            IF Places(key) = {} THEN event[key] ELSE aliases[Max(Places(key))].value]

\* EventView::from_map: the keys in any order, so any key of a folded name may be
\* the first of it.
Views(event) ==
    LET folded == {Fold(key) : key \in DOMAIN event} IN
    {[cells |-> event, first |-> first] :
        first \in {f \in [folded -> DOMAIN event] : \A name \in folded : Fold(f[name]) = name}}
=============================================================================
