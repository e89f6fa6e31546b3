------------------------------ MODULE Flatten ------------------------------
(***************************************************************************)
(* flatten_value_with of src/json.rs: a JSON document becomes a flat event, *)
(* a function from dotted paths to text.  The recursion of flatten_into is  *)
(* an explicit stack, `todo`: the calls that are still to be made, in the   *)
(* order the code makes them.                                               *)
(*                                                                          *)
(* A key is the sequence of its parts between dots, so that the literal key *)
(* "a.b" and the key "b" inside "a" give one path, as in the code.  A text  *)
(* is a sequence of atoms.  null is a scalar with the empty text.  The      *)
(* members of an object are listed in the order of serde_json's sorted map. *)
(***************************************************************************)
EXTENDS Naturals, Sequences, FiniteSets, SequencesExt

CONSTANTS Segments,   \* parts of keys, among them
          IndexNames, \* "0", "1", ...: the names of the elements of an array
          Atoms,      \* what texts are made of, among them
          Newline,    \* what joins the scalars of an array
          Values,     \* JSON values, closed under members and items
          Limits      \* the FlattenOptions to consider

Text    == Seq(Atoms)
Path    == Seq(Segments)
Scalars == [kind : {"scalar"}, text : Text]
Objects == [kind : {"object"}, members : Seq([key : Path, value : Values])]
Arrays  == [kind : {"array"}, items : Seq(Values)]

ASSUME NamesAssumption == IndexNames \in Seq(Segments) /\ Newline \in Atoms
ASSUME ValuesAssumption == Values \subseteq Scalars \union Objects \union Arrays
ASSUME IndexAssumption ==
    \A v \in Values : v.kind = "array" => Len(v.items) <= Len(IndexNames)
ASSUME LimitsAssumption == Limits \subseteq [max_depth : Nat, max_fields : Nat]

VARIABLES options,   \* FlattenOptions
          todo,      \* calls of flatten_into, or of insert_field, still to be made
          event,     \* the HashMap being filled
          flat       \* "idle", "running", "ok", or the FlattenError

flattening == <<options, todo, event, flat>>

NoFields == [p \in {} |-> << >>]

Calls == [path : Path, value : Values \union Scalars, depth : Nat]

FlattenInit ==
    /\ options \in Limits
    /\ todo = << >>
    /\ event = NoFields
    /\ flat = "idle"

Reject(error) ==
    /\ flat' = error
    /\ todo' = << >>
    /\ UNCHANGED <<options, event>>

\* The members of an object become calls of flatten_into.
MemberCalls(path, members, depth) ==
    [i \in 1..Len(members) |->
        [path |-> path \o members[i].key, value |-> members[i].value, depth |-> depth]]

\* flatten_value_with is called with a document.
Begin(doc) ==
    /\ flat # "running"
    /\ event' = NoFields
    /\ UNCHANGED options
    /\ IF doc.kind = "object"
       THEN todo' = MemberCalls(<< >>, doc.members, 1) /\ flat' = "running"
       ELSE todo' = << >> /\ flat' = "not_object"

\* Mutant of Insert: the later of two writes of one path wins.
Insert_LastWins(path, text) ==
    IF Cardinality(DOMAIN event) >= options.max_fields THEN Reject("fields")
    ELSE /\ event' = [p \in DOMAIN event \union {path} |->
                        IF p = path THEN text ELSE event[p]]
         /\ todo' = Tail(todo)
         /\ UNCHANGED <<options, flat>>

\* Mutant of Insert: one field too many.
Insert_OffByOne(path, text) ==
    IF Cardinality(DOMAIN event) > options.max_fields THEN Reject("fields")
    ELSE /\ event' = [p \in DOMAIN event \union {path} |->
                        IF p \in DOMAIN event THEN event[p] ELSE text]
         /\ todo' = Tail(todo)
         /\ UNCHANGED <<options, flat>>

\* insert_field: the count is checked before the collision, the first write wins.
Insert(path, text) ==
    IF Cardinality(DOMAIN event) >= options.max_fields THEN Reject("fields")
    ELSE /\ event' = [p \in DOMAIN event \union {path} |->
                        IF p \in DOMAIN event THEN event[p] ELSE text]
         /\ todo' = Tail(todo)
         /\ UNCHANGED <<options, flat>>

\* The calls replace the one that makes them.
Descend(calls) ==
    /\ todo' = calls \o Tail(todo)
    /\ UNCHANGED <<options, event, flat>>

IsScalar(v) == v.kind = "scalar"

\* The scalars among the items, as texts.
ScalarTexts(items) ==
    LET texts[i \in 0..Len(items)] ==
            IF i = 0 THEN << >>
            ELSE IF IsScalar(items[i]) THEN Append(texts[i - 1], items[i].text)
            ELSE texts[i - 1]
    IN texts[Len(items)]

\* join("\n").
Joined(texts) ==
    Tail(FlattenSeq([i \in 1..Len(texts) |-> <<Newline>> \o texts[i]]))

\* The elements under their indices, then the scalars among them, joined, under the
\* path of the array itself.  The last is an insert_field with no call of its own;
\* here it is the call for a scalar at the depth of the array, which inserts it.
ElementCalls(call) ==
    LET items == call.value.items
        texts == ScalarTexts(items)
    IN [i \in 1..Len(items) |->
            [path |-> call.path \o <<IndexNames[i]>>, value |-> items[i],
             depth |-> call.depth + 1]]
       \o IF texts = << >> THEN << >>
          ELSE << [path |-> call.path, depth |-> call.depth,
                   value |-> [kind |-> "scalar", text |-> Joined(texts)]] >>

CallTooDeep(call) == call.depth > options.max_depth

TooDeep ==
    /\ flat = "running" /\ todo # << >>
    /\ CallTooDeep(Head(todo))
    /\ Reject("depth")

VisitObject ==
    /\ flat = "running" /\ todo # << >>
    /\ ~CallTooDeep(Head(todo))
    /\ LET call == Head(todo) IN
       /\ call.value.kind = "object"
       /\ Descend(MemberCalls(call.path, call.value.members, call.depth + 1))

\* An empty array is an empty text; one scalar stands for itself.
VisitArray ==
    /\ flat = "running" /\ todo # << >>
    /\ ~CallTooDeep(Head(todo))
    /\ LET call == Head(todo)
           items == call.value.items
       IN /\ call.value.kind = "array"
          /\ IF items = << >> THEN Insert(call.path, << >>)
             ELSE IF Len(items) = 1 /\ IsScalar(items[1])
                  THEN Insert(call.path, items[1].text)
             ELSE Descend(ElementCalls(call))

VisitScalar ==
    /\ flat = "running" /\ todo # << >>
    /\ ~CallTooDeep(Head(todo))
    /\ LET call == Head(todo) IN
       /\ call.value.kind = "scalar"
       /\ Insert(call.path, call.value.text)

FlattenReturns ==
    /\ flat = "running" /\ todo = << >>
    /\ flat' = "ok"
    /\ UNCHANGED <<options, todo, event>>

FlattenStep == TooDeep \/ VisitObject \/ VisitArray \/ VisitScalar \/ FlattenReturns

-----------------------------------------------------------------------------
FlattenTypeOK ==
    /\ options \in Limits
    /\ todo \in Seq(Calls)
    /\ DOMAIN event \subseteq Path
    /\ \A p \in DOMAIN event : event[p] \in Text
    /\ flat \in {"idle", "running", "ok", "not_object", "depth", "fields"}

\* What an untrusted document can make flatten_value_with use is bounded, whatever
\* its shape (src/json.rs, flatten_into: "the recursion depth is bounded by
\* options.max_depth regardless of input shape"): at no moment more than max_fields
\* fields, and no call that is made, or refused, is deeper than max_depth + 1.
WithinLimits ==
    /\ Cardinality(DOMAIN event) <= options.max_fields
    /\ \A i \in DOMAIN todo : todo[i].depth <= options.max_depth + 1
=============================================================================
