---------------------------- MODULE FlattenSpec ----------------------------
(***************************************************************************)
(* What src/json.rs promises of flattening, without limits, stack or map:  *)
(* the list of everything a document writes, in document order, and how    *)
(* deep it nests.                                                          *)
(***************************************************************************)
EXTENDS Flatten, FiniteSetsExt

CONSTANTS Levels,    \* the number of levels inside each value
          MaxLevels  \* the most that serde_json accepts, its recursion limit

\* The values directly inside a value.
Parts(v) ==
    CASE v.kind = "scalar" -> {}
      [] v.kind = "object" -> {v.members[i].value : i \in DOMAIN v.members}
      [] v.kind = "array"  -> {v.items[i] : i \in DOMAIN v.items}

\* A document is a tree, and finite.
ASSUME LevelsAssumption ==
    /\ MaxLevels \in Nat
    /\ Levels \in [Values -> 0..MaxLevels]
    /\ \A v \in Values : \A w \in Parts(v) : Levels[w] < Levels[v]

\* An array that is written as one text, without its elements.
OneText(v) ==
    /\ v.kind = "array"
    /\ Len(v.items) = 0 \/ (Len(v.items) = 1 /\ IsScalar(v.items[1]))

\* All the <<path, text>> that a value under a path stands for.
WrittenBy[v \in Values \union Scalars] ==
    [path \in Path |->
        IF v.kind = "scalar" THEN << <<path, v.text>> >>
        ELSE IF v.kind = "object"
             THEN FlattenSeq([i \in 1..Len(v.members) |->
                                WrittenBy[v.members[i].value][path \o v.members[i].key]])
        ELSE IF OneText(v)
             THEN << <<path, IF v.items = << >> THEN << >> ELSE v.items[1].text>> >>
        ELSE FlattenSeq([i \in 1..Len(v.items) |->
                            WrittenBy[v.items[i]][path \o <<IndexNames[i]>>]])
             \o LET texts == ScalarTexts(v.items)
                IN IF texts = << >> THEN << >> ELSE << <<path, Joined(texts)>> >>]

\* The depths, counted from the value, at which there is something to flatten.
DepthsIn[v \in Values \union Scalars] ==
    {0} \union IF OneText(v) THEN {}
               ELSE {d + 1 : d \in UNION {DepthsIn[w] : w \in Parts(v)}}

PathsOf(writes) == {writes[i][1] : i \in DOMAIN writes}

\* The first write of every path.
FirstWrites(writes) ==
    LET first(p) == Min({i \in DOMAIN writes : writes[i][1] = p})
    IN [p \in PathsOf(writes) |-> writes[first(p)][2]]

Writes(doc) == WrittenBy[doc][<< >>]

\* The event a document stands for.
DeclaredEvent(doc) == FirstWrites(Writes(doc))

TooNested(doc, limits) == \E d \in DepthsIn[doc] : d > limits.max_depth

\* More than max_fields fields (json.rs: "Maximum number of flattened output fields").
TooMany(doc, limits) == Cardinality(PathsOf(Writes(doc))) > limits.max_fields

\* As many fields as there may be, and one of them is written again after the last is in.
FullAgain(doc, limits) ==
    LET writes == Writes(doc)
    IN /\ writes # << >>
       /\ Cardinality(PathsOf(writes)) = limits.max_fields
       /\ PathsOf(Front(writes)) = PathsOf(writes)

\* The fields do not fit.  By the documents that is when there are too many of them; again
\* says whether a field that is there may need room once more, as it does in insert_field.
NoRoom(doc, limits, again) == TooMany(doc, limits) \/ (again /\ FullAgain(doc, limits))

\* What flatten_value_with may answer for a document: with both limits passed, the
\* one it meets first.
Answers(doc, limits, again) ==
    IF doc.kind # "object" THEN {"not_object"}
    ELSE (IF TooNested(doc, limits) THEN {"depth"} ELSE {})
            \union (IF NoRoom(doc, limits, again) THEN {"fields"} ELSE {})
            \union (IF TooNested(doc, limits) \/ NoRoom(doc, limits, again) THEN {} ELSE {"ok"})
=============================================================================
