------------------------------ MODULE MCRunner ------------------------------
(* Documents in which limits, collisions, arrays and nesting meet, and files  *)
(* of a few lines.                                                            *)
EXTENDS RunnerSpec

MCSegments   == {"a", "b", "0", "1", "2"}
MCIndexNames == <<"0", "1", "2">>
MCNewline    == "\n"
MCAtoms      == {"x", "y", MCNewline}

Scalar(text)   == [kind |-> "scalar", text |-> text]
Array(items)   == [kind |-> "array", items |-> items]
Object(members) == [kind |-> "object",
                    members |-> [i \in DOMAIN members |->
                                    [key |-> members[i][1], value |-> members[i][2]]]]

X    == Scalar(<<"x">>)
Y    == Scalar(<<"y">>)
Null == Scalar(<< >>)

Level1 == {Null, X, Y, Array(<< >>), Object(<< >>)}
Level2 == {Array(<<X>>), Array(<<X, Y>>), Array(<<Y, Null, X>>), Array(<<Array(<< >>)>>),
           Object(<< <<<<"0">>, Y>> >>), Object(<< <<<<"b">>, X>> >>)}
Level3 == {Array(<<X, Object(<< <<<<"b">>, X>> >>)>>), Array(<<Array(<<X, Y>>), Y>>),
           Object(<< <<<<"b">>, Array(<<X, Y>>)>>, <<<<"b", "a">>, X>> >>),
           Object(<< <<<<"b">>, Object(<< <<<<"b">>, X>> >>)>> >>)}

Nested == Level1 \union Level2 \union Level3

\* The keys "a", "a.0" and "a.b", in this order.
Docs ==
    {Object(<< <<<<"a">>, v>> >> \o rest) :
        v \in Nested,
        rest \in { << >>, << <<<<"a", "0">>, X>> >>, << <<<<"a", "b">>, Y>> >>,
                   << <<<<"a", "0">>, X>>, <<<<"a", "b">>, Y>> >> }}

MoreDocs ==
    {X, Array(<<X>>), Object(<< >>), Object(<< <<<<"a">>, X>>, <<<<"b">>, X>> >>),
     Object(<< <<<<"a">>, Array(<<Array(<<X, Y>>), Y>>)>> >>)}

MCValues == Nested \union Docs \union MoreDocs

MCMaxLevels == 4

\* Of each value, the number of levels below it.
MCLevels[v \in MCValues] ==
    IF Parts(v) = {} THEN 0 ELSE 1 + Max({MCLevels[w] : w \in Parts(v)})

Of(doc)   == [kind |-> "doc", doc |-> doc]
Only(k)   == [kind |-> k, doc |-> NoDoc]
Hit       == Of(Object(<< <<<<"a">>, X>> >>))
TwoHits   == Of(Object(<< <<<<"a">>, X>>, <<<<"b">>, X>> >>))
Deep      == Of(Object(<< <<<<"a">>, Array(<<Array(<<X, Y>>), Y>>)>> >>))

MCInputs ==
    {<<Of(doc)>> : doc \in Docs \union MoreDocs}
        \union {<<k, TwoHits, Hit, Deep>> :
                    k \in {Only("blank"), Only("long"), Only("bad_json"), Hit}}
        \union {<<Hit, Only("bad_utf8"), Hit>>, <<Only("blank")>>, << >>,
                <<Deep, Only("bad_json"), Of(X), Only("long")>>}

MCLimits == [max_depth : 1..3, max_fields : {1, 2, 3, 6}]

MCConfigs ==
    {[threads |-> t, on_error |-> m, max_error_samples |-> s] :
        t \in {1, 2}, m \in {"continue", "fail-fast"}, s \in {0, 2}}

MCRules == {{<<<<"a">>, <<"x">>>>}, {<<<<"b">>, <<"x">>>>}, {<<<<"a", "b">>, <<"x">>>>},
            {<<<<"a", "0">>, <<"x">>>>, <<<<"a">>, <<"x", "\n", "y">>>>}}
=============================================================================
