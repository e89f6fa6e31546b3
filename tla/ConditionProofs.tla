--------------------------- MODULE ConditionProofs --------------------------
(***************************************************************************)
(* Theorems about the condition language, for every condition and rule:    *)
(* the recursive-descent parser accepts what the grammar gives a meaning   *)
(* and builds a node with that meaning, the two evaluators say the same    *)
(* of it, and its references resolve.                                      *)
(*                                                                         *)
(* Recursive functions come with no equations: what each computes is       *)
(* first shown to exist, by induction over a set of numbers (Upwards),     *)
(* and then to unfold.  Parsers and grammar are compared in                *)
(* ParsersCorrect, an induction over how deep brackets and negations       *)
(* nest; ChainCorrect, within it, is one over the rounds of the loops of   *)
(* parse_or and parse_and.                                                 *)
(***************************************************************************)
EXTENDS ConditionGrammar, Integers, TLAPS, SequenceTheorems, FiniteSetTheorems, WellFoundedInduction

-----------------------------------------------------------------------------
(* Numbers.                                                                 *)

(* A set of numbers that holds 0, and with each number below n the next,    *)
(* holds all up to n.                                                       *)
LEMMA Upwards ==
    ASSUME NEW n \in Nat, NEW G, 0 \in G, \A k \in 0..(n - 1) : k \in G => k + 1 \in G
    PROVE  0..n \subseteq G
<1> DEFINE T == {k \in 0..n : k \notin G}
<1>1. SUFFICES ASSUME T # {} PROVE FALSE
  OBVIOUS
<1>2. PICK m \in T : \A k \in T : <<k, m>> \notin OpToRel(<, Nat)
  <2>1. T \subseteq Nat
    OBVIOUS
  <2> HIDE DEF T
  <2> QED  BY <1>1, <2>1, WFMin, NatLessThanWellFounded, Zenon
<1>3. \A k \in T : ~(k < m)
  <2>1. T \subseteq Nat
    OBVIOUS
  <2> HIDE DEF T
  <2> QED  BY <1>2, <2>1, Zenon DEF OpToRel
<1>4. m - 1 \in 0..(n - 1) /\ m - 1 < m /\ m - 1 \notin T /\ (m - 1) + 1 = m
  BY <1>3
<1> QED  BY <1>4

-----------------------------------------------------------------------------
(* Trees.                                                                   *)

\* What Trees computes, depth by depth.
Layered(leaves, f, d) == f = [k \in 0..d |-> IF k = 0 THEN leaves ELSE Combined(f[k - 1])]
Layers(leaves, d) == CHOOSE f : Layered(leaves, f, d)

\* The recursion in Trees has a solution, built up one depth at a time.
LEMMA LayersExist ==
    ASSUME NEW leaves, NEW d \in Nat
    PROVE  Layered(leaves, Layers(leaves, d), d)
<1> DEFINE G == {k \in 0..d : \E f : Layered(leaves, f, k)}
<1>1. 0 \in G
  <2> DEFINE f == [k \in 0..0 |-> leaves]
  <2>1. Layered(leaves, f, 0)
    BY DEF Layered
  <2> HIDE DEF f
  <2> QED  BY <2>1
<1>2. ASSUME NEW k \in 0..(d - 1), k \in G PROVE k + 1 \in G
  <2>1. PICK f : Layered(leaves, f, k)
    BY <1>2
  <2>2. f = [i \in 0..k |-> IF i = 0 THEN leaves ELSE Combined(f[i - 1])]
    BY <2>1 DEF Layered
  <2> DEFINE g == [i \in 0..(k + 1) |-> IF i = k + 1 THEN Combined(f[k]) ELSE f[i]]
             h == [i \in 0..(k + 1) |-> IF i = 0 THEN leaves ELSE Combined(g[i - 1])]
  <2>3. ASSUME NEW i \in 0..(k + 1) PROVE g[i] = h[i]
    <3>1. CASE i = k + 1
      BY <3>1
    <3>2. CASE i # k + 1
      <4>1. i \in 0..k /\ g[i] = f[i]
        BY <3>2
      <4>2. i # 0 => i - 1 \in 0..(k + 1) /\ i - 1 # k + 1 /\ g[i - 1] = f[i - 1]
        BY <3>2
      <4>3. f[i] = IF i = 0 THEN leaves ELSE Combined(f[i - 1])
        BY <2>2, <4>1
      <4> QED  BY <4>1, <4>2, <4>3
    <3> QED  BY <3>1, <3>2
  <2>4. g = h
    BY <2>3
  <2>5. Layered(leaves, g, k + 1)
    BY <2>4 DEF Layered
  <2>6. k + 1 \in 0..d
    OBVIOUS
  <2> HIDE DEF g
  <2> QED  BY <2>5, <2>6
<1>3. d \in G
  <2>1. d \in 0..d
    OBVIOUS
  <2> HIDE DEF G
  <2> QED  BY <1>1, <1>2, <2>1, Upwards
<1> QED  BY <1>3 DEF Layers

\* Trees starts with the leaves and combines what it has.
LEMMA TreesUnfold ==
    ASSUME NEW leaves, NEW d \in Nat
    PROVE  /\ Trees(leaves, 0) = leaves
           /\ Trees(leaves, d + 1) = Combined(Trees(leaves, d))
<1> DEFINE f == Layers(leaves, d)
           g == Layers(leaves, d + 1)
           z == Layers(leaves, 0)
<1>0. Trees(leaves, d) = f[d] /\ Trees(leaves, d + 1) = g[d + 1] /\ Trees(leaves, 0) = z[0]
  BY DEF Trees, Layers, Layered
<1>1. /\ f = [k \in 0..d |-> IF k = 0 THEN leaves ELSE Combined(f[k - 1])]
      /\ g = [k \in 0..(d + 1) |-> IF k = 0 THEN leaves ELSE Combined(g[k - 1])]
      /\ z = [k \in 0..0 |-> IF k = 0 THEN leaves ELSE Combined(z[k - 1])]
  <2>1. d + 1 \in Nat /\ 0 \in Nat
    OBVIOUS
  <2> QED  BY <2>1, LayersExist DEF Layered
<1> HIDE DEF f, g, z
<1>2. z[0] = leaves
  <2>1. 0 \in 0..0
    OBVIOUS
  <2> QED  BY <1>1, <2>1
<1> DEFINE G == {k \in 0..d : f[k] = g[k]}
<1>3. 0 \in G
  BY <1>1
<1>4. ASSUME NEW k \in 0..(d - 1), k \in G PROVE k + 1 \in G
  <2>1. k + 1 \in 0..d /\ k + 1 \in 0..(d + 1) /\ k + 1 # 0 /\ (k + 1) - 1 = k
    OBVIOUS
  <2>2. f[k + 1] = Combined(f[k]) /\ g[k + 1] = Combined(g[k])
    BY <1>1, <2>1
  <2> QED  BY <1>4, <2>1, <2>2
<1>5. d \in G
  <2>1. d \in 0..d
    OBVIOUS
  <2> HIDE DEF G
  <2> QED  BY <1>3, <1>4, <2>1, Upwards
<1>6. g[d + 1] = Combined(g[d])
  <2>1. d + 1 \in 0..(d + 1) /\ d + 1 # 0 /\ (d + 1) - 1 = d
    OBVIOUS
  <2> QED  BY <1>1, <2>1
<1> QED  BY <1>0, <1>2, <1>5, <1>6

\* Deeper trees are trees too.
LEMMA TreesGrow ==
    ASSUME NEW leaves, NEW c \in Nat, NEW d \in Nat, c <= d
    PROVE  Trees(leaves, c) \subseteq Trees(leaves, d)
<1> DEFINE n == d - c
           G == {k \in 0..n : Trees(leaves, c) \subseteq Trees(leaves, c + k)}
<1>1. 0 \in G
  OBVIOUS
<1>2. ASSUME NEW k \in 0..(n - 1), k \in G PROVE k + 1 \in G
  <2>1. c + k \in Nat /\ k + 1 \in 0..n /\ c + (k + 1) = (c + k) + 1
    OBVIOUS
  <2>2. Trees(leaves, (c + k) + 1) = Combined(Trees(leaves, c + k))
    BY <2>1, TreesUnfold
  <2> QED  BY <1>2, <2>1, <2>2 DEF Combined
<1>3. n \in G
  <2>1. n \in Nat /\ n \in 0..n
    OBVIOUS
  <2> HIDE DEF G, n
  <2> QED  BY <1>1, <1>2, <2>1, Upwards
<1>4. c + n = d
  OBVIOUS
<1> QED  BY <1>3, <1>4

\* With more leaves there are more trees.
LEMMA TreesWiden ==
    ASSUME NEW some, NEW more, some \subseteq more, NEW d \in Nat
    PROVE  Trees(some, d) \subseteq Trees(more, d)
<1> DEFINE G == {k \in 0..d : Trees(some, k) \subseteq Trees(more, k)}
<1>1. 0 \in G
  BY TreesUnfold
<1>2. ASSUME NEW k \in 0..(d - 1), k \in G PROVE k + 1 \in G
  <2>1. k \in Nat /\ k + 1 \in 0..d
    OBVIOUS
  <2>2. /\ Trees(some, k + 1) = Combined(Trees(some, k))
        /\ Trees(more, k + 1) = Combined(Trees(more, k))
    BY <2>1, TreesUnfold
  <2> QED  BY <1>2, <2>1, <2>2 DEF Combined
<1>3. d \in G
  <2>1. d \in 0..d
    OBVIOUS
  <2> HIDE DEF G
  <2> QED  BY <1>1, <1>2, <2>1, Upwards
<1> QED  BY <1>3

\* A tree is a leaf or a node over trees.
TreeShape(leaves, trees, n) ==
    \/ n \in leaves
    \/ n \in [op : {"and", "or"}, left : trees, right : trees]
    \/ n \in [op : {"not"}, inner : trees]

\* A tree is a leaf, or a node over smaller trees of its kind.
LEMMA TreesShaped ==
    ASSUME NEW leaves, NEW d \in Nat, NEW n \in Trees(leaves, d)
    PROVE  TreeShape(leaves, Trees(leaves, d), n)
<1> DEFINE G == {k \in 0..d : \A m \in Trees(leaves, k) : TreeShape(leaves, Trees(leaves, k), m)}
<1>1. 0 \in G
  BY TreesUnfold DEF TreeShape
<1>2. ASSUME NEW k \in 0..(d - 1), k \in G PROVE k + 1 \in G
  <2>1. k \in Nat /\ k + 1 \in 0..d
    OBVIOUS
  <2>2. Trees(leaves, k + 1) = Combined(Trees(leaves, k))
    BY <2>1, TreesUnfold
  <2> QED  BY <1>2, <2>1, <2>2 DEF Combined, TreeShape
<1>3. d \in G
  <2>1. d \in 0..d
    OBVIOUS
  <2> HIDE DEF G
  <2> QED  BY <1>1, <1>2, <2>1, Upwards
<1> QED  BY <1>3

-----------------------------------------------------------------------------
(* Evaluation.                                                              *)

\* What a node says, given what the leaves say and the value of the nodes below.
Said(n, leaf, value) ==
    IF n.op = "and" THEN value[n.left] /\ value[n.right]
    ELSE IF n.op = "or" THEN value[n.left] \/ value[n.right]
    ELSE IF n.op = "not" THEN ~value[n.inner]
    ELSE leaf[n]

\* A way to read all trees that follows a way to read the leaves.
Reads(value, leaf) == \A n \in Nodes : value[n] = Said(n, leaf, value)

\* A leaf is no And, Or or Not, and the other nodes are.
LEMMA OpsOfTrees ==
    ASSUME NEW trees, NEW n
    PROVE  /\ n \in Leaves =>
                 \/ /\ n.op = "name" /\ n.name \in Words /\ n = [op |-> "name", name |-> n.name]
                 \/ /\ n.op = "of" /\ n.names \in SUBSET Words /\ n.count \in Nat
                    /\ n = [op |-> "of", names |-> n.names, count |-> n.count]
           /\ n \in [op : {"and", "or"}, left : trees, right : trees] =>
                 n.op \in {"and", "or"} /\ n.left \in trees /\ n.right \in trees
           /\ n \in [op : {"not"}, inner : trees] => n.op = "not" /\ n.inner \in trees
BY DEF Leaves, NameNodes, OneOfNodes

\* Every way to read the leaves extends to the trees.
LEMMA SayingExists ==
    ASSUME NEW leaf \in [Leaves -> BOOLEAN], NEW d \in Nat
    PROVE  \E value \in [Trees(Leaves, d) -> BOOLEAN] :
              \A n \in Trees(Leaves, d) : value[n] = Said(n, leaf, value)
<1> DEFINE T(k) == Trees(Leaves, k)
           G == {k \in 0..d : \E value \in [T(k) -> BOOLEAN] :
                    \A n \in T(k) : value[n] = Said(n, leaf, value)}
<1>1. 0 \in G
  <2>1. T(0) = Leaves
    BY TreesUnfold
  <2>2. \A n \in T(0) : leaf[n] = Said(n, leaf, leaf)
    <3>1. ASSUME NEW n \in Leaves PROVE leaf[n] = Said(n, leaf, leaf)
      <4>1. n.op # "and" /\ n.op # "or" /\ n.op # "not"
        BY OpsOfTrees
      <4> QED  BY <4>1 DEF Said
    <3> QED  BY <2>1, <3>1
  <2>3. leaf \in [T(0) -> BOOLEAN]
    BY <2>1
  <2> HIDE DEF T
  <2> QED  BY <2>2, <2>3
<1>2. ASSUME NEW k \in 0..(d - 1), k \in G PROVE k + 1 \in G
  <2>0. k \in Nat /\ k + 1 \in 0..d
    OBVIOUS
  <2>1. PICK value \in [T(k) -> BOOLEAN] : \A n \in T(k) : value[n] = Said(n, leaf, value)
    BY <1>2
  <2>2. T(k + 1) = Combined(T(k)) /\ T(k) \subseteq T(k + 1)
    BY <2>0, TreesUnfold DEF Combined
  <2> DEFINE wide == [n \in T(k + 1) |-> IF n \in T(k) THEN value[n] ELSE Said(n, leaf, value)]
  <2>3. ASSUME NEW n \in T(k + 1), n \notin T(k)
        PROVE  Said(n, leaf, value) \in BOOLEAN
    <3>1. TreeShape(T(k), T(k), n)
      BY <2>2, <2>3 DEF Combined, TreeShape
    <3> HIDE DEF T
    <3> QED  BY <2>1, <2>3, <3>1, OpsOfTrees DEF TreeShape, Said
  <2>4. wide \in [T(k + 1) -> BOOLEAN]
    <3> HIDE DEF T
    <3> QED  BY <2>1, <2>3
  <2>5. \A n \in T(k) : wide[n] = value[n]
    BY <2>2
  <2>6. ASSUME NEW n \in T(k + 1) PROVE Said(n, leaf, wide) = Said(n, leaf, value)
    <3>1. TreeShape(Leaves, T(k), n)
      <4>1. CASE n \in T(k)
        BY <2>0, <4>1, TreesShaped
      <4>2. CASE n \notin T(k)
        BY <2>2, <4>2 DEF Combined, TreeShape
      <4> QED  BY <4>1, <4>2
    <3> HIDE DEF T, wide
    <3>2. CASE n \in Leaves
      <4>1. n.op # "and" /\ n.op # "or" /\ n.op # "not"
        BY <3>2, OpsOfTrees
      <4> QED  BY <4>1 DEF Said
    <3>3. CASE n \in [op : {"and", "or"}, left : T(k), right : T(k)]
      <4>1. n.op \in {"and", "or"} /\ wide[n.left] = value[n.left] /\ wide[n.right] = value[n.right]
        BY <2>5, <3>3, OpsOfTrees
      <4> QED  BY <4>1 DEF Said
    <3>4. CASE n \in [op : {"not"}, inner : T(k)]
      <4>1. n.op = "not" /\ wide[n.inner] = value[n.inner]
        BY <2>5, <3>4, OpsOfTrees
      <4> QED  BY <4>1 DEF Said
    <3> QED  BY <3>1, <3>2, <3>3, <3>4 DEF TreeShape
  <2>7. \A n \in T(k + 1) : wide[n] = Said(n, leaf, wide)
    <3>1. \A n \in T(k + 1) : wide[n] = IF n \in T(k) THEN value[n] ELSE Said(n, leaf, value)
      OBVIOUS
    <3> HIDE DEF T, wide
    <3> QED  BY <2>1, <2>6, <3>1
  <2> HIDE DEF T, wide
  <2> QED  BY <2>0, <2>4, <2>7
<1>3. d \in G
  <2>1. d \in 0..d
    OBVIOUS
  <2> HIDE DEF G
  <2> QED  BY <1>1, <1>2, <2>1, Upwards
<1> QED  BY <1>3

\* What the two evaluators say of a leaf.
LeafTrue(truth) ==
    [n \in Leaves |->
        IF n.op = "name" THEN n.name \in truth
        ELSE OneOf(n.count, Cardinality(n.names), Cardinality(n.names \intersect truth))]

LeafSet(bits, index) ==
    [n \in Leaves |->
        IF n.op = "name" THEN Lookup(n.name, bits, index)
        ELSE OneOf(n.count, Cardinality(n.names),
                   Cardinality({name \in n.names : Lookup(name, bits, index)}))]

\* A quantifier says yes or no.
LEMMA OneOfBoolean ==
    ASSUME NEW count, NEW size, NEW matched
    PROVE  OneOf(count, size, matched) \in BOOLEAN
<1>1. CASE count = 0
  <2>1. OneOf(count, size, matched) = (matched = size /\ size > 0)
    BY <1>1 DEF OneOf
  <2> QED  BY <2>1
<1>2. CASE count # 0
  <2>1. OneOf(count, size, matched) = (matched >= count)
    BY <1>2 DEF OneOf
  <2> QED  BY <2>1
<1> QED  BY <1>1, <1>2

\* evaluate is one of those, for the truth it is given.
LEMMA EvaluateSays ==
    ASSUME NEW truth
    PROVE  \E value \in [Nodes -> BOOLEAN] :
              /\ Reads(value, LeafTrue(truth))
              /\ \A n : evaluate(n, truth) = value[n]
<1> DEFINE Body(value, m) == Evaluated(m, truth, value)
           chosen == CHOOSE value : value = [m \in Nodes |-> Body(value, m)]
           leaf == LeafTrue(truth)
           Single(m) == m.name \in truth
           Group(m)  == OneOf(m.count, Cardinality(m.names), Cardinality(m.names \intersect truth))
<1>1. \A m \in Leaves : leaf[m] = IF m.op = "name" THEN Single(m) ELSE Group(m)
  BY DEF LeafTrue
<1>2. \A m \in Leaves : Single(m) \in BOOLEAN /\ Group(m) \in BOOLEAN
  BY OneOfBoolean
<1>3. leaf \in [Leaves -> BOOLEAN]
  <2>1. leaf = [m \in Leaves |-> leaf[m]]
    BY DEF LeafTrue
  <2> HIDE DEF leaf, Single, Group
  <2>2. \A m \in Leaves : leaf[m] \in BOOLEAN
    BY <1>1, <1>2
  <2> QED  BY <2>1, <2>2
<1>4. Longest \in Nat
  BY ConditionAssumption
<1>5. ASSUME NEW value, NEW m \in Nodes
      PROVE  Body(value, m) = Said(m, leaf, value) /\ Said(m, leaf, value) \in BOOLEAN
  <2>1. TreeShape(Leaves, Nodes, m)
    BY <1>4, TreesShaped DEF Nodes
  <2>2. CASE m \in Leaves
    <3>1. CASE m.op = "name"
      <4>1. Body(value, m) = Single(m)
        BY <3>1 DEF Evaluated
      <4> HIDE DEF leaf, Single, Group, Body
      <4>2. Said(m, leaf, value) = Single(m)
        BY <1>1, <2>2, <3>1 DEF Said
      <4> QED  BY <1>2, <2>2, <4>1, <4>2
    <3>2. CASE m.op = "of"
      <4>1. Body(value, m) = Group(m)
        BY <3>2 DEF Evaluated
      <4> HIDE DEF leaf, Single, Group, Body
      <4>2. Said(m, leaf, value) = Group(m)
        BY <1>1, <2>2, <3>2 DEF Said
      <4> QED  BY <1>2, <2>2, <4>1, <4>2
    <3> QED  BY <2>2, <3>1, <3>2, OpsOfTrees
  <2>3. CASE m \in [op : {"and", "or"}, left : Nodes, right : Nodes]
    BY <2>3, OpsOfTrees DEF Said, Evaluated
  <2>4. CASE m \in [op : {"not"}, inner : Nodes]
    BY <2>4, OpsOfTrees DEF Said, Evaluated
  <2> QED  BY <2>1, <2>2, <2>3, <2>4 DEF TreeShape
<1>6. PICK v \in [Nodes -> BOOLEAN] : \A n \in Nodes : v[n] = Said(n, leaf, v)
  BY <1>3, <1>4, SayingExists DEF Nodes
<1> HIDE DEF Single, Group, leaf
<1>7. v = [n \in Nodes |-> Body(v, n)]
  <2> HIDE DEF Body
  <2>1. \A n \in Nodes : v[n] = Body(v, n)
    BY <1>5, <1>6
  <2> QED  BY <1>6, <2>1
<1>8. \A n : evaluate(n, truth) = chosen[n]
  BY DEF evaluate
<1>9. chosen = [n \in Nodes |-> Body(chosen, n)]
  <2> HIDE DEF Body
  <2> QED  BY <1>7
<1> HIDE DEF chosen, Body
<1>10. \A n \in Nodes : chosen[n] = Said(n, leaf, chosen) /\ chosen[n] \in BOOLEAN
  BY <1>5, <1>9
<1>11. chosen \in [Nodes -> BOOLEAN]
  BY <1>9, <1>10
<1>12. Reads(chosen, LeafTrue(truth))
  BY <1>10 DEF leaf, Reads
<1> QED  BY <1>8, <1>11, <1>12

\* Every name the index has is answered.
Answers(bits, index) == \A name \in DOMAIN index : bits[index[name]] \in BOOLEAN

\* So is evaluate_vec, for the bits and the index it is given.
LEMMA EvaluateVecSays ==
    ASSUME NEW bits, NEW index,
           Answers(bits, index)
    PROVE  \E value \in [Nodes -> BOOLEAN] :
              /\ Reads(value, LeafSet(bits, index))
              /\ \A n : evaluate_vec(n, bits, index) = value[n]
<1> DEFINE Body(value, m) == EvaluatedVec(m, bits, index, value)
           chosen == CHOOSE value : value = [m \in Nodes |-> Body(value, m)]
           leaf == LeafSet(bits, index)
           Single(m) == Lookup(m.name, bits, index)
           Group(m)  == OneOf(m.count, Cardinality(m.names), Cardinality({name \in m.names : Lookup(name, bits, index)}))
<1>1. \A m \in Leaves : leaf[m] = IF m.op = "name" THEN Single(m) ELSE Group(m)
  BY DEF LeafSet
<1>2. \A m \in Leaves : Single(m) \in BOOLEAN /\ Group(m) \in BOOLEAN
  BY OneOfBoolean DEF Lookup, Answers
<1>3. leaf \in [Leaves -> BOOLEAN]
  <2>1. leaf = [m \in Leaves |-> leaf[m]]
    BY DEF LeafSet
  <2> HIDE DEF leaf, Single, Group
  <2>2. \A m \in Leaves : leaf[m] \in BOOLEAN
    BY <1>1, <1>2
  <2> QED  BY <2>1, <2>2
<1>4. Longest \in Nat
  BY ConditionAssumption
<1>5. ASSUME NEW value, NEW m \in Nodes
      PROVE  Body(value, m) = Said(m, leaf, value) /\ Said(m, leaf, value) \in BOOLEAN
  <2>1. TreeShape(Leaves, Nodes, m)
    BY <1>4, TreesShaped DEF Nodes
  <2>2. CASE m \in Leaves
    <3>1. CASE m.op = "name"
      <4>1. Body(value, m) = Single(m)
        BY <3>1 DEF EvaluatedVec
      <4> HIDE DEF leaf, Single, Group, Body
      <4>2. Said(m, leaf, value) = Single(m)
        BY <1>1, <2>2, <3>1 DEF Said
      <4> QED  BY <1>2, <2>2, <4>1, <4>2
    <3>2. CASE m.op = "of"
      <4>1. Body(value, m) = Group(m)
        BY <3>2 DEF EvaluatedVec
      <4> HIDE DEF leaf, Single, Group, Body
      <4>2. Said(m, leaf, value) = Group(m)
        BY <1>1, <2>2, <3>2 DEF Said
      <4> QED  BY <1>2, <2>2, <4>1, <4>2
    <3> QED  BY <2>2, <3>1, <3>2, OpsOfTrees
  <2>3. CASE m \in [op : {"and", "or"}, left : Nodes, right : Nodes]
    BY <2>3, OpsOfTrees DEF Said, EvaluatedVec
  <2>4. CASE m \in [op : {"not"}, inner : Nodes]
    BY <2>4, OpsOfTrees DEF Said, EvaluatedVec
  <2> QED  BY <2>1, <2>2, <2>3, <2>4 DEF TreeShape
<1>6. PICK v \in [Nodes -> BOOLEAN] : \A n \in Nodes : v[n] = Said(n, leaf, v)
  BY <1>3, <1>4, SayingExists DEF Nodes
<1> HIDE DEF Single, Group, leaf
<1>7. v = [n \in Nodes |-> Body(v, n)]
  <2> HIDE DEF Body
  <2>1. \A n \in Nodes : v[n] = Body(v, n)
    BY <1>5, <1>6
  <2> QED  BY <1>6, <2>1
<1>8. \A n : evaluate_vec(n, bits, index) = chosen[n]
  BY DEF evaluate_vec
<1>9. chosen = [n \in Nodes |-> Body(chosen, n)]
  <2> HIDE DEF Body
  <2> QED  BY <1>7
<1> HIDE DEF chosen, Body
<1>10. \A n \in Nodes : chosen[n] = Said(n, leaf, chosen) /\ chosen[n] \in BOOLEAN
  BY <1>5, <1>9
<1>11. chosen \in [Nodes -> BOOLEAN]
  BY <1>9, <1>10
<1>12. Reads(chosen, LeafSet(bits, index))
  BY <1>10 DEF leaf, Reads
<1> QED  BY <1>8, <1>11, <1>12

\* What the leaves say decides what the trees say.
LEMMA SayingUnique ==
    ASSUME NEW leaf, NEW v, NEW w, Reads(v, leaf), Reads(w, leaf)
    PROVE  \A n \in Nodes : v[n] = w[n]
<1> DEFINE T(k) == Trees(Leaves, k)
           G == {k \in 0..Longest : \A n \in T(k) : v[n] = w[n]}
<1>0. Longest \in Nat /\ \A k \in 0..Longest : T(k) \subseteq Nodes
  <2>1. Longest \in Nat
    BY ConditionAssumption
  <2>2. ASSUME NEW k \in 0..Longest PROVE T(k) \subseteq Trees(Leaves, Longest)
    BY <2>1, TreesGrow
  <2> QED  BY <2>1, <2>2 DEF Nodes
<1>1. ASSUME NEW k \in 0..Longest, NEW n \in T(k), NEW below \in SUBSET Nodes,
             \A m \in below : v[m] = w[m], TreeShape(Leaves, below, n)
      PROVE  v[n] = w[n]
  <2>1. v[n] = Said(n, leaf, v) /\ w[n] = Said(n, leaf, w)
    BY <1>0 DEF Reads
  <2>2. CASE n \in Leaves
    <3>1. n.op # "and" /\ n.op # "or" /\ n.op # "not"
      BY <2>2, OpsOfTrees
    <3> QED  BY <2>1, <3>1 DEF Said
  <2>3. CASE n \in [op : {"and", "or"}, left : below, right : below]
    <3>1. n.op \in {"and", "or"} /\ v[n.left] = w[n.left] /\ v[n.right] = w[n.right]
      BY <1>1, <2>3, OpsOfTrees
    <3> QED  BY <2>1, <3>1 DEF Said
  <2>4. CASE n \in [op : {"not"}, inner : below]
    <3>1. n.op = "not" /\ v[n.inner] = w[n.inner]
      BY <1>1, <2>4, OpsOfTrees
    <3> QED  BY <2>1, <3>1 DEF Said
  <2> QED  BY <1>1, <2>2, <2>3, <2>4 DEF TreeShape
<1>2. 0 \in G
  <2>1. T(0) = Leaves /\ 0 \in 0..Longest
    BY <1>0, TreesUnfold
  <2>2. ASSUME NEW n \in T(0) PROVE v[n] = w[n]
    <3>1. TreeShape(Leaves, {}, n)
      BY <2>1 DEF TreeShape
    <3> HIDE DEF T
    <3> QED  BY <1>1, <2>1, <3>1
  <2> QED  BY <2>1, <2>2
<1>3. ASSUME NEW k \in 0..(Longest - 1), k \in G PROVE k + 1 \in G
  <2>1. k \in Nat /\ k \in 0..Longest /\ k + 1 \in 0..Longest
    BY <1>0
  <2>2. T(k + 1) = Combined(T(k))
    BY <2>1, TreesUnfold
  <2>3. ASSUME NEW n \in T(k + 1) PROVE v[n] = w[n]
    <3>1. CASE n \in T(k)
      BY <1>3, <3>1
    <3>2. CASE n \notin T(k)
      <4>1. TreeShape(Leaves, T(k), n)
        BY <2>2, <3>2 DEF Combined, TreeShape
      <4>2. T(k) \subseteq Nodes /\ \A m \in T(k) : v[m] = w[m]
        BY <1>0, <1>3, <2>1
      <4> HIDE DEF T
      <4> QED  BY <1>1, <2>1, <4>1, <4>2
    <3> QED  BY <3>1, <3>2
  <2> QED  BY <2>1, <2>3
<1>4. Longest \in G
  <2>1. Longest \in 0..Longest
    BY <1>0
  <2> HIDE DEF G
  <2> QED  BY <1>0, <1>2, <1>3, <2>1, Upwards
<1> QED  BY <1>4 DEF Nodes

\* The names that matched.
MatchedOf(ids, bits) == {ids[i] : i \in {j \in 1..Len(ids) : bits[j]}}

\* The position of a name holds the answer to it.
LEMMA LookupIsMember ==
    ASSUME NEW ids \in Detections, NEW bits \in [1..Len(ids) -> BOOLEAN], NEW name
    PROVE  Lookup(name, bits, Index(ids)) = (name \in MatchedOf(ids, bits))
<1> DEFINE index == Index(ids)
<1>1. \A i, j \in 1..Len(ids) : ids[i] = ids[j] => i = j
  BY DetectionAssumption
<1>2. DOMAIN index = NamesOf(ids)
  BY DEF Index
<1>3. CASE name \notin NamesOf(ids)
  <2>1. ~Lookup(name, bits, Index(ids))
    BY <1>2, <1>3 DEF Lookup
  <2>2. name \notin MatchedOf(ids, bits)
    BY <1>3 DEF MatchedOf, NamesOf
  <2> QED  BY <2>1, <2>2 DEF Lookup
<1>4. CASE name \in NamesOf(ids)
  <2>1. PICK i \in 1..Len(ids) : ids[i] = name
    BY <1>4 DEF NamesOf
  <2>2. index[name] = i
    <3>1. index[name] = CHOOSE k \in 1..Len(ids) : ids[k] = name
      BY <1>4 DEF Index
    <3> QED  BY <1>1, <2>1, <3>1
  <2>3. Lookup(name, bits, Index(ids)) <=> bits[i]
    BY <1>2, <1>4, <2>2 DEF Lookup
  <2>4. name \in MatchedOf(ids, bits) <=> bits[i]
    BY <1>1, <2>1 DEF MatchedOf
  <2> QED  BY <2>3, <2>4 DEF Lookup
<1> QED  BY <1>3, <1>4

\* The two evaluators say the same of an event.
LEMMA EvaluatorsAgree ==
    ASSUME NEW ids \in Detections, NEW bits \in [1..Len(ids) -> BOOLEAN], NEW n \in Nodes
    PROVE  evaluate_vec(n, bits, Index(ids)) = evaluate(n, MatchedOf(ids, bits))
<1> DEFINE index == Index(ids)
           truth == MatchedOf(ids, bits)
<1>1. Answers(bits, index)
  <2>1. ASSUME NEW name \in NamesOf(ids) PROVE index[name] \in 1..Len(ids)
    <3>1. \E k \in 1..Len(ids) : ids[k] = name
      BY DEF NamesOf
    <3>2. index[name] = CHOOSE k \in 1..Len(ids) : ids[k] = name
      BY DEF Index
    <3> QED  BY <3>1, <3>2
  <2>2. DOMAIN index = NamesOf(ids)
    BY DEF Index
  <2> QED  BY <2>1, <2>2 DEF Answers
<1>2. LeafSet(bits, index) = LeafTrue(truth)
  <2>1. \A S : {name \in S : Lookup(name, bits, index)} = S \intersect truth
    BY LookupIsMember
  <2>2. \A name : Lookup(name, bits, index) = (name \in truth)
    BY LookupIsMember
  <2> HIDE DEF index, truth
  <2>3. ASSUME NEW m \in Leaves PROVE LeafSet(bits, index)[m] = LeafTrue(truth)[m]
    BY <2>1, <2>2 DEF LeafSet, LeafTrue
  <2>4. /\ LeafSet(bits, index) = [m \in Leaves |-> LeafSet(bits, index)[m]]
        /\ LeafTrue(truth) = [m \in Leaves |-> LeafTrue(truth)[m]]
    BY DEF LeafSet, LeafTrue
  <2> QED  BY <2>3, <2>4
<1> HIDE DEF index, truth
<1>3. PICK v \in [Nodes -> BOOLEAN] :
         /\ Reads(v, LeafSet(bits, index))
         /\ \A m : evaluate_vec(m, bits, index) = v[m]
  BY <1>1, EvaluateVecSays
<1>4. PICK w \in [Nodes -> BOOLEAN] :
         /\ Reads(w, LeafTrue(truth))
         /\ \A m : evaluate(m, truth) = w[m]
  BY EvaluateSays
<1>5. v[n] = w[n]
  BY <1>2, <1>3, <1>4, SayingUnique
<1> QED  BY <1>3, <1>4, <1>5 DEF index, truth

\* What each node says of what the nodes in it say.
LEMMA EvaluateNode ==
    ASSUME NEW n \in Nodes, NEW truth
    PROVE  /\ evaluate(n, truth) \in BOOLEAN
           /\ n.op = "name" => (evaluate(n, truth) <=> n.name \in truth)
           /\ n.op = "of" =>
                 (evaluate(n, truth) <=> OneOf(n.count, Cardinality(n.names),
                                               Cardinality(n.names \intersect truth)))
           /\ n.op = "and" => (evaluate(n, truth) <=> evaluate(n.left, truth) /\ evaluate(n.right, truth))
           /\ n.op = "or" => (evaluate(n, truth) <=> evaluate(n.left, truth) \/ evaluate(n.right, truth))
           /\ n.op = "not" => (evaluate(n, truth) <=> ~evaluate(n.inner, truth))
<1>1. PICK w \in [Nodes -> BOOLEAN] :
         /\ Reads(w, LeafTrue(truth))
         /\ \A m : evaluate(m, truth) = w[m]
  BY EvaluateSays
<1>2. w[n] = Said(n, LeafTrue(truth), w) /\ w[n] \in BOOLEAN
  BY <1>1 DEF Reads
<1>3. n.op \in {"name", "of"} => n \in Leaves
  <2>1. TreeShape(Leaves, Nodes, n)
    BY ConditionAssumption, TreesShaped DEF Nodes
  <2> QED  BY <2>1, OpsOfTrees DEF TreeShape
<1>4. n.op = "name" => w[n] = (n.name \in truth)
  BY <1>2, <1>3 DEF Said, LeafTrue
<1>5. n.op = "of" => w[n] = OneOf(n.count, Cardinality(n.names), Cardinality(n.names \intersect truth))
  BY <1>2, <1>3 DEF Said, LeafTrue
<1>6. n.op = "and" => w[n] = (w[n.left] /\ w[n.right])
  BY <1>2 DEF Said
<1>7. n.op = "or" => w[n] = (w[n.left] \/ w[n.right])
  BY <1>2 DEF Said
<1>8. n.op = "not" => w[n] = ~w[n.inner]
  BY <1>2 DEF Said
<1>9. \A m : evaluate(m, truth) = w[m]
  BY <1>1
<1> QED  BY <1>2, <1>4, <1>5, <1>6, <1>7, <1>8, <1>9

-----------------------------------------------------------------------------
(* The grammar.                                                             *)

\* A span is smaller than another if it is shorter, or a tighter construct of the
\* same tokens.
Tightness(as) == IF as = "or" THEN 3 ELSE IF as = "and" THEN 2 ELSE IF as = "not" THEN 1 ELSE 0
Rank(ts, s) == 4 * ((Len(ts) + s.to + 1) - s.from) + Tightness(s.as)

\* A span is made of what it was made from.
LEMMA SpanFields ==
    ASSUME NEW ts, NEW as \in Constructs, NEW i \in 1..(Len(ts) + 1), NEW j \in 0..Len(ts)
    PROVE  /\ Span(as, i, j) \in Spans(ts)
           /\ Span(as, i, j).as = as /\ Span(as, i, j).from = i /\ Span(as, i, j).to = j
BY DEF Span, Spans

\* Ranks are bounded, so the recursion of the grammar ends.
LEMMA RankType ==
    ASSUME NEW ts, Len(ts) \in Nat, NEW s \in Spans(ts)
    PROVE  /\ Rank(ts, s) \in 0..(8 * Len(ts) + 8)
           /\ s.as \in Constructs /\ s.from \in 1..(Len(ts) + 1) /\ s.to \in 0..Len(ts)
           /\ s = Span(s.as, s.from, s.to)
<1>1. s.as \in Constructs /\ s.from \in 1..(Len(ts) + 1) /\ s.to \in 0..Len(ts) /\ s = Span(s.as, s.from, s.to)
  BY DEF Spans, Span
<1>2. Tightness(s.as) \in 0..3
  BY DEF Tightness
<1>3. (Len(ts) + s.to + 1) - s.from \in 0..(2 * Len(ts))
  BY <1>1
<1>4. \A x \in 0..(2 * Len(ts)), y \in 0..3 : 4 * x + y \in 0..(8 * Len(ts) + 8)
  OBVIOUS
<1>5. Rank(ts, s) \in 0..(8 * Len(ts) + 8)
  BY <1>2, <1>3, <1>4 DEF Rank
<1> QED  BY <1>1, <1>5

\* The spans a meaning is made of are smaller.
LEMMA RanksBelow ==
    ASSUME NEW ts, Len(ts) \in Nat, NEW i \in 1..(Len(ts) + 1), NEW j \in 0..Len(ts)
    PROVE  /\ Rank(ts, Span("and", i, j)) < Rank(ts, Span("or", i, j))
           /\ Rank(ts, Span("not", i, j)) < Rank(ts, Span("and", i, j))
           /\ Rank(ts, Span("primary", i, j)) < Rank(ts, Span("not", i, j))
           /\ i < j => Rank(ts, Span("not", i + 1, j)) < Rank(ts, Span("not", i, j))
           /\ i + 1 < j => Rank(ts, Span("or", i + 1, j - 1)) < Rank(ts, Span("primary", i, j))
           /\ \A k \in (i + 1)..(j - 1) :
                 /\ Rank(ts, Span("or", i, k - 1)) < Rank(ts, Span("or", i, j))
                 /\ Rank(ts, Span("and", k + 1, j)) < Rank(ts, Span("or", i, j))
                 /\ Rank(ts, Span("and", i, k - 1)) < Rank(ts, Span("and", i, j))
                 /\ Rank(ts, Span("not", k + 1, j)) < Rank(ts, Span("and", i, j))
BY DEF Rank, Span, Tightness

\* What a span means is up to smaller spans.
LEMMA MeaningLocal ==
    ASSUME NEW ts, Len(ts) \in Nat, NEW names, NEW s \in Spans(ts), NEW f, NEW g,
           \A r \in Spans(ts) : Rank(ts, r) < Rank(ts, s) => f[r] = g[r]
    PROVE  Meaning(ts, names, s, f) = Meaning(ts, names, s, g)
<1> DEFINE i == s.from
           j == s.to
           n == Len(ts)
<1>1. s.as \in Constructs /\ i \in 1..(n + 1) /\ j \in 0..n /\ s = Span(s.as, i, j)
  BY RankType
<1> HIDE DEF i, j
<1>2. ASSUME NEW op \in {"or", "and"}, s.as = op, NEW k \in Cuts(ts, op, i, j)
      PROVE  LET low == IF op = "or" THEN "and" ELSE "not" IN
             f[Span(op, i, k - 1)] = g[Span(op, i, k - 1)] /\ f[Span(low, k + 1, j)] = g[Span(low, k + 1, j)]
  <2>1. k \in (i + 1)..(j - 1) /\ k - 1 \in 0..n /\ k + 1 \in 1..(n + 1)
    BY <1>1 DEF Cuts
  <2>2. /\ Span(op, i, k - 1) \in Spans(ts)
        /\ Span("and", k + 1, j) \in Spans(ts) /\ Span("not", k + 1, j) \in Spans(ts)
    <3>1. op \in Constructs /\ "and" \in Constructs /\ "not" \in Constructs
      BY DEF Constructs
    <3> QED  BY <1>1, <2>1, <3>1, SpanFields
  <2> QED  BY <1>1, <1>2, <2>1, <2>2, RanksBelow
<1>3. CASE s.as = "or"
  <2>1. f[Span("and", i, j)] = g[Span("and", i, j)]
    <3>1. "and" \in Constructs
      BY DEF Constructs
    <3>2. Span("and", i, j) \in Spans(ts)
      BY <1>1, <3>1, SpanFields
    <3>3. Rank(ts, Span("and", i, j)) < Rank(ts, s)
      BY <1>1, <1>3, RanksBelow
    <3> QED  BY <3>2, <3>3
  <2> DEFINE F(k) == {a \union b : a \in f[Span("or", i, k - 1)], b \in f[Span("and", k + 1, j)]}
             H(k) == {a \union b : a \in g[Span("or", i, k - 1)], b \in g[Span("and", k + 1, j)]}
             C == Cuts(ts, "or", i, j)
  <2>2. \A k \in C : F(k) = H(k)
    BY <1>2, <1>3
  <2>3. /\ Meaning(ts, names, s, f) = f[Span("and", i, j)] \union UNION {F(k) : k \in C}
        /\ Meaning(ts, names, s, g) = g[Span("and", i, j)] \union UNION {H(k) : k \in C}
    BY <1>3 DEF Meaning, i, j
  <2> HIDE DEF F, H, C
  <2>4. {F(k) : k \in C} = {H(k) : k \in C}
    BY <2>2
  <2> QED  BY <2>1, <2>3, <2>4
<1>4. CASE s.as = "and"
  <2>1. f[Span("not", i, j)] = g[Span("not", i, j)]
    <3>1. "not" \in Constructs
      BY DEF Constructs
    <3>2. Span("not", i, j) \in Spans(ts)
      BY <1>1, <3>1, SpanFields
    <3>3. Rank(ts, Span("not", i, j)) < Rank(ts, s)
      BY <1>1, <1>4, RanksBelow
    <3> QED  BY <3>2, <3>3
  <2> DEFINE F(k) == {a \intersect b : a \in f[Span("and", i, k - 1)], b \in f[Span("not", k + 1, j)]}
             H(k) == {a \intersect b : a \in g[Span("and", i, k - 1)], b \in g[Span("not", k + 1, j)]}
             C == Cuts(ts, "and", i, j)
  <2>2. \A k \in C : F(k) = H(k)
    BY <1>2, <1>4
  <2>3. /\ Meaning(ts, names, s, f) = f[Span("not", i, j)] \union UNION {F(k) : k \in C}
        /\ Meaning(ts, names, s, g) = g[Span("not", i, j)] \union UNION {H(k) : k \in C}
    BY <1>4 DEF Meaning, i, j
  <2> HIDE DEF F, H, C
  <2>4. {F(k) : k \in C} = {H(k) : k \in C}
    BY <2>2
  <2> QED  BY <2>1, <2>3, <2>4
<1>5. CASE s.as = "not"
  <2>1. f[Span("primary", i, j)] = g[Span("primary", i, j)]
    <3>1. "primary" \in Constructs
      BY DEF Constructs
    <3>2. Span("primary", i, j) \in Spans(ts)
      BY <1>1, <3>1, SpanFields
    <3>3. Rank(ts, Span("primary", i, j)) < Rank(ts, s)
      BY <1>1, <1>5, RanksBelow
    <3> QED  BY <3>2, <3>3
  <2>2. i < j => f[Span("not", i + 1, j)] = g[Span("not", i + 1, j)]
    <3> SUFFICES ASSUME i < j PROVE f[Span("not", i + 1, j)] = g[Span("not", i + 1, j)]
      OBVIOUS
    <3>1. i + 1 \in 1..(n + 1) /\ "not" \in Constructs
      BY <1>1 DEF Constructs
    <3>2. Span("not", i + 1, j) \in Spans(ts)
      BY <1>1, <3>1, SpanFields
    <3>3. Rank(ts, Span("not", i + 1, j)) < Rank(ts, s)
      BY <1>1, <1>5, RanksBelow
    <3> QED  BY <3>2, <3>3
  <2> QED  BY <1>5, <2>1, <2>2 DEF Meaning, i, j
<1>6. CASE s.as = "primary"
  <2>1. i + 1 < j => f[Span("or", i + 1, j - 1)] = g[Span("or", i + 1, j - 1)]
    <3> SUFFICES ASSUME i + 1 < j PROVE f[Span("or", i + 1, j - 1)] = g[Span("or", i + 1, j - 1)]
      OBVIOUS
    <3>1. i + 1 \in 1..(n + 1) /\ j - 1 \in 0..n /\ "or" \in Constructs
      BY <1>1 DEF Constructs
    <3>2. Span("or", i + 1, j - 1) \in Spans(ts)
      BY <3>1, SpanFields
    <3>3. Rank(ts, Span("or", i + 1, j - 1)) < Rank(ts, s)
      BY <1>1, <1>6, RanksBelow
    <3> QED  BY <3>2, <3>3
  <2> QED  BY <1>6, <2>1 DEF Meaning, i, j
<1> QED  BY <1>1, <1>3, <1>4, <1>5, <1>6 DEF Constructs

\* What Meanings computes, span by span.
MeansBy(ts, names, means) == means = [s \in Spans(ts) |-> Meaning(ts, names, s, means)]
MeansOf(ts, names) == CHOOSE means : MeansBy(ts, names, means)

\* The recursion in Meanings has a solution: every span means what its parts make of it.
LEMMA MeansExist ==
    ASSUME NEW ts, Len(ts) \in Nat, NEW names
    PROVE  /\ \A s \in Spans(ts) : MeansOf(ts, names)[s] = Meaning(ts, names, s, MeansOf(ts, names))
           /\ Meanings(ts, names) = MeansOf(ts, names)[Span("or", 1, Len(ts))]
<1> DEFINE n == 8 * Len(ts) + 9
           G == {k \in 0..n : \E f : \A s \in Spans(ts) :
                    Rank(ts, s) < k => f[s] = Meaning(ts, names, s, f)}
<1>1. 0 \in G
  <2>1. \A s \in Spans(ts) : ~(Rank(ts, s) < 0)
    BY RankType
  <2> QED  BY <2>1
<1>2. ASSUME NEW k \in 0..(n - 1), k \in G PROVE k + 1 \in G
  <2>1. PICK f : \A s \in Spans(ts) : Rank(ts, s) < k => f[s] = Meaning(ts, names, s, f)
    BY <1>2
  <2> DEFINE g == [s \in Spans(ts) |-> IF Rank(ts, s) < k THEN f[s] ELSE Meaning(ts, names, s, f)]
  <2>2. \A s \in Spans(ts) : g[s] = IF Rank(ts, s) < k THEN f[s] ELSE Meaning(ts, names, s, f)
    OBVIOUS
  <2> HIDE DEF g
  <2>3. ASSUME NEW s \in Spans(ts), Rank(ts, s) < k + 1
        PROVE  g[s] = Meaning(ts, names, s, g)
    <3>1. \A r \in Spans(ts) : Rank(ts, r) < Rank(ts, s) => f[r] = g[r]
      BY <2>2, <2>3, RankType
    <3>2. Meaning(ts, names, s, f) = Meaning(ts, names, s, g)
      BY <3>1, MeaningLocal
    <3> QED  BY <2>1, <2>2, <3>2
  <2>4. k + 1 \in 0..n
    OBVIOUS
  <2> QED  BY <2>3, <2>4
<1>3. n \in G
  <2>1. n \in Nat /\ n \in 0..n
    OBVIOUS
  <2> HIDE DEF G, n
  <2> QED  BY <1>1, <1>2, <2>1, Upwards
<1>4. PICK f : \A s \in Spans(ts) : f[s] = Meaning(ts, names, s, f)
  <2>1. \A s \in Spans(ts) : Rank(ts, s) < n
    BY RankType
  <2> QED  BY <1>3, <2>1
<1> DEFINE g == [s \in Spans(ts) |-> f[s]]
<1>5. MeansBy(ts, names, g)
  <2>1. \A s \in Spans(ts) : g[s] = f[s]
    OBVIOUS
  <2>2. ASSUME NEW s \in Spans(ts) PROVE f[s] = Meaning(ts, names, s, g)
    <3> HIDE DEF g
    <3>1. Meaning(ts, names, s, f) = Meaning(ts, names, s, g)
      BY <2>1, MeaningLocal
    <3> QED  BY <1>4, <3>1
  <2>3. g = [s \in Spans(ts) |-> Meaning(ts, names, s, g)]
    BY <2>2
  <2> QED  BY <2>3 DEF MeansBy
<1>6. MeansBy(ts, names, MeansOf(ts, names))
  <2> HIDE DEF g
  <2> QED  BY <1>5 DEF MeansOf
<1>7. Meanings(ts, names) = MeansOf(ts, names)[Span("or", 1, Len(ts))]
  BY DEF Meanings, MeansOf, MeansBy
<1> QED  BY <1>6, <1>7 DEF MeansBy

-----------------------------------------------------------------------------
(* What the constructs mean.                                                *)

\* The construct the operands of `or` and `and` are, and how their meanings join.
Low(op) == IF op = "or" THEN "and" ELSE "not"
Join(op, a, b) == IF op = "or" THEN a \union b ELSE a \intersect b

\* A chain is one operand, or a shorter chain and an operand.
AChain(ts, names, op, i, j, x) ==
    LET means == MeansOf(ts, names) IN
    \/ x \in means[Span(Low(op), i, j)]
    \/ \E k \in Cuts(ts, op, i, j) :
          \E a \in means[Span(op, i, k - 1)], b \in means[Span(Low(op), k + 1, j)] :
             x = Join(op, a, b)

\* What a chain of `or` or of `and` means: its last operand, joined to the chain before it.
LEMMA MeansChain ==
    ASSUME NEW ts, Len(ts) \in Nat, NEW names, NEW op \in {"or", "and"},
           NEW i \in 1..(Len(ts) + 1), NEW j \in 0..Len(ts), NEW x
    PROVE  x \in MeansOf(ts, names)[Span(op, i, j)] <=> AChain(ts, names, op, i, j, x)
<1> DEFINE means == MeansOf(ts, names)
           s == Span(op, i, j)
<1>1. s \in Spans(ts) /\ s.as = op /\ s.from = i /\ s.to = j
  BY SpanFields DEF Constructs
<1>2. means[s] = Meaning(ts, names, s, means)
  BY <1>1, MeansExist
<1> HIDE DEF means, s
<1>3. CASE op = "or"
  <2>1. means[s] = means[Span("and", i, j)] \union
           UNION {{a \union b : a \in means[Span("or", i, k - 1)], b \in means[Span("and", k + 1, j)]} :
                     k \in Cuts(ts, "or", i, j)}
    BY <1>1, <1>2, <1>3 DEF Meaning
  <2> QED  BY <1>3, <2>1 DEF AChain, Low, Join, means, s
<1>4. CASE op = "and"
  <2>1. means[s] = means[Span("not", i, j)] \union
           UNION {{a \intersect b : a \in means[Span("and", i, k - 1)], b \in means[Span("not", k + 1, j)]} :
                     k \in Cuts(ts, "and", i, j)}
    BY <1>1, <1>2, <1>4 DEF Meaning
  <2> QED  BY <1>4, <2>1 DEF AChain, Low, Join, means, s
<1> QED  BY <1>3, <1>4

\* A negation is a primary, or `not` and a negation.
ANegation(ts, names, i, j, x) ==
    LET means == MeansOf(ts, names) IN
    \/ x \in means[Span("primary", i, j)]
    \/ /\ i < j /\ ts[i] = "not"
       /\ \E a \in means[Span("not", i + 1, j)] : x = (SUBSET names) \ a

\* What a negation means.
LEMMA MeansNot ==
    ASSUME NEW ts, Len(ts) \in Nat, NEW names,
           NEW i \in 1..(Len(ts) + 1), NEW j \in 0..Len(ts), NEW x
    PROVE  x \in MeansOf(ts, names)[Span("not", i, j)] <=> ANegation(ts, names, i, j, x)
<1> DEFINE means == MeansOf(ts, names)
           s == Span("not", i, j)
<1>1. s \in Spans(ts) /\ s.as = "not" /\ s.from = i /\ s.to = j
  BY SpanFields DEF Constructs
<1>2. means[s] = Meaning(ts, names, s, means)
  BY <1>1, MeansExist
<1> HIDE DEF means, s
<1>3. means[s] = means[Span("primary", i, j)] \union
         (IF i < j /\ ts[i] = "not"
          THEN {(SUBSET names) \ a : a \in means[Span("not", i + 1, j)]} ELSE {})
  BY <1>1, <1>2 DEF Meaning
<1> QED  BY <1>3 DEF ANegation, means, s

\* A primary is a word, an expression in brackets or a quantifier.
LEMMA MeansPrimary ==
    ASSUME NEW ts, Len(ts) \in Nat, NEW names,
           NEW i \in 1..(Len(ts) + 1), NEW j \in 0..Len(ts)
    PROVE  LET means == MeansOf(ts, names) IN
           means[Span("primary", i, j)] =
              IF i = j /\ ts[i] \in Words THEN {{t \in SUBSET names : ts[i] \in t}}
              ELSE IF i + 1 < j /\ ts[i] = "(" /\ ts[j] = ")" THEN means[Span("or", i + 1, j - 1)]
              ELSE IF i + 1 < j /\ ts[i] \in Numbers \union {"all"} /\ ts[i + 1] = "of"
              THEN {Quantified(ts[i], targets, names) : targets \in Targets(ts, i + 2, j, names)}
              ELSE {}
<1> DEFINE means == MeansOf(ts, names)
           s == Span("primary", i, j)
<1>1. s \in Spans(ts) /\ s.as = "primary" /\ s.from = i /\ s.to = j
  BY SpanFields DEF Constructs
<1>2. means[s] = Meaning(ts, names, s, means)
  BY <1>1, MeansExist
<1> HIDE DEF means, s
<1>3. means[s] =
         IF i = j /\ ts[i] \in Words THEN {{t \in SUBSET names : ts[i] \in t}}
         ELSE IF i + 1 < j /\ ts[i] = "(" /\ ts[j] = ")" THEN means[Span("or", i + 1, j - 1)]
         ELSE IF i + 1 < j /\ ts[i] \in Numbers \union {"all"} /\ ts[i + 1] = "of"
         THEN {Quantified(ts[i], targets, names) : targets \in Targets(ts, i + 2, j, names)}
         ELSE {}
  BY <1>1, <1>2 DEF Meaning
<1> QED  BY <1>3 DEF means, s

\* No token means nothing.
LEMMA MeansNonempty ==
    ASSUME NEW ts, Len(ts) \in Nat, NEW names, NEW as \in Constructs,
           NEW i \in 1..(Len(ts) + 1), NEW j \in 0..Len(ts), NEW x \in MeansOf(ts, names)[Span(as, i, j)]
    PROVE  i <= j
<1> DEFINE means == MeansOf(ts, names)
<1> SUFFICES ASSUME j < i PROVE FALSE
  OBVIOUS
<1>1. ~(i < j) /\ ~(i + 1 < j) /\ i # j
  OBVIOUS
<1>2. means[Span("primary", i, j)] = {}
  BY <1>1, MeansPrimary
<1>3. x \notin means[Span("not", i, j)]
  BY <1>1, <1>2, MeansNot DEF ANegation
<1>4. \A op : Cuts(ts, op, i, j) = {}
  BY DEF Cuts
<1>5. x \notin means[Span("and", i, j)]
  BY <1>3, <1>4, MeansChain DEF AChain, Low
<1>6. x \notin means[Span("or", i, j)]
  BY <1>4, <1>5, MeansChain DEF AChain, Low
<1> QED  BY <1>2, <1>3, <1>5, <1>6 DEF Constructs

-----------------------------------------------------------------------------
(* The loops of the parser.                                                 *)

\* The loop of parse_or and parse_and, round by round.
ChainBy(ts, op, operand, p, f, d) ==
    f = [n \in 0..d |-> IF n = 0 THEN operand[p] ELSE Extended(ts, op, operand, f[n - 1])]
ChainOf(ts, op, operand, p, d) == CHOOSE f : ChainBy(ts, op, operand, p, f, d)

\* The loop has a value after every round.
LEMMA ChainExist ==
    ASSUME NEW ts, NEW op, NEW operand, NEW p, NEW d \in Nat
    PROVE  ChainBy(ts, op, operand, p, ChainOf(ts, op, operand, p, d), d)
<1> DEFINE Base == operand[p]
           Step(x) == Extended(ts, op, operand, x)
           G == {k \in 0..d : \E f : f = [i \in 0..k |-> IF i = 0 THEN Base ELSE Step(f[i - 1])]}
<1> HIDE DEF Base, Step
<1>1. 0 \in G
  <2> DEFINE f == [k \in 0..0 |-> Base]
  <2>1. f = [i \in 0..0 |-> IF i = 0 THEN Base ELSE Step(f[i - 1])]
    OBVIOUS
  <2> HIDE DEF f
  <2> QED  BY <2>1
<1>2. ASSUME NEW k \in 0..(d - 1), k \in G PROVE k + 1 \in G
  <2>1. PICK f : f = [i \in 0..k |-> IF i = 0 THEN Base ELSE Step(f[i - 1])]
    BY <1>2
  <2> DEFINE g == [i \in 0..(k + 1) |-> IF i = k + 1 THEN Step(f[k]) ELSE f[i]]
             h == [i \in 0..(k + 1) |-> IF i = 0 THEN Base ELSE Step(g[i - 1])]
  <2>2. ASSUME NEW i \in 0..(k + 1) PROVE g[i] = h[i]
    <3>1. CASE i = k + 1
      BY <3>1
    <3>2. CASE i # k + 1
      <4>1. i \in 0..k /\ g[i] = f[i]
        BY <3>2
      <4>2. i # 0 => i - 1 \in 0..(k + 1) /\ i - 1 # k + 1 /\ g[i - 1] = f[i - 1]
        BY <3>2
      <4>3. f[i] = IF i = 0 THEN Base ELSE Step(f[i - 1])
        BY <2>1, <4>1
      <4> QED  BY <4>1, <4>2, <4>3
    <3> QED  BY <3>1, <3>2
  <2>3. g = h
    BY <2>2
  <2>4. k + 1 \in 0..d
    OBVIOUS
  <2> HIDE DEF g
  <2> QED  BY <2>3, <2>4
<1>3. d \in G
  <2>1. d \in 0..d
    OBVIOUS
  <2> HIDE DEF G
  <2> QED  BY <1>1, <1>2, <2>1, Upwards
<1>4. PICK f : f = [i \in 0..d |-> IF i = 0 THEN Base ELSE Step(f[i - 1])]
  BY <1>3
<1>5. ChainBy(ts, op, operand, p, f, d)
  BY <1>4 DEF ChainBy, Base, Step
<1> QED  BY <1>5 DEF ChainOf

\* The loop starts with one operand and extends it.
LEMMA ChainUnfolds ==
    ASSUME NEW ts, Len(ts) \in Nat, NEW op, NEW operand, NEW p
    PROVE  LET after == ChainOf(ts, op, operand, p, Len(ts)) IN
           /\ after[0] = operand[p]
           /\ \A n \in 1..Len(ts) : after[n] = Extended(ts, op, operand, after[n - 1])
           /\ ParseChain(ts, op, operand, p) = after[Len(ts)]
<1> DEFINE after == ChainOf(ts, op, operand, p, Len(ts))
<1>1. ParseChain(ts, op, operand, p) = after[Len(ts)]
  BY DEF ParseChain, ChainOf, ChainBy
<1>2. after = [n \in 0..Len(ts) |-> IF n = 0 THEN operand[p] ELSE Extended(ts, op, operand, after[n - 1])]
  BY ChainExist DEF ChainBy
<1> HIDE DEF after
<1>3. after[0] = operand[p] /\ \A n \in 1..Len(ts) : after[n] = Extended(ts, op, operand, after[n - 1])
  BY <1>2
<1> QED  BY <1>1, <1>3 DEF after

\* The parsers, from the innermost nesting level outwards.
NestedBy(ts, names, f, d) ==
    f = [k \in 0..d |-> IF k = 0 THEN [expr |-> Nowhere(ts), negation |-> Nowhere(ts)]
                        ELSE Outside(ts, names, f[k - 1])]
NestedOf(ts, names, d) == CHOOSE f : NestedBy(ts, names, f, d)

\* There are parsers at every nesting level.
LEMMA NestedExist ==
    ASSUME NEW ts, NEW names, NEW d \in Nat
    PROVE  NestedBy(ts, names, NestedOf(ts, names, d), d)
<1> DEFINE Base == [expr |-> Nowhere(ts), negation |-> Nowhere(ts)]
           Step(x) == Outside(ts, names, x)
           G == {k \in 0..d : \E f : f = [i \in 0..k |-> IF i = 0 THEN Base ELSE Step(f[i - 1])]}
<1> HIDE DEF Base, Step
<1>1. 0 \in G
  <2> DEFINE f == [k \in 0..0 |-> Base]
  <2>1. f = [i \in 0..0 |-> IF i = 0 THEN Base ELSE Step(f[i - 1])]
    OBVIOUS
  <2> HIDE DEF f
  <2> QED  BY <2>1
<1>2. ASSUME NEW k \in 0..(d - 1), k \in G PROVE k + 1 \in G
  <2>1. PICK f : f = [i \in 0..k |-> IF i = 0 THEN Base ELSE Step(f[i - 1])]
    BY <1>2
  <2> DEFINE g == [i \in 0..(k + 1) |-> IF i = k + 1 THEN Step(f[k]) ELSE f[i]]
             h == [i \in 0..(k + 1) |-> IF i = 0 THEN Base ELSE Step(g[i - 1])]
  <2>2. ASSUME NEW i \in 0..(k + 1) PROVE g[i] = h[i]
    <3>1. CASE i = k + 1
      BY <3>1
    <3>2. CASE i # k + 1
      <4>1. i \in 0..k /\ g[i] = f[i]
        BY <3>2
      <4>2. i # 0 => i - 1 \in 0..(k + 1) /\ i - 1 # k + 1 /\ g[i - 1] = f[i - 1]
        BY <3>2
      <4>3. f[i] = IF i = 0 THEN Base ELSE Step(f[i - 1])
        BY <2>1, <4>1
      <4> QED  BY <4>1, <4>2, <4>3
    <3> QED  BY <3>1, <3>2
  <2>3. g = h
    BY <2>2
  <2>4. k + 1 \in 0..d
    OBVIOUS
  <2> HIDE DEF g
  <2> QED  BY <2>3, <2>4
<1>3. d \in G
  <2>1. d \in 0..d
    OBVIOUS
  <2> HIDE DEF G
  <2> QED  BY <1>1, <1>2, <2>1, Upwards
<1>4. PICK f : f = [i \in 0..d |-> IF i = 0 THEN Base ELSE Step(f[i - 1])]
  BY <1>3
<1>5. NestedBy(ts, names, f, d)
  BY <1>4 DEF NestedBy, Base, Step
<1> QED  BY <1>5 DEF NestedOf

\* The innermost level fails everywhere, and each level comes from the one inside it.
LEMMA NestedUnfolds ==
    ASSUME NEW ts, Len(ts) \in Nat, NEW names
    PROVE  LET nested == NestedOf(ts, names, Len(ts) + 1) IN
           /\ nested[0].expr = Nowhere(ts) /\ nested[0].negation = Nowhere(ts)
           /\ \A d \in 1..(Len(ts) + 1) : nested[d] = Outside(ts, names, nested[d - 1])
           /\ parse_expr(ts, names) = nested[Len(ts) + 1].expr
<1> DEFINE nested == NestedOf(ts, names, Len(ts) + 1)
<1>1. parse_expr(ts, names) = nested[Len(ts) + 1].expr
  BY DEF parse_expr, NestedOf, NestedBy
<1>2. nested = [k \in 0..(Len(ts) + 1) |-> IF k = 0 THEN [expr |-> Nowhere(ts), negation |-> Nowhere(ts)]
                                           ELSE Outside(ts, names, nested[k - 1])]
  <2>1. Len(ts) + 1 \in Nat
    OBVIOUS
  <2> QED  BY <2>1, NestedExist DEF NestedBy
<1> HIDE DEF nested
<1>3. nested[0] = [expr |-> Nowhere(ts), negation |-> Nowhere(ts)]
  BY <1>2
<1>4. \A d \in 1..(Len(ts) + 1) : nested[d] = Outside(ts, names, nested[d - 1])
  BY <1>2
<1>5. nested[0].expr = Nowhere(ts) /\ nested[0].negation = Nowhere(ts)
  BY <1>3
<1> QED  BY <1>1, <1>4, <1>5 DEF nested

-----------------------------------------------------------------------------
(* Lists and quantifiers.                                                   *)

\* No word is a token of another kind.
LEMMA WordFacts ==
    ASSUME NEW w \in Words
    PROVE  w \notin Numbers \union Keywords \union Marks \union {"eof"}
BY WordAssumption

\* Words are none of the other tokens.
LEMMA TokenKinds ==
    /\ Numbers = {"0", "1", "2"}
    /\ Words \intersect {"0", "1", "2", "and", "or", "not", "of", "all", "them",
                         "(", ")", "comma", "|", "invalid", "eof"} = {}
<1>1. Numbers = {"0", "1", "2"}
  BY DEF Numbers, Quantity
<1> QED  BY <1>1, WordFacts DEF Keywords, Marks

\* The least of some numbers.
LEMMA Least ==
    ASSUME NEW S \in SUBSET Nat, S # {}
    PROVE  \E m \in S : \A k \in S : m <= k
<1>1. PICK m \in S : \A k \in S : <<k, m>> \notin OpToRel(<, Nat)
  BY WFMin, NatLessThanWellFounded, Zenon
<1>2. \A k \in S : ~(k < m)
  BY <1>1, Zenon DEF OpToRel
<1> QED  BY <1>2

\* What ParseList reads, item by item, of the list that opens at i.
Item(ts, i, n)      == Peek(ts, (i + 1) + 2 * n - 2)
Separator(ts, i, n) == Peek(ts, (i + 1) + 2 * n - 1)
Ends(ts, i, n) == Separator(ts, i, n) # "comma" /\ \A m \in 1..(n - 1) : Separator(ts, i, m) = "comma"
SizeOf(ts, i)  == CHOOSE n \in 1..Len(ts) : Ends(ts, i, n)

\* A list has one size.
LEMMA ListEnds ==
    ASSUME NEW ts, Len(ts) \in Nat, NEW i \in 1..Len(ts)
    PROVE  /\ SizeOf(ts, i) \in 1..Len(ts) /\ Ends(ts, i, SizeOf(ts, i))
           /\ \A n \in 1..Len(ts) : Ends(ts, i, n) => n = SizeOf(ts, i)
<1> SUFFICES ASSUME NEW most \in Nat, most = Len(ts)
             PROVE  /\ SizeOf(ts, i) \in 1..most /\ Ends(ts, i, SizeOf(ts, i))
                    /\ \A n \in 1..most : Ends(ts, i, n) => n = SizeOf(ts, i)
  OBVIOUS
<1> DEFINE S == {n \in 1..most : Separator(ts, i, n) # "comma"}
<1>1. most \in S
  <2>1. i \in Nat /\ (i + 1) + 2 * most - 1 > most /\ most \in 1..most
    OBVIOUS
  <2>2. Separator(ts, i, most) = "eof"
    BY <2>1 DEF Separator, Peek
  <2> QED  BY <2>1, <2>2
<1>2. PICK m \in S : \A k \in S : m <= k
  <2>1. S \subseteq Nat /\ S # {}
    BY <1>1
  <2> HIDE DEF S
  <2> QED  BY <2>1, Least
<1>3. Ends(ts, i, m) /\ m \in 1..most
  <2>1. m \in 1..most /\ Separator(ts, i, m) # "comma"
    BY <1>2
  <2>2. ASSUME NEW k \in 1..(m - 1) PROVE Separator(ts, i, k) = "comma"
    <3>1. k \in 1..most /\ ~(m <= k)
      BY <2>1
    <3> QED  BY <1>2, <3>1
  <2> QED  BY <2>1, <2>2 DEF Ends
<1>4. SizeOf(ts, i) \in 1..most /\ Ends(ts, i, SizeOf(ts, i))
  BY <1>3 DEF SizeOf
<1>5. ASSUME NEW n \in 1..most, NEW k \in 1..most, Ends(ts, i, n), Ends(ts, i, k)
      PROVE  n = k
  <2>1. ~(n < k)
    <3> SUFFICES ASSUME n < k PROVE FALSE
      BY <1>5
    <3>1. n \in 1..(k - 1)
      OBVIOUS
    <3> QED  BY <1>5, <3>1 DEF Ends
  <2>2. ~(k < n)
    <3> SUFFICES ASSUME k < n PROVE FALSE
      OBVIOUS
    <3>1. k \in 1..(n - 1)
      OBVIOUS
    <3> QED  BY <1>5, <3>1 DEF Ends
  <2> QED  BY <2>1, <2>2
<1> QED  BY <1>4, <1>5

\* The places of a list are those of its items.
LEMMA PlacesAre ==
    ASSUME NEW i \in Nat, NEW size \in Nat
    PROVE  /\ \A k \in Places(i, i + 2 * size) : \E n \in 1..size : k = (i + 1) + 2 * n - 2
           /\ \A n \in 1..size : (i + 1) + 2 * n - 2 \in Places(i, i + 2 * size)
           /\ \A k \in (i + 1)..(i + 2 * size - 1) :
                 k \notin Places(i, i + 2 * size) => \E n \in 1..(size - 1) : k = (i + 1) + 2 * n - 1
           /\ \A n \in 1..(size - 1) : /\ (i + 1) + 2 * n - 1 \in (i + 1)..(i + 2 * size - 1)
                                      /\ (i + 1) + 2 * n - 1 \notin Places(i, i + 2 * size)
<1>1. ASSUME NEW k \in (i + 1)..(i + 2 * size - 1)
      PROVE  \/ k \in Places(i, i + 2 * size) /\ \E n \in 1..size : k = (i + 1) + 2 * n - 2
             \/ k \notin Places(i, i + 2 * size) /\ \E n \in 1..(size - 1) : k = (i + 1) + 2 * n - 1
  <2>1. k - i \in Nat /\ (k - i) % 2 \in {0, 1}
    OBVIOUS
  <2> DEFINE h == (k - i) \div 2
  <2>2. h \in Nat /\ k - i = 2 * h + ((k - i) % 2)
    BY <2>1
  <2> HIDE DEF h
  <2>3. CASE (k - i) % 2 = 1
    <3>1. h + 1 \in 1..size /\ k = (i + 1) + 2 * (h + 1) - 2
      BY <2>2, <2>3
    <3> QED  BY <2>3, <3>1 DEF Places
  <2>4. CASE (k - i) % 2 = 0
    <3>1. h \in 1..(size - 1) /\ k = (i + 1) + 2 * h - 1
      BY <2>2, <2>4
    <3> QED  BY <2>4, <3>1 DEF Places
  <2> QED  BY <2>1, <2>3, <2>4
<1>2. ASSUME NEW n \in 1..size PROVE (i + 1) + 2 * n - 2 \in Places(i, i + 2 * size)
  BY DEF Places
<1>3. ASSUME NEW n \in 1..(size - 1)
      PROVE  /\ (i + 1) + 2 * n - 1 \in (i + 1)..(i + 2 * size - 1)
             /\ (i + 1) + 2 * n - 1 \notin Places(i, i + 2 * size)
  BY DEF Places
<1>4. Places(i, i + 2 * size) \subseteq (i + 1)..(i + 2 * size - 1)
  BY DEF Places
<1> QED  BY <1>1, <1>2, <1>3, <1>4


\* What ParseList finds of a list of this size.
Resolved(ts, i, n, names) == resolve_wildcard(Item(ts, i, n), names)
GoodList(ts, i, size, names) ==
    /\ Separator(ts, i, size) = ")"
    /\ \A n \in 1..size : Item(ts, i, n) \in Words
    /\ \A n \in 1..size, m \in 1..size :
          n < m => Resolved(ts, i, n, names) \intersect Resolved(ts, i, m, names) = {}

\* What the loop over a list gives, in terms of the items and separators it meets.
LEMMA ParseListIs ==
    ASSUME NEW ts, NEW i, NEW names
    PROVE  ParseList(ts, i + 1, names) =
              IF GoodList(ts, i, SizeOf(ts, i), names)
              THEN Parsed(UNION {Resolved(ts, i, n, names) : n \in 1..SizeOf(ts, i)}, (i + 1) + 2 * SizeOf(ts, i))
              ELSE Failed
BY DEF ParseList, GoodList, Resolved, Item, Separator, SizeOf, Ends

\* What a parser returns says whether it failed.
LEMMA ParsedFields ==
    /\ \A v, p : Parsed(v, p).ok /\ Parsed(v, p).value = v /\ Parsed(v, p).pos = p
    /\ ~Failed.ok
BY DEF Parsed, Failed

\* The items and the separators of a list that ends at j.
LEMMA ListTokens ==
    ASSUME NEW ts, Len(ts) \in Nat, NEW i \in 1..Len(ts), NEW size \in Nat, i + 2 * size <= Len(ts)
    PROVE  /\ \A n \in 1..size : Item(ts, i, n) = ts[(i + 1) + 2 * n - 2]
           /\ \A n \in 1..size : Separator(ts, i, n) = ts[(i + 1) + 2 * n - 1]
<1>1. \A n \in 1..size : (i + 1) + 2 * n - 2 <= Len(ts) /\ (i + 1) + 2 * n - 1 <= Len(ts)
  OBVIOUS
<1> QED  BY <1>1 DEF Item, Separator, Peek

\* A list of the grammar is a list of the parser, and the other way round.
LEMMA ListsAgree ==
    ASSUME NEW ts, Len(ts) \in Nat, NEW i \in 1..Len(ts), ts[i] = "(", NEW names,
           NEW size \in Nat, size # 0, i + 2 * size <= Len(ts)
    PROVE  /\ IsList(ts, i, i + 2 * size, names) <=> Ends(ts, i, size) /\ GoodList(ts, i, size, names)
           /\ Ends(ts, i, size) /\ GoodList(ts, i, size, names) =>
                 ListNames(ts, i, i + 2 * size, names) = UNION {Resolved(ts, i, n, names) : n \in 1..size}
<1> DEFINE j == i + 2 * size
           Place(n) == (i + 1) + 2 * n - 2
           Mark(n) == (i + 1) + 2 * n - 1
           Found(k) == resolve_wildcard(ts[k], names)
<1>1. /\ \A k \in Places(i, j) : \E n \in 1..size : k = Place(n)
      /\ \A n \in 1..size : Place(n) \in Places(i, j)
      /\ \A k \in (i + 1)..(j - 1) : k \notin Places(i, j) => \E n \in 1..(size - 1) : k = Mark(n)
      /\ \A n \in 1..(size - 1) : Mark(n) \in (i + 1)..(j - 1) /\ Mark(n) \notin Places(i, j)
  <2>1. i \in Nat
    OBVIOUS
  <2>2. \A k \in Places(i, i + 2 * size) : \E n \in 1..size : k = (i + 1) + 2 * n - 2
    BY <2>1, PlacesAre
  <2>3. \A n \in 1..size : (i + 1) + 2 * n - 2 \in Places(i, i + 2 * size)
    BY <2>1, PlacesAre
  <2>4. \A k \in (i + 1)..(i + 2 * size - 1) :
           k \notin Places(i, i + 2 * size) => \E n \in 1..(size - 1) : k = (i + 1) + 2 * n - 1
    BY <2>1, PlacesAre
  <2>5. \A n \in 1..(size - 1) : /\ (i + 1) + 2 * n - 1 \in (i + 1)..(i + 2 * size - 1)
                                 /\ (i + 1) + 2 * n - 1 \notin Places(i, i + 2 * size)
    BY <2>1, PlacesAre
  <2> QED  BY <2>2, <2>3, <2>4, <2>5
<1>2. /\ \A n \in 1..size : Item(ts, i, n) = ts[Place(n)]
      /\ \A n \in 1..size : Separator(ts, i, n) = ts[Mark(n)]
      /\ \A n \in 1..size : Resolved(ts, i, n, names) = Found(Place(n))
  BY ListTokens DEF Resolved
<1>3. Mark(size) = j /\ size \in 1..size /\ 1..(size - 1) \subseteq 1..size
  OBVIOUS
<1>4. Places(i, j) \subseteq (i + 1)..(j - 1)
  BY DEF Places
<1>5. \A n, m \in 1..size : /\ n # m => Place(n) # Place(m)
                            /\ n < m \/ m < n \/ n = m
                            /\ n < m => n # m
  OBVIOUS
<1>6. i + 1 < j /\ (j - i) % 2 = 0
  <2>1. j - i = 2 * size
    OBVIOUS
  <2>2. \A k \in Nat : (2 * k) % 2 = 0
    OBVIOUS
  <2> QED  BY <2>1, <2>2
<1> DEFINE List == IsList(ts, i, j, names)
           Distinct == \A k, l \in Places(i, j) : k # l => Found(k) \intersect Found(l) = {}
           Typed == \A k \in (i + 1)..(j - 1) : IF k \in Places(i, j) THEN ts[k] \in Words ELSE ts[k] = "comma"
           Good == GoodList(ts, i, size, names)
           Apart == \A n \in 1..size, m \in 1..size : n < m => Found(Place(n)) \intersect Found(Place(m)) = {}
<1>7. List <=> ts[j] = ")" /\ Typed /\ Distinct
  BY <1>6 DEF IsList
<1>8. Good <=> ts[Mark(size)] = ")" /\ (\A n \in 1..size : ts[Place(n)] \in Words) /\ Apart
  <2> HIDE DEF Place, Mark, Found
  <2> QED  BY <1>2, <1>3 DEF GoodList
<1>9. Ends(ts, i, size) <=> ts[Mark(size)] # "comma" /\ \A n \in 1..(size - 1) : ts[Mark(n)] = "comma"
  <2> HIDE DEF Place, Mark, Found
  <2> QED  BY <1>2, <1>3 DEF Ends
<1>10. ListNames(ts, i, j, names) = UNION {Found(k) : k \in Places(i, j)}
  BY DEF ListNames
<1> HIDE DEF Place, Mark, Found, List, Good, j
<1>11. Distinct <=> Apart
  <2>1. Distinct => Apart
    BY <1>1, <1>5
  <2>2. ASSUME Apart, NEW k \in Places(i, j), NEW l \in Places(i, j), k # l
        PROVE  Found(k) \intersect Found(l) = {}
    <3>1. PICK n \in 1..size, m \in 1..size : k = Place(n) /\ l = Place(m)
      BY <1>1
    <3>2. n < m \/ m < n
      BY <1>5, <2>2, <3>1
    <3>3. n < m => Found(Place(n)) \intersect Found(Place(m)) = {}
      BY <2>2
    <3>4. m < n => Found(Place(m)) \intersect Found(Place(n)) = {}
      BY <2>2
    <3> QED  BY <3>1, <3>2, <3>3, <3>4
  <2> QED  BY <2>1, <2>2
<1>12. Typed <=> /\ \A n \in 1..size : ts[Place(n)] \in Words
                 /\ \A n \in 1..(size - 1) : ts[Mark(n)] = "comma"
  <2>1. ASSUME Typed PROVE \A n \in 1..size : ts[Place(n)] \in Words
    BY <1>1, <1>4, <2>1
  <2>2. ASSUME Typed PROVE \A n \in 1..(size - 1) : ts[Mark(n)] = "comma"
    BY <1>1, <2>2
  <2>3. ASSUME \A n \in 1..size : ts[Place(n)] \in Words,
               \A n \in 1..(size - 1) : ts[Mark(n)] = "comma"
        PROVE  Typed
    BY <1>1, <2>3
  <2> QED  BY <2>1, <2>2, <2>3
<1>13. List <=> Ends(ts, i, size) /\ Good
  <2> HIDE DEF Distinct, Apart, Typed
  <2>1. ")" # "comma"
    OBVIOUS
  <2> QED  BY <1>3, <1>7, <1>8, <1>9, <1>11, <1>12, <2>1
<1>14. UNION {Found(k) : k \in Places(i, j)} = UNION {Resolved(ts, i, n, names) : n \in 1..size}
  <2>1. {Found(k) : k \in Places(i, j)} = {Found(Place(n)) : n \in 1..size}
    BY <1>1
  <2>2. {Found(Place(n)) : n \in 1..size} = {Resolved(ts, i, n, names) : n \in 1..size}
    BY <1>2
  <2> QED  BY <2>1, <2>2
<1> QED  BY <1>10, <1>13, <1>14 DEF List, Good, j

\* The parser reads exactly the lists of the grammar.
LEMMA ListReads ==
    ASSUME NEW ts, Len(ts) \in Nat, NEW i \in 1..Len(ts), ts[i] = "(", NEW names
    PROVE  LET r == ParseList(ts, i + 1, names) IN
           /\ r.ok => /\ r.pos \in (i + 3)..(Len(ts) + 1)
                      /\ IsList(ts, i, r.pos - 1, names)
                      /\ r.value = ListNames(ts, i, r.pos - 1, names)
           /\ \A j \in 0..Len(ts) : IsList(ts, i, j, names) =>
                 r.ok /\ r.pos = j + 1 /\ r.value = ListNames(ts, i, j, names)
<1> DEFINE r == ParseList(ts, i + 1, names)
           size == SizeOf(ts, i)
           items == UNION {Resolved(ts, i, n, names) : n \in 1..size}
<1>1. size \in 1..Len(ts) /\ Ends(ts, i, size) /\ i \in Nat
  BY ListEnds
<1>2. r = IF GoodList(ts, i, size, names) THEN Parsed(items, (i + 1) + 2 * size) ELSE Failed
  BY ParseListIs
<1> HIDE DEF r, size, items
<1>3. ASSUME r.ok
      PROVE  /\ GoodList(ts, i, size, names) /\ r.value = items /\ r.pos = (i + 1) + 2 * size
             /\ i + 2 * size <= Len(ts)
  <2>1. GoodList(ts, i, size, names) /\ r = Parsed(items, (i + 1) + 2 * size)
    BY <1>2, <1>3, ParsedFields
  <2>2. Peek(ts, (i + 1) + 2 * size - 1) = ")"
    BY <2>1 DEF GoodList, Separator
  <2>3. (i + 1) + 2 * size - 1 <= Len(ts)
    BY <2>2 DEF Peek
  <2> QED  BY <1>1, <2>1, <2>3, ParsedFields
<1>4. r.ok => /\ r.pos \in (i + 3)..(Len(ts) + 1)
              /\ IsList(ts, i, r.pos - 1, names)
              /\ r.value = ListNames(ts, i, r.pos - 1, names)
  <2> SUFFICES ASSUME r.ok
               PROVE  /\ r.pos \in (i + 3)..(Len(ts) + 1)
                      /\ IsList(ts, i, r.pos - 1, names)
                      /\ r.value = ListNames(ts, i, r.pos - 1, names)
    OBVIOUS
  <2>1. /\ GoodList(ts, i, size, names) /\ r.value = items /\ r.pos = (i + 1) + 2 * size
        /\ i + 2 * size <= Len(ts)
    BY <1>3
  <2>2. size \in Nat /\ size # 0 /\ r.pos - 1 = i + 2 * size /\ r.pos \in (i + 3)..(Len(ts) + 1)
    BY <1>1, <2>1
  <2>3. /\ IsList(ts, i, i + 2 * size, names)
        /\ ListNames(ts, i, i + 2 * size, names) = items
    BY <1>1, <2>1, <2>2, ListsAgree DEF items
  <2> QED  BY <2>1, <2>2, <2>3
<1>5. ASSUME NEW j \in 0..Len(ts), IsList(ts, i, j, names)
      PROVE  r.ok /\ r.pos = j + 1 /\ r.value = ListNames(ts, i, j, names)
  <2>1. i + 1 < j /\ (j - i) % 2 = 0
    BY <1>5 DEF IsList
  <2>2. PICK n \in Nat : n # 0 /\ j = i + 2 * n
    <3>1. (j - i) \div 2 \in Nat /\ j - i = 2 * ((j - i) \div 2) + ((j - i) % 2)
      BY <1>1, <2>1
    <3>2. j = i + 2 * ((j - i) \div 2) /\ (j - i) \div 2 # 0
      BY <1>1, <2>1, <3>1
    <3> QED  BY <3>1, <3>2
  <2>3. /\ Ends(ts, i, n) /\ GoodList(ts, i, n, names)
        /\ ListNames(ts, i, j, names) = UNION {Resolved(ts, i, m, names) : m \in 1..n}
    <3>1. i + 2 * n <= Len(ts)
      BY <2>2
    <3>2. IsList(ts, i, i + 2 * n, names)
      BY <1>5, <2>2
    <3> QED  BY <2>2, <3>1, <3>2, ListsAgree
  <2>4. n = size
    <3>1. n \in 1..Len(ts)
      BY <1>1, <2>2
    <3> QED  BY <2>3, <3>1, ListEnds DEF size
  <2>5. r = Parsed(ListNames(ts, i, j, names), (i + 1) + 2 * size)
    BY <1>2, <2>3, <2>4 DEF items
  <2>6. (i + 1) + 2 * size = j + 1
    BY <1>1, <2>2, <2>4
  <2> QED  BY <2>5, <2>6, ParsedFields
<1> QED  BY <1>4, <1>5 DEF r

\* The words among the tokens.
WordsIn(ts) == {ts[k] : k \in 1..Len(ts)} \intersect Words

\* What a word resolves to.
LEMMA ResolvedNames ==
    ASSUME NEW names, NEW word
    PROVE  resolve_wildcard(word, names) \subseteq names \union {word}
BY DEF resolve_wildcard

\* A list names identifiers of the rule or words of the condition.
LEMMA ListNamesIn ==
    ASSUME NEW ts, Len(ts) \in Nat, NEW i \in 1..Len(ts), NEW j \in 0..Len(ts), NEW names,
           IsList(ts, i, j, names)
    PROVE  ListNames(ts, i, j, names) \subseteq names \union WordsIn(ts)
<1>1. ASSUME NEW k \in Places(i, j) PROVE k \in 1..Len(ts) /\ ts[k] \in WordsIn(ts)
  <2>1. k \in (i + 1)..(j - 1) /\ k \in 1..Len(ts)
    BY DEF Places
  <2>2. ts[k] \in Words
    BY <2>1 DEF IsList
  <2> QED  BY <2>1, <2>2 DEF WordsIn
<1>2. \A k \in Places(i, j) : resolve_wildcard(ts[k], names) \subseteq names \union WordsIn(ts)
  BY <1>1, ResolvedNames
<1> QED  BY <1>2 DEF ListNames

\* A target is read as the grammar has it.
LEMMA TargetReads ==
    ASSUME NEW ts, Len(ts) \in Nat, NEW p \in 1..(Len(ts) + 1), NEW names
    PROVE  LET r == parse_of_target(ts, p, names) IN
           /\ r.ok => /\ r.pos \in (p + 1)..(Len(ts) + 1)
                      /\ Targets(ts, p, r.pos - 1, names) = {r.value}
                      /\ r.value \subseteq names \union WordsIn(ts)
           /\ \A j \in 0..Len(ts) : Targets(ts, p, j, names) # {} =>
                 r.ok /\ r.pos = j + 1
<1> DEFINE r == parse_of_target(ts, p, names)
<1>0. p \in Nat /\ \A w \in Words : w # "them" /\ w # "(" /\ w # "eof"
  BY TokenKinds
<1>1. CASE p = Len(ts) + 1
  <2>1. Peek(ts, p) = "eof"
    BY <1>1 DEF Peek
  <2>2. r = Failed
    <3>1. Peek(ts, p) # "them" /\ Peek(ts, p) \notin Words /\ Peek(ts, p) # "("
      BY <1>0, <2>1
    <3> QED  BY <3>1 DEF parse_of_target
  <2>3. ASSUME NEW j \in 0..Len(ts) PROVE Targets(ts, p, j, names) = {}
    <3>1. p # j /\ ~IsList(ts, p, j, names)
      BY <1>1 DEF IsList
    <3> QED  BY <3>1 DEF Targets
  <2> QED  BY <2>2, <2>3, ParsedFields
<1>2. CASE p \in 1..Len(ts)
  <2>0. Peek(ts, p) = ts[p] /\ p + 1 \in (p + 1)..(Len(ts) + 1) /\ (p + 1) - 1 = p
    BY <1>2 DEF Peek
  <2>1. CASE ts[p] = "them"
    <3>1. r = Parsed(names, p + 1)
      <4>1. Peek(ts, p) = "them" /\ Peek(ts, p) \notin Words /\ Peek(ts, p) # "("
        BY <1>0, <2>0, <2>1
      <4> QED  BY <4>1 DEF parse_of_target
    <3>2. ASSUME NEW j \in 0..Len(ts)
          PROVE  Targets(ts, p, j, names) = IF p = j THEN {names} ELSE {}
      <4>1. ~IsList(ts, p, j, names) /\ ts[p] \notin Words
        BY <1>0, <2>1 DEF IsList
      <4> QED  BY <2>1, <4>1 DEF Targets
    <3>3. r.ok /\ r.value = names /\ r.pos = p + 1
      BY <3>1, ParsedFields
    <3> HIDE DEF r
    <3>4. p \in 0..Len(ts)
      BY <1>2
    <3> QED  BY <2>0, <3>2, <3>3, <3>4 DEF r
  <2>2. CASE ts[p] \in Words
    <3>1. r = Parsed(resolve_wildcard(ts[p], names), p + 1)
      BY <1>0, <2>0, <2>2 DEF parse_of_target
    <3>2. ASSUME NEW j \in 0..Len(ts)
          PROVE  Targets(ts, p, j, names) = IF p = j THEN {resolve_wildcard(ts[p], names)} ELSE {}
      <4>1. ~IsList(ts, p, j, names) /\ ts[p] # "them"
        BY <1>0, <2>2 DEF IsList
      <4> QED  BY <2>2, <4>1 DEF Targets
    <3>3. r.ok /\ r.value = resolve_wildcard(ts[p], names) /\ r.pos = p + 1
      BY <3>1, ParsedFields
    <3>4. resolve_wildcard(ts[p], names) \subseteq names \union WordsIn(ts)
      BY <1>2, <2>2, ResolvedNames DEF WordsIn
    <3> HIDE DEF r
    <3>5. p \in 0..Len(ts)
      BY <1>2
    <3> QED  BY <2>0, <3>2, <3>3, <3>4, <3>5 DEF r
  <2>3. CASE ts[p] = "("
    <3> DEFINE l == ParseList(ts, p + 1, names)
    <3>1. ts[p] # "them" /\ ts[p] \notin Words
      BY <1>0, <2>3
    <3>2. r = l
      BY <2>0, <2>3, <3>1 DEF parse_of_target
    <3>3. ASSUME NEW j \in 0..Len(ts)
          PROVE  Targets(ts, p, j, names) = IF IsList(ts, p, j, names) THEN {ListNames(ts, p, j, names)} ELSE {}
      BY <3>1 DEF Targets
    <3>4. /\ l.ok => /\ l.pos \in (p + 3)..(Len(ts) + 1)
                     /\ IsList(ts, p, l.pos - 1, names)
                     /\ l.value = ListNames(ts, p, l.pos - 1, names)
          /\ \A j \in 0..Len(ts) : IsList(ts, p, j, names) =>
                l.ok /\ l.pos = j + 1 /\ l.value = ListNames(ts, p, j, names)
      BY <1>2, <2>3, ListReads
    <3> HIDE DEF r, l
    <3>5. r.ok => r.pos - 1 \in 0..Len(ts) /\ r.pos \in (p + 1)..(Len(ts) + 1)
      BY <1>0, <3>2, <3>4
    <3>6. r.ok => r.value \subseteq names \union WordsIn(ts)
      BY <1>2, <3>2, <3>4, <3>5, ListNamesIn
    <3> QED  BY <3>2, <3>3, <3>4, <3>5, <3>6 DEF r
  <2>4. CASE ts[p] # "them" /\ ts[p] \notin Words /\ ts[p] # "("
    <3>1. r = Failed
      BY <2>0, <2>4 DEF parse_of_target
    <3>2. ASSUME NEW j \in 0..Len(ts) PROVE Targets(ts, p, j, names) = {}
      <4>1. ~IsList(ts, p, j, names)
        BY <2>4 DEF IsList
      <4> QED  BY <2>4, <4>1 DEF Targets
    <3> QED  BY <3>1, <3>2, ParsedFields
  <2> QED  BY <2>1, <2>2, <2>3, <2>4
<1> QED  BY <1>1, <1>2

\* The outcomes that satisfy a node.
Truths(n, names) == {t \in SUBSET names : evaluate(n, t)}

\* The count that ParseQuantifier gives to its node.
CountOf(q) == IF q = "all" THEN 0 ELSE Quantity[q]

\* The count stored in a node is a number, and 0 stands for `all`.
LEMMA CountFacts ==
    ASSUME NEW q \in Numbers \union {"all"}
    PROVE  /\ CountOf(q) \in Nat
           /\ CountOf(q) = 0 <=> q \in {"all", "0"}
           /\ q \notin {"all", "0"} => CountOf(q) = Quantity[q]
<1>1. Quantity["0"] = 0 /\ Quantity["1"] = 1 /\ Quantity["2"] = 2
  BY DEF Quantity
<1>2. q \in {"0", "1", "2", "all"}
  BY TokenKinds
<1> QED  BY <1>1, <1>2 DEF CountOf

\* Counting says of a group what the grammar says of it.
LEMMA GroupMeans ==
    ASSUME NEW names, NEW group, IsFiniteSet(group), NEW t \in SUBSET names,
           NEW q \in Numbers \union {"all"}
    PROVE  OneOf(CountOf(q), Cardinality(group), Cardinality(group \intersect t))
              <=> t \in Quantified(q, group, names)
<1> DEFINE size == Cardinality(group)
           matched == Cardinality(group \intersect t)
<1>1. size \in Nat /\ matched \in Nat /\ (matched = size <=> group \subseteq t) /\ (size = 0 <=> group = {})
  <2>1. group \intersect t \subseteq group
    OBVIOUS
  <2>2. matched = size => group \intersect t = group
    BY <2>1, FS_Subset
  <2>3. group \subseteq t => group \intersect t = group
    OBVIOUS
  <2>4. size \in Nat /\ matched \in Nat
    BY <2>1, FS_Subset, FS_CardinalityType
  <2>5. size = 0 <=> group = {}
    BY FS_EmptySet
  <2> QED  BY <2>2, <2>3, <2>4, <2>5
<1> HIDE DEF size, matched
<1>2. CASE q \in {"all", "0"}
  <2>1. OneOf(CountOf(q), size, matched) <=> matched = size /\ size > 0
    BY <1>2, CountFacts DEF OneOf
  <2>2. t \in Quantified(q, group, names) <=> group # {} /\ group \subseteq t
    BY <1>2 DEF Quantified
  <2>3. size > 0 <=> group # {}
    BY <1>1
  <2> QED  BY <1>1, <2>1, <2>2, <2>3 DEF size, matched
<1>3. CASE q \notin {"all", "0"}
  <2>1. OneOf(CountOf(q), size, matched) <=> matched >= Quantity[q]
    BY <1>3, CountFacts DEF OneOf
  <2>2. t \in Quantified(q, group, names) <=> matched >= Quantity[q]
    BY <1>3 DEF Quantified, matched
  <2> QED  BY <2>1, <2>2 DEF size, matched
<1> QED  BY <1>2, <1>3

\* A quantifier is read as the grammar has it.
QuantifierAsMeant(ts, p, names, r) ==
    /\ r.ok => /\ ts[p + 1] = "of" /\ r.pos \in (p + 3)..(Len(ts) + 1)
               /\ \E group \in SUBSET (names \union WordsIn(ts)) :
                     /\ Targets(ts, p + 2, r.pos - 1, names) = {group}
                     /\ r.value = [op |-> "of", names |-> group, count |-> CountOf(ts[p])]
    /\ \A j \in (p + 2)..Len(ts) :
          ts[p + 1] = "of" /\ Targets(ts, p + 2, j, names) # {} => r.ok /\ r.pos = j + 1

\* A quantifier is parsed where the grammar has one, to the same targets and outcomes.
LEMMA QuantifierReads ==
    ASSUME NEW ts, Len(ts) \in Nat, NEW p \in 1..Len(ts), NEW names
    PROVE  QuantifierAsMeant(ts, p, names, ParseQuantifier(ts, p, names))
<1> DEFINE r == ParseQuantifier(ts, p, names)
           target == parse_of_target(ts, p + 2, names)
<1>0. p \in Nat
  OBVIOUS
<1>1. r = IF Peek(ts, p + 1) # "of" \/ ~target.ok THEN Failed
          ELSE Parsed([op |-> "of", names |-> target.value, count |-> CountOf(ts[p])], target.pos)
  BY DEF ParseQuantifier, CountOf
<1>2. p + 1 <= Len(ts) =>
         /\ target.ok => /\ target.pos \in (p + 3)..(Len(ts) + 1)
                         /\ Targets(ts, p + 2, target.pos - 1, names) = {target.value}
                         /\ target.value \subseteq names \union WordsIn(ts)
         /\ \A j \in 0..Len(ts) : Targets(ts, p + 2, j, names) # {} =>
               target.ok /\ target.pos = j + 1
  <2> SUFFICES ASSUME p + 1 <= Len(ts)
               PROVE  /\ target.ok => /\ target.pos \in (p + 3)..(Len(ts) + 1)
                                      /\ Targets(ts, p + 2, target.pos - 1, names) = {target.value}
                                      /\ target.value \subseteq names \union WordsIn(ts)
                      /\ \A j \in 0..Len(ts) : Targets(ts, p + 2, j, names) # {} =>
                            target.ok /\ target.pos = j + 1
    OBVIOUS
  <2>1. p + 2 \in 1..(Len(ts) + 1) /\ (p + 2) + 1 = p + 3
    BY <1>0
  <2> QED  BY <2>1, TargetReads
<1> HIDE DEF r, target
<1>3. ASSUME r.ok
      PROVE  /\ ts[p + 1] = "of" /\ r.pos \in (p + 3)..(Len(ts) + 1)
             /\ \E group \in SUBSET (names \union WordsIn(ts)) :
                   /\ Targets(ts, p + 2, r.pos - 1, names) = {group}
                   /\ r.value = [op |-> "of", names |-> group, count |-> CountOf(ts[p])]
  <2>1. /\ Peek(ts, p + 1) = "of" /\ target.ok
        /\ r = Parsed([op |-> "of", names |-> target.value, count |-> CountOf(ts[p])], target.pos)
    BY <1>1, <1>3, ParsedFields
  <2>2. p + 1 <= Len(ts) /\ ts[p + 1] = "of"
    BY <2>1 DEF Peek
  <2>3. r.pos = target.pos /\ r.value = [op |-> "of", names |-> target.value, count |-> CountOf(ts[p])]
    BY <2>1, ParsedFields
  <2> QED  BY <1>2, <2>1, <2>2, <2>3
<1>4. ASSUME NEW j \in (p + 2)..Len(ts), ts[p + 1] = "of", Targets(ts, p + 2, j, names) # {}
      PROVE  r.ok /\ r.pos = j + 1
  <2>1. p + 1 <= Len(ts) /\ j \in 0..Len(ts)
    BY <1>0
  <2>2. Peek(ts, p + 1) = "of" /\ target.ok /\ target.pos = j + 1
    BY <1>2, <1>4, <2>1 DEF Peek
  <2> QED  BY <1>1, <2>2, ParsedFields
<1> QED  BY <1>3, <1>4 DEF r, QuantifierAsMeant

\* What a target of a valid condition stands for: some identifiers of the rule, or
\* names of aggregation functions.
LEMMA TargetsResolve ==
    ASSUME NEW ts, Len(ts) \in Nat, NEW names \in SUBSET (Identifiers \union Aggregates), names # {}, validate_conditions(ts, names),
           NEW i \in 1..Len(ts), NEW j \in 0..Len(ts), NEW group \in Targets(ts, i, j, names)
    PROVE  group # {} /\ group \subseteq names \union Aggregates
<1>1. ASSUME NEW k \in 1..Len(ts), ts[k] \in Words
      PROVE  LET found == resolve_wildcard(ts[k], names) IN found # {} /\ found \subseteq names \union Aggregates
  <2>1. WordIsDefined(ts[k], names)
    BY <1>1 DEF validate_conditions
  <2>2. CASE ts[k] \in Patterns
    <3>1. ts[k] \notin Aggregates /\ ts[k] \notin names
      BY <2>2, WordAssumption
    <3>2. resolve_wildcard(ts[k], names) = Starts[ts[k]] \intersect names
      BY <2>2 DEF resolve_wildcard
    <3>3. CASE Checked[ts[k]] \intersect names # {}
      <4>1. Checked[ts[k]] \subseteq Starts[ts[k]]
        BY <2>2, PatternAssumption
      <4> QED  BY <3>2, <3>3, <4>1
    <3> QED  BY <2>1, <3>1, <3>3 DEF WordIsDefined
  <2>3. CASE ts[k] \notin Patterns
    <3>1. resolve_wildcard(ts[k], names) = {ts[k]} /\ ts[k] \in names \union Aggregates
      BY <2>1, <2>3 DEF resolve_wildcard, WordIsDefined
    <3> QED  BY <3>1
  <2> QED  BY <2>2, <2>3
<1>2. CASE group = names
  BY <1>2
<1>3. CASE ts[i] \in Words /\ group = resolve_wildcard(ts[i], names)
  BY <1>1, <1>3
<1>4. CASE IsList(ts, i, j, names) /\ group = ListNames(ts, i, j, names)
  <2>1. \A k \in Places(i, j) : k \in 1..Len(ts) /\ ts[k] \in Words
    BY <1>4 DEF IsList, Places
  <2>2. i + 1 \in Places(i, j)
    BY <1>4 DEF IsList, Places
  <2>3. group = UNION {resolve_wildcard(ts[k], names) : k \in Places(i, j)}
    BY <1>4 DEF ListNames
  <2>4. \A k \in Places(i, j) : /\ resolve_wildcard(ts[k], names) # {}
                                /\ resolve_wildcard(ts[k], names) \subseteq names \union Aggregates
    BY <1>1, <2>1
  <2> DEFINE Found(k) == resolve_wildcard(ts[k], names)
  <2> HIDE DEF Found
  <2>5. group = UNION {Found(k) : k \in Places(i, j)}
    BY <2>3 DEF Found
  <2>6. \A k \in Places(i, j) : Found(k) # {} /\ Found(k) \subseteq names \union Aggregates
    BY <2>4 DEF Found
  <2>7. group \subseteq names \union Aggregates
    BY <2>5, <2>6
  <2>8. PICK w : w \in Found(i + 1)
    BY <2>2, <2>6
  <2> QED  BY <2>2, <2>5, <2>7, <2>8
<1>5. \/ group = names
      \/ ts[i] \in Words /\ group = resolve_wildcard(ts[i], names)
      \/ IsList(ts, i, j, names) /\ group = ListNames(ts, i, j, names)
  BY DEF Targets
<1> QED  BY <1>2, <1>3, <1>4, <1>5

-----------------------------------------------------------------------------
(* The parser and the grammar.                                              *)

\* A condition of a rule with these identifiers, and the leaves its parsers build.
Setting(ts, names, leaves) ==
    /\ Len(ts) \in 0..Longest
    /\ names \subseteq Identifiers \union Aggregates /\ IsFiniteSet(names)
    /\ leaves \subseteq Leaves
    /\ \A p \in 1..Len(ts) :
          /\ ts[p] \in Words => [op |-> "name", name |-> ts[p]] \in leaves
          /\ ts[p] \in Numbers \union {"all"} /\ ParseQuantifier(ts, p, names).ok =>
                ParseQuantifier(ts, p, names).value \in leaves

\* What a parser builds at p is a tree, no deeper than the tokens it took, with a
\* meaning of those tokens.
Sound(ts, names, leaves, as, p, r) ==
    r.ok => /\ r.pos \in (p + 1)..(Len(ts) + 1)
            /\ r.value \in Trees(leaves, r.pos - p)
            /\ Truths(r.value, names) \in MeansOf(ts, names)[Span(as, p, r.pos - 1)]

\* If the d tokens at p, or fewer, mean something and could not go on, the parser takes
\* them and builds that.
Stops(as) == IF as = "or" THEN {"or", "and"} ELSE IF as = "and" THEN {"and"} ELSE {}
Complete(ts, names, as, p, r, d) ==
    \A j \in 0..Len(ts) : \A x \in MeansOf(ts, names)[Span(as, p, j)] :
        (j + 1) - p <= d /\ Peek(ts, j + 1) \notin Stops(as) =>
            r.ok /\ r.pos = j + 1 /\ Truths(r.value, names) = x

\* Both, at every position.
Correct(ts, names, leaves, as, parse, d) ==
    \A p \in Positions(ts) : Sound(ts, names, leaves, as, p, parse[p]) /\ Complete(ts, names, as, p, parse[p], d)

\* The trees over the leaves of a setting are nodes.
LEMMA TreesAreNodes ==
    ASSUME NEW leaves \in SUBSET Leaves, NEW d \in 0..Longest
    PROVE  Trees(leaves, d) \subseteq Nodes
<1>1. Longest \in Nat /\ d \in Nat /\ d <= Longest
  BY ConditionAssumption
<1>2. Trees(leaves, d) \subseteq Trees(Leaves, d)
  BY <1>1, TreesWiden
<1>3. Trees(Leaves, d) \subseteq Trees(Leaves, Longest)
  BY <1>1, TreesGrow
<1> QED  BY <1>2, <1>3 DEF Nodes

\* A node with two parts.
Joined(op, left, right) == [op |-> op, left |-> left, right |-> right]

\* Two trees joined make a tree one level deeper than both together.
LEMMA JoinedTree ==
    ASSUME NEW leaves \in SUBSET Leaves, NEW op \in {"or", "and"}, NEW a \in Nat, NEW b \in Nat,
           NEW left \in Trees(leaves, a), NEW right \in Trees(leaves, b)
    PROVE  Joined(op, left, right) \in Trees(leaves, (a + b) + 1)
<1>1. a + b \in Nat /\ a <= a + b /\ b <= a + b
  OBVIOUS
<1>2. left \in Trees(leaves, a + b) /\ right \in Trees(leaves, a + b)
  BY <1>1, TreesGrow
<1>3. Trees(leaves, (a + b) + 1) = Combined(Trees(leaves, a + b))
  BY <1>1, TreesUnfold
<1> QED  BY <1>2, <1>3 DEF Combined, Joined

\* What satisfies a conjunction or disjunction, from what satisfies its sides.
LEMMA JoinedTruths ==
    ASSUME NEW op \in {"or", "and"}, NEW left, NEW right, Joined(op, left, right) \in Nodes, NEW names
    PROVE  Truths(Joined(op, left, right), names) = Join(op, Truths(left, names), Truths(right, names))
<1> DEFINE n == Joined(op, left, right)
<1>1. n \in Nodes /\ n.op = op /\ n.left = left /\ n.right = right
  BY DEF Joined
<1> HIDE DEF n
<1>2. op = "or" => \A t : evaluate(n, t) <=> evaluate(left, t) \/ evaluate(right, t)
  BY <1>1, EvaluateNode
<1>3. op = "and" => \A t : evaluate(n, t) <=> evaluate(left, t) /\ evaluate(right, t)
  BY <1>1, EvaluateNode
<1>4. Truths(n, names) = Join(op, Truths(left, names), Truths(right, names))
  BY <1>2, <1>3 DEF Truths, Join
<1> QED  BY <1>4 DEF n

\* A negated node.
Negated(inner) == [op |-> "not", inner |-> inner]

\* A tree negated is one level deeper, and satisfied by the other outcomes.
LEMMA NegatedTree ==
    ASSUME NEW leaves \in SUBSET Leaves, NEW names, NEW a \in Nat, a + 1 <= Longest,
           NEW inner \in Trees(leaves, a)
    PROVE  /\ Negated(inner) \in Trees(leaves, a + 1)
           /\ Truths(Negated(inner), names) = (SUBSET names) \ Truths(inner, names)
<1> DEFINE n == [op |-> "not", inner |-> inner]
<1>1. n \in Trees(leaves, a + 1)
  BY TreesUnfold DEF Combined
<1>2. n \in Nodes
  <2>1. a + 1 \in 0..Longest
    BY ConditionAssumption
  <2> QED  BY <1>1, <2>1, TreesAreNodes
<1>3. n.op = "not" /\ n.inner = inner
  OBVIOUS
<1> HIDE DEF n
<1>4. \A t : evaluate(n, t) <=> ~evaluate(inner, t)
  BY <1>2, <1>3, EvaluateNode
<1>5. Truths(n, names) = (SUBSET names) \ Truths(inner, names)
  BY <1>4 DEF Truths
<1> QED  BY <1>1, <1>5 DEF n, Negated

\* The nodes of a name and of a quantifier.
LEMMA LeafTruths ==
    ASSUME NEW names
    PROVE  /\ \A w \in Words : Truths([op |-> "name", name |-> w], names) = {t \in SUBSET names : w \in t}
           /\ \A group \in SUBSET Words, q \in Numbers \union {"all"} :
                 IsFiniteSet(group) =>
                    Truths([op |-> "of", names |-> group, count |-> CountOf(q)], names) = Quantified(q, group, names)
<1>0. Leaves \subseteq Nodes
  <2>1. 0 \in 0..Longest /\ Trees(Leaves, 0) = Leaves
    BY ConditionAssumption, TreesUnfold
  <2> QED  BY <2>1, TreesAreNodes
<1>1. ASSUME NEW w \in Words
      PROVE  Truths([op |-> "name", name |-> w], names) = {t \in SUBSET names : w \in t}
  <2> DEFINE n == [op |-> "name", name |-> w]
  <2>1. n \in Nodes /\ n.op = "name" /\ n.name = w
    BY <1>0 DEF Leaves, NameNodes
  <2> HIDE DEF n
  <2>2. \A t : evaluate(n, t) <=> w \in t
    BY <2>1, EvaluateNode
  <2>3. Truths(n, names) = {t \in SUBSET names : w \in t}
    BY <2>2 DEF Truths
  <2> QED  BY <2>3 DEF n
<1>2. ASSUME NEW group \in SUBSET Words, NEW q \in Numbers \union {"all"}, IsFiniteSet(group)
      PROVE  Truths([op |-> "of", names |-> group, count |-> CountOf(q)], names) = Quantified(q, group, names)
  <2> DEFINE n == [op |-> "of", names |-> group, count |-> CountOf(q)]
  <2>0. CountOf(q) \in Nat
    BY CountFacts
  <2>1. n \in Nodes /\ n.op = "of" /\ n.names = group /\ n.count = CountOf(q)
    BY <1>0, <2>0 DEF Leaves, OneOfNodes
  <2> HIDE DEF n
  <2>2. \A t : evaluate(n, t) <=> OneOf(CountOf(q), Cardinality(group), Cardinality(group \intersect t))
    BY <2>1, EvaluateNode
  <2>3. \A t \in SUBSET names : evaluate(n, t) <=> t \in Quantified(q, group, names)
    BY <1>2, <2>2, GroupMeans
  <2>4. Quantified(q, group, names) \subseteq SUBSET names
    BY DEF Quantified
  <2>5. Truths(n, names) = Quantified(q, group, names)
    BY <2>3, <2>4 DEF Truths
  <2> QED  BY <2>5 DEF n
<1> QED  BY <1>1, <1>2

\* The words of a condition are finitely many.
LEMMA WordsFinite ==
    ASSUME NEW ts, Len(ts) \in Nat
    PROVE  IsFiniteSet(WordsIn(ts))
<1>1. IsFiniteSet(1..Len(ts))
  BY FS_Interval
<1>2. IsFiniteSet({ts[k] : k \in 1..Len(ts)})
  <2> DEFINE S == 1..Len(ts)
             T == {ts[k] : k \in S}
             f == [k \in S |-> ts[k]]
  <2>1. f \in Surjection(S, T)
    <3> HIDE DEF S
    <3> QED  BY DEF Surjection
  <2> HIDE DEF S, T, f
  <2>2. IsFiniteSet(T)
    BY <1>1, <2>1, FS_Surjection DEF S
  <2> QED  BY <2>2 DEF T, S
<1> QED  BY <1>2, FS_Subset DEF WordsIn

\* Every position of a parse is within the tokens or just after them.
LEMMA PositionFacts ==
    ASSUME NEW ts, Len(ts) \in Nat
    PROVE  /\ Positions(ts) = 1..(Len(ts) + 1)
           /\ \A p \in Positions(ts) : Peek(ts, p) # "eof" => p \in 1..Len(ts) /\ Peek(ts, p) = ts[p]
           /\ \A p \in 1..Len(ts) : p \in Positions(ts) /\ p + 1 \in Positions(ts) /\ Peek(ts, p) = ts[p]
BY DEF Positions, Peek

\* A parser of primaries is correct if the parser of the expressions in them is.
LEMMA PrimaryCorrect ==
    ASSUME NEW ts, NEW names, NEW leaves, Setting(ts, names, leaves),
           NEW expr, NEW d \in Nat, Correct(ts, names, leaves, "or", expr, d),
           NEW p \in Positions(ts)
    PROVE  LET r == parse_primary(ts, p, names, expr) IN
           /\ Sound(ts, names, leaves, "primary", p, r)
           /\ Complete(ts, names, "primary", p, r, d + 1)
<1> DEFINE r == parse_primary(ts, p, names, expr)
           means == MeansOf(ts, names)
<1>0. /\ Len(ts) \in Nat /\ Len(ts) <= Longest /\ p \in 1..(Len(ts) + 1) /\ p \in Nat /\ Longest \in Nat
      /\ leaves \in SUBSET Leaves /\ IsFiniteSet(names) /\ names \subseteq Words
  BY ConditionAssumption, PositionFacts DEF Setting, Words
<1>1. /\ \A j \in 0..Len(ts) : means[Span("primary", p, j)] =
             IF p = j /\ ts[p] \in Words THEN {{t \in SUBSET names : ts[p] \in t}}
             ELSE IF p + 1 < j /\ ts[p] = "(" /\ ts[j] = ")" THEN means[Span("or", p + 1, j - 1)]
             ELSE IF p + 1 < j /\ ts[p] \in Numbers \union {"all"} /\ ts[p + 1] = "of"
             THEN {Quantified(ts[p], targets, names) : targets \in Targets(ts, p + 2, j, names)}
             ELSE {}
  BY <1>0, MeansPrimary
<1> HIDE DEF means
<1>2. ASSUME NEW j \in 0..Len(ts), NEW x \in means[Span("primary", p, j)] PROVE p <= j
  BY <1>0, <1>2, MeansNonempty DEF Constructs, means
<1>3. CASE Peek(ts, p) = "eof"
  <2>1. r = Failed
    <3>1. Peek(ts, p) # "(" /\ Peek(ts, p) \notin Numbers \union {"all"} /\ Peek(ts, p) \notin Words
      BY <1>3, TokenKinds
    <3> QED  BY <3>1 DEF parse_primary
  <2>2. \A j \in 0..Len(ts) : means[Span("primary", p, j)] = {}
    <3>1. CASE p = Len(ts) + 1
      <4>1. \A j \in 0..Len(ts) : ~(p <= j)
        BY <1>0, <3>1
      <4> QED  BY <1>2, <4>1
    <3>2. CASE p \in 1..Len(ts)
      <4>1. ts[p] = "eof"
        BY <1>3, <3>2 DEF Peek
      <4>2. ts[p] # "(" /\ ts[p] \notin Numbers \union {"all"} /\ ts[p] \notin Words
        BY <4>1, TokenKinds
      <4> QED  BY <1>1, <4>2
    <3> QED  BY <1>0, <3>1, <3>2
  <2> QED  BY <2>1, <2>2, ParsedFields DEF Sound, Complete, means
<1>4. CASE Peek(ts, p) # "eof"
  <2>0. p \in 1..Len(ts) /\ Peek(ts, p) = ts[p] /\ p + 1 \in Positions(ts)
    BY <1>0, <1>4, PositionFacts
  <2>1. CASE ts[p] = "("
    <3> DEFINE e == expr[p + 1]
    <3>0. ts[p] \notin Words /\ ts[p] \notin Numbers \union {"all"}
      BY <2>1, TokenKinds
    <3>1. r = IF e.ok /\ Peek(ts, e.pos) = ")" THEN Parsed(e.value, e.pos + 1) ELSE Failed
      BY <2>0, <2>1, <3>0 DEF parse_primary
    <3>2. Sound(ts, names, leaves, "or", p + 1, e) /\ Complete(ts, names, "or", p + 1, e, d)
      BY <2>0 DEF Correct
    <3> HIDE DEF r, e
    <3>3. ASSUME r.ok
          PROVE  /\ r.pos \in (p + 1)..(Len(ts) + 1)
                 /\ r.value \in Trees(leaves, r.pos - p)
                 /\ Truths(r.value, names) \in means[Span("primary", p, r.pos - 1)]
      <4>1. e.ok /\ Peek(ts, e.pos) = ")" /\ r = Parsed(e.value, e.pos + 1)
        BY <3>1, <3>3, ParsedFields
      <4>2. r.value = e.value /\ r.pos = e.pos + 1
        BY <4>1, ParsedFields
      <4>3. /\ e.pos \in (p + 2)..(Len(ts) + 1)
            /\ e.value \in Trees(leaves, e.pos - (p + 1))
            /\ Truths(e.value, names) \in means[Span("or", p + 1, e.pos - 1)]
        <5>1. (p + 1) + 1 = p + 2
          BY <1>0
        <5> QED  BY <3>2, <4>1, <5>1 DEF Sound, means
      <4>4. e.pos <= Len(ts) /\ ts[e.pos] = ")"
        BY <4>1 DEF Peek
      <4>5. /\ r.pos - 1 = e.pos /\ r.pos - 1 \in 0..Len(ts) /\ p + 1 < r.pos - 1
            /\ r.pos \in (p + 1)..(Len(ts) + 1)
            /\ e.pos - (p + 1) \in Nat /\ r.pos - p \in Nat /\ e.pos - (p + 1) <= r.pos - p
        <5>1. e.pos \in (p + 2)..(Len(ts) + 1) /\ e.pos <= Len(ts) /\ r.pos = e.pos + 1
          BY <4>2, <4>3, <4>4
        <5>2. e.pos \in Nat /\ p + 2 <= e.pos
          BY <1>0, <5>1
        <5>3. \A x \in Nat : p + 2 <= x /\ x <= Len(ts) =>
                 /\ (x + 1) - 1 = x /\ x \in 0..Len(ts) /\ p + 1 < x
                 /\ x + 1 \in (p + 1)..(Len(ts) + 1)
                 /\ x - (p + 1) \in Nat /\ (x + 1) - p \in Nat /\ x - (p + 1) <= (x + 1) - p
          BY <1>0
        <5> QED  BY <5>1, <5>2, <5>3
      <4>6. r.value \in Trees(leaves, r.pos - p)
        BY <4>2, <4>3, <4>5, TreesGrow
      <4>7. means[Span("primary", p, r.pos - 1)] = means[Span("or", p + 1, e.pos - 1)]
        BY <1>1, <2>1, <3>0, <4>4, <4>5
      <4> QED  BY <4>2, <4>3, <4>5, <4>6, <4>7
    <3>4. ASSUME NEW j \in 0..Len(ts), NEW x \in means[Span("primary", p, j)], (j + 1) - p <= d + 1
          PROVE  r.ok /\ r.pos = j + 1 /\ Truths(r.value, names) = x
      <4>1. p + 1 < j /\ ts[j] = ")" /\ x \in means[Span("or", p + 1, j - 1)]
        BY <1>1, <3>0, <3>4
      <4>2. j - 1 \in 0..Len(ts) /\ ((j - 1) + 1) - (p + 1) <= d /\ (j - 1) + 1 = j /\ j \in 1..Len(ts)
        BY <1>0, <3>4, <4>1
      <4>3. Peek(ts, j) = ")"
        BY <4>1, <4>2 DEF Peek
      <4>4. e.ok /\ e.pos = j /\ Truths(e.value, names) = x
        <5>1. ")" \notin Stops("or")
          BY DEF Stops
        <5>2. Peek(ts, (j - 1) + 1) \notin Stops("or")
          BY <4>2, <4>3, <5>1
        <5>3. x \in MeansOf(ts, names)[Span("or", p + 1, j - 1)]
          BY <4>1 DEF means
        <5> QED  BY <3>2, <4>2, <5>2, <5>3 DEF Complete
      <4> QED  BY <3>1, <4>3, <4>4, ParsedFields
    <3> QED  BY <3>3, <3>4 DEF Sound, Complete, means, r
  <2>2. CASE ts[p] \in Numbers \union {"all"}
    <3> DEFINE q == ParseQuantifier(ts, p, names)
    <3>0. ts[p] \notin Words /\ ts[p] # "("
      BY <2>2, TokenKinds
    <3>1. r = q
      BY <2>0, <2>2, <3>0 DEF parse_primary, q
    <3> HIDE DEF q
    <3>9. /\ Len(ts) \in Nat /\ p \in 1..Len(ts)
      BY <1>0, <2>0
    <3>2. QuantifierAsMeant(ts, p, names, q)
      BY <3>9, QuantifierReads DEF q
    <3>8. q.ok => /\ ts[p + 1] = "of" /\ q.pos \in (p + 3)..(Len(ts) + 1)
                  /\ \E group \in SUBSET (names \union WordsIn(ts)) :
                        /\ Targets(ts, p + 2, q.pos - 1, names) = {group}
                        /\ q.value = [op |-> "of", names |-> group, count |-> CountOf(ts[p])]
      BY <3>2 DEF QuantifierAsMeant
    <3>7. \A j \in (p + 2)..Len(ts) :
             ts[p + 1] = "of" /\ Targets(ts, p + 2, j, names) # {} => q.ok /\ q.pos = j + 1
      BY <3>2 DEF QuantifierAsMeant
    <3>3. q.ok => q.value \in leaves
      BY <2>0, <2>2 DEF Setting, q
    <3> HIDE DEF r
    <3>4. ASSUME q.ok, NEW j \in 0..Len(ts), q.pos = j + 1
          PROVE  p + 1 < j /\ means[Span("primary", p, j)] = {Truths(q.value, names)}
      <4>1. PICK group \in SUBSET (names \union WordsIn(ts)) :
               /\ Targets(ts, p + 2, q.pos - 1, names) = {group}
               /\ q.value = [op |-> "of", names |-> group, count |-> CountOf(ts[p])]
        BY <3>8, <3>4
      <4>2. p + 1 < j /\ q.pos - 1 = j
        BY <1>0, <3>8, <3>4
      <4>3. means[Span("primary", p, j)] =
               {Quantified(ts[p], targets, names) : targets \in Targets(ts, p + 2, j, names)}
        BY <1>1, <2>2, <3>0, <3>8, <3>4, <4>2
      <4>4. group \in SUBSET Words /\ IsFiniteSet(group)
        <5>1. IsFiniteSet(names \union WordsIn(ts))
          BY <1>0, WordsFinite, FS_Union
        <5>2. WordsIn(ts) \subseteq Words
          BY DEF WordsIn
        <5> QED  BY <1>0, <5>1, <5>2, FS_Subset
      <4>5. Truths(q.value, names) = Quantified(ts[p], group, names)
        BY <2>2, <4>1, <4>4, LeafTruths
      <4> QED  BY <4>1, <4>2, <4>3, <4>5
    <3>5. ASSUME r.ok
          PROVE  /\ r.pos \in (p + 1)..(Len(ts) + 1)
                 /\ r.value \in Trees(leaves, r.pos - p)
                 /\ Truths(r.value, names) \in means[Span("primary", p, r.pos - 1)]
      <4>1. q.pos \in (p + 3)..(Len(ts) + 1) /\ q.value \in leaves
        BY <3>1, <3>8, <3>3, <3>5
      <4>2. /\ q.pos - 1 \in 0..Len(ts) /\ (q.pos - 1) + 1 = q.pos /\ q.pos \in (p + 1)..(Len(ts) + 1)
            /\ q.pos - p \in Nat /\ 0 <= q.pos - p
        BY <1>0, <4>1
      <4>3. q.value \in Trees(leaves, q.pos - p)
        <5>1. Trees(leaves, 0) = leaves
          BY TreesUnfold
        <5>2. Trees(leaves, 0) \subseteq Trees(leaves, q.pos - p)
          BY <4>2, TreesGrow
        <5> QED  BY <4>1, <5>1, <5>2
      <4> QED  BY <3>1, <3>4, <3>5, <4>2, <4>3
    <3>6. ASSUME NEW j \in 0..Len(ts), NEW x \in means[Span("primary", p, j)]
          PROVE  r.ok /\ r.pos = j + 1 /\ Truths(r.value, names) = x
      <4>1. p + 1 < j /\ ts[p + 1] = "of" /\ Targets(ts, p + 2, j, names) # {}
        BY <1>1, <2>2, <3>0, <3>6
      <4>2. j \in (p + 2)..Len(ts)
        BY <1>0, <4>1
      <4>3. q.ok /\ q.pos = j + 1
        BY <3>7, <4>1, <4>2
      <4> QED  BY <3>1, <3>4, <3>6, <4>3
    <3> QED  BY <3>5, <3>6 DEF Sound, Complete, means, r
  <2>3. CASE ts[p] \in Words
    <3> DEFINE n == [op |-> "name", name |-> ts[p]]
    <3>0. ts[p] # "(" /\ ts[p] \notin Numbers \union {"all"}
      BY <2>3, TokenKinds
    <3>1. r = Parsed(n, p + 1)
      BY <2>0, <2>3, <3>0 DEF parse_primary
    <3>2. r.ok /\ r.value = n /\ r.pos = p + 1
      BY <3>1, ParsedFields
    <3>3. n \in leaves
      BY <2>0, <2>3 DEF Setting
    <3>4. Truths(n, names) = {t \in SUBSET names : ts[p] \in t}
      BY <2>3, LeafTruths
    <3> HIDE DEF r, n
    <3>5. \A j \in 0..Len(ts) : means[Span("primary", p, j)] =
             IF p = j THEN {Truths(n, names)} ELSE {}
      BY <1>1, <2>3, <3>0, <3>4
    <3>6. /\ r.pos \in (p + 1)..(Len(ts) + 1) /\ r.pos - 1 = p /\ p \in 0..Len(ts)
          /\ r.pos - p = 1 /\ 0 <= 1
      BY <1>0, <2>0, <3>2
    <3>7. r.value \in Trees(leaves, r.pos - p)
      <4>1. Trees(leaves, 0) = leaves /\ Trees(leaves, 0) \subseteq Trees(leaves, 1)
        BY TreesUnfold, TreesGrow
      <4> QED  BY <3>2, <3>3, <3>6, <4>1
    <3>8. Sound(ts, names, leaves, "primary", p, r)
      BY <3>2, <3>5, <3>6, <3>7 DEF Sound, means
    <3>9. Complete(ts, names, "primary", p, r, d + 1)
      BY <3>2, <3>5 DEF Complete, means
    <3> QED  BY <3>8, <3>9 DEF r
  <2>4. CASE ts[p] # "(" /\ ts[p] \notin Numbers \union {"all"} /\ ts[p] \notin Words
    <3>1. r = Failed
      BY <2>0, <2>4 DEF parse_primary
    <3>2. \A j \in 0..Len(ts) : means[Span("primary", p, j)] = {}
      BY <1>1, <2>4
    <3> QED  BY <3>1, <3>2, ParsedFields DEF Sound, Complete, means
  <2> QED  BY <2>1, <2>2, <2>3, <2>4
<1> QED  BY <1>3, <1>4

\* A parser of negations is correct if the parsers one level further in are.
LEMMA NotCorrect ==
    ASSUME NEW ts, NEW names, NEW leaves, Setting(ts, names, leaves), NEW inside, NEW d \in Nat,
           Correct(ts, names, leaves, "or", inside.expr, d),
           Correct(ts, names, leaves, "not", inside.negation, d),
           NEW p \in Positions(ts)
    PROVE  LET r == parse_not(ts, p, names, inside) IN
           /\ Sound(ts, names, leaves, "not", p, r)
           /\ Complete(ts, names, "not", p, r, d + 1)
<1> DEFINE r == parse_not(ts, p, names, inside)
           means == MeansOf(ts, names)
<1>0. /\ Len(ts) \in Nat /\ Len(ts) <= Longest /\ p \in 1..(Len(ts) + 1) /\ p \in Nat /\ Longest \in Nat
      /\ leaves \in SUBSET Leaves
  BY ConditionAssumption, PositionFacts DEF Setting
<1>1. ASSUME NEW j \in 0..Len(ts), NEW x
      PROVE  x \in means[Span("not", p, j)] <=>
                \/ x \in means[Span("primary", p, j)]
                \/ /\ p < j /\ ts[p] = "not"
                   /\ \E a \in means[Span("not", p + 1, j)] : x = (SUBSET names) \ a
  <2>1. x \in means[Span("not", p, j)] <=> ANegation(ts, names, p, j, x)
    BY <1>0, MeansNot
  <2> QED  BY <2>1 DEF ANegation
<1>2. CASE Peek(ts, p) # "not"
  <2> DEFINE q == parse_primary(ts, p, names, inside.expr)
  <2>1. r = q
    BY <1>2 DEF parse_not
  <2>2. Sound(ts, names, leaves, "primary", p, q) /\ Complete(ts, names, "primary", p, q, d + 1)
    BY PrimaryCorrect
  <2>3. \A j \in 0..Len(ts) : ~(p < j /\ ts[p] = "not")
    BY <1>0, <1>2 DEF Peek
  <2> HIDE DEF r, q, means
  <2>4. \A j \in 0..Len(ts) : \A x : x \in means[Span("not", p, j)] <=> x \in means[Span("primary", p, j)]
    BY <1>1, <2>3
  <2>5. Sound(ts, names, leaves, "not", p, q)
    <3>1. q.ok => q.pos - 1 \in 0..Len(ts)
      BY <1>0, <2>2 DEF Sound
    <3> QED  BY <2>2, <2>4, <3>1 DEF Sound, means
  <2>6. Complete(ts, names, "not", p, q, d + 1)
    BY <2>2, <2>4 DEF Complete, means, Stops
  <2> QED  BY <2>1, <2>5, <2>6 DEF r
<1>3. CASE Peek(ts, p) = "not"
  <2> DEFINE inner == inside.negation[p + 1]
             n == Negated(inner.value)
  <2>0. p \in 1..Len(ts) /\ ts[p] = "not" /\ p + 1 \in Positions(ts)
    BY <1>0, <1>3, PositionFacts
  <2>1. r = IF inner.ok THEN Parsed(n, inner.pos) ELSE Failed
    BY <1>3 DEF parse_not, Negated
  <2>2. Sound(ts, names, leaves, "not", p + 1, inner) /\ Complete(ts, names, "not", p + 1, inner, d)
    BY <2>0 DEF Correct
  <2>3. \A j \in 0..Len(ts) : means[Span("primary", p, j)] = {}
    <3>1. ts[p] \notin Words /\ ts[p] # "(" /\ ts[p] \notin Numbers \union {"all"}
      BY <2>0, TokenKinds
    <3> QED  BY <1>0, <3>1, MeansPrimary
  <2> HIDE DEF inner
  <2>4. ASSUME inner.ok
        PROVE  /\ inner.pos \in (p + 2)..(Len(ts) + 1)
               /\ n \in Trees(leaves, inner.pos - p)
               /\ Truths(n, names) = (SUBSET names) \ Truths(inner.value, names)
               /\ Truths(inner.value, names) \in MeansOf(ts, names)[Span("not", p + 1, inner.pos - 1)]
    <3>1. /\ inner.pos \in (p + 2)..(Len(ts) + 1)
          /\ inner.value \in Trees(leaves, inner.pos - (p + 1))
          /\ Truths(inner.value, names) \in MeansOf(ts, names)[Span("not", p + 1, inner.pos - 1)]
      <4>1. (p + 1) + 1 = p + 2
        BY <1>0
      <4> QED  BY <2>2, <2>4, <4>1 DEF Sound
    <3>2. inner.pos - (p + 1) \in Nat /\ (inner.pos - (p + 1)) + 1 <= Longest /\ (inner.pos - (p + 1)) + 1 = inner.pos - p
      <4>1. \A x \in (p + 2)..(Len(ts) + 1) :
               x - (p + 1) \in Nat /\ (x - (p + 1)) + 1 <= Longest /\ (x - (p + 1)) + 1 = x - p
        BY <1>0
      <4> QED  BY <3>1, <4>1
    <3> HIDE DEF n
    <3>3. n \in Trees(leaves, (inner.pos - (p + 1)) + 1) /\ Truths(n, names) = (SUBSET names) \ Truths(inner.value, names)
      <4> DEFINE a == inner.pos - (p + 1)
      <4>1. a \in Nat /\ a + 1 <= Longest /\ leaves \in SUBSET Leaves /\ inner.value \in Trees(leaves, a)
        BY <1>0, <3>1, <3>2
      <4> HIDE DEF a
      <4>2. \A q \in Trees(leaves, a) : Negated(q) \in Trees(leaves, a + 1)
        BY <4>1, NegatedTree
      <4>3. \A q \in Trees(leaves, a) : Truths(Negated(q), names) = (SUBSET names) \ Truths(q, names)
        BY <4>1, NegatedTree
      <4> QED  BY <4>1, <4>2, <4>3 DEF n, a
    <3> QED  BY <3>1, <3>2, <3>3
  <2> HIDE DEF r, n, means
  <2>5. ASSUME r.ok
        PROVE  /\ r.pos \in (p + 1)..(Len(ts) + 1)
               /\ r.value \in Trees(leaves, r.pos - p)
               /\ Truths(r.value, names) \in means[Span("not", p, r.pos - 1)]
    <3>1. inner.ok /\ r.value = n /\ r.pos = inner.pos
      BY <2>1, <2>5, ParsedFields
    <3>2. /\ inner.pos \in (p + 1)..(Len(ts) + 1) /\ inner.pos - 1 \in 0..Len(ts) /\ p < inner.pos - 1
      <4>1. \A x \in (p + 2)..(Len(ts) + 1) :
               x \in (p + 1)..(Len(ts) + 1) /\ x - 1 \in 0..Len(ts) /\ p < x - 1
        BY <1>0
      <4> QED  BY <2>4, <3>1, <4>1
    <3>3. Truths(n, names) \in means[Span("not", p, inner.pos - 1)]
      BY <1>1, <2>0, <2>4, <3>1, <3>2 DEF means
    <3> QED  BY <2>4, <3>1, <3>2, <3>3
  <2>6. ASSUME NEW j \in 0..Len(ts), NEW x \in means[Span("not", p, j)], (j + 1) - p <= d + 1
        PROVE  r.ok /\ r.pos = j + 1 /\ Truths(r.value, names) = x
    <3>1. PICK a \in means[Span("not", p + 1, j)] : x = (SUBSET names) \ a
      BY <1>1, <2>3, <2>6
    <3>2. (j + 1) - (p + 1) <= d
      BY <1>0, <2>6
    <3>3. inner.ok /\ inner.pos = j + 1 /\ Truths(inner.value, names) = a
      BY <2>2, <3>1, <3>2 DEF Complete, Stops, means
    <3> QED  BY <2>1, <2>4, <3>1, <3>3, ParsedFields
  <2> QED  BY <2>5, <2>6 DEF Sound, Complete, means, r
<1> QED  BY <1>2, <1>3

\* Joining what an operand gives to what a chain gave.
LEMMA JoinSound ==
    ASSUME NEW ts, NEW names, NEW leaves, Setting(ts, names, leaves), NEW op \in {"or", "and"},
           NEW p \in Positions(ts), NEW left, NEW right,
           Sound(ts, names, leaves, op, p, left), left.ok, Peek(ts, left.pos) = op,
           Sound(ts, names, leaves, Low(op), left.pos + 1, right), right.ok
    PROVE  LET n == Joined(op, left.value, right.value) IN
           /\ right.pos \in (p + 1)..(Len(ts) + 1)
           /\ n \in Trees(leaves, right.pos - p)
           /\ Truths(n, names) = Join(op, Truths(left.value, names), Truths(right.value, names))
           /\ Truths(n, names) \in MeansOf(ts, names)[Span(op, p, right.pos - 1)]
<1> DEFINE n == Joined(op, left.value, right.value)
           means == MeansOf(ts, names)
           a == left.pos - p
           b == right.pos - (left.pos + 1)
<1>0. /\ Len(ts) \in Nat /\ Len(ts) <= Longest /\ p \in 1..(Len(ts) + 1) /\ p \in Nat /\ Longest \in Nat
      /\ leaves \in SUBSET Leaves
  BY ConditionAssumption, PositionFacts DEF Setting
<1>1. /\ left.pos \in (p + 1)..Len(ts) /\ ts[left.pos] = op
      /\ left.value \in Trees(leaves, a)
      /\ Truths(left.value, names) \in means[Span(op, p, left.pos - 1)]
  <2>1. /\ left.pos \in (p + 1)..(Len(ts) + 1)
        /\ left.value \in Trees(leaves, a)
        /\ Truths(left.value, names) \in means[Span(op, p, left.pos - 1)]
    BY DEF Sound
  <2>2. left.pos \in Positions(ts) /\ op # "eof"
    BY <1>0, <2>1, PositionFacts
  <2>3. left.pos \in 1..Len(ts) /\ ts[left.pos] = op
    BY <1>0, <2>2, PositionFacts
  <2>4. left.pos \in (p + 1)..Len(ts)
    BY <1>0, <2>1, <2>3
  <2> QED  BY <2>1, <2>3, <2>4
<1>2. /\ right.pos \in (left.pos + 2)..(Len(ts) + 1)
      /\ right.value \in Trees(leaves, b)
      /\ Truths(right.value, names) \in means[Span(Low(op), left.pos + 1, right.pos - 1)]
  <2>1. (left.pos + 1) + 1 = left.pos + 2
    BY <1>0, <1>1
  <2> QED  BY <2>1 DEF Sound
<1>3. \A l \in (p + 1)..Len(ts) : \A q \in (l + 2)..(Len(ts) + 1) :
         /\ l - p \in Nat /\ q - (l + 1) \in Nat /\ ((l - p) + (q - (l + 1))) + 1 = q - p
         /\ q - p <= Longest /\ q \in (p + 1)..(Len(ts) + 1)
         /\ q - 1 \in 0..Len(ts) /\ l \in (p + 1)..((q - 1) - 1)
  BY <1>0
<1>4. /\ a \in Nat /\ b \in Nat /\ (a + b) + 1 = right.pos - p
      /\ right.pos - p <= Longest /\ right.pos \in (p + 1)..(Len(ts) + 1)
      /\ right.pos - 1 \in 0..Len(ts) /\ left.pos \in (p + 1)..((right.pos - 1) - 1)
  BY <1>1, <1>2, <1>3
<1> HIDE DEF a, b, n, means
<1>5. n \in Trees(leaves, (a + b) + 1) /\ Truths(n, names) = Join(op, Truths(left.value, names), Truths(right.value, names))
  <2>1. (a + b) + 1 <= Longest
    BY <1>4
  <2>2. a \in Nat /\ b \in Nat /\ leaves \in SUBSET Leaves
    BY <1>0, <1>4
  <2>3. \A l \in Trees(leaves, a), q \in Trees(leaves, b) : Joined(op, l, q) \in Trees(leaves, (a + b) + 1)
    BY <2>2, JoinedTree
  <2>4. n \in Trees(leaves, (a + b) + 1)
    BY <1>1, <1>2, <2>3 DEF n
  <2>5. n \in Nodes
    <3>1. (a + b) + 1 \in 0..Longest
      BY <1>0, <2>1, <2>2
    <3> QED  BY <2>2, <2>4, <3>1, TreesAreNodes
  <2>6. Truths(n, names) = Join(op, Truths(left.value, names), Truths(right.value, names))
    BY <2>5, JoinedTruths DEF n
  <2> QED  BY <2>4, <2>6
<1>6. Truths(n, names) \in means[Span(op, p, right.pos - 1)]
  <2>1. left.pos \in Cuts(ts, op, p, right.pos - 1)
    BY <1>1, <1>4 DEF Cuts
  <2>2. AChain(ts, names, op, p, right.pos - 1, Truths(n, names))
    BY <1>1, <1>2, <1>5, <2>1 DEF AChain, means
  <2> QED  BY <1>0, <1>4, <2>2, MeansChain DEF means
<1> QED  BY <1>4, <1>5, <1>6 DEF n, means

\* The parser's loop is correct if the parser of its operands is.
LEMMA ChainSound ==
    ASSUME NEW ts, NEW names, NEW leaves, Setting(ts, names, leaves), NEW op \in {"or", "and"},
           NEW operand, NEW d \in Nat, Correct(ts, names, leaves, Low(op), operand, d),
           NEW p \in Positions(ts)
    PROVE  LET after == ChainOf(ts, op, operand, p, Len(ts)) IN
           \A n \in 0..Len(ts) : Sound(ts, names, leaves, op, p, after[n])
<1> DEFINE after == ChainOf(ts, op, operand, p, Len(ts))
           G == {n \in 0..Len(ts) : Sound(ts, names, leaves, op, p, after[n])}
<1>0. /\ Len(ts) \in Nat /\ p \in 1..(Len(ts) + 1) /\ p \in Nat
  BY PositionFacts DEF Setting
<1>1. /\ after[0] = operand[p]
      /\ \A n \in 1..Len(ts) : after[n] = Extended(ts, op, operand, after[n - 1])
  BY <1>0, ChainUnfolds
<1> HIDE DEF after
<1>2. 0 \in G
  <2>1. Sound(ts, names, leaves, Low(op), p, operand[p])
    BY DEF Correct
  <2>2. ASSUME operand[p].ok
        PROVE  Truths(operand[p].value, names) \in MeansOf(ts, names)[Span(op, p, operand[p].pos - 1)]
    <3>1. operand[p].pos - 1 \in 0..Len(ts)
      <4>1. operand[p].pos \in (p + 1)..(Len(ts) + 1)
        BY <2>1, <2>2 DEF Sound
      <4>2. \A x \in (p + 1)..(Len(ts) + 1) : x - 1 \in 0..Len(ts)
        BY <1>0
      <4> QED  BY <4>1, <4>2
    <3>2. AChain(ts, names, op, p, operand[p].pos - 1, Truths(operand[p].value, names))
      BY <2>1, <2>2 DEF Sound, AChain
    <3> QED  BY <1>0, <3>1, <3>2, MeansChain
  <2>3. Sound(ts, names, leaves, op, p, operand[p])
    BY <2>1, <2>2 DEF Sound
  <2> QED  BY <1>0, <1>1, <2>3
<1>3. ASSUME NEW k \in 0..(Len(ts) - 1), k \in G PROVE k + 1 \in G
  <2> DEFINE left == after[k]
             right == operand[left.pos + 1]
  <2>1. k + 1 \in 1..Len(ts) /\ (k + 1) - 1 = k /\ k + 1 \in 0..Len(ts)
    BY <1>0
  <2>2. after[k + 1] = Extended(ts, op, operand, left)
    BY <1>1, <2>1
  <2>3. Sound(ts, names, leaves, op, p, left)
    BY <1>3
  <2> HIDE DEF left
  <2>4. CASE ~left.ok \/ Peek(ts, left.pos) # op
    <3>1. after[k + 1] = left
      BY <2>2, <2>4 DEF Extended
    <3> QED  BY <2>1, <2>3, <3>1
  <2>5. CASE left.ok /\ Peek(ts, left.pos) = op
    <3>1. after[k + 1] = IF ~right.ok THEN Failed ELSE Parsed(Joined(op, left.value, right.value), right.pos)
      BY <2>2, <2>5 DEF Extended, Joined
    <3>2. CASE ~right.ok
      <4>1. Sound(ts, names, leaves, op, p, after[k + 1])
        BY <3>1, <3>2, ParsedFields DEF Sound
      <4> QED  BY <2>1, <4>1
    <3>3. CASE right.ok
      <4>1. left.pos + 1 \in Positions(ts)
        <5>1. left.pos \in Positions(ts) /\ op # "eof"
          <6>1. left.pos \in (p + 1)..(Len(ts) + 1)
            BY <2>3, <2>5 DEF Sound
          <6>2. \A x \in (p + 1)..(Len(ts) + 1) : x \in 1..(Len(ts) + 1)
            BY <1>0
          <6> QED  BY <1>0, <6>1, <6>2, PositionFacts
        <5> QED  BY <1>0, <2>5, <5>1, PositionFacts
      <4>2. Sound(ts, names, leaves, Low(op), left.pos + 1, right)
        BY <4>1 DEF Correct
      <4> HIDE DEF right
      <4> DEFINE n == Joined(op, left.value, right.value)
      <4>3. /\ right.pos \in (p + 1)..(Len(ts) + 1)
            /\ n \in Trees(leaves, right.pos - p)
            /\ Truths(n, names) \in MeansOf(ts, names)[Span(op, p, right.pos - 1)]
        BY <2>3, <2>5, <3>3, <4>2, JoinSound
      <4> HIDE DEF n
      <4>4. after[k + 1].value = n /\ after[k + 1].pos = right.pos
        BY <3>1, <3>3, ParsedFields DEF n
      <4>5. Sound(ts, names, leaves, op, p, after[k + 1])
        BY <4>3, <4>4 DEF Sound
      <4> QED  BY <2>1, <4>5
    <3> QED  BY <3>2, <3>3
  <2> QED  BY <2>4, <2>5
<1>4. 0..Len(ts) \subseteq G
  <2> HIDE DEF G
  <2> QED  BY <1>0, <1>2, <1>3, Upwards
<1> QED  BY <1>4 DEF after

\* The loop gets as far as the tokens mean something.
Reaches(ts, names, op, p, after, j, x) ==
    \E n \in 0..(j - p) : /\ after[n].ok /\ after[n].pos = j + 1
                         /\ Truths(after[n].value, names) = x

\* The loop gets, after some round, to the end of every chain the grammar finds, provided
\* its operands are parsed completely and what follows cannot continue the last of them.
LEMMA ChainReaches ==
    ASSUME NEW ts, NEW names, NEW leaves, Setting(ts, names, leaves), NEW op \in {"or", "and"},
           NEW operand, NEW d \in Nat, Correct(ts, names, leaves, Low(op), operand, d),
           NEW p \in Positions(ts), NEW j \in 0..Len(ts), (j + 1) - p <= d,
           Peek(ts, j + 1) \notin Stops(Low(op)),
           NEW x \in MeansOf(ts, names)[Span(op, p, j)]
    PROVE  Reaches(ts, names, op, p, ChainOf(ts, op, operand, p, Len(ts)), j, x)
<1> DEFINE after == ChainOf(ts, op, operand, p, Len(ts))
           means == MeansOf(ts, names)
           R(m) == (m + 1) - p <= d /\ Peek(ts, m + 1) \notin Stops(Low(op)) =>
                      \A y \in means[Span(op, p, m)] : Reaches(ts, names, op, p, after, m, y)
           G == {k \in 0..Len(ts) : \A m \in 0..k : R(m)}
<1>0. /\ Len(ts) \in Nat /\ p \in 1..(Len(ts) + 1) /\ p \in Nat
  BY PositionFacts DEF Setting
<1>1. /\ after[0] = operand[p]
      /\ \A n \in 1..Len(ts) : after[n] = Extended(ts, op, operand, after[n - 1])
  BY <1>0, ChainUnfolds
<1>2. \A n \in 0..Len(ts) : Sound(ts, names, leaves, op, p, after[n])
  BY ChainSound
<1> HIDE DEF after, means
<1>3. ASSUME NEW m \in 0..Len(ts), NEW y \in means[Span(op, p, m)],
             (m + 1) - p <= d, Peek(ts, m + 1) \notin Stops(Low(op)),
             \A k \in 0..(m - 1) : R(k)
      PROVE  Reaches(ts, names, op, p, after, m, y)
  <2>0. p <= m
    BY <1>0, <1>3, MeansNonempty DEF Constructs, means
  <2>1. AChain(ts, names, op, p, m, y)
    BY <1>0, <1>3, MeansChain DEF means
  <2>2. CASE y \in means[Span(Low(op), p, m)]
    <3>1. operand[p].ok /\ operand[p].pos = m + 1 /\ Truths(operand[p].value, names) = y
      BY <1>3, <2>2 DEF Correct, Complete, means
    <3>2. 0 \in 0..(m - p)
      BY <1>0, <2>0
    <3> QED  BY <1>1, <3>1, <3>2 DEF Reaches
  <2>3. CASE \E k \in Cuts(ts, op, p, m) :
                \E a \in means[Span(op, p, k - 1)], b \in means[Span(Low(op), k + 1, m)] : y = Join(op, a, b)
    <3>1. PICK k \in Cuts(ts, op, p, m) :
             \E a \in means[Span(op, p, k - 1)], b \in means[Span(Low(op), k + 1, m)] : y = Join(op, a, b)
      BY <2>3
    <3>2. PICK a \in means[Span(op, p, k - 1)], b \in means[Span(Low(op), k + 1, m)] : y = Join(op, a, b)
      BY <3>1
    <3>3. k \in (p + 1)..(m - 1) /\ ts[k] = op
      BY DEF Cuts
    <3>4. /\ k - 1 \in 0..(m - 1) /\ (k - 1) + 1 = k /\ k - p <= d /\ k \in 1..Len(ts)
          /\ (m + 1) - (k + 1) <= d /\ k + 1 \in 1..(Len(ts) + 1) /\ k \in Nat
      BY <1>0, <1>3, <3>3
    <3>5. Peek(ts, k) = op /\ k + 1 \in Positions(ts)
      BY <1>0, <3>3, <3>4, PositionFacts
    <3>6. Peek(ts, k) \notin Stops(Low(op))
      BY <3>5 DEF Stops, Low
    <3>7. Reaches(ts, names, op, p, after, k - 1, a)
      <4>1. R(k - 1)
        BY <1>3, <3>4
      <4> QED  BY <3>4, <3>6, <4>1
    <3>8. PICK n \in 0..((k - 1) - p) : /\ after[n].ok /\ after[n].pos = (k - 1) + 1
                                        /\ Truths(after[n].value, names) = a
      BY <3>7 DEF Reaches
    <3>9. n + 1 \in 0..(m - p) /\ n + 1 \in 1..Len(ts) /\ (n + 1) - 1 = n /\ n \in 0..Len(ts)
      BY <1>0, <3>3
    <3> DEFINE left == after[n]
               right == operand[k + 1]
    <3>10. left.ok /\ left.pos = k /\ Truths(left.value, names) = a /\ Sound(ts, names, leaves, op, p, left)
      BY <1>2, <3>4, <3>8, <3>9
    <3>11. right.ok /\ right.pos = m + 1 /\ Truths(right.value, names) = b
      BY <1>3, <3>4, <3>5 DEF Correct, Complete, means
    <3>12. Sound(ts, names, leaves, Low(op), k + 1, right)
      BY <3>5 DEF Correct
    <3>13. after[n + 1] = Parsed(Joined(op, left.value, right.value), m + 1)
      <4>1. after[n + 1] = Extended(ts, op, operand, left)
        BY <1>1, <3>9
      <4>2. operand[left.pos + 1] = right
        BY <3>10
      <4> HIDE DEF left, right
      <4> QED  BY <3>5, <3>10, <3>11, <4>1, <4>2 DEF Extended, Joined
    <3> HIDE DEF left, right
    <3>14. Truths(Joined(op, left.value, right.value), names) = Join(op, Truths(left.value, names), Truths(right.value, names))
      BY <3>5, <3>10, <3>11, <3>12, JoinSound
    <3>15. after[n + 1].ok /\ after[n + 1].pos = m + 1 /\ Truths(after[n + 1].value, names) = y
      BY <3>2, <3>10, <3>11, <3>13, <3>14, ParsedFields
    <3> QED  BY <3>9, <3>15 DEF Reaches
  <2> QED  BY <2>1, <2>2, <2>3 DEF AChain, means
<1> HIDE DEF R
<1>4. \A m \in 0..Len(ts) : (\A k \in 0..(m - 1) : R(k)) => R(m)
  BY <1>3 DEF R
<1>5. 0 \in G
  <2>1. \A k \in 0..(0 - 1) : R(k)
    OBVIOUS
  <2>2. R(0)
    BY <1>0, <1>4, <2>1
  <2> QED  BY <1>0, <2>2
<1>6. ASSUME NEW k \in 0..(Len(ts) - 1), k \in G PROVE k + 1 \in G
  <2>1. k + 1 \in 0..Len(ts) /\ (k + 1) - 1 = k /\ \A m \in 0..(k + 1) : m \in 0..k \/ m = k + 1
    BY <1>0
  <2>2. R(k + 1)
    BY <1>4, <1>6, <2>1
  <2> QED  BY <1>6, <2>1, <2>2
<1>7. R(j)
  <2>1. 0..Len(ts) \subseteq G
    <3> HIDE DEF G
    <3> QED  BY <1>0, <1>5, <1>6, Upwards
  <2>2. Len(ts) \in G
    BY <1>0, <2>1
  <2> QED  BY <2>2
<1> QED  BY <1>7 DEF R, after, means

\* The loop stops there.
LEMMA ChainCorrect ==
    ASSUME NEW ts, NEW names, NEW leaves, Setting(ts, names, leaves), NEW op \in {"or", "and"},
           NEW operand, NEW d \in Nat, Correct(ts, names, leaves, Low(op), operand, d),
           NEW p \in Positions(ts)
    PROVE  LET r == ParseChain(ts, op, operand, p) IN
           Sound(ts, names, leaves, op, p, r) /\ Complete(ts, names, op, p, r, d)
<1> DEFINE after == ChainOf(ts, op, operand, p, Len(ts))
           r == after[Len(ts)]
<1>0. /\ Len(ts) \in Nat /\ p \in 1..(Len(ts) + 1) /\ p \in Nat
  BY PositionFacts DEF Setting
<1>1. /\ ParseChain(ts, op, operand, p) = r
      /\ \A n \in 1..Len(ts) : after[n] = Extended(ts, op, operand, after[n - 1])
  BY <1>0, ChainUnfolds
<1>2. Sound(ts, names, leaves, op, p, r)
  BY <1>0, ChainSound
<1>3. ASSUME NEW j \in 0..Len(ts), NEW x \in MeansOf(ts, names)[Span(op, p, j)],
             (j + 1) - p <= d, Peek(ts, j + 1) \notin Stops(op)
      PROVE  r.ok /\ r.pos = j + 1 /\ Truths(r.value, names) = x
  <2>1. Peek(ts, j + 1) \notin Stops(Low(op)) /\ Peek(ts, j + 1) # op
    BY <1>3 DEF Stops, Low
  <2>2. Reaches(ts, names, op, p, after, j, x)
    BY <1>3, <2>1, ChainReaches
  <2> HIDE DEF after
  <2>3. PICK n \in 0..(j - p) : /\ after[n].ok /\ after[n].pos = j + 1
                                /\ Truths(after[n].value, names) = x
    BY <2>2 DEF Reaches
  <2> DEFINE G == {m \in 0..Len(ts) : n <= m => after[m] = after[n]}
  <2>4. n \in Nat /\ n <= Len(ts)
    BY <1>0
  <2>5. 0 \in G
    BY <1>0, <2>4
  <2>6. ASSUME NEW k \in 0..(Len(ts) - 1), k \in G PROVE k + 1 \in G
    <3>1. k + 1 \in 1..Len(ts) /\ (k + 1) - 1 = k /\ k + 1 \in 0..Len(ts) /\ (n <= k + 1 => n = k + 1 \/ n <= k)
      BY <1>0, <2>4
    <3>2. n <= k => after[k + 1] = after[n]
      <4> SUFFICES ASSUME n <= k PROVE after[k + 1] = after[n]
        OBVIOUS
      <4>1. after[k + 1] = Extended(ts, op, operand, after[n])
        BY <1>1, <2>6, <3>1
      <4> QED  BY <2>1, <2>3, <4>1 DEF Extended
    <3> QED  BY <3>1, <3>2
  <2>7. Len(ts) \in G
    <3>1. Len(ts) \in 0..Len(ts)
      BY <1>0
    <3> HIDE DEF G
    <3> QED  BY <1>0, <2>5, <2>6, <3>1, Upwards
  <2> QED  BY <2>3, <2>4, <2>7
<1> HIDE DEF r
<1> QED  BY <1>1, <1>2, <1>3 DEF Complete

\* One nesting level further out, the parsers are correct about one token more.
LEMMA OutsideCorrect ==
    ASSUME NEW ts, NEW names, NEW leaves, Setting(ts, names, leaves), NEW inside, NEW d \in Nat,
           Correct(ts, names, leaves, "or", inside.expr, d),
           Correct(ts, names, leaves, "not", inside.negation, d)
    PROVE  LET outside == Outside(ts, names, inside) IN
           /\ Correct(ts, names, leaves, "or", outside.expr, d + 1)
           /\ Correct(ts, names, leaves, "not", outside.negation, d + 1)
<1> DEFINE negation == [p \in Positions(ts) |-> parse_not(ts, p, names, inside)]
           parse_and == [p \in Positions(ts) |-> ParseChain(ts, "and", negation, p)]
           parse_or == [p \in Positions(ts) |-> ParseChain(ts, "or", parse_and, p)]
<1>0. d + 1 \in Nat
  OBVIOUS
<1>1. Outside(ts, names, inside).expr = parse_or /\ Outside(ts, names, inside).negation = negation
  BY DEF Outside
<1>2. Correct(ts, names, leaves, "not", negation, d + 1)
  <2>1. \A p \in Positions(ts) : /\ Sound(ts, names, leaves, "not", p, parse_not(ts, p, names, inside))
                                /\ Complete(ts, names, "not", p, parse_not(ts, p, names, inside), d + 1)
    BY NotCorrect
  <2> QED  BY <2>1 DEF Correct
<1> HIDE DEF negation
<1>3. Correct(ts, names, leaves, "and", parse_and, d + 1)
  <2>1. Correct(ts, names, leaves, Low("and"), negation, d + 1)
    BY <1>2 DEF Low
  <2>2. \A p \in Positions(ts) : /\ Sound(ts, names, leaves, "and", p, ParseChain(ts, "and", negation, p))
                                /\ Complete(ts, names, "and", p, ParseChain(ts, "and", negation, p), d + 1)
    BY <1>0, <2>1, ChainCorrect
  <2> QED  BY <2>2 DEF Correct
<1> HIDE DEF parse_and
<1>4. Correct(ts, names, leaves, "or", parse_or, d + 1)
  <2>1. Correct(ts, names, leaves, Low("or"), parse_and, d + 1)
    BY <1>3 DEF Low
  <2>2. \A p \in Positions(ts) : /\ Sound(ts, names, leaves, "or", p, ParseChain(ts, "or", parse_and, p))
                                /\ Complete(ts, names, "or", p, ParseChain(ts, "or", parse_and, p), d + 1)
    BY <1>0, <2>1, ChainCorrect
  <2> QED  BY <2>2 DEF Correct
<1> QED  BY <1>1, <1>2, <1>4 DEF negation, parse_and

\* The outermost parser is correct about all tokens.
LEMMA ParsersCorrect ==
    ASSUME NEW ts, NEW names, NEW leaves, Setting(ts, names, leaves)
    PROVE  Correct(ts, names, leaves, "or", parse_expr(ts, names), Len(ts) + 1)
<1> DEFINE nested == NestedOf(ts, names, Len(ts) + 1)
           G == {d \in 0..(Len(ts) + 1) : /\ Correct(ts, names, leaves, "or", nested[d].expr, d)
                                         /\ Correct(ts, names, leaves, "not", nested[d].negation, d)}
<1>0. Len(ts) \in Nat /\ Len(ts) + 1 \in Nat
  BY ConditionAssumption DEF Setting
<1>1. /\ nested[0].expr = Nowhere(ts) /\ nested[0].negation = Nowhere(ts)
      /\ \A d \in 1..(Len(ts) + 1) : nested[d] = Outside(ts, names, nested[d - 1])
      /\ parse_expr(ts, names) = nested[Len(ts) + 1].expr
  BY <1>0, NestedUnfolds
<1> HIDE DEF nested
<1>2. 0 \in G
  <2>1. ASSUME NEW as \in Constructs PROVE Correct(ts, names, leaves, as, Nowhere(ts), 0)
    <3>1. ASSUME NEW p \in Positions(ts) PROVE Sound(ts, names, leaves, as, p, Nowhere(ts)[p])
      BY ParsedFields DEF Nowhere, Sound
    <3>2. ASSUME NEW p \in Positions(ts) PROVE Complete(ts, names, as, p, Nowhere(ts)[p], 0)
      <4>1. p \in 1..(Len(ts) + 1)
        BY DEF Positions
      <4>2. ASSUME NEW j \in 0..Len(ts), NEW x \in MeansOf(ts, names)[Span(as, p, j)]
            PROVE  ~((j + 1) - p <= 0)
        <5>1. p <= j
          BY <1>0, <4>1, <4>2, MeansNonempty
        <5> QED  BY <1>0, <4>1, <5>1
      <4> QED  BY <4>2 DEF Complete
    <3> QED  BY <3>1, <3>2 DEF Correct
  <2>2. "or" \in Constructs /\ "not" \in Constructs
    BY DEF Constructs
  <2> QED  BY <1>0, <1>1, <2>1, <2>2
<1>3. ASSUME NEW d \in 0..((Len(ts) + 1) - 1), d \in G PROVE d + 1 \in G
  <2>1. d \in Nat /\ d + 1 \in 1..(Len(ts) + 1) /\ (d + 1) - 1 = d /\ d + 1 \in 0..(Len(ts) + 1)
    BY <1>0
  <2>2. nested[d + 1] = Outside(ts, names, nested[d])
    BY <1>1, <2>1
  <2>3. /\ Correct(ts, names, leaves, "or", Outside(ts, names, nested[d]).expr, d + 1)
        /\ Correct(ts, names, leaves, "not", Outside(ts, names, nested[d]).negation, d + 1)
    BY <1>3, <2>1, OutsideCorrect
  <2> QED  BY <2>1, <2>2, <2>3
<1>4. Len(ts) + 1 \in G
  <2>1. 0..(Len(ts) + 1) \subseteq G
    <3> HIDE DEF G
    <3> QED  BY <1>0, <1>2, <1>3, Upwards
  <2>2. Len(ts) + 1 \in 0..(Len(ts) + 1)
    BY <1>0
  <2> QED  BY <2>1, <2>2
<1> QED  BY <1>1, <1>4

\* A condition compiles exactly if it means something, to a node that means the same.
LEMMA CompileCorrect ==
    ASSUME NEW ts, NEW names, NEW leaves, Setting(ts, names, leaves)
    PROVE  LET r == compile_condition(ts, names) IN
           /\ r.ok => /\ r.value \in Trees(leaves, Longest)
                      /\ Meanings(ts, names) = {Truths(r.value, names)}
           /\ ~r.ok => r = Failed /\ Meanings(ts, names) = {}
<1> DEFINE expr == parse_expr(ts, names)[1]
           r == compile_condition(ts, names)
           full == MeansOf(ts, names)[Span("or", 1, Len(ts))]
<1>0. /\ Len(ts) \in Nat /\ Len(ts) <= Longest /\ Longest \in Nat /\ leaves \in SUBSET Leaves
      /\ 1 \in Positions(ts) /\ Len(ts) \in 0..Len(ts)
      /\ (Len(ts) + 1) - 1 = Len(ts) /\ Len(ts) <= Len(ts) + 1
  BY ConditionAssumption DEF Setting, Positions
<1>1. r = IF expr.ok /\ expr.pos = Len(ts) + 1 THEN expr ELSE Failed
  BY DEF compile_condition
<1>2. Sound(ts, names, leaves, "or", 1, expr) /\ Complete(ts, names, "or", 1, expr, Len(ts) + 1)
  BY <1>0, ParsersCorrect DEF Correct
<1>3. Meanings(ts, names) = full
  BY <1>0, MeansExist
<1> HIDE DEF expr, r, full
<1>4. ASSUME NEW x \in full
      PROVE  expr.ok /\ expr.pos = Len(ts) + 1 /\ Truths(expr.value, names) = x
  <2>1. Peek(ts, Len(ts) + 1) \notin Stops("or")
    <3>1. Peek(ts, Len(ts) + 1) = "eof"
      BY <1>0 DEF Peek
    <3> QED  BY <3>1 DEF Stops
  <2> QED  BY <1>0, <1>2, <2>1 DEF Complete, full
<1>5. ASSUME r.ok
      PROVE  r.value \in Trees(leaves, Longest) /\ full = {Truths(r.value, names)}
  <2>1. expr.ok /\ expr.pos = Len(ts) + 1 /\ r = expr
    BY <1>1, <1>5, ParsedFields
  <2>2. expr.value \in Trees(leaves, Len(ts)) /\ Truths(expr.value, names) \in full
    BY <1>0, <1>2, <2>1 DEF Sound, full
  <2>3. Trees(leaves, Len(ts)) \subseteq Trees(leaves, Longest)
    BY <1>0, TreesGrow
  <2> QED  BY <1>4, <2>1, <2>2, <2>3
<1>6. ASSUME ~r.ok PROVE r = Failed /\ full = {}
  <2>1. ~(expr.ok /\ expr.pos = Len(ts) + 1)
    BY <1>1, <1>6
  <2> QED  BY <1>1, <1>4, <2>1
<1> QED  BY <1>3, <1>5, <1>6 DEF r

\* The conditions and the rules of the model are such settings.
LEMMA NamesFinite ==
    ASSUME NEW ids \in Detections
    PROVE  /\ NamesOf(ids) \subseteq Identifiers \union Aggregates
           /\ NamesOf(ids) # {} /\ IsFiniteSet(NamesOf(ids))
<1>1. ids \in Seq(Identifiers \union Aggregates) /\ ids # <<>>
  BY DetectionAssumption
<1>2. Len(ids) \in Nat /\ Len(ids) # 0 /\ \A k \in 1..Len(ids) : ids[k] \in Identifiers \union Aggregates
  BY <1>1
<1>3. IsFiniteSet({ids[k] : k \in 1..Len(ids)})
  <2> DEFINE S == 1..Len(ids)
             T == {ids[k] : k \in S}
             f == [k \in S |-> ids[k]]
  <2>1. f \in Surjection(S, T)
    <3> HIDE DEF S
    <3> QED  BY DEF Surjection
  <2>2. IsFiniteSet(S)
    BY <1>2, FS_Interval
  <2> HIDE DEF S, T, f
  <2>3. IsFiniteSet(T)
    BY <2>1, <2>2, FS_Surjection
  <2> QED  BY <2>3 DEF T, S
<1>4. 1 \in 1..Len(ids)
  BY <1>2
<1> QED  BY <1>2, <1>3, <1>4 DEF NamesOf

\* Conditions and rules as considered are a setting in which the parsers are correct.
LEMMA ModelSetting ==
    ASSUME NEW ts \in Conditions, NEW ids \in Detections
    PROVE  Setting(ts, NamesOf(ids), Leaves)
<1> DEFINE names == NamesOf(ids)
<1>1. ts \in Seq(Tokens) /\ Len(ts) <= Longest /\ Longest \in Nat
  BY ConditionAssumption
<1>2. Len(ts) \in Nat /\ Len(ts) \in 0..Longest
  BY <1>1
<1>3. names \subseteq Words /\ WordsIn(ts) \subseteq Words
  BY NamesFinite DEF Words, WordsIn
<1> HIDE DEF names
<1>4. ASSUME NEW p \in 1..Len(ts), ts[p] \in Words PROVE [op |-> "name", name |-> ts[p]] \in Leaves
  BY <1>4 DEF Leaves, NameNodes
<1>5. ASSUME NEW p \in 1..Len(ts), ts[p] \in Numbers \union {"all"}, ParseQuantifier(ts, p, names).ok
      PROVE  ParseQuantifier(ts, p, names).value \in Leaves
  <2>1. QuantifierAsMeant(ts, p, names, ParseQuantifier(ts, p, names))
    BY <1>2, QuantifierReads
  <2>2. PICK group \in SUBSET (names \union WordsIn(ts)) :
           ParseQuantifier(ts, p, names).value = [op |-> "of", names |-> group, count |-> CountOf(ts[p])]
    BY <1>5, <2>1 DEF QuantifierAsMeant
  <2>3. CountOf(ts[p]) \in Nat /\ group \in SUBSET Words
    BY <1>3, <1>5, CountFacts
  <2> QED  BY <2>2, <2>3 DEF Leaves, OneOfNodes
<1> QED  BY <1>2, <1>4, <1>5, NamesFinite DEF Setting, names

\* Of a valid condition, the leaves refer to what there is.
Existing(names) == NameNodes(names \union Aggregates \union Patterns)
                      \union OneOfNodes((SUBSET (names \union Aggregates)) \ {{}})

\* So are validated ones when only names that exist may become leaves.
LEMMA ValidSetting ==
    ASSUME NEW ts \in Conditions, NEW ids \in Detections, validate_conditions(ts, NamesOf(ids))
    PROVE  Setting(ts, NamesOf(ids), Existing(NamesOf(ids)))
<1> DEFINE names == NamesOf(ids)
<1>1. ts \in Seq(Tokens) /\ Len(ts) <= Longest /\ Longest \in Nat
  BY ConditionAssumption
<1>2. Len(ts) \in Nat /\ Len(ts) \in 0..Longest
  BY <1>1
<1>3. names \in SUBSET (Identifiers \union Aggregates) /\ names # {} /\ IsFiniteSet(names)
  BY NamesFinite
<1>4. validate_conditions(ts, names)
  OBVIOUS
<1> HIDE DEF names
<1>5. Existing(names) \subseteq Leaves
  BY <1>3 DEF Existing, Leaves, NameNodes, OneOfNodes, Words
<1>6. ASSUME NEW p \in 1..Len(ts), ts[p] \in Words
      PROVE  [op |-> "name", name |-> ts[p]] \in Existing(names)
  <2>1. ts[p] \in names \union Aggregates \union Patterns
    BY <1>4, <1>6 DEF validate_conditions, WordIsDefined
  <2> QED  BY <2>1 DEF Existing, NameNodes
<1>7. ASSUME NEW p \in 1..Len(ts), ts[p] \in Numbers \union {"all"}, ParseQuantifier(ts, p, names).ok
      PROVE  ParseQuantifier(ts, p, names).value \in Existing(names)
  <2> DEFINE r == ParseQuantifier(ts, p, names)
  <2>1. QuantifierAsMeant(ts, p, names, r)
    BY <1>2, QuantifierReads
  <2> HIDE DEF r
  <2>2. PICK group \in SUBSET (names \union WordsIn(ts)) :
           /\ Targets(ts, p + 2, r.pos - 1, names) = {group}
           /\ r.value = [op |-> "of", names |-> group, count |-> CountOf(ts[p])]
    BY <1>7, <2>1 DEF QuantifierAsMeant, r
  <2>3. r.pos \in (p + 3)..(Len(ts) + 1)
    BY <1>7, <2>1 DEF QuantifierAsMeant, r
  <2>4. p + 2 \in 1..Len(ts) /\ r.pos - 1 \in 0..Len(ts)
    BY <1>2, <2>3
  <2>5. group \in Targets(ts, p + 2, r.pos - 1, names)
    BY <2>2
  <2>6. group # {} /\ group \subseteq names \union Aggregates
    BY <1>2, <1>3, <1>4, <2>4, <2>5, TargetsResolve
  <2>7. CountOf(ts[p]) \in Nat
    BY <1>7, CountFacts
  <2> QED  BY <2>2, <2>6, <2>7 DEF Existing, OneOfNodes, r
<1> QED  BY <1>2, <1>3, <1>5, <1>6, <1>7 DEF Setting, names

-----------------------------------------------------------------------------
(* The life of a rule.                                                      *)

\* What the text of the rule at hand compiles to.
Compiled == compile_condition(condition, Names)

\* A rule that was loaded passed validation and was compiled, and still has the node
\* it was compiled to; one that was rejected did not, or could not be.
LoadedFacts ==
    /\ phase = "valid" => validate_conditions(condition, Names)
    /\ Loaded => validate_conditions(condition, Names) /\ Compiled.ok /\ node = Compiled.value
    /\ phase = "rejected" => ~validate_conditions(condition, Names) \/ ~Compiled.ok

\* The last event was evaluated over one bit per identifier.
EvaluatedFacts ==
    phase = "evaluated" =>
        /\ results \in [1..Len(known) -> BOOLEAN]
        /\ fired = evaluate_vec(node, results, Index(known))

\* The invariant: text and node belong together, whatever was evaluated.
Inv == TypeOK /\ LoadedFacts /\ EvaluatedFacts

\* What compiling gives.
LEMMA CompiledFacts ==
    ASSUME condition \in Conditions, known \in Detections
    PROVE  /\ Compiled.ok => /\ Compiled.value \in Nodes
                             /\ Meanings(condition, Names) = {Truths(Compiled.value, Names)}
           /\ ~Compiled.ok => Compiled.value = NoNode /\ Meanings(condition, Names) = {}
<1>1. Setting(condition, Names, Leaves)
  BY ModelSetting DEF Names
<1>2. /\ Compiled.ok => /\ Compiled.value \in Trees(Leaves, Longest)
                        /\ Meanings(condition, Names) = {Truths(Compiled.value, Names)}
      /\ ~Compiled.ok => Compiled = Failed /\ Meanings(condition, Names) = {}
  BY <1>1, CompileCorrect DEF Compiled
<1>3. Failed.value = NoNode
  BY DEF Failed
<1> QED  BY <1>2, <1>3 DEF Nodes

\* The invariant holds before anything is validated.
LEMMA InitInv == Init => Inv
<1> SUFFICES ASSUME Init PROVE Inv
  OBVIOUS
<1>1. TypeOK
  BY DEF Init, TypeOK
<1>2. LoadedFacts /\ EvaluatedFacts
  BY DEF Init, LoadedFacts, EvaluatedFacts, Loaded
<1> QED  BY <1>1, <1>2 DEF Inv

\* The condition and the rule stay as they are.
LEMMA Unchanging ==
    ASSUME condition' = condition, known' = known
    PROVE  /\ Names' = Names /\ Compiled' = Compiled
           /\ validate_conditions(condition', Names') = validate_conditions(condition, Names)
BY DEF Names, Compiled

\* Every step of a rule's way from text to evaluation keeps the invariant.
LEMMA StepInv == Inv /\ [Next]_vars => Inv'
<1> SUFFICES ASSUME Inv, [Next]_vars PROVE Inv'
  OBVIOUS
<1>0. TypeOK /\ LoadedFacts /\ EvaluatedFacts
  BY DEF Inv
<1>1. CASE Validate
  <2>1. /\ phase = "written" /\ UNCHANGED <<condition, known, node, results, fired>>
        /\ phase' = IF validate_conditions(condition, Names) THEN "valid" ELSE "rejected"
    BY <1>1 DEF Validate
  <2>2. TypeOK'
    BY <1>0, <2>1 DEF TypeOK
  <2>3. LoadedFacts'
    <3>1. validate_conditions(condition', Names') = validate_conditions(condition, Names)
      BY <2>1, Unchanging
    <3>2. phase' = "valid" => validate_conditions(condition, Names)
      BY <2>1
    <3>3. phase' = "rejected" => ~validate_conditions(condition, Names)
      BY <2>1
    <3>4. ~Loaded'
      BY <2>1 DEF Loaded
    <3> QED  BY <3>1, <3>2, <3>3, <3>4 DEF LoadedFacts
  <2>4. EvaluatedFacts'
    BY <2>1 DEF EvaluatedFacts
  <2> QED  BY <2>2, <2>3, <2>4 DEF Inv
<1>2. CASE Compile
  <2>1. /\ phase = "valid" /\ UNCHANGED <<condition, known, results, fired>>
        /\ phase' = (IF Compiled.ok THEN "loaded" ELSE "rejected") /\ node' = Compiled.value
    BY <1>2 DEF Compile, Compiled
  <2>2. condition \in Conditions /\ known \in Detections /\ fired \in BOOLEAN
    BY <1>0 DEF TypeOK
  <2>3. Compiled.value \in Nodes \union {NoNode}
    BY <2>2, CompiledFacts
  <2>4. TypeOK'
    BY <2>1, <2>2, <2>3 DEF TypeOK
  <2>5. Names' = Names /\ Compiled' = Compiled
        /\ validate_conditions(condition', Names') = validate_conditions(condition, Names)
    BY <2>1, Unchanging
  <2>6. LoadedFacts'
    <3>1. validate_conditions(condition, Names)
      BY <1>0, <2>1 DEF LoadedFacts
    <3>2. phase' = "valid" => FALSE
      BY <2>1
    <3>3. Loaded' => Compiled.ok
      BY <2>1 DEF Loaded
    <3>4. phase' = "rejected" => ~Compiled.ok
      BY <2>1
    <3> QED  BY <2>1, <2>5, <3>1, <3>2, <3>3, <3>4 DEF LoadedFacts
  <2>7. EvaluatedFacts'
    BY <2>1 DEF EvaluatedFacts
  <2> QED  BY <2>4, <2>6, <2>7 DEF Inv
<1>3. CASE Evaluate
  <2>1. /\ phase \in {"loaded", "evaluated"} /\ phase' = "evaluated"
        /\ results' \in [1..Len(known) -> BOOLEAN]
        /\ fired' = evaluate_vec(node, results', Index(known))
        /\ UNCHANGED <<condition, known, node>>
    BY <1>3 DEF Evaluate
  <2>2. /\ condition \in Conditions /\ known \in Detections
        /\ validate_conditions(condition, Names) /\ Compiled.ok /\ node = Compiled.value
    BY <1>0, <2>1 DEF TypeOK, LoadedFacts, Loaded
  <2>3. node \in Nodes
    BY <2>2, CompiledFacts
  <2>4. fired' \in BOOLEAN
    <3>1. fired' = evaluate(node, MatchedOf(known, results'))
      BY <2>1, <2>2, <2>3, EvaluatorsAgree
    <3> QED  BY <2>3, <3>1, EvaluateNode
  <2>5. TypeOK'
    BY <2>1, <2>2, <2>3, <2>4 DEF TypeOK
  <2>6. LoadedFacts'
    <3>1. Names' = Names /\ Compiled' = Compiled
          /\ validate_conditions(condition', Names') = validate_conditions(condition, Names)
      BY <2>1, Unchanging
    <3> QED  BY <2>1, <2>2, <3>1 DEF LoadedFacts
  <2>7. EvaluatedFacts'
    BY <2>1 DEF EvaluatedFacts
  <2> QED  BY <2>5, <2>6, <2>7 DEF Inv
<1>4. CASE UNCHANGED vars
  <2>1. UNCHANGED <<phase, condition, known, node, results, fired>>
    BY <1>4 DEF vars
  <2>2. TypeOK'
    BY <1>0, <2>1 DEF TypeOK
  <2>3. LoadedFacts'
    <3>1. Names' = Names /\ Compiled' = Compiled
          /\ validate_conditions(condition', Names') = validate_conditions(condition, Names)
      BY <2>1, Unchanging
    <3>2. Loaded' = Loaded
      BY <2>1 DEF Loaded
    <3> QED  BY <1>0, <2>1, <3>1, <3>2 DEF LoadedFacts
  <2>4. EvaluatedFacts'
    BY <1>0, <2>1 DEF EvaluatedFacts
  <2> QED  BY <2>2, <2>3, <2>4 DEF Inv
<1>5. CASE Dropped
  BY <1>4, <1>5 DEF Dropped
<1> QED  BY <1>1, <1>2, <1>3, <1>4, <1>5 DEF Next

\* The invariant holds throughout.
LEMMA InvHolds == Spec => []Inv
BY InitInv, StepInv, PTL DEF Spec

\* Every node a rule is given is a tree over names and quantifiers, and every result of
\* an event one bit per identifier.
THEOREM ConditionTyping == Spec => []TypeOK
<1>1. Inv => TypeOK
  BY DEF Inv
<1> QED  BY <1>1, InvHolds, PTL

\* For every condition and every set of identifiers, the recursive-descent parser of
\* condition.rs accepts exactly what the grammar gives a meaning, and the node it builds
\* is satisfied by exactly the outcomes of that meaning.
THEOREM ParsesAsTheGrammar == Spec => []ParsesAsWritten
<1>1. Inv => ParsesAsWritten
  <2> SUFFICES ASSUME Inv PROVE ParsesAsWritten
    OBVIOUS
  <2>1. condition \in Conditions /\ known \in Detections /\ LoadedFacts
    BY DEF Inv, TypeOK
  <2>2. ASSUME phase = "loaded"
        PROVE  Meanings(condition, Names) = {{t \in SUBSET Names : evaluate(node, t)}}
    <3>1. Compiled.ok /\ node = Compiled.value
      BY <2>1, <2>2 DEF LoadedFacts, Loaded
    <3> QED  BY <2>1, <3>1, CompiledFacts DEF Truths
  <2>3. ASSUME phase = "rejected", validate_conditions(condition, Names)
        PROVE  Meanings(condition, Names) = {}
    <3>1. ~Compiled.ok
      BY <2>1, <2>3 DEF LoadedFacts
    <3> QED  BY <2>1, <3>1, CompiledFacts
  <2> QED  BY <2>2, <2>3 DEF ParsesAsWritten
<1> QED  BY <1>1, InvHolds, PTL

\* What the engine's vector evaluator answers for an event is what the condition says of
\* the identifiers that matched it.
THEOREM FiresAsTheGrammar == Spec => []FiresAsWritten
<1>1. Inv => FiresAsWritten
  <2> SUFFICES ASSUME Inv, phase = "evaluated", NEW meaning \in Meanings(condition, Names)
               PROVE  fired <=> MatchedOf(known, results) \in meaning
    BY DEF FiresAsWritten, MatchedOf
  <2>1. /\ condition \in Conditions /\ known \in Detections
        /\ Compiled.ok /\ node = Compiled.value
        /\ results \in [1..Len(known) -> BOOLEAN]
        /\ fired = evaluate_vec(node, results, Index(known))
    BY DEF Inv, TypeOK, LoadedFacts, EvaluatedFacts, Loaded
  <2>2. node \in Nodes /\ meaning = Truths(node, Names)
    BY <2>1, CompiledFacts
  <2>3. fired = evaluate(node, MatchedOf(known, results))
    BY <2>1, <2>2, EvaluatorsAgree
  <2>4. MatchedOf(known, results) \in SUBSET Names
    BY DEF MatchedOf, Names, NamesOf
  <2> QED  BY <2>2, <2>3, <2>4 DEF Truths
<1> QED  BY <1>1, InvHolds, PTL

\* Every name in the node of a rule that loads is an identifier of the rule, with the two
\* exceptions validation leaves open, and no quantifier counts over nothing.
THEOREM LoadedReferencesResolve == Spec => []ReferencesResolve
<1>1. Inv => ReferencesResolve
  <2> SUFFICES ASSUME Inv, Loaded
               PROVE  node \in Trees(Existing(Names), Longest)
    BY DEF ReferencesResolve, Existing
  <2>1. /\ condition \in Conditions /\ known \in Detections
        /\ validate_conditions(condition, Names) /\ Compiled.ok /\ node = Compiled.value
    BY DEF Inv, TypeOK, LoadedFacts
  <2>2. Setting(condition, Names, Existing(Names))
    BY <2>1, ValidSetting DEF Names
  <2> QED  BY <2>1, <2>2, CompileCorrect DEF Compiled
<1> QED  BY <1>1, InvHolds, PTL
=============================================================================
