---------------------------- MODULE RunnerProofs ----------------------------
(***************************************************************************)
(* Theorems about null_sigma_run and the flattener it calls, for every     *)
(* file, document, limits, rule set, number of threads and error mode.     *)
(*                                                                         *)
(* The flattener: what flatten_value_with has written, and what the calls  *)
(* on its stack are still going to write, make up what the document stands *)
(* for. That takes induction over documents. A document is a finite tree   *)
(* (LevelsAssumption), so the set of values for which a fact holds is all  *)
(* of them once it holds every value whose parts it holds (TreeInduction); *)
(* that WrittenBy and DepthsIn, which are defined by recursion, satisfy    *)
(* their equations follows from the existence of a solution                *)
(* (TreeRecursion), built level by level.                                  *)
(*                                                                         *)
(* The run. IInv: the types, the limits, and how far the flattener has     *)
(* come with the line in hand. Accounts: what is counted and sampled on    *)
(* stderr, against the lines settled so far. Sums: the matches counted,    *)
(* those of the events still waiting, and what the lines read declare.     *)
(***************************************************************************)
EXTENDS RunnerSpec, TLAPS, SequenceTheorems, FiniteSetTheorems, WellFoundedInduction

(* A set of numbers that holds 0, and with each number below n the next,    *)
(* holds all up to n.                                                       *)
LEMMA Upwards ==
    ASSUME NEW n \in Nat, NEW G, 0 \in G, \A k \in 0..(n - 1) : k \in G => k + 1 \in G
    PROVE  0..n \subseteq G
<1> DEFINE T == {k \in 0..n : k \notin G}
<1>1. SUFFICES ASSUME T # {} PROVE FALSE
  OBVIOUS
<1>2. PICK m \in T : \A k \in T : <<k, m>> \notin OpToRel(<, Nat)
  <2>1. T \subseteq Nat
    OBVIOUS
  <2> HIDE DEF T
  <2> QED  BY <1>1, <2>1, WFMin, NatLessThanWellFounded, Zenon
<1>3. \A k \in T : ~(k < m)
  <2>1. T \subseteq Nat
    OBVIOUS
  <2> HIDE DEF T
  <2> QED  BY <1>2, <2>1, Zenon DEF OpToRel
<1>4. m - 1 \in 0..(n - 1) /\ m - 1 < m /\ m - 1 \notin T /\ (m - 1) + 1 = m
  BY <1>3
<1> QED  BY <1>4

\* The least of some numbers.
LEMMA MinIsLeast ==
    ASSUME NEW S \in SUBSET Nat, S # {}
    PROVE  Min(S) \in S /\ \A k \in S : Min(S) <= k
<1>2. PICK m \in S : \A k \in S : <<k, m>> \notin OpToRel(<, Nat)
  BY WFMin, NatLessThanWellFounded, Zenon
<1>3. \A k \in S : ~(k < m)
  BY <1>2, Zenon DEF OpToRel
<1>4. \A k \in S : m <= k
  BY <1>3
<1> QED  BY <1>4 DEF Min

-----------------------------------------------------------------------------
(* FlattenSeq, the concatenation of a sequence of sequences. *)

\* What FlattenSeq's recursion adds at place i.
Concatenated(seqs, f, i) == IF i = 1 THEN seqs[i] ELSE f[i - 1] \o seqs[i]

\* FlattenSeq is a recursion over the sequence of sequences.
LEMMA FlattenUnfolds ==
    ASSUME NEW T, NEW seqs \in Seq(Seq(T)), seqs # << >>
    PROVE  \E f \in [1..Len(seqs) -> Seq(T)] :
              /\ \A i \in 1..Len(seqs) : f[i] = Concatenated(seqs, f, i)
              /\ FlattenSeq(seqs) = f[Len(seqs)]
<1> DEFINE n == Len(seqs)
           G == {k \in 0..n : \E f \in [1..n -> Seq(T)] :
                    \A i \in 1..k : f[i] = Concatenated(seqs, f, i)}
           flat1 == CHOOSE f : f = [i \in 1..n |-> Concatenated(seqs, f, i)]
<1>0. n \in Nat /\ n >= 1 /\ \A i \in 1..n : seqs[i] \in Seq(T)
  BY EmptySeq, LenProperties, ElementOfSeq
<1>1. 0 \in G
  <2> DEFINE f0 == [i \in 1..n |-> << >>]
  <2>1. f0 \in [1..n -> Seq(T)]
    OBVIOUS
  <2>2. 1..0 = {}
    OBVIOUS
  <2> HIDE DEF f0
  <2> QED  BY <1>0, <2>1, <2>2
<1>2. ASSUME NEW k \in 0..(n - 1), k \in G PROVE k + 1 \in G
  <2>1. PICK f \in [1..n -> Seq(T)] : \A i \in 1..k : f[i] = Concatenated(seqs, f, i)
    BY <1>2
  <2> DEFINE g == [f EXCEPT ![k + 1] = Concatenated(seqs, f, k + 1)]
  <2>2. Concatenated(seqs, f, k + 1) \in Seq(T)
    <3>1. k + 1 \in 1..n /\ (k + 1 # 1 => (k + 1) - 1 \in 1..n)
      BY <1>0
    <3>2. k + 1 # 1 => f[(k + 1) - 1] \o seqs[k + 1] \in Seq(T)
      BY <1>0, <3>1, ConcatProperties
    <3> QED  BY <1>0, <3>1, <3>2 DEF Concatenated
  <2>3. g \in [1..n -> Seq(T)] /\ g[k + 1] = Concatenated(seqs, f, k + 1)
        /\ \A i \in 1..n : i # k + 1 => g[i] = f[i]
    BY <1>0, <2>2
  <2> HIDE DEF g
  <2>4. ASSUME NEW i \in 1..(k + 1) PROVE g[i] = Concatenated(seqs, g, i)
    <3>1. i # 1 => g[i - 1] = f[i - 1]
      <4>1. i # 1 => i - 1 \in 1..n /\ i - 1 # k + 1
        BY <1>0
      <4> QED  BY <4>1, <2>3
    <3>2. Concatenated(seqs, g, i) = Concatenated(seqs, f, i)
      BY <3>1, Zenon DEF Concatenated
    <3>3. i # k + 1 => i \in 1..k /\ i \in 1..n
      BY <1>0
    <3> QED  BY <2>1, <2>3, <3>2, <3>3
  <2>5. k + 1 \in 0..n
    BY <1>0
  <2> QED  BY <2>3, <2>4, <2>5
<1>3. PICK f \in [1..n -> Seq(T)] : \A i \in 1..n : f[i] = Concatenated(seqs, f, i)
  <2>1. n \in 0..n
    BY <1>0
  <2> HIDE DEF G
  <2>2. n \in G
    BY <1>0, <1>1, <1>2, <2>1, Upwards
  <2> QED  BY <2>2 DEF G
<1>4. flat1 = [i \in 1..n |-> Concatenated(seqs, flat1, i)]
  <2>1. f = [i \in 1..n |-> Concatenated(seqs, f, i)]
    BY <1>3
  <2> QED  BY <2>1
<1>5. FlattenSeq(seqs) = flat1[n]
  BY <1>0 DEF FlattenSeq, Concatenated
<1> HIDE DEF flat1
<1>6. \A i \in 1..n : flat1[i] = Concatenated(seqs, flat1, i)
  BY <1>4
<1> DEFINE Typed == {k \in 0..n : \A i \in 1..k : flat1[i] \in Seq(T)}
<1>7. 0 \in Typed
  BY <1>0
<1>8. ASSUME NEW k \in 0..(n - 1), k \in Typed PROVE k + 1 \in Typed
  <2>1. k + 1 \in 1..n /\ (k + 1 # 1 => (k + 1) - 1 \in 1..k)
    BY <1>0
  <2>2. k + 1 # 1 => flat1[(k + 1) - 1] \o seqs[k + 1] \in Seq(T)
    BY <1>0, <1>8, <2>1, ConcatProperties
  <2>3. flat1[k + 1] \in Seq(T)
    BY <1>0, <1>6, <2>1, <2>2 DEF Concatenated
  <2> QED  BY <1>0, <1>8, <2>3
<1>9. n \in Typed
  <2>1. n \in 0..n
    BY <1>0
  <2> HIDE DEF Typed
  <2> QED  BY <1>0, <1>7, <1>8, <2>1, Upwards
<1>10. flat1 \in [1..n -> Seq(T)]
  <2>1. \A i \in 1..n : Concatenated(seqs, flat1, i) \in Seq(T)
    BY <1>6, <1>9
  <2>2. [i \in 1..n |-> Concatenated(seqs, flat1, i)] \in [1..n -> Seq(T)]
    BY <2>1
  <2> QED  BY <1>4, <2>2
<1> QED  BY <1>5, <1>6, <1>10

-----------------------------------------------------------------------------
\* f is the recursion over 0..n from a base, one step at a time.
Follows(f, n, base, step) == f[0] = base /\ \A i \in 1..n : f[i] = step[i][f[i - 1]]

\* Such a recursion has a value at every place.
LEMMA Recursion ==
    ASSUME NEW n \in Nat, NEW S, NEW base \in S, NEW step \in [1..n -> [S -> S]]
    PROVE  \E f \in [0..n -> S] : Follows(f, n, base, step)
<1> DEFINE G == {k \in 0..n : \E f \in [0..n -> S] :
                    f[0] = base /\ \A i \in 1..k : f[i] = step[i][f[i - 1]]}
<1>1. 0 \in G
  <2> DEFINE f0 == [i \in 0..n |-> base]
  <2>1. f0 \in [0..n -> S] /\ f0[0] = base /\ 1..0 = {} /\ 0 \in 0..n
    OBVIOUS
  <2> HIDE DEF f0
  <2> QED  BY <2>1
<1>2. ASSUME NEW k \in 0..(n - 1), k \in G PROVE k + 1 \in G
  <2>1. PICK f \in [0..n -> S] : f[0] = base /\ \A i \in 1..k : f[i] = step[i][f[i - 1]]
    BY <1>2
  <2> DEFINE x == step[k + 1][f[k]]
             g == [f EXCEPT ![k + 1] = x]
  <2>2. x \in S
    <3>1. k + 1 \in 1..n /\ k \in 0..n
      OBVIOUS
    <3> QED  BY <2>1, <3>1
  <2>3. /\ g \in [0..n -> S] /\ g[k + 1] = x
        /\ \A i \in 0..n : i # k + 1 => g[i] = f[i]
    <3> HIDE DEF x
    <3> QED  BY <2>1, <2>2
  <2> HIDE DEF g
  <2>4. g[0] = base /\ g[k] = f[k]
    BY <2>1, <2>3
  <2>5. ASSUME NEW i \in 1..(k + 1) PROVE g[i] = step[i][g[i - 1]]
    <3>1. CASE i = k + 1
      BY <2>3, <2>4, <3>1
    <3>2. CASE i # k + 1
      <4>1. i \in 1..k /\ i \in 0..n /\ i - 1 \in 0..n /\ i - 1 # k + 1
        BY <3>2
      <4> QED  BY <2>1, <2>3, <3>2, <4>1
    <3> QED  BY <3>1, <3>2
  <2>6. k + 1 \in 0..n
    OBVIOUS
  <2> QED  BY <2>3, <2>4, <2>5, <2>6
<1>3. n \in G
  <2>1. n \in 0..n
    OBVIOUS
  <2> HIDE DEF G
  <2> QED  BY <1>1, <1>2, <2>1, Upwards
<1> QED  BY <1>3 DEF Follows

\* Nothing, concatenated, is nothing.
LEMMA FlattenEmpty == FlattenSeq(<< >>) = << >>
BY DEF FlattenSeq

\* One more sequence at the end.
LEMMA FlattenSnoc ==
    ASSUME NEW T, NEW seqs \in Seq(Seq(T)), NEW s \in Seq(T)
    PROVE  FlattenSeq(Append(seqs, s)) = FlattenSeq(seqs) \o s
<1> DEFINE n == Len(seqs)
           more == Append(seqs, s)
<1>1. /\ more \in Seq(Seq(T)) /\ Len(more) = n + 1 /\ n \in Nat /\ more # << >>
      /\ more[n + 1] = s /\ \A i \in 1..n : more[i] = seqs[i]
  BY AppendProperties, LenProperties
<1> HIDE DEF more
<1>2. PICK g \in [1..(n + 1) -> Seq(T)] :
        (\A i \in 1..(n + 1) : g[i] = Concatenated(more, g, i)) /\ FlattenSeq(more) = g[n + 1]
  BY <1>1, FlattenUnfolds
<1>3. CASE n = 0
  <2>1. seqs = << >> /\ FlattenSeq(seqs) = << >>
    BY <1>3, EmptySeq, FlattenEmpty
  <2>2. g[n + 1] = s
    BY <1>1, <1>2, <1>3 DEF Concatenated
  <2>3. << >> \o s = s
    BY ConcatEmptySeq
  <2> QED  BY <1>2, <2>1, <2>2, <2>3 DEF more
<1>4. CASE n # 0
  <2>1. seqs # << >> /\ n \in 1..n
    BY <1>1, <1>4, EmptySeq
  <2>2. PICK f \in [1..n -> Seq(T)] :
          (\A i \in 1..n : f[i] = Concatenated(seqs, f, i)) /\ FlattenSeq(seqs) = f[n]
    BY <2>1, FlattenUnfolds
  <2> DEFINE Same == {k \in 0..n : \A i \in 1..k : f[i] = g[i]}
  <2>3. 0 \in Same
    BY <1>1
  <2>4. ASSUME NEW k \in 0..(n - 1), k \in Same PROVE k + 1 \in Same
    <3>1. k + 1 \in 1..n /\ k + 1 \in 1..(n + 1) /\ (k + 1 # 1 => (k + 1) - 1 \in 1..k)
      BY <1>1
    <3>2. f[k + 1] = Concatenated(seqs, f, k + 1) /\ g[k + 1] = Concatenated(more, g, k + 1)
          /\ more[k + 1] = seqs[k + 1]
      BY <1>1, <1>2, <2>2, <3>1
    <3>3. k + 1 # 1 => f[(k + 1) - 1] = g[(k + 1) - 1]
      BY <2>4, <3>1
    <3>4. f[k + 1] = g[k + 1]
      BY <3>2, <3>3, Zenon DEF Concatenated
    <3>5. k + 1 \in 0..n /\ \A i \in 1..(k + 1) : i \in 1..k \/ i = k + 1
      BY <1>1
    <3> QED  BY <2>4, <3>4, <3>5
  <2>5. f[n] = g[n]
    <3>1. n \in 0..n
      BY <1>1
    <3> HIDE DEF Same
    <3>2. n \in Same
      BY <1>1, <2>3, <2>4, <3>1, Upwards
    <3> QED  BY <2>1, <3>2 DEF Same
  <2>6. g[n + 1] = g[n] \o s
    <3>1. n + 1 \in 1..(n + 1) /\ n + 1 # 1 /\ (n + 1) - 1 = n
      BY <1>1, <1>4
    <3>2. g[n + 1] = Concatenated(more, g, n + 1) /\ more[n + 1] = s
      BY <1>1, <1>2, <3>1
    <3> QED  BY <3>1, <3>2, Zenon DEF Concatenated
  <2> QED  BY <1>2, <2>2, <2>5, <2>6 DEF more
<1> QED  BY <1>3, <1>4

\* Sequences over T concatenate to a sequence over T.
LEMMA FlattenType ==
    ASSUME NEW T, NEW seqs \in Seq(Seq(T))
    PROVE  FlattenSeq(seqs) \in Seq(T)
<1>1. CASE seqs = << >>
  <2>1. << >> \in Seq(T)
    OBVIOUS
  <2> QED  BY <1>1, <2>1, FlattenEmpty
<1>2. CASE seqs # << >>
  <2>1. Len(seqs) \in 1..Len(seqs)
    BY <1>2, EmptySeq, LenProperties
  <2>2. PICK f \in [1..Len(seqs) -> Seq(T)] : FlattenSeq(seqs) = f[Len(seqs)]
    BY <1>2, FlattenUnfolds
  <2> QED  BY <2>1, <2>2
<1> QED  BY <1>1, <1>2

\* All but the last element, and then it.
LEMMA Grown ==
    ASSUME NEW S, NEW s \in Seq(S), NEW k \in 0..(Len(s) - 1)
    PROVE  /\ SubSeq(s, 1, k) \in Seq(S) /\ Len(SubSeq(s, 1, k)) = k /\ s[k + 1] \in S
           /\ SubSeq(s, 1, k + 1) = Append(SubSeq(s, 1, k), s[k + 1])
<1>1. Len(s) \in Nat /\ k \in Nat /\ k + 1 \in 1..Len(s) /\ s[k + 1] \in S
      /\ \A i \in 1..k : s[i] \in S
  BY LenProperties, ElementOfSeq
<1>2. SubSeq(s, 1, k) = [i \in 1..k |-> s[i]] /\ SubSeq(s, 1, k + 1) = [i \in 1..(k + 1) |-> s[i]]
  BY <1>1, SubSeqProperties
<1>3. SubSeq(s, 1, k) \in Seq(S) /\ Len(SubSeq(s, 1, k)) = k
  BY <1>1, <1>2
<1> QED  BY <1>1, <1>2, <1>3

\* w is u followed by v.
IsConcat(S, u, v, w) == u \in Seq(S) /\ v \in Seq(S) /\ w = u \o v

\* The concatenation of two sequences over S is one.
LEMMA ConcatType ==
    ASSUME NEW S, NEW u, NEW v, NEW w, IsConcat(S, u, v, w)
    PROVE  w \in Seq(S)
BY ConcatProperties DEF IsConcat

\* Concatenation is associative.
LEMMA Regroup ==
    ASSUME NEW S, NEW a, NEW b, NEW c, NEW ab, NEW bc, NEW abc,
           IsConcat(S, a, b, ab), IsConcat(S, b, c, bc), IsConcat(S, ab, c, abc)
    PROVE  IsConcat(S, a, bc, abc)
<1>1. a \in Seq(S) /\ b \in Seq(S) /\ c \in Seq(S) /\ bc \in Seq(S)
  BY ConcatType DEF IsConcat
<1>2. ab = a \o b /\ bc = b \o c /\ abc = ab \o c
  BY DEF IsConcat
<1>3. (a \o b) \o c = a \o (b \o c)
  BY <1>1, ConcatAssociative
<1> QED  BY <1>1, <1>2, <1>3 DEF IsConcat

\* An element appended to the second of two sequences ends up last.
LEMMA ConcatSnoc ==
    ASSUME NEW S, NEW s \in Seq(S), NEW t \in Seq(S), NEW e \in S
    PROVE  s \o Append(t, e) = Append(s \o t, e)
OBVIOUS

\* Concatenating two lists of sequences, and what each of them concatenates to, agree.
LEMMA FlattenConcat ==
    ASSUME NEW T, NEW ss \in Seq(Seq(T)), NEW tt \in Seq(Seq(T)), NEW uu, uu = ss \o tt
    PROVE  IsConcat(T, FlattenSeq(ss), FlattenSeq(tt), FlattenSeq(uu))
<1> DEFINE n == Len(tt)
           first(k) == SubSeq(tt, 1, k)
           Holds(x) == IsConcat(T, FlattenSeq(ss), FlattenSeq(x), FlattenSeq(ss \o x))
           G == {k \in 0..n : Holds(first(k))}
<1>0. n \in Nat /\ FlattenSeq(ss) \in Seq(T)
  BY LenProperties, FlattenType
<1>1. 0 \in G
  <2>1. first(0) = << >> /\ << >> \in Seq(T)
    OBVIOUS
  <2>2. \A S : \A u \in Seq(S) : IsConcat(S, u, << >>, u)
    <3> TAKE S
    <3> TAKE u \in Seq(S)
    <3>1. << >> \in Seq(S) /\ u \o << >> = u
      BY ConcatEmptySeq
    <3> QED  BY <3>1 DEF IsConcat
  <2>3. FlattenSeq(ss \o << >>) = FlattenSeq(ss)
    <3>1. ss \o << >> = ss
      BY ConcatEmptySeq
    <3> QED  BY <3>1
  <2>4. Holds(<< >>)
    BY <1>0, <2>2, <2>3, FlattenEmpty, Zenon
  <2>5. 0 \in 0..n
    BY <1>0
  <2> HIDE DEF Holds
  <2> QED  BY <2>1, <2>4, <2>5
<1>2. ASSUME NEW x \in Seq(Seq(T)), NEW s \in Seq(T), Holds(x)
      PROVE  Holds(Append(x, s))
  <2>1. ss \o x \in Seq(Seq(T)) /\ Append(x, s) \in Seq(Seq(T))
    BY ConcatProperties, AppendProperties
  <2>2. ss \o Append(x, s) = Append(ss \o x, s)
    BY ConcatSnoc
  <2>3. PICK a, b, c, d, e : /\ a = FlattenSeq(ss) /\ b = FlattenSeq(x) /\ c = FlattenSeq(ss \o x)
                          /\ d = FlattenSeq(Append(x, s)) /\ e = FlattenSeq(Append(ss \o x, s))
    OBVIOUS
  <2>4. a \in Seq(T) /\ b \in Seq(T) /\ c \in Seq(T)
    BY <1>0, <2>1, <2>3, FlattenType
  <2>5. d = b \o s /\ e = c \o s
    BY <2>1, <2>3, FlattenSnoc
  <2>6. IsConcat(T, a, b, c) /\ IsConcat(T, b, s, d) /\ IsConcat(T, c, s, e)
    BY <1>2, <2>3, <2>4, <2>5 DEF IsConcat
  <2>7. IsConcat(T, a, d, e)
    BY <2>6, Regroup
  <2> QED  BY <2>2, <2>3, <2>7
<1>3. ASSUME NEW k \in 0..(n - 1), k \in G PROVE k + 1 \in G
  <2>1. first(k) \in Seq(Seq(T)) /\ tt[k + 1] \in Seq(T)
        /\ first(k + 1) = Append(first(k), tt[k + 1])
    BY Grown
  <2>2. k + 1 \in 0..n
    BY <1>0
  <2> HIDE DEF first, Holds
  <2> QED  BY <1>2, <1>3, <2>1, <2>2
<1>4. n \in G
  <2>1. n \in 0..n
    BY <1>0
  <2> HIDE DEF G
  <2> QED  BY <1>0, <1>1, <1>3, <2>1, Upwards
<1>5. first(n) = tt
  BY SubSeqFull
<1> QED  BY <1>4, <1>5

-----------------------------------------------------------------------------
JsonValues == Values \union Scalars

\* A JSON value is of the kind that it says.
LEMMA Kinds ==
    ASSUME NEW v \in JsonValues
    PROVE  /\ v \in Scalars \union Objects \union Arrays
           /\ v.kind = "scalar" <=> v \in Scalars
           /\ v.kind = "object" <=> v \in Objects
           /\ v.kind = "array" <=> v \in Arrays
           /\ v.kind \in {"scalar", "object", "array"}
           /\ v.kind # "scalar" => v \in Values
BY ValuesAssumption DEF JsonValues, Scalars, Objects, Arrays

\* An object has keys that are paths, and values that are JSON values.
LEMMA Members ==
    ASSUME NEW v \in Objects
    PROVE  /\ Len(v.members) \in Nat /\ DOMAIN v.members = 1..Len(v.members)
           /\ \A i \in 1..Len(v.members) :
                v.members[i].key \in Path /\ v.members[i].value \in Values
<1>1. v.members \in Seq([key : Path, value : Values])
  BY DEF Objects
<1>2. \A i \in 1..Len(v.members) : v.members[i] \in [key : Path, value : Values]
  BY <1>1, ElementOfSeq
<1> QED  BY <1>1, <1>2, LenProperties

\* The elements of an array are JSON values, and there is a name for every index.
LEMMA Items ==
    ASSUME NEW v \in Arrays
    PROVE  /\ v.items \in Seq(Values)
           /\ Len(v.items) \in Nat /\ DOMAIN v.items = 1..Len(v.items)
           /\ \A i \in 1..Len(v.items) : v.items[i] \in Values
           /\ v \in JsonValues => \A i \in 1..Len(v.items) : <<IndexNames[i]>> \in Path
<1>1. v.items \in Seq(Values)
  BY DEF Arrays
<1>2. ASSUME v \in JsonValues, NEW i \in 1..Len(v.items) PROVE <<IndexNames[i]>> \in Path
  <2>1. v \in Values /\ v.kind = "array"
    BY <1>2, Kinds
  <2>2. i \in 1..Len(IndexNames)
    BY <1>1, <2>1, IndexAssumption, NamesAssumption, LenProperties
  <2>3. IndexNames[i] \in Segments
    BY <2>2, NamesAssumption, ElementOfSeq
  <2> QED  BY <2>3 DEF Path
<1> QED  BY <1>1, <1>2, LenProperties, ElementOfSeq

\* The parts of a value are its members or items.
LEMMA PartsType ==
    ASSUME NEW v \in JsonValues
    PROVE  /\ Parts(v) \subseteq Values
           /\ v.kind = "object" => Parts(v) = {v.members[i].value : i \in 1..Len(v.members)}
           /\ v.kind = "array" => Parts(v) = {v.items[i] : i \in 1..Len(v.items)}
           /\ v.kind = "scalar" => Parts(v) = {}
<1>1. CASE v.kind = "scalar"
  BY <1>1 DEF Parts
<1>2. CASE v.kind = "object"
  BY <1>2, Kinds, Members DEF Parts
<1>3. CASE v.kind = "array"
  BY <1>3, Kinds, Items DEF Parts
<1> QED  BY <1>1, <1>2, <1>3, Kinds

\* The scalars of an array give texts.
LEMMA ScalarTextsType ==
    ASSUME NEW items \in Seq(Values)
    PROVE  ScalarTexts(items) \in Seq(Text)
<1> DEFINE n == Len(items)
           S == Seq(Text)
           Next1(i, t) == IF IsScalar(items[i]) THEN Append(t, items[i].text) ELSE t
           step == [i \in 1..n |-> [t \in S |-> Next1(i, t)]]
           texts == CHOOSE f : f = [i \in 0..n |-> IF i = 0 THEN << >> ELSE Next1(i, f[i - 1])]
<1>0. n \in Nat /\ << >> \in S
  BY LenProperties
<1>1. ASSUME NEW i \in 1..n, NEW t \in S PROVE Next1(i, t) \in S
  <2>1. items[i] \in Values
    BY ElementOfSeq
  <2>2. IsScalar(items[i]) => items[i].text \in Text
    BY <2>1, Kinds DEF IsScalar, JsonValues, Scalars
  <2> QED  BY <2>2, AppendProperties
<1>2. step \in [1..n -> [S -> S]]
  <2> HIDE DEF Next1, S
  <2> QED  BY <1>1
<1> HIDE DEF Next1
<1>3. PICK f \in [0..n -> S] : Follows(f, n, << >>, step)
  <2> HIDE DEF n, step, S
  <2> QED  BY <1>0, <1>2, Recursion
<1>4. f = [i \in 0..n |-> IF i = 0 THEN << >> ELSE Next1(i, f[i - 1])]
  <2>1. ASSUME NEW i \in 1..n PROVE f[i] = Next1(i, f[i - 1])
    <3>1. i - 1 \in 0..n
      BY <1>0
    <3>2. f[i - 1] \in S
      BY <1>3, <3>1
    <3> HIDE DEF S
    <3> QED  BY <1>3, <3>2 DEF Follows
  <2>2. \A i \in 0..n : i = 0 \/ i \in 1..n
    BY <1>0
  <2> HIDE DEF S
  <2> QED  BY <1>3, <2>1, <2>2 DEF Follows
<1>5. texts = [i \in 0..n |-> IF i = 0 THEN << >> ELSE Next1(i, texts[i - 1])]
  BY <1>4
<1>6. ScalarTexts(items) = texts[n]
  BY DEF ScalarTexts, Next1
<1> HIDE DEF texts, S
<1> DEFINE Typed == {i \in 0..n : texts[i] \in S}
<1>7. 0 \in Typed
  BY <1>0, <1>5
<1>8. ASSUME NEW k \in 0..(n - 1), k \in Typed PROVE k + 1 \in Typed
  <2>1. k + 1 \in 1..n /\ k + 1 \in 0..n /\ (k + 1) - 1 = k /\ k + 1 # 0
    BY <1>0
  <2>2. texts[k + 1] = Next1(k + 1, texts[k])
    BY <1>5, <2>1
  <2>3. Next1(k + 1, texts[k]) \in S
    BY <1>1, <1>8, <2>1
  <2> QED  BY <2>1, <2>2, <2>3
<1>9. n \in Typed
  <2>1. n \in 0..n
    BY <1>0
  <2> HIDE DEF Typed
  <2> QED  BY <1>0, <1>7, <1>8, <2>1, Upwards
<1> QED  BY <1>6, <1>9 DEF S

\* Texts joined by newlines are a text.
LEMMA JoinedType ==
    ASSUME NEW texts \in Seq(Text), texts # << >>
    PROVE  Joined(texts) \in Text
<1> DEFINE n == Len(texts)
           seqs == [i \in 1..n |-> <<Newline>> \o texts[i]]
           all == FlattenSeq(seqs)
<1>0. n \in Nat /\ n \in 1..n /\ \A i \in 1..n : texts[i] \in Seq(Atoms)
  BY LenProperties, EmptySeq, ElementOfSeq DEF Text
<1>1. \A i \in 1..n : seqs[i] \in Seq(Atoms) /\ Len(seqs[i]) >= 1
  <2> TAKE i \in 1..n
  <2>1. <<Newline>> \in Seq(Atoms) /\ texts[i] \in Seq(Atoms)
    BY <1>0, NamesAssumption
  <2> QED  BY <2>1
<1>2. seqs \in Seq(Seq(Atoms)) /\ Len(seqs) = n /\ seqs # << >>
  <2>1. seqs \in Seq(Seq(Atoms)) /\ Len(seqs) = n
    BY <1>0, <1>1
  <2>2. Len(<< >>) = 0
    OBVIOUS
  <2> HIDE DEF seqs
  <2> QED  BY <1>0, <2>1, <2>2
<1> HIDE DEF seqs
<1>3. PICK f \in [1..n -> Seq(Atoms)] :
        (\A i \in 1..n : f[i] = Concatenated(seqs, f, i)) /\ all = f[n]
  BY <1>2, FlattenUnfolds
<1>4. all \in Seq(Atoms) /\ Len(all) >= 1
  <2>1. CASE n = 1
    <3>1. f[n] = seqs[n]
      BY <1>0, <1>3, <2>1 DEF Concatenated
    <3> QED  BY <1>0, <1>1, <1>3, <3>1
  <2>2. CASE n # 1
    <3>1. n - 1 \in 1..n
      <4> HIDE DEF n
      <4> QED  BY <1>0, <2>2
    <3>2. PICK x \in Seq(Atoms) : x = f[n - 1]
      BY <1>3, <3>1
    <3>3. f[n] = Concatenated(seqs, f, n)
      BY <1>0, <1>3
    <3>4. f[n] = x \o seqs[n]
      BY <2>2, <3>2, <3>3, Zenon DEF Concatenated
    <3>5. seqs[n] \in Seq(Atoms) /\ Len(seqs[n]) >= 1
      BY <1>0, <1>1
    <3> QED  BY <1>3, <3>4, <3>5
  <2> QED  BY <2>1, <2>2
<1>5. Joined(texts) = Tail(all)
  BY DEF Joined, seqs
<1> HIDE DEF all
<1>6. all # << >>
  BY <1>4
<1> QED  BY <1>4, <1>5, <1>6, HeadTailProperties DEF Text

-----------------------------------------------------------------------------
(* Recursion over documents, from the inside out. *)
Rank(v) == IF v.kind = "scalar" THEN 0 ELSE Levels[v]

\* The parts of a value have fewer levels.
LEMMA RankBelow ==
    ASSUME NEW v \in JsonValues
    PROVE  /\ Rank(v) \in 0..MaxLevels
           /\ \A w \in Parts(v) : w \in JsonValues /\ w \in Values /\ Rank(w) < Rank(v)
<1>0. MaxLevels \in Nat /\ Levels \in [Values -> 0..MaxLevels]
  BY LevelsAssumption
<1>1. Rank(v) \in 0..MaxLevels
  BY <1>0, Kinds DEF Rank
<1>2. ASSUME NEW w \in Parts(v) PROVE w \in JsonValues /\ w \in Values /\ Rank(w) < Rank(v)
  <2>1. w \in Values /\ v.kind # "scalar"
    BY <1>2, PartsType
  <2>2. v \in Values /\ Rank(v) = Levels[v]
    BY <2>1, Kinds DEF Rank
  <2>3. Levels[w] < Levels[v] /\ Levels[w] \in 0..MaxLevels /\ Levels[v] \in 0..MaxLevels
    BY <1>0, <2>1, <2>2, LevelsAssumption
  <2>4. Rank(w) = 0 \/ Rank(w) = Levels[w]
    BY DEF Rank
  <2> QED  BY <2>1, <2>2, <2>3, <2>4 DEF JsonValues
<1> QED  BY <1>1, <1>2

\* step looks at the parts of a value alone.
IsLocal(step, S) ==
    \A v \in JsonValues : \A f, g \in [JsonValues -> S] :
        (\A w \in Parts(v) : f[w] = g[w]) => step[v][f] = step[v][g]

\* f is what the recursion computes.
Solves(f, step) == \A v \in JsonValues : f[v] = step[v][f]

\* A recursion in which a value depends on its parts only has a solution.
LEMMA TreeRecursion ==
    ASSUME NEW S, NEW any \in S,
           NEW step \in [JsonValues -> [[JsonValues -> S] -> S]], IsLocal(step, S)
    PROVE  \E f \in [JsonValues -> S] : Solves(f, step)
<1> DEFINE n == MaxLevels + 1
           Right(f, k) == \A v \in JsonValues : Rank(v) < k => f[v] = step[v][f]
           G == {k \in 0..n : \E f \in [JsonValues -> S] : Right(f, k)}
<1>0. n \in Nat /\ \A v \in JsonValues : Rank(v) \in Nat /\ Rank(v) < n
  BY RankBelow, LevelsAssumption
<1>1. 0 \in G
  <2> DEFINE f0 == [v \in JsonValues |-> any]
  <2>1. f0 \in [JsonValues -> S] /\ Right(f0, 0) /\ 0 \in 0..n
    BY <1>0
  <2> HIDE DEF f0, Right
  <2> QED  BY <2>1
<1>2. ASSUME NEW k \in 0..(n - 1), k \in G PROVE k + 1 \in G
  <2>1. PICK f \in [JsonValues -> S] : Right(f, k)
    BY <1>2
  <2> DEFINE g == [v \in JsonValues |-> step[v][f]]
  <2>2. g \in [JsonValues -> S] /\ \A v \in JsonValues : g[v] = step[v][f]
    OBVIOUS
  <2> HIDE DEF g
  <2>3. ASSUME NEW v \in JsonValues, Rank(v) < k + 1 PROVE g[v] = step[v][g]
    <3>1. \A w \in Parts(v) : w \in JsonValues /\ Rank(w) < k
      BY <1>0, <2>3, RankBelow
    <3>2. \A w \in Parts(v) : f[w] = g[w]
      BY <2>1, <2>2, <3>1
    <3>3. step[v][f] = step[v][g]
      BY <2>2, <3>2 DEF IsLocal
    <3> QED  BY <2>2, <3>3
  <2>4. k + 1 \in 0..n
    BY <1>0
  <2> QED  BY <2>2, <2>3, <2>4
<1>3. n \in G
  <2>1. n \in 0..n
    BY <1>0
  <2> HIDE DEF G, n
  <2> QED  BY <1>0, <1>1, <1>2, <2>1, Upwards
<1> QED  BY <1>0, <1>3 DEF Solves

\* A set that holds every value whose parts it holds, holds every value.
LEMMA TreeInduction ==
    ASSUME NEW G, \A v \in JsonValues : Parts(v) \subseteq G => v \in G
    PROVE  JsonValues \subseteq G
<1> DEFINE n == MaxLevels + 1
           H == {k \in 0..n : \A v \in JsonValues : Rank(v) < k => v \in G}
<1>0. n \in Nat /\ \A v \in JsonValues : Rank(v) \in Nat /\ Rank(v) < n
  BY RankBelow, LevelsAssumption
<1>1. 0 \in H
  BY <1>0
<1>2. ASSUME NEW k \in 0..(n - 1), k \in H PROVE k + 1 \in H
  <2>1. ASSUME NEW v \in JsonValues, Rank(v) < k + 1 PROVE v \in G
    <3>1. \A w \in Parts(v) : w \in JsonValues /\ Rank(w) < k
      BY <1>0, <2>1, RankBelow
    <3> QED  BY <1>2, <3>1
  <2>2. k + 1 \in 0..n
    BY <1>0
  <2> QED  BY <2>1, <2>2
<1>3. n \in H
  <2>1. n \in 0..n
    BY <1>0
  <2> HIDE DEF H, n
  <2> QED  BY <1>0, <1>1, <1>2, <2>1, Upwards
<1> QED  BY <1>0, <1>3

-----------------------------------------------------------------------------
(* What a document writes. *)
Write     == Path \X Text
WriteList == [Path -> Seq(Write)]

\* One value of the recursion in WrittenBy, from its parts.
ObjectWrites(f, v, path) ==
    FlattenSeq([i \in 1..Len(v.members) |-> f[v.members[i].value][path \o v.members[i].key]])

ElementWrites(f, v, path) ==
    FlattenSeq([i \in 1..Len(v.items) |-> f[v.items[i]][path \o <<IndexNames[i]>>]])

JoinedWrites(v, path) ==
    LET texts == ScalarTexts(v.items)
    IN IF texts = << >> THEN << >> ELSE << <<path, Joined(texts)>> >>

WritesAt(f, v, path) ==
    IF v.kind = "scalar" THEN << <<path, v.text>> >>
    ELSE IF v.kind = "object" THEN ObjectWrites(f, v, path)
    ELSE IF OneText(v)
         THEN << <<path, IF v.items = << >> THEN << >> ELSE v.items[1].text>> >>
    ELSE ElementWrites(f, v, path) \o JoinedWrites(v, path)

\* A single write of a text under a path.
LEMMA OneWrite ==
    ASSUME NEW path \in Path, NEW text \in Text
    PROVE  << <<path, text>> >> \in Seq(Write)
<1> DEFINE w == <<path, text>>
<1>1. w \in Write
  BY DEF Write
<1> HIDE DEF w
<1>2. <<w>> \in Seq(Write)
  BY <1>1
<1> QED  BY <1>2 DEF w

\* What an array without elements, or with one scalar, is written as.
LEMMA OneTextType ==
    ASSUME NEW v \in JsonValues, OneText(v)
    PROVE  (IF v.items = << >> THEN << >> ELSE v.items[1].text) \in Text
<1>1. v \in Arrays
  BY Kinds DEF OneText
<1>2. CASE v.items = << >>
  BY <1>2 DEF Text
<1>3. CASE v.items # << >>
  <2>1. Len(v.items) = 1 /\ IsScalar(v.items[1])
    BY <1>1, <1>3, Items, EmptySeq DEF OneText
  <2>2. v.items[1] \in Values
    BY <1>1, <2>1, Items
  <2>3. v.items[1] \in Scalars
    BY <2>1, <2>2, Kinds DEF IsScalar, JsonValues
  <2> QED  BY <1>3, <2>3 DEF Scalars
<1> QED  BY <1>2, <1>3

\* The joined scalars are one write, or none.
LEMMA JoinedWritesType ==
    ASSUME NEW v \in Arrays, NEW path \in Path
    PROVE  JoinedWrites(v, path) \in Seq(Write)
<1> DEFINE texts == ScalarTexts(v.items)
<1>1. texts \in Seq(Text)
  BY Items, ScalarTextsType
<1>2. texts # << >> => Joined(texts) \in Text
  BY <1>1, JoinedType
<1>3. << >> \in Seq(Write)
  OBVIOUS
<1> HIDE DEF texts
<1>4. (IF texts = << >> THEN << >> ELSE << <<path, Joined(texts)>> >>) \in Seq(Write)
  BY <1>2, <1>3, OneWrite
<1> QED  BY <1>4 DEF JoinedWrites, texts

\* What a value writes is a list of writes, if what its parts write is.
LEMMA WritesAtType ==
    ASSUME NEW v \in JsonValues, NEW path \in Path, NEW f,
           \A w \in Parts(v) : f[w] \in WriteList
    PROVE  /\ WritesAt(f, v, path) \in Seq(Write)
           /\ v.kind = "object" =>
                [i \in 1..Len(v.members) |-> f[v.members[i].value][path \o v.members[i].key]]
                    \in Seq(Seq(Write))
           /\ v.kind = "array" =>
                [i \in 1..Len(v.items) |-> f[v.items[i]][path \o <<IndexNames[i]>>]]
                    \in Seq(Seq(Write))
<1>1. CASE v.kind = "scalar"
  <2>1. v.text \in Text
    BY <1>1, Kinds DEF Scalars
  <2> QED  BY <1>1, <2>1 DEF WritesAt, Write
<1>2. CASE v.kind = "object"
  <2>1. v \in Objects
    BY <1>2, Kinds
  <2>2. ASSUME NEW i \in 1..Len(v.members)
        PROVE  f[v.members[i].value][path \o v.members[i].key] \in Seq(Write)
    <3>1. v.members[i].value \in Parts(v)
      BY <1>2, PartsType
    <3>2. path \o v.members[i].key \in Path
      BY <2>1, Members, ConcatProperties DEF Path
    <3> QED  BY <3>1, <3>2 DEF WriteList
  <2> DEFINE seqs == [i \in 1..Len(v.members) |-> f[v.members[i].value][path \o v.members[i].key]]
  <2>3. seqs \in Seq(Seq(Write))
    BY <2>1, <2>2, Members
  <2> HIDE DEF seqs
  <2>4. FlattenSeq(seqs) \in Seq(Write)
    BY <2>3, FlattenType
  <2> QED  BY <1>2, <2>3, <2>4 DEF WritesAt, ObjectWrites, seqs
<1>3. CASE v.kind = "array"
  <2>1. v \in Arrays
    BY <1>3, Kinds
  <2>2. ASSUME NEW i \in 1..Len(v.items)
        PROVE  f[v.items[i]][path \o <<IndexNames[i]>>] \in Seq(Write)
    <3>1. v.items[i] \in Parts(v)
      BY <1>3, PartsType
    <3>2. path \o <<IndexNames[i]>> \in Path
      BY <2>1, Items, ConcatProperties DEF Path
    <3> QED  BY <3>1, <3>2 DEF WriteList
  <2> DEFINE seqs == [i \in 1..Len(v.items) |-> f[v.items[i]][path \o <<IndexNames[i]>>]]
  <2>3. seqs \in Seq(Seq(Write))
    BY <2>1, <2>2, Items
  <2> HIDE DEF seqs
  <2>4. FlattenSeq(seqs) \o JoinedWrites(v, path) \in Seq(Write)
    BY <2>1, <2>3, FlattenType, JoinedWritesType, ConcatProperties
  <2>5. OneText(v) => WritesAt(f, v, path) \in Seq(Write)
    <3> DEFINE t == IF v.items = << >> THEN << >> ELSE v.items[1].text
    <3>1. OneText(v) => t \in Text
      BY OneTextType
    <3>2. OneText(v) => WritesAt(f, v, path) = << <<path, t>> >>
      BY <1>3 DEF WritesAt
    <3> HIDE DEF t
    <3>3. OneText(v) => << <<path, t>> >> \in Seq(Write)
      BY <3>1, OneWrite
    <3> QED  BY <3>2, <3>3, Zenon
  <2>6. ~OneText(v) => WritesAt(f, v, path) = FlattenSeq(seqs) \o JoinedWrites(v, path)
    BY <1>3 DEF WritesAt, ElementWrites, seqs
  <2> QED  BY <1>3, <2>3, <2>4, <2>5, <2>6 DEF seqs
<1> QED  BY <1>1, <1>2, <1>3, Kinds

-----------------------------------------------------------------------------
\* f unfolds as WrittenBy does.
LEMMA WrittenByUnfolds ==
    ASSUME NEW v \in JsonValues
    PROVE  WrittenBy[v] = [path \in Path |-> WritesAt(WrittenBy, v, path)] /\ WrittenBy[v] \in WriteList
<1> DEFINE S == WriteList
           At(f, w) == [path \in Path |-> WritesAt(f, w, path)]
           step == [w \in JsonValues |-> [f \in [JsonValues -> S] |-> At(f, w)]]
           W == CHOOSE f : f = [w \in JsonValues |-> At(f, w)]
<1>1. ASSUME NEW w \in JsonValues, NEW f, \A u \in Parts(w) : f[u] \in S
      PROVE  At(f, w) \in S
  BY <1>1, WritesAtType DEF WriteList
<1>2. ASSUME NEW w \in JsonValues, NEW f, NEW g, \A u \in Parts(w) : f[u] = g[u]
      PROVE  At(f, w) = At(g, w)
  <2>1. ASSUME NEW path \in Path PROVE WritesAt(f, w, path) = WritesAt(g, w, path)
    <3>1. w.kind = "object" =>
            \A i \in 1..Len(w.members) : f[w.members[i].value] = g[w.members[i].value]
      BY <1>2, PartsType
    <3>2. w.kind = "array" => \A i \in 1..Len(w.items) : f[w.items[i]] = g[w.items[i]]
      BY <1>2, PartsType
    <3>3. w.kind = "object" => ObjectWrites(f, w, path) = ObjectWrites(g, w, path)
      BY <3>1 DEF ObjectWrites
    <3>4. w.kind = "array" => ElementWrites(f, w, path) = ElementWrites(g, w, path)
      BY <3>2 DEF ElementWrites
    <3> QED  BY <3>3, <3>4, Kinds DEF WritesAt
  <2> QED  BY <2>1
<1> HIDE DEF At
<1>3. step \in [JsonValues -> [[JsonValues -> S] -> S]]
  <2> SUFFICES ASSUME NEW w \in JsonValues, NEW f \in [JsonValues -> S] PROVE At(f, w) \in S
    OBVIOUS
  <2>1. \A u \in Parts(w) : f[u] \in S
    BY RankBelow
  <2> QED  BY <1>1, <2>1
<1>4. IsLocal(step, S)
  <2> SUFFICES ASSUME NEW w \in JsonValues, NEW f \in [JsonValues -> S],
                      NEW g \in [JsonValues -> S], \A u \in Parts(w) : f[u] = g[u]
               PROVE  step[w][f] = step[w][g]
    BY DEF IsLocal
  <2>1. At(f, w) = At(g, w)
    BY <1>2
  <2> QED  BY <2>1
<1>5. PICK any : any \in S
  <2>1. << >> \in Seq(Write)
    OBVIOUS
  <2>2. [path \in Path |-> << >>] \in S
    BY <2>1 DEF WriteList
  <2> QED  BY <2>2
<1>6. PICK f \in [JsonValues -> S] : Solves(f, step)
  <2> HIDE DEF step, S
  <2> QED  BY <1>3, <1>4, <1>5, TreeRecursion
<1>7. W = [w \in JsonValues |-> At(W, w)]
  <2>1. f = [w \in JsonValues |-> At(f, w)]
    <3>1. \A w \in JsonValues : f[w] = At(f, w)
      BY <1>6 DEF Solves
    <3> QED  BY <1>6, <3>1
  <2> QED  BY <2>1
<1>8. WrittenBy = W
  BY DEF WrittenBy, At, WritesAt, ObjectWrites, ElementWrites, JoinedWrites, JsonValues
<1> HIDE DEF W
<1>9. \A w \in JsonValues : W[w] = At(W, w)
  BY <1>7
<1> DEFINE G == {w \in JsonValues : W[w] \in S}
<1>10. \A w \in JsonValues : Parts(w) \subseteq G => w \in G
  BY <1>1, <1>9
<1>11. JsonValues \subseteq G
  <2> HIDE DEF G
  <2> QED  BY <1>10, TreeInduction
<1> QED  BY <1>8, <1>9, <1>11 DEF At

-----------------------------------------------------------------------------
DepthsAt(f, v) ==
    {0} \union IF OneText(v) THEN {} ELSE {d + 1 : d \in UNION {f[w] : w \in Parts(v)}}

\* The depths of a value are its own and, one level down, those of its parts.
LEMMA DepthsInUnfolds ==
    ASSUME NEW v \in JsonValues
    PROVE  DepthsIn[v] = DepthsAt(DepthsIn, v) /\ DepthsIn[v] \in SUBSET Nat
<1> DEFINE S == SUBSET Nat
           step == [w \in JsonValues |-> [f \in [JsonValues -> S] |-> DepthsAt(f, w)]]
           D == CHOOSE f : f = [w \in JsonValues |-> DepthsAt(f, w)]
<1>1. ASSUME NEW w \in JsonValues, NEW f, \A u \in Parts(w) : f[u] \in S
      PROVE  DepthsAt(f, w) \in S
  BY <1>1 DEF DepthsAt
<1>2. ASSUME NEW w \in JsonValues, NEW f, NEW g, \A u \in Parts(w) : f[u] = g[u]
      PROVE  DepthsAt(f, w) = DepthsAt(g, w)
  <2>1. {f[u] : u \in Parts(w)} = {g[u] : u \in Parts(w)}
    BY <1>2
  <2> QED  BY <2>1 DEF DepthsAt
<1>3. step \in [JsonValues -> [[JsonValues -> S] -> S]]
  <2> HIDE DEF S
  <2> SUFFICES ASSUME NEW w \in JsonValues, NEW f \in [JsonValues -> S] PROVE DepthsAt(f, w) \in S
    OBVIOUS
  <2>1. \A u \in Parts(w) : f[u] \in S
    BY RankBelow
  <2> QED  BY <1>1, <2>1
<1>4. IsLocal(step, S)
  <2> SUFFICES ASSUME NEW w \in JsonValues, NEW f \in [JsonValues -> S],
                      NEW g \in [JsonValues -> S], \A u \in Parts(w) : f[u] = g[u]
               PROVE  step[w][f] = step[w][g]
    BY DEF IsLocal
  <2>1. DepthsAt(f, w) = DepthsAt(g, w)
    BY <1>2
  <2> QED  BY <2>1
<1>5. PICK f \in [JsonValues -> S] : Solves(f, step)
  <2>1. {} \in S
    OBVIOUS
  <2> HIDE DEF step, S
  <2> QED  BY <1>3, <1>4, <2>1, TreeRecursion
<1>6. D = [w \in JsonValues |-> DepthsAt(D, w)]
  <2>1. f = [w \in JsonValues |-> DepthsAt(f, w)]
    <3>1. \A w \in JsonValues : f[w] = DepthsAt(f, w)
      BY <1>5 DEF Solves
    <3> QED  BY <1>5, <3>1
  <2> QED  BY <2>1
<1>7. DepthsIn = D
  BY DEF DepthsIn, DepthsAt, JsonValues
<1> HIDE DEF D
<1>8. \A w \in JsonValues : D[w] = DepthsAt(D, w)
  BY <1>6
<1> DEFINE G == {w \in JsonValues : D[w] \in S}
<1>9. \A w \in JsonValues : Parts(w) \subseteq G => w \in G
  <2> HIDE DEF S
  <2> QED  BY <1>1, <1>8
<1>10. JsonValues \subseteq G
  <2> HIDE DEF G
  <2> QED  BY <1>9, TreeInduction
<1> QED  BY <1>7, <1>8, <1>10

-----------------------------------------------------------------------------
(* What the calls that are still to be made will write.                     *)
CallWrites(call)     == WrittenBy[call.value][call.path]
PendingWrites(calls) == FlattenSeq([i \in 1..Len(calls) |-> CallWrites(calls[i])])

\* A call has a path, a value and a depth, and writes what its value does.
LEMMA CallFields ==
    ASSUME NEW call \in Calls
    PROVE  /\ call.path \in Path /\ call.value \in JsonValues /\ call.depth \in Nat
           /\ CallWrites(call) \in Seq(Write)
           /\ CallWrites(call) = WritesAt(WrittenBy, call.value, call.path)
<1>1. call.path \in Path /\ call.value \in JsonValues /\ call.depth \in Nat
  BY DEF Calls, JsonValues
<1>2. WrittenBy[call.value] = [path \in Path |-> WritesAt(WrittenBy, call.value, path)]
      /\ WrittenBy[call.value] \in WriteList
  BY <1>1, WrittenByUnfolds
<1> QED  BY <1>1, <1>2 DEF CallWrites, WriteList

\* What the calls on the stack write is a list of writes.
LEMMA PendingType ==
    ASSUME NEW calls \in Seq(Calls)
    PROVE  /\ [i \in 1..Len(calls) |-> CallWrites(calls[i])] \in Seq(Seq(Write))
           /\ PendingWrites(calls) \in Seq(Write)
<1> DEFINE seqs == [i \in 1..Len(calls) |-> CallWrites(calls[i])]
<1>1. Len(calls) \in Nat /\ \A i \in 1..Len(calls) : CallWrites(calls[i]) \in Seq(Write)
  BY LenProperties, ElementOfSeq, CallFields
<1>2. seqs \in Seq(Seq(Write))
  BY <1>1
<1> HIDE DEF seqs
<1>3. FlattenSeq(seqs) \in Seq(Write)
  BY <1>2, FlattenType
<1> QED  BY <1>2, <1>3 DEF PendingWrites, seqs

\* Calls one after another write one after another.
LEMMA PendingConcat ==
    ASSUME NEW cs \in Seq(Calls), NEW ds \in Seq(Calls)
    PROVE  IsConcat(Write, PendingWrites(cs), PendingWrites(ds), PendingWrites(cs \o ds))
<1> DEFINE ss == [i \in 1..Len(cs) |-> CallWrites(cs[i])]
           tt == [i \in 1..Len(ds) |-> CallWrites(ds[i])]
           uu == [i \in 1..Len(cs \o ds) |-> CallWrites((cs \o ds)[i])]
<1>1. ss \in Seq(Seq(Write)) /\ tt \in Seq(Seq(Write))
  BY PendingType
<1>2. uu = ss \o tt
  <2>1. /\ Len(cs) \in Nat /\ Len(ds) \in Nat /\ Len(cs \o ds) = Len(cs) + Len(ds)
        /\ \A i \in 1..(Len(cs) + Len(ds)) :
             (cs \o ds)[i] = IF i <= Len(cs) THEN cs[i] ELSE ds[i - Len(cs)]
    BY ConcatProperties, LenProperties
  <2>2. Len(ss) = Len(cs) /\ Len(tt) = Len(ds)
    BY <2>1
  <2>3. ss \o tt = [i \in 1..(Len(cs) + Len(ds)) |->
                        IF i <= Len(cs) THEN ss[i] ELSE tt[i - Len(cs)]]
    BY <1>1, <2>1, <2>2
  <2>4. ASSUME NEW i \in 1..(Len(cs) + Len(ds))
        PROVE  CallWrites((cs \o ds)[i]) = IF i <= Len(cs) THEN ss[i] ELSE tt[i - Len(cs)]
    <3>1. CASE i <= Len(cs)
      BY <2>1, <3>1
    <3>2. CASE ~(i <= Len(cs))
      <4>1. i - Len(cs) \in 1..Len(ds)
        BY <2>1, <3>2
      <4> QED  BY <2>1, <3>2, <4>1
    <3> QED  BY <3>1, <3>2
  <2> QED  BY <2>1, <2>3, <2>4
<1> HIDE DEF ss, tt, uu
<1>3. IsConcat(Write, FlattenSeq(ss), FlattenSeq(tt), FlattenSeq(uu))
  BY <1>1, <1>2, FlattenConcat
<1> QED  BY <1>3 DEF PendingWrites, ss, tt, uu

\* One call writes what it writes, no call nothing.
LEMMA PendingOne ==
    ASSUME NEW call \in Calls
    PROVE  PendingWrites(<<call>>) = CallWrites(call) /\ PendingWrites(<< >>) = << >>
<1>1. PendingWrites(<< >>) = << >>
  <2>1. [i \in 1..Len(<< >>) |-> CallWrites(<< >>[i])] = << >>
    OBVIOUS
  <2> QED  BY <2>1, FlattenEmpty DEF PendingWrites
<1>2. PendingWrites(<<call>>) = CallWrites(call)
  <2> DEFINE s == CallWrites(call)
             seqs == [i \in 1..Len(<<call>>) |-> CallWrites(<<call>>[i])]
  <2>1. s \in Seq(Write)
    BY CallFields
  <2> HIDE DEF s
  <2>2. seqs = Append(<< >>, s)
    BY DEF s
  <2> HIDE DEF seqs
  <2>3. << >> \in Seq(Seq(Write)) /\ << >> \o s = s
    BY <2>1, ConcatEmptySeq
  <2>4. FlattenSeq(Append(<< >>, s)) = FlattenSeq(<< >>) \o s
    BY <2>1, <2>3, FlattenSnoc
  <2>5. FlattenSeq(seqs) = s
    BY <2>2, <2>3, <2>4, FlattenEmpty
  <2> QED  BY <2>5 DEF PendingWrites, s, seqs
<1> QED  BY <1>1, <1>2

\* The call on top of the stack writes first.
LEMMA PendingHead ==
    ASSUME NEW calls \in Seq(Calls), calls # << >>
    PROVE  /\ Head(calls) \in Calls /\ Tail(calls) \in Seq(Calls)
           /\ calls = <<Head(calls)>> \o Tail(calls)
           /\ IsConcat(Write, CallWrites(Head(calls)), PendingWrites(Tail(calls)), PendingWrites(calls))
<1>1. Head(calls) \in Calls /\ Tail(calls) \in Seq(Calls)
  BY HeadTailProperties
<1>2. calls = <<Head(calls)>> \o Tail(calls)
  OBVIOUS
<1>3. <<Head(calls)>> \in Seq(Calls)
  BY <1>1
<1>4. IsConcat(Write, PendingWrites(<<Head(calls)>>), PendingWrites(Tail(calls)),
               PendingWrites(<<Head(calls)>> \o Tail(calls)))
  BY <1>1, <1>3, PendingConcat
<1>5. PendingWrites(<<Head(calls)>>) = CallWrites(Head(calls))
  BY <1>1, PendingOne
<1> QED  BY <1>1, <1>2, <1>4, <1>5

-----------------------------------------------------------------------------
\* The calls for the members of an object are calls, each for its member.
LEMMA MemberCallsType ==
    ASSUME NEW path \in Path, NEW v \in Objects, NEW depth \in Nat
    PROVE  /\ MemberCalls(path, v.members, depth) \in Seq(Calls)
           /\ Len(MemberCalls(path, v.members, depth)) = Len(v.members)
           /\ \A i \in 1..Len(v.members) :
                /\ MemberCalls(path, v.members, depth)[i].depth = depth
                /\ MemberCalls(path, v.members, depth)[i].value = v.members[i].value
                /\ MemberCalls(path, v.members, depth)[i].path = path \o v.members[i].key
<1> DEFINE calls == MemberCalls(path, v.members, depth)
<1>1. Len(v.members) \in Nat
  BY Members
<1>2. ASSUME NEW i \in 1..Len(v.members)
      PROVE  /\ path \o v.members[i].key \in Path
             /\ v.members[i].value \in Values
  BY Members, ConcatProperties DEF Path
<1>3. calls \in [1..Len(v.members) -> Calls]
  BY <1>2 DEF MemberCalls, Calls
<1>4. calls \in Seq(Calls) /\ Len(calls) = Len(v.members)
  <2> HIDE DEF calls
  <2> QED  BY <1>1, <1>3
<1> QED  BY <1>4 DEF MemberCalls

\* Before the joined text, the elements.
ElementsOf(call) ==
    [i \in 1..Len(call.value.items) |->
        [path |-> call.path \o <<IndexNames[i]>>, value |-> call.value.items[i],
         depth |-> call.depth + 1]]

JoinedCall(call) ==
    [path |-> call.path, depth |-> call.depth,
     value |-> [kind |-> "scalar", text |-> Joined(ScalarTexts(call.value.items))]]

JoinedOf(call) ==
    IF ScalarTexts(call.value.items) = << >> THEN << >> ELSE <<JoinedCall(call)>>

(* The calls for the elements of an array, and the call that inserts their  *)
(* joined text, are calls.                                                  *)
LEMMA ElementCallsType ==
    ASSUME NEW call \in Calls, call.value.kind = "array"
    PROVE  /\ ElementsOf(call) \in Seq(Calls)
           /\ Len(ElementsOf(call)) = Len(call.value.items)
           /\ ScalarTexts(call.value.items) # << >> => JoinedCall(call) \in Calls
           /\ JoinedOf(call) \in Seq(Calls)
           /\ ElementCalls(call) = ElementsOf(call) \o JoinedOf(call)
           /\ ElementCalls(call) \in Seq(Calls)
<1> DEFINE items == call.value.items
           texts == ScalarTexts(items)
<1>1. /\ call.path \in Path /\ call.depth \in Nat /\ call.value \in Arrays
      /\ call.value \in JsonValues
  BY CallFields, Kinds
<1>2. Len(items) \in Nat /\ items \in Seq(Values)
  BY <1>1, Items
<1>3. ASSUME NEW i \in 1..Len(items)
      PROVE  call.path \o <<IndexNames[i]>> \in Path /\ items[i] \in Values
  BY <1>1, Items, ConcatProperties DEF Path
<1>4. ElementsOf(call) \in [1..Len(items) -> Calls]
  BY <1>1, <1>3 DEF ElementsOf, Calls
<1>5. ElementsOf(call) \in Seq(Calls) /\ Len(ElementsOf(call)) = Len(items)
  BY <1>2, <1>4
<1>6. texts # << >> => JoinedCall(call) \in Calls
  <2>1. texts # << >> => Joined(texts) \in Text
    BY <1>2, ScalarTextsType, JoinedType
  <2> HIDE DEF texts
  <2> QED  BY <1>1, <2>1 DEF JoinedCall, Calls, Scalars, texts
<1>7. JoinedOf(call) \in Seq(Calls)
  <2>1. << >> \in Seq(Calls) /\ (texts # << >> => <<JoinedCall(call)>> \in Seq(Calls))
    BY <1>6
  <2> HIDE DEF texts
  <2> QED  BY <2>1 DEF JoinedOf, texts
<1>8. ElementCalls(call) = ElementsOf(call) \o JoinedOf(call)
  BY DEF ElementCalls, ElementsOf, JoinedOf, JoinedCall
<1>9. ElementsOf(call) \o JoinedOf(call) \in Seq(Calls)
  BY <1>5, <1>7, ConcatProperties
<1> QED  BY <1>5, <1>6, <1>7, <1>8, <1>9

-----------------------------------------------------------------------------
(* The calls that take the place of a call write what it writes.            *)
LEMMA ObjectCallsWrite ==
    ASSUME NEW v \in JsonValues, v.kind = "object", NEW path \in Path, NEW depth \in Nat
    PROVE  PendingWrites(MemberCalls(path, v.members, depth)) = WrittenBy[v][path]
<1> DEFINE calls == MemberCalls(path, v.members, depth)
<1>1. v \in Objects
  BY Kinds
<1>2. WrittenBy[v][path] = ObjectWrites(WrittenBy, v, path)
  BY WrittenByUnfolds DEF WritesAt
<1>3. [i \in 1..Len(calls) |-> CallWrites(calls[i])]
        = [i \in 1..Len(v.members) |-> WrittenBy[v.members[i].value][path \o v.members[i].key]]
  <2>1. /\ Len(calls) = Len(v.members)
        /\ \A i \in 1..Len(v.members) : calls[i].value = v.members[i].value
                                        /\ calls[i].path = path \o v.members[i].key
    BY <1>1, MemberCallsType
  <2> HIDE DEF calls
  <2>2. \A i \in 1..Len(v.members) :
            CallWrites(calls[i]) = WrittenBy[v.members[i].value][path \o v.members[i].key]
    BY <2>1 DEF CallWrites
  <2> QED  BY <2>1, <2>2
<1> QED  BY <1>2, <1>3 DEF PendingWrites, ObjectWrites

(* For an array these are the calls for its elements, then the insertion of *)
(* the joined text.                                                         *)
LEMMA ElementCallsWrite ==
    ASSUME NEW call \in Calls, call.value.kind = "array", ~OneText(call.value)
    PROVE  PendingWrites(ElementCalls(call)) = CallWrites(call)
<1> DEFINE v == call.value
           a == ElementWrites(WrittenBy, v, call.path)
           b == JoinedWrites(v, call.path)
<1>1. CallWrites(call) = a \o b
  BY CallFields DEF WritesAt
<1>2. PendingWrites(ElementsOf(call)) = a
  <2>1. [i \in 1..Len(ElementsOf(call)) |-> CallWrites(ElementsOf(call)[i])]
          = [i \in 1..Len(v.items) |-> WrittenBy[v.items[i]][call.path \o <<IndexNames[i]>>]]
    BY ElementCallsType DEF CallWrites, ElementsOf
  <2> QED  BY <2>1 DEF PendingWrites, ElementWrites
<1>3. PendingWrites(JoinedOf(call)) = b
  <2>1. CASE ScalarTexts(v.items) = << >>
    BY <2>1, PendingOne DEF JoinedOf, JoinedWrites
  <2>2. CASE ScalarTexts(v.items) # << >>
    <3> DEFINE c == JoinedCall(call)
               text == Joined(ScalarTexts(v.items))
    <3>1. c \in Calls
      BY <2>2, ElementCallsType
    <3>2. c.value.kind = "scalar" /\ c.value.text = text /\ c.path = call.path
      BY DEF JoinedCall
    <3> HIDE DEF c, text
    <3>3. CallWrites(c) = << <<call.path, text>> >>
      BY <3>1, <3>2, CallFields DEF WritesAt
    <3>4. PendingWrites(<<c>>) = CallWrites(c)
      BY <3>1, PendingOne
    <3>5. JoinedOf(call) = <<c>> /\ JoinedWrites(v, call.path) = << <<call.path, text>> >>
      BY <2>2 DEF JoinedOf, JoinedWrites, c, text
    <3> QED  BY <3>3, <3>4, <3>5
  <2> QED  BY <2>1, <2>2
<1>4. ElementsOf(call) \in Seq(Calls) /\ JoinedOf(call) \in Seq(Calls)
      /\ ElementCalls(call) = ElementsOf(call) \o JoinedOf(call)
  BY ElementCallsType
<1>5. IsConcat(Write, PendingWrites(ElementsOf(call)), PendingWrites(JoinedOf(call)),
               PendingWrites(ElementsOf(call) \o JoinedOf(call)))
  BY <1>4, PendingConcat
<1> HIDE DEF a, b
<1> QED  BY <1>1, <1>2, <1>3, <1>4, <1>5 DEF IsConcat

\* A call that inserts writes the one path it is for.
LEMMA OneTextCallWrites ==
    ASSUME NEW call \in Calls, OneText(call.value)
    PROVE  CallWrites(call) = << <<call.path, IF call.value.items = << >> THEN << >>
                                              ELSE call.value.items[1].text>> >>
BY CallFields DEF WritesAt, OneText

\* A call for a scalar writes its text.
LEMMA ScalarCallWrites ==
    ASSUME NEW call \in Calls, call.value.kind = "scalar"
    PROVE  CallWrites(call) = << <<call.path, call.value.text>> >> /\ call.value.text \in Text
<1>1. call.value \in Scalars
  BY CallFields, Kinds
<1> QED  BY <1>1, CallFields DEF WritesAt, Scalars

-----------------------------------------------------------------------------
(* And they go as deep as it goes.                                          *)
CallTooNested(call, limits)  == \E d \in DepthsIn[call.value] : call.depth + d > limits.max_depth
SomeTooNested(calls, limits) == \E i \in 1..Len(calls) : CallTooNested(calls[i], limits)

\* Some of the calls of two stacks go too deep when some of one of them do.
LEMMA DepthsConcat ==
    ASSUME NEW cs \in Seq(Calls), NEW ds \in Seq(Calls), NEW limits
    PROVE  SomeTooNested(cs \o ds, limits) <=> SomeTooNested(cs, limits) \/ SomeTooNested(ds, limits)
<1>1. /\ Len(cs) \in Nat /\ Len(ds) \in Nat /\ Len(cs \o ds) = Len(cs) + Len(ds)
      /\ \A i \in 1..(Len(cs) + Len(ds)) :
           (cs \o ds)[i] = IF i <= Len(cs) THEN cs[i] ELSE ds[i - Len(cs)]
  BY ConcatProperties, LenProperties
<1>2. ASSUME NEW i \in 1..Len(cs) PROVE i \in 1..(Len(cs) + Len(ds)) /\ (cs \o ds)[i] = cs[i]
  BY <1>1
<1>3. ASSUME NEW i \in 1..Len(ds)
      PROVE  Len(cs) + i \in 1..(Len(cs) + Len(ds)) /\ (cs \o ds)[Len(cs) + i] = ds[i]
  <2>1. Len(cs) + i \in 1..(Len(cs) + Len(ds)) /\ ~(Len(cs) + i <= Len(cs))
        /\ (Len(cs) + i) - Len(cs) = i
    BY <1>1
  <2> QED  BY <1>1, <2>1
<1>4. ASSUME NEW i \in 1..(Len(cs) + Len(ds))
      PROVE  (i \in 1..Len(cs) /\ (cs \o ds)[i] = cs[i])
             \/ (i - Len(cs) \in 1..Len(ds) /\ (cs \o ds)[i] = ds[i - Len(cs)])
  BY <1>1
<1> QED  BY <1>1, <1>2, <1>3, <1>4 DEF SomeTooNested

\* A stack of one call, and of none.
LEMMA DepthsOne ==
    ASSUME NEW call, NEW limits
    PROVE  /\ SomeTooNested(<<call>>, limits) <=> CallTooNested(call, limits)
           /\ ~SomeTooNested(<< >>, limits)
BY DEF SomeTooNested

\* A call that inserts goes no deeper than it is.
LEMMA FlatCall ==
    ASSUME NEW call \in Calls, NEW limits, limits.max_depth \in Nat,
           call.depth <= limits.max_depth, OneText(call.value) \/ call.value.kind = "scalar"
    PROVE  ~CallTooNested(call, limits)
<1>1. call.value \in JsonValues /\ call.depth \in Nat
  BY CallFields
<1>2. DepthsIn[call.value] = {0}
  <2>1. call.value.kind = "scalar" => Parts(call.value) = {}
    BY <1>1, PartsType
  <2> QED  BY <1>1, <2>1, DepthsInUnfolds DEF DepthsAt
<1> QED  BY <1>1, <1>2 DEF CallTooNested

\* A call that is not too deep itself is too nested if one of the parts is, a level below.
LEMMA DeeperCall ==
    ASSUME NEW call \in Calls, NEW limits, limits.max_depth \in Nat,
           call.depth <= limits.max_depth, ~OneText(call.value)
    PROVE  CallTooNested(call, limits) <=>
             \E w \in Parts(call.value) : \E d \in DepthsIn[w] : call.depth + 1 + d > limits.max_depth
<1> DEFINE v == call.value
<1>1. v \in JsonValues /\ call.depth \in Nat
  BY CallFields
<1>2. DepthsIn[v] = {0} \union {d + 1 : d \in UNION {DepthsIn[w] : w \in Parts(v)}}
  BY <1>1, DepthsInUnfolds DEF DepthsAt
<1>3. \A w \in Parts(v) : DepthsIn[w] \in SUBSET Nat
  BY <1>1, RankBelow, DepthsInUnfolds
<1>4. \A d \in Nat : call.depth + (d + 1) = call.depth + 1 + d
  BY <1>1
<1>5. ~(call.depth + 0 > limits.max_depth)
  BY <1>1
<1> HIDE DEF v
<1>6. CallTooNested(call, limits) <=> \E d \in DepthsIn[v] : call.depth + d > limits.max_depth
  BY DEF CallTooNested, v
<1>7. ASSUME NEW w \in Parts(v), NEW d \in DepthsIn[w], call.depth + 1 + d > limits.max_depth
      PROVE  \E e \in DepthsIn[v] : call.depth + e > limits.max_depth
  <2>1. d + 1 \in DepthsIn[v] /\ d \in Nat
    BY <1>2, <1>3
  <2> QED  BY <1>4, <1>7, <2>1
<1>8. ASSUME NEW e \in DepthsIn[v], call.depth + e > limits.max_depth
      PROVE  \E w \in Parts(v) : \E d \in DepthsIn[w] : call.depth + 1 + d > limits.max_depth
  <2>1. e # 0
    BY <1>5, <1>8
  <2>2. PICK w \in Parts(v) : \E d \in DepthsIn[w] : e = d + 1
    BY <1>2, <1>8, <2>1
  <2> PICK d \in DepthsIn[w] : e = d + 1
    BY <2>2
  <2>3. d \in Nat
    BY <1>3
  <2> QED  BY <1>4, <1>8, <2>2, <2>3
<1> QED  BY <1>6, <1>7, <1>8 DEF v

\* The calls for the members of an object go too deep when one of the parts does.
LEMMA ObjectCallsNest ==
    ASSUME NEW v \in JsonValues, v.kind = "object", NEW path \in Path, NEW depth \in Nat, NEW limits
    PROVE  SomeTooNested(MemberCalls(path, v.members, depth), limits) <=>
             \E w \in Parts(v) : \E d \in DepthsIn[w] : depth + d > limits.max_depth
<1>1. v \in Objects /\ Parts(v) = {v.members[i].value : i \in 1..Len(v.members)}
  BY Kinds, PartsType
<1> DEFINE calls == MemberCalls(path, v.members, depth)
<1>2. /\ Len(calls) = Len(v.members)
      /\ \A i \in 1..Len(v.members) : calls[i].value = v.members[i].value /\ calls[i].depth = depth
  BY <1>1, MemberCallsType
<1> HIDE DEF calls
<1>3. SomeTooNested(calls, limits) <=>
        \E i \in 1..Len(v.members) :
            \E d \in DepthsIn[v.members[i].value] : depth + d > limits.max_depth
  BY <1>2 DEF SomeTooNested, CallTooNested
<1> QED  BY <1>1, <1>3 DEF calls

\* So do the calls for an array: the joined text is no deeper than the array.
LEMMA ElementCallsNest ==
    ASSUME NEW call \in Calls, call.value.kind = "array", NEW limits, limits.max_depth \in Nat,
           call.depth <= limits.max_depth
    PROVE  SomeTooNested(ElementCalls(call), limits) <=>
             \E w \in Parts(call.value) : \E d \in DepthsIn[w] : call.depth + 1 + d > limits.max_depth
<1>1. call.value \in JsonValues /\ call.depth \in Nat
      /\ Parts(call.value) = {call.value.items[i] : i \in 1..Len(call.value.items)}
  BY CallFields, PartsType
<1>2. ElementsOf(call) \in Seq(Calls) /\ JoinedOf(call) \in Seq(Calls)
      /\ ElementCalls(call) = ElementsOf(call) \o JoinedOf(call)
      /\ Len(ElementsOf(call)) = Len(call.value.items)
  BY ElementCallsType
<1>3. SomeTooNested(ElementsOf(call), limits) <=>
             \E w \in Parts(call.value) : \E d \in DepthsIn[w] : call.depth + 1 + d > limits.max_depth
  BY <1>1, <1>2 DEF SomeTooNested, CallTooNested, ElementsOf
<1>4. ~SomeTooNested(JoinedOf(call), limits)
  <2>1. CASE ScalarTexts(call.value.items) = << >>
    BY <2>1, DepthsOne DEF JoinedOf
  <2>2. CASE ScalarTexts(call.value.items) # << >>
    <3> DEFINE c == JoinedCall(call)
    <3>1. c \in Calls
      BY <2>2, ElementCallsType
    <3>2. c.value.kind = "scalar" /\ c.depth = call.depth
      BY DEF JoinedCall
    <3> HIDE DEF c
    <3>3. ~CallTooNested(c, limits)
      BY <3>1, <3>2, FlatCall
    <3> QED  BY <2>2, <3>3, DepthsOne DEF JoinedOf, c
  <2> QED  BY <2>1, <2>2
<1> QED  BY <1>2, <1>3, <1>4, DepthsConcat

-----------------------------------------------------------------------------
\* A list of writes has finitely many paths, and a first write for each.
LEMMA PathsOfType ==
    ASSUME NEW writes \in Seq(Write)
    PROVE  /\ PathsOf(writes) \subseteq Path /\ IsFiniteSet(PathsOf(writes))
           /\ FirstWrites(writes) \in [PathsOf(writes) -> Text]
<1> DEFINE n == Len(writes)
<1>1. n \in Nat /\ DOMAIN writes = 1..n /\ \A i \in 1..n : writes[i] \in Write
  BY LenProperties, ElementOfSeq
<1>2. \A i \in 1..n : writes[i][1] \in Path /\ writes[i][2] \in Text
  BY <1>1 DEF Write
<1>3. PathsOf(writes) \subseteq Path
  BY <1>1, <1>2 DEF PathsOf
<1>4. IsFiniteSet(PathsOf(writes))
  <2> DEFINE f == [i \in 1..n |-> writes[i][1]]
  <2>1. IsFiniteSet(1..n)
    BY <1>1, FS_Interval
  <2>2. PathsOf(writes) = {f[i] : i \in 1..n}
    BY <1>1 DEF PathsOf
  <2>3. f \in Surjection(1..n, PathsOf(writes))
    BY <2>2 DEF Surjection
  <2> QED  BY <2>1, <2>3, FS_Surjection
<1>5. ASSUME NEW p \in PathsOf(writes)
      PROVE  writes[Min({i \in DOMAIN writes : writes[i][1] = p})][2] \in Text
  <2> DEFINE S == {i \in DOMAIN writes : writes[i][1] = p}
  <2>1. S \in SUBSET Nat /\ S # {}
    BY <1>1, <1>5 DEF PathsOf
  <2> HIDE DEF S
  <2>2. Min(S) \in S
    BY <2>1, MinIsLeast
  <2> QED  BY <1>1, <1>2, <2>2 DEF S
<1> QED  BY <1>3, <1>4, <1>5 DEF FirstWrites

\* The event after a write to a path, the first one winning.
Inserted(e, path, text) == [p \in DOMAIN e \union {path} |-> IF p \in DOMAIN e THEN e[p] ELSE text]

\* One write more is one insertion that keeps what is there.
LEMMA FirstWritesAppend ==
    ASSUME NEW done \in Seq(Write), NEW path \in Path, NEW text \in Text
    PROVE  FirstWrites(Append(done, <<path, text>>)) = Inserted(FirstWrites(done), path, text)
<1> DEFINE e == FirstWrites(done)
           n == Len(done)
           w == <<path, text>>
           more == Append(done, w)
           at(p) == {i \in DOMAIN done : done[i][1] = p}
           atMore(p) == {i \in DOMAIN more : more[i][1] = p}
<1>1. /\ w \in Write /\ w[1] = path /\ w[2] = text
      /\ n \in Nat /\ DOMAIN done = 1..n /\ DOMAIN more = 1..(n + 1)
      /\ more[n + 1] = w /\ \A i \in 1..n : more[i] = done[i]
  <2>1. w \in Write /\ w[1] = path /\ w[2] = text
    BY DEF Write
  <2> HIDE DEF w
  <2> QED  BY <2>1, LenProperties, AppendProperties
<1> HIDE DEF w
<1>2. DOMAIN e = PathsOf(done)
  BY DEF FirstWrites
<1>3. PathsOf(more) = PathsOf(done) \union {path}
  <2>1. \A i : i \in 1..(n + 1) <=> i \in 1..n \/ i = n + 1
    BY <1>1
  <2> HIDE DEF more
  <2> QED  BY <1>1, <2>1 DEF PathsOf
<1>4. ASSUME NEW p \in PathsOf(done) PROVE Min(atMore(p)) \in 1..n /\ Min(atMore(p)) = Min(at(p))
  <2>1. at(p) \in SUBSET Nat /\ at(p) # {} /\ at(p) \subseteq 1..n
    BY <1>1 DEF PathsOf
  <2>2. at(p) \subseteq atMore(p) /\ \A i \in atMore(p) : i \in at(p) \/ i = n + 1
    <3> HIDE DEF more
    <3>1. \A i \in 1..(n + 1) : i \in 1..n \/ i = n + 1
      BY <1>1
    <3>2. \A i \in 1..n : i \in 1..(n + 1)
      BY <1>1
    <3> QED  BY <1>1, <3>1, <3>2
  <2>3. atMore(p) \in SUBSET Nat /\ atMore(p) # {}
    BY <1>1, <2>1, <2>2
  <2> HIDE DEF at, atMore, more
  <2>4. Min(at(p)) \in at(p) /\ \A k \in at(p) : Min(at(p)) <= k
    BY <2>1, MinIsLeast
  <2>5. Min(atMore(p)) \in atMore(p) /\ \A k \in atMore(p) : Min(atMore(p)) <= k
    BY <2>3, MinIsLeast
  <2>6. Min(at(p)) \in 1..n /\ Min(atMore(p)) \in Nat
    BY <2>1, <2>3, <2>4, <2>5
  <2>7. Min(atMore(p)) <= Min(at(p))
    BY <2>2, <2>4, <2>5
  <2>8. Min(atMore(p)) \in at(p)
    BY <1>1, <2>2, <2>5, <2>6, <2>7
  <2>9. Min(at(p)) <= Min(atMore(p))
    BY <2>4, <2>8
  <2> QED  BY <2>6, <2>7, <2>9
<1>5. ASSUME path \notin PathsOf(done) PROVE Min(atMore(path)) = n + 1
  <2>1. atMore(path) = {n + 1}
    <3> HIDE DEF more
    <3>1. \A i \in 1..(n + 1) : i \in 1..n \/ i = n + 1
      BY <1>1
    <3>2. \A i \in 1..n : more[i][1] # path
      BY <1>1, <1>5 DEF PathsOf
    <3>3. n + 1 \in 1..(n + 1)
      BY <1>1
    <3> QED  BY <1>1, <3>1, <3>2, <3>3
  <2>2. {n + 1} \in SUBSET Nat /\ {n + 1} # {}
    BY <1>1
  <2>3. Min({n + 1}) \in {n + 1}
    BY <2>2, MinIsLeast
  <2> QED  BY <2>1, <2>3
<1>6. FirstWrites(more) = [p \in PathsOf(more) |-> more[Min(atMore(p))][2]]
      /\ FirstWrites(done) = [p \in PathsOf(done) |-> done[Min(at(p))][2]]
  BY DEF FirstWrites
<1>7. ASSUME NEW p \in PathsOf(done) \union {path}
      PROVE  more[Min(atMore(p))][2] = IF p \in DOMAIN e THEN e[p] ELSE text
  <2> HIDE DEF more, at, atMore
  <2>1. CASE p \in PathsOf(done)
    <3>1. more[Min(atMore(p))] = done[Min(at(p))]
      BY <1>1, <1>4, <2>1
    <3>2. e[p] = done[Min(at(p))][2]
      BY <1>6, <2>1
    <3> QED  BY <1>2, <2>1, <3>1, <3>2
  <2>2. CASE p \notin PathsOf(done)
    <3>1. p = path /\ more[Min(atMore(p))] = w
      BY <1>1, <1>5, <2>2
    <3> QED  BY <1>1, <1>2, <2>2, <3>1
  <2> QED  BY <2>1, <2>2
<1> HIDE DEF more, at, atMore
<1>8. FirstWrites(more) =
        [p \in DOMAIN e \union {path} |-> IF p \in DOMAIN e THEN e[p] ELSE text]
  BY <1>2, <1>3, <1>6, <1>7
<1> QED  BY <1>8 DEF more, w, Inserted

-----------------------------------------------------------------------------
\* All the writes but the last have max_fields paths: the last finds no room, whether it is
\* of a new path or not.
Crowded(doc, limits) ==
    LET writes == Writes(doc)
    IN writes # << >> /\ Cardinality(PathsOf(Front(writes))) >= limits.max_fields

\* Either there are too many paths, or just as many as there may be and no need of the last write.
LEMMA CrowdedIsNoRoom ==
    ASSUME NEW doc, NEW limits, limits.max_fields \in Nat, Writes(doc) \in Seq(Write)
    PROVE  Crowded(doc, limits) <=> NoRoom(doc, limits, TRUE)
<1> DEFINE all == Writes(doc)
           early == PathsOf(Front(all))
<1>1. all \in Seq(Write) /\ IsFiniteSet(PathsOf(all)) /\ Cardinality(PathsOf(all)) \in Nat
  BY PathsOfType, FS_CardinalityType
<1>2. CASE all = << >>
  <2>1. PathsOf(<< >>) = {} /\ Cardinality({}) = 0
    BY FS_EmptySet DEF PathsOf
  <2> QED  BY <1>2, <2>1 DEF Crowded, NoRoom, TooMany, FullAgain
<1>3. CASE all # << >>
  <2> DEFINE last == all[Len(all)][1]
  <2> HIDE DEF all
  <2>1. /\ Len(all) \in Nat /\ Len(all) \in 1..Len(all) /\ DOMAIN all = 1..Len(all)
        /\ Len(all) - 1 \in Nat /\ \A i \in 1..(Len(all) - 1) : all[i] \in Write
    BY <1>1, <1>3
  <2>2. /\ Front(all) \in Seq(Write) /\ DOMAIN Front(all) = 1..(Len(all) - 1)
        /\ \A i \in 1..(Len(all) - 1) : Front(all)[i] = all[i]
    BY <1>1, <2>1, SubSeqProperties DEF Front
  <2>3. IsFiniteSet(early) /\ Cardinality(early) \in Nat
    BY <2>2, PathsOfType, FS_CardinalityType
  <2>4. PathsOf(all) = early \union {last}
    <3>1. \A i : i \in DOMAIN all <=> i \in DOMAIN Front(all) \/ i = Len(all)
      BY <2>1, <2>2
    <3>2. \A i \in DOMAIN Front(all) : Front(all)[i] = all[i]
      BY <2>2
    <3>3. PathsOf(all) = {all[i][1] : i \in DOMAIN Front(all) \union {Len(all)}}
      BY <3>1 DEF PathsOf
    <3>4. PathsOf(Front(all)) = {all[i][1] : i \in DOMAIN Front(all)}
      BY <3>2 DEF PathsOf
    <3>5. \A p : p \in PathsOf(all) <=> p \in PathsOf(Front(all)) \/ p = all[Len(all)][1]
      BY <3>3, <3>4
    <3> QED  BY <3>5, Zenon
  <2> HIDE DEF early, last
  <2>5. /\ last \in early => Cardinality(PathsOf(all)) = Cardinality(early)
        /\ last \notin early => Cardinality(PathsOf(all)) = Cardinality(early) + 1
    <3>1. Cardinality(early \union {last}) = IF last \in early THEN Cardinality(early) ELSE Cardinality(early) + 1
      BY <2>3, FS_AddElement
    <3> QED  BY <2>4, <3>1
  <2>6. PathsOf(all) = early <=> last \in early
    BY <2>4
  <2>7. Crowded(doc, limits) <=> Cardinality(early) >= limits.max_fields
    BY <1>3 DEF Crowded, early, all
  <2>8. NoRoom(doc, limits, TRUE)
          <=> \/ Cardinality(PathsOf(all)) > limits.max_fields
              \/ Cardinality(PathsOf(all)) = limits.max_fields /\ early = PathsOf(all)
    BY <1>3 DEF NoRoom, TooMany, FullAgain, early, all
  <2> DEFINE m == Cardinality(PathsOf(all))
             n == Cardinality(early)
             same == early = PathsOf(all)
  <2>9. /\ n \in Nat /\ m \in Nat
        /\ same => m = n
        /\ ~same => m = n + 1
    BY <1>1, <2>3, <2>5, <2>6
  <2> HIDE DEF m, n, same
  <2>10. n >= limits.max_fields <=> m > limits.max_fields \/ (m = limits.max_fields /\ same)
    <3>1. CASE same
      BY <2>9, <3>1
    <3>2. CASE ~same
      BY <2>9, <3>2
    <3> QED  BY <3>1, <3>2
  <2> QED  BY <2>7, <2>8, <2>10, Zenon DEF m, n, same
<1> QED  BY <1>2, <1>3

\* The stack and the event are typed, and the event is finite.
Sized == FlattenTypeOK /\ IsFiniteSet(DOMAIN event)

\* done is what has been written: the calls that are left write the rest, in order.
Written(doc, done) ==
    /\ done \in Seq(Write)
    /\ IsConcat(Write, done, PendingWrites(todo), Writes(doc))
    /\ event = FirstWrites(done)
    /\ done # << >> => Cardinality(PathsOf(Front(done))) < options.max_fields

Progress(doc) ==
    IF flat = "running"
    THEN /\ doc.kind = "object"
         /\ \E done : Written(doc, done)
         /\ TooNested(doc, options) <=> SomeTooNested(todo, options)
    ELSE flat \in Answers(doc, options, TRUE) /\ (flat = "ok" => event = DeclaredEvent(doc))

\* The limits are numbers.
LEMMA LimitsType ==
    ASSUME Sized
    PROVE  options.max_depth \in Nat /\ options.max_fields \in Nat
BY LimitsAssumption DEF Sized, FlattenTypeOK

\* One call less on the stack.
LEMMA TakenCall ==
    ASSUME Sized, todo # << >>, NEW doc, NEW done, Written(doc, done)
    PROVE  /\ Head(todo) \in Calls /\ Tail(todo) \in Seq(Calls)
           /\ IsConcat(Write, CallWrites(Head(todo)), PendingWrites(Tail(todo)), PendingWrites(todo))
           /\ SomeTooNested(todo, options) <=>
                CallTooNested(Head(todo), options) \/ SomeTooNested(Tail(todo), options)
<1>1. todo \in Seq(Calls)
  BY DEF Sized, FlattenTypeOK
<1>2. /\ Head(todo) \in Calls /\ Tail(todo) \in Seq(Calls)
      /\ todo = <<Head(todo)>> \o Tail(todo)
      /\ IsConcat(Write, CallWrites(Head(todo)), PendingWrites(Tail(todo)), PendingWrites(todo))
  BY <1>1, PendingHead
<1>3. <<Head(todo)>> \in Seq(Calls)
  BY <1>2
<1>4. SomeTooNested(<<Head(todo)>> \o Tail(todo), options) <=>
        SomeTooNested(<<Head(todo)>>, options) \/ SomeTooNested(Tail(todo), options)
  BY <1>2, <1>3, DepthsConcat
<1> QED  BY <1>2, <1>4, DepthsOne

\* insert_field writes what the call stands for, or refuses a document with too many.
LEMMA InsertProgress ==
    ASSUME Sized, flat = "running", todo # << >>, NEW doc, Progress(doc),
           NEW path \in Path, NEW text \in Text,
           CallWrites(Head(todo)) = << <<path, text>> >>,
           ~CallTooNested(Head(todo), options),
           Insert(path, text)
    PROVE  Progress(doc)'
<1>1. PICK done : Written(doc, done)
  BY DEF Progress
<1> DEFINE w == <<path, text>>
           rest == PendingWrites(Tail(todo))
           pending == PendingWrites(todo)
           more == Append(done, w)
<1>2. w \in Write
  BY DEF Write
<1>3. CallWrites(Head(todo)) = <<w>>
  OBVIOUS
<1> HIDE DEF w
<1>4. done \in Seq(Write) /\ event = FirstWrites(done)
  BY <1>1 DEF Written
<1>5. more \in Seq(Write) /\ more # << >> /\ Front(more) = done /\ more = done \o <<w>>
  <2>1. more \in Seq(Write) /\ Len(more) = Len(done) + 1 /\ Len(done) \in Nat
    BY <1>2, <1>4, AppendProperties
  <2>2. SubSeq(more, 1, Len(done)) = done
    BY <1>2, <1>4, <2>1
  <2>3. (Len(done) + 1) - 1 = Len(done)
    BY <2>1
  <2> QED  BY <1>2, <1>4, <2>1, <2>2, <2>3 DEF Front
<1>6. IsConcat(Write, more, rest, Writes(doc))
  <2>1. IsConcat(Write, <<w>>, rest, pending)
    BY <1>1, <1>3, TakenCall
  <2>2. IsConcat(Write, done, pending, Writes(doc))
    BY <1>1 DEF Written
  <2> HIDE DEF more, rest, pending
  <2>3. IsConcat(Write, more, rest, more \o rest) /\ IsConcat(Write, done, <<w>>, more)
    BY <1>4, <1>5, <2>1 DEF IsConcat
  <2>4. IsConcat(Write, done, pending, more \o rest)
    BY <2>1, <2>3, Regroup
  <2>5. Writes(doc) = more \o rest
    BY <2>2, <2>4, Zenon DEF IsConcat
  <2> QED  BY <2>3, <2>5
<1>7. DOMAIN event = PathsOf(done)
  BY <1>4 DEF FirstWrites
<1>8. CASE Cardinality(DOMAIN event) >= options.max_fields
  <2>1. flat' = "fields" /\ options' = options
    BY <1>8 DEF Insert, Reject
  <2>2. Crowded(doc, options)
    <3>1. Writes(doc) # << >> /\ Writes(doc) \in Seq(Write) /\ PathsOf(done) \subseteq PathsOf(Front(Writes(doc)))
      <4> DEFINE all == Writes(doc)
      <4>1. more \in Seq(Write) /\ rest \in Seq(Write) /\ all = more \o rest
        BY <1>6 DEF IsConcat
      <4>2. Len(more) = Len(done) + 1 /\ Len(done) \in Nat /\ \A i \in 1..Len(done) : more[i] = done[i]
        BY <1>2, <1>4, AppendProperties
      <4> HIDE DEF all, more, rest
      <4>3. /\ all \in Seq(Write) /\ Len(rest) \in Nat /\ Len(all) = Len(more) + Len(rest)
            /\ \A i \in 1..Len(more) : all[i] = more[i]
        <5>1. \A i \in 1..Len(more) : i <= Len(more) /\ i \in 1..(Len(more) + Len(rest))
          BY <4>1, LenProperties
        <5> QED  BY <4>1, <5>1, ConcatProperties, LenProperties
      <4>4. /\ Len(all) - 1 \in Nat /\ all # << >>
            /\ Front(all) \in Seq(Write) /\ Len(Front(all)) = Len(all) - 1
            /\ \A i \in 1..(Len(all) - 1) : Front(all)[i] = all[i]
        <5>1. Len(all) - 1 \in Nat /\ all # << >> /\ \A i \in 1..(Len(all) - 1) : all[i] \in Write
          BY <4>2, <4>3
        <5>2. /\ SubSeq(all, 1, Len(all) - 1) \in Seq(Write)
              /\ Len(SubSeq(all, 1, Len(all) - 1)) = Len(all) - 1
              /\ \A i \in 1..(Len(all) - 1) : SubSeq(all, 1, Len(all) - 1)[i] = all[i]
          BY <4>3, <5>1
        <5> QED  BY <5>1, <5>2 DEF Front
      <4>5. ASSUME NEW i \in 1..Len(done) PROVE i \in DOMAIN Front(all) /\ Front(all)[i] = done[i]
        <5>1. i \in 1..Len(more) /\ i \in 1..(Len(all) - 1)
          BY <4>2, <4>3, <4>5
        <5>2. DOMAIN Front(all) = 1..(Len(all) - 1)
          BY <4>4, LenProperties
        <5> QED  BY <4>2, <4>3, <4>4, <4>5, <5>1, <5>2
      <4>6. DOMAIN done = 1..Len(done)
        BY <1>4, LenProperties
      <4>7. PathsOf(done) \subseteq PathsOf(Front(all))
        BY <4>5, <4>6 DEF PathsOf
      <4> QED  BY <4>3, <4>4, <4>7 DEF all
    <3>2. Front(Writes(doc)) \in Seq(Write)
      <4> DEFINE all == Writes(doc)
      <4>1. all \in Seq(Write) /\ all # << >>
        BY <3>1
      <4> HIDE DEF all
      <4>2. Len(all) \in Nat /\ \A i \in 1..(Len(all) - 1) : all[i] \in Write
        BY <4>1
      <4>3. SubSeq(all, 1, Len(all) - 1) \in Seq(Write)
        BY <4>2, SubSeqProperties
      <4> QED  BY <4>3 DEF Front, all
    <3> DEFINE early == PathsOf(Front(Writes(doc)))
    <3>3. IsFiniteSet(early) /\ PathsOf(done) \subseteq early
      BY <3>1, <3>2, PathsOfType
    <3> HIDE DEF early
    <3>4. Cardinality(PathsOf(done)) <= Cardinality(early) /\ Cardinality(early) \in Nat
          /\ Cardinality(PathsOf(done)) \in Nat
      BY <3>3, FS_Subset, FS_CardinalityType
    <3>5. Cardinality(early) >= options.max_fields
      BY <1>7, <1>8, <3>4, LimitsType
    <3> QED  BY <3>1, <3>5 DEF Crowded, early
  <2>3. doc.kind = "object"
    BY DEF Progress
  <2>4. "fields" \in Answers(doc, options, TRUE)
    <3>1. NoRoom(doc, options, TRUE)
      <4>1. more \o rest \in Seq(Write) /\ Writes(doc) = more \o rest
        <5> HIDE DEF more, rest
        <5> QED  BY <1>6, ConcatProperties DEF IsConcat
      <4>2. Writes(doc) \in Seq(Write)
        BY <4>1, Zenon
      <4> QED  BY <2>2, <4>2, LimitsType, CrowdedIsNoRoom
    <3> QED  BY <2>3, <3>1 DEF Answers
  <2> QED  BY <2>1, <2>4 DEF Progress
<1>9. CASE ~(Cardinality(DOMAIN event) >= options.max_fields)
  <2>1. /\ event' = [p \in DOMAIN event \union {path} |-> IF p \in DOMAIN event THEN event[p] ELSE text]
        /\ todo' = Tail(todo) /\ options' = options /\ flat' = flat
    BY <1>9 DEF Insert
  <2>2. event' = FirstWrites(more)
    <3>1. FirstWrites(more) = Inserted(FirstWrites(done), path, text)
      BY <1>4, FirstWritesAppend DEF w
    <3> QED  BY <1>4, <2>1, <3>1 DEF Inserted
  <2>3. Cardinality(PathsOf(Front(more))) < options.max_fields
    <3>1. Cardinality(PathsOf(done)) \in Nat
      BY <1>4, PathsOfType, FS_CardinalityType
    <3> QED  BY <1>5, <1>7, <1>9, <3>1, LimitsType
  <2>4. \E d : Written(doc, d)'
    <3>1. PICK m : m = more
      OBVIOUS
    <3>2. /\ m \in Seq(Write) /\ IsConcat(Write, m, PendingWrites(todo'), Writes(doc))
          /\ event' = FirstWrites(m)
          /\ m # << >> => Cardinality(PathsOf(Front(m))) < options'.max_fields
      <4>1. m \in Seq(Write) /\ IsConcat(Write, m, rest, Writes(doc))
        BY <1>5, <1>6, <3>1, Zenon
      <4>2. rest = PendingWrites(todo')
        BY <2>1, Zenon
      <4>3. event' = FirstWrites(m)
        BY <2>2, <3>1, Zenon
      <4>4. Cardinality(PathsOf(Front(m))) < options.max_fields
        BY <2>3, <3>1, Zenon
      <4> HIDE DEF more, rest
      <4> QED  BY <2>1, <4>1, <4>2, <4>3, <4>4, Zenon
    <3> HIDE DEF more, rest
    <3>3. Written(doc, m)'
      BY <3>2, Zenon DEF Written
    <3> QED  BY <3>3
  <2>5. TooNested(doc, options) <=> SomeTooNested(Tail(todo), options)
    BY <1>1, TakenCall DEF Progress
  <2>6. doc.kind = "object" /\ flat' = "running"
    BY <2>1 DEF Progress
  <2>7. TooNested(doc, options') <=> SomeTooNested(todo', options')
    BY <2>1, <2>5
  <2> QED  BY <2>4, <2>6, <2>7 DEF Progress
<1> QED  BY <1>8, <1>9

-----------------------------------------------------------------------------
\* The calls that take the place of one write what it writes and go as deep.
LEMMA DescendProgress ==
    ASSUME Sized, flat = "running", todo # << >>, NEW doc, Progress(doc),
           NEW calls \in Seq(Calls), PendingWrites(calls) = CallWrites(Head(todo)),
           SomeTooNested(calls, options) <=> CallTooNested(Head(todo), options),
           Descend(calls)
    PROVE  Progress(doc)'
<1>1. PICK done : Written(doc, done)
  BY DEF Progress
<1>2. /\ Head(todo) \in Calls /\ Tail(todo) \in Seq(Calls)
      /\ IsConcat(Write, CallWrites(Head(todo)), PendingWrites(Tail(todo)), PendingWrites(todo))
      /\ SomeTooNested(todo, options) <=>
           CallTooNested(Head(todo), options) \/ SomeTooNested(Tail(todo), options)
  BY <1>1, TakenCall
<1>3. todo' = calls \o Tail(todo) /\ event' = event /\ options' = options /\ flat' = flat
  BY DEF Descend
<1>4. PendingWrites(todo') = PendingWrites(todo)
  <2>1. IsConcat(Write, PendingWrites(calls), PendingWrites(Tail(todo)),
                 PendingWrites(calls \o Tail(todo)))
    BY <1>2, PendingConcat
  <2> QED  BY <1>2, <1>3, <2>1, Zenon DEF IsConcat
<1>5. SomeTooNested(todo', options) <=> SomeTooNested(todo, options)
  <2>1. SomeTooNested(calls \o Tail(todo), options) <=>
          SomeTooNested(calls, options) \/ SomeTooNested(Tail(todo), options)
    BY <1>2, DepthsConcat
  <2> QED  BY <1>2, <1>3, <2>1
<1>6. Written(doc, done)'
  BY <1>1, <1>3, <1>4 DEF Written
<1>7. doc.kind = "object" /\ flat' = "running" /\ (TooNested(doc, options') <=> SomeTooNested(todo', options'))
  BY <1>3, <1>5 DEF Progress
<1> QED  BY <1>6, <1>7 DEF Progress

(* Every step of the flattener makes progress on the document, or ends with *)
(* an answer that is right.                                                 *)
LEMMA FlattenStepProgress ==
    ASSUME Sized, NEW doc, Progress(doc), FlattenStep
    PROVE  Progress(doc)'
<1> DEFINE call == Head(todo)
<1>0. flat = "running" /\ todo \in Seq(Calls) /\ options.max_depth \in Nat
  BY LimitsType DEF FlattenStep, TooDeep, VisitObject, VisitArray, VisitScalar, FlattenReturns,
     Sized, FlattenTypeOK
<1>1. ASSUME todo # << >> PROVE call \in Calls
  BY <1>0, <1>1, HeadTailProperties
<1>2. CASE TooDeep
  <2>1. todo # << >> /\ call.depth > options.max_depth /\ flat' = "depth" /\ options' = options
    BY <1>2 DEF TooDeep, CallTooDeep, Reject
  <2>2. 0 \in DepthsIn[call.value] /\ call.depth \in Nat
    BY <1>1, <2>1, CallFields, DepthsInUnfolds DEF DepthsAt
  <2>3. CallTooNested(call, options)
    <3>1. call.depth + 0 > options.max_depth
      BY <2>1, <2>2
    <3> QED  BY <2>2, <3>1 DEF CallTooNested
  <2>4. TooNested(doc, options) /\ doc.kind = "object"
    <3>1. PICK done : Written(doc, done)
      BY <1>0 DEF Progress
    <3>2. SomeTooNested(todo, options)
      BY <2>1, <2>3, <3>1, TakenCall
    <3> QED  BY <1>0, <3>2 DEF Progress
  <2>5. "depth" \in Answers(doc, options, TRUE)
    BY <2>4 DEF Answers
  <2> QED  BY <2>1, <2>5 DEF Progress
<1>3. CASE VisitObject
  <2>1. todo # << >> /\ call.value.kind = "object" /\ ~(call.depth > options.max_depth)
        /\ Descend(MemberCalls(call.path, call.value.members, call.depth + 1))
    BY <1>3 DEF VisitObject, CallTooDeep
  <2> DEFINE calls == MemberCalls(call.path, call.value.members, call.depth + 1)
  <2>2. call.path \in Path /\ call.value \in JsonValues /\ call.depth + 1 \in Nat
        /\ call.depth <= options.max_depth /\ call.value \in Objects /\ ~OneText(call.value)
    BY <1>0, <1>1, <2>1, CallFields, Kinds DEF OneText
  <2>3. calls \in Seq(Calls)
    BY <2>2, MemberCallsType
  <2>4. PendingWrites(calls) = CallWrites(call)
    BY <2>1, <2>2, ObjectCallsWrite DEF CallWrites
  <2>5. SomeTooNested(calls, options) <=> CallTooNested(call, options)
    BY <1>0, <1>1, <2>1, <2>2, ObjectCallsNest, DeeperCall
  <2> HIDE DEF calls
  <2> QED  BY <1>0, <2>1, <2>3, <2>4, <2>5, DescendProgress DEF calls
<1>4. CASE VisitArray
  <2>1. todo # << >> /\ call.value.kind = "array" /\ ~(call.depth > options.max_depth)
    BY <1>4 DEF VisitArray, CallTooDeep
  <2>2. call.path \in Path /\ call.value \in JsonValues /\ call.depth \in Nat
        /\ call.depth <= options.max_depth /\ call.value \in Arrays
    BY <1>0, <1>1, <2>1, CallFields, Kinds
  <2>3. CASE OneText(call.value)
    <3> DEFINE text == IF call.value.items = << >> THEN << >> ELSE call.value.items[1].text
    <3>1. text \in Text /\ CallWrites(call) = << <<call.path, text>> >>
      BY <1>1, <2>1, <2>2, <2>3, OneTextType, OneTextCallWrites
    <3>2. ~CallTooNested(call, options)
      BY <1>0, <1>1, <2>1, <2>2, <2>3, FlatCall
    <3>3. Insert(call.path, text)
      <4>1. call.value.items = << >> \/ (Len(call.value.items) = 1 /\ IsScalar(call.value.items[1])
                                         /\ call.value.items # << >>)
        <5>1. call.value.items \in Seq(Values) /\ Len(<< >>) = 0
          BY <2>2, Items
        <5> QED  BY <2>3, <5>1, EmptySeq DEF OneText
      <4> QED  BY <1>4, <4>1 DEF VisitArray
    <3> HIDE DEF text
    <3> QED  BY <1>0, <2>1, <2>2, <3>1, <3>2, <3>3, InsertProgress
  <2>4. CASE ~OneText(call.value)
    <3>1. Descend(ElementCalls(call))
      <4>1. call.value.items # << >> /\ ~(Len(call.value.items) = 1 /\ IsScalar(call.value.items[1]))
        <5>1. Len(<< >>) = 0
          OBVIOUS
        <5> QED  BY <2>1, <2>4, <5>1 DEF OneText
      <4> QED  BY <1>4, <4>1 DEF VisitArray
    <3>2. ElementCalls(call) \in Seq(Calls) /\ PendingWrites(ElementCalls(call)) = CallWrites(call)
      BY <1>1, <2>1, <2>4, ElementCallsType, ElementCallsWrite
    <3>3. SomeTooNested(ElementCalls(call), options) <=> CallTooNested(call, options)
      BY <1>0, <1>1, <2>1, <2>2, <2>4, ElementCallsNest, DeeperCall
    <3> QED  BY <1>0, <2>1, <3>1, <3>2, <3>3, DescendProgress
  <2> QED  BY <2>3, <2>4
<1>5. CASE VisitScalar
  <2>1. todo # << >> /\ call.value.kind = "scalar" /\ ~(call.depth > options.max_depth)
        /\ Insert(call.path, call.value.text)
    BY <1>5 DEF VisitScalar, CallTooDeep
  <2>2. call.path \in Path /\ call.depth <= options.max_depth
    BY <1>0, <1>1, <2>1, CallFields
  <2>3. call.value.text \in Text /\ CallWrites(call) = << <<call.path, call.value.text>> >>
    BY <1>1, <2>1, ScalarCallWrites
  <2>4. ~CallTooNested(call, options)
    BY <1>0, <1>1, <2>1, <2>2, FlatCall
  <2> QED  BY <1>0, <2>1, <2>2, <2>3, <2>4, InsertProgress
<1>6. CASE FlattenReturns
  <2>1. todo = << >> /\ flat' = "ok" /\ event' = event /\ options' = options
    BY <1>6 DEF FlattenReturns
  <2>2. PICK done : Written(doc, done)
    BY <1>0 DEF Progress
  <2>3. Writes(doc) = done /\ event = FirstWrites(done)
    <3>1. PendingWrites(todo) = << >>
      BY <2>1, PendingOne, FlattenEmpty DEF PendingWrites
    <3>2. done \in Seq(Write) /\ Writes(doc) = done \o << >> /\ event = FirstWrites(done)
      BY <2>2, <3>1 DEF Written, IsConcat
    <3> QED  BY <3>2, ConcatEmptySeq
  <2>4. ~Crowded(doc, options)
    <3>1. done # << >> => Cardinality(PathsOf(Front(done))) < options.max_fields
          /\ Cardinality(PathsOf(Front(done))) \in Nat
      <4>1. done # << >> => Front(done) \in Seq(Write)
        <5>1. done \in Seq(Write)
          BY <2>2 DEF Written
        <5>2. Len(done) \in Nat /\ \A i \in 1..(Len(done) - 1) : done[i] \in Write
          BY <5>1
        <5> QED  BY <5>2, SubSeqProperties DEF Front
      <4> QED  BY <2>2, <4>1, PathsOfType, FS_CardinalityType DEF Written
    <3> QED  BY <2>3, <3>1, LimitsType DEF Crowded
  <2>5. ~TooNested(doc, options) /\ doc.kind = "object"
    BY <1>0, <2>1, DepthsOne DEF Progress
  <2>6. "ok" \in Answers(doc, options, TRUE)
    <3>1. Writes(doc) \in Seq(Write)
      BY <2>2, <2>3 DEF Written
    <3>2. ~NoRoom(doc, options, TRUE)
      BY <2>4, <3>1, LimitsType, CrowdedIsNoRoom
    <3> QED  BY <2>5, <3>2 DEF Answers
  <2> QED  BY <2>1, <2>3, <2>6 DEF Progress, DeclaredEvent
<1> QED  BY <1>2, <1>3, <1>4, <1>5, <1>6 DEF FlattenStep

\* Flattening begins with nothing done and all of the document to do.
LEMMA BeginProgress ==
    ASSUME options \in Limits, NEW doc \in JsonValues, Begin(doc)
    PROVE  Progress(doc)'
<1>0. options' = options /\ event' = NoFields /\ options.max_depth \in Nat
  BY LimitsAssumption DEF Begin
<1>1. CASE doc.kind = "object"
  <2>1. todo' = MemberCalls(<< >>, doc.members, 1) /\ flat' = "running"
    BY <1>1 DEF Begin
  <2>2. << >> \in Path /\ << >> \in Seq(Write) /\ 1 \in Nat
    BY DEF Path
  <2>3. PendingWrites(todo') = Writes(doc) /\ Writes(doc) \in Seq(Write)
    <3>1. WrittenBy[doc][<< >>] \in Seq(Write)
      BY <2>2, WrittenByUnfolds DEF WriteList
    <3> QED  BY <1>1, <2>1, <2>2, <3>1, ObjectCallsWrite DEF Writes
  <2>4. Written(doc, << >>)'
    <3>1. IsConcat(Write, << >>, Writes(doc), Writes(doc))
      <4> DEFINE all == Writes(doc)
      <4>1. all \in Seq(Write)
        BY <2>3
      <4> HIDE DEF all
      <4>2. << >> \o all = all
        BY <4>1, ConcatEmptySeq
      <4> QED  BY <2>2, <4>1, <4>2, Zenon DEF IsConcat, all
    <3>2. FirstWrites(<< >>) = NoFields
      <4>1. PathsOf(<< >>) = {}
        BY DEF PathsOf
      <4> QED  BY <4>1 DEF FirstWrites, NoFields
    <3> QED  BY <1>0, <2>2, <2>3, <3>1, <3>2 DEF Written
  <2>5. TooNested(doc, options) <=> SomeTooNested(todo', options)
    <3>1. SomeTooNested(todo', options) <=>
            \E w \in Parts(doc) : \E d \in DepthsIn[w] : 1 + d > options.max_depth
      BY <1>1, <2>1, <2>2, ObjectCallsNest
    <3>2. DepthsIn[doc] = {0} \union {d + 1 : d \in UNION {DepthsIn[w] : w \in Parts(doc)}}
      BY <1>1, DepthsInUnfolds DEF DepthsAt, OneText
    <3>3. \A w \in Parts(doc) : DepthsIn[w] \in SUBSET Nat
      BY RankBelow, DepthsInUnfolds
    <3>4. ASSUME NEW w \in Parts(doc), NEW d \in DepthsIn[w], 1 + d > options.max_depth
          PROVE  \E e \in DepthsIn[doc] : e > options.max_depth
      <4>1. d + 1 \in DepthsIn[doc] /\ d \in Nat
        BY <3>2, <3>3
      <4>2. d + 1 > options.max_depth
        BY <3>4, <4>1
      <4> QED  BY <4>1, <4>2
    <3>5. ASSUME NEW e \in DepthsIn[doc], e > options.max_depth
          PROVE  \E w \in Parts(doc) : \E d \in DepthsIn[w] : 1 + d > options.max_depth
      <4>1. e # 0
        BY <1>0, <3>5
      <4>2. PICK w \in Parts(doc) : \E d \in DepthsIn[w] : e = d + 1
        BY <3>2, <3>5, <4>1
      <4> PICK d \in DepthsIn[w] : e = d + 1
        BY <4>2
      <4>3. d \in Nat
        BY <3>3
      <4> QED  BY <3>5, <4>3
    <3> QED  BY <3>1, <3>4, <3>5 DEF TooNested
  <2>6. doc.kind = "object" /\ flat' = "running" /\ (TooNested(doc, options') <=> SomeTooNested(todo', options'))
    BY <1>0, <1>1, <2>1, <2>5
  <2>7. \E d : Written(doc, d)'
    BY <2>4
  <2> QED  BY <2>6, <2>7 DEF Progress
<1>2. CASE doc.kind # "object"
  <2>1. flat' = "not_object"
    BY <1>2 DEF Begin
  <2> QED  BY <1>2, <2>1 DEF Progress, Answers
<1> QED  BY <1>1, <1>2

-----------------------------------------------------------------------------
\* Calls none of which is deeper than a level.
LEMMA ConcatShallow ==
    ASSUME NEW cs \in Seq(Calls), NEW ds \in Seq(Calls), NEW bound,
           \A i \in DOMAIN cs : cs[i].depth <= bound,
           \A i \in DOMAIN ds : ds[i].depth <= bound
    PROVE  \A i \in DOMAIN (cs \o ds) : (cs \o ds)[i].depth <= bound
<1>1. /\ Len(cs) \in Nat /\ Len(ds) \in Nat
      /\ DOMAIN cs = 1..Len(cs) /\ DOMAIN ds = 1..Len(ds)
      /\ DOMAIN (cs \o ds) = 1..(Len(cs) + Len(ds))
      /\ \A i \in 1..(Len(cs) + Len(ds)) :
           (cs \o ds)[i] = IF i <= Len(cs) THEN cs[i] ELSE ds[i - Len(cs)]
  BY ConcatProperties, LenProperties
<1> SUFFICES ASSUME NEW i \in 1..(Len(cs) + Len(ds)) PROVE (cs \o ds)[i].depth <= bound
  BY <1>1
<1>2. CASE i <= Len(cs)
  BY <1>1, <1>2
<1>3. CASE ~(i <= Len(cs))
  <2>1. i - Len(cs) \in DOMAIN ds
    BY <1>1, <1>3
  <2> QED  BY <1>1, <1>3, <2>1
<1> QED  BY <1>2, <1>3

(* The calls for an array's elements are one level below it, the joined text *)
(* is beside it.                                                            *)
LEMMA ElementCallsDepth ==
    ASSUME NEW call \in Calls, call.value.kind = "array", NEW d \in Nat, ~(call.depth > d)
    PROVE  \A i \in DOMAIN ElementCalls(call) : ElementCalls(call)[i].depth <= d + 1
<1>1. /\ ElementsOf(call) \in Seq(Calls) /\ JoinedOf(call) \in Seq(Calls)
      /\ ElementCalls(call) = ElementsOf(call) \o JoinedOf(call) /\ call.depth \in Nat
  BY ElementCallsType, CallFields
<1>2. \A i \in DOMAIN ElementsOf(call) : ElementsOf(call)[i].depth <= d + 1
  BY <1>1 DEF ElementsOf
<1>3. \A i \in DOMAIN JoinedOf(call) : JoinedOf(call)[i].depth <= d + 1
  BY <1>1 DEF JoinedOf, JoinedCall
<1> QED  BY <1>1, <1>2, <1>3, ConcatShallow

\* The calls under the top of the stack stay within the limits.
LEMMA TailKeeps ==
    ASSUME Sized, WithinLimits, todo # << >>
    PROVE  /\ Head(todo) \in Calls
           /\ Head(todo).depth <= options.max_depth + 1
           /\ Tail(todo) \in Seq(Calls)
           /\ \A i \in DOMAIN Tail(todo) : Tail(todo)[i].depth <= options.max_depth + 1
<1>1. /\ Len(todo) \in Nat \ {0} /\ DOMAIN todo = 1..Len(todo)
      /\ Head(todo) = todo[1] /\ todo[1] \in Calls
      /\ Tail(todo) \in Seq(Calls) /\ Len(Tail(todo)) = Len(todo) - 1
      /\ \A i \in 1..Len(Tail(todo)) : Tail(todo)[i] = todo[i + 1]
  BY HeadTailProperties, LenProperties, EmptySeq, ElementOfSeq DEF Sized, FlattenTypeOK
<1>2. ASSUME NEW i \in DOMAIN Tail(todo)
      PROVE  Tail(todo)[i].depth <= options.max_depth + 1
  <2>1. i \in 1..Len(Tail(todo))
    BY <1>1, LenProperties
  <2>2. i + 1 \in DOMAIN todo
    BY <1>1, <2>1
  <2> QED  BY <1>1, <2>1, <2>2 DEF WithinLimits
<1> QED  BY <1>1, <1>2 DEF WithinLimits

\* An error leaves the limits kept.
LEMMA RejectKeeps ==
    ASSUME Sized, WithinLimits, NEW error \in {"depth", "fields"}, Reject(error)
    PROVE  Sized' /\ WithinLimits'
<1>1. << >> \in Seq(Calls)
  OBVIOUS
<1> QED  BY <1>1 DEF Sized, FlattenTypeOK, WithinLimits, Reject

(* insert_field: below the limit there is room for one more field.         *)
LEMMA InsertKeeps ==
    ASSUME Sized, WithinLimits, todo # << >>, NEW path \in Path, NEW text \in Text, Insert(path, text)
    PROVE  Sized' /\ WithinLimits'
<1>1. CASE Cardinality(DOMAIN event) >= options.max_fields
  BY <1>1, RejectKeeps DEF Insert
<1>2. CASE ~(Cardinality(DOMAIN event) >= options.max_fields)
  <2>1. /\ DOMAIN event' = DOMAIN event \union {path}
        /\ \A p \in DOMAIN event' : event'[p] = IF p \in DOMAIN event THEN event[p] ELSE text
        /\ todo' = Tail(todo) /\ options' = options /\ flat' = flat
    BY <1>2 DEF Insert
  <2>2. /\ IsFiniteSet(DOMAIN event) /\ Cardinality(DOMAIN event) \in Nat
        /\ options.max_fields \in Nat
    BY FS_CardinalityType, LimitsType DEF Sized
  <2>3. IsFiniteSet(DOMAIN event')
        /\ Cardinality(DOMAIN event') <= Cardinality(DOMAIN event) + 1
    <3> DEFINE S == DOMAIN event
    <3>1. IsFiniteSet(S)
      BY <2>2
    <3> HIDE DEF S
    <3>2. /\ IsFiniteSet(S \union {path})
          /\ Cardinality(S \union {path}) =
                IF path \in S THEN Cardinality(S) ELSE Cardinality(S) + 1
      BY ONLY <3>1, FS_AddElement
    <3>3. DOMAIN event' = S \union {path} /\ Cardinality(S) \in Nat
      BY <2>1, <2>2 DEF S
    <3> QED  BY <3>2, <3>3 DEF S
  <2>4. Cardinality(DOMAIN event') \in Nat
    BY <2>3, FS_CardinalityType
  <2>5. Cardinality(DOMAIN event') <= options.max_fields
    BY <1>2, <2>2, <2>3, <2>4
  <2>6. FlattenTypeOK'
    BY <2>1, TailKeeps DEF Sized, FlattenTypeOK
  <2> QED  BY <2>1, <2>3, <2>5, <2>6, TailKeeps DEF Sized, WithinLimits
<1> QED  BY <1>1, <1>2

(* Calls no deeper than allowed take the place of the call that makes them. *)
LEMMA DescendKeeps ==
    ASSUME Sized, WithinLimits, todo # << >>, NEW calls \in Seq(Calls),
           \A i \in DOMAIN calls : calls[i].depth <= options.max_depth + 1,
           Descend(calls)
    PROVE  Sized' /\ WithinLimits'
<1>1. todo' = calls \o Tail(todo) /\ event' = event /\ options' = options /\ flat' = flat
  BY DEF Descend
<1>2. todo' \in Seq(Calls)
  BY <1>1, TailKeeps, ConcatProperties
<1>3. \A i \in DOMAIN todo' : todo'[i].depth <= options.max_depth + 1
  BY <1>1, TailKeeps, ConcatShallow
<1> QED  BY <1>1, <1>2, <1>3 DEF Sized, FlattenTypeOK, WithinLimits

(* One step of flatten_into.                                               *)
LEMMA FlattenStepKeeps ==
    ASSUME Sized, WithinLimits, FlattenStep
    PROVE  Sized' /\ WithinLimits'
<1> DEFINE call == Head(todo)
<1>1. CASE TooDeep
  BY <1>1, RejectKeeps DEF TooDeep
<1>2. CASE VisitObject
  <2>1. /\ call \in Calls /\ call.value.kind = "object" /\ todo # << >>
        /\ ~(call.depth > options.max_depth)
    BY <1>2, TailKeeps DEF VisitObject, CallTooDeep
  <2>2. call.value \in Objects /\ call.path \in Path /\ call.depth \in Nat
    BY <2>1, CallFields, Kinds
  <2>3. call.depth + 1 \in Nat /\ call.depth + 1 <= options.max_depth + 1
    BY <2>1, <2>2, LimitsType
  <2>4. Descend(MemberCalls(call.path, call.value.members, call.depth + 1))
    BY <1>2 DEF VisitObject
  <2> DEFINE calls == MemberCalls(call.path, call.value.members, call.depth + 1)
  <2>5. calls \in Seq(Calls) /\ \A i \in DOMAIN calls : calls[i].depth <= options.max_depth + 1
    <3>1. /\ calls \in Seq(Calls) /\ Len(calls) = Len(call.value.members)
          /\ \A i \in 1..Len(call.value.members) : calls[i].depth = call.depth + 1
      BY <2>2, <2>3, MemberCallsType
    <3> HIDE DEF calls
    <3>2. DOMAIN calls = 1..Len(call.value.members)
      BY <3>1, LenProperties
    <3> QED  BY <2>3, <3>1, <3>2
  <2> HIDE DEF calls
  <2> QED  BY <2>1, <2>4, <2>5, DescendKeeps DEF calls
<1>3. CASE VisitArray
  <2>1. /\ call \in Calls /\ call.value.kind = "array" /\ todo # << >>
        /\ ~(call.depth > options.max_depth)
    BY <1>3, TailKeeps DEF VisitArray, CallTooDeep
  <2>2. /\ call.path \in Path /\ call.depth \in Nat /\ call.value \in JsonValues
        /\ call.value \in Arrays /\ call.value.items \in Seq(Values)
    BY <2>1, CallFields, Kinds, Items
  <2> DEFINE items == call.value.items
             one   == Len(items) = 1 /\ IsScalar(items[1])
  <2>3. /\ items = << >> => Insert(call.path, << >>)
        /\ items # << >> /\ one => Insert(call.path, items[1].text)
        /\ items # << >> /\ ~one => Descend(ElementCalls(call))
    BY <1>3 DEF VisitArray
  <2>4. << >> \in Text /\ (one => items[1].text \in Text)
    <3>1. << >> \in Text
      BY DEF Text
    <3>2. ASSUME one PROVE items[1].text \in Text
      <4>1. items[1] \in Values /\ items[1].kind = "scalar"
        BY <2>2, <3>2, ElementOfSeq DEF IsScalar
      <4>2. items[1] \in Scalars
        BY <4>1, Kinds DEF JsonValues
      <4> QED  BY <4>2 DEF Scalars
    <3> QED  BY <3>1, <3>2
  <2>5. /\ ElementCalls(call) \in Seq(Calls)
        /\ \A i \in DOMAIN ElementCalls(call) :
              ElementCalls(call)[i].depth <= options.max_depth + 1
    BY <2>1, <2>2, ElementCallsDepth, ElementCallsType, LimitsType
  <2> HIDE DEF items, one
  <2> QED  BY <2>1, <2>2, <2>3, <2>4, <2>5, InsertKeeps, DescendKeeps
<1>4. CASE VisitScalar
  <2>1. todo # << >> /\ Insert(call.path, call.value.text) /\ call.value.kind = "scalar"
    BY <1>4 DEF VisitScalar
  <2>2. call \in Calls
    BY <2>1, TailKeeps
  <2>3. call.path \in Path /\ call.value.text \in Text
    BY <2>1, <2>2, CallFields, ScalarCallWrites
  <2> QED  BY <2>1, <2>3, InsertKeeps
<1>5. CASE FlattenReturns
  BY <1>5 DEF FlattenReturns, Sized, FlattenTypeOK, WithinLimits
<1> QED  BY <1>1, <1>2, <1>3, <1>4, <1>5 DEF FlattenStep

(* A document is begun with an empty event.                                *)
LEMMA BeginKeeps ==
    ASSUME Sized, NEW doc \in JsonValues, Begin(doc)
    PROVE  Sized' /\ WithinLimits'
<1>1. event' = NoFields /\ options' = options
  BY DEF Begin
<1>2. DOMAIN event' = {}
  BY <1>1 DEF NoFields
<1>3. IsFiniteSet(DOMAIN event') /\ Cardinality(DOMAIN event') = 0
  BY <1>2, FS_EmptySet
<1>4. CASE doc.kind = "object"
  <2>1. doc \in Objects
    BY <1>4, Kinds
  <2>2. << >> \in Path
    BY DEF Path
  <2>3. todo' = MemberCalls(<< >>, doc.members, 1)
    BY <1>4 DEF Begin
  <2>4. /\ todo' \in Seq(Calls)
        /\ \A i \in DOMAIN todo' : todo'[i].depth = 1
    <3> DEFINE calls == MemberCalls(<< >>, doc.members, 1)
    <3>1. /\ calls \in Seq(Calls) /\ Len(calls) = Len(doc.members)
          /\ \A i \in 1..Len(doc.members) : calls[i].depth = 1
      <4>1. 1 \in Nat
        OBVIOUS
      <4> QED  BY ONLY <2>1, <2>2, <4>1, MemberCallsType
    <3> HIDE DEF calls
    <3>2. DOMAIN calls = 1..Len(doc.members)
      BY <3>1, LenProperties
    <3>3. todo' = calls
      BY <2>3 DEF calls
    <3> QED  BY <3>1, <3>2, <3>3
  <2>5. flat' = "running"
    BY <1>4 DEF Begin
  <2> QED  BY <1>1, <1>2, <1>3, <2>4, <2>5, LimitsType DEF Sized, FlattenTypeOK, WithinLimits
<1>5. CASE doc.kind # "object"
  <2>1. todo' = << >> /\ flat' = "not_object" /\ << >> \in Seq(Calls)
    BY <1>5 DEF Begin
  <2> QED  BY <1>1, <1>2, <1>3, <2>1, LimitsType DEF Sized, FlattenTypeOK, WithinLimits
<1> QED  BY <1>4, <1>5

-----------------------------------------------------------------------------
(* The run.                                                                 *)

\* Events, as flattening makes them.
FlatEvents == UNION {[paths -> Text] : paths \in SUBSET Path}

RunnerTypeOK ==
    /\ input \in Inputs /\ args \in Configs
    /\ pc \in {"load", "read", "flatten", "eval", "report", "done"}
    /\ line_number \in 0..Len(input)
    /\ events \in Seq(FlatEvents)
    /\ totals \in [total : Nat, ok : Nat, failed : Nat]
    /\ errors \in [ErrorKinds -> Nat]
    /\ samples \in Seq((Nat \ {0}) \X ErrorKinds)
    /\ waiting \subseteq DOMAIN events
    /\ matches \in Nat
    /\ stdout \in Seq(Nat) /\ exit \in {"running", "success", "failure"}

\* The document of the line that was read last is being flattened.
LineProgress ==
    pc = "flatten" =>
        /\ line_number \in 1..Len(input) /\ input[line_number].kind = "doc"
        /\ Progress(input[line_number].doc)

IInv == Sized /\ WithinLimits /\ RunnerTypeOK /\ LineProgress

\* The number of matches of an event is a number.
LEMMA CountType ==
    ASSUME NEW e
    PROVE  EvaluateEventCount(e) \in Nat
<1> DEFINE matching == {rule \in Rules : \A cell \in rule : cell[1] \in DOMAIN e /\ e[cell[1]] = cell[2]}
<1>1. matching \subseteq Rules /\ IsFiniteSet(Rules)
  BY RulesAssumption
<1> HIDE DEF matching
<1>2. IsFiniteSet(matching)
  BY <1>1, FS_Subset
<1>3. Cardinality(matching) \in Nat
  BY <1>2, FS_CardinalityType
<1> QED  BY <1>3 DEF EvaluateEventCount, matching

\* The lines of the file are lines, and their documents JSON values.
LEMMA InputType ==
    ASSUME RunnerTypeOK
    PROVE  /\ input \in Seq(Lines) /\ Len(input) \in Nat /\ DOMAIN input = 1..Len(input)
           /\ args \in CommandLines /\ line_number \in Nat
           /\ \A i \in 1..Len(input) : input[i] \in Lines /\ input[i].doc \in JsonValues
<1>1. input \in Seq(Lines) /\ args \in CommandLines
  BY InputsAssumption, ConfigsAssumption DEF RunnerTypeOK
<1>2. NoDoc \in Scalars
  BY DEF NoDoc, Scalars, Text
<1>3. \A l \in Lines : l.doc \in JsonValues
  BY <1>2 DEF Lines, JsonValues
<1> QED  BY <1>1, <1>3, LenProperties, ElementOfSeq DEF RunnerTypeOK

\* What is counted and reported for a failure.
LEMMA FailEventType ==
    ASSUME RunnerTypeOK, NEW line \in Nat \ {0}, NEW kind \in ErrorKinds, NEW counted \in {0, 1},
           NEW next \in {"read", "eval"}, FailEvent(line, kind, counted, next)
    PROVE  /\ totals' \in [total : Nat, ok : Nat, failed : Nat]
           /\ errors' \in [ErrorKinds -> Nat]
           /\ samples' \in Seq((Nat \ {0}) \X ErrorKinds)
           /\ pc' \in {"read", "eval", "done"} /\ exit' \in {"running", "success", "failure"}
<1>1. totals' \in [total : Nat, ok : Nat, failed : Nat]
  BY DEF FailEvent, RunnerTypeOK
<1>2. errors' \in [ErrorKinds -> Nat]
  BY DEF FailEvent, RunnerTypeOK
<1>3. samples' \in Seq((Nat \ {0}) \X ErrorKinds)
  <2> DEFINE sample == <<line, kind>>
             S == (Nat \ {0}) \X ErrorKinds
  <2>1. sample \in S /\ samples \in Seq(S)
    BY DEF RunnerTypeOK
  <2>2. samples' = Append(samples, sample) \/ samples' = samples
    BY DEF FailEvent, EmitSample
  <2> HIDE DEF sample, S
  <2>3. samples' \in Seq(S)
    BY <2>1, <2>2, AppendProperties
  <2> QED  BY <2>3 DEF S
<1>4. pc' \in {"read", "eval", "done"} /\ exit' \in {"running", "success", "failure"}
  BY DEF FailEvent, ExitWith, RunnerTypeOK
<1> QED  BY <1>1, <1>2, <1>3, <1>4

\* The event that a document stands for is a map from paths to texts.
LEMMA DeclaredEventType ==
    ASSUME NEW doc \in JsonValues
    PROVE  DeclaredEvent(doc) \in FlatEvents
<1>1. << >> \in Path
  BY DEF Path
<1>2. WrittenBy[doc] \in WriteList
  BY WrittenByUnfolds
<1>3. Writes(doc) \in Seq(Write)
  BY <1>1, <1>2 DEF Writes, WriteList
<1> DEFINE all == Writes(doc)
<1> HIDE DEF all
<1>4. PathsOf(all) \subseteq Path /\ FirstWrites(all) \in [PathsOf(all) -> Text]
  BY <1>3, PathsOfType DEF all
<1>5. FirstWrites(all) \in FlatEvents
  BY <1>4 DEF FlatEvents
<1> QED  BY <1>5 DEF DeclaredEvent, all

-----------------------------------------------------------------------------
(* Every step keeps the types.                                              *)
LEMMA NextKeepsTypes ==
    ASSUME IInv, [Next]_vars
    PROVE  RunnerTypeOK'
<1> USE DEF IInv
<1>1. CASE LoadRules
  BY <1>1 DEF LoadRules, ExitWith, RunnerTypeOK
<1>2. CASE ReadFailure
  <2>1. line_number + 1 \in Nat \ {0} /\ "io_read" \in ErrorKinds
    BY InputType DEF ErrorKinds
  <2>2. FailEvent(line_number + 1, "io_read", 0, "eval") /\ waiting' = DOMAIN events
    BY <1>2 DEF ReadFailure, AllEvents
  <2>3. /\ totals' \in [total : Nat, ok : Nat, failed : Nat] /\ errors' \in [ErrorKinds -> Nat]
        /\ samples' \in Seq((Nat \ {0}) \X ErrorKinds)
        /\ pc' \in {"read", "eval", "done"} /\ exit' \in {"running", "success", "failure"}
    BY <2>1, <2>2, FailEventType
  <2>4. UNCHANGED <<input, args, line_number, events, matches, stdout>>
    BY <1>2 DEF ReadFailure
  <2> QED  BY <2>2, <2>3, <2>4 DEF RunnerTypeOK
<1>3. CASE ReadEof
  BY <1>3 DEF ReadEof, AllEvents, RunnerTypeOK
<1>4. CASE ReadLine
  <2>1. /\ line_number' = line_number + 1 /\ line_number + 1 \in Nat \ {0}
        /\ line_number + 1 \in 0..Len(input)
    BY <1>4, InputType DEF ReadLine, HasLine
  <2>2. UNCHANGED <<input, args, events, waiting, matches, stdout>>
    BY <1>4 DEF ReadLine
  <2>3. /\ totals' \in [total : Nat, ok : Nat, failed : Nat] /\ errors' \in [ErrorKinds -> Nat]
        /\ samples' \in Seq((Nat \ {0}) \X ErrorKinds)
        /\ pc' \in {"read", "eval", "done", "flatten"} /\ exit' \in {"running", "success", "failure"}
    <3>1. CASE UNCHANGED <<pc, totals, errors, samples, exit>> /\ pc = "read"
      BY <3>1 DEF RunnerTypeOK
    <3>2. CASE FailEvent(line_number + 1, "line_too_large", 1, "read")
      <4>1. "line_too_large" \in ErrorKinds
        BY DEF ErrorKinds
      <4> QED  BY <2>1, <3>2, <4>1, FailEventType
    <3>3. CASE FailEvent(line_number + 1, "json_parse", 1, "read")
      <4>1. "json_parse" \in ErrorKinds
        BY DEF ErrorKinds
      <4> QED  BY <2>1, <3>3, <4>1, FailEventType
    <3>4. CASE totals' = [totals EXCEPT !.total = @ + 1] /\ pc' = "flatten" /\ UNCHANGED <<errors, samples, exit>>
      <4>1. totals \in [total : Nat, ok : Nat, failed : Nat]
        BY DEF RunnerTypeOK
      <4>2. totals' \in [total : Nat, ok : Nat, failed : Nat]
        BY <3>4, <4>1
      <4> QED  BY <3>4, <4>2 DEF RunnerTypeOK
    <3> QED  BY <1>4, <3>1, <3>2, <3>3, <3>4 DEF ReadLine
  <2> QED  BY <2>1, <2>2, <2>3 DEF RunnerTypeOK
<1>5. CASE Flattening
  <2>1. UNCHANGED <<input, args, pc, line_number, events, totals, errors, samples, waiting,
                    matches, stdout, exit>>
    BY <1>5 DEF Flattening, runner
  <2> QED  BY <2>1 DEF RunnerTypeOK
<1>6. CASE Flattened
  <2>1. event \in FlatEvents
    <3>1. pc = "flatten" /\ flat = "ok"
      BY <1>6 DEF Flattened
    <3>2. event = DeclaredEvent(input[line_number].doc) /\ line_number \in 1..Len(input)
      BY <3>1 DEF LineProgress, Progress
    <3> QED  BY <3>2, InputType, DeclaredEventType
  <2>2. /\ events' = Append(events, event) /\ totals' = [totals EXCEPT !.ok = @ + 1] /\ pc' = "read"
        /\ UNCHANGED <<input, args, line_number, errors, samples, waiting, matches, stdout, exit>>
    BY <1>6 DEF Flattened
  <2>3. events \in Seq(FlatEvents)
    BY DEF RunnerTypeOK
  <2>4. events' \in Seq(FlatEvents) /\ DOMAIN events \subseteq DOMAIN events'
    <3>1. Append(events, event) \in Seq(FlatEvents) /\ Len(Append(events, event)) = Len(events) + 1
      BY <2>1, <2>3, AppendProperties
    <3>2. DOMAIN events = 1..Len(events) /\ Len(events) \in Nat
          /\ DOMAIN Append(events, event) = 1..Len(Append(events, event))
      BY <2>3, <3>1, LenProperties
    <3> QED  BY <2>2, <3>1, <3>2
  <2>5. totals' \in [total : Nat, ok : Nat, failed : Nat]
    <3>1. totals \in [total : Nat, ok : Nat, failed : Nat]
      BY DEF RunnerTypeOK
    <3> QED  BY <2>2, <3>1
  <2> QED  BY <2>2, <2>4, <2>5 DEF RunnerTypeOK
<1>7. CASE NotFlattened
  <2>1. line_number \in Nat \ {0} /\ flat \in ErrorKinds
    <3>1. pc = "flatten" /\ flat \in FlattenErrors
      BY <1>7 DEF NotFlattened
    <3>2. line_number \in 1..Len(input) /\ Len(input) \in Nat
      BY <3>1, InputType DEF LineProgress
    <3> QED  BY <3>1, <3>2 DEF ErrorKinds
  <2>2. /\ FailEvent(line_number, flat, 0, "read")
        /\ UNCHANGED <<input, args, line_number, events, waiting, matches, stdout>>
    BY <1>7 DEF NotFlattened
  <2>3. /\ totals' \in [total : Nat, ok : Nat, failed : Nat] /\ errors' \in [ErrorKinds -> Nat]
        /\ samples' \in Seq((Nat \ {0}) \X ErrorKinds)
        /\ pc' \in {"read", "eval", "done"} /\ exit' \in {"running", "success", "failure"}
    BY <2>1, <2>2, FailEventType
  <2> QED  BY <2>2, <2>3 DEF RunnerTypeOK
<1>8. CASE \E i \in waiting : EvaluateEvent(i)
  <2>1. PICK i \in waiting : EvaluateEvent(i)
    BY <1>8
  <2>2. EvaluateEventCount(events[i]) \in Nat
    BY CountType
  <2> QED  BY <2>1, <2>2 DEF EvaluateEvent, RunnerTypeOK
<1>9. CASE Evaluated
  BY <1>9 DEF Evaluated, RunnerTypeOK
<1>10. CASE Report
  <2>1. stdout' = stdout \/ stdout' = <<matches>>
    BY <1>10 DEF Report
  <2>2. stdout \in Seq(Nat) /\ matches \in Nat
    BY DEF RunnerTypeOK
  <2>3. stdout' \in Seq(Nat)
    <3>1. \A m \in Nat : <<m>> \in Seq(Nat)
      OBVIOUS
    <3>2. <<matches>> \in Seq(Nat)
      BY <2>2, <3>1
    <3> QED  BY <2>1, <2>2, <3>2, Zenon
  <2> QED  BY <1>10, <2>3 DEF Report, ExitWith, RunnerTypeOK
<1>11. CASE NoPool
  BY <1>11 DEF NoPool, ExitWith, RunnerTypeOK
<1>12. CASE UNCHANGED vars
  BY <1>12 DEF vars, runner, RunnerTypeOK
<1> QED
  BY <1>1, <1>2, <1>3, <1>4, <1>5, <1>6, <1>7, <1>8, <1>9, <1>10, <1>11, <1>12
  DEF Next, Step, IoError, NotText, Finished

(* Reading is all that sets the flattener to work, and Flattening all that   *)
(* moves it.                                                                *)
LEMMA NextKeepsFlattening ==
    ASSUME IInv, [Next]_vars
    PROVE  Sized' /\ WithinLimits' /\ LineProgress'
<1> USE DEF IInv
<1>1. CASE UNCHANGED flattening /\ pc' # "flatten"
  BY <1>1 DEF flattening, Sized, FlattenTypeOK, WithinLimits, LineProgress
<1>2. CASE Flattening
  <2>1. FlattenStep /\ UNCHANGED <<pc, input, line_number>> /\ pc = "flatten"
    BY <1>2 DEF Flattening, runner
  <2>2. Sized' /\ WithinLimits'
    BY <2>1, FlattenStepKeeps
  <2>3. PICK doc : doc = input[line_number].doc
    OBVIOUS
  <2>4. Progress(doc)'
    BY <2>1, <2>3, FlattenStepProgress DEF LineProgress
  <2>5. doc = input'[line_number'].doc /\ line_number' \in 1..Len(input') /\ input'[line_number'].kind = "doc"
    BY <2>1, <2>3 DEF LineProgress
  <2>6. LineProgress'
    BY <2>4, <2>5 DEF LineProgress
  <2> QED  BY <2>2, <2>6
<1>3. CASE ReadLine /\ ~(UNCHANGED flattening /\ pc' # "flatten")
  <2>1. line_number + 1 \in 1..Len(input) /\ input' = input /\ line_number' = line_number + 1
    BY <1>3, InputType DEF ReadLine, HasLine
  <2>2. Line.doc \in JsonValues
    BY <2>1, InputType DEF Line
  <2>3. Begin(Line.doc) /\ Line.kind = "doc"
    BY <1>3 DEF ReadLine, FailEvent, ExitWith
  <2>4. Sized' /\ WithinLimits'
    BY <2>2, <2>3, BeginKeeps
  <2>5. PICK doc : doc = Line.doc
    OBVIOUS
  <2>6. Progress(doc)'
    BY <2>2, <2>3, <2>5, BeginProgress DEF Sized, FlattenTypeOK
  <2>7. doc = input'[line_number'].doc /\ line_number' \in 1..Len(input') /\ input'[line_number'].kind = "doc"
    BY <2>1, <2>3, <2>5 DEF Line
  <2>8. LineProgress'
    BY <2>6, <2>7 DEF LineProgress
  <2> QED  BY <2>4, <2>8
<1>4. CASE UNCHANGED vars
  <2>1. PICK doc : doc = input[line_number].doc
    OBVIOUS
  <2>2. Progress(doc) => Progress(doc)'
    BY <1>4 DEF vars, flattening, Progress, Written
  <2>3. doc = input'[line_number'].doc /\ UNCHANGED <<pc, input, line_number>>
    BY <1>4, <2>1 DEF vars, runner
  <2>4. LineProgress'
    BY <2>1, <2>2, <2>3 DEF LineProgress
  <2> QED  BY <1>4, <2>4 DEF vars, flattening, Sized, FlattenTypeOK, WithinLimits
<1>5. CASE Next /\ ~Flattening /\ ~ReadLine /\ ~UNCHANGED vars
  <2>1. UNCHANGED flattening /\ pc' # "flatten"
    BY <1>5 DEF Next, Step, LoadRules, NotText, IoError, ReadFailure, ReadEof, Flattened, FailEvent,
           NotFlattened, EvaluateEvent, Evaluated, Report, NoPool, Finished, ExitWith
  <2> QED  BY <1>1, <2>1
<1> QED  BY <1>1, <1>2, <1>3, <1>4, <1>5

\* The invariant holds before the first line.
LEMMA InitHolds ==
    ASSUME Init
    PROVE  IInv
<1>1. /\ options \in Limits /\ todo = << >> /\ event = NoFields /\ flat = "idle"
      /\ DOMAIN event = {} /\ << >> \in Seq(Calls)
  BY DEF Init, FlattenInit, NoFields
<1>2. IsFiniteSet(DOMAIN event) /\ Cardinality(DOMAIN event) = 0
  BY <1>1, FS_EmptySet
<1>3. Sized
  BY <1>1, <1>2 DEF Sized, FlattenTypeOK
<1>4. WithinLimits
  BY <1>1, <1>2, <1>3, LimitsType DEF WithinLimits
<1>5. input \in Seq(Lines) /\ Len(input) \in Nat
  BY InputsAssumption, LenProperties DEF Init
<1>6. RunnerTypeOK
  <2>1. << >> \in Seq(FlatEvents) /\ << >> \in Seq((Nat \ {0}) \X ErrorKinds) /\ << >> \in Seq(Nat)
    OBVIOUS
  <2> QED  BY <1>5, <2>1 DEF Init, RunnerTypeOK
<1>7. LineProgress
  BY DEF Init, LineProgress
<1> QED  BY <1>3, <1>4, <1>6, <1>7 DEF IInv

(* Every step of null_sigma_run, of the reader, the flattener and the pool, *)
(* keeps the types, both limits, and what the flattener has done of the     *)
(* line in hand.                                                            *)
THEOREM Inductive == Spec => []IInv
<1>1. Init => IInv
  BY InitHolds
<1>2. IInv /\ [Next]_vars => IInv'
  BY NextKeepsTypes, NextKeepsFlattening DEF IInv
<1> QED  BY <1>1, <1>2, PTL DEF Spec

(* For every file, document and limits flatten_value_with never holds more  *)
(* than max_fields fields, nor makes a call deeper than max_depth + 1       *)
(* (src/json.rs, flatten_into).                                             *)
THEOREM LimitsHold == Spec => []WithinLimits
<1>1. IInv => WithinLimits
  BY DEF IInv
<1> QED  BY <1>1, Inductive, PTL

(* Every variable of a run keeps its type.                                  *)
THEOREM RunnerTyping == Spec => []TypeOK
<1>1. IInv => TypeOK
  <2> SUFFICES ASSUME IInv PROVE TypeOK
    OBVIOUS
  <2>1. \A i \in DOMAIN events : DOMAIN events[i] \subseteq Path
    <3>1. \A i \in DOMAIN events : events[i] \in FlatEvents
      BY LenProperties, ElementOfSeq DEF IInv, RunnerTypeOK
    <3> QED  BY <3>1 DEF FlatEvents
  <2> QED  BY <2>1 DEF IInv, Sized, RunnerTypeOK, TypeOK
<1> QED  BY <1>1, Inductive, PTL

(* For every document that is a finite tree, and all limits,                *)
(* flatten_value_with returns the first write of every path the document    *)
(* stands for, all of them, or an error whose limit the document passes:    *)
(* never part of a document.                                                *)
THEOREM FlatteningIsFaithful == Spec => []FlattensFaithfully
<1>1. IInv => FlattensFaithfully
  <2>1. \A doc, limits :
            Answers(doc, limits, TRUE)
                \subseteq Answers(doc, limits, FALSE) \union {x \in {"fields"} : FullAgain(doc, limits)}
    BY DEF Answers, NoRoom
  <2> QED  BY <2>1 DEF IInv, LineProgress, Progress, FlattensFaithfully
<1> QED  BY <1>1, Inductive, PTL

-----------------------------------------------------------------------------
\* The failed lines among the first n, and the one after them if a read failed there.
Failed(lines, limits, n, io_read) ==
    {i \in 1..n : AnswerTo(lines[i], limits, TRUE) \subseteq ErrorKinds} \union {n + 1 : k \in 1..io_read}

\* What each of them may be reported as.
FailureKinds(lines, limits, n, io_read) ==
    [i \in Failed(lines, limits, n, io_read) |->
        IF i > n THEN {"io_read"} ELSE AnswerTo(lines[i], limits, TRUE)]

\* The samples are the first failures, in order, each with a kind that is right.
Sampled(kinds, sample, max) ==
    /\ DOMAIN kinds \in SUBSET Nat /\ IsFiniteSet(DOMAIN kinds)
    /\ sample \in Seq((Nat \ {0}) \X ErrorKinds)
    /\ Len(sample) = Min({Cardinality(DOMAIN kinds), max})
    /\ \A i \in DOMAIN sample :
         /\ sample[i][1] \in DOMAIN kinds
         /\ Cardinality(Earlier(DOMAIN kinds, sample[i][1])) = i - 1
         /\ sample[i][2] \in kinds[sample[i][1]]

\* The lesser of two numbers.
LEMMA MinOfTwo ==
    ASSUME NEW a \in Nat, NEW b \in Nat
    PROVE  Min({a, b}) = IF a <= b THEN a ELSE b
<1>1. {a, b} \in SUBSET Nat /\ {a, b} # {}
  OBVIOUS
<1>2. Min({a, b}) \in {a, b} /\ \A k \in {a, b} : Min({a, b}) <= k
  BY <1>1, MinIsLeast
<1> QED  BY <1>2

\* more has one later failure than kinds.
OneMore(kinds, more, line, kind) ==
    /\ DOMAIN more = DOMAIN kinds \union {line}
    /\ \A i \in DOMAIN kinds : i < line /\ more[i] = kinds[i]
    /\ kind \in more[line]

Longer(sample, max, line, kind) ==
    IF Len(sample) < max THEN Append(sample, <<line, kind>>) ELSE sample

\* One more failure, later than the others, is sampled if there is room, and counted.
LEMMA OneMoreFailure ==
    ASSUME NEW kinds, NEW sample, NEW max \in Nat, Sampled(kinds, sample, max),
           NEW line \in Nat \ {0}, NEW kind \in ErrorKinds,
           NEW more, OneMore(kinds, more, line, kind)
    PROVE  /\ Sampled(more, Longer(sample, max, line, kind), max)
           /\ Cardinality(DOMAIN more) = Cardinality(DOMAIN kinds) + 1
           /\ Cardinality(DOMAIN kinds) \in Nat
<1> DEFINE F == DOMAIN kinds
           E == DOMAIN more
           T == (Nat \ {0}) \X ErrorKinds
           last == <<line, kind>>
           longer == Longer(sample, max, line, kind)
<1>1. /\ F \in SUBSET Nat /\ IsFiniteSet(F) /\ sample \in Seq(T)
      /\ Len(sample) = Min({Cardinality(F), max}) /\ E = F \union {line}
  BY DEF Sampled, OneMore
<1>2. \A i \in DOMAIN sample :
         /\ sample[i][1] \in F /\ Cardinality(Earlier(F, sample[i][1])) = i - 1
         /\ sample[i][2] \in kinds[sample[i][1]]
  BY DEF Sampled
<1>3. last \in T /\ last[1] = line /\ last[2] = kind
  OBVIOUS
<1>4. (\A i \in F : i < line /\ more[i] = kinds[i]) /\ kind \in more[line]
  BY DEF OneMore
<1>5. longer = IF Len(sample) < max THEN Append(sample, last) ELSE sample
  BY DEF Longer
<1> HIDE DEF F, E, T, last, longer
<1>6. /\ E \in SUBSET Nat /\ IsFiniteSet(E) /\ Cardinality(F) \in Nat
      /\ Cardinality(E) = Cardinality(F) + 1
  <2>1. line \notin F
    BY <1>1, <1>4
  <2> QED  BY ONLY <1>1, <2>1, FS_AddElement, FS_CardinalityType
<1>7. Len(sample) = IF Cardinality(F) <= max THEN Cardinality(F) ELSE max
  BY <1>1, <1>6, MinOfTwo
<1>8. Min({Cardinality(E), max}) = IF Cardinality(E) <= max THEN Cardinality(E) ELSE max
  BY <1>6, MinOfTwo
<1>9. \A x \in F : Earlier(E, x) = Earlier(F, x)
  BY <1>1, <1>4 DEF Earlier
<1>10. \A i \in DOMAIN sample :
         /\ sample[i][1] \in E /\ Cardinality(Earlier(E, sample[i][1])) = i - 1
         /\ sample[i][2] \in more[sample[i][1]]
  BY <1>1, <1>2, <1>4, <1>9
<1>11. CASE Len(sample) < max
  <2>1. /\ longer \in Seq(T) /\ Len(longer) = Len(sample) + 1 /\ longer[Len(sample) + 1] = last
        /\ \A i \in 1..Len(sample) : longer[i] = sample[i]
        /\ DOMAIN longer = 1..(Len(sample) + 1) /\ DOMAIN sample = 1..Len(sample)
        /\ Len(sample) \in Nat
    <3>1. longer = Append(sample, last)
      BY <1>5, <1>11
    <3>2. /\ longer \in Seq(T) /\ Len(longer) = Len(sample) + 1 /\ longer[Len(sample) + 1] = last
          /\ \A i \in 1..Len(sample) : longer[i] = sample[i]
      <4>1. /\ Append(sample, last) \in Seq(T) /\ Len(Append(sample, last)) = Len(sample) + 1
            /\ Append(sample, last)[Len(sample) + 1] = last
            /\ \A i \in 1..Len(sample) : Append(sample, last)[i] = sample[i]
        <5>1. sample \in Seq(T) /\ last \in T
          BY <1>1, <1>3
        <5> QED  BY ONLY <5>1, AppendProperties
      <4> QED  BY <3>1, <4>1, Zenon
    <3> QED  BY <1>1, <3>2, LenProperties
  <2>2. Len(sample) = Cardinality(F) /\ Len(longer) = Min({Cardinality(E), max})
    <3>1. max \in Nat /\ Cardinality(F) \in Nat /\ Cardinality(E) = Cardinality(F) + 1
          /\ Len(sample) \in Nat /\ Len(sample) < max /\ Len(longer) = Len(sample) + 1
      BY <1>6, <1>11, <2>1
    <3>2. Len(sample) = Cardinality(F)
      <4>1. CASE Cardinality(F) <= max
        BY <1>7, <4>1, Zenon
      <4>2. CASE ~(Cardinality(F) <= max)
        <5>1. Len(sample) = max
          BY <1>7, <4>2, Zenon
        <5> QED  BY ONLY <3>1, <5>1
      <4> QED  BY <4>1, <4>2
    <3>3. Cardinality(E) <= max
      BY ONLY <3>1, <3>2
    <3>4. Min({Cardinality(E), max}) = Cardinality(E)
      BY <1>8, <3>3, Zenon
    <3> QED  BY ONLY <3>1, <3>2, <3>4
  <2>3. Earlier(E, line) = F
    <3>1. \A i \in E : i < line <=> i \in F
      <4>1. ~(line < line)
        OBVIOUS
      <4> QED  BY <1>1, <1>4, <4>1, Zenon
    <3> QED  BY <1>1, <3>1, Zenon DEF Earlier
  <2>4. ASSUME NEW i \in DOMAIN longer
        PROVE  /\ longer[i][1] \in E /\ Cardinality(Earlier(E, longer[i][1])) = i - 1
               /\ longer[i][2] \in more[longer[i][1]]
    <3>1. CASE i \in 1..Len(sample)
      BY <1>10, <2>1, <3>1
    <3>2. CASE i = Len(sample) + 1
      <4>1. longer[i] = last /\ i - 1 = Cardinality(F)
        BY <2>1, <2>2, <3>2
      <4>2. line \in E
        BY <1>1
      <4> QED  BY <1>3, <1>4, <2>3, <4>1, <4>2
    <3> QED  BY <2>1, <3>1, <3>2
  <2> QED  BY <1>6, <2>1, <2>2, <2>4 DEF Sampled, E, F, T, longer
<1>12. CASE ~(Len(sample) < max)
  <2>1. longer = sample /\ Len(sample) = Min({Cardinality(E), max})
    BY <1>5, <1>6, <1>7, <1>8, <1>12
  <2> QED  BY <1>1, <1>6, <1>10, <2>1 DEF Sampled, E, F, T, longer
<1> QED  BY <1>11, <1>12

-----------------------------------------------------------------------------
(* What becomes of a line.                                                  *)
LEMMA AnswersKinds ==
    ASSUME NEW doc, NEW limits
    PROVE  Answers(doc, limits, TRUE) = {"ok"}
              \/ ("ok" \notin Answers(doc, limits, TRUE) /\ Answers(doc, limits, TRUE) \subseteq ErrorKinds)
BY DEF Answers, ErrorKinds, FlattenErrors

\* Neither a good event nor a blank line is an error.
LEMMA NotErrors == "ok" \notin ErrorKinds /\ "skipped" \notin ErrorKinds
BY DEF ErrorKinds, FlattenErrors

\* One line more that has not failed, that has, or that could not be read.
LEMMA SettleGood ==
    ASSUME NEW lines, NEW limits, NEW n \in Nat, ~(AnswerTo(lines[n + 1], limits, TRUE) \subseteq ErrorKinds)
    PROVE  FailureKinds(lines, limits, n + 1, 0) = FailureKinds(lines, limits, n, 0)
<1>1. \A i : i \in 1..(n + 1) <=> i \in 1..n \/ i = n + 1
  OBVIOUS
<1>2. 1..0 = {}
  OBVIOUS
<1>3. Failed(lines, limits, n + 1, 0) = Failed(lines, limits, n, 0)
  BY <1>1, <1>2 DEF Failed
<1>4. \A i \in Failed(lines, limits, n, 0) : ~(i > n) /\ ~(i > n + 1)
  BY <1>2 DEF Failed
<1> QED  BY <1>3, <1>4 DEF FailureKinds

\* A line that fails is one failure more.
LEMMA SettleFailed ==
    ASSUME NEW lines, NEW limits, NEW n \in Nat, AnswerTo(lines[n + 1], limits, TRUE) \subseteq ErrorKinds,
           NEW kind \in AnswerTo(lines[n + 1], limits, TRUE)
    PROVE  OneMore(FailureKinds(lines, limits, n, 0), FailureKinds(lines, limits, n + 1, 0), n + 1, kind)
<1>1. \A i : i \in 1..(n + 1) <=> i \in 1..n \/ i = n + 1
  OBVIOUS
<1>2. 1..0 = {}
  OBVIOUS
<1>3. Failed(lines, limits, n + 1, 0) = Failed(lines, limits, n, 0) \union {n + 1}
  BY <1>1, <1>2 DEF Failed
<1>4. \A i \in Failed(lines, limits, n, 0) : i < n + 1 /\ ~(i > n) /\ ~(i > n + 1)
  BY <1>2 DEF Failed
<1>5. ~(n + 1 > n + 1)
  OBVIOUS
<1> QED  BY <1>3, <1>4, <1>5 DEF FailureKinds, OneMore

\* A line that could not be read is one failure more.
LEMMA SettleUnread ==
    ASSUME NEW lines, NEW limits, NEW n \in Nat
    PROVE  OneMore(FailureKinds(lines, limits, n, 0), FailureKinds(lines, limits, n, 1), n + 1, "io_read")
<1>1. 1..0 = {} /\ {n + 1 : k \in 1..1} = {n + 1}
  OBVIOUS
<1>2. Failed(lines, limits, n, 1) = Failed(lines, limits, n, 0) \union {n + 1}
  BY <1>1 DEF Failed
<1>3. \A i \in Failed(lines, limits, n, 0) : i < n + 1 /\ ~(i > n)
  BY <1>1 DEF Failed
<1>4. n + 1 > n
  OBVIOUS
<1> QED  BY <1>2, <1>3, <1>4 DEF FailureKinds, OneMore

-----------------------------------------------------------------------------
(* The accounts of a run.                                                   *)

\* The last line that is not at work.
Settled == IF pc = "flatten" THEN line_number - 1 ELSE line_number

Failures == FailureKinds(input, options, Settled, errors["io_read"])

Accounts ==
    /\ errors["io_read"] \in {0, 1}
    /\ errors["io_read"] = 1 => pc \in {"eval", "report", "done"}
    /\ Sampled(Failures, samples, args.max_error_samples)
    /\ totals.failed = Cardinality(DOMAIN Failures)
    /\ totals.failed = ErrorTotal
    /\ totals.total + errors["io_read"] =
         totals.ok + totals.failed + (IF pc = "flatten" THEN 1 ELSE 0)

\* A failure of one kind is one failure more.
LEMMA CountedOnce ==
    ASSUME errors \in [ErrorKinds -> Nat], NEW kind \in ErrorKinds,
           errors' = [errors EXCEPT ![kind] = @ + 1]
    PROVE  /\ ErrorTotal' = ErrorTotal + 1
           /\ kind # "io_read" => errors'["io_read"] = errors["io_read"]
           /\ kind = "io_read" => errors'["io_read"] = errors["io_read"] + 1
<1>1. /\ "io_read" \in ErrorKinds /\ "line_too_large" \in ErrorKinds /\ "json_parse" \in ErrorKinds
      /\ "not_object" \in ErrorKinds /\ "depth" \in ErrorKinds /\ "fields" \in ErrorKinds
      /\ kind \in {"io_read", "line_too_large", "json_parse", "not_object", "depth", "fields"}
  BY DEF ErrorKinds, FlattenErrors
<1>2. \A k \in ErrorKinds : errors'[k] = (IF k = kind THEN errors[k] + 1 ELSE errors[k]) /\ errors[k] \in Nat
  OBVIOUS
<1> QED  BY <1>1, <1>2 DEF ErrorTotal

\* A failure of one kind, of the line after those that are settled.
LEMMA FailEventAccounts ==
    ASSUME IInv, Accounts, NEW line \in Nat \ {0}, NEW kind \in ErrorKinds, NEW counted, NEW next,
           FailEvent(line, kind, counted, next),
           UNCHANGED <<input, args, options>>,
           OneMore(Failures, Failures', line, kind)
    PROVE  /\ Sampled(Failures, samples, args.max_error_samples)'
           /\ totals'.failed = Cardinality(DOMAIN Failures') /\ totals'.failed = ErrorTotal'
           /\ totals'.failed = totals.failed + 1 /\ totals'.ok = totals.ok
           /\ totals'.total = totals.total + counted
           /\ kind # "io_read" => errors'["io_read"] = errors["io_read"]
           /\ kind = "io_read" => errors'["io_read"] = errors["io_read"] + 1
<1>1. /\ errors' = [errors EXCEPT ![kind] = @ + 1] /\ errors \in [ErrorKinds -> Nat]
      /\ totals'.failed = totals.failed + 1 /\ totals'.ok = totals.ok
      /\ totals'.total = totals.total + counted
      /\ samples' = IF Len(samples) < args.max_error_samples
                    THEN Append(samples, <<line, kind>>) ELSE samples
  BY DEF FailEvent, EmitSample, IInv, RunnerTypeOK
<1>2. args.max_error_samples \in Nat
  BY InputType DEF IInv, CommandLines
<1>3. Sampled(Failures, samples, args.max_error_samples)
  BY DEF Accounts
<1> DEFINE kinds == Failures
           more == Failures'
           max == args.max_error_samples
<1>4. /\ Sampled(kinds, samples, max) /\ max \in Nat
      /\ OneMore(kinds, more, line, kind) /\ samples' = Longer(samples, max, line, kind)
  BY <1>1, <1>2, <1>3 DEF Longer
<1> HIDE DEF kinds, more, max
<1>5. Sampled(more, samples', max) /\ Cardinality(DOMAIN more) = Cardinality(DOMAIN kinds) + 1
  BY <1>4, OneMoreFailure
<1>6. Sampled(Failures, samples, args.max_error_samples)'
  BY <1>5 DEF more, max
<1>7. totals'.failed = Cardinality(DOMAIN Failures') /\ totals'.failed = ErrorTotal'
  BY <1>1, <1>5, CountedOnce DEF more, kinds, Accounts
<1> QED  BY <1>1, <1>6, <1>7, CountedOnce

-----------------------------------------------------------------------------
(* Steps that neither settle a line nor fail.                               *)
LEMMA IdleAccounts ==
    ASSUME Accounts,
           UNCHANGED <<input, args, options, errors, samples>>,
           Settled' = Settled \/ Failures' = Failures,
           totals'.failed = totals.failed,
           totals'.total + errors'["io_read"] =
             totals'.ok + totals'.failed + (IF pc' = "flatten" THEN 1 ELSE 0),
           errors["io_read"] = 1 => pc' \in {"eval", "report", "done"}
    PROVE  Accounts'
<1>1. Failures' = Failures
  BY DEF Failures
<1>2. Sampled(Failures, samples, args.max_error_samples)'
  BY <1>1 DEF Accounts
<1>3. ErrorTotal' = ErrorTotal
  BY DEF ErrorTotal
<1> QED  BY <1>1, <1>2, <1>3 DEF Accounts

\* The counters are numbers.
LEMMA TotalsType ==
    ASSUME RunnerTypeOK
    PROVE  /\ totals.total \in Nat /\ totals.ok \in Nat /\ totals.failed \in Nat
           /\ totals = [total |-> totals.total, ok |-> totals.ok, failed |-> totals.failed]
BY DEF RunnerTypeOK

\* Every step keeps the accounts: a line is settled with what is reported for it.
LEMMA NextKeepsAccounts ==
    ASSUME IInv, Accounts, [Next]_vars
    PROVE  Accounts'
<1>0. /\ totals.total \in Nat /\ totals.ok \in Nat /\ totals.failed \in Nat
      /\ totals = [total |-> totals.total, ok |-> totals.ok, failed |-> totals.failed]
      /\ Len(input) \in Nat /\ line_number \in Nat /\ errors["io_read"] \in {0, 1}
      /\ \A i \in 1..Len(input) : input[i] \in Lines /\ input[i].doc \in JsonValues
  BY TotalsType, InputType DEF IInv, Accounts
<1>1. CASE LoadRules
  <2>1. UNCHANGED <<input, args, options, errors, samples, totals, line_number>>
        /\ pc = "load" /\ pc' # "flatten"
    BY <1>1 DEF LoadRules, ExitWith, flattening
  <2>2. Settled' = Settled /\ errors["io_read"] # 1
    BY <2>1 DEF Settled, Accounts
  <2> QED  BY <1>0, <2>1, <2>2, IdleAccounts DEF Accounts
<1>2. CASE ReadFailure
  <2>1. /\ FailEvent(line_number + 1, "io_read", 0, "eval") /\ pc = "read"
        /\ UNCHANGED <<input, args, options, line_number>>
    BY <1>2 DEF ReadFailure, flattening
  <2>2. errors["io_read"] = 0 /\ pc' \in {"eval", "done"} /\ Settled = line_number /\ Settled' = line_number
    BY <1>0, <2>1 DEF Accounts, FailEvent, ExitWith, Settled
  <2>3. "io_read" \in ErrorKinds /\ line_number + 1 \in Nat \ {0}
    BY <1>0 DEF ErrorKinds
  <2>4. errors'["io_read"] = 1
    <3>1. errors \in [ErrorKinds -> Nat] /\ errors' = [errors EXCEPT !["io_read"] = @ + 1]
      BY <2>1 DEF FailEvent, IInv, RunnerTypeOK
    <3> QED  BY <2>2, <2>3, <3>1, CountedOnce
  <2>5. OneMore(Failures, Failures', line_number + 1, "io_read")
    BY <1>0, <2>1, <2>2, <2>4, SettleUnread DEF Failures
  <2>6. /\ Sampled(Failures, samples, args.max_error_samples)'
        /\ totals'.failed = Cardinality(DOMAIN Failures') /\ totals'.failed = ErrorTotal'
        /\ totals'.failed = totals.failed + 1 /\ totals'.ok = totals.ok
        /\ totals'.total = totals.total + 0
    BY <2>1, <2>3, <2>5, FailEventAccounts
  <2>7. totals'.total + errors'["io_read"] =
          totals'.ok + totals'.failed + (IF pc' = "flatten" THEN 1 ELSE 0)
    BY <1>0, <2>1, <2>2, <2>4, <2>6 DEF Accounts
  <2> QED  BY <2>2, <2>4, <2>6, <2>7 DEF Accounts
<1>3. CASE ReadEof
  <2>1. UNCHANGED <<input, args, options, errors, samples, totals, line_number>>
        /\ pc = "read" /\ pc' = "eval"
    BY <1>3 DEF ReadEof, flattening
  <2>2. Settled' = Settled
    BY <2>1 DEF Settled
  <2> QED  BY <1>0, <2>1, <2>2, IdleAccounts DEF Accounts
<1>4. CASE ReadLine
  <2>1. /\ pc = "read" /\ line_number' = line_number + 1 /\ UNCHANGED <<input, args, options>>
        /\ errors["io_read"] = 0 /\ Settled = line_number
    <3>1. options' = options
      BY <1>4 DEF ReadLine, Begin, flattening
    <3> QED  BY <1>0, <1>4, <3>1 DEF ReadLine, Accounts, Settled
  <2>2. line_number + 1 \in Nat \ {0}
    BY <1>0
  <2>3. Failures = FailureKinds(input, options, line_number, 0)
    BY <2>1 DEF Failures
  <2>4. CASE Line.kind = "blank"
    <3>1. UNCHANGED <<pc, totals, errors, samples>>
      BY <1>4, <2>4 DEF ReadLine
    <3>2. ~(AnswerTo(input[line_number + 1], options, TRUE) \subseteq ErrorKinds)
      <4>1. AnswerTo(input[line_number + 1], options, TRUE) = {"skipped"}
        BY <2>4 DEF AnswerTo, Line
      <4> QED  BY <4>1, NotErrors
    <3>3. Settled' = line_number + 1
      BY <2>1, <3>1 DEF Settled
    <3>4. Failures' = FailureKinds(input, options, line_number + 1, 0)
      BY <2>1, <3>1, <3>3 DEF Failures
    <3>5. Failures' = Failures
      BY <1>0, <2>3, <3>2, <3>4, SettleGood
    <3> QED  BY <2>1, <3>1, <3>5, IdleAccounts DEF Accounts
  <2>5. ASSUME NEW kind \in {"line_too_large", "json_parse"},
               FailEvent(line_number + 1, kind, 1, "read"),
               AnswerTo(input[line_number + 1], options, TRUE) = {kind}
        PROVE  Accounts'
    <3>1. kind \in ErrorKinds /\ kind # "io_read" /\ kind \in AnswerTo(input[line_number + 1], options, TRUE)
          /\ AnswerTo(input[line_number + 1], options, TRUE) \subseteq ErrorKinds
      BY <2>5 DEF ErrorKinds
    <3>2. pc' \in {"read", "done"}
      BY <2>5 DEF FailEvent, ExitWith
    <3>3. errors'["io_read"] = 0
      <4>1. errors \in [ErrorKinds -> Nat] /\ errors' = [errors EXCEPT ![kind] = @ + 1]
        BY <2>5 DEF FailEvent, IInv, RunnerTypeOK
      <4> QED  BY <2>1, <3>1, <4>1, CountedOnce
    <3>4. Failures' = FailureKinds(input, options, line_number + 1, 0)
      BY <2>1, <3>2, <3>3 DEF Failures, Settled
    <3>5. OneMore(Failures, Failures', line_number + 1, kind)
      BY <1>0, <2>3, <3>1, <3>4, SettleFailed
    <3>6. /\ Sampled(Failures, samples, args.max_error_samples)'
          /\ totals'.failed = Cardinality(DOMAIN Failures') /\ totals'.failed = ErrorTotal'
          /\ totals'.failed = totals.failed + 1 /\ totals'.ok = totals.ok
          /\ totals'.total = totals.total + 1
      BY <2>1, <2>2, <2>5, <3>1, <3>5, FailEventAccounts
    <3>7. totals'.total + errors'["io_read"] =
            totals'.ok + totals'.failed + (IF pc' = "flatten" THEN 1 ELSE 0)
      BY <1>0, <2>1, <3>2, <3>3, <3>6 DEF Accounts
    <3> QED  BY <3>2, <3>3, <3>6, <3>7 DEF Accounts
  <2>6. CASE Line.kind = "long"
    <3>1. FailEvent(line_number + 1, "line_too_large", 1, "read")
      BY <1>4, <2>6 DEF ReadLine
    <3>2. AnswerTo(input[line_number + 1], options, TRUE) = {"line_too_large"}
      BY <2>6 DEF AnswerTo, Line
    <3> QED  BY <2>5, <3>1, <3>2
  <2>7. CASE Line.kind = "bad_json"
    <3>1. FailEvent(line_number + 1, "json_parse", 1, "read")
      BY <1>4, <2>7 DEF ReadLine
    <3>2. AnswerTo(input[line_number + 1], options, TRUE) = {"json_parse"}
      BY <2>7 DEF AnswerTo, Line
    <3> QED  BY <2>5, <3>1, <3>2
  <2>8. CASE Line.kind = "doc"
    <3>1. /\ totals' = [totals EXCEPT !.total = @ + 1] /\ pc' = "flatten"
          /\ UNCHANGED <<errors, samples>>
      BY <1>4, <2>8 DEF ReadLine
    <3>2. /\ totals'.total = totals.total + 1 /\ totals'.ok = totals.ok
          /\ totals'.failed = totals.failed
      BY <1>0, <3>1
    <3>3. Settled' = Settled
      BY <1>0, <2>1, <3>1 DEF Settled
    <3>4. totals'.total + errors'["io_read"] =
            totals'.ok + totals'.failed + (IF pc' = "flatten" THEN 1 ELSE 0)
      BY <1>0, <2>1, <3>1, <3>2 DEF Accounts
    <3> QED  BY <2>1, <3>1, <3>2, <3>3, <3>4, IdleAccounts
  <2> QED  BY <1>4, <2>4, <2>6, <2>7, <2>8 DEF ReadLine
<1>5. CASE Flattening
  <2>1. UNCHANGED <<input, args, pc, line_number, totals, errors, samples>>
    BY <1>5 DEF Flattening, runner
  <2>2. options' = options
    BY <1>5 DEF Flattening, FlattenStep, TooDeep, VisitObject, VisitArray, VisitScalar,
           FlattenReturns, Reject, Insert, Descend
  <2>3. Settled' = Settled
    BY <2>1 DEF Settled
  <2> QED  BY <2>1, <2>2, <2>3, IdleAccounts DEF Accounts
<1>6. CASE Flattened
  <2>1. /\ pc = "flatten" /\ flat = "ok" /\ pc' = "read"
        /\ totals' = [totals EXCEPT !.ok = @ + 1]
        /\ UNCHANGED <<input, args, options, errors, samples, line_number>>
    BY <1>6 DEF Flattened, flattening
  <2>2. /\ totals'.total = totals.total /\ totals'.ok = totals.ok + 1
        /\ totals'.failed = totals.failed
    BY <1>0, <2>1
  <2>3. errors["io_read"] = 0 /\ line_number - 1 \in Nat /\ (line_number - 1) + 1 = line_number
        /\ Settled = line_number - 1 /\ Settled' = line_number
    BY <1>0, <2>1 DEF Accounts, IInv, LineProgress, Settled
  <2>4. ~(AnswerTo(input[line_number], options, TRUE) \subseteq ErrorKinds)
    <3>1. "ok" \in Answers(input[line_number].doc, options, TRUE) /\ input[line_number].kind = "doc"
      BY <2>1 DEF IInv, LineProgress, Progress
    <3>2. AnswerTo(input[line_number], options, TRUE) = Answers(input[line_number].doc, options, TRUE)
      BY <3>1 DEF AnswerTo
    <3> QED  BY <3>1, <3>2, NotErrors
  <2>5. Failures' = Failures
    <3>1. PICK n \in Nat : n = line_number - 1 /\ n + 1 = line_number
      BY <2>3
    <3>2. FailureKinds(input, options, n + 1, 0) = FailureKinds(input, options, n, 0)
      BY <2>4, <3>1, SettleGood
    <3> QED  BY <2>1, <2>3, <3>1, <3>2 DEF Failures
  <2>6. totals'.total + errors'["io_read"] =
          totals'.ok + totals'.failed + (IF pc' = "flatten" THEN 1 ELSE 0)
    BY <1>0, <2>1, <2>2, <2>3 DEF Accounts
  <2> QED  BY <2>1, <2>2, <2>3, <2>5, <2>6, IdleAccounts
<1>7. CASE NotFlattened
  <2>1. /\ pc = "flatten" /\ flat \in FlattenErrors /\ FailEvent(line_number, flat, 0, "read")
        /\ UNCHANGED <<input, args, options, line_number>>
    BY <1>7 DEF NotFlattened, flattening
  <2>2. errors["io_read"] = 0 /\ line_number - 1 \in Nat /\ (line_number - 1) + 1 = line_number
        /\ Settled = line_number - 1 /\ line_number \in Nat \ {0}
    BY <1>0, <2>1 DEF Accounts, IInv, LineProgress, Settled
  <2>3. flat \in ErrorKinds /\ flat # "io_read" /\ flat # "running" /\ flat # "ok"
    BY <2>1 DEF ErrorKinds, FlattenErrors
  <2>4. pc' \in {"read", "done"}
    BY <2>1 DEF FailEvent, ExitWith
  <2>5. /\ flat \in AnswerTo(input[line_number], options, TRUE)
        /\ AnswerTo(input[line_number], options, TRUE) \subseteq ErrorKinds
    <3>1. flat \in Answers(input[line_number].doc, options, TRUE) /\ input[line_number].kind = "doc"
      BY <2>1, <2>3 DEF IInv, LineProgress, Progress
    <3>2. AnswerTo(input[line_number], options, TRUE) = Answers(input[line_number].doc, options, TRUE)
      BY <3>1 DEF AnswerTo
    <3>3. Answers(input[line_number].doc, options, TRUE) # {"ok"}
      BY <2>3, <3>1
    <3> QED  BY <3>1, <3>2, <3>3, AnswersKinds
  <2>6. errors'["io_read"] = 0
    <3>1. errors \in [ErrorKinds -> Nat] /\ errors' = [errors EXCEPT ![flat] = @ + 1]
      BY <2>1 DEF FailEvent, IInv, RunnerTypeOK
    <3> QED  BY <2>2, <2>3, <3>1, CountedOnce
  <2>7. OneMore(Failures, Failures', line_number, flat)
    <3>1. PICK n \in Nat : n = line_number - 1 /\ n + 1 = line_number
      BY <2>2
    <3>2. Failures = FailureKinds(input, options, n, 0)
      BY <2>2, <3>1 DEF Failures
    <3>3. Failures' = FailureKinds(input, options, n + 1, 0)
      BY <2>1, <2>4, <2>6, <3>1 DEF Failures, Settled
    <3>4. OneMore(FailureKinds(input, options, n, 0), FailureKinds(input, options, n + 1, 0), n + 1, flat)
      BY <2>5, <3>1, SettleFailed
    <3> QED  BY <3>1, <3>2, <3>3, <3>4
  <2>8. /\ Sampled(Failures, samples, args.max_error_samples)'
        /\ totals'.failed = Cardinality(DOMAIN Failures') /\ totals'.failed = ErrorTotal'
        /\ totals'.failed = totals.failed + 1 /\ totals'.ok = totals.ok
        /\ totals'.total = totals.total + 0
    BY <2>1, <2>2, <2>3, <2>7, FailEventAccounts
  <2>9. totals'.total + errors'["io_read"] =
          totals'.ok + totals'.failed + (IF pc' = "flatten" THEN 1 ELSE 0)
    BY <1>0, <2>1, <2>2, <2>4, <2>6, <2>8 DEF Accounts
  <2> QED  BY <2>4, <2>6, <2>8, <2>9 DEF Accounts
<1>8. CASE \/ \E i \in waiting : EvaluateEvent(i)
           \/ Evaluated \/ Report \/ NoPool
  <2>1. UNCHANGED <<input, args, options, errors, samples, totals, line_number>>
        /\ pc # "flatten" /\ pc' \in {"eval", "report", "done"}
    BY <1>8 DEF EvaluateEvent, Evaluated, Report, NoPool, ExitWith, flattening
  <2>2. Settled' = Settled
    BY <2>1 DEF Settled
  <2> QED  BY <2>1, <2>2, IdleAccounts DEF Accounts
<1>9. CASE UNCHANGED vars
  <2>1. UNCHANGED <<input, args, options, errors, samples, totals, line_number, pc>>
    BY <1>9 DEF vars, flattening, runner
  <2>2. Settled' = Settled
    BY <2>1 DEF Settled
  <2> QED  BY <2>1, <2>2, IdleAccounts DEF Accounts
<1> QED
  BY <1>1, <1>2, <1>3, <1>4, <1>5, <1>6, <1>7, <1>8, <1>9
  DEF Next, Step, IoError, NotText, Finished

\* No line, no failure.
LEMMA InitAccounts ==
    ASSUME Init
    PROVE  Accounts
<1>1. /\ errors = [kind \in ErrorKinds |-> 0] /\ samples = << >> /\ pc = "load" /\ line_number = 0
      /\ totals = [total |-> 0, ok |-> 0, failed |-> 0] /\ args \in CommandLines
  BY ConfigsAssumption DEF Init
<1>2. /\ errors["io_read"] = 0 /\ ErrorTotal = 0
  BY <1>1 DEF ErrorKinds, FlattenErrors, ErrorTotal
<1>3. DOMAIN Failures = {}
  <2>1. 1..0 = {} /\ Settled = 0
    BY <1>1 DEF Settled
  <2> QED  BY <1>2, <2>1 DEF Failures, FailureKinds, Failed
<1>4. {} \in SUBSET Nat /\ IsFiniteSet({}) /\ Cardinality({}) = 0
  BY FS_EmptySet
<1>5. Min({0, args.max_error_samples}) = 0
  <2>1. args.max_error_samples \in Nat
    BY <1>1 DEF CommandLines
  <2> QED  BY <2>1, MinOfTwo
<1>6. Sampled(Failures, samples, args.max_error_samples)
  <2>1. << >> \in Seq((Nat \ {0}) \X ErrorKinds) /\ Len(<< >>) = 0 /\ DOMAIN << >> = {}
    OBVIOUS
  <2> QED  BY <1>1, <1>3, <1>4, <1>5, <2>1 DEF Sampled
<1> QED  BY <1>1, <1>2, <1>3, <1>4, <1>6 DEF Accounts

\* What is reported, with the answers that the code gives to documents that fill the event.
FailuresAsCoded ==
    pc # "flatten" =>
        /\ Len(samples) = Min({Cardinality(FailedLines(TRUE)), args.max_error_samples})
        /\ \A i \in DOMAIN samples :
             /\ samples[i][1] \in FailedLines(TRUE)
             /\ Cardinality(Earlier(FailedLines(TRUE), samples[i][1])) = i - 1
             /\ samples[i][2] \in IF samples[i][1] > line_number THEN {"io_read"}
                                 ELSE AnswerTo(input[samples[i][1]], options, TRUE)
        /\ totals.failed = Cardinality(FailedLines(TRUE))
        /\ totals.failed = ErrorTotal

(* For every file, pool and error mode, the samples on stderr are the first *)
(* failures of the file in order, each with its line and a kind that is     *)
(* right, and every failure is counted once, under one kind.                *)
THEOREM FailuresReported == Spec => []FailuresAreReported
<1>1. Init => Accounts
  BY InitAccounts
<1>2. IInv /\ Accounts /\ [Next]_vars => Accounts'
  BY NextKeepsAccounts
<1>3. IInv /\ Accounts => FailuresAsCoded
  <2> SUFFICES ASSUME IInv, Accounts, pc # "flatten"
               PROVE  /\ Len(samples) = Min({Cardinality(FailedLines(TRUE)), args.max_error_samples})
                      /\ \A i \in DOMAIN samples :
                           /\ samples[i][1] \in FailedLines(TRUE)
                           /\ Cardinality(Earlier(FailedLines(TRUE), samples[i][1])) = i - 1
                           /\ samples[i][2] \in IF samples[i][1] > line_number THEN {"io_read"}
                                              ELSE AnswerTo(input[samples[i][1]], options, TRUE)
                      /\ totals.failed = Cardinality(FailedLines(TRUE))
                      /\ totals.failed = ErrorTotal
    BY DEF FailuresAreReported, FailuresAsCoded
  <2>1. DOMAIN Failures = FailedLines(TRUE)
        /\ \A line \in FailedLines(TRUE) :
              Failures[line] = IF line > line_number THEN {"io_read"} ELSE AnswerTo(input[line], options, TRUE)
    BY DEF Failures, FailureKinds, Failed, FailedLines, Settled
  <2> QED  BY <2>1 DEF Accounts, Sampled
<1>4. FailuresAsCoded => FailuresAreReported
  BY DEF FailuresAsCoded, FailuresAreReported
<1> QED  BY <1>1, <1>2, <1>3, <1>4, Inductive, PTL DEF Spec

-----------------------------------------------------------------------------
(* Sums of the first terms of a sequence of numbers.                        *)
IsSum(f, n, term) == f[0] = 0 /\ \A k \in 1..n : f[k] = f[k - 1] + term[k]

SumOf(n, term) == CHOOSE f \in [0..n -> Nat] : IsSum(f, n, term)

\* Such sums exist.
LEMMA SumExists ==
    ASSUME NEW n \in Nat, NEW term \in [1..n -> Nat]
    PROVE  SumOf(n, term) \in [0..n -> Nat] /\ IsSum(SumOf(n, term), n, term)
<1> DEFINE step == [k \in 1..n |-> [m \in Nat |-> m + term[k]]]
<1>1. step \in [1..n -> [Nat -> Nat]]
  OBVIOUS
<1>2. \A k \in 1..n : \A m \in Nat : step[k][m] = m + term[k]
  OBVIOUS
<1> HIDE DEF step
<1>3. 0 \in Nat
  OBVIOUS
<1>4. PICK f \in [0..n -> Nat] : Follows(f, n, 0, step)
  BY <1>1, <1>3, Recursion
<1>5. IsSum(f, n, term)
  <2>1. ASSUME NEW k \in 1..n PROVE f[k] = f[k - 1] + term[k]
    <3>1. k - 1 \in 0..n
      OBVIOUS
    <3>2. f[k - 1] \in Nat
      BY <3>1
    <3> QED  BY <1>2, <1>4, <3>2 DEF Follows
  <2> QED  BY <1>4, <2>1 DEF Follows, IsSum
<1> QED  BY <1>5 DEF SumOf

\* One term more.
LEMMA SumMore ==
    ASSUME NEW n \in Nat, NEW term \in [1..n -> Nat], NEW more \in [1..(n + 1) -> Nat],
           \A k \in 1..n : more[k] = term[k]
    PROVE  SumOf(n + 1, more)[n + 1] = SumOf(n, term)[n] + more[n + 1]
<1> DEFINE f == SumOf(n, term)
           g == SumOf(n + 1, more)
           G == {k \in 0..n : g[k] = f[k]}
<1>1. /\ f \in [0..n -> Nat] /\ IsSum(f, n, term)
      /\ g \in [0..(n + 1) -> Nat] /\ IsSum(g, n + 1, more)
  <2>1. n + 1 \in Nat
    OBVIOUS
  <2> QED  BY <2>1, SumExists
<1> HIDE DEF f, g
<1>2. 0 \in G
  BY <1>1 DEF IsSum
<1>3. ASSUME NEW k \in 0..(n - 1), k \in G PROVE k + 1 \in G
  <2>1. k + 1 \in 1..n /\ k + 1 \in 1..(n + 1) /\ (k + 1) - 1 = k /\ k + 1 \in 0..n
    OBVIOUS
  <2>2. g[k + 1] = g[k] + more[k + 1] /\ f[k + 1] = f[k] + term[k + 1]
    BY <1>1, <2>1 DEF IsSum
  <2> QED  BY <1>3, <2>1, <2>2
<1>4. n \in G
  <2>1. n \in 0..n
    OBVIOUS
  <2> HIDE DEF G
  <2> QED  BY <1>2, <1>3, <2>1, Upwards
<1>5. n + 1 \in 1..(n + 1) /\ (n + 1) - 1 = n
  OBVIOUS
<1>6. g[n + 1] = g[n] + more[n + 1]
  BY <1>1, <1>5 DEF IsSum
<1> QED  BY <1>4, <1>6 DEF f, g

\* One term taken away.
LEMMA SumLess ==
    ASSUME NEW n \in Nat, NEW term \in [1..n -> Nat], NEW less \in [1..n -> Nat], NEW i \in 1..n,
           less[i] = 0, \A k \in 1..n : k # i => less[k] = term[k]
    PROVE  SumOf(n, term)[n] = SumOf(n, less)[n] + term[i]
<1> DEFINE f == SumOf(n, term)
           g == SumOf(n, less)
           G == {k \in 0..n : f[k] = g[k] + IF k >= i THEN term[i] ELSE 0}
<1>1. /\ f \in [0..n -> Nat] /\ IsSum(f, n, term)
      /\ g \in [0..n -> Nat] /\ IsSum(g, n, less)
  BY SumExists
<1> HIDE DEF f, g
<1>2. 0 \in G
  BY <1>1 DEF IsSum
<1>3. ASSUME NEW k \in 0..(n - 1), k \in G PROVE k + 1 \in G
  <2>1. k + 1 \in 1..n /\ (k + 1) - 1 = k /\ k + 1 \in 0..n /\ k \in 0..n
    OBVIOUS
  <2>2. f[k + 1] = f[k] + term[k + 1] /\ g[k + 1] = g[k] + less[k + 1]
    BY <1>1, <2>1 DEF IsSum
  <2>3. /\ f[k] = g[k] + (IF k >= i THEN term[i] ELSE 0)
        /\ f[k] \in Nat /\ g[k] \in Nat /\ term[k + 1] \in Nat /\ less[k + 1] \in Nat /\ term[i] \in Nat
    BY <1>1, <1>3, <2>1
  <2>4. CASE k + 1 = i
    <3>1. ~(k >= i) /\ k + 1 >= i /\ less[k + 1] = 0 /\ term[k + 1] = term[i]
      BY <2>4
    <3> QED  BY <2>1, <2>2, <2>3, <3>1
  <2>5. CASE k + 1 # i
    <3>1. less[k + 1] = term[k + 1] /\ (k >= i <=> k + 1 >= i)
      BY <2>1, <2>5
    <3> QED  BY <2>1, <2>2, <2>3, <3>1
  <2> QED  BY <2>4, <2>5
<1>4. n \in G
  <2>1. n \in 0..n
    OBVIOUS
  <2> HIDE DEF G
  <2> QED  BY <1>2, <1>3, <2>1, Upwards
<1>5. n >= i
  OBVIOUS
<1> QED  BY <1>4, <1>5 DEF f, g

\* A sum of zeros.
LEMMA SumZero ==
    ASSUME NEW n \in Nat, NEW term \in [1..n -> Nat], \A k \in 1..n : term[k] = 0
    PROVE  SumOf(n, term)[n] = 0
<1> DEFINE f == SumOf(n, term)
           G == {k \in 0..n : f[k] = 0}
<1>1. f \in [0..n -> Nat] /\ IsSum(f, n, term)
  BY SumExists
<1> HIDE DEF f
<1>2. 0 \in G
  BY <1>1 DEF IsSum
<1>3. ASSUME NEW k \in 0..(n - 1), k \in G PROVE k + 1 \in G
  <2>1. k + 1 \in 1..n /\ (k + 1) - 1 = k /\ k + 1 \in 0..n
    OBVIOUS
  <2>2. f[k + 1] = f[k] + term[k + 1]
    BY <1>1, <2>1 DEF IsSum
  <2> QED  BY <1>3, <2>1, <2>2
<1>4. n \in G
  <2>1. n \in 0..n
    OBVIOUS
  <2> HIDE DEF G
  <2> QED  BY <1>2, <1>3, <2>1, Upwards
<1> QED  BY <1>4 DEF f

-----------------------------------------------------------------------------
(* The matches of some of the events.                                       *)
Worth(evs, some) == [k \in 1..Len(evs) |-> IF k \in some THEN EvaluateEventCount(evs[k]) ELSE 0]

Total(evs, some) == SumOf(Len(evs), Worth(evs, some))[Len(evs)]

\* The worth of events, and their sum, are numbers.
LEMMA WorthType ==
    ASSUME NEW evs \in Seq(FlatEvents), NEW some
    PROVE  /\ Len(evs) \in Nat /\ DOMAIN evs = 1..Len(evs)
           /\ Worth(evs, some) \in [1..Len(evs) -> Nat] /\ Total(evs, some) \in Nat
<1>1. Len(evs) \in Nat /\ DOMAIN evs = 1..Len(evs)
  BY LenProperties
<1>2. Worth(evs, some) \in [1..Len(evs) -> Nat]
  BY CountType DEF Worth
<1>3. SumOf(Len(evs), Worth(evs, some)) \in [0..Len(evs) -> Nat]
  BY <1>1, <1>2, SumExists
<1>4. Len(evs) \in 0..Len(evs)
  BY <1>1
<1> QED  BY <1>1, <1>2, <1>3, <1>4 DEF Total

\* One event more adds its matches.
LEMMA TotalAppend ==
    ASSUME NEW evs \in Seq(FlatEvents), NEW e \in FlatEvents
    PROVE  Total(Append(evs, e), DOMAIN Append(evs, e)) = Total(evs, DOMAIN evs) + EvaluateEventCount(e)
<1> DEFINE n == Len(evs)
           evs2 == Append(evs, e)
<1>1. /\ evs2 \in Seq(FlatEvents) /\ Len(evs2) = n + 1 /\ evs2[n + 1] = e
      /\ \A k \in 1..n : evs2[k] = evs[k]
  BY AppendProperties
<1> HIDE DEF evs2
<1>2. /\ n \in Nat /\ DOMAIN evs = 1..n /\ Worth(evs, DOMAIN evs) \in [1..n -> Nat]
      /\ DOMAIN evs2 = 1..(n + 1) /\ Worth(evs2, DOMAIN evs2) \in [1..(n + 1) -> Nat]
  BY <1>1, WorthType
<1> DEFINE term == Worth(evs, DOMAIN evs)
           more == Worth(evs2, DOMAIN evs2)
<1>3. \A k \in 1..n : more[k] = term[k]
  <2> TAKE k \in 1..n
  <2>1. k \in 1..(n + 1)
    BY <1>2
  <2> QED  BY <1>1, <1>2, <2>1 DEF Worth
<1>4. more[n + 1] = EvaluateEventCount(e)
  <2>1. n + 1 \in 1..(n + 1)
    BY <1>2
  <2> QED  BY <1>1, <1>2, <2>1 DEF Worth
<1>5. Total(evs2, DOMAIN evs2) = SumOf(n + 1, more)[n + 1] /\ Total(evs, DOMAIN evs) = SumOf(n, term)[n]
  BY <1>1 DEF Total
<1>6. term \in [1..n -> Nat] /\ more \in [1..(n + 1) -> Nat]
  BY <1>2
<1> HIDE DEF term, more, n
<1>7. SumOf(n + 1, more)[n + 1] = SumOf(n, term)[n] + more[n + 1]
  BY <1>2, <1>3, <1>6, SumMore
<1> QED  BY <1>4, <1>5, <1>7 DEF evs2

\* An event evaluated takes its matches out of what is waiting.
LEMMA TotalRemove ==
    ASSUME NEW evs \in Seq(FlatEvents), NEW some \in SUBSET DOMAIN evs, NEW i \in some
    PROVE  Total(evs, some) = Total(evs, some \ {i}) + EvaluateEventCount(evs[i])
<1> DEFINE n == Len(evs)
           term == Worth(evs, some)
           less == Worth(evs, some \ {i})
<1>1. n \in Nat /\ i \in 1..n /\ term \in [1..n -> Nat] /\ less \in [1..n -> Nat]
  BY WorthType
<1>2. term[i] = EvaluateEventCount(evs[i]) /\ less[i] = 0 /\ \A k \in 1..n : k # i => less[k] = term[k]
  BY <1>1 DEF Worth
<1>3. Total(evs, some) = SumOf(n, term)[n] /\ Total(evs, some \ {i}) = SumOf(n, less)[n]
  BY DEF Total
<1> HIDE DEF n, term, less
<1>4. SumOf(n, term)[n] = SumOf(n, less)[n] + term[i]
  BY <1>1, <1>2, SumLess
<1> QED  BY <1>2, <1>3, <1>4

\* No event waiting, no match to come.
LEMMA TotalEmpty ==
    ASSUME NEW evs \in Seq(FlatEvents)
    PROVE  Total(evs, {}) = 0
<1> DEFINE n == Len(evs)
           term == Worth(evs, {})
<1>1. n \in Nat /\ term \in [1..n -> Nat]
  BY WorthType
<1>2. \A k \in 1..n : term[k] = 0
  BY DEF Worth
<1>3. Total(evs, {}) = SumOf(n, term)[n]
  BY DEF Total
<1> HIDE DEF n, term
<1> QED  BY <1>1, <1>2, <1>3, SumZero

-----------------------------------------------------------------------------
(* The matches declared for the first lines.                                *)
GoodEvent(line, limits) == AnswerTo(line, limits, TRUE) = {"ok"}

CodedMatches(lines, limits) == DeclaredMatches(lines, limits, TRUE)

DeclaredOf(line, limits) == IF GoodEvent(line, limits) THEN DeclaredCount(line) ELSE 0

\* The matches declared are a sum over the lines.
LEMMA DeclaredUnfolds ==
    ASSUME NEW lines \in Seq(Lines), NEW limits
    PROVE  LET D == CodedMatches(lines, limits)
           IN /\ D[0] = 0
              /\ \A k \in 1..Len(lines) : D[k] = D[k - 1] + DeclaredOf(lines[k], limits)
              /\ \A k \in 0..Len(lines) : D[k] \in Nat
<1> DEFINE n == Len(lines)
           term == [k \in 1..n |-> DeclaredOf(lines[k], limits)]
           IsTotal(f) == f = [k \in 0..n |->
                               IF k = 0 THEN 0
                               ELSE IF GoodEvent(lines[k], limits)
                                    THEN f[k - 1] + DeclaredCount(lines[k])
                               ELSE f[k - 1]]
           D == CHOOSE f : IsTotal(f)
<1>1. n \in Nat /\ term \in [1..n -> Nat]
  <2>1. n \in Nat
    BY LenProperties
  <2> HIDE DEF n
  <2> QED  BY <2>1, CountType DEF DeclaredOf, DeclaredCount
<1>2. \A k \in 1..n : term[k] = DeclaredOf(lines[k], limits) /\ term[k] \in Nat
  BY <1>1
<1> HIDE DEF term
<1>3. SumOf(n, term) \in [0..n -> Nat] /\ IsSum(SumOf(n, term), n, term)
  BY <1>1, SumExists
<1> DEFINE f == SumOf(n, term)
<1>4. f \in [0..n -> Nat] /\ f[0] = 0 /\ \A k \in 1..n : f[k] = f[k - 1] + DeclaredOf(lines[k], limits)
  BY <1>2, <1>3 DEF IsSum
<1> HIDE DEF f
<1>5. IsTotal(f)
  <2>1. ASSUME NEW k \in 1..n
        PROVE  f[k] = IF GoodEvent(lines[k], limits)
                      THEN f[k - 1] + DeclaredCount(lines[k]) ELSE f[k - 1]
    <3>1. k - 1 \in 0..n
      BY <1>1
    <3>2. f[k - 1] \in Nat
      BY <1>4, <3>1
    <3>3. f[k - 1] + 0 = f[k - 1]
      BY <3>2
    <3>4. f[k] = f[k - 1] + DeclaredOf(lines[k], limits)
      BY <1>4
    <3> QED  BY <3>3, <3>4, Zenon DEF DeclaredOf
  <2>2. \A k \in 0..n : k = 0 \/ (k \in 1..n /\ k # 0)
    BY <1>1
  <2> HIDE DEF n
  <2> QED  BY <1>4, <2>1, <2>2
<1>6. IsTotal(D)
  <2> HIDE DEF IsTotal
  <2> QED  BY <1>5
<1>7. CodedMatches(lines, limits) = D
  BY DEF CodedMatches, DeclaredMatches, GoodEvent
<1> HIDE DEF D
<1>8. /\ D[0] = 0
      /\ \A k \in 1..n : D[k] = IF GoodEvent(lines[k], limits)
                                THEN D[k - 1] + DeclaredCount(lines[k]) ELSE D[k - 1]
  <2>1. 0 \in 0..n /\ \A k \in 1..n : k \in 0..n /\ k # 0
    BY <1>1
  <2> HIDE DEF n
  <2> QED  BY <1>6, <2>1
<1> DEFINE G == {k \in 0..n : D[k] \in Nat}
<1>9. 0 \in G
  BY <1>1, <1>8
<1>10. ASSUME NEW k \in 0..(n - 1), k \in G PROVE k + 1 \in G
  <2>1. k + 1 \in 1..n /\ k + 1 \in 0..n /\ (k + 1) - 1 = k
    BY <1>1
  <2>2. DeclaredCount(lines[k + 1]) \in Nat
    BY CountType DEF DeclaredCount
  <2>3. D[k + 1] = IF GoodEvent(lines[k + 1], limits)
                   THEN D[k] + DeclaredCount(lines[k + 1]) ELSE D[k]
    BY <1>8, <2>1
  <2> HIDE DEF n
  <2> QED  BY <1>10, <2>1, <2>2, <2>3
<1>11. 0..n \subseteq G
  <2> HIDE DEF G, n
  <2> QED  BY <1>1, <1>9, <1>10, Upwards
<1>12. ASSUME NEW k \in 1..n PROVE D[k] = D[k - 1] + DeclaredOf(lines[k], limits)
  <2>1. k - 1 \in 0..n
    BY <1>1
  <2>2. D[k - 1] \in Nat
    BY <1>11, <2>1
  <2>3. D[k - 1] + 0 = D[k - 1]
    BY <2>2
  <2> QED  BY <1>8, <2>3, Zenon DEF DeclaredOf
<1> QED  BY <1>7, <1>8, <1>11, <1>12

-----------------------------------------------------------------------------
\* What is printed, with the answers that the code gives to documents that fill the event.
CountAsCoded ==
    stdout # << >> =>
        /\ exit = "success"
        /\ line_number = Len(input)
        /\ stdout = <<CodedMatches(input, options)[Len(input)]>>

(* The sum so far and what is still to come make what the lines read declare. *)
Sums ==
    /\ pc \in {"load", "read", "flatten"} =>
         /\ matches = 0
         /\ Total(events, DOMAIN events) = CodedMatches(input, options)[Settled]
    /\ pc \in {"eval", "report"} =>
         /\ matches + Total(events, waiting) = CodedMatches(input, options)[line_number]
         /\ errors["io_read"] = 0 => line_number = Len(input)
    /\ pc = "report" => waiting = {}
    /\ stdout # << >> => pc = "done"
    /\ CountAsCoded

\* The same for the file of a run.
LEMMA DeclaredAt ==
    ASSUME IInv
    PROVE  LET D == CodedMatches(input, options)
           IN /\ D[0] = 0
              /\ \A k \in 1..Len(input) : D[k] = D[k - 1] + DeclaredOf(input[k], options)
              /\ \A k \in 0..Len(input) : D[k] \in Nat
BY InputType, DeclaredUnfolds DEF IInv

\* A line that is not a good event adds nothing.
LEMMA SettledNothing ==
    ASSUME IInv, NEW n \in Nat, n + 1 \in 1..Len(input),
           ~GoodEvent(input[n + 1], options)
    PROVE  CodedMatches(input, options)[n + 1] = CodedMatches(input, options)[n]
<1> DEFINE D == CodedMatches(input, options)
<1>1. Len(input) \in Nat
  BY InputType DEF IInv
<1>2. D[n + 1] = D[(n + 1) - 1] + DeclaredOf(input[n + 1], options) /\ D[n] \in Nat
  <2>1. n \in 0..Len(input)
    BY <1>1
  <2> QED  BY <2>1, DeclaredAt
<1> HIDE DEF D
<1>3. DeclaredOf(input[n + 1], options) = 0
  BY DEF DeclaredOf
<1> QED  BY <1>2, <1>3 DEF D

\* Steps that leave the sum alone.
LEMMA IdleSums ==
    ASSUME Sums, pc \in {"load", "read", "flatten"}, pc' \in {"load", "read", "flatten", "done"},
           UNCHANGED <<input, options, events, matches, stdout>>,
           pc' # "done" => CodedMatches(input, options)[Settled'] = CodedMatches(input, options)[Settled]
    PROVE  Sums'
<1>1. stdout' = << >>
  BY DEF Sums
<1> QED  BY <1>1 DEF Sums, CountAsCoded

(* Every step keeps the sum: an event read adds what its line declares, an  *)
(* event evaluated moves its matches from what is waiting to what is        *)
(* counted.                                                                 *)
LEMMA NextKeepsSums ==
    ASSUME IInv, Accounts, Sums, [Next]_vars
    PROVE  Sums'
<1> DEFINE D == CodedMatches(input, options)
<1>0. /\ Len(input) \in Nat /\ line_number \in Nat /\ line_number \in 0..Len(input)
      /\ errors["io_read"] \in {0, 1} /\ matches \in Nat
      /\ events \in Seq(FlatEvents) /\ waiting \in SUBSET DOMAIN events
  BY InputType DEF IInv, RunnerTypeOK, Accounts
<1>1. CASE LoadRules
  <2>1. UNCHANGED <<input, options, events, matches, stdout, line_number>> /\ pc = "load"
        /\ pc' \in {"read", "done"}
    BY <1>1 DEF LoadRules, ExitWith, flattening
  <2>2. Settled' = Settled
    BY <2>1 DEF Settled
  <2> QED  BY <2>1, <2>2, IdleSums
<1>2. CASE ReadFailure
  <2>1. /\ FailEvent(line_number + 1, "io_read", 0, "eval") /\ pc = "read"
        /\ waiting' = DOMAIN events
        /\ UNCHANGED <<input, options, events, matches, stdout, line_number>>
    BY <1>2 DEF ReadFailure, AllEvents, flattening
  <2>2. pc' \in {"eval", "done"} /\ errors["io_read"] = 0 /\ Settled = line_number
    BY <1>0, <2>1 DEF FailEvent, ExitWith, Accounts, Settled
  <2>3. errors'["io_read"] = 1
    <3>1. errors \in [ErrorKinds -> Nat] /\ errors' = [errors EXCEPT !["io_read"] = @ + 1]
      BY <2>1 DEF FailEvent, IInv, RunnerTypeOK
    <3> QED  BY <2>2, <3>1 DEF ErrorKinds
  <2>4. matches = 0 /\ Total(events, DOMAIN events) = D[line_number] /\ stdout = << >>
    BY <2>1, <2>2 DEF Sums
  <2>5. matches' + Total(events', waiting') = CodedMatches(input', options')[line_number']
    <3>1. Total(events, DOMAIN events) \in Nat
      BY <1>0, WorthType
    <3>2. matches + Total(events, DOMAIN events) = D[line_number]
      BY <2>4, <3>1
    <3> QED  BY <2>1, <3>2
  <2> QED  BY <2>1, <2>2, <2>3, <2>4, <2>5 DEF Sums, CountAsCoded
<1>3. CASE ReadEof
  <2>1. /\ pc = "read" /\ pc' = "eval" /\ ~HasLine /\ waiting' = DOMAIN events
        /\ UNCHANGED <<input, options, events, matches, stdout, line_number, errors>>
    BY <1>3 DEF ReadEof, AllEvents, flattening
  <2>2. line_number = Len(input) /\ Settled = line_number
    BY <1>0, <2>1 DEF HasLine, Settled
  <2>3. matches = 0 /\ Total(events, DOMAIN events) = D[line_number] /\ stdout = << >>
    BY <2>1, <2>2 DEF Sums
  <2>4. matches' + Total(events', waiting') = CodedMatches(input', options')[line_number']
    <3>1. Total(events, DOMAIN events) \in Nat
      BY <1>0, WorthType
    <3>2. matches + Total(events, DOMAIN events) = D[line_number]
      BY <2>3, <3>1
    <3> QED  BY <2>1, <3>2
  <2> QED  BY <2>1, <2>2, <2>3, <2>4 DEF Sums, CountAsCoded
<1>4. CASE ReadLine
  <2>1. /\ pc = "read" /\ line_number' = line_number + 1 /\ line_number + 1 \in 1..Len(input)
        /\ UNCHANGED <<input, options, events, matches, stdout>> /\ Settled = line_number
    <3>1. options' = options
      BY <1>4 DEF ReadLine, Begin, flattening
    <3> QED  BY <1>0, <1>4, <3>1 DEF ReadLine, HasLine, Settled
  <2>2. CASE pc' = "flatten"
    <3>1. Settled' = Settled
      BY <1>0, <2>1, <2>2 DEF Settled
    <3> QED  BY <2>1, <2>2, <3>1, IdleSums
  <2>3. CASE pc' # "flatten"
    <3>1. pc' \in {"read", "done"} /\ Line.kind \in {"blank", "long", "bad_json"}
      BY <1>4, <2>1, <2>3 DEF ReadLine, FailEvent, ExitWith
    <3>2. ~GoodEvent(input[line_number + 1], options)
      <4>1. AnswerTo(input[line_number + 1], options, TRUE) \in {{"skipped"}, {"line_too_large"}, {"json_parse"}}
        BY <3>1 DEF AnswerTo, Line
      <4> QED  BY <4>1 DEF GoodEvent
    <3>3. Settled' = line_number + 1
      BY <2>1, <3>1 DEF Settled
    <3>4. D[Settled'] = D[Settled]
      BY <1>0, <2>1, <3>2, <3>3, SettledNothing
    <3> QED  BY <2>1, <3>1, <3>4, IdleSums
  <2> QED  BY <2>2, <2>3
<1>5. CASE Flattening
  <2>1. UNCHANGED <<input, events, pc, line_number, matches, stdout>> /\ pc = "flatten"
    BY <1>5 DEF Flattening, runner
  <2>2. options' = options
    BY <1>5 DEF Flattening, FlattenStep, TooDeep, VisitObject, VisitArray, VisitScalar,
           FlattenReturns, Reject, Insert, Descend
  <2>3. Settled' = Settled
    BY <2>1 DEF Settled
  <2> QED  BY <2>1, <2>2, <2>3, IdleSums
<1>6. CASE Flattened
  <2>1. /\ pc = "flatten" /\ flat = "ok" /\ pc' = "read" /\ events' = Append(events, event)
        /\ UNCHANGED <<input, options, line_number, matches, stdout>>
    BY <1>6 DEF Flattened, flattening
  <2>2. line_number \in 1..Len(input) /\ input[line_number].kind = "doc"
        /\ "ok" \in Answers(input[line_number].doc, options, TRUE)
        /\ event = DeclaredEvent(input[line_number].doc)
    BY <2>1 DEF IInv, LineProgress, Progress
  <2>3. Settled = line_number - 1 /\ Settled' = line_number
    BY <2>1 DEF Settled
  <2>4. GoodEvent(input[line_number], options)
    <3>1. AnswerTo(input[line_number], options, TRUE) = Answers(input[line_number].doc, options, TRUE)
      BY <2>2 DEF AnswerTo
    <3> QED  BY <2>2, <3>1, AnswersKinds DEF GoodEvent
  <2>5. D[line_number] = D[line_number - 1] + EvaluateEventCount(event)
    <3>1. D[line_number] = D[line_number - 1] + DeclaredOf(input[line_number], options)
      BY <2>2, DeclaredAt
    <3> QED  BY <2>2, <2>4, <3>1 DEF DeclaredOf, DeclaredCount
  <2>6. event \in FlatEvents
    BY <2>2, InputType, DeclaredEventType DEF IInv
  <2>7. Total(events', DOMAIN events') = Total(events, DOMAIN events) + EvaluateEventCount(event)
    <3>1. Total(Append(events, event), DOMAIN Append(events, event))
            = Total(events, DOMAIN events) + EvaluateEventCount(event)
      BY <1>0, <2>6, TotalAppend
    <3> QED  BY <2>1, <3>1
  <2>8. matches = 0 /\ Total(events, DOMAIN events) = D[line_number - 1] /\ stdout = << >>
    BY <2>1, <2>3 DEF Sums
  <2>9. Total(events', DOMAIN events') = CodedMatches(input', options')[Settled']
    BY <2>1, <2>3, <2>5, <2>7, <2>8
  <2> QED  BY <2>1, <2>8, <2>9 DEF Sums, CountAsCoded
<1>7. CASE NotFlattened
  <2>1. /\ pc = "flatten" /\ flat \in FlattenErrors /\ pc' \in {"read", "done"}
        /\ UNCHANGED <<input, options, line_number, events, matches, stdout>>
    BY <1>7 DEF NotFlattened, FailEvent, ExitWith, flattening
  <2>2. line_number \in 1..Len(input) /\ input[line_number].kind = "doc"
        /\ flat \in Answers(input[line_number].doc, options, TRUE) /\ flat # "ok"
    BY <2>1 DEF IInv, LineProgress, Progress, FlattenErrors
  <2>3. Settled = line_number - 1 /\ Settled' = line_number
    BY <2>1 DEF Settled
  <2>4. ~GoodEvent(input[line_number], options)
    BY <2>2 DEF AnswerTo, GoodEvent
  <2>5. D[line_number] = D[line_number - 1]
    <3>1. PICK n \in Nat : n = line_number - 1 /\ n + 1 = line_number
      BY <2>2
    <3>2. D[n + 1] = D[n]
      BY <2>2, <2>4, <3>1, SettledNothing
    <3> QED  BY <3>1, <3>2
  <2> QED  BY <2>1, <2>3, <2>5, IdleSums
<1>8. CASE \E i \in waiting : EvaluateEvent(i)
  <2>1. PICK i \in waiting : EvaluateEvent(i)
    BY <1>8
  <2>2. /\ pc = "eval" /\ waiting' = waiting \ {i} /\ matches' = matches + EvaluateEventCount(events[i])
        /\ UNCHANGED <<input, options, pc, line_number, events, errors, stdout>>
    BY <2>1 DEF EvaluateEvent, flattening
  <2>3. Total(events, waiting) = Total(events, waiting \ {i}) + EvaluateEventCount(events[i])
    BY <1>0, TotalRemove
  <2>4. Total(events, waiting \ {i}) \in Nat /\ EvaluateEventCount(events[i]) \in Nat
    BY <1>0, WorthType, CountType
  <2>5. matches + Total(events, waiting) = D[line_number] /\ (errors["io_read"] = 0 => line_number = Len(input))
        /\ stdout = << >>
    BY <2>2 DEF Sums
  <2>6. matches' + Total(events', waiting') = CodedMatches(input', options')[line_number']
    <3>1. matches + EvaluateEventCount(events[i]) + Total(events, waiting \ {i}) = D[line_number]
      BY <1>0, <2>3, <2>4, <2>5
    <3> QED  BY <2>2, <3>1
  <2> QED  BY <2>2, <2>5, <2>6 DEF Sums, CountAsCoded
<1>9. CASE Evaluated
  <2>1. /\ pc = "eval" /\ pc' = "report" /\ NextEvents = {}
        /\ UNCHANGED <<input, options, line_number, events, errors, waiting, matches, stdout>>
    BY <1>9 DEF Evaluated, flattening
  <2>2. waiting = {}
    <3>1. waiting \in SUBSET Nat
      BY <1>0, WorthType
    <3>2. ASSUME waiting # {} PROVE NextEvents # {}
      BY <3>1, <3>2, MinIsLeast DEF NextEvents
    <3> QED  BY <2>1, <3>2
  <2> QED  BY <2>1, <2>2 DEF Sums, CountAsCoded
<1>10. CASE Report
  <2>1. pc = "report" /\ pc' = "done"
        /\ UNCHANGED <<input, options, line_number, events, totals, errors, waiting, matches>>
    BY <1>10 DEF Report, ExitWith, flattening
  <2>2. stdout = << >>
    BY <2>1 DEF Sums
  <2>3. CASE ~InvariantOk
    BY <1>10, <2>1, <2>2, <2>3 DEF Report, Sums, CountAsCoded
  <2>4. CASE InvariantOk
    <3>1. stdout' = <<matches>> /\ exit' = "success"
      BY <1>10, <2>4 DEF Report, ExitWith
    <3>2. errors["io_read"] = 0
      <4>1. totals.total + errors["io_read"] = totals.ok + totals.failed + 0
        BY <2>1 DEF Accounts
      <4> QED  BY <1>0, <2>4, <4>1, TotalsType DEF InvariantOk, IInv
    <3>3. line_number = Len(input) /\ matches + Total(events, {}) = D[line_number]
      BY <2>1, <3>2 DEF Sums
    <3>4. matches = D[Len(input)]
      BY <1>0, <3>3, TotalEmpty
    <3>5. stdout' = <<CodedMatches(input', options')[Len(input')]>> /\ line_number' = Len(input')
      BY <2>1, <3>1, <3>3, <3>4
    <3>6. CountAsCoded'
      BY <3>1, <3>5 DEF CountAsCoded
    <3> QED  BY <2>1, <3>6 DEF Sums
  <2> QED  BY <2>3, <2>4
<1>11. CASE NoPool
  <2>1. pc = "eval" /\ pc' = "done" /\ stdout' = stdout
    BY <1>11 DEF NoPool, ExitWith
  <2> QED  BY <2>1 DEF Sums, CountAsCoded
<1>12. CASE UNCHANGED vars
  <2>1. UNCHANGED <<input, options, line_number, events, errors, waiting, matches, stdout, exit, pc>>
    BY <1>12 DEF vars, flattening, runner
  <2>2. Settled' = Settled
    BY <2>1 DEF Settled
  <2> QED  BY <2>1, <2>2 DEF Sums, CountAsCoded
<1> QED
  BY <1>1, <1>2, <1>3, <1>4, <1>5, <1>6, <1>7, <1>8, <1>9, <1>10, <1>11, <1>12
  DEF Next, Step, IoError, NotText, Finished

\* No event, no match.
LEMMA InitSums ==
    ASSUME Init
    PROVE  Sums
<1>1. IInv
  BY InitHolds
<1>2. /\ events = << >> /\ matches = 0 /\ line_number = 0 /\ pc = "load" /\ stdout = << >>
  BY DEF Init
<1>3. Total(<< >>, DOMAIN << >>) = 0
  <2>1. << >> \in Seq(FlatEvents) /\ DOMAIN << >> = {}
    OBVIOUS
  <2> QED  BY <2>1, TotalEmpty
<1>4. CodedMatches(input, options)[0] = 0
  BY <1>1, DeclaredAt
<1> QED  BY <1>2, <1>3, <1>4 DEF Sums, Settled, CountAsCoded

(* A count that null_sigma_run prints is the number of matches of every     *)
(* line of the file that is a good event, each flattened as declared, for   *)
(* every file, rule set, schedule of the pool and error mode.               *)
THEOREM PrintedCountExact == Spec => []PrintedCountIsWhole
<1>1. Init => Accounts /\ Sums
  BY InitAccounts, InitSums
<1>2. IInv /\ Accounts /\ Sums /\ [Next]_vars => Accounts' /\ Sums'
  BY NextKeepsAccounts, NextKeepsSums
<1>3. Sums => PrintedCountIsWhole
  BY DEF Sums, CountAsCoded, PrintedCountIsWhole, CodedMatches
<1> QED  BY <1>1, <1>2, <1>3, Inductive, PTL DEF Spec
=============================================================================
