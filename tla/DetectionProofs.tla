--------------------------- MODULE DetectionProofs --------------------------
(***************************************************************************)
(* Theorems about the matcher, for every document, event, field map,       *)
(* alphabet and meaning of numbers, addresses and regexes.                 *)
(*                                                                         *)
(* Direct is what a field condition says with no cache: every value folded *)
(* and taken for its own pattern. The condition as the parser makes it, as *)
(* the engine prepares it and as the twin for regexes reads it are each    *)
(* shown to say Direct (PlainIsDirect, PreparedIsDirect). The parser makes *)
(* no other conditions (ParsedComesFrom), so the three answers to an       *)
(* identifier agree (PathsAlwaysAgree).                                    *)
(*                                                                         *)
(* Direct asks for a cell that passes, so it keeps holding when cells are  *)
(* added. That an event with one more, unrelated field has all the cells   *)
(* it had takes what the enrichment makes of an event (Shows), whatever    *)
(* the order in which the fields were looked at, and Growth, the invariant *)
(* that ties the aliases, the view and the event remembered to it          *)
(* (ExtraFieldsAlwaysKeepMatches).                                         *)
(*                                                                         *)
(* base64 takes three bytes to four characters, each six bits of the       *)
(* three.  So a character that base64offset keeps of a value depends on    *)
(* the bytes of the value alone (KeptDigits), which stand in the stream at *)
(* one of three places modulo three: the variant for that place is in the  *)
(* encoding (VariantOccurs), the matcher compares with it (VariantCompared)*)
(* and finds it there (VariantFound), whatever follows and whichever shape *)
(* the entry was written in (OffsetsAlwaysFindPayload).                    *)
(*                                                                         *)
(* What Direct says of a condition is what its entry means (EntryMeans).   *)
(* One value says what it means against one text (ValueMeans): a pattern   *)
(* does by the theorem about the wildcard loop, of which this module takes *)
(* an instance (TextMeans); a masked address keeps the bits that the mask  *)
(* does not cover (CidrMeans); numbers that an f64 holds compare as they   *)
(* are (NumbersCompare).  windash makes each value in every spelling, and  *)
(* nothing else (ApplySpells).  The fields that the view shows are fields  *)
(* the event has, or may have, by the field map (ShownIsSeen), so every    *)
(* identifier says what its YAML means (IdentifierAlwaysMeansItsYaml).     *)
(***************************************************************************)
EXTENDS DetectionSpec, TLAPS, SequenceTheorems, FiniteSetTheorems, WellFoundedInduction

-----------------------------------------------------------------------------
(* Numbers and sequences.                                                   *)

(* A set of numbers that holds 0, and with each number below n the next,    *)
(* holds all up to n.                                                       *)
LEMMA Upwards ==
    ASSUME NEW n \in Nat, NEW G, 0 \in G, \A k \in 0..(n - 1) : k \in G => k + 1 \in G
    PROVE  0..n \subseteq G
<1> DEFINE T == {k \in 0..n : k \notin G}
<1>1. SUFFICES ASSUME T # {} PROVE FALSE
  OBVIOUS
<1>2. PICK m \in T : \A k \in T : <<k, m>> \notin OpToRel(<, Nat)
  <2>1. T \subseteq Nat
    OBVIOUS
  <2> HIDE DEF T
  <2> QED  BY <1>1, <2>1, WFMin, NatLessThanWellFounded, Zenon
<1>3. \A k \in T : ~(k < m)
  <2>1. T \subseteq Nat
    OBVIOUS
  <2> HIDE DEF T
  <2> QED  BY <1>2, <2>1, Zenon DEF OpToRel
<1>4. m - 1 \in 0..(n - 1) /\ m - 1 < m /\ m - 1 \notin T /\ (m - 1) + 1 = m
  BY <1>3
<1> QED  BY <1>4

\* The least of some numbers.
LEMMA MinIsLeast ==
    ASSUME NEW S \in SUBSET Nat, S # {}
    PROVE  Min(S) \in S /\ \A k \in S : Min(S) <= k
<1>2. PICK m \in S : \A k \in S : <<k, m>> \notin OpToRel(<, Nat)
  BY WFMin, NatLessThanWellFounded, Zenon
<1>3. \A k \in S : ~(k < m)
  BY <1>2, Zenon DEF OpToRel
<1>4. \A k \in S : m <= k
  BY <1>3
<1> QED  BY <1>4 DEF Min

\* What FlattenSeq's recursion adds at place i.
Concatenated(seqs, f, i) == IF i = 1 THEN seqs[i] ELSE f[i - 1] \o seqs[i]

\* FlattenSeq is a recursion over the sequence of sequences.
LEMMA FlattenUnfolds ==
    ASSUME NEW T, NEW seqs \in Seq(Seq(T)), seqs # << >>
    PROVE  \E f \in [1..Len(seqs) -> Seq(T)] :
              /\ \A i \in 1..Len(seqs) : f[i] = Concatenated(seqs, f, i)
              /\ FlattenSeq(seqs) = f[Len(seqs)]
<1> DEFINE n == Len(seqs)
           G == {k \in 0..n : \E f \in [1..n -> Seq(T)] :
                    \A i \in 1..k : f[i] = Concatenated(seqs, f, i)}
           flat1 == CHOOSE f : f = [i \in 1..n |-> Concatenated(seqs, f, i)]
<1>0. n \in Nat /\ n >= 1 /\ \A i \in 1..n : seqs[i] \in Seq(T)
  BY EmptySeq, LenProperties, ElementOfSeq
<1>1. 0 \in G
  <2> DEFINE f0 == [i \in 1..n |-> << >>]
  <2>1. f0 \in [1..n -> Seq(T)]
    OBVIOUS
  <2>2. 1..0 = {}
    OBVIOUS
  <2> HIDE DEF f0
  <2> QED  BY <1>0, <2>1, <2>2
<1>2. ASSUME NEW k \in 0..(n - 1), k \in G PROVE k + 1 \in G
  <2>1. PICK f \in [1..n -> Seq(T)] : \A i \in 1..k : f[i] = Concatenated(seqs, f, i)
    BY <1>2
  <2> DEFINE g == [f EXCEPT ![k + 1] = Concatenated(seqs, f, k + 1)]
  <2>2. Concatenated(seqs, f, k + 1) \in Seq(T)
    <3>1. k + 1 \in 1..n /\ (k + 1 # 1 => (k + 1) - 1 \in 1..n)
      BY <1>0
    <3>2. k + 1 # 1 => f[(k + 1) - 1] \o seqs[k + 1] \in Seq(T)
      BY <1>0, <3>1, ConcatProperties
    <3> QED  BY <1>0, <3>1, <3>2 DEF Concatenated
  <2>3. g \in [1..n -> Seq(T)] /\ g[k + 1] = Concatenated(seqs, f, k + 1)
        /\ \A i \in 1..n : i # k + 1 => g[i] = f[i]
    BY <1>0, <2>2
  <2> HIDE DEF g
  <2>4. ASSUME NEW i \in 1..(k + 1) PROVE g[i] = Concatenated(seqs, g, i)
    <3>1. i # 1 => g[i - 1] = f[i - 1]
      <4>1. i # 1 => i - 1 \in 1..n /\ i - 1 # k + 1
        BY <1>0
      <4> QED  BY <4>1, <2>3
    <3>2. Concatenated(seqs, g, i) = Concatenated(seqs, f, i)
      BY <3>1, Zenon DEF Concatenated
    <3>3. i # k + 1 => i \in 1..k /\ i \in 1..n
      BY <1>0
    <3> QED  BY <2>1, <2>3, <3>2, <3>3
  <2>5. k + 1 \in 0..n
    BY <1>0
  <2> QED  BY <2>3, <2>4, <2>5
<1>3. PICK f \in [1..n -> Seq(T)] : \A i \in 1..n : f[i] = Concatenated(seqs, f, i)
  <2>1. n \in 0..n
    BY <1>0
  <2> HIDE DEF G
  <2>2. n \in G
    BY <1>0, <1>1, <1>2, <2>1, Upwards
  <2> QED  BY <2>2 DEF G
<1>4. flat1 = [i \in 1..n |-> Concatenated(seqs, flat1, i)]
  <2>1. f = [i \in 1..n |-> Concatenated(seqs, f, i)]
    BY <1>3
  <2> QED  BY <2>1
<1>5. FlattenSeq(seqs) = flat1[n]
  BY <1>0 DEF FlattenSeq, Concatenated
<1> HIDE DEF flat1
<1>6. \A i \in 1..n : flat1[i] = Concatenated(seqs, flat1, i)
  BY <1>4
<1> DEFINE Typed == {k \in 0..n : \A i \in 1..k : flat1[i] \in Seq(T)}
<1>7. 0 \in Typed
  BY <1>0
<1>8. ASSUME NEW k \in 0..(n - 1), k \in Typed PROVE k + 1 \in Typed
  <2>1. k + 1 \in 1..n /\ (k + 1 # 1 => (k + 1) - 1 \in 1..k)
    BY <1>0
  <2>2. k + 1 # 1 => flat1[(k + 1) - 1] \o seqs[k + 1] \in Seq(T)
    BY <1>0, <1>8, <2>1, ConcatProperties
  <2>3. flat1[k + 1] \in Seq(T)
    BY <1>0, <1>6, <2>1, <2>2 DEF Concatenated
  <2> QED  BY <1>0, <1>8, <2>3
<1>9. n \in Typed
  <2>1. n \in 0..n
    BY <1>0
  <2> HIDE DEF Typed
  <2> QED  BY <1>0, <1>7, <1>8, <2>1, Upwards
<1>10. flat1 \in [1..n -> Seq(T)]
  <2>1. \A i \in 1..n : Concatenated(seqs, flat1, i) \in Seq(T)
    BY <1>6, <1>9
  <2>2. [i \in 1..n |-> Concatenated(seqs, flat1, i)] \in [1..n -> Seq(T)]
    BY <2>1
  <2> QED  BY <1>4, <2>2
<1> QED  BY <1>5, <1>6, <1>10

\* f is the recursion over 0..n from a base, one step at a time.
Follows(f, n, base, step) == f[0] = base /\ \A i \in 1..n : f[i] = step[i][f[i - 1]]

\* Such a recursion has a value at every place.
LEMMA Recursion ==
    ASSUME NEW n \in Nat, NEW S, NEW base \in S, NEW step \in [1..n -> [S -> S]]
    PROVE  \E f \in [0..n -> S] : Follows(f, n, base, step)
<1> DEFINE G == {k \in 0..n : \E f \in [0..n -> S] :
                    f[0] = base /\ \A i \in 1..k : f[i] = step[i][f[i - 1]]}
<1>1. 0 \in G
  <2> DEFINE f0 == [i \in 0..n |-> base]
  <2>1. f0 \in [0..n -> S] /\ f0[0] = base /\ 1..0 = {} /\ 0 \in 0..n
    OBVIOUS
  <2> HIDE DEF f0
  <2> QED  BY <2>1
<1>2. ASSUME NEW k \in 0..(n - 1), k \in G PROVE k + 1 \in G
  <2>1. PICK f \in [0..n -> S] : f[0] = base /\ \A i \in 1..k : f[i] = step[i][f[i - 1]]
    BY <1>2
  <2> DEFINE x == step[k + 1][f[k]]
             g == [f EXCEPT ![k + 1] = x]
  <2>2. x \in S
    <3>1. k + 1 \in 1..n /\ k \in 0..n
      OBVIOUS
    <3> QED  BY <2>1, <3>1
  <2>3. /\ g \in [0..n -> S] /\ g[k + 1] = x
        /\ \A i \in 0..n : i # k + 1 => g[i] = f[i]
    <3> HIDE DEF x
    <3> QED  BY <2>1, <2>2
  <2> HIDE DEF g
  <2>4. g[0] = base /\ g[k] = f[k]
    BY <2>1, <2>3
  <2>5. ASSUME NEW i \in 1..(k + 1) PROVE g[i] = step[i][g[i - 1]]
    <3>1. CASE i = k + 1
      BY <2>3, <2>4, <3>1
    <3>2. CASE i # k + 1
      <4>1. i \in 1..k /\ i \in 0..n /\ i - 1 \in 0..n /\ i - 1 # k + 1
        BY <3>2
      <4> QED  BY <2>1, <2>3, <3>2, <4>1
    <3> QED  BY <3>1, <3>2
  <2>6. k + 1 \in 0..n
    OBVIOUS
  <2> QED  BY <2>3, <2>4, <2>5, <2>6
<1>3. n \in G
  <2>1. n \in 0..n
    OBVIOUS
  <2> HIDE DEF G
  <2> QED  BY <1>1, <1>2, <2>1, Upwards
<1> QED  BY <1>3 DEF Follows

\* Nothing, concatenated, is nothing.
LEMMA FlattenEmpty == FlattenSeq(<< >>) = << >>
BY DEF FlattenSeq

\* Sequences over T concatenate to a sequence over T.
LEMMA FlattenType ==
    ASSUME NEW T, NEW seqs \in Seq(Seq(T))
    PROVE  FlattenSeq(seqs) \in Seq(T)
<1>1. CASE seqs = << >>
  <2>1. << >> \in Seq(T)
    OBVIOUS
  <2> QED  BY <1>1, <2>1, FlattenEmpty
<1>2. CASE seqs # << >>
  <2>1. Len(seqs) \in 1..Len(seqs)
    BY <1>2, EmptySeq, LenProperties
  <2>2. PICK f \in [1..Len(seqs) -> Seq(T)] : FlattenSeq(seqs) = f[Len(seqs)]
    BY <1>2, FlattenUnfolds
  <2> QED  BY <2>1, <2>2
<1> QED  BY <1>1, <1>2

-----------------------------------------------------------------------------
(* Transforms.                                                              *)

\* Values none of which is null.
NonNull(s) == \E T : s \in Seq(T) /\ \A v \in T : v.kind # "null"

\* One value that is not null.
LEMMA NonNullOne ==
    ASSUME NEW v, v.kind # "null"
    PROVE  NonNull(<<v>>)
<1> DEFINE T == {v}
<1>1. <<v>> \in Seq(T)
  OBVIOUS
<1>2. \A w \in T : w.kind # "null"
  OBVIOUS
<1> HIDE DEF T
<1> QED  BY <1>1, <1>2 DEF NonNull

\* What a modifier other than windash makes of a value are strings.
LEMMA StringsNonNull ==
    ASSUME NEW T, NEW texts \in Seq(T)
    PROVE  NonNull(StrAll(texts))
<1> DEFINE S == {Str(t) : t \in T}
<1>1. StrAll(texts) \in Seq(S)
  <2>1. DOMAIN texts = 1..Len(texts) /\ Len(texts) \in Nat /\ \A i \in 1..Len(texts) : texts[i] \in T
    BY LenProperties, ElementOfSeq
  <2>2. StrAll(texts) = [i \in 1..Len(texts) |-> Str(texts[i])]
    BY <2>1 DEF StrAll
  <2>3. \A i \in 1..Len(texts) : Str(texts[i]) \in S
    BY <2>1
  <2> HIDE DEF S
  <2> QED  BY <2>1, <2>2, <2>3, SeqDef
<1>2. \A v \in S : v.kind # "null"
  BY DEF Str
<1> QED  BY <1>1, <1>2 DEF NonNull

\* One thing is a sequence over something.
LEMMA SingleType ==
    ASSUME NEW x
    PROVE  \E T : <<x>> \in Seq(T)
<1> DEFINE T == {x}
<1>1. <<x>> \in Seq(T)
  OBVIOUS
<1> HIDE DEF T
<1> QED  BY <1>1

\* base64offset makes a sequence of texts.
LEMMA OffsetVariantsType ==
    ASSUME NEW text
    PROVE  \E T : OffsetVariants(text) \in Seq(T)
<1> DEFINE T == {OffsetVariant(text, 0), OffsetVariant(text, 1), OffsetVariant(text, 2)}
           Variant(offset) == IF OffsetVariant(text, offset) = <<>> THEN <<>> ELSE <<OffsetVariant(text, offset)>>
<1>1. Variant(0) \in Seq(T) /\ Variant(1) \in Seq(T) /\ Variant(2) \in Seq(T)
  <2>1. \A t \in T : <<t>> \in Seq(T)
    OBVIOUS
  <2>2. <<>> \in Seq(T)
    OBVIOUS
  <2>3. OffsetVariant(text, 0) \in T /\ OffsetVariant(text, 1) \in T /\ OffsetVariant(text, 2) \in T
    OBVIOUS
  <2> HIDE DEF T
  <2> QED  BY <2>1, <2>2, <2>3, Zenon
<1>2. OffsetVariants(text) = FlattenSeq([i \in 1..3 |-> Variant(i - 1)])
  BY DEF OffsetVariants
<1> HIDE DEF T, Variant
<1>3. \A i \in 1..3 : Variant(i - 1) \in Seq(T)
  BY <1>1
<1>4. [i \in 1..3 |-> Variant(i - 1)] \in Seq(Seq(T))
  BY <1>3
<1> QED  BY <1>2, <1>4, FlattenType

\* A value and its spellings with one dash throughout.
DashSpellings(v) == {v} \union {Str(WithDash(v.text, DashVariants[d])) : d \in 1..Len(DashVariants)}

\* f adds them one by one.
AddsSpellings(f, v) ==
    /\ f[0] = <<v>>
    /\ \A d \in 1..Len(DashVariants) : f[d] = AddVariant(f[d - 1], WithDash(v.text, DashVariants[d]))

\* The recursion in WindashVariants has a solution.
LEMMA WindashUnfolds ==
    ASSUME NEW v
    PROVE  \E f \in [0..Len(DashVariants) -> Seq(DashSpellings(v))] :
              AddsSpellings(f, v) /\ WindashVariants(v) = f[Len(DashVariants)]
<1> DEFINE n == Len(DashVariants)
           T == DashSpellings(v)
           S == Seq(T)
           step == [d \in 1..n |-> [s \in S |-> AddVariant(s, WithDash(v.text, DashVariants[d]))]]
           upTo == CHOOSE f : f = [d \in 0..n |-> IF d = 0 THEN <<v>>
                                       ELSE AddVariant(f[d - 1], WithDash(v.text, DashVariants[d]))]
<1>1. n \in Nat
  BY DEF DashVariants
<1>2. <<v>> \in S
  <2>1. v \in T
    BY DEF DashSpellings
  <2> HIDE DEF T
  <2> QED  BY <2>1
<1>3. ASSUME NEW s \in S, NEW d \in 1..n
      PROVE  AddVariant(s, WithDash(v.text, DashVariants[d])) \in S
  <2>1. Str(WithDash(v.text, DashVariants[d])) \in T
    BY DEF DashSpellings
  <2> HIDE DEF T
  <2> QED  BY <1>3, <2>1, AppendProperties DEF AddVariant
<1>4. step \in [1..n -> [S -> S]]
  BY <1>3
<1>5. PICK f \in [0..n -> S] : Follows(f, n, <<v>>, step)
  <2> HIDE DEF S, step, n
  <2> QED  BY <1>1, <1>2, <1>4, Recursion
<1>6. WindashVariants(v) = upTo[n]
  BY DEF WindashVariants
<1>7. f = [d \in 0..n |-> IF d = 0 THEN <<v>> ELSE AddVariant(f[d - 1], WithDash(v.text, DashVariants[d]))]
  <2>1. \A d \in 1..n : d - 1 \in 0..n /\ f[d - 1] \in S
    <3> HIDE DEF S, n
    <3>1. \A d \in 1..n : d - 1 \in 0..n
      BY <1>1
    <3> QED  BY <1>5, <3>1
  <2>2. \A d \in 1..n : f[d] = AddVariant(f[d - 1], WithDash(v.text, DashVariants[d]))
    <3> SUFFICES ASSUME NEW d \in 1..n
                 PROVE  f[d] = AddVariant(f[d - 1], WithDash(v.text, DashVariants[d]))
      OBVIOUS
    <3>1. \A s \in S : step[d][s] = AddVariant(s, WithDash(v.text, DashVariants[d]))
      OBVIOUS
    <3> HIDE DEF S, n, step
    <3>2. f[d] = step[d][f[d - 1]]
      BY <1>5 DEF Follows
    <3> QED  BY <2>1, <3>1, <3>2
  <2>3. f[0] = <<v>> /\ f = [d \in 0..n |-> f[d]]
    BY <1>5 DEF Follows
  <2>4. \A d \in 0..n : d = 0 \/ d \in 1..n
    BY <1>1
  <2> HIDE DEF n, S
  <2>5. \A d \in 0..n : f[d] = IF d = 0 THEN <<v>> ELSE AddVariant(f[d - 1], WithDash(v.text, DashVariants[d]))
    BY <2>2, <2>3, <2>4
  <2> QED  BY <2>3, <2>5
<1>8. upTo = [d \in 0..n |-> IF d = 0 THEN <<v>>
                    ELSE AddVariant(upTo[d - 1], WithDash(v.text, DashVariants[d]))]
  <2> HIDE DEF n
  <2> QED  BY <1>7
<1> HIDE DEF upTo
<1> DEFINE G == {d \in 0..n : upTo[d] \in S}
<1>9. 0..n \subseteq G
  <2>1. 0 \in G
    BY <1>1, <1>2, <1>8
  <2>2. ASSUME NEW d \in 0..(n - 1), d \in G PROVE d + 1 \in G
    <3>1. d + 1 \in 1..n /\ (d + 1) - 1 = d /\ d + 1 \in 0..n /\ d + 1 # 0
      BY <1>1
    <3>2. upTo[d + 1] = AddVariant(upTo[d], WithDash(v.text, DashVariants[d + 1]))
      <4> HIDE DEF n
      <4> QED  BY <1>8, <3>1
    <3> HIDE DEF n, S
    <3> QED  BY <1>3, <2>2, <3>1, <3>2
  <2> HIDE DEF G, n
  <2> QED  BY <1>1, <2>1, <2>2, Upwards
<1>10. AddsSpellings(upTo, v)
  <2>1. upTo[0] = <<v>>
    BY <1>1, <1>8
  <2>2. \A d \in 1..n : d \in 0..n /\ d # 0
    BY <1>1
  <2>3. \A d \in 1..n : upTo[d] = AddVariant(upTo[d - 1], WithDash(v.text, DashVariants[d]))
    <3> HIDE DEF n
    <3> QED  BY <1>8, <2>2
  <2> QED  BY <2>1, <2>3 DEF AddsSpellings
<1>11. upTo \in [0..n -> S]
  <2>1. \A d \in 0..n : upTo[d] \in S
    BY <1>9
  <2>2. upTo = [d \in 0..n |-> upTo[d]]
    BY <1>8
  <2> HIDE DEF S, n
  <2> QED  BY <2>1, <2>2
<1> QED  BY <1>6, <1>10, <1>11

\* Spellings of a value with other dashes are strings, or the value itself.
LEMMA WindashNonNull ==
    ASSUME NEW v, v.kind # "null"
    PROVE  NonNull(WindashVariants(v))
<1> DEFINE n == Len(DashVariants)
<1>1. n \in 0..n
  BY DEF DashVariants
<1>2. PICK f \in [0..n -> Seq(DashSpellings(v))] : WindashVariants(v) = f[n]
  BY WindashUnfolds
<1>3. WindashVariants(v) \in Seq(DashSpellings(v))
  <2> HIDE DEF n
  <2> QED  BY <1>1, <1>2
<1>4. \A w \in DashSpellings(v) : w.kind # "null"
  BY DEF DashSpellings, Str
<1> QED  BY <1>3, <1>4 DEF NonNull

\* No modifier makes a null of a value that is none.
LEMMA TransformedNonNull ==
    ASSUME NEW v, v.kind # "null", NEW modifier
    PROVE  NonNull(Transformed(v, modifier))
<1>1. CASE modifier = "windash"
  BY <1>1, WindashNonNull DEF Transformed
<1>2. CASE modifier # "windash" /\ (v.text = <<>> \/ ~is_transform(modifier))
  BY <1>2, NonNullOne DEF Transformed
<1>3. CASE modifier \in {"base64", "base64offset", "wide"} /\ v.text # <<>>
  <2> DEFINE texts == CASE modifier = "base64"       -> <<base64_encode(v.text)>>
                        [] modifier = "base64offset" -> OffsetVariants(v.text)
                        [] modifier = "wide"         -> <<WideOf(v.text)>>
  <2>1. Transformed(v, modifier) = StrAll(texts)
    BY <1>3 DEF Transformed, is_transform
  <2>2. \E T : texts \in Seq(T)
    <3>1. CASE modifier = "base64"
      <4>1. texts = <<base64_encode(v.text)>>
        BY <3>1
      <4> HIDE DEF texts
      <4> QED  BY <4>1, SingleType
    <3>2. CASE modifier = "base64offset"
      <4>1. texts = OffsetVariants(v.text)
        BY <3>2
      <4> HIDE DEF texts
      <4> QED  BY <4>1, OffsetVariantsType
    <3>3. CASE modifier = "wide"
      <4>1. texts = <<WideOf(v.text)>>
        BY <3>3
      <4> HIDE DEF texts
      <4> QED  BY <4>1, SingleType
    <3> QED  BY <1>3, <3>1, <3>2, <3>3
  <2> HIDE DEF texts
  <2> QED  BY <2>1, <2>2, StringsNonNull
<1> QED  BY <1>1, <1>2, <1>3 DEF is_transform

\* Nor of values.
LEMMA TransformedAllNonNull ==
    ASSUME NEW s, NonNull(s), NEW modifier
    PROVE  NonNull(TransformedAll(s, modifier))
<1>1. PICK T : s \in Seq(T) /\ \A v \in T : v.kind # "null"
  BY DEF NonNull
<1>2. DOMAIN s = 1..Len(s) /\ Len(s) \in Nat /\ \A i \in 1..Len(s) : s[i] \in T
  BY <1>1, LenProperties, ElementOfSeq
<1> DEFINE part(i) == Transformed(s[i], modifier)
           U == UNION {Range(part(i)) : i \in 1..Len(s)}
<1>3. \A i \in 1..Len(s) : NonNull(part(i))
  BY <1>1, <1>2, TransformedNonNull
<1>4. ASSUME NEW i \in 1..Len(s) PROVE part(i) \in Seq(U) /\ \A u \in Range(part(i)) : u.kind # "null"
  <2>1. PICK R : part(i) \in Seq(R) /\ \A v \in R : v.kind # "null"
    BY <1>3 DEF NonNull
  <2>2. Range(part(i)) \subseteq U
    OBVIOUS
  <2> HIDE DEF U, part
  <2>3. /\ DOMAIN part(i) = 1..Len(part(i)) /\ Len(part(i)) \in Nat
        /\ part(i) = [k \in 1..Len(part(i)) |-> part(i)[k]]
        /\ \A k \in 1..Len(part(i)) : part(i)[k] \in R
    BY <2>1, LenProperties, ElementOfSeq
  <2>4. \A k \in 1..Len(part(i)) : part(i)[k] \in Range(part(i))
    BY <2>3 DEF Range
  <2>5. part(i) \in Seq(U)
    <3>1. part(i) \in [1..Len(part(i)) -> U]
      BY <2>2, <2>3, <2>4
    <3> QED  BY <2>3, <3>1, SeqDef
  <2>6. \A u \in Range(part(i)) : u \in R
    BY <2>3 DEF Range
  <2> QED  BY <2>1, <2>5, <2>6
<1>5. \A u \in U : u.kind # "null"
  BY <1>4
<1>6. TransformedAll(s, modifier) = FlattenSeq([i \in 1..Len(s) |-> part(i)])
  BY <1>2 DEF TransformedAll
<1>7. [i \in 1..Len(s) |-> part(i)] \in Seq(Seq(U))
  <2>1. \A i \in 1..Len(s) : part(i) \in Seq(U)
    BY <1>4
  <2> HIDE DEF U, part
  <2>2. [i \in 1..Len(s) |-> part(i)] \in [1..Len(s) -> Seq(U)]
    BY <2>1
  <2> QED  BY <1>2, <2>2, SeqDef
<1> HIDE DEF U, part
<1>8. TransformedAll(s, modifier) \in Seq(U)
  BY <1>6, <1>7, FlattenType
<1> QED  BY <1>5, <1>8 DEF NonNull

\* u is the first k elements of s.
Starts(s, k, u) == Len(u) = k /\ \A j \in 1..k : u[j] = s[j]

\* The first k elements of a sequence and the next are its first k + 1.
LEMMA StartGrows ==
    ASSUME NEW T, NEW s \in Seq(T), NEW k \in 0..(Len(s) - 1),
           NEW u \in Seq(T), Starts(s, k, u), NEW v, v = <<s[k + 1]>>, NEW w, w = u \o v
    PROVE  Starts(s, k + 1, w)
<1>1. Len(s) \in Nat /\ s[k + 1] \in T
  BY LenProperties, ElementOfSeq
<1>2. v \in Seq(T) /\ Len(v) = 1 /\ v[1] = s[k + 1]
  BY <1>1
<1>3. /\ Len(w) = Len(u) + Len(v)
      /\ \A i \in 1..(Len(u) + Len(v)) : w[i] = IF i <= Len(u) THEN u[i] ELSE v[i - Len(u)]
  <2>1. /\ Len(u \o v) = Len(u) + Len(v)
        /\ \A i \in 1..(Len(u) + Len(v)) : (u \o v)[i] = IF i <= Len(u) THEN u[i] ELSE v[i - Len(u)]
    BY ONLY <1>2, u \in Seq(T), ConcatProperties
  <2> QED  BY <2>1
<1>4. Len(u) = k /\ \A j \in 1..k : u[j] = s[j]
  BY DEF Starts
<1>5. Len(w) = k + 1
  BY <1>2, <1>3, <1>4
<1>6. ASSUME NEW j \in 1..(k + 1) PROVE w[j] = s[j]
  <2>1. w[j] = IF j <= k THEN u[j] ELSE v[j - k]
    BY <1>2, <1>3, <1>4
  <2>2. CASE j <= k
    BY <1>4, <2>1, <2>2
  <2>3. CASE j = k + 1
    <3>1. j - k = 1 /\ ~(j <= k)
      BY <2>3
    <3> QED  BY <1>2, <2>1, <2>3, <3>1
  <2>4. j <= k \/ j = k + 1
    OBVIOUS
  <2> QED  BY <2>2, <2>3, <2>4
<1> QED  BY <1>5, <1>6 DEF Starts

\* A modifier that transforms nothing leaves values as they are.
LEMMA TransformedAllSame ==
    ASSUME NEW T, NEW s \in Seq(T), NEW modifier, ~is_transform(modifier)
    PROVE  TransformedAll(s, modifier) = s
<1> DEFINE n == Len(s)
           seqs == [i \in 1..n |-> <<s[i]>>]
<1>1. DOMAIN s = 1..n /\ n \in Nat /\ \A i \in 1..n : s[i] \in T
  BY LenProperties, ElementOfSeq
<1>2. TransformedAll(s, modifier) = FlattenSeq(seqs)
  BY <1>1 DEF TransformedAll, Transformed, is_transform
<1>3. seqs \in Seq(Seq(T)) /\ Len(seqs) = n /\ \A i \in 1..n : seqs[i] = <<s[i]>>
  <2>1. \A x \in T : <<x>> \in Seq(T)
    OBVIOUS
  <2>2. \A i \in 1..n : <<s[i]>> \in Seq(T)
    BY <1>1, <2>1
  <2>3. seqs \in [1..n -> Seq(T)]
    BY <2>2
  <2> HIDE DEF seqs, n
  <2>4. seqs \in Seq(Seq(T)) /\ DOMAIN seqs = 1..n
    BY <1>1, <2>3, SeqDef
  <2>5. Len(seqs) = n
    BY <1>1, <2>4, LenProperties
  <2> QED  BY <2>4, <2>5 DEF seqs
<1>4. CASE n = 0
  <2>1. s = << >>
    BY <1>4, EmptySeq
  <2>2. seqs = << >>
    BY <1>3, <1>4, EmptySeq
  <2> QED  BY <1>2, <2>1, <2>2, FlattenEmpty
<1>5. CASE n # 0
  <2>1. seqs # << >>
    BY <1>3, <1>5, EmptySeq
  <2>9. \E f \in [1..Len(seqs) -> Seq(T)] :
              /\ \A i \in 1..Len(seqs) : f[i] = Concatenated(seqs, f, i)
              /\ FlattenSeq(seqs) = f[Len(seqs)]
    <3> HIDE DEF seqs
    <3> QED  BY <1>3, <2>1, FlattenUnfolds
  <2> HIDE DEF seqs
  <2>2. PICK f \in [1..n -> Seq(T)] : /\ \A i \in 1..n : f[i] = Concatenated(seqs, f, i)
                                     /\ FlattenSeq(seqs) = f[n]
    BY <1>3, <2>9
  <2> DEFINE G == {k \in 0..n : k = 0 \/ Starts(s, k, f[k])}
  <2>3. 0 \in G
    BY <1>1
  <2>4. ASSUME NEW k \in 0..(n - 1), k \in G PROVE k + 1 \in G
    <3>1. k + 1 \in 1..n /\ k + 1 \in 0..n /\ (k + 1) - 1 = k /\ 1 \in 1..n
      BY <1>1
    <3>2. CASE k = 0
      <4>1. f[1] = <<s[1]>>
        BY <1>3, <2>2, <3>1 DEF Concatenated
      <4>2. Starts(s, 1, f[1])
        <5>1. Len(<<s[1]>>) = 1 /\ <<s[1]>>[1] = s[1]
          OBVIOUS
        <5> QED  BY <4>1, <5>1 DEF Starts
      <4> QED  BY <3>1, <3>2, <4>2
    <3>3. CASE k # 0
      <4>1. /\ f[k + 1] = f[k] \o seqs[k + 1] /\ seqs[k + 1] = <<s[k + 1]>>
            /\ Starts(s, k, f[k]) /\ f[k] \in Seq(T)
        <5>1. f[k + 1] = Concatenated(seqs, f, k + 1) /\ k + 1 # 1 /\ k \in 1..n
          BY <2>2, <3>1, <3>3
        <5> QED  BY <1>3, <2>2, <2>4, <3>1, <3>3, <5>1 DEF Concatenated
      <4>2. Starts(s, k + 1, f[k + 1])
        BY <4>1, StartGrows
      <4> QED  BY <3>1, <4>2
    <3> QED  BY <3>2, <3>3
  <2>5. n \in 0..n /\ n \in 1..n
    BY <1>1, <1>5
  <2> HIDE DEF G
  <2>6. n \in G
    BY <1>1, <2>3, <2>4, <2>5, Upwards
  <2>7. f[n] \in Seq(T) /\ Starts(s, n, f[n])
    BY <1>1, <1>5, <2>2, <2>5, <2>6 DEF G
  <2>8. f[n] = s
    BY <2>7, SeqEqual DEF Starts
  <2> QED  BY <1>2, <2>2, <2>8
<1> QED  BY <1>4, <1>5

\* One modifier after another.
AppliedTo(f, values, modifiers) ==
    /\ f[0] = values
    /\ \A n \in 1..Len(modifiers) : f[n] = TransformedAll(f[n - 1], modifiers[n])

\* The recursion in apply_transforms has a solution.
LEMMA ApplyUnfolds ==
    ASSUME NEW values, NEW modifiers, Len(modifiers) \in Nat
    PROVE  \E f : AppliedTo(f, values, modifiers) /\ apply_transforms(values, modifiers) = f[Len(modifiers)]
<1> DEFINE N == Len(modifiers)
           after == CHOOSE f : f = [n \in 0..N |-> IF n = 0 THEN values
                                                   ELSE TransformedAll(f[n - 1], modifiers[n])]
           G == {k \in 0..N : \E f : /\ f[0] = values
                                     /\ \A n \in 1..k : f[n] = TransformedAll(f[n - 1], modifiers[n])}
<1>1. apply_transforms(values, modifiers) = after[N]
  BY DEF apply_transforms
<1>2. 0 \in G
  <2> DEFINE f0 == [n \in 0..N |-> values]
  <2>1. f0[0] = values /\ 1..0 = {}
    OBVIOUS
  <2> HIDE DEF f0
  <2> QED  BY <2>1
<1>3. ASSUME NEW k \in 0..(N - 1), k \in G PROVE k + 1 \in G
  <2>1. PICK f : f[0] = values /\ \A n \in 1..k : f[n] = TransformedAll(f[n - 1], modifiers[n])
    BY <1>3
  <2> DEFINE g == [n \in 0..N |-> IF n = k + 1 THEN TransformedAll(f[k], modifiers[k + 1]) ELSE f[n]]
  <2>2. /\ g[k + 1] = TransformedAll(f[k], modifiers[k + 1])
        /\ \A n \in 0..k : g[n] = f[n]
    OBVIOUS
  <2> HIDE DEF g
  <2>3. ASSUME NEW n \in 1..(k + 1) PROVE g[n] = TransformedAll(g[n - 1], modifiers[n])
    <3>1. n - 1 \in 0..k /\ (n # k + 1 => n \in 1..k /\ n \in 0..k) /\ (n = k + 1 => n - 1 = k)
      OBVIOUS
    <3>2. g[n - 1] = f[n - 1]
      BY <2>2, <3>1
    <3> QED  BY <2>1, <2>2, <3>1, <3>2
  <2>4. g[0] = values /\ k + 1 \in 0..N
    BY <2>1, <2>2
  <2> QED  BY <2>3, <2>4
<1>4. PICK f : f[0] = values /\ \A n \in 1..N : f[n] = TransformedAll(f[n - 1], modifiers[n])
  <2>1. N \in 0..N
    OBVIOUS
  <2> HIDE DEF G
  <2>2. N \in G
    BY <1>2, <1>3, <2>1, Upwards
  <2> QED  BY <2>2 DEF G
<1>5. after = [n \in 0..N |-> IF n = 0 THEN values ELSE TransformedAll(after[n - 1], modifiers[n])]
  <2> DEFINE g == [n \in 0..N |-> f[n]]
  <2>1. g = [n \in 0..N |-> IF n = 0 THEN values ELSE TransformedAll(g[n - 1], modifiers[n])]
    <3>1. \A n \in 1..N : n - 1 \in 0..N /\ g[n - 1] = f[n - 1]
      OBVIOUS
    <3>2. \A n \in 0..N : f[n] = IF n = 0 THEN values ELSE TransformedAll(g[n - 1], modifiers[n])
      BY <1>4, <3>1
    <3> QED  BY <3>2
  <2> HIDE DEF g, N
  <2> QED  BY <2>1
<1> HIDE DEF after
<1>6. AppliedTo(after, values, modifiers)
  BY <1>5 DEF AppliedTo
<1> QED  BY <1>1, <1>6

\* No modifiers make a null of values that are none.
LEMMA ApplyNonNull ==
    ASSUME NEW values, NonNull(values), NEW modifiers, Len(modifiers) \in Nat
    PROVE  NonNull(apply_transforms(values, modifiers))
<1> DEFINE N == Len(modifiers)
<1>1. PICK f : AppliedTo(f, values, modifiers) /\ apply_transforms(values, modifiers) = f[N]
  BY ApplyUnfolds
<1> DEFINE G == {k \in 0..N : NonNull(f[k])}
<1>2. 0 \in G
  BY <1>1 DEF AppliedTo
<1>3. ASSUME NEW k \in 0..(N - 1), k \in G PROVE k + 1 \in G
  <2>1. k + 1 \in 1..N /\ (k + 1) - 1 = k
    OBVIOUS
  <2>2. f[k + 1] = TransformedAll(f[k], modifiers[k + 1])
    BY <1>1, <2>1 DEF AppliedTo
  <2> QED  BY <1>3, <2>1, <2>2, TransformedAllNonNull
<1>4. N \in 0..N
  OBVIOUS
<1> HIDE DEF G
<1>5. N \in G
  BY <1>2, <1>3, <1>4, Upwards
<1> QED  BY <1>1, <1>5 DEF G

\* Modifiers that transform nothing leave values as they are.
LEMMA ApplySame ==
    ASSUME NEW T, NEW values \in Seq(T), NEW modifiers, Len(modifiers) \in Nat,
           \A n \in 1..Len(modifiers) : ~is_transform(modifiers[n])
    PROVE  apply_transforms(values, modifiers) = values
<1> DEFINE N == Len(modifiers)
<1>1. PICK f : AppliedTo(f, values, modifiers) /\ apply_transforms(values, modifiers) = f[N]
  BY ApplyUnfolds
<1> DEFINE G == {k \in 0..N : f[k] = values}
<1>2. 0 \in G
  BY <1>1 DEF AppliedTo
<1>3. ASSUME NEW k \in 0..(N - 1), k \in G PROVE k + 1 \in G
  <2>1. k + 1 \in 1..N /\ (k + 1) - 1 = k /\ k + 1 \in 0..N
    OBVIOUS
  <2>2. f[k + 1] = TransformedAll(f[k], modifiers[k + 1])
    BY <1>1, <2>1 DEF AppliedTo
  <2>3. f[k] = values
    BY <1>3
  <2> QED  BY <2>1, <2>2, <2>3, TransformedAllSame
<1>4. N \in 0..N
  OBVIOUS
<1> HIDE DEF G
<1>5. N \in G
  BY <1>2, <1>3, <1>4, Upwards
<1> QED  BY <1>1, <1>5 DEF G

-----------------------------------------------------------------------------
(* One condition.                                                           *)

\* A modifier of these transforms the values.
Transforms(modifiers) == \E i \in DOMAIN modifiers : is_transform(modifiers[i])

\* A condition as the engine prepares it.
Prepared(field, values, modifiers) ==
    [field |-> field, field_folded |-> Fold(field), values |-> values,
     values_folded |-> [i \in DOMAIN values |-> Fold(values[i].text)],
     values_match_cache |->
        [i \in DOMAIN values |-> IF Transforms(modifiers) THEN {} ELSE {Fold(values[i].text)}],
     modifiers |-> modifiers]

\* Conditions the parser makes: the name is folded already, or is none.
ConditionType(field, folded, values, modifiers) ==
    /\ folded \in {<<>>, Fold(field)}
    /\ \E T : values \in Seq(T)
    /\ \E M : modifiers \in Seq(M)

\* finalize_identifiers prepares the name, the folds and the patterns.
LEMMA FinalizedIs ==
    ASSUME NEW field, NEW folded, NEW values, NEW modifiers
    PROVE  Finalized(FieldCondition(field, folded, values, modifiers))
                = Prepared(field, values, modifiers)
<1> DEFINE c == FieldCondition(field, folded, values, modifiers)
<1>1. /\ c.field = field /\ c.values = values /\ c.modifiers = modifiers
  BY DEF FieldCondition
<1>2. HasTransform(c) <=> Transforms(modifiers)
  BY <1>1 DEF HasTransform, Transforms
<1>3. [i \in DOMAIN values |-> CachedPattern(c, i)]
        = [i \in DOMAIN values |-> IF Transforms(modifiers) THEN {} ELSE {Fold(values[i].text)}]
  <2>1. \A i : CachedPattern(c, i) = IF Transforms(modifiers) THEN {} ELSE {Fold(values[i].text)}
    <3> SUFFICES ASSUME NEW i
                 PROVE  CachedPattern(c, i) = IF Transforms(modifiers) THEN {} ELSE {Fold(values[i].text)}
      OBVIOUS
    <3> HIDE DEF c
    <3>1. CachedPattern(c, i) = IF HasTransform(c) THEN {} ELSE {Fold(c.values[i].text)}
      BY DEF CachedPattern
    <3>2. {Fold(c.values[i].text)} = {Fold(values[i].text)}
      BY <1>1
    <3> QED  BY <1>2, <3>1, <3>2, Zenon
  <2> HIDE DEF c
  <2> QED  BY <2>1
<1> DEFINE folds  == [i \in DOMAIN values |-> Fold(values[i].text)]
           caches == [i \in DOMAIN values |-> CachedPattern(c, i)]
<1>4. Finalized(c) = [c EXCEPT !.field_folded = Fold(field), !.values_folded = folds,
                               !.values_match_cache = caches]
  <2>1. Finalized(c) = [c EXCEPT
            !.field_folded = Fold(c.field),
            !.values_folded = [i \in DOMAIN c.values |-> Fold(c.values[i].text)],
            !.values_match_cache = [i \in DOMAIN c.values |-> CachedPattern(c, i)]]
    BY DEF Finalized
  <2> HIDE DEF c
  <2> QED  BY <1>1, <2>1
<1> HIDE DEF folds, caches
<1>5. Finalized(c) = [field |-> field, field_folded |-> Fold(field), values |-> values,
                      values_folded |-> folds, values_match_cache |-> caches,
                      modifiers |-> modifiers]
  BY <1>4 DEF FieldCondition
<1> QED  BY <1>3, <1>5 DEF Prepared, folds, caches

\* The values a condition compares with are its own unless something transforms them.
LEMMA Untransformed ==
    ASSUME NEW field, NEW folded, NEW values, NEW modifiers,
           ConditionType(field, folded, values, modifiers), ~Transforms(modifiers)
    PROVE  apply_transforms(values, modifiers) = values
<1>1. DOMAIN modifiers = 1..Len(modifiers) /\ Len(modifiers) \in Nat
  <2>1. PICK M : modifiers \in Seq(M)
    BY DEF ConditionType
  <2> QED  BY <2>1, LenProperties
<1>2. \A n \in 1..Len(modifiers) : ~is_transform(modifiers[n])
  BY <1>1 DEF Transforms
<1>3. PICK T : values \in Seq(T)
  BY DEF ConditionType
<1> QED  BY <1>1, <1>2, <1>3, ApplySame

-----------------------------------------------------------------------------
(* What a condition says, with no cache.                                    *)

\* The values that pass on a text.
Passing(values, modifiers, raw) ==
    {i \in DOMAIN values :
        value_matches(values[i], Fold(values[i].text), Fold(values[i].text), raw, modifiers)}

\* Any of them, or all.
Enough(modifiers, indices, passing) ==
    IF Contains(modifiers, "all") THEN indices \subseteq passing ELSE passing # {}

\* handle_fieldref of what it reads of a condition.
Refers(subject, values, modifiers, seen) ==
    LET Passes(i) ==
            LET name == Fold(values[i].text) IN
            /\ HasField(name, seen)
            /\ LET other == Fold(First(name, seen))
                   text  == Fold(First(subject, seen))
               IN \E from \in 0..(Len(text) - Len(other)) :
                    /\ SubSeq(text, from + 1, from + Len(other)) = other
                    /\ Mode(modifiers) \in {"exact", "startswith"} => from = 0
                    /\ Mode(modifiers) \in {"exact", "endswith"} =>
                            from = Len(text) - Len(other)
        passing == {i \in DOMAIN values : Passes(i)}
    IN HasField(subject, seen) /\ Enough(modifiers, DOMAIN values, passing)

Direct(field, values, modifiers, seen) ==
    IF Contains(modifiers, "exists")
    THEN HasField(Fold(field), seen) = ExpectsField(values)
    ELSE IF Contains(modifiers, "fieldref") THEN Refers(Fold(field), values, modifiers, seen)
    ELSE \E key \in KeysOf(Fold(field), seen) :
            Enough(modifiers, DOMAIN apply_transforms(values, modifiers),
                   Passing(apply_transforms(values, modifiers), modifiers, seen.cells[key]))

-----------------------------------------------------------------------------
(* What the two ways of deciding a condition read of it.                    *)

\* match_field_condition's lower-case text and pattern of value i.
PlaceLower(c, values, i) ==
    IF ~HasTransform(c) /\ Len(values) = Len(c.values_folded) THEN c.values_folded[i]
    ELSE Fold(values[i].text)

PlacePattern(c, values, i) ==
    IF i \in DOMAIN c.values_match_cache /\ c.values_match_cache[i] # {}
    THEN CHOOSE p \in c.values_match_cache[i] : TRUE
    ELSE PlaceLower(c, values, i)

\* match_field_condition_with_cache's.
Alike(c, values, i) == {j \in DOMAIN c.values : c.values[j] = values[i]}

LookupLower(c, values, i) ==
    IF ~HasTransform(c) /\ Len(values) = Len(c.values_folded) /\ Alike(c, values, i) # {}
    THEN c.values_folded[Min(Alike(c, values, i))]
    ELSE Fold(values[i].text)

LookupPattern(c, values, i) ==
    IF \E j \in Alike(c, values, i) : j \in DOMAIN c.values_match_cache
                                        /\ c.values_match_cache[j] # {}
    THEN CHOOSE p \in c.values_match_cache[Min(Alike(c, values, i))] : TRUE
    ELSE LookupLower(c, values, i)

\* The condition is about this field, with these values and modifiers.
About(c, field, values, modifiers) ==
    /\ c.values = values /\ c.modifiers = modifiers
    /\ condition_field_folded(c) = Fold(field)

\* A condition whose folds and patterns are the lower-case values says what it says.
LEMMA PlaceIsDirect ==
    ASSUME NEW c, NEW field, NEW values, NEW modifiers, NEW seen,
           About(c, field, values, modifiers),
           \A i \in DOMAIN apply_transforms(values, modifiers) :
              /\ PlaceLower(c, apply_transforms(values, modifiers), i)
                    = Fold(apply_transforms(values, modifiers)[i].text)
              /\ PlacePattern(c, apply_transforms(values, modifiers), i)
                    = Fold(apply_transforms(values, modifiers)[i].text)
    PROVE  match_field_condition(c, seen) <=> Direct(field, values, modifiers, seen)
<1> DEFINE vs == apply_transforms(values, modifiers)
           pass(key) == {i \in DOMAIN vs :
                value_matches(vs[i], PlaceLower(c, vs, i), PlacePattern(c, vs, i),
                              seen.cells[key], modifiers)}
<1>1. c.values = values /\ c.modifiers = modifiers /\ condition_field_folded(c) = Fold(field)
  BY DEF About
<1>2. \A key : pass(key) = Passing(vs, modifiers, seen.cells[key])
  <2> HIDE DEF vs
  <2> QED  BY DEF Passing, vs
<1>3. handle_exists(c, seen) <=> (HasField(Fold(field), seen) = ExpectsField(values))
  BY <1>1 DEF handle_exists
<1>4. handle_fieldref(c, seen) <=> Refers(Fold(field), values, modifiers, seen)
  <2>1. handle_fieldref(c, seen) <=> Refers(condition_field_folded(c), c.values, c.modifiers, seen)
    BY DEF handle_fieldref, Refers, Quantified, Has, Enough
  <2> QED  BY <1>1, <2>1
<1>5. match_field_condition(c, seen)
        <=> IF Contains(modifiers, "exists") THEN handle_exists(c, seen)
            ELSE IF Contains(modifiers, "fieldref") THEN handle_fieldref(c, seen)
            ELSE \E key \in KeysOf(Fold(field), seen) : Enough(modifiers, DOMAIN vs, pass(key))
  BY <1>1 DEF match_field_condition, Has, Quantified, Enough, PlaceLower, PlacePattern
<1> HIDE DEF vs, pass
<1> QED  BY <1>2, <1>3, <1>4, <1>5 DEF Direct, vs

\* A regex has no other test before it.
OnlyRegex(values, modifiers) ==
    Contains(modifiers, "re") =>
        /\ ToSet(modifiers) \intersect (Comparisons \union {"cidr"}) = {}
        /\ \A i \in DOMAIN values : values[i].kind # "null"

\* value_matches comes to the regex when it has no other test before it.
LEMMA RegexFirst ==
    ASSUME NEW v, NEW lower, NEW pattern, NEW raw, NEW modifiers,
           Contains(modifiers, "re"), v.kind # "null", NEW M, modifiers \in Seq(M),
           ToSet(modifiers) \intersect (Comparisons \union {"cidr"}) = {}
    PROVE  value_matches(v, lower, pattern, raw, modifiers) <=> RegexMatches(v.text, raw)
<1>1. ToSet(modifiers) \intersect Comparisons = {}
  OBVIOUS
<1>2. try_numeric_comparison(v, raw, modifiers) = {}
  BY <1>1 DEF try_numeric_comparison
<1>3. ~Contains(modifiers, "cidr")
  <2>1. DOMAIN modifiers = 1..Len(modifiers)
    BY LenProperties
  <2> QED  BY <2>1 DEF Contains, ToSet
<1> QED  BY <1>2, <1>3 DEF value_matches

\* A condition whose folds and patterns, looked up by value, are the lower-case values
\* says to the twin what it says.
LEMMA LookupIsDirect ==
    ASSUME NEW c, NEW field, NEW values, NEW modifiers, NEW seen,
           About(c, field, values, modifiers), NEW M, modifiers \in Seq(M),
           OnlyRegex(apply_transforms(values, modifiers), modifiers),
           \A i \in DOMAIN apply_transforms(values, modifiers) :
              /\ LookupLower(c, apply_transforms(values, modifiers), i)
                    = Fold(apply_transforms(values, modifiers)[i].text)
              /\ LookupPattern(c, apply_transforms(values, modifiers), i)
                    = Fold(apply_transforms(values, modifiers)[i].text)
    PROVE  match_field_condition_with_cache(c, seen) <=> Direct(field, values, modifiers, seen)
<1> DEFINE vs == apply_transforms(values, modifiers)
           pass(key) == {i \in DOMAIN vs :
                IF Contains(modifiers, "re") THEN RegexMatches(vs[i].text, seen.cells[key])
                ELSE value_matches(vs[i], LookupLower(c, vs, i), LookupPattern(c, vs, i),
                                   seen.cells[key], modifiers)}
<1>1. c.values = values /\ c.modifiers = modifiers /\ condition_field_folded(c) = Fold(field)
  BY DEF About
<1>2. ASSUME NEW key PROVE pass(key) = Passing(vs, modifiers, seen.cells[key])
  <2>1. CASE Contains(modifiers, "re")
    <3>1. \A i \in DOMAIN vs :
            value_matches(vs[i], Fold(vs[i].text), Fold(vs[i].text), seen.cells[key], modifiers)
                <=> RegexMatches(vs[i].text, seen.cells[key])
      <4> HIDE DEF vs
      <4> QED  BY <2>1, RegexFirst DEF OnlyRegex, vs
    <3> HIDE DEF vs
    <3> QED  BY <2>1, <3>1 DEF Passing
  <2>2. CASE ~Contains(modifiers, "re")
    <3> HIDE DEF vs
    <3> QED  BY <2>2 DEF Passing, vs
  <2> QED  BY <2>1, <2>2
<1>3. handle_exists(c, seen) <=> (HasField(Fold(field), seen) = ExpectsField(values))
  BY <1>1 DEF handle_exists
<1>4. handle_fieldref(c, seen) <=> Refers(Fold(field), values, modifiers, seen)
  <2>1. handle_fieldref(c, seen) <=> Refers(condition_field_folded(c), c.values, c.modifiers, seen)
    BY DEF handle_fieldref, Refers, Quantified, Has, Enough
  <2> QED  BY <1>1, <2>1
<1>5. match_field_condition_with_cache(c, seen)
        <=> IF Contains(modifiers, "exists") THEN handle_exists(c, seen)
            ELSE IF Contains(modifiers, "fieldref") THEN handle_fieldref(c, seen)
            ELSE \E key \in KeysOf(Fold(field), seen) : Enough(modifiers, DOMAIN vs, pass(key))
  BY <1>1 DEF match_field_condition_with_cache, Has, Quantified, Enough, LookupLower,
              LookupPattern, Alike
<1> HIDE DEF vs, pass
<1> QED  BY <1>2, <1>3, <1>4, <1>5 DEF Direct, vs

-----------------------------------------------------------------------------
(* The three conditions.                                                    *)

\* As the parser makes it.
LEMMA PlainReads ==
    ASSUME NEW field, NEW folded, NEW values, NEW modifiers,
           ConditionType(field, folded, values, modifiers),
           NEW i \in DOMAIN apply_transforms(values, modifiers)
    PROVE  LET c == FieldCondition(field, folded, values, modifiers)
               vs == apply_transforms(values, modifiers)
           IN /\ About(c, field, values, modifiers)
              /\ PlaceLower(c, vs, i) = Fold(vs[i].text)
              /\ PlacePattern(c, vs, i) = Fold(vs[i].text)
<1> DEFINE c == FieldCondition(field, folded, values, modifiers)
           vs == apply_transforms(values, modifiers)
<1>1. /\ c.field = field /\ c.field_folded = folded /\ c.values = values
      /\ c.modifiers = modifiers /\ c.values_folded = << >> /\ c.values_match_cache = << >>
  BY DEF FieldCondition
<1>2. DOMAIN << >> = {} /\ Len(<< >>) = 0
  OBVIOUS
<1> HIDE DEF c
<1>3. About(c, field, values, modifiers)
  BY <1>1 DEF About, condition_field_folded, ConditionType
<1>4. PlaceLower(c, vs, i) = Fold(vs[i].text)
  <2>1. CASE HasTransform(c)
    BY <2>1 DEF PlaceLower
  <2>2. CASE ~HasTransform(c)
    <3>1. vs = values
      <4>1. ~Transforms(modifiers)
        BY <1>1, <2>2 DEF Transforms, HasTransform
      <4> QED  BY <4>1, Untransformed
    <3>2. Len(vs) # 0
      <4>1. PICK T : vs \in Seq(T)
        BY <3>1 DEF ConditionType
      <4>2. i \in 1..Len(vs) /\ Len(vs) \in Nat
        BY <4>1, LenProperties
      <4> QED  BY <4>2
    <3> QED  BY <1>1, <1>2, <3>2 DEF PlaceLower
  <2> QED  BY <2>1, <2>2
<1>5. PlacePattern(c, vs, i) = PlaceLower(c, vs, i)
  BY <1>1, <1>2 DEF PlacePattern
<1> QED  BY <1>3, <1>4, <1>5 DEF c

\* As the engine prepares it, read by place and read by value.
LEMMA PreparedReads ==
    ASSUME NEW field, NEW folded, NEW values, NEW modifiers,
           ConditionType(field, folded, values, modifiers),
           NEW i \in DOMAIN apply_transforms(values, modifiers)
    PROVE  LET c == Prepared(field, values, modifiers)
               vs == apply_transforms(values, modifiers)
           IN /\ About(c, field, values, modifiers)
              /\ PlaceLower(c, vs, i) = Fold(vs[i].text)
              /\ PlacePattern(c, vs, i) = Fold(vs[i].text)
              /\ LookupLower(c, vs, i) = Fold(vs[i].text)
              /\ LookupPattern(c, vs, i) = Fold(vs[i].text)
<1> DEFINE c == Prepared(field, values, modifiers)
           vs == apply_transforms(values, modifiers)
           Folded(j) == Fold(values[j].text)
<1>1. /\ c.field = field /\ c.field_folded = Fold(field) /\ c.values = values
      /\ c.modifiers = modifiers /\ DOMAIN c.values_folded = DOMAIN values
      /\ DOMAIN c.values_match_cache = DOMAIN values
  BY DEF Prepared
<1>2. \A j \in DOMAIN values : c.values_folded[j] = Folded(j)
  BY DEF Prepared
<1>3. \A j \in DOMAIN values :
        c.values_match_cache[j] = IF Transforms(modifiers) THEN {} ELSE {Folded(j)}
  BY DEF Prepared
<1>4. HasTransform(c) <=> Transforms(modifiers)
  BY <1>1 DEF HasTransform, Transforms
<1> HIDE DEF c
<1>5. About(c, field, values, modifiers)
  BY <1>1 DEF About, condition_field_folded
<1>6. CASE Transforms(modifiers)
  <2>1. PlaceLower(c, vs, i) = Fold(vs[i].text) /\ LookupLower(c, vs, i) = Fold(vs[i].text)
    BY <1>4, <1>6 DEF PlaceLower, LookupLower
  <2>2. \A j \in DOMAIN values : c.values_match_cache[j] = {}
    BY <1>3, <1>6
  <2>3. PlacePattern(c, vs, i) = PlaceLower(c, vs, i)
    BY <1>1, <2>2 DEF PlacePattern
  <2>4. LookupPattern(c, vs, i) = LookupLower(c, vs, i)
    BY <1>1, <2>2 DEF LookupPattern, Alike
  <2> QED  BY <1>5, <2>1, <2>3, <2>4 DEF c
<1>7. CASE ~Transforms(modifiers)
  <2>1. vs = values
    BY <1>7, Untransformed
  <2> DEFINE like == Alike(c, values, i)
  <2>2. i \in DOMAIN values /\ i \in like /\ like \subseteq DOMAIN values
    BY <1>1, <2>1 DEF Alike
  <2>3. Min(like) \in like
    <3>1. PICK T : values \in Seq(T)
      BY DEF ConditionType
    <3>2. like \in SUBSET Nat /\ like # {}
      BY <2>2, <3>1, LenProperties
    <3> HIDE DEF like
    <3> QED  BY <3>2, MinIsLeast
  <2>4. Min(like) \in DOMAIN values /\ values[Min(like)] = values[i]
    BY <1>1, <2>2, <2>3 DEF Alike
  <2>5. PlaceLower(c, vs, i) = Fold(vs[i].text) /\ LookupLower(c, vs, i) = Fold(vs[i].text)
    BY <1>2, <2>1, <2>2, <2>4 DEF PlaceLower, LookupLower
  <2>6. c.values_match_cache[i] = {Folded(i)}
        /\ c.values_match_cache[Min(like)] = {Folded(i)}
    BY <1>3, <1>7, <2>2, <2>4
  <2>7. (CHOOSE p \in {Folded(i)} : TRUE) = Folded(i)
    OBVIOUS
  <2>8. PlacePattern(c, vs, i) = Folded(i)
    BY <1>1, <2>1, <2>2, <2>6, <2>7 DEF PlacePattern
  <2>9. LookupPattern(c, vs, i) = Folded(i)
    <3>1. \E j \in like : j \in DOMAIN c.values_match_cache /\ c.values_match_cache[j] # {}
      BY <1>1, <2>2, <2>6
    <3> QED  BY <2>1, <2>6, <2>7, <3>1 DEF LookupPattern
  <2> QED  BY <1>5, <2>1, <2>5, <2>8, <2>9 DEF c
<1> QED  BY <1>6, <1>7

\* A condition as the parser makes it says Direct.
LEMMA PlainIsDirect ==
    ASSUME NEW field, NEW folded, NEW values, NEW modifiers, NEW seen,
           ConditionType(field, folded, values, modifiers)
    PROVE  match_field_condition(FieldCondition(field, folded, values, modifiers), seen)
                <=> Direct(field, values, modifiers, seen)
<1> DEFINE c == FieldCondition(field, folded, values, modifiers)
           vs == apply_transforms(values, modifiers)
<1>1. \A i \in DOMAIN vs : /\ PlaceLower(c, vs, i) = Fold(vs[i].text)
                           /\ PlacePattern(c, vs, i) = Fold(vs[i].text)
  BY PlainReads
<1>2. About(c, field, values, modifiers)
  BY DEF About, FieldCondition, condition_field_folded, ConditionType
<1> HIDE DEF c
<1>3. match_field_condition(c, seen) <=> Direct(field, values, modifiers, seen)
  BY <1>1, <1>2, PlaceIsDirect
<1> QED  BY <1>3 DEF c

\* And as the engine prepares it, to the twin too.
LEMMA PreparedIsDirect ==
    ASSUME NEW field, NEW folded, NEW values, NEW modifiers, NEW seen,
           ConditionType(field, folded, values, modifiers)
    PROVE  LET c == Finalized(FieldCondition(field, folded, values, modifiers))
           IN /\ match_field_condition(c, seen) <=> Direct(field, values, modifiers, seen)
              /\ OnlyRegex(values, modifiers) =>
                    (match_field_condition_with_cache(c, seen)
                        <=> Direct(field, values, modifiers, seen))
<1> DEFINE c == Finalized(FieldCondition(field, folded, values, modifiers))
           p == Prepared(field, values, modifiers)
           vs == apply_transforms(values, modifiers)
           says == Direct(field, values, modifiers, seen)
<1>1. c = p
  BY FinalizedIs
<1>2. PICK M : modifiers \in Seq(M)
  BY DEF ConditionType
<1>3. Len(modifiers) \in Nat
  BY <1>2, LenProperties
<1>4. PICK T : values \in Seq(T)
  BY DEF ConditionType
<1>5. OnlyRegex(values, modifiers) => OnlyRegex(vs, modifiers)
  <2>1. SUFFICES ASSUME Contains(modifiers, "re"), OnlyRegex(values, modifiers)
                 PROVE  \A i \in DOMAIN vs : vs[i].kind # "null"
    BY DEF OnlyRegex
  <2> DEFINE U == {v \in T : v.kind # "null"}
  <2>2. values \in Seq(U)
    <3>1. \A i \in 1..Len(values) : values[i] \in U
      BY <1>4, <2>1, LenProperties, ElementOfSeq DEF OnlyRegex
    <3> HIDE DEF U
    <3>2. values = [i \in 1..Len(values) |-> values[i]] /\ Len(values) \in Nat
      BY <1>4, LenProperties
    <3>3. values \in [1..Len(values) -> U]
      BY <3>1, <3>2
    <3> QED  BY <3>2, <3>3, SeqDef
  <2>3. NonNull(values)
    BY <2>2 DEF NonNull
  <2>4. NonNull(vs)
    BY <1>3, <2>3, ApplyNonNull
  <2>5. PICK V : vs \in Seq(V) /\ \A v \in V : v.kind # "null"
    BY <2>4 DEF NonNull
  <2> HIDE DEF vs
  <2> QED  BY <2>5, LenProperties, ElementOfSeq
<1>6. \A i \in DOMAIN vs : /\ PlaceLower(p, vs, i) = Fold(vs[i].text)
                           /\ PlacePattern(p, vs, i) = Fold(vs[i].text)
                           /\ LookupLower(p, vs, i) = Fold(vs[i].text)
                           /\ LookupPattern(p, vs, i) = Fold(vs[i].text)
  BY PreparedReads
<1>7. About(p, field, values, modifiers)
  BY DEF About, Prepared, condition_field_folded
<1> HIDE DEF p
<1>8. match_field_condition(p, seen) <=> says
  BY <1>6, <1>7, PlaceIsDirect
<1>9. OnlyRegex(values, modifiers) => (match_field_condition_with_cache(p, seen) <=> says)
  BY <1>2, <1>5, <1>6, <1>7, LookupIsDirect
<1> QED  BY <1>1, <1>8, <1>9

-----------------------------------------------------------------------------
(* One identifier.                                                          *)

\* A condition the parser may have made.
Made(c, field, folded, values, modifiers) ==
    /\ c = FieldCondition(field, folded, values, modifiers)
    /\ ConditionType(field, folded, values, modifiers)

\* One on which the three ways agree.
Agreeable(c) ==
    \E field, folded, values, modifiers :
        Made(c, field, folded, values, modifiers) /\ OnlyRegex(values, modifiers)

\* The three ways agree on it.
LEMMA ConditionPaths ==
    ASSUME NEW c, Agreeable(c), NEW seen
    PROVE  /\ match_field_condition(c, seen) <=> match_field_condition(Finalized(c), seen)
           /\ match_field_condition(Finalized(c), seen)
                <=> match_field_condition_with_cache(Finalized(c), seen)
<1>1. PICK field, folded, values, modifiers :
        Made(c, field, folded, values, modifiers) /\ OnlyRegex(values, modifiers)
  BY DEF Agreeable
<1> QED  BY <1>1, PlainIsDirect, PreparedIsDirect DEF Made

\* The groups of a prepared identifier.
LEMMA FinalizedGroups ==
    ASSUME NEW name, NEW groups
    PROVE  LET ready == finalize_identifiers([name |-> name, groups |-> groups])
           IN /\ DOMAIN ready.groups = DOMAIN groups
              /\ \A g \in DOMAIN groups :
                    /\ DOMAIN ready.groups[g] = DOMAIN groups[g]
                    /\ \A c \in DOMAIN groups[g] : ready.groups[g][c] = Finalized(groups[g][c])
<1> DEFINE ident == [name |-> name, groups |-> groups]
           ready == finalize_identifiers(ident)
           prep == [g \in DOMAIN groups |-> [c \in DOMAIN groups[g] |-> Finalized(groups[g][c])]]
<1>1. ready = [ident EXCEPT !.groups = prep]
  BY DEF finalize_identifiers
<1>2. ready.groups = prep
  <2> HIDE DEF prep, ready
  <2> QED  BY <1>1
<1> HIDE DEF ready
<1>3. /\ DOMAIN ready.groups = DOMAIN groups
      /\ \A g \in DOMAIN groups :
            /\ DOMAIN ready.groups[g] = DOMAIN groups[g]
            /\ \A c \in DOMAIN groups[g] : ready.groups[g][c] = Finalized(groups[g][c])
  BY <1>2
<1> QED  BY <1>3 DEF ready

\* And on identifiers of such conditions.
LEMMA IdentifierPaths ==
    ASSUME NEW name, NEW groups, NEW seen,
           \A g \in DOMAIN groups : \A c \in DOMAIN groups[g] : Agreeable(groups[g][c])
    PROVE  LET ident == [name |-> name, groups |-> groups]
               ready == finalize_identifiers(ident)
           IN /\ match_identifier(ident, seen) <=> match_identifier(ready, seen)
              /\ match_identifier(ready, seen) <=> match_identifier_with_cache(ready, seen)
<1> DEFINE ident == [name |-> name, groups |-> groups]
           ready == finalize_identifiers(ident)
<1>1. ident.groups = groups
  OBVIOUS
<1>2. /\ DOMAIN ready.groups = DOMAIN groups
      /\ \A g \in DOMAIN groups :
            /\ DOMAIN ready.groups[g] = DOMAIN groups[g]
            /\ \A c \in DOMAIN groups[g] : ready.groups[g][c] = Finalized(groups[g][c])
  BY FinalizedGroups
<1> HIDE DEF ident, ready
<1>3. match_identifier(ident, seen)
        <=> \E g \in DOMAIN groups : \A c \in DOMAIN groups[g] :
                match_field_condition(groups[g][c], seen)
  BY <1>1 DEF match_identifier
<1>4. match_identifier(ready, seen)
        <=> \E g \in DOMAIN groups : \A c \in DOMAIN groups[g] :
                match_field_condition(Finalized(groups[g][c]), seen)
  BY <1>2 DEF match_identifier
<1>5. match_identifier_with_cache(ready, seen)
        <=> \E g \in DOMAIN groups : \A c \in DOMAIN groups[g] :
                match_field_condition_with_cache(Finalized(groups[g][c]), seen)
  BY <1>2 DEF match_identifier_with_cache
<1>6. \A g \in DOMAIN groups : \A c \in DOMAIN groups[g] :
        /\ match_field_condition(groups[g][c], seen)
                <=> match_field_condition(Finalized(groups[g][c]), seen)
        /\ match_field_condition(Finalized(groups[g][c]), seen)
                <=> match_field_condition_with_cache(Finalized(groups[g][c]), seen)
  BY ConditionPaths
<1> QED  BY <1>3, <1>4, <1>5, <1>6 DEF ident, ready

-----------------------------------------------------------------------------
(* The parser.                                                              *)

\* A node is a scalar, a list or a map, and one only.
LEMMA NodeShape ==
    ASSUME NEW node \in Nodes
    PROVE  /\ IsMap(node) => node \in MapNodes
           /\ IsList(node) => node \in ListNodes
<1>1. node \in SigmaValues => DOMAIN node = {"kind", "text"}
  BY DEF SigmaValues
<1>2. node \in ListNodes => DOMAIN node = {"items"}
  BY DEF ListNodes
<1>3. node \in MapNodes => DOMAIN node = {"entries"}
  BY DEF MapNodes
<1> QED  BY <1>1, <1>2, <1>3, NodesAssumption DEF IsMap, IsList

\* parse_field_values makes a sequence.
LEMMA ValuesType ==
    ASSUME NEW node \in Nodes
    PROVE  \E T : parse_field_values(node) \in Seq(T)
<1>1. CASE IsList(node)
  <2> DEFINE T == {from_yaml(n) : n \in Nodes}
  <2>1. node.items \in Seq(Nodes)
    BY <1>1, NodeShape DEF ListNodes
  <2>2. /\ Len(node.items) \in Nat /\ DOMAIN node.items = 1..Len(node.items)
        /\ \A i \in 1..Len(node.items) : node.items[i] \in Nodes
    BY <2>1, LenProperties, ElementOfSeq
  <2>3. \A i \in 1..Len(node.items) : from_yaml(node.items[i]) \in T
    BY <2>2
  <2> HIDE DEF T
  <2>4. Values(node.items) \in Seq(T)
    <3>1. Values(node.items) \in [1..Len(node.items) -> T]
      BY <2>2, <2>3 DEF Values
    <3> QED  BY <2>2, <3>1, SeqDef
  <2> QED  BY <1>1, <2>4 DEF parse_field_values
<1>2. CASE ~IsList(node)
  BY <1>2, SingleType DEF parse_field_values
<1> QED  BY <1>1, <1>2

EntryType == [field : Seq(Chars), modifiers : Seq(STRING), value : Nodes]

KeywordCondition(values) == FieldCondition(<<>>, <<>>, values, <<"contains">>)

\* Where a condition comes from: an entry of the node, or its values as keywords.
ComesFrom(c, node) ==
    \/ \E entry \in EntryType : entry \in Entries(node) /\ c = EntryCondition(entry)
    \/ \E values : (\E T : values \in Seq(T)) /\ c = KeywordCondition(values)

\* Every condition of these groups does.
AllComeFrom(groups, node) ==
    \A g \in DOMAIN groups : \A c \in DOMAIN groups[g] : ComesFrom(groups[g][c], node)

\* An entry makes such a condition.
LEMMA EntryMade ==
    ASSUME NEW entry \in EntryType
    PROVE  Made(EntryCondition(entry), entry.field, Fold(entry.field),
                parse_field_values(entry.value), entry.modifiers)
<1>1. entry.modifiers \in Seq(STRING) /\ entry.value \in Nodes
  BY DEF EntryType
<1>2. ConditionType(entry.field, Fold(entry.field), parse_field_values(entry.value), entry.modifiers)
  BY <1>1, ValuesType DEF ConditionType
<1> QED  BY <1>2 DEF Made, EntryCondition

\* Keywords do.
LEMMA KeywordMade ==
    ASSUME NEW values, \E T : values \in Seq(T)
    PROVE  Made(KeywordCondition(values), <<>>, <<>>, values, <<"contains">>)
<1>1. \E M : <<"contains">> \in Seq(M)
  BY SingleType
<1> QED  BY <1>1 DEF Made, KeywordCondition, ConditionType

\* Keywords contain, and nothing else.
LEMMA KeywordModifiers ==
    ASSUME NEW modifier, modifier # "contains"
    PROVE  ~Contains(<<"contains">>, modifier)
<1> DEFINE modifiers == <<"contains">>
<1>1. Len(modifiers) = 1 /\ modifiers[1] = "contains"
  OBVIOUS
<1> HIDE DEF modifiers
<1>2. ~Contains(modifiers, modifier)
  BY <1>1 DEF Contains
<1> QED  BY <1>2 DEF modifiers

\* A map's conditions come from its entries.
LEMMA MapComesFrom ==
    ASSUME NEW node \in Nodes, NEW map \in MapNodes, map \in Maps(node)
    PROVE  \A c \in DOMAIN parse_field_map(map) : ComesFrom(parse_field_map(map)[c], node)
<1>1. map.entries \in Seq(EntryType)
  BY DEF MapNodes, EntryType
<1>2. \A c \in DOMAIN map.entries :
        map.entries[c] \in EntryType /\ map.entries[c] \in Entries(node)
  <2>1. DOMAIN map.entries = 1..Len(map.entries)
    BY <1>1, LenProperties
  <2> QED  BY <1>1, <2>1, ElementOfSeq DEF ToSet, Entries
<1> QED  BY <1>2 DEF parse_field_map, ComesFrom

\* Keywords come from no entry.
LEMMA KeywordsComeFrom ==
    ASSUME NEW node, NEW values, \E T : values \in Seq(T)
    PROVE  AllComeFrom(Keywords(values), node)
<1> DEFINE cond == KeywordCondition(values)
<1>1. Keywords(values) = << <<cond>> >>
  BY DEF Keywords, KeywordCondition
<1>2. ComesFrom(cond, node)
  BY DEF ComesFrom
<1> HIDE DEF cond
<1>3. \A g \in DOMAIN << <<cond>> >> : \A c \in DOMAIN << <<cond>> >>[g] : << <<cond>> >>[g][c] = cond
  OBVIOUS
<1> QED  BY <1>1, <1>2, <1>3 DEF AllComeFrom

\* All conditions parse_search_identifier makes of a node come from the node.
LEMMA ParsedComesFrom ==
    ASSUME NEW name, NEW node \in Nodes
    PROVE  \E groups : /\ parse_search_identifier(name, node) = [name |-> name, groups |-> groups]
                       /\ AllComeFrom(groups, node)
<1> DEFINE groups == parse_search_identifier(name, node).groups
<1>1. parse_search_identifier(name, node) = [name |-> name, groups |-> groups]
  BY DEF parse_search_identifier
<1>2. AllComeFrom(groups, node)
  <2>1. CASE IsMap(node)
    <3>1. groups = <<parse_field_map(node)>>
      BY <2>1 DEF parse_search_identifier
    <3>2. node \in Maps(node)
      BY <2>1 DEF Maps
    <3>3. \A c \in DOMAIN parse_field_map(node) : ComesFrom(parse_field_map(node)[c], node)
      BY <2>1, <3>2, NodeShape, MapComesFrom
    <3> HIDE DEF groups
    <3>4. DOMAIN groups = {1} /\ groups[1] = parse_field_map(node)
      BY <3>1
    <3> QED  BY <3>3, <3>4 DEF AllComeFrom
  <2>2. CASE ~IsMap(node) /\ ~IsList(node)
    <3>1. groups = Keywords(<<from_yaml(node)>>)
      BY <2>2 DEF parse_search_identifier
    <3>2. \E T : <<from_yaml(node)>> \in Seq(T)
      BY SingleType
    <3> HIDE DEF groups
    <3> QED  BY <3>1, <3>2, KeywordsComeFrom
  <2>3. CASE ~IsMap(node) /\ IsList(node) /\ AllMaps(node.items)
    <3>1. groups = [i \in DOMAIN node.items |-> parse_field_map(node.items[i])]
      BY <2>3 DEF parse_search_identifier
    <3>2. node.items \in Seq(Nodes)
      BY <2>3, NodeShape DEF ListNodes
    <3>3. ASSUME NEW i \in DOMAIN node.items
          PROVE  \A c \in DOMAIN parse_field_map(node.items[i]) :
                    ComesFrom(parse_field_map(node.items[i])[c], node)
      <4>1. node.items[i] \in Nodes /\ IsMap(node.items[i])
        BY <2>3, <3>2, <3>3, LenProperties, ElementOfSeq DEF AllMaps
      <4>2. node.items[i] \in Maps(node)
        BY <2>3, <4>1 DEF Maps, ToSet
      <4> QED  BY <4>1, <4>2, NodeShape, MapComesFrom
    <3> HIDE DEF groups
    <3> QED  BY <3>1, <3>3 DEF AllComeFrom
  <2>4. CASE ~IsMap(node) /\ IsList(node) /\ ~AllMaps(node.items)
    <3>1. groups = Keywords(Values(node.items))
      BY <2>4 DEF parse_search_identifier
    <3>2. \E T : Values(node.items) \in Seq(T)
      BY <2>4, ValuesType DEF parse_field_values
    <3> HIDE DEF groups
    <3> QED  BY <3>1, <3>2, KeywordsComeFrom
  <2> QED  BY <2>1, <2>2, <2>3, <2>4
<1> QED  BY <1>1, <1>2

\* The identifiers of a document are some of its nodes.
LEMMA NamedType ==
    ASSUME NEW nodes \in Documents
    PROVE  Named(nodes) \in Documents
<1> DEFINE D == [name : STRING, node : Nodes]
           S == Seq(D)
           n == Len(nodes)
           next(s, i) == IF nodes[i].name = "condition" THEN s ELSE Append(s, nodes[i])
           step == [i \in 1..n |-> [s \in S |-> next(s, i)]]
           upTo == CHOOSE f : f = [i \in 0..n |-> IF i = 0 THEN <<>>
                                       ELSE IF nodes[i].name = "condition" THEN f[i - 1]
                                       ELSE Append(f[i - 1], nodes[i])]
<1>1. n \in Nat /\ \A i \in 1..n : nodes[i] \in D
  BY LenProperties, ElementOfSeq DEF Documents
<1>2. <<>> \in S
  OBVIOUS
<1>3. ASSUME NEW s \in S, NEW i \in 1..n PROVE next(s, i) \in S
  <2>1. nodes[i] \in D
    BY <1>1
  <2> HIDE DEF D
  <2> QED  BY <1>3, <2>1, AppendProperties
<1>4. step \in [1..n -> [S -> S]]
  <2> HIDE DEF S, n, next
  <2> QED  BY <1>3
<1>5. PICK f \in [0..n -> S] : Follows(f, n, <<>>, step)
  <2> HIDE DEF S, step, n
  <2> QED  BY <1>1, <1>2, <1>4, Recursion
<1>6. Named(nodes) = upTo[n]
  BY DEF Named
<1>7. f = [i \in 0..n |-> IF i = 0 THEN <<>>
                          ELSE IF nodes[i].name = "condition" THEN f[i - 1]
                          ELSE Append(f[i - 1], nodes[i])]
  <2>1. \A i \in 1..n : f[i - 1] \in S
    <3>1. \A i \in 1..n : i - 1 \in 0..n
      BY <1>1
    <3> HIDE DEF S, n
    <3> QED  BY <1>5, <3>1
  <2>2. \A i \in 1..n : f[i] = next(f[i - 1], i)
    <3> SUFFICES ASSUME NEW i \in 1..n PROVE f[i] = next(f[i - 1], i)
      OBVIOUS
    <3>1. \A s \in S : step[i][s] = next(s, i)
      OBVIOUS
    <3> HIDE DEF S, n, step, next
    <3>2. f[i] = step[i][f[i - 1]]
      BY <1>5 DEF Follows
    <3> QED  BY <2>1, <3>1, <3>2
  <2>3. f[0] = <<>> /\ f = [i \in 0..n |-> f[i]]
    BY <1>5 DEF Follows
  <2>4. \A i \in 0..n : i = 0 \/ i \in 1..n
    BY <1>1
  <2> HIDE DEF n, S
  <2>5. \A i \in 0..n : f[i] = IF i = 0 THEN <<>>
                               ELSE IF nodes[i].name = "condition" THEN f[i - 1]
                               ELSE Append(f[i - 1], nodes[i])
    BY <2>2, <2>3, <2>4
  <2> QED  BY <2>3, <2>5
<1>8. upTo = [i \in 0..n |-> IF i = 0 THEN <<>>
                          ELSE IF nodes[i].name = "condition" THEN upTo[i - 1]
                          ELSE Append(upTo[i - 1], nodes[i])]
  <2> HIDE DEF n
  <2> QED  BY <1>7
<1> HIDE DEF upTo
<1> DEFINE G == {i \in 0..n : upTo[i] \in S}
<1>9. 0..n \subseteq G
  <2>1. 0 \in G
    BY <1>1, <1>2, <1>8
  <2>2. ASSUME NEW i \in 0..(n - 1), i \in G PROVE i + 1 \in G
    <3>1. i + 1 \in 1..n /\ (i + 1) - 1 = i /\ i + 1 \in 0..n /\ i + 1 # 0
      BY <1>1
    <3>2. upTo[i + 1] = next(upTo[i], i + 1)
      <4> HIDE DEF n
      <4> QED  BY <1>8, <3>1
    <3> HIDE DEF n, S, next
    <3> QED  BY <1>3, <2>2, <3>1, <3>2
  <2> HIDE DEF G, n
  <2> QED  BY <1>1, <2>1, <2>2, Upwards
<1>10. n \in 0..n
  BY <1>1
<1> QED  BY <1>6, <1>9, <1>10 DEF Documents

-----------------------------------------------------------------------------
(* The paths of the engine.                                                 *)

\* The three answers to an identifier.
AnswersTo(ident, seen) ==
    [plain  |-> match_identifier(ident, seen),
     loaded |-> match_identifier(finalize_identifiers(ident), seen),
     cached |-> match_identifier_with_cache(finalize_identifiers(ident), seen)]

\* What is evaluated is what the parser made of the document.
Parsed ==
    /\ detection \in Documents
    /\ phase \in {"enrich", "evaluate", "done"} => identifiers = parse_detection(detection)
    /\ phase = "done" => matches = [i \in DOMAIN identifiers |-> AnswersTo(identifiers[i], view)]

\* Parsed is inductive.
LEMMA ParsedInductive == Spec => []Parsed
<1>1. Init => Parsed
  BY CasesAssumption DEF Init, Parsed
<1>2. Parsed /\ [Next]_vars => Parsed'
  <2> SUFFICES ASSUME Parsed, [Next]_vars PROVE Parsed'
    OBVIOUS
  <2> USE DEF Parsed
  <2>1. CASE AddMapping
    BY <2>1 DEF AddMapping
  <2>2. CASE LoadRule
    BY <2>2 DEF LoadRule
  <2>3. CASE RejectRule
    BY <2>3 DEF RejectRule
  <2>4. CASE VisitKey
    BY <2>4 DEF VisitKey
  <2>5. CASE BuildView
    BY <2>5 DEF BuildView
  <2>6. CASE Evaluate
    BY <2>6 DEF Evaluate, AnswersTo
  <2>7. CASE AddField
    BY <2>7 DEF AddField
  <2>8. CASE UNCHANGED vars
    BY <2>8 DEF vars
  <2> QED  BY <2>1, <2>2, <2>3, <2>4, <2>5, <2>6, <2>7, <2>8 DEF Next, Finished
<1> QED  BY <1>1, <1>2, PTL DEF Spec

\* What PathsAgree leaves out, of an entry.
Sayable(entry) ==
    Contains(entry.modifiers, "re") =>
        /\ ToSet(entry.modifiers) \intersect (Comparisons \union {"cidr"}) = {}
        /\ \A v \in ToSet(parse_field_values(entry.value)) : v.kind # "null"

\* The conditions of a node whose entries are all sayable are such that the ways agree.
LEMMA SayableAgrees ==
    ASSUME NEW node, NEW c, ComesFrom(c, node), \A entry \in Entries(node) : Sayable(entry)
    PROVE  Agreeable(c)
<1>1. CASE \E entry \in EntryType : entry \in Entries(node) /\ c = EntryCondition(entry)
  <2>1. PICK entry \in EntryType : entry \in Entries(node) /\ c = EntryCondition(entry)
    BY <1>1
  <2>2. OnlyRegex(parse_field_values(entry.value), entry.modifiers)
    BY <2>1 DEF Sayable, OnlyRegex, ToSet
  <2> QED  BY <2>1, <2>2, EntryMade DEF Agreeable
<1>2. CASE \E values : (\E T : values \in Seq(T)) /\ c = KeywordCondition(values)
  <2>1. PICK values : (\E T : values \in Seq(T)) /\ c = KeywordCondition(values)
    BY <1>2
  <2>2. ~Contains(<<"contains">>, "re")
    BY KeywordModifiers
  <2>3. OnlyRegex(values, <<"contains">>)
    BY <2>2 DEF OnlyRegex
  <2> QED  BY <2>1, <2>3, KeywordMade DEF Agreeable
<1> QED  BY <1>1, <1>2 DEF ComesFrom

\* An identifier of the rule is a node of the document, parsed.
LEMMA IdentifierOf ==
    ASSUME Parsed, phase \in {"enrich", "evaluate", "done"}, NEW i \in DOMAIN identifiers
    PROVE  \E name, groups : /\ identifiers[i] = [name |-> name, groups |-> groups]
                             /\ AllComeFrom(groups, NodeOf(i))
<1>1. identifiers = parse_detection(detection) /\ detection \in Documents
  BY DEF Parsed
<1>2. i \in DOMAIN Named(detection)
      /\ identifiers[i] = parse_search_identifier(Named(detection)[i].name, NodeOf(i))
  BY <1>1 DEF parse_detection, NodeOf
<1>3. NodeOf(i) \in Nodes
  <2>1. Named(detection) \in Documents
    BY <1>1, NamedType
  <2>2. Named(detection)[i] \in [name : STRING, node : Nodes]
    BY <1>2, <2>1, LenProperties, ElementOfSeq DEF Documents
  <2> QED  BY <2>2 DEF NodeOf
<1> QED  BY <1>2, <1>3, ParsedComesFrom

\* The three answers are then equal.
LEMMA ParsedAgree == Parsed => PathsAgree
<1> SUFFICES ASSUME Parsed, phase = "done", NEW i \in DOMAIN matches,
                    \A entry \in Entries(NodeOf(i)) : Sayable(entry)
             PROVE  /\ matches[i].plain <=> matches[i].loaded
                    /\ matches[i].loaded <=> matches[i].cached
  BY DEF PathsAgree, Sayable
<1>1. /\ matches = [j \in DOMAIN identifiers |-> AnswersTo(identifiers[j], view)]
      /\ i \in DOMAIN identifiers
  BY DEF Parsed
<1>2. PICK name, groups : /\ identifiers[i] = [name |-> name, groups |-> groups]
                          /\ AllComeFrom(groups, NodeOf(i))
  BY <1>1, IdentifierOf
<1> DEFINE ident == identifiers[i]
           ready == finalize_identifiers(ident)
<1>3. \A g \in DOMAIN groups : \A c \in DOMAIN groups[g] : Agreeable(groups[g][c])
  BY <1>2, SayableAgrees DEF AllComeFrom
<1>4. /\ match_identifier(ident, view) <=> match_identifier(ready, view)
      /\ match_identifier(ready, view) <=> match_identifier_with_cache(ready, view)
  BY <1>2, <1>3, IdentifierPaths
<1>5. matches[i] = AnswersTo(ident, view)
  BY <1>1
<1> HIDE DEF ident
<1> QED  BY <1>4, <1>5 DEF AnswersTo

\* match_identifier says the same of an identifier as a caller builds it and as the engine
\* prepares it, and its twin for rules with a regex says so too.
THEOREM PathsAlwaysAgree == Spec => []PathsAgree
BY ParsedInductive, ParsedAgree, PTL

-----------------------------------------------------------------------------
(* More cells, no fewer matches.                                            *)

\* Every cell of the one is a cell of the other.
Grows(seen, more) ==
    \A key \in DOMAIN seen.cells : key \in DOMAIN more.cells /\ more.cells[key] = seen.cells[key]

\* More cells, and the condition holds still.
LEMMA DirectGrows ==
    ASSUME NEW field, NEW values, NEW modifiers, NEW seen, NEW more, Grows(seen, more),
           ~Contains(modifiers, "exists"), ~Contains(modifiers, "fieldref"),
           Direct(field, values, modifiers, seen)
    PROVE  Direct(field, values, modifiers, more)
<1> DEFINE vs == apply_transforms(values, modifiers)
           passes(text) == Enough(modifiers, DOMAIN vs, Passing(vs, modifiers, text))
<1>1. PICK key \in KeysOf(Fold(field), seen) : passes(seen.cells[key])
  BY DEF Direct
<1>2. key \in KeysOf(Fold(field), more) /\ more.cells[key] = seen.cells[key]
  BY <1>1 DEF KeysOf, Grows
<1>3. \E k \in KeysOf(Fold(field), more) : passes(more.cells[k])
  <2> HIDE DEF passes
  <2> QED  BY <1>1, <1>2
<1> QED  BY <1>3 DEF Direct

\* A condition that neither asks for the presence of a field nor compares with one.
Growing(c) ==
    \E field, folded, values, modifiers :
        /\ Made(c, field, folded, values, modifiers)
        /\ ~Contains(modifiers, "exists") /\ ~Contains(modifiers, "fieldref")

\* So it does as the engine prepares it.
LEMMA ConditionGrows ==
    ASSUME NEW c, Growing(c), NEW seen, NEW more, Grows(seen, more),
           match_field_condition(Finalized(c), seen)
    PROVE  match_field_condition(Finalized(c), more)
<1>1. PICK field, folded, values, modifiers :
        /\ Made(c, field, folded, values, modifiers)
        /\ ~Contains(modifiers, "exists") /\ ~Contains(modifiers, "fieldref")
  BY DEF Growing
<1>2. Direct(field, values, modifiers, seen)
  BY <1>1, PreparedIsDirect DEF Made
<1>3. Direct(field, values, modifiers, more)
  BY <1>1, <1>2, DirectGrows
<1> QED  BY <1>1, <1>3, PreparedIsDirect DEF Made

\* And so does an identifier of such conditions.
LEMMA IdentifierGrows ==
    ASSUME NEW name, NEW groups, NEW seen, NEW more, Grows(seen, more),
           \A g \in DOMAIN groups : \A c \in DOMAIN groups[g] : Growing(groups[g][c]),
           match_identifier(finalize_identifiers([name |-> name, groups |-> groups]), seen)
    PROVE  match_identifier(finalize_identifiers([name |-> name, groups |-> groups]), more)
<1> DEFINE ready == finalize_identifiers([name |-> name, groups |-> groups])
<1>1. /\ DOMAIN ready.groups = DOMAIN groups
      /\ \A g \in DOMAIN groups :
            /\ DOMAIN ready.groups[g] = DOMAIN groups[g]
            /\ \A c \in DOMAIN groups[g] : ready.groups[g][c] = Finalized(groups[g][c])
  BY FinalizedGroups
<1> HIDE DEF ready
<1>2. PICK g \in DOMAIN groups : \A c \in DOMAIN groups[g] :
        match_field_condition(Finalized(groups[g][c]), seen)
  BY <1>1 DEF match_identifier, ready
<1>3. \A c \in DOMAIN groups[g] : match_field_condition(Finalized(groups[g][c]), more)
  BY <1>2, ConditionGrows
<1>4. match_identifier(ready, more)
  BY <1>1, <1>2, <1>3 DEF match_identifier
<1> QED  BY <1>4 DEF ready

\* Entries without exists and fieldref make such conditions.
LEMMA PlainEntryGrows ==
    ASSUME NEW node, NEW c, ComesFrom(c, node),
           \A entry \in Entries(node) : ToSet(entry.modifiers) \intersect {"exists", "fieldref"} = {}
    PROVE  Growing(c)
<1>1. CASE \E entry \in EntryType : entry \in Entries(node) /\ c = EntryCondition(entry)
  <2>1. PICK entry \in EntryType : entry \in Entries(node) /\ c = EntryCondition(entry)
    BY <1>1
  <2>2. ~Contains(entry.modifiers, "exists") /\ ~Contains(entry.modifiers, "fieldref")
    <3>1. DOMAIN entry.modifiers = 1..Len(entry.modifiers)
      BY LenProperties DEF EntryType
    <3> QED  BY <2>1, <3>1 DEF Contains, ToSet
  <2> QED  BY <2>1, <2>2, EntryMade DEF Growing
<1>2. CASE \E values : (\E T : values \in Seq(T)) /\ c = KeywordCondition(values)
  <2>1. PICK values : (\E T : values \in Seq(T)) /\ c = KeywordCondition(values)
    BY <1>2
  <2>2. ~Contains(<<"contains">>, "exists") /\ ~Contains(<<"contains">>, "fieldref")
    BY KeywordModifiers
  <2> QED  BY <2>1, <2>2, KeywordMade DEF Growing
<1> QED  BY <1>1, <1>2 DEF ComesFrom

-----------------------------------------------------------------------------
(* The aliases of an event.                                                 *)

\* A set of one at most, in a sequence.
LEMMA OneToSeq ==
    ASSUME NEW S, \A x, y \in S : x = y
    PROVE  SetToSeq(S) \in Seq(S) /\ ToSet(SetToSeq(S)) = S
<1> DEFINE n == Cardinality(S)
           F == [1..n -> S]
           s == SetToSeq(S)
<1>1. (\E f \in F : IsInjective(f)) => s \in F
  <2>1. s = CHOOSE f \in F : IsInjective(f)
    BY DEF SetToSeq
  <2> HIDE DEF s, F
  <2> QED  BY <2>1
<1>2. CASE S = {}
  <2>1. n = 0 /\ 1..n = {}
    <3>1. n = 0
      BY <1>2, FS_EmptySet
    <3> HIDE DEF n
    <3> QED  BY <3>1
  <2>2. \E f \in F : IsInjective(f)
    <3> DEFINE f == [i \in 1..n |-> i]
    <3> HIDE DEF n
    <3>1. f \in F /\ IsInjective(f)
      BY <2>1 DEF IsInjective
    <3> QED  BY <3>1
  <2>3. s \in F
    BY <1>1, <2>2
  <2> HIDE DEF s, n
  <2>4. s \in Seq(S) /\ DOMAIN s = {}
    BY <2>1, <2>3, SeqDef
  <2> QED  BY <1>2, <2>4 DEF ToSet, s
<1>3. CASE S # {}
  <2>1. PICK x \in S : TRUE
    BY <1>3
  <2>2. S = {x}
    BY <2>1
  <2>3. n = 1 /\ 1..n = {1}
    <3>1. n = 1
      BY <2>2, FS_Singleton
    <3> HIDE DEF n
    <3> QED  BY <3>1
  <2>4. \E f \in F : IsInjective(f)
    <3> DEFINE f == [i \in 1..n |-> x]
    <3> HIDE DEF n
    <3>1. f \in F /\ IsInjective(f)
      BY <2>1, <2>3 DEF IsInjective
    <3> QED  BY <3>1
  <2>5. s \in F
    BY <1>1, <2>4
  <2> HIDE DEF s, n
  <2>6. s \in Seq(S) /\ DOMAIN s = {1} /\ s[1] = x
    <3>1. s \in [1..1 -> S]
      BY <2>3, <2>5
    <3>2. s \in Seq(S)
      BY <3>1, SeqDef
    <3>3. s[1] \in S /\ DOMAIN s = {1}
      BY <2>3, <2>5
    <3> QED  BY <2>2, <3>2, <3>3
  <2>7. ToSet(s) = S
    BY <2>2, <2>6 DEF ToSet
  <2> QED  BY <2>6, <2>7 DEF s
<1> QED  BY <1>2, <1>3

\* A sequence over some values is one over more.
LEMMA Widens ==
    ASSUME NEW S, NEW T, S \subseteq T, NEW s \in Seq(S)
    PROVE  s \in Seq(T)
<1>1. /\ Len(s) \in Nat /\ s = [i \in 1..Len(s) |-> s[i]]
      /\ \A i \in 1..Len(s) : s[i] \in T
  BY LenProperties, ElementOfSeq
<1>2. s \in [1..Len(s) -> T]
  BY <1>1
<1> QED  BY <1>1, <1>2, SeqDef

\* w is u followed by v.
Follow(T, u, v, w) == u \in Seq(T) /\ v \in Seq(T) /\ w = u \o v

\* What is in two sequences is in the one followed by the other.
LEMMA ConcatSet ==
    ASSUME NEW T, NEW u, NEW v, NEW w, Follow(T, u, v, w)
    PROVE  w \in Seq(T) /\ ToSet(w) = ToSet(u) \union ToSet(v)
<1>1. /\ w \in Seq(T) /\ Len(w) = Len(u) + Len(v)
      /\ \A i \in 1..(Len(u) + Len(v)) : w[i] = IF i <= Len(u) THEN u[i] ELSE v[i - Len(u)]
  BY ConcatProperties DEF Follow
<1>2. /\ Len(u) \in Nat /\ DOMAIN u = 1..Len(u)
      /\ Len(v) \in Nat /\ DOMAIN v = 1..Len(v)
      /\ DOMAIN w = 1..Len(w)
  BY <1>1, LenProperties DEF Follow
<1>3. ASSUME NEW i \in DOMAIN u PROVE u[i] \in ToSet(w)
  <2>1. i \in DOMAIN w /\ w[i] = u[i]
    BY <1>1, <1>2
  <2> QED  BY <2>1 DEF ToSet
<1>4. ASSUME NEW i \in DOMAIN v PROVE v[i] \in ToSet(w)
  <2>1. i + Len(u) \in DOMAIN w /\ (i + Len(u)) - Len(u) = i /\ ~(i + Len(u) <= Len(u))
    BY <1>1, <1>2
  <2>2. w[i + Len(u)] = v[i]
    BY <1>1, <1>2, <2>1
  <2> QED  BY <2>1, <2>2 DEF ToSet
<1>5. ASSUME NEW i \in DOMAIN w PROVE w[i] \in ToSet(u) \union ToSet(v)
  <2>1. CASE i <= Len(u)
    BY <1>1, <1>2, <2>1 DEF ToSet
  <2>2. CASE ~(i <= Len(u))
    <3>1. i - Len(u) \in DOMAIN v
      BY <1>1, <1>2, <2>2
    <3>2. w[i] = v[i - Len(u)]
      BY <1>1, <1>2, <2>2
    <3> QED  BY <3>1, <3>2 DEF ToSet
  <2> QED  BY <2>1, <2>2
<1>6. ToSet(u) \union ToSet(v) \subseteq ToSet(w)
  BY <1>3, <1>4 DEF ToSet
<1>7. ToSet(w) \subseteq ToSet(u) \union ToSet(v)
  <2>1. \A x \in ToSet(w) : \E i \in DOMAIN w : x = w[i]
    BY DEF ToSet
  <2> QED  BY <1>5, <2>1
<1> QED  BY <1>1, <1>6, <1>7

\* The greatest of some places of a sequence.
LEMMA MaxOfPlaces ==
    ASSUME NEW n \in Nat, NEW S \in SUBSET (1..n), S # {}
    PROVE  Max(S) \in S
<1> DEFINE T == {n - i : i \in S}
<1>1. T \in SUBSET Nat /\ T # {}
  <2>1. \A i \in S : i \in 1..n /\ n - i \in Nat
    OBVIOUS
  <2>2. T \subseteq Nat
    BY <2>1
  <2>3. PICK i \in S : TRUE
    OBVIOUS
  <2>4. n - i \in T
    OBVIOUS
  <2> HIDE DEF T
  <2> QED  BY <2>2, <2>4
<1>2. PICK i \in S : n - i = Min(T) /\ \A k \in T : Min(T) <= k
  <2>1. Min(T) \in T /\ \A k \in T : Min(T) <= k
    <3> HIDE DEF T
    <3> QED  BY <1>1, MinIsLeast
  <2> QED  BY <2>1
<1>3. \A j \in S : i >= j
  <2> SUFFICES ASSUME NEW j \in S PROVE i >= j
    OBVIOUS
  <2>1. n - i <= n - j
    BY <1>2
  <2>2. i \in 1..n /\ j \in 1..n
    OBVIOUS
  <2> QED  BY <2>1, <2>2
<1> QED  BY <1>3 DEF Max

\* The cells are the fields, and for every Sigma name they lack the value of a field
\* that goes by it.
Shows(m, fields, cells) ==
    /\ \A key \in DOMAIN fields : key \in DOMAIN cells /\ cells[key] = fields[key]
    /\ \A key \in DOMAIN fields : \A name \in SigmaNames(m, key) : name \in DOMAIN cells
    /\ \A name \in DOMAIN cells :
        name \in DOMAIN fields
        \/ \E key \in DOMAIN fields : name \in SigmaNames(m, key) /\ cells[name] = fields[key]

\* Aliases collected from the fields looked at.
Collected(m, fields, keys, found) ==
    /\ \E T : found \in Seq(T)
    /\ keys \subseteq DOMAIN fields
    /\ \A alias \in ToSet(found) :
        /\ alias.name \notin DOMAIN fields
        /\ \E key \in keys : alias.name \in SigmaNames(m, key) /\ alias.value = fields[key]
    /\ \A key \in keys : \A name \in SigmaNames(m, key) :
        name \in DOMAIN fields \/ \E alias \in ToSet(found) : alias.name = name

\* enriched makes such cells, whatever the order of the aliases.
LEMMA EnrichedShows ==
    ASSUME NEW m, NEW fields, NEW found, Collected(m, fields, DOMAIN fields, found)
    PROVE  Shows(m, fields, enriched(fields, found))
<1> DEFINE cells == enriched(fields, found)
           Places(key) == {i \in DOMAIN found : found[i].name = key}
           names == {alias.name : alias \in ToSet(found)}
<1>1. /\ DOMAIN cells = DOMAIN fields \union names
      /\ \A key \in DOMAIN cells :
            cells[key] = IF Places(key) = {} THEN fields[key] ELSE found[Max(Places(key))].value
  BY DEF enriched
<1> HIDE DEF cells
<1>2. \A i \in DOMAIN found : found[i] \in ToSet(found)
  BY DEF ToSet
<1>3. \A key \in DOMAIN fields : Places(key) = {}
  BY <1>2 DEF Collected
<1>4. ASSUME NEW name \in DOMAIN cells, name \notin DOMAIN fields
      PROVE  \E key \in DOMAIN fields : name \in SigmaNames(m, key) /\ cells[name] = fields[key]
  <2>1. name \in names
    BY <1>1, <1>4
  <2>2. Places(name) # {}
    BY <2>1 DEF ToSet
  <2>3. PICK T : found \in Seq(T)
    BY DEF Collected
  <2>4. Max(Places(name)) \in Places(name)
    <3>1. Places(name) \in SUBSET (1..Len(found)) /\ Len(found) \in Nat
      BY <2>3, LenProperties
    <3> HIDE DEF Places
    <3> QED  BY <2>2, <3>1, MaxOfPlaces
  <2> DEFINE alias == found[Max(Places(name))]
  <2>5. alias \in ToSet(found) /\ alias.name = name
    BY <1>2, <2>4
  <2>6. cells[name] = alias.value
    BY <1>1, <2>2
  <2> HIDE DEF alias
  <2> QED  BY <2>5, <2>6 DEF Collected
<1>5. ASSUME NEW key \in DOMAIN fields PROVE key \in DOMAIN cells /\ cells[key] = fields[key]
  BY <1>1, <1>3
<1>6. ASSUME NEW key \in DOMAIN fields, NEW name \in SigmaNames(m, key)
      PROVE  name \in DOMAIN cells
  BY <1>1 DEF Collected
<1>7. Shows(m, fields, cells)
  BY <1>4, <1>5, <1>6 DEF Shows
<1> QED  BY <1>7 DEF cells

\* One more field looked at.
LEMMA VisitCollects ==
    ASSUME NEW m, NEW fields, NEW keys, NEW found, Collected(m, fields, keys, found),
           NEW key \in DOMAIN fields
    PROVE  Collected(m, fields, keys \union {key},
                     found \o SetToSeq({[name |-> name, value |-> fields[key]] :
                                            name \in Aliases(m, fields, key)}))
<1> DEFINE new == {[name |-> name, value |-> fields[key]] : name \in Aliases(m, fields, key)}
           more == SetToSeq(new)
           all == found \o more
<1>1. \A x, y \in new : x = y
  BY DEF Aliases, SigmaNames
<1>2. more \in Seq(new) /\ ToSet(more) = new
  <2> HIDE DEF new
  <2> QED  BY <1>1, OneToSeq
<1>3. PICK T : found \in Seq(T)
  BY DEF Collected
<1>4. all \in Seq(T \union new) /\ ToSet(all) = ToSet(found) \union new
  <2> HIDE DEF new, more
  <2>1. found \in Seq(T \union new) /\ more \in Seq(T \union new)
    BY <1>2, <1>3, Widens
  <2>2. Follow(T \union new, found, more, all)
    BY <2>1 DEF Follow
  <2> HIDE DEF all
  <2> QED  BY <1>2, <2>2, ConcatSet
<1> HIDE DEF all, more
<1>5. ASSUME NEW alias \in ToSet(all)
      PROVE  /\ alias.name \notin DOMAIN fields
             /\ \E k \in keys \union {key} : alias.name \in SigmaNames(m, k) /\ alias.value = fields[k]
  <2>1. CASE alias \in ToSet(found)
    BY <2>1 DEF Collected
  <2>2. CASE alias \in new
    BY <2>2 DEF Aliases
  <2> HIDE DEF new
  <2> QED  BY <1>4, <2>1, <2>2
<1>6. ASSUME NEW k \in keys \union {key}, NEW name \in SigmaNames(m, k), name \notin DOMAIN fields
      PROVE  \E alias \in ToSet(all) : alias.name = name
  <2>1. CASE k \in keys
    <3> HIDE DEF new
    <3> QED  BY <1>4, <1>6, <2>1 DEF Collected
  <2>2. CASE k = key
    <3> DEFINE alias == [name |-> name, value |-> fields[key]]
    <3>1. alias \in new /\ alias.name = name
      BY <1>6, <2>2 DEF Aliases
    <3> HIDE DEF new, alias
    <3> QED  BY <1>4, <3>1
  <2> QED  BY <2>1, <2>2
<1>7. keys \union {key} \subseteq DOMAIN fields
  BY DEF Collected
<1> HIDE DEF new
<1>8. Collected(m, fields, keys \union {key}, all)
  BY <1>4, <1>5, <1>6, <1>7 DEF Collected
<1> QED  BY <1>8 DEF all, more, new

\* The cells of an event with an unrelated field hold those without.
LEMMA CellsGrow ==
    ASSUME NEW m, NEW fields, NEW wider, NEW cells, NEW more,
           Shows(m, fields, cells), Shows(m, wider, more),
           \A key \in DOMAIN fields : key \in DOMAIN wider /\ wider[key] = fields[key],
           \A new \in DOMAIN wider \ DOMAIN fields : \A key \in DOMAIN fields :
                /\ new \notin SigmaNames(m, key)
                /\ SigmaNames(m, new) \intersect SigmaNames(m, key) = {},
           \A j, k \in DOMAIN fields :
                SigmaNames(m, j) \intersect SigmaNames(m, k) # {} => j = k,
           NEW name \in DOMAIN cells
    PROVE  name \in DOMAIN more /\ more[name] = cells[name]
<1>1. CASE name \in DOMAIN fields
  BY <1>1 DEF Shows
<1>2. CASE name \notin DOMAIN fields
  <2>1. PICK key \in DOMAIN fields : name \in SigmaNames(m, key) /\ cells[name] = fields[key]
    BY <1>2 DEF Shows
  <2>2. name \in DOMAIN more
    BY <2>1 DEF Shows
  <2>3. name \notin DOMAIN wider
    BY <1>2, <2>1
  <2>4. PICK k \in DOMAIN wider : name \in SigmaNames(m, k) /\ more[name] = wider[k]
    BY <2>2, <2>3 DEF Shows
  <2>5. k \in DOMAIN fields
    BY <2>1, <2>4
  <2>6. k = key
    BY <2>1, <2>4, <2>5
  <2> QED  BY <2>1, <2>2, <2>4, <2>6
<1> QED  BY <1>1, <1>2

-----------------------------------------------------------------------------
(* The event, its view, and the event before the field was added.           *)

\* The aliases are those of the fields looked at.
Collecting ==
    /\ Collected(mapping, event, visited, aliases)
    /\ phase = "map" => visited = {} /\ aliases = <<>>

\* The cells of the view are what the field map says of the event.
Seeing == phase \in {"evaluate", "done"} => Shows(mapping, event, view.cells)

\* What is remembered is the event as it was, and its answers on some view of it.
RemembersOf(old, m, fields, idents) ==
    /\ \A key \in DOMAIN old.event : key \in DOMAIN fields /\ fields[key] = old.event[key]
    /\ \E seen : /\ Shows(m, old.event, seen.cells)
                 /\ old.matches = [i \in DOMAIN idents |-> AnswersTo(idents[i], seen)]

Remembering ==
    /\ phase \in {"map", "rejected"} => before = {}
    /\ \A old \in before : RemembersOf(old, mapping, event, identifiers)

Growth == Parsed /\ Collecting /\ Seeing /\ Remembering

\* No field looked at, no alias.
LEMMA NothingCollected ==
    ASSUME NEW m, NEW fields
    PROVE  Collected(m, fields, {}, <<>>)
<1> DEFINE none == <<>>
<1>1. ToSet(none) = {}
  BY DEF ToSet
<1>2. none \in Seq(Nat)
  OBVIOUS
<1> HIDE DEF none
<1>3. \E T : none \in Seq(T)
  BY <1>2
<1>4. \A alias \in ToSet(none) : FALSE
  BY <1>1
<1>5. Collected(m, fields, {}, none)
  <2>1. {} \subseteq DOMAIN fields
    OBVIOUS
  <2> QED  BY <1>3, <1>4, <2>1, Zenon DEF Collected
<1> QED  BY <1>5 DEF none

\* And every view of them has them.
LEMMA ViewShows ==
    ASSUME NEW m, NEW fields, NEW found, Collected(m, fields, DOMAIN fields, found),
           NEW v \in Views(enriched(fields, found))
    PROVE  Shows(m, fields, v.cells)
<1> DEFINE shown  == enriched(fields, found)
           folded == {Fold(key) : key \in DOMAIN shown}
           firsts == {f \in [folded -> DOMAIN shown] : \A name \in folded : Fold(f[name]) = name}
<1>1. Views(shown) = {[cells |-> shown, first |-> first] : first \in firsts}
  BY DEF Views
<1> HIDE DEF shown, firsts
<1>2. v.cells = shown
  BY <1>1 DEF shown
<1> QED  BY <1>2, EnrichedShows DEF shown

\* It holds at first.
LEMMA GrowthInit == Init => Collecting /\ Seeing /\ Remembering
BY NothingCollected DEF Init, Collecting, Seeing, Remembering

\* A step keeps it.
LEMMA GrowthNext ==
    Growth /\ [Next]_vars => Collecting' /\ Seeing' /\ Remembering'
<1> SUFFICES ASSUME Growth, [Next]_vars PROVE Collecting' /\ Seeing' /\ Remembering'
  OBVIOUS
<1>0. Parsed /\ Collecting /\ Seeing /\ Remembering
  BY DEF Growth
<1>1. CASE AddMapping
  <2>1. /\ phase = "map" /\ phase' = phase /\ event' = event /\ visited' = visited
        /\ aliases' = aliases /\ before' = before
    BY <1>1 DEF AddMapping
  <2>2. Collecting'
    BY <1>0, <2>1, NothingCollected DEF Collecting
  <2>3. Seeing'
    BY <2>1 DEF Seeing
  <2> QED  BY <1>0, <2>1, <2>2, <2>3 DEF Remembering
<1>2. CASE LoadRule
  <2>1. /\ phase = "map" /\ phase' = "enrich" /\ event' = event /\ visited' = visited
        /\ aliases' = aliases /\ before' = before /\ mapping' = mapping
    BY <1>2 DEF LoadRule
  <2> QED  BY <1>0, <2>1 DEF Collecting, Seeing, Remembering
<1>3. CASE RejectRule
  <2>1. /\ phase = "map" /\ phase' = "rejected" /\ event' = event /\ visited' = visited
        /\ aliases' = aliases /\ before' = before /\ mapping' = mapping
    BY <1>3 DEF RejectRule
  <2> QED  BY <1>0, <2>1 DEF Collecting, Seeing, Remembering
<1>4. CASE VisitKey
  <2>1. /\ phase = "enrich" /\ phase' = phase /\ event' = event /\ mapping' = mapping
        /\ identifiers' = identifiers /\ before' = before
    BY <1>4 DEF VisitKey
  <2>2. PICK key \in DOMAIN event :
          /\ visited' = visited \union {key}
          /\ aliases' = aliases \o SetToSeq({[name |-> name, value |-> event[key]] :
                                              name \in Aliases(mapping, event, key)})
    BY <1>4 DEF VisitKey
  <2>3. Collected(mapping, event, visited', aliases')
    BY <1>0, <2>2, VisitCollects DEF Collecting
  <2> QED  BY <1>0, <2>1, <2>3 DEF Collecting, Seeing, Remembering
<1>5. CASE BuildView
  <2>1. /\ phase = "enrich" /\ phase' = "evaluate" /\ event' = event /\ mapping' = mapping
        /\ identifiers' = identifiers /\ before' = before /\ visited' = visited
        /\ aliases' = aliases /\ visited = DOMAIN event
        /\ view' \in Views(enriched(event, aliases))
    BY <1>5 DEF BuildView
  <2>2. Shows(mapping, event, view'.cells)
    BY <1>0, <2>1, ViewShows DEF Collecting
  <2> QED  BY <1>0, <2>1, <2>2 DEF Collecting, Seeing, Remembering
<1>6. CASE Evaluate
  <2>1. /\ phase = "evaluate" /\ phase' = "done" /\ event' = event /\ mapping' = mapping
        /\ identifiers' = identifiers /\ before' = before /\ visited' = visited
        /\ aliases' = aliases /\ view' = view
    BY <1>6 DEF Evaluate
  <2> QED  BY <1>0, <2>1 DEF Collecting, Seeing, Remembering
<1>7. CASE AddField
  <2>1. /\ phase = "done" /\ phase' = "enrich" /\ mapping' = mapping
        /\ identifiers' = identifiers /\ visited' = {} /\ aliases' = <<>>
        /\ before' = {[event |-> event, matches |-> matches]}
    BY <1>7 DEF AddField
  <2>2. PICK field \in case.fields :
          /\ field.key \notin DOMAIN event
          /\ event' = [key \in DOMAIN event \union {field.key} |->
                        IF key = field.key THEN field.value ELSE event[key]]
    BY <1>7 DEF AddField
  <2>3. \A key \in DOMAIN event : key \in DOMAIN event' /\ event'[key] = event[key]
    BY <2>2
  <2>4. /\ Shows(mapping, event, view.cells)
        /\ matches = [i \in DOMAIN identifiers |-> AnswersTo(identifiers[i], view)]
    BY <1>0, <2>1 DEF Seeing, Parsed
  <2>5. RemembersOf([event |-> event, matches |-> matches], mapping, event', identifiers)
    BY <2>3, <2>4 DEF RemembersOf
  <2>6. Remembering'
    BY <2>1, <2>5 DEF Remembering
  <2>7. Collecting' /\ Seeing'
    BY <2>1, NothingCollected DEF Collecting, Seeing
  <2> QED  BY <2>6, <2>7
<1>8. CASE UNCHANGED vars
  BY <1>0, <1>8 DEF vars, Collecting, Seeing, Remembering
<1> QED  BY <1>1, <1>2, <1>3, <1>4, <1>5, <1>6, <1>7, <1>8 DEF Next, Finished

\* So it always holds.
LEMMA GrowthInductive == Spec => []Growth
<1>1. Init => Collecting /\ Seeing /\ Remembering
  BY GrowthInit
<1>2. Growth /\ [Next]_vars => Collecting' /\ Seeing' /\ Remembering'
  BY GrowthNext
<1> QED  BY <1>1, <1>2, ParsedInductive, PTL DEF Spec, Growth

\* It is what monotonicity needs.
LEMMA GrowthKeeps == Growth => ExtraFieldsKeepMatches
<1> SUFFICES ASSUME Growth, phase = "done", NEW old \in before,
                    Unrelated(old.event), OneSource(old.event), NEW i \in DOMAIN matches,
                    \A entry \in Entries(NodeOf(i)) :
                        ToSet(entry.modifiers) \intersect {"exists", "fieldref"} = {},
                    old.matches[i].loaded
             PROVE  matches[i].loaded
  BY DEF ExtraFieldsKeepMatches
<1>0. Parsed /\ Seeing /\ Remembering
  BY DEF Growth
<1>1. /\ matches = [j \in DOMAIN identifiers |-> AnswersTo(identifiers[j], view)]
      /\ i \in DOMAIN identifiers /\ Shows(mapping, event, view.cells)
  BY <1>0 DEF Parsed, Seeing
<1>2. RemembersOf(old, mapping, event, identifiers)
  BY <1>0 DEF Remembering
<1>3. PICK seen : /\ Shows(mapping, old.event, seen.cells)
                  /\ old.matches = [j \in DOMAIN identifiers |-> AnswersTo(identifiers[j], seen)]
  BY <1>2 DEF RemembersOf
<1>4. Grows(seen, view)
  <2>1. \A key \in DOMAIN old.event : key \in DOMAIN event /\ event[key] = old.event[key]
    BY <1>2 DEF RemembersOf
  <2> QED  BY <1>1, <1>3, <2>1, CellsGrow DEF Grows, Unrelated, OneSource
<1>5. PICK name, groups : /\ identifiers[i] = [name |-> name, groups |-> groups]
                          /\ AllComeFrom(groups, NodeOf(i))
  BY <1>0, <1>1, IdentifierOf
<1>6. \A g \in DOMAIN groups : \A c \in DOMAIN groups[g] : Growing(groups[g][c])
  BY <1>5, PlainEntryGrows DEF AllComeFrom
<1> DEFINE ident == identifiers[i]
<1>7. old.matches[i] = AnswersTo(ident, seen) /\ matches[i] = AnswersTo(ident, view)
  BY <1>1, <1>3
<1>8. match_identifier(finalize_identifiers(ident), seen)
  BY <1>7 DEF AnswersTo
<1>9. match_identifier(finalize_identifiers(ident), view)
  BY <1>4, <1>5, <1>6, <1>8, IdentifierGrows
<1> QED  BY <1>7, <1>9 DEF AnswersTo

\* A field that has nothing to do with the others never takes a match away, in whatever
\* order enrich_event_cow looks at the fields before and after.
THEOREM ExtraFieldsAlwaysKeepMatches == Spec => []ExtraFieldsKeepMatches
BY GrowthInductive, GrowthKeeps, PTL

-----------------------------------------------------------------------------
(* Sequences of sequences, concatenated.                                    *)

\* One sequence after another: where the elements are.
LEMMA FollowElements ==
    ASSUME NEW T, NEW u, NEW v, NEW w, Follow(T, u, v, w)
    PROVE  /\ w \in Seq(T) /\ Len(u) \in Nat /\ Len(v) \in Nat /\ Len(w) = Len(u) + Len(v)
           /\ \A i \in 1..Len(u) : w[i] = u[i]
           /\ \A i \in 1..Len(v) : w[Len(u) + i] = v[i]
<1>1. u \in Seq(T) /\ v \in Seq(T) /\ w = u \o v
  BY DEF Follow
<1>2. Len(u) \in Nat /\ Len(v) \in Nat
  BY <1>1, LenProperties
<1>3. /\ u \o v \in Seq(T) /\ Len(u \o v) = Len(u) + Len(v)
      /\ \A i \in 1..(Len(u) + Len(v)) : (u \o v)[i] = IF i <= Len(u) THEN u[i] ELSE v[i - Len(u)]
  BY <1>1, ConcatProperties
<1>4. ASSUME NEW i \in 1..Len(v) PROVE w[Len(u) + i] = v[i]
  <2>1. /\ Len(u) + i \in 1..(Len(u) + Len(v)) /\ ~(Len(u) + i <= Len(u))
        /\ (Len(u) + i) - Len(u) = i
    BY <1>2
  <2> QED  BY <1>1, <1>3, <2>1
<1>5. \A i \in 1..Len(u) : w[i] = u[i]
  <2>1. \A i \in 1..Len(u) : i \in 1..(Len(u) + Len(v)) /\ i <= Len(u)
    BY <1>2
  <2> QED  BY <1>1, <1>3, <2>1
<1> QED  BY <1>1, <1>2, <1>3, <1>4, <1>5

\* What concatenation makes of the first sequences does not depend on those after them.
LEMMA FlattenAppend ==
    ASSUME NEW T, NEW seqs \in Seq(Seq(T)), NEW last \in Seq(T)
    PROVE  FlattenSeq(Append(seqs, last)) = FlattenSeq(seqs) \o last
<1> DEFINE all == Append(seqs, last)
           n == Len(seqs)
<1>1. /\ all \in Seq(Seq(T)) /\ all # << >> /\ Len(all) = n + 1 /\ n \in Nat
      /\ all[n + 1] = last /\ \A i \in 1..n : all[i] = seqs[i]
  BY AppendProperties, LenProperties
<1> HIDE DEF all
<1>2. PICK f \in [1..(n + 1) -> Seq(T)] :
        /\ \A i \in 1..(n + 1) : f[i] = Concatenated(all, f, i)
        /\ FlattenSeq(all) = f[n + 1]
  BY <1>1, FlattenUnfolds
<1>3. CASE n = 0
  <2>1. seqs = << >>
    BY <1>3, EmptySeq
  <2>2. f[1] = last /\ FlattenSeq(all) = f[1]
    BY <1>1, <1>2, <1>3 DEF Concatenated
  <2>3. << >> \o last = last
    BY ConcatEmptySeq
  <2> QED  BY <2>1, <2>2, <2>3, FlattenEmpty DEF all
<1>4. CASE n # 0
  <2>1. seqs # << >>
    BY <1>4, EmptySeq
  <2>2. PICK g \in [1..n -> Seq(T)] :
          /\ \A i \in 1..n : g[i] = Concatenated(seqs, g, i)
          /\ FlattenSeq(seqs) = g[n]
    BY <2>1, FlattenUnfolds
  <2> DEFINE G == {k \in 0..n : k = 0 \/ f[k] = g[k]}
  <2>3. 0 \in G
    BY <1>1
  <2>4. ASSUME NEW k \in 0..(n - 1), k \in G PROVE k + 1 \in G
    <3>1. k + 1 \in 1..n /\ k + 1 \in 1..(n + 1) /\ (k + 1) - 1 = k /\ k + 1 \in 0..n
      BY <1>1
    <3>2. /\ f[k + 1] = Concatenated(all, f, k + 1) /\ g[k + 1] = Concatenated(seqs, g, k + 1)
          /\ all[k + 1] = seqs[k + 1]
      BY <1>1, <1>2, <2>2, <3>1
    <3>3. k # 0 => f[k] = g[k]
      BY <2>4
    <3>4. Concatenated(all, f, k + 1) = Concatenated(seqs, g, k + 1)
      BY <3>1, <3>2, <3>3 DEF Concatenated
    <3> QED  BY <3>1, <3>2, <3>4
  <2>5. n \in 0..n /\ n + 1 \in 1..(n + 1) /\ (n + 1) - 1 = n
    BY <1>1
  <2> HIDE DEF G
  <2>6. n \in G
    BY <1>1, <2>3, <2>4, <2>5, Upwards
  <2>7. f[n] = g[n]
    BY <1>4, <2>6 DEF G
  <2>8. f[n + 1] = f[n] \o last
    <3>1. f[n + 1] = Concatenated(all, f, n + 1) /\ n + 1 # 1
      BY <1>1, <1>2, <1>4, <2>5
    <3> QED  BY <1>1, <2>5, <3>1 DEF Concatenated
  <2> QED  BY <1>2, <2>2, <2>7, <2>8 DEF all
<1> QED  BY <1>3, <1>4

\* Appending after concatenating is appending to what comes last.
LEMMA AppendAssociates ==
    ASSUME NEW S, NEW s \in Seq(S), NEW t \in Seq(S), NEW x \in S
    PROVE  s \o Append(t, x) = Append(s \o t, x)
<1> DEFINE one == <<x>>
<1>1. one \in Seq(S) /\ s \o t \in Seq(S)
  BY ConcatProperties
<1>2. Append(t, x) = t \o one /\ Append(s \o t, x) = (s \o t) \o one
  BY <1>1, AppendIsConcat
<1> HIDE DEF one
<1>3. (s \o t) \o one = s \o (t \o one)
  BY <1>1, ConcatAssociative
<1> QED  BY <1>2, <1>3

\* However three sequences are put together.
Regrouped(u, v, x) == (u \o v) \o x = u \o (v \o x)

\* It makes no difference.
LEMMA Regroup ==
    ASSUME NEW T, NEW u \in Seq(T), NEW v \in Seq(T), NEW x \in Seq(T)
    PROVE  Regrouped(u, v, x)
BY ConcatAssociative DEF Regrouped

\* To concatenate two lists of sequences is to concatenate what each makes.
LEMMA FlattenConcat ==
    ASSUME NEW T, NEW s \in Seq(Seq(T)), NEW t \in Seq(Seq(T))
    PROVE  FlattenSeq(s \o t) = FlattenSeq(s) \o FlattenSeq(t)
<1> DEFINE n == Len(t)
           pre(k) == SubSeq(t, 1, k)
           G == {k \in 0..n : FlattenSeq(s \o pre(k)) = FlattenSeq(s) \o FlattenSeq(pre(k))}
<1>1. n \in Nat /\ \A i \in 1..n : t[i] \in Seq(T)
  BY LenProperties, ElementOfSeq
<1>2. 0 \in G
  <2>1. pre(0) = << >>
    BY SubSeqEmpty
  <2>2. s \o << >> = s /\ FlattenSeq(s) \o << >> = FlattenSeq(s)
    BY ConcatEmptySeq, FlattenType
  <2> HIDE DEF pre
  <2>3. FlattenSeq(s \o pre(0)) = FlattenSeq(s) \o FlattenSeq(pre(0))
    BY <2>1, <2>2, FlattenEmpty
  <2> QED  BY <1>1, <2>3
<1>3. ASSUME NEW k \in 0..(n - 1), k \in G PROVE k + 1 \in G
  <2>1. k + 1 \in 1..n /\ k + 1 \in 0..n /\ t[k + 1] \in Seq(T)
    BY <1>1
  <2>2. pre(k) \in Seq(Seq(T))
    <3>1. \A i \in 1..k : t[i] \in Seq(T)
      BY <1>1
    <3> QED  BY <1>1, <3>1, SubSeqProperties
  <2>3. pre(k + 1) = Append(pre(k), t[k + 1])
    <3>1. SubSeq(t, 1, k + 1) = SubSeq(t, 1, (k + 1) - 1) \o <<t[k + 1]>>
      BY <1>1, <2>1, SubSeqRecursiveSecond
    <3>2. Append(pre(k), t[k + 1]) = pre(k) \o <<t[k + 1]>>
      <4> HIDE DEF pre
      <4> QED  BY <2>1, <2>2, AppendIsConcat
    <3>3. (k + 1) - 1 = k
      BY <2>1
    <3> QED  BY <3>1, <3>2, <3>3
  <2> DEFINE a == pre(k)
             x == t[k + 1]
  <2>4. FlattenSeq(s \o a) = FlattenSeq(s) \o FlattenSeq(a)
    BY <1>3
  <2> HIDE DEF pre, a, x
  <2>5. /\ s \o Append(a, x) = Append(s \o a, x) /\ s \o a \in Seq(Seq(T))
    <3>1. a \in Seq(Seq(T)) /\ x \in Seq(T)
      BY <2>1, <2>2 DEF a, x
    <3> QED  BY <3>1, AppendAssociates, ConcatProperties
  <2>6. /\ FlattenSeq(Append(s \o a, x)) = FlattenSeq(s \o a) \o x
        /\ FlattenSeq(Append(a, x)) = FlattenSeq(a) \o x
    BY <2>1, <2>2, <2>5, FlattenAppend DEF a, x
  <2>7. (FlattenSeq(s) \o FlattenSeq(a)) \o x = FlattenSeq(s) \o (FlattenSeq(a) \o x)
    <3>1. a \in Seq(Seq(T)) /\ x \in Seq(T)
      BY <2>1, <2>2 DEF a, x
    <3>2. FlattenSeq(s) \in Seq(T) /\ FlattenSeq(a) \in Seq(T)
      BY <3>1, FlattenType
    <3>3. Regrouped(FlattenSeq(s), FlattenSeq(a), x)
      BY <3>1, <3>2, Regroup
    <3> QED  BY <3>3 DEF Regrouped
  <2>8. pre(k + 1) = Append(a, x)
    BY <2>3 DEF a, x
  <2>9. FlattenSeq(s \o pre(k + 1)) = FlattenSeq(s) \o FlattenSeq(pre(k + 1))
    BY <2>4, <2>5, <2>6, <2>7, <2>8
  <2> QED  BY <2>1, <2>9
<1>4. n \in 0..n
  BY <1>1
<1> HIDE DEF G
<1>5. n \in G
  BY <1>1, <1>2, <1>3, <1>4, Upwards
<1>6. pre(n) = t
  BY SubSeqFull
<1> QED  BY <1>5, <1>6 DEF G

\* Every element of every sequence is in their concatenation.
LEMMA FlattenHolds ==
    ASSUME NEW T, NEW seqs \in Seq(Seq(T)), NEW i \in 1..Len(seqs)
    PROVE  ToSet(seqs[i]) \subseteq ToSet(FlattenSeq(seqs))
<1> DEFINE n == Len(seqs)
<1>1. n \in Nat /\ n # 0 /\ \A k \in 1..n : seqs[k] \in Seq(T)
  BY LenProperties, ElementOfSeq
<1>2. seqs # << >>
  BY <1>1, EmptySeq
<1>3. PICK f \in [1..n -> Seq(T)] :
        /\ \A k \in 1..n : f[k] = Concatenated(seqs, f, k)
        /\ FlattenSeq(seqs) = f[n]
  BY <1>2, FlattenUnfolds
<1> DEFINE G == {k \in 0..n : k < i \/ ToSet(seqs[i]) \subseteq ToSet(f[k])}
<1>4. 0 \in G
  BY <1>1
<1>5. ASSUME NEW k \in 0..(n - 1), k \in G PROVE k + 1 \in G
  <2>1. k + 1 \in 1..n /\ k + 1 \in 0..n /\ (k + 1) - 1 = k /\ f[k + 1] = Concatenated(seqs, f, k + 1)
    BY <1>1, <1>3
  <2>2. CASE k = 0
    <3>1. f[k + 1] = seqs[k + 1]
      BY <2>1, <2>2 DEF Concatenated
    <3> QED  BY <1>1, <2>1, <2>2, <3>1
  <2>3. CASE k # 0
    <3>1. k \in 1..n /\ k + 1 # 1
      BY <1>1, <2>3
    <3>2. f[k + 1] = f[k] \o seqs[k + 1]
      BY <2>1, <3>1 DEF Concatenated
    <3>3. Follow(T, f[k], seqs[k + 1], f[k + 1])
      BY <1>1, <1>3, <2>1, <3>1, <3>2 DEF Follow
    <3>4. ToSet(f[k + 1]) = ToSet(f[k]) \union ToSet(seqs[k + 1])
      BY <3>3, ConcatSet
    <3>5. CASE k + 1 = i
      BY <2>1, <3>4, <3>5
    <3>6. CASE k + 1 # i
      <4>1. k < i => k + 1 < i
        BY <1>1, <3>6
      <4>2. ~(k < i) => ToSet(seqs[i]) \subseteq ToSet(f[k])
        BY <1>5
      <4> QED  BY <2>1, <3>4, <4>1, <4>2
    <3> QED  BY <3>5, <3>6
  <2> QED  BY <2>2, <2>3
<1>6. n \in 0..n /\ ~(n < i)
  BY <1>1
<1> HIDE DEF G
<1>7. n \in G
  BY <1>1, <1>4, <1>5, <1>6, Upwards
<1> QED  BY <1>3, <1>6, <1>7 DEF G

\* Sequences of four: where each element ends up.
LEMMA FlattenFours ==
    ASSUME NEW T, NEW seqs \in Seq(Seq(T)), \A k \in 1..Len(seqs) : Len(seqs[k]) = 4
    PROVE  /\ Len(FlattenSeq(seqs)) = 4 * Len(seqs)
           /\ \A k \in 1..Len(seqs), i \in 1..4 : FlattenSeq(seqs)[4 * (k - 1) + i] = seqs[k][i]
<1> DEFINE n == Len(seqs)
<1>1. n \in Nat /\ \A k \in 1..n : seqs[k] \in Seq(T)
  BY LenProperties, ElementOfSeq
<1>2. CASE n = 0
  <2>1. seqs = << >>
    BY <1>2, EmptySeq
  <2>2. Len(FlattenSeq(seqs)) = 0
    BY <2>1, FlattenEmpty, EmptySeq
  <2> QED  BY <1>2, <2>2
<1>3. CASE n # 0
  <2>1. seqs # << >>
    BY <1>3, EmptySeq
  <2>2. PICK f \in [1..n -> Seq(T)] :
          /\ \A k \in 1..n : f[k] = Concatenated(seqs, f, k)
          /\ FlattenSeq(seqs) = f[n]
    BY <2>1, FlattenUnfolds
  <2> DEFINE Right(m) == /\ Len(f[m]) = 4 * m
                         /\ \A k \in 1..m, i \in 1..4 : f[m][4 * (k - 1) + i] = seqs[k][i]
             G == {m \in 0..n : m = 0 \/ Right(m)}
  <2>3. 0 \in G
    BY <1>1
  <2>4. ASSUME NEW m \in 0..(n - 1), m \in G PROVE m + 1 \in G
    <3>1. m + 1 \in 1..n /\ m + 1 \in 0..n /\ (m + 1) - 1 = m /\ f[m + 1] = Concatenated(seqs, f, m + 1)
      BY <1>1, <2>2
    <3>2. CASE m = 0
      <4>1. f[1] = seqs[1] /\ 1 \in 1..n
        BY <3>1, <3>2 DEF Concatenated
      <4>2. Len(f[1]) = 4 /\ \A i \in 1..4 : f[1][4 * (1 - 1) + i] = seqs[1][i]
        BY <4>1
      <4>3. Right(1)
        BY <4>2
      <4> QED  BY <3>1, <3>2, <4>3
    <3>3. CASE m # 0
      <4>1. f[m + 1] = f[m] \o seqs[m + 1] /\ f[m] \in Seq(T) /\ seqs[m + 1] \in Seq(T)
        <5>1. m \in 1..n /\ m + 1 # 1
          BY <1>1, <3>3
        <5>2. f[m + 1] = f[m] \o seqs[m + 1]
          BY <3>1, <5>1 DEF Concatenated
        <5> QED  BY <1>1, <2>2, <3>1, <5>1, <5>2
      <4>2. Right(m)
        BY <2>4, <3>3
      <4>3. Follow(T, f[m], seqs[m + 1], f[m + 1])
        BY <4>1 DEF Follow
      <4>7. Len(f[m]) = 4 * m /\ Len(seqs[m + 1]) = 4
        BY <3>1, <4>2
      <4>8. /\ Len(f[m + 1]) = Len(f[m]) + Len(seqs[m + 1])
            /\ \A l \in 1..Len(f[m]) : f[m + 1][l] = f[m][l]
            /\ \A l \in 1..Len(seqs[m + 1]) : f[m + 1][Len(f[m]) + l] = seqs[m + 1][l]
        <5> DEFINE u == f[m]
                   v == seqs[m + 1]
                   w == f[m + 1]
        <5>1. Follow(T, u, v, w)
          BY <4>3
        <5> HIDE DEF u, v, w
        <5>2. /\ Len(w) = Len(u) + Len(v)
              /\ \A l \in 1..Len(u) : w[l] = u[l]
              /\ \A l \in 1..Len(v) : w[Len(u) + l] = v[l]
          BY <5>1, FollowElements
        <5> QED  BY <5>2 DEF u, v, w
      <4>6. /\ Len(f[m + 1]) = 4 * m + 4
            /\ \A l \in 1..(4 * m) : f[m + 1][l] = f[m][l]
            /\ \A l \in 1..4 : f[m + 1][4 * m + l] = seqs[m + 1][l]
        BY <4>7, <4>8
      <4>4. ASSUME NEW k \in 1..(m + 1), NEW i \in 1..4
            PROVE  f[m + 1][4 * (k - 1) + i] = seqs[k][i]
        <5>1. CASE k <= m
          <6>1. k \in 1..m /\ 4 * (k - 1) + i \in 1..(4 * m)
            BY <5>1
          <6>2. f[m][4 * (k - 1) + i] = seqs[k][i]
            BY <4>2, <6>1
          <6> QED  BY <4>6, <6>1, <6>2
        <5>2. CASE k = m + 1
          <6>1. 4 * (k - 1) + i = 4 * m + i
            BY <5>2
          <6>2. f[m + 1][4 * m + i] = seqs[m + 1][i]
            BY <4>6
          <6> QED  BY <5>2, <6>1, <6>2
        <5> QED  BY <5>1, <5>2
      <4>5. Right(m + 1)
        <5>1. Len(f[m + 1]) = 4 * (m + 1)
          BY <4>6
        <5> QED  BY <4>4, <5>1, Zenon
      <4> QED  BY <3>1, <4>5
    <3> QED  BY <3>2, <3>3
  <2>5. n \in 0..n
    BY <1>1
  <2> HIDE DEF G
  <2>6. n \in G
    BY <1>1, <2>3, <2>4, <2>5, Upwards
  <2>7. Right(n)
    BY <1>3, <2>6 DEF G
  <2> QED  BY <2>2, <2>7
<1> QED  BY <1>2, <1>3

-----------------------------------------------------------------------------
(* The bytes of a text.                                                     *)

\* The bytes of the characters of a text, one sequence each.
PerCharacter(text) == [i \in DOMAIN text |-> Utf8(text[i])]

\* They are bytes.
LEMMA PerCharacterType ==
    ASSUME NEW text \in Seq(Chars)
    PROVE  PerCharacter(text) \in Seq(Seq(0..255)) /\ Len(PerCharacter(text)) = Len(text)
<1> DEFINE B == Seq(0..255)
<1>1. DOMAIN text = 1..Len(text) /\ Len(text) \in Nat /\ \A i \in 1..Len(text) : text[i] \in Chars
  BY LenProperties, ElementOfSeq
<1>2. \A i \in 1..Len(text) : Utf8(text[i]) \in B
  BY <1>1, Utf8Assumption
<1> HIDE DEF B
<1>3. PerCharacter(text) \in [1..Len(text) -> B]
  BY <1>1, <1>2 DEF PerCharacter
<1>4. PerCharacter(text) \in Seq(B) /\ DOMAIN PerCharacter(text) = 1..Len(text)
  BY <1>1, <1>3, SeqDef
<1>5. Len(PerCharacter(text)) = Len(text)
  BY <1>1, <1>4, LenProperties
<1> QED  BY <1>4, <1>5 DEF B

\* A text is a sequence of bytes.
LEMMA BytesType ==
    ASSUME NEW text \in Seq(Chars)
    PROVE  Bytes(text) \in Seq(0..255)
BY PerCharacterType, FlattenType DEF Bytes, PerCharacter

\* The bytes of one text after another are its bytes after the other's.
LEMMA BytesConcat ==
    ASSUME NEW s \in Seq(Chars), NEW t \in Seq(Chars)
    PROVE  Bytes(s \o t) = Bytes(s) \o Bytes(t)
<1> DEFINE w == s \o t
           p == PerCharacter(s)
           q == PerCharacter(t)
           r == PerCharacter(w)
           B == Seq(0..255)
<1>1. /\ w \in Seq(Chars) /\ Len(s) \in Nat /\ Len(t) \in Nat /\ Len(w) = Len(s) + Len(t)
      /\ \A i \in 1..Len(s) : w[i] = s[i]
      /\ \A i \in 1..Len(t) : w[Len(s) + i] = t[i]
  BY FollowElements DEF Follow
<1> HIDE DEF w
<1>2. /\ p \in Seq(B) /\ Len(p) = Len(s) /\ q \in Seq(B) /\ Len(q) = Len(t)
      /\ r \in Seq(B) /\ Len(r) = Len(w)
  BY <1>1, PerCharacterType
<1>3. /\ \A i \in 1..Len(s) : p[i] = Utf8(s[i])
      /\ \A i \in 1..Len(t) : q[i] = Utf8(t[i])
      /\ \A i \in 1..Len(w) : r[i] = Utf8(w[i])
  <2>1. DOMAIN s = 1..Len(s) /\ DOMAIN t = 1..Len(t) /\ DOMAIN w = 1..Len(w)
    BY <1>1, LenProperties
  <2> QED  BY <2>1 DEF PerCharacter
<1> HIDE DEF p, q, r, B
<1>4. /\ p \o q \in Seq(B) /\ Len(p \o q) = Len(p) + Len(q)
      /\ \A i \in 1..(Len(p) + Len(q)) : (p \o q)[i] = IF i <= Len(p) THEN p[i] ELSE q[i - Len(p)]
  BY <1>2, ConcatProperties
<1>5. ASSUME NEW i \in 1..Len(r) PROVE r[i] = (p \o q)[i]
  <2>1. CASE i <= Len(s)
    <3>1. i \in 1..Len(s) /\ i \in 1..Len(w) /\ i \in 1..(Len(p) + Len(q)) /\ i <= Len(p)
      BY <1>1, <1>2, <2>1
    <3>2. r[i] = Utf8(w[i]) /\ w[i] = s[i] /\ p[i] = Utf8(s[i]) /\ (p \o q)[i] = p[i]
      BY <1>1, <1>3, <1>4, <3>1
    <3> QED  BY <3>2
  <2>2. CASE ~(i <= Len(s))
    <3> DEFINE j == i - Len(s)
    <3>1. j \in 1..Len(t) /\ i = Len(s) + j /\ i \in 1..Len(w) /\ i \in 1..(Len(p) + Len(q)) /\ ~(i <= Len(p)) /\ i - Len(p) = j
      BY <1>1, <1>2, <2>2
    <3> HIDE DEF j
    <3>2. r[i] = Utf8(w[i]) /\ w[i] = t[j] /\ q[j] = Utf8(t[j]) /\ (p \o q)[i] = q[j]
      BY <1>1, <1>3, <1>4, <3>1
    <3> QED  BY <3>2
  <2> QED  BY <2>1, <2>2
<1>6. r = p \o q
  BY <1>1, <1>2, <1>4, <1>5, SeqEqual
<1>7. FlattenSeq(p \o q) = FlattenSeq(p) \o FlattenSeq(q)
  <2>1. p \in Seq(Seq(0..255)) /\ q \in Seq(Seq(0..255))
    BY <1>2 DEF B
  <2> QED  BY <2>1, FlattenConcat
<1>8. Bytes(w) = FlattenSeq(r) /\ Bytes(s) = FlattenSeq(p) /\ Bytes(t) = FlattenSeq(q)
  BY DEF Bytes, PerCharacter, p, q, r
<1> QED  BY <1>6, <1>7, <1>8 DEF w

\* A character is as many bytes as it has.
LEMMA OneCharacter ==
    ASSUME NEW c \in Chars
    PROVE  Bytes(<<c>>) = Utf8(c)
<1> DEFINE b == Utf8(c)
           S == Seq(0..255)
           none == << >>
<1>1. b \in S /\ none \in Seq(S)
  <2>1. b \in S
    BY Utf8Assumption
  <2> HIDE DEF S, b
  <2> QED  BY <2>1, EmptySeq
<1>2. PerCharacter(<<c>>) = <<b>>
  BY DEF PerCharacter
<1>3. Append(none, b) = <<b>>
  OBVIOUS
<1>4. FlattenSeq(Append(none, b)) = FlattenSeq(none) \o b
  <2> HIDE DEF b
  <2> QED  BY <1>1, FlattenAppend
<1>5. << >> \o b = b
  BY <1>1, ConcatEmptySeq
<1> HIDE DEF b
<1>6. FlattenSeq(PerCharacter(<<c>>)) = b
  BY <1>2, <1>3, <1>4, <1>5, FlattenEmpty
<1> QED  BY <1>6 DEF Bytes, PerCharacter, b

\* Spaces are a byte each.
LEMMA SpaceBytes ==
    ASSUME NEW n \in 0..2
    PROVE  [i \in 1..n |-> " "] \in Seq(Chars) /\ Len(Bytes([i \in 1..n |-> " "])) = n
<1> DEFINE c == " "
<1>1. c \in Chars /\ Len(Utf8(c)) = 1
  BY AlphabetAssumption, Utf8Assumption
<1> HIDE DEF c
<1>2. Len(Bytes(<<c>>)) = 1 /\ <<c>> \in Seq(Chars) /\ Bytes(<<c>>) \in Seq(0..255)
  <2>1. <<c>> \in Seq(Chars)
    BY <1>1
  <2> QED  BY <1>1, <2>1, OneCharacter, BytesType
<1>3. Len(Bytes(<< >>)) = 0
  <2>1. [i \in DOMAIN << >> |-> Utf8(<< >>[i])] = << >>
    OBVIOUS
  <2>2. Bytes(<< >>) = << >>
    BY <2>1, FlattenEmpty DEF Bytes
  <2> QED  BY <2>2
<1>4. Len(Bytes(<<c, c>>)) = 2
  <2>1. <<c, c>> = <<c>> \o <<c>>
    OBVIOUS
  <2>2. Bytes(<<c, c>>) = Bytes(<<c>>) \o Bytes(<<c>>)
    BY <1>2, <2>1, BytesConcat
  <2> DEFINE u == Bytes(<<c>>)
  <2>3. u \in Seq(0..255) /\ Len(u) = 1
    BY <1>2
  <2> HIDE DEF u
  <2>4. Len(u \o u) = 2
    <3>1. Follow(0..255, u, u, u \o u)
      BY <2>3 DEF Follow
    <3>2. Len(u \o u) = Len(u) + Len(u)
      BY <3>1, FollowElements
    <3> QED  BY <2>3, <3>2
  <2> QED  BY <2>2, <2>4 DEF u
<1>5. CASE n = 0
  <2>1. [i \in 1..n |-> c] = << >>
    BY <1>5
  <2> QED  BY <1>3, <1>5, <2>1 DEF c
<1>6. CASE n = 1
  <2>1. [i \in 1..n |-> c] = <<c>>
    BY <1>6
  <2> QED  BY <1>2, <1>6, <2>1 DEF c
<1>7. CASE n = 2
  <2>1. [i \in 1..n |-> c] = <<c, c>> /\ <<c, c>> \in Seq(Chars)
    BY <1>1, <1>7
  <2>2. Len(Bytes([i \in 1..n |-> c])) = n
    BY <1>4, <1>7, <2>1
  <2>3. [i \in 1..n |-> c] \in Seq(Chars)
    BY <2>1
  <2> QED  BY <2>2, <2>3 DEF c
<1>8. n = 0 \/ n = 1 \/ n = 2
  OBVIOUS
<1> QED  BY <1>5, <1>6, <1>7, <1>8, Zenon

-----------------------------------------------------------------------------
(* The base64 encoding of bytes.                                            *)

\* The lesser of two lengths.
LEMMA MinOfTwo ==
    ASSUME NEW a \in Nat, NEW b \in Nat
    PROVE  Min({a, b}) = IF a <= b THEN a ELSE b
<1> DEFINE S == {a, b}
           m == Min(S)
<1>1. S \in SUBSET Nat /\ S # {}
  OBVIOUS
<1>2. m \in S /\ \A k \in S : m <= k
  <2> HIDE DEF S
  <2> QED  BY <1>1, MinIsLeast
<1> HIDE DEF m
<1>3. m = IF a <= b THEN a ELSE b
  BY <1>2
<1> QED  BY <1>3 DEF m

\* The characters of base64.
Digits64 == ToSet(Alphabet)

\* The s-th byte, or nothing in its place.
ByteAt(b, s) == IF s \in 1..Len(b) THEN b[s] ELSE 0

\* What a byte can be.
Octets == 0..255

\* The i-th six bits as encode_chunk takes them.
Shifted(x, y, z, i) == ((x * 65536 + y * 256 + z) \div <<262144, 4096, 64, 1>>[i]) % 64

\* Six bits: the i-th of the four that three bytes x, y and z are.
Sextet(x, y, z, i) ==
    IF i = 1 THEN x \div 4
    ELSE IF i = 2 THEN (x % 4) * 16 + y \div 16
    ELSE IF i = 3 THEN (y % 16) * 4 + z \div 64
    ELSE z % 64

\* The k-th three bytes.
ChunkOf(b, k) == SubSeq(b, 3 * k - 2, Min({3 * k, Len(b)}))

\* A sequence of bytes, encoded.
Encoded(b) == FlattenSeq([k \in 1..CeilDiv(Len(b), 3) |-> EncodeChunk(ChunkOf(b, k))])

\* A byte, cut in two.
LEMMA CutByte ==
    ASSUME NEW y \in 0..255
    PROVE  /\ y = 16 * (y \div 16) + (y % 16) /\ y % 16 \in 0..15 /\ y \div 16 \in 0..15
           /\ y = 4 * (y \div 4) + (y % 4) /\ y % 4 \in 0..3 /\ y \div 4 \in 0..63
<1>1. ASSUME NEW q \in 0..15, NEW s \in 0..15, y = 16 * q + s
      PROVE  y \div 16 = q /\ y % 16 = s
  BY <1>1
<1>2. \E q \in 0..15, s \in 0..15 : y = 16 * q + s
  <2> DEFINE q == y \div 16
  <2>1. q \in 0..15 /\ y - 16 * q \in 0..15
    OBVIOUS
  <2> HIDE DEF q
  <2>2. y = 16 * q + (y - 16 * q)
    BY <2>1
  <2> QED  BY <2>1, <2>2
<1>3. ASSUME NEW q \in 0..63, NEW s \in 0..3, y = 4 * q + s
      PROVE  y \div 4 = q /\ y % 4 = s
  BY <1>3
<1>4. \E q \in 0..63, s \in 0..3 : y = 4 * q + s
  <2> DEFINE q == y \div 4
  <2>1. q \in 0..63 /\ y - 4 * q \in 0..3
    OBVIOUS
  <2> HIDE DEF q
  <2>2. y = 4 * q + (y - 4 * q)
    BY <2>1
  <2> QED  BY <2>1, <2>2
<1>5. y = 16 * (y \div 16) + (y % 16) /\ y % 16 \in 0..15 /\ y \div 16 \in 0..15
  <2>1. PICK q \in 0..15, s \in 0..15 : y = 16 * q + s
    BY <1>2
  <2>2. y \div 16 = q /\ y % 16 = s
    BY <1>1, <2>1
  <2> QED  BY <2>1, <2>2
<1>6. y = 4 * (y \div 4) + (y % 4) /\ y % 4 \in 0..3 /\ y \div 4 \in 0..63
  <2>1. PICK q \in 0..63, s \in 0..3 : y = 4 * q + s
    BY <1>4
  <2>2. y \div 4 = q /\ y % 4 = s
    BY <1>3, <2>1
  <2> QED  BY <2>1, <2>2
<1> QED  BY <1>5, <1>6

\* Shifting and masking the three bytes together gives six bits.
LEMMA SextetIs ==
    ASSUME NEW x \in 0..255, NEW y \in 0..255, NEW z \in 0..255, NEW i \in 1..4
    PROVE  /\ Shifted(x, y, z, i) = Sextet(x, y, z, i)
           /\ Sextet(x, y, z, i) \in 0..63
<1> DEFINE t == x * 65536 + y * 256 + z
<1>1. CASE i = 1
  <2>1. t \div 262144 = x \div 4
    OBVIOUS
  <2>2. x \div 4 \in 0..63
    OBVIOUS
  <2> QED  BY <1>1, <2>1, <2>2 DEF Sextet, Shifted
<1>2. CASE i = 2
  <2>1. t \div 4096 = 16 * x + y \div 16
    <3>1. /\ y = 16 * (y \div 16) + (y % 16) /\ y % 16 \in 0..15 /\ y \div 16 \in 0..15
      BY CutByte
    <3>2. ASSUME NEW q \in 0..15, NEW s \in 0..15, y = 16 * q + s PROVE t \div 4096 = 16 * x + q
      <4> DEFINE m == 16 * x + q
                 r == 256 * s + z
      <4>1. t = 4096 * m + r /\ m \in Nat /\ r \in 0..4095
        BY <3>2
      <4> HIDE DEF t, m, r
      <4>2. t \div 4096 = m
        BY <4>1
      <4> QED  BY <4>2 DEF m
    <3> QED  BY <3>1, <3>2
  <2>2. ASSUME NEW q \in 0..15 PROVE (16 * x + q) % 64 = (x % 4) * 16 + q /\ (x % 4) * 16 + q \in 0..63
    <3>1. x = 4 * (x \div 4) + (x % 4) /\ x % 4 \in 0..3 /\ x \div 4 \in 0..63
      BY CutByte
    <3>2. ASSUME NEW p \in 0..63, NEW r \in 0..3, x = 4 * p + r
          PROVE  (16 * x + q) % 64 = r * 16 + q
      <4> DEFINE a == 16 * x + q
                 s == r * 16 + q
      <4>1. a = 64 * p + s /\ s \in 0..63
        BY <3>2
      <4> HIDE DEF a, s
      <4>2. a % 64 = s
        BY <4>1
      <4> QED  BY <4>2 DEF a, s
    <3> QED  BY <3>1, <3>2
  <2>3. y \div 16 \in 0..15
    OBVIOUS
  <2>4. (t \div 4096) % 64 = (x % 4) * 16 + y \div 16 /\ (x % 4) * 16 + y \div 16 \in 0..63
    BY <2>1, <2>2, <2>3
  <2> QED  BY <1>2, <2>4 DEF Sextet, Shifted
<1>3. CASE i = 3
  <2>1. (t \div 64) % 64 = (y % 16) * 4 + z \div 64
    OBVIOUS
  <2>2. (y % 16) * 4 + z \div 64 \in 0..63
    OBVIOUS
  <2> QED  BY <1>3, <2>1, <2>2 DEF Sextet, Shifted
<1>4. CASE i = 4
  <2>1. (t \div 1) % 64 = z % 64 /\ z % 64 \in 0..63
    OBVIOUS
  <2> QED  BY <1>4, <2>1 DEF Sextet, Shifted
<1> QED  BY <1>1, <1>2, <1>3, <1>4

\* The bytes of a chunk.
ChunkByte(c, i) == IF i <= Len(c) THEN c[i] ELSE 0

\* The same, of every three bytes.
LEMMA SextetsAre ==
    \A x, y, z \in Octets, i \in 1..4 :
        Shifted(x, y, z, i) = Sextet(x, y, z, i) /\ Sextet(x, y, z, i) \in 0..63
BY SextetIs, Zenon DEF Octets

\* A base64 digit for every six bits.
LEMMA DigitType ==
    ASSUME NEW n \in 0..63
    PROVE  Alphabet[n + 1] \in Digits64
<1>1. DOMAIN Alphabet = 1..64
  BY DEF Alphabet
<1>2. n + 1 \in DOMAIN Alphabet
  BY <1>1
<1> HIDE <1>1
<1> QED  BY <1>2 DEF Digits64, ToSet

\* The digit of six bits.
Digit(x, y, z, i) == Alphabet[Sextet(x, y, z, i) + 1]

\* It is one.
LEMMA DigitsAre == \A x, y, z \in Octets, i \in 1..4 : Digit(x, y, z, i) \in Digits64
<1> SUFFICES ASSUME NEW x \in Octets, NEW y \in Octets, NEW z \in Octets, NEW i \in 1..4
             PROVE  Digit(x, y, z, i) \in Digits64
  BY Zenon
<1> DEFINE n == Sextet(x, y, z, i)
<1>1. n \in 0..63
  BY SextetsAre, Zenon
<1> HIDE DEF n
<1>2. Alphabet[n + 1] \in Digits64
  BY <1>1, DigitType
<1> QED  BY <1>2 DEF Digit, n

\* The four characters of a chunk.
LEMMA ChunkDigits ==
    ASSUME NEW c, Len(c) \in Nat, \A i \in 1..3 : ChunkByte(c, i) \in Octets
    PROVE  /\ EncodeChunk(c) \in [1..4 -> Digits64 \union {"="}]
           /\ \A i \in 1..4 : i <= Len(c) + 1 =>
                EncodeChunk(c)[i] = Digit(ChunkByte(c, 1), ChunkByte(c, 2), ChunkByte(c, 3), i)
<1> DEFINE x == ChunkByte(c, 1)
           y == ChunkByte(c, 2)
           z == ChunkByte(c, 3)
           past(i) == i > Len(c) + 1
           six(i) == Shifted(x, y, z, i)
<1>1. EncodeChunk(c) =
        [i \in 1..4 |-> IF i > Len(c) + 1 THEN "="
                        ELSE Alphabet[Shifted(ChunkByte(c, 1), ChunkByte(c, 2), ChunkByte(c, 3), i) + 1]]
  BY DEF EncodeChunk, Shifted, ChunkByte
<1>2. EncodeChunk(c) = [i \in 1..4 |-> IF past(i) THEN "=" ELSE Alphabet[six(i) + 1]]
  BY <1>1
<1>3. x \in Octets /\ y \in Octets /\ z \in Octets
  OBVIOUS
<1> HIDE DEF past, x, y, z
<1>4. \A i \in 1..4 : six(i) = Sextet(x, y, z, i)
  BY <1>3, SextetsAre, Zenon
<1> HIDE DEF six
<1>5. \A i \in 1..4 : EncodeChunk(c)[i] = IF past(i) THEN "=" ELSE Digit(x, y, z, i)
  BY <1>2, <1>4 DEF Digit
<1>6. \A i \in 1..4 : Digit(x, y, z, i) \in Digits64
  BY <1>3, DigitsAre, Zenon
<1>7. EncodeChunk(c) \in [1..4 -> Digits64 \union {"="}]
  BY <1>2, <1>5, <1>6
<1>8. ASSUME NEW i \in 1..4, i <= Len(c) + 1 PROVE EncodeChunk(c)[i] = Digit(x, y, z, i)
  <2>1. ~past(i)
    BY <1>8 DEF past
  <2> QED  BY <1>5, <2>1
<1> QED  BY <1>7, <1>8 DEF x, y, z

\* Where a digit of the encoding comes from, and how long the encoding is.
LEMMA EncodedAt ==
    ASSUME NEW b \in Seq(Octets)
    PROVE  /\ Encoded(b) \in Seq(Digits64 \union {"="})
           /\ Len(Encoded(b)) = 4 * CeilDiv(Len(b), 3)
           /\ \A k \in 1..CeilDiv(Len(b), 3), i \in 1..4 :
                3 * (k - 1) + i <= Len(b) + 1 =>
                    Encoded(b)[4 * (k - 1) + i] =
                        Digit(ByteAt(b, 3 * k - 2), ByteAt(b, 3 * k - 1), ByteAt(b, 3 * k), i)
<1> DEFINE n == CeilDiv(Len(b), 3)
           T == Digits64 \union {"="}
           parts == [k \in 1..n |-> EncodeChunk(ChunkOf(b, k))]
<1>1. Len(b) \in Nat /\ n \in Nat /\ 3 * n >= Len(b) /\ 3 * n <= Len(b) + 2
      /\ \A s \in 1..Len(b) : b[s] \in Octets
  BY LenProperties, ElementOfSeq DEF CeilDiv
<1>2. \A s \in Int : ByteAt(b, s) \in Octets
  BY <1>1 DEF ByteAt, Octets
<1>3. ASSUME NEW k \in 1..n
      PROVE  /\ EncodeChunk(ChunkOf(b, k)) \in Seq(T) /\ Len(EncodeChunk(ChunkOf(b, k))) = 4
             /\ \A i \in 1..4 : 3 * (k - 1) + i <= Len(b) + 1 =>
                    EncodeChunk(ChunkOf(b, k))[i] =
                        Digit(ByteAt(b, 3 * k - 2), ByteAt(b, 3 * k - 1), ByteAt(b, 3 * k), i)
  <2> DEFINE c == ChunkOf(b, k)
             last == Min({3 * k, Len(b)})
             x == ByteAt(b, 3 * k - 2)
             y == ByteAt(b, 3 * k - 1)
             z == ByteAt(b, 3 * k)
  <2>1. last = IF 3 * k <= Len(b) THEN 3 * k ELSE Len(b)
    <3> DEFINE p == 3 * k
               q == Len(b)
    <3>1. p \in Nat /\ q \in Nat
      BY <1>1
    <3> HIDE DEF p, q
    <3>2. Min({p, q}) = IF p <= q THEN p ELSE q
      BY <3>1, MinOfTwo
    <3> QED  BY <3>2 DEF p, q
  <2>2. 3 * k - 2 <= last /\ last \in Nat /\ last <= Len(b) /\ last <= 3 * k
    <3> HIDE DEF last
    <3>1. 3 * k - 2 <= Len(b) /\ k \in Nat
      BY <1>1
    <3> QED  BY <1>1, <2>1, <3>1
  <2>3. /\ Len(c) = last - (3 * k - 2) + 1
        /\ \A i \in 1..(last - (3 * k - 2) + 1) : c[i] = b[(3 * k - 2) + i - 1]
    <3>1. \A i \in (3 * k - 2)..last : b[i] \in Octets
      BY <1>1, <2>2
    <3> DEFINE m == 3 * k - 2
    <3>2. m \in 1..(Len(b) + 1) /\ last \in (m - 1)..Len(b)
      BY <1>1, <2>2
    <3>3. c = SubSeq(b, m, last)
      BY DEF ChunkOf
    <3> HIDE DEF last, m, c
    <3>4. Len(c) = last - m + 1 /\ \A i \in 1..(last - m + 1) : c[i] = b[m + i - 1]
      BY <3>2, <3>3, SubSeqProperties
    <3> QED  BY <3>4 DEF m
  <2> HIDE DEF c, last
  <2>4. ChunkByte(c, 1) = x /\ ChunkByte(c, 2) = y /\ ChunkByte(c, 3) = z
    BY <1>1, <2>1, <2>2, <2>3 DEF ByteAt, ChunkByte
  <2>5. x \in Octets /\ y \in Octets /\ z \in Octets
    BY <1>2
  <2>6. Len(c) \in Nat
    BY <1>1, <2>2, <2>3
  <2> HIDE DEF x, y, z
  <2>7. \A i \in 1..3 : ChunkByte(c, i) \in Octets
    <3>1. \A i \in 1..3 : i = 1 \/ i = 2 \/ i = 3
      OBVIOUS
    <3> QED  BY <2>4, <2>5, <3>1
  <2>8. /\ EncodeChunk(c) \in [1..4 -> T]
        /\ \A i \in 1..4 : i <= Len(c) + 1 =>
                EncodeChunk(c)[i] = Digit(ChunkByte(c, 1), ChunkByte(c, 2), ChunkByte(c, 3), i)
    BY <2>6, <2>7, ChunkDigits, Zenon
  <2>11. EncodeChunk(c) \in Seq(T) /\ Len(EncodeChunk(c)) = 4
    <3>1. \A e \in [1..4 -> T] : e \in Seq(T) /\ Len(e) = 4
      <4> HIDE DEF T
      <4>1. ASSUME NEW e \in [1..4 -> T] PROVE e \in Seq(T) /\ Len(e) = 4
        <5> DEFINE m == 4
        <5>1. m \in Nat /\ e \in [1..m -> T]
          OBVIOUS
        <5> HIDE DEF m
        <5>2. e \in Seq(T) /\ DOMAIN e = 1..m
          BY <5>1, SeqDef
        <5>3. Len(e) = m
          BY <5>1, <5>2, LenProperties
        <5> QED  BY <5>2, <5>3 DEF m
      <4> QED  BY <4>1
    <3> QED  BY <2>8, <3>1, Zenon
  <2>12. \A i \in 1..4 : 3 * (k - 1) + i <= Len(b) + 1 => i <= Len(c) + 1
    <3>1. Len(c) = last - (3 * k - 2) + 1 /\ last = IF 3 * k <= Len(b) THEN 3 * k ELSE Len(b)
      BY <2>1, <2>3
    <3>2. ASSUME NEW i \in 1..4, 3 * (k - 1) + i <= Len(b) + 1 PROVE i <= Len(c) + 1
      BY <1>1, <3>1, <3>2
    <3> QED  BY <3>2
  <2>13. \A i \in 1..4 : 3 * (k - 1) + i <= Len(b) + 1 =>
                EncodeChunk(c)[i] = Digit(x, y, z, i)
    BY <2>4, <2>8, <2>12
  <2> QED  BY <2>11, <2>13, Zenon DEF c, x, y, z
<1> HIDE DEF n, T
<1>4. parts \in Seq(Seq(T)) /\ Len(parts) = n /\ \A k \in 1..n : parts[k] = EncodeChunk(ChunkOf(b, k))
  <2> DEFINE F == Seq(T)
  <2>1. \A k \in 1..n : EncodeChunk(ChunkOf(b, k)) \in F
    BY <1>3, Zenon
  <2> HIDE DEF F
  <2>4. parts \in [1..n -> F]
    BY <2>1
  <2>2. parts \in Seq(F) /\ DOMAIN parts = 1..n
    BY <1>1, <2>4, SeqDef
  <2>3. Len(parts) = n
    BY <1>1, <2>2, LenProperties
  <2> QED  BY <2>2, <2>3 DEF F
<1>5. \A k \in 1..Len(parts) : Len(parts[k]) = 4
  BY <1>3, <1>4
<1>6. Encoded(b) = FlattenSeq(parts)
  BY DEF Encoded, n
<1> HIDE DEF parts
<1>7. /\ FlattenSeq(parts) \in Seq(T) /\ Len(FlattenSeq(parts)) = 4 * n
      /\ \A k \in 1..n, i \in 1..4 : FlattenSeq(parts)[4 * (k - 1) + i] = parts[k][i]
  <2>1. FlattenSeq(parts) \in Seq(T)
    BY <1>4, FlattenType, Zenon
  <2>2. /\ Len(FlattenSeq(parts)) = 4 * Len(parts)
        /\ \A k \in 1..Len(parts), i \in 1..4 : FlattenSeq(parts)[4 * (k - 1) + i] = parts[k][i]
    BY <1>4, <1>5, FlattenFours, Zenon
  <2> QED  BY <1>4, <2>1, <2>2, Zenon
<1>8. ASSUME NEW k \in 1..n, NEW i \in 1..4, 3 * (k - 1) + i <= Len(b) + 1
      PROVE  Encoded(b)[4 * (k - 1) + i] =
                    Digit(ByteAt(b, 3 * k - 2), ByteAt(b, 3 * k - 1), ByteAt(b, 3 * k), i)
  <2>1. Encoded(b)[4 * (k - 1) + i] = parts[k][i]
    BY <1>6, <1>7
  <2>2. parts[k][i] = EncodeChunk(ChunkOf(b, k))[i]
    BY <1>4
  <2> QED  BY <1>3, <1>8, <2>1, <2>2
<1> QED  BY <1>6, <1>7, <1>8 DEF n, T

-----------------------------------------------------------------------------
(* The characters that stand for a value wherever it starts.                *)

\* How many characters are cut off before a value.
LEMMA LeadingIs ==
    ASSUME NEW o \in 0..2
    PROVE  (o = 0 /\ LeadingTrim(o) = 0) \/ (o = 1 /\ LeadingTrim(o) = 2) \/ (o = 2 /\ LeadingTrim(o) = 3)
<1>1. LeadingTrim(o) = (4 * o + 2) \div 3
  <2>1. (o * 4 + 3) - 1 = 4 * o + 2
    OBVIOUS
  <2> QED  BY <2>1 DEF LeadingTrim, CeilDiv
<1>2. \A n \in Nat : n \div 3 \in Nat /\ n - 3 * (n \div 3) \in 0..2
  OBVIOUS
<1> DEFINE h == LeadingTrim(o)
<1>3. h \in Nat /\ (4 * o + 2) - 3 * h \in 0..2
  <2>1. 4 * o + 2 \in Nat
    OBVIOUS
  <2> QED  BY <1>1, <1>2, <2>1
<1> HIDE DEF h
<1>4. (o = 0 => h = 0) /\ (o = 1 => h = 2) /\ (o = 2 => h = 3)
  BY <1>3
<1>5. o = 0 \/ o = 1 \/ o = 2
  OBVIOUS
<1> QED  BY <1>4, <1>5, Zenon DEF h

\* L bytes are K groups, the last of them t characters short.
Trailing(L, K, t) ==
    K \in Nat /\ ((L = 3 * K /\ t = 0) \/ (L = 3 * K - 1 /\ t = 2) \/ (L = 3 * K - 2 /\ t = 3))

\* What the length of a group's bytes, a third of them and the characters cut off after
\* them have to do with each other.
LEMMA TrailingIs ==
    ASSUME NEW L \in Nat
    PROVE  Trailing(L, CeilDiv(L, 3), TrailingTrim(L))
<1>1. PICK r \in 0..2, q \in Nat : L = 3 * q + r
  <2> DEFINE q == L \div 3
  <2>1. q \in Nat /\ L - 3 * q \in 0..2
    OBVIOUS
  <2> HIDE DEF q
  <2>2. L = 3 * q + (L - 3 * q)
    BY <2>1
  <2> QED  BY <2>1, <2>2
<1>2. CASE r = 0
  <2>1. CeilDiv(L, 3) = q
    BY <1>1, <1>2 DEF CeilDiv
  <2>2. TrailingTrim(L) = 0
    BY <1>1, <1>2 DEF TrailingTrim
  <2>3. L = 3 * CeilDiv(L, 3)
    BY <1>1, <1>2, <2>1
  <2>4. CeilDiv(L, 3) \in Nat
    BY <2>1
  <2> QED  BY <2>2, <2>3, <2>4, Zenon DEF Trailing
<1>3. CASE r = 1
  <2>1. CeilDiv(L, 3) = q + 1
    BY <1>1, <1>3 DEF CeilDiv
  <2>2. TrailingTrim(L) = 3
    BY <1>1, <1>3 DEF TrailingTrim
  <2>3. L = 3 * CeilDiv(L, 3) - 2
    BY <1>1, <1>3, <2>1
  <2>4. CeilDiv(L, 3) \in Nat
    BY <2>1
  <2> QED  BY <2>2, <2>3, <2>4, Zenon DEF Trailing
<1>4. CASE r = 2
  <2>1. CeilDiv(L, 3) = q + 1
    BY <1>1, <1>4 DEF CeilDiv
  <2>2. TrailingTrim(L) = 2
    BY <1>1, <1>4 DEF TrailingTrim
  <2> QED  BY <1>1, <1>4, <2>1, <2>2 DEF Trailing
<1> QED  BY <1>2, <1>3, <1>4

\* The first and the last byte that the i-th digit of the k-th group comes from.
FirstByte(k, i) == IF i = 1 THEN 3 * k - 2 ELSE 3 * (k - 1) + i - 1
LastByte(k, i) == IF i = 4 THEN 3 * k ELSE 3 * (k - 1) + i

\* A digit that is not cut off comes from bytes that follow the o of the padding.
LEMMA KeptDigit ==
    ASSUME NEW L \in Nat, NEW o \in 0..2,
           NEW p \in (LeadingTrim(o) + 1)..(4 * CeilDiv(L, 3) - TrailingTrim(L))
    PROVE  \E k \in 1..CeilDiv(L, 3), i \in 1..4 :
             /\ p = 4 * (k - 1) + i
             /\ FirstByte(k, i) >= o + 1 /\ LastByte(k, i) <= L
<1> DEFINE K == CeilDiv(L, 3)
           h == LeadingTrim(o)
           t == TrailingTrim(L)
<1>1. K \in Nat /\ ((L = 3 * K /\ t = 0) \/ (L = 3 * K - 1 /\ t = 2) \/ (L = 3 * K - 2 /\ t = 3))
  <2>1. Trailing(L, K, t)
    BY TrailingIs, Zenon
  <2> HIDE DEF K, t
  <2> QED  BY <2>1 DEF Trailing
<1>2. (o = 0 /\ h = 0) \/ (o = 1 /\ h = 2) \/ (o = 2 /\ h = 3)
  BY LeadingIs, Zenon
<1>3. p \in (h + 1)..(4 * K - t)
  OBVIOUS
<1> HIDE DEF K, h, t
<1>4. PICK q \in Nat, j \in 0..3 : p - 1 = 4 * q + j
  <2> DEFINE u == p - 1
             q == u \div 4
  <2>1. u \in Nat
    BY <1>1, <1>2, <1>3
  <2> HIDE DEF u
  <2>2. q \in Nat /\ u - 4 * q \in 0..3
    BY <2>1
  <2> HIDE DEF q
  <2>3. u = 4 * q + (u - 4 * q)
    BY <2>1, <2>2
  <2> QED  BY <2>2, <2>3 DEF u
<1> DEFINE k == q + 1
           i == j + 1
<1>5. k \in Nat /\ k >= 1 /\ i \in 1..4 /\ p = 4 * (k - 1) + i
  BY <1>1, <1>2, <1>3, <1>4
<1> HIDE DEF k, i
<1>6. k <= K
  BY <1>1, <1>2, <1>3, <1>5
<1>7. FirstByte(k, i) >= o + 1
  <2>1. p >= h + 1
    BY <1>1, <1>2, <1>3
  <2>2. i = 1 \/ i = 2 \/ i = 3 \/ i = 4
    BY <1>5
  <2> QED  BY <1>2, <1>5, <2>1, <2>2 DEF FirstByte
<1>8. LastByte(k, i) <= L
  <2>1. p <= 4 * K - t
    BY <1>1, <1>2, <1>3
  <2>2. i = 1 \/ i = 2 \/ i = 3 \/ i = 4
    BY <1>5
  <2> QED  BY <1>1, <1>5, <2>1, <2>2 DEF LastByte
<1>9. k \in 1..K
  BY <1>1, <1>5, <1>6
<1> QED  BY <1>5, <1>7, <1>8, <1>9 DEF K

\* The i-th digit of the k-th group.
DigitAt(b, k, i) == Digit(ByteAt(b, 3 * k - 2), ByteAt(b, 3 * k - 1), ByteAt(b, 3 * k), i)

\* Those bytes are the same m groups later in c.
SameBytes(b, c, k, m, i) ==
    \A s \in FirstByte(k, i)..LastByte(k, i) : ByteAt(b, s) = ByteAt(c, 3 * m + s)

\* The digits are the same.
SameDigits(b, c, k, m, i) == DigitAt(b, k, i) = DigitAt(c, k + m, i)

\* A digit is made of no other bytes than those.
LEMMA SameDigit ==
    ASSUME NEW b, NEW c, NEW k \in Nat, NEW m \in Nat, NEW i \in 1..4,
           SameBytes(b, c, k, m, i)
    PROVE  SameDigits(b, c, k, m, i)
<1>1. \A s \in FirstByte(k, i)..LastByte(k, i) : ByteAt(b, s) = ByteAt(c, 3 * m + s)
  BY DEF SameBytes
<1>2. i = 1 \/ i = 2 \/ i = 3 \/ i = 4
  OBVIOUS
<1>3. CASE i = 1
  <2>1. ByteAt(b, 3 * k - 2) = ByteAt(c, 3 * (k + m) - 2)
    <3>1. 3 * k - 2 \in FirstByte(k, i)..LastByte(k, i) /\ 3 * (k + m) - 2 = 3 * m + (3 * k - 2)
      BY <1>3 DEF FirstByte, LastByte
    <3> QED  BY <1>1, <3>1
  <2> QED  BY <1>3, <2>1, Zenon DEF SameDigits, DigitAt, Digit, Sextet
<1>4. CASE i = 2
  <2>1. ByteAt(b, 3 * k - 2) = ByteAt(c, 3 * (k + m) - 2)
    <3>1. 3 * k - 2 \in FirstByte(k, i)..LastByte(k, i) /\ 3 * (k + m) - 2 = 3 * m + (3 * k - 2)
      BY <1>4 DEF FirstByte, LastByte
    <3> QED  BY <1>1, <3>1
  <2>2. ByteAt(b, 3 * k - 1) = ByteAt(c, 3 * (k + m) - 1)
    <3>1. 3 * k - 1 \in FirstByte(k, i)..LastByte(k, i) /\ 3 * (k + m) - 1 = 3 * m + (3 * k - 1)
      BY <1>4 DEF FirstByte, LastByte
    <3> QED  BY <1>1, <3>1
  <2> QED  BY <1>4, <2>1, <2>2 DEF SameDigits, DigitAt, Digit, Sextet
<1>5. CASE i = 3
  <2>1. ByteAt(b, 3 * k) = ByteAt(c, 3 * (k + m))
    <3>1. 3 * k \in FirstByte(k, i)..LastByte(k, i) /\ 3 * (k + m) = 3 * m + 3 * k
      BY <1>5 DEF FirstByte, LastByte
    <3> QED  BY <1>1, <3>1
  <2>2. ByteAt(b, 3 * k - 1) = ByteAt(c, 3 * (k + m) - 1)
    <3>1. 3 * k - 1 \in FirstByte(k, i)..LastByte(k, i) /\ 3 * (k + m) - 1 = 3 * m + (3 * k - 1)
      BY <1>5 DEF FirstByte, LastByte
    <3> QED  BY <1>1, <3>1
  <2> QED  BY <1>5, <2>1, <2>2 DEF SameDigits, DigitAt, Digit, Sextet
<1>6. CASE i = 4
  <2>1. ByteAt(b, 3 * k) = ByteAt(c, 3 * (k + m))
    <3>1. 3 * k \in FirstByte(k, i)..LastByte(k, i) /\ 3 * (k + m) = 3 * m + 3 * k
      BY <1>6 DEF FirstByte, LastByte
    <3> QED  BY <1>1, <3>1
  <2> QED  BY <1>6, <2>1 DEF SameDigits, DigitAt, Digit, Sextet
<1> QED  BY <1>2, <1>3, <1>4, <1>5, <1>6

\* The encoding of q but for what is cut off, and where it is in the encoding of b.
LEMMA KeptDigits ==
    ASSUME NEW q \in Seq(Octets), NEW b \in Seq(Octets), NEW o \in 0..2, NEW m \in Nat,
           Len(q) >= o + 2, 3 * m + Len(q) <= Len(b),
           \A s \in (o + 1)..Len(q) : q[s] = b[3 * m + s]
    PROVE  LET last == Len(Encoded(q)) - TrailingTrim(Len(q))
               first == LeadingTrim(o) + 1 IN
           /\ first \in Nat /\ last \in Nat /\ 1 <= first /\ first <= last
           /\ last <= Len(Encoded(q)) /\ 4 * m + last <= Len(Encoded(b))
           /\ \A p \in first..last :
                /\ Encoded(q)[p] \in Digits64
                /\ Encoded(b)[4 * m + p] = Encoded(q)[p]
<1> DEFINE L == Len(q)
           K == CeilDiv(L, 3)
           N == CeilDiv(Len(b), 3)
           h == LeadingTrim(o)
           t == TrailingTrim(L)
<1>1. L \in Nat /\ Len(b) \in Nat /\ \A s \in Int : ByteAt(q, s) \in Octets
  <2>1. L \in Nat /\ Len(b) \in Nat /\ \A s \in 1..L : q[s] \in Octets
    BY LenProperties, ElementOfSeq
  <2> QED  BY <2>1 DEF ByteAt, Octets
<1>2. Len(Encoded(q)) = 4 * K /\ Len(Encoded(b)) = 4 * N
  BY EncodedAt
<1>3. K \in Nat /\ ((L = 3 * K /\ t = 0) \/ (L = 3 * K - 1 /\ t = 2) \/ (L = 3 * K - 2 /\ t = 3))
  <2>1. Trailing(L, K, t)
    BY <1>1, TrailingIs, Zenon
  <2> HIDE DEF L, K, t
  <2> QED  BY <2>1 DEF Trailing
<1>4. N \in Nat /\ (Len(b) = 3 * N \/ Len(b) = 3 * N - 1 \/ Len(b) = 3 * N - 2)
  <2>1. Trailing(Len(b), N, TrailingTrim(Len(b)))
    BY <1>1, TrailingIs, Zenon
  <2> HIDE DEF N
  <2> QED  BY <2>1 DEF Trailing
<1>5. (o = 0 /\ h = 0) \/ (o = 1 /\ h = 2) \/ (o = 2 /\ h = 3)
  BY LeadingIs, Zenon
<1>6. L >= o + 2 /\ 3 * m + L <= Len(b) /\ \A s \in (o + 1)..L : q[s] = b[3 * m + s]
  OBVIOUS
<1>7. ASSUME NEW p \in (h + 1)..(4 * K - t)
      PROVE  Encoded(q)[p] \in Digits64 /\ Encoded(b)[4 * m + p] = Encoded(q)[p]
  <2>1. PICK k \in 1..K, i \in 1..4 :
          p = 4 * (k - 1) + i /\ FirstByte(k, i) >= o + 1 /\ LastByte(k, i) <= L
    BY <1>1, KeptDigit
  <2>2. 3 * (k - 1) + i <= L + 1 /\ 3 * k - 2 <= L
    <3> HIDE DEF L, K, h, t
    <3>1. i = 1 \/ i = 2 \/ i = 3 \/ i = 4
      BY <2>1
    <3>2. k \in Nat /\ LastByte(k, i) <= L
      BY <1>3, <2>1
    <3> QED  BY <1>1, <3>1, <3>2 DEF LastByte
  <2> DEFINE j == k + m
  <2>3. 3 * (j - 1) + i <= Len(b) + 1 /\ j \in 1..N /\ 4 * m + p = 4 * (j - 1) + i
    <3> HIDE DEF L, K, N, h, t
    <3>1. k \in Nat /\ k >= 1 /\ i \in 1..4 /\ p = 4 * (k - 1) + i
      BY <1>3, <2>1
    <3>2. j <= N
      BY <1>1, <1>4, <1>6, <2>2, <3>1
    <3> QED  BY <1>1, <1>4, <1>6, <2>2, <3>1, <3>2
  <2>4. Encoded(q)[p] = DigitAt(q, k, i)
    BY <2>1, <2>2, EncodedAt DEF DigitAt
  <2>5. Encoded(b)[4 * m + p] = DigitAt(b, j, i)
    <3> HIDE DEF j
    <3> QED  BY <2>3, EncodedAt DEF DigitAt
  <2>6. SameBytes(q, b, k, m, i)
    <3> SUFFICES ASSUME NEW s \in FirstByte(k, i)..LastByte(k, i)
                 PROVE  ByteAt(q, s) = ByteAt(b, 3 * m + s)
      BY DEF SameBytes
    <3>1. s \in (o + 1)..L
      <4>1. FirstByte(k, i) \in Int /\ LastByte(k, i) \in Int
        BY <1>3 DEF FirstByte, LastByte
      <4> QED  BY <1>1, <2>1, <4>1
    <3>2. s \in 1..Len(q) /\ 3 * m + s \in 1..Len(b)
      BY <1>1, <1>6, <3>1
    <3> QED  BY <1>6, <3>1, <3>2 DEF ByteAt
  <2>7. Encoded(q)[p] = Encoded(b)[4 * m + p]
    <3>1. k \in Nat
      BY <1>3
    <3>2. DigitAt(q, k, i) = DigitAt(b, k + m, i)
      <4>1. SameDigits(q, b, k, m, i)
        BY <2>6, <3>1, SameDigit, Zenon
      <4> QED  BY <4>1 DEF SameDigits
    <3> QED  BY <2>4, <2>5, <3>2 DEF j
  <2>8. Encoded(q)[p] \in Digits64
    <3>1. ByteAt(q, 3 * k - 2) \in Octets /\ ByteAt(q, 3 * k - 1) \in Octets /\ ByteAt(q, 3 * k) \in Octets
      BY <1>1, <1>3
    <3> QED  BY <2>4, <3>1, DigitsAre, Zenon DEF DigitAt
  <2> QED  BY <2>7, <2>8
<1>8. /\ h + 1 \in Nat /\ 4 * K - t \in Nat /\ 1 <= h + 1 /\ h + 1 <= 4 * K - t
      /\ 4 * K - t <= 4 * K /\ 4 * m + (4 * K - t) <= 4 * N
  <2> HIDE DEF L, K, N, h, t
  <2>1. h + 1 \in Nat /\ 4 * K - t \in Nat /\ 1 <= h + 1 /\ h + 1 <= 4 * K - t /\ 4 * K - t <= 4 * K
    <3>1. K >= 1
      BY <1>1, <1>3, <1>5, <1>6
    <3>2. CASE t = 0
      BY <1>1, <1>3, <1>5, <1>6, <3>1, <3>2
    <3>3. CASE t = 2
      <4>1. L = 3 * K - 1
        BY <1>3, <3>3
      <4>2. h + 1 <= 4 * K - 2
        BY <1>1, <1>3, <1>5, <1>6, <3>1, <4>1
      <4> QED  BY <1>3, <1>5, <3>1, <3>3, <4>2
    <3>4. CASE t = 3
      <4>1. L = 3 * K - 2
        BY <1>3, <3>4
      <4>2. h + 1 <= 4 * K - 3
        <5>1. 3 * K >= o + 4
          BY <1>3, <1>6, <4>1
        <5> QED  BY <1>3, <1>5, <5>1
      <4> QED  BY <1>3, <1>5, <3>1, <3>4, <4>2
    <3> QED  BY <1>3, <3>2, <3>3, <3>4
  <2>2. 4 * m + (4 * K - t) <= 4 * N
    <3>1. m + K <= N
      <4>1. 3 * K - 2 <= L
        BY <1>1, <1>3
      <4>2. Len(b) <= 3 * N
        BY <1>1, <1>4
      <4>3. 3 * m + (3 * K - 2) <= 3 * N
        BY <1>1, <1>3, <1>4, <1>6, <4>1, <4>2
      <4> QED  BY <1>3, <1>4, <4>3
    <3> QED  BY <1>3, <1>4, <3>1
  <2> QED  BY <2>1, <2>2
<1> QED  BY <1>2, <1>7, <1>8

-----------------------------------------------------------------------------
(* A value as it looks at an offset.                                        *)

\* base64_encode of a text encodes its bytes.
LEMMA EncodeIs == ASSUME NEW text PROVE base64_encode(text) = Encoded(Bytes(text))
BY Zenon DEF base64_encode, Encoded, ChunkOf

\* A value after as many spaces as it is looked for bytes into a group.
Padded(text, o) == [i \in 1..o |-> " "] \o text

\* The variant is the encoding of the two, but for what is cut off.
LEMMA VariantIs ==
    ASSUME NEW text, NEW o
    PROVE  OffsetVariant(text, o) =
            SubSeq(Encoded(Bytes(Padded(text, o))), LeadingTrim(o) + 1,
                   Len(Encoded(Bytes(Padded(text, o)))) - TrailingTrim(Len(Bytes(Padded(text, o)))))
<1>1. base64_encode(Padded(text, o)) = Encoded(Bytes(Padded(text, o)))
  BY EncodeIs
<1>2. OffsetVariant(text, o) =
        SubSeq(base64_encode(Padded(text, o)), LeadingTrim(o) + 1,
               Len(base64_encode(Padded(text, o))) - TrailingTrim(Len(Bytes(Padded(text, o)))))
  BY Zenon DEF OffsetVariant, Padded
<1> QED  BY <1>1, <1>2

\* The bytes of a padded value.
LEMMA PaddedBytes ==
    ASSUME NEW text \in Seq(Chars), NEW o \in 0..2
    PROVE  /\ Bytes(Padded(text, o)) \in Seq(Octets)
           /\ Len(Bytes(Padded(text, o))) = o + Len(Bytes(text))
           /\ \A s \in 1..Len(Bytes(text)) : Bytes(Padded(text, o))[o + s] = Bytes(text)[s]
<1> DEFINE pad == [i \in 1..o |-> " "]
           u == Bytes(pad)
           v == Bytes(text)
<1>1. pad \in Seq(Chars) /\ Len(u) = o
  BY SpaceBytes, Zenon
<1>2. Padded(text, o) = pad \o text
  BY DEF Padded
<1> HIDE DEF pad
<1>3. u \in Seq(Octets) /\ v \in Seq(Octets)
  BY <1>1, BytesType DEF Octets
<1>4. Bytes(Padded(text, o)) = u \o v
  BY <1>1, <1>2, BytesConcat
<1> DEFINE w == u \o v
<1> HIDE DEF u, v
<1>5. Follow(Octets, u, v, w)
  BY <1>3 DEF Follow
<1> HIDE DEF w
<1>6. /\ w \in Seq(Octets) /\ Len(w) = Len(u) + Len(v)
      /\ \A s \in 1..Len(v) : w[Len(u) + s] = v[s]
  BY <1>5, FollowElements
<1>7. Bytes(Padded(text, o)) = w
  BY <1>4 DEF w
<1>8. Len(u) = o
  BY <1>1
<1> QED  BY <1>6, <1>7, <1>8 DEF v

\* What comes before a text in another, and what after it.
LEMMA OccursSplits ==
    ASSUME NEW part \in Seq(Chars), NEW whole \in Seq(Chars), Occurs(part, whole)
    PROVE  \E u, w \in Seq(Chars) : whole = (u \o part) \o w
<1>1. PICK at \in 0..(Len(whole) - Len(part)) : SubSeq(whole, at + 1, at + Len(part)) = part
  BY DEF Occurs
<1> DEFINE n == Len(part)
           L == Len(whole)
           u == SubSeq(whole, 1, at)
           w == SubSeq(whole, at + n + 1, L)
           x == u \o part
           y == x \o w
<1>2. L \in Nat /\ n \in Nat /\ at \in Nat /\ at + n <= L
      /\ \A i \in 1..L : whole[i] \in Chars
  <2>1. L \in Nat /\ n \in Nat /\ \A i \in 1..L : whole[i] \in Chars
    BY LenProperties, ElementOfSeq
  <2> QED  BY <2>1
<1>3. u \in Seq(Chars) /\ Len(u) = at /\ \A i \in 1..at : u[i] = whole[i]
  <2>1. \A i \in 1..at : whole[i] \in Chars
    BY <1>2
  <2>2. /\ SubSeq(whole, 1, at) \in Seq(Chars)
        /\ Len(SubSeq(whole, 1, at)) = (IF 1 <= at THEN at - 1 + 1 ELSE 0)
        /\ \A i \in 1..(at - 1 + 1) : SubSeq(whole, 1, at)[i] = whole[1 + i - 1]
    BY <1>2, <2>1, SubSeqProperties
  <2> QED  BY <1>2, <2>2
<1>4. \A i \in 1..n : part[i] = whole[at + i]
  <2> DEFINE a == at + 1
             b == at + n
  <2>1. a \in Int /\ b \in Int /\ \A i \in a..b : whole[i] \in Chars
    BY <1>2
  <2>2. SubSeq(whole, a, b) = part
    BY <1>1
  <2> HIDE DEF a, b
  <2>3. \A i \in 1..(b - a + 1) : SubSeq(whole, a, b)[i] = whole[a + i - 1]
    BY <2>1, SubSeqProperties
  <2>4. b - a + 1 = n /\ \A i \in 1..n : a + i - 1 = at + i
    BY <1>2 DEF a, b
  <2> QED  BY <2>2, <2>3, <2>4
<1>5. w \in Seq(Chars) /\ Len(w) = L - (at + n) /\ \A i \in 1..(L - (at + n)) : w[i] = whole[at + n + i]
  <2> DEFINE a == at + n + 1
  <2>1. a \in Int /\ L \in Int /\ \A i \in a..L : whole[i] \in Chars
    BY <1>2
  <2>2. w = SubSeq(whole, a, L)
    OBVIOUS
  <2> HIDE DEF a, w, L
  <2>3. /\ SubSeq(whole, a, L) \in Seq(Chars)
        /\ Len(SubSeq(whole, a, L)) = (IF a <= L THEN L - a + 1 ELSE 0)
        /\ \A i \in 1..(L - a + 1) : SubSeq(whole, a, L)[i] = whole[a + i - 1]
    BY <2>1, SubSeqProperties
  <2>4. L - a + 1 = L - (at + n) /\ (\A i \in 1..(L - (at + n)) : a + i - 1 = at + n + i)
        /\ (IF a <= L THEN L - a + 1 ELSE 0) = L - (at + n)
    BY <1>2 DEF a
  <2> QED  BY <2>2, <2>3, <2>4
<1> HIDE DEF u, w
<1>6. Follow(Chars, u, part, x)
  BY <1>3 DEF Follow
<1> HIDE DEF x
<1>7. /\ x \in Seq(Chars) /\ Len(x) = Len(u) + n
      /\ \A i \in 1..Len(u) : x[i] = u[i]
      /\ \A i \in 1..n : x[Len(u) + i] = part[i]
  BY <1>6, FollowElements
<1>8. Follow(Chars, x, w, y)
  BY <1>5, <1>7 DEF Follow
<1> HIDE DEF y
<1>9. /\ y \in Seq(Chars) /\ Len(y) = Len(x) + Len(w)
      /\ \A i \in 1..Len(x) : y[i] = x[i]
      /\ \A i \in 1..Len(w) : y[Len(x) + i] = w[i]
  BY <1>8, FollowElements
<1>10. Len(y) = L /\ Len(x) = at + n
  BY <1>2, <1>3, <1>5, <1>7, <1>9
<1>11. ASSUME NEW i \in 1..L PROVE y[i] = whole[i]
  <2>1. CASE i <= at
    <3>1. i \in 1..at /\ i \in 1..Len(x)
      BY <1>2, <1>10, <2>1
    <3> QED  BY <1>3, <1>7, <1>9, <3>1
  <2>2. CASE at < i /\ i <= at + n
    <3> DEFINE j == i - at
    <3>1. j \in 1..n /\ i = at + j /\ i \in 1..Len(x)
      BY <1>2, <1>10, <2>2
    <3> HIDE DEF j
    <3> QED  BY <1>3, <1>4, <1>7, <1>9, <3>1
  <2>3. CASE at + n < i
    <3> DEFINE j == i - (at + n)
    <3>1. j \in 1..(L - (at + n)) /\ i = at + n + j
      BY <1>2, <2>3
    <3> HIDE DEF j
    <3> QED  BY <1>5, <1>9, <1>10, <3>1
  <2>4. i <= at \/ (at < i /\ i <= at + n) \/ at + n < i
    BY <1>2
  <2> QED  BY <2>1, <2>2, <2>3, <2>4
<1>12. y = whole
  BY <1>2, <1>9, <1>10, <1>11, SeqEqual
<1> QED  BY <1>3, <1>5, <1>12 DEF x, y

-----------------------------------------------------------------------------
(* A text in a text, its bytes in bytes, its variant in the encoding.       *)

\* v is in w from the place after the at-th.
IsAt(v, w, at) == at + Len(v) <= Len(w) /\ \A j \in 1..Len(v) : w[at + j] = v[j]

\* The bytes of a text in another are in the bytes of the other.
LEMMA BytesOccur ==
    ASSUME NEW part \in Seq(Chars), NEW whole \in Seq(Chars), Occurs(part, whole)
    PROVE  \E at \in Nat : IsAt(Bytes(part), Bytes(whole), at)
<1>1. PICK u \in Seq(Chars), w \in Seq(Chars) : whole = (u \o part) \o w
  BY OccursSplits
<1> DEFINE x == u \o part
<1>2. x \in Seq(Chars)
  BY ConcatProperties
<1>3. Bytes(x) = Bytes(u) \o Bytes(part)
  BY BytesConcat
<1> HIDE DEF x
<1>4. Bytes(whole) = Bytes(x) \o Bytes(w)
  <2>1. whole = x \o w
    BY <1>1 DEF x
  <2> QED  BY <1>2, <2>1, BytesConcat
<1> DEFINE U == Bytes(u)
           P == Bytes(part)
           W == Bytes(w)
           X == Bytes(x)
           B == Bytes(whole)
<1>5. U \in Seq(Octets) /\ P \in Seq(Octets) /\ W \in Seq(Octets) /\ X \in Seq(Octets)
  BY <1>2, BytesType DEF Octets
<1>6. X = U \o P /\ B = X \o W
  BY <1>3, <1>4
<1> HIDE DEF U, P, W, X, B
<1>7. Follow(Octets, U, P, X) /\ Follow(Octets, X, W, B)
  BY <1>5, <1>6 DEF Follow
<1>8. /\ Len(U) \in Nat /\ Len(P) \in Nat /\ Len(X) = Len(U) + Len(P)
      /\ \A i \in 1..Len(P) : X[Len(U) + i] = P[i]
  BY <1>7, FollowElements
<1>9. /\ Len(W) \in Nat /\ Len(B) = Len(X) + Len(W)
      /\ \A i \in 1..Len(X) : B[i] = X[i]
  BY <1>7, FollowElements
<1>10. Len(U) + Len(P) <= Len(B)
  BY <1>8, <1>9
<1>11. ASSUME NEW j \in 1..Len(P) PROVE B[Len(U) + j] = P[j]
  <2>1. Len(U) + j \in 1..Len(X)
    BY <1>8
  <2> QED  BY <1>8, <1>9, <2>1
<1>12. IsAt(P, B, Len(U))
  BY <1>10, <1>11 DEF IsAt
<1> QED  BY <1>8, <1>12 DEF P, B

\* The variant that belongs to where a value is in a stream is in the encoding of the
\* stream; it has two characters at least and nothing but digits.
LEMMA VariantOccurs ==
    ASSUME NEW text \in Seq(Chars), NEW stream \in Seq(Chars), Occurs(text, stream),
           Len(Bytes(text)) >= 2
    PROVE  \E o \in 0..2, at \in Nat :
            /\ OffsetVariant(text, o) \in Seq(Digits64)
            /\ Len(OffsetVariant(text, o)) >= 1
            /\ IsAt(OffsetVariant(text, o), base64_encode(stream), at)
<1>1. PICK x \in Nat : IsAt(Bytes(text), Bytes(stream), x)
  BY BytesOccur
<1>2. PICK m \in Nat, o \in 0..2 : x = 3 * m + o
  <2> DEFINE m == x \div 3
  <2>1. m \in Nat /\ x - 3 * m \in 0..2
    OBVIOUS
  <2> HIDE DEF m
  <2>2. x = 3 * m + (x - 3 * m)
    BY <2>1
  <2> QED  BY <2>1, <2>2
<1> DEFINE P == Bytes(text)
           b == Bytes(stream)
           q == Bytes(Padded(text, o))
           n == Len(P)
<1>3. b \in Seq(Octets) /\ P \in Seq(Octets) /\ n >= 2
  BY BytesType DEF Octets
<1>4. q \in Seq(Octets) /\ Len(q) = o + n /\ \A s \in 1..n : q[o + s] = P[s]
  BY PaddedBytes
<1>5. x + n <= Len(b) /\ \A s \in 1..n : b[x + s] = P[s]
  BY <1>1 DEF IsAt
<1>6. base64_encode(stream) = Encoded(b)
  BY EncodeIs
<1> DEFINE h == LeadingTrim(o)
           last == Len(Encoded(q)) - TrailingTrim(Len(q))
           v == OffsetVariant(text, o)
<1>7. v = SubSeq(Encoded(q), h + 1, last)
  BY VariantIs
<1> HIDE DEF P, b, q
<1>8. n \in Nat /\ Len(q) \in Nat /\ Len(b) \in Nat
  BY <1>3, <1>4, LenProperties
<1>9. Len(q) >= o + 2 /\ 3 * m + Len(q) <= Len(b)
  BY <1>2, <1>3, <1>4, <1>5, <1>8
<1>10. ASSUME NEW s \in (o + 1)..Len(q) PROVE q[s] = b[3 * m + s]
  <2> DEFINE j == s - o
  <2>1. j \in 1..n /\ s = o + j /\ 3 * m + s = x + j
    BY <1>2, <1>4, <1>8
  <2> HIDE DEF j
  <2> QED  BY <1>4, <1>5, <2>1
<1>11. /\ h + 1 \in Nat /\ last \in Nat /\ 1 <= h + 1 /\ h + 1 <= last
       /\ last <= Len(Encoded(q)) /\ 4 * m + last <= Len(Encoded(b))
       /\ \A p \in (h + 1)..last :
            Encoded(q)[p] \in Digits64 /\ Encoded(b)[4 * m + p] = Encoded(q)[p]
  BY <1>3, <1>4, <1>9, <1>10, KeptDigits
<1> HIDE DEF h, last, v
<1>13. h \in Nat
  <2>1. (o = 0 /\ LeadingTrim(o) = 0) \/ (o = 1 /\ LeadingTrim(o) = 2) \/ (o = 2 /\ LeadingTrim(o) = 3)
    BY LeadingIs, Zenon
  <2> QED  BY <2>1 DEF h
<1>12. /\ v \in Seq(Digits64) /\ Len(v) = last - h
       /\ \A j \in 1..(last - h) : v[j] = Encoded(q)[h + j]
  <2> DEFINE a == h + 1
  <2>1. a \in Int /\ last \in Int /\ \A p \in a..last : Encoded(q)[p] \in Digits64
    BY <1>11
  <2>2. v = SubSeq(Encoded(q), a, last)
    BY <1>7
  <2>3. a <= last /\ last - a + 1 = last - h /\ \A j \in 1..(last - h) : a + j - 1 = h + j
    BY <1>11, <1>13
  <2> HIDE DEF a
  <2>4. /\ SubSeq(Encoded(q), a, last) \in Seq(Digits64)
        /\ Len(SubSeq(Encoded(q), a, last)) = (IF a <= last THEN last - a + 1 ELSE 0)
        /\ \A j \in 1..(last - a + 1) : SubSeq(Encoded(q), a, last)[j] = Encoded(q)[a + j - 1]
    BY <2>1, SubSeqProperties
  <2> QED  BY <2>2, <2>3, <2>4
<1>14. IsAt(v, Encoded(b), 4 * m + h)
  <2>1. (4 * m + h) + Len(v) <= Len(Encoded(b))
    BY <1>11, <1>12, <1>13
  <2>2. ASSUME NEW j \in 1..Len(v) PROVE Encoded(b)[(4 * m + h) + j] = v[j]
    <3>1. h + j \in (h + 1)..last /\ (4 * m + h) + j = 4 * m + (h + j) /\ j \in 1..(last - h)
      BY <1>11, <1>12, <1>13
    <3> QED  BY <1>11, <1>12, <3>1
  <2> QED  BY <2>1, <2>2 DEF IsAt
<1>15. 4 * m + h \in Nat /\ Len(v) >= 1
  BY <1>11, <1>12, <1>13
<1> QED  BY <1>6, <1>12, <1>14, <1>15 DEF v

-----------------------------------------------------------------------------
(* A text without special characters, as a pattern.                         *)

\* The proofs about patterns, of any text.
W == INSTANCE WildcardProofs WITH TokenSeqs <- {}, Texts <- {}, Patterns <- {},
        pc <- "done", pattern <- <<>>, text <- <<>>, pi <- 0, ti <- 0,
        star_pat_idx <- 0, star_txt_idx <- 0, verdict <- FALSE

\* They are about the same tokens.
LEMMA SameTokens ==
    ASSUME NEW p
    PROVE  W!tokenize_pattern(p) = tokenize_pattern(p)
BY DEF W!tokenize_pattern, tokenize_pattern, W!EscapesNext, EscapesNext, W!Token, Token,
       W!Star, Star, W!Question, Question, W!Lit, Lit, W!Escapable, Escapable

\* The same step of the tokenizer.
LEMMA SameStep ==
    ASSUME NEW p, NEW f, NEW i, p[i] \notin Escapable, ~(i > Len(p))
    PROVE  W!TokenStep(p, f, i) = <<Lit(p[i])>> \o f[i + 1]
<1>1. ~W!EscapesNext(p, i)
  BY DEF W!EscapesNext, Escapable
<1>2. W!Token(p[i]) = Lit(p[i])
  BY DEF W!Token, W!Lit, Lit, Escapable
<1> QED  BY <1>1, <1>2 DEF W!TokenStep

\* A text with nothing special is tokenized to its characters.
LEMMA PlainTokens ==
    ASSUME NEW S, NEW p \in Seq(S), \A i \in 1..Len(p) : p[i] \notin Escapable
    PROVE  tokenize_pattern(p) = [m \in 1..Len(p) |-> Lit(p[m])]
<1> DEFINE n == Len(p)
           Lits(i) == [m \in 1..(n + 1 - i) |-> Lit(p[i + m - 1])]
<1>1. n \in Nat
  BY LenProperties
<1>2. PICK f \in [1..(n + 1) -> Seq(W!TokensOver(S))] :
        (\A i \in 1..(n + 1) : f[i] = W!TokenStep(p, f, i)) /\ W!tokenize_pattern(p) = f[1]
  BY W!TokenizeUnfolds
<1>3. \A i \in 1..n : Lits(i) = <<Lit(p[i])>> \o Lits(i + 1)
  <2> TAKE i \in 1..n
  <2>1. n + 1 - (i + 1) = n - i /\ n + 1 - i = 1 + (n - i) /\ n - i \in Nat
    BY <1>1
  <2> QED  BY <1>1, <2>1
<1>4. Lits(n + 1) = << >> /\ Lits(1) = [m \in 1..n |-> Lit(p[m])]
  BY <1>1
<1> HIDE DEF Lits
<1> DEFINE G == {i \in 1..(n + 1) : f[i] = Lits(i)}
<1>5. n + 1 \in G
  <2>1. n + 1 \in 1..(n + 1) /\ n + 1 > n
    BY <1>1
  <2>2. W!TokenStep(p, f, n + 1) = << >>
    BY <2>1 DEF W!TokenStep
  <2> QED  BY <1>2, <1>4, <2>1, <2>2
<1>6. ASSUME NEW k \in 1..n, k + 1 \in G PROVE k \in G
  <2>1. k \in 1..(n + 1) /\ ~(k > n)
    BY <1>1
  <2>2. f[k] = <<Lit(p[k])>> \o f[k + 1]
    BY <1>2, <2>1, SameStep
  <2> QED  BY <1>3, <1>6, <2>1, <2>2
<1>7. 1 \in 1..(n + 1)
  BY <1>1
<1> HIDE DEF G
<1>8. 1 \in G
  BY <1>1, <1>5, <1>6, <1>7, W!Downwards
<1>9. f[1] = Lits(1)
  BY <1>8 DEF G
<1> QED  BY <1>2, <1>4, <1>9, SameTokens

\* It is a literal, which spells itself.
LEMMA PlainLiteral ==
    ASSUME NEW S, NEW p \in Seq(S), \A i \in 1..Len(p) : p[i] \notin Escapable
    PROVE  IsLiteral(p) /\ pattern_literal(p) = p
<1> DEFINE n == Len(p)
           tok == [m \in 1..n |-> Lit(p[m])]
<1>1. tokenize_pattern(p) = tok
  BY PlainTokens
<1>2. n \in Nat /\ p = [m \in 1..n |-> p[m]]
  BY LenProperties
<1>3. Len(tok) = n
  BY <1>2
<1>4. \A m \in 1..n : tok[m] \notin {Star, Question} /\ tok[m].lit = p[m]
  BY DEF Lit, Star, Question
<1> HIDE DEF tok
<1>5. IsLiteral(p)
  BY <1>1, <1>3, <1>4 DEF IsLiteral
<1>6. pattern_literal(p) = [m \in 1..n |-> tok[m].lit]
  BY <1>1, <1>3 DEF pattern_literal
<1>7. [m \in 1..n |-> tok[m].lit] = [m \in 1..n |-> p[m]]
  BY <1>4
<1> QED  BY <1>2, <1>5, <1>6, <1>7

-----------------------------------------------------------------------------
(* A variant found.                                                         *)

\* What looks for a payload in an encoding.
OffsetContains == <<"base64offset", "contains">>

\* What is and is not among them.
LEMMA OffsetModifiers ==
    /\ Len(OffsetContains) = 2 /\ OffsetContains[1] = "base64offset" /\ OffsetContains[2] = "contains"
    /\ DOMAIN OffsetContains = 1..2
    /\ ToSet(OffsetContains) = {"base64offset", "contains"}
    /\ \A m : Contains(OffsetContains, m) <=> m \in {"base64offset", "contains"}
<1>1. /\ Len(OffsetContains) = 2 /\ OffsetContains[1] = "base64offset" /\ OffsetContains[2] = "contains"
      /\ DOMAIN OffsetContains = 1..2
  BY DEF OffsetContains
<1>2. ToSet(OffsetContains) = {"base64offset", "contains"}
  <2>1. 1..2 = {1, 2}
    OBVIOUS
  <2> QED  BY <1>1, <2>1 DEF ToSet
<1>3. 1..2 = {1, 2}
  OBVIOUS
<1>4. \A m : Contains(OffsetContains, m) <=> m \in {"base64offset", "contains"}
  BY <1>1, <1>3 DEF Contains
<1> QED  BY <1>1, <1>2, <1>4

\* No digit is special to a pattern.
LEMMA DigitsPlain == Digits64 \intersect Escapable = {} /\ Digits64 \subseteq Chars
<1>1. \A i \in DOMAIN Alphabet : Alphabet[i] \notin {"*", "?", "\\"}
  BY DEF Alphabet
<1>2. Digits64 \subseteq Chars
  BY AlphabetAssumption DEF Digits64
<1> QED  BY <1>1, <1>2 DEF Digits64, ToSet, Escapable

\* Nor is what one is folded to.
LEMMA FoldPlain ==
    ASSUME NEW v \in Seq(Digits64)
    PROVE  /\ Fold(v) \in Seq(Chars) /\ Len(Fold(v)) = Len(v) /\ Len(v) \in Nat
           /\ \A i \in 1..Len(v) : Fold(v)[i] = Lower[v[i]] /\ Fold(v)[i] \notin Escapable
<1>1. Len(v) \in Nat /\ DOMAIN v = 1..Len(v) /\ \A i \in 1..Len(v) : v[i] \in Digits64
  BY LenProperties, ElementOfSeq
<1>2. \A i \in 1..Len(v) : Lower[v[i]] \in Chars /\ Lower[v[i]] \notin Escapable
  <2> TAKE i \in 1..Len(v)
  <2>1. v[i] \in Chars /\ v[i] \notin Escapable
    BY <1>1, DigitsPlain
  <2>2. Lower[v[i]] \in Chars
    BY <2>1, LowerAssumption
  <2>3. \A special \in Escapable : Lower[v[i]] = special <=> v[i] = special
    BY <2>1, LowerAssumption
  <2> QED  BY <2>1, <2>2, <2>3
<1>3. Fold(v) \in [1..Len(v) -> Chars] /\ \A i \in 1..Len(v) : Fold(v)[i] = Lower[v[i]]
  BY <1>1, <1>2 DEF Fold
<1>4. Fold(v) \in Seq(Chars) /\ DOMAIN Fold(v) = 1..Len(v)
  BY <1>1, <1>3, SeqDef
<1>5. Len(Fold(v)) = Len(v)
  BY <1>1, <1>4, LenProperties
<1> QED  BY <1>1, <1>2, <1>3, <1>4, <1>5

\* A variant is found where it is.
LEMMA VariantFound ==
    ASSUME NEW v \in Seq(Digits64), NEW raw, NEW D, raw \in Seq(D), NEW at \in Nat, IsAt(v, raw, at)
    PROVE  value_matches(Str(v), Fold(v), Fold(v), raw, OffsetContains)
<1> DEFINE t == Fold(raw)
           p == Fold(v)
<1>1. Len(raw) \in Nat /\ DOMAIN raw = 1..Len(raw)
  BY LenProperties
<1>2. Len(t) = Len(raw) /\ \A i \in 1..Len(raw) : t[i] = Lower[raw[i]]
  <2>1. DOMAIN t = 1..Len(raw) /\ \A i \in 1..Len(raw) : t[i] = Lower[raw[i]]
    BY <1>1 DEF Fold
  <2>2. Len(t) = Len(raw)
    <3>1. t = [i \in 1..Len(raw) |-> Lower[raw[i]]]
      BY <1>1 DEF Fold
    <3> QED  BY <1>1, <3>1
  <2> QED  BY <2>1, <2>2
<1>3. /\ p \in Seq(Chars) /\ Len(p) = Len(v) /\ Len(v) \in Nat
      /\ \A i \in 1..Len(v) : p[i] = Lower[v[i]] /\ p[i] \notin Escapable
  BY FoldPlain
<1>4. IsLiteral(p) /\ pattern_literal(p) = p
  BY <1>3, PlainLiteral
<1>5. at + Len(v) <= Len(raw) /\ \A j \in 1..Len(v) : raw[at + j] = v[j]
  BY DEF IsAt
<1> HIDE DEF t, p
<1>6. \A j \in 1..Len(p) : t[at + j] = p[j]
  <2> TAKE j \in 1..Len(p)
  <2>1. j \in 1..Len(v) /\ at + j \in 1..Len(raw)
    BY <1>1, <1>3, <1>5
  <2> QED  BY <1>2, <1>3, <1>5, <2>1
<1>7. at \in 0..(Len(t) - Len(p))
  BY <1>1, <1>2, <1>3, <1>5
<1>8. LiteralMatches(p, "contains", t)
  BY <1>4, <1>6, <1>7 DEF LiteralMatches
<1>9. PatternMatches(p, "contains", t)
  BY <1>4, <1>8 DEF PatternMatches
<1>10. Mode(OffsetContains) = "contains"
  BY OffsetModifiers DEF Mode
<1>11. TextMatches(Str(v), p, p, t, OffsetContains)
  BY <1>9, <1>10 DEF TextMatches
<1>12. try_numeric_comparison(Str(v), raw, OffsetContains) = {}
  <2>1. ToSet(OffsetContains) \intersect Comparisons = {}
    BY OffsetModifiers DEF Comparisons
  <2> QED  BY <2>1 DEF try_numeric_comparison
<1>13. ~Contains(OffsetContains, "cidr") /\ ~Contains(OffsetContains, "re")
  BY OffsetModifiers
<1>14. Str(v).kind = "string"
  BY DEF Str
<1>15. value_matches(Str(v), p, p, raw, OffsetContains) <=> TextMatches(Str(v), p, p, t, OffsetContains)
  BY <1>12, <1>13, <1>14 DEF value_matches, t
<1> QED  BY <1>11, <1>15 DEF p

-----------------------------------------------------------------------------
(* The variants of a value.                                                 *)

\* A variant that is not empty is one of those looked for.
LEMMA VariantLookedFor ==
    ASSUME NEW text, NEW o \in 0..2, OffsetVariant(text, o) # <<>>
    PROVE  OffsetVariant(text, o) \in ToSet(OffsetVariants(text))
<1> DEFINE T == {OffsetVariant(text, 0), OffsetVariant(text, 1), OffsetVariant(text, 2)}
           Variant(offset) == IF OffsetVariant(text, offset) = <<>> THEN <<>> ELSE <<OffsetVariant(text, offset)>>
           parts == [i \in 1..3 |-> Variant(i - 1)]
           one == <<OffsetVariant(text, o)>>
<1>1. Variant(0) \in Seq(T) /\ Variant(1) \in Seq(T) /\ Variant(2) \in Seq(T)
  <2>1. \A t \in T : <<t>> \in Seq(T)
    OBVIOUS
  <2>2. <<>> \in Seq(T)
    OBVIOUS
  <2>3. OffsetVariant(text, 0) \in T /\ OffsetVariant(text, 1) \in T /\ OffsetVariant(text, 2) \in T
    OBVIOUS
  <2> HIDE DEF T
  <2> QED  BY <2>1, <2>2, <2>3, Zenon
<1>2. OffsetVariants(text) = FlattenSeq(parts)
  BY DEF OffsetVariants
<1>3. Variant(o) = one
  OBVIOUS
<1>4. OffsetVariant(text, o) \in ToSet(one)
  <2>1. one[1] = OffsetVariant(text, o) /\ 1 \in DOMAIN one
    OBVIOUS
  <2> HIDE DEF one
  <2> QED  BY <2>1 DEF ToSet
<1> HIDE DEF T, Variant, one
<1>5. parts \in Seq(Seq(T)) /\ Len(parts) = 3
  BY <1>1
<1>6. o + 1 \in 1..3 /\ (o + 1) - 1 = o
  OBVIOUS
<1>7. parts[o + 1] = one
  BY <1>3, <1>6
<1> HIDE DEF parts
<1>8. ToSet(parts[o + 1]) \subseteq ToSet(FlattenSeq(parts))
  BY <1>5, <1>6, FlattenHolds
<1> QED  BY <1>2, <1>4, <1>7, <1>8

\* A sequence of something.
Sequence(s) == \E T : s \in Seq(T)

\* base64offset makes a sequence of a value.
LEMMA OffsetType ==
    ASSUME NEW v
    PROVE  Sequence(Transformed(v, "base64offset"))
<1>1. CASE v.text = <<>>
  BY <1>1, SingleType DEF Transformed, Sequence
<1>2. CASE v.text # <<>>
  <2>1. Transformed(v, "base64offset") = StrAll(OffsetVariants(v.text))
    BY <1>2 DEF Transformed, is_transform
  <2>2. NonNull(StrAll(OffsetVariants(v.text)))
    BY OffsetVariantsType, StringsNonNull
  <2> QED  BY <2>1, <2>2 DEF NonNull, Sequence
<1> QED  BY <1>1, <1>2

\* What a modifier makes of values is what it makes of each.
LEMMA TransformedSet ==
    ASSUME NEW D, NEW s \in Seq(D), NEW modifier,
           \A v : Sequence(Transformed(v, modifier))
    PROVE  /\ Sequence(TransformedAll(s, modifier))
           /\ \A k \in 1..Len(s) :
                ToSet(Transformed(s[k], modifier)) \subseteq ToSet(TransformedAll(s, modifier))
           /\ \A u \in ToSet(TransformedAll(s, modifier)) :
                \E k \in 1..Len(s) : u \in ToSet(Transformed(s[k], modifier))
<1> DEFINE part(i) == Transformed(s[i], modifier)
           U == UNION {ToSet(part(i)) : i \in 1..Len(s)}
           parts == [i \in 1..Len(s) |-> part(i)]
<1>1. DOMAIN s = 1..Len(s) /\ Len(s) \in Nat
  BY LenProperties
<1>2. ASSUME NEW i \in 1..Len(s) PROVE part(i) \in Seq(U)
  <2>1. PICK R : part(i) \in Seq(R)
    BY DEF Sequence
  <2>2. ToSet(part(i)) \subseteq U
    OBVIOUS
  <2> HIDE DEF U, part
  <2>3. /\ DOMAIN part(i) = 1..Len(part(i)) /\ Len(part(i)) \in Nat
        /\ part(i) = [j \in 1..Len(part(i)) |-> part(i)[j]]
    BY <2>1, LenProperties
  <2>4. \A j \in 1..Len(part(i)) : part(i)[j] \in ToSet(part(i))
    BY <2>3 DEF ToSet
  <2>5. part(i) \in [1..Len(part(i)) -> U]
    BY <2>2, <2>3, <2>4
  <2> QED  BY <2>3, <2>5, SeqDef
<1>3. TransformedAll(s, modifier) = FlattenSeq(parts)
  BY <1>1 DEF TransformedAll
<1>4. parts \in Seq(Seq(U)) /\ Len(parts) = Len(s)
  <2> HIDE DEF U, part
  <2>1. parts \in [1..Len(s) -> Seq(U)]
    BY <1>2
  <2>2. DOMAIN parts = 1..Len(s)
    OBVIOUS
  <2> HIDE DEF parts
  <2>3. parts \in Seq(Seq(U))
    BY <1>1, <2>1, SeqDef
  <2> QED  BY <1>1, <2>2, <2>3, LenProperties
<1>5. \A k \in 1..Len(s) : parts[k] = part(k)
  OBVIOUS
<1> DEFINE flat == FlattenSeq(parts)
<1> HIDE DEF parts, U
<1>6. flat \in Seq(U)
  BY <1>4, FlattenType
<1>7. ASSUME NEW k \in 1..Len(s) PROVE ToSet(part(k)) \subseteq ToSet(flat)
  BY <1>4, <1>5, FlattenHolds
<1> HIDE DEF flat, part
<1>8. ToSet(flat) \subseteq U
  BY <1>6, LenProperties, ElementOfSeq DEF ToSet
<1>9. \A u \in U : \E k \in 1..Len(s) : u \in ToSet(part(k))
  BY DEF U
<1>10. TransformedAll(s, modifier) = flat
  BY <1>3 DEF flat
<1> QED  BY <1>6, <1>7, <1>8, <1>9, <1>10 DEF Sequence, part

\* So a variant of a value is one of the values compared with.
LEMMA VariantCompared ==
    ASSUME NEW D, NEW values \in Seq(D), NEW k \in 1..Len(values), NEW o \in 0..2,
           values[k].text # <<>>, OffsetVariant(values[k].text, o) # <<>>
    PROVE  /\ Sequence(apply_transforms(values, OffsetContains))
           /\ Str(OffsetVariant(values[k].text, o)) \in ToSet(apply_transforms(values, OffsetContains))
<1> DEFINE text == values[k].text
           variant == OffsetVariant(text, o)
           all == TransformedAll(values, "base64offset")
<1>1. apply_transforms(values, OffsetContains) = all
  <2>1. PICK f : /\ AppliedTo(f, values, OffsetContains)
                 /\ apply_transforms(values, OffsetContains) = f[Len(OffsetContains)]
    <3>1. Len(OffsetContains) \in Nat
      BY OffsetModifiers
    <3> QED  BY <3>1, ApplyUnfolds
  <2>2. f[0] = values /\ \A n \in 1..2 : f[n] = TransformedAll(f[n - 1], OffsetContains[n])
    BY <2>1, OffsetModifiers DEF AppliedTo
  <2>3. f[1] = all /\ f[2] = TransformedAll(f[1], "contains")
    <3>1. 1 \in 1..2 /\ 2 \in 1..2 /\ 1 - 1 = 0 /\ 2 - 1 = 1
      OBVIOUS
    <3> QED  BY <2>2, <3>1, OffsetModifiers
  <2>4. PICK T : all \in Seq(T)
    BY OffsetType, TransformedSet DEF Sequence
  <2>5. ~is_transform("contains")
    BY DEF is_transform
  <2> HIDE DEF all
  <2>6. TransformedAll(all, "contains") = all
    BY <2>4, <2>5, TransformedAllSame
  <2> QED  BY <2>1, <2>3, <2>6, OffsetModifiers
<1>2. /\ Sequence(all)
      /\ ToSet(Transformed(values[k], "base64offset")) \subseteq ToSet(all)
  BY OffsetType, TransformedSet
<1>3. Transformed(values[k], "base64offset") = StrAll(OffsetVariants(text))
  BY DEF Transformed, is_transform
<1>4. variant \in ToSet(OffsetVariants(text))
  BY VariantLookedFor
<1> HIDE DEF all, variant
<1>5. Str(variant) \in ToSet(StrAll(OffsetVariants(text)))
  BY <1>4 DEF StrAll, ToSet
<1> QED  BY <1>1, <1>2, <1>3, <1>5 DEF variant

-----------------------------------------------------------------------------
(* A condition that looks for a payload.                                    *)

\* Nothing is folded to nothing, and only that.
LEMMA FoldEmpty == Fold(<<>>) = <<>>
BY DEF Fold

\* A payload of two bytes at least is not nothing.
LEMMA PayloadThere ==
    ASSUME NEW text \in Seq(Chars), Len(Bytes(text)) >= 2
    PROVE  text # <<>>
<1> SUFFICES ASSUME text = <<>> PROVE FALSE
  OBVIOUS
<1>1. Bytes(<<>>) = FlattenSeq(<<>>)
  BY DEF Bytes
<1>2. Bytes(text) = <<>> /\ Len(<<>>) = 0
  BY <1>1, FlattenEmpty
<1> QED  BY <1>2

\* A condition looks at the field that has the encoding.
LEMMA CellLookedAt ==
    ASSUME NEW field, NEW seen, NEW key \in DOMAIN seen.cells,
           field = <<>> \/ Fold(key) = Fold(field)
    PROVE  key \in KeysOf(Fold(field), seen)
BY FoldEmpty DEF KeysOf

\* The condition finds the payload in the encoding of a stream that holds it.
LEMMA DirectFinds ==
    ASSUME NEW field, NEW seen, NEW D, NEW values \in Seq(D), values # <<>>,
           values[1].text \in Seq(Chars), Len(Bytes(values[1].text)) >= 2,
           NEW stream \in Seq(Chars), Occurs(values[1].text, stream),
           NEW key \in DOMAIN seen.cells, field = <<>> \/ Fold(key) = Fold(field),
           seen.cells[key] = base64_encode(stream)
    PROVE  Direct(field, values, OffsetContains, seen)
<1> DEFINE text == values[1].text
           vs == apply_transforms(values, OffsetContains)
           raw == base64_encode(stream)
<1>1. PICK o \in 0..2, at \in Nat : /\ OffsetVariant(text, o) \in Seq(Digits64)
                                    /\ Len(OffsetVariant(text, o)) >= 1
                                    /\ IsAt(OffsetVariant(text, o), raw, at)
  BY VariantOccurs
<1> DEFINE variant == OffsetVariant(text, o)
<1>2. variant # <<>>
  <2>1. Len(<<>>) = 0
    OBVIOUS
  <2> HIDE DEF variant
  <2> QED  BY <1>1, <2>1 DEF variant
<1>3. 1 \in 1..Len(values)
  BY EmptySeq, LenProperties
<1>4. text # <<>>
  BY PayloadThere
<1>5. Sequence(vs) /\ Str(variant) \in ToSet(vs)
  BY <1>2, <1>3, <1>4, VariantCompared
<1>6. raw \in Seq(Digits64 \union {"="})
  <2>1. Bytes(stream) \in Seq(Octets)
    BY BytesType DEF Octets
  <2> QED  BY <2>1, EncodeIs, EncodedAt
<1> HIDE DEF vs, raw, text
<1>7. PICK i \in DOMAIN vs : vs[i] = Str(variant)
  BY <1>5 DEF ToSet
<1>8. vs[i].text = variant
  BY <1>7 DEF Str
<1>9. value_matches(vs[i], Fold(vs[i].text), Fold(vs[i].text), raw, OffsetContains)
  <2>1. value_matches(Str(variant), Fold(variant), Fold(variant), raw, OffsetContains)
    BY <1>1, <1>6, VariantFound
  <2> HIDE DEF variant
  <2> QED  BY <1>7, <1>8, <2>1
<1>10. i \in Passing(vs, OffsetContains, raw)
  BY <1>9 DEF Passing
<1>11. /\ ~Contains(OffsetContains, "all") /\ ~Contains(OffsetContains, "exists")
       /\ ~Contains(OffsetContains, "fieldref")
  BY OffsetModifiers
<1>12. Enough(OffsetContains, DOMAIN vs, Passing(vs, OffsetContains, raw))
  BY <1>10, <1>11 DEF Enough
<1>13. key \in KeysOf(Fold(field), seen) /\ seen.cells[key] = raw
  BY CellLookedAt DEF raw
<1> QED  BY <1>11, <1>12, <1>13 DEF Direct, vs

-----------------------------------------------------------------------------
(* An identifier that does.                                                 *)

\* The values the parser makes.
YamlValues == (Nodes \intersect SigmaValues) \union {Str(DebugText)}

\* They are values.
LEMMA YamlValuesType == YamlValues \subseteq SigmaValues
<1>1. "string" \in Kinds
  BY DEF Kinds
<1>2. Str(DebugText) \in SigmaValues
  BY <1>1, DebugTextAssumption DEF Str, SigmaValues
<1> QED  BY <1>2 DEF YamlValues

\* Any node reads as a value.
LEMMA YamlValue ==
    ASSUME NEW node \in Nodes
    PROVE  from_yaml(node) \in YamlValues
<1>1. CASE IsMap(node) \/ IsList(node)
  BY <1>1 DEF from_yaml, YamlValues
<1>2. CASE ~(IsMap(node) \/ IsList(node))
  <2>1. node \notin ListNodes
    <3> SUFFICES ASSUME node \in ListNodes PROVE IsList(node)
      BY <1>2
    <3> QED  BY DEF ListNodes, IsList
  <2>2. node \notin MapNodes
    <3> SUFFICES ASSUME node \in MapNodes PROVE IsMap(node)
      BY <1>2
    <3> QED  BY DEF MapNodes, IsMap
  <2>3. node \in SigmaValues
    BY <2>1, <2>2, NodesAssumption
  <2> QED  BY <1>2, <2>3 DEF from_yaml, YamlValues
<1> QED  BY <1>1, <1>2

\* A list of nodes reads as a sequence of values.
LEMMA YamlList ==
    ASSUME NEW nodes \in Seq(Nodes)
    PROVE  Values(nodes) \in Seq(YamlValues)
<1>1. /\ Len(nodes) \in Nat /\ DOMAIN nodes = 1..Len(nodes)
      /\ \A i \in 1..Len(nodes) : nodes[i] \in Nodes
  BY LenProperties, ElementOfSeq
<1>2. \A i \in 1..Len(nodes) : from_yaml(nodes[i]) \in YamlValues
  BY <1>1, YamlValue
<1>3. Values(nodes) \in [1..Len(nodes) -> YamlValues]
  BY <1>1, <1>2 DEF Values
<1> QED  BY <1>1, <1>3, SeqDef

\* A node reads as a sequence of one.
LEMMA YamlSingle ==
    ASSUME NEW node \in Nodes
    PROVE  <<from_yaml(node)>> \in Seq(YamlValues)
<1> DEFINE v == from_yaml(node)
<1>1. v \in YamlValues
  BY YamlValue
<1> HIDE DEF v
<1>2. <<v>> \in Seq(YamlValues)
  BY <1>1
<1> QED  BY <1>2 DEF v

\* parse_field_values makes a sequence of values.
LEMMA FieldValues ==
    ASSUME NEW node \in Nodes
    PROVE  parse_field_values(node) \in Seq(YamlValues)
<1>1. CASE IsList(node)
  <2>1. node.items \in Seq(Nodes)
    BY <1>1, NodeShape DEF ListNodes
  <2> QED  BY <1>1, <2>1, YamlList DEF parse_field_values
<1>2. CASE ~IsList(node)
  BY <1>2, YamlSingle DEF parse_field_values
<1> QED  BY <1>1, <1>2

\* Every condition of these groups, of which there are some, is of this entry.
AllOfEntry(groups, entry) ==
    /\ DOMAIN groups # {}
    /\ \A g \in DOMAIN groups : \A c \in DOMAIN groups[g] : groups[g][c] = EntryCondition(entry)

\* The conditions of a map are of its entries.
LEMMA MapEntries ==
    ASSUME NEW node, NEW map \in MapNodes, map \in Maps(node)
    PROVE  /\ DOMAIN parse_field_map(map) = DOMAIN map.entries
           /\ \A c \in DOMAIN map.entries :
                /\ parse_field_map(map)[c] = EntryCondition(map.entries[c])
                /\ map.entries[c] \in Entries(node) /\ map.entries[c] \in EntryType
<1>1. map.entries \in Seq(EntryType)
  BY DEF MapNodes, EntryType
<1>2. \A c \in DOMAIN map.entries :
        map.entries[c] \in EntryType /\ map.entries[c] \in Entries(node)
  <2>1. DOMAIN map.entries = 1..Len(map.entries)
    BY <1>1, LenProperties
  <2> QED  BY <1>1, <2>1, ElementOfSeq DEF ToSet, Entries
<1> QED  BY <1>2 DEF parse_field_map

\* The maps of a node are maps.
LEMMA MapsAreMaps ==
    ASSUME NEW node \in Nodes
    PROVE  Maps(node) \subseteq MapNodes
<1>1. CASE IsMap(node)
  BY <1>1, NodeShape DEF Maps
<1>2. CASE ~IsMap(node) /\ IsList(node) /\ AllMaps(node.items)
  <2>1. node.items \in Seq(Nodes)
    BY <1>2, NodeShape DEF ListNodes
  <2>2. \A i \in DOMAIN node.items : node.items[i] \in Nodes /\ IsMap(node.items[i])
    BY <1>2, <2>1, LenProperties, ElementOfSeq DEF AllMaps
  <2>3. \A i \in DOMAIN node.items : node.items[i] \in MapNodes
    BY <2>2, NodeShape
  <2> QED  BY <1>2, <2>3 DEF Maps, ToSet
<1>3. CASE ~IsMap(node) /\ ~(IsList(node) /\ AllMaps(node.items))
  BY <1>3 DEF Maps
<1> QED  BY <1>1, <1>2, <1>3

\* What the parser makes of a node that has one entry, once or more.
LEMMA ParsedOfEntry ==
    ASSUME NEW name, NEW node \in Nodes, NEW entry, Entries(node) = {entry}
    PROVE  /\ entry \in EntryType
           /\ \E groups : /\ parse_search_identifier(name, node) = [name |-> name, groups |-> groups]
                          /\ AllOfEntry(groups, entry)
<1> DEFINE groups == parse_search_identifier(name, node).groups
<1>1. parse_search_identifier(name, node) = [name |-> name, groups |-> groups]
  BY DEF parse_search_identifier
<1>2. PICK map \in Maps(node) : entry \in ToSet(map.entries)
  BY DEF Entries
<1>3. map \in MapNodes
  BY <1>2, MapsAreMaps
<1>4. entry \in EntryType
  BY <1>2, <1>3, MapEntries DEF ToSet
<1>5. ASSUME NEW m \in MapNodes, m \in Maps(node)
      PROVE  \A c \in DOMAIN parse_field_map(m) : parse_field_map(m)[c] = EntryCondition(entry)
  BY <1>5, MapEntries
<1>6. AllOfEntry(groups, entry)
  <2>1. CASE IsMap(node)
    <3>1. groups = <<parse_field_map(node)>>
      BY <2>1 DEF parse_search_identifier
    <3>2. node \in Maps(node) /\ node \in MapNodes
      BY <2>1, NodeShape DEF Maps
    <3> HIDE DEF groups
    <3>3. DOMAIN groups = {1} /\ groups[1] = parse_field_map(node)
      BY <3>1
    <3> QED  BY <1>5, <3>2, <3>3 DEF AllOfEntry
  <2>2. CASE ~IsMap(node)
    <3>1. IsList(node) /\ AllMaps(node.items) /\ map \in ToSet(node.items)
      BY <1>2, <2>2 DEF Maps
    <3>2. groups = [i \in DOMAIN node.items |-> parse_field_map(node.items[i])]
      BY <2>2, <3>1 DEF parse_search_identifier
    <3>3. DOMAIN node.items # {}
      BY <3>1 DEF ToSet
    <3>4. \A i \in DOMAIN node.items : node.items[i] \in Maps(node) /\ node.items[i] \in MapNodes
      BY <2>2, <3>1, MapsAreMaps DEF Maps, ToSet
    <3> HIDE DEF groups
    <3> QED  BY <1>5, <3>2, <3>3, <3>4 DEF AllOfEntry
  <2> QED  BY <2>1, <2>2
<1> QED  BY <1>1, <1>4, <1>6

\* The node of an identifier of the rule.
LEMMA NodeOfIdentifier ==
    ASSUME Parsed, phase \in {"enrich", "evaluate", "done"}, NEW i \in DOMAIN identifiers
    PROVE  /\ NodeOf(i) \in Nodes
           /\ identifiers[i] = parse_search_identifier(Named(detection)[i].name, NodeOf(i))
<1>1. identifiers = parse_detection(detection) /\ detection \in Documents
  BY DEF Parsed
<1>2. i \in DOMAIN Named(detection)
      /\ identifiers[i] = parse_search_identifier(Named(detection)[i].name, NodeOf(i))
  BY <1>1 DEF parse_detection, NodeOf
<1>3. Named(detection) \in Documents
  BY <1>1, NamedType
<1>4. Named(detection)[i] \in [name : STRING, node : Nodes]
  BY <1>2, <1>3, LenProperties, ElementOfSeq DEF Documents
<1> QED  BY <1>2, <1>4 DEF NodeOf

\* An identifier of an entry that holds, holds.
LEMMA EntryHolds ==
    ASSUME NEW name, NEW groups, NEW entry \in EntryType, AllOfEntry(groups, entry), NEW seen,
           Direct(entry.field, parse_field_values(entry.value), entry.modifiers, seen)
    PROVE  match_identifier(finalize_identifiers([name |-> name, groups |-> groups]), seen)
<1> DEFINE ready == finalize_identifiers([name |-> name, groups |-> groups])
           cond == EntryCondition(entry)
<1>1. match_field_condition(Finalized(cond), seen)
  <2>1. Made(cond, entry.field, Fold(entry.field), parse_field_values(entry.value), entry.modifiers)
    BY EntryMade
  <2> QED  BY <2>1, PreparedIsDirect DEF Made
<1>2. /\ DOMAIN ready.groups = DOMAIN groups
      /\ \A g \in DOMAIN groups :
            /\ DOMAIN ready.groups[g] = DOMAIN groups[g]
            /\ \A c \in DOMAIN groups[g] : ready.groups[g][c] = Finalized(groups[g][c])
  BY FinalizedGroups
<1>3. PICK g \in DOMAIN groups : \A c \in DOMAIN groups[g] : groups[g][c] = cond
  BY DEF AllOfEntry
<1> HIDE DEF ready, cond
<1>4. \A c \in DOMAIN ready.groups[g] : match_field_condition(ready.groups[g][c], seen)
  BY <1>1, <1>2, <1>3
<1>5. match_identifier(ready, seen)
  BY <1>2, <1>3, <1>4 DEF match_identifier
<1> QED  BY <1>5 DEF ready

\* The streams of a case are texts.
Streaming == case.streams \subseteq Seq(Chars)

\* They always are.
LEMMA StreamingInductive == Spec => []Streaming
<1>1. Init => Streaming
  BY CasesAssumption DEF Init, Streaming
<1>2. Streaming /\ [Next]_vars => Streaming'
  BY DEF Next, Finished, AddMapping, LoadRule, RejectRule, VisitKey, BuildView, Evaluate,
         AddField, vars, Streaming
<1> QED  BY <1>1, <1>2, PTL DEF Spec

\* It is what finding a payload needs.
LEMMA GrowthFinds == Growth /\ Streaming => OffsetsFindPayload
<1> SUFFICES ASSUME Growth, Streaming, phase = "done", NEW i \in DOMAIN matches,
                    NEW entry \in Entries(NodeOf(i)),
                    entry.modifiers = OffsetContains,
                    parse_field_values(entry.value) # <<>>, Entries(NodeOf(i)) = {entry},
                    Len(Bytes(parse_field_values(entry.value)[1].text)) >= 2,
                    NEW stream \in case.streams,
                    Occurs(parse_field_values(entry.value)[1].text, stream),
                    base64_encode(stream) \in Cells(entry.field, event)
             PROVE  matches[i].loaded
  BY DEF OffsetsFindPayload, OffsetContains
<1> DEFINE values == parse_field_values(entry.value)
<1>0. Parsed /\ Seeing
  BY DEF Growth
<1>1. /\ matches = [j \in DOMAIN identifiers |-> AnswersTo(identifiers[j], view)]
      /\ i \in DOMAIN identifiers /\ Shows(mapping, event, view.cells)
  BY <1>0 DEF Parsed, Seeing
<1>2. /\ NodeOf(i) \in Nodes
      /\ identifiers[i] = parse_search_identifier(Named(detection)[i].name, NodeOf(i))
  BY <1>0, <1>1, NodeOfIdentifier
<1>3. PICK groups :
        /\ entry \in EntryType
        /\ identifiers[i] = [name |-> Named(detection)[i].name, groups |-> groups]
        /\ AllOfEntry(groups, entry)
  BY <1>2, ParsedOfEntry
<1>4. values \in Seq(YamlValues)
  BY <1>3, FieldValues DEF EntryType
<1>5. values[1].text \in Seq(Chars)
  <2>1. values[1] \in YamlValues
    BY <1>4, EmptySeq, LenProperties, ElementOfSeq
  <2> QED  BY <2>1, YamlValuesType DEF SigmaValues
<1>6. PICK key \in DOMAIN event :
        (entry.field = <<>> \/ Fold(key) = Fold(entry.field)) /\ event[key] = base64_encode(stream)
  BY DEF Cells
<1>7. key \in DOMAIN view.cells /\ view.cells[key] = base64_encode(stream)
  BY <1>1, <1>6 DEF Shows
<1>8. stream \in Seq(Chars)
  BY DEF Streaming
<1>9. Direct(entry.field, values, OffsetContains, view)
  BY <1>4, <1>5, <1>6, <1>7, <1>8, DirectFinds
<1>10. match_identifier(finalize_identifiers(identifiers[i]), view)
  BY <1>3, <1>9, EntryHolds
<1> QED  BY <1>1, <1>10 DEF AnswersTo

\* A payload of two bytes or more is found in the encoding of whatever text it is part of.
THEOREM OffsetsAlwaysFindPayload == Spec => []OffsetsFindPayload
BY GrowthInductive, StreamingInductive, GrowthFinds, PTL

-----------------------------------------------------------------------------
(* A pattern means what the wildcard loop finds.                            *)

\* A folded text is a text, special where the text is.
LEMMA FoldType ==
    ASSUME NEW v \in Seq(Chars)
    PROVE  /\ Fold(v) \in Seq(Chars) /\ Len(Fold(v)) = Len(v) /\ Len(v) \in Nat
           /\ \A i \in 1..Len(v) :
                /\ Fold(v)[i] \in Chars
                /\ \A special \in Escapable : Fold(v)[i] = special <=> v[i] = special
<1>1. Len(v) \in Nat /\ DOMAIN v = 1..Len(v) /\ \A i \in 1..Len(v) : v[i] \in Chars
  BY LenProperties, ElementOfSeq
<1>2. \A i \in 1..Len(v) :
        /\ Lower[v[i]] \in Chars
        /\ \A special \in Escapable : Lower[v[i]] = special <=> v[i] = special
  BY <1>1, LowerAssumption
<1>3. Fold(v) \in [1..Len(v) -> Chars] /\ \A i \in 1..Len(v) : Fold(v)[i] = Lower[v[i]]
  BY <1>1, <1>2 DEF Fold
<1>4. Fold(v) \in Seq(Chars) /\ DOMAIN Fold(v) = 1..Len(v)
  BY <1>1, <1>3, SeqDef
<1>5. Len(Fold(v)) = Len(v)
  BY <1>1, <1>4, LenProperties
<1> QED  BY <1>1, <1>2, <1>3, <1>4, <1>5

\* Matching is the same there.
LEMMA SameMatches ==
    ASSUME NEW p, NEW t
    PROVE  W!Matches(p, t) <=> Matches(p, t)
BY DEF W!Matches, Matches, W!Covers, Covers, W!Takes, Takes, W!Accepts, Accepts,
       W!Star, Star, W!Question, Question, W!Lit, Lit

\* So is a pattern with its stars.
LEMMA SameWrapped ==
    ASSUME NEW p, NEW mode
    PROVE  W!Wrapped(p, mode) = Wrapped(p, mode)
BY SameTokens DEF W!Wrapped, Wrapped, W!StarBefore, StarBefore, W!StarAfter, StarAfter, W!Star, Star

\* And a literal.
LEMMA SameLiteral ==
    ASSUME NEW p, NEW mode, NEW t
    PROVE  /\ W!IsLiteral(p) <=> IsLiteral(p)
           /\ W!LiteralMatches(p, mode, t) <=> LiteralMatches(p, mode, t)
<1>1. W!tokenize_pattern(p) = tokenize_pattern(p)
  BY SameTokens
<1>2. W!pattern_literal(p) = pattern_literal(p)
  BY <1>1 DEF W!pattern_literal, pattern_literal
<1>3. W!LiteralMatches(p, mode, t) <=> LiteralMatches(p, mode, t)
  BY <1>2 DEF W!LiteralMatches, LiteralMatches
<1>4. W!IsLiteral(p) <=> IsLiteral(p)
  BY <1>1 DEF W!IsLiteral, IsLiteral, W!Star, Star, W!Question, Question
<1> QED  BY <1>3, <1>4

\* The literal fast path and the wildcard loop both say what a pattern means.
LEMMA PatternMeans ==
    ASSUME NEW v \in Seq(Chars), NEW mode \in Modes, NEW text \in Seq(Chars)
    PROVE  PatternMatches(Fold(v), mode, Fold(text)) <=> MeansPattern(v, mode, text)
<1> DEFINE p == Fold(v)
           t == Fold(text)
<1>1. p \in Seq(Chars) /\ t \in Seq(Chars) /\ Len(t) = Len(text)
  BY FoldType
<1>2. MeansPattern(v, mode, text) <=>
        \E from, to \in 0..Len(t) :
            /\ from <= to
            /\ mode \notin {"contains", "endswith"} => from = 0
            /\ mode \notin {"contains", "startswith"} => to = Len(t)
            /\ Matches(tokenize_pattern(p), SubSeq(t, from + 1, to))
  BY <1>1 DEF MeansPattern
<1> HIDE DEF p, t
<1>3. mode \in W!Modes
  BY DEF W!Modes, Modes
<1>4. W!Matches(W!Wrapped(p, mode), t) <=>
        \E from, to \in 0..Len(t) :
            /\ from <= to
            /\ mode \notin {"contains", "endswith"} => from = 0
            /\ mode \notin {"contains", "startswith"} => to = Len(t)
            /\ W!Matches(W!tokenize_pattern(p), SubSeq(t, from + 1, to))
  BY <1>1, <1>3, W!WrappedMatchesPart
<1>5. Matches(Wrapped(p, mode), t) <=> MeansPattern(v, mode, text)
  BY <1>2, <1>4, SameMatches, SameWrapped, SameTokens
<1>6. ASSUME IsLiteral(p)
      PROVE  Matches(Wrapped(p, mode), t) <=> LiteralMatches(p, mode, t)
  <2>1. W!IsLiteral(p)
    BY <1>6, SameLiteral
  <2>2. W!Matches(W!Wrapped(p, mode), t) <=> W!LiteralMatches(p, mode, t)
    BY <1>1, <1>3, <2>1, W!LiteralIsWildcardFree
  <2> QED  BY <2>2, SameMatches, SameWrapped, SameLiteral
<1>7. PatternMatches(p, mode, t) <=> MeansPattern(v, mode, text)
  BY <1>5, <1>6 DEF PatternMatches
<1> QED  BY <1>7 DEF p, t

\* A literal matches itself only, as a whole.
LEMMA LiteralIsItself ==
    ASSUME NEW p \in Seq(Chars), NEW t \in Seq(Chars), pattern_literal(p) = p
    PROVE  LiteralMatches(p, "exact", t) <=> p = t
<1>1. Len(p) \in Nat /\ Len(t) \in Nat
  BY LenProperties
<1>2. LiteralMatches(p, "exact", t) <=>
        \E i \in 0..(Len(t) - Len(p)) :
            i = 0 /\ i = Len(t) - Len(p) /\ \A j \in 1..Len(p) : t[i + j] = p[j]
  BY DEF LiteralMatches
<1>3. ASSUME p = t PROVE LiteralMatches(p, "exact", t)
  <2>1. 0 \in 0..(Len(t) - Len(p)) /\ 0 = Len(t) - Len(p) /\ \A j \in 1..Len(p) : t[0 + j] = p[j]
    BY <1>1, <1>3
  <2> QED  BY <1>2, <2>1
<1>4. ASSUME LiteralMatches(p, "exact", t) PROVE p = t
  <2>1. 0 = Len(t) - Len(p) /\ \A j \in 1..Len(p) : t[0 + j] = p[j]
    BY <1>2, <1>4
  <2>2. Len(t) = Len(p) /\ \A j \in 1..Len(p) : t[j] = p[j]
    BY <1>1, <2>1
  <2> QED  BY <2>2, SeqEqual
<1> QED  BY <1>3, <1>4

\* Only strings have wildcards and escapes.
Readable(v) ==
    /\ v \in SigmaValues
    /\ v.kind # "string" => ToSet(v.text) \intersect Escapable = {}
    /\ v.kind = "null" => v.text = <<>>

\* Every modifier list has a mode.
LEMMA ModeType == ASSUME NEW modifiers PROVE Mode(modifiers) \in Modes
BY DEF Mode, Modes

\* Comparing texts is what a pattern means.
LEMMA TextMeans ==
    ASSUME NEW v, Readable(v), NEW text \in Seq(Chars), NEW modifiers
    PROVE  TextMatches(v, Fold(v.text), Fold(v.text), Fold(text), modifiers)
                <=> MeansPattern(v.text, Mode(modifiers), text)
<1> DEFINE p == Fold(v.text)
           t == Fold(text)
           mode == Mode(modifiers)
<1>1. v.text \in Seq(Chars)
  BY DEF Readable, SigmaValues
<1>2. mode \in Modes
  BY ModeType
<1>3. PatternMatches(p, mode, t) <=> MeansPattern(v.text, mode, text)
  BY <1>1, <1>2, PatternMeans
<1>4. ASSUME mode = "exact", ~has_wildcards(v), "\\" \notin ToSet(p)
      PROVE  PatternMatches(p, mode, t) <=> p = t
  <2>1. /\ p \in Seq(Chars) /\ t \in Seq(Chars) /\ Len(p) = Len(v.text) /\ Len(p) \in Nat
        /\ \A i \in 1..Len(v.text) : \A special \in Escapable : p[i] = special <=> v.text[i] = special
    BY <1>1, FoldType
  <2>2. DOMAIN p = 1..Len(p) /\ DOMAIN v.text = 1..Len(v.text)
    BY <1>1, <2>1, LenProperties
  <2> HIDE DEF p, t
  <2>3. ASSUME NEW i \in 1..Len(p) PROVE p[i] \notin Escapable
    <3>1. v.text[i] \in ToSet(v.text) /\ p[i] \in ToSet(p)
      BY <2>1, <2>2 DEF ToSet
    <3>2. v.kind = "string" => v.text[i] \notin {"*", "?"}
      BY <1>4, <3>1 DEF has_wildcards
    <3>3. v.kind # "string" => v.text[i] \notin Escapable
      BY <3>1 DEF Readable
    <3>4. p[i] # "\\"
      BY <1>4, <3>1
    <3> QED  BY <2>1, <3>2, <3>3, <3>4 DEF Escapable
  <2>4. IsLiteral(p) /\ pattern_literal(p) = p
    BY <2>1, <2>3, PlainLiteral
  <2>5. LiteralMatches(p, "exact", t) <=> p = t
    BY <2>1, <2>4, LiteralIsItself
  <2> QED  BY <1>4, <2>4, <2>5 DEF PatternMatches
<1> HIDE DEF p, t, mode
<1>5. TextMatches(v, p, p, t, modifiers) <=> PatternMatches(p, mode, t)
  BY <1>4 DEF TextMatches, mode
<1> QED  BY <1>3, <1>5 DEF p, t, mode

-----------------------------------------------------------------------------
(* Powers of two and the bits of a number.                                  *)

\* A doubling up to n.
Doubling(n, g) == /\ g \in [0..n -> Nat \ {0}] /\ g[0] = 1
                  /\ \A i \in 1..n : g[i] = 2 * g[i - 1]

\* There is one.
LEMMA DoublingExists ==
    ASSUME NEW n \in Nat
    PROVE  \E g : Doubling(n, g)
<1> DEFINE S == Nat \ {0}
           step == [i \in 1..n |-> [x \in S |-> 2 * x]]
<1>1. 1 \in S /\ \A x \in S : 2 * x \in S
  OBVIOUS
<1>2. step \in [1..n -> [S -> S]]
  <2> HIDE DEF S
  <2> QED  BY <1>1
<1>3. PICK g \in [0..n -> S] : Follows(g, n, 1, step)
  <2> HIDE DEF S, step
  <2> QED  BY <1>1, <1>2, Recursion
<1>4. ASSUME NEW i \in 1..n PROVE g[i] = 2 * g[i - 1]
  <2>1. i - 1 \in 0..n
    OBVIOUS
  <2>2. g[i] = step[i][g[i - 1]] /\ g[i - 1] \in S
    BY <1>3, <2>1 DEF Follows
  <2> QED  BY <2>2
<1> QED  BY <1>3, <1>4 DEF Doubling, Follows

\* And only one.
LEMMA DoublingsAgree ==
    ASSUME NEW n \in Nat, NEW g, NEW h, Doubling(n, g), Doubling(n + 1, h)
    PROVE  \A i \in 0..n : g[i] = h[i]
<1> DEFINE G == {i \in 0..n : g[i] = h[i]}
<1>1. 0 \in G
  BY DEF Doubling
<1>2. ASSUME NEW i \in 0..(n - 1), i \in G PROVE i + 1 \in G
  <2>1. i + 1 \in 1..n /\ i + 1 \in 1..(n + 1) /\ (i + 1) - 1 = i /\ i + 1 \in 0..n
    OBVIOUS
  <2>2. g[i + 1] = 2 * g[i] /\ h[i + 1] = 2 * h[i]
    BY <2>1 DEF Doubling
  <2> QED  BY <1>2, <2>1, <2>2
<1> HIDE DEF G
<1>3. 0..n \subseteq G
  BY <1>1, <1>2, Upwards
<1> QED  BY <1>3 DEF G

\* What Pow2 is.
LEMMA PowerUnfolds ==
    /\ Pow2[0] = 1
    /\ \A n \in Nat : Pow2[n] \in Nat \ {0} /\ Pow2[n + 1] = 2 * Pow2[n]
<1> DEFINE d(n) == CHOOSE g : Doubling(n, g)
           f == [n \in Nat |-> d(n)[n]]
<1>1. \A n \in Nat : Doubling(n, d(n))
  BY DoublingExists
<1> HIDE DEF d
<1>2. ASSUME NEW n \in Nat PROVE f[n] \in Nat \ {0} /\ f[n + 1] = 2 * f[n]
  <2>1. Doubling(n, d(n)) /\ Doubling(n + 1, d(n + 1)) /\ n + 1 \in Nat
    BY <1>1
  <2>2. n \in 0..n /\ n + 1 \in 1..(n + 1) /\ (n + 1) - 1 = n
    OBVIOUS
  <2>3. d(n)[n] = d(n + 1)[n]
    BY <2>1, <2>2, DoublingsAgree
  <2>4. d(n + 1)[n + 1] = 2 * d(n + 1)[n] /\ d(n)[n] \in Nat \ {0}
    BY <2>1, <2>2 DEF Doubling
  <2> QED  BY <2>1, <2>3, <2>4
<1>3. f[0] = 1
  BY <1>1 DEF Doubling
<1>4. f = [n \in Nat |-> IF n = 0 THEN 1 ELSE 2 * f[n - 1]]
  <2>1. \A n \in Nat : f[n] = IF n = 0 THEN 1 ELSE 2 * f[n - 1]
    <3> SUFFICES ASSUME NEW n \in Nat, n # 0 PROVE f[n] = 2 * f[n - 1]
      BY <1>3
    <3>1. n - 1 \in Nat /\ (n - 1) + 1 = n
      OBVIOUS
    <3> HIDE DEF f
    <3> QED  BY <1>2, <3>1
  <2>2. f = [n \in Nat |-> f[n]]
    OBVIOUS
  <2> HIDE DEF f
  <2> QED  BY <2>1, <2>2
<1> HIDE DEF f
<1>5. Pow2 = [n \in Nat |-> IF n = 0 THEN 1 ELSE 2 * Pow2[n - 1]]
  BY <1>4 DEF Pow2
<1>6. Pow2[0] = 1
  BY <1>5
<1>7. \A n \in Nat : Pow2[n + 1] = 2 * Pow2[n]
  <2> TAKE n \in Nat
  <2>1. n + 1 \in Nat /\ n + 1 # 0 /\ (n + 1) - 1 = n
    OBVIOUS
  <2> QED  BY <1>5, <2>1
<1>8. ASSUME NEW n \in Nat PROVE Pow2[n] \in Nat \ {0}
  <2> DEFINE G == {i \in 0..n : Pow2[i] \in Nat \ {0}}
  <2>1. 0 \in G
    BY <1>6
  <2>2. ASSUME NEW i \in 0..(n - 1), i \in G PROVE i + 1 \in G
    <3>1. Pow2[i + 1] = 2 * Pow2[i] /\ i + 1 \in 0..n
      BY <1>7
    <3> QED  BY <2>2, <3>1
  <2>3. n \in 0..n
    OBVIOUS
  <2> HIDE DEF G
  <2>4. n \in G
    BY <2>1, <2>2, <2>3, Upwards
  <2> QED  BY <2>4 DEF G
<1> QED  BY <1>6, <1>7, <1>8

\* Division, as multiplication and a rest.
LEMMA DivisionIs ==
    ASSUME NEW a \in Nat, NEW q \in Nat \ {0}
    PROVE  /\ a \div q \in Nat /\ a % q \in 0..(q - 1)
           /\ a = q * (a \div q) + (a % q)
OBVIOUS

\* The quotient is the only one.
LEMMA QuotientIs ==
    ASSUME NEW q \in Nat \ {0}, NEW k \in Nat, NEW r \in 0..(q - 1)
    PROVE  (q * k + r) \div q = k /\ (q * k + r) % q = r
OBVIOUS

\* Halving a quotient is dividing by twice as much.
LEMMA HalfQuotient ==
    ASSUME NEW a \in Nat, NEW q \in Nat \ {0}
    PROVE  a \div (2 * q) = (a \div q) \div 2
<1> DEFINE d == a \div q
           r == a % q
           h == d \div 2
           b == d % 2
<1>1. d \in Nat /\ r \in 0..(q - 1) /\ a = q * d + r
  BY DivisionIs
<1>2. h \in Nat /\ b \in 0..1 /\ d = 2 * h + b
  BY <1>1, DivisionIs
<1> HIDE DEF d, r, h, b
<1>3. q * d = (2 * q) * h + q * b
  BY <1>1, <1>2
<1>4. q * b + r \in 0..(2 * q - 1)
  <2>1. b = 0 \/ b = 1
    BY <1>2
  <2> QED  BY <1>1, <2>1
<1>5. a = (2 * q) * h + (q * b + r)
  BY <1>1, <1>2, <1>3, <1>4
<1>6. 2 * q \in Nat \ {0}
  OBVIOUS
<1>7. a \div (2 * q) = h
  <2> DEFINE w == 2 * q
             s == q * b + r
  <2>1. w \in Nat \ {0} /\ s \in 0..(w - 1) /\ a = w * h + s
    BY <1>4, <1>5, <1>6
  <2> HIDE DEF w, s
  <2>2. (w * h + s) \div w = h
    BY <1>2, <2>1, QuotientIs
  <2> QED  BY <2>1, <2>2 DEF w
<1> QED  BY <1>7 DEF h, d

\* A higher power is no less.
LEMMA PowerGrows ==
    ASSUME NEW w \in Nat, NEW n \in 0..w
    PROVE  Pow2[n] <= Pow2[w]
<1> DEFINE G == {d \in 0..(w - n) : Pow2[n] <= Pow2[n + d]}
<1>0. w - n \in Nat /\ n \in Nat /\ w - n \in 0..(w - n) /\ n + (w - n) = w
  OBVIOUS
<1>1. 0 \in G
  BY PowerUnfolds
<1>2. ASSUME NEW d \in 0..((w - n) - 1), d \in G PROVE d + 1 \in G
  <2>1. d + 1 \in 0..(w - n) /\ n + d \in Nat /\ (n + d) + 1 = n + (d + 1)
    OBVIOUS
  <2>2. Pow2[n + (d + 1)] = 2 * Pow2[n + d] /\ Pow2[n + d] \in Nat /\ Pow2[n] \in Nat
    BY <2>1, PowerUnfolds
  <2>3. Pow2[n] <= Pow2[n + d]
    BY <1>2
  <2>4. Pow2[n] <= Pow2[n + (d + 1)]
    BY <2>2, <2>3
  <2> QED  BY <2>1, <2>4
<1> HIDE DEF G
<1>3. w - n \in G
  BY <1>0, <1>1, <1>2, Upwards
<1> QED  BY <1>0, <1>3 DEF G

\* The bit at a place.
BitAt(a, k) == (a \div Pow2[k]) % 2

\* What is left of a number without its last bits is its last bit, and what is left
\* without that.
LEMMA QuotientBit ==
    ASSUME NEW a \in Nat, NEW k \in Nat
    PROVE  /\ a \div Pow2[k] \in Nat /\ BitAt(a, k) \in Nat
           /\ a \div Pow2[k + 1] = (a \div Pow2[k]) \div 2
           /\ a \div Pow2[k] = 2 * (a \div Pow2[k + 1]) + BitAt(a, k)
<1>1. Pow2[k] \in Nat \ {0} /\ Pow2[k + 1] = 2 * Pow2[k]
  BY PowerUnfolds
<1>2. a \div Pow2[k] \in Nat
  BY <1>1, DivisionIs
<1>3. a \div (2 * Pow2[k]) = (a \div Pow2[k]) \div 2
  BY <1>1, HalfQuotient
<1>4. a \div Pow2[k + 1] = (a \div Pow2[k]) \div 2
  BY <1>1, <1>3
<1> DEFINE A == a \div Pow2[k]
<1>5. A = 2 * (A \div 2) + (A % 2) /\ A % 2 \in Nat
  <2> HIDE DEF A
  <2> QED  BY <1>2 DEF A
<1> QED  BY <1>2, <1>4, <1>5 DEF BitAt

\* Two numbers agree without their last bits if they do in all others.
LEMMA BitsAgree ==
    ASSUME NEW w \in Nat, NEW n \in 0..w,
           NEW a \in 0..(Pow2[w] - 1), NEW b \in 0..(Pow2[w] - 1)
    PROVE  a \div Pow2[n] = b \div Pow2[n] <=> \A k \in n..(w - 1) : BitAt(a, k) = BitAt(b, k)
<1> DEFINE Same(j) == a \div Pow2[j] = b \div Pow2[j] <=> \A k \in j..(w - 1) : BitAt(a, k) = BitAt(b, k)
           G == {d \in 0..w : Same(w - d)}
<1>0. a \in Nat /\ b \in Nat
  OBVIOUS
<1>1. 0 \in G
  <2>1. a \div Pow2[w] = 0 /\ b \div Pow2[w] = 0
    <3>1. Pow2[w] \in Nat \ {0}
      BY PowerUnfolds
    <3>2. \A q \in Nat \ {0} : \A x \in 0..(q - 1) : x \div q = 0
      OBVIOUS
    <3> QED  BY <3>1, <3>2
  <2>2. w - 0 = w /\ 0 \in 0..w /\ w..(w - 1) = {}
    OBVIOUS
  <2>3. Same(w)
    BY <2>1, <2>2
  <2> HIDE DEF Same
  <2> QED  BY <2>2, <2>3
<1>2. ASSUME NEW d \in 0..(w - 1), d \in G PROVE d + 1 \in G
  <2> DEFINE j == w - (d + 1)
  <2>1. /\ j \in Nat /\ j + 1 = w - d /\ d + 1 \in 0..w
        /\ \A k \in j..(w - 1) : k = j \/ k \in (j + 1)..(w - 1)
        /\ j \in j..(w - 1)
        /\ \A k \in (j + 1)..(w - 1) : k \in j..(w - 1)
    OBVIOUS
  <2> HIDE DEF j
  <2>2. Same(j + 1)
    BY <1>2, <2>1
  <2> DEFINE x == a \div Pow2[j + 1]
             y == b \div Pow2[j + 1]
             x0 == BitAt(a, j)
             y0 == BitAt(b, j)
  <2>3. /\ a \div Pow2[j] = 2 * x + x0 /\ x = (a \div Pow2[j]) \div 2
        /\ b \div Pow2[j] = 2 * y + y0 /\ y = (b \div Pow2[j]) \div 2
        /\ x0 = (a \div Pow2[j]) % 2 /\ y0 = (b \div Pow2[j]) % 2
    BY <1>0, <2>1, QuotientBit DEF BitAt
  <2> HIDE DEF x, y, x0, y0
  <2>4. a \div Pow2[j] = b \div Pow2[j] <=> x = y /\ x0 = y0
    BY <2>3
  <2>5. x = y <=> \A k \in (j + 1)..(w - 1) : BitAt(a, k) = BitAt(b, k)
    BY <2>2 DEF x, y
  <2>6. x0 = y0 <=> BitAt(a, j) = BitAt(b, j)
    BY DEF x0, y0
  <2>7. (\A k \in j..(w - 1) : BitAt(a, k) = BitAt(b, k)) <=> x = y /\ x0 = y0
    BY <2>1, <2>5, <2>6
  <2>8. Same(j)
    BY <2>4, <2>7
  <2> HIDE DEF Same
  <2> QED  BY <2>1, <2>8 DEF j
<1>3. w - n \in 0..w /\ w - (w - n) = n /\ w \in Nat
  OBVIOUS
<1> HIDE DEF G
<1>4. 0..w \subseteq G
  BY <1>1, <1>2, Upwards
<1>5. Same(n)
  BY <1>3, <1>4 DEF G
<1> QED  BY <1>5

\* The code's mask drops the last bits.
LEMMA MaskIs ==
    ASSUME NEW w \in Nat \ {0}, NEW n \in 0..(w - 1)
    PROVE  Pow2[w] - Shl(Pow2[w] - 1, n, w) = Pow2[n]
<1> DEFINE Q == Pow2[w]
           q == Pow2[n]
<1>1. Q \in Nat \ {0} /\ q \in Nat \ {0} /\ q <= Q
  BY PowerUnfolds, PowerGrows
<1>2. n % w = n
  <2>1. \A x \in 0..(w - 1) : x % w = x
    OBVIOUS
  <2> QED  BY <2>1
<1>3. Shl(Q - 1, n, w) = ((Q - 1) * q) % Q
  BY <1>2 DEF Shl
<1> HIDE DEF Q, q
<1>4. (Q - 1) * q = Q * (q - 1) + (Q - q)
  BY <1>1
<1>5. (Q * (q - 1) + (Q - q)) % Q = Q - q
  <2>1. q - 1 \in Nat /\ Q - q \in 0..(Q - 1)
    BY <1>1
  <2> DEFINE k == q - 1
             r == Q - q
  <2> HIDE DEF k, r
  <2>2. (Q * k + r) % Q = r
    BY <1>1, <2>1, QuotientIs DEF k, r
  <2> QED  BY <2>2 DEF k, r
<1>6. Shl(Q - 1, n, w) = Q - q
  BY <1>3, <1>4, <1>5
<1>7. Q - Shl(Q - 1, n, w) = q
  BY <1>1, <1>6
<1> QED  BY <1>7 DEF Q, q

\* Numbers without the rest are equal if their quotients are.
LEMMA WholeParts ==
    ASSUME NEW q \in Nat \ {0}, NEW a \in Nat, NEW b \in Nat
    PROVE  a - (a % q) = b - (b % q) <=> a \div q = b \div q
<1> DEFINE k == a \div q
           l == b \div q
           r == a % q
           s == b % q
<1>1. k \in Nat /\ l \in Nat /\ r \in Nat /\ s \in Nat /\ a = q * k + r /\ b = q * l + s
  BY DivisionIs
<1> HIDE DEF k, l, r, s
<1>2. a - r = q * k /\ b - s = q * l
  BY <1>1
<1>3. q * k = q * l <=> k = l
  BY <1>1
<1>4. a - r = b - s <=> k = l
  BY <1>2, <1>3
<1> QED  BY <1>4 DEF k, l, r, s

\* Two addresses are in the same network if their first bits agree.
LEMMA NetworkMeans ==
    ASSUME NEW net, NEW target, NEW w, w = Width[net.version], w \in Nat \ {0},
           net.bits \in 0..(Pow2[w] - 1), target.bits \in 0..(Pow2[w] - 1),
           NEW prefix_len \in 0..w
    PROVE  SameNetwork(net, target, prefix_len)
             <=> \A b \in (w - prefix_len)..(w - 1) :
                    (net.bits \div Pow2[b]) % 2 = (target.bits \div Pow2[b]) % 2
<1>1. CASE prefix_len = 0
  <2>1. (w - prefix_len)..(w - 1) = {}
    BY <1>1
  <2> QED  BY <1>1, <2>1 DEF SameNetwork
<1>2. CASE prefix_len # 0
  <2> DEFINE n == w - prefix_len
             q == Pow2[n]
  <2>1. n \in 0..(w - 1) /\ n \in 0..w /\ n \in Nat
    BY <1>2
  <2> HIDE DEF n
  <2>2. Pow2[w] - Shl(Pow2[w] - 1, n, w) = q
    BY <2>1, MaskIs
  <2>3. q \in Nat \ {0} /\ Pow2[w] \in Nat
    BY <2>1, PowerUnfolds
  <2>4. net.bits \in Nat /\ target.bits \in Nat
    BY <2>3
  <2>5. SameNetwork(net, target, prefix_len)
          <=> net.bits - (net.bits % q) = target.bits - (target.bits % q)
    BY <1>2, <2>2 DEF SameNetwork, n
  <2>6. net.bits - (net.bits % q) = target.bits - (target.bits % q)
          <=> net.bits \div q = target.bits \div q
    BY <2>3, <2>4, WholeParts
  <2>7. net.bits \div q = target.bits \div q
          <=> \A b \in n..(w - 1) : BitAt(net.bits, b) = BitAt(target.bits, b)
    BY <2>1, BitsAgree
  <2> QED  BY <2>5, <2>6, <2>7 DEF BitAt, n
<1> QED  BY <1>1, <1>2

-----------------------------------------------------------------------------
(* The texts of the nodes and the events.                                   *)

\* They are sequences of characters.
LEMMA WholeTextType == WholeTexts \subseteq Seq(Chars)
<1>1. ASSUME NEW v \in SigmaValues PROVE v.text \in Seq(Chars)
  BY DEF SigmaValues
<1>2. \A c \in Cases : EventTexts(c) \subseteq Seq(Chars)
  BY CasesAssumption
<1> QED  BY <1>1, <1>2, DebugTextAssumption DEF WholeTexts

\* Parts of them are texts too.
LEMMA PartOfText ==
    ASSUME NEW t \in WholeTexts, NEW i \in 1..(Len(t) + 1), NEW j \in 0..Len(t)
    PROVE  SubSeq(t, i, j) \in AllTexts
BY DEF AllTexts

\* So are they themselves, and what trimming leaves.
LEMMA TextsAreParts ==
    ASSUME NEW t \in WholeTexts
    PROVE  t \in AllTexts /\ Trim(t) \in AllTexts
<1>0. t \in Seq(Chars)
  BY WholeTextType
<1>1. Len(t) \in Nat /\ DOMAIN t = 1..Len(t)
  BY <1>0, LenProperties
<1>2. t \in AllTexts
  <2>1. SubSeq(t, 1, Len(t)) = t
    BY <1>0, <1>1, SubSeqProperties, SeqEqual
  <2>2. 1 \in 1..(Len(t) + 1) /\ Len(t) \in 0..Len(t)
    BY <1>1
  <2> QED  BY <2>1, <2>2, PartOfText
<1>3. Trim(t) \in AllTexts
  <2> DEFINE kept == {i \in DOMAIN t : t[i] # " "}
  <2>1. CASE kept = {}
    <3>1. Trim(t) = <<>>
      BY <2>1 DEF Trim
    <3>2. SubSeq(t, 1, 0) = <<>>
      BY <1>0, <1>1, SubSeqProperties, EmptySeq
    <3>3. 1 \in 1..(Len(t) + 1) /\ 0 \in 0..Len(t)
      BY <1>1
    <3> QED  BY <3>1, <3>2, <3>3, PartOfText
  <2>2. CASE kept # {}
    <3>1. Trim(t) = SubSeq(t, Min(kept), Max(kept))
      BY <2>2 DEF Trim
    <3>2. \A i \in kept : i \in DOMAIN t
      BY Zenon
    <3> HIDE DEF kept
    <3>3. kept \in SUBSET (1..Len(t)) /\ kept \in SUBSET Nat
      BY <1>1, <3>2
    <3>4. Min(kept) \in kept /\ Max(kept) \in kept
      BY <1>1, <2>2, <3>3, MinIsLeast, MaxOfPlaces
    <3>5. Min(kept) \in 1..Len(t) /\ Max(kept) \in 1..Len(t)
      BY <1>1, <3>2, <3>4
    <3> DEFINE first == Min(kept)
               last == Max(kept)
    <3> HIDE DEF first, last
    <3>6. first \in 1..(Len(t) + 1) /\ last \in 0..Len(t)
      BY <1>1, <3>5 DEF first, last
    <3> QED  BY <3>1, <3>6, PartOfText DEF first, last
  <2> QED  BY <2>1, <2>2
<1> QED  BY <1>2, <1>3

\* A slash in a part of a text.
LEMMA SlashInPart ==
    ASSUME NEW t \in Seq(Chars), NEW i \in 1..(Len(t) + 1), NEW j \in 0..Len(t),
           NEW k \in i..j, t[k] = "/"
    PROVE  "/" \in ToSet(SubSeq(t, i, j))
<1> DEFINE s == SubSeq(t, i, j)
<1>1. Len(t) \in Nat
  BY LenProperties
<1>2. i <= j /\ i \in Nat /\ j \in Nat
  BY <1>1
<1>3. s \in Seq(Chars) /\ Len(s) = (j - i) + 1 /\ \A m \in 1..((j - i) + 1) : s[m] = t[i + (m - 1)]
  BY <1>1, <1>2, SubSeqProperties
<1>4. (k - i) + 1 \in 1..((j - i) + 1) /\ i + (((k - i) + 1) - 1) = k
  BY <1>1, <1>2
<1>5. DOMAIN s = 1..Len(s)
  BY <1>3, LenProperties
<1> HIDE DEF s
<1>6. s[(k - i) + 1] = "/" /\ (k - i) + 1 \in DOMAIN s
  BY <1>3, <1>4, <1>5
<1> QED  BY <1>6 DEF ToSet, s

-----------------------------------------------------------------------------
(* Networks.                                                                *)

\* A network and an address have their bits within their width.
LEMMA AddressType ==
    ASSUME NEW t \in AllTexts, NEW a \in ParseIp(t)
    PROVE  /\ Width[a.version] \in Nat \ {0}
           /\ a.bits \in 0..(Pow2[Width[a.version]] - 1)
<1>1. a.version \in DOMAIN Width /\ a.bits \in 0..(Pow2[Width[a.version]] - 1)
  BY NumbersAssumption
<1>2. Width \in [{4, 6} -> Nat \ {0}]
  BY WidthAssumption
<1>3. Width[a.version] \in Nat \ {0}
  BY <1>1, <1>2
<1> QED  BY <1>1, <1>3

\* A prefix length in range is compared as the documents say.
LEMMA NetworksAgree ==
    ASSUME NEW s \in AllTexts, NEW net \in ParseIp(s), NEW u \in AllTexts, NEW target \in ParseIp(u),
           net.version = target.version, NEW bits \in 0..Width[net.version]
    PROVE  SameNetwork(net, target, bits)
             <=> \A b \in (Width[net.version] - bits)..(Width[net.version] - 1) :
                    (net.bits \div Pow2[b]) % 2 = (target.bits \div Pow2[b]) % 2
<1>1. /\ Width[net.version] \in Nat \ {0}
      /\ net.bits \in 0..(Pow2[Width[net.version]] - 1)
      /\ target.bits \in 0..(Pow2[Width[net.version]] - 1)
  BY AddressType
<1> QED  BY <1>1, NetworkMeans

\* What is said of the two parts of a text around a slash.
Around(cidr, ip, i) ==
    \E net \in ParseIp(SubSeq(cidr, 1, i - 1)), target \in ParseIp(Trim(ip)),
       bits \in ParseI64(SubSeq(cidr, i + 1, Len(cidr))) :
        /\ net.version = target.version
        /\ bits \in 0..Width[net.version]
        /\ \A b \in (Width[net.version] - bits)..(Width[net.version] - 1) :
                (net.bits \div Pow2[b]) % 2 = (target.bits \div Pow2[b]) % 2

\* Whether an address is in a network is decided as the documents say.
LEMMA CidrMeans ==
    ASSUME NEW cidr \in WholeTexts, NEW ip \in WholeTexts
    PROVE  cidr_matches(cidr, ip) <=> MeansCidr(cidr, ip)
<1>0. cidr \in Seq(Chars) /\ ip \in Seq(Chars)
  BY WholeTextType
<1>1. Len(cidr) \in Nat /\ DOMAIN cidr = 1..Len(cidr)
  BY <1>0, LenProperties
<1>2. Trim(ip) \in AllTexts
  BY TextsAreParts
<1>3. \A i \in 1..Len(cidr) :
        /\ SubSeq(cidr, 1, i - 1) \in AllTexts
        /\ SubSeq(cidr, i + 1, Len(cidr)) \in AllTexts
  <2> TAKE i \in 1..Len(cidr)
  <2>1. /\ 1 \in 1..(Len(cidr) + 1) /\ i - 1 \in 0..Len(cidr)
        /\ i + 1 \in 1..(Len(cidr) + 1) /\ Len(cidr) \in 0..Len(cidr)
    BY <1>1
  <2> QED  BY <2>1, PartOfText
<1>4. MeansCidr(cidr, ip) <=> \E i \in DOMAIN cidr : cidr[i] = "/" /\ Around(cidr, ip, i)
  BY DEF MeansCidr, Around
<1>5. cidr_matches(cidr, ip) <=>
        \E i \in DOMAIN cidr : {k \in DOMAIN cidr : cidr[k] = "/"} = {i} /\ Around(cidr, ip, i)
  <2>1. ASSUME NEW i \in DOMAIN cidr
        PROVE  (\E net \in ParseIp(SubSeq(cidr, 1, i - 1)),
                   prefix_len \in ParseI64(SubSeq(cidr, i + 1, Len(cidr))),
                   target \in ParseIp(Trim(ip)) :
                    /\ net.version = target.version
                    /\ prefix_len \in 0..Width[net.version]
                    /\ SameNetwork(net, target, prefix_len)) <=> Around(cidr, ip, i)
    <3>1. SubSeq(cidr, 1, i - 1) \in AllTexts
      BY <1>1, <1>3
    <3> QED  BY <1>2, <3>1, NetworksAgree DEF Around
  <2> QED  BY <2>1 DEF cidr_matches
<1>6. ASSUME NEW i \in DOMAIN cidr, cidr[i] = "/", Around(cidr, ip, i)
      PROVE  {k \in DOMAIN cidr : cidr[k] = "/"} = {i}
  <2> SUFFICES ASSUME NEW k \in DOMAIN cidr, cidr[k] = "/", k # i PROVE FALSE
    BY <1>6
  <2>1. i \in 1..Len(cidr) /\ k \in 1..Len(cidr)
    BY <1>1
  <2>2. /\ ParseIp(SubSeq(cidr, 1, i - 1)) # {}
        /\ ParseI64(SubSeq(cidr, i + 1, Len(cidr))) # {}
    BY <1>6 DEF Around
  <2>3. CASE k < i
    <3>1. 1 \in 1..(Len(cidr) + 1) /\ i - 1 \in 0..Len(cidr) /\ k \in 1..(i - 1)
      BY <1>1, <2>1, <2>3
    <3>2. "/" \in ToSet(SubSeq(cidr, 1, i - 1))
      BY <1>0, <3>1, SlashInPart
    <3> QED  BY <1>3, <2>1, <2>2, <3>2, NumbersAssumption
  <2>4. CASE k > i
    <3>1. i + 1 \in 1..(Len(cidr) + 1) /\ Len(cidr) \in 0..Len(cidr) /\ k \in (i + 1)..Len(cidr)
      BY <1>1, <2>1, <2>4
    <3>2. "/" \in ToSet(SubSeq(cidr, i + 1, Len(cidr)))
      BY <1>0, <3>1, SlashInPart
    <3> QED  BY <1>3, <2>1, <2>2, <3>2, NumbersAssumption
  <2>5. k < i \/ k > i
    BY <2>1
  <2> QED  BY <2>3, <2>4, <2>5
<1>7. ASSUME NEW i \in DOMAIN cidr, {k \in DOMAIN cidr : cidr[k] = "/"} = {i}
      PROVE  cidr[i] = "/"
  BY <1>7
<1> QED  BY <1>4, <1>5, <1>6, <1>7

-----------------------------------------------------------------------------
(* Numbers.                                                                 *)

\* The texts of values are among the texts there are, and what is no string has nothing special.
LEMMA YamlValueReads ==
    ASSUME NEW v \in YamlValues
    PROVE  v.text \in WholeTexts /\ v.kind \in Kinds /\ v.text \in Seq(Chars)
<1>1. CASE v \in Nodes \intersect SigmaValues
  <2>1. v.text \in WholeTexts
    BY <1>1 DEF WholeTexts
  <2>2. v.kind \in Kinds
    BY <1>1 DEF SigmaValues
  <2> QED  BY <2>1, <2>2, WholeTextType
<1>2. CASE v = Str(DebugText)
  <2>1. v.text = DebugText /\ v.kind = "string"
    BY <1>2 DEF Str
  <2>2. v.text \in WholeTexts
    BY <2>1 DEF WholeTexts
  <2>3. "string" \in Kinds
    BY DEF Kinds
  <2> QED  BY <2>1, <2>2, <2>3, WholeTextType
<1> QED  BY <1>1, <1>2 DEF YamlValues

\* What is no string is a scalar of a node.
LEMMA ScalarReads ==
    ASSUME NEW v \in YamlValues, v.kind # "string"
    PROVE  /\ ToSet(v.text) \intersect Escapable = {}
           /\ v.kind = "null" => v.text = <<>>
           /\ v.kind = "int" => ParseI64(v.text) # {}
           /\ v.kind = "bool" => Decimal(v.text) = {}
<1>1. Str(DebugText).kind = "string"
  BY DEF Str
<1>2. v \in Nodes \intersect SigmaValues
  BY <1>1 DEF YamlValues
<1> QED  BY <1>2, ScalarsAssumption

\* Both orders of a comparison.
Ordered(op, a, b) ==
    CASE op = "gt" -> a > b [] op = "gte" -> a >= b
      [] op = "lt" -> a < b [] op = "lte" -> a <= b

\* A condition compares in one way.
OnlyComparison(modifiers, op) ==
    /\ op \in Comparisons
    /\ \A m \in Comparisons : Contains(modifiers, m) <=> m = op

\* So this is the way it compares.
LEMMA ComparesAs ==
    ASSUME NEW modifiers, NEW op, OnlyComparison(modifiers, op), NEW a \in Int, NEW b \in Int
    PROVE  Compares(modifiers, a, b) <=> Ordered(op, a, b)
<1>1. /\ op \in {"gt", "gte", "lt", "lte"}
      /\ Contains(modifiers, "gt") <=> op = "gt"
      /\ Contains(modifiers, "gte") <=> op = "gte"
      /\ Contains(modifiers, "lt") <=> op = "lt"
  BY DEF OnlyComparison, Comparisons
<1> QED  BY <1>1 DEF Compares, Ordered

\* Ten times as much is in the same order.
LEMMA TenTimes ==
    ASSUME NEW op \in Comparisons, NEW a \in Int, NEW b \in Int
    PROVE  Ordered(op, 10 * a, 10 * b) <=> Ordered(op, a, b)
BY DEF Ordered, Comparisons

\* A comparison that an f64, or an i64, makes as the numbers are.
ExactValue(v, text) ==
    \/ v.kind \in {"int", "null", "bool"} /\ ParseI64(Trim(text)) # {}
    \/ /\ v.kind # "string" \/ Decimal(v.text) # {}
       /\ text = Trim(text)
       /\ \A x \in Decimal(v.text) \union Decimal(text) : Abs(x) <= 10 * Exact

\* An f64 that holds the number is the number.
LEMMA ExactF64 ==
    ASSUME NEW D, \A x \in D : Abs(x) <= 10 * Exact
    PROVE  {F64(x) : x \in D} = D
<1>1. \A x \in D : F64(x) = x
  BY DEF F64
<1> QED  BY <1>1

\* The answers to a comparison are one, and this one.
Answers(answers, holds) == answers # {} /\ (answers = {TRUE} <=> holds)

\* A truth value alone.
LEMMA AnswerAlone ==
    ASSUME NEW answers, NEW holds, holds \in BOOLEAN, answers = {holds}
    PROVE  Answers(answers, holds)
BY Zenon DEF Answers

\* Whole numbers.
LEMMA WholeNumbers ==
    ASSUME NEW s \in AllTexts, NEW n \in ParseI64(s)
    PROVE  ParseI64(s) = {n} /\ Decimal(s) = {10 * n} /\ n \in Int
BY NumbersAssumption

\* Two whole numbers are compared as such.
LEMMA IntsCompare ==
    ASSUME NEW v \in YamlValues, v.kind = "int", NEW text \in WholeTexts,
           NEW modifiers, NEW op, OnlyComparison(modifiers, op),
           ToSet(modifiers) \intersect Comparisons # {},
           ParseI64(Trim(text)) # {}
    PROVE  Answers(try_numeric_comparison(v, text, modifiers), MeansOrder(op, v.text, text))
<1>1. v.text \in AllTexts /\ Trim(text) \in AllTexts
  BY YamlValueReads, TextsAreParts
<1>2. ParseI64(v.text) # {}
  BY ScalarReads
<1>3. PICK a \in ParseI64(Trim(text)) : TRUE
  OBVIOUS
<1>4. PICK b \in ParseI64(v.text) : TRUE
  BY <1>2
<1>5. /\ ParseI64(Trim(text)) = {a} /\ Decimal(Trim(text)) = {10 * a} /\ a \in Int
      /\ ParseI64(v.text) = {b} /\ Decimal(v.text) = {10 * b} /\ b \in Int
  BY <1>1, <1>3, <1>4, WholeNumbers
<1> DEFINE compared == Compares(modifiers, a, b)
<1>6. try_numeric_comparison(v, text, modifiers)
        = {Compares(modifiers, x, y) : x \in ParseI64(Trim(text)), y \in ParseI64(v.text)}
  BY DEF try_numeric_comparison
<1>7. {Compares(modifiers, x, y) : x \in {a}, y \in {b}} = {compared}
  OBVIOUS
<1>8. try_numeric_comparison(v, text, modifiers) = {compared}
  BY <1>5, <1>6, <1>7
<1>9. compared <=> Ordered(op, a, b)
  BY <1>5, ComparesAs
<1>10. op \in Comparisons
  BY DEF OnlyComparison
<1>11. MeansOrder(op, v.text, text) <=> \E x \in Decimal(Trim(text)), y \in Decimal(v.text) : Ordered(op, x, y)
  BY DEF MeansOrder, Ordered
<1>12. MeansOrder(op, v.text, text) <=> Ordered(op, 10 * a, 10 * b)
  BY <1>5, <1>11, Zenon
<1>13. MeansOrder(op, v.text, text) <=> compared
  BY <1>5, <1>9, <1>10, <1>12, TenTimes
<1>14. compared \in BOOLEAN
  <2>1. (a > b) \in BOOLEAN /\ (a >= b) \in BOOLEAN /\ (a < b) \in BOOLEAN /\ (a <= b) \in BOOLEAN
    OBVIOUS
  <2> QED  BY <2>1, Zenon DEF Compares
<1> HIDE DEF compared
<1>15. Answers(try_numeric_comparison(v, text, modifiers), compared)
  BY <1>8, <1>14, AnswerAlone
<1> QED  BY <1>13, <1>15, Zenon DEF Answers

\* Two numbers that an f64 holds are compared as such.
LEMMA FloatsCompare ==
    ASSUME NEW v \in YamlValues, v.kind # "null", NEW text \in WholeTexts,
           NEW modifiers, NEW op, OnlyComparison(modifiers, op),
           ToSet(modifiers) \intersect Comparisons # {},
           ~(v.kind = "int" /\ ParseI64(Trim(text)) # {}), ExactValue(v, text)
    PROVE  Answers(try_numeric_comparison(v, text, modifiers), MeansOrder(op, v.text, text))
<1> DEFINE compared == ComparesFloats(v, text, modifiers)
           order == MeansOrder(op, v.text, text)
<1>1. v.text \in AllTexts /\ text \in AllTexts
  BY YamlValueReads, TextsAreParts
<1>2. Decimal(v.text) \subseteq Int /\ Decimal(text) \subseteq Int
  BY <1>1, NumbersAssumption
<1>3. order <=> \E a \in Decimal(Trim(text)), b \in Decimal(v.text) : Ordered(op, a, b)
  BY DEF MeansOrder, Ordered
<1>4. v.kind # "bool" =>
        /\ v.kind # "string" \/ Decimal(v.text) # {}
        /\ text = Trim(text)
        /\ \A x \in Decimal(v.text) \union Decimal(text) : Abs(x) <= 10 * Exact
  BY DEF ExactValue
<1>5. v.kind # "bool" => ParseF64(text) = Decimal(text) /\ ParseF64(v.text) = Decimal(v.text)
  BY <1>4, ExactF64 DEF ParseF64
<1>6. try_numeric_comparison(v, text, modifiers) = {compared}
  <2>1. ~(v.kind = "string" /\ ParseF64(v.text) = {})
    BY <1>4, <1>5
  <2> QED  BY <2>1 DEF try_numeric_comparison
<1>7. compared <=> order
  <2>1. CASE v.kind = "bool"
    <3>1. SigmaNumber(v) = {} /\ Decimal(v.text) = {}
      BY <2>1, ScalarReads DEF SigmaNumber
    <3> QED  BY <1>3, <3>1 DEF ComparesFloats
  <2>2. CASE v.kind # "bool"
    <3>1. SigmaNumber(v) = Decimal(v.text)
      <4>1. CASE v.kind = "int"
        <5>1. PICK n \in ParseI64(v.text) : TRUE
          BY <4>1, ScalarReads
        <5>2. ParseI64(v.text) = {n} /\ Decimal(v.text) = {10 * n}
          BY <1>1, <5>1, WholeNumbers
        <5>3. SigmaNumber(v) = {F64(10 * m) : m \in ParseI64(v.text)}
          BY <4>1 DEF SigmaNumber
        <5>4. SigmaNumber(v) = {F64(10 * n)}
          BY <5>2, <5>3
        <5>5. F64(10 * n) = 10 * n
          BY <1>4, <2>2, <5>2 DEF F64
        <5> QED  BY <5>2, <5>4, <5>5
      <4>2. CASE v.kind # "int"
        BY <1>5, <2>2, <4>2 DEF SigmaNumber
      <4> QED  BY <4>1, <4>2
    <3>2. compared <=> \E a \in Decimal(text), b \in Decimal(v.text) : Compares(modifiers, a, b)
      BY <1>5, <2>2, <3>1 DEF ComparesFloats
    <3>3. \A a \in Decimal(text), b \in Decimal(v.text) : Compares(modifiers, a, b) <=> Ordered(op, a, b)
      BY <1>2, ComparesAs
    <3> QED  BY <1>3, <1>4, <2>2, <3>2, <3>3
  <2> QED  BY <2>1, <2>2
<1>8. compared \in BOOLEAN
  BY Zenon DEF ComparesFloats
<1> HIDE DEF compared, order
<1>9. Answers(try_numeric_comparison(v, text, modifiers), compared)
  BY <1>6, <1>8, AnswerAlone
<1> QED  BY <1>7, <1>9, Zenon DEF Answers, order

\* A comparison of exact numbers is the one that is meant.
LEMMA NumbersCompare ==
    ASSUME NEW v \in YamlValues, v.kind # "null", NEW text \in WholeTexts,
           NEW modifiers, NEW op, OnlyComparison(modifiers, op),
           ToSet(modifiers) \intersect Comparisons # {}, ExactValue(v, text)
    PROVE  Answers(try_numeric_comparison(v, text, modifiers), MeansOrder(op, v.text, text))
BY IntsCompare, FloatsCompare

-----------------------------------------------------------------------------
(* One value.                                                               *)

\* A list of modifiers contains what is in it.
LEMMA ContainsIs ==
    ASSUME NEW T, NEW modifiers \in Seq(T)
    PROVE  \A m : Contains(modifiers, m) <=> m \in ToSet(modifiers)
<1>1. DOMAIN modifiers = 1..Len(modifiers)
  BY LenProperties
<1> QED  BY <1>1 DEF Contains, ToSet

\* Readable values are those the parser makes, among others.
LEMMA YamlReadable ==
    ASSUME NEW v \in YamlValues
    PROVE  Readable(v)
<1>1. v \in SigmaValues
  <2>1. "string" \in Kinds
    BY DEF Kinds
  <2>2. Str(DebugText) \in SigmaValues
    BY <2>1, DebugTextAssumption DEF Str, SigmaValues
  <2> QED  BY <2>2 DEF YamlValues
<1>2. "null" # "string"
  OBVIOUS
<1> QED  BY <1>1, <1>2, ScalarReads DEF Readable

\* What a value says without a comparison or a network.
MeansText(v, modifiers, text) ==
    IF v.kind = "null" THEN text = <<>>
    ELSE IF Contains(modifiers, "re") THEN RegexMatches(v.text, text)
    ELSE MeansPattern(v.text, Mode(modifiers), text)

\* Without a comparison or a network a value is a pattern or a regex.
LEMMA TextValueMeans ==
    ASSUME NEW v, Readable(v), NEW text \in Seq(Chars), NEW T, NEW modifiers \in Seq(T),
           ToSet(modifiers) \intersect (Comparisons \union {"cidr"}) = {}
    PROVE  /\ value_matches(v, Fold(v.text), Fold(v.text), text, modifiers)
                <=> MeansText(v, modifiers, text)
           /\ MeansValue(v, modifiers, text) <=> MeansText(v, modifiers, text)
<1>1. \A m : Contains(modifiers, m) <=> m \in ToSet(modifiers)
  BY ContainsIs
<1>2. /\ ToSet(modifiers) \intersect Comparisons = {} /\ ~Contains(modifiers, "cidr")
      /\ ~ \E op \in Comparisons : Contains(modifiers, op)
  BY <1>1
<1>3. try_numeric_comparison(v, text, modifiers) = {}
  BY <1>2 DEF try_numeric_comparison
<1>4. TextMatches(v, Fold(v.text), Fold(v.text), Fold(text), modifiers)
        <=> MeansPattern(v.text, Mode(modifiers), text)
  BY TextMeans
<1>5. value_matches(v, Fold(v.text), Fold(v.text), text, modifiers) <=> MeansText(v, modifiers, text)
  BY <1>2, <1>3, <1>4 DEF value_matches, MeansText
<1>6. MeansValue(v, modifiers, text) <=> MeansText(v, modifiers, text)
  BY <1>2 DEF MeansValue, MeansText
<1> QED  BY <1>5, <1>6

\* What EntryDocumented asks for a value to compare.
Comparable(v, modifiers, text) ==
    /\ \A a, b \in ToSet(modifiers) \intersect Comparisons : a = b
    /\ ToSet(modifiers) \intersect Comparisons # {} => ExactValue(v, text)

\* The matcher decides a value as it is meant.
LEMMA ValueMeans ==
    ASSUME NEW v \in YamlValues, NEW text \in WholeTexts, NEW T, NEW modifiers \in Seq(T),
           Comparable(v, modifiers, text)
    PROVE  value_matches(v, Fold(v.text), Fold(v.text), text, modifiers)
                <=> MeansValue(v, modifiers, text)
<1> DEFINE matched == value_matches(v, Fold(v.text), Fold(v.text), text, modifiers)
           number == try_numeric_comparison(v, text, modifiers)
<1>1. \A m : Contains(modifiers, m) <=> m \in ToSet(modifiers)
  BY ContainsIs
<1>2. text \in Seq(Chars)
  BY WholeTextType
<1>3. CASE v.kind = "null"
  BY <1>3 DEF value_matches, MeansValue
<1>4. CASE v.kind # "null" /\ ToSet(modifiers) \intersect Comparisons # {}
  <2>1. PICK op \in Comparisons : op \in ToSet(modifiers)
    BY <1>4
  <2>2. OnlyComparison(modifiers, op)
    BY <1>1, <2>1 DEF OnlyComparison, Comparable
  <2>3. Answers(number, MeansOrder(op, v.text, text))
    BY <1>4, <2>2, NumbersCompare DEF Comparable
  <2> HIDE DEF number
  <2>4. number # {} /\ (number = {TRUE} <=> MeansOrder(op, v.text, text))
    BY <2>3, Zenon DEF Answers
  <2>5. matched <=> number = {TRUE}
    BY <1>4, <2>4 DEF value_matches, number
  <2>6. MeansValue(v, modifiers, text)
          <=> \E o \in Comparisons : Contains(modifiers, o) /\ MeansOrder(o, v.text, text)
    BY <1>1, <1>4, <2>1 DEF MeansValue
  <2>7. MeansValue(v, modifiers, text) <=> MeansOrder(op, v.text, text)
    BY <2>2, <2>6, Zenon DEF OnlyComparison
  <2> QED  BY <2>4, <2>5, <2>7
<1>5. CASE v.kind # "null" /\ ToSet(modifiers) \intersect Comparisons = {} /\ Contains(modifiers, "cidr")
  <2>1. number = {}
    BY <1>5 DEF try_numeric_comparison
  <2>2. matched <=> cidr_matches(v.text, text)
    BY <1>5, <2>1 DEF value_matches
  <2>3. cidr_matches(v.text, text) <=> MeansCidr(v.text, text)
    BY YamlValueReads, CidrMeans
  <2>4. ~ \E op \in Comparisons : Contains(modifiers, op)
    BY <1>1, <1>5
  <2>5. MeansValue(v, modifiers, text) <=> MeansCidr(v.text, text)
    BY <1>5, <2>4 DEF MeansValue
  <2> QED  BY <2>2, <2>3, <2>5
<1>6. CASE ToSet(modifiers) \intersect Comparisons = {} /\ ~Contains(modifiers, "cidr")
  <2>1. ToSet(modifiers) \intersect (Comparisons \union {"cidr"}) = {}
    BY <1>1, <1>6
  <2> QED  BY <1>2, <2>1, YamlReadable, TextValueMeans
<1> QED  BY <1>3, <1>4, <1>5, <1>6

-----------------------------------------------------------------------------
(* Dashes.                                                                  *)

\* A sequence with one thing more.
LEMMA AppendSet ==
    ASSUME NEW T, NEW s \in Seq(T), NEW x \in T
    PROVE  ToSet(Append(s, x)) = ToSet(s) \union {x}
<1> DEFINE u == Append(s, x)
<1>1. /\ DOMAIN s = 1..Len(s) /\ Len(s) \in Nat /\ DOMAIN u = 1..(Len(s) + 1)
      /\ u[Len(s) + 1] = x /\ \A i \in 1..Len(s) : u[i] = s[i]
  BY AppendProperties, LenProperties
<1> HIDE DEF u
<1>2. \A i \in 1..(Len(s) + 1) : i \in 1..Len(s) \/ i = Len(s) + 1
  BY <1>1
<1>3. \A i \in 1..Len(s) : i \in 1..(Len(s) + 1)
  BY <1>1
<1>4. Len(s) + 1 \in 1..(Len(s) + 1)
  BY <1>1
<1>5. ToSet(u) = ToSet(s) \union {x}
  BY <1>1, <1>2, <1>3, <1>4 DEF ToSet
<1> QED  BY <1>5 DEF u

\* u is v or, where there is text, v spelled with one dash.
Spelt(v, u) ==
    u = v \/ (v.text # <<>> /\ \E dash \in ToSet(DashVariants) : u = Str(WithDash(v.text, dash)))

\* Some of the values have this text and are v or a spelling of it.
HasSpelling(s, v, text) == \E u \in ToSet(s) : u.text = text /\ Spelt(v, u)

\* One spelling is added.
LEMMA AddedVariant ==
    ASSUME NEW T, NEW s \in Seq(T), NEW v, v \in ToSet(s), \A u \in ToSet(s) : Spelt(v, u),
           NEW dash \in ToSet(DashVariants), Str(WithDash(v.text, dash)) \in T
    PROVE  /\ ToSet(s) \subseteq ToSet(AddVariant(s, WithDash(v.text, dash)))
           /\ \A u \in ToSet(AddVariant(s, WithDash(v.text, dash))) : Spelt(v, u)
           /\ HasSpelling(AddVariant(s, WithDash(v.text, dash)), v, WithDash(v.text, dash))
<1> DEFINE t == WithDash(v.text, dash)
<1>1. Str(t).text = t
  BY DEF Str
<1>2. v.text = <<>> => t = <<>>
  BY DEF WithDash
<1>3. v.text # <<>> => Spelt(v, Str(t))
  BY DEF Spelt
<1> HIDE DEF t
<1>4. CASE \E i \in DOMAIN s : s[i].text = t
  <2>1. AddVariant(s, t) = s
    BY <1>4 DEF AddVariant
  <2>2. HasSpelling(s, v, t)
    BY <1>4 DEF HasSpelling, ToSet
  <2> QED  BY <2>1, <2>2 DEF t
<1>5. CASE ~ \E i \in DOMAIN s : s[i].text = t
  <2>1. AddVariant(s, t) = Append(s, Str(t))
    BY <1>5 DEF AddVariant
  <2>2. Str(t) \in T
    BY DEF t
  <2>3. ToSet(AddVariant(s, t)) = ToSet(s) \union {Str(t)}
    BY <2>1, <2>2, AppendSet
  <2>4. v.text # <<>>
    <3>1. PICK i \in DOMAIN s : s[i] = v
      BY DEF ToSet
    <3> QED  BY <1>2, <1>5, <3>1
  <2>5. HasSpelling(AddVariant(s, t), v, t)
    BY <1>1, <1>3, <2>3, <2>4 DEF HasSpelling
  <2> QED  BY <1>3, <2>3, <2>4, <2>5 DEF t
<1> QED  BY <1>4, <1>5

\* The values are v and its spellings, each of the texts among them.
Spells(s, v) ==
    /\ v \in ToSet(s) /\ \A u \in ToSet(s) : Spelt(v, u)
    /\ \A dash \in ToSet(DashVariants) : HasSpelling(s, v, WithDash(v.text, dash))

\* windash makes them of a value.
LEMMA WindashSpells ==
    ASSUME NEW v
    PROVE  Sequence(WindashVariants(v)) /\ Spells(WindashVariants(v), v)
<1> DEFINE n == Len(DashVariants)
           T == DashSpellings(v)
           text(d) == WithDash(v.text, DashVariants[d])
<1>1. n \in Nat /\ ToSet(DashVariants) = {DashVariants[d] : d \in 1..n}
  BY DEF DashVariants, ToSet
<1>2. PICK f \in [0..n -> Seq(T)] : AddsSpellings(f, v) /\ WindashVariants(v) = f[n]
  BY WindashUnfolds
<1> HIDE DEF n
<1> DEFINE G == {k \in 0..n : /\ v \in ToSet(f[k]) /\ \A u \in ToSet(f[k]) : Spelt(v, u)
                              /\ \A d \in 1..k : HasSpelling(f[k], v, text(d))}
<1>3. 0 \in G
  <2>1. f[0] = <<v>>
    BY <1>2 DEF AddsSpellings
  <2>2. ToSet(<<v>>) = {v}
    BY DEF ToSet
  <2>3. Spelt(v, v)
    BY DEF Spelt
  <2>4. 0 \in 0..n /\ 1..0 = {}
    BY <1>1
  <2> QED  BY <2>1, <2>2, <2>3, <2>4
<1>4. ASSUME NEW k \in 0..(n - 1), k \in G PROVE k + 1 \in G
  <2>1. k + 1 \in 1..n /\ k + 1 \in 0..n /\ (k + 1) - 1 = k /\ k \in 0..n
    BY <1>1
  <2>2. f[k + 1] = AddVariant(f[k], text(k + 1))
    <3>1. f[k + 1] = AddVariant(f[(k + 1) - 1], text(k + 1))
      BY <1>2, <2>1 DEF AddsSpellings, n
    <3> QED  BY <2>1, <3>1
  <2>3. f[k] \in Seq(T)
    BY <1>2, <2>1
  <2>4. Str(text(k + 1)) \in T
    BY <2>1 DEF DashSpellings, n
  <2>5. DashVariants[k + 1] \in ToSet(DashVariants)
    BY <1>1, <2>1
  <2>6. /\ ToSet(f[k]) \subseteq ToSet(f[k + 1])
        /\ \A u \in ToSet(f[k + 1]) : Spelt(v, u)
        /\ HasSpelling(f[k + 1], v, text(k + 1))
    <3>1. v \in ToSet(f[k]) /\ \A u \in ToSet(f[k]) : Spelt(v, u)
      BY <1>4
    <3> HIDE DEF T
    <3> QED  BY <2>2, <2>3, <2>4, <2>5, <3>1, AddedVariant
  <2>7. \A d \in 1..(k + 1) : HasSpelling(f[k + 1], v, text(d))
    <3>1. \A d \in 1..(k + 1) : d \in 1..k \/ d = k + 1
      BY <2>1
    <3>2. \A d \in 1..k : HasSpelling(f[k + 1], v, text(d))
      BY <1>4, <2>6 DEF HasSpelling
    <3> HIDE DEF text
    <3> QED  BY <2>6, <3>1, <3>2
  <2> HIDE DEF text
  <2> QED  BY <1>4, <2>1, <2>6, <2>7
<1>5. n \in 0..n
  BY <1>1
<1> HIDE DEF G
<1>6. n \in G
  BY <1>1, <1>3, <1>4, <1>5, Upwards
<1>7. Spells(f[n], v)
  BY <1>1, <1>6 DEF Spells, G
<1>8. Sequence(f[n])
  BY <1>2, <1>5 DEF Sequence
<1> QED  BY <1>2, <1>7, <1>8

\* So do other modifiers that encode nothing.
LEMMA TransformedSequence ==
    ASSUME NEW v, NEW modifier, modifier \notin {"base64", "base64offset", "wide"}
    PROVE  Sequence(Transformed(v, modifier))
<1>1. CASE modifier = "windash"
  BY <1>1, WindashSpells DEF Transformed
<1>2. CASE modifier # "windash"
  BY <1>2, SingleType DEF Transformed, is_transform, Sequence
<1> QED  BY <1>1, <1>2

\* A dash throughout, another dash throughout.
LEMMA DashTwice ==
    ASSUME NEW text, NEW d1 \in ToSet(DashVariants), NEW d2 \in ToSet(DashVariants)
    PROVE  WithDash(WithDash(text, d1), d2) = WithDash(text, d2)
<1> DEFINE u == WithDash(text, d1)
<1>1. DOMAIN u = DOMAIN text
      /\ \A i \in DOMAIN text : u[i] = IF text[i] \in ToSet(DashVariants) THEN d1 ELSE text[i]
  BY DEF WithDash
<1> HIDE DEF u
<1>2. \A i \in DOMAIN text : u[i] \in ToSet(DashVariants) <=> text[i] \in ToSet(DashVariants)
  BY <1>1
<1>3. WithDash(u, d2) = WithDash(text, d2)
  BY <1>1, <1>2 DEF WithDash
<1> QED  BY <1>3 DEF u

\* A spelling of a spelling is one.
LEMMA SpeltTwice ==
    ASSUME NEW v, NEW w, NEW u, Spelt(v, w), Spelt(w, u)
    PROVE  Spelt(v, u)
<1>1. CASE w = v \/ u = w
  BY <1>1 DEF Spelt
<1>2. CASE w # v /\ u # w
  <2>1. PICK d1 \in ToSet(DashVariants) : v.text # <<>> /\ w = Str(WithDash(v.text, d1))
    BY <1>2 DEF Spelt
  <2>2. PICK d2 \in ToSet(DashVariants) : u = Str(WithDash(w.text, d2))
    BY <1>2 DEF Spelt
  <2>3. w.text = WithDash(v.text, d1)
    BY <2>1 DEF Str
  <2>4. WithDash(w.text, d2) = WithDash(v.text, d2)
    BY <2>3, DashTwice
  <2> QED  BY <2>1, <2>2, <2>4 DEF Spelt
<1> QED  BY <1>1, <1>2

-----------------------------------------------------------------------------
(* The values a condition compares with.                                    *)

\* Each of them is one of these values or a spelling of it, and these values are there.
Derived(s, values) ==
    /\ Sequence(s)
    /\ \A u \in ToSet(s) : \E i \in 1..Len(values) : Spelt(values[i], u)
    /\ \A i \in 1..Len(values) : values[i] \in ToSet(s)

\* Every value is there in every spelling.
Dashed(s, values) ==
    \A i \in 1..Len(values), dash \in ToSet(DashVariants) :
        HasSpelling(s, values[i], WithDash(values[i].text, dash))

\* windash spells them all.
LEMMA DashAll ==
    ASSUME NEW s, NEW values, Derived(s, values)
    PROVE  LET t == TransformedAll(s, "windash") IN Derived(t, values) /\ Dashed(t, values)
<1> DEFINE t == TransformedAll(s, "windash")
<1>1. PICK D : s \in Seq(D)
  BY DEF Derived, Sequence
<1>2. /\ Sequence(t)
      /\ \A k \in 1..Len(s) : ToSet(WindashVariants(s[k])) \subseteq ToSet(t)
      /\ \A u \in ToSet(t) : \E k \in 1..Len(s) : u \in ToSet(WindashVariants(s[k]))
  <2>1. "windash" \notin {"base64", "base64offset", "wide"}
    OBVIOUS
  <2>2. \A v : Sequence(Transformed(v, "windash"))
    BY <2>1, TransformedSequence
  <2>3. \A v : Transformed(v, "windash") = WindashVariants(v)
    BY DEF Transformed
  <2> QED  BY <1>1, <2>2, <2>3, TransformedSet
<1> HIDE DEF t
<1>3. DOMAIN s = 1..Len(s)
  BY <1>1, LenProperties
<1>4. ASSUME NEW u \in ToSet(t) PROVE \E i \in 1..Len(values) : Spelt(values[i], u)
  <2>1. PICK k \in 1..Len(s) : u \in ToSet(WindashVariants(s[k]))
    BY <1>2
  <2>2. Spelt(s[k], u)
    BY <2>1, WindashSpells DEF Spells
  <2>3. s[k] \in ToSet(s)
    BY <1>3 DEF ToSet
  <2>4. PICK i \in 1..Len(values) : Spelt(values[i], s[k])
    BY <2>3 DEF Derived
  <2> QED  BY <2>2, <2>4, SpeltTwice
<1>5. ASSUME NEW i \in 1..Len(values)
      PROVE  /\ values[i] \in ToSet(t)
             /\ \A dash \in ToSet(DashVariants) :
                    HasSpelling(t, values[i], WithDash(values[i].text, dash))
  <2>1. PICK k \in 1..Len(s) : s[k] = values[i]
    BY <1>3 DEF Derived, ToSet
  <2>2. Spells(WindashVariants(values[i]), values[i])
    BY WindashSpells
  <2>3. ToSet(WindashVariants(values[i])) \subseteq ToSet(t)
    BY <1>2, <2>1
  <2>4. values[i] \in ToSet(t)
    BY <2>2, <2>3 DEF Spells
  <2>5. ASSUME NEW dash \in ToSet(DashVariants)
        PROVE  HasSpelling(t, values[i], WithDash(values[i].text, dash))
    BY <2>2, <2>3 DEF Spells, HasSpelling
  <2> QED  BY <2>4, <2>5
<1>6. Derived(t, values)
  BY <1>2, <1>4, <1>5 DEF Derived
<1>7. Dashed(t, values)
  BY <1>5 DEF Dashed
<1> QED  BY <1>6, <1>7 DEF t

\* So the values are spelled as the modifiers ask, where they encode nothing.
LEMMA ApplySpells ==
    ASSUME NEW D, NEW values \in Seq(D), NEW M, NEW modifiers \in Seq(M),
           ToSet(modifiers) \intersect {"base64", "base64offset", "wide"} = {}
    PROVE  /\ Derived(apply_transforms(values, modifiers), values)
           /\ "windash" \in ToSet(modifiers) => Dashed(apply_transforms(values, modifiers), values)
<1> DEFINE N == Len(modifiers)
<1>1. N \in Nat /\ ToSet(modifiers) = {modifiers[n] : n \in 1..N}
  BY LenProperties DEF ToSet
<1>2. PICK f : AppliedTo(f, values, modifiers) /\ apply_transforms(values, modifiers) = f[N]
  BY <1>1, ApplyUnfolds
<1> HIDE DEF N
<1> DEFINE G == {k \in 0..N : /\ Derived(f[k], values)
                              /\ (\E n \in 1..k : modifiers[n] = "windash") => Dashed(f[k], values)}
<1>3. 0 \in G
  <2>1. f[0] = values
    BY <1>2 DEF AppliedTo
  <2>2. DOMAIN values = 1..Len(values)
    BY LenProperties
  <2>3. Derived(values, values)
    BY <2>2 DEF Derived, Sequence, Spelt, ToSet
  <2>4. 0 \in 0..N /\ 1..0 = {}
    BY <1>1
  <2> QED  BY <2>1, <2>3, <2>4
<1>4. ASSUME NEW k \in 0..(N - 1), k \in G PROVE k + 1 \in G
  <2>1. /\ k + 1 \in 1..N /\ k + 1 \in 0..N /\ (k + 1) - 1 = k
        /\ \A n \in 1..(k + 1) : n \in 1..k \/ n = k + 1
    BY <1>1
  <2>2. f[k + 1] = TransformedAll(f[k], modifiers[k + 1])
    <3>1. f[k + 1] = TransformedAll(f[(k + 1) - 1], modifiers[k + 1])
      BY <1>2, <2>1 DEF AppliedTo, N
    <3> QED  BY <2>1, <3>1
  <2>3. Derived(f[k], values)
    BY <1>4
  <2>4. CASE modifiers[k + 1] = "windash"
    <3>1. Derived(f[k + 1], values) /\ Dashed(f[k + 1], values)
      BY <2>2, <2>3, <2>4, DashAll
    <3> QED  BY <2>1, <3>1
  <2>5. CASE modifiers[k + 1] # "windash"
    <3>1. ~is_transform(modifiers[k + 1])
      BY <1>1, <2>1, <2>5 DEF is_transform
    <3>2. PICK T : f[k] \in Seq(T)
      BY <2>3 DEF Derived, Sequence
    <3>3. f[k + 1] = f[k]
      BY <2>2, <3>1, <3>2, TransformedAllSame
    <3>4. (\E n \in 1..(k + 1) : modifiers[n] = "windash") => Dashed(f[k + 1], values)
      BY <1>4, <2>1, <2>5, <3>3
    <3> QED  BY <2>1, <2>3, <3>3, <3>4
  <2> QED  BY <2>4, <2>5
<1>5. N \in 0..N
  BY <1>1
<1> HIDE DEF G
<1>6. N \in G
  BY <1>1, <1>3, <1>4, <1>5, Upwards
<1>7. Derived(f[N], values) /\ ((\E n \in 1..N : modifiers[n] = "windash") => Dashed(f[N], values))
  BY <1>6 DEF G
<1> QED  BY <1>1, <1>2, <1>7

-----------------------------------------------------------------------------
(* The values against one text.                                             *)

\* A value says so in one of its spellings.
SaysOf(v, modifiers, text) == \E w \in Spellings(v, modifiers) : MeansValue(w, modifiers, text)

\* The values say so, any of them or all.
Said(values, modifiers, text) ==
    IF Contains(modifiers, "all")
    THEN \A i \in DOMAIN values : SaysOf(values[i], modifiers, text)
    ELSE \E i \in DOMAIN values : SaysOf(values[i], modifiers, text)

\* What EntryDocumented asks of modifiers.
ModifiersDocumented(modifiers) ==
    /\ ToSet(modifiers) \intersect {"base64", "base64offset", "wide"} = {}
    /\ "windash" \in ToSet(modifiers) =>
            ToSet(modifiers) \intersect (Comparisons \union {"cidr", "all"}) = {}

\* Without windash they are compared as they are.
LEMMA PlainSaid ==
    ASSUME NEW values \in Seq(YamlValues), NEW M, NEW modifiers \in Seq(M), NEW text \in WholeTexts,
           ModifiersDocumented(modifiers), "windash" \notin ToSet(modifiers),
           \A i \in DOMAIN values : Comparable(values[i], modifiers, text)
    PROVE  Enough(modifiers, DOMAIN apply_transforms(values, modifiers),
                  Passing(apply_transforms(values, modifiers), modifiers, text))
                <=> Said(values, modifiers, text)
<1> DEFINE passed(i) == value_matches(values[i], Fold(values[i].text), Fold(values[i].text), text, modifiers)
<1>1. apply_transforms(values, modifiers) = values
  <2>1. DOMAIN modifiers = 1..Len(modifiers) /\ Len(modifiers) \in Nat
    BY LenProperties
  <2>2. \A n \in 1..Len(modifiers) : ~is_transform(modifiers[n])
    BY <2>1 DEF ModifiersDocumented, is_transform, ToSet
  <2> QED  BY <2>1, <2>2, ApplySame
<1>2. \A m : Contains(modifiers, m) <=> m \in ToSet(modifiers)
  BY ContainsIs
<1>3. ASSUME NEW i \in DOMAIN values PROVE passed(i) <=> SaysOf(values[i], modifiers, text)
  <2>1. values[i] \in YamlValues
    BY LenProperties, ElementOfSeq
  <2>2. passed(i) <=> MeansValue(values[i], modifiers, text)
    BY <1>3, <2>1, ValueMeans
  <2>3. Spellings(values[i], modifiers) = {values[i]}
    BY <1>2 DEF Spellings
  <2> HIDE DEF passed
  <2> QED  BY <2>2, <2>3 DEF SaysOf
<1>4. Passing(values, modifiers, text) = {i \in DOMAIN values : passed(i)}
  BY DEF Passing
<1> HIDE DEF passed
<1>5. Passing(values, modifiers, text) = {i \in DOMAIN values : SaysOf(values[i], modifiers, text)}
  BY <1>3, <1>4
<1> QED  BY <1>1, <1>5 DEF Enough, Said

\* A value the parser makes with a dash throughout is readable.
LEMMA SpeltReadable ==
    ASSUME NEW v \in YamlValues, NEW u, Spelt(v, u)
    PROVE  Readable(u) /\ (u.kind = "null" <=> v.kind = "null")
<1>1. CASE u = v
  BY <1>1, YamlReadable
<1>2. CASE u # v
  <2>1. PICK dash \in ToSet(DashVariants) : v.text # <<>> /\ u = Str(WithDash(v.text, dash))
    BY <1>2 DEF Spelt
  <2>2. v.text \in Seq(Chars) /\ v.kind # "null"
    BY <2>1, YamlValueReads, ScalarReads
  <2>3. dash \in Chars
    BY DashAssumption
  <2>4. WithDash(v.text, dash) \in Seq(Chars)
    <3>1. /\ DOMAIN v.text = 1..Len(v.text) /\ Len(v.text) \in Nat
          /\ \A i \in 1..Len(v.text) : v.text[i] \in Chars
      BY <2>2, LenProperties, ElementOfSeq
    <3>2. WithDash(v.text, dash) \in [1..Len(v.text) -> Chars]
      BY <2>3, <3>1 DEF WithDash
    <3> QED  BY <3>1, <3>2, SeqDef
  <2>5. u.kind = "string" /\ u \in SigmaValues
    BY <2>1, <2>4 DEF Str, SigmaValues, Kinds
  <2> QED  BY <2>2, <2>5 DEF Readable
<1> QED  BY <1>1, <1>2

\* With it any of their spellings will do.
LEMMA DashedSaid ==
    ASSUME NEW values \in Seq(YamlValues), NEW M, NEW modifiers \in Seq(M), NEW text \in WholeTexts,
           ModifiersDocumented(modifiers), "windash" \in ToSet(modifiers)
    PROVE  Enough(modifiers, DOMAIN apply_transforms(values, modifiers),
                  Passing(apply_transforms(values, modifiers), modifiers, text))
                <=> Said(values, modifiers, text)
<1> DEFINE vs == apply_transforms(values, modifiers)
           passed(u) == value_matches(u, Fold(u.text), Fold(u.text), text, modifiers)
<1>1. \A m : Contains(modifiers, m) <=> m \in ToSet(modifiers)
  BY ContainsIs
<1>2. ToSet(modifiers) \intersect (Comparisons \union {"cidr"}) = {} /\ ~Contains(modifiers, "all")
      /\ Contains(modifiers, "windash") /\ ~Contains(modifiers, "cidr")
      /\ ~ \E op \in Comparisons : Contains(modifiers, op)
  BY <1>1 DEF ModifiersDocumented
<1>3. Derived(vs, values) /\ Dashed(vs, values)
  BY ApplySpells DEF ModifiersDocumented
<1>4. DOMAIN values = 1..Len(values) /\ \A i \in 1..Len(values) : values[i] \in YamlValues
  BY LenProperties, ElementOfSeq
<1>5. text \in Seq(Chars)
  BY WholeTextType
<1>6. ASSUME NEW i \in 1..Len(values), NEW u, Spelt(values[i], u)
      PROVE  passed(u) <=> MeansText(u, modifiers, text)
  <2>1. Readable(u)
    BY <1>4, <1>6, SpeltReadable
  <2> QED  BY <1>2, <1>5, <2>1, TextValueMeans
<1>7. \A w : MeansValue(w, modifiers, text) <=> MeansText(w, modifiers, text)
  BY <1>2 DEF MeansValue, MeansText
<1>8. Enough(modifiers, DOMAIN vs, Passing(vs, modifiers, text)) <=> \E u \in ToSet(vs) : passed(u)
  <2> HIDE DEF vs
  <2> QED  BY <1>2 DEF Enough, Passing, ToSet
<1> HIDE DEF vs, passed
<1>9. ASSUME NEW u \in ToSet(vs), passed(u) PROVE Said(values, modifiers, text)
  <2>1. PICK i \in 1..Len(values) : Spelt(values[i], u)
    BY <1>3 DEF Derived
  <2>2. MeansText(u, modifiers, text)
    BY <1>6, <1>9, <2>1
  <2>3. \E w \in Spellings(values[i], modifiers) : MeansText(w, modifiers, text)
    <3>1. CASE u = values[i]
      BY <2>2, <3>1 DEF Spellings
    <3>2. CASE u # values[i]
      <4>1. PICK dash \in ToSet(DashVariants) : u = Str(WithDash(values[i].text, dash))
        BY <2>1, <3>2 DEF Spelt
      <4> DEFINE w == [values[i] EXCEPT !.text = WithDash(values[i].text, dash)]
      <4>2. w \in Spellings(values[i], modifiers)
        BY <1>2 DEF Spellings
      <4>3. values[i] \in SigmaValues
        BY <1>4, YamlReadable DEF Readable
      <4>4. w.kind = values[i].kind /\ w.text = u.text
        BY <4>1, <4>3 DEF SigmaValues, Str
      <4>5. w.kind = "null" <=> u.kind = "null"
        BY <1>4, <2>1, <4>4, SpeltReadable
      <4> HIDE DEF w
      <4>6. MeansText(w, modifiers, text)
        BY <2>2, <4>4, <4>5 DEF MeansText
      <4> QED  BY <4>2, <4>6
    <3> QED  BY <3>1, <3>2
  <2>4. SaysOf(values[i], modifiers, text)
    BY <1>7, <2>3 DEF SaysOf
  <2> QED  BY <1>2, <1>4, <2>4 DEF Said
<1>10. ASSUME Said(values, modifiers, text) PROVE \E u \in ToSet(vs) : passed(u)
  <2>1. PICK i \in 1..Len(values) : SaysOf(values[i], modifiers, text)
    BY <1>2, <1>4, <1>10 DEF Said
  <2>2. PICK w \in Spellings(values[i], modifiers) : MeansText(w, modifiers, text)
    BY <1>7, <2>1 DEF SaysOf
  <2>3. CASE w = values[i]
    <3>1. w \in ToSet(vs) /\ Spelt(values[i], w)
      BY <1>3, <2>3 DEF Derived, Spelt
    <3> QED  BY <1>6, <2>2, <3>1
  <2>4. CASE w # values[i]
    <3>1. PICK dash \in ToSet(DashVariants) : w = [values[i] EXCEPT !.text = WithDash(values[i].text, dash)]
      BY <1>2, <2>4 DEF Spellings
    <3>2. values[i] \in SigmaValues
      BY <1>4, YamlReadable DEF Readable
    <3>3. w.kind = values[i].kind /\ w.text = WithDash(values[i].text, dash)
      BY <3>1, <3>2 DEF SigmaValues
    <3>4. PICK u \in ToSet(vs) : u.text = WithDash(values[i].text, dash) /\ Spelt(values[i], u)
      BY <1>3 DEF Dashed, HasSpelling
    <3>5. w.kind = "null" <=> u.kind = "null"
      BY <1>4, <3>3, <3>4, SpeltReadable
    <3>6. MeansText(u, modifiers, text)
      BY <2>2, <3>3, <3>4, <3>5 DEF MeansText
    <3> QED  BY <1>6, <3>4, <3>6
  <2> QED  BY <2>3, <2>4
<1> QED  BY <1>8, <1>9, <1>10 DEF vs

-----------------------------------------------------------------------------
(* One entry.                                                               *)

\* The first key of a name is a key of that name.
FirstKeys(seen) ==
    /\ DOMAIN seen.first = {Fold(key) : key \in DOMAIN seen.cells}
    /\ \A name \in DOMAIN seen.first :
        seen.first[name] \in DOMAIN seen.cells /\ Fold(seen.first[name]) = name

\* A view of texts there are.
WholeView(seen) == FirstKeys(seen) /\ \A key \in DOMAIN seen.cells : seen.cells[key] \in WholeTexts

\* A field is there when it is.
LEMMA FieldThere ==
    ASSUME NEW name, NEW seen, FirstKeys(seen)
    PROVE  HasField(Fold(name), seen) <=> CellsNamed(name, seen.cells) # {}
BY DEF HasField, FirstKeys, CellsNamed

\* Where every name is spelled in one way, it is the one cell of its name.
LEMMA OneCell ==
    ASSUME NEW name, NEW seen, FirstKeys(seen), OneSpelling(seen.cells), HasField(Fold(name), seen)
    PROVE  CellsNamed(name, seen.cells) = {First(Fold(name), seen)}
<1> DEFINE key == seen.first[Fold(name)]
<1>1. key \in DOMAIN seen.cells /\ Fold(key) = Fold(name)
  BY DEF FirstKeys, HasField
<1>2. \A k \in DOMAIN seen.cells : Fold(k) = Fold(name) => k = key
  BY <1>1 DEF OneSpelling
<1>3. First(Fold(name), seen) = seen.cells[key]
  BY DEF First
<1> HIDE DEF key
<1> QED  BY <1>1, <1>2, <1>3 DEF CellsNamed

\* Text a where fieldref looks for it in text b, as the code says it and as it is meant.
PlacedIn(mode, a, b) ==
    \E from \in 0..(Len(b) - Len(a)) :
        /\ SubSeq(b, from + 1, from + Len(a)) = a
        /\ mode \in {"exact", "startswith"} => from = 0
        /\ mode \in {"exact", "endswith"} => from = Len(b) - Len(a)

MeantIn(mode, a, b) ==
    CASE mode = "contains"   -> Occurs(a, b)
      [] mode = "startswith" -> Len(a) <= Len(b) /\ SubSeq(b, 1, Len(a)) = a
      [] mode = "endswith"   -> Len(a) <= Len(b) /\ SubSeq(b, Len(b) - Len(a) + 1, Len(b)) = a
      [] mode = "exact"      -> a = b

\* Both are the same.
LEMMA PlacedIsMeant ==
    ASSUME NEW a \in Seq(Chars), NEW b \in Seq(Chars), NEW mode \in Modes
    PROVE  PlacedIn(mode, a, b) <=> MeantIn(mode, a, b)
<1>1. Len(a) \in Nat /\ Len(b) \in Nat
  BY LenProperties
<1>2. CASE mode = "contains"
  BY <1>2 DEF PlacedIn, MeantIn, Occurs
<1>3. CASE mode = "startswith"
  <2>1. 0 \in 0..(Len(b) - Len(a)) <=> Len(a) <= Len(b)
    BY <1>1
  <2>2. 0 + 1 = 1 /\ 0 + Len(a) = Len(a)
    BY <1>1
  <2>3. PlacedIn(mode, a, b) <=> 0 \in 0..(Len(b) - Len(a)) /\ SubSeq(b, 0 + 1, 0 + Len(a)) = a
    BY <1>3, Zenon DEF PlacedIn
  <2> QED  BY <1>3, <2>1, <2>2, <2>3 DEF MeantIn
<1>4. CASE mode = "endswith"
  <2> DEFINE from == Len(b) - Len(a)
  <2>1. from \in 0..from <=> Len(a) <= Len(b)
    BY <1>1
  <2>2. from + Len(a) = Len(b)
    BY <1>1
  <2> HIDE DEF from
  <2>3. PlacedIn(mode, a, b) <=> from \in 0..from /\ SubSeq(b, from + 1, from + Len(a)) = a
    BY <1>4, Zenon DEF PlacedIn, from
  <2>4. MeantIn(mode, a, b) <=> Len(a) <= Len(b) /\ SubSeq(b, from + 1, Len(b)) = a
    BY <1>4 DEF MeantIn, from
  <2> QED  BY <2>1, <2>2, <2>3, <2>4
<1>5. CASE mode = "exact"
  <2>1. MeantIn(mode, a, b) <=> a = b
    BY <1>5 DEF MeantIn
  <2>2. ASSUME PlacedIn(mode, a, b) PROVE a = b
    <3>1. PICK from \in 0..(Len(b) - Len(a)) :
            SubSeq(b, from + 1, from + Len(a)) = a /\ from = 0 /\ from = Len(b) - Len(a)
      BY <1>5, <2>2 DEF PlacedIn
    <3>2. from + 1 = 1 /\ from + Len(a) = Len(b)
      BY <1>1, <3>1
    <3>3. SubSeq(b, 1, Len(b)) = a
      BY <3>1, <3>2
    <3> QED  BY <3>3, SubSeqFull
  <2>3. ASSUME a = b PROVE PlacedIn(mode, a, b)
    <3>1. 0 \in 0..(Len(b) - Len(a)) /\ 0 = Len(b) - Len(a) /\ 0 + 1 = 1 /\ 0 + Len(a) = Len(b)
      BY <1>1, <2>3
    <3>2. SubSeq(b, 0 + 1, 0 + Len(a)) = a
      <4>1. SubSeq(b, 1, Len(b)) = b
        BY SubSeqFull
      <4> QED  BY <2>3, <3>1, <4>1
    <3> QED  BY <3>1, <3>2 DEF PlacedIn
  <2> QED  BY <2>1, <2>2, <2>3
<1> QED  BY <1>2, <1>3, <1>4, <1>5 DEF Modes

\* A reference says what it means.
LEMMA FieldrefMeans ==
    ASSUME NEW field, NEW values, NEW modifiers, NEW seen, WholeView(seen), OneSpelling(seen.cells)
    PROVE  Refers(Fold(field), values, modifiers, seen)
                <=> MeansFieldref(field, values, modifiers, seen.cells)
<1> DEFINE subject == First(Fold(field), seen)
           mode == Mode(modifiers)
           other(i) == First(Fold(values[i].text), seen)
           passes(i) == HasField(Fold(values[i].text), seen) /\ PlacedIn(mode, Fold(other(i)), Fold(subject))
           says(i) == \E o \in CellsNamed(values[i].text, seen.cells) : MeantIn(mode, Fold(o), Fold(subject))
<1>0. FirstKeys(seen)
  BY DEF WholeView
<1>1. CASE ~HasField(Fold(field), seen)
  <2>1. CellsNamed(field, seen.cells) = {}
    BY <1>0, <1>1, FieldThere
  <2> QED  BY <1>1, <2>1 DEF Refers, MeansFieldref
<1>2. CASE HasField(Fold(field), seen)
  <2>1. CellsNamed(field, seen.cells) = {subject}
    BY <1>0, <1>2, OneCell
  <2>2. \A name : HasField(Fold(name), seen) => First(Fold(name), seen) \in Seq(Chars)
    BY WholeTextType DEF WholeView, FirstKeys, HasField, First
  <2>3. Fold(subject) \in Seq(Chars)
    BY <1>2, <2>2, FoldType
  <2>4. mode \in Modes
    BY ModeType
  <2>5. ASSUME NEW i PROVE passes(i) <=> says(i)
    <3>1. CASE ~HasField(Fold(values[i].text), seen)
      <4>1. CellsNamed(values[i].text, seen.cells) = {}
        BY <1>0, <3>1, FieldThere
      <4> QED  BY <3>1, <4>1
    <3>2. CASE HasField(Fold(values[i].text), seen)
      <4>1. CellsNamed(values[i].text, seen.cells) = {other(i)}
        BY <1>0, <3>2, OneCell
      <4>2. Fold(other(i)) \in Seq(Chars)
        BY <2>2, <3>2, FoldType
      <4>3. PlacedIn(mode, Fold(other(i)), Fold(subject)) <=> MeantIn(mode, Fold(other(i)), Fold(subject))
        BY <2>3, <2>4, <4>2, PlacedIsMeant
      <4> QED  BY <3>2, <4>1, <4>3
    <3> QED  BY <3>1, <3>2
  <2>6. Refers(Fold(field), values, modifiers, seen)
          <=> Enough(modifiers, DOMAIN values, {i \in DOMAIN values : passes(i)})
    BY <1>2 DEF Refers, PlacedIn
  <2>7. MeansFieldref(field, values, modifiers, seen.cells)
          <=> \E text \in CellsNamed(field, seen.cells) :
                IF Contains(modifiers, "all")
                THEN \A i \in DOMAIN values : \E o \in CellsNamed(values[i].text, seen.cells) :
                        MeantIn(mode, Fold(o), Fold(text))
                ELSE \E i \in DOMAIN values : \E o \in CellsNamed(values[i].text, seen.cells) :
                        MeantIn(mode, Fold(o), Fold(text))
    BY DEF MeansFieldref, MeantIn
  <2>8. MeansFieldref(field, values, modifiers, seen.cells)
          <=> IF Contains(modifiers, "all") THEN \A i \in DOMAIN values : says(i)
              ELSE \E i \in DOMAIN values : says(i)
    <3> HIDE DEF subject, mode
    <3> QED  BY <2>1, <2>7
  <2> HIDE DEF passes, says
  <2> QED  BY <2>5, <2>6, <2>8 DEF Enough
<1> QED  BY <1>1, <1>2

\* A field has a cell on which the values say so.
LEMMA FieldMeans ==
    ASSUME NEW field \in Seq(Chars), NEW values \in Seq(YamlValues), NEW M, NEW modifiers \in Seq(M),
           NEW seen, WholeView(seen), ModifiersDocumented(modifiers),
           \A text \in Cells(field, seen.cells), i \in DOMAIN values :
                Comparable(values[i], modifiers, text)
    PROVE  (\E key \in KeysOf(Fold(field), seen) :
                Enough(modifiers, DOMAIN apply_transforms(values, modifiers),
                       Passing(apply_transforms(values, modifiers), modifiers, seen.cells[key])))
                <=> MeansField(field, values, modifiers, seen.cells)
<1> DEFINE keys == KeysOf(Fold(field), seen)
           enough(text) == Enough(modifiers, DOMAIN apply_transforms(values, modifiers),
                                  Passing(apply_transforms(values, modifiers), modifiers, text))
<1>1. Fold(field) = <<>> <=> field = <<>>
  <2>1. Len(Fold(field)) = Len(field) /\ Fold(field) \in Seq(Chars)
    BY FoldType
  <2> QED  BY <2>1, EmptySeq
<1>2. keys = {key \in DOMAIN seen.cells : field = <<>> \/ Fold(key) = Fold(field)}
  BY <1>1 DEF KeysOf
<1>3. Cells(field, seen.cells) = {seen.cells[key] : key \in keys}
  BY <1>2 DEF Cells
<1>4. ASSUME NEW key \in keys PROVE enough(seen.cells[key]) <=> Said(values, modifiers, seen.cells[key])
  <2>1. seen.cells[key] \in WholeTexts
    BY <1>2, <1>4 DEF WholeView
  <2>2. \A i \in DOMAIN values : Comparable(values[i], modifiers, seen.cells[key])
    BY <1>3, <1>4
  <2>3. CASE "windash" \notin ToSet(modifiers)
    BY <2>1, <2>2, <2>3, PlainSaid
  <2>4. CASE "windash" \in ToSet(modifiers)
    BY <2>1, <2>4, DashedSaid
  <2> QED  BY <2>3, <2>4
<1>5. MeansField(field, values, modifiers, seen.cells)
        <=> \E text \in Cells(field, seen.cells) : Said(values, modifiers, text)
  BY DEF MeansField, Said, SaysOf
<1> HIDE DEF enough, keys
<1>6. (\E key \in keys : enough(seen.cells[key])) <=> MeansField(field, values, modifiers, seen.cells)
  BY <1>3, <1>4, <1>5
<1> QED  BY <1>6 DEF enough, keys

\* A condition made of an entry says what the entry means.
LEMMA EntryMeans ==
    ASSUME NEW entry \in EntryType, NEW seen, WholeView(seen), EntryDocumented(entry, seen.cells)
    PROVE  Direct(entry.field, parse_field_values(entry.value), entry.modifiers, seen)
                <=> MeansEntry(entry, seen.cells)
<1> DEFINE values == parse_field_values(entry.value)
           modifiers == entry.modifiers
<1>1. entry.field \in Seq(Chars) /\ modifiers \in Seq(STRING) /\ values \in Seq(YamlValues)
  BY FieldValues DEF EntryType
<1> HIDE DEF values
<1>2. \A m : Contains(modifiers, m) <=> m \in ToSet(modifiers)
  BY <1>1, ContainsIs
<1>3. CASE Contains(modifiers, "exists")
  <2>1. HasField(Fold(entry.field), seen) <=> CellsNamed(entry.field, seen.cells) # {}
    BY FieldThere DEF WholeView
  <2> QED  BY <1>3, <2>1 DEF Direct, MeansEntry, values, HasField
<1>4. CASE ~Contains(modifiers, "exists") /\ Contains(modifiers, "fieldref")
  <2>1. OneSpelling(seen.cells)
    BY <1>2, <1>4 DEF EntryDocumented
  <2> QED  BY <1>4, <2>1, FieldrefMeans DEF Direct, MeansEntry, values
<1>5. CASE ~Contains(modifiers, "exists") /\ ~Contains(modifiers, "fieldref")
  <2>1. ModifiersDocumented(modifiers)
    BY DEF EntryDocumented, ModifiersDocumented
  <2>2. ASSUME NEW text \in Cells(entry.field, seen.cells), NEW i \in DOMAIN values
        PROVE  Comparable(values[i], modifiers, text)
    <3>1. values[i] \in ToSet(values)
      BY DEF ToSet
    <3>2. ToSet(modifiers) \intersect Comparisons # {} => ExactValue(values[i], text)
      BY <3>1 DEF EntryDocumented, ExactNumbers, ExactValue, values
    <3>3. \A a, b \in ToSet(modifiers) \intersect Comparisons : a = b
      BY DEF EntryDocumented
    <3> QED  BY <3>2, <3>3 DEF Comparable
  <2>3. (\E key \in KeysOf(Fold(entry.field), seen) :
                Enough(modifiers, DOMAIN apply_transforms(values, modifiers),
                       Passing(apply_transforms(values, modifiers), modifiers, seen.cells[key])))
                <=> MeansField(entry.field, values, modifiers, seen.cells)
    BY <1>1, <2>1, <2>2, FieldMeans
  <2>4. ~MeansMissing(entry.field, values, modifiers, seen.cells)
    BY <1>2, <1>5 DEF EntryDocumented, values
  <2> QED  BY <1>5, <2>3, <2>4 DEF Direct, MeansEntry, values
<1> QED  BY <1>3, <1>4, <1>5

\* Keywords say what they mean.
LEMMA KeywordsMean ==
    ASSUME NEW values \in Seq(YamlValues), NEW seen, WholeView(seen)
    PROVE  Direct(<<>>, values, <<"contains">>, seen)
                <=> MeansField(<<>>, values, <<"contains">>, seen.cells)
<1> DEFINE modifiers == <<"contains">>
<1>0. PICK M : modifiers \in Seq(M)
  BY SingleType
<1>1. ToSet(modifiers) = {"contains"}
  <2>1. DOMAIN modifiers = {1} /\ modifiers[1] = "contains"
    OBVIOUS
  <2> HIDE DEF modifiers
  <2> QED  BY <2>1 DEF ToSet
<1>2. ~Contains(modifiers, "exists") /\ ~Contains(modifiers, "fieldref")
  BY KeywordModifiers
<1> HIDE DEF modifiers
<1>3. ModifiersDocumented(modifiers)
  BY <1>1 DEF ModifiersDocumented
<1>4. \A text \in Cells(<<>>, seen.cells), i \in DOMAIN values : Comparable(values[i], modifiers, text)
  BY <1>1 DEF Comparable, Comparisons
<1>5. <<>> \in Seq(Chars)
  OBVIOUS
<1>6. (\E key \in KeysOf(Fold(<<>>), seen) :
            Enough(modifiers, DOMAIN apply_transforms(values, modifiers),
                   Passing(apply_transforms(values, modifiers), modifiers, seen.cells[key])))
            <=> MeansField(<<>>, values, modifiers, seen.cells)
  BY <1>0, <1>3, <1>4, <1>5, FieldMeans
<1>7. Direct(<<>>, values, modifiers, seen) <=> MeansField(<<>>, values, modifiers, seen.cells)
  BY <1>2, <1>6 DEF Direct
<1> QED  BY <1>7 DEF modifiers

-----------------------------------------------------------------------------
(* One identifier.                                                          *)

\* A prepared identifier holds when all the conditions of a group do.
LEMMA PreparedHolds ==
    ASSUME NEW name, NEW groups, NEW seen
    PROVE  match_identifier(finalize_identifiers([name |-> name, groups |-> groups]), seen)
                <=> \E g \in DOMAIN groups : \A c \in DOMAIN groups[g] :
                        match_field_condition(Finalized(groups[g][c]), seen)
<1> DEFINE ready == finalize_identifiers([name |-> name, groups |-> groups])
<1>1. /\ DOMAIN ready.groups = DOMAIN groups
      /\ \A g \in DOMAIN groups :
            /\ DOMAIN ready.groups[g] = DOMAIN groups[g]
            /\ \A c \in DOMAIN groups[g] : ready.groups[g][c] = Finalized(groups[g][c])
  BY FinalizedGroups
<1> HIDE DEF ready
<1>2. match_identifier(ready, seen)
        <=> \E g \in DOMAIN groups : \A c \in DOMAIN groups[g] :
                match_field_condition(Finalized(groups[g][c]), seen)
  BY <1>1 DEF match_identifier
<1> QED  BY <1>2 DEF ready

\* All the conditions of a map do when the map does.
LEMMA MapMeans ==
    ASSUME NEW node, NEW map \in MapNodes, map \in Maps(node), NEW seen, WholeView(seen),
           Documented(node, seen.cells)
    PROVE  (\A c \in DOMAIN parse_field_map(map) :
                match_field_condition(Finalized(parse_field_map(map)[c]), seen))
                <=> MeansMap(map, seen.cells)
<1>1. /\ DOMAIN parse_field_map(map) = DOMAIN map.entries
      /\ \A c \in DOMAIN map.entries :
            /\ parse_field_map(map)[c] = EntryCondition(map.entries[c])
            /\ map.entries[c] \in Entries(node) /\ map.entries[c] \in EntryType
  BY MapEntries
<1>2. ASSUME NEW entry \in EntryType, entry \in Entries(node)
      PROVE  match_field_condition(Finalized(EntryCondition(entry)), seen)
                <=> MeansEntry(entry, seen.cells)
  <2> DEFINE c == EntryCondition(entry)
             values == parse_field_values(entry.value)
  <2>1. Made(c, entry.field, Fold(entry.field), values, entry.modifiers)
    BY EntryMade
  <2>2. EntryDocumented(entry, seen.cells)
    BY <1>2 DEF Documented
  <2>3. Direct(entry.field, values, entry.modifiers, seen) <=> MeansEntry(entry, seen.cells)
    BY <2>2, EntryMeans
  <2> HIDE DEF c, values
  <2>4. match_field_condition(Finalized(c), seen) <=> Direct(entry.field, values, entry.modifiers, seen)
    BY <2>1, PreparedIsDirect DEF Made
  <2> QED  BY <2>3, <2>4 DEF c
<1> QED  BY <1>1, <1>2 DEF MeansMap

\* Keywords do when they do.
LEMMA KeywordsHold ==
    ASSUME NEW name, NEW values \in Seq(YamlValues), NEW seen, WholeView(seen)
    PROVE  match_identifier(finalize_identifiers([name |-> name, groups |-> Keywords(values)]), seen)
                <=> MeansField(<<>>, values, <<"contains">>, seen.cells)
<1> DEFINE cond == KeywordCondition(values)
<1>1. Keywords(values) = << <<cond>> >>
  BY DEF Keywords, KeywordCondition
<1>2. match_field_condition(Finalized(cond), seen)
        <=> MeansField(<<>>, values, <<"contains">>, seen.cells)
  <2>1. Made(cond, <<>>, <<>>, values, <<"contains">>)
    BY KeywordMade
  <2> HIDE DEF cond
  <2>2. match_field_condition(Finalized(cond), seen) <=> Direct(<<>>, values, <<"contains">>, seen)
    BY <2>1, PreparedIsDirect DEF Made
  <2> QED  BY <2>2, KeywordsMean
<1> DEFINE groups == << <<cond>> >>
<1> HIDE DEF cond
<1>3. DOMAIN groups = {1} /\ DOMAIN groups[1] = {1} /\ groups[1][1] = cond
  OBVIOUS
<1> HIDE DEF groups
<1>4. match_identifier(finalize_identifiers([name |-> name, groups |-> groups]), seen)
        <=> match_field_condition(Finalized(cond), seen)
  BY <1>3, PreparedHolds
<1> QED  BY <1>1, <1>2, <1>4 DEF groups

\* An identifier says what its node means.
LEMMA NodeMeans ==
    ASSUME NEW name, NEW node \in Nodes, NEW seen, WholeView(seen), Documented(node, seen.cells)
    PROVE  match_identifier(finalize_identifiers(parse_search_identifier(name, node)), seen)
                <=> MeansNode(node, seen.cells)
<1> DEFINE groups == parse_search_identifier(name, node).groups
           holds == match_identifier(finalize_identifiers([name |-> name, groups |-> groups]), seen)
<1>1. parse_search_identifier(name, node) = [name |-> name, groups |-> groups]
  BY DEF parse_search_identifier
<1>2. ~(IsMap(node) /\ IsList(node))
  <2>1. IsMap(node) => node \in MapNodes
    BY NodeShape
  <2>2. node \in MapNodes => ~IsList(node)
    BY DEF MapNodes, IsList
  <2> QED  BY <2>1, <2>2
<1>3. holds <=> MeansNode(node, seen.cells)
  <2>1. CASE IsMap(node)
    <3>1. groups = <<parse_field_map(node)>>
      BY <2>1 DEF parse_search_identifier
    <3>2. node \in Maps(node) /\ node \in MapNodes
      BY <2>1, NodeShape DEF Maps
    <3> HIDE DEF groups
    <3>3. DOMAIN groups = {1} /\ groups[1] = parse_field_map(node)
      BY <3>1
    <3>4. holds <=> \A c \in DOMAIN parse_field_map(node) :
                        match_field_condition(Finalized(parse_field_map(node)[c]), seen)
      BY <3>3, PreparedHolds
    <3>5. holds <=> MeansMap(node, seen.cells)
      BY <3>2, <3>4, MapMeans
    <3> QED  BY <1>2, <2>1, <3>5 DEF MeansNode
  <2>2. CASE ~IsMap(node) /\ ~IsList(node)
    <3>1. groups = Keywords(<<node>>)
      BY <2>2 DEF parse_search_identifier, from_yaml
    <3>2. <<node>> \in Seq(YamlValues)
      <4>1. <<from_yaml(node)>> \in Seq(YamlValues)
        BY YamlSingle
      <4> QED  BY <2>2, <4>1 DEF from_yaml
    <3> HIDE DEF groups
    <3>3. holds <=> MeansField(<<>>, <<node>>, <<"contains">>, seen.cells)
      BY <3>1, <3>2, KeywordsHold
    <3> QED  BY <2>2, <3>3 DEF MeansNode
  <2>3. CASE ~IsMap(node) /\ IsList(node) /\ ~AllMaps(node.items)
    <3>1. groups = Keywords(Values(node.items))
      BY <2>3 DEF parse_search_identifier
    <3>2. Values(node.items) \in Seq(YamlValues)
      BY <2>3, NodeShape, YamlList DEF ListNodes
    <3> HIDE DEF groups
    <3>3. holds <=> MeansField(<<>>, Values(node.items), <<"contains">>, seen.cells)
      BY <3>1, <3>2, KeywordsHold
    <3> QED  BY <2>3, <3>3 DEF MeansNode
  <2>4. CASE ~IsMap(node) /\ IsList(node) /\ AllMaps(node.items)
    <3>1. groups = [i \in DOMAIN node.items |-> parse_field_map(node.items[i])]
      BY <2>4 DEF parse_search_identifier
    <3>2. \A i \in DOMAIN node.items : node.items[i] \in Maps(node) /\ node.items[i] \in MapNodes
      BY <2>4, MapsAreMaps DEF Maps, ToSet
    <3> HIDE DEF groups
    <3>6. /\ DOMAIN groups = DOMAIN node.items
          /\ \A i \in DOMAIN node.items : groups[i] = parse_field_map(node.items[i])
      BY <3>1
    <3>7. holds <=> \E g \in DOMAIN groups : \A c \in DOMAIN groups[g] :
                        match_field_condition(Finalized(groups[g][c]), seen)
      BY PreparedHolds
    <3>3. holds <=> \E i \in DOMAIN node.items : \A c \in DOMAIN parse_field_map(node.items[i]) :
                        match_field_condition(Finalized(parse_field_map(node.items[i])[c]), seen)
      <4> HIDE DEF holds
      <4> QED  BY <3>6, <3>7
    <3>4. \A i \in DOMAIN node.items :
            (\A c \in DOMAIN parse_field_map(node.items[i]) :
                match_field_condition(Finalized(parse_field_map(node.items[i])[c]), seen))
            <=> MeansMap(node.items[i], seen.cells)
      BY <3>2, MapMeans
    <3>5. holds <=> \E i \in DOMAIN node.items : MeansMap(node.items[i], seen.cells)
      BY <3>3, <3>4
    <3> QED  BY <2>4, <3>5 DEF MeansNode
  <2> QED  BY <2>1, <2>2, <2>3, <2>4
<1> QED  BY <1>1, <1>3

-----------------------------------------------------------------------------
(* The fields and the view.                                                 *)

\* The fields of the event are texts of the case.
Reading == case \in Cases /\ {event[key] : key \in DOMAIN event} \subseteq EventTexts(case)

\* They always are.
LEMMA ReadingInductive == Spec => []Reading
<1>1. Init => Reading
  <2> SUFFICES ASSUME Init PROVE Reading
    OBVIOUS
  <2>1. case \in Cases /\ event \in case.events
    BY DEF Init
  <2> QED  BY <2>1 DEF Reading, EventTexts
<1>2. Reading /\ [Next]_vars => Reading'
  <2> SUFFICES ASSUME Reading, [Next]_vars PROVE Reading'
    OBVIOUS
  <2>1. CASE AddField
    <3>1. case' = case
      BY <2>1 DEF AddField
    <3>2. PICK field \in case.fields :
            event' = [key \in DOMAIN event \union {field.key} |->
                        IF key = field.key THEN field.value ELSE event[key]]
      BY <2>1 DEF AddField
    <3>3. field.value \in EventTexts(case)
      BY <3>2 DEF EventTexts
    <3>4. \A key \in DOMAIN event' : event'[key] \in EventTexts(case)
      BY <3>2, <3>3 DEF Reading
    <3> QED  BY <3>1, <3>4 DEF Reading
  <2>2. CASE ~AddField
    <3>1. case' = case /\ event' = event
      BY <2>2 DEF Next, Finished, AddMapping, LoadRule, RejectRule, VisitKey, BuildView,
                  Evaluate, vars
    <3> QED  BY <3>1 DEF Reading
  <2> QED  BY <2>1, <2>2
<1> QED  BY <1>1, <1>2, PTL DEF Spec

\* A view is a function, with the first key of every name.
Looking(seen) == FirstKeys(seen) /\ seen.cells = [key \in DOMAIN seen.cells |-> seen.cells[key]]

Viewing == phase \in {"evaluate", "done"} => Looking(view)

\* Any view of an enriched event does.
LEMMA ViewLooks ==
    ASSUME NEW fields, NEW found, NEW v \in Views(enriched(fields, found))
    PROVE  Looking(v)
<1> DEFINE shown  == enriched(fields, found)
           folded == {Fold(key) : key \in DOMAIN shown}
           firsts == {f \in [folded -> DOMAIN shown] : \A name \in folded : Fold(f[name]) = name}
<1>1. Views(shown) = {[cells |-> shown, first |-> first] : first \in firsts}
  BY DEF Views
<1>2. shown = [key \in DOMAIN shown |-> shown[key]]
  BY DEF enriched
<1> HIDE DEF shown
<1>3. PICK first \in firsts : v = [cells |-> shown, first |-> first]
  <2> HIDE DEF firsts
  <2> QED  BY <1>1 DEF shown
<1>4. v.cells = shown /\ v.first = first
  BY <1>3
<1>5. FirstKeys(v)
  BY <1>4 DEF FirstKeys
<1> QED  BY <1>2, <1>4, <1>5 DEF Looking

\* So the view always does.
LEMMA ViewingInductive == Spec => []Viewing
<1>1. Init => Viewing
  BY DEF Init, Viewing
<1>2. Viewing /\ [Next]_vars => Viewing'
  <2> SUFFICES ASSUME Viewing, [Next]_vars PROVE Viewing'
    OBVIOUS
  <2>1. CASE BuildView
    BY <2>1, ViewLooks DEF BuildView, Viewing
  <2>2. CASE Evaluate
    <3>1. phase = "evaluate" /\ view' = view
      BY <2>2 DEF Evaluate
    <3> QED  BY <3>1 DEF Viewing
  <2>3. CASE ~BuildView /\ ~Evaluate
    <3>1. (phase' = phase /\ view' = view) \/ phase' \in {"enrich", "rejected"}
      BY <2>3 DEF Next, Finished, AddMapping, LoadRule, RejectRule, VisitKey, AddField, vars
    <3> QED  BY <3>1 DEF Viewing
  <2> QED  BY <2>1, <2>2, <2>3
<1> QED  BY <1>1, <1>2, PTL DEF Spec

\* What is shown of the event is what a rule sees.
LEMMA ShownIsSeen ==
    ASSUME NEW cells, Shows(mapping, event, cells), cells = [key \in DOMAIN cells |-> cells[key]]
    PROVE  cells \in SeenFields
<1> DEFINE Sources(name) == {key \in DOMAIN event : name \in SigmaNames(mapping, key)}
           names == (UNION {SigmaNames(mapping, key) : key \in DOMAIN event}) \ DOMAIN event
           sources == {f \in [names -> DOMAIN event] : \A n \in names : f[n] \in Sources(n)}
           source == [name \in names |->
                        CHOOSE key \in DOMAIN event :
                            name \in SigmaNames(mapping, key) /\ cells[name] = event[key]]
           Seen(f) == [key \in DOMAIN event \union names |->
                        IF key \in names THEN event[f[key]] ELSE event[key]]
<1>0. \A name : name \in names <=>
        name \notin DOMAIN event /\ \E key \in DOMAIN event : name \in SigmaNames(mapping, key)
  OBVIOUS
<1>5. SeenFields = {Seen(f) : f \in sources}
  BY DEF SeenFields
<1> HIDE DEF names
<1>2. \A name \in names : \E key \in DOMAIN event :
            name \in SigmaNames(mapping, key) /\ cells[name] = event[key]
  BY <1>0 DEF Shows
<1>1. DOMAIN cells = DOMAIN event \union names
  BY <1>0 DEF Shows
<1>3. \A name \in names : /\ source[name] \in DOMAIN event
                          /\ name \in SigmaNames(mapping, source[name])
                          /\ cells[name] = event[source[name]]
  BY <1>2
<1>4. source \in sources
  <2>1. source = [name \in names |-> source[name]]
    OBVIOUS
  <2> HIDE DEF source
  <2>2. source \in [names -> DOMAIN event]
    BY <1>3, <2>1
  <2> QED  BY <1>3, <2>2
<1> HIDE DEF source, sources
<1>6. cells = Seen(source)
  <2>1. \A key \in DOMAIN cells :
            cells[key] = IF key \in names THEN event[source[key]] ELSE event[key]
    BY <1>1, <1>3 DEF Shows
  <2> QED  BY <1>1, <2>1
<1> HIDE DEF Seen
<1> QED  BY <1>4, <1>5, <1>6

\* So each identifier says what its node means.
LEMMA GrowthMeans == Growth /\ Reading /\ Viewing => IdentifierMeansItsYaml
<1> SUFFICES ASSUME Growth, Reading, Viewing, phase = "done" PROVE IdentifierMeansItsYaml
  BY DEF IdentifierMeansItsYaml
<1>0. Parsed /\ Seeing /\ Looking(view)
  BY DEF Growth, Viewing
<1>1. /\ matches = [j \in DOMAIN identifiers |-> AnswersTo(identifiers[j], view)]
      /\ Shows(mapping, event, view.cells)
  BY <1>0 DEF Parsed, Seeing
<1>2. view.cells \in SeenFields
  BY <1>0, <1>1, ShownIsSeen DEF Looking
<1>3. WholeView(view)
  <2>1. \A key \in DOMAIN event : event[key] \in WholeTexts
    <3>1. EventTexts(case) \subseteq WholeTexts
      BY DEF Reading, WholeTexts
    <3> QED  BY <3>1 DEF Reading
  <2>2. \A key \in DOMAIN view.cells : view.cells[key] \in WholeTexts
    BY <1>1, <2>1 DEF Shows
  <2> QED  BY <1>0, <2>2 DEF WholeView, Looking
<1>4. ASSUME NEW i \in DOMAIN matches, Documented(NodeOf(i), view.cells)
      PROVE  matches[i].loaded <=> MeansNode(NodeOf(i), view.cells)
  <2>1. i \in DOMAIN identifiers /\ matches[i] = AnswersTo(identifiers[i], view)
    BY <1>1
  <2>2. /\ NodeOf(i) \in Nodes
        /\ identifiers[i] = parse_search_identifier(Named(detection)[i].name, NodeOf(i))
    BY <1>0, <2>1, NodeOfIdentifier
  <2>3. match_identifier(finalize_identifiers(identifiers[i]), view) <=> MeansNode(NodeOf(i), view.cells)
    BY <1>3, <1>4, <2>2, NodeMeans
  <2> QED  BY <2>1, <2>3 DEF AnswersTo
<1> QED  BY <1>2, <1>4 DEF IdentifierMeansItsYaml

\* What the parser, the caches, the field map and the matcher make of a detection is what
\* its YAML says, whatever the document, the event and the order the fields are looked at.
THEOREM IdentifierAlwaysMeansItsYaml == Spec => []IdentifierMeansItsYaml
BY GrowthInductive, ReadingInductive, ViewingInductive, GrowthMeans, PTL
=============================================================================
