--------------------------- MODULE ChunkerProofs ---------------------------
(***************************************************************************)
(* What the chunker guarantees for every limit, every input and every way  *)
(* its reads cut the input.                                                *)
(***************************************************************************)
EXTENDS Chunker, SequenceTheorems, FiniteSetTheorems, WellFoundedInduction, TLAPS

MaxBuffer == max_line_bytes + Slack

(* The buffer holds the end of what was read.                              *)
Suffix ==
    /\ Len(avail) <= Len(src)
    /\ \A i \in 1..Len(avail) : avail[i] = src[Offset + i]

NewlinesUpTo(k) == {j \in 1..k : src[j] = "n"}

(* What is true of one item, whatever comes before and after it.           *)
ItemOK(it) ==
    /\ it.from < it.to /\ it.to <= Len(src)
    /\ src[it.to] = "n" \/ (it.to = Len(src) /\ reader_done)
    /\ it.line = 1 + Cardinality(NewlinesUpTo(it.from))
    /\ it.kind = "large" => /\ \A j \in (it.from + 1)..(it.to - 1) : src[j] # "n"
                            /\ RawLength(it) > max_line_bytes
    /\ it.kind = "data" => it.to - it.from <= MaxBuffer

ItemsInv ==
    \A i \in 1..Len(items) :
        /\ items[i].id = i - 1
        /\ items[i].from = IF i = 1 THEN 0 ELSE items[i - 1].to
        /\ ItemOK(items[i])

(* Where the next item starts, which number it has and which line it is on: *)
(* between two items, and while a line is drained.  After an unterminated   *)
(* last line the number is of no use any more.                              *)
BetweenItems ==
    pc = "next" =>
        /\ Delivered = Offset
        /\ next_chunk_id = Len(items)
        /\ \/ next_line = 1 + Cardinality(NewlinesUpTo(Offset))
           \/ eof /\ avail = <<>>

Draining ==
    pc = "drain" =>
        /\ Delivered = draining.from
        /\ draining.id = Len(items) /\ next_chunk_id = Len(items) + 1
        /\ draining.line = 1 + Cardinality(NewlinesUpTo(draining.from))
        /\ next_line = draining.line + 1
        /\ draining.from <= Offset /\ draining.from + max_line_bytes < Len(src)
        /\ \A j \in (draining.from + 1)..Offset : src[j] # "n"
        /\ \A j \in (draining.from + 1)..(draining.from + max_line_bytes + 1) :
               src[j] # "n"

AtEnd == pc = "end" => Delivered = Len(src)

IInv ==
    /\ TypeOK /\ Suffix /\ (eof <=> reader_done)
    /\ ItemsInv /\ BetweenItems /\ Draining /\ AtEnd

-----------------------------------------------------------------------------
(* Lemmas about sequences, newlines and counting.                           *)

\* A set of numbers has a least one.
LEMMA LeastNat ==
    ASSUME NEW T, T \subseteq Nat, T # {}
    PROVE  \E m \in T : \A k \in T : m <= k
<1>1. PICK m \in T : \A k \in T : <<k, m>> \notin OpToRel(<, Nat)
    BY WFMin, NatLessThanWellFounded, Zenon
<1>2. \A k \in T : ~(k < m)
    BY <1>1, Zenon DEF OpToRel
<1> QED  BY <1>2

\* A bounded set of numbers has a greatest one.
LEMMA GreatestBelow ==
    ASSUME NEW n \in Nat, NEW T, T \subseteq 0..n, T # {}
    PROVE  \E m \in T : \A k \in T : m >= k
<1> DEFINE U == {n - k : k \in T}
<1>1. U \subseteq Nat /\ U # {}
    <2>1. \A k \in T : n - k \in Nat
        OBVIOUS
    <2>2. PICK k \in T : TRUE
        OBVIOUS
    <2>3. n - k \in U
        BY <2>2
    <2> QED  BY <2>1, <2>3
<1>2. PICK u \in U : \A k \in U : u <= k
    BY <1>1, LeastNat
<1>3. PICK m \in T : u = n - m
    OBVIOUS
<1>4. \A k \in T : n - m <= n - k
    BY <1>2, <1>3
<1> QED  BY <1>4

(* The first and the last newline of what is held.                          *)
LEMMA FirstNewline ==
    ASSUME NEW s \in Seq(Bytes), Newlines(s) # {}
    PROVE  /\ Min(Newlines(s)) \in 1..Len(s)
           /\ s[Min(Newlines(s))] = "n"
           /\ \A j \in 1..(Min(Newlines(s)) - 1) : s[j] # "n"
<1>1. DOMAIN s = 1..Len(s) /\ Len(s) \in Nat
    BY LenProperties
<1>2. Newlines(s) \subseteq Nat
    BY <1>1 DEF Newlines
<1>3. \E m \in Newlines(s) : \A k \in Newlines(s) : m <= k
    BY <1>2, LeastNat
<1>4. /\ Min(Newlines(s)) \in Newlines(s)
      /\ \A k \in Newlines(s) : Min(Newlines(s)) <= k
    BY <1>3 DEF Min
<1> DEFINE m == Min(Newlines(s))
<1>5. m \in 1..Len(s) /\ s[m] = "n"
    BY <1>1, <1>4 DEF Newlines
<1>6. ASSUME NEW j \in 1..(m - 1), s[j] = "n" PROVE FALSE
    <2>1. j \in Newlines(s) /\ j < m
        BY <1>1, <1>5, <1>6 DEF Newlines
    <2> QED  BY <1>1, <1>4, <1>5, <2>1
<1> QED  BY <1>5, <1>6

\* The last newline of a buffer is in it.
LEMMA LastNewline ==
    ASSUME NEW s \in Seq(Bytes), Newlines(s) # {}
    PROVE  Max(Newlines(s)) \in 1..Len(s) /\ s[Max(Newlines(s))] = "n"
<1>1. DOMAIN s = 1..Len(s) /\ Len(s) \in Nat
    BY LenProperties
<1>2. Newlines(s) \subseteq 0..Len(s)
    BY <1>1 DEF Newlines
<1>3. \E m \in Newlines(s) : \A k \in Newlines(s) : m >= k
    BY <1>1, <1>2, GreatestBelow
<1>4. Max(Newlines(s)) \in Newlines(s)
    BY <1>3 DEF Max
<1> QED  BY <1>1, <1>4 DEF Newlines

\* A read gives at least one byte and no more than there is room for.
LEMMA ReadsType ==
    ASSUME NEW room \in Int, NEW bytes \in Reads(room), Len(src) \in Nat
    PROVE  bytes \in Seq(Bytes) /\ Len(bytes) \in 1..room
<1>1. PICK n \in 1..Smaller(room, MaxInput - Len(src)) : bytes \in [1..n -> Bytes]
    BY DEF Reads
<1>2. n \in 1..room
    BY <1>1, LimitsAssumption DEF Smaller
<1>3. bytes \in Seq(Bytes)
    BY <1>1, <1>2, SeqDef
<1>4. DOMAIN bytes = 1..n /\ DOMAIN bytes = 1..Len(bytes) /\ Len(bytes) \in Nat
    BY <1>1, <1>3, LenProperties
<1> QED  BY <1>2, <1>3, <1>4

(* How many newlines there are up to a place, and up to a later one.        *)
LEMMA CountNewlines ==
    ASSUME TypeOK, Suffix, NEW n \in 1..Len(avail)
    PROVE  Cardinality(NewlinesUpTo(Offset + n))
             = Cardinality(NewlinesUpTo(Offset)) + Cardinality(Newlines(SubSeq(avail, 1, n)))
<1> DEFINE s     == SubSeq(avail, 1, n)
           old   == NewlinesUpTo(Offset)
           new   == {j \in (Offset + 1)..(Offset + n) : src[j] = "n"}
           shift == [i \in Newlines(s) |-> Offset + i]
<1>0. Len(avail) \in Nat /\ Len(src) \in Nat /\ Offset \in Nat
    BY LenProperties DEF TypeOK, Suffix, Offset
<1>1. s \in Seq(Bytes) /\ Len(s) = n /\ \A i \in 1..n : s[i] = avail[i]
    <2>1. \A i \in 1..n : avail[i] \in Bytes
        BY <1>0, ElementOfSeq DEF TypeOK
    <2> QED  BY <2>1, <1>0, SubSeqProperties
<1>2. Newlines(s) = {i \in 1..n : avail[i] = "n"}
    <2>1. DOMAIN s = 1..n
        BY <1>1, LenProperties
    <2> QED  BY <2>1, <1>1 DEF Newlines
<1>3. IsFiniteSet(Newlines(s)) /\ IsFiniteSet(old) /\ IsFiniteSet(new)
    <2>1. IsFiniteSet(1..n) /\ IsFiniteSet(1..(Offset + n))
        BY <1>0, FS_Interval
    <2>2. /\ Newlines(s) \subseteq 1..n
          /\ old \subseteq 1..(Offset + n) /\ new \subseteq 1..(Offset + n)
        BY <1>0, <1>2 DEF NewlinesUpTo
    <2> QED  BY <2>1, <2>2, FS_Subset
<1>4. \A i \in 1..n : avail[i] = src[Offset + i]
    BY <1>0 DEF Suffix
<1>5. shift \in Bijection(Newlines(s), new)
    <2>1. shift \in [Newlines(s) -> new]
        BY <1>0, <1>2, <1>4
    <2>2. \A i, j \in Newlines(s) : shift[i] = shift[j] => i = j
        BY <1>0, <1>2
    <2>3. \A j \in new : \E i \in Newlines(s) : shift[i] = j
        <3> SUFFICES ASSUME NEW j \in new PROVE \E i \in Newlines(s) : shift[i] = j
            OBVIOUS
        <3>1. j - Offset \in 1..n /\ Offset + (j - Offset) = j
            BY <1>0
        <3>2. j - Offset \in Newlines(s)
            BY <3>1, <1>2, <1>4
        <3> QED  BY <3>1, <3>2
    <2> QED  BY <2>1, <2>2, <2>3 DEF Bijection, Injection, Surjection, IsInjective
<1>6. Cardinality(new) = Cardinality(Newlines(s))
    BY <1>3, <1>5, FS_Bijection DEF ExistsBijection
<1>7. NewlinesUpTo(Offset + n) = old \union new /\ old \intersect new = {}
    BY <1>0 DEF NewlinesUpTo
<1>8. Cardinality(old) \in Nat /\ Cardinality(new) \in Nat
    BY <1>3, FS_CardinalityType
<1>9. Cardinality(old \union new) = Cardinality(old) + Cardinality(new) - Cardinality({})
    BY <1>3, <1>7, FS_Union
<1>10. Cardinality(NewlinesUpTo(Offset + n)) = Cardinality(old) + Cardinality(new)
    <2> HIDE DEF old, new
    <2>1. Cardinality({}) = 0
        BY FS_EmptySet
    <2>2. Cardinality(NewlinesUpTo(Offset + n)) = Cardinality(old \union new)
        BY <1>7, Zenon
    <2>3. Cardinality(old \union new) = Cardinality(old) + Cardinality(new)
        BY <1>8, <1>9, <2>1
    <2> QED  BY <2>2, <2>3
<1> QED  BY <1>6, <1>10

\* The newlines up to a place are finitely many.
LEMMA CountType ==
    ASSUME NEW k \in Nat
    PROVE  IsFiniteSet(NewlinesUpTo(k)) /\ Cardinality(NewlinesUpTo(k)) \in Nat
<1>1. IsFiniteSet(1..k)
    BY FS_Interval
<1>2. IsFiniteSet(NewlinesUpTo(k))
    BY <1>1, FS_Subset DEF NewlinesUpTo
<1> QED  BY <1>2, FS_CardinalityType

\* Where the buffer stands in what was read, and the limits it keeps to.
LEMMA Lengths ==
    ASSUME TypeOK, Suffix
    PROVE  /\ Len(avail) \in Nat /\ Len(src) \in Nat /\ Offset \in Nat
           /\ Offset + Len(avail) = Len(src) /\ Len(items) \in Nat
           /\ target \in 1..max_line_bytes
           /\ MaxBuffer \in Nat /\ max_line_bytes < MaxBuffer
BY LenProperties, LimitsAssumption DEF TypeOK, Suffix, Offset, target, Smaller, MaxBuffer

(* A buffer that cannot grow holds more than the longest line: this is why   *)
(* fill never stops in the middle of a line that is not too long.            *)
LEMMA StuckIsTooLong ==
    ASSUME TypeOK, Suffix, Stuck
    PROVE  TooLong
<1>1. target >= 1 /\ cap \in Nat
    BY Lengths DEF TypeOK, MaxBuffer
<1>2. PICK size \in Nat : size = Larger(2 * cap, cap + target) /\ size > cap
    <2>1. target \in Nat /\ cap >= 1
        BY Lengths DEF TypeOK
    <2> QED  BY <1>1, <2>1 DEF Larger
<1>3. Smaller(size, max_line_bytes + Slack) <= cap
    BY <1>2 DEF Stuck, GrowTo
<1>4. max_line_bytes + Slack <= cap
    BY <1>1, <1>2, <1>3, LimitsAssumption DEF Smaller
<1> QED  BY <1>1, <1>4, LimitsAssumption DEF Stuck, TooLong

\* A turn that is not stuck has room to read into.
LEMMA RoomType ==
    ASSUME TypeOK, Suffix, ~Stuck
    PROVE  Room \in 1..MaxBuffer /\ Len(avail) < Room /\ cap <= Room
<1>1. target >= 1 /\ target \in Nat /\ cap \in 1..MaxBuffer /\ Len(avail) \in Nat
          /\ Len(avail) <= cap
    BY Lengths DEF TypeOK, MaxBuffer
<1>2. GrowTo \in Nat /\ GrowTo <= MaxBuffer
    BY <1>1, LimitsAssumption DEF GrowTo, Smaller, Larger, MaxBuffer
<1> QED  BY <1>1, <1>2, LimitsAssumption DEF Room, Stuck, MaxBuffer

-----------------------------------------------------------------------------
(* What reading and what emitting keep.                                     *)

\* What was delivered is unaffected by what is read behind it.
LEMMA ReadKeepsItems ==
    ASSUME TypeOK, ItemsInv, ~reader_done, NEW bytes \in Seq(Bytes),
           src' = src \o bytes, UNCHANGED items
    PROVE  /\ ItemsInv'
           /\ src' \in Seq(Bytes) /\ Len(src') = Len(src) + Len(bytes)
           /\ \A j \in 1..Len(src) : src'[j] = src[j]
           /\ \A j \in 1..Len(bytes) : src'[Len(src) + j] = bytes[j]
           /\ \A k \in 0..Len(src) : NewlinesUpTo(k)' = NewlinesUpTo(k)
<1>1. Len(src) \in Nat /\ Len(bytes) \in Nat /\ Len(items) \in Nat
    BY LenProperties DEF TypeOK
<1>2. /\ src' \in Seq(Bytes) /\ Len(src') = Len(src) + Len(bytes)
      /\ \A j \in 1..(Len(src) + Len(bytes)) :
             src'[j] = IF j <= Len(src) THEN src[j] ELSE bytes[j - Len(src)]
    BY ConcatProperties DEF TypeOK
<1>3. \A j \in 1..Len(src) : src'[j] = src[j]
    BY <1>1, <1>2
<1>4. \A j \in 1..Len(bytes) : src'[Len(src) + j] = bytes[j]
    BY <1>1, <1>2
<1>5. \A k \in 0..Len(src) : NewlinesUpTo(k)' = NewlinesUpTo(k)
    BY <1>1, <1>3 DEF NewlinesUpTo
<1>6. ASSUME NEW i \in 1..Len(items) PROVE ItemOK(items[i])'
    <2> DEFINE it == items[i]
    <2>1. it \in ChunkItems
        BY ElementOfSeq DEF TypeOK
    <2>2. ItemOK(it)
        BY DEF ItemsInv
    <2>3. it.from \in Nat /\ it.to \in Nat
        BY <2>1 DEF ChunkItems
    <2>4. it.from \in 0..Len(src) /\ it.to \in 1..Len(src) /\ src[it.to] = "n"
        BY <1>1, <2>2, <2>3 DEF ItemOK
    <2>5. src'[it.to] = "n" /\ NewlinesUpTo(it.from)' = NewlinesUpTo(it.from)
        BY <1>3, <1>5, <2>4
    <2>6. RawLength(it)' = RawLength(it)
        BY <2>4, <2>5 DEF RawLength
    <2>7. \A j \in (it.from + 1)..(it.to - 1) : src'[j] = src[j]
        BY <1>1, <1>3, <2>4
    <2>8. it.to <= Len(src')
        BY <1>1, <1>2, <2>4
    <2> QED  BY <2>2, <2>5, <2>6, <2>7, <2>8 DEF ItemOK
<1>7. ItemsInv'
    BY <1>6 DEF ItemsInv
<1> QED  BY <1>2, <1>3, <1>4, <1>5, <1>7

\* An item that begins where the last one ended keeps the items in line.
LEMMA EmitKeepsItems ==
    ASSUME TypeOK, ItemsInv, NEW it \in ChunkItems,
           items' = Append(items, it), UNCHANGED src, reader_done => reader_done',
           it.id = Len(items), it.from = Delivered, ItemOK(it)'
    PROVE  /\ ItemsInv' /\ Delivered' = it.to
           /\ items' \in Seq(ChunkItems) /\ Len(items') = Len(items) + 1
<1>1. Len(items) \in Nat
    BY LenProperties DEF TypeOK
<1>2. /\ items' \in Seq(ChunkItems) /\ Len(items') = Len(items) + 1
      /\ items'[Len(items) + 1] = it
      /\ \A i \in 1..Len(items) : items'[i] = items[i]
    BY <1>1 DEF TypeOK
<1>3. Delivered' = it.to
    <2>1. items' # <<>>
        BY <1>1, <1>2, EmptySeq
    <2> QED  BY <1>1, <1>2, <2>1 DEF Delivered
<1>4. ASSUME NEW i \in 1..Len(items) PROVE ItemOK(items[i])'
    <2>1. ItemOK(items[i])
        BY DEF ItemsInv
    <2> QED  BY <1>2, <2>1 DEF ItemOK, NewlinesUpTo, RawLength
<1>5. ASSUME NEW i \in 1..Len(items')
      PROVE  /\ items'[i].id = i - 1
             /\ items'[i].from = IF i = 1 THEN 0 ELSE items'[i - 1].to
             /\ ItemOK(items[i])'
    <2>1. CASE i \in 1..Len(items)
        <3>1. i = 1 \/ i - 1 \in 1..Len(items)
            BY <1>1, <2>1
        <3>2. items'[i] = items[i] /\ (i # 1 => items'[i - 1] = items[i - 1])
            BY <1>2, <2>1, <3>1
        <3> QED  BY <1>4, <2>1, <3>2 DEF ItemsInv
    <2>2. CASE i = Len(items) + 1
        <3>1. items'[i] = it
            BY <1>2, <2>2
        <3>2. it.from = IF i = 1 THEN 0 ELSE items'[i - 1].to
            <4>1. CASE i = 1
                <5>1. items = <<>>
                    BY <1>1, <2>2, <4>1, EmptySeq DEF TypeOK
                <5> QED  BY <4>1, <5>1 DEF Delivered
            <4>2. CASE i # 1
                <5>1. Len(items) \in 1..Len(items) /\ i - 1 = Len(items)
                    BY <1>1, <2>2, <4>2
                <5>2. items # <<>>
                    BY <5>1, EmptySeq
                <5> QED  BY <1>2, <4>2, <5>1, <5>2 DEF Delivered
            <4> QED  BY <4>1, <4>2
        <3> QED  BY <1>1, <2>2, <3>1, <3>2
    <2> QED  BY <1>1, <1>2, <2>1, <2>2
<1>6. ItemsInv'
    BY <1>5 DEF ItemsInv
<1> QED  BY <1>2, <1>3, <1>6
-----------------------------------------------------------------------------
(* The steps.                                                               *)

\* Delivering whole lines, or the rest of the input, keeps the invariant.
LEMMA TakeDataKeeps ==
    ASSUME IInv, pc = "next", NEW n \in 1..Len(avail), TakeData(n),
           avail[n] = "n" \/ (n = Len(avail) /\ eof),
           eof => eof', eof' \in BOOLEAN, reader_done' \in BOOLEAN,
           eof' <=> reader_done', cap' \in 1..MaxBuffer, Len(avail) <= cap'
    PROVE  IInv'
<1> USE DEF IInv
<1> DEFINE s == SubSeq(avail, 1, n)
           t == SubSeq(avail, n + 1, Len(avail))
<1>1. /\ Len(avail) \in Nat /\ Len(src) \in Nat /\ Offset \in Nat
      /\ Offset + Len(avail) = Len(src) /\ Len(items) \in Nat
    BY Lengths
<1>2. \A i \in 1..Len(avail) : avail[i] \in Bytes
    BY ElementOfSeq DEF TypeOK
<1>3. s \in Seq(Bytes) /\ Len(s) = n /\ s[n] = avail[n]
    BY <1>1, <1>2, SubSeqProperties
<1>4. /\ t \in Seq(Bytes) /\ Len(t) = Len(avail) - n
      /\ \A i \in 1..(Len(avail) - n) : t[i] = avail[n + i]
    <2>1. \A i \in (n + 1)..Len(avail) : avail[i] \in Bytes
        BY <1>1, <1>2
    <2>2. /\ t \in Seq(Bytes)
          /\ Len(t) = IF n + 1 <= Len(avail) THEN Len(avail) - (n + 1) + 1 ELSE 0
          /\ \A i \in 1..(Len(avail) - (n + 1) + 1) : t[i] = avail[(n + 1) + i - 1]
        BY <1>1, <2>1, SubSeqProperties
    <2>3. \A i \in 1..(Len(avail) - n) :
              i \in 1..(Len(avail) - (n + 1) + 1) /\ (n + 1) + i - 1 = n + i
        BY <1>1
    <2> QED  BY <1>1, <2>2, <2>3
<1>5. /\ avail' = t /\ src' = src /\ pc' = "next"
      /\ next_line' = next_line + count_lines(s) /\ next_chunk_id' = next_chunk_id + 1
    BY DEF TakeData
<1> HIDE DEF s, t
<1>6. Offset' = Offset + n /\ Len(avail') = Len(avail) - n
    <2>1. Offset' = Len(src) - Len(t)
        BY <1>5 DEF Offset
    <2>2. Offset = Len(src) - Len(avail) /\ Len(t) = Len(avail) - n /\ n \in Nat
        BY <1>1, <1>4 DEF Offset
    <2>3. Len(src) - Len(t) = (Len(src) - Len(avail)) + n
        BY <1>1, <2>2
    <2> QED  BY <1>4, <1>5, <2>1, <2>2, <2>3
<1>7. Suffix'
    <2>1. ASSUME NEW i \in 1..Len(avail') PROVE avail'[i] = src'[Offset' + i]
        <3>1. n + i \in 1..Len(avail) /\ i \in 1..(Len(avail) - n)
            BY <1>1, <1>6
        <3>2. avail'[i] = src[Offset + (n + i)]
            BY <1>4, <1>5, <3>1 DEF Suffix
        <3> QED  BY <1>1, <1>5, <1>6, <3>2
    <2> QED  BY <1>1, <1>5, <1>6, <2>1 DEF Suffix
<1>8. src[Offset + n] = avail[n]
    BY DEF Suffix
<1>9. next_line = 1 + Cardinality(NewlinesUpTo(Offset))
    BY <1>1, EmptySeq DEF BetweenItems
<1>10. PICK it : it = [kind |-> "data", id |-> next_chunk_id, line |-> next_line,
                       from |-> Offset, to |-> Offset + n]
    OBVIOUS
<1>11. it \in ChunkItems
    BY <1>1, <1>10 DEF ChunkItems, TypeOK
<1>12. ItemOK(it)'
    <2>1. NewlinesUpTo(it.from)' = NewlinesUpTo(Offset)
        BY <1>5, <1>10 DEF NewlinesUpTo
    <2>2. it.line = 1 + Cardinality(NewlinesUpTo(it.from))'
        BY <1>9, <1>10, <2>1
    <2>3. it.from < it.to /\ it.to <= Len(src')
        BY <1>1, <1>5, <1>10
    <2>4. src'[it.to] = "n" \/ (it.to = Len(src') /\ reader_done')
        BY <1>1, <1>5, <1>8, <1>10
    <2>5. it.to - it.from <= MaxBuffer
        <3>1. cap \in Nat /\ cap <= MaxBuffer /\ Len(avail) <= cap /\ MaxBuffer \in Nat
            BY Lengths DEF TypeOK, MaxBuffer
        <3> QED  BY <1>1, <1>10, <3>1
    <2>6. it.kind = "data"
        BY <1>10
    <2> QED  BY <2>2, <2>3, <2>4, <2>5, <2>6 DEF ItemOK, MaxBuffer
<1>13. /\ items' = Append(items, it)
       /\ it.id = Len(items) /\ it.from = Delivered
    BY <1>10 DEF TakeData, BetweenItems
<1>14. /\ ItemsInv' /\ Delivered' = it.to
       /\ items' \in Seq(ChunkItems) /\ Len(items') = Len(items) + 1
    BY <1>5, <1>11, <1>12, <1>13, EmitKeepsItems
<1>16. Cardinality(Newlines(s)) \in Nat
    <2>1. IsFiniteSet(Newlines(s))
        <3>1. DOMAIN s = 1..n
            BY <1>3, LenProperties
        <3>2. IsFiniteSet(1..n) /\ Newlines(s) \subseteq 1..n
            BY <1>1, <3>1, FS_Interval DEF Newlines
        <3> QED  BY <3>2, FS_Subset
    <2> QED  BY <2>1, FS_CardinalityType
<1>15. count_lines(s) \in Nat
    BY <1>16 DEF count_lines
<1>17. TypeOK'
    <2>1. next_line' \in Nat \ {0} /\ next_chunk_id' \in Nat
        BY <1>5, <1>15 DEF TypeOK
    <2>2. Len(avail') <= cap'
        BY <1>1, <1>6 DEF MaxBuffer
    <2> QED
        BY <1>4, <1>5, <1>14, <2>1, <2>2 DEF TypeOK, TakeData, MaxBuffer
<1>18. BetweenItems'
    <2>1. Delivered' = Offset'
        BY <1>6, <1>10, <1>14
    <2>2. next_chunk_id' = Len(items')
        BY <1>5, <1>14 DEF BetweenItems
    <2>3. CASE avail[n] = "n"
        <3>1. s # <<>>
            BY <1>3, EmptySeq
        <3>2. count_lines(s) = Cardinality(Newlines(s)) + 0
            BY <1>3, <2>3, <3>1 DEF count_lines
        <3>3. Cardinality(NewlinesUpTo(Offset + n))
                = Cardinality(NewlinesUpTo(Offset)) + Cardinality(Newlines(s))
            BY CountNewlines DEF s
        <3>4. NewlinesUpTo(Offset)' = NewlinesUpTo(Offset + n)
            BY <1>5, <1>6 DEF NewlinesUpTo
        <3>5. Cardinality(NewlinesUpTo(Offset)) \in Nat
            BY <1>1, CountType
        <3>6. count_lines(s) = Cardinality(Newlines(s)) /\ Cardinality(Newlines(s)) \in Nat
            <4>1. Cardinality(Newlines(s)) \in Nat
                BY <1>16
            <4> QED  BY <3>2, <4>1
        <3>7. next_line' = 1 + Cardinality(NewlinesUpTo(Offset))'
            BY <1>5, <1>9, <3>3, <3>4, <3>5, <3>6
        <3> QED  BY <2>1, <2>2, <3>7 DEF BetweenItems
    <2>4. CASE n = Len(avail) /\ eof
        <3>1. avail' = <<>> /\ eof'
            BY <1>1, <1>4, <1>5, <1>6, <2>4, EmptySeq
        <3> QED  BY <2>1, <2>2, <3>1 DEF BetweenItems
    <2> QED  BY <2>3, <2>4
<1> QED  BY <1>5, <1>7, <1>14, <1>17, <1>18 DEF Draining, AtEnd

(* Nothing held is a newline.                                               *)
LEMMA NoneHeld ==
    ASSUME TypeOK, Suffix, ~HasLine
    PROVE  \A j \in (Offset + 1)..Len(src) : src[j] # "n"
<1>1. /\ Len(avail) \in Nat /\ Len(src) \in Nat /\ Offset \in Nat
      /\ Offset + Len(avail) = Len(src)
    BY Lengths
<1>2. DOMAIN avail = 1..Len(avail)
    BY LenProperties DEF TypeOK
<1>3. \A i \in 1..Len(avail) : avail[i] # "n"
    BY <1>2 DEF HasLine, Newlines
<1>4. ASSUME NEW j \in (Offset + 1)..Len(src) PROVE src[j] # "n"
    <2>1. j - Offset \in 1..Len(avail) /\ Offset + (j - Offset) = j
        BY <1>1
    <2>2. avail[j - Offset] = src[j]
        BY <2>1 DEF Suffix
    <2> QED  BY <1>3, <2>1, <2>2
<1> QED  BY <1>4

\* Reading, with the buffer compacted and grown, keeps the invariant.
LEMMA ReadMoreKeeps == IInv /\ ReadMore => IInv'
<1> SUFFICES ASSUME IInv, ReadMore PROVE IInv'
    OBVIOUS
<1> USE DEF IInv
<1>1. /\ Len(avail) \in Nat /\ Len(src) \in Nat /\ Offset \in Nat
      /\ Offset + Len(avail) = Len(src)
    BY Lengths
<1>2. ~Stuck /\ ~eof /\ ~reader_done /\ pc = "next" /\ cap' = Room
      /\ UNCHANGED <<pc, eof, next_chunk_id, next_line, draining, items, reader_done>>
    BY DEF ReadMore, WantsMore
<1>3. Room \in 1..MaxBuffer /\ Len(avail) < Room
    BY <1>2, RoomType
<1>4. PICK bytes \in Reads(Room - Len(avail)) :
        avail' = avail \o bytes /\ src' = src \o bytes
    BY DEF ReadMore
<1>5. bytes \in Seq(Bytes) /\ Len(bytes) \in 1..(Room - Len(avail)) /\ Len(bytes) \in Nat
    <2>1. Room - Len(avail) \in Int
        BY <1>1, <1>3
    <2> QED  BY <1>1, <2>1, ReadsType
<1>6. /\ ItemsInv'
      /\ src' \in Seq(Bytes) /\ Len(src') = Len(src) + Len(bytes)
      /\ \A j \in 1..Len(src) : src'[j] = src[j]
      /\ \A j \in 1..Len(bytes) : src'[Len(src) + j] = bytes[j]
      /\ \A k \in 0..Len(src) : NewlinesUpTo(k)' = NewlinesUpTo(k)
    BY <1>2, <1>4, <1>5, ReadKeepsItems
<1>7. /\ avail' \in Seq(Bytes) /\ Len(avail') = Len(avail) + Len(bytes)
      /\ \A i \in 1..(Len(avail) + Len(bytes)) :
             avail'[i] = IF i <= Len(avail) THEN avail[i] ELSE bytes[i - Len(avail)]
    BY <1>4, <1>5, ConcatProperties DEF TypeOK
<1>8. Offset' = Offset
    BY <1>1, <1>5, <1>6, <1>7 DEF Offset
<1>9. Suffix'
    <2>1. ASSUME NEW i \in 1..Len(avail') PROVE avail'[i] = src'[Offset + i]
        <3>1. CASE i <= Len(avail)
            <4>1. i \in 1..Len(avail) /\ Offset + i \in 1..Len(src)
                      /\ i \in 1..(Len(avail) + Len(bytes))
                BY <1>1, <1>5, <1>7, <3>1
            <4>2. avail'[i] = avail[i]
                BY <1>7, <3>1, <4>1
            <4> QED  BY <1>6, <4>1, <4>2 DEF Suffix
        <3>2. CASE i > Len(avail)
            <4>0. i \in Int /\ i <= Len(avail) + Len(bytes) /\ i >= 1
                BY <1>1, <1>5, <1>7
            <4>1. /\ i - Len(avail) \in 1..Len(bytes)
                  /\ i \in 1..(Len(avail) + Len(bytes))
                  /\ Len(src) + (i - Len(avail)) = Offset + i
                <5>1. i - Len(avail) \in 1..Len(bytes) /\ i \in 1..(Len(avail) + Len(bytes))
                    BY <1>1, <1>5, <3>2, <4>0
                <5>2. (Offset + Len(avail)) + (i - Len(avail)) = Offset + i
                    BY <1>1, <4>0
                <5> QED  BY <1>1, <5>1, <5>2
            <4>2. avail'[i] = bytes[i - Len(avail)]
                BY <1>1, <1>7, <3>2, <4>1
            <4>3. src'[Len(src) + (i - Len(avail))] = bytes[i - Len(avail)]
                BY <1>6, <4>1
            <4> QED  BY <4>1, <4>2, <4>3
        <3> QED  BY <1>1, <1>5, <1>7, <3>1, <3>2
    <2> QED  BY <1>1, <1>5, <1>6, <1>7, <1>8, <2>1 DEF Suffix
<1>10. TypeOK'
    BY <1>1, <1>2, <1>3, <1>5, <1>6, <1>7 DEF TypeOK, MaxBuffer
<1>11. BetweenItems'
    <2>1. Offset \in 0..Len(src)
        BY <1>1
    <2>2. NewlinesUpTo(Offset)' = NewlinesUpTo(Offset)
        <3>1. NewlinesUpTo(Offset)' = {j \in 1..Offset' : src'[j] = "n"}
            BY DEF NewlinesUpTo
        <3>2. {j \in 1..Offset : src'[j] = "n"} = NewlinesUpTo(Offset)
            BY <1>1, <1>6 DEF NewlinesUpTo
        <3> QED  BY <1>8, <3>1, <3>2
    <2> QED  BY <1>2, <1>8, <2>2 DEF BetweenItems, Delivered
<1> QED  BY <1>2, <1>6, <1>9, <1>10, <1>11 DEF Draining, AtEnd

(* Nothing is read, taken or dropped: only pc, eof and the capacity may      *)
(* change.                                                                   *)
LEMMA QuietKeeps ==
    ASSUME IInv,
           UNCHANGED <<avail, next_chunk_id, next_line, draining, src, items>>,
           pc' \in {"next", "drain", "end", "failed"},
           pc' \in {"next", "drain"} => pc' = pc,
           pc' = "end" => pc = "end" \/ (pc = "next" /\ avail = <<>>),
           eof' \in BOOLEAN, eof => eof', eof' <=> reader_done', reader_done' \in BOOLEAN,
           cap' \in 1..MaxBuffer, Len(avail) <= cap'
    PROVE  IInv'
<1> USE DEF IInv
<1>1. TypeOK'
    BY DEF TypeOK, MaxBuffer
<1>2. Suffix'
    BY DEF Suffix, Offset
<1>3. ItemsInv'
    BY DEF ItemsInv, ItemOK, NewlinesUpTo, RawLength
<1>4. BetweenItems'
    BY DEF BetweenItems, Delivered, Offset, NewlinesUpTo
<1>5. Draining'
    BY DEF Draining, Delivered, Offset, NewlinesUpTo
<1>6. AtEnd'
    <2>1. avail = <<>> => Offset = Len(src)
        <3>1. Len(src) \in Nat /\ Len(<<>>) = 0
            BY Lengths, EmptySeq
        <3> QED  BY <3>1 DEF Offset
    <2> QED  BY <2>1 DEF AtEnd, BetweenItems, Delivered
<1> QED  BY <1>1, <1>2, <1>3, <1>4, <1>5, <1>6

\* So does starting to drain a line that is too long,
LEMMA StartDrainKeeps == IInv /\ StartDrain => IInv'
<1> SUFFICES ASSUME IInv, StartDrain PROVE IInv'
    OBVIOUS
<1> USE DEF IInv
<1>1. /\ Len(avail) \in Nat /\ Len(src) \in Nat /\ Offset \in Nat
      /\ Offset + Len(avail) = Len(src)
    BY Lengths
<1>2. /\ pc = "next" /\ ~HasLine /\ Len(avail) > max_line_bytes
      /\ pc' = "drain"
      /\ draining' = [id |-> next_chunk_id, line |-> next_line, from |-> Offset]
      /\ next_chunk_id' = next_chunk_id + 1 /\ next_line' = next_line + 1
      /\ UNCHANGED <<avail, cap, eof, src, items, reader_done>>
    BY DEF StartDrain, TooLong
<1>3. TypeOK'
    BY <1>1, <1>2 DEF TypeOK
<1>4. Suffix' /\ ItemsInv'
    BY <1>2 DEF Suffix, Offset, ItemsInv, ItemOK, NewlinesUpTo, RawLength
<1>5. avail # <<>>
    BY <1>1, <1>2, EmptySeq, LimitsAssumption
<1>6. next_line = 1 + Cardinality(NewlinesUpTo(Offset))
    BY <1>2, <1>5 DEF BetweenItems
<1>7. Draining'
    <2>1. /\ draining'.from = Offset /\ draining'.id = next_chunk_id
          /\ draining'.line = next_line /\ Offset' = Offset
        BY <1>2 DEF Offset
    <2>2. Delivered' = draining'.from /\ draining'.id = Len(items')
              /\ next_chunk_id' = Len(items') + 1
        BY <1>2, <2>1 DEF BetweenItems, Delivered
    <2>3. draining'.line = 1 + Cardinality(NewlinesUpTo(draining.from))'
        <3>1. NewlinesUpTo(draining.from)' = NewlinesUpTo(Offset)
            BY <1>2, <2>1 DEF NewlinesUpTo
        <3> QED  BY <1>6, <2>1, <3>1
    <2>4. \A j \in (Offset + 1)..(Offset + max_line_bytes + 1) : src[j] # "n"
        <3>1. Offset + max_line_bytes + 1 <= Len(src)
            BY <1>1, <1>2, LimitsAssumption
        <3>2. \A j \in (Offset + 1)..(Offset + max_line_bytes + 1) :
                  j \in (Offset + 1)..Len(src)
            BY <1>1, <3>1, LimitsAssumption
        <3> QED  BY <1>2, <3>2, NoneHeld
    <2>5. Offset + max_line_bytes < Len(src')
        BY <1>1, <1>2, LimitsAssumption
    <2>6. draining'.from <= Offset' /\ \A j \in (draining'.from + 1)..Offset' : src'[j] # "n"
        BY <1>1, <2>1
    <2> QED  BY <1>2, <2>1, <2>2, <2>3, <2>4, <2>5, <2>6 DEF Draining
<1> QED  BY <1>2, <1>3, <1>4, <1>7 DEF BetweenItems, AtEnd

\* reading more of it,
LEMMA DrainReadKeeps == IInv /\ DrainRead => IInv'
<1> SUFFICES ASSUME IInv, DrainRead PROVE IInv'
    OBVIOUS
<1> USE DEF IInv
<1>1. /\ Len(avail) \in Nat /\ Len(src) \in Nat /\ Offset \in Nat
      /\ Offset + Len(avail) = Len(src)
    BY Lengths
<1>2. /\ pc = "drain" /\ ~HasLine /\ ~eof /\ ~reader_done
      /\ UNCHANGED <<pc, cap, eof, next_chunk_id, next_line, draining, items, reader_done>>
    BY DEF DrainRead
<1>3. PICK bytes \in Reads(cap) :
        /\ src' = src \o bytes
        /\ avail' = IF Len(bytes) > max_line_bytes /\ Newlines(bytes) = {}
                    THEN <<>> ELSE bytes
    BY DEF DrainRead
<1>4. bytes \in Seq(Bytes) /\ Len(bytes) \in 1..cap /\ Len(bytes) \in Nat /\ cap \in Nat
    <2>1. cap \in Int /\ cap \in Nat
        BY Lengths DEF TypeOK, MaxBuffer
    <2> QED  BY <1>1, <2>1, ReadsType
<1>5. /\ ItemsInv'
      /\ src' \in Seq(Bytes) /\ Len(src') = Len(src) + Len(bytes)
      /\ \A j \in 1..Len(src) : src'[j] = src[j]
      /\ \A j \in 1..Len(bytes) : src'[Len(src) + j] = bytes[j]
      /\ \A k \in 0..Len(src) : NewlinesUpTo(k)' = NewlinesUpTo(k)
    BY <1>2, <1>3, <1>4, ReadKeepsItems
<1>6. \/ avail' = bytes /\ Offset' = Len(src)
      \/ avail' = <<>> /\ Newlines(bytes) = {} /\ Offset' = Len(src) + Len(bytes)
    <2>1. CASE avail' = bytes
        <3>1. Offset' = (Len(src) + Len(bytes)) - Len(bytes)
            BY <1>5, <2>1 DEF Offset
        <3> QED  BY <1>1, <1>4, <2>1, <3>1
    <2>2. CASE avail' = <<>> /\ Newlines(bytes) = {}
        <3>1. Len(avail') = 0
            BY <2>2, EmptySeq
        <3>2. Offset' = (Len(src) + Len(bytes)) - 0
            BY <1>5, <3>1 DEF Offset
        <3> QED  BY <1>1, <1>4, <2>2, <3>2
    <2> QED  BY <1>3, <2>1, <2>2
<1>7. TypeOK'
    <2>1. avail' \in Seq(Bytes) /\ Len(avail') <= cap'
        <3>1. <<>> \in Seq(Bytes) /\ Len(<<>>) = 0
            BY EmptySeq
        <3>2. CASE avail' = bytes
            BY <1>2, <1>4, <3>2
        <3>3. CASE avail' = <<>>
            BY <1>2, <1>4, <3>1, <3>3
        <3> QED  BY <1>6, <3>2, <3>3
    <2> QED  BY <1>2, <1>5, <2>1 DEF TypeOK
<1>8. Suffix'
    <2>1. CASE avail' = bytes /\ Offset' = Len(src)
        BY <1>1, <1>4, <1>5, <2>1 DEF Suffix
    <2>2. CASE avail' = <<>>
        BY <1>1, <1>4, <1>5, <2>2, EmptySeq DEF Suffix
    <2> QED  BY <1>6, <2>1, <2>2
<1>9. Draining'
    <2> DEFINE from == draining.from
    <2>1. from \in Nat /\ from <= Offset /\ from + max_line_bytes < Len(src)
        BY <1>2 DEF Draining, TypeOK
    <2>2. \A j \in (from + 1)..Len(src) : src'[j] # "n"
        <3> SUFFICES ASSUME NEW j \in (from + 1)..Len(src) PROVE src'[j] # "n"
            OBVIOUS
        <3>1. j \in 1..Len(src)
            BY <1>1, <2>1
        <3>2. j \in (from + 1)..Offset \/ j \in (Offset + 1)..Len(src)
            BY <1>1, <2>1
        <3>3. src[j] # "n"
            BY <1>2, <3>2, NoneHeld DEF Draining
        <3> QED  BY <1>5, <3>1, <3>3
    <2>3. \A j \in (from + 1)..Offset' : src'[j] # "n"
        <3>1. CASE Newlines(bytes) = {} /\ Offset' = Len(src) + Len(bytes)
            <4> SUFFICES ASSUME NEW j \in (from + 1)..Offset' PROVE src'[j] # "n"
                OBVIOUS
            <4>1. CASE j <= Len(src)
                BY <1>1, <2>1, <2>2, <4>1
            <4>2. CASE j > Len(src)
                <5>1. j - Len(src) \in 1..Len(bytes) /\ Len(src) + (j - Len(src)) = j
                    BY <1>1, <1>4, <2>1, <3>1, <4>2
                <5>2. DOMAIN bytes = 1..Len(bytes)
                    BY <1>4, LenProperties
                <5>3. bytes[j - Len(src)] # "n"
                    BY <3>1, <5>1, <5>2 DEF Newlines
                <5>4. src'[Len(src) + (j - Len(src))] = bytes[j - Len(src)]
                    BY <1>5, <5>1
                <5> QED  BY <5>1, <5>3, <5>4
            <4> QED  BY <1>1, <2>1, <4>1, <4>2, <3>1, <1>4
        <3>2. CASE Offset' = Len(src)
            BY <2>2, <3>2
        <3> QED  BY <1>6, <3>1, <3>2
    <2>4. \A j \in (from + 1)..(from + max_line_bytes + 1) : src'[j] # "n"
        <3>1. \A j \in (from + 1)..(from + max_line_bytes + 1) : j \in (from + 1)..Len(src)
            BY <1>1, <2>1, LimitsAssumption
        <3> QED  BY <2>2, <3>1
    <2>5. NewlinesUpTo(draining.from)' = NewlinesUpTo(draining.from)
        <3>1. NewlinesUpTo(draining.from)' = {j \in 1..draining.from : src'[j] = "n"}
            BY <1>2 DEF NewlinesUpTo
        <3>2. \A j \in 1..draining.from : j \in 1..Len(src)
            BY <1>1, <2>1
        <3> QED  BY <1>5, <3>1, <3>2 DEF NewlinesUpTo
    <2>6. from <= Offset' /\ from + max_line_bytes < Len(src')
        <3>1. Len(src) <= Len(src')
            BY <1>1, <1>4, <1>5
        <3>2. Len(src) <= Offset' /\ Offset' \in Nat
            BY <1>1, <1>4, <1>6
        <3> QED  BY <1>1, <1>4, <1>5, <2>1, <3>1, <3>2, LimitsAssumption
    <2>7. Delivered' = Delivered
        BY <1>2 DEF Delivered
    <2> QED  BY <1>2, <2>3, <2>4, <2>5, <2>6, <2>7 DEF Draining
<1> QED  BY <1>2, <1>5, <1>7, <1>8, <1>9 DEF BetweenItems, AtEnd

(* The drained line ends at `end`: it is one line, and too long.            *)
LEMMA DrainEmits ==
    ASSUME IInv, pc = "drain", NEW end \in Nat, EmitLineTooLarge(end),
           draining.from < end, end <= Len(src),
           \A j \in (Offset + 1)..(end - 1) : src[j] # "n",
           src[end] = "n" \/ (end = Len(src) /\ reader_done'),
           reader_done => reader_done'
    PROVE  /\ ItemsInv' /\ Delivered' = end
           /\ items' \in Seq(ChunkItems) /\ Len(items') = Len(items) + 1
           /\ src[end] = "n" =>
                Cardinality(NewlinesUpTo(end)) = Cardinality(NewlinesUpTo(draining.from)) + 1
<1> USE DEF IInv
<1> DEFINE from == draining.from
<1>1. /\ Len(avail) \in Nat /\ Len(src) \in Nat /\ Offset \in Nat
      /\ Offset + Len(avail) = Len(src) /\ max_line_bytes \in Nat
    BY Lengths, LimitsAssumption
<1>2. from \in Nat /\ draining.id \in Nat /\ draining.line \in Nat
    BY DEF TypeOK
<1>3. PICK it : it = [kind |-> "large", id |-> draining.id, line |-> draining.line,
                      from |-> draining.from, to |-> end]
    OBVIOUS
<1>4. it \in ChunkItems
    BY <1>2, <1>3 DEF ChunkItems
<1>5. \A j \in (from + 1)..(end - 1) : src[j] # "n"
    <2> SUFFICES ASSUME NEW j \in (from + 1)..(end - 1) PROVE src[j] # "n"
        OBVIOUS
    <2>1. j \in (from + 1)..Offset \/ j \in (Offset + 1)..(end - 1)
        BY <1>1, <1>2
    <2> QED  BY <2>1 DEF Draining
<1>6. src' = src
    BY DEF EmitLineTooLarge
<1>7. ItemOK(it)'
    <2>1. NewlinesUpTo(it.from)' = NewlinesUpTo(from)
        BY <1>3, <1>6 DEF NewlinesUpTo
    <2>2. it.line = 1 + Cardinality(NewlinesUpTo(it.from))'
        BY <1>3, <2>1 DEF Draining
    <2>3. end - from - (IF src[end] = "n" THEN 1 ELSE 0) > max_line_bytes
        <3>1. CASE src[end] = "n"
            <4>1. end \notin (from + 1)..(from + max_line_bytes + 1)
                BY <3>1 DEF Draining
            <4>2. end > from + max_line_bytes + 1
                BY <1>1, <1>2, <4>1
            <4> QED  BY <1>1, <1>2, <3>1, <4>2
        <3>2. CASE src[end] # "n"
            <4>1. end = Len(src) /\ from + max_line_bytes < Len(src)
                BY <3>2 DEF Draining
            <4> QED  BY <1>1, <1>2, <3>2, <4>1
        <3> QED  BY <3>1, <3>2
    <2>4. RawLength(it)' > max_line_bytes
        BY <1>3, <1>6, <2>3 DEF RawLength
    <2>5. \A j \in (it.from + 1)..(it.to - 1) : src'[j] # "n"
        BY <1>3, <1>5, <1>6
    <2> QED  BY <1>3, <1>6, <2>2, <2>4, <2>5 DEF ItemOK
<1>8. items' = Append(items, it) /\ it.id = Len(items) /\ it.from = Delivered
    BY <1>3 DEF EmitLineTooLarge, Draining
<1>9. /\ ItemsInv' /\ Delivered' = end
      /\ items' \in Seq(ChunkItems) /\ Len(items') = Len(items) + 1
    <2>1. /\ ItemsInv' /\ Delivered' = it.to
          /\ items' \in Seq(ChunkItems) /\ Len(items') = Len(items) + 1
        BY <1>4, <1>6, <1>7, <1>8, EmitKeepsItems
    <2> QED  BY <1>3, <2>1
<1>10. ASSUME src[end] = "n"
       PROVE  Cardinality(NewlinesUpTo(end)) = Cardinality(NewlinesUpTo(from)) + 1
    <2>1. PICK old : old = NewlinesUpTo(from)
        OBVIOUS
    <2>2. NewlinesUpTo(end) = old \union {end} /\ end \notin old
        <3>1. ASSUME NEW j \in 1..end, src[j] = "n" PROVE j \in 1..from \/ j = end
            BY <1>1, <1>2, <1>5, <3>1
        <3>2. \A j \in 1..from : j \in 1..end
            BY <1>1, <1>2
        <3>3. end \in 1..end /\ end \notin 1..from
            BY <1>1, <1>2
        <3>4. \A j \in 1..end : src[j] = "n" => j \in 1..from \/ j = end
            BY <3>1
        <3>5. \A j : j \in NewlinesUpTo(end) <=> j \in old \/ j = end
            BY <1>10, <2>1, <3>2, <3>3, <3>4, Zenon DEF NewlinesUpTo
        <3>6. end \notin old
            BY <2>1, <3>3, Zenon DEF NewlinesUpTo
        <3> QED  BY <3>5, <3>6
    <2>3. IsFiniteSet(old)
        BY <1>2, <2>1, CountType
    <2>4. Cardinality(old \union {end}) = Cardinality(old) + 1
        BY <2>2, <2>3, FS_AddElement
    <2>5. Cardinality(NewlinesUpTo(end)) = Cardinality(old \union {end})
        BY <2>2, Zenon
    <2> QED  BY <2>1, <2>4, <2>5
<1> QED  BY <1>9, <1>10

\* and finding its newline.
LEMMA DrainToNewlineKeeps == IInv /\ DrainToNewline => IInv'
<1> SUFFICES ASSUME IInv, DrainToNewline PROVE IInv'
    OBVIOUS
<1> USE DEF IInv
<1>1. /\ Len(avail) \in Nat /\ Len(src) \in Nat /\ Offset \in Nat
      /\ Offset + Len(avail) = Len(src)
    BY Lengths
<1>2. PICK n : n = Min(Newlines(avail))
    OBVIOUS
<1>3. /\ pc = "drain" /\ Newlines(avail) # {}
      /\ EmitLineTooLarge(Offset + n)
      /\ avail' = SubSeq(avail, n + 1, Len(avail))
      /\ UNCHANGED <<eof, reader_done>>
    BY <1>2 DEF DrainToNewline, HasLine
<1>4. n \in 1..Len(avail) /\ avail[n] = "n" /\ \A j \in 1..(n - 1) : avail[j] # "n"
    BY <1>2, <1>3, FirstNewline DEF TypeOK
<1>5. PICK end \in Nat : end = Offset + n
    BY <1>1, <1>4
<1>6. src[end] = "n"
    BY <1>4, <1>5 DEF Suffix
<1>7. \A j \in (Offset + 1)..(end - 1) : src[j] # "n"
    <2> SUFFICES ASSUME NEW j \in (Offset + 1)..(end - 1) PROVE src[j] # "n"
        OBVIOUS
    <2>1. /\ j - Offset \in 1..(n - 1) /\ j - Offset \in 1..Len(avail)
          /\ Offset + (j - Offset) = j
        BY <1>1, <1>4, <1>5
    <2>2. avail[j - Offset] = src[j]
        BY <2>1 DEF Suffix
    <2> QED  BY <1>4, <2>1, <2>2
<1>8. draining.from < end /\ end <= Len(src) /\ draining.from \in Nat
    BY <1>1, <1>3, <1>4, <1>5 DEF Draining, TypeOK
<1>9. EmitLineTooLarge(end) /\ reader_done' = reader_done
    BY <1>3, <1>5
<1>10. /\ ItemsInv' /\ Delivered' = end
       /\ items' \in Seq(ChunkItems) /\ Len(items') = Len(items) + 1
       /\ Cardinality(NewlinesUpTo(end)) = Cardinality(NewlinesUpTo(draining.from)) + 1
    BY <1>3, <1>6, <1>7, <1>8, <1>9, DrainEmits
<1>11. /\ pc' = "next"
       /\ UNCHANGED <<cap, next_chunk_id, next_line, draining, src>>
    BY <1>3 DEF EmitLineTooLarge
<1>12. /\ avail' \in Seq(Bytes) /\ Len(avail') = Len(avail) - n
       /\ \A i \in 1..(Len(avail) - n) : avail'[i] = avail[n + i]
    <2>1. \A i \in (n + 1)..Len(avail) : avail[i] \in Bytes
        BY <1>1, <1>4, ElementOfSeq DEF TypeOK
    <2>2. /\ avail' \in Seq(Bytes)
          /\ Len(avail') = IF n + 1 <= Len(avail) THEN Len(avail) - (n + 1) + 1 ELSE 0
          /\ \A i \in 1..(Len(avail) - (n + 1) + 1) : avail'[i] = avail[(n + 1) + i - 1]
        BY <1>1, <1>3, <1>4, <2>1, SubSeqProperties
    <2>3. \A i \in 1..(Len(avail) - n) :
              i \in 1..(Len(avail) - (n + 1) + 1) /\ (n + 1) + i - 1 = n + i
        BY <1>1, <1>4
    <2> QED  BY <1>1, <1>4, <2>2, <2>3
<1>13. Offset' = end
    <2>1. Offset' = Len(src) - Len(avail')
        BY <1>11 DEF Offset
    <2>2. Len(src) - (Len(avail) - n) = Offset + n
        <3>1. Offset = Len(src) - Len(avail)
            BY DEF Offset
        <3> QED  BY <1>1, <1>4, <3>1
    <2> QED  BY <1>5, <1>12, <2>1, <2>2
<1>14. Suffix'
    <2>1. ASSUME NEW i \in 1..Len(avail') PROVE avail'[i] = src'[Offset' + i]
        <3>1. n + i \in 1..Len(avail) /\ i \in 1..(Len(avail) - n)
            BY <1>1, <1>4, <1>12
        <3>2. avail'[i] = src[Offset + (n + i)]
            BY <1>12, <3>1 DEF Suffix
        <3> QED  BY <1>1, <1>4, <1>5, <1>11, <1>13, <3>1, <3>2
    <2> QED  BY <1>1, <1>4, <1>11, <1>12, <2>1 DEF Suffix
<1>15. TypeOK'
    <2>1. Len(avail') <= cap'
        <3>1. cap \in Nat /\ Len(avail) <= cap
            BY Lengths DEF TypeOK, MaxBuffer
        <3> QED  BY <1>1, <1>4, <1>11, <1>12, <3>1
    <2> QED  BY <1>3, <1>10, <1>11, <1>12, <2>1 DEF TypeOK
<1>16. BetweenItems'
    <2>1. NewlinesUpTo(Offset)' = NewlinesUpTo(end)
        BY <1>11, <1>13 DEF NewlinesUpTo
    <2>2. Cardinality(NewlinesUpTo(draining.from)) \in Nat
        BY <1>8, CountType
    <2>3. next_line' = 1 + Cardinality(NewlinesUpTo(Offset))'
        BY <1>3, <1>10, <1>11, <2>1, <2>2 DEF Draining
    <2>4. next_chunk_id' = Len(items')
        BY <1>3, <1>10, <1>11 DEF Draining
    <2> QED  BY <1>10, <1>13, <2>3, <2>4 DEF BetweenItems
<1> QED  BY <1>3, <1>10, <1>11, <1>14, <1>15, <1>16 DEF Draining, AtEnd

(* The drained line ends with the input.                                    *)
LEMMA DrainEndKeeps ==
    ASSUME IInv, pc = "drain", ~HasLine, EmitLineTooLarge(Len(src)), avail' = <<>>,
           eof' = TRUE, reader_done' = TRUE
    PROVE  IInv'
<1> USE DEF IInv
<1>1. /\ Len(avail) \in Nat /\ Len(src) \in Nat /\ Offset \in Nat
      /\ Offset + Len(avail) = Len(src)
    BY Lengths
<1>2. draining.from < Len(src)
    BY <1>1, LimitsAssumption DEF Draining, TypeOK
<1>3. \A j \in (Offset + 1)..(Len(src) - 1) : src[j] # "n"
    BY <1>1, NoneHeld
<1>4. /\ ItemsInv' /\ Delivered' = Len(src)
      /\ items' \in Seq(ChunkItems) /\ Len(items') = Len(items) + 1
    BY <1>1, <1>2, <1>3, DrainEmits
<1>5. pc' = "next" /\ UNCHANGED <<cap, next_chunk_id, next_line, draining, src>>
    BY DEF EmitLineTooLarge
<1>6. avail' \in Seq(Bytes) /\ Len(avail') = 0
    BY EmptySeq
<1>7. Offset' = Len(src)
    BY <1>1, <1>5, <1>6 DEF Offset
<1>8. TypeOK'
    <2>1. Len(avail') <= cap'
        BY <1>5, <1>6, Lengths DEF TypeOK, MaxBuffer
    <2> QED  BY <1>4, <1>5, <1>6, <2>1 DEF TypeOK
<1>9. Suffix'
    BY <1>1, <1>5, <1>6 DEF Suffix
<1>10. BetweenItems'
    BY <1>4, <1>5, <1>7 DEF BetweenItems, Draining
<1> QED  BY <1>4, <1>5, <1>8, <1>9, <1>10 DEF Draining, AtEnd

-----------------------------------------------------------------------------
\* The invariant holds before the first read.
LEMMA InitHolds == Init => IInv
<1> SUFFICES ASSUME Init PROVE IInv
    OBVIOUS
<1> USE DEF Init
<1>1. <<>> \in Seq(Bytes) /\ <<>> \in Seq(ChunkItems) /\ Len(<<>>) = 0
    BY EmptySeq
<1>2. target \in 1..max_line_bytes
    BY LimitsAssumption DEF target, Smaller
<1>3. TypeOK
    <2>1. cap \in 1..(max_line_bytes + Slack) /\ Len(avail) <= cap
        BY <1>1, <1>2, LimitsAssumption
    <2>2. draining \in [id : Nat, line : Nat, from : Nat]
        OBVIOUS
    <2>3. /\ pc \in {"next", "drain", "end", "failed"}
          /\ next_chunk_id \in Nat /\ next_line \in Nat \ {0}
        OBVIOUS
    <2>4. eof \in BOOLEAN /\ reader_done \in BOOLEAN
        BY Zenon
    <2>5. avail \in Seq(Bytes) /\ src \in Seq(Bytes) /\ items \in Seq(ChunkItems)
        BY <1>1, Zenon
    <2> HIDE DEF Init
    <2> QED  BY <2>1, <2>2, <2>3, <2>4, <2>5 DEF TypeOK
<1>4. Offset = 0 /\ Suffix
    BY <1>1 DEF Offset, Suffix
<1>5. NewlinesUpTo(0) = {}
    BY DEF NewlinesUpTo
<1>6. Cardinality(NewlinesUpTo(Offset)) = 0
    BY <1>4, <1>5, FS_EmptySet
<1>7. BetweenItems
    BY <1>1, <1>4, <1>6 DEF BetweenItems, Delivered
<1> QED  BY <1>1, <1>3, <1>4, <1>7 DEF IInv, ItemsInv, Draining, AtEnd

\* Every turn keeps the invariant.
LEMMA StepKeeps == IInv /\ [Next]_vars => IInv'
<1> SUFFICES ASSUME IInv, [Next]_vars PROVE IInv'
    OBVIOUS
<1>0. /\ TypeOK /\ Suffix /\ (eof <=> reader_done) /\ eof \in BOOLEAN
      /\ cap \in 1..MaxBuffer /\ Len(avail) <= cap /\ Len(avail) \in Nat
      /\ reader_done \in BOOLEAN /\ pc \in {"next", "drain", "end", "failed"}
    BY Lengths DEF IInv, TypeOK, MaxBuffer
<1>1. ASSUME HasLine
      PROVE  CompleteLen \in 1..Len(avail) /\ avail[CompleteLen] = "n"
    BY <1>0, <1>1, LastNewline DEF HasLine, CompleteLen, TypeOK
<1>2. ASSUME ~Stuck
      PROVE  Room \in 1..MaxBuffer /\ Len(avail) <= Room
    BY <1>0, <1>2, RoomType DEF MaxBuffer
<1>a. CASE TakeComplete \/ TakeWhenStuck
    <2>1. /\ pc = "next" /\ HasLine /\ TakeData(CompleteLen)
          /\ UNCHANGED <<cap, eof, reader_done>>
        BY <1>a DEF TakeComplete, TakeWhenStuck, WantsMore
    <2> QED  BY <1>0, <1>1, <2>1, TakeDataKeeps
<1>b. CASE ReadMore
    BY <1>b, ReadMoreKeeps
<1>c. CASE ReadEndWithLines
    <2>1. /\ pc = "next" /\ HasLine /\ ~Stuck /\ TakeData(CompleteLen)
          /\ eof' = TRUE /\ reader_done' = TRUE /\ cap' = Room
        BY <1>c DEF ReadEndWithLines, WantsMore
    <2> QED  BY <1>1, <1>2, <2>1, TakeDataKeeps
<1>d. CASE ReadEndNoLine
    <2>1. /\ pc = "next" /\ ~TooLong /\ eof' = TRUE /\ reader_done' = ~Stuck
          /\ cap' = IF Stuck THEN cap ELSE Room
          /\ UNCHANGED <<pc, avail, next_chunk_id, next_line, draining, src, items>>
        BY <1>d DEF ReadEndNoLine, WantsMore
    <2>2. ~Stuck
        BY <1>0, <2>1, StuckIsTooLong
    <2> QED  BY <1>2, <2>1, <2>2, QuietKeeps
<1>e. CASE ReadFails
    <2>1. /\ pc = "next" /\ ~Stuck /\ pc' = "failed" /\ cap' = Room
          /\ UNCHANGED <<avail, eof, next_chunk_id, next_line, draining, src, items,
                         reader_done>>
        BY <1>e DEF ReadFails, WantsMore
    <2> QED  BY <1>0, <1>2, <2>1, QuietKeeps
<1>f. CASE TakeTail
    <2>1. /\ pc = "next" /\ eof /\ avail # <<>> /\ TakeData(Len(avail))
          /\ UNCHANGED <<cap, eof, reader_done>>
        BY <1>f DEF TakeTail
    <2>2. Len(avail) \in 1..Len(avail)
        BY <1>0, <2>1, EmptySeq DEF TypeOK
    <2> QED  BY <1>0, <2>1, <2>2, TakeDataKeeps
<1>g. CASE ReturnNone
    <2>1. /\ pc = "next" /\ avail = <<>> /\ pc' = "end"
          /\ UNCHANGED <<avail, cap, eof, next_chunk_id, next_line, draining, src,
                         items, reader_done>>
        BY <1>g DEF ReturnNone
    <2> QED  BY <1>0, <2>1, QuietKeeps
<1>h. CASE StartDrain
    BY <1>h, StartDrainKeeps
<1>i. CASE DrainToNewline
    BY <1>i, DrainToNewlineKeeps
<1>j. CASE DrainAtEof
    BY <1>0, <1>j, DrainEndKeeps DEF DrainAtEof
<1>k. CASE DrainRead
    BY <1>k, DrainReadKeeps
<1>l. CASE DrainReadEnd
    BY <1>l, DrainEndKeeps DEF DrainReadEnd
<1>m. CASE DrainFails
    <2>1. /\ pc = "drain" /\ pc' = "failed" /\ avail' = <<>>
          /\ UNCHANGED <<cap, eof, next_chunk_id, next_line, draining, src, items,
                         reader_done>>
        BY <1>m DEF DrainFails
    <2>2. <<>> \in Seq(Bytes) /\ Len(<<>>) = 0
        BY EmptySeq
    <2>3. TypeOK'
        BY <1>0, <2>1, <2>2 DEF TypeOK
    <2>4. Suffix'
        BY <1>0, <2>1, <2>2, Lengths DEF Suffix
    <2>5. ItemsInv'
        BY <2>1 DEF IInv, ItemsInv, ItemOK, NewlinesUpTo, RawLength
    <2> QED  BY <1>0, <2>1, <2>3, <2>4, <2>5 DEF IInv, BetweenItems, Draining, AtEnd
<1>n. CASE Returned \/ UNCHANGED vars
    <2>1. UNCHANGED vars
        BY <1>n DEF Returned
    <2> QED  BY <1>0, <2>1, QuietKeeps DEF vars, TypeOK
<1> QED
    BY <1>a, <1>b, <1>c, <1>d, <1>e, <1>f, <1>g, <1>h, <1>i, <1>j, <1>k, <1>l,
       <1>m, <1>n DEF Next, Step

\* The invariant holds throughout.
LEMMA Invariance == Spec => []IInv
<1> QED  BY InitHolds, StepKeeps, PTL DEF Spec

(* The chunker is type-correct for any limits and any input; in particular   *)
(* the buffer never outgrows max_line_bytes and its slack.                   *)
THEOREM ChunkerTyping == Spec => []TypeOK
<1>1. IInv => TypeOK
    BY DEF IInv
<1> QED  BY Invariance, <1>1, PTL

(* A full buffer is never mistaken for the end of the input.                 *)
THEOREM EofIsTrue == Spec => []NoFalseEof
<1>1. IInv => NoFalseEof
    BY DEF IInv, NoFalseEof
<1> QED  BY Invariance, <1>1, PTL

(* Every byte is delivered once and in order, for any way the reads cut the  *)
(* input.                                                                    *)
THEOREM BytesAreKept == Spec => []EveryByteOnce
<1>1. IInv => EveryByteOnce
    BY DEF IInv, EveryByteOnce, ItemsInv, ItemOK, BetweenItems, AtEnd
<1> QED  BY Invariance, <1>1, PTL

(* No line is cut, and what is drained is one line.                          *)
THEOREM LinesAreKept == Spec => []LinesKeptWhole
<1>1. IInv => LinesKeptWhole
    BY DEF IInv, LinesKeptWhole, ItemsInv, ItemOK
<1> QED  BY Invariance, <1>1, PTL

(* The number an item carries is that of its first line in the input.        *)
THEOREM NumbersAreRight == Spec => []LineNumbersRight
<1>1. IInv => LineNumbersRight
    BY DEF IInv, LineNumbersRight, ItemsInv, ItemOK, NewlinesUpTo
<1> QED  BY Invariance, <1>1, PTL

(* What is drained is longer than the limit, what is kept fits the buffer.   *)
THEOREM OnlyLongDrained == Spec => []OnlyLongLinesDrained
<1>1. ASSUME IInv PROVE OnlyLongLinesDrained
    <2>1. ASSUME NEW i \in 1..Len(items)
          PROVE  LET it == items[i] IN
                 IF it.kind = "large" THEN RawLength(it) > max_line_bytes
                 ELSE \A j \in it.from..(it.to - (max_line_bytes + Slack) - 1) :
                        \E k \in 1..(max_line_bytes + Slack) : src[j + k] = "n"
        <3>1. items[i] \in ChunkItems
            BY <1>1, ElementOfSeq DEF IInv, TypeOK
        <3>2. items[i].from \in Nat /\ items[i].to \in Nat
                /\ items[i].kind \in {"data", "large"}
            BY <3>1 DEF ChunkItems
        <3>3. ItemOK(items[i])
            BY <1>1 DEF IInv, ItemsInv
        <3>4. CASE items[i].kind = "large"
            BY <3>3, <3>4 DEF ItemOK
        <3>5. CASE items[i].kind = "data"
            <4>1. items[i].from > items[i].to - MaxBuffer - 1
                BY <3>2, <3>3, <3>5, LimitsAssumption DEF ItemOK, MaxBuffer
            <4> QED  BY <3>2, <3>5, <4>1, LimitsAssumption DEF MaxBuffer
        <3> QED  BY <3>2, <3>4, <3>5
    <2> QED  BY <2>1 DEF OnlyLongLinesDrained
<1> QED  BY Invariance, <1>1, PTL
=============================================================================
