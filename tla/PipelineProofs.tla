--------------------------- MODULE PipelineProofs ---------------------------
(***************************************************************************)
(* Theorems about run_pipeline_mt for every number of threads, every input *)
(* and both error modes: types, the accounting contract, the channel that  *)
(* never fills, the loop that leaves nothing behind, the order of the      *)
(* alerts, the error samples, and the refinement of OrderedSink.           *)
(***************************************************************************)
EXTENDS PipelineRefinement, Integers, FiniteSetTheorems, SequenceTheorems, TLAPS

-----------------------------------------------------------------------------
(* Lines and chunks, for either loop: what a line and a merge do to the     *)
(* trust counters, and what a chunk has counted and found after so many     *)
(* lines.  CliProofs has the same lemmas: the two loops have variables      *)
(* of the same names, and no module can extend both.                        *)

(* What a line adds is balanced: process_data_chunk neither loses nor       *)
(* double-counts an event, whichever branch the line takes.                *)
LEMMA LineTrustBalance ==
    ASSUME NEW kind \in Kinds
    PROVE  LineTrust(kind) \in Metrics /\ Balanced(LineTrust(kind))
<1>1. LineTrust(kind) \in Metrics
    BY DEF LineTrust, Metrics
<1>2. Balanced(LineTrust(kind))
    BY DEF LineTrust, Balanced, ErrorTotal, Kinds, Failing
<1> QED  BY <1>1, <1>2

(* Merging a chunk's counters into the run's (merge_into) keeps both.      *)
LEMMA MergeBalance ==
    ASSUME NEW t \in Metrics, NEW s \in Metrics
    PROVE  /\ MergeInto(t, s) \in Metrics
           /\ Balanced(t) /\ Balanced(s) => Balanced(MergeInto(t, s))
BY DEF MergeInto, Metrics, Balanced, ErrorTotal

(* So does the charge for a failed read.                                   *)
LEMMA IoErrorBalance == IoErrorTrust \in Metrics /\ Balanced(IoErrorTrust)
BY DEF IoErrorTrust, Metrics, Balanced, ErrorTotal

\* Counters start balanced.
LEMMA ZeroBalance == ZeroMetrics \in Metrics /\ Balanced(ZeroMetrics)
BY DEF ZeroMetrics, Metrics, Balanced, ErrorTotal

(* A chunk whose next line is due to be processed.                         *)
LEMMA ProcessLineType ==
    ASSUME NEW item \in Items, NEW r \in ChunkResult, NEW mode,
           ~ChunkDone(r, item)
    PROVE  /\ item.lines[r.next] \in Kinds
           /\ LineNumber(r, item) \in Nat
           /\ ProcessLine(r, item, mode) \in ChunkResult
           /\ Balanced(r.trust) => Balanced(ProcessLine(r, item, mode).trust)
<1> DEFINE kind == item.lines[r.next]
<1>1. kind \in Kinds
    BY DEF Items, ChunkResult, ChunkDone
<1>2. LineNumber(r, item) \in Nat
    BY DEF Items, ChunkResult, LineNumber
<1>3. r.trust \in Metrics
    BY DEF ChunkResult
<1>4. /\ MergeInto(LineTrust(kind), r.trust) \in Metrics
      /\ Balanced(r.trust) => Balanced(MergeInto(LineTrust(kind), r.trust))
    BY <1>1, <1>3, LineTrustBalance, MergeBalance
<1> QED  BY <1>1, <1>2, <1>4 DEF ProcessLine, ChunkResult

-----------------------------------------------------------------------------
(* Sequences of line numbers.                                              *)

Elements(s) == {s[i] : i \in 1..Len(s)}

Increasing(s) == \A i, j \in 1..Len(s) : i < j => s[i] < s[j]

Within(s, lo, hi) == \A i \in 1..Len(s) : lo <= s[i] /\ s[i] < hi

\* Appending adds one element, and repeats none if it is new.
LEMMA ElementsAppend ==
    ASSUME NEW S, NEW s \in Seq(S), NEW x \in S
    PROVE  /\ Append(s, x) \in Seq(S)
           /\ Len(Append(s, x)) = Len(s) + 1
           /\ Elements(Append(s, x)) = Elements(s) \union {x}
           /\ (\A i, j \in 1..Len(s) : i # j => s[i] # s[j]) /\ x \notin Elements(s)
                 => \A i, j \in 1..Len(Append(s, x)) :
                       i # j => Append(s, x)[i] # Append(s, x)[j]
BY AppendProperties DEF Elements

\* A line found next lies behind those found before.
LEMMA IncreasingAppend ==
    ASSUME NEW s \in Seq(Nat), NEW lo \in Nat, NEW hi \in Nat, lo <= hi,
           Increasing(s), Within(s, lo, hi)
    PROVE  Increasing(Append(s, hi)) /\ Within(Append(s, hi), lo, hi + 1)
<1>1. /\ Len(Append(s, hi)) = Len(s) + 1
      /\ \A i \in 1..Len(s) : Append(s, hi)[i] = s[i]
      /\ Append(s, hi)[Len(s) + 1] = hi
    BY AppendProperties
<1>2. \A i \in 1..Len(s) : s[i] \in Nat /\ lo <= s[i] /\ s[i] < hi
    BY DEF Within
<1>3. Len(s) \in Nat
    OBVIOUS
<1>4. ASSUME NEW i \in 1..(Len(s) + 1), NEW j \in 1..(Len(s) + 1), i < j
      PROVE  Append(s, hi)[i] < Append(s, hi)[j]
  <2>1. i \in 1..Len(s)
    BY <1>3, <1>4
  <2>2. CASE j = Len(s) + 1
    BY <1>1, <1>2, <2>1, <2>2
  <2>3. CASE j # Len(s) + 1
    <3>1. j \in 1..Len(s)
      BY <1>3, <2>3
    <3>2. s[i] < s[j]
      BY <1>4, <2>1, <3>1 DEF Increasing
    <3> QED  BY <1>1, <2>1, <3>1, <3>2
  <2> QED  BY <2>2, <2>3
<1>5. ASSUME NEW i \in 1..(Len(s) + 1)
      PROVE  lo <= Append(s, hi)[i] /\ Append(s, hi)[i] < hi + 1
  <2>1. CASE i = Len(s) + 1
    BY <1>1, <2>1
  <2>2. CASE i # Len(s) + 1
    BY <1>1, <1>2, <1>3, <2>2
  <2> QED  BY <2>1, <2>2
<1> QED  BY <1>1, <1>4, <1>5 DEF Increasing, Within

(* An increasing sequence is its elements, counted out.                    *)

Nth(S, k) == CHOOSE n \in S : Cardinality({m \in S : m <= n}) = k

\* The first k places of an increasing sequence hold k numbers.
LEMMA PrefixCardinality ==
    ASSUME NEW s \in Seq(Nat), Increasing(s), NEW k \in 0..Len(s)
    PROVE  /\ IsFiniteSet({s[i] : i \in 1..k})
           /\ Cardinality({s[i] : i \in 1..k}) = k
<1> DEFINE T == {s[i] : i \in 1..k}
           f == [i \in 1..k |-> s[i]]
<1>1. Len(s) \in Nat /\ k \in Nat /\ 1..k \subseteq 1..Len(s)
    OBVIOUS
<1>2. \A i \in 1..k : s[i] \in Nat
    BY <1>1
<1>3. \A i, j \in 1..k : s[i] = s[j] => i = j
    <2> SUFFICES ASSUME NEW i \in 1..k, NEW j \in 1..k, s[i] = s[j], i # j PROVE FALSE
        OBVIOUS
    <2>1. i < j \/ j < i
        BY <1>1
    <2> QED  BY <1>1, <1>2, <2>1 DEF Increasing
<1>4. f \in Bijection(1..k, T)
    BY <1>3 DEF Bijection, Injection, Surjection, IsInjective
<1>5. IsFiniteSet(1..k) /\ Cardinality(1..k) = k
    BY <1>1, FS_Interval
<1> QED  BY <1>4, <1>5, FS_Bijection DEF ExistsBijection

\* An increasing sequence is its set of elements, counted out from the least.
LEMMA IncreasingIsCountedOut ==
    ASSUME NEW s \in Seq(Nat), Increasing(s)
    PROVE  s = [k \in 1..Cardinality(Elements(s)) |-> Nth(Elements(s), k)]
<1> DEFINE S == Elements(s)
<1>1. Len(s) \in Nat /\ \A i \in 1..Len(s) : s[i] \in Nat
    OBVIOUS
<1>2. Cardinality(S) = Len(s)
    <2>1. Len(s) \in 0..Len(s)
        BY <1>1
    <2> QED  BY <2>1, PrefixCardinality DEF Elements
<1>3. ASSUME NEW k \in 1..Len(s)
      PROVE  Cardinality({m \in S : m <= s[k]}) = k
    <2>1. {m \in S : m <= s[k]} = {s[i] : i \in 1..k}
        <3>1. ASSUME NEW i \in 1..Len(s) PROVE s[i] <= s[k] <=> i <= k
            <4>1. i < k \/ i = k \/ k < i
                BY <1>1
            <4> QED  BY <1>1, <4>1 DEF Increasing
        <3>2. \A i : i \in 1..k <=> i \in 1..Len(s) /\ i <= k
            BY <1>1
        <3> QED  BY <3>1, <3>2 DEF Elements
    <2>2. k \in 0..Len(s)
        BY <1>1
    <2>3. Cardinality({s[i] : i \in 1..k}) = k
        BY ONLY <2>2, PrefixCardinality, s \in Seq(Nat), Increasing(s)
    <2> HIDE DEF S
    <2> QED  BY <2>1, <2>3
<1>4. ASSUME NEW k \in 1..Len(s)
      PROVE  s[k] = Nth(S, k)
    <2>1. s[k] \in S /\ Cardinality({m \in S : m <= s[k]}) = k
        BY <1>3 DEF Elements
    <2>2. ASSUME NEW n \in S, Cardinality({m \in S : m <= n}) = k
          PROVE  n = s[k]
        <3>1. PICK j \in 1..Len(s) : n = s[j]
            BY DEF Elements
        <3>2. Cardinality({m \in S : m <= s[j]}) = j
            BY <1>3
        <3> HIDE DEF S
        <3> QED  BY <2>2, <3>1, <3>2
    <2> HIDE DEF S
    <2> QED  BY <2>1, <2>2 DEF Nth
<1> QED  BY <1>2, <1>4

-----------------------------------------------------------------------------
(* What a job has counted is what its lines so far contribute.             *)

Count(item, n, kinds) == Cardinality({i \in 1..n : item.lines[i] \in kinds})

TrustUpTo(item, n) ==
    [events_total       |-> Count(item, n, Kinds \ {"blank"}),
     events_ok          |-> Count(item, n, {"clean", "hit"}),
     events_failed      |-> Count(item, n, Failing),
     matches            |-> Count(item, n, {"hit"}),
     err_io_read        |-> 0,
     err_line_too_large |-> Count(item, n, {"too_large"}),
     err_json_parse     |-> Count(item, n, {"bad_utf8", "bad_json"}),
     err_flatten        |-> Count(item, n, {"bad_flatten"})]

HitsUpTo(item, n) ==
    {item.start_line + i - 1 : i \in {j \in 1..n : item.lines[j] = "hit"}}

\* One more line looked at is one more counted if it is of the kind.
LEMMA CountGrows ==
    ASSUME NEW item \in Items, NEW n \in Nat, NEW kinds
    PROVE  Count(item, n + 1, kinds)
              = Count(item, n, kinds) + IF item.lines[n + 1] \in kinds THEN 1 ELSE 0
<1> DEFINE A == {i \in 1..n : item.lines[i] \in kinds}
           B == {i \in 1..(n + 1) : item.lines[i] \in kinds}
<1>1. IsFiniteSet(A)
    <2>1. IsFiniteSet(1..n) /\ A \subseteq 1..n
        BY FS_Interval
    <2> QED  BY <2>1, FS_Subset
<1>2. Cardinality(A) \in Nat
    BY <1>1, FS_CardinalityType
<1>3. n + 1 \notin A
    OBVIOUS
<1>4. CASE item.lines[n + 1] \in kinds
    <2>1. B = A \union {n + 1}
        BY <1>4
    <2> QED  BY <1>1, <1>3, <1>4, <2>1, FS_AddElement DEF Count
<1>5. CASE item.lines[n + 1] \notin kinds
    <2>1. B = A
        BY <1>5
    <2> QED  BY <1>2, <1>5, <2>1 DEF Count
<1> QED  BY <1>4, <1>5

\* The counters of one more line are those of process_data_chunk's next turn.
LEMMA TrustGrows ==
    ASSUME NEW item \in Items, NEW n \in Nat, NEW kind \in Kinds, kind = item.lines[n + 1]
    PROVE  TrustUpTo(item, n + 1) = MergeInto(LineTrust(kind), TrustUpTo(item, n))
<1>1. \A kinds : Count(item, n + 1, kinds)
                    = Count(item, n, kinds) + IF kind \in kinds THEN 1 ELSE 0
    BY CountGrows
<1>2. /\ kind \in Kinds \ {"blank"} <=> kind # "blank"
      /\ kind \in {"hit"} <=> kind = "hit"
      /\ kind \in {"too_large"} <=> kind = "too_large"
      /\ kind \in {"bad_flatten"} <=> kind = "bad_flatten"
    OBVIOUS
<1> QED  BY <1>1, <1>2 DEF TrustUpTo, MergeInto, LineTrust

\* The alerts of one more line are those found so far, and its own.
LEMMA HitsGrow ==
    ASSUME NEW item \in Items, NEW n \in Nat
    PROVE  HitsUpTo(item, n + 1) =
              IF item.lines[n + 1] = "hit"
              THEN HitsUpTo(item, n) \union {item.start_line + (n + 1) - 1}
              ELSE HitsUpTo(item, n)
<1>1. \A i : i \in 1..(n + 1) <=> i \in 1..n \/ i = n + 1
    OBVIOUS
<1> QED  BY <1>1 DEF HitsUpTo

\* Before the first line nothing is counted or found.
LEMMA NothingTallied ==
    ASSUME NEW item
    PROVE  ZeroMetrics = TrustUpTo(item, 0) /\ HitsUpTo(item, 0) = {}
<1>1. \A kinds : {i \in 1..0 : item.lines[i] \in kinds} = {}
    OBVIOUS
<1>2. \A kinds : Count(item, 0, kinds) = 0
    BY <1>1, FS_EmptySet DEF Count
<1> QED  BY <1>2 DEF TrustUpTo, HitsUpTo, ZeroMetrics

(* Where a chunk stands that process_data_chunk is working on: its counters *)
(* and alerts are those of the lines before `next`, and in fail-fast mode   *)
(* the first failure, and nothing else, is fatal and the last line.         *)
Tallied(r, item, mode) ==
    LET n == r.next - 1 IN
    /\ n <= Len(item.lines)
    /\ r.trust = TrustUpTo(item, n)
    /\ Elements(r.alerts) = HitsUpTo(item, n)
    /\ Increasing(r.alerts)
    /\ Within(r.alerts, item.start_line, item.start_line + n)
    /\ r.fatal => mode = "fail-fast" /\ n \in Nat \ {0} /\ item.lines[n] \in Failing
    /\ mode = "fail-fast" =>
          \A i \in 1..n : item.lines[i] \in Failing => r.fatal /\ i = n

\* A ChunkResult starts with nothing looked at.
LEMMA TalliedNew ==
    ASSUME NEW item \in Items, NEW mode
    PROVE  Tallied(NewResult, item, mode)
<1>1. NewResult.next - 1 = 0 /\ NewResult.fatal = FALSE
      /\ NewResult.alerts = <<>> /\ NewResult.trust = ZeroMetrics
    BY DEF NewResult
<1>2. Elements(<<>>) = {} /\ Increasing(<<>>) /\ \A lo, hi : Within(<<>>, lo, hi)
    BY DEF Elements, Increasing, Within
<1>3. /\ NewResult.trust = TrustUpTo(item, NewResult.next - 1)
      /\ Elements(NewResult.alerts) = HitsUpTo(item, NewResult.next - 1)
    BY <1>1, <1>2, NothingTallied
<1>4. ~NewResult.fatal /\ 1..(NewResult.next - 1) = {}
    BY <1>1
<1>5. 0 <= Len(item.lines)
    BY DEF Items
<1> QED  BY <1>1, <1>2, <1>3, <1>4, <1>5 DEF Tallied

(* One turn of process_data_chunk.                                         *)
LEMMA TalliedStep ==
    ASSUME NEW item \in Items, NEW r \in ChunkResult, NEW mode,
           ~ChunkDone(r, item), Tallied(r, item, mode)
    PROVE  Tallied(ProcessLine(r, item, mode), item, mode)
<1> DEFINE n == r.next - 1
           q == ProcessLine(r, item, mode)
           kind == item.lines[r.next]
           line == LineNumber(r, item)
           first == item.start_line
<1>1. kind \in Kinds /\ line \in Nat
    BY ProcessLineType
<1>2. /\ n \in Nat /\ n + 1 = r.next /\ r.alerts \in Seq(Nat) /\ ~r.fatal
      /\ first \in Nat /\ Len(item.lines) \in Nat /\ r.next <= Len(item.lines)
    BY DEF ChunkResult, ChunkDone, Items
<1>3. q.next - 1 = n + 1 /\ q.next - 1 = r.next /\ line = first + n
    BY <1>2 DEF ProcessLine, LineNumber
<1>4. q.trust = TrustUpTo(item, n + 1)
    <2>1. r.trust = TrustUpTo(item, n) /\ q.trust = MergeInto(LineTrust(kind), r.trust)
        BY DEF Tallied, ProcessLine
    <2> QED  BY <1>1, <1>2, <2>1, TrustGrows
<1>5. q.alerts = IF kind = "hit" THEN Append(r.alerts, line) ELSE r.alerts
    BY DEF ProcessLine
<1>6. Elements(q.alerts) = HitsUpTo(item, n + 1)
    <2>1. Elements(r.alerts) = HitsUpTo(item, n)
        BY DEF Tallied
    <2>2. Elements(Append(r.alerts, line)) = Elements(r.alerts) \union {line}
        BY <1>1, <1>2, ElementsAppend
    <2>3. line = item.start_line + (n + 1) - 1
        BY <1>2, <1>3
    <2> QED  BY <1>2, <1>5, <2>1, <2>2, <2>3, HitsGrow
<1>7. Increasing(q.alerts) /\ Within(q.alerts, first, first + (n + 1))
    <2>1. Increasing(r.alerts) /\ Within(r.alerts, first, line)
        BY <1>3 DEF Tallied
    <2>2. line + 1 = first + (n + 1) /\ first <= line
        BY <1>2, <1>3
    <2> HIDE DEF n, q, line, first
    <2>3. CASE kind = "hit"
        BY <1>1, <1>2, <1>5, <2>1, <2>2, <2>3, IncreasingAppend
    <2>4. CASE kind # "hit"
        <3>1. \A i \in 1..Len(r.alerts) : r.alerts[i] \in Nat
            BY <1>2
        <3> QED  BY <1>1, <1>2, <1>5, <2>1, <2>2, <2>4, <3>1 DEF Within
    <2> QED  BY <2>3, <2>4
<1>8. q.fatal <=> kind \in Failing /\ mode = "fail-fast"
    BY DEF ProcessLine
<1>9. mode = "fail-fast" =>
         \A i \in 1..(n + 1) : item.lines[i] \in Failing => q.fatal /\ i = n + 1
    <2> SUFFICES ASSUME mode = "fail-fast", NEW i \in 1..(n + 1),
                        item.lines[i] \in Failing
                 PROVE  q.fatal /\ i = n + 1
        OBVIOUS
    <2>1. i \in 1..n \/ i = n + 1
        BY <1>2
    <2>2. i \notin 1..n
        BY <1>2 DEF Tallied
    <2> QED  BY <1>2, <1>8, <2>1, <2>2
<1> HIDE DEF q, n
<1>10. q.fatal => mode = "fail-fast" /\ n + 1 \in Nat \ {0} /\ item.lines[n + 1] \in Failing
    BY <1>2, <1>8
<1>11. n + 1 <= Len(item.lines)
    BY <1>2
<1>12. Tallied(q, item, mode)
    BY <1>3, <1>4, <1>6, <1>7, <1>9, <1>10, <1>11 DEF Tallied
<1> QED  BY <1>12 DEF q

(* When the loop is over it has looked at all lines, or, in fail-fast mode, *)
(* at those up to the first that fails.                                     *)
LEMMA TalliedDone ==
    ASSUME NEW item \in Items, NEW r \in ChunkResult, NEW mode,
           ChunkDone(r, item), Tallied(r, item, mode)
    PROVE  LET n == r.next - 1
               F == {i \in 1..Len(item.lines) : item.lines[i] \in Failing} IN
           /\ r.fatal <=> mode = "fail-fast" /\ F # {}
           /\ r.fatal => n \in F /\ \A i \in F : n <= i
           /\ ~r.fatal => n = Len(item.lines)
           /\ r.trust = TrustUpTo(item, n)
           /\ r.alerts = [k \in 1..Cardinality(HitsUpTo(item, n)) |-> Nth(HitsUpTo(item, n), k)]
<1> DEFINE n == r.next - 1
           F == {i \in 1..Len(item.lines) : item.lines[i] \in Failing}
<1>1. /\ Len(item.lines) \in Nat /\ n \in Nat /\ r.alerts \in Seq(Nat)
      /\ r.fatal \in BOOLEAN
    BY DEF Items, ChunkResult
<1>2. /\ n <= Len(item.lines)
      /\ r.fatal => mode = "fail-fast" /\ n \in Nat \ {0} /\ item.lines[n] \in Failing
      /\ mode = "fail-fast" =>
            \A i \in 1..n : item.lines[i] \in Failing => r.fatal /\ i = n
      /\ r.trust = TrustUpTo(item, n)
      /\ Elements(r.alerts) = HitsUpTo(item, n)
      /\ Increasing(r.alerts)
    BY DEF Tallied
<1>3. r.fatal \/ n = Len(item.lines)
    BY <1>1, <1>2 DEF ChunkDone, ChunkResult
<1> HIDE DEF n
<1>4. r.fatal => n \in F /\ \A i \in F : n <= i
    BY <1>1, <1>2
<1>5. ~r.fatal /\ mode = "fail-fast" => F = {}
    BY <1>1, <1>2, <1>3
<1>6. r.alerts = [k \in 1..Cardinality(Elements(r.alerts)) |-> Nth(Elements(r.alerts), k)]
    BY <1>1, <1>2, IncreasingIsCountedOut
<1> HIDE DEF F
<1>7. r.fatal <=> mode = "fail-fast" /\ F # {}
    BY <1>1, <1>2, <1>4, <1>5
<1>8. r.alerts = [k \in 1..Cardinality(HitsUpTo(item, n)) |-> Nth(HitsUpTo(item, n), k)]
    BY <1>2, <1>6
<1> QED  BY <1>2, <1>3, <1>4, <1>7, <1>8 DEF n, F

-----------------------------------------------------------------------------
(* The loop.                                                               *)

ConfigOK == input \in Seq(Items) /\ WellNumbered(input) /\ input \in Inputs
                /\ on_error \in Modes

\* A prefix of the alerts is a sequence of line numbers.
LEMMA PrefixType ==
    ASSUME NEW s \in Seq(Nat), NEW k \in 0..Len(s)
    PROVE  SubSeq(s, 1, k) \in Seq(Nat)
<1>1. \A i \in 1..k : s[i] \in Nat
    OBVIOUS
<1> QED  BY <1>1, SubSeqProperties

\* The chunk with an id is one of the input's.
LEMMA ItemOfType ==
    ASSUME ConfigOK, NEW id \in ChunkIds
    PROVE  ItemOf(id) \in Items
BY DEF ConfigOK, ChunkIds, ItemOf

(* Every variable keeps its type.                                          *)
THEOREM Typing == Spec => [](TypeOK /\ ConfigOK)
<1>1. Init => TypeOK /\ ConfigOK
  <2> SUFFICES ASSUME Init PROVE TypeOK /\ ConfigOK
    OBVIOUS
  <2>1. ConfigOK
    BY InputsAssumption DEF Init, ConfigOK
  <2>2. NewResult \in ChunkResult
    BY ZeroBalance DEF NewResult, ChunkResult
  <2>3. result \in [ChunkIds -> ChunkResult] /\ stats \in Metrics
    BY <2>2, ZeroBalance DEF Init
  <2>4. taken \in 0..Len(input)
    BY <2>1 DEF Init, ConfigOK
  <2>5. chan \in Seq(ChunkIds) /\ out \in Seq(Nat)
    BY DEF Init
  <2>6. queued \subseteq ChunkIds /\ running \subseteq ChunkIds /\ pending \subseteq ChunkIds
        /\ sampled \subseteq Nat
    BY DEF Init
  <2>7. TypeOK
    <3> USE DEF Init
    <3>1. eof \in BOOLEAN /\ fatal_io \in BOOLEAN
      OBVIOUS
    <3>2. inflight \in Int /\ next_expected \in Nat /\ samples \in Nat
      OBVIOUS
    <3>3. mpc = "fill" /\ verdict = "running" /\ input \in Inputs /\ on_error \in Modes
      OBVIOUS
    <3> QED  BY ONLY <2>3, <2>4, <2>5, <2>6, <3>1, <3>2, <3>3 DEF TypeOK
  <2> QED  BY <2>1, <2>7
<1>2. TypeOK /\ ConfigOK /\ [Next]_vars => (TypeOK /\ ConfigOK)'
  <2> SUFFICES ASSUME TypeOK, ConfigOK, [Next]_vars
               PROVE  TypeOK' /\ ConfigOK'
    OBVIOUS
  <2>0. ConfigOK'
    BY DEF ConfigOK, Next, MainNext, MainStep, PoolNext, SpawnChunk, ReadEof, ReadError,
           StopFilling, Recv, ReleaseChunk, ReleaseWriteFails, StopReleasing,
           Return, PoolFails, StartJob, EvalNextLine, SendResult, Finished, vars, config
  <2>a. ChunkIds' = ChunkIds
    BY DEF ChunkIds, ConfigOK, Next, MainNext, MainStep, PoolNext, SpawnChunk, ReadEof, ReadError,
           StopFilling, Recv, ReleaseChunk, ReleaseWriteFails, StopReleasing,
           Return, PoolFails, StartJob, EvalNextLine, SendResult, Finished, vars, config
  <2> SUFFICES TypeOK' BY <2>0
  <2> USE <2>a
  <2> USE DEF TypeOK, config, main, workers
  <2>1. CASE SpawnChunk
    BY <2>1 DEF SpawnChunk, HasMore, CanFill, ConfigOK, ChunkIds
  <2>2. CASE ReadEof
    BY <2>2 DEF ReadEof
  <2>3. CASE ReadError
    <3>1. stats' \in Metrics
      BY <2>3, IoErrorBalance, MergeBalance DEF ReadError
    <3> QED  BY <2>3, <3>1 DEF ReadError
  <2>4. CASE StopFilling
    BY <2>4 DEF StopFilling
  <2>5. CASE Recv
    <3>1. chan' \in Seq(ChunkIds) /\ Head(chan) \in ChunkIds
      BY <2>5 DEF Recv
    <3>2. pending' \subseteq ChunkIds /\ inflight' \in Int
      BY <2>5, <3>1 DEF Recv
    <3> QED  BY <2>5, <3>1, <3>2 DEF Recv
  <2>6. CASE ReleaseChunk
    <3> DEFINE r == result[next_expected]
    <3>1. r \in ChunkResult
      BY <2>6 DEF ReleaseChunk, NextIsPending
    <3>2. stats' \in Metrics
      BY <2>6, <3>1, MergeBalance DEF ReleaseChunk, ChunkResult
    <3>3. out' \in Seq(Nat)
      BY <2>6, <3>1 DEF ReleaseChunk, ChunkResult
    <3> QED  BY <2>6, <3>2, <3>3 DEF ReleaseChunk
  <2>7. CASE ReleaseWriteFails
    <3> DEFINE r == result[next_expected]
    <3>1. r \in ChunkResult
      BY <2>7 DEF ReleaseWriteFails, NextIsPending
    <3>2. stats' \in Metrics
      BY <2>7, <3>1, MergeBalance DEF ReleaseWriteFails, ChunkResult
    <3>3. out' \in Seq(Nat)
      <4>1. PICK k \in 0..Len(r.alerts) : out' = out \o SubSeq(r.alerts, 1, k)
        BY <2>7 DEF ReleaseWriteFails
      <4>2. r.alerts \in Seq(Nat)
        BY <3>1 DEF ChunkResult
      <4>3. SubSeq(r.alerts, 1, k) \in Seq(Nat)
        BY <4>2, PrefixType
      <4> QED  BY <4>1, <4>3
    <3> QED  BY <2>7, <3>2, <3>3 DEF ReleaseWriteFails
  <2>8. CASE StopReleasing
    BY <2>8 DEF StopReleasing
  <2>9. CASE Return \/ PoolFails
    BY <2>9 DEF Return, PoolFails
  <2>10. ASSUME NEW id \in ChunkIds, StartJob(id)
         PROVE  TypeOK'
    BY <2>10 DEF StartJob
  <2>11. ASSUME NEW id \in ChunkIds, EvalNextLine(id)
         PROVE  TypeOK'
    <3> DEFINE item == ItemOf(id)
    <3>1. item \in Items /\ result[id] \in ChunkResult /\ ~ChunkDone(result[id], item)
      BY <2>11, ItemOfType DEF EvalNextLine, JobDone
    <3>2. /\ ProcessLine(result[id], item, on_error) \in ChunkResult
          /\ LineNumber(result[id], item) \in Nat
      BY <3>1, ProcessLineType
    <3>3. result' \in [ChunkIds -> ChunkResult]
      BY <2>11, <3>2 DEF EvalNextLine
    <3>4. /\ samples' \in {samples, samples + 1}
          /\ sampled' \in {sampled, sampled \union {LineNumber(result[id], item)}}
      BY <2>11 DEF EvalNextLine
    <3>5. samples' \in Nat /\ sampled' \subseteq Nat
      BY <3>2, <3>4
    <3>6. UNCHANGED <<config, main, queued, running, chan>>
      BY <2>11 DEF EvalNextLine
    <3> QED  BY <3>3, <3>5, <3>6
  <2>12. ASSUME NEW id \in ChunkIds, SendResult(id)
         PROVE  TypeOK'
    <3>1. chan' = Append(chan, id) \/ chan' = chan
      BY <2>12 DEF SendResult
    <3>2. chan' \in Seq(ChunkIds)
      <4>1. chan \in Seq(ChunkIds)
        OBVIOUS
      <4> QED  BY ONLY <3>1, <4>1, id \in ChunkIds
    <3> QED  BY <2>12, <3>2 DEF SendResult
  <2>13. CASE Finished \/ UNCHANGED vars
    BY <2>13 DEF Finished, vars
  <2> QED
    BY <2>1, <2>2, <2>3, <2>4, <2>5, <2>6, <2>7, <2>8, <2>9, <2>10, <2>11,
       <2>12, <2>13 DEF Next, MainNext, MainStep, PoolNext
<1> QED  BY <1>1, <1>2, PTL DEF Spec

-----------------------------------------------------------------------------
(* The accounting contract, in the run's stats and in every chunk's.       *)

Accounting == StatsBalance /\ \A id \in ChunkIds : Balanced(result[id].trust)

(* main's invariant_ok check can never fail.                               *)
THEOREM AccountingHolds == Spec => []StatsBalance
<1>1. Init => Accounting
  BY ZeroBalance DEF Init, Accounting, StatsBalance, NewResult
<1>2. TypeOK /\ ConfigOK /\ Accounting /\ [Next]_vars => Accounting'
  <2> SUFFICES ASSUME TypeOK, ConfigOK, Accounting, [Next]_vars
               PROVE  Accounting'
    OBVIOUS
  <2>a. ChunkIds' = ChunkIds
    BY DEF ChunkIds, Next, MainNext, MainStep, PoolNext, SpawnChunk, ReadEof, ReadError,
           StopFilling, Recv, ReleaseChunk, ReleaseWriteFails, StopReleasing,
           Return, PoolFails, StartJob, EvalNextLine, SendResult, Finished, vars, config
  <2> USE <2>a DEF Accounting, StatsBalance, main, workers
  <2>1. CASE ReadError
    BY <2>1, IoErrorBalance, MergeBalance DEF ReadError, TypeOK
  <2>2. CASE ReleaseChunk \/ ReleaseWriteFails
    <3> DEFINE r == result[next_expected]
    <3>1. r.trust \in Metrics /\ Balanced(r.trust)
      BY <2>2 DEF ReleaseChunk, ReleaseWriteFails, NextIsPending, TypeOK, ChunkResult
    <3>2. stats' = MergeInto(r.trust, stats) /\ UNCHANGED result
      BY <2>2 DEF ReleaseChunk, ReleaseWriteFails
    <3> QED  BY <3>1, <3>2, MergeBalance DEF TypeOK
  <2>3. ASSUME NEW id \in ChunkIds, EvalNextLine(id)
        PROVE  Accounting'
    <3> DEFINE item == ItemOf(id)
    <3>1. item \in Items /\ result[id] \in ChunkResult /\ ~ChunkDone(result[id], item)
      BY <2>3, ItemOfType DEF EvalNextLine, JobDone, TypeOK
    <3>2. Balanced(ProcessLine(result[id], item, on_error).trust)
      BY <3>1, ProcessLineType
    <3> QED  BY <2>3, <3>2 DEF EvalNextLine, TypeOK
  <2>4. CASE UNCHANGED <<stats, result>>
    BY <2>4
  <2> QED
    BY <2>1, <2>2, <2>3, <2>4
       DEF Next, MainNext, MainStep, PoolNext, SpawnChunk, ReadEof, StopFilling, Recv,
           StopReleasing, Return, PoolFails, StartJob, SendResult, Finished, vars
<1> QED  BY <1>1, <1>2, Typing, PTL DEF Spec, Accounting

-----------------------------------------------------------------------------
(* Where a chunk is.  While the main thread lives, the chunks taken and    *)
(* not yet written are exactly those waiting for a thread, on one, in the  *)
(* channel or in `pending`, each in one place; and inflight counts all but *)
(* the last.                                                               *)

Located ==
    /\ next_expected \in 0..taken
    /\ \A i, j \in 1..Len(chan) : i # j => chan[i] # chan[j]
    /\ queued \intersect running = {}
    /\ (queued \union running) \intersect (Elements(chan) \union pending) = {}
    /\ Elements(chan) \intersect pending = {}
    /\ queued \union running \union Elements(chan) \union pending
          = next_expected..(taken - 1)

Counted ==
    /\ IsFiniteSet(queued) /\ IsFiniteSet(running)
    /\ inflight = Cardinality(queued) + Cardinality(running) + Len(chan)
    /\ inflight <= max_inflight

InStep ==
    /\ mpc \in {"fill", "recv", "finish"} => next_expected \notin pending
    /\ mpc = "finish" => inflight = 0

Flow == mpc # "done" => Located /\ Counted /\ InStep

\* Taking the first of distinct elements leaves the others.
LEMMA ElementsTail ==
    ASSUME NEW S, NEW s \in Seq(S), s # <<>>,
           \A i, j \in 1..Len(s) : i # j => s[i] # s[j]
    PROVE  /\ Len(Tail(s)) = Len(s) - 1
           /\ Head(s) \in Elements(s)
           /\ Elements(Tail(s)) = Elements(s) \ {Head(s)}
           /\ \A i, j \in 1..Len(Tail(s)) : i # j => Tail(s)[i] # Tail(s)[j]
<1>1. /\ Len(s) \in Nat \ {0} /\ Len(Tail(s)) = Len(s) - 1 /\ Head(s) = s[1]
      /\ \A i \in 1..Len(Tail(s)) : Tail(s)[i] = s[i + 1]
    BY HeadTailProperties
<1>2. ASSUME NEW x \in Elements(s), x # Head(s)
      PROVE  x \in Elements(Tail(s))
  <2>1. PICK i \in 1..Len(s) : x = s[i]
    BY DEF Elements
  <2>2. i - 1 \in 1..Len(Tail(s)) /\ Tail(s)[i - 1] = x
    BY <1>1, <1>2, <2>1
  <2> QED  BY <2>2 DEF Elements
<1>3. ASSUME NEW x \in Elements(Tail(s))
      PROVE  x \in Elements(s) \ {Head(s)}
  <2>1. PICK i \in 1..Len(Tail(s)) : x = Tail(s)[i]
    BY DEF Elements
  <2>2. i + 1 \in 1..Len(s) /\ x = s[i + 1] /\ 1 \in 1..Len(s) /\ i + 1 # 1
    BY <1>1, <2>1
  <2> QED  BY <1>1, <2>2 DEF Elements
<1>4. Head(s) \in Elements(s)
    BY <1>1 DEF Elements
<1>5. \A i, j \in 1..Len(Tail(s)) : i # j => Tail(s)[i] # Tail(s)[j]
    BY <1>1
<1> QED  BY <1>1, <1>2, <1>3, <1>4, <1>5

\* Flow holds before the first read.
LEMMA FlowInit == ASSUME Init, ConfigOK PROVE Flow
<1>1. IsFiniteSet({}) /\ Cardinality({}) = 0
    BY FS_EmptySet
<1>2. Elements(<<>>) = {}
    BY DEF Elements
<1>3. Located
    BY <1>2 DEF Init, Located
<1>4. Counted /\ InStep
    BY <1>1, ThreadsAssumption DEF Init, Counted, InStep, max_inflight
<1> QED  BY <1>3, <1>4 DEF Flow

\* The main thread's steps keep Flow: a chunk is in one place at a time.
LEMMA FlowMain ==
    ASSUME TypeOK, Flow, MainNext
    PROVE  Flow'
<1> SUFFICES ASSUME mpc' # "done"
             PROVE  Located' /\ Counted' /\ InStep'
    BY DEF Flow
<1> USE DEF config, workers
<1>0. mpc # "done" /\ Located /\ Counted /\ InStep
    BY DEF Flow, MainNext, MainStep, HasMore, SpawnChunk, ReadEof, ReadError, CanFill, StopFilling,
           Recv, ReleaseChunk, ReleaseWriteFails, NextIsPending, StopReleasing, Return,
           PoolFails
<1>m. max_inflight' = max_inflight /\ max_inflight \in Nat
    BY ThreadsAssumption DEF max_inflight
<1>1. CASE SpawnChunk
  <2>1. taken \notin queued
    BY <1>0 DEF Located, TypeOK
  <2>2. /\ IsFiniteSet(queued') /\ Cardinality(queued') = Cardinality(queued) + 1
    BY <1>0, <1>1, <2>1, FS_AddElement DEF SpawnChunk, Counted
  <2>3. Cardinality(queued) \in Nat /\ Cardinality(running) \in Nat /\ Len(chan) \in Nat
    BY <1>0, FS_CardinalityType DEF Counted, TypeOK
  <2>4. Counted'
    BY <1>0, <1>1, <1>m, <2>2, <2>3 DEF SpawnChunk, HasMore, CanFill, Counted, TypeOK
  <2>5. Located'
    BY <1>0, <1>1 DEF SpawnChunk, Located, TypeOK
  <2>6. InStep'
    BY <1>0, <1>1 DEF SpawnChunk, CanFill, InStep
  <2> QED  BY <2>4, <2>5, <2>6
<1>2. CASE ReadEof \/ ReadError
    BY <1>0, <1>2, <1>m DEF ReadEof, ReadError, CanFill, Located, Counted, InStep
<1>3. CASE StopFilling
    BY <1>0, <1>3, <1>m DEF StopFilling, Located, Counted, InStep
<1>4. CASE Recv
  <2> DEFINE h == Head(chan)
  <2>1. /\ Len(Tail(chan)) = Len(chan) - 1
        /\ h \in Elements(chan)
        /\ Elements(Tail(chan)) = Elements(chan) \ {h}
        /\ \A i, j \in 1..Len(Tail(chan)) : i # j => Tail(chan)[i] # Tail(chan)[j]
    BY <1>0, <1>4, ElementsTail DEF Recv, Located, TypeOK
  <2>2. Located'
    BY <1>0, <1>4, <2>1 DEF Recv, Located
  <2>3. Cardinality(queued) \in Nat /\ Cardinality(running) \in Nat /\ Len(chan) \in Nat
    BY <1>0, FS_CardinalityType DEF Counted, TypeOK
  <2>4. Counted'
    BY <1>0, <1>4, <1>m, <2>1, <2>3 DEF Recv, Counted
  <2>5. InStep'
    BY <1>4 DEF Recv, InStep
  <2> QED  BY <2>2, <2>4, <2>5
<1>5. CASE ReleaseChunk
  <2>1. /\ next_expected' = next_expected + 1 /\ mpc' = "release"
        /\ pending' = pending \ {next_expected} /\ next_expected \in pending
        /\ UNCHANGED <<taken, inflight, queued, running, chan>>
    BY <1>5 DEF ReleaseChunk, NextIsPending
  <2>2. Located'
    <3>1. next_expected \in next_expected..(taken - 1)
      BY <1>0, <2>1 DEF Located
    <3>2. (next_expected + 1)..(taken - 1) = (next_expected..(taken - 1)) \ {next_expected}
      BY <1>0, <3>1 DEF Located, TypeOK
    <3> QED  BY <1>0, <2>1, <3>1, <3>2 DEF Located, TypeOK
  <2> QED  BY <1>0, <1>m, <2>1, <2>2 DEF Counted, InStep
<1>6. CASE ReleaseWriteFails \/ Return \/ PoolFails
    BY <1>6 DEF ReleaseWriteFails, Return, PoolFails
<1>7. CASE StopReleasing
    BY <1>0, <1>7, <1>m DEF StopReleasing, Located, Counted, InStep
<1> QED  BY <1>1, <1>2, <1>3, <1>4, <1>5, <1>6, <1>7 DEF MainNext, MainStep

\* So do those of the pool.
LEMMA FlowPool ==
    ASSUME TypeOK, Flow, NEW id \in ChunkIds,
           StartJob(id) \/ EvalNextLine(id) \/ SendResult(id)
    PROVE  Flow'
<1> SUFFICES ASSUME mpc' # "done"
             PROVE  Located' /\ Counted' /\ InStep'
    BY DEF Flow
<1> USE DEF config, main
<1>0. mpc # "done" /\ Located /\ Counted /\ InStep
    BY DEF Flow, StartJob, EvalNextLine, SendResult
<1>m. max_inflight' = max_inflight /\ max_inflight \in Nat
    BY ThreadsAssumption DEF max_inflight
<1>n. Cardinality(queued) \in Nat /\ Cardinality(running) \in Nat /\ Len(chan) \in Nat
    BY <1>0, FS_CardinalityType DEF Counted, TypeOK
<1>1. CASE StartJob(id)
  <2>1. /\ queued' = queued \ {id} /\ running' = running \union {id}
        /\ id \in queued /\ id \notin running
        /\ UNCHANGED <<mpc, taken, inflight, pending, next_expected, chan>>
    BY <1>0, <1>1 DEF StartJob, Located
  <2>2. /\ IsFiniteSet(queued') /\ Cardinality(queued') = Cardinality(queued) - 1
        /\ IsFiniteSet(running') /\ Cardinality(running') = Cardinality(running) + 1
    BY <1>0, <2>1, FS_AddElement, FS_RemoveElement DEF Counted
  <2>3. Located'
    BY <1>0, <2>1 DEF Located
  <2> QED  BY <1>0, <1>m, <1>n, <2>1, <2>2, <2>3 DEF Counted, InStep
<1>2. CASE EvalNextLine(id)
    BY <1>0, <1>2, <1>m DEF EvalNextLine, Located, Counted, InStep
<1>3. CASE SendResult(id)
  <2>1. /\ chan' = Append(chan, id) /\ running' = running \ {id} /\ id \in running
        /\ UNCHANGED <<mpc, taken, inflight, pending, next_expected, queued>>
    BY <1>3 DEF SendResult
  <2>2. id \notin Elements(chan)
    BY <1>0, <2>1 DEF Located
  <2>3. /\ Len(chan') = Len(chan) + 1
        /\ Elements(chan') = Elements(chan) \union {id}
        /\ \A i, j \in 1..Len(chan') : i # j => chan'[i] # chan'[j]
    <3> DEFINE s == Append(chan, id)
    <3>1. chan \in Seq(ChunkIds) /\ \A i, j \in 1..Len(chan) : i # j => chan[i] # chan[j]
      BY <1>0 DEF Located, TypeOK
    <3>2. /\ Len(s) = Len(chan) + 1
          /\ Elements(s) = Elements(chan) \union {id}
          /\ \A i, j \in 1..Len(s) : i # j => s[i] # s[j]
      BY <2>2, <3>1, ElementsAppend
    <3> QED  BY <2>1, <3>2
  <2>4. IsFiniteSet(running') /\ Cardinality(running') = Cardinality(running) - 1
    BY <1>0, <2>1, FS_RemoveElement DEF Counted
  <2>5. Elements(chan)' = Elements(chan) \union {id}
    BY <2>3 DEF Elements
  <2>6. Located'
    BY <1>0, <2>1, <2>2, <2>3, <2>5 DEF Located
  <2> QED  BY <1>0, <1>m, <1>n, <2>1, <2>3, <2>4, <2>6 DEF Counted, InStep
<1> QED  BY <1>1, <1>2, <1>3

\* Flow holds throughout.
LEMMA FlowHolds == Spec => []Flow
<1>1. Init /\ ConfigOK => Flow
  BY FlowInit
<1>2. TypeOK /\ Flow /\ [Next]_vars => Flow'
  <2> SUFFICES ASSUME TypeOK, Flow, [Next]_vars PROVE Flow'
    OBVIOUS
  <2>1. CASE MainNext
    BY <2>1, FlowMain
  <2>2. CASE PoolNext
    BY <2>2, FlowPool DEF PoolNext
  <2>3. CASE UNCHANGED vars
    BY <2>3 DEF vars, main, workers, config, Flow, Located, Counted, InStep,
                Elements, max_inflight
  <2> QED  BY <2>1, <2>2, <2>3 DEF Next, Finished
<1> QED  BY <1>1, <1>2, Typing, PTL DEF Spec

(* No worker ever waits for a slot in the channel, and inflight never      *)
(* wraps, for any number of threads.                                       *)
THEOREM SendsNeverBlock == Spec => []SendNeverBlocks
<1>1. TypeOK /\ Flow => SendNeverBlocks
  <2> SUFFICES ASSUME TypeOK, Flow, mpc # "done"
               PROVE  /\ inflight \in 0..max_inflight
                      /\ Len(chan) + Cardinality(running) <= inflight
    BY DEF SendNeverBlocks
  <2>1. Counted
    BY DEF Flow
  <2>2. Cardinality(queued) \in Nat /\ Cardinality(running) \in Nat /\ Len(chan) \in Nat
    BY <2>1, FS_CardinalityType DEF Counted, TypeOK
  <2>3. max_inflight \in Nat
    BY ThreadsAssumption DEF max_inflight
  <2> QED  BY <2>1, <2>2, <2>3 DEF Counted
<1> QED  BY <1>1, Typing, FlowHolds, PTL

(* When the loop ends nothing that was read is left anywhere: the draining *)
(* loops after it are dead code, and a read error drops no chunk.          *)
THEOREM NothingLeftBehind == Spec => []NoChunkLeftBehind
<1>1. TypeOK /\ Flow => NoChunkLeftBehind
  <2> SUFFICES ASSUME TypeOK, Flow, mpc = "finish"
               PROVE  /\ inflight = 0 /\ queued = {} /\ running = {} /\ chan = <<>>
                      /\ pending = {} /\ next_expected = taken
    BY DEF NoChunkLeftBehind
  <2>1. Located /\ Counted /\ inflight = 0 /\ next_expected \notin pending
    BY DEF Flow, InStep
  <2>2. Cardinality(queued) \in Nat /\ Cardinality(running) \in Nat /\ Len(chan) \in Nat
    BY <2>1, FS_CardinalityType DEF Counted, TypeOK
  <2>3. Cardinality(queued) = 0 /\ Cardinality(running) = 0 /\ Len(chan) = 0
    BY <2>1, <2>2 DEF Counted
  <2>4. queued = {} /\ running = {}
    BY <2>1, <2>3, FS_EmptySet DEF Counted
  <2>5. chan = <<>> /\ Elements(chan) = {}
    BY <2>3 DEF TypeOK, Elements
  <2>6. pending = next_expected..(taken - 1)
    BY <2>1, <2>4, <2>5 DEF Located
  <2>7. next_expected = taken
    BY <2>1, <2>6 DEF Located, TypeOK
  <2> QED  BY <2>1, <2>4, <2>5, <2>6, <2>7 DEF TypeOK
<1> QED  BY <1>1, Typing, FlowHolds, PTL

-----------------------------------------------------------------------------
(* The order of the alerts.  A job's alerts increase and lie within the    *)
(* lines it has looked at; what is written lies below the first line of    *)
(* the next chunk to write.                                                *)

JobOrdered(id) ==
    LET r == result[id]  first == ItemOf(id).start_line IN
    /\ r.next <= Len(ItemOf(id).lines) + 1
    /\ Increasing(r.alerts)
    /\ Within(r.alerts, first, first + r.next - 1)

WrittenBelowNext ==
    mpc # "done" /\ next_expected \in ChunkIds =>
        Within(out, 0, ItemOf(next_expected).start_line)

Ordered ==
    /\ Increasing(out)
    /\ WrittenBelowNext
    /\ \A id \in ChunkIds : JobOrdered(id)

\* Alerts of a later chunk, written behind those of earlier ones, keep the order.
LEMMA IncreasingConcat ==
    ASSUME NEW s \in Seq(Nat), NEW t \in Seq(Nat), NEW lo \in Nat, NEW hi \in Nat,
           Increasing(s), Within(s, 0, lo), Increasing(t), Within(t, lo, hi), lo <= hi
    PROVE  Increasing(s \o t) /\ Within(s \o t, 0, hi)
<1>1. /\ Len(s \o t) = Len(s) + Len(t)
      /\ \A i \in 1..Len(s \o t) :
            (s \o t)[i] = IF i <= Len(s) THEN s[i] ELSE t[i - Len(s)]
    BY ConcatProperties
<1>2. Len(s) \in Nat /\ Len(t) \in Nat
    OBVIOUS
<1>3. \A i \in 1..Len(s) : s[i] \in Nat /\ s[i] < lo
    BY DEF Within
<1>4. \A i \in 1..Len(t) : t[i] \in Nat /\ lo <= t[i] /\ t[i] < hi
    BY DEF Within
<1>5. ASSUME NEW i \in 1..Len(s \o t), NEW j \in 1..Len(s \o t), i < j
      PROVE  (s \o t)[i] < (s \o t)[j]
  <2>1. CASE j <= Len(s)
    BY <1>1, <1>2, <1>5, <2>1 DEF Increasing
  <2>2. CASE i <= Len(s) /\ j > Len(s)
    <3>1. i \in 1..Len(s) /\ j - Len(s) \in 1..Len(t)
      BY <1>1, <1>2, <2>2
    <3>2. (s \o t)[i] = s[i] /\ (s \o t)[j] = t[j - Len(s)]
      BY <1>1, <1>2, <2>2
    <3>3. s[i] \in Nat /\ s[i] < lo /\ t[j - Len(s)] \in Nat /\ lo <= t[j - Len(s)]
      BY <1>3, <1>4, <3>1
    <3> QED  BY <3>2, <3>3
  <2>3. CASE i > Len(s)
    <3>1. i - Len(s) \in 1..Len(t) /\ j - Len(s) \in 1..Len(t) /\ i - Len(s) < j - Len(s)
      BY <1>1, <1>2, <1>5, <2>3
    <3>2. (s \o t)[i] = t[i - Len(s)] /\ (s \o t)[j] = t[j - Len(s)]
      BY <1>1, <1>2, <1>5, <2>3
    <3>3. t[i - Len(s)] < t[j - Len(s)]
      BY <3>1 DEF Increasing
    <3> QED  BY <3>2, <3>3
  <2> QED  BY <1>2, <2>1, <2>2, <2>3
<1>6. ASSUME NEW i \in 1..Len(s \o t)
      PROVE  0 <= (s \o t)[i] /\ (s \o t)[i] < hi
  <2>1. CASE i <= Len(s)
    BY <1>1, <1>2, <1>3, <2>1
  <2>2. CASE i > Len(s)
    <3>1. i - Len(s) \in 1..Len(t)
      BY <1>1, <1>2, <2>2
    <3> QED  BY <1>1, <1>4, <2>2, <3>1
  <2> QED  BY <1>2, <2>1, <2>2
<1> QED  BY <1>5, <1>6 DEF Increasing, Within

\* Alerts of which only the first few were written are still in order.
LEMMA IncreasingPrefix ==
    ASSUME NEW s \in Seq(Nat), NEW k \in 0..Len(s), NEW lo \in Nat, NEW hi \in Nat,
           Increasing(s), Within(s, lo, hi)
    PROVE  Increasing(SubSeq(s, 1, k)) /\ Within(SubSeq(s, 1, k), lo, hi)
<1>1. \A i \in 1..k : s[i] \in Nat
    OBVIOUS
<1>2. /\ Len(SubSeq(s, 1, k)) = k
      /\ \A i \in 1..k : SubSeq(s, 1, k)[i] = s[i]
    BY <1>1, SubSeqProperties
<1> QED  BY <1>2 DEF Increasing, Within

(* A released chunk's alerts continue what is already written.             *)
LEMMA ReleaseOrdered ==
    ASSUME TypeOK, ConfigOK, Ordered, NextIsPending
    PROVE  LET r == result[next_expected]  item == ItemOf(next_expected) IN
           /\ Increasing(out \o r.alerts)
           /\ Within(out \o r.alerts, 0, item.start_line + Len(item.lines))
           /\ \A k \in 0..Len(r.alerts) : Increasing(out \o SubSeq(r.alerts, 1, k))
<1> DEFINE r == result[next_expected]
           item == ItemOf(next_expected)
           lo == item.start_line
           hi == item.start_line + r.next - 1
           end == item.start_line + Len(item.lines)
<1>1. next_expected \in ChunkIds /\ mpc # "done"
    BY DEF NextIsPending, TypeOK
<1>2. r \in ChunkResult /\ r.alerts \in Seq(Nat) /\ r.next \in Nat \ {0} /\ out \in Seq(Nat)
  <2>1. r \in ChunkResult /\ out \in Seq(Nat)
    BY <1>1 DEF TypeOK
  <2> QED  BY <2>1 DEF ChunkResult
<1>3. item \in Items /\ lo \in Nat /\ Len(item.lines) \in Nat
    BY <1>1, ItemOfType DEF Items
<1>4. /\ r.next <= Len(item.lines) + 1
      /\ Increasing(r.alerts) /\ Within(r.alerts, lo, hi)
      /\ Increasing(out) /\ Within(out, 0, lo)
  <2>1. JobOrdered(next_expected) /\ Increasing(out) /\ WrittenBelowNext
    BY <1>1 DEF Ordered
  <2>2. Within(out, 0, lo)
    BY <1>1, <2>1 DEF WrittenBelowNext
  <2> QED  BY <2>1, <2>2 DEF JobOrdered
<1>5. hi \in Nat /\ lo <= hi /\ end \in Nat /\ hi <= end
  <2>1. \A a, n, m \in Nat :
            n # 0 /\ n <= m + 1 =>
                /\ a + n - 1 \in Nat /\ a <= a + n - 1
                /\ a + m \in Nat /\ a + n - 1 <= a + m
    OBVIOUS
  <2>2. /\ lo \in Nat /\ r.next \in Nat /\ r.next # 0
        /\ Len(item.lines) \in Nat /\ r.next <= Len(item.lines) + 1
    BY <1>2, <1>3, <1>4
  <2> QED  BY <2>1, <2>2
<1> HIDE DEF r, item, lo, hi, end
<1>6. Increasing(out \o r.alerts) /\ Within(out \o r.alerts, 0, hi)
    BY <1>2, <1>3, <1>4, <1>5, IncreasingConcat
<1>7. Within(out \o r.alerts, 0, end)
  <2>1. out \o r.alerts \in Seq(Nat)
    BY <1>2
  <2> QED  BY <1>5, <1>6, <2>1 DEF Within
<1>8. ASSUME NEW k \in 0..Len(r.alerts)
      PROVE  Increasing(out \o SubSeq(r.alerts, 1, k))
  <2> DEFINE p == SubSeq(r.alerts, 1, k)
  <2>1. p \in Seq(Nat)
    BY <1>2, PrefixType
  <2>2. Increasing(p) /\ Within(p, lo, hi)
    BY <1>2, <1>3, <1>4, <1>5, IncreasingPrefix
  <2> HIDE DEF p
  <2>3. Increasing(out \o p)
    BY <1>2, <1>3, <1>4, <1>5, <2>1, <2>2, IncreasingConcat
  <2> QED  BY <2>3 DEF p
<1> QED  BY <1>6, <1>7, <1>8 DEF r, item, end

(* The lines of the next chunk follow those of this one.                   *)
LEMMA NextChunkStarts ==
    ASSUME ConfigOK, NEW id \in ChunkIds, id + 1 \in ChunkIds
    PROVE  ItemOf(id + 1).start_line = ItemOf(id).start_line + Len(ItemOf(id).lines)
BY DEF ConfigOK, WellNumbered, ChunkIds, ItemOf

\* Nothing is written at first.
LEMMA OrderedInit == ASSUME Init, ConfigOK PROVE Ordered
<1>1. Increasing(out) /\ WrittenBelowNext
    BY DEF Init, Increasing, Within, WrittenBelowNext
<1>2. ASSUME NEW id \in ChunkIds
      PROVE  JobOrdered(id)
  <2>1. result[id] = NewResult
    BY DEF Init
  <2>2. NewResult.next = 1 /\ NewResult.alerts = <<>>
    BY DEF NewResult
  <2>3. Increasing(<<>>) /\ \A lo, hi : Within(<<>>, lo, hi)
    BY DEF Increasing, Within
  <2>4. Len(ItemOf(id).lines) \in Nat
    BY ItemOfType DEF Items
  <2> QED  BY <2>1, <2>2, <2>3, <2>4 DEF JobOrdered
<1> QED  BY <1>1, <1>2 DEF Ordered

\* Every step keeps alerts, written or found, within their lines and in order.
LEMMA OrderedStep ==
    ASSUME TypeOK, ConfigOK, Ordered, [Next]_vars
    PROVE  Ordered'
<1>a. ChunkIds' = ChunkIds /\ \A id : ItemOf(id)' = ItemOf(id)
    BY DEF ChunkIds, ItemOf, Next, MainNext, MainStep, PoolNext, SpawnChunk, ReadEof, ReadError,
           StopFilling, Recv, ReleaseChunk, ReleaseWriteFails, StopReleasing,
           Return, PoolFails, StartJob, EvalNextLine, SendResult, Finished, vars, config
<1>1. CASE ReleaseChunk
  <2> DEFINE r == result[next_expected]
             item == ItemOf(next_expected)
             end == item.start_line + Len(item.lines)
  <2>1. Increasing(out \o r.alerts) /\ Within(out \o r.alerts, 0, end)
    BY <1>1, ReleaseOrdered DEF ReleaseChunk
  <2>2. out' = out \o r.alerts /\ UNCHANGED result
    BY <1>1 DEF ReleaseChunk, workers
  <2>3. \A id \in ChunkIds' : JobOrdered(id)'
    BY <1>a, <2>2 DEF Ordered, JobOrdered
  <2>4. WrittenBelowNext'
    <3> SUFFICES ASSUME mpc' # "done", next_expected' \in ChunkIds'
                 PROVE  Within(out', 0, ItemOf(next_expected').start_line)
      BY <1>a DEF WrittenBelowNext
    <3>1. next_expected' = next_expected + 1 /\ next_expected \in ChunkIds
      BY <1>1 DEF ReleaseChunk, NextIsPending, TypeOK
    <3>2. ItemOf(next_expected').start_line = end
      BY <1>a, <3>1, NextChunkStarts
    <3> QED  BY <2>1, <2>2, <3>2
  <2>5. Increasing(out)'
    BY <2>1, <2>2 DEF Increasing
  <2> QED  BY <2>3, <2>4, <2>5 DEF Ordered
<1>2. CASE ReleaseWriteFails
  <2>1. PICK k \in 0..Len(result[next_expected].alerts) :
            out' = out \o SubSeq(result[next_expected].alerts, 1, k)
    BY <1>2 DEF ReleaseWriteFails
  <2>2. Increasing(out')
    BY <1>2, <2>1, ReleaseOrdered DEF ReleaseWriteFails
  <2>3. mpc' = "done" /\ UNCHANGED result
    BY <1>2 DEF ReleaseWriteFails, workers
  <2>4. \A id \in ChunkIds' : JobOrdered(id)'
    BY <1>a, <2>3 DEF Ordered, JobOrdered
  <2> QED  BY <2>2, <2>3, <2>4 DEF Ordered, WrittenBelowNext, Increasing
<1>3. ASSUME NEW id \in ChunkIds, EvalNextLine(id)
      PROVE  Ordered'
  <2> DEFINE r == result[id]
             item == ItemOf(id)
             q == ProcessLine(r, item, on_error)
             lo == item.start_line
             hi == item.start_line + r.next - 1
  <2>1. UNCHANGED <<out, mpc, next_expected>> /\ ~ChunkDone(r, item)
    BY <1>3 DEF EvalNextLine, main, JobDone
  <2>2. result' = [result EXCEPT ![id] = q]
    BY <1>3 DEF EvalNextLine
  <2>3. r \in ChunkResult /\ item \in Items
    BY ItemOfType DEF TypeOK
  <2>4. /\ r.next \in Nat \ {0} /\ r.alerts \in Seq(Nat) /\ lo \in Nat
        /\ Len(item.lines) \in Nat
    BY <2>3 DEF ChunkResult, Items
  <2>5. hi \in Nat /\ lo <= hi /\ r.next + 1 <= Len(item.lines) + 1
    BY <2>1, <2>4 DEF ChunkDone
  <2>6. Increasing(r.alerts) /\ Within(r.alerts, lo, hi)
    BY DEF Ordered, JobOrdered
  <2>7. q.next = r.next + 1 /\ q.alerts \in {r.alerts, Append(r.alerts, hi)}
    BY DEF ProcessLine, LineNumber
  <2>8. Increasing(q.alerts) /\ Within(q.alerts, lo, hi + 1)
    <3> HIDE DEF r, item, q, lo, hi
    <3>1. CASE q.alerts = r.alerts
      BY <2>4, <2>5, <2>6, <3>1 DEF Within
    <3>2. CASE q.alerts = Append(r.alerts, hi)
      BY <2>4, <2>5, <2>6, <3>2, IncreasingAppend
    <3> QED  BY <2>7, <3>1, <3>2
  <2>9. \A k \in ChunkIds' : JobOrdered(k)'
    <3> SUFFICES ASSUME NEW k \in ChunkIds
                 PROVE  JobOrdered(k)'
      BY <1>a
    <3>1. CASE k # id
      <4>1. result'[k] = result[k]
        BY <2>2, <3>1 DEF TypeOK
      <4> QED  BY <1>a, <4>1 DEF Ordered, JobOrdered
    <3>2. CASE k = id
      <4>1. result'[k] = q
        BY <2>2, <3>2 DEF TypeOK
      <4>2. hi + 1 = lo + q.next - 1
        BY <2>4, <2>7
      <4> QED  BY <1>a, <2>5, <2>7, <2>8, <3>2, <4>1, <4>2 DEF JobOrdered
    <3> QED  BY <3>1, <3>2
  <2> QED  BY <1>a, <2>1, <2>9 DEF Ordered, WrittenBelowNext
<1>4. CASE UNCHANGED <<out, next_expected, result>> /\ (mpc = "done" => mpc' = "done")
    BY <1>4, <1>a DEF Ordered, WrittenBelowNext, JobOrdered
<1> QED
    BY <1>1, <1>2, <1>3, <1>4
       DEF Next, MainNext, MainStep, PoolNext, SpawnChunk, ReadEof, ReadError, CanFill,
           StopFilling, Recv, StopReleasing, Return, PoolFails, StartJob,
           SendResult, Finished, vars, main, workers

(* Alerts appear on stdout in line order, for every number of threads and  *)
(* every schedule of the pool.                                             *)
THEOREM AlertsStayInOrder == Spec => []AlertsInOrder
<1>1. Init /\ ConfigOK => Ordered
  BY OrderedInit
<1>2. TypeOK /\ ConfigOK /\ Ordered /\ [Next]_vars => Ordered'
  BY OrderedStep
<1>3. Ordered => AlertsInOrder
  BY DEF Ordered, Increasing, AlertsInOrder
<1> QED  BY <1>1, <1>2, <1>3, Typing, PTL DEF Spec
-----------------------------------------------------------------------------
(* The error samples.  What the workers have counted is exactly the lines  *)
(* they have looked at that may be sampled, each once; what they reported  *)
(* is as many of these as the allowance admits.                            *)

SeenOf(id) ==
    {n \in Nat : \E j \in 1..(result[id].next - 1) :
                    ItemOf(id).lines[j] \in Sampled /\ n = ItemOf(id).start_line + j - 1}

Seen == UNION {SeenOf(id) : id \in ChunkIds}

Counting ==
    /\ IsFiniteSet(Seen) /\ IsFiniteSet(sampled)
    /\ MaxSamples > 0 => samples = Cardinality(Seen)
    /\ MaxSamples = 0 => samples = 0
    /\ Cardinality(sampled) = IF samples < MaxSamples THEN samples ELSE MaxSamples
    /\ sampled \subseteq Seen

(* How far each job is, by where its chunk is.                             *)
Progress ==
    /\ \A id \in queued \union running : id \in next_expected..(taken - 1)
    /\ queued \intersect running = {}
    /\ \A id \in ChunkIds : id \in queued \/ id >= taken => result[id] = NewResult
    /\ \A id \in ChunkIds :
          id < next_expected \/ id \in pending \/ id \in Elements(chan) => JobDone(id)
    /\ \A id \in ChunkIds : id < next_expected => ~result[id].fatal
    /\ verdict = "ok" => mpc = "done" /\ next_expected = taken

\* A set of numbers has a least one.
LEMMA LeastNat ==
    ASSUME NEW T, T \subseteq Nat, T # {}
    PROVE  \E m \in T : \A k \in T : m <= k
<1>1. PICK m \in T : \A k \in T : <<k, m>> \notin OpToRel(<, Nat)
    BY WFMin, NatLessThanWellFounded, Zenon
<1>2. \A k \in T : ~(k < m)
    BY <1>1, Zenon DEF OpToRel
<1> QED  BY <1>2

(* The lines of a chunk lie below those of every later chunk: otherwise     *)
(* the first later chunk that fails this follows one that does not.         *)
LEMMA ChunksApart ==
    ASSUME ConfigOK, NEW a \in ChunkIds, NEW b \in ChunkIds, a < b
    PROVE  ItemOf(a).start_line + Len(ItemOf(a).lines) <= ItemOf(b).start_line
<1> DEFINE end == ItemOf(a).start_line + Len(ItemOf(a).lines)
           Bad == {id \in ChunkIds : id > a /\ ~(end <= ItemOf(id).start_line)}
<1>1. \A id \in ChunkIds : ItemOf(id).start_line \in Nat /\ Len(ItemOf(id).lines) \in Nat
    BY ItemOfType DEF Items
<1>2. ChunkIds \subseteq Nat /\ \A id \in ChunkIds : id > a => id - 1 \in ChunkIds /\ id - 1 >= a
    BY DEF ChunkIds, ConfigOK
<1>3. SUFFICES ASSUME Bad # {} PROVE FALSE
    OBVIOUS
<1>4. PICK c \in Bad : \A k \in Bad : c <= k
    BY <1>2, <1>3, LeastNat
<1>5. c \in ChunkIds /\ c \in Nat /\ c > a /\ c - 1 \in ChunkIds /\ c - 1 >= a /\ c - 1 \notin Bad
    BY <1>2, <1>4
<1>6. ItemOf((c - 1) + 1).start_line
        = ItemOf(c - 1).start_line + Len(ItemOf(c - 1).lines)
    <2>1. (c - 1) + 1 = c
        BY <1>5
    <2> QED  BY <1>5, <2>1, NextChunkStarts
<1>7. ItemOf(c).start_line = ItemOf(c - 1).start_line + Len(ItemOf(c - 1).lines)
    <2>1. (c - 1) + 1 = c
        BY <1>5
    <2> QED  BY <1>6, <2>1
<1>8. CASE c - 1 = a
    BY <1>1, <1>4, <1>5, <1>7, <1>8
<1>9. CASE c - 1 > a
    <2>1. end <= ItemOf(c - 1).start_line
        BY <1>5, <1>9
    <2> QED  BY <1>1, <1>4, <1>5, <1>7, <2>1
<1> QED  BY <1>2, <1>5, <1>8, <1>9

\* Progress holds before the first read.
LEMMA ProgressInit == ASSUME Init, ConfigOK PROVE Progress
<1>1. queued = {} /\ running = {} /\ pending = {} /\ Elements(chan) = {}
    BY DEF Init, Elements
<1>2. \A id \in ChunkIds : ~(id < 0)
    BY DEF ChunkIds, ConfigOK
<1> QED  BY <1>1, <1>2 DEF Init, Progress

\* A loop that finished has released all it took.
LEMMA FinishedTaken ==
    ASSUME TypeOK, Flow, mpc = "finish"
    PROVE  next_expected = taken
<1>1. Located /\ Counted /\ inflight = 0 /\ next_expected \notin pending
    BY DEF Flow, InStep
<1>2. Cardinality(queued) \in Nat /\ Cardinality(running) \in Nat /\ Len(chan) \in Nat
    BY <1>1, FS_CardinalityType DEF Counted, TypeOK
<1>3. Cardinality(queued) = 0 /\ Cardinality(running) = 0 /\ Len(chan) = 0
    BY <1>1, <1>2 DEF Counted
<1>4. queued = {} /\ running = {}
    BY <1>1, <1>3, FS_EmptySet DEF Counted
<1>5. Elements(chan) = {}
    BY <1>3 DEF Elements
<1>6. pending = next_expected..(taken - 1)
    BY <1>1, <1>4, <1>5 DEF Located
<1> QED  BY <1>1, <1>6 DEF Located, TypeOK

\* The main thread's steps keep Progress.
LEMMA ProgressMain ==
    ASSUME TypeOK, ConfigOK, Flow, Progress, MainNext
    PROVE  Progress'
<1>0. /\ ChunkIds' = ChunkIds /\ result' = result /\ running' = running
      /\ UNCHANGED <<input, on_error>>
    BY DEF MainNext, MainStep, SpawnChunk, ReadEof, ReadError, StopFilling, Recv, ReleaseChunk,
           ReleaseWriteFails, StopReleasing, Return, PoolFails, workers, config, ChunkIds
<1>1. \A id : JobDone(id)' = JobDone(id)
    BY <1>0 DEF JobDone, ItemOf
<1>2. ChunkIds \subseteq Nat /\ taken \in Nat /\ next_expected \in Nat
    BY DEF ChunkIds, ConfigOK, TypeOK
<1>3. mpc # "done" /\ Located /\ verdict # "ok"
    BY DEF MainNext, MainStep, SpawnChunk, ReadEof, ReadError, StopFilling, Recv, ReleaseChunk,
           ReleaseWriteFails, StopReleasing, Return, PoolFails, CanFill, NextIsPending, Flow,
           Progress
<1>a. CASE SpawnChunk
    <2>1. /\ queued' = queued \union {taken} /\ taken' = taken + 1
          /\ UNCHANGED <<next_expected, pending, chan, verdict, mpc>>
        BY <1>a DEF SpawnChunk
    <2>2. next_expected <= taken
        BY <1>2, <1>3 DEF Located
    <2>3. \A id \in queued' \union running' : id \in next_expected'..(taken' - 1)
        BY <1>0, <1>2, <2>1, <2>2 DEF Progress
    <2>4. \A id \in ChunkIds : id \in queued' \/ id >= taken' => result'[id] = NewResult
        BY <1>0, <1>2, <2>1 DEF Progress
    <2>5. queued' \intersect running' = {}
        BY <1>0, <1>2, <2>1 DEF Progress
    <2> QED  BY <1>0, <1>1, <1>3, <2>1, <2>3, <2>4, <2>5 DEF Progress, Elements
<1>b. CASE PoolFails \/ ReadEof \/ ReadError \/ StopFilling \/ StopReleasing
             \/ ReleaseWriteFails
    <2>1. /\ pending' \subseteq pending
          /\ UNCHANGED <<queued, taken, next_expected, chan>>
          /\ verdict' # "ok"
        BY <1>3, <1>b
           DEF PoolFails, ReadEof, ReadError, StopFilling, StopReleasing, ReleaseWriteFails
    <2> QED  BY <1>0, <1>1, <2>1 DEF Progress, Elements
<1>c. CASE Recv
    <2>1. /\ chan # <<>> /\ chan' = Tail(chan) /\ pending' = pending \union {Head(chan)}
          /\ UNCHANGED <<queued, taken, next_expected, verdict>>
        BY <1>c DEF Recv
    <2>2. chan \in Seq(ChunkIds) /\ \A i, j \in 1..Len(chan) : i # j => chan[i] # chan[j]
        BY <1>3 DEF TypeOK, Located
    <2>3. Head(chan) \in Elements(chan) /\ Elements(Tail(chan)) = Elements(chan) \ {Head(chan)}
        BY <2>1, <2>2, ElementsTail
    <2>4. \A id : id \in pending' \/ id \in Elements(chan)'
                      => id \in pending \/ id \in Elements(chan)
        BY <2>1, <2>3 DEF Elements
    <2> QED  BY <1>0, <1>1, <1>3, <2>1, <2>4 DEF Progress
<1>d. CASE ReleaseChunk
    <2>1. /\ next_expected \in pending /\ pending' = pending \ {next_expected}
          /\ UNCHANGED <<queued, taken, chan>>
        BY <1>d DEF ReleaseChunk, NextIsPending
    <2>2. CASE result[next_expected].fatal
        <3>1. next_expected' = next_expected /\ verdict' # "ok"
            BY <1>d, <2>2 DEF ReleaseChunk
        <3> QED  BY <1>0, <1>1, <2>1, <3>1 DEF Progress, Elements
    <2>3. CASE ~result[next_expected].fatal
        <3>1. next_expected' = next_expected + 1 /\ verdict' # "ok"
            BY <1>3, <1>d, <2>3 DEF ReleaseChunk
        <3>2. next_expected \notin queued \union running /\ JobDone(next_expected)
            BY <1>3, <2>1 DEF Located, Progress, TypeOK
        <3>3. \A id \in queued \union running : id \in next_expected'..(taken - 1)
            BY <1>2, <3>1, <3>2 DEF Progress
        <3>4. \A id \in ChunkIds : id < next_expected' => id < next_expected \/ id = next_expected
            BY <1>2, <3>1
        <3> QED  BY <1>0, <1>1, <2>1, <2>3, <3>1, <3>2, <3>3, <3>4 DEF Progress, Elements
    <2> QED  BY <2>2, <2>3
<1>e. CASE Return
    <2>1. /\ mpc = "finish" /\ mpc' = "done"
          /\ UNCHANGED <<queued, taken, next_expected, pending, chan>>
        BY <1>e DEF Return
    <2>2. next_expected = taken
        BY <2>1, FinishedTaken
    <2> QED  BY <1>0, <1>1, <2>1, <2>2 DEF Progress, Elements
<1> QED  BY <1>a, <1>b, <1>c, <1>d, <1>e DEF MainNext, MainStep

\* So do those of the pool.
LEMMA ProgressPool ==
    ASSUME TypeOK, ConfigOK, Progress, NEW id \in ChunkIds,
           StartJob(id) \/ EvalNextLine(id) \/ SendResult(id)
    PROVE  Progress'
<1>0. /\ ChunkIds' = ChunkIds
      /\ UNCHANGED <<input, on_error, taken, next_expected, pending, verdict, mpc>>
    BY DEF StartJob, EvalNextLine, SendResult, main, config, ChunkIds
<1>1. ChunkIds \subseteq Nat /\ taken \in Nat /\ next_expected \in Nat
    BY DEF ChunkIds, ConfigOK, TypeOK
<1>a. CASE StartJob(id)
    <2>1. /\ id \in queued /\ queued' = queued \ {id} /\ running' = running \union {id}
          /\ UNCHANGED <<result, chan>>
        BY <1>a DEF StartJob
    <2>2. \A k : JobDone(k)' = JobDone(k)
        BY <1>0, <2>1 DEF JobDone, ItemOf
    <2> QED  BY <1>0, <2>1, <2>2 DEF Progress, Elements
<1>b. CASE EvalNextLine(id)
    <2>1. /\ id \in running /\ ~JobDone(id)
          /\ UNCHANGED <<queued, running, chan>>
          /\ \A k \in ChunkIds : k # id => result'[k] = result[k]
        BY <1>b DEF EvalNextLine, TypeOK
    <2>2. id < taken /\ ~(id < next_expected) /\ id \notin pending /\ id \notin Elements(chan)
        BY <1>1, <2>1 DEF Progress
    <2>3. \A k \in ChunkIds : k # id => JobDone(k)' = JobDone(k)
        BY <1>0, <2>1 DEF JobDone, ItemOf
    <2>4. id \notin queued
        BY <2>1, <1>1 DEF Progress
    <2>5. \A k \in ChunkIds : k \in queued \/ k >= taken => k # id
        BY <1>1, <2>2, <2>4
    <2> QED  BY <1>0, <2>1, <2>2, <2>3, <2>5 DEF Progress, Elements
<1>c. CASE SendResult(id)
    <2>1. /\ id \in running /\ JobDone(id) /\ running' = running \ {id}
          /\ UNCHANGED <<queued, result>>
          /\ chan' = Append(chan, id) \/ chan' = chan
        BY <1>c DEF SendResult
    <2>2. \A k : JobDone(k)' = JobDone(k)
        BY <1>0, <2>1 DEF JobDone, ItemOf
    <2>3. \A k : k \in Elements(chan)' => k \in Elements(chan) \/ k = id
        <3>1. Elements(Append(chan, id)) = Elements(chan) \union {id}
            BY ElementsAppend DEF TypeOK
        <3> QED  BY <2>1, <3>1 DEF Elements
    <2> QED  BY <1>0, <2>1, <2>2, <2>3 DEF Progress
<1> QED  BY <1>a, <1>b, <1>c

\* Progress holds throughout.
LEMMA ProgressHolds == Spec => []Progress
<1>1. Init /\ ConfigOK => Progress
  BY ProgressInit
<1>2. TypeOK /\ ConfigOK /\ Flow /\ Progress /\ [Next]_vars => Progress'
  <2> SUFFICES ASSUME TypeOK, ConfigOK, Flow, Progress, [Next]_vars PROVE Progress'
    OBVIOUS
  <2>1. CASE MainNext
    BY <2>1, ProgressMain
  <2>2. CASE PoolNext
    BY <2>2, ProgressPool DEF PoolNext
  <2>3. CASE UNCHANGED vars
    BY <2>3 DEF vars, main, workers, config, Progress, Elements, JobDone, ItemOf, ChunkIds
  <2> QED  BY <2>1, <2>2, <2>3 DEF Next, Finished
<1> QED  BY <1>1, <1>2, Typing, FlowHolds, PTL DEF Spec

-----------------------------------------------------------------------------
\* No line is looked at and no sample taken at first.
LEMMA CountingInit == ASSUME Init, ConfigOK PROVE Counting
<1>1. \A id \in ChunkIds : result[id].next = 1
    BY DEF Init, NewResult
<1>2. Seen = {}
    BY <1>1 DEF Seen, SeenOf
<1>3. sampled = {} /\ samples = 0
    BY DEF Init
<1>4. IsFiniteSet({}) /\ Cardinality({}) = 0
    BY FS_EmptySet
<1> QED  BY <1>2, <1>3, <1>4, SamplesAssumption DEF Counting

(* One more line looked at is one more line counted, if it may be sampled:  *)
(* no other chunk has a line of that number.                                *)
LEMMA SeenGrows ==
    ASSUME TypeOK, ConfigOK, NEW id \in ChunkIds, EvalNextLine(id),
           \A k \in ChunkIds : result[k].next <= Len(ItemOf(k).lines) + 1
    PROVE  LET line == LineNumber(result[id], ItemOf(id))
               kind == ItemOf(id).lines[result[id].next] IN
           /\ line \in Nat /\ line \notin Seen
           /\ Seen' = IF kind \in Sampled THEN Seen \union {line} ELSE Seen
<1> DEFINE item == ItemOf(id)
           next == result[id].next
           line == LineNumber(result[id], item)
           kind == item.lines[next]
<1>1. \A k \in ChunkIds : /\ ItemOf(k).start_line \in Nat \ {0}
                          /\ Len(ItemOf(k).lines) \in Nat
                          /\ result[k].next \in Nat \ {0}
    <2>1. \A k \in ChunkIds : ItemOf(k) \in Items /\ result[k] \in ChunkResult
        BY ItemOfType DEF TypeOK
    <2> QED  BY <2>1 DEF Items, ChunkResult
<1>2. /\ id \in running /\ next <= Len(item.lines)
      /\ ChunkIds' = ChunkIds /\ UNCHANGED <<input, on_error>>
      /\ \A k \in ChunkIds : k # id => result'[k] = result[k]
      /\ result'[id].next = next + 1
    <2>1. /\ id \in running /\ ~JobDone(id) /\ UNCHANGED <<input, on_error>>
          /\ result' = [result EXCEPT ![id] = ProcessLine(@, item, on_error)]
        BY DEF EvalNextLine, config
    <2>2. ~(next > Len(item.lines))
        BY <2>1 DEF JobDone, ChunkDone
    <2>3. result'[id] = ProcessLine(result[id], item, on_error)
        BY <2>1 DEF TypeOK
    <2>4. result'[id].next = next + 1
        BY <2>3 DEF ProcessLine
    <2> QED  BY <1>1, <2>1, <2>2, <2>4 DEF TypeOK, ChunkIds
<1>3. \A k : ItemOf(k)' = ItemOf(k)
    BY <1>2 DEF ItemOf
<1>4. line = item.start_line + next - 1 /\ line \in Nat
    BY <1>1 DEF LineNumber
<1>5. line \notin Seen
    <2> SUFFICES ASSUME NEW k \in ChunkIds, NEW j \in 1..(result[k].next - 1),
                        line = ItemOf(k).start_line + j - 1
                 PROVE  FALSE
        BY DEF Seen, SeenOf
    <2>1. CASE k = id
        BY <1>1, <1>4, <2>1
    <2>2. CASE k # id
        <3>1. k < id \/ id < k
            BY <2>2 DEF ChunkIds, ConfigOK
        <3>2. j <= Len(ItemOf(k).lines) /\ j \in Nat
            BY <1>1
        <3>3. CASE k < id
            <4>1. ItemOf(k).start_line + Len(ItemOf(k).lines) <= item.start_line
                BY <3>3, ChunksApart
            <4>2. PICK x \in Nat, y \in Nat, l \in Nat :
                    x = ItemOf(k).start_line /\ y = item.start_line /\ l = Len(ItemOf(k).lines)
                BY <1>1
            <4>3. x + l <= y /\ j <= l /\ line = x + j - 1
                BY <3>2, <4>1, <4>2
            <4>4. line = y + next - 1 /\ next >= 1 /\ next \in Nat
                BY <1>1, <1>4, <4>2
            <4>5. PICK nx \in Nat : nx = next
                BY <4>4
            <4> HIDE DEF line, next, kind, item
            <4>6. j \in Nat /\ j <= l /\ x + l <= y /\ nx >= 1
                BY <3>2, <4>3, <4>4, <4>5
            <4>7. x + j - 1 = y + nx - 1
                BY <4>3, <4>4, <4>5
            <4> QED  BY ONLY <4>2, <4>5, <4>6, <4>7
        <3>4. CASE id < k
            <4>1. item.start_line + Len(item.lines) <= ItemOf(k).start_line
                BY <3>4, ChunksApart
            <4>2. PICK x \in Nat, y \in Nat, l \in Nat :
                    x = ItemOf(k).start_line /\ y = item.start_line /\ l = Len(item.lines)
                BY <1>1
            <4>3. y + l <= x /\ next <= l /\ line = x + j - 1 /\ j >= 1
                BY <1>1, <1>2, <4>1, <4>2
            <4>4. line = y + next - 1 /\ next \in Nat
                BY <1>1, <1>4, <4>2
            <4>5. PICK nx \in Nat : nx = next
                BY <4>4
            <4> HIDE DEF line, next, kind, item
            <4>6. j \in Nat /\ j >= 1 /\ y + l <= x /\ nx <= l
                BY <3>2, <4>3, <4>5
            <4>7. x + j - 1 = y + nx - 1
                BY <4>3, <4>4, <4>5
            <4> QED  BY ONLY <4>2, <4>5, <4>6, <4>7
        <3> QED  BY <3>1, <3>3, <3>4
    <2> QED  BY <2>1, <2>2
<1>6. \A k \in ChunkIds : k # id => SeenOf(k)' = SeenOf(k)
    BY <1>2, <1>3 DEF SeenOf
<1>7. SeenOf(id)' = IF kind \in Sampled THEN SeenOf(id) \union {line} ELSE SeenOf(id)
    <2>1. SeenOf(id)' = {n \in Nat : \E j \in 1..next :
                            item.lines[j] \in Sampled /\ n = item.start_line + j - 1}
        <3>1. (next + 1) - 1 = next
            BY <1>1
        <3> QED  BY <1>2, <1>3, <3>1 DEF SeenOf
    <2>2. \A j : j \in 1..next <=> j \in 1..(next - 1) \/ j = next
        BY <1>1
    <2> QED  BY <1>4, <2>1, <2>2 DEF SeenOf
<1>8. Seen' = UNION {SeenOf(k)' : k \in ChunkIds}
    BY <1>2 DEF Seen
<1>9. Seen' = IF kind \in Sampled THEN Seen \union {line} ELSE Seen
    BY <1>6, <1>7, <1>8 DEF Seen
<1> QED  BY <1>4, <1>5, <1>9

\* Every step counts a line that may be sampled exactly once.
LEMMA CountingStep ==
    ASSUME TypeOK, ConfigOK, Ordered, Counting, [Next]_vars
    PROVE  Counting'
<1>1. ASSUME NEW id \in ChunkIds, EvalNextLine(id) PROVE Counting'
    <2> DEFINE line == LineNumber(result[id], ItemOf(id))
               kind == ItemOf(id).lines[result[id].next]
    <2>1. \A k \in ChunkIds : result[k].next <= Len(ItemOf(k).lines) + 1
        BY DEF Ordered, JobOrdered
    <2>2. /\ line \in Nat /\ line \notin Seen
          /\ Seen' = IF kind \in Sampled THEN Seen \union {line} ELSE Seen
        BY <1>1, <2>1, SeenGrows
    <2>3. /\ samples' = IF kind \in Sampled /\ MaxSamples > 0 THEN samples + 1 ELSE samples
          /\ sampled' = IF kind \in Sampled /\ MaxSamples > 0 /\ samples < MaxSamples
                        THEN sampled \union {line} ELSE sampled
        BY <1>1 DEF EvalNextLine, MayReport
    <2>4. samples \in Nat /\ MaxSamples \in Nat
        BY SamplesAssumption DEF TypeOK
    <2>5. IsFiniteSet(Seen) /\ IsFiniteSet(sampled) /\ line \notin sampled
        BY <2>2 DEF Counting
    <2> HIDE DEF line, kind
    <2>6. /\ IsFiniteSet(Seen \union {line}) /\ IsFiniteSet(sampled \union {line})
          /\ Cardinality(Seen \union {line}) = Cardinality(Seen) + 1
          /\ Cardinality(sampled \union {line}) = Cardinality(sampled) + 1
        BY <2>2, <2>5, FS_AddElement
    <2>7. CASE kind \notin Sampled
        BY <2>2, <2>3, <2>7 DEF Counting
    <2>8. CASE kind \in Sampled /\ MaxSamples = 0
        <3>1. /\ samples' = samples /\ sampled' = sampled
              /\ Seen' = Seen \union {line}
            BY <2>2, <2>3, <2>4, <2>8
        <3> QED  BY <2>4, <2>6, <2>8, <3>1 DEF Counting
    <2>9. CASE kind \in Sampled /\ MaxSamples > 0
        <3>1. /\ samples' = samples + 1 /\ Seen' = Seen \union {line}
              /\ sampled' = IF samples < MaxSamples THEN sampled \union {line} ELSE sampled
            BY <2>2, <2>3, <2>4, <2>9
        <3>2. samples = Cardinality(Seen)
            BY <2>9 DEF Counting
        <3>3. CASE samples < MaxSamples
            <4>1. sampled' = sampled \union {line} /\ Cardinality(sampled) = samples
                BY <3>1, <3>3 DEF Counting
            <4>2. Cardinality(sampled') = IF samples' < MaxSamples THEN samples' ELSE MaxSamples
                BY <2>4, <2>6, <3>1, <3>3, <4>1
            <4> QED  BY <2>4, <2>6, <2>9, <3>1, <3>2, <4>1, <4>2 DEF Counting
        <3>4. CASE ~(samples < MaxSamples)
            <4>1. sampled' = sampled /\ Cardinality(sampled) = MaxSamples
                BY <3>1, <3>4 DEF Counting
            <4>2. Cardinality(sampled') = IF samples' < MaxSamples THEN samples' ELSE MaxSamples
                BY <2>4, <3>1, <3>4, <4>1
            <4> QED  BY <2>4, <2>6, <2>9, <3>1, <3>2, <4>1, <4>2 DEF Counting
        <3> QED  BY <3>3, <3>4
    <2> QED  BY <2>4, <2>7, <2>8, <2>9
<1>2. CASE UNCHANGED <<input, result, samples, sampled>>
    <2>1. Seen' = Seen
        BY <1>2 DEF Seen, SeenOf, ItemOf, ChunkIds
    <2> QED  BY <1>2, <2>1 DEF Counting
<1> QED
    BY <1>1, <1>2
       DEF Next, MainNext, MainStep, PoolNext, SpawnChunk, ReadEof, ReadError, StopFilling,
           Recv, ReleaseChunk, ReleaseWriteFails, StopReleasing, Return, PoolFails, StartJob,
           SendResult, Finished, vars, main, workers, config

(* The workers together report no more than --max-error-samples lines, and   *)
(* a run that returns Ok wasted none of the allowance: for any number of     *)
(* threads, any input and any schedule.                                      *)
THEOREM SamplesStayCapped == Spec => []SamplesAreCapped
<1>1. Init /\ ConfigOK => Counting
  BY CountingInit
<1>2. TypeOK /\ ConfigOK /\ Ordered /\ Counting /\ [Next]_vars => Counting'
  BY CountingStep
<1>3. TypeOK /\ ConfigOK /\ Ordered /\ Progress /\ Counting => SamplesAreCapped
  <2> SUFFICES ASSUME TypeOK, ConfigOK, Ordered, Progress, Counting PROVE SamplesAreCapped
    OBVIOUS
  <2>1. samples \in Nat /\ MaxSamples \in Nat
    BY SamplesAssumption DEF TypeOK
  <2>2. Cardinality(sampled) <= MaxSamples
    BY <2>1 DEF Counting
  <2>3. ASSUME verdict = "ok"
        PROVE  SampledLines = Seen
    <3>1. next_expected = taken /\ taken \in 0..Len(input) /\ Len(input) \in Nat
      BY <2>3 DEF Progress, TypeOK, ConfigOK
    <3>2. \A id \in ChunkIds : ItemOf(id) \in Items /\ result[id] \in ChunkResult
      BY ItemOfType DEF TypeOK
    <3>3. \A id \in ChunkIds :
            /\ ItemOf(id).start_line \in Nat \ {0} /\ Len(ItemOf(id).lines) \in Nat
            /\ DOMAIN ItemOf(id).lines = 1..Len(ItemOf(id).lines)
            /\ result[id].next \in Nat
      BY <3>2 DEF Items, ChunkResult
    <3>4. \A id \in ChunkIds : id < taken => result[id].next - 1 = Len(ItemOf(id).lines)
      <4> SUFFICES ASSUME NEW id \in ChunkIds, id < taken
                   PROVE  result[id].next - 1 = Len(ItemOf(id).lines)
        OBVIOUS
      <4>1. JobDone(id) /\ ~result[id].fatal
        BY <3>1 DEF Progress
      <4>2. result[id].next > Len(ItemOf(id).lines)
        BY <4>1 DEF JobDone, ChunkDone
      <4>3. result[id].next <= Len(ItemOf(id).lines) + 1
        BY DEF Ordered, JobOrdered
      <4> QED  BY <3>3, <4>2, <4>3
    <3>5. \A id \in ChunkIds : id >= taken => SeenOf(id) = {}
      <4>1. \A id \in ChunkIds : id >= taken => result[id].next = 1
        BY DEF Progress, NewResult
      <4> QED  BY <4>1 DEF SeenOf
    <3>6. \A id \in ChunkIds : id < taken =>
            SeenOf(id) = {ItemOf(id).start_line + i - 1 :
               i \in {j \in DOMAIN ItemOf(id).lines : ItemOf(id).lines[j] \in Sampled}}
      <4> SUFFICES ASSUME NEW id \in ChunkIds, id < taken
                   PROVE  SeenOf(id) = {ItemOf(id).start_line + i - 1 :
               i \in {j \in DOMAIN ItemOf(id).lines : ItemOf(id).lines[j] \in Sampled}}
        OBVIOUS
      <4>1. 1..(result[id].next - 1) = DOMAIN ItemOf(id).lines
        BY <3>3, <3>4
      <4>2. \A j \in DOMAIN ItemOf(id).lines : ItemOf(id).start_line + j - 1 \in Nat
        BY <3>3
      <4> QED  BY <4>1, <4>2 DEF SeenOf
    <3>7. /\ \A id \in 0..(taken - 1) : id \in ChunkIds /\ id < taken
          /\ \A id \in ChunkIds : id \in 0..(taken - 1) \/ id >= taken
      BY <3>1 DEF ChunkIds
    <3>8. SampledLines = UNION {SeenOf(id) : id \in 0..(taken - 1)}
      BY <3>6, <3>7 DEF SampledLines
    <3> QED  BY <3>5, <3>7, <3>8 DEF Seen
  <2>4. Cardinality(Seen) \in Nat
    BY FS_CardinalityType DEF Counting
  <2>5. ASSUME verdict = "ok"
        PROVE  Cardinality(sampled) = IF Cardinality(SampledLines) < MaxSamples
                                      THEN Cardinality(SampledLines) ELSE MaxSamples
    <3>1. CASE MaxSamples > 0
      BY <2>3, <2>5, <3>1 DEF Counting
    <3>2. CASE MaxSamples = 0
      BY <2>1, <2>3, <2>4, <2>5, <3>2 DEF Counting
    <3> QED  BY <2>1, <3>1, <3>2
  <2> QED  BY <2>2, <2>5 DEF SamplesAreCapped
<1>4. Init /\ ConfigOK => Ordered
  BY OrderedInit
<1>5. TypeOK /\ ConfigOK /\ Ordered /\ [Next]_vars => Ordered'
  BY OrderedStep
<1> QED  BY <1>1, <1>2, <1>3, <1>4, <1>5, Typing, ProgressHolds, PTL DEF Spec

-----------------------------------------------------------------------------
(***************************************************************************)
(* run_pipeline_mt implements OrderedSink, for every number of threads,    *)
(* input, mode and schedule: whatever the pool does, the program writes,   *)
(* counts and returns what writing the chunks one after another would      *)
(* give.  Each step of the main thread is a step of the sink or invisible; *)
(* the steps of the pool are all invisible.                                *)
(***************************************************************************)
JobTallied(id) == Tallied(result[id], ItemOf(id), on_error)

\* Every chunk starts tallied.
LEMMA TalliedInit == ASSUME Init, ConfigOK PROVE \A id \in ChunkIds : JobTallied(id)
BY TalliedNew, ItemOfType DEF Init, JobTallied

-----------------------------------------------------------------------------
(* The flags of the reader.                                                *)
ReadFlags ==
    /\ stats.err_io_read > 0 => eof
    /\ fatal_io <=> stats.err_io_read > 0 /\ on_error = "fail-fast"
    /\ mpc = "finish" => eof
    /\ verdict = "running" <=> mpc # "done"

SinkInv ==
    /\ \A id \in ChunkIds : JobTallied(id)
    /\ ReadFlags

\* What the refinement needs holds at first.
LEMMA SinkInvInit == ASSUME Init, ConfigOK PROVE SinkInv
<1>1. ReadFlags
    BY DEF Init, ReadFlags, ZeroMetrics
<1> QED  BY <1>1, TalliedInit DEF SinkInv

\* Every step keeps every chunk tallied.
LEMMA TalliedKept ==
    ASSUME TypeOK, ConfigOK, SinkInv, [Next]_vars
    PROVE  \A id \in ChunkIds' : JobTallied(id)'
<1>1. ChunkIds' = ChunkIds /\ on_error' = on_error /\ \A id : ItemOf(id)' = ItemOf(id)
    BY DEF ChunkIds, ItemOf, Next, MainNext, MainStep, PoolNext, SpawnChunk, ReadEof, ReadError,
           StopFilling, Recv, ReleaseChunk, ReleaseWriteFails, StopReleasing,
           Return, PoolFails, StartJob, EvalNextLine, SendResult, Finished, vars, config
<1>2. ASSUME NEW id \in ChunkIds, result'[id] = result[id]
      PROVE  JobTallied(id)'
    BY <1>1, <1>2 DEF SinkInv, JobTallied
<1>3. ASSUME NEW id \in ChunkIds, EvalNextLine(id)
      PROVE  \A k \in ChunkIds' : JobTallied(k)'
    <2> SUFFICES ASSUME NEW k \in ChunkIds PROVE JobTallied(k)'
        BY <1>1
    <2>1. k # id => result'[k] = result[k]
        BY <1>3 DEF EvalNextLine, TypeOK
    <2>2. CASE k = id
        <3>1. /\ ItemOf(id) \in Items /\ result[id] \in ChunkResult
              /\ ~ChunkDone(result[id], ItemOf(id))
            BY <1>3, ItemOfType DEF EvalNextLine, JobDone, TypeOK
        <3>2. Tallied(ProcessLine(result[id], ItemOf(id), on_error), ItemOf(id), on_error)
            BY <3>1, TalliedStep DEF SinkInv, JobTallied
        <3>3. result'[id] = ProcessLine(result[id], ItemOf(id), on_error)
            BY <1>3 DEF EvalNextLine, TypeOK
        <3> QED  BY <1>1, <2>2, <3>2, <3>3 DEF JobTallied
    <2> QED  BY <1>2, <2>1, <2>2
<1>4. CASE result' = result
    BY <1>1, <1>2, <1>4
<1> QED
    BY <1>3, <1>4
       DEF Next, MainNext, MainStep, PoolNext, SpawnChunk, ReadEof, ReadError, StopFilling, Recv,
           ReleaseChunk, ReleaseWriteFails, StopReleasing, Return, PoolFails, StartJob,
           SendResult, Finished, vars, workers

(* A chunk charges no read error, so releasing one does not touch the flags. *)
LEMMA ReleaseChargesNoRead ==
    ASSUME TypeOK, SinkInv, NextIsPending
    PROVE  MergeInto(result[next_expected].trust, stats).err_io_read = stats.err_io_read
<1>1. stats.err_io_read \in Nat
    BY DEF TypeOK, Metrics
<1>2. next_expected \in ChunkIds
    BY DEF NextIsPending, TypeOK
<1>3. JobTallied(next_expected)
    BY <1>2 DEF SinkInv
<1>4. result[next_expected].trust
         = TrustUpTo(ItemOf(next_expected), result[next_expected].next - 1)
    BY ONLY <1>3 DEF JobTallied, Tallied
<1>5. \A item, n : TrustUpTo(item, n).err_io_read = 0
    BY DEF TrustUpTo
<1>6. result[next_expected].trust.err_io_read = 0
    BY ONLY <1>4, <1>5
<1> QED  BY <1>1, <1>6 DEF MergeInto

\* Every step keeps eof and fatal_io in line with the counter of read errors.
LEMMA FlagsKept ==
    ASSUME TypeOK, SinkInv, [Next]_vars
    PROVE  ReadFlags'
<1>1. stats.err_io_read \in Nat /\ max_inflight > 0
    BY ThreadsAssumption DEF TypeOK, Metrics, max_inflight
<1>2. ReadFlags
    BY DEF SinkInv
<1>3. NextIsPending =>
         MergeInto(result[next_expected].trust, stats).err_io_read = stats.err_io_read
    BY ReleaseChargesNoRead
<1>4. CASE ReleaseChunk
    <2>1. stats'.err_io_read = stats.err_io_read
        BY <1>3, <1>4 DEF ReleaseChunk
    <2> QED  BY <1>2, <1>4, <2>1 DEF ReleaseChunk, ReadFlags, NextIsPending, config
<1>5. CASE ReleaseWriteFails
    <2>1. stats'.err_io_read = stats.err_io_read
        BY <1>3, <1>5 DEF ReleaseWriteFails
    <2> QED  BY <1>2, <1>5, <2>1 DEF ReleaseWriteFails, ReadFlags, NextIsPending, config
<1>6. CASE ReadError
    <2>1. stats'.err_io_read = stats.err_io_read + 1
        BY <1>6 DEF ReadError, MergeInto, IoErrorTrust
    <2>2. /\ eof' /\ (fatal_io' <=> on_error = "fail-fast")
          /\ UNCHANGED <<on_error, mpc, verdict>>
        BY <1>6 DEF ReadError, config
    <2>3. stats'.err_io_read > 0
        BY <1>1, <2>1
    <2> QED  BY <1>2, <2>2, <2>3 DEF ReadFlags
<1>7. CASE StopFilling
    BY <1>1, <1>2, <1>7 DEF StopFilling, CanFill, ReadFlags, config
<1>8. CASE SpawnChunk \/ ReadEof \/ Recv \/ StopReleasing \/ Return \/ PoolFails
    BY <1>2, <1>8 DEF SpawnChunk, ReadEof, Recv, StopReleasing, Return, PoolFails, CanFill,
                      ReadFlags, config
<1>9. CASE UNCHANGED <<config, main>>
    BY <1>2, <1>9 DEF ReadFlags, config, main
<1> QED
    BY <1>4, <1>5, <1>6, <1>7, <1>8, <1>9
       DEF Next, MainNext, MainStep, PoolNext, StartJob, EvalNextLine, SendResult,
           Finished, vars

\* What the refinement needs holds throughout.
LEMMA SinkInvHolds == Spec => []SinkInv
<1>1. Init /\ ConfigOK => SinkInv
  BY SinkInvInit
<1>2. TypeOK /\ ConfigOK /\ SinkInv /\ [Next]_vars => SinkInv'
  BY TalliedKept, FlagsKept DEF SinkInv
<1> QED  BY <1>1, <1>2, Typing, PTL DEF Spec

-----------------------------------------------------------------------------
\* The sink counts sets as the pipeline does.
LEMMA SameCardinality == \A S : Sink!Cardinality(S) = Cardinality(S)
BY DEF Sink!Cardinality, Cardinality, Sink!IsFiniteSet, IsFiniteSet

(* A finished job has counted and found what the sink declares of its chunk. *)
LEMMA JobMeetsDeclaration ==
    ASSUME TypeOK, ConfigOK, NEW id \in ChunkIds, JobTallied(id), JobDone(id)
    PROVE  /\ result[id].trust = Sink!DeclaredTrust(ItemOf(id))
           /\ result[id].alerts = Sink!DeclaredAlerts(ItemOf(id))
           /\ result[id].fatal <=> Sink!IsFatal(ItemOf(id))
<1> DEFINE r == result[id]
           item == ItemOf(id)
           n == r.next - 1
           F == {i \in 1..Len(item.lines) : item.lines[i] \in Failing}
<1>1. item \in Items /\ r \in ChunkResult
    BY ItemOfType DEF TypeOK
<1>2. /\ r.fatal <=> on_error = "fail-fast" /\ F # {}
      /\ r.fatal => n \in F /\ \A i \in F : n <= i
      /\ ~r.fatal => n = Len(item.lines)
      /\ r.trust = TrustUpTo(item, n)
      /\ r.alerts = [k \in 1..Cardinality(HitsUpTo(item, n)) |-> Nth(HitsUpTo(item, n), k)]
    BY <1>1, TalliedDone DEF JobTallied, JobDone
<1>3. DOMAIN item.lines = 1..Len(item.lines) /\ F \subseteq Nat
    <2>1. item.lines \in Seq(Kinds)
        BY <1>1 DEF Items
    <2> HIDE DEF item
    <2>2. Len(item.lines) \in Nat /\ DOMAIN item.lines = 1..Len(item.lines)
        BY <2>1
    <2>3. F \subseteq 1..Len(item.lines)
        OBVIOUS
    <2> HIDE DEF F
    <2>4. 1..Len(item.lines) \subseteq Nat
        BY <2>2
    <2> QED  BY <2>2, <2>3, <2>4
<1>4. Sink!Failures(item) = F
    BY <1>3 DEF Sink!Failures, Sink!Failing, Failing
<1> HIDE DEF r, item, n, F
<1>5. r.fatal <=> Sink!IsFatal(item)
    BY <1>2, <1>4 DEF Sink!IsFatal
<1>6. Sink!Examined(item) = 1..n
    <2>1. CASE r.fatal
        <3>1. ASSUME NEW x \in F, \A y \in F : x <= y
              PROVE  x = n
            <4>1. n \in F /\ n <= x /\ x <= n
                BY <1>2, <2>1, <3>1
            <4>2. n \in Nat /\ x \in Nat
                BY <1>3, <4>1
            <4> QED  BY <4>1, <4>2
        <3>2. Sink!Min(F) = n
            BY <1>2, <2>1, <3>1 DEF Sink!Min
        <3> QED  BY <1>4, <1>5, <2>1, <3>2 DEF Sink!Examined
    <2>2. CASE ~r.fatal
        BY <1>2, <1>3, <1>5, <2>2 DEF Sink!Examined
    <2> QED  BY <2>1, <2>2
<1>7. r.trust = Sink!DeclaredTrust(item)
    <2>1. \A kinds : Sink!Count(item, kinds) = Count(item, n, kinds)
        BY <1>6, SameCardinality DEF Sink!Count, Count
    <2> QED  BY <1>2, <2>1 DEF Sink!DeclaredTrust, TrustUpTo, Sink!Kinds, Kinds, Sink!Failing, Failing
<1>8. r.alerts = Sink!DeclaredAlerts(item)
    <2>1. Sink!AlertLines(item) = HitsUpTo(item, n)
        BY <1>6 DEF Sink!AlertLines, HitsUpTo
    <2>2. \A S, k : Sink!Nth(S, k) = Nth(S, k)
        BY SameCardinality, Zenon DEF Sink!Nth, Nth
    <2> QED  BY <1>2, <2>1, <2>2, SameCardinality DEF Sink!DeclaredAlerts
<1> QED  BY <1>5, <1>7, <1>8 DEF r, item

-----------------------------------------------------------------------------
(* Every step is a step of the sink, or changes nothing it speaks of.      *)

\* The initial states are OrderedSink's.
LEMMA SinkInit == ASSUME Init, ConfigOK PROVE Sink!Init
<1>1. ReaderState = "open" /\ ReleasedChunks = 0
    BY DEF Init, ReaderState, ReleasedChunks, ZeroMetrics
<1> QED  BY <1>1 DEF Init, Sink!Init, Sink!ZeroMetrics, ZeroMetrics

\* Taking a chunk, the end of the input and a failed read are steps of OrderedSink.
LEMMA ReadSteps ==
    ASSUME TypeOK, SinkInv, SpawnChunk \/ ReadEof \/ ReadError
    PROVE  Sink!Next
<1>1. /\ verdict = "running" /\ ReaderState = "open" /\ stats.err_io_read = 0
      /\ ReleasedChunks' = ReleasedChunks
    <2>1. stats.err_io_read \in Nat /\ ~eof /\ mpc = "fill"
        BY DEF TypeOK, Metrics, SpawnChunk, ReadEof, ReadError, CanFill
    <2>2. ~(stats.err_io_read > 0) /\ verdict = "running"
        BY <2>1 DEF SinkInv, ReadFlags
    <2>3. UNCHANGED <<verdict, next_expected>>
        BY DEF SpawnChunk, ReadEof, ReadError
    <2> QED  BY <2>1, <2>2, <2>3 DEF ReaderState, ReleasedChunks
<1>2. CASE SpawnChunk
    <2>1. ReaderState' = ReaderState
        BY <1>2 DEF SpawnChunk, ReaderState
    <2>2. Sink!Take
        BY <1>1, <1>2, <2>1 DEF SpawnChunk, HasMore, config, Sink!Take
    <2> QED  BY <2>2 DEF Sink!Next
<1>3. CASE ReadEof
    <2>1. ReaderState' = "eof"
        BY <1>1, <1>3 DEF ReadEof, ReaderState
    <2>2. taken = Len(input)
        BY <1>3 DEF ReadEof, HasMore, TypeOK
    <2>3. Sink!ReaderEof
        BY <1>1, <1>3, <2>1, <2>2 DEF ReadEof, config, Sink!ReaderEof
    <2> QED  BY <2>3 DEF Sink!Next
<1>4. CASE ReadError
    <2>1. stats' = Sink!MergeInto(Sink!IoErrorTrust, stats)
        BY <1>4 DEF ReadError, MergeInto, IoErrorTrust, Sink!MergeInto, Sink!IoErrorTrust
    <2>2. stats'.err_io_read = 1
        BY <1>1, <1>4 DEF ReadError, MergeInto, IoErrorTrust
    <2>3. ReaderState' = "failed"
        BY <2>2 DEF ReaderState
    <2>4. Sink!ReaderFails
        BY <1>1, <1>4, <2>1, <2>3 DEF ReadError, config, Sink!ReaderFails
    <2> QED  BY <2>4 DEF Sink!Next
<1> QED  BY <1>2, <1>3, <1>4

\* Writing a chunk, or failing to, is a step of OrderedSink.
LEMMA ReleaseSteps ==
    ASSUME TypeOK, ConfigOK, Flow, Progress, SinkInv,
           ReleaseChunk \/ ReleaseWriteFails
    PROVE  Sink!Next
<1> DEFINE r == result[next_expected]
           item == ItemOf(next_expected)
<1>1. /\ NextIsPending /\ next_expected \in ChunkIds /\ mpc = "release"
      /\ UNCHANGED <<input, on_error, taken, eof>>
    BY DEF ReleaseChunk, ReleaseWriteFails, NextIsPending, TypeOK, config
<1>2. verdict = "running" /\ ReleasedChunks = next_expected
    BY <1>1 DEF SinkInv, ReadFlags, ReleasedChunks
<1>3. next_expected < taken
    BY <1>1 DEF Flow, Located, NextIsPending, TypeOK
<1>4. /\ r.trust = Sink!DeclaredTrust(item)
      /\ r.alerts = Sink!DeclaredAlerts(item)
      /\ r.fatal <=> Sink!IsFatal(item)
    <2>1. JobTallied(next_expected) /\ JobDone(next_expected)
        BY <1>1 DEF SinkInv, Progress, NextIsPending
    <2> QED  BY <1>1, <2>1, JobMeetsDeclaration
<1>5. /\ stats' = Sink!MergeInto(Sink!DeclaredTrust(item), stats)
      /\ ReaderState' = ReaderState
    <2>1. stats' = MergeInto(r.trust, stats)
        BY DEF ReleaseChunk, ReleaseWriteFails
    <2>2. stats'.err_io_read = stats.err_io_read
        BY <1>1, <2>1, ReleaseChargesNoRead
    <2>3. ReaderState' = ReaderState
        BY <1>1, <2>2 DEF ReaderState
    <2> QED  BY <1>4, <2>1, <2>3 DEF MergeInto, Sink!MergeInto
<1>6. item = input[ReleasedChunks + 1]
    BY <1>2 DEF ItemOf
<1> HIDE DEF r, item
<1>7. CASE ReleaseChunk
    <2>1. /\ out' = out \o r.alerts
          /\ IF r.fatal THEN verdict' = "event_error" /\ UNCHANGED next_expected
                        ELSE next_expected' = next_expected + 1 /\ UNCHANGED verdict
        BY <1>7 DEF ReleaseChunk, r
    <2>2. ReleasedChunks' = ReleasedChunks + 1
        BY <1>2, <2>1 DEF ReleasedChunks
    <2>3. verdict' = IF Sink!IsFatal(item) THEN "event_error" ELSE "running"
        BY <1>2, <1>4, <2>1
    <2>4. Sink!Release
        BY <1>1, <1>2, <1>3, <1>4, <1>5, <1>6, <2>1, <2>2, <2>3 DEF Sink!Release
    <2> QED  BY <2>4 DEF Sink!Next
<1>8. CASE ReleaseWriteFails
    <2>1. /\ r.alerts # <<>> /\ verdict' \in {"broken_pipe", "write_error"}
          /\ \E k \in 0..Len(r.alerts) : out' = out \o SubSeq(r.alerts, 1, k)
          /\ UNCHANGED next_expected
        BY <1>8 DEF ReleaseWriteFails, r
    <2>2. ReleasedChunks' = ReleasedChunks
        BY <1>2, <2>1 DEF ReleasedChunks
    <2>3. Sink!WriteFails
        BY <1>1, <1>2, <1>3, <1>4, <1>5, <1>6, <2>1, <2>2 DEF Sink!WriteFails
    <2> QED  BY <2>3 DEF Sink!Next
<1> QED  BY <1>7, <1>8

\* Returning is a step of OrderedSink, with its verdict.
LEMMA ReturnStep ==
    ASSUME TypeOK, Flow, SinkInv, Return
    PROVE  Sink!Next
<1>1. mpc = "finish" /\ UNCHANGED <<input, on_error, taken, eof, stats, out, next_expected>>
    BY DEF Return, config
<1>2. verdict = "running" /\ eof /\ ReleasedChunks = taken
    BY <1>1, FinishedTaken DEF SinkInv, ReadFlags, ReleasedChunks
<1>3. /\ ReaderState' = ReaderState /\ ReaderState # "open"
      /\ ReaderState = "failed" <=> stats.err_io_read > 0
    BY <1>1, <1>2 DEF ReaderState
<1>4. verdict' = IF ReaderState = "failed" /\ on_error = "fail-fast" THEN "io_error" ELSE "ok"
    BY <1>3 DEF Return, SinkInv, ReadFlags
<1>5. ReleasedChunks' = ReleasedChunks
    BY <1>1, <1>2, <1>4 DEF ReleasedChunks
<1>6. Sink!Return
    BY <1>1, <1>2, <1>3, <1>4, <1>5 DEF Sink!Return
<1> QED  BY <1>6 DEF Sink!Next

\* So is a pool that cannot be built.
LEMMA NoPoolStep ==
    ASSUME TypeOK, SinkInv, PoolFails
    PROVE  Sink!Next
<1>1. /\ verdict = "running" /\ ~eof /\ taken = 0 /\ verdict' = "no_pool"
      /\ UNCHANGED <<input, on_error, taken, eof, next_expected, stats, out>>
    BY DEF PoolFails, SinkInv, ReadFlags, config
<1>2. stats.err_io_read = 0
    BY <1>1 DEF SinkInv, ReadFlags, TypeOK, Metrics
<1>3. ReaderState = "open" /\ UNCHANGED <<ReaderState, ReleasedChunks>>
    BY <1>1, <1>2 DEF ReaderState, ReleasedChunks
<1>4. Sink!NoPool
    BY <1>1, <1>3 DEF Sink!NoPool
<1> QED  BY <1>4 DEF Sink!Next

\* Every step is one of OrderedSink's, or none.
LEMMA SinkStep ==
    ASSUME TypeOK, ConfigOK, Flow, Progress, SinkInv, [Next]_vars
    PROVE  [Sink!Next]_(Sink!vars)
<1>1. CASE UNCHANGED <<input, on_error, taken, eof, next_expected, stats, out, verdict>>
    BY <1>1 DEF Sink!vars, ReaderState, ReleasedChunks
<1>2. CASE SpawnChunk \/ ReadEof \/ ReadError
    BY <1>2, ReadSteps
<1>3. CASE ReleaseChunk \/ ReleaseWriteFails
    BY <1>3, ReleaseSteps
<1>4. CASE Return \/ PoolFails
    BY <1>4, ReturnStep, NoPoolStep
<1> QED
    BY <1>1, <1>2, <1>3, <1>4
       DEF Next, MainNext, MainStep, PoolNext, StopFilling, Recv, StopReleasing, StartJob,
           EvalNextLine, SendResult, Finished, vars, main, config

(* run_pipeline_mt implements the ordered sink, for any number of threads, *)
(* input, mode, allowance of samples and schedule of the pool.             *)
THEOREM PipelineIsOrderedSink == Spec => ImplementsOrderedSink
<1>1. Init /\ ConfigOK => Sink!Init
  BY SinkInit
<1>2. TypeOK /\ ConfigOK /\ Flow /\ Progress /\ SinkInv /\ [Next]_vars
        => [Sink!Next]_(Sink!vars)
  BY SinkStep
<1> QED
  BY <1>1, <1>2, Typing, FlowHolds, ProgressHolds, SinkInvHolds, PTL
     DEF Spec, ImplementsOrderedSink, Sink!Spec
=============================================================================
