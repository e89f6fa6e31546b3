----------------------------- MODULE CliProofs -----------------------------
(***************************************************************************)
(* What the exit status tells, for every input and error mode; and that    *)
(* the loop main runs with --threads 1 implements the ordered sink.        *)
(***************************************************************************)
EXTENDS Cli, Integers, FiniteSetTheorems, SequenceTheorems, TLAPS

-----------------------------------------------------------------------------
(* Lines and chunks, for either loop: what a line and a merge do to the     *)
(* trust counters, and what a chunk has counted and found after so many     *)
(* lines.  PipelineProofs has the same lemmas: the two loops have variables *)
(* of the same names, and no module can extend both.                        *)

(* What a line adds is balanced: process_data_chunk neither loses nor       *)
(* double-counts an event, whichever branch the line takes.                *)
LEMMA LineTrustBalance ==
    ASSUME NEW kind \in Kinds
    PROVE  LineTrust(kind) \in Metrics /\ Balanced(LineTrust(kind))
<1>1. LineTrust(kind) \in Metrics
    BY DEF LineTrust, Metrics
<1>2. Balanced(LineTrust(kind))
    BY DEF LineTrust, Balanced, ErrorTotal, Kinds, Failing
<1> QED  BY <1>1, <1>2

(* Merging a chunk's counters into the run's (merge_into) keeps both.      *)
LEMMA MergeBalance ==
    ASSUME NEW t \in Metrics, NEW s \in Metrics
    PROVE  /\ MergeInto(t, s) \in Metrics
           /\ Balanced(t) /\ Balanced(s) => Balanced(MergeInto(t, s))
BY DEF MergeInto, Metrics, Balanced, ErrorTotal

(* So does the charge for a failed read.                                   *)
LEMMA IoErrorBalance == IoErrorTrust \in Metrics /\ Balanced(IoErrorTrust)
BY DEF IoErrorTrust, Metrics, Balanced, ErrorTotal

\* Counters start balanced.
LEMMA ZeroBalance == ZeroMetrics \in Metrics /\ Balanced(ZeroMetrics)
BY DEF ZeroMetrics, Metrics, Balanced, ErrorTotal

(* A chunk whose next line is due to be processed.                         *)
LEMMA ProcessLineType ==
    ASSUME NEW item \in Items, NEW r \in ChunkResult, NEW mode,
           ~ChunkDone(r, item)
    PROVE  /\ item.lines[r.next] \in Kinds
           /\ LineNumber(r, item) \in Nat
           /\ ProcessLine(r, item, mode) \in ChunkResult
           /\ Balanced(r.trust) => Balanced(ProcessLine(r, item, mode).trust)
<1> DEFINE kind == item.lines[r.next]
<1>1. kind \in Kinds
    BY DEF Items, ChunkResult, ChunkDone
<1>2. LineNumber(r, item) \in Nat
    BY DEF Items, ChunkResult, LineNumber
<1>3. r.trust \in Metrics
    BY DEF ChunkResult
<1>4. /\ MergeInto(LineTrust(kind), r.trust) \in Metrics
      /\ Balanced(r.trust) => Balanced(MergeInto(LineTrust(kind), r.trust))
    BY <1>1, <1>3, LineTrustBalance, MergeBalance
<1> QED  BY <1>1, <1>2, <1>4 DEF ProcessLine, ChunkResult

-----------------------------------------------------------------------------
(* Sequences of line numbers.                                              *)

Elements(s) == {s[i] : i \in 1..Len(s)}

Increasing(s) == \A i, j \in 1..Len(s) : i < j => s[i] < s[j]

Within(s, lo, hi) == \A i \in 1..Len(s) : lo <= s[i] /\ s[i] < hi

\* Appending adds one element, and repeats none if it is new.
LEMMA ElementsAppend ==
    ASSUME NEW S, NEW s \in Seq(S), NEW x \in S
    PROVE  /\ Append(s, x) \in Seq(S)
           /\ Len(Append(s, x)) = Len(s) + 1
           /\ Elements(Append(s, x)) = Elements(s) \union {x}
           /\ (\A i, j \in 1..Len(s) : i # j => s[i] # s[j]) /\ x \notin Elements(s)
                 => \A i, j \in 1..Len(Append(s, x)) :
                       i # j => Append(s, x)[i] # Append(s, x)[j]
BY AppendProperties DEF Elements

\* A line found next lies behind those found before.
LEMMA IncreasingAppend ==
    ASSUME NEW s \in Seq(Nat), NEW lo \in Nat, NEW hi \in Nat, lo <= hi,
           Increasing(s), Within(s, lo, hi)
    PROVE  Increasing(Append(s, hi)) /\ Within(Append(s, hi), lo, hi + 1)
<1>1. /\ Len(Append(s, hi)) = Len(s) + 1
      /\ \A i \in 1..Len(s) : Append(s, hi)[i] = s[i]
      /\ Append(s, hi)[Len(s) + 1] = hi
    BY AppendProperties
<1>2. \A i \in 1..Len(s) : s[i] \in Nat /\ lo <= s[i] /\ s[i] < hi
    BY DEF Within
<1>3. Len(s) \in Nat
    OBVIOUS
<1>4. ASSUME NEW i \in 1..(Len(s) + 1), NEW j \in 1..(Len(s) + 1), i < j
      PROVE  Append(s, hi)[i] < Append(s, hi)[j]
  <2>1. i \in 1..Len(s)
    BY <1>3, <1>4
  <2>2. CASE j = Len(s) + 1
    BY <1>1, <1>2, <2>1, <2>2
  <2>3. CASE j # Len(s) + 1
    <3>1. j \in 1..Len(s)
      BY <1>3, <2>3
    <3>2. s[i] < s[j]
      BY <1>4, <2>1, <3>1 DEF Increasing
    <3> QED  BY <1>1, <2>1, <3>1, <3>2
  <2> QED  BY <2>2, <2>3
<1>5. ASSUME NEW i \in 1..(Len(s) + 1)
      PROVE  lo <= Append(s, hi)[i] /\ Append(s, hi)[i] < hi + 1
  <2>1. CASE i = Len(s) + 1
    BY <1>1, <2>1
  <2>2. CASE i # Len(s) + 1
    BY <1>1, <1>2, <1>3, <2>2
  <2> QED  BY <2>1, <2>2
<1> QED  BY <1>1, <1>4, <1>5 DEF Increasing, Within

(* An increasing sequence is its elements, counted out.                    *)

Nth(S, k) == CHOOSE n \in S : Cardinality({m \in S : m <= n}) = k

\* The first k places of an increasing sequence hold k numbers.
LEMMA PrefixCardinality ==
    ASSUME NEW s \in Seq(Nat), Increasing(s), NEW k \in 0..Len(s)
    PROVE  /\ IsFiniteSet({s[i] : i \in 1..k})
           /\ Cardinality({s[i] : i \in 1..k}) = k
<1> DEFINE T == {s[i] : i \in 1..k}
           f == [i \in 1..k |-> s[i]]
<1>1. Len(s) \in Nat /\ k \in Nat /\ 1..k \subseteq 1..Len(s)
    OBVIOUS
<1>2. \A i \in 1..k : s[i] \in Nat
    BY <1>1
<1>3. \A i, j \in 1..k : s[i] = s[j] => i = j
    <2> SUFFICES ASSUME NEW i \in 1..k, NEW j \in 1..k, s[i] = s[j], i # j PROVE FALSE
        OBVIOUS
    <2>1. i < j \/ j < i
        BY <1>1
    <2> QED  BY <1>1, <1>2, <2>1 DEF Increasing
<1>4. f \in Bijection(1..k, T)
    BY <1>3 DEF Bijection, Injection, Surjection, IsInjective
<1>5. IsFiniteSet(1..k) /\ Cardinality(1..k) = k
    BY <1>1, FS_Interval
<1> QED  BY <1>4, <1>5, FS_Bijection DEF ExistsBijection

\* An increasing sequence is its set of elements, counted out from the least.
LEMMA IncreasingIsCountedOut ==
    ASSUME NEW s \in Seq(Nat), Increasing(s)
    PROVE  s = [k \in 1..Cardinality(Elements(s)) |-> Nth(Elements(s), k)]
<1> DEFINE S == Elements(s)
<1>1. Len(s) \in Nat /\ \A i \in 1..Len(s) : s[i] \in Nat
    OBVIOUS
<1>2. Cardinality(S) = Len(s)
    <2>1. Len(s) \in 0..Len(s)
        BY <1>1
    <2> QED  BY <2>1, PrefixCardinality DEF Elements
<1>3. ASSUME NEW k \in 1..Len(s)
      PROVE  Cardinality({m \in S : m <= s[k]}) = k
    <2>1. {m \in S : m <= s[k]} = {s[i] : i \in 1..k}
        <3>1. ASSUME NEW i \in 1..Len(s) PROVE s[i] <= s[k] <=> i <= k
            <4>1. i < k \/ i = k \/ k < i
                BY <1>1
            <4> QED  BY <1>1, <4>1 DEF Increasing
        <3>2. \A i : i \in 1..k <=> i \in 1..Len(s) /\ i <= k
            BY <1>1
        <3> QED  BY <3>1, <3>2 DEF Elements
    <2>2. k \in 0..Len(s)
        BY <1>1
    <2>3. Cardinality({s[i] : i \in 1..k}) = k
        BY ONLY <2>2, PrefixCardinality, s \in Seq(Nat), Increasing(s)
    <2> HIDE DEF S
    <2> QED  BY <2>1, <2>3
<1>4. ASSUME NEW k \in 1..Len(s)
      PROVE  s[k] = Nth(S, k)
    <2>1. s[k] \in S /\ Cardinality({m \in S : m <= s[k]}) = k
        BY <1>3 DEF Elements
    <2>2. ASSUME NEW n \in S, Cardinality({m \in S : m <= n}) = k
          PROVE  n = s[k]
        <3>1. PICK j \in 1..Len(s) : n = s[j]
            BY DEF Elements
        <3>2. Cardinality({m \in S : m <= s[j]}) = j
            BY <1>3
        <3> HIDE DEF S
        <3> QED  BY <2>2, <3>1, <3>2
    <2> HIDE DEF S
    <2> QED  BY <2>1, <2>2 DEF Nth
<1> QED  BY <1>2, <1>4

-----------------------------------------------------------------------------
(* What a job has counted is what its lines so far contribute.             *)

Count(item, n, kinds) == Cardinality({i \in 1..n : item.lines[i] \in kinds})

TrustUpTo(item, n) ==
    [events_total       |-> Count(item, n, Kinds \ {"blank"}),
     events_ok          |-> Count(item, n, {"clean", "hit"}),
     events_failed      |-> Count(item, n, Failing),
     matches            |-> Count(item, n, {"hit"}),
     err_io_read        |-> 0,
     err_line_too_large |-> Count(item, n, {"too_large"}),
     err_json_parse     |-> Count(item, n, {"bad_utf8", "bad_json"}),
     err_flatten        |-> Count(item, n, {"bad_flatten"})]

HitsUpTo(item, n) ==
    {item.start_line + i - 1 : i \in {j \in 1..n : item.lines[j] = "hit"}}

\* One more line looked at is one more counted if it is of the kind.
LEMMA CountGrows ==
    ASSUME NEW item \in Items, NEW n \in Nat, NEW kinds
    PROVE  Count(item, n + 1, kinds)
              = Count(item, n, kinds) + IF item.lines[n + 1] \in kinds THEN 1 ELSE 0
<1> DEFINE A == {i \in 1..n : item.lines[i] \in kinds}
           B == {i \in 1..(n + 1) : item.lines[i] \in kinds}
<1>1. IsFiniteSet(A)
    <2>1. IsFiniteSet(1..n) /\ A \subseteq 1..n
        BY FS_Interval
    <2> QED  BY <2>1, FS_Subset
<1>2. Cardinality(A) \in Nat
    BY <1>1, FS_CardinalityType
<1>3. n + 1 \notin A
    OBVIOUS
<1>4. CASE item.lines[n + 1] \in kinds
    <2>1. B = A \union {n + 1}
        BY <1>4
    <2> QED  BY <1>1, <1>3, <1>4, <2>1, FS_AddElement DEF Count
<1>5. CASE item.lines[n + 1] \notin kinds
    <2>1. B = A
        BY <1>5
    <2> QED  BY <1>2, <1>5, <2>1 DEF Count
<1> QED  BY <1>4, <1>5

\* The counters of one more line are those of process_data_chunk's next turn.
LEMMA TrustGrows ==
    ASSUME NEW item \in Items, NEW n \in Nat, NEW kind \in Kinds, kind = item.lines[n + 1]
    PROVE  TrustUpTo(item, n + 1) = MergeInto(LineTrust(kind), TrustUpTo(item, n))
<1>1. \A kinds : Count(item, n + 1, kinds)
                    = Count(item, n, kinds) + IF kind \in kinds THEN 1 ELSE 0
    BY CountGrows
<1>2. /\ kind \in Kinds \ {"blank"} <=> kind # "blank"
      /\ kind \in {"hit"} <=> kind = "hit"
      /\ kind \in {"too_large"} <=> kind = "too_large"
      /\ kind \in {"bad_flatten"} <=> kind = "bad_flatten"
    OBVIOUS
<1> QED  BY <1>1, <1>2 DEF TrustUpTo, MergeInto, LineTrust

\* The alerts of one more line are those found so far, and its own.
LEMMA HitsGrow ==
    ASSUME NEW item \in Items, NEW n \in Nat
    PROVE  HitsUpTo(item, n + 1) =
              IF item.lines[n + 1] = "hit"
              THEN HitsUpTo(item, n) \union {item.start_line + (n + 1) - 1}
              ELSE HitsUpTo(item, n)
<1>1. \A i : i \in 1..(n + 1) <=> i \in 1..n \/ i = n + 1
    OBVIOUS
<1> QED  BY <1>1 DEF HitsUpTo

\* Before the first line nothing is counted or found.
LEMMA NothingTallied ==
    ASSUME NEW item
    PROVE  ZeroMetrics = TrustUpTo(item, 0) /\ HitsUpTo(item, 0) = {}
<1>1. \A kinds : {i \in 1..0 : item.lines[i] \in kinds} = {}
    OBVIOUS
<1>2. \A kinds : Count(item, 0, kinds) = 0
    BY <1>1, FS_EmptySet DEF Count
<1> QED  BY <1>2 DEF TrustUpTo, HitsUpTo, ZeroMetrics

(* Where a chunk stands that process_data_chunk is working on: its counters *)
(* and alerts are those of the lines before `next`, and in fail-fast mode   *)
(* the first failure, and nothing else, is fatal and the last line.         *)
Tallied(r, item, mode) ==
    LET n == r.next - 1 IN
    /\ n <= Len(item.lines)
    /\ r.trust = TrustUpTo(item, n)
    /\ Elements(r.alerts) = HitsUpTo(item, n)
    /\ Increasing(r.alerts)
    /\ Within(r.alerts, item.start_line, item.start_line + n)
    /\ r.fatal => mode = "fail-fast" /\ n \in Nat \ {0} /\ item.lines[n] \in Failing
    /\ mode = "fail-fast" =>
          \A i \in 1..n : item.lines[i] \in Failing => r.fatal /\ i = n

\* A ChunkResult starts with nothing looked at.
LEMMA TalliedNew ==
    ASSUME NEW item \in Items, NEW mode
    PROVE  Tallied(NewResult, item, mode)
<1>1. NewResult.next - 1 = 0 /\ NewResult.fatal = FALSE
      /\ NewResult.alerts = <<>> /\ NewResult.trust = ZeroMetrics
    BY DEF NewResult
<1>2. Elements(<<>>) = {} /\ Increasing(<<>>) /\ \A lo, hi : Within(<<>>, lo, hi)
    BY DEF Elements, Increasing, Within
<1>3. /\ NewResult.trust = TrustUpTo(item, NewResult.next - 1)
      /\ Elements(NewResult.alerts) = HitsUpTo(item, NewResult.next - 1)
    BY <1>1, <1>2, NothingTallied
<1>4. ~NewResult.fatal /\ 1..(NewResult.next - 1) = {}
    BY <1>1
<1>5. 0 <= Len(item.lines)
    BY DEF Items
<1> QED  BY <1>1, <1>2, <1>3, <1>4, <1>5 DEF Tallied

(* One turn of process_data_chunk.                                         *)
LEMMA TalliedStep ==
    ASSUME NEW item \in Items, NEW r \in ChunkResult, NEW mode,
           ~ChunkDone(r, item), Tallied(r, item, mode)
    PROVE  Tallied(ProcessLine(r, item, mode), item, mode)
<1> DEFINE n == r.next - 1
           q == ProcessLine(r, item, mode)
           kind == item.lines[r.next]
           line == LineNumber(r, item)
           first == item.start_line
<1>1. kind \in Kinds /\ line \in Nat
    BY ProcessLineType
<1>2. /\ n \in Nat /\ n + 1 = r.next /\ r.alerts \in Seq(Nat) /\ ~r.fatal
      /\ first \in Nat /\ Len(item.lines) \in Nat /\ r.next <= Len(item.lines)
    BY DEF ChunkResult, ChunkDone, Items
<1>3. q.next - 1 = n + 1 /\ q.next - 1 = r.next /\ line = first + n
    BY <1>2 DEF ProcessLine, LineNumber
<1>4. q.trust = TrustUpTo(item, n + 1)
    <2>1. r.trust = TrustUpTo(item, n) /\ q.trust = MergeInto(LineTrust(kind), r.trust)
        BY DEF Tallied, ProcessLine
    <2> QED  BY <1>1, <1>2, <2>1, TrustGrows
<1>5. q.alerts = IF kind = "hit" THEN Append(r.alerts, line) ELSE r.alerts
    BY DEF ProcessLine
<1>6. Elements(q.alerts) = HitsUpTo(item, n + 1)
    <2>1. Elements(r.alerts) = HitsUpTo(item, n)
        BY DEF Tallied
    <2>2. Elements(Append(r.alerts, line)) = Elements(r.alerts) \union {line}
        BY <1>1, <1>2, ElementsAppend
    <2>3. line = item.start_line + (n + 1) - 1
        BY <1>2, <1>3
    <2> QED  BY <1>2, <1>5, <2>1, <2>2, <2>3, HitsGrow
<1>7. Increasing(q.alerts) /\ Within(q.alerts, first, first + (n + 1))
    <2>1. Increasing(r.alerts) /\ Within(r.alerts, first, line)
        BY <1>3 DEF Tallied
    <2>2. line + 1 = first + (n + 1) /\ first <= line
        BY <1>2, <1>3
    <2> HIDE DEF n, q, line, first
    <2>3. CASE kind = "hit"
        BY <1>1, <1>2, <1>5, <2>1, <2>2, <2>3, IncreasingAppend
    <2>4. CASE kind # "hit"
        <3>1. \A i \in 1..Len(r.alerts) : r.alerts[i] \in Nat
            BY <1>2
        <3> QED  BY <1>1, <1>2, <1>5, <2>1, <2>2, <2>4, <3>1 DEF Within
    <2> QED  BY <2>3, <2>4
<1>8. q.fatal <=> kind \in Failing /\ mode = "fail-fast"
    BY DEF ProcessLine
<1>9. mode = "fail-fast" =>
         \A i \in 1..(n + 1) : item.lines[i] \in Failing => q.fatal /\ i = n + 1
    <2> SUFFICES ASSUME mode = "fail-fast", NEW i \in 1..(n + 1),
                        item.lines[i] \in Failing
                 PROVE  q.fatal /\ i = n + 1
        OBVIOUS
    <2>1. i \in 1..n \/ i = n + 1
        BY <1>2
    <2>2. i \notin 1..n
        BY <1>2 DEF Tallied
    <2> QED  BY <1>2, <1>8, <2>1, <2>2
<1> HIDE DEF q, n
<1>10. q.fatal => mode = "fail-fast" /\ n + 1 \in Nat \ {0} /\ item.lines[n + 1] \in Failing
    BY <1>2, <1>8
<1>11. n + 1 <= Len(item.lines)
    BY <1>2
<1>12. Tallied(q, item, mode)
    BY <1>3, <1>4, <1>6, <1>7, <1>9, <1>10, <1>11 DEF Tallied
<1> QED  BY <1>12 DEF q

(* When the loop is over it has looked at all lines, or, in fail-fast mode, *)
(* at those up to the first that fails.                                     *)
LEMMA TalliedDone ==
    ASSUME NEW item \in Items, NEW r \in ChunkResult, NEW mode,
           ChunkDone(r, item), Tallied(r, item, mode)
    PROVE  LET n == r.next - 1
               F == {i \in 1..Len(item.lines) : item.lines[i] \in Failing} IN
           /\ r.fatal <=> mode = "fail-fast" /\ F # {}
           /\ r.fatal => n \in F /\ \A i \in F : n <= i
           /\ ~r.fatal => n = Len(item.lines)
           /\ r.trust = TrustUpTo(item, n)
           /\ r.alerts = [k \in 1..Cardinality(HitsUpTo(item, n)) |-> Nth(HitsUpTo(item, n), k)]
<1> DEFINE n == r.next - 1
           F == {i \in 1..Len(item.lines) : item.lines[i] \in Failing}
<1>1. /\ Len(item.lines) \in Nat /\ n \in Nat /\ r.alerts \in Seq(Nat)
      /\ r.fatal \in BOOLEAN
    BY DEF Items, ChunkResult
<1>2. /\ n <= Len(item.lines)
      /\ r.fatal => mode = "fail-fast" /\ n \in Nat \ {0} /\ item.lines[n] \in Failing
      /\ mode = "fail-fast" =>
            \A i \in 1..n : item.lines[i] \in Failing => r.fatal /\ i = n
      /\ r.trust = TrustUpTo(item, n)
      /\ Elements(r.alerts) = HitsUpTo(item, n)
      /\ Increasing(r.alerts)
    BY DEF Tallied
<1>3. r.fatal \/ n = Len(item.lines)
    BY <1>1, <1>2 DEF ChunkDone, ChunkResult
<1> HIDE DEF n
<1>4. r.fatal => n \in F /\ \A i \in F : n <= i
    BY <1>1, <1>2
<1>5. ~r.fatal /\ mode = "fail-fast" => F = {}
    BY <1>1, <1>2, <1>3
<1>6. r.alerts = [k \in 1..Cardinality(Elements(r.alerts)) |-> Nth(Elements(r.alerts), k)]
    BY <1>1, <1>2, IncreasingIsCountedOut
<1> HIDE DEF F
<1>7. r.fatal <=> mode = "fail-fast" /\ F # {}
    BY <1>1, <1>2, <1>4, <1>5
<1>8. r.alerts = [k \in 1..Cardinality(HitsUpTo(item, n)) |-> Nth(HitsUpTo(item, n), k)]
    BY <1>2, <1>6
<1> QED  BY <1>2, <1>3, <1>4, <1>7, <1>8 DEF n, F

-----------------------------------------------------------------------------
(* The loop.                                                               *)

Verdicts == {"running", "ok", "event_error", "io_error"} \union StdoutErrors

ScanTyped ==
    /\ input \in Inputs
    /\ pc \in {"read", "process", "release", "done"}
    /\ taken \in 0..Len(input)
    /\ pc \in {"process", "release"} => taken > 0
    /\ result \in ChunkResult
    /\ stats \in Metrics
    /\ out \in Seq(Nat)
    /\ reader \in {"open", "eof", "failed"}
    /\ verdict \in Verdicts

(* Counters balance at every moment, those of the chunk in hand too.        *)
Accounts == Balanced(result.trust) /\ Balanced(stats)

(* In fail-fast mode a failed event makes its chunk fatal, and a fatal      *)
(* chunk or a failed read is the end of the scan.                           *)
FatalTells == result.fatal <=> on_error = "fail-fast" /\ result.trust.events_failed > 0

FailuresEnd ==
    on_error = "fail-fast" =>
        \/ stats.events_failed = 0
        \/ verdict \in {"event_error", "io_error"} \union StdoutErrors
        \/ reader = "failed" /\ verdict = "running" /\ pc = "read"

(* What run_pipeline returned says how the loop ended.                      *)
VerdictTells ==
    /\ verdict = "running" <=> pc # "done"
    /\ reader # "open" => pc \in {"read", "done"}
    /\ reader = "eof" => taken = Len(input)
    /\ reader = "failed" => stats.events_failed > 0
    /\ verdict = "ok" => reader # "open"
    /\ verdict \in {"event_error", "io_error"} =>
            on_error = "fail-fast" /\ stats.events_failed > 0

ScanInv == ScanTyped /\ Accounts /\ FatalTells /\ FailuresEnd /\ VerdictTells

(* What main knows at each of its phases.                                   *)
MainInv ==
    /\ args \in {"run", "help", "bad"}
    /\ phase \in {"args", "rules", "open", "scan", "summary", "exited"}
    /\ delivered \in 0..Len(out)
    /\ phase # "exited" => status = Running
    /\ phase \in {"args", "rules", "open"} => pc = "read" /\ taken = 0 /\ stdout = "open"
    /\ phase \notin {"args", "exited"} => args = "run"
    /\ phase = "scan" => stdout = (IF verdict \in StdoutErrors THEN verdict ELSE "open")
    /\ phase = "summary" => pc = "done" /\ Completed

IInv == ScanInv /\ MainInv /\ ExitStatusTells

-----------------------------------------------------------------------------
\* The result of a chunk starts out typed, balanced and not fatal.
LEMMA NewResultType ==
    NewResult \in ChunkResult /\ Balanced(NewResult.trust)
        /\ NewResult.fatal = FALSE /\ NewResult.trust.events_failed = 0
BY ZeroBalance DEF NewResult, ChunkResult, ZeroMetrics

(* The chunk in hand is one of the input.                                   *)
LEMMA ItemType ==
    ASSUME ScanTyped, taken > 0
    PROVE  Item \in Items
<1>1. input \in Seq(Items)
    BY InputsAssumption DEF ScanTyped
<1>2. taken \in 1..Len(input)
    BY <1>1, LenProperties DEF ScanTyped
<1> QED  BY <1>1, <1>2, ElementOfSeq DEF Item

\* Merging adds up the failed events.
LEMMA MergedFailures ==
    ASSUME NEW t \in Metrics, NEW s \in Metrics
    PROVE  MergeInto(t, s).events_failed = s.events_failed + t.events_failed
BY DEF MergeInto

\* The number of failed events is a number.
LEMMA FailedNat ==
    ASSUME NEW t \in Metrics  PROVE t.events_failed \in Nat
BY DEF Metrics

\* A line is a failed event if its kind is one that fails.
LEMMA LineFailures ==
    ASSUME NEW kind \in Kinds
    PROVE  LineTrust(kind).events_failed = IF kind \in Failing THEN 1 ELSE 0
BY DEF LineTrust

(* A line that is processed makes its chunk fatal when it should.           *)
LEMMA ProcessFatal ==
    ASSUME NEW item \in Items, NEW r \in ChunkResult, ~ChunkDone(r, item),
           r.fatal <=> on_error = "fail-fast" /\ r.trust.events_failed > 0
    PROVE  LET p == ProcessLine(r, item, on_error)
           IN  p.fatal <=> on_error = "fail-fast" /\ p.trust.events_failed > 0
<1> DEFINE kind == item.lines[r.next]
           p    == ProcessLine(r, item, on_error)
<1>1. kind \in Kinds
    BY ProcessLineType
<1>2. r.trust \in Metrics /\ LineTrust(kind) \in Metrics
    BY <1>1, LineTrustBalance DEF ChunkResult
<1>3. p.trust.events_failed = r.trust.events_failed + LineTrust(kind).events_failed
    BY <1>2, MergedFailures DEF ProcessLine
<1>4. LineTrust(kind).events_failed = IF kind \in Failing THEN 1 ELSE 0
    BY <1>1, LineFailures
<1>5. r.trust.events_failed \in Nat
    BY <1>2, FailedNat
<1>6. p.fatal <=> kind \in Failing /\ on_error = "fail-fast"
    BY DEF ProcessLine
<1>7. on_error = "fail-fast" => r.trust.events_failed = 0
    BY <1>5 DEF ChunkDone
<1> QED  BY <1>3, <1>4, <1>5, <1>6, <1>7

-----------------------------------------------------------------------------
\* The invariant holds before main has looked at its arguments.
LEMMA InitHolds == Init => IInv
<1> SUFFICES ASSUME Init PROVE IInv
    OBVIOUS
<1> USE DEF Init, IngestInit
<1>1. input \in Seq(Items) /\ Len(input) \in Nat
    BY InputsAssumption, LenProperties
<1>2. ScanTyped
    <2>1. stats \in Metrics /\ result \in ChunkResult
        BY ZeroBalance, NewResultType
    <2>2. out \in Seq(Nat)
        BY EmptySeq
    <2> QED  BY <1>1, <2>1, <2>2 DEF ScanTyped, Verdicts
<1>3. Accounts
    BY NewResultType, ZeroBalance DEF Accounts
<1>4. FatalTells
    BY NewResultType DEF FatalTells
<1>5. FailuresEnd /\ VerdictTells
    BY DEF FailuresEnd, VerdictTells, ZeroMetrics
<1>6. MainInv /\ ExitStatusTells
    BY <1>1 DEF MainInv, ExitStatusTells, Running
<1> QED  BY <1>2, <1>3, <1>4, <1>5, <1>6 DEF IInv, ScanInv

(* Every step of the loop keeps what holds of the scan, and never takes an   *)
(* alert back.                                                               *)
LEMMA ScanKeeps ==
    ASSUME ScanInv, IngestStep
    PROVE  ScanInv' /\ Len(out) \in Nat /\ Len(out') \in Nat /\ Len(out) <= Len(out')
<1> USE DEF ScanInv, ScanTyped
<1>1. input \in Seq(Items) /\ Len(input) \in Nat
    BY InputsAssumption, LenProperties
<1>2. result.trust \in Metrics /\ result.alerts \in Seq(Nat) /\ result.fatal \in BOOLEAN
    BY DEF ChunkResult
<1>3. stats.events_failed \in Nat /\ result.trust.events_failed \in Nat
    BY <1>2, FailedNat
<1>4. Len(out) \in Nat
    BY LenProperties
<1> DEFINE merged == MergeInto(result.trust, stats)
<1>5. /\ merged \in Metrics /\ Balanced(merged)
      /\ merged.events_failed = stats.events_failed + result.trust.events_failed
    BY <1>2, MergeBalance, MergedFailures DEF Accounts
<1>6. ASSUME NEW add \in Seq(Nat)
      PROVE  out \o add \in Seq(Nat) /\ Len(out \o add) \in Nat /\ Len(out) <= Len(out \o add)
    <2>1. out \o add \in Seq(Nat) /\ Len(out \o add) = Len(out) + Len(add)
        BY ConcatProperties
    <2> QED  BY <1>4, <2>1, LenProperties
<1> HIDE DEF merged
<1>a. CASE ReadChunk
    <2> USE <1>a DEF ReadChunk, config
    <2>1. ScanTyped'
        BY <1>1, NewResultType DEF Verdicts
    <2>2. Accounts' /\ FatalTells'
        BY NewResultType DEF Accounts, FatalTells
    <2>3. FailuresEnd' /\ VerdictTells'
        BY DEF FailuresEnd, VerdictTells
    <2> QED  BY <1>4, <2>1, <2>2, <2>3
<1>b. CASE ReadEof
    <2> USE <1>b DEF ReadEof, config
    <2>1. ScanTyped' /\ Accounts' /\ FatalTells' /\ FailuresEnd'
        BY DEF Accounts, FatalTells, FailuresEnd
    <2>2. VerdictTells'
        BY DEF VerdictTells
    <2> QED  BY <1>4, <2>1, <2>2
<1>c. CASE ReadError
    <2> USE <1>c DEF ReadError, config
    <2>1. /\ stats' \in Metrics /\ Balanced(stats')
          /\ stats'.events_failed = stats.events_failed + IoErrorTrust.events_failed
        BY IoErrorBalance, MergeBalance, MergedFailures DEF Accounts
    <2>2. stats'.events_failed > 0
        BY <1>3, <2>1 DEF IoErrorTrust
    <2>3. ScanTyped' /\ Accounts' /\ FatalTells'
        BY <2>1 DEF Accounts, FatalTells
    <2>4. FailuresEnd' /\ VerdictTells'
        BY <2>2 DEF FailuresEnd, VerdictTells, Verdicts
    <2> QED  BY <1>4, <2>3, <2>4
<1>d. CASE Return
    <2> USE <1>d DEF Return, config
    <2>1. verdict' \in {"io_error", "ok"} /\ verdict = "running"
        BY DEF VerdictTells
    <2>2. ScanTyped' /\ Accounts' /\ FatalTells'
        BY <2>1 DEF Accounts, FatalTells, Verdicts
    <2>3. VerdictTells'
        BY <2>1 DEF VerdictTells
    <2>4. FailuresEnd'
        BY <2>1 DEF FailuresEnd, VerdictTells, StdoutErrors
    <2> QED  BY <1>4, <2>2, <2>3, <2>4
<1>e. CASE Process
    <2> USE <1>e DEF Process, config
    <2>1. Item \in Items
        BY ItemType
    <2>2. CASE ChunkDone(result, Item)
        <3>1. ScanTyped' /\ Accounts' /\ FatalTells'
            BY <2>2 DEF Accounts, FatalTells
        <3>2. FailuresEnd' /\ VerdictTells'
            BY <2>2 DEF FailuresEnd, VerdictTells
        <3> QED  BY <1>4, <3>1, <3>2
    <2>3. CASE ~ChunkDone(result, Item)
        <3>1. /\ result' \in ChunkResult
              /\ Balanced(result'.trust)
            BY <2>1, <2>3, ProcessLineType DEF Accounts
        <3>2. FatalTells'
            BY <2>1, <2>3, ProcessFatal DEF FatalTells
        <3>3. ScanTyped' /\ Accounts'
            BY <2>3, <3>1 DEF Accounts
        <3>4. FailuresEnd' /\ VerdictTells'
            BY <2>3 DEF FailuresEnd, VerdictTells
        <3> QED  BY <1>4, <3>2, <3>3, <3>4
    <2> QED  BY <2>2, <2>3
<1>f. CASE Release
    <2> USE <1>f DEF Release, config
    <2>1. stats' = merged
        BY DEF merged
    <2>2. out' \in Seq(Nat) /\ Len(out') \in Nat /\ Len(out) <= Len(out')
        BY <1>2, <1>6
    <2>3. ScanTyped' /\ Accounts' /\ FatalTells'
        BY <1>5, <2>1, <2>2 DEF Accounts, FatalTells, Verdicts
    <2>4. stats'.events_failed = stats.events_failed + result.trust.events_failed
        BY <1>5, <2>1
    <2>5. VerdictTells'
        BY <1>3, <2>4 DEF VerdictTells, FatalTells
    <2>6. FailuresEnd'
        BY <1>3, <2>4 DEF FailuresEnd, VerdictTells, FatalTells, StdoutErrors
    <2> QED  BY <1>4, <2>2, <2>3, <2>5, <2>6
<1>g. CASE ReleaseWriteFails
    <2> USE <1>g DEF ReleaseWriteFails, config
    <2>1. stats' = merged
        BY DEF merged
    <2>2. PICK k \in 0..Len(result.alerts) : out' = out \o SubSeq(result.alerts, 1, k)
        OBVIOUS
    <2>3. SubSeq(result.alerts, 1, k) \in Seq(Nat)
        <3>1. Len(result.alerts) \in Nat
            BY <1>2, LenProperties
        <3>2. \A i \in 1..k : result.alerts[i] \in Nat
            BY <1>2, <3>1, ElementOfSeq
        <3> QED  BY <3>1, <3>2, SubSeqProperties, <1>2
    <2>4. out' \in Seq(Nat) /\ Len(out') \in Nat /\ Len(out) <= Len(out')
        BY <1>6, <2>2, <2>3
    <2>5. ScanTyped' /\ Accounts' /\ FatalTells'
        BY <1>5, <2>1, <2>4 DEF Accounts, FatalTells, Verdicts, StdoutErrors
    <2>6. stats'.events_failed = stats.events_failed + result.trust.events_failed
        BY <1>5, <2>1
    <2>7. VerdictTells' /\ FailuresEnd'
        BY <1>3, <2>6 DEF VerdictTells, FailuresEnd, StdoutErrors
    <2> QED  BY <1>4, <2>4, <2>5, <2>7
<1> QED  BY <1>a, <1>b, <1>c, <1>d, <1>e, <1>f, <1>g DEF IngestStep

(* Nothing but a step of the loop changes what ScanInv speaks of.            *)
LEMMA ScanStutters ==
    ASSUME ScanInv, UNCHANGED ingest_vars
    PROVE  ScanInv'
BY DEF ScanInv, ScanTyped, Accounts, FatalTells, FailuresEnd, VerdictTells, ingest_vars, config

-----------------------------------------------------------------------------
\* Every step of main and of its loop keeps the invariant.
LEMMA StepKeeps ==
    ASSUME IInv, [Next]_vars
    PROVE  IInv'
<1> USE DEF IInv
<1>0. Len(out) \in Nat
    BY LenProperties DEF ScanInv, ScanTyped
<1>a. CASE ParseArgs
    <2> USE <1>a DEF ParseArgs, ExitWith, cli
    <2>1. ScanInv'
        BY ScanStutters
    <2>2. MainInv' /\ ExitStatusTells'
        BY <1>0 DEF MainInv, ExitStatusTells, ingest_vars, config, Running
    <2> QED  BY <2>1, <2>2
<1>b. CASE LoadRules \/ OpenEvents
    <2> USE <1>b DEF LoadRules, OpenEvents, cli
    <2>1. ScanInv'
        BY ScanStutters
    <2>2. phase = "open" => verdict = "running"
        BY DEF MainInv, ScanInv, VerdictTells
    <2>3. MainInv' /\ ExitStatusTells'
        BY <1>0, <2>2 DEF MainInv, ExitStatusTells, ingest_vars, config, StdoutErrors
    <2> QED  BY <2>1, <2>3
<1>c. CASE RulesUnreadable \/ EventsUnreadable \/ PoolFails
    <2> USE <1>c DEF RulesUnreadable, EventsUnreadable, PoolFails, ExitWith, cli
    <2>1. ScanInv'
        BY ScanStutters
    <2>2. MainInv' /\ ExitStatusTells'
        BY <1>0 DEF MainInv, ExitStatusTells, ingest_vars, config
    <2> QED  BY <2>1, <2>2
<1>d. CASE Scan
    <2> USE <1>d DEF Scan, cli
    <2>1. ScanInv' /\ Len(out') \in Nat /\ Len(out) <= Len(out')
        BY ScanKeeps
    <2>2. delivered' \in 0..Len(out')
        BY <1>0, <2>1 DEF Delivers, MainInv
    <2>3. verdict = "running"
        BY DEF ScanInv, VerdictTells
    <2>4. stdout' = IF verdict' \in StdoutErrors THEN verdict' ELSE "open"
        BY <2>3 DEF MainInv, StdoutErrors
    <2>5. MainInv' /\ ExitStatusTells'
        BY <2>2, <2>4 DEF MainInv, ExitStatusTells
    <2> QED  BY <2>1, <2>5
<1>e. CASE ScanFailed
    <2> USE <1>e DEF ScanFailed, ExitWith, cli
    <2>1. ScanInv'
        BY ScanStutters
    <2>2. delivered' \in 0..Len(out')
        BY <1>0 DEF MainInv, ingest_vars
    <2>3. MainInv'
        BY <2>2 DEF MainInv, ingest_vars, config
    <2>4. /\ args = "run"
          /\ verdict \in {"event_error", "io_error"} \union StdoutErrors
          /\ stdout = (IF verdict \in StdoutErrors THEN verdict ELSE "open")
        BY DEF MainInv, ScanInv, ScanTyped, VerdictTells, Verdicts
    <2>5. verdict \in {"event_error", "io_error"} =>
            on_error = "fail-fast" /\ stats.events_failed > 0
        BY DEF ScanInv, VerdictTells
    <2>6. ExitStatusTells'
        BY <2>4, <2>5 DEF ExitStatusTells, StdoutErrors, ingest_vars, config
    <2> QED  BY <2>1, <2>3, <2>6
<1>f. CASE FlushFails
    <2> USE <1>f DEF FlushFails, ExitWith, cli
    <2>1. ScanInv'
        BY ScanStutters
    <2>2. delivered' \in 0..Len(out')
        BY <1>0 DEF MainInv, ingest_vars
    <2>3. MainInv'
        BY <2>2 DEF MainInv, ingest_vars, config
    <2>4. ExitStatusTells'
        BY DEF MainInv, ExitStatusTells, StdoutErrors
    <2> QED  BY <2>1, <2>3, <2>4
<1>g. CASE Flush
    <2> USE <1>g DEF Flush, cli
    <2>1. ScanInv'
        BY ScanStutters
    <2>2. Completed'
        BY DEF Completed, ScanInv, VerdictTells, FailuresEnd, StdoutErrors, ingest_vars, config
    <2>3. MainInv' /\ ExitStatusTells'
        BY <1>0, <2>2 DEF MainInv, ExitStatusTells, ingest_vars, config
    <2> QED  BY <2>1, <2>3
<1>h. CASE Summarise
    <2> USE <1>h DEF Summarise, ExitWith, cli
    <2>1. ScanInv'
        BY ScanStutters
    <2>2. Balanced(stats) /\ args = "run" /\ Completed
        BY DEF ScanInv, Accounts, MainInv
    <2>3. Completed'
        BY <2>2 DEF Completed, ingest_vars, config
    <2>4. MainInv' /\ ExitStatusTells'
        BY <1>0, <2>2, <2>3 DEF MainInv, ExitStatusTells, ingest_vars, config
    <2> QED  BY <2>1, <2>4
<1>i. CASE Exited \/ UNCHANGED vars
    <2> USE <1>i DEF Exited, vars, cli
    <2>1. ScanInv'
        BY ScanStutters
    <2>2. MainInv' /\ ExitStatusTells'
        BY DEF MainInv, ExitStatusTells, Completed, ingest_vars, config
    <2> QED  BY <2>1, <2>2
<1> QED
    BY <1>a, <1>b, <1>c, <1>d, <1>e, <1>f, <1>g, <1>h, <1>i DEF Next

(* The exit status of null-sigma-cli tells what its output is worth, for     *)
(* any input, error mode and failure: 0 is a scan that went through, 1 has   *)
(* a reason, and the accounting check of main never fires.                   *)
THEOREM StatusTells == Spec => []ExitStatusTells
<1>1. IInv /\ [Next]_vars => IInv'
    BY StepKeeps
<1>2. IInv => ExitStatusTells
    BY DEF IInv
<1> QED  BY InitHolds, <1>1, <1>2, PTL DEF Spec

-----------------------------------------------------------------------------
(* The ordered sink.  The chunk in hand has counted and found what its     *)
(* lines so far contribute.                                                *)
InHand ==
    /\ pc \in {"process", "release"} => Tallied(result, Item, on_error)
    /\ pc = "release" => ChunkDone(result, Item)

\* The chunk in hand stays tallied.
LEMMA InHandKept ==
    ASSUME ScanInv, InHand, [Next]_vars
    PROVE  InHand'
<1>1. CASE UNCHANGED ingest_vars
    BY <1>1 DEF InHand, ingest_vars, config, Item
<1>2. CASE ReadChunk
    <2>1. input \in Seq(Items) /\ taken' \in 1..Len(input) /\ input' = input
        BY <1>2, InputsAssumption DEF ScanInv, ScanTyped, ReadChunk, config
    <2>2. Item' \in Items
        BY <2>1 DEF Item
    <2>3. Tallied(NewResult, Item', on_error')
        BY <2>2, TalliedNew
    <2> QED  BY <1>2, <2>3 DEF ReadChunk, InHand
<1>3. CASE Process
    <2>1. Item \in Items /\ result \in ChunkResult /\ Item' = Item /\ on_error' = on_error
        BY <1>3, ItemType DEF ScanInv, ScanTyped, Process, config, Item
    <2>2. CASE ChunkDone(result, Item)
        BY <1>3, <2>1, <2>2 DEF Process, InHand
    <2>3. CASE ~ChunkDone(result, Item)
        <3>1. Tallied(ProcessLine(result, Item, on_error), Item, on_error)
            BY <1>3, <2>1, <2>3, TalliedStep DEF Process, InHand
        <3> QED  BY <1>3, <2>1, <2>3, <3>1 DEF Process, InHand
    <2> QED  BY <2>2, <2>3
<1>4. CASE pc' \in {"read", "done"}
    BY <1>4 DEF InHand
<1>5. CASE ReadEof \/ ReadError \/ Return \/ Release \/ ReleaseWriteFails
    BY <1>4, <1>5 DEF ReadEof, ReadError, Return, Release, ReleaseWriteFails
<1> QED
    BY <1>1, <1>2, <1>3, <1>5
       DEF Next, Scan, IngestStep, ParseArgs, LoadRules, RulesUnreadable, OpenEvents,
           EventsUnreadable, PoolFails, ScanFailed, FlushFails, Flush, Summarise, Exited, vars

\* The sink counts sets as the proofs do.
LEMMA SameCardinality == \A S : Sink!Cardinality(S) = Cardinality(S)
BY DEF Sink!Cardinality, Cardinality, Sink!IsFiniteSet, IsFiniteSet

(* A chunk that is done has counted and found what the sink declares of it. *)
LEMMA ChunkMeetsDeclaration ==
    ASSUME ScanTyped, taken > 0, Tallied(result, Item, on_error), ChunkDone(result, Item)
    PROVE  /\ result.trust = Sink!DeclaredTrust(Item)
           /\ result.alerts = Sink!DeclaredAlerts(Item)
           /\ result.fatal <=> Sink!IsFatal(Item)
<1> DEFINE r == result
           item == Item
           n == r.next - 1
           F == {i \in 1..Len(item.lines) : item.lines[i] \in Failing}
<1>1. item \in Items /\ r \in ChunkResult
    BY ItemType DEF ScanTyped
<1>2. /\ r.fatal <=> on_error = "fail-fast" /\ F # {}
      /\ r.fatal => n \in F /\ \A i \in F : n <= i
      /\ ~r.fatal => n = Len(item.lines)
      /\ r.trust = TrustUpTo(item, n)
      /\ r.alerts = [k \in 1..Cardinality(HitsUpTo(item, n)) |-> Nth(HitsUpTo(item, n), k)]
    BY <1>1, TalliedDone
<1>3. DOMAIN item.lines = 1..Len(item.lines) /\ F \subseteq Nat
    <2>1. item.lines \in Seq(Kinds)
        BY <1>1 DEF Items
    <2> HIDE DEF item
    <2>2. Len(item.lines) \in Nat /\ DOMAIN item.lines = 1..Len(item.lines)
        BY <2>1
    <2>3. F \subseteq 1..Len(item.lines)
        OBVIOUS
    <2> HIDE DEF F
    <2>4. 1..Len(item.lines) \subseteq Nat
        BY <2>2
    <2> QED  BY <2>2, <2>3, <2>4
<1>4. Sink!Failures(item) = F
    BY <1>3 DEF Sink!Failures, Sink!Failing, Failing
<1> HIDE DEF r, item, n, F
<1>5. r.fatal <=> Sink!IsFatal(item)
    BY <1>2, <1>4 DEF Sink!IsFatal
<1>6. Sink!Examined(item) = 1..n
    <2>1. CASE r.fatal
        <3>1. ASSUME NEW x \in F, \A y \in F : x <= y
              PROVE  x = n
            <4>1. n \in F /\ n <= x /\ x <= n
                BY <1>2, <2>1, <3>1
            <4>2. n \in Nat /\ x \in Nat
                BY <1>3, <4>1
            <4> QED  BY <4>1, <4>2
        <3>2. Sink!Min(F) = n
            BY <1>2, <2>1, <3>1 DEF Sink!Min
        <3> QED  BY <1>4, <1>5, <2>1, <3>2 DEF Sink!Examined
    <2>2. CASE ~r.fatal
        BY <1>2, <1>3, <1>5, <2>2 DEF Sink!Examined
    <2> QED  BY <2>1, <2>2
<1>7. r.trust = Sink!DeclaredTrust(item)
    <2>1. \A kinds : Sink!Count(item, kinds) = Count(item, n, kinds)
        BY <1>6, SameCardinality DEF Sink!Count, Count
    <2> QED  BY <1>2, <2>1 DEF Sink!DeclaredTrust, TrustUpTo, Sink!Kinds, Kinds, Sink!Failing, Failing
<1>8. r.alerts = Sink!DeclaredAlerts(item)
    <2>1. Sink!AlertLines(item) = HitsUpTo(item, n)
        BY <1>6 DEF Sink!AlertLines, HitsUpTo
    <2>2. \A S, k : Sink!Nth(S, k) = Nth(S, k)
        BY SameCardinality, Zenon DEF Sink!Nth, Nth
    <2> QED  BY <1>2, <2>1, <2>2, SameCardinality DEF Sink!DeclaredAlerts
<1> QED  BY <1>5, <1>7, <1>8 DEF r, item

\* A read, its failure, and the end of the loop are steps of OrderedSink.
LEMMA ReadIsSink ==
    ASSUME ScanInv, ReadChunk \/ ReadEof \/ ReadError \/ Return
    PROVE  Sink!Next
<1>1. verdict = "running" /\ pc = "read" /\ ReleasedChunks = taken
    BY DEF ScanInv, VerdictTells, ReadChunk, ReadEof, ReadError, Return, ReleasedChunks
<1>2. CASE ReadChunk
    <2>1. taken \in Nat /\ pc' = "process" /\ taken' = taken + 1
        BY <1>2 DEF ScanInv, ScanTyped, ReadChunk
    <2>2. ReleasedChunks' = ReleasedChunks
        BY <1>1, <2>1 DEF ReleasedChunks
    <2>3. Sink!Take
        BY <1>1, <1>2, <2>2 DEF ReadChunk, config, Sink!Take
    <2> QED  BY <2>3 DEF Sink!Next
<1>3. CASE ReadEof
    <2>1. ReleasedChunks' = ReleasedChunks
        BY <1>3 DEF ReadEof, ReleasedChunks
    <2>2. Sink!ReaderEof
        BY <1>1, <1>3, <2>1 DEF ReadEof, config, Sink!ReaderEof
    <2> QED  BY <2>2 DEF Sink!Next
<1>4. CASE ReadError
    <2>1. ReleasedChunks' = ReleasedChunks
        BY <1>4 DEF ReadError, ReleasedChunks
    <2>2. stats' = Sink!MergeInto(Sink!IoErrorTrust, stats)
        BY <1>4 DEF ReadError, MergeInto, IoErrorTrust, Sink!MergeInto, Sink!IoErrorTrust
    <2>3. Sink!ReaderFails
        BY <1>1, <1>4, <2>1, <2>2 DEF ReadError, config, Sink!ReaderFails
    <2> QED  BY <2>3 DEF Sink!Next
<1>5. CASE Return
    <2>1. verdict' \in {"io_error", "ok"} /\ pc' = "done" /\ taken' = taken
        BY <1>5 DEF Return
    <2>2. ReleasedChunks' = ReleasedChunks
        BY <1>1, <2>1 DEF ReleasedChunks
    <2>3. Sink!Return
        BY <1>1, <1>5, <2>2 DEF Return, config, Sink!Return
    <2> QED  BY <2>3 DEF Sink!Next
<1> QED  BY <1>2, <1>3, <1>4, <1>5

\* Writing a chunk, or failing to, is a step of OrderedSink.
LEMMA ReleaseIsSink ==
    ASSUME ScanInv, InHand, Release \/ ReleaseWriteFails
    PROVE  Sink!Next
<1>1. /\ verdict = "running" /\ pc = "release" /\ ReleasedChunks = taken - 1
      /\ taken \in Nat /\ taken > 0
      /\ UNCHANGED <<input, on_error, taken, reader>>
    <2>1. pc = "release" /\ UNCHANGED <<input, on_error, taken, reader>>
        BY DEF Release, ReleaseWriteFails, config
    <2>2. input \in Seq(Items) /\ Len(input) \in Nat
        BY InputsAssumption DEF ScanInv, ScanTyped
    <2> QED  BY <2>1, <2>2 DEF ScanInv, ScanTyped, VerdictTells, ReleasedChunks
<1>2. /\ result.trust = Sink!DeclaredTrust(Item)
      /\ result.alerts = Sink!DeclaredAlerts(Item)
      /\ result.fatal <=> Sink!IsFatal(Item)
    BY <1>1, ChunkMeetsDeclaration DEF ScanInv, InHand
<1>3. Item = input[ReleasedChunks + 1] /\ ReleasedChunks < taken
    <2>1. ReleasedChunks + 1 = taken
        BY <1>1
    <2> QED  BY <1>1, <2>1 DEF Item
<1>4. stats' = Sink!MergeInto(Sink!DeclaredTrust(Item), stats)
    BY <1>2 DEF Release, ReleaseWriteFails, MergeInto, Sink!MergeInto
<1> HIDE DEF Item
<1>5. CASE Release
    <2>1. ReleasedChunks' = ReleasedChunks + 1
        BY <1>1, <1>5 DEF Release, ReleasedChunks
    <2>2. verdict' = IF Sink!IsFatal(Item) THEN "event_error" ELSE "running"
        BY <1>1, <1>2, <1>5 DEF Release
    <2>3. out' = out \o Sink!DeclaredAlerts(Item)
        BY <1>2, <1>5 DEF Release
    <2>4. Sink!Release
        BY <1>1, <1>3, <1>4, <2>1, <2>2, <2>3 DEF Sink!Release
    <2> QED  BY <2>4 DEF Sink!Next
<1>6. CASE ReleaseWriteFails
    <2>1. ReleasedChunks' = ReleasedChunks
        BY <1>1, <1>6 DEF ReleaseWriteFails, ReleasedChunks
    <2>2. /\ Sink!DeclaredAlerts(Item) # <<>>
          /\ \E k \in 0..Len(Sink!DeclaredAlerts(Item)) :
                out' = out \o SubSeq(Sink!DeclaredAlerts(Item), 1, k)
          /\ verdict' \in {"broken_pipe", "write_error"}
        BY <1>2, <1>6 DEF ReleaseWriteFails
    <2>3. Sink!WriteFails
        BY <1>1, <1>3, <1>4, <2>1, <2>2 DEF Sink!WriteFails
    <2> QED  BY <2>3 DEF Sink!Next
<1> QED  BY <1>5, <1>6

(* run_pipeline_st implements the same ordered sink as run_pipeline_mt      *)
(* (PipelineProofs), for any input and mode: the two thread modes agree.    *)
THEOREM LoopIsOrderedSink == Spec => ImplementsOrderedSink
<1>1. Init => Sink!Init /\ InHand
    BY DEF Init, IngestInit, InHand, ReleasedChunks, Sink!Init, Sink!ZeroMetrics, ZeroMetrics
<1>2. ScanInv /\ InHand /\ [Next]_vars => [Sink!Next]_(Sink!vars)
    <2> SUFFICES ASSUME ScanInv, InHand, [Next]_vars PROVE [Sink!Next]_(Sink!vars)
        OBVIOUS
    <2>1. CASE UNCHANGED ingest_vars
        BY <2>1 DEF ingest_vars, config, Sink!vars, ReleasedChunks
    <2>2. CASE Process
        BY <2>2 DEF Process, config, Sink!vars, ReleasedChunks
    <2>3. CASE ReadChunk \/ ReadEof \/ ReadError \/ Return
        BY <2>3, ReadIsSink
    <2>4. CASE Release \/ ReleaseWriteFails
        BY <2>4, ReleaseIsSink
    <2> QED
        BY <2>1, <2>2, <2>3, <2>4
           DEF Next, Scan, IngestStep, ParseArgs, LoadRules, RulesUnreadable, OpenEvents,
               EventsUnreadable, PoolFails, ScanFailed, FlushFails, Flush, Summarise, Exited, vars
<1>3. IInv /\ [Next]_vars => IInv'
    BY StepKeeps
<1>4. IInv => ScanInv
    BY DEF IInv
<1> QED
    BY InitHolds, InHandKept, <1>1, <1>2, <1>3, <1>4, PTL
       DEF Spec, ImplementsOrderedSink, Sink!Spec
=============================================================================
