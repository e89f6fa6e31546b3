------------------------------- MODULE Trust -------------------------------
(***************************************************************************)
(* The trust counters of cli/src/ingest.rs and what one JSONL line does to *)
(* them.  A line is abstracted to the branch of eval_line (or of the loop  *)
(* of process_data_chunk) it takes:                                        *)
(*                                                                         *)
(*   blank        only white space: skipped, not an event                  *)
(*   clean        a good event that no rule matches                        *)
(*   hit          a good event that one rule matches: one alert            *)
(*   bad_utf8     not UTF-8: counted as a parse error, never sampled       *)
(*   too_large    longer than --max-line-bytes                             *)
(*   bad_json     serde_json rejects it                                    *)
(*   bad_flatten  flatten_value_with rejects it                            *)
(***************************************************************************)
EXTENDS Naturals, Sequences

Kinds == {"blank", "clean", "hit",
          "bad_utf8", "too_large", "bad_json", "bad_flatten"}

Failing == {"bad_utf8", "too_large", "bad_json", "bad_flatten"}

\* The kinds whose failure goes through fail_line, hence maybe_emit_error_sample.
Sampled == {"too_large", "bad_json", "bad_flatten"}

\* A ChunkItem: Data { start_line, bytes } is its start line and the kinds of its
\* raw lines; LineTooLarge { line_number } is one line of kind too_large, which
\* record_line_too_large counts exactly as eval_line does.
Items == [start_line : Nat \ {0}, lines : Seq(Kinds)]

\* Chunk items as the chunker numbers them: no empty chunk, lines counted from 1.
WellNumbered(items) ==
    \A i \in 1..Len(items) :
        /\ items[i].lines # <<>>
        /\ items[i].start_line =
             IF i = 1 THEN 1
             ELSE items[i - 1].start_line + Len(items[i - 1].lines)

\* ChunkTrustMetrics and the counters of IngestStats.  The three flatten
\* counters, which the program only ever adds up, are one.
Metrics == [events_total : Nat, events_ok : Nat, events_failed : Nat,
            matches : Nat, err_io_read : Nat, err_line_too_large : Nat,
            err_json_parse : Nat, err_flatten : Nat]

ZeroMetrics == [events_total |-> 0, events_ok |-> 0, events_failed |-> 0,
                matches |-> 0, err_io_read |-> 0, err_line_too_large |-> 0,
                err_json_parse |-> 0, err_flatten |-> 0]

ErrorTotal(t) ==
    t.err_io_read + t.err_line_too_large + t.err_json_parse + t.err_flatten

\* Mutant of LineTrust: the loop forgets that a line that is not UTF-8 failed.
LineTrust_ForgetsUtf8(kind) ==
    LET one(cond) == IF cond THEN 1 ELSE 0 IN
    [ZeroMetrics EXCEPT
        !.events_total = one(kind # "blank"),
        !.events_ok = one(kind \in {"clean", "hit"}),
        !.events_failed = one(kind \in Sampled),
        !.matches = one(kind = "hit"),
        !.err_line_too_large = one(kind = "too_large"),
        !.err_json_parse = one(kind \in {"bad_utf8", "bad_json"}),
        !.err_flatten = one(kind = "bad_flatten")]

\* What one raw line adds to the counters, by the branch it takes: eval_line and
\* fail_line for the lines that are UTF-8 text, the loop itself for the others.
LineTrust(kind) ==
    LET one(cond) == IF cond THEN 1 ELSE 0 IN
    [events_total       |-> one(kind # "blank"),
     events_ok          |-> one(kind \in {"clean", "hit"}),
     events_failed      |-> one(kind \in Failing),
     matches            |-> one(kind = "hit"),
     err_io_read        |-> 0,
     err_line_too_large |-> one(kind = "too_large"),
     err_json_parse     |-> one(kind \in {"bad_utf8", "bad_json"}),
     err_flatten        |-> one(kind = "bad_flatten")]

\* A failed read is an event of its own, charged to the stats of the run.
IoErrorTrust ==
    [events_total |-> 1, events_ok |-> 0, events_failed |-> 1,
     matches |-> 0, err_io_read |-> 1, err_line_too_large |-> 0,
     err_json_parse |-> 0, err_flatten |-> 0]

\* merge_into: counters are only ever added to.
MergeInto(t, s) ==
    [events_total       |-> s.events_total + t.events_total,
     events_ok          |-> s.events_ok + t.events_ok,
     events_failed      |-> s.events_failed + t.events_failed,
     matches            |-> s.matches + t.matches,
     err_io_read        |-> s.err_io_read + t.err_io_read,
     err_line_too_large |-> s.err_line_too_large + t.err_line_too_large,
     err_json_parse     |-> s.err_json_parse + t.err_json_parse,
     err_flatten        |-> s.err_flatten + t.err_flatten]

\* The accounting contract: every event is ok or failed, and every failure has
\* exactly one error kind.  main exits 1 with FATAL when the first half is false.
Balanced(t) == /\ t.events_total = t.events_ok + t.events_failed
               /\ t.events_failed = ErrorTotal(t)

-----------------------------------------------------------------------------
(* One chunk on its way through process_data_chunk: next is the raw line it *)
(* looks at next, alerts the line numbers of its alerts so far.             *)

ChunkResult == [next : Nat \ {0}, trust : Metrics, alerts : Seq(Nat), fatal : BOOLEAN]

NewResult == [next |-> 1, trust |-> ZeroMetrics, alerts |-> <<>>, fatal |-> FALSE]

\* The loop is over: the lines are exhausted, or one was fatal.
ChunkDone(r, item) == r.fatal \/ r.next > Len(item.lines)

\* Mutant of LineNumber: lines are numbered within the chunk.
LineNumber_InChunk(r, item) == r.next

LineNumber(r, item) == item.start_line + r.next - 1

\* One turn of the loop.
ProcessLine(r, item, mode) ==
    LET kind == item.lines[r.next] IN
    [next   |-> r.next + 1,
     trust  |-> MergeInto(LineTrust(kind), r.trust),
     alerts |-> IF kind = "hit" THEN Append(r.alerts, LineNumber(r, item)) ELSE r.alerts,
     fatal  |-> kind \in Failing /\ mode = "fail-fast"]
=============================================================================
