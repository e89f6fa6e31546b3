---------------------------- MODULE OrderedSink ----------------------------
(***************************************************************************)
(* What null-sigma-cli promises of a scan, with no threads in it: chunks   *)
(* are taken from the reader, their alerts are written in chunk order,     *)
(* their counters are added to the run's, and the run stops at the first   *)
(* chunk that is fatal, at the first write that fails, or when everything  *)
(* that was taken has been written.  What a chunk contributes is declared  *)
(* by counting its lines, not computed line by line.  run_pipeline_st and  *)
(* run_pipeline_mt (modules PipelineST and Pipeline) both implement it.    *)
(***************************************************************************)
EXTENDS Trust, FiniteSets, FiniteSetsExt

CONSTANTS Inputs,   \* sequences of chunk items the reader may yield
          Modes     \* the --on-error modes: "continue", "fail-fast"

VARIABLES
    input,      \* the chunk items of this run
    on_error,   \* the error mode of this run
    taken,      \* how many of them the chunker has handed out
    reader,     \* "open", "eof" or "failed"
    released,   \* how many have been written
    stats,      \* IngestStats
    out,        \* line numbers of the alerts written, in order
    verdict     \* "running", or what run_pipeline returned

vars == <<input, on_error, taken, reader, released, stats, out, verdict>>

-----------------------------------------------------------------------------
(* The declared outcome of a chunk.                                         *)

Failures(item) == {i \in DOMAIN item.lines : item.lines[i] \in Failing}

IsFatal(item) == on_error = "fail-fast" /\ Failures(item) # {}

\* The lines looked at: all of them, or those up to the first failure.
Examined(item) ==
    IF IsFatal(item) THEN 1..Min(Failures(item)) ELSE DOMAIN item.lines

Count(item, kinds) == Cardinality({i \in Examined(item) : item.lines[i] \in kinds})

DeclaredTrust(item) ==
    [events_total       |-> Count(item, Kinds \ {"blank"}),
     events_ok          |-> Count(item, {"clean", "hit"}),
     events_failed      |-> Count(item, Failing),
     matches            |-> Count(item, {"hit"}),
     err_io_read        |-> 0,
     err_line_too_large |-> Count(item, {"too_large"}),
     err_json_parse     |-> Count(item, {"bad_utf8", "bad_json"}),
     err_flatten        |-> Count(item, {"bad_flatten"})]

AlertLines(item) ==
    {item.start_line + i - 1 : i \in {j \in Examined(item) : item.lines[j] = "hit"}}

\* The k-th smallest of a set of numbers.
Nth(S, k) == CHOOSE n \in S : Cardinality({m \in S : m <= n}) = k

DeclaredAlerts(item) ==
    [k \in 1..Cardinality(AlertLines(item)) |-> Nth(AlertLines(item), k)]

-----------------------------------------------------------------------------
Init ==
    /\ input \in Inputs
    /\ on_error \in Modes
    /\ taken = 0
    /\ reader = "open"
    /\ released = 0
    /\ stats = ZeroMetrics
    /\ out = <<>>
    /\ verdict = "running"

\* The scan may not start at all: no pool, nothing read, nothing written.
NoPool ==
    /\ verdict = "running" /\ reader = "open" /\ taken = 0
    /\ verdict' = "no_pool"
    /\ UNCHANGED <<input, on_error, taken, reader, released, stats, out>>

Take ==
    /\ verdict = "running" /\ reader = "open"
    /\ taken < Len(input)
    /\ taken' = taken + 1
    /\ UNCHANGED <<input, on_error, reader, released, stats, out, verdict>>

ReaderEof ==
    /\ verdict = "running" /\ reader = "open"
    /\ taken = Len(input)
    /\ reader' = "eof"
    /\ UNCHANGED <<input, on_error, taken, released, stats, out, verdict>>

\* A read may fail at any point of the input.  What was taken before is kept.
ReaderFails ==
    /\ verdict = "running" /\ reader = "open"
    /\ reader' = "failed"
    /\ stats' = MergeInto(IoErrorTrust, stats)
    /\ UNCHANGED <<input, on_error, taken, released, out, verdict>>

\* The next chunk in order is written whole; a fatal one ends the run.
Release ==
    LET item == input[released + 1] IN
    /\ verdict = "running" /\ released < taken
    /\ released' = released + 1
    /\ stats' = MergeInto(DeclaredTrust(item), stats)
    /\ out' = out \o DeclaredAlerts(item)
    /\ verdict' = IF IsFatal(item) THEN "event_error" ELSE "running"
    /\ UNCHANGED <<input, on_error, taken, reader>>

\* The writer refuses the next chunk, after taking some of its alerts.
WriteFails ==
    LET item == input[released + 1] IN
    /\ verdict = "running" /\ released < taken
    /\ DeclaredAlerts(item) # <<>>
    /\ stats' = MergeInto(DeclaredTrust(item), stats)
    /\ \E k \in 0..Len(DeclaredAlerts(item)) :
            out' = out \o SubSeq(DeclaredAlerts(item), 1, k)
    /\ verdict' \in {"broken_pipe", "write_error"}
    /\ UNCHANGED <<input, on_error, taken, reader, released>>

\* Ok only when everything that was taken was written; a failed read is an
\* error in fail-fast mode only.
Return ==
    /\ verdict = "running" /\ reader # "open" /\ released = taken
    /\ verdict' = IF reader = "failed" /\ on_error = "fail-fast"
                  THEN "io_error" ELSE "ok"
    /\ UNCHANGED <<input, on_error, taken, reader, released, stats, out>>

Next ==
    \/ NoPool \/ Take \/ ReaderEof \/ ReaderFails
    \/ Release \/ WriteFails \/ Return

Spec == Init /\ [][Next]_vars
=============================================================================
