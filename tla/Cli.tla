-------------------------------- MODULE Cli --------------------------------
(***************************************************************************)
(* main of cli/src/main.rs around run_pipeline: the arguments, the rules,  *)
(* the scan, the last flush of the buffered stdout, the summary, and the   *)
(* status the process exits with.  The scan is run_pipeline_st; the other  *)
(* thread mode implements the same sink (module Pipeline), and main sees   *)
(* no more of either than what OrderedSink says.                           *)
(***************************************************************************)
EXTENDS PipelineST

VARIABLES args,         \* the command line: "run", "help" or "bad"
          flush_alerts,
          phase,        \* where main is; "exited" at the end
          stdout,       \* "open", or how the last write to it failed
          delivered,    \* how many of the alerts in out have left the BufWriter
          status        \* the exit status; Running before

cli  == <<args, flush_alerts>>
vars == <<ingest_vars, cli, phase, stdout, delivered, status>>

Running == -1

StdoutErrors == {"broken_pipe", "write_error"}

Init ==
    /\ IngestInit
    /\ args \in {"run", "help", "bad"}
    /\ flush_alerts \in BOOLEAN
    /\ phase = "args"
    /\ stdout = "open"
    /\ delivered = 0
    /\ status = Running

ExitWith(code) == phase' = "exited" /\ status' = code

-----------------------------------------------------------------------------
\* --help exits at once, anything parse_args refuses with 2.
ParseArgs ==
    /\ phase = "args"
    /\ \/ args = "run"  /\ phase' = "rules" /\ UNCHANGED status
       \/ args = "help" /\ ExitWith(0)
       \/ args = "bad"  /\ ExitWith(2)
    /\ UNCHANGED <<ingest_vars, cli, stdout, delivered>>

\* Rules that do not load are skipped and counted; the directory and its files
\* must be readable.
LoadRules ==
    /\ phase = "rules"
    /\ phase' = "open"
    /\ UNCHANGED <<ingest_vars, cli, stdout, delivered, status>>

RulesUnreadable ==
    /\ phase = "rules"
    /\ ExitWith(1)
    /\ UNCHANGED <<ingest_vars, cli, stdout, delivered>>

OpenEvents ==
    /\ phase = "open"
    /\ phase' = "scan"
    /\ UNCHANGED <<ingest_vars, cli, stdout, delivered, status>>

EventsUnreadable ==
    /\ phase = "open"
    /\ ExitWith(1)
    /\ UNCHANGED <<ingest_vars, cli, stdout, delivered>>

\* The BufWriter passes on what it likes, and everything with --flush-alerts.
Delivers ==
    IF flush_alerts /\ out' # out /\ verdict' \notin StdoutErrors
    THEN delivered' = Len(out')
    ELSE \E n \in delivered..Len(out') : delivered' = n

Scan ==
    /\ phase = "scan" /\ pc # "done"
    /\ IngestStep
    /\ Delivers
    /\ stdout' = IF verdict' \in StdoutErrors THEN verdict' ELSE stdout
    /\ UNCHANGED <<cli, phase, status>>

\* With two threads or more the pool comes first, and may not be built: nothing has
\* been read, and there is nothing to flush.
PoolFails ==
    /\ phase = "scan" /\ pc = "read" /\ reader = "open" /\ taken = 0
    /\ ExitWith(1)
    /\ UNCHANGED <<ingest_vars, cli, stdout, delivered>>

\* run_pipeline returned an error: one more try to flush, whose outcome is
\* dropped, and a broken pipe is no failure.
ScanFailed ==
    /\ phase = "scan" /\ pc = "done" /\ verdict # "ok"
    /\ \E n \in delivered..Len(out) : delivered' = n
    /\ ExitWith(IF verdict = "broken_pipe" THEN 0 ELSE 1)
    /\ UNCHANGED <<ingest_vars, cli, stdout>>

\* Mutant of FlushFails: the outcome of the last flush is dropped as well.
FlushFails_Ignored ==
    /\ phase = "scan" /\ pc = "done" /\ verdict = "ok" /\ delivered < Len(out)
    /\ \E n \in delivered..(Len(out) - 1) : delivered' = n
    /\ stdout' \in StdoutErrors
    /\ phase' = "summary"
    /\ UNCHANGED <<ingest_vars, cli, status>>

FlushFails ==
    /\ phase = "scan" /\ pc = "done" /\ verdict = "ok" /\ delivered < Len(out)
    /\ \E n \in delivered..(Len(out) - 1) : delivered' = n
    /\ stdout' \in StdoutErrors
    /\ ExitWith(IF stdout' = "broken_pipe" THEN 0 ELSE 1)
    /\ UNCHANGED <<ingest_vars, cli>>

Flush ==
    /\ phase = "scan" /\ pc = "done" /\ verdict = "ok"
    /\ delivered' = Len(out)
    /\ phase' = "summary"
    /\ UNCHANGED <<ingest_vars, cli, stdout, status>>

\* The summary, and the accounting check.
Summarise ==
    /\ phase = "summary"
    /\ ExitWith(IF Balanced(stats) THEN 0 ELSE 1)
    /\ UNCHANGED <<ingest_vars, cli, stdout, delivered>>

Exited == phase = "exited" /\ UNCHANGED vars

Next ==
    \/ ParseArgs \/ LoadRules \/ RulesUnreadable \/ OpenEvents \/ EventsUnreadable
    \/ PoolFails \/ Scan \/ ScanFailed \/ FlushFails \/ Flush \/ Summarise \/ Exited

Spec == Init /\ [][Next]_vars

-----------------------------------------------------------------------------
(* Properties.                                                              *)

\* The scan went through the whole input or up to a failed read in continue
\* mode, all alerts are out, and fail-fast mode saw no error.
Completed ==
    /\ verdict = "ok" /\ reader # "open"
    /\ reader = "eof" => taken = Len(input)
    /\ delivered = Len(out)
    /\ on_error = "fail-fast" => stats.events_failed = 0

\* cli/README.md "Exit codes": the status tells a script what it may believe of the
\* output.  2 is bad arguments alone; 0 without a broken pipe is a completed scan
\* with every alert delivered; 1 always has one of the reasons the table lists, and
\* never hides a scan that completed.
ExitStatusTells ==
    phase = "exited" =>
        /\ (status = 2) <=> (args = "bad")
        /\ status = 0 /\ args = "run" /\ stdout # "broken_pipe" => Completed
        /\ status = 1 =>
            \/ pc # "done" /\ taken = 0
            \/ on_error = "fail-fast" /\ stats.events_failed > 0
            \/ stdout = "write_error"
=============================================================================
