------------------------------- MODULE Runner -------------------------------
(***************************************************************************)
(* harness/src/bin/null_sigma_run.rs: reads a whole JSONL file into flat    *)
(* events, counting what it cannot use, then evaluates the events on one    *)
(* thread or on a Rayon pool, checks its accounts and prints the number of  *)
(* matches.  Flattening is the machine of module Flatten.                   *)
(*                                                                          *)
(* A line is the branch of ingest_events it takes:                          *)
(*   blank      only white space: skipped, not an event                     *)
(*   long       longer than --max-line-bytes                                *)
(*   bad_json   serde_json rejects it                                       *)
(*   doc        JSON: flatten_value_with is called                          *)
(*   bad_utf8   read_line itself fails: the text is not UTF-8               *)
(* An I/O error may make any other read_line fail as well.                  *)
(***************************************************************************)
EXTENDS Flatten

CONSTANTS Inputs,      \* the files, as sequences of lines
          Configs,     \* command lines: threads, on_error, max_error_samples
          Rules        \* rules, each the <<path, text>> cells it asks for

LineKinds == {"blank", "long", "bad_json", "doc", "bad_utf8"}
NoDoc     == [kind |-> "scalar", text |-> << >>]
Lines     == [kind : LineKinds, doc : Values \union {NoDoc}]

ASSUME InputsAssumption == Inputs \subseteq Seq(Lines)

\* What parse_args and resolve_thread_count leave: --threads 0 is the number of cores.
CommandLines == [threads : Nat \ {0}, on_error : {"continue", "fail-fast"},
                 max_error_samples : Nat]

ASSUME ConfigsAssumption == Configs \subseteq CommandLines
ASSUME RulesAssumption ==
    IsFiniteSet(Rules) /\ Rules \subseteq SUBSET (Path \X Text)

VARIABLES input, args,   \* this run's file and command line
          pc,            \* "load", "read", "flatten", "eval", "report" or "done"
          line_number,
          events,        \* stats.events
          totals,        \* events_total, events_ok, events_failed
          errors,        \* ErrorCounters, by kind
          samples,       \* ingest_error_sample lines: <<line, kind>>
          waiting,       \* indices of the events not yet evaluated
          matches,       \* the sum so far
          stdout,        \* what main prints
          exit           \* the exit status

runner == <<input, args, pc, line_number, events, totals, errors, samples,
            waiting, matches, stdout, exit>>
vars   == <<flattening, runner>>

FlattenErrors == {"not_object", "depth", "fields"}
ErrorKinds    == {"io_read", "line_too_large", "json_parse"} \union FlattenErrors

Init ==
    /\ FlattenInit
    /\ input \in Inputs
    /\ args \in Configs
    /\ pc = "load"
    /\ line_number = 0
    /\ events = << >>
    /\ totals = [total |-> 0, ok |-> 0, failed |-> 0]
    /\ errors = [kind \in ErrorKinds |-> 0]
    /\ samples = << >>
    /\ waiting = {}
    /\ matches = 0
    /\ stdout = << >>
    /\ exit = "running"

-----------------------------------------------------------------------------
\* main ends with std::process::exit(status).
ExitWith(status) ==
    /\ pc' = "done"
    /\ exit' = status

\* load_rules_from_dir and File::open: what cannot be read ends the run.
LoadRules ==
    /\ pc = "load"
    /\ \/ pc' = "read" /\ UNCHANGED exit
       \/ ExitWith("failure")
    /\ UNCHANGED <<flattening, input, args, line_number, events, totals, errors,
                   samples, waiting, matches, stdout>>

\* Mutant of EmitSample: the cap is passed by one.
EmitSample_OffByOne(line, kind) ==
    samples' = IF Len(samples) <= args.max_error_samples
               THEN Append(samples, <<line, kind>>) ELSE samples

\* maybe_emit_error_sample.
EmitSample(line, kind) ==
    samples' = IF Len(samples) < args.max_error_samples
               THEN Append(samples, <<line, kind>>) ELSE samples

\* The error counter, then fail_event: in fail-fast mode its Err makes main exit
\* with 1; otherwise the loop goes on as `next` says.  `counted` is what this branch
\* has added to events_total.
FailEvent(line, kind, counted, next) ==
    /\ errors' = [errors EXCEPT ![kind] = @ + 1]
    /\ totals' = [total |-> totals.total + counted, ok |-> totals.ok,
                  failed |-> totals.failed + 1]
    /\ EmitSample(line, kind)
    /\ IF args.on_error = "fail-fast" THEN ExitWith("failure")
       ELSE pc' = next /\ UNCHANGED exit

\* Mutant of AllEvents: the indices start at zero.
AllEvents_FromZero == 0..Len(events)

AllEvents == DOMAIN events

HasLine == line_number < Len(input)
Line    == input[line_number + 1]

\* read_line answers Err: the loop breaks, and the failed read is no event.
ReadFailure ==
    /\ pc = "read"
    /\ FailEvent(line_number + 1, "io_read", 0, "eval")
    /\ waiting' = AllEvents
    /\ UNCHANGED <<flattening, input, args, line_number, events, matches, stdout>>

IoError == ReadFailure

NotText == HasLine /\ Line.kind = "bad_utf8" /\ ReadFailure

\* Mutant of ReadEof: zero bytes are not taken for the end.
ReadEof_Forgotten == pc = "read" /\ ~HasLine /\ UNCHANGED vars

ReadEof ==
    /\ pc = "read" /\ ~HasLine
    /\ pc' = "eval"
    /\ waiting' = AllEvents
    /\ UNCHANGED <<flattening, input, args, line_number, events, totals, errors,
                   samples, matches, stdout, exit>>

ReadLine ==
    /\ pc = "read" /\ HasLine /\ Line.kind # "bad_utf8"
    /\ line_number' = line_number + 1
    /\ \/ /\ Line.kind = "blank"
          /\ UNCHANGED <<flattening, pc, totals, errors, samples, exit>>
       \/ /\ Line.kind = "long"
          /\ FailEvent(line_number + 1, "line_too_large", 1, "read")
          /\ UNCHANGED flattening
       \/ /\ Line.kind = "bad_json"
          /\ FailEvent(line_number + 1, "json_parse", 1, "read")
          /\ UNCHANGED flattening
       \/ /\ Line.kind = "doc"
          /\ totals' = [totals EXCEPT !.total = @ + 1]
          /\ Begin(Line.doc)
          /\ pc' = "flatten"
          /\ UNCHANGED <<errors, samples, exit>>
    /\ UNCHANGED <<input, args, events, waiting, matches, stdout>>

Flattening ==
    /\ pc = "flatten"
    /\ FlattenStep
    /\ UNCHANGED runner

Flattened ==
    /\ pc = "flatten" /\ flat = "ok"
    /\ totals' = [totals EXCEPT !.ok = @ + 1]
    /\ events' = Append(events, event)
    /\ pc' = "read"
    /\ UNCHANGED <<flattening, input, args, line_number, errors, samples, waiting,
                   matches, stdout, exit>>

NotFlattened ==
    /\ pc = "flatten" /\ flat \in FlattenErrors
    /\ FailEvent(line_number, flat, 0, "read")
    /\ UNCHANGED <<flattening, input, args, line_number, events, waiting, matches,
                   stdout>>

-----------------------------------------------------------------------------
\* Rules that ask for cells the event has.
EvaluateEventCount(e) ==
    Cardinality({rule \in Rules :
                    \A cell \in rule : cell[1] \in DOMAIN e /\ e[cell[1]] = cell[2]})

\* One thread takes the events in order; a pool takes any of them.
NextEvents ==
    IF args.threads = 1 THEN {i \in waiting : \A j \in waiting : i <= j} ELSE waiting

EvaluateEvent(i) ==
    /\ pc = "eval" /\ i \in NextEvents
    /\ waiting' = waiting \ {i}
    /\ matches' = matches + EvaluateEventCount(events[i])
    /\ UNCHANGED <<flattening, input, args, pc, line_number, events, totals, errors,
                   samples, stdout, exit>>

\* ThreadPoolBuilder::build fails.
NoPool ==
    /\ pc = "eval" /\ args.threads > 1 /\ waiting = AllEvents
    /\ ExitWith("failure")
    /\ UNCHANGED <<flattening, input, args, line_number, events, totals, errors,
                   samples, waiting, matches, stdout>>

\* evaluate_events returns the sum of all of them.
Evaluated ==
    /\ pc = "eval" /\ NextEvents = {}
    /\ pc' = "report"
    /\ UNCHANGED <<flattening, input, args, line_number, events, totals, errors,
                   samples, waiting, matches, stdout, exit>>

\* Mutant of InvariantOk: only missing events are noticed.
InvariantOk_AtMost == totals.total <= totals.ok + totals.failed

InvariantOk == totals.total = totals.ok + totals.failed

\* FATAL and exit 1, or the count on stdout.
Report ==
    /\ pc = "report"
    /\ IF InvariantOk THEN stdout' = <<matches>> /\ ExitWith("success")
       ELSE UNCHANGED stdout /\ ExitWith("failure")
    /\ UNCHANGED <<flattening, input, args, line_number, events, totals, errors,
                   samples, waiting, matches>>

Finished == pc = "done" /\ UNCHANGED vars

Step ==
    \/ LoadRules \/ NotText \/ ReadEof \/ ReadLine
    \/ Flattening \/ Flattened \/ NotFlattened
    \/ \E i \in waiting : EvaluateEvent(i)
    \/ Evaluated \/ Report

Next == Step \/ IoError \/ NoPool \/ Finished

\* One sequential program; a Rayon pool evaluates every item it is given.  I/O errors
\* are outside: that the run ends does not rely on them.
Spec == Init /\ [][Next]_vars /\ WF_vars(Step)
=============================================================================
