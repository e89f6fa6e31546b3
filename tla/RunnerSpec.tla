----------------------------- MODULE RunnerSpec -----------------------------
(***************************************************************************)
(* What a run of null_sigma_run reports, declared from the file as a whole. *)
(***************************************************************************)
EXTENDS Runner, FlattenSpec

TypeOK ==
    /\ FlattenTypeOK
    /\ input \in Inputs /\ args \in Configs
    /\ pc \in {"load", "read", "flatten", "eval", "report", "done"}
    /\ line_number \in 0..Len(input)
    /\ \A i \in DOMAIN events : DOMAIN events[i] \subseteq Path
    /\ totals \in [total : Nat, ok : Nat, failed : Nat]
    /\ errors \in [ErrorKinds -> Nat]
    /\ samples \in Seq((Nat \ {0}) \X ErrorKinds)
    /\ waiting \subseteq DOMAIN events
    /\ matches \in Nat
    /\ stdout \in Seq(Nat) /\ exit \in {"running", "success", "failure"}

\* Flattening returns the first write of every path the document stands for, all of
\* them, or an error whose limit the document really passes: never part of a document
\* (src/json.rs:42, "rejected with a typed error rather than silently truncated").  Left
\* open is whether max_fields fields, one of them written again, are too many, which
\* FieldsErrorMeansTooMany is about.
FlattensFaithfully ==
    pc = "flatten" /\ flat # "running" =>
        LET doc == input[line_number].doc IN
        /\ \/ flat \in Answers(doc, options, FALSE)
           \/ flat = "fields" /\ FullAgain(doc, options)
        /\ flat = "ok" => event = DeclaredEvent(doc)

\* json.rs of FieldsExceeded: "Flattening produced more than max_fields fields", and of the
\* option: "Maximum number of flattened output fields before rejection".
FieldsErrorMeansTooMany ==
    pc = "flatten" /\ flat = "fields" => TooMany(input[line_number].doc, options)

\* What becomes of the lines of the file, declared.
AnswerTo(line, limits, again) ==
    CASE line.kind = "blank"    -> {"skipped"}
      [] line.kind = "long"     -> {"line_too_large"}
      [] line.kind = "bad_json" -> {"json_parse"}
      [] line.kind = "bad_utf8" -> {"io_read"}
      [] line.kind = "doc"      -> Answers(line.doc, limits, again)

DeclaredCount(line) == EvaluateEventCount(DeclaredEvent(line.doc))

\* The matches of the first n lines: of those that are good events, each flattened
\* as declared.
DeclaredMatches(lines, limits, again) ==
    LET upTo[n \in 0..Len(lines)] ==
            IF n = 0 THEN 0
            ELSE IF AnswerTo(lines[n], limits, again) = {"ok"}
                 THEN upTo[n - 1] + DeclaredCount(lines[n])
            ELSE upTo[n - 1]
    IN upTo

\* A count on stdout speaks of the whole file: it is the number of matches of every
\* line that is a good event, each flattened as declared, on any number of threads;
\* nothing is printed for part of a file (main, `invariant_ok`).  Either reading of NoRoom
\* will do, if it is the same for all lines.
PrintedCountIsWhole ==
    stdout # << >> =>
        /\ exit = "success"
        /\ line_number = Len(input)
        /\ \E again \in BOOLEAN : stdout = <<DeclaredMatches(input, options, again)[Len(input)]>>

\* The lines that have failed so far: those read, and the one a read failed at.
FailedLines(again) ==
    {i \in 1..line_number : AnswerTo(input[i], options, again) \subseteq ErrorKinds}
        \union {line_number + 1 : k \in 1..errors["io_read"]}

ErrorTotal ==
    errors["io_read"] + errors["line_too_large"] + errors["json_parse"]
        + errors["not_object"] + errors["depth"] + errors["fields"]

\* The failures before a line.
Earlier(lines, line) == {i \in lines : i < line}

\* The samples on stderr are the first failures of the file, in order, with the
\* number of their line and a kind that is right, and no more than asked for
\* (harness/README.md:238, "Samples are deterministic for a given input file"); and
\* every failure is counted once, under one kind.  Whether max_fields fields with one
\* written again fail (NoRoom) is left open here too, but it is the same for all lines.
FailuresAreReported ==
    pc # "flatten" => \E again \in BOOLEAN :
        LET failed == FailedLines(again) IN
        /\ Len(samples) = Min({Cardinality(failed), args.max_error_samples})
        /\ \A i \in DOMAIN samples :
             LET line == samples[i][1] IN
             /\ line \in failed /\ Cardinality(Earlier(failed, line)) = i - 1
             /\ samples[i][2] \in IF line > line_number THEN {"io_read"}
                                ELSE AnswerTo(input[line], options, again)
        /\ totals.failed = Cardinality(failed)
        /\ totals.failed = ErrorTotal

\* The run ends, whatever the file and the pool do.
Termination == <>(pc = "done")

\* harness/README.md:222 (trust-first ingestion policy): in continue mode
\* "event-level parse/flatten/read errors are counted and reported, and the run
\* completes": a run that gets as far as its report exits with 0.
CompletesInContinueMode ==
    [][args.on_error = "continue" /\ pc = "report" => exit' = "success"]_vars
=============================================================================
