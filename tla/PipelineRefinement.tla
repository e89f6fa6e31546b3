------------------------- MODULE PipelineRefinement -------------------------
(***************************************************************************)
(* The multi-threaded pipeline keeps the promise of OrderedSink: what it   *)
(* writes, counts and returns is what writing the chunks one after another *)
(* would give.                                                             *)
(***************************************************************************)
EXTENDS Pipeline

\* A chunk is released when the sink has dealt with it: the fatal one too, after
\* which next_expected does not move.  A write that fails releases nothing.
ReleasedChunks ==
    IF verdict = "event_error" THEN next_expected + 1 ELSE next_expected

ReaderState ==
    IF stats.err_io_read > 0 THEN "failed" ELSE IF eof THEN "eof" ELSE "open"

Sink == INSTANCE OrderedSink
            WITH reader <- ReaderState, released <- ReleasedChunks

\* Pool, channel and `pending` are invisible from outside: run_pipeline_mt
\* implements the ordered sink, so --threads N and --threads 1 agree.
ImplementsOrderedSink == Sink!Spec
=============================================================================
