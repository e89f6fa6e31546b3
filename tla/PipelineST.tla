----------------------------- MODULE PipelineST -----------------------------
(***************************************************************************)
(* run_pipeline_st of cli/src/pipeline.rs (--threads 1): one loop that     *)
(* reads a chunk, processes it and releases it before reading the next.    *)
(* Module Cli runs it between the other things main does.                  *)
(***************************************************************************)
EXTENDS Trust, Integers

CONSTANTS Inputs, Modes

ASSUME InputsAssumption ==
    \A items \in Inputs : items \in Seq(Items) /\ WellNumbered(items)

VARIABLES input, on_error,   \* this run's chunk items and error mode
          pc,                \* "read", "process", "release" or "done"
          taken,             \* chunks handed out by the chunker
          result,            \* the ChunkResult being built
          stats, out,        \* IngestStats; line numbers of the alerts written
          reader,            \* "open", "eof" or "failed": how next_item answered
          verdict            \* "running", or what run_pipeline returned

config      == <<input, on_error>>
ingest_vars == <<config, pc, taken, result, stats, out, reader, verdict>>

Item == input[taken]

IngestInit ==
    /\ input \in Inputs
    /\ on_error \in Modes
    /\ pc = "read"
    /\ taken = 0
    /\ result = NewResult
    /\ stats = ZeroMetrics
    /\ out = <<>>
    /\ reader = "open"
    /\ verdict = "running"

ReadChunk ==
    /\ pc = "read" /\ reader = "open"
    /\ taken < Len(input)
    /\ taken' = taken + 1
    /\ result' = NewResult
    /\ pc' = "process"
    /\ UNCHANGED <<config, stats, out, reader, verdict>>

\* Ok(None), or a read error in continue mode: the loop breaks.
ReadEof ==
    /\ pc = "read" /\ reader = "open"
    /\ taken = Len(input)
    /\ reader' = "eof"
    /\ UNCHANGED <<config, pc, taken, result, stats, out, verdict>>

ReadError ==
    /\ pc = "read" /\ reader = "open"
    /\ stats' = MergeInto(IoErrorTrust, stats)
    /\ reader' = "failed"
    /\ UNCHANGED <<config, pc, taken, result, out, verdict>>

Return ==
    /\ pc = "read" /\ reader # "open"
    /\ pc' = "done"
    /\ verdict' = IF reader = "failed" /\ on_error = "fail-fast"
                  THEN "io_error" ELSE "ok"
    /\ UNCHANGED <<config, taken, result, stats, out, reader>>

Process ==
    /\ pc = "process"
    /\ IF ChunkDone(result, Item)
       THEN pc' = "release" /\ UNCHANGED result
       ELSE result' = ProcessLine(result, Item, on_error) /\ UNCHANGED pc
    /\ UNCHANGED <<config, taken, stats, out, reader, verdict>>

\* Mutant of Release: a fatal chunk does not end the loop.
Release_KeepsGoing ==
    /\ pc = "release"
    /\ stats' = MergeInto(result.trust, stats)
    /\ out' = out \o result.alerts
    /\ pc' = "read"
    /\ UNCHANGED <<config, taken, result, reader, verdict>>

Release ==
    /\ pc = "release"
    /\ stats' = MergeInto(result.trust, stats)
    /\ out' = out \o result.alerts
    /\ IF result.fatal
       THEN pc' = "done" /\ verdict' = "event_error"
       ELSE pc' = "read" /\ UNCHANGED verdict
    /\ UNCHANGED <<config, taken, result, reader>>

ReleaseWriteFails ==
    /\ pc = "release"
    /\ result.alerts # <<>>
    /\ stats' = MergeInto(result.trust, stats)
    /\ \E k \in 0..Len(result.alerts) : out' = out \o SubSeq(result.alerts, 1, k)
    /\ pc' = "done"
    /\ verdict' \in {"broken_pipe", "write_error"}
    /\ UNCHANGED <<config, taken, result, reader>>

IngestStep ==
    \/ ReadChunk \/ ReadEof \/ ReadError \/ Return
    \/ Process \/ Release \/ ReleaseWriteFails

-----------------------------------------------------------------------------
\* Every chunk taken but the one in hand is released; so is a fatal one.
ReleasedChunks ==
    IF pc \in {"process", "release"} \/ verdict \in {"broken_pipe", "write_error"}
    THEN taken - 1 ELSE taken

Sink == INSTANCE OrderedSink WITH released <- ReleasedChunks

\* The single-threaded loop implements the ordered sink: with the same property of
\* run_pipeline_mt (PipelineRefinement), the two thread modes agree.
ImplementsOrderedSink == Sink!Spec
=============================================================================
