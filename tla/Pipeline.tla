------------------------------ MODULE Pipeline ------------------------------
(***************************************************************************)
(* run_pipeline_mt of cli/src/pipeline.rs.  The main thread pulls chunks   *)
(* from the chunker, spawns one job per chunk on a Rayon pool and receives *)
(* the results over a bounded channel; results that arrive early wait in   *)
(* `pending` until every earlier chunk has been written.                   *)
(*                                                                         *)
(* A ChunkResult travels from the worker through the channel and `pending` *)
(* by its chunk id; `result` holds its contents, so the channel and        *)
(* `pending` hold ids.  Chunk ids count from 0, as in the chunker.         *)
(***************************************************************************)
EXTENDS Trust, Integers, FiniteSets

CONSTANTS Threads,     \* --threads, at least 2: 1 selects run_pipeline_st
          Inputs,      \* sequences of chunk items the reader may yield
          Modes,       \* the --on-error modes to consider
          MaxSamples   \* --max-error-samples

ASSUME ThreadsAssumption == Threads \in Nat /\ Threads >= 2
ASSUME InputsAssumption ==
    \A items \in Inputs : items \in Seq(Items) /\ WellNumbered(items)
ASSUME ModesAssumption == Modes \subseteq {"continue", "fail-fast"}
ASSUME SamplesAssumption == MaxSamples \in Nat

VARIABLES
    input, on_error,      \* this run's chunk items and error mode; never change
    mpc,                  \* where the main thread is in its loop
    taken,                \* chunks handed out, which is the chunker's next id
    eof, fatal_io,        \* the loop's flags
    inflight,             \* chunks spawned and not yet received
    queued, running,      \* jobs waiting for a pool thread, jobs on one
    result,               \* per chunk id: the job's progress, then its ChunkResult
    chan,                 \* the sync_channel
    pending,              \* received, not yet written
    next_expected,        \* id of the next chunk to write
    stats, out,           \* IngestStats; line numbers of the alerts written
    samples, sampled,     \* the shared atomic; lines reported on stderr
    verdict               \* "running", or what run_pipeline returned

main    == <<mpc, taken, eof, fatal_io, inflight, pending, next_expected,
             stats, out, verdict>>
workers == <<running, result, samples, sampled>>
config  == <<input, on_error>>
vars    == <<config, main, queued, workers, chan>>

max_inflight == 2 * Threads

ChunkIds == 0..(Len(input) - 1)

ItemOf(id) == input[id + 1]

Init ==
    /\ input \in Inputs
    /\ on_error \in Modes
    /\ mpc = "fill"
    /\ taken = 0
    /\ eof = FALSE
    /\ fatal_io = FALSE
    /\ inflight = 0
    /\ queued = {}
    /\ running = {}
    /\ result = [id \in ChunkIds |-> NewResult]
    /\ chan = <<>>
    /\ pending = {}
    /\ next_expected = 0
    /\ stats = ZeroMetrics
    /\ out = <<>>
    /\ samples = 0
    /\ sampled = {}
    /\ verdict = "running"

-----------------------------------------------------------------------------
(* The main thread: the pool, then the inner loop that keeps max_inflight   *)
(* jobs in the air.                                                         *)

\* ThreadPoolBuilder::build refuses: nothing has been read yet.  A pool that is
\* built leaves the state as it is.
PoolFails ==
    /\ mpc = "fill" /\ taken = 0 /\ ~eof
    /\ mpc' = "done"
    /\ verdict' = "no_pool"
    /\ UNCHANGED <<config, taken, eof, fatal_io, inflight, pending,
                   next_expected, stats, out, queued, workers, chan>>

\* Mutant of HasMore: one chunk more than there are.
HasMore_OffByOne == taken <= Len(input)

\* next_item has another chunk.
HasMore == taken < Len(input)

\* Mutant of CanFill: one job more than the channel has room for.
CanFill_OffByOne == mpc = "fill" /\ ~eof /\ ~fatal_io /\ inflight <= max_inflight
CanFill == mpc = "fill" /\ ~eof /\ ~fatal_io /\ inflight < max_inflight

SpawnChunk ==
    /\ CanFill
    /\ HasMore
    /\ taken' = taken + 1
    /\ inflight' = inflight + 1
    /\ queued' = queued \union {taken}
    /\ UNCHANGED <<config, mpc, eof, fatal_io, pending, next_expected, stats,
                   out, verdict, workers, chan>>

\* Mutant of ReadEof: the end of the input is not remembered.
ReadEof_Forgotten == CanFill /\ ~HasMore /\ UNCHANGED vars

ReadEof ==
    /\ CanFill
    /\ ~HasMore
    /\ eof' = TRUE
    /\ UNCHANGED <<config, mpc, taken, fatal_io, inflight, pending,
                   next_expected, stats, out, verdict, queued, workers, chan>>

ReadError ==
    /\ CanFill
    /\ stats' = MergeInto(IoErrorTrust, stats)
    /\ eof' = TRUE
    /\ fatal_io' = (on_error = "fail-fast")
    /\ UNCHANGED <<config, mpc, taken, inflight, pending, next_expected, out,
                   verdict, queued, workers, chan>>

\* The inner loop stops.  With nothing in the air the outer loop ends too
\* (its `continue` is for inflight = 0 with input left, when CanFill holds).
StopFilling ==
    /\ mpc = "fill" /\ ~CanFill
    /\ mpc' = IF inflight = 0 THEN "finish" ELSE "recv"
    /\ UNCHANGED <<config, taken, eof, fatal_io, inflight, pending,
                   next_expected, stats, out, verdict, queued, workers, chan>>

Recv ==
    /\ mpc = "recv"
    /\ chan # <<>>
    /\ chan' = Tail(chan)
    /\ inflight' = inflight - 1
    /\ pending' = pending \union {Head(chan)}
    /\ mpc' = "release"
    /\ UNCHANGED <<config, taken, eof, fatal_io, next_expected, stats, out,
                   verdict, queued, workers>>

-----------------------------------------------------------------------------
(* The ordered sink: release_result and the loop around it.                 *)

NextIsPending == mpc = "release" /\ next_expected \in pending

\* Mutant of ReleaseChunk: a fatal chunk does not end the run.
ReleaseChunk_KeepsGoing ==
    LET r == result[next_expected] IN
    /\ NextIsPending
    /\ pending' = pending \ {next_expected}
    /\ stats' = MergeInto(r.trust, stats)
    /\ out' = out \o r.alerts
    /\ next_expected' = next_expected + 1
    /\ UNCHANGED <<config, mpc, taken, eof, fatal_io, inflight, verdict, queued,
                   workers, chan>>

\* Counters first, then all the chunk's alerts, then its fatal message, which
\* returns from run_pipeline_mt before next_expected moves.
ReleaseChunk ==
    LET r == result[next_expected] IN
    /\ NextIsPending
    /\ pending' = pending \ {next_expected}
    /\ stats' = MergeInto(r.trust, stats)
    /\ out' = out \o r.alerts
    /\ IF r.fatal
       THEN mpc' = "done" /\ verdict' = "event_error" /\ UNCHANGED next_expected
       ELSE next_expected' = next_expected + 1 /\ UNCHANGED <<mpc, verdict>>
    /\ UNCHANGED <<config, taken, eof, fatal_io, inflight, queued, workers, chan>>

\* write_all or flush fails: some alerts of the chunk may have been taken.
ReleaseWriteFails ==
    LET r == result[next_expected] IN
    /\ NextIsPending
    /\ r.alerts # <<>>
    /\ pending' = pending \ {next_expected}
    /\ stats' = MergeInto(r.trust, stats)
    /\ \E k \in 0..Len(r.alerts) : out' = out \o SubSeq(r.alerts, 1, k)
    /\ mpc' = "done"
    /\ verdict' \in {"broken_pipe", "write_error"}
    /\ UNCHANGED <<config, taken, eof, fatal_io, inflight, next_expected,
                   queued, workers, chan>>

\* Mutant of StopReleasing: a read error in fail-fast mode leaves the loop at once.
StopReleasing_TooSoon ==
    /\ mpc = "release" /\ next_expected \notin pending
    /\ mpc' = IF fatal_io THEN "finish" ELSE "fill"
    /\ UNCHANGED <<config, taken, eof, fatal_io, inflight, pending,
                   next_expected, stats, out, verdict, queued, workers, chan>>

\* The next chunk in order has not arrived.
StopReleasing ==
    /\ mpc = "release" /\ next_expected \notin pending
    /\ mpc' = IF fatal_io /\ inflight = 0 THEN "finish" ELSE "fill"
    /\ UNCHANGED <<config, taken, eof, fatal_io, inflight, pending,
                   next_expected, stats, out, verdict, queued, workers, chan>>

\* After the loop.  The two draining loops of the code are entered with
\* inflight = 0 and nothing pending (NoChunkLeftBehind), so they do nothing.
Return ==
    /\ mpc = "finish"
    /\ mpc' = "done"
    /\ verdict' = IF fatal_io THEN "io_error" ELSE "ok"
    /\ UNCHANGED <<config, taken, eof, fatal_io, inflight, pending,
                   next_expected, stats, out, queued, workers, chan>>

MainStep ==
    \/ SpawnChunk \/ ReadEof \/ StopFilling \/ Recv
    \/ ReleaseChunk \/ StopReleasing \/ Return

MainNext == MainStep \/ PoolFails \/ ReadError \/ ReleaseWriteFails

-----------------------------------------------------------------------------
(* The pool.                                                                *)

\* A free pool thread picks up any waiting job.
StartJob(id) ==
    /\ id \in queued
    /\ Cardinality(running) < Threads
    /\ queued' = queued \ {id}
    /\ running' = running \union {id}
    /\ UNCHANGED <<config, main, result, samples, sampled, chan>>

\* Mutant of MayReport: the value after fetch_add is compared.
MayReport_OffByOne == samples <= MaxSamples

\* What fetch_add returned is below --max-error-samples.
MayReport == samples < MaxSamples

JobDone(id) == ChunkDone(result[id], ItemOf(id))

\* One turn of the loop of process_data_chunk (or record_line_too_large).  The
\* only shared state it touches is the atomic sample counter: fetch_add decides
\* alone whether the line is reported.
EvalNextLine(id) ==
    LET kind    == ItemOf(id).lines[result[id].next]
        counted == kind \in Sampled /\ MaxSamples > 0
    IN
    /\ id \in running /\ ~JobDone(id)
    /\ result' = [result EXCEPT ![id] = ProcessLine(@, ItemOf(id), on_error)]
    /\ samples' = IF counted THEN samples + 1 ELSE samples
    /\ sampled' = IF counted /\ MayReport
                  THEN sampled \union {LineNumber(result[id], ItemOf(id))}
                  ELSE sampled
    /\ UNCHANGED <<config, main, queued, running, chan>>

\* Sending blocks while the channel is full; once run_pipeline_mt has returned
\* the receiver is gone and the result is dropped.
SendResult(id) ==
    /\ id \in running /\ JobDone(id)
    /\ \/ /\ mpc # "done" /\ Len(chan) < max_inflight
          /\ chan' = Append(chan, id)
       \/ mpc = "done" /\ UNCHANGED chan
    /\ running' = running \ {id}
    /\ UNCHANGED <<config, main, queued, result, samples, sampled>>

PoolNext ==
    \E id \in ChunkIds : StartJob(id) \/ EvalNextLine(id) \/ SendResult(id)

\* The run is over and the pool is idle.
Finished == mpc = "done" /\ queued = {} /\ running = {} /\ UNCHANGED vars

Next == MainNext \/ PoolNext \/ Finished

\* The main thread is scheduled, and so is some pool thread while jobs remain:
\* both are OS threads that never wait for anything but the channel.  The pool,
\* reads and writes may fail but need not: termination does not count on it.
Spec == Init /\ [][Next]_vars /\ WF_vars(MainStep) /\ WF_vars(PoolNext)

-----------------------------------------------------------------------------
(* Properties.                                                              *)

TypeOK ==
    /\ input \in Inputs /\ on_error \in Modes
    /\ mpc \in {"fill", "recv", "release", "finish", "done"}
    /\ taken \in 0..Len(input)
    /\ eof \in BOOLEAN /\ fatal_io \in BOOLEAN
    /\ inflight \in Int
    /\ queued \subseteq ChunkIds /\ running \subseteq ChunkIds
    /\ pending \subseteq ChunkIds
    /\ result \in [ChunkIds -> ChunkResult]
    /\ chan \in Seq(ChunkIds)
    /\ next_expected \in Nat
    /\ stats \in Metrics
    /\ out \in Seq(Nat)
    /\ samples \in Nat /\ sampled \subseteq Nat
    /\ verdict \in {"running", "ok", "event_error", "io_error",
                    "broken_pipe", "write_error", "no_pool"}

\* Backpressure is applied by the main thread, never by the channel: while the
\* receiver lives, every job on a pool thread has a free slot in the channel, so
\* no worker ever blocks in tx.send; and the unsigned inflight never wraps.
\* (run_pipeline_mt: `inflight < max_inflight` against `sync_channel(max_inflight)`.)
SendNeverBlocks ==
    mpc # "done" =>
        /\ inflight \in 0..max_inflight
        /\ Len(chan) + Cardinality(running) <= inflight

\* When the loop of run_pipeline_mt ends, every chunk that was taken from the
\* reader has been written, in particular after a read error: no result is in the
\* pool, in the channel or in `pending`, and the two draining loops that follow
\* have nothing to do.
NoChunkLeftBehind ==
    mpc = "finish" =>
        /\ inflight = 0 /\ queued = {} /\ running = {} /\ chan = <<>>
        /\ pending = {} /\ next_expected = taken

\* The alerts on stdout are in strictly increasing line order, however the pool
\* schedules the chunks.
AlertsInOrder ==
    \A i, j \in 1..Len(out) : i < j => out[i] < out[j]

\* The accounting contract main checks at exit holds whenever the sink's stats are
\* looked at, for every mix of failing lines, read errors and early returns.
StatsBalance == Balanced(stats)

\* The lines of the taken chunks that go through fail_line.
SampledLines ==
    UNION {{ItemOf(id).start_line + i - 1 :
               i \in {j \in DOMAIN ItemOf(id).lines : ItemOf(id).lines[j] \in Sampled}} :
           id \in 0..(taken - 1)}

\* --max-error-samples bounds the lines reported by all workers together, and the
\* workers racing on the shared counter waste none of the allowance: a run that
\* returns Ok has reported as many failed lines as it may, each once.
SamplesAreCapped ==
    /\ Cardinality(sampled) <= MaxSamples
    /\ verdict = "ok" =>
          LET failed == Cardinality(SampledLines) IN
          Cardinality(sampled) = IF failed < MaxSamples THEN failed ELSE MaxSamples

\* The run always ends, and leaves the pool idle: no schedule of the workers, no
\* pool, read or write error and no slow first chunk makes the main thread wait for ever.
Termination == <>(mpc = "done" /\ queued = {} /\ running = {})
=============================================================================
