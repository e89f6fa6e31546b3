----------------------------- MODULE MCPipeline -----------------------------
(* Finite inputs for the pipeline: chunk items as the chunker numbers them. *)
EXTENDS PipelineRefinement

\* Items with the given lines, numbered as take_data_chunk does.
Numbered(chunks) ==
    LET before[i \in 1..Len(chunks)] ==
            IF i = 1 THEN 1 ELSE before[i - 1] + Len(chunks[i - 1])
    IN [i \in 1..Len(chunks) |-> [start_line |-> before[i], lines |-> chunks[i]]]

\* One more chunk than max_inflight = 4 admits, so the inner loop stops filling.
MCLong == {Numbered(<< <<"hit">>, <<"clean">>, <<"hit">>, <<"too_large">>, <<"hit">> >>)}

\* Every kind of line, fatal lines with lines after them, and the empty input.
MCMixed == {
    << >>,
    Numbered(<< <<"hit", "bad_json", "hit">>, <<"hit">>, <<"too_large">> >>),
    Numbered(<< <<"blank", "hit", "hit">>, <<"bad_utf8", "hit">>, <<"bad_flatten", "clean">> >>),
    Numbered(<< <<"clean">>, <<"hit", "hit">>, <<"bad_flatten">> >>)}

MCInputs == MCLong \union MCMixed

BothModes == {"continue", "fail-fast"}
=============================================================================
