------------------------------- MODULE Chunker -------------------------------
(***************************************************************************)
(* cli/src/chunker.rs: cuts a byte stream, delivered by reads of any size, *)
(* into chunks of whole lines, and drains lines that are too long.         *)
(*                                                                         *)
(* A byte is "n" (the newline) or "x" (any other).  avail is               *)
(* buf[pos..len]; fill compacts the buffer before it looks at its room, so *)
(* pos is never needed, only the capacity is.  src, items and reader_done  *)
(* are history: what was read, what next_item returned (offsets into src), *)
(* and whether the reader itself ever reported its end.                    *)
(***************************************************************************)
EXTENDS Integers, Sequences, FiniteSets, FiniteSetsExt

CONSTANTS max_line_bytes,       \* --max-line-bytes
          DEFAULT_CHUNK_BYTES,  \* 1 MiB in the code
          Slack,                \* 64 in the code: room beyond max_line_bytes
          Bytes,                \* the kinds of byte in the input
          MaxInput              \* bound on the length of the input

ASSUME LimitsAssumption ==
    /\ max_line_bytes \in Nat /\ max_line_bytes >= 1
    /\ DEFAULT_CHUNK_BYTES \in Nat /\ DEFAULT_CHUNK_BYTES >= 1
    /\ Slack \in Nat /\ Slack >= 1
    /\ Bytes \subseteq {"x", "n"}
    /\ MaxInput \in Nat

VARIABLES
    pc,             \* "next", "drain", "end" (returned None), "failed" (Err)
    avail,          \* unconsumed bytes in the buffer
    cap,            \* buf.len()
    eof,            \* self.eof
    next_chunk_id, next_line,
    draining,       \* id, line number and start of the line being drained
    src, items, reader_done

vars == <<pc, avail, cap, eof, next_chunk_id, next_line, draining, src, items,
          reader_done>>

Smaller(a, b) == IF a <= b THEN a ELSE b
Larger(a, b)  == IF a >= b THEN a ELSE b

\* target_chunk_bytes, which is also the initial capacity.
target == Smaller(DEFAULT_CHUNK_BYTES, max_line_bytes)

Init ==
    /\ pc = "next"
    /\ avail = <<>> /\ cap = target /\ eof = FALSE
    /\ next_chunk_id = 0 /\ next_line = 1
    /\ draining = [id |-> 0, line |-> 0, from |-> 0]
    /\ src = <<>> /\ items = <<>> /\ reader_done = FALSE

-----------------------------------------------------------------------------
Newlines(s) == {i \in DOMAIN s : s[i] = "n"}

HasLine == Newlines(avail) # {}

\* Mutant of CompleteLen: everything buffered goes out.
CompleteLen_All == Len(avail)

\* Bytes up to and including the last newline, when there is one.
CompleteLen == Max(Newlines(avail))

Offset == Len(src) - Len(avail)

count_lines(bytes) ==
    IF bytes = <<>> THEN 0
    ELSE Cardinality(Newlines(bytes)) + (IF bytes[Len(bytes)] = "n" THEN 0 ELSE 1)

\* Mutant of TooLong: a line of exactly the limit is too long.
TooLong_OffByOne == Len(avail) >= max_line_bytes

\* What is held of a line is longer than the limit.
TooLong == Len(avail) > max_line_bytes

\* Mutants of GrowTo: no room beyond the longest line; no bound at all.
GrowTo_NoSlack   == Smaller(Larger(2 * cap, cap + target), max_line_bytes)
GrowTo_Unbounded == Larger(2 * cap, cap + target)

\* fill doubles a full buffer, up to max_line_bytes + Slack; when that is no
\* growth it returns Ok(0) without reading.
GrowTo == Smaller(Larger(2 * cap, cap + target), max_line_bytes + Slack)
Stuck  == Len(avail) = cap /\ GrowTo <= cap
Room   == IF Len(avail) = cap THEN GrowTo ELSE cap

\* The bytes one read may deliver.
Reads(room) ==
    UNION {[1..n -> Bytes] : n \in 1..Smaller(room, MaxInput - Len(src))}

\* take_data_chunk: the first n unconsumed bytes leave as one Data item.
TakeData(n) ==
    /\ items' = Append(items, [kind |-> "data", id |-> next_chunk_id,
                               line |-> next_line, from |-> Offset, to |-> Offset + n])
    /\ next_chunk_id' = next_chunk_id + 1
    /\ next_line' = next_line + count_lines(SubSeq(avail, 1, n))
    /\ avail' = SubSeq(avail, n + 1, Len(avail))
    /\ UNCHANGED <<pc, draining, src>>

-----------------------------------------------------------------------------
(* next_item, one turn of its loop.                                         *)

\* The turn reads: a short run of lines may grow into a larger chunk, or the
\* current line has no end yet and is not too long.
WantsMore ==
    /\ pc = "next" /\ ~eof
    /\ IF HasLine THEN CompleteLen < target ELSE ~TooLong

TakeComplete ==
    /\ pc = "next" /\ HasLine
    /\ CompleteLen >= target \/ eof
    /\ TakeData(CompleteLen)
    /\ UNCHANGED <<cap, eof, reader_done>>

\* fill had no room for more: what is complete goes out.
TakeWhenStuck ==
    /\ WantsMore /\ HasLine /\ Stuck
    /\ TakeData(CompleteLen)
    /\ UNCHANGED <<cap, eof, reader_done>>

ReadMore ==
    /\ WantsMore /\ ~Stuck
    /\ \E bytes \in Reads(Room - Len(avail)) :
          /\ avail' = avail \o bytes
          /\ src' = src \o bytes
    /\ cap' = Room
    /\ UNCHANGED <<pc, eof, next_chunk_id, next_line, draining, items, reader_done>>

\* The read finds the end of the input after some complete lines.
ReadEndWithLines ==
    /\ WantsMore /\ ~Stuck /\ HasLine
    /\ eof' = TRUE /\ reader_done' = TRUE
    /\ cap' = Room
    /\ TakeData(CompleteLen)

\* Mutant of ReadEndNoLine: the end of the input is not remembered.
ReadEndNoLine_Forgotten ==
    /\ WantsMore /\ ~HasLine
    /\ cap' = IF Stuck THEN cap ELSE Room
    /\ UNCHANGED <<pc, avail, eof, next_chunk_id, next_line, draining, src, items,
                   reader_done>>

\* Without a complete line, Ok(0) from fill sets eof: because the reader is at its
\* end, or (the branch `n == 0 && ... && !self.eof`) because fill was stuck.
ReadEndNoLine ==
    /\ WantsMore /\ ~HasLine
    /\ eof' = TRUE
    /\ reader_done' = ~Stuck
    /\ cap' = IF Stuck THEN cap ELSE Room
    /\ UNCHANGED <<pc, avail, next_chunk_id, next_line, draining, src, items>>

\* A read error surfaces at once; the buffer is not looked at again.
ReadFails ==
    /\ WantsMore /\ ~Stuck
    /\ pc' = "failed"
    /\ cap' = Room
    /\ UNCHANGED <<avail, eof, next_chunk_id, next_line, draining, src, items,
                   reader_done>>

\* The last line of the input, unterminated.
TakeTail ==
    /\ pc = "next" /\ eof /\ ~HasLine
    /\ avail # <<>> /\ ~TooLong
    /\ TakeData(Len(avail))
    /\ UNCHANGED <<cap, eof, reader_done>>

ReturnNone ==
    /\ pc = "next" /\ eof /\ avail = <<>>
    /\ pc' = "end"
    /\ UNCHANGED <<avail, cap, eof, next_chunk_id, next_line, draining, src, items,
                   reader_done>>

-----------------------------------------------------------------------------
(* drain_oversize_line.  The id and the line number are taken before the    *)
(* first read of the drain.                                                 *)

\* Mutant of StartDrain: the drained line is not counted.
StartDrain_NoLine ==
    /\ pc = "next" /\ ~HasLine /\ TooLong
    /\ pc' = "drain"
    /\ draining' = [id |-> next_chunk_id, line |-> next_line, from |-> Offset]
    /\ next_chunk_id' = next_chunk_id + 1
    /\ UNCHANGED <<avail, cap, eof, next_line, src, items, reader_done>>

StartDrain ==
    /\ pc = "next" /\ ~HasLine /\ TooLong
    /\ pc' = "drain"
    /\ draining' = [id |-> next_chunk_id, line |-> next_line, from |-> Offset]
    /\ next_chunk_id' = next_chunk_id + 1
    /\ next_line' = next_line + 1
    /\ UNCHANGED <<avail, cap, eof, src, items, reader_done>>

\* The drained line ends at offset `end` of the input.
EmitLineTooLarge(end) ==
    /\ items' = Append(items, [kind |-> "large", id |-> draining.id,
                               line |-> draining.line, from |-> draining.from,
                               to |-> end])
    /\ pc' = "next"
    /\ UNCHANGED <<cap, next_chunk_id, next_line, draining, src>>

\* Mutant of DrainToNewline: the newline that ends the drained line stays.
DrainToNewline_KeepsIt ==
    LET n == Min(Newlines(avail)) IN
    /\ pc = "drain" /\ HasLine
    /\ EmitLineTooLarge(Offset + n)
    /\ avail' = SubSeq(avail, n, Len(avail))
    /\ UNCHANGED <<eof, reader_done>>

DrainToNewline ==
    LET n == Min(Newlines(avail)) IN
    /\ pc = "drain" /\ HasLine
    /\ EmitLineTooLarge(Offset + n)
    /\ avail' = SubSeq(avail, n + 1, Len(avail))
    /\ UNCHANGED <<eof, reader_done>>

\* What is held is dropped; if the input had already ended, so has the line.
DrainAtEof ==
    /\ pc = "drain" /\ ~HasLine /\ eof
    /\ EmitLineTooLarge(Len(src))
    /\ avail' = <<>>
    /\ UNCHANGED <<eof, reader_done>>

\* The buffer is emptied and refilled; another piece longer than max_line_bytes
\* with no newline in it is dropped at once.
DrainRead ==
    /\ pc = "drain" /\ ~HasLine /\ ~eof
    /\ \E bytes \in Reads(cap) :
          /\ src' = src \o bytes
          /\ avail' = IF Len(bytes) > max_line_bytes /\ Newlines(bytes) = {}
                      THEN <<>> ELSE bytes
    /\ UNCHANGED <<pc, cap, eof, next_chunk_id, next_line, draining, items, reader_done>>

DrainReadEnd ==
    /\ pc = "drain" /\ ~HasLine /\ ~eof
    /\ eof' = TRUE /\ reader_done' = TRUE
    /\ avail' = <<>>
    /\ EmitLineTooLarge(Len(src))

DrainFails ==
    /\ pc = "drain" /\ ~HasLine /\ ~eof
    /\ pc' = "failed"
    /\ avail' = <<>>
    /\ UNCHANGED <<cap, eof, next_chunk_id, next_line, draining, src, items, reader_done>>

Returned == pc \in {"end", "failed"} /\ UNCHANGED vars

Step ==
    \/ TakeComplete \/ TakeWhenStuck \/ ReadMore \/ ReadEndWithLines
    \/ ReadEndNoLine \/ TakeTail \/ ReturnNone
    \/ StartDrain \/ DrainToNewline \/ DrainAtEof \/ DrainRead \/ DrainReadEnd

Next == Step \/ ReadFails \/ DrainFails \/ Returned

\* The caller keeps asking, and the reader answers every read; it need not fail.
Spec == Init /\ [][Next]_vars /\ WF_vars(Step)

-----------------------------------------------------------------------------
(* Properties.                                                              *)

ChunkItems == [kind : {"data", "large"}, id : Nat, line : Nat, from : Nat, to : Nat]

TypeOK ==
    /\ pc \in {"next", "drain", "end", "failed"}
    /\ avail \in Seq(Bytes) /\ src \in Seq(Bytes)
    /\ cap \in 1..(max_line_bytes + Slack) /\ Len(avail) <= cap
    /\ eof \in BOOLEAN /\ reader_done \in BOOLEAN
    /\ next_chunk_id \in Nat /\ next_line \in Nat \ {0}
    /\ draining \in [id : Nat, line : Nat, from : Nat]
    /\ items \in Seq(ChunkItems)

\* Where the next item must start.
Delivered == IF items = <<>> THEN 0 ELSE items[Len(items)].to

\* However the reads split the input, every byte of it is in exactly one item, in
\* order, and the ids of the items count up from 0 without a gap (the sink of the
\* pipeline waits for each id in turn).  After a clean end nothing is missing.
EveryByteOnce ==
    /\ \A i \in 1..Len(items) :
          /\ items[i].id = i - 1
          /\ items[i].from = IF i = 1 THEN 0 ELSE items[i - 1].to
          /\ items[i].from < items[i].to
    /\ pc = "next" => Delivered = Offset
    /\ pc = "end" => Delivered = Len(src)

\* No line is ever cut: an item ends after a newline or at the end of the input,
\* and a drained line is one line.
LinesKeptWhole ==
    \A i \in 1..Len(items) : LET it == items[i] IN
        /\ src[it.to] = "n" \/ (it.to = Len(src) /\ reader_done)
        /\ it.kind = "large" => \A j \in (it.from + 1)..(it.to - 1) : src[j] # "n"

\* The line number an item carries is one more than the newlines before it, so the
\* numbers in alerts' diagnostics are those of the input, drained lines included.
LineNumbersRight ==
    \A i \in 1..Len(items) :
        items[i].line = 1 + Cardinality({j \in 1..items[i].from : src[j] = "n"})

\* The length of the line ending at offset `to`, without its newline.
RawLength(it) == it.to - it.from - (IF src[it.to] = "n" THEN 1 ELSE 0)

\* Only lines longer than the limit are drained, and the lines of a chunk are at
\* most as long as the buffer can grow.
OnlyLongLinesDrained ==
    \A i \in 1..Len(items) : LET it == items[i] IN
        IF it.kind = "large" THEN RawLength(it) > max_line_bytes
        ELSE \A j \in it.from..(it.to - (max_line_bytes + Slack) - 1) :
                \E k \in 1..(max_line_bytes + Slack) : src[j + k] = "n"

\* The chunker never mistakes a full buffer for the end of the input: the branch of
\* next_item that sets eof without an end from the reader is never taken.
NoFalseEof == eof => reader_done

\* A finite input is delivered: next_item has no loop that neither reads nor returns.
Termination == <>(pc \in {"end", "failed"})
=============================================================================
