# Formal model of null-sigma

TLA+ models of the null-sigma rule engine and of its command line tool, checked
with TLC on small instances and, for the results that matter most, proved with
TLAPS for all of them. Paths below are relative to the repository root
(`src/engine.rs` is the library, `cli/src/...` the tool).

## The system

null-sigma loads Sigma rules (YAML), compiles them, and evaluates events (flat
maps of fields) against them. `null-sigma-cli` scans a JSONL stream: it cuts the
stream into chunks of lines, evaluates the chunks on a thread pool, and writes
the alerts in input order together with counters an operator can trust.

| Component | State it keeps | Operations | Interacts with |
|---|---|---|---|
| Pipeline `cli/src/pipeline.rs` | chunks in flight, the channel, the reorder buffer, next expected id, flags | fill, receive, release in order, drain, return | pulls from the chunker; spawns line evaluation; writes to stdout |
| Line evaluation `cli/src/ingest.rs` | counters of a chunk and of the run, one shared sample counter | evaluate a line, fail a line, merge counters | runs on the workers; calls the engine |
| Chunker `cli/src/chunker.rs` | buffer, capacity, eof flag, next id and line | next_item, fill, drain a long line | reads the input |
| CLI entry `cli/src/main.rs`, `rules.rs`, `output.rs` | the buffered stdout | arguments, rules, scan, flush, exit status | everything above |
| Engine `src/engine.rs` | rules, hot data, interned patterns, automaton, a thread-local scratch | load, reject, rebuild, evaluate | parser, condition compiler, matcher |
| Rule types `src/types.rs` | none | LogSource::matches, modifiers | all |
| Matcher `src/matcher.rs` | none | field conditions, wildcards, regex, CIDR, numbers, transforms | event view |
| Condition language `src/condition.rs` | parser position | tokenize, parse, evaluate twice | engine |
| Rule parser `src/parser.rs` | none | YAML shapes, validate_conditions | engine |
| Flattening `src/json.rs` | the event being filled, a stack of calls | flatten JSON within two limits | CLI, harness |
| Field map and view `src/fieldmap.rs`, `src/event_view.rs`, `src/fold.rs` | alias tables, cached foldings | translate, enrich, collect | matcher |
| Harness `harness/` | counters, the events read | `null_sigma_run`: read, flatten, evaluate on a pool, report; differential runs against another engine | library |

What is hard in it, and what must be true:

* **Pipeline.** Results arrive in any order, reads and writes fail while chunks
  are in the pool, in the channel and in the buffer, a fatal line is known long
  before its turn. Output and counters must be those of one thread; workers must
  never block on the channel; the run must end; nothing taken may be lost.
* **Counters.** They are collected on the workers, merged by the sink and charged
  by the read loop, and `main` exits with FATAL if they do not add up.
* **Chunker.** A line may be split over reads at any byte while the buffer is
  compacted and grown, and a long line is discarded in pieces. Every byte is
  delivered once, ids have no gap, line numbers are right.
* **Engine.** Two prefilters skip rules from incomplete knowledge: hashes may
  collide, a condition may be negated, identifiers may have no literal, the
  scratch is left over from another event. Skipping must be invisible.
* **Condition language.** Two evaluators, a parser, and a validator that reads
  the text on its own must agree.
* **Wildcards.** The loop remembers only its last star.
* **Conditions on fields.** Two functions decide the same condition with caches they
  find differently; transforms, numbers, networks and references each have an edge
  of their own, and the modifiers combine freely. Names are translated in the order
  of a hash map.
* **Flattening.** Two limits that a document may not pass, and several paths that may
  be written twice.
* **Accounts of a run.** Both programs promise that every line is evaluated or counted
  as failed, and say with their exit status whether to believe the output.

`PROJECT.json` lists these as hazards, each at its line and with the property
that would catch it, or with the reason why no property does.

## Modules

| Module | Models | State and actions |
|---|---|---|
| `Trust` | the counters of `ingest.rs`, one line of `process_data_chunk` | a line is the branch it takes (its *kind*); `LineTrust` is what it adds, `ProcessLine` one turn of the chunk loop |
| `OrderedSink` | what a scan promises, without threads | chunks are taken, released in order, a run ends in one of six ways, the pool that cannot be built among them; a chunk's contribution is *declared* by counting its lines |
| `Pipeline` | `run_pipeline_mt` | `mpc` is the place in the main loop; `PoolFails`, `SpawnChunk`, `ReadEof`, `ReadError`, `StopFilling`, `Recv`, `ReleaseChunk`, `ReleaseWriteFails`, `StopReleasing`, `Return`; the pool is `StartJob`, `EvalNextLine`, `SendResult` |
| `PipelineRefinement` | Pipeline implements OrderedSink | refinement mapping |
| `PipelineST` | `run_pipeline_st` | one loop, whose steps `Cli` takes, and its refinement of the same `OrderedSink` |
| `Chunker` | `chunker.rs` | one action per way through a turn of `next_item` and of `drain_oversize_line`; `src`, `items` and `reader_done` are history |
| `Matching` | what a match is, with no prefilter | operators over rules and events |
| `Prefilter` | gating, hashes, AC eligibility | operators over one rule |
| `Engine` | `SigmaEngine` | `StartLoad`, `AddCompiledRule`, `RejectRule`, `RebuildAc`, `StartEvent`, `EvaluateRule`, `FinishEvent` |
| `Condition` | `validate_conditions`, `compile_condition`, `evaluate`, `evaluate_vec` | `Validate`, `Compile`, `Evaluate` over a condition of tokens; recursive descent as in the code, written as recursive functions: one parser per construct, at every position, given what the parsers say one nesting level further in |
| `ConditionGrammar` | what a condition means | the grammar by trying every cut of every span of tokens, with no parser; the properties |
| `Wildcard` | `wildcard_match_impl` | one action per branch of the loop; `Matches` declares what a match is |
| `Tokens` | `tokenize_pattern`, `pattern_literal`, the wrapping by modifiers | operators over the characters of a value |
| `Pattern` | the fast path against the loop | the values to consider, and two properties |
| `Transforms` | `apply_transforms`: base64, base64offset, wide, windash | operators over lists of values |
| `FieldMatch` | `match_identifier` and its twin for rules with a regex, numbers, CIDR, exists, fieldref | operators; a condition carries the caches the engine gave it, or none |
| `FieldMap` | `FieldMapping`, `EventView::from_map` | the two tables, the aliases of a key, the views of an event |
| `Detection` | a detection block from YAML to verdict | `AddMapping`, `LoadRule`, `RejectRule`, `VisitKey` (one key of the hash map), `BuildView`, `Evaluate`, then `AddField` and once more |
| `DetectionSpec` | what a detection means | read off the YAML with no parser, cache or mask; the properties |
| `Flatten` | `flatten_value_with` | the recursion as a stack of calls; `Begin`, `TooDeep`, `VisitObject`, `VisitArray`, `VisitScalar`, `FlattenReturns` |
| `FlattenSpec` | what a document stands for | all its writes in order, and how deep it nests |
| `Runner` | `null_sigma_run.rs` | one action per way through a turn of `ingest_events`, flattening step by step, `EvaluateEvent` in any order on a pool, `Report` |
| `RunnerSpec` | what a run reports | counts and samples declared from the file as a whole; the properties |
| `Cli` | `main.rs`, `rules.rs` around the single-threaded loop | `ParseArgs`, `LoadRules`, `OpenEvents`, `PoolFails`, `Scan`, `ScanFailed`, `Flush`, `FlushFails`, `Summarise` |
| `PipelineProofs`, `CliProofs`, `ChunkerProofs`, `EngineProofs`, `ConditionProofs`, `WildcardProofs`, `DetectionProofs`, `RunnerProofs` | | theorems |
| `MC...` | | finite values of the constants |

Modules compose as the code does. `Pipeline` and `PipelineST` extend `Trust`
for what happens to a line and take their input as the chunk items whose shape
`Chunker` establishes: ids and line numbers without gap are the assumption
`WellNumbered` there and the properties `EveryByteOnce` and `LineNumbersRight`
here. `Cli` extends `PipelineST`: `main` sees no more of a scan than `OrderedSink` says
(a pool that cannot be built is an action of its own there), so what it shows of the single-threaded loop it shows of the pool. `Runner` extends
`Flatten`, and `Detection` extends `FieldMap`, `FieldMatch`, `Transforms` and `Tokens`,
which `Wildcard` shares. `Engine` extends `Prefilter`, which extends `Matching`; in it a condition
is the set of assignments that satisfy it, which `Condition` and
`ConditionGrammar` show the compiled tree to be.

Abstractions worth knowing:

* A line is its kind. JSON, UTF-8 and rules appear only as the branch taken.
* In `Pipeline` a `ChunkResult` stays in `result` and its id travels; evaluation
  of a chunk is split into lines, as the only shared state a worker touches is
  the atomic sample counter.
* The two draining loops after the main loop of `run_pipeline_mt` are not
  actions: `NoChunkLeftBehind` shows they have nothing to do.
* A chunker byte is a newline or another byte.
* In `Matching` a condition whose evaluation is not modelled (wildcard, regex,
  CIDR, number, exists, fieldref, transform) holds on the events that say so;
  any answer is possible, independently of the text, which is more than the code
  can do.
* Folding a letter gives one letter. Real `to_lowercase` may give several; the
  finding about folding needs only a pair of letters.
* A condition is a sequence of tokens; the lexer is not modelled.
* In `FieldMatch` names and texts are sequences of characters, so that patterns, networks
  and base 64 are computed and not assumed. Parsing a number or an address, and what
  a regular expression matches, are constants: the standard library and the regex crate
  answer. A number is counted in tenths, an `f64` keeps whole numbers up to `Exact`
  (2^53 in the code) and every other one above, ties to even; an address has `Width`
  bits (32 and 128 in the code). One character folds to one.
* Flattening and evaluation are one after the other in the programs, so
  `evaluate_json` is `Flatten` followed by the engine.
* `Runner` keeps of a rule the cells it asks for: `evaluate_event_count` belongs to `Engine`.
* In `Cli` a `BufWriter` delivers what it likes of the alerts written so far, all of
  them with `--flush-alerts`, and everything in a flush that succeeds.
* `AhoCorasick` is modelled by what it promises: the patterns that occur, up to
  ASCII case.

## Runs

| Run | Bounds | What it shows |
|---|---|---|
| `Pipeline` | 2 threads, 4 inputs of at most 3 chunks with every kind of line and lines after a fatal one, 1 input of 5 chunks: one more than the 4 that may be in the air; both modes, 1 sample | alerts in order, counters balanced, nothing left behind, no send blocks, samples capped and not wasted, the sequential sink implemented, the run ends |
| `Cli` | every two chunks of two lines and one line over five kinds, and a fatal line in the middle; both modes, `--flush-alerts` or not | the exit status tells what to believe; the single-threaded loop implements the same sink |
| `Chunker` | inputs up to 11 bytes, every split into reads; target 2, limit 4, slack 3, so that the buffer grows twice, to its bound | bytes once, lines whole, numbers right, only long lines drained, no false end of input, termination |
| `Engine` | 2 engines sharing the thread's scratch, the first with up to 2 rules of 9, the second with up to 1; 15 events, colliding hashes | the prefilters are invisible, hits are current, patterns have one slot and an owner |
| `Condition` | 7 words, every sequence of up to 4 tokens over 10 of them and about 400 longer ones, 3 rules | parser, evaluators and validator agree with the grammar |
| `Wildcard` | every pattern of up to 3 tokens, longer ones with two or three stars, values of up to 3 characters with escapes in four modifiers; texts up to 4 characters | the loop is right and ends, fast path and loop agree, escapes work |
| `Detection` | eight families of detections, events and field names that belong together (text, shapes, aliases, numbers, networks, presence and references, encodings, dashes), up to 2 entries of the field map, one field added to the event; 4 and 5 bit addresses, `Exact` 16 | an identifier means what its YAML says; both ways to decide a condition agree, cached or not; another field never takes a match away; a payload is found in any encoding of it |
| `Runner` | 72 documents of up to four levels and files of up to 4 lines with every kind of bad line; depths 1 to 3, 1 to 6 fields; 1 and 2 threads, both policies, 0 and 2 samples | limits hold at every moment, flattening is faithful or refused, counts, samples and exit status are right, the run ends |

Why the bounds are enough. Two threads give four jobs in the air, so results can
arrive in any order and jobs can wait for a thread; five chunks fill the air and
leave one outside. A chunk of three lines has lines before and after a failure. The
chunker's limits are the least for which a line can be shorter than, equal to and
longer than the limit, the target and the buffer, and eleven bytes hold a long line
between two others. Two rules are enough for one to be skipped wrongly and for
patterns to be shared; the rules of `MCEngine` have one of each reason to gate or
not to gate. Two binary operators with one bracket and one `not` tell every
precedence and associativity apart. Prefix lengths
go from none to one more than the address has, numbers from below to above `Exact` with
a tie on either side, payloads of one to four bytes meet every remainder by three before
and after. Arrays of none, one and more elements under keys that are written before and
after collide with every path they write. A pattern needs two stars and a text of four
letters for the first star to be the one that would have to move. The proofs below do
away with the bounds for what they prove.

Bounds by name: `MaxInput` (length of the chunker's input), `MaxRules` (rules of
each engine), `MaxMappings` (entries added to the field map), the sets `Cases`, `Limits`,
`Configs`, `Inputs`, `Rules`, `Conditions`, `Detections`,
`TokenSeqs`, `Texts`, `Patterns`. `Longest`, the length of the longest condition, also
bounds how deep its tree can be. `MAX_UNGATED` is 1 instead of 12, so that a rule
can exceed it.

Four runs are expected to end in a violation. Each states what a comment or a
README of the repository says, and the findings quote the lines:

* `EngineUnicode` (`TrueIdentifiersHit`): the automaton folds ASCII only, the
  matcher folds everything, so a covered rule whose literal has a non-ASCII letter
  is skipped for events that spell it in the other case.
* `RunnerReadError` (`CompletesInContinueMode`): a failed `read_line`, for which a byte
  that is not UTF-8 is enough, is counted as a failed event but not as an event. The
  check of the accounts then takes the run for broken: `null_sigma_run` prints FATAL
  and no count in the mode that is documented to complete. (`null-sigma-cli` reads bytes,
  and decodes line by line: `Pipeline` shows its counters balance.)
* `DetectionDocumented` (`MatchesAsDocumented`): one rule with three identifiers and one event show
  three places where the docs say outright what matches and the code says otherwise.
  Windash expands a value into its spellings before `all` asks for every value of the list,
  so `|windash|contains|all` asks for all five dashes at once (`dash`). A null is documented
  to match a field that is missing or empty, and a field that is missing ends the decision
  before its values are looked at (`null`). Integers are documented to compare in `i64`,
  and one that is quoted in the rule compares in `f64`, with what it is rounded to
  (`number`). `IdentifierMeansItsYaml` leaves these three out.
* `RunnerFieldLimit` (`FieldsErrorMeansTooMany`): a document with exactly `max_fields` fields, which
  is documented to fit, is refused when it writes one of them again after the last is in.

Every property of a passing run has a mutant in `PROJECT.json`: a plausible bug in
one definition (`HasMore_OffByOne`, `Backtrack_Skips`, ...) with which the run fails.

What the models showed besides, where no document promises otherwise or a passing
property states the exception:

* A failed build of the automaton (`rebuild_ac`) would make the prefilter skip every covered
  rule; `BuildMayFail = FALSE` is a hypothesis of the theorem about the prefilters.
* `next_item` measures the raw bytes it happens to hold, `eval_line` the trimmed line. Whether
  a line is counted as too large whose white space alone carries it over the limit depends
  on where the reads fall. `OnlyLongLinesDrained` says what the chunker may drain.
* Names of aggregation functions (`condition: count`) and a pattern outside a quantifier
  (`condition: sel*`) pass validation, compile to a name no identifier has, and are false
  for ever. The comment at `src/parser.rs:347` says that all names are checked;
  `ReferencesResolve` states what holds.
* When two keys of an event stand for one Sigma name, which is possible with custom
  mappings or with keys that differ in case, the value that stays depends on the order of
  the hash map. `IdentifierMeansItsYaml` allows any of them, and `ExtraFieldsKeepMatches`
  speaks of events where every name has one source. `fieldref` likewise reads the
  first of the keys that differ in case.
* An integer comparison trims the field, and one in `f64` does not. `ExactNumbers` says where
  numbers mean what they say.
* `|re` next to a null, a number or a network is decided differently by the two functions: the
  one with the regex cache takes the value for a pattern first. `PathsAgree` leaves it out.
* `EntryDocumented` leaves out what no document gives a meaning: two comparisons on one
  field, of which the first in the order of the code decides, and windash with a comparison
  or a network, whose values it also respells; and what the runs that end in a violation are
  about. An entry with no field name asks every
  field, but with `exists` or `fieldref` the code looks for a field whose name is empty
  (`CellsNamed`).
* `base64offset` of a single byte has no text left at offset one, and `wide` is UTF-16LE for
  Latin characters only.

### Fairness

`Pipeline`: weak fairness of the main thread's steps that need no failure
(`MainStep`) and of the pool as a whole (`PoolNext`): they are OS threads that wait
for nothing but the channel. Read and write errors and a pool that cannot be built are
outside both, so termination does not rely on them. `Chunker` and `Wildcard`: weak fairness
of a sequential loop that its caller runs to the end. `Runner`: weak fairness of `Step`, the
steps of a sequential program and of a Rayon pool that evaluates every item it is given;
I/O errors and a pool that cannot be built are outside. `Cli`, the engine, the condition
language and `Detection` are checked for safety only and have none: the loop `Cli` runs is
the one whose end `Pipeline` shows, the others are called.

## Proofs

Proved by TLAPS, for every value of the constants that the named assumptions admit:

* `PipelineProofs`: `Typing`; `AccountingHolds` (`StatsBalance`), by an invariant
  that also balances the counters of every chunk in the pool; `SendsNeverBlock` and
  `NothingLeftBehind`, by `Flow`: every taken chunk that is not released is in
  exactly one of queue, pool, channel and reorder buffer, `inflight` counts the
  first three, and the program counter agrees with the flags; `AlertsStayInOrder`,
  by `Ordered`: what is written lies below the first line of the next chunk to be
  released, and each chunk's alerts lie, in order, between its own lines looked at;
  `SamplesStayCapped` (`SamplesAreCapped`), by `Counting`: the shared counter is the
  number of lines looked at that may be sampled, each counted once because no two
  chunks share a line number (`ChunksApart`), and what was reported is the least of
  that number and the allowance.
* `PipelineProofs` also holds `PipelineIsOrderedSink` (`ImplementsOrderedSink`), the
  refinement itself. Every step of the main thread is a step of `OrderedSink` or invisible, those
  of the pool are all invisible. The invariant `Tallied` says of each
  chunk that its counters, alerts and fatal flag are those of the lines before `next`;
  when the job is done these are what the sink declares by counting, and an increasing
  sequence is its set of elements counted out (`IncreasingIsCountedOut`). `ReadFlags`
  relates `eof` and `fatal_io` to the counter of read errors.
* `CliProofs`: `StatusTells` (`ExitStatusTells`), by an invariant that balances the
  counters of the run and of the chunk in hand, makes a chunk fatal exactly when it
  failed in fail-fast mode, and says what each verdict of the loop implies: so the
  accounting check of `main` never fires. `LoopIsOrderedSink`: `run_pipeline_st`
  implements the same `OrderedSink`, by the same `Tallied`; the lemmas about lines and
  chunks stand in both modules, as the two loops have variables of the same names. With `PipelineProofs` this is
  the claim that `--threads` changes nothing but the time.
* `ChunkerProofs`: `ChunkerTyping`, `EofIsTrue` (`NoFalseEof`), `BytesAreKept`
  (`EveryByteOnce`), `LinesAreKept` (`LinesKeptWhole`), `NumbersAreRight`
  (`LineNumbersRight`) and `OnlyLongDrained` (`OnlyLongLinesDrained`), for any input, any
  limits the program can be started with and any way the reads may fall. The buffer is
  the end of what was read (`Suffix`), each item begins where the one before it ended
  (`ItemsInv`), the cursor stands between two items or inside a line being drained, and a
  full buffer with no newline is a line over the limit (`StuckIsTooLong`), which is why
  the reader is never asked to read into no space and taken to be at its end.
* `EngineProofs`: `EngineTyping`; `PrefiltersLoseNothing` (`PrefiltersInvisible`)
  and `ScratchIsCurrent` (`HitsAreCurrent`); and `PatternsStayOwned`
  (`PatternsOwnedOnce`), which needs no hypothesis. The chain of the first is: a
  condition that can gate and holds has a literal in the event (`ConditionHits`), so a gated identifier that
  is true has one; if none of a rule's literals occurs, all its gated identifiers are
  false, and the load-time enumeration says that no condition is satisfied. Hashes
  need no assumption: they can only let a rule through that the full check drops.
  Two hypotheses are stated in the theorems: `AsciiText` (both foldings agree on the
  text, and folding twice is folding once), which the run `EngineUnicode` shows to be
  needed, and `BuildMayFail = FALSE`, as a failed build leaves an empty automaton.
* `ConditionProofs`: `ConditionTyping` (`TypeOK`), `ParsesAsTheGrammar` (`ParsesAsWritten`),
  `FiresAsTheGrammar` (`FiresAsWritten`) and `LoadedReferencesResolve`
  (`ReferencesResolve`), for every condition whose numbers are 0, 1 or 2, of any length up
  to any bound, and every rule. The parsers, the evaluators and the grammar are recursive
  functions, whose solutions are first shown to exist: over the depth of a tree
  (`LayersExist`, `SayingExists`), over the rounds of a loop (`ChainExist`), over the
  nesting of calls (`NestedExist`) and over the spans of a condition, by a rank that falls
  from a span to those within it (`MeansExist`). That the parsers are right
  (`ParsersCorrect`) is two claims made together for `or`, `and` and `not` at every
  position: what is built means what the grammar says of the tokens used (`Sound`), and
  every reading the grammar has of tokens that end where the construct must end is found
  (`Complete`). Both are by induction over how deep the calls nest; within it, a chain is
  followed round by round (`ChainSound`, `ChainReaches`). Completeness needs to say what may
  not follow: an operand of `and` is read to its end only where no `and` comes after it.
  That a condition has one meaning falls out of the two together: the grammar is not
  ambiguous. The evaluators are compared as two readings of one tree (`EvaluatorsAgree`), a
  reading being determined by what it says of the leaves (`SayingUnique`).
  `ReferencesResolve` uses that leaves come from the words of the text only, which
  validation has looked up, but for the two kinds the property excepts. The assumptions are that
  no word is a keyword or a number, that
  validation accepts a pattern only for names that start with it, and that a rule has at
  least one identifier and no two of one name.
* `WildcardProofs`: `WildcardTyping` and `WildcardIsExact` (`VerdictRight`). The
  invariant says that a match exists iff the tokens after the last star match from
  some place the star can still reach (`AfterStar`), and that wherever this is, the
  tokens tried since take as many characters there: so whatever a further star would
  gain by moving the earlier one, it can take itself. Without that conjunct,
  forgetting the earlier star cannot be justified. `FastPathIsExact`
  (`FastPathAgrees`): a pattern without active wildcards is tokenized to the characters
  that `pattern_literal` gives (`LiteralTokens`), and a run of literal tokens takes
  exactly these (`CoversLiterals`), so equality, prefix, suffix and substring are what the
  loop would decide with the stars that the modifier adds. `EscapingIsExact`
  (`EscapedMatchesItself`): `tokenize_pattern` reads what is written for one character
  as that literal, wherever in a value it stands (`WrittenIsRead`), by induction from
  the end of the text. The last lemmas are for `DetectionProofs`, which takes an
  instance of this module with its own patterns and texts: the wrapped tokens of a pattern
  match a text iff the pattern matches the part of it that its modifier leaves free
  (`WrappedMatchesPart`), by cutting the text where the stars begin and end
  (`CoversSplit`, `CutsInOrder`).
* `DetectionProofs`: `PathsAlwaysAgree` (`PathsAgree`). `Direct` is what a condition says with
  no cache: every transformed value, folded, is its own pattern. Each of the three ways the code has is shown
  to say it. Where a value is transformed nothing may have been cached under its place
  (`CachedPattern`); where none is, `apply_transforms` gives the values back (`ApplySame`),
  so the place of a value in the cache, or of the first value equal to it, holds its own
  fold. The twin for regexes needs more: that no modifier makes a null of a value that is
  none (`ApplyNonNull`), since it never asks. The invariant `Parsed` says that what is
  evaluated is what `parse_search_identifier` made of a node, whose conditions all come from its entries
  (`ParsedComesFrom`). The assumption on the documents is `NodesAssumption`: a node is a
  scalar, a list of nodes or a map to nodes.
  `ExtraFieldsAlwaysKeepMatches` (`ExtraFieldsKeepMatches`), by `Growth`: the aliases are those of the keys looked at so far
  (`Collecting`), the cells of the view are the fields and, for each Sigma name they lack,
  the value of some field that goes by it (`Seeing`), and so were those of the event
  remembered (`Remembering`). With one source for each name, the cells of the wider event
  hold those of the narrower (`CellsGrow`), in whatever order `enrich_event_cow` looked
  at the keys of either, and `Direct` asks for a cell that passes.
  `OffsetsAlwaysFindPayload` (`OffsetsFindPayload`), in three steps. Bytes: the i-th digit
  of `base64_encode` is made of the i-th six bits (`EncodedAt`, with `SextetIs` for the shifts),
  so a digit that `LeadingTrim` and `TrailingTrim` keep is made of bytes of the value alone, and is the
  same in every encoding in which the value starts at that place modulo three (`KeptDigits`). Texts:
  a text that occurs in another has its bytes in the other's (`BytesOccur`), so one of the three
  variants is in the encoding of the stream, and is not empty from two bytes on
  (`VariantOccurs`). The matcher: `apply_transforms` puts that variant among the values
  (`VariantCompared`), a digit is never a wildcard, folded or not, so the variant is its own pattern
  and is found where it stands (`VariantFound`); the event's own cells are all in the view (`Seeing`), and
  a node with this one entry, as a map or in a list of maps, is nothing but conditions made
  of it (`ParsedOfEntry`). The assumptions are `AlphabetAssumption`
  (the digits are characters), `Utf8Assumption` (a character has some bytes, a space one),
  `LowerAssumption` (nothing but `*`, `?` and the backslash is folded to one of them) and
  `DebugTextAssumption`.
  `IdentifierAlwaysMeansItsYaml` (`IdentifierMeansItsYaml`), by two claims. One is about a
  single entry and a given set of fields: what `Direct` says is what the entry means
  (`EntryMeans`), since each value says of a text what it means (`ValueMeans`). For a pattern
  this takes the lemmas of `WildcardProofs` (`TextMeans`). For a network, shifting and
  dividing by a power of two leave the bits that the mask covers, and numbers are equal when all
  their bits are (`CidrMeans`; the powers are a function `Pow2`, as the provers know
  nothing of `^`). For a number, an `f64` holds it as it is up to `Exact`
  (`NumbersCompare`), and two integers never take that way. For windash, the values that
  `apply_transforms` makes are the value and its spellings, no more and no less
  (`ApplySpells`). The other claim is about the fields: what the view shows is one of the
  choices of `SeenFields` (`ShownIsSeen`). Beside `Growth` it needs that the fields are texts of
  the case (`Reading`) and that a view has the first key of every name (`Viewing`). The
  assumptions besides those above are `WidthAssumption` (an address has some bits),
  `DashAssumption` (a dash is a character), `CasesAssumption` (fields are texts),
  `ScalarsAssumption` (what is no string holds no wildcard, a null is written empty, an integer parses and a
  Boolean is no number) and `NumbersAssumption` (a text that is an integer is one, and the
  same one as a decimal; a text with a slash is neither an integer nor an address; an address
  fits its width). The last speaks only of the texts there are and of their parts, so that TLC
  evaluates it as well.
* `RunnerProofs`, in its first part: the lemmas about `flatten_value_with` that the theorems rest on. What a
  document stands for is defined by recursion (`WrittenBy`, `DepthsIn`), and so is
  reasoned about by induction: the set of values for which a fact holds is all of them once
  it holds every value whose parts it holds (`TreeInduction`), and a recursion in which a
  value depends on its parts only has a solution (`TreeRecursion`), so that the definition
  satisfies its own equation (`WrittenByUnfolds`, `DepthsInUnfolds`). The assumption is
  `LevelsAssumption`: a document is a finite tree, with no more levels than `serde_json`
  accepts (its recursion limit). Every theorem about answers takes them as the code gives them, that is with `again` TRUE
  (`CrowdedIsNoRoom`), which the properties leave open. The invariant of the flattener is `Progress`: the
  writes done, followed by those that the calls on the stack are going to make, are the writes of
  the document in order; the event is the first write of every path among those done; all
  but the last of them left room; and the document is nested too deep exactly if a call on the
  stack is. The last two are what make an error justified: without them, a refusal would
  be possible that no limit explains.
  The theorems: `LimitsHold` (`WithinLimits`), `RunnerTyping` (`TypeOK`) and
  `FlatteningIsFaithful` (`FlattensFaithfully`), all by `IInv`, which applies `Progress` to the
  line in hand. `FailuresReported` (`FailuresAreReported`), by `Accounts`: the
  failures of the lines settled so far are counted under one kind each, and sampled from the
  first on as far as the allowance goes; a line being flattened is not settled, and a failed
  read is a failure of the line after the last. `PrintedCountExact`
  (`PrintedCountIsWhole`), by `Sums`: while the file is read, the events kept are worth what
  the lines declare; while they are evaluated, in any order, the matches counted and those
  of the events still waiting add up to the same. That a count is printed only for a
  whole file needs `Accounts`: after a failed read the check of the accounts fails, which
  is what the run `RunnerReadError` shows to be a fault in another respect.

Induction over data is done throughout over sets of numbers or of documents, as the
library's induction theorems take an operator as a parameter, which the installed provers
cannot instantiate.

Checked by TLC only: `Termination` of `Pipeline`, `Chunker`, `Wildcard` and `Runner`, as
fairness is out of the prover's reach. Every other property of a passing run is a theorem.

## Not modelled

* Benchmarks, fuzz targets, examples and scripts: they call the library and keep no
  state of their own.
* `convert.rs`, `gen.rs` and the other binaries of the harness: they convert and
  generate test data, once and in order.
* The regex crate, `serde_json`, the YAML reader, the parsing of numbers and of
  addresses: external; what they answer is a constant of the models.
* Metadata of a rule (title, author, tags, references, dates) and its serde
  attributes: copied, never decided on.
* The lexer of conditions: a condition starts as a sequence of tokens.
* The layout of summaries and alerts, messages and timings.

## Plan

What is done, in the order of importance: the scan (`Trust`, `OrderedSink`, `Pipeline`,
`PipelineST`, `Chunker`, `Cli`), the engine (`Matching`, `Prefilter`, `Engine`), what a
rule says (`Condition`, `Tokens`, `Wildcard`, `Pattern`, `Transforms`, `FieldMatch`,
`FieldMap`, `Detection`), documents and the harness (`Flatten`, `Runner`). What is left:

1. `Scan`: chunker and pipeline composed, so that `WellNumbered` becomes a theorem
   about the composition instead of an assumption.
2. `FieldMatch` in the place of the opaque conditions of `Matching`.
