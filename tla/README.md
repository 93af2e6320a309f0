# TLA+ specifications of tors

tors is a library of text and document primitives for Python, written in Rust
and run with the GIL released. Nearly every function is a pure call over one
text; the state that matters lives *inside* a call (loops over segments,
deferred decisions, budgets, early exits) or, for the JSON repairer, in an
object fed chunk by chunk. These modules model that control, check it with TLC
on small instances, and prove what matters most with TLAPS.

## The system

| part | state it keeps | operations | what is hard |
|---|---|---|---|
| streaming JSON repairer (`json_repair/streaming.rs`, `py/json_repair.rs`) | frames, output text with a delta cursor, pending token, open string, comment, deferred empty elements, paren gate | `push`, `end`, `snapshot`, `reset` | decisions taken characters later; offsets kept across edits of the output; re-fed characters; a snapshot at any prefix |
| token-budget chunker (`chunk_budget_impl.rs`, `py/chunk_budget.rs`) | packing list, indices, emitted chunks | `chunk_to_budget`, `chunk_to_offsets` | the counter is arbitrary Python code, called between native steps; overlap pulls the start back |
| near-duplicate sweep (`near_dup_impl.rs`) | kept, dropped, groups | `dedup_near_dup` | similarity is not transitive; early exits at the exact threshold |
| whole-text JSON repair (`json_repair/*.rs`) | parser cursor, context stack, a memory of lookaheads, the text itself (it may be spliced) | `repair_json`, `repair_json_loads`, strict mode | some thirty look-ahead guesses about what a quote means; remembered answers on a text that moves; a deadline inside any of them |
| schema repair (`json_schema_impl.rs`) | a clock, a log of actions | `repair_json` with a schema, standard or salvaging: names normalized, validity, repair of the value | numbers written in text under several locales; branches of a union that fail after they acted; a deadline inside any of it |
| JSON validator (`json_valid_impl.rs`) | cursor, bit stack | `is_valid_json` | the bit stack at its words' edges; surrogates; overflow without computing the number |
| code fences (`fence_impl.rs`) | the open fence | `extract_code_blocks`, `strip_code_fences`, `dedent` | offsets, text and indentation of a block are computed apart |
| document conversion (`documents_impl.rs`, `tors-documents/`) | none across calls; within one the open handle, the buffer, the read's ceiling | `to_markdown`, `to_text`, geometry, layout, tables, images, structure | which refusal wins; bounded reads; a file replaced between stat and open; a container's directory read in two widths |
| PDF (`pdf_impl.rs`) | a thread per call; the bytes of images served so far | text, links, labels, geometry, layout, tables, characters, images, security | nesting counted in bytes that are not parsed yet; one door for encrypted documents; boxes that the engine turned or did not; limits checked by an estimate and again behind it |
| text chunkers (`chunk_impl.rs`, `chunk_hierarchical_impl.rs`, `chunk_by_segment_impl.rs`) | window start, chunks, lazily realized separator levels | `chunk_text`, `chunk_cdc`, `chunk_hierarchical`, `chunk_by_*` | progress under overlap; precedence of the levels; a prediction that must agree with what the next window does |
| markdown stripper (`gfm_strip_impl.rs`) | open fence, pending break | `strip` | fences, tables, nested inline marks |
| PII, secrets, logs (`pii_impl.rs`, `secret_impl.rs`, `scrub_impl.rs`) | span lists | `scrub_*`, `find_*` | overlapping spans, idempotence |
| search (`search_impl.rs`, `scan_impl.rs`) | compiled automaton | `find_patterns`, `replace_many` | overlap order, offset grids |
| grounding (`grounding_impl.rs`, `grounded_impl.rs`), diff and fuzzy (`diff_impl.rs`, `fuzzy_impl.rs`) | candidate lists, deadline | `is_grounded`, `close_matches`, distances | pruning bounds, deadlines polled inside loops |
| ranking, sketches, hashes, encodings, truncation, HTML, UUID | none or one counter | pure functions | boundaries, ties, monotonic counters |

Components interact by plain calls: the chunkers call the segmentation, the
schema repairer calls the JSON repairer, the near-duplicate sweep calls the
sketches, and document conversion calls the PDF module. The Python bindings
convert arguments, detach from the interpreter and call the core; the one
callback *into* Python is the token counter. `aio.py` runs the same calls in
worker threads; no two calls share state, so nothing here models threads. The
other actor the code meets is the file system: a document call makes several
system calls on a path that other processes may change in between.

`PROJECT.json` lists every component with its status and every hazard with its
source line.

## Modules

### Streaming JSON repairer

`StreamingRepairer` is the character machine. The repairer is one record; each
handler of the Rust code (`feed_top`, `feed_structure`, `feed_pending`,
`feed_comment`, `pop_frame`, ...) is an operator from machine to machine, and
`process(s, c)` is one call of `process`. Where the code calls `process` again
on characters it already holds, the operator leaves them in `replay`, which
the session feeds before anything else. Text is a sequence of tokens: a letter,
digit or structural character is itself, a rendered separator (`", "`, `": "`)
and a rendered number or literal is one token.

`StreamingClose` is `render_closed`: what `snapshot()` answers at any moment and
`end()` makes final. It is pure; it works on copies of the output and the
frames, drains the deferred elements, runs the empty-container cascade and
closes what is open.

`RepairSession` composes both into the object's life: `Push` (with `Step` for
each character, `PushReturns` and `PushFails`), `End`, `Reset`, and `snapshot`
as a state function. The `caller`, chosen at
the start, says which chunks may be pushed and how many.
`JsonText` recognises strict JSON over the rendered tokens; it is independent of
the machine and is the reference for "is a document".

Not modelled: backslash escapes (and with them `escape_marks`,
`repair_decided`, `top_led` and the surrogate decoder, which only decide how a
string with escapes is re-rendered) and the curly quotes. A push after a nesting
error is outside the documented contract ("reset first") and is not taken.

### Whole-text JSON

Four modules are the repair engine. `RepairText` is the parser record
(`NewParser`: the text, the cursor, the context stack, depth, the lookahead
memory, the polls left before the deadline) with the scanning helpers and the
lookaheads that ask "is this the start of the next member?". `RepairString` is
one string: `parse_string` with its look-ahead arms. `RepairParser` is the rest
of the recursive descent: objects (the duplicate-name split, the merge of
values), arrays, parenthesized groups, numbers, literals, comments, the joining
of several top-level values, strict mode. `StrictJson` is the strict reader that
is tried first. The engine is a pure function of the text and the clock, so its
modules are operators from parser to parser, in the code's order of calls.

A character is itself, or a name for one that matters (`nl`, `tick`, `acute`, `lq`,
`us`, ...). White space is Python's where the repairer asks for it, Rust's where text is
trimmed, JSON's where the strict reader and the validator do; these two refuse every
control character that stands in a string. A remembered lookahead is a record of the memory with a ghost bit,
`exact`, that says whether every answer given so far equals a fresh scan. The
deadline is the number of polls that still find time: the code looks at a clock,
and the model lets the clock run out at any poll.

`CodeFences` is the line walk of `fence_impl.rs`: opening and closing lines, the
block's offsets, its stripped text, the unwrapping used before a repair.
`JsonValid` is the validator's machine, one token per step, with the bit stack as
words (`STACK_WORDS` words of `WORD` bits), surrogate pairs, and the overflow test
that reads only the leading digits and the exponent. `JsonCalls` composes the
calls, `RepairJson`, `ReadFences`, `Validate`, and writes a value (`dumps`,
both spellings of non-ASCII text).

Left out: the schema-guided branches of the engine (below) and the log of repairs
(it observes the same parse), infinities, the digits of floats (a float is its
spelling), capital `E` exponents; the language filter of `extract_code_blocks`; the
validator's eight-byte skip over plain string bytes.

### JSON schema alignment

`SchemaCalls` is one call of `repair_json` with a schema, on a text that is JSON.
Its state is the repairer (`rep`: the clock reads left, the log, the options), the
value as it now is, and the phase. `NormalizeKeys` renames the members whose name
folds to a property's; `ReturnValid` answers with a value that validates, after
`suggest_scan`; `RepairValue` aligns one that does not, and `AcceptRepair` answers
with it if it validates now; `FallThrough` gives the text to the repair parser, or
refuses it when the time is over. `FillMember` is the parser asking for the value
of a member that has none.

`SchemaRepair` is the repair itself, case by case in the code's order: scalars
(`coerce_scalar`), enumerations and constants, unions and lists of types (each
branch tried, its log rolled back), objects (the ladder that remaps a name by
likeness, the defaults, the members to drop), arrays (wrapped, split, salvaged item
by item), missing values. `NumericText` reads a number in text: the locale's
separators, the token grammars of a known and an unknown locale, the extraction
of a single number, and the two readings of an ambiguous one. `Schemas` is the
repairer's state and what it asks of a schema: the chain of references, whether a
type is allowed, the fold of names, `is_valid` and `validate` with their reads of
the clock.

A schema is a record of the keywords it has, a value a record that says what it
is (`[str |-> ..]`, `[num |-> ..]`, `[obj |-> ..]`, ...). External: the validator
(another package; `Validates` is what JSON Schema says of the modelled keywords),
and the likeness of two names, the table `SCORES`. Left out: dates, times and
uuids, exponents and whole numbers past 64 bits, what the construction of a
repairer refuses, the guidance the repair parser takes from a schema while it
reads, and salvage over the fragments of a broken text. Diagnostics are on.

### Token budget

`TokenBudget` is `pack`, the core of `chunk_to_budget` and `chunk_to_offsets`.
`MeasureSentence` and `RefuseZero` are phase A; `Open`, `Extend`,
`ExtendedToTheEnd`, `Recut` and `Emit` are the packing loop; `Walk` and
`WalkedOut` choose the next start. Each counter call is one step, answered by
any member of `Counts` whatever it answered before, or by `CounterFails`. With
`by_offsets` the count is computed from `tokens` by the code's two searches.
Segmentation is external: the texts of `Calls` are any tiling by sentences and of
each sentence by words. `calls` counts only where the documentation speaks of the
cost, in calls without an overlap. `Cover` is the abstract promise of every covering
chunker (start at 0, no gap, strict advance at both ends, finished only at the
end of the text), and `Covers` the refinement.

### Near duplicates

`NearDup` is `dedup_near_dup`: `Pass`, `Claim` and `Keep` are the outcomes of
one comparison, or of none being left. The three pair checks are operators with
the code's own early exits. A threshold is an exact fraction `num/Den`; a simhash
is its set of one bits, a MinHash signature a function, a shingle set a set.

### Distances, ratios and close matches

`FuzzyMetrics` is `levenshtein` (the bit-vector columns of
`levenshtein_myers_bitvector`, and the rows of `levenshtein_dp` for a pattern past the
word), `jaro` and `jaro_winkler`. `CloseMatches` adds the ratio of two texts and
`close_matches`: `Search` looks at one candidate or skips it by its length, `Judge`
looks at the clock behind it, `Best` sorts. A step is one row, column or candidate;
`Tick` lets time pass between any two, and `Polled` is a look at the clock, which
happens where the code has one. A word of the bit vectors is the set of its one bits
(`wrapping_add` is modulo the word), a score or a ratio an exact fraction.

External: the search for a diff, known by how many characters it matches; behind
the deadline it gives up with any less. Left out: the opcodes, the two ways to
take a text apart (ASCII or not), and the rounding of floats, which is monotone.

### Document intake

`DocumentIntake` is one call of three document surfaces: conversion
(`to_markdown`, `to_text`), `page_geometry` and `document_structure`. Each
system call and each decision between two of them is an action: `Parse` (the
binding's checks), `Probe` and `ProbeOpen` (the capability probe), `Stat`,
`Open`, `Fstat` (the gates, twice), `AtDoor` (the geometry surface's no-read
door), `StartRead`, `ReadSome`, `ReadOver`, `ReadEnds`, `ReadDirectory` (the
bounded read and what its end leads to: `AfterRead`), `Copy` (a `data=` call) and
`RunCore`. The three routing tables and the three refusal ladders (`Convert`,
`page_geometry`, `document_structure`) are operators in the code's order.

`Replace`, `Grow` and `ReadFails` are the world: the path comes to name another
file, the open file grows, a read or the buffer's reservation fails. A file is
its type, the size its stat reports, the size it has, whether it is an OLE
container, and what the content sniffer says of three views of it: the prefix,
the prefix's complete lines, and the whole.

Not modelled: the zip audit (it bounds what a third-party reader accepts of
malformed containers, and that reader is not part of the repository), the payloads,
and the four PDF-only surfaces, which `PdfCalls` models behind the intake. The
engines are third-party code.

### PDF

`PdfCalls` is one call of a surface on a PDF. `with_depth_headroom` starts its
thread (or fails to), `Scan` walks the bytes, `OpenDocument` is the door and `Report` the
answer of `security` to the same question; `Select` chooses the pages, `NextPage`
answers for one, `PageFails` refuses the call for a page whose text or links cannot
be read, `EnginePanics` is the engine giving up anywhere in it.

`PdfScan` is `scan_document`: comments, strings, hexadecimal strings, nesting, and
object streams, found by their dictionary and unpacked under a ceiling. A text is a
sequence of bytes in which the words that the walk looks for are one element each,
and its loops are recursive functions. What it is compared with stands in `MCPdf`:
documents as trees, how they are written (`WrittenDocument`), and what they should be
refused for (`FirstRefusal`). A refusal names what it refuses by, and drops what the
call had spent on images: a call that fails has served none.
`PdfPages` is what a page answers: its frame, `map_box_forward` and
`unmap_engine_box`, the boxes of spans, lines, words, characters and images, the
gate before tables (`table_frame_gate`), links and labels. `PdfImages` is the bytes
behind images under the two limits.

External, from how the code uses them: which boxes the engine turns about the media
box (`EngineBox`), the lines and tables it finds, what a decode gives, and its
encryption handler. Lengths are integers. Left out: classification, the wording of
markdown, names of filters and spaces, and errors that only pass through.
`PdfCasesAssumption` says what the calls may be about: boxes of no negative size,
turns by quarters, spans of at least one character, sizes that are counted, label
ranges in ascending order; any corners and any read may fail.

### Text chunkers

`ChunkCall` holds what the three families share: the state of a call, the grid
of grapheme clusters with the raw cut, and what every chunk must satisfy. One
step of a call is one window.

`TextChunks` is `chunk_text` and `chunk_text_overlapping` (`CutText`,
`LastText`, `EmptyText`). A call is abstract here: any grid, any boundary set,
any set of blank clusters. The trim looks a cluster up in a prefix table in the
code; `trimmed_end` says what the table answers. `Covering` refines it to the
same `Cover` as the token-budget chunker.

`SegmentChunks` is `chunk_by_segments` under its four callers; `TextBounds` is
where boundaries come from: the paragraph and line walks, the filters on word
and sentence segments, and the levels of the hierarchy, over texts of seven kinds
of character. A letter, white space, `\r`, `\n`, `#` and a combining mark are what
these walks tell apart.

`HierarchicalChunks` is the window loop of `chunk_hierarchical`. A slot is data
(its cuts and its skips, computed by `realize`); `built` remembers which slots an
earlier window has realized, because the pre-test of the final exit
(`separator_may_open`) answers differently for those. `Skip`, `Cut`, `FinalExit`
and `FinalAfterSearch` are the outcomes of one iteration, `RunOut` the loop's
own end.

Not modelled: content-defined chunking, and the fenced code blocks that hide
heading lines. Segmentation into words, sentences and clusters is external.

## What the runs check

| run | properties | shows |
|---|---|---|
| repair | `SnapshotIsJson` `OffsetsHold` `CleanTextPasses` `DeltasConcatenate` `CommittedNumbersStay` `PushesReturn` | five callers: containers, keys, commas and closers in every order; tuple groups and deferred empty elements; whole documents; number runs and words; all comment forms; every push of them returns |
| slash | `LoneSlashSkipsItself` | a disagreement of code and comment (below) |
| json | `LookaheadsExact` `RepairedIsJson` `DeadlineRefuses` `ReadersAgree` `FenceViewsAgree` `StackIsFaithful` | every whole-text call over families of short texts, one family per rule of the engine, and every deadline up to the sixth poll |
| align | `DeadlineRefusesAlignment` `EveryChangeIsLogged` `AmbiguityIsDisclosed` `AnswersAreFixed` | families of values with the schemas that have something to say about them, standard and salvaging, five locales, every deadline up to the sixth read of the clock |
| unions | `WinnersAreLogged` | a disagreement of code and documentation (below) |
| packing | `BudgetKept` `CountsCertified` `NothingWasted` `Terminates` `Covers` | an arbitrary, failing counter, with an overlap and without; every token-span run over seven codepoints |
| documents | `InputIsBounded` `EngineSeesWholeDocument` `CapabilityRefusedFirst` `PathServesWhatDataServes` | every intake of a document over files of every kind, one interference at any point |
| | `ScanMatchesNesting` `OneDoor` `BoxesInOneFrame` `LabelsReadBack` `BudgetBinds` | calls of ten PDF surfaces over families of small documents: nested objects and streams, doors and selections, turned and cropped pages, label ranges, images |
| inflation | `InflationRefusesTheRest` | a disagreement of code and comment (below) |
| chunkers | `ChunksAdvance` `WithinBudget` `TextCovers` `SegmentWindows` `PretestIsSound` `CoarsestRules` `OnlySeparatorsLost` | every call of the three families over all texts of four or five characters from small alphabets |
| sections | `SectionsNeverMerge` | a disagreement of code and documentation (below) |
| separators | `NoChunkOpensOnASeparator` | a disagreement of code and documentation (below) |
| alike | `FirstComeGroups` `ShortcutsAreExact` `NoMatchIsLost` | every corpus of up to three fingerprints; every pair of short texts under every metric; lists of up to two candidates; a budget that may run out at any step |

Bounds. Four or five pushes, of a character or a whole token, reach every
handler, and every pair of a deferred decision with the character that settles it: a deferral needs an opener, an
empty element, white space, a separator and a closer. The nesting caps let the
cap be hit and a frame be popped inside another's deferral. For the chunker,
a budget of 3 tokens over texts of up to four segments let a chunk hold
one, two or three segments, an overlap be accepted, declined for size and
declined for containment, and a word be oversized. For the sweep of run `alike`, three
texts let a text be alike to two representatives, and width 3 with threshold
denominator 3 puts every verdict on, above and below its threshold. Its words have
three bits and its texts up to four letters, so that a pattern falls short of the
word, fills it and passes it (where the rows take over); texts of three letters over
three characters bring transpositions. Candidates are shorter than the word, as long
and longer, and reach cutoffs of 0, 2/3 and 1; a budget is none or gone with the
clock's one tick, which may fall anywhere.
For the JSON calls a text is a beginning that leads to one rule and up to three or
four of the tokens that rule looks at; well-formed texts put every string of two
characters, structural ones included, in every place of a value; five control
characters stand raw in strings and between tokens, and come out of escapes. Fences are
indented by nothing up to four blanks, by a tab and behind a line break; none has a form feed,
which the trim takes off and a closing fence does not allow behind it. `MAX_NESTING` 8
is above what these texts nest, `MAX_ENTRIES_PER_KEY` 2 makes the memory evict, two
stack words of two bits are filled and passed by five containers, three integer
digits and exponents up to 3 stand for the limits of a float. Each text is
repaired with the strict read first (with a deadline at the sixth poll), without
(at the second), and in strict mode.
For the alignment, texts of numbers are up to three tokens (digits, groups, both
separators, a sign, noise); objects have up to two members of four names, arrays up
to three items of five values, and the schemas put each of them into every branch:
fitting, coercible, missing, surplus. `MAX_SCHEMA_DEPTH` 3 is passed by a schema that
refers to itself over four arrays within each other, `SAMPLE` 2 (256 in the code) is
how many polls go by for one read of the clock, and the `SCORES` stand on both sides of the code's thresholds and margin. A nested repair
has `ENOUGH` polls; its real number is charged to the clock.
`DeadlineRefusesAlignment` leaves out salvaging over text (below) and
`EveryChangeIsLogged` unions, which `unions` is about.
For the PDF calls nesting is allowed two deep and flows nine bytes long, so that
arrays, dictionaries and unpacked object streams stand on both sides of either,
behind every line end, filter spelling and decoy. Pages are turned by all four
quarters, cropped away from the origin of the media box, with up to two texts, each
turned by the engine or not, and rulings up to one past `MAX_TABLE_PRIMITIVES`.
Labels run over the numbers about every numeral, four letters stand for the
alphabet, and a limit of 22 leaves six thousands. Two or three images meet limits of
24 bytes each and 40 a call with estimates below, at and above what they decode to.
For the intake the sizes keep the code's order and shrink: a sniff prefix of 1,
chunks of 2, a lane ceiling of 3, a backstop of 5, files up to 6, so that a file
stands below, at and above each of them and a read takes several chunks. One
interference can fall between any two steps. A read cut short by a signal is
retried with the buffer as it was, a stutter.
For the chunkers, budgets of 1 to 3 with every smaller overlap over texts of
four or five characters give a call up to five windows: enough for a cluster
wider than the budget, an overlap taken, declined and landing on an overlapping
match, two headings in one budget, and a separator at the start, at the end and
behind another. A second family, a line and up to two sections in budgets of 4 to 6
that hold them all, lets an overlap reach back before a heading (`sections`). Letters are told apart only where a separator is a letter.

Fairness. `FairSpec` of `RepairSession` assumes only that a push that was called
goes on (`Step`, `PushReturns`, `PushFails`): the code is a loop in one thread. The
weak fairness of `Step` is `StepFair`, with what enables it written out (`StepMoves`):
TLC takes minutes over an `ENABLED` of the whole machine. `FairSpec` of
`TokenBudget` assumes `WF_vars(Next)`: `pack` is a loop in one thread and each
call of the counter returns or raises. A counter that never returns is the
caller's hang, and excluded. The runs of one-shot calls set `CHECK_DEADLOCK
FALSE`: a call that returned has no further step.

## Disagreements found

- `slash`: a lone `/` also swallows the next character (`streaming.rs:2518`),
  against the comment above it ("one skipped char").
- `separators`: `chunk_hierarchical` asks each level for its skip and then its
  cut before it asks the next, so with two literals the cut of the first preempts
  the skip of the second: over `babaa` with `["ab", "b"]` and `max_chars` 1 the
  first chunk is the separator `b` (`chunk_hierarchical_impl.rs:1296`, against
  lines 1104-1111, "no window ever opens on a separator"). The fuzz target knows
  the exception; the documentation does not state it. What does hold is
  `CoarsestNeverOpens`: no chunk opens on a match of the first separator.
- `sections`: with an overlap the last chunk may run across headings. The demotion
  asks whether the *first* heading in the window lies behind the last chunk; where
  an overlap has pulled the window back before a heading that the last chunk ended
  at, it does not, and the final exit takes everything up to the end of the text
  (`chunk_hierarchical_impl.rs:1243`): over `aa\n#\n#` with `max_chars` 5 and overlap
  1 the chunks are `aa` and all the rest. The documentation (line 88, and
  `docs/api.md:4111`) says that sections never merge. The proof of the old property met it:
  the step of the final exit would not go through. What holds, and is proved, is
  `SectionsStayApart`: only the last chunk crosses a heading, and then one that the
  chunk before it had reached.
- `unions`: a union runs each branch inside `probe`, and `probe` truncates the log
  behind whatever it ran, the branch that wins included
  (`json_schema_impl.rs:1329`, `1362`, `1096`). The comment at 1328 says that a
  branch's records live if it wins, and `docs/api.md:2233` that the log accounts for
  every action: `"1"` under `{"type": ["number", "null"]}` becomes 1.0 with an empty
  log, and the ambiguous `"1,238"` is read there without the suggestion that
  `docs/api.md:2545` promises.
- `inflation`: an image that `actual_size_cap` refuses adds nothing to `spent`
  (`pdf_impl.rs:2812`), so the entries after an under-estimated chain do not "see the
  inflated `spent` and refuse" (2745, on that very function): with a budget of 40, 24
  bytes are served, an image estimated at 2 decodes to 24 and is refused, and 16 more
  are served. Nor is the call pushed past its budget "by at most one image's
  inflation" (2283, `docs/api.md:8918`): every further under-estimated image is
  decoded before it is refused in its turn. What does hold is `BudgetBinds`: the
  limits bind on what is served.

More were met while modelling and have no run of their own. In the streaming
repairer, `last_key_empty` compares with `out.len() - 1` after the closing quote,
so no empty key sets it (`streaming.rs:1598`) and the branch that reads it (line
1837) never runs, against the comments at 556 and 1831; a `#` comment in
an object's value never stops at the closing brace, because `hash_comment` tests
`Pos::Value`, which an object's value is never at (`streaming.rs:2529`, against
the module documentation at 182); and with an overlap the walk-back's
measurements (`chunk_budget_impl.rs:288-295`) are counter calls that the
documented cost (lines 49-51) leaves out.

In the PDF module a failed `extract_paths` refuses the tables (2155, `table_frame_gate`)
where the documentation at 2021-2023 says that it reads as empty.

In the whole-text engine: with `skip_json_loads` a valid document is read
differently where it has escapes, and an object of blanks becomes an array
(`{"a":{ }}` gives `{"a": []}`); strict mode calls `[1] ` several top-level values;
`/*/` closes a comment for `parse_comment` but not for the lookahead over comments;
the deadline is not polled within an array of plain quoted strings; `dumps` writes
`NaN`. In schema mode:

- `repair_array` splits a text before it knows that wrapping failed (1493-1502),
  so records of a discarded split stay in the log;
- salvaging `"yes,no"` for an array of booleans answers `[]` where the standard mode
  answers `[true, false]`;
- normalizing "can never reduce validity" (2123), yet the properties `user_id` with
  a required `userId` lose the required member to the rename;
- when a nested repair runs out of time, salvage drops its item (1632) although the
  comment at 1427 says that such an abort propagates: `["{\"a\":1"]` with one clock
  read left answers `[]`;
- under `de-DE`, `"1.234"` is 1234 for an integer and 1.234 for a number;
- when the schema rejects both readings of an ambiguous number, en-US is assumed
  (2900-2917), though a rejected reading "is not a candidate";
- the locale is not asked for full-width digits: `１.238` is read 1.238 without a
  suggestion where `1.238` has one.

## What is proved

`TokenBudget_proofs`, for every text, counter, budget and overlap that satisfy
the module's assumptions (sentences tile the text and words their sentence; the
budget is at least 1 and the overlap smaller; counts are naturals):

- `TypeCorrect` (`TypeOK`) and `WithinBudget`, the property `BudgetKept` of run
  `packing`;
- `CountsRight`: over token spans, no chunk but a single word holds more than
  the budget in real tokens, and an overlap is the shortest that repeats enough
  (`CountsCertified`); `Thrifty`: chunks are full, and without an overlap the counter is
  called at most once a sentence, once a segment and once more a word (`NothingWasted`);
- `Advancing` and `CoveringInv`: both ends advance and nothing is skipped, the
  parts of the cover as invariants;
- `Refinement`: `Spec => Covers`.

None of these is inductive. The invariant `IInv` adds that the packing list
tiles the prefix of the text measured so far, where each index stands in each phase, that
`fallback_si` is the segment at `prev_end`, and that a candidate starts inside or
at the end of its predecessor. The step that needs it is `Recut`: only because
the fallback starts exactly at `prev_end` does the re-cut chunk end past it.
The cost needs an account that the property does not give: what each phase may have
asked by where its indices stand (`Cheap`).

`NearDup_proofs`, for every corpus, method and threshold: `TypeCorrect`,
`RepsApart`, `ClaimedFirst` (together `FirstCome`, the property `FirstComeGroups` of run `alike`) and
`Partitioned`. The invariant speaks of the set of
duplicate `Pairs` of the call, which no step changes, and adds what the current
scan has already excluded (`Scanned`): with it, a text that reaches `Keep` matched
no representative, and a text that reaches `Claim` none before the claiming one.
`VerdictExact` is about the pair checks: no early exit changes a verdict, for every
width, threshold and pair of fingerprints.

`DocumentIntake_proofs`, for every set of calls and files, every size of the
ceilings (the prefix below the lane ceiling, that at most the backstop) and any
number of interferences: `TypeCorrect`, `BoundedRead`, `WholeDocument`,
`LaneCeiling` (with `BoundedRead` the property `InputIsBounded` of run `documents`),
`RefusedFirst`, `NeverStuckAlone`, and `ServesTheSame` (`PathServesWhatDataServes`: a
call on a path runs what the call on its bytes would, though it may refuse earlier
and for another reason). The lemmas about the ladders
say that whatever a core answers is sound (`CoreSound`). The invariant adds what a read is for, under which ceiling it runs and what
that says of the budget (`Reads`); that what passed the fstat is a file or a
directory (`Admitted`); that the core gets the whole file unless a zero budget or
the no-read door sent it there (`AtCore`); and that a call whose capability
refusal is decided never leaves the probe (`Refused`). `WholeDocument`
needs `AtCore`: a prefix may reach the core, and there every ladder refuses it.

`Chunkers_proofs` is about three families. For `chunk_text`, for every grid, boundary
set, blank set, budget and overlap: `TypeCorrect` (clusters stay whole), `Advancing`, `Budgeted` (whole clusters, and a
chunk past the budget is a single one), `Progress` and the
`Refinement` to `Cover`. The lemmas follow the cut through its stages: the raw
cut, the boundary cut and the trim each yield a `GoodCut` (on the grid, past the
start, within the budget or one cluster). The invariant adds `Onward`: the window
stands inside or at the end of the last chunk, and its own chunk *will* end past
it. That clause is what the look-ahead of the overlap buys, and no property
follows without it.

For `chunk_hierarchical`, for every list of levels, whatever each has found:
`ChunksWithinBudget`, `ChunksMoveOn` (both ends advance), `WindowsMoveOn` (each window
but the last moves on, so the loop ends), `PretestExact` (the pre-test of the final exit never
changes the output), `CoarsestFirst` (`CoarsestRules`) and `NothingElseLost` (what is in
no chunk is in a separator). Two assumptions say what `realize` gives:
`HierarchyAssumption` that a level's cuts and skips are on the grid and do not run
backwards, `LevelsAssumption` that only headings, literals and paragraphs lose
anything, that a text without `#` has no heading, and that a separator at the very
start is a literal the text leads with; TLC evaluates both on the rows that
`TextBounds` computes from real texts. The invariant `HInv` adds `Forward`: a window that was pulled back
into the last chunk stands where *every* row that it, or a window behind a skip
from it, may choose ends behind that chunk (`Beyond`). The code looks only at the
one cut it expects (`next_end`); that the prediction survives a skip, the demotion
before a heading and the pre-test is what the lemmas `BeyondSkips` and those behind it say.
`NothingLost` adds that every position before the window is in a chunk or a separator.

For `chunk_by_segments`, for every list of segments, window and overlap:
`SegmentsTyped`, `SegmentsMoveOn`, `StridesMoveOn`, and `OverlapIsShared`
(`WindowsShareTheOverlap`, the part of `SegmentWindows` about windows). The invariant `SegInv`
numbers the windows: the k-th starts `(k - 1) * stride` segments into the list. The
assumption is that segments are whole clusters in ascending order, which TLC evaluates on the
units that `TextBounds` computes.

`JsonValid_proofs`, for every text, word width and number of words: `ValidInvariant`
and `BitsAreKinds`. The stack of the code is a number of bits, and closing a
container does not clear its bit; `StackIsFaithful` compares the bits below the
depth with `open`, a ghost sequence of what is open. The invariant adds that the
depth is the length of `open` and that the state after a closer is one the
container it returns to can be in. The lemmas about words say that setting or
clearing a bit leaves the others, across the edge of a word.

`PdfPages_proofs`, for every box, corner, turn and size: `ForwardShows` (a surface
gives a box where its opposite corners are shown), `SpanShown` (also one that the
engine had turned: `unmap_engine_box` undoes its turn about the media box) and
`ImageBytesBind` (what is served of an image fits both limits). It needs the call's
limit to be strictly below the width of the counter, for at the width a saturated sum
would pass for one under the limit. These are facts about the operators that
`NextPage` applies. From them, for every document, request and answer of the engine:
`DoorIsOne` (`OneDoor`), `BoxesAreInOneFrame`, `BudgetIsKept` and `LabelsAreRead`,
the calls' invariants. `CallInv` says how far a call is, who let it in and on which
grounds, what is answered and what is left, and gives `OneDoor`. The other three need
`EntriesInv`: each entry so far is what its page answers, and the images of all
entries add up to what is spent, which the next page goes on from. `LabelsReadBack`
is the long one, for every number: a Roman numeral is read by strong induction down
the greedy table (`FittingStands`, `NumeralThen`), letters by their repetition
(`AlphaReadsBack`), and a page's number within its range by `NumberedIs`.

`CloseMatches_proofs`, for every list of candidates, cutoff, budget and clock:
`SkipLosesNothing` (what the lengths rule out could not reach the cutoff) and
`ScanInvariant`. Its `ScanInv` says that what is kept so far is `Complete`: the
entries of exactly the qualifying candidates before the index, each with its whole
ratio. Between `Search` and `Judge` that can be said of the candidate at hand only
while the deadline is not over (`Judged`): a search that gave up is thrown away by
the look at the clock behind it. `BestInPlace` is about the sort at the end (`Sorted`): each of
the best entries stands at the place that counting the better ones gives it;
`NothingIsLost` is `NoMatchIsLost`, for whole calls.

Induction over data is out of the provers' reach as a theorem schema; where a proof needs it
(a least cut, a least counterexample), it takes the least element of a set of
naturals, which `WFMin` of `WellFoundedInduction` gives without an operator parameter.

`RepairSession_proofs`, for every text, every way it is cut into pushes and every
nesting cap: `Typed` (`TypeOK`, the first part of `OffsetsHold`: shapes, the cap and the cursor),
`DeltasJoinUp` (`DeltasConcatenate`) and the action property `RepairsShow`: a step of a push rewrites
nothing that it leaves in front of the delta cursor, and never moves the cursor on, so
that a repair of text already handed over always shows. The
invariant `SessionInv` is small; the work is in the machine. A machine is `Sound` when it has its
shapes, its cursor is in its text and its stack under the cap, and one operator
`Keeps` what another has handed over when it leaves what is in front of its own
cursor as it was. There is one such lemma for each operator, from the three edits of the text
(`EmitKeeps`, `TruncateKeeps`, `DrainKeeps`) over the pops and the handlers of a position
to `ProcessKeeps`; `KeepsOn` chains them. The rendering of `end` moves a copy without a
cursor, so its lemmas (`WorkMoves` to `RenderIs`) say that it stays in shape. Four
definitions are recursive functions (`PopTo`, `drain_marks`, `cascade`,
`close_frames`): `Recursion` says that such a function exists, and `Stays`
that what each step takes over holds of all its values. The filters of marks and
characters are written with `Except`, a set of kept positions, because the prover cannot see
into `SelectSeq`. `CallersAssumption` says that a chunk is a sequence of strings.

`OffsetsStand` is the whole of `OffsetsHold` in the same module: every offset that the machine
keeps goes on saying what stands at it. `OffsetsHold` alone is not inductive. A bracket is
still in place after a drain only if no drained element overlaps it, and an element can be dropped
late, after inner frames were pushed and popped, only if nothing between them was built on it. The invariant `PlacedInv` adds this, and TLC checked it on
the machine of run `repair` before it was proved:

- `Stands`, the geometry: each frame has its bracket at `brace` and its member in flight behind it
  (`StandsAt`); each frame is inside the members in flight of *all* frames below it (`Nests`), so
  that a pop leaves nothing dangling; the root is at the front of the text; a mark spans one strictly
  empty element (`Spans`) that is either in front of a frame's bracket or in the body of a frame that
  has begun and is no group (`ClearOf`), and never overlaps what leads from a frame's member to the next frame
  (`ClearBetween`);
- `Reads`: what is being read (a string, a number, a word, a colon) belongs to a
  member in flight, and a key to an object, so that a retraction has something to retract;
- `Armed`: a deferred decision is about the last element, ends where the text ends, and is taken
  before anything else is read.

Each edit of the text has a lemma of what it does to `Stands`, each helper one to `Based`, and each
handler of a position one to `Placed`, up to `process` and the renderings of `end`. A handler
leaves `Placed` in between (a retraction takes the member away before the next one begins), so its
lemma says in which order the parts are given up and regained.

`EntriesRunOut` is the safety core of `PushesReturn`. An entry of `process` may put its character back,
and with it the characters of a number, a word or a parenthesis that it gave up, and each of them
re-enters the machine; that this ends is not plain from any one handler. The proof
weighs what is ahead of the push (`Ahead`): 20 (`Weight`) for each character still to enter, and a small weight for
each state that a later entry may have to leave first (`Heft`): the position, a pending number or word,
an open comment, a deferred decision, and a parenthesis gate, which weighs 19 for each character it
withholds. Each operator has a lemma of what it does to the weight: the edits leave it `Even`,
the pops, retractions and drains of a handler are `Brief` (they re-enter nothing and leave at most a short token), and each way
through `process` `Falls` (`ProcessFalls`): whatever it puts back weighs less than the character it
took and the state it left. So each `Step` has strictly less ahead of it, and a push of n characters never
has more than 20 n + 110, which also bounds its entries by its length. It rests on
`PlacedInv`, and on `GateHolds`: between two entries the gate withholds at most four characters.

Only model-checked:

- of the streaming repairer, that a snapshot is JSON (`SnapshotIsJson` is about the parse of the whole text,
  which is recursive), `CleanTextPasses` (likewise), and `CommittedNumbersStay`, which is about texts whose
  numbers only the machine wrote: a caller may push any string, the token `num` too;
- the whole-text repairer and the alignment with a schema, whose parsers are recursive
  over their data, and of PDF calls the walk over the bytes (`ScanMatchesNesting`
  compares it with trees, which is an induction over documents);
- the metrics in `ShortcutsAreExact` (`VerdictExact` proves the part about pair checks);
- that the units of a text are its stretches (`UnitsAreStretches` in `SegmentWindows`, about
  folds over characters), and that runs do end (liveness under fairness; `EntriesRunOut`
  has the part of `PushesReturn` that is about the code: no push can take entries forever).


## Plan

Done: the token budget, the near-duplicate sweep, the intake, the three chunker
families, the streaming repairer, the whole-text engine, the fences, the validator,
the alignment with a schema, the PDF calls; the distances and close
matches; proofs for eight of them. What is left, in order:

1. What the repair parser takes from a schema while it reads (`parse_with_schema`),
   salvage over fragments, and dates, times and exponents in `SchemaRepair`.
2. The intake composed with the PDF surfaces it leads to.
3. Escapes in the streaming machine; the fences that hide heading lines (with
   `CodeFences`); the markdown block machine.
4. Scrubbing and search: span resolution. Grounding, and the opcodes of a diff.
5. Proofs: that without an overlap the chunks of a token budget are a lossless partition.
