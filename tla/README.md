# A formal model of tinyOLAP

tinyOLAP (`src/tinyolap`) is a small columnar database: one table per
directory, one immutable *part* per INSERT, and parallel scans over the parts
for SELECT. This directory holds TLA+ modules that model it, TLC
configurations that check them on small instances, and TLAPS proofs about
them. Paths below are relative to `src/tinyolap/src/`.

## 1. Inventory

| Component | State it keeps | Operations | What makes it correct |
|---|---|---|---|
| Table writer (`storage/table_writer.rs`) | counter `next_part_id`; directories `tmp_part_<id>`, `part_<id>` | `open`, `insert` | visible parts are whole, immutable, one per insert; Ok means durable |
| Column, mark and zone-map files (`storage/column_*.rs`, `string_column_*.rs`, `mark.rs`, `zone_map.rs`) | blocks, marks, the block being filled; the reader's one-block cache | `write_column`, `write_string_column`, `read_granule`, `write_zone_map`, `read_zone_map` | granule *k* reads back as rows 512(*k*-1)+1 .. 512*k* of every column, whatever its block boundaries |
| Codecs (`encoding/`) | the locals of each loop: previous value, run, dictionary | `encode`, `decode` | round trip for every input; a damaged block gives no values that were not in it |
| Parallel execution (`execution/gather.rs`, `work_source.rs`, `full_scan.rs`, `zone_map_scan.rs`, `filter.rs`, `project.rs`, `limit.rs`, `builder.rs`) | work index, scan position per worker, the channel, `emitted` per worker | `next_batch` of each operator, `Drop` | every part read once, nothing lost silently, always returns |
| Zone-map skipping (`execution/zone_map_scan.rs`) | min and max per column and part | `zone_map_can_skip` | a skipped part has no matching row |
| Aggregation (`execution/aggregation/`) | group table and accumulators, per worker and in the merge | `update`, `merge`, `materialize` | the merge of the partial results is the result over all rows |
| Predicate evaluation (`execution/expr.rs`) | none | `evaluate_predicate` | agrees with the zone maps |
| Front end and planner (`frontend/`, `logical_plan/`, `physical_plan/`) | none | `validate`, `analyze`, `lower`, rewrite rules | a statement that is accepted executes without an error or a panic, and rewrites keep its meaning |
| INSERT values (`dml/insert_builder.rs`) | none | `build_record_batch` | values fit their columns |
| Catalog (`catalog/schema.rs`) | `schema.json` | `create`, `open` | - |
| Part discovery (`storage/part_discovery.rs`) | none | - | not called by anything |
| Command line (`main.rs`, `lib.rs`) | none | `run_sql`, `run_select_collect` | - |

How they interact. `main.rs` opens a fresh `TableWriter` for each INSERT and
calls `insert`, which lets the column writers run in parallel on a thread pool.
For a SELECT the planner produces a physical plan; `build` lists the parts
once, makes `N_WORKERS` copies of the plan that share one `PartWorkSource`, and
starts a thread for each (`GatherExec::new`). The threads push batches into one
bounded channel; the caller's thread pulls them (through `MergeAggregateExec`
when there are aggregates) and finally drops the plan. Writers and readers
share nothing but the file system: a reader takes every directory whose name
starts with `part_`.

The hard behaviours. Crashes and losses of power between the steps of an
insert, and what the next insert finds; concurrent inserts on one writer, and
several writers on one table; errors of one column while others are still being
written; the race of workers for parts; workers that fail or panic while the
consumer waits; shutting down without a deadlock when the consumer stops early;
LIMIT counted in several threads; granule, block and file boundaries; zone-map
comparisons at their boundaries and on floats. `PROJECT.json` lists them under
`hazards`, each at its line.

## 2. Plan

In this order; what is done is marked.

1. **Table, TableWriter** (done), **TableWriterProofs** (done): crash-safe insert
   and its abstract specification.
2. **Query** (done), **QueryProofs** (done): parallel SELECT without aggregates,
   and exactly-once delivery of every matching row.
3. **ColumnFile** (done), **ColumnFileProofs** (done): writer and reader of one
   column file: granules, blocks, marks and the block cache, for numeric and
   string columns. Every granule reads back as its rows, and columns of different
   widths agree on the number of granules.
4. **Select** and **Aggregation** (done), **AggregationProofs** (done): the plan
   of a SELECT with aggregates; partial and merged aggregation over `Query`'s
   workers: groups, empty partials, lost partials, LIMIT below the merge, checked
   against a reference definition over all rows.
5. **ZoneMap** (done), **ZoneMapProofs** (done): the bounds that an insert records
   for each column, the file they are kept in, and what a comparison concludes
   from them.
6. **Planner** (done): analyzer, lowering and rewrite rules over predicates;
   **Where** (done) composes it with `ZoneMap` and the filter: a WHERE clause from
   the statement to the rows, against SQL's own reading of it.
7. **Codecs** (done), **CodecsProofs** (done): every codec of `encoding/`, value by
   value, and what the decoders make of a block that lost its end.
8. **Database** (done), **DatabaseProofs** (done): composes `TableWriter` with
   readers that list the directory and open files while inserts run, crash and
   commit.
9. **WhereProofs** (done): the answer of a WHERE clause for every clause, table and
   list of parts.

## 3. Modules

### Table and TableWriter

`Table` is what callers of `insert` and readers may rely on: an insert becomes
visible in one step, Ok is only returned for a visible insert, an acknowledged
insert never disappears, and nothing appears after its call has ended.

`TableWriter` is `table_writer.rs`. Each element of `Inserts` is one call of
`insert`, with a phase `pc[b]` that follows the function: validation (`Reject`),
`fetch_add` (`Reserve`), `create_dir_all` (`MakeTmpDir`), the column files in
any interleaving and then the zone map (`CreateFile`, `WriteFile`, `SyncFile`,
`FileFails`), `remove_dir_all` on an error (`Abort`), `rename` (`Rename`,
`RenameFails`) and the sync of the table directory (`SyncTableDir`,
`SyncTableDirFails`). A `.bin` file and its `.mrk` are one file of the model:
they are created, written and synced by one thread, and what can happen to one
of them can happen to both. `Open` is `TableWriter::open`; its scan sees
`part_` names only.

The file system is external to `src/` and is modelled from the calls the code
makes. `fs` is what processes see; `disk` is what a loss of power would leave.
Directories are identified by the insert that created them, so that an open file
(`fd`) stays in its directory across a rename. Assumptions about it: `rename`
of a directory is atomic and fails when the target is a directory with files in
it; an fsync of a file makes its bytes durable and commits the journal; the
journal commits names and sizes in order and may be committed at any other time
(ext4 in ordered mode behaves so; the code itself never syncs the tmp directory,
so on a file system that gives less, the names of synced files could be lost);
bytes not synced are lost or torn by a loss of power. The death of the process
alone keeps `fs` as it is.

### Database

`Database` extends `TableWriter` with a reader. `build()` lists the names that
start with `part_` when the query is built (`BeginListing`, `EndListing`), and
the workers open and read files of these parts by name afterwards, one at a
time (`ReadFile`); between any two of these steps the writers take theirs.
`read_dir` is no snapshot: a name that appears during the listing may be in it
or not, and an entry that cannot be read is dropped by `filter_map`, without an
error (`lossy`). `EndQuery` is also the end by LIMIT or an error. A query may
be in a process of its own (`run_select_collect` is a library function), so it
outlives a crash of the writers' process but not a loss of power. Three
variables are history: what was acknowledged when the query began (`known`),
what queries have shown (`shown`), and whether two TableWriters were ever open
at a time (`shared`). A query may show a part whose directory entry is not yet
synced and that a loss of power then takes away; `LosePower` forgets these.
Workers, granules and channels are `Query`'s and are left out: here a query is
the set of files it has read.

### Query

`Query` is one SELECT without aggregates. `table` is what is on disk and the
statement's LIMIT, chosen at the start: granules per part, matching rows per
granule, granules whose batches may fail and parts that may not open, parts the
zone map excludes. A worker (`Worker`) follows `GatherExec`'s thread: `LimitExec` may stop it; a scan
with no open part takes one from the shared index (`TakeWork`), skips it, fails
to open it or opens it; a scan with an open part reads the next granule, and panics
on a part without marks; `FilterExec` drops a batch without matching rows; `LimitExec` passes or slices; `send` blocks
on the full channel and fails once the receiver is gone. An error of a batch comes
in two kinds. A column that cannot be read leaves `granule_idx` where it is, and
the next call reads the same granule again (`ReadFails`); an error of
`RecordBatch::try_new`, the filter or the projection comes after the index has
advanced, and the next call goes on behind the granule, which is then lost to the
stream (`BatchFails`; `FilterFails` of `Where` has one of its causes). Either way
the worker sends the error and goes on. The consumer is the
loop of `run_select_collect` and `run_select`: receive until an error or the
end, then `Drop for GatherExec`, receiver first, joins second. A batch is the
granule it came from and the number of rows left in it: `ProjectExec` only
reorders columns and is the identity at this level.

### Select and Aggregation

`Select` is what the validator and the planner make of a SELECT list and a GROUP
BY: which statements get an aggregate node (`HasAggregateNode`), its aggregates,
and the columns of the projection above it. `Aggregation` extends `Query` with
what differs for these statements.
The scans, the channel and the shutdown are `Query`'s own actions. A worker
drains its scan into its accumulators (`Drain`, `Aggregate`), sends one batch
(`Flush`), of which `ProjectExec` keeps the columns of the SELECT list and
`LimitExec` the first rows, and stops (`EndOfPartial`); or the projection does
not find a column and sends an error (`ProjectFails`). The consumer
merges each batch as it comes (`MergeBatch`) and hands out the result at the end
of the stream (`Finalize`). `partial[w]` and `merged` hold the group table and
the vectors of the query's accumulators, column by column as in the code: groups
are numbered in the order they are met, and `Updated` and `Merged` compute
`group_indices` and call one operator per `update` or `merge`. A batch is a
function from column names to vectors, and what the code looks up by name is
looked up in it: the projection keeps columns of it, and the merge takes the
GROUP BY columns and the partial aggregates from what is left. (That the scan
has every column that an operator above it looks up is `CollectColumns` of
module `Planner`.) `Content` gives the rows; a granule's matching rows are its
first `table.rows[p][g]` ones. The table has two columns; a GROUP BY may have
none, one or both, and the aggregates are over one of them, since accumulators
do not interact. A group is the function from the GROUP BY columns to their
values, which `RowConverter` turns into a key. The order of the columns is
left out: in the answer the GROUP BY columns come first, whatever the SELECT
list says. `SUM` accumulates in integers of `w` bits (`SumHalf` is 2^(w-1)), as
`sum.rs` does for signed columns; unsigned ones differ only in the range. The
code has no check of its own:
in a release build additions wrap (`Wrapped`), in a dev build the worker
(`SumPanics`) or the consumer (`MergeSumPanics`) panics; `query.checked` chooses
the build. The panic of a worker is one of those that `Query` has: its thread
ends and its partial result is lost. The sums of AVG, which the code keeps in f64
for columns of every type, and the SUM of a float column are exact integers here.
This is what the code computes as long as a column has integers and no partial sum
is beyond 2^53. Otherwise each addition rounds, in an order that depends on which
worker reads what, and the last digits of an AVG may differ from run to run.

### ColumnFile

`ColumnFile` is one column of one part, from its rows to its two files and back;
the same module covers `column_writer.rs` with `column_reader.rs` and the two
string files, which differ only in the size of a row (`sizes`: the width of the
type, or 4 bytes and the length of the string) and in what a mark counts
(`stride`: bytes, or strings). `AddRow` is one turn of the writer's loop with
the flush it may contain (`FlushBlock`), `Finish` the tail block. The file is a
function from the offset of a frame to the rows in it; the length of a
compressed frame is any of `FrameLengths`. A reader opens the closed files and
asks for granules in any order: from the cached block (`ReadCached`), from the
file (`ReadBlock`), or with an error that leaves the cache as it was
(`ReadFails`). `min_val` and `max_val` belong to the zone maps. Rows stand for
their values, and decoding is the inverse of encoding, which is what `Codecs`
establishes. The program reads each granule once and in order; the model lets it
ask in any order, which the interface of `read_granule` allows.

### Codecs

`Codecs` is one block of a column between `flush_block` and `read_granule`. The
encoded bytes are a sequence of fields (a value, a run length, a string's
length, one of its bytes, an index), and each turn of a loop of an encoder or a
decoder is an action: `EncodeDelta`, `EncodeRun`, `EncodeString`, `BuildDict`,
`WriteEntry`, `WriteIndex`, and their counterparts from `DecodeDelta` to
`ReadIndex`. Values have `w` bits, and `EncodeLe`, `WrappingSub` and
`WrappingAdd` are the code's conversions and its arithmetic modulo 2^w. The length
of a string, the size of a dictionary and an index are cast `as u32` before they
are written (`AsU32`): `FieldSize` stands for 2^32, and what is larger loses its
high bits as in the code. `CodecsTypeOK` says that every field written or read is
one that its width can hold; `RoundTrip` and `CutOffIsPrefix` are stated for blocks
in which the cast loses nothing (`Fits`). A longer string comes back as something
else: "lossless - correct for any string content" (`encoding/string_plain.rs:4`) is
true below 2^32 bytes.
Between encoding and decoding, `Open` may cut the block off after any field
(`src`) or within the next (`torn`), which is what the decoders' `Truncated` and
`Corrupt` errors are for. `ends` is history: what the stream covered after each
pair or string. The write path uses `Plain` and `Delta` only; `RLE` and the
dictionary are read if a file's tag says so, and are modelled alike.

### ZoneMap

`ZoneMap` is an insert as the zone maps see it. `low[c]` and `high[c]` are the
locals `min_val` and `max_val` of `write_column`, at most one value each; the
columns take their rows in any interleaving (`NextValue`), as the thread pool
lets them, and `FinishPart` collects the bounds of the numeric columns and
writes `part.zonemap` (`ZoneFile`). `ReadZoneMap` is `read_zone_map`: a header
per column, and bounds found at the offset in the header. `CmpCanSkip` and
`CompareCanSkip` are the three `cmp_can_skip` functions and the arm of
`zone_map_can_skip` for a comparison of a column with a literal.

A value is reduced to what these comparisons can tell apart: its place in
Rust's `<` (`ieee`), its place in the order of Arrow's kernels (`total`), and
whether it is a NaN. The two orders differ only for NaN and for -0.0, which
Rust takes for equal to 0.0 and Arrow for less. Widening to `i64`, `u64` or
`f64` keeps both places. Arrow is external and is modelled from its
documentation's total order and from how `expr.rs` calls it.

### Planner

`Planner` has no state: it is what happens to a WHERE clause between the parser
and the operators, as functions on expression trees, one for each function of
the code and composed in the code's order. `Accepted` is the analyzer,
`LowerSql` the first lowering, `Coerce`, `Fold` and `EliminateTrue` the logical
rules, `LoweringPanics` the literals `narrow_literal` has no conversion for,
`LowerExpr` the second lowering, `CollectColumns` what the scan will read and
`PushDown` the choice of the scan. A filter that is not there is an empty
sequence. `SqlExpr`, `LogicalExpr` and `PhysicalExpr` are the sets of
expressions that these functions take: columns, literals, comparisons of two of
them, and AND and OR over all these, nested up to `MaxDepth` times. Comparisons
of comparisons, which the validator lets through and `evaluate_operand` refuses
unless they were folded, are left out. The limits of the integer types are
constants. A number is parsed as an i64 if it can be (`IsI64`), and as an f64
otherwise, and `narrow_literal` casts it `as f32` or `as f64` for a float column;
a number that the float type does not have becomes the nearest one (`AsFloat`,
`Narrowed`). Which numbers these are, and what they become, is the constant
`Inexact`.

### Where

`Where` extends `Planner` with the run of one SELECT: parts are inserted
(`InsertPart`), then a statement starts (`Start`), which the analyzer may reject
or lowering may abort with a panic; its parts are skipped (`SkipPart`), read and
filtered (`ReadPart`), or end it with a type error (`FilterFails`). `CanSkip`,
`Evaluates` and `Passes` are `zone_map_can_skip` and the error and the value of
`evaluate_predicate`. A zone map that cannot be read counts as an empty one, so
`ReadPart` is possible also for a part that `SkipPart` would skip. `Satisfies`
is the reference: the clause read as SQL, with no plan and no zone maps. What a
number means there depends only on the column that it is compared with: `Meant` is
the value of the number in the type of the column, whatever rules rewrite the
clause in which order.
Workers, granules and failed reads are `Query`'s and are left out: one worker
reads a part at a time. The rows a query sees do not change while it runs, so
inserts come before the query.

### Mutants

Operators whose comment begins with "Mutant of" are plausible bugs of the
definition that follows them. No specification uses them; putting one in the
place of the original makes TLC report the property that `PROJECT.json` pairs
it with. They show that the property can fail.

## 4. Runs

| Run | Instance | Shows |
|---|---|---|
| `table_writer` | three inserts, one of them malformed, two columns, ids 0..1, one handle | `TypeOK`, `PartsWhole`, `AckedDurable`, `IdsPrivate`, `PartsImmutable`, `ImplementsTable` |
| `database` | two inserts, one column, ids 0..1, two handles that may be open in turn or at a time, a reader whose listings may drop entries | `DbTypeOK`, `AnswerWhole`, `AcknowledgedIsListed`, `ReadsNeverGoBack`, `NeverReplaced` |
| `table_writer_half_written` | two inserts, one column, two handles | a violation of `NoHalfWrittenPart` |
| `column_file` | granules of 2 rows, blocks of 12 bytes; numeric columns of 0 to 15 rows of 1, 2, 4 or 8 bytes; string columns of 0 to 7 rows of 4 or 9 bytes; frames of 1 or 3 bytes | `ColumnTypeOK`, `EveryGranuleMarked`, `ReadsBack`, `BlocksBounded` |
| `query` | three workers, three parts of 0 to 2 granules, channel of 1, no LIMIT or LIMIT 3 | `QueryTypeOK`, `NoDuplicates`, `CompleteIfAWorkerSurvives`, `LimitNotShort`, `LimitPerWorker`, `Terminates` |
| `query_empty_parts` | two workers | a violation of `CollectsEveryBatch` |
| `aggregate` | two workers, three parts of 0 to 2 granules, eight SELECT lists with GROUP BY of no, one or two columns, no LIMIT or LIMIT 2, sums of 4 bits, both builds | `AggregateTypeOK`, `AnswerExact`, `SumExact`, `AnswerOfRealRows`, `CountsConserved`, `AggregateTerminates` |
| `group_by_not_selected` | the same | a violation of `GroupColumnPresent` |
| `where` | columns of types I64, I8, U64, F64, F32 and Bool, up to two parts of one or two rows, WHERE clauses of up to three comparisons | `WhereTypeOK`, `ZonesAreBounds`, `SkipsNothingWanted`, `WhereAnswerExact`, `WellTypedIsAnswered` |
| `accepted_literal_panics` | the same with one part | a violation of `AcceptedIsLowered` |
| `nan_rows_skipped` | one part with a NaN first or last | a violation of `SkippedRowsDoNotPass` |
| `codecs` | all blocks of up to 4 values of 2 bits, signed and unsigned, in Plain, Delta and RLE (runs of at most 2), and of up to 3 strings in Plain and Dictionary, with length fields that hold 0 to 3, cut off everywhere | `CodecsTypeOK`, `RoundTrip`, `CutOffIsPrefix` |

Bounds. Two inserts that pass validation are enough for every pairwise
interference (two ids, one id reused after a crash, two calls on one tmp
directory); two columns give one finished and one failing file. `MaxPartId`
bounds the ids handed out; 0 and 1 let an id be reused and a gap appear.
Crashes are not bounded. Three parts for three workers, with up to two granules
each, give a worker without a part, a worker with several parts, and parts that
are left when others have panicked; a channel of one batch blocks senders as
often as it can (the code's has 128 places). `MCTables` has all sizes, two
distributions of matching rows (with empty granules and granules that cross the
limit), one granule that may fail and one part that may not open. In
`column_file` a block holds between two rows and twelve, so blocks of one
granule and of several occur, blocks that end just at the limit and past it,
partial last granules, and columns whose last row fills a block, which leaves
no tail block. In `aggregate` two groups come in opposite orders in the parts,
so that the workers and the merge number them differently; one has only
negative values and one only positive, so that a stray default 0 would show in
a minimum or a maximum; and a third group is present in the tables in which
LIMIT 2 is to cut off groups. Where it is absent, the limit changes nothing.
The SELECT lists have all aggregates or none, `*`, a column that is not grouped
by, and fewer columns than are grouped by (`MCQueries`).
Sums of 4 bits (-8 to 7) overflow in the rows of one worker, in the merge only,
or on the way to a sum that fits, depending on who reads what. In `database`
each of the two inserts can be first, and the two handles can scan the directory
before and after the other's insert, which gives the same id twice. In `codecs`
two bits give every wrap of a difference, and runs of one more than the counter
holds; strings of 0, 1, 2 and 5 bytes give lengths that fit a field of four values
and one that is cut to 1, and four different strings a dictionary whose size is cut
to 0. Three entries, which do fit, are needed for a cut-off entry that could be
taken for an index into the others.
The proofs cover the code's own sizes, 512 rows and 8192 bytes.

In `where` the largest values are 2 for I8, 3 for I64 and 5 for U64, so that the
literals 0 to 4 lie inside every type, above I8, and above I64 but inside U64;
two literals lie between two integers. F32 lacks one of these and F64 has it,
the other and the number 3 are in neither (`MCInexact`), so literals are rounded
in the parser, in `narrow_literal` or not at all, onto values that the columns
have. The parts hold one value and several, in rising and falling order, bounds
that meet a literal exactly and bounds on either side of it, a NaN before and
after a number, and -0.0. Every comparison operator is tried with every numeric
column, every literal and both orders of operands; `Pairs` combines eleven
conditions of all kinds under AND and OR, and some of the combinations are
nested once more. The answer is compared with the reference where the columns of
the clause hold neither NaN nor -0.0 (`OrdinaryTable`), since for these Rust's
order and Arrow's differ; `nan_rows_skipped` is about the others. A comparison
of two literals that are not integers is not tried: its result is one value for
the whole batch and depends on Arrow. `MaxDepth` is 2: AND and OR over AND and
OR over comparisons.

Fairness. `query` and `aggregate` check liveness. They assume weak fairness of
each worker thread and of the consumer thread: the operating system schedules
runnable threads, and a blocked `send` or `recv` is woken when it can go on. No
fairness is assumed between the branches of a thread.

The five violations are disagreements between the code and its own words,
quoted in `PROJECT.json` under `findings`:

* two TableWriters on one table can publish a half-written part;
* a query whose workers all panic on parts without rows returns Ok with rows
  missing;
* a GROUP BY column that is not selected makes the merge panic;
* a WHERE clause that the analyzer accepts can panic in `narrow_literal`, which
  says that the analyzer should have rejected it: whole literals above
  `i64::MAX` on a U64 column, NULL, booleans compared with other columns, and
  strings with a Bool column;
* the bounds of a column whose first value is a NaN are the NaN, and those of a
  later NaN ignore it, so that a part is skipped although Arrow, for which a NaN
  is greater than every number, would let its rows pass.

LIMIT is applied by each worker for itself, so a query may return more rows than
its LIMIT; the program's README lists LIMIT support under "What's Next", and
`LimitPerWorker` states the bound that does hold.

## 5. Proofs

`TableWriterProofs` proves, for any sets of inserts, columns and handles and
any bound on ids:

* `TypeCorrect`: `Spec => []TypeOK`.
* With at most one TableWriter (`SingleHandle`, the discipline of `main.rs`,
  which runs one INSERT after the other): `EveryPartIsWhole`,
  `AcknowledgedIsDurable`, `RunningIdsArePrivate`, `PartsNeverChange` and
  `Implementation` (`Spec => ImplementsTable`).

The properties are not inductive alone. The inductive invariant `IInv` adds:
which directory each running insert works in and how far each of its files is,
in the directory as well as in the call (`Progress`); that the counter is above
every id that is in use or visible (`CounterAhead`), which keeps ids private
after a restart has reset it; that the durable image is a possible past of the
visible one, with the same parts where it has any and nothing but whole files
in parts (`DiskBehind`); and that a directory has at most one name (`FsInv`). A
lemma per action shows that `IInv` is preserved; `PartsNeverChange` and the
step simulation of `Implementation` follow from `IInv` in the old and the new
state. Why one handle: with two the invariant is false, which the run
`table_writer_half_written` shows.

`QueryProofs` proves, for any number of workers, parts and granules, any channel
capacity and any table:

* `TypeCorrect`, `NothingTwice` (`Spec => []NoDuplicates`) and `NothingLost`
  (`Spec => []CompleteIfAWorkerSurvives`);
* `LimitDelivered` (`Spec => []LimitNotShort`) and `LimitBound`
  (`Spec => []LimitPerWorker`): with LIMIT *n*, an answer of a query that
  returns Ok has at least *n* rows, or all there are, unless every worker
  panicked; and at most *n* for each worker.

Nothing is sent twice because everything that was sent lies behind the scans:
in a part that was handed out, and before the position of the worker that has
the part open (`Behind`, `OrderInv`). Nothing is lost because every granule of
the answer has a place (`Located`): in a part not handed out yet, ahead of an
open scan, or in a worker's hand, the channel or the consumer; only an error
makes a granule leave its place, and then the error itself is on its way
(`Failed`, `AccountInv`). When the stream ends, a worker that stopped normally
has seen the end of the list, the other places are empty, and a panicked worker
holds a part without granules (`PhaseInv`); that is `NothingLeft`.
`QueryAssumption` asks for a capacity of at least one and, of the zone map, that
a skipped part has no matching row, which is `ComparisonsSkipSoundly` of
`ZoneMapProofs` for one comparison and `SkippingIsSound` of `WhereProofs` for
whole clauses.

The LIMIT theorems count rows. `CountInv` says that the rows of all batches that
were sent and not lost (`Sent`) add up to what the workers have counted in
`emitted`, each no more than the limit; once the consumer has stopped, batches
may be lost and the sum is only an upper bound. That bound is `LimitBound`. For
the lower one there are two cases: if some worker has reached the limit, its
rows alone are enough, and none of them was lost if the outcome is Ok; if none
has, no batch was cut (`WholeInv`), `AccountInv` holds, and the argument for
`NothingLost` gives every matching row.

These are sums over sets that grow and shrink. The first part of `QueryProofs`,
which `AggregationProofs` uses too, has what is needed of `SumFunctionOnSet`: it
is a fold of the community modules over the subsets of a set, so first its
recursion is shown to be one (`SumRecursion`) and its result not to depend on
the order in which the fold takes elements (`SumStep`). From this follow sums
over disjoint sets, sums of sums, bounds, and sums modulo a number. The
library's induction theorems take an operator as a parameter and cannot be used;
the lemmas go by the least element of a *set* of counterexamples instead
(`Smallest` for subsets of a finite set, `NatInSet` for numbers), from the
theorems that say that these orders are well founded.

`AggregationProofs` proves, for any number of workers, parts and granules, any
rows, any SELECT lists and GROUP BY clauses, any LIMIT, any width of sums and
both builds:

* `ExactAnswer` (`AggregateSpec => []AnswerExact`) and `ExactSum` (`SumExact`):
  if no worker has panicked and LIMIT has cut nothing, the answer is the
  reference definition over all matching rows;
* `RealRows` (`AnswerOfRealRows`): with panics and LIMIT, no row is counted
  twice and no value is made up;
* `Conserved` (`CountsConserved`): while the query runs, every row that was read
  is counted in one place;
* `AggregateTypes` (`AggregateTypeOK`).

What an accumulator holds says nothing of where its rows came from, and what is
missing from it says nothing of where they went. The inductive invariant `AInv`
therefore gives each matching row a place: unread, a worker's accumulators, the
batch in its hand, the *i*-th batch of the channel counted from the first one
ever sent, the merged accumulators, or lost. There is such an assignment
(`place`) for which:

* `Placed`: at each place, what is there is what the rows at that place make:
  the keys are those of its rows, each once, and the entry of a group is the
  aggregate of its rows there (`AccOf`, `BatchOf`, `Entry`, `Output`), a sum
  modulo 2^w, or exactly if the build checks overflow (`Held`);
* `Accounted`: while the query runs without an error, panic or harmful LIMIT, no
  row that was read is lost;
* `Ended`: when such a query has ended Ok, every matching row is merged, and the
  columns of the batches are those of the SELECT list;
* `Control`: the types and the order of the scans and of the stages of threads,
  and that a column the batches lack is met before the query ends
  (`ColumnsMet`), since then the projection sends an error or the merge panics.

Because a row has one place, nothing is counted twice. Each action moves rows
from one place to the next: `Aggregate` from unread to the worker, `Flush` to
its hand, `send` to the channel, `MergeBatch` to the merge. There is a lemma for
each of them (`AggregatePlaces` to `MergePlaces`) that gives the new assignment.
What the code computes when rows move is separate and has no state: the lemmas
on `Probe` say what the group table is after a batch, `Routed` that each
row of a batch goes to the index of its own group, `UpdateIsJoin` and
`MergeIsJoin` that `update` and `merge` are the same operation, joining the
values of a batch to a vector, and `EntryJoin` that joining the aggregates of
disjoint sets of rows gives the aggregate of their union. That is where the
five accumulators differ: minimum and maximum with the value for no rows,
averages as pairs, sums that wrap in the workers and again in the merge.
`Conserved` then adds up the sizes of the places. `AInv` quantifies over
assignments of rows, so TLC does not evaluate it; the run `aggregate` checks the
five properties that follow from it.

`AggregationAssumption` asks for at least one worker, that `Error` and `NoBatch`
are no batches, that a granule has no more matching rows than rows, and that
each value fits the type of its sum.

`ColumnFileProofs` proves, for any sizes of granules, blocks, rows and frames:

* `TypeCorrect`, `MarksComplete` (`Spec => []EveryGranuleMarked`),
  `GranulesReadBack` (`Spec => []ReadsBack`) and `BlocksAreBounded`
  (`Spec => []BlocksBounded`).

What a reader returns depends on what was written long before, so `IInv` says
where every row is: a block is a run of consecutive rows (`BlocksInv`); mark
*k* points at the first row of granule *k* in a block that also holds the rest
of it, and the next mark of the block, or its end, is where granule *k* ends
(`MarksInv`); the block being filled starts on a granule boundary and has a
pending mark for each granule it has begun (`WriterInv`); the cached block is
the one in the file at that offset (`CacheInv`). `FlushKeepsMarks` is the core
of the argument: it turns `WriterInv` into `MarksInv` for the marks of the new
block. `GranuleCorrect` then computes the slice. The columns' assumption
(`ColumnFileAssumption`) is that rows have at least one byte, that granules and
blocks are not empty, and that a frame is not, so that no two blocks share an
offset.

`ZoneMapProofs` proves, for any columns, types, values and batches and any
number of parts:

* `SkipIsSound`: a comparison that the bounds exclude passes no value within them,
  for each of the six operators.
* `WideColumnsSkipExactly`: for an inequality between a column and a literal of the
  column's own type, which is what `narrow_literal` leaves, a part with rows is
  excluded exactly if none of them passes *and* the column is I64, U64 or F64.
  `zone_map_can_skip` compares the kind of the literal with the kind in which the
  bounds are kept, and that is one of these three for every column: a part is
  never skipped for a narrower column, nor with the literal on the left.
* `ZonesReadBack`: `read_zone_map` returns what `write_zone_map` was given.
* `TypeCorrect`, `ZoneMapsHold` (`ZoneSpec => []ZonesAreBounds`) and
  `ComparisonsSkipSoundly`: no part that a comparison excludes has a row that the
  filter would pass, for columns and literals that are neither NaN nor -0.0.

`IInv` says of each column being written that `low` and `high` bound the values
taken so far and are among them (`RunningBounds`, by `FirstBounds` and
`NextBounds`), and of each finished part that its file is one `write_zone_map`
makes of true bounds (`WholeParts`). That the right bounds come back under
each column needs that no two columns share an offset (`OffsetsDiffer`, on the
cardinality of the columns before one). The step from one comparison to whole
clauses is in `WhereProofs`.

`WhereProofs` proves, for any WHERE clauses of any depth, any columns, types,
ranges of types, values and batches, and any number of parts:

* `AnswersAreExact` (`Spec => []WhereAnswerExact`): a query that ends without an
  error returns the rows that satisfy its clause as it was written;
* `SkippingIsSound` (`SkipsNothingWanted`): no part with such a row is skipped;
* `WellTypedAnswered` (`WellTypedIsAnswered`): comparisons of columns with
  literals of their kind are rejected by the analyzer or answered;
* `WhereTypeCorrect` (`WhereTypeOK`).

The first two are about tables whose columns in the clause hold neither NaN nor
-0.0 (`OrdinaryTable`); `nan_rows_skipped` shows why.

The planner is a composition of recursive functions on expressions, so most of
the proof is induction over expressions. There are four lemmas of this kind, one
for each thing that could go wrong between the statement and the rows:

* `PlanningKeepsMeaning`: a clause that coercion and folding reduce to TRUE or
  FALSE has this value for every row, and otherwise a row passes the lowered
  predicate, if this can be evaluated, exactly if it satisfies the clause. A
  comparison keeps its meaning because the two casts of a number, in the parser and
  in `narrow_literal`, end at the value that the reference takes for it (`Meant`,
  `LoweredValue`); two integers that are compared with each other keep their
  values (`StatedIntegers`); AND and OR because of the truth table behind each
  short cut of `fold_expr` (`FoldConnective`).
* `SkipsSatisfyNothing`: a part whose zone map lets `zone_map_can_skip` exclude
  it has no row that satisfies the clause. A comparison is
  `ExcludedRowsDoNotPass` of `ZoneMap`, with the literal cast to the type of the
  column; AND needs it of one side, OR of both. A folded predicate may skip more
  than the clause says, but what was folded away had one truth value.
* `WellTypedAnswerable`: for a well-typed clause that the analyzer accepts,
  `narrow_literal` has a conversion for every literal, both sides of every
  comparison have the same type, and the scan reads the columns. This is where
  the analyzer's ranges, `LowerLiteral` and `CannotNarrow` have to agree
  (`FittingNarrows`).
* `TrueStaysTrue`: what is TRUE after lowering was TRUE before, so the physical
  `EliminateTrueFilter` removes no other filter.

`PlanIsRight` concludes that the plan has no filter, and then every row
satisfies the clause, or the predicate of the clause with a zone-map scan of the
columns it reads. The invariant `WInv` of a run is then short: the parts still
to do are *m*, ..., 1 for some *m* (`Countdown`), and the answer is what the
statement wants of the others (`AnswerSoFar`). `ZoneMapProofs`' `IInv` holds of
the parts.

What makes these inductions possible is shown once, for any set of expressions
with levels (`Grounded`): induction over it (`Induction`), and that a recursive
equation in which a node depends on its parts has a solution (`Recursion`), so
that the function that the code's recursion stands for is the one the equation
says (`LowerSqlIs`, `CoerceIs`, `FoldIs`, `PassesIs`, ...). Both take sets in
place of operators as parameters. `PlannerAssumption` and `WhereAssumption` ask
that the range of I64 lies below that of U64, that TRUE is an ordinary value, that
a number is rounded to one that the type has, and that the statements are `Stated`: at most one clause, with literals that are
neither NaN nor negative zero, as SQL's tokens are, nor rounded to these, and no
comparison of two literals that are not integers.

`TableWriterProofs` and `DatabaseProofs` also prove, with *any number of
TableWriters on the table at a time*:

* `NothingIsReplaced` and, with readers, `ListedPartsAreNotReplaced`
  (`NeverReplaced` of both specifications);
* `AcknowledgedIsRead` and `ReadsAreMonotonic` (`AcknowledgedIsListed` and
  `ReadsNeverGoBack`), and `DatabaseTypes`.

`IInv` is false there, since two inserts can work in one directory. What is left
is about names (`SharedInv`): a part never loses its name, and never the last of
its files once it has any (`PartsStay`), because `remove_dir_all` works on tmp
names only, a directory has one name (`OneName`), and `rename` refuses a target
with files. A part may be *emptied before* its rename, by another insert's
cleanup of the shared tmp directory, and an empty part may then be renamed over;
after a loss of power the emptied one may be back. That is why `NeverReplaced`
speaks of parts with files (`HasFiles`). The disk has the names and files that
were there at some earlier moment (`NamesKept`, `FilesKept`), and what was
acknowledged has its name on disk (`RenamedNamed`). With one TableWriter at a
time `DatabaseProofs` adds `AnswersAreWhole` (`AnswerWhole`): what a query has
read is what is in the parts now (`ReadsAreCurrent`), by `PartsKept`.

`CodecsProofs` proves, for values of any width, runs of any length and any
strings:

* `TypeCorrect` (`Spec => []CodecsTypeOK`): also when a length, an index or the size
  of a dictionary was cut to 32 bits, every field that is written or read holds what
  its width can;
* `BlocksRoundTrip` (`Spec => []RoundTrip`) and `CutOffsAreSeen`
  (`Spec => []CutOffIsPrefix`), for strings and dictionaries that fit.

`IInv` has a part for each loop. While a block is encoded, the fields written
so far describe the rows covered so far (`EncodeInv`; `EntriesInv` and
`IndicesInv` for the dictionary): as differences, as runs, as strings laid end
to end, or as indices into a dictionary that has every row. While it is
decoded, what was decoded is a prefix of the rows, and the position in the
stream is where the encoder stood after that row (`DecodeInv`,
`ReadEntriesInv`, `ReadIndicesInv`). The positions come from `ends`, since the
fields of RLE and of strings have no fixed number; `From` reads them. The step
that carries the Delta argument is that `WrappingAdd` undoes `WrappingSub` for
any two values modulo 2^w.

Only model-checked: liveness (`Terminates`, `AggregateTerminates`), which is out
of the prover's reach. Every safety invariant and action property of a passing
run is a theorem. The five violations are counterexamples and need no proof.

## 6. Not modelled

* INSERT values (`dml/insert_builder.rs`): a pure conversion of the literals of a
  VALUES list, which either gives a batch or returns an error before `insert()`
  is called. It has no state and no order of steps. (It takes the values in the
  order of the schema: the table name and the column list of the statement are
  not looked at.)
* Part discovery (`storage/part_discovery.rs`): nothing calls it.
* Catalog: `schema.json` is read at start and written once, when a table is
  created.
* The validator and the binder, as far as they only report a name or a shape of
  statement that is not supported; parsing and printing.
* The order of the columns of an answer; the errors of `build` for a SUM, MIN or
  MAX of a column that is no number, which are returned before a thread starts;
  LIMIT clauses that are no number.
* Rounding of sums: those of AVG, whose partial sums are f64, beyond 2^53 or of
  fractions, and the SUM of a float column. The rounding of literals is modelled.
* Listings that drop an entry (`builder.rs:44`): `Database` has them, but nothing is
  claimed of them. The code answers Ok without the part, and no document promises
  otherwise.
* In the codecs: unknown tags, strides that are no width of a type, and the
  compression of blocks.
* Benchmarks, generators and the examples.

`PROJECT.json` gives the status of each component.
