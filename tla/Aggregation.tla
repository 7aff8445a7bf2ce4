----------------------------- MODULE Aggregation -----------------------------
(***************************************************************************)
(* A SELECT with aggregates: execution/aggregation/ on top of the parallel *)
(* execution of module Query.                                              *)
(*                                                                         *)
(* Each worker runs Limit(Project(HashAggregate(Filter(Scan)))): it drains *)
(* its scan into its own accumulators and then sends them as one batch.    *)
(* MergeAggregateExec, in the consumer, merges the batches of all workers. *)
(*                                                                         *)
(* The state is columnar, as in the code: keys is group_to_index, the      *)
(* groups in the order of their indices, and each accumulator has a vector *)
(* with one entry per group.  Without a GROUP BY there are no keys and one *)
(* group.  A batch maps the names of its columns to vectors.               *)
(***************************************************************************)
EXTENDS Query, Select, SequencesExt

CONSTANTS Keys,     \* values of the GROUP BY column
          Content,  \* Content[p][g]: the rows of a granule, the matching ones first
          SumHalf,  \* 2^(w-1): sums have w bits (i64, for all signed columns)
          Queries   \* the queries to run (see QueryType)

Row == [key : Keys, val : Int]

\* checked: the program was built with overflow checks, as in the dev profile.
QueryType == {q \in [select : SUBSET Items, groupBy : SUBSET TableColumns, checked : BOOLEAN] :
                 HasAggregateNode(q)}

SumRange == -SumHalf..(SumHalf - 1)

\* What a batch of aggregates can be: its columns are vectors of values.
Value == Keys \cup Int \cup [sum : Int, count : Int]
AggregateBatch(columns) == [columns -> Seq(Value)]

ASSUME AggregationAssumption ==
    /\ Workers # {}
    /\ \A columns \in SUBSET (TableColumns \cup AggFuncs) :
          {Error, NoBatch} \cap AggregateBatch(columns) = {}
    /\ Content \in [Parts -> [Granules -> Seq(Row)]]
    /\ \A t \in Tables, p \in Parts, g \in Granules : t.rows[p][g] <= Len(Content[p][g])
    /\ SumHalf \in Nat \ {0}
    /\ \A p \in Parts, g \in Granules : \A i \in DOMAIN Content[p][g] :
          Content[p][g][i].val \in SumRange
    /\ Queries \subseteq QueryType

VARIABLES query,    \* the query: it does not change
          partial,  \* partial[w]: the groups and accumulators of worker w
          flushed,  \* flushed[w]: HashAggregateExec.emitted
          merged,   \* the groups and accumulators of MergeAggregateExec
          answer    \* the batch the query returns, or NoBatch

own == <<query, partial, flushed, merged, answer>>
all == <<vars, own>>

\* The rows that FilterExec lets through.
MatchingRows(p, g) == SubSeq(Content[p][g], 1, table.rows[p][g])

(***************************************************************************)
(* Groups.  A group is what its rows have in common: a value for each      *)
(* column of the GROUP BY.                                                 *)
(***************************************************************************)
Grouped == query.groupBy # {}
KeyOf(row) == Restrict(row, query.groupBy)

\* Mutant of Probe: the lookup in the hash table always misses.
ProbeMisses(keys, key) == Append(keys, key)

\* group_to_index: a new group gets the next index.
Probe(keys, key) == IF Contains(keys, key) THEN keys ELSE Append(keys, key)

GroupsWith(keys, batchKeys) == IF Grouped THEN FoldLeft(Probe, keys, batchKeys) ELSE keys
NumGroups(keys) == IF Grouped THEN Len(keys) ELSE 1

\* group_indices: the group of each row of a batch.
GroupIndices(keys, batchKeys) ==
    [i \in DOMAIN batchKeys |-> IF Grouped
                               THEN CHOOSE j \in DOMAIN keys : keys[j] = batchKeys[i]
                               ELSE 1]

\* The groups after a batch, num_groups, and group_indices.  (A set of one
\* element: what \E takes from a set is evaluated once.)
Probed(keys, batchKeys) ==
    {[keys |-> new, num |-> NumGroups(new), indices |-> GroupIndices(new, batchKeys)] :
        new \in {GroupsWith(keys, batchKeys)}}

RowsOf(group, indices) == {i \in DOMAIN indices : indices[i] = group}

\* The fast path of an accumulator: with a single group, group_indices is not read.
RowsOfFast(group, indices, n) == IF n = 1 THEN DOMAIN indices ELSE RowsOf(group, indices)

Resized(v, n, default) == [g \in 1..n |-> IF g \in DOMAIN v THEN v[g] ELSE default]

SumOver(rows, col) == SumFunctionOnSet(col, rows)

(***************************************************************************)
(* Accumulators: each operator is one update() or merge(), on the vector   *)
(* of the accumulator, the columns of a batch, and group_indices.          *)
(***************************************************************************)
CountUpdate(counts, indices, n) ==
    LET c == Resized(counts, n, 0)
    IN [g \in DOMAIN c |-> c[g] + Cardinality(RowsOfFast(g, indices, n))]

\* Mutant of CountMerge: it counts rows like CountUpdate.
CountMergeRows(counts, col, indices, n) == CountUpdate(counts, indices, n)

CountMerge(counts, col, indices, n) ==
    LET c == Resized(counts, n, 0)
    IN [g \in DOMAIN c |-> c[g] + SumOver(RowsOf(g, indices), col)]

\* Mutant of Wrapped: sums stop at the ends of the range (saturating_add).
Saturated(s) == IF s < -SumHalf THEN -SumHalf ELSE IF s >= SumHalf THEN SumHalf - 1 ELSE s

\* += without overflow checks.  It wraps at every row; as it is arithmetic
\* modulo 2^w, to wrap after the rows of a batch is the same.
Wrapped(s) == ((s + SumHalf) % (2 * SumHalf)) - SumHalf

SumUpdate(sums, col, indices, n) ==
    LET s == Resized(sums, n, 0)
    IN [g \in DOMAIN s |-> Wrapped(s[g] + SumOver(RowsOfFast(g, indices, n), col))]

SumMerge(sums, col, indices, n) ==
    LET s == Resized(sums, n, 0)
    IN [g \in DOMAIN s |-> Wrapped(s[g] + SumOver(RowsOf(g, indices), col))]

\* With overflow checks += panics as soon as the sum after a row, rows being
\* taken in order, is out of range.
LeavesRange(start, rows, col) ==
    \E i \in rows : start + SumOver({j \in rows : j <= i}, col) \notin SumRange

SumMergeOverflows(sums, col, indices, n) ==
    LET s == Resized(sums, n, 0)
    IN \E g \in DOMAIN s : LeavesRange(s[g], RowsOf(g, indices), col)

\* The fast path adds up the batch before it adds it to the running sum.
SumUpdateOverflows(sums, col, indices, n) ==
    LET s == Resized(sums, n, 0)
        rows == DOMAIN indices
    IN IF n = 1
       THEN LeavesRange(0, rows, col) \/ s[1] + SumOver(rows, col) \notin SumRange
       ELSE SumMergeOverflows(sums, col, indices, n)

\* running_minimums and has_value, or running_maximums and has_value.
Unset == [has |-> FALSE, val |-> 0]

\* Mutant of Lesser: has_value is not looked at, so that the 0 of an unset
\* group counts.
LesserIgnoringHas(m, new) == [has |-> TRUE, val |-> Min({m.val} \cup new)]

Lesser(m, new) == [has |-> TRUE, val |-> Min(IF m.has THEN {m.val} \cup new ELSE new)]
Greater(m, new) == [has |-> TRUE, val |-> Max(IF m.has THEN {m.val} \cup new ELSE new)]

Values(col, rows) == {col[i] : i \in rows}

\* update() and merge() are the same but for the column they read.
MinUpdate(mins, col, indices, n) ==
    LET m == Resized(mins, n, Unset)
        new(g) == Values(col, RowsOfFast(g, indices, n))
    IN [g \in DOMAIN m |-> IF new(g) = {} THEN m[g] ELSE Lesser(m[g], new(g))]

MaxUpdate(maxs, col, indices, n) ==
    LET m == Resized(maxs, n, Unset)
        new(g) == Values(col, RowsOfFast(g, indices, n))
    IN [g \in DOMAIN m |-> IF new(g) = {} THEN m[g] ELSE Greater(m[g], new(g))]

\* The columns of AVG are cast to f64 and summed in f64.  The sums are those of
\* integers here: exactly what f64 gives while a column has integers and no partial
\* sum is beyond 2^53.  Beyond that, and of fractions, a sum is rounded, and by
\* how much depends on the order of the rows and of the partial results.
AvgUpdate(avgs, col, indices, n) ==
    LET a == Resized(avgs, n, [sum |-> 0, count |-> 0])
    IN [g \in DOMAIN a |-> [sum |-> a[g].sum + SumOver(RowsOf(g, indices), col),
                            count |-> a[g].count + Cardinality(RowsOf(g, indices))]]

AvgMerge(avgs, col, indices, n) ==
    LET a == Resized(avgs, n, [sum |-> 0, count |-> 0])
        part(f) == [i \in DOMAIN col |-> col[i][f]]
    IN [g \in DOMAIN a |-> [sum |-> a[g].sum + SumOver(RowsOf(g, indices), part("sum")),
                            count |-> a[g].count + SumOver(RowsOf(g, indices), part("count"))]]

\* The accumulators of a query by the name of their columns.
Update(f, v, col, indices, n) ==
    CASE f = "count" -> CountUpdate(v, indices, n)
      [] f = "sum" -> SumUpdate(v, col, indices, n)
      [] f = "min" -> MinUpdate(v, col, indices, n)
      [] f = "max" -> MaxUpdate(v, col, indices, n)
      [] f = "avg" -> AvgUpdate(v, col, indices, n)

Merge(f, v, col, indices, n) ==
    CASE f = "count" -> CountMerge(v, col, indices, n)
      [] f = "sum" -> SumMerge(v, col, indices, n)
      [] f = "min" -> MinUpdate(v, col, indices, n)
      [] f = "max" -> MaxUpdate(v, col, indices, n)
      [] f = "avg" -> AvgMerge(v, col, indices, n)

\* build_accumulators: one for each aggregate
NoGroups == [keys |-> <<>>, of |-> [f \in Aggregates(query) |-> <<>>]]

KeysIn(rows) == [i \in DOMAIN rows |-> KeyOf(rows[i])]
Column(rows, c) == [i \in DOMAIN rows |-> rows[i][c]]

\* HashAggregateExec: one batch from the scan, with the groups of its rows.
Updated(acc, groups, rows) ==
    [keys |-> groups.keys,
     of |-> [f \in DOMAIN acc.of |->
                Update(f, acc.of[f], Column(rows, "val"), groups.indices, groups.num)]]

\* The columns of a batch have the same length.
NumRows(batch) == Len(batch[CHOOSE c \in DOMAIN batch : TRUE])
KeyAt(batch, i) == [c \in query.groupBy |-> batch[c][i]]
KeysOf(batch) == [i \in 1..NumRows(batch) |-> KeyAt(batch, i)]

\* MergeAggregateExec: the batch of one worker.
Merged(acc, groups, batch) ==
    [keys |-> groups.keys,
     of |-> [f \in DOMAIN acc.of |->
                Merge(f, acc.of[f], batch[f], groups.indices, groups.num)]]

\* The updates and merges that panic.
UpdateOverflows(acc, groups, rows) ==
    /\ query.checked /\ "sum" \in Aggregates(query)
    /\ SumUpdateOverflows(acc.of["sum"], Column(rows, "val"), groups.indices, groups.num)

MergeOverflows(acc, groups, batch) ==
    /\ query.checked /\ "sum" \in Aggregates(query)
    /\ SumMergeOverflows(acc.of["sum"], batch["sum"], groups.indices, groups.num)

\* materialize(): minima and maxima lose their has_value.
Materialized(f, v) == IF f \in {"min", "max"} THEN [g \in DOMAIN v |-> v[g].val] ELSE v

\* The output of both operators: the columns of the GROUP BY, then those of the
\* accumulators.
OutputColumns == query.groupBy \cup Aggregates(query)
OutputBatch(acc) ==
    [c \in OutputColumns |->
        IF c \in query.groupBy THEN Column(acc.keys, c) ELSE Materialized(c, acc.of[c])]

\* ensure_capacity(1) in MergeAggregateExec::new: one row even for no input.
MergeStart ==
    IF Grouped THEN NoGroups
    ELSE [NoGroups EXCEPT !.of = [f \in DOMAIN @ |->
             CASE f \in {"count", "sum"} -> <<0>>
               [] f \in {"min", "max"} -> <<Unset>>
               [] f = "avg" -> <<[sum |-> 0, count |-> 0]>>]]

\* LimitExec: slice(0, n)
FirstRows(batch, n) == [c \in DOMAIN batch |-> SubSeq(batch[c], 1, n)]

AggregateInit == /\ Init
                 /\ query \in Queries
                 /\ partial = [w \in Workers |-> NoGroups]
                 /\ flushed = [w \in Workers |-> FALSE]
                 /\ merged = MergeStart
                 /\ answer = NoBatch

(***************************************************************************)
(* A worker                                                                *)
(***************************************************************************)
\* HashAggregateExec drains its child.  An error of the child is passed on, and
\* the next call goes on with the accumulators as they are.
Drain(w) == /\ ~ flushed[w] /\ UNCHANGED own
            /\ \/ SkipPart(w) \/ OpenFails(w) \/ OpenPart(w) \/ Panic(w)
               \/ ReadFails(w) \/ BatchFails(w)

Aggregate(w) ==
    /\ pc[w] = "scan" /\ ~ LimitReached(w) /\ ~ flushed[w]
    /\ scan[w] # NoScan
    /\ scan[w].granule <= table.size[scan[w].part]
    /\ LET rows == MatchingRows(scan[w].part, scan[w].granule)
       IN IF rows = <<>>
          THEN UNCHANGED partial
          ELSE \E groups \in Probed(partial[w].keys, KeysIn(rows)) :
                 /\ ~ UpdateOverflows(partial[w], groups, rows)
                 /\ partial' = [partial EXCEPT ![w] = Updated(@, groups, rows)]
    /\ scan' = [scan EXCEPT ![w] = Advanced(scan[w])]
    /\ UNCHANGED <<table, next, pc, hand, emitted, channel, rxOpen, consumer, got, outcome>>
    /\ UNCHANGED <<query, flushed, merged, answer>>

\* "attempt to add with overflow": the worker unwinds, and what it has
\* aggregated is lost with it.
SumPanics(w) ==
    /\ pc[w] = "scan" /\ ~ LimitReached(w) /\ ~ flushed[w]
    /\ scan[w] # NoScan
    /\ scan[w].granule <= table.size[scan[w].part]
    /\ LET rows == MatchingRows(scan[w].part, scan[w].granule)
       IN \E groups \in Probed(partial[w].keys, KeysIn(rows)) :
              rows # <<>> /\ UpdateOverflows(partial[w], groups, rows)
    /\ pc' = [pc EXCEPT ![w] = "panicked"]
    /\ UNCHANGED <<data, channel, rxOpen, consumer, got, outcome, own>>

\* The child is drained: the accumulators become one batch, even if there are
\* no groups in it.
Drained(w) == /\ ~ flushed[w] /\ TakeWork(w) /\ next \notin Parts
              /\ partial' = [partial EXCEPT ![w] = NoGroups]
              /\ flushed' = [flushed EXCEPT ![w] = TRUE]
              /\ pc' = [pc EXCEPT ![w] = "send"]
              /\ UNCHANGED <<table, scan, channel, rxOpen, consumer, got, outcome, query, merged, answer>>

\* ProjectExec keeps the columns of the SELECT list, and LimitExec counts and
\* slices the rows.
Flush(w) ==
    /\ Drained(w)
    /\ Projections(query) \subseteq OutputColumns
    /\ LET batch == OutputBatch(partial[w])
           n == Clipped(w, NumRows(batch))
       IN /\ hand' = [hand EXCEPT ![w] = FirstRows(Restrict(batch, Projections(query)), n)]
          /\ emitted' = [emitted EXCEPT ![w] = @ + n]

\* index_of() does not find a column that is neither grouped by nor aggregated.
ProjectFails(w) ==
    /\ Drained(w)
    /\ ~ Projections(query) \subseteq OutputColumns
    /\ hand' = [hand EXCEPT ![w] = Error]
    /\ UNCHANGED emitted

\* Mutant of EndOfPartial: emitted is not looked at, and the accumulators, now
\* empty, are sent again.
SendAgain(w) == /\ pc[w] = "scan" /\ ~ LimitReached(w) /\ flushed[w]
                /\ hand' = [hand EXCEPT ![w] =
                                 IF Projections(query) \subseteq OutputColumns
                                 THEN Restrict(OutputBatch(partial[w]), Projections(query))
                                 ELSE Error]
                /\ pc' = [pc EXCEPT ![w] = "send"]
                /\ UNCHANGED <<table, next, scan, emitted, channel, rxOpen, consumer, got, outcome, own>>

\* The second call of HashAggregateExec::next_batch returns None.
EndOfPartial(w) == /\ pc[w] = "scan" /\ ~ LimitReached(w) /\ flushed[w]
                   /\ pc' = [pc EXCEPT ![w] = "done"]
                   /\ UNCHANGED <<data, channel, rxOpen, consumer, got, outcome, own>>

AggregateWorker(w) == \/ Drain(w) \/ Aggregate(w) \/ SumPanics(w)
                      \/ Flush(w) \/ ProjectFails(w) \/ EndOfPartial(w)
                      \/ (StopAtLimit(w) \/ Send(w) \/ SendFails(w)) /\ UNCHANGED own

(***************************************************************************)
(* The consumer                                                            *)
(***************************************************************************)
\* ProjectExec has dropped a column that MergeAggregateExec groups by.
KeyMissing == ~ query.groupBy \subseteq DOMAIN Head(channel)

MergeBatch == /\ consumer = "pulling"
              /\ channel # <<>>
              /\ Head(channel) # Error
              /\ ~ KeyMissing
              /\ \E groups \in Probed(merged.keys, KeysOf(Head(channel))) :
                    /\ ~ MergeOverflows(merged, groups, Head(channel))
                    /\ merged' = Merged(merged, groups, Head(channel))
              /\ channel' = Tail(channel)
              /\ UNCHANGED <<data, pc, rxOpen, consumer, got, outcome>>
              /\ UNCHANGED <<query, partial, flushed, answer>>

\* expect("group-by column missing from batch") unwinds the consumer, which
\* drops the plan on its way.
MergePanics == /\ consumer = "pulling"
               /\ channel # <<>>
               /\ Head(channel) # Error
               /\ KeyMissing
               /\ channel' = Tail(channel)
               /\ consumer' = "dropping"
               /\ outcome' = "panic"
               /\ UNCHANGED <<data, pc, rxOpen, got, own>>

MergeSumPanics == /\ consumer = "pulling"
                  /\ channel # <<>>
                  /\ Head(channel) # Error
                  /\ ~ KeyMissing
                  /\ \E groups \in Probed(merged.keys, KeysOf(Head(channel))) :
                        MergeOverflows(merged, groups, Head(channel))
                  /\ channel' = Tail(channel)
                  /\ consumer' = "dropping"
                  /\ outcome' = "overflow"
                  /\ UNCHANGED <<data, pc, rxOpen, got, own>>

\* All partial batches are merged: the result is handed out, and the next call
\* returns None.
Finalize == /\ RecvEnd
            /\ answer' = OutputBatch(merged)
            /\ merged' = NoGroups
            /\ UNCHANGED <<query, partial, flushed>>

AggregateConsumer == \/ MergeBatch \/ MergePanics \/ MergeSumPanics \/ Finalize
                     \/ (RecvError \/ DropReceiver \/ JoinWorkers) /\ UNCHANGED own

AggregateReturned == Returned /\ UNCHANGED own

AggregateNext == (\E w \in Workers : AggregateWorker(w)) \/ AggregateConsumer \/ AggregateReturned

AggregateSpec == AggregateInit /\ [][AggregateNext]_all

\* As in Query: every thread that can run does so at some time.
AggregateFairSpec == /\ AggregateSpec
                     /\ \A w \in Workers : WF_all(AggregateWorker(w))
                     /\ WF_all(AggregateConsumer)
-----------------------------------------------------------------------------
(***************************************************************************)
(* Properties                                                              *)
(***************************************************************************)
\* A group has one index, and every accumulator has an entry for each group.
GroupTable(acc) ==
    /\ acc.keys \in Seq([query.groupBy -> Keys \cup SumRange]) /\ IsInjective(acc.keys)
    /\ DOMAIN acc.of = Aggregates(query)
    /\ \A f \in DOMAIN acc.of : IF Grouped THEN Len(acc.of[f]) = Len(acc.keys)
                                           ELSE Len(acc.of[f]) <= 1

Columns(batch) ==
    /\ DOMAIN batch \in {Projections(query), OutputColumns}
    /\ \A c \in DOMAIN batch : Len(batch[c]) = NumRows(batch)
    /\ Grouped /\ query.groupBy \subseteq DOMAIN batch => IsInjective(KeysOf(batch))
    /\ ~ Grouped => NumRows(batch) <= 1

Partials == {hand[w] : w \in Workers} \cup InChannel

AggregateTypeOK == /\ query \in Queries
                   /\ flushed \in [Workers -> BOOLEAN]
                   /\ \A w \in Workers : GroupTable(partial[w])
                   /\ \A batch \in Partials \ {Error, NoBatch} : Columns(batch)
                   /\ GroupTable(merged)
                   /\ outcome \in {"none", "ok", "err", "panic", "overflow"}
                   /\ answer = NoBatch \/ Columns(answer)

\* A row of the table is <<part, granule, position>>.
Key(r) == KeyOf(Content[r[1]][r[2]][r[3]])
Val(r) == Content[r[1]][r[2]][r[3]].val
Positions == UNION {DOMAIN Content[p][g] : p \in Parts, g \in Granules}
Matches == {r \in Parts \X Granules \X Positions :
               r[2] <= table.size[r[1]] /\ r[3] <= table.rows[r[1]][r[2]]}
\* Without GROUP BY, all rows are in one group, and it is there without rows too.
GroupKeys == IF Grouped THEN {Key(r) : r \in Matches} ELSE {<<>>}

NoPanic == \A w \in Workers : pc[w] # "panicked"

\* LimitExec cuts off no group and stops no worker.
LimitHarmless ==
    Limit = NoLimit \/ (Limit > 0 /\ Limit >= Cardinality(GroupKeys))

\* The rows that belong to entry g of a batch.
Members(batch, g) == {r \in Matches : Key(r) = KeyAt(batch, g)}

SumOfVals(rows) == SumFunction([r \in rows |-> Val(r)])
Extreme(Choice(_), rows) == IF rows = {} THEN 0 ELSE Choice({Val(r) : r \in rows})

AggregateOver(f, rows) ==
    CASE f = "count" -> Cardinality(rows)
      [] f = "min" -> Extreme(Min, rows)
      [] f = "max" -> Extreme(Max, rows)
      [] f = "avg" -> [sum |-> SumOfVals(rows), count |-> Cardinality(rows)]

\* A successful aggregate query returns the columns of its SELECT list, every
\* group once, and for each of them the aggregates over all its rows, in whatever
\* workers, batches and order they were aggregated (aggregation/mod.rs:
\* "appropriately combine the results from different threads"); without GROUP BY
\* one row, of defaults if there is nothing to aggregate.  The merge does not look
\* at the SELECT list: that the columns agree depends on every worker sending
\* a batch through ProjectExec, even an empty one.  Provided no worker has
\* panicked and LIMIT cut nothing.
AnswerExact ==
    outcome = "ok" /\ NoPanic /\ LimitHarmless =>
        /\ DOMAIN answer = Projections(query)
        /\ ToSet(KeysOf(answer)) = GroupKeys
        /\ \A f \in Aggregates(query) \ {"sum"}, g \in 1..NumRows(answer) :
              answer[f][g] = AggregateOver(f, Members(answer, g))

\* SUM is the sum over all rows of the group modulo 2^w, although workers wrap
\* their parts of it and the merge wraps again: it does not depend on how rows
\* fall to workers and batches.  With overflow checks it is the sum itself.
SumExact ==
    outcome = "ok" /\ NoPanic /\ LimitHarmless =>
        \A g \in IF "sum" \in Aggregates(query) THEN DOMAIN answer["sum"] ELSE {} :
            LET sum == SumOfVals(Members(answer, g))
            IN answer["sum"][g] = IF query.checked THEN sum ELSE Wrapped(sum)

\* However many workers panic and whatever LIMIT cuts off, no row is counted
\* twice and no value is made up: the groups of the answer are groups of the
\* table, a group has at most its rows, and its minimum and maximum are values of
\* them.
AnswerOfRealRows ==
    outcome = "ok" =>
        /\ ToSet(KeysOf(answer)) \subseteq GroupKeys
        /\ "count" \in Aggregates(query) =>
              \A g \in 1..NumRows(answer) :
                  LET rows == Members(answer, g)
                  IN /\ answer["count"][g] <= Cardinality(rows)
                     /\ answer["count"][g] > 0 =>
                           \A f \in Aggregates(query) \cap {"min", "max"} :
                               answer[f][g] \in {Val(r) : r \in rows}

\* The rows that the scans have read so far.
ReadRows == {r \in Matches :
                /\ r[1] < next
                /\ \A w \in Workers : scan[w].part = r[1] => r[2] < scan[w].granule}

\* How many rows a batch has counted for a group.
CountOf(batch, key) ==
    SumOver({g \in 1..NumRows(batch) : KeyAt(batch, g) = key}, batch["count"])

\* While the query runs and has met no error, every row that was read is counted
\* in exactly one place: the accumulators of a worker, a batch on its way, or the
\* merged accumulators.  (Of queries that count, and whose batches have the
\* columns to tell for which group.)
CountsConserved ==
    ( /\ "count" \in Aggregates(query) /\ query.groupBy \subseteq Projections(query)
      /\ consumer = "pulling" /\ Error \notin Partials /\ NoPanic /\ LimitHarmless ) =>
        LET read == ReadRows
            sending == {w \in Workers : hand[w] # NoBatch}
        IN \A key \in GroupKeys :
            LET inPartials == [w \in Workers |-> CountOf(OutputBatch(partial[w]), key)]
                inHands == [w \in sending |-> CountOf(hand[w], key)]
                inChannel == [i \in DOMAIN channel |-> CountOf(channel[i], key)]
            IN CountOf(OutputBatch(merged), key)
               + SumFunction(inPartials) + SumFunction(inHands) + SumFunction(inChannel)
               = Cardinality({r \in read : Key(r) = key})

\* merge_aggregate.rs, of the GROUP BY column in the batch of a worker:
\* expect("group-by column missing from batch — planner bug").
GroupColumnPresent == outcome # "panic"

\* An aggregate query returns too, although its consumer has nothing to hand out
\* before all workers are done.
AggregateTerminates == <>(consumer = "returned")
==============================================================================
