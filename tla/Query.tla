-------------------------------- MODULE Query --------------------------------
(***************************************************************************)
(* The parallel execution of one SELECT without aggregates: execution/     *)
(* work_source.rs, full_scan.rs, zone_map_scan.rs, filter.rs, project.rs,  *)
(* limit.rs, gather.rs, and the loop of main.rs and lib.rs that pulls the  *)
(* batches.                                                                *)
(*                                                                         *)
(* build() lists the parts of the table once.  Each worker thread runs its *)
(* own copy of Limit(Project(Filter(Scan))) and pushes what it produces    *)
(* into one bounded channel.  The copies share only the work source, an    *)
(* atomic index into the list of parts.  The consumer takes batches from   *)
(* the channel until it gets an error or all senders are gone, and then    *)
(* drops the plan: the receiver first, then it joins the workers.          *)
(*                                                                         *)
(* A batch is the granule it was read from and the number of its rows that *)
(* are left after the filter and the limit.                                *)
(***************************************************************************)
EXTENDS Integers, Sequences, FiniteSets, Functions

CONSTANTS Workers,      \* the threads spawned by GatherExec::new (N_WORKERS)
          NumParts,     \* bound: parts in the table
          MaxGranules,  \* bound: granules in a part
          Tables,       \* the queries to run, with their tables (see TableType)
          Capacity,     \* of the channel between workers and consumer
          NoLimit,      \* "the query has no LIMIT clause"
          Error,        \* an ExecutionError, as it travels through the channel
          NoBatch       \* "the worker has nothing to send"

Parts == 1..NumParts       \* positions in the list of parts
Granules == 1..MaxGranules

\* The query and what it will find on disk.  limit: its LIMIT, if any; size:
\* granules per part; rows: rows of each granule that match the WHERE clause;
\* unreadable: granules that may give an error, when they are read or when their
\* batch is built, filtered or projected; unopenable: parts whose files may fail
\* to open; skipped: parts that the zone map excludes (and then none of their
\* rows match).
TableType == [limit : Nat \cup {NoLimit},
              size : [Parts -> {0} \cup Granules],
              rows : [Parts -> [Granules -> Nat]],
              unreadable : SUBSET (Parts \X Granules),
              unopenable : SUBSET Parts,
              skipped : SUBSET Parts]

\* The granules of a part that have matching rows.
Matching(t, p) == {g \in Granules : g <= t.size[p] /\ t.rows[p][g] > 0}

\* What travels through the channel: the granule a batch was read from and how
\* many of its rows are in it.
Batch == [part : Parts, granule : Granules, rows : Nat]

ASSUME QueryAssumption ==
    /\ IsFiniteSet(Workers)
    /\ NumParts \in Nat
    /\ MaxGranules \in Nat \ {0}
    /\ NoLimit \notin Nat
    /\ Capacity \in Nat \ {0}
    /\ Error \notin Batch \cup {NoBatch} /\ NoBatch \notin Batch
    /\ Tables \subseteq TableType
    /\ \A t \in Tables : \A p \in t.skipped : Matching(t, p) = {}

VARIABLES table,     \* the query and its table: they do not change
          next,      \* PartWorkSource.next: index of the next part to hand out
          pc,        \* pc[w]: what worker w is doing
          scan,      \* scan[w]: the open part and granule_idx, or NoScan
          hand,      \* hand[w]: the result the worker is about to send
          emitted,   \* LimitExec.emitted of worker w
          channel,   \* results in the bounded channel
          rxOpen,    \* the receiver has not been dropped
          consumer,  \* what the caller of next_batch is doing
          got,       \* the batches it has been given
          outcome    \* what it will return

vars == <<table, next, pc, scan, hand, emitted, channel, rxOpen, consumer, got, outcome>>
data == <<table, next, scan, hand, emitted>>

NoScan == [part |-> 0, granule |-> 0]

Limit == table.limit

Stopped(w) == pc[w] \in {"done", "panicked"}
LimitReached(w) == Limit # NoLimit /\ emitted[w] >= Limit

Init == /\ table \in Tables
        /\ next = 1
        /\ pc = [w \in Workers |-> "scan"]
        /\ scan = [w \in Workers |-> NoScan]
        /\ hand = [w \in Workers |-> NoBatch]
        /\ emitted = [w \in Workers |-> 0]
        /\ channel = <<>>
        /\ rxOpen = TRUE
        /\ consumer = "pulling"
        /\ got = {}
        /\ outcome = "none"

(***************************************************************************)
(* A worker thread: loop { match child.next_batch() .. tx.send(..) }       *)
(***************************************************************************)
\* LimitExec::next_batch returns None without asking its child.
StopAtLimit(w) == /\ pc[w] = "scan"
                  /\ LimitReached(w)
                  /\ pc' = [pc EXCEPT ![w] = "done"]
                  /\ UNCHANGED <<data, channel, rxOpen, consumer, got, outcome>>

\* Mutant of TakeWork: a load and a store instead of fetch_add, so that an
\* increment can be lost.
TakeWorkNotAtomic(w) == /\ pc[w] = "scan" /\ ~ LimitReached(w)
                        /\ scan[w] = NoScan
                        /\ next' \in {next, next + 1}

\* next_work(): fetch_add on the shared index, then a lookup that may miss.
TakeWork(w) == /\ pc[w] = "scan" /\ ~ LimitReached(w)
               /\ scan[w] = NoScan
               /\ next' = next + 1

NoMoreWork(w) == /\ TakeWork(w)
                 /\ next \notin Parts
                 /\ pc' = [pc EXCEPT ![w] = "done"]
                 /\ UNCHANGED <<table, scan, hand, emitted, channel, rxOpen, consumer, got, outcome>>

\* ZoneMapScanExec goes on with the next part.
SkipPart(w) == /\ TakeWork(w)
               /\ next \in table.skipped
               /\ UNCHANGED <<table, pc, scan, hand, emitted, channel, rxOpen, consumer, got, outcome>>

\* Mutant of OpenFails: the scan goes on with the next part, as it does after a
\* zone map that cannot be read.
OpenFailsSilently(w) == /\ TakeWork(w)
                        /\ next \in table.unopenable \ table.skipped
                        /\ UNCHANGED <<table, pc, scan, hand, emitted, channel, rxOpen, consumer, got, outcome>>

\* The error is returned and the part is forgotten: the next call of
\* next_batch takes another one.
OpenFails(w) == /\ TakeWork(w)
                /\ next \in table.unopenable \ table.skipped
                /\ hand' = [hand EXCEPT ![w] = Error]
                /\ pc' = [pc EXCEPT ![w] = "send"]
                /\ UNCHANGED <<table, scan, emitted, channel, rxOpen, consumer, got, outcome>>

OpenPart(w) == /\ TakeWork(w)
               /\ next \in Parts \ table.skipped
               /\ scan' = [scan EXCEPT ![w] = [part |-> next, granule |-> 1]]
               /\ UNCHANGED <<table, pc, hand, emitted, channel, rxOpen, consumer, got, outcome>>

\* A part without rows has no marks, and marks[0] panics: the thread unwinds
\* and drops its sender.
Panic(w) == /\ pc[w] = "scan" /\ ~ LimitReached(w)
            /\ scan[w] # NoScan
            /\ table.size[scan[w].part] = 0
            /\ pc' = [pc EXCEPT ![w] = "panicked"]
            /\ UNCHANGED <<data, channel, rxOpen, consumer, got, outcome>>

\* A column that cannot be read: the error is returned before granule_idx is
\* advanced, and the next call reads the same granule again.
ReadFails(w) == /\ pc[w] = "scan" /\ ~ LimitReached(w)
                /\ scan[w] # NoScan
                /\ <<scan[w].part, scan[w].granule>> \in table.unreadable
                /\ scan[w].granule <= table.size[scan[w].part]
                /\ hand' = [hand EXCEPT ![w] = Error]
                /\ pc' = [pc EXCEPT ![w] = "send"]
                /\ UNCHANGED <<table, next, scan, emitted, channel, rxOpen, consumer, got, outcome>>

\* granule_idx advances, and after the last granule the readers are closed.
Advanced(s) == IF s.granule >= table.size[s.part]
               THEN NoScan
               ELSE [s EXCEPT !.granule = @ + 1]

\* The columns are read and granule_idx is advanced, and then the batch cannot
\* be built (RecordBatch::try_new), filtered or projected: the error is returned
\* and the next call goes on behind the granule.
BatchFails(w) ==
    /\ pc[w] = "scan" /\ ~ LimitReached(w)
    /\ scan[w] # NoScan
    /\ <<scan[w].part, scan[w].granule>> \in table.unreadable
    /\ scan[w].granule <= table.size[scan[w].part]
    /\ scan' = [scan EXCEPT ![w] = Advanced(scan[w])]
    /\ hand' = [hand EXCEPT ![w] = Error]
    /\ pc' = [pc EXCEPT ![w] = "send"]
    /\ UNCHANGED <<table, next, emitted, channel, rxOpen, consumer, got, outcome>>

\* Mutants of Clipped: a batch that crosses the limit is dropped, or is let
\* through whole.
ClippedToNothing(w, rows) ==
    IF Limit = NoLimit \/ rows <= Limit - emitted[w] THEN rows ELSE 0

NotClipped(w, rows) == rows

\* LimitExec lets a whole batch through or slices it to what is left.
Clipped(w, rows) == IF Limit = NoLimit \/ rows <= Limit - emitted[w]
                    THEN rows
                    ELSE Limit - emitted[w]

\* One granule through Scan, Filter, Project and Limit without an error: a batch
\* without matching rows is dropped and the loop in FilterExec pulls the next one.
ReadGranule(w) ==
    /\ pc[w] = "scan" /\ ~ LimitReached(w)
    /\ scan[w] # NoScan
    /\ scan[w].granule <= table.size[scan[w].part]
    /\ scan' = [scan EXCEPT ![w] = Advanced(scan[w])]
    /\ LET p == scan[w].part
           g == scan[w].granule
           n == Clipped(w, table.rows[p][g])
       IN IF n = 0
          THEN UNCHANGED <<pc, hand, emitted>>
          ELSE /\ hand' = [hand EXCEPT ![w] = [part |-> p, granule |-> g, rows |-> n]]
               /\ emitted' = [emitted EXCEPT ![w] = @ + n]
               /\ pc' = [pc EXCEPT ![w] = "send"]
    /\ UNCHANGED <<table, next, channel, rxOpen, consumer, got, outcome>>

\* Mutant of Send: an unbounded channel.
SendUnbounded(w) == /\ pc[w] = "send"
                    /\ rxOpen
                    /\ channel' = Append(channel, hand[w])
                    /\ hand' = [hand EXCEPT ![w] = NoBatch]
                    /\ pc' = [pc EXCEPT ![w] = "scan"]
                    /\ UNCHANGED <<table, next, scan, emitted, rxOpen, consumer, got, outcome>>

\* send() blocks while the channel is full and the receiver lives.
Send(w) == /\ pc[w] = "send"
           /\ rxOpen
           /\ Len(channel) < Capacity
           /\ channel' = Append(channel, hand[w])
           /\ hand' = [hand EXCEPT ![w] = NoBatch]
           /\ pc' = [pc EXCEPT ![w] = "scan"]
           /\ UNCHANGED <<table, next, scan, emitted, rxOpen, consumer, got, outcome>>

SendFails(w) == /\ pc[w] = "send"
                /\ ~ rxOpen
                /\ pc' = [pc EXCEPT ![w] = "done"]
                /\ UNCHANGED <<data, channel, rxOpen, consumer, got, outcome>>

Worker(w) == \/ StopAtLimit(w)
             \/ NoMoreWork(w) \/ SkipPart(w) \/ OpenFails(w) \/ OpenPart(w)
             \/ Panic(w) \/ ReadFails(w) \/ BatchFails(w) \/ ReadGranule(w)
             \/ Send(w) \/ SendFails(w)

(***************************************************************************)
(* The consumer: loop { match plan.next_batch() .. }, then drop(plan)      *)
(***************************************************************************)
RecvBatch == /\ consumer = "pulling"
             /\ channel # <<>>
             /\ Head(channel) # Error
             /\ got' = got \cup {Head(channel)}
             /\ channel' = Tail(channel)
             /\ UNCHANGED <<data, pc, rxOpen, consumer, outcome>>

RecvError == /\ consumer = "pulling"
             /\ channel # <<>>
             /\ Head(channel) = Error
             /\ channel' = Tail(channel)
             /\ consumer' = "dropping"
             /\ outcome' = "err"
             /\ UNCHANGED <<data, pc, rxOpen, got>>

\* recv() fails once the channel is empty and every sender is gone.
RecvEnd == /\ consumer = "pulling"
           /\ channel = <<>>
           /\ \A w \in Workers : Stopped(w)
           /\ consumer' = "dropping"
           /\ outcome' = "ok"
           /\ UNCHANGED <<data, pc, channel, rxOpen, got>>

\* Mutant of DropReceiver: without drop(self.rx.take()) the receiver lives until
\* the fields of GatherExec are dropped, after the joins.
KeepReceiver == /\ consumer = "dropping"
                /\ consumer' = "joining"
                /\ UNCHANGED <<data, pc, channel, rxOpen, got, outcome>>

\* Drop for GatherExec: the receiver goes first, with what is in the channel,
\* so that no worker stays blocked in send() while it is joined.
DropReceiver == /\ consumer = "dropping"
                /\ rxOpen' = FALSE
                /\ channel' = <<>>
                /\ consumer' = "joining"
                /\ UNCHANGED <<data, pc, got, outcome>>

JoinWorkers == /\ consumer = "joining"
               /\ \A w \in Workers : Stopped(w)
               /\ consumer' = "returned"
               /\ UNCHANGED <<data, pc, channel, rxOpen, got, outcome>>

Consumer == RecvBatch \/ RecvError \/ RecvEnd \/ DropReceiver \/ JoinWorkers

\* The query is over.
Returned == consumer = "returned" /\ UNCHANGED vars

Next == (\E w \in Workers : Worker(w)) \/ Consumer \/ Returned

Spec == Init /\ [][Next]_vars

\* The operating system runs every thread that can run, and a channel wakes
\* the threads that wait for it.
FairSpec == /\ Spec
            /\ \A w \in Workers : WF_vars(Worker(w))
            /\ WF_vars(Consumer)
-----------------------------------------------------------------------------
(***************************************************************************)
(* Properties                                                              *)
(***************************************************************************)
Result == Batch \cup {Error}
Scans == {NoScan} \cup [part : Parts, granule : Granules]

QueryTypeOK == /\ table \in Tables
               /\ next \in Nat
               /\ pc \in [Workers -> {"scan", "send", "done", "panicked"}]
               /\ scan \in [Workers -> Scans]
               /\ hand \in [Workers -> Result \cup {NoBatch}]
               /\ emitted \in [Workers -> Nat]
               /\ channel \in Seq(Result) /\ Len(channel) <= Capacity
               /\ rxOpen \in BOOLEAN
               /\ consumer \in {"pulling", "dropping", "joining", "returned"}
               /\ got \subseteq Batch
               /\ outcome \in {"none", "ok", "err"}

\* Everything the query should deliver when it has no LIMIT.
Whole(p, g) == [part |-> p, granule |-> g, rows |-> table.rows[p][g]]
Answer == UNION {{Whole(p, g) : g \in Matching(table, p)} : p \in Parts}

InHand == {hand[w] : w \in {v \in Workers : pc[v] = "send"}}
InChannel == {channel[i] : i \in DOMAIN channel}
Granule(b) == <<b.part, b.granule>>

\* No granule is delivered twice: two workers never read the same part,
\* and what a worker has handed over is not read again.
NoDuplicates ==
    /\ \A v, w \in Workers : v # w /\ scan[v] # NoScan /\ scan[w] # NoScan =>
          scan[v].part # scan[w].part
    /\ \A b \in (InHand \cup InChannel) \ {Error} :
          Granule(b) \notin {Granule(c) : c \in got}
    /\ \A i, j \in DOMAIN channel : i # j /\ channel[i] # Error /\ channel[j] # Error =>
          Granule(channel[i]) # Granule(channel[j])

\* A query that reports success has delivered every matching row of every part
\* exactly as it is on disk, unless all its workers have panicked: a worker that
\* met an error cannot end without the error being reported, and the parts a
\* panicked worker leaves are taken by the others.
CompleteIfAWorkerSurvives ==
    ( /\ outcome = "ok" /\ Limit = NoLimit
      /\ \E w \in Workers : pc[w] # "panicked" ) => got = Answer

\* lib.rs: "Plan and execute a SELECT statement, collecting every output
\* batch."  A query that reports success has delivered them all.
CollectsEveryBatch == outcome = "ok" /\ Limit = NoLimit => got = Answer

Total(batches) == SumFunction([b \in batches |-> b.rows])

\* A successful query with a LIMIT never delivers fewer rows than the limit
\* while there are more, although each worker stops on its own count.
LimitNotShort ==
    ( /\ outcome = "ok" /\ Limit # NoLimit
      /\ \E w \in Workers : pc[w] # "panicked" ) =>
        \/ Total(got) >= Limit
        \/ got = Answer

\* What the code does guarantee of the size of the answer: the limit holds for
\* each worker, so a query returns at most Limit rows per worker thread.
LimitPerWorker ==
    Limit # NoLimit => Total(got) <= Cardinality(Workers) * Limit

\* Every query returns: nothing waits for ever on a full channel, an empty
\* channel or a thread, not even after an error or a panic.
Terminates == <>(consumer = "returned")
==============================================================================
