----------------------------- MODULE ColumnFile -----------------------------
(***************************************************************************)
(* The files of one column of a part, <column>.bin and <column>.mrk:       *)
(* storage/column_writer.rs, column_reader.rs, string_column_writer.rs,    *)
(* string_column_reader.rs and mark.rs.                                    *)
(*                                                                         *)
(* The writer collects rows in a block, compresses a block when it is big  *)
(* enough, and appends it to the .bin file.  Every GranuleSize rows it     *)
(* starts a granule and leaves a mark: the offset of the block in the file *)
(* (not known before the block is flushed) and the position of the granule *)
(* in the block, in bytes for numeric columns and in strings for string    *)
(* columns.  The reader finds a granule by its mark, and keeps the block   *)
(* it decoded last.                                                        *)
(*                                                                         *)
(* Rows stand for their values.  What decoding a block returns is what was *)
(* encoded: the codecs and lz4 are not part of this module.  An error of   *)
(* the writer ends the whole insert, and its files are never read (module  *)
(* TableWriter), so only the reader's errors are modelled here.            *)
(***************************************************************************)
EXTENDS Integers, Sequences

CONSTANTS GranuleSize,   \* GRANULE_SIZE: rows per granule
          BlockBytes,    \* BLOCK_BUFFER_SIZE: a block of this size is flushed
          Columns,       \* the columns to write (see ColumnType)
          FrameLengths   \* bytes a compressed block with its header may take

\* sizes: the plain size of each row, T::WIDTH or 4 + the length of a string;
\* stride: what one row adds to decompressed_offset, T::WIDTH or 1.
ColumnType == [sizes : Seq(Nat \ {0}), stride : Nat \ {0}]

ASSUME ColumnFileAssumption ==
    /\ GranuleSize \in Nat \ {0}
    /\ BlockBytes \in Nat \ {0}
    /\ Columns \subseteq ColumnType
    /\ FrameLengths \subseteq Nat \ {0}

VARIABLES column,         \* the column being written: it does not change
          phase,          \* the file is being written, closed, or open for reading
          written,        \* rows taken from the batch so far
          block,          \* the rows of the block being filled
          blockBytes,     \* their plain size
          rowsInBlock,    \* rows_in_current_block, strings_in_block
          rowsInGranule,  \* rows_in_current_granule
          pending,        \* decompressed_offset of the marks of this block
          marks,          \* the marks of the blocks in the file
          bin,            \* the .bin file: the rows of the block at an offset
          binBytes,       \* its length
          cache,          \* the reader's block: at most one, as a set
          reply           \* the last granule asked for and what was returned

writer == <<written, block, blockBytes, rowsInBlock, rowsInGranule, pending>>
file == <<marks, bin, binBytes>>
vars == <<column, phase, writer, file, cache, reply>>

NumRows == Len(column.sizes)
NoReply == [granule |-> 0, rows |-> <<>>, ok |-> TRUE]

Init == /\ column \in Columns
        /\ phase = "writing"
        /\ written = 0
        /\ block = <<>>
        /\ blockBytes = 0
        /\ rowsInBlock = 0
        /\ rowsInGranule = 0
        /\ pending = <<>>
        /\ marks = <<>>
        /\ bin = <<>>
        /\ binBytes = 0
        /\ cache = {}
        /\ reply = NoReply

(***************************************************************************)
(* Writing                                                                 *)
(***************************************************************************)
\* Mutant of FlushBlock: rows_in_current_block is not set back.
FlushBlockKeepingCount(rows, offsets) ==
    \E length \in FrameLengths :
        /\ bin' = [o \in DOMAIN bin \cup {binBytes} |->
                      IF o = binBytes THEN rows ELSE bin[o]]
        /\ binBytes' = binBytes + length
        /\ marks' = marks \o [k \in 1..Len(offsets) |->
                                 [block |-> binBytes, offset |-> offsets[k]]]
        /\ pending' = <<>>
        /\ block' = <<>>
        /\ blockBytes' = 0
        /\ rowsInBlock' = Len(rows)

\* flush_block: the block goes to the end of the file, and its marks get the
\* offset at which it starts.
FlushBlock(rows, offsets) ==
    \E length \in FrameLengths :
        /\ bin' = [o \in DOMAIN bin \cup {binBytes} |->
                      IF o = binBytes THEN rows ELSE bin[o]]
        /\ binBytes' = binBytes + length
        /\ marks' = marks \o [k \in 1..Len(offsets) |->
                                 [block |-> binBytes, offset |-> offsets[k]]]
        /\ pending' = <<>>
        /\ block' = <<>>
        /\ blockBytes' = 0
        /\ rowsInBlock' = 0

\* Mutant of Marked: one mark per block.
MarkedPerBlock == IF rowsInBlock = 0
                  THEN Append(pending, rowsInBlock * column.stride)
                  ELSE pending

\* The first row of a granule leaves a mark.
Marked == IF rowsInGranule = 0
          THEN Append(pending, rowsInBlock * column.stride)
          ELSE pending

\* Mutant of NextInGranule: the counter goes on at the end of a granule.
NextInGranuleUnbounded == rowsInGranule + 1

NextInGranule == IF rowsInGranule + 1 = GranuleSize THEN 0 ELSE rowsInGranule + 1

BytesWithNext == blockBytes + column.sizes[written + 1]

\* Mutant of BlockFull: a block of just BlockBytes is not flushed yet.
BlockOverfull == rowsInGranule + 1 = GranuleSize /\ BytesWithNext > BlockBytes

\* Granules are not split: a block is flushed only after the last row of one.
BlockFull == rowsInGranule + 1 = GranuleSize /\ BytesWithNext >= BlockBytes

\* One turn of the loop over the rows.
AddRow == /\ phase = "writing"
          /\ written < NumRows
          /\ written' = written + 1
          /\ rowsInGranule' = NextInGranule
          /\ \/ /\ BlockFull
                /\ FlushBlock(Append(block, written + 1), Marked)
                /\ UNCHANGED <<column, phase, cache, reply>>
             \/ /\ ~ BlockFull
                /\ block' = Append(block, written + 1)
                /\ blockBytes' = BytesWithNext
                /\ rowsInBlock' = rowsInBlock + 1
                /\ pending' = Marked
                /\ UNCHANGED <<column, phase, file, cache, reply>>

\* The tail block, unless it is empty; then both files are synced.
Finish == /\ phase = "writing"
          /\ written = NumRows
          /\ phase' = "closed"
          /\ IF block = <<>>
             THEN UNCHANGED <<block, blockBytes, rowsInBlock, pending, file>>
             ELSE FlushBlock(block, pending)
          /\ UNCHANGED <<column, written, rowsInGranule, cache, reply>>

(***************************************************************************)
(* Reading                                                                 *)
(***************************************************************************)
\* A query opens its own reader, with an empty cache.
OpenReader == /\ phase # "writing"
              /\ phase' = "reading"
              /\ cache' = {}
              /\ UNCHANGED <<column, writer, file, reply>>

\* From the mark of the granule to the mark of the next one, or to the end of
\* the block if that is in another block.
Granule(idx, rows) ==
    LET start == marks[idx].offset
        end == IF idx < Len(marks) /\ marks[idx + 1].block = marks[idx].block
               THEN marks[idx + 1].offset
               ELSE Len(rows) * column.stride
    IN SubSeq(rows, start \div column.stride + 1, end \div column.stride)

ReadCached(idx) ==
    /\ phase = "reading"
    /\ \E b \in cache :
          /\ b.at = marks[idx].block
          /\ reply' = [granule |-> idx, rows |-> Granule(idx, b.rows), ok |-> TRUE]
    /\ UNCHANGED <<column, phase, writer, file, cache>>

Miss(idx) == \A b \in cache : b.at # marks[idx].block

\* Seek, read the frame at the offset of the block, decode it.
ReadBlock(idx) ==
    /\ phase = "reading"
    /\ Miss(idx)
    /\ marks[idx].block \in DOMAIN bin
    /\ LET rows == bin[marks[idx].block]
       IN /\ cache' = {[at |-> marks[idx].block, rows |-> rows]}
          /\ reply' = [granule |-> idx, rows |-> Granule(idx, rows), ok |-> TRUE]
    /\ UNCHANGED <<column, phase, writer, file>>

\* The cache is replaced only after everything has succeeded.
ReadFails(idx) ==
    /\ phase = "reading"
    /\ Miss(idx)
    /\ reply' = [granule |-> idx, rows |-> <<>>, ok |-> FALSE]
    /\ UNCHANGED <<column, phase, writer, file, cache>>

ReadGranule(idx) == ReadCached(idx) \/ ReadBlock(idx) \/ ReadFails(idx)

Next == \/ AddRow
        \/ Finish
        \/ OpenReader
        \/ \E idx \in 1..Len(marks) : ReadGranule(idx)

Spec == Init /\ [][Next]_vars
-----------------------------------------------------------------------------
(***************************************************************************)
(* Properties                                                              *)
(***************************************************************************)
Rows == 1..NumRows
Mark == [block : Nat, offset : Nat]
Block == [at : Nat, rows : Seq(Rows)]

ColumnTypeOK == /\ column \in Columns
                /\ phase \in {"writing", "closed", "reading"}
                /\ written \in 0..NumRows
                /\ block \in Seq(Rows)
                /\ blockBytes \in Nat
                /\ rowsInBlock \in Nat
                /\ rowsInGranule \in 0..(GranuleSize - 1)
                /\ pending \in Seq(Nat)
                /\ marks \in Seq(Mark)
                /\ DOMAIN bin \subseteq Nat
                /\ \A o \in DOMAIN bin : bin[o] \in Seq(Rows)
                /\ binBytes \in Nat
                /\ cache \subseteq Block
                /\ reply \in [granule : Nat, rows : Seq(Rows), ok : BOOLEAN]

\* The first row of granule k, counted from 0, and the number of its rows.
Before(k) == (k - 1) * GranuleSize
Length(k) == IF k * GranuleSize <= NumRows THEN GranuleSize ELSE NumRows - Before(k)

\* A closed file has a mark for every GranuleSize rows, and one for the rest
\* if there is one.  This depends on the number of rows alone: the scans open
\* one reader per column, take the number of granules from the first one and
\* read the same granule from all of them.
EveryGranuleMarked ==
    phase # "writing" => /\ Len(marks) * GranuleSize >= NumRows
                         /\ (Len(marks) - 1) * GranuleSize < NumRows

\* What read_granule returns for granule k is exactly the rows of granule k,
\* wherever its block begins and ends, whether it was cached or not, and
\* whatever failed before.
ReadsBack ==
    reply.ok /\ reply.granule # 0 =>
        reply.rows = [i \in 1..Length(reply.granule) |-> Before(reply.granule) + i]

\* The comment of rle.rs (line 9) sizes its run counter by "the most values a
\* block can hold", BLOCK_BUFFER_SIZE for the narrowest values.  But a block is
\* only measured after a granule, so in general it may be longer by one granule.
BlocksBounded ==
    \A o \in DOMAIN bin : Len(bin[o]) < BlockBytes + GranuleSize
=============================================================================
