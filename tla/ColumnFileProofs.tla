-------------------------- MODULE ColumnFileProofs --------------------------
(***************************************************************************)
(* Proofs about ColumnFile for any granule size, block size and column.    *)
(***************************************************************************)
EXTENDS ColumnFile, SequenceTheorems, TLAPS

-----------------------------------------------------------------------------
(***************************************************************************)
(* The inductive invariant                                                 *)
(***************************************************************************)
\* The number of the rows that come before the block at offset o.
Base(o) == bin[o][1] - 1

\* A block is a run of consecutive rows, and the next one goes behind it.
BlocksInv ==
    \A o \in DOMAIN bin :
        /\ o < binBytes
        /\ 1 <= Len(bin[o])
        /\ \A i \in 1..Len(bin[o]) : bin[o][i] = Base(o) + i

\* Mark k points at the first row of granule k, and granule k ends where the
\* next mark of the same block begins, or with the block.
MarkInv(k) ==
    LET o == marks[k].block IN
    /\ o \in DOMAIN bin
    /\ Base(o) <= Before(k)
    /\ Before(k) < Base(o) + Len(bin[o])
    /\ marks[k].offset = (Before(k) - Base(o)) * column.stride
    /\ \/ k < Len(marks) /\ marks[k + 1].block = o
       \/ Base(o) + Len(bin[o]) = Before(k) + Length(k)

MarksInv == \A k \in 1..Len(marks) : MarkInv(k)

\* The block being filled starts where a granule starts, and has a pending
\* mark for each of its granules.
Granules == Len(marks) + Len(pending)

WriterInv ==
    /\ phase = "writing" =>
          /\ written = Len(marks) * GranuleSize + Len(block)
          /\ rowsInGranule = 0 => written = Granules * GranuleSize
          /\ rowsInGranule # 0 =>
                written = (Granules - 1) * GranuleSize + rowsInGranule
          /\ cache = {}
          /\ reply = NoReply
    /\ \A i \in 1..Len(block) : block[i] = (written - Len(block)) + i
    /\ rowsInBlock = Len(block)
    /\ \A k \in 1..Len(pending) : pending[k] = Before(k) * column.stride
    /\ Len(block) <= blockBytes
    /\ Len(block) < BlockBytes + rowsInGranule

CacheInv == \A b \in cache : b.at \in DOMAIN bin /\ b.rows = bin[b.at]

IInv == /\ ColumnTypeOK
        /\ BlocksInv
        /\ MarksInv
        /\ WriterInv
        /\ CacheInv
        /\ EveryGranuleMarked
        /\ ReadsBack
        /\ BlocksBounded

-----------------------------------------------------------------------------
(***************************************************************************)
(* Arithmetic                                                              *)
(***************************************************************************)
LEMMA DivStride ==
    ASSUME NEW n \in Nat, NEW s \in Nat \ {0}
    PROVE  /\ n * s \in Nat
           /\ (n * s) \div s = n
BY SMT

LEMMA TimesGranule ==
    ASSUME NEW k \in Int, NEW j \in Int
    PROVE  /\ k * GranuleSize \in Int
           /\ (k + j) * GranuleSize = k * GranuleSize + j * GranuleSize
           /\ k >= 0 => k * GranuleSize >= 0
           /\ k >= 1 => k * GranuleSize >= GranuleSize
           /\ k < j => k * GranuleSize + GranuleSize <= j * GranuleSize
BY ColumnFileAssumption, SMT

LEMMA BeforeNext ==
    ASSUME NEW k \in Int
    PROVE  /\ Before(k) \in Int
           /\ Before(k + 1) = Before(k) + GranuleSize
           /\ Before(k + 1) = k * GranuleSize
           /\ k >= 1 => Before(k) >= 0
BY ColumnFileAssumption, TimesGranule, SMT DEF Before

-----------------------------------------------------------------------------
(***************************************************************************)
(* The type invariant                                                      *)
(***************************************************************************)
LEMMA ColumnFacts ==
    ASSUME ColumnTypeOK
    PROVE  /\ column.stride \in Nat \ {0}
           /\ NumRows \in Nat
           /\ \A r \in Rows : column.sizes[r] \in Nat \ {0}
<1>1. column \in ColumnType
    BY ColumnFileAssumption DEF ColumnTypeOK
<1>2. column.sizes \in Seq(Nat \ {0}) /\ column.stride \in Nat \ {0}
    BY <1>1 DEF ColumnType
<1> QED
    BY <1>2, LenProperties, SMT DEF NumRows, Rows

LEMMA FlushType ==
    ASSUME ColumnTypeOK,
           NEW rows \in Seq(Rows), NEW offsets \in Seq(Nat),
           FlushBlock(rows, offsets)
    PROVE  /\ block' = <<>> /\ block' \in Seq(Rows)
           /\ blockBytes' = 0
           /\ rowsInBlock' = 0
           /\ pending' = <<>> /\ pending' \in Seq(Nat)
           /\ marks' \in Seq(Mark)
           /\ Len(marks') = Len(marks) + Len(offsets)
           /\ \A k \in 1..Len(marks) : marks'[k] = marks[k]
           /\ \A k \in 1..Len(offsets) :
                 marks'[Len(marks) + k] = [block |-> binBytes, offset |-> offsets[k]]
           /\ DOMAIN bin' = DOMAIN bin \cup {binBytes}
           /\ bin'[binBytes] = rows
           /\ \A o \in DOMAIN bin : o # binBytes => bin'[o] = bin[o]
           /\ binBytes' \in Nat
           /\ binBytes' > binBytes
<1>1. PICK length \in FrameLengths :
        /\ bin' = [o \in DOMAIN bin \cup {binBytes} |->
                      IF o = binBytes THEN rows ELSE bin[o]]
        /\ binBytes' = binBytes + length
        /\ marks' = marks \o [k \in 1..Len(offsets) |->
                                 [block |-> binBytes, offset |-> offsets[k]]]
        /\ pending' = <<>>
        /\ block' = <<>>
        /\ blockBytes' = 0
        /\ rowsInBlock' = 0
    BY DEF FlushBlock
<1>2. length \in Nat \ {0}
    BY ColumnFileAssumption
<1> DEFINE new == [k \in 1..Len(offsets) |-> [block |-> binBytes, offset |-> offsets[k]]]
<1>3. Len(offsets) \in Nat /\ \A k \in 1..Len(offsets) : offsets[k] \in Nat
    BY LenProperties
<1>4. \A k \in 1..Len(offsets) : [block |-> binBytes, offset |-> offsets[k]] \in Mark
    BY <1>3 DEF ColumnTypeOK, Mark
<1>5. new \in Seq(Mark) /\ Len(new) = Len(offsets)
    BY <1>3, <1>4, SMT
<1>6. marks \in Seq(Mark) /\ Len(marks) \in Nat
    BY LenProperties DEF ColumnTypeOK
<1>7. marks' = marks \o new
    BY <1>1
<1> HIDE DEF new
<1>8. /\ marks' \in Seq(Mark)
      /\ Len(marks') = Len(marks) + Len(new)
      /\ \A i \in 1..(Len(marks) + Len(new)) :
            marks'[i] = IF i <= Len(marks) THEN marks[i] ELSE new[i - Len(marks)]
    BY <1>5, <1>6, <1>7, ConcatProperties
<1>9. \A k \in 1..Len(marks) : marks'[k] = marks[k]
    BY <1>3, <1>5, <1>6, <1>8, SMT
<1>10. ASSUME NEW k \in 1..Len(offsets)
       PROVE  marks'[Len(marks) + k] = new[k]
    <2>1. /\ Len(marks) + k \in 1..(Len(marks) + Len(new))
          /\ ~ (Len(marks) + k <= Len(marks))
          /\ (Len(marks) + k) - Len(marks) = k
        BY <1>3, <1>5, <1>6, SMT
    <2> QED
        BY <1>8, <2>1
<1>11. \A k \in 1..Len(offsets) : new[k] = [block |-> binBytes, offset |-> offsets[k]]
    BY DEF new
<1>12. binBytes' \in Nat /\ binBytes' > binBytes
    BY <1>1, <1>2, SMT DEF ColumnTypeOK
<1>13. /\ DOMAIN bin' = DOMAIN bin \cup {binBytes}
       /\ bin'[binBytes] = rows
       /\ \A o \in DOMAIN bin : o # binBytes => bin'[o] = bin[o]
    BY <1>1
<1>14. /\ block' = <<>> /\ blockBytes' = 0 /\ rowsInBlock' = 0 /\ pending' = <<>>
       /\ <<>> \in Seq(Rows) /\ <<>> \in Seq(Nat)
    BY <1>1, EmptySeq
<1> QED
    BY <1>5, <1>8, <1>9, <1>10, <1>11, <1>12, <1>13, <1>14

\* What AddRow puts into the block and leaves as a mark, in either case.
LEMMA AddedType ==
    ASSUME ColumnTypeOK, written < NumRows
    PROVE  /\ Append(block, written + 1) \in Seq(Rows)
           /\ Len(Append(block, written + 1)) = Len(block) + 1
           /\ \A i \in 1..Len(block) : Append(block, written + 1)[i] = block[i]
           /\ Append(block, written + 1)[Len(block) + 1] = written + 1
           /\ Marked \in Seq(Nat)
           /\ BytesWithNext \in Nat
           /\ BytesWithNext > blockBytes
           /\ NextInGranule \in 0..(GranuleSize - 1)
           /\ written + 1 \in Rows
<1>1. written + 1 \in Rows
    BY ColumnFacts, SMT DEF ColumnTypeOK, Rows
<1>2. block \in Seq(Rows) /\ pending \in Seq(Nat)
    BY DEF ColumnTypeOK
<1>3. /\ Append(block, written + 1) \in Seq(Rows)
      /\ Len(Append(block, written + 1)) = Len(block) + 1
      /\ \A i \in 1..Len(block) : Append(block, written + 1)[i] = block[i]
      /\ Append(block, written + 1)[Len(block) + 1] = written + 1
    BY <1>1, <1>2, AppendProperties
<1>4. rowsInBlock * column.stride \in Nat
    BY ColumnFacts, DivStride DEF ColumnTypeOK
<1>5. Marked \in Seq(Nat)
    BY <1>2, <1>4, AppendProperties DEF Marked
<1>6. column.sizes[written + 1] \in Nat \ {0}
    BY <1>1, ColumnFacts
<1>7. BytesWithNext \in Nat /\ BytesWithNext > blockBytes
    BY <1>6, SMT DEF BytesWithNext, ColumnTypeOK
<1>8. NextInGranule \in 0..(GranuleSize - 1)
    BY ColumnFileAssumption, SMT DEF NextInGranule, ColumnTypeOK
<1> QED
    BY <1>1, <1>3, <1>5, <1>7, <1>8

LEMMA InitInv == Init => IInv
<1> SUFFICES ASSUME Init PROVE IInv
    OBVIOUS
<1> USE DEF Init
<1>1. column \in ColumnType
    BY ColumnFileAssumption
<1>2. Len(column.sizes) \in Nat
    BY <1>1, LenProperties DEF ColumnType
<1>3. \A S : <<>> \in Seq(S)
    BY EmptySeq
<1>4. Len(<<>>) = 0 /\ DOMAIN <<>> = {}
    BY SMT
<1>5. ColumnTypeOK
    BY <1>2, <1>3, <1>4, ColumnFileAssumption, SMT
    DEF ColumnTypeOK, NumRows, Rows, Mark, Block, NoReply
<1>6. BlocksInv /\ MarksInv /\ CacheInv /\ EveryGranuleMarked /\ BlocksBounded
    BY <1>4, SMT DEF BlocksInv, MarksInv, CacheInv, EveryGranuleMarked, BlocksBounded
<1>7. ReadsBack
    BY DEF ReadsBack, NoReply
<1>8. WriterInv
    BY <1>4, ColumnFileAssumption, SMT DEF WriterInv, Granules
<1> QED
    BY <1>5, <1>6, <1>7, <1>8 DEF IInv

-----------------------------------------------------------------------------
(***************************************************************************)
(* Flushing a block keeps the marks right                                  *)
(***************************************************************************)
LEMMA FlushKeepsMarks ==
    ASSUME ColumnTypeOK, BlocksInv, MarksInv, column' = column,
           NEW rows \in Seq(Rows), NEW offsets \in Seq(Nat),
           FlushBlock(rows, offsets),
           1 <= Len(rows), 1 <= Len(offsets),
           \A i \in 1..Len(rows) : rows[i] = Len(marks) * GranuleSize + i,
           \A k \in 1..Len(offsets) : offsets[k] = Before(k) * column.stride,
           Before(Len(offsets)) < Len(rows),
           Len(rows) <= Len(offsets) * GranuleSize,
           Len(marks) * GranuleSize + Len(rows) <= NumRows,
           \/ Len(rows) = Len(offsets) * GranuleSize
           \/ Len(marks) * GranuleSize + Len(rows) = NumRows
    PROVE  BlocksInv' /\ MarksInv'
<1> DEFINE at == Len(marks) * GranuleSize
           m == Len(marks)
           p == Len(offsets)
<1>1. m \in Nat /\ p \in Nat /\ Len(rows) \in Nat /\ binBytes \in Nat /\ at \in Nat
    BY LenProperties, TimesGranule, SMT DEF ColumnTypeOK
<1>2. /\ Len(marks') = m + p
      /\ \A k \in 1..m : marks'[k] = marks[k]
      /\ \A k \in 1..p : marks'[m + k] = [block |-> binBytes, offset |-> offsets[k]]
      /\ DOMAIN bin' = DOMAIN bin \cup {binBytes}
      /\ bin'[binBytes] = rows
      /\ \A o \in DOMAIN bin : o # binBytes => bin'[o] = bin[o]
      /\ binBytes' \in Nat /\ binBytes' > binBytes
    BY FlushType
<1>given. /\ m = Len(marks) /\ at = m * GranuleSize
          /\ 1 <= Len(rows) /\ 1 <= p
          /\ \A i \in 1..Len(rows) : rows[i] = at + i
          /\ \A k \in 1..p : offsets[k] = Before(k) * column.stride
          /\ Before(p) < Len(rows)
          /\ Len(rows) <= p * GranuleSize
          /\ at + Len(rows) <= NumRows
          /\ Len(rows) = p * GranuleSize \/ at + Len(rows) = NumRows
    OBVIOUS
<1> HIDE DEF at, m, p
<1>3. \A o \in DOMAIN bin : o \in Nat /\ o # binBytes /\ bin'[o] = bin[o]
    <2>1. \A o \in DOMAIN bin : o \in Nat /\ o < binBytes
        BY DEF ColumnTypeOK, BlocksInv
    <2> QED
        BY <2>1, <1>1, <1>2, SMT
<1>4. bin'[binBytes][1] - 1 = at
    BY <1>1, <1>2, <1>given, SMT
<1>5. BlocksInv'
    <2> SUFFICES ASSUME NEW o \in DOMAIN bin'
                 PROVE  /\ o < binBytes'
                        /\ 1 <= Len(bin'[o])
                        /\ \A i \in 1..Len(bin'[o]) : bin'[o][i] = (bin'[o][1] - 1) + i
        BY DEF BlocksInv, Base
    <2>1. CASE o = binBytes
        BY <2>1, <1>1, <1>2, <1>4, <1>given
    <2>2. CASE o \in DOMAIN bin
        <3>1. /\ o < binBytes
              /\ 1 <= Len(bin[o])
              /\ \A i \in 1..Len(bin[o]) : bin[o][i] = (bin[o][1] - 1) + i
            BY <2>2 DEF BlocksInv, Base
        <3>2. o < binBytes'
            BY <3>1, <2>2, <1>1, <1>2, <1>3, SMT
        <3> QED
            BY <3>1, <3>2, <2>2, <1>3
    <2> QED
        BY <2>1, <2>2, <1>2
<1>6. NumRows' = NumRows /\ \A k : Before(k)' = Before(k) /\ Length(k)' = Length(k)
    BY DEF NumRows, Before, Length
<1>7. ASSUME NEW k \in 1..m
      PROVE  MarkInv(k)'
    <2>1. marks'[k] = marks[k] /\ k \in 1..Len(marks) /\ MarkInv(k)
        BY <1>2, <1>given DEF MarksInv
    <2>2. /\ marks[k].block \in DOMAIN bin
          /\ bin'[marks[k].block] = bin[marks[k].block]
        BY <2>1, <1>3 DEF MarkInv
    <2>3. k < Len(marks) => k < Len(marks') /\ marks'[k + 1] = marks[k + 1]
        <3>1. k < m => k < m + p /\ k + 1 \in 1..m
            BY <1>1, SMT
        <3> QED
            BY <3>1, <1>2, <1>given
    <2> QED
        BY <2>1, <2>2, <2>3, <1>2, <1>6 DEF MarkInv, Base
<1>8. ASSUME NEW k \in Nat, m < k, k <= m + p
      PROVE  MarkInv(k)'
    <2> DEFINE j == k - m
    <2>1. j \in 1..p /\ k = m + j /\ j = k - m
        BY <1>1, <1>8, SMT
    <2> HIDE DEF j
    <2>2. marks'[k] = [block |-> binBytes, offset |-> offsets[j]]
        BY <2>1, <1>2
    <2>3. /\ Before(k) = at + Before(j)
          /\ Before(k) \in Nat /\ Before(j) \in Nat /\ Before(p) \in Nat
        <3>1. (k - 1) * GranuleSize = at + (j - 1) * GranuleSize
            <4>1. k - 1 = m + (j - 1)
                BY <1>1, <2>1, SMT
            <4> QED
                BY <4>1, <1>1, <2>1, <1>given, TimesGranule
        <3>2. Before(j) \in Nat /\ Before(p) \in Nat
            <4>1. j \in Int /\ j >= 1 /\ p \in Int /\ p >= 1
                BY <1>1, <2>1, <1>given, SMT
            <4>2. /\ Before(j) \in Int /\ Before(j) >= 0
                  /\ Before(p) \in Int /\ Before(p) >= 0
                BY <4>1, BeforeNext
            <4> QED
                BY <4>2, SMT
        <3> QED
            BY <3>1, <3>2, <1>1, SMT DEF Before
    <2>4. Before(j) <= Before(p)
        <3>1. j - 1 = p - 1 \/ j - 1 < p - 1
            BY <1>1, <2>1, SMT
        <3>2. (j - 1) * GranuleSize \in Int /\ (p - 1) * GranuleSize \in Int
            <4>1. j - 1 \in Int /\ p - 1 \in Int
                BY <1>1, <2>1, SMT
            <4> QED
                BY <4>1, TimesGranule
        <3>3. j - 1 < p - 1 => (j - 1) * GranuleSize + GranuleSize <= (p - 1) * GranuleSize
            BY <1>1, <2>1, TimesGranule, SMT
        <3> QED
            BY <3>1, <3>2, <3>3, ColumnFileAssumption, SMT DEF Before
    <2>5. at <= Before(k) /\ Before(k) < at + Len(rows)
        BY <2>3, <2>4, <1>1, <1>given, SMT
    <2>6. offsets[j] = (Before(k) - at) * column.stride
        <3>1. Before(k) - at = Before(j)
            BY <2>3, <1>1, SMT
        <3> QED
            BY <3>1, <2>1, <1>given
    <2>7. \/ k < Len(marks') /\ marks'[k + 1].block = binBytes
          \/ at + Len(rows) = Before(k) + Length(k)
        <3>1. CASE j < p
            <4>1. j + 1 \in 1..p /\ k + 1 = m + (j + 1) /\ k < m + p
                BY <3>1, <2>1, <1>1, SMT
            <4>2. marks'[m + (j + 1)] = [block |-> binBytes, offset |-> offsets[j + 1]]
                BY <4>1, <1>2
            <4> QED
                BY <4>1, <4>2, <1>2
        <3>2. CASE j = p
            <4> DEFINE end == k * GranuleSize
                       length == p * GranuleSize
            <4>1. end = at + length /\ length \in Nat
                BY <3>2, <2>1, <1>1, <1>given, TimesGranule, SMT
            <4>2. Before(k) + GranuleSize = end
                <5>1. k \in Int
                    OBVIOUS
                <5>2. Before(k + 1) = Before(k) + GranuleSize /\ Before(k + 1) = end
                    BY <5>1, BeforeNext
                <5> QED
                    BY <5>2
            <4>3. NumRows \in Nat /\ GranuleSize \in Nat
                BY ColumnFacts, ColumnFileAssumption
            <4>4. Length(k) = IF end <= NumRows THEN GranuleSize ELSE NumRows - Before(k)
                BY DEF Length
            <4>5. /\ Len(rows) <= length
                  /\ at + Len(rows) <= NumRows
                  /\ Len(rows) = length \/ at + Len(rows) = NumRows
                BY <1>given
            <4> HIDE DEF end, length
            <4>6. CASE end <= NumRows
                <5>1. Length(k) = GranuleSize
                    BY <4>4, <4>6
                <5>2. Len(rows) = length
                    BY <4>1, <4>3, <4>5, <4>6, <1>1, SMT
                <5> QED
                    BY <5>1, <5>2, <4>1, <4>2
            <4>7. CASE ~ (end <= NumRows)
                <5>1. Length(k) = NumRows - Before(k)
                    BY <4>4, <4>7
                <5> QED
                    BY <5>1, <4>1, <4>2, <4>3, <4>5, <4>7, <2>3, <1>1, SMT
            <4> QED
                BY <4>6, <4>7
        <3> QED
            BY <3>1, <3>2, <2>1, <1>1, SMT
    <2> QED
        <3>1. /\ marks'[k].block = binBytes
              /\ marks'[k].offset = (Before(k) - at) * column.stride
            BY <2>2, <2>6
        <3>2. /\ binBytes \in DOMAIN bin'
              /\ bin'[binBytes] = rows
              /\ Before(k)' = Before(k) /\ Length(k)' = Length(k)
            BY <1>2, <1>6
        <3> QED
            BY <3>1, <3>2, <2>5, <2>7, <1>4 DEF MarkInv, Base
<1>9. ASSUME NEW k \in 1..(m + p)
      PROVE  MarkInv(k)'
    <2>1. k \in 1..m \/ (k \in Nat /\ m < k /\ k <= m + p)
        BY <1>1, SMT
    <2> QED
        BY <2>1, <1>7, <1>8
<1> QED
    BY <1>2, <1>5, <1>9 DEF MarksInv

-----------------------------------------------------------------------------
(***************************************************************************)
(* A mark leads to the rows of its granule                                 *)
(***************************************************************************)
LEMMA SliceOfRun ==
    ASSUME NEW S, NEW rows \in Seq(S), NEW a \in Nat, NEW n \in Nat, NEW before \in Int,
           a + n <= Len(rows),
           \A i \in 1..Len(rows) : rows[i] = before + i
    PROVE  SubSeq(rows, a + 1, a + n) = [i \in 1..n |-> before + a + i]
<1>1. Len(rows) \in Nat
    BY LenProperties
<1>2. SubSeq(rows, a + 1, a + n) = [i \in 1..n |-> rows[a + i]]
    BY SMT
<1>3. \A i \in 1..n : a + i \in 1..Len(rows) /\ before + (a + i) = before + a + i
    BY <1>1, SMT
<1> QED
    BY <1>2, <1>3

LEMMA GranuleCorrect ==
    ASSUME ColumnTypeOK, BlocksInv, MarksInv, NEW k \in 1..Len(marks)
    PROVE  /\ Granule(k, bin[marks[k].block]) =
                  [i \in 1..Length(k) |-> Before(k) + i]
           /\ [i \in 1..Length(k) |-> Before(k) + i] \in Seq(Rows)
<1> DEFINE o == marks[k].block
           rows == bin[o]
           base == Base(o)
           a == Before(k) - base
           s == column.stride
<1>1. MarkInv(k)
    BY DEF MarksInv
<1>2. /\ o \in DOMAIN bin
      /\ base <= Before(k) /\ Before(k) < base + Len(rows)
      /\ marks[k].offset = a * s
      /\ \/ k < Len(marks) /\ marks[k + 1].block = o
         \/ base + Len(rows) = Before(k) + Length(k)
    BY <1>1 DEF MarkInv
<1>3. rows \in Seq(Rows) /\ Len(rows) \in Nat /\ 1 <= Len(rows)
    BY <1>2, LenProperties DEF ColumnTypeOK, BlocksInv
<1>4. \A i \in 1..Len(rows) : rows[i] = base + i /\ rows[i] \in Rows
    BY <1>2, <1>3, LenProperties DEF BlocksInv
<1>5. NumRows \in Nat /\ s \in Nat \ {0} /\ GranuleSize \in Nat \ {0}
    BY ColumnFacts, ColumnFileAssumption
<1>6. base \in Nat
    <2>1. rows[1] \in Rows
        BY <1>3, <1>4, SMT
    <2> QED
        BY <2>1, <1>5, SMT DEF Base, Rows
<1>7. base + Len(rows) <= NumRows
    <2>1. Len(rows) \in 1..Len(rows)
        BY <1>3, SMT
    <2>2. base + Len(rows) \in Rows
        BY <2>1, <1>4
    <2> QED
        BY <2>2, <1>5, SMT DEF Rows
<1>8. Len(marks) \in Nat /\ k \in Nat /\ Before(k) \in Nat
    <2>1. Len(marks) \in Nat
        BY LenProperties DEF ColumnTypeOK
    <2>2. k \in Int /\ k >= 1 /\ k \in Nat
        BY <2>1, SMT
    <2>3. Before(k) \in Int /\ Before(k) >= 0
        BY <2>2, BeforeNext
    <2> QED
        BY <2>1, <2>2, <2>3, SMT
<1>9. a \in Nat
    BY <1>2, <1>6, <1>8, SMT
<1> HIDE DEF o, rows, base, a, s
<1> DEFINE end == IF k < Len(marks) /\ marks[k + 1].block = o
                  THEN marks[k + 1].offset
                  ELSE Len(rows) * s
<1>10. /\ Length(k) \in Nat
       /\ a + Length(k) <= Len(rows)
       /\ end \div s = a + Length(k)
    <2>1. CASE k < Len(marks) /\ marks[k + 1].block = o
        <3>1. k + 1 \in 1..Len(marks)
            BY <2>1, <1>8, SMT
        <3>2. MarkInv(k + 1)
            BY <3>1 DEF MarksInv
        <3>3. Before(k + 1) = Before(k) + GranuleSize /\ Before(k + 1) = k * GranuleSize
            <4>1. k \in Int
                BY <1>8
            <4> QED
                BY <4>1, BeforeNext
        <3>4. /\ marks[k + 1].offset = (Before(k + 1) - base) * s
              /\ Before(k + 1) < base + Len(rows)
            BY <2>1, <3>2 DEF MarkInv, o, rows, base, s
        <3>5. k * GranuleSize <= NumRows
            BY <3>3, <3>4, <1>3, <1>5, <1>6, <1>7, <1>8, SMT
        <3>6. Length(k) = GranuleSize
            BY <3>5 DEF Length
        <3>7. /\ Before(k + 1) - base = a + GranuleSize
              /\ a + GranuleSize \in Nat
              /\ a + GranuleSize <= Len(rows)
            BY <3>3, <3>4, <1>3, <1>5, <1>6, <1>8, <1>9, SMT DEF a
        <3>8. ((a + GranuleSize) * s) \div s = a + GranuleSize
            BY <3>7, <1>5, DivStride
        <3> QED
            BY <2>1, <3>4, <3>6, <3>7, <3>8, <1>5
    <2>2. CASE ~ (k < Len(marks) /\ marks[k + 1].block = o)
        <3>1. base + Len(rows) = Before(k) + Length(k)
            BY <2>2, <1>2
        <3>2. Length(k) \in Int
            BY <1>5, <1>8, SMT DEF Length
        <3>3. Len(rows) = a + Length(k) /\ Length(k) \in Nat
            BY <3>1, <3>2, <1>2, <1>3, <1>6, <1>8, SMT DEF a
        <3>4. (Len(rows) * s) \div s = Len(rows)
            BY <1>3, <1>5, DivStride
        <3> QED
            BY <2>2, <3>3, <3>4, <1>3
    <2> QED
        BY <2>1, <2>2
<1>11. (a * s) \div s = a
    BY <1>5, <1>9, DivStride
<1>12. Granule(k, rows) = SubSeq(rows, a + 1, a + Length(k))
    BY <1>2, <1>10, <1>11 DEF Granule, o, s
<1>13. SubSeq(rows, a + 1, a + Length(k)) = [i \in 1..Length(k) |-> base + a + i]
    BY <1>3, <1>4, <1>6, <1>9, <1>10, SliceOfRun
<1>14. base + a = Before(k)
    BY <1>6, <1>8, SMT DEF a
<1>15. \A i \in 1..Length(k) : Before(k) + i \in Rows
    <2> SUFFICES ASSUME NEW i \in 1..Length(k) PROVE Before(k) + i \in Rows
        OBVIOUS
    <2>1. a + i \in 1..Len(rows) /\ base + (a + i) = Before(k) + i
        BY <1>3, <1>6, <1>9, <1>10, <1>14, SMT
    <2> QED
        BY <2>1, <1>4
<1>16. [i \in 1..Length(k) |-> Before(k) + i] \in Seq(Rows)
    BY <1>10, <1>15, SMT
<1> QED
    BY <1>12, <1>13, <1>14, <1>16 DEF o, rows

-----------------------------------------------------------------------------
(***************************************************************************)
(* The writer                                                              *)
(***************************************************************************)
\* With the mark of the next row, if it needs one, the marks count the
\* granules begun, the current one included.
LEMMA MarkedFacts ==
    ASSUME ColumnTypeOK, WriterInv, phase = "writing", NEW q, q = Len(Marked)
    PROVE  /\ q \in Nat /\ 1 <= q
           /\ written = (Len(marks) + q - 1) * GranuleSize + rowsInGranule
           /\ Len(block) = (q - 1) * GranuleSize + rowsInGranule
           /\ \A k \in 1..q : Marked[k] = Before(k) * column.stride
<1> DEFINE m == Len(marks)
           p == Len(pending)
           next == rowsInBlock * column.stride
<1>1. /\ m \in Nat /\ p \in Nat /\ Len(block) \in Nat /\ written \in Nat
      /\ rowsInGranule \in Nat /\ pending \in Seq(Nat)
    BY LenProperties, ColumnFacts, ColumnFileAssumption, SMT DEF ColumnTypeOK
<1>2. /\ written = m * GranuleSize + Len(block)
      /\ rowsInGranule = 0 => written = (m + p) * GranuleSize
      /\ rowsInGranule # 0 => written = (m + p - 1) * GranuleSize + rowsInGranule
      /\ rowsInBlock = Len(block)
      /\ \A k \in 1..p : pending[k] = Before(k) * column.stride
    BY DEF WriterInv, Granules
<1>3. next \in Nat
    BY ColumnFacts, DivStride DEF ColumnTypeOK
<1>4. Marked = IF rowsInGranule = 0 THEN Append(pending, next) ELSE pending
    BY DEF Marked
<1> HIDE DEF m, next
<1>5. CASE rowsInGranule = 0
    <2>1. /\ q = p + 1
          /\ \A k \in 1..p : Marked[k] = pending[k]
          /\ Marked[p + 1] = next
        BY <1>1, <1>3, <1>4, <1>5, AppendProperties
    <2>2. (m + p) * GranuleSize = m * GranuleSize + p * GranuleSize
          /\ m * GranuleSize \in Int /\ p * GranuleSize \in Int
        <3>1. m \in Int /\ p \in Int
            BY <1>1, SMT
        <3> QED
            BY <3>1, TimesGranule
    <2>3. Len(block) = p * GranuleSize
        BY <2>2, <1>1, <1>2, <1>5, SMT
    <2>4. Before(p + 1) = p * GranuleSize
        <3>1. p \in Int
            BY <1>1
        <3> QED
            BY <3>1, BeforeNext
    <2>5. next = Before(p + 1) * column.stride
        BY <2>3, <2>4, <1>2 DEF next
    <2>6. \A k \in 1..q : k \in 1..p \/ k = p + 1
        BY <2>1, <1>1, SMT
    <2>7. \A k \in 1..q : Marked[k] = Before(k) * column.stride
        BY <2>1, <2>5, <2>6, <1>2
    <2>8. q \in Nat /\ 1 <= q /\ q - 1 = p /\ m + q - 1 = m + p
        BY <2>1, <1>1, SMT
    <2>9. written = (m + p) * GranuleSize + rowsInGranule
          /\ Len(block) = p * GranuleSize + rowsInGranule
        BY <2>2, <2>3, <1>1, <1>2, <1>5, SMT
    <2> QED
        BY <2>7, <2>8, <2>9 DEF m
<1>6. CASE rowsInGranule # 0
    <2>1. q = p /\ Marked = pending
        BY <1>4, <1>6
    <2>2. written = (m + (p - 1)) * GranuleSize + rowsInGranule
        <3>1. m + p - 1 = m + (p - 1)
            BY <1>1, SMT
        <3> QED
            BY <3>1, <1>2, <1>6
    <2>3. (m + (p - 1)) * GranuleSize = m * GranuleSize + (p - 1) * GranuleSize
          /\ m * GranuleSize \in Int /\ (p - 1) * GranuleSize \in Int
        <3>1. m \in Int /\ p - 1 \in Int
            BY <1>1, SMT
        <3> QED
            BY <3>1, TimesGranule
    <2>4. Len(block) = (p - 1) * GranuleSize + rowsInGranule
        BY <2>2, <2>3, <1>1, <1>2, SMT
    <2>5. 1 <= p
        <3>1. SUFFICES ASSUME p = 0 PROVE FALSE
            BY <1>1, SMT
        <3>2. (p - 1) * GranuleSize = 0 - GranuleSize
            BY <3>1, ColumnFileAssumption, SMT
        <3> QED
            BY <3>2, <2>4, <1>1, ColumnFileAssumption, SMT DEF ColumnTypeOK
    <2>6. m + (p - 1) = m + q - 1 /\ q - 1 = p - 1
        BY <2>1, <1>1, SMT
    <2> QED
        BY <2>1, <2>2, <2>4, <2>5, <2>6, <1>1, <1>2 DEF m
<1> QED
    BY <1>1, <1>5, <1>6

LEMMA AddRowType == ColumnTypeOK /\ AddRow => ColumnTypeOK'
<1> SUFFICES ASSUME ColumnTypeOK, AddRow PROVE ColumnTypeOK'
    OBVIOUS
<1>1. /\ phase = "writing" /\ written < NumRows /\ written' = written + 1
      /\ rowsInGranule' = NextInGranule
      /\ UNCHANGED <<column, phase, cache, reply>>
    BY DEF AddRow
<1>2. /\ Append(block, written + 1) \in Seq(Rows)
      /\ Marked \in Seq(Nat)
      /\ BytesWithNext \in Nat
      /\ NextInGranule \in 0..(GranuleSize - 1)
    BY <1>1, AddedType
<1>3. written' \in 0..NumRows'
    BY <1>1, ColumnFacts, SMT DEF ColumnTypeOK, NumRows
<1>4. Rows' = Rows /\ NumRows' = NumRows
    BY <1>1 DEF Rows, NumRows
<1>5. CASE BlockFull /\ FlushBlock(Append(block, written + 1), Marked)
    <2>1. /\ block' \in Seq(Rows)
          /\ blockBytes' = 0 /\ rowsInBlock' = 0
          /\ pending' \in Seq(Nat)
          /\ marks' \in Seq(Mark)
          /\ DOMAIN bin' = DOMAIN bin \cup {binBytes}
          /\ bin'[binBytes] = Append(block, written + 1)
          /\ \A o \in DOMAIN bin : o # binBytes => bin'[o] = bin[o]
          /\ binBytes' \in Nat
        BY <1>2, <1>5, FlushType
    <2>2. DOMAIN bin' \subseteq Nat /\ \A o \in DOMAIN bin' : bin'[o] \in Seq(Rows)
        BY <2>1, <1>2 DEF ColumnTypeOK
    <2>3. 0 \in Nat
        BY SMT
    <2> QED
        BY <1>1, <1>2, <1>3, <1>4, <2>1, <2>2, <2>3 DEF ColumnTypeOK, Block, Mark
<1>6. CASE /\ ~ BlockFull
           /\ block' = Append(block, written + 1)
           /\ blockBytes' = BytesWithNext
           /\ rowsInBlock' = rowsInBlock + 1
           /\ pending' = Marked
           /\ UNCHANGED file
    <2>1. rowsInBlock' \in Nat
        BY <1>6, SMT DEF ColumnTypeOK
    <2> QED
        BY <1>1, <1>2, <1>3, <1>4, <1>6, <2>1 DEF ColumnTypeOK, Block, Mark, file
<1> QED
    BY <1>5, <1>6 DEF AddRow, file

\* Blocks do not grow without limit: a block is measured after each granule.
LEMMA NextBlockBounded ==
    ASSUME ColumnTypeOK, WriterInv, phase = "writing", written < NumRows
    PROVE  /\ Len(block) + 1 <= BytesWithNext
           /\ Len(block) + 1 < BlockBytes + GranuleSize
           /\ ~ BlockFull => Len(block) + 1 < BlockBytes + NextInGranule
<1>1. /\ Len(block) \in Nat /\ blockBytes \in Nat
      /\ rowsInGranule \in 0..(GranuleSize - 1)
      /\ Len(block) <= blockBytes /\ Len(block) < BlockBytes + rowsInGranule
    BY LenProperties DEF ColumnTypeOK, WriterInv
<1>2. BytesWithNext \in Nat /\ BytesWithNext > blockBytes
    BY AddedType
<1> QED
    BY <1>1, <1>2, ColumnFileAssumption, SMT DEF BlockFull, NextInGranule

\* Every row of the block that is being filled, and the next row behind it.
LEMMA NextBlock ==
    ASSUME ColumnTypeOK, WriterInv, phase = "writing", written < NumRows,
           NEW rows, rows = Append(block, written + 1)
    PROVE  /\ Len(rows) = Len(block) + 1
           /\ written = Len(marks) * GranuleSize + Len(block)
           /\ \A i \in 1..Len(rows) : rows[i] = Len(marks) * GranuleSize + i
<1>1. /\ Len(rows) = Len(block) + 1
      /\ \A i \in 1..Len(block) : rows[i] = block[i]
      /\ rows[Len(block) + 1] = written + 1
    BY AddedType
<1>2. Len(block) \in Nat /\ Len(marks) * GranuleSize \in Int
    <2>1. Len(block) \in Nat /\ Len(marks) \in Nat
        BY LenProperties DEF ColumnTypeOK
    <2>2. Len(marks) \in Int
        BY <2>1, SMT
    <2> QED
        BY <2>1, <2>2, TimesGranule
<1>3. /\ written = Len(marks) * GranuleSize + Len(block)
      /\ \A i \in 1..Len(block) : block[i] = (written - Len(block)) + i
    BY DEF WriterInv
<1> DEFINE at == Len(marks) * GranuleSize
<1> HIDE DEF at
<1>4. /\ at \in Int /\ written = at + Len(block) /\ written - Len(block) = at
      /\ written + 1 = at + (Len(block) + 1)
    BY <1>2, <1>3, SMT DEF at
<1>5. \A i \in 1..Len(rows) : i \in 1..Len(block) \/ i = Len(block) + 1
    BY <1>1, <1>2, SMT
<1>6. \A i \in 1..Len(rows) : rows[i] = at + i
    BY <1>1, <1>3, <1>4, <1>5
<1> QED
    BY <1>1, <1>3, <1>6 DEF at

\* What a step leaves alone stays true.
LEMMA SameFile ==
    ASSUME BlocksInv, MarksInv, BlocksBounded, UNCHANGED <<column, file>>
    PROVE  BlocksInv' /\ MarksInv' /\ BlocksBounded'
<1>1. UNCHANGED <<column, marks, bin, binBytes>>
    BY DEF file
<1>2. BlocksInv'
    BY <1>1 DEF BlocksInv, Base
<1>3. BlocksBounded'
    BY <1>1 DEF BlocksBounded
<1>4. MarksInv'
    BY <1>1 DEF MarksInv, MarkInv, Base, Before, Length, NumRows
<1> QED
    BY <1>2, <1>3, <1>4

LEMMA FlushKeepsBounded ==
    ASSUME ColumnTypeOK, BlocksBounded,
           NEW rows \in Seq(Rows), NEW offsets \in Seq(Nat),
           FlushBlock(rows, offsets), Len(rows) < BlockBytes + GranuleSize
    PROVE  BlocksBounded'
BY FlushType DEF BlocksBounded

LEMMA AddRowInv == IInv /\ AddRow => IInv'
<1> SUFFICES ASSUME IInv, AddRow PROVE IInv'
    OBVIOUS
<1> DEFINE m == Len(marks)
           q == Len(Marked)
           rows == Append(block, written + 1)
<1>1. /\ ColumnTypeOK /\ BlocksInv /\ MarksInv /\ WriterInv /\ CacheInv
      /\ EveryGranuleMarked /\ ReadsBack /\ BlocksBounded
    BY DEF IInv
<1>2. /\ phase = "writing" /\ written < NumRows /\ written' = written + 1
      /\ rowsInGranule' = NextInGranule
      /\ UNCHANGED <<column, phase, cache, reply>>
    BY DEF AddRow
<1>3. ColumnTypeOK'
    BY <1>1, AddRowType
<1>4. /\ q \in Nat /\ 1 <= q
      /\ written = (m + q - 1) * GranuleSize + rowsInGranule
      /\ Len(block) = (q - 1) * GranuleSize + rowsInGranule
      /\ \A k \in 1..q : Marked[k] = Before(k) * column.stride
    BY <1>1, <1>2, MarkedFacts
<1>5. /\ Len(rows) = Len(block) + 1
      /\ written = m * GranuleSize + Len(block)
      /\ \A i \in 1..Len(rows) : rows[i] = m * GranuleSize + i
    BY <1>1, <1>2, NextBlock
<1>6. rows \in Seq(Rows) /\ Marked \in Seq(Nat)
    BY <1>1, <1>2, AddedType
<1>7. /\ Len(block) + 1 <= BytesWithNext
      /\ Len(block) + 1 < BlockBytes + GranuleSize
      /\ ~ BlockFull => Len(block) + 1 < BlockBytes + NextInGranule
    BY <1>1, <1>2, NextBlockBounded
<1>8. /\ Len(block) \in Nat /\ m \in Nat /\ written \in Nat /\ NumRows \in Nat
      /\ rowsInGranule \in 0..(GranuleSize - 1) /\ GranuleSize \in Nat \ {0}
      /\ rowsInBlock = Len(block)
    BY <1>1, LenProperties, ColumnFacts, ColumnFileAssumption, SMT DEF ColumnTypeOK, WriterInv
<1>9. /\ cache = {} /\ reply = NoReply
    BY <1>1, <1>2 DEF WriterInv
<1>10. CacheInv' /\ ReadsBack' /\ EveryGranuleMarked'
    BY <1>2, <1>9 DEF CacheInv, ReadsBack, EveryGranuleMarked, NoReply
<1>11. \A k : Before(k)' = Before(k)
    BY DEF Before
<1>q. /\ q * GranuleSize = (q - 1) * GranuleSize + GranuleSize
      /\ (m + q) * GranuleSize = (m + q - 1) * GranuleSize + GranuleSize
      /\ (m + q) * GranuleSize = m * GranuleSize + q * GranuleSize
      /\ (q - 1) * GranuleSize \in Int /\ (m + q - 1) * GranuleSize \in Int
      /\ m * GranuleSize \in Int
    BY <1>4, <1>8, SMT
<1> HIDE DEF m, q, rows
<1>12. CASE BlockFull /\ FlushBlock(rows, Marked)
    <2>1. rowsInGranule + 1 = GranuleSize
        BY <1>12 DEF BlockFull
    <2>2. Len(rows) = q * GranuleSize
        BY <2>1, <1>4, <1>5, <1>8, <1>q, SMT
    <2>3. /\ 1 <= Len(rows)
          /\ Before(q) < Len(rows)
          /\ m * GranuleSize + Len(rows) <= NumRows
        BY <2>2, <1>2, <1>4, <1>5, <1>8, <1>q, SMT DEF Before
    <2>4. /\ Len(rows) <= q * GranuleSize
          /\ Len(rows) < BlockBytes + GranuleSize
        BY <2>2, <1>4, <1>5, <1>7, <1>8, <1>q, SMT
    <2>5. BlocksInv' /\ MarksInv'
        BY <2>2, <2>3, <2>4, <1>1, <1>2, <1>4, <1>5, <1>6, <1>12, FlushKeepsMarks DEF m, q
    <2>6. BlocksBounded'
        BY <2>4, <1>1, <1>6, <1>12, FlushKeepsBounded
    <2>7. WriterInv'
        <3>1. /\ block' = <<>> /\ blockBytes' = 0 /\ rowsInBlock' = 0 /\ pending' = <<>>
              /\ Len(marks') = m + q
            BY <1>1, <1>6, <1>12, FlushType DEF m, q
        <3>2. Len(<<>>) = 0
            BY SMT
        <3>3. rowsInGranule' = 0
            BY <2>1, <1>2 DEF NextInGranule
        <3>4. written' = (m + q) * GranuleSize
            BY <2>1, <1>2, <1>4, <1>8, <1>q, SMT
        <3>5. (m + q) * GranuleSize \in Int /\ m + q \in Nat
            BY <1>4, <1>8, <1>q, SMT
        <3> DEFINE n == m + q
                   at == n * GranuleSize
        <3>6. Len(marks') * GranuleSize = at /\ Len(marks') + 0 = n
            BY <3>1, <3>5, SMT
        <3> HIDE DEF n, at
        <3>7. written' = at /\ at \in Int
            BY <3>4, <3>5 DEF n, at
        <3>8. /\ written' = Len(marks') * GranuleSize + Len(block')
              /\ written' = (Len(marks') + Len(pending')) * GranuleSize
            BY <3>1, <3>2, <3>6, <3>7, SMT DEF n, at
        <3> QED
            BY <3>1, <3>2, <3>3, <3>8, <1>2, <1>9, ColumnFileAssumption, SMT
            DEF WriterInv, Granules
    <2> QED
        BY <2>5, <2>6, <2>7, <1>3, <1>10 DEF IInv
<1>13. CASE /\ ~ BlockFull
            /\ block' = rows
            /\ blockBytes' = BytesWithNext
            /\ rowsInBlock' = rowsInBlock + 1
            /\ pending' = Marked
            /\ UNCHANGED file
    <2>1. BlocksInv' /\ MarksInv' /\ BlocksBounded'
        BY <1>1, <1>2, <1>13, SameFile
    <2>2. Len(marks') = m /\ Len(pending') = q /\ Len(block') = Len(block) + 1
        BY <1>5, <1>13 DEF m, q, file
    <2>3. written' = m * GranuleSize + Len(block')
        BY <2>2, <1>2, <1>5, <1>8, <1>q, SMT
    <2>4. NextInGranule = 0 => written' = (m + q) * GranuleSize
        BY <1>2, <1>4, <1>8, <1>q, SMT DEF NextInGranule
    <2>5. NextInGranule # 0 => written' = (m + q - 1) * GranuleSize + NextInGranule
        BY <1>2, <1>4, <1>8, <1>q, SMT DEF NextInGranule
    <2>6. \A i \in 1..Len(block') : block'[i] = (written' - Len(block')) + i
        <3>1. written' - Len(block') = m * GranuleSize
            BY <2>2, <2>3, <1>8, <1>q, SMT
        <3> QED
            BY <3>1, <1>5, <1>13
    <2>7. rowsInBlock' = Len(block')
        BY <2>2, <1>8, <1>13
    <2>8. \A k \in 1..Len(pending') : pending'[k] = Before(k)' * column.stride'
        BY <2>2, <1>2, <1>4, <1>11, <1>13
    <2>9. /\ Len(block') <= blockBytes'
          /\ Len(block') < BlockBytes + rowsInGranule'
        BY <2>2, <1>2, <1>7, <1>13
    <2>10. WriterInv'
        BY <2>2, <2>3, <2>4, <2>5, <2>6, <2>7, <2>8, <2>9, <1>2, <1>9
        DEF WriterInv, Granules
    <2> QED
        BY <2>1, <2>10, <1>3, <1>10 DEF IInv
<1> QED
    BY <1>12, <1>13 DEF AddRow, rows

\* The tail block ends with the last row, so the file has all the marks.
LEMMA FinishInv == IInv /\ Finish => IInv'
<1> SUFFICES ASSUME IInv, Finish PROVE IInv'
    OBVIOUS
<1> DEFINE m == Len(marks)
           p == Len(pending)
           at == m * GranuleSize
<1>1. /\ ColumnTypeOK /\ BlocksInv /\ MarksInv /\ WriterInv /\ CacheInv
      /\ EveryGranuleMarked /\ ReadsBack /\ BlocksBounded
    BY DEF IInv
<1>2. /\ phase = "writing" /\ written = NumRows /\ phase' = "closed"
      /\ UNCHANGED <<column, written, rowsInGranule, cache, reply>>
    BY DEF Finish
<1>3. /\ m \in Nat /\ p \in Nat /\ Len(block) \in Nat /\ written \in Nat
      /\ rowsInGranule \in 0..(GranuleSize - 1) /\ GranuleSize \in Nat \ {0}
      /\ block \in Seq(Rows) /\ pending \in Seq(Nat)
    BY <1>1, LenProperties, ColumnFacts, ColumnFileAssumption, SMT DEF ColumnTypeOK
<1>4. /\ written = at + Len(block)
      /\ rowsInGranule = 0 => written = (m + p) * GranuleSize
      /\ rowsInGranule # 0 => written = (m + p - 1) * GranuleSize + rowsInGranule
      /\ \A i \in 1..Len(block) : block[i] = (written - Len(block)) + i
      /\ \A k \in 1..p : pending[k] = Before(k) * column.stride
      /\ Len(block) < BlockBytes + rowsInGranule
      /\ cache = {} /\ reply = NoReply
    BY <1>1, <1>2 DEF WriterInv, Granules
<1>5. /\ (m + p) * GranuleSize = at + p * GranuleSize
      /\ (m + p - 1) * GranuleSize = at + (p - 1) * GranuleSize
      /\ p * GranuleSize = (p - 1) * GranuleSize + GranuleSize
      /\ p = 0 => p * GranuleSize = 0
      /\ p >= 1 => (p - 1) * GranuleSize >= 0
      /\ at \in Int /\ p * GranuleSize \in Int /\ (p - 1) * GranuleSize \in Int
    BY <1>3, SMT
<1>6. \A i \in 1..Len(block) : block[i] = at + i
    <2>1. written - Len(block) = at
        BY <1>3, <1>4, <1>5, SMT
    <2> QED
        BY <2>1, <1>4
<1>7. CacheInv' /\ ReadsBack'
    BY <1>2, <1>4 DEF CacheInv, ReadsBack, NoReply
<1>8. NumRows' = NumRows
    BY <1>2 DEF NumRows
<1> HIDE DEF m, p, at
\* In units of granules: what is in the block, and what the marks cover.
<1>9. /\ Len(block) <= p * GranuleSize
      /\ Len(block) > (p - 1) * GranuleSize
    BY <1>3, <1>4, <1>5, SMT
<1>10. block # <<>> => 1 <= Len(block)
    BY <1>3, SMT
<1>11. CASE block = <<>> /\ UNCHANGED <<block, blockBytes, rowsInBlock, pending, file>>
    <2>1. Len(block) = 0
        BY <1>11, SMT
    <2>2. p = 0
        <3>1. p * GranuleSize >= 0
            BY <2>1, <1>9
        <3> QED
            BY <2>1, <1>3, <1>5, <1>9, SMT
    <2>3. at = NumRows
        BY <2>1, <1>2, <1>3, <1>4, <1>5, SMT
    <2>4. EveryGranuleMarked'
        <3>1. Len(marks') = m
            BY <1>11 DEF file, m
        <3>2. m * GranuleSize >= NumRows /\ (m - 1) * GranuleSize < NumRows
            <4>1. (m - 1) * GranuleSize = at - GranuleSize
                BY <1>3, SMT DEF at
            <4>2. m * GranuleSize = at
                BY DEF at
            <4> QED
                BY <4>1, <4>2, <2>3, <1>3, <1>5, SMT
        <3> QED
            BY <3>1, <3>2, <1>8 DEF EveryGranuleMarked
    <2>5. ColumnTypeOK'
        BY <1>1, <1>2, <1>11 DEF ColumnTypeOK, Rows, NumRows, Mark, Block, file
    <2>6. BlocksInv' /\ MarksInv' /\ BlocksBounded'
        BY <1>1, <1>2, <1>11, SameFile
    <2>7. WriterInv'
        BY <1>1, <1>2, <1>11 DEF WriterInv, Before
    <2> QED
        BY <2>4, <2>5, <2>6, <2>7, <1>7 DEF IInv
<1>12. CASE block # <<>> /\ FlushBlock(block, pending)
    <2>1. 1 <= p
        <3>1. SUFFICES ASSUME p = 0 PROVE FALSE
            BY <1>3, SMT
        <3> QED
            BY <3>1, <1>3, <1>5, <1>9, <1>10, <1>12, SMT
    <2>2. Before(p) < Len(block)
        BY <1>9 DEF Before
    <2>3. at + Len(block) = NumRows
        BY <1>2, <1>4
    <2>4. at + Len(block) <= NumRows
        BY <2>3, <1>2, <1>3, SMT
    <2>5. BlocksInv' /\ MarksInv'
        BY <2>1, <2>2, <2>3, <2>4, <1>1, <1>2, <1>3, <1>4, <1>6, <1>9, <1>10, <1>12,
           FlushKeepsMarks DEF m, p, at
    <2>6. Len(block) < BlockBytes + GranuleSize
        BY <1>3, <1>4, ColumnFileAssumption, SMT
    <2>7. BlocksBounded'
        BY <2>6, <1>1, <1>3, <1>12, FlushKeepsBounded
    <2>8. /\ block' = <<>> /\ block' \in Seq(Rows)
          /\ blockBytes' = 0 /\ rowsInBlock' = 0
          /\ pending' = <<>> /\ pending' \in Seq(Nat)
          /\ marks' \in Seq(Mark)
          /\ Len(marks') = m + p
          /\ DOMAIN bin' = DOMAIN bin \cup {binBytes}
          /\ bin'[binBytes] = block
          /\ \A o \in DOMAIN bin : o # binBytes => bin'[o] = bin[o]
          /\ binBytes' \in Nat
        BY <1>1, <1>3, <1>12, FlushType DEF m, p
    <2>9. ColumnTypeOK'
        <3>1. DOMAIN bin' \subseteq Nat /\ \A o \in DOMAIN bin' : bin'[o] \in Seq(Rows)
            BY <2>8, <1>1, <1>3 DEF ColumnTypeOK
        <3>2. 0 \in Nat
            BY SMT
        <3> QED
            BY <2>8, <3>1, <3>2, <1>1, <1>2, <1>8 DEF ColumnTypeOK, Rows, Block
    <2>10. WriterInv'
        <3>1. Len(block') = 0 /\ Len(pending') = 0
            BY <2>8, SMT
        <3>2. rowsInGranule' \in Nat
            BY <1>2, <1>3, SMT
        <3> QED
            BY <2>8, <3>1, <3>2, <1>2, ColumnFileAssumption, SMT DEF WriterInv
    <2>11. EveryGranuleMarked'
        <3>1. /\ (m + p) * GranuleSize >= NumRows
              /\ (m + p - 1) * GranuleSize < NumRows
            <4>1. NumRows = at + Len(block)
                BY <2>3
            <4> QED
                BY <4>1, <1>3, <1>5, <1>9, SMT
        <3>2. /\ Len(marks') * GranuleSize >= NumRows
              /\ (Len(marks') - 1) * GranuleSize < NumRows
            <4>1. Len(marks') = m + p
                BY <2>8
            <4> QED
                BY <3>1, <4>1, <1>3, SMT
        <3> QED
            BY <3>2, <1>8 DEF EveryGranuleMarked
    <2> QED
        BY <2>5, <2>7, <2>9, <2>10, <2>11, <1>7 DEF IInv
<1> QED
    BY <1>11, <1>12 DEF Finish

-----------------------------------------------------------------------------
(***************************************************************************)
(* The reader                                                              *)
(***************************************************************************)
\* A step of the reader changes nothing but its cache and the reply.
LEMMA ReaderKeeps ==
    ASSUME IInv, phase # "writing", phase' \in {"closed", "reading"},
           UNCHANGED <<column, writer, file>>,
           cache' \subseteq Block,
           \A b \in cache' : b.at \in DOMAIN bin /\ b.rows = bin[b.at],
           reply' \in [granule : Nat, rows : Seq(Rows), ok : BOOLEAN],
           reply'.ok /\ reply'.granule # 0 =>
               reply'.rows = [i \in 1..Length(reply'.granule) |->
                                  Before(reply'.granule) + i]
    PROVE  IInv'
<1>1. /\ UNCHANGED <<column, written, block, blockBytes, rowsInBlock,
                     rowsInGranule, pending, marks, bin, binBytes>>
    BY DEF writer, file
<1>2. /\ ColumnTypeOK /\ BlocksInv /\ MarksInv /\ WriterInv /\ CacheInv
      /\ EveryGranuleMarked /\ ReadsBack /\ BlocksBounded
    BY DEF IInv
<1>3. Rows' = Rows /\ NumRows' = NumRows
    BY <1>1 DEF Rows, NumRows
<1>4. ColumnTypeOK'
    BY <1>1, <1>2, <1>3 DEF ColumnTypeOK, Block, Mark
<1>5. BlocksInv' /\ MarksInv' /\ BlocksBounded'
    BY <1>2, SameFile
<1>6. WriterInv'
    BY <1>1, <1>2 DEF WriterInv, Before
<1>7. CacheInv'
    BY <1>1 DEF CacheInv
<1>8. EveryGranuleMarked'
    BY <1>1, <1>2, <1>3 DEF EveryGranuleMarked
<1>9. ReadsBack'
    BY <1>1, <1>3 DEF ReadsBack, Before, Length
<1> QED
    BY <1>4, <1>5, <1>6, <1>7, <1>8, <1>9 DEF IInv

LEMMA OpenReaderInv == IInv /\ OpenReader => IInv'
<1> SUFFICES ASSUME IInv, OpenReader PROVE IInv'
    OBVIOUS
<1>1. /\ phase # "writing" /\ phase' = "reading" /\ cache' = {}
      /\ UNCHANGED <<column, writer, file, reply>>
    BY DEF OpenReader
<1>2. ColumnTypeOK /\ ReadsBack
    BY DEF IInv
<1>3. cache' \subseteq Block /\ \A b \in cache' : b.at \in DOMAIN bin /\ b.rows = bin[b.at]
    BY <1>1
<1>4. /\ reply' = reply
      /\ reply \in [granule : Nat, rows : Seq(Rows), ok : BOOLEAN]
    BY <1>1, <1>2 DEF ColumnTypeOK
<1>5. reply.ok /\ reply.granule # 0 =>
          reply.rows = [i \in 1..Length(reply.granule) |-> Before(reply.granule) + i]
    BY <1>2 DEF ReadsBack
<1> QED
    BY <1>1, <1>3, <1>4, <1>5, ReaderKeeps

\* A granule cut out of the right block is the right granule, and the cache
\* holds the right block: it is found by the offset in the mark.
LEMMA ReadGranuleInv ==
    ASSUME NEW idx \in 1..Len(marks), IInv, ReadGranule(idx)
    PROVE  IInv'
<1> DEFINE at == marks[idx].block
<1>1. ColumnTypeOK /\ BlocksInv /\ MarksInv /\ CacheInv
    BY DEF IInv
<1>2. idx \in Nat /\ idx # 0
    <2>1. Len(marks) \in Nat
        BY <1>1, LenProperties DEF ColumnTypeOK
    <2> QED
        BY <2>1, SMT
<1>3. /\ Granule(idx, bin[at]) = [i \in 1..Length(idx) |-> Before(idx) + i]
      /\ Granule(idx, bin[at]) \in Seq(Rows)
    BY <1>1, GranuleCorrect
<1> HIDE DEF at
<1>4. ASSUME phase = "reading", UNCHANGED <<column, phase, writer, file>>,
             cache' \subseteq Block,
             \A b \in cache' : b.at \in DOMAIN bin /\ b.rows = bin[b.at],
             reply' = [granule |-> idx, rows |-> Granule(idx, bin[at]), ok |-> TRUE]
      PROVE  IInv'
    <2>1. /\ reply'.granule = idx /\ reply'.rows = Granule(idx, bin[at])
          /\ reply' \in [granule : Nat, rows : Seq(Rows), ok : BOOLEAN]
        BY <1>2, <1>3, <1>4
    <2> QED
        BY <2>1, <1>3, <1>4, ReaderKeeps
<1>5. CASE ReadCached(idx)
    <2>1. phase = "reading" /\ UNCHANGED <<column, phase, writer, file, cache>>
        BY <1>5 DEF ReadCached
    <2>2. PICK b \in cache :
              /\ b.at = at
              /\ reply' = [granule |-> idx, rows |-> Granule(idx, b.rows), ok |-> TRUE]
        BY <1>5 DEF ReadCached, at
    <2>3. /\ cache' \subseteq Block
          /\ \A c \in cache' : c.at \in DOMAIN bin /\ c.rows = bin[c.at]
        BY <2>1, <1>1 DEF ColumnTypeOK, CacheInv
    <2>4. b.rows = bin[at]
        BY <2>2, <1>1 DEF CacheInv
    <2> QED
        BY <2>1, <2>2, <2>3, <2>4, <1>4
<1>6. CASE ReadBlock(idx)
    <2>1. /\ phase = "reading" /\ UNCHANGED <<column, phase, writer, file>>
          /\ at \in DOMAIN bin
          /\ cache' = {[at |-> at, rows |-> bin[at]]}
          /\ reply' = [granule |-> idx, rows |-> Granule(idx, bin[at]), ok |-> TRUE]
        BY <1>6 DEF ReadBlock, at
    <2>2. [at |-> at, rows |-> bin[at]] \in Block
        BY <2>1, <1>1 DEF ColumnTypeOK, Block
    <2>3. /\ cache' \subseteq Block
          /\ \A b \in cache' : b.at \in DOMAIN bin /\ b.rows = bin[b.at]
        BY <2>1, <2>2
    <2> QED
        BY <2>1, <2>3, <1>4
<1>7. CASE ReadFails(idx)
    <2>1. /\ phase = "reading" /\ UNCHANGED <<column, phase, writer, file, cache>>
          /\ reply' = [granule |-> idx, rows |-> <<>>, ok |-> FALSE]
        BY <1>7 DEF ReadFails
    <2>2. reply' \in [granule : Nat, rows : Seq(Rows), ok : BOOLEAN] /\ ~ reply'.ok
        BY <2>1, <1>2, EmptySeq
    <2>3. /\ cache' \subseteq Block
          /\ \A b \in cache' : b.at \in DOMAIN bin /\ b.rows = bin[b.at]
        BY <2>1, <1>1 DEF ColumnTypeOK, CacheInv
    <2> QED
        BY <2>1, <2>2, <2>3, ReaderKeeps
<1> QED
    BY <1>5, <1>6, <1>7 DEF ReadGranule

-----------------------------------------------------------------------------
(***************************************************************************)
(* The theorems                                                            *)
(***************************************************************************)
LEMMA NextInv == IInv /\ [Next]_vars => IInv'
<1> SUFFICES ASSUME IInv, [Next]_vars PROVE IInv'
    OBVIOUS
<1>1. CASE AddRow
    BY <1>1, AddRowInv
<1>2. CASE Finish
    BY <1>2, FinishInv
<1>3. CASE OpenReader
    BY <1>3, OpenReaderInv
<1>4. ASSUME NEW idx \in 1..Len(marks), ReadGranule(idx)
      PROVE  IInv'
    BY <1>4, ReadGranuleInv
<1>5. CASE UNCHANGED vars
    <2>1. /\ UNCHANGED <<column, phase, written, block, blockBytes, rowsInBlock,
                         rowsInGranule, pending, marks, bin, binBytes, cache, reply>>
        BY <1>5 DEF vars, writer, file
    <2>2. /\ ColumnTypeOK /\ BlocksInv /\ MarksInv /\ WriterInv /\ CacheInv
          /\ EveryGranuleMarked /\ ReadsBack /\ BlocksBounded
        BY DEF IInv
    <2>3. Rows' = Rows /\ NumRows' = NumRows
        BY <2>1 DEF Rows, NumRows
    <2>4. ColumnTypeOK'
        BY <2>1, <2>2, <2>3 DEF ColumnTypeOK, Mark, Block
    <2>5. BlocksInv' /\ MarksInv' /\ BlocksBounded'
        BY <2>1, <2>2, SameFile DEF file
    <2>6. WriterInv'
        BY <2>1, <2>2 DEF WriterInv, Granules, Before
    <2>7. CacheInv' /\ EveryGranuleMarked'
        BY <2>1, <2>2, <2>3 DEF CacheInv, EveryGranuleMarked
    <2>8. ReadsBack'
        BY <2>1, <2>2, <2>3 DEF ReadsBack, Before, Length
    <2> QED
        BY <2>4, <2>5, <2>6, <2>7, <2>8 DEF IInv
<1> QED
    BY <1>1, <1>2, <1>3, <1>4, <1>5 DEF Next

LEMMA Invariance == Spec => []IInv
BY InitInv, NextInv, PTL DEF Spec

\* The variables of the writer loop and of the reader keep their types: the
\* row counter stays below a granule, and what is read is rows of the column.
THEOREM TypeCorrect == Spec => []ColumnTypeOK
<1>1. IInv => ColumnTypeOK
    BY DEF IInv
<1> QED
    BY <1>1, Invariance, PTL

\* write_column and write_string_column leave a mark for every granule, as
\* many for each column of a part, whatever the widths and the block sizes.
THEOREM MarksComplete == Spec => []EveryGranuleMarked
<1>1. IInv => EveryGranuleMarked
    BY DEF IInv
<1> QED
    BY <1>1, Invariance, PTL

\* read_granule returns the rows of the granule it was asked for, for any
\* order of calls, with the block cached or not, and after failed calls.
THEOREM GranulesReadBack == Spec => []ReadsBack
<1>1. IInv => ReadsBack
    BY DEF IInv
<1> QED
    BY <1>1, Invariance, PTL

\* A block has less than BLOCK_BUFFER_SIZE + GRANULE_SIZE rows, which is what
\* the run lengths of rle.rs rely on: the block is measured after each granule.
THEOREM BlocksAreBounded == Spec => []BlocksBounded
<1>1. IInv => BlocksBounded
    BY DEF IInv
<1> QED
    BY <1>1, Invariance, PTL
=============================================================================
