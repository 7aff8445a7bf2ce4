--------------------------- MODULE ZoneMapProofs ---------------------------
(***************************************************************************)
(* Proofs about ZoneMap for any columns, types and values, any batches and *)
(* any number of parts.                                                    *)
(***************************************************************************)
EXTENDS ZoneMap, FiniteSetTheorems, TLAPS

-----------------------------------------------------------------------------
(***************************************************************************)
(* Comparisons                                                             *)
(***************************************************************************)
\* Skipping is sound for every operator: if the bounds of a column exclude a
\* comparison with a literal (cmp_can_skip_signed, _unsigned and _float), then
\* the filter passes no value within the bounds.
THEOREM SkipIsSound ==
    ASSUME NEW min \in Value, NEW max \in Value, NEW v \in Value, NEW lit \in Value,
           NEW op \in CmpOps,
           Ordinary(v), Ordinary(lit), LessEq(min, v), LessEq(v, max),
           CmpCanSkip(op, min, max, lit)
    PROVE  ~ArrowCompare(op, v, lit)
<1>1. /\ min.ieee \in Int /\ max.ieee \in Int
      /\ v.ieee \in Int /\ v.total = v.ieee
      /\ lit.ieee \in Int /\ lit.total = lit.ieee
      /\ min.ieee <= v.ieee /\ v.ieee <= max.ieee
  BY DEF Value, Ordinary, LessEq
<1>2. CASE op = "Gt"
  BY <1>1, <1>2 DEF CmpCanSkip, ArrowCompare, LessEq
<1>3. CASE op = "GtEq"
  BY <1>1, <1>3 DEF CmpCanSkip, ArrowCompare, Less
<1>4. CASE op = "Lt"
  BY <1>1, <1>4 DEF CmpCanSkip, ArrowCompare, LessEq
<1>5. CASE op = "LtEq"
  BY <1>1, <1>5 DEF CmpCanSkip, ArrowCompare, Less
<1>6. CASE op = "Eq"
  BY <1>1, <1>6 DEF CmpCanSkip, ArrowCompare, Less
<1>7. CASE op = "NotEq"
  BY <1>1, <1>7 DEF CmpCanSkip, ArrowCompare, Equal
<1> QED
  BY <1>2, <1>3, <1>4, <1>5, <1>6, <1>7 DEF CmpOps

\* For the four inequalities the bounds decide: if the filter passes neither the
\* smallest nor the largest value, cmp_can_skip holds.
LEMMA BoundsDecide ==
    ASSUME NEW min \in Value, NEW max \in Value, NEW lit \in Value,
           NEW op \in {"Lt", "LtEq", "Gt", "GtEq"},
           Ordinary(min), Ordinary(max), Ordinary(lit),
           ~ArrowCompare(op, min, lit), ~ArrowCompare(op, max, lit)
    PROVE  CmpCanSkip(op, min, max, lit)
<1>1. /\ min.ieee \in Int /\ max.ieee \in Int /\ lit.ieee \in Int
      /\ ~min.nan /\ ~max.nan /\ ~lit.nan
      /\ min.total = min.ieee /\ max.total = max.ieee /\ lit.total = lit.ieee
  BY DEF Value, Ordinary
<1>2. CASE op = "Gt"
  BY <1>1, <1>2 DEF CmpCanSkip, ArrowCompare, LessEq
<1>3. CASE op = "GtEq"
  BY <1>1, <1>3 DEF CmpCanSkip, ArrowCompare, Less
<1>4. CASE op = "Lt"
  BY <1>1, <1>4 DEF CmpCanSkip, ArrowCompare, LessEq
<1>5. CASE op = "LtEq"
  BY <1>1, <1>5 DEF CmpCanSkip, ArrowCompare, Less
<1> QED
  BY <1>2, <1>3, <1>4, <1>5

-----------------------------------------------------------------------------
(***************************************************************************)
(* The file                                                                *)
(***************************************************************************)
Bound == [min : Value, max : Value]

\* The bounds of different columns are written at different offsets.
LEMMA OffsetsDiffer ==
    ASSUME NEW kept \in SUBSET Columns, NEW c \in kept, NEW d \in kept, c < d
    PROVE  Offset(kept, c) < Offset(kept, d)
<1> DEFINE before == {x \in kept : x < c}
           until == {x \in kept : x < d}
<1>1. /\ NumColumns \in Nat /\ c \in Int /\ d \in Int
      /\ \A x \in kept : x \in Int
  BY ZoneMapAssumption DEF Columns
<1>2. IsFiniteSet(until)
  <2>1. IsFiniteSet(Columns)
    BY <1>1, FS_Interval DEF Columns
  <2>2. until \in SUBSET Columns
    OBVIOUS
  <2> QED
    BY <2>1, <2>2, FS_Subset
<1>3. before \in SUBSET until /\ before # until
  <2>1. \A x \in before : x \in until
    BY <1>1
  <2>2. c \in until /\ c \notin before
    BY <1>1
  <2> HIDE DEF before, until
  <2> QED
    BY <2>1, <2>2
<1>4. /\ Cardinality(before) <= Cardinality(until)
      /\ Cardinality(before) # Cardinality(until)
  BY <1>2, <1>3, FS_Subset
<1>5. Cardinality(before) \in Nat /\ Cardinality(until) \in Nat
  BY <1>2, <1>3, FS_Subset, FS_CardinalityType
<1> HIDE DEF before, until
<1>6. 16 * Cardinality(before) < 16 * Cardinality(until)
  BY <1>4, <1>5
<1> QED
  BY <1>6 DEF Offset, before, until

\* read_zone_map returns the bounds that write_zone_map was given, each under
\* the column it belongs to.
THEOREM ZonesReadBack ==
    ASSUME NEW kept \in SUBSET Columns, NEW bounds \in [kept -> Bound]
    PROVE  ReadZoneMap(ZoneFile(kept, bounds)) =
               [c \in kept |-> [tag |-> TypeTag(TypeOf[c]),
                                min |-> bounds[c].min, max |-> bounds[c].max]]
<1> DEFINE file == ZoneFile(kept, bounds)
           offsets == {Offset(kept, c) : c \in kept}
           Owner(o) == CHOOSE c \in kept : Offset(kept, c) = o
<1>1. ASSUME NEW c \in kept
      PROVE  Owner(Offset(kept, c)) = c
  <2>1. /\ Owner(Offset(kept, c)) \in kept
        /\ Offset(kept, Owner(Offset(kept, c))) = Offset(kept, c)
    OBVIOUS
  <2> DEFINE d == Owner(Offset(kept, c))
  <2> HIDE DEF d
  <2>2. d \in kept /\ Offset(kept, d) = Offset(kept, c)
    BY <2>1 DEF d
  <2>3. c \in Int /\ d \in Int
    BY <2>2, ZoneMapAssumption DEF Columns
  <2>4. ~(c < d) /\ ~(d < c)
    <3>1. c < d => Offset(kept, c) < Offset(kept, d)
      BY <2>2, OffsetsDiffer
    <3>2. d < c => Offset(kept, d) < Offset(kept, c)
      BY <2>2, OffsetsDiffer
    <3>3. Offset(kept, c) \in Int
      <4>1. {x \in kept : x < c} \in SUBSET Columns
        OBVIOUS
      <4>2. IsFiniteSet(Columns)
        BY ZoneMapAssumption, FS_Interval DEF Columns
      <4>3. Cardinality({x \in kept : x < c}) \in Nat
        BY <4>1, <4>2, FS_Subset, FS_CardinalityType
      <4> QED
        BY <4>3 DEF Offset
    <3> QED
      BY <2>2, <3>1, <3>2, <3>3
  <2> QED
    BY <2>3, <2>4 DEF d
<1>2. /\ file.headers = [c \in kept |-> [tag |-> TypeTag(TypeOf[c]),
                                         offset |-> Offset(kept, c)]]
      /\ file.data = [o \in offsets |-> bounds[Owner(o)]]
  BY DEF ZoneFile
<1> HIDE DEF file, Owner
<1>3. ASSUME NEW c \in kept
      PROVE  /\ file.headers[c].tag = TypeTag(TypeOf[c])
             /\ file.data[file.headers[c].offset] = bounds[c]
  <2>1. file.headers[c] = [tag |-> TypeTag(TypeOf[c]), offset |-> Offset(kept, c)]
    BY <1>2
  <2>2. file.data[Offset(kept, c)] = bounds[Owner(Offset(kept, c))]
    BY <1>2
  <2> QED
    BY <1>1, <2>1, <2>2
<1>4. DOMAIN file.headers = kept
  BY <1>2
<1>5. ReadZoneMap(file) =
          [c \in kept |-> [tag |-> file.headers[c].tag,
                           min |-> file.data[file.headers[c].offset].min,
                           max |-> file.data[file.headers[c].offset].max]]
  BY <1>4 DEF ReadZoneMap
<1> QED
  BY <1>3, <1>5 DEF file

-----------------------------------------------------------------------------
(***************************************************************************)
(* The inductive invariant                                                 *)
(***************************************************************************)
\* lo and hi are what the loop of write_column has after n values: nothing
\* before the first, then one value each, and the bounds of those n values.
RunningBounds(rows, c, n, lo, hi) ==
    IF n = 0 THEN lo = {} /\ hi = {}
    ELSE \E min \in lo, max \in hi :
             /\ lo = {min} /\ hi = {max}
             /\ (\A k \in 1..n : Ordinary(rows[k][c])) =>
                   /\ \A k \in 1..n : LessEq(min, rows[k][c]) /\ LessEq(rows[k][c], max)
                   /\ \E k, l \in 1..n : min = rows[k][c] /\ max = rows[l][c]

\* While a part is written, every column has the bounds of the rows so far.
WritingInv ==
    /\ writing \in BOOLEAN
    /\ batch \in Seq(Row)
    /\ pos \in [Columns -> Nat]
    /\ low \in [Columns -> SUBSET Value]
    /\ high \in [Columns -> SUBSET Value]
    /\ \A c \in Columns : /\ pos[c] <= Len(batch)
                          /\ RunningBounds(batch, c, pos[c], low[c], high[c])

\* A part with rows has a file of the bounds of its numeric columns, and a
\* part without rows an empty one.
BoundsOf(rows, kept) ==
    {bounds \in [kept -> Bound] :
        \A c \in kept : OrdinaryColumn(rows, c) =>
                           Bounds(rows, c, bounds[c].min, bounds[c].max)}
PartFiles(rows) ==
    LET kept == IF Len(rows) = 0 THEN {} ELSE Zoned
    IN  {ZoneFile(kept, bounds) : bounds \in BoundsOf(rows, kept)}
WholeParts == UNION {{[rows |-> r, zonemap |-> f] : f \in PartFiles(r)} : r \in Seq(Row)}

IInv == WritingInv /\ parts \in Seq(WholeParts)

-----------------------------------------------------------------------------
\* The first value of a column is its bounds.
LEMMA FirstBounds ==
    ASSUME NEW rows \in Seq(Row), NEW c \in Columns, Len(rows) > 0
    PROVE  RunningBounds(rows, c, 1, {rows[1][c]}, {rows[1][c]})
<1> DEFINE v == rows[1][c]
<1>1. v \in Value
  BY DEF Row
<1>2. Ordinary(v) => LessEq(v, v)
  BY <1>1 DEF Ordinary, LessEq, Value
<1>3. \A k \in 1..1 : rows[k][c] = v
  OBVIOUS
<1>4. 1 \in 1..1 /\ 1 # 0
  OBVIOUS
<1> HIDE DEF v
<1>5. (\A k \in 1..1 : Ordinary(rows[k][c])) =>
         /\ \A k \in 1..1 : LessEq(v, rows[k][c]) /\ LessEq(rows[k][c], v)
         /\ \E k, l \in 1..1 : v = rows[k][c] /\ v = rows[l][c]
  BY <1>2, <1>3, <1>4
<1>6. RunningBounds(rows, c, 1, {v}, {v})
  BY <1>4, <1>5 DEF RunningBounds
<1> QED
  BY <1>6 DEF v

\* One turn of the loop extends the bounds to one more value.
LEMMA NextBounds ==
    ASSUME NEW rows \in Seq(Row), NEW c \in Columns, NEW n \in Nat \ {0}, n < Len(rows),
           NEW lo \in SUBSET Value, NEW hi \in SUBSET Value,
           RunningBounds(rows, c, n, lo, hi)
    PROVE  RunningBounds(rows, c, n + 1, {Lesser(rows[n + 1][c], m) : m \in lo},
                         {Greater(rows[n + 1][c], m) : m \in hi})
<1> DEFINE v == rows[n + 1][c]
<1>1. PICK min \in lo, max \in hi :
          /\ lo = {min} /\ hi = {max}
          /\ (\A k \in 1..n : Ordinary(rows[k][c])) =>
                /\ \A k \in 1..n : LessEq(min, rows[k][c]) /\ LessEq(rows[k][c], max)
                /\ \E k, l \in 1..n : min = rows[k][c] /\ max = rows[l][c]
  BY DEF RunningBounds
<1> DEFINE newMin == Lesser(v, min)
           newMax == Greater(v, max)
<1>2. /\ {Lesser(v, m) : m \in lo} = {newMin}
      /\ {Greater(v, m) : m \in hi} = {newMax}
  BY <1>1
<1>3. v \in Value /\ min \in Value /\ max \in Value
  BY DEF Row
<1>4. ASSUME \A k \in 1..(n + 1) : Ordinary(rows[k][c])
      PROVE  /\ \A k \in 1..(n + 1) : LessEq(newMin, rows[k][c]) /\ LessEq(rows[k][c], newMax)
             /\ \E k, l \in 1..(n + 1) : newMin = rows[k][c] /\ newMax = rows[l][c]
  <2>1. /\ \A k \in 1..n : LessEq(min, rows[k][c]) /\ LessEq(rows[k][c], max)
        /\ \E k, l \in 1..n : min = rows[k][c] /\ max = rows[l][c]
    BY <1>1, <1>4
  <2>2. PICK kmin \in 1..n, kmax \in 1..n : min = rows[kmin][c] /\ max = rows[kmax][c]
    BY <2>1
  <2>3. Ordinary(min) /\ Ordinary(max) /\ Ordinary(v)
    <3>1. kmin \in 1..(n + 1) /\ kmax \in 1..(n + 1) /\ n + 1 \in 1..(n + 1)
      OBVIOUS
    <3> QED
      BY <1>4, <2>2, <3>1
  <2>4. /\ v.ieee \in Int /\ min.ieee \in Int /\ max.ieee \in Int
        /\ ~v.nan /\ ~min.nan /\ ~max.nan
    BY <1>3, <2>3 DEF Value, Ordinary
  <2>5. ASSUME NEW k \in 1..(n + 1)
        PROVE  LessEq(newMin, rows[k][c]) /\ LessEq(rows[k][c], newMax)
    <3> DEFINE w == rows[k][c]
    <3>1. w \in Value /\ Ordinary(w)
      BY <1>4, <2>5 DEF Row
    <3>2. w.ieee \in Int /\ ~w.nan
      BY <3>1 DEF Value, Ordinary
    <3>3. w = v \/ (LessEq(min, w) /\ LessEq(w, max))
      <4>1. k = n + 1 \/ k \in 1..n
        BY <2>5
      <4> QED
        BY <2>1, <4>1
    <3> HIDE DEF w, v
    <3> QED
      BY <2>4, <3>2, <3>3 DEF Lesser, Greater, Less, LessEq, w
  <2>6. \E k \in 1..(n + 1) : newMin = rows[k][c]
    BY <2>2 DEF Lesser
  <2>7. \E l \in 1..(n + 1) : newMax = rows[l][c]
    BY <2>2 DEF Greater
  <2> QED
    BY <2>5, <2>6, <2>7
<1>5. n + 1 # 0
  OBVIOUS
<1> HIDE DEF newMin, newMax
<1>6. RunningBounds(rows, c, n + 1, {newMin}, {newMax})
  BY <1>4, <1>5 DEF RunningBounds
<1> QED
  BY <1>2, <1>6

-----------------------------------------------------------------------------
(***************************************************************************)
(* The invariant is inductive                                              *)
(***************************************************************************)
LEMMA InitIInv == ZoneInit => IInv
<1> SUFFICES ASSUME ZoneInit PROVE IInv
  OBVIOUS
<1>1. WritingInv
  <2>1. batch = <<>> /\ Len(batch) = 0 /\ batch \in Seq(Row)
    BY DEF ZoneInit
  <2>2. /\ pos = [c \in Columns |-> 0]
        /\ low = [c \in Columns |-> {}] /\ high = [c \in Columns |-> {}]
    BY DEF ZoneInit
  <2>3. ASSUME NEW c \in Columns
        PROVE  pos[c] <= Len(batch) /\ RunningBounds(batch, c, pos[c], low[c], high[c])
    BY <2>1, <2>2 DEF RunningBounds
  <2>4. /\ pos \in [Columns -> Nat]
        /\ low \in [Columns -> SUBSET Value] /\ high \in [Columns -> SUBSET Value]
    BY <2>2
  <2>5. writing \in BOOLEAN
    BY DEF ZoneInit
  <2> QED
    BY <2>1, <2>3, <2>4, <2>5 DEF WritingInv
<1>2. parts \in Seq(WholeParts)
  BY DEF ZoneInit
<1> QED
  BY <1>1, <1>2 DEF IInv

\* A part whose columns are all written has the bounds of its columns.
LEMMA FinishedIsWhole ==
    ASSUME IInv, FinishPart
    PROVE  parts' \in Seq(WholeParts)
<1> DEFINE kept == {c \in Zoned : low[c] # {} /\ high[c] # {}}
           bounds == [c \in kept |-> [min |-> CHOOSE m \in low[c] : TRUE,
                                      max |-> CHOOSE m \in high[c] : TRUE]]
           part == [rows |-> batch, zonemap |-> ZoneFile(kept, bounds)]
<1>1. parts' = Append(parts, part)
  BY DEF FinishPart
<1>2. ASSUME NEW c \in Columns
      PROVE  RunningBounds(batch, c, Len(batch), low[c], high[c])
  BY DEF IInv, WritingInv, FinishPart
<1>3. batch \in Seq(Row) /\ Len(batch) \in Nat
  BY DEF IInv, WritingInv
<1>4. kept = IF Len(batch) = 0 THEN {} ELSE Zoned
  BY <1>2 DEF RunningBounds, Zoned
<1>5. ASSUME NEW c \in kept
      PROVE  /\ bounds[c] \in Bound
             /\ OrdinaryColumn(batch, c) => Bounds(batch, c, bounds[c].min, bounds[c].max)
  <2>1. c \in Columns /\ Len(batch) # 0
    BY <1>4 DEF Zoned
  <2>2. PICK min \in low[c], max \in high[c] :
            /\ low[c] = {min} /\ high[c] = {max}
            /\ (\A k \in 1..Len(batch) : Ordinary(batch[k][c])) =>
                  /\ \A k \in 1..Len(batch) :
                        LessEq(min, batch[k][c]) /\ LessEq(batch[k][c], max)
                  /\ \E k, l \in 1..Len(batch) : min = batch[k][c] /\ max = batch[l][c]
    BY <1>2, <2>1 DEF RunningBounds
  <2>3. bounds[c] = [min |-> min, max |-> max]
    BY <2>2
  <2>4. min \in Value /\ max \in Value
    BY <2>1, <2>2 DEF IInv, WritingInv
  <2> QED
    BY <2>2, <2>3, <2>4 DEF Bound, OrdinaryColumn, Bounds
<1>6. bounds \in BoundsOf(batch, kept)
  <2>1. bounds \in [kept -> Bound]
    BY <1>5
  <2> QED
    BY <1>5, <2>1 DEF BoundsOf
<1> HIDE DEF kept, bounds
<1>7. ZoneFile(kept, bounds) \in PartFiles(batch)
  BY <1>4, <1>6 DEF PartFiles
<1>8. part \in WholeParts
  BY <1>3, <1>7 DEF WholeParts
<1> HIDE DEF part
<1> QED
  BY <1>1, <1>8 DEF IInv

LEMMA NextIInv == IInv /\ [Insert]_zoneVars => IInv'
<1> SUFFICES ASSUME IInv, [Insert]_zoneVars
             PROVE  IInv'
  OBVIOUS
<1>1. ASSUME NEW rows \in Batches, BeginInsert(rows)
      PROVE  IInv'
  <2>1. rows \in Seq(Row) /\ Len(rows) \in Nat
    BY ZoneMapAssumption
  <2>2. WritingInv'
    BY <1>1, <2>1 DEF BeginInsert, WritingInv, RunningBounds
  <2> QED
    BY <1>1, <2>2 DEF BeginInsert, IInv
<1>2. ASSUME NEW c \in Columns, NextValue(c)
      PROVE  IInv'
  <2>1. /\ batch \in Seq(Row) /\ pos \in [Columns -> Nat]
        /\ low \in [Columns -> SUBSET Value] /\ high \in [Columns -> SUBSET Value]
        /\ \A d \in Columns : /\ pos[d] <= Len(batch)
                              /\ RunningBounds(batch, d, pos[d], low[d], high[d])
    BY DEF IInv, WritingInv
  <2> DEFINE v == batch[pos[c] + 1][c]
             lo == IF low[c] = {} THEN {v} ELSE {Lesser(v, m) : m \in low[c]}
             hi == IF high[c] = {} THEN {v} ELSE {Greater(v, m) : m \in high[c]}
  <2>2. /\ pos[c] < Len(batch)
        /\ low' = [low EXCEPT ![c] = lo]
        /\ high' = [high EXCEPT ![c] = hi]
        /\ pos' = [pos EXCEPT ![c] = pos[c] + 1]
        /\ UNCHANGED <<writing, batch, parts>>
    BY <1>2 DEF NextValue
  <2>3. pos[c] \in Nat /\ Len(batch) \in Nat /\ v \in Value
    BY <2>1, <2>2 DEF Row
  <2>4. RunningBounds(batch, c, pos[c] + 1, lo, hi)
    <3>1. CASE pos[c] = 0
      <4>1. low[c] = {} /\ high[c] = {}
        BY <2>1, <3>1 DEF RunningBounds
      <4>2. Len(batch) > 0 /\ pos[c] + 1 = 1
        BY <2>2, <2>3, <3>1
      <4> QED
        BY <2>1, <4>1, <4>2, FirstBounds
    <3>2. CASE pos[c] # 0
      <4>1. low[c] # {} /\ high[c] # {}
        BY <2>1, <3>2 DEF RunningBounds
      <4>2. pos[c] \in Nat \ {0}
        BY <2>3, <3>2
      <4> QED
        BY <2>1, <2>2, <4>1, <4>2, NextBounds
    <3> QED
      BY <3>1, <3>2
  <2>5. lo \in SUBSET Value /\ hi \in SUBSET Value
    BY <2>1, <2>3 DEF Lesser, Greater
  <2> HIDE DEF lo, hi
  <2>6. /\ low' \in [Columns -> SUBSET Value]
        /\ high' \in [Columns -> SUBSET Value]
        /\ pos' \in [Columns -> Nat]
    BY <2>1, <2>2, <2>3, <2>5
  <2>7. ASSUME NEW d \in Columns
        PROVE  /\ pos'[d] <= Len(batch)
               /\ RunningBounds(batch, d, pos'[d], low'[d], high'[d])
    <3>1. CASE d = c
      <4>1. pos'[d] = pos[c] + 1 /\ low'[d] = lo /\ high'[d] = hi
        BY <2>1, <2>2, <3>1
      <4>2. pos[c] + 1 <= Len(batch)
        BY <2>2, <2>3
      <4> QED
        BY <2>4, <3>1, <4>1, <4>2
    <3>2. CASE d # c
      <4>1. pos'[d] = pos[d] /\ low'[d] = low[d] /\ high'[d] = high[d]
        BY <2>1, <2>2, <3>2
      <4> QED
        BY <2>1, <4>1
    <3> QED
      BY <3>1, <3>2
  <2>8. WritingInv'
    BY <2>2, <2>6, <2>7 DEF IInv, WritingInv
  <2> QED
    BY <2>2, <2>8 DEF IInv
<1>3. CASE FinishPart
  <2>1. WritingInv'
    BY <1>3 DEF FinishPart, IInv, WritingInv
  <2> QED
    BY <1>3, <2>1, FinishedIsWhole DEF IInv
<1>4. CASE UNCHANGED zoneVars
  BY <1>4 DEF zoneVars, insertVars, IInv, WritingInv
<1> QED
  BY <1>1, <1>2, <1>3, <1>4 DEF Insert

-----------------------------------------------------------------------------
(***************************************************************************)
(* What follows from the invariant                                         *)
(***************************************************************************)
\* What is read from the zone map of a part of the table.
LEMMA PartZones ==
    ASSUME IInv, NEW i \in 1..Len(parts)
    PROVE  LET rows == parts[i].rows
               zones == ReadZoneMap(parts[i].zonemap)
           IN  /\ rows \in Seq(Row)
               /\ DOMAIN zones = IF Len(rows) = 0 THEN {} ELSE Zoned
               /\ \A c \in DOMAIN zones :
                      /\ zones[c].tag = TypeTag(TypeOf[c])
                      /\ zones[c].min \in Value /\ zones[c].max \in Value
                      /\ OrdinaryColumn(rows, c) =>
                             Bounds(rows, c, zones[c].min, zones[c].max)
<1> DEFINE rows == parts[i].rows
           kept == IF Len(rows) = 0 THEN {} ELSE Zoned
           zones == ReadZoneMap(parts[i].zonemap)
<1>1. parts[i] \in WholeParts
  BY DEF IInv
<1>2. rows \in Seq(Row) /\ parts[i].zonemap \in PartFiles(rows)
  BY <1>1 DEF WholeParts
<1>3. PICK bounds \in BoundsOf(rows, kept) : parts[i].zonemap = ZoneFile(kept, bounds)
  BY <1>2 DEF PartFiles
<1>4. kept \in SUBSET Columns
  BY DEF Zoned
<1> HIDE DEF kept
<1>5. bounds \in [kept -> Bound]
  BY DEF BoundsOf
<1>6. zones = [c \in kept |-> [tag |-> TypeTag(TypeOf[c]),
                               min |-> bounds[c].min, max |-> bounds[c].max]]
  BY <1>3, <1>4, <1>5, ZonesReadBack
<1> HIDE DEF zones
<1>7. DOMAIN zones = kept
  BY <1>6
<1>8. ASSUME NEW c \in kept
      PROVE  /\ zones[c].tag = TypeTag(TypeOf[c])
             /\ zones[c].min \in Value /\ zones[c].max \in Value
             /\ OrdinaryColumn(rows, c) => Bounds(rows, c, zones[c].min, zones[c].max)
  <2>1. zones[c] = [tag |-> TypeTag(TypeOf[c]), min |-> bounds[c].min, max |-> bounds[c].max]
    BY <1>6
  <2>2. bounds[c] \in Bound
    BY <1>5
  <2>3. bounds[c].min \in Value /\ bounds[c].max \in Value
    BY <2>2 DEF Bound
  <2>4. OrdinaryColumn(rows, c) => Bounds(rows, c, bounds[c].min, bounds[c].max)
    BY DEF BoundsOf
  <2> QED
    BY <2>1, <2>3, <2>4
<1>9. DOMAIN zones = IF Len(rows) = 0 THEN {} ELSE Zoned
  BY <1>7 DEF kept
<1> QED
  BY <1>2, <1>7, <1>8, <1>9 DEF zones

LEMMA Invariance == ZoneSpec => []IInv
BY InitIInv, NextIInv, PTL DEF ZoneSpec

LEMMA ZoneTypes == IInv => ZoneTypeOK
<1> SUFFICES ASSUME IInv PROVE ZoneTypeOK
  OBVIOUS
<1>1. writing \in BOOLEAN /\ batch \in Seq(Row)
  BY DEF IInv, WritingInv
<1>2. pos \in [Columns -> 0..Len(batch)]
  <2>1. pos \in [Columns -> Nat] /\ \A c \in Columns : pos[c] <= Len(batch)
    BY DEF IInv, WritingInv
  <2>2. Len(batch) \in Nat
    BY <1>1
  <2> QED
    BY <2>1, <2>2
<1>3. \A c \in Columns : \A m \in low[c] \cup high[c] : m \in Value
  BY DEF IInv, WritingInv
<1>4. ASSUME NEW i \in 1..Len(parts)
      PROVE  parts[i].rows \in Seq(Row) /\ ZoneType(ReadZoneMap(parts[i].zonemap))
  <2> DEFINE zones == ReadZoneMap(parts[i].zonemap)
  <2>1. /\ parts[i].rows \in Seq(Row)
        /\ DOMAIN zones = IF Len(parts[i].rows) = 0 THEN {} ELSE Zoned
        /\ \A c \in DOMAIN zones : /\ zones[c].tag = TypeTag(TypeOf[c])
                                   /\ zones[c].min \in Value
                                   /\ zones[c].max \in Value
    BY PartZones
  <2> HIDE DEF zones
  <2>2. DOMAIN zones \subseteq Columns
    BY <2>1 DEF Zoned
  <2>3. ASSUME NEW c \in DOMAIN zones
        PROVE  zones[c].tag \in 1..12
    <3>1. TypeOf[c] \in DataTypes
      BY <2>2, ZoneMapAssumption
    <3>2. TypeTag(TypeOf[c]) \in 1..12
      BY <3>1 DEF DataTypes, TypeTag
    <3> QED
      BY <2>1, <3>2
  <2>4. ZoneType(zones)
    BY <2>1, <2>2, <2>3 DEF ZoneType
  <2> QED
    BY <2>1, <2>4 DEF zones
<1> QED
  BY <1>1, <1>2, <1>3, <1>4 DEF ZoneTypeOK

\* Every variable keeps the type of what it stands for in write_column,
\* TableWriter::insert and the files.
THEOREM TypeCorrect == ZoneSpec => []ZoneTypeOK
BY ZoneTypes, Invariance, PTL

\* The zone maps of all parts are the tight bounds of their numeric columns,
\* whatever the order in which the columns are written (write_one_column runs
\* in parallel), and read_zone_map finds each under its own column.
THEOREM ZoneMapsHold == ZoneSpec => []ZonesAreBounds
<1>1. IInv => ZonesAreBounds
  BY PartZones DEF ZonesAreBounds
<1> QED
  BY <1>1, Invariance, PTL

\* A part that a comparison excludes has no row that passes it.
ExcludedRowsDoNotPass ==
    \A i \in 1..Len(parts) : \A c \in Columns : \A op \in CmpOps :
        \A kind \in {"I64", "U64", "F64"} : \A lit \in Value :
            /\ Ordinary(lit) /\ OrdinaryColumn(parts[i].rows, c)
            /\ CompareCanSkip(ReadZoneMap(parts[i].zonemap), c, op, kind, lit)
            => \A k \in 1..Len(parts[i].rows) :
                  ~ArrowCompare(op, parts[i].rows[k][c], lit)

LEMMA SkipsSoundly == IInv => ExcludedRowsDoNotPass
<1>1. ASSUME IInv, NEW i \in 1..Len(parts), NEW c \in Columns, NEW op \in CmpOps,
             NEW kind \in {"I64", "U64", "F64"}, NEW lit \in Value,
             Ordinary(lit), OrdinaryColumn(parts[i].rows, c),
             CompareCanSkip(ReadZoneMap(parts[i].zonemap), c, op, kind, lit),
             NEW k \in 1..Len(parts[i].rows)
      PROVE  ~ArrowCompare(op, parts[i].rows[k][c], lit)
  <2> DEFINE rows == parts[i].rows
             zones == ReadZoneMap(parts[i].zonemap)
             v == rows[k][c]
  <2>1. c \in DOMAIN zones /\ CmpCanSkip(op, zones[c].min, zones[c].max, lit)
    BY <1>1 DEF CompareCanSkip
  <2>2. /\ rows \in Seq(Row)
        /\ zones[c].min \in Value /\ zones[c].max \in Value
        /\ Bounds(rows, c, zones[c].min, zones[c].max)
    BY <1>1, <2>1, PartZones
  <2>3. /\ v \in Value /\ Ordinary(v)
        /\ LessEq(zones[c].min, v) /\ LessEq(v, zones[c].max)
    BY <1>1, <2>2 DEF Bounds, OrdinaryColumn, Row
  <2> HIDE DEF v, zones
  <2>4. ~ArrowCompare(op, v, lit)
    BY <1>1, <2>1, <2>2, <2>3, SkipIsSound
  <2> QED
    BY <2>4 DEF v
<1> QED
  BY <1>1 DEF ExcludedRowsDoNotPass

\* A comparison that zone_map_can_skip finds excluded by the zone map of a
\* part has no row in it that FilterExec would pass, for a column of ordinary
\* values and an ordinary literal of any kind.
THEOREM ComparisonsSkipSoundly == ZoneSpec => []ExcludedRowsDoNotPass
BY SkipsSoundly, Invariance, PTL

\* The types that have the width of their bounds.
Wide == {"I64", "U64", "F64"}

\* An inequality whose literal is of the column's type, as narrow_literal leaves
\* it, skips a part with rows exactly if no row passes and the type is wide.
SkippedExactlyIfWide ==
    \A i \in 1..Len(parts) : \A c \in Zoned :
        \A op \in {"Lt", "LtEq", "Gt", "GtEq"} : \A lit \in Value :
            LET rows == parts[i].rows
            IN  /\ Len(rows) > 0 /\ OrdinaryColumn(rows, c) /\ Ordinary(lit)
                => (CompareCanSkip(ReadZoneMap(parts[i].zonemap), c, op, TypeOf[c], lit)
                    <=> /\ TypeOf[c] \in Wide
                        /\ \A k \in 1..Len(rows) : ~ArrowCompare(op, rows[k][c], lit))

\* The kind of literal that zone_map_can_skip compares with a column's bounds is
\* the column's own type only if that is wide.
LEMMA KindOfColumn ==
    ASSUME NEW c \in Zoned
    PROVE  KindOfTag(TypeTag(TypeOf[c])) = TypeOf[c] <=> TypeOf[c] \in Wide
<1>1. TypeOf[c] \in DataTypes \ {"Bool", "Str"}
  BY ZoneMapAssumption DEF Zoned
<1>2. CASE TypeOf[c] \in {"I8", "I16", "I32", "I64"}
  <2>1. TypeTag(TypeOf[c]) \in 1..4
    BY <1>2 DEF TypeTag
  <2>2. KindOfTag(TypeTag(TypeOf[c])) = "I64"
    BY <2>1 DEF KindOfTag
  <2> QED
    BY <1>2, <2>2 DEF Wide
<1>3. CASE TypeOf[c] \in {"U8", "U16", "U32", "U64"}
  <2>1. TypeTag(TypeOf[c]) \in 5..8
    BY <1>3 DEF TypeTag
  <2>2. KindOfTag(TypeTag(TypeOf[c])) = "U64"
    BY <2>1 DEF KindOfTag
  <2> QED
    BY <1>3, <2>2 DEF Wide
<1>4. CASE TypeOf[c] \in {"F32", "F64"}
  <2>1. TypeTag(TypeOf[c]) \in 9..10
    BY <1>4 DEF TypeTag
  <2>2. KindOfTag(TypeTag(TypeOf[c])) = "F64"
    BY <2>1 DEF KindOfTag
  <2> QED
    BY <1>4, <2>2 DEF Wide
<1> QED
  BY <1>1, <1>2, <1>3, <1>4 DEF DataTypes

LEMMA SkipsExactly == IInv => SkippedExactlyIfWide
<1>1. ASSUME IInv, NEW i \in 1..Len(parts), NEW c \in Zoned,
             NEW op \in {"Lt", "LtEq", "Gt", "GtEq"}, NEW lit \in Value,
             Len(parts[i].rows) > 0, OrdinaryColumn(parts[i].rows, c), Ordinary(lit)
      PROVE  CompareCanSkip(ReadZoneMap(parts[i].zonemap), c, op, TypeOf[c], lit)
             <=> /\ TypeOf[c] \in Wide
                 /\ \A k \in 1..Len(parts[i].rows) :
                       ~ArrowCompare(op, parts[i].rows[k][c], lit)
  <2> DEFINE rows == parts[i].rows
             zones == ReadZoneMap(parts[i].zonemap)
             nonePasses == \A k \in 1..Len(rows) : ~ArrowCompare(op, rows[k][c], lit)
  <2>1. c \in Columns /\ op \in CmpOps
    BY DEF Zoned, CmpOps
  <2>2. /\ rows \in Seq(Row) /\ c \in DOMAIN zones /\ Len(rows) \in Nat
        /\ zones[c].tag = TypeTag(TypeOf[c])
        /\ zones[c].min \in Value /\ zones[c].max \in Value
        /\ Bounds(rows, c, zones[c].min, zones[c].max)
    BY <1>1, PartZones
  <2>3. CompareCanSkip(zones, c, op, TypeOf[c], lit)
        <=> TypeOf[c] \in Wide /\ CmpCanSkip(op, zones[c].min, zones[c].max, lit)
    BY <2>2, KindOfColumn DEF CompareCanSkip
  <2>4. ASSUME CompareCanSkip(zones, c, op, TypeOf[c], lit) PROVE nonePasses
    <3>1. TypeOf[c] \in {"I64", "U64", "F64"}
      BY <2>3, <2>4 DEF Wide
    <3> QED
      BY <1>1, <2>1, <2>4, <3>1, SkipsSoundly DEF ExcludedRowsDoNotPass
  <2>5. ASSUME nonePasses PROVE CmpCanSkip(op, zones[c].min, zones[c].max, lit)
    <3>1. PICK k \in 1..Len(rows), l \in 1..Len(rows) :
              zones[c].min = rows[k][c] /\ zones[c].max = rows[l][c]
      BY <2>2 DEF Bounds
    <3>2. Ordinary(zones[c].min) /\ Ordinary(zones[c].max)
      BY <1>1, <3>1 DEF OrdinaryColumn
    <3>3. ~ArrowCompare(op, zones[c].min, lit) /\ ~ArrowCompare(op, zones[c].max, lit)
      BY <2>5, <3>1
    <3> QED
      BY <1>1, <2>2, <3>2, <3>3, BoundsDecide
  <2> QED
    BY <2>3, <2>4, <2>5
<1> QED
  BY <1>1 DEF SkippedExactlyIfWide

\* Skipping misses no part it could skip where zone_map_can_skip compares at
\* all: in an I64, U64 or F64 column of ordinary values an inequality skips
\* exactly the parts without a row that passes.  The literal of a narrower
\* column has been narrowed to a kind that no arm of zone_map_can_skip has, so
\* that no part is skipped for it.
THEOREM WideColumnsSkipExactly == ZoneSpec => []SkippedExactlyIfWide
BY SkipsExactly, Invariance, PTL
=============================================================================
