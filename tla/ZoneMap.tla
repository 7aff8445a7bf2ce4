------------------------------ MODULE ZoneMap ------------------------------
(***************************************************************************)
(* The zone maps of a table: the smallest and the largest value of every   *)
(* numeric column of a part, kept in part.zonemap, and what a comparison   *)
(* of a column with a literal concludes from them: storage/zone_map.rs,    *)
(* the min/max loop of storage/column_writer.rs, write_one_column of       *)
(* storage/table_writer.rs, and the cmp_can_skip functions of              *)
(* execution/zone_map_scan.rs.                                             *)
(*                                                                         *)
(* A value is abstracted to its place in two orders, and nan.  `ieee' is   *)
(* its place in the order of Rust's < on its type, where -0.0 and 0.0 have *)
(* the same place and a NaN has none; `total' is its place in the order of *)
(* Arrow's comparison kernels (IEEE totalOrder for floats), where -0.0     *)
(* comes before 0.0 and a NaN after (or, negative, before) every number.   *)
(* For every other type the two orders are the same.  Widening a value to  *)
(* i64, u64 or f64 keeps its place in both.                                *)
(*                                                                         *)
(* An insert that fails or is cut short leaves no part (TableWriter), so   *)
(* only inserts that succeed are modelled here.                            *)
(***************************************************************************)
EXTENDS Integers, Sequences, FiniteSets

CONSTANTS NumColumns,  \* the columns of the table are 1..NumColumns
          TypeOf,      \* their types
          Batches,     \* the batches of rows that may be inserted
          MaxParts     \* bound: the number of parts

Columns == 1..NumColumns
DataTypes == {"I8", "I16", "I32", "I64", "U8", "U16", "U32", "U64",
              "F32", "F64", "Bool", "Str"}
Value == [ieee : Int, total : Int, nan : BOOLEAN]
Row == [Columns -> Value]

ASSUME ZoneMapAssumption ==
    /\ NumColumns \in Nat
    /\ TypeOf \in [Columns -> DataTypes]
    /\ Batches \subseteq Seq(Row)
    /\ MaxParts \in Nat

VARIABLES writing,  \* an insert is writing the columns of a part
          batch,    \* its rows
          pos,      \* for each column, the values write_column has taken
          low,      \* min_val of each column: at most one value, as a set
          high,     \* max_val
          parts     \* the parts: their rows and their part.zonemap

insertVars == <<writing, batch, pos, low, high>>
zoneVars == <<insertVars, parts>>

\* A value at the same place in both orders: every value but NaN and -0.0.
Ordinary(v) == ~v.nan /\ v.ieee = v.total

(***************************************************************************)
(* Rust's comparisons: a NaN compares false with everything.               *)
(***************************************************************************)
Less(a, b) == ~a.nan /\ ~b.nan /\ a.ieee < b.ieee
LessEq(a, b) == ~a.nan /\ ~b.nan /\ a.ieee <= b.ieee
Equal(a, b) == ~a.nan /\ ~b.nan /\ a.ieee = b.ieee

Lesser(a, b) == IF Less(a, b) THEN a ELSE b
Greater(a, b) == IF Less(b, a) THEN a ELSE b

\* DataType::type_tag
TypeTag(type) ==
    CASE type = "I8" -> 1 [] type = "I16" -> 2 [] type = "I32" -> 3
      [] type = "I64" -> 4 [] type = "U8" -> 5 [] type = "U16" -> 6
      [] type = "U32" -> 7 [] type = "U64" -> 8 [] type = "F32" -> 9
      [] type = "F64" -> 10 [] type = "Bool" -> 11 [] type = "Str" -> 12

\* The columns that write_one_column returns bounds for, if they have rows.
Zoned == {c \in Columns : TypeOf[c] \notin {"Bool", "Str"}}

(***************************************************************************)
(* part.zonemap.  write_zone_map writes the headers of the columns that    *)
(* have bounds, in the order of the schema, and then the bounds, 16 bytes  *)
(* each; a header has the offset of its column's bounds, which is counted  *)
(* here from the end of the headers.                                       *)
(***************************************************************************)
Offset(kept, c) == 16 * Cardinality({d \in kept : d < c})

\* Mutant of ZoneFile: data_offset is not advanced.
ZoneFileOneOffset(kept, bounds) ==
    [headers |-> [c \in kept |-> [tag |-> TypeTag(TypeOf[c]), offset |-> 0]],
     data |-> [o \in {Offset(kept, c) : c \in kept} |->
                 bounds[CHOOSE c \in kept : Offset(kept, c) = o]]]

ZoneFile(kept, bounds) ==
    [headers |-> [c \in kept |-> [tag |-> TypeTag(TypeOf[c]),
                                  offset |-> Offset(kept, c)]],
     data |-> [o \in {Offset(kept, c) : c \in kept} |->
                 bounds[CHOOSE c \in kept : Offset(kept, c) = o]]]

\* read_zone_map: of each column, its tag and the bounds at its offset.
ReadZoneMap(file) ==
    [c \in DOMAIN file.headers |->
        [tag |-> file.headers[c].tag,
         min |-> file.data[file.headers[c].offset].min,
         max |-> file.data[file.headers[c].offset].max]]

(***************************************************************************)
(* An insert: the columns are written in parallel, value by value.         *)
(***************************************************************************)
ZoneInit == /\ writing = FALSE
            /\ batch = <<>>
            /\ pos = [c \in Columns |-> 0]
            /\ low = [c \in Columns |-> {}]
            /\ high = [c \in Columns |-> {}]
            /\ parts = <<>>

BeginInsert(rows) == /\ ~writing
                     /\ Len(parts) < MaxParts
                     /\ writing' = TRUE
                     /\ batch' = rows
                     /\ pos' = [c \in Columns |-> 0]
                     /\ low' = [c \in Columns |-> {}]
                     /\ high' = [c \in Columns |-> {}]
                     /\ UNCHANGED parts

\* One turn of the loop of write_column.
NextValue(c) ==
    /\ writing
    /\ pos[c] < Len(batch)
    /\ LET v == batch[pos[c] + 1][c]
       IN  /\ low' = [low EXCEPT ![c] = IF @ = {} THEN {v}
                                        ELSE {Lesser(v, m) : m \in @}]
           /\ high' = [high EXCEPT ![c] = IF @ = {} THEN {v}
                                          ELSE {Greater(v, m) : m \in @}]
    /\ pos' = [pos EXCEPT ![c] = @ + 1]
    /\ UNCHANGED <<writing, batch, parts>>

\* Every column is written: write_zone_map, and the rename of the part.
FinishPart ==
    /\ writing
    /\ \A c \in Columns : pos[c] = Len(batch)
    /\ LET kept == {c \in Zoned : low[c] # {} /\ high[c] # {}}
           bounds == [c \in kept |-> [min |-> CHOOSE m \in low[c] : TRUE,
                                      max |-> CHOOSE m \in high[c] : TRUE]]
       IN  parts' = Append(parts, [rows |-> batch,
                                   zonemap |-> ZoneFile(kept, bounds)])
    /\ writing' = FALSE
    /\ UNCHANGED <<batch, pos, low, high>>

Insert == \/ \E rows \in Batches : BeginInsert(rows)
          \/ \E c \in Columns : NextValue(c)
          \/ FinishPart

ZoneSpec == ZoneInit /\ [][Insert]_zoneVars

(***************************************************************************)
(* What a zone says about a comparison, and what the filter would say.     *)
(***************************************************************************)
CmpOps == {"Eq", "NotEq", "Lt", "LtEq", "Gt", "GtEq"}

\* cmp_can_skip_signed, cmp_can_skip_unsigned, cmp_can_skip_float
CmpCanSkip(op, min, max, v) ==
    CASE op = "Gt" -> LessEq(max, v)
      [] op = "GtEq" -> Less(max, v)
      [] op = "Lt" -> LessEq(v, min)
      [] op = "LtEq" -> Less(v, min)
      [] op = "Eq" -> Less(v, min) \/ Less(max, v)
      [] op = "NotEq" -> Equal(min, max) /\ Equal(min, v)

\* The literals that zone_map_can_skip compares with the bounds of a tag.
KindOfTag(tag) == CASE tag \in 1..4 -> "I64"
                    [] tag \in 5..8 -> "U64"
                    [] tag \in 9..10 -> "F64"
                    [] OTHER -> "none"

\* zone_map_can_skip of a comparison of a column with a literal.
CompareCanSkip(zones, c, op, kind, v) ==
    /\ c \in DOMAIN zones
    /\ KindOfTag(zones[c].tag) = kind
    /\ CmpCanSkip(op, zones[c].min, zones[c].max, v)

\* arrow::compute::kernels::cmp
ArrowCompare(op, a, b) ==
    CASE op = "Eq" -> a.total = b.total
      [] op = "NotEq" -> a.total # b.total
      [] op = "Lt" -> a.total < b.total
      [] op = "LtEq" -> a.total <= b.total
      [] op = "Gt" -> a.total > b.total
      [] op = "GtEq" -> a.total >= b.total

(***************************************************************************)
(* Properties                                                              *)
(***************************************************************************)
ZoneType(z) == /\ DOMAIN z \subseteq Columns
               /\ \A c \in DOMAIN z : /\ z[c].tag \in 1..12
                                      /\ z[c].min \in Value
                                      /\ z[c].max \in Value

\* The variables have the types of the locals and files they stand for.
ZoneTypeOK == /\ writing \in BOOLEAN
              /\ batch \in Seq(Row)
              /\ pos \in [Columns -> 0..Len(batch)]
              /\ \A c \in Columns : \A m \in low[c] \cup high[c] : m \in Value
              /\ \A i \in 1..Len(parts) :
                    /\ parts[i].rows \in Seq(Row)
                    /\ ZoneType(ReadZoneMap(parts[i].zonemap))

OrdinaryColumn(rows, c) == \A k \in 1..Len(rows) : Ordinary(rows[k][c])

\* [min, max] is the smallest interval that holds the values of column c.
Bounds(rows, c, min, max) ==
    /\ \A k \in 1..Len(rows) : LessEq(min, rows[k][c]) /\ LessEq(rows[k][c], max)
    /\ \E k, l \in 1..Len(rows) : min = rows[k][c] /\ max = rows[l][c]

\* What is read from a part's zone map are the bounds of exactly the numeric
\* columns of a part that has rows, each under its own name and with the tag
\* of its type, and they are tight: this is what the doc comments of
\* zone_map.rs and write_column promise, here for columns of ordinary values.
ZonesAreBounds ==
    \A i \in 1..Len(parts) :
        LET rows == parts[i].rows
            zones == ReadZoneMap(parts[i].zonemap)
        IN  /\ DOMAIN zones = IF Len(rows) = 0 THEN {} ELSE Zoned
            /\ \A c \in DOMAIN zones :
                   /\ zones[c].tag = TypeTag(TypeOf[c])
                   /\ OrdinaryColumn(rows, c) =>
                         Bounds(rows, c, zones[c].min, zones[c].max)
=============================================================================
