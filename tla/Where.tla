------------------------------- MODULE Where -------------------------------
(***************************************************************************)
(* A SELECT with a WHERE clause on a table whose parts have zone maps:     *)
(* planning (module Planner), the scan that skips parts by their zone map  *)
(* (execution/zone_map_scan.rs, zones from module ZoneMap), and the filter *)
(* (execution/filter.rs, execution/expr.rs).                               *)
(*                                                                         *)
(* Workers, channel, granules and I/O errors are module Query's: here one  *)
(* worker reads all rows of a part at once, newest part first.  A query    *)
(* lists the parts when it is built, and parts never change, so it is      *)
(* enough to start it after the inserts it sees.                           *)
(***************************************************************************)
EXTENDS Planner

CONSTANT Queries  \* [where: at most one predicate, select: columns]

\* What a literal means that is compared with a column: a whole number that an
\* i64 holds is exact, every other number is an f64, and both are converted to the
\* type of the column.
Meant(l, type) ==
    AsFloat(type, IF l.kind = "Number" /\ ~IsI64(l) THEN AsFloat("F64", l.val) ELSE l.val)

\* The statements.  A number has no sign and is not NaN: a literal is a token, and
\* what it is rounded to has no sign either.
\* What comes of comparing two literals that are not integers is one value for
\* the whole batch and depends on Arrow; such statements are left out.
Stated[e \in SqlExpr] ==
    /\ IsLit(e) => Ordinary(e.val) /\ \A type \in DataTypes : Ordinary(Meant(e, type))
    /\ e.node = "BinaryOp" =>
          /\ Stated[e.left] /\ Stated[e.right]
          /\ IsLit(e.left) /\ IsLit(e.right) /\ e.op \in CmpOps =>
                LowerLiteral(e.left).kind = "Int" /\ LowerLiteral(e.right).kind = "Int"

ASSUME WhereAssumption ==
    \A q \in Queries :
        /\ q.select \subseteq Columns
        /\ q.where \in Seq(SqlExpr) /\ Len(q.where) <= 1
        /\ \A k \in DOMAIN q.where : Stated[q.where[k]]

VARIABLES query,    \* the statement
          outcome,  \* what became of it so far
          plan,     \* its physical plan
          todo,     \* the parts that the work source still has
          answer    \* the rows returned: pairs of a part and a row of it

queryVars == <<query, outcome, plan, todo, answer>>
vars == <<zoneVars, queryVars>>

Outcomes == {"none", "rejected", "panicked", "running", "error", "done"}
NoQuery == [where |-> <<>>, select |-> {}]

Init == /\ ZoneInit
        /\ query = NoQuery
        /\ outcome = "none"
        /\ plan = PushDown(<<>>, {})
        /\ todo = <<>>
        /\ answer = {}

InsertPart == outcome = "none" /\ Insert /\ UNCHANGED queryVars

\* Mutant of WorkSource: the parts are counted from zero.
WorkSourceFromZero == [k \in 1..Len(parts) |-> Len(parts) - k]

\* build: the parts in reverse order of their names
WorkSource == [k \in 1..Len(parts) |-> Len(parts) + 1 - k]

\* run_sql and run_select: the statement is analyzed and planned,
\* and the parts are listed.
Start(q) ==
    LET optimized == OptimizeLogical(Mapped(q.where, LowerSql))
        panics == \E k \in DOMAIN optimized : LoweringPanics[optimized[k]]
        accepted == \A k \in DOMAIN q.where : Accepted[q.where[k]]
    IN  /\ outcome = "none"
        /\ ~writing
        /\ query' = q
        /\ outcome' = CASE ~accepted -> "rejected"
                        [] accepted /\ panics -> "panicked"
                        [] OTHER -> "running"
        /\ plan' = IF accepted /\ ~panics THEN PhysicalPlan(optimized, q.select) ELSE plan
        /\ todo' = WorkSource
        /\ UNCHANGED <<answer, zoneVars>>

(***************************************************************************)
(* zone_map_can_skip                                                       *)
(***************************************************************************)
\* Mutant of CanSkip: a part is skipped if either side of an OR skips it.
CanSkipEither(pred, zones) ==
    LET Skips[p \in PhysicalExpr] ==
            \/ /\ p.node = "Compare" /\ IsCol(p.left) /\ IsLit(p.right)
               /\ CompareCanSkip(zones, p.left.column, p.op, p.right.kind, p.right.val)
            \/ p.node = "Logical" /\ (Skips[p.left] \/ Skips[p.right])
    IN  Skips[pred]

CanSkip(pred, zones) ==
    LET Skips[p \in PhysicalExpr] ==
            \/ /\ p.node = "Compare" /\ IsCol(p.left) /\ IsLit(p.right)
               /\ CompareCanSkip(zones, p.left.column, p.op, p.right.kind, p.right.val)
            \/ p.node = "Logical" /\ p.op = "And" /\ (Skips[p.left] \/ Skips[p.right])
            \/ p.node = "Logical" /\ p.op = "Or" /\ Skips[p.left] /\ Skips[p.right]
    IN  Skips[pred]

(***************************************************************************)
(* evaluate_predicate on a batch with the given columns.  Arrow compares   *)
(* arrays of the same type only.                                           *)
(***************************************************************************)
\* evaluate_operand: the type of the operand of a comparison, if it has one
OperandTypes(e, columns) ==
    CASE IsCol(e) -> {TypeOf[c] : c \in columns \cap {e.column}}
      [] IsLit(e) -> {e.kind}
      [] OTHER -> {}

Evaluates(pred, columns) ==
    LET Succeeds[p \in PhysicalExpr] ==
            \/ /\ p.node = "Compare"
               /\ OperandTypes(p.left, columns) # {}
               /\ OperandTypes(p.left, columns) = OperandTypes(p.right, columns)
            \/ p.node = "Logical" /\ Succeeds[p.left] /\ Succeeds[p.right]
    IN  Succeeds[pred]

OperandValue(e, row) == IF IsCol(e) THEN row[e.column] ELSE e.val

Passes(pred, row) ==
    LET True[p \in PhysicalExpr] ==
            \/ /\ p.node = "Compare"
               /\ ArrowCompare(p.op, OperandValue(p.left, row), OperandValue(p.right, row))
            \/ p.node = "Logical" /\ p.op = "And" /\ True[p.left] /\ True[p.right]
            \/ p.node = "Logical" /\ p.op = "Or" /\ (True[p.left] \/ True[p.right])
    IN  True[pred]

(***************************************************************************)
(* Execution                                                               *)
(***************************************************************************)
\* The rows of a part.
RowsOf(i) == {i} \X DOMAIN parts[i].rows

\* ZoneMapScanExec: a part that its zone map excludes is not read.  If the
\* zone map cannot be read, it is taken for an empty one.
SkipPart == /\ outcome = "running"
            /\ todo # <<>>
            /\ plan.scan = "ZoneMapScan"
            /\ CanSkip(plan.filter[1], ReadZoneMap(parts[Head(todo)].zonemap))
            /\ todo' = Tail(todo)
            /\ UNCHANGED <<query, outcome, plan, answer, zoneVars>>

\* The part may be read: always by FullScanExec, and by ZoneMapScanExec if its
\* zone map, or the empty one it takes for an unreadable one, does not exclude it.
MayRead(i) ==
    plan.scan = "ZoneMapScan" =>
        ~\A zones \in {ReadZoneMap(parts[i].zonemap), <<>>} : CanSkip(plan.filter[1], zones)

\* FilterExec on the rows of a part, or the rows themselves without a filter.
ReadPart == /\ outcome = "running"
            /\ todo # <<>>
            /\ MayRead(Head(todo))
            /\ \A k \in DOMAIN plan.filter : Evaluates(plan.filter[k], plan.columns)
            /\ answer' = answer \cup
                   {r \in RowsOf(Head(todo)) :
                        \A k \in DOMAIN plan.filter :
                            Passes(plan.filter[k], parts[r[1]].rows[r[2]])}
            /\ todo' = Tail(todo)
            /\ UNCHANGED <<query, outcome, plan, zoneVars>>

\* evaluate_predicate returns Err: the query returns it to the client.
FilterFails == /\ outcome = "running"
               /\ todo # <<>>
               /\ MayRead(Head(todo))
               /\ \E k \in DOMAIN plan.filter : ~Evaluates(plan.filter[k], plan.columns)
               /\ outcome' = "error"
               /\ UNCHANGED <<query, plan, todo, answer, zoneVars>>

Finish == /\ outcome = "running"
          /\ todo = <<>>
          /\ outcome' = "done"
          /\ UNCHANGED <<query, plan, todo, answer, zoneVars>>

Next == \/ InsertPart
        \/ \E q \in Queries : Start(q)
        \/ SkipPart
        \/ ReadPart
        \/ FilterFails
        \/ Finish

Spec == Init /\ [][Next]_vars

(***************************************************************************)
(* What the statement asks for: SQL's own reading of the WHERE clause,     *)
(* with no planner and no zone maps; a number takes the type of the column *)
(* that it is compared with.                                               *)
(***************************************************************************)
MeantValue(e, other, row) == CASE IsCol(e) -> row[e.column]
                               [] ~IsCol(e) /\ IsCol(other) -> Meant(e, TypeOf[other.column])
                               [] OTHER -> e.val

Satisfies(row, clause) ==
    LET Holds[e \in SqlExpr] ==
            \/ IsCol(e) /\ row[e.column] = Truth(TRUE)
            \/ IsBool(e, TRUE)
            \/ /\ e.node = "BinaryOp" /\ e.op \in CmpOps
               /\ ArrowCompare(e.op, MeantValue(e.left, e.right, row),
                                     MeantValue(e.right, e.left, row))
            \/ e.node = "BinaryOp" /\ e.op = "And" /\ Holds[e.left] /\ Holds[e.right]
            \/ e.node = "BinaryOp" /\ e.op = "Or" /\ (Holds[e.left] \/ Holds[e.right])
    IN  Holds[clause]

Wanted(i) == {r \in RowsOf(i) : \A k \in DOMAIN query.where :
                                    Satisfies(parts[i].rows[r[2]], query.where[k])}

\* The columns of the WHERE clause hold neither NaN nor -0.0.
OrdinaryTable ==
    \A i \in DOMAIN parts : \A k \in DOMAIN query.where :
        \A c \in ExprColumns[LowerSql[query.where[k]]] : OrdinaryColumn(parts[i].rows, c)

\* A comparison of a column with a literal of its kind that an i64 can hold,
\* on either side, or a combination of such comparisons.
LiteralFits(type, l) == CASE l.kind = "Number" -> /\ type \in NumericTypes
                                                  /\ l.val.ieee <= TypeMax["I64"]
                          [] OTHER -> l.kind = type

WellTyped[e \in SqlExpr] ==
    /\ e.node = "BinaryOp"
    /\ IF e.op \in CmpOps
       THEN \/ IsCol(e.left) /\ IsLit(e.right) /\ LiteralFits(TypeOf[e.left.column], e.right)
            \/ IsCol(e.right) /\ IsLit(e.left) /\ LiteralFits(TypeOf[e.right.column], e.left)
       ELSE WellTyped[e.left] /\ WellTyped[e.right]

(***************************************************************************)
(* Properties                                                              *)
(***************************************************************************)
\* The variables have the types of what they stand for.
WhereTypeOK == /\ ZoneTypeOK
               /\ query \in Queries \cup {NoQuery}
               /\ outcome \in Outcomes
               /\ plan.scan \in {"FullScan", "ZoneMapScan"}
               /\ plan.columns \subseteq Columns
               /\ \A k \in DOMAIN todo : todo[k] \in 1..Len(parts)
               /\ answer \subseteq UNION {RowsOf(i) : i \in 1..Len(parts)}

\* A query that ends without an error returns exactly the rows that satisfy
\* its WHERE clause: coercion, folding, pruning, pushdown and the skipping of
\* parts change nothing, whichever zone maps could be read.
WhereAnswerExact ==
    outcome = "done" /\ OrdinaryTable =>
        answer = UNION {Wanted(i) : i \in 1..Len(parts)}

\* zone_map_can_skip never excludes a part that has a row to return.
SkipsNothingWanted ==
    outcome = "running" /\ plan.scan = "ZoneMapScan" /\ OrdinaryTable =>
        \A i \in 1..Len(parts) :
            CanSkip(plan.filter[1], ReadZoneMap(parts[i].zonemap)) => Wanted(i) = {}

\* A WHERE clause made of comparisons of columns with literals of their kind
\* is either rejected by the analyzer or answered: no panic in lowering, and
\* no type mismatch in the filter.
WellTypedIsAnswered ==
    (\A k \in DOMAIN query.where : WellTyped[query.where[k]]) =>
        outcome \notin {"panicked", "error"}

\* narrow_literal panics with "analyzer should have rejected" on a literal
\* without a conversion: what the analyzer accepts should be lowered.
AcceptedIsLowered == outcome # "panicked"

\* README.md says a part is skipped if the predicate does not pass, and the
\* doc comment of write_column that the bounds are those of all values: a part
\* that is skipped has no row that the filter would pass, whatever its values.
SkippedRowsDoNotPass ==
    outcome = "running" /\ plan.scan = "ZoneMapScan" =>
        \A i \in 1..Len(parts) :
            CanSkip(plan.filter[1], ReadZoneMap(parts[i].zonemap)) =>
                \A k \in 1..Len(parts[i].rows) : ~Passes(plan.filter[1], parts[i].rows[k])
=============================================================================
