------------------------------ MODULE Planner ------------------------------
(***************************************************************************)
(* From the WHERE clause of a SELECT to its physical plan: the validator   *)
(* and analyzer (frontend/), the logical plan and its optimizer            *)
(* (logical_plan/), the physical plan and its optimizer (physical_plan/).  *)
(*                                                                         *)
(* The plan is that of SELECT <columns> FROM <table> WHERE <predicate>:    *)
(* a scan, at most one filter and a projection; the aggregate node, which  *)
(* no rule looks into, is in module Select, and the limit node in Query.   *)
(* Names are resolved: a query names the table and its columns.            *)
(*                                                                         *)
(* Predicates are trees, and the functions on them are recursive as in the *)
(* code.  The operands of a comparison are columns and literals.  (Others  *)
(* are let through, but evaluate_operand returns an error for them, unless *)
(* they are folded to a literal before.)                                   *)
(*                                                                         *)
(* A literal is a place in the order of values (see ZoneMap), and it keeps *)
(* it but for one conversion: a number that has no F64, or no F32, becomes *)
(* the one that is nearest to it.                                          *)
(***************************************************************************)
EXTENDS ZoneMap

CONSTANTS TypeMin, TypeMax,  \* the range of each integer type
          Inexact,           \* the numbers that F32 and F64 do not have, each with
                             \* the one it is rounded to
          TrueValue,         \* the value true of a Bool column
          MaxDepth           \* bound: how deep AND and OR are nested

IntTypes == {"I8", "I16", "I32", "I64", "U8", "U16", "U32", "U64"}
FloatTypes == {"F32", "F64"}
NumericTypes == IntTypes \cup FloatTypes

ASSUME PlannerAssumption ==
    /\ TypeMin \in [IntTypes -> Int]
    /\ TypeMax \in [IntTypes -> Int]
    /\ TypeMax["I64"] < TypeMax["U64"]
    /\ DOMAIN Inexact = FloatTypes
    /\ \A type \in FloatTypes : \A v \in DOMAIN Inexact[type] :
          /\ v \in Value /\ Inexact[type][v] \in Value
          /\ Inexact[type][v] \notin DOMAIN Inexact[type]
    /\ TrueValue \in Value /\ Ordinary(TrueValue)
    /\ MaxDepth \in Nat

(***************************************************************************)
(* Expressions.  A literal of a statement has kind Number (whole if it is  *)
(* written without fraction), Str, Bool or Null; of a logical plan, Int,   *)
(* Float, Str, Bool or Null; of a physical plan, a data type.              *)
(***************************************************************************)
Col(c) == [node |-> "Column", column |-> c]
Lit(kind, v) == [node |-> "Literal", kind |-> kind, val |-> v]
SqlLit(kind, v, whole) ==
    [node |-> "Literal", kind |-> kind, val |-> v, whole |-> whole]
Bin(l, op, r) == [node |-> "BinaryOp", left |-> l, op |-> op, right |-> r]
Cast(e, type) == [node |-> "Cast", expr |-> e, type |-> type]
Compare(l, op, r) == [node |-> "Compare", left |-> l, op |-> op, right |-> r]
Logical(l, op, r) == [node |-> "Logical", left |-> l, op |-> op, right |-> r]

IsCol(e) == e.node = "Column"
IsLit(e) == e.node = "Literal"
IsLitOf(e, kind) == IsLit(e) /\ e.kind = kind
Truth(b) == IF b THEN TrueValue ELSE [TrueValue EXCEPT !.ieee = @ - 1, !.total = @ - 1]
IsBool(e, b) == IsLitOf(e, "Bool") /\ e.val = Truth(b)

(***************************************************************************)
(* The expressions over some columns and values: columns, literals,        *)
(* comparisons of two of them, and trees of AND and OR over all these.     *)
(***************************************************************************)
ColsOf(cols) == [node : {"Column"}, column : cols]
LitsOf(kinds, vals) == [node : {"Literal"}, kind : kinds, val : vals]
Compared(node, operands) == [node : {node}, left : operands, op : CmpOps, right : operands]
Joined(node, terms) == [node : {node}, left : terms, op : {"And", "Or"}, right : terms]

Trees(node, conditions) ==
    LET To[n \in 0..MaxDepth] ==
            IF n = 0 THEN conditions ELSE To[n - 1] \cup Joined(node, To[n - 1])
    IN  To[MaxDepth]

Exprs(comparison, connective, operands) ==
    Trees(connective, operands \cup Compared(comparison, operands))

SqlKinds == {"Number", "Str", "Bool", "Null"}
LogicalKinds == {"Int", "Float", "Str", "Bool", "Null"}

SqlOperands(cols, vals) ==
    ColsOf(cols)
    \cup [node : {"Literal"}, kind : SqlKinds, val : vals, whole : BOOLEAN]
LogicalOperands(cols, vals) ==
    ColsOf(cols) \cup LitsOf(LogicalKinds, vals)
    \cup [node : {"Cast"}, expr : LitsOf(LogicalKinds, vals), type : DataTypes]
PhysicalOperands(cols, vals) == ColsOf(cols) \cup LitsOf(DataTypes \cup {"Null"}, vals)

SqlExpr == Exprs("BinaryOp", "BinaryOp", SqlOperands(Columns, Value))
LogicalExpr == Exprs("BinaryOp", "BinaryOp", LogicalOperands(Columns, Value))
PhysicalExpr == Exprs("Compare", "Logical", PhysicalOperands(Columns, Value))

(***************************************************************************)
(* Analyzer.  The validator lets through columns, literals and the binary  *)
(* operators that Bin stands for.                                          *)
(***************************************************************************)
\* check_type_compat
TypesFit(type, l) ==
    CASE l.kind = "Number" ->
             /\ type \in NumericTypes
             /\ type \in IntTypes => /\ l.whole
                                     /\ l.val.ieee >= TypeMin[type]
                                     /\ l.val.ieee <= TypeMax[type]
      [] l.kind = "Str" -> type \notin NumericTypes
      [] OTHER -> TRUE

\* analyze: pre_visit_expr of every binary operator
Accepted[e \in SqlExpr] ==
    e.node = "BinaryOp" =>
        /\ IsCol(e.left) /\ IsLit(e.right) => TypesFit(TypeOf[e.left.column], e.right)
        /\ IsLit(e.left) /\ IsCol(e.right) => TypesFit(TypeOf[e.right.column], e.left)
        /\ Accepted[e.left] /\ Accepted[e.right]

(***************************************************************************)
(* Logical plan                                                            *)
(***************************************************************************)
\* `as f32', `as f64' and the parsing of an f64: the nearest value of the type.
AsFloat(type, v) ==
    IF type \in FloatTypes /\ v \in DOMAIN Inexact[type] THEN Inexact[type][v] ELSE v

IsI64(l) == l.whole /\ l.val.ieee <= TypeMax["I64"]

\* lower_literal: a number is an i64 if it can be read as one, and an f64
\* otherwise: that is also what becomes of whole numbers above i64::MAX.
LowerLiteral(l) ==
    CASE l.kind = "Number" -> IF IsI64(l) THEN Lit("Int", l.val)
                              ELSE Lit("Float", AsFloat("F64", l.val))
      [] OTHER -> Lit(l.kind, l.val)

\* lower_expr of logical_plan/lower.rs
LowerSql[e \in SqlExpr] ==
    CASE IsCol(e) -> e
      [] IsLit(e) -> LowerLiteral(e)
      [] OTHER -> Bin(LowerSql[e.left], e.op, LowerSql[e.right])

\* Mutant of CoerceComparison: only a literal on the right gets its cast.
CoerceRightOnly(l, op, r) ==
    IF IsCol(l) /\ IsLit(r) THEN Bin(l, op, Cast(r, TypeOf[l.column])) ELSE Bin(l, op, r)

\* coerce_comparison
CoerceComparison(l, op, r) ==
    CASE IsCol(l) /\ IsLit(r) -> Bin(l, op, Cast(r, TypeOf[l.column]))
      [] IsLit(l) /\ IsCol(r) -> Bin(Cast(l, TypeOf[r.column]), op, r)
      [] OTHER -> Bin(l, op, r)

\* coerce_expr: the rule TypeCoercion
Coerce[e \in LogicalExpr] ==
    IF e.node = "BinaryOp"
    THEN IF e.op \in CmpOps THEN CoerceComparison(Coerce[e.left], e.op, Coerce[e.right])
         ELSE Bin(Coerce[e.left], e.op, Coerce[e.right])
    ELSE e

\* What two integer literals compare to.
FoldInts(a, op, b) == Lit("Bool", Truth(ArrowCompare(op, a, b)))

\* Mutant of FoldPair: TRUE OR x is folded to x, as TRUE AND x is.
FoldPairDroppingTrue(l, op, r) ==
    CASE IsLitOf(l, "Int") /\ IsLitOf(r, "Int") ->
             IF op \in CmpOps THEN FoldInts(l.val, op, r.val) ELSE Bin(l, op, r)
      [] IsBool(l, TRUE) /\ op \in {"And", "Or"} -> r
      [] IsBool(l, FALSE) /\ op = "And" -> l
      [] IsBool(l, FALSE) /\ op = "Or" -> r
      [] OTHER -> Bin(l, op, r)

\* fold_expr of an operator, once its operands are folded
FoldPair(l, op, r) ==
    CASE IsLitOf(l, "Int") /\ IsLitOf(r, "Int") ->
             IF op \in CmpOps THEN FoldInts(l.val, op, r.val) ELSE Bin(l, op, r)
      [] IsBool(l, TRUE) /\ op = "And" -> r
      [] IsBool(l, FALSE) /\ op = "And" -> l
      [] IsBool(l, TRUE) /\ op = "Or" -> l
      [] IsBool(l, FALSE) /\ op = "Or" -> r
      [] OTHER -> Bin(l, op, r)

\* fold_expr: the rule ConstantFolding
Fold[e \in LogicalExpr] ==
    IF e.node = "BinaryOp" THEN FoldPair(Fold[e.left], e.op, Fold[e.right]) ELSE e

\* EliminateTrueFilter: a filter is a sequence of at most one predicate.
EliminateTrue(filter) ==
    IF \E k \in DOMAIN filter : IsBool(filter[k], TRUE) THEN <<>> ELSE filter

Mapped(filter, f) == [k \in DOMAIN filter |-> f[filter[k]]]

\* The rules in the order in which logical_plan/optimizer.rs applies them.
OptimizeLogical(filter) == EliminateTrue(Mapped(Mapped(filter, Coerce), Fold))

(***************************************************************************)
(* Physical plan                                                           *)
(***************************************************************************)
\* narrow_literal: the literals that it has no conversion for; it panics.
CannotNarrow(l, type) ==
    CASE l.kind = "Int" -> \/ type \notin NumericTypes
                           \/ /\ type \in IntTypes
                              /\ \/ l.val.ieee < TypeMin[type]
                                 \/ l.val.ieee > TypeMax[type]
      [] l.kind = "Float" -> type \notin {"F32", "F64"}
      [] l.kind = "Str" -> type # "Str"
      [] l.kind = "Bool" -> type # "Bool"
      [] l.kind = "Null" -> TRUE

LoweringPanics[e \in LogicalExpr] ==
    \/ e.node = "Cast" /\ CannotNarrow(e.expr, e.type)
    \/ e.node = "BinaryOp" /\ (LoweringPanics[e.left] \/ LoweringPanics[e.right])

\* lower_literal of physical_plan/lower.rs: a literal without a cast
PhysicalLiteral(l) == Lit(CASE l.kind = "Int" -> "I64"
                            [] l.kind = "Float" -> "F64"
                            [] OTHER -> l.kind, l.val)

\* narrow_literal: the type of the column, and of F32 and F64 the nearest value.
\* (An f64 is its own nearest F64.)
Narrowed(l, type) == Lit(type, AsFloat(type, l.val))

\* lower_expr of physical_plan/lower.rs
LowerExpr[e \in LogicalExpr] ==
    CASE e.node = "Column" -> e
      [] e.node = "Literal" -> PhysicalLiteral(e)
      [] e.node = "Cast" -> Narrowed(e.expr, e.type)
      [] OTHER ->
             IF e.op \in CmpOps THEN Compare(LowerExpr[e.left], e.op, LowerExpr[e.right])
             ELSE Logical(LowerExpr[e.left], e.op, LowerExpr[e.right])

\* collect_expr_columns
ExprColumns[e \in LogicalExpr] ==
    CASE e.node = "Column" -> {e.column}
      [] e.node = "Literal" -> {}
      [] e.node = "Cast" -> ExprColumns[e.expr]
      [] OTHER -> ExprColumns[e.left] \cup ExprColumns[e.right]

\* collect_columns: what the scan reads
CollectColumns(filter, selected) ==
    selected \cup UNION {ExprColumns[filter[k]] : k \in DOMAIN filter}

\* PredicatePushdown: the scan under a filter becomes a ZoneMapScan that has
\* the filter's predicate, and the filter stays.
PushDown(filter, columns) ==
    [filter |-> filter,
     scan |-> IF filter = <<>> THEN "FullScan" ELSE "ZoneMapScan",
     columns |-> columns]

\* physical_plan/optimizer.rs: EliminateTrueFilter, then PredicatePushdown
OptimizePhysical(filter, columns) == PushDown(EliminateTrue(filter), columns)

\* What run_select makes of an accepted statement, if it does not panic.
PhysicalPlan(optimized, selected) ==
    OptimizePhysical(Mapped(optimized, LowerExpr), CollectColumns(optimized, selected))
=============================================================================
