-------------------------------- MODULE Select --------------------------------
(***************************************************************************)
(* The SELECT list and the GROUP BY of a SELECT, and what the planner      *)
(* makes of them: logical_plan/lower.rs and physical_plan/lower.rs.        *)
(*                                                                         *)
(* A query q has q.select, the items of its SELECT list, and q.groupBy.    *)
(* The table has the columns key and val; "count" stands for COUNT(val),   *)
(* and also for the name "count(val)" by which the projection and the      *)
(* merge look the column up.  An item that is listed twice is looked up    *)
(* twice by one name, and the order of the items is that of the columns:   *)
(* neither is kept here.                                                   *)
(***************************************************************************)

TableColumns == {"key", "val"}
AggFuncs == {"count", "sum", "min", "max", "avg"}

\* What the validator lets through: *, columns, and the five functions with one
\* argument; a GROUP BY has columns only.
Items == {"*"} \cup TableColumns \cup AggFuncs

\* collect_aggregates, and the AggSpec that each of them is lowered to
Aggregates(q) == q.select \cap AggFuncs

\* lower_query: whether the plan has an Aggregate node, which is also what
\* find_aggregate looks for to put a MergeAggregateExec above the workers.  So
\* it has one for a GROUP BY without any aggregate function.
HasAggregateNode(q) == q.groupBy # {} \/ Aggregates(q) # {}

\* lower_projection: * is every column of the table.  In the physical plan an
\* aggregate of the list is a reference to the column that the Aggregate node
\* makes.
Projections(q) == (q.select \ {"*"}) \cup (IF "*" \in q.select THEN TableColumns ELSE {})
===============================================================================
