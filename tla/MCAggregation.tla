---------------------------- MODULE MCAggregation ----------------------------
(* Aggregation for TLC: three parts of at most two granules, with two groups   *)
(* that come in a different order in each part.  A third group is in granule 2 *)
(* of part 1: if it is there, LIMIT 2 cuts off groups.                         *)
EXTENDS Aggregation

CONSTANTS k1, k2, k3

R(k, v) == [key |-> k, val |-> v]

\* Group k1 has only positive values, and k2 negative ones too.
MCContent ==
    [p \in Parts |-> [g \in Granules |->
        CASE p = 1 /\ g = 1 -> <<R(k1, 2), R(k2, -1)>>
          [] p = 1 /\ g = 2 -> <<R(k1, 3), R(k3, 4)>>
          [] p = 2          -> <<R(k2, -3), R(k1, 5)>>
          [] OTHER          -> <<R(k2, -2)>>]]

\* Every row matches; or only the first of each granule of part 2.
MCRows == { [p \in Parts |-> [g \in Granules |-> Len(MCContent[p][g])]],
            [p \in Parts |-> [g \in Granules |-> IF p = 2 THEN 1 ELSE 0]] }

MCTables ==
    {t \in [limit : {2, NoLimit},
            size : {<<m, n, 1>> : m \in 1..2, n \in 0..2},
            rows : MCRows,
            unreadable : {{}, {<<1, 2>>}},
            unopenable : {{}, {2}},
            skipped : {{}, {3}}] :
        /\ \A p \in t.skipped : Matching(t, p) = {}
        /\ t.unreadable = {} \/ t.unopenable = {}}

Query(select, groupBy, checked) == [select |-> select, groupBy |-> groupBy, checked |-> checked]

\* Every aggregate, with and without GROUP BY, in both builds; a GROUP BY of two
\* columns without aggregates; a SELECT list that lacks a column of the GROUP BY,
\* and lists that have one more, which groups may or may not be told by.
MCQueries ==
    {Query(AggFuncs \cup groupBy, groupBy, checked) : groupBy \in {{}, {"key"}}, checked \in BOOLEAN}
    \cup {Query({"key", "val"}, {"key", "val"}, FALSE),
          Query({"key", "max"}, {"key", "val"}, FALSE),
          Query({"*", "count"}, {"key"}, FALSE),
          Query({"*", "count", "min"}, {"key", "val"}, FALSE)}
==============================================================================
