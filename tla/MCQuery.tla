------------------------------- MODULE MCQuery -------------------------------
(* Query for TLC: three parts of at most two granules, with and without LIMIT. *)
EXTENDS Query

\* Every granule has two matching rows; or only those of part 2 and the second
\* of part 1 have.
MCRows == { [p \in Parts |-> [g \in Granules |-> 2]],
            [p \in Parts |-> [g \in Granules |->
                IF p = 3 \/ <<p, g>> = <<1, 1>> THEN 0 ELSE 2]] }

MCTables ==
    {t \in [limit : {NoLimit, 3},
            size : [Parts -> 0..2],
            rows : MCRows,
            unreadable : {{}, {<<1, 2>>}},
            unopenable : {{}, {2}},
            skipped : {{}, {3}}] :
        \A p \in t.skipped : Matching(t, p) = {}}
==============================================================================
