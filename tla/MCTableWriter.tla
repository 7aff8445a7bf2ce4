--------------------------- MODULE MCTableWriter ---------------------------
(* TableWriter for TLC: inserts and columns are interchangeable.            *)
EXTENDS TableWriter, TLC

CONSTANTS i1, i2, i3, c1, c2

MCInserts2 == {i1, i2}
MCInserts3 == {i1, i2, i3}

WriterSymmetry == Permutations({i1, i2})
WriterSymmetry3 == Permutations({i1, i2, i3})
=============================================================================
