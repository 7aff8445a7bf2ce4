----------------------------- MODULE MCDatabase -----------------------------
(* Database for TLC: the inserts are interchangeable.                       *)
EXTENDS Database, TLC

CONSTANTS i1, i2

MCInserts == {i1, i2}
DbSymmetry == Permutations(MCInserts)
=============================================================================
