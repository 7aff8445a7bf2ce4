---------------------------- MODULE MCColumnFile ----------------------------
(* ColumnFile for TLC: short columns of every width.                          *)
EXTENDS ColumnFile

CONSTANTS NumericRows, StringRows   \* bounds: rows of a column

\* Numeric columns of 1, 2, 4 and 8 bytes per row, and string columns whose
\* strings have 0 or 5 bytes.
MCNumeric == {[sizes |-> [r \in 1..n |-> w], stride |-> w] :
                 n \in 0..NumericRows, w \in {1, 2, 4, 8}}
MCString == UNION {{[sizes |-> s, stride |-> 1] : s \in [1..n -> {4, 9}]} :
                       n \in 0..StringRows}
MCColumns == MCNumeric \cup MCString
=============================================================================
