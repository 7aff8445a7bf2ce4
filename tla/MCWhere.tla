------------------------------ MODULE MCWhere ------------------------------
(* Where for TLC: a table with a column of each kind that the zone maps and the *)
(* planner tell apart, up to two parts, and WHERE clauses of up to three        *)
(* comparisons.  The number n is at place 2n, so there is room for halves.      *)
EXTENDS Where

N(n) == [ieee |-> 2 * n, total |-> 2 * n, nan |-> FALSE]
Half(n) == [ieee |-> n, total |-> n, nan |-> FALSE]
NegZero == [ieee |-> 0, total |-> -1, nan |-> FALSE]
NaN == [ieee |-> 0, total |-> 1000, nan |-> TRUE]

MCTypeOf == <<"I64", "I8", "U64", "F64", "Bool", "F32">>

\* The largest i8 is 2, the largest i64 3, the largest u64 5.
MCTypeMax == [t \in IntTypes |-> CASE t = "I8" -> 4 [] t = "U64" -> 10 [] OTHER -> 6]
MCTypeMin == [t \in IntTypes |-> CASE t = "I8" -> -4 [] t = "I64" -> -6 [] OTHER -> 0]
MCTrue == [ieee |-> 1, total |-> 1, nan |-> FALSE]
MCFalse == [ieee |-> 0, total |-> 0, nan |-> FALSE]

\* F64 has the halves below 2 and the even numbers, F32 has 0, 1 and the even
\* numbers.
MCInexact == [t \in FloatTypes |->
    [v \in {N(3), Half(5)} \cup (IF t = "F32" THEN {Half(3)} ELSE {}) |->
        IF v = N(3) THEN N(4) ELSE N(2)]]

MCNaNBatches ==
    { << <<N(3), N(1), N(5), N(1), MCFalse, N(0)>>, <<N(1), N(1), N(4), NaN, MCTrue, NaN>> >>,
      << <<N(0), N(-2), N(0), NaN, MCFalse, NaN>>, <<N(0), N(2), N(3), N(4), MCFalse, N(1)>> >> }

MCBatches == MCNaNBatches \cup
    { << <<N(1), N(1), N(1), N(1), MCTrue, N(2)>> >>,
      << <<N(-1), N(0), N(2), Half(1), MCTrue, N(1)>>, <<N(2), N(2), N(3), N(2), MCFalse, N(4)>> >>,
      << <<N(2), N(1), N(2), N(0), MCTrue, N(4)>>, <<N(1), N(-1), N(2), NegZero, MCTrue, NegZero>> >> }

Num(v) == SqlLit("Number", v, v.ieee % 2 = 0)
Numbers == {Num(N(n)) : n \in 0..4} \cup {Num(Half(3)), Num(Half(5))}
Bool(v) == SqlLit("Bool", v, FALSE)

\* Comparisons of a numeric column with a number, in either order.
Comparisons == LET Numeric == Columns \ {5}
               IN  {Bin(Col(c), op, l) : c \in Numeric, op \in CmpOps, l \in Numbers}
                   \cup {Bin(l, op, Col(c)) : c \in Numeric, op \in CmpOps, l \in Numbers}

Operands == { Bin(Col(1), "Gt", Num(N(1))), Bin(Col(1), "Lt", Num(N(1))),
              Bin(Col(3), "GtEq", Num(N(3))), Bin(Col(4), "LtEq", Num(Half(3))),
              Bin(Num(N(2)), "Eq", Col(2)), Bin(Col(5), "Eq", Bool(MCTrue)),
              Bin(Col(6), "Lt", Num(N(3))),
              Bin(Num(N(1)), "Eq", Num(N(1))), Bin(Num(N(1)), "Gt", Num(N(2))),
              Bool(MCTrue), Col(5) }

Pairs(S) == {Bin(x, op, y) : x \in S, op \in {"And", "Or"}, y \in S}
Few == { Bin(Col(1), "GtEq", Num(N(2))), Bin(Col(4), "Lt", Num(N(1))),
         Bin(Num(N(1)), "Eq", Num(N(2))) }

Odd == { Bin(Col(1), "Lt", Col(1)), Bin(Col(1), "Eq", Col(4)),
         Bin(Col(5), "Eq", SqlLit("Str", MCTrue, FALSE)),
         Bin(Col(1), "Eq", Bool(MCTrue)),
         Bin(Col(1), "Eq", SqlLit("Null", MCFalse, FALSE)),
         SqlLit("Null", MCFalse, FALSE) }

Clauses == Comparisons \cup Operands \cup Pairs(Operands) \cup Odd
           \cup {Bin(x, op, y) : x \in Few, op \in {"And", "Or"}, y \in Pairs(Few)}

MCQueries == {[where |-> <<p>>, select |-> {1}] : p \in Clauses}
             \cup {[where |-> <<>>, select |-> {4}],
                   [where |-> <<Bool(MCTrue)>>, select |-> {2, 5}]}
=============================================================================
