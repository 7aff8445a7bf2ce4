----------------------------- MODULE WhereProofs -----------------------------
(***************************************************************************)
(* Proofs about Planner and Where for any WHERE clauses of any depth, any  *)
(* columns, types, values and batches, and any number of parts.            *)
(***************************************************************************)
EXTENDS Where, ZoneMapProofs, SequenceTheorems

-----------------------------------------------------------------------------
(***************************************************************************)
(* Trees.  The functions on expressions are recursive; that there is a     *)
(* function that fulfils such an equation, and induction over expressions, *)
(* are shown here once for all sets of expressions (Grounded).             *)
(***************************************************************************)
\* What holds of 0 and of n + 1 if it holds of n, holds of N.
LEMMA UpTo ==
    ASSUME NEW N \in Nat, NEW T, 0 \in T, \A n \in 0..(N - 1) : n \in T => n + 1 \in T
    PROVE  \A n \in 0..N : n \in T
<1> DEFINE R == OpToRel(<, Nat)
           B == {n \in 0..N : n \notin T}
<1>1. IsWellFoundedOn(R, Nat)
    BY NatLessThanWellFounded
<1>2. \A x, y \in Nat : x < y => <<x, y>> \in R
    BY DEF OpToRel
<1> HIDE DEF R
<1>3. SUFFICES ASSUME B # {} PROVE FALSE
    OBVIOUS
<1>4. PICK x \in B : \A y \in B : ~ (<<y, x>> \in R)
    <2>1. B \subseteq Nat
        OBVIOUS
    <2> HIDE DEF B
    <2> QED
        BY <1>1, <1>3, <2>1, WFMin
<1>5. /\ x - 1 \in 0..(N - 1) /\ x - 1 \in Nat /\ x - 1 \in 0..N
      /\ x \in Nat /\ x - 1 < x /\ (x - 1) + 1 = x /\ x \notin T
    OBVIOUS
<1>6. x - 1 \in T
    BY <1>4, <1>5, <1>2
<1> QED
    BY <1>5, <1>6

\* The trees by their depth.
IsLevels(node, conditions, f) ==
    f = [n \in 0..MaxDepth |-> IF n = 0 THEN conditions
                               ELSE f[n - 1] \cup Joined(node, f[n - 1])]

Levels(node, conditions) == CHOOSE f : IsLevels(node, conditions, f)

\* The recursive function of Trees fulfils its equation.
LEMMA LevelsExist ==
    ASSUME NEW node, NEW conditions
    PROVE  IsLevels(node, conditions, Levels(node, conditions))
<1> DEFINE Next_(S) == S \cup Joined(node, S)
           Right(f, n) == /\ f[0] = conditions
                          /\ \A m \in 1..n : f[m] = Next_(f[m - 1])
           T == {n \in Nat : \E f : Right(f, n)}
<1>0. MaxDepth \in Nat
    BY PlannerAssumption
<1>1. 0 \in T
    <2> DEFINE f == [n \in {0} |-> conditions]
    <2>1. Right(f, 0)
        OBVIOUS
    <2> HIDE DEF Right
    <2> QED
        BY <2>1
<1>2. ASSUME NEW n \in Nat, n \in T PROVE n + 1 \in T
    <2>1. PICK f : Right(f, n)
        BY <1>2
    <2> DEFINE new == f[n]
               next == Next_(new)
    <2> HIDE DEF next, new
    <2> DEFINE g == [m \in 0..(n + 1) |-> IF m = n + 1 THEN next ELSE f[m]]
    <2>2. g[0] = conditions
        BY <2>1
    <2>3. ASSUME NEW m \in 1..(n + 1) PROVE g[m] = Next_(g[m - 1])
        <3>1. CASE m = n + 1
            <4>1. m - 1 = n /\ g[n] = f[n] /\ g[m] = next
                BY <3>1
            <4> QED
                BY <4>1 DEF next, new
        <3>2. CASE m # n + 1
            <4>1. m \in 1..n /\ m - 1 \in 0..(n + 1) /\ m - 1 # n + 1
                BY <3>2
            <4>2. g[m] = f[m] /\ g[m - 1] = f[m - 1]
                BY <4>1
            <4> HIDE DEF g, Next_
            <4> QED
                BY <2>1, <4>1, <4>2
        <3> QED
            BY <3>1, <3>2
    <2>4. Right(g, n + 1)
        BY <2>2, <2>3
    <2> HIDE DEF Right, g
    <2> QED
        BY <2>4
<1>3. MaxDepth \in T
    <2> HIDE DEF T
    <2> QED
        BY <1>0, <1>1, <1>2, UpTo
<1>4. PICK f : Right(f, MaxDepth)
    BY <1>3
<1> DEFINE h == [n \in 0..MaxDepth |-> f[n]]
<1>5. ASSUME NEW n \in 0..MaxDepth
      PROVE  h[n] = IF n = 0 THEN conditions ELSE h[n - 1] \cup Joined(node, h[n - 1])
    <2>1. CASE n = 0
        BY <1>4, <2>1
    <2>2. CASE n # 0
        <3>1. n \in 1..MaxDepth /\ n - 1 \in 0..MaxDepth
            BY <1>0, <2>2
        <3>2. h[n] = f[n] /\ h[n - 1] = f[n - 1] /\ f[n] = Next_(f[n - 1])
            BY <1>4, <3>1
        <3> HIDE DEF h
        <3> QED
            BY <2>2, <3>2
    <2> QED
        BY <2>1, <2>2
<1>6. IsLevels(node, conditions, h)
    <2>1. h = [n \in 0..MaxDepth |-> h[n]]
        OBVIOUS
    <2> HIDE DEF h
    <2> QED
        BY <1>5, <2>1 DEF IsLevels
<1> HIDE DEF h
<1> QED
    BY <1>6 DEF Levels

\* What is known of the levels.
LEMMA LevelFacts ==
    ASSUME NEW node, NEW conditions, NEW L, L = Levels(node, conditions)
    PROVE  /\ MaxDepth \in Nat
           /\ L[0] = conditions
           /\ \A n \in 1..MaxDepth : L[n] = L[n - 1] \cup Joined(node, L[n - 1])
           /\ \A n \in 0..MaxDepth : L[n] \subseteq Trees(node, conditions)
           /\ L[MaxDepth] = Trees(node, conditions)
<1>0. MaxDepth \in Nat
    BY PlannerAssumption
<1>1. IsLevels(node, conditions, L)
    BY LevelsExist
<1>2. /\ L[0] = conditions
      /\ \A n \in 1..MaxDepth : L[n] = L[n - 1] \cup Joined(node, L[n - 1])
    <2>1. \A n \in 0..MaxDepth : L[n] = IF n = 0 THEN conditions
                                       ELSE L[n - 1] \cup Joined(node, L[n - 1])
        BY <1>1 DEF IsLevels
    <2>2. 0 \in 0..MaxDepth /\ \A n \in 1..MaxDepth : n \in 0..MaxDepth /\ n # 0
        BY <1>0
    <2> QED
        BY <2>1, <2>2
<1>3. Trees(node, conditions) = L[MaxDepth]
    BY DEF Trees, Levels, IsLevels
<1> DEFINE T == {n \in Nat : n <= MaxDepth => L[MaxDepth - n] \subseteq L[MaxDepth]}
<1>4. 0 \in T
    BY <1>0
<1>5. ASSUME NEW n \in 0..(MaxDepth - 1), n \in T PROVE n + 1 \in T
    <2>1. MaxDepth - n \in 1..MaxDepth /\ MaxDepth - n - 1 = MaxDepth - (n + 1)
        BY <1>0
    <2>2. L[MaxDepth - (n + 1)] \subseteq L[MaxDepth - n]
        BY <1>2, <2>1
    <2> QED
        BY <1>0, <1>5, <2>2
<1>6. \A n \in 0..MaxDepth : n \in T
    <2> HIDE DEF T
    <2> QED
        BY <1>0, <1>4, <1>5, UpTo
<1>7. ASSUME NEW n \in 0..MaxDepth PROVE L[n] \subseteq L[MaxDepth]
    <2>1. MaxDepth - n \in 0..MaxDepth /\ MaxDepth - (MaxDepth - n) = n
        BY <1>0
    <2>2. MaxDepth - n \in T
        BY <1>6, <2>1
    <2> QED
        BY <1>0, <2>1, <2>2
<1> QED
    BY <1>0, <1>2, <1>3, <1>7

\* A tree is a condition, or joins two trees.
LEMMA TreeCases ==
    ASSUME NEW node, NEW conditions
    PROVE  /\ conditions \subseteq Trees(node, conditions)
           /\ \A e \in Trees(node, conditions) :
                 e \in conditions \/ e \in Joined(node, Trees(node, conditions))
<1> DEFINE L == Levels(node, conditions)
           D == Trees(node, conditions)
           T == {n \in Nat : n <= MaxDepth => \A e \in L[n] : e \in conditions \/ e \in Joined(node, D)}
<1>1. /\ MaxDepth \in Nat /\ L[0] = conditions
      /\ \A n \in 1..MaxDepth : L[n] = L[n - 1] \cup Joined(node, L[n - 1])
      /\ \A n \in 0..MaxDepth : L[n] \subseteq D
      /\ L[MaxDepth] = D
    BY LevelFacts
<1> HIDE DEF L, D
<1>2. 0 \in T
    BY <1>1
<1>3. ASSUME NEW n \in 0..(MaxDepth - 1), n \in T PROVE n + 1 \in T
    <2>1. n + 1 \in 1..MaxDepth /\ n \in 0..MaxDepth /\ (n + 1) - 1 = n
        BY <1>1
    <2>2. L[n + 1] = L[n] \cup Joined(node, L[n]) /\ L[n] \subseteq D
        BY <1>1, <2>1
    <2>3. Joined(node, L[n]) \subseteq Joined(node, D)
        BY <2>2 DEF Joined
    <2> QED
        BY <1>1, <1>3, <2>1, <2>2, <2>3
<1>4. MaxDepth \in T
    <2> HIDE DEF T
    <2> QED
        BY <1>1, <1>2, <1>3, UpTo
<1>5. conditions \subseteq D
    BY <1>1
<1> QED
    BY <1>1, <1>4, <1>5 DEF D

\* Induction over trees: from the conditions to every tree over them.
LEMMA TreeInduction ==
    ASSUME NEW node, NEW conditions, NEW S, conditions \subseteq S,
           \A e \in Joined(node, Trees(node, conditions)) : e.left \in S /\ e.right \in S => e \in S
    PROVE  Trees(node, conditions) \subseteq S
<1> DEFINE L == Levels(node, conditions)
           D == Trees(node, conditions)
           T == {n \in Nat : n <= MaxDepth => L[n] \subseteq S}
<1>1. /\ MaxDepth \in Nat /\ L[0] = conditions
      /\ \A n \in 1..MaxDepth : L[n] = L[n - 1] \cup Joined(node, L[n - 1])
      /\ \A n \in 0..MaxDepth : L[n] \subseteq D
      /\ L[MaxDepth] = D
    BY LevelFacts
<1>2. \A e \in Joined(node, D) : e.left \in S /\ e.right \in S => e \in S
    OBVIOUS
<1> HIDE DEF L, D
<1>3. 0 \in T
    BY <1>1
<1>4. ASSUME NEW n \in 0..(MaxDepth - 1), n \in T PROVE n + 1 \in T
    <2>1. n + 1 \in 1..MaxDepth /\ n \in 0..MaxDepth /\ (n + 1) - 1 = n /\ n <= MaxDepth
        BY <1>1
    <2>2. L[n + 1] = L[n] \cup Joined(node, L[n]) /\ L[n] \subseteq D /\ L[n] \subseteq S
        BY <1>1, <1>4, <2>1
    <2>3. ASSUME NEW e \in Joined(node, L[n]) PROVE e \in S
        <3>1. e.left \in L[n] /\ e.right \in L[n] /\ e \in Joined(node, D)
            BY <2>2 DEF Joined
        <3> QED
            BY <1>2, <2>2, <3>1
    <2> QED
        BY <1>1, <2>1, <2>2, <2>3
<1>5. MaxDepth \in T
    <2> HIDE DEF T
    <2> QED
        BY <1>1, <1>3, <1>4, UpTo
<1> QED
    BY <1>1, <1>5 DEF D

\* A function that turns conditions into conditions, and what joins two trees into
\* one of what it makes of these or into what joins two such.
LEMMA TreeMap ==
    ASSUME NEW node, NEW conditions, NEW node2, NEW conditions2, NEW f,
           \A e \in conditions : f[e] \in conditions2,
           \A e \in Trees(node, conditions) \cap Joined(node, Trees(node, conditions)) :
              \A S : f[e.left] \in S /\ f[e.right] \in S => f[e] \in S \cup Joined(node2, S)
    PROVE  \A e \in Trees(node, conditions) : f[e] \in Trees(node2, conditions2)
<1> DEFINE L == Levels(node, conditions)
           L2 == Levels(node2, conditions2)
           D == Trees(node, conditions)
           D2 == Trees(node2, conditions2)
           T == {n \in Nat : n <= MaxDepth => \A e \in L[n] : f[e] \in L2[n]}
<1>1. /\ MaxDepth \in Nat /\ L[0] = conditions
      /\ \A n \in 1..MaxDepth : L[n] = L[n - 1] \cup Joined(node, L[n - 1])
      /\ \A n \in 0..MaxDepth : L[n] \subseteq D
      /\ L[MaxDepth] = D
    BY LevelFacts
<1>2. /\ L2[0] = conditions2
      /\ \A n \in 1..MaxDepth : L2[n] = L2[n - 1] \cup Joined(node2, L2[n - 1])
      /\ L2[MaxDepth] = D2
    BY LevelFacts
<1>3. \A e \in D \cap Joined(node, D) :
          \A S : f[e.left] \in S /\ f[e.right] \in S => f[e] \in S \cup Joined(node2, S)
    OBVIOUS
<1> HIDE DEF L, L2, D, D2
<1>4. 0 \in T
    BY <1>1, <1>2
<1>5. ASSUME NEW n \in 0..(MaxDepth - 1), n \in T PROVE n + 1 \in T
    <2>1. n + 1 \in 1..MaxDepth /\ n + 1 \in 0..MaxDepth /\ n \in 0..MaxDepth /\ (n + 1) - 1 = n /\ n <= MaxDepth
        BY <1>1
    <2>2. /\ L[n + 1] = L[n] \cup Joined(node, L[n]) /\ L[n] \subseteq D
          /\ L2[n + 1] = L2[n] \cup Joined(node2, L2[n])
          /\ \A e \in L[n] : f[e] \in L2[n]
        BY <1>1, <1>2, <1>5, <2>1
    <2>3. ASSUME NEW e \in Joined(node, L[n]) PROVE f[e] \in L2[n + 1]
        <3>1. e.left \in L[n] /\ e.right \in L[n] /\ e \in Joined(node, D) /\ e \in L[n + 1]
            BY <2>2 DEF Joined
        <3>2. e \in D
            BY <1>1, <2>1, <3>1
        <3>3. f[e.left] \in L2[n] /\ f[e.right] \in L2[n]
            BY <2>2, <3>1
        <3> QED
            BY <1>3, <2>2, <3>1, <3>2, <3>3
    <2>4. \A e \in L[n + 1] : f[e] \in L2[n + 1]
        BY <2>2, <2>3
    <2> QED
        BY <1>1, <2>1, <2>4
<1>6. MaxDepth \in T
    <2> HIDE DEF T
    <2> QED
        BY <1>1, <1>4, <1>5, UpTo
<1> QED
    BY <1>1, <1>2, <1>6 DEF D, D2

-----------------------------------------------------------------------------
\* The parts of an expression.
Sub(e) == CASE e.node \in {"Column", "Literal"} -> {}
            [] e.node = "Cast" -> {e.expr}
            [] OTHER -> {e.left, e.right}

\* The expressions D are made in N steps: step n adds some whose parts are there.
Steps(D, N, B) ==
    /\ N \in Nat
    /\ \A n \in 0..N : B[n] \subseteq D
    /\ B[N] = D
    /\ \A e \in B[0] : Sub(e) = {}
    /\ \A n \in 1..N : \A e \in B[n] : Sub(e) \subseteq B[n - 1]

\* There are such levels.
Grounded(D) == \E N, B : Steps(D, N, B)

\* What holds of an expression if it holds of its parts, holds of all of them.
LEMMA Induction ==
    ASSUME NEW D, Grounded(D), NEW S, \A e \in D : Sub(e) \subseteq S => e \in S
    PROVE  D \subseteq S
<1>1. PICK N, B : Steps(D, N, B)
    BY DEF Grounded
<1> DEFINE T == {n \in Nat : n <= N => B[n] \subseteq S}
<1>2. N \in Nat /\ N \in 0..N
    BY <1>1 DEF Steps
<1>3. 0 \in T
    BY <1>1, <1>2 DEF Steps
<1>4. ASSUME NEW n \in 0..(N - 1), n \in T PROVE n + 1 \in T
    <2>1. n + 1 \in 1..N /\ n + 1 \in 0..N /\ n \in 0..N /\ (n + 1) - 1 = n /\ n <= N
        BY <1>2
    <2>2. B[n] \subseteq S
        BY <1>4, <2>1
    <2>3. \A e \in B[n + 1] : e \in D /\ Sub(e) \subseteq B[n]
        BY <1>1, <2>1 DEF Steps
    <2> QED
        BY <1>2, <2>1, <2>2, <2>3
<1>5. N \in T
    <2> HIDE DEF T
    <2> QED
        BY <1>2, <1>3, <1>4, UpTo
<1> QED
    BY <1>1, <1>2, <1>5 DEF Steps

\* G[e][f] is made of values of f at the parts of e.
Structural(D, R, G) ==
    /\ G \in [D -> [[D -> R] -> R]]
    /\ \A e \in D : \A g, h \in [D -> R] :
          (\A s \in Sub(e) : g[s] = h[s]) => G[e][g] = G[e][h]

\* The recursive equation has a solution: the CHOOSE that such a
\* definition stands for is a function that fulfils it.
Solvable(D, R, G) == \E f \in [D -> R] : \A e \in D : f[e] = G[e][f]

\* Then the equation f[e] = G[e][f] has a solution.
LEMMA Recursion ==
    ASSUME NEW D, Grounded(D), NEW R, R # {}, NEW G, Structural(D, R, G)
    PROVE  Solvable(D, R, G)
<1>0. /\ G \in [D -> [[D -> R] -> R]]
      /\ \A e \in D : \A g, h \in [D -> R] :
            (\A s \in Sub(e) : g[s] = h[s]) => G[e][g] = G[e][h]
    BY DEF Structural
<1> USE <1>0
<1>1. PICK N, B : Steps(D, N, B)
    BY DEF Grounded
<1> DEFINE T == {n \in Nat : n <= N => \E f \in [D -> R] : \A e \in B[n] : f[e] = G[e][f]}
<1>2. /\ N \in Nat /\ \A n \in 0..N : B[n] \subseteq D /\ 0 \in 0..N /\ N \in 0..N
      /\ \A e \in B[0] : Sub(e) = {}
    BY <1>1 DEF Steps
<1>3. ASSUME NEW f \in [D -> R] PROVE [e \in D |-> G[e][f]] \in [D -> R]
    OBVIOUS
<1>4. 0 \in T
    <2>0. PICK r : r \in R
        OBVIOUS
    <2> DEFINE g == [e \in D |-> r]
               h == [e \in D |-> G[e][g]]
    <2>1. g \in [D -> R] /\ h \in [D -> R]
        BY <2>0
    <2>2. ASSUME NEW e \in B[0] PROVE h[e] = G[e][h]
        <3>1. e \in D /\ Sub(e) = {}
            BY <1>2
        <3>2. h[e] = G[e][g]
            BY <3>1
        <3> HIDE DEF g, h
        <3>3. G[e][g] = G[e][h]
            BY <2>1, <3>1
        <3> QED
            BY <3>2, <3>3
    <2> HIDE DEF g, h
    <2> QED
        BY <1>2, <2>1, <2>2
<1>5. ASSUME NEW n \in 0..(N - 1), n \in T PROVE n + 1 \in T
    <2>1. n + 1 \in 1..N /\ n + 1 \in 0..N /\ n \in 0..N /\ (n + 1) - 1 = n /\ n <= N
        BY <1>2
    <2>2. PICK f \in [D -> R] : \A e \in B[n] : f[e] = G[e][f]
        BY <1>5, <2>1
    <2> DEFINE h == [e \in D |-> G[e][f]]
    <2>3. h \in [D -> R]
        BY <1>3
    <2>4. \A e \in B[n] : h[e] = f[e]
        BY <1>2, <2>1, <2>2
    <2>5. ASSUME NEW e \in B[n + 1] PROVE h[e] = G[e][h]
        <3>1. e \in D /\ Sub(e) \subseteq B[n]
            BY <1>1, <2>1 DEF Steps
        <3>2. h[e] = G[e][f]
            BY <3>1
        <3>3. \A s \in Sub(e) : f[s] = h[s]
            BY <2>4, <3>1
        <3> HIDE DEF h
        <3> QED
            BY <2>3, <3>1, <3>2, <3>3
    <2> HIDE DEF h
    <2> QED
        BY <1>2, <2>1, <2>3, <2>5
<1>6. N \in T
    <2> HIDE DEF T
    <2>1. \A n \in 0..(N - 1) : n \in T => n + 1 \in T
        BY <1>5
    <2>2. N \in Nat /\ N \in 0..N
        BY <1>2
    <2>3. 0 \in T
        BY <1>4
    <2> QED
        BY <2>1, <2>2, <2>3, UpTo
<1>7. PICK f \in [D -> R] : \A e \in B[N] : f[e] = G[e][f]
    BY <1>2, <1>6
<1>8. B[N] = D
    BY <1>1 DEF Steps
<1> QED
    BY <1>7, <1>8 DEF Solvable

\* The case that the equation defines a predicate.
LEMMA Predicates ==
    ASSUME NEW D, Grounded(D), NEW G, Structural(D, BOOLEAN, G)
    PROVE  Solvable(D, BOOLEAN, G)
<1>1. PICK R : R = BOOLEAN
    OBVIOUS
<1>2. R # {} /\ Structural(D, R, G)
    BY <1>1
<1>3. Solvable(D, R, G)
    BY <1>2, Recursion
<1> QED
    BY <1>1, <1>3

-----------------------------------------------------------------------------
(***************************************************************************)
(* The expressions of statements, logical and physical plans               *)
(***************************************************************************)
SqlOver(cols, vals) == Exprs("BinaryOp", "BinaryOp", SqlOperands(cols, vals))
LogicalOver(cols, vals) == Exprs("BinaryOp", "BinaryOp", LogicalOperands(cols, vals))
PhysicalOver(cols, vals) == Exprs("Compare", "Logical", PhysicalOperands(cols, vals))

\* The nodes that are no tree of AND and OR.
LeafNodes == {"Column", "Literal", "Cast"}

\* All three sets of expressions are Grounded.
LEMMA ExprsGrounded ==
    ASSUME NEW comparison, NEW connective, comparison \notin LeafNodes, connective \notin LeafNodes,
           NEW operands,
           \A o \in operands : \/ o.node \in {"Column", "Literal"}
                              \/ /\ o.node = "Cast" /\ o.expr \in operands
                                 /\ o.expr.node \in {"Column", "Literal"}
    PROVE  Grounded(Exprs(comparison, connective, operands))
<1> DEFINE conditions == operands \cup Compared(comparison, operands)
           L == Levels(connective, conditions)
           D == Exprs(comparison, connective, operands)
           T == {n \in Nat : n <= MaxDepth =>
                    conditions \subseteq L[n] /\ \A e \in L[n] : Sub(e) \subseteq L[n]}
           first == {o \in operands : o.node # "Cast"}
           B == [n \in 0..(MaxDepth + 2) |->
                    IF n = 0 THEN first ELSE IF n = 1 THEN operands ELSE L[n - 2]]
<1>1. /\ MaxDepth \in Nat /\ L[0] = conditions
      /\ \A n \in 1..MaxDepth : L[n] = L[n - 1] \cup Joined(connective, L[n - 1])
      /\ \A n \in 0..MaxDepth : L[n] \subseteq D
      /\ L[MaxDepth] = D
    BY LevelFacts DEF Exprs
<1>2. /\ first \subseteq operands /\ operands \subseteq conditions
      /\ \A e \in first : Sub(e) = {}
      /\ \A e \in operands : Sub(e) \subseteq first
    BY DEF Sub
<1>3. \A e \in conditions : Sub(e) \subseteq operands
    <2>1. ASSUME NEW e \in Compared(comparison, operands) PROVE Sub(e) \subseteq operands
        <3>1. e.node = comparison /\ e.left \in operands /\ e.right \in operands
            BY DEF Compared
        <3> QED
            BY <3>1 DEF Sub, LeafNodes
    <2> QED
        BY <1>2, <2>1
<1>4. ASSUME NEW S, NEW e \in Joined(connective, S) PROVE Sub(e) \subseteq S
    <2>1. e.node = connective /\ e.left \in S /\ e.right \in S
        BY DEF Joined
    <2> QED
        BY <2>1 DEF Sub, LeafNodes
<1> HIDE DEF L, D, first, conditions
<1>5. 0 \in T
    BY <1>1, <1>2, <1>3
<1>6. ASSUME NEW n \in 0..(MaxDepth - 1), n \in T PROVE n + 1 \in T
    <2>1. n + 1 \in 1..MaxDepth /\ (n + 1) - 1 = n /\ n <= MaxDepth
        BY <1>1
    <2>2. L[n + 1] = L[n] \cup Joined(connective, L[n])
        BY <1>1, <2>1
    <2>3. conditions \subseteq L[n] /\ \A e \in L[n] : Sub(e) \subseteq L[n]
        BY <1>6, <2>1
    <2> QED
        BY <1>4, <2>2, <2>3
<1>7. \A n \in 0..MaxDepth : n \in T
    <2> HIDE DEF T
    <2>1. MaxDepth \in Nat
        BY <1>1
    <2> QED
        BY <2>1, <1>5, <1>6, UpTo
<1>8. /\ B[0] = first /\ B[1] = operands
      /\ \A n \in 2..(MaxDepth + 2) : B[n] = L[n - 2]
      /\ B[MaxDepth + 2] = D
    BY <1>1
<1>9. ASSUME NEW n \in 0..(MaxDepth + 2) PROVE B[n] \subseteq D
    <2>1. conditions \subseteq D /\ n \in {0, 1} \cup 2..(MaxDepth + 2)
        BY <1>1
    <2>2. n \in 2..(MaxDepth + 2) => n - 2 \in 0..MaxDepth
        BY <1>1
    <2> HIDE DEF B
    <2> QED
        BY <1>1, <1>2, <1>8, <2>1, <2>2
<1>10. ASSUME NEW n \in 1..(MaxDepth + 2), NEW e \in B[n] PROVE Sub(e) \subseteq B[n - 1]
    <2> HIDE DEF B
    <2>1. CASE n = 1
        BY <1>2, <1>8, <2>1
    <2>2. CASE n = 2
        <3>1. n - 1 = 1 /\ n - 2 = 0 /\ n \in 2..(MaxDepth + 2)
            BY <1>1, <2>2
        <3> QED
            BY <1>1, <1>3, <1>8, <3>1
    <2>3. CASE n \notin {1, 2}
        <3> DEFINE m == n - 3
        <3>1. /\ n \in 2..(MaxDepth + 2) /\ n - 1 \in 2..(MaxDepth + 2)
              /\ n - 2 \in 1..MaxDepth /\ (n - 1) - 2 = m /\ (n - 2) - 1 = m
              /\ m \in 0..MaxDepth /\ m <= MaxDepth
            BY <1>1, <2>3
        <3>2. B[n] = L[n - 2] /\ B[n - 1] = L[m] /\ L[n - 2] = L[m] \cup Joined(connective, L[m])
            BY <1>1, <1>8, <3>1
        <3>3. \A x \in L[m] : Sub(x) \subseteq L[m]
            BY <1>7, <3>1
        <3> HIDE DEF m
        <3> QED
            BY <1>4, <3>2, <3>3
    <2> QED
        BY <2>1, <2>2, <2>3
<1>11. Steps(D, MaxDepth + 2, B)
    <2>1. MaxDepth + 2 \in Nat
        BY <1>1
    <2>2. \A e \in B[0] : Sub(e) = {}
        BY <1>2, <1>8
    <2> HIDE DEF B
    <2> QED
        BY <1>8, <1>9, <1>10, <2>1, <2>2 DEF Steps
<1> HIDE DEF B
<1> QED
    BY <1>11 DEF D, Grounded

\* What an expression of each set is made of.
LEMMA SqlCases ==
    ASSUME NEW cols, NEW vals, NEW e \in SqlOver(cols, vals)
    PROVE  \/ IsCol(e) /\ e = Col(e.column) /\ e.column \in cols
           \/ /\ IsLit(e) /\ e = SqlLit(e.kind, e.val, e.whole)
              /\ e.kind \in SqlKinds /\ e.val \in vals /\ e.whole \in BOOLEAN
           \/ /\ e.node = "BinaryOp" /\ e.op \in CmpOps
              /\ e.left \in SqlOperands(cols, vals) /\ e.right \in SqlOperands(cols, vals)
              /\ e.left \in SqlOver(cols, vals) /\ e.right \in SqlOver(cols, vals)
           \/ /\ e.node = "BinaryOp" /\ e.op \in {"And", "Or"}
              /\ e.left \in SqlOver(cols, vals) /\ e.right \in SqlOver(cols, vals)
<1>1. /\ \/ e \in SqlOperands(cols, vals) \/ e \in Compared("BinaryOp", SqlOperands(cols, vals))
         \/ e \in Joined("BinaryOp", SqlOver(cols, vals))
      /\ SqlOperands(cols, vals) \subseteq SqlOver(cols, vals)
    BY TreeCases DEF SqlOver, Exprs
<1>2. CASE e \in SqlOperands(cols, vals)
    BY <1>2 DEF SqlOperands, ColsOf, IsCol, IsLit, Col, SqlLit
<1>3. CASE e \in Compared("BinaryOp", SqlOperands(cols, vals))
    BY <1>1, <1>3 DEF Compared
<1>4. CASE e \in Joined("BinaryOp", SqlOver(cols, vals))
    BY <1>4 DEF Joined
<1> QED
    BY <1>1, <1>2, <1>3, <1>4

LEMMA LogicalCases ==
    ASSUME NEW cols, NEW vals, NEW e \in LogicalOver(cols, vals)
    PROVE  \/ IsCol(e) /\ e = Col(e.column) /\ e.column \in cols
           \/ /\ IsLit(e) /\ e = Lit(e.kind, e.val)
              /\ e.kind \in LogicalKinds /\ e.val \in vals
           \/ /\ e.node = "Cast" /\ e = Cast(e.expr, e.type) /\ e.type \in DataTypes
              /\ e.expr \in LogicalOver(cols, vals)
              /\ IsLit(e.expr) /\ e.expr.kind \in LogicalKinds /\ e.expr.val \in vals
           \/ /\ e.node = "BinaryOp" /\ e.op \in CmpOps
              /\ e.left \in LogicalOperands(cols, vals) /\ e.right \in LogicalOperands(cols, vals)
              /\ e.left \in LogicalOver(cols, vals) /\ e.right \in LogicalOver(cols, vals)
           \/ /\ e.node = "BinaryOp" /\ e.op \in {"And", "Or"}
              /\ e.left \in LogicalOver(cols, vals) /\ e.right \in LogicalOver(cols, vals)
<1> DEFINE Operand == LogicalOperands(cols, vals)
<1>1. /\ \/ e \in Operand \/ e \in Compared("BinaryOp", Operand)
         \/ e \in Joined("BinaryOp", LogicalOver(cols, vals))
      /\ Operand \subseteq LogicalOver(cols, vals)
    BY TreeCases DEF LogicalOver, Exprs
<1>2. CASE e \in Operand
    <2>1. CASE e \in [node : {"Cast"}, expr : LitsOf(LogicalKinds, vals), type : DataTypes]
        <3>1. /\ e.node = "Cast" /\ e = Cast(e.expr, e.type) /\ e.type \in DataTypes
              /\ e.expr \in LitsOf(LogicalKinds, vals)
            BY <2>1 DEF Cast
        <3>2. e.expr \in Operand
            BY <3>1 DEF LogicalOperands
        <3>3. IsLit(e.expr) /\ e.expr.kind \in LogicalKinds /\ e.expr.val \in vals
            BY <3>1 DEF LitsOf, IsLit
        <3> QED
            BY <1>1, <3>1, <3>2, <3>3
    <2>2. CASE e \in ColsOf(cols)
        BY <2>2 DEF ColsOf, IsCol, Col
    <2>3. CASE e \in LitsOf(LogicalKinds, vals)
        BY <2>3 DEF LitsOf, IsLit, Lit
    <2> QED
        BY <1>2, <2>1, <2>2, <2>3 DEF LogicalOperands
<1>3. CASE e \in Compared("BinaryOp", Operand)
    BY <1>1, <1>3 DEF Compared
<1>4. CASE e \in Joined("BinaryOp", LogicalOver(cols, vals))
    BY <1>4 DEF Joined
<1> QED
    BY <1>1, <1>2, <1>3, <1>4

LEMMA PhysicalCases ==
    ASSUME NEW cols, NEW vals, NEW p \in PhysicalOver(cols, vals)
    PROVE  \/ IsCol(p) /\ p = Col(p.column) /\ p.column \in cols
           \/ /\ IsLit(p) /\ p = Lit(p.kind, p.val)
              /\ p.kind \in DataTypes \cup {"Null"} /\ p.val \in vals
           \/ /\ p.node = "Compare" /\ p.op \in CmpOps
              /\ p.left \in PhysicalOperands(cols, vals) /\ p.right \in PhysicalOperands(cols, vals)
              /\ p.left \in PhysicalOver(cols, vals) /\ p.right \in PhysicalOver(cols, vals)
           \/ /\ p.node = "Logical" /\ p.op \in {"And", "Or"}
              /\ p.left \in PhysicalOver(cols, vals) /\ p.right \in PhysicalOver(cols, vals)
<1> DEFINE Operand == PhysicalOperands(cols, vals)
<1>1. /\ \/ p \in Operand \/ p \in Compared("Compare", Operand)
         \/ p \in Joined("Logical", PhysicalOver(cols, vals))
      /\ Operand \subseteq PhysicalOver(cols, vals)
    BY TreeCases DEF PhysicalOver, Exprs
<1>2. CASE p \in Operand
    BY <1>2 DEF PhysicalOperands, ColsOf, LitsOf, IsCol, IsLit, Col, Lit
<1>3. CASE p \in Compared("Compare", Operand)
    BY <1>1, <1>3 DEF Compared
<1>4. CASE p \in Joined("Logical", PhysicalOver(cols, vals))
    BY <1>4 DEF Joined
<1> QED
    BY <1>1, <1>2, <1>3, <1>4

LEMMA SqlGrounded == Grounded(SqlExpr)
<1>1. \A o \in SqlOperands(Columns, Value) : o.node \in {"Column", "Literal"}
    BY DEF SqlOperands, ColsOf
<1>2. "BinaryOp" \notin LeafNodes
    BY DEF LeafNodes
<1> QED
    BY <1>1, <1>2, ExprsGrounded DEF SqlExpr

LEMMA LogicalGrounded == Grounded(LogicalExpr)
<1>1. \A o \in LogicalOperands(Columns, Value) :
          \/ o.node \in {"Column", "Literal"}
          \/ /\ o.node = "Cast" /\ o.expr \in LogicalOperands(Columns, Value)
             /\ o.expr.node \in {"Column", "Literal"}
    BY DEF LogicalOperands, ColsOf, LitsOf
<1>2. "BinaryOp" \notin LeafNodes
    BY DEF LeafNodes
<1> QED
    BY <1>1, <1>2, ExprsGrounded DEF LogicalExpr

LEMMA PhysicalGrounded == Grounded(PhysicalExpr)
<1>1. \A o \in PhysicalOperands(Columns, Value) : o.node \in {"Column", "Literal"}
    BY DEF PhysicalOperands, ColsOf, LitsOf
<1>2. "Compare" \notin LeafNodes /\ "Logical" \notin LeafNodes
    BY DEF LeafNodes
<1> QED
    BY <1>1, <1>2, ExprsGrounded DEF PhysicalExpr

\* The parts of an inner node.
LEMMA SqlParts ==
    ASSUME NEW e \in SqlExpr, e.node = "BinaryOp"
    PROVE  Sub(e) = {e.left, e.right} /\ e.left \in SqlExpr /\ e.right \in SqlExpr
<1>1. e.left \in SqlExpr /\ e.right \in SqlExpr
    BY SqlCases DEF SqlExpr, SqlOver, IsCol, IsLit
<1> QED
    BY <1>1 DEF Sub

LEMMA LogicalParts ==
    ASSUME NEW e \in LogicalExpr
    PROVE  /\ e.node = "BinaryOp" =>
                 Sub(e) = {e.left, e.right} /\ e.left \in LogicalExpr /\ e.right \in LogicalExpr
           /\ e.node = "Cast" => Sub(e) = {e.expr} /\ e.expr \in LogicalExpr
<1>1. /\ e.node = "BinaryOp" => e.left \in LogicalExpr /\ e.right \in LogicalExpr
      /\ e.node = "Cast" => e.expr \in LogicalExpr
    BY LogicalCases DEF LogicalExpr, LogicalOver, IsCol, IsLit
<1> QED
    BY <1>1 DEF Sub

LEMMA PhysicalParts ==
    ASSUME NEW p \in PhysicalExpr, p.node \in {"Compare", "Logical"}
    PROVE  Sub(p) = {p.left, p.right} /\ p.left \in PhysicalExpr /\ p.right \in PhysicalExpr
<1>1. p.left \in PhysicalExpr /\ p.right \in PhysicalExpr
    BY PhysicalCases DEF PhysicalExpr, PhysicalOver, IsCol, IsLit
<1> QED
    BY <1>1 DEF Sub

-----------------------------------------------------------------------------
(***************************************************************************)
(* The equations of the recursive functions                                *)
(***************************************************************************)
LEMMA AcceptedIs ==
    ASSUME NEW e \in SqlExpr
    PROVE  Accepted[e] =
               (e.node = "BinaryOp" =>
                   /\ IsCol(e.left) /\ IsLit(e.right) => TypesFit(TypeOf[e.left.column], e.right)
                   /\ IsLit(e.left) /\ IsCol(e.right) => TypesFit(TypeOf[e.right.column], e.left)
                   /\ Accepted[e.left] /\ Accepted[e.right])
<1> DEFINE D == SqlExpr
           Body(x, f) ==
               (x.node = "BinaryOp" =>
                   /\ IsCol(x.left) /\ IsLit(x.right) => TypesFit(TypeOf[x.left.column], x.right)
                   /\ IsLit(x.left) /\ IsCol(x.right) => TypesFit(TypeOf[x.right.column], x.left)
                   /\ f[x.left] /\ f[x.right])
           G == [x \in D |-> [g \in [D -> BOOLEAN] |-> Body(x, g)]]
<1>1. ASSUME NEW x \in D, NEW f PROVE Body(x, f) \in BOOLEAN
    OBVIOUS
<1>2. ASSUME NEW x \in D, NEW g, NEW h, \A s \in Sub(x) : g[s] = h[s]
      PROVE  Body(x, g) = Body(x, h)
    BY <1>2, SqlParts
<1> HIDE DEF Body
<1>3. G \in [D -> [[D -> BOOLEAN] -> BOOLEAN]]
    BY <1>1
<1>4. \A x \in D : \A g \in [D -> BOOLEAN] : G[x][g] = Body(x, g)
    OBVIOUS
<1> HIDE DEF G
<1>5. PICK f \in [D -> BOOLEAN] : \A x \in D : f[x] = G[x][f]
    <2>1. ASSUME NEW x \in D, NEW g \in [D -> BOOLEAN], NEW h \in [D -> BOOLEAN],
                 \A s \in Sub(x) : g[s] = h[s]
          PROVE  G[x][g] = G[x][h]
        <3>1. Body(x, g) = Body(x, h)
            BY <1>2, <2>1
        <3> QED
            BY <1>4, <3>1
    <2>2. Structural(D, BOOLEAN, G)
        BY <1>3, <2>1 DEF Structural
    <2> QED
        BY <2>2, SqlGrounded, Predicates DEF Solvable
<1>6. f = [x \in D |-> Body(x, f)]
    BY <1>4, <1>5
<1> DEFINE F == CHOOSE f_1 : f_1 = [x \in D |-> Body(x, f_1)]
<1>7. \A x : Accepted[x] = F[x]
    BY DEF Accepted, Body
<1>8. F = [x \in D |-> Body(x, F)]
    BY <1>6
<1> HIDE DEF F
<1>9. \A x \in D : F[x] = Body(x, F)
    BY <1>8
<1>10. F[e] = Body(e, F)
    BY <1>9
<1> QED
    BY <1>7, <1>10 DEF Body

LEMMA StatedIs ==
    ASSUME NEW e \in SqlExpr
    PROVE  Stated[e] =
               (/\ IsLit(e) => Ordinary(e.val) /\ \A type \in DataTypes : Ordinary(Meant(e, type))
                /\ e.node = "BinaryOp" =>
                      /\ Stated[e.left] /\ Stated[e.right]
                      /\ IsLit(e.left) /\ IsLit(e.right) /\ e.op \in CmpOps =>
                            LowerLiteral(e.left).kind = "Int" /\ LowerLiteral(e.right).kind = "Int")
<1> DEFINE D == SqlExpr
           Body(x, f) ==
               (/\ IsLit(x) => Ordinary(x.val) /\ \A type \in DataTypes : Ordinary(Meant(x, type))
                /\ x.node = "BinaryOp" =>
                      /\ f[x.left] /\ f[x.right]
                      /\ IsLit(x.left) /\ IsLit(x.right) /\ x.op \in CmpOps =>
                            LowerLiteral(x.left).kind = "Int" /\ LowerLiteral(x.right).kind = "Int")
           G == [x \in D |-> [g \in [D -> BOOLEAN] |-> Body(x, g)]]
<1>1. ASSUME NEW x \in D, NEW f PROVE Body(x, f) \in BOOLEAN
    OBVIOUS
<1>2. ASSUME NEW x \in D, NEW g, NEW h, \A s \in Sub(x) : g[s] = h[s]
      PROVE  Body(x, g) = Body(x, h)
    BY <1>2, SqlParts
<1> HIDE DEF Body
<1>3. G \in [D -> [[D -> BOOLEAN] -> BOOLEAN]]
    BY <1>1
<1>4. \A x \in D : \A g \in [D -> BOOLEAN] : G[x][g] = Body(x, g)
    OBVIOUS
<1> HIDE DEF G
<1>5. PICK f \in [D -> BOOLEAN] : \A x \in D : f[x] = G[x][f]
    <2>1. ASSUME NEW x \in D, NEW g \in [D -> BOOLEAN], NEW h \in [D -> BOOLEAN],
                 \A s \in Sub(x) : g[s] = h[s]
          PROVE  G[x][g] = G[x][h]
        <3>1. Body(x, g) = Body(x, h)
            BY <1>2, <2>1
        <3> QED
            BY <1>4, <3>1
    <2>2. Structural(D, BOOLEAN, G)
        BY <1>3, <2>1 DEF Structural
    <2> QED
        BY <2>2, SqlGrounded, Predicates DEF Solvable
<1>6. f = [x \in D |-> Body(x, f)]
    BY <1>4, <1>5
<1> DEFINE F == CHOOSE f_1 : f_1 = [x \in D |-> Body(x, f_1)]
<1>7. \A x : Stated[x] = F[x]
    BY DEF Stated, Body
<1>8. F = [x \in D |-> Body(x, F)]
    BY <1>6
<1> HIDE DEF F
<1>9. \A x \in D : F[x] = Body(x, F)
    BY <1>8
<1>10. F[e] = Body(e, F)
    BY <1>9
<1> QED
    BY <1>7, <1>10 DEF Body

LEMMA WellTypedIs ==
    ASSUME NEW e \in SqlExpr
    PROVE  WellTyped[e] =
               (/\ e.node = "BinaryOp"
                /\ IF e.op \in CmpOps
                   THEN \/ IsCol(e.left) /\ IsLit(e.right) /\ LiteralFits(TypeOf[e.left.column], e.right)
                        \/ IsCol(e.right) /\ IsLit(e.left) /\ LiteralFits(TypeOf[e.right.column], e.left)
                   ELSE WellTyped[e.left] /\ WellTyped[e.right])
<1> DEFINE D == SqlExpr
           Body(x, f) ==
               (/\ x.node = "BinaryOp"
                /\ IF x.op \in CmpOps
                   THEN \/ IsCol(x.left) /\ IsLit(x.right) /\ LiteralFits(TypeOf[x.left.column], x.right)
                        \/ IsCol(x.right) /\ IsLit(x.left) /\ LiteralFits(TypeOf[x.right.column], x.left)
                   ELSE f[x.left] /\ f[x.right])
           G == [x \in D |-> [g \in [D -> BOOLEAN] |-> Body(x, g)]]
<1>1. ASSUME NEW x \in D, NEW f PROVE Body(x, f) \in BOOLEAN
    OBVIOUS
<1>2. ASSUME NEW x \in D, NEW g, NEW h, \A s \in Sub(x) : g[s] = h[s]
      PROVE  Body(x, g) = Body(x, h)
    BY <1>2, SqlParts
<1> HIDE DEF Body
<1>3. G \in [D -> [[D -> BOOLEAN] -> BOOLEAN]]
    BY <1>1
<1>4. \A x \in D : \A g \in [D -> BOOLEAN] : G[x][g] = Body(x, g)
    OBVIOUS
<1> HIDE DEF G
<1>5. PICK f \in [D -> BOOLEAN] : \A x \in D : f[x] = G[x][f]
    <2>1. ASSUME NEW x \in D, NEW g \in [D -> BOOLEAN], NEW h \in [D -> BOOLEAN],
                 \A s \in Sub(x) : g[s] = h[s]
          PROVE  G[x][g] = G[x][h]
        <3>1. Body(x, g) = Body(x, h)
            BY <1>2, <2>1
        <3> QED
            BY <1>4, <3>1
    <2>2. Structural(D, BOOLEAN, G)
        BY <1>3, <2>1 DEF Structural
    <2> QED
        BY <2>2, SqlGrounded, Predicates DEF Solvable
<1>6. f = [x \in D |-> Body(x, f)]
    BY <1>4, <1>5
<1> DEFINE F == CHOOSE f_1 : f_1 = [x \in D |-> Body(x, f_1)]
<1>7. \A x : WellTyped[x] = F[x]
    BY DEF WellTyped, Body
<1>8. F = [x \in D |-> Body(x, F)]
    BY <1>6
<1> HIDE DEF F
<1>9. \A x \in D : F[x] = Body(x, F)
    BY <1>8
<1>10. F[e] = Body(e, F)
    BY <1>9
<1> QED
    BY <1>7, <1>10 DEF Body

LEMMA SatisfiesIs ==
    ASSUME NEW row, NEW e \in SqlExpr
    PROVE  Satisfies(row, e) =
               (\/ IsCol(e) /\ row[e.column] = Truth(TRUE)
                \/ IsBool(e, TRUE)
                \/ /\ e.node = "BinaryOp" /\ e.op \in CmpOps
                   /\ ArrowCompare(e.op, MeantValue(e.left, e.right, row),
                                      MeantValue(e.right, e.left, row))
                \/ e.node = "BinaryOp" /\ e.op = "And" /\ Satisfies(row, e.left) /\ Satisfies(row, e.right)
                \/ e.node = "BinaryOp" /\ e.op = "Or" /\ (Satisfies(row, e.left) \/ Satisfies(row, e.right)))
<1> DEFINE D == SqlExpr
           Body(x, f) ==
               (\/ IsCol(x) /\ row[x.column] = Truth(TRUE)
                \/ IsBool(x, TRUE)
                \/ /\ x.node = "BinaryOp" /\ x.op \in CmpOps
                   /\ ArrowCompare(x.op, MeantValue(x.left, x.right, row),
                                      MeantValue(x.right, x.left, row))
                \/ x.node = "BinaryOp" /\ x.op = "And" /\ f[x.left] /\ f[x.right]
                \/ x.node = "BinaryOp" /\ x.op = "Or" /\ (f[x.left] \/ f[x.right]))
           G == [x \in D |-> [g \in [D -> BOOLEAN] |-> Body(x, g)]]
<1>1. ASSUME NEW x \in D, NEW f PROVE Body(x, f) \in BOOLEAN
    OBVIOUS
<1>2. ASSUME NEW x \in D, NEW g, NEW h, \A s \in Sub(x) : g[s] = h[s]
      PROVE  Body(x, g) = Body(x, h)
    BY <1>2, SqlParts
<1> HIDE DEF Body
<1>3. G \in [D -> [[D -> BOOLEAN] -> BOOLEAN]]
    BY <1>1
<1>4. \A x \in D : \A g \in [D -> BOOLEAN] : G[x][g] = Body(x, g)
    OBVIOUS
<1> HIDE DEF G
<1>5. PICK f \in [D -> BOOLEAN] : \A x \in D : f[x] = G[x][f]
    <2>1. ASSUME NEW x \in D, NEW g \in [D -> BOOLEAN], NEW h \in [D -> BOOLEAN],
                 \A s \in Sub(x) : g[s] = h[s]
          PROVE  G[x][g] = G[x][h]
        <3>1. Body(x, g) = Body(x, h)
            BY <1>2, <2>1
        <3> QED
            BY <1>4, <3>1
    <2>2. Structural(D, BOOLEAN, G)
        BY <1>3, <2>1 DEF Structural
    <2> QED
        BY <2>2, SqlGrounded, Predicates DEF Solvable
<1>6. f = [x \in D |-> Body(x, f)]
    BY <1>4, <1>5
<1> DEFINE F == CHOOSE f_1 : f_1 = [x \in D |-> Body(x, f_1)]
<1>7. \A x : Satisfies(row, x) = F[x]
    BY DEF Satisfies, Body
<1>8. F = [x \in D |-> Body(x, F)]
    BY <1>6
<1> HIDE DEF F
<1>9. \A x \in D : F[x] = Body(x, F)
    BY <1>8
<1>10. F[e] = Body(e, F)
    BY <1>9
<1> QED
    BY <1>7, <1>10 DEF Body

LEMMA LoweringPanicsIs ==
    ASSUME NEW e \in LogicalExpr
    PROVE  LoweringPanics[e] =
               (\/ e.node = "Cast" /\ CannotNarrow(e.expr, e.type)
                \/ e.node = "BinaryOp" /\ (LoweringPanics[e.left] \/ LoweringPanics[e.right]))
<1> DEFINE D == LogicalExpr
           Body(x, f) ==
               (\/ x.node = "Cast" /\ CannotNarrow(x.expr, x.type)
                \/ x.node = "BinaryOp" /\ (f[x.left] \/ f[x.right]))
           G == [x \in D |-> [g \in [D -> BOOLEAN] |-> Body(x, g)]]
<1>1. ASSUME NEW x \in D, NEW f PROVE Body(x, f) \in BOOLEAN
    OBVIOUS
<1>2. ASSUME NEW x \in D, NEW g, NEW h, \A s \in Sub(x) : g[s] = h[s]
      PROVE  Body(x, g) = Body(x, h)
    BY <1>2, LogicalParts
<1> HIDE DEF Body
<1>3. G \in [D -> [[D -> BOOLEAN] -> BOOLEAN]]
    BY <1>1
<1>4. \A x \in D : \A g \in [D -> BOOLEAN] : G[x][g] = Body(x, g)
    OBVIOUS
<1> HIDE DEF G
<1>5. PICK f \in [D -> BOOLEAN] : \A x \in D : f[x] = G[x][f]
    <2>1. ASSUME NEW x \in D, NEW g \in [D -> BOOLEAN], NEW h \in [D -> BOOLEAN],
                 \A s \in Sub(x) : g[s] = h[s]
          PROVE  G[x][g] = G[x][h]
        <3>1. Body(x, g) = Body(x, h)
            BY <1>2, <2>1
        <3> QED
            BY <1>4, <3>1
    <2>2. Structural(D, BOOLEAN, G)
        BY <1>3, <2>1 DEF Structural
    <2> QED
        BY <2>2, LogicalGrounded, Predicates DEF Solvable
<1>6. f = [x \in D |-> Body(x, f)]
    BY <1>4, <1>5
<1> DEFINE F == CHOOSE f_1 : f_1 = [x \in D |-> Body(x, f_1)]
<1>7. \A x : LoweringPanics[x] = F[x]
    BY Zenon DEF LoweringPanics, Body
<1>8. F = [x \in D |-> Body(x, F)]
    BY <1>6
<1> HIDE DEF F
<1>9. \A x \in D : F[x] = Body(x, F)
    BY <1>8
<1>10. F[e] = Body(e, F)
    BY <1>9
<1> QED
    BY <1>7, <1>10 DEF Body

LEMMA ExprColumnsIs ==
    ASSUME NEW e \in LogicalExpr
    PROVE  ExprColumns[e] =
               IF e.node = "Column" THEN {e.column}
               ELSE IF e.node = "Literal" THEN {}
               ELSE IF e.node = "Cast" THEN ExprColumns[e.expr]
               ELSE ExprColumns[e.left] \cup ExprColumns[e.right]
<1>0. PICK R : R = SUBSET Columns
    OBVIOUS
<1> DEFINE D == LogicalExpr
           Body(x, f) ==
               CASE x.node = "Column" -> {x.column}
                 [] x.node = "Literal" -> {}
                 [] x.node = "Cast" -> f[x.expr]
                 [] OTHER -> f[x.left] \cup f[x.right]
           G == [x \in D |-> [g \in [D -> R] |-> Body(x, g)]]
<1>a. ASSUME NEW x, NEW f
      PROVE  Body(x, f) = IF x.node = "Column" THEN {x.column}
                          ELSE IF x.node = "Literal" THEN {}
                          ELSE IF x.node = "Cast" THEN f[x.expr]
                          ELSE f[x.left] \cup f[x.right]
    OBVIOUS
<1> HIDE DEF Body
<1>1. ASSUME NEW x \in D, NEW f \in [D -> R] PROVE Body(x, f) \in R
    BY <1>0, <1>a, LogicalCases, LogicalParts DEF LogicalExpr, LogicalOver, IsCol, IsLit
<1>2. ASSUME NEW x \in D, NEW g, NEW h, \A s \in Sub(x) : g[s] = h[s]
      PROVE  Body(x, g) = Body(x, h)
    <2>1. x.node \in {"Column", "Literal", "Cast", "BinaryOp"}
        BY LogicalCases DEF LogicalExpr, LogicalOver, IsCol, IsLit
    <2>2. /\ x.node = "Cast" => g[x.expr] = h[x.expr]
          /\ x.node = "BinaryOp" => g[x.left] = h[x.left] /\ g[x.right] = h[x.right]
        BY <1>2, LogicalParts
    <2> QED
        BY <1>a, <2>1, <2>2
<1>3. G \in [D -> [[D -> R] -> R]]
    BY <1>1
<1>4. \A x \in D : \A g \in [D -> R] : G[x][g] = Body(x, g)
    OBVIOUS
<1> HIDE DEF G
<1>5. PICK f \in [D -> R] : \A x \in D : f[x] = G[x][f]
    <2>1. ASSUME NEW x \in D, NEW g \in [D -> R], NEW h \in [D -> R],
                 \A s \in Sub(x) : g[s] = h[s]
          PROVE  G[x][g] = G[x][h]
        <3>1. Body(x, g) = Body(x, h)
            BY <1>2, <2>1
        <3> QED
            BY <1>4, <3>1
    <2>2. Structural(D, R, G)
        BY <1>3, <2>1 DEF Structural
    <2> QED
        <3>1. R # {}
            BY <1>0
        <3>2. Solvable(D, R, G)
            BY <2>2, <3>1, LogicalGrounded, Recursion
        <3> QED
            BY <3>2 DEF Solvable
<1>6. f = [x \in D |-> Body(x, f)]
    BY <1>4, <1>5
<1> DEFINE F == CHOOSE f_1 : f_1 = [x \in D |-> Body(x, f_1)]
<1>7. \A x : ExprColumns[x] = F[x]
    BY Zenon DEF ExprColumns, Body
<1>8. F = [x \in D |-> Body(x, F)]
    BY <1>6
<1> HIDE DEF F
<1>9. \A x \in D : F[x] = Body(x, F)
    BY <1>8
<1>10. F[e] = Body(e, F)
    BY <1>9
<1> QED
    BY <1>a, <1>7, <1>10

LEMMA CanSkipIs ==
    ASSUME NEW zones, NEW e \in PhysicalExpr
    PROVE  CanSkip(e, zones) =
               (\/ /\ e.node = "Compare" /\ IsCol(e.left) /\ IsLit(e.right)
                   /\ CompareCanSkip(zones, e.left.column, e.op, e.right.kind, e.right.val)
                \/ e.node = "Logical" /\ e.op = "And" /\ (CanSkip(e.left, zones) \/ CanSkip(e.right, zones))
                \/ e.node = "Logical" /\ e.op = "Or" /\ CanSkip(e.left, zones) /\ CanSkip(e.right, zones))
<1> DEFINE D == PhysicalExpr
           Body(x, f) ==
               (\/ /\ x.node = "Compare" /\ IsCol(x.left) /\ IsLit(x.right)
                   /\ CompareCanSkip(zones, x.left.column, x.op, x.right.kind, x.right.val)
                \/ x.node = "Logical" /\ x.op = "And" /\ (f[x.left] \/ f[x.right])
                \/ x.node = "Logical" /\ x.op = "Or" /\ f[x.left] /\ f[x.right])
           G == [x \in D |-> [g \in [D -> BOOLEAN] |-> Body(x, g)]]
<1>1. ASSUME NEW x \in D, NEW f PROVE Body(x, f) \in BOOLEAN
    OBVIOUS
<1>2. ASSUME NEW x \in D, NEW g, NEW h, \A s \in Sub(x) : g[s] = h[s]
      PROVE  Body(x, g) = Body(x, h)
    BY <1>2, PhysicalParts
<1> HIDE DEF Body
<1>3. G \in [D -> [[D -> BOOLEAN] -> BOOLEAN]]
    BY <1>1
<1>4. \A x \in D : \A g \in [D -> BOOLEAN] : G[x][g] = Body(x, g)
    OBVIOUS
<1> HIDE DEF G
<1>5. PICK f \in [D -> BOOLEAN] : \A x \in D : f[x] = G[x][f]
    <2>1. ASSUME NEW x \in D, NEW g \in [D -> BOOLEAN], NEW h \in [D -> BOOLEAN],
                 \A s \in Sub(x) : g[s] = h[s]
          PROVE  G[x][g] = G[x][h]
        <3>1. Body(x, g) = Body(x, h)
            BY <1>2, <2>1
        <3> QED
            BY <1>4, <3>1
    <2>2. Structural(D, BOOLEAN, G)
        BY <1>3, <2>1 DEF Structural
    <2> QED
        BY <2>2, PhysicalGrounded, Predicates DEF Solvable
<1>6. f = [x \in D |-> Body(x, f)]
    BY <1>4, <1>5
<1> DEFINE F == CHOOSE f_1 : f_1 = [x \in D |-> Body(x, f_1)]
<1>7. \A x : CanSkip(x, zones) = F[x]
    BY DEF CanSkip, Body
<1>8. F = [x \in D |-> Body(x, F)]
    BY <1>6
<1> HIDE DEF F
<1>9. \A x \in D : F[x] = Body(x, F)
    BY <1>8
<1>10. F[e] = Body(e, F)
    BY <1>9
<1> QED
    BY <1>7, <1>10 DEF Body

LEMMA EvaluatesIs ==
    ASSUME NEW columns, NEW e \in PhysicalExpr
    PROVE  Evaluates(e, columns) =
               (\/ /\ e.node = "Compare"
                   /\ OperandTypes(e.left, columns) # {}
                   /\ OperandTypes(e.left, columns) = OperandTypes(e.right, columns)
                \/ e.node = "Logical" /\ Evaluates(e.left, columns) /\ Evaluates(e.right, columns))
<1> DEFINE D == PhysicalExpr
           Body(x, f) ==
               (\/ /\ x.node = "Compare"
                   /\ OperandTypes(x.left, columns) # {}
                   /\ OperandTypes(x.left, columns) = OperandTypes(x.right, columns)
                \/ x.node = "Logical" /\ f[x.left] /\ f[x.right])
           G == [x \in D |-> [g \in [D -> BOOLEAN] |-> Body(x, g)]]
<1>1. ASSUME NEW x \in D, NEW f PROVE Body(x, f) \in BOOLEAN
    OBVIOUS
<1>2. ASSUME NEW x \in D, NEW g, NEW h, \A s \in Sub(x) : g[s] = h[s]
      PROVE  Body(x, g) = Body(x, h)
    BY <1>2, PhysicalParts
<1> HIDE DEF Body
<1>3. G \in [D -> [[D -> BOOLEAN] -> BOOLEAN]]
    BY <1>1
<1>4. \A x \in D : \A g \in [D -> BOOLEAN] : G[x][g] = Body(x, g)
    OBVIOUS
<1> HIDE DEF G
<1>5. PICK f \in [D -> BOOLEAN] : \A x \in D : f[x] = G[x][f]
    <2>1. ASSUME NEW x \in D, NEW g \in [D -> BOOLEAN], NEW h \in [D -> BOOLEAN],
                 \A s \in Sub(x) : g[s] = h[s]
          PROVE  G[x][g] = G[x][h]
        <3>1. Body(x, g) = Body(x, h)
            BY <1>2, <2>1
        <3> QED
            BY <1>4, <3>1
    <2>2. Structural(D, BOOLEAN, G)
        BY <1>3, <2>1 DEF Structural
    <2> QED
        BY <2>2, PhysicalGrounded, Predicates DEF Solvable
<1>6. f = [x \in D |-> Body(x, f)]
    BY <1>4, <1>5
<1> DEFINE F == CHOOSE f_1 : f_1 = [x \in D |-> Body(x, f_1)]
<1>7. \A x : Evaluates(x, columns) = F[x]
    BY DEF Evaluates, Body
<1>8. F = [x \in D |-> Body(x, F)]
    BY <1>6
<1> HIDE DEF F
<1>9. \A x \in D : F[x] = Body(x, F)
    BY <1>8
<1>10. F[e] = Body(e, F)
    BY <1>9
<1> QED
    BY <1>7, <1>10 DEF Body

LEMMA PassesIs ==
    ASSUME NEW row, NEW e \in PhysicalExpr
    PROVE  Passes(e, row) =
               (\/ /\ e.node = "Compare"
                   /\ ArrowCompare(e.op, OperandValue(e.left, row), OperandValue(e.right, row))
                \/ e.node = "Logical" /\ e.op = "And" /\ Passes(e.left, row) /\ Passes(e.right, row)
                \/ e.node = "Logical" /\ e.op = "Or" /\ (Passes(e.left, row) \/ Passes(e.right, row)))
<1> DEFINE D == PhysicalExpr
           Body(x, f) ==
               (\/ /\ x.node = "Compare"
                   /\ ArrowCompare(x.op, OperandValue(x.left, row), OperandValue(x.right, row))
                \/ x.node = "Logical" /\ x.op = "And" /\ f[x.left] /\ f[x.right]
                \/ x.node = "Logical" /\ x.op = "Or" /\ (f[x.left] \/ f[x.right]))
           G == [x \in D |-> [g \in [D -> BOOLEAN] |-> Body(x, g)]]
<1>1. ASSUME NEW x \in D, NEW f PROVE Body(x, f) \in BOOLEAN
    OBVIOUS
<1>2. ASSUME NEW x \in D, NEW g, NEW h, \A s \in Sub(x) : g[s] = h[s]
      PROVE  Body(x, g) = Body(x, h)
    BY <1>2, PhysicalParts
<1> HIDE DEF Body
<1>3. G \in [D -> [[D -> BOOLEAN] -> BOOLEAN]]
    BY <1>1
<1>4. \A x \in D : \A g \in [D -> BOOLEAN] : G[x][g] = Body(x, g)
    OBVIOUS
<1> HIDE DEF G
<1>5. PICK f \in [D -> BOOLEAN] : \A x \in D : f[x] = G[x][f]
    <2>1. ASSUME NEW x \in D, NEW g \in [D -> BOOLEAN], NEW h \in [D -> BOOLEAN],
                 \A s \in Sub(x) : g[s] = h[s]
          PROVE  G[x][g] = G[x][h]
        <3>1. Body(x, g) = Body(x, h)
            BY <1>2, <2>1
        <3> QED
            BY <1>4, <3>1
    <2>2. Structural(D, BOOLEAN, G)
        BY <1>3, <2>1 DEF Structural
    <2> QED
        BY <2>2, PhysicalGrounded, Predicates DEF Solvable
<1>6. f = [x \in D |-> Body(x, f)]
    BY <1>4, <1>5
<1> DEFINE F == CHOOSE f_1 : f_1 = [x \in D |-> Body(x, f_1)]
<1>7. \A x : Passes(x, row) = F[x]
    BY DEF Passes, Body
<1>8. F = [x \in D |-> Body(x, F)]
    BY <1>6
<1> HIDE DEF F
<1>9. \A x \in D : F[x] = Body(x, F)
    BY <1>8
<1>10. F[e] = Body(e, F)
    BY <1>9
<1> QED
    BY <1>7, <1>10 DEF Body

\* The parts of an expression are expressions of the same kind.
LEMMA SubSql == \A e \in SqlExpr : Sub(e) \subseteq SqlExpr
<1>1. ASSUME NEW e \in SqlExpr PROVE e.node = "BinaryOp" \/ e.node \in {"Column", "Literal"}
    BY SqlCases DEF SqlExpr, SqlOver, IsCol, IsLit
<1> QED
    BY <1>1, SqlParts DEF Sub

LEMMA SubLogical == \A e \in LogicalExpr : Sub(e) \subseteq LogicalExpr
<1>1. ASSUME NEW e \in LogicalExpr PROVE e.node \in {"Column", "Literal", "Cast", "BinaryOp"}
    BY LogicalCases DEF LogicalExpr, LogicalOver, IsCol, IsLit
<1> QED
    BY <1>1, LogicalParts DEF Sub

LEMMA SubPhysical == \A e \in PhysicalExpr : Sub(e) \subseteq PhysicalExpr
<1>1. ASSUME NEW e \in PhysicalExpr PROVE e.node \in {"Column", "Literal", "Compare", "Logical"}
    BY PhysicalCases DEF PhysicalExpr, PhysicalOver, IsCol, IsLit
<1> QED
    BY <1>1, PhysicalParts DEF Sub

LEMMA LowerSqlIs ==
    ASSUME NEW e \in SqlExpr
    PROVE  LowerSql[e] =
               IF IsCol(e) THEN e
               ELSE IF IsLit(e) THEN LowerLiteral(e)
               ELSE Bin(LowerSql[e.left], e.op, LowerSql[e.right])
<1> DEFINE D == SqlExpr
           Body(x, f) ==
               CASE IsCol(x) -> x
                 [] IsLit(x) -> LowerLiteral(x)
                 [] OTHER -> Bin(f[x.left], x.op, f[x.right])
<1>0. ASSUME NEW x, NEW f
      PROVE  Body(x, f) = IF IsCol(x) THEN x
                          ELSE IF IsLit(x) THEN LowerLiteral(x)
                          ELSE Bin(f[x.left], x.op, f[x.right])
    BY DEF IsCol, IsLit
<1> HIDE DEF Body
<1>1. ASSUME NEW x \in D, NEW g, NEW h, \A s \in Sub(x) : g[s] = h[s]
      PROVE  Body(x, g) = Body(x, h)
    <2>1. x.node = "BinaryOp" \/ IsCol(x) \/ IsLit(x)
        BY SqlCases DEF SqlExpr, SqlOver
    <2>2. x.node = "BinaryOp" => g[x.left] = h[x.left] /\ g[x.right] = h[x.right]
        BY <1>1, SqlParts
    <2> QED
        BY <1>0, <2>1, <2>2
<1>2. PICK N, B : Steps(D, N, B)
    BY SqlGrounded DEF Grounded
<1> DEFINE T == {n \in Nat : n <= N => \E f : \A x \in B[n] : f[x] = Body(x, f)}
<1>3. /\ N \in Nat /\ \A n \in 0..N : B[n] \subseteq D /\ 0 \in 0..N /\ N \in 0..N
      /\ \A x \in B[0] : Sub(x) = {}
    BY <1>2 DEF Steps
<1>4. 0 \in T
    <2> DEFINE g == [x \in D |-> x]
               h == [x \in D |-> Body(x, g)]
    <2>1. ASSUME NEW x \in B[0] PROVE h[x] = Body(x, h)
        <3>1. x \in D /\ Sub(x) = {}
            BY <1>3
        <3>2. h[x] = Body(x, g)
            BY <3>1
        <3> HIDE DEF g, h
        <3> QED
            BY <1>1, <3>1, <3>2
    <2> HIDE DEF g, h
    <2> QED
        BY <1>3, <2>1
<1>5. ASSUME NEW n \in 0..(N - 1), n \in T PROVE n + 1 \in T
    <2>1. n + 1 \in 1..N /\ n + 1 \in 0..N /\ n \in 0..N /\ (n + 1) - 1 = n /\ n <= N
        BY <1>3
    <2>2. PICK f : \A x \in B[n] : f[x] = Body(x, f)
        BY <1>5, <2>1
    <2> DEFINE h == [x \in D |-> Body(x, f)]
    <2>3. \A x \in B[n] : h[x] = f[x]
        BY <1>3, <2>1, <2>2
    <2>4. ASSUME NEW x \in B[n + 1] PROVE h[x] = Body(x, h)
        <3>1. x \in D /\ Sub(x) \subseteq B[n]
            BY <1>2, <2>1 DEF Steps
        <3>2. h[x] = Body(x, f)
            BY <3>1
        <3>3. \A s \in Sub(x) : f[s] = h[s]
            BY <2>3, <3>1
        <3> HIDE DEF h
        <3> QED
            BY <1>1, <3>1, <3>2, <3>3
    <2> HIDE DEF h
    <2> QED
        BY <1>3, <2>1, <2>4
<1>6. N \in T
    <2> HIDE DEF T
    <2> QED
        BY <1>3, <1>4, <1>5, UpTo
<1>7. PICK f : \A x \in D : f[x] = Body(x, f)
    BY <1>2, <1>3, <1>6 DEF Steps
<1> DEFINE g == [x \in D |-> f[x]]
           F == CHOOSE f_1 : f_1 = [x \in D |-> Body(x, f_1)]
<1>8. g = [x \in D |-> Body(x, g)]
    <2>1. ASSUME NEW x \in D PROVE g[x] = Body(x, g)
        <3>1. \A s \in Sub(x) : f[s] = g[s]
            BY SubSql
        <3>2. g[x] = Body(x, f)
            BY <1>7
        <3> HIDE DEF g
        <3> QED
            BY <1>1, <3>1, <3>2
    <2>2. g = [x \in D |-> g[x]]
        OBVIOUS
    <2> HIDE DEF g
    <2> QED
        BY <2>1, <2>2
<1>9. \A x : LowerSql[x] = F[x]
    BY Zenon DEF LowerSql, Body
<1> HIDE DEF g
<1>10. F = [x \in D |-> Body(x, F)]
    BY <1>8
<1> HIDE DEF F
<1>11. \A x \in D : F[x] = Body(x, F)
    BY <1>10
<1>12. F[e] = Body(e, F)
    BY <1>11
<1> QED
    BY <1>0, <1>9, <1>12

LEMMA CoerceIs ==
    ASSUME NEW e \in LogicalExpr
    PROVE  Coerce[e] =
               IF e.node = "BinaryOp"
               THEN IF e.op \in CmpOps THEN CoerceComparison(Coerce[e.left], e.op, Coerce[e.right])
                    ELSE Bin(Coerce[e.left], e.op, Coerce[e.right])
               ELSE e
<1> DEFINE D == LogicalExpr
           Body(x, f) ==
               IF x.node = "BinaryOp"
               THEN IF x.op \in CmpOps THEN CoerceComparison(f[x.left], x.op, f[x.right])
                    ELSE Bin(f[x.left], x.op, f[x.right])
               ELSE x
<1>1. ASSUME NEW x \in D, NEW g, NEW h, \A s \in Sub(x) : g[s] = h[s]
      PROVE  Body(x, g) = Body(x, h)
    <2>1. x.node \in {"Column", "Literal", "Cast", "BinaryOp"}
        BY LogicalCases DEF LogicalExpr, LogicalOver, IsCol, IsLit
    <2>2. x.node = "BinaryOp" => g[x.left] = h[x.left] /\ g[x.right] = h[x.right]
        BY <1>1, LogicalParts
    <2> QED
        BY <2>1, <2>2
<1>2. PICK N, B : Steps(D, N, B)
    BY LogicalGrounded DEF Grounded
<1> HIDE DEF Body
<1> DEFINE T == {n \in Nat : n <= N => \E f : \A x \in B[n] : f[x] = Body(x, f)}
<1>3. /\ N \in Nat /\ \A n \in 0..N : B[n] \subseteq D /\ 0 \in 0..N /\ N \in 0..N
      /\ \A x \in B[0] : Sub(x) = {}
    BY <1>2 DEF Steps
<1>4. 0 \in T
    <2> DEFINE g == [x \in D |-> x]
               h == [x \in D |-> Body(x, g)]
    <2>1. ASSUME NEW x \in B[0] PROVE h[x] = Body(x, h)
        <3>1. x \in D /\ Sub(x) = {}
            BY <1>3
        <3>2. h[x] = Body(x, g)
            BY <3>1
        <3> HIDE DEF g, h
        <3> QED
            BY <1>1, <3>1, <3>2
    <2> HIDE DEF g, h
    <2> QED
        BY <1>3, <2>1
<1>5. ASSUME NEW n \in 0..(N - 1), n \in T PROVE n + 1 \in T
    <2>1. n + 1 \in 1..N /\ n + 1 \in 0..N /\ n \in 0..N /\ (n + 1) - 1 = n /\ n <= N
        BY <1>3
    <2>2. PICK f : \A x \in B[n] : f[x] = Body(x, f)
        BY <1>5, <2>1
    <2> DEFINE h == [x \in D |-> Body(x, f)]
    <2>3. \A x \in B[n] : h[x] = f[x]
        BY <1>3, <2>1, <2>2
    <2>4. ASSUME NEW x \in B[n + 1] PROVE h[x] = Body(x, h)
        <3>1. x \in D /\ Sub(x) \subseteq B[n]
            BY <1>2, <2>1 DEF Steps
        <3>2. h[x] = Body(x, f)
            BY <3>1
        <3>3. \A s \in Sub(x) : f[s] = h[s]
            BY <2>3, <3>1
        <3> HIDE DEF h
        <3> QED
            BY <1>1, <3>1, <3>2, <3>3
    <2> HIDE DEF h
    <2> QED
        BY <1>3, <2>1, <2>4
<1>6. N \in T
    <2> HIDE DEF T
    <2> QED
        BY <1>3, <1>4, <1>5, UpTo
<1>7. PICK f : \A x \in D : f[x] = Body(x, f)
    BY <1>2, <1>3, <1>6 DEF Steps
<1> DEFINE g == [x \in D |-> f[x]]
           F == CHOOSE f_1 : f_1 = [x \in D |-> Body(x, f_1)]
<1>8. g = [x \in D |-> Body(x, g)]
    <2>1. ASSUME NEW x \in D PROVE g[x] = Body(x, g)
        <3>1. \A s \in Sub(x) : f[s] = g[s]
            BY SubLogical
        <3>2. g[x] = Body(x, f)
            BY <1>7
        <3> HIDE DEF g
        <3> QED
            BY <1>1, <3>1, <3>2
    <2>2. g = [x \in D |-> g[x]]
        OBVIOUS
    <2> HIDE DEF g
    <2> QED
        BY <2>1, <2>2
<1>9. \A x : Coerce[x] = F[x]
    BY Zenon DEF Coerce, Body
<1> HIDE DEF g
<1>10. F = [x \in D |-> Body(x, F)]
    BY <1>8
<1> HIDE DEF F
<1>11. \A x \in D : F[x] = Body(x, F)
    BY <1>10
<1>12. F[e] = Body(e, F)
    BY <1>11
<1> QED
    BY <1>9, <1>12 DEF Body

LEMMA FoldIs ==
    ASSUME NEW e \in LogicalExpr
    PROVE  Fold[e] =
               IF e.node = "BinaryOp" THEN FoldPair(Fold[e.left], e.op, Fold[e.right]) ELSE e
<1> DEFINE D == LogicalExpr
           Body(x, f) ==
               IF x.node = "BinaryOp" THEN FoldPair(f[x.left], x.op, f[x.right]) ELSE x
<1>1. ASSUME NEW x \in D, NEW g, NEW h, \A s \in Sub(x) : g[s] = h[s]
      PROVE  Body(x, g) = Body(x, h)
    <2>1. x.node \in {"Column", "Literal", "Cast", "BinaryOp"}
        BY LogicalCases DEF LogicalExpr, LogicalOver, IsCol, IsLit
    <2>2. x.node = "BinaryOp" => g[x.left] = h[x.left] /\ g[x.right] = h[x.right]
        BY <1>1, LogicalParts
    <2> QED
        BY <2>1, <2>2
<1>2. PICK N, B : Steps(D, N, B)
    BY LogicalGrounded DEF Grounded
<1> HIDE DEF Body
<1> DEFINE T == {n \in Nat : n <= N => \E f : \A x \in B[n] : f[x] = Body(x, f)}
<1>3. /\ N \in Nat /\ \A n \in 0..N : B[n] \subseteq D /\ 0 \in 0..N /\ N \in 0..N
      /\ \A x \in B[0] : Sub(x) = {}
    BY <1>2 DEF Steps
<1>4. 0 \in T
    <2> DEFINE g == [x \in D |-> x]
               h == [x \in D |-> Body(x, g)]
    <2>1. ASSUME NEW x \in B[0] PROVE h[x] = Body(x, h)
        <3>1. x \in D /\ Sub(x) = {}
            BY <1>3
        <3>2. h[x] = Body(x, g)
            BY <3>1
        <3> HIDE DEF g, h
        <3> QED
            BY <1>1, <3>1, <3>2
    <2> HIDE DEF g, h
    <2> QED
        BY <1>3, <2>1
<1>5. ASSUME NEW n \in 0..(N - 1), n \in T PROVE n + 1 \in T
    <2>1. n + 1 \in 1..N /\ n + 1 \in 0..N /\ n \in 0..N /\ (n + 1) - 1 = n /\ n <= N
        BY <1>3
    <2>2. PICK f : \A x \in B[n] : f[x] = Body(x, f)
        BY <1>5, <2>1
    <2> DEFINE h == [x \in D |-> Body(x, f)]
    <2>3. \A x \in B[n] : h[x] = f[x]
        BY <1>3, <2>1, <2>2
    <2>4. ASSUME NEW x \in B[n + 1] PROVE h[x] = Body(x, h)
        <3>1. x \in D /\ Sub(x) \subseteq B[n]
            BY <1>2, <2>1 DEF Steps
        <3>2. h[x] = Body(x, f)
            BY <3>1
        <3>3. \A s \in Sub(x) : f[s] = h[s]
            BY <2>3, <3>1
        <3> HIDE DEF h
        <3> QED
            BY <1>1, <3>1, <3>2, <3>3
    <2> HIDE DEF h
    <2> QED
        BY <1>3, <2>1, <2>4
<1>6. N \in T
    <2> HIDE DEF T
    <2> QED
        BY <1>3, <1>4, <1>5, UpTo
<1>7. PICK f : \A x \in D : f[x] = Body(x, f)
    BY <1>2, <1>3, <1>6 DEF Steps
<1> DEFINE g == [x \in D |-> f[x]]
           F == CHOOSE f_1 : f_1 = [x \in D |-> Body(x, f_1)]
<1>8. g = [x \in D |-> Body(x, g)]
    <2>1. ASSUME NEW x \in D PROVE g[x] = Body(x, g)
        <3>1. \A s \in Sub(x) : f[s] = g[s]
            BY SubLogical
        <3>2. g[x] = Body(x, f)
            BY <1>7
        <3> HIDE DEF g
        <3> QED
            BY <1>1, <3>1, <3>2
    <2>2. g = [x \in D |-> g[x]]
        OBVIOUS
    <2> HIDE DEF g
    <2> QED
        BY <2>1, <2>2
<1>9. \A x : Fold[x] = F[x]
    BY Zenon DEF Fold, Body
<1> HIDE DEF g
<1>10. F = [x \in D |-> Body(x, F)]
    BY <1>8
<1> HIDE DEF F
<1>11. \A x \in D : F[x] = Body(x, F)
    BY <1>10
<1>12. F[e] = Body(e, F)
    BY <1>11
<1> QED
    BY <1>9, <1>12 DEF Body

LEMMA LowerExprIs ==
    ASSUME NEW e \in LogicalExpr
    PROVE  LowerExpr[e] =
               IF e.node = "Column" THEN e
               ELSE IF e.node = "Literal" THEN PhysicalLiteral(e)
               ELSE IF e.node = "Cast" THEN Narrowed(e.expr, e.type)
               ELSE IF e.op \in CmpOps THEN Compare(LowerExpr[e.left], e.op, LowerExpr[e.right])
               ELSE Logical(LowerExpr[e.left], e.op, LowerExpr[e.right])
<1> DEFINE D == LogicalExpr
           Body(x, f) ==
               CASE x.node = "Column" -> x
                 [] x.node = "Literal" -> PhysicalLiteral(x)
                 [] x.node = "Cast" -> Narrowed(x.expr, x.type)
                 [] OTHER ->
                        IF x.op \in CmpOps THEN Compare(f[x.left], x.op, f[x.right])
                        ELSE Logical(f[x.left], x.op, f[x.right])
<1>0. ASSUME NEW x, NEW f
      PROVE  Body(x, f) =
               IF x.node = "Column" THEN x
               ELSE IF x.node = "Literal" THEN PhysicalLiteral(x)
               ELSE IF x.node = "Cast" THEN Narrowed(x.expr, x.type)
               ELSE IF x.op \in CmpOps THEN Compare(f[x.left], x.op, f[x.right])
               ELSE Logical(f[x.left], x.op, f[x.right])
    OBVIOUS
<1> HIDE DEF Body
<1>1. ASSUME NEW x \in D, NEW g, NEW h, \A s \in Sub(x) : g[s] = h[s]
      PROVE  Body(x, g) = Body(x, h)
    <2>1. x.node \in {"Column", "Literal", "Cast", "BinaryOp"}
        BY LogicalCases DEF LogicalExpr, LogicalOver, IsCol, IsLit
    <2>2. x.node = "BinaryOp" => g[x.left] = h[x.left] /\ g[x.right] = h[x.right]
        BY <1>1, LogicalParts
    <2> QED
        BY <1>0, <2>1, <2>2
<1>2. PICK N, B : Steps(D, N, B)
    BY LogicalGrounded DEF Grounded
<1> DEFINE T == {n \in Nat : n <= N => \E f : \A x \in B[n] : f[x] = Body(x, f)}
<1>3. /\ N \in Nat /\ \A n \in 0..N : B[n] \subseteq D /\ 0 \in 0..N /\ N \in 0..N
      /\ \A x \in B[0] : Sub(x) = {}
    BY <1>2 DEF Steps
<1>4. 0 \in T
    <2> DEFINE g == [x \in D |-> x]
               h == [x \in D |-> Body(x, g)]
    <2>1. ASSUME NEW x \in B[0] PROVE h[x] = Body(x, h)
        <3>1. x \in D /\ Sub(x) = {}
            BY <1>3
        <3>2. h[x] = Body(x, g)
            BY <3>1
        <3> HIDE DEF g, h
        <3> QED
            BY <1>1, <3>1, <3>2
    <2> HIDE DEF g, h
    <2> QED
        BY <1>3, <2>1
<1>5. ASSUME NEW n \in 0..(N - 1), n \in T PROVE n + 1 \in T
    <2>1. n + 1 \in 1..N /\ n + 1 \in 0..N /\ n \in 0..N /\ (n + 1) - 1 = n /\ n <= N
        BY <1>3
    <2>2. PICK f : \A x \in B[n] : f[x] = Body(x, f)
        BY <1>5, <2>1
    <2> DEFINE h == [x \in D |-> Body(x, f)]
    <2>3. \A x \in B[n] : h[x] = f[x]
        BY <1>3, <2>1, <2>2
    <2>4. ASSUME NEW x \in B[n + 1] PROVE h[x] = Body(x, h)
        <3>1. x \in D /\ Sub(x) \subseteq B[n]
            BY <1>2, <2>1 DEF Steps
        <3>2. h[x] = Body(x, f)
            BY <3>1
        <3>3. \A s \in Sub(x) : f[s] = h[s]
            BY <2>3, <3>1
        <3> HIDE DEF h
        <3> QED
            BY <1>1, <3>1, <3>2, <3>3
    <2> HIDE DEF h
    <2> QED
        BY <1>3, <2>1, <2>4
<1>6. N \in T
    <2> HIDE DEF T
    <2> QED
        BY <1>3, <1>4, <1>5, UpTo
<1>7. PICK f : \A x \in D : f[x] = Body(x, f)
    BY <1>2, <1>3, <1>6 DEF Steps
<1> DEFINE g == [x \in D |-> f[x]]
           F == CHOOSE f_1 : f_1 = [x \in D |-> Body(x, f_1)]
<1>8. g = [x \in D |-> Body(x, g)]
    <2>1. ASSUME NEW x \in D PROVE g[x] = Body(x, g)
        <3>1. \A s \in Sub(x) : f[s] = g[s]
            BY SubLogical
        <3>2. g[x] = Body(x, f)
            BY <1>7
        <3> HIDE DEF g
        <3> QED
            BY <1>1, <3>1, <3>2
    <2>2. g = [x \in D |-> g[x]]
        OBVIOUS
    <2> HIDE DEF g
    <2> QED
        BY <2>1, <2>2
<1>9. \A x : LowerExpr[x] = F[x]
    BY Zenon DEF LowerExpr, Body
<1> HIDE DEF g
<1>10. F = [x \in D |-> Body(x, F)]
    BY <1>8
<1> HIDE DEF F
<1>11. \A x \in D : F[x] = Body(x, F)
    BY <1>10
<1>12. F[e] = Body(e, F)
    BY <1>11
<1> QED
    BY <1>0, <1>9, <1>12

-----------------------------------------------------------------------------
(***************************************************************************)
(* What planning makes of an expression is an expression                   *)
(***************************************************************************)
\* The operands of comparisons.
SqlOps == SqlOperands(Columns, Value)
LogicalOps == LogicalOperands(Columns, Value)
PhysicalOps == PhysicalOperands(Columns, Value)

LEMMA SqlOp ==
    ASSUME NEW e \in SqlOps
    PROVE  /\ e \in SqlExpr
           /\ IsCol(e) \/ IsLit(e)
           /\ IsCol(e) => ~IsLit(e) /\ e.column \in Columns
           /\ IsLit(e) => ~IsCol(e) /\ e.kind \in SqlKinds /\ e.val \in Value
<1>1. SqlOps \subseteq SqlExpr
    BY TreeCases DEF SqlOps, SqlExpr, Exprs
<1> QED
    BY <1>1 DEF SqlOps, SqlOperands, ColsOf, IsCol, IsLit

LEMMA LogicalOp ==
    ASSUME NEW e \in LogicalOps
    PROVE  /\ e \in LogicalExpr
           /\ \/ e \in ColsOf(Columns) /\ e.node = "Column" /\ e.column \in Columns
              \/ e \in LitsOf(LogicalKinds, Value) /\ e.node = "Literal" /\ e.kind \in LogicalKinds /\ e.val \in Value
              \/ /\ e.node = "Cast" /\ e.expr \in LitsOf(LogicalKinds, Value) /\ e.type \in DataTypes
                 /\ e.expr.node = "Literal" /\ e.expr.kind \in LogicalKinds /\ e.expr.val \in Value
<1>1. LogicalOps \subseteq LogicalExpr
    BY TreeCases DEF LogicalOps, LogicalExpr, Exprs
<1> QED
    BY <1>1 DEF LogicalOps, LogicalOperands, ColsOf, LitsOf

\* What a value is rounded to is a value.
LEMMA RoundedIsValue ==
    ASSUME NEW type, NEW v \in Value
    PROVE  AsFloat(type, v) \in Value
BY PlannerAssumption DEF AsFloat

\* The value of a literal of the logical plan.
LoweredValue(l) == IF l.kind = "Number" /\ ~IsI64(l) THEN AsFloat("F64", l.val) ELSE l.val

\* A number is an i64, with its value, or the f64 nearest to it; other literals
\* keep their kind and value.
LEMMA LowerLiteralIs ==
    ASSUME NEW l, IsLit(l), l.kind \in SqlKinds, l.val \in Value
    PROVE  /\ LowerLiteral(l) \in LitsOf(LogicalKinds, Value)
           /\ IsLit(LowerLiteral(l)) /\ LowerLiteral(l).val = LoweredValue(l)
           /\ LowerLiteral(l).kind = IF l.kind = "Number"
                                     THEN IF IsI64(l) THEN "Int" ELSE "Float"
                                     ELSE l.kind
<1> DEFINE kind == IF l.kind = "Number"
                   THEN IF IsI64(l) THEN "Int" ELSE "Float"
                   ELSE l.kind
<1>1. LowerLiteral(l) = Lit(kind, LoweredValue(l))
    BY DEF LowerLiteral, LoweredValue
<1>2. kind \in LogicalKinds /\ LoweredValue(l) \in Value
    BY RoundedIsValue DEF SqlKinds, LogicalKinds, LoweredValue
<1> HIDE DEF kind
<1>3. LowerLiteral(l) = [node |-> "Literal", kind |-> kind, val |-> LoweredValue(l)]
    BY <1>1 DEF Lit
<1> QED
    BY <1>2, <1>3 DEF LitsOf, IsLit, kind

LEMMA LowerSqlOp ==
    ASSUME NEW e \in SqlOps
    PROVE  LowerSql[e] \in LogicalOps /\ LowerSql[e] = IF IsCol(e) THEN e ELSE LowerLiteral(e)
<1>1. LowerSql[e] = IF IsCol(e) THEN e ELSE LowerLiteral(e)
    BY SqlOp, LowerSqlIs
<1>2. CASE IsCol(e)
    BY <1>1, <1>2 DEF SqlOps, SqlOperands, ColsOf, IsCol, LogicalOps, LogicalOperands
<1>3. CASE IsLit(e) /\ ~IsCol(e)
    BY <1>1, <1>3, SqlOp, LowerLiteralIs DEF LogicalOps, LogicalOperands
<1> QED
    BY <1>1, <1>2, <1>3, SqlOp

\* What a comparison is made of.
LEMMA ComparedIs ==
    ASSUME NEW node, NEW operands, NEW e \in Compared(node, operands)
    PROVE  /\ e.node = node /\ e.op \in CmpOps /\ e.left \in operands /\ e.right \in operands
           /\ e = [node |-> node, left |-> e.left, op |-> e.op, right |-> e.right]
BY DEF Compared

LEMMA JoinedIs ==
    ASSUME NEW node, NEW terms, NEW e \in Joined(node, terms)
    PROVE  /\ e.node = node /\ e.op \in {"And", "Or"} /\ e.left \in terms /\ e.right \in terms
           /\ e.op \notin CmpOps
BY DEF Joined, CmpOps

\* lower_expr of logical_plan/lower.rs returns a logical expression.
LEMMA LowerSqlType == \A e \in SqlExpr : LowerSql[e] \in LogicalExpr
<1> DEFINE conditions == SqlOps \cup Compared("BinaryOp", SqlOps)
           conditions2 == LogicalOps \cup Compared("BinaryOp", LogicalOps)
<1>1. SqlExpr = Trees("BinaryOp", conditions) /\ LogicalExpr = Trees("BinaryOp", conditions2)
    BY DEF SqlExpr, LogicalExpr, Exprs, SqlOps, LogicalOps
<1>2. conditions \subseteq SqlExpr
    BY <1>1, TreeCases
<1>3. ASSUME NEW e \in SqlExpr, e.node = "BinaryOp"
      PROVE  LowerSql[e] = Bin(LowerSql[e.left], e.op, LowerSql[e.right])
    BY <1>3, LowerSqlIs DEF IsCol, IsLit
<1>4. ASSUME NEW e \in conditions PROVE LowerSql[e] \in conditions2
    <2>1. CASE e \in SqlOps
        BY <2>1, LowerSqlOp
    <2>2. CASE e \in Compared("BinaryOp", SqlOps)
        <3>1. /\ LowerSql[e] = Bin(LowerSql[e.left], e.op, LowerSql[e.right])
              /\ e.op \in CmpOps /\ e.left \in SqlOps /\ e.right \in SqlOps
            BY <1>2, <1>3, <2>2, ComparedIs
        <3>2. LowerSql[e] \in Compared("BinaryOp", LogicalOps)
            BY <3>1, LowerSqlOp DEF Bin, Compared
        <3> QED
            BY <3>2
    <2> QED
        BY <2>1, <2>2
<1>5. ASSUME NEW e \in SqlExpr \cap Joined("BinaryOp", SqlExpr), NEW S,
             LowerSql[e.left] \in S, LowerSql[e.right] \in S
      PROVE  LowerSql[e] \in S \cup Joined("BinaryOp", S)
    <2>1. e.node = "BinaryOp" /\ e.op \in {"And", "Or"}
        BY <1>5, JoinedIs
    <2>2. LowerSql[e] = Bin(LowerSql[e.left], e.op, LowerSql[e.right])
        BY <1>3, <2>1
    <2>3. Bin(LowerSql[e.left], e.op, LowerSql[e.right]) \in Joined("BinaryOp", S)
        BY <1>5, <2>1 DEF Bin, Joined
    <2> QED
        BY <2>2, <2>3
<1> HIDE DEF conditions, conditions2
<1> QED
    BY <1>1, <1>4, <1>5, TreeMap

\* So does TypeCoercion.
LEMMA CoerceType == \A e \in LogicalExpr : Coerce[e] \in LogicalExpr
<1> DEFINE conditions == LogicalOps \cup Compared("BinaryOp", LogicalOps)
<1>1. LogicalExpr = Trees("BinaryOp", conditions)
    BY DEF LogicalExpr, Exprs, LogicalOps
<1>2. conditions \subseteq LogicalExpr
    BY <1>1, TreeCases
<1>3. ASSUME NEW e \in LogicalOps PROVE Coerce[e] = e
    BY LogicalOp, CoerceIs
<1>4. ASSUME NEW e \in conditions PROVE Coerce[e] \in conditions
    <2>1. CASE e \in LogicalOps
        BY <1>3, <2>1
    <2>2. CASE e \in Compared("BinaryOp", LogicalOps)
        <3>1. e.node = "BinaryOp" /\ e.op \in CmpOps /\ e.left \in LogicalOps /\ e.right \in LogicalOps
            BY <2>2, ComparedIs
        <3>2. Coerce[e] = CoerceComparison(e.left, e.op, e.right)
            BY <1>2, <1>3, <3>1, CoerceIs
        <3>3. ASSUME NEW l \in LogicalOps, IsLit(l), NEW c \in Columns
              PROVE  Cast(l, TypeOf[c]) \in LogicalOps
            <4>1. l \in LitsOf(LogicalKinds, Value)
                BY <3>3, LogicalOp DEF IsLit, ColsOf
            <4>2. TypeOf[c] \in DataTypes
                BY ZoneMapAssumption
            <4> QED
                BY <4>1, <4>2 DEF Cast, LogicalOps, LogicalOperands
        <3>4. \A l, r \in LogicalOps : Bin(l, e.op, r) \in Compared("BinaryOp", LogicalOps)
            BY <3>1 DEF Bin, Compared
        <3>5. \A o \in LogicalOps : IsCol(o) => o.column \in Columns
            BY LogicalOp DEF IsCol
        <3>6. CoerceComparison(e.left, e.op, e.right) \in Compared("BinaryOp", LogicalOps)
            BY <3>1, <3>3, <3>4, <3>5 DEF CoerceComparison
        <3> QED
            BY <3>2, <3>6
    <2> QED
        BY <2>1, <2>2
<1>5. ASSUME NEW e \in LogicalExpr \cap Joined("BinaryOp", LogicalExpr), NEW S,
             Coerce[e.left] \in S, Coerce[e.right] \in S
      PROVE  Coerce[e] \in S \cup Joined("BinaryOp", S)
    <2>1. e.node = "BinaryOp" /\ e.op \in {"And", "Or"} /\ e.op \notin CmpOps
        BY <1>5, JoinedIs
    <2>2. Coerce[e] = Bin(Coerce[e.left], e.op, Coerce[e.right])
        BY <1>5, <2>1, CoerceIs
    <2>3. Bin(Coerce[e.left], e.op, Coerce[e.right]) \in Joined("BinaryOp", S)
        BY <1>5, <2>1 DEF Bin, Joined
    <2> QED
        BY <2>2, <2>3
<1> HIDE DEF conditions
<1> QED
    BY <1>1, <1>4, <1>5, TreeMap

\* The truth values are two ordinary values.
LEMMA TruthIs ==
    /\ Truth(TRUE) \in Value /\ Truth(FALSE) \in Value
    /\ Truth(TRUE) # Truth(FALSE)
    /\ Ordinary(Truth(TRUE)) /\ Ordinary(Truth(FALSE))
<1>1. TrueValue \in Value /\ Ordinary(TrueValue)
    BY PlannerAssumption
<1>2. Truth(TRUE) = TrueValue
    BY DEF Truth
<1>3. PICK x \in Int, y \in Int, z \in BOOLEAN : TrueValue = [ieee |-> x, total |-> y, nan |-> z]
    BY <1>1 DEF Value
<1> DEFINE false == Truth(FALSE)
<1>4. false = [ieee |-> x - 1, total |-> y - 1, nan |-> z]
    BY <1>3 DEF Truth
<1>5. x = y /\ ~z /\ x - 1 # x /\ x - 1 \in Int /\ y - 1 \in Int /\ x - 1 = y - 1
    BY <1>1, <1>3 DEF Ordinary
<1> HIDE DEF false
<1>6. false \in Value
    BY <1>4, <1>5 DEF Value
<1>7. Ordinary(false)
    BY <1>4, <1>5 DEF Ordinary
<1>8. TrueValue # false
    BY <1>3, <1>4, <1>5
<1> QED
    BY <1>1, <1>2, <1>6, <1>7, <1>8 DEF false

LEMMA BoolLiterals ==
    ASSUME NEW l
    PROVE  /\ IsBool(l, TRUE) => ~IsBool(l, FALSE)
           /\ IsLitOf(l, "Int") => ~IsBool(l, TRUE) /\ ~IsBool(l, FALSE)
BY TruthIs DEF IsBool, IsLitOf

\* A comparison of operands is folded to a truth value, if they are integers, or kept.
LEMMA FoldComparison ==
    ASSUME NEW l, NEW op \in CmpOps, NEW r
    PROVE  FoldPair(l, op, r) =
               IF IsLitOf(l, "Int") /\ IsLitOf(r, "Int")
               THEN Lit("Bool", Truth(ArrowCompare(op, l.val, r.val))) ELSE Bin(l, op, r)
<1>1. op \notin {"And", "Or"}
    BY DEF CmpOps
<1>2. CASE IsLitOf(l, "Int") /\ IsLitOf(r, "Int")
    BY <1>2, BoolLiterals DEF FoldPair, FoldInts
<1>3. CASE ~(IsLitOf(l, "Int") /\ IsLitOf(r, "Int"))
    BY <1>1, <1>3 DEF FoldPair
<1> QED
    BY <1>2, <1>3

\* AND and OR of expressions that are folded.
LEMMA FoldConnective ==
    ASSUME NEW l, NEW op \in {"And", "Or"}, NEW r
    PROVE  \/ IsBool(l, TRUE) /\ op = "And" /\ FoldPair(l, op, r) = r
           \/ IsBool(l, FALSE) /\ op = "And" /\ FoldPair(l, op, r) = l
           \/ IsBool(l, TRUE) /\ op = "Or" /\ FoldPair(l, op, r) = l
           \/ IsBool(l, FALSE) /\ op = "Or" /\ FoldPair(l, op, r) = r
           \/ ~IsBool(l, TRUE) /\ ~IsBool(l, FALSE) /\ FoldPair(l, op, r) = Bin(l, op, r)
<1>1. op \notin CmpOps
    BY DEF CmpOps
<1>2. CASE IsLitOf(l, "Int") /\ IsLitOf(r, "Int")
    <2>1. FoldPair(l, op, r) = Bin(l, op, r)
        BY <1>1, <1>2, BoolLiterals DEF FoldPair
    <2>2. ~IsBool(l, TRUE) /\ ~IsBool(l, FALSE)
        BY <1>2, BoolLiterals
    <2> QED
        BY <2>1, <2>2
<1>3. CASE ~(IsLitOf(l, "Int") /\ IsLitOf(r, "Int"))
    <2>1. IsBool(l, TRUE) => ~IsBool(l, FALSE)
        BY BoolLiterals
    <2>2. CASE IsBool(l, TRUE)
        BY <1>3, <2>1, <2>2 DEF FoldPair
    <2>3. CASE IsBool(l, FALSE)
        BY <1>3, <2>1, <2>3 DEF FoldPair
    <2>4. CASE ~IsBool(l, TRUE) /\ ~IsBool(l, FALSE)
        BY <1>3, <2>4 DEF FoldPair
    <2> QED
        BY <2>2, <2>3, <2>4
<1> QED
    BY <1>2, <1>3

\* So does ConstantFolding, since what it returns is a part of what it got, or a literal.
LEMMA FoldType == \A e \in LogicalExpr : Fold[e] \in LogicalExpr
<1> DEFINE conditions == LogicalOps \cup Compared("BinaryOp", LogicalOps)
<1>1. LogicalExpr = Trees("BinaryOp", conditions)
    BY DEF LogicalExpr, Exprs, LogicalOps
<1>2. conditions \subseteq LogicalExpr
    BY <1>1, TreeCases
<1>3. ASSUME NEW e \in LogicalOps PROVE Fold[e] = e
    BY LogicalOp, FoldIs
<1>4. ASSUME NEW e \in conditions PROVE Fold[e] \in conditions
    <2>1. CASE e \in LogicalOps
        BY <1>3, <2>1
    <2>2. CASE e \in Compared("BinaryOp", LogicalOps)
        <3>1. e.node = "BinaryOp" /\ e.op \in CmpOps /\ e.left \in LogicalOps /\ e.right \in LogicalOps
            BY <2>2, ComparedIs
        <3>2. Fold[e] = FoldPair(e.left, e.op, e.right)
            BY <1>2, <1>3, <3>1, FoldIs
        <3>3. Bin(e.left, e.op, e.right) \in Compared("BinaryOp", LogicalOps)
            BY <3>1 DEF Bin, Compared
        <3>4. \A b : Truth(b) \in {Truth(TRUE), Truth(FALSE)}
            BY DEF Truth
        <3>5. \A b : Lit("Bool", Truth(b)) \in LogicalOps
            BY <3>4, TruthIs DEF Lit, LitsOf, LogicalKinds, LogicalOps, LogicalOperands
        <3>6. FoldPair(e.left, e.op, e.right) \in conditions
            BY <3>1, <3>3, <3>5, FoldComparison
        <3> QED
            BY <3>2, <3>6
    <2> QED
        BY <2>1, <2>2
<1>5. ASSUME NEW e \in LogicalExpr \cap Joined("BinaryOp", LogicalExpr), NEW S,
             Fold[e.left] \in S, Fold[e.right] \in S
      PROVE  Fold[e] \in S \cup Joined("BinaryOp", S)
    <2>1. e.node = "BinaryOp" /\ e.op \in {"And", "Or"}
        BY <1>5, JoinedIs
    <2>2. Fold[e] = FoldPair(Fold[e.left], e.op, Fold[e.right])
        BY <1>5, <2>1, FoldIs
    <2>3. Bin(Fold[e.left], e.op, Fold[e.right]) \in Joined("BinaryOp", S)
        BY <1>5, <2>1 DEF Bin, Joined
    <2> QED
        BY <1>5, <2>1, <2>2, <2>3, FoldConnective
<1> HIDE DEF conditions
<1> QED
    BY <1>1, <1>4, <1>5, TreeMap

\* lower_expr of physical_plan/lower.rs returns a physical expression.
LEMMA LowerExprType == \A e \in LogicalExpr : LowerExpr[e] \in PhysicalExpr
<1> DEFINE conditions == LogicalOps \cup Compared("BinaryOp", LogicalOps)
           conditions2 == PhysicalOps \cup Compared("Compare", PhysicalOps)
<1>1. LogicalExpr = Trees("BinaryOp", conditions) /\ PhysicalExpr = Trees("Logical", conditions2)
    BY DEF LogicalExpr, PhysicalExpr, Exprs, LogicalOps, PhysicalOps
<1>2. conditions \subseteq LogicalExpr
    BY <1>1, TreeCases
<1>3. ASSUME NEW e \in LogicalOps PROVE LowerExpr[e] \in PhysicalOps
    <2>1. e \in LogicalExpr
        BY LogicalOp
    <2>2. CASE e \in ColsOf(Columns) /\ e.node = "Column"
        BY <2>1, <2>2, LowerExprIs DEF PhysicalOps, PhysicalOperands
    <2>3. CASE e.node = "Literal" /\ e.kind \in LogicalKinds /\ e.val \in Value
        <3>1. LowerExpr[e] = PhysicalLiteral(e)
            BY <2>1, <2>3, LowerExprIs
        <3>2. PhysicalLiteral(e) \in LitsOf(DataTypes \cup {"Null"}, Value)
            BY <2>3 DEF PhysicalLiteral, Lit, LitsOf, LogicalKinds, DataTypes
        <3> QED
            BY <3>1, <3>2 DEF PhysicalOps, PhysicalOperands
    <2>4. CASE e.node = "Cast" /\ e.type \in DataTypes /\ e.expr.val \in Value
        <3>1. LowerExpr[e] = Narrowed(e.expr, e.type)
            BY <2>1, <2>4, LowerExprIs
        <3>2. AsFloat(e.type, e.expr.val) \in Value
            BY <2>4, RoundedIsValue
        <3> QED
            BY <2>4, <3>1, <3>2 DEF Narrowed, Lit, LitsOf, PhysicalOps, PhysicalOperands
    <2> QED
        BY <2>2, <2>3, <2>4, LogicalOp
<1>4. ASSUME NEW e \in conditions PROVE LowerExpr[e] \in conditions2
    <2>1. CASE e \in LogicalOps
        BY <1>3, <2>1
    <2>2. CASE e \in Compared("BinaryOp", LogicalOps)
        <3>1. e.node = "BinaryOp" /\ e.op \in CmpOps /\ e.left \in LogicalOps /\ e.right \in LogicalOps
            BY <2>2, ComparedIs
        <3>2. LowerExpr[e] = Compare(LowerExpr[e.left], e.op, LowerExpr[e.right])
            BY <1>2, <3>1, LowerExprIs
        <3>3. Compare(LowerExpr[e.left], e.op, LowerExpr[e.right]) \in Compared("Compare", PhysicalOps)
            BY <1>3, <3>1 DEF Compare, Compared
        <3> QED
            BY <3>2, <3>3
    <2> QED
        BY <2>1, <2>2
<1>5. ASSUME NEW e \in LogicalExpr \cap Joined("BinaryOp", LogicalExpr), NEW S,
             LowerExpr[e.left] \in S, LowerExpr[e.right] \in S
      PROVE  LowerExpr[e] \in S \cup Joined("Logical", S)
    <2>1. e.node = "BinaryOp" /\ e.op \in {"And", "Or"} /\ e.op \notin CmpOps
        BY <1>5, JoinedIs
    <2>2. LowerExpr[e] = Logical(LowerExpr[e.left], e.op, LowerExpr[e.right])
        BY <1>5, <2>1, LowerExprIs
    <2>3. Logical(LowerExpr[e.left], e.op, LowerExpr[e.right]) \in Joined("Logical", S)
        BY <1>5, <2>1 DEF Logical, Joined
    <2> QED
        BY <2>2, <2>3
<1> HIDE DEF conditions, conditions2
<1> QED
    BY <1>1, <1>4, <1>5, TreeMap

-----------------------------------------------------------------------------
(***************************************************************************)
(* The plan of an expression                                               *)
(***************************************************************************)
\* The clause after the logical optimizer, and as the predicate of the filter.
Planned(e) == Fold[Coerce[LowerSql[e]]]
Predicate(e) == LowerExpr[Planned(e)]

LEMMA PlannedTypes ==
    ASSUME NEW e \in SqlExpr
    PROVE  /\ LowerSql[e] \in LogicalExpr /\ Coerce[LowerSql[e]] \in LogicalExpr
           /\ Planned(e) \in LogicalExpr /\ Predicate(e) \in PhysicalExpr
BY LowerSqlType, CoerceType, FoldType, LowerExprType DEF Planned, Predicate

\* An expression is an operand, a comparison of operands, or AND or OR.
LEMMA SqlNodes ==
    ASSUME NEW e \in SqlExpr
    PROVE  \/ e \in SqlOps
           \/ /\ e \in Compared("BinaryOp", SqlOps)
              /\ e.node = "BinaryOp" /\ e.op \in CmpOps /\ e.left \in SqlOps /\ e.right \in SqlOps
           \/ /\ e \in Joined("BinaryOp", SqlExpr)
              /\ e.node = "BinaryOp" /\ e.op \in {"And", "Or"} /\ e.op \notin CmpOps
              /\ e.left \in SqlExpr /\ e.right \in SqlExpr /\ Sub(e) = {e.left, e.right}
<1>1. \/ e \in SqlOps \/ e \in Compared("BinaryOp", SqlOps) \/ e \in Joined("BinaryOp", SqlExpr)
    BY TreeCases DEF SqlExpr, Exprs, SqlOps
<1>2. e \in Compared("BinaryOp", SqlOps) =>
          e.node = "BinaryOp" /\ e.op \in CmpOps /\ e.left \in SqlOps /\ e.right \in SqlOps
    BY ComparedIs
<1>3. ASSUME e \in Joined("BinaryOp", SqlExpr)
      PROVE  /\ e.node = "BinaryOp" /\ e.op \in {"And", "Or"} /\ e.op \notin CmpOps
             /\ e.left \in SqlExpr /\ e.right \in SqlExpr /\ Sub(e) = {e.left, e.right}
    <2>1. e.node = "BinaryOp" /\ e.op \in {"And", "Or"} /\ e.op \notin CmpOps
          /\ e.left \in SqlExpr /\ e.right \in SqlExpr
        BY <1>3, JoinedIs
    <2> QED
        BY <2>1, SqlParts
<1> QED
    BY <1>1, <1>2, <1>3

\* Coercion and folding leave an operand as it is.
LEMMA OperandsStay ==
    ASSUME NEW x \in LogicalOps
    PROVE  Coerce[x] = x /\ Fold[x] = x
BY LogicalOp, CoerceIs, FoldIs

\* What becomes of an operand, a comparison, and AND and OR.
LEMMA PlannedOperand ==
    ASSUME NEW e \in SqlOps
    PROVE  Planned(e) = IF IsCol(e) THEN e ELSE LowerLiteral(e)
BY LowerSqlOp, OperandsStay DEF Planned

\* What becomes of the operands of a comparison that is not folded.
Became(l, r, l2, r2) ==
    /\ IsCol(l) => l2 = l
    /\ IsCol(r) => r2 = r
    /\ IsLit(l) => l2 = IF IsCol(r) THEN Cast(LowerLiteral(l), TypeOf[r.column]) ELSE LowerLiteral(l)
    /\ IsLit(r) => r2 = IF IsCol(l) THEN Cast(LowerLiteral(r), TypeOf[l.column]) ELSE LowerLiteral(r)

LEMMA PlannedComparison ==
    ASSUME NEW e \in SqlExpr, e \in Compared("BinaryOp", SqlOps)
    PROVE  \/ /\ IsLit(e.left) /\ IsLit(e.right)
              /\ Planned(e) = Lit("Bool", Truth(ArrowCompare(e.op, e.left.val, e.right.val)))
           \/ \E l2, r2 \in LogicalOps :
                 Planned(e) = Bin(l2, e.op, r2) /\ Became(e.left, e.right, l2, r2)
<1> DEFINE l == LowerSql[e.left]
           r == LowerSql[e.right]
           l2 == IF IsLit(e.left) /\ IsCol(e.right) THEN Cast(l, TypeOf[r.column]) ELSE l
           r2 == IF IsCol(e.left) /\ IsLit(e.right) THEN Cast(r, TypeOf[l.column]) ELSE r
<1>1. e.node = "BinaryOp" /\ e.op \in CmpOps /\ e.left \in SqlOps /\ e.right \in SqlOps
    BY ComparedIs
<1>2. /\ l \in LogicalOps /\ l = IF IsCol(e.left) THEN e.left ELSE LowerLiteral(e.left)
      /\ r \in LogicalOps /\ r = IF IsCol(e.right) THEN e.right ELSE LowerLiteral(e.right)
    BY <1>1, LowerSqlOp
<1>3. /\ IsCol(e.left) \/ (IsLit(e.left) /\ ~IsCol(e.left) /\ IsLit(l)
                           /\ (l.kind = "Int" => l.val = e.left.val))
      /\ IsCol(e.left) => ~IsLit(e.left) /\ e.left.column \in Columns
      /\ IsCol(e.right) \/ (IsLit(e.right) /\ ~IsCol(e.right) /\ IsLit(r)
                            /\ (r.kind = "Int" => r.val = e.right.val))
      /\ IsCol(e.right) => ~IsLit(e.right) /\ e.right.column \in Columns
    <2>1. ASSUME NEW o \in SqlOps
          PROVE  /\ IsCol(o) \/ (IsLit(o) /\ ~IsCol(o))
                 /\ IsCol(o) => ~IsLit(o) /\ o.column \in Columns
                 /\ IsLit(o) => /\ IsLit(LowerLiteral(o))
                                /\ LowerLiteral(o).kind = "Int" => LowerLiteral(o).val = o.val
        <3>1. IsCol(o) \/ (IsLit(o) /\ ~IsCol(o))
            BY SqlOp
        <3>2. IsCol(o) => ~IsLit(o) /\ o.column \in Columns
            BY SqlOp
        <3>3. IsLit(o) => o.kind \in SqlKinds /\ o.val \in Value
            BY SqlOp
        <3>4. IsLit(o) => /\ IsLit(LowerLiteral(o))
                          /\ LowerLiteral(o).kind = "Int" => LowerLiteral(o).val = o.val
            BY <3>3, LowerLiteralIs DEF LoweredValue, SqlKinds
        <3> QED
            BY <3>1, <3>2, <3>4
    <2> HIDE DEF l, r
    <2> QED
        BY <1>1, <1>2, <2>1
<1>4. /\ IsCol(l) <=> IsCol(e.left)
      /\ IsCol(r) <=> IsCol(e.right)
      /\ IsLit(l) <=> IsLit(e.left)
      /\ IsLit(r) <=> IsLit(e.right)
    <2>1. \A x : ~(IsCol(x) /\ IsLit(x))
        BY DEF IsCol, IsLit
    <2> QED
        BY <1>2, <1>3, <2>1
<1>5. LowerSql[e] = Bin(l, e.op, r)
    BY <1>1, LowerSqlIs DEF IsCol, IsLit
<1>6. Coerce[LowerSql[e]] = CoerceComparison(l, e.op, r)
    <2>1. LowerSql[e] \in LogicalExpr
        BY PlannedTypes
    <2>2. LowerSql[e].node = "BinaryOp" /\ LowerSql[e].op = e.op /\ LowerSql[e].left = l /\ LowerSql[e].right = r
        BY <1>5 DEF Bin
    <2>3. Coerce[l] = l /\ Coerce[r] = r
        BY <1>2, OperandsStay
    <2> HIDE DEF l, r
    <2> QED
        BY <1>1, <2>1, <2>2, <2>3, CoerceIs
<1>7. Coerce[LowerSql[e]] = Bin(l2, e.op, r2)
    <2> HIDE DEF l, r
    <2>1. CASE IsCol(e.left) /\ IsLit(e.right)
        BY <1>3, <1>4, <1>6, <2>1 DEF CoerceComparison
    <2>2. CASE IsLit(e.left) /\ IsCol(e.right)
        BY <1>3, <1>4, <1>6, <2>2 DEF CoerceComparison
    <2>3. CASE ~(IsCol(e.left) /\ IsLit(e.right)) /\ ~(IsLit(e.left) /\ IsCol(e.right))
        BY <1>4, <1>6, <2>3 DEF CoerceComparison
    <2> QED
        BY <2>1, <2>2, <2>3
<1>8. ASSUME NEW x \in SqlOps, IsLit(x), ~IsCol(x), NEW c \in Columns
      PROVE  Cast(LowerLiteral(x), TypeOf[c]) \in LogicalOps /\ TypeOf[c] \in DataTypes
    <2>1. LowerLiteral(x) \in LitsOf(LogicalKinds, Value)
        BY <1>8, SqlOp, LowerLiteralIs
    <2>2. TypeOf[c] \in DataTypes
        BY ZoneMapAssumption
    <2> QED
        BY <2>1, <2>2 DEF Cast, LogicalOps, LogicalOperands
<1>9. l2 \in LogicalOps /\ r2 \in LogicalOps /\ Became(e.left, e.right, l2, r2)
    <2>1. /\ IsCol(e.left) => l = e.left
          /\ ~IsCol(e.left) => l = LowerLiteral(e.left)
          /\ IsCol(e.right) => r = e.right
          /\ ~IsCol(e.right) => r = LowerLiteral(e.right)
        BY <1>2
    <2> HIDE DEF l, r
    <2>2. CASE IsCol(e.left) /\ IsLit(e.right)
        BY <1>1, <1>2, <1>3, <1>8, <2>1, <2>2 DEF Became
    <2>3. CASE IsLit(e.left) /\ IsCol(e.right)
        BY <1>1, <1>2, <1>3, <1>8, <2>1, <2>3 DEF Became
    <2>4. CASE ~(IsCol(e.left) /\ IsLit(e.right)) /\ ~(IsLit(e.left) /\ IsCol(e.right))
        BY <1>2, <1>3, <2>1, <2>4 DEF Became
    <2> QED
        BY <2>2, <2>3, <2>4
<1>10. Planned(e) = FoldPair(l2, e.op, r2)
    <2>1. Coerce[LowerSql[e]] \in LogicalExpr
        BY PlannedTypes
    <2>2. /\ Coerce[LowerSql[e]].node = "BinaryOp" /\ Coerce[LowerSql[e]].op = e.op
          /\ Coerce[LowerSql[e]].left = l2 /\ Coerce[LowerSql[e]].right = r2
        BY <1>7 DEF Bin
    <2>3. Fold[l2] = l2 /\ Fold[r2] = r2
        BY <1>9, OperandsStay
    <2> HIDE DEF l2, r2
    <2> QED
        BY <2>1, <2>2, <2>3, FoldIs DEF Planned
<1>11. CASE IsLitOf(l2, "Int") /\ IsLitOf(r2, "Int")
    <2>1. IsLit(l2) /\ IsLit(r2) /\ \A x, t : ~IsLit(Cast(x, t))
        BY <1>11 DEF IsLitOf, IsLit, Cast
    <2>2. l2 = l /\ r2 = r
        BY <2>1
    <2>3. IsLit(e.left) /\ IsLit(e.right) /\ l.val = e.left.val /\ r.val = e.right.val
        <3>1. IsLit(e.left) /\ IsLit(e.right) /\ l.kind = "Int" /\ r.kind = "Int"
            BY <1>4, <1>11, <2>1, <2>2 DEF IsLitOf
        <3> HIDE DEF l, r
        <3> QED
            BY <1>3, <3>1
    <2>4. FoldPair(l2, e.op, r2) = Lit("Bool", Truth(ArrowCompare(e.op, l2.val, r2.val)))
        BY <1>1, <1>11, FoldComparison
    <2> HIDE DEF l, r, l2, r2
    <2> QED
        BY <1>10, <2>2, <2>3, <2>4
<1>12. CASE ~(IsLitOf(l2, "Int") /\ IsLitOf(r2, "Int"))
    <2>1. FoldPair(l2, e.op, r2) = Bin(l2, e.op, r2)
        BY <1>1, <1>12, FoldComparison
    <2> HIDE DEF l2, r2
    <2> QED
        BY <1>9, <1>10, <2>1
<1> QED
    BY <1>11, <1>12

LEMMA PlannedConnective ==
    ASSUME NEW e \in SqlExpr, e \in Joined("BinaryOp", SqlExpr)
    PROVE  Planned(e) = FoldPair(Planned(e.left), e.op, Planned(e.right))
<1>1. e.node = "BinaryOp" /\ e.op \notin CmpOps /\ e.left \in SqlExpr /\ e.right \in SqlExpr
    BY JoinedIs
<1> DEFINE l == LowerSql[e.left]
           r == LowerSql[e.right]
           x == LowerSql[e]
           y == Coerce[x]
<1>2. x = Bin(l, e.op, r) /\ x \in LogicalExpr /\ y \in LogicalExpr
    BY <1>1, LowerSqlIs, PlannedTypes DEF IsCol, IsLit
<1> HIDE DEF l, r, x
<1>3. x.node = "BinaryOp" /\ x.op = e.op /\ x.left = l /\ x.right = r
    BY <1>2 DEF Bin
<1>4. y = Bin(Coerce[l], e.op, Coerce[r])
    BY <1>1, <1>2, <1>3, CoerceIs
<1> HIDE DEF y
<1>5. y.node = "BinaryOp" /\ y.op = e.op /\ y.left = Coerce[l] /\ y.right = Coerce[r]
    BY <1>4 DEF Bin
<1>6. Fold[y] = FoldPair(Fold[Coerce[l]], e.op, Fold[Coerce[r]])
    BY <1>2, <1>5, FoldIs
<1> QED
    BY <1>6 DEF Planned, l, r, x, y

\* The physical plan of an operand that is not folded.
LEMMA OperandLowered ==
    ASSUME NEW o \in SqlOps, NEW other \in SqlOps, NEW x \in LogicalOps,
           IsCol(o) => x = o,
           IsLit(o) => x = IF IsCol(other) THEN Cast(LowerLiteral(o), TypeOf[other.column])
                           ELSE LowerLiteral(o)
    PROVE  /\ IsCol(o) => LowerExpr[x] = o /\ ~IsLit(o)
           /\ IsLit(o) => /\ IsLit(LowerExpr[x]) /\ ~IsCol(LowerExpr[x])
                          /\ LowerExpr[x].val = IF IsCol(other) THEN Meant(o, TypeOf[other.column])
                                                ELSE LoweredValue(o)
<1>1. x \in LogicalExpr
    BY LogicalOp
<1>2. ASSUME IsCol(o) PROVE LowerExpr[x] = o /\ ~IsLit(o)
    BY <1>1, <1>2, LowerExprIs DEF IsCol, IsLit
<1>3. ASSUME IsLit(o)
      PROVE  /\ IsLit(LowerExpr[x]) /\ ~IsCol(LowerExpr[x])
             /\ LowerExpr[x].val = IF IsCol(other) THEN Meant(o, TypeOf[other.column])
                                   ELSE LoweredValue(o)
    <2>1. IsLit(LowerLiteral(o)) /\ LowerLiteral(o).val = LoweredValue(o)
        BY <1>3, SqlOp, LowerLiteralIs
    <2>2. CASE ~IsCol(other)
        <3>1. x = LowerLiteral(o)
            BY <1>3, <2>2
        <3>2. LowerExpr[x] = PhysicalLiteral(x)
            BY <1>1, <2>1, <3>1, LowerExprIs DEF IsLit
        <3>3. IsLit(PhysicalLiteral(x)) /\ ~IsCol(PhysicalLiteral(x)) /\ PhysicalLiteral(x).val = x.val
            BY DEF PhysicalLiteral, Lit, IsLit, IsCol
        <3> QED
            BY <2>1, <2>2, <3>1, <3>2, <3>3
    <2>3. CASE IsCol(other)
        <3> DEFINE type == TypeOf[other.column]
        <3>1. x.node = "Cast" /\ x.expr = LowerLiteral(o) /\ x.type = type
            BY <1>3, <2>3 DEF Cast
        <3> HIDE DEF type
        <3>2. LowerExpr[x] = Lit(type, AsFloat(type, LoweredValue(o)))
            BY <1>1, <2>1, <3>1, LowerExprIs DEF Narrowed
        <3>3. AsFloat(type, LoweredValue(o)) = Meant(o, type)
            BY DEF Meant, LoweredValue
        <3> QED
            BY <2>3, <3>2, <3>3 DEF Lit, IsLit, IsCol, type
    <2> QED
        BY <2>2, <2>3
<1> QED
    BY <1>2, <1>3

\* The value that a comparison means by an operand.
LEMMA MeantValueIs ==
    ASSUME NEW o, NEW other, NEW row
    PROVE  MeantValue(o, other, row) = IF IsCol(o) THEN row[o.column]
                                       ELSE IF IsCol(other) THEN Meant(o, TypeOf[other.column])
                                       ELSE o.val
BY DEF MeantValue

\* A statement compares two literals only if they are integers, and these keep
\* their values.
LEMMA StatedIntegers ==
    ASSUME NEW e \in SqlExpr, e \in Compared("BinaryOp", SqlOps), Stated[e],
           IsLit(e.left), IsLit(e.right)
    PROVE  LoweredValue(e.left) = e.left.val /\ LoweredValue(e.right) = e.right.val
<1>1. e.node = "BinaryOp" /\ e.op \in CmpOps /\ e.left \in SqlOps /\ e.right \in SqlOps
    BY ComparedIs
<1>2. LowerLiteral(e.left).kind = "Int" /\ LowerLiteral(e.right).kind = "Int"
    BY <1>1, StatedIs
<1>3. ASSUME NEW o \in SqlOps, IsLit(o), LowerLiteral(o).kind = "Int"
      PROVE  LoweredValue(o) = o.val
    BY <1>3, SqlOp, LowerLiteralIs DEF LoweredValue, SqlKinds
<1> QED
    BY <1>1, <1>2, <1>3

\* The filter's predicate for a comparison that is not folded.
LEMMA ComparisonLowered ==
    ASSUME NEW e \in SqlExpr, e \in Compared("BinaryOp", SqlOps),
           NEW l2 \in LogicalOps, NEW r2 \in LogicalOps,
           Planned(e) = Bin(l2, e.op, r2), Became(e.left, e.right, l2, r2)
    PROVE  LET p == Predicate(e)
           IN  /\ p = Compare(LowerExpr[l2], e.op, LowerExpr[r2])
               /\ IsCol(p.left) => p.left = e.left /\ IsCol(e.left)
               /\ IsLit(p.right) /\ IsCol(p.left) =>
                      IsLit(e.right) /\ p.right.val = Meant(e.right, TypeOf[e.left.column])
               /\ Stated[e] => \A row :
                      /\ OperandValue(p.left, row) = MeantValue(e.left, e.right, row)
                      /\ OperandValue(p.right, row) = MeantValue(e.right, e.left, row)
<1>1. e.op \in CmpOps /\ e.left \in SqlOps /\ e.right \in SqlOps
    BY ComparedIs
<1>2. Planned(e) \in LogicalExpr
    BY PlannedTypes
<1>3. /\ Planned(e).node = "BinaryOp" /\ Planned(e).op = e.op
      /\ Planned(e).left = l2 /\ Planned(e).right = r2
    BY DEF Bin
<1>4. Predicate(e) = Compare(LowerExpr[l2], e.op, LowerExpr[r2])
    BY <1>1, <1>2, <1>3, LowerExprIs DEF Predicate
<1>5. /\ IsCol(e.left) => LowerExpr[l2] = e.left /\ ~IsLit(e.left)
      /\ IsLit(e.left) => /\ IsLit(LowerExpr[l2]) /\ ~IsCol(LowerExpr[l2])
                          /\ LowerExpr[l2].val = IF IsCol(e.right) THEN Meant(e.left, TypeOf[e.right.column])
                                                 ELSE LoweredValue(e.left)
    BY <1>1, OperandLowered DEF Became
<1>6. /\ IsCol(e.right) => LowerExpr[r2] = e.right /\ ~IsLit(e.right)
      /\ IsLit(e.right) => /\ IsLit(LowerExpr[r2]) /\ ~IsCol(LowerExpr[r2])
                           /\ LowerExpr[r2].val = IF IsCol(e.left) THEN Meant(e.right, TypeOf[e.left.column])
                                                  ELSE LoweredValue(e.right)
    BY <1>1, OperandLowered DEF Became
<1>7. /\ IsCol(e.left) \/ (IsLit(e.left) /\ ~IsCol(e.left))
      /\ IsCol(e.right) \/ (IsLit(e.right) /\ ~IsCol(e.right))
    BY <1>1, SqlOp
<1>8. Predicate(e).left = LowerExpr[l2] /\ Predicate(e).right = LowerExpr[r2]
    BY <1>4 DEF Compare
<1>9. ASSUME Stated[e], NEW row
      PROVE  /\ OperandValue(LowerExpr[l2], row) = MeantValue(e.left, e.right, row)
             /\ OperandValue(LowerExpr[r2], row) = MeantValue(e.right, e.left, row)
    <2>1. IsLit(e.left) /\ IsLit(e.right) =>
              LoweredValue(e.left) = e.left.val /\ LoweredValue(e.right) = e.right.val
        BY <1>9, StatedIntegers
    <2> QED
        BY <1>5, <1>6, <1>7, <2>1, MeantValueIs DEF OperandValue
<1> QED
    BY <1>4, <1>5, <1>6, <1>7, <1>8, <1>9

\* The filter's predicate for a connective that is not folded.
LEMMA ConnectiveLowered ==
    ASSUME NEW e \in SqlExpr, e \in Joined("BinaryOp", SqlExpr),
           Planned(e) = Bin(Planned(e.left), e.op, Planned(e.right))
    PROVE  Predicate(e) = Logical(Predicate(e.left), e.op, Predicate(e.right))
<1>1. e.op \notin CmpOps
    BY JoinedIs
<1>2. Planned(e) \in LogicalExpr
    BY PlannedTypes
<1>3. /\ Planned(e).node = "BinaryOp" /\ Planned(e).op = e.op
      /\ Planned(e).left = Planned(e.left) /\ Planned(e).right = Planned(e.right)
    BY DEF Bin
<1> QED
    BY <1>1, <1>2, <1>3, LowerExprIs DEF Predicate

\* A predicate that is a column or a literal: the filter fails, and no part is skipped.
LEMMA OperandPredicate ==
    ASSUME NEW e \in SqlExpr, Planned(e).node \in {"Column", "Literal"}
    PROVE  /\ \A columns : ~Evaluates(Predicate(e), columns)
           /\ \A zones : ~CanSkip(Predicate(e), zones)
<1>1. Planned(e) \in LogicalExpr /\ Predicate(e) \in PhysicalExpr
    BY PlannedTypes
<1>2. Predicate(e).node \in {"Column", "Literal"}
    <2>1. CASE Planned(e).node = "Column"
        BY <1>1, <2>1, LowerExprIs DEF Predicate
    <2>2. CASE Planned(e).node = "Literal"
        <3>1. Predicate(e) = PhysicalLiteral(Planned(e))
            BY <1>1, <2>2, LowerExprIs DEF Predicate
        <3>2. \A x : PhysicalLiteral(x).node = "Literal"
            BY DEF PhysicalLiteral, Lit
        <3> QED
            BY <3>1, <3>2
    <2> QED
        BY <2>1, <2>2
<1> QED
    BY <1>1, <1>2, EvaluatesIs, CanSkipIs

LEMMA BoolIsLiteral ==
    ASSUME NEW x, NEW b \in BOOLEAN, IsBool(x, b)
    PROVE  x.node = "Literal"
BY DEF IsBool, IsLitOf, IsLit

-----------------------------------------------------------------------------
(***************************************************************************)
(* Planning keeps the meaning of a WHERE clause                            *)
(***************************************************************************)
\* A stated clause that is folded to a truth value has this value for every row, and a
\* row passes the filter, if the filter can be evaluated, if it satisfies the clause.
SameMeaning(e, row) ==
    Stated[e] =>
        /\ IsBool(Planned(e), TRUE) => Satisfies(row, e)
        /\ IsBool(Planned(e), FALSE) => ~Satisfies(row, e)
        /\ \A columns : Evaluates(Predicate(e), columns) => (Passes(Predicate(e), row) <=> Satisfies(row, e))

LEMMA OperandMeaning ==
    ASSUME NEW e \in SqlOps, NEW row
    PROVE  SameMeaning(e, row)
<1>1. e \in SqlExpr
    BY SqlOp
<1>2. Satisfies(row, e) <=> (IsCol(e) /\ row[e.column] = Truth(TRUE)) \/ IsBool(e, TRUE)
    <2>1. e.node # "BinaryOp"
        BY SqlOp DEF IsCol, IsLit
    <2> QED
        BY <1>1, <2>1, SatisfiesIs
<1>3. CASE IsCol(e)
    <2>1. Planned(e) = e /\ e.node = "Column"
        BY <1>3, PlannedOperand DEF IsCol
    <2>2. \A columns : ~Evaluates(Predicate(e), columns)
        BY <1>1, <2>1, OperandPredicate
    <2>3. ~IsBool(Planned(e), TRUE) /\ ~IsBool(Planned(e), FALSE)
        BY <2>1 DEF IsBool, IsLitOf, IsLit
    <2> QED
        BY <2>2, <2>3 DEF SameMeaning
<1>4. CASE IsLit(e) /\ ~IsCol(e)
    <2>1. Planned(e) = LowerLiteral(e)
        BY <1>4, PlannedOperand
    <2>2. /\ IsLit(Planned(e))
          /\ Planned(e).kind = "Bool" <=> e.kind = "Bool"
          /\ e.kind = "Bool" => Planned(e).val = e.val
        BY <1>4, <2>1, SqlOp, LowerLiteralIs DEF LoweredValue
    <2>3. \A columns : ~Evaluates(Predicate(e), columns)
        BY <1>1, <2>2, OperandPredicate DEF IsLit
    <2>4. IsBool(Planned(e), TRUE) => Satisfies(row, e)
        BY <1>2, <1>4, <2>2 DEF IsBool, IsLitOf
    <2>5. IsBool(Planned(e), FALSE) => ~Satisfies(row, e)
        BY <1>2, <1>4, <2>2, TruthIs DEF IsBool, IsLitOf
    <2> QED
        BY <2>3, <2>4, <2>5 DEF SameMeaning
<1> QED
    BY <1>3, <1>4, SqlOp

\* A literal that is cast to the type of its column compares as it is meant.
LEMMA ComparisonMeaning ==
    ASSUME NEW e \in SqlExpr, e \in Compared("BinaryOp", SqlOps), NEW row
    PROVE  SameMeaning(e, row)
<1>1. e.node = "BinaryOp" /\ e.op \in CmpOps /\ e.left \in SqlOps /\ e.right \in SqlOps
    BY ComparedIs
<1>2. Satisfies(row, e) <=>
          ArrowCompare(e.op, MeantValue(e.left, e.right, row), MeantValue(e.right, e.left, row))
    <2>1. ~IsCol(e) /\ ~IsBool(e, TRUE) /\ e.op \notin {"And", "Or"}
        BY <1>1 DEF IsCol, IsBool, IsLitOf, IsLit, CmpOps
    <2> QED
        BY <1>1, <2>1, SatisfiesIs
<1>3. ASSUME IsLit(e.left), IsLit(e.right),
             Planned(e) = Lit("Bool", Truth(ArrowCompare(e.op, e.left.val, e.right.val)))
      PROVE  SameMeaning(e, row)
    <2>1. MeantValue(e.left, e.right, row) = e.left.val /\ MeantValue(e.right, e.left, row) = e.right.val
        BY <1>3, MeantValueIs DEF IsCol, IsLit
    <2>2. Planned(e).node = "Literal" /\ Planned(e).val = Truth(ArrowCompare(e.op, e.left.val, e.right.val))
        BY <1>3 DEF Lit
    <2>3. \A columns : ~Evaluates(Predicate(e), columns)
        BY <2>2, OperandPredicate
    <2>4. IsBool(Planned(e), TRUE) => ArrowCompare(e.op, e.left.val, e.right.val)
        BY <2>2, TruthIs DEF IsBool, Truth
    <2>5. IsBool(Planned(e), FALSE) => ~ArrowCompare(e.op, e.left.val, e.right.val)
        BY <2>2, TruthIs DEF IsBool, Truth
    <2> QED
        BY <1>2, <2>1, <2>3, <2>4, <2>5 DEF SameMeaning
<1>4. ASSUME NEW l2 \in LogicalOps, NEW r2 \in LogicalOps,
             Planned(e) = Bin(l2, e.op, r2), Became(e.left, e.right, l2, r2)
      PROVE  SameMeaning(e, row)
    <2> DEFINE p == Predicate(e)
    <2>1. /\ p = Compare(LowerExpr[l2], e.op, LowerExpr[r2])
          /\ Stated[e] => /\ OperandValue(p.left, row) = MeantValue(e.left, e.right, row)
                          /\ OperandValue(p.right, row) = MeantValue(e.right, e.left, row)
        BY <1>4, ComparisonLowered
    <2>2. p \in PhysicalExpr
        BY PlannedTypes
    <2>3. p.node = "Compare" /\ p.op = e.op
        BY <2>1 DEF Compare
    <2> HIDE DEF p
    <2>4. Stated[e] => (Passes(p, row) <=> Satisfies(row, e))
        BY <1>2, <2>1, <2>2, <2>3, PassesIs
    <2>5. ~IsBool(Planned(e), TRUE) /\ ~IsBool(Planned(e), FALSE)
        BY <1>4 DEF Bin, IsBool, IsLitOf, IsLit
    <2> QED
        BY <2>4, <2>5 DEF SameMeaning, p
<1> QED
    BY <1>3, <1>4, PlannedComparison

LEMMA ConnectiveSatisfied ==
    ASSUME NEW e \in SqlExpr, e \in Joined("BinaryOp", SqlExpr), NEW row
    PROVE  Satisfies(row, e) <=>
               IF e.op = "And" THEN Satisfies(row, e.left) /\ Satisfies(row, e.right)
               ELSE Satisfies(row, e.left) \/ Satisfies(row, e.right)
<1>1. e.node = "BinaryOp" /\ e.op \in {"And", "Or"} /\ e.op \notin CmpOps
    BY JoinedIs
<1>2. ~IsCol(e) /\ ~IsBool(e, TRUE)
    BY <1>1 DEF IsCol, IsBool, IsLitOf, IsLit
<1> QED
    BY <1>1, <1>2, SatisfiesIs

\* The short cuts of fold_expr for TRUE and FALSE keep the meaning.
LEMMA ConnectiveMeaning ==
    ASSUME NEW e \in SqlExpr, e \in Joined("BinaryOp", SqlExpr), NEW row,
           SameMeaning(e.left, row), SameMeaning(e.right, row)
    PROVE  SameMeaning(e, row)
<1> DEFINE l == Planned(e.left)
           r == Planned(e.right)
<1>0. SUFFICES ASSUME Stated[e] PROVE SameMeaning(e, row)
    BY DEF SameMeaning
<1>1. /\ e.op \in {"And", "Or"} /\ e.left \in SqlExpr /\ e.right \in SqlExpr
      /\ Stated[e.left] /\ Stated[e.right]
    BY <1>0, JoinedIs, StatedIs
<1>2. Satisfies(row, e) <=>
          IF e.op = "And" THEN Satisfies(row, e.left) /\ Satisfies(row, e.right)
          ELSE Satisfies(row, e.left) \/ Satisfies(row, e.right)
    BY ConnectiveSatisfied
<1>3. Planned(e) = FoldPair(l, e.op, r)
    BY PlannedConnective
<1>4. \/ IsBool(l, TRUE) /\ e.op = "And" /\ Planned(e) = r
      \/ IsBool(l, FALSE) /\ e.op = "And" /\ Planned(e) = l
      \/ IsBool(l, TRUE) /\ e.op = "Or" /\ Planned(e) = l
      \/ IsBool(l, FALSE) /\ e.op = "Or" /\ Planned(e) = r
      \/ ~IsBool(l, TRUE) /\ ~IsBool(l, FALSE) /\ Planned(e) = Bin(l, e.op, r)
    BY <1>1, <1>3, FoldConnective
<1>5. /\ IsBool(l, TRUE) => Satisfies(row, e.left)
      /\ IsBool(l, FALSE) => ~Satisfies(row, e.left)
    BY <1>1 DEF SameMeaning
<1>6. CASE Planned(e) = r /\ (Satisfies(row, e) <=> Satisfies(row, e.right))
    BY <1>1, <1>6 DEF SameMeaning, Predicate
<1>7. CASE Planned(e) = l /\ (Satisfies(row, e) <=> Satisfies(row, e.left))
    BY <1>1, <1>7 DEF SameMeaning, Predicate
<1>8. CASE Planned(e) = Bin(l, e.op, r)
    <2> DEFINE p == Predicate(e)
    <2>1. p = Logical(Predicate(e.left), e.op, Predicate(e.right))
        BY <1>8, ConnectiveLowered
    <2>2. p \in PhysicalExpr
        BY PlannedTypes
    <2>3. p.node = "Logical" /\ p.op = e.op /\ p.left = Predicate(e.left) /\ p.right = Predicate(e.right)
        BY <2>1 DEF Logical
    <2> HIDE DEF p
    <2>4. ASSUME NEW columns, Evaluates(p, columns)
          PROVE  Passes(p, row) <=> Satisfies(row, e)
        <3>1. Evaluates(p.left, columns) /\ Evaluates(p.right, columns)
            BY <2>2, <2>3, <2>4, EvaluatesIs
        <3>2. /\ Passes(p.left, row) <=> Satisfies(row, e.left)
              /\ Passes(p.right, row) <=> Satisfies(row, e.right)
            BY <1>1, <2>3, <3>1 DEF SameMeaning
        <3>3. Passes(p, row) <=> IF p.op = "And" THEN Passes(p.left, row) /\ Passes(p.right, row)
                                 ELSE Passes(p.left, row) \/ Passes(p.right, row)
            BY <1>1, <2>2, <2>3, PassesIs
        <3> QED
            BY <1>2, <2>3, <3>2, <3>3
    <2>5. ~IsBool(Planned(e), TRUE) /\ ~IsBool(Planned(e), FALSE)
        BY <1>8 DEF Bin, IsBool, IsLitOf, IsLit
    <2> QED
        BY <2>4, <2>5 DEF SameMeaning, p
<1> HIDE DEF l, r
<1> QED
    BY <1>1, <1>2, <1>4, <1>5, <1>6, <1>7, <1>8

\* Coercion, folding and lowering keep the meaning of every clause.
LEMMA PlanningKeepsMeaning ==
    ASSUME NEW row
    PROVE  \A e \in SqlExpr : SameMeaning(e, row)
<1> DEFINE S == {e \in SqlExpr : SameMeaning(e, row)}
<1>1. ASSUME NEW e \in SqlExpr, Sub(e) \subseteq S PROVE e \in S
    <2>1. CASE e \in SqlOps
        BY <2>1, OperandMeaning
    <2>2. CASE e \in Compared("BinaryOp", SqlOps)
        BY <2>2, ComparisonMeaning
    <2>3. CASE e \in Joined("BinaryOp", SqlExpr) /\ Sub(e) = {e.left, e.right}
        <3>1. SameMeaning(e.left, row) /\ SameMeaning(e.right, row)
            BY <1>1, <2>3
        <3> QED
            BY <2>3, <3>1, ConnectiveMeaning
    <2> QED
        BY <2>1, <2>2, <2>3, SqlNodes
<1>2. SqlExpr \subseteq S
    <2> HIDE DEF S
    <2> QED
        BY <1>1, SqlGrounded, Induction
<1> QED
    BY <1>2

-----------------------------------------------------------------------------
(***************************************************************************)
(* A part that is skipped has no row that satisfies the WHERE clause       *)
(***************************************************************************)
\* The columns of a clause.
LEMMA ClauseColumns ==
    ASSUME NEW e \in SqlExpr, e.node = "BinaryOp"
    PROVE  ExprColumns[LowerSql[e]] = ExprColumns[LowerSql[e.left]] \cup ExprColumns[LowerSql[e.right]]
<1>1. LowerSql[e] = Bin(LowerSql[e.left], e.op, LowerSql[e.right]) /\ LowerSql[e] \in LogicalExpr
    BY LowerSqlIs, PlannedTypes DEF IsCol, IsLit
<1>2. /\ LowerSql[e].node = "BinaryOp" /\ LowerSql[e].left = LowerSql[e.left]
      /\ LowerSql[e].right = LowerSql[e.right]
    BY <1>1 DEF Bin
<1> QED
    BY <1>1, <1>2, ExprColumnsIs

LEMMA ColumnOfColumn ==
    ASSUME NEW e \in SqlOps, IsCol(e)
    PROVE  e.column \in ExprColumns[LowerSql[e]]
<1>1. LowerSql[e] = e /\ e \in LogicalExpr
    BY LowerSqlOp, LogicalOp
<1>2. ExprColumns[e] = {e.column}
    BY <1>1, ExprColumnsIs DEF IsCol
<1> QED
    BY <1>1, <1>2

\* If the zone map of part i lets zone_map_can_skip exclude the part, none of its
\* rows satisfies the clause.
SkippedSoundly(e, i) ==
    /\ Stated[e]
    /\ \A c \in ExprColumns[LowerSql[e]] : OrdinaryColumn(parts[i].rows, c)
    /\ CanSkip(Predicate(e), ReadZoneMap(parts[i].zonemap))
    => \A k \in 1..Len(parts[i].rows) : ~Satisfies(parts[i].rows[k], e)

LEMMA OperandSkips ==
    ASSUME NEW e \in SqlOps, NEW i
    PROVE  SkippedSoundly(e, i)
<1>1. e \in SqlExpr
    BY SqlOp
<1>2. Planned(e).node \in {"Column", "Literal"}
    <2>1. CASE IsCol(e)
        BY <2>1, PlannedOperand DEF IsCol
    <2>2. CASE IsLit(e) /\ ~IsCol(e)
        <3>1. IsLit(LowerLiteral(e))
            BY <2>2, SqlOp, LowerLiteralIs
        <3> QED
            BY <2>2, <3>1, PlannedOperand DEF IsLit
    <2> QED
        BY <2>1, <2>2, SqlOp
<1>3. \A zones : ~CanSkip(Predicate(e), zones)
    BY <1>1, <1>2, OperandPredicate
<1> QED
    BY <1>3 DEF SkippedSoundly

\* The tag of a zone is that of a data type; it is compared with a literal of one of three kinds.
LEMMA KindsCompared ==
    ASSUME NEW tag, NEW kind \in DataTypes \cup {"Null"}, KindOfTag(tag) = kind
    PROVE  kind \in {"I64", "U64", "F64"}
BY DEF KindOfTag, DataTypes

\* A comparison: SkipsSoundly of ZoneMapProofs, for the literal in the column's type.
LEMMA ComparisonSkips ==
    ASSUME IInv, NEW i \in 1..Len(parts), NEW e \in SqlExpr, e \in Compared("BinaryOp", SqlOps)
    PROVE  SkippedSoundly(e, i)
<1> DEFINE rows == parts[i].rows
           zones == ReadZoneMap(parts[i].zonemap)
           p == Predicate(e)
<1>1. e.node = "BinaryOp" /\ e.op \in CmpOps /\ e.left \in SqlOps /\ e.right \in SqlOps
    BY ComparedIs
<1>2. ASSUME Planned(e).node = "Literal" PROVE SkippedSoundly(e, i)
    BY <1>2, OperandPredicate DEF SkippedSoundly
<1>3. ASSUME NEW l2 \in LogicalOps, NEW r2 \in LogicalOps,
             Planned(e) = Bin(l2, e.op, r2), Became(e.left, e.right, l2, r2),
             Stated[e], \A c \in ExprColumns[LowerSql[e]] : OrdinaryColumn(rows, c),
             CanSkip(p, zones),
             NEW k \in 1..Len(rows)
      PROVE  ~Satisfies(rows[k], e)
    <2> DEFINE meant == Meant(e.right, TypeOf[e.left.column])
    <2>1. /\ p = Compare(LowerExpr[l2], e.op, LowerExpr[r2])
          /\ IsCol(p.left) => p.left = e.left /\ IsCol(e.left)
          /\ IsLit(p.right) /\ IsCol(p.left) => IsLit(e.right) /\ p.right.val = meant
        BY <1>3, ComparisonLowered
    <2>2. p \in PhysicalExpr
        BY PlannedTypes
    <2>3. p.node = "Compare" /\ p.op = e.op
        BY <2>1 DEF Compare
    <2> HIDE DEF p
    <2>4. /\ IsCol(p.left) /\ IsLit(p.right)
          /\ CompareCanSkip(zones, p.left.column, p.op, p.right.kind, p.right.val)
        BY <1>3, <2>2, <2>3, CanSkipIs
    <2>5. p.right.kind \in DataTypes \cup {"Null"}
        <3>1. p.right \in PhysicalExpr
            BY <2>2, <2>3, PhysicalParts
        <3> QED
            BY <2>4, <3>1, PhysicalCases DEF PhysicalExpr, PhysicalOver, IsCol, IsLit
    <2>6. p.right.kind \in {"I64", "U64", "F64"}
        BY <2>4, <2>5, KindsCompared DEF CompareCanSkip
    <2>7. /\ p.left = e.left /\ IsCol(e.left) /\ IsLit(e.right) /\ p.right.val = meant
          /\ e.left.column \in Columns /\ TypeOf[e.left.column] \in DataTypes
        BY <1>1, <2>1, <2>4, SqlOp, ZoneMapAssumption
    <2>8. Ordinary(meant) /\ meant \in Value
        <3>1. e.right \in SqlExpr /\ Stated[e.right]
            BY <1>1, <1>3, StatedIs, SqlParts
        <3>2. e.right.val \in Value
            BY <1>1, <2>7, SqlOp
        <3>3. meant \in Value
            BY <3>2, RoundedIsValue DEF Meant
        <3> QED
            BY <2>7, <3>1, <3>3, StatedIs
    <2> HIDE DEF meant
    <2>9. OrdinaryColumn(rows, e.left.column)
        BY <1>1, <1>3, <2>7, ClauseColumns, ColumnOfColumn
    <2>10. ~ArrowCompare(e.op, rows[k][e.left.column], meant)
        <3>1. ExcludedRowsDoNotPass
            BY SkipsSoundly
        <3>2. CompareCanSkip(zones, e.left.column, e.op, p.right.kind, meant)
            BY <2>3, <2>4, <2>7
        <3> QED
            BY <1>1, <2>6, <2>7, <2>8, <2>9, <3>1, <3>2 DEF ExcludedRowsDoNotPass
    <2>11. Satisfies(rows[k], e) <=>
              ArrowCompare(e.op, MeantValue(e.left, e.right, rows[k]), MeantValue(e.right, e.left, rows[k]))
        <3>1. ~IsCol(e) /\ ~IsBool(e, TRUE) /\ e.op \notin {"And", "Or"}
            BY <1>1 DEF IsCol, IsBool, IsLitOf, IsLit, CmpOps
        <3> QED
            BY <1>1, <3>1, SatisfiesIs
    <2>12. /\ MeantValue(e.left, e.right, rows[k]) = rows[k][e.left.column]
           /\ MeantValue(e.right, e.left, rows[k]) = meant
        BY <2>7, MeantValueIs DEF IsCol, IsLit, meant
    <2> QED
        BY <2>10, <2>11, <2>12
<1>4. CASE Planned(e) = Lit("Bool", Truth(ArrowCompare(e.op, e.left.val, e.right.val)))
    BY <1>2, <1>4 DEF Lit
<1>5. CASE \E l2, r2 \in LogicalOps : Planned(e) = Bin(l2, e.op, r2) /\ Became(e.left, e.right, l2, r2)
    BY <1>3, <1>5 DEF SkippedSoundly
<1> QED
    BY <1>4, <1>5, PlannedComparison

\* AND skips if one side does, OR if both do.
LEMMA ConnectiveSkips ==
    ASSUME NEW i, NEW e \in SqlExpr, e \in Joined("BinaryOp", SqlExpr),
           SkippedSoundly(e.left, i), SkippedSoundly(e.right, i)
    PROVE  SkippedSoundly(e, i)
<1> DEFINE rows == parts[i].rows
           zones == ReadZoneMap(parts[i].zonemap)
           l == Planned(e.left)
           r == Planned(e.right)
<1>1. e.node = "BinaryOp" /\ e.op \in {"And", "Or"} /\ e.left \in SqlExpr /\ e.right \in SqlExpr
    BY JoinedIs
<1>2. SUFFICES ASSUME Stated[e],
                      \A c \in ExprColumns[LowerSql[e]] : OrdinaryColumn(rows, c),
                      CanSkip(Predicate(e), zones),
                      NEW k \in 1..Len(rows)
               PROVE  ~Satisfies(rows[k], e)
    BY DEF SkippedSoundly
<1>3. /\ CanSkip(Predicate(e.left), zones) => ~Satisfies(rows[k], e.left)
      /\ CanSkip(Predicate(e.right), zones) => ~Satisfies(rows[k], e.right)
    <2>1. Stated[e.left] /\ Stated[e.right]
        BY <1>1, <1>2, StatedIs
    <2>2. /\ \A c \in ExprColumns[LowerSql[e.left]] : OrdinaryColumn(rows, c)
          /\ \A c \in ExprColumns[LowerSql[e.right]] : OrdinaryColumn(rows, c)
        BY <1>1, <1>2, ClauseColumns
    <2> QED
        BY <1>2, <2>1, <2>2 DEF SkippedSoundly
<1>4. Satisfies(rows[k], e) <=>
          IF e.op = "And" THEN Satisfies(rows[k], e.left) /\ Satisfies(rows[k], e.right)
          ELSE Satisfies(rows[k], e.left) \/ Satisfies(rows[k], e.right)
    BY ConnectiveSatisfied
<1>5. /\ IsBool(l, FALSE) => ~Satisfies(rows[k], e.left)
      /\ IsBool(l, TRUE) \/ IsBool(l, FALSE) => ~CanSkip(Predicate(e.left), zones)
    <2>1. SameMeaning(e.left, rows[k]) /\ Stated[e.left]
        BY <1>1, <1>2, PlanningKeepsMeaning, StatedIs
    <2>2. IsBool(l, TRUE) \/ IsBool(l, FALSE) => l.node = "Literal"
        BY BoolIsLiteral
    <2> QED
        BY <1>1, <2>1, <2>2, OperandPredicate DEF SameMeaning
<1>6. Planned(e) = FoldPair(l, e.op, r)
    BY PlannedConnective
<1>7. \/ IsBool(l, TRUE) /\ e.op = "And" /\ Planned(e) = r
      \/ IsBool(l, FALSE) /\ e.op = "And" /\ Planned(e) = l
      \/ IsBool(l, TRUE) /\ e.op = "Or" /\ Planned(e) = l
      \/ IsBool(l, FALSE) /\ e.op = "Or" /\ Planned(e) = r
      \/ Planned(e) = Bin(l, e.op, r)
    BY <1>1, <1>6, FoldConnective
<1>8. CASE Planned(e) = Bin(l, e.op, r)
    <2> DEFINE p == Predicate(e)
    <2>1. p = Logical(Predicate(e.left), e.op, Predicate(e.right))
        BY <1>8, ConnectiveLowered
    <2>2. p \in PhysicalExpr
        BY PlannedTypes
    <2>3. p.node = "Logical" /\ p.op = e.op /\ p.left = Predicate(e.left) /\ p.right = Predicate(e.right)
        BY <2>1 DEF Logical
    <2> HIDE DEF p
    <2>4. IF e.op = "And" THEN CanSkip(p.left, zones) \/ CanSkip(p.right, zones)
          ELSE CanSkip(p.left, zones) /\ CanSkip(p.right, zones)
        <3>1. CanSkip(p, zones)
            BY <1>2 DEF p
        <3> QED
            BY <1>1, <2>2, <2>3, <3>1, CanSkipIs
    <2> QED
        BY <1>3, <1>4, <2>3, <2>4
<1>9. /\ Planned(e) = l => CanSkip(Predicate(e.left), zones)
      /\ Planned(e) = r => CanSkip(Predicate(e.right), zones)
    BY <1>2 DEF Predicate
<1> HIDE DEF l, r, zones, rows
<1> QED
    BY <1>3, <1>4, <1>5, <1>7, <1>8, <1>9

\* zone_map_can_skip excludes no part with a row that satisfies the WHERE clause.
LEMMA SkipsSatisfyNothing ==
    ASSUME IInv, NEW i \in 1..Len(parts)
    PROVE  \A e \in SqlExpr : SkippedSoundly(e, i)
<1> DEFINE S == {e \in SqlExpr : SkippedSoundly(e, i)}
<1>1. ASSUME NEW e \in SqlExpr, Sub(e) \subseteq S PROVE e \in S
    <2>1. CASE e \in SqlOps
        BY <2>1, OperandSkips
    <2>2. CASE e \in Compared("BinaryOp", SqlOps)
        BY <2>2, ComparisonSkips
    <2>3. CASE e \in Joined("BinaryOp", SqlExpr) /\ Sub(e) = {e.left, e.right}
        <3>1. SkippedSoundly(e.left, i) /\ SkippedSoundly(e.right, i)
            BY <1>1, <2>3
        <3> QED
            BY <2>3, <3>1, ConnectiveSkips
    <2> QED
        BY <2>1, <2>2, <2>3, SqlNodes
<1>2. SqlExpr \subseteq S
    <2> HIDE DEF S
    <2> QED
        BY <1>1, SqlGrounded, Induction
<1> QED
    BY <1>2

-----------------------------------------------------------------------------
(***************************************************************************)
(* A well-typed clause that the analyzer accepts is lowered and evaluated  *)
(***************************************************************************)
\* check_type_compat lets no literal of the column's kind through that
\* narrow_literal has no conversion for.
LEMMA FittingNarrows ==
    ASSUME NEW type \in DataTypes, NEW lit \in SqlOps, IsLit(lit),
           LiteralFits(type, lit), TypesFit(type, lit)
    PROVE  ~CannotNarrow(LowerLiteral(lit), type)
<1> DEFINE l == LowerLiteral(lit)
<1>1. /\ lit.kind \in SqlKinds /\ lit.val \in Value
      /\ l.val = LoweredValue(lit)
      /\ l.kind = IF lit.kind = "Number" THEN IF IsI64(lit) THEN "Int" ELSE "Float"
                  ELSE lit.kind
    BY SqlOp, LowerLiteralIs
<1> HIDE DEF l
<1>2. CASE lit.kind = "Number"
    <2>1. type \in NumericTypes /\ lit.val.ieee <= TypeMax["I64"]
        BY <1>2 DEF LiteralFits
    <2>2. type \in IntTypes => lit.whole /\ lit.val.ieee >= TypeMin[type] /\ lit.val.ieee <= TypeMax[type]
        BY <1>2 DEF TypesFit
    <2>3. lit.val.ieee \in Int /\ \A t \in IntTypes : TypeMin[t] \in Int /\ TypeMax[t] \in Int
        BY <1>1, PlannerAssumption DEF Value
    <2>4. CASE lit.whole
        <3>1. l.kind = "Int" /\ l.val = lit.val
            BY <1>1, <1>2, <2>1, <2>4 DEF IsI64, LoweredValue
        <3>2. CannotNarrow(l, type) <=>
                  \/ type \notin NumericTypes
                  \/ type \in IntTypes /\ (l.val.ieee < TypeMin[type] \/ l.val.ieee > TypeMax[type])
            BY <3>1 DEF CannotNarrow
        <3>3. type \in IntTypes => ~(l.val.ieee < TypeMin[type]) /\ ~(l.val.ieee > TypeMax[type])
            BY <2>2, <2>3, <3>1
        <3>4. ~CannotNarrow(l, type)
            BY <2>1, <3>2, <3>3
        <3> QED
            BY <3>4 DEF l
    <2>5. CASE ~lit.whole
        <3>1. l.kind = "Float"
            BY <1>1, <1>2, <2>5 DEF IsI64
        <3>2. type \in {"F32", "F64"}
            BY <2>1, <2>2, <2>5 DEF NumericTypes, FloatTypes
        <3>3. ~CannotNarrow(l, type)
            BY <3>1, <3>2 DEF CannotNarrow
        <3> QED
            BY <3>3 DEF l
    <2> QED
        BY <2>4, <2>5
<1>3. CASE lit.kind # "Number"
    <2>1. l.kind = type
        BY <1>1, <1>3 DEF LiteralFits
    <2>2. type \in {"Str", "Bool"}
        BY <1>1, <1>3, <2>1 DEF SqlKinds, DataTypes
    <2>3. ~CannotNarrow(l, type)
        BY <2>1, <2>2 DEF CannotNarrow
    <2> QED
        BY <2>3 DEF l
<1> QED
    BY <1>2, <1>3

\* The clause is planned to a comparison or connective that is lowered without a
\* panic, and that the filter can evaluate on a batch with the clause's columns.
Answerable(e) ==
    WellTyped[e] /\ Accepted[e] =>
        /\ Planned(e).node = "BinaryOp"
        /\ ~LoweringPanics[Planned(e)]
        /\ \A columns \in SUBSET Columns :
              ExprColumns[Planned(e)] \subseteq columns => Evaluates(Predicate(e), columns)

\* A column, and a literal cast to its type.
LEMMA ColumnAndCast ==
    ASSUME NEW col \in SqlOps, IsCol(col), NEW lit \in SqlOps, IsLit(lit),
           NEW x, x = Cast(LowerLiteral(lit), TypeOf[col.column]), x \in LogicalOps, col \in LogicalOps,
           LiteralFits(TypeOf[col.column], lit), TypesFit(TypeOf[col.column], lit)
    PROVE  /\ ~LoweringPanics[col] /\ ~LoweringPanics[x]
           /\ col.column \in ExprColumns[col]
           /\ \A columns : col.column \in columns =>
                 /\ OperandTypes(LowerExpr[col], columns) = {TypeOf[col.column]}
                 /\ OperandTypes(LowerExpr[x], columns) = {TypeOf[col.column]}
<1>1. col.column \in Columns /\ TypeOf[col.column] \in DataTypes
    BY SqlOp, ZoneMapAssumption
<1>2. /\ x.node = "Cast" /\ x.expr = LowerLiteral(lit) /\ x.type = TypeOf[col.column]
      /\ col.node = "Column" /\ x \in LogicalExpr /\ col \in LogicalExpr
    BY LogicalOp DEF Cast, IsCol
<1>3. ~LoweringPanics[col]
    BY <1>2, LoweringPanicsIs
<1>4. ~LoweringPanics[x]
    <2>1. ~CannotNarrow(x.expr, x.type)
        BY <1>1, <1>2, FittingNarrows
    <2> QED
        BY <1>2, <2>1, LoweringPanicsIs
<1>5. col.column \in ExprColumns[col]
    BY <1>2, ExprColumnsIs
<1>6. LowerExpr[col] = col /\ LowerExpr[x] = Lit(TypeOf[col.column], AsFloat(TypeOf[col.column], x.expr.val))
    BY <1>2, LowerExprIs DEF Narrowed
<1>7. ASSUME NEW columns, col.column \in columns
      PROVE  /\ OperandTypes(col, columns) = {TypeOf[col.column]}
             /\ OperandTypes(LowerExpr[x], columns) = {TypeOf[col.column]}
    <2>1. OperandTypes(col, columns) = {TypeOf[c] : c \in columns \cap {col.column}}
        BY DEF OperandTypes, IsCol, IsLit
    <2>2. columns \cap {col.column} = {col.column}
        BY <1>7
    <2>3. \A k, v : OperandTypes(Lit(k, v), columns) = {k}
        BY DEF OperandTypes, IsCol, IsLit, Lit
    <2> QED
        BY <1>6, <2>1, <2>2, <2>3
<1> QED
    BY <1>3, <1>4, <1>5, <1>6, <1>7

\* The cast literal has the type of the column that it is compared with.
LEMMA ComparisonAnswerable ==
    ASSUME NEW e \in SqlExpr, e \in Compared("BinaryOp", SqlOps)
    PROVE  Answerable(e)
<1>1. e.node = "BinaryOp" /\ e.op \in CmpOps /\ e.left \in SqlOps /\ e.right \in SqlOps
    BY ComparedIs
<1>2. SUFFICES ASSUME WellTyped[e], Accepted[e] PROVE
        /\ Planned(e).node = "BinaryOp"
        /\ ~LoweringPanics[Planned(e)]
        /\ \A columns \in SUBSET Columns :
              ExprColumns[Planned(e)] \subseteq columns => Evaluates(Predicate(e), columns)
    BY DEF Answerable
<1>3. \/ IsCol(e.left) /\ IsLit(e.right) /\ LiteralFits(TypeOf[e.left.column], e.right)
      \/ IsCol(e.right) /\ IsLit(e.left) /\ LiteralFits(TypeOf[e.right.column], e.left)
    BY <1>1, <1>2, WellTypedIs
<1>4. /\ IsCol(e.left) /\ IsLit(e.right) => TypesFit(TypeOf[e.left.column], e.right)
      /\ IsLit(e.left) /\ IsCol(e.right) => TypesFit(TypeOf[e.right.column], e.left)
    BY <1>1, <1>2, AcceptedIs
<1>5. PICK l2 \in LogicalOps, r2 \in LogicalOps :
          Planned(e) = Bin(l2, e.op, r2) /\ Became(e.left, e.right, l2, r2)
    <2>1. ~(IsLit(e.left) /\ IsLit(e.right))
        BY <1>3 DEF IsCol, IsLit
    <2> QED
        BY <2>1, PlannedComparison
<1>6. /\ Planned(e) \in LogicalExpr /\ Planned(e).node = "BinaryOp" /\ Planned(e).op = e.op
      /\ Planned(e).left = l2 /\ Planned(e).right = r2
    BY <1>5, PlannedTypes DEF Bin
<1>7. /\ Predicate(e) \in PhysicalExpr /\ Predicate(e).node = "Compare"
      /\ Predicate(e).left = LowerExpr[l2] /\ Predicate(e).right = LowerExpr[r2]
    BY <1>5, ComparisonLowered, PlannedTypes DEF Compare
<1>8. \E col \in Columns :
          /\ ~LoweringPanics[l2] /\ ~LoweringPanics[r2]
          /\ col \in ExprColumns[l2] \cup ExprColumns[r2]
          /\ \A columns : col \in columns =>
                /\ OperandTypes(LowerExpr[l2], columns) = {TypeOf[col]}
                /\ OperandTypes(LowerExpr[r2], columns) = {TypeOf[col]}
    <2>1. CASE IsCol(e.left) /\ IsLit(e.right) /\ LiteralFits(TypeOf[e.left.column], e.right)
        <3>1. l2 = e.left /\ r2 = Cast(LowerLiteral(e.right), TypeOf[e.left.column])
            BY <1>5, <2>1 DEF Became
        <3>2. e.left.column \in Columns
            BY <1>1, <2>1, SqlOp
        <3>3. TypesFit(TypeOf[e.left.column], e.right)
            BY <1>4, <2>1
        <3>4. /\ ~LoweringPanics[e.left] /\ ~LoweringPanics[r2]
              /\ e.left.column \in ExprColumns[e.left]
              /\ \A columns : e.left.column \in columns =>
                    /\ OperandTypes(LowerExpr[e.left], columns) = {TypeOf[e.left.column]}
                    /\ OperandTypes(LowerExpr[r2], columns) = {TypeOf[e.left.column]}
            <4>1. e.left \in LogicalOps
                BY <3>1
            <4> QED
                BY <1>1, <2>1, <3>1, <3>3, <4>1, ColumnAndCast
        <3> QED
            BY <3>1, <3>2, <3>4
    <2>2. CASE IsCol(e.right) /\ IsLit(e.left) /\ LiteralFits(TypeOf[e.right.column], e.left)
        <3>1. r2 = e.right /\ l2 = Cast(LowerLiteral(e.left), TypeOf[e.right.column])
            BY <1>5, <2>2 DEF Became
        <3>2. e.right.column \in Columns
            BY <1>1, <2>2, SqlOp
        <3>3. TypesFit(TypeOf[e.right.column], e.left)
            BY <1>4, <2>2
        <3>4. /\ ~LoweringPanics[e.right] /\ ~LoweringPanics[l2]
              /\ e.right.column \in ExprColumns[e.right]
              /\ \A columns : e.right.column \in columns =>
                    /\ OperandTypes(LowerExpr[e.right], columns) = {TypeOf[e.right.column]}
                    /\ OperandTypes(LowerExpr[l2], columns) = {TypeOf[e.right.column]}
            <4>1. e.right \in LogicalOps
                BY <3>1
            <4> QED
                BY <1>1, <2>2, <3>1, <3>3, <4>1, ColumnAndCast
        <3> QED
            BY <3>1, <3>2, <3>4
    <2> QED
        BY <1>3, <2>1, <2>2
<1>9. ~LoweringPanics[Planned(e)]
    BY <1>6, <1>8, LoweringPanicsIs
<1>10. ExprColumns[Planned(e)] = ExprColumns[l2] \cup ExprColumns[r2]
    BY <1>6, ExprColumnsIs
<1>11. ASSUME NEW columns \in SUBSET Columns, ExprColumns[Planned(e)] \subseteq columns
       PROVE  Evaluates(Predicate(e), columns)
    <2>1. PICK col \in Columns :
              /\ OperandTypes(LowerExpr[l2], columns) = {TypeOf[col]}
              /\ OperandTypes(LowerExpr[r2], columns) = {TypeOf[col]}
        BY <1>8, <1>10, <1>11
    <2> QED
        BY <1>7, <2>1, EvaluatesIs
<1> QED
    BY <1>6, <1>9, <1>11

LEMMA ConnectiveAnswerable ==
    ASSUME NEW e \in SqlExpr, e \in Joined("BinaryOp", SqlExpr),
           Answerable(e.left), Answerable(e.right)
    PROVE  Answerable(e)
<1>1. e.node = "BinaryOp" /\ e.op \in {"And", "Or"} /\ e.op \notin CmpOps
      /\ e.left \in SqlExpr /\ e.right \in SqlExpr
    BY JoinedIs
<1>2. SUFFICES ASSUME WellTyped[e], Accepted[e] PROVE
        /\ Planned(e).node = "BinaryOp"
        /\ ~LoweringPanics[Planned(e)]
        /\ \A columns \in SUBSET Columns :
              ExprColumns[Planned(e)] \subseteq columns => Evaluates(Predicate(e), columns)
    BY DEF Answerable
<1> DEFINE l == Planned(e.left)
           r == Planned(e.right)
<1>3. WellTyped[e.left] /\ WellTyped[e.right] /\ Accepted[e.left] /\ Accepted[e.right]
    BY <1>1, <1>2, WellTypedIs, AcceptedIs
<1>4. /\ l.node = "BinaryOp" /\ ~LoweringPanics[l] /\ ~LoweringPanics[r]
      /\ \A columns \in SUBSET Columns :
              /\ ExprColumns[l] \subseteq columns => Evaluates(Predicate(e.left), columns)
              /\ ExprColumns[r] \subseteq columns => Evaluates(Predicate(e.right), columns)
    BY <1>3 DEF Answerable
<1>5. Planned(e) = Bin(l, e.op, r)
    <2>1. ~IsBool(l, TRUE) /\ ~IsBool(l, FALSE)
        BY <1>4 DEF IsBool, IsLitOf, IsLit
    <2>2. Planned(e) = FoldPair(l, e.op, r)
        BY PlannedConnective
    <2> QED
        BY <1>1, <2>1, <2>2, FoldConnective
<1>6. Predicate(e) = Logical(Predicate(e.left), e.op, Predicate(e.right))
    BY <1>5, ConnectiveLowered
<1>7. /\ Planned(e) \in LogicalExpr /\ Planned(e).node = "BinaryOp"
      /\ Planned(e).left = l /\ Planned(e).right = r
    BY <1>5, PlannedTypes DEF Bin
<1>8. /\ Predicate(e) \in PhysicalExpr /\ Predicate(e).node = "Logical"
      /\ Predicate(e).left = Predicate(e.left) /\ Predicate(e).right = Predicate(e.right)
    BY <1>6, PlannedTypes DEF Logical
<1> HIDE DEF l, r
<1>9. ~LoweringPanics[Planned(e)]
    BY <1>4, <1>7, LoweringPanicsIs
<1>10. ExprColumns[Planned(e)] = ExprColumns[l] \cup ExprColumns[r]
    BY <1>7, ExprColumnsIs
<1>11. ASSUME NEW columns \in SUBSET Columns, ExprColumns[Planned(e)] \subseteq columns
       PROVE  Evaluates(Predicate(e), columns)
    <2>1. Evaluates(Predicate(e.left), columns) /\ Evaluates(Predicate(e.right), columns)
        BY <1>4, <1>10, <1>11
    <2> DEFINE p == Predicate(e)
    <2>2. p \in PhysicalExpr /\ p.node = "Logical" /\ Evaluates(p.left, columns) /\ Evaluates(p.right, columns)
        BY <1>8, <2>1
    <2> HIDE DEF p
    <2>3. Evaluates(p, columns)
        BY <2>2, EvaluatesIs
    <2> QED
        BY <2>3 DEF p
<1> QED
    BY <1>7, <1>9, <1>11

\* The analyzer's checks suffice for lowering and for the filter.
LEMMA WellTypedAnswerable == \A e \in SqlExpr : Answerable(e)
<1> DEFINE S == {e \in SqlExpr : Answerable(e)}
<1>1. ASSUME NEW e \in SqlExpr, Sub(e) \subseteq S PROVE e \in S
    <2>1. CASE e \in SqlOps
        <3>1. e.node # "BinaryOp"
            BY <2>1, SqlOp DEF IsCol, IsLit
        <3> QED
            BY <3>1, WellTypedIs DEF Answerable
    <2>2. CASE e \in Compared("BinaryOp", SqlOps)
        BY <2>2, ComparisonAnswerable
    <2>3. CASE e \in Joined("BinaryOp", SqlExpr) /\ Sub(e) = {e.left, e.right}
        <3>1. Answerable(e.left) /\ Answerable(e.right)
            BY <1>1, <2>3
        <3> QED
            BY <2>3, <3>1, ConnectiveAnswerable
    <2> QED
        BY <2>1, <2>2, <2>3, SqlNodes
<1>2. SqlExpr \subseteq S
    <2> HIDE DEF S
    <2> QED
        BY <1>1, SqlGrounded, Induction
<1> QED
    BY <1>2

-----------------------------------------------------------------------------
(***************************************************************************)
(* The plan of a statement                                                 *)
(***************************************************************************)
LEMMA NeverCast == \A e \in SqlExpr : Planned(e).node # "Cast"
<1> DEFINE S == {e \in SqlExpr : Planned(e).node # "Cast"}
<1>1. ASSUME NEW e \in SqlExpr, Sub(e) \subseteq S PROVE e \in S
    <2>1. CASE e \in SqlOps
        <3>1. IsLit(e) => IsLit(LowerLiteral(e))
            BY <2>1, SqlOp, LowerLiteralIs
        <3> QED
            BY <2>1, <3>1, PlannedOperand, SqlOp DEF IsCol, IsLit
    <2>2. CASE e \in Compared("BinaryOp", SqlOps)
        BY <2>2, PlannedComparison DEF Lit, Bin
    <2>3. CASE e \in Joined("BinaryOp", SqlExpr) /\ Sub(e) = {e.left, e.right}
        <3>1. Planned(e.left).node # "Cast" /\ Planned(e.right).node # "Cast"
            BY <1>1, <2>3
        <3>2. Planned(e) = FoldPair(Planned(e.left), e.op, Planned(e.right)) /\ e.op \in {"And", "Or"}
            BY <2>3, PlannedConnective, JoinedIs
        <3>3. \/ Planned(e) = Planned(e.left) \/ Planned(e) = Planned(e.right)
              \/ Planned(e) = Bin(Planned(e.left), e.op, Planned(e.right))
            BY <3>2, FoldConnective
        <3> QED
            BY <3>1, <3>3 DEF Bin
    <2> QED
        BY <2>1, <2>2, <2>3, SqlNodes
<1>2. SqlExpr \subseteq S
    <2> HIDE DEF S
    <2> QED
        BY <1>1, SqlGrounded, Induction
<1> QED
    BY <1>2

\* What EliminateTrueFilter of the physical plan removes, that of the logical plan has removed.
LEMMA TrueStaysTrue ==
    ASSUME NEW e \in SqlExpr, IsBool(Predicate(e), TRUE)
    PROVE  IsBool(Planned(e), TRUE)
<1> DEFINE x == Planned(e)
<1>1. x \in LogicalExpr /\ x.node # "Cast"
    BY PlannedTypes, NeverCast
<1>2. IsBool(LowerExpr[x], TRUE)
    BY DEF Predicate
<1> HIDE DEF x
<1>3. LowerExpr[x].node = "Literal" /\ LowerExpr[x].kind = "Bool" /\ LowerExpr[x].val = Truth(TRUE)
    BY <1>2 DEF IsBool, IsLitOf, IsLit
<1>4. x.node = "Literal"
    <2>1. x.node \in {"Column", "Literal", "BinaryOp"}
        BY <1>1, LogicalCases DEF LogicalExpr, LogicalOver, IsCol, IsLit
    <2>2. CASE x.node = "Column"
        BY <1>1, <1>3, <2>2, LowerExprIs
    <2>3. CASE x.node = "BinaryOp"
        <3>1. \A l, op, r : Compare(l, op, r).node # "Literal" /\ Logical(l, op, r).node # "Literal"
            BY DEF Compare, Logical
        <3>2. LowerExpr[x] = IF x.op \in CmpOps THEN Compare(LowerExpr[x.left], x.op, LowerExpr[x.right])
                             ELSE Logical(LowerExpr[x.left], x.op, LowerExpr[x.right])
            BY <1>1, <2>3, LowerExprIs
        <3> QED
            BY <1>3, <3>1, <3>2
    <2> QED
        BY <2>1, <2>2, <2>3
<1>5. LowerExpr[x] = PhysicalLiteral(x)
    BY <1>1, <1>4, LowerExprIs
<1>6. x.val = Truth(TRUE) /\ x.kind = "Bool"
    <2>1. PhysicalLiteral(x).val = x.val
        BY DEF PhysicalLiteral, Lit
    <2>2. x.kind \in {"Int", "Float"} => PhysicalLiteral(x).kind # "Bool"
        BY DEF PhysicalLiteral, Lit
    <2>3. x.kind \notin {"Int", "Float"} => PhysicalLiteral(x).kind = x.kind
        BY DEF PhysicalLiteral, Lit
    <2> QED
        BY <1>3, <1>5, <2>1, <2>2, <2>3
<1> QED
    BY <1>4, <1>6 DEF IsBool, IsLitOf, IsLit, x

\* A filter is a sequence of at most one predicate.
LEMMA MappedIs ==
    ASSUME NEW filter, NEW f
    PROVE  /\ DOMAIN Mapped(filter, f) = DOMAIN filter
           /\ \A k \in DOMAIN filter : Mapped(filter, f)[k] = f[filter[k]]
BY DEF Mapped

\* A statement has at most one clause.
LEMMA StatementWhere ==
    ASSUME NEW q \in Queries
    PROVE  /\ q.select \in SUBSET Columns
           /\ \/ DOMAIN q.where = {}
              \/ DOMAIN q.where = {1} /\ q.where[1] \in SqlExpr /\ Stated[q.where[1]]
<1>1. /\ q.select \subseteq Columns /\ q.where \in Seq(SqlExpr) /\ Len(q.where) <= 1
      /\ \A k \in DOMAIN q.where : Stated[q.where[k]]
    BY WhereAssumption
<1>2. Len(q.where) \in {0, 1} /\ DOMAIN q.where = 1..Len(q.where)
    <2>1. Len(q.where) \in Nat /\ DOMAIN q.where = 1..Len(q.where)
        BY <1>1
    <2>2. \A n \in Nat : n <= 1 => n \in {0, 1}
        OBVIOUS
    <2> QED
        BY <1>1, <2>1, <2>2
<1>3. CASE Len(q.where) = 0
    BY <1>1, <1>2, <1>3
<1>4. CASE Len(q.where) = 1
    <2>1. DOMAIN q.where = {1}
        BY <1>2, <1>4
    <2> QED
        BY <1>1, <2>1
<1> QED
    BY <1>1, <1>2, <1>3, <1>4

\* The filter of the logical plan, after its optimizer.
Optimized(q) == OptimizeLogical(Mapped(q.where, LowerSql))

LEMMA EmptyMapped ==
    ASSUME NEW filter, NEW f, DOMAIN filter = {}
    PROVE  Mapped(filter, f) = <<>>
BY DEF Mapped

LEMMA NotEmpty ==
    ASSUME NEW filter, 1 \in DOMAIN filter
    PROVE  filter # <<>>
OBVIOUS

\* OptimizeLogical of a statement: there is no predicate, or the one that is planned.
LEMMA OptimizedIs ==
    ASSUME NEW q \in Queries
    PROVE  \/ DOMAIN q.where = {} /\ Optimized(q) = <<>>
           \/ DOMAIN q.where = {1} /\ IsBool(Planned(q.where[1]), TRUE) /\ Optimized(q) = <<>>
           \/ /\ DOMAIN q.where = {1} /\ ~IsBool(Planned(q.where[1]), TRUE)
              /\ DOMAIN Optimized(q) = {1} /\ Optimized(q)[1] = Planned(q.where[1])
<1> DEFINE x == Mapped(q.where, LowerSql)
           y == Mapped(x, Coerce)
           z == Mapped(y, Fold)
<1>1. DOMAIN x = DOMAIN q.where /\ DOMAIN y = DOMAIN x /\ DOMAIN z = DOMAIN y
    BY MappedIs
<1>2. Optimized(q) = EliminateTrue(z)
    BY DEF Optimized, OptimizeLogical
<1>3. CASE DOMAIN q.where = {}
    <2>1. z = <<>>
        BY <1>1, <1>3, EmptyMapped
    <2>2. DOMAIN z = {}
        BY <1>1, <1>3
    <2> HIDE DEF z
    <2>3. Optimized(q) = <<>>
        BY <1>2, <2>1, <2>2 DEF EliminateTrue
    <2> QED
        BY <1>3, <2>3
<1>4. CASE DOMAIN q.where = {1}
    <2>1. x[1] = LowerSql[q.where[1]]
        BY <1>1, <1>4, MappedIs
    <2>2. y[1] = Coerce[x[1]]
        BY <1>1, <1>4, MappedIs
    <2>3. z[1] = Fold[y[1]]
        BY <1>1, <1>4, MappedIs
    <2>4. z[1] = Planned(q.where[1]) /\ DOMAIN z = {1}
        BY <1>1, <1>4, <2>1, <2>2, <2>3 DEF Planned
    <2> HIDE DEF z
    <2>5. IF IsBool(Planned(q.where[1]), TRUE) THEN Optimized(q) = <<>> ELSE Optimized(q) = z
        BY <1>2, <2>4 DEF EliminateTrue
    <2> QED
        BY <1>4, <2>4, <2>5
<1> QED
    BY <1>3, <1>4, StatementWhere

\* The physical plan p of a statement q: without a filter, if every row satisfies
\* its WHERE clause, and otherwise with the predicate of its clause.
RightPlan(q, p) ==
    /\ p.columns \in SUBSET Columns
    /\ \/ /\ DOMAIN p.filter = {} /\ p.scan = "FullScan"
          /\ \A row : \A k \in DOMAIN q.where : Satisfies(row, q.where[k])
       \/ /\ DOMAIN q.where = {1} /\ q.where[1] \in SqlExpr /\ Stated[q.where[1]]
          /\ DOMAIN p.filter = {1} /\ p.filter[1] = Predicate(q.where[1])
          /\ p.scan = "ZoneMapScan"
          /\ ExprColumns[Planned(q.where[1])] \subseteq p.columns

\* The scan's columns are those of the table.
LEMMA ColumnsOfTable ==
    \A e \in LogicalExpr : ExprColumns[e] \in SUBSET Columns
<1> DEFINE S == {e \in LogicalExpr : ExprColumns[e] \in SUBSET Columns}
<1>1. ASSUME NEW e \in LogicalExpr, Sub(e) \subseteq S PROVE e \in S
    <2>1. CASE e.node = "Column"
        <3>1. e.column \in Columns
            BY <2>1, LogicalCases DEF LogicalExpr, LogicalOver, IsCol, IsLit
        <3> QED
            BY <2>1, <3>1, ExprColumnsIs
    <2>2. CASE e.node = "Literal"
        BY <2>2, ExprColumnsIs
    <2>3. CASE e.node = "Cast"
        <3>1. e.expr \in S
            BY <1>1, <2>3, LogicalParts
        <3> QED
            BY <2>3, <3>1, ExprColumnsIs
    <2>4. CASE e.node = "BinaryOp"
        <3>1. e.left \in S /\ e.right \in S
            BY <1>1, <2>4, LogicalParts
        <3> QED
            BY <2>4, <3>1, ExprColumnsIs
    <2> QED
        BY <2>1, <2>2, <2>3, <2>4, LogicalCases DEF LogicalExpr, LogicalOver, IsCol, IsLit
<1>2. LogicalExpr \subseteq S
    <2> HIDE DEF S
    <2> QED
        BY <1>1, LogicalGrounded, Induction
<1> QED
    BY <1>2

\* What run_select makes of every statement.
LEMMA PlanIsRight ==
    ASSUME NEW q \in Queries
    PROVE  RightPlan(q, PhysicalPlan(Optimized(q), q.select))
<1> DEFINE x == Optimized(q)
           f == Mapped(x, LowerExpr)
           columns == CollectColumns(x, q.select)
           p == PhysicalPlan(x, q.select)
<1>1. p = PushDown(EliminateTrue(f), columns)
    BY DEF PhysicalPlan, OptimizePhysical
<1>2. \A g : /\ PushDown(g, columns).filter = g /\ PushDown(g, columns).columns = columns
             /\ PushDown(g, columns).scan = IF g = <<>> THEN "FullScan" ELSE "ZoneMapScan"
    BY DEF PushDown
<1>3. q.select \in SUBSET Columns
    BY StatementWhere
<1>4. CASE x = <<>> /\ \A row : \A k \in DOMAIN q.where : Satisfies(row, q.where[k])
    <2>1. DOMAIN x = {}
        BY <1>4
    <2>2. f = <<>>
        BY <2>1, EmptyMapped
    <2>3. EliminateTrue(f) = <<>>
        BY <2>2 DEF EliminateTrue
    <2>4. columns \in SUBSET Columns
        BY <1>3, <2>1 DEF CollectColumns
    <2>5. DOMAIN <<>> = {}
        OBVIOUS
    <2> HIDE DEF x, f, columns, p
    <2>6. DOMAIN p.filter = {} /\ p.scan = "FullScan" /\ p.columns = columns
        BY <1>1, <1>2, <2>3, <2>5
    <2>7. RightPlan(q, p)
        BY <1>4, <2>4, <2>6 DEF RightPlan
    <2> QED
        BY <2>7 DEF p, x
<1>5. CASE /\ DOMAIN q.where = {1} /\ ~IsBool(Planned(q.where[1]), TRUE)
           /\ DOMAIN x = {1} /\ x[1] = Planned(q.where[1])
    <2>1. q.where[1] \in SqlExpr /\ Stated[q.where[1]]
        BY <1>5, StatementWhere
    <2>2. DOMAIN f = {1} /\ f[1] = Predicate(q.where[1])
        BY <1>5, MappedIs DEF Predicate
    <2>3. ~IsBool(f[1], TRUE)
        BY <1>5, <2>1, <2>2, TrueStaysTrue
    <2>4. EliminateTrue(f) = f
        BY <2>2, <2>3 DEF EliminateTrue
    <2>5. f # <<>>
        BY <2>2, NotEmpty
    <2>6. columns = q.select \cup ExprColumns[Planned(q.where[1])]
        BY <1>5 DEF CollectColumns
    <2>7. Planned(q.where[1]) \in LogicalExpr
        BY <2>1, PlannedTypes
    <2>8. columns \in SUBSET Columns /\ ExprColumns[Planned(q.where[1])] \subseteq columns
        BY <1>3, <2>6, <2>7, ColumnsOfTable
    <2> HIDE DEF x, f, columns, p
    <2>9. p.filter = f /\ p.scan = "ZoneMapScan" /\ p.columns = columns
        BY <1>1, <1>2, <2>4, <2>5
    <2>10. RightPlan(q, p)
        BY <1>5, <2>1, <2>2, <2>8, <2>9 DEF RightPlan
    <2> QED
        BY <2>10 DEF p, x
<1>6. ASSUME DOMAIN q.where = {1}, IsBool(Planned(q.where[1]), TRUE)
      PROVE  \A row : \A k \in DOMAIN q.where : Satisfies(row, q.where[k])
    <2>1. q.where[1] \in SqlExpr /\ Stated[q.where[1]]
        BY <1>6, StatementWhere
    <2>2. ASSUME NEW row PROVE Satisfies(row, q.where[1])
        BY <1>6, <2>1, PlanningKeepsMeaning DEF SameMeaning
    <2> QED
        BY <1>6, <2>2
<1> HIDE DEF x, p
<1> QED
    BY <1>4, <1>5, <1>6, OptimizedIs DEF x, p

-----------------------------------------------------------------------------
(***************************************************************************)
(* The invariant: the parts that are still to do are the oldest ones, and  *)
(* the answer has what the query wants of all the others.                  *)
(***************************************************************************)
\* The parts m, m - 1, ..., 1.
Countdown(m) == [k \in 1..m |-> m + 1 - k]

\* A query that has started lists its parts after the inserts, and runs with
\* the right plan if the analyzer has accepted it.
Started == /\ query \in Queries
           /\ ~writing
           /\ outcome \in {"running", "error", "done"} =>
                 /\ \A k \in DOMAIN query.where : Accepted[query.where[k]]
                 /\ RightPlan(query, plan)

\* The answer so far, with the parts 1..m to do.
AnswerSoFar(m) ==
    /\ todo = Countdown(m)
    /\ answer \subseteq UNION {RowsOf(i) : i \in 1..Len(parts)}
    /\ outcome # "none" /\ OrdinaryTable => answer = UNION {Wanted(i) : i \in (m + 1)..Len(parts)}
    /\ outcome = "done" => m = 0

\* The inductive invariant.
WInv == /\ IInv
        /\ query \in Queries \cup {NoQuery}
        /\ outcome \in Outcomes
        /\ plan.scan \in {"FullScan", "ZoneMapScan"}
        /\ plan.columns \subseteq Columns
        /\ outcome = "none" => todo = <<>> /\ answer = {} /\ query = NoQuery
        /\ outcome # "none" => Started
        /\ \E m \in 0..Len(parts) : AnswerSoFar(m)
        /\ WellTypedIsAnswered

LEMMA PartsCounted ==
    ASSUME IInv
    PROVE  Len(parts) \in Nat
BY DEF IInv

LEMMA CountdownFacts ==
    ASSUME NEW m \in Nat
    PROVE  /\ DOMAIN Countdown(m) = 1..m /\ Len(Countdown(m)) = m
           /\ Countdown(m) = <<>> <=> m = 0
           /\ m # 0 => /\ Head(Countdown(m)) = m
                       /\ Tail(Countdown(m)) = Countdown(m - 1)
           /\ Countdown(m) \in Seq(1..m)
<1>1. Countdown(m) \in [1..m -> 1..m]
    BY DEF Countdown
<1>2. Countdown(m) \in Seq(1..m) /\ Len(Countdown(m)) = m /\ DOMAIN Countdown(m) = 1..m
    BY <1>1
<1>3. Countdown(m) = <<>> <=> m = 0
    BY <1>2
<1>4. ASSUME m # 0 PROVE Head(Countdown(m)) = m /\ Tail(Countdown(m)) = Countdown(m - 1)
    <2>1. Head(Countdown(m)) = Countdown(m)[1] /\ Countdown(m)[1] = m
        BY <1>2, <1>4 DEF Countdown
    <2>2. Tail(Countdown(m)) = [k \in 1..(m - 1) |-> Countdown(m)[k + 1]]
        <3>1. Countdown(m) # <<>>
            BY <1>3, <1>4
        <3>2. /\ Tail(Countdown(m)) \in Seq(1..m) /\ Len(Tail(Countdown(m))) = m - 1
              /\ \A k \in 1..Len(Tail(Countdown(m))) : Tail(Countdown(m))[k] = Countdown(m)[k + 1]
            <4> HIDE DEF Countdown
            <4> QED
                BY <1>2, <3>1, HeadTailProperties
        <3> DEFINE t == Tail(Countdown(m))
        <3> HIDE DEF t
        <3>3. t \in [1..Len(t) -> 1..m]
            <4>1. t \in Seq(1..m)
                BY <3>2 DEF t
            <4> QED
                BY <4>1
        <3>4. Tail(Countdown(m)) \in [1..(m - 1) -> 1..m]
            BY <3>2, <3>3 DEF t
        <3> QED
            BY <3>2, <3>4
    <2>3. ASSUME NEW k \in 1..(m - 1) PROVE Countdown(m)[k + 1] = (m - 1) + 1 - k
        <3>1. k + 1 \in 1..m /\ m + 1 - (k + 1) = (m - 1) + 1 - k
            OBVIOUS
        <3> QED
            BY <3>1 DEF Countdown
    <2>4. Tail(Countdown(m)) = Countdown(m - 1)
        BY <2>2, <2>3 DEF Countdown
    <2> QED
        BY <2>1, <2>4
<1> QED
    BY <1>2, <1>3, <1>4

LEMMA WInitInv == Init => WInv
<1> SUFFICES ASSUME Init PROVE WInv
    OBVIOUS
<1>1. IInv
    BY InitIInv DEF Init
<1>2. /\ query = NoQuery /\ outcome = "none" /\ plan = PushDown(<<>>, {})
      /\ todo = <<>> /\ answer = {}
    BY DEF Init
<1>3. parts = <<>> /\ Len(parts) = 0
    BY DEF Init, ZoneInit
<1>4. plan.scan = "FullScan" /\ plan.columns = {}
    BY <1>2 DEF PushDown
<1>5. AnswerSoFar(0)
    BY <1>2, CountdownFacts DEF AnswerSoFar
<1>6. 0 \in 0..Len(parts)
    BY <1>3
<1>7. WellTypedIsAnswered
    BY <1>2 DEF WellTypedIsAnswered
<1> QED
    BY <1>1, <1>2, <1>4, <1>5, <1>6, <1>7 DEF WInv, Outcomes

LEMMA StepInsert ==
    ASSUME WInv, InsertPart
    PROVE  WInv'
<1>1. outcome = "none" /\ Insert /\ UNCHANGED queryVars
    BY DEF InsertPart
<1>2. IInv'
    BY <1>1, NextIInv DEF WInv
<1>3. /\ query' = query /\ outcome' = "none" /\ plan' = plan /\ todo' = <<>> /\ answer' = {}
      /\ query = NoQuery
    BY <1>1 DEF queryVars, WInv
<1>4. AnswerSoFar(0)'
    <2>1. Countdown(0) = <<>>
        BY CountdownFacts
    <2> QED
        BY <1>3, <2>1 DEF AnswerSoFar
<1>5. 0 \in 0..Len(parts')
    BY <1>2 DEF IInv
<1>6. WellTypedIsAnswered'
    BY <1>3 DEF WellTypedIsAnswered
<1>7. /\ plan'.scan \in {"FullScan", "ZoneMapScan"} /\ plan'.columns \subseteq Columns
      /\ query' \in Queries \cup {NoQuery} /\ outcome' \in Outcomes
    BY <1>1, <1>3 DEF WInv, Outcomes
<1>8. \E m \in 0..Len(parts') : AnswerSoFar(m)'
    BY <1>4, <1>5
<1> QED
    BY <1>2, <1>3, <1>6, <1>7, <1>8 DEF WInv

LEMMA StepStart ==
    ASSUME WInv, NEW q \in Queries, Start(q)
    PROVE  WInv'
<1> DEFINE panics == \E k \in DOMAIN Optimized(q) : LoweringPanics[Optimized(q)[k]]
           accepted == \A k \in DOMAIN q.where : Accepted[q.where[k]]
<1>1. /\ outcome = "none" /\ ~writing
      /\ query' = q
      /\ outcome' = CASE ~accepted -> "rejected"
                      [] accepted /\ panics -> "panicked"
                      [] OTHER -> "running"
      /\ plan' = IF accepted /\ ~panics THEN PhysicalPlan(Optimized(q), q.select) ELSE plan
      /\ todo' = WorkSource
      /\ answer' = answer /\ zoneVars' = zoneVars
    BY DEF Start, Optimized
<1>2. parts' = parts /\ writing' = writing /\ IInv' /\ answer = {}
    BY <1>1, NextIInv DEF WInv, zoneVars, insertVars
<1>3. \/ ~accepted /\ outcome' = "rejected" /\ plan' = plan
      \/ accepted /\ panics /\ outcome' = "panicked" /\ plan' = plan
      \/ accepted /\ ~panics /\ outcome' = "running" /\ plan' = PhysicalPlan(Optimized(q), q.select)
    <2> HIDE DEF accepted, panics
    <2>1. CASE ~accepted
        BY <1>1, <2>1
    <2>2. CASE accepted /\ panics
        BY <1>1, <2>2
    <2>3. CASE accepted /\ ~panics
        BY <1>1, <2>3
    <2> QED
        BY <2>1, <2>2, <2>3
<1>4. RightPlan(q, PhysicalPlan(Optimized(q), q.select))
    BY PlanIsRight
<1>5. outcome' \in {"rejected", "panicked", "running"}
    BY <1>3
<1>6. outcome' \in Outcomes /\ outcome' # "none" /\ outcome' # "done"
    BY <1>5 DEF Outcomes
<1>7. plan'.scan \in {"FullScan", "ZoneMapScan"} /\ plan'.columns \subseteq Columns
    BY <1>3, <1>4 DEF RightPlan, WInv
<1>8. Started'
    <2>1. outcome' \in {"running", "error", "done"} => accepted /\ RightPlan(q, plan')
        <3> HIDE DEF accepted, panics
        <3> QED
            BY <1>3, <1>4, <1>5
    <2>2. query' \in Queries /\ ~writing'
        BY <1>1, <1>2
    <2>3. query' = q
        BY <1>1
    <2> QED
        BY <2>1, <2>2, <2>3 DEF Started
<1>9. AnswerSoFar(Len(parts))'
    <2>1. Len(parts) \in Nat
        BY PartsCounted DEF WInv
    <2>2. todo' = Countdown(Len(parts))
        BY <1>1 DEF WorkSource, Countdown
    <2>3. (Len(parts) + 1)..Len(parts) = {}
        BY <2>1
    <2>4. UNION {Wanted(i)' : i \in (Len(parts) + 1)..Len(parts)} = {}
        BY <2>3
    <2> QED
        BY <1>2, <1>1, <1>6, <2>2, <2>4 DEF AnswerSoFar
<1>10. Len(parts) \in 0..Len(parts')
    BY <1>2, PartsCounted DEF WInv
<1>11. WellTypedIsAnswered'
    <2>1. ASSUME \A k \in DOMAIN q.where : WellTyped[q.where[k]], accepted, panics
          PROVE  FALSE
        <3>1. CASE Optimized(q) = <<>>
            BY <2>1, <3>1
        <3>2. CASE /\ DOMAIN q.where = {1}
                   /\ DOMAIN Optimized(q) = {1} /\ Optimized(q)[1] = Planned(q.where[1])
            <4>1. /\ q.where[1] \in SqlExpr /\ WellTyped[q.where[1]] /\ Accepted[q.where[1]]
                  /\ LoweringPanics[Planned(q.where[1])]
                BY <2>1, <3>2, StatementWhere
            <4> QED
                BY <4>1, WellTypedAnswerable DEF Answerable
        <3> QED
            BY <3>1, <3>2, OptimizedIs
    <2> HIDE DEF panics, accepted
    <2>2. (\A k \in DOMAIN q.where : WellTyped[q.where[k]]) => outcome' \notin {"panicked", "error"}
        BY <1>3, <1>5, <2>1
    <2> QED
        BY <1>1, <2>2 DEF WellTypedIsAnswered
<1> HIDE DEF panics, accepted
<1> QED
    BY <1>1, <1>2, <1>6, <1>7, <1>8, <1>9, <1>10, <1>11 DEF WInv

\* FilterExec returns the rows that the statement wants.
LEMMA RowsRead ==
    ASSUME Started, outcome = "running", NEW i,
           \A k \in DOMAIN plan.filter : Evaluates(plan.filter[k], plan.columns)
    PROVE  {r \in RowsOf(i) : \A k \in DOMAIN plan.filter :
                Passes(plan.filter[k], parts[r[1]].rows[r[2]])} = Wanted(i)
<1>1. ASSUME NEW r \in RowsOf(i) PROVE r[1] = i
    BY DEF RowsOf
<1>2. ASSUME NEW row
      PROVE  (\A k \in DOMAIN plan.filter : Passes(plan.filter[k], row))
                 <=> (\A k \in DOMAIN query.where : Satisfies(row, query.where[k]))
    <2>1. CASE DOMAIN plan.filter = {} /\ \A k \in DOMAIN query.where : Satisfies(row, query.where[k])
        BY <2>1
    <2>2. CASE /\ DOMAIN query.where = {1} /\ query.where[1] \in SqlExpr /\ Stated[query.where[1]]
               /\ DOMAIN plan.filter = {1} /\ plan.filter[1] = Predicate(query.where[1])
        <3>1. Evaluates(Predicate(query.where[1]), plan.columns)
            BY <2>2
        <3>2. Passes(Predicate(query.where[1]), row) <=> Satisfies(row, query.where[1])
            BY <2>2, <3>1, PlanningKeepsMeaning DEF SameMeaning
        <3> QED
            BY <2>2, <3>2
    <2> QED
        BY <2>1, <2>2 DEF Started, RightPlan
<1>3. ASSUME NEW r \in RowsOf(i)
      PROVE  (\A k \in DOMAIN plan.filter : Passes(plan.filter[k], parts[r[1]].rows[r[2]]))
                 <=> (\A k \in DOMAIN query.where : Satisfies(parts[i].rows[r[2]], query.where[k]))
    BY <1>1, <1>2
<1> QED
    BY <1>3 DEF Wanted

LEMMA PartRows ==
    ASSUME IInv, NEW i \in 1..Len(parts)
    PROVE  DOMAIN parts[i].rows = 1..Len(parts[i].rows)
<1>1. parts[i] \in WholeParts
    BY DEF IInv
<1>2. parts[i].rows \in Seq(Row)
    BY <1>1 DEF WholeParts
<1> QED
    BY <1>2

\* ZoneMapScanExec skips no part with a row that the statement wants.
LEMMA NothingSkipped ==
    ASSUME IInv, Started, outcome = "running", plan.scan = "ZoneMapScan", OrdinaryTable,
           NEW i \in 1..Len(parts),
           CanSkip(plan.filter[1], ReadZoneMap(parts[i].zonemap))
    PROVE  Wanted(i) = {}
<1>1. /\ DOMAIN query.where = {1} /\ query.where[1] \in SqlExpr /\ Stated[query.where[1]]
      /\ plan.filter[1] = Predicate(query.where[1])
    BY DEF Started, RightPlan
<1>2. DOMAIN parts = 1..Len(parts)
    BY DEF IInv
<1>3. \A c \in ExprColumns[LowerSql[query.where[1]]] : OrdinaryColumn(parts[i].rows, c)
    BY <1>1, <1>2 DEF OrdinaryTable
<1>4. \A k \in 1..Len(parts[i].rows) : ~Satisfies(parts[i].rows[k], query.where[1])
    BY <1>1, <1>3, SkipsSatisfyNothing DEF SkippedSoundly
<1>5. DOMAIN parts[i].rows = 1..Len(parts[i].rows)
    BY PartRows
<1>6. ASSUME NEW r \in RowsOf(i) PROVE r[2] \in 1..Len(parts[i].rows)
    BY <1>5 DEF RowsOf
<1> QED
    BY <1>1, <1>4, <1>6 DEF Wanted

\* A part is done: the statement's rows of it are in the answer.
LEMMA PartDone ==
    ASSUME WInv, outcome = "running", todo # <<>>, todo' = Tail(todo),
           NEW S \in SUBSET RowsOf(Head(todo)), OrdinaryTable => S = Wanted(Head(todo)),
           answer' = answer \cup S, UNCHANGED <<query, outcome, plan, zoneVars>>
    PROVE  WInv'
<1>1. /\ parts' = parts /\ writing' = writing /\ query' = query /\ plan' = plan
      /\ outcome' = "running" /\ UNCHANGED zoneVars
    BY DEF zoneVars, insertVars
<1>2. IInv'
    BY <1>1, NextIInv DEF WInv
<1>3. Started'
    BY <1>1 DEF Started, WInv
<1>4. PICK m \in 0..Len(parts) : AnswerSoFar(m)
    BY DEF WInv
<1>5. m \in Nat /\ Len(parts) \in Nat
    BY PartsCounted DEF WInv
<1>6. m # 0 /\ Head(todo) = m /\ todo' = Countdown(m - 1)
    BY <1>4, <1>5, CountdownFacts DEF AnswerSoFar
<1>7. m - 1 \in 0..Len(parts') /\ m \in 1..Len(parts)
    BY <1>1, <1>5, <1>6
<1>8. /\ OrdinaryTable' <=> OrdinaryTable
      /\ \A i : Wanted(i)' = Wanted(i) /\ RowsOf(i)' = RowsOf(i)
    BY <1>1 DEF OrdinaryTable, Wanted, RowsOf
<1>9. AnswerSoFar(m - 1)'
    <2>1. answer' \subseteq UNION {RowsOf(i) : i \in 1..Len(parts)}
        BY <1>4, <1>6, <1>7 DEF AnswerSoFar
    <2>2. ASSUME OrdinaryTable
          PROVE  answer' = UNION {Wanted(i) : i \in ((m - 1) + 1)..Len(parts)}
        <3>1. answer = UNION {Wanted(i) : i \in (m + 1)..Len(parts)}
            BY <1>4, <2>2 DEF AnswerSoFar
        <3>2. answer' = answer \cup Wanted(m)
            BY <1>6, <2>2
        <3>3. ((m - 1) + 1)..Len(parts) = ((m + 1)..Len(parts)) \cup {m}
            BY <1>5, <1>7
        <3> QED
            BY <3>1, <3>2, <3>3
    <2>3. UNION {RowsOf(i)' : i \in 1..Len(parts')} = UNION {RowsOf(i) : i \in 1..Len(parts)}
        BY <1>1, <1>8
    <2>4. \A n : UNION {Wanted(i)' : i \in n..Len(parts')} = UNION {Wanted(i) : i \in n..Len(parts)}
        BY <1>1, <1>8
    <2>5. todo' = Countdown(m - 1) /\ outcome' # "done"
        BY <1>1, <1>6
    <2> QED
        BY <1>8, <2>1, <2>2, <2>3, <2>4, <2>5 DEF AnswerSoFar
<1>10. WellTypedIsAnswered'
    BY <1>1 DEF WellTypedIsAnswered
<1>11. \E n \in 0..Len(parts') : AnswerSoFar(n)'
    BY <1>7, <1>9
<1> QED
    BY <1>1, <1>2, <1>3, <1>10, <1>11 DEF WInv, Outcomes

LEMMA StepSkipPart ==
    ASSUME WInv, SkipPart
    PROVE  WInv'
<1>1. Started
    BY DEF WInv, SkipPart
<1>2. Head(todo) \in 1..Len(parts)
    <2>1. PICK m \in 0..Len(parts) : AnswerSoFar(m)
        BY DEF WInv
    <2>2. m \in Nat /\ Len(parts) \in Nat
        BY PartsCounted DEF WInv
    <2>3. m # 0 /\ Head(todo) = m
        BY <2>1, <2>2, CountdownFacts DEF AnswerSoFar, SkipPart
    <2> QED
        BY <2>2, <2>3
<1>3. OrdinaryTable => Wanted(Head(todo)) = {}
    BY <1>1, <1>2, NothingSkipped DEF SkipPart, WInv
<1>4. /\ outcome = "running" /\ todo # <<>> /\ todo' = Tail(todo)
      /\ answer' = answer \cup {} /\ UNCHANGED <<query, outcome, plan, zoneVars>>
    BY DEF SkipPart
<1>5. {} \in SUBSET RowsOf(Head(todo))
    OBVIOUS
<1> QED
    BY <1>3, <1>4, <1>5, PartDone

LEMMA StepReadPart ==
    ASSUME WInv, ReadPart
    PROVE  WInv'
<1> DEFINE S == {r \in RowsOf(Head(todo)) : \A k \in DOMAIN plan.filter :
                     Passes(plan.filter[k], parts[r[1]].rows[r[2]])}
<1>1. Started
    BY DEF WInv, ReadPart
<1>2. S = Wanted(Head(todo))
    BY <1>1, RowsRead DEF ReadPart
<1>3. /\ outcome = "running" /\ todo # <<>> /\ todo' = Tail(todo)
      /\ answer' = answer \cup S /\ UNCHANGED <<query, outcome, plan, zoneVars>>
    BY DEF ReadPart
<1>4. S \in SUBSET RowsOf(Head(todo))
    OBVIOUS
<1> HIDE DEF S
<1> QED
    BY <1>2, <1>3, <1>4, PartDone

\* The analyzer lets no well-typed clause through that the filter fails on.
LEMMA StepFilterFails ==
    ASSUME WInv, FilterFails
    PROVE  WInv'
<1>1. /\ outcome = "running" /\ outcome' = "error" /\ query' = query /\ plan' = plan
      /\ todo' = todo /\ answer' = answer /\ zoneVars' = zoneVars
    BY DEF FilterFails
<1>2. IInv' /\ parts' = parts /\ writing' = writing
    BY <1>1, NextIInv DEF WInv, zoneVars, insertVars
<1>3. Started'
    BY <1>1, <1>2 DEF Started, WInv
<1>4. PICK m \in 0..Len(parts) : AnswerSoFar(m)
    BY DEF WInv
<1>5. AnswerSoFar(m)'
    <2>1. /\ OrdinaryTable' <=> OrdinaryTable
          /\ \A i : Wanted(i)' = Wanted(i) /\ RowsOf(i)' = RowsOf(i)
        BY <1>1, <1>2 DEF OrdinaryTable, Wanted, RowsOf
    <2>2. UNION {RowsOf(i)' : i \in 1..Len(parts')} = UNION {RowsOf(i) : i \in 1..Len(parts)}
        BY <1>2, <2>1
    <2>3. UNION {Wanted(i)' : i \in (m + 1)..Len(parts')} = UNION {Wanted(i) : i \in (m + 1)..Len(parts)}
        BY <1>2, <2>1
    <2> QED
        BY <1>1, <1>4, <2>1, <2>2, <2>3 DEF AnswerSoFar
<1>6. WellTypedIsAnswered'
    <2>1. SUFFICES ASSUME \A k \in DOMAIN query.where : WellTyped[query.where[k]] PROVE FALSE
        BY <1>1 DEF WellTypedIsAnswered
    <2>2. PICK k \in DOMAIN plan.filter : ~Evaluates(plan.filter[k], plan.columns)
        BY DEF FilterFails
    <2>3. /\ Started /\ RightPlan(query, plan)
          /\ \A n \in DOMAIN query.where : Accepted[query.where[n]]
        BY <1>1 DEF WInv, Started
    <2>4. /\ DOMAIN query.where = {1} /\ query.where[1] \in SqlExpr
          /\ plan.columns \in SUBSET Columns
          /\ k = 1 /\ plan.filter[1] = Predicate(query.where[1])
          /\ ExprColumns[Planned(query.where[1])] \subseteq plan.columns
        BY <2>2, <2>3 DEF RightPlan
    <2>5. WellTyped[query.where[1]] /\ Accepted[query.where[1]]
        BY <2>1, <2>3, <2>4
    <2>6. Evaluates(Predicate(query.where[1]), plan.columns)
        BY <2>4, <2>5, WellTypedAnswerable DEF Answerable
    <2> QED
        BY <2>2, <2>4, <2>6
<1>7. \E n \in 0..Len(parts') : AnswerSoFar(n)'
    BY <1>2, <1>4, <1>5
<1> QED
    BY <1>1, <1>2, <1>3, <1>6, <1>7 DEF WInv, Outcomes

LEMMA StepFinish ==
    ASSUME WInv, Finish
    PROVE  WInv'
<1>1. /\ outcome = "running" /\ outcome' = "done" /\ todo = <<>> /\ query' = query
      /\ plan' = plan /\ todo' = todo /\ answer' = answer /\ zoneVars' = zoneVars
    BY DEF Finish
<1>2. IInv' /\ parts' = parts /\ writing' = writing
    BY <1>1, NextIInv DEF WInv, zoneVars, insertVars
<1>3. Started'
    BY <1>1, <1>2 DEF Started, WInv
<1>4. PICK m \in 0..Len(parts) : AnswerSoFar(m)
    BY DEF WInv
<1>5. m = 0
    <2>1. m \in Nat
        BY PartsCounted DEF WInv
    <2> QED
        BY <1>1, <1>4, <2>1, CountdownFacts DEF AnswerSoFar
<1>6. AnswerSoFar(m)'
    <2>1. /\ OrdinaryTable' <=> OrdinaryTable
          /\ \A i : Wanted(i)' = Wanted(i) /\ RowsOf(i)' = RowsOf(i)
        BY <1>1, <1>2 DEF OrdinaryTable, Wanted, RowsOf
    <2>2. UNION {RowsOf(i)' : i \in 1..Len(parts')} = UNION {RowsOf(i) : i \in 1..Len(parts)}
        BY <1>2, <2>1
    <2>3. UNION {Wanted(i)' : i \in (m + 1)..Len(parts')} = UNION {Wanted(i) : i \in (m + 1)..Len(parts)}
        BY <1>2, <2>1
    <2> QED
        BY <1>1, <1>4, <1>5, <2>1, <2>2, <2>3 DEF AnswerSoFar
<1>7. WellTypedIsAnswered'
    BY <1>1 DEF WellTypedIsAnswered
<1>8. \E n \in 0..Len(parts') : AnswerSoFar(n)'
    BY <1>2, <1>4, <1>6
<1> QED
    BY <1>1, <1>2, <1>3, <1>7, <1>8 DEF WInv, Outcomes

LEMMA StepNothing ==
    ASSUME WInv, UNCHANGED vars
    PROVE  WInv'
<1>1. UNCHANGED <<query, outcome, plan, todo, answer>> /\ zoneVars' = zoneVars
    BY DEF vars, queryVars
<1>2. IInv' /\ parts' = parts /\ writing' = writing
    BY <1>1, NextIInv DEF WInv, zoneVars, insertVars
<1> QED
    BY <1>1, <1>2 DEF WInv, Started, AnswerSoFar, WellTypedIsAnswered, OrdinaryTable, Wanted, RowsOf

LEMMA WNextInv == WInv /\ [Next]_vars => WInv'
<1> SUFFICES ASSUME WInv, [Next]_vars PROVE WInv'
    OBVIOUS
<1>1. CASE InsertPart
    BY <1>1, StepInsert
<1>2. ASSUME NEW q \in Queries, Start(q) PROVE WInv'
    BY <1>2, StepStart
<1>3. CASE SkipPart
    BY <1>3, StepSkipPart
<1>4. CASE ReadPart
    BY <1>4, StepReadPart
<1>5. CASE FilterFails
    BY <1>5, StepFilterFails
<1>6. CASE Finish
    BY <1>6, StepFinish
<1>7. CASE UNCHANGED vars
    BY <1>7, StepNothing
<1> QED
    BY <1>1, <1>2, <1>3, <1>4, <1>5, <1>6, <1>7 DEF Next

LEMMA WInvariance == Spec => []WInv
BY WInitInv, WNextInv, PTL DEF Spec

-----------------------------------------------------------------------------
(***************************************************************************)
(* The theorems                                                            *)
(***************************************************************************)
\* Type correctness of the planner's and the scan's state, whatever the
\* clauses: the plan reads columns of the table, the work source holds parts
\* that exist, and the answer has rows of parts.
THEOREM WhereTypeCorrect == Spec => []WhereTypeOK
<1>1. WInv => WhereTypeOK
    <2> SUFFICES ASSUME WInv PROVE WhereTypeOK
        OBVIOUS
    <2>1. ZoneTypeOK
        BY ZoneTypes DEF WInv
    <2>2. PICK m \in 0..Len(parts) : AnswerSoFar(m)
        BY DEF WInv
    <2>3. m \in Nat /\ Len(parts) \in Nat /\ m <= Len(parts)
        BY PartsCounted DEF WInv
    <2>4. \A k \in DOMAIN todo : todo[k] \in 1..Len(parts)
        BY <2>2, <2>3 DEF AnswerSoFar, Countdown
    <2> QED
        BY <2>1, <2>2, <2>4 DEF WInv, WhereTypeOK, AnswerSoFar
<1> QED
    BY <1>1, WInvariance, PTL

\* ZoneMapScanExec with the planner's predicate: zone_map_can_skip, on a
\* predicate that has been coerced, flipped, folded, narrowed and lowered,
\* excludes no part with a row that the WHERE clause as written wants, if the
\* columns of the clause hold neither NaN nor -0.0.
THEOREM SkippingIsSound == Spec => []SkipsNothingWanted
<1>1. WInv => SkipsNothingWanted
    BY NothingSkipped DEF WInv, SkipsNothingWanted
<1> QED
    BY <1>1, WInvariance, PTL

\* run_sql to the rows returned: a query that ends without an error returns
\* exactly the rows that satisfy its WHERE clause, if the columns of the clause
\* hold neither NaN nor -0.0.
THEOREM AnswersAreExact == Spec => []WhereAnswerExact
<1>1. WInv => WhereAnswerExact
    <2> SUFFICES ASSUME WInv, outcome = "done", OrdinaryTable
                 PROVE  answer = UNION {Wanted(i) : i \in 1..Len(parts)}
        BY DEF WhereAnswerExact
    <2>1. AnswerSoFar(0)
        BY DEF WInv, AnswerSoFar
    <2>2. 0 + 1 = 1
        OBVIOUS
    <2> QED
        BY <2>1, <2>2 DEF AnswerSoFar
<1> QED
    BY <1>1, WInvariance, PTL

\* check_type_compat, coerce_types and narrow_literal agree: a clause that
\* compares columns with literals of their kind makes neither the lowering
\* panic nor evaluate_predicate fail.
THEOREM WellTypedAnswered == Spec => []WellTypedIsAnswered
<1>1. WInv => WellTypedIsAnswered
    BY DEF WInv
<1> QED
    BY <1>1, WInvariance, PTL
=============================================================================
