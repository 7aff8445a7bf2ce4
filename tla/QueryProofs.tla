----------------------------- MODULE QueryProofs -----------------------------
(***************************************************************************)
(* Proofs about Query for any number of workers, parts and granules, any   *)
(* channel capacity, any LIMIT and any table.                              *)
(***************************************************************************)
EXTENDS Query, FiniteSetsExt, SequenceTheorems, FiniteSetTheorems, TLAPS

-----------------------------------------------------------------------------
(***************************************************************************)
(* Sums of a function over a finite set: what SumFunctionOnSet(f, S), by   *)
(* which Query and Aggregation count rows and add up columns, does when    *)
(* elements come and go.                                                   *)
(*                                                                         *)
(* SumFunctionOnSet is a fold: a recursive function over the subsets of S  *)
(* that takes one chosen element at a time.  So its recursion has to be    *)
(* shown to be one (SumRecursion), and its result not to depend on the     *)
(* choice (SumStep).  Induction is over the size of finite sets, by the    *)
(* least element of a set of counterexamples (Smallest).                   *)
(***************************************************************************)
\* A set of subsets of a finite set has an element none of whose proper
\* subsets are in the set.
LEMMA Smallest ==
    ASSUME NEW S, IsFiniteSet(S), NEW B \in SUBSET (SUBSET S), B # {}
    PROVE  \E s \in B : \A t \in B : ~ (t \subseteq s /\ t # s)
<1>1. IsWellFoundedOn(StrictSubsetOrdering(S), FiniteSubsetsOf(S))
    BY FS_StrictSubsetOrderingWellFounded
<1>2. FiniteSubsetsOf(S) = SUBSET S
    BY FS_FiniteSubsetsOfFinite
<1>3. PICK s \in B : \A t \in B : ~ (<<t, s>> \in StrictSubsetOrdering(S))
    <2>1. B \subseteq FiniteSubsetsOf(S)
        BY <1>2
    <2> QED
        BY <1>1, <2>1, WFMin
<1>4. ASSUME NEW t \in B, t \subseteq s, t # s
      PROVE  <<t, s>> \in StrictSubsetOrdering(S)
    BY <1>4 DEF StrictSubsetOrdering
<1>5. \A t \in B : ~ (t \subseteq s /\ t # s)
    BY <1>3, <1>4
<1> QED
    BY <1>5

\* A set that holds 0 and the successor of each of its members holds all
\* natural numbers.
LEMMA NatInSet ==
    ASSUME NEW T, 0 \in T, \A n \in Nat : n \in T => n + 1 \in T
    PROVE  Nat \subseteq T
<1> DEFINE R == OpToRel(<, Nat)
           B == Nat \ T
<1>1. IsWellFoundedOn(R, Nat)
    BY NatLessThanWellFounded
<1>2. \A x, y \in Nat : x < y => <<x, y>> \in R
    BY DEF OpToRel
<1> HIDE DEF R
<1>3. SUFFICES ASSUME B # {} PROVE FALSE
    OBVIOUS
<1>4. PICK x \in B : \A y \in B : ~ (<<y, x>> \in R)
    BY <1>1, <1>3, WFMin
<1>5. x # 0 /\ x - 1 \in Nat /\ x - 1 < x
    OBVIOUS
<1>6. x - 1 \in T
    BY <1>4, <1>5, <1>2
<1> QED
    BY <1>5, <1>6

-----------------------------------------------------------------------------
(***************************************************************************)
(* The recursion of the fold                                               *)
(***************************************************************************)
Pick(s) == CHOOSE x \in s : TRUE

\* h is the function that the fold of f over S defines.
Folds(h, f, S) ==
    h = [s \in SUBSET S |-> IF s = {} THEN 0 ELSE f[Pick(s)] + h[s \ {Pick(s)}]]

FoldOf(f, S) == CHOOSE h : Folds(h, f, S)

LEMMA SumIsFold == \A f, S : SumFunctionOnSet(f, S) = FoldOf(f, S)[S]
BY DEF SumFunctionOnSet, FoldFunctionOnSet, MapThenFoldSet, FoldOf, Folds, Pick

LEMMA Picked == \A s : s # {} => Pick(s) \in s
BY DEF Pick

\* Folds over a set and over a subset of it agree on what they share.
LEMMA FoldsAgree ==
    ASSUME NEW f, NEW S, IsFiniteSet(S), NEW T \in SUBSET S,
           NEW g, NEW h, Folds(g, f, S), Folds(h, f, T)
    PROVE  \A s \in SUBSET T : g[s] = h[s]
<1> DEFINE B == {s \in SUBSET T : g[s] # h[s]}
<1>1. SUFFICES ASSUME B # {} PROVE FALSE
    OBVIOUS
<1>2. PICK s \in B : \A t \in B : ~ (t \subseteq s /\ t # s)
    <2>1. B \in SUBSET (SUBSET S)
        OBVIOUS
    <2> HIDE DEF B
    <2> QED
        BY <1>1, <2>1, Smallest
<1>3. s \in SUBSET T /\ s \in SUBSET S /\ g[s] # h[s]
    OBVIOUS
<1>4. /\ g[s] = IF s = {} THEN 0 ELSE f[Pick(s)] + g[s \ {Pick(s)}]
      /\ h[s] = IF s = {} THEN 0 ELSE f[Pick(s)] + h[s \ {Pick(s)}]
    BY <1>3 DEF Folds
<1>5. s # {}
    BY <1>3, <1>4
<1>6. /\ s \ {Pick(s)} \subseteq s /\ s \ {Pick(s)} # s
      /\ s \ {Pick(s)} \in SUBSET T
    BY <1>3, <1>5, Picked
<1>7. g[s \ {Pick(s)}] = h[s \ {Pick(s)}]
    BY <1>2, <1>6
<1> QED
    BY <1>3, <1>4, <1>5, <1>7

\* If the folds over all proper subsets exist, this is the fold over S.
LEMMA NextFold ==
    ASSUME NEW f, NEW S, IsFiniteSet(S),
           \A s \in SUBSET S : s # S => \E h : Folds(h, f, s)
    PROVE  \E h : Folds(h, f, S)
<1> DEFINE H(s) == FoldOf(f, s)
           g == [s \in SUBSET S |->
                   IF s = {} THEN 0 ELSE f[Pick(s)] + H(s \ {Pick(s)})[s \ {Pick(s)}]]
<1>1. ASSUME NEW s \in SUBSET S, s # S
      PROVE  Folds(H(s), f, s)
    BY <1>1 DEF FoldOf
<1>2. ASSUME NEW s \in SUBSET S, s # {}
      PROVE  g[s \ {Pick(s)}] = H(s \ {Pick(s)})[s \ {Pick(s)}]
    <2> DEFINE t == s \ {Pick(s)}
               u == t \ {Pick(t)}
    <2>1. t \in SUBSET S /\ t # S
        BY <1>2, Picked
    <2>2. Folds(H(t), f, t)
        BY <1>1, <2>1
    <2>3. H(t)[t] = IF t = {} THEN 0 ELSE f[Pick(t)] + H(t)[u]
        BY <2>2 DEF Folds
    <2>4. g[t] = IF t = {} THEN 0 ELSE f[Pick(t)] + H(u)[u]
        BY <2>1
    <2>5. CASE t = {}
        BY <2>3, <2>4, <2>5
    <2>6. CASE t # {}
        <3>1. u \in SUBSET S /\ u # S /\ u \in SUBSET t
            BY <2>1, <2>6, Picked
        <3>2. Folds(H(u), f, u)
            BY <1>1, <3>1
        <3>3. IsFiniteSet(t)
            BY <2>1, FS_Subset
        <3> HIDE DEF t, u, H
        <3>4. H(t)[u] = H(u)[u]
            BY <2>2, <3>1, <3>2, <3>3, FoldsAgree
        <3> QED
            BY <2>3, <2>4, <3>4, <2>6 DEF t
    <2> QED
        BY <2>5, <2>6
<1>3. Folds(g, f, S)
    <2>1. \A s \in SUBSET S :
              g[s] = IF s = {} THEN 0 ELSE f[Pick(s)] + g[s \ {Pick(s)}]
        <3> SUFFICES ASSUME NEW s \in SUBSET S
                     PROVE  g[s] = IF s = {} THEN 0 ELSE f[Pick(s)] + g[s \ {Pick(s)}]
            OBVIOUS
        <3>1. g[s] = IF s = {} THEN 0 ELSE f[Pick(s)] + H(s \ {Pick(s)})[s \ {Pick(s)}]
            OBVIOUS
        <3> HIDE DEF g, H
        <3> QED
            BY <3>1, <1>2
    <2>2. g = [s \in SUBSET S |-> g[s]]
        OBVIOUS
    <2> HIDE DEF g
    <2> QED
        BY <2>1, <2>2 DEF Folds
<1> QED
    BY <1>3

LEMMA FoldExists ==
    ASSUME NEW f, NEW S, IsFiniteSet(S)
    PROVE  Folds(FoldOf(f, S), f, S)
<1> DEFINE B == {s \in SUBSET S : ~ \E h : Folds(h, f, s)}
<1>1. B = {}
    <2> SUFFICES ASSUME B # {} PROVE FALSE
        OBVIOUS
    <2>1. PICK s \in B : \A t \in B : ~ (t \subseteq s /\ t # s)
        <3>1. B \in SUBSET (SUBSET S)
            OBVIOUS
        <3> HIDE DEF B
        <3> QED
            BY <3>1, Smallest
    <2>2. IsFiniteSet(s) /\ s \in SUBSET S
        BY FS_Subset
    <2>3. \A t \in SUBSET s : t # s => \E h : Folds(h, f, t)
        BY <2>1, <2>2
    <2>4. \E h : Folds(h, f, s)
        BY <2>2, <2>3, NextFold
    <2> QED
        BY <2>4
<1>2. \E h : Folds(h, f, S)
    BY <1>1
<1> QED
    BY <1>2 DEF FoldOf

LEMMA SumRecursion ==
    ASSUME NEW f, NEW S, IsFiniteSet(S)
    PROVE  /\ S = {} => SumFunctionOnSet(f, S) = 0
           /\ S # {} => SumFunctionOnSet(f, S) =
                            f[Pick(S)] + SumFunctionOnSet(f, S \ {Pick(S)})
<1> DEFINE T == S \ {Pick(S)}
<1>1. Folds(FoldOf(f, S), f, S)
    BY FoldExists
<1>2. FoldOf(f, S)[S] = IF S = {} THEN 0 ELSE f[Pick(S)] + FoldOf(f, S)[T]
    BY <1>1 DEF Folds
<1>3. IsFiniteSet(T) /\ T \in SUBSET S
    BY FS_Subset
<1>4. Folds(FoldOf(f, T), f, T)
    BY <1>3, FoldExists
<1>5. FoldOf(f, S)[T] = FoldOf(f, T)[T]
    <2> HIDE DEF T
    <2> QED
        BY <1>1, <1>3, <1>4, FoldsAgree
<1> QED
    BY <1>2, <1>5, SumIsFold

-----------------------------------------------------------------------------
(***************************************************************************)
(* Sums                                                                    *)
(***************************************************************************)
\* The function that is summed has integers in S.
Summable(f, S) == IsFiniteSet(S) /\ \A x \in S : f[x] \in Int

LEMMA SumEmpty == \A f : SumFunctionOnSet(f, {}) = 0
BY FS_EmptySet, SumRecursion

LEMMA SumType ==
    ASSUME NEW f, NEW S, Summable(f, S)
    PROVE  SumFunctionOnSet(f, S) \in Int
<1> DEFINE B == {s \in SUBSET S : SumFunctionOnSet(f, s) \notin Int}
<1>1. B = {}
    <2> SUFFICES ASSUME B # {} PROVE FALSE
        OBVIOUS
    <2>1. PICK s \in B : \A t \in B : ~ (t \subseteq s /\ t # s)
        <3>1. B \in SUBSET (SUBSET S) /\ IsFiniteSet(S)
            BY DEF Summable
        <3> HIDE DEF B
        <3> QED
            BY <3>1, Smallest
    <2>2. IsFiniteSet(s) /\ s \in SUBSET S
        BY FS_Subset DEF Summable
    <2>3. s # {}
        BY SumEmpty
    <2>4. Pick(s) \in S /\ s \ {Pick(s)} \in SUBSET S /\ s \ {Pick(s)} # s
        BY <2>2, <2>3, Picked
    <2>5. f[Pick(s)] \in Int /\ SumFunctionOnSet(f, s \ {Pick(s)}) \in Int
        BY <2>1, <2>4 DEF Summable
    <2>6. SumFunctionOnSet(f, s) = f[Pick(s)] + SumFunctionOnSet(f, s \ {Pick(s)})
        BY <2>2, <2>3, SumRecursion
    <2>7. SumFunctionOnSet(f, s) \in Int
        BY <2>5, <2>6
    <2> QED
        BY <2>7
<1> QED
    BY <1>1

LEMMA SubsetSummable ==
    ASSUME NEW f, NEW S, Summable(f, S), NEW T \in SUBSET S
    PROVE  Summable(f, T)
BY FS_Subset DEF Summable

\* Any element can be taken first.
LEMMA SumStep ==
    ASSUME NEW f, NEW S, Summable(f, S), NEW x \in S
    PROVE  SumFunctionOnSet(f, S) = f[x] + SumFunctionOnSet(f, S \ {x})
<1> DEFINE Any(s) == \A y \in s : SumFunctionOnSet(f, s) = f[y] + SumFunctionOnSet(f, s \ {y})
           B == {s \in SUBSET S : ~ Any(s)}
<1>1. B = {}
    <2> SUFFICES ASSUME B # {} PROVE FALSE
        OBVIOUS
    <2>1. PICK s \in B : \A t \in B : ~ (t \subseteq s /\ t # s)
        <3>1. B \in SUBSET (SUBSET S) /\ IsFiniteSet(S)
            BY DEF Summable
        <3> HIDE DEF B
        <3> QED
            BY <3>1, Smallest
    <2>2. s \in SUBSET S /\ ~ Any(s) /\ (\A t \in SUBSET s : t # s => Any(t))
        BY <2>1
    <2> HIDE DEF B
    <2>3. PICK y \in s : SumFunctionOnSet(f, s) # f[y] + SumFunctionOnSet(f, s \ {y})
        BY <2>2
    <2> DEFINE p == Pick(s)
               t == s \ {p}
               u == s \ {y}
               rest == t \ {y}
    <2>4. IsFiniteSet(s) /\ s # {} /\ p \in s
        BY <2>2, <2>3, FS_Subset, Picked DEF Summable
    <2>5. SumFunctionOnSet(f, s) = f[p] + SumFunctionOnSet(f, t)
        BY <2>4, SumRecursion
    <2>6. p # y
        BY <2>3, <2>5
    <2>7. /\ t \in SUBSET s /\ t # s /\ y \in t
          /\ u \in SUBSET s /\ u # s /\ p \in u
          /\ u \ {p} = rest
        BY <2>3, <2>4, <2>6
    <2>8. /\ SumFunctionOnSet(f, t) = f[y] + SumFunctionOnSet(f, rest)
          /\ SumFunctionOnSet(f, u) = f[p] + SumFunctionOnSet(f, rest)
        <3> HIDE DEF t, u, rest, p
        <3>1. Any(t) /\ Any(u)
            BY <2>2, <2>7
        <3> QED
            BY <3>1, <2>7 DEF rest
    <2>9. f[p] \in Int /\ f[y] \in Int /\ SumFunctionOnSet(f, rest) \in Int
        <3>1. p \in S /\ y \in S /\ rest \in SUBSET S
            BY <2>2, <2>3, <2>4
        <3> HIDE DEF rest, p
        <3> QED
            BY <3>1, SubsetSummable, SumType DEF Summable
    <2> HIDE DEF t, rest, p
    <2>10. SumFunctionOnSet(f, s) = f[y] + SumFunctionOnSet(f, u)
        BY <2>5, <2>8, <2>9
    <2> QED
        BY <2>3, <2>10
<1>2. S \in SUBSET S
    OBVIOUS
<1> QED
    BY <1>1, <1>2

LEMMA SumSingleton ==
    ASSUME NEW f, NEW x, f[x] \in Int
    PROVE  SumFunctionOnSet(f, {x}) = f[x]
<1>1. Summable(f, {x})
    BY FS_Singleton DEF Summable
<1>2. SumFunctionOnSet(f, {x}) = f[x] + SumFunctionOnSet(f, {x} \ {x})
    BY <1>1, SumStep
<1>3. {x} \ {x} = {}
    OBVIOUS
<1> QED
    BY <1>2, <1>3, SumEmpty

LEMMA SumAdd ==
    ASSUME NEW f, NEW S, NEW x, Summable(f, S), f[x] \in Int, x \notin S
    PROVE  SumFunctionOnSet(f, S \cup {x}) = f[x] + SumFunctionOnSet(f, S)
<1>1. Summable(f, S \cup {x})
    BY FS_AddElement DEF Summable
<1>2. (S \cup {x}) \ {x} = S
    OBVIOUS
<1> QED
    BY <1>1, <1>2, SumStep

\* Sums of the same numbers over the same set.
LEMMA SumSame ==
    ASSUME NEW f, NEW g, NEW S, Summable(f, S), \A x \in S : f[x] = g[x]
    PROVE  SumFunctionOnSet(f, S) = SumFunctionOnSet(g, S)
<1> DEFINE B == {s \in SUBSET S : SumFunctionOnSet(f, s) # SumFunctionOnSet(g, s)}
<1>1. B = {}
    <2> SUFFICES ASSUME B # {} PROVE FALSE
        OBVIOUS
    <2>1. PICK s \in B : \A t \in B : ~ (t \subseteq s /\ t # s)
        <3>1. B \in SUBSET (SUBSET S) /\ IsFiniteSet(S)
            BY DEF Summable
        <3> HIDE DEF B
        <3> QED
            BY <3>1, Smallest
    <2> DEFINE p == Pick(s)
               t == s \ {p}
    <2>2. IsFiniteSet(s) /\ s \in SUBSET S
        BY FS_Subset DEF Summable
    <2>3. s # {}
        BY SumEmpty
    <2>4. p \in s /\ p \in S /\ t \in SUBSET S /\ t \subseteq s /\ t # s
        BY <2>2, <2>3, Picked
    <2>5. SumFunctionOnSet(f, t) = SumFunctionOnSet(g, t)
        BY <2>1, <2>4
    <2>6. /\ SumFunctionOnSet(f, s) = f[p] + SumFunctionOnSet(f, t)
          /\ SumFunctionOnSet(g, s) = g[p] + SumFunctionOnSet(g, t)
        BY <2>2, <2>3, SumRecursion
    <2>7. f[p] = g[p]
        BY <2>4
    <2> QED
        BY <2>5, <2>6, <2>7
<1> QED
    BY <1>1

\* Disjoint sets.
LEMMA SumUnion ==
    ASSUME NEW f, NEW S, NEW T, Summable(f, S), Summable(f, T), S \cap T = {}
    PROVE  /\ Summable(f, S \cup T)
           /\ SumFunctionOnSet(f, S \cup T) = SumFunctionOnSet(f, S) + SumFunctionOnSet(f, T)
<1> DEFINE Fits(s) == SumFunctionOnSet(f, s \cup T) =
                          SumFunctionOnSet(f, s) + SumFunctionOnSet(f, T)
           B == {s \in SUBSET S : ~ Fits(s)}
<1>1. B = {}
    <2> SUFFICES ASSUME B # {} PROVE FALSE
        OBVIOUS
    <2>1. PICK s \in B : \A t \in B : ~ (t \subseteq s /\ t # s)
        <3>1. B \in SUBSET (SUBSET S) /\ IsFiniteSet(S)
            BY DEF Summable
        <3> HIDE DEF B
        <3> QED
            BY <3>1, Smallest
    <2> DEFINE p == Pick(s)
               t == s \ {p}
    <2>2. s \in SUBSET S /\ ~ Fits(s) /\ Summable(f, s) /\ SumFunctionOnSet(f, T) \in Int
        BY SubsetSummable, SumType
    <2>3. s # {}
        <3>1. ASSUME s = {} PROVE FALSE
            <4>1. s \cup T = T /\ SumFunctionOnSet(f, s) = 0
                BY <3>1, SumEmpty
            <4>2. 0 + SumFunctionOnSet(f, T) = SumFunctionOnSet(f, T)
                BY <2>2
            <4>3. Fits(s)
                BY <4>1, <4>2
            <4> QED
                BY <4>3, <2>2
        <3> QED
            BY <3>1
    <2>4. p \in s /\ p \in S /\ t \in SUBSET S /\ t \subseteq s /\ t # s
        BY <2>2, <2>3, Picked
    <2>5. Fits(t) /\ SumFunctionOnSet(f, t) \in Int /\ f[p] \in Int
        BY <2>1, <2>4, SubsetSummable, SumType DEF Summable
    <2>6. SumFunctionOnSet(f, s) = f[p] + SumFunctionOnSet(f, t)
        BY <2>2, <2>4, SumStep
    <2>7. Summable(f, s \cup T) /\ p \in s \cup T /\ (s \cup T) \ {p} = t \cup T
        BY <2>2, <2>4, FS_Union DEF Summable
    <2>8. SumFunctionOnSet(f, s \cup T) = f[p] + SumFunctionOnSet(f, t \cup T)
        BY <2>7, SumStep
    <2> HIDE DEF p, t
    <2> QED
        BY <2>2, <2>5, <2>6, <2>8
<1>2. S \in SUBSET S
    OBVIOUS
<1>3. Summable(f, S \cup T)
    BY FS_Union DEF Summable
<1> QED
    BY <1>1, <1>2, <1>3

\* Natural numbers: the sum bounds each of them.
LEMMA SumNat ==
    ASSUME NEW f, NEW S, IsFiniteSet(S), \A x \in S : f[x] \in Nat
    PROVE  /\ Summable(f, S)
           /\ SumFunctionOnSet(f, S) \in Nat
           /\ \A x \in S : f[x] <= SumFunctionOnSet(f, S)
<1>1. \A s \in SUBSET S : Summable(f, s)
    BY FS_Subset DEF Summable
<1> DEFINE B == {s \in SUBSET S : SumFunctionOnSet(f, s) \notin Nat}
<1>2. B = {}
    <2> SUFFICES ASSUME B # {} PROVE FALSE
        OBVIOUS
    <2>1. PICK s \in B : \A t \in B : ~ (t \subseteq s /\ t # s)
        <3>1. B \in SUBSET (SUBSET S)
            OBVIOUS
        <3> HIDE DEF B
        <3> QED
            BY <3>1, Smallest
    <2> DEFINE p == Pick(s)
               t == s \ {p}
    <2>2. Summable(f, s) /\ s # {}
        BY <1>1, SumEmpty
    <2>3. p \in s /\ p \in S /\ t \in SUBSET S /\ t \subseteq s /\ t # s
        BY <2>2, Picked
    <2>4. SumFunctionOnSet(f, t) \in Nat /\ f[p] \in Nat
        BY <2>1, <2>3
    <2>5. SumFunctionOnSet(f, s) = f[p] + SumFunctionOnSet(f, t)
        BY <2>2, <2>3, SumStep
    <2>6. SumFunctionOnSet(f, s) \in Nat
        BY <2>4, <2>5
    <2> QED
        BY <2>6
<1>3. \A x \in S : f[x] <= SumFunctionOnSet(f, S)
    <2> SUFFICES ASSUME NEW x \in S PROVE f[x] <= SumFunctionOnSet(f, S)
        OBVIOUS
    <2>1. SumFunctionOnSet(f, S) = f[x] + SumFunctionOnSet(f, S \ {x})
        BY <1>1, SumStep
    <2>2. SumFunctionOnSet(f, S \ {x}) \in Nat /\ f[x] \in Nat
        BY <1>2
    <2> QED
        BY <2>1, <2>2
<1> QED
    BY <1>1, <1>2, <1>3
\* A part of natural numbers has no larger sum.
LEMMA SumSubset ==
    ASSUME NEW f, NEW S, IsFiniteSet(S), \A x \in S : f[x] \in Nat, NEW T \in SUBSET S
    PROVE  SumFunctionOnSet(f, T) <= SumFunctionOnSet(f, S)
<1>1. IsFiniteSet(T) /\ IsFiniteSet(S \ T)
    BY FS_Subset
<1>2. /\ Summable(f, T) /\ SumFunctionOnSet(f, T) \in Nat
      /\ Summable(f, S \ T) /\ SumFunctionOnSet(f, S \ T) \in Nat
    BY <1>1, SumNat
<1>3. T \cup (S \ T) = S /\ T \cap (S \ T) = {}
    OBVIOUS
<1>4. SumFunctionOnSet(f, S) = SumFunctionOnSet(f, T) + SumFunctionOnSet(f, S \ T)
    BY <1>2, <1>3, SumUnion
<1> QED
    BY <1>2, <1>4

\* Numbers that are at most c.
LEMMA SumBound ==
    ASSUME NEW f, NEW S, Summable(f, S), NEW c \in Int, \A x \in S : f[x] <= c
    PROVE  Cardinality(S) \in Nat /\ SumFunctionOnSet(f, S) <= Cardinality(S) * c
<1> DEFINE B == {s \in SUBSET S : ~ (SumFunctionOnSet(f, s) <= Cardinality(s) * c)}
<1>1. B = {}
    <2> SUFFICES ASSUME B # {} PROVE FALSE
        OBVIOUS
    <2>1. PICK s \in B : \A t \in B : ~ (t \subseteq s /\ t # s)
        <3>1. B \in SUBSET (SUBSET S) /\ IsFiniteSet(S)
            BY DEF Summable
        <3> HIDE DEF B
        <3> QED
            BY <3>1, Smallest
    <2> DEFINE p == Pick(s)
               t == s \ {p}
    <2>2. s # {}
        BY SumEmpty, FS_EmptySet
    <2>3. p \in s /\ p \in S /\ t \in SUBSET S /\ t \subseteq s /\ t # s
        BY <2>2, Picked
    <2>4. Summable(f, s) /\ Summable(f, t) /\ IsFiniteSet(s)
        BY <2>3, SubsetSummable DEF Summable
    <2>5. /\ SumFunctionOnSet(f, t) <= Cardinality(t) * c
          /\ SumFunctionOnSet(f, s) = f[p] + SumFunctionOnSet(f, t)
          /\ SumFunctionOnSet(f, t) \in Int /\ f[p] \in Int /\ f[p] <= c
        BY <2>1, <2>3, <2>4, SumStep, SumType DEF Summable
    <2>6. Cardinality(s) \in Nat /\ Cardinality(t) = Cardinality(s) - 1
        BY <2>3, <2>4, FS_CardinalityType, FS_RemoveElement
    <2>7. ~ (SumFunctionOnSet(f, s) <= Cardinality(s) * c)
        OBVIOUS
    <2> HIDE DEF B, p, t
    <2> DEFINE k == Cardinality(s)
    <2>8. k \in Nat /\ (k - 1) * c = k * c - c
        BY <2>6, SMT
    <2> QED
        BY <2>5, <2>6, <2>7, <2>8
<1>2. Cardinality(S) \in Nat
    BY FS_CardinalityType DEF Summable
<1> QED
    BY <1>1, <1>2

\* One of the numbers changes.
LEMMA SumChange ==
    ASSUME NEW f, NEW g, NEW S, Summable(f, S), NEW x \in S, g[x] \in Int,
           \A y \in S \ {x} : g[y] = f[y]
    PROVE  SumFunctionOnSet(g, S) = SumFunctionOnSet(f, S) - f[x] + g[x]
<1>1. Summable(g, S)
    BY DEF Summable
<1>2. Summable(f, S \ {x})
    BY SubsetSummable
<1>3. SumFunctionOnSet(g, S \ {x}) = SumFunctionOnSet(f, S \ {x})
    BY <1>2, SumSame
<1>4. /\ SumFunctionOnSet(g, S) = g[x] + SumFunctionOnSet(g, S \ {x})
      /\ SumFunctionOnSet(f, S) = f[x] + SumFunctionOnSet(f, S \ {x})
    BY <1>1, SumStep
<1>5. SumFunctionOnSet(f, S \ {x}) \in Int /\ f[x] \in Int
    BY <1>2, SumType DEF Summable
<1> QED
    BY <1>3, <1>4, <1>5

\* R is the union of the sets S[x].
Joins(R, S, X) == \A r : r \in R <=> \E x \in X : r \in S[x]

\* Sums over disjoint sets: adding up their sums is summing over their union.
LEMMA SumOfSums ==
    ASSUME NEW f, NEW g, NEW S, NEW X, IsFiniteSet(X),
           \A x \in X : Summable(g, S[x]) /\ f[x] = SumFunctionOnSet(g, S[x]),
           \A x, y \in X : x # y => S[x] \cap S[y] = {},
           NEW R, Joins(R, S, X)
    PROVE  /\ Summable(f, X) /\ Summable(g, R)
           /\ SumFunctionOnSet(f, X) = SumFunctionOnSet(g, R)
<1> DEFINE All(s) == UNION {S[x] : x \in s}
           Fits(s) == /\ Summable(g, All(s))
                      /\ SumFunctionOnSet(f, s) = SumFunctionOnSet(g, All(s))
           B == {s \in SUBSET X : ~ Fits(s)}
<1>0. Summable(f, X)
    BY SumType DEF Summable
<1>1. B = {}
    <2> SUFFICES ASSUME B # {} PROVE FALSE
        OBVIOUS
    <2>1. PICK s \in B : \A t \in B : ~ (t \subseteq s /\ t # s)
        <3>1. B \in SUBSET (SUBSET X)
            OBVIOUS
        <3> HIDE DEF B
        <3> QED
            BY <3>1, Smallest
    <2>2. s \in SUBSET X /\ ~ Fits(s) /\ (\A t \in SUBSET s : t # s => Fits(t))
        BY <2>1
    <2>3. CASE s = {}
        <3>1. All(s) = {}
            BY <2>3
        <3>2. Summable(g, All(s))
            BY <3>1, FS_EmptySet DEF Summable
        <3> QED
            BY <2>2, <2>3, <3>1, <3>2, SumEmpty
    <2>4. CASE s # {}
        <3> DEFINE p == Pick(s)
                   t == s \ {p}
        <3>1. p \in s /\ p \in X /\ t \in SUBSET s /\ t # s
            BY <2>2, <2>4, Picked
        <3>2. Fits(t)
            BY <2>2, <3>1
        <3>3. Summable(f, s)
            BY <1>0, <2>2, SubsetSummable
        <3>4. SumFunctionOnSet(f, s) = f[p] + SumFunctionOnSet(f, t)
            BY <3>1, <3>3, SumStep
        <3>5. Summable(g, S[p]) /\ f[p] = SumFunctionOnSet(g, S[p])
            BY <3>1
        <3>6. S[p] \cap All(t) = {}
            BY <3>1, <2>2
        <3>7. /\ Summable(g, S[p] \cup All(t))
              /\ SumFunctionOnSet(g, S[p] \cup All(t)) =
                     SumFunctionOnSet(g, S[p]) + SumFunctionOnSet(g, All(t))
            <4>1. Summable(g, All(t)) /\ Summable(g, S[p])
                BY <3>2, <3>5
            <4> HIDE DEF All, Fits, p, t
            <4> QED
                BY <3>6, <4>1, SumUnion
        <3>8. All(s) = S[p] \cup All(t)
            BY <3>1
        <3> QED
            BY <2>2, <3>2, <3>4, <3>5, <3>7, <3>8
    <2> QED
        BY <2>3, <2>4
<1>2. Fits(X)
    BY <1>1
<1>3. R = All(X)
    BY DEF Joins
<1> HIDE DEF All
<1> QED
    BY <1>0, <1>2, <1>3

\* A cardinality is a sum of ones.
LEMMA SumOnes ==
    ASSUME NEW f, NEW S, IsFiniteSet(S), \A x \in S : f[x] = 1
    PROVE  Summable(f, S) /\ SumFunctionOnSet(f, S) = Cardinality(S)
<1>1. \A s \in SUBSET S : Summable(f, s)
    BY FS_Subset DEF Summable
<1> DEFINE B == {s \in SUBSET S : SumFunctionOnSet(f, s) # Cardinality(s)}
<1>2. B = {}
    <2> SUFFICES ASSUME B # {} PROVE FALSE
        OBVIOUS
    <2>1. PICK s \in B : \A t \in B : ~ (t \subseteq s /\ t # s)
        <3>1. B \in SUBSET (SUBSET S)
            OBVIOUS
        <3> HIDE DEF B
        <3> QED
            BY <3>1, Smallest
    <2> DEFINE p == Pick(s)
               t == s \ {p}
    <2>2. s # {} /\ Summable(f, s) /\ IsFiniteSet(s)
        BY <1>1, SumEmpty, FS_EmptySet DEF Summable
    <2>3. p \in s /\ p \in S /\ t \in SUBSET S /\ t \subseteq s /\ t # s
        BY <2>2, Picked
    <2>4. SumFunctionOnSet(f, t) = Cardinality(t) /\ f[p] = 1
        BY <2>1, <2>3
    <2>5. SumFunctionOnSet(f, s) = f[p] + SumFunctionOnSet(f, t)
        BY <2>2, <2>3, SumStep
    <2>6. Cardinality(s) \in Nat /\ Cardinality(t) = Cardinality(s) - 1
        BY <2>2, <2>3, FS_CardinalityType, FS_RemoveElement
    <2>7. SumFunctionOnSet(f, s) # Cardinality(s)
        OBVIOUS
    <2> HIDE DEF B, p, t
    <2> QED
        BY <2>4, <2>5, <2>6, <2>7
<1> QED
    BY <1>1, <1>2

\* The sizes of disjoint sets S[x] add up to the size of their union.
LEMMA SumOfSizes ==
    ASSUME NEW f, NEW S, NEW X, IsFiniteSet(X),
           \A x \in X : IsFiniteSet(S[x]) /\ f[x] = Cardinality(S[x]),
           \A x, y \in X : x # y => S[x] \cap S[y] = {},
           NEW R, Joins(R, S, X)
    PROVE  /\ Summable(f, X)
           /\ IsFiniteSet(R)
           /\ SumFunctionOnSet(f, X) = Cardinality(R)
<1> DEFINE one == [r \in R |-> 1]
<1>1. ASSUME NEW x \in X
      PROVE  Summable(one, S[x]) /\ f[x] = SumFunctionOnSet(one, S[x])
    <2>1. \A r \in S[x] : one[r] = 1
        BY DEF Joins
    <2> HIDE DEF one
    <2> QED
        BY <2>1, SumOnes
<1>2. \A r \in R : one[r] = 1
    OBVIOUS
<1> HIDE DEF one
<1>3. Summable(f, X) /\ Summable(one, R) /\ SumFunctionOnSet(f, X) = SumFunctionOnSet(one, R)
    <2>1. \A x \in X : Summable(one, S[x]) /\ f[x] = SumFunctionOnSet(one, S[x])
        BY <1>1
    <2>2. \A x, y \in X : x # y => S[x] \cap S[y] = {}
        OBVIOUS
    <2> QED
        BY <2>1, <2>2, SumOfSums
<1>4. IsFiniteSet(R) /\ SumFunctionOnSet(one, R) = Cardinality(R)
    BY <1>2, <1>3, SumOnes DEF Summable
<1> QED
    BY <1>3, <1>4

\* x and y are equal modulo m.
Congruent(x, y, m) == \E k \in Int : x = y + k * m

LEMMA CongruentAdd ==
    ASSUME NEW m \in Int, NEW x, NEW y \in Int, Congruent(x, y, m),
           NEW u, NEW v \in Int, Congruent(u, v, m)
    PROVE  Congruent(x + u, y + v, m)
<1>1. PICK j \in Int : x = y + j * m
    BY DEF Congruent
<1>2. PICK k \in Int : u = v + k * m
    BY DEF Congruent
<1>3. (j + k) * m = j * m + k * m /\ j + k \in Int /\ j * m \in Int /\ k * m \in Int
    BY SMT
<1>4. x + u = (y + v) + (j + k) * m
    BY <1>1, <1>2, <1>3
<1> QED
    BY <1>3, <1>4 DEF Congruent

LEMMA CongruentChain ==
    ASSUME NEW m \in Int, NEW x, NEW y, NEW z \in Int, Congruent(x, y, m), Congruent(y, z, m)
    PROVE  Congruent(x, z, m)
<1>1. PICK j \in Int : x = y + j * m
    BY DEF Congruent
<1>2. PICK k \in Int : y = z + k * m
    BY DEF Congruent
<1>3. (j + k) * m = j * m + k * m /\ j + k \in Int /\ j * m \in Int /\ k * m \in Int
    BY SMT
<1>4. x = z + (j + k) * m
    BY <1>1, <1>2, <1>3
<1> QED
    BY <1>3, <1>4 DEF Congruent

LEMMA CongruentSelf ==
    ASSUME NEW m \in Int, NEW x \in Int
    PROVE  Congruent(x, x, m)
<1>1. x = x + 0 * m /\ 0 \in Int
    BY SMT
<1> QED
    BY <1>1, Zenon DEF Congruent

\* Numbers that are congruent modulo m have congruent sums.
LEMMA SumCongruent ==
    ASSUME NEW f, NEW g, NEW S, Summable(f, S), Summable(g, S), NEW m \in Int,
           \A x \in S : Congruent(f[x], g[x], m)
    PROVE  Congruent(SumFunctionOnSet(f, S), SumFunctionOnSet(g, S), m)
<1> DEFINE Fits(s) == Congruent(SumFunctionOnSet(f, s), SumFunctionOnSet(g, s), m)
           B == {s \in SUBSET S : ~ Fits(s)}
<1>1. B = {}
    <2> SUFFICES ASSUME B # {} PROVE FALSE
        OBVIOUS
    <2>1. PICK s \in B : \A t \in B : ~ (t \subseteq s /\ t # s)
        <3>1. B \in SUBSET (SUBSET S) /\ IsFiniteSet(S)
            BY DEF Summable
        <3> HIDE DEF B
        <3> QED
            BY <3>1, Smallest
    <2> DEFINE p == Pick(s)
               t == s \ {p}
    <2>2. s # {}
        <3> SUFFICES ASSUME s = {} PROVE Fits(s)
            OBVIOUS
        <3>1. SumFunctionOnSet(f, s) = 0 /\ SumFunctionOnSet(g, s) = 0
            BY SumEmpty
        <3> QED
            BY <3>1, CongruentSelf
    <2>3. p \in s /\ p \in S /\ t \in SUBSET S /\ t \subseteq s /\ t # s
        BY <2>2, Picked
    <2>4. Summable(f, s) /\ Summable(f, t) /\ Summable(g, s) /\ Summable(g, t)
        BY <2>3, SubsetSummable
    <2>5. Congruent(SumFunctionOnSet(f, t), SumFunctionOnSet(g, t), m)
        BY <2>1, <2>3
    <2>6. Congruent(f[p], g[p], m)
        BY <2>3
    <2>7. /\ SumFunctionOnSet(f, s) = f[p] + SumFunctionOnSet(f, t)
          /\ SumFunctionOnSet(g, s) = g[p] + SumFunctionOnSet(g, t)
          /\ SumFunctionOnSet(g, t) \in Int /\ g[p] \in Int
        BY <2>3, <2>4, SumStep, SumType DEF Summable
    <2>8. ~ Fits(s)
        OBVIOUS
    <2> HIDE DEF B, p, t
    <2> QED
        BY <2>5, <2>6, <2>7, <2>8, CongruentAdd
<1> QED
    BY <1>1

-----------------------------------------------------------------------------
(***************************************************************************)
(* Minima and maxima                                                       *)
(***************************************************************************)
\* A finite set of integers that is not empty has a least and a greatest element.
LEMMA Extremes ==
    ASSUME NEW S, IsFiniteSet(S), S # {}, \A x \in S : x \in Int
    PROVE  /\ Min(S) \in S /\ \A y \in S : Min(S) <= y
           /\ Max(S) \in S /\ \A y \in S : Max(S) >= y
<1> DEFINE Bounded(s) == /\ \E x \in s : \A y \in s : x <= y
                         /\ \E x \in s : \A y \in s : x >= y
           B == {s \in SUBSET S : s # {} /\ ~ Bounded(s)}
<1>1. B = {}
    <2> SUFFICES ASSUME B # {} PROVE FALSE
        OBVIOUS
    <2>1. PICK s \in B : \A t \in B : ~ (t \subseteq s /\ t # s)
        <3>1. B \in SUBSET (SUBSET S)
            OBVIOUS
        <3> HIDE DEF B, Bounded
        <3> QED
            BY <3>1, Smallest
    <2> DEFINE p == Pick(s)
               t == s \ {p}
    <2>2. p \in s /\ p \in Int /\ t \in SUBSET S /\ t \subseteq s /\ t # s /\ s = t \cup {p}
        BY Picked
    <2>3. s \subseteq Int /\ t \subseteq Int /\ ~ Bounded(s)
        OBVIOUS
    <2>4. CASE t = {}
        <3>1. s = {p}
            BY <2>2, <2>4
        <3>2. p <= p /\ p >= p
            BY <2>2
        <3>3. Bounded(s)
            <4> HIDE DEF p
            <4> QED
                BY <3>1, <3>2
        <3> QED
            BY <2>3, <3>3
    <2>5. CASE t # {}
        <3>1. Bounded(t)
            BY <2>1, <2>2, <2>5
        <3>2. PICK lo \in t, hi \in t : \A y \in t : lo <= y /\ hi >= y
            BY <3>1
        <3> HIDE DEF B, p, t
        <3>3. \E x \in s : \A y \in s : x <= y
            <4>1. CASE p <= lo
                BY <2>2, <2>3, <3>2, <4>1
            <4>2. CASE ~ (p <= lo)
                BY <2>2, <2>3, <3>2, <4>2
            <4> QED
                BY <4>1, <4>2
        <3>4. \E x \in s : \A y \in s : x >= y
            <4>1. CASE p >= hi
                BY <2>2, <2>3, <3>2, <4>1
            <4>2. CASE ~ (p >= hi)
                BY <2>2, <2>3, <3>2, <4>2
            <4> QED
                BY <4>1, <4>2
        <3> QED
            BY <2>3, <3>3, <3>4
    <2> QED
        BY <2>4, <2>5
<1>2. Bounded(S)
    BY <1>1
<1> QED
    BY <1>2 DEF Min, Max

-----------------------------------------------------------------------------
(***************************************************************************)
(* The inductive invariant                                                 *)
(***************************************************************************)
\* The threads and the consumer agree on how far the query is.
PhaseInv ==
    /\ next >= 1
    /\ consumer = "pulling" <=> outcome = "none"
    /\ consumer = "pulling" => rxOpen
    /\ outcome = "ok" => \A w \in Workers : Stopped(w)
    /\ \A w \in Workers :
          /\ pc[w] = "send" => hand[w] # NoBatch
          /\ pc[w] = "panicked" => scan[w] # NoScan /\ table.size[scan[w].part] = 0
          /\ pc[w] = "done" /\ outcome = "none" /\ ~ LimitReached(w) =>
                next \notin Parts /\ scan[w] = NoScan

\* A granule that was sent lies behind the scan: in a part that was handed
\* out, and before the position of the worker that has this part open.
Behind(b, n, s) == /\ b.part < n
                   /\ \A w \in Workers : s[w].part = b.part => b.granule < s[w].granule

Differ(b, c) == b # Error /\ c # Error => Granule(b) # Granule(c)

OrderInv ==
    /\ \A w \in Workers : scan[w] # NoScan => scan[w].part < next
    /\ \A v, w \in Workers : v # w /\ scan[v] # NoScan => scan[v].part # scan[w].part
    /\ \A w \in Workers : pc[w] = "send" /\ hand[w] # Error => Behind(hand[w], next, scan)
    /\ \A i \in 1..Len(channel) : channel[i] # Error => Behind(channel[i], next, scan)
    /\ \A b \in got : Behind(b, next, scan)
    /\ \A v, w \in Workers : v # w /\ pc[v] = "send" /\ pc[w] = "send" =>
          Differ(hand[v], hand[w])
    /\ \A w \in Workers : \A i \in 1..Len(channel) : pc[w] = "send" =>
          Differ(hand[w], channel[i])
    /\ \A i, j \in 1..Len(channel) : i # j => Differ(channel[i], channel[j])
    /\ \A b \in got : \A w \in Workers : pc[w] = "send" => Differ(b, hand[w])
    /\ \A b \in got : \A i \in 1..Len(channel) : Differ(b, channel[i])

\* The batches that have been sent and not been lost.
Sent == (InHand \cup InChannel \cup got) \ {Error}

\* No worker has sent as many rows as LIMIT allows it.
NoneAtLimit == \A w \in Workers : ~ LimitReached(w)

\* Until a worker reaches the limit, only whole matching granules travel.
WholeInv == NoneAtLimit => Sent \subseteq Answer

\* Where a granule of the answer is: not yet handed out, ahead of a scan, or
\* on its way to the consumer.
Located(b) == \/ b.part >= next
              \/ \E w \in Workers : scan[w].part = b.part /\ scan[w].granule <= b.granule
              \/ b \in InHand \cup InChannel \cup got

\* An error is on its way to the consumer.
Failed == Error \in InHand \cup InChannel

AccountInv ==
    outcome = "none" /\ NoneAtLimit /\ ~ Failed => \A b \in Answer : Located(b)

\* What the workers have counted is what they have sent.  Once the consumer has
\* stopped, batches can be lost.
Emitted == SumFunctionOnSet(emitted, Workers)

CountInv ==
    /\ Limit # NoLimit => \A w \in Workers : emitted[w] <= Limit
    /\ IsFiniteSet(Sent)
    /\ Total(Sent) <= Emitted
    /\ outcome = "none" => Total(Sent) = Emitted

IInv == /\ QueryTypeOK
        /\ PhaseInv
        /\ OrderInv
        /\ WholeInv
        /\ AccountInv
        /\ CountInv
        /\ CompleteIfAWorkerSurvives
        /\ LimitNotShort

-----------------------------------------------------------------------------
(***************************************************************************)
(* The type invariant                                                      *)
(***************************************************************************)
LEMMA TableFacts ==
    ASSUME QueryTypeOK, NEW p \in Parts
    PROVE  /\ p \in Nat /\ p # 0
           /\ table.size[p] \in {0} \cup Granules
           /\ table.size[p] \in Nat
           /\ \A g \in Granules : table.rows[p][g] \in Nat
<1>1. table \in TableType
    BY QueryAssumption DEF QueryTypeOK
<1>2. p \in Nat /\ p # 0
    BY QueryAssumption, SMT DEF Parts
<1>3. /\ table.size \in [Parts -> {0} \cup Granules]
      /\ table.rows \in [Parts -> [Granules -> Nat]]
    BY <1>1 DEF TableType
<1>4. /\ table.size[p] \in {0} \cup Granules
      /\ \A g \in Granules : table.rows[p][g] \in Nat
    BY <1>3
<1>5. table.size[p] \in Nat
    BY <1>4, QueryAssumption, SMT DEF Granules
<1> QED
    BY <1>2, <1>4, <1>5

\* An open scan is at a part and at a granule number.
LEMMA ScanFacts ==
    ASSUME QueryTypeOK, NEW w \in Workers
    PROVE  /\ scan[w].part \in Nat
           /\ scan[w].granule \in Nat
           /\ scan[w] # NoScan => /\ scan[w] \in [part : Parts, granule : Granules]
                                  /\ scan[w].part \in Parts
                                  /\ scan[w].granule \in Granules
           /\ scan[w] = NoScan => scan[w].part = 0 /\ scan[w].granule = 0
<1>1. scan[w] \in Scans
    BY DEF QueryTypeOK
<1>2. CASE scan[w] = NoScan
    BY <1>2, SMT DEF NoScan
<1>3. CASE scan[w] # NoScan
    <2>1. scan[w] \in [part : Parts, granule : Granules]
        BY <1>1, <1>3 DEF Scans
    <2>2. scan[w].part \in Parts /\ scan[w].granule \in Granules
        BY <2>1
    <2>3. scan[w].part \in Nat /\ scan[w].granule \in Nat
        BY <2>2, QueryAssumption, SMT DEF Parts, Granules
    <2> QED
        BY <1>3, <2>1, <2>2, <2>3
<1> QED
    BY <1>2, <1>3

\* A batch is cut only to fill the limit.
LEMMA ClippedType ==
    ASSUME QueryTypeOK, NEW w \in Workers, NEW rows \in Nat, ~ LimitReached(w)
    PROVE  /\ Clipped(w, rows) \in Nat
           /\ Limit # NoLimit => Limit \in Nat /\ emitted[w] + Clipped(w, rows) <= Limit
           /\ \/ Clipped(w, rows) = rows
              \/ Limit # NoLimit /\ emitted[w] + Clipped(w, rows) = Limit /\ Clipped(w, rows) # 0
<1>1. emitted[w] \in Nat
    BY DEF QueryTypeOK
<1>2. Limit # NoLimit => Limit \in Nat /\ ~ (emitted[w] >= Limit)
    BY QueryAssumption DEF LimitReached, QueryTypeOK, TableType, Limit
<1> QED
    BY <1>1, <1>2, SMT DEF Clipped

LEMMA AdvancedType ==
    ASSUME QueryTypeOK, NEW w \in Workers, scan[w] # NoScan
    PROVE  /\ Advanced(scan[w]) \in Scans
           /\ \/ Advanced(scan[w]) = NoScan /\ scan[w].granule >= table.size[scan[w].part]
              \/ /\ Advanced(scan[w]).part = scan[w].part
                 /\ Advanced(scan[w]).granule = scan[w].granule + 1
                 /\ Advanced(scan[w]) # NoScan
<1>1. /\ scan[w] \in [part : Parts, granule : Granules]
      /\ scan[w].part \in Parts /\ scan[w].granule \in Granules
      /\ scan[w].granule \in Nat
    BY ScanFacts
<1>2. /\ table.size[scan[w].part] \in {0} \cup Granules
      /\ table.size[scan[w].part] \in Nat
      /\ scan[w].part # 0
    BY <1>1, TableFacts
<1>3. CASE scan[w].granule >= table.size[scan[w].part]
    BY <1>3 DEF Advanced, Scans
<1>4. CASE ~ (scan[w].granule >= table.size[scan[w].part])
    <2> DEFINE s == [scan[w] EXCEPT !.granule = @ + 1]
    <2>1. Advanced(scan[w]) = s
        BY <1>4 DEF Advanced
    <2>2. scan[w].granule + 1 \in Granules
        BY <1>1, <1>2, <1>4, QueryAssumption, SMT DEF Granules
    <2>3. /\ s \in [part : Parts, granule : Granules]
          /\ s.part = scan[w].part /\ s.granule = scan[w].granule + 1
        BY <1>1, <2>2
    <2>4. s # NoScan
        BY <2>3, <1>2 DEF NoScan
    <2> QED
        BY <2>1, <2>3, <2>4 DEF Scans
<1> QED
    BY <1>3, <1>4

LEMMA ReadBatchType ==
    ASSUME QueryTypeOK, NEW w \in Workers, scan[w] # NoScan, NEW n \in Nat
    PROVE  [part |-> scan[w].part, granule |-> scan[w].granule, rows |-> n] \in Batch
BY ScanFacts DEF Batch

LEMMA WorkerType == ASSUME QueryTypeOK, PhaseInv, NEW w \in Workers, Worker(w) PROVE QueryTypeOK'
<1> USE DEF QueryTypeOK, data
<1>1. CASE StopAtLimit(w)
    BY <1>1 DEF StopAtLimit
<1>2. next + 1 \in Nat
    BY SMT
<1>3. CASE NoMoreWork(w)
    BY <1>2, <1>3 DEF NoMoreWork, TakeWork
<1>4. CASE SkipPart(w)
    BY <1>2, <1>4 DEF SkipPart, TakeWork
<1>5. CASE OpenFails(w)
    BY <1>2, <1>5 DEF OpenFails, TakeWork, Result
<1>6. CASE OpenPart(w)
    <2>1. 1 \in Granules
        BY QueryAssumption, SMT DEF Granules
    <2>2. next \in Parts
        BY <1>6 DEF OpenPart
    <2>3. [part |-> next, granule |-> 1] \in Scans
        BY <2>1, <2>2 DEF Scans
    <2> QED
        BY <1>2, <1>6, <2>3 DEF OpenPart, TakeWork
<1>7. CASE Panic(w)
    BY <1>7 DEF Panic
<1>8. CASE ReadFails(w)
    BY <1>8 DEF ReadFails, Result
<1>9. CASE ReadGranule(w)
    <2> DEFINE p == scan[w].part
               g == scan[w].granule
               n == Clipped(w, table.rows[p][g])
    <2>1. /\ pc[w] = "scan" /\ ~ LimitReached(w) /\ scan[w] # NoScan
          /\ scan' = [scan EXCEPT ![w] = Advanced(scan[w])]
          /\ IF n = 0
             THEN UNCHANGED <<pc, hand, emitted>>
             ELSE /\ hand' = [hand EXCEPT ![w] = [part |-> p, granule |-> g, rows |-> n]]
                  /\ emitted' = [emitted EXCEPT ![w] = @ + n]
                  /\ pc' = [pc EXCEPT ![w] = "send"]
          /\ UNCHANGED <<table, next, channel, rxOpen, consumer, got, outcome>>
        BY <1>9 DEF ReadGranule
    <2>2. p \in Parts /\ g \in Granules
        BY <2>1, ScanFacts
    <2>3. table.rows[p][g] \in Nat
        BY <2>2, TableFacts
    <2>4. n \in Nat
        BY <2>1, <2>3, ClippedType
    <2>5. [part |-> p, granule |-> g, rows |-> n] \in Result
        BY <2>1, <2>4, ReadBatchType DEF Result
    <2>6. scan' \in [Workers -> Scans]
        BY <2>1, AdvancedType
    <2>7. emitted[w] + n \in Nat
        BY <2>4, SMT
    <2> HIDE DEF p, g, n
    <2>8. CASE n = 0
        BY <2>1, <2>6, <2>8
    <2>9. CASE n # 0
        BY <2>1, <2>5, <2>6, <2>7, <2>9
    <2> QED
        BY <2>8, <2>9
<1>10. CASE Send(w)
    <2>1. /\ hand[w] \in Result
          /\ channel' = Append(channel, hand[w])
          /\ Len(channel) < Capacity
          /\ pc' = [pc EXCEPT ![w] = "scan"]
          /\ hand' = [hand EXCEPT ![w] = NoBatch]
          /\ UNCHANGED <<table, next, scan, emitted, rxOpen, consumer, got, outcome>>
        BY <1>10 DEF Send, PhaseInv
    <2>2. channel' \in Seq(Result) /\ Len(channel') = Len(channel) + 1
        BY <2>1, AppendProperties
    <2>3. Len(channel') <= Capacity
        BY <2>1, <2>2, QueryAssumption, LenProperties, SMT
    <2> QED
        BY <2>1, <2>2, <2>3
<1>11. CASE SendFails(w)
    BY <1>11 DEF SendFails
<1>12. CASE BatchFails(w)
    <2>1. scan' \in [Workers -> Scans]
        BY <1>12, AdvancedType DEF BatchFails
    <2> QED
        BY <1>12, <2>1 DEF BatchFails, Result
<1> QED
    BY <1>1, <1>3, <1>4, <1>5, <1>6, <1>7, <1>8, <1>9, <1>10, <1>11, <1>12 DEF Worker

\* The head of a channel that is not empty, and what is left.
LEMMA Received ==
    ASSUME QueryTypeOK, channel # <<>>
    PROVE  /\ Head(channel) \in Result
           /\ Tail(channel) \in Seq(Result)
           /\ Len(channel) \in Nat /\ 1 <= Len(channel)
           /\ Head(channel) = channel[1]
           /\ Len(Tail(channel)) = Len(channel) - 1
           /\ \A i \in 1..Len(Tail(channel)) :
                 /\ Tail(channel)[i] = channel[i + 1]
                 /\ i + 1 \in 1..Len(channel) /\ i + 1 # 1
<1>1. channel \in Seq(Result)
    BY DEF QueryTypeOK
<1>2. /\ Head(channel) \in Result
      /\ Tail(channel) \in Seq(Result)
      /\ Len(Tail(channel)) = Len(channel) - 1
      /\ \A i \in 1..Len(Tail(channel)) : Tail(channel)[i] = channel[i + 1]
    BY <1>1, HeadTailProperties
<1>3. Len(channel) \in Nat /\ 1 <= Len(channel)
    BY <1>1, EmptySeq, LenProperties, SMT
<1>4. Head(channel) = channel[1]
    BY <1>1, SMT
<1>5. \A i \in 1..(Len(channel) - 1) : i + 1 \in 1..Len(channel) /\ i + 1 # 1
    BY <1>3, SMT
<1> QED
    BY <1>2, <1>3, <1>4, <1>5

LEMMA ConsumerType == ASSUME QueryTypeOK, Consumer PROVE QueryTypeOK'
<1> USE DEF QueryTypeOK, data
<1>1. CASE RecvBatch
    <2>1. Head(channel) \in Batch
        BY <1>1, Received DEF RecvBatch, Result
    <2>2. Tail(channel) \in Seq(Result) /\ Len(Tail(channel)) <= Capacity
        BY <1>1, Received, QueryAssumption, SMT DEF RecvBatch
    <2> QED
        BY <1>1, <2>1, <2>2 DEF RecvBatch
<1>2. CASE RecvError
    <2>1. Tail(channel) \in Seq(Result) /\ Len(Tail(channel)) <= Capacity
        BY <1>2, Received, QueryAssumption, SMT DEF RecvError
    <2> QED
        BY <1>2, <2>1 DEF RecvError
<1>3. CASE RecvEnd
    BY <1>3 DEF RecvEnd
<1>4. CASE DropReceiver
    <2>1. <<>> \in Seq(Result) /\ Len(<<>>) <= Capacity
        BY EmptySeq, QueryAssumption, SMT
    <2> QED
        BY <1>4, <2>1 DEF DropReceiver
<1>5. CASE JoinWorkers
    BY <1>5 DEF JoinWorkers
<1> QED
    BY <1>1, <1>2, <1>3, <1>4, <1>5 DEF Consumer

-----------------------------------------------------------------------------
(***************************************************************************)
(* The phases                                                              *)
(***************************************************************************)
LEMMA WorkerPhase ==
    ASSUME QueryTypeOK, PhaseInv, NEW w \in Workers, Worker(w)
    PROVE  PhaseInv' /\ consumer' = consumer /\ outcome' = outcome /\ outcome # "ok"
<1> USE DEF QueryTypeOK
<1>1. /\ next >= 1
      /\ consumer = "pulling" <=> outcome = "none"
      /\ consumer = "pulling" => rxOpen
    BY DEF PhaseInv
<1>2. ~ Stopped(w)
    BY DEF Worker, StopAtLimit, NoMoreWork, SkipPart, OpenFails, OpenPart, TakeWork,
           Panic, ReadFails, BatchFails, ReadGranule, Send, SendFails, Stopped
<1>3. UNCHANGED <<table, rxOpen, consumer, outcome>>
    BY DEF Worker, StopAtLimit, NoMoreWork, SkipPart, OpenFails, OpenPart, TakeWork,
           Panic, ReadFails, BatchFails, ReadGranule, Send, SendFails, data
<1>4. next' = next \/ (next' = next + 1)
    BY DEF Worker, StopAtLimit, NoMoreWork, SkipPart, OpenFails, OpenPart, TakeWork,
           Panic, ReadFails, BatchFails, ReadGranule, Send, SendFails, data
<1>5. next' >= 1 /\ (next \notin Parts => next' \notin Parts)
    BY <1>1, <1>4, QueryAssumption, SMT DEF Parts
<1>6. \A v \in Workers \ {w} : pc'[v] = pc[v] /\ scan'[v] = scan[v] /\ hand'[v] = hand[v]
    BY DEF Worker, StopAtLimit, NoMoreWork, SkipPart, OpenFails, OpenPart, TakeWork,
           Panic, ReadFails, BatchFails, ReadGranule, Send, SendFails, data
<1>7. pc'[w] = "send" => hand'[w] # NoBatch
    <2>1. CASE OpenFails(w) \/ ReadFails(w) \/ BatchFails(w)
        BY <2>1, QueryAssumption DEF OpenFails, ReadFails, BatchFails
    <2>2. CASE ReadGranule(w)
        <3> DEFINE n == Clipped(w, table.rows[scan[w].part][scan[w].granule])
                   b == [part |-> scan[w].part, granule |-> scan[w].granule, rows |-> n]
        <3>1. /\ pc[w] = "scan" /\ ~ LimitReached(w) /\ scan[w] # NoScan
              /\ IF n = 0 THEN UNCHANGED <<pc, hand, emitted>>
                          ELSE hand' = [hand EXCEPT ![w] = b]
            BY <2>2 DEF ReadGranule
        <3>2. scan[w].part \in Parts /\ scan[w].granule \in Granules
            BY <3>1, ScanFacts
        <3>3. table.rows[scan[w].part][scan[w].granule] \in Nat
            BY <3>2, TableFacts
        <3>4. n \in Nat
            BY <3>1, <3>3, ClippedType
        <3>5. b \in Batch
            BY <3>1, <3>4, ReadBatchType
        <3> HIDE DEF n, b
        <3> QED
            BY <3>1, <3>5, QueryAssumption
    <2>3. CASE StopAtLimit(w) \/ NoMoreWork(w) \/ Panic(w) \/ Send(w) \/ SendFails(w)
        BY <2>3 DEF StopAtLimit, NoMoreWork, Panic, Send, SendFails
    <2>4. CASE SkipPart(w) \/ OpenPart(w)
        BY <2>4 DEF SkipPart, OpenPart, TakeWork
    <2> QED
        BY <2>1, <2>2, <2>3, <2>4 DEF Worker
<1>8. pc'[w] = "panicked" => scan'[w] # NoScan /\ table'.size[scan'[w].part] = 0
    BY <1>2 DEF Worker, StopAtLimit, NoMoreWork, SkipPart, OpenFails, OpenPart, TakeWork,
           Panic, ReadFails, BatchFails, ReadGranule, Send, SendFails, data, Stopped
<1>9. pc'[w] = "done" /\ outcome' = "none" /\ ~ LimitReached(w)' =>
          next' \notin Parts /\ scan'[w] = NoScan
    <2>1. CASE StopAtLimit(w)
        BY <2>1 DEF StopAtLimit, LimitReached, Limit, data
    <2>2. CASE NoMoreWork(w)
        BY <2>2, <1>5 DEF NoMoreWork, TakeWork
    <2>3. CASE SendFails(w)
        BY <2>3, <1>1, <1>3 DEF SendFails
    <2>4. CASE SkipPart(w) \/ OpenPart(w) \/ ReadGranule(w)
        BY <2>4 DEF SkipPart, OpenPart, TakeWork, ReadGranule
    <2>5. CASE OpenFails(w) \/ Panic(w) \/ ReadFails(w) \/ BatchFails(w) \/ Send(w)
        BY <2>5 DEF OpenFails, Panic, ReadFails, BatchFails, Send
    <2> QED
        BY <2>1, <2>2, <2>3, <2>4, <2>5 DEF Worker
<1>10. outcome # "ok"
    BY <1>2 DEF PhaseInv
<1>11. \A v \in Workers :
          /\ pc'[v] = "send" => hand'[v] # NoBatch
          /\ pc'[v] = "panicked" => scan'[v] # NoScan /\ table'.size[scan'[v].part] = 0
          /\ pc'[v] = "done" /\ outcome' = "none" /\ ~ LimitReached(v)' =>
                next' \notin Parts /\ scan'[v] = NoScan
    <2> SUFFICES ASSUME NEW v \in Workers, v # w
                 PROVE  /\ pc'[v] = "send" => hand'[v] # NoBatch
                        /\ pc'[v] = "panicked" => scan'[v] # NoScan /\ table'.size[scan'[v].part] = 0
                        /\ pc'[v] = "done" /\ outcome' = "none" /\ ~ LimitReached(v)' =>
                              next' \notin Parts /\ scan'[v] = NoScan
        BY <1>7, <1>8, <1>9
    <2>1. emitted'[v] = emitted[v]
        BY DEF Worker, StopAtLimit, NoMoreWork, SkipPart, OpenFails, OpenPart, TakeWork,
               Panic, ReadFails, BatchFails, ReadGranule, Send, SendFails, data
    <2>2. LimitReached(v) => LimitReached(v)'
        BY <2>1, <1>3 DEF LimitReached, Limit
    <2> QED
        BY <1>3, <1>5, <1>6, <2>2 DEF PhaseInv
<1> QED
    BY <1>1, <1>3, <1>5, <1>10, <1>11 DEF PhaseInv

LEMMA ConsumerPhase == ASSUME QueryTypeOK, PhaseInv, Consumer PROVE PhaseInv'
<1> USE DEF QueryTypeOK, PhaseInv, data, Stopped, Limit, LimitReached
<1>1. CASE RecvBatch
    BY <1>1 DEF RecvBatch
<1>2. CASE RecvError
    BY <1>2 DEF RecvError
<1>3. CASE RecvEnd
    BY <1>3 DEF RecvEnd
<1>4. CASE DropReceiver
    BY <1>4 DEF DropReceiver
<1>5. CASE JoinWorkers
    BY <1>5 DEF JoinWorkers
<1> QED
    BY <1>1, <1>2, <1>3, <1>4, <1>5 DEF Consumer

-----------------------------------------------------------------------------
(***************************************************************************)
(* No granule is sent twice                                                *)
(***************************************************************************)
\* What workers are about to send, what is in the channel and what was
\* received are batches, or errors.
LEMMA Travelling ==
    ASSUME QueryTypeOK, PhaseInv
    PROVE  /\ \A w \in Workers : pc[w] = "send" /\ hand[w] # Error => hand[w] \in Batch
           /\ \A i \in 1..Len(channel) : channel[i] # Error => channel[i] \in Batch
           /\ \A b \in got : b \in Batch /\ b # Error
           /\ \A b \in Batch : b.part \in Nat /\ b.granule \in Nat /\ b # Error
           /\ next \in Nat /\ Len(channel) \in Nat
<1>1. \A w \in Workers : pc[w] = "send" /\ hand[w] # Error => hand[w] \in Batch
    BY DEF QueryTypeOK, PhaseInv, Result
<1>2. channel \in Seq(Result)
    BY DEF QueryTypeOK
<1>3. /\ Len(channel) \in Nat
      /\ \A i \in 1..Len(channel) : channel[i] \in Result
    BY <1>2, LenProperties, SMT
<1>4. \A b \in Batch : b.part \in Nat /\ b.granule \in Nat /\ b # Error
    BY QueryAssumption, SMT DEF Batch, Parts, Granules
<1>5. next \in Nat /\ got \subseteq Batch
    BY DEF QueryTypeOK
<1> QED
    BY <1>1, <1>3, <1>4, <1>5 DEF Result

\* A step that sends nothing, and moves scans only forward.
LEMMA OrderFrame ==
    ASSUME QueryTypeOK, PhaseInv, OrderInv,
           UNCHANGED <<channel, got>>,
           \A v \in Workers : pc'[v] = "send" =>
               hand'[v] = Error \/ (pc[v] = "send" /\ hand'[v] = hand[v]),
           \A b \in Batch : Behind(b, next, scan) => Behind(b, next', scan'),
           \A v \in Workers : scan'[v] # NoScan => scan'[v].part < next',
           \A u, v \in Workers : u # v /\ scan'[u] # NoScan => scan'[u].part # scan'[v].part
    PROVE  OrderInv'
<1> USE DEF OrderInv
<1>1. \A v \in Workers : pc'[v] = "send" /\ hand'[v] # Error =>
          Behind(hand'[v], next', scan')
    BY Travelling
<1>2. \A k \in 1..Len(channel') : channel'[k] # Error => Behind(channel'[k], next', scan')
    BY Travelling
<1>3. \A b \in got' : Behind(b, next', scan')
    BY Travelling
<1>4. \A u, v \in Workers : u # v /\ pc'[u] = "send" /\ pc'[v] = "send" =>
          Differ(hand'[u], hand'[v])
    BY DEF Differ
<1>5. \A v \in Workers : \A k \in 1..Len(channel') : pc'[v] = "send" =>
          Differ(hand'[v], channel'[k])
    BY DEF Differ
<1>6. \A b \in got' : \A v \in Workers : pc'[v] = "send" => Differ(b, hand'[v])
    BY DEF Differ
<1> QED
    BY <1>1, <1>2, <1>3, <1>4, <1>5, <1>6

LEMMA WorkerOrder ==
    ASSUME QueryTypeOK, PhaseInv, OrderInv, NEW w \in Workers, Worker(w)
    PROVE  OrderInv'
<1>1. /\ next \in Nat
      /\ \A b \in Batch : b.part \in Nat /\ b.granule \in Nat
    BY Travelling
<1>2. \A v \in Workers : scan[v].part \in Nat /\ scan[v].granule \in Nat
    BY ScanFacts
<1>3. /\ \A v \in Workers : scan[v] # NoScan => scan[v].part < next
      /\ \A u, v \in Workers : u # v /\ scan[u] # NoScan => scan[u].part # scan[v].part
    BY DEF OrderInv
<1>4. pc \in [Workers -> {"scan", "send", "done", "panicked"}]
      /\ hand \in [Workers -> Result \cup {NoBatch}]
      /\ scan \in [Workers -> Scans]
    BY DEF QueryTypeOK
<1>5. CASE StopAtLimit(w) \/ NoMoreWork(w) \/ SkipPart(w) \/ OpenFails(w) \/ Panic(w)
           \/ ReadFails(w) \/ SendFails(w)
    <2>1. /\ UNCHANGED <<scan, channel, got>>
          /\ next' = next \/ next' = next + 1
          /\ \A v \in Workers : pc'[v] = "send" =>
                 hand'[v] = Error \/ (pc[v] = "send" /\ hand'[v] = hand[v])
        BY <1>4, <1>5 DEF StopAtLimit, NoMoreWork, SkipPart, OpenFails, Panic, ReadFails,
                          SendFails, TakeWork, data
    <2>2. \A b \in Batch : Behind(b, next, scan) => Behind(b, next', scan')
        BY <2>1, <1>1, SMT DEF Behind
    <2>3. \A v \in Workers : scan'[v] # NoScan => scan'[v].part < next'
        BY <2>1, <1>1, <1>2, <1>3, SMT
    <2> QED
        BY <2>1, <2>2, <2>3, <1>3, OrderFrame
<1>6. CASE OpenPart(w)
    <2>1. /\ scan' = [scan EXCEPT ![w] = [part |-> next, granule |-> 1]]
          /\ next' = next + 1
          /\ UNCHANGED <<pc, hand, channel, got>>
          /\ next \in Parts
        BY <1>6 DEF OpenPart, TakeWork
    <2>2. /\ scan'[w] = [part |-> next, granule |-> 1]
          /\ \A v \in Workers \ {w} : scan'[v] = scan[v]
        BY <2>1, <1>4
    <2>3. scan'[w].part = next
        BY <2>2
    <2>4. next # 0
        BY <2>1, TableFacts
    <2>5. \A v \in Workers : scan'[v] # NoScan => scan'[v].part < next'
        <3>1. scan'[w].part < next'
            BY <2>1, <2>3, <1>1, SMT
        <3>2. \A v \in Workers \ {w} : scan[v] # NoScan => scan[v].part < next'
            BY <2>1, <1>1, <1>2, <1>3, SMT
        <3> QED
            BY <3>1, <3>2, <2>2
    <2>6. \A v \in Workers : scan[v].part # next
        <3> SUFFICES ASSUME NEW v \in Workers PROVE scan[v].part # next
            OBVIOUS
        <3>1. CASE scan[v] = NoScan
            BY <3>1, <2>4, ScanFacts
        <3>2. CASE scan[v] # NoScan
            BY <3>2, <1>1, <1>2, <1>3, SMT
        <3> QED
            BY <3>1, <3>2
    <2>7. \A u, v \in Workers : u # v /\ scan'[u] # NoScan => scan'[u].part # scan'[v].part
        BY <2>2, <2>3, <2>6, <1>3
    <2>8. \A b \in Batch : Behind(b, next, scan) => Behind(b, next', scan')
        <3> SUFFICES ASSUME NEW b \in Batch, Behind(b, next, scan)
                     PROVE  Behind(b, next', scan')
            OBVIOUS
        <3>1. b.part < next /\ b.part < next' /\ b.part # next
            BY <2>1, <1>1, SMT DEF Behind
        <3> QED
            BY <3>1, <2>2, <2>3 DEF Behind
    <2> QED
        BY <2>1, <2>5, <2>7, <2>8, OrderFrame
<1>7. CASE ReadGranule(w) \/ BatchFails(w)
    <2> DEFINE p == scan[w].part
               g == scan[w].granule
               n == Clipped(w, table.rows[p][g])
               read == [part |-> p, granule |-> g, rows |-> n]
    <2>1. /\ pc[w] = "scan" /\ ~ LimitReached(w) /\ scan[w] # NoScan
          /\ scan' = [scan EXCEPT ![w] = Advanced(scan[w])]
          /\ \/ UNCHANGED <<pc, hand>>
             \/ /\ hand' = [hand EXCEPT ![w] = read] \/ hand' = [hand EXCEPT ![w] = Error]
                /\ pc' = [pc EXCEPT ![w] = "send"]
          /\ UNCHANGED <<table, next, channel, got>>
        BY <1>7 DEF ReadGranule, BatchFails
    <2>2. p \in Parts /\ g \in Granules /\ p \in Nat /\ g \in Nat /\ p # 0 /\ p < next
        BY <2>1, <1>2, <1>3, ScanFacts, TableFacts
    <2>3. /\ scan'[w] = Advanced(scan[w])
          /\ \A v \in Workers \ {w} : scan'[v] = scan[v]
        BY <2>1, <1>4
    <2>4. \/ scan'[w] = NoScan
          \/ scan'[w].part = p /\ scan'[w].granule = g + 1
        BY <2>1, <2>3, AdvancedType
    <2>5. NoScan.part = 0
        BY DEF NoScan
    <2> HIDE DEF p, g, n, read
    <2>6. \A v \in Workers : scan'[v] # NoScan => scan'[v].part < next'
        BY <2>1, <2>2, <2>3, <2>4, <1>3
    <2>7. \A u, v \in Workers : u # v /\ scan'[u] # NoScan => scan'[u].part # scan'[v].part
        <3> SUFFICES ASSUME NEW u \in Workers, NEW v \in Workers, u # v, scan'[u] # NoScan
                     PROVE  scan'[u].part # scan'[v].part
            OBVIOUS
        <3>1. CASE u = w
            <4>1. scan'[u].part = p /\ scan'[v] = scan[v]
                BY <3>1, <2>3, <2>4
            <4>2. p # scan[v].part
                BY <3>1, <2>1, <1>3 DEF p
            <4> QED
                BY <4>1, <4>2
        <3>2. CASE v = w
            <4>1. scan'[u] = scan[u] /\ scan[u] # NoScan
                BY <3>2, <2>3
            <4>2. scan[u].part # p /\ scan[u].part # 0
                BY <3>2, <4>1, <1>3, ScanFacts, TableFacts DEF p
            <4> QED
                BY <3>2, <4>1, <4>2, <2>4, <2>5
        <3>3. CASE u # w /\ v # w
            BY <3>3, <2>3, <1>3
        <3> QED
            BY <3>1, <3>2, <3>3
    <2>8. \A b \in Batch : Behind(b, next, scan) => Behind(b, next', scan')
        <3> SUFFICES ASSUME NEW b \in Batch, Behind(b, next, scan)
                     PROVE  Behind(b, next', scan')
            OBVIOUS
        <3>1. b.part \in Nat /\ b.granule \in Nat /\ b.part < next /\ b.part # 0
            BY <1>1, QueryAssumption, SMT DEF Behind, Batch, Parts
        <3>2. \A v \in Workers \ {w} : scan'[v].part = b.part => b.granule < scan'[v].granule
            BY <2>3 DEF Behind
        <3>3. scan'[w].part = b.part => b.granule < scan'[w].granule
            <4>1. p = b.part => b.granule < g
                BY DEF Behind, p, g
            <4>2. p = b.part => b.granule < g + 1
                BY <4>1, <3>1, <2>2, SMT
            <4> QED
                BY <4>2, <2>4, <2>5, <3>1
        <3> QED
            BY <3>1, <3>2, <3>3, <2>1 DEF Behind
    <2>9. CASE \/ UNCHANGED <<pc, hand>>
               \/ hand' = [hand EXCEPT ![w] = Error] /\ pc' = [pc EXCEPT ![w] = "send"]
        <3>1. \A v \in Workers : pc'[v] = "send" =>
                  hand'[v] = Error \/ (pc[v] = "send" /\ hand'[v] = hand[v])
            BY <2>9, <1>4
        <3> QED
            BY <2>1, <2>6, <2>7, <2>8, <3>1, OrderFrame
    <2>10. CASE /\ hand' = [hand EXCEPT ![w] = read]
                /\ pc' = [pc EXCEPT ![w] = "send"]
        <3>1. /\ hand'[w] = read
              /\ \A v \in Workers : pc'[v] = "send" /\ v # w =>
                     pc[v] = "send" /\ hand'[v] = hand[v]
            BY <2>10, <1>4
        <3>2. Behind(read, next', scan')
            <4>1. read.part = p /\ read.granule = g
                BY DEF read
            <4>2. \A v \in Workers \ {w} : scan'[v].part # p
                BY <2>1, <2>3, <1>3 DEF p
            <4>3. scan'[w].part = p => g < scan'[w].granule
                BY <2>2, <2>4, <2>5, SMT
            <4> QED
                BY <4>1, <4>2, <4>3, <2>1, <2>2 DEF Behind
        <3>3. \A b \in Batch : Behind(b, next, scan) => Differ(read, b) /\ Differ(b, read)
            <4> SUFFICES ASSUME NEW b \in Batch, Behind(b, next, scan),
                                b.part = p, b.granule = g
                         PROVE  FALSE
                BY DEF Differ, Granule, read
            <4>1. b.granule < g
                BY DEF Behind, p, g
            <4> QED
                BY <4>1, <2>2, SMT
        <3>4. /\ \A v \in Workers : pc[v] = "send" /\ hand[v] # Error =>
                     hand[v] \in Batch /\ Behind(hand[v], next, scan)
              /\ \A k \in 1..Len(channel) : channel[k] # Error =>
                     channel[k] \in Batch /\ Behind(channel[k], next, scan)
              /\ \A b \in got : b \in Batch /\ Behind(b, next, scan)
            BY Travelling DEF OrderInv
        <3>5. /\ \A v \in Workers : pc'[v] = "send" /\ hand'[v] # Error =>
                     Behind(hand'[v], next', scan')
              /\ \A k \in 1..Len(channel') : channel'[k] # Error => Behind(channel'[k], next', scan')
              /\ \A b \in got' : Behind(b, next', scan')
            BY <2>1, <2>8, <3>1, <3>2, <3>4
        <3>6. \A u, v \in Workers : u # v /\ pc'[u] = "send" /\ pc'[v] = "send" =>
                  Differ(hand'[u], hand'[v])
            <4> SUFFICES ASSUME NEW u \in Workers, NEW v \in Workers, u # v,
                                pc'[u] = "send", pc'[v] = "send",
                                hand'[u] # Error, hand'[v] # Error
                         PROVE  Differ(hand'[u], hand'[v])
                BY DEF Differ
            <4>1. CASE u = w
                BY <4>1, <3>1, <3>3, <3>4
            <4>2. CASE v = w
                BY <4>2, <3>1, <3>3, <3>4
            <4>3. CASE u # w /\ v # w
                BY <4>3, <3>1 DEF OrderInv
            <4> QED
                BY <4>1, <4>2, <4>3
        <3>7. \A v \in Workers : \A k \in 1..Len(channel') : pc'[v] = "send" =>
                  Differ(hand'[v], channel'[k])
            <4> SUFFICES ASSUME NEW v \in Workers, NEW k \in 1..Len(channel),
                                pc'[v] = "send", channel[k] # Error
                         PROVE  Differ(hand'[v], channel[k])
                BY <2>1 DEF Differ
            <4>1. CASE v = w
                BY <4>1, <3>1, <3>3, <3>4
            <4>2. CASE v # w
                BY <4>2, <3>1 DEF OrderInv
            <4> QED
                BY <4>1, <4>2
        <3>8. \A b \in got' : \A v \in Workers : pc'[v] = "send" => Differ(b, hand'[v])
            <4> SUFFICES ASSUME NEW b \in got, NEW v \in Workers, pc'[v] = "send"
                         PROVE  Differ(b, hand'[v])
                BY <2>1
            <4>1. CASE v = w
                BY <4>1, <3>1, <3>3, <3>4
            <4>2. CASE v # w
                BY <4>2, <3>1 DEF OrderInv
            <4> QED
                BY <4>1, <4>2
        <3> QED
            BY <2>1, <2>6, <2>7, <3>5, <3>6, <3>7, <3>8 DEF OrderInv
    <2> QED
        BY <2>1, <2>9, <2>10
<1>8. CASE Send(w)
    <2>1. /\ pc[w] = "send" /\ hand[w] \in Result
          /\ channel' = Append(channel, hand[w])
          /\ pc' = [pc EXCEPT ![w] = "scan"]
          /\ hand' = [hand EXCEPT ![w] = NoBatch]
          /\ UNCHANGED <<next, scan, got>>
        BY <1>8 DEF Send, PhaseInv, QueryTypeOK
    <2>2. channel \in Seq(Result)
        BY DEF QueryTypeOK
    <2>3. /\ Len(channel') = Len(channel) + 1
          /\ \A k \in 1..Len(channel) : channel'[k] = channel[k]
          /\ channel'[Len(channel) + 1] = hand[w]
        BY <2>1, <2>2, AppendProperties
    <2>4. Len(channel) \in Nat
        BY Travelling
    <2>5. \A k \in 1..Len(channel') : k \in 1..Len(channel) \/ k = Len(channel) + 1
        BY <2>3, <2>4, SMT
    <2>6. \A v \in Workers : pc'[v] = "send" => v # w /\ pc[v] = "send" /\ hand'[v] = hand[v]
        BY <2>1, <1>4
    <2> USE DEF OrderInv
    <2>7. \A v \in Workers : pc'[v] = "send" /\ hand'[v] # Error => Behind(hand'[v], next', scan')
        BY <2>1, <2>6
    <2>8. \A k \in 1..Len(channel') : channel'[k] # Error => Behind(channel'[k], next', scan')
        BY <2>1, <2>3, <2>5
    <2>9. \A u, v \in Workers : u # v /\ pc'[u] = "send" /\ pc'[v] = "send" =>
              Differ(hand'[u], hand'[v])
        BY <2>6
    <2>10. \A v \in Workers : \A k \in 1..Len(channel') : pc'[v] = "send" =>
               Differ(hand'[v], channel'[k])
        BY <2>1, <2>3, <2>5, <2>6
    <2>11. \A j, k \in 1..Len(channel') : j # k => Differ(channel'[j], channel'[k])
        <3> SUFFICES ASSUME NEW j \in 1..Len(channel'), NEW k \in 1..Len(channel'), j # k
                     PROVE  Differ(channel'[j], channel'[k])
            OBVIOUS
        <3>1. CASE j \in 1..Len(channel) /\ k \in 1..Len(channel)
            BY <3>1, <2>3
        <3>2. CASE j = Len(channel) + 1 /\ k \in 1..Len(channel)
            BY <3>2, <2>1, <2>3
        <3>3. CASE j \in 1..Len(channel) /\ k = Len(channel) + 1
            <4>1. Differ(hand[w], channel[j])
                BY <3>3, <2>1
            <4> QED
                BY <3>3, <4>1, <2>3 DEF Differ
        <3> QED
            BY <3>1, <3>2, <3>3, <2>5
    <2>12. \A b \in got' : \A v \in Workers : pc'[v] = "send" => Differ(b, hand'[v])
        BY <2>1, <2>6
    <2>13. \A b \in got' : \A k \in 1..Len(channel') : Differ(b, channel'[k])
        BY <2>1, <2>3, <2>5
    <2>14. \A b \in got' : Behind(b, next', scan')
        BY <2>1
    <2>15. /\ \A v \in Workers : scan'[v] # NoScan => scan'[v].part < next'
           /\ \A u, v \in Workers : u # v /\ scan'[u] # NoScan => scan'[u].part # scan'[v].part
        BY <2>1, <1>3
    <2> QED
        BY <2>7, <2>8, <2>9, <2>10, <2>11, <2>12, <2>13, <2>14, <2>15
<1> QED
    BY <1>5, <1>6, <1>7, <1>8 DEF Worker

LEMMA ConsumerOrder ==
    ASSUME QueryTypeOK, PhaseInv, OrderInv, Consumer
    PROVE  OrderInv'
<1> USE DEF OrderInv
<1>1. UNCHANGED <<next, scan, hand, pc>>
    BY DEF Consumer, RecvBatch, RecvError, RecvEnd, DropReceiver, JoinWorkers, data
<1>2. ASSUME channel # <<>>, channel' = Tail(channel),
             got' = got \/ (got' = got \cup {Head(channel)} /\ Head(channel) # Error)
      PROVE  OrderInv'
    <2>1. /\ Head(channel) = channel[1] /\ 1 \in 1..Len(channel)
          /\ \A k \in 1..Len(channel') :
                /\ channel'[k] = channel[k + 1]
                /\ k + 1 \in 1..Len(channel) /\ k + 1 # 1
        BY <1>2, Received, SMT
    <2>2. Len(channel') \in Nat
        BY <1>2, Received, SMT
    <2>3. \A k \in 1..Len(channel') : channel'[k] # Error => Behind(channel'[k], next, scan)
        BY <2>1
    <2>4. \A j, k \in 1..Len(channel') : j # k => Differ(channel'[j], channel'[k])
        <3> SUFFICES ASSUME NEW j \in 1..Len(channel'), NEW k \in 1..Len(channel'), j # k
                     PROVE  Differ(channel'[j], channel'[k])
            OBVIOUS
        <3>1. j + 1 # k + 1
            BY <2>2, SMT
        <3> QED
            BY <3>1, <2>1
    <2>5. \A v \in Workers : \A k \in 1..Len(channel') : pc[v] = "send" =>
              Differ(hand[v], channel'[k])
        BY <2>1
    <2>6. \A b \in got' : Behind(b, next, scan)
        BY <1>2, <2>1
    <2>7. \A b \in got' : \A v \in Workers : pc[v] = "send" => Differ(b, hand[v])
        <3>1. \A v \in Workers : pc[v] = "send" => Differ(hand[v], Head(channel))
            BY <2>1
        <3> QED
            BY <3>1, <1>2 DEF Differ
    <2>8. \A b \in got' : \A k \in 1..Len(channel') : Differ(b, channel'[k])
        BY <1>2, <2>1
    <2> QED
        BY <1>1, <2>3, <2>4, <2>5, <2>6, <2>7, <2>8
<1>3. CASE RecvBatch
    BY <1>2, <1>3 DEF RecvBatch
<1>4. CASE RecvError
    BY <1>2, <1>4 DEF RecvError
<1>5. CASE RecvEnd \/ JoinWorkers
    BY <1>1, <1>5 DEF RecvEnd, JoinWorkers
<1>6. CASE DropReceiver
    <2>1. channel' = <<>> /\ got' = got /\ 1..Len(<<>>) = {}
        BY <1>6, SMT DEF DropReceiver
    <2> QED
        BY <1>1, <2>1
<1> QED
    BY <1>3, <1>4, <1>5, <1>6 DEF Consumer

-----------------------------------------------------------------------------
(***************************************************************************)
(* No granule is lost                                                      *)
(***************************************************************************)
LEMMA AnswerFacts ==
    ASSUME QueryTypeOK, NEW b \in Answer
    PROVE  /\ b = Whole(b.part, b.granule)
           /\ b.part \in Parts /\ b.granule \in Granules
           /\ b.part \in Nat /\ b.granule \in Nat
           /\ b.granule \in Matching(table, b.part)
           /\ b # Error
<1>1. PICK p \in Parts : \E g \in Matching(table, p) : b = Whole(p, g)
    BY DEF Answer
<1>2. PICK g \in Matching(table, p) : b = Whole(p, g)
    BY <1>1
<1>3. g \in Granules
    BY DEF Matching
<1>4. b.part = p /\ b.granule = g
    BY <1>2 DEF Whole
<1>5. table.rows[p][g] \in Nat
    BY <1>3, TableFacts
<1>6. b \in Batch
    BY <1>2, <1>3, <1>5 DEF Whole, Batch
<1>7. p \in Nat /\ g \in Nat
    BY <1>3, QueryAssumption, SMT DEF Parts, Granules
<1> QED
    BY <1>2, <1>3, <1>4, <1>6, <1>7, QueryAssumption

\* What the steps do to the batches that are on their way.
LEMMA HandOver ==
    ASSUME QueryTypeOK, PhaseInv, NEW w \in Workers, Worker(w)
    PROVE  /\ table' = table /\ got' = got
           /\ \/ InHand' = InHand /\ InChannel' = InChannel /\ ~ SendFails(w)
              \/ /\ InHand' = InHand \cup {hand'[w]} /\ InChannel' = InChannel
                 /\ OpenFails(w) \/ ReadFails(w) \/ BatchFails(w) \/ ReadGranule(w)
              \/ /\ hand[w] \in InHand
                 /\ InHand \subseteq InHand' \cup {hand[w]} /\ InHand' \subseteq InHand
                 /\ InChannel' = InChannel \cup {hand[w]}
                 /\ Send(w)
              \/ InHand' \subseteq InHand /\ InChannel' = InChannel /\ SendFails(w)
<1>1. pc \in [Workers -> {"scan", "send", "done", "panicked"}]
      /\ hand \in [Workers -> Result \cup {NoBatch}]
      /\ channel \in Seq(Result)
    BY DEF QueryTypeOK
<1>2. table' = table /\ got' = got
    BY DEF Worker, StopAtLimit, NoMoreWork, SkipPart, OpenFails, OpenPart, TakeWork,
           Panic, ReadFails, BatchFails, ReadGranule, Send, SendFails, data
<1>3. CASE StopAtLimit(w) \/ NoMoreWork(w) \/ SkipPart(w) \/ OpenPart(w) \/ Panic(w)
    <2>1. /\ \A v \in Workers : pc'[v] = "send" <=> pc[v] = "send"
          /\ hand' = hand /\ channel' = channel
        BY <1>1, <1>3 DEF StopAtLimit, NoMoreWork, SkipPart, OpenPart, Panic, TakeWork, data
    <2>2. ~ SendFails(w)
        BY <1>3 DEF StopAtLimit, NoMoreWork, SkipPart, OpenPart, Panic, TakeWork, SendFails
    <2> QED
        BY <1>2, <2>1, <2>2 DEF InHand, InChannel
<1>4. CASE OpenFails(w) \/ ReadFails(w) \/ BatchFails(w) \/ ReadGranule(w)
    <2>1. /\ pc[w] = "scan" /\ channel' = channel
          /\ \/ UNCHANGED <<pc, hand>>
             \/ /\ pc' = [pc EXCEPT ![w] = "send"]
                /\ \E r : hand' = [hand EXCEPT ![w] = r]
        BY <1>4 DEF OpenFails, ReadFails, BatchFails, ReadGranule, TakeWork
    <2>2. ~ SendFails(w)
        BY <2>1 DEF SendFails
    <2>3. CASE UNCHANGED <<pc, hand>>
        BY <1>2, <2>1, <2>2, <2>3 DEF InHand, InChannel
    <2>4. CASE /\ pc' = [pc EXCEPT ![w] = "send"]
               /\ \E r : hand' = [hand EXCEPT ![w] = r]
        <3>1. /\ pc'[w] = "send" /\ pc[w] # "send"
              /\ \A v \in Workers \ {w} : pc'[v] = pc[v] /\ hand'[v] = hand[v]
            BY <1>1, <2>1, <2>4
        <3>2. InHand' = InHand \cup {hand'[w]}
            BY <3>1 DEF InHand
        <3> QED
            BY <1>2, <1>4, <2>1, <3>2 DEF InChannel
    <2> QED
        BY <2>1, <2>3, <2>4
<1>5. CASE Send(w)
    <2>1. /\ pc[w] = "send" /\ hand[w] \in Result
          /\ channel' = Append(channel, hand[w])
          /\ pc' = [pc EXCEPT ![w] = "scan"]
          /\ hand' = [hand EXCEPT ![w] = NoBatch]
        BY <1>5 DEF Send, PhaseInv, QueryTypeOK
    <2>2. /\ pc'[w] # "send"
          /\ \A v \in Workers \ {w} : pc'[v] = pc[v] /\ hand'[v] = hand[v]
        BY <1>1, <2>1
    <2>3. /\ hand[w] \in InHand
          /\ InHand \subseteq InHand' \cup {hand[w]} /\ InHand' \subseteq InHand
        BY <2>1, <2>2 DEF InHand
    <2>4. InChannel' = InChannel \cup {hand[w]}
        <3>1. /\ channel' \in Seq(Result)
              /\ Len(channel') = Len(channel) + 1
              /\ \A k \in 1..Len(channel) : channel'[k] = channel[k]
              /\ channel'[Len(channel) + 1] = hand[w]
            BY <1>1, <2>1, AppendProperties
        <3>2. /\ DOMAIN channel = 1..Len(channel) /\ Len(channel) \in Nat
              /\ DOMAIN channel' = 1..(Len(channel) + 1)
            BY <1>1, <3>1, LenProperties
        <3>3. \A k : k \in 1..(Len(channel) + 1) <=> k \in 1..Len(channel) \/ k = Len(channel) + 1
            BY <3>2, SMT
        <3> QED
            BY <3>1, <3>2, <3>3 DEF InChannel
    <2> QED
        BY <1>2, <1>5, <2>3, <2>4
<1>6. CASE SendFails(w)
    <2>1. /\ channel' = channel /\ hand' = hand
          /\ \A v \in Workers : pc'[v] = "send" => pc[v] = "send"
        BY <1>1, <1>6 DEF SendFails, data
    <2> QED
        BY <1>2, <1>6, <2>1 DEF InHand, InChannel
<1> QED
    BY <1>3, <1>4, <1>5, <1>6 DEF Worker

LEMMA ChannelSet ==
    ASSUME QueryTypeOK, channel # <<>>, channel' = Tail(channel)
    PROVE  InChannel = InChannel' \cup {Head(channel)}
<1>1. /\ Head(channel) = channel[1] /\ 1 \in 1..Len(channel) /\ Len(channel) \in Nat
      /\ Len(channel') = Len(channel) - 1
      /\ \A k \in 1..Len(channel') : channel'[k] = channel[k + 1]
      /\ channel' \in Seq(Result) /\ channel \in Seq(Result)
    BY Received, SMT DEF QueryTypeOK
<1>2. DOMAIN channel = 1..Len(channel) /\ DOMAIN channel' = 1..(Len(channel) - 1)
    BY <1>1, LenProperties
<1>3. \A k \in 1..Len(channel) : k = 1 \/ (k - 1 \in 1..(Len(channel) - 1) /\ (k - 1) + 1 = k)
    BY <1>1, SMT
<1>4. \A k \in 1..(Len(channel) - 1) : k + 1 \in 1..Len(channel)
    BY <1>1, SMT
<1>5. \A r \in InChannel : r = Head(channel) \/ r \in InChannel'
    <2> SUFFICES ASSUME NEW k \in 1..Len(channel), k # 1
                 PROVE  channel[k] \in InChannel'
        BY <1>1, <1>2 DEF InChannel
    <2>1. k - 1 \in 1..(Len(channel) - 1) /\ (k - 1) + 1 = k
        BY <1>3
    <2>2. k - 1 \in DOMAIN channel' /\ channel'[k - 1] = channel[k]
        BY <2>1, <1>1, <1>2
    <2> QED
        BY <2>2 DEF InChannel
<1>6. \A r \in InChannel' : r \in InChannel
    BY <1>1, <1>2, <1>4 DEF InChannel
<1>7. Head(channel) \in InChannel
    BY <1>1, <1>2 DEF InChannel
<1> QED
    BY <1>5, <1>6, <1>7

\* The workers' counts only grow.
LEMMA LimitStaysReached ==
    ASSUME QueryTypeOK, NEW w \in Workers, Worker(w)
    PROVE  /\ \A v \in Workers : LimitReached(v) => LimitReached(v)'
           /\ NoneAtLimit' => NoneAtLimit
<1>1. table' = table
    BY DEF Worker, StopAtLimit, NoMoreWork, SkipPart, OpenFails, OpenPart, TakeWork,
           Panic, ReadFails, BatchFails, ReadGranule, Send, SendFails, data
<1>2. emitted' = emitted \/ ~ LimitReached(w)
    BY DEF Worker, StopAtLimit, NoMoreWork, SkipPart, OpenFails, OpenPart, TakeWork,
           Panic, ReadFails, BatchFails, ReadGranule, Send, SendFails, data
<1>3. \A v \in Workers \ {w} : emitted'[v] = emitted[v]
    BY DEF QueryTypeOK, Worker, StopAtLimit, NoMoreWork, SkipPart, OpenFails, OpenPart, TakeWork,
           Panic, ReadFails, BatchFails, ReadGranule, Send, SendFails, data
<1>4. \A v \in Workers : LimitReached(v) => LimitReached(v)'
    BY <1>1, <1>2, <1>3 DEF LimitReached, Limit
<1> QED
    BY <1>4 DEF NoneAtLimit

\* What a worker reads is a whole matching granule of the part it has open, if
\* it does not fill its limit with it, and it goes on with the next one.
LEMMA ReadWhole ==
    ASSUME QueryTypeOK, NEW w \in Workers, ReadGranule(w), ~ LimitReached(w)',
           NEW p, p = scan[w].part, NEW g, g = scan[w].granule
    PROVE  /\ p \in Parts /\ g \in Granules /\ g <= table.size[p]
           /\ \A v \in Workers \ {w} : scan'[v] = scan[v]
           /\ next' = next
           /\ g \in Matching(table, p) => hand'[w] = Whole(p, g) /\ pc'[w] = "send"
           /\ g \notin Matching(table, p) => pc' = pc /\ hand' = hand
           /\ \/ g >= table.size[p]
              \/ scan'[w].part = p /\ scan'[w].granule = g + 1
<1> DEFINE n == table.rows[p][g]
           read == [part |-> p, granule |-> g, rows |-> Clipped(w, n)]
<1>1. /\ scan[w] # NoScan /\ ~ LimitReached(w)
      /\ g <= table.size[p]
      /\ scan' = [scan EXCEPT ![w] = Advanced(scan[w])]
      /\ IF Clipped(w, n) = 0
         THEN UNCHANGED <<pc, hand, emitted>>
         ELSE /\ hand' = [hand EXCEPT ![w] = read]
              /\ emitted' = [emitted EXCEPT ![w] = @ + Clipped(w, n)]
              /\ pc' = [pc EXCEPT ![w] = "send"]
      /\ next' = next /\ table' = table
    BY DEF ReadGranule
<1>2. p \in Parts /\ g \in Granules
    BY <1>1, ScanFacts
<1>3. n \in Nat
    BY <1>2, TableFacts
<1>4. Clipped(w, n) = n
    <2> SUFFICES ASSUME Clipped(w, n) # n PROVE FALSE
        OBVIOUS
    <2> HIDE DEF n
    <2>1. /\ Limit # NoLimit /\ Limit \in Nat /\ Clipped(w, n) # 0
          /\ emitted[w] + Clipped(w, n) = Limit
        BY <1>1, <1>3, ClippedType
    <2>2. emitted'[w] = Limit /\ Limit' = Limit
        BY <1>1, <2>1 DEF QueryTypeOK, Limit
    <2>3. LimitReached(w)'
        BY <2>1, <2>2 DEF LimitReached
    <2> QED
        BY <2>3
<1>5. g \in Matching(table, p) <=> n # 0
    BY <1>1, <1>2, <1>3, SMT DEF Matching
<1>6. n # 0 => read = Whole(p, g)
    BY <1>4 DEF Whole
<1>7. /\ scan'[w] = Advanced(scan[w])
      /\ \A v \in Workers \ {w} : scan'[v] = scan[v]
    BY <1>1 DEF QueryTypeOK
<1>8. \/ g >= table.size[p]
      \/ scan'[w].part = p /\ scan'[w].granule = g + 1
    BY <1>1, <1>7, AdvancedType
<1> HIDE DEF n, read
<1>9. g \in Matching(table, p) => hand'[w] = Whole(p, g) /\ pc'[w] = "send"
    BY <1>1, <1>4, <1>5, <1>6 DEF QueryTypeOK, n
<1>10. g \notin Matching(table, p) => pc' = pc /\ hand' = hand
    BY <1>1, <1>4, <1>5 DEF n
<1> QED
    BY <1>1, <1>2, <1>7, <1>8, <1>9, <1>10

LEMMA WorkerWhole ==
    ASSUME QueryTypeOK, PhaseInv, WholeInv, NEW w \in Workers, Worker(w)
    PROVE  WholeInv'
<1> SUFFICES ASSUME NoneAtLimit'
             PROVE  (InHand' \cup InChannel' \cup got') \ {Error} \subseteq Answer'
    BY DEF WholeInv, Sent
<1>0. ~ LimitReached(w)'
    BY DEF NoneAtLimit
<1>1. (InHand \cup InChannel \cup got) \ {Error} \subseteq Answer
    BY LimitStaysReached DEF WholeInv, Sent
<1>2. Answer' = Answer /\ got' = got
    BY HandOver DEF Answer, Whole
<1>3. CASE OpenFails(w) \/ ReadFails(w) \/ BatchFails(w)
    <2>1. hand'[w] = Error
        BY <1>3 DEF OpenFails, ReadFails, BatchFails, QueryTypeOK
    <2> QED
        BY <2>1, <1>1, <1>2, HandOver
<1>4. CASE ReadGranule(w)
    <2> DEFINE p == scan[w].part
               g == scan[w].granule
    <2>1. CASE g \in Matching(table, p)
        <3>1. hand'[w] = Whole(p, g) /\ p \in Parts
            BY <1>0, <1>4, <2>1, ReadWhole
        <3>2. Whole(p, g) \in Answer
            BY <2>1, <3>1 DEF Answer
        <3> QED
            BY <3>1, <3>2, <1>1, <1>2, HandOver
    <2>2. CASE g \notin Matching(table, p)
        <3>1. pc' = pc /\ hand' = hand
            BY <1>0, <1>4, <2>2, ReadWhole
        <3>2. channel' = channel
            BY <1>4 DEF ReadGranule
        <3> QED
            BY <3>1, <3>2, <1>1, <1>2 DEF InHand, InChannel
    <2> QED
        BY <2>1, <2>2
<1>5. CASE ~ (OpenFails(w) \/ ReadFails(w) \/ BatchFails(w) \/ ReadGranule(w))
    BY <1>1, <1>2, <1>5, HandOver
<1> QED
    BY <1>3, <1>4, <1>5

LEMMA ConsumerWhole ==
    ASSUME QueryTypeOK, PhaseInv, WholeInv, Consumer
    PROVE  WholeInv'
<1>1. UNCHANGED <<table, hand, pc>>
    BY DEF Consumer, RecvBatch, RecvError, RecvEnd, DropReceiver, JoinWorkers, data
<1>2. InHand' = InHand /\ Answer' = Answer
    BY <1>1 DEF InHand, Answer, Whole
<1>3. got' \cup InChannel' \subseteq got \cup InChannel
    <2>1. CASE RecvBatch \/ RecvError
        BY <2>1, ChannelSet DEF RecvBatch, RecvError
    <2>2. CASE RecvEnd \/ JoinWorkers
        BY <2>2 DEF RecvEnd, JoinWorkers, InChannel
    <2>3. CASE DropReceiver
        <3>1. DOMAIN channel' = {} /\ got' = got
            BY <2>3, SMT DEF DropReceiver
        <3> QED
            BY <3>1 DEF InChannel
    <2> QED
        BY <2>1, <2>2, <2>3 DEF Consumer
<1>4. emitted' = emitted /\ (NoneAtLimit' <=> NoneAtLimit)
    BY DEF Consumer, RecvBatch, RecvError, RecvEnd, DropReceiver, JoinWorkers, data,
           NoneAtLimit, LimitReached, Limit
<1> QED
    BY <1>1, <1>2, <1>3, <1>4 DEF WholeInv, Sent

LEMMA WorkerAccount ==
    ASSUME QueryTypeOK, PhaseInv, AccountInv, NEW w \in Workers, Worker(w)
    PROVE  AccountInv'
<1> SUFFICES ASSUME outcome' = "none", NoneAtLimit', ~ Failed', NEW b \in Answer'
             PROVE  Located(b)'
    BY DEF AccountInv
<1>0. NoneAtLimit /\ ~ LimitReached(w)'
    BY LimitStaysReached DEF NoneAtLimit
<1>1. /\ outcome = "none" /\ rxOpen
      /\ ~ SendFails(w)
    BY WorkerPhase DEF PhaseInv, SendFails
<1>2. b \in Answer /\ got' = got
    BY HandOver DEF Answer, Whole
<1>3. /\ b = Whole(b.part, b.granule)
      /\ b.part \in Parts /\ b.granule \in Granules
      /\ b.part \in Nat /\ b.granule \in Nat
      /\ b.granule \in Matching(table, b.part)
    BY <1>2, AnswerFacts
<1>4. InHand \cup InChannel \subseteq InHand' \cup InChannel'
    BY <1>1, HandOver
<1>5. Located(b)
    BY <1>0, <1>1, <1>2, <1>4 DEF AccountInv, Failed
<1>6. CASE b \in InHand \cup InChannel \cup got
    BY <1>2, <1>4, <1>6 DEF Located
<1>7. ASSUME hand'[w] = Error, pc'[w] = "send"
      PROVE  FALSE
    BY <1>7 DEF Failed, InHand
<1>8. /\ next \in Nat
      /\ scan \in [Workers -> Scans]
      /\ hand \in [Workers -> Result \cup {NoBatch}]
      /\ pc \in [Workers -> {"scan", "send", "done", "panicked"}]
    BY DEF QueryTypeOK
<1>9. CASE b.part >= next
    <2>1. CASE next' = next
        BY <1>9, <2>1 DEF Located
    <2>2. CASE next' = next + 1 /\ b.part # next
        <3>1. b.part >= next'
            BY <1>3, <1>8, <1>9, <2>2, SMT
        <3> QED
            BY <3>1 DEF Located
    <2>3. CASE NoMoreWork(w) /\ b.part = next
        BY <1>3, <2>3 DEF NoMoreWork
    <2>4. CASE SkipPart(w) /\ b.part = next
        <3>1. Matching(table, b.part) = {}
            BY <2>4, QueryAssumption DEF SkipPart, QueryTypeOK
        <3> QED
            BY <3>1, <1>3
    <2>5. CASE OpenFails(w)
        BY <2>5, <1>7, <1>8 DEF OpenFails
    <2>6. CASE OpenPart(w) /\ b.part = next
        <3>1. scan'[w] = [part |-> next, granule |-> 1]
            BY <2>6, <1>8 DEF OpenPart
        <3>2. 1 <= b.granule
            BY <1>3, QueryAssumption, SMT DEF Granules
        <3>3. scan'[w].part = b.part /\ scan'[w].granule <= b.granule
            BY <3>1, <3>2, <2>6
        <3> QED
            BY <3>3 DEF Located
    <2>7. \/ next' = next
          \/ /\ next' = next + 1
             /\ NoMoreWork(w) \/ SkipPart(w) \/ OpenFails(w) \/ OpenPart(w)
        BY DEF Worker, StopAtLimit, NoMoreWork, SkipPart, OpenFails, OpenPart, TakeWork,
               Panic, ReadFails, BatchFails, ReadGranule, Send, SendFails, data
    <2> QED
        BY <2>1, <2>2, <2>3, <2>4, <2>5, <2>6, <2>7
<1>10. ASSUME NEW v \in Workers, scan[v].part = b.part, scan[v].granule <= b.granule
       PROVE  Located(b)'
    <2>1. CASE scan'[v] = scan[v]
        BY <1>10, <2>1 DEF Located
    <2>2. CASE v = w /\ OpenPart(w)
        <3>1. scan[v] = NoScan
            BY <2>2 DEF OpenPart, TakeWork
        <3> QED
            BY <3>1, <1>3, <1>10, ScanFacts, TableFacts
    <2>3. CASE v = w /\ ReadGranule(w)
        <3> DEFINE g == scan[w].granule
        <3>1. /\ g \in Matching(table, b.part) => hand'[w] = Whole(b.part, g) /\ pc'[w] = "send"
              /\ \/ g >= table.size[b.part]
                 \/ scan'[w].part = b.part /\ scan'[w].granule = g + 1
            BY <1>0, <1>1, <1>10, <2>3, ReadWhole
        <3>2. CASE g = b.granule
            <4>1. b \in InHand'
                BY <3>1, <3>2, <1>3 DEF InHand
            <4> QED
                BY <4>1 DEF Located
        <3>3. CASE g # b.granule
            <4>1. /\ g \in Nat /\ g <= b.granule
                  /\ b.granule <= table.size[b.part]
                  /\ table.size[b.part] \in Nat
                BY <1>3, <1>10, <2>3, ScanFacts, TableFacts DEF Matching
            <4> HIDE DEF g
            <4>2. g + 1 <= b.granule /\ ~ (g >= table.size[b.part])
                BY <4>1, <3>3, <1>3, SMT
            <4>3. scan'[w].part = b.part /\ scan'[w].granule <= b.granule
                BY <4>2, <3>1
            <4> QED
                BY <4>3 DEF Located
        <3> QED
            BY <3>2, <3>3
    <2>4. \/ scan'[v] = scan[v]
          \/ v = w /\ (OpenPart(w) \/ BatchFails(w) \/ ReadGranule(w))
        BY <1>8 DEF Worker, StopAtLimit, NoMoreWork, SkipPart, OpenFails, OpenPart, TakeWork,
               Panic, ReadFails, BatchFails, ReadGranule, Send, SendFails, data
    <2>5. CASE BatchFails(w)
        BY <2>5, <1>7, <1>8 DEF BatchFails
    <2> QED
        BY <2>1, <2>2, <2>3, <2>4, <2>5
<1> QED
    BY <1>5, <1>6, <1>9, <1>10 DEF Located

LEMMA ConsumerAccount ==
    ASSUME QueryTypeOK, PhaseInv, AccountInv, Consumer
    PROVE  AccountInv'
<1>0. NoneAtLimit' <=> NoneAtLimit
    BY DEF Consumer, RecvBatch, RecvError, RecvEnd, DropReceiver, JoinWorkers, data,
           NoneAtLimit, LimitReached, Limit
<1>1. UNCHANGED <<table, next, scan, hand, pc>>
    BY DEF Consumer, RecvBatch, RecvError, RecvEnd, DropReceiver, JoinWorkers, data
<1>2. InHand' = InHand /\ Answer' = Answer
    BY <1>1 DEF InHand, Answer, Whole
<1>3. CASE RecvBatch
    <2>1. /\ InChannel = InChannel' \cup {Head(channel)}
          /\ got' = got \cup {Head(channel)} /\ Head(channel) # Error
          /\ outcome' = outcome
        BY <1>3, ChannelSet DEF RecvBatch
    <2>2. Failed' <=> Failed
        BY <2>1, <1>2 DEF Failed
    <2>3. InHand' \cup InChannel' \cup got' = InHand \cup InChannel \cup got
        BY <2>1, <1>2
    <2> QED
        BY <2>1, <2>2, <2>3, <1>1, <1>2, <1>0 DEF AccountInv, Located
<1>4. CASE RecvError \/ RecvEnd
    BY <1>4 DEF RecvError, RecvEnd, AccountInv
<1>5. CASE DropReceiver \/ JoinWorkers
    BY <1>5 DEF DropReceiver, JoinWorkers, AccountInv, PhaseInv
<1> QED
    BY <1>3, <1>4, <1>5 DEF Consumer

\* When the channel is empty and all workers have stopped, one of them normally,
\* there is no place left for a granule but the consumer's hands.
LEMMA NothingLeft ==
    ASSUME QueryTypeOK, PhaseInv, WholeInv, AccountInv,
           outcome = "none", NoneAtLimit, channel = <<>>,
           \A v \in Workers : Stopped(v),
           NEW w \in Workers, pc[w] # "panicked"
    PROVE  got = Answer
<1>1. pc[w] = "done" /\ next \notin Parts /\ next >= 1 /\ next \in Nat
    BY DEF Stopped, PhaseInv, QueryTypeOK, NoneAtLimit
<1>2. InHand = {}
    BY DEF InHand, Stopped
<1>3. InChannel = {}
    <2>1. DOMAIN channel = {}
        BY SMT
    <2> QED
        BY <2>1 DEF InChannel
<1>4. got \subseteq Answer
    <2>1. Error \notin got
        BY QueryAssumption DEF QueryTypeOK
    <2> QED
        BY <2>1 DEF WholeInv, Sent
<1>5. ASSUME NEW b \in Answer PROVE b \in got
    <2>1. /\ b.part \in Parts /\ b.part \in Nat /\ b.granule \in Nat
          /\ b.granule \in Matching(table, b.part) /\ b.granule \in Granules
        BY AnswerFacts
    <2>2. Located(b)
        BY <1>2, <1>3 DEF AccountInv, Failed
    <2>3. ~ (b.part >= next)
        BY <1>1, <2>1, QueryAssumption, SMT DEF Parts
    <2>4. ASSUME NEW v \in Workers, scan[v].part = b.part PROVE FALSE
        <3>1. scan[v] # NoScan
            BY <2>1, <2>4, TableFacts DEF NoScan
        <3>2. pc[v] = "panicked"
            BY <3>1 DEF Stopped, PhaseInv, NoneAtLimit
        <3>3. table.size[b.part] = 0
            BY <3>2, <2>4 DEF PhaseInv
        <3>4. b.granule <= 0
            BY <2>1, <3>3 DEF Matching
        <3> QED
            BY <2>1, <3>4, QueryAssumption, SMT DEF Granules
    <2> QED
        BY <2>2, <2>3, <2>4, <1>2, <1>3 DEF Located
<1> QED
    BY <1>4, <1>5

LEMMA ConsumerComplete ==
    ASSUME QueryTypeOK, PhaseInv, WholeInv, AccountInv, CompleteIfAWorkerSurvives, Consumer
    PROVE  CompleteIfAWorkerSurvives'
<1>1. UNCHANGED <<table, pc>>
    BY DEF Consumer, RecvBatch, RecvError, RecvEnd, DropReceiver, JoinWorkers, data
<1>2. Answer' = Answer
    BY <1>1 DEF Answer, Whole
<1>3. CASE RecvBatch
    BY <1>3 DEF RecvBatch, PhaseInv, CompleteIfAWorkerSurvives
<1>4. CASE RecvError
    BY <1>4 DEF RecvError, CompleteIfAWorkerSurvives
<1>5. CASE RecvEnd
    <2>1. /\ outcome = "none" /\ channel = <<>> /\ (\A v \in Workers : Stopped(v))
          /\ got' = got
        BY <1>5 DEF RecvEnd, PhaseInv
    <2>2. Limit = NoLimit /\ (\E w \in Workers : pc[w] # "panicked") => got = Answer
        BY <2>1, NothingLeft DEF NoneAtLimit, LimitReached
    <2> QED
        BY <2>1, <2>2, <1>1, <1>2 DEF CompleteIfAWorkerSurvives, Limit
<1>6. CASE DropReceiver \/ JoinWorkers
    BY <1>1, <1>2, <1>6 DEF DropReceiver, JoinWorkers, CompleteIfAWorkerSurvives, Limit
<1> QED
    BY <1>3, <1>4, <1>5, <1>6 DEF Consumer

-----------------------------------------------------------------------------
(***************************************************************************)
(* The rows that are counted are the rows that travel                      *)
(***************************************************************************)
BatchRows == [b \in Batch |-> b.rows]

LEMMA TotalSum ==
    ASSUME NEW B, IsFiniteSet(B), B \subseteq Batch
    PROVE  /\ Total(B) = SumFunctionOnSet(BatchRows, B)
           /\ \A b \in B : BatchRows[b] = b.rows /\ BatchRows[b] \in Nat
           /\ Summable(BatchRows, B)
           /\ Total(B) \in Nat
<1> DEFINE f == [b \in B |-> b.rows]
<1>1. \A b \in B : f[b] = b.rows /\ BatchRows[b] = b.rows /\ b.rows \in Nat
    BY DEF BatchRows, Batch
<1>2. Summable(BatchRows, B) /\ SumFunctionOnSet(BatchRows, B) \in Nat
    BY <1>1, SumNat
<1>3. Total(B) = SumFunctionOnSet(f, B)
    BY DEF Total, SumFunction
<1>4. Summable(f, B)
    BY <1>1 DEF Summable
<1>5. SumFunctionOnSet(f, B) = SumFunctionOnSet(BatchRows, B)
    BY <1>1, <1>4, SumSame
<1> QED
    BY <1>1, <1>2, <1>3, <1>5

LEMMA TotalAdd ==
    ASSUME NEW B, IsFiniteSet(B), B \subseteq Batch, NEW b \in Batch, b \notin B
    PROVE  IsFiniteSet(B \cup {b}) /\ Total(B \cup {b}) = Total(B) + b.rows
<1>1. IsFiniteSet(B \cup {b}) /\ B \cup {b} \subseteq Batch
    BY FS_AddElement
<1>2. /\ Total(B) = SumFunctionOnSet(BatchRows, B) /\ Summable(BatchRows, B) /\ Total(B) \in Nat
      /\ Total(B \cup {b}) = SumFunctionOnSet(BatchRows, B \cup {b})
      /\ BatchRows[b] = b.rows /\ b.rows \in Int
    BY <1>1, TotalSum
<1>3. SumFunctionOnSet(BatchRows, B \cup {b}) = BatchRows[b] + SumFunctionOnSet(BatchRows, B)
    BY <1>2, SumAdd
<1> QED
    BY <1>1, <1>2, <1>3

LEMMA TotalSubset ==
    ASSUME NEW B, IsFiniteSet(B), B \subseteq Batch, NEW C \in SUBSET B
    PROVE  IsFiniteSet(C) /\ Total(C) <= Total(B)
<1>1. IsFiniteSet(C) /\ C \subseteq Batch
    BY FS_Subset
<1>2. SumFunctionOnSet(BatchRows, C) <= SumFunctionOnSet(BatchRows, B)
    BY TotalSum, SumSubset
<1> QED
    BY <1>1, <1>2, TotalSum

LEMMA EmittedFacts ==
    ASSUME QueryTypeOK
    PROVE  /\ Summable(emitted, Workers)
           /\ Emitted \in Nat
           /\ \A w \in Workers : emitted[w] \in Nat /\ emitted[w] <= Emitted
<1>1. \A w \in Workers : emitted[w] \in Nat
    BY DEF QueryTypeOK
<1> QED
    BY <1>1, SumNat, QueryAssumption DEF Emitted

LEMMA SentFacts ==
    ASSUME QueryTypeOK, PhaseInv
    PROVE  /\ Sent \subseteq Batch
           /\ got \subseteq Sent /\ got \subseteq Batch
           /\ OrderInv => \A b \in Sent : Behind(b, next, scan)
<1>1. DOMAIN channel = 1..Len(channel)
    BY LenProperties DEF QueryTypeOK
<1>2. /\ \A b \in InHand \ {Error} : b \in Batch /\ (OrderInv => Behind(b, next, scan))
      /\ \A b \in InChannel \ {Error} : b \in Batch /\ (OrderInv => Behind(b, next, scan))
      /\ \A b \in got : b \in Batch /\ b # Error /\ (OrderInv => Behind(b, next, scan))
    BY <1>1, Travelling DEF InHand, InChannel, OrderInv
<1> QED
    BY <1>2 DEF Sent

\* A step that counts nothing and sends nothing new.
LEMMA CountFrame ==
    ASSUME QueryTypeOK, PhaseInv, CountInv, UNCHANGED <<table, emitted>>, Sent' \subseteq Sent,
           outcome' = "none" => outcome = "none" /\ Sent' = Sent
    PROVE  CountInv'
<1>1. IsFiniteSet(Sent') /\ Total(Sent') <= Total(Sent)
    BY SentFacts, TotalSubset DEF CountInv
<1>2. IsFiniteSet(Sent) /\ Sent \subseteq Batch /\ Sent' \subseteq Batch
    BY SentFacts DEF CountInv
<1>3. Total(Sent) \in Nat /\ Total(Sent') \in Nat /\ Emitted \in Nat
    BY <1>1, <1>2, TotalSum, EmittedFacts
<1>4. Total(Sent)' = Total(Sent') /\ Emitted' = Emitted /\ Limit' = Limit
    BY DEF Total, Emitted, Limit
<1>5. Total(Sent') <= Emitted
    BY <1>1, <1>3 DEF CountInv
<1>6. outcome' = "none" => Total(Sent') = Emitted
    BY DEF CountInv
<1>7. Limit' # NoLimit => \A w \in Workers : emitted'[w] <= Limit'
    BY <1>4 DEF CountInv
<1> QED
    BY <1>1, <1>4, <1>5, <1>6, <1>7 DEF CountInv

\* What ReadGranule adds to the count is what it hands over, and it was not
\* sent before.
LEMMA ReadCount ==
    ASSUME QueryTypeOK, PhaseInv, OrderInv, CountInv, NEW w \in Workers, ReadGranule(w)
    PROVE  CountInv'
<1> DEFINE p == scan[w].part
           g == scan[w].granule
           n == Clipped(w, table.rows[p][g])
           read == [part |-> p, granule |-> g, rows |-> n]
<1>1. /\ pc[w] = "scan" /\ ~ LimitReached(w) /\ scan[w] # NoScan
      /\ IF n = 0
         THEN UNCHANGED <<pc, hand, emitted>>
         ELSE /\ hand' = [hand EXCEPT ![w] = read]
              /\ emitted' = [emitted EXCEPT ![w] = @ + n]
              /\ pc' = [pc EXCEPT ![w] = "send"]
      /\ UNCHANGED <<table, channel, got, outcome>>
    BY DEF ReadGranule
<1>2. table.rows[p][g] \in Nat
    BY <1>1, ScanFacts, TableFacts
<1>3. /\ n \in Nat
      /\ Limit # NoLimit => Limit \in Nat /\ emitted[w] + n <= Limit
    BY <1>1, <1>2, ClippedType
<1>4. read \in Batch /\ read.rows = n /\ read.part = p /\ read.granule = g
    BY <1>1, <1>3, ReadBatchType
<1>5. read \notin Sent
    <2>1. g \in Nat
        BY ScanFacts
    <2>2. ~ Behind(read, next, scan)
        BY <1>4, <2>1, SMT DEF Behind
    <2> QED
        BY <2>2, SentFacts
<1> HIDE DEF p, g, n, read
<1>6. CASE n = 0
    <2>1. Sent' = Sent
        BY <1>1, <1>6 DEF Sent, InHand, InChannel
    <2> QED
        BY <1>1, <1>6, <2>1, CountFrame
<1>7. CASE n # 0
    <2>1. /\ pc'[w] = "send" /\ hand'[w] = read /\ emitted'[w] = emitted[w] + n
          /\ \A v \in Workers \ {w} : /\ pc'[v] = pc[v] /\ hand'[v] = hand[v]
                                      /\ emitted'[v] = emitted[v]
        BY <1>1, <1>7 DEF QueryTypeOK
    <2>2. InHand' = InHand \cup {read} /\ InChannel' = InChannel /\ got' = got
        BY <1>1, <2>1 DEF InHand, InChannel
    <2>3. Sent' = Sent \cup {read}
        BY <1>4, <2>2, Travelling DEF Sent
    <2>4. IsFiniteSet(Sent) /\ Sent \subseteq Batch
        BY SentFacts DEF CountInv
    <2>5. IsFiniteSet(Sent') /\ Total(Sent') = Total(Sent) + n
        BY <1>4, <1>5, <2>3, <2>4, TotalAdd
    <2>6. \A v \in Workers : emitted[v] \in Nat
        BY EmittedFacts
    <2>7. emitted'[w] \in Int
        BY <1>3, <2>1, <2>6
    <2>8. Emitted' = Emitted - emitted[w] + emitted'[w]
        BY <2>1, <2>7, EmittedFacts, SumChange DEF Emitted
    <2>9. Emitted' = Emitted + n
        BY <1>3, <2>1, <2>6, <2>8, EmittedFacts
    <2>10. Total(Sent) \in Nat /\ Emitted \in Nat
        BY <2>4, TotalSum, EmittedFacts
    <2>11. Total(Sent)' = Total(Sent') /\ Limit' = Limit
        BY <1>1 DEF Total, Limit
    <2>12. Limit' # NoLimit => \A v \in Workers : emitted'[v] <= Limit'
        BY <1>3, <2>1, <2>11 DEF CountInv
    <2>13. /\ Total(Sent') <= Emitted'
           /\ outcome' = "none" => Total(Sent') = Emitted'
        BY <1>1, <1>3, <2>5, <2>9, <2>10 DEF CountInv
    <2> QED
        BY <2>5, <2>11, <2>12, <2>13 DEF CountInv
<1> QED
    BY <1>6, <1>7

LEMMA WorkerCount ==
    ASSUME QueryTypeOK, PhaseInv, OrderInv, CountInv, NEW w \in Workers, Worker(w)
    PROVE  CountInv'
<1>1. CASE ReadGranule(w)
    BY <1>1, ReadCount
<1>2. CASE ~ ReadGranule(w)
    <2>1. UNCHANGED <<table, emitted, outcome>>
        BY <1>2 DEF Worker, StopAtLimit, NoMoreWork, SkipPart, OpenFails, OpenPart, TakeWork,
               Panic, ReadFails, BatchFails, Send, SendFails, data
    <2>2. OpenFails(w) \/ ReadFails(w) \/ BatchFails(w) => hand'[w] = Error
        BY DEF OpenFails, ReadFails, BatchFails, QueryTypeOK
    <2>3. Sent' \subseteq Sent
        BY <1>2, <2>2, HandOver DEF Sent
    <2>4. SendFails(w) => outcome # "none"
        BY DEF SendFails, PhaseInv
    <2>5. ~ SendFails(w) => Sent' = Sent
        BY <1>2, <2>2, HandOver DEF Sent
    <2> QED
        BY <2>1, <2>3, <2>4, <2>5, CountFrame
<1> QED
    BY <1>1, <1>2

LEMMA ConsumerCount ==
    ASSUME QueryTypeOK, PhaseInv, CountInv, Consumer
    PROVE  CountInv'
<1>1. UNCHANGED <<table, hand, pc, emitted>>
    BY DEF Consumer, RecvBatch, RecvError, RecvEnd, DropReceiver, JoinWorkers, data
<1>2. InHand' = InHand
    BY <1>1 DEF InHand
<1>3. CASE RecvBatch \/ RecvError
    <2>1. /\ channel # <<>> /\ channel' = Tail(channel)
          /\ \/ got' = got \cup {Head(channel)} /\ outcome' = outcome
             \/ got' = got /\ Head(channel) = Error /\ outcome' # "none"
        BY <1>3 DEF RecvBatch, RecvError
    <2>2. InChannel = InChannel' \cup {Head(channel)}
        BY <2>1, ChannelSet
    <2>3. Sent' = Sent
        BY <2>1, <2>2, <1>2 DEF Sent
    <2> QED
        BY <1>1, <2>1, <2>3, CountFrame
<1>4. CASE RecvEnd \/ JoinWorkers
    <2>1. Sent' = Sent
        BY <1>2, <1>4 DEF RecvEnd, JoinWorkers, Sent, InChannel
    <2>2. outcome' = "none" => outcome = "none"
        BY <1>4 DEF RecvEnd, JoinWorkers
    <2> QED
        BY <1>1, <2>1, <2>2, CountFrame
<1>5. CASE DropReceiver
    <2>1. DOMAIN channel' = {} /\ got' = got /\ outcome' # "none"
        BY <1>5, SMT DEF DropReceiver, PhaseInv
    <2>2. Sent' \subseteq Sent
        BY <1>2, <2>1 DEF Sent, InChannel
    <2> QED
        BY <1>1, <2>1, <2>2, CountFrame
<1> QED
    BY <1>3, <1>4, <1>5 DEF Consumer

\* At the end a worker that reached the limit has sent at least that many rows,
\* and all of them have been received.
LEMMA ConsumerLimit ==
    ASSUME QueryTypeOK, PhaseInv, WholeInv, AccountInv, CountInv, LimitNotShort, Consumer
    PROVE  LimitNotShort'
<1>1. UNCHANGED <<table, pc>>
    BY DEF Consumer, RecvBatch, RecvError, RecvEnd, DropReceiver, JoinWorkers, data
<1>2. Answer' = Answer /\ Limit' = Limit
    BY <1>1 DEF Answer, Whole, Limit
<1>3. CASE RecvBatch \/ RecvError
    BY <1>3 DEF RecvBatch, RecvError, PhaseInv, LimitNotShort
<1>4. CASE RecvEnd
    <2>1. /\ outcome = "none" /\ channel = <<>> /\ (\A v \in Workers : Stopped(v))
          /\ got' = got
        BY <1>4 DEF RecvEnd, PhaseInv
    <2>2. CASE NoneAtLimit
        <3>1. (\E w \in Workers : pc[w] # "panicked") => got = Answer
            BY <2>1, <2>2, NothingLeft
        <3> QED
            BY <2>1, <3>1, <1>1, <1>2 DEF LimitNotShort
    <2>3. CASE ~ NoneAtLimit
        <3>1. PICK w \in Workers : Limit # NoLimit /\ emitted[w] >= Limit
            BY <2>3 DEF NoneAtLimit, LimitReached
        <3>2. InHand = {} /\ InChannel = {}
            <4>1. DOMAIN channel = {}
                BY <2>1, SMT
            <4> QED
                BY <2>1, <4>1 DEF InHand, InChannel, Stopped
        <3>3. Sent = got
            BY <3>2, SentFacts DEF Sent
        <3>4. Total(got) = Emitted
            BY <2>1, <3>3 DEF CountInv
        <3>5. Limit \in Nat
            BY <3>1, QueryAssumption DEF QueryTypeOK, TableType, Limit
        <3>6. Total(got) >= Limit
            BY <3>1, <3>4, <3>5, EmittedFacts
        <3>7. Total(got)' = Total(got)
            BY <2>1 DEF Total
        <3> QED
            BY <3>6, <3>7, <1>2 DEF LimitNotShort
    <2> QED
        BY <2>2, <2>3
<1>5. CASE DropReceiver \/ JoinWorkers
    <2>1. got' = got /\ outcome' = outcome
        BY <1>5 DEF DropReceiver, JoinWorkers
    <2>2. Total(got)' = Total(got)
        BY <2>1 DEF Total
    <2> QED
        BY <1>1, <1>2, <2>1, <2>2 DEF LimitNotShort
<1> QED
    BY <1>3, <1>4, <1>5 DEF Consumer

-----------------------------------------------------------------------------
(***************************************************************************)
(* The theorems                                                            *)
(***************************************************************************)
LEMMA InitInv == Init => IInv
<1> SUFFICES ASSUME Init PROVE IInv
    OBVIOUS
<1> USE DEF Init
<1>1. <<>> \in Seq(Result) /\ Len(<<>>) = 0 /\ DOMAIN <<>> = {} /\ 1..0 = {}
    BY EmptySeq, SMT
<1>2. QueryTypeOK
    BY <1>1, QueryAssumption, SMT DEF QueryTypeOK, Scans
<1>3. PhaseInv
    BY SMT DEF PhaseInv
<1>4. InHand = {} /\ InChannel = {}
    BY <1>1 DEF InHand, InChannel
<1>5. OrderInv
    BY <1>1 DEF OrderInv
<1>6. WholeInv /\ Sent = {}
    BY <1>4 DEF WholeInv, Sent
<1>7. AccountInv
    <2> SUFFICES ASSUME NEW b \in Answer PROVE b.part >= next
        BY DEF AccountInv, Located
    <2>1. b.part \in Parts
        BY <1>2, AnswerFacts
    <2> QED
        BY <2>1, QueryAssumption, SMT DEF Parts
<1>8. CompleteIfAWorkerSurvives /\ LimitNotShort
    BY DEF CompleteIfAWorkerSurvives, LimitNotShort
<1>9. CountInv
    <2>1. IsFiniteSet(Sent) /\ Total(Sent) = 0
        BY <1>6, FS_EmptySet, TotalSum, SumEmpty
    <2>2. \A w \in Workers : emitted[w] = 0
        OBVIOUS
    <2>3. Limit # NoLimit => \A w \in Workers : emitted[w] <= Limit
        BY <2>2, <1>2, QueryAssumption DEF QueryTypeOK, TableType, Limit
    <2>4. Emitted <= Cardinality(Workers) * 0 /\ Cardinality(Workers) \in Nat
        BY <1>2, <2>2, EmittedFacts, SumBound DEF Emitted
    <2>5. Emitted = 0
        BY <1>2, <2>4, EmittedFacts, SMT
    <2> QED
        BY <2>1, <2>3, <2>5 DEF CountInv
<1> QED
    BY <1>2, <1>3, <1>5, <1>6, <1>7, <1>8, <1>9 DEF IInv

LEMMA NextInv == IInv /\ [Next]_vars => IInv'
<1> SUFFICES ASSUME IInv, [Next]_vars PROVE IInv'
    OBVIOUS
<1>1. /\ QueryTypeOK /\ PhaseInv /\ OrderInv /\ WholeInv /\ AccountInv /\ CountInv
      /\ CompleteIfAWorkerSurvives /\ LimitNotShort
    BY DEF IInv
<1>2. ASSUME NEW w \in Workers, Worker(w) PROVE IInv'
    <2>1. QueryTypeOK' /\ PhaseInv' /\ OrderInv' /\ WholeInv' /\ AccountInv' /\ CountInv'
        BY <1>1, <1>2, WorkerType, WorkerPhase, WorkerOrder, WorkerWhole, WorkerAccount,
           WorkerCount
    <2>2. outcome' = outcome /\ outcome # "ok"
        BY <1>1, <1>2, WorkerPhase
    <2>3. CompleteIfAWorkerSurvives' /\ LimitNotShort'
        BY <2>2 DEF CompleteIfAWorkerSurvives, LimitNotShort
    <2> QED
        BY <2>1, <2>3 DEF IInv
<1>3. CASE Consumer
    BY <1>1, <1>3, ConsumerType, ConsumerPhase, ConsumerOrder, ConsumerWhole,
       ConsumerAccount, ConsumerCount, ConsumerComplete, ConsumerLimit DEF IInv
<1>4. CASE UNCHANGED vars
    <2>1. UNCHANGED <<table, next, pc, scan, hand, emitted, channel, rxOpen, consumer, got, outcome>>
        BY <1>4 DEF vars
    <2>2. QueryTypeOK' /\ PhaseInv' /\ OrderInv'
        BY <2>1, <1>1 DEF QueryTypeOK, PhaseInv, OrderInv, Stopped, LimitReached, Limit
    <2>3. /\ Answer' = Answer /\ InHand' = InHand /\ InChannel' = InChannel
          /\ Limit' = Limit /\ (NoneAtLimit' <=> NoneAtLimit)
        BY <2>1 DEF Answer, Whole, InHand, InChannel, NoneAtLimit, LimitReached, Limit
    <2>4. Sent' = Sent /\ Total(got)' = Total(got)
        BY <2>1, <2>3 DEF Sent, Total
    <2>5. WholeInv' /\ AccountInv'
        BY <2>1, <2>3, <2>4, <1>1 DEF WholeInv, AccountInv, Located, Failed
    <2>6. CountInv'
        BY <2>1, <2>4, <1>1, CountFrame
    <2>7. CompleteIfAWorkerSurvives' /\ LimitNotShort'
        BY <2>1, <2>3, <2>4, <1>1 DEF CompleteIfAWorkerSurvives, LimitNotShort
    <2> QED
        BY <2>2, <2>5, <2>6, <2>7 DEF IInv
<1> QED
    BY <1>2, <1>3, <1>4 DEF Next, Returned

LEMMA Invariance == Spec => []IInv
BY InitInv, NextInv, PTL DEF Spec

\* Workers, channel and consumer keep their types; the channel never holds
\* more than its capacity, because send() blocks.
THEOREM TypeCorrect == Spec => []QueryTypeOK
<1>1. IInv => QueryTypeOK
    BY DEF IInv
<1> QED
    BY <1>1, Invariance, PTL

\* The workers share only the index of PartWorkSource, and no granule reaches
\* the consumer of GatherExec twice, for any number of workers and parts.
THEOREM NothingTwice == Spec => []NoDuplicates
<1>1. IInv => NoDuplicates
    <2> SUFFICES ASSUME IInv PROVE NoDuplicates
        OBVIOUS
    <2>1. QueryTypeOK /\ PhaseInv /\ OrderInv
        BY DEF IInv
    <2>2. DOMAIN channel = 1..Len(channel)
        BY <2>1, LenProperties DEF QueryTypeOK
    <2>3. \A c \in got : c # Error
        BY <2>1, Travelling
    <2>4. \A b \in (InHand \cup InChannel) \ {Error} :
              Granule(b) \notin {Granule(c) : c \in got}
        BY <2>1, <2>2, <2>3 DEF OrderInv, InHand, InChannel, Differ
    <2>5. \A v, w \in Workers : v # w /\ scan[v] # NoScan /\ scan[w] # NoScan =>
              scan[v].part # scan[w].part
        BY <2>1 DEF OrderInv
    <2>6. \A i, j \in DOMAIN channel : i # j /\ channel[i] # Error /\ channel[j] # Error =>
              Granule(channel[i]) # Granule(channel[j])
        BY <2>1, <2>2 DEF OrderInv, Differ
    <2> QED
        BY <2>4, <2>5, <2>6 DEF NoDuplicates
<1> QED
    BY <1>1, Invariance, PTL

\* A query without LIMIT that returns Ok has every matching row, whatever files
\* failed to open or read and whatever workers panicked, as long as one did not.
THEOREM NothingLost == Spec => []CompleteIfAWorkerSurvives
<1>1. IInv => CompleteIfAWorkerSurvives
    BY DEF IInv
<1> QED
    BY <1>1, Invariance, PTL

\* Although each worker stops at its own count, a successful query with a LIMIT
\* has that many rows, or all there are, if not all its workers have panicked.
THEOREM LimitDelivered == Spec => []LimitNotShort
<1>1. IInv => LimitNotShort
    BY DEF IInv
<1> QED
    BY <1>1, Invariance, PTL

\* LIMIT holds for each worker of GatherExec: an answer never has more rows than
\* the limit times the number of workers.
THEOREM LimitBound == Spec => []LimitPerWorker
<1>1. IInv => LimitPerWorker
    <2> SUFFICES ASSUME IInv, Limit # NoLimit
                 PROVE  Total(got) <= Cardinality(Workers) * Limit
        BY DEF LimitPerWorker
    <2>1. QueryTypeOK /\ PhaseInv /\ CountInv
        BY DEF IInv
    <2>2. /\ IsFiniteSet(Sent) /\ Sent \subseteq Batch /\ got \subseteq Sent
          /\ Total(Sent) <= Emitted
          /\ \A w \in Workers : emitted[w] <= Limit
        BY <2>1, SentFacts DEF CountInv
    <2>3. IsFiniteSet(got) /\ Total(got) <= Total(Sent)
        BY <2>2, TotalSubset
    <2>4. Limit \in Int
        BY <2>1, QueryAssumption DEF QueryTypeOK, TableType, Limit
    <2>5. Cardinality(Workers) \in Nat /\ Emitted <= Cardinality(Workers) * Limit
        BY <2>1, <2>2, <2>4, EmittedFacts, SumBound DEF Emitted
    <2> DEFINE bound == Cardinality(Workers) * Limit
    <2>6. bound \in Int
        BY <2>4, <2>5, SMT
    <2>7. Total(got) \in Nat /\ Total(Sent) \in Nat /\ Emitted \in Nat
        BY <2>1, <2>2, <2>3, TotalSum, EmittedFacts
    <2>8. Emitted <= bound
        BY <2>5
    <2> HIDE DEF bound
    <2>9. Total(got) <= bound
        BY <2>2, <2>3, <2>6, <2>7, <2>8
    <2> QED
        BY <2>9 DEF bound
<1> QED
    BY <1>1, Invariance, PTL
=============================================================================
