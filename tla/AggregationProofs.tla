-------------------------- MODULE AggregationProofs --------------------------
(***************************************************************************)
(* Proofs about Aggregation for any number of workers, parts and granules, *)
(* any table content, any query, any LIMIT and both builds.                *)
(***************************************************************************)
EXTENDS Aggregation, QueryProofs

-----------------------------------------------------------------------------
(***************************************************************************)
(* Probing a batch: the fold of Probe over the keys of a batch             *)
(***************************************************************************)
\* h is the function that the fold over the positions S of a batch defines.
ProbeFolds(h, keys, batchKeys, S) ==
    h = [s \in SUBSET S |-> IF s = {} THEN keys
                            ELSE Probe(h[s \ {Max(s)}], batchKeys[Max(s)])]

ProbeFoldOf(keys, batchKeys, S) == CHOOSE h : ProbeFolds(h, keys, batchKeys, S)

LEMMA ProbeIsFold ==
    \A keys, batchKeys : FoldLeft(Probe, keys, batchKeys) =
        ProbeFoldOf(keys, batchKeys, DOMAIN batchKeys)[DOMAIN batchKeys]
BY DEF FoldLeft, MapThenFoldSet, ProbeFoldOf, ProbeFolds

\* A finite set of positions.
Numbers(S) == IsFiniteSet(S) /\ \A x \in S : x \in Int

LEMMA Highest ==
    ASSUME NEW S, Numbers(S), NEW s \in SUBSET S
    PROVE  Numbers(s) /\ (s # {} => Max(s) \in s)
<1>1. Numbers(s)
    BY FS_Subset DEF Numbers
<1> QED
    BY <1>1, Extremes DEF Numbers

LEMMA ProbeFoldsAgree ==
    ASSUME NEW keys, NEW batchKeys, NEW S, Numbers(S), NEW T \in SUBSET S,
           NEW g, NEW h, ProbeFolds(g, keys, batchKeys, S), ProbeFolds(h, keys, batchKeys, T)
    PROVE  \A s \in SUBSET T : g[s] = h[s]
<1> DEFINE B == {s \in SUBSET T : g[s] # h[s]}
<1>1. SUFFICES ASSUME B # {} PROVE FALSE
    OBVIOUS
<1>2. PICK s \in B : \A t \in B : ~ (t \subseteq s /\ t # s)
    <2>1. B \in SUBSET (SUBSET S) /\ IsFiniteSet(S)
        BY DEF Numbers
    <2> HIDE DEF B
    <2> QED
        BY <1>1, <2>1, Smallest
<1>3. s \in SUBSET T /\ s \in SUBSET S /\ g[s] # h[s]
    OBVIOUS
<1> DEFINE x == Max(s)
<1>4. /\ g[s] = IF s = {} THEN keys ELSE Probe(g[s \ {x}], batchKeys[x])
      /\ h[s] = IF s = {} THEN keys ELSE Probe(h[s \ {x}], batchKeys[x])
    BY <1>3 DEF ProbeFolds
<1>5. s # {}
    BY <1>3, <1>4
<1>6. x \in s
    BY <1>3, <1>5, Highest
<1> HIDE DEF x
<1>7. s \ {x} \subseteq s /\ s \ {x} # s /\ s \ {x} \in SUBSET T
    BY <1>3, <1>6
<1>8. g[s \ {x}] = h[s \ {x}]
    BY <1>2, <1>7
<1> QED
    BY <1>3, <1>4, <1>5, <1>8

\* If the folds over all proper subsets exist, this is the fold over S.
LEMMA NextProbeFold ==
    ASSUME NEW keys, NEW batchKeys, NEW S, Numbers(S),
           \A s \in SUBSET S : s # S => \E h : ProbeFolds(h, keys, batchKeys, s)
    PROVE  \E h : ProbeFolds(h, keys, batchKeys, S)
<1> DEFINE H(s) == ProbeFoldOf(keys, batchKeys, s)
           Rest(s) == s \ {Max(s)}
           g == [s \in SUBSET S |-> IF s = {} THEN keys
                                    ELSE Probe(H(Rest(s))[Rest(s)], batchKeys[Max(s)])]
<1>1. ASSUME NEW s \in SUBSET S, s # S
      PROVE  ProbeFolds(H(s), keys, batchKeys, s)
    BY <1>1 DEF ProbeFoldOf
<1>2. ASSUME NEW s \in SUBSET S, s # {}
      PROVE  g[Rest(s)] = H(Rest(s))[Rest(s)]
    <2> DEFINE t == Rest(s)
               u == Rest(t)
    <2>1. t \in SUBSET S /\ t # S
        BY <1>2, Highest
    <2>2. ProbeFolds(H(t), keys, batchKeys, t)
        BY <1>1, <2>1
    <2>3. H(t)[t] = IF t = {} THEN keys ELSE Probe(H(t)[u], batchKeys[Max(t)])
        BY <2>2 DEF ProbeFolds
    <2>4. g[t] = IF t = {} THEN keys ELSE Probe(H(u)[u], batchKeys[Max(t)])
        BY <2>1
    <2>5. CASE t = {}
        BY <2>3, <2>4, <2>5
    <2>6. CASE t # {}
        <3>1. Numbers(t) /\ Max(t) \in t
            BY <2>1, <2>6, Highest
        <3>2. u \in SUBSET S /\ u # S /\ u \in SUBSET t
            BY <2>1, <3>1
        <3>3. ProbeFolds(H(u), keys, batchKeys, u)
            BY <1>1, <3>2
        <3> HIDE DEF t, u, H
        <3>4. H(t)[u] = H(u)[u]
            BY <2>2, <3>1, <3>2, <3>3, ProbeFoldsAgree
        <3> QED
            BY <2>3, <2>4, <3>4, <2>6 DEF t
    <2> QED
        BY <2>5, <2>6
<1>3. ProbeFolds(g, keys, batchKeys, S)
    <2>1. \A s \in SUBSET S :
              g[s] = IF s = {} THEN keys ELSE Probe(g[Rest(s)], batchKeys[Max(s)])
        <3> SUFFICES ASSUME NEW s \in SUBSET S
                     PROVE  g[s] = IF s = {} THEN keys ELSE Probe(g[Rest(s)], batchKeys[Max(s)])
            OBVIOUS
        <3>1. g[s] = IF s = {} THEN keys ELSE Probe(H(Rest(s))[Rest(s)], batchKeys[Max(s)])
            OBVIOUS
        <3> HIDE DEF g, H, Rest
        <3> QED
            BY <3>1, <1>2
    <2>2. g = [s \in SUBSET S |-> g[s]]
        OBVIOUS
    <2> HIDE DEF g
    <2> QED
        BY <2>1, <2>2 DEF ProbeFolds
<1> QED
    BY <1>3

LEMMA ProbeFoldExists ==
    ASSUME NEW keys, NEW batchKeys, NEW S, Numbers(S)
    PROVE  ProbeFolds(ProbeFoldOf(keys, batchKeys, S), keys, batchKeys, S)
<1> DEFINE B == {s \in SUBSET S : ~ \E h : ProbeFolds(h, keys, batchKeys, s)}
<1>1. B = {}
    <2> SUFFICES ASSUME B # {} PROVE FALSE
        OBVIOUS
    <2>1. PICK s \in B : \A t \in B : ~ (t \subseteq s /\ t # s)
        <3>1. B \in SUBSET (SUBSET S) /\ IsFiniteSet(S)
            BY DEF Numbers
        <3> HIDE DEF B
        <3> QED
            BY <3>1, Smallest
    <2>2. Numbers(s) /\ s \in SUBSET S
        BY Highest
    <2>3. \A t \in SUBSET s : t # s => \E h : ProbeFolds(h, keys, batchKeys, t)
        BY <2>1, <2>2
    <2>4. \E h : ProbeFolds(h, keys, batchKeys, s)
        BY <2>2, <2>3, NextProbeFold
    <2> QED
        BY <2>4
<1>2. \E h : ProbeFolds(h, keys, batchKeys, S)
    BY <1>1
<1> QED
    BY <1>2 DEF ProbeFoldOf

\* What is probed for is there afterwards, once, and nothing moves.
LEMMA ProbeStep ==
    ASSUME NEW K, NEW v \in Seq(K), IsInjective(v), NEW k \in K
    PROVE  /\ Probe(v, k) \in Seq(K) /\ IsInjective(Probe(v, k))
           /\ Len(v) <= Len(Probe(v, k))
           /\ \A j \in 1..Len(v) : Probe(v, k)[j] = v[j]
           /\ ToSet(Probe(v, k)) = ToSet(v) \cup {k}
<1>1. Len(v) \in Nat /\ DOMAIN v = 1..Len(v)
    BY LenProperties
<1>2. CASE Contains(v, k)
    <2>1. Probe(v, k) = v
        BY <1>2 DEF Probe
    <2>2. k \in ToSet(v)
        BY <1>1, <1>2 DEF Contains, ToSet
    <2> QED
        BY <1>1, <2>1, <2>2
<1>3. CASE ~ Contains(v, k)
    <2>1. Probe(v, k) = Append(v, k)
        BY <1>3 DEF Probe
    <2>2. /\ Append(v, k) \in Seq(K) /\ Len(Append(v, k)) = Len(v) + 1
          /\ \A j \in 1..Len(v) : Append(v, k)[j] = v[j]
          /\ Append(v, k)[Len(v) + 1] = k
        BY AppendProperties
    <2>3. DOMAIN Append(v, k) = 1..(Len(v) + 1)
        BY <2>2, LenProperties
    <2>4. \A j \in 1..(Len(v) + 1) : j \in 1..Len(v) \/ j = Len(v) + 1
        BY <1>1, SMT
    <2>5. \A j \in 1..Len(v) : j \in 1..(Len(v) + 1) /\ v[j] # k
        BY <1>1, <1>3, SMT DEF Contains
    <2>6. Len(v) + 1 \in 1..(Len(v) + 1) /\ Len(v) <= Len(v) + 1
        BY <1>1, SMT
    <2>7. IsInjective(Append(v, k))
        BY <1>1, <2>2, <2>3, <2>4, <2>5 DEF IsInjective
    <2>8. ToSet(Append(v, k)) = ToSet(v) \cup {k}
        BY <1>1, <2>2, <2>3, <2>4, <2>5, <2>6 DEF ToSet
    <2> QED
        BY <2>1, <2>2, <2>6, <2>7, <2>8
<1> QED
    BY <1>2, <1>3

\* After a batch, the groups are those from before it, at their indices, and
\* those of its rows.
LEMMA Probing ==
    ASSUME NEW K, NEW keys \in Seq(K), IsInjective(keys), NEW batchKeys \in Seq(K),
           NEW new, new = ProbeFoldOf(keys, batchKeys, DOMAIN batchKeys)[DOMAIN batchKeys]
    PROVE  /\ new \in Seq(K) /\ IsInjective(new)
           /\ Len(keys) <= Len(new)
           /\ \A j \in 1..Len(keys) : new[j] = keys[j]
           /\ ToSet(new) = ToSet(keys) \cup ToSet(batchKeys)
<1> DEFINE S == DOMAIN batchKeys
           h == ProbeFoldOf(keys, batchKeys, S)
           Good(s) == /\ h[s] \in Seq(K) /\ IsInjective(h[s])
                      /\ Len(keys) <= Len(h[s])
                      /\ \A j \in 1..Len(keys) : h[s][j] = keys[j]
                      /\ ToSet(h[s]) = ToSet(keys) \cup {batchKeys[i] : i \in s}
           B == {s \in SUBSET S : ~ Good(s)}
<1>1. /\ Numbers(S)
      /\ Len(keys) \in Nat
      /\ \A i \in S : batchKeys[i] \in K
    <2>1. S = 1..Len(batchKeys) /\ Len(batchKeys) \in Nat
        BY LenProperties
    <2>2. IsFiniteSet(1..Len(batchKeys))
        BY <2>1, FS_Interval
    <2>3. \A i \in 1..Len(batchKeys) : i \in Int
        BY <2>1, SMT
    <2>4. \A i \in 1..Len(batchKeys) : batchKeys[i] \in K
        BY ElementOfSeq
    <2>5. Len(keys) \in Nat
        BY LenProperties
    <2> QED
        BY <2>1, <2>2, <2>3, <2>4, <2>5 DEF Numbers
<1>2. ProbeFolds(h, keys, batchKeys, S)
    BY <1>1, ProbeFoldExists
<1>3. new = h[S]
    OBVIOUS
<1> HIDE DEF h
<1>4. B = {}
    <2> SUFFICES ASSUME B # {} PROVE FALSE
        OBVIOUS
    <2>1. PICK s \in B : \A t \in B : ~ (t \subseteq s /\ t # s)
        <3>1. B \in SUBSET (SUBSET S) /\ IsFiniteSet(S)
            BY <1>1 DEF Numbers
        <3> HIDE DEF B
        <3> QED
            BY <3>1, Smallest
    <2>2. s \in SUBSET S /\ ~ Good(s)
        BY <2>1
    <2> DEFINE x == Max(s)
               t == s \ {x}
    <2>3. h[s] = IF s = {} THEN keys ELSE Probe(h[t], batchKeys[x])
        BY <1>2, <2>2 DEF ProbeFolds
    <2>4. CASE s = {}
        <3>1. {batchKeys[i] : i \in s} = {} /\ h[s] = keys
            BY <2>3, <2>4
        <3>2. Len(keys) <= Len(keys)
            BY <1>1
        <3> QED
            BY <2>2, <3>1, <3>2
    <2>5. CASE s # {}
        <3>1. x \in s /\ x \in S
            BY <1>1, <2>2, <2>5, Highest
        <3>2. t \in SUBSET S /\ t \subseteq s /\ t # s /\ s = t \cup {x}
            BY <2>2, <3>1
        <3>3. Good(t)
            BY <2>1, <3>2
        <3>4. batchKeys[x] \in K
            BY <1>1, <3>1
        <3>5. h[s] = Probe(h[t], batchKeys[x])
            BY <2>3, <2>5
        <3>6. {batchKeys[i] : i \in s} = {batchKeys[i] : i \in t} \cup {batchKeys[x]}
            BY <3>2
        <3>7. h[t] \in Seq(K) /\ IsInjective(h[t])
            BY <3>3
        <3> HIDE DEF x, t
        <3>8. /\ h[s] \in Seq(K) /\ IsInjective(h[s])
              /\ Len(h[t]) <= Len(h[s])
              /\ \A j \in 1..Len(h[t]) : h[s][j] = h[t][j]
              /\ ToSet(h[s]) = ToSet(h[t]) \cup {batchKeys[x]}
            <4> DEFINE v == h[t]
                       k == batchKeys[x]
            <4>1. v \in Seq(K) /\ IsInjective(v) /\ k \in K /\ h[s] = Probe(v, k)
                BY <3>4, <3>5, <3>7
            <4> HIDE DEF v, k, B, Good, S
            <4>2. /\ Probe(v, k) \in Seq(K) /\ IsInjective(Probe(v, k))
                  /\ Len(v) <= Len(Probe(v, k))
                  /\ \A j \in 1..Len(v) : Probe(v, k)[j] = v[j]
                  /\ ToSet(Probe(v, k)) = ToSet(v) \cup {k}
                BY <4>1, ProbeStep
            <4> QED
                BY <4>1, <4>2 DEF v, k
        <3>9. Len(h[t]) \in Nat /\ Len(h[s]) \in Nat
            BY <3>7, <3>8, LenProperties
        <3>10. Len(keys) <= Len(h[s]) /\ \A j \in 1..Len(keys) : j \in 1..Len(h[t])
            BY <1>1, <3>3, <3>8, <3>9
        <3>11. \A j \in 1..Len(keys) : h[s][j] = keys[j]
            BY <3>3, <3>8, <3>10
        <3>12. ToSet(h[s]) = ToSet(keys) \cup {batchKeys[i] : i \in s}
            BY <3>3, <3>6, <3>8
        <3> QED
            BY <2>2, <3>8, <3>10, <3>11, <3>12
    <2> QED
        BY <2>4, <2>5
<1>5. Good(S)
    BY <1>4
<1> QED
    BY <1>3, <1>5 DEF ToSet
-----------------------------------------------------------------------------
(***************************************************************************)
(* Rows and their sums                                                     *)
(***************************************************************************)
\* Every row of the table, matching or not.
Rows == {r \in Parts \X Granules \X Positions : r[3] \in DOMAIN Content[r[1]][r[2]]}

\* The key of a row, and what keys can be, under a query q.
KeyIn(q, r) == Restrict(Content[r[1]][r[2]][r[3]], q.groupBy)
KeyType(q) == [q.groupBy -> Keys \cup SumRange]

ValOf == [r \in Rows |-> Val(r)]
Vals(R) == {Val(r) : r \in R}

LEMMA ContentFacts ==
    ASSUME NEW p \in Parts, NEW g \in Granules
    PROVE  /\ Content[p][g] \in Seq(Row)
           /\ Len(Content[p][g]) \in Nat
           /\ DOMAIN Content[p][g] = 1..Len(Content[p][g])
           /\ \A i \in DOMAIN Content[p][g] :
                 /\ Content[p][g][i] \in Row
                 /\ Content[p][g][i].val \in SumRange
                 /\ Content[p][g][i].key \in Keys
                 /\ <<p, g, i>> \in Rows
<1>1. Content[p][g] \in Seq(Row)
    BY AggregationAssumption
<1> DEFINE c == Content[p][g]
<1>2. Len(c) \in Nat /\ DOMAIN c = 1..Len(c)
    BY <1>1, LenProperties
<1>3. ASSUME NEW i \in DOMAIN c
      PROVE  c[i] \in Row /\ c[i].val \in SumRange /\ c[i].key \in Keys
    <2>1. c[i] \in Row
        BY <1>1, <1>2, <1>3, ElementOfSeq
    <2>2. c[i].val \in SumRange
        BY AggregationAssumption
    <2> QED
        BY <2>1, <2>2 DEF Row
<1>4. ASSUME NEW i \in DOMAIN c
      PROVE  <<p, g, i>> \in Rows
    <2>1. i \in Positions
        BY DEF Positions
    <2> QED
        BY <2>1 DEF Rows
<1> QED
    BY <1>1, <1>2, <1>3, <1>4

\* What a function takes a finite set to is finite.
LEMMA FiniteImage ==
    ASSUME NEW S, IsFiniteSet(S), NEW f, NEW T, \A t \in T : \E s \in S : f[s] = t
    PROVE  IsFiniteSet(T) /\ Cardinality(T) <= Cardinality(S)
<1> DEFINE U == {s \in S : f[s] \in T}
           g == [s \in U |-> f[s]]
<1>1. IsFiniteSet(U) /\ Cardinality(U) <= Cardinality(S)
    BY FS_Subset
<1>2. g \in [U -> T] /\ \A t \in T : \E s \in U : g[s] = t
    OBVIOUS
<1>3. g \in Surjection(U, T)
    <2> HIDE DEF g, U
    <2> QED
        BY <1>2 DEF Surjection
<1>4. IsFiniteSet(T) /\ Cardinality(T) <= Cardinality(U)
    <2> HIDE DEF g, U
    <2> QED
        BY <1>1, <1>3, FS_Surjection
<1>5. Cardinality(S) \in Nat /\ Cardinality(U) \in Nat /\ Cardinality(T) \in Nat
    BY <1>1, <1>4, FS_CardinalityType
<1> QED
    BY <1>1, <1>4, <1>5

LEMMA UpTo ==
    ASSUME NEW m \in Nat
    PROVE  IsFiniteSet(1..m) /\ Cardinality(1..m) = m
<1>1. m \in Int /\ 1 \in Int
    OBVIOUS
<1>2. IsFiniteSet(1..m) /\ Cardinality(1..m) = IF 1 > m THEN 0 ELSE m - 1 + 1
    BY <1>1, FS_Interval
<1>3. (IF 1 > m THEN 0 ELSE m - 1 + 1) = m
    BY SMT
<1> QED
    BY <1>2, <1>3

LEMMA FiniteRows == IsFiniteSet(Rows)
<1>1. IsFiniteSet(Parts) /\ IsFiniteSet(Granules)
    BY QueryAssumption, UpTo DEF Parts, Granules
<1>2. IsFiniteSet(Parts \X Granules)
    BY <1>1, FS_Product
<1> DEFINE At(x) == DOMAIN Content[x[1]][x[2]]
           Family == {At(x) : x \in Parts \X Granules}
<1>3. IsFiniteSet(Family)
    <2> DEFINE f == [x \in Parts \X Granules |-> At(x)]
    <2>1. \A S \in Family : \E x \in Parts \X Granules : f[x] = S
        OBVIOUS
    <2> HIDE DEF Family, f
    <2> QED
        BY <1>2, <2>1, FiniteImage
<1>4. \A S \in Family : IsFiniteSet(S)
    <2> SUFFICES ASSUME NEW x \in Parts \X Granules PROVE IsFiniteSet(At(x))
        OBVIOUS
    <2>1. x[1] \in Parts /\ x[2] \in Granules
        OBVIOUS
    <2> DEFINE l == Len(Content[x[1]][x[2]])
    <2>2. At(x) = 1..l /\ l \in Nat
        BY <2>1, ContentFacts
    <2> HIDE DEF l, At
    <2>3. IsFiniteSet(1..l)
        BY <2>2, UpTo
    <2> QED
        BY <2>2, <2>3
<1>5. IsFiniteSet(UNION Family)
    BY <1>3, <1>4, FS_UNION
<1>6. Positions \subseteq UNION Family
    <2> SUFFICES ASSUME NEW i \in Positions PROVE i \in UNION Family
        OBVIOUS
    <2>1. PICK p \in Parts, g \in Granules : i \in DOMAIN Content[p][g]
        BY DEF Positions
    <2>2. i \in At(<<p, g>>) /\ <<p, g>> \in Parts \X Granules
        BY <2>1
    <2> HIDE DEF At
    <2> QED
        BY <2>2
<1>7. IsFiniteSet(Positions)
    BY <1>5, <1>6, FS_Subset
<1>8. IsFiniteSet((Parts \X Granules) \X Positions)
    BY <1>2, <1>7, FS_Product
<1>9. \A r \in Rows : \E x \in (Parts \X Granules) \X Positions : <<x[1][1], x[1][2], x[2]>> = r
    <2> SUFFICES ASSUME NEW r \in Rows
                 PROVE  \E x \in (Parts \X Granules) \X Positions : <<x[1][1], x[1][2], x[2]>> = r
        OBVIOUS
    <2>1. r = <<r[1], r[2], r[3]>> /\ r[1] \in Parts /\ r[2] \in Granules /\ r[3] \in Positions
        BY DEF Rows
    <2> DEFINE y == <<r[1], r[2]>>
               x == <<y, r[3]>>
    <2>2. y \in Parts \X Granules /\ y[1] = r[1] /\ y[2] = r[2]
        BY <2>1
    <2> HIDE DEF y
    <2>3. x \in (Parts \X Granules) \X Positions /\ x[1] = y /\ x[2] = r[3]
        BY <2>1, <2>2
    <2> HIDE DEF x
    <2> QED
        BY <2>1, <2>2, <2>3
<1> DEFINE flat == [x \in (Parts \X Granules) \X Positions |-> <<x[1][1], x[1][2], x[2]>>]
<1>10. \A r \in Rows : \E x \in (Parts \X Granules) \X Positions : flat[x] = r
    BY <1>9
<1> HIDE DEF flat
<1> QED
    BY <1>8, <1>10, FiniteImage

LEMMA RowFacts ==
    ASSUME NEW q \in QueryType, NEW r \in Rows
    PROVE  /\ Val(r) \in SumRange /\ Val(r) \in Int
           /\ KeyIn(q, r) \in KeyType(q)
           /\ ValOf[r] = Val(r)
<1>1. r[1] \in Parts /\ r[2] \in Granules /\ r[3] \in DOMAIN Content[r[1]][r[2]]
    BY DEF Rows
<1> DEFINE row == Content[r[1]][r[2]][r[3]]
<1>2. row \in Row /\ row.val \in SumRange /\ row.key \in Keys
    BY <1>1, ContentFacts
<1>3. q.groupBy \subseteq {"key", "val"}
    BY DEF QueryType, TableColumns
<1>4. \A c \in q.groupBy : row[c] \in Keys \cup SumRange
    BY <1>2, <1>3 DEF Row
<1>5. SumRange \subseteq Int
    BY AggregationAssumption DEF SumRange
<1> QED
    BY <1>2, <1>4, <1>5 DEF Val, ValOf, KeyIn, KeyType, Restrict

\* Rows are finitely many, and their values add up.
LEMMA ValSum ==
    ASSUME NEW R \in SUBSET Rows
    PROVE  /\ IsFiniteSet(R) /\ Summable(ValOf, R)
           /\ SumOfVals(R) = SumFunctionOnSet(ValOf, R)
           /\ SumOfVals(R) \in Int
           /\ Cardinality(R) \in Nat
<1>1. IsFiniteSet(R)
    BY FiniteRows, FS_Subset
<1>2. \A r \in R : ValOf[r] = Val(r) /\ Val(r) \in Int
    <2> SUFFICES ASSUME NEW r \in R PROVE ValOf[r] = Val(r) /\ Val(r) \in Int
        OBVIOUS
    <2>1. r[1] \in Parts /\ r[2] \in Granules /\ r[3] \in DOMAIN Content[r[1]][r[2]]
        BY DEF Rows
    <2>2. SumRange \subseteq Int
        BY AggregationAssumption DEF SumRange
    <2> QED
        BY <2>1, <2>2, ContentFacts DEF Val, ValOf
<1>3. Summable(ValOf, R)
    BY <1>1, <1>2 DEF Summable
<1> DEFINE f == [r \in R |-> Val(r)]
<1>4. /\ DOMAIN f = R
      /\ \A r \in R : f[r] = ValOf[r]
    BY <1>2
<1>5. SumOfVals(R) = SumFunctionOnSet(f, R)
    BY <1>4 DEF SumOfVals, SumFunction
<1>6. SumFunctionOnSet(ValOf, R) = SumFunctionOnSet(f, R)
    <2> HIDE DEF f
    <2> QED
        BY <1>3, <1>4, SumSame
<1> QED
    BY <1>1, <1>3, <1>5, <1>6, SumType, FS_CardinalityType

\* Wrapping stays in the range, keeps a number modulo 2^w, and leaves a number
\* in the range alone.
LEMMA WrappedFacts ==
    ASSUME NEW x \in Int
    PROVE  /\ Wrapped(x) \in SumRange
           /\ Congruent(Wrapped(x), x, 2 * SumHalf)
           /\ x \in SumRange => Wrapped(x) = x
<1> DEFINE M == 2 * SumHalf
           y == x + SumHalf
<1>1. SumHalf \in Nat /\ SumHalf > 0 /\ M \in Nat /\ M > 0 /\ y \in Int
    BY AggregationAssumption
<1>2. y % M \in 0..(M - 1) /\ y \div M \in Int /\ y = M * (y \div M) + (y % M)
    <2> HIDE DEF M, y
    <2> QED
        BY <1>1
<1>3. Wrapped(x) \in SumRange
    BY <1>1, <1>2 DEF Wrapped, SumRange
<1>4. \E k \in Int : Wrapped(x) = x + k * M
    <2> DEFINE k == - (y \div M)
    <2>1. k \in Int /\ M * (y \div M) = - (k * M)
        <3> HIDE DEF M, y
        <3> QED
            BY <1>1, <1>2
    <2>2. Wrapped(x) = x + k * M
        BY <1>1, <1>2, <2>1 DEF Wrapped
    <2> QED
        BY <2>1, <2>2
<1>5. x \in SumRange => Wrapped(x) = x
    <2> SUFFICES ASSUME x \in SumRange PROVE Wrapped(x) = x
        OBVIOUS
    <2>1. y \in 0..(M - 1)
        BY <1>1 DEF SumRange
    <2>2. y % M = y
        <3> HIDE DEF M, y
        <3> QED
            BY <1>1, <2>1
    <2> QED
        BY <1>1, <2>2 DEF Wrapped
<1> QED
    BY <1>3, <1>4, <1>5 DEF Congruent

\* There is one number in the range that equals x modulo 2^w.
LEMMA WrappedUnique ==
    ASSUME NEW x \in Int, NEW v \in SumRange, Congruent(v, x, 2 * SumHalf)
    PROVE  v = Wrapped(x)
<1> DEFINE M == 2 * SumHalf
           u == Wrapped(x)
<1> PICK k \in Int : v = x + k * M
    BY DEF Congruent
<1>1. PICK l \in Int : u = x + l * M
    BY WrappedFacts DEF Congruent
<1>2. /\ M \in Int /\ M > 0 /\ SumHalf \in Int /\ M = SumHalf + SumHalf
      /\ v \in Int /\ -SumHalf <= v /\ v < SumHalf
    BY AggregationAssumption DEF SumRange
<1>3. u \in Int /\ -SumHalf <= u /\ u < SumHalf
    <2>1. u \in SumRange
        BY WrappedFacts
    <2> HIDE DEF u
    <2> QED
        BY <1>2, <2>1 DEF SumRange
<1> HIDE DEF M, u
<1>4. (k - l) * M = v - u
    <2>1. (k - l) * M = k * M - l * M
        BY <1>2
    <2>2. k * M \in Int /\ l * M \in Int /\ v = x + k * M
        BY <1>2 DEF M
    <2> QED
        BY <1>1, <1>2, <1>3, <2>1, <2>2
<1> DEFINE d == k - l
<1>5. d \in Int
    OBVIOUS
<1>6. d * M = v - u
    BY <1>4
<1> HIDE DEF d
<1>7. ~ d >= 1
    <2> SUFFICES ASSUME d >= 1 PROVE FALSE
        OBVIOUS
    <2>1. d * M >= M
        BY <1>2, <1>5
    <2> QED
        BY <1>2, <1>3, <1>6, <2>1
<1>8. ~ d <= -1
    <2> SUFFICES ASSUME d <= -1 PROVE FALSE
        OBVIOUS
    <2>1. d * M <= -M
        BY <1>2, <1>5
    <2> QED
        BY <1>2, <1>3, <1>6, <2>1
<1>9. d = 0
    BY <1>5, <1>7, <1>8
<1>10. v - u = 0
    BY <1>2, <1>6, <1>9
<1> QED
    BY <1>2, <1>3, <1>10 DEF u
-----------------------------------------------------------------------------
(***************************************************************************)
(* One group of one accumulator                                            *)
(*                                                                         *)
(* The rows of a batch stand for disjoint sets of rows of the table: one   *)
(* row each in a batch of the scan, the rows of a group in a batch of a    *)
(* worker.  What update() and merge() do to a group is the same for both.  *)
(***************************************************************************)
\* v is the sum of the rows R, modulo 2^w in a build without overflow checks.
Held(q, v, R) ==
    /\ v \in SumRange
    /\ IF q.checked THEN v = SumOfVals(R)
                    ELSE Congruent(v, SumOfVals(R), 2 * SumHalf)

\* v is the entry for the rows R of a group in the accumulator f under query q.
Entry(q, f, v, R) ==
    /\ f = "count" => v = Cardinality(R)
    /\ f = "sum" => Held(q, v, R)
    /\ f = "min" => v = IF R = {} THEN Unset ELSE [has |-> TRUE, val |-> Min(Vals(R))]
    /\ f = "max" => v = IF R = {} THEN Unset ELSE [has |-> TRUE, val |-> Max(Vals(R))]
    /\ f = "avg" => v = [sum |-> SumOfVals(R), count |-> Cardinality(R)]

\* The same in a batch.
Output(q, f, v, R) ==
    /\ f = "count" => v = Cardinality(R)
    /\ f = "sum" => Held(q, v, R)
    /\ f = "min" => v = IF R = {} THEN 0 ELSE Min(Vals(R))
    /\ f = "max" => v = IF R = {} THEN 0 ELSE Max(Vals(R))
    /\ f = "avg" => v = [sum |-> SumOfVals(R), count |-> Cardinality(R)]

\* The rows D of a batch stand for the row sets Q, which are together J.
Gathers(A, D, Q, J) ==
    /\ A \subseteq Rows
    /\ IsFiniteSet(D)
    /\ \A i \in D : Q[i] \subseteq Rows /\ Q[i] # {} /\ Q[i] \cap A = {}
    /\ \A i, j \in D : i # j => Q[i] \cap Q[j] = {}
    /\ Joins(J, Q, D)

Field(col, c) == [i \in DOMAIN col |-> col[i][c]]

\* What the rows D of a batch make of the entry v of their group.
Joined(f, v, col, D) ==
    CASE f = "count" -> v + SumOver(D, col)
      [] f = "sum" -> Wrapped(v + SumOver(D, col))
      [] f = "min" -> IF D = {} THEN v ELSE Lesser(v, Values(col, D))
      [] f = "max" -> IF D = {} THEN v ELSE Greater(v, Values(col, D))
      [] f = "avg" -> [sum |-> v.sum + SumOver(D, Field(col, "sum")),
                       count |-> v.count + SumOver(D, Field(col, "count"))]

LEMMA Gathered ==
    ASSUME NEW A, NEW D, NEW Q, NEW J, Gathers(A, D, Q, J)
    PROVE  /\ J \subseteq Rows /\ A \cup J \subseteq Rows /\ A \cap J = {}
           /\ D = {} => J = {}
           /\ D # {} => J # {}
           /\ Cardinality(A \cup J) = Cardinality(A) + Cardinality(J)
           /\ SumOfVals(A \cup J) = SumOfVals(A) + SumOfVals(J)
<1>1. /\ A \subseteq Rows /\ IsFiniteSet(D) /\ Joins(J, Q, D)
      /\ \A i \in D : Q[i] \subseteq Rows /\ Q[i] # {} /\ Q[i] \cap A = {}
    BY DEF Gathers
<1>2. \A r \in J : \E i \in D : r \in Q[i]
    BY <1>1 DEF Joins
<1>3. \A i \in D : \A r \in Q[i] : r \in J
    BY <1>1 DEF Joins
<1>4. J \subseteq Rows /\ A \cap J = {} /\ (D = {} => J = {}) /\ (D # {} => J # {})
    BY <1>1, <1>2, <1>3
<1>5. A \in SUBSET Rows /\ J \in SUBSET Rows /\ A \cup J \in SUBSET Rows
    BY <1>1, <1>4
<1>6. Cardinality(A \cup J) = Cardinality(A) + Cardinality(J)
    <2>1. /\ IsFiniteSet(A) /\ IsFiniteSet(J)
          /\ Cardinality(A) \in Nat /\ Cardinality(J) \in Nat
        BY <1>5, ValSum
    <2>2. Cardinality(A \cup J) = Cardinality(A) + Cardinality(J) - Cardinality(A \cap J)
        BY <2>1, FS_Union
    <2>3. Cardinality(A \cap J) = 0
        BY <1>4, FS_EmptySet
    <2> QED
        BY <2>1, <2>2, <2>3
<1>7. SumOfVals(A \cup J) = SumOfVals(A) + SumOfVals(J)
    <2>1. Summable(ValOf, A) /\ Summable(ValOf, J)
        BY <1>5, ValSum
    <2>2. SumFunctionOnSet(ValOf, A \cup J)
              = SumFunctionOnSet(ValOf, A) + SumFunctionOnSet(ValOf, J)
        BY <1>4, <2>1, SumUnion
    <2> QED
        BY <1>5, <2>2, ValSum
<1> QED
    BY <1>4, <1>5, <1>6, <1>7

\* Adding up counts counts, and adding up sums sums.
LEMMA CountsAdd ==
    ASSUME NEW A, NEW D, NEW Q, NEW J, Gathers(A, D, Q, J),
           NEW col, \A i \in D : col[i] = Cardinality(Q[i])
    PROVE  SumOver(D, col) = Cardinality(J)
<1>1. /\ IsFiniteSet(D) /\ Joins(J, Q, D)
      /\ \A i, j \in D : i # j => Q[i] \cap Q[j] = {}
      /\ \A i \in D : IsFiniteSet(Q[i])
    BY FiniteRows, FS_Subset DEF Gathers
<1>2. SumFunctionOnSet(col, D) = Cardinality(J)
    BY <1>1, SumOfSizes
<1> QED
    BY <1>2 DEF SumOver

LEMMA SumsAdd ==
    ASSUME NEW A, NEW D, NEW Q, NEW J, Gathers(A, D, Q, J),
           NEW col, \A i \in D : col[i] = SumOfVals(Q[i])
    PROVE  /\ Summable(col, D)
           /\ SumOver(D, col) = SumOfVals(J)
<1>1. /\ IsFiniteSet(D) /\ Joins(J, Q, D)
      /\ \A i, j \in D : i # j => Q[i] \cap Q[j] = {}
      /\ \A i \in D : Q[i] \in SUBSET Rows
    BY DEF Gathers
<1>2. \A i \in D : Summable(ValOf, Q[i]) /\ col[i] = SumFunctionOnSet(ValOf, Q[i])
    BY <1>1, ValSum
<1>3. Summable(col, D) /\ SumFunctionOnSet(col, D) = SumFunctionOnSet(ValOf, J)
    <2>1. IsFiniteSet(D) /\ Joins(J, Q, D)
        BY <1>1
    <2>2. \A i, j \in D : i # j => Q[i] \cap Q[j] = {}
        BY <1>1
    <2> HIDE <1>1
    <2> QED
        BY <1>2, <2>1, <2>2, SumOfSums
<1>4. SumOfVals(J) = SumFunctionOnSet(ValOf, J)
    BY Gathered, ValSum
<1> QED
    BY <1>3, <1>4 DEF SumOver

\* Sums that wrapped add up modulo 2^w.
LEMMA WrappedSumsAdd ==
    ASSUME NEW A, NEW D, NEW Q, NEW J, Gathers(A, D, Q, J),
           NEW col, \A i \in D : /\ col[i] \in Int
                                 /\ Congruent(col[i], SumOfVals(Q[i]), 2 * SumHalf)
    PROVE  /\ Summable(col, D)
           /\ Congruent(SumOver(D, col), SumOfVals(J), 2 * SumHalf)
<1> DEFINE exact == [i \in D |-> SumOfVals(Q[i])]
           M == 2 * SumHalf
<1>1. \A i \in D : exact[i] = SumOfVals(Q[i])
    OBVIOUS
<1>2. Summable(col, D)
    BY DEF Summable, Gathers
<1>3. M \in Int
    BY AggregationAssumption
<1>4. \A i \in D : Congruent(col[i], exact[i], M)
    BY <1>1
<1> HIDE DEF exact, M
<1>5. Summable(exact, D) /\ SumOver(D, exact) = SumOfVals(J)
    BY <1>1, SumsAdd
<1>6. Congruent(SumFunctionOnSet(col, D), SumFunctionOnSet(exact, D), M)
    BY <1>2, <1>3, <1>4, <1>5, SumCongruent
<1> QED
    BY <1>2, <1>5, <1>6 DEF SumOver, M
\* Finitely many values; a least and a greatest one.
LEMMA ColumnExtremes ==
    ASSUME NEW col, NEW D, IsFiniteSet(D), D # {}, \A i \in D : col[i] \in Int,
           NEW X, IsFiniteSet(X), \A x \in X : x \in Int
    PROVE  /\ Values(col, D) # {}
           /\ Min(X \cup Values(col, D)) \in X \cup Values(col, D)
           /\ \A y \in X \cup Values(col, D) : Min(X \cup Values(col, D)) <= y
           /\ Max(X \cup Values(col, D)) \in X \cup Values(col, D)
           /\ \A y \in X \cup Values(col, D) : Max(X \cup Values(col, D)) >= y
           /\ \A y \in Values(col, D) : \E i \in D : y = col[i]
           /\ \A i \in D : col[i] \in Values(col, D)
<1> DEFINE V == Values(col, D)
<1>1. /\ \A y \in V : \E i \in D : col[i] = y
      /\ \A i \in D : col[i] \in V
    BY DEF Values
<1> HIDE DEF V
<1>2. IsFiniteSet(V)
    BY <1>1, FiniteImage
<1>3. IsFiniteSet(X \cup V)
    BY <1>2, FS_Union
<1>4. X \cup V # {} /\ V # {} /\ \A y \in X \cup V : y \in Int
    BY <1>1
<1>5. /\ Min(X \cup V) \in X \cup V /\ \A y \in X \cup V : Min(X \cup V) <= y
      /\ Max(X \cup V) \in X \cup V /\ \A y \in X \cup V : Max(X \cup V) >= y
    BY <1>3, <1>4, Extremes
<1> QED
    BY <1>1, <1>4, <1>5 DEF V

LEMMA RowExtremes ==
    ASSUME NEW R \in SUBSET Rows, R # {}
    PROVE  /\ Min(Vals(R)) \in Int /\ Max(Vals(R)) \in Int
           /\ \E r \in R : Val(r) = Min(Vals(R))
           /\ \A r \in R : Val(r) \in Int /\ Min(Vals(R)) <= Val(r)
           /\ \E r \in R : Val(r) = Max(Vals(R))
           /\ \A r \in R : Max(Vals(R)) >= Val(r)
<1>1. \A r \in R : ValOf[r] = Val(r) /\ Val(r) \in Int
    <2>1. \A r \in R : r \in Rows
        OBVIOUS
    <2>2. \A r \in R : ValOf[r] = Val(r)
        BY <2>1 DEF ValOf
    <2>3. \A r \in R : ValOf[r] \in Int
        BY ValSum DEF Summable
    <2> QED
        BY <2>2, <2>3
<1> DEFINE V == Vals(R)
<1>2. /\ \A y \in V : \E r \in R : Val(r) = y
      /\ \A r \in R : Val(r) \in V
    BY DEF Vals
<1> HIDE DEF V
<1>3. \A y \in V : \E r \in R : ValOf[r] = y
    BY <1>1, <1>2
<1>4. IsFiniteSet(V)
    BY <1>3, ValSum, FiniteImage
<1>5. V # {} /\ \A y \in V : y \in Int
    BY <1>1, <1>2
<1>6. /\ Min(V) \in V /\ \A y \in V : Min(V) <= y
      /\ Max(V) \in V /\ \A y \in V : Max(V) >= y
    BY <1>4, <1>5, Extremes
<1> QED
    BY <1>1, <1>2, <1>5, <1>6 DEF V

LEMMA RowLeast ==
    ASSUME NEW R \in SUBSET Rows, NEW m \in Int,
           \E r \in R : Val(r) = m, \A r \in R : m <= Val(r)
    PROVE  R # {} /\ Min(Vals(R)) = m
<1>1. R # {}
    OBVIOUS
<1>2. /\ Min(Vals(R)) \in Int
      /\ \E r \in R : Val(r) = Min(Vals(R))
      /\ \A r \in R : Min(Vals(R)) <= Val(r)
    BY <1>1, RowExtremes
<1>3. m <= Min(Vals(R)) /\ Min(Vals(R)) <= m
    BY <1>2
<1> QED
    BY <1>1, <1>2, <1>3

LEMMA RowGreatest ==
    ASSUME NEW R \in SUBSET Rows, NEW m \in Int,
           \E r \in R : Val(r) = m, \A r \in R : m >= Val(r)
    PROVE  R # {} /\ Max(Vals(R)) = m
<1>1. R # {}
    OBVIOUS
<1>2. /\ Max(Vals(R)) \in Int
      /\ \E r \in R : Val(r) = Max(Vals(R))
      /\ \A r \in R : Max(Vals(R)) >= Val(r)
    BY <1>1, RowExtremes
<1>3. m <= Max(Vals(R)) /\ Max(Vals(R)) <= m
    BY <1>2
<1> QED
    BY <1>1, <1>2, <1>3

\* The least of minima is the minimum of all rows: without looking at the 0 of
\* a group that has no rows yet.
LEMMA MinJoin ==
    ASSUME NEW q, NEW A, NEW D, NEW Q, NEW J, Gathers(A, D, Q, J),
           NEW v, Entry(q, "min", v, A),
           NEW col, \A i \in D : col[i] = Min(Vals(Q[i]))
    PROVE  Entry(q, "min", Joined("min", v, col, D), A \cup J)
<1>1. /\ A \in SUBSET Rows /\ A \cup J \in SUBSET Rows /\ IsFiniteSet(D)
      /\ \A i \in D : Q[i] \in SUBSET Rows /\ Q[i] # {}
      /\ Joins(J, Q, D)
    <2>1. A \cup J \in SUBSET Rows
        BY Gathered
    <2> QED
        BY <2>1 DEF Gathers
<1>2. CASE D = {}
    <2>1. J = {} /\ Joined("min", v, col, D) = v
        BY <1>2, Gathered DEF Joined
    <2>2. A \cup J = A
        BY <2>1
    <2> QED
        BY <2>1, <2>2
<1>3. CASE D # {}
    <2> DEFINE X == IF A = {} THEN {} ELSE {Min(Vals(A))}
               m == Min(X \cup Values(col, D))
    <2>1. IsFiniteSet(X) /\ \A x \in X : x \in Int
        <3>1. CASE A = {}
            BY <3>1, FS_EmptySet
        <3>2. CASE A # {}
            BY <1>1, <3>2, RowExtremes, FS_Singleton
        <3> QED
            BY <3>1, <3>2
    <2>2. \A i \in D : /\ col[i] \in Int
                       /\ \E r \in Q[i] : Val(r) = col[i]
                       /\ \A r \in Q[i] : Val(r) \in Int /\ col[i] <= Val(r)
        BY <1>1, RowExtremes
    <2>3. /\ m \in X \cup Values(col, D) /\ \A y \in X \cup Values(col, D) : m <= y
          /\ \A y \in Values(col, D) : \E i \in D : y = col[i]
          /\ \A i \in D : col[i] \in Values(col, D)
        <3> HIDE DEF X
        <3> QED
            BY <1>1, <1>3, <2>1, <2>2, ColumnExtremes
    <2>4. \A r \in J : \E i \in D : r \in Q[i]
        BY <1>1 DEF Joins
    <2>5. \A i \in D : \A r \in Q[i] : r \in J
        BY <1>1 DEF Joins
    <2>6. A # {} => /\ \E r \in A : Val(r) = Min(Vals(A))
                    /\ \A r \in A : Val(r) \in Int /\ Min(Vals(A)) <= Val(r)
        BY <1>1, RowExtremes
    <2>7. Joined("min", v, col, D) = [has |-> TRUE, val |-> m]
        <3>1. v.has <=> A # {}
            BY DEF Entry, Unset
        <3>2. A # {} => v.val = Min(Vals(A))
            BY DEF Entry
        <3>3. (IF v.has THEN {v.val} \cup Values(col, D) ELSE Values(col, D)) = X \cup Values(col, D)
            BY <3>1, <3>2
        <3>4. Joined("min", v, col, D) = Lesser(v, Values(col, D))
            BY <1>3 DEF Joined
        <3> QED
            BY <3>3, <3>4 DEF Lesser
    <2> HIDE DEF m
    <2>8. m \in Int
        BY <2>1, <2>2, <2>3
    <2>9. \E r \in A \cup J : Val(r) = m
        <3>1. CASE m \in X
            BY <2>6, <3>1
        <3>2. CASE m \in Values(col, D)
            BY <2>2, <2>3, <2>5, <3>2
        <3> QED
            BY <2>3, <3>1, <3>2
    <2>10. \A r \in A \cup J : m <= Val(r)
        <3> SUFFICES ASSUME NEW r \in A \cup J PROVE m <= Val(r)
            OBVIOUS
        <3>1. CASE r \in A
            <4>1. Min(Vals(A)) \in X /\ Min(Vals(A)) \in Int
                BY <2>1, <3>1
            <4>2. m <= Min(Vals(A)) /\ Min(Vals(A)) <= Val(r) /\ Val(r) \in Int
                BY <2>3, <2>6, <3>1, <4>1
            <4> QED
                BY <2>8, <4>1, <4>2
        <3>2. CASE r \in J
            <4>1. PICK i \in D : r \in Q[i]
                BY <2>4, <3>2
            <4>2. m <= col[i] /\ col[i] <= Val(r) /\ Val(r) \in Int /\ col[i] \in Int
                BY <2>2, <2>3, <4>1
            <4> QED
                BY <2>8, <4>2
        <3> QED
            BY <3>1, <3>2
    <2>11. A \cup J # {} /\ Min(Vals(A \cup J)) = m
        BY <1>1, <2>8, <2>9, <2>10, RowLeast
    <2> QED
        BY <2>7, <2>11 DEF Entry
<1> QED
    BY <1>2, <1>3
\* The same for the maximum.
LEMMA MaxJoin ==
    ASSUME NEW q, NEW A, NEW D, NEW Q, NEW J, Gathers(A, D, Q, J),
           NEW v, Entry(q, "max", v, A),
           NEW col, \A i \in D : col[i] = Max(Vals(Q[i]))
    PROVE  Entry(q, "max", Joined("max", v, col, D), A \cup J)
<1>1. /\ A \in SUBSET Rows /\ A \cup J \in SUBSET Rows /\ IsFiniteSet(D)
      /\ \A i \in D : Q[i] \in SUBSET Rows /\ Q[i] # {}
      /\ Joins(J, Q, D)
    <2>1. A \cup J \in SUBSET Rows
        BY Gathered
    <2> QED
        BY <2>1 DEF Gathers
<1>2. CASE D = {}
    <2>1. J = {} /\ Joined("max", v, col, D) = v
        BY <1>2, Gathered DEF Joined
    <2>2. A \cup J = A
        BY <2>1
    <2> QED
        BY <2>1, <2>2
<1>3. CASE D # {}
    <2> DEFINE X == IF A = {} THEN {} ELSE {Max(Vals(A))}
               m == Max(X \cup Values(col, D))
    <2>1. IsFiniteSet(X) /\ \A x \in X : x \in Int
        <3>1. CASE A = {}
            BY <3>1, FS_EmptySet
        <3>2. CASE A # {}
            BY <1>1, <3>2, RowExtremes, FS_Singleton
        <3> QED
            BY <3>1, <3>2
    <2>2. \A i \in D : /\ col[i] \in Int
                       /\ \E r \in Q[i] : Val(r) = col[i]
                       /\ \A r \in Q[i] : Val(r) \in Int /\ col[i] >= Val(r)
        BY <1>1, RowExtremes
    <2>3. /\ m \in X \cup Values(col, D) /\ \A y \in X \cup Values(col, D) : m >= y
          /\ \A y \in Values(col, D) : \E i \in D : y = col[i]
          /\ \A i \in D : col[i] \in Values(col, D)
        <3> HIDE DEF X
        <3> QED
            BY <1>1, <1>3, <2>1, <2>2, ColumnExtremes
    <2>4. \A r \in J : \E i \in D : r \in Q[i]
        BY <1>1 DEF Joins
    <2>5. \A i \in D : \A r \in Q[i] : r \in J
        BY <1>1 DEF Joins
    <2>6. A # {} => /\ \E r \in A : Val(r) = Max(Vals(A))
                    /\ \A r \in A : Val(r) \in Int /\ Max(Vals(A)) >= Val(r)
        BY <1>1, RowExtremes
    <2>7. Joined("max", v, col, D) = [has |-> TRUE, val |-> m]
        <3>1. v.has <=> A # {}
            BY DEF Entry, Unset
        <3>2. A # {} => v.val = Max(Vals(A))
            BY DEF Entry
        <3>3. (IF v.has THEN {v.val} \cup Values(col, D) ELSE Values(col, D)) = X \cup Values(col, D)
            BY <3>1, <3>2
        <3>4. Joined("max", v, col, D) = Greater(v, Values(col, D))
            BY <1>3 DEF Joined
        <3> QED
            BY <3>3, <3>4 DEF Greater
    <2> HIDE DEF m
    <2>8. m \in Int
        BY <2>1, <2>2, <2>3
    <2>9. \E r \in A \cup J : Val(r) = m
        <3>1. CASE m \in X
            BY <2>6, <3>1
        <3>2. CASE m \in Values(col, D)
            BY <2>2, <2>3, <2>5, <3>2
        <3> QED
            BY <2>3, <3>1, <3>2
    <2>10. \A r \in A \cup J : m >= Val(r)
        <3> SUFFICES ASSUME NEW r \in A \cup J PROVE m >= Val(r)
            OBVIOUS
        <3>1. CASE r \in A
            <4>1. Max(Vals(A)) \in X /\ Max(Vals(A)) \in Int
                BY <2>1, <3>1
            <4>2. m >= Max(Vals(A)) /\ Max(Vals(A)) >= Val(r) /\ Val(r) \in Int
                BY <2>3, <2>6, <3>1, <4>1
            <4> QED
                BY <2>8, <4>1, <4>2
        <3>2. CASE r \in J
            <4>1. PICK i \in D : r \in Q[i]
                BY <2>4, <3>2
            <4>2. m >= col[i] /\ col[i] >= Val(r) /\ Val(r) \in Int /\ col[i] \in Int
                BY <2>2, <2>3, <4>1
            <4> QED
                BY <2>8, <4>2
        <3> QED
            BY <3>1, <3>2
    <2>11. A \cup J # {} /\ Max(Vals(A \cup J)) = m
        BY <1>1, <2>8, <2>9, <2>10, RowGreatest
    <2> QED
        BY <2>7, <2>11 DEF Entry
<1> QED
    BY <1>2, <1>3
\* Sums of disjoint rows: with overflow checks the sum itself, if it did not
\* panic, and else the sum modulo 2^w.
LEMMA SumJoin ==
    ASSUME NEW q, NEW A, NEW D, NEW Q, NEW J, Gathers(A, D, Q, J),
           NEW v, Held(q, v, A),
           NEW col, \A i \in D : Held(q, col[i], Q[i]),
           q.checked => v + SumOver(D, col) \in SumRange
    PROVE  Held(q, Wrapped(v + SumOver(D, col)), A \cup J)
<1> DEFINE s == v + SumOver(D, col)
           M == 2 * SumHalf
<1>1. /\ SumRange \subseteq Int /\ M \in Int
      /\ SumOfVals(A) \in Int /\ SumOfVals(J) \in Int
      /\ SumOfVals(A \cup J) = SumOfVals(A) + SumOfVals(J)
    <2>1. J \subseteq Rows /\ SumOfVals(A \cup J) = SumOfVals(A) + SumOfVals(J)
        BY Gathered
    <2>2. A \subseteq Rows
        BY DEF Gathers
    <2>3. SumOfVals(A) \in Int /\ SumOfVals(J) \in Int
        BY <2>1, <2>2, ValSum
    <2> QED
        BY <2>1, <2>3, AggregationAssumption DEF SumRange
<1>2. v \in Int /\ \A i \in D : col[i] \in Int
    BY <1>1 DEF Held
<1>3. CASE q.checked
    <2>1. v = SumOfVals(A) /\ \A i \in D : col[i] = SumOfVals(Q[i])
        BY <1>3 DEF Held
    <2>2. SumOver(D, col) = SumOfVals(J)
        BY <2>1, SumsAdd
    <2>3. s = SumOfVals(A \cup J) /\ s \in Int /\ s \in SumRange
        BY <1>1, <1>3, <2>1, <2>2
    <2>4. Wrapped(s) = s
        BY <2>3, WrappedFacts
    <2> QED
        BY <1>3, <2>3, <2>4 DEF Held
<1>4. CASE ~ q.checked
    <2>1. Congruent(v, SumOfVals(A), M)
        BY <1>4 DEF Held
    <2>2. \A i \in D : col[i] \in Int /\ Congruent(col[i], SumOfVals(Q[i]), M)
        BY <1>2, <1>4 DEF Held
    <2> HIDE DEF M
    <2>3. Summable(col, D) /\ Congruent(SumOver(D, col), SumOfVals(J), M)
        BY <2>2, WrappedSumsAdd DEF M
    <2>4. SumOver(D, col) \in Int
        BY <2>3, SumType DEF SumOver
    <2>5. Congruent(s, SumOfVals(A) + SumOfVals(J), M)
        BY <1>1, <1>2, <2>1, <2>3, <2>4, CongruentAdd
    <2>6. s \in Int
        BY <1>2, <2>4
    <2> HIDE DEF s
    <2>7. Wrapped(s) \in SumRange /\ Congruent(Wrapped(s), s, M)
        BY <2>6, WrappedFacts DEF M
    <2>8. Congruent(Wrapped(s), SumOfVals(A \cup J), M)
        BY <1>1, <2>5, <2>7, CongruentChain
    <2> QED
        BY <1>4, <2>7, <2>8 DEF Held, s, M
<1> QED
    BY <1>3, <1>4

LEMMA AvgJoin ==
    ASSUME NEW q, NEW A, NEW D, NEW Q, NEW J, Gathers(A, D, Q, J),
           NEW v, Entry(q, "avg", v, A),
           NEW col, D \subseteq DOMAIN col, \A i \in D : Output(q, "avg", col[i], Q[i])
    PROVE  Entry(q, "avg", Joined("avg", v, col, D), A \cup J)
<1> DEFINE sums == Field(col, "sum")
           counts == Field(col, "count")
<1>1. \A i \in D : col[i] = [sum |-> SumOfVals(Q[i]), count |-> Cardinality(Q[i])]
    BY DEF Output
<1>2. \A i \in D : sums[i] = SumOfVals(Q[i]) /\ counts[i] = Cardinality(Q[i])
    <2> SUFFICES ASSUME NEW i \in D
                 PROVE  sums[i] = SumOfVals(Q[i]) /\ counts[i] = Cardinality(Q[i])
        OBVIOUS
    <2>1. sums[i] = col[i].sum /\ counts[i] = col[i].count
        BY DEF Field
    <2>2. col[i] = [sum |-> SumOfVals(Q[i]), count |-> Cardinality(Q[i])]
        BY <1>1
    <2>3. col[i].sum = SumOfVals(Q[i]) /\ col[i].count = Cardinality(Q[i])
        BY <2>2
    <2> QED
        BY <2>1, <2>3
<1> HIDE DEF sums, counts
<1>3. SumOver(D, sums) = SumOfVals(J)
    BY <1>2, SumsAdd
<1>4. SumOver(D, counts) = Cardinality(J)
    BY <1>2, CountsAdd
<1>5. v.sum = SumOfVals(A) /\ v.count = Cardinality(A)
    BY DEF Entry
<1>6. Joined("avg", v, col, D) = [sum |-> SumOfVals(A \cup J), count |-> Cardinality(A \cup J)]
    BY <1>3, <1>4, <1>5, Gathered DEF Joined, sums, counts
<1> QED
    BY <1>6 DEF Entry

\* What the rows of a batch make of an entry is the entry for all the rows.
LEMMA EntryJoin ==
    ASSUME NEW q, NEW A, NEW D, NEW Q, NEW J, Gathers(A, D, Q, J),
           NEW f \in AggFuncs, NEW v, Entry(q, f, v, A),
           NEW col, D \subseteq DOMAIN col, \A i \in D : Output(q, f, col[i], Q[i]),
           f = "sum" /\ q.checked => v + SumOver(D, col) \in SumRange
    PROVE  Entry(q, f, Joined(f, v, col, D), A \cup J)
<1>1. CASE f = "count"
    <2>1. \A i \in D : col[i] = Cardinality(Q[i])
        BY <1>1 DEF Output
    <2>2. SumOver(D, col) = Cardinality(J)
        BY <2>1, CountsAdd
    <2> QED
        BY <1>1, <2>2, Gathered DEF Joined, Entry
<1>2. CASE f = "sum"
    <2>1. Held(q, v, A)
        BY <1>2 DEF Entry
    <2>2. \A i \in D : Held(q, col[i], Q[i])
        BY <1>2 DEF Output
    <2>3. Held(q, Wrapped(v + SumOver(D, col)), A \cup J)
        BY <1>2, <2>1, <2>2, SumJoin
    <2> QED
        BY <1>2, <2>3 DEF Joined, Entry
<1>3. CASE f = "min"
    <2>1. \A i \in D : col[i] = Min(Vals(Q[i]))
        BY <1>3 DEF Output, Gathers
    <2> QED
        BY <1>3, <2>1, MinJoin
<1>4. CASE f = "max"
    <2>1. \A i \in D : col[i] = Max(Vals(Q[i]))
        BY <1>4 DEF Output, Gathers
    <2> QED
        BY <1>4, <2>1, MaxJoin
<1>5. CASE f = "avg"
    BY <1>5, AvgJoin
<1> QED
    BY <1>1, <1>2, <1>3, <1>4, <1>5 DEF AggFuncs

\* A running sum that leaves its range after no row is in it at the end.
LEMMA StaysInRange ==
    ASSUME NEW start \in SumRange, NEW D, Numbers(D), NEW col, ~ LeavesRange(start, D, col)
    PROVE  start + SumOver(D, col) \in SumRange
<1>1. CASE D = {}
    <2>1. SumOver(D, col) = 0
        BY <1>1, SumEmpty DEF SumOver
    <2>2. start \in Int
        BY AggregationAssumption DEF SumRange
    <2> QED
        BY <2>1, <2>2
<1>2. CASE D # {}
    <2>1. Max(D) \in D /\ \A j \in D : Max(D) >= j
        BY <1>2, Extremes DEF Numbers
    <2>2. {j \in D : j <= Max(D)} = D
        BY <2>1 DEF Numbers
    <2>3. start + SumOver({j \in D : j <= Max(D)}, col) \in SumRange
        BY <2>1 DEF LeavesRange
    <2> QED
        BY <2>2, <2>3
<1> QED
    BY <1>1, <1>2
-----------------------------------------------------------------------------
(***************************************************************************)
(* Groups: which rows of a batch fall into which group                     *)
(***************************************************************************)
\* The key of group g.  Without GROUP BY it is the function without arguments.
GroupAt(q, keys, g) == IF q.groupBy # {} THEN keys[g] ELSE <<>>

InGroup(q, R, k) == {r \in R : KeyIn(q, r) = k}

\* A table of groups under query q, and how many groups it has.
Keyed(q, keys, n) ==
    /\ keys \in Seq(KeyType(q)) /\ IsInjective(keys)
    /\ n \in Nat
    /\ IF q.groupBy # {} THEN n = Len(keys) ELSE keys = <<>> /\ n <= 1

LEMMA KeyedFacts ==
    ASSUME NEW q \in QueryType, NEW keys, NEW n, Keyed(q, keys, n)
    PROVE  /\ n \in Nat
           /\ \A g, h \in 1..n : GroupAt(q, keys, g) = GroupAt(q, keys, h) => g = h
           /\ \A g \in 1..n : GroupAt(q, keys, g) \in KeyType(q)
           /\ q.groupBy = {} => \A k \in KeyType(q) : k = <<>>
<1>1. n \in Nat /\ keys \in Seq(KeyType(q))
    BY DEF Keyed
<1>2. CASE q.groupBy # {}
    <2>1. n = Len(keys) /\ DOMAIN keys = 1..n
        BY <1>1, <1>2, LenProperties DEF Keyed
    <2>2. \A g \in 1..n : GroupAt(q, keys, g) = keys[g] /\ keys[g] \in KeyType(q)
        BY <1>1, <1>2, <2>1, ElementOfSeq DEF GroupAt
    <2>3. \A g, h \in 1..n : keys[g] = keys[h] => g = h
        BY <2>1 DEF Keyed, IsInjective
    <2> QED
        BY <1>1, <1>2, <2>2, <2>3
<1>3. CASE q.groupBy = {}
    <2>1. \A k \in KeyType(q) : k = <<>>
        BY <1>3 DEF KeyType
    <2>2. n <= 1 /\ \A g \in 1..n : GroupAt(q, keys, g) = <<>>
        BY <1>3 DEF Keyed, GroupAt
    <2>3. \A g, h \in 1..n : g = h
        BY <1>1, <2>2
    <2>4. <<>> \in KeyType(q)
        <3>1. <<>> = [x \in {} |-> x]
            OBVIOUS
        <3> QED
            BY <1>3, <3>1 DEF KeyType
    <2> QED
        BY <1>1, <2>1, <2>2, <2>3, <2>4
<1> QED
    BY <1>2, <1>3

\* Probed gives every row of a batch the group of its key, keeps the groups there
\* were at their indices, and adds only groups of these rows.
LEMMA Routed ==
    ASSUME query \in QueryType, NEW keys, NEW n, Keyed(query, keys, n),
           NEW bk \in Seq(KeyType(query)), NEW groups \in Probed(keys, bk)
    PROVE  /\ Keyed(query, groups.keys, groups.num)
           /\ n <= groups.num /\ (~ Grouped => groups.num = 1)
           /\ \A g \in 1..n : GroupAt(query, groups.keys, g) = GroupAt(query, keys, g)
           /\ \A g \in 1..groups.num :
                 /\ \A i : i \in RowsOf(g, groups.indices) <=>
                              i \in DOMAIN bk /\ bk[i] = GroupAt(query, groups.keys, g)
                 /\ RowsOfFast(g, groups.indices, groups.num) = RowsOf(g, groups.indices)
                 /\ g \in 1..n \/ ~ Grouped \/ RowsOf(g, groups.indices) # {}
           /\ \A i \in DOMAIN bk :
                 \E g \in 1..groups.num : bk[i] = GroupAt(query, groups.keys, g)
<1> DEFINE new == GroupsWith(keys, bk)
           K == KeyType(query)
           indices == GroupIndices(new, bk)
<1>1. groups.keys = new /\ groups.num = NumGroups(new) /\ groups.indices = indices
    BY DEF Probed
<1>2. keys \in Seq(K) /\ IsInjective(keys) /\ n \in Nat
    BY DEF Keyed
<1>3. /\ DOMAIN bk = 1..Len(bk) /\ Len(bk) \in Nat
      /\ \A i \in DOMAIN bk : bk[i] \in K
    <2>1. DOMAIN bk = 1..Len(bk) /\ Len(bk) \in Nat
        BY LenProperties
    <2>2. \A i \in 1..Len(bk) : bk[i] \in K
        BY ElementOfSeq
    <2> QED
        BY <2>1, <2>2
<1>4. DOMAIN indices = DOMAIN bk
    BY DEF GroupIndices
<1>5. CASE Grouped
    <2>1. new = ProbeFoldOf(keys, bk, DOMAIN bk)[DOMAIN bk]
        BY <1>5, ProbeIsFold DEF GroupsWith
    <2>2. /\ new \in Seq(K) /\ IsInjective(new)
          /\ Len(keys) <= Len(new)
          /\ \A j \in 1..Len(keys) : new[j] = keys[j]
          /\ ToSet(new) = ToSet(keys) \cup ToSet(bk)
        <3> HIDE DEF new
        <3>1. keys \in Seq(K) /\ IsInjective(keys) /\ bk \in Seq(K)
            BY <1>2
        <3> HIDE DEF K
        <3> QED
            BY <2>1, <3>1, Probing
    <2>3. /\ query.groupBy # {} /\ n = Len(keys)
          /\ NumGroups(new) = Len(new) /\ Len(new) \in Nat
          /\ DOMAIN new = 1..Len(new) /\ DOMAIN keys = 1..Len(keys)
        BY <1>2, <1>5, <2>2, LenProperties DEF Grouped, NumGroups, Keyed
    <2> HIDE DEF new
    <2>4. Keyed(query, new, Len(new))
        BY <2>2, <2>3 DEF Keyed
    <2>5. \A g : GroupAt(query, new, g) = new[g] /\ GroupAt(query, keys, g) = keys[g]
        BY <2>3 DEF GroupAt
    <2>6. \A i \in DOMAIN bk : \E j \in DOMAIN new : new[j] = bk[i]
        <3>1. \A i \in DOMAIN bk : bk[i] \in ToSet(new)
            BY <2>2 DEF ToSet
        <3> QED
            BY <3>1 DEF ToSet
    <2>7. \A i \in DOMAIN bk : indices[i] \in 1..Len(new) /\ new[indices[i]] = bk[i]
        <3> SUFFICES ASSUME NEW i \in DOMAIN bk
                     PROVE  indices[i] \in 1..Len(new) /\ new[indices[i]] = bk[i]
            OBVIOUS
        <3>1. indices[i] = CHOOSE j \in DOMAIN new : new[j] = bk[i]
            BY <1>5 DEF GroupIndices
        <3> QED
            BY <2>3, <2>6, <3>1
    <2>8. \A g \in 1..Len(new) : \A i : i \in RowsOf(g, indices) <=> i \in DOMAIN bk /\ bk[i] = new[g]
        <3> SUFFICES ASSUME NEW g \in 1..Len(new), NEW i
                     PROVE  i \in RowsOf(g, indices) <=> i \in DOMAIN bk /\ bk[i] = new[g]
            OBVIOUS
        <3>1. i \in RowsOf(g, indices) <=> i \in DOMAIN bk /\ indices[i] = g
            BY <1>4 DEF RowsOf
        <3>2. i \in DOMAIN bk => (indices[i] = g <=> new[indices[i]] = new[g])
            BY <2>2, <2>3, <2>7 DEF IsInjective
        <3> QED
            BY <2>7, <3>1, <3>2
    <2>9. \A g \in 1..Len(new) : RowsOfFast(g, indices, Len(new)) = RowsOf(g, indices)
        <3> SUFFICES ASSUME NEW g \in 1..Len(new), Len(new) = 1
                     PROVE  DOMAIN indices = RowsOf(g, indices)
            BY DEF RowsOfFast
        <3>1. g = 1 /\ \A i \in DOMAIN indices : indices[i] = 1
            BY <1>4, <2>7
        <3> QED
            BY <3>1 DEF RowsOf
    <2>10. \A g \in 1..Len(new) : g \in 1..n \/ RowsOf(g, indices) # {}
        <3> SUFFICES ASSUME NEW g \in 1..Len(new), g \notin 1..n
                     PROVE  RowsOf(g, indices) # {}
            OBVIOUS
        <3>1. new[g] \in ToSet(keys) \cup ToSet(bk)
            BY <2>2, <2>3 DEF ToSet
        <3>2. new[g] \notin ToSet(keys)
            <4> SUFFICES ASSUME new[g] \in ToSet(keys) PROVE FALSE
                OBVIOUS
            <4>1. PICK j \in 1..Len(keys) : keys[j] = new[g]
                BY <2>3 DEF ToSet
            <4>2. new[j] = new[g] /\ j \in DOMAIN new /\ g \in DOMAIN new
                BY <1>2, <2>2, <2>3, <4>1
            <4>3. j = g
                BY <2>2, <4>2 DEF IsInjective
            <4> QED
                BY <2>3, <4>1, <4>3
        <3>3. PICK i \in DOMAIN bk : bk[i] = new[g]
            BY <3>1, <3>2 DEF ToSet
        <3> QED
            BY <2>8, <3>3
    <2> HIDE DEF indices
    <2>11. \A i \in DOMAIN bk : \E g \in 1..Len(new) : bk[i] = GroupAt(query, new, g)
        BY <2>3, <2>5, <2>6
    <2> DEFINE num == Len(new)
    <2>12. groups.keys = new /\ groups.num = num /\ groups.indices = indices
        BY <1>1, <2>3
    <2>13. Keyed(query, new, num) /\ n <= num
        BY <2>2, <2>3, <2>4
    <2>14. \A g \in 1..n : GroupAt(query, new, g) = GroupAt(query, keys, g)
        BY <2>2, <2>3, <2>5
    <2>15. ASSUME NEW g \in 1..num
           PROVE  /\ \A i : i \in RowsOf(g, indices) <=>
                               i \in DOMAIN bk /\ bk[i] = GroupAt(query, new, g)
                  /\ RowsOfFast(g, indices, num) = RowsOf(g, indices)
                  /\ g \in 1..n \/ RowsOf(g, indices) # {}
        BY <2>5, <2>8, <2>9, <2>10
    <2> HIDE DEF num
    <2> QED
        BY <1>5, <2>11, <2>12, <2>13, <2>14, <2>15 DEF num
<1>6. CASE ~ Grouped
    <2>1. query.groupBy = {} /\ keys = <<>> /\ n <= 1 /\ new = keys /\ NumGroups(new) = 1
        BY <1>6 DEF Grouped, Keyed, GroupsWith, NumGroups
    <2> HIDE DEF new
    <2>2. Keyed(query, new, 1)
        <3>1. new \in Seq(K) /\ IsInjective(new) /\ new = <<>>
            BY <1>2, <2>1
        <3>2. 1 \in Nat /\ 1 <= 1
            OBVIOUS
        <3> QED
            BY <2>1, <3>1, <3>2 DEF Keyed
    <2>3. \A g : GroupAt(query, new, g) = <<>> /\ GroupAt(query, keys, g) = <<>>
        BY <2>1 DEF GroupAt
    <2>4. \A k \in K : k = <<>>
        BY <2>1, <2>2, KeyedFacts
    <2>5. \A i \in DOMAIN bk : indices[i] = 1 /\ bk[i] = <<>>
        BY <1>3, <1>6, <2>4 DEF GroupIndices
    <2>6. RowsOf(1, indices) = DOMAIN bk /\ RowsOfFast(1, indices, 1) = DOMAIN bk
        BY <1>4, <2>5 DEF RowsOf, RowsOfFast
    <2> HIDE DEF indices
    <2>7. \A g \in 1..1 : g = 1
        OBVIOUS
    <2>8. 1 \in 1..1
        OBVIOUS
    <2> QED
        BY <1>1, <1>6, <2>1, <2>2, <2>3, <2>5, <2>6, <2>7, <2>8
<1> QED
    BY <1>5, <1>6
-----------------------------------------------------------------------------
(***************************************************************************)
(* All groups of all accumulators                                          *)
(***************************************************************************)
\* What entries can be.
Entries == Int \cup [has : BOOLEAN, val : Int] \cup [sum : Int, count : Int]

\* The groups and accumulators acc are those of the rows R, in n groups.
AccOf(q, acc, R, n) ==
    /\ Keyed(q, acc.keys, n)
    /\ \A r \in R : \E g \in 1..n : KeyIn(q, r) = GroupAt(q, acc.keys, g)
    /\ DOMAIN acc.of = Aggregates(q)
    /\ \A f \in Aggregates(q) :
          /\ acc.of[f] \in Seq(Entries) /\ Len(acc.of[f]) = n
          /\ \A g \in 1..n : Entry(q, f, acc.of[f][g], InGroup(q, R, GroupAt(q, acc.keys, g)))

NoEmptyGroup(q, acc, R, n) ==
    \A g \in 1..n : InGroup(q, R, GroupAt(q, acc.keys, g)) # {}

Default(f) == CASE f \in {"count", "sum"} -> 0
                [] f \in {"min", "max"} -> Unset
                [] f = "avg" -> [sum |-> 0, count |-> 0]

LEMMA Vector ==
    ASSUME NEW S, NEW n \in Nat, NEW v, DOMAIN v = 1..n, v = [i \in 1..n |-> v[i]],
           \A i \in 1..n : v[i] \in S
    PROVE  v \in Seq(S) /\ Len(v) = n
<1>1. v \in [1..n -> S]
    OBVIOUS
<1> QED
    BY <1>1, SeqDef, LenProperties

LEMMA EntryFacts ==
    ASSUME NEW q \in QueryType, NEW f \in AggFuncs
    PROVE  /\ \A v, R : R \subseteq Rows /\ Entry(q, f, v, R) => v \in Entries
           /\ Entry(q, f, Default(f), {})
           /\ Default(f) \in Entries
<1>1. /\ SumOfVals({}) = 0 /\ Cardinality({}) = 0
      /\ SumRange \subseteq Int /\ 0 \in SumRange /\ 2 * SumHalf \in Int
    <2>1. SumOfVals({}) = SumFunctionOnSet(ValOf, {})
        BY ValSum
    <2> QED
        BY <2>1, SumEmpty, FS_EmptySet, AggregationAssumption DEF SumRange
<1>2. ASSUME NEW v, NEW R, R \subseteq Rows, Entry(q, f, v, R)
      PROVE  v \in Entries
    <2>1. SumOfVals(R) \in Int /\ Cardinality(R) \in Int
        BY <1>2, ValSum
    <2>2. R # {} => Min(Vals(R)) \in Int /\ Max(Vals(R)) \in Int
        BY <1>2, RowExtremes
    <2>3. CASE f = "count"
        BY <1>2, <2>1, <2>3 DEF Entry, Entries
    <2>4. CASE f = "sum"
        BY <1>1, <1>2, <2>4 DEF Entry, Entries, Held
    <2>5. CASE f = "min"
        <3>1. Unset \in [has : BOOLEAN, val : Int]
            BY DEF Unset
        <3>2. R = {} => v = Unset
            BY <1>2, <2>5 DEF Entry
        <3>3. R # {} => v \in [has : BOOLEAN, val : Int]
            <4>1. \A m \in Int : [has |-> TRUE, val |-> m] \in [has : BOOLEAN, val : Int]
                OBVIOUS
            <4>2. R # {} => v = [has |-> TRUE, val |-> Min(Vals(R))]
                BY <1>2, <2>5 DEF Entry
            <4> QED
                BY <2>2, <4>1, <4>2
        <3> QED
            BY <3>1, <3>2, <3>3 DEF Entries
    <2>6. CASE f = "max"
        <3>1. Unset \in [has : BOOLEAN, val : Int]
            BY DEF Unset
        <3>2. R = {} => v = Unset
            BY <1>2, <2>6 DEF Entry
        <3>3. R # {} => v \in [has : BOOLEAN, val : Int]
            <4>1. \A m \in Int : [has |-> TRUE, val |-> m] \in [has : BOOLEAN, val : Int]
                OBVIOUS
            <4>2. R # {} => v = [has |-> TRUE, val |-> Max(Vals(R))]
                BY <1>2, <2>6 DEF Entry
            <4> QED
                BY <2>2, <4>1, <4>2
        <3> QED
            BY <3>1, <3>2, <3>3 DEF Entries
    <2>7. CASE f = "avg"
        <3>1. v \in [sum : Int, count : Int]
            BY <1>2, <2>1, <2>7 DEF Entry
        <3> QED
            BY <3>1 DEF Entries
    <2> QED
        BY <2>3, <2>4, <2>5, <2>6, <2>7 DEF AggFuncs
<1>3. Entry(q, f, Default(f), {})
    <2>1. Held(q, 0, {})
        BY <1>1, CongruentSelf DEF Held
    <2> QED
        BY <1>1, <2>1 DEF Entry, Default, AggFuncs
<1>4. Default(f) \in Entries
    <2>1. {} \subseteq Rows
        OBVIOUS
    <2> QED
        BY <1>2, <1>3, <2>1
<1> QED
    BY <1>2, <1>3, <1>4

\* A group from before a batch keeps its entry, and a new one has none of the
\* rows from before.
LEMMA ResizedEntry ==
    ASSUME query \in QueryType, NEW acc, NEW R \in SUBSET Rows, NEW n, AccOf(query, acc, R, n),
           NEW keys, NEW num, Keyed(query, keys, num), n <= num,
           \A g \in 1..n : GroupAt(query, keys, g) = GroupAt(query, acc.keys, g),
           NEW f \in Aggregates(query), NEW g \in 1..num
    PROVE  Entry(query, f, Resized(acc.of[f], num, Default(f))[g],
                 InGroup(query, R, GroupAt(query, keys, g)))
<1> DEFINE A == InGroup(query, R, GroupAt(query, keys, g))
           v == acc.of[f]
<1>1. /\ n \in Nat /\ num \in Nat /\ f \in AggFuncs
      /\ v \in Seq(Entries) /\ Len(v) = n
      /\ \A h \in 1..n : Entry(query, f, v[h], InGroup(query, R, GroupAt(query, acc.keys, h)))
      /\ \A r \in R : \E h \in 1..n : KeyIn(query, r) = GroupAt(query, acc.keys, h)
    BY DEF AccOf, Keyed, Aggregates
<1>2. DOMAIN v = 1..n
    BY <1>1, LenProperties
<1>3. Resized(v, num, Default(f))[g] = IF g \in 1..n THEN v[g] ELSE Default(f)
    BY <1>2 DEF Resized
<1>4. CASE g \in 1..n
    BY <1>1, <1>3, <1>4
<1>5. CASE g \notin 1..n
    <2>1. A = {}
        <3> SUFFICES ASSUME NEW r \in R, KeyIn(query, r) = GroupAt(query, keys, g) PROVE FALSE
            BY DEF InGroup
        <3>1. PICK h \in 1..n : KeyIn(query, r) = GroupAt(query, acc.keys, h)
            BY <1>1
        <3>2. h \in 1..num /\ GroupAt(query, keys, h) = GroupAt(query, keys, g)
            BY <1>1, <3>1
        <3>3. h = g
            BY <3>2, KeyedFacts
        <3> QED
            BY <1>5, <3>3
    <2> QED
        BY <1>1, <1>3, <1>5, <2>1, EntryFacts
<1> QED
    BY <1>4, <1>5

\* The vector that the accumulator f makes of its vector v and a batch.
JoinedVector(f, v, col, indices, n) ==
    [g \in 1..n |-> Joined(f, Resized(v, n, Default(f))[g], col, RowsOf(g, indices))]

\* The rows of a batch with the keys bk and the columns cols stand for the rows Q.
StandsFor(q, bk, cols, Q) ==
    /\ \A i \in DOMAIN bk : \A r \in Q[i] : KeyIn(q, r) = bk[i]
    /\ \A f \in Aggregates(q) :
          /\ DOMAIN bk \subseteq DOMAIN cols[f]
          /\ \A i \in DOMAIN bk : Output(q, f, cols[f][i], Q[i])

\* new is what a batch with the columns cols makes of acc.
JoinsInto(q, acc, groups, cols, new) ==
    /\ new.keys = groups.keys
    /\ DOMAIN new.of = Aggregates(q)
    /\ \A f \in Aggregates(q) :
          new.of[f] = JoinedVector(f, acc.of[f], cols[f], groups.indices, groups.num)

\* No sum leaves its range.
SumsFit(q, acc, groups, cols) ==
    q.checked /\ "sum" \in Aggregates(q) =>
        \A g \in 1..groups.num :
            Resized(acc.of["sum"], groups.num, Default("sum"))[g]
            + SumOver(RowsOf(g, groups.indices), cols["sum"]) \in SumRange

\* What a batch makes of the groups and accumulators of the rows R are those of R
\* and the rows J that the batch stands for.
LEMMA AccJoin ==
    ASSUME query \in QueryType, NEW acc, NEW R \in SUBSET Rows, NEW n, AccOf(query, acc, R, n),
           NEW bk \in Seq(KeyType(query)), NEW Q, NEW J, Gathers(R, DOMAIN bk, Q, J),
           NEW groups \in Probed(acc.keys, bk),
           NEW cols, StandsFor(query, bk, cols, Q),
           NEW new, JoinsInto(query, acc, groups, cols, new),
           SumsFit(query, acc, groups, cols)
    PROVE  /\ AccOf(query, new, R \cup J, groups.num)
           /\ NoEmptyGroup(query, acc, R, n) /\ (Grouped \/ n = 1 \/ DOMAIN bk # {}) =>
                 NoEmptyGroup(query, new, R \cup J, groups.num)
<1> DEFINE num == groups.num
           K(g) == GroupAt(query, new.keys, g)
           D(g) == RowsOf(g, groups.indices)
           A(g) == InGroup(query, R, K(g))
           B(g) == InGroup(query, J, K(g))
<1>1. /\ Keyed(query, acc.keys, n) /\ n \in Nat
      /\ \A r \in R : \E h \in 1..n : KeyIn(query, r) = GroupAt(query, acc.keys, h)
    BY DEF AccOf, Keyed
<1>2. /\ Keyed(query, new.keys, num) /\ num \in Nat
      /\ n <= num /\ (~ Grouped => num = 1)
    <2>1. /\ Keyed(query, groups.keys, num)
          /\ n <= num /\ (~ Grouped => num = 1)
        BY <1>1, Routed
    <2>2. num \in Nat
        BY <2>1 DEF Keyed
    <2> QED
        BY <2>1, <2>2 DEF JoinsInto
<1>3. \A g \in 1..n : K(g) = GroupAt(query, acc.keys, g)
    BY <1>1, Routed DEF JoinsInto
<1>4. ASSUME NEW g \in 1..num
      PROVE  /\ \A i : i \in D(g) <=> i \in DOMAIN bk /\ bk[i] = K(g)
             /\ g \in 1..n \/ ~ Grouped \/ D(g) # {}
    BY <1>1, Routed DEF JoinsInto
<1>5. \A i \in DOMAIN bk : \E g \in 1..num : bk[i] = K(g)
    BY <1>1, Routed DEF JoinsInto
<1>6. /\ IsFiniteSet(DOMAIN bk) /\ Joins(J, Q, DOMAIN bk)
      /\ \A i \in DOMAIN bk : Q[i] \subseteq Rows /\ Q[i] # {} /\ Q[i] \cap R = {}
      /\ \A i, j \in DOMAIN bk : i # j => Q[i] \cap Q[j] = {}
    BY DEF Gathers
<1>7. \A r : r \in J <=> \E i \in DOMAIN bk : r \in Q[i]
    BY <1>6 DEF Joins
<1> HIDE DEF num, K
<1>8. ASSUME NEW g \in 1..num
      PROVE  /\ Gathers(A(g), D(g), Q, B(g))
             /\ D(g) \subseteq DOMAIN bk
             /\ InGroup(query, R \cup J, K(g)) = A(g) \cup B(g)
             /\ A(g) \cup B(g) \subseteq Rows
    <2> HIDE DEF D
    <2>1. D(g) \subseteq DOMAIN bk
        BY <1>4
    <2>2. IsFiniteSet(D(g))
        BY <1>6, <2>1, FS_Subset
    <2>3. A(g) \subseteq R
        BY DEF InGroup
    <2>4. \A r : r \in B(g) <=> \E i \in D(g) : r \in Q[i]
        <3> SUFFICES ASSUME NEW r PROVE r \in B(g) <=> \E i \in D(g) : r \in Q[i]
            OBVIOUS
        <3>1. r \in B(g) <=> r \in J /\ KeyIn(query, r) = K(g)
            BY DEF InGroup
        <3>2. ASSUME r \in B(g) PROVE \E i \in D(g) : r \in Q[i]
            <4>1. PICK i \in DOMAIN bk : r \in Q[i]
                BY <1>7, <3>1, <3>2
            <4>2. bk[i] = K(g)
                BY <3>1, <3>2, <4>1 DEF StandsFor
            <4> QED
                BY <1>4, <4>1, <4>2
        <3>3. ASSUME NEW i \in D(g), r \in Q[i] PROVE r \in B(g)
            <4>1. i \in DOMAIN bk /\ bk[i] = K(g)
                BY <1>4
            <4> QED
                BY <1>7, <3>1, <3>3, <4>1 DEF StandsFor
        <3> QED
            BY <3>2, <3>3
    <2>5. Joins(B(g), Q, D(g))
        BY <2>4 DEF Joins
    <2>6. Gathers(A(g), D(g), Q, B(g))
        <3> HIDE DEF A, B
        <3> QED
            BY <1>6, <2>1, <2>2, <2>3, <2>5 DEF Gathers
    <2>7. InGroup(query, R \cup J, K(g)) = A(g) \cup B(g)
        BY DEF InGroup
    <2>8. A(g) \cup B(g) \subseteq Rows
        <3>1. \A r \in B(g) : r \in Rows
            BY <1>6, <2>1, <2>4
        <3> QED
            BY <2>3, <3>1
    <2> QED
        BY <2>1, <2>6, <2>7, <2>8
<1> DEFINE v(f, g) == Resized(acc.of[f], num, Default(f))[g]
<1>9. ASSUME NEW f \in Aggregates(query), NEW g \in 1..num
      PROVE  /\ new.of[f][g] = Joined(f, v(f, g), cols[f], D(g))
             /\ Entry(query, f, new.of[f][g], InGroup(query, R \cup J, K(g)))
    <2>1. new.of[f][g] = Joined(f, v(f, g), cols[f], D(g))
        BY DEF num, JoinsInto, JoinedVector
    <2>2. Entry(query, f, v(f, g), A(g))
        BY <1>1, <1>2, <1>3, ResizedEntry DEF K
    <2>3. f = "sum" /\ query.checked => v(f, g) + SumOver(D(g), cols[f]) \in SumRange
        BY DEF num, SumsFit
    <2>4. D(g) \subseteq DOMAIN cols[f] /\ \A i \in D(g) : Output(query, f, cols[f][i], Q[i])
        BY <1>8 DEF StandsFor
    <2>5. f \in AggFuncs
        BY DEF Aggregates
    <2>6. Gathers(A(g), D(g), Q, B(g)) /\ InGroup(query, R \cup J, K(g)) = A(g) \cup B(g)
        BY <1>8
    <2> HIDE DEF v, A, B, D
    <2>7. Entry(query, f, Joined(f, v(f, g), cols[f], D(g)), A(g) \cup B(g))
        BY <2>2, <2>3, <2>4, <2>5, <2>6, EntryJoin
    <2> QED
        BY <2>1, <2>6, <2>7
<1>10. ASSUME NEW f \in Aggregates(query)
       PROVE  new.of[f] \in Seq(Entries) /\ Len(new.of[f]) = num
    <2>1. f \in AggFuncs
        BY DEF Aggregates
    <2>2. \A g \in 1..num : new.of[f][g] \in Entries
        <3> SUFFICES ASSUME NEW g \in 1..num PROVE new.of[f][g] \in Entries
            OBVIOUS
        <3>1. InGroup(query, R \cup J, K(g)) \subseteq Rows
            BY <1>8
        <3> QED
            BY <1>9, <2>1, <3>1, EntryFacts
    <2>3. DOMAIN new.of[f] = 1..num /\ new.of[f] = [g \in 1..num |-> new.of[f][g]]
        <3> DEFINE u == [g \in 1..num |-> Joined(f, v(f, g), cols[f], D(g))]
        <3>1. new.of[f] = u
            BY DEF num, JoinsInto, JoinedVector
        <3>2. DOMAIN u = 1..num /\ u = [g \in 1..num |-> u[g]]
            OBVIOUS
        <3> HIDE DEF u
        <3> QED
            BY <3>1, <3>2
    <2> QED
        BY <1>2, <2>2, <2>3, Vector
<1>11. \A r \in R \cup J : \E g \in 1..num : KeyIn(query, r) = K(g)
    <2> SUFFICES ASSUME NEW r \in R \cup J PROVE \E g \in 1..num : KeyIn(query, r) = K(g)
        OBVIOUS
    <2>1. CASE r \in R
        <3>1. PICK h \in 1..n : KeyIn(query, r) = GroupAt(query, acc.keys, h)
            BY <1>1, <2>1
        <3> QED
            BY <1>1, <1>2, <1>3, <3>1
    <2>2. CASE r \in J
        <3>1. PICK i \in DOMAIN bk : r \in Q[i]
            BY <1>7, <2>2
        <3> QED
            BY <1>5, <3>1 DEF StandsFor
    <2> QED
        BY <2>1, <2>2
<1>12. AccOf(query, new, R \cup J, num)
    BY <1>2, <1>9, <1>10, <1>11 DEF AccOf, K, JoinsInto
<1>13. \A i \in DOMAIN bk : \A r \in Q[i] : KeyIn(query, r) = bk[i]
    BY DEF StandsFor
<1>14. ASSUME NoEmptyGroup(query, acc, R, n), Grouped \/ n = 1 \/ DOMAIN bk # {},
              NEW g \in 1..num
       PROVE  InGroup(query, R \cup J, K(g)) # {}
    <2>1. InGroup(query, R \cup J, K(g)) = A(g) \cup B(g) /\ Gathers(A(g), D(g), Q, B(g))
        BY <1>8
    <2>2. CASE g \in 1..n
        <3>1. A(g) # {}
            BY <1>3, <1>14, <2>2 DEF NoEmptyGroup
        <3> QED
            BY <2>1, <3>1
    <2>3. CASE D(g) # {}
        <3>1. PICK i \in D(g) : TRUE
            BY <2>3
        <3>2. B(g) # {}
            BY <1>4, <1>6, <1>7, <1>13, <3>1 DEF InGroup
        <3> QED
            BY <2>1, <3>2
    <2>4. CASE ~ Grouped /\ n # 1
        <3>1. num = 1 /\ g = 1 /\ DOMAIN bk # {}
            BY <1>2, <1>14, <2>4
        <3>2. PICK i \in DOMAIN bk : TRUE
            BY <3>1
        <3>3. PICK h \in 1..num : bk[i] = K(h)
            BY <1>5
        <3>4. h = g
            BY <3>1
        <3>5. D(g) # {}
            BY <1>4, <3>3, <3>4
        <3> QED
            BY <2>3, <3>5
    <2>5. ~ Grouped => num = 1
        BY <1>2
    <2> QED
        BY <1>2, <1>4, <2>2, <2>3, <2>4, <2>5
<1> QED
    BY <1>12, <1>14 DEF NoEmptyGroup, num, K
-----------------------------------------------------------------------------
(***************************************************************************)
(* update() and merge()                                                    *)
(***************************************************************************)
\* A column of the table as a column of aggregates of one row each.
Unit(f, col) ==
    IF f = "count" THEN [i \in DOMAIN col |-> 1]
    ELSE IF f = "avg" THEN [i \in DOMAIN col |-> [sum |-> col[i], count |-> 1]]
    ELSE col

LEMMA SameVector ==
    ASSUME NEW n, NEW u, NEW v, u = [g \in 1..n |-> u[g]], v = [g \in 1..n |-> v[g]],
           \A g \in 1..n : u[g] = v[g]
    PROVE  u = v
OBVIOUS

\* What update() and merge() share: minima and maxima, and the sums but for
\* where they panic.
LEMMA SharedJoin ==
    ASSUME NEW v, NEW col, NEW indices, NEW n \in Nat,
           \A g \in 1..n : RowsOfFast(g, indices, n) = RowsOf(g, indices)
    PROVE  /\ SumUpdate(v, col, indices, n) = JoinedVector("sum", v, col, indices, n)
           /\ SumMerge(v, col, indices, n) = JoinedVector("sum", v, col, indices, n)
           /\ MinUpdate(v, col, indices, n) = JoinedVector("min", v, col, indices, n)
           /\ MaxUpdate(v, col, indices, n) = JoinedVector("max", v, col, indices, n)
<1> DEFINE r(d) == Resized(v, n, d)
<1>1. \A d : DOMAIN Resized(v, n, d) = 1..n
    BY DEF Resized
<1>2. Default("sum") = 0 /\ Default("min") = Unset /\ Default("max") = Unset
    BY DEF Default
<1>3. /\ SumUpdate(v, col, indices, n) = JoinedVector("sum", v, col, indices, n)
      /\ SumMerge(v, col, indices, n) = JoinedVector("sum", v, col, indices, n)
    <2> DEFINE s == Resized(v, n, 0)
    <2>1. SumUpdate(v, col, indices, n) =
              [g \in 1..n |-> Wrapped(s[g] + SumOver(RowsOfFast(g, indices, n), col))]
        BY <1>1 DEF SumUpdate
    <2>2. SumMerge(v, col, indices, n) =
              [g \in 1..n |-> Wrapped(s[g] + SumOver(RowsOf(g, indices), col))]
        BY <1>1 DEF SumMerge
    <2>3. JoinedVector("sum", v, col, indices, n) =
              [g \in 1..n |-> Wrapped(s[g] + SumOver(RowsOf(g, indices), col))]
        BY <1>2 DEF JoinedVector, Joined
    <2> HIDE DEF s
    <2> QED
        BY <2>1, <2>2, <2>3
<1>4. ASSUME NEW rows
      PROVE  Values(col, rows) = {} <=> rows = {}
    BY DEF Values
<1>5. MinUpdate(v, col, indices, n) = JoinedVector("min", v, col, indices, n)
    <2> DEFINE s == Resized(v, n, Unset)
               e(g) == IF RowsOf(g, indices) = {} THEN s[g]
                       ELSE Lesser(s[g], Values(col, RowsOf(g, indices)))
    <2>1. MinUpdate(v, col, indices, n) =
              [g \in 1..n |-> IF Values(col, RowsOfFast(g, indices, n)) = {} THEN s[g]
                              ELSE Lesser(s[g], Values(col, RowsOfFast(g, indices, n)))]
        BY <1>1 DEF MinUpdate
    <2>2. JoinedVector("min", v, col, indices, n) = [g \in 1..n |-> e(g)]
        BY <1>2 DEF JoinedVector, Joined
    <2> HIDE DEF s
    <2>3. MinUpdate(v, col, indices, n) = [g \in 1..n |-> e(g)]
        BY <1>4, <2>1
    <2> QED
        BY <2>2, <2>3
<1>6. MaxUpdate(v, col, indices, n) = JoinedVector("max", v, col, indices, n)
    <2> DEFINE s == Resized(v, n, Unset)
               e(g) == IF RowsOf(g, indices) = {} THEN s[g]
                       ELSE Greater(s[g], Values(col, RowsOf(g, indices)))
    <2>1. MaxUpdate(v, col, indices, n) =
              [g \in 1..n |-> IF Values(col, RowsOfFast(g, indices, n)) = {} THEN s[g]
                              ELSE Greater(s[g], Values(col, RowsOfFast(g, indices, n)))]
        BY <1>1 DEF MaxUpdate
    <2>2. JoinedVector("max", v, col, indices, n) = [g \in 1..n |-> e(g)]
        BY <1>2 DEF JoinedVector, Joined
    <2> HIDE DEF s
    <2>3. MaxUpdate(v, col, indices, n) = [g \in 1..n |-> e(g)]
        BY <1>4, <2>1
    <2> QED
        BY <2>2, <2>3
<1> QED
    BY <1>3, <1>5, <1>6

LEMMA MergeIsJoin ==
    ASSUME NEW f \in AggFuncs, NEW v, NEW col, NEW indices, NEW n \in Nat,
           \A g \in 1..n : RowsOfFast(g, indices, n) = RowsOf(g, indices)
    PROVE  Merge(f, v, col, indices, n) = JoinedVector(f, v, col, indices, n)
<1>1. CASE f \in {"sum", "min", "max"}
    BY <1>1, SharedJoin DEF Merge
<1>2. CASE f = "count"
    <2> DEFINE s == Resized(v, n, 0)
    <2>1. DOMAIN s = 1..n
        BY DEF Resized
    <2>2. CountMerge(v, col, indices, n) = [g \in 1..n |-> s[g] + SumOver(RowsOf(g, indices), col)]
        BY <2>1 DEF CountMerge
    <2>3. JoinedVector(f, v, col, indices, n) = [g \in 1..n |-> s[g] + SumOver(RowsOf(g, indices), col)]
        BY <1>2 DEF JoinedVector, Joined, Default
    <2> HIDE DEF s
    <2> QED
        BY <1>2, <2>2, <2>3 DEF Merge
<1>3. CASE f = "avg"
    <2> DEFINE s == Resized(v, n, [sum |-> 0, count |-> 0])
    <2>1. DOMAIN s = 1..n
        BY DEF Resized
    <2>2. AvgMerge(v, col, indices, n) =
             [g \in 1..n |-> [sum |-> s[g].sum + SumOver(RowsOf(g, indices), Field(col, "sum")),
                              count |-> s[g].count + SumOver(RowsOf(g, indices), Field(col, "count"))]]
        BY <2>1 DEF AvgMerge, Field
    <2>3. JoinedVector(f, v, col, indices, n) =
             [g \in 1..n |-> [sum |-> s[g].sum + SumOver(RowsOf(g, indices), Field(col, "sum")),
                              count |-> s[g].count + SumOver(RowsOf(g, indices), Field(col, "count"))]]
        BY <1>3 DEF JoinedVector, Joined, Default
    <2> HIDE DEF s
    <2> QED
        BY <1>3, <2>2, <2>3 DEF Merge
<1> QED
    BY <1>1, <1>2, <1>3 DEF AggFuncs

\* A batch of integers, each row of which has a group among 1..n.
Batched(col, indices, n) ==
    /\ n \in Nat
    /\ \A g \in 1..n : RowsOfFast(g, indices, n) = RowsOf(g, indices)
    /\ IsFiniteSet(DOMAIN indices)
    /\ DOMAIN col = DOMAIN indices
    /\ \A i \in DOMAIN col : col[i] \in Int

LEMMA UpdateIsJoin ==
    ASSUME NEW f \in AggFuncs, NEW v, NEW col, NEW indices, NEW n, Batched(col, indices, n)
    PROVE  Update(f, v, col, indices, n) = JoinedVector(f, v, Unit(f, col), indices, n)
<1>0. /\ n \in Nat
      /\ \A g \in 1..n : RowsOfFast(g, indices, n) = RowsOf(g, indices)
      /\ IsFiniteSet(DOMAIN indices)
      /\ DOMAIN col = DOMAIN indices
      /\ \A i \in DOMAIN col : col[i] \in Int
    BY DEF Batched
<1> USE <1>0
<1>1. CASE f \in {"sum", "min", "max"}
    BY <1>1, SharedJoin DEF Update, Unit
<1>2. ASSUME NEW g
      PROVE  IsFiniteSet(RowsOf(g, indices)) /\ RowsOf(g, indices) \subseteq DOMAIN col
    <2>1. RowsOf(g, indices) \subseteq DOMAIN indices
        BY DEF RowsOf
    <2> QED
        BY <2>1, FS_Subset
<1>3. CASE f = "count"
    <2> DEFINE s == Resized(v, n, 0)
               ones == Unit(f, col)
    <2>1. DOMAIN s = 1..n
        BY DEF Resized
    <2>2. CountUpdate(v, indices, n) = [g \in 1..n |-> s[g] + Cardinality(RowsOf(g, indices))]
        BY <2>1 DEF CountUpdate
    <2>3. JoinedVector(f, v, ones, indices, n) = [g \in 1..n |-> s[g] + SumOver(RowsOf(g, indices), ones)]
        BY <1>3 DEF JoinedVector, Joined, Default
    <2>4. \A i \in DOMAIN col : ones[i] = 1
        BY <1>3 DEF Unit
    <2> HIDE DEF s, ones
    <2>5. ASSUME NEW g PROVE SumOver(RowsOf(g, indices), ones) = Cardinality(RowsOf(g, indices))
        <3>1. \A i \in RowsOf(g, indices) : ones[i] = 1
            BY <1>2, <2>4
        <3> QED
            BY <1>2, <3>1, SumOnes DEF SumOver
    <2>6. JoinedVector(f, v, ones, indices, n) = [g \in 1..n |-> s[g] + Cardinality(RowsOf(g, indices))]
        BY <2>3, <2>5
    <2> QED
        BY <1>3, <2>2, <2>6 DEF Update, ones
<1>4. CASE f = "avg"
    <2> DEFINE s == Resized(v, n, [sum |-> 0, count |-> 0])
               unit == Unit(f, col)
               sums == Field(unit, "sum")
               ones == Field(unit, "count")
    <2>1. DOMAIN s = 1..n
        BY DEF Resized
    <2>2. AvgUpdate(v, col, indices, n) =
             [g \in 1..n |-> [sum |-> s[g].sum + SumOver(RowsOf(g, indices), col),
                              count |-> s[g].count + Cardinality(RowsOf(g, indices))]]
        BY <2>1 DEF AvgUpdate
    <2>3. JoinedVector(f, v, unit, indices, n) =
             [g \in 1..n |-> [sum |-> s[g].sum + SumOver(RowsOf(g, indices), sums),
                              count |-> s[g].count + SumOver(RowsOf(g, indices), ones)]]
        BY <1>4 DEF JoinedVector, Joined, Default
    <2>4. \A i \in DOMAIN col : sums[i] = col[i] /\ ones[i] = 1
        <3> SUFFICES ASSUME NEW i \in DOMAIN col PROVE sums[i] = col[i] /\ ones[i] = 1
            OBVIOUS
        <3>1. DOMAIN unit = DOMAIN col /\ unit[i] = [sum |-> col[i], count |-> 1]
            BY <1>4 DEF Unit
        <3> HIDE DEF unit
        <3>2. sums[i] = unit[i].sum /\ ones[i] = unit[i].count
            BY <3>1 DEF Field
        <3> HIDE DEF sums, ones
        <3>3. unit[i].sum = col[i] /\ unit[i].count = 1
            BY <3>1
        <3> QED
            BY <3>2, <3>3
    <2> HIDE DEF s, unit, sums, ones
    <2>5. ASSUME NEW g PROVE /\ SumOver(RowsOf(g, indices), ones) = Cardinality(RowsOf(g, indices))
                             /\ SumOver(RowsOf(g, indices), sums) = SumOver(RowsOf(g, indices), col)
        <3>1. \A i \in RowsOf(g, indices) : ones[i] = 1 /\ col[i] = sums[i] /\ col[i] \in Int
            BY <1>2, <2>4
        <3>2. Summable(col, RowsOf(g, indices))
            BY <1>2, <3>1 DEF Summable
        <3> QED
            BY <1>2, <3>1, <3>2, SumOnes, SumSame DEF SumOver
    <2>6. JoinedVector(f, v, unit, indices, n) =
             [g \in 1..n |-> [sum |-> s[g].sum + SumOver(RowsOf(g, indices), col),
                              count |-> s[g].count + Cardinality(RowsOf(g, indices))]]
        BY <2>3, <2>5
    <2> QED
        BY <1>4, <2>2, <2>6 DEF Update, unit
<1> QED
    BY <1>1, <1>3, <1>4 DEF AggFuncs
\* A merge that does not panic leaves every sum in its range.
LEMMA NoOverflow ==
    ASSUME query \in QueryType, NEW acc, NEW R \in SUBSET Rows, NEW n, AccOf(query, acc, R, n),
           NEW bk \in Seq(KeyType(query)), NEW groups \in Probed(acc.keys, bk),
           "sum" \in Aggregates(query), query.checked,
           NEW col, ~ SumMergeOverflows(acc.of["sum"], col, groups.indices, groups.num)
    PROVE  \A g \in 1..groups.num :
              Resized(acc.of["sum"], groups.num, Default("sum"))[g]
              + SumOver(RowsOf(g, groups.indices), col) \in SumRange
<1> SUFFICES ASSUME NEW g \in 1..groups.num
             PROVE  Resized(acc.of["sum"], groups.num, Default("sum"))[g]
                    + SumOver(RowsOf(g, groups.indices), col) \in SumRange
    OBVIOUS
<1> DEFINE s == Resized(acc.of["sum"], groups.num, 0)
           D == RowsOf(g, groups.indices)
<1>1. Keyed(query, acc.keys, n)
    BY DEF AccOf
<1>2. /\ Keyed(query, groups.keys, groups.num) /\ n <= groups.num
      /\ \A h \in 1..n : GroupAt(query, groups.keys, h) = GroupAt(query, acc.keys, h)
      /\ \A i : i \in D => i \in DOMAIN bk
    BY <1>1, Routed
<1>3. Default("sum") = 0
    BY DEF Default
<1>4. Entry(query, "sum", s[g], InGroup(query, R, GroupAt(query, groups.keys, g)))
    BY <1>2, <1>3, ResizedEntry
<1>5. s[g] \in SumRange
    BY <1>4 DEF Entry, Held
<1>6. DOMAIN bk = 1..Len(bk) /\ Len(bk) \in Nat
    BY LenProperties
<1>7. Numbers(D)
    <2>1. IsFiniteSet(1..Len(bk))
        <3> DEFINE l == Len(bk)
        <3>1. l \in Int /\ 1 \in Int
            BY <1>6
        <3> HIDE DEF l
        <3>2. IsFiniteSet(1..l)
            BY <3>1, FS_Interval
        <3> QED
            BY <3>2 DEF l
    <2>2. IsFiniteSet(D)
        BY <1>2, <1>6, <2>1, FS_Subset
    <2>3. \A i \in D : i \in Int
        BY <1>2, <1>6
    <2> QED
        BY <2>2, <2>3 DEF Numbers
<1>8. ~ LeavesRange(s[g], D, col)
    <2>1. DOMAIN s = 1..groups.num
        BY DEF Resized
    <2> QED
        BY <2>1 DEF SumMergeOverflows
<1> HIDE DEF s, D
<1>9. s[g] + SumOver(D, col) \in SumRange
    BY <1>5, <1>7, <1>8, StaysInRange
<1> QED
    BY <1>3, <1>9 DEF s, D

\* The rows i of a granule, up to m.
GranuleRows(p, g, m) == {r \in Rows : r[1] = p /\ r[2] = g /\ r[3] <= m}

LEMMA GranuleFacts ==
    ASSUME NEW p \in Parts, NEW g \in Granules, NEW m \in Nat, m <= Len(Content[p][g])
    PROVE  /\ \A i \in 1..m : <<p, g, i>> \in GranuleRows(p, g, m) /\ <<p, g, i>> \in Rows
           /\ \A r \in GranuleRows(p, g, m) : r[3] \in 1..m /\ r = <<p, g, r[3]>>
           /\ LET rows == SubSeq(Content[p][g], 1, m)
              IN /\ DOMAIN rows = 1..m
                 /\ Len(rows) = m
                 /\ \A i \in 1..m : rows[i] = Content[p][g][i]
<1>1. /\ Content[p][g] \in Seq(Row) /\ Len(Content[p][g]) \in Nat
      /\ DOMAIN Content[p][g] = 1..Len(Content[p][g])
      /\ \A i \in 1..Len(Content[p][g]) : <<p, g, i>> \in Rows
    BY ContentFacts
<1>2. \A i \in 1..m : i \in 1..Len(Content[p][g]) /\ i <= m
    BY <1>1
<1>3. \A i \in 1..m : <<p, g, i>> \in GranuleRows(p, g, m) /\ <<p, g, i>> \in Rows
    BY <1>1, <1>2 DEF GranuleRows
<1>4. \A r \in GranuleRows(p, g, m) : r[3] \in 1..m /\ r = <<p, g, r[3]>>
    <2> SUFFICES ASSUME NEW r \in GranuleRows(p, g, m)
                 PROVE  r[3] \in 1..m /\ r = <<p, g, r[3]>>
        OBVIOUS
    <2>1. r \in Parts \X Granules \X Positions /\ r[1] = p /\ r[2] = g /\ r[3] <= m
          /\ r[3] \in DOMAIN Content[p][g]
        BY DEF GranuleRows, Rows
    <2>2. r[3] \in 1..Len(Content[p][g])
        BY <1>1, <2>1
    <2>3. r = <<r[1], r[2], r[3]>>
        BY <2>1
    <2> QED
        BY <1>1, <2>1, <2>2, <2>3
<1>5. LET rows == SubSeq(Content[p][g], 1, m)
      IN /\ DOMAIN rows = 1..m
         /\ Len(rows) = m
         /\ \A i \in 1..m : rows[i] = Content[p][g][i]
    <2> DEFINE c == Content[p][g]
    <2>1. c \in Seq(Row) /\ Len(c) \in Nat /\ m <= Len(c)
        BY <1>1
    <2> HIDE DEF c
    <2>2. SubSeq(c, 1, m) = [i \in 1..m |-> c[i]]
        BY <2>1
    <2>3. SubSeq(c, 1, m) \in Seq(Row) /\ Len(SubSeq(c, 1, m)) = m
        BY <2>1
    <2> QED
        BY <2>2, <2>3 DEF c
<1> QED
    BY <1>3, <1>4, <1>5

\* What one row amounts to.
LEMMA UnitOutput ==
    ASSUME NEW q \in QueryType, NEW f \in AggFuncs, NEW r \in Rows,
           NEW col, NEW i \in DOMAIN col, col[i] = Val(r)
    PROVE  Output(q, f, Unit(f, col)[i], {r})
<1>1. Val(r) \in Int /\ Val(r) \in SumRange
    BY RowFacts
<1>2. Cardinality({r}) = 1
    BY FS_Singleton
<1>3. SumOfVals({r}) = Val(r)
    <2>1. {r} \in SUBSET Rows /\ ValOf[r] = Val(r)
        BY RowFacts
    <2> QED
        BY <1>1, <2>1, ValSum, SumSingleton
<1>4. Min(Vals({r})) = Val(r)
    <2>1. {r} \in SUBSET Rows /\ (\E x \in {r} : Val(x) = Val(r)) /\ \A x \in {r} : Val(r) <= Val(x)
        BY <1>1
    <2> QED
        BY <1>1, <2>1, RowLeast
<1>5. Max(Vals({r})) = Val(r)
    <2>1. {r} \in SUBSET Rows /\ (\E x \in {r} : Val(x) = Val(r)) /\ \A x \in {r} : Val(r) >= Val(x)
        BY <1>1
    <2> QED
        BY <1>1, <2>1, RowGreatest
<1>6. {r} # {} /\ 2 * SumHalf \in Int
    BY AggregationAssumption
<1>7. CASE f = "count"
    BY <1>2, <1>7 DEF Output, Unit
<1>8. CASE f = "sum"
    <2>1. Held(q, Val(r), {r})
        BY <1>1, <1>3, <1>6, CongruentSelf DEF Held
    <2> QED
        BY <1>8, <2>1 DEF Output, Unit
<1>9. CASE f = "min"
    BY <1>4, <1>6, <1>9 DEF Output, Unit
<1>10. CASE f = "max"
    BY <1>5, <1>6, <1>10 DEF Output, Unit
<1>11. CASE f = "avg"
    BY <1>2, <1>3, <1>11 DEF Output, Unit
<1> QED
    BY <1>7, <1>8, <1>9, <1>10, <1>11 DEF AggFuncs
\* HashAggregateExec: the groups and accumulators of the rows R and those of a
\* batch of the scan.
LEMMA UpdatedAcc ==
    ASSUME query \in QueryType,
           NEW p \in Parts, NEW g \in Granules, NEW m \in Nat, m <= Len(Content[p][g]),
           NEW rows, rows = SubSeq(Content[p][g], 1, m),
           NEW acc, NEW R \in SUBSET Rows, NEW n, AccOf(query, acc, R, n),
           NEW J, J = GranuleRows(p, g, m), R \cap J = {},
           NEW groups \in Probed(acc.keys, KeysIn(rows)), ~ UpdateOverflows(acc, groups, rows)
    PROVE  /\ AccOf(query, Updated(acc, groups, rows), R \cup J, groups.num)
           /\ NoEmptyGroup(query, acc, R, n) /\ m # 0 =>
                 NoEmptyGroup(query, Updated(acc, groups, rows), R \cup J, groups.num)
<1> DEFINE bk == KeysIn(rows)
           col == Column(rows, "val")
           Q == [i \in 1..m |-> {<<p, g, i>>}]
           num == groups.num
           indices == groups.indices
           new == Updated(acc, groups, rows)
           cols == [f \in Aggregates(query) |-> Unit(f, col)]
<1>1. /\ DOMAIN rows = 1..m /\ Len(rows) = m
      /\ \A i \in 1..m : /\ rows[i] = Content[p][g][i]
                         /\ <<p, g, i>> \in Rows /\ <<p, g, i>> \in J
      /\ \A r \in J : r[3] \in 1..m /\ r = <<p, g, r[3]>>
    BY GranuleFacts
<1>2. \A i \in 1..m : /\ KeyIn(query, <<p, g, i>>) \in KeyType(query)
                      /\ Val(<<p, g, i>>) \in Int
    BY <1>1, RowFacts
<1>3. /\ DOMAIN bk = 1..m /\ bk = [i \in 1..m |-> bk[i]]
      /\ \A i \in 1..m : bk[i] = KeyIn(query, <<p, g, i>>)
    BY <1>1 DEF KeysIn, KeyOf, KeyIn
<1>4. bk \in Seq(KeyType(query)) /\ Len(bk) = m
    <2> HIDE DEF bk
    <2>1. \A i \in 1..m : bk[i] \in KeyType(query)
        BY <1>2, <1>3
    <2> QED
        BY <1>3, <2>1, Vector
<1>5. DOMAIN col = 1..m /\ \A i \in 1..m : col[i] = Val(<<p, g, i>>)
    BY <1>1 DEF Column, Val
<1>6. /\ DOMAIN Q = 1..m
      /\ \A i \in 1..m : Q[i] = {<<p, g, i>>}
    OBVIOUS
<1> HIDE DEF bk, col, Q
<1>7. Gathers(R, DOMAIN bk, Q, J)
    <2>1. IsFiniteSet(1..m)
        BY UpTo
    <2>2. \A i \in 1..m : Q[i] \subseteq Rows /\ Q[i] # {} /\ Q[i] \cap R = {}
        <3> SUFFICES ASSUME NEW i \in 1..m
                     PROVE  Q[i] \subseteq Rows /\ Q[i] # {} /\ Q[i] \cap R = {}
            OBVIOUS
        <3>1. <<p, g, i>> \in Rows /\ <<p, g, i>> \notin R
            BY <1>1
        <3> QED
            BY <1>6, <3>1
    <2>3. \A i, j \in 1..m : i # j => Q[i] \cap Q[j] = {}
        <3> SUFFICES ASSUME NEW i \in 1..m, NEW j \in 1..m, i # j
                     PROVE  Q[i] \cap Q[j] = {}
            OBVIOUS
        <3>1. <<p, g, i>> # <<p, g, j>>
            OBVIOUS
        <3> QED
            BY <1>6, <3>1
    <2>4. \A r : r \in J <=> \E i \in 1..m : r \in Q[i]
        BY <1>1, <1>6
    <2> QED
        BY <1>3, <2>1, <2>2, <2>3, <2>4 DEF Gathers, Joins
<1>8. \A i \in DOMAIN bk : \A r \in Q[i] : KeyIn(query, r) = bk[i]
    BY <1>3, <1>6
<1>9. groups \in Probed(acc.keys, bk)
    BY DEF bk
<1>10. Keyed(query, acc.keys, n)
    BY DEF AccOf
<1>11. /\ num \in Nat
       /\ \A h \in 1..num : RowsOfFast(h, indices, num) = RowsOf(h, indices)
       /\ \A h \in 1..num : \A i : i \in RowsOf(h, indices) => i \in 1..m
    <2>1. /\ Keyed(query, groups.keys, num)
          /\ \A h \in 1..num : RowsOfFast(h, indices, num) = RowsOf(h, indices)
        BY <1>4, <1>9, <1>10, Routed
    <2>2. \A h \in 1..num : \A i : i \in RowsOf(h, indices) => i \in DOMAIN bk
        BY <1>4, <1>9, <1>10, Routed
    <2> QED
        BY <1>3, <2>1, <2>2 DEF Keyed
<1>12. DOMAIN indices = 1..m
    <2>1. indices = GroupIndices(GroupsWith(acc.keys, bk), bk)
        BY <1>9 DEF Probed
    <2>2. DOMAIN GroupIndices(GroupsWith(acc.keys, bk), bk) = DOMAIN bk
        BY DEF GroupIndices
    <2> QED
        BY <1>3, <2>1, <2>2
<1>13. new.keys = groups.keys /\ DOMAIN new.of = Aggregates(query)
    BY DEF Updated, AccOf
<1>14. ASSUME NEW f \in Aggregates(query)
       PROVE  /\ DOMAIN bk \subseteq DOMAIN cols[f]
              /\ \A i \in DOMAIN bk : Output(query, f, cols[f][i], Q[i])
              /\ new.of[f] = JoinedVector(f, acc.of[f], cols[f], indices, num)
    <2>1. f \in AggFuncs /\ f \in DOMAIN acc.of
        BY DEF Aggregates, AccOf
    <2>2. cols[f] = Unit(f, col) /\ DOMAIN Unit(f, col) = 1..m
        BY <1>5 DEF Unit
    <2>3. \A i \in 1..m : Output(query, f, Unit(f, col)[i], Q[i])
        <3> SUFFICES ASSUME NEW i \in 1..m PROVE Output(query, f, Unit(f, col)[i], Q[i])
            OBVIOUS
        <3>1. <<p, g, i>> \in Rows /\ i \in DOMAIN col /\ col[i] = Val(<<p, g, i>>)
            BY <1>1, <1>5
        <3>2. Output(query, f, Unit(f, col)[i], {<<p, g, i>>})
            BY <2>1, <3>1, UnitOutput
        <3> QED
            BY <1>6, <3>2
    <2>4. IsFiniteSet(DOMAIN indices)
        <3>1. IsFiniteSet(1..m)
            BY UpTo
        <3> QED
            BY <1>12, <3>1
    <2>5. Update(f, acc.of[f], col, indices, num) = JoinedVector(f, acc.of[f], Unit(f, col), indices, num)
        <3>1. DOMAIN col = DOMAIN indices /\ \A i \in DOMAIN col : col[i] \in Int
            BY <1>2, <1>5, <1>12
        <3>2. num \in Nat /\ \A h \in 1..num : RowsOfFast(h, indices, num) = RowsOf(h, indices)
            BY <1>11
        <3>3. Batched(col, indices, num)
            BY <2>4, <3>1, <3>2 DEF Batched
        <3> HIDE DEF num, indices, new, col
        <3> QED
            BY <2>1, <3>3, UpdateIsJoin
    <2>6. new.of[f] = Update(f, acc.of[f], col, indices, num)
        BY <2>1 DEF Updated, col
    <2> QED
        BY <1>3, <2>2, <2>3, <2>5, <2>6
<1>15. SumsFit(query, acc, groups, cols)
    <2> SUFFICES ASSUME query.checked, "sum" \in Aggregates(query)
                 PROVE  \A h \in 1..num :
                           Resized(acc.of["sum"], num, Default("sum"))[h]
                           + SumOver(RowsOf(h, indices), col) \in SumRange
        BY DEF Unit, SumsFit
    <2>1. ~ SumUpdateOverflows(acc.of["sum"], col, indices, num)
        BY DEF UpdateOverflows, col
    <2>2. CASE num = 1
        <3>1. Resized(acc.of["sum"], 1, 0)[1] + SumOver(DOMAIN indices, col) \in SumRange
            BY <2>1, <2>2 DEF SumUpdateOverflows
        <3>2. RowsOf(1, indices) = DOMAIN indices
            <4>1. 1 \in 1..num
                BY <2>2
            <4> QED
                BY <1>11, <2>2, <4>1 DEF RowsOfFast
        <3>3. Default("sum") = 0 /\ \A h \in 1..num : h = 1
            BY <2>2 DEF Default
        <3> QED
            BY <2>2, <3>1, <3>2, <3>3
    <2>3. CASE num # 1
        <3>1. ~ SumMergeOverflows(acc.of["sum"], col, indices, num)
            BY <2>1, <2>3 DEF SumUpdateOverflows
        <3> QED
            BY <1>4, <1>9, <3>1, NoOverflow
    <2> QED
        BY <2>2, <2>3
<1>16. JoinsInto(query, acc, groups, cols, new) /\ StandsFor(query, bk, cols, Q)
    <2> HIDE DEF new, cols
    <2> QED
        BY <1>8, <1>13, <1>14 DEF JoinsInto, StandsFor
<1> HIDE DEF new, cols, num, indices
<1>17. /\ AccOf(query, new, R \cup J, num)
       /\ NoEmptyGroup(query, acc, R, n) /\ (Grouped \/ n = 1 \/ DOMAIN bk # {}) =>
             NoEmptyGroup(query, new, R \cup J, num)
    BY <1>4, <1>7, <1>9, <1>15, <1>16, AccJoin DEF num
<1>18. m # 0 => DOMAIN bk # {}
    <2>1. m # 0 => 1 \in 1..m
        OBVIOUS
    <2> QED
        BY <1>3, <2>1
<1> QED
    BY <1>17, <1>18 DEF new, num
-----------------------------------------------------------------------------
(***************************************************************************)
(* Batches of groups                                                       *)
(***************************************************************************)
\* The key of row i of a batch (KeyAt of the query q).
BatchKey(q, b, i) == [c \in q.groupBy |-> b[c][i]]

\* The batch has every column that a merge under query q reads.
Complete(q, b) == q.groupBy \cup Aggregates(q) \subseteq DOMAIN b

\* The n rows of batch b are the groups of the rows R, if it has the columns to
\* tell.
BatchOf(q, b, R, n) ==
    /\ n \in Nat
    /\ q.groupBy = {} => n <= 1
    /\ \A c \in DOMAIN b : b[c] \in Seq(Value) /\ Len(b[c]) = n
    /\ Complete(q, b) =>
          /\ \A i, j \in 1..n : BatchKey(q, b, i) = BatchKey(q, b, j) => i = j
          /\ \A i \in 1..n : BatchKey(q, b, i) \in KeyType(q)
          /\ \A r \in R : \E i \in 1..n : KeyIn(q, r) = BatchKey(q, b, i)
          /\ \A f \in Aggregates(q), i \in 1..n :
                Output(q, f, b[f][i], InGroup(q, R, BatchKey(q, b, i)))

NoEmptyRow(q, b, R, n) ==
    Complete(q, b) => \A i \in 1..n : \E r \in R : KeyIn(q, r) = BatchKey(q, b, i)

\* The SELECT list and the GROUP BY: there is a column in every batch, and the
\* names of columns and of aggregates are different.
LEMMA SelectFacts ==
    ASSUME query \in QueryType
    PROVE  /\ query.groupBy \subseteq TableColumns
           /\ Aggregates(query) \subseteq AggFuncs
           /\ Aggregates(query) \subseteq Projections(query)
           /\ TableColumns \cap AggFuncs = {}
           /\ Projections(query) \in SUBSET (TableColumns \cup AggFuncs)
           /\ OutputColumns # {} /\ OutputColumns = query.groupBy \cup Aggregates(query)
           /\ ~ Grouped => Aggregates(query) # {}
<1>1. query.groupBy \subseteq TableColumns /\ HasAggregateNode(query) /\ query.select \subseteq Items
    BY DEF QueryType
<1>2. TableColumns \cap AggFuncs = {} /\ "*" \notin AggFuncs
    BY DEF TableColumns, AggFuncs
<1>3. Aggregates(query) \subseteq Projections(query) /\ Aggregates(query) \subseteq AggFuncs
    BY <1>2 DEF Aggregates, Projections
<1>4. Projections(query) \subseteq TableColumns \cup AggFuncs
    BY <1>1 DEF Projections, Items
<1>5. query.groupBy # {} \/ Aggregates(query) # {}
    BY <1>1 DEF HasAggregateNode
<1> QED
    BY <1>1, <1>2, <1>3, <1>4, <1>5 DEF OutputColumns, Grouped

\* The columns have the same length, so any of them tells it.
LEMMA RowCount ==
    ASSUME NEW b, NEW R, NEW n, BatchOf(query, b, R, n), DOMAIN b # {}
    PROVE  /\ NumRows(b) = n
           /\ KeysOf(b) = [i \in 1..n |-> BatchKey(query, b, i)]
<1>1. PICK c \in DOMAIN b : c = CHOOSE x \in DOMAIN b : TRUE
    OBVIOUS
<1>2. NumRows(b) = n
    BY <1>1 DEF NumRows, BatchOf
<1>3. \A i : KeyAt(b, i) = BatchKey(query, b, i)
    BY DEF KeyAt, BatchKey
<1> QED
    BY <1>2, <1>3 DEF KeysOf

LEMMA BatchColumns ==
    ASSUME query \in QueryType, NEW b, NEW R, NEW n, BatchOf(query, b, R, n),
           DOMAIN b \in {Projections(query), OutputColumns}
    PROVE  Columns(b)
<1>1. Aggregates(query) \subseteq DOMAIN b
    BY SelectFacts
<1>2. \A c \in DOMAIN b : Len(b[c]) = NumRows(b)
    <2> SUFFICES ASSUME NEW c \in DOMAIN b PROVE Len(b[c]) = NumRows(b)
        OBVIOUS
    <2>1. NumRows(b) = n
        BY RowCount
    <2> QED
        BY <2>1 DEF BatchOf
<1>3. Grouped /\ query.groupBy \subseteq DOMAIN b => IsInjective(KeysOf(b))
    <2> SUFFICES ASSUME Grouped, query.groupBy \subseteq DOMAIN b
                 PROVE  IsInjective(KeysOf(b))
        OBVIOUS
    <2>1. DOMAIN b # {} /\ Complete(query, b)
        BY <1>1 DEF Grouped, Complete
    <2>2. KeysOf(b) = [i \in 1..n |-> BatchKey(query, b, i)]
        BY <2>1, RowCount
    <2>3. \A i, j \in 1..n : BatchKey(query, b, i) = BatchKey(query, b, j) => i = j
        BY <2>1 DEF BatchOf
    <2> QED
        BY <2>2, <2>3 DEF IsInjective
<1>4. ~ Grouped => NumRows(b) <= 1
    <2> SUFFICES ASSUME ~ Grouped PROVE NumRows(b) <= 1
        OBVIOUS
    <2>1. DOMAIN b # {}
        BY <1>1, SelectFacts
    <2>2. NumRows(b) = n
        BY <2>1, RowCount
    <2> QED
        BY <2>2 DEF BatchOf, Grouped
<1> QED
    BY <1>2, <1>3, <1>4 DEF Columns

\* materialize() and the batch of both operators.
LEMMA OutputOfEntry ==
    ASSUME NEW q \in QueryType, NEW f \in AggFuncs, NEW v, NEW n \in Nat,
           v \in Seq(Entries), Len(v) = n, NEW R,
           \A i \in 1..n : R[i] \subseteq Rows /\ Entry(q, f, v[i], R[i])
    PROVE  /\ Materialized(f, v) \in Seq(Value) /\ Len(Materialized(f, v)) = n
           /\ \A i \in 1..n : Output(q, f, Materialized(f, v)[i], R[i])
<1> DEFINE u == Materialized(f, v)
<1>1. DOMAIN v = 1..n
    BY LenProperties
<1>2. DOMAIN u = 1..n /\ u = [i \in 1..n |-> u[i]]
    <2>1. CASE f \in {"min", "max"}
        BY <1>1, <2>1 DEF Materialized
    <2>2. CASE f \notin {"min", "max"}
        <3>1. v \in [1..n -> Entries]
            BY <1>1, SeqDef
        <3> QED
            BY <1>1, <2>2, <3>1 DEF Materialized
    <2> QED
        BY <2>1, <2>2
<1>3. ASSUME NEW i \in 1..n
      PROVE  Output(q, f, u[i], R[i]) /\ u[i] \in Value
    <2>1. Entry(q, f, v[i], R[i]) /\ R[i] \subseteq Rows
        OBVIOUS
    <2>2. SumOfVals(R[i]) \in Int /\ Cardinality(R[i]) \in Int
        BY <2>1, ValSum
    <2>3. R[i] # {} => Min(Vals(R[i])) \in Int /\ Max(Vals(R[i])) \in Int
        BY <2>1, RowExtremes
    <2>4. CASE f = "count"
        <3>1. u[i] = v[i]
            BY <2>4 DEF Materialized
        <3> QED
            BY <2>1, <2>2, <2>4, <3>1 DEF Entry, Output, Value
    <2>5. CASE f = "sum"
        <3>1. u[i] = v[i]
            BY <2>5 DEF Materialized
        <3>2. SumRange \subseteq Int
            BY AggregationAssumption DEF SumRange
        <3> QED
            BY <2>1, <2>5, <3>1, <3>2 DEF Entry, Output, Value, Held
    <2>6. CASE f = "min"
        <3>1. u[i] = v[i].val
            BY <1>1, <2>6 DEF Materialized
        <3>2. v[i] = IF R[i] = {} THEN Unset ELSE [has |-> TRUE, val |-> Min(Vals(R[i]))]
            BY <2>1, <2>6 DEF Entry
        <3>3. u[i] = IF R[i] = {} THEN 0 ELSE Min(Vals(R[i]))
            BY <3>1, <3>2 DEF Unset
        <3> QED
            BY <2>3, <2>6, <3>3 DEF Output, Value
    <2>7. CASE f = "max"
        <3>1. u[i] = v[i].val
            BY <1>1, <2>7 DEF Materialized
        <3>2. v[i] = IF R[i] = {} THEN Unset ELSE [has |-> TRUE, val |-> Max(Vals(R[i]))]
            BY <2>1, <2>7 DEF Entry
        <3>3. u[i] = IF R[i] = {} THEN 0 ELSE Max(Vals(R[i]))
            BY <3>1, <3>2 DEF Unset
        <3> QED
            BY <2>3, <2>7, <3>3 DEF Output, Value
    <2>8. CASE f = "avg"
        <3>1. u[i] = v[i]
            BY <2>8 DEF Materialized
        <3>2. u[i] = [sum |-> SumOfVals(R[i]), count |-> Cardinality(R[i])]
            BY <2>1, <2>8, <3>1 DEF Entry
        <3>3. u[i] \in [sum : Int, count : Int]
            BY <2>2, <3>2
        <3> QED
            BY <2>8, <3>2, <3>3 DEF Output, Value
    <2> QED
        BY <2>4, <2>5, <2>6, <2>7, <2>8 DEF AggFuncs
<1> HIDE DEF u
<1>4. u \in Seq(Value) /\ Len(u) = n
    BY <1>2, <1>3, Vector
<1> QED
    BY <1>3, <1>4 DEF u
\* The batch of the groups and accumulators of the rows R.
LEMMA OutputOfAcc ==
    ASSUME query \in QueryType, NEW acc, NEW R \in SUBSET Rows, NEW n, AccOf(query, acc, R, n)
    PROVE  /\ BatchOf(query, OutputBatch(acc), R, n)
           /\ DOMAIN OutputBatch(acc) = OutputColumns
           /\ NumRows(OutputBatch(acc)) = n
           /\ NoEmptyGroup(query, acc, R, n) => NoEmptyRow(query, OutputBatch(acc), R, n)
<1> DEFINE b == OutputBatch(acc)
           keys == acc.keys
           K(i) == GroupAt(query, keys, i)
<1>1. /\ Keyed(query, keys, n) /\ n \in Nat /\ keys \in Seq(KeyType(query))
      /\ \A r \in R : \E g \in 1..n : KeyIn(query, r) = K(g)
      /\ \A f \in Aggregates(query) :
            /\ acc.of[f] \in Seq(Entries) /\ Len(acc.of[f]) = n
            /\ \A g \in 1..n : Entry(query, f, acc.of[f][g], InGroup(query, R, K(g)))
    BY DEF AccOf, Keyed
<1>2. /\ \A g, h \in 1..n : K(g) = K(h) => g = h
      /\ \A g \in 1..n : K(g) \in KeyType(query)
    BY <1>1, KeyedFacts
<1>3. /\ DOMAIN b = OutputColumns /\ Complete(query, b)
      /\ \A c \in query.groupBy : b[c] = Column(keys, c)
      /\ \A f \in Aggregates(query) : b[f] = Materialized(f, acc.of[f])
    <2>1. \A f \in Aggregates(query) : f \notin query.groupBy
        BY SelectFacts
    <2> QED
        BY <2>1 DEF OutputBatch, OutputColumns, Complete
<1>4. ASSUME NEW c \in query.groupBy
      PROVE  /\ Column(keys, c) \in Seq(Value) /\ Len(Column(keys, c)) = n
             /\ \A i \in 1..n : Column(keys, c)[i] = K(i)[c]
    <2>1. n = Len(keys) /\ DOMAIN keys = 1..n
        BY <1>1, LenProperties DEF Keyed
    <2>2. \A i \in 1..n : keys[i] = K(i) /\ keys[i][c] \in Keys \cup SumRange
        <3>1. \A i \in 1..n : keys[i] = K(i) /\ keys[i] \in KeyType(query)
            BY <1>2 DEF GroupAt
        <3> QED
            BY <3>1 DEF KeyType
    <2>3. Keys \cup SumRange \subseteq Value
        BY AggregationAssumption DEF SumRange, Value
    <2> DEFINE u == Column(keys, c)
    <2>4. DOMAIN u = 1..n /\ u = [i \in 1..n |-> u[i]] /\ \A i \in 1..n : u[i] = keys[i][c]
        BY <2>1 DEF Column
    <2>5. \A i \in 1..n : u[i] \in Value
        BY <2>2, <2>3, <2>4
    <2> HIDE DEF u
    <2>6. u \in Seq(Value) /\ Len(u) = n
        BY <1>1, <2>4, <2>5, Vector
    <2> QED
        BY <2>2, <2>4, <2>6 DEF u
<1>5. ASSUME NEW i \in 1..n
      PROVE  BatchKey(query, b, i) = K(i)
    <2>1. \A c \in query.groupBy : b[c][i] = K(i)[c]
        BY <1>3, <1>4
    <2>2. K(i) \in KeyType(query)
        BY <1>2
    <2> HIDE DEF b, K
    <2>3. K(i) = [c \in query.groupBy |-> K(i)[c]]
        BY <2>2 DEF KeyType
    <2> QED
        BY <2>1, <2>3 DEF BatchKey
<1>6. ASSUME NEW f \in Aggregates(query)
      PROVE  /\ b[f] \in Seq(Value) /\ Len(b[f]) = n
             /\ \A i \in 1..n : Output(query, f, b[f][i], InGroup(query, R, K(i)))
    <2> DEFINE S == [i \in 1..n |-> InGroup(query, R, K(i))]
    <2>1. f \in AggFuncs
        BY DEF Aggregates
    <2>2. \A i \in 1..n : S[i] = InGroup(query, R, K(i)) /\ S[i] \subseteq Rows
        BY DEF InGroup
    <2>3. \A i \in 1..n : S[i] \subseteq Rows /\ Entry(query, f, acc.of[f][i], S[i])
        BY <1>1, <2>2
    <2> HIDE DEF S
    <2>4. /\ Materialized(f, acc.of[f]) \in Seq(Value) /\ Len(Materialized(f, acc.of[f])) = n
          /\ \A i \in 1..n : Output(query, f, Materialized(f, acc.of[f])[i], S[i])
        BY <1>1, <2>1, <2>3, OutputOfEntry
    <2> QED
        BY <1>3, <2>2, <2>4
<1>7. \A c \in DOMAIN b : b[c] \in Seq(Value) /\ Len(b[c]) = n
    <2>1. \A c \in DOMAIN b : c \in query.groupBy \/ c \in Aggregates(query)
        BY <1>3 DEF OutputColumns
    <2> QED
        BY <1>3, <1>4, <1>6, <2>1
<1>8. query.groupBy = {} => n <= 1
    BY <1>1 DEF Keyed
<1> HIDE DEF b, K
<1>9. BatchOf(query, b, R, n)
    <2>1. \A i, j \in 1..n : BatchKey(query, b, i) = BatchKey(query, b, j) => i = j
        BY <1>2, <1>5
    <2>2. \A i \in 1..n : BatchKey(query, b, i) \in KeyType(query)
        BY <1>2, <1>5
    <2>3. \A r \in R : \E i \in 1..n : KeyIn(query, r) = BatchKey(query, b, i)
        BY <1>1, <1>5
    <2>4. \A f \in Aggregates(query), i \in 1..n :
              Output(query, f, b[f][i], InGroup(query, R, BatchKey(query, b, i)))
        BY <1>5, <1>6
    <2> QED
        BY <1>1, <1>7, <1>8, <2>1, <2>2, <2>3, <2>4 DEF BatchOf
<1>10. DOMAIN b # {}
    BY <1>3, SelectFacts
<1>11. NumRows(b) = n
    BY <1>9, <1>10, RowCount
<1>12. NoEmptyGroup(query, acc, R, n) => NoEmptyRow(query, b, R, n)
    BY <1>5 DEF NoEmptyGroup, NoEmptyRow, InGroup, K
<1> QED
    BY <1>3, <1>9, <1>11, <1>12 DEF b

\* The rows in the first m groups of a batch.
Kept(q, b, R, m) == {r \in R : \E i \in 1..m : KeyIn(q, r) = BatchKey(q, b, i)}

\* ProjectExec and LimitExec: the columns P and the first m rows of a batch stand
\* for the rows of the groups that are left.
LEMMA ClippedBatch ==
    ASSUME NEW q \in QueryType, NEW b, NEW R, NEW n, BatchOf(q, b, R, n), NoEmptyRow(q, b, R, n),
           NEW P, P \subseteq DOMAIN b, NEW m \in Nat, m <= n,
           NEW S, S = Kept(q, b, R, m),
           NEW cut, cut = FirstRows(Restrict(b, P), m)
    PROVE  /\ DOMAIN cut = P /\ cut \in AggregateBatch(P)
           /\ BatchOf(q, cut, S, m) /\ NoEmptyRow(q, cut, S, m)
           /\ Complete(q, b) /\ m = n => S = R
<1>0. \A r : r \in S <=> r \in R /\ \E i \in 1..m : KeyIn(q, r) = BatchKey(q, b, i)
    BY DEF Kept
<1>1. /\ n \in Nat /\ (q.groupBy = {} => n <= 1)
      /\ \A c \in DOMAIN b : b[c] \in Seq(Value) /\ Len(b[c]) = n
    BY DEF BatchOf
<1>2. /\ DOMAIN cut = P /\ cut = [c \in P |-> cut[c]]
      /\ \A c \in P : cut[c] = SubSeq(b[c], 1, m)
    BY DEF FirstRows, Restrict
<1>3. ASSUME NEW c \in P
      PROVE  /\ cut[c] \in Seq(Value) /\ Len(cut[c]) = m
             /\ \A i \in 1..m : cut[c][i] = b[c][i]
    <2> DEFINE v == b[c]
    <2>1. v \in Seq(Value) /\ m <= Len(v) /\ Len(v) \in Nat
        BY <1>1
    <2> HIDE DEF v
    <2>2. SubSeq(v, 1, m) = [i \in 1..m |-> v[i]]
        BY <2>1
    <2>3. SubSeq(v, 1, m) \in Seq(Value) /\ Len(SubSeq(v, 1, m)) = m
        BY <2>1
    <2> QED
        BY <1>2, <2>2, <2>3 DEF v
<1>4. cut \in AggregateBatch(P)
    BY <1>2, <1>3 DEF AggregateBatch
<1>5. ASSUME Complete(q, cut), NEW i \in 1..m
      PROVE  /\ BatchKey(q, cut, i) = BatchKey(q, b, i) /\ i \in 1..n
             /\ Complete(q, b)
             /\ InGroup(q, S, BatchKey(q, b, i)) = InGroup(q, R, BatchKey(q, b, i))
    <2>1. \A c \in q.groupBy : cut[c][i] = b[c][i]
        BY <1>2, <1>3, <1>5 DEF Complete
    <2>2. BatchKey(q, cut, i) = BatchKey(q, b, i)
        BY <2>1 DEF BatchKey
    <2>3. i \in 1..n
        BY <1>1
    <2>4. Complete(q, b)
        BY <1>2, <1>5 DEF Complete
    <2>5. InGroup(q, S, BatchKey(q, b, i)) = InGroup(q, R, BatchKey(q, b, i))
        BY <1>0 DEF InGroup
    <2> QED
        BY <2>2, <2>3, <2>4, <2>5
<1>6. BatchOf(q, cut, S, m)
    <2>1. ASSUME Complete(q, cut), NEW i \in 1..m, NEW j \in 1..m,
                 BatchKey(q, cut, i) = BatchKey(q, cut, j)
          PROVE  i = j
        <3>1. /\ BatchKey(q, b, i) = BatchKey(q, b, j) /\ i \in 1..n /\ j \in 1..n
              /\ Complete(q, b)
            BY <1>5, <2>1
        <3> QED
            BY <3>1 DEF BatchOf
    <2>2. ASSUME Complete(q, cut), NEW i \in 1..m
          PROVE  BatchKey(q, cut, i) \in KeyType(q)
        <3>1. BatchKey(q, cut, i) = BatchKey(q, b, i) /\ i \in 1..n /\ Complete(q, b)
            BY <1>5, <2>2
        <3> QED
            BY <3>1 DEF BatchOf
    <2>3. ASSUME Complete(q, cut), NEW r \in S
          PROVE  \E i \in 1..m : KeyIn(q, r) = BatchKey(q, cut, i)
        BY <1>0, <1>5, <2>3
    <2>4. ASSUME Complete(q, cut), NEW f \in Aggregates(q), NEW i \in 1..m
          PROVE  Output(q, f, cut[f][i], InGroup(q, S, BatchKey(q, cut, i)))
        <3>1. /\ BatchKey(q, cut, i) = BatchKey(q, b, i) /\ i \in 1..n /\ Complete(q, b)
              /\ InGroup(q, S, BatchKey(q, b, i)) = InGroup(q, R, BatchKey(q, b, i))
            BY <1>5, <2>4
        <3>2. Output(q, f, b[f][i], InGroup(q, R, BatchKey(q, b, i)))
            BY <3>1 DEF BatchOf
        <3>3. cut[f][i] = b[f][i]
            BY <1>2, <1>3, <2>4 DEF Complete
        <3> QED
            BY <3>1, <3>2, <3>3
    <2>5. q.groupBy = {} => m <= 1
        BY <1>1
    <2>6. \A c \in DOMAIN cut : cut[c] \in Seq(Value) /\ Len(cut[c]) = m
        BY <1>2, <1>3
    <2> QED
        BY <2>1, <2>2, <2>3, <2>4, <2>5, <2>6 DEF BatchOf
<1>7. NoEmptyRow(q, cut, S, m)
    <2> SUFFICES ASSUME Complete(q, cut), NEW i \in 1..m
                 PROVE  \E r \in S : KeyIn(q, r) = BatchKey(q, cut, i)
        BY DEF NoEmptyRow
    <2>1. BatchKey(q, cut, i) = BatchKey(q, b, i) /\ i \in 1..n /\ Complete(q, b)
        BY <1>5
    <2>2. PICK r \in R : KeyIn(q, r) = BatchKey(q, b, i)
        BY <2>1 DEF NoEmptyRow
    <2> QED
        BY <1>0, <2>1, <2>2
<1>8. Complete(q, b) /\ m = n => S = R
    BY <1>0 DEF BatchOf
<1> QED
    BY <1>2, <1>4, <1>6, <1>7, <1>8

\* The batch b of the m groups of the rows J is about to be merged into the groups
\* and accumulators acc of the rows R.
Merging(acc, R, n, b, J, m, groups) ==
    /\ query \in QueryType
    /\ R \subseteq Rows /\ J \subseteq Rows /\ R \cap J = {}
    /\ AccOf(query, acc, R, n)
    /\ BatchOf(query, b, J, m) /\ NoEmptyRow(query, b, J, m) /\ Complete(query, b)
    /\ groups \in Probed(acc.keys, KeysOf(b)) /\ ~ MergeOverflows(acc, groups, b)

\* MergeAggregateExec: the groups and accumulators of the rows R and those of the
\* batch of a worker.
LEMMA MergedAcc ==
    ASSUME NEW acc, NEW R, NEW n, NEW b, NEW J, NEW m, NEW groups,
           Merging(acc, R, n, b, J, m, groups)
    PROVE  /\ AccOf(query, Merged(acc, groups, b), R \cup J, groups.num)
           /\ NoEmptyGroup(query, acc, R, n) /\ (Grouped \/ n = 1) =>
                 NoEmptyGroup(query, Merged(acc, groups, b), R \cup J, groups.num)
           /\ ~ Grouped => groups.num = 1
<1>0. /\ query \in QueryType
      /\ R \in SUBSET Rows /\ J \in SUBSET Rows /\ R \cap J = {}
      /\ AccOf(query, acc, R, n)
      /\ BatchOf(query, b, J, m) /\ NoEmptyRow(query, b, J, m) /\ Complete(query, b)
      /\ groups \in Probed(acc.keys, KeysOf(b)) /\ ~ MergeOverflows(acc, groups, b)
    BY DEF Merging
<1> USE <1>0
<1> DEFINE bk == KeysOf(b)
           K(i) == BatchKey(query, b, i)
           Q == [i \in 1..m |-> InGroup(query, J, K(i))]
           num == groups.num
           indices == groups.indices
           new == Merged(acc, groups, b)
<1>1. /\ m \in Nat
      /\ \A i, j \in 1..m : K(i) = K(j) => i = j
      /\ \A i \in 1..m : K(i) \in KeyType(query)
      /\ \A r \in J : \E i \in 1..m : KeyIn(query, r) = K(i)
      /\ \A i \in 1..m : \E r \in J : KeyIn(query, r) = K(i)
    BY DEF BatchOf, NoEmptyRow
<1>2. /\ \A c \in DOMAIN b : b[c] \in Seq(Value) /\ Len(b[c]) = m
      /\ \A f \in Aggregates(query), i \in 1..m : Output(query, f, b[f][i], InGroup(query, J, K(i)))
    BY DEF BatchOf
<1>3. DOMAIN b # {}
    BY SelectFacts DEF Complete
<1>4. /\ DOMAIN bk = 1..m /\ bk = [i \in 1..m |-> bk[i]]
      /\ \A i \in 1..m : bk[i] = K(i)
    <2>1. KeysOf(b) = [i \in 1..m |-> BatchKey(query, b, i)]
        BY <1>3, RowCount
    <2>2. bk = [i \in 1..m |-> K(i)]
        BY <2>1
    <2> HIDE DEF bk, K
    <2> QED
        BY <2>2
<1> HIDE DEF bk, K
<1>5. bk \in Seq(KeyType(query)) /\ Len(bk) = m
    <2>1. \A i \in 1..m : bk[i] \in KeyType(query)
        BY <1>1, <1>4
    <2> QED
        BY <1>1, <1>4, <2>1, Vector
<1>6. /\ DOMAIN Q = 1..m
      /\ \A i \in 1..m : Q[i] = InGroup(query, J, K(i))
    OBVIOUS
<1> HIDE DEF Q
<1>7. \A i \in 1..m : \A r : r \in Q[i] <=> r \in J /\ KeyIn(query, r) = K(i)
    BY <1>6 DEF InGroup
<1>8. Gathers(R, DOMAIN bk, Q, J)
    <2>1. IsFiniteSet(1..m)
        <3>1. m \in Int /\ 1 \in Int
            BY <1>1
        <3> QED
            BY <3>1, FS_Interval
    <2>2. \A i \in 1..m : Q[i] \subseteq Rows /\ Q[i] # {} /\ Q[i] \cap R = {}
        <3> SUFFICES ASSUME NEW i \in 1..m
                     PROVE  Q[i] \subseteq Rows /\ Q[i] # {} /\ Q[i] \cap R = {}
            OBVIOUS
        <3>1. Q[i] \subseteq J
            BY <1>7
        <3>2. Q[i] # {}
            BY <1>1, <1>7
        <3> QED
            BY <3>1, <3>2
    <2>3. \A i, j \in 1..m : i # j => Q[i] \cap Q[j] = {}
        BY <1>1, <1>7
    <2>4. \A r : r \in J <=> \E i \in 1..m : r \in Q[i]
        BY <1>1, <1>7
    <2> QED
        BY <1>4, <2>1, <2>2, <2>3, <2>4 DEF Gathers, Joins
<1>9. groups \in Probed(acc.keys, bk)
    BY DEF bk
<1>10. Keyed(query, acc.keys, n)
    BY DEF AccOf
<1>11. /\ Keyed(query, groups.keys, num) /\ num \in Nat
       /\ ~ Grouped => num = 1
       /\ \A h \in 1..num : RowsOfFast(h, indices, num) = RowsOf(h, indices)
    <2>1. /\ Keyed(query, groups.keys, num)
          /\ ~ Grouped => num = 1
          /\ \A h \in 1..num : RowsOfFast(h, indices, num) = RowsOf(h, indices)
        BY <1>5, <1>9, <1>10, Routed
    <2> QED
        BY <2>1 DEF Keyed
<1>12. StandsFor(query, bk, b, Q)
    <2>1. \A i \in DOMAIN bk : \A r \in Q[i] : KeyIn(query, r) = bk[i]
        BY <1>4, <1>7
    <2>2. ASSUME NEW f \in Aggregates(query)
          PROVE  /\ DOMAIN bk \subseteq DOMAIN b[f]
                 /\ \A i \in DOMAIN bk : Output(query, f, b[f][i], Q[i])
        <3>1. f \in DOMAIN b
            BY DEF Complete
        <3>2. DOMAIN b[f] = 1..m
            BY <1>2, <3>1, LenProperties
        <3> QED
            BY <1>2, <1>4, <1>6, <3>2
    <2> QED
        BY <2>1, <2>2 DEF StandsFor
<1>13. JoinsInto(query, acc, groups, b, new)
    <2>1. new.keys = groups.keys /\ DOMAIN new.of = Aggregates(query)
        BY DEF Merged, AccOf
    <2>2. ASSUME NEW f \in Aggregates(query)
          PROVE  new.of[f] = JoinedVector(f, acc.of[f], b[f], indices, num)
        <3>1. f \in AggFuncs /\ f \in DOMAIN acc.of
            BY DEF Aggregates, AccOf
        <3>2. new.of[f] = Merge(f, acc.of[f], b[f], indices, num)
            BY <3>1 DEF Merged
        <3> HIDE DEF new, num, indices
        <3> QED
            BY <1>11, <3>1, <3>2, MergeIsJoin
    <2> HIDE DEF new
    <2> QED
        BY <2>1, <2>2 DEF JoinsInto
<1>14. SumsFit(query, acc, groups, b)
    <2> SUFFICES ASSUME query.checked, "sum" \in Aggregates(query)
                 PROVE  \A h \in 1..num :
                           Resized(acc.of["sum"], num, Default("sum"))[h]
                           + SumOver(RowsOf(h, indices), b["sum"]) \in SumRange
        BY DEF SumsFit
    <2>1. ~ SumMergeOverflows(acc.of["sum"], b["sum"], indices, num)
        BY DEF MergeOverflows
    <2> QED
        BY <1>5, <1>9, <2>1, NoOverflow
<1> HIDE DEF new, num
<1>15. /\ AccOf(query, new, R \cup J, num)
       /\ NoEmptyGroup(query, acc, R, n) /\ (Grouped \/ n = 1 \/ DOMAIN bk # {}) =>
             NoEmptyGroup(query, new, R \cup J, num)
    BY <1>5, <1>8, <1>9, <1>12, <1>13, <1>14, AccJoin DEF num
<1> QED
    BY <1>11, <1>15 DEF new, num
-----------------------------------------------------------------------------
(***************************************************************************)
(* The inductive invariant                                                 *)
(*                                                                         *)
(* A row that matches is unread, or in one place: the accumulators of a    *)
(* worker, the batch it is about to send, a batch in the channel, or the   *)
(* merged accumulators; or it is lost.  place[r] is the place of row r.    *)
(* Batches in the channel are numbered as they are sent, and received is   *)
(* the number of those that have been taken out.                           *)
(***************************************************************************)
Unread == <<"unread", 0>>
Lost == <<"lost", 0>>
AtMerged == <<"merged", 0>>
AtWorker(w) == <<"worker", w>>
AtHand(w) == <<"hand", w>>
AtChannel(i) == <<"channel", i>>

At(place, x) == {r \in DOMAIN place : place[r] = x}

\* Accumulators, batches, merged accumulators and the answer of the rows R.
Holding(q, acc, R) == \E n : AccOf(q, acc, R, n) /\ NoEmptyGroup(q, acc, R, n)
Carrying(q, b, R) ==
    b \notin {Error, NoBatch} => \E n : BatchOf(q, b, R, n) /\ NoEmptyRow(q, b, R, n)
Collecting(q, acc, R) ==
    \E n : /\ AccOf(q, acc, R, n)
           /\ IF q.groupBy # {} THEN NoEmptyGroup(q, acc, R, n) ELSE n = 1
Answering(q, b, R) ==
    /\ DOMAIN b = q.groupBy \cup Aggregates(q)
    /\ \E n : /\ BatchOf(q, b, R, n)
              /\ IF q.groupBy # {} THEN NoEmptyRow(q, b, R, n) ELSE n = 1

\* Everything is made of the rows that are there.
Placed(place, received) ==
    /\ received \in Nat
    /\ DOMAIN place = Matches
    /\ \A w \in Workers : Holding(query, partial[w], At(place, AtWorker(w)))
    /\ \A w \in Workers : Carrying(query, hand[w], At(place, AtHand(w)))
    /\ \A i \in 1..Len(channel) : Carrying(query, channel[i], At(place, AtChannel(received + i)))
    /\ outcome # "ok" => Collecting(query, merged, At(place, AtMerged))
    /\ outcome = "ok" => merged = NoGroups /\ Answering(query, answer, At(place, AtMerged))
    /\ \A r \in Matches : place[r] # Unread => r \in ReadRows

\* Row r is not lost.
InPlace(place, received, r) ==
    \/ \E w \in Workers : place[r] = AtWorker(w)
    \/ \E w \in Workers : place[r] = AtHand(w) /\ pc[w] = "send"
    \/ \E i \in 1..Len(channel) : place[r] = AtChannel(received + i)
    \/ place[r] = AtMerged

Accounted(place, received) ==
    outcome = "none" /\ NoPanic /\ LimitHarmless /\ ~ Failed =>
        \A r \in ReadRows : InPlace(place, received, r)

Ended(place) ==
    outcome = "ok" /\ NoPanic /\ LimitHarmless =>
        At(place, AtMerged) = Matches /\ OutputColumns = Projections(query)

AnyBatch(q) == {Error} \cup AggregateBatch(Projections(q))

ControlType ==
    /\ table \in Tables /\ query \in Queries
    /\ next \in Nat
    /\ pc \in [Workers -> {"scan", "send", "done", "panicked"}]
    /\ scan \in [Workers -> Scans]
    /\ hand \in [Workers -> {NoBatch} \cup AnyBatch(query)]
    /\ emitted \in [Workers -> Nat]
    /\ channel \in Seq(AnyBatch(query))
    /\ flushed \in [Workers -> BOOLEAN]
    /\ partial = [w \in Workers |-> partial[w]]
    /\ outcome \in {"none", "ok", "err", "panic", "overflow"}
    /\ outcome # "ok" => answer = NoBatch

\* No part is open twice, and none that has not been handed out.
ScanOrder ==
    /\ \A w \in Workers : scan[w] # NoScan => scan[w].part < next
    /\ \A v, w \in Workers : v # w /\ scan[v] # NoScan => scan[v].part # scan[w].part

\* The threads and the consumer agree on how far the query is.
Stages ==
    /\ next >= 1
    /\ consumer = "pulling" <=> outcome = "none"
    /\ consumer = "pulling" => rxOpen
    /\ outcome = "ok" => \A w \in Workers : Stopped(w)
    /\ \A w \in Workers :
          /\ pc[w] = "send" => hand[w] # NoBatch
          /\ outcome = "none" /\ hand[w] # NoBatch => pc[w] = "send"
          /\ flushed[w] => next \notin Parts /\ scan[w] = NoScan /\ partial[w] = NoGroups
          /\ ~ flushed[w] => emitted[w] = 0
          /\ pc[w] = "done" /\ outcome = "none" => flushed[w] \/ LimitReached(w)

\* A column of the GROUP BY or of the SELECT list that the batches lack is met
\* before the query ends.
ColumnsMet ==
    \A w \in Workers : outcome = "none" /\ ~ Failed /\ flushed[w] =>
        /\ Projections(query) \subseteq OutputColumns
        /\ query.groupBy \subseteq Projections(query) \/ pc[w] = "send" \/ channel # <<>>

Control == ControlType /\ ScanOrder /\ Stages /\ ColumnsMet

AInv == /\ Control
        /\ \E place, received :
              Placed(place, received) /\ Accounted(place, received) /\ Ended(place)

-----------------------------------------------------------------------------
(***************************************************************************)
(* Threads, scans and the channel                                          *)
(***************************************************************************)
LEMMA PartFacts ==
    ASSUME ControlType, NEW p \in Parts
    PROVE  /\ p \in Nat /\ p # 0
           /\ table.size[p] \in {0} \cup Granules
           /\ table.size[p] \in Nat
           /\ \A g \in Granules : /\ table.rows[p][g] \in Nat
                                  /\ table.rows[p][g] <= Len(Content[p][g])
<1>1. table \in TableType /\ table \in Tables
    BY QueryAssumption DEF ControlType
<1>2. p \in Nat /\ p # 0
    BY QueryAssumption, SMT DEF Parts
<1>3. /\ table.size \in [Parts -> {0} \cup Granules]
      /\ table.rows \in [Parts -> [Granules -> Nat]]
    BY <1>1 DEF TableType
<1>4. /\ table.size[p] \in {0} \cup Granules
      /\ \A g \in Granules : table.rows[p][g] \in Nat
    BY <1>3
<1>5. table.size[p] \in Nat
    BY <1>4, QueryAssumption, SMT DEF Granules
<1>6. \A g \in Granules : table.rows[p][g] <= Len(Content[p][g])
    BY <1>1, AggregationAssumption
<1> QED
    BY <1>2, <1>4, <1>5, <1>6

\* An open scan is at a part and at a granule number.
LEMMA OpenScan ==
    ASSUME ControlType, NEW w \in Workers
    PROVE  /\ scan[w].part \in Nat
           /\ scan[w].granule \in Nat
           /\ scan[w] # NoScan => /\ scan[w] \in [part : Parts, granule : Granules]
                                  /\ scan[w].part \in Parts
                                  /\ scan[w].granule \in Granules
           /\ scan[w] = NoScan => scan[w].part = 0 /\ scan[w].granule = 0
<1>1. scan[w] \in Scans
    BY DEF ControlType
<1>2. CASE scan[w] = NoScan
    BY <1>2, SMT DEF NoScan
<1>3. CASE scan[w] # NoScan
    <2>1. scan[w] \in [part : Parts, granule : Granules]
        BY <1>1, <1>3 DEF Scans
    <2>2. scan[w].part \in Parts /\ scan[w].granule \in Granules
        BY <2>1
    <2>3. scan[w].part \in Nat /\ scan[w].granule \in Nat
        BY <2>2, QueryAssumption, SMT DEF Parts, Granules
    <2> QED
        BY <1>3, <2>1, <2>2, <2>3
<1> QED
    BY <1>2, <1>3

\* After a granule the scan is at the next one, or closed.
LEMMA NextGranule ==
    ASSUME ControlType, NEW w \in Workers, scan[w] # NoScan
    PROVE  /\ Advanced(scan[w]) \in Scans
           /\ \/ Advanced(scan[w]) = NoScan /\ scan[w].granule >= table.size[scan[w].part]
              \/ /\ Advanced(scan[w]).part = scan[w].part
                 /\ Advanced(scan[w]).granule = scan[w].granule + 1
                 /\ Advanced(scan[w]) # NoScan
<1>1. /\ scan[w] \in [part : Parts, granule : Granules]
      /\ scan[w].part \in Parts /\ scan[w].granule \in Granules
      /\ scan[w].granule \in Nat
    BY OpenScan
<1>2. /\ table.size[scan[w].part] \in {0} \cup Granules
      /\ table.size[scan[w].part] \in Nat
      /\ scan[w].part # 0
    BY <1>1, PartFacts
<1>3. CASE scan[w].granule >= table.size[scan[w].part]
    BY <1>3 DEF Advanced, Scans
<1>4. CASE ~ (scan[w].granule >= table.size[scan[w].part])
    <2> DEFINE s == [scan[w] EXCEPT !.granule = @ + 1]
    <2>1. Advanced(scan[w]) = s
        BY <1>4 DEF Advanced
    <2>2. scan[w].granule + 1 \in Granules
        BY <1>1, <1>2, <1>4, QueryAssumption, SMT DEF Granules
    <2>3. /\ s \in [part : Parts, granule : Granules]
          /\ s.part = scan[w].part /\ s.granule = scan[w].granule + 1
        BY <1>1, <2>2
    <2>4. s # NoScan
        BY <2>3, <1>2 DEF NoScan
    <2> QED
        BY <2>1, <2>3, <2>4 DEF Scans
<1> QED
    BY <1>3, <1>4

\* LimitExec cuts a batch only to fill the limit.
LEMMA CutToLimit ==
    ASSUME ControlType, NEW w \in Workers, NEW rows \in Nat, ~ LimitReached(w)
    PROVE  /\ Clipped(w, rows) \in Nat /\ Clipped(w, rows) <= rows
           /\ \/ Clipped(w, rows) = rows
              \/ Limit # NoLimit /\ Limit \in Nat /\ rows > Limit - emitted[w]
<1>1. emitted[w] \in Nat
    BY DEF ControlType
<1>2. Limit # NoLimit => Limit \in Nat /\ ~ (emitted[w] >= Limit)
    BY QueryAssumption DEF LimitReached, ControlType, TableType, Limit
<1> QED
    BY <1>1, <1>2, SMT DEF Clipped

\* Batches are neither errors nor "nothing to send".
LEMMA BatchFacts ==
    ASSUME ControlType
    PROVE  /\ query \in QueryType
           /\ Error # NoBatch
           /\ Error \notin AggregateBatch(Projections(query))
           /\ NoBatch \notin AnyBatch(query)
<1>1. query \in QueryType
    BY AggregationAssumption DEF ControlType
<1>2. Error # NoBatch
    BY QueryAssumption
<1>3. Projections(query) \in SUBSET (TableColumns \cup AggFuncs)
    BY <1>1, SelectFacts
<1>4. {Error, NoBatch} \cap AggregateBatch(Projections(query)) = {}
    BY <1>3, AggregationAssumption
<1> QED
    BY <1>1, <1>2, <1>4 DEF AnyBatch

\* The head of a channel that is not empty, and what is left.
LEMMA Taken ==
    ASSUME ControlType, channel # <<>>
    PROVE  /\ Head(channel) \in AnyBatch(query)
           /\ Tail(channel) \in Seq(AnyBatch(query))
           /\ Len(channel) \in Nat /\ 1 \in 1..Len(channel)
           /\ Head(channel) = channel[1]
           /\ Len(Tail(channel)) = Len(channel) - 1
           /\ \A i \in 1..Len(Tail(channel)) :
                 /\ Tail(channel)[i] = channel[i + 1]
                 /\ i + 1 \in 1..Len(channel) /\ i + 1 # 1
           /\ \A i \in 1..Len(channel) : i # 1 => i - 1 \in 1..Len(Tail(channel))
<1>1. channel \in Seq(AnyBatch(query))
    BY DEF ControlType
<1> DEFINE S == AnyBatch(query)
<1> HIDE DEF S
<1>2. channel \in Seq(S)
    BY <1>1 DEF S
<1>3. /\ Head(channel) \in S
      /\ Tail(channel) \in Seq(S)
      /\ Len(Tail(channel)) = Len(channel) - 1
      /\ \A i \in 1..Len(Tail(channel)) : Tail(channel)[i] = channel[i + 1]
    BY <1>2, HeadTailProperties
<1>4. Len(channel) \in Nat /\ 1 <= Len(channel)
    BY <1>2, EmptySeq, LenProperties, SMT
<1>5. Head(channel) = channel[1]
    BY <1>2, SMT
<1>6. /\ \A i \in 1..(Len(channel) - 1) : i + 1 \in 1..Len(channel) /\ i + 1 # 1
      /\ \A i \in 1..Len(channel) : i # 1 => i - 1 \in 1..(Len(channel) - 1)
      /\ 1 \in 1..Len(channel)
    BY <1>4, SMT
<1> QED
    BY <1>3, <1>4, <1>5, <1>6 DEF S
\* What worker w makes of its rows R: the batch b, of which m groups are left for
\* the rows S.
Flushes(w, R, b, m, cut, S) ==
    /\ b = OutputBatch(partial[w])
    /\ m = Clipped(w, NumRows(b))
    /\ cut = FirstRows(Restrict(b, Projections(query)), m)
    /\ S = Kept(query, b, R, m)

\* A worker sends the groups of its rows, or those that LIMIT leaves of them.
LEMMA Flushing ==
    ASSUME ControlType, NEW w \in Workers, ~ LimitReached(w),
           NEW R \in SUBSET Rows, NEW n,
           AccOf(query, partial[w], R, n), NoEmptyGroup(query, partial[w], R, n),
           Projections(query) \subseteq OutputColumns,
           NEW b, NEW m, NEW cut, NEW S, Flushes(w, R, b, m, cut, S)
    PROVE  /\ cut \in AggregateBatch(Projections(query))
           /\ BatchOf(query, cut, S, m) /\ NoEmptyRow(query, cut, S, m)
           /\ NumRows(b) = n /\ n \in Nat /\ m \in Nat
           /\ m = n => S = R
<1>1. query \in QueryType
    BY BatchFacts
<1>0. /\ b = OutputBatch(partial[w])
      /\ m = Clipped(w, NumRows(b))
      /\ cut = FirstRows(Restrict(b, Projections(query)), m)
      /\ S = Kept(query, b, R, m)
    BY DEF Flushes
<1>2. /\ BatchOf(query, b, R, n) /\ NoEmptyRow(query, b, R, n)
      /\ DOMAIN b = OutputColumns
      /\ NumRows(b) = n
    BY <1>0, <1>1, OutputOfAcc
<1>3. n \in Nat
    BY <1>2 DEF BatchOf
<1>4. m \in Nat /\ m <= n
    BY <1>0, <1>2, <1>3, CutToLimit
<1>5. Complete(query, b)
    BY <1>2 DEF Complete, OutputColumns
<1> DEFINE P == Projections(query)
<1>6. P \subseteq DOMAIN b
    BY <1>2
<1> HIDE DEF P
<1>7. cut = FirstRows(Restrict(b, P), m)
    BY <1>0 DEF P
<1>8. /\ DOMAIN cut = P /\ cut \in AggregateBatch(P)
      /\ BatchOf(query, cut, S, m) /\ NoEmptyRow(query, cut, S, m)
      /\ Complete(query, b) /\ m = n => S = R
    BY <1>0, <1>1, <1>2, <1>4, <1>6, <1>7, ClippedBatch
<1> QED
    BY <1>2, <1>3, <1>4, <1>5, <1>7, <1>8 DEF P

LEMMA PartialChange ==
    ASSUME ControlType, NEW w \in Workers, NEW x, partial' = [partial EXCEPT ![w] = x]
    PROVE  /\ partial' = [v \in Workers |-> partial'[v]]
           /\ partial'[w] = x /\ \A v \in Workers : v # w => partial'[v] = partial[v]
<1> DEFINE p == partial
<1>1. p = [v \in Workers |-> p[v]]
    BY DEF ControlType
<1>2. partial' = [p EXCEPT ![w] = x]
    OBVIOUS
<1> HIDE DEF p
<1>3. partial' = [v \in Workers |-> IF v = w THEN x ELSE p[v]]
    BY <1>1, <1>2
<1> QED
    BY <1>3 DEF p

-----------------------------------------------------------------------------
(***************************************************************************)
(* The type invariant and the phases                                       *)
(***************************************************************************)
\* Whose turn it is: a worker that makes a step scans or sends, and touches only
\* its own state and the list of parts.
LEMMA Turn ==
    ASSUME ControlType, NEW w \in Workers, AggregateWorker(w)
    PROVE  /\ pc[w] = "scan" \/ pc[w] = "send"
           /\ UNCHANGED <<table, query, rxOpen, consumer, outcome, merged, answer>>
           /\ next' = next \/ next' = next + 1
           /\ \A v \in Workers : v # w =>
                 /\ pc'[v] = pc[v] /\ scan'[v] = scan[v] /\ hand'[v] = hand[v]
                 /\ emitted'[v] = emitted[v] /\ flushed'[v] = flushed[v]
                 /\ partial'[v] = partial[v]
<1> USE DEF ControlType, data, own
<1>1. CASE Drain(w)
    BY <1>1 DEF Drain, SkipPart, OpenFails, OpenPart, TakeWork, Panic, ReadFails, BatchFails
<1>2. CASE Aggregate(w)
    <2>1. /\ pc[w] = "scan"
          /\ scan' = [scan EXCEPT ![w] = Advanced(scan[w])]
          /\ UNCHANGED <<table, next, pc, hand, emitted, channel, rxOpen, consumer, got, outcome>>
          /\ UNCHANGED <<query, flushed, merged, answer>>
          /\ partial' = partial \/ \E x : partial' = [partial EXCEPT ![w] = x]
        BY <1>2 DEF Aggregate
    <2>2. \A v \in Workers : v # w => partial'[v] = partial[v]
        BY <2>1, PartialChange
    <2> QED
        BY <2>1, <2>2
<1>3. CASE SumPanics(w)
    BY <1>3 DEF SumPanics
<1>4. CASE Flush(w) \/ ProjectFails(w)
    <2>1. Drained(w) /\ \E x : hand' = [hand EXCEPT ![w] = x]
        BY <1>4 DEF Flush, ProjectFails
    <2>2. emitted' = emitted \/ \E x : emitted' = [emitted EXCEPT ![w] = x]
        BY <1>4 DEF Flush, ProjectFails
    <2>3. /\ pc[w] = "scan" /\ next' = next + 1
          /\ partial' = [partial EXCEPT ![w] = NoGroups]
          /\ flushed' = [flushed EXCEPT ![w] = TRUE]
          /\ pc' = [pc EXCEPT ![w] = "send"]
          /\ UNCHANGED <<table, scan, channel, rxOpen, consumer, got, outcome, query, merged, answer>>
        BY <2>1 DEF Drained, TakeWork
    <2>4. \A v \in Workers : v # w => partial'[v] = partial[v]
        BY <2>3, PartialChange
    <2>5. \A v \in Workers : v # w => hand'[v] = hand[v] /\ emitted'[v] = emitted[v]
        BY <2>1, <2>2
    <2> QED
        BY <2>3, <2>4, <2>5
<1>5. CASE EndOfPartial(w)
    BY <1>5 DEF EndOfPartial
<1>6. CASE (StopAtLimit(w) \/ Send(w) \/ SendFails(w)) /\ UNCHANGED own
    BY <1>6 DEF StopAtLimit, Send, SendFails
<1> QED
    BY <1>1, <1>2, <1>3, <1>4, <1>5, <1>6 DEF AggregateWorker

LEMMA AggregateWorkerType ==
    ASSUME ControlType, Stages, NEW w \in Workers, AggregateWorker(w),
           NEW R \in SUBSET Rows, Holding(query, partial[w], R)
    PROVE  ControlType'
<1> DEFINE S == AnyBatch(query)
           H == {NoBatch} \cup S
<1>1. /\ UNCHANGED <<table, query, outcome, answer>>
      /\ pc[w] = "scan" \/ pc[w] = "send"
    BY Turn
<1>2. outcome # "ok"
    BY <1>1 DEF Stages, Stopped
<1>3. S' = S /\ Error \in S
    BY <1>1 DEF AnyBatch
<1>4. /\ next \in Nat /\ next + 1 \in Nat
      /\ pc \in [Workers -> {"scan", "send", "done", "panicked"}]
      /\ scan \in [Workers -> Scans]
      /\ hand \in [Workers -> H]
      /\ emitted \in [Workers -> Nat]
      /\ channel \in Seq(S)
      /\ flushed \in [Workers -> BOOLEAN]
      /\ partial = [v \in Workers |-> partial[v]]
    BY SMT DEF ControlType
<1> HIDE DEF S
<1>5. SUFFICES /\ next' \in Nat
               /\ pc' \in [Workers -> {"scan", "send", "done", "panicked"}]
               /\ scan' \in [Workers -> Scans]
               /\ hand' \in [Workers -> H]
               /\ emitted' \in [Workers -> Nat]
               /\ channel' \in Seq(S)
               /\ flushed' \in [Workers -> BOOLEAN]
               /\ partial' = [v \in Workers |-> partial'[v]]
    <2>1. table' \in Tables /\ query' \in Queries /\ answer' = NoBatch
          /\ outcome' \in {"none", "ok", "err", "panic", "overflow"}
        BY <1>1, <1>2 DEF ControlType
    <2> QED
        BY <1>3, <2>1 DEF ControlType, S
<1>6. CASE Drain(w)
    <2>1. UNCHANGED <<flushed, partial, channel, emitted>>
        BY <1>6 DEF Drain, SkipPart, OpenFails, OpenPart, TakeWork, Panic, ReadFails, BatchFails, data, own
    <2>2. CASE OpenPart(w)
        <3>1. 1 \in Granules
            BY QueryAssumption, SMT DEF Granules
        <3>2. next \in Parts
            BY <2>2 DEF OpenPart
        <3>3. [part |-> next, granule |-> 1] \in Scans
            BY <3>1, <3>2 DEF Scans
        <3> QED
            BY <1>4, <2>1, <2>2, <3>3 DEF OpenPart, TakeWork
    <2>3. CASE SkipPart(w) \/ OpenFails(w) \/ Panic(w) \/ ReadFails(w)
        BY <1>3, <1>4, <2>1, <2>3 DEF SkipPart, OpenFails, TakeWork, Panic, ReadFails, data
    <2>4. CASE BatchFails(w)
        <3>1. Advanced(scan[w]) \in Scans
            BY <2>4, NextGranule DEF BatchFails
        <3> QED
            BY <1>3, <1>4, <2>1, <2>4, <3>1 DEF BatchFails
    <2> QED
        BY <1>6, <2>2, <2>3, <2>4 DEF Drain
<1>7. CASE Aggregate(w)
    <2>1. /\ scan[w] # NoScan
          /\ scan' = [scan EXCEPT ![w] = Advanced(scan[w])]
          /\ UNCHANGED <<next, pc, hand, emitted, channel, flushed>>
          /\ partial' = partial \/ \E x : partial' = [partial EXCEPT ![w] = x]
        BY <1>7 DEF Aggregate
    <2>2. Advanced(scan[w]) \in Scans
        BY <2>1, NextGranule
    <2>3. partial' = [v \in Workers |-> partial'[v]]
        BY <1>4, <2>1, PartialChange
    <2>4. scan' \in [Workers -> Scans]
        BY <1>4, <2>1, <2>2
    <2> QED
        BY <1>4, <2>1, <2>3, <2>4
<1>8. CASE SumPanics(w)
    BY <1>4, <1>8 DEF SumPanics, data, own
<1>9. CASE Flush(w) \/ ProjectFails(w)
    <2>1. Drained(w)
        BY <1>9 DEF Flush, ProjectFails
    <2>2. /\ ~ LimitReached(w) /\ next' = next + 1
          /\ partial' = [partial EXCEPT ![w] = NoGroups]
          /\ flushed' = [flushed EXCEPT ![w] = TRUE]
          /\ pc' = [pc EXCEPT ![w] = "send"]
          /\ UNCHANGED <<scan, channel>>
        BY <2>1 DEF Drained, TakeWork
    <2>3. \E x \in S : hand' = [hand EXCEPT ![w] = x]
        <3>1. CASE ProjectFails(w)
            BY <1>3, <3>1 DEF ProjectFails
        <3>2. CASE Flush(w)
            <4> DEFINE b == OutputBatch(partial[w])
                       m == Clipped(w, NumRows(b))
                       cut == FirstRows(Restrict(b, Projections(query)), m)
                       kept == Kept(query, b, R, m)
            <4>1. PICK n : AccOf(query, partial[w], R, n) /\ NoEmptyGroup(query, partial[w], R, n)
                BY DEF Holding
            <4>2. hand' = [hand EXCEPT ![w] = cut] /\ Projections(query) \subseteq OutputColumns
                BY <3>2 DEF Flush
            <4>0. Flushes(w, R, b, m, cut, kept)
                BY DEF Flushes
            <4> HIDE DEF b, m, cut, kept
            <4>3. cut \in AggregateBatch(Projections(query))
                BY <2>2, <4>0, <4>1, <4>2, Flushing
            <4> QED
                BY <4>2, <4>3 DEF S, AnyBatch
        <3> QED
            BY <1>9, <3>1, <3>2
    <2>4. emitted' \in [Workers -> Nat]
        <3>1. CASE ProjectFails(w)
            BY <1>4, <3>1 DEF ProjectFails
        <3>2. CASE Flush(w)
            <4> DEFINE b == OutputBatch(partial[w])
                       m == Clipped(w, NumRows(b))
                       cut == FirstRows(Restrict(b, Projections(query)), m)
                       kept == Kept(query, b, R, m)
            <4>1. PICK n : AccOf(query, partial[w], R, n) /\ NoEmptyGroup(query, partial[w], R, n)
                BY DEF Holding
            <4>2. emitted' = [emitted EXCEPT ![w] = @ + m] /\ Projections(query) \subseteq OutputColumns
                BY <3>2 DEF Flush
            <4>0. Flushes(w, R, b, m, cut, kept)
                BY DEF Flushes
            <4> HIDE DEF b, m, cut, kept
            <4>3. m \in Nat
                BY <2>2, <4>0, <4>1, <4>2, Flushing
            <4>4. emitted[w] + m \in Nat
                BY <1>4, <4>3
            <4> QED
                BY <1>4, <4>2, <4>4
        <3> QED
            BY <1>9, <3>1, <3>2
    <2>5. partial' = [v \in Workers |-> partial'[v]]
        BY <2>2, PartialChange
    <2>6. hand' \in [Workers -> H]
        BY <1>4, <2>3
    <2> QED
        BY <1>4, <2>2, <2>4, <2>5, <2>6
<1>10. CASE EndOfPartial(w)
    BY <1>4, <1>10 DEF EndOfPartial, data, own
<1>11. CASE (StopAtLimit(w) \/ SendFails(w)) /\ UNCHANGED own
    BY <1>4, <1>11 DEF StopAtLimit, SendFails, data, own
<1>12. CASE Send(w) /\ UNCHANGED own
    <2>1. /\ hand[w] \in S
          /\ channel' = Append(channel, hand[w])
          /\ pc' = [pc EXCEPT ![w] = "scan"]
          /\ hand' = [hand EXCEPT ![w] = NoBatch]
          /\ UNCHANGED <<next, scan, emitted, flushed, partial>>
        BY <1>4, <1>12 DEF Send, Stages, own
    <2>2. channel' \in Seq(S)
        BY <1>4, <2>1, AppendProperties
    <2> QED
        BY <1>4, <2>1, <2>2
<1> QED
    BY <1>6, <1>7, <1>8, <1>9, <1>10, <1>11, <1>12 DEF AggregateWorker

LEMMA AggregateConsumerType ==
    ASSUME ControlType, Stages, AggregateConsumer
    PROVE  ControlType'
<1> USE DEF ControlType, data, own
<1>0. consumer = "pulling" => answer = NoBatch
    BY DEF Stages
<1>1. CASE MergeBatch
    <2>1. /\ channel # <<>> /\ channel' = Tail(channel)
          /\ UNCHANGED <<data, pc, outcome, query, partial, flushed, answer>>
        BY <1>1 DEF MergeBatch
    <2> QED
        BY <2>1, Taken
<1>2. CASE MergePanics
    <2>1. /\ channel # <<>> /\ channel' = Tail(channel) /\ outcome' = "panic"
          /\ UNCHANGED <<data, pc, own>> /\ consumer = "pulling"
        BY <1>2 DEF MergePanics
    <2> QED
        BY <1>0, <2>1, Taken
<1>3. CASE MergeSumPanics
    <2>1. /\ channel # <<>> /\ channel' = Tail(channel) /\ outcome' = "overflow"
          /\ UNCHANGED <<data, pc, own>> /\ consumer = "pulling"
        BY <1>3 DEF MergeSumPanics
    <2> QED
        BY <1>0, <2>1, Taken
<1>4. CASE Finalize
    BY <1>4 DEF Finalize, RecvEnd
<1>5. CASE RecvError /\ UNCHANGED own
    BY <1>0, <1>5, Taken DEF RecvError
<1>6. CASE DropReceiver /\ UNCHANGED own
    BY <1>6, EmptySeq DEF DropReceiver
<1>7. CASE JoinWorkers /\ UNCHANGED own
    BY <1>7 DEF JoinWorkers
<1> QED
    BY <1>1, <1>2, <1>3, <1>4, <1>5, <1>6, <1>7 DEF AggregateConsumer
\* The batch that a worker is about to send.
LEMMA FlushHand ==
    ASSUME ControlType, NEW w \in Workers, Flush(w),
           NEW R \in SUBSET Rows, Holding(query, partial[w], R)
    PROVE  \E n, b, m, cut, S :
              /\ AccOf(query, partial[w], R, n) /\ NoEmptyGroup(query, partial[w], R, n)
              /\ Flushes(w, R, b, m, cut, S)
              /\ hand' = [hand EXCEPT ![w] = cut]
              /\ emitted' = [emitted EXCEPT ![w] = @ + m]
              /\ cut \in AggregateBatch(Projections(query)) /\ cut # Error /\ cut # NoBatch
<1> DEFINE b == OutputBatch(partial[w])
           m == Clipped(w, NumRows(b))
           cut == FirstRows(Restrict(b, Projections(query)), m)
           S == Kept(query, b, R, m)
<1>1. PICK n : AccOf(query, partial[w], R, n) /\ NoEmptyGroup(query, partial[w], R, n)
    BY DEF Holding
<1>2. /\ hand' = [hand EXCEPT ![w] = cut]
      /\ emitted' = [emitted EXCEPT ![w] = @ + m]
      /\ Projections(query) \subseteq OutputColumns
      /\ ~ LimitReached(w)
    BY DEF Flush, Drained, TakeWork
<1>3. Flushes(w, R, b, m, cut, S)
    BY DEF Flushes
<1> HIDE DEF b, m, cut, S
<1>4. cut \in AggregateBatch(Projections(query))
    BY <1>1, <1>2, <1>3, Flushing
<1>5. cut # Error /\ cut # NoBatch
    BY <1>4, BatchFacts DEF AnyBatch
<1> QED
    BY <1>1, <1>2, <1>3, <1>4, <1>5

\* The phase of one worker.
Stage(w) ==
    /\ pc[w] = "send" => hand[w] # NoBatch
    /\ outcome = "none" /\ hand[w] # NoBatch => pc[w] = "send"
    /\ flushed[w] => next \notin Parts /\ scan[w] = NoScan /\ partial[w] = NoGroups
    /\ ~ flushed[w] => emitted[w] = 0
    /\ pc[w] = "done" /\ outcome = "none" => flushed[w] \/ LimitReached(w)

LEMMA OwnStage ==
    ASSUME ControlType, Stages, NEW w \in Workers, AggregateWorker(w),
           NEW R \in SUBSET Rows, Holding(query, partial[w], R)
    PROVE  Stage(w)'
<1> USE DEF ControlType
<1>1. Stage(w)
    BY DEF Stages, Stage
<1>2. /\ UNCHANGED <<table, query, outcome>>
      /\ next' = next \/ next' = next + 1
      /\ NoGroups' = NoGroups
    BY Turn DEF NoGroups
<1>3. next \notin Parts => next' \notin Parts
    BY <1>2, QueryAssumption, SMT DEF Parts, Stages
<1>4. emitted'[w] = emitted[w] => LimitReached(w)' = LimitReached(w)
    BY <1>2 DEF LimitReached, Limit
<1>5. Error # NoBatch
    BY BatchFacts
<1>6. CASE Drain(w)
    <2>1. UNCHANGED <<flushed, partial, emitted>> /\ ~ flushed[w]
        BY <1>6 DEF Drain, SkipPart, OpenFails, OpenPart, TakeWork, Panic, ReadFails, BatchFails, data, own
    <2>2. CASE OpenFails(w) \/ ReadFails(w) \/ BatchFails(w)
        BY <1>1, <1>5, <2>1, <2>2 DEF OpenFails, ReadFails, BatchFails, TakeWork, Stage
    <2>3. CASE SkipPart(w) \/ OpenPart(w) \/ Panic(w)
        BY <1>1, <1>2, <2>1, <2>3 DEF SkipPart, OpenPart, Panic, TakeWork, Stage, data
    <2> QED
        BY <1>6, <2>2, <2>3 DEF Drain
<1>7. CASE Aggregate(w)
    BY <1>1, <1>2, <1>7 DEF Aggregate, Stage
<1>8. CASE SumPanics(w)
    BY <1>1, <1>2, <1>8 DEF SumPanics, Stage, data, own
<1>9. CASE Flush(w) \/ ProjectFails(w)
    <2>1. Drained(w)
        BY <1>9 DEF Flush, ProjectFails
    <2>2. /\ scan[w] = NoScan /\ next \notin Parts
          /\ partial' = [partial EXCEPT ![w] = NoGroups]
          /\ flushed' = [flushed EXCEPT ![w] = TRUE]
          /\ pc' = [pc EXCEPT ![w] = "send"]
          /\ UNCHANGED scan
        BY <2>1 DEF Drained, TakeWork
    <2>3. partial'[w] = NoGroups
        BY <2>2, PartialChange
    <2>4. hand'[w] # NoBatch
        <3>1. CASE Flush(w)
            BY <3>1, FlushHand
        <3>2. CASE ProjectFails(w)
            BY <1>5, <3>2 DEF ProjectFails
        <3> QED
            BY <1>9, <3>1, <3>2
    <2> QED
        BY <1>2, <1>3, <2>2, <2>3, <2>4 DEF Stage
<1>10. CASE EndOfPartial(w)
    BY <1>1, <1>2, <1>4, <1>10 DEF EndOfPartial, Stage, data, own
<1>11. CASE StopAtLimit(w) /\ UNCHANGED own
    BY <1>1, <1>2, <1>4, <1>11 DEF StopAtLimit, Stage, data, own
<1>12. CASE SendFails(w) /\ UNCHANGED own
    <2>1. outcome # "none"
        BY <1>12 DEF SendFails, Stages
    <2> QED
        BY <1>1, <1>2, <1>4, <1>12, <2>1 DEF SendFails, Stage, data, own
<1>13. CASE Send(w) /\ UNCHANGED own
    BY <1>1, <1>2, <1>13 DEF Send, Stage, own
<1> QED
    BY <1>6, <1>7, <1>8, <1>9, <1>10, <1>11, <1>12, <1>13 DEF AggregateWorker

LEMMA AggregateWorkerStages ==
    ASSUME ControlType, Stages, NEW w \in Workers, AggregateWorker(w),
           NEW R \in SUBSET Rows, Holding(query, partial[w], R)
    PROVE  Stages' /\ outcome # "ok"
<1>1. /\ pc[w] = "scan" \/ pc[w] = "send"
      /\ UNCHANGED <<table, query, rxOpen, consumer, outcome>>
      /\ next' = next \/ next' = next + 1
      /\ NoGroups' = NoGroups
    BY Turn DEF NoGroups
<1>2. next' >= 1 /\ (next \notin Parts => next' \notin Parts)
    BY <1>1, QueryAssumption, SMT DEF Parts, Stages, ControlType
<1>3. outcome # "ok"
    BY <1>1 DEF Stages, Stopped
<1>4. ASSUME NEW v \in Workers
      PROVE  Stage(v)'
    <2>1. CASE v = w
        BY <2>1, OwnStage
    <2>2. CASE v # w
        <3>1. /\ pc'[v] = pc[v] /\ scan'[v] = scan[v] /\ hand'[v] = hand[v]
              /\ emitted'[v] = emitted[v] /\ flushed'[v] = flushed[v]
              /\ partial'[v] = partial[v]
            BY <2>2, Turn
        <3>2. Stage(v)
            BY DEF Stages, Stage
        <3>3. LimitReached(v)' = LimitReached(v)
            BY <1>1, <3>1 DEF LimitReached, Limit
        <3> QED
            BY <1>1, <1>2, <3>1, <3>2, <3>3 DEF Stage
    <2> QED
        BY <2>1, <2>2
<1> QED
    BY <1>1, <1>2, <1>3, <1>4 DEF Stages, Stage

LEMMA AggregateConsumerStages ==
    ASSUME ControlType, Stages, AggregateConsumer
    PROVE  Stages'
<1>1. /\ UNCHANGED <<table, next, pc, scan, hand, emitted, query, partial, flushed>>
      /\ outcome' = outcome \/ outcome = "none"
      /\ consumer' = "pulling" <=> outcome' = "none"
      /\ consumer' = "pulling" => rxOpen'
      /\ outcome' = "ok" => outcome = "ok" \/ \A w \in Workers : Stopped(w)
    <2> USE DEF Stages, data, own
    <2>1. CASE MergeBatch
        BY <2>1 DEF MergeBatch
    <2>2. CASE MergePanics
        BY <2>2 DEF MergePanics
    <2>3. CASE MergeSumPanics
        BY <2>3 DEF MergeSumPanics
    <2>4. CASE Finalize
        BY <2>4 DEF Finalize, RecvEnd
    <2>5. CASE RecvError /\ UNCHANGED own
        BY <2>5 DEF RecvError
    <2>6. CASE DropReceiver /\ UNCHANGED own
        BY <2>6 DEF DropReceiver
    <2>7. CASE JoinWorkers /\ UNCHANGED own
        BY <2>7 DEF JoinWorkers
    <2> QED
        BY <2>1, <2>2, <2>3, <2>4, <2>5, <2>6, <2>7 DEF AggregateConsumer
<1>2. NoGroups' = NoGroups /\ \A w \in Workers : LimitReached(w)' = LimitReached(w)
    BY <1>1 DEF NoGroups, LimitReached, Limit
<1>3. outcome' = "ok" => \A w \in Workers : Stopped(w)'
    BY <1>1 DEF Stages, Stopped
<1>4. ASSUME NEW w \in Workers
      PROVE  Stage(w)'
    <2>1. Stage(w)
        BY DEF Stages, Stage
    <2> QED
        BY <1>1, <1>2, <2>1 DEF Stage
<1> QED
    BY <1>1, <1>3, <1>4 DEF Stages, Stage
-----------------------------------------------------------------------------
(***************************************************************************)
(* The rows that have been read                                            *)
(***************************************************************************)
LEMMA MatchFacts ==
    ASSUME ControlType
    PROVE  /\ \A r \in Matches :
                 /\ r \in Rows /\ r[1] \in Parts /\ r[2] \in Granules
                 /\ r[3] \in Nat /\ r[3] >= 1
                 /\ r[2] <= table.size[r[1]] /\ r[3] <= table.rows[r[1]][r[2]]
           /\ \A r \in Rows :
                 r[2] <= table.size[r[1]] /\ r[3] <= table.rows[r[1]][r[2]] => r \in Matches
<1>1. ASSUME NEW r \in Matches
      PROVE  /\ r \in Rows /\ r[1] \in Parts /\ r[2] \in Granules
             /\ r[3] \in Nat /\ r[3] >= 1
             /\ r[2] <= table.size[r[1]] /\ r[3] <= table.rows[r[1]][r[2]]
    <2>1. /\ r \in Parts \X Granules \X Positions
          /\ r[2] <= table.size[r[1]] /\ r[3] <= table.rows[r[1]][r[2]]
        BY DEF Matches
    <2>2. r[1] \in Parts /\ r[2] \in Granules /\ r[3] \in Positions
        BY <2>1
    <2>3. PICK p \in Parts, g \in Granules : r[3] \in DOMAIN Content[p][g]
        BY <2>2 DEF Positions
    <2>4. r[3] \in Nat /\ r[3] >= 1
        <3> DEFINE l == Len(Content[p][g])
        <3>1. l \in Nat /\ r[3] \in 1..l
            BY <2>3, ContentFacts
        <3> HIDE DEF l
        <3> QED
            BY <3>1
    <2>5. r[3] \in DOMAIN Content[r[1]][r[2]]
        <3> DEFINE l == Len(Content[r[1]][r[2]])
                   n == table.rows[r[1]][r[2]]
        <3>1. l \in Nat /\ DOMAIN Content[r[1]][r[2]] = 1..l
            BY <2>2, ContentFacts
        <3>2. n \in Nat /\ n <= l
            BY <2>2, PartFacts
        <3>3. r[3] <= n
            BY <2>1
        <3> HIDE DEF l, n
        <3>4. r[3] \in 1..l
            BY <2>4, <3>1, <3>2, <3>3
        <3> QED
            BY <3>1, <3>4
    <2> QED
        BY <2>1, <2>2, <2>4, <2>5 DEF Rows
<1>2. ASSUME NEW r \in Rows, r[2] <= table.size[r[1]], r[3] <= table.rows[r[1]][r[2]]
      PROVE  r \in Matches
    BY <1>2 DEF Matches, Rows
<1> QED
    BY <1>1, <1>2

\* A worker goes through the parts it is handed, and through a part from its first
\* granule to the last.
LEMMA WorkerScanOrder ==
    ASSUME ControlType, Stages, ScanOrder, NEW w \in Workers, AggregateWorker(w)
    PROVE  ScanOrder'
<1>1. /\ \A v \in Workers : v # w => scan'[v] = scan[v]
      /\ next \in Nat /\ next' \in Nat /\ next' >= next /\ next >= 1
    BY Turn DEF ControlType, Stages
<1>2. /\ \A v \in Workers : scan[v] # NoScan => scan[v].part < next
      /\ \A u, v \in Workers : u # v /\ scan[u] # NoScan => scan[u].part # scan[v].part
      /\ \A v \in Workers : scan[v].part \in Nat
    BY OpenScan DEF ScanOrder
<1>3. \/ scan'[w] = scan[w]
      \/ scan'[w] = NoScan
      \/ scan'[w] # NoScan /\ scan[w] # NoScan /\ scan'[w].part = scan[w].part
      \/ scan'[w].part = next /\ next' = next + 1
    <2> USE DEF ControlType, data, own
    <2>1. CASE OpenPart(w)
        BY <2>1 DEF OpenPart, TakeWork
    <2>2. CASE Aggregate(w) \/ BatchFails(w)
        <3>1. scan[w] # NoScan /\ scan'[w] = Advanced(scan[w])
            BY <2>2 DEF Aggregate, BatchFails
        <3> QED
            BY <3>1, NextGranule
    <2>3. CASE SkipPart(w) \/ OpenFails(w) \/ Panic(w) \/ ReadFails(w) \/ SumPanics(w) \/ EndOfPartial(w)
        BY <2>3 DEF SkipPart, OpenFails, Panic, ReadFails, SumPanics, EndOfPartial, TakeWork
    <2>4. CASE Flush(w) \/ ProjectFails(w)
        BY <2>4 DEF Flush, ProjectFails, Drained
    <2>5. CASE StopAtLimit(w) \/ Send(w) \/ SendFails(w)
        BY <2>5 DEF StopAtLimit, Send, SendFails
    <2> QED
        BY <2>1, <2>2, <2>3, <2>4, <2>5 DEF AggregateWorker, Drain
<1>4. \A v \in Workers : scan'[v] # NoScan => scan'[v].part < next'
    <2>1. ASSUME NEW v \in Workers, scan'[v] # NoScan, v # w PROVE scan'[v].part < next'
        <3>1. scan'[v] = scan[v] /\ scan[v].part < next /\ scan[v].part \in Nat
            BY <1>1, <1>2, <2>1
        <3> QED
            BY <1>1, <3>1
    <2>2. ASSUME scan'[w] # NoScan PROVE scan'[w].part < next'
        <3>1. \/ scan'[w].part = scan[w].part /\ scan[w].part < next /\ scan[w].part \in Nat
              \/ scan'[w].part = next /\ next' = next + 1
            BY <1>2, <1>3, <2>2
        <3> QED
            BY <1>1, <3>1
    <2> QED
        BY <2>1, <2>2
<1>5. ASSUME NEW v \in Workers, v # w, scan'[w] # NoScan
      PROVE  scan'[w].part # scan'[v].part
    <2>1. scan'[v] = scan[v] /\ scan[v].part \in Nat
        BY <1>1, <1>2, <1>5
    <2>2. scan[v].part < next
        <3>1. scan[v] = NoScan => scan[v].part = 0
            BY OpenScan
        <3> QED
            BY <1>1, <1>2, <3>1
    <2>3. CASE scan[w] # NoScan /\ scan'[w].part = scan[w].part
        BY <1>2, <1>5, <2>1, <2>3
    <2>4. CASE scan'[w].part = next
        BY <1>1, <2>1, <2>2, <2>4
    <2> QED
        BY <1>3, <1>5, <2>3, <2>4
<1>6. ASSUME NEW v \in Workers, v # w, scan'[v] # NoScan
      PROVE  scan'[v].part # scan'[w].part
    <2>1. scan'[v] = scan[v]
        BY <1>1, <1>6
    <2>2. CASE scan'[w] = NoScan
        <3>1. scan[v].part \in Parts /\ scan'[w].part = 0
            BY <1>6, <2>1, <2>2, OpenScan DEF NoScan
        <3> QED
            BY <2>1, <3>1, PartFacts
    <2>3. CASE scan'[w] # NoScan
        BY <1>5, <1>6, <2>3
    <2> QED
        BY <2>2, <2>3
<1> QED
    BY <1>1, <1>2, <1>4, <1>5, <1>6 DEF ScanOrder

\* The scan reads the rows of one granule, which no worker has read.
LEMMA ReadOne ==
    ASSUME ControlType, ScanOrder, NEW w \in Workers, Aggregate(w) \/ BatchFails(w),
           NEW p, p = scan[w].part, NEW g, g = scan[w].granule,
           NEW m, m = table.rows[p][g], NEW J, J = GranuleRows(p, g, m)
    PROVE  /\ p \in Parts /\ g \in Granules /\ m \in Nat /\ m <= Len(Content[p][g])
           /\ J \subseteq Matches /\ Matches' = Matches
           /\ J \cap ReadRows = {}
           /\ ReadRows' = ReadRows \cup J
<1>1. /\ scan[w] # NoScan /\ g <= table.size[p]
      /\ scan' = [scan EXCEPT ![w] = Advanced(scan[w])]
      /\ UNCHANGED <<table, next>>
    BY DEF Aggregate, BatchFails
<1>2. p \in Parts /\ g \in Granules /\ p \in Nat /\ g \in Nat
    BY <1>1, OpenScan
<1>3. m \in Nat /\ m <= Len(Content[p][g]) /\ table.size[p] \in Nat /\ p # 0
    BY <1>2, PartFacts
<1>4. Matches' = Matches
    BY <1>1 DEF Matches
<1>5. \A r : r \in J <=> r \in Rows /\ r[1] = p /\ r[2] = g /\ r[3] <= m
    BY DEF GranuleRows
<1>6. J \subseteq Matches
    BY <1>1, <1>5, MatchFacts
<1>7. p < next /\ next \in Nat
    BY <1>1 DEF ScanOrder, ControlType
<1>8. /\ \A v \in Workers : v # w => scan'[v] = scan[v] /\ scan[v].part # p
      /\ \/ scan'[w].part = 0 /\ g >= table.size[p]
         \/ scan'[w].part = p /\ scan'[w].granule = g + 1
    <2>1. scan'[w] = Advanced(scan[w]) /\ \A v \in Workers : v # w => scan'[v] = scan[v]
        BY <1>1 DEF ControlType
    <2>2. \A v \in Workers : v # w => scan[v].part # p
        BY <1>1 DEF ScanOrder
    <2>3. \/ Advanced(scan[w]) = NoScan /\ g >= table.size[p]
          \/ Advanced(scan[w]).part = p /\ Advanced(scan[w]).granule = g + 1
        BY <1>1, NextGranule
    <2> QED
        BY <2>1, <2>2, <2>3 DEF NoScan
<1>9. ASSUME NEW r \in Matches
      PROVE  /\ r \in J => r \notin ReadRows
             /\ r \in ReadRows' <=> r \in ReadRows \/ r \in J
    <2>1. /\ r[1] \in Nat /\ r[1] # 0 /\ r[2] \in Nat /\ r \in Rows
          /\ r[2] <= table.size[r[1]] /\ r[3] <= table.rows[r[1]][r[2]]
        <3>1. /\ r[1] \in Parts /\ r[2] \in Granules /\ r \in Rows
              /\ r[2] <= table.size[r[1]] /\ r[3] <= table.rows[r[1]][r[2]]
            BY MatchFacts
        <3>2. r[1] \in Nat /\ r[1] # 0 /\ r[2] \in Nat
            BY <3>1, QueryAssumption, SMT DEF Parts, Granules
        <3> QED
            BY <3>1, <3>2
    <2>2. /\ r \in ReadRows <=> /\ r[1] < next
                                /\ \A v \in Workers : scan[v].part = r[1] => r[2] < scan[v].granule
          /\ r \in ReadRows' <=> /\ r[1] < next
                                 /\ \A v \in Workers : scan'[v].part = r[1] => r[2] < scan'[v].granule
        BY <1>1, <1>4 DEF ReadRows
    <2>3. r \in J <=> r[1] = p /\ r[2] = g
        BY <1>5, <2>1
    <2>4. CASE r[1] # p
        <3>1. scan[w].part # r[1] /\ scan'[w].part # r[1]
            BY <1>8, <2>1, <2>4
        <3>2. \A v \in Workers : v # w => scan'[v] = scan[v]
            BY <1>8
        <3>3. r \in ReadRows' <=> r \in ReadRows
            BY <2>2, <3>1, <3>2
        <3> QED
            BY <2>3, <2>4, <3>3
    <2>5. CASE r[1] = p
        <3>1. r \in ReadRows <=> r[2] < g
            BY <1>7, <1>8, <2>2, <2>5
        <3>2. r \in ReadRows' <=> r[2] <= g
            <4>1. CASE scan'[w].part = 0 /\ g >= table.size[p]
                <5>1. r[2] <= g
                    BY <1>2, <1>3, <2>1, <2>5, <4>1
                <5>2. \A v \in Workers : scan'[v].part # r[1]
                    BY <1>8, <2>1, <2>5, <4>1
                <5> QED
                    BY <1>7, <2>2, <2>5, <5>1, <5>2
            <4>2. CASE scan'[w].part = p /\ scan'[w].granule = g + 1
                <5>1. r \in ReadRows' <=> r[2] < g + 1
                    BY <1>7, <1>8, <2>2, <2>5, <4>2
                <5> QED
                    BY <1>2, <2>1, <5>1
            <4> QED
                BY <1>8, <4>1, <4>2
        <3> QED
            BY <1>2, <2>1, <2>3, <2>5, <3>1, <3>2
    <2> QED
        BY <2>4, <2>5
<1>10. ReadRows \subseteq Matches /\ ReadRows' \subseteq Matches
    BY <1>4 DEF ReadRows
<1> QED
    BY <1>2, <1>3, <1>4, <1>6, <1>9, <1>10

\* Without a scan nothing is read, but for a part that cannot be opened.
LEMMA ReadSame ==
    ASSUME ControlType, Stages, ScanOrder, NEW w \in Workers, AggregateWorker(w), ~ Aggregate(w),
           ~ BatchFails(w)
    PROVE  /\ ReadRows \subseteq ReadRows'
           /\ ~ OpenFails(w) => ReadRows' = ReadRows
<1>1. /\ \A v \in Workers : v # w => scan'[v] = scan[v]
      /\ next \in Nat /\ next' \in Nat /\ next' >= next
      /\ UNCHANGED table /\ Matches' = Matches
    BY Turn DEF ControlType, Matches
<1>2. \/ scan'[w] = scan[w]
      \/ OpenPart(w)
    <2> USE DEF ControlType, data, own
    <2>1. CASE SkipPart(w) \/ OpenFails(w) \/ Panic(w) \/ ReadFails(w) \/ SumPanics(w) \/ EndOfPartial(w)
        BY <2>1 DEF SkipPart, OpenFails, Panic, ReadFails, SumPanics, EndOfPartial, TakeWork
    <2>2. CASE Flush(w) \/ ProjectFails(w)
        BY <2>2 DEF Flush, ProjectFails, Drained
    <2>3. CASE StopAtLimit(w) \/ Send(w) \/ SendFails(w)
        BY <2>3 DEF StopAtLimit, Send, SendFails
    <2> QED
        BY <2>1, <2>2, <2>3 DEF AggregateWorker, Drain
<1>3. OpenPart(w) => /\ scan[w] = NoScan /\ scan'[w] = [part |-> next, granule |-> 1]
                     /\ next' = next + 1
    BY DEF OpenPart, TakeWork, ControlType
<1>4. ASSUME NEW r \in Matches
      PROVE  /\ r \in ReadRows => r \in ReadRows'
             /\ r \in ReadRows' /\ ~ OpenFails(w) => r \in ReadRows
    <2>1. r[1] \in Nat /\ r[1] # 0 /\ r[2] \in Nat /\ r[2] >= 1 /\ r[1] \in Parts
        <3>1. r[1] \in Parts /\ r[2] \in Granules
            BY MatchFacts
        <3> QED
            BY <3>1, QueryAssumption, SMT DEF Parts, Granules
    <2>2. /\ r \in ReadRows <=> /\ r[1] < next
                                /\ \A v \in Workers : scan[v].part = r[1] => r[2] < scan[v].granule
          /\ r \in ReadRows' <=> /\ r[1] < next'
                                 /\ \A v \in Workers : scan'[v].part = r[1] => r[2] < scan'[v].granule
        BY <1>1 DEF ReadRows
    <2>3. CASE scan'[w] = scan[w]
        <3>1. \A v \in Workers : scan'[v] = scan[v]
            BY <1>1, <2>3
        <3>2. r \in ReadRows => r \in ReadRows'
            BY <1>1, <2>1, <2>2, <3>1
        <3>3. ASSUME r[1] < next', ~ OpenFails(w), scan'[w] = scan[w] PROVE r[1] < next
            <4>1. CASE next' = next
                BY <3>3, <4>1
            <4>2. CASE next' # next
                <5>1. /\ next' = next + 1
                      /\ next \in table.skipped \/ next \notin Parts \/ scan'[w] = [part |-> next, granule |-> 1]
                    <6> USE DEF ControlType, data, own
                    <6>1. CASE SkipPart(w) \/ Panic(w) \/ ReadFails(w) \/ SumPanics(w) \/ EndOfPartial(w)
                        BY <4>2, <6>1 DEF SkipPart, OpenFails, Panic, ReadFails, SumPanics, EndOfPartial, TakeWork
                    <6>2. CASE Flush(w) \/ ProjectFails(w)
                        BY <4>2, <6>2 DEF Flush, ProjectFails, Drained, TakeWork
                    <6>3. CASE StopAtLimit(w) \/ Send(w) \/ SendFails(w)
                        BY <4>2, <6>3 DEF StopAtLimit, Send, SendFails
                    <6>4. CASE OpenPart(w)
                        BY <1>3, <6>4
                    <6> QED
                        BY <3>3, <6>1, <6>2, <6>3, <6>4 DEF AggregateWorker, Drain
                <5>2. ASSUME next \in table.skipped PROVE r[1] # next
                    <6>1. Matching(table, next) = {}
                        BY <5>2, QueryAssumption DEF ControlType
                    <6>2. SUFFICES ASSUME r[1] = next PROVE FALSE
                        OBVIOUS
                    <6>3. /\ r[2] \in Granules /\ r[3] \in Nat /\ r[3] >= 1
                          /\ r[2] <= table.size[r[1]] /\ r[3] <= table.rows[r[1]][r[2]]
                          /\ table.rows[r[1]][r[2]] \in Nat
                        BY <2>1, MatchFacts, PartFacts
                    <6>4. table.rows[r[1]][r[2]] > 0
                        BY <6>3
                    <6>5. r[2] \in Matching(table, next)
                        BY <6>2, <6>3, <6>4 DEF Matching
                    <6> QED
                        BY <6>1, <6>5
                <5>3. CASE scan'[w] = [part |-> next, granule |-> 1]
                    <6>1. scan[w].part = next /\ scan[w] # NoScan
                        BY <3>3, <5>3, <1>3, <5>1, <1>1, QueryAssumption DEF NoScan, Stages
                    <6>2. scan[w].part < next
                        BY <6>1 DEF ScanOrder
                    <6> QED
                        BY <1>1, <6>1, <6>2
                <5>4. r[1] # next
                    BY <2>1, <5>1, <5>2, <5>3, <1>1, <3>3
                <5> QED
                    BY <1>1, <2>1, <3>3, <5>1, <5>4
            <4> QED
                BY <4>1, <4>2
        <3> QED
            BY <2>2, <2>3, <3>1, <3>2, <3>3
    <2>4. CASE OpenPart(w)
        <3>1. ASSUME r \in ReadRows PROVE r \in ReadRows'
            BY <1>1, <1>3, <2>1, <2>2, <2>4, <3>1
        <3>2. ASSUME r \in ReadRows' PROVE r \in ReadRows
            <4>1. r[1] # next
                BY <1>3, <2>1, <2>2, <2>4, <3>2
            <4>2. r[1] < next
                BY <1>1, <1>3, <2>1, <2>2, <2>4, <3>2, <4>1
            <4>3. \A v \in Workers : scan[v].part = r[1] => r[2] < scan[v].granule
                <5>1. scan[w].part = 0
                    BY <1>3, <2>4 DEF NoScan
                <5> QED
                    BY <1>1, <2>1, <2>2, <3>2, <5>1
            <4> QED
                BY <2>2, <4>2, <4>3
        <3> QED
            BY <3>1, <3>2
    <2> QED
        BY <1>2, <2>3, <2>4
<1>5. ReadRows \subseteq Matches /\ ReadRows' \subseteq Matches
    BY <1>1 DEF ReadRows
<1> QED
    BY <1>4, <1>5

\* Rows that have been read stay read, and only HashAggregateExec reads any,
\* but for those of a part or of a batch that gives an error.
LEMMA ReadMore ==
    ASSUME ControlType, Stages, ScanOrder, NEW w \in Workers, AggregateWorker(w), ~ Aggregate(w)
    PROVE  /\ ReadRows \subseteq ReadRows'
           /\ ~ OpenFails(w) /\ ~ BatchFails(w) => ReadRows' = ReadRows
<1>1. CASE BatchFails(w)
    BY <1>1, ReadOne
<1>2. CASE ~ BatchFails(w)
    BY <1>2, ReadSame
<1> QED
    BY <1>1, <1>2

-----------------------------------------------------------------------------
(***************************************************************************)
(* Errors, and columns that the batches lack                               *)
(***************************************************************************)
\* What worker steps do to the channel.
LEMMA ChannelGrows ==
    ASSUME ControlType, Stages, NEW w \in Workers, AggregateWorker(w)
    PROVE  \/ UNCHANGED channel
           \/ /\ Send(w) /\ UNCHANGED own
              /\ hand[w] \in AnyBatch(query)
              /\ channel' = Append(channel, hand[w]) /\ Len(channel') = Len(channel) + 1
              /\ channel' # <<>>
              /\ \A i \in 1..Len(channel) : channel'[i] = channel[i]
              /\ channel'[Len(channel) + 1] = hand[w]
<1>1. CASE Send(w)
    <2> DEFINE S == AnyBatch(query)
    <2>1. UNCHANGED own
        BY <1>1 DEF AggregateWorker, Drain, Send, SkipPart, OpenFails, OpenPart, Panic, ReadFails, BatchFails,
                    TakeWork, Aggregate, SumPanics, Flush, ProjectFails, Drained, EndOfPartial
    <2>2. /\ channel' = Append(channel, hand[w])
          /\ hand[w] \in S /\ channel \in Seq(S)
        BY <1>1 DEF Send, Stages, ControlType
    <2> HIDE DEF S
    <2>3. /\ Len(channel') = Len(channel) + 1 /\ channel' # <<>>
          /\ \A i \in 1..Len(channel) : channel'[i] = channel[i]
          /\ channel'[Len(channel) + 1] = hand[w]
        BY <2>2, AppendProperties
    <2> QED
        BY <1>1, <2>1, <2>2, <2>3 DEF S
<1>2. CASE ~ Send(w)
    BY <1>2 DEF AggregateWorker, Drain, SkipPart, OpenFails, OpenPart, Panic, ReadFails, BatchFails, TakeWork,
                Aggregate, SumPanics, Flush, ProjectFails, Drained, EndOfPartial, StopAtLimit,
                SendFails, data
<1> QED
    BY <1>1, <1>2

LEMMA FailedFacts ==
    /\ Failed <=> \/ \E w \in Workers : pc[w] = "send" /\ hand[w] = Error
                  \/ \E i \in DOMAIN channel : channel[i] = Error
    /\ Failed' <=> \/ \E w \in Workers : pc'[w] = "send" /\ hand'[w] = Error
                   \/ \E i \in DOMAIN channel' : channel'[i] = Error
BY DEF Failed, InHand, InChannel

\* No error is lost while the query runs.
LEMMA WorkerFailed ==
    ASSUME ControlType, ControlType', Stages, NEW w \in Workers, AggregateWorker(w), outcome = "none", Failed
    PROVE  Failed'
<1> DEFINE S == AnyBatch(query)
<1>1. /\ DOMAIN channel = 1..Len(channel) /\ DOMAIN channel' = 1..Len(channel')
      /\ Len(channel) \in Nat
    <2>1. channel \in Seq(AnyBatch(query)) /\ channel' \in Seq(AnyBatch(query'))
        BY DEF ControlType
    <2> QED
        BY <2>1, LenProperties
<1>2. CASE Send(w)
    <2>1. /\ Len(channel') = Len(channel) + 1
          /\ \A i \in 1..Len(channel) : channel'[i] = channel[i]
          /\ channel'[Len(channel) + 1] = hand[w]
          \/ UNCHANGED channel
        BY <1>2, ChannelGrows
    <2>2. channel' = Append(channel, hand[w]) /\ hand[w] \in S /\ channel \in Seq(S)
        BY <1>2 DEF Send, Stages, ControlType
    <2>3. /\ Len(channel') = Len(channel) + 1
          /\ \A i \in 1..Len(channel) : channel'[i] = channel[i]
          /\ channel'[Len(channel) + 1] = hand[w]
        <3> HIDE DEF S
        <3> QED
            BY <2>2, AppendProperties
    <2>4. 1..Len(channel) \subseteq DOMAIN channel' /\ Len(channel) + 1 \in DOMAIN channel'
        BY <1>1, <2>3
    <2>5. ASSUME NEW v \in Workers, pc[v] = "send", hand[v] = Error PROVE Failed'
        <3>1. CASE v = w
            BY <2>3, <2>4, <2>5, <3>1, FailedFacts
        <3>2. CASE v # w
            BY <2>5, <3>2, Turn, FailedFacts
        <3> QED
            BY <3>1, <3>2
    <2>6. ASSUME NEW i \in DOMAIN channel, channel[i] = Error PROVE Failed'
        BY <1>1, <2>3, <2>4, <2>6, FailedFacts
    <2> QED
        BY <2>5, <2>6, FailedFacts
<1>3. CASE ~ Send(w)
    <2>1. UNCHANGED channel
        BY <1>3, ChannelGrows
    <2>2. rxOpen
        BY DEF Stages
    <2>3. pc[w] # "send"
        BY <1>3, <2>2 DEF AggregateWorker, Drain, SkipPart, OpenFails, OpenPart, Panic, ReadFails, BatchFails, TakeWork,
                Aggregate, SumPanics, Flush, ProjectFails, Drained, EndOfPartial, StopAtLimit, SendFails
    <2> QED
        BY <2>1, <2>3, Turn, FailedFacts
<1> QED
    BY <1>2, <1>3

LEMMA MergeFailed ==
    ASSUME ControlType, ControlType', MergeBatch, Failed
    PROVE  Failed'
<1>1. /\ channel # <<>> /\ channel' = Tail(channel) /\ Head(channel) # Error
      /\ UNCHANGED <<pc, hand>>
    BY DEF MergeBatch, data
<1>2. DOMAIN channel = 1..Len(channel) /\ DOMAIN channel' = 1..Len(channel')
    <2>1. channel \in Seq(AnyBatch(query)) /\ channel' \in Seq(AnyBatch(query'))
        BY DEF ControlType
    <2> QED
        BY <2>1, LenProperties
<1>3. ASSUME NEW i \in DOMAIN channel, channel[i] = Error PROVE Failed'
    <2>1. i # 1
        BY <1>1, <1>3, Taken
    <2>2. i - 1 \in 1..Len(channel') /\ channel'[i - 1] = channel[(i - 1) + 1]
        BY <1>1, <1>2, <2>1, Taken
    <2>3. (i - 1) + 1 = i
        BY <1>2
    <2> QED
        BY <1>2, <1>3, <2>2, <2>3, FailedFacts
<1>4. ASSUME NEW v \in Workers, pc[v] = "send", hand[v] = Error PROVE Failed'
    BY <1>1, <1>4, FailedFacts
<1> QED
    BY <1>3, <1>4, FailedFacts

LEMMA WorkerColumnsMet ==
    ASSUME ControlType, ControlType', Stages, ColumnsMet, NEW w \in Workers, AggregateWorker(w)
    PROVE  ColumnsMet'
<1>1. /\ pc[w] = "scan" \/ pc[w] = "send"
      /\ UNCHANGED <<query, outcome>>
      /\ OutputColumns' = OutputColumns /\ Projections(query') = Projections(query)
    BY Turn DEF OutputColumns
<1> SUFFICES ASSUME NEW v \in Workers, outcome = "none", ~ Failed', flushed'[v]
             PROVE  /\ Projections(query) \subseteq OutputColumns
                    /\ query.groupBy \subseteq Projections(query) \/ pc'[v] = "send" \/ channel' # <<>>
    BY <1>1 DEF ColumnsMet
<1>2. ~ Failed
    BY WorkerFailed
<1>3. channel # <<>> => channel' # <<>>
    BY ChannelGrows
<1>4. flushed[v] => /\ Projections(query) \subseteq OutputColumns
                    /\ query.groupBy \subseteq Projections(query) \/ pc[v] = "send" \/ channel # <<>>
    BY <1>2 DEF ColumnsMet
<1>5. CASE v # w
    BY <1>3, <1>4, <1>5, Turn
<1>6. CASE v = w /\ flushed[w]
    <2>1. CASE Send(w)
        <3>1. channel' # <<>>
            <4> DEFINE S == AnyBatch(query)
            <4>1. channel' = Append(channel, hand[w]) /\ hand[w] \in S /\ channel \in Seq(S)
                BY <2>1 DEF Send, Stages, ControlType
            <4> HIDE DEF S
            <4> QED
                BY <4>1, AppendProperties
        <3> QED
            BY <1>4, <1>6, <3>1
    <2>2. CASE ~ Send(w)
        <3>1. pc[w] = "scan" \/ SendFails(w)
            BY <2>2 DEF AggregateWorker, Drain, SkipPart, OpenFails, OpenPart, Panic, ReadFails, BatchFails, TakeWork,
                Aggregate, SumPanics, Flush, ProjectFails, Drained, EndOfPartial, StopAtLimit
        <3>2. ~ SendFails(w)
            BY DEF SendFails, Stages
        <3> QED
            BY <1>3, <1>4, <1>6, <3>1, <3>2
    <2> QED
        BY <2>1, <2>2
<1>7. CASE v = w /\ ~ flushed[w]
    <2>1. Flush(w) \/ ProjectFails(w)
        BY <1>7 DEF AggregateWorker, Drain, own, Aggregate, SumPanics, EndOfPartial
    <2>2. ~ ProjectFails(w)
        <3> SUFFICES ASSUME ProjectFails(w) PROVE FALSE
            OBVIOUS
        <3>1. pc'[w] = "send" /\ hand'[w] = Error
            BY DEF ProjectFails, Drained, ControlType
        <3> QED
            BY <3>1, FailedFacts
    <2>3. Projections(query) \subseteq OutputColumns /\ pc'[w] = "send"
        BY <2>1, <2>2 DEF Flush, Drained, ControlType
    <2> QED
        BY <1>7, <2>3
<1> QED
    BY <1>5, <1>6, <1>7

LEMMA ConsumerColumnsMet ==
    ASSUME ControlType, ControlType', Stages, ColumnsMet, AggregateConsumer
    PROVE  ColumnsMet'
<1>1. SUFFICES ASSUME outcome' = "none" PROVE ColumnsMet'
    BY DEF ColumnsMet
<1>2. MergeBatch
    BY <1>1 DEF AggregateConsumer, MergePanics, MergeSumPanics, Finalize, RecvEnd, RecvError,
                DropReceiver, JoinWorkers, Stages
<1>3. /\ channel # <<>> /\ Head(channel) # Error /\ ~ KeyMissing
      /\ UNCHANGED <<query, flushed, pc, outcome>>
    BY <1>2 DEF MergeBatch, data
<1>4. OutputColumns' = OutputColumns /\ Projections(query') = Projections(query)
    BY <1>3 DEF OutputColumns
<1>5. Head(channel) \in AggregateBatch(Projections(query))
    BY <1>3, Taken DEF AnyBatch
<1>6. DOMAIN Head(channel) = Projections(query)
    BY <1>5 DEF AggregateBatch
<1>7. query.groupBy \subseteq Projections(query)
    BY <1>3, <1>6 DEF KeyMissing
<1>8. Failed => Failed'
    BY <1>2, MergeFailed
<1> QED
    BY <1>3, <1>4, <1>7, <1>8 DEF ColumnsMet
-----------------------------------------------------------------------------
(***************************************************************************)
(* Rows and their places                                                   *)
(***************************************************************************)
\* The rows S go to x, and other rows in the places from are lost.
Moved(place, from, S, x) ==
    [r \in DOMAIN place |-> IF r \in S THEN x ELSE IF place[r] \in from THEN Lost ELSE place[r]]

\* What is where afterwards.
Rearranged(new, place, from, S, x) ==
    /\ DOMAIN new = DOMAIN place
    /\ \A r \in DOMAIN place :
          new[r] = IF r \in S THEN x ELSE IF place[r] \in from THEN Lost ELSE place[r]
    /\ At(new, x) = S \cup (IF x \in from THEN {} ELSE At(place, x))
    /\ \A y : y \notin from /\ y # x /\ y # Lost /\ At(place, y) \cap S = {} =>
          At(new, y) = At(place, y)
    /\ \A y \in from : y # x /\ y # Lost => At(new, y) = {}

LEMMA Moving ==
    ASSUME NEW place, NEW from, NEW S, S \subseteq DOMAIN place, NEW x, x # Lost,
           NEW new, new = Moved(place, from, S, x)
    PROVE  Rearranged(new, place, from, S, x)
<1>1. /\ DOMAIN new = DOMAIN place
      /\ \A r \in DOMAIN place :
            new[r] = IF r \in S THEN x ELSE IF place[r] \in from THEN Lost ELSE place[r]
    BY DEF Moved
<1>2. At(new, x) = S \cup (IF x \in from THEN {} ELSE At(place, x))
    BY <1>1 DEF At
<1>3. ASSUME NEW y, y \notin from, y # x, y # Lost, At(place, y) \cap S = {}
      PROVE  At(new, y) = At(place, y)
    BY <1>1, <1>3 DEF At
<1>4. ASSUME NEW y \in from, y # x, y # Lost
      PROVE  At(new, y) = {}
    BY <1>1, <1>4 DEF At
<1> QED
    BY <1>1, <1>2, <1>3, <1>4 DEF Rearranged

\* Different places are different.
LEMMA Places ==
    /\ Unread # Lost /\ Unread # AtMerged /\ Lost # AtMerged
    /\ \A v, w : /\ AtWorker(v) = AtWorker(w) => v = w
                 /\ AtHand(v) = AtHand(w) => v = w
                 /\ AtChannel(v) = AtChannel(w) => v = w
                 /\ AtWorker(v) # AtHand(w) /\ AtWorker(v) # AtChannel(w)
                 /\ AtHand(v) # AtChannel(w)
    /\ \A w : AtWorker(w) \notin {Unread, Lost, AtMerged}
    /\ \A w : AtHand(w) \notin {Unread, Lost, AtMerged}
    /\ \A w : AtChannel(w) \notin {Unread, Lost, AtMerged}
BY DEF Unread, Lost, AtMerged, AtWorker, AtHand, AtChannel

LEMMA Apart ==
    ASSUME NEW place, NEW x, NEW y, x # y
    PROVE  At(place, x) \cap At(place, y) = {}
BY DEF At

\* What depends on the query and the table only.
LEMMA Constants ==
    ASSUME ControlType, UNCHANGED <<table, query>>
    PROVE  /\ Matches' = Matches /\ NoGroups' = NoGroups
           /\ OutputColumns' = OutputColumns /\ Projections(query') = Projections(query)
           /\ LimitHarmless' = LimitHarmless
<1>1. Matches' = Matches
    BY DEF Matches
<1>2. GroupKeys' = GroupKeys
    <2>1. Grouped' = Grouped
        BY DEF Grouped
    <2>2. \A r : Key(r)' = Key(r)
        BY DEF Key, KeyOf
    <2> QED
        BY <1>1, <2>1, <2>2 DEF GroupKeys
<1>3. LimitHarmless' = LimitHarmless
    BY <1>2 DEF LimitHarmless, Limit
<1> QED
    BY <1>1, <1>3 DEF NoGroups, OutputColumns

\* Steps that make no batch and no accumulators.
LEMMA SamePlaces ==
    ASSUME ControlType, UNCHANGED <<table, query, partial>>,
           NEW place, NEW received, Placed(place, received),
           NEW k \in Nat,
           ReadRows \subseteq ReadRows',
           \A w \in Workers : hand'[w] = hand[w] \/ hand'[w] = Error \/ hand'[w] = NoBatch,
           \A i \in 1..Len(channel') : \E j \in 1..Len(channel) :
               channel'[i] = channel[j] /\ k + i = received + j,
           UNCHANGED <<merged, answer>>,
           outcome' = outcome \/ (outcome # "ok" /\ outcome' # "ok")
    PROVE  Placed(place, k)'
<1>1. Matches' = Matches /\ NoGroups' = NoGroups
    BY Constants
<1>2. /\ DOMAIN place = Matches
      /\ \A w \in Workers : Holding(query, partial[w], At(place, AtWorker(w)))
      /\ \A w \in Workers : Carrying(query, hand[w], At(place, AtHand(w)))
      /\ \A i \in 1..Len(channel) : Carrying(query, channel[i], At(place, AtChannel(received + i)))
      /\ outcome # "ok" => Collecting(query, merged, At(place, AtMerged))
      /\ outcome = "ok" => merged = NoGroups /\ Answering(query, answer, At(place, AtMerged))
      /\ \A r \in Matches : place[r] # Unread => r \in ReadRows
    BY DEF Placed
<1>3. \A w \in Workers : Holding(query, partial[w], At(place, AtWorker(w)))'
    BY <1>2
<1>4. \A w \in Workers : Carrying(query, hand[w], At(place, AtHand(w)))'
    BY <1>2 DEF Carrying
<1>5. \A i \in 1..Len(channel') : Carrying(query, channel[i], At(place, AtChannel(k + i)))'
    <2> SUFFICES ASSUME NEW i \in 1..Len(channel')
                 PROVE  Carrying(query, channel'[i], At(place, AtChannel(k + i)))
        OBVIOUS
    <2>1. PICK j \in 1..Len(channel) : channel'[i] = channel[j] /\ k + i = received + j
        OBVIOUS
    <2> QED
        BY <1>2, <2>1
<1>6. /\ outcome' # "ok" => Collecting(query, merged, At(place, AtMerged))'
      /\ outcome' = "ok" => merged' = NoGroups' /\ Answering(query, answer, At(place, AtMerged))'
    BY <1>1, <1>2
<1>7. \A r \in Matches' : place[r] # Unread => r \in ReadRows'
    BY <1>1, <1>2
<1> QED
    BY <1>1, <1>2, <1>3, <1>4, <1>5, <1>6, <1>7 DEF Placed

LEMMA SameRowsOfChannel ==
    ASSUME ControlType, NEW received \in Nat
    PROVE  /\ channel' = channel => \A i \in 1..Len(channel') : \E j \in 1..Len(channel) :
                  channel'[i] = channel[j] /\ received + i = received + j
           /\ channel # <<>> /\ channel' = Tail(channel) =>
                  \A i \in 1..Len(channel') : \E j \in 1..Len(channel) :
                      channel'[i] = channel[j] /\ (received + 1) + i = received + j
           /\ channel' = <<>> => \A i \in 1..Len(channel') : FALSE
<1>1. Len(channel) \in Nat
    <2>1. channel \in Seq(AnyBatch(query))
        BY DEF ControlType
    <2> QED
        BY <2>1, LenProperties
<1>2. ASSUME channel # <<>>, channel' = Tail(channel), NEW i \in 1..Len(channel')
      PROVE  \E j \in 1..Len(channel) :
                channel'[i] = channel[j] /\ (received + 1) + i = received + j
    <2>1. i + 1 \in 1..Len(channel) /\ channel'[i] = channel[i + 1]
        BY <1>2, Taken
    <2>2. Len(channel') \in Nat
        BY <1>1, <1>2, Taken
    <2>3. (received + 1) + i = received + (i + 1)
        BY <2>2
    <2> QED
        BY <2>1, <2>3
<1>3. channel' = <<>> => \A i \in 1..Len(channel') : FALSE
    BY SMT
<1> QED
    BY <1>2, <1>3
-----------------------------------------------------------------------------
(***************************************************************************)
(* The places of rows: workers                                             *)
(***************************************************************************)
\* All three.
Traced(place, received) == Placed(place, received) /\ Accounted(place, received) /\ Ended(place)

\* Steps of a worker that aggregate, send and flush nothing.
LEMMA QuietWorker ==
    ASSUME Control, Control', NEW w \in Workers, AggregateWorker(w),
           ~ Aggregate(w), ~ Flush(w), ~ ProjectFails(w), ~ Send(w), outcome # "ok",
           NEW place, NEW received, Traced(place, received)
    PROVE  Traced(place, received)'
<1> USE DEF Control
<1>1. /\ UNCHANGED <<table, query, outcome, merged, answer>>
      /\ \A v \in Workers : v # w => pc'[v] = pc[v] /\ hand'[v] = hand[v] /\ partial'[v] = partial[v]
    BY Turn
<1>2. UNCHANGED channel /\ UNCHANGED partial
    BY ChannelGrows DEF AggregateWorker, Drain, SumPanics, EndOfPartial, own
<1>3. hand'[w] = hand[w] \/ hand'[w] = Error
    BY DEF AggregateWorker, Drain, SkipPart, OpenFails, OpenPart, Panic, ReadFails, BatchFails, TakeWork,
           SumPanics, EndOfPartial, StopAtLimit, SendFails, data, ControlType
<1>4. received \in Nat /\ ReadRows \subseteq ReadRows'
    BY ReadMore DEF Placed, Traced
<1>5. \A i \in 1..Len(channel') : \E j \in 1..Len(channel) :
          channel'[i] = channel[j] /\ received + i = received + j
    BY <1>2
<1>6. Placed(place, received)'
    <2>1. \A v \in Workers : hand'[v] = hand[v] \/ hand'[v] = Error \/ hand'[v] = NoBatch
        BY <1>1, <1>3
    <2>2. Placed(place, received)
        BY DEF Traced
    <2> QED
        BY <1>1, <1>2, <1>4, <1>5, <2>1, <2>2, SamePlaces
<1>7. Accounted(place, received)'
    <2> SUFFICES ASSUME outcome' = "none", NoPanic', LimitHarmless', ~ Failed',
                        NEW r \in ReadRows'
                 PROVE  InPlace(place, received, r)'
        BY DEF Accounted
    <2>1. outcome = "none" /\ LimitHarmless
        BY <1>1, Constants
    <2>2. ~ Failed
        BY <2>1, WorkerFailed
    <2>3. ~ OpenFails(w) /\ ~ ReadFails(w) /\ ~ BatchFails(w)
        <3> SUFFICES ASSUME OpenFails(w) \/ ReadFails(w) \/ BatchFails(w) PROVE FALSE
            OBVIOUS
        <3>1. pc'[w] = "send" /\ hand'[w] = Error
            BY DEF OpenFails, ReadFails, BatchFails, TakeWork, ControlType
        <3> QED
            BY <3>1, FailedFacts
    <2>4. ~ Panic(w) /\ ~ SumPanics(w)
        BY DEF Panic, SumPanics, NoPanic, ControlType
    <2>5. ~ SendFails(w)
        BY <2>1 DEF SendFails, Stages
    <2>6. pc[w] = "scan"
        BY <2>3, <2>4, <2>5 DEF AggregateWorker, Drain, SkipPart, OpenPart, TakeWork, EndOfPartial, StopAtLimit
    <2>7. NoPanic
        BY <1>1, <2>6 DEF NoPanic
    <2>8. ReadRows' = ReadRows
        BY <2>3, ReadMore
    <2>9. InPlace(place, received, r)
        BY <2>1, <2>2, <2>7, <2>8 DEF Accounted, Traced
    <2>10. \A v \in Workers : pc[v] = "send" => pc'[v] = "send"
        BY <1>1, <2>6
    <2> QED
        BY <1>2, <2>9, <2>10 DEF InPlace
<1>8. Ended(place)'
    BY <1>1 DEF Ended
<1> QED
    BY <1>6, <1>7, <1>8 DEF Traced

\* The rows of a granule go to the accumulators.
LEMMA AggregatePlaces ==
    ASSUME Control, Control', NEW w \in Workers, AggregateWorker(w), Aggregate(w), outcome # "ok",
           NEW place, NEW received, Traced(place, received)
    PROVE  \E new : Traced(new, received)'
<1> USE DEF Control
<1> DEFINE p == scan[w].part
           g == scan[w].granule
           m == table.rows[p][g]
           J == GranuleRows(p, g, m)
           rows == MatchingRows(p, g)
           acc == partial[w]
           R == At(place, AtWorker(w))
<1>1. /\ UNCHANGED <<table, query, outcome, merged, answer, hand, channel, pc>>
      /\ \A v \in Workers : v # w => partial'[v] = partial[v]
      /\ pc[w] = "scan"
    BY Turn DEF Aggregate
<1>2. /\ p \in Parts /\ g \in Granules /\ m \in Nat /\ m <= Len(Content[p][g])
      /\ J \subseteq Matches /\ Matches' = Matches
      /\ J \cap ReadRows = {}
      /\ ReadRows' = ReadRows \cup J
    BY ReadOne
<1>3. /\ received \in Nat
      /\ DOMAIN place = Matches
      /\ \A v \in Workers : Holding(query, partial[v], At(place, AtWorker(v)))
      /\ \A v \in Workers : Carrying(query, hand[v], At(place, AtHand(v)))
      /\ \A i \in 1..Len(channel) : Carrying(query, channel[i], At(place, AtChannel(received + i)))
      /\ outcome # "ok" => Collecting(query, merged, At(place, AtMerged))
      /\ \A r \in Matches : place[r] # Unread => r \in ReadRows
    BY DEF Placed, Traced
<1>4. rows = SubSeq(Content[p][g], 1, m)
    BY DEF MatchingRows
<1>5. \/ rows = <<>> /\ partial' = partial
      \/ \E groups \in Probed(acc.keys, KeysIn(rows)) :
            /\ rows # <<>>
            /\ ~ UpdateOverflows(acc, groups, rows)
            /\ partial' = [partial EXCEPT ![w] = Updated(acc, groups, rows)]
    BY DEF Aggregate
<1> HIDE DEF p, g, m, rows
<1>6. m = 0 <=> rows = <<>>
    <2>1. Len(rows) = m /\ DOMAIN rows = 1..m
        BY <1>2, <1>4, GranuleFacts
    <2>2. rows = <<>> => Len(rows) = 0
        OBVIOUS
    <2>3. m = 0 => rows = <<>>
        BY <1>2, <1>4
    <2> QED
        BY <2>1, <2>2, <2>3
<1>7. m = 0 => J = {}
    BY <1>2, GranuleFacts
<1>8. R \subseteq Rows /\ R \cap J = {} /\ \A y : y # Unread => At(place, y) \cap J = {}
    BY <1>2, <1>3, MatchFacts, Places DEF At
<1>9. Holding(query, partial'[w], R \cup J)
    <2>1. CASE rows = <<>>
        <3>1. R \cup J = R /\ partial' = partial
            BY <1>5, <1>6, <1>7, <2>1
        <3> QED
            BY <1>3, <3>1
    <2>2. CASE rows # <<>>
        <3>1. PICK n : AccOf(query, acc, R, n) /\ NoEmptyGroup(query, acc, R, n)
            BY <1>3 DEF Holding
        <3>2. PICK groups \in Probed(acc.keys, KeysIn(rows)) :
                  /\ ~ UpdateOverflows(acc, groups, rows)
                  /\ partial' = [partial EXCEPT ![w] = Updated(acc, groups, rows)]
            BY <1>5, <2>2
        <3> HIDE DEF acc, R, J
        <3>3. J = GranuleRows(p, g, m) /\ R \cap J = {} /\ R \in SUBSET Rows /\ query \in QueryType
            BY <1>8, BatchFacts DEF J
        <3>4. /\ AccOf(query, Updated(acc, groups, rows), R \cup J, groups.num)
              /\ NoEmptyGroup(query, acc, R, n) /\ m # 0 =>
                    NoEmptyGroup(query, Updated(acc, groups, rows), R \cup J, groups.num)
            BY <1>2, <1>4, <3>1, <3>2, <3>3, UpdatedAcc
        <3>5. partial'[w] = Updated(acc, groups, rows)
            BY <3>2, PartialChange
        <3> QED
            BY <1>6, <2>2, <3>1, <3>4, <3>5 DEF Holding
    <2> QED
        BY <2>1, <2>2
<1>10. PICK new : new = Moved(place, {}, J, AtWorker(w))
    OBVIOUS
<1> HIDE DEF J, R
<1>11. /\ DOMAIN new = DOMAIN place
       /\ \A r \in DOMAIN place : new[r] = IF r \in J THEN AtWorker(w) ELSE place[r]
       /\ At(new, AtWorker(w)) = R \cup J
       /\ \A y : y # AtWorker(w) /\ y # Lost /\ y # Unread => At(new, y) = At(place, y)
    <2> DEFINE x == AtWorker(w)
    <2>1. x # Lost /\ J \subseteq DOMAIN place /\ R = At(place, x)
        BY <1>2, <1>3, Places DEF R
    <2> HIDE DEF x
    <2>2. new = Moved(place, {}, J, x)
        BY <1>10 DEF x
    <2>3. /\ DOMAIN new = DOMAIN place
          /\ \A r \in DOMAIN place :
                new[r] = IF r \in J THEN x ELSE IF place[r] \in {} THEN Lost ELSE place[r]
          /\ At(new, x) = J \cup (IF x \in {} THEN {} ELSE At(place, x))
          /\ \A y : y \notin {} /\ y # x /\ y # Lost /\ At(place, y) \cap J = {} =>
                At(new, y) = At(place, y)
        BY <2>1, <2>2, Moving DEF Rearranged
    <2>4. At(new, x) = R \cup J
        BY <2>1, <2>3
    <2>5. \A y : y # x /\ y # Lost /\ y # Unread => At(new, y) = At(place, y)
        BY <1>8, <2>3
    <2> QED
        BY <2>3, <2>4, <2>5 DEF x
<1>12. Placed(new, received)'
    <2>1. ASSUME NEW v \in Workers
          PROVE  Holding(query, partial'[v], At(new, AtWorker(v)))
        <3>1. CASE v = w
            BY <1>9, <1>11, <3>1
        <3>2. CASE v # w
            BY <1>1, <1>3, <1>11, <3>2, Places
        <3> QED
            BY <3>1, <3>2
    <2>2. \A v \in Workers : Carrying(query, hand[v], At(new, AtHand(v)))
        BY <1>3, <1>11, Places
    <2>3. \A i \in 1..Len(channel) : Carrying(query, channel[i], At(new, AtChannel(received + i)))
        BY <1>3, <1>11, Places
    <2>4. Collecting(query, merged, At(new, AtMerged))
        BY <1>3, <1>11, Places
    <2>5. \A r \in Matches : new[r] # Unread => r \in ReadRows'
        BY <1>2, <1>3, <1>11
    <2> QED
        BY <1>1, <1>2, <1>3, <1>11, <2>1, <2>2, <2>3, <2>4, <2>5 DEF Placed, Carrying
<1>13. Accounted(new, received)'
    <2> SUFFICES ASSUME outcome' = "none", NoPanic', LimitHarmless', ~ Failed',
                        NEW r \in ReadRows'
                 PROVE  InPlace(new, received, r)'
        BY DEF Accounted
    <2>1. outcome = "none" /\ LimitHarmless /\ NoPanic
        BY <1>1, Constants DEF NoPanic
    <2>2. ~ Failed
        BY <2>1, WorkerFailed
    <2>3. CASE r \in J
        BY <1>2, <1>3, <1>11, <2>3 DEF InPlace
    <2>4. CASE r \notin J
        <3>1. r \in ReadRows /\ r \in DOMAIN place
            BY <1>2, <1>3, <2>4 DEF ReadRows
        <3>2. InPlace(place, received, r)
            BY <2>1, <2>2, <3>1 DEF Accounted, Traced
        <3>3. new[r] = place[r]
            BY <1>11, <2>4, <3>1
        <3> QED
            BY <1>1, <3>2, <3>3 DEF InPlace
    <2> QED
        BY <2>3, <2>4
<1>14. Ended(new)'
    BY <1>1 DEF Ended
<1> QED
    BY <1>12, <1>13, <1>14 DEF Traced
LEMMA NoGroupsFacts ==
    ASSUME query \in QueryType
    PROVE  /\ AccOf(query, NoGroups, {}, 0)
           /\ Holding(query, NoGroups, {})
<1>1. Keyed(query, <<>>, 0)
    <2>1. <<>> \in Seq(KeyType(query)) /\ Len(<<>>) = 0 /\ DOMAIN <<>> = {}
        BY EmptySeq
    <2>2. IsInjective(<<>>)
        BY <2>1 DEF IsInjective
    <2> QED
        BY <2>1, <2>2 DEF Keyed
<1>2. /\ NoGroups.keys = <<>> /\ DOMAIN NoGroups.of = Aggregates(query)
      /\ \A f \in Aggregates(query) : NoGroups.of[f] = <<>>
    BY DEF NoGroups
<1>3. <<>> \in Seq(Entries) /\ Len(<<>>) = 0 /\ 1..0 = {}
    BY EmptySeq
<1>4. AccOf(query, NoGroups, {}, 0)
    BY <1>1, <1>2, <1>3 DEF AccOf
<1>5. NoEmptyGroup(query, NoGroups, {}, 0)
    BY <1>3 DEF NoEmptyGroup
<1> QED
    BY <1>4, <1>5 DEF Holding

LEMMA KeyFacts ==
    ASSUME NEW r
    PROVE  Key(r) = KeyIn(query, r)
BY DEF Key, KeyOf, KeyIn

\* Groups with rows are groups of the table.
LEMMA GroupCount ==
    ASSUME ControlType, NEW R \in SUBSET Matches, NEW acc, NEW n,
           AccOf(query, acc, R, n), NoEmptyGroup(query, acc, R, n)
    PROVE  n \in Nat /\ Cardinality(GroupKeys) \in Nat /\ n <= Cardinality(GroupKeys)
<1>1. query \in QueryType /\ Keyed(query, acc.keys, n)
    BY BatchFacts DEF AccOf
<1>2. n \in Nat /\ (~ Grouped => n <= 1)
    BY <1>1 DEF Keyed, Grouped
<1>3. CASE ~ Grouped
    <2>1. GroupKeys = {<<>>}
        BY <1>3 DEF GroupKeys
    <2>2. Cardinality(GroupKeys) = 1
        BY <2>1, FS_Singleton
    <2> QED
        BY <1>2, <1>3, <2>2
<1>4. CASE Grouped
    <2>1. IsFiniteSet(GroupKeys)
        <3> DEFINE f == [r \in Matches |-> Key(r)]
        <3>1. IsFiniteSet(Matches)
            BY FiniteRows, MatchFacts, FS_Subset
        <3>2. \A k \in GroupKeys : \E r \in Matches : f[r] = k
            BY <1>4 DEF GroupKeys
        <3> HIDE DEF f
        <3> QED
            BY <3>1, <3>2, FiniteImage
    <2>2. \A g \in 1..n : acc.keys[g] \in GroupKeys
        <3> SUFFICES ASSUME NEW g \in 1..n PROVE acc.keys[g] \in GroupKeys
            OBVIOUS
        <3>1. GroupAt(query, acc.keys, g) = acc.keys[g]
            BY <1>4 DEF GroupAt, Grouped
        <3>2. PICK r \in R : KeyIn(query, r) = acc.keys[g]
            BY <3>1 DEF NoEmptyGroup, InGroup
        <3> QED
            BY <1>4, <3>2, KeyFacts DEF GroupKeys
    <2>3. \A g, h \in 1..n : acc.keys[g] = acc.keys[h] => g = h
        <3>1. \A g, h \in 1..n : GroupAt(query, acc.keys, g) = GroupAt(query, acc.keys, h) => g = h
            BY <1>1, KeyedFacts
        <3> QED
            BY <1>4, <3>1 DEF GroupAt, Grouped
    <2> DEFINE f == [k \in GroupKeys |-> CHOOSE g \in 1..n : acc.keys[g] = k]
    <2>4. \A g \in 1..n : \E k \in GroupKeys : f[k] = g
        <3> SUFFICES ASSUME NEW g \in 1..n PROVE f[acc.keys[g]] = g
            BY <2>2
        <3> QED
            BY <2>2, <2>3
    <2> HIDE DEF f
    <2>5. Cardinality(1..n) <= Cardinality(GroupKeys)
        BY <2>1, <2>4, FiniteImage
    <2>6. Cardinality(GroupKeys) \in Nat
        BY <2>1, FS_CardinalityType
    <2> QED
        BY <1>2, <2>5, <2>6, UpTo
<1> QED
    BY <1>3, <1>4

\* If LIMIT is not less than the number of groups, no worker cuts any off.
LEMMA NothingCut ==
    ASSUME ControlType, LimitHarmless, NEW w \in Workers, emitted[w] = 0,
           NEW n \in Nat, n <= Cardinality(GroupKeys), Cardinality(GroupKeys) \in Nat
    PROVE  Clipped(w, n) = n
<1>1. Limit = NoLimit \/ (Limit \in Nat /\ Limit >= n)
    <2>1. Limit = NoLimit \/ Limit \in Nat
        BY QueryAssumption DEF ControlType, TableType, Limit
    <2> QED
        BY <2>1 DEF LimitHarmless
<1> QED
    BY <1>1 DEF Clipped

\* The rows of a worker go to the batch that it is about to send.
LEMMA FlushPlaces ==
    ASSUME Control, Control', NEW w \in Workers, AggregateWorker(w), Flush(w), outcome # "ok",
           NEW place, NEW received, Traced(place, received)
    PROVE  \E new : Traced(new, received)'
<1> USE DEF Control
<1> DEFINE R == At(place, AtWorker(w))
           from == {AtWorker(w), AtHand(w)}
           x == AtHand(w)
<1>1. /\ received \in Nat
      /\ DOMAIN place = Matches
      /\ \A v \in Workers : Holding(query, partial[v], At(place, AtWorker(v)))
      /\ \A v \in Workers : Carrying(query, hand[v], At(place, AtHand(v)))
      /\ \A i \in 1..Len(channel) : Carrying(query, channel[i], At(place, AtChannel(received + i)))
      /\ outcome # "ok" => Collecting(query, merged, At(place, AtMerged))
      /\ \A r \in Matches : place[r] # Unread => r \in ReadRows
    BY DEF Placed, Traced
<1>2. /\ UNCHANGED <<table, query, outcome, merged, answer, channel>>
      /\ \A v \in Workers : v # w =>
            partial'[v] = partial[v] /\ hand'[v] = hand[v] /\ pc'[v] = pc[v]
      /\ pc[w] = "scan" /\ pc'[w] = "send" /\ ~ flushed[w] /\ ~ LimitReached(w)
      /\ partial' = [partial EXCEPT ![w] = NoGroups]
      /\ Projections(query) \subseteq OutputColumns
      /\ next \notin Parts
    BY Turn DEF Flush, Drained, TakeWork, ControlType
<1>3. /\ Matches' = Matches /\ NoGroups' = NoGroups
      /\ LimitHarmless' = LimitHarmless
    BY <1>2, Constants
<1>4. R \subseteq Matches /\ R \in SUBSET Rows
    BY <1>1, MatchFacts DEF At
<1>5. Holding(query, partial[w], R)
    BY <1>1
<1> HIDE DEF R
<1>6. PICK n, b, m, cut, S :
          /\ AccOf(query, partial[w], R, n) /\ NoEmptyGroup(query, partial[w], R, n)
          /\ Flushes(w, R, b, m, cut, S)
          /\ hand' = [hand EXCEPT ![w] = cut]
          /\ cut # Error /\ cut # NoBatch
    BY <1>4, <1>5, FlushHand
<1>7. /\ BatchOf(query, cut, S, m) /\ NoEmptyRow(query, cut, S, m)
      /\ NumRows(b) = n /\ n \in Nat /\ m \in Nat
      /\ m = n => S = R
    BY <1>2, <1>4, <1>6, Flushing
<1>8. S \subseteq R /\ m = Clipped(w, NumRows(b))
    BY <1>6 DEF Flushes, Kept
<1>9. PICK new : new = Moved(place, from, S, x)
    OBVIOUS
<1>10. /\ x # Lost /\ x \in from /\ AtWorker(w) \in from /\ AtWorker(w) # x /\ AtWorker(w) # Lost
       /\ S \subseteq DOMAIN place
    BY <1>1, <1>4, <1>8, Places
<1>11. \A y : y # AtWorker(w) => At(place, y) \cap S = {}
    BY <1>8, Apart DEF R
<1>12. \A y : y \in from <=> y = AtWorker(w) \/ y = x
    OBVIOUS
<1> HIDE DEF from, x
<1>13. /\ DOMAIN new = DOMAIN place
       /\ \A r \in DOMAIN place :
             new[r] = IF r \in S THEN x ELSE IF place[r] \in from THEN Lost ELSE place[r]
       /\ At(new, x) = S
       /\ At(new, AtWorker(w)) = {}
       /\ \A y : y # AtWorker(w) /\ y # x /\ y # Lost => At(new, y) = At(place, y)
    <2>1. Rearranged(new, place, from, S, x)
        BY <1>9, <1>10, Moving
    <2> QED
        BY <1>10, <1>11, <1>12, <2>1 DEF Rearranged
<1>14. hand'[w] = cut /\ partial'[w] = NoGroups
    BY <1>2, <1>6, PartialChange DEF ControlType
<1>15. ReadRows' = ReadRows
    <2>1. ~ OpenFails(w)
        BY <1>2, QueryAssumption DEF OpenFails, ControlType, TableType
    <2>2. ~ Aggregate(w)
        BY <1>2 DEF Aggregate, ControlType
    <2>3. ~ BatchFails(w)
        <3>1. next' # next
            BY DEF Flush, Drained, TakeWork, ControlType
        <3> QED
            BY <3>1 DEF BatchFails
    <2> QED
        BY <2>1, <2>2, <2>3, ReadMore
<1>16. Placed(new, received)'
    <2>1. ASSUME NEW v \in Workers
          PROVE  Holding(query, partial'[v], At(new, AtWorker(v)))
        <3>1. CASE v = w
            BY <1>13, <1>14, <3>1, NoGroupsFacts, BatchFacts
        <3>2. CASE v # w
            BY <1>1, <1>2, <1>13, <3>2, Places DEF x
        <3> QED
            BY <3>1, <3>2
    <2>2. ASSUME NEW v \in Workers
          PROVE  Carrying(query, hand'[v], At(new, AtHand(v)))
        <3>1. CASE v = w
            BY <1>7, <1>13, <1>14, <3>1 DEF Carrying, x
        <3>2. CASE v # w
            BY <1>1, <1>2, <1>13, <3>2, Places DEF x
        <3> QED
            BY <3>1, <3>2
    <2>3. \A i \in 1..Len(channel) : Carrying(query, channel[i], At(new, AtChannel(received + i)))
        BY <1>1, <1>13, Places DEF x
    <2>4. Collecting(query, merged, At(new, AtMerged))
        BY <1>1, <1>13, Places DEF x
    <2>5. \A r \in Matches : new[r] # Unread => r \in ReadRows'
        <3> SUFFICES ASSUME NEW r \in Matches, new[r] # Unread PROVE r \in ReadRows
            BY <1>15
        <3>1. place[r] # Unread
            BY <1>1, <1>4, <1>8, <1>10, <1>12, <1>13, Places DEF R, At, x
        <3> QED
            BY <1>1, <3>1
    <2> QED
        BY <1>1, <1>2, <1>3, <1>13, <2>1, <2>2, <2>3, <2>4, <2>5 DEF Placed, Carrying
<1>17. Accounted(new, received)'
    <2> SUFFICES ASSUME outcome' = "none", NoPanic', LimitHarmless', ~ Failed',
                        NEW r \in ReadRows'
                 PROVE  InPlace(new, received, r)'
        BY DEF Accounted
    <2>1. outcome = "none" /\ LimitHarmless
        BY <1>2, <1>3
    <2>2. NoPanic /\ ~ Failed
        BY <1>2, <2>1, WorkerFailed DEF NoPanic
    <2>3. r \in ReadRows /\ r \in DOMAIN place
        BY <1>1, <1>15 DEF ReadRows
    <2>4. InPlace(place, received, r)
        BY <2>1, <2>2, <2>3 DEF Accounted, Traced
    <2>5. CASE place[r] = AtWorker(w)
        <3>1. emitted[w] = 0
            BY <1>2 DEF Stages
        <3>2. n <= Cardinality(GroupKeys) /\ Cardinality(GroupKeys) \in Nat
            BY <1>4, <1>6, GroupCount
        <3>3. m = n
            BY <1>7, <1>8, <2>1, <3>1, <3>2, NothingCut
        <3>4. r \in S
            BY <1>7, <2>3, <2>5, <3>3 DEF R, At
        <3> QED
            BY <1>2, <1>13, <2>3, <3>4 DEF InPlace, x
    <2>6. CASE place[r] # AtWorker(w) /\ place[r] # AtHand(w)
        <3>1. new[r] = place[r]
            <4>1. r \notin S
                BY <1>8, <2>6 DEF R, At
            <4> QED
                BY <1>12, <1>13, <2>3, <2>6, <4>1 DEF x
        <3> QED
            BY <1>2, <2>4, <2>6, <3>1 DEF InPlace
    <2>7. CASE place[r] = AtHand(w)
        BY <1>2, <2>4, <2>7, Places DEF InPlace
    <2> QED
        BY <2>5, <2>6, <2>7
<1>18. Ended(new)'
    BY <1>2 DEF Ended
<1> QED
    BY <1>16, <1>17, <1>18 DEF Traced
\* A worker that cannot project loses its rows, and sends an error.
LEMMA ProjectFailsPlaces ==
    ASSUME Control, Control', NEW w \in Workers, AggregateWorker(w), ProjectFails(w), outcome # "ok",
           NEW place, NEW received, Traced(place, received)
    PROVE  \E new : Traced(new, received)'
<1> USE DEF Control
<1> DEFINE from == {AtWorker(w)}
           x == AtHand(w)
<1>1. /\ received \in Nat
      /\ DOMAIN place = Matches
      /\ \A v \in Workers : Holding(query, partial[v], At(place, AtWorker(v)))
      /\ \A v \in Workers : Carrying(query, hand[v], At(place, AtHand(v)))
      /\ \A i \in 1..Len(channel) : Carrying(query, channel[i], At(place, AtChannel(received + i)))
      /\ outcome # "ok" => Collecting(query, merged, At(place, AtMerged))
      /\ \A r \in Matches : place[r] # Unread => r \in ReadRows
    BY DEF Placed, Traced
<1>2. /\ UNCHANGED <<table, query, outcome, merged, answer, channel>>
      /\ \A v \in Workers : v # w =>
            partial'[v] = partial[v] /\ hand'[v] = hand[v] /\ pc'[v] = pc[v]
      /\ pc[w] = "scan" /\ pc'[w] = "send" /\ hand'[w] = Error
      /\ partial' = [partial EXCEPT ![w] = NoGroups]
      /\ next \notin Parts
    BY Turn DEF ProjectFails, Drained, TakeWork, ControlType
<1>3. Matches' = Matches /\ NoGroups' = NoGroups
    BY <1>2, Constants
<1>4. PICK new : new = Moved(place, from, {}, x)
    OBVIOUS
<1>5. x # Lost /\ x # AtWorker(w) /\ AtWorker(w) # Lost
    BY Places
<1>6. \A y : y \in from <=> y = AtWorker(w)
    OBVIOUS
<1> HIDE DEF from, x
<1>7. /\ DOMAIN new = DOMAIN place
      /\ \A r \in DOMAIN place : new[r] = IF place[r] \in from THEN Lost ELSE place[r]
      /\ At(new, AtWorker(w)) = {}
      /\ \A y : y # AtWorker(w) /\ y # Lost => At(new, y) = At(place, y)
    <2>1. Rearranged(new, place, from, {}, x)
        BY <1>4, <1>5, Moving
    <2> QED
        BY <1>5, <1>6, <2>1 DEF Rearranged
<1>8. partial'[w] = NoGroups
    BY <1>2, PartialChange DEF ControlType
<1>9. ReadRows' = ReadRows
    <2>1. ~ OpenFails(w)
        BY <1>2, QueryAssumption DEF OpenFails, ControlType, TableType
    <2>2. ~ Aggregate(w)
        BY <1>2 DEF Aggregate, ControlType
    <2>3. ~ BatchFails(w)
        <3>1. next' # next
            BY DEF ProjectFails, Drained, TakeWork, ControlType
        <3> QED
            BY <3>1 DEF BatchFails
    <2> QED
        BY <2>1, <2>2, <2>3, ReadMore
<1>10. Placed(new, received)'
    <2>1. ASSUME NEW v \in Workers
          PROVE  Holding(query, partial'[v], At(new, AtWorker(v)))
        <3>1. CASE v = w
            BY <1>7, <1>8, <3>1, NoGroupsFacts, BatchFacts
        <3>2. CASE v # w
            BY <1>1, <1>2, <1>7, <3>2, Places
        <3> QED
            BY <3>1, <3>2
    <2>2. \A v \in Workers : Carrying(query, hand'[v], At(new, AtHand(v)))
        BY <1>1, <1>2, <1>7, Places DEF Carrying
    <2>3. \A i \in 1..Len(channel) : Carrying(query, channel[i], At(new, AtChannel(received + i)))
        BY <1>1, <1>7, Places
    <2>4. Collecting(query, merged, At(new, AtMerged))
        BY <1>1, <1>7, Places
    <2>5. \A r \in Matches : new[r] # Unread => r \in ReadRows'
        BY <1>1, <1>6, <1>7, <1>9, Places
    <2> QED
        BY <1>1, <1>2, <1>3, <1>7, <2>1, <2>2, <2>3, <2>4, <2>5 DEF Placed, Carrying
<1>11. Accounted(new, received)'
    <2>1. Failed'
        BY <1>2, FailedFacts
    <2> QED
        BY <2>1 DEF Accounted
<1>12. Ended(new)'
    BY <1>2 DEF Ended
<1> QED
    BY <1>10, <1>11, <1>12 DEF Traced

\* A batch goes from the hand of a worker to the end of the channel.
LEMMA SendPlaces ==
    ASSUME Control, Control', NEW w \in Workers, AggregateWorker(w), Send(w), outcome # "ok",
           NEW place, NEW received, Traced(place, received)
    PROVE  \E new : Traced(new, received)'
<1> USE DEF Control
<1> DEFINE k == Len(channel) + 1
           S == At(place, AtHand(w))
           x == AtChannel(received + k)
           from == {AtHand(w), x}
<1>1. /\ received \in Nat
      /\ DOMAIN place = Matches
      /\ \A v \in Workers : Holding(query, partial[v], At(place, AtWorker(v)))
      /\ \A v \in Workers : Carrying(query, hand[v], At(place, AtHand(v)))
      /\ \A i \in 1..Len(channel) : Carrying(query, channel[i], At(place, AtChannel(received + i)))
      /\ outcome # "ok" => Collecting(query, merged, At(place, AtMerged))
      /\ \A r \in Matches : place[r] # Unread => r \in ReadRows
    BY DEF Placed, Traced
<1>2. /\ UNCHANGED <<table, query, outcome, merged, answer>>
      /\ \A v \in Workers : v # w => hand'[v] = hand[v] /\ pc'[v] = pc[v]
      /\ pc[w] = "send" /\ pc'[w] = "scan" /\ hand'[w] = NoBatch
    BY Turn DEF Send, ControlType
<1>3. Matches' = Matches /\ NoGroups' = NoGroups /\ LimitHarmless' = LimitHarmless
    BY <1>2, Constants
<1>4. Len(channel) \in Nat
    <2>1. channel \in Seq(AnyBatch(query))
        BY DEF ControlType
    <2> QED
        BY <2>1, LenProperties
<1>5. /\ Len(channel') = k /\ UNCHANGED partial
      /\ \A i \in 1..Len(channel) : channel'[i] = channel[i]
      /\ channel'[k] = hand[w]
    <2> DEFINE T == AnyBatch(query)
    <2>1. channel' = Append(channel, hand[w]) /\ hand[w] \in T /\ channel \in Seq(T)
        BY DEF Send, Stages, ControlType
    <2>2. UNCHANGED own
        BY <1>2 DEF AggregateWorker, Drain, SkipPart, OpenFails, OpenPart, Panic, ReadFails, BatchFails, TakeWork,
                    Aggregate, SumPanics, Flush, ProjectFails, Drained, EndOfPartial
    <2> HIDE DEF T
    <2> QED
        BY <2>1, <2>2, AppendProperties DEF own
<1>6. /\ k \in Nat /\ k \in 1..k
      /\ \A i \in 1..k : i \in 1..Len(channel) \/ i = k
      /\ \A i \in 1..Len(channel) : i \in 1..k /\ received + i # received + k
    BY <1>1, <1>4
<1>7. PICK new : new = Moved(place, from, S, x)
    OBVIOUS
<1>8. /\ x # Lost /\ x \in from /\ AtHand(w) \in from /\ AtHand(w) # x /\ AtHand(w) # Lost
      /\ S \subseteq DOMAIN place
      /\ \A i \in 1..Len(channel) : AtChannel(received + i) # x
    BY <1>6, Places DEF At
<1>9. \A y : y # AtHand(w) => At(place, y) \cap S = {}
    BY Apart
<1>10. \A y : y \in from <=> y = AtHand(w) \/ y = x
    OBVIOUS
<1> HIDE DEF from, x, S, k
<1>11. /\ DOMAIN new = DOMAIN place
       /\ \A r \in DOMAIN place :
             new[r] = IF r \in S THEN x ELSE IF place[r] \in from THEN Lost ELSE place[r]
       /\ At(new, x) = S
       /\ At(new, AtHand(w)) = {}
       /\ \A y : y # AtHand(w) /\ y # x /\ y # Lost => At(new, y) = At(place, y)
    <2>1. Rearranged(new, place, from, S, x)
        BY <1>7, <1>8, Moving
    <2> QED
        BY <1>8, <1>9, <1>10, <2>1 DEF Rearranged
<1>12. ReadRows' = ReadRows
    <2>1. ~ OpenFails(w) /\ ~ Aggregate(w) /\ ~ BatchFails(w)
        BY <1>2 DEF OpenFails, Aggregate, BatchFails, TakeWork
    <2> QED
        BY <2>1, ReadMore
<1>13. Placed(new, received)'
    <2>1. \A v \in Workers : Holding(query, partial[v], At(new, AtWorker(v)))
        BY <1>1, <1>11, Places DEF x
    <2>2. ASSUME NEW v \in Workers
          PROVE  Carrying(query, hand'[v], At(new, AtHand(v)))
        <3>1. CASE v = w
            BY <1>2, <3>1 DEF Carrying
        <3>2. CASE v # w
            BY <1>1, <1>2, <1>11, <3>2, Places DEF x
        <3> QED
            BY <3>1, <3>2
    <2>3. ASSUME NEW i \in 1..k
          PROVE  Carrying(query, channel'[i], At(new, AtChannel(received + i)))
        <3>1. CASE i = k
            <4>1. Carrying(query, hand[w], S)
                BY <1>1 DEF S
            <4> QED
                BY <1>5, <1>11, <3>1, <4>1 DEF x
        <3>2. CASE i # k
            <4>1. i \in 1..Len(channel)
                BY <1>6, <3>2
            <4>2. At(new, AtChannel(received + i)) = At(place, AtChannel(received + i))
                BY <1>8, <1>11, <4>1, Places
            <4> QED
                BY <1>1, <1>5, <4>1, <4>2
        <3> QED
            BY <3>1, <3>2
    <2>4. Collecting(query, merged, At(new, AtMerged))
        BY <1>1, <1>11, Places DEF x
    <2>5. \A r \in Matches : new[r] # Unread => r \in ReadRows'
        <3> SUFFICES ASSUME NEW r \in Matches, new[r] # Unread PROVE r \in ReadRows
            BY <1>12
        <3>1. place[r] # Unread
            BY <1>1, <1>8, <1>10, <1>11, Places DEF S, At, x
        <3> QED
            BY <1>1, <3>1
    <2> QED
        BY <1>1, <1>2, <1>3, <1>5, <1>11, <2>1, <2>2, <2>3, <2>4, <2>5 DEF Placed, Carrying
<1>14. Accounted(new, received)'
    <2> SUFFICES ASSUME outcome' = "none", NoPanic', LimitHarmless', ~ Failed',
                        NEW r \in ReadRows'
                 PROVE  InPlace(new, received, r)'
        BY DEF Accounted
    <2>1. outcome = "none" /\ LimitHarmless
        BY <1>2, <1>3
    <2>2. NoPanic /\ ~ Failed
        BY <1>2, <2>1, WorkerFailed DEF NoPanic
    <2>3. r \in ReadRows /\ r \in DOMAIN place
        BY <1>1, <1>12 DEF ReadRows
    <2>4. InPlace(place, received, r)
        BY <2>1, <2>2, <2>3 DEF Accounted, Traced
    <2>5. CASE r \in S
        <3>1. new[r] = AtChannel(received + k)
            BY <1>11, <2>3, <2>5 DEF x
        <3>2. k \in 1..Len(channel')
            BY <1>5, <1>6
        <3> QED
            BY <3>1, <3>2 DEF InPlace
    <2>6. CASE r \notin S
        <3>1. place[r] # AtHand(w)
            BY <2>3, <2>6 DEF S, At
        <3>2. place[r] # x
            BY <1>8, <2>4, Places DEF InPlace, x
        <3>3. new[r] = place[r]
            BY <1>10, <1>11, <2>3, <2>6, <3>1, <3>2
        <3>4. \/ \E v \in Workers : place[r] = AtWorker(v)
              \/ \E v \in Workers : v # w /\ place[r] = AtHand(v) /\ pc[v] = "send"
              \/ \E i \in 1..Len(channel) : place[r] = AtChannel(received + i)
              \/ place[r] = AtMerged
            BY <2>4, <3>1 DEF InPlace
        <3>5. \A i \in 1..Len(channel) : i \in 1..Len(channel')
            BY <1>5, <1>6
        <3> QED
            BY <1>2, <3>3, <3>4, <3>5 DEF InPlace
    <2> QED
        BY <2>5, <2>6
<1>15. Ended(new)'
    BY <1>2 DEF Ended
<1> QED
    BY <1>13, <1>14, <1>15 DEF Traced
LEMMA WorkerTraced ==
    ASSUME Control, Control', NEW w \in Workers, AggregateWorker(w), outcome # "ok",
           NEW place, NEW received, Traced(place, received)
    PROVE  \E new : Traced(new, received)'
<1>1. CASE Aggregate(w)
    BY <1>1, AggregatePlaces
<1>2. CASE Flush(w)
    BY <1>2, FlushPlaces
<1>3. CASE ProjectFails(w)
    BY <1>3, ProjectFailsPlaces
<1>4. CASE Send(w)
    BY <1>4, SendPlaces
<1>5. CASE ~ Aggregate(w) /\ ~ Flush(w) /\ ~ ProjectFails(w) /\ ~ Send(w)
    BY <1>5, QuietWorker
<1> QED
    BY <1>1, <1>2, <1>3, <1>4, <1>5

-----------------------------------------------------------------------------
(***************************************************************************)
(* The places of rows: the consumer                                        *)
(***************************************************************************)
\* The consumer reads no granule.
LEMMA ConsumerReads ==
    ASSUME ControlType, AggregateConsumer
    PROVE  /\ UNCHANGED <<table, query, partial, hand, pc>>
           /\ Matches' = Matches /\ NoGroups' = NoGroups
           /\ LimitHarmless' = LimitHarmless /\ ReadRows' = ReadRows
           /\ OutputColumns' = OutputColumns /\ Projections(query') = Projections(query)
<1>1. UNCHANGED <<table, query, partial, hand, pc, scan, next>>
    BY DEF AggregateConsumer, MergeBatch, MergePanics, MergeSumPanics, Finalize, RecvEnd, RecvError,
           DropReceiver, JoinWorkers, data, own
<1>2. /\ Matches' = Matches /\ NoGroups' = NoGroups
      /\ OutputColumns' = OutputColumns /\ Projections(query') = Projections(query)
      /\ LimitHarmless' = LimitHarmless
    BY <1>1, Constants
<1>3. ReadRows' = ReadRows
    BY <1>1, <1>2 DEF ReadRows
<1> QED
    BY <1>1, <1>2, <1>3

\* The rows of the first batch in the channel go to the merged accumulators.
LEMMA MergePlaces ==
    ASSUME Control, Control', AggregateConsumer, MergeBatch,
           NEW place, NEW received, Traced(place, received)
    PROVE  \E new : Traced(new, received + 1)'
<1> USE DEF Control
<1> DEFINE y == AtChannel(received + 1)
           from == {y}
           S == At(place, y)
           x == AtMerged
           R == At(place, x)
           b == Head(channel)
<1>1. /\ consumer = "pulling" /\ outcome = "none"
      /\ channel # <<>> /\ b # Error /\ ~ KeyMissing
      /\ channel' = Tail(channel)
      /\ UNCHANGED outcome
      /\ \E groups \in Probed(merged.keys, KeysOf(b)) :
            ~ MergeOverflows(merged, groups, b) /\ merged' = Merged(merged, groups, b)
    BY DEF MergeBatch, Stages
<1>2. /\ received \in Nat
      /\ DOMAIN place = Matches
      /\ \A v \in Workers : Holding(query, partial[v], At(place, AtWorker(v)))
      /\ \A v \in Workers : Carrying(query, hand[v], At(place, AtHand(v)))
      /\ \A i \in 1..Len(channel) : Carrying(query, channel[i], At(place, AtChannel(received + i)))
      /\ Collecting(query, merged, At(place, AtMerged))
      /\ \A r \in Matches : place[r] # Unread => r \in ReadRows
    BY <1>1 DEF Placed, Traced
<1>3. /\ UNCHANGED <<table, query, partial, hand, pc>>
      /\ Matches' = Matches /\ NoGroups' = NoGroups
      /\ LimitHarmless' = LimitHarmless /\ ReadRows' = ReadRows
    BY ConsumerReads
<1>4. /\ R \in SUBSET Rows /\ S \in SUBSET Rows /\ S \subseteq DOMAIN place
      /\ R \cap S = {}
    BY <1>2, MatchFacts, Places DEF At
<1>5. /\ b \in AggregateBatch(Projections(query)) /\ b # NoBatch
      /\ b = channel[1] /\ 1 \in 1..Len(channel)
    BY <1>1, Taken, BatchFacts DEF AnyBatch
<1>6. Carrying(query, b, S)
    BY <1>2, <1>5
<1>7. Complete(query, b)
    <2>1. DOMAIN b = Projections(query)
        BY <1>5 DEF AggregateBatch
    <2>2. query.groupBy \subseteq DOMAIN b
        BY <1>1 DEF KeyMissing
    <2>3. Aggregates(query) \subseteq Projections(query)
        BY BatchFacts, SelectFacts
    <2> QED
        BY <2>1, <2>2, <2>3 DEF Complete
<1> HIDE DEF b
<1>8. PICK groups \in Probed(merged.keys, KeysOf(b)) :
          ~ MergeOverflows(merged, groups, b) /\ merged' = Merged(merged, groups, b)
    BY <1>1
<1>9. PICK m : BatchOf(query, b, S, m) /\ NoEmptyRow(query, b, S, m)
    BY <1>1, <1>5, <1>6 DEF Carrying, b
<1>10. Collecting(query, merged, R)
    BY <1>2
<1> HIDE DEF R, S
<1>11. PICK n : /\ AccOf(query, merged, R, n)
                /\ IF Grouped THEN NoEmptyGroup(query, merged, R, n) ELSE n = 1
    BY <1>10 DEF Collecting, Grouped
<1>12. Collecting(query, merged', R \cup S)
    <2>0. query \in QueryType
        BY BatchFacts
    <2>1. Merging(merged, R, n, b, S, m, groups)
        BY <2>0, <1>4, <1>7, <1>8, <1>9, <1>11 DEF Merging
    <2>2. /\ AccOf(query, Merged(merged, groups, b), R \cup S, groups.num)
          /\ NoEmptyGroup(query, merged, R, n) /\ (Grouped \/ n = 1) =>
                NoEmptyGroup(query, Merged(merged, groups, b), R \cup S, groups.num)
          /\ ~ Grouped => groups.num = 1
        BY <2>1, MergedAcc
    <2> QED
        BY <1>8, <1>11, <2>2 DEF Collecting, Grouped
<1>13. PICK new : new = Moved(place, from, S, x)
    OBVIOUS
<1>14. /\ x # Lost /\ x # y /\ y # Lost
       /\ \A z : z \in from <=> z = y
       /\ \A z : z # y => At(place, z) \cap S = {}
    BY Places, Apart DEF S
<1>15. R = At(place, x)
    BY DEF R
<1> HIDE DEF from, x, y
<1>16. /\ DOMAIN new = DOMAIN place
       /\ \A r \in DOMAIN place :
             new[r] = IF r \in S THEN x ELSE IF place[r] \in from THEN Lost ELSE place[r]
       /\ At(new, x) = R \cup S
       /\ \A z : z # y /\ z # x /\ z # Lost => At(new, z) = At(place, z)
    <2>1. Rearranged(new, place, from, S, x)
        BY <1>4, <1>13, <1>14, Moving
    <2> QED
        BY <1>14, <1>15, <2>1 DEF Rearranged
<1>17. /\ \A v : y # AtWorker(v) /\ y # AtHand(v)
       /\ y # Unread /\ x # Unread
       /\ \A v : x # AtWorker(v) /\ x # AtHand(v) /\ x # AtChannel(v)
       /\ \A v : AtWorker(v) # Lost /\ AtHand(v) # Lost /\ AtChannel(v) # Lost
    BY Places DEF x, y
<1>18. \A i \in 1..Len(channel') :
          /\ channel'[i] = channel[i + 1] /\ i + 1 \in 1..Len(channel)
          /\ (received + 1) + i = received + (i + 1)
          /\ AtChannel(received + (i + 1)) # y
    <2> SUFFICES ASSUME NEW i \in 1..Len(channel')
                 PROVE  /\ channel'[i] = channel[i + 1] /\ i + 1 \in 1..Len(channel)
                        /\ (received + 1) + i = received + (i + 1)
                        /\ AtChannel(received + (i + 1)) # y
        OBVIOUS
    <2>1. Len(channel) \in Nat /\ Len(channel') = Len(channel) - 1
        BY <1>1, Taken
    <2>2. i \in Int /\ i >= 1
        BY <2>1
    <2>3. received + (i + 1) # received + 1 /\ (received + 1) + i = received + (i + 1)
        BY <1>2, <2>2
    <2> QED
        BY <1>1, <2>3, Taken, Places DEF y
<1>19. Placed(new, received + 1)'
    <2>1. \A v \in Workers : Holding(query, partial[v], At(new, AtWorker(v)))
        BY <1>2, <1>16, <1>17
    <2>2. \A v \in Workers : Carrying(query, hand[v], At(new, AtHand(v)))
        BY <1>2, <1>16, <1>17
    <2>3. ASSUME NEW i \in 1..Len(channel')
          PROVE  Carrying(query, channel'[i], At(new, AtChannel((received + 1) + i)))
        <3>1. At(new, AtChannel(received + (i + 1))) = At(place, AtChannel(received + (i + 1)))
            BY <1>16, <1>17, <1>18
        <3>2. Carrying(query, channel[i + 1], At(place, AtChannel(received + (i + 1))))
            BY <1>2, <1>18
        <3> QED
            BY <1>18, <3>1, <3>2
    <2>4. Collecting(query, merged', At(new, AtMerged))
        BY <1>12, <1>16 DEF x
    <2>5. \A r \in Matches : new[r] # Unread => r \in ReadRows'
        <3> SUFFICES ASSUME NEW r \in Matches, new[r] # Unread PROVE r \in ReadRows
            BY <1>3
        <3>1. place[r] # Unread
            BY <1>2, <1>14, <1>16, <1>17 DEF S, At
        <3> QED
            BY <1>2, <3>1
    <2>6. received + 1 \in Nat
        BY <1>2
    <2> QED
        BY <1>1, <1>2, <1>3, <1>16, <2>1, <2>2, <2>3, <2>4, <2>5, <2>6 DEF Placed, Carrying
<1>20. Accounted(new, received + 1)'
    <2> SUFFICES ASSUME outcome' = "none", NoPanic', LimitHarmless', ~ Failed',
                        NEW r \in ReadRows'
                 PROVE  InPlace(new, received + 1, r)'
        BY DEF Accounted
    <2>1. outcome = "none" /\ LimitHarmless /\ NoPanic /\ ~ Failed
        BY <1>1, <1>3, MergeFailed DEF NoPanic
    <2>2. r \in ReadRows /\ r \in DOMAIN place
        BY <1>2, <1>3 DEF ReadRows
    <2>3. InPlace(place, received, r)
        BY <2>1, <2>2 DEF Accounted, Traced
    <2>4. CASE r \in S
        BY <1>16, <2>2, <2>4 DEF InPlace, x
    <2>5. CASE r \notin S
        <3>1. new[r] = place[r] /\ place[r] # y
            BY <1>14, <1>16, <2>2, <2>5 DEF S, At
        <3>2. ASSUME NEW i \in 1..Len(channel), place[r] = AtChannel(received + i)
              PROVE  \E j \in 1..Len(channel') : new[r] = AtChannel((received + 1) + j)
            <4>1. i # 1
                BY <3>1, <3>2 DEF y
            <4>2. i - 1 \in 1..Len(channel')
                BY <1>1, <4>1, Taken
            <4>3. (received + 1) + (i - 1) = received + i
                <5>1. Len(channel) \in Nat
                    BY <1>1, Taken
                <5> QED
                    BY <1>2, <5>1
            <4> QED
                BY <3>1, <3>2, <4>2, <4>3
        <3>3. \/ \E v \in Workers : place[r] = AtWorker(v)
              \/ \E v \in Workers : place[r] = AtHand(v) /\ pc[v] = "send"
              \/ \E i \in 1..Len(channel) : place[r] = AtChannel(received + i)
              \/ place[r] = AtMerged
            BY <2>3 DEF InPlace
        <3> QED
            BY <1>3, <3>1, <3>2, <3>3 DEF InPlace
    <2> QED
        BY <2>4, <2>5
<1>21. Ended(new)'
    BY <1>1 DEF Ended
<1> QED
    BY <1>19, <1>20, <1>21 DEF Traced
\* Steps of the consumer that merge nothing and hand nothing out.
LEMMA QuietConsumer ==
    ASSUME Control, Control', AggregateConsumer, ~ MergeBatch, ~ Finalize,
           NEW place, NEW received, Traced(place, received)
    PROVE  \E k : Traced(place, k)'
<1> USE DEF Control
<1>1. /\ UNCHANGED <<table, query, partial, hand, pc>>
      /\ OutputColumns' = OutputColumns /\ Projections(query') = Projections(query)
      /\ Matches' = Matches /\ LimitHarmless' = LimitHarmless /\ ReadRows' = ReadRows
    BY ConsumerReads
<1>2. received \in Nat /\ Placed(place, received)
    BY DEF Placed, Traced
<1>3. UNCHANGED <<merged, answer>>
    BY DEF AggregateConsumer, MergePanics, MergeSumPanics, RecvError, DropReceiver, JoinWorkers, own
<1>4. CASE MergePanics \/ MergeSumPanics \/ RecvError
    <2>1. /\ channel # <<>> /\ channel' = Tail(channel)
          /\ outcome = "none" /\ outcome' # "none" /\ outcome' # "ok"
        BY <1>4 DEF MergePanics, MergeSumPanics, RecvError, Stages
    <2>2. received + 1 \in Nat
        BY <1>2
    <2>3. \A i \in 1..Len(channel') : \E j \in 1..Len(channel) :
              channel'[i] = channel[j] /\ (received + 1) + i = received + j
        BY <1>2, <2>1, SameRowsOfChannel
    <2>4. Placed(place, received + 1)'
        <3>1. ReadRows \subseteq ReadRows'
            BY <1>1
        <3> QED
            BY <1>1, <1>2, <1>3, <2>1, <2>2, <2>3, <3>1, SamePlaces
    <2>5. Accounted(place, received + 1)' /\ Ended(place)'
        BY <2>1 DEF Accounted, Ended
    <2> QED
        BY <2>4, <2>5 DEF Traced
<1>5. CASE DropReceiver \/ JoinWorkers
    <2>1. /\ UNCHANGED outcome /\ outcome # "none"
          /\ channel' = channel \/ channel' = <<>>
        BY <1>5 DEF DropReceiver, JoinWorkers, Stages
    <2>2. \A i \in 1..Len(channel') : \E j \in 1..Len(channel) :
              channel'[i] = channel[j] /\ received + i = received + j
        BY <1>2, <2>1, SameRowsOfChannel
    <2>3. Placed(place, received)'
        <3>1. ReadRows \subseteq ReadRows'
            BY <1>1
        <3> QED
            BY <1>1, <1>2, <1>3, <2>1, <2>2, <3>1, SamePlaces
    <2>4. Accounted(place, received)'
        BY <2>1 DEF Accounted
    <2>5. Ended(place)'
        <3>1. NoPanic' => NoPanic
            BY <1>1 DEF NoPanic
        <3> QED
            BY <1>1, <2>1, <3>1 DEF Ended, Traced
    <2> QED
        BY <2>3, <2>4, <2>5 DEF Traced
<1> QED
    BY <1>4, <1>5 DEF AggregateConsumer

\* An accumulator without groups has no rows.
LEMMA NothingHeld ==
    ASSUME query \in QueryType, NEW R, Holding(query, NoGroups, R)
    PROVE  R = {}
<1>1. PICK n : AccOf(query, NoGroups, R, n)
    BY DEF Holding
<1>2. NoGroups.keys = <<>> /\ \A f \in Aggregates(query) : NoGroups.of[f] = <<>>
    BY DEF NoGroups
<1>3. Len(<<>>) = 0
    BY EmptySeq
<1>4. n = 0
    <2>1. CASE Grouped
        BY <1>1, <1>2, <1>3, <2>1 DEF AccOf, Keyed, Grouped
    <2>2. CASE ~ Grouped
        <3>1. PICK f : f \in Aggregates(query)
            BY <2>2, SelectFacts
        <3> QED
            BY <1>1, <1>2, <1>3, <3>1 DEF AccOf
    <2> QED
        BY <2>1, <2>2
<1>5. \A r \in R : \E g \in 1..n : TRUE
    BY <1>1 DEF AccOf
<1>6. 1..0 = {}
    BY SMT
<1> QED
    BY <1>4, <1>5, <1>6

\* When all workers have come to their end, every row has been merged.
LEMMA AllMerged ==
    ASSUME Control, channel = <<>>, \A w \in Workers : Stopped(w), outcome = "none",
           NoPanic, LimitHarmless,
           NEW place, NEW received, Traced(place, received)
    PROVE  At(place, AtMerged) = Matches /\ OutputColumns = Projections(query)
<1> USE DEF Control
<1>1. \A w \in Workers : pc[w] = "done"
    BY DEF Stopped, NoPanic
<1>2. ~ Failed
    <2>1. DOMAIN channel = {}
        BY EmptySeq
    <2> QED
        BY <1>1, <2>1, FailedFacts
<1>3. \A w \in Workers : flushed[w]
    <2> SUFFICES ASSUME NEW w \in Workers, ~ flushed[w] PROVE FALSE
        OBVIOUS
    <2>1. emitted[w] = 0 /\ LimitReached(w)
        BY <1>1 DEF Stages
    <2>2. Limit # NoLimit /\ 0 >= Limit /\ Limit \in Nat
        BY <2>1, QueryAssumption DEF LimitReached, ControlType, TableType, Limit
    <2> QED
        BY <2>2 DEF LimitHarmless
<1>4. /\ \A w \in Workers : scan[w] = NoScan /\ partial[w] = NoGroups
      /\ next \notin Parts /\ next >= 1 /\ next \in Nat
    <2>1. PICK w : w \in Workers
        BY AggregationAssumption
    <2> QED
        BY <1>3, <2>1 DEF Stages, ControlType
<1>5. ReadRows = Matches
    <2> SUFFICES ASSUME NEW r \in Matches PROVE r \in ReadRows
        BY DEF ReadRows
    <2>1. r[1] \in Parts
        BY MatchFacts
    <2>2. r[1] < next /\ r[1] # 0
        BY <1>4, <2>1, QueryAssumption, SMT DEF Parts
    <2>3. \A w \in Workers : scan[w].part # r[1]
        BY <1>4, <2>2 DEF NoScan
    <2> QED
        BY <2>2, <2>3 DEF ReadRows
<1>6. DOMAIN place = Matches /\ \A w \in Workers : At(place, AtWorker(w)) = {}
    <2>1. DOMAIN place = Matches
        BY DEF Placed, Traced
    <2>2. \A w \in Workers : Holding(query, NoGroups, At(place, AtWorker(w)))
        BY <1>4 DEF Placed, Traced
    <2> QED
        BY <2>1, <2>2, NothingHeld, BatchFacts
<1>7. At(place, AtMerged) = Matches
    <2> SUFFICES ASSUME NEW r \in Matches PROVE place[r] = AtMerged
        BY <1>6 DEF At
    <2>1. InPlace(place, received, r)
        BY <1>2, <1>5 DEF Accounted, Traced
    <2>2. \A w \in Workers : place[r] # AtWorker(w) /\ pc[w] # "send"
        BY <1>1, <1>6 DEF At
    <2>3. \A i \in 1..Len(channel) : FALSE
        BY SMT
    <2> QED
        BY <2>1, <2>2, <2>3 DEF InPlace
<1>8. OutputColumns = Projections(query)
    <2>1. PICK w : w \in Workers
        BY AggregationAssumption
    <2>2. Projections(query) \subseteq OutputColumns /\ query.groupBy \subseteq Projections(query)
        BY <1>1, <1>2, <1>3, <2>1 DEF ColumnsMet
    <2>3. Aggregates(query) \subseteq Projections(query)
        BY BatchFacts, SelectFacts
    <2> QED
        BY <2>2, <2>3 DEF OutputColumns
<1> QED
    BY <1>7, <1>8

\* The merged accumulators become the answer.
LEMMA FinalizePlaces ==
    ASSUME Control, Control', AggregateConsumer, Finalize,
           NEW place, NEW received, Traced(place, received)
    PROVE  Traced(place, received)'
<1> USE DEF Control
<1>1. /\ channel = <<>> /\ UNCHANGED channel
      /\ outcome = "none" /\ outcome' = "ok"
      /\ \A w \in Workers : Stopped(w)
      /\ answer' = OutputBatch(merged) /\ merged' = NoGroups
    BY DEF Finalize, RecvEnd, Stages
<1>2. /\ UNCHANGED <<table, query, partial, hand, pc>>
      /\ Matches' = Matches /\ NoGroups' = NoGroups
      /\ OutputColumns' = OutputColumns /\ Projections(query') = Projections(query)
      /\ LimitHarmless' = LimitHarmless /\ ReadRows' = ReadRows
    BY ConsumerReads
<1>3. /\ received \in Nat
      /\ DOMAIN place = Matches
      /\ \A v \in Workers : Holding(query, partial[v], At(place, AtWorker(v)))
      /\ \A v \in Workers : Carrying(query, hand[v], At(place, AtHand(v)))
      /\ \A i \in 1..Len(channel) : Carrying(query, channel[i], At(place, AtChannel(received + i)))
      /\ Collecting(query, merged, At(place, AtMerged))
      /\ \A r \in Matches : place[r] # Unread => r \in ReadRows
    BY <1>1 DEF Placed, Traced
<1>4. Answering(query, answer', At(place, AtMerged))
    <2> DEFINE R == At(place, AtMerged)
    <2>1. R \in SUBSET Rows
        BY <1>3, MatchFacts DEF At
    <2>2. Collecting(query, merged, R)
        BY <1>3
    <2> HIDE DEF R
    <2>3. PICK n : /\ AccOf(query, merged, R, n)
                   /\ IF Grouped THEN NoEmptyGroup(query, merged, R, n) ELSE n = 1
        BY <2>2 DEF Collecting, Grouped
    <2>4. query \in QueryType
        BY BatchFacts
    <2>5. /\ BatchOf(query, OutputBatch(merged), R, n)
          /\ DOMAIN OutputBatch(merged) = OutputColumns
          /\ NoEmptyGroup(query, merged, R, n) => NoEmptyRow(query, OutputBatch(merged), R, n)
        BY <2>1, <2>3, <2>4, OutputOfAcc
    <2> QED
        BY <1>1, <2>3, <2>5 DEF Answering, OutputColumns, Grouped, R
<1>5. Placed(place, received)'
    BY <1>1, <1>2, <1>3, <1>4 DEF Placed
<1>6. Accounted(place, received)'
    BY <1>1 DEF Accounted
<1>7. Ended(place)'
    <2> SUFFICES ASSUME NoPanic', LimitHarmless'
                 PROVE  At(place, AtMerged) = Matches' /\ OutputColumns' = Projections(query')
        BY DEF Ended
    <2>1. NoPanic /\ LimitHarmless
        BY <1>2 DEF NoPanic
    <2> QED
        BY <1>1, <1>2, <2>1, AllMerged
<1> QED
    BY <1>5, <1>6, <1>7 DEF Traced

LEMMA ConsumerTraced ==
    ASSUME Control, Control', AggregateConsumer,
           NEW place, NEW received, Traced(place, received)
    PROVE  \E new, k : Traced(new, k)'
<1>1. CASE MergeBatch
    BY <1>1, MergePlaces
<1>2. CASE Finalize
    BY <1>2, FinalizePlaces
<1>3. CASE ~ MergeBatch /\ ~ Finalize
    BY <1>3, QuietConsumer
<1> QED
    BY <1>1, <1>2, <1>3
-----------------------------------------------------------------------------
(***************************************************************************)
(* The invariant is one                                                    *)
(***************************************************************************)
\* MergeAggregateExec starts with one row of defaults where there is no GROUP BY.
LEMMA MergeStartFacts ==
    ASSUME query \in QueryType
    PROVE  Collecting(query, MergeStart, {})
<1>1. AccOf(query, NoGroups, {}, 0) /\ Holding(query, NoGroups, {})
    BY NoGroupsFacts
<1>2. CASE Grouped
    BY <1>1, <1>2 DEF MergeStart, Collecting, Holding, Grouped
<1>3. CASE ~ Grouped
    <2> DEFINE entry(f) == CASE f \in {"count", "sum"} -> <<0>>
                             [] f \in {"min", "max"} -> <<Unset>>
                             [] f = "avg" -> <<[sum |-> 0, count |-> 0]>>
               s == MergeStart
    <2>1. s = [NoGroups EXCEPT !.of = [f \in DOMAIN @ |-> entry(f)]]
        BY <1>3 DEF MergeStart
    <2>2. NoGroups = [keys |-> <<>>, of |-> [f \in Aggregates(query) |-> <<>>]]
        BY DEF NoGroups
    <2>3. /\ s.keys = <<>> /\ DOMAIN s.of = Aggregates(query)
          /\ \A f \in Aggregates(query) : s.of[f] = entry(f)
        <3> HIDE DEF entry, s
        <3> QED
            BY <2>1, <2>2
    <2>4. ASSUME NEW f \in Aggregates(query)
          PROVE  s.of[f] = <<Default(f)>>
        <3>1. f \in AggFuncs
            BY SelectFacts
        <3>2. entry(f) = <<Default(f)>>
            BY <3>1 DEF AggFuncs, Default
        <3> HIDE DEF s
        <3> QED
            BY <2>3, <3>2
    <2>5. Keyed(query, <<>>, 1)
        <3>1. <<>> \in Seq(KeyType(query)) /\ DOMAIN <<>> = {}
            BY EmptySeq
        <3>2. IsInjective(<<>>)
            BY <3>1 DEF IsInjective
        <3> QED
            BY <1>3, <3>1, <3>2 DEF Keyed, Grouped
    <2> HIDE DEF s, entry
    <2>6. ASSUME NEW f \in Aggregates(query)
          PROVE  /\ s.of[f] \in Seq(Entries) /\ Len(s.of[f]) = 1
                 /\ Entry(query, f, s.of[f][1], {})
        <3>1. f \in AggFuncs
            BY SelectFacts
        <3>2. Entry(query, f, Default(f), {}) /\ Default(f) \in Entries
            BY <3>1, EntryFacts
        <3> DEFINE d == Default(f)
        <3> HIDE DEF d
        <3>3. <<d>> \in Seq(Entries) /\ Len(<<d>>) = 1 /\ <<d>>[1] = d
            BY <3>2 DEF d
        <3> QED
            BY <2>4, <3>2, <3>3 DEF d
    <2>7. \A k : InGroup(query, {}, k) = {}
        BY DEF InGroup
    <2>8. \A g \in 1..1 : g = 1
        OBVIOUS
    <2>9. AccOf(query, s, {}, 1)
        BY <2>3, <2>5, <2>6, <2>7, <2>8 DEF AccOf
    <2> QED
        BY <1>3, <2>9 DEF Collecting, Grouped, s
<1> QED
    BY <1>2, <1>3

LEMMA AggregateStarts == AggregateInit => AInv
<1> SUFFICES ASSUME AggregateInit PROVE AInv
    OBVIOUS
<1>1. /\ table \in Tables /\ query \in Queries
      /\ next = 1 /\ pc = [w \in Workers |-> "scan"] /\ scan = [w \in Workers |-> NoScan]
      /\ hand = [w \in Workers |-> NoBatch] /\ emitted = [w \in Workers |-> 0]
      /\ channel = <<>> /\ rxOpen = TRUE /\ consumer = "pulling" /\ outcome = "none"
      /\ partial = [w \in Workers |-> NoGroups] /\ flushed = [w \in Workers |-> FALSE]
      /\ merged = MergeStart /\ answer = NoBatch
    BY DEF AggregateInit, Init
<1>2. channel \in Seq(AnyBatch(query)) /\ Len(channel) = 0 /\ 1..0 = {}
    BY <1>1, EmptySeq
<1>3. ControlType
    BY <1>1, <1>2 DEF ControlType, Scans
<1>4. Control
    <2>1. ScanOrder
        BY <1>1 DEF ScanOrder
    <2>2. Stages
        BY <1>1 DEF Stages
    <2>3. ColumnsMet
        BY <1>1 DEF ColumnsMet
    <2> QED
        BY <1>3, <2>1, <2>2, <2>3 DEF Control
<1>5. query \in QueryType
    BY <1>3, BatchFacts
<1>6. PICK place : place = [r \in Matches |-> Unread]
    OBVIOUS
<1>7. DOMAIN place = Matches /\ \A y : y # Unread => At(place, y) = {}
    BY <1>6 DEF At
<1>8. Placed(place, 0)
    <2>1. \A w \in Workers : Holding(query, partial[w], At(place, AtWorker(w)))
        BY <1>1, <1>5, <1>7, NoGroupsFacts, Places
    <2>2. \A w \in Workers : Carrying(query, hand[w], At(place, AtHand(w)))
        BY <1>1 DEF Carrying
    <2>3. \A i \in 1..Len(channel) : FALSE
        BY <1>2
    <2>4. Collecting(query, merged, At(place, AtMerged))
        BY <1>1, <1>5, <1>7, MergeStartFacts, Places
    <2>5. \A r \in Matches : place[r] = Unread
        BY <1>6
    <2> QED
        BY <1>1, <1>7, <2>1, <2>2, <2>3, <2>4, <2>5 DEF Placed
<1>9. Accounted(place, 0)
    <2>1. \A r \in Matches : r[1] \in Nat /\ r[1] >= 1
        <3>1. \A r \in Matches : r[1] \in Parts
            BY <1>3, MatchFacts
        <3> QED
            BY <3>1, QueryAssumption, SMT DEF Parts
    <2>2. \A r \in Matches : ~ (r[1] < next)
        BY <1>1, <2>1
    <2>3. ReadRows = {}
        BY <2>2 DEF ReadRows
    <2> QED
        BY <2>3 DEF Accounted
<1>10. Ended(place)
    BY <1>1 DEF Ended
<1> QED
    BY <1>4, <1>8, <1>9, <1>10 DEF AInv

\* What is traced is made of rows of the table.
LEMMA HeldRows ==
    ASSUME ControlType, NEW place, NEW received, Traced(place, received), NEW y
    PROVE  At(place, y) \in SUBSET Rows
<1>1. DOMAIN place = Matches
    BY DEF Traced, Placed
<1> QED
    BY <1>1, MatchFacts DEF At

LEMMA AggregateWorkerStep ==
    ASSUME AInv, NEW w \in Workers, AggregateWorker(w)
    PROVE  AInv'
<1>1. PICK place, received : Traced(place, received)
    BY DEF AInv, Traced
<1>2. Control
    BY DEF AInv
<1> USE <1>2 DEF Control
<1>3. PICK R : R = At(place, AtWorker(w))
    OBVIOUS
<1>4. R \in SUBSET Rows /\ Holding(query, partial[w], R)
    BY <1>1, <1>3, HeldRows DEF Traced, Placed
<1>5. ControlType'
    BY <1>4, AggregateWorkerType
<1>6. Stages' /\ outcome # "ok"
    BY <1>4, AggregateWorkerStages
<1>7. ScanOrder'
    BY WorkerScanOrder
<1>8. ColumnsMet'
    BY <1>5, WorkerColumnsMet
<1>9. Control'
    BY <1>5, <1>6, <1>7, <1>8
<1>10. \E new : Traced(new, received)'
    BY <1>1, <1>6, <1>9, WorkerTraced
<1> QED
    BY <1>9, <1>10 DEF AInv, Traced

LEMMA AggregateConsumerStep ==
    ASSUME AInv, AggregateConsumer
    PROVE  AInv'
<1>1. PICK place, received : Traced(place, received)
    BY DEF AInv, Traced
<1>2. Control
    BY DEF AInv
<1> USE <1>2 DEF Control
<1>3. ControlType' /\ Stages'
    BY AggregateConsumerType, AggregateConsumerStages
<1>4. ColumnsMet'
    BY <1>3, ConsumerColumnsMet
<1>5. ScanOrder'
    <2>1. UNCHANGED <<scan, next>>
        BY DEF AggregateConsumer, MergeBatch, MergePanics, MergeSumPanics, Finalize, RecvEnd, RecvError,
               DropReceiver, JoinWorkers, data
    <2> QED
        BY <2>1 DEF ScanOrder
<1>6. Control'
    BY <1>3, <1>4, <1>5
<1>7. \E new, k : Traced(new, k)'
    BY <1>1, <1>6, ConsumerTraced
<1> QED
    BY <1>6, <1>7 DEF AInv, Traced

LEMMA AggregateStutter ==
    ASSUME AInv, UNCHANGED all
    PROVE  AInv'
<1> USE DEF all, vars, own
<1>1. PICK place, received : Traced(place, received)
    BY DEF AInv, Traced
<1>2. ControlType
    BY DEF AInv, Control
<1>3. /\ Matches' = Matches /\ NoGroups' = NoGroups
      /\ OutputColumns' = OutputColumns /\ Projections(query') = Projections(query)
      /\ LimitHarmless' = LimitHarmless
    BY <1>2, Constants
<1>4. ReadRows' = ReadRows /\ Failed' = Failed /\ NoPanic' = NoPanic
    BY <1>3 DEF ReadRows, Failed, InHand, InChannel, NoPanic
<1>5. Control'
    <2>1. \A w : LimitReached(w)' = LimitReached(w) /\ Stopped(w)' = Stopped(w)
        BY DEF LimitReached, Stopped, Limit
    <2> QED
        BY <1>3, <1>4, <2>1 DEF AInv, Control, ControlType, AnyBatch, ScanOrder, Stages, ColumnsMet
<1>6. Placed(place, received)'
    BY <1>1, <1>3, <1>4 DEF Traced, Placed
<1>7. Accounted(place, received)'
    BY <1>1, <1>3, <1>4 DEF Traced, Accounted, InPlace
<1>8. Ended(place)'
    BY <1>1, <1>3, <1>4 DEF Traced, Ended
<1> QED
    BY <1>5, <1>6, <1>7, <1>8 DEF AInv

\* AInv is inductive.
THEOREM AInvariance == AggregateSpec => []AInv
<1>1. AInv /\ [AggregateNext]_all => AInv'
    <2> SUFFICES ASSUME AInv, [AggregateNext]_all PROVE AInv'
        OBVIOUS
    <2>1. ASSUME NEW w \in Workers, AggregateWorker(w) PROVE AInv'
        BY <2>1, AggregateWorkerStep
    <2>2. CASE AggregateConsumer
        BY <2>2, AggregateConsumerStep
    <2>3. CASE AggregateReturned
        BY <2>3, AggregateStutter DEF AggregateReturned, Returned, all
    <2>4. CASE UNCHANGED all
        BY <2>4, AggregateStutter
    <2> QED
        BY <2>1, <2>2, <2>3, <2>4 DEF AggregateNext
<1> QED
    BY <1>1, AggregateStarts, PTL DEF AggregateSpec
-----------------------------------------------------------------------------
(***************************************************************************)
(* What follows from it                                                    *)
(***************************************************************************)
LEMMA TableOfAcc ==
    ASSUME NEW acc, NEW R, NEW n, AccOf(query, acc, R, n)
    PROVE  GroupTable(acc)
<1>1. /\ Keyed(query, acc.keys, n) /\ DOMAIN acc.of = Aggregates(query)
      /\ \A f \in Aggregates(query) : Len(acc.of[f]) = n
    BY DEF AccOf
<1>2. /\ acc.keys \in Seq([query.groupBy -> Keys \cup SumRange])
      /\ IsInjective(acc.keys)
      /\ IF Grouped THEN n = Len(acc.keys) ELSE n <= 1
    BY <1>1 DEF Keyed, KeyType, Grouped
<1> QED
    BY <1>1, <1>2 DEF GroupTable

LEMMA ColumnsCarried ==
    ASSUME ControlType, NEW b, b \in AnyBatch(query), b # Error, NEW R, Carrying(query, b, R)
    PROVE  Columns(b)
<1>1. b \in AggregateBatch(Projections(query)) /\ b # NoBatch /\ query \in QueryType
    BY BatchFacts DEF AnyBatch
<1>2. DOMAIN b = Projections(query)
    BY <1>1 DEF AggregateBatch
<1>3. PICK n : BatchOf(query, b, R, n)
    BY <1>1 DEF Carrying
<1> QED
    BY <1>1, <1>2, <1>3, BatchColumns

\* The rows of the answer.
LEMMA AnswerBatch ==
    ASSUME AInv, outcome = "ok"
    PROVE  \E R, n : /\ R \in SUBSET Matches /\ R \in SUBSET Rows /\ query \in QueryType
                     /\ BatchOf(query, answer, R, n)
                     /\ DOMAIN answer = OutputColumns /\ Complete(query, answer)
                     /\ NumRows(answer) = n /\ n \in Nat
                     /\ KeysOf(answer) = [i \in 1..n |-> BatchKey(query, answer, i)]
                     /\ IF Grouped THEN NoEmptyRow(query, answer, R, n) ELSE n = 1
                     /\ NoPanic /\ LimitHarmless =>
                           R = Matches /\ OutputColumns = Projections(query)
<1>1. PICK place, received : Traced(place, received)
    BY DEF AInv, Traced
<1>2. ControlType
    BY DEF AInv, Control
<1>3. PICK R : R = At(place, AtMerged)
    OBVIOUS
<1>4. Answering(query, answer, R) /\ R \in SUBSET Matches
    BY <1>1, <1>3 DEF Traced, Placed, At
<1>5. R \in SUBSET Rows /\ query \in QueryType
    BY <1>2, <1>4, MatchFacts, BatchFacts
<1>6. PICK n : /\ BatchOf(query, answer, R, n)
               /\ IF Grouped THEN NoEmptyRow(query, answer, R, n) ELSE n = 1
    BY <1>4 DEF Answering, Grouped
<1>7. DOMAIN answer = OutputColumns /\ Complete(query, answer)
    BY <1>4 DEF Answering, OutputColumns, Complete
<1>8. /\ NumRows(answer) = n
      /\ KeysOf(answer) = [i \in 1..n |-> BatchKey(query, answer, i)]
    <2>1. DOMAIN answer # {}
        BY <1>5, <1>7, SelectFacts
    <2> QED
        BY <1>6, <2>1, RowCount
<1>9. n \in Nat
    BY <1>6 DEF BatchOf
<1>10. NoPanic /\ LimitHarmless => R = Matches /\ OutputColumns = Projections(query)
    BY <1>1, <1>3 DEF Traced, Ended
<1> QED
    BY <1>4, <1>5, <1>6, <1>7, <1>8, <1>9, <1>10

\* A group has one index in every table of groups, whether of a worker or of the
\* merge, and every accumulator an entry for it; the columns of every batch have
\* the same length, wherever it is (group_indices.rs, hash_aggregate.rs,
\* merge_aggregate.rs).
THEOREM AggregateTypes == AggregateSpec => []AggregateTypeOK
<1>1. ASSUME AInv PROVE AggregateTypeOK
    <2>1. PICK place, received : Traced(place, received)
        BY <1>1 DEF AInv, Traced
    <2>2. ControlType
        BY <1>1 DEF AInv, Control
    <2>3. query \in QueryType
        BY <2>2, BatchFacts
    <2>4. /\ \A w \in Workers : Holding(query, partial[w], At(place, AtWorker(w)))
          /\ \A w \in Workers : Carrying(query, hand[w], At(place, AtHand(w)))
          /\ \A i \in 1..Len(channel) : Carrying(query, channel[i], At(place, AtChannel(received + i)))
          /\ outcome # "ok" => Collecting(query, merged, At(place, AtMerged))
          /\ outcome = "ok" => merged = NoGroups /\ Answering(query, answer, At(place, AtMerged))
        BY <2>1 DEF Traced, Placed
    <2>5. \A w \in Workers : GroupTable(partial[w])
        BY <2>4, TableOfAcc DEF Holding
    <2>6. GroupTable(merged)
        BY <2>3, <2>4, TableOfAcc, NoGroupsFacts DEF Collecting
    <2>7. ASSUME NEW b \in Partials \ {Error, NoBatch} PROVE Columns(b)
        <3>1. CASE \E w \in Workers : b = hand[w]
            <4>1. PICK w \in Workers : b = hand[w]
                BY <3>1
            <4>2. b \in AnyBatch(query) /\ b # Error
                BY <2>2, <2>7, <4>1 DEF ControlType
            <4> QED
                BY <2>2, <2>4, <4>1, <4>2, ColumnsCarried
        <3>2. CASE \E i \in DOMAIN channel : b = channel[i]
            <4> DEFINE S == AnyBatch(query)
            <4>1. PICK i \in DOMAIN channel : b = channel[i]
                BY <3>2
            <4>2. channel \in Seq(S)
                BY <2>2 DEF ControlType
            <4> HIDE DEF S
            <4>3. i \in 1..Len(channel) /\ channel[i] \in S
                BY <4>1, <4>2, LenProperties, ElementOfSeq
            <4>4. b \in AnyBatch(query) /\ b # Error
                BY <2>7, <4>1, <4>3 DEF S
            <4>5. Carrying(query, b, At(place, AtChannel(received + i)))
                BY <2>4, <4>1, <4>3
            <4> QED
                BY <2>2, <4>4, <4>5, ColumnsCarried
        <3> QED
            BY <2>7, <3>1, <3>2 DEF Partials, InChannel
    <2>8. answer = NoBatch \/ Columns(answer)
        <3>1. CASE outcome = "ok"
            <4>1. PICK R, n : BatchOf(query, answer, R, n) /\ DOMAIN answer = OutputColumns
                BY <1>1, <3>1, AnswerBatch
            <4> QED
                BY <2>3, <4>1, BatchColumns
        <3>2. CASE outcome # "ok"
            BY <2>2, <3>2 DEF ControlType
        <3> QED
            BY <3>1, <3>2
    <2> QED
        BY <2>2, <2>5, <2>6, <2>7, <2>8 DEF AggregateTypeOK, ControlType
<1> QED
    BY <1>1, AInvariance, PTL

\* The groups of the answer are groups of its rows.
LEMMA AnswerKeys ==
    ASSUME query \in QueryType, NEW b, NEW R \in SUBSET Matches, NEW n,
           BatchOf(query, b, R, n), Complete(query, b),
           KeysOf(b) = [i \in 1..n |-> BatchKey(query, b, i)],
           IF Grouped THEN NoEmptyRow(query, b, R, n) ELSE n = 1
    PROVE  /\ ToSet(KeysOf(b)) \subseteq GroupKeys
           /\ R = Matches => ToSet(KeysOf(b)) = GroupKeys
<1>1. ToSet(KeysOf(b)) = {BatchKey(query, b, i) : i \in 1..n}
    BY DEF ToSet
<1>2. \A r \in R : \E i \in 1..n : KeyIn(query, r) = BatchKey(query, b, i)
    BY DEF BatchOf
<1>3. CASE Grouped
    <2>1. GroupKeys = {Key(r) : r \in Matches}
        BY <1>3 DEF GroupKeys
    <2>2. \A i \in 1..n : \E r \in R : KeyIn(query, r) = BatchKey(query, b, i)
        BY <1>3 DEF NoEmptyRow
    <2> QED
        BY <1>1, <1>2, <2>1, <2>2, KeyFacts
<1>4. CASE ~ Grouped
    <2>1. GroupKeys = {<<>>} /\ n = 1
        BY <1>4 DEF GroupKeys
    <2>2. BatchKey(query, b, 1) = <<>>
        <3>1. BatchKey(query, b, 1) \in KeyType(query)
            BY <2>1 DEF BatchOf
        <3>2. Keyed(query, NoGroups.keys, 0)
            BY NoGroupsFacts DEF AccOf
        <3>3. \A k \in KeyType(query) : k = <<>>
            BY <1>4, <3>2, KeyedFacts DEF Grouped
        <3> QED
            BY <3>1, <3>3
    <2>3. \A i \in 1..1 : i = 1
        OBVIOUS
    <2>4. 1 \in 1..1
        OBVIOUS
    <2> QED
        BY <1>1, <2>1, <2>2, <2>3, <2>4
<1> QED
    BY <1>3, <1>4

\* The rows of entry g of the answer.
LEMMA MembersFacts ==
    ASSUME NEW R \in SUBSET Matches, NEW g
    PROVE  /\ InGroup(query, R, BatchKey(query, answer, g)) \subseteq Members(answer, g)
           /\ R = Matches => InGroup(query, R, BatchKey(query, answer, g)) = Members(answer, g)
<1>1. BatchKey(query, answer, g) = KeyAt(answer, g)
    BY DEF BatchKey, KeyAt
<1> QED
    BY <1>1, KeyFacts DEF InGroup, Members

\* However many workers panic and whatever LIMIT cuts off, the answer counts no row
\* twice and makes up no value.
THEOREM RealRows == AggregateSpec => []AnswerOfRealRows
<1>1. ASSUME AInv PROVE AnswerOfRealRows
    <2>1. SUFFICES ASSUME outcome = "ok" PROVE AnswerOfRealRows
        BY DEF AnswerOfRealRows
    <2>2. PICK R, n : /\ R \in SUBSET Matches /\ R \in SUBSET Rows /\ query \in QueryType
                      /\ BatchOf(query, answer, R, n)
                      /\ DOMAIN answer = OutputColumns /\ Complete(query, answer)
                      /\ NumRows(answer) = n /\ n \in Nat
                      /\ KeysOf(answer) = [i \in 1..n |-> BatchKey(query, answer, i)]
                      /\ IF Grouped THEN NoEmptyRow(query, answer, R, n) ELSE n = 1
        BY <1>1, <2>1, AnswerBatch
    <2>3. ToSet(KeysOf(answer)) \subseteq GroupKeys
        BY <2>2, AnswerKeys
    <2>4. ASSUME "count" \in Aggregates(query), NEW g \in 1..NumRows(answer)
          PROVE  LET rows == Members(answer, g)
                 IN /\ answer["count"][g] <= Cardinality(rows)
                    /\ answer["count"][g] > 0 =>
                          \A f \in Aggregates(query) \cap {"min", "max"} :
                              answer[f][g] \in {Val(r) : r \in rows}
        <3>1. PICK M : M = InGroup(query, R, BatchKey(query, answer, g))
            OBVIOUS
        <3>2. \A f \in Aggregates(query) : Output(query, f, answer[f][g], M)
            BY <2>2, <2>4, <3>1 DEF BatchOf
        <3>3. M \subseteq Members(answer, g) /\ M \in SUBSET Rows
            BY <2>2, <3>1, MembersFacts DEF InGroup
        <3>4. Members(answer, g) \in SUBSET Rows /\ IsFiniteSet(Members(answer, g))
            <4>1. ControlType
                BY <1>1 DEF AInv, Control
            <4>2. Members(answer, g) \subseteq Rows
                BY <4>1, MatchFacts DEF Members
            <4> QED
                BY <4>2, ValSum
        <3>5. answer["count"][g] = Cardinality(M)
            BY <2>4, <3>2 DEF Output
        <3>6. Cardinality(M) <= Cardinality(Members(answer, g))
            BY <3>3, <3>4, FS_Subset
        <3>7. ASSUME Cardinality(M) > 0, NEW f \in Aggregates(query) \cap {"min", "max"}
              PROVE  answer[f][g] \in {Val(r) : r \in Members(answer, g)}
            <4>1. M # {}
                BY <3>7, FS_EmptySet
            <4>2. answer[f][g] = Min(Vals(M)) \/ answer[f][g] = Max(Vals(M))
                BY <3>2, <3>7, <4>1 DEF Output
            <4>3. \E r \in M : answer[f][g] = Val(r)
                BY <3>3, <4>1, <4>2, RowExtremes
            <4> QED
                BY <3>3, <4>3
        <3> QED
            BY <3>5, <3>6, <3>7
    <2> QED
        BY <2>3, <2>4 DEF AnswerOfRealRows
<1> QED
    BY <1>1, AInvariance, PTL

\* Unless a worker has panicked or LIMIT cut something off, the answer has the
\* columns of the SELECT list, every group once, and the counts, minima, maxima and
\* averages of all their rows, however these fell to workers and batches.
THEOREM ExactAnswer == AggregateSpec => []AnswerExact
<1>1. ASSUME AInv PROVE AnswerExact
    <2>1. SUFFICES ASSUME outcome = "ok", NoPanic, LimitHarmless PROVE AnswerExact
        BY DEF AnswerExact
    <2>2. PICK R, n : /\ R \in SUBSET Matches /\ R \in SUBSET Rows /\ query \in QueryType
                      /\ BatchOf(query, answer, R, n)
                      /\ DOMAIN answer = OutputColumns /\ Complete(query, answer)
                      /\ NumRows(answer) = n /\ n \in Nat
                      /\ KeysOf(answer) = [i \in 1..n |-> BatchKey(query, answer, i)]
                      /\ IF Grouped THEN NoEmptyRow(query, answer, R, n) ELSE n = 1
                      /\ R = Matches /\ OutputColumns = Projections(query)
        BY <1>1, <2>1, AnswerBatch
    <2>3. ToSet(KeysOf(answer)) = GroupKeys
        BY <2>2, AnswerKeys
    <2>4. ASSUME NEW f \in Aggregates(query) \ {"sum"}, NEW g \in 1..NumRows(answer)
          PROVE  answer[f][g] = AggregateOver(f, Members(answer, g))
        <3>1. PICK M : M = Members(answer, g)
            OBVIOUS
        <3>2. M = InGroup(query, R, BatchKey(query, answer, g))
            BY <2>2, <3>1, MembersFacts
        <3>3. Output(query, f, answer[f][g], M)
            BY <2>2, <2>4, <3>2 DEF BatchOf
        <3>4. f \in AggFuncs /\ f # "sum"
            BY <2>2, SelectFacts
        <3>5. Vals(M) = {Val(r) : r \in M}
            BY DEF Vals
        <3>6. CASE f = "count"
            BY <3>1, <3>3, <3>6 DEF Output, AggregateOver
        <3>7. CASE f = "min"
            BY <3>1, <3>3, <3>5, <3>7 DEF Output, AggregateOver, Extreme
        <3>8. CASE f = "max"
            BY <3>1, <3>3, <3>5, <3>8 DEF Output, AggregateOver, Extreme
        <3>9. CASE f = "avg"
            BY <3>1, <3>3, <3>9 DEF Output, AggregateOver
        <3> QED
            BY <3>4, <3>6, <3>7, <3>8, <3>9 DEF AggFuncs
    <2> QED
        BY <2>2, <2>3, <2>4 DEF AnswerExact
<1> QED
    BY <1>1, AInvariance, PTL

\* SUM is the sum over all rows of a group, modulo 2^w in a build without overflow
\* checks, although workers wrap their parts of it and the merge wraps again.
THEOREM ExactSum == AggregateSpec => []SumExact
<1>1. ASSUME AInv PROVE SumExact
    <2>1. SUFFICES ASSUME outcome = "ok", NoPanic, LimitHarmless, "sum" \in Aggregates(query),
                          NEW g \in DOMAIN answer["sum"]
                   PROVE  LET sum == SumOfVals(Members(answer, g))
                          IN answer["sum"][g] = IF query.checked THEN sum ELSE Wrapped(sum)
        BY DEF SumExact
    <2>2. PICK R, n : /\ R \in SUBSET Matches /\ R \in SUBSET Rows /\ query \in QueryType
                      /\ BatchOf(query, answer, R, n)
                      /\ DOMAIN answer = OutputColumns /\ Complete(query, answer)
                      /\ R = Matches /\ OutputColumns = Projections(query)
        BY <1>1, <2>1, AnswerBatch
    <2>3. PICK M : M = Members(answer, g)
        OBVIOUS
    <2>4. M = InGroup(query, R, BatchKey(query, answer, g))
        BY <2>2, <2>3, MembersFacts
    <2>5. g \in 1..n
        <3>1. answer["sum"] \in Seq(Value) /\ Len(answer["sum"]) = n
            BY <2>1, <2>2 DEF BatchOf, Complete
        <3> DEFINE V == Value
                   s == answer["sum"]
        <3> HIDE DEF V, s
        <3>2. s \in Seq(V) /\ Len(s) = n /\ g \in DOMAIN s
            BY <2>1, <3>1 DEF V, s
        <3> QED
            BY <3>2, LenProperties
    <2>6. Held(query, answer["sum"][g], M)
        <3>1. Output(query, "sum", answer["sum"][g], M)
            BY <2>1, <2>2, <2>4, <2>5 DEF BatchOf
        <3> QED
            BY <3>1 DEF Output
    <2>7. M \in SUBSET Rows
        BY <2>2, <2>4 DEF InGroup
    <2>8. SumOfVals(M) \in Int
        BY <2>7, ValSum
    <2> QED
        BY <2>3, <2>6, <2>8, WrappedUnique DEF Held
<1> QED
    BY <1>1, AInvariance, PTL
-----------------------------------------------------------------------------
(***************************************************************************)
(* Counting                                                                *)
(***************************************************************************)
\* What a batch has counted for a group is how many of its rows are in it.
LEMMA Counted ==
    ASSUME query \in QueryType, "count" \in Aggregates(query),
           NEW b, NEW R \in SUBSET Rows, NEW n, BatchOf(query, b, R, n), Complete(query, b), NEW key
    PROVE  CountOf(b, key) = Cardinality(InGroup(query, R, key))
<1> DEFINE D == {g \in 1..NumRows(b) : KeyAt(b, g) = key}
           col == b["count"]
<1>1. NumRows(b) = n
    <2>1. DOMAIN b # {}
        BY DEF Complete
    <2> QED
        BY <2>1, RowCount
<1>2. \A g : KeyAt(b, g) = BatchKey(query, b, g)
    BY DEF KeyAt, BatchKey
<1>3. /\ \A i, j \in 1..n : BatchKey(query, b, i) = BatchKey(query, b, j) => i = j
      /\ \A r \in R : \E i \in 1..n : KeyIn(query, r) = BatchKey(query, b, i)
      /\ \A i \in 1..n : Output(query, "count", col[i], InGroup(query, R, BatchKey(query, b, i)))
    BY DEF BatchOf
<1>4. CountOf(b, key) = SumFunctionOnSet(col, D)
    BY DEF CountOf, SumOver
<1>5. \A g : g \in D <=> g \in 1..n /\ BatchKey(query, b, g) = key
    BY <1>1, <1>2
<1> HIDE DEF D, col
<1>6. CASE D = {}
    <2>1. InGroup(query, R, key) = {}
        BY <1>3, <1>5, <1>6 DEF InGroup
    <2> QED
        BY <1>4, <1>6, <2>1, SumEmpty, FS_EmptySet
<1>7. CASE D # {}
    <2>1. PICK g : g \in D
        BY <1>7
    <2>2. D = {g}
        BY <1>3, <1>5, <2>1
    <2>3. col[g] = Cardinality(InGroup(query, R, key))
        BY <1>3, <1>5, <2>1 DEF Output
    <2>4. col[g] \in Int
        <3>1. InGroup(query, R, key) \in SUBSET Rows
            BY DEF InGroup
        <3> QED
            BY <2>3, <3>1, ValSum
    <2> QED
        BY <1>4, <2>2, <2>3, <2>4, SumSingleton
<1> QED
    BY <1>6, <1>7

\* The rows of the group key that are in one of the places y(x).
Of(key, place, Y) == {r \in InGroup(query, DOMAIN place, key) : place[r] \in Y}

\* f is the counts for the group key of the places y[x], which are all different
\* and together Y.
CountsOf(f, key, place, X, y, Y) ==
    /\ IsFiniteSet(X) /\ DOMAIN f = X
    /\ \A u, v \in X : u # v => y[u] # y[v]
    /\ \A x \in X : f[x] = Cardinality(InGroup(query, At(place, y[x]), key))
    /\ \A z : z \in Y <=> \E x \in X : z = y[x]

\* Counts of different places add up.
LEMMA PlacesAdd ==
    ASSUME NEW place, DOMAIN place \in SUBSET Rows, NEW key, NEW f, NEW X, NEW y, NEW Y,
           CountsOf(f, key, place, X, y, Y)
    PROVE  SumFunction(f) = Cardinality(Of(key, place, Y))
<1>0. /\ IsFiniteSet(X) /\ DOMAIN f = X
      /\ \A u, v \in X : u # v => y[u] # y[v]
      /\ \A x \in X : f[x] = Cardinality(InGroup(query, At(place, y[x]), key))
      /\ \A z : z \in Y <=> \E x \in X : z = y[x]
    BY DEF CountsOf
<1> DEFINE S == [x \in X |-> InGroup(query, At(place, y[x]), key)]
           R == Of(key, place, Y)
<1>1. \A x \in X : IsFiniteSet(S[x]) /\ f[x] = Cardinality(S[x])
    <2> SUFFICES ASSUME NEW x \in X PROVE IsFiniteSet(S[x]) /\ f[x] = Cardinality(S[x])
        OBVIOUS
    <2>1. S[x] \in SUBSET Rows
        BY DEF InGroup, At
    <2>2. IsFiniteSet(S[x])
        BY <2>1, ValSum
    <2> QED
        BY <1>0, <2>2
<1>2. \A u, v \in X : u # v => S[u] \cap S[v] = {}
    BY <1>0 DEF InGroup, At
<1>3. Joins(R, S, X)
    BY <1>0 DEF Joins, Of, InGroup, At
<1> HIDE DEF S, R
<1>4. SumFunctionOnSet(f, X) = Cardinality(R)
    <2>0. IsFiniteSet(X)
        BY <1>0
    <2>1. PICK T : T = S
        OBVIOUS
    <2>2. \A x \in X : IsFiniteSet(T[x]) /\ f[x] = Cardinality(T[x])
        BY <1>1, <2>1
    <2>3. \A u, v \in X : u # v => T[u] \cap T[v] = {}
        BY <1>2, <2>1
    <2>4. Joins(R, T, X)
        BY <1>3, <2>1
    <2> QED
        BY <2>0, <2>2, <2>3, <2>4, SumOfSizes
<1> QED
    BY <1>0, <1>4 DEF SumFunction, R

\* Four sets of places that share none.
LEMMA FourAdd ==
    ASSUME NEW A, NEW B, NEW C, NEW D, A \in SUBSET Rows, B \in SUBSET Rows,
           C \in SUBSET Rows, D \in SUBSET Rows,
           A \cap B = {}, A \cap C = {}, A \cap D = {}, B \cap C = {}, B \cap D = {}, C \cap D = {}
    PROVE  Cardinality(A) + Cardinality(B) + Cardinality(C) + Cardinality(D)
           = Cardinality(A \cup B \cup C \cup D)
<1>1. IsFiniteSet(A) /\ IsFiniteSet(B) /\ IsFiniteSet(C) /\ IsFiniteSet(D)
    BY ValSum
<1>2. \A S, T : IsFiniteSet(S) /\ IsFiniteSet(T) /\ S \cap T = {} =>
          /\ IsFiniteSet(S \cup T) /\ Cardinality(S) \in Nat /\ Cardinality(T) \in Nat
          /\ Cardinality(S \cup T) = Cardinality(S) + Cardinality(T)
    <2> SUFFICES ASSUME NEW S, NEW T, IsFiniteSet(S), IsFiniteSet(T), S \cap T = {}
                 PROVE  /\ IsFiniteSet(S \cup T) /\ Cardinality(S) \in Nat /\ Cardinality(T) \in Nat
                        /\ Cardinality(S \cup T) = Cardinality(S) + Cardinality(T)
        OBVIOUS
    <2>1. Cardinality(S \cup T) = Cardinality(S) + Cardinality(T) - Cardinality(S \cap T)
        BY FS_Union
    <2>2. Cardinality(S \cap T) = 0
        BY FS_EmptySet
    <2>3. Cardinality(S) \in Nat /\ Cardinality(T) \in Nat /\ IsFiniteSet(S \cup T)
        BY FS_CardinalityType, FS_Union
    <2> QED
        BY <2>1, <2>2, <2>3
<1>3. /\ IsFiniteSet(A \cup B) /\ Cardinality(A) \in Nat /\ Cardinality(B) \in Nat
      /\ Cardinality(A \cup B) = Cardinality(A) + Cardinality(B)
    BY <1>1, <1>2
<1>4. /\ IsFiniteSet(A \cup B \cup C) /\ Cardinality(C) \in Nat
      /\ Cardinality(A \cup B \cup C) = Cardinality(A \cup B) + Cardinality(C)
    <2>1. (A \cup B) \cap C = {}
        OBVIOUS
    <2> QED
        BY <1>1, <1>2, <1>3, <2>1
<1>5. /\ Cardinality(D) \in Nat
      /\ Cardinality(A \cup B \cup C \cup D) = Cardinality(A \cup B \cup C) + Cardinality(D)
    <2>1. (A \cup B \cup C) \cap D = {}
        OBVIOUS
    <2> QED
        BY <1>1, <1>2, <1>4, <2>1
<1> QED
    BY <1>3, <1>4, <1>5

\* The counts of all places make up the rows that have been read: those of one
\* group, while the query runs.
LEMMA CountsAddUp ==
    ASSUME AInv, "count" \in Aggregates(query), query.groupBy \subseteq Projections(query),
           consumer = "pulling", Error \notin Partials, NoPanic, LimitHarmless,
           NEW key,
           NEW sending, sending = {w \in Workers : hand[w] # NoBatch},
           NEW inPartials, inPartials = [w \in Workers |-> CountOf(OutputBatch(partial[w]), key)],
           NEW inHands, inHands = [w \in sending |-> CountOf(hand[w], key)],
           NEW inChannel, inChannel = [i \in DOMAIN channel |-> CountOf(channel[i], key)]
    PROVE  CountOf(OutputBatch(merged), key)
               + SumFunction(inPartials) + SumFunction(inHands) + SumFunction(inChannel)
           = Cardinality({r \in ReadRows : Key(r) = key})
<1>1. PICK place, received : Traced(place, received)
    BY DEF AInv, Traced
<1>2. Control /\ ControlType /\ query \in QueryType /\ outcome = "none"
    BY BatchFacts DEF AInv, Control, Stages
<1>3. /\ received \in Nat
      /\ DOMAIN place = Matches
      /\ \A w \in Workers : Holding(query, partial[w], At(place, AtWorker(w)))
      /\ \A w \in Workers : Carrying(query, hand[w], At(place, AtHand(w)))
      /\ \A i \in 1..Len(channel) : Carrying(query, channel[i], At(place, AtChannel(received + i)))
      /\ Collecting(query, merged, At(place, AtMerged))
      /\ \A r \in Matches : place[r] # Unread => r \in ReadRows
    BY <1>1, <1>2 DEF Traced, Placed
<1>4. DOMAIN place \in SUBSET Rows /\ \A y : At(place, y) \in SUBSET Rows
    BY <1>1, <1>2, <1>3, MatchFacts DEF At
<1>5. DOMAIN channel = 1..Len(channel) /\ Len(channel) \in Nat
      /\ \A i \in DOMAIN channel : channel[i] \in AnyBatch(query)
    <2> DEFINE S == AnyBatch(query)
    <2>1. channel \in Seq(S)
        BY <1>2 DEF ControlType
    <2> HIDE DEF S
    <2>2. /\ DOMAIN channel = 1..Len(channel) /\ Len(channel) \in Nat
          /\ \A i \in DOMAIN channel : channel[i] \in S
        BY <2>1, LenProperties, ElementOfSeq
    <2> QED
        BY <2>2 DEF S
<1>6. ~ Failed
    <2>1. \A w \in Workers : hand[w] # Error
        BY DEF Partials
    <2>2. \A i \in DOMAIN channel : channel[i] # Error
        BY DEF Partials, InChannel
    <2> QED
        BY <2>1, <2>2, FailedFacts
\* One place at a time.
<1>7. ASSUME NEW acc, NEW R \in SUBSET Rows, NEW n, AccOf(query, acc, R, n)
      PROVE  CountOf(OutputBatch(acc), key) = Cardinality(InGroup(query, R, key))
    <2>1. BatchOf(query, OutputBatch(acc), R, n) /\ DOMAIN OutputBatch(acc) = OutputColumns
        BY <1>2, <1>7, OutputOfAcc
    <2>2. Complete(query, OutputBatch(acc))
        BY <2>1 DEF Complete, OutputColumns
    <2> QED
        BY <1>2, <1>7, <2>1, <2>2, Counted
<1>8. ASSUME NEW b, b \in AnyBatch(query), b # Error, NEW R \in SUBSET Rows, Carrying(query, b, R)
      PROVE  CountOf(b, key) = Cardinality(InGroup(query, R, key))
    <2>1. b \in AggregateBatch(Projections(query)) /\ b # NoBatch
        BY <1>2, <1>8, BatchFacts DEF AnyBatch
    <2>2. PICK n : BatchOf(query, b, R, n)
        BY <1>8, <2>1 DEF Carrying
    <2>3. DOMAIN b = Projections(query)
        BY <2>1 DEF AggregateBatch
    <2>4. Complete(query, b)
        BY <1>2, <2>3, SelectFacts DEF Complete
    <2> QED
        BY <1>2, <1>8, <2>2, <2>4, Counted
<1> DEFINE YM == {AtMerged}
           YW == {AtWorker(w) : w \in Workers}
           YH == {AtHand(w) : w \in sending}
           YC == {AtChannel(received + i) : i \in DOMAIN channel}
           M == Of(key, place, YM)
           W == Of(key, place, YW)
           H == Of(key, place, YH)
           C == Of(key, place, YC)
<1>9. CountOf(OutputBatch(merged), key) = Cardinality(M)
    <2>1. PICK n : AccOf(query, merged, At(place, AtMerged), n)
        BY <1>3 DEF Collecting
    <2>2. M = InGroup(query, At(place, AtMerged), key)
        BY DEF Of, InGroup, At
    <2> HIDE DEF M
    <2> QED
        BY <1>4, <1>7, <2>1, <2>2
<1>10. SumFunction(inPartials) = Cardinality(W)
    <2> DEFINE y == [w \in Workers |-> AtWorker(w)]
    <2>1. \A w \in Workers : inPartials[w] = Cardinality(InGroup(query, At(place, y[w]), key))
        <3> SUFFICES ASSUME NEW w \in Workers
                     PROVE  inPartials[w] = Cardinality(InGroup(query, At(place, AtWorker(w)), key))
            OBVIOUS
        <3>1. PICK n : AccOf(query, partial[w], At(place, AtWorker(w)), n)
            BY <1>3 DEF Holding
        <3>2. CountOf(OutputBatch(partial[w]), key) = Cardinality(InGroup(query, At(place, AtWorker(w)), key))
            BY <1>4, <1>7, <3>1
        <3> QED
            BY <3>2
    <2>2. \A v, w \in Workers : v # w => y[v] # y[w]
        BY Places
    <2>3. \A z : z \in YW <=> \E w \in Workers : z = y[w]
        OBVIOUS
    <2>4. DOMAIN inPartials = Workers /\ IsFiniteSet(Workers)
        BY QueryAssumption
    <2> HIDE DEF y, YW
    <2>5. CountsOf(inPartials, key, place, Workers, y, YW)
        BY <2>1, <2>2, <2>3, <2>4 DEF CountsOf
    <2> QED
        BY <1>4, <2>5, PlacesAdd
<1>11. SumFunction(inHands) = Cardinality(H)
    <2> DEFINE y == [w \in sending |-> AtHand(w)]
    <2>1. \A w \in sending : inHands[w] = Cardinality(InGroup(query, At(place, y[w]), key))
        <3> SUFFICES ASSUME NEW w \in sending
                     PROVE  inHands[w] = Cardinality(InGroup(query, At(place, AtHand(w)), key))
            OBVIOUS
        <3>1. w \in Workers /\ hand[w] # NoBatch
            OBVIOUS
        <3>2. hand[w] \in AnyBatch(query) /\ hand[w] # Error
            BY <1>2, <3>1 DEF ControlType, Partials
        <3>3. CountOf(hand[w], key) = Cardinality(InGroup(query, At(place, AtHand(w)), key))
            BY <1>3, <1>4, <1>8, <3>1, <3>2
        <3> QED
            BY <3>3
    <2>2. \A v, w \in sending : v # w => y[v] # y[w]
        BY Places
    <2>3. \A z : z \in YH <=> \E w \in sending : z = y[w]
        OBVIOUS
    <2>4. DOMAIN inHands = sending /\ IsFiniteSet(sending)
        BY QueryAssumption, FS_Subset
    <2> HIDE DEF y, YH
    <2>5. CountsOf(inHands, key, place, sending, y, YH)
        BY <2>1, <2>2, <2>3, <2>4 DEF CountsOf
    <2> QED
        BY <1>4, <2>5, PlacesAdd
<1>12. SumFunction(inChannel) = Cardinality(C)
    <2> DEFINE y == [i \in DOMAIN channel |-> AtChannel(received + i)]
    <2>1. \A i \in DOMAIN channel : inChannel[i] = Cardinality(InGroup(query, At(place, y[i]), key))
        <3> SUFFICES ASSUME NEW i \in DOMAIN channel
                     PROVE  inChannel[i] = Cardinality(InGroup(query, At(place, AtChannel(received + i)), key))
            OBVIOUS
        <3>1. channel[i] \in AnyBatch(query) /\ channel[i] # Error
            BY <1>5 DEF Partials, InChannel
        <3>2. Carrying(query, channel[i], At(place, AtChannel(received + i)))
            BY <1>3, <1>5
        <3>3. CountOf(channel[i], key) = Cardinality(InGroup(query, At(place, AtChannel(received + i)), key))
            BY <1>4, <1>8, <3>1, <3>2
        <3> QED
            BY <3>3
    <2>2. \A i, j \in DOMAIN channel : i # j => y[i] # y[j]
        <3> SUFFICES ASSUME NEW i \in DOMAIN channel, NEW j \in DOMAIN channel, i # j
                     PROVE  AtChannel(received + i) # AtChannel(received + j)
            OBVIOUS
        <3>1. i \in Int /\ j \in Int
            BY <1>5
        <3>2. received + i # received + j
            BY <1>3, <3>1
        <3> QED
            BY <3>2, Places
    <2>3. \A z : z \in YC <=> \E i \in DOMAIN channel : z = y[i]
        OBVIOUS
    <2>4. DOMAIN inChannel = DOMAIN channel /\ IsFiniteSet(DOMAIN channel)
        BY <1>5, UpTo
    <2> HIDE DEF y, YC
    <2>5. CountsOf(inChannel, key, place, DOMAIN channel, y, YC)
        BY <2>1, <2>2, <2>3, <2>4 DEF CountsOf
    <2> QED
        BY <1>4, <2>5, PlacesAdd
\* All places.
<1>13. {r \in ReadRows : Key(r) = key} = M \cup W \cup H \cup C
    <2>1. ASSUME NEW r \in ReadRows, Key(r) = key
          PROVE  r \in M \cup W \cup H \cup C
        <3>1. r \in Matches /\ r \in InGroup(query, DOMAIN place, key)
            BY <1>3, <2>1, KeyFacts DEF ReadRows, InGroup
        <3>2. InPlace(place, received, r)
            BY <1>1, <1>2, <1>6 DEF Traced, Accounted
        <3>3. \A w \in Workers : pc[w] = "send" => w \in sending
            BY <1>2 DEF Control, Stages
        <3>4. place[r] \in YM \cup YW \cup YH \cup YC
            BY <1>5, <3>2, <3>3 DEF InPlace
        <3> QED
            BY <3>1, <3>4 DEF Of
    <2>2. ASSUME NEW r \in M \cup W \cup H \cup C
          PROVE  r \in ReadRows /\ Key(r) = key
        <3>1. r \in InGroup(query, DOMAIN place, key) /\ place[r] \in YM \cup YW \cup YH \cup YC
            BY <2>2 DEF Of
        <3>2. place[r] # Unread
            BY <3>1, Places
        <3> QED
            BY <1>3, <3>1, <3>2, KeyFacts DEF InGroup
    <2> HIDE DEF M, W, H, C
    <2> QED
        BY <2>1, <2>2
<1>14. /\ YM \cap YW = {} /\ YM \cap YH = {} /\ YM \cap YC = {}
       /\ YW \cap YH = {} /\ YW \cap YC = {} /\ YH \cap YC = {}
    BY Places
<1> HIDE DEF YM, YW, YH, YC
<1>15. /\ M \in SUBSET Rows /\ W \in SUBSET Rows /\ H \in SUBSET Rows /\ C \in SUBSET Rows
       /\ M \cap W = {} /\ M \cap H = {} /\ M \cap C = {}
       /\ W \cap H = {} /\ W \cap C = {} /\ H \cap C = {}
    BY <1>4, <1>14 DEF Of, InGroup
<1> HIDE DEF M, W, H, C
<1>16. Cardinality(M) + Cardinality(W) + Cardinality(H) + Cardinality(C)
       = Cardinality(M \cup W \cup H \cup C)
    BY <1>15, FourAdd
<1> QED
    BY <1>9, <1>10, <1>11, <1>12, <1>13, <1>16

\* While the query runs without an error, every row that was read is counted in
\* exactly one place: a worker, a batch on its way or the merge.
THEOREM Conserved == AggregateSpec => []CountsConserved
<1>1. ASSUME AInv PROVE CountsConserved
    <2>1. SUFFICES ASSUME "count" \in Aggregates(query), query.groupBy \subseteq Projections(query),
                          consumer = "pulling", Error \notin Partials, NoPanic, LimitHarmless,
                          NEW key \in GroupKeys
                   PROVE  LET inPartials == [w \in Workers |-> CountOf(OutputBatch(partial[w]), key)]
                              sending == {w \in Workers : hand[w] # NoBatch}
                              inHands == [w \in sending |-> CountOf(hand[w], key)]
                              inChannel == [i \in DOMAIN channel |-> CountOf(channel[i], key)]
                          IN CountOf(OutputBatch(merged), key)
                             + SumFunction(inPartials) + SumFunction(inHands) + SumFunction(inChannel)
                             = Cardinality({r \in ReadRows : Key(r) = key})
        BY DEF CountsConserved
    <2> DEFINE sending == {w \in Workers : hand[w] # NoBatch}
               inPartials == [w \in Workers |-> CountOf(OutputBatch(partial[w]), key)]
               inHands == [w \in sending |-> CountOf(hand[w], key)]
               inChannel == [i \in DOMAIN channel |-> CountOf(channel[i], key)]
    <2>2. PICK s : s = sending
        OBVIOUS
    <2>3. PICK p : p = inPartials
        OBVIOUS
    <2>4. PICK h : h = inHands
        OBVIOUS
    <2>5. PICK c : c = inChannel
        OBVIOUS
    <2>6. h = [w \in s |-> CountOf(hand[w], key)]
        BY <2>2, <2>4
    <2>7. CountOf(OutputBatch(merged), key) + SumFunction(p) + SumFunction(h) + SumFunction(c)
          = Cardinality({r \in ReadRows : Key(r) = key})
        BY <1>1, <2>1, <2>2, <2>3, <2>5, <2>6, CountsAddUp
    <2> QED
        BY <2>2, <2>3, <2>4, <2>5, <2>7
<1> QED
    BY <1>1, AInvariance, PTL
=============================================================================
