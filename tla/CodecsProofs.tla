---------------------------- MODULE CodecsProofs ----------------------------
(***************************************************************************)
(* Proofs about Codecs, for values of any width, runs and dictionaries of  *)
(* any length and blocks of any size.                                      *)
(***************************************************************************)
EXTENDS Codecs, SequenceTheorems, TLAPS

-----------------------------------------------------------------------------
(***************************************************************************)
(* What an encoded stream looks like.  j is a job, o the fields written, e *)
(* the history of where runs or strings end.                               *)
(***************************************************************************)
RowOf(j, i) == IF j.text THEN j.values[i] ELSE EncodeLe(j.values[i])

\* Run or string k starts behind this row or field.
From(b, e, k) == IF k = 1 THEN b ELSE e[k - 1]

\* The first m rows as a first value and differences.
DeltaRows(j, o, m) ==
    /\ Len(o) = m
    /\ \A i \in 1..m : o[i] = IF i = 1 THEN RowOf(j, 1)
                              ELSE WrappingSub(RowOf(j, i), RowOf(j, i - 1))

\* The first m rows as pairs of a counter and a value.
RunRows(j, o, e, m) ==
    /\ Len(o) = 2 * Len(e)
    /\ From(0, e, Len(e) + 1) = m
    /\ \A k \in 1..Len(e) :
          /\ From(0, e, k) < e[k] /\ e[k] <= Len(j.values)
          /\ o[2 * k - 1] = e[k] - From(0, e, k)
          /\ \A i \in (From(0, e, k) + 1)..e[k] : RowOf(j, i) = o[2 * k]

\* The first m strings behind field b, each with its length in front.
Frame(s, start, o) == /\ o[start + 1] = Len(s)
                      /\ \A i \in 1..Len(s) : o[start + 1 + i] = s[i]

Frames(strs, b, o, e, m) ==
    /\ Len(e) = m
    /\ \A k \in 1..m : /\ e[k] = From(b, e, k) + 1 + Len(strs[k])
                       /\ e[k] <= Len(o)
                       /\ Frame(strs[k], From(b, e, k), o)

\* The first m rows as indices behind field b.
IndexRows(j, d, o, b, m) ==
    \A i \in 1..m : /\ o[b + i] < Len(d)
                    /\ d[o[b + i] + 1] = j.values[i]

IsPlain(j) == ~ j.text /\ j.codec = "Plain"
IsDelta(j) == ~ j.text /\ j.codec = "Delta"
IsRLE(j) == ~ j.text /\ j.codec = "RLE"
IsStrings(j) == j.text /\ j.codec = "Plain"
IsDictionary(j) == j.text /\ j.codec = "Dictionary"

DictEnd(d, e) == From(1, e, Len(d) + 1)

Encoded(j, d, o, e) ==
    LET n == Len(j.values) IN
    /\ IsPlain(j) => Len(o) = n /\ \A i \in 1..n : o[i] = RowOf(j, i)
    /\ IsDelta(j) => DeltaRows(j, o, n)
    /\ IsRLE(j) => RunRows(j, o, e, n)
    /\ IsStrings(j) => /\ Frames(j.values, 0, o, e, n)
                       /\ Len(o) = From(0, e, n + 1)
    /\ IsDictionary(j) => /\ o[1] = Len(d)
                          /\ Frames(d, 1, o, e, Len(d))
                          /\ Len(o) = DictEnd(d, e) + n
                          /\ IndexRows(j, d, o, DictEnd(d, e), n)

-----------------------------------------------------------------------------
(***************************************************************************)
(* Values                                                                  *)
(***************************************************************************)
LEMMA Wraps ==
    ASSUME NEW a \in Raw, NEW b \in Raw
    PROVE  /\ WrappingSub(a, b) \in Raw
           /\ WrappingAdd(b, WrappingSub(a, b)) = a
BY CodecsAssumption, SMT DEF Raw, Modulus, WrappingSub, WrappingAdd

LEMMA LittleEndian ==
    ASSUME NEW s \in BOOLEAN, NEW v \in Typed(s)
    PROVE  /\ EncodeLe(v) \in Raw
           /\ DecodeLe(s, EncodeLe(v)) = v
BY CodecsAssumption, SMT DEF Raw, Typed, Modulus, EncodeLe, DecodeLe

LEMMA JobFacts ==
    ASSUME NEW j \in Jobs
    PROVE  /\ j.text \in BOOLEAN
           /\ Len(j.values) \in Nat
           /\ IsPlain(j) \/ IsDelta(j) \/ IsRLE(j) \/ IsStrings(j) \/ IsDictionary(j)
           /\ FromTag(j.text, Tag(j.codec)) = j.codec
           /\ Tag(j.codec) \in 0..2
           /\ j.text => /\ j.values \in Seq(String)
                        /\ \A i \in 1..Len(j.values) : RowOf(j, i) = j.values[i]
                        /\ \A i \in 1..Len(j.values) : RowOf(j, i) \in String
           /\ ~ j.text => /\ \A i \in 1..Len(j.values) : RowOf(j, i) \in Raw
                          /\ \A i \in 1..Len(j.values) :
                                DecodeLe(j.signed, RowOf(j, i)) = j.values[i]
<1>1. j \in JobType
    BY CodecsAssumption
<1>2. CASE j \in TextJob
    <2>1. /\ j.text = TRUE
          /\ j.codec \in {"Plain", "Dictionary"}
          /\ j.values \in Seq(String)
        BY <1>2 DEF TextJob
    <2>2. /\ Len(j.values) \in Nat
          /\ \A i \in 1..Len(j.values) : j.values[i] \in String
        BY <2>1, LenProperties, ElementOfSeq
    <2>3. \A i \in 1..Len(j.values) : RowOf(j, i) = j.values[i]
        BY <2>1 DEF RowOf
    <2>4. FromTag(j.text, Tag(j.codec)) = j.codec /\ Tag(j.codec) \in 0..2
        BY <2>1, SMT DEF FromTag, Tag
    <2>5. IsStrings(j) \/ IsDictionary(j)
        BY <2>1 DEF IsStrings, IsDictionary
    <2>6. \A i \in 1..Len(j.values) : RowOf(j, i) \in String
        BY <2>2, <2>3
    <2>7. j.text /\ j.text \in BOOLEAN
        BY <2>1
    <2> QED
        BY <2>1, <2>2, <2>3, <2>4, <2>5, <2>6, <2>7, Zenon
<1>3. ASSUME NEW s \in BOOLEAN, j \in NumericJob(s)
      PROVE  /\ j.text = FALSE
             /\ j.codec \in {"Plain", "Delta", "RLE"}
             /\ Len(j.values) \in Nat
             /\ \A i \in 1..Len(j.values) : RowOf(j, i) \in Raw
             /\ \A i \in 1..Len(j.values) : DecodeLe(j.signed, RowOf(j, i)) = j.values[i]
    <2>1. /\ j.text = FALSE
          /\ j.codec \in {"Plain", "Delta", "RLE"}
          /\ j.signed = s
          /\ j.values \in Seq(Typed(s))
        BY <1>3 DEF NumericJob
    <2>2. /\ Len(j.values) \in Nat
          /\ \A i \in 1..Len(j.values) : j.values[i] \in Typed(s)
        BY <2>1, LenProperties, ElementOfSeq
    <2>3. \A i \in 1..Len(j.values) : RowOf(j, i) = EncodeLe(j.values[i])
        BY <2>1 DEF RowOf
    <2> QED
        BY <2>1, <2>2, <2>3, LittleEndian
<1>4. CASE ~ (j \in TextJob)
    <2>1. PICK s \in BOOLEAN : j \in NumericJob(s)
        BY <1>1, <1>4 DEF JobType
    <2>2. j.text = FALSE /\ j.codec \in {"Plain", "Delta", "RLE"}
        BY <2>1, <1>3
    <2>3. FromTag(j.text, Tag(j.codec)) = j.codec /\ Tag(j.codec) \in 0..2
        BY <2>2, SMT DEF FromTag, Tag
    <2>4. IsPlain(j) \/ IsDelta(j) \/ IsRLE(j)
        BY <2>2 DEF IsPlain, IsDelta, IsRLE
    <2>5. ~ j.text /\ j.text \in BOOLEAN
        BY <2>2
    <2> QED
        BY <2>1, <2>3, <2>4, <2>5, <1>3, Zenon
<1> QED
    BY <1>2, <1>4

-----------------------------------------------------------------------------
(***************************************************************************)
(* Streams that grow                                                       *)
(***************************************************************************)
\* o2 starts with all that o has.
Extends(o2, o) == /\ Len(o) <= Len(o2)
                  /\ \A i \in 1..Len(o) : o2[i] = o[i]

LEMMA FromType ==
    ASSUME NEW b \in Nat, NEW e \in Seq(Nat), NEW k \in 1..(Len(e) + 1)
    PROVE  From(b, e, k) \in Nat
<1>1. Len(e) \in Nat
    BY LenProperties
<1>2. CASE k = 1
    BY <1>2 DEF From
<1>3. CASE k # 1
    <2>1. k - 1 \in 1..Len(e)
        BY <1>1, <1>3, SMT
    <2>2. e[k - 1] \in Nat
        BY <2>1, ElementOfSeq
    <2> QED
        BY <1>3, <2>2 DEF From
<1> QED
    BY <1>2, <1>3

LEMMA FromExtends ==
    ASSUME NEW b \in Nat, NEW e \in Seq(Nat), NEW e2 \in Seq(Nat), Extends(e2, e),
           NEW k \in 1..(Len(e) + 1)
    PROVE  From(b, e2, k) = From(b, e, k)
<1>1. Len(e) \in Nat
    BY LenProperties
<1>2. CASE k # 1
    <2>1. k - 1 \in 1..Len(e)
        BY <1>1, <1>2, SMT
    <2> QED
        BY <1>2, <2>1 DEF From, Extends
<1> QED
    BY <1>2 DEF From

LEMMA Appended ==
    ASSUME NEW S, NEW o \in Seq(S), NEW x \in S
    PROVE  /\ Append(o, x) \in Seq(S)
           /\ Len(Append(o, x)) = Len(o) + 1
           /\ Append(o, x)[Len(o) + 1] = x
           /\ Extends(Append(o, x), o)
<1>1. Len(o) \in Nat
    BY LenProperties
<1>2. /\ Append(o, x) \in Seq(S)
      /\ Len(Append(o, x)) = Len(o) + 1
      /\ Append(o, x)[Len(o) + 1] = x
      /\ \A i \in 1..Len(o) : Append(o, x)[i] = o[i]
    BY AppendProperties
<1> QED
    BY <1>1, <1>2, SMT DEF Extends

LEMMA Concatenated ==
    ASSUME NEW S, NEW o \in Seq(S), NEW p \in Seq(S)
    PROVE  /\ o \o p \in Seq(S)
           /\ Len(o \o p) = Len(o) + Len(p)
           /\ \A i \in 1..Len(p) : (o \o p)[Len(o) + i] = p[i]
           /\ Extends(o \o p, o)
<1>1. Len(o) \in Nat /\ Len(p) \in Nat
    BY LenProperties
<1>2. /\ o \o p \in Seq(S)
      /\ Len(o \o p) = Len(o) + Len(p)
      /\ \A i \in 1..(Len(o) + Len(p)) :
            (o \o p)[i] = IF i <= Len(o) THEN o[i] ELSE p[i - Len(o)]
    BY ConcatProperties
<1> DEFINE c == o \o p
<1>3. /\ Len(c) = Len(o) + Len(p)
      /\ \A i \in 1..(Len(o) + Len(p)) :
            c[i] = IF i <= Len(o) THEN o[i] ELSE p[i - Len(o)]
    BY <1>2
<1> HIDE DEF c
<1>4. \A i \in 1..Len(p) : c[Len(o) + i] = p[i]
    BY <1>1, <1>3, SMT
<1>5. Extends(c, o)
    BY <1>1, <1>3, SMT DEF Extends
<1> QED
    BY <1>2, <1>4, <1>5 DEF c

LEMMA StringType ==
    ASSUME NEW s \in String
    PROVE  s \in Seq(Bytes) /\ s \in Seq(Nat) /\ Len(s) \in Nat
<1>1. s \in Seq(Bytes)
    BY DEF String
<1>2. Len(s) \in Nat /\ s \in [1..Len(s) -> Bytes]
    BY <1>1, LenProperties
<1>3. \A i \in 1..Len(s) : s[i] \in Nat
    <2>1. Bytes \subseteq Nat
        BY CodecsAssumption, SMT
    <2> QED
        BY <1>2, <2>1
<1>4. SubSeq(s, 1, Len(s)) \in Seq(Nat)
    BY <1>2, <1>3, SubSeqProperties
<1> QED
    BY <1>1, <1>2, <1>4, SubSeqFull

\* A string that is written behind o.
LEMMA StringWritten ==
    ASSUME NEW o \in Seq(Nat), NEW s \in String
    PROVE  /\ Append(o, Len(s)) \o s \in Seq(Nat)
           /\ Len(Append(o, Len(s)) \o s) = Len(o) + 1 + Len(s)
           /\ Extends(Append(o, Len(s)) \o s, o)
           /\ Frame(s, Len(o), Append(o, Len(s)) \o s)
<1> DEFINE a == Append(o, Len(s))
           c == a \o s
<1>1. s \in Seq(Nat) /\ Len(s) \in Nat /\ Len(o) \in Nat
    BY StringType, LenProperties
<1>2. /\ a \in Seq(Nat) /\ Len(a) = Len(o) + 1
      /\ a[Len(o) + 1] = Len(s) /\ Extends(a, o)
    BY <1>1, Appended
<1> HIDE DEF a
<1>3. /\ c \in Seq(Nat) /\ Len(c) = Len(a) + Len(s)
      /\ \A i \in 1..Len(s) : c[Len(a) + i] = s[i]
      /\ Extends(c, a)
    BY <1>1, <1>2, Concatenated
<1> HIDE DEF c
<1>4. Len(c) = Len(o) + 1 + Len(s)
    BY <1>1, <1>2, <1>3, SMT
<1>5. Extends(c, o)
    BY <1>1, <1>2, <1>3, SMT DEF Extends
<1>6. Frame(s, Len(o), c)
    <2>1. c[Len(o) + 1] = Len(s)
        <3>1. Len(o) + 1 \in 1..Len(a)
            BY <1>1, <1>2, SMT
        <3>2. c[Len(o) + 1] = a[Len(o) + 1]
            BY <3>1, <1>3 DEF Extends
        <3> QED
            BY <3>2, <1>2
    <2>2. ASSUME NEW i \in 1..Len(s)
          PROVE  c[Len(o) + 1 + i] = s[i]
        <3>1. Len(a) + i = Len(o) + 1 + i
            BY <1>2
        <3>2. c[Len(a) + i] = s[i]
            BY <1>3
        <3> QED
            BY <3>1, <3>2
    <2> QED
        BY <2>1, <2>2 DEF Frame
<1> QED
    BY <1>3, <1>4, <1>5, <1>6 DEF a, c

\* A frame stays where it is when the stream grows behind it.
LEMMA FrameStays ==
    ASSUME NEW o \in Seq(Nat), NEW o2 \in Seq(Nat), Extends(o2, o),
           NEW s \in String, NEW start \in Nat, start + 1 + Len(s) <= Len(o),
           Frame(s, start, o)
    PROVE  Frame(s, start, o2)
<1>1. Len(s) \in Nat /\ Len(o) \in Nat
    BY LenProperties DEF String
<1>2. o2[start + 1] = o[start + 1]
    <2>1. start + 1 \in 1..Len(o)
        BY <1>1, SMT
    <2> QED
        BY <2>1 DEF Extends
<1>3. ASSUME NEW i \in 1..Len(s)
      PROVE  o2[start + 1 + i] = o[start + 1 + i]
    <2>1. start + 1 + i \in 1..Len(o)
        BY <1>1, SMT
    <2> QED
        BY <2>1 DEF Extends
<1> QED
    BY <1>2, <1>3 DEF Frame

LEMMA FramesStay ==
    ASSUME NEW strs \in Seq(String), NEW b \in Nat, NEW m \in 0..Len(strs),
           NEW e \in Seq(Nat), NEW e2 \in Seq(Nat), Extends(e2, e),
           NEW o \in Seq(Nat), NEW o2 \in Seq(Nat), Extends(o2, o),
           Frames(strs, b, o, e, m)
    PROVE  \A k \in 1..m : /\ e2[k] = From(b, e2, k) + 1 + Len(strs[k])
                           /\ e2[k] <= Len(o2)
                           /\ Frame(strs[k], From(b, e2, k), o2)
<1> SUFFICES ASSUME NEW k \in 1..m
             PROVE  /\ e2[k] = From(b, e2, k) + 1 + Len(strs[k])
                    /\ e2[k] <= Len(o2)
                    /\ Frame(strs[k], From(b, e2, k), o2)
    OBVIOUS
<1>1. /\ Len(e) = m /\ Len(strs) \in Nat /\ Len(o) \in Nat /\ Len(o2) \in Nat
      /\ e[k] = From(b, e, k) + 1 + Len(strs[k])
      /\ e[k] <= Len(o)
      /\ Frame(strs[k], From(b, e, k), o)
    BY LenProperties DEF Frames
<1>2. k \in 1..Len(strs) /\ k \in 1..Len(e) /\ k \in 1..(Len(e) + 1)
    BY <1>1, SMT
<1>3. strs[k] \in String /\ e[k] \in Nat
    BY <1>2, ElementOfSeq
<1>4. e2[k] = e[k] /\ Len(o) <= Len(o2)
    BY <1>2 DEF Extends
<1>5. From(b, e2, k) = From(b, e, k) /\ From(b, e, k) \in Nat
    BY <1>2, FromExtends, FromType
<1>6. Frame(strs[k], From(b, e, k), o2)
    BY <1>1, <1>3, <1>5, FrameStays
<1> QED
    BY <1>1, <1>3, <1>4, <1>5, <1>6, SMT

\* o2 and e2 are o and e with string m + 1 behind the m strings they hold.
OneMore(strs, b, m, o, e, o2, e2) ==
    /\ m < Len(strs)
    /\ Frames(strs, b, o, e, m) /\ Len(o) = From(b, e, m + 1)
    /\ Extends(e2, e) /\ Extends(o2, o)
    /\ Len(o2) = Len(o) + 1 + Len(strs[m + 1])
    /\ Frame(strs[m + 1], Len(o), o2)
    /\ Len(e2) = m + 1 /\ e2[m + 1] = Len(o2)

LEMMA FramesNext ==
    ASSUME NEW strs \in Seq(String), NEW b \in Nat, NEW m \in Nat,
           NEW e \in Seq(Nat), NEW o \in Seq(Nat),
           NEW e2 \in Seq(Nat), NEW o2 \in Seq(Nat),
           OneMore(strs, b, m, o, e, o2, e2)
    PROVE  /\ Frames(strs, b, o2, e2, m + 1)
           /\ Len(o2) = From(b, e2, m + 2)
<1>0. /\ m < Len(strs)
      /\ Frames(strs, b, o, e, m) /\ Len(o) = From(b, e, m + 1)
      /\ Extends(e2, e) /\ Extends(o2, o)
      /\ Len(o2) = Len(o) + 1 + Len(strs[m + 1])
      /\ Frame(strs[m + 1], Len(o), o2)
      /\ Len(e2) = m + 1 /\ e2[m + 1] = Len(o2)
    BY DEF OneMore
<1>1. /\ Len(e) = m /\ Len(strs) \in Nat /\ Len(o) \in Nat /\ Len(o2) \in Nat
      /\ m + 1 \in 1..Len(strs) /\ m \in 0..Len(strs)
      /\ m + 1 \in 1..(Len(e) + 1)
    BY <1>0, LenProperties DEF Frames
<1>2. \A k \in 1..m : /\ e2[k] = From(b, e2, k) + 1 + Len(strs[k])
                      /\ e2[k] <= Len(o2)
                      /\ Frame(strs[k], From(b, e2, k), o2)
    BY <1>0, <1>1, FramesStay
<1>3. From(b, e2, m + 1) = Len(o)
    BY <1>0, <1>1, FromExtends
<1>4. /\ e2[m + 1] = From(b, e2, m + 1) + 1 + Len(strs[m + 1])
      /\ e2[m + 1] <= Len(o2)
      /\ Frame(strs[m + 1], From(b, e2, m + 1), o2)
    BY <1>0, <1>1, <1>3
<1>5. \A k \in 1..(m + 1) : k \in 1..m \/ k = m + 1
    BY SMT
<1>6. Frames(strs, b, o2, e2, m + 1)
    BY <1>0, <1>2, <1>4, <1>5 DEF Frames
<1>7. m + 2 # 1 /\ (m + 2) - 1 = m + 1
    BY SMT
<1>8. From(b, e2, m + 2) = e2[m + 1]
    BY <1>7 DEF From
<1> QED
    BY <1>0, <1>6, <1>8

\* The cast to u32 loses nothing of a number that fits.
LEMMA AsU32Is ==
    ASSUME NEW n \in Nat
    PROVE  /\ AsU32(n) \in 0..(FieldSize - 1)
           /\ n < FieldSize => AsU32(n) = n
BY CodecsAssumption, SMT DEF AsU32

LEMMA StringAdded ==
    ASSUME out \in Seq(Nat), ends \in Seq(Nat), NEW s \in String, WriteString(s),
           Len(s) < FieldSize
    PROVE  /\ out' \in Seq(Nat)
           /\ Len(out') = Len(out) + 1 + Len(s)
           /\ Extends(out', out)
           /\ Frame(s, Len(out), out')
           /\ ends' \in Seq(Nat)
           /\ Len(ends') = Len(ends) + 1
           /\ ends'[Len(ends) + 1] = Len(out')
           /\ Extends(ends', ends)
<1>1. /\ out' \in Seq(Nat)
      /\ Len(out') = Len(out) + 1 + Len(s)
      /\ Extends(out', out)
      /\ Frame(s, Len(out), out')
    <2>1. AsU32(Len(s)) = Len(s)
        BY StringType, AsU32Is
    <2> QED
        BY <2>1, StringWritten DEF WriteString
<1>2. Len(out') \in Nat
    BY <1>1, LenProperties
<1>3. /\ ends' \in Seq(Nat)
      /\ Len(ends') = Len(ends) + 1
      /\ ends'[Len(ends) + 1] = Len(out')
      /\ Extends(ends', ends)
    BY <1>2, Appended DEF WriteString
<1> QED
    BY <1>1, <1>3

\* What WriteString does to the strings written before.
LEMMA FramesGrow ==
    ASSUME NEW strs \in Seq(String), NEW b \in Nat, NEW m \in Nat, m < Len(strs),
           out \in Seq(Nat), ends \in Seq(Nat),
           Frames(strs, b, out, ends, m), Len(out) = From(b, ends, m + 1),
           WriteString(strs[m + 1]), Len(strs[m + 1]) < FieldSize
    PROVE  /\ out' \in Seq(Nat) /\ ends' \in Seq(Nat)
           /\ Extends(out', out)
           /\ Frames(strs, b, out', ends', m + 1)
           /\ Len(out') = From(b, ends', m + 2)
<1>1. Len(ends) = m /\ Len(strs) \in Nat /\ m + 1 \in 1..Len(strs)
    BY LenProperties DEF Frames
<1>2. strs[m + 1] \in String
    BY <1>1, ElementOfSeq
<1>3. /\ out' \in Seq(Nat)
      /\ Len(out') = Len(out) + 1 + Len(strs[m + 1])
      /\ Extends(out', out)
      /\ Frame(strs[m + 1], Len(out), out')
      /\ ends' \in Seq(Nat)
      /\ Len(ends') = m + 1
      /\ ends'[m + 1] = Len(out')
      /\ Extends(ends', ends)
    BY <1>1, <1>2, StringAdded
<1>4. OneMore(strs, b, m, out, ends, out', ends')
    BY <1>3 DEF OneMore
<1> QED
    BY <1>3, <1>4, FramesNext

\* Writing behind the strings leaves them as they are.
LEMMA FramesKept ==
    ASSUME NEW strs \in Seq(String), NEW b \in Nat, NEW m \in 0..Len(strs),
           NEW e \in Seq(Nat), NEW o \in Seq(Nat), NEW o2 \in Seq(Nat), Extends(o2, o),
           Frames(strs, b, o, e, m)
    PROVE  Frames(strs, b, o2, e, m)
<1>1. Extends(e, e)
    BY LenProperties DEF Extends
<1>2. Len(e) = m
    BY DEF Frames
<1> QED
    BY <1>1, <1>2, FramesStay DEF Frames

LEMMA DeltaGrows ==
    ASSUME NEW j, NEW o \in Seq(Nat), NEW m \in Nat, DeltaRows(j, o, m), NEW x \in Nat,
           x = IF m = 0 THEN RowOf(j, 1) ELSE WrappingSub(RowOf(j, m + 1), RowOf(j, m))
    PROVE  DeltaRows(j, Append(o, x), m + 1)
<1> DEFINE a == Append(o, x)
<1>1. Len(o) = m
    BY DEF DeltaRows
<1>2. Len(a) = m + 1 /\ a[m + 1] = x /\ Extends(a, o)
    BY <1>1, Appended
<1> HIDE DEF a
<1>3. ASSUME NEW i \in 1..(m + 1)
      PROVE  a[i] = IF i = 1 THEN RowOf(j, 1) ELSE WrappingSub(RowOf(j, i), RowOf(j, i - 1))
    <2>1. CASE i = m + 1
        <3>1. (m + 1) - 1 = m /\ (m + 1 = 1 <=> m = 0)
            BY SMT
        <3> QED
            BY <2>1, <3>1, <1>2
    <2>2. CASE i # m + 1
        <3>1. i \in 1..m
            BY <2>2, SMT
        <3> QED
            BY <3>1, <1>1, <1>2 DEF DeltaRows, Extends
    <2> QED
        BY <2>1, <2>2
<1>4. DeltaRows(j, a, m + 1)
    BY <1>2, <1>3 DEF DeltaRows
<1> QED
    BY <1>4 DEF a

\* A pair that is written behind o.
WithPair(o, x, y) == o \o <<x, y>>

PairAdded(o, x, y, r) == /\ r \in Seq(Nat)
                         /\ Len(r) = Len(o) + 2
                         /\ r[Len(o) + 1] = x /\ r[Len(o) + 2] = y
                         /\ Extends(r, o)

LEMMA PairWritten ==
    ASSUME NEW o \in Seq(Nat), NEW x \in Nat, NEW y \in Nat
    PROVE  PairAdded(o, x, y, WithPair(o, x, y))
<1> DEFINE p == <<x, y>>
           r == o \o p
<1>1. p \in Seq(Nat) /\ Len(p) = 2 /\ p[1] = x /\ p[2] = y
    OBVIOUS
<1>2. 1 \in 1..2 /\ 2 \in 1..2
    BY SMT
<1> HIDE DEF p
<1>3. /\ r \in Seq(Nat)
      /\ Len(r) = Len(o) + Len(p)
      /\ \A i \in 1..Len(p) : r[Len(o) + i] = p[i]
      /\ Extends(r, o)
    BY <1>1, Concatenated
<1> HIDE DEF r
<1>4. r[Len(o) + 1] = x /\ r[Len(o) + 2] = y
    BY <1>1, <1>2, <1>3
<1>5. r \in Seq(Nat) /\ Len(r) = Len(o) + 2 /\ Extends(r, o)
    BY <1>1, <1>3
<1> QED
    BY <1>4, <1>5 DEF p, r, WithPair, PairAdded

\* The run c, p that ends at row m goes behind the runs before it.
LEMMA RunsGrow ==
    ASSUME NEW j, NEW o \in Seq(Nat), NEW e \in Seq(Nat), NEW m \in Nat, NEW c \in 1..m,
           m <= Len(j.values), Len(j.values) \in Nat, NEW p \in Nat,
           RunRows(j, o, e, m - c), \A i \in (m - c + 1)..m : RowOf(j, i) = p
    PROVE  RunRows(j, WithPair(o, c, p), Append(e, m), m)
<1> DEFINE o2 == WithPair(o, c, p)
           e2 == Append(e, m)
           n == Len(e)
<1>1. PairAdded(o, c, p, o2)
    <2>1. c \in Nat /\ p \in Nat /\ o \in Seq(Nat)
        BY SMT
    <2> QED
        BY <2>1, PairWritten, Zenon
<1>2. /\ e2 \in Seq(Nat) /\ Len(e2) = n + 1 /\ e2[n + 1] = m /\ Extends(e2, e)
    BY Appended
<1>3. n \in Nat /\ Len(o) = 2 * n /\ From(0, e, n + 1) = m - c
    BY LenProperties DEF RunRows
<1> HIDE DEF o2, e2
<1>0. /\ Len(o2) = Len(o) + 2 /\ o2[Len(o) + 1] = c /\ o2[Len(o) + 2] = p
      /\ Extends(o2, o)
    BY <1>1 DEF PairAdded
<1>4. \A k \in 1..(n + 1) : From(0, e2, k) = From(0, e, k)
    BY <1>2, <1>3, FromExtends
<1> HIDE DEF n
<1>5. From(0, e2, n + 2) = m
    BY <1>2, <1>3 DEF From
<1>6. ASSUME NEW k \in 1..(n + 1)
      PROVE  /\ From(0, e2, k) < e2[k] /\ e2[k] <= Len(j.values)
             /\ o2[2 * k - 1] = e2[k] - From(0, e2, k)
             /\ \A i \in (From(0, e2, k) + 1)..e2[k] : RowOf(j, i) = o2[2 * k]
    <2>1. CASE k = n + 1
        <3>1. From(0, e2, k) = m - c /\ e2[k] = m
            BY <2>1, <1>2, <1>3, <1>4
        <3>2. 2 * k - 1 = Len(o) + 1 /\ 2 * k = Len(o) + 2
            BY <2>1, <1>3, SMT
        <3>3. o2[2 * k - 1] = c /\ o2[2 * k] = p
            BY <3>2, <1>0
        <3>4. m - c < m /\ m - (m - c) = c
            BY SMT
        <3> QED
            BY <3>1, <3>3, <3>4
    <2>2. CASE k # n + 1
        <3>1. k \in 1..n
            BY <2>2, <1>3, SMT
        <3>2. 2 * k - 1 \in 1..Len(o) /\ 2 * k \in 1..Len(o)
            BY <3>1, <1>3, SMT
        <3>3. o2[2 * k - 1] = o[2 * k - 1] /\ o2[2 * k] = o[2 * k]
            BY <3>2, <1>0 DEF Extends
        <3>4. e2[k] = e[k] /\ From(0, e2, k) = From(0, e, k)
            BY <3>1, <1>2, <1>4 DEF Extends, n
        <3>5. /\ From(0, e, k) < e[k] /\ e[k] <= Len(j.values)
              /\ o[2 * k - 1] = e[k] - From(0, e, k)
              /\ \A i \in (From(0, e, k) + 1)..e[k] : RowOf(j, i) = o[2 * k]
            BY <3>1 DEF RunRows, n
        <3> QED
            BY <3>3, <3>4, <3>5
    <2> QED
        BY <2>1, <2>2
<1>7. Len(o2) = 2 * Len(e2) /\ From(0, e2, Len(e2) + 1) = m
    <2>1. Len(e2) + 1 = n + 2
        BY <1>2, <1>3
    <2> QED
        BY <2>1, <1>0, <1>2, <1>3, <1>5
<1>8. RunRows(j, o2, e2, m)
    BY <1>2, <1>6, <1>7 DEF RunRows
<1> QED
    BY <1>8 DEF o2, e2

LEMMA IndexGrows ==
    ASSUME NEW j, NEW d, NEW o \in Seq(Nat), NEW b \in Nat, NEW m \in Nat,
           IndexRows(j, d, o, b, m), Len(o) = b + m, NEW x \in Nat,
           x < Len(d), d[x + 1] = j.values[m + 1]
    PROVE  IndexRows(j, d, Append(o, x), b, m + 1)
<1> DEFINE a == Append(o, x)
<1>1. Len(a) = b + m + 1 /\ a[b + m + 1] = x /\ Extends(a, o)
    <2>1. /\ Len(Append(o, x)) = Len(o) + 1
          /\ Append(o, x)[Len(o) + 1] = x
          /\ Extends(Append(o, x), o)
        BY Appended, Zenon
    <2> QED
        BY <2>1, Zenon
<1> HIDE DEF a
<1>2. ASSUME NEW i \in 1..(m + 1)
      PROVE  a[b + i] < Len(d) /\ d[a[b + i] + 1] = j.values[i]
    <2>1. CASE i = m + 1
        <3>1. b + i = b + m + 1
            BY <2>1
        <3> QED
            BY <2>1, <3>1, <1>1
    <2>2. CASE i # m + 1
        <3>1. i \in 1..m /\ b + i \in 1..Len(o)
            BY <2>2, SMT
        <3> QED
            BY <3>1, <1>1 DEF IndexRows, Extends
    <2> QED
        BY <2>1, <2>2
<1> QED
    BY <1>2 DEF IndexRows, a

\* The dictionary has the first m strings.
Covers(j, d, m) == \A i \in 1..m : \E k \in 1..Len(d) : d[k] = j.values[i]

LEMMA DictGrows ==
    ASSUME NEW j, NEW d \in Seq(String), NEW s \in String, NEW m \in Nat,
           Covers(j, d, m), s = j.values[m + 1]
    PROVE  /\ Append(d, s) \in Seq(String)
           /\ Covers(j, Append(d, s), m + 1)
<1> DEFINE a == Append(d, s)
<1>1. /\ a \in Seq(String) /\ Len(a) = Len(d) + 1 /\ a[Len(d) + 1] = s
      /\ \A k \in 1..Len(d) : a[k] = d[k]
    BY AppendProperties
<1>2. Len(d) \in Nat
    BY LenProperties
<1> HIDE DEF a
<1>3. ASSUME NEW i \in 1..(m + 1)
      PROVE  \E k \in 1..Len(a) : a[k] = j.values[i]
    <2>1. CASE i = m + 1
        <3>1. Len(d) + 1 \in 1..Len(a)
            BY <1>1, <1>2, SMT
        <3>2. a[Len(d) + 1] = j.values[i]
            BY <2>1, <1>1
        <3> QED
            BY <3>1, <3>2
    <2>2. CASE i # m + 1
        <3>1. i \in 1..m
            BY <2>2, SMT
        <3>2. PICK k \in 1..Len(d) : d[k] = j.values[i]
            BY <3>1 DEF Covers
        <3>3. k \in 1..Len(a)
            BY <1>1, <1>2, <3>2, SMT
        <3>4. a[k] = j.values[i]
            BY <3>2, <1>1
        <3> QED
            BY <3>3, <3>4
    <2> QED
        BY <2>1, <2>2
<1>4. Covers(j, a, m + 1)
    BY <1>3 DEF Covers
<1> QED
    BY <1>1, <1>4 DEF a

\* The index of a string that the dictionary has.
LEMMA IndexFound ==
    ASSUME NEW s, dict \in Seq(String), Known(s), Len(dict) < FieldSize
    PROVE  Index(s) \in Nat /\ Index(s) < Len(dict) /\ dict[Index(s) + 1] = s
<1> DEFINE c == CHOOSE k \in 1..Len(dict) : dict[k] = s
<1>1. c \in 1..Len(dict) /\ dict[c] = s
    BY DEF Known
<1>2. Index(s) = AsU32(c - 1)
    BY DEF Index
<1>3. Len(dict) \in Nat
    BY LenProperties
<1> HIDE DEF c
<1>4. c - 1 \in Nat /\ c - 1 < Len(dict) /\ (c - 1) + 1 = c
    BY <1>1, <1>3, SMT
<1>5. AsU32(c - 1) = c - 1
    <2>1. c - 1 < FieldSize
        BY <1>3, <1>4, CodecsAssumption
    <2> QED
        BY <1>4, <2>1, AsU32Is
<1> QED
    BY <1>1, <1>2, <1>4, <1>5

-----------------------------------------------------------------------------
(***************************************************************************)
(* What a decoder finds in a stream                                        *)
(***************************************************************************)
\* Behind m strings comes string m + 1.  If all of it is there it is read.
NextFrame(strs, b, m, e, o, r, a) ==
    /\ m < Len(strs)
    /\ Frames(strs, b, o, e, Len(strs))
    /\ a = From(b, e, m + 1)
    /\ Extends(o, r)

FrameFound(strs, b, m, e, o, r, a) ==
    LET n == Len(strs[m + 1]) IN
    /\ strs[m + 1] \in String /\ n \in Nat
    /\ a + 1 + n <= Len(o)
    /\ From(b, e, m + 2) = a + 1 + n
    /\ a < Len(r) => r[a + 1] = n
    /\ a + 1 + n <= Len(r) => SubSeq(r, a + 2, a + 1 + n) = strs[m + 1]

LEMMA FrameRead ==
    ASSUME NEW strs \in Seq(String), NEW b \in Nat, NEW m \in Nat,
           NEW e \in Seq(Nat), NEW o \in Seq(Nat), NEW r \in Seq(Nat), NEW a \in Nat,
           NextFrame(strs, b, m, e, o, r, a)
    PROVE  FrameFound(strs, b, m, e, o, r, a)
<1> DEFINE s == strs[m + 1]
           n == Len(s)
<1>0. /\ m < Len(strs)
      /\ Frames(strs, b, o, e, Len(strs))
      /\ a = From(b, e, m + 1)
      /\ Extends(o, r)
    BY DEF NextFrame
<1>1. /\ Len(strs) \in Nat /\ m + 1 \in 1..Len(strs) /\ Len(r) \in Nat /\ Len(o) \in Nat
      /\ Len(e) = Len(strs)
    BY <1>0, LenProperties DEF Frames
<1>2. s \in String /\ s \in Seq(Bytes) /\ n \in Nat
    <2>1. s \in String
        BY <1>1, ElementOfSeq
    <2> QED
        BY <2>1, LenProperties DEF String
<1>3. e[m + 1] = a + 1 + n /\ e[m + 1] <= Len(o) /\ Frame(s, a, o)
    BY <1>0, <1>1 DEF Frames
<1>4. From(b, e, m + 2) = a + 1 + n
    <2>1. m + 2 # 1 /\ (m + 2) - 1 = m + 1
        BY SMT
    <2> QED
        BY <2>1, <1>3 DEF From
<1> HIDE DEF s
<1>5. ASSUME a < Len(r) PROVE r[a + 1] = n
    <2>1. a + 1 \in 1..Len(r)
        BY <1>1, <1>5, SMT
    <2>2. r[a + 1] = o[a + 1]
        BY <2>1, <1>0 DEF Extends
    <2> QED
        BY <2>2, <1>3 DEF Frame
<1> HIDE DEF n
<1>6. ASSUME a + 1 + n <= Len(r)
      PROVE  SubSeq(r, a + 2, a + 1 + n) = s
    <2> DEFINE t == SubSeq(r, a + 2, a + 1 + n)
    <2>1. /\ t \in Seq(Nat) /\ Len(t) = n
          /\ \A i \in 1..n : t[i] = r[a + 1 + i]
        <3>1. \A i \in (a + 2)..(a + 1 + n) : r[i] \in Nat
            <4>1. \A i \in (a + 2)..(a + 1 + n) : i \in 1..Len(r)
                BY <1>1, <1>2, <1>6, SMT
            <4> QED
                BY <4>1, ElementOfSeq
        <3>2. /\ t \in Seq(Nat)
              /\ Len(t) = IF a + 2 <= a + 1 + n THEN (a + 1 + n) - (a + 2) + 1 ELSE 0
              /\ \A i \in 1..((a + 1 + n) - (a + 2) + 1) : t[i] = r[(a + 2) + i - 1]
            BY <3>1, <1>2, SubSeqProperties
        <3> HIDE DEF t
        <3>3. Len(t) = n
            BY <3>2, <1>2, SMT
        <3>4. ASSUME NEW i \in 1..n PROVE t[i] = r[a + 1 + i]
            <4>1. i \in 1..((a + 1 + n) - (a + 2) + 1) /\ (a + 2) + i - 1 = a + 1 + i
                BY <1>2, SMT
            <4>2. t[i] = r[(a + 2) + i - 1]
                BY <4>1, <3>2
            <4> QED
                BY <4>1, <4>2
        <3> QED
            BY <3>2, <3>3, <3>4
    <2> HIDE DEF t
    <2>2. ASSUME NEW i \in 1..n PROVE t[i] = s[i]
        <3>1. a + 1 + i \in 1..Len(r)
            BY <1>1, <1>2, <1>6, SMT
        <3>2. r[a + 1 + i] = o[a + 1 + i]
            BY <3>1, <1>0 DEF Extends
        <3>3. o[a + 1 + i] = s[i]
            BY <1>3 DEF Frame, n
        <3> QED
            BY <2>1, <3>2, <3>3
    <2>3. s \in Seq(Nat) /\ Len(s) = Len(t)
        BY <1>2, <2>1, StringType DEF n
    <2>4. \A i \in 1..Len(t) : t[i] = s[i]
        BY <2>1, <2>2
    <2>5. t = s
        BY <2>1, <2>3, <2>4, SeqEqual
    <2> QED
        BY <2>5 DEF t
<1> QED
    BY <1>2, <1>3, <1>4, <1>5, <1>6 DEF s, n, FrameFound

\* What was decoded are the first rows.
Rows(j, rows) == /\ Len(rows) <= Len(j.values)
                 /\ \A i \in 1..Len(rows) : rows[i] = RowOf(j, i)

\* Behind k pairs the decoder finds one more.
NextRun(j, k, e, o, r, rows) ==
    /\ Len(j.values) \in Nat /\ \A i \in 1..Len(j.values) : RowOf(j, i) \in Raw
    /\ RunRows(j, o, e, Len(j.values))
    /\ Extends(o, r) /\ 2 * k + 2 <= Len(r)
    /\ Rows(j, rows) /\ Len(rows) = From(0, e, k + 1)

RunDone(j, k, e, rows) ==
    rows \in Seq(Raw) /\ Rows(j, rows) /\ Len(rows) = From(0, e, k + 2)

Repeat(v, c) == [i \in 1..c |-> v]

LEMMA RunRead ==
    ASSUME NEW j, NEW k \in Nat,
           NEW e \in Seq(Nat), NEW o \in Seq(Nat), NEW r \in Seq(Nat),
           NEW rows \in Seq(Raw), NextRun(j, k, e, o, r, rows)
    PROVE  RunDone(j, k, e, rows \o Repeat(r[2 * k + 2], r[2 * k + 1]))
<1> DEFINE c == r[2 * k + 1]
           v == r[2 * k + 2]
           p == Repeat(v, c)
           q == rows \o p
           start == From(0, e, k + 1)
<1>0. Len(j.values) \in Nat /\ \A i \in 1..Len(j.values) : RowOf(j, i) \in Raw
    BY DEF NextRun
<1>1. /\ RunRows(j, o, e, Len(j.values))
      /\ Extends(o, r) /\ 2 * k + 2 <= Len(r)
      /\ Rows(j, rows) /\ Len(rows) = start
    BY DEF NextRun
<1>2. Len(r) \in Nat /\ Len(o) \in Nat /\ Len(e) \in Nat /\ Len(o) = 2 * Len(e) /\ Len(r) <= Len(o)
    BY <1>1, LenProperties DEF RunRows, Extends
<1>3. k < Len(e) /\ k + 1 \in 1..Len(e) /\ k + 1 \in 1..(Len(e) + 1)
    <2>1. Len(e) \in Nat /\ Len(r) \in Nat /\ 2 * k + 2 <= Len(r) /\ Len(r) <= 2 * Len(e)
        BY <1>1, <1>2, Zenon
    <2>2. k + 1 <= Len(e)
        BY <2>1, SMT
    <2> QED
        BY <2>1, <2>2, SMT
<1>4. start \in Nat /\ e[k + 1] \in Nat
    BY <1>3, FromType, ElementOfSeq
<1>5. c = o[2 * k + 1] /\ v = o[2 * k + 2]
    <2>1. 2 * k + 1 \in 1..Len(r) /\ 2 * k + 2 \in 1..Len(r)
        BY <1>1, <1>2, SMT
    <2> QED
        BY <2>1, <1>1 DEF Extends
<1>6. /\ start < e[k + 1] /\ e[k + 1] <= Len(j.values)
      /\ o[2 * (k + 1) - 1] = e[k + 1] - start
      /\ \A i \in (start + 1)..e[k + 1] : RowOf(j, i) = o[2 * (k + 1)]
    BY <1>1, <1>3 DEF RunRows
<1> HIDE DEF c, v, start
<1>7. c = e[k + 1] - start /\ \A i \in (start + 1)..e[k + 1] : RowOf(j, i) = v
    <2>1. 2 * (k + 1) - 1 = 2 * k + 1 /\ 2 * (k + 1) = 2 * k + 2
        BY SMT
    <2> QED
        BY <2>1, <1>5, <1>6
<1>8. c \in Nat /\ v \in Raw
    <2>1. start + 1 \in (start + 1)..e[k + 1] /\ start + 1 \in 1..Len(j.values)
        BY <1>0, <1>4, <1>6, SMT
    <2>2. v \in Raw
        BY <2>1, <1>0, <1>7, Zenon
    <2>3. start < e[k + 1] /\ c = e[k + 1] - start
        BY <1>6, <1>7, Zenon
    <2>4. c \in Nat
        BY <2>3, <1>4, SMT
    <2> QED
        BY <2>2, <2>4
<1>9. p \in Seq(Raw) /\ Len(p) = c /\ \A i \in 1..c : p[i] = v
    BY <1>8 DEF Repeat
<1> HIDE DEF p
<1>10. /\ q \in Seq(Raw) /\ Len(q) = Len(rows) + Len(p)
       /\ \A i \in 1..Len(p) : q[Len(rows) + i] = p[i]
       /\ Extends(q, rows)
    BY <1>9, Concatenated
<1> HIDE DEF q
<1>11. Len(q) = e[k + 1]
    <2>1. /\ Len(q) = Len(rows) + Len(p) /\ Len(rows) = start /\ Len(p) = c
          /\ c = e[k + 1] - start /\ start \in Nat /\ e[k + 1] \in Nat
        BY <1>1, <1>4, <1>7, <1>9, <1>10, Zenon
    <2> QED
        BY <2>1, SMT
<1>12. From(0, e, k + 2) = e[k + 1]
    <2>1. k + 2 # 1 /\ (k + 2) - 1 = k + 1
        BY SMT
    <2> QED
        BY <2>1 DEF From
<1>13. ASSUME NEW i \in 1..Len(q) PROVE q[i] = RowOf(j, i)
    <2>1. CASE i <= start
        <3>1. i \in 1..Len(rows)
            BY <2>1, <1>1, <1>4, <1>11, SMT
        <3> QED
            BY <3>1, <1>1, <1>10 DEF Rows, Extends
    <2>2. CASE i > start
        <3>1. i - start \in 1..Len(p) /\ Len(rows) + (i - start) = i
            BY <2>2, <1>1, <1>4, <1>7, <1>9, <1>11, SMT
        <3>2. q[Len(rows) + (i - start)] = p[i - start]
            BY <3>1, <1>10
        <3>3. q[i] = v
            BY <3>1, <3>2, <1>9
        <3>4. i \in (start + 1)..e[k + 1]
            BY <2>2, <1>4, <1>11, SMT
        <3> QED
            BY <3>3, <3>4, <1>7
    <2>3. i <= start \/ i > start
        BY <1>4, SMT
    <2> QED
        BY <2>1, <2>2, <2>3
<1>14. Rows(j, q)
    BY <1>6, <1>11, <1>13 DEF Rows
<1> QED
    BY <1>10, <1>11, <1>12, <1>14 DEF c, v, p, q, RunDone

-----------------------------------------------------------------------------
(***************************************************************************)
(* The inductive invariant                                                 *)
(***************************************************************************)
Writing == {"encode", "entries", "indices"}
Reading == {"decode", "readEntries", "readIndices"}

\* The pairs written so far, and the run that the encoder is in.
RunsSoFar(j, o, e, p, c, v) ==
    /\ c <= p /\ (p > 0 => c > 0)
    /\ RunRows(j, o, e, p - c)
    /\ \A i \in (p - c + 1)..p : RowOf(j, i) = v

EncodeInv ==
    /\ pos <= Len(job.values)
    /\ IsDelta(job) => /\ DeltaRows(job, out, pos)
                       /\ pos > 0 => prev = RowOf(job, pos)
    /\ IsRLE(job) => RunsSoFar(job, out, ends, pos, count, prev)
    /\ IsStrings(job) => /\ Frames(job.values, 0, out, ends, pos)
                         /\ Len(out) = From(0, ends, pos + 1)
    /\ IsDictionary(job) => ends = <<>> /\ Covers(job, dict, pos)

\* A stream that starts with a dictionary that has all rows.
HasDict == /\ IsDictionary(job)
           /\ Covers(job, dict, Len(job.values))
           /\ Len(out) >= 1 /\ out[1] = Len(dict)

EntriesInv == /\ HasDict
              /\ pos <= Len(dict)
              /\ Frames(dict, 1, out, ends, pos)
              /\ Len(out) = From(1, ends, pos + 1)

IndicesInv == /\ HasDict
              /\ pos <= Len(job.values)
              /\ Frames(dict, 1, out, ends, Len(dict))
              /\ Len(out) = DictEnd(dict, ends) + pos
              /\ IndexRows(job, dict, out, DictEnd(dict, ends), pos)

DecodeInv ==
    /\ Rows(job, decoded)
    /\ IsPlain(job) => at = 0 /\ decoded = <<>>
    /\ IsDelta(job) => Len(decoded) = at /\ (at > 0 => last = RowOf(job, at))
    /\ IsRLE(job) => \E k \in Nat : at = 2 * k /\ Len(decoded) = From(0, ends, k + 1)
    /\ IsStrings(job) => at = From(0, ends, Len(decoded) + 1)
    /\ IsDictionary(job) => at = 0 /\ entries = <<>> /\ decoded = <<>>

ReadEntriesInv == /\ IsDictionary(job)
                  /\ Len(src) >= 1 /\ decoded = <<>>
                  /\ Len(entries) <= Len(dict)
                  /\ \A i \in 1..Len(entries) : entries[i] = dict[i]
                  /\ at = From(1, ends, Len(entries) + 1)

ReadIndicesInv == /\ IsDictionary(job)
                  /\ entries = dict
                  /\ Rows(job, decoded)
                  /\ at = DictEnd(dict, ends) + Len(decoded)

\* The decoder has not begun.
Fresh == at = 0 /\ entries = <<>> /\ decoded = <<>>

\* What the decoder is given is the beginning of what the encoder wrote.
Given == Extends(out, src) /\ (torn => Len(src) < Len(out))

Stored == Encoded(job, dict, out, ends) /\ tag = Tag(job.codec)

\* What the encoders and decoders can use of the type invariant.
Types == /\ job \in Jobs
         /\ phase \in Phases
         /\ pos \in Nat /\ prev \in Raw /\ count \in 0..MaxCount
         /\ dict \in Seq(String) /\ entries \in Seq(String)
         /\ out \in Seq(Nat) /\ src \in Seq(Nat) /\ ends \in Seq(Nat)
         /\ tag \in 0..2 /\ torn \in BOOLEAN
         /\ at \in 0..Len(src) /\ last \in Raw
         /\ decoded \in Seq(IF job.text THEN String ELSE Raw)

\* Of a block whose strings and dictionary fit their fields.
IInv == /\ Types
        /\ phase \in Writing \cup {"stored"} => Fresh /\ src = <<>>
        /\ phase = "encode" => EncodeInv
        /\ phase = "entries" => EntriesInv
        /\ phase = "indices" => IndicesInv
        /\ phase \notin Writing => Stored
        /\ phase \notin Writing \cup {"stored"} => Given
        /\ phase = "decode" => DecodeInv
        /\ phase = "readEntries" => ReadEntriesInv
        /\ phase = "readIndices" => ReadIndicesInv
        /\ phase = "ok" => /\ Rows(job, decoded)
                           /\ Len(src) = Len(out) => Len(decoded) = Len(job.values)
        /\ phase = "err" => Len(src) < Len(out)

EncoderTypes == /\ pos \in Nat /\ prev \in Raw /\ count \in 0..MaxCount
                /\ dict \in Seq(String) /\ out \in Seq(Nat) /\ ends \in Seq(Nat)

DecoderTypes == /\ at \in 0..Len(src) /\ last \in Raw
                /\ entries \in Seq(String)
                /\ decoded \in Seq(IF job.text THEN String ELSE Raw)

\* A step of the encoder.
LEMMA EncodeOn ==
    ASSUME IInv, phase \in Writing, phase' \in Writing, UNCHANGED <<job, tag, decoder>>,
           EncoderTypes',
           phase' = "encode" => EncodeInv',
           phase' = "entries" => EntriesInv',
           phase' = "indices" => IndicesInv'
    PROVE  IInv'
<1>1. job' = job /\ tag' = tag /\ UNCHANGED <<src, torn, at, last, entries, decoded>>
    BY DEF decoder
<1>2. Types'
    BY <1>1 DEF IInv, Types, EncoderTypes, Phases, Writing
<1>3. Fresh' /\ src' = <<>>
    BY <1>1 DEF IInv, Fresh
<1> QED
    BY <1>2, <1>3 DEF IInv, Writing

\* The encoder is done.
LEMMA StoreOn ==
    ASSUME IInv, phase \in Writing, Store, EncoderTypes',
           Encoded(job, dict', out', ends')
    PROVE  IInv'
<1>1. /\ job' = job /\ UNCHANGED <<src, torn, at, last, entries, decoded>>
      /\ phase' = "stored" /\ tag' = Tag(job.codec)
    BY DEF Store, decoder
<1>2. tag' \in 0..2
    BY <1>1, JobFacts DEF IInv, Types
<1>3. Types'
    BY <1>1, <1>2 DEF IInv, Types, EncoderTypes, Phases
<1>4. Fresh' /\ src' = <<>>
    BY <1>1 DEF IInv, Fresh
<1>5. Stored'
    BY <1>1 DEF Stored
<1> QED
    BY <1>1, <1>3, <1>4, <1>5 DEF IInv, Writing

\* A step of the decoder.
LEMMA DecodeOn ==
    ASSUME IInv, phase \in Reading, phase' \in Reading \cup {"ok", "err"},
           UNCHANGED <<job, encoder, src, torn>>, DecoderTypes',
           phase' = "decode" => DecodeInv',
           phase' = "readEntries" => ReadEntriesInv',
           phase' = "readIndices" => ReadIndicesInv',
           phase' = "ok" => /\ Rows(job, decoded')
                            /\ Len(src) = Len(out) => Len(decoded') = Len(job.values),
           phase' = "err" => Len(src) < Len(out)
    PROVE  IInv'
<1>1. UNCHANGED <<job, pos, prev, count, dict, out, ends, tag, src, torn>>
    BY DEF encoder
<1>2. Types'
    BY <1>1 DEF IInv, Types, DecoderTypes, Phases, Reading
<1>3. Stored' /\ Given'
    BY <1>1 DEF IInv, Stored, Given, Reading, Writing
<1> QED
    BY <1>1, <1>2, <1>3 DEF IInv, Writing, Reading

LEMMA InitIInv == Init => IInv
<1> SUFFICES ASSUME Init PROVE IInv
    OBVIOUS
<1>1. /\ phase = "encode" /\ job \in Jobs /\ pos = 0 /\ prev = 0 /\ count = 0
      /\ dict = <<>> /\ out = <<>> /\ ends = <<>> /\ tag = 0 /\ src = <<>> /\ torn = FALSE
      /\ at = 0 /\ last = 0 /\ entries = <<>> /\ decoded = <<>>
    BY DEF Init
<1>2. 0 \in Raw /\ 0 \in 0..MaxCount
    BY CodecsAssumption, SMT DEF Raw, Modulus
<1>3. Types
    <2>1. \A S : <<>> \in Seq(S)
        OBVIOUS
    <2>2. /\ dict \in Seq(String) /\ entries \in Seq(String)
          /\ out \in Seq(Nat) /\ src \in Seq(Nat) /\ ends \in Seq(Nat)
          /\ decoded \in Seq(IF job.text THEN String ELSE Raw)
        BY <1>1, <2>1, Zenon
    <2>3. torn \in BOOLEAN
        BY <1>1, Zenon
    <2>4. pos \in Nat /\ tag \in 0..2 /\ at \in 0..Len(src)
        <3>1. Len(src) = 0
            BY <1>1
        <3> QED
            BY <1>1, <3>1
    <2>5. job \in Jobs /\ phase \in Phases /\ prev \in Raw /\ last \in Raw /\ count \in 0..MaxCount
        BY <1>1, <1>2, Zenon DEF Phases
    <2> QED
        BY <2>2, <2>3, <2>4, <2>5, Zenon DEF Types
<1>4. Len(job.values) \in Nat
    BY <1>1, JobFacts
<1>5. Len(ends) = 0 /\ Len(out) = 0
    BY <1>1
<1>6. DeltaRows(job, out, pos)
    BY <1>1, <1>5 DEF DeltaRows
<1>7. RunsSoFar(job, out, ends, pos, count, prev)
    BY <1>1, <1>5 DEF RunsSoFar, RunRows, From
<1>8. Frames(job.values, 0, out, ends, pos) /\ Len(out) = From(0, ends, pos + 1)
    BY <1>1, <1>5 DEF Frames, From
<1>9. Covers(job, dict, pos)
    BY <1>1 DEF Covers
<1>10. EncodeInv
    BY <1>1, <1>4, <1>6, <1>7, <1>8, <1>9 DEF EncodeInv
<1>11. Fresh
    BY <1>1 DEF Fresh
<1> QED
    BY <1>1, <1>3, <1>10, <1>11 DEF IInv, Writing

-----------------------------------------------------------------------------
(***************************************************************************)
(* The invariant is inductive: one lemma per action of the encoder         *)
(***************************************************************************)
LEMMA Numbers == Raw \subseteq Nat /\ 0..MaxCount \subseteq Nat
BY CodecsAssumption, SMT DEF Raw, Modulus

LEMMA EncodingOf ==
    /\ Encoding(FALSE, "Plain") => IsPlain(job)
    /\ Encoding(FALSE, "Delta") => IsDelta(job)
    /\ Encoding(FALSE, "RLE") => IsRLE(job)
    /\ Encoding(TRUE, "Plain") => IsStrings(job)
    /\ Encoding(TRUE, "Dictionary") => IsDictionary(job)
BY DEF Encoding, IsPlain, IsDelta, IsRLE, IsStrings, IsDictionary

LEMMA OneCodec ==
    ASSUME NEW j
    PROVE  /\ IsPlain(j) => ~ j.text /\ ~ IsDelta(j) /\ ~ IsRLE(j) /\ ~ IsStrings(j) /\ ~ IsDictionary(j)
           /\ IsDelta(j) => ~ j.text /\ ~ IsPlain(j) /\ ~ IsRLE(j) /\ ~ IsStrings(j) /\ ~ IsDictionary(j)
           /\ IsRLE(j) => ~ j.text /\ ~ IsPlain(j) /\ ~ IsDelta(j) /\ ~ IsStrings(j) /\ ~ IsDictionary(j)
           /\ IsStrings(j) => j.text /\ ~ IsPlain(j) /\ ~ IsDelta(j) /\ ~ IsRLE(j) /\ ~ IsDictionary(j)
           /\ IsDictionary(j) => j.text /\ ~ IsPlain(j) /\ ~ IsDelta(j) /\ ~ IsRLE(j) /\ ~ IsStrings(j)
BY DEF IsPlain, IsDelta, IsRLE, IsStrings, IsDictionary

LEMMA EncodePlainIInv == ASSUME IInv, EncodePlain PROVE IInv'
<1> DEFINE n == Len(job.values)
<1>1. /\ IsPlain(job) /\ phase = "encode" /\ Store
      /\ out' = [i \in 1..n |-> RowOf(job, i)]
      /\ UNCHANGED <<pos, prev, count, dict, ends>>
    BY EncodingOf DEF EncodePlain, Encoding, NumRows, Row, RowOf
<1>2. job \in Jobs /\ n \in Nat /\ ~ job.text
    BY <1>1, JobFacts DEF IInv, Types, IsPlain
<1>3. \A i \in 1..n : RowOf(job, i) \in Raw
    BY <1>2, JobFacts
<1>4. out' \in Seq(Nat)
    <2>1. \A i \in 1..n : RowOf(job, i) \in Nat
        BY <1>3, Numbers
    <2> QED
        BY <1>1, <1>2, <2>1
<1>5. Len(out') = n /\ \A i \in 1..n : out'[i] = RowOf(job, i)
    BY <1>1, <1>2
<1>6. EncoderTypes'
    BY <1>1, <1>4 DEF IInv, Types, EncoderTypes, Store
<1>7. Encoded(job, dict', out', ends')
    BY <1>1, <1>5, OneCodec DEF Encoded
<1> QED
    BY <1>1, <1>6, <1>7, StoreOn DEF Writing

LEMMA EncodeDeltaIInv == ASSUME IInv, EncodeDelta PROVE IInv'
<1> DEFINE x == IF pos = 0 THEN RowOf(job, 1) ELSE WrappingSub(RowOf(job, pos + 1), prev)
<1>1. /\ IsDelta(job) /\ phase = "encode" /\ phase' = phase
      /\ pos < Len(job.values) /\ pos' = pos + 1
      /\ prev' = RowOf(job, pos + 1)
      /\ out' = Append(out, x)
      /\ UNCHANGED <<job, count, dict, ends, tag, decoder>>
    BY EncodingOf DEF EncodeDelta, Encoding, NumRows, Row, RowOf
<1>2. /\ job \in Jobs /\ pos \in Nat /\ prev \in Raw /\ out \in Seq(Nat) /\ EncoderTypes
      /\ EncodeInv
    BY <1>1 DEF IInv, Types, EncoderTypes
<1>3. ~ job.text /\ Len(job.values) \in Nat /\ \A i \in 1..Len(job.values) : RowOf(job, i) \in Raw
    BY <1>1, <1>2, JobFacts, OneCodec
<1>4. RowOf(job, pos + 1) \in Raw
    BY <1>1, <1>2, <1>3
<1>5. x \in Raw /\ x \in Nat
    <2>1. WrappingSub(RowOf(job, pos + 1), prev) \in Raw
        BY <1>2, <1>4, Wraps
    <2>2. pos = 0 => RowOf(job, 1) \in Raw
        BY <1>2, <1>4
    <2>3. x \in Raw
        BY <2>1, <2>2
    <2> QED
        BY <2>3, Numbers
<1>6. pos > 0 => prev = RowOf(job, pos)
    BY <1>1, <1>2 DEF EncodeInv
<1>7. x = IF pos = 0 THEN RowOf(job, 1) ELSE WrappingSub(RowOf(job, pos + 1), RowOf(job, pos))
    BY <1>2, <1>6
<1>8. DeltaRows(job, out, pos)
    BY <1>1, <1>2 DEF EncodeInv
<1> HIDE DEF x
<1>9. DeltaRows(job, out', pos + 1)
    BY <1>1, <1>2, <1>5, <1>7, <1>8, DeltaGrows
<1>10. EncoderTypes'
    <2>1. out' \in Seq(Nat)
        BY <1>1, <1>2, <1>5, Appended
    <2> QED
        BY <1>1, <1>2, <1>4, <2>1 DEF EncoderTypes
<1>11. EncodeInv'
    <2>1. pos' <= Len(job'.values) /\ (pos' > 0 => prev' = RowOf(job', pos'))
        BY <1>1, <1>2, <1>3
    <2> QED
        BY <1>1, <1>9, <2>1, OneCodec DEF EncodeInv
<1> QED
    BY <1>1, <1>10, <1>11, EncodeOn DEF Writing

LEMMA EndDeltaIInv == ASSUME IInv, EndDelta PROVE IInv'
<1>1. /\ IsDelta(job) /\ phase = "encode" /\ Store /\ pos = Len(job.values)
      /\ UNCHANGED <<job, pos, prev, count, dict, out, ends>>
    BY EncodingOf DEF EndDelta, Encoding, NumRows, Store
<1>2. EncoderTypes'
    BY <1>1 DEF IInv, Types, EncoderTypes
<1>3. DeltaRows(job, out', Len(job.values))
    BY <1>1 DEF IInv, EncodeInv
<1>4. Encoded(job, dict', out', ends')
    BY <1>1, <1>3, OneCodec DEF Encoded
<1> QED
    BY <1>1, <1>2, <1>4, StoreOn DEF Writing

\* The pair of the run the encoder is in.
LEMMA RunWritten ==
    ASSUME EncoderTypes, pos <= Len(job.values), Len(job.values) \in Nat, pos > 0,
           RunsSoFar(job, out, ends, pos, count, prev), WriteRun, job' = job
    PROVE  /\ out' \in Seq(Nat) /\ ends' \in Seq(Nat)
           /\ RunRows(job, out', ends', pos)
<1>1. /\ out' = WithPair(out, count, prev) /\ ends' = Append(ends, pos)
    BY DEF WriteRun, WithPair
<1>2. /\ out \in Seq(Nat) /\ ends \in Seq(Nat) /\ pos \in Nat
      /\ count \in Nat /\ prev \in Nat /\ count \in 1..pos
    BY Numbers DEF EncoderTypes, RunsSoFar
<1>3. RunRows(job, WithPair(out, count, prev), Append(ends, pos), pos)
    <2>1. /\ RunRows(job, out, ends, pos - count)
          /\ \A i \in (pos - count + 1)..pos : RowOf(job, i) = prev
        BY DEF RunsSoFar
    <2> QED
        BY <1>2, <2>1, RunsGrow
<1>4. out' \in Seq(Nat) /\ ends' \in Seq(Nat)
    <2>1. PairAdded(out, count, prev, WithPair(out, count, prev))
        BY <1>2, PairWritten, Zenon
    <2> QED
        BY <1>1, <1>2, <2>1, Appended DEF PairAdded
<1> QED
    BY <1>1, <1>3, <1>4

LEMMA EncodeRunIInv == ASSUME IInv, EncodeRun PROVE IInv'
<1>1. /\ IsRLE(job) /\ phase = "encode" /\ phase' = phase /\ pos < Len(job.values)
      /\ UNCHANGED <<job, dict, tag, decoder>>
    BY EncodingOf DEF EncodeRun, Encoding, NumRows
<1>2. /\ job \in Jobs /\ pos \in Nat /\ EncoderTypes /\ count \in Nat /\ EncodeInv
    BY <1>1, Numbers DEF IInv, Types, EncoderTypes
<1>3. ~ job.text /\ Len(job.values) \in Nat /\ \A i \in 1..Len(job.values) : RowOf(job, i) \in Raw
    BY <1>1, <1>2, JobFacts, OneCodec
<1>4. RowOf(job, pos + 1) \in Raw
    BY <1>1, <1>2, <1>3
<1>5. RunsSoFar(job, out, ends, pos, count, prev)
    BY <1>1, <1>2 DEF EncodeInv
<1>6. 1 \in 0..MaxCount
    BY CodecsAssumption
<1>7. ASSUME EncoderTypes', RunsSoFar(job, out', ends', pos', count', prev'), pos' = pos + 1
      PROVE  IInv'
    <2>1. EncodeInv'
        BY <1>1, <1>2, <1>3, <1>7, OneCodec DEF EncodeInv
    <2> QED
        BY <1>1, <1>7, <2>1, EncodeOn DEF Writing
<1>8. CASE pos = 0 /\ StartRun /\ UNCHANGED <<out, ends>>
    <2>1. pos' = 1 /\ prev' = RowOf(job, 1) /\ count' = 1 /\ out' = out /\ ends' = ends
        BY <1>8 DEF StartRun, Row, RowOf
    <2>2. EncoderTypes'
        BY <1>1, <1>2, <1>4, <1>6, <1>8, <2>1 DEF EncoderTypes
    <2>3. RunRows(job, out, ends, 0)
        BY <1>2, <1>5, <1>8 DEF RunsSoFar
    <2>4. RunsSoFar(job, out', ends', pos', count', prev')
        BY <2>1, <2>3 DEF RunsSoFar
    <2> QED
        BY <1>7, <1>8, <2>1, <2>2, <2>4
<1>9. CASE /\ pos > 0 /\ Continues(Row(pos + 1))
           /\ pos' = pos + 1 /\ count' = count + 1 /\ UNCHANGED <<prev, out, ends>>
    <2>1. RowOf(job, pos + 1) = prev /\ count < MaxCount
        BY <1>9 DEF Continues, Row, RowOf
    <2>2. count + 1 \in 0..MaxCount
        BY <1>2, <2>1, CodecsAssumption, SMT
    <2>3. EncoderTypes'
        BY <1>1, <1>2, <1>9, <2>2 DEF EncoderTypes
    <2>4. RunRows(job, out', ends', pos' - count')
        <3>1. pos' - count' = pos - count
            BY <1>2, <1>9
        <3> QED
            BY <1>5, <1>9, <3>1 DEF RunsSoFar
    <2>5. \A i \in (pos' - count' + 1)..pos' : RowOf(job, i) = prev'
        <3>1. \A i \in (pos' - count' + 1)..pos' : i \in (pos - count + 1)..pos \/ i = pos + 1
            BY <1>2, <1>9, SMT
        <3> QED
            BY <1>5, <1>9, <2>1, <3>1 DEF RunsSoFar
    <2>6. RunsSoFar(job, out', ends', pos', count', prev')
        BY <1>2, <1>5, <1>9, <2>4, <2>5 DEF RunsSoFar
    <2> QED
        BY <1>7, <1>9, <2>3, <2>6
<1>10. CASE pos > 0 /\ WriteRun /\ StartRun
    <2>1. pos' = pos + 1 /\ prev' = RowOf(job, pos + 1) /\ count' = 1
        BY <1>10 DEF StartRun, Row, RowOf
    <2>2. /\ out' \in Seq(Nat) /\ ends' \in Seq(Nat)
          /\ RunRows(job, out', ends', pos)
        BY <1>1, <1>2, <1>3, <1>5, <1>10, RunWritten
    <2>3. EncoderTypes'
        BY <1>1, <1>2, <1>4, <1>6, <2>1, <2>2 DEF EncoderTypes
    <2>4. RunsSoFar(job, out', ends', pos', count', prev')
        <3>1. pos' - count' = pos /\ count' <= pos' /\ count' > 0
            BY <1>2, <2>1
        <3>2. \A i \in (pos' - count' + 1)..pos' : i = pos + 1
            BY <1>2, <2>1, SMT
        <3> QED
            BY <2>1, <2>2, <3>1, <3>2 DEF RunsSoFar
    <2> QED
        BY <1>7, <2>1, <2>3, <2>4
<1> QED
    BY <1>8, <1>9, <1>10 DEF EncodeRun

LEMMA EndRunsIInv == ASSUME IInv, EndRuns PROVE IInv'
<1>1. /\ IsRLE(job) /\ phase = "encode" /\ Store /\ pos = Len(job.values)
      /\ job' = job
      /\ UNCHANGED <<pos, prev, count, dict>>
      /\ IF Len(job.values) = 0 THEN UNCHANGED <<out, ends>> ELSE WriteRun
    BY EncodingOf DEF EndRuns, Encoding, NumRows, Store
<1>2. /\ job \in Jobs /\ pos \in Nat /\ EncoderTypes /\ count \in Nat /\ EncodeInv
    BY <1>1, Numbers DEF IInv, Types, EncoderTypes
<1>3. RunsSoFar(job, out, ends, pos, count, prev) /\ Len(job.values) \in Nat
    BY <1>1, <1>2, JobFacts DEF EncodeInv
<1>4. /\ out' \in Seq(Nat) /\ ends' \in Seq(Nat)
      /\ RunRows(job, out', ends', Len(job.values))
    <2>1. CASE Len(job.values) = 0
        <3>1. RunRows(job, out, ends, 0)
            BY <1>1, <1>2, <1>3, <2>1 DEF RunsSoFar
        <3> QED
            BY <1>1, <1>2, <2>1, <3>1 DEF EncoderTypes
    <2>2. CASE Len(job.values) # 0
        <3>1. pos > 0 /\ pos <= Len(job.values) /\ WriteRun
            BY <1>1, <1>2, <2>2
        <3> QED
            BY <1>1, <1>2, <1>3, <3>1, RunWritten
    <2> QED
        BY <2>1, <2>2
<1>5. EncoderTypes'
    BY <1>1, <1>2, <1>4 DEF EncoderTypes
<1>6. Encoded(job, dict', out', ends')
    BY <1>1, <1>4, OneCodec DEF Encoded
<1> QED
    BY <1>1, <1>5, <1>6, StoreOn DEF Writing

LEMMA EncodeStringIInv == ASSUME IInv, Fits, EncodeString PROVE IInv'
<1>1. /\ IsStrings(job) /\ phase = "encode" /\ phase' = phase
      /\ pos < Len(job.values) /\ pos' = pos + 1
      /\ UNCHANGED <<job, prev, count, dict, tag, decoder>>
    BY EncodingOf DEF EncodeString, Encoding, NumRows
<1>2. /\ job \in Jobs /\ pos \in Nat /\ EncoderTypes /\ EncodeInv
    BY <1>1 DEF IInv, Types, EncoderTypes
<1>3. job.text /\ Len(job.values) \in Nat /\ job.values \in Seq(String)
    BY <1>1, <1>2, JobFacts, OneCodec
<1>4. WriteString(job.values[pos + 1]) /\ Len(job.values[pos + 1]) < FieldSize
    <2>1. WriteString(job.values[pos + 1])
        BY <1>3 DEF EncodeString, Row
    <2>2. pos + 1 \in 1..Len(job.values) /\ job.codec # "Dictionary"
        BY <1>1, <1>2, <1>3 DEF IsStrings
    <2> QED
        BY <1>3, <2>1, <2>2 DEF Fits, Written
<1>5. /\ out' \in Seq(Nat) /\ ends' \in Seq(Nat)
      /\ Frames(job.values, 0, out', ends', pos + 1)
      /\ Len(out') = From(0, ends', pos + 2)
    <2>1. /\ out \in Seq(Nat) /\ ends \in Seq(Nat)
          /\ Frames(job.values, 0, out, ends, pos) /\ Len(out) = From(0, ends, pos + 1)
        BY <1>1, <1>2 DEF EncoderTypes, EncodeInv
    <2> QED
        BY <1>1, <1>2, <1>3, <1>4, <2>1, FramesGrow
<1>6. EncoderTypes'
    BY <1>1, <1>2, <1>3, <1>5 DEF EncoderTypes
<1>7. EncodeInv'
    <2>1. pos' <= Len(job'.values) /\ pos' + 1 = pos + 2
        BY <1>1, <1>2, <1>3
    <2> QED
        BY <1>1, <1>5, <2>1, OneCodec DEF EncodeInv
<1> QED
    BY <1>1, <1>6, <1>7, EncodeOn DEF Writing

LEMMA EndStringsIInv == ASSUME IInv, EndStrings PROVE IInv'
<1>1. /\ IsStrings(job) /\ phase = "encode" /\ Store /\ pos = Len(job.values)
      /\ UNCHANGED <<job, pos, prev, count, dict, out, ends>>
    BY EncodingOf DEF EndStrings, Encoding, NumRows, Store
<1>2. EncoderTypes'
    BY <1>1 DEF IInv, Types, EncoderTypes
<1>3. /\ Frames(job.values, 0, out', ends', Len(job.values))
      /\ Len(out') = From(0, ends', Len(job.values) + 1)
    BY <1>1 DEF IInv, EncodeInv
<1>4. Encoded(job, dict', out', ends')
    BY <1>1, <1>3, OneCodec DEF Encoded
<1> QED
    BY <1>1, <1>2, <1>4, StoreOn DEF Writing

LEMMA BuildDictIInv == ASSUME IInv, BuildDict PROVE IInv'
<1> DEFINE s == job.values[pos + 1]
<1>1. /\ IsDictionary(job) /\ phase = "encode" /\ phase' = phase
      /\ pos < Len(job.values) /\ pos' = pos + 1
      /\ UNCHANGED <<job, prev, count, out, ends, tag, decoder>>
    BY EncodingOf DEF BuildDict, Encoding, NumRows
<1>2. /\ job \in Jobs /\ pos \in Nat /\ EncoderTypes /\ EncodeInv
    BY <1>1 DEF IInv, Types, EncoderTypes
<1>3. job.text /\ Len(job.values) \in Nat /\ job.values \in Seq(String)
    BY <1>1, <1>2, JobFacts, OneCodec
<1>4. dict' = IF Known(s) THEN dict ELSE Append(dict, s)
    BY <1>3 DEF BuildDict, Row
<1>5. s \in String
    BY <1>1, <1>2, <1>3, ElementOfSeq
<1>6. Covers(job, dict, pos) /\ ends = <<>> /\ dict \in Seq(String)
    BY <1>1, <1>2 DEF EncodeInv, EncoderTypes
<1> HIDE DEF s
<1>7. dict' \in Seq(String) /\ Covers(job, dict', pos + 1)
    <2>1. CASE Known(s)
        <3>1. \A i \in 1..(pos + 1) : i \in 1..pos \/ i = pos + 1
            BY <1>2, SMT
        <3>2. \E k \in 1..Len(dict) : dict[k] = job.values[pos + 1]
            BY <2>1 DEF Known, s
        <3> QED
            BY <1>4, <1>6, <2>1, <3>1, <3>2 DEF Covers
    <2>2. CASE ~ Known(s)
        <3>1. s = job.values[pos + 1]
            BY DEF s
        <3> QED
            BY <1>2, <1>4, <1>5, <1>6, <2>2, <3>1, DictGrows
    <2> QED
        BY <2>1, <2>2
<1>8. EncoderTypes'
    BY <1>1, <1>2, <1>3, <1>7 DEF EncoderTypes
<1>9. EncodeInv'
    <2>1. pos' <= Len(job'.values)
        BY <1>1, <1>2, <1>3
    <2> QED
        BY <1>1, <1>6, <1>7, <2>1, OneCodec DEF EncodeInv
<1> QED
    BY <1>1, <1>8, <1>9, EncodeOn DEF Writing

LEMMA WriteDictLenIInv == ASSUME IInv, Fits, WriteDictLen PROVE IInv'
<1>1. /\ IsDictionary(job) /\ phase = "encode" /\ phase' = "entries"
      /\ pos = Len(job.values) /\ pos' = 0 /\ out' = <<AsU32(Len(dict))>>
      /\ UNCHANGED <<job, prev, count, dict, ends, tag, decoder>>
    BY EncodingOf DEF WriteDictLen, Encoding, NumRows
<1>2. /\ job \in Jobs /\ EncoderTypes /\ EncodeInv /\ job.text
    BY <1>1, OneCodec DEF IInv, Types, EncoderTypes
<1>3. Covers(job, dict, Len(job.values)) /\ ends = <<>> /\ Len(dict) \in Nat
    BY <1>1, <1>2, LenProperties DEF EncodeInv, EncoderTypes
<1>4. out' \in Seq(Nat) /\ Len(out') = 1 /\ out'[1] = Len(dict)
    <2>1. AsU32(Len(dict)) = Len(dict)
        BY <1>2, <1>3, AsU32Is DEF Fits
    <2> QED
        BY <1>1, <1>3, <2>1
<1>5. EncoderTypes'
    BY <1>1, <1>2, <1>4 DEF EncoderTypes
<1>6. HasDict'
    BY <1>1, <1>3, <1>4 DEF HasDict
<1>7. Len(ends) = 0
    BY <1>3
<1>8. Frames(dict', 1, out', ends', pos') /\ Len(out') = From(1, ends', pos' + 1)
    BY <1>1, <1>4, <1>7 DEF Frames, From
<1>9. EntriesInv'
    BY <1>1, <1>3, <1>6, <1>8 DEF EntriesInv
<1> QED
    BY <1>1, <1>5, <1>9, EncodeOn DEF Writing

LEMMA WriteEntryIInv == ASSUME IInv, Fits, WriteEntry PROVE IInv'
<1>1. /\ phase = "entries" /\ phase' = phase
      /\ pos < Len(dict) /\ pos' = pos + 1 /\ WriteString(dict[pos + 1])
      /\ UNCHANGED <<job, prev, count, dict, tag, decoder>>
    BY DEF WriteEntry
<1>2. /\ pos \in Nat /\ EncoderTypes /\ EntriesInv
    BY <1>1 DEF IInv, Types, EncoderTypes
<1>3. /\ out \in Seq(Nat) /\ ends \in Seq(Nat) /\ dict \in Seq(String)
      /\ Frames(dict, 1, out, ends, pos) /\ Len(out) = From(1, ends, pos + 1)
      /\ HasDict /\ job.text /\ Len(dict) \in Nat
    BY <1>2, OneCodec, LenProperties DEF EncoderTypes, EntriesInv, HasDict
<1>4. /\ out' \in Seq(Nat) /\ ends' \in Seq(Nat)
      /\ Extends(out', out)
      /\ Frames(dict, 1, out', ends', pos + 1)
      /\ Len(out') = From(1, ends', pos + 2)
    <2>1. pos + 1 \in 1..Len(dict) /\ job.codec = "Dictionary"
        BY <1>1, <1>2, <1>3 DEF HasDict, IsDictionary
    <2>2. Len(dict[pos + 1]) < FieldSize
        BY <1>3, <2>1 DEF Fits, Written
    <2> QED
        BY <1>1, <1>2, <1>3, <2>2, FramesGrow
<1>5. EncoderTypes'
    BY <1>1, <1>2, <1>3, <1>4 DEF EncoderTypes
<1>6. HasDict'
    <2>1. Len(out) \in Nat /\ Len(out') \in Nat
        BY <1>3, <1>4, LenProperties
    <2>2. 1 \in 1..Len(out) /\ Len(out') >= 1
        BY <2>1, <1>3, <1>4, SMT DEF HasDict, Extends
    <2>3. out'[1] = out[1]
        BY <2>2, <1>4 DEF Extends
    <2> QED
        BY <1>1, <1>3, <2>2, <2>3 DEF HasDict
<1>7. EntriesInv'
    <2>1. pos' <= Len(dict') /\ pos' + 1 = pos + 2
        BY <1>1, <1>2, <1>3
    <2> QED
        BY <1>1, <1>4, <1>6, <2>1 DEF EntriesInv
<1> QED
    BY <1>1, <1>5, <1>7, EncodeOn DEF Writing

LEMMA EndEntriesIInv == ASSUME IInv, EndEntries PROVE IInv'
<1>1. /\ phase = "entries" /\ phase' = "indices" /\ pos = Len(dict) /\ pos' = 0
      /\ UNCHANGED <<job, prev, count, dict, out, ends, tag, decoder>>
    BY DEF EndEntries
<1>2. /\ job \in Jobs /\ EncoderTypes /\ EntriesInv
    BY <1>1 DEF IInv, Types, EncoderTypes
<1>3. EncoderTypes'
    BY <1>1, <1>2 DEF EncoderTypes
<1>4. Len(job.values) \in Nat /\ HasDict
    BY <1>2, JobFacts DEF EntriesInv
<1>5. Len(out) = DictEnd(dict, ends) /\ Len(out) \in Nat
    BY <1>1, <1>2, LenProperties DEF EntriesInv, DictEnd, EncoderTypes
<1>6. IndexRows(job, dict, out, DictEnd(dict, ends), 0)
    BY DEF IndexRows
<1>7. HasDict' /\ Frames(dict', 1, out', ends', Len(dict'))
    BY <1>1, <1>2, <1>4 DEF HasDict, EntriesInv
<1>8. IndicesInv'
    BY <1>1, <1>4, <1>5, <1>6, <1>7 DEF IndicesInv
<1> QED
    BY <1>1, <1>3, <1>8, EncodeOn DEF Writing

LEMMA WriteIndexIInv == ASSUME IInv, Fits, WriteIndex PROVE IInv'
<1> DEFINE x == Index(job.values[pos + 1])
           b == DictEnd(dict, ends)
<1>1. /\ phase = "indices" /\ phase' = phase /\ IndicesInv /\ HasDict
      /\ pos < Len(job.values) /\ pos' = pos + 1
      /\ UNCHANGED <<job, prev, count, dict, ends, tag, decoder>>
    BY DEF WriteIndex, NumRows, IInv, IndicesInv
<1>2. /\ job \in Jobs /\ pos \in Nat /\ EncoderTypes /\ IsDictionary(job) /\ job.text
      /\ dict \in Seq(String) /\ out \in Seq(Nat) /\ ends \in Seq(Nat) /\ Len(dict) \in Nat
      /\ Len(job.values) \in Nat
    BY <1>1, OneCodec, JobFacts, LenProperties DEF IInv, Types, EncoderTypes, HasDict
<1>3. out' = Append(out, x)
    BY <1>2 DEF WriteIndex, Row
<1>4. Known(job.values[pos + 1])
    <2>1. pos + 1 \in 1..Len(job.values)
        BY <1>1, <1>2
    <2> QED
        BY <1>1, <2>1 DEF HasDict, Covers, Known
<1>5. x \in Nat /\ x < Len(dict) /\ dict[x + 1] = job.values[pos + 1]
    BY <1>2, <1>4, IndexFound DEF Fits
<1>6. b \in Nat
    <2>1. Len(ends) = Len(dict)
        BY <1>1 DEF IndicesInv, Frames
    <2>2. Len(dict) + 1 \in 1..(Len(ends) + 1)
        BY <1>2, <2>1
    <2> QED
        BY <1>2, <2>2, FromType DEF DictEnd
<1>7. /\ Frames(dict, 1, out, ends, Len(dict))
      /\ Len(out) = b + pos
      /\ IndexRows(job, dict, out, b, pos)
    BY <1>1 DEF IndicesInv
<1> HIDE DEF x, b
<1>8. out' \in Seq(Nat) /\ Len(out') = Len(out) + 1 /\ Extends(out', out)
    BY <1>2, <1>3, <1>5, Appended
<1>9. IndexRows(job, dict, out', b, pos + 1)
    BY <1>2, <1>3, <1>5, <1>6, <1>7, IndexGrows
<1>10. Frames(dict, 1, out', ends, Len(dict))
    <2>1. Len(dict) \in 0..Len(dict) /\ 1 \in Nat
        BY <1>2
    <2> QED
        BY <1>2, <1>7, <1>8, <2>1, FramesKept
<1>11. HasDict'
    <2>1. Len(out) \in Nat /\ Len(out) >= 1
        BY <1>1, <1>2, LenProperties DEF HasDict
    <2>2. 1 \in 1..Len(out) /\ Len(out') >= 1
        BY <2>1, <1>8
    <2>3. out'[1] = out[1]
        BY <2>2, <1>8 DEF Extends
    <2> QED
        BY <1>1, <2>2, <2>3 DEF HasDict
<1>12. EncoderTypes'
    BY <1>1, <1>2, <1>8 DEF EncoderTypes
<1>13. IndicesInv'
    <2>1. pos' <= Len(job'.values) /\ Len(out') = b + pos'
        BY <1>1, <1>2, <1>6, <1>7, <1>8
    <2> QED
        BY <1>1, <1>9, <1>10, <1>11, <2>1 DEF IndicesInv, b
<1> QED
    BY <1>1, <1>12, <1>13, EncodeOn DEF Writing

LEMMA EndIndicesIInv == ASSUME IInv, EndIndices PROVE IInv'
<1>1. /\ phase = "indices" /\ Store /\ pos = Len(job.values)
      /\ UNCHANGED <<job, pos, prev, count, dict, out, ends>>
      /\ IndicesInv
    BY DEF EndIndices, NumRows, Store, IInv
<1>2. EncoderTypes'
    BY <1>1 DEF IInv, Types, EncoderTypes
<1>3. Encoded(job, dict', out', ends')
    BY <1>1, OneCodec DEF Encoded, IndicesInv, HasDict
<1> QED
    BY <1>1, <1>2, <1>3, StoreOn DEF Writing

LEMMA EncodeIInv == ASSUME IInv, Fits, Encode PROVE IInv'
BY EncodePlainIInv, EncodeDeltaIInv, EndDeltaIInv, EncodeRunIInv, EndRunsIInv,
   EncodeStringIInv, EndStringsIInv, BuildDictIInv, WriteDictLenIInv, WriteEntryIInv,
   EndEntriesIInv, WriteIndexIInv, EndIndicesIInv DEF Encode

-----------------------------------------------------------------------------
(***************************************************************************)
(* The invariant is inductive: one lemma per action of the decoder         *)
(***************************************************************************)
LEMMA OpenIInv ==
    ASSUME IInv, NEW n \in 0..Len(out), NEW part \in BOOLEAN, Open(n, part)
    PROVE  IInv'
<1>1. /\ phase = "stored" /\ phase' = "decode" /\ src' = SubSeq(out, 1, n) /\ torn' = part
      /\ part => n < Len(out)
      /\ UNCHANGED <<job, pos, prev, count, dict, out, ends, tag, at, last, entries, decoded>>
    BY DEF Open, encoder
<1>2. /\ Types /\ Stored /\ at = 0 /\ entries = <<>> /\ decoded = <<>>
    BY <1>1 DEF IInv, Writing, Fresh
<1>3. job \in Jobs /\ out \in Seq(Nat) /\ Len(out) \in Nat /\ n \in Nat /\ n <= Len(out)
    BY <1>2, LenProperties DEF Types
<1>4. Len(job.values) \in Nat
    BY <1>3, JobFacts
<1>5. /\ src' \in Seq(Nat) /\ Len(src') = n
      /\ \A i \in 1..n : src'[i] = out[i]
    <2> DEFINE t == SubSeq(out, 1, n)
    <2>1. \A i \in 1..n : out[i] \in Nat
        BY <1>3, ElementOfSeq
    <2>2. /\ t \in Seq(Nat)
          /\ Len(t) = IF 1 <= n THEN n - 1 + 1 ELSE 0
          /\ \A i \in 1..(n - 1 + 1) : t[i] = out[1 + i - 1]
        BY <1>3, <2>1, SubSeqProperties
    <2>3. t = src'
        BY <1>1
    <2> HIDE DEF t
    <2>4. Len(t) = n
        BY <1>3, <2>2, SMT
    <2>5. ASSUME NEW i \in 1..n PROVE t[i] = out[i]
        <3>1. i \in 1..(n - 1 + 1) /\ 1 + i - 1 = i
            BY <1>3, SMT
        <3> QED
            BY <2>2, <3>1
    <2> QED
        BY <2>2, <2>3, <2>4, <2>5
<1>6. Given'
    BY <1>1, <1>3, <1>5 DEF Given, Extends
<1>7. Stored'
    BY <1>1, <1>2 DEF Stored
<1>8. Types'
    <2>1. at' \in 0..Len(src')
        BY <1>1, <1>2, <1>3, <1>5
    <2>2. phase' \in Phases /\ torn' \in BOOLEAN
        BY <1>1, Zenon DEF Phases
    <2> QED
        BY <1>1, <1>2, <1>5, <2>1, <2>2, Zenon DEF Types
<1>9. DecodeInv'
    <2>1. at' = 0 /\ decoded' = <<>> /\ entries' = <<>> /\ Len(decoded') = 0 /\ job' = job
        BY <1>1, <1>2
    <2>2. Rows(job', decoded')
        BY <1>4, <2>1 DEF Rows
    <2>3. From(0, ends', 1) = 0
        BY DEF From
    <2>4. IsRLE(job') => \E k \in Nat : at' = 2 * k /\ Len(decoded') = From(0, ends', k + 1)
        <3>1. 0 \in Nat /\ at' = 2 * 0 /\ Len(decoded') = From(0, ends', 0 + 1)
            BY <2>1, <2>3
        <3> QED
            BY <3>1
    <2> QED
        BY <2>1, <2>2, <2>3, <2>4 DEF DecodeInv
<1> QED
    BY <1>1, <1>6, <1>7, <1>8, <1>9 DEF IInv, Writing

\* The tag leads to the decoder of the codec that encoded the block.
LEMMA DecodingOf ==
    ASSUME IInv
    PROVE  /\ Decoding(FALSE, "Plain") => IsPlain(job)
           /\ Decoding(FALSE, "Delta") => IsDelta(job)
           /\ Decoding(FALSE, "RLE") => IsRLE(job)
           /\ Decoding(TRUE, "Plain") => IsStrings(job)
           /\ Decoding(TRUE, "Dictionary") => IsDictionary(job)
<1>1. FromTag(job.text, Tag(job.codec)) = job.codec
    BY JobFacts DEF IInv, Types
<1>2. phase = "decode" => tag = Tag(job.codec)
    BY DEF IInv, Writing, Stored
<1>3. ASSUME NEW text, NEW codec, Decoding(text, codec)
      PROVE  job.codec = codec /\ job.text = text
    BY <1>1, <1>2, <1>3 DEF Decoding
<1> QED
    BY <1>3 DEF IsPlain, IsDelta, IsRLE, IsStrings, IsDictionary

\* What every step of the decoder can use.
LEMMA DecoderFacts ==
    ASSUME IInv, phase \in Reading
    PROVE  /\ job \in Jobs /\ Len(job.values) \in Nat
           /\ out \in Seq(Nat) /\ src \in Seq(Nat) /\ ends \in Seq(Nat) /\ dict \in Seq(String)
           /\ Len(out) \in Nat /\ Len(src) \in Nat /\ Len(ends) \in Nat /\ Len(dict) \in Nat
           /\ at \in Nat /\ at <= Len(src) /\ Len(src) <= Len(out)
           /\ DecoderTypes
           /\ Encoded(job, dict, out, ends)
           /\ Extends(out, src) /\ (torn => Len(src) < Len(out))
<1>1. Types /\ Stored /\ Given
    BY DEF IInv, Reading, Writing
<1>2. /\ out \in Seq(Nat) /\ src \in Seq(Nat) /\ ends \in Seq(Nat) /\ dict \in Seq(String)
      /\ at \in 0..Len(src) /\ job \in Jobs
    BY <1>1 DEF Types
<1>3. Len(out) \in Nat /\ Len(src) \in Nat /\ Len(ends) \in Nat /\ Len(dict) \in Nat
    BY <1>2, LenProperties
<1>4. Len(job.values) \in Nat
    BY <1>2, JobFacts
<1>5. DecoderTypes
    BY <1>1 DEF Types, DecoderTypes
<1>6. at \in Nat /\ at <= Len(src)
    BY <1>2, <1>3
<1> QED
    BY <1>1, <1>2, <1>3, <1>4, <1>5, <1>6 DEF Stored, Given, Extends

\* The decoder returns.
LEMMA ReturnOn ==
    ASSUME IInv, phase \in Reading, NEW r \in {"ok", "err"}, Return(r),
           r = "ok" => /\ Rows(job, decoded)
                       /\ Len(src) = Len(out) => Len(decoded) = Len(job.values),
           r = "err" => Len(src) < Len(out)
    PROVE  IInv'
<1>1. /\ phase' = r
      /\ UNCHANGED <<job, encoder, src, torn, at, last, entries, decoded>>
    BY DEF Return
<1>2. DecoderTypes'
    BY <1>1, DecoderFacts DEF DecoderTypes
<1> QED
    BY <1>1, <1>2, DecodeOn DEF Reading

LEMMA DecodePlainIInv == ASSUME IInv, DecodePlain PROVE IInv'
<1>1. /\ IsPlain(job) /\ phase = "decode" /\ phase \in Reading
      /\ phase' = IF torn THEN "err" ELSE "ok"
      /\ decoded' = IF torn THEN decoded ELSE src
      /\ UNCHANGED <<job, encoder, src, torn, at, last, entries>>
    BY DecodingOf DEF DecodePlain, Decoding, Reading
<1>2. ~ job.text /\ Len(out) = Len(job.values) /\ \A i \in 1..Len(job.values) : out[i] = RowOf(job, i)
    BY <1>1, OneCodec, DecoderFacts DEF Encoded
<1>3. Rows(job, src)
    <2>1. Len(src) \in Nat /\ Len(job.values) \in Nat /\ Len(src) <= Len(out) /\ Extends(out, src)
        BY <1>1, DecoderFacts
    <2>2. ASSUME NEW i \in 1..Len(src) PROVE src[i] = RowOf(job, i)
        <3>1. i \in 1..Len(job.values)
            BY <1>2, <2>1
        <3>2. src[i] = out[i]
            BY <2>1 DEF Extends
        <3> QED
            BY <1>2, <3>1, <3>2
    <2> QED
        BY <1>2, <2>1, <2>2 DEF Rows
<1>4. src \in Seq(Raw)
    <2>1. \A i \in 1..Len(job.values) : RowOf(job, i) \in Raw
        BY <1>1, <1>2, DecoderFacts, JobFacts
    <2>2. \A i \in 1..Len(src) : src[i] \in Raw
        BY <1>1, <1>3, <2>1, DecoderFacts DEF Rows
    <2>3. SubSeq(src, 1, Len(src)) \in Seq(Raw)
        BY <1>1, <2>2, DecoderFacts, SubSeqProperties
    <2>4. SubSeq(src, 1, Len(src)) = src
        BY <1>1, DecoderFacts, SubSeqFull
    <2> QED
        BY <2>3, <2>4
<1>5. DecoderTypes'
    BY <1>1, <1>2, <1>4, DecoderFacts DEF DecoderTypes
<1>6. phase' \in {"ok", "err"}
    BY <1>1
<1>7. phase' = "ok" => /\ Rows(job, decoded')
                       /\ Len(src) = Len(out) => Len(decoded') = Len(job.values)
    BY <1>1, <1>2, <1>3
<1>8. phase' = "err" => Len(src) < Len(out)
    BY <1>1, DecoderFacts
<1> QED
    BY <1>1, <1>5, <1>6, <1>7, <1>8, DecodeOn

LEMMA RowDecoded ==
    ASSUME NEW j, Len(j.values) \in Nat, NEW S, NEW rows \in Seq(S), Rows(j, rows),
           Len(rows) < Len(j.values), NEW x \in S, x = RowOf(j, Len(rows) + 1)
    PROVE  /\ Append(rows, x) \in Seq(S)
           /\ Rows(j, Append(rows, x))
           /\ Len(Append(rows, x)) = Len(rows) + 1
<1> DEFINE a == Append(rows, x)
<1>1. /\ a \in Seq(S) /\ Len(a) = Len(rows) + 1 /\ a[Len(rows) + 1] = x
      /\ Extends(a, rows) /\ Len(rows) \in Nat
    BY Appended, LenProperties
<1> HIDE DEF a
<1>2. ASSUME NEW i \in 1..Len(a) PROVE a[i] = RowOf(j, i)
    <2>1. CASE i = Len(rows) + 1
        BY <2>1, <1>1
    <2>2. CASE i # Len(rows) + 1
        <3>1. i \in 1..Len(rows)
            BY <2>2, <1>1
        <3> QED
            BY <3>1, <1>1 DEF Rows, Extends
    <2> QED
        BY <2>1, <2>2
<1>3. Rows(j, a)
    BY <1>1, <1>2 DEF Rows
<1> QED
    BY <1>1, <1>3 DEF a

\* The fields that the decoder is given are those that the encoder wrote.
LEMMA GivenField ==
    ASSUME IInv, phase \in Reading, NEW i \in Nat, i < Len(src)
    PROVE  src[i + 1] = out[i + 1] /\ i + 1 <= Len(out)
<1>1. Len(src) \in Nat /\ Len(out) \in Nat /\ Extends(out, src) /\ Len(src) <= Len(out)
    BY DecoderFacts
<1>2. i + 1 \in 1..Len(src)
    BY <1>1
<1> QED
    BY <1>1, <1>2 DEF Extends

LEMMA DecodeDeltaIInv == ASSUME IInv, DecodeDelta PROVE IInv'
<1> DEFINE curr == IF at = 0 THEN src[1] ELSE WrappingAdd(last, src[at + 1])
<1>1. /\ IsDelta(job) /\ phase = "decode" /\ phase' = "decode" /\ phase \in Reading
      /\ Left > 0
      /\ decoded' = Append(decoded, curr) /\ last' = curr /\ at' = at + 1
      /\ UNCHANGED <<job, encoder, src, torn, entries>>
    BY DecodingOf DEF DecodeDelta, Decoding, Reading
<1>2. /\ job \in Jobs /\ Len(job.values) \in Nat
      /\ Len(out) \in Nat /\ Len(src) \in Nat
      /\ at \in Nat /\ at < Len(src) /\ Len(src) <= Len(out)
      /\ DecoderTypes /\ Encoded(job, dict, out, ends) /\ DecodeInv
    <2>1. at < Len(src)
        BY <1>1, DecoderFacts DEF Left
    <2> QED
        BY <1>1, <2>1, DecoderFacts DEF IInv
<1>3. ~ job.text /\ \A i \in 1..Len(job.values) : RowOf(job, i) \in Raw
    BY <1>1, <1>2, OneCodec, JobFacts
<1>4. DeltaRows(job, out, Len(job.values))
    BY <1>1, <1>2 DEF Encoded
<1>5. at < Len(job.values) /\ at + 1 \in 1..Len(job.values)
    BY <1>2, <1>4 DEF DeltaRows
<1>6. Rows(job, decoded) /\ Len(decoded) = at /\ (at > 0 => last = RowOf(job, at))
    BY <1>1, <1>2 DEF DecodeInv
<1>7. src[at + 1] = out[at + 1]
    BY <1>1, <1>2, GivenField
<1>8. curr = RowOf(job, at + 1)
    <2>1. CASE at = 0
        <3>1. 1 \in 1..Len(job.values) /\ src[1] = out[1]
            BY <2>1, <1>5, <1>7
        <3> QED
            BY <2>1, <3>1, <1>4 DEF DeltaRows
    <2>2. CASE at # 0
        <3>1. at + 1 # 1 /\ (at + 1) - 1 = at /\ at > 0 /\ at \in 1..Len(job.values)
            BY <2>2, <1>2, <1>5
        <3>2. out[at + 1] = WrappingSub(RowOf(job, at + 1), RowOf(job, at))
            BY <3>1, <1>4, <1>5 DEF DeltaRows
        <3>3. RowOf(job, at) \in Raw /\ RowOf(job, at + 1) \in Raw
            BY <3>1, <1>3, <1>5
        <3>4. WrappingAdd(RowOf(job, at), WrappingSub(RowOf(job, at + 1), RowOf(job, at)))
                  = RowOf(job, at + 1)
            BY <3>3, Wraps
        <3> QED
            BY <2>2, <3>1, <3>2, <3>4, <1>6, <1>7
    <2> QED
        BY <2>1, <2>2
<1>9. curr \in Raw
    BY <1>3, <1>5, <1>8
<1> HIDE DEF curr
<1>10. decoded \in Seq(Raw)
    BY <1>2, <1>3 DEF DecoderTypes
<1>11. decoded' \in Seq(Raw) /\ Rows(job, decoded') /\ Len(decoded') = at + 1
    BY <1>1, <1>2, <1>5, <1>6, <1>8, <1>9, <1>10, RowDecoded
<1>12. DecoderTypes'
    <2>1. at' \in 0..Len(src')
        BY <1>1, <1>2
    <2> QED
        BY <1>1, <1>2, <1>3, <1>9, <1>11, <2>1 DEF DecoderTypes
<1>13. DecodeInv'
    BY <1>1, <1>8, <1>11, OneCodec DEF DecodeInv
<1> QED
    BY <1>1, <1>12, <1>13, DecodeOn DEF Reading

LEMMA EndDecodeDeltaIInv == ASSUME IInv, EndDecodeDelta PROVE IInv'
<1>1. /\ IsDelta(job) /\ phase = "decode" /\ phase \in Reading
      /\ torn \/ AtEnd
      /\ Return(IF torn THEN "err" ELSE "ok")
    BY DecodingOf DEF EndDecodeDelta, Decoding, Reading
<1>2. /\ Encoded(job, dict, out, ends) /\ DecodeInv /\ at \in Nat /\ Len(src) \in Nat
      /\ (torn => Len(src) < Len(out))
    BY <1>1, DecoderFacts DEF IInv
<1>3. Rows(job, decoded) /\ Len(decoded) = at /\ Len(out) = Len(job.values)
    BY <1>1, <1>2 DEF DecodeInv, Encoded, DeltaRows
<1>4. CASE torn
    BY <1>1, <1>2, <1>4, ReturnOn
<1>5. CASE ~ torn
    <2>1. at = Len(src)
        BY <1>1, <1>2, <1>5 DEF AtEnd, Left
    <2> QED
        BY <1>1, <1>3, <1>5, <2>1, ReturnOn
<1> QED
    BY <1>4, <1>5

LEMMA DecodeRunIInv == ASSUME IInv, DecodeRun PROVE IInv'
<1>1. /\ IsRLE(job) /\ phase = "decode" /\ phase' = "decode" /\ phase \in Reading
      /\ Left >= 2 /\ at' = at + 2
      /\ decoded' = decoded \o Repeat(src[at + 2], src[at + 1])
      /\ UNCHANGED <<job, encoder, src, torn, last, entries>>
    BY DecodingOf DEF DecodeRun, Decoding, Reading, Repeat
<1>2. /\ job \in Jobs /\ Len(job.values) \in Nat
      /\ out \in Seq(Nat) /\ src \in Seq(Nat) /\ ends \in Seq(Nat)
      /\ Len(out) \in Nat /\ Len(src) \in Nat
      /\ at \in Nat /\ at + 2 <= Len(src)
      /\ DecoderTypes /\ Encoded(job, dict, out, ends) /\ DecodeInv
      /\ Extends(out, src)
    <2>1. at + 2 <= Len(src)
        BY <1>1, DecoderFacts DEF Left
    <2> QED
        BY <1>1, <2>1, DecoderFacts DEF IInv
<1>3. ~ job.text /\ \A i \in 1..Len(job.values) : RowOf(job, i) \in Raw
    BY <1>1, <1>2, OneCodec, JobFacts
<1>4. PICK k \in Nat : at = 2 * k /\ Len(decoded) = From(0, ends, k + 1)
    BY <1>1, <1>2 DEF DecodeInv
<1>5. decoded \in Seq(Raw)
    BY <1>2, <1>3 DEF DecoderTypes
<1>6. NextRun(job, k, ends, out, src, decoded)
    BY <1>1, <1>2, <1>3, <1>4 DEF NextRun, Encoded, DecodeInv
<1>7. decoded' = decoded \o Repeat(src[2 * k + 2], src[2 * k + 1])
    BY <1>1, <1>4
<1>8. /\ decoded' \in Seq(Raw)
      /\ Rows(job, decoded')
      /\ Len(decoded') = From(0, ends, k + 2)
    <2>1. RunDone(job, k, ends, decoded \o Repeat(src[2 * k + 2], src[2 * k + 1]))
        BY <1>2, <1>5, <1>6, RunRead, Zenon
    <2> QED
        BY <2>1, <1>7 DEF RunDone
<1>9. DecoderTypes'
    <2>1. at' \in 0..Len(src')
        BY <1>1, <1>2
    <2> QED
        BY <1>1, <1>2, <1>3, <1>8, <2>1 DEF DecoderTypes
<1>10. DecodeInv'
    <2>1. ends' = ends /\ job' = job
        BY <1>1 DEF encoder
    <2>2. k + 1 \in Nat /\ at' = 2 * (k + 1) /\ (k + 1) + 1 = k + 2
        BY <1>1, <1>4
    <2>3. \E m \in Nat : at' = 2 * m /\ Len(decoded') = From(0, ends', m + 1)
        BY <1>8, <2>1, <2>2
    <2> QED
        BY <1>1, <1>8, <2>1, <2>3, OneCodec DEF DecodeInv
<1> QED
    BY <1>1, <1>9, <1>10, DecodeOn DEF Reading

LEMMA EndDecodeRunsIInv == ASSUME IInv, EndDecodeRuns PROVE IInv'
<1>1. /\ IsRLE(job) /\ phase = "decode" /\ phase \in Reading
      /\ Left < 2
      /\ Return(IF AtEnd THEN "ok" ELSE "err")
    BY DecodingOf DEF EndDecodeRuns, Decoding, Reading
<1>2. /\ Encoded(job, dict, out, ends) /\ DecodeInv /\ at \in Nat /\ at <= Len(src)
      /\ Len(src) \in Nat /\ Len(out) \in Nat /\ Len(ends) \in Nat /\ Len(src) <= Len(out)
      /\ (torn => Len(src) < Len(out))
    BY <1>1, DecoderFacts DEF IInv
<1>3. PICK k \in Nat : at = 2 * k /\ Len(decoded) = From(0, ends, k + 1)
    BY <1>1, <1>2 DEF DecodeInv
<1>4. /\ Rows(job, decoded) /\ Len(out) = 2 * Len(ends)
      /\ From(0, ends, Len(ends) + 1) = Len(job.values)
    BY <1>1, <1>2 DEF DecodeInv, Encoded, RunRows
<1>5. CASE AtEnd
    <2>1. ASSUME Len(src) = Len(out) PROVE Len(decoded) = Len(job.values)
        <3>1. k = Len(ends)
            BY <1>2, <1>3, <1>4, <1>5, <2>1 DEF AtEnd, Left
        <3> QED
            BY <1>3, <1>4, <3>1
    <2> QED
        BY <1>1, <1>4, <1>5, <2>1, ReturnOn
<1>6. CASE ~ AtEnd
    <2>1. Len(src) < Len(out)
        <3>1. CASE torn
            BY <1>2, <3>1
        <3>2. CASE ~ torn
            <4>1. Len(src) = 2 * k + 1
                BY <1>1, <1>2, <1>3, <1>6, <3>2 DEF AtEnd, Left
            <4> QED
                BY <1>2, <1>4, <4>1
        <3> QED
            BY <3>1, <3>2
    <2> QED
        BY <1>1, <1>6, <2>1, ReturnOn
<1> QED
    BY <1>5, <1>6

\* The decoder is in front of string m + 1 of strs.
AtString(strs, b, m) == strs \in Seq(String) /\ b \in Nat /\ m \in Nat
                        /\ NextFrame(strs, b, m, ends, out, src, at)

LEMMA StringFound ==
    ASSUME IInv, phase \in Reading, NEW strs, NEW b, NEW m, AtString(strs, b, m)
    PROVE  FrameFound(strs, b, m, ends, out, src, at)
<1>1. /\ strs \in Seq(String) /\ b \in Nat /\ m \in Nat
      /\ NextFrame(strs, b, m, ends, out, src, at)
    BY DEF AtString
<1>2. /\ out \in Seq(Nat) /\ src \in Seq(Nat) /\ ends \in Seq(Nat) /\ at \in Nat
    BY DecoderFacts
<1> QED
    BY <1>1, <1>2, FrameRead, Zenon

LEMMA StringRead ==
    ASSUME IInv, phase \in Reading, NEW strs, NEW b, NEW m, AtString(strs, b, m),
           StringComplete
    PROVE  /\ NextString = strs[m + 1] /\ strs[m + 1] \in String
           /\ at + 1 + src[at + 1] = From(b, ends, m + 2)
           /\ at + 1 + src[at + 1] \in 0..Len(src)
<1> DEFINE n == Len(strs[m + 1])
<1>1. /\ out \in Seq(Nat) /\ src \in Seq(Nat) /\ ends \in Seq(Nat)
      /\ at \in Nat /\ Len(src) \in Nat
    BY DecoderFacts
<1>2. /\ strs[m + 1] \in String /\ n \in Nat
      /\ From(b, ends, m + 2) = at + 1 + n
      /\ at < Len(src) => src[at + 1] = n
      /\ at + 1 + n <= Len(src) => SubSeq(src, at + 2, at + 1 + n) = strs[m + 1]
    BY StringFound DEF FrameFound
<1> HIDE DEF n
<1>3. Len(src) - at > 0 /\ (Len(src) - at) - 1 >= src[at + 1]
    BY DEF StringComplete, Left
<1>4. src[at + 1] = n /\ at + 1 + n <= Len(src)
    BY <1>1, <1>2, <1>3
<1>5. NextString = SubSeq(src, at + 2, at + 1 + n)
    BY <1>4 DEF NextString
<1> QED
    BY <1>1, <1>2, <1>4, <1>5

LEMMA StringMissing ==
    ASSUME IInv, phase \in Reading, NEW strs, NEW b, NEW m, AtString(strs, b, m),
           ~ StringComplete
    PROVE  Len(src) < Len(out)
<1> DEFINE n == Len(strs[m + 1])
<1>1. /\ out \in Seq(Nat) /\ src \in Seq(Nat) /\ ends \in Seq(Nat)
      /\ at \in Nat /\ Len(src) \in Nat /\ Len(out) \in Nat /\ at <= Len(src)
    BY DecoderFacts
<1>2. /\ n \in Nat
      /\ at + 1 + n <= Len(out)
      /\ at < Len(src) => src[at + 1] = n
    BY StringFound DEF FrameFound
<1> HIDE DEF n
<1>3. ~ (Len(src) - at > 0 /\ (Len(src) - at) - 1 >= src[at + 1])
    <2> SUFFICES ASSUME Len(src) - at > 0, (Len(src) - at) - 1 >= src[at + 1] PROVE FALSE
        OBVIOUS
    <2>1. src[at + 1] = n /\ at + 1 + n <= Len(src)
        BY <1>1, <1>2
    <2>2. NextString = strs[m + 1] /\ strs[m + 1] \in String
        BY <2>1, StringFound DEF FrameFound, NextString, n
    <2> QED
        BY <2>2 DEF StringComplete, Left
<1>4. CASE at < Len(src)
    BY <1>1, <1>2, <1>3, <1>4
<1>5. CASE at = Len(src)
    BY <1>1, <1>2, <1>5
<1> QED
    BY <1>1, <1>4, <1>5

\* As long as rows are missing there is a string in front of the decoder.
LEMMA StringsAhead ==
    ASSUME IInv, phase = "decode", IsStrings(job)
    PROVE  /\ Rows(job, decoded) /\ decoded \in Seq(String) /\ Len(decoded) \in Nat
           /\ Len(decoded) = Len(job.values) => at = Len(out)
           /\ Len(decoded) # Len(job.values) =>
                 Len(decoded) < Len(job.values) /\ AtString(job.values, 0, Len(decoded))
<1>0. phase \in Reading
    BY DEF Reading
<1>1. /\ job \in Jobs /\ Len(job.values) \in Nat /\ DecodeInv /\ DecoderTypes
      /\ Encoded(job, dict, out, ends) /\ Extends(out, src)
    BY <1>0, DecoderFacts DEF IInv
<1>2. job.text /\ job.values \in Seq(String)
    BY <1>1, JobFacts, OneCodec
<1>3. decoded \in Seq(String) /\ Len(decoded) \in Nat
    <2>1. decoded \in Seq(String)
        BY <1>1, <1>2 DEF DecoderTypes
    <2> QED
        BY <2>1, LenProperties
<1>4. /\ Rows(job, decoded) /\ Len(decoded) <= Len(job.values)
      /\ at = From(0, ends, Len(decoded) + 1)
    BY <1>1 DEF DecodeInv, Rows
<1>5. Frames(job.values, 0, out, ends, Len(job.values)) /\ Len(out) = From(0, ends, Len(job.values) + 1)
    BY <1>1 DEF Encoded
<1>6. ASSUME Len(decoded) # Len(job.values)
      PROVE  Len(decoded) < Len(job.values) /\ AtString(job.values, 0, Len(decoded))
    <2>1. Len(decoded) < Len(job.values)
        BY <1>1, <1>3, <1>4, <1>6
    <2> QED
        BY <1>1, <1>2, <1>3, <1>4, <1>5, <2>1 DEF AtString, NextFrame
<1> QED
    BY <1>3, <1>4, <1>5, <1>6

LEMMA DecodeStringIInv == ASSUME IInv, DecodeString PROVE IInv'
<1>1. /\ IsStrings(job) /\ phase = "decode" /\ phase' = "decode" /\ phase \in Reading
      /\ StringComplete
      /\ decoded' = Append(decoded, NextString)
      /\ at' = at + 1 + src[at + 1]
      /\ UNCHANGED <<job, encoder, src, torn, last, entries>>
    BY DecodingOf DEF DecodeString, Decoding, Reading
<1>2. /\ job \in Jobs /\ Len(job.values) \in Nat /\ DecoderTypes
      /\ at \in Nat /\ Len(src) \in Nat /\ Len(src) <= Len(out) /\ Len(out) \in Nat
    BY <1>1, DecoderFacts
<1>3. Len(decoded) < Len(job.values) /\ AtString(job.values, 0, Len(decoded))
    <2>1. at < Len(src)
        BY <1>1, <1>2 DEF StringComplete, Left
    <2>2. at # Len(out)
        BY <1>2, <2>1
    <2> QED
        BY <1>1, <2>2, StringsAhead
<1>4. Rows(job, decoded) /\ decoded \in Seq(String) /\ Len(decoded) \in Nat
    BY <1>1, StringsAhead
<1>5. /\ NextString = job.values[Len(decoded) + 1] /\ NextString \in String
      /\ at' = From(0, ends, Len(decoded) + 2) /\ at' \in 0..Len(src)
    <2>1. /\ NextString = job.values[Len(decoded) + 1]
          /\ job.values[Len(decoded) + 1] \in String
          /\ at + 1 + src[at + 1] = From(0, ends, Len(decoded) + 2)
          /\ at + 1 + src[at + 1] \in 0..Len(src)
        BY <1>1, <1>3, StringRead
    <2> QED
        BY <1>1, <2>1
<1>6. NextString = RowOf(job, Len(decoded) + 1) /\ job.text
    BY <1>1, <1>5, OneCodec DEF RowOf
<1>7. /\ decoded' \in Seq(String) /\ Rows(job, decoded')
      /\ Len(decoded') = Len(decoded) + 1
    BY <1>1, <1>2, <1>3, <1>4, <1>5, <1>6, RowDecoded
<1>8. DecoderTypes'
    BY <1>1, <1>2, <1>5, <1>6, <1>7 DEF DecoderTypes
<1>9. DecodeInv'
    <2>1. ends' = ends /\ job' = job /\ Len(decoded') + 1 = Len(decoded) + 2
        BY <1>1, <1>4, <1>7 DEF encoder
    <2> QED
        BY <1>1, <1>5, <1>7, <2>1, OneCodec DEF DecodeInv
<1> QED
    BY <1>1, <1>8, <1>9, DecodeOn DEF Reading

LEMMA EndDecodeStringsIInv == ASSUME IInv, EndDecodeStrings PROVE IInv'
<1>1. /\ IsStrings(job) /\ phase = "decode" /\ phase \in Reading
      /\ ~ StringComplete
      /\ Return(IF AtEnd THEN "ok" ELSE "err")
    BY DecodingOf DEF EndDecodeStrings, Decoding, Reading
<1>2. /\ at \in Nat /\ at <= Len(src) /\ Len(src) \in Nat /\ Len(out) \in Nat
      /\ Len(src) <= Len(out) /\ (torn => Len(src) < Len(out))
    BY <1>1, DecoderFacts
<1>3. Rows(job, decoded)
    BY <1>1, StringsAhead
<1>4. CASE AtEnd
    <2>1. ASSUME Len(src) = Len(out) PROVE Len(decoded) = Len(job.values)
        <3> SUFFICES ASSUME Len(decoded) # Len(job.values) PROVE FALSE
            OBVIOUS
        <3>1. Len(src) < Len(out)
            BY <1>1, StringsAhead, StringMissing
        <3> QED
            BY <1>2, <2>1, <3>1
    <2> QED
        BY <1>1, <1>3, <1>4, <2>1, ReturnOn
<1>5. CASE ~ AtEnd
    <2>1. Len(src) < Len(out)
        <3>1. CASE torn
            BY <1>2, <3>1
        <3>2. CASE ~ torn
            <4>1. at # Len(src)
                BY <1>2, <1>5, <3>2 DEF AtEnd, Left
            <4>2. at # Len(out)
                BY <1>2, <4>1
            <4> QED
                BY <1>1, <4>2, StringsAhead, StringMissing
        <3> QED
            BY <3>1, <3>2
    <2> QED
        BY <1>1, <1>5, <2>1, ReturnOn
<1> QED
    BY <1>4, <1>5

\* A block with a dictionary, as the encoder wrote it.
LEMMA DictFacts ==
    ASSUME IInv, phase \in Reading, IsDictionary(job)
    PROVE  /\ job.text /\ out[1] = Len(dict)
           /\ Frames(dict, 1, out, ends, Len(dict)) /\ Len(ends) = Len(dict)
           /\ Len(out) = DictEnd(dict, ends) + Len(job.values)
           /\ IndexRows(job, dict, out, DictEnd(dict, ends), Len(job.values))
           /\ DictEnd(dict, ends) \in Nat /\ DictEnd(dict, ends) >= 1
<1> DEFINE n == Len(dict)
<1>1. /\ Encoded(job, dict, out, ends) /\ dict \in Seq(String) /\ ends \in Seq(Nat) /\ n \in Nat
    BY DecoderFacts
<1>2. /\ out[1] = n
      /\ Frames(dict, 1, out, ends, n)
      /\ Len(out) = DictEnd(dict, ends) + Len(job.values)
      /\ IndexRows(job, dict, out, DictEnd(dict, ends), Len(job.values))
    BY <1>1 DEF Encoded
<1>3. Len(ends) = n
    BY <1>2 DEF Frames
<1>4. DictEnd(dict, ends) \in Nat
    <2>1. n + 1 \in 1..(Len(ends) + 1)
        BY <1>1, <1>3
    <2> QED
        BY <1>1, <2>1, FromType DEF DictEnd
<1>5. DictEnd(dict, ends) >= 1
    <2>1. CASE n = 0
        BY <2>1 DEF DictEnd, From
    <2>2. CASE n # 0
        <3>1. n \in 1..n /\ n \in 1..(Len(ends) + 1) /\ n + 1 # 1 /\ (n + 1) - 1 = n
            BY <1>1, <1>3, <2>2
        <3>2. DictEnd(dict, ends) = ends[n]
            BY <3>1 DEF DictEnd, From
        <3>3. ends[n] = From(1, ends, n) + 1 + Len(dict[n])
            BY <1>2, <3>1 DEF Frames
        <3>4. From(1, ends, n) \in Nat /\ dict[n] \in String
            BY <1>1, <3>1, FromType, ElementOfSeq
        <3>5. Len(dict[n]) \in Nat
            BY <3>4, StringType
        <3> HIDE DEF n
        <3> QED
            BY <3>2, <3>3, <3>4, <3>5
    <2> QED
        BY <2>1, <2>2
<1> QED
    BY <1>2, <1>3, <1>4, <1>5, OneCodec

LEMMA ReadDictLenIInv == ASSUME IInv, ReadDictLen PROVE IInv'
<1>1. /\ IsDictionary(job) /\ phase = "decode" /\ phase \in Reading
      /\ Left > 0 /\ phase' = "readEntries" /\ at' = 1
      /\ UNCHANGED <<job, encoder, src, torn, last, entries, decoded>>
    BY DecodingOf DEF ReadDictLen, Decoding, Reading
<1>2. /\ at = 0 /\ entries = <<>> /\ decoded = <<>>
    BY <1>1 DEF IInv, DecodeInv
<1>3. Len(src) \in Nat /\ Len(src) >= 1 /\ Len(dict) \in Nat /\ DecoderTypes
    BY <1>1, <1>2, DecoderFacts DEF Left
<1>4. DecoderTypes'
    BY <1>1, <1>3 DEF DecoderTypes
<1>5. ReadEntriesInv'
    <2>1. /\ job' = job /\ ends' = ends /\ dict' = dict /\ src' = src
          /\ entries' = <<>> /\ decoded' = <<>> /\ Len(entries') = 0
        BY <1>1, <1>2 DEF encoder
    <2>2. From(1, ends', Len(entries') + 1) = 1
        BY <2>1 DEF From
    <2> QED
        BY <1>1, <1>3, <2>1, <2>2 DEF ReadEntriesInv
<1> QED
    BY <1>1, <1>4, <1>5, DecodeOn DEF Reading

LEMMA NoDictLenIInv == ASSUME IInv, NoDictLen PROVE IInv'
<1>1. IsDictionary(job) /\ phase = "decode" /\ phase \in Reading /\ Left = 0 /\ Return("err")
    BY DecodingOf DEF NoDictLen, Decoding, Reading
<1>2. at = 0
    BY <1>1 DEF IInv, DecodeInv
<1>3. /\ Len(src) \in Nat /\ Len(out) \in Nat /\ Len(job.values) \in Nat
      /\ Len(out) = DictEnd(dict, ends) + Len(job.values)
      /\ DictEnd(dict, ends) \in Nat /\ DictEnd(dict, ends) >= 1
    BY <1>1, DecoderFacts, DictFacts
<1>4. Len(src) < Len(out)
    BY <1>1, <1>2, <1>3 DEF Left
<1> QED
    BY <1>1, <1>4, ReturnOn

\* As long as the dictionary is read: the entries that are still to come.
LEMMA EntriesAhead ==
    ASSUME IInv, phase = "readEntries"
    PROVE  /\ phase \in Reading /\ IsDictionary(job) /\ ReadEntriesInv
           /\ src[1] = Len(dict) /\ Len(dict) \in Nat /\ Len(entries) \in Nat
           /\ entries \in Seq(String)
           /\ Len(entries) < src[1] => AtString(dict, 1, Len(entries))
<1>1. phase \in Reading /\ ReadEntriesInv /\ IsDictionary(job)
    BY DEF Reading, IInv, ReadEntriesInv
<1>2. /\ out[1] = Len(dict) /\ Frames(dict, 1, out, ends, Len(dict))
      /\ dict \in Seq(String) /\ Len(dict) \in Nat /\ Len(src) \in Nat
      /\ Extends(out, src) /\ DecoderTypes
    BY <1>1, DictFacts, DecoderFacts
<1>3. src[1] = Len(dict)
    <2>1. 1 \in 1..Len(src)
        BY <1>1, <1>2 DEF ReadEntriesInv
    <2> QED
        BY <1>2, <2>1 DEF Extends
<1>4. entries \in Seq(String) /\ Len(entries) \in Nat
    <2>1. entries \in Seq(String)
        BY <1>2 DEF DecoderTypes
    <2> QED
        BY <2>1, LenProperties
<1>5. at = From(1, ends, Len(entries) + 1)
    BY <1>1 DEF ReadEntriesInv
<1>6. Len(entries) < src[1] => AtString(dict, 1, Len(entries))
    BY <1>2, <1>3, <1>4, <1>5 DEF AtString, NextFrame
<1> QED
    BY <1>1, <1>2, <1>3, <1>4, <1>6

LEMMA ReadEntryIInv == ASSUME IInv, ReadEntry PROVE IInv'
<1>1. /\ phase = "readEntries" /\ phase' = "readEntries" /\ phase' \in Reading
      /\ Len(entries) < src[1] /\ StringComplete
      /\ entries' = Append(entries, NextString)
      /\ at' = at + 1 + src[at + 1]
      /\ UNCHANGED <<job, encoder, src, torn, last, decoded>>
    BY DEF ReadEntry, Reading
<1>2. /\ phase \in Reading /\ IsDictionary(job) /\ ReadEntriesInv
      /\ src[1] = Len(dict) /\ Len(dict) \in Nat /\ Len(entries) \in Nat
      /\ entries \in Seq(String)
      /\ AtString(dict, 1, Len(entries))
    BY <1>1, EntriesAhead
<1>3. /\ NextString = dict[Len(entries) + 1] /\ NextString \in String
      /\ at' = From(1, ends, Len(entries) + 2) /\ at' \in 0..Len(src)
    <2>1. /\ NextString = dict[Len(entries) + 1]
          /\ dict[Len(entries) + 1] \in String
          /\ at + 1 + src[at + 1] = From(1, ends, Len(entries) + 2)
          /\ at + 1 + src[at + 1] \in 0..Len(src)
        BY <1>1, <1>2, StringRead
    <2> QED
        BY <1>1, <2>1
<1>4. /\ entries' \in Seq(String) /\ Len(entries') = Len(entries) + 1
      /\ entries'[Len(entries) + 1] = NextString
      /\ Extends(entries', entries)
    BY <1>1, <1>2, <1>3, Appended
<1>5. DecoderTypes'
    <2>1. DecoderTypes
        BY <1>2, DecoderFacts
    <2> QED
        BY <1>1, <1>3, <1>4, <2>1 DEF DecoderTypes
<1>6. ReadEntriesInv'
    <2>1. /\ ends' = ends /\ job' = job /\ dict' = dict /\ src' = src /\ decoded' = decoded
          /\ Len(entries') + 1 = Len(entries) + 2
        BY <1>1, <1>2, <1>4 DEF encoder
    <2>2. ASSUME NEW i \in 1..Len(entries') PROVE entries'[i] = dict[i]
        <3>1. CASE i = Len(entries) + 1
            BY <3>1, <1>3, <1>4
        <3>2. CASE i # Len(entries) + 1
            <4>1. i \in 1..Len(entries)
                BY <3>2, <1>2, <1>4
            <4> QED
                BY <4>1, <1>2, <1>4 DEF ReadEntriesInv, Extends
        <3> QED
            BY <3>1, <3>2
    <2>3. Len(entries') <= Len(dict)
        BY <1>1, <1>2, <1>4
    <2>4. at' = From(1, ends, Len(entries') + 1)
        BY <1>3, <2>1
    <2>5. Len(src) >= 1 /\ decoded = <<>>
        BY <1>2 DEF ReadEntriesInv
    <2> QED
        BY <1>2, <2>1, <2>2, <2>3, <2>4, <2>5 DEF ReadEntriesInv
<1> QED
    BY <1>1, <1>2, <1>5, <1>6, DecodeOn DEF Reading

LEMMA EntryMissingIInv == ASSUME IInv, EntryMissing PROVE IInv'
<1>1. /\ phase = "readEntries" /\ Len(entries) < src[1] /\ ~ StringComplete
      /\ Return("err")
    BY DEF EntryMissing
<1>2. phase \in Reading /\ AtString(dict, 1, Len(entries))
    BY <1>1, EntriesAhead
<1>3. Len(src) < Len(out)
    BY <1>1, <1>2, StringMissing
<1> QED
    BY <1>1, <1>2, <1>3, ReturnOn

LEMMA EndReadEntriesIInv == ASSUME IInv, EndReadEntries PROVE IInv'
<1>1. /\ phase = "readEntries" /\ Len(entries) = src[1] /\ phase' = "readIndices"
      /\ UNCHANGED <<job, encoder, src, torn, at, last, entries, decoded>>
    BY DEF EndReadEntries, Return
<1>2. /\ phase \in Reading /\ IsDictionary(job) /\ ReadEntriesInv
      /\ Len(entries) = Len(dict) /\ entries \in Seq(String)
    BY <1>1, EntriesAhead
<1>3. dict \in Seq(String) /\ Len(job.values) \in Nat /\ DecoderTypes
    BY <1>2, DecoderFacts
<1>4. entries = dict
    BY <1>2, <1>3, SeqEqual DEF ReadEntriesInv
<1>5. Rows(job, decoded) /\ Len(decoded) = 0
    BY <1>2, <1>3 DEF Rows, ReadEntriesInv
<1>6. at = DictEnd(dict, ends) + Len(decoded)
    <2>1. at = DictEnd(dict, ends)
        BY <1>2 DEF ReadEntriesInv, DictEnd
    <2>2. DictEnd(dict, ends) \in Nat
        BY <1>2, DictFacts
    <2> QED
        BY <1>5, <2>1, <2>2
<1>7. DecoderTypes' /\ ReadIndicesInv'
    BY <1>1, <1>2, <1>3, <1>4, <1>5, <1>6 DEF DecoderTypes, ReadIndicesInv, encoder
<1> QED
    BY <1>1, <1>2, <1>7, DecodeOn DEF Reading

LEMMA ReadIndexIInv == ASSUME IInv, ReadIndex PROVE IInv'
<1> DEFINE i == Len(decoded) + 1
           f == src[at + 1]
<1>1. /\ phase = "readIndices" /\ phase \in Reading /\ IsDictionary(job) /\ ReadIndicesInv
      /\ Left > 0
      /\ UNCHANGED <<job, encoder, src, torn, last, entries>>
      /\ IF f < Len(entries)
         THEN /\ decoded' = Append(decoded, entries[f + 1])
              /\ at' = at + 1 /\ phase' = phase
         ELSE phase' = "err" /\ UNCHANGED <<decoded, at>>
    BY DEF ReadIndex, Reading, IInv, ReadIndicesInv
<1>2. /\ job \in Jobs /\ Len(job.values) \in Nat /\ DecoderTypes
      /\ at \in Nat /\ at < Len(src) /\ Len(src) \in Nat /\ Len(out) \in Nat /\ Len(src) <= Len(out)
    <2>1. at < Len(src)
        BY <1>1, DecoderFacts DEF Left
    <2> QED
        BY <1>1, <2>1, DecoderFacts
<1>3. /\ job.text
      /\ Len(out) = DictEnd(dict, ends) + Len(job.values)
      /\ IndexRows(job, dict, out, DictEnd(dict, ends), Len(job.values))
      /\ DictEnd(dict, ends) \in Nat
    BY <1>1, DictFacts
<1>4. /\ decoded \in Seq(String) /\ Len(decoded) \in Nat
      /\ Rows(job, decoded) /\ entries = dict
      /\ at = DictEnd(dict, ends) + Len(decoded)
    <2>1. decoded \in Seq(String)
        BY <1>2, <1>3 DEF DecoderTypes
    <2> QED
        BY <2>1, <1>1, LenProperties DEF ReadIndicesInv
<1>5. i \in 1..Len(job.values) /\ Len(decoded) < Len(job.values)
      /\ at + 1 = DictEnd(dict, ends) + i
    BY <1>2, <1>3, <1>4
<1>6. f = out[DictEnd(dict, ends) + i]
    BY <1>1, <1>2, <1>5, GivenField
<1>7. f < Len(dict) /\ dict[f + 1] = job.values[i]
    BY <1>3, <1>5, <1>6 DEF IndexRows
<1>8. job.values[i] = RowOf(job, i) /\ RowOf(job, i) \in String
    BY <1>2, <1>3, <1>5, JobFacts
<1>9. /\ decoded' = Append(decoded, job.values[i])
      /\ at' = at + 1 /\ phase' = "readIndices"
    BY <1>1, <1>4, <1>7
<1>10. /\ decoded' \in Seq(String) /\ Rows(job, decoded')
       /\ Len(decoded') = Len(decoded) + 1
    BY <1>2, <1>4, <1>5, <1>8, <1>9, RowDecoded
<1>11. DecoderTypes'
    <2>1. at' \in 0..Len(src')
        BY <1>1, <1>2, <1>9
    <2> QED
        BY <1>1, <1>2, <1>3, <1>10, <2>1 DEF DecoderTypes
<1>12. ReadIndicesInv'
    <2>1. ends' = ends /\ job' = job /\ dict' = dict /\ entries' = entries
        BY <1>1 DEF encoder
    <2>2. at' = DictEnd(dict, ends) + Len(decoded')
        BY <1>3, <1>4, <1>9, <1>10
    <2> QED
        BY <1>1, <1>4, <1>10, <2>1, <2>2 DEF ReadIndicesInv
<1> QED
    BY <1>1, <1>9, <1>11, <1>12, DecodeOn DEF Reading

LEMMA EndReadIndicesIInv == ASSUME IInv, EndReadIndices PROVE IInv'
<1>1. /\ phase = "readIndices" /\ phase \in Reading /\ IsDictionary(job) /\ ReadIndicesInv
      /\ Left = 0
      /\ Return(IF torn THEN "err" ELSE "ok")
    BY DEF EndReadIndices, Reading, IInv, ReadIndicesInv
<1>2. /\ at \in Nat /\ Len(src) \in Nat /\ Len(job.values) \in Nat
      /\ (torn => Len(src) < Len(out))
    BY <1>1, DecoderFacts
<1>3. /\ Len(out) = DictEnd(dict, ends) + Len(job.values)
      /\ DictEnd(dict, ends) \in Nat
    BY <1>1, DictFacts
<1>4. Rows(job, decoded) /\ at = DictEnd(dict, ends) + Len(decoded) /\ Len(decoded) \in Nat
    <2>1. decoded \in Seq(String)
        BY <1>1, DecoderFacts, DictFacts DEF DecoderTypes
    <2> QED
        BY <1>1, <2>1, LenProperties DEF ReadIndicesInv
<1>5. CASE torn
    BY <1>1, <1>2, <1>5, ReturnOn
<1>6. CASE ~ torn
    <2>1. Len(src) = Len(out) => Len(decoded) = Len(job.values)
        BY <1>1, <1>2, <1>3, <1>4 DEF Left
    <2> QED
        BY <1>1, <1>4, <1>6, <2>1, ReturnOn
<1> QED
    BY <1>5, <1>6

LEMMA DecodeIInv == ASSUME IInv, Decode PROVE IInv'
BY DecodePlainIInv, DecodeDeltaIInv, EndDecodeDeltaIInv, DecodeRunIInv, EndDecodeRunsIInv,
   DecodeStringIInv, EndDecodeStringsIInv, ReadDictLenIInv, NoDictLenIInv, ReadEntryIInv,
   EntryMissingIInv, EndReadEntriesIInv, ReadIndexIInv, EndReadIndicesIInv DEF Decode

LEMMA SameIInv == ASSUME IInv, UNCHANGED vars PROVE IInv'
<1>1. UNCHANGED <<job, phase, pos, prev, count, dict, out, ends, tag,
                  src, torn, at, last, entries, decoded>>
    BY DEF vars, encoder, decoder
<1>2. Types' /\ Fresh' = Fresh /\ Stored' = Stored /\ Given' = Given
    BY <1>1 DEF IInv, Types, Fresh, Stored, Given
<1>3. EncodeInv' = EncodeInv /\ EntriesInv' = EntriesInv /\ IndicesInv' = IndicesInv
    BY <1>1 DEF EncodeInv, EntriesInv, IndicesInv, HasDict
<1>4. /\ DecodeInv' = DecodeInv /\ ReadEntriesInv' = ReadEntriesInv
      /\ ReadIndicesInv' = ReadIndicesInv
    BY <1>1 DEF DecodeInv, ReadEntriesInv, ReadIndicesInv
<1> QED
    BY <1>1, <1>2, <1>3, <1>4 DEF IInv

LEMMA NextIInv == IInv /\ Fits /\ [Next]_vars => IInv'
<1> SUFFICES ASSUME IInv, Fits, [Next]_vars PROVE IInv'
    OBVIOUS
<1>1. CASE Encode
    BY <1>1, EncodeIInv
<1>2. ASSUME NEW n \in 0..Len(out), NEW part \in BOOLEAN, Open(n, part) PROVE IInv'
    BY <1>2, OpenIInv
<1>3. CASE Decode
    BY <1>3, DecodeIInv
<1>4. CASE Ended \/ UNCHANGED vars
    BY <1>4, SameIInv DEF Ended
<1> QED
    BY <1>1, <1>2, <1>3, <1>4 DEF Next

-----------------------------------------------------------------------------
(***************************************************************************)
(* Types, whether or not the strings fit                                   *)
(***************************************************************************)
Cells == 0..(FieldSize - 1)

EncTyped == /\ pos \in Nat /\ prev \in Raw /\ count \in 0..MaxCount
            /\ dict \in Seq(String) /\ FieldsFit(out) /\ ends \in Seq(Nat)

DecTyped == /\ at \in 0..Len(src) /\ last \in Raw /\ entries \in Seq(String)
            /\ decoded \in Seq(IF job.text THEN String ELSE Raw)

\* Pairs are written whole, and a counter that is written is not 0.
PairsWritten == IsRLE(job) => Len(out) % 2 = 0 /\ (pos > 0 => count > 0)

\* Every row that the encoder has seen is in the dictionary.
DictBuilt == IsDictionary(job) => Covers(job, dict, pos)
DictComplete == IsDictionary(job) /\ Covers(job, dict, Len(job.values))

TypeInv == /\ CodecsTypeOK
           /\ phase = "encode" => PairsWritten /\ DictBuilt
           /\ phase \in {"entries", "indices"} => DictComplete
           /\ phase \notin Writing => tag = Tag(job.codec)
           /\ phase \in Writing \cup {"stored"} => at = 0
           /\ phase = "decode" /\ IsRLE(job) => at % 2 = 0
           /\ phase \in {"readEntries", "readIndices"} => IsDictionary(job)

LEMMA SeqOfSome ==
    ASSUME NEW S, NEW T, NEW s \in Seq(S), \A i \in 1..Len(s) : s[i] \in T
    PROVE  s \in Seq(T)
<1>1. Len(s) \in Nat /\ s \in [1..Len(s) -> S]
    BY LenProperties
<1>2. SubSeq(s, 1, Len(s)) \in Seq(T)
    BY <1>1, SubSeqProperties
<1> QED
    BY <1>2, SubSeqFull

\* The fields of a block of text are the cells.
LEMMA TextFields ==
    ASSUME job.text, NEW s
    PROVE  FieldsFit(s) <=> s \in Seq(Cells)
<1>1. \A i : Field(i) = Cells
    BY DEF Field, Cells
<1>2. Cells \subseteq Nat
    BY CodecsAssumption, SMT DEF Cells
<1>3. ASSUME FieldsFit(s) PROVE s \in Seq(Cells)
    BY <1>1, <1>3, SeqOfSome DEF FieldsFit
<1>4. ASSUME s \in Seq(Cells) PROVE FieldsFit(s)
    <2>1. \A i \in 1..Len(s) : s[i] \in Cells
        BY <1>4, ElementOfSeq
    <2>2. s \in Seq(Nat)
        BY <1>2, <1>4, <2>1, SeqOfSome
    <2> QED
        BY <1>1, <2>1, <2>2 DEF FieldsFit
<1> QED
    BY <1>3, <1>4

LEMMA StringCells == ASSUME NEW s \in String PROVE s \in Seq(Cells)
<1>1. Bytes \subseteq Cells
    BY CodecsAssumption DEF Cells
<1>2. s \in Seq(Bytes) /\ \A i \in 1..Len(s) : s[i] \in Bytes
    BY ElementOfSeq DEF String
<1> QED
    BY <1>1, <1>2, SeqOfSome

\* One more field, of the kind that belongs there.
LEMMA FieldAdded ==
    ASSUME FieldsFit(out), NEW x, x \in Field(Len(out) + 1), x \in Nat,
           out' = Append(out, x), job' = job
    PROVE  FieldsFit(out)'
<1>1. out \in Seq(Nat) /\ Len(out) \in Nat
    BY LenProperties DEF FieldsFit
<1>2. /\ out' \in Seq(Nat) /\ Len(out') = Len(out) + 1
      /\ out'[Len(out) + 1] = x /\ Extends(out', out)
    BY <1>1, Appended
<1>3. ASSUME NEW i \in 1..Len(out') PROVE out'[i] \in Field(i)
    <2>1. CASE i = Len(out) + 1
        BY <2>1, <1>2
    <2>2. CASE i # Len(out) + 1
        <3>1. i \in 1..Len(out)
            BY <2>2, <1>1, <1>2
        <3> QED
            BY <3>1, <1>2 DEF FieldsFit, Extends
    <2> QED
        BY <2>1, <2>2
<1> QED
    BY <1>2, <1>3 DEF FieldsFit, Field

LEMMA StringFields ==
    ASSUME job.text, FieldsFit(out), ends \in Seq(Nat), NEW s \in String,
           WriteString(s), job' = job
    PROVE  FieldsFit(out)' /\ ends' \in Seq(Nat)
<1> DEFINE a == Append(out, AsU32(Len(s)))
<1>1. out \in Seq(Cells)
    BY TextFields
<1>2. AsU32(Len(s)) \in Cells
    BY StringType, AsU32Is DEF Cells
<1>3. a \in Seq(Cells) /\ s \in Seq(Cells)
    BY <1>1, <1>2, Appended, StringCells
<1> HIDE DEF a
<1>4. a \o s \in Seq(Cells)
    BY <1>3, ConcatProperties
<1>5. out' \in Seq(Cells)
    BY <1>4 DEF WriteString, a
<1>6. FieldsFit(out')
    BY <1>5, TextFields
<1>7. FieldsFit(out)'
    BY <1>6 DEF FieldsFit, Field
<1>8. ends' \in Seq(Nat)
    <2>1. Len(out') \in Nat
        BY <1>5, LenProperties
    <2> QED
        BY <2>1, Appended DEF WriteString
<1> QED
    BY <1>7, <1>8

\* A step of the encoder.
LEMMA EncodeTyped ==
    ASSUME TypeInv, phase \in Writing, phase' \in Writing, UNCHANGED <<job, tag, decoder>>,
           EncTyped',
           phase' = "encode" => PairsWritten' /\ DictBuilt',
           phase' \in {"entries", "indices"} => DictComplete'
    PROVE  TypeInv'
<1>1. job' = job /\ tag' = tag /\ UNCHANGED <<src, torn, at, last, entries, decoded>>
    BY DEF decoder
<1>2. CodecsTypeOK'
    BY <1>1 DEF TypeInv, CodecsTypeOK, EncTyped, Phases, Writing, FieldsFit, Field
<1> QED
    BY <1>1, <1>2 DEF TypeInv, Writing

LEMMA StoreTyped ==
    ASSUME TypeInv, phase \in Writing, Store, EncTyped'
    PROVE  TypeInv'
<1>1. /\ job' = job /\ UNCHANGED <<src, torn, at, last, entries, decoded>>
      /\ phase' = "stored" /\ tag' = Tag(job.codec)
    BY DEF Store, decoder
<1>2. tag' \in 0..2
    BY <1>1, JobFacts DEF TypeInv, CodecsTypeOK
<1>3. CodecsTypeOK'
    BY <1>1, <1>2 DEF TypeInv, CodecsTypeOK, EncTyped, Phases, FieldsFit, Field
<1> QED
    BY <1>1, <1>3 DEF TypeInv, Writing

\* A step of the decoder.
LEMMA DecodeTyped ==
    ASSUME TypeInv, phase \in Reading, phase' \in Reading \cup {"ok", "err"},
           UNCHANGED <<job, encoder, src, torn>>, DecTyped',
           phase' = "decode" /\ IsRLE(job) => at' % 2 = 0,
           phase' \in {"readEntries", "readIndices"} => IsDictionary(job)
    PROVE  TypeInv'
<1>1. UNCHANGED <<job, pos, prev, count, dict, out, ends, tag, src, torn>>
    BY DEF encoder
<1>2. CodecsTypeOK'
    BY <1>1 DEF TypeInv, CodecsTypeOK, DecTyped, Phases, Reading, FieldsFit, Field
<1> QED
    BY <1>1, <1>2 DEF TypeInv, Writing, Reading

LEMMA ReturnTyped ==
    ASSUME TypeInv, phase \in Reading, NEW r \in {"ok", "err"}, Return(r)
    PROVE  TypeInv'
<1>1. /\ phase' = r
      /\ UNCHANGED <<job, encoder, src, torn, at, last, entries, decoded>>
    BY DEF Return
<1>2. DecTyped'
    BY <1>1 DEF TypeInv, CodecsTypeOK, DecTyped
<1> QED
    BY <1>1, <1>2, DecodeTyped DEF Reading

LEMMA InitTyped == Init => TypeInv
<1> SUFFICES ASSUME Init PROVE TypeInv
    OBVIOUS
<1>1. /\ phase = "encode" /\ job \in Jobs /\ pos = 0 /\ at = 0
      /\ out = <<>> /\ src = <<>> /\ Len(out) = 0 /\ Len(src) = 0
    BY DEF Init
<1>2. Types
    BY InitIInv DEF IInv
<1>3. FieldsFit(out) /\ FieldsFit(src)
    BY <1>1 DEF FieldsFit
<1>4. CodecsTypeOK
    BY <1>2, <1>3 DEF Types, CodecsTypeOK
<1>5. PairsWritten /\ DictBuilt
    BY <1>1 DEF PairsWritten, DictBuilt, Covers
<1> QED
    BY <1>1, <1>4, <1>5 DEF TypeInv, Writing

LEMMA EncTypes ==
    ASSUME TypeInv
    PROVE  /\ job \in Jobs /\ EncTyped /\ out \in Seq(Nat) /\ Len(out) \in Nat
           /\ Len(job.values) \in Nat /\ Len(dict) \in Nat /\ count \in Nat /\ prev \in Nat
<1>1. job \in Jobs /\ EncTyped
    BY DEF TypeInv, CodecsTypeOK, EncTyped
<1>2. out \in Seq(Nat) /\ Len(out) \in Nat /\ Len(dict) \in Nat
    BY <1>1, LenProperties DEF EncTyped, FieldsFit
<1>3. Len(job.values) \in Nat
    BY <1>1, JobFacts
<1>4. count \in Nat /\ prev \in Nat
    BY <1>1, Numbers DEF EncTyped
<1> QED
    BY <1>1, <1>2, <1>3, <1>4

LEMMA RowTyped ==
    ASSUME TypeInv, pos < NumRows
    PROVE  /\ job.text => /\ Row(pos + 1) = job.values[pos + 1]
                          /\ Row(pos + 1) \in String
           /\ ~ job.text => Row(pos + 1) \in Raw
<1>1. pos + 1 \in 1..Len(job.values)
    BY EncTypes DEF EncTyped, NumRows
<1>2. Row(pos + 1) = RowOf(job, pos + 1)
    BY DEF Row, RowOf
<1> QED
    BY <1>1, <1>2, EncTypes, JobFacts

LEMMA EncodePlainTyped == ASSUME TypeInv, EncodePlain PROVE TypeInv'
<1> DEFINE n == Len(job.values)
<1>1. /\ IsPlain(job) /\ phase = "encode" /\ Store /\ job' = job
      /\ out' = [i \in 1..n |-> RowOf(job, i)]
      /\ UNCHANGED <<pos, prev, count, dict, ends>>
    BY EncodingOf DEF EncodePlain, Encoding, NumRows, Row, RowOf, Store
<1>2. job \in Jobs /\ n \in Nat /\ ~ job.text /\ job.codec # "RLE"
    BY <1>1, EncTypes DEF IsPlain
<1>3. \A i \in 1..n : RowOf(job, i) \in Raw /\ RowOf(job, i) \in Nat
    BY <1>2, JobFacts, Numbers
<1>4. out' \in Seq(Nat) /\ Len(out') = n /\ \A i \in 1..n : out'[i] \in Raw
    BY <1>1, <1>2, <1>3
<1>5. FieldsFit(out)'
    BY <1>1, <1>2, <1>4 DEF FieldsFit, Field
<1>6. EncTyped'
    BY <1>1, <1>5, EncTypes DEF EncTyped
<1> QED
    BY <1>1, <1>6, StoreTyped DEF Writing

LEMMA EncodeDeltaTyped == ASSUME TypeInv, EncodeDelta PROVE TypeInv'
<1> DEFINE x == IF pos = 0 THEN Row(1) ELSE WrappingSub(Row(pos + 1), prev)
<1>1. /\ IsDelta(job) /\ phase = "encode" /\ phase' = phase
      /\ pos < NumRows /\ pos' = pos + 1
      /\ prev' = Row(pos + 1)
      /\ out' = Append(out, x)
      /\ UNCHANGED <<job, count, dict, ends, tag, decoder>>
    BY EncodingOf DEF EncodeDelta, Encoding
<1>2. EncTyped /\ pos \in Nat /\ prev \in Raw /\ ~ job.text /\ job.codec # "RLE"
    BY <1>1, EncTypes DEF EncTyped, IsDelta
<1>3. Row(pos + 1) \in Raw
    BY <1>1, <1>2, RowTyped
<1>4. x \in Raw
    <2>1. WrappingSub(Row(pos + 1), prev) \in Raw
        BY <1>2, <1>3, Wraps
    <2>2. pos = 0 => Row(1) \in Raw
        BY <1>2, <1>3
    <2> QED
        BY <2>1, <2>2
<1> HIDE DEF x
<1>5. x \in Nat /\ x \in Field(Len(out) + 1)
    BY <1>2, <1>4, Numbers DEF Field
<1>6. FieldsFit(out)'
    BY <1>1, <1>2, <1>5, FieldAdded DEF EncTyped
<1>7. EncTyped'
    BY <1>1, <1>2, <1>3, <1>6 DEF EncTyped
<1> QED
    BY <1>1, <1>7, EncodeTyped, OneCodec DEF Writing, PairsWritten, DictBuilt

\* The pair of a run, behind pairs.
LEMMA PairTyped ==
    ASSUME TypeInv, phase = "encode", IsRLE(job), pos > 0, WriteRun, job' = job
    PROVE  FieldsFit(out)' /\ ends' \in Seq(Nat) /\ Len(out') % 2 = 0
<1>1. /\ EncTyped /\ out \in Seq(Nat) /\ Len(out) \in Nat /\ count \in Nat /\ prev \in Nat
      /\ count \in 1..MaxCount /\ prev \in Raw /\ pos \in Nat
      /\ Len(out) % 2 = 0
    BY EncTypes DEF TypeInv, PairsWritten, EncTyped
<1>2. ~ job.text /\ job.codec = "RLE"
    BY DEF IsRLE
<1>3. out' = WithPair(out, count, prev) /\ ends' = Append(ends, pos)
    BY DEF WriteRun, WithPair
<1>4. PairAdded(out, count, prev, out')
    BY <1>1, <1>3, PairWritten, Zenon
<1>5. /\ out' \in Seq(Nat) /\ Len(out') = Len(out) + 2
      /\ out'[Len(out) + 1] = count /\ out'[Len(out) + 2] = prev
      /\ Extends(out', out)
    BY <1>4 DEF PairAdded
<1>6. /\ (Len(out) + 1) % 2 = 1 /\ (Len(out) + 2) % 2 = 0 /\ Len(out') % 2 = 0
    BY <1>1, <1>5, SMT
<1>7. ASSUME NEW i \in 1..Len(out') PROVE out'[i] \in Field(i)
    <2>1. CASE i \in 1..Len(out)
        BY <2>1, <1>1, <1>5 DEF EncTyped, FieldsFit, Extends
    <2>2. CASE i = Len(out) + 1
        BY <2>2, <1>1, <1>2, <1>5, <1>6 DEF Field
    <2>3. CASE i = Len(out) + 2
        BY <2>3, <1>1, <1>2, <1>5, <1>6 DEF Field
    <2>4. i \in 1..Len(out) \/ i = Len(out) + 1 \/ i = Len(out) + 2
        BY <1>1, <1>5, SMT
    <2> QED
        BY <2>1, <2>2, <2>3, <2>4
<1>8. FieldsFit(out)'
    BY <1>5, <1>7 DEF FieldsFit, Field
<1>9. ends' \in Seq(Nat)
    BY <1>1, <1>3, Appended DEF EncTyped
<1> QED
    BY <1>6, <1>8, <1>9

LEMMA EncodeRunTyped == ASSUME TypeInv, EncodeRun PROVE TypeInv'
<1>1. /\ IsRLE(job) /\ phase = "encode" /\ phase' = phase /\ pos < NumRows
      /\ UNCHANGED <<job, dict, tag, decoder>>
    BY EncodingOf DEF EncodeRun, Encoding
<1>2. /\ EncTyped /\ pos \in Nat /\ count \in Nat /\ ~ job.text
      /\ Len(out) % 2 = 0 /\ (pos > 0 => count > 0)
    BY <1>1, EncTypes DEF EncTyped, IsRLE, TypeInv, PairsWritten
<1>3. Row(pos + 1) \in Raw
    BY <1>1, <1>2, RowTyped
<1>4. 1 \in 0..MaxCount
    BY CodecsAssumption
<1>5. ASSUME EncTyped', Len(out') % 2 = 0, count' > 0 PROVE TypeInv'
    BY <1>1, <1>5, EncodeTyped, OneCodec DEF Writing, PairsWritten, DictBuilt
<1>6. CASE pos = 0 /\ StartRun /\ UNCHANGED <<out, ends>>
    <2>1. EncTyped'
        BY <1>1, <1>2, <1>3, <1>4, <1>6 DEF EncTyped, StartRun, FieldsFit, Field
    <2> QED
        BY <1>2, <1>5, <1>6, <2>1 DEF StartRun
<1>7. CASE /\ pos > 0 /\ Continues(Row(pos + 1))
           /\ pos' = pos + 1 /\ count' = count + 1 /\ UNCHANGED <<prev, out, ends>>
    <2>1. count + 1 \in 0..MaxCount
        BY <1>2, <1>7, CodecsAssumption, SMT DEF Continues
    <2>2. EncTyped'
        BY <1>1, <1>2, <1>7, <2>1 DEF EncTyped, FieldsFit, Field
    <2> QED
        BY <1>2, <1>5, <1>7, <2>2
<1>8. CASE pos > 0 /\ WriteRun /\ StartRun
    <2>1. FieldsFit(out)' /\ ends' \in Seq(Nat) /\ Len(out') % 2 = 0
        BY <1>1, <1>8, PairTyped
    <2>2. EncTyped'
        BY <1>1, <1>2, <1>3, <1>4, <1>8, <2>1 DEF EncTyped, StartRun
    <2> QED
        BY <1>5, <1>8, <2>1, <2>2 DEF StartRun
<1> QED
    BY <1>6, <1>7, <1>8 DEF EncodeRun

LEMMA EndRunsTyped == ASSUME TypeInv, EndRuns PROVE TypeInv'
<1>1. /\ IsRLE(job) /\ phase = "encode" /\ Store /\ pos = NumRows /\ job' = job
      /\ UNCHANGED <<pos, prev, count, dict>>
      /\ IF NumRows = 0 THEN UNCHANGED <<out, ends>> ELSE WriteRun
    BY EncodingOf DEF EndRuns, Encoding, Store
<1>2. EncTyped /\ NumRows \in Nat
    BY EncTypes DEF NumRows
<1>3. FieldsFit(out)' /\ ends' \in Seq(Nat)
    <2>1. CASE NumRows = 0
        BY <1>1, <1>2, <2>1 DEF EncTyped, FieldsFit, Field
    <2>2. CASE NumRows # 0
        <3>1. pos > 0 /\ WriteRun
            BY <1>1, <1>2, <2>2
        <3> QED
            BY <1>1, <3>1, PairTyped
    <2> QED
        BY <2>1, <2>2
<1>4. EncTyped'
    BY <1>1, <1>2, <1>3 DEF EncTyped
<1> QED
    BY <1>1, <1>4, StoreTyped DEF Writing

\* The encoders that end with nothing more to write.
LEMMA EndsTyped ==
    ASSUME TypeInv, EndDelta \/ EndStrings \/ EndIndices
    PROVE  TypeInv'
<1>1. /\ phase \in Writing /\ Store /\ job' = job
      /\ UNCHANGED <<pos, prev, count, dict, out, ends>>
    BY DEF EndDelta, EndStrings, EndIndices, Encoding, Store, Writing
<1>2. EncTyped'
    BY <1>1, EncTypes DEF EncTyped, FieldsFit, Field
<1> QED
    BY <1>1, <1>2, StoreTyped

LEMMA EncodeStringTyped == ASSUME TypeInv, EncodeString PROVE TypeInv'
<1>1. /\ IsStrings(job) /\ job.text /\ phase = "encode" /\ phase' = phase
      /\ pos < NumRows /\ pos' = pos + 1 /\ WriteString(Row(pos + 1))
      /\ UNCHANGED <<job, prev, count, dict, tag, decoder>>
    BY EncodingOf, OneCodec DEF EncodeString, Encoding
<1>2. EncTyped /\ Row(pos + 1) \in String
    BY <1>1, EncTypes, RowTyped
<1>3. FieldsFit(out)' /\ ends' \in Seq(Nat)
    BY <1>1, <1>2, StringFields DEF EncTyped
<1>4. EncTyped'
    BY <1>1, <1>2, <1>3 DEF EncTyped
<1> QED
    BY <1>1, <1>4, EncodeTyped, OneCodec DEF Writing, PairsWritten, DictBuilt

\* A row that was looked up in the dictionary is in it.
LEMMA RowLookedUp ==
    ASSUME NEW j, NEW s \in String, NEW m \in Nat, dict \in Seq(String),
           Covers(j, dict, m), s = j.values[m + 1],
           dict' = IF Known(s) THEN dict ELSE Append(dict, s)
    PROVE  dict' \in Seq(String) /\ Covers(j, dict', m + 1)
<1>1. CASE Known(s)
    <2>1. \A i \in 1..(m + 1) : i \in 1..m \/ i = m + 1
        BY SMT
    <2>2. \E k \in 1..Len(dict) : dict[k] = j.values[m + 1]
        BY <1>1 DEF Known
    <2> QED
        BY <1>1, <2>1, <2>2 DEF Covers
<1>2. CASE ~ Known(s)
    BY <1>2, DictGrows
<1> QED
    BY <1>1, <1>2

LEMMA BuildDictTyped == ASSUME TypeInv, BuildDict PROVE TypeInv'
<1>1. /\ IsDictionary(job) /\ job.text /\ phase = "encode" /\ phase' = phase
      /\ pos < NumRows /\ pos' = pos + 1
      /\ dict' = IF Known(Row(pos + 1)) THEN dict ELSE Append(dict, Row(pos + 1))
      /\ UNCHANGED <<job, prev, count, out, ends, tag, decoder>>
    BY EncodingOf, OneCodec DEF BuildDict, Encoding
<1>2. /\ EncTyped /\ pos \in Nat /\ Row(pos + 1) \in String
      /\ Row(pos + 1) = job.values[pos + 1] /\ Covers(job, dict, pos)
    BY <1>1, EncTypes, RowTyped DEF EncTyped, TypeInv, DictBuilt
<1>3. dict' \in Seq(String) /\ Covers(job, dict', pos + 1)
    BY <1>1, <1>2, RowLookedUp DEF EncTyped
<1>4. EncTyped'
    BY <1>1, <1>2, <1>3 DEF EncTyped, FieldsFit, Field
<1>5. DictBuilt' /\ PairsWritten'
    BY <1>1, <1>3, OneCodec DEF DictBuilt, PairsWritten
<1> QED
    BY <1>1, <1>4, <1>5, EncodeTyped DEF Writing

LEMMA WriteDictLenTyped == ASSUME TypeInv, WriteDictLen PROVE TypeInv'
<1>1. /\ IsDictionary(job) /\ job.text /\ phase = "encode" /\ phase' = "entries"
      /\ pos = Len(job.values) /\ pos' = 0 /\ out' = <<AsU32(Len(dict))>>
      /\ UNCHANGED <<job, prev, count, dict, ends, tag, decoder>>
    BY EncodingOf, OneCodec DEF WriteDictLen, Encoding, NumRows
<1>2. EncTyped /\ Len(dict) \in Nat
    BY EncTypes
<1>3. AsU32(Len(dict)) \in Cells
    BY <1>2, AsU32Is DEF Cells
<1>4. out' \in Seq(Cells)
    BY <1>1, <1>3
<1>5. FieldsFit(out')
    BY <1>1, <1>4, TextFields
<1>6. EncTyped'
    BY <1>1, <1>2, <1>5 DEF EncTyped, FieldsFit, Field
<1>7. DictComplete'
    BY <1>1 DEF TypeInv, DictBuilt, DictComplete
<1> QED
    BY <1>1, <1>6, <1>7, EncodeTyped DEF Writing

LEMMA WriteEntryTyped == ASSUME TypeInv, WriteEntry PROVE TypeInv'
<1>1. /\ phase = "entries" /\ phase' = phase
      /\ pos < Len(dict) /\ pos' = pos + 1 /\ WriteString(dict[pos + 1])
      /\ UNCHANGED <<job, prev, count, dict, tag, decoder>>
    BY DEF WriteEntry
<1>2. DictComplete /\ EncTyped /\ job.text /\ Len(dict) \in Nat /\ pos \in Nat
    BY <1>1, EncTypes DEF TypeInv, DictComplete, IsDictionary, EncTyped
<1>3. dict[pos + 1] \in String
    <2>1. pos + 1 \in 1..Len(dict)
        BY <1>1, <1>2
    <2> QED
        BY <1>2, <2>1, ElementOfSeq DEF EncTyped
<1>4. FieldsFit(out)' /\ ends' \in Seq(Nat)
    BY <1>1, <1>2, <1>3, StringFields DEF EncTyped
<1>5. EncTyped'
    BY <1>1, <1>2, <1>4 DEF EncTyped
<1> QED
    BY <1>1, <1>2, <1>5, EncodeTyped DEF Writing, DictComplete

LEMMA EndEntriesTyped == ASSUME TypeInv, EndEntries PROVE TypeInv'
<1>1. /\ phase = "entries" /\ phase' = "indices" /\ pos' = 0
      /\ UNCHANGED <<job, prev, count, dict, out, ends, tag, decoder>>
    BY DEF EndEntries
<1>2. DictComplete'
    BY <1>1 DEF TypeInv, DictComplete
<1>3. EncTyped'
    BY <1>1, EncTypes DEF EncTyped, FieldsFit, Field
<1> QED
    BY <1>1, <1>2, <1>3, EncodeTyped DEF Writing

LEMMA WriteIndexTyped == ASSUME TypeInv, WriteIndex PROVE TypeInv'
<1> DEFINE s == Row(pos + 1)
<1>1. /\ phase = "indices" /\ phase' = phase
      /\ pos < NumRows /\ pos' = pos + 1 /\ out' = Append(out, Index(s))
      /\ UNCHANGED <<job, prev, count, dict, ends, tag, decoder>>
    BY DEF WriteIndex
<1>2. /\ DictComplete /\ EncTyped /\ job.text /\ Len(dict) \in Nat /\ pos \in Nat
      /\ Len(job.values) \in Nat
    BY <1>1, EncTypes DEF TypeInv, DictComplete, IsDictionary, EncTyped
<1>3. Known(s)
    <2>1. pos + 1 \in 1..Len(job.values) /\ s = job.values[pos + 1]
        BY <1>1, <1>2, RowTyped DEF NumRows
    <2> QED
        BY <1>2, <2>1 DEF DictComplete, Covers, Known
<1>4. Index(s) \in Cells
    <2> DEFINE c == CHOOSE k \in 1..Len(dict) : dict[k] = s
    <2>1. c \in 1..Len(dict)
        BY <1>3 DEF Known
    <2>2. Index(s) = AsU32(c - 1)
        BY DEF Index
    <2> HIDE DEF c
    <2>3. c - 1 \in Nat
        BY <1>2, <2>1
    <2> QED
        BY <2>2, <2>3, AsU32Is DEF Cells
<1> HIDE DEF s
<1>5. Index(s) \in Nat /\ Index(s) \in Field(Len(out) + 1)
    <2>1. Cells \subseteq Nat
        BY CodecsAssumption, SMT DEF Cells
    <2> QED
        BY <1>2, <1>4, <2>1 DEF Field, Cells
<1>6. FieldsFit(out)'
    BY <1>1, <1>2, <1>5, FieldAdded DEF EncTyped
<1>7. EncTyped'
    BY <1>1, <1>2, <1>6 DEF EncTyped
<1> QED
    BY <1>1, <1>2, <1>7, EncodeTyped DEF Writing, DictComplete

LEMMA EncodeTypeInv == ASSUME TypeInv, Encode PROVE TypeInv'
BY EncodePlainTyped, EncodeDeltaTyped, EncodeRunTyped, EndRunsTyped, EndsTyped,
   EncodeStringTyped, BuildDictTyped, WriteDictLenTyped, WriteEntryTyped, EndEntriesTyped,
   WriteIndexTyped DEF Encode

LEMMA OpenTyped ==
    ASSUME TypeInv, NEW n \in 0..Len(out), NEW part \in BOOLEAN, Open(n, part)
    PROVE  TypeInv'
<1>1. /\ phase = "stored" /\ phase' = "decode" /\ src' = SubSeq(out, 1, n) /\ torn' = part
      /\ UNCHANGED <<job, pos, prev, count, dict, out, ends, tag, at, last, entries, decoded>>
    BY DEF Open, encoder
<1>2. /\ out \in Seq(Nat) /\ Len(out) \in Nat /\ n \in Nat /\ n <= Len(out)
      /\ \A i \in 1..Len(out) : out[i] \in Field(i)
    BY EncTypes DEF EncTyped, FieldsFit
<1>3. src' \in Seq(Nat) /\ Len(src') = n /\ \A i \in 1..n : src'[i] = out[i]
    <2> DEFINE t == SubSeq(out, 1, n)
    <2>1. \A i \in 1..n : out[i] \in Nat
        BY <1>2, ElementOfSeq
    <2>2. /\ t \in Seq(Nat)
          /\ Len(t) = IF 1 <= n THEN n - 1 + 1 ELSE 0
          /\ \A i \in 1..(n - 1 + 1) : t[i] = out[1 + i - 1]
        BY <1>2, <2>1, SubSeqProperties
    <2>3. t = src'
        BY <1>1
    <2> HIDE DEF t
    <2>4. Len(t) = n
        BY <1>2, <2>2, SMT
    <2>5. ASSUME NEW i \in 1..n PROVE t[i] = out[i]
        <3>1. i \in 1..(n - 1 + 1) /\ 1 + i - 1 = i
            BY <1>2, SMT
        <3> QED
            BY <2>2, <3>1
    <2> QED
        BY <2>2, <2>3, <2>4, <2>5
<1>4. FieldsFit(src)' /\ FieldsFit(out)'
    BY <1>1, <1>2, <1>3 DEF FieldsFit, Field
<1>5. at = 0 /\ tag = Tag(job.codec)
    BY <1>1 DEF TypeInv, Writing
<1>6. CodecsTypeOK'
    <2>1. at' \in 0..Len(src')
        BY <1>1, <1>2, <1>3, <1>5
    <2>2. phase' \in Phases /\ torn' \in BOOLEAN
        BY <1>1, Zenon DEF Phases
    <2> QED
        BY <1>1, <1>4, <2>1, <2>2, Zenon DEF TypeInv, CodecsTypeOK
<1> QED
    BY <1>1, <1>5, <1>6 DEF TypeInv, Writing

\* The tag leads to the decoder of the codec that encoded the block, and what
\* each decoder can use.
LEMMA DecTypes ==
    ASSUME TypeInv
    PROVE  /\ job \in Jobs /\ DecTyped /\ src \in Seq(Nat) /\ Len(src) \in Nat
           /\ at \in Nat /\ at <= Len(src) /\ FieldsFit(src)
           /\ phase = "decode" => FromTag(job.text, tag) = job.codec
           /\ job.text \in BOOLEAN
<1>1. job \in Jobs /\ DecTyped /\ FieldsFit(src)
    BY DEF TypeInv, CodecsTypeOK, DecTyped
<1>2. src \in Seq(Nat) /\ Len(src) \in Nat
    BY <1>1, LenProperties DEF FieldsFit
<1>3. at \in Nat /\ at <= Len(src)
    BY <1>1, <1>2 DEF DecTyped
<1>4. phase = "decode" => FromTag(job.text, tag) = job.codec
    BY <1>1, JobFacts DEF TypeInv, Writing
<1> QED
    BY <1>1, <1>2, <1>3, <1>4, JobFacts

\* A field that is there is of its kind.
LEMMA FieldTyped ==
    ASSUME TypeInv, NEW i \in 1..Len(src)
    PROVE  src[i] \in Field(i) /\ src[i] \in Nat
BY DecTypes, ElementOfSeq DEF FieldsFit

LEMMA DecodePlainTyped == ASSUME TypeInv, DecodePlain PROVE TypeInv'
<1>1. /\ ~ job.text /\ job.codec = "Plain" /\ phase = "decode"
      /\ phase' = IF torn THEN "err" ELSE "ok"
      /\ decoded' = IF torn THEN decoded ELSE src
      /\ UNCHANGED <<job, encoder, src, torn, at, last, entries>>
    BY DecTypes DEF DecodePlain, Decoding
<1>2. src \in Seq(Raw)
    <2>1. \A i \in 1..Len(src) : src[i] \in Raw
        BY <1>1, FieldTyped DEF Field
    <2> QED
        BY <2>1, DecTypes, SeqOfSome
<1>3. DecTyped'
    BY <1>1, <1>2, DecTypes DEF DecTyped
<1> QED
    BY <1>1, <1>3, DecodeTyped DEF Reading

LEMMA DecodeDeltaTyped == ASSUME TypeInv, DecodeDelta PROVE TypeInv'
<1> DEFINE curr == IF at = 0 THEN src[1] ELSE WrappingAdd(last, src[at + 1])
<1>1. /\ ~ job.text /\ job.codec = "Delta" /\ phase = "decode" /\ phase' = "decode"
      /\ Left > 0 /\ decoded' = Append(decoded, curr) /\ last' = curr /\ at' = at + 1
      /\ UNCHANGED <<job, encoder, src, torn, entries>>
    BY DecTypes DEF DecodeDelta, Decoding
<1>2. /\ at \in Nat /\ Len(src) \in Nat /\ at + 1 \in 1..Len(src) /\ last \in Raw
      /\ decoded \in Seq(Raw)
    BY <1>1, DecTypes DEF Left, DecTyped
<1>3. src[at + 1] \in Raw
    BY <1>1, <1>2, FieldTyped DEF Field
<1>4. curr \in Raw
    <2>1. WrappingAdd(last, src[at + 1]) \in Raw
        BY <1>2, <1>3, CodecsAssumption, SMT DEF WrappingAdd, Raw, Modulus
    <2> QED
        BY <1>2, <1>3, <2>1
<1> HIDE DEF curr
<1>5. decoded' \in Seq(Raw)
    BY <1>1, <1>2, <1>4, Appended
<1>6. DecTyped'
    BY <1>1, <1>2, <1>4, <1>5, DecTypes DEF DecTyped
<1> QED
    BY <1>1, <1>6, DecodeTyped DEF Reading, IsRLE

LEMMA DecodeRunTyped == ASSUME TypeInv, DecodeRun PROVE TypeInv'
<1>1. /\ ~ job.text /\ job.codec = "RLE" /\ IsRLE(job) /\ phase = "decode" /\ phase' = "decode"
      /\ Left >= 2 /\ at' = at + 2
      /\ decoded' = decoded \o Repeat(src[at + 2], src[at + 1])
      /\ UNCHANGED <<job, encoder, src, torn, last, entries>>
    BY DecTypes DEF DecodeRun, Decoding, Repeat, IsRLE
<1>2. /\ at \in Nat /\ Len(src) \in Nat /\ at + 1 \in 1..Len(src) /\ at + 2 \in 1..Len(src)
      /\ decoded \in Seq(Raw) /\ at % 2 = 0
    BY <1>1, DecTypes DEF Left, DecTyped, TypeInv
<1>3. (at + 2) % 2 = 0
    BY <1>2, SMT
<1>4. src[at + 1] \in Nat /\ src[at + 2] \in Raw
    BY <1>1, <1>2, <1>3, FieldTyped DEF Field
<1>5. Repeat(src[at + 2], src[at + 1]) \in Seq(Raw)
    BY <1>4 DEF Repeat
<1>6. decoded' \in Seq(Raw)
    BY <1>1, <1>2, <1>5, ConcatProperties
<1>7. DecTyped'
    <2>1. at' \in 0..Len(src')
        BY <1>1, <1>2
    <2> QED
        BY <1>1, <1>6, <2>1, DecTypes DEF DecTyped
<1> QED
    BY <1>1, <1>3, <1>7, DecodeTyped DEF Reading

\* Where the decoder is behind a string that it has read.
LEMMA BehindString ==
    ASSUME TypeInv, StringComplete
    PROVE  NextString \in String /\ at + 1 + src[at + 1] \in 0..Len(src)
<1>1. Left > 0 /\ Left - 1 >= src[at + 1] /\ NextString \in String
    BY DEF StringComplete
<1>2. at \in Nat /\ Len(src) \in Nat /\ at + 1 \in 1..Len(src)
    BY <1>1, DecTypes DEF Left
<1>3. src[at + 1] \in Nat
    BY <1>2, FieldTyped
<1> QED
    BY <1>1, <1>2, <1>3 DEF Left

LEMMA DecodeStringTyped == ASSUME TypeInv, DecodeString PROVE TypeInv'
<1>1. /\ job.text /\ phase = "decode" /\ phase' = "decode" /\ StringComplete
      /\ decoded' = Append(decoded, NextString) /\ at' = at + 1 + src[at + 1]
      /\ UNCHANGED <<job, encoder, src, torn, last, entries>>
    BY DecTypes DEF DecodeString, Decoding
<1>2. decoded' \in Seq(String) /\ at' \in 0..Len(src)
    <2>1. decoded \in Seq(String)
        BY <1>1, DecTypes DEF DecTyped
    <2> QED
        BY <1>1, <2>1, BehindString, Appended
<1>3. DecTyped'
    BY <1>1, <1>2, DecTypes DEF DecTyped
<1> QED
    BY <1>1, <1>3, DecodeTyped DEF Reading, IsRLE

LEMMA ReadDictLenTyped == ASSUME TypeInv, ReadDictLen PROVE TypeInv'
<1>1. /\ IsDictionary(job) /\ phase = "decode" /\ phase' = "readEntries"
      /\ Left > 0 /\ at' = 1
      /\ UNCHANGED <<job, encoder, src, torn, last, entries, decoded>>
    BY DecTypes DEF ReadDictLen, Decoding, IsDictionary
<1>2. DecTyped'
    <2>1. 1 \in 0..Len(src)
        BY <1>1, DecTypes DEF Left
    <2> QED
        BY <1>1, <2>1, DecTypes DEF DecTyped
<1> QED
    BY <1>1, <1>2, DecodeTyped DEF Reading

LEMMA ReadEntryTyped == ASSUME TypeInv, ReadEntry PROVE TypeInv'
<1>1. /\ phase = "readEntries" /\ phase' = phase /\ StringComplete
      /\ entries' = Append(entries, NextString) /\ at' = at + 1 + src[at + 1]
      /\ UNCHANGED <<job, encoder, src, torn, last, decoded>>
    BY DEF ReadEntry
<1>2. IsDictionary(job)
    BY <1>1 DEF TypeInv
<1>3. entries' \in Seq(String) /\ at' \in 0..Len(src)
    <2>1. entries \in Seq(String)
        BY DecTypes DEF DecTyped
    <2> QED
        BY <1>1, <2>1, BehindString, Appended
<1>4. DecTyped'
    BY <1>1, <1>3, DecTypes DEF DecTyped
<1> QED
    BY <1>1, <1>2, <1>4, DecodeTyped DEF Reading

LEMMA EndReadEntriesTyped == ASSUME TypeInv, EndReadEntries PROVE TypeInv'
<1>1. /\ phase = "readEntries" /\ phase' = "readIndices" /\ IsDictionary(job)
      /\ UNCHANGED <<job, encoder, src, torn, at, last, entries, decoded>>
    BY DEF EndReadEntries, Return, TypeInv
<1>2. DecTyped'
    BY <1>1, DecTypes DEF DecTyped
<1> QED
    BY <1>1, <1>2, DecodeTyped DEF Reading

LEMMA ReadIndexTyped == ASSUME TypeInv, ReadIndex PROVE TypeInv'
<1> DEFINE f == src[at + 1]
<1>1. /\ phase = "readIndices" /\ Left > 0 /\ IsDictionary(job) /\ job.text
      /\ UNCHANGED <<job, encoder, src, torn, last, entries>>
      /\ IF f < Len(entries)
         THEN /\ decoded' = Append(decoded, entries[f + 1])
              /\ at' = at + 1 /\ phase' = phase
         ELSE phase' = "err" /\ UNCHANGED <<decoded, at>>
    BY DEF ReadIndex, TypeInv, IsDictionary
<1>2. /\ at \in Nat /\ Len(src) \in Nat /\ at + 1 \in 1..Len(src)
      /\ decoded \in Seq(String) /\ entries \in Seq(String) /\ Len(entries) \in Nat
    BY <1>1, DecTypes, LenProperties DEF Left, DecTyped
<1>3. f \in Nat
    BY <1>2, FieldTyped
<1> HIDE DEF f
<1>4. CASE f < Len(entries)
    <2>1. f + 1 \in 1..Len(entries)
        BY <1>2, <1>3, <1>4
    <2>2. entries[f + 1] \in String
        BY <1>2, <2>1, ElementOfSeq
    <2>3. decoded' \in Seq(String)
        BY <1>1, <1>2, <1>4, <2>2, Appended
    <2>4. DecTyped'
        BY <1>1, <1>2, <1>4, <2>3, DecTypes DEF DecTyped
    <2> QED
        BY <1>1, <1>4, <2>4, DecodeTyped DEF Reading
<1>5. CASE ~ (f < Len(entries))
    <2>1. DecTyped'
        BY <1>1, <1>5, DecTypes DEF DecTyped
    <2> QED
        BY <1>1, <1>5, <2>1, DecodeTyped DEF Reading
<1> QED
    BY <1>4, <1>5

\* The decoder returns what it has.
LEMMA ReturnsTyped ==
    ASSUME TypeInv, \/ EndDecodeDelta \/ EndDecodeRuns \/ EndDecodeStrings
                    \/ NoDictLen \/ EntryMissing \/ EndReadIndices
    PROVE  TypeInv'
<1>1. phase \in Reading
    BY DEF EndDecodeDelta, EndDecodeRuns, EndDecodeStrings, NoDictLen, EntryMissing,
           EndReadIndices, Decoding, Reading
<1>2. Return("ok") \/ Return("err")
    BY DEF EndDecodeDelta, EndDecodeRuns, EndDecodeStrings, NoDictLen, EntryMissing,
           EndReadIndices
<1> QED
    BY <1>1, <1>2, ReturnTyped

LEMMA DecodeTypeInv == ASSUME TypeInv, Decode PROVE TypeInv'
BY DecodePlainTyped, DecodeDeltaTyped, DecodeRunTyped, DecodeStringTyped, ReadDictLenTyped,
   ReadEntryTyped, EndReadEntriesTyped, ReadIndexTyped, ReturnsTyped DEF Decode

LEMMA SameTyped == ASSUME TypeInv, UNCHANGED vars PROVE TypeInv'
<1>1. UNCHANGED <<job, phase, pos, prev, count, dict, out, ends, tag,
                  src, torn, at, last, entries, decoded>>
    BY DEF vars, encoder, decoder
<1>2. CodecsTypeOK'
    BY <1>1 DEF TypeInv, CodecsTypeOK, FieldsFit, Field
<1>3. PairsWritten' = PairsWritten /\ DictBuilt' = DictBuilt /\ DictComplete' = DictComplete
    BY <1>1 DEF PairsWritten, DictBuilt, DictComplete
<1> QED
    BY <1>1, <1>2, <1>3 DEF TypeInv

LEMMA NextTyped == TypeInv /\ [Next]_vars => TypeInv'
<1> SUFFICES ASSUME TypeInv, [Next]_vars PROVE TypeInv'
    OBVIOUS
<1>1. CASE Encode
    BY <1>1, EncodeTypeInv
<1>2. ASSUME NEW n \in 0..Len(out), NEW part \in BOOLEAN, Open(n, part) PROVE TypeInv'
    BY <1>2, OpenTyped
<1>3. CASE Decode
    BY <1>3, DecodeTypeInv
<1>4. CASE Ended \/ UNCHANGED vars
    BY <1>4, SameTyped DEF Ended
<1> QED
    BY <1>1, <1>2, <1>3, <1>4 DEF Next

-----------------------------------------------------------------------------
(***************************************************************************)
(* What fits at the end has fitted before: the dictionary only grows       *)
(***************************************************************************)
LEMMA FittedBefore == ASSUME TypeInv, [Next]_vars, Fits' PROVE Fits
<1> SUFFICES ASSUME job.text PROVE Fits
    BY DEF Fits
<1>1. job' = job
    BY DEF Next, Encode, Decode, Ended, vars, Open, EncodePlain, EncodeDelta, EndDelta,
           EncodeRun, EndRuns, EncodeString, EndStrings, BuildDict, WriteDictLen, WriteEntry,
           EndEntries, WriteIndex, EndIndices, Store, Return, DecodePlain, DecodeDelta,
           EndDecodeDelta, DecodeRun, EndDecodeRuns, DecodeString, EndDecodeStrings,
           ReadDictLen, NoDictLen, ReadEntry, EntryMissing, EndReadEntries, ReadIndex,
           EndReadIndices
<1>2. dict' = dict \/ (BuildDict /\ dict' = Append(dict, Row(pos + 1)))
    BY DEF Next, Encode, Decode, Ended, vars, encoder, Open, EncodePlain, EncodeDelta, EndDelta,
           EncodeRun, EndRuns, EncodeString, EndStrings, BuildDict, WriteDictLen, WriteEntry,
           EndEntries, WriteIndex, EndIndices, Store, Return, DecodePlain, DecodeDelta,
           EndDecodeDelta, DecodeRun, EndDecodeRuns, DecodeString, EndDecodeStrings,
           ReadDictLen, NoDictLen, ReadEntry, EntryMissing, EndReadEntries, ReadIndex,
           EndReadIndices
<1>3. CASE dict' = dict
    BY <1>1, <1>3 DEF Fits, Written
<1>4. CASE BuildDict /\ dict' = Append(dict, Row(pos + 1))
    <2>1. Row(pos + 1) \in String /\ dict \in Seq(String) /\ job.codec = "Dictionary"
        BY <1>4, RowTyped, EncTypes DEF BuildDict, Encoding, EncTyped
    <2>2. /\ Len(dict') = Len(dict) + 1 /\ Len(dict) \in Nat
          /\ \A i \in 1..Len(dict) : dict'[i] = dict[i]
        BY <1>4, <2>1, Appended, LenProperties DEF Extends
    <2>3. Len(dict') < FieldSize /\ \A i \in 1..Len(dict') : Len(dict'[i]) < FieldSize
        BY <1>1, <2>1 DEF Fits, Written
    <2>4. Len(dict) < FieldSize
        BY <2>2, <2>3, CodecsAssumption
    <2>5. \A i \in 1..Len(dict) : i \in 1..Len(dict')
        BY <2>2
    <2> QED
        BY <2>1, <2>2, <2>3, <2>4, <2>5 DEF Fits, Written
<1> QED
    BY <1>2, <1>3, <1>4

LEMMA Invariance == Spec => [](TypeInv /\ (Fits => IInv))
<1>1. Init => TypeInv /\ (Fits => IInv)
    BY InitIInv, InitTyped
<1>2. TypeInv /\ (Fits => IInv) /\ [Next]_vars => TypeInv' /\ (Fits' => IInv')
    BY NextTyped, FittedBefore, NextIInv
<1> QED
    BY <1>1, <1>2, PTL DEF Spec

-----------------------------------------------------------------------------
(***************************************************************************)
(* What the codecs promise                                                 *)
(***************************************************************************)
\* What read_granule returns are the first values, as many as were decoded.
LEMMA ReturnedValues ==
    ASSUME IInv, phase = "ok"
    PROVE  /\ Len(Returned) = Len(decoded) /\ Len(decoded) \in Nat
           /\ Len(decoded) <= Len(job.values)
           /\ \A i \in 1..Len(decoded) : Returned[i] = job.values[i]
<1>1. Types /\ job \in Jobs /\ Rows(job, decoded)
    BY DEF IInv, Types
<1>2. Len(decoded) \in Nat
    BY <1>1, LenProperties DEF Types
<1>3. Len(job.values) \in Nat /\ Len(decoded) <= Len(job.values)
    BY <1>1, JobFacts DEF Rows
<1>4. Len(Returned) = Len(decoded)
    BY <1>2 DEF Returned
<1>5. ASSUME NEW i \in 1..Len(decoded) PROVE Returned[i] = job.values[i]
    <2>1. i \in 1..Len(job.values) /\ decoded[i] = RowOf(job, i)
        BY <1>1, <1>2, <1>3 DEF Rows
    <2>2. Returned[i] = IF job.text THEN decoded[i] ELSE DecodeLe(job.signed, decoded[i])
        BY DEF Returned
    <2> QED
        BY <1>1, <2>1, <2>2, JobFacts
<1> QED
    BY <1>2, <1>3, <1>4, <1>5

\* Whatever the block and its size, and also when a length was cut to 32 bits:
\* each field that an encoder writes and a decoder is given is one its u16, its
\* u32 or the column's type can hold, counters that are written are not 0, and
\* what is decoded are values of the column's type.
THEOREM TypeCorrect == Spec => []CodecsTypeOK
<1>1. TypeInv => CodecsTypeOK
    BY DEF TypeInv
<1> QED
    BY <1>1, Invariance, PTL

\* Decoding what was encoded gives the values back and no error: in Plain,
\* Delta and RLE for values of every width, signed or not, and in the string
\* codecs for every sequence of strings that fit their lengths.
THEOREM BlocksRoundTrip == Spec => []RoundTrip
<1>1. ASSUME Fits => IInv PROVE RoundTrip
    <2> SUFFICES ASSUME IInv, src = out, ~ torn
                 PROVE  (phase = "ok" => Returned = job.values) /\ phase # "err"
        BY <1>1 DEF RoundTrip
    <2>1. Len(out) \in Nat /\ job \in Jobs
        BY LenProperties DEF IInv, Types
    <2>2. phase # "err"
        BY <2>1 DEF IInv
    <2>3. ASSUME phase = "ok" PROVE Returned = job.values
        <3>1. /\ Len(Returned) = Len(decoded) /\ Len(decoded) \in Nat
              /\ \A i \in 1..Len(decoded) : Returned[i] = job.values[i]
            BY <2>3, ReturnedValues
        <3>2. Len(decoded) = Len(job.values)
            BY <2>3 DEF IInv
        <3>3. PICK S : job.values \in Seq(S)
            BY <2>1, CodecsAssumption DEF JobType, NumericJob, TextJob
        <3>4. \A i \in 1..Len(decoded) : job.values[i] \in S
            BY <3>2, <3>3, ElementOfSeq
        <3>5. Returned \in Seq(S)
            BY <3>1, <3>4 DEF Returned
        <3> QED
            BY <3>1, <3>2, <3>3, <3>5, SeqEqual
    <2> QED
        BY <2>2, <2>3
<1> QED
    BY <1>1, Invariance, PTL

\* A block that lost its end, in the middle of a field or between two of them,
\* is refused or read as the values that are all there; none is made up.
THEOREM CutOffsAreSeen == Spec => []CutOffIsPrefix
<1>1. ASSUME Fits => IInv PROVE CutOffIsPrefix
    <2> SUFFICES ASSUME IInv, phase = "ok"
                 PROVE  /\ Len(Returned) <= NumRows
                        /\ \A i \in 1..Len(Returned) : Returned[i] = job.values[i]
        BY <1>1 DEF CutOffIsPrefix
    <2> QED
        BY ReturnedValues DEF NumRows
<1> QED
    BY <1>1, Invariance, PTL

=============================================================================
