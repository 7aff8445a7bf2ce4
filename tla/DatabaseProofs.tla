---------------------------- MODULE DatabaseProofs ----------------------------
(***************************************************************************)
(* Proofs about Database: a table that is written, crashes and is queried  *)
(* at the same time, for any sets of inserts and columns.  The invariants  *)
(* of TableWriterProofs say what is in the table; the ones here add what  *)
(* a query knows of it.                                                    *)
(***************************************************************************)
EXTENDS Database, TableWriterProofs

-----------------------------------------------------------------------------
(***************************************************************************)
(* Type correctness, for any number of TableWriters                        *)
(***************************************************************************)
TypeInv == /\ TypeOK
           /\ DbTypeOK
           /\ query # "reading" => listed = {}

LEMMA WriteIsNext == ASSUME Write \/ LosePower PROVE Next
  BY DEF Write, LosePower, Next

LEMMA NothingReadType ==
    NothingRead \in [PartIds -> [Files -> Content \cup {Unread}]]
  BY DEF NothingRead

LEMMA InitTypeInv == DbInit => TypeInv
<1> SUFFICES ASSUME DbInit PROVE TypeInv
  OBVIOUS
<1>1. TypeOK
  BY InitTypeOK DEF DbInit
<1>2. DbTypeOK
  BY NothingReadType DEF DbInit, DbTypeOK
<1> QED
  BY <1>1, <1>2 DEF TypeInv, DbInit

LEMMA ForgetType == ASSUME Forget, shown' \subseteq PartIds, shared' \in BOOLEAN
                    PROVE  DbTypeOK' /\ listed' = {}
  BY NothingReadType DEF Forget, DbTypeOK

LEMMA ReadFileType ==
    ASSUME TypeInv, NEW i \in PartIds, NEW f \in Files, ReadFile(i, f)
    PROVE  /\ got' \in [PartIds -> [Files -> Content \cup {Unread}]]
           /\ \A j \in PartIds : j # i => got'[j] = got[j]
<1> DEFINE c == IF fs.part[i] = NoDir THEN Missing ELSE fs.data[fs.part[i]][f]
<1>1. c \in Content
  <2>1. Missing \in Content
    BY DEF Missing, Content
  <2>2. fs.part[i] # NoDir => fs.part[i] \in Inserts
    BY DEF TypeInv, TypeOK, FileSystem, DirOrNone
  <2>3. fs.part[i] \in Inserts => fs.data[fs.part[i]][f] \in Content
    BY DEF TypeInv, TypeOK, FileSystem
  <2> QED
    BY <2>1, <2>2, <2>3
<1>2. got' = [got EXCEPT ![i][f] = c]
  BY DEF ReadFile
<1> HIDE DEF c
<1>3. got \in [PartIds -> [Files -> Content \cup {Unread}]]
  BY DEF TypeInv, DbTypeOK
<1> QED
  BY <1>1, <1>2, <1>3

LEMMA NextTypeInv == TypeInv /\ [DbNext]_dbVars => TypeInv'
<1> SUFFICES ASSUME TypeInv, [DbNext]_dbVars PROVE TypeInv'
  OBVIOUS
<1>1. CASE Write
  <2>1. TypeOK'
    BY <1>1, WriteIsNext, NextTypeOK DEF TypeInv
  <2>2. DbTypeOK'
    BY <1>1 DEF TypeInv, DbTypeOK, Write, reader
  <2> QED
    BY <1>1, <2>1, <2>2 DEF TypeInv, Write, reader
<1>2. CASE LosePower
  <2>1. TypeOK'
    BY <1>2, WriteIsNext, NextTypeOK DEF TypeInv
  <2>2. Forget /\ shown' \subseteq PartIds /\ shared' \in BOOLEAN
    BY <1>2 DEF LosePower, TypeInv, DbTypeOK
  <2> QED
    BY <2>1, <2>2, ForgetType DEF TypeInv
<1>3. ASSUME UNCHANGED vars PROVE TypeOK'
  BY <1>3, NextTypeOK DEF TypeInv
<1>4. CASE Read /\ UNCHANGED <<vars, shared>>
  <2>1. TypeOK'
    BY <1>3, <1>4
  <2>2. CASE BeginListing
    BY <1>4, <2>1, <2>2, TableWriterAssumption
       DEF Read, BeginListing, TypeInv, DbTypeOK, PartNames, Acknowledged, TypeOK
  <2>3. CASE EndListing
    <3>1. listed' \subseteq PartIds /\ lossy' \in BOOLEAN
      BY <2>3 DEF EndListing, TypeInv, DbTypeOK, PartNames
    <3>2. \A i \in PartIds : got[i] = NothingRead[i]
      BY <2>3 DEF EndListing, TypeInv, DbTypeOK
    <3> QED
      BY <1>4, <2>1, <2>3, <3>1, <3>2 DEF Read, EndListing, TypeInv, DbTypeOK
  <2>4. ASSUME NEW i \in PartIds, NEW f \in Files, ReadFile(i, f) PROVE TypeInv'
    <3>1. /\ got' \in [PartIds -> [Files -> Content \cup {Unread}]]
          /\ \A j \in PartIds : j # i => got'[j] = got[j]
      BY <2>4, ReadFileType
    <3>2. \A j \in PartIds : j \notin listed' => got'[j] = NothingRead[j]
      BY <2>4, <3>1 DEF ReadFile, TypeInv, DbTypeOK
    <3> QED
      BY <1>4, <2>1, <2>4, <3>1, <3>2 DEF Read, ReadFile, TypeInv, DbTypeOK
  <2> QED
    BY <1>4, <2>2, <2>3, <2>4 DEF Read
<1>5. CASE EndQuery /\ UNCHANGED <<vars, shared>>
  <2>1. Forget /\ shown' \subseteq PartIds /\ shared' \in BOOLEAN
    BY <1>5 DEF EndQuery, TypeInv, DbTypeOK
  <2> QED
    BY <1>3, <1>5, <2>1, ForgetType DEF TypeInv
<1>6. CASE UNCHANGED dbVars
  BY <1>3, <1>6 DEF TypeInv, DbTypeOK, dbVars, reader
<1> QED
  BY <1>1, <1>2, <1>4, <1>5, <1>6 DEF DbNext

\* What a query holds has its type; files of parts it did not list are unread.
THEOREM DatabaseTypes == DbSpec => []DbTypeOK
<1>1. TypeInv => DbTypeOK
  BY DEF TypeInv
<1> QED
  BY <1>1, InitTypeInv, NextTypeInv, PTL DEF DbSpec

-----------------------------------------------------------------------------
(***************************************************************************)
(* The names of the parts, however many TableWriters are open              *)
(***************************************************************************)
\* What was acknowledged or shown has a name, and one that a listing finds.
Names == /\ begin \cup listed \cup known \cup shown \subseteq PartNames
         /\ query = "listing" => known \cup shown \subseteq begin
         /\ query = "reading" /\ ~ lossy => known \cup shown \subseteq listed

NamesInv == SharedInv /\ TypeInv /\ Names

\* An insert that has returned Ok has its part in the table, and on disk.
LEMMA AcknowledgedHasName ==
    ASSUME SharedInv
    PROVE  /\ Acknowledged \subseteq PartNames
           /\ \A i \in Acknowledged : disk.part[i] # NoDir
<1> SUFFICES ASSUME NEW b \in Inserts, pc[b] = "ok"
             PROVE  id[b] \in PartNames /\ disk.part[id[b]] # NoDir
  BY DEF Acknowledged
<1>1. id[b] \in PartIds /\ disk.part[id[b]] # NoDir
  BY DEF SharedInv, TypeOK, RenamedNamed
<1> QED
  BY <1>1 DEF SharedInv, NamesKept, PartNames

\* Inserts, restarts and crashes of the process take no part away.
LEMMA NamesStay == ASSUME SharedInv, Write PROVE PartNames \subseteq PartNames'
  BY WriteStays DEF Write, PartsStay, PartNames

LEMMA InitNamesInv == DbInit => NamesInv
  BY InitSharedInv, InitTypeInv DEF DbInit, NamesInv, Names

\* A query that ends forgets its parts; what it has shown stays.
LEMMA ForgetNames ==
    ASSUME Forget, shown' \subseteq PartNames' PROVE Names'
  BY DEF Forget, Names

LEMMA ReadNames ==
    ASSUME NamesInv, Read \/ EndQuery, UNCHANGED vars
    PROVE  Names'
<1>1. PartNames' = PartNames
  BY DEF vars, PartNames
<1>2. CASE BeginListing /\ UNCHANGED shown
  <2>1. Acknowledged \subseteq PartNames
    BY AcknowledgedHasName DEF NamesInv
  <2> QED
    BY <1>1, <1>2, <2>1 DEF BeginListing, NamesInv, Names
<1>3. CASE EndListing /\ UNCHANGED shown
  <2>1. PICK dropped \in SUBSET begin, more \in SUBSET (PartNames \ begin) :
            /\ listed' = (begin \ dropped) \cup more
            /\ lossy' = (dropped # {})
    BY <1>3 DEF EndListing
  <2>2. ~ lossy' => begin \subseteq listed'
    BY <2>1
  <2> QED
    BY <1>1, <1>3, <2>1, <2>2 DEF EndListing, NamesInv, Names
<1>4. ASSUME NEW i \in PartIds, NEW f \in Files, ReadFile(i, f), UNCHANGED shown
      PROVE  Names'
  BY <1>1, <1>4 DEF ReadFile, NamesInv, Names
<1>5. CASE EndQuery
  <2>1. shown' \subseteq PartNames'
    BY <1>1, <1>5 DEF EndQuery, NamesInv, Names
  <2> QED
    BY <1>5, <2>1, ForgetNames DEF EndQuery
<1> QED
  BY <1>2, <1>3, <1>4, <1>5 DEF Read

LEMMA NextNamesInv == NamesInv /\ [DbNext]_dbVars => NamesInv'
<1> SUFFICES ASSUME NamesInv, [DbNext]_dbVars PROVE NamesInv'
  OBVIOUS
<1>1. TypeInv'
  BY NextTypeInv DEF NamesInv
<1>2. [Next]_vars
  BY WriteIsNext DEF DbNext, dbVars
<1>3. SharedInv'
  BY <1>2, NextSharedInv DEF NamesInv
<1>4. CASE Write
  <2>1. PartNames \subseteq PartNames'
    BY <1>4, NamesStay DEF NamesInv
  <2>2. Names'
    BY <1>4, <2>1 DEF NamesInv, Names, Write, reader
  <2> QED
    BY <1>1, <1>3, <2>2 DEF NamesInv
<1>5. CASE LosePower
  <2>1. fs' = disk /\ Forget /\ shown' \subseteq Acknowledged
    BY <1>5 DEF LosePower, PowerLoss, Crash
  <2>2. Acknowledged \subseteq PartNames'
    BY <2>1, AcknowledgedHasName DEF NamesInv, PartNames
  <2> QED
    BY <1>1, <1>3, <2>1, <2>2, ForgetNames DEF NamesInv
<1>6. CASE (Read \/ EndQuery) /\ UNCHANGED <<vars, shared>>
  BY <1>1, <1>3, <1>6, ReadNames DEF NamesInv
<1>7. CASE UNCHANGED dbVars
  BY <1>1, <1>3, <1>7 DEF dbVars, vars, reader, NamesInv, Names, PartNames
<1> QED
  BY <1>4, <1>5, <1>6, <1>7 DEF DbNext

LEMMA NamesInvariance == DbSpec => []NamesInv
  BY InitNamesInv, NextNamesInv, PTL DEF DbSpec

\* A query that begins after insert() returned Ok lists the part, whatever
\* crashed, whatever was lost in between and however many TableWriters wrote.
THEOREM AcknowledgedIsRead == DbSpec => []AcknowledgedIsListed
<1>1. NamesInv => AcknowledgedIsListed
  BY DEF NamesInv, Names, AcknowledgedIsListed
<1> QED
  BY <1>1, NamesInvariance, PTL

\* What one query has shown the next one lists too.
THEOREM ReadsAreMonotonic == DbSpec => []ReadsNeverGoBack
<1>1. NamesInv => ReadsNeverGoBack
  BY DEF NamesInv, Names, ReadsNeverGoBack
<1> QED
  BY <1>1, NamesInvariance, PTL

\* While the table is queried, too, no part is put in the place of another:
\* a name that a query has listed stays that of the directory it listed.
THEOREM ListedPartsAreNotReplaced == DbSpec => NeverReplaced
<1>1. NamesInv /\ [DbNext]_dbVars =>
          [\A i \in PartIds :
              HasFiles(fs, i) /\ HasFiles(fs', i) => fs'.part[i] = fs.part[i]]_vars
  <2> SUFFICES ASSUME NamesInv, [DbNext]_dbVars
               PROVE  [\A i \in PartIds :
                          HasFiles(fs, i) /\ HasFiles(fs', i) => fs'.part[i] = fs.part[i]]_vars
    OBVIOUS
  <2>1. [Next]_vars
    BY WriteIsNext DEF DbNext, dbVars
  <2> QED
    BY <2>1, NotReplaced DEF NamesInv
<1> QED
  BY <1>1, NamesInvariance, PTL DEF DbSpec, NeverReplaced

-----------------------------------------------------------------------------
(***************************************************************************)
(* What the files hold, when one TableWriter is open at a time             *)
(***************************************************************************)
\* A query has read what is in the parts now.
ReadsAreCurrent ==
    \A i \in listed, f \in Files : got[i][f] \in {Unread, fs.data[fs.part[i]][f]}

DbInv == IInv /\ NamesInv /\ ReadsAreCurrent

LEMMA InitDbInv == DbInit => DbInv
<1> SUFFICES ASSUME DbInit PROVE DbInv
  OBVIOUS
<1>1. IInv /\ NamesInv
  BY InitIInv, InitNamesInv DEF DbInit
<1>2. ReadsAreCurrent
  BY DEF DbInit, ReadsAreCurrent
<1> QED
  BY <1>1, <1>2 DEF DbInv

\* While the table is written, a query keeps what it has.
LEMMA WriteKeeps == ASSUME DbInv, Write PROVE ReadsAreCurrent'
<1>1. UNCHANGED <<listed, got>>
  BY DEF Write, reader
<1>2. PartNames \subseteq PartNames'
  BY NamesStay DEF DbInv, NamesInv
<1>3. PartsKept
  BY WriteIsNext, NextPartsKept DEF DbInv
<1>4. \A i \in listed : fs.data[fs.part[i]] = fs'.data[fs'.part[i]]
  BY <1>2, <1>3 DEF PartsKept, DbInv, NamesInv, Names, PartNames
<1> QED
  BY <1>1, <1>4 DEF DbInv, ReadsAreCurrent

LEMMA ReadKeeps ==
    ASSUME DbInv, Read \/ EndQuery, UNCHANGED vars
    PROVE  ReadsAreCurrent'
<1>1. fs' = fs
  BY DEF vars
<1>2. CASE BeginListing
  BY <1>1, <1>2 DEF BeginListing, DbInv, ReadsAreCurrent
<1>3. CASE EndListing
  <2>1. PICK dropped \in SUBSET begin, more \in SUBSET (PartNames \ begin) :
            listed' = (begin \ dropped) \cup more
    BY <1>3 DEF EndListing
  <2>2. \A i \in listed' : i \in PartIds /\ got'[i] = NothingRead[i]
    BY <1>3, <2>1 DEF EndListing, DbInv, NamesInv, Names, PartNames, TypeInv, DbTypeOK
  <2> QED
    BY <2>2 DEF ReadsAreCurrent, NothingRead
<1>4. ASSUME NEW i \in PartIds, NEW f \in Files, ReadFile(i, f)
      PROVE  ReadsAreCurrent'
  <2>1. i \in listed /\ fs.part[i] # NoDir
    BY <1>4 DEF ReadFile, DbInv, NamesInv, Names, PartNames
  <2>2. got' = [got EXCEPT ![i][f] = fs.data[fs.part[i]][f]] /\ listed' = listed
    BY <1>4, <2>1 DEF ReadFile
  <2>3. got \in [PartIds -> [Files -> Content \cup {Unread}]] /\ listed \subseteq PartIds
    BY DEF DbInv, NamesInv, TypeInv, DbTypeOK
  <2> QED
    BY <1>1, <2>2, <2>3 DEF DbInv, ReadsAreCurrent
<1>5. CASE EndQuery
  BY <1>5 DEF EndQuery, Forget, ReadsAreCurrent
<1> QED
  BY <1>2, <1>3, <1>4, <1>5 DEF Read

LEMMA NextDbInv == ASSUME SingleHandle, DbInv, [DbNext]_dbVars PROVE DbInv'
<1>1. NamesInv'
  BY NextNamesInv DEF DbInv
<1>2. [Next]_vars
  BY WriteIsNext DEF DbNext, dbVars
<1>3. IInv'
  BY <1>2, NextIInv DEF DbInv
<1>4. CASE Write
  BY <1>1, <1>3, <1>4, WriteKeeps DEF DbInv
<1>5. CASE LosePower
  <2>1. ReadsAreCurrent'
    BY <1>5 DEF LosePower, Forget, ReadsAreCurrent
  <2> QED
    BY <1>1, <1>3, <2>1 DEF DbInv
<1>6. CASE (Read \/ EndQuery) /\ UNCHANGED <<vars, shared>>
  BY <1>1, <1>3, <1>6, ReadKeeps DEF DbInv
<1>7. CASE UNCHANGED dbVars
  BY <1>1, <1>3, <1>7 DEF dbVars, vars, reader, DbInv, ReadsAreCurrent
<1> QED
  BY <1>4, <1>5, <1>6, <1>7 DEF DbNext

LEMMA DbInvariance == ASSUME SingleHandle PROVE DbSpec => []DbInv
<1>1. DbInv /\ [DbNext]_dbVars => DbInv'
  BY NextDbInv
<1> QED
  BY <1>1, InitDbInv, PTL DEF DbSpec

\* However its file reads are interleaved with inserts and crashes, a query
\* reads each part as the whole batch of one insert.
THEOREM AnswersAreWhole == ASSUME SingleHandle PROVE DbSpec => []AnswerWhole
<1>1. DbInv => AnswerWhole
  <2> SUFFICES ASSUME DbInv, NEW i \in listed
               PROVE  \E b \in Inserts :
                         /\ id[b] = i
                         /\ pc[b] \in {"sync", "ok", "unsynced", "crashed"}
                         /\ \A f \in Files : got[i][f] \in {Unread, Whole(b)}
    BY DEF AnswerWhole
  <2>1. i \in PartIds /\ fs.part[i] # NoDir
    BY DEF DbInv, NamesInv, Names, PartNames
  <2>2. PICK b \in Inserts : id[b] = i /\ pc[b] \in Past /\ Holds(fs, i, b)
    BY <2>1 DEF DbInv, IInv, FsInv, PartsOf
  <2>3. \A f \in Files : got[i][f] \in {Unread, Whole(b)}
    BY <2>2 DEF DbInv, ReadsAreCurrent, Holds
  <2> QED
    BY <2>2, <2>3 DEF Past
<1> QED
  BY <1>1, DbInvariance, PTL
=============================================================================
