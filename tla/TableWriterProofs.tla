-------------------------- MODULE TableWriterProofs --------------------------
(***************************************************************************)
(* Proofs about TableWriter for any sets of inserts and columns and any    *)
(* bound on the part ids, when at most one TableWriter is open on the      *)
(* table at a time.                                                        *)
(***************************************************************************)
EXTENDS TableWriter, TLAPS

\* One TableWriter at a time.  With two, NoHalfWrittenPart is violated.
SingleHandle == \A g, h \in Handles : g = h

-----------------------------------------------------------------------------
(***************************************************************************)
(* The inductive invariant                                                 *)
(***************************************************************************)
\* No directory has two names.
OneName(s) ==
    /\ \A i, j \in PartIds : s.tmp[i] # NoDir /\ s.tmp[i] = s.tmp[j] => i = j
    /\ \A i, j \in PartIds : s.tmp[i] # NoDir => s.tmp[i] # s.part[j]

\* An insert that has created no directory is the creator of none.
Uncreated(s) ==
    \A b \in Inserts : pc[b] \in {"idle", "mkdir"} =>
        \A i \in PartIds : s.tmp[i] # b /\ s.part[i] # b

\* Every part is the work of one insert, which got as far as its rename.
Past == {"sync", "ok", "unsynced", "crashed"}

PartsOf(s) ==
    \A i \in PartIds : s.part[i] # NoDir =>
        \E b \in Inserts : id[b] = i /\ pc[b] \in Past /\ Holds(s, i, b)

\* Power loss takes parts away but never changes one.
DiskBehind ==
    \A i \in PartIds : disk.part[i] # NoDir =>
        /\ fs.part[i] = disk.part[i]
        /\ fs.data[disk.part[i]] = disk.data[disk.part[i]]

\* The counter is ahead of every id in use.
CounterAhead ==
    /\ \A b \in Inserts : Running(b) => id[b] < next[handle[b]]
    /\ \A h \in Handles : next[h] # Closed =>
          \A i \in PartIds : fs.part[i] # NoDir => i < next[h]

\* How far a running insert is.
Before(b) == pc[b] \in {"idle", "mkdir"} =>
                 \A f \in Files : file[b][f] = "todo" /\ fd[b][f] = NoDir

TargetIsFree(b) == pc[b] \in {"mkdir", "write"} => fs.part[id[b]] = NoDir

OpenFiles(b) ==
    \A f \in Files : fd[b][f] # NoDir =>
        /\ pc[b] = "write"
        /\ fd[b][f] = fs.tmp[id[b]]
        /\ file[b][f] \in {"open", "written"}

Writing(b) == pc[b] = "write" =>
    /\ fs.tmp[id[b]] # NoDir
    /\ \A f \in Files :
          LET content == fs.data[fs.tmp[id[b]]][f] IN
          /\ file[b][f] = "open" => fd[b][f] # NoDir /\ content = Torn
          /\ file[b][f] = "written" =>
                 fd[b][f] # NoDir /\ content = [state |-> "dirty", from |-> {b}]
          /\ file[b][f] = "done" => content = Whole(b)

Renamed(b) == pc[b] = "sync" => Holds(fs, id[b], b)

Progress == \A b \in Inserts : /\ Before(b)
                               /\ TargetIsFree(b)
                               /\ OpenFiles(b)
                               /\ Writing(b)
                               /\ Renamed(b)

FsInv(s) == OneName(s) /\ Uncreated(s) /\ PartsOf(s)

IInv == /\ TypeOK
        /\ FsInv(fs)
        /\ FsInv(disk)
        /\ DiskBehind
        /\ CounterAhead
        /\ IdsPrivate
        /\ Progress
        /\ AckedDurable

-----------------------------------------------------------------------------
(***************************************************************************)
(* Facts about the file system                                             *)
(***************************************************************************)
\* Committing the journal keeps the names, and every directory all of whose
\* files are synced.
LEMMA JournalledFacts ==
    ASSUME NEW s \in FileSystem
    PROVE  /\ Journalled(s) \in FileSystem
           /\ Journalled(s).tmp = s.tmp
           /\ Journalled(s).part = s.part
           /\ \A i \in PartIds, b \in Inserts : Holds(s, i, b) =>
                 /\ Holds(Journalled(s), i, b)
                 /\ Journalled(s).data[s.part[i]] = s.data[s.part[i]]
<1>1. Torn \in Content
  BY DEF Torn, Content
<1>2. Journalled(s) \in FileSystem
  BY <1>1 DEF Journalled, FileSystem
<1>3. Journalled(s).tmp = s.tmp /\ Journalled(s).part = s.part
  BY DEF Journalled, FileSystem
<1>4. ASSUME NEW i \in PartIds, NEW b \in Inserts, Holds(s, i, b)
      PROVE  /\ Holds(Journalled(s), i, b)
             /\ Journalled(s).data[s.part[i]] = s.data[s.part[i]]
  <2>1. s.part[i] \in Inserts
    BY <1>4 DEF Holds, FileSystem, DirOrNone
  <2>2. \A f \in Files : Journalled(s).data[s.part[i]][f] = s.data[s.part[i]][f]
    BY <1>4, <2>1 DEF Journalled, FileSystem, Holds, Whole
  <2>3. /\ Journalled(s).data[s.part[i]] \in [Files -> Content]
        /\ s.data[s.part[i]] \in [Files -> Content]
    BY <1>2, <2>1 DEF FileSystem
  <2>4. Journalled(s).data[s.part[i]] = s.data[s.part[i]]
    BY <2>2, <2>3
  <2> QED
    BY <1>3, <1>4, <2>4 DEF Holds
<1> QED
  BY <1>2, <1>3, <1>4

\* Changing the contents of one file.
LEMMA FileUpdateType ==
    ASSUME NEW s \in FileSystem, NEW d \in Inserts, NEW f \in Files,
           NEW c \in Content
    PROVE  [s EXCEPT !.data[d][f] = c] \in FileSystem
  BY DEF FileSystem

-----------------------------------------------------------------------------
(***************************************************************************)
(* Type correctness                                                        *)
(***************************************************************************)
LEMMA InitTypeOK == Init => TypeOK
<1> SUFFICES ASSUME Init PROVE TypeOK
  OBVIOUS
<1>1. Missing \in Content
  BY DEF Missing, Content
<1>2. fs \in FileSystem /\ disk \in FileSystem
  BY <1>1 DEF Init, FileSystem, DirOrNone
<1>3. 0 \in PartIds
  BY TableWriterAssumption DEF PartIds
<1>4. (CHOOSE h \in Handles : TRUE) \in Handles
  BY TableWriterAssumption
<1> QED
  BY <1>2, <1>3, <1>4 DEF Init, TypeOK, Phases, FileSteps, DirOrNone, Closed

LEMMA NextTypeOK == TypeOK /\ [Next]_vars => TypeOK'
<1> SUFFICES ASSUME TypeOK, [Next]_vars PROVE TypeOK'
  OBVIOUS
<1> USE TableWriterAssumption
<1>1. ASSUME NEW h \in Handles, Open(h) PROVE TypeOK'
  BY <1>1 DEF TypeOK, Open
<1>2. ASSUME NEW b \in Inserts, Reject(b) PROVE TypeOK'
  BY <1>2 DEF TypeOK, Reject, Phases
<1>3. ASSUME NEW b \in Inserts, NEW h \in Handles, Reserve(b, h) PROVE TypeOK'
  BY <1>3 DEF TypeOK, Reserve, Phases, PartIds, Closed
<1>4. ASSUME NEW b \in Inserts, MakeTmpDir(b) PROVE TypeOK'
  BY <1>4 DEF TypeOK, MakeTmpDir, Phases, FileSystem, DirOrNone
<1>5. ASSUME NEW b \in Inserts, MakeTmpDirFails(b) PROVE TypeOK'
  BY <1>5 DEF TypeOK, MakeTmpDirFails, Phases
<1>6. ASSUME NEW b \in Inserts, NEW f \in Files, CreateFile(b, f) PROVE TypeOK'
  BY <1>6 DEF TypeOK, CreateFile, FileSystem, DirOrNone, FileSteps, Torn, Content
<1>7. ASSUME NEW b \in Inserts, NEW f \in Files, WriteFile(b, f) PROVE TypeOK'
  <2>1. fs' \in FileSystem
    <3>1. CASE fd[b][f] = NoDir
      BY <1>7, <3>1 DEF WriteFile, TypeOK
    <3>2. CASE fd[b][f] # NoDir
      <4> DEFINE c == [state |-> "dirty", from |-> fs.data[fd[b][f]][f].from \cup {b}]
      <4>1. fd[b][f] \in Inserts
        BY <3>2 DEF TypeOK, DirOrNone
      <4>2. c \in Content
        BY <4>1 DEF TypeOK, FileSystem, Content
      <4>3. fs' = [fs EXCEPT !.data[fd[b][f]][f] = c]
        BY <1>7, <3>2 DEF WriteFile
      <4> QED
        BY <4>1, <4>2, <4>3, FileUpdateType DEF TypeOK
    <3> QED
      BY <3>1, <3>2
  <2> QED
    BY <1>7, <2>1 DEF TypeOK, WriteFile, FileSteps
<1>8. ASSUME NEW b \in Inserts, NEW f \in Files, SyncFile(b, f) PROVE TypeOK'
  <2>1. fs' \in FileSystem
    <3>1. CASE fd[b][f] = NoDir
      BY <1>8, <3>1 DEF SyncFile, TypeOK
    <3>2. CASE fd[b][f] # NoDir
      <4> DEFINE c == [state |-> "synced", from |-> fs.data[fd[b][f]][f].from]
      <4>1. fd[b][f] \in Inserts
        BY <3>2 DEF TypeOK, DirOrNone
      <4>2. c \in Content
        BY <4>1 DEF TypeOK, FileSystem, Content
      <4>3. fs' = [fs EXCEPT !.data[fd[b][f]][f] = c]
        BY <1>8, <3>2 DEF SyncFile
      <4> QED
        BY <4>1, <4>2, <4>3, FileUpdateType DEF TypeOK
    <3> QED
      BY <3>1, <3>2
  <2>2. disk' \in FileSystem
    BY <1>8, <2>1, JournalledFacts DEF SyncFile
  <2> QED
    BY <1>8, <2>1, <2>2 DEF TypeOK, SyncFile, FileSteps, DirOrNone
<1>9. ASSUME NEW b \in Inserts, NEW f \in Files, FileFails(b, f) PROVE TypeOK'
  BY <1>9 DEF TypeOK, FileFails, FileSteps, DirOrNone
<1>10. ASSUME NEW b \in Inserts, Abort(b) PROVE TypeOK'
  <2>1. Missing \in Content
    BY DEF Missing, Content
  <2>2. fd' \in [Inserts -> [Files -> DirOrNone]]
    <3>1. CASE fs.tmp[id[b]] = NoDir
      BY <1>10, <3>1 DEF TypeOK, Abort
    <3>2. CASE fs.tmp[id[b]] # NoDir
      <4>1. PICK unlinked \in SUBSET Files :
               fd' = [i \in Inserts |-> [f \in Files |->
                  IF fd[i][f] = fs.tmp[id[b]] /\ f \in unlinked
                  THEN NoDir ELSE fd[i][f]]]
        BY <1>10, <3>2 DEF Abort
      <4> QED
        BY <4>1 DEF TypeOK, DirOrNone
    <3> QED
      BY <3>1, <3>2
  <2>3. fs' \in FileSystem
    <3>1. CASE fs.tmp[id[b]] = NoDir
      BY <1>10, <3>1 DEF TypeOK, Abort
    <3>2. CASE fs.tmp[id[b]] # NoDir
      <4> DEFINE d == fs.tmp[id[b]]
      <4>1. d \in Inserts
        BY <3>2 DEF TypeOK, FileSystem, DirOrNone
      <4>2. PICK unlinked \in SUBSET Files, removed \in BOOLEAN :
               fs' = [fs EXCEPT
                     !.tmp[id[b]] = IF removed THEN NoDir ELSE d,
                     !.data[d] = [f \in Files |-> IF f \in unlinked THEN Missing ELSE @[f]]]
        BY <1>10, <3>2 DEF Abort
      <4>3. [f \in Files |-> IF f \in unlinked THEN Missing ELSE fs.data[d][f]]
               \in [Files -> Content]
        BY <2>1, <4>1 DEF TypeOK, FileSystem
      <4> HIDE DEF d
      <4> QED
        BY <4>1, <4>2, <4>3 DEF TypeOK, FileSystem, DirOrNone
    <3> QED
      BY <3>1, <3>2
  <2> QED
    BY <1>10, <2>2, <2>3 DEF TypeOK, Abort, Phases
<1>11. ASSUME NEW b \in Inserts, Rename(b) PROVE TypeOK'
  BY <1>11 DEF TypeOK, Rename, FileSystem, DirOrNone, Phases
<1>12. ASSUME NEW b \in Inserts, RenameFails(b) PROVE TypeOK'
  BY <1>12 DEF TypeOK, RenameFails, Phases
<1>13. ASSUME NEW b \in Inserts, SyncTableDir(b) PROVE TypeOK'
  BY <1>13, JournalledFacts DEF TypeOK, SyncTableDir, Phases
<1>14. ASSUME NEW b \in Inserts, SyncTableDirFails(b) PROVE TypeOK'
  BY <1>14 DEF TypeOK, SyncTableDirFails, Phases
<1>15. CASE JournalCommit
  BY <1>15, JournalledFacts DEF TypeOK, JournalCommit
<1>16. ASSUME ProcessCrash \/ PowerLoss PROVE TypeOK'
  BY <1>16 DEF TypeOK, ProcessCrash, PowerLoss, Crash, Phases, DirOrNone, Closed
<1>17. CASE UNCHANGED vars
  BY <1>17 DEF TypeOK, vars
<1> QED
  BY <1>1, <1>2, <1>3, <1>4, <1>5, <1>6, <1>7, <1>8, <1>9, <1>10, <1>11, <1>12,
     <1>13, <1>14, <1>15, <1>16, <1>17 DEF Next, InsertStep, FileStep

\* The variables keep their types; in particular every id is within its bound.
THEOREM TypeCorrect == Spec => []TypeOK
  BY InitTypeOK, NextTypeOK, PTL DEF Spec

-----------------------------------------------------------------------------
(***************************************************************************)
(* The invariant is inductive: facts that several steps share              *)
(***************************************************************************)
\* The calls only move forward, and a reserved id does not change.
Advance == \A b \in Inserts :
    /\ pc'[b] \in {"idle", "mkdir"} => pc[b] \in {"idle", "mkdir"}
    /\ pc[b] \in Past => pc'[b] \in Past /\ id'[b] = id[b]

LEMMA KeepFs == ASSUME FsInv(fs), Advance, UNCHANGED fs PROVE FsInv(fs)'
  BY DEF FsInv, OneName, Uncreated, PartsOf, Holds, Advance

LEMMA KeepDisk == ASSUME FsInv(disk), Advance, UNCHANGED disk PROVE FsInv(disk)'
  BY DEF FsInv, OneName, Uncreated, PartsOf, Holds, Advance

\* What a commit of the journal leaves on disk.
LEMMA CommitDisk ==
    ASSUME TypeOK', FsInv(fs)', disk' = Journalled(fs')
    PROVE  /\ FsInv(disk)'
           /\ DiskBehind'
           /\ \A b \in Inserts, i \in PartIds : Holds(fs', i, b) => Holds(disk', i, b)
<1>1. fs' \in FileSystem
  BY DEF TypeOK
<1>2. /\ disk'.tmp = fs'.tmp
      /\ disk'.part = fs'.part
      /\ \A i \in PartIds, b \in Inserts : Holds(fs', i, b) =>
            Holds(disk', i, b) /\ disk'.data[fs'.part[i]] = fs'.data[fs'.part[i]]
  BY <1>1, JournalledFacts
<1>3. OneName(disk)' /\ Uncreated(disk)'
  BY <1>2 DEF FsInv, OneName, Uncreated
<1>4. PartsOf(disk)' /\ DiskBehind'
  BY <1>2 DEF FsInv, PartsOf, DiskBehind
<1> QED
  BY <1>2, <1>3, <1>4 DEF FsInv

\* What is durable is also visible.
LEMMA DurableIsVisible ==
    ASSUME TypeOK, DiskBehind, NEW b \in Inserts, NEW i \in PartIds, Holds(disk, i, b)
    PROVE  Holds(fs, i, b)
  BY DEF Holds, DiskBehind

\* A running insert works in a directory no reader and no other insert uses.
LEMMA OwnDirectory ==
    ASSUME IInv, NEW b \in Inserts, pc[b] = "write"
    PROVE  /\ fs.tmp[id[b]] \in Inserts
           /\ id[b] \in PartIds
           /\ \A i \in PartIds : fs.part[i] # fs.tmp[id[b]]
           /\ \A a \in Inserts : pc[a] = "write" /\ a # b =>
                 fs.tmp[id[a]] # fs.tmp[id[b]]
<1>1. id[b] \in PartIds /\ fs.tmp[id[b]] \in Inserts
  BY DEF IInv, Progress, Writing, TypeOK, FileSystem, DirOrNone
<1>2. \A i \in PartIds : fs.part[i] # fs.tmp[id[b]]
  BY <1>1, TableWriterAssumption DEF IInv, FsInv, OneName
<1>3. \A a \in Inserts : pc[a] = "write" /\ a # b => id[a] # id[b] /\ id[a] \in PartIds
  BY DEF IInv, IdsPrivate, Running, TypeOK
<1>4. \A a \in Inserts : pc[a] = "write" /\ a # b => fs.tmp[id[a]] # fs.tmp[id[b]]
  BY <1>1, <1>3, TableWriterAssumption DEF IInv, FsInv, OneName
<1> QED
  BY <1>1, <1>2, <1>4

\* Changing files in that directory disturbs neither the parts nor the
\* directories of the other inserts.
LEMMA ChangeOwnFiles ==
    ASSUME IInv, NEW b \in Inserts, pc[b] = "write", UNCHANGED <<pc, id>>,
           fs'.tmp = fs.tmp, fs'.part = fs.part,
           \A d \in Inserts : d # fs.tmp[id[b]] => fs'.data[d] = fs.data[d]
    PROVE  /\ FsInv(fs)'
           /\ \A i \in PartIds : fs.part[i] # NoDir =>
                 fs'.data[fs.part[i]] = fs.data[fs.part[i]]
<1>1. \A i \in PartIds : fs.part[i] # NoDir =>
          fs.part[i] \in Inserts /\ fs.part[i] # fs.tmp[id[b]]
  BY OwnDirectory DEF IInv, TypeOK, FileSystem, DirOrNone
<1>2. \A i \in PartIds : fs.part[i] # NoDir =>
          fs'.data[fs.part[i]] = fs.data[fs.part[i]]
  BY <1>1
<1>3. OneName(fs)' /\ Uncreated(fs)'
  BY DEF IInv, FsInv, OneName, Uncreated
<1>4. PartsOf(fs)'
  BY <1>2 DEF IInv, FsInv, PartsOf, Holds
<1> QED
  BY <1>2, <1>3, <1>4 DEF FsInv

-----------------------------------------------------------------------------
(***************************************************************************)
(* The invariant is inductive: one lemma per action                        *)
(***************************************************************************)
LEMMA InitIInv == Init => IInv
<1> SUFFICES ASSUME Init PROVE IInv
  OBVIOUS
<1>1. TypeOK
  BY InitTypeOK
<1>2. FsInv(fs) /\ FsInv(disk) /\ DiskBehind
  BY TableWriterAssumption DEF Init, FsInv, OneName, Uncreated, PartsOf, DiskBehind
<1>3. CounterAhead /\ IdsPrivate /\ AckedDurable
  BY DEF Init, CounterAhead, IdsPrivate, AckedDurable, Running
<1>4. Progress
  BY DEF Init, Progress, Before, TargetIsFree, OpenFiles, Writing, Renamed
<1> QED
  BY <1>1, <1>2, <1>3, <1>4 DEF IInv

LEMMA OpenIInv ==
    ASSUME SingleHandle, IInv, TypeOK', NEW h \in Handles, Open(h)
    PROVE  IInv'
<1>1. UNCHANGED <<pc, handle, id, file, fd, fs, disk>>
  BY DEF Open
<1>2. \A b \in Inserts : ~ Running(b)
  BY DEF SingleHandle, Open, IInv, TypeOK
<1>3. PICK n \in 0..(MaxPartId + 1) : ScanNextPartId(n) /\ next' = [next EXCEPT ![h] = n]
  BY DEF Open
<1>4. CounterAhead'
  <2>1. \A b \in Inserts : ~ Running(b)'
    BY <1>1, <1>2 DEF Running
  <2>2. next'[h] = n /\ \A g \in Handles : g = h
    BY <1>3 DEF SingleHandle, IInv, TypeOK
  <2> QED
    BY <1>1, <1>3, <2>1, <2>2 DEF CounterAhead, ScanNextPartId
<1>5. FsInv(fs)' /\ FsInv(disk)'
  BY <1>1, KeepFs, KeepDisk DEF IInv, Advance
<1> QED
  BY <1>1, <1>4, <1>5 DEF IInv, DiskBehind, IdsPrivate, AckedDurable, Running, Holds,
        Progress, Before, TargetIsFree, OpenFiles, Writing, Renamed

\* The steps that only end a call, or only leave it with nothing to clean up.
LEMMA EndIInv ==
    ASSUME IInv, TypeOK', NEW b \in Inserts,
           \/ Reject(b) \/ MakeTmpDirFails(b) \/ RenameFails(b) \/ SyncTableDirFails(b)
    PROVE  IInv'
<1>1. /\ UNCHANGED <<next, handle, id, file, fd, fs, disk>>
      /\ \/ pc[b] = "idle" /\ pc' = [pc EXCEPT ![b] = "err"]
         \/ pc[b] = "mkdir" /\ pc' = [pc EXCEPT ![b] = "err"]
         \/ AllWritten(b) /\ pc' = [pc EXCEPT ![b] = "err"]
         \/ pc[b] = "sync" /\ pc' = [pc EXCEPT ![b] = "unsynced"]
  BY DEF Reject, MakeTmpDirFails, RenameFails, SyncTableDirFails
<1>2. /\ pc' \in [Inserts -> Phases]
      /\ \A a \in Inserts : a # b => pc'[a] = pc[a]
      /\ pc'[b] \in {"err", "unsynced"}
      /\ pc[b] \notin {"ok", "unsynced", "crashed", "err"}
      /\ pc[b] = "sync" => pc'[b] = "unsynced"
  BY <1>1 DEF IInv, TypeOK, AllWritten
<1>3. \A f \in Files : fd[b][f] = NoDir
  BY <1>1 DEF IInv, Progress, Before, OpenFiles, AllWritten
<1>4. FsInv(fs)' /\ FsInv(disk)'
  BY <1>1, <1>2, KeepFs, KeepDisk DEF IInv, Advance, Past
<1>5. Progress'
  <2> SUFFICES ASSUME NEW a \in Inserts
               PROVE  (/\ Before(a) /\ TargetIsFree(a) /\ OpenFiles(a)
                       /\ Writing(a) /\ Renamed(a))'
    BY DEF Progress
  <2>1. CASE a = b
    BY <1>1, <1>2, <1>3, <2>1
       DEF Before, TargetIsFree, OpenFiles, Writing, Renamed
  <2>2. CASE a # b
    BY <1>1, <1>2, <2>2
       DEF IInv, Progress, Before, TargetIsFree, OpenFiles, Writing, Renamed, Holds
  <2> QED
    BY <2>1, <2>2
<1>6. DiskBehind' /\ CounterAhead' /\ IdsPrivate'
  BY <1>1, <1>2 DEF IInv, DiskBehind, CounterAhead, IdsPrivate, Running
<1>7. AckedDurable'
  BY <1>1, <1>2 DEF IInv, AckedDurable, Holds
<1> QED
  BY <1>4, <1>5, <1>6, <1>7 DEF IInv

LEMMA ReserveIInv ==
    ASSUME SingleHandle, IInv, TypeOK', NEW b \in Inserts, NEW h \in Handles, Reserve(b, h)
    PROVE  IInv'
<1>1. /\ UNCHANGED <<file, fd, fs, disk>>
      /\ pc[b] = "idle" /\ pc'[b] = "mkdir"
      /\ id'[b] = next[h] /\ handle'[b] = h
      /\ next[h] # Closed /\ next'[h] = next[h] + 1 /\ next[h] \in 0..MaxPartId
      /\ \A a \in Inserts : a # b =>
            pc'[a] = pc[a] /\ id'[a] = id[a] /\ handle'[a] = handle[a]
      /\ \A g \in Handles : g = h
  BY TableWriterAssumption DEF Reserve, IInv, TypeOK, SingleHandle, Closed
<1>2. FsInv(fs)' /\ FsInv(disk)'
  BY <1>1, KeepFs, KeepDisk DEF IInv, Advance, Past
<1>3. \A a \in Inserts : Running(a) => id[a] < next[h] /\ id[a] \in 0..MaxPartId
  BY <1>1 DEF IInv, CounterAhead, TypeOK, PartIds
<1>4. CounterAhead' /\ IdsPrivate'
  <2>1. \A a \in Inserts : Running(a)' => a = b \/ Running(a)
    BY <1>1 DEF Running
  <2>2. \A a \in Inserts : handle'[a] = h
    BY <1>1 DEF TypeOK
  <2>3. \A i \in PartIds : fs'.part[i] # NoDir => i < next'[h]
    BY <1>1, TableWriterAssumption DEF IInv, CounterAhead, PartIds
  <2>4. CounterAhead'
    <3>1. ASSUME NEW a \in Inserts, Running(a)'
          PROVE  id'[a] < next'[handle'[a]]
      BY <1>1, <1>3, <2>1, <2>2, <3>1
    <3>2. ASSUME NEW g \in Handles, NEW i \in PartIds, fs'.part[i] # NoDir
          PROVE  i < next'[g]
      BY <1>1, <2>3, <3>2
    <3> QED
      BY <3>1, <3>2 DEF CounterAhead
  <2>5. IdsPrivate'
    BY <1>1, <1>3, <2>1 DEF IInv, IdsPrivate
  <2> QED
    BY <2>4, <2>5
<1>5. Progress'
  <2> SUFFICES ASSUME NEW a \in Inserts
               PROVE  (/\ Before(a) /\ TargetIsFree(a) /\ OpenFiles(a)
                       /\ Writing(a) /\ Renamed(a))'
    BY DEF Progress
  <2>1. CASE a = b
    <3>1. fs.part[next[h]] = NoDir
      BY <1>1 DEF IInv, CounterAhead, PartIds
    <3> QED
      BY <1>1, <2>1, <3>1
         DEF IInv, Progress, Before, TargetIsFree, OpenFiles, Writing, Renamed
  <2>2. CASE a # b
    BY <1>1, <2>2
       DEF IInv, Progress, Before, TargetIsFree, OpenFiles, Writing, Renamed, Holds
  <2> QED
    BY <2>1, <2>2
<1>6. DiskBehind' /\ AckedDurable'
  BY <1>1 DEF IInv, DiskBehind, AckedDurable, Holds
<1> QED
  BY <1>2, <1>4, <1>5, <1>6 DEF IInv

LEMMA MakeTmpDirIInv ==
    ASSUME IInv, TypeOK', NEW b \in Inserts, MakeTmpDir(b)
    PROVE  IInv'
<1>1. /\ UNCHANGED <<next, handle, id, file, fd, disk>>
      /\ pc[b] = "mkdir" /\ pc'[b] = "write"
      /\ \A a \in Inserts : a # b => pc'[a] = pc[a]
      /\ id[b] \in PartIds
  BY DEF MakeTmpDir, IInv, TypeOK
<1>2. /\ fs'.part = fs.part /\ fs'.data = fs.data
      /\ \A i \in PartIds : i # id[b] => fs'.tmp[i] = fs.tmp[i]
      /\ fs'.tmp[id[b]] # NoDir
      /\ fs.tmp[id[b]] # NoDir => fs'.tmp[id[b]] = fs.tmp[id[b]]
      /\ fs.tmp[id[b]] = NoDir => fs'.tmp[id[b]] = b
  BY <1>1, TableWriterAssumption DEF MakeTmpDir, IInv, TypeOK, FileSystem
<1>3. FsInv(fs)'
  <2>1. \A i \in PartIds : fs.tmp[i] # b /\ fs.part[i] # b
    BY <1>1 DEF IInv, FsInv, Uncreated
  <2>2. OneName(fs)'
    BY <1>2, <2>1 DEF IInv, FsInv, OneName
  <2>3. Uncreated(fs)'
    BY <1>1, <1>2 DEF IInv, FsInv, Uncreated
  <2>4. PartsOf(fs)'
    BY <1>1, <1>2 DEF IInv, FsInv, PartsOf, Holds, Past
  <2> QED
    BY <2>2, <2>3, <2>4 DEF FsInv
<1>4. FsInv(disk)'
  BY <1>1, KeepDisk DEF IInv, Advance, Past
<1>5. Progress'
  <2> SUFFICES ASSUME NEW a \in Inserts
               PROVE  (/\ Before(a) /\ TargetIsFree(a) /\ OpenFiles(a)
                       /\ Writing(a) /\ Renamed(a))'
    BY DEF Progress
  <2>1. CASE a = b
    BY <1>1, <1>2, <2>1
       DEF IInv, Progress, Before, TargetIsFree, OpenFiles, Writing, Renamed
  <2>2. CASE a # b
    <3>1. pc[a] = "write" => fs'.tmp[id[a]] = fs.tmp[id[a]]
      BY <1>1, <1>2, <2>2 DEF IInv, IdsPrivate, Running, TypeOK
    <3>2. (Before(a) /\ TargetIsFree(a) /\ Renamed(a))'
      BY <1>1, <1>2, <2>2 DEF IInv, Progress, Before, TargetIsFree, Renamed, Holds
    <3>3. (OpenFiles(a) /\ Writing(a))'
      BY <1>1, <1>2, <2>2, <3>1 DEF IInv, Progress, OpenFiles, Writing
    <3> QED
      BY <3>2, <3>3
  <2> QED
    BY <2>1, <2>2
<1>6. DiskBehind' /\ CounterAhead' /\ IdsPrivate' /\ AckedDurable'
  BY <1>1, <1>2
     DEF IInv, DiskBehind, CounterAhead, IdsPrivate, AckedDurable, Running, Holds
<1> QED
  BY <1>3, <1>4, <1>5, <1>6 DEF IInv

\* A step of insert b on its file f that leaves the contents c in the file.
LEMMA FileProgress ==
    ASSUME IInv, TypeOK', NEW b \in Inserts, NEW f \in Files, NEW c \in Content,
           pc[b] = "write",
           UNCHANGED <<next, pc, handle, id>>,
           fs' = [fs EXCEPT !.data[fs.tmp[id[b]]][f] = c],
           \A a \in Inserts, g \in Files : (a # b \/ g # f) =>
               file'[a][g] = file[a][g] /\ fd'[a][g] = fd[a][g],
           \/ file'[b][f] = "open" /\ fd'[b][f] = fs.tmp[id[b]] /\ c = Torn
           \/ /\ file'[b][f] = "written" /\ fd'[b][f] = fs.tmp[id[b]]
              /\ c = [state |-> "dirty", from |-> {b}]
           \/ file'[b][f] = "done" /\ fd'[b][f] = NoDir /\ c = Whole(b)
    PROVE  /\ FsInv(fs)' /\ Progress' /\ CounterAhead' /\ IdsPrivate'
           /\ \A i \in PartIds : fs.part[i] # NoDir =>
                 fs'.part[i] = fs.part[i] /\ fs'.data[fs.part[i]] = fs.data[fs.part[i]]
<1> DEFINE d == fs.tmp[id[b]]
<1>1. d \in Inserts /\ d # NoDir
  BY OwnDirectory, TableWriterAssumption
<1>2. /\ fs'.tmp = fs.tmp /\ fs'.part = fs.part
      /\ \A e \in Inserts : e # d => fs'.data[e] = fs.data[e]
      /\ fs'.data[d][f] = c
      /\ \A g \in Files : g # f => fs'.data[d][g] = fs.data[d][g]
  BY <1>1 DEF IInv, TypeOK, FileSystem
<1>3. /\ FsInv(fs)'
      /\ \A i \in PartIds : fs.part[i] # NoDir =>
            fs'.data[fs.part[i]] = fs.data[fs.part[i]]
  BY <1>2, ChangeOwnFiles
<1>4. CounterAhead' /\ IdsPrivate'
  BY <1>2 DEF IInv, CounterAhead, IdsPrivate, Running
<1>5. Progress'
  <2> SUFFICES ASSUME NEW a \in Inserts
               PROVE  (/\ Before(a) /\ TargetIsFree(a) /\ OpenFiles(a)
                       /\ Writing(a) /\ Renamed(a))'
    BY DEF Progress
  <2>1. Before(a)' /\ TargetIsFree(a)' /\ OpenFiles(a)'
    BY <1>1, <1>2 DEF IInv, Progress, Before, TargetIsFree, OpenFiles
  <2>2. Renamed(a)'
    <3> SUFFICES ASSUME pc[a] = "sync"
                 PROVE  Holds(fs, id[a], a)'
      BY DEF Renamed
    <3>1. Holds(fs, id[a], a) /\ id[a] \in PartIds
      BY DEF IInv, Progress, Renamed, TypeOK
    <3>2. fs.part[id[a]] # NoDir
      BY <3>1 DEF Holds
    <3>3. /\ id'[a] = id[a] /\ fs'.part[id[a]] = fs.part[id[a]]
          /\ fs'.data[fs.part[id[a]]] = fs.data[fs.part[id[a]]]
      BY <1>2, <1>3, <3>1, <3>2
    <3> QED
      BY <3>1, <3>3 DEF Holds
  <2>3. CASE a = b
    <3>1. \A g \in Files : g # f => file'[a][g] = file[a][g] /\ fd'[a][g] = fd[a][g]
      BY <2>3
    <3>2. Writing(a)
      BY DEF IInv, Progress
    <3>3. ASSUME NEW g \in Files, g # f
          PROVE  /\ file'[a][g] = file[a][g] /\ fd'[a][g] = fd[a][g]
                 /\ fs'.data[fs'.tmp[id'[a]]][g] = fs.data[fs.tmp[id[a]]][g]
      BY <1>2, <2>3, <3>1, <3>3
    <3>4. fs'.data[fs'.tmp[id'[a]]][f] = c /\ fs'.tmp[id'[a]] # NoDir
      BY <1>1, <1>2, <2>3
    <3>5. ASSUME NEW g \in Files
          PROVE  LET content == fs'.data[fs'.tmp[id'[a]]][g] IN
                 /\ file'[a][g] = "open" => fd'[a][g] # NoDir /\ content = Torn
                 /\ file'[a][g] = "written" =>
                       fd'[a][g] # NoDir /\ content = [state |-> "dirty", from |-> {a}]
                 /\ file'[a][g] = "done" => content = Whole(a)
      <4>1. CASE g = f
        BY <1>1, <2>3, <3>4, <4>1
      <4>2. CASE g # f
        <5>1. LET content == fs.data[fs.tmp[id[a]]][g] IN
              /\ file[a][g] = "open" => fd[a][g] # NoDir /\ content = Torn
              /\ file[a][g] = "written" =>
                    fd[a][g] # NoDir /\ content = [state |-> "dirty", from |-> {a}]
              /\ file[a][g] = "done" => content = Whole(a)
          BY <2>3, <3>2, Zenon DEF Writing
        <5>2. /\ file'[a][g] = file[a][g] /\ fd'[a][g] = fd[a][g]
              /\ fs'.data[fs'.tmp[id'[a]]][g] = fs.data[fs.tmp[id[a]]][g]
          BY <3>3, <4>2
        <5> QED
          BY <5>1, <5>2, Zenon
      <4> QED
        BY <4>1, <4>2
    <3>6. Writing(a)'
      BY <3>4, <3>5 DEF Writing
    <3> QED
      BY <2>1, <2>2, <3>6
  <2>4. CASE a # b
    <3>1. pc[a] = "write" =>
             /\ fs'.tmp[id'[a]] = fs.tmp[id[a]]
             /\ fs'.data[fs.tmp[id[a]]] = fs.data[fs.tmp[id[a]]]
      BY <1>2, <2>4, OwnDirectory
    <3>2. Writing(a) /\ UNCHANGED pc
      BY DEF IInv, Progress
    <3>3. \A g \in Files : file'[a][g] = file[a][g] /\ fd'[a][g] = fd[a][g]
      BY <2>4
    <3>4. Writing(a)'
      <4>1. SUFFICES ASSUME pc[a] = "write" PROVE Writing(a)'
        BY <3>2 DEF Writing
      <4>2. fs'.tmp[id'[a]] # NoDir
        BY <3>1, <3>2, <4>1 DEF Writing
      <4>3. ASSUME NEW g \in Files
            PROVE  fs'.data[fs'.tmp[id'[a]]][g] = fs.data[fs.tmp[id[a]]][g]
        BY <3>1, <4>1
      <4> QED
        BY <3>2, <3>3, <4>1, <4>2, <4>3 DEF Writing
    <3> QED
      BY <2>1, <2>2, <3>4
  <2> QED
    BY <2>3, <2>4
<1> QED
  BY <1>2, <1>3, <1>4, <1>5

\* A step that writes nothing to the disk and leaves the parts as they are.
LEMMA DiskLeftAlone ==
    ASSUME DiskBehind, AckedDurable, UNCHANGED <<pc, id, disk>>,
           \A i \in PartIds : fs.part[i] # NoDir =>
               fs'.part[i] = fs.part[i] /\ fs'.data[fs.part[i]] = fs.data[fs.part[i]]
    PROVE  DiskBehind' /\ AckedDurable'
<1>1. ASSUME NEW i \in PartIds, disk'.part[i] # NoDir
      PROVE  fs'.part[i] = disk'.part[i] /\ fs'.data[disk'.part[i]] = disk'.data[disk'.part[i]]
  <2>1. /\ disk.part[i] # NoDir /\ fs.part[i] = disk.part[i]
        /\ fs.data[disk.part[i]] = disk.data[disk.part[i]]
    BY <1>1 DEF DiskBehind
  <2> QED
    BY <2>1
<1>2. ASSUME NEW b \in Inserts, pc'[b] = "ok"
      PROVE  Holds(disk', id'[b], b)
  BY <1>2 DEF AckedDurable
<1> QED
  BY <1>1, <1>2 DEF DiskBehind, AckedDurable

LEMMA CreateFileIInv ==
    ASSUME IInv, TypeOK', NEW b \in Inserts, NEW f \in Files, CreateFile(b, f)
    PROVE  IInv'
<1>1. /\ UNCHANGED <<next, pc, handle, id, disk>> /\ pc[b] = "write"
      /\ fs' = [fs EXCEPT !.data[fs.tmp[id[b]]][f] = Torn]
      /\ file'[b][f] = "open" /\ fd'[b][f] = fs.tmp[id[b]]
      /\ \A a \in Inserts, g \in Files : (a # b \/ g # f) =>
            file'[a][g] = file[a][g] /\ fd'[a][g] = fd[a][g]
  BY DEF CreateFile, MayStart, IInv, TypeOK
<1>2. Torn \in Content
  BY DEF Torn, Content
<1>3. /\ FsInv(fs)' /\ Progress' /\ CounterAhead' /\ IdsPrivate'
      /\ \A i \in PartIds : fs.part[i] # NoDir =>
            fs'.part[i] = fs.part[i] /\ fs'.data[fs.part[i]] = fs.data[fs.part[i]]
  BY <1>1, <1>2, FileProgress
<1>4. FsInv(disk)'
  BY <1>1, KeepDisk DEF IInv, Advance
<1>5. DiskBehind' /\ AckedDurable'
  BY <1>1, <1>3, DiskLeftAlone DEF IInv
<1> QED
  BY <1>3, <1>4, <1>5 DEF IInv

LEMMA WriteFileIInv ==
    ASSUME IInv, TypeOK', NEW b \in Inserts, NEW f \in Files, WriteFile(b, f)
    PROVE  IInv'
<1>1. /\ UNCHANGED <<next, pc, handle, id, fd, disk>>
      /\ pc[b] = "write" /\ file[b][f] = "open"
      /\ file'[b][f] = "written"
      /\ \A a \in Inserts, g \in Files : (a # b \/ g # f) => file'[a][g] = file[a][g]
  BY DEF WriteFile, IInv, TypeOK
<1>2. fd[b][f] = fs.tmp[id[b]] /\ fd[b][f] # NoDir /\ fs.data[fs.tmp[id[b]]][f] = Torn
  <2>1. Writing(b) /\ OpenFiles(b)
    BY DEF IInv, Progress
  <2>2. fd[b][f] # NoDir /\ fs.data[fs.tmp[id[b]]][f] = Torn
    BY <1>1, <2>1 DEF Writing
  <2> QED
    BY <2>1, <2>2 DEF OpenFiles
<1>3. fs' = [fs EXCEPT !.data[fs.tmp[id[b]]][f] = [state |-> "dirty", from |-> {b}]]
  BY <1>2 DEF WriteFile, Torn
<1>4. [state |-> "dirty", from |-> {b}] \in Content
  BY DEF Content
<1>5. /\ FsInv(fs)' /\ Progress' /\ CounterAhead' /\ IdsPrivate'
      /\ \A i \in PartIds : fs.part[i] # NoDir =>
            fs'.part[i] = fs.part[i] /\ fs'.data[fs.part[i]] = fs.data[fs.part[i]]
  BY <1>1, <1>2, <1>3, <1>4, FileProgress
<1>6. FsInv(disk)'
  BY <1>1, KeepDisk DEF IInv, Advance
<1>7. DiskBehind' /\ AckedDurable'
  BY <1>1, <1>5, DiskLeftAlone DEF IInv
<1> QED
  BY <1>5, <1>6, <1>7 DEF IInv

LEMMA SyncFileIInv ==
    ASSUME IInv, TypeOK', NEW b \in Inserts, NEW f \in Files, SyncFile(b, f)
    PROVE  IInv'
<1>0. /\ disk' = Journalled(fs')
      /\ fd' = [fd EXCEPT ![b][f] = NoDir]
      /\ file' = [file EXCEPT ![b][f] = "done"]
      /\ UNCHANGED <<next, pc, handle, id>>
      /\ pc[b] = "write" /\ file[b][f] = "written"
  BY DEF SyncFile
<1>1. /\ file'[b][f] = "done" /\ fd'[b][f] = NoDir
      /\ \A a \in Inserts, g \in Files : (a # b \/ g # f) =>
            file'[a][g] = file[a][g] /\ fd'[a][g] = fd[a][g]
  BY <1>0 DEF IInv, TypeOK
<1>2. /\ fd[b][f] = fs.tmp[id[b]] /\ fd[b][f] # NoDir
      /\ fs.data[fs.tmp[id[b]]][f] = [state |-> "dirty", from |-> {b}]
  BY <1>0 DEF IInv, Progress, Writing, OpenFiles
<1>3. fs' = [fs EXCEPT !.data[fs.tmp[id[b]]][f] = Whole(b)]
  BY <1>2 DEF SyncFile, Whole
<1>4. Whole(b) \in Content
  BY DEF Whole, Content
<1>5. /\ FsInv(fs)' /\ Progress' /\ CounterAhead' /\ IdsPrivate'
      /\ \A i \in PartIds : fs.part[i] # NoDir =>
            fs'.part[i] = fs.part[i] /\ fs'.data[fs.part[i]] = fs.data[fs.part[i]]
  BY <1>0, <1>1, <1>3, <1>4, FileProgress
<1>6. /\ FsInv(disk)' /\ DiskBehind'
      /\ \A a \in Inserts, i \in PartIds : Holds(fs', i, a) => Holds(disk', i, a)
  BY <1>0, <1>5, CommitDisk
<1>7. AckedDurable'
  <2> SUFFICES ASSUME NEW a \in Inserts, pc[a] = "ok"
               PROVE  Holds(disk', id[a], a)
    BY <1>0 DEF AckedDurable
  <2>1. Holds(fs, id[a], a) /\ id[a] \in PartIds
    BY DurableIsVisible DEF IInv, AckedDurable, TypeOK
  <2>2. Holds(fs', id[a], a)
    BY <1>5, <2>1 DEF Holds
  <2> QED
    BY <1>6, <2>1, <2>2
<1> QED
  BY <1>5, <1>6, <1>7 DEF IInv

LEMMA FileFailsIInv ==
    ASSUME IInv, TypeOK', NEW b \in Inserts, NEW f \in Files, FileFails(b, f)
    PROVE  IInv'
<1>1. /\ UNCHANGED <<next, pc, handle, id, fs, disk>> /\ pc[b] = "write"
      /\ file'[b][f] = "failed" /\ fd'[b][f] = NoDir
      /\ \A a \in Inserts, g \in Files : (a # b \/ g # f) =>
            file'[a][g] = file[a][g] /\ fd'[a][g] = fd[a][g]
  BY DEF FileFails, MayStart, IInv, TypeOK
<1>2. FsInv(fs)' /\ FsInv(disk)'
  BY <1>1, KeepFs, KeepDisk DEF IInv, Advance
<1>3. DiskBehind' /\ CounterAhead' /\ IdsPrivate' /\ AckedDurable'
  BY <1>1 DEF IInv, DiskBehind, CounterAhead, IdsPrivate, AckedDurable, Running, Holds
<1>4. Progress'
  <2> SUFFICES ASSUME NEW a \in Inserts
               PROVE  (/\ Before(a) /\ TargetIsFree(a) /\ OpenFiles(a)
                       /\ Writing(a) /\ Renamed(a))'
    BY DEF Progress
  <2>1. (Before(a) /\ TargetIsFree(a) /\ OpenFiles(a) /\ Renamed(a))'
    BY <1>1 DEF IInv, Progress, Before, TargetIsFree, OpenFiles, Renamed, Holds
  <2>2. Writing(a)'
    BY <1>1 DEF IInv, Progress, Writing
  <2> QED
    BY <2>1, <2>2
<1> QED
  BY <1>2, <1>3, <1>4 DEF IInv

LEMMA RenameIInv ==
    ASSUME SingleHandle, IInv, TypeOK', NEW b \in Inserts, Rename(b)
    PROVE  IInv'
<1> DEFINE d == fs.tmp[id[b]]
<1>1. /\ UNCHANGED <<next, handle, id, file, fd, disk>>
      /\ pc[b] = "write" /\ pc'[b] = "sync"
      /\ \A a \in Inserts : a # b => pc'[a] = pc[a]
      /\ \A f \in Files : file[b][f] = "done"
      /\ id[b] \in PartIds
  BY DEF Rename, AllWritten, IInv, TypeOK
<1>2. d \in Inserts /\ d # NoDir
  BY <1>1, OwnDirectory, TableWriterAssumption
<1>3. /\ fs'.data = fs.data
      /\ fs'.part[id[b]] = d /\ fs'.tmp[id[b]] = NoDir
      /\ \A i \in PartIds : i # id[b] => fs'.tmp[i] = fs.tmp[i] /\ fs'.part[i] = fs.part[i]
  <2>1. fs' = [fs EXCEPT !.part[id[b]] = fs.tmp[id[b]], !.tmp[id[b]] = NoDir]
    BY DEF Rename
  <2>2. fs \in FileSystem
    BY DEF IInv, TypeOK
  <2> QED
    BY <1>1, <2>1, <2>2 DEF FileSystem
<1>4. fs.part[id[b]] = NoDir
  BY <1>1 DEF IInv, Progress, TargetIsFree
<1>5. Holds(fs', id[b], b)
  <2>1. Writing(b)
    BY DEF IInv, Progress
  <2>2. \A f \in Files : fs.data[d][f] = Whole(b)
    BY <1>1, <2>1 DEF Writing
  <2> HIDE DEF d
  <2> QED
    BY <1>2, <1>3, <2>2 DEF Holds
<1>6. FsInv(fs)'
  <2>1. OneName(fs)'
    BY <1>1, <1>2, <1>3 DEF IInv, FsInv, OneName
  <2>2. Uncreated(fs)'
    BY <1>1, <1>2, <1>3, TableWriterAssumption DEF IInv, FsInv, Uncreated
  <2>3. PartsOf(fs)'
    <3> SUFFICES ASSUME NEW i \in PartIds, fs'.part[i] # NoDir
                 PROVE  \E a \in Inserts : id'[a] = i /\ pc'[a] \in Past /\ Holds(fs', i, a)
      BY DEF PartsOf
    <3>1. CASE i = id[b]
      BY <1>1, <1>5, <3>1 DEF Past
    <3>2. CASE i # id[b]
      <4>1. PICK a \in Inserts : id[a] = i /\ pc[a] \in Past /\ Holds(fs, i, a)
        BY <1>3, <3>2 DEF IInv, FsInv, PartsOf
      <4> QED
        BY <1>1, <1>3, <3>2, <4>1 DEF Past, Holds
    <3> QED
      BY <3>1, <3>2
  <2> QED
    BY <2>1, <2>2, <2>3 DEF FsInv
<1>7. FsInv(disk)'
  BY <1>1, KeepDisk DEF IInv, Advance, Past
<1>8. DiskBehind' /\ AckedDurable'
  BY <1>1, <1>3, <1>4 DEF IInv, DiskBehind, AckedDurable, Holds
<1>9. CounterAhead' /\ IdsPrivate'
  <2>1. \A a \in Inserts : Running(a)' <=> Running(a)
    BY <1>1 DEF Running
  <2>2. ASSUME NEW h \in Handles, next[h] # Closed, NEW i \in PartIds, fs'.part[i] # NoDir
        PROVE  i < next[h]
    <3>1. handle[b] = h
      BY DEF SingleHandle, IInv, TypeOK
    <3> QED
      BY <1>1, <1>3, <2>2, <3>1 DEF IInv, CounterAhead, Running
  <2> QED
    BY <1>1, <2>1, <2>2 DEF IInv, CounterAhead, IdsPrivate
<1>10. Progress'
  <2> SUFFICES ASSUME NEW a \in Inserts
               PROVE  (/\ Before(a) /\ TargetIsFree(a) /\ OpenFiles(a)
                       /\ Writing(a) /\ Renamed(a))'
    BY DEF Progress
  <2>1. CASE a = b
    BY <1>1, <1>5, <2>1
       DEF IInv, Progress, Before, TargetIsFree, OpenFiles, Writing, Renamed
  <2>2. CASE a # b
    <3>1. Running(a) => id[a] # id[b] /\ id[a] \in PartIds
      BY <1>1, <2>2 DEF IInv, IdsPrivate, Running, TypeOK
    <3>2. (Before(a) /\ TargetIsFree(a) /\ OpenFiles(a))'
      BY <1>1, <1>3, <2>2, <3>1
         DEF IInv, Progress, Before, TargetIsFree, OpenFiles, Running
    <3>3. (Writing(a) /\ Renamed(a))'
      BY <1>1, <1>3, <2>2, <3>1 DEF IInv, Progress, Writing, Renamed, Running, Holds
    <3> QED
      BY <3>2, <3>3
  <2> QED
    BY <2>1, <2>2
<1> QED
  BY <1>6, <1>7, <1>8, <1>9, <1>10 DEF IInv

LEMMA AbortIInv ==
    ASSUME IInv, TypeOK', NEW b \in Inserts, Abort(b)
    PROVE  IInv'
<1> DEFINE d == fs.tmp[id[b]]
<1>1. /\ UNCHANGED <<next, handle, id, file, disk>>
      /\ pc[b] = "write" /\ pc'[b] = "err"
      /\ \A a \in Inserts : a # b => pc'[a] = pc[a]
      /\ \A f \in Files : file[b][f] \notin {"open", "written"}
  BY DEF Abort, IInv, TypeOK
<1>2. /\ d \in Inserts /\ d # NoDir /\ id[b] \in PartIds
      /\ \A i \in PartIds : fs.part[i] # d
      /\ \A a \in Inserts : pc[a] = "write" /\ a # b => fs.tmp[id[a]] # d
  BY <1>1, OwnDirectory, TableWriterAssumption
<1>3. PICK unlinked \in SUBSET Files, removed \in BOOLEAN :
         /\ fs' = [fs EXCEPT
              !.tmp[id[b]] = IF removed THEN NoDir ELSE d,
              !.data[d] = [f \in Files |-> IF f \in unlinked THEN Missing ELSE @[f]]]
         /\ fd' = [i \in Inserts |-> [f \in Files |->
              IF fd[i][f] = d /\ f \in unlinked THEN NoDir ELSE fd[i][f]]]
  BY <1>2 DEF Abort
<1>4. fd' = fd
  <2>1. \A a \in Inserts, f \in Files : fd[a][f] # d
    <3> SUFFICES ASSUME NEW a \in Inserts, NEW f \in Files, fd[a][f] = d
                 PROVE  FALSE
      OBVIOUS
    <3>1. /\ pc[a] = "write" /\ fd[a][f] = fs.tmp[id[a]]
          /\ file[a][f] \in {"open", "written"}
      BY <1>2 DEF IInv, Progress, OpenFiles
    <3>2. a = b
      BY <1>2, <3>1
    <3> QED
      BY <1>1, <3>1, <3>2
  <2>2. fd \in [Inserts -> [Files -> DirOrNone]] /\ fd' \in [Inserts -> [Files -> DirOrNone]]
    BY DEF IInv, TypeOK
  <2>3. \A a \in Inserts : fd[a] \in [Files -> DirOrNone] /\ fd'[a] \in [Files -> DirOrNone]
    BY <2>2
  <2>4. \A a \in Inserts, f \in Files : fd'[a][f] = fd[a][f]
    BY <1>3, <2>1
  <2>5. \A a \in Inserts : fd'[a] = fd[a]
    BY <2>3, <2>4
  <2> QED
    BY <2>2, <2>5
<1>5. /\ fs'.part = fs.part
      /\ \A i \in PartIds : i # id[b] => fs'.tmp[i] = fs.tmp[i]
      /\ fs'.tmp[id[b]] = NoDir \/ fs'.tmp[id[b]] = d
      /\ \A e \in Inserts : e # d => fs'.data[e] = fs.data[e]
  <2> HIDE DEF d
  <2>1. fs \in FileSystem
    BY DEF IInv, TypeOK
  <2> QED
    BY <1>2, <1>3, <2>1 DEF FileSystem
<1>6. \A i \in PartIds : fs.part[i] # NoDir =>
          fs.part[i] \in Inserts /\ fs'.data[fs.part[i]] = fs.data[fs.part[i]]
  BY <1>2, <1>5 DEF IInv, TypeOK, FileSystem, DirOrNone
<1>7. FsInv(fs)'
  <2>1. OneName(fs)'
    BY <1>2, <1>5 DEF IInv, FsInv, OneName
  <2>2. Uncreated(fs)'
    <3>1. \A a \in Inserts : pc'[a] \in {"idle", "mkdir"} => pc[a] \in {"idle", "mkdir"}
      BY <1>1
    <3>2. \A i \in PartIds : fs'.tmp[i] = NoDir \/ fs'.tmp[i] = fs.tmp[i]
      BY <1>5
    <3> QED
      BY <1>5, <3>1, <3>2, TableWriterAssumption DEF IInv, FsInv, Uncreated
  <2>3. PartsOf(fs)'
    BY <1>1, <1>5, <1>6 DEF IInv, FsInv, PartsOf, Past, Holds
  <2> QED
    BY <2>1, <2>2, <2>3 DEF FsInv
<1>8. FsInv(disk)'
  BY <1>1, KeepDisk DEF IInv, Advance, Past
<1>9. Progress'
  <2> SUFFICES ASSUME NEW a \in Inserts
               PROVE  (/\ Before(a) /\ TargetIsFree(a) /\ OpenFiles(a)
                       /\ Writing(a) /\ Renamed(a))'
    BY DEF Progress
  <2>1. CASE a = b
    BY <1>1, <1>4, <2>1
       DEF IInv, Progress, Before, TargetIsFree, OpenFiles, Writing, Renamed
  <2>2. CASE a # b
    <3>1. pc[a] = "write" =>
             /\ fs'.tmp[id[a]] = fs.tmp[id[a]]
             /\ fs'.data[fs.tmp[id[a]]] = fs.data[fs.tmp[id[a]]]
      <4> SUFFICES ASSUME pc[a] = "write"
                   PROVE  /\ fs'.tmp[id[a]] = fs.tmp[id[a]]
                          /\ fs'.data[fs.tmp[id[a]]] = fs.data[fs.tmp[id[a]]]
        OBVIOUS
      <4>1. fs.tmp[id[a]] \in Inserts /\ id[a] \in PartIds /\ fs.tmp[id[a]] # d
        BY <1>2, <2>2, OwnDirectory
      <4>2. id[a] # id[b]
        BY <4>1
      <4> QED
        BY <1>5, <4>1, <4>2
    <3>2. (Before(a) /\ TargetIsFree(a) /\ OpenFiles(a))'
      BY <1>1, <1>4, <1>5, <2>2, <3>1 DEF IInv, Progress, Before, TargetIsFree, OpenFiles
    <3>3. Writing(a)'
      BY <1>1, <1>4, <2>2, <3>1 DEF IInv, Progress, Writing
    <3>4. Renamed(a)'
      <4> SUFFICES ASSUME pc[a] = "sync"
                   PROVE  Holds(fs', id[a], a)
        BY <1>1, <2>2 DEF Renamed
      <4>1. Holds(fs, id[a], a) /\ id[a] \in PartIds
        BY DEF IInv, Progress, Renamed, TypeOK
      <4>2. fs'.part[id[a]] = fs.part[id[a]]
        BY <1>5
      <4>3. fs'.data[fs.part[id[a]]] = fs.data[fs.part[id[a]]]
        BY <1>6, <4>1 DEF Holds
      <4> QED
        BY <4>1, <4>2, <4>3 DEF Holds
    <3> QED
      BY <3>2, <3>3, <3>4
  <2> QED
    BY <2>1, <2>2
<1>10. DiskBehind' /\ AckedDurable'
  BY <1>1, <1>5, <1>6 DEF IInv, DiskBehind, AckedDurable, Holds
<1>11. CounterAhead' /\ IdsPrivate'
  BY <1>1, <1>5 DEF IInv, CounterAhead, IdsPrivate, Running
<1> QED
  BY <1>7, <1>8, <1>9, <1>10, <1>11 DEF IInv

\* Both steps that commit the journal and leave the file system as it is.
LEMMA SyncTableDirIInv ==
    ASSUME IInv, TypeOK',
           disk' = Journalled(fs), UNCHANGED <<next, handle, id, file, fd, fs>>,
           \/ UNCHANGED pc
           \/ \E b \in Inserts : pc[b] = "sync" /\ pc' = [pc EXCEPT ![b] = "ok"]
    PROVE  IInv'
<1>1. /\ \A a \in Inserts : pc'[a] = pc[a] \/ (pc[a] = "sync" /\ pc'[a] = "ok")
      /\ disk' = Journalled(fs')
  BY DEF IInv, TypeOK
<1>2. FsInv(fs)'
  BY <1>1, KeepFs DEF IInv, Advance, Past
<1>3. /\ FsInv(disk)' /\ DiskBehind'
      /\ \A a \in Inserts, i \in PartIds : Holds(fs', i, a) => Holds(disk', i, a)
  BY <1>1, <1>2, CommitDisk
<1>4. AckedDurable'
  <2> SUFFICES ASSUME NEW a \in Inserts, pc'[a] = "ok"
               PROVE  Holds(disk', id[a], a)
    BY DEF AckedDurable
  <2>1. id[a] \in PartIds
    BY DEF IInv, TypeOK
  <2>2. Holds(fs, id[a], a)
    <3>1. CASE pc[a] = "sync"
      BY <3>1 DEF IInv, Progress, Renamed
    <3>2. CASE pc[a] = "ok"
      BY <2>1, <3>2, DurableIsVisible DEF IInv, AckedDurable
    <3> QED
      BY <1>1, <3>1, <3>2
  <2> QED
    BY <1>3, <2>1, <2>2
<1>5. Progress'
  BY <1>1 DEF IInv, Progress, Before, TargetIsFree, OpenFiles, Writing, Renamed, Holds
<1>6. CounterAhead' /\ IdsPrivate'
  BY <1>1 DEF IInv, CounterAhead, IdsPrivate, Running
<1> QED
  BY <1>2, <1>3, <1>4, <1>5, <1>6 DEF IInv

LEMMA CrashIInv ==
    ASSUME IInv, TypeOK', Crash(fs) \/ Crash(disk)
    PROVE  IInv'
<1>1. /\ fs' = fs \/ fs' = disk
      /\ next' = [h \in Handles |-> Closed]
      /\ pc' = [b \in Inserts |-> IF Running(b) THEN "crashed" ELSE pc[b]]
      /\ fd' = [b \in Inserts |-> [f \in Files |-> NoDir]]
      /\ UNCHANGED <<handle, id, file, disk>>
  BY DEF Crash
<1>2. \A b \in Inserts : /\ pc'[b] = pc[b] \/ (pc'[b] = "crashed" /\ Running(b))
                         /\ pc'[b] \notin {"mkdir", "write", "sync"}
  BY <1>1 DEF Running
<1>3. Advance
  BY <1>1, <1>2 DEF Advance, Past
<1>4. FsInv(disk)'
  BY <1>1, <1>3, KeepDisk DEF IInv
<1>5. FsInv(fs)' /\ DiskBehind'
  <2>1. CASE fs' = fs
    BY <1>1, <1>3, <2>1, KeepFs DEF IInv, DiskBehind
  <2>2. CASE fs' = disk
    <3>1. fs' = disk'
      BY <1>1, <2>2
    <3>2. DiskBehind'
      BY <3>1 DEF DiskBehind
    <3>3. FsInv(fs)'
      BY <1>4, <3>1 DEF FsInv, OneName, Uncreated, PartsOf, Holds
    <3> QED
      BY <3>2, <3>3
  <2> QED
    BY <1>1, <2>1, <2>2
<1>6. CounterAhead' /\ IdsPrivate'
  BY <1>1, <1>2 DEF CounterAhead, IdsPrivate, Running
<1>7. Progress'
  <2> SUFFICES ASSUME NEW a \in Inserts
               PROVE  (/\ Before(a) /\ TargetIsFree(a) /\ OpenFiles(a)
                       /\ Writing(a) /\ Renamed(a))'
    BY DEF Progress
  <2> QED
    BY <1>1, <1>2 DEF IInv, Progress, Before, TargetIsFree, OpenFiles, Writing, Renamed, Running
<1>8. AckedDurable'
  BY <1>1, <1>2 DEF IInv, AckedDurable, Holds
<1> QED
  BY <1>4, <1>5, <1>6, <1>7, <1>8 DEF IInv

-----------------------------------------------------------------------------
(***************************************************************************)
(* The theorems                                                            *)
(***************************************************************************)
LEMMA NextIInv == ASSUME SingleHandle, IInv, [Next]_vars PROVE IInv'
<1>0. TypeOK'
  BY NextTypeOK DEF IInv
<1>1. ASSUME NEW h \in Handles, Open(h) PROVE IInv'
  BY <1>0, <1>1, OpenIInv
<1>2. ASSUME NEW b \in Inserts, InsertStep(b) PROVE IInv'
  <2>1. CASE Reject(b) \/ MakeTmpDirFails(b) \/ RenameFails(b) \/ SyncTableDirFails(b)
    BY <1>0, <2>1, EndIInv
  <2>2. CASE \E h \in Handles : Reserve(b, h)
    BY <1>0, <2>2, ReserveIInv
  <2>3. CASE MakeTmpDir(b)
    BY <1>0, <2>3, MakeTmpDirIInv
  <2>4. ASSUME NEW f \in Files, FileStep(b, f) PROVE IInv'
    BY <1>0, <2>4, CreateFileIInv, WriteFileIInv, SyncFileIInv, FileFailsIInv DEF FileStep
  <2>5. CASE Abort(b)
    BY <1>0, <2>5, AbortIInv
  <2>6. CASE Rename(b)
    BY <1>0, <2>6, RenameIInv
  <2>7. CASE SyncTableDir(b)
    BY <1>0, <2>7, SyncTableDirIInv DEF SyncTableDir
  <2> QED
    BY <1>2, <2>1, <2>2, <2>3, <2>4, <2>5, <2>6, <2>7 DEF InsertStep
<1>3. CASE JournalCommit
  BY <1>0, <1>3, SyncTableDirIInv DEF JournalCommit
<1>4. CASE ProcessCrash \/ PowerLoss
  BY <1>0, <1>4, CrashIInv DEF ProcessCrash, PowerLoss
<1>5. CASE UNCHANGED vars
  BY <1>0, <1>5, KeepFs, KeepDisk
     DEF vars, IInv, DiskBehind, CounterAhead, IdsPrivate, AckedDurable, Running, Holds,
         Progress, Before, TargetIsFree, OpenFiles, Writing, Renamed, Advance
<1> QED
  BY <1>1, <1>2, <1>3, <1>4, <1>5 DEF Next

LEMMA Invariance == ASSUME SingleHandle PROVE Spec => []IInv
<1>1. IInv /\ [Next]_vars => IInv'
  BY NextIInv
<1> QED
  BY <1>1, InitIInv, PTL DEF Spec

\* With one TableWriter at a time, a reader never meets a part that is not
\* the whole batch of exactly one insert.
THEOREM EveryPartIsWhole == ASSUME SingleHandle PROVE Spec => []PartsWhole
<1>1. IInv => PartsWhole
  BY DEF IInv, FsInv, PartsOf, PartsWhole, Past
<1> QED
  BY <1>1, Invariance, PTL

\* What insert() reported as Ok survives every crash.
THEOREM AcknowledgedIsDurable == ASSUME SingleHandle PROVE Spec => []AckedDurable
<1>1. IInv => AckedDurable
  BY DEF IInv
<1> QED
  BY <1>1, Invariance, PTL

\* The atomic counter gives every running insert a directory of its own.
THEOREM RunningIdsArePrivate == ASSUME SingleHandle PROVE Spec => []IdsPrivate
<1>1. IInv => IdsPrivate
  BY DEF IInv
<1> QED
  BY <1>1, Invariance, PTL

-----------------------------------------------------------------------------
(***************************************************************************)
(* Parts never change                                                      *)
(***************************************************************************)
\* The action inside PartsImmutable.
PartsKept ==
    \A i \in PartIds :
        (fs.part[i] # NoDir /\ fs'.part[i] # NoDir) =>
            /\ fs'.part[i] = fs.part[i]
            /\ fs'.data[fs.part[i]] = fs.data[fs.part[i]]

LEMMA NextPartsKept == ASSUME IInv, [Next]_vars PROVE PartsKept
<1>1. ASSUME UNCHANGED fs PROVE PartsKept
  BY <1>1 DEF PartsKept
<1>2. ASSUME NEW b \in Inserts, MakeTmpDir(b) PROVE PartsKept
  BY <1>2 DEF MakeTmpDir, IInv, TypeOK, FileSystem, PartsKept
<1>3. ASSUME NEW b \in Inserts, pc[b] = "write", fs'.part = fs.part,
             \A d \in Inserts : d # fs.tmp[id[b]] => fs'.data[d] = fs.data[d]
      PROVE  PartsKept
  BY <1>3, OwnDirectory DEF IInv, TypeOK, FileSystem, DirOrNone, PartsKept
<1>4. ASSUME NEW b \in Inserts, NEW f \in Files, NEW c,
             pc[b] = "write", fs' = [fs EXCEPT !.data[fs.tmp[id[b]]][f] = c]
      PROVE  PartsKept
  <2>1. fs.tmp[id[b]] \in Inserts
    BY <1>4, OwnDirectory
  <2>2. /\ fs'.part = fs.part
        /\ \A d \in Inserts : d # fs.tmp[id[b]] => fs'.data[d] = fs.data[d]
    BY <1>4, <2>1 DEF IInv, TypeOK, FileSystem
  <2> QED
    BY <1>3, <1>4, <2>2
<1>5. ASSUME NEW b \in Inserts, NEW f \in Files, FileStep(b, f) PROVE PartsKept
  <2>1. CASE CreateFile(b, f)
    BY <1>4, <2>1 DEF CreateFile, MayStart
  <2>2. ASSUME WriteFile(b, f) \/ SyncFile(b, f) PROVE PartsKept
    <3>1. pc[b] = "write"
      BY <2>2 DEF WriteFile, SyncFile
    <3>2. fd[b][f] # NoDir => fd[b][f] = fs.tmp[id[b]]
      BY DEF IInv, Progress, OpenFiles
    <3>3. CASE fd[b][f] = NoDir
      BY <1>1, <2>2, <3>3 DEF WriteFile, SyncFile
    <3>4. CASE fd[b][f] # NoDir
      <4>1. \E c : fs' = [fs EXCEPT !.data[fs.tmp[id[b]]][f] = c]
        BY <2>2, <3>2, <3>4 DEF WriteFile, SyncFile
      <4> QED
        BY <1>4, <3>1, <4>1
    <3> QED
      BY <3>3, <3>4
  <2>3. CASE FileFails(b, f)
    BY <1>1, <2>3 DEF FileFails
  <2> QED
    BY <1>5, <2>1, <2>2, <2>3 DEF FileStep
<1>6. ASSUME NEW b \in Inserts, Abort(b) PROVE PartsKept
  <2> DEFINE d == fs.tmp[id[b]]
  <2>1. pc[b] = "write" /\ d \in Inserts
    BY <1>6, OwnDirectory DEF Abort
  <2>2. \E x, y : fs' = [fs EXCEPT !.tmp[id[b]] = x, !.data[d] = y]
    BY <1>6, <2>1, TableWriterAssumption DEF Abort
  <2> HIDE DEF d
  <2>3. fs'.part = fs.part /\ \A e \in Inserts : e # d => fs'.data[e] = fs.data[e]
    BY <2>1, <2>2 DEF IInv, TypeOK, FileSystem
  <2> QED
    BY <1>3, <2>1, <2>3 DEF d
<1>7. ASSUME NEW b \in Inserts, Rename(b) PROVE PartsKept
  <2>1. fs.part[id[b]] = NoDir /\ id[b] \in PartIds
    BY <1>7 DEF Rename, AllWritten, IInv, Progress, TargetIsFree, TypeOK
  <2>2. /\ fs'.data = fs.data
        /\ \A i \in PartIds : i # id[b] => fs'.part[i] = fs.part[i]
    BY <1>7, <2>1 DEF Rename, IInv, TypeOK, FileSystem
  <2> QED
    BY <2>1, <2>2 DEF PartsKept
<1>8. ASSUME fs' = disk PROVE PartsKept
  BY <1>8 DEF IInv, DiskBehind, PartsKept
<1>9. ASSUME NEW b \in Inserts, InsertStep(b) PROVE PartsKept
  <2>1. ASSUME \/ Reject(b) \/ MakeTmpDirFails(b) \/ RenameFails(b)
               \/ SyncTableDir(b) \/ SyncTableDirFails(b)
               \/ \E h \in Handles : Reserve(b, h)
        PROVE  PartsKept
    BY <1>1, <2>1 DEF Reject, MakeTmpDirFails, RenameFails, SyncTableDir,
                      SyncTableDirFails, Reserve
  <2> QED
    BY <1>2, <1>5, <1>6, <1>7, <1>9, <2>1 DEF InsertStep
<1>10. ASSUME (\E h \in Handles : Open(h)) \/ JournalCommit \/ UNCHANGED vars
       PROVE  PartsKept
  BY <1>1, <1>10 DEF Open, JournalCommit, vars
<1>11. ASSUME ProcessCrash \/ PowerLoss PROVE PartsKept
  BY <1>1, <1>8, <1>11 DEF ProcessCrash, PowerLoss, Crash
<1> QED
  BY <1>9, <1>10, <1>11 DEF Next

\* No step, crash or restart changes a part that stays visible.
THEOREM PartsNeverChange == ASSUME SingleHandle PROVE Spec => PartsImmutable
<1>1. IInv /\ [Next]_vars => PartsKept
  BY NextPartsKept
<1>2. PartsKept => [\A i \in PartIds :
          (fs.part[i] # NoDir /\ fs'.part[i] # NoDir) =>
              /\ fs'.part[i] = fs.part[i]
              /\ fs'.data[fs.part[i]] = fs.data[fs.part[i]]]_vars
  BY DEF PartsKept
<1> QED
  BY <1>1, <1>2, Invariance, PTL DEF Spec, PartsImmutable

-----------------------------------------------------------------------------
(***************************************************************************)
(* However many TableWriters are open on the table                         *)
(***************************************************************************)
\* A name of a part that is on disk stays, and so does a part that has a file.
NamesKept == \A i \in PartIds : disk.part[i] # NoDir => fs.part[i] # NoDir

FilesKept ==
    \A i \in PartIds : HasFiles(disk, i) => fs.part[i] = disk.part[i] /\ HasFiles(fs, i)

\* A renamed part has its name, and what insert() reported as Ok has it on disk.
RenamedNamed ==
    \A b \in Inserts : /\ pc[b] = "sync" => fs.part[id[b]] # NoDir
                       /\ pc[b] = "ok" => disk.part[id[b]] # NoDir

SharedInv == /\ TypeOK
             /\ OneName(fs) /\ Uncreated(fs)
             /\ OneName(disk) /\ Uncreated(disk)
             /\ NamesKept
             /\ FilesKept
             /\ RenamedNamed

\* No part loses all of its files, and a name that has gone to another directory
\* was that of one without files.
PartsStay ==
    \A i \in PartIds :
        /\ fs.part[i] # NoDir => fs'.part[i] # NoDir
        /\ HasFiles(fs, i) => fs'.part[i] = fs.part[i] /\ HasFiles(fs', i)

LEMMA InitSharedInv == Init => SharedInv
<1> SUFFICES ASSUME Init PROVE SharedInv
  OBVIOUS
<1>1. TypeOK
  BY InitTypeOK
<1> QED
  BY <1>1, TableWriterAssumption
     DEF Init, SharedInv, OneName, Uncreated, NamesKept, FilesKept, HasFiles, RenamedNamed

\* Committing the journal keeps names, and which files there are.
LEMMA JournalledFiles ==
    ASSUME NEW s \in FileSystem
    PROVE  \A i \in PartIds : HasFiles(Journalled(s), i) <=> HasFiles(s, i)
<1> SUFFICES ASSUME NEW i \in PartIds, s.part[i] # NoDir
             PROVE  HasFiles(Journalled(s), i) <=> HasFiles(s, i)
  BY JournalledFacts DEF HasFiles
<1>1. s.part[i] \in Inserts /\ Journalled(s).part[i] = s.part[i]
  BY JournalledFacts DEF FileSystem, DirOrNone
<1>2. \A f \in Files : Journalled(s).data[s.part[i]][f] =
         IF s.data[s.part[i]][f].state = "dirty" THEN Torn ELSE s.data[s.part[i]][f]
  BY <1>1 DEF Journalled, FileSystem
<1>3. \A f \in Files : Journalled(s).data[s.part[i]][f] = Missing
                         <=> s.data[s.part[i]][f] = Missing
  BY <1>2 DEF Torn, Missing
<1> QED
  BY <1>1, <1>3 DEF HasFiles

\* The directory of a running insert is no part, and it has one name.
LEMMA TmpIsNoPart ==
    ASSUME SharedInv, NEW i \in PartIds, fs.tmp[i] # NoDir
    PROVE  /\ fs.tmp[i] \in Inserts
           /\ \A j \in PartIds : fs.part[j] # fs.tmp[i]
  BY DEF SharedInv, OneName, TypeOK, FileSystem, DirOrNone

\* Files of directories that are no part come and go; others only come.
LEMMA FilesChange ==
    ASSUME SharedInv, fs'.part = fs.part,
           \A i \in PartIds, f \in Files :
               fs.part[i] # NoDir /\ fs.data[fs.part[i]][f] # Missing =>
                   fs'.data[fs.part[i]][f] # Missing
    PROVE  PartsStay
  BY DEF PartsStay, HasFiles

LEMMA FileStepStays ==
    ASSUME SharedInv, NEW b \in Inserts, NEW f \in Files, FileStep(b, f)
    PROVE  PartsStay /\ fs'.tmp = fs.tmp /\ fs'.part = fs.part
<1>1. fs \in FileSystem /\ fd[b][f] \in DirOrNone
  BY DEF SharedInv, TypeOK
<1>2. ASSUME NEW d \in Inserts, NEW c, c # Missing, fs' = [fs EXCEPT !.data[d][f] = c]
      PROVE  PartsStay /\ fs'.tmp = fs.tmp /\ fs'.part = fs.part
  <2>1. /\ fs'.tmp = fs.tmp /\ fs'.part = fs.part
        /\ \A e \in Inserts, g \in Files :
              fs'.data[e][g] = IF e = d /\ g = f THEN c ELSE fs.data[e][g]
    BY <1>1, <1>2 DEF FileSystem
  <2>2. \A i \in PartIds : fs.part[i] # NoDir => fs.part[i] \in Inserts
    BY <1>1 DEF FileSystem, DirOrNone
  <2> QED
    BY <1>2, <2>1, <2>2, FilesChange
<1>3. CASE UNCHANGED fs
  BY <1>3, FilesChange
<1>4. CASE CreateFile(b, f)
  <2>1. fs.tmp[id[b]] \in Inserts
    BY <1>1, <1>4 DEF CreateFile, SharedInv, TypeOK, FileSystem, DirOrNone
  <2> QED
    BY <1>2, <1>4, <2>1 DEF CreateFile, Torn, Missing
<1>5. CASE WriteFile(b, f) \/ SyncFile(b, f)
  <2>1. CASE fd[b][f] = NoDir
    BY <1>3, <1>5, <2>1 DEF WriteFile, SyncFile
  <2>2. CASE fd[b][f] # NoDir
    <3> DEFINE from == fs.data[fd[b][f]][f].from
    <3>1. fd[b][f] \in Inserts
      BY <1>1, <2>2 DEF DirOrNone
    <3>2. CASE WriteFile(b, f)
      <4>1. fs' = [fs EXCEPT !.data[fd[b][f]][f] = [state |-> "dirty", from |-> from \cup {b}]]
        BY <2>2, <3>2 DEF WriteFile
      <4>2. [state |-> "dirty", from |-> from \cup {b}] # Missing
        BY DEF Missing
      <4> QED
        BY <1>2, <3>1, <4>1, <4>2
    <3>3. CASE SyncFile(b, f)
      <4>1. fs' = [fs EXCEPT !.data[fd[b][f]][f] = [state |-> "synced", from |-> from]]
        BY <2>2, <3>3 DEF SyncFile
      <4>2. [state |-> "synced", from |-> from] # Missing
        BY DEF Missing
      <4> QED
        BY <1>2, <3>1, <4>1, <4>2
    <3> QED
      BY <1>5, <3>2, <3>3
  <2> QED
    BY <2>1, <2>2
<1>6. CASE FileFails(b, f)
  BY <1>3, <1>6 DEF FileFails
<1> QED
  BY <1>4, <1>5, <1>6 DEF FileStep

LEMMA AbortStays ==
    ASSUME SharedInv, NEW b \in Inserts, Abort(b)
    PROVE  /\ PartsStay /\ fs'.part = fs.part
           /\ \A i \in PartIds : fs'.tmp[i] \in {fs.tmp[i], NoDir}
<1> DEFINE d == fs.tmp[id[b]]
<1>1. fs \in FileSystem /\ id[b] \in PartIds
  BY DEF SharedInv, TypeOK
<1>2. CASE d = NoDir
  <2>1. fs' = fs
    BY <1>2 DEF Abort
  <2> QED
    BY <2>1, FilesChange
<1>3. CASE d # NoDir
  <2>1. d \in Inserts /\ \A j \in PartIds : fs.part[j] # d
    BY <1>1, <1>3, TmpIsNoPart
  <2>2. \E unlinked \in SUBSET Files, removed \in BOOLEAN :
           fs' = [fs EXCEPT
                   !.tmp[id[b]] = IF removed THEN NoDir ELSE d,
                   !.data[d] = [f \in Files |-> IF f \in unlinked THEN Missing ELSE @[f]]]
    <3>1. d # NoDir
      BY <1>3
    <3>2. Abort(b)
      OBVIOUS
    <3> QED
      BY <3>1, <3>2, ZenonT(30) DEF Abort
  <2> HIDE DEF d
  <2>3. /\ fs'.part = fs.part
        /\ \A e \in Inserts : e # d => fs'.data[e] = fs.data[e]
        /\ \A i \in PartIds : fs'.tmp[i] \in {fs.tmp[i], NoDir}
    BY <1>1, <2>1, <2>2 DEF FileSystem, d
  <2>4. \A i \in PartIds : fs.part[i] # NoDir => fs.part[i] \in Inserts
    BY <1>1 DEF FileSystem, DirOrNone
  <2> QED
    BY <2>1, <2>3, <2>4, FilesChange
<1> QED
  BY <1>2, <1>3

LEMMA RenameStays ==
    ASSUME SharedInv, NEW b \in Inserts, Rename(b)
    PROVE  /\ PartsStay /\ OneName(fs)'
           /\ \A i \in PartIds : fs'.tmp[i] \in {fs.tmp[i], NoDir}
           /\ \A i \in PartIds : fs'.part[i] = fs.part[i] \/ \E j \in PartIds : fs'.part[i] = fs.tmp[j]
<1>1. fs \in FileSystem /\ id[b] \in PartIds /\ fs.tmp[id[b]] # NoDir
  BY DEF SharedInv, TypeOK, Rename
<1>2. /\ fs'.data = fs.data
      /\ \A i \in PartIds : /\ fs'.part[i] = IF i = id[b] THEN fs.tmp[i] ELSE fs.part[i]
                            /\ fs'.tmp[i] = IF i = id[b] THEN NoDir ELSE fs.tmp[i]
  BY <1>1 DEF Rename, FileSystem
<1>3. ~ HasFiles(fs, id[b])
  BY DEF Rename, TargetFree, HasFiles
<1>4. PartsStay
  BY <1>1, <1>2, <1>3 DEF PartsStay, HasFiles
<1>5. OneName(fs)'
  BY <1>1, <1>2 DEF SharedInv, OneName
<1> QED
  BY <1>2, <1>4, <1>5

LEMMA WriteStays ==
    ASSUME SharedInv, \/ \E h \in Handles : Open(h)
                      \/ \E b \in Inserts : InsertStep(b)
                      \/ JournalCommit
                      \/ ProcessCrash
    PROVE  PartsStay
<1>1. ASSUME UNCHANGED fs PROVE PartsStay
  BY <1>1, FilesChange
<1>2. ASSUME NEW b \in Inserts, MakeTmpDir(b) PROVE PartsStay
  <2>1. fs'.part = fs.part /\ fs'.data = fs.data
    BY <1>2 DEF MakeTmpDir, SharedInv, TypeOK, FileSystem
  <2> QED
    BY <2>1, FilesChange
<1>3. ASSUME NEW b \in Inserts, InsertStep(b) PROVE PartsStay
  <2>1. ASSUME \/ Reject(b) \/ MakeTmpDirFails(b) \/ RenameFails(b)
               \/ SyncTableDir(b) \/ SyncTableDirFails(b)
               \/ \E h \in Handles : Reserve(b, h)
        PROVE  UNCHANGED fs
    BY <2>1 DEF Reject, MakeTmpDirFails, RenameFails, SyncTableDir,
                SyncTableDirFails, Reserve
  <2> QED
    BY <1>1, <1>2, <1>3, <2>1, FileStepStays, AbortStays, RenameStays DEF InsertStep
<1> QED
  BY <1>1, <1>3 DEF Open, JournalCommit, ProcessCrash, Crash

\* The steps after which the disk is as it was, or is what the processes see.
LEMMA StepSharedInv ==
    ASSUME SharedInv, TypeOK', PartsStay, OneName(fs)', Uncreated(fs)',
           disk' = disk \/ disk' = Journalled(fs'),
           \A b \in Inserts : pc'[b] \in {"idle", "mkdir"} => pc[b] \in {"idle", "mkdir"},
           RenamedNamed'
    PROVE  SharedInv'
<1>1. CASE disk' = disk
  <2>1. OneName(disk)' /\ Uncreated(disk)'
    BY <1>1 DEF SharedInv, OneName, Uncreated
  <2>2. NamesKept' /\ FilesKept'
    BY <1>1 DEF SharedInv, NamesKept, FilesKept, PartsStay, HasFiles
  <2> QED
    BY <2>1, <2>2 DEF SharedInv
<1>2. CASE disk' = Journalled(fs')
  <2>1. fs' \in FileSystem
    BY DEF TypeOK
  <2>2. disk'.tmp = fs'.tmp /\ disk'.part = fs'.part
    BY <1>2, <2>1, JournalledFacts
  <2>3. OneName(disk)' /\ Uncreated(disk)'
    BY <2>2 DEF OneName, Uncreated
  <2>4. \A i \in PartIds : HasFiles(disk', i) <=> HasFiles(fs', i)
    BY <1>2, <2>1, JournalledFiles
  <2>5. NamesKept' /\ FilesKept'
    BY <2>2, <2>4 DEF NamesKept, FilesKept, HasFiles
  <2> QED
    BY <2>3, <2>5 DEF SharedInv
<1> QED
  BY <1>1, <1>2

\* A step that creates no directory and gives no part its name.
LEMMA QuietSharedInv ==
    ASSUME SharedInv, TypeOK', PartsStay, fs'.part = fs.part,
           \A i \in PartIds : fs'.tmp[i] \in {fs.tmp[i], NoDir},
           disk' = disk \/ disk' = Journalled(fs'),
           \A b \in Inserts :
              /\ pc'[b] \in {"idle", "mkdir"} => pc[b] \in {"idle", "mkdir"}
              /\ pc'[b] = "sync" => pc[b] = "sync" /\ id'[b] = id[b]
              /\ pc'[b] = "ok" => /\ id'[b] = id[b]
                                  /\ \/ pc[b] = "ok"
                                     \/ pc[b] = "sync" /\ disk' = Journalled(fs')
    PROVE  SharedInv'
<1>1. OneName(fs)' /\ Uncreated(fs)'
  BY TableWriterAssumption DEF SharedInv, OneName, Uncreated
<1>2. fs' \in FileSystem
  BY DEF TypeOK
<1>3. disk' = Journalled(fs') => disk'.part = fs'.part
  BY <1>2, JournalledFacts
<1>4. \A b \in Inserts : id[b] \in PartIds
  BY DEF SharedInv, TypeOK
<1>5. RenamedNamed'
  BY <1>3, <1>4 DEF SharedInv, RenamedNamed, NamesKept
<1> QED
  BY <1>1, <1>5, StepSharedInv

LEMMA MakeTmpDirSharedInv ==
    ASSUME SharedInv, TypeOK', NEW b \in Inserts, MakeTmpDir(b)
    PROVE  SharedInv'
<1>1. fs \in FileSystem /\ id[b] \in PartIds /\ pc \in [Inserts -> Phases]
  BY DEF SharedInv, TypeOK
<1>2. /\ fs'.part = fs.part /\ fs'.data = fs.data
      /\ \A i \in PartIds : fs'.tmp[i] = fs.tmp[i] \/ (i = id[b] /\ fs'.tmp[i] = b)
  BY <1>1 DEF MakeTmpDir, FileSystem
<1>3. /\ UNCHANGED <<id, disk>>
      /\ pc[b] = "mkdir" /\ pc'[b] = "write"
      /\ \A a \in Inserts : a # b => pc'[a] = pc[a]
  BY <1>1 DEF MakeTmpDir
<1>4. PartsStay
  BY <1>2, FilesChange
<1>5. \A i \in PartIds : fs.tmp[i] # b /\ fs.part[i] # b
  BY <1>3 DEF SharedInv, Uncreated
<1>6. OneName(fs)'
  BY <1>2, <1>5 DEF SharedInv, OneName
<1>7. Uncreated(fs)'
  BY <1>2, <1>3 DEF SharedInv, Uncreated
<1>8. RenamedNamed'
  BY <1>2, <1>3 DEF SharedInv, RenamedNamed
<1> QED
  BY <1>3, <1>4, <1>6, <1>7, <1>8, StepSharedInv

LEMMA RenameSharedInv ==
    ASSUME SharedInv, TypeOK', NEW b \in Inserts, Rename(b)
    PROVE  SharedInv'
<1>1. id \in [Inserts -> PartIds] /\ pc \in [Inserts -> Phases] /\ fs \in FileSystem
  BY DEF SharedInv, TypeOK
<1>2. /\ UNCHANGED <<id, disk>>
      /\ pc[b] = "write" /\ pc'[b] = "sync"
      /\ \A a \in Inserts : a # b => pc'[a] = pc[a]
  BY <1>1 DEF Rename, AllWritten
<1>3. fs'.part[id[b]] # NoDir
  BY <1>1 DEF Rename, FileSystem
<1>4. PartsStay /\ OneName(fs)'
  BY RenameStays
<1>5. Uncreated(fs)'
  BY <1>2, RenameStays, TableWriterAssumption DEF SharedInv, Uncreated
<1>6. RenamedNamed'
  <2>1. \A a \in Inserts : pc[a] = "sync" => fs'.part[id[a]] # NoDir
    BY <1>1, <1>4 DEF SharedInv, RenamedNamed, PartsStay
  <2> QED
    BY <1>2, <1>3, <2>1 DEF SharedInv, RenamedNamed
<1> QED
  BY <1>2, <1>4, <1>5, <1>6, StepSharedInv

\* A loss of power leaves the disk; so does, but for the processes, their death.
LEMMA CrashSharedInv ==
    ASSUME SharedInv, TypeOK', Crash(fs) \/ Crash(disk)
    PROVE  SharedInv'
<1>1. /\ fs' = fs \/ fs' = disk
      /\ pc' = [b \in Inserts |-> IF Running(b) THEN "crashed" ELSE pc[b]]
      /\ UNCHANGED <<id, disk>>
  BY DEF Crash
<1>2. \A b \in Inserts :
         /\ pc'[b] \notin {"mkdir", "write", "sync"}
         /\ pc'[b] \in {"idle", "ok"} => pc'[b] = pc[b]
  BY <1>1 DEF Running
<1>3. /\ OneName(fs)' /\ OneName(disk)'
      /\ Uncreated(fs)' /\ Uncreated(disk)'
  BY <1>1, <1>2 DEF SharedInv, OneName, Uncreated
<1>4. NamesKept' /\ FilesKept'
  BY <1>1 DEF SharedInv, NamesKept, FilesKept, HasFiles
<1>5. RenamedNamed'
  BY <1>1, <1>2 DEF SharedInv, RenamedNamed
<1> QED
  BY <1>3, <1>4, <1>5 DEF SharedInv

LEMMA NextSharedInv == SharedInv /\ [Next]_vars => SharedInv'
<1> SUFFICES ASSUME SharedInv, [Next]_vars PROVE SharedInv'
  OBVIOUS
<1>0. TypeOK' /\ pc \in [Inserts -> Phases] /\ id \in [Inserts -> PartIds]
  BY NextTypeOK DEF SharedInv, TypeOK
<1>1. ASSUME NEW b \in Inserts, InsertStep(b) PROVE SharedInv'
  <2>1. ASSUME \/ Reject(b) \/ MakeTmpDirFails(b) \/ RenameFails(b) \/ SyncTableDirFails(b)
               \/ \E h \in Handles : Reserve(b, h)
        PROVE  SharedInv'
    <3>1. /\ UNCHANGED <<fs, disk>>
          /\ \/ UNCHANGED id /\ pc'[b] \in {"err", "unsynced"}
             \/ pc[b] = "idle" /\ pc'[b] = "mkdir"
          /\ \A a \in Inserts : a # b => pc'[a] = pc[a] /\ id'[a] = id[a]
      BY <1>0, <2>1 DEF Reject, MakeTmpDirFails, RenameFails, SyncTableDirFails, Reserve
    <3>2. PartsStay
      BY <3>1, FilesChange
    <3> QED
      BY <1>0, <3>1, <3>2, QuietSharedInv
  <2>2. CASE MakeTmpDir(b)
    BY <1>0, <2>2, MakeTmpDirSharedInv
  <2>3. ASSUME NEW f \in Files, FileStep(b, f) PROVE SharedInv'
    <3>1. /\ UNCHANGED <<pc, id>>
          /\ disk' = disk \/ disk' = Journalled(fs')
      BY <2>3 DEF FileStep, CreateFile, WriteFile, SyncFile, FileFails
    <3>2. PartsStay /\ fs'.tmp = fs.tmp /\ fs'.part = fs.part
      BY <2>3, FileStepStays
    <3> QED
      BY <1>0, <3>1, <3>2, QuietSharedInv
  <2>4. CASE Abort(b)
    <3>0. UNCHANGED <<id, disk>> /\ pc' = [pc EXCEPT ![b] = "err"]
      BY <2>4, Zenon DEF Abort
    <3>1. /\ UNCHANGED <<id, disk>> /\ pc'[b] = "err"
          /\ \A a \in Inserts : a # b => pc'[a] = pc[a]
      BY <1>0, <3>0
    <3>2. /\ PartsStay /\ fs'.part = fs.part
          /\ \A i \in PartIds : fs'.tmp[i] \in {fs.tmp[i], NoDir}
      BY <2>4, AbortStays
    <3> QED
      BY <1>0, <3>1, <3>2, QuietSharedInv
  <2>5. CASE Rename(b)
    BY <1>0, <2>5, RenameSharedInv
  <2>6. CASE SyncTableDir(b)
    <3>1. /\ UNCHANGED <<fs, id>> /\ disk' = Journalled(fs')
          /\ pc[b] = "sync" /\ pc'[b] = "ok"
          /\ \A a \in Inserts : a # b => pc'[a] = pc[a]
      BY <1>0, <2>6 DEF SyncTableDir
    <3>2. PartsStay
      BY <3>1, FilesChange
    <3> QED
      BY <1>0, <3>1, <3>2, QuietSharedInv
  <2> QED
    BY <1>1, <2>1, <2>2, <2>3, <2>4, <2>5, <2>6 DEF InsertStep
<1>2. CASE (\E h \in Handles : Open(h)) \/ JournalCommit \/ UNCHANGED vars
  <2>1. /\ UNCHANGED <<pc, id, fs>>
        /\ disk' = disk \/ disk' = Journalled(fs')
    BY <1>2 DEF Open, JournalCommit, vars
  <2>2. PartsStay
    BY <2>1, FilesChange
  <2> QED
    BY <1>0, <2>1, <2>2, QuietSharedInv
<1>3. CASE ProcessCrash \/ PowerLoss
  BY <1>0, <1>3, CrashSharedInv DEF ProcessCrash, PowerLoss
<1> QED
  BY <1>1, <1>2, <1>3 DEF Next

LEMMA SharedInvariance == Spec => []SharedInv
  BY InitSharedInv, NextSharedInv, PTL DEF Spec

LEMMA NotReplaced ==
    ASSUME SharedInv, [Next]_vars
    PROVE  [\A i \in PartIds :
               HasFiles(fs, i) /\ HasFiles(fs', i) => fs'.part[i] = fs.part[i]]_vars
<1> SUFFICES ASSUME Next, NEW i \in PartIds, HasFiles(fs, i), HasFiles(fs', i)
             PROVE  fs'.part[i] = fs.part[i]
  OBVIOUS
<1>1. CASE PowerLoss
  <2>1. fs' = disk
    BY <1>1 DEF PowerLoss, Crash
  <2> QED
    BY <2>1 DEF SharedInv, FilesKept
<1>2. CASE ~ PowerLoss
  <2>1. PartsStay
    BY <1>2, WriteStays DEF Next
  <2> QED
    BY <2>1 DEF PartsStay
<1> QED
  BY <1>1, <1>2

\* With any number of TableWriters on the table, no insert, restart or crash puts
\* a part with files in the place of another part with files.
THEOREM NothingIsReplaced == Spec => NeverReplaced
<1>1. SharedInv /\ [Next]_vars =>
          [\A i \in PartIds :
              HasFiles(fs, i) /\ HasFiles(fs', i) => fs'.part[i] = fs.part[i]]_vars
  BY NotReplaced
<1> QED
  BY <1>1, SharedInvariance, PTL DEF Spec, NeverReplaced

-----------------------------------------------------------------------------
(***************************************************************************)
(* TableWriter implements Table                                            *)
(***************************************************************************)
AbstractStatus == [b \in Inserts |-> Status(b)]

\* An insert is visible in the part whose id it reserved, and nowhere else.
LEMMA VisiblePlace ==
    ASSUME IInv, NEW b \in Inserts, b \in Visible
    PROVE  Holds(fs, id[b], b) /\ pc[b] \in Past /\ id[b] \in PartIds
<1>1. PICK i \in PartIds : Holds(fs, i, b)
  BY DEF Visible
<1>2. PICK a \in Inserts : id[a] = i /\ pc[a] \in Past /\ Holds(fs, i, a)
  BY <1>1 DEF IInv, FsInv, PartsOf, Holds
<1>3. Whole(a) = Whole(b)
  BY <1>1, <1>2 DEF Holds, Files
<1>4. a = b
  BY <1>3 DEF Whole
<1> QED
  BY <1>1, <1>2, <1>4 DEF Holds

\* As long as no part is added or removed, the same inserts are visible.
LEMMA SameVisible ==
    ASSUME IInv, PartsKept, fs'.part = fs.part
    PROVE  Visible' = Visible
<1>1. ASSUME NEW i \in PartIds, NEW b \in Inserts
      PROVE  Holds(fs', i, b) <=> Holds(fs, i, b)
  BY DEF Holds, PartsKept
<1> QED
  BY <1>1 DEF Visible

\* A step that changes nothing of what callers and readers see.
LEMMA Stutter ==
    ASSUME IInv, PartsKept, fs'.part = fs.part,
           \A b \in Inserts : Status(b)' = Status(b)
    PROVE  UNCHANGED <<Visible, AbstractStatus>>
<1>1. Visible' = Visible
  BY SameVisible
<1>2. AbstractStatus' = AbstractStatus
  BY DEF AbstractStatus
<1> QED
  BY <1>1, <1>2

\* A step that ends the call of b, and is seen by nobody else.
LEMMA EndStep ==
    ASSUME IInv, PartsKept, fs'.part = fs.part, NEW b \in Inserts, NEW result,
           pc \in [Inserts -> Phases], result \in {"ok", "err", "unsynced"},
           pc' = [pc EXCEPT ![b] = result]
    PROVE  /\ Visible' = Visible
           /\ AbstractStatus' = [AbstractStatus EXCEPT ![b] =
                                    IF result = "ok" THEN "ok" ELSE "err"]
<1>1. Visible' = Visible
  BY SameVisible
<1>2. \A a \in Inserts : a # b => Status(a)' = Status(a)
  BY DEF Status
<1>3. Status(b)' = IF result = "ok" THEN "ok" ELSE "err"
  BY DEF Status
<1>4. AbstractStatus' = [AbstractStatus EXCEPT ![b] =
                                    IF result = "ok" THEN "ok" ELSE "err"]
  BY <1>2, <1>3 DEF AbstractStatus
<1> QED
  BY <1>1, <1>4

\* Every step of TableWriter is a step of Table or changes nothing in it.
LEMMA Simulation ==
    ASSUME SingleHandle, IInv, IInv', [Next]_vars
    PROVE  [Abstract!TableNext]_<<Visible, AbstractStatus>>
<1>0. PartsKept /\ pc \in [Inserts -> Phases] /\ fs \in FileSystem /\ fs' \in FileSystem
  BY NextPartsKept DEF IInv, TypeOK
<1> SUFFICES ASSUME ~ UNCHANGED <<Visible, AbstractStatus>>
             PROVE  Abstract!TableNext
  OBVIOUS
<1>1. ASSUME NEW b \in Inserts, InsertStep(b) PROVE Abstract!TableNext
  <2>1. CASE Reject(b) \/ MakeTmpDirFails(b) \/ RenameFails(b)
    <3>1. /\ fs' = fs /\ pc' = [pc EXCEPT ![b] = "err"]
          /\ pc[b] \in {"idle", "mkdir", "write"}
      BY <2>1 DEF Reject, MakeTmpDirFails, RenameFails, AllWritten
    <3>2. /\ Visible' = Visible
          /\ AbstractStatus' = [AbstractStatus EXCEPT ![b] = "err"]
      BY <1>0, <3>1, EndStep
    <3>3. AbstractStatus[b] = "open"
      BY <3>1 DEF AbstractStatus, Status
    <3> QED
      BY <3>2, <3>3 DEF Abstract!TableNext, Abstract!ReturnErr, AbstractStatus
  <2>2. CASE Abort(b)
    <3>1. pc[b] = "write" /\ pc' = [pc EXCEPT ![b] = "err"]
      BY <2>2 DEF Abort
    <3>2. fs'.part = fs.part
      <4>1. fs.tmp[id[b]] \in Inserts
        BY <3>1, OwnDirectory
      <4>2. \E x, y : fs' = [fs EXCEPT !.tmp[id[b]] = x, !.data[fs.tmp[id[b]]] = y]
        BY <2>2, <4>1, TableWriterAssumption DEF Abort
      <4> QED
        BY <1>0, <4>2 DEF FileSystem
    <3>3. /\ Visible' = Visible
          /\ AbstractStatus' = [AbstractStatus EXCEPT ![b] = "err"]
      BY <1>0, <3>1, <3>2, EndStep
    <3>4. AbstractStatus[b] = "open"
      BY <3>1 DEF AbstractStatus, Status
    <3> QED
      BY <3>3, <3>4 DEF Abstract!TableNext, Abstract!ReturnErr, AbstractStatus
  <2>3. CASE SyncTableDirFails(b)
    <3>1. fs' = fs /\ pc' = [pc EXCEPT ![b] = "unsynced"] /\ pc[b] = "sync"
      BY <2>3 DEF SyncTableDirFails
    <3>2. /\ Visible' = Visible
          /\ AbstractStatus' = [AbstractStatus EXCEPT ![b] = "err"]
      <4>1. fs'.part = fs.part /\ pc' = [pc EXCEPT ![b] = "unsynced"]
        BY <3>1
      <4>2. /\ Visible' = Visible
            /\ AbstractStatus' = [AbstractStatus EXCEPT ![b] =
                                     IF "unsynced" = "ok" THEN "ok" ELSE "err"]
        BY <1>0, <4>1, EndStep, Zenon
      <4> QED
        BY <4>2
    <3>3. AbstractStatus[b] = "open"
      BY <3>1 DEF AbstractStatus, Status
    <3> QED
      BY <3>2, <3>3 DEF Abstract!TableNext, Abstract!ReturnErr, AbstractStatus
  <2>4. CASE SyncTableDir(b)
    <3>1. fs' = fs /\ pc' = [pc EXCEPT ![b] = "ok"] /\ pc[b] = "sync"
      BY <2>4 DEF SyncTableDir
    <3>2. /\ Visible' = Visible
          /\ AbstractStatus' = [AbstractStatus EXCEPT ![b] = "ok"]
      BY <1>0, <3>1, EndStep
    <3>3. AbstractStatus[b] = "open"
      BY <3>1 DEF AbstractStatus, Status
    <3>4. b \in Visible
      BY <3>1 DEF IInv, Progress, Renamed, TypeOK, Visible
    <3> QED
      BY <3>2, <3>3, <3>4 DEF Abstract!TableNext, Abstract!ReturnOk, AbstractStatus
  <2>5. CASE Rename(b)
    <3>1. pc[b] = "write" /\ pc' = [pc EXCEPT ![b] = "sync"]
      BY <2>5 DEF Rename, AllWritten
    <3>2. b \notin Visible
      BY <3>1, VisiblePlace DEF Past
    <3>3. b \in Visible'
      BY <1>0, <3>1 DEF IInv, Progress, Renamed, TypeOK, Visible
    <3>4. \A a \in Inserts : a # b => (a \in Visible <=> a \in Visible')
      <4> SUFFICES ASSUME NEW a \in Inserts, a # b
                   PROVE  a \in Visible <=> a \in Visible'
        OBVIOUS
      <4>1. /\ id[b] \in PartIds /\ fs'.data = fs.data /\ id' = id
            /\ fs.part[id[b]] = NoDir
            /\ \A i \in PartIds : i # id[b] => fs'.part[i] = fs.part[i]
        BY <1>0, <2>5, <3>1
           DEF Rename, IInv, TypeOK, FileSystem, Progress, TargetIsFree
      <4>2. ASSUME a \in Visible PROVE a \in Visible'
        <5>1. PICK i \in PartIds : Holds(fs, i, a)
          BY <4>2 DEF Visible
        <5>2. Holds(fs', i, a)
          BY <4>1, <5>1 DEF Holds
        <5> QED
          BY <5>2 DEF Visible
      <4>3. ASSUME a \in Visible' PROVE a \in Visible
        <5>1. PICK i \in PartIds : Holds(fs', i, a)
          BY <4>3 DEF Visible
        <5>2. i # id[b]
          <6> SUFFICES ASSUME i = id[b] PROVE FALSE
            OBVIOUS
          <6>1. Holds(fs', i, b)
            BY <1>0, <3>1, <4>1 DEF IInv, Progress, Renamed
          <6>2. Whole(a) = Whole(b)
            BY <5>1, <6>1 DEF Holds, Files
          <6> QED
            BY <6>2 DEF Whole
        <5>3. Holds(fs, i, a)
          BY <4>1, <5>1, <5>2 DEF Holds
        <5> QED
          BY <5>3 DEF Visible
      <4> QED
        BY <4>2, <4>3
    <3>5. Visible' = Visible \cup {b}
      BY <3>2, <3>3, <3>4 DEF Visible
    <3>6. AbstractStatus' = AbstractStatus /\ AbstractStatus[b] = "open"
      BY <1>0, <3>1 DEF AbstractStatus, Status
    <3> QED
      BY <3>2, <3>5, <3>6 DEF Abstract!TableNext, Abstract!Commit, AbstractStatus
  <2>6. CASE MakeTmpDir(b) \/ \E h \in Handles : Reserve(b, h)
    <3>1. fs'.part = fs.part
      BY <1>0, <2>6 DEF MakeTmpDir, Reserve, FileSystem
    <3>2. \A a \in Inserts : Status(a)' = Status(a)
      BY <1>0, <2>6 DEF MakeTmpDir, Reserve, Status
    <3> QED
      BY <1>0, <3>1, <3>2, Stutter
  <2>7. ASSUME NEW f \in Files, FileStep(b, f) PROVE Abstract!TableNext
    <3>1. pc' = pc
      BY <2>7 DEF FileStep, CreateFile, WriteFile, SyncFile, FileFails
    <3>2. fs' = fs \/ \E d, c : fs' = [fs EXCEPT !.data[d][f] = c]
      BY <2>7 DEF FileStep, CreateFile, WriteFile, SyncFile, FileFails
    <3>3. fs'.part = fs.part
      BY <1>0, <3>2 DEF FileSystem
    <3> QED
      BY <1>0, <3>1, <3>3, Stutter DEF Status
  <2> QED
    BY <1>1, <2>1, <2>2, <2>3, <2>4, <2>5, <2>6, <2>7 DEF InsertStep
<1>2. ASSUME (\E h \in Handles : Open(h)) \/ JournalCommit \/ UNCHANGED vars
      PROVE  Abstract!TableNext
  BY <1>0, <1>2, Stutter DEF Open, JournalCommit, vars, Status
<1>3. ASSUME ProcessCrash \/ PowerLoss PROVE Abstract!TableNext
  <2> DEFINE lost == Visible \ Visible'
             running == {b \in Inserts : Running(b)}
  <2>1. /\ fs' = fs \/ fs' = disk
        /\ pc' = [b \in Inserts |-> IF Running(b) THEN "crashed" ELSE pc[b]]
        /\ UNCHANGED <<id, disk>>
    BY <1>3 DEF ProcessCrash, PowerLoss, Crash
  <2>2. Visible' \subseteq Visible
    <3>1. CASE fs' = fs
      BY <3>1 DEF Visible
    <3>2. CASE fs' = disk
      <4>1. ASSUME NEW b \in Inserts, NEW i \in PartIds, Holds(disk, i, b)
            PROVE  Holds(fs, i, b)
        BY <4>1, DurableIsVisible DEF IInv
      <4> QED
        BY <3>2, <4>1 DEF Visible
    <3> QED
      BY <2>1, <3>1, <3>2
  <2>3. \A b \in Inserts : pc[b] = "ok" => b \notin lost
    <3> SUFFICES ASSUME NEW b \in Inserts, pc[b] = "ok" PROVE b \in Visible'
      OBVIOUS
    <3>1. id[b] \in PartIds /\ Holds(disk, id[b], b)
      BY DEF IInv, AckedDurable, TypeOK
    <3>2. Holds(fs, id[b], b)
      BY <3>1, DurableIsVisible DEF IInv
    <3> QED
      BY <2>1, <3>1, <3>2 DEF Visible
  <2>4. \A b \in running : AbstractStatus[b] = "open"
    BY DEF AbstractStatus, Status, Running
  <2>5. \A b \in lost : b \in Visible /\ AbstractStatus[b] # "ok"
    BY <2>3 DEF AbstractStatus, Status, Visible
  <2>6. \A b \in lost : AbstractStatus[b] = "open" => b \in running
    <3> SUFFICES ASSUME NEW b \in lost, AbstractStatus[b] = "open" PROVE b \in running
      OBVIOUS
    <3>1. b \in Inserts /\ pc[b] \in Past
      BY VisiblePlace DEF Visible
    <3> QED
      BY <3>1 DEF AbstractStatus, Status, Running, Past
  <2>7. AbstractStatus' = [b \in Inserts |->
            IF b \in running THEN "crashed" ELSE AbstractStatus[b]]
    BY <2>1 DEF AbstractStatus, Status, Running
  <2>8. Visible' = Visible \ lost
    BY <2>2
  <2>9. lost \in SUBSET Inserts /\ running \in SUBSET Inserts
    BY DEF Visible
  <2> HIDE DEF lost, running
  <2> QED
    BY <2>4, <2>5, <2>6, <2>7, <2>8, <2>9
       DEF Abstract!TableNext, Abstract!Stop, AbstractStatus
<1> QED
  BY <1>1, <1>2, <1>3 DEF Next, vars

LEMMA InitSimulation == Init => Abstract!TableInit
<1> SUFFICES ASSUME Init PROVE Abstract!TableInit
  OBVIOUS
<1>1. Visible = {}
  BY DEF Init, Visible, Holds
<1>2. \A b \in Inserts : Status(b) = "open"
  BY DEF Init, Status
<1> QED
  BY <1>1, <1>2 DEF Abstract!TableInit

\* insert() implements the promises of module Table: an insert appears in one
\* step, Ok means visible for ever, and nothing appears after its call ended.
THEOREM Implementation == ASSUME SingleHandle PROVE Spec => ImplementsTable
<1>1. Init => Abstract!TableInit
  BY InitSimulation
<1>2. IInv /\ IInv' /\ [Next]_vars => [Abstract!TableNext]_Abstract!tableVars
  <2> SUFFICES ASSUME IInv, IInv', [Next]_vars
               PROVE  [Abstract!TableNext]_Abstract!tableVars
    OBVIOUS
  <2>1. [Abstract!TableNext]_<<Visible, AbstractStatus>>
    BY Simulation
  <2> QED
    BY <2>1 DEF Abstract!tableVars, AbstractStatus
<1> QED
  BY <1>1, <1>2, Invariance, PTL DEF Spec, ImplementsTable, Abstract!TableSpec
=============================================================================
