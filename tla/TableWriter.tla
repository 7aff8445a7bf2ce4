---------------------------- MODULE TableWriter ----------------------------
(***************************************************************************)
(* storage/table_writer.rs: how a batch of rows becomes a part of a table. *)
(*                                                                         *)
(* insert() validates the batch, takes a part id from the TableWriter's    *)
(* atomic counter, writes one file per column and then the zone map into   *)
(* tmp_part_<id>, renames that directory to part_<id> and syncs the table  *)
(* directory.  A TableWriter finds its first id by scanning the directory  *)
(* once, when it is opened.  Readers take every directory whose name       *)
(* starts with "part_" and expect it to be complete.                       *)
(*                                                                         *)
(* Directories and files outlive the process.  A directory is identified   *)
(* by the insert that created it, so that a file handle and the name of    *)
(* the directory it was opened in are told apart after a rename.           *)
(***************************************************************************)
EXTENDS Integers, FiniteSets

CONSTANTS Inserts,     \* calls of TableWriter::insert, each with its own batch
          Malformed,   \* the inserts whose batch does not fit the schema
          Columns,     \* the columns of the table; one file (.bin + .mrk) each
          ZoneMapFile, \* part.zonemap
          Handles,     \* TableWriter values that may be live at the same time
          NoDir,       \* "there is no such directory"
          MaxPartId    \* bound: no insert takes an id above this one

ASSUME TableWriterAssumption ==
    /\ Malformed \subseteq Inserts
    /\ ZoneMapFile \notin Columns
    /\ NoDir \notin Inserts
    /\ Handles # {}
    /\ MaxPartId \in Nat

VARIABLES next,    \* next[h]: the counter next_part_id of handle h, or Closed
          pc,      \* pc[b]: where the call insert(b) is
          handle,  \* handle[b]: the TableWriter insert(b) was called on
          id,      \* id[b]: the part id it reserved
          file,    \* file[b][f]: how far insert(b) is with writing file f
          fd,      \* fd[b][f]: the directory in which its open file f lives
          fs,      \* the file system as running processes see it
          disk     \* what a loss of power would leave of it

vars == <<next, pc, handle, id, file, fd, fs, disk>>

(***************************************************************************)
(* The file system                                                         *)
(***************************************************************************)
Files == Columns \cup {ZoneMapFile}
PartIds == 0..MaxPartId
Closed == -1
DirOrNone == Inserts \cup {NoDir}

\* The contents of a file: absent, written but only in the page cache, or
\* synced; and the inserts whose bytes are in it ({}: truncated or torn).
Content == [state : {"missing", "dirty", "synced"}, from : SUBSET Inserts]
Missing == [state |-> "missing", from |-> {}]
Torn == [state |-> "dirty", from |-> {}]
Whole(b) == [state |-> "synced", from |-> {b}]

FileSystem == [tmp  : [PartIds -> DirOrNone],       \* tmp_part_<id>
               part : [PartIds -> DirOrNone],       \* part_<id>
               data : [Inserts -> [Files -> Content]]]

\* What the journal of the file system makes durable when it is committed:
\* every change of names and sizes made so far, but of the data only what
\* was synced.  fsync commits the journal, and the kernel may at any time.
Journalled(s) ==
    [s EXCEPT !.data = [d \in Inserts |-> [f \in Files |->
        IF s.data[d][f].state = "dirty" THEN Torn ELSE s.data[d][f]]]]

\* A directory that a reader takes for a part, and that holds the batch of
\* insert b: all of its files, whole, and nothing of any other insert.
Holds(s, i, b) == /\ s.part[i] # NoDir
                  /\ \A f \in Files : s.data[s.part[i]][f] = Whole(b)

(***************************************************************************)
(* The phases of a call of insert                                          *)
(***************************************************************************)
Phases == {"idle",      \* not called yet
           "mkdir",     \* id reserved, tmp directory not created
           "write",     \* writing column files, then the zone map
           "sync",      \* renamed; the table directory is not synced yet
           "ok",        \* returned Ok(PartMetadata)
           "err",       \* returned Err before the rename
           "unsynced",  \* returned Err from the sync after the rename
           "crashed"}   \* the process died during the call
FileSteps == {"todo", "open", "written", "done", "failed"}

Running(b) == pc[b] \in {"mkdir", "write", "sync"}

Init == /\ next = [h \in Handles |-> Closed]
        /\ pc = [b \in Inserts |-> "idle"]
        /\ handle = [b \in Inserts |-> CHOOSE h \in Handles : TRUE]
        /\ id = [b \in Inserts |-> 0]
        /\ file = [b \in Inserts |-> [f \in Files |-> "todo"]]
        /\ fd = [b \in Inserts |-> [f \in Files |-> NoDir]]
        /\ fs = [tmp  |-> [i \in PartIds |-> NoDir],
                 part |-> [i \in PartIds |-> NoDir],
                 data |-> [d \in Inserts |-> [f \in Files |-> Missing]]]
        /\ disk = fs

\* scan_next_part_id: one more than the largest id of a "part_" directory.
\* The names tmp_part_<id> are not looked at.
ScanNextPartId(n) == /\ \A i \in PartIds : fs.part[i] # NoDir => i < n
                     /\ n > 0 => fs.part[n - 1] # NoDir

\* TableWriter::open, on a handle no insert is running on: a TableWriter is
\* borrowed for the whole of insert(&self, ..), so it cannot be replaced then.
Open(h) == /\ \A b \in Inserts : Running(b) => handle[b] # h
           /\ \E n \in 0..(MaxPartId + 1) :
                 /\ ScanNextPartId(n)
                 /\ next' = [next EXCEPT ![h] = n]
           /\ UNCHANGED <<pc, handle, id, file, fd, fs, disk>>

\* The number of columns or the type of one of them is wrong.
Reject(b) == /\ pc[b] = "idle"
             /\ b \in Malformed
             /\ \E h \in Handles : next[h] # Closed
             /\ pc' = [pc EXCEPT ![b] = "err"]
             /\ UNCHANGED <<next, handle, id, file, fd, fs, disk>>

\* Mutant of Reserve: the counter is read but not advanced.
ReserveWithoutIncrement(b, h) == /\ pc[b] = "idle"
                                 /\ b \notin Malformed
                                 /\ next[h] # Closed
                                 /\ next[h] <= MaxPartId
                                 /\ id' = [id EXCEPT ![b] = next[h]]
                                 /\ handle' = [handle EXCEPT ![b] = h]
                                 /\ pc' = [pc EXCEPT ![b] = "mkdir"]
                                 /\ UNCHANGED <<next, file, fd, fs, disk>>

\* Mutant of Reserve: the id after the increment is taken.
ReserveNextId(b, h) == /\ pc[b] = "idle"
                       /\ b \notin Malformed
                       /\ next[h] # Closed
                       /\ next[h] <= MaxPartId
                       /\ id' = [id EXCEPT ![b] = next[h] + 1]
                       /\ next' = [next EXCEPT ![h] = @ + 1]
                       /\ handle' = [handle EXCEPT ![b] = h]
                       /\ pc' = [pc EXCEPT ![b] = "mkdir"]
                       /\ UNCHANGED <<file, fd, fs, disk>>

\* next_part_id.fetch_add(1)
Reserve(b, h) == /\ pc[b] = "idle"
                 /\ b \notin Malformed
                 /\ next[h] # Closed
                 /\ next[h] <= MaxPartId
                 /\ id' = [id EXCEPT ![b] = next[h]]
                 /\ next' = [next EXCEPT ![h] = @ + 1]
                 /\ handle' = [handle EXCEPT ![b] = h]
                 /\ pc' = [pc EXCEPT ![b] = "mkdir"]
                 /\ UNCHANGED <<file, fd, fs, disk>>

\* create_dir_all(tmp_dir): succeeds on a directory an earlier, crashed or
\* failed insert left behind, and leaves the files in it.
MakeTmpDir(b) == /\ pc[b] = "mkdir"
                 /\ fs' = IF fs.tmp[id[b]] = NoDir
                          THEN [fs EXCEPT !.tmp[id[b]] = b]
                          ELSE fs
                 /\ pc' = [pc EXCEPT ![b] = "write"]
                 /\ UNCHANGED <<next, handle, id, file, fd, disk>>

MakeTmpDirFails(b) == /\ pc[b] = "mkdir"
                      /\ pc' = [pc EXCEPT ![b] = "err"]
                      /\ UNCHANGED <<next, handle, id, file, fd, fs, disk>>

\* The columns are written in parallel; the zone map after all of them.
MayStart(b, f) ==
    /\ pc[b] = "write"
    /\ file[b][f] = "todo"
    /\ f = ZoneMapFile => \A c \in Columns : file[b][c] = "done"

\* File::create truncates the file if it is there.
CreateFile(b, f) ==
    /\ MayStart(b, f)
    /\ fs.tmp[id[b]] # NoDir
    /\ fs' = [fs EXCEPT !.data[fs.tmp[id[b]]][f] = Torn]
    /\ fd' = [fd EXCEPT ![b][f] = fs.tmp[id[b]]]
    /\ file' = [file EXCEPT ![b][f] = "open"]
    /\ UNCHANGED <<next, pc, handle, id, disk>>

\* The blocks and marks of the whole file.  fd[b][f] = NoDir: the file was
\* unlinked while it was open, and what is written to it is never seen.
WriteFile(b, f) ==
    /\ file[b][f] = "open" /\ pc[b] = "write"
    /\ fs' = IF fd[b][f] = NoDir THEN fs
             ELSE [fs EXCEPT !.data[fd[b][f]][f] =
                      [state |-> "dirty", from |-> @.from \cup {b}]]
    /\ file' = [file EXCEPT ![b][f] = "written"]
    /\ UNCHANGED <<next, pc, handle, id, fd, disk>>

\* Mutant of SyncFile: the file is closed without sync_all.
CloseFile(b, f) ==
    /\ file[b][f] = "written" /\ pc[b] = "write"
    /\ fd' = [fd EXCEPT ![b][f] = NoDir]
    /\ file' = [file EXCEPT ![b][f] = "done"]
    /\ UNCHANGED <<next, pc, handle, id, fs, disk>>

\* sync_all on .bin and .mrk, or on part.zonemap; the file is then closed.
SyncFile(b, f) ==
    /\ file[b][f] = "written" /\ pc[b] = "write"
    /\ fs' = IF fd[b][f] = NoDir THEN fs
             ELSE [fs EXCEPT !.data[fd[b][f]][f] =
                      [state |-> "synced", from |-> @.from]]
    /\ disk' = Journalled(fs')
    /\ fd' = [fd EXCEPT ![b][f] = NoDir]
    /\ file' = [file EXCEPT ![b][f] = "done"]
    /\ UNCHANGED <<next, pc, handle, id>>

\* Creating, writing or syncing fails.
FileFails(b, f) ==
    /\ MayStart(b, f) \/ (pc[b] = "write" /\ file[b][f] \in {"open", "written"})
    /\ file' = [file EXCEPT ![b][f] = "failed"]
    /\ fd' = [fd EXCEPT ![b][f] = NoDir]
    /\ UNCHANGED <<next, pc, handle, id, fs, disk>>

\* A file failed and no other is being written any more: remove_dir_all on
\* the tmp directory, whose own error is ignored and may leave some files.
Abort(b) ==
    /\ pc[b] = "write"
    /\ \E f \in Files : file[b][f] = "failed"
    /\ \A f \in Files : file[b][f] \notin {"open", "written"}
    /\ LET d == fs.tmp[id[b]] IN
       \/ /\ d = NoDir
          /\ UNCHANGED <<fs, fd>>
       \/ /\ d # NoDir
          /\ \E unlinked \in SUBSET Files, removed \in BOOLEAN :
                /\ removed => unlinked = Files
                /\ fs' = [fs EXCEPT
                     !.tmp[id[b]] = IF removed THEN NoDir ELSE d,
                     !.data[d] = [f \in Files |-> IF f \in unlinked THEN Missing ELSE @[f]]]
                /\ fd' = [i \in Inserts |-> [f \in Files |->
                     IF fd[i][f] = d /\ f \in unlinked THEN NoDir ELSE fd[i][f]]]
    /\ pc' = [pc EXCEPT ![b] = "err"]
    /\ UNCHANGED <<next, handle, id, file, disk>>

\* Mutant of AllWritten: rename before the zone map is written.
ColumnsWritten(b) == pc[b] = "write" /\ \A f \in Columns : file[b][f] = "done"

\* rename(tmp_part_<id>, part_<id>): atomic; fails when the source is gone
\* or the target is a directory with files in it.
AllWritten(b) == pc[b] = "write" /\ \A f \in Files : file[b][f] = "done"

\* Mutant of TargetFree: a target that is in the way is removed first.
TargetRemoved(i) == TRUE

TargetFree(i) ==
    fs.part[i] # NoDir => \A f \in Files : fs.data[fs.part[i]][f] = Missing

Rename(b) == /\ AllWritten(b)
             /\ fs.tmp[id[b]] # NoDir
             /\ TargetFree(id[b])
             /\ fs' = [fs EXCEPT !.part[id[b]] = fs.tmp[id[b]],
                                 !.tmp[id[b]] = NoDir]
             /\ pc' = [pc EXCEPT ![b] = "sync"]
             /\ UNCHANGED <<next, handle, id, file, fd, disk>>

\* The error is returned as it is: the tmp directory stays.
RenameFails(b) == /\ AllWritten(b)
                  /\ pc' = [pc EXCEPT ![b] = "err"]
                  /\ UNCHANGED <<next, handle, id, file, fd, fs, disk>>

\* Mutant of SyncTableDir: insert returns Ok right after the rename.
ReturnWithoutSync(b) == /\ pc[b] = "sync"
                        /\ pc' = [pc EXCEPT ![b] = "ok"]
                        /\ UNCHANGED <<next, handle, id, file, fd, fs, disk>>

SyncTableDir(b) == /\ pc[b] = "sync"
                   /\ disk' = Journalled(fs)
                   /\ pc' = [pc EXCEPT ![b] = "ok"]
                   /\ UNCHANGED <<next, handle, id, file, fd, fs>>

\* The part stays where it is although the caller gets an Err.
SyncTableDirFails(b) == /\ pc[b] = "sync"
                        /\ pc' = [pc EXCEPT ![b] = "unsynced"]
                        /\ UNCHANGED <<next, handle, id, file, fd, fs, disk>>

\* The kernel commits its journal when it likes.
JournalCommit == /\ disk' = Journalled(fs)
                 /\ UNCHANGED <<next, pc, handle, id, file, fd, fs>>

\* The process dies (the file system stays as it is) or the power fails.
Crash(left) == /\ fs' = left
               /\ next' = [h \in Handles |-> Closed]
               /\ pc' = [b \in Inserts |-> IF Running(b) THEN "crashed" ELSE pc[b]]
               /\ fd' = [b \in Inserts |-> [f \in Files |-> NoDir]]
               /\ UNCHANGED <<handle, id, file, disk>>

ProcessCrash == Crash(fs)
PowerLoss == Crash(disk)

FileStep(b, f) == \/ CreateFile(b, f)
                  \/ WriteFile(b, f)
                  \/ SyncFile(b, f)
                  \/ FileFails(b, f)

InsertStep(b) == \/ Reject(b)
                 \/ \E h \in Handles : Reserve(b, h)
                 \/ MakeTmpDir(b)
                 \/ MakeTmpDirFails(b)
                 \/ \E f \in Files : FileStep(b, f)
                 \/ Abort(b)
                 \/ Rename(b)
                 \/ RenameFails(b)
                 \/ SyncTableDir(b)
                 \/ SyncTableDirFails(b)

Next == \/ \E h \in Handles : Open(h)
        \/ \E b \in Inserts : InsertStep(b)
        \/ JournalCommit
        \/ ProcessCrash
        \/ PowerLoss

Spec == Init /\ [][Next]_vars
-----------------------------------------------------------------------------
(***************************************************************************)
(* Properties                                                              *)
(***************************************************************************)
TypeOK == /\ next \in [Handles -> (0..(MaxPartId + 1)) \cup {Closed}]
          /\ pc \in [Inserts -> Phases]
          /\ handle \in [Inserts -> Handles]
          /\ id \in [Inserts -> PartIds]
          /\ file \in [Inserts -> [Files -> FileSteps]]
          /\ fd \in [Inserts -> [Files -> DirOrNone]]
          /\ fs \in FileSystem
          /\ disk \in FileSystem

\* Every directory a reader takes for a part holds the whole batch of exactly
\* one insert: the one that reserved this id, and one that did not fail before
\* its rename.  So no reader meets a missing, truncated or foreign file, not
\* even when insert() reuses the directory a crashed insert left, and no batch
\* is in two parts.
PartsWhole ==
    \A i \in PartIds : fs.part[i] # NoDir =>
        \E b \in Inserts : /\ id[b] = i
                           /\ pc[b] \in {"sync", "ok", "unsynced", "crashed"}
                           /\ Holds(fs, i, b)

\* What insert() reported as Ok would survive a loss of power in every later
\* state, because its files and then the table directory were synced.
AckedDurable ==
    \A b \in Inserts : pc[b] = "ok" => Holds(disk, id[b], b)

\* Once visible a part never changes: no step, crash or restart puts another
\* directory in its place or alters one of its files.  (A loss of power may
\* take away a part whose rename was not synced, never change it.)
PartsImmutable ==
    [][\A i \in PartIds :
          (fs.part[i] # NoDir /\ fs'.part[i] # NoDir) =>
              /\ fs'.part[i] = fs.part[i]
              /\ fs'.data[fs.part[i]] = fs.data[fs.part[i]]]_vars

\* However many TableWriters are open on the table, and however stale their
\* counters, a part that has any file is never replaced by another one that has:
\* the rename of the second insert with the same id fails.  (A part that was
\* emptied before its rename may be replaced, and may be back after a loss of
\* power.)
HasFiles(s, i) == /\ s.part[i] # NoDir
                  /\ \E f \in Files : s.data[s.part[i]][f] # Missing

NeverReplaced ==
    [][\A i \in PartIds :
          HasFiles(fs, i) /\ HasFiles(fs', i) => fs'.part[i] = fs.part[i]]_vars

\* Two running inserts never work on the same part id, hence never in the
\* same tmp directory: the counter is handed on by one atomic fetch_add.
IdsPrivate ==
    \A a, b \in Inserts : Running(a) /\ Running(b) /\ a # b => id[a] # id[b]

\* The table as its callers see it (module Table).
Visible == {b \in Inserts : \E i \in PartIds : Holds(fs, i, b)}

Status(b) == IF pc[b] \in {"ok", "crashed"} THEN pc[b]
             ELSE IF pc[b] \in {"err", "unsynced"} THEN "err"
             ELSE "open"

Abstract == INSTANCE Table WITH visible <- Visible,
                                status <- [b \in Inserts |-> Status(b)]

\* insert() keeps the promises of module Table: commits are atomic, Ok means
\* visible for ever, and nothing becomes visible after its call has ended.
ImplementsTable == Abstract!TableSpec

\* README.md, "On-Disk Layout of Data": a write "is atomically renamed into
\* place on success, so a crash mid-insert never leaves a half-written part
\* visible to readers."
NoHalfWrittenPart ==
    \A i \in PartIds : fs.part[i] # NoDir => \E b \in Inserts : Holds(fs, i, b)
=============================================================================
