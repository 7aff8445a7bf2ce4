------------------------------ MODULE Database ------------------------------
(***************************************************************************)
(* A table that is written and queried at the same time: module            *)
(* TableWriter together with the reading side of execution/builder.rs.     *)
(*                                                                         *)
(* Nothing is shared but the file system.  build() lists the directories   *)
(* whose names start with "part_", once, and the workers then open files   *)
(* of these parts by name, in any order.  read_dir is no snapshot: a name  *)
(* that appears while the directory is read may be returned or not, and an *)
(* entry that cannot be read is dropped without an error.                  *)
(***************************************************************************)
EXTENDS TableWriter

VARIABLES query,   \* where the reader is: "idle", "listing" or "reading"
          begin,   \* the parts that were there when the listing began
          listed,  \* the parts of the query
          lossy,   \* an entry was dropped from the listing
          got,     \* got[i][f]: what file f of part i held when it was read
          known,   \* history: the parts acknowledged before the query began
          shown,   \* history: the parts that queries have returned rows of
          shared   \* history: two TableWriters were open on the table

reader == <<query, begin, listed, lossy, got, known>>
dbVars == <<vars, reader, shown, shared>>

Unread == [state |-> "unread", from |-> {}]
NothingRead == [i \in PartIds |-> [f \in Files |-> Unread]]

\* The paths the filter of build() lets through.
\* Mutant of PartNames: names that contain "part_", so tmp_part_<id> as well.
PartNamesContaining == {i \in PartIds : fs.part[i] # NoDir \/ fs.tmp[i] # NoDir}

PartNames == {i \in PartIds : fs.part[i] # NoDir}
Acknowledged == {id[b] : b \in {c \in Inserts : pc[c] = "ok"}}

\* Mutant of Forget: the next query starts with what this one has read.
ForgetTheParts == /\ query' = "idle"
                  /\ begin' = {} /\ listed' = {} /\ lossy' = FALSE
                  /\ got' = got
                  /\ known' = {}

\* The state of a query is that of the plan built for it.
Forget == /\ query' = "idle"
          /\ begin' = {} /\ listed' = {} /\ lossy' = FALSE
          /\ got' = NothingRead
          /\ known' = {}

DbInit == /\ Init
          /\ query = "idle"
          /\ begin = {} /\ listed = {} /\ lossy = FALSE
          /\ got = NothingRead
          /\ known = {} /\ shown = {} /\ shared = FALSE

\* read_dir opens the directory.
BeginListing == /\ query = "idle"
                /\ query' = "listing"
                /\ begin' = PartNames
                /\ known' = Acknowledged
                /\ UNCHANGED <<listed, lossy, got>>

\* collect(): what was there at the beginning and was not dropped, and any of
\* the names that have appeared since.
EndListing == /\ query = "listing"
              /\ \E dropped \in SUBSET begin, more \in SUBSET (PartNames \ begin) :
                    /\ listed' = (begin \ dropped) \cup more
                    /\ lossy' = (dropped # {})
              /\ query' = "reading"
              /\ UNCHANGED <<begin, got, known>>

\* A worker opens and reads a file of the part.
ReadFile(i, f) ==
    /\ query = "reading" /\ i \in listed /\ got[i][f] = Unread
    /\ got' = [got EXCEPT ![i][f] =
                  IF fs.part[i] = NoDir THEN Missing ELSE fs.data[fs.part[i]][f]]
    /\ UNCHANGED <<query, begin, listed, lossy, known>>

\* The answer is complete, or LIMIT or an error ended the query before.
EndQuery == /\ query = "reading"
            /\ shown' = shown \cup {i \in listed : \E f \in Files : got[i][f] # Unread}
            /\ Forget

Read == /\ \/ BeginListing
           \/ EndListing
           \/ \E i \in PartIds, f \in Files : ReadFile(i, f)
        /\ UNCHANGED shown

\* The reader may be a process of its own: it outlives that of the writers.
Write == /\ \/ \E h \in Handles : Open(h)
            \/ \E b \in Inserts : InsertStep(b)
            \/ JournalCommit
            \/ ProcessCrash
         /\ shared' = (shared \/ \E g, h \in Handles :
                          g # h /\ next'[g] # Closed /\ next'[h] # Closed)
         /\ UNCHANGED <<reader, shown>>

\* It does not outlive the machine.  Rows of parts that were never acknowledged
\* may have been shown and be gone now.
LosePower == /\ PowerLoss
             /\ Forget
             /\ shown' = shown \cap Acknowledged
             /\ UNCHANGED shared

DbNext == \/ Write
          \/ LosePower
          \/ (Read \/ EndQuery) /\ UNCHANGED <<vars, shared>>

DbSpec == DbInit /\ [][DbNext]_dbVars
-----------------------------------------------------------------------------
(***************************************************************************)
(* Properties                                                              *)
(***************************************************************************)
DbTypeOK == /\ query \in {"idle", "listing", "reading"}
            /\ begin \subseteq PartIds /\ listed \subseteq PartIds
            /\ known \subseteq PartIds /\ shown \subseteq PartIds
            /\ lossy \in BOOLEAN /\ shared \in BOOLEAN
            /\ got \in [PartIds -> [Files -> Content \cup {Unread}]]
            /\ \A i \in PartIds : i \notin listed => got[i] = NothingRead[i]

\* All that a query reads of a part is the batch of one insert, and whole,
\* although its files are opened one by one while inserts start, fail, crash
\* and commit: the insert that reserved the part's id and got as far as its
\* rename.  This needs that no two TableWriters are open on the table.
AnswerWhole ==
    ~ shared => \A i \in listed : \E b \in Inserts :
        /\ id[b] = i
        /\ pc[b] \in {"sync", "ok", "unsynced", "crashed"}
        /\ \A f \in Files : got[i][f] \in {Unread, Whole(b)}

\* A query that began after insert() returned Ok lists the part, also when
\* processes died or the power failed in between, and however many
\* TableWriters are open.
AcknowledgedIsListed == query = "reading" /\ ~ lossy => known \subseteq listed

\* A part that an earlier query has returned rows of is among the parts of
\* every later one.  (Unless the power failed before it was acknowledged.)
ReadsNeverGoBack == query = "reading" /\ ~ lossy => shown \subseteq listed
=============================================================================
