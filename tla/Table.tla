------------------------------- MODULE Table -------------------------------
(***************************************************************************)
(* What a tinyOLAP table promises to the callers of TableWriter::insert    *)
(* and to readers, without files, directories or part numbers.             *)
(*                                                                         *)
(* An insert becomes visible in one step (the rename of its part).  Its    *)
(* caller is told Ok only once it is visible, and an insert reported Ok    *)
(* stays visible for ever, whatever crashes follow.  An insert reported    *)
(* Err, or cut short by a crash, either never becomes visible or was       *)
(* visible when that happened: nothing appears behind the caller's back.   *)
(* A crash may take away an insert nobody was told had succeeded.          *)
(***************************************************************************)
CONSTANT Inserts    \* the calls of insert: each stands for one batch of rows

VARIABLES visible,  \* the inserts whose rows a reader of the table sees
          status    \* what the caller of each insert knows

tableVars == <<visible, status>>

Statuses == {"open", "ok", "err", "crashed"}

TableTypeOK == /\ visible \subseteq Inserts
               /\ status \in [Inserts -> Statuses]

TableInit == /\ visible = {}
             /\ status = [b \in Inserts |-> "open"]

Commit(b) == /\ status[b] = "open"
             /\ b \notin visible
             /\ visible' = visible \cup {b}
             /\ UNCHANGED status

ReturnOk(b) == /\ status[b] = "open"
               /\ b \in visible
               /\ status' = [status EXCEPT ![b] = "ok"]
               /\ UNCHANGED visible

ReturnErr(b) == /\ status[b] = "open"
                /\ status' = [status EXCEPT ![b] = "err"]
                /\ UNCHANGED visible

\* The machine stops: any inserts not reported Ok may be gone, and the calls
\* that were running never return.
Stop == \E lost, running \in SUBSET Inserts :
            /\ \A b \in lost : b \in visible /\ status[b] # "ok"
            /\ \A b \in running : status[b] = "open"
            /\ \A b \in lost : status[b] = "open" => b \in running
            /\ visible' = visible \ lost
            /\ status' = [b \in Inserts |->
                             IF b \in running THEN "crashed" ELSE status[b]]

TableNext == \/ \E b \in Inserts : Commit(b) \/ ReturnOk(b) \/ ReturnErr(b)
             \/ Stop

TableSpec == TableInit /\ [][TableNext]_tableVars
=============================================================================
