------------------------- MODULE IngestionInvariant -------------------------
(***************************************************************************)
(* The inductive invariant of the intake behind its safety properties and  *)
(* its refinement of IdempotentIntake.                                     *)
(***************************************************************************)
EXTENDS IngestionProperties

\* Where a handler is says what it was given and that it has not answered.
HandlersAreOpen ==
    \A r \in Requests :
        /\ pc[r] = "idle" => request[r] = NoRequest
        /\ pc[r] # "idle" => request[r] \in Request
        /\ pc[r] # "done" => answer[r] = Silent

\* The unique index: committed or not, two rows differ in their content.
ContentsAreUnique ==
    \A row1, row2 \in invoices \cup pending :
        row1.content = row2.content => row1 = row2

(***************************************************************************)
(* A row belongs to the request it is named after, and to one that is past *)
(* its insert: an open transaction to one about to commit, a committed row *)
(* to one that has committed.                                              *)
(***************************************************************************)
RowsAreOwn ==
    /\ \A row \in pending : pc[row.id] = "commit" /\ row = RowOf(row.id)
    /\ \A row \in invoices : pc[row.id] \in {"refresh", "done"}
    /\ \A r \in Requests :
            /\ pc[r] = "commit" => RowOf(r) \in pending
            /\ pc[r] = "refresh" => RowOf(r) \in invoices

\* A handler that has come to the database has its file; one that hit the
\* unique index hit a committed row.
EvidenceIsKept ==
    \A r \in Requests :
        /\ pc[r] \in InDatabase => file[PathOf(r)] # "absent"
        /\ pc[r] = "select" => \E row \in invoices : row.content = request[r].content

IInv ==
    /\ TypeOK
    /\ HandlersAreOpen
    /\ ContentsAreUnique
    /\ RowsAreOwn
    /\ EvidenceIsKept
    /\ received = {row.id : row \in invoices}
    /\ FileBeforeRow
=============================================================================
