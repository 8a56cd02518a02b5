------------------------ MODULE IngestionProperties ------------------------
(***************************************************************************)
(* What the intake promises, about the definitions of module Ingestion.    *)
(***************************************************************************)
EXTENDS Ingestion

RequestPC ==
    {"idle", "read", "flush", "insert", "commit", "refresh", "select", "done"}
AnswerCodes == {0, 202, 400, 409, 413, 415, 500}

TypeOK ==
    /\ request \in [Requests -> Request \cup {NoRequest}]
    /\ pc \in [Requests -> RequestPC]
    /\ answer \in [Requests -> [code : AnswerCodes, id : Requests \cup {None}]]
    /\ file \in [Paths -> {"absent", "partial", "whole"}]
    /\ pending \subseteq Row
    /\ invoices \subseteq Row
    /\ received \subseteq Requests

(***************************************************************************)
(* However requests with the same bytes interleave, crash or are retried,  *)
(* the table has at most one row for them; every row has its audit entry.  *)
(***************************************************************************)
OneRowPerContent ==
    /\ \A c \in Contents : Cardinality(SameContent(invoices, c)) <= 1
    /\ received = {row.id : row \in invoices}

(***************************************************************************)
(* When an insert hits the unique index the row it collided with can be    *)
(* found: the SELECT after the rollback sees exactly one row, which is not *)
(* the request's own, so a duplicate is answered 409 and never 500.        *)
(***************************************************************************)
DuplicateIsFound ==
    \A r \in Requests : pc[r] = "select" =>
        /\ Cardinality(Duplicates(r)) = 1
        /\ \A row \in Duplicates(r) : row.id # r

(***************************************************************************)
(* No row, committed or not, points at a missing file ("persist raw bytes  *)
(* before touching the DB").                                               *)
(***************************************************************************)
FileBeforeRow ==
    \A row \in invoices \cup pending : file[<<row.content, row.name>>] # "absent"

\* app/services/ingestion.py, "so that if the write fails we don't have a DB
\* row pointing at a missing file": the file a row points at has the bytes.
RowFileIsWhole ==
    \A row \in invoices : file[<<row.content, row.name>>] = "whole"

\* Whether a request waits for another one: for a connection, or at the index.
Waits(r) ==
    \/ pc[r] \in {"flush", "refresh", "select"} /\ ~ConnectionFree
    \/ pc[r] = "insert" /\ Blocking(r) # {}

(***************************************************************************)
(* Requests never wait in a circle, although one that waits at the unique  *)
(* index keeps its connection and the one it waits for has statements to   *)
(* come: whoever waits, somebody with a connection does not; and at the    *)
(* index, that is the very request that has inserted the same document.    *)
(***************************************************************************)
NoCircularWait ==
    \A r \in Requests : Waits(r) =>
        \E q \in Holding :
            /\ ~Waits(q)
            /\ pc[r] = "insert" => RowOf(q) \in Blocking(r)

\* Every request that reached a handler is answered, also when it waits at the
\* unique index for another transaction, or for a connection that others hold
\* while they wait there.
RequestsEnd == \A r \in Requests : pc[r] = "read" ~> pc[r] = "done"
-----------------------------------------------------------------------------
\* The document of a row that is booked, as IdempotentIntake sees it.
Booker(rows) == IF rows = {} THEN None ELSE (CHOOSE row \in rows : TRUE).id
BookedBy(c) == Booker(SameContent(invoices, c))

Intake == INSTANCE IdempotentIntake WITH
    asked <- [r \in Requests |-> request[r].content],
    book <- [c \in Contents |-> BookedBy(c)]

(***************************************************************************)
(* The endpoints implement the intake that books a document once and whose *)
(* answers, 202 and 409, name the request that booked it.                  *)
(***************************************************************************)
ImplementsIntake == Intake!ASpec
=============================================================================
