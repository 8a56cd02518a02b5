------------------------------ MODULE Ingestion ------------------------------
(***************************************************************************)
(* The intake of invoices: POST /invoices/upload and                       *)
(* /invoices/webhook/email (app/api/invoices.py) and ingest_invoice        *)
(* (app/services/ingestion.py), against a file store and a table with a    *)
(* unique index on content_hash.                                           *)
(*                                                                         *)
(* Contents stand for the bytes and, SHA-256 taken as injective, for their *)
(* hash.  The API is one process with one event loop: between two awaits a *)
(* request runs alone, and a crash ends every request in flight.           *)
(***************************************************************************)
EXTENDS FiniteSets, Integers

CONSTANTS
    Requests,    \* HTTP requests; a client's retry is a request of its own
    Contents,    \* the bytes of a document
    Names,       \* file names
    None,
    Inputs,      \* what callers submit, of Request
    PoolSize,    \* pool_size and max_overflow of the engine, together
    Faults       \* what may go wrong, of FaultKinds

\* "crash": the API process stops.  "write": write_bytes raises, half way or
\* before.  "database": a statement raises something else than IntegrityError,
\* or no connection comes free within pool_timeout.
FaultKinds == {"crash", "write", "database"}

Sources == {"upload", "email"}
Defects == {None, "type", "size", "base64"}
Request ==
    [source : Sources, content : Contents, name : Names, defect : Defects]
NoRequest ==
    [source |-> None, content |-> None, name |-> None, defect |-> None]

ASSUME IngestionAssumption ==
    /\ None \notin Requests \cup Contents \cup Names
    /\ Inputs \subseteq Request
    /\ PoolSize \in Nat \ {0}
    /\ Faults \subseteq FaultKinds

VARIABLES
    request,    \* what was submitted
    pc,         \* where its handler is
    answer,     \* the response: status code and invoice id
    file,       \* UPLOAD_DIR, per storage path
    pending,    \* rows inserted by transactions not yet committed
    invoices,   \* committed rows of the table invoices
    received    \* invoice ids with a committed "invoice_received" audit row

vars == <<request, pc, answer, file, pending, invoices, received>>
tables == <<pending, invoices, received>>

Paths == Contents \X Names   \* UPLOAD_DIR / f"{content_hash}_{filename}"
Row == [id : Requests, content : Contents, name : Names]

\* Faulty variant: the arguments swapped.
RespondSwapped(code, id) == [code |-> id, id |-> code]

Respond(code, id) == [code |-> code, id |-> id]
Silent == Respond(0, None)

Init ==
    /\ request = [r \in Requests |-> NoRequest]
    /\ pc = [r \in Requests |-> "idle"]
    /\ answer = [r \in Requests |-> Silent]
    /\ file = [path \in Paths |-> "absent"]
    /\ pending = {} /\ invoices = {} /\ received = {}
-----------------------------------------------------------------------------
RowOf(r) ==
    [id |-> r, content |-> request[r].content, name |-> request[r].name]
PathOf(r) == <<request[r].content, request[r].name>>
SameContent(rows, c) == {row \in rows : row.content = c}

\* The handler answers and its session closes, which rolls back.
Finish(r, code, id) ==
    /\ pc' = [pc EXCEPT ![r] = "done"]
    /\ answer' = [answer EXCEPT ![r] = Respond(code, id)]

Goto(r, to) == pc' = [pc EXCEPT ![r] = to] /\ UNCHANGED answer

\* What the endpoint refuses before it ingests; the webhook has no check of
\* type or size.
Refusal(req) ==
    IF req.source = "upload"
    THEN IF req.defect = "type" THEN 415
         ELSE IF req.defect = "size" THEN 413 ELSE 0
    ELSE IF req.defect = "base64" THEN 400 ELSE 0

Submit(r, req) ==
    /\ pc[r] = "idle"
    /\ request' = [request EXCEPT ![r] = req]
    /\ Goto(r, "read")
    /\ UNCHANGED <<file, tables>>

Refuse(r) ==
    /\ pc[r] = "read" /\ Refusal(request[r]) # 0
    /\ Finish(r, Refusal(request[r]), None)
    /\ UNCHANGED <<request, file, tables>>

\* Faulty variant: a document stored under any name counts as stored.
StoredUnderAnyName(path) == \E n \in Names : file[<<path[1], n>>] # "absent"

\* A path that exists is not written again.
Stored(path) == file[path] # "absent"

WriteFile(r) ==
    /\ pc[r] = "read" /\ Refusal(request[r]) = 0
    /\ file' = [file EXCEPT ![PathOf(r)] = IF Stored(PathOf(r)) THEN @ ELSE "whole"]
    /\ Goto(r, "flush")
    /\ UNCHANGED <<request, tables>>

\* write_bytes raises, or the process stops in it: part of the bytes is there.
TornWrite(r) ==
    /\ "write" \in Faults
    /\ pc[r] = "read" /\ Refusal(request[r]) = 0 /\ ~Stored(PathOf(r))
    /\ \E left \in {"absent", "partial"} : file' = [file EXCEPT ![PathOf(r)] = left]
    /\ Finish(r, 500, None)
    /\ UNCHANGED <<request, tables>>

\* The rows whose uncommitted insert the unique index makes an insert wait for.
Blocking(r) == SameContent(pending, request[r].content)
Duplicates(r) == SameContent(invoices, request[r].content)

(***************************************************************************)
(* A session holds a connection of the pool from its first statement to    *)
(* the end of its transaction, also while an insert waits at the index.    *)
(* The SELECT behind a commit or a rollback needs one again; nothing       *)
(* waits between that SELECT and the end of the session.                   *)
(***************************************************************************)
\* Faulty variant: the SELECT for the existing row is made in a session of
\* its own, before the first one has rolled back.
HoldingWhileSelecting == {r \in Requests : pc[r] \in {"insert", "commit", "select"}}

Holding == {r \in Requests : pc[r] \in {"insert", "commit"}}

ConnectionFree == Cardinality(Holding) < PoolSize

Connect(r) ==
    /\ pc[r] = "flush" /\ ConnectionFree
    /\ Goto(r, "insert")
    /\ UNCHANGED <<request, file, tables>>

\* Faulty variant: no unique index; the rows that are visible are looked up.
FlushUnlocked(r) ==
    /\ pc[r] = "insert" /\ Duplicates(r) = {}
    /\ pending' = pending \cup {RowOf(r)}
    /\ Goto(r, "commit")
    /\ UNCHANGED <<request, file, invoices, received>>

Flush(r) ==
    /\ pc[r] = "insert" /\ Blocking(r) = {} /\ Duplicates(r) = {}
    /\ pending' = pending \cup {RowOf(r)}
    /\ Goto(r, "commit")
    /\ UNCHANGED <<request, file, invoices, received>>

\* Faulty variant: the index objects to a row that is not committed yet.
FlushFailsEarly(r) ==
    /\ pc[r] = "insert" /\ Blocking(r) \cup Duplicates(r) # {}
    /\ Goto(r, "select")
    /\ UNCHANGED <<request, file, tables>>

\* IntegrityError and the rollback.
FlushFails(r) ==
    /\ pc[r] = "insert" /\ Blocking(r) = {} /\ Duplicates(r) # {}
    /\ Goto(r, "select")
    /\ UNCHANGED <<request, file, tables>>

\* The audit row goes in the same transaction.
Commit(r) ==
    /\ pc[r] = "commit"
    /\ pending' = pending \ {RowOf(r)}
    /\ invoices' = invoices \cup {RowOf(r)}
    /\ received' = received \cup {r}
    /\ Goto(r, "refresh")
    /\ UNCHANGED <<request, file>>

Refresh(r) ==
    /\ pc[r] = "refresh" /\ ConnectionFree
    /\ Finish(r, 202, r)
    /\ UNCHANGED <<request, file, tables>>

\* Faulty variant: the handler answers with its own row's id, not the one found.
SelectOwnId(r) ==
    /\ pc[r] = "select" /\ ConnectionFree
    /\ Finish(r, 409, r)
    /\ UNCHANGED <<request, file, tables>>

\* scalar_one() raises unless there is exactly one row.
SelectExisting(r) ==
    /\ pc[r] = "select" /\ ConnectionFree
    /\ LET found == Duplicates(r)
       IN  IF Cardinality(found) = 1
           THEN \E row \in found : Finish(r, 409, row.id)
           ELSE Finish(r, 500, None)
    /\ UNCHANGED <<request, file, tables>>
-----------------------------------------------------------------------------
InDatabase == {"flush", "insert", "commit", "refresh", "select"}

\* Faulty variant: the session is not closed, its transaction stays open.
DatabaseErrorLeak(r) ==
    /\ "database" \in Faults
    /\ pc[r] \in InDatabase
    /\ Finish(r, 500, None)
    /\ UNCHANGED <<request, file, tables>>

\* Any other database error leaves the handler; get_db closes the session.
DatabaseError(r) ==
    /\ "database" \in Faults
    /\ pc[r] \in InDatabase
    /\ pending' = pending \ {RowOf(r)}
    /\ Finish(r, 500, None)
    /\ UNCHANGED <<request, file, invoices, received>>

\* The connections drop: no answer, and the server rolls back what was open.
Crash ==
    /\ "crash" \in Faults
    /\ \E r \in Requests : pc[r] \notin {"idle", "done"}
    /\ LET open(r) == pc[r] \notin {"idle", "done"}
       IN  /\ pc' = [r \in Requests |-> IF open(r) THEN "done" ELSE pc[r]]
           /\ answer' = [r \in Requests |->
                            IF open(r) THEN Respond(500, None) ELSE answer[r]]
    /\ pending' = {}
    /\ UNCHANGED <<request, file, invoices, received>>

Step(r) ==
    \/ Refuse(r) \/ WriteFile(r) \/ Connect(r) \/ Flush(r) \/ FlushFails(r)
    \/ Commit(r) \/ Refresh(r) \/ SelectExisting(r)

Next ==
    \/ \E r \in Requests, req \in Inputs : Submit(r, req)
    \/ \E r \in Requests : Step(r) \/ TornWrite(r) \/ DatabaseError(r)
    \/ Crash

Spec == Init /\ [][Next]_vars

\* The event loop runs every handler it has started.
FairSpec == Spec /\ \A r \in Requests : WF_vars(Step(r))
=============================================================================
