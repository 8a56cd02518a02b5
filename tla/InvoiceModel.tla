---------------------------- MODULE InvoiceModel ----------------------------
(***************************************************************************)
(* The database model of the pipeline (app/models/invoice.py): the values  *)
(* of the two enums, the rows of `invoices' that later steps read back,    *)
(* and the rows of the append-only table `invoice_audit_logs'.             *)
(*                                                                         *)
(* Columns no code of the pipeline ever writes after the insert (decision, *)
(* decision_reasons, amount_paid, slack_message_ts) are left out.          *)
(***************************************************************************)
EXTENDS Sequences

CONSTANT None   \* SQL NULL and Python None

InvoiceStatus ==
    {"received", "extracting", "extracted", "deciding", "auto_approved",
     "pending_review", "approved", "rejected", "executing", "paid",
     "failed", "dead_lettered"}

DecisionOutcome == {"auto_approve", "needs_review", "reject"}

AuditEvent ==
    {"invoice_received", "extraction_started", "payment_executed",
     "sent_for_review", "dead_lettered", "processing_failed",
     "human_approve", "human_reject"}

\* One row of the `invoices' table; status None stands for "no such row".
InvoiceRow(Threads, Refs, Data) ==
    [status : InvoiceStatus \cup {None},
     thread : Threads \cup {None},
     ref    : Refs \cup {None},
     data   : Data \cup {None}]

NoRow == [status |-> None, thread |-> None, ref |-> None, data |-> None]

\* One row of `invoice_audit_logs'.
InvoiceAuditLog ==
    [from : InvoiceStatus \cup {None}, to : InvoiceStatus, event : AuditEvent]

\* Faulty variant: the two statuses swapped.
AuditEntrySwapped(from, to, event) == [from |-> to, to |-> from, event |-> event]

AuditEntry(from, to, event) == [from |-> from, to |-> to, event |-> event]

(***************************************************************************)
(* The ORM's unit of work: a column is in the UPDATE only when the value   *)
(* assigned differs from the one the session loaded.  So assigning the     *)
(* loaded value again leaves whatever another transaction committed since. *)
(***************************************************************************)
Flushed(stored, loaded, assigned) ==
    IF assigned = loaded THEN stored ELSE assigned

FlushedRow(stored, loaded, assigned) ==
    [status |-> Flushed(stored.status, loaded.status, assigned.status),
     thread |-> Flushed(stored.thread, loaded.thread, assigned.thread),
     ref    |-> Flushed(stored.ref, loaded.ref, assigned.ref),
     data   |-> Flushed(stored.data, loaded.data, assigned.data)]
=============================================================================
