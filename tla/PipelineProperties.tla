------------------------- MODULE PipelineProperties -------------------------
(***************************************************************************)
(* What the pipeline promises, about the definitions of module Pipeline.   *)
(***************************************************************************)
EXTENDS Pipeline

TypeOK ==
    /\ row \in [Invoices -> InvoiceRow(Threads, Refs, Data)]
    /\ audit \in [Invoices -> Seq(InvoiceAuditLog)]
    /\ ckpt \in [Threads -> Checkpoint]
    /\ issued \in [Invoices -> SUBSET Refs]
    /\ pc \in [Procs -> JobPC \cup ClickPC]
    /\ \A j \in Jobs : pc[j] \in JobPC
    /\ \A c \in Clicks : pc[c] \in ClickPC
    /\ inv \in [Procs -> Invoices \cup {None}]
    /\ try \in [Jobs -> 1..MaxTries]
    /\ act \in [Clicks -> HumanActions \cup {None}]
    /\ seen \in [Procs -> InvoiceRow(Threads, Refs, Data)]
    /\ run \in [Procs -> Checkpoint]
-----------------------------------------------------------------------------
\* The invoices somebody has pressed Approve for.
Approved ==
    {i \in Invoices : \E c \in Clicks : inv[c] = i /\ act[c] = "approve"}

(***************************************************************************)
(* Nothing is paid that neither the policy nor a person let through: a run *)
(* in front of execute_node is for an extracted invoice which either       *)
(* passes the risk rules or for which Approve was pressed, whatever thread *)
(* the press resumed, whatever was resumed before and whatever failed.     *)
(***************************************************************************)
PaymentIsAuthorised ==
    \A p \in Procs : run[p].next = "execute" =>
        /\ run[p].st.inv = inv[p]
        /\ run[p].st.data # None
        /\ \/ RiskDecision(run[p].st.data) = "auto_approve"
           \/ inv[p] \in Approved

(***************************************************************************)
(* A callback can only ever reach its own invoice's graph: the thread a    *)
(* row points to, and the thread in the snapshot a callback or a worker    *)
(* works from, belong to that invoice.                                     *)
(***************************************************************************)
ThreadIsOwn ==
    /\ \A i \in Invoices : row[i].thread # None =>
            ckpt[row[i].thread].st.inv = i
    /\ \A p \in Procs : seen[p].thread # None =>
            ckpt[seen[p].thread].st.inv = inv[p]

(***************************************************************************)
(* Every payment reference that is stored anywhere, in the row, in a       *)
(* checkpoint or in a run under way, is one that execute_node made for     *)
(* that very invoice; and a row that says paid shows one.                  *)
(***************************************************************************)
ReferencesAreIssued ==
    /\ \A i \in Invoices :
            /\ row[i].ref # None => row[i].ref \in issued[i]
            /\ row[i].status = "paid" => row[i].ref # None
    /\ \A t \in Threads : ckpt[t].st.ref # None =>
            ckpt[t].st.ref \in issued[ckpt[t].st.inv]
    /\ \A p \in Procs : run[p].st.ref # None =>
            run[p].st.ref \in issued[run[p].st.inv]

(***************************************************************************)
(* An invoice that waits for a person can be resumed: its row points to a  *)
(* thread that is paused in front of human_approval or that some press has *)
(* resumed already.  This relates what the worker committed in one session *)
(* to what the checkpointer saved during another call.  It takes one job   *)
(* per invoice: a job that has loaded dead_lettered assigns it again while *)
(* another commits pending_review, so that only its thread, a finished     *)
(* one, is written over that of the waiting run.                           *)
(***************************************************************************)
ReviewIsResumable ==
    \A i \in Invoices : row[i].status = "pending_review" =>
        /\ row[i].thread # None
        /\ \/ ckpt[row[i].thread].next = "human_approval"
           \/ ckpt[row[i].thread].st.human # None

(***************************************************************************)
(* The status of a row never changes without exactly one new audit entry,  *)
(* in the same commit, that names the new status; entries already written  *)
(* are never touched.                                                      *)
(***************************************************************************)
StatusChangesAreAudited ==
    [][\A i \in Invoices :
          /\ Len(audit'[i]) \in {Len(audit[i]), Len(audit[i]) + 1}
          /\ SubSeq(audit'[i], 1, Len(audit[i])) = audit[i]
          /\ row'[i].status # row[i].status =>
                /\ Len(audit'[i]) = Len(audit[i]) + 1
                /\ audit'[i][Len(audit'[i])].to = row'[i].status]_vars
-----------------------------------------------------------------------------
(***************************************************************************)
(* "Never creating a duplicate payment": at most one reference is ever     *)
(* made for an invoice, whatever crashes and however often the buttons are *)
(* pressed.                                                                *)
(***************************************************************************)
SinglePayment == \A i \in Invoices : Cardinality(issued[i]) <= 1

(***************************************************************************)
(* A payment is never forgotten: each reference ever made is in a thread   *)
(* of its invoice for good.  That is the only record of a payment made in  *)
(* a run that a press resumed (slack_actions writes no payment_reference), *)
(* and what keeps execute_node from paying again on the next press.        *)
(***************************************************************************)
PaymentIsRemembered ==
    \A i \in Invoices : \A ref \in issued[i] :
        \E t \in Threads : ckpt[t].st.inv = i /\ ckpt[t].st.ref = ref

(***************************************************************************)
(* Worker and callback never have sessions on one row at the same time,    *)
(* from a SELECT to its COMMIT (of a press: over the whole graph run).  So *)
(* no session commits values read before another's commit, and created_at, *)
(* the start of the transaction, by which the audit endpoint sorts, gives  *)
(* the order of the commits.                                               *)
(***************************************************************************)
InSession(p) ==
    pc[p] \in IF p \in Jobs THEN {"claim", "saving", "failing"}
             ELSE {"open", "graph", "returned"}

SessionsDoNotOverlap ==
    \A p, q \in Procs : p # q /\ inv[p] = inv[q] => ~(InSession(p) /\ InSession(q))

Lifecycle == INSTANCE InvoiceLifecycle WITH
    References <- Refs,
    status <- [i \in Invoices |-> row[i].status],
    reference <- [i \in Invoices |-> row[i].ref]

(***************************************************************************)
(* Worker and callback together implement the life of an invoice: while    *)
(* the environment keeps its promises, no stale session, retry or late     *)
(* press takes a row along an edge the lifecycle does not have.            *)
(***************************************************************************)
FollowsLifecycle == Lifecycle!LSpec

(***************************************************************************)
(* The audit trail ends in the status the row has, also where the failure  *)
(* handler overwrites what was committed since its job's claim: no UPDATE  *)
(* leaves out the status its entry names because the session had loaded    *)
(* that status already.  It takes presses in review: a second press with   *)
(* the first one's answer in its snapshot adds an entry and no status.     *)
(***************************************************************************)
AuditEndsInStatus ==
    \A i \in Invoices : audit[i] # <<>> =>
        audit[i][Len(audit[i])].to = row[i].status

(***************************************************************************)
(* The row tells the story of one run: the reference it shows is the one   *)
(* its thread ended with, so a later press finds the payment and does not  *)
(* repeat it.                                                              *)
(***************************************************************************)
RowTellsItsThread ==
    \A i \in Invoices : row[i].ref # None =>
        /\ row[i].thread # None
        /\ ckpt[row[i].thread].st.ref = row[i].ref

(***************************************************************************)
(* A recorded payment stays recorded: once the row shows a reference, it   *)
(* keeps it, and only a person's press can move it out of paid.  No        *)
(* redelivered job, late save or failure handler takes it up again, unless *)
(* the save that recorded it never learned that its COMMIT took effect.    *)
(***************************************************************************)
PaymentIsKept ==
    [][\A i \in Invoices : row[i].ref # None =>
          /\ row'[i].ref = row[i].ref
          /\ row'[i].status \in {"paid", "approved", "rejected"}]_vars
-----------------------------------------------------------------------------
(***************************************************************************)
(* A row that says extracting has a job that will still write where it     *)
(* went, in its second session or in the except clause: a checkpointer     *)
(* that fails at any node leaves no invoice in a status that the guard     *)
(* never lets through again.                                               *)
(***************************************************************************)
\* A job between its claim and its last commit.
Working == {"setup", "graph", "returned", "saving", "fail", "failing"}

ExtractingHasAWorker ==
    \A i \in Invoices : row[i].status = "extracting" =>
        \E j \in Jobs : inv[j] = i /\ pc[j] \in Working

\* An invoice does not stay in extracting: whatever the graph and the
\* checkpointer do, process_invoice writes where it went.
ExtractionEnds ==
    \A i \in Invoices :
        row[i].status = "extracting" ~> row[i].status # "extracting"

\* Every job that was enqueued ends, with all its tries.
JobsEnd == \A j \in Jobs : pc[j] = "queued" ~> pc[j] = "done"

\* Every press of a button is answered.
ClicksEnd == \A c \in Clicks : pc[c] = "open" ~> pc[c] = "done"
-----------------------------------------------------------------------------
(***************************************************************************)
(* What the documentation says and the code does not do.                   *)
(***************************************************************************)
\* app/worker.py, "Already being processed or completed - idempotent guard":
\* one job at a time works on an invoice.
ClaimIsExclusive ==
    \A j, k \in Jobs :
        /\ j # k
        /\ inv[j] = inv[k]
        /\ pc[j] \in {"setup", "graph", "returned"}
        => pc[k] \notin {"setup", "graph", "returned"}

\* app/api/slack.py, "by the time ainvoke returns, the invoice has been paid
\* (or dead-lettered)": behind an approval is a payment or a finished graph.
ApprovedIsPaid ==
    \A i \in Invoices : row[i].status = "approved" =>
        \/ issued[i] # {}
        \/ row[i].thread # None /\ ckpt[row[i].thread].next = END

\* app/worker.py, "A dead-letter mechanism (max_tries exceeded -> dead_letter
\* status)".
ExhaustedIsDeadLettered ==
    \A j \in Jobs, i \in Invoices :
        (pc[j] = "raised" /\ try[j] = MaxTries /\ inv[j] = i)
            ~> row[i].status = "dead_lettered"
=============================================================================
