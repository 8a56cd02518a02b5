------------------------------ MODULE Pipeline ------------------------------
(***************************************************************************)
(* The processing pipeline: the arq worker (app/worker.py) and the Slack   *)
(* callback (app/api/slack.py) run the graph of module GraphNodes over the *)
(* same rows of `invoices' and the same checkpointed threads.              *)
(*                                                                         *)
(* A process is a job (one arq job, with its redeliveries) or a click (one *)
(* POST /slack/actions).  A session's SELECT and its COMMIT are two steps, *)
(* and so is every node of the graph: that is where the code awaits.       *)
(***************************************************************************)
EXTENDS GraphNodes, FiniteSets

CONSTANTS
    Jobs,         \* arq jobs, each of them for one invoice
    Clicks,       \* presses of an Approve or Reject button
    MaxTries,     \* WorkerSettings.max_tries
    Faults,       \* what may go wrong, of FaultKinds
    Discipline,   \* what the environment promises, of Promises
    ResumeAt      \* where ainvoke(dict) may enter a thread paused for a human

(***************************************************************************)
(* "crash": the worker or the API process stops between two steps, or the  *)
(*     job is cancelled by job_timeout: CancelledError is not an Exception.*)
(* "half_step": it stops when a node has run and its checkpoint is not     *)
(*     saved.                                                              *)
(* "exception": a step raises an Exception.                                *)
(* "checkpoint": the checkpointer fails after a node has run.              *)
(* "lost_answer": a COMMIT takes effect, but its answer does not arrive    *)
(*     and db.commit() raises.                                             *)
(***************************************************************************)
FaultKinds == {"crash", "half_step", "exception", "checkpoint", "lost_answer"}

(***************************************************************************)
(* What a configuration may promise of the callers; {} promises nothing.   *)
(* "one_job": an invoice is enqueued once.  "serial_clicks": a press is    *)
(* answered before the next one.  "click_in_review": buttons are pressed   *)
(* only while the row says pending_review.                                 *)
(***************************************************************************)
Promises == {"one_job", "serial_clicks", "click_in_review"}

Threads == Jobs \X (1..MaxTries)   \* every try makes a thread of its own
Refs == Threads \cup Clicks        \* an invocation makes at most one reference
Procs == Jobs \cup Clicks

ASSUME PipelineAssumption ==
    /\ Jobs \cap Clicks = {}
    /\ Clicks \cap Threads = {}
    /\ None \notin Procs \cup Refs
    /\ MaxTries \in Nat \ {0}
    /\ Faults \subseteq FaultKinds
    /\ Discipline \subseteq Promises
    /\ ResumeAt \subseteq {"extract", "human_approval"} /\ ResumeAt # {}

VARIABLES
    row,      \* the table invoices
    audit,    \* the table invoice_audit_logs, per invoice in commit order
    ckpt,     \* the checkpointer's last checkpoint of each thread
    issued,   \* history: the payment references made for each invoice
    pc,       \* where each process is
    inv,      \* the invoice each process works on
    try,      \* ctx["job_try"] of each job
    act,      \* the button of each click
    seen,     \* the row as the process's open session loaded it
    run       \* the graph as the process's ainvoke holds it

vars == <<row, audit, ckpt, issued, pc, inv, try, act, seen, run>>
db == <<row, audit>>
task == <<inv, try, act>>

\* A checkpoint: the state and the node to run next.  `asked' says that the
\* interrupt() inside human_approval_node has suspended the run before.
Checkpoint == [st : InvoiceState(Refs), next : Nodes \cup {END}, asked : BOOLEAN]
Fresh == [st |-> EmptyState, next |-> "extract", asked |-> FALSE]

JobPC == {"idle", "queued", "claim", "setup", "graph", "returned", "saving",
          "fail", "failing", "raised", "done"}
ClickPC == {"idle", "open", "graph", "returned", "done"}
Stopped == {"idle", "raised", "done"}
GuardedByTry == {"setup", "graph", "returned", "saving"}

Init ==
    /\ row = [i \in Invoices |-> NoRow]
    /\ audit = [i \in Invoices |-> <<>>]
    /\ ckpt = [t \in Threads |-> Fresh]
    /\ issued = [i \in Invoices |-> {}]
    /\ pc = [p \in Procs |-> "idle"]
    /\ inv = [p \in Procs |-> None]
    /\ try = [j \in Jobs |-> 1]
    /\ act = [c \in Clicks |-> None]
    /\ seen = [p \in Procs |-> NoRow]
    /\ run = [p \in Procs |-> Fresh]
-----------------------------------------------------------------------------
\* The process goes to `to' and drops its session and its graph.
Leave(p, to) ==
    /\ pc' = [pc EXCEPT ![p] = to]
    /\ seen' = [seen EXCEPT ![p] = NoRow]
    /\ run' = [run EXCEPT ![p] = Fresh]

Load(p, i, to) ==
    /\ pc' = [pc EXCEPT ![p] = to]
    /\ seen' = [seen EXCEPT ![p] = row[i]]

Commit(i, loaded, assigned, entries) ==
    /\ row' = [row EXCEPT ![i] = FlushedRow(row[i], loaded, assigned)]
    /\ audit' = [audit EXCEPT ![i] = audit[i] \o entries]

\* Faulty variant: process_invoice without its except clause.
AfterExceptionUnhandled(p) == IF p \in Clicks THEN "done" ELSE "raised"

\* Faulty variant: the handler runs the graph again, uncounted.
AfterExceptionRunsAgain(p) ==
    IF p \in Clicks THEN "done"
    ELSE IF pc[p] \in GuardedByTry THEN "setup"
    ELSE "raised"

\* Where an Exception takes the process: 500 for a click; for a job the
\* handler that marks the row FAILED, or out of process_invoice.
AfterException(p) ==
    IF p \in Clicks THEN "done"
    ELSE IF pc[p] \in GuardedByTry THEN "fail"
    ELSE "raised"

\* Where a crash takes it: no answer for a click; a job is left to arq.
AfterCrash(p) == IF p \in Clicks THEN "done" ELSE "raised"

\* Where a COMMIT that has taken effect leaves a process on its way to `to'.
AfterCommit(p, to) ==
    {next \in {to, AfterCrash(p), AfterException(p)} :
        \/ next = to
        \/ next = AfterCrash(p) /\ "crash" \in Faults
        \/ next = AfterException(p) /\ "lost_answer" \in Faults}
-----------------------------------------------------------------------------
\* ingest_invoice commits the row and its first audit entry (see Ingestion).
Receive(i) ==
    /\ row[i] = NoRow
    /\ row' = [row EXCEPT ![i].status = "received"]
    /\ audit' = [audit EXCEPT ![i] = audit[i] \o
                    <<AuditEntry(None, "received", "invoice_received")>>]
    /\ UNCHANGED <<ckpt, issued, pc, task, seen, run>>

\* External: somebody enqueues process_invoice(i).  No code under app/ does.
Enqueue(j, i) ==
    /\ pc[j] = "idle"
    /\ "one_job" \in Discipline => \A k \in Jobs : inv[k] # i
    /\ pc' = [pc EXCEPT ![j] = "queued"]
    /\ inv' = [inv EXCEPT ![j] = i]
    /\ UNCHANGED <<db, ckpt, issued, try, act, seen, run>>

\* Faulty variant: the guard keeps out only jobs under way.
MayClaimFinished(r) == r.status \notin {None, "extracting"}

MayClaim(r) == r.status \in {"received", "failed"}

\* The first session's SELECT: not found and skipped return at once.
ClaimRead(j) ==
    /\ pc[j] = "queued"
    /\ IF MayClaim(row[inv[j]])
       THEN Load(j, inv[j], "claim") /\ UNCHANGED run
       ELSE Leave(j, "done")
    /\ UNCHANGED <<db, ckpt, issued, task>>

\* The first session's COMMIT.  The UPDATE does not look at the status again.
Claim(j) ==
    /\ pc[j] = "claim"
    /\ Commit(inv[j], seen[j], [seen[j] EXCEPT !.status = "extracting"],
              <<AuditEntry("received", "extracting", "extraction_started")>>)
    /\ \E to \in AfterCommit(j, "setup") : Leave(j, to)
    /\ UNCHANGED <<ckpt, issued, task>>
-----------------------------------------------------------------------------
\* Faulty variant: the thread id names the try only, not the job.
ThreadOfTry(p) ==
    IF p \in Jobs THEN <<CHOOSE j \in Jobs : TRUE, try[p]>> ELSE seen[p].thread

ThreadOf(p) == IF p \in Jobs THEN <<p, try[p]>> ELSE seen[p].thread
NewRef(p) == IF p \in Jobs THEN <<p, try[p]>> ELSE p

\* External: the checkpointer's put.  Under a thread_id of None it stores
\* nothing that could be read back.
SaveCheckpoint(p, cp) ==
    ckpt' = IF ThreadOf(p) = None THEN ckpt
            ELSE [ckpt EXCEPT ![ThreadOf(p)] = cp]

(***************************************************************************)
(* One superstep ends: its checkpoint is saved and ainvoke goes on or      *)
(* returns; or the checkpointer raises and the exception leaves ainvoke;   *)
(* or the process stops.  A lost step has had its effect all the same.     *)
(* Without a thread_id the checkpointer has no key to save under: it       *)
(* raises, at once or after some more of the steps, which it saves in the  *)
(* background.                                                             *)
(***************************************************************************)
AfterLostStep(p) ==
    {to \in {AfterException(p), AfterCrash(p)} :
        \/ to = AfterException(p) /\ ("checkpoint" \in Faults \/ ThreadOf(p) = None)
        \/ to = AfterCrash(p) /\ "half_step" \in Faults}

Advance(p, cp, to) ==
    /\ \/ /\ SaveCheckpoint(p, cp)
          /\ run' = [run EXCEPT ![p] = cp]
          /\ pc' = [pc EXCEPT ![p] = to]
          /\ UNCHANGED seen
       \/ /\ \E lost \in AfterLostStep(p) : Leave(p, lost)
          /\ UNCHANGED ckpt
    /\ UNCHANGED <<db, task>>

StepTo(p, st, next) ==
    Advance(p, [st |-> st, next |-> next, asked |-> FALSE],
            IF next \in InterruptBefore \cup {END} THEN "returned" ELSE "graph")

\* get_graph_with_checkpointer, the thread id and ainvoke's input.
StartGraph(j) ==
    /\ pc[j] = "setup"
    /\ StepTo(j, [EmptyState EXCEPT !.inv = inv[j]], "extract")
    /\ UNCHANGED issued

At(p, node) == pc[p] = "graph" /\ run[p].next = node

Extract(p) ==
    /\ At(p, "extract")
    /\ \E st \in ExtractNode(run[p].st) : StepTo(p, st, RouteAfterExtract(st))
    /\ UNCHANGED issued

Decide(p) ==
    /\ At(p, "decide")
    /\ LET st == DecideNode(run[p].st)
       IN  StepTo(p, st, RouteAfterDecide(st))
    /\ UNCHANGED issued

Notify(p) ==
    /\ At(p, "notify")
    /\ \E st \in NotifyNode(run[p].st) : StepTo(p, st, "human_approval")
    /\ UNCHANGED issued

(***************************************************************************)
(* interrupt() suspends the run: it would return the human's action only   *)
(* to a Command(resume), which no caller passes.  The model lets a pass    *)
(* after a suspended one return all the same, which is more than happens.  *)
(***************************************************************************)
HumanApproval(p) ==
    /\ At(p, "human_approval")
    /\ \/ Advance(p, [run[p] EXCEPT !.asked = TRUE], "returned")
       \/ run[p].asked /\ StepTo(p, run[p].st, RouteAfterHuman(run[p].st))
    /\ UNCHANGED issued

Execute(p) ==
    /\ At(p, "execute")
    /\ LET st == ExecuteNode(run[p].st, NewRef(p))
       IN  /\ issued' = [issued EXCEPT ![st.inv] = issued[st.inv] \cup {st.ref}]
           /\ StepTo(p, st, END)

DeadLetter(p) ==
    /\ At(p, "dead_letter")
    /\ StepTo(p, run[p].st, END)
    /\ UNCHANGED issued
-----------------------------------------------------------------------------
\* Faulty variant: the thread id is never written to the row.
OutcomeWithoutThread(loaded, st, thread) ==
    [status |-> IF st.ref # None THEN "paid"
                ELSE IF st.decision = "needs_review" THEN "pending_review"
                ELSE "dead_lettered",
     thread |-> loaded.thread, ref |-> st.ref, data |-> st.data]

\* Faulty variant: whatever was not sent to a review counts as paid.
OutcomePaidByDefault(loaded, st, thread) ==
    [status |-> IF st.ref = None /\ st.decision = "needs_review"
                THEN "pending_review" ELSE "paid",
     thread |-> thread, ref |-> st.ref, data |-> st.data]

\* The worker's second session: what it writes, from the row it loads.
Outcome(loaded, st, thread) ==
    [status |-> IF st.ref # None THEN "paid"
                ELSE IF st.decision = "needs_review" THEN "pending_review"
                ELSE IF st.decision = "reject" \/ Truthy(st.error)
                     THEN "dead_lettered"
                ELSE "auto_approved",
     thread |-> thread,
     ref    |-> IF st.ref # None THEN st.ref ELSE loaded.ref,
     data   |-> IF st.data # None THEN st.data ELSE loaded.data]

\* Faulty variant: only the outcomes a person sees are audited.
SaveAuditIncomplete(status) ==
    CASE status = "paid" ->
            <<AuditEntry("executing", "paid", "payment_executed")>>
      [] status = "pending_review" ->
            <<AuditEntry("deciding", "pending_review", "sent_for_review")>>
      [] OTHER -> <<>>

SaveAudit(status) ==
    CASE status = "paid" ->
            <<AuditEntry("executing", "paid", "payment_executed")>>
      [] status = "pending_review" ->
            <<AuditEntry("deciding", "pending_review", "sent_for_review")>>
      [] status = "dead_lettered" ->
            <<AuditEntry("dead_lettered", "dead_lettered", "dead_lettered")>>
      [] OTHER -> <<>>

SaveRead(j) ==
    /\ j \in Jobs /\ pc[j] = "returned"
    /\ Load(j, inv[j], "saving")
    /\ UNCHANGED <<db, ckpt, issued, task, run>>

\* Faulty variant: the status is committed first, the rest after it.
SaveInTwoCommits(j) ==
    /\ pc[j] = "saving"
    /\ LET new == Outcome(seen[j], run[j].st, ThreadOf(j))
           first == [seen[j] EXCEPT !.status = new.status]
       IN  IF seen[j] # first
           THEN /\ Commit(inv[j], seen[j], first, SaveAudit(new.status))
                /\ seen' = [seen EXCEPT ![j] = first]
                /\ UNCHANGED <<pc, run>>
           ELSE Commit(inv[j], seen[j], new, <<>>) /\ Leave(j, "done")
    /\ UNCHANGED <<ckpt, issued, task>>

\* The COMMIT is still in the try: when its answer is lost, the except clause
\* takes over.  A crash right after it leaves the job unacknowledged.
Save(j) ==
    /\ pc[j] = "saving"
    /\ LET new == Outcome(seen[j], run[j].st, ThreadOf(j))
       IN  Commit(inv[j], seen[j], new, SaveAudit(new.status))
    /\ \E to \in AfterCommit(j, "done") : Leave(j, to)
    /\ UNCHANGED <<ckpt, issued, task>>

FailRead(j) ==
    /\ pc[j] = "fail"
    /\ Load(j, inv[j], "failing")
    /\ UNCHANGED <<db, ckpt, issued, task, run>>

\* The handler raises again, with or without its COMMIT's answer.
Fail(j) ==
    /\ pc[j] = "failing"
    /\ Commit(inv[j], seen[j], [seen[j] EXCEPT !.status = "failed"],
              <<AuditEntry("failed", "failed", "processing_failed")>>)
    /\ Leave(j, "raised")
    /\ UNCHANGED <<ckpt, issued, task>>

\* Faulty variant: one try too many.
RetryOnceTooOften(j) ==
    /\ pc[j] = "raised" /\ try[j] <= MaxTries
    /\ try' = [try EXCEPT ![j] = try[j] + 1]
    /\ pc' = [pc EXCEPT ![j] = "queued"]
    /\ UNCHANGED <<db, ckpt, issued, inv, act, seen, run>>

\* External: arq runs the job again, or does not.
Retry(j) ==
    /\ pc[j] = "raised" /\ try[j] < MaxTries
    /\ try' = [try EXCEPT ![j] = try[j] + 1]
    /\ pc' = [pc EXCEPT ![j] = "queued"]
    /\ UNCHANGED <<db, ckpt, issued, inv, act, seen, run>>

GiveUp(j) ==
    /\ pc[j] = "raised"
    /\ pc' = [pc EXCEPT ![j] = "done"]
    /\ UNCHANGED <<db, ckpt, issued, task, seen, run>>
-----------------------------------------------------------------------------
ClickAllowed(i) ==
    /\ "serial_clicks" \in Discipline =>
            \A c \in Clicks : pc[c] \in {"idle", "done"}
    /\ "click_in_review" \in Discipline => row[i].status = "pending_review"

\* slack_actions up to its SELECT; an unknown invoice is answered at once.
ClickRead(c, i, a) ==
    /\ pc[c] = "idle" /\ ClickAllowed(i)
    /\ inv' = [inv EXCEPT ![c] = i]
    /\ act' = [act EXCEPT ![c] = a]
    /\ Load(c, i, IF row[i] = NoRow THEN "done" ELSE "open")
    /\ UNCHANGED <<db, ckpt, issued, try, run>>

\* Faulty variant: the input replaces what the thread remembers of a payment.
ResumeInputForgetful(saved, action) ==
    [saved.st EXCEPT !.human = action, !.ref = None]

\* ainvoke merges its input into the state the checkpoint holds.
ResumeInput(saved, action) == [saved.st EXCEPT !.human = action]

(***************************************************************************)
(* ainvoke(dict) on the thread the SELECT returned.  The library takes a   *)
(* dict for new input and starts at the first node, ResumeAt = {"extract"};*)
(* the code expects a thread paused in front of human_approval to go on    *)
(* there.  Runs with both entries cover either.                            *)
(***************************************************************************)
Resume(c) ==
    /\ pc[c] = "open"
    /\ LET saved == IF seen[c].thread = None THEN Fresh ELSE ckpt[seen[c].thread]
           paused == saved.next = "human_approval"
           st == ResumeInput(saved, act[c])
       IN  \E entry \in IF paused THEN ResumeAt ELSE {"extract"} :
              Advance(c, [st |-> st, next |-> entry,
                          asked |-> saved.asked /\ entry = "human_approval"],
                      "graph")
    /\ UNCHANGED issued

StatusAfterClick(a) == IF a = "approve" THEN "approved" ELSE "rejected"

\* The status comes from the button, `from' from the SELECT before ainvoke.
ClickCommit(c) ==
    /\ c \in Clicks /\ pc[c] = "returned"
    /\ LET to == StatusAfterClick(act[c])
           event == IF act[c] = "approve" THEN "human_approve" ELSE "human_reject"
       IN  Commit(inv[c], seen[c], [seen[c] EXCEPT !.status = to],
                  <<AuditEntry(seen[c].status, to, event)>>)
    /\ Leave(c, "done")
    /\ UNCHANGED <<ckpt, issued, task>>
-----------------------------------------------------------------------------
StepRaises(p) ==
    /\ "exception" \in Faults
    /\ pc[p] \notin Stopped
    /\ Leave(p, AfterException(p))
    /\ UNCHANGED <<db, ckpt, issued, task>>

Crash(p) ==
    /\ "crash" \in Faults
    /\ pc[p] \notin Stopped
    /\ Leave(p, AfterCrash(p))
    /\ UNCHANGED <<db, ckpt, issued, task>>

\* The steps of the program once it has been called.
GraphStep(p) ==
    \/ Extract(p) \/ Decide(p) \/ Notify(p)
    \/ HumanApproval(p) \/ Execute(p) \/ DeadLetter(p)

JobStep(j) ==
    \/ ClaimRead(j) \/ Claim(j) \/ StartGraph(j)
    \/ SaveRead(j) \/ Save(j) \/ FailRead(j) \/ Fail(j)

ClickStep(c) == Resume(c) \/ ClickCommit(c)

Environment ==
    \/ \E i \in Invoices : Receive(i)
    \/ \E j \in Jobs, i \in Invoices : Enqueue(j, i)
    \/ \E j \in Jobs : Retry(j) \/ GiveUp(j)
    \/ \E c \in Clicks, i \in Invoices, a \in HumanActions : ClickRead(c, i, a)
    \/ \E p \in Procs : StepRaises(p) \/ Crash(p)

Next ==
    \/ Environment
    \/ \E p \in Procs : GraphStep(p)
    \/ \E j \in Jobs : JobStep(j)
    \/ \E c \in Clicks : ClickStep(c)

Spec == Init /\ [][Next]_vars

(***************************************************************************)
(* The event loops of the worker and of the API run what they have         *)
(* started, and arq ends or reruns a job that has raised.  Nobody has to   *)
(* upload, to enqueue or to press a button, and no fault has to happen.    *)
(***************************************************************************)
Fairness ==
    /\ \A p \in Procs : WF_vars(GraphStep(p))
    /\ \A j \in Jobs : WF_vars(JobStep(j)) /\ WF_vars(Retry(j) \/ GiveUp(j))
    /\ \A c \in Clicks : WF_vars(ClickStep(c))

FairSpec == Spec /\ Fairness
=============================================================================
