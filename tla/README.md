# A verification development for the invoice automation pipeline

TLA+ models of the pipeline under `app/`, the TLC runs that check them, and
TLAPS proofs about them. Paths such as `app/worker.py:52` are relative to the
repository's root (`src/` in `PROJECT.json`).

## 1. The system

An invoice is uploaded (or arrives at the email webhook), is stored and booked
once per content, is worked on by an arq job that runs a LangGraph graph
(extract, decide, then pay, or ask a person over Slack), and a Slack callback
resumes the paused graph with the answer.

| Component | State it keeps | Operations | Module |
|---|---|---|---|
| Invoice model (`models/invoice.py`, migration) | `invoices`, `invoice_audit_logs`; unique `content_hash` | rows and enums, the ORM's unit of work | `InvoiceModel`; abstractly `InvoiceLifecycle` |
| Risk policy (`graph/nodes.py`) | none (settings) | `decide_node`'s rules | `RiskPolicy` |
| Graph nodes and routes (`graph/`) | the graph state of one thread | six nodes, three routes, interrupt | `GraphNodes` |
| Worker (`worker.py`) | arq's job and try | `process_invoice`: claim, run, save, fail | `Pipeline` |
| Slack callback (`api/slack.py`) | none of its own | load, resume, commit | `Pipeline` |
| Checkpointer (LangGraph, external) | the last checkpoint per thread | save after a node, load on resume | `Pipeline` |
| Intake (`api/invoices.py`, `services/ingestion.py`) | `UPLOAD_DIR`, open transactions | upload, webhook, `ingest_invoice` | `Ingestion`; abstractly `IdempotentIntake` |
| Engine and sessions (`db/base.py`) | the connection pool | check out, hold, give back | `Ingestion` |
| Slack messages (`services/slack.py`) | none | send a request; update it | outcome only, in `GraphNodes` |
| Extraction (`services/extraction.py`, `schemas/invoice.py`, `core/llm.py`) | the conversation with the model | `extract_invoice` with 3 attempts; the validators | `Extraction`, `InvoiceSchema` |
| Audit service (`services/audit.py`) | none | `transition`, called by nobody | not modelled |
| Shell, settings, tracing | none that changes | wiring | not modelled |

How they interact. Intake, worker and callback share the two tables, each
through sessions of its own that read a row in one step and write it in another.
Worker and callback share the checkpointer; the row's `graph_thread_id` is the
only link between the two. Nothing locks a row, and a node's effect, its
checkpoint and the row are three separate writes.

What is hard here:

- *Interleaving and stale state.* Decisions made on a SELECT are written after an
  await, in the callback after a whole graph run; two jobs, two presses, or a job
  and a press can overlap.
- *Crashes, cancelled jobs, retries.* Each try has a new thread; what the last one
  did survives only where it was committed.
- *Partial failure.* A node has run and its checkpoint, or the row, is not written.
- *Protocol sequences.* Presses in any number, before the worker has saved, after
  a rejection, after a payment.
- *Concurrency at the unique index* of the intake, for a bounded pool of
  connections, and files next to rows.
- *A conversation with an unreliable partner.* The model may say anything; each
  retry has to send a history that fits, and every error has to end somewhere.

What makes each component correct:

- pipeline: no payment without consent, one payment, a recorded payment is kept,
  a thread belongs to its invoice, a waiting invoice can be resumed, every change
  of status has its audit entry, work ends;
- extraction: a well-formed conversation, a bounded number of calls, the first
  valid reply and nothing else is returned, its amounts add up, a failure never
  leads to a payment;
- intake: one row per content, a duplicate gets the first row's id, the file is
  there before the row, every request is answered.

`PROJECT.json` lists every hazard at its line with the properties aimed at it.

## 2. The modules

```
InvoiceModel   RiskPolicy   InvoiceSchema
        \       /               |
       GraphNodes ----------- Extraction -- ExtractionProperties -- ExtractionInvariant
           |                                                          |-- MCExtraction
           |                                                          \-- ExtractionProofs
        Pipeline -- PipelineProperties -- PipelineInvariant
                          | INSTANCE           |-- MCPipeline
                    InvoiceLifecycle           \-- PipelineProofs
                                                        |
                                               PipelineAuditProofs
                                                        |
                                                PipelineJobProofs
                                                        |-- PipelineLifecycleProofs
                                                        |-- PipelinePaymentProofs
                                                        \-- PipelineWorkerProofs

 Ingestion -- IngestionProperties -- IngestionInvariant -- MCIngestion
                      | INSTANCE               \---------- IngestionProofs
              IdempotentIntake
```

**InvoiceModel.** Enum values, the columns of a row that later steps read
(`status`, `graph_thread_id` as `thread`, `payment_reference` as `ref`,
`extracted_data` as `data`), the audit rows. `FlushedRow` is the ORM's unit of
work: an UPDATE names only the columns whose value differs from the one that was
loaded, so a session overwrites another one's commit column by column.

**InvoiceLifecycle.** The abstract specification of a row's life: which of the
twelve statuses are ever shown, in which order, and that a reference appears with
`paid` and stays.

**RiskPolicy.** Amounts in mills, thousandths of the currency's unit, because the
extraction does not round the amounts it passes on; a vendor is its stripped lower-case name.
`KNOWN_VENDORS` is empty in the code, so every named vendor is new and only a
blank name escapes that rule.

**GraphNodes.** The graph state reduced to the fields control depends on, and
nodes and routes as operators. Extraction and Slack are sets of outcomes. An
error is `None`, the empty string (`str(e)` of an exception without a message,
which the code takes for no error) or a message.

**InvoiceSchema.** The two Pydantic validators: sums rounded half-even to cents,
compared with a tolerance. A quantity is in tenths, so products have something to
round too.

**Extraction.** One run of `extract_node`. A reply is what the code makes of its
text: an object of the right shape with its amounts, bare or in a code fence, or
one of the forms that fail, each at another line. Replies and errors are known by
the attempt they come from, so that what a message refers to can be compared with
what it should refer to.

| Action | Code |
|---|---|
| `Prepare`, `PrepareFails` | `get_llm_client`, reading and rendering the document |
| `Compose`, `ComposeFails` | the messages of an attempt; `raw_response` unbound on a retry |
| `Accept` | the reply parses and validates and is returned |
| `Reject` | `JSONDecodeError` or `ValidationError`: the next attempt, or the final `ValueError` |
| `Choke` | a reply the `except` clause has no name for: a list, no content, a decimal overflow |
| `Break`, `Refuse` | the call itself raises one of the exceptions that are caught, or any other |

The run shares no state with another, so it is checked on its own, and
`ImplementsExtractNode` says that each of its results is among the outcomes that
`Pipeline` lets `extract_node` have.

**Pipeline.** Worker, callback, arq and checkpointer. A process is a job or a
click; its `pc` is where it awaits.

| Action | Code |
|---|---|
| `Receive` | the commit of `ingest_invoice` |
| `Enqueue` | external; no code under `app/` enqueues a job |
| `ClaimRead`, `Claim` | `process_invoice`'s first session: SELECT and guard; COMMIT |
| `StartGraph` | `thread_id`, `initial_state`, the start of `ainvoke` |
| `Extract`, `Decide`, `Notify`, `HumanApproval`, `Execute`, `DeadLetter` | one node, its outgoing edge, its checkpoint |
| `SaveRead`, `Save` | the second session; its COMMIT is still inside the `try` |
| `FailRead`, `Fail` | the `except` clause |
| `Retry`, `GiveUp` | external: arq reruns a job that raised, or does not |
| `ClickRead`, `Resume`, `ClickCommit` | `slack_actions`: SELECT, `ainvoke`, COMMIT |
| `StepRaises`, `Crash` | an exception at any step that has not taken effect; the process stops or `job_timeout` cancels |

Every node ends in `Advance`, which either saves the checkpoint and goes on, or
loses it after the node has had its effect: under the fault `"checkpoint"` the
checkpointer raises, under `"half_step"` the process stops just there.
A press on a row without a thread has no key to save under: the checkpointer raises,
at once or some steps later. `issued` is a history variable: the references
`execute_node` has generated.

A COMMIT of a claim or a save that took effect ends in `AfterCommit`: the session goes
on, or the process stops (`"crash"`), or `db.commit()` raises because its answer was
lost (`"lost_answer"`). After the save that takes the job into the `except` clause,
which finds its own `paid` or `pending_review` and writes FAILED over it. `Faults`
names what may happen: `"crash"`, `"half_step"`, `"exception"`, `"checkpoint"`,
`"lost_answer"`.

Three behaviours of the libraries are left open on purpose. *Where `ainvoke(dict)`
enters a paused thread* (`ResumeAt`): the code expects `human_approval`
(`slack.py:14-15`), the pinned langgraph 0.2.59 takes a plain dict as new input and
restarts at the first node. The passing runs and the theorems allow both, so what
they show does not depend on the version; the findings that press a button use the
first node only. *What `interrupt()` does the second time*: it suspends again, because
only a `Command(resume=...)` makes it return and nobody passes one. `HumanApproval`
lets a second pass return all the same: the routes behind it are in the code, and
the invariants hold if a later version takes them. No finding uses that. *Whether arq redelivers* a job that raised: the docs of
`worker.py` say so, arq itself reruns cancelled jobs and `Retry`, not every
exception; `Retry` and `GiveUp` are both always possible.

**Ingestion.** Both endpoints down to `ingest_invoice`. The code between two
awaits is one step, because the API is one process with one event loop
(`Dockerfile`, `docker-compose.yml`): `exists()` and `write_bytes()` are not
interleaved. An insert waits while another transaction has inserted the same
hash and not ended (`Blocking`), and fails once that row is committed. A session
takes a connection of the pool (`Connect`) before its first statement and holds
it, also while it waits, until its transaction ends (`Holding`); the SELECT behind
a commit or a rollback needs one again.

**IdempotentIntake.** The abstract specification of the intake: a document is
booked once by one request, and every answer about it names that request.

## 3. What the runs check

`MCPipeline` has two extraction results: one that passes every rule and one that
every rule objects to. `MCExtraction` has objects just inside and just outside
each tolerance, around sums that round down and up from a tie, and one reply of
each other form. Every other parameter is in the `.cfg` files.

| Run | Instance | What it shows |
|---|---|---|
| `pipeline_faults` | 1 job with 2 tries, 2 clicks one after the other at any time, all faults but a lost answer | `ReviewIsResumable`, `RowTellsItsThread`, `StatusChangesAreAudited`, `PaymentIsKept`, `TypeOK` |
| `pipeline_isolation` | 2 invoices, 2 jobs, 2 overlapping clicks at any time | `PaymentIsAuthorised`, `ThreadIsOwn`, `ReferencesAreIssued` |
| `pipeline_serial` | 1 job with 2 tries, 3 clicks one after the other at any time, crashes | `SinglePayment`, `PaymentIsRemembered` |
| `pipeline_live` | 1 job with 2 tries, 3 clicks in review, checkpointer failures, fairness | `FollowsLifecycle`, `SessionsDoNotOverlap`, `AuditEndsInStatus`, `ExtractingHasAWorker`, `ExtractionEnds`, `JobsEnd`, `ClicksEnd` |
| `ingestion` | 3 requests, 2 documents, 2 names, a pool of 2, both endpoints, all faults, fairness | `OneRowPerContent`, `DuplicateIsFound`, `FileBeforeRow`, `NoCircularWait`, `ImplementsIntake`, `RequestsEnd`, `TypeOK` |
| `extraction` | 3 attempts, replies of every form, amounts at every boundary, fairness | `CorrectionsFollowReplies`, `ValidReplyIsReturned`, `AmountsAddUp`, `FailureIsDeadLettered`, `ImplementsExtractNode`, `ExtractionReturns`, `TypeOK` |

*Why the bounds are enough.* The conflicts are between two sessions on a row
(two jobs, or a job and a click), between tries of a job (two), and between
presses on a thread, where three are needed to get past "asked", "answered" and
"answered again" once `ResumeAt` allows both entries. Isolation needs two
invoices. In the intake, three requests are one that inserts, one that waits for
it and one that comes after either outcome, and with two connections for the three
of them the one that waits at the index and the one it waits for can hold the
whole pool (the code has 30). In the extraction, `MAX_RETRIES` is the code's own 3:
the third attempt is the first one whose conversation can hold a stale reply twice.
The bounded quantities are `Jobs`, `Clicks`, `MaxTries`, `Requests` and `PoolSize`;
the code's own bound on tries is 3, which the counterexamples that need it use.

*Promises of the environment* (`Discipline`) are named in the configurations and
are not guaranteed by the code: `one_job`, an invoice is enqueued once;
`serial_clicks`, a press is answered before the next; `click_in_review`, buttons
are pressed only while the row waits. `SinglePayment` holds only with the first
two, and only if nothing raises between `execute_node` and the commit:
`pipeline_serial` has crashes as its only fault, because after a crash the guard
keeps every redelivered try out, while a press that stops between `execute_node`
and its checkpoint (`half_step`) would pay again when it is repeated.
`ReviewIsResumable` needs `one_job`: with three overlapping jobs for one invoice
the first saves `dead_lettered`, the second loads that, the third commits
`pending_review`, and the second then assigns `dead_lettered` to a row it believes
to have it, so that its UPDATE writes only the thread, a finished one, under
`pending_review`. `AuditEndsInStatus` needs `one_job` and `click_in_review`: the unit
of work leaves the status of another session's commit in place when it assigns the
value it loaded, while its audit entry is written all the same. It is checked in
`pipeline_live`, with all three, as are `SessionsDoNotOverlap` and `FollowsLifecycle`.

*The lost answer* is a fault that five properties do not survive. When the answer to the
save's COMMIT is lost, the handler runs on a row that is `paid` or `pending_review`
already and marks it `failed`. `PaymentIsKept` and `FollowsLifecycle` forbid just that;
`RowTellsItsThread` breaks when the retry saves a new thread beside the old
reference, `SessionsDoNotOverlap` when a press arrives before the handler, and
`SinglePayment` when the retry pays (`finding_double_payment`). The passing runs leave
the fault out and the theorems on these properties assume that it does not happen
(`AnswersArrive`); the theorems with every fault include it.

A run has to fix how many promises it makes to stay small; section 4 says under which
of them each property is proved, which is often fewer.

*Fairness.* Weak fairness of each process's own steps: the asyncio loops run what
they have started. Of `Retry \/ GiveUp`: arq ends or reruns a job that raised. In
the intake, of each handler's steps; a step that needs a connection is enabled
whenever one is free, and each request asks at most twice, so weak fairness is
enough although requests compete. Of the extraction's steps: the thread goes on,
and a call to the model ends, if only by the SDK's timeout. Nobody has to upload, enqueue or press a
button, and no fault has to happen. `ExtractionEnds` and `JobsEnd` hold without
crashes only; what a crash does is `finding_stuck`, and a claim whose COMMIT takes effect
and whose answer is lost does the same, because it is not in the `try`.

*Deadlock* is not checked: each run has finitely many calls, and the system stops
when they have ended.

### Where code and documentation disagree

Each has a run that finds the counterexample.

| Run | The documentation | The code |
|---|---|---|
| `finding_double_payment` | `nodes.py:166-168`: the reference in the state prevents double payment on retry | a retry has a new thread with an empty state; the guard lets it run because the handler wrote `failed`, here even over `paid`, after the COMMIT's answer was lost |
| `finding_guard` | `worker.py:53`: "idempotent guard" | two jobs read the status before either commits |
| `finding_approved_unpaid` | `slack.py:14-15`: when `ainvoke` returns, the invoice is paid or dead-lettered | the dict is new input: the run restarts at the first node, the policy asks for a review again, the run stops in front of `human_approval`; `approved` is committed with neither a payment nor a dead letter |
| `finding_stuck` | `worker.py:11`: automatic retries | after a crash in `extracting` the guard skips every retry |
| `finding_not_dead_lettered` | `worker.py:12,159`: dead letter after `max_tries` | nothing calls `dead_letter_invoice` |
| `finding_truncated_file` | `ingestion.py:59-60`: no row without its file | a torn write is taken for the file by the next upload |

Others met while modelling, without a run of their own: a rejection restarts the graph at the
first node when `ainvoke` takes the dict as new input, and a second extraction
that passes the rules is then paid (`nodes.py:212`); `notify_node` formats the
amount with `,.2f`, but `model_dump(mode="json")` made it a string, so with a
Slack token set no message is ever sent and the exception is swallowed
(`SendApprovalRequest`); `from_status` of audit entries does not always equal the
status before (`worker.py:61,104,123`), so the history cannot be replayed from
the entries alone (README.md:52); the upload endpoint enqueues nothing
(README.md:16); `extracted`, `deciding` and
`executing` appear in audit entries at most, no row ever has them; the worker's
last branch, `auto_approved` without an audit entry (`worker.py:129-130`), is never
taken (`OutcomesStayKnown`); a payment made in a resumed run is never written to
the row (`slack.py:117-131`), only its thread knows it (`PaymentIsRemembered`).

In the extraction: a correction says "Your previous response failed validation
with this error" (`extraction.py:77-79`), but when the call itself raised, the
response above it is an older one, or `raw_response` is unbound and the
`UnboundLocalError` ends the extraction at once (`CorrectionsFollowReplies` says
exactly which reply it is); `_extract_json_from_response` lists "explanation text"
among what it handles (`extraction.py:107`) and does not; the prompt's tolerances of
0.05 and 0.02 (`extraction.py:73-74`) really are 0.055 and 0.025, since only one
side is rounded (`AmountsAddUp`); no validator compares the line items with the
subtotal; three pages are rendered and the first is sent. The policy test expects
`auto_approve` for two named vendors (`tests/evals/test_extraction_eval.py:107-185`),
but `KNOWN_VENDORS` is empty and both need a review.

## 4. What is proved

`PipelineProofs` proves, for all sets of invoices, jobs and clicks, any number of
tries, any extraction results, all faults and no promises:

| Theorem | |
|---|---|
| `Invariance` | `Spec => []IInv` |
| `TypeCorrectness` | `Spec => []TypeOK` |
| `PaymentsAreAuthorised` | `Spec => []PaymentIsAuthorised` |
| `ThreadsStayOwn` | `Spec => []ThreadIsOwn` |
| `ReferencesStayIssued` | `Spec => []ReferencesAreIssued` |

`PipelineAuditProofs` builds on it:

| Theorem | |
|---|---|
| `OutcomesStayKnown` | `Spec => []AuditInv` |
| `StatusChangesStayAudited` | `Spec => StatusChangesAreAudited` |

The assumptions are those the modules state (`ThresholdAssumption`,
`GraphAssumption`, `PipelineAssumption`): the kinds of identifiers are disjoint, and
`None` is none of the identifiers, statuses, decisions or actions.

Four modules build on that and prove what needs promises of the environment, or
fewer faults. Each theorem is for any number of invoices, jobs, clicks and tries:

| Theorem | Assuming | |
|---|---|---|
| `OneJobInvariance` | `one_job`, every fault | `Spec => []OneJobInv` |
| `ReviewsStayResumable` | `one_job`, every fault | `Spec => []ReviewIsResumable` |
| `RowsTellTheirThread` | `one_job`, answers arrive | `Spec => []RowTellsItsThread` |
| `PaymentsAreKept` | `one_job`, answers arrive | `Spec => PaymentIsKept` |
| `TrailsEndInStatus` | `one_job`, `click_in_review`, every fault | `Spec => []AuditEndsInStatus` |
| `PaymentInvariance` | `one_job`, `serial_clicks`, crashes only | `Spec => []PaymentInv` |
| `PaymentsAreRemembered` | the same | `Spec => []PaymentIsRemembered` |
| `PaymentIsSingle` | the same | `Spec => []SinglePayment` |
| `ReviewInvariance` | all three promises, answers arrive | `Spec => []ReviewInv` |
| `SessionsStayApart` | the same | `Spec => []SessionsDoNotOverlap` |
| `LifecycleIsImplemented` | the same | `Spec => FollowsLifecycle` (the refinement) |
| `ExtractingRowsHaveAWorker` | checkpointer failures only | `Spec => []ExtractingHasAWorker` |

"Answers arrive" is `AnswersArrive`: no COMMIT that took effect raises. Every other
fault is allowed there.

They go further than the runs. Those of `PipelineJobProofs` allow any number of
presses that overlap each other; the runs have them one after the other.
`ReviewsStayResumable` includes the lost answer, `TrailsEndInStatus` every fault and a
handler that overwrites outcomes and answers, with two promises for three.
Those of `PipelineLifecycleProofs` allow crashes, exceptions and half steps;
`pipeline_live` has checkpointer failures only. `ExtractingRowsHaveAWorker` allows any
number of jobs for one invoice. Section 3 shows what goes wrong without `one_job`
(`ReviewIsResumable`), after a lost answer, with `half_step` (`SinglePayment`) and
without presses in review (`AuditEndsInStatus`); `finding_stuck` is the counterexample
of the last row with crashes.

*The argument.* None of the three properties is inductive: each is about what a
process is about to do, or about a row, and depends on what was saved in a
thread, perhaps by another process a long time ago. `IInv` (module
`PipelineInvariant`) strengthens them:

- `Started`: a process that has been called has its invoice, a click its button;
- `RunsAreOwn`, `ThreadsAreOwn`: a graph state carries the invoice of the job that
  made its thread. A thread `<<j, k>>` is written only by job `j` in try `k` and by
  clicks that read it from the row of `j`'s invoice, so its invoice never changes;
- `CheckpointsAreJustified`: each checkpoint, saved or in memory, carries the
  evidence for the node it waits for. `execute` is reached from `decide` with the
  policy's consent or from `human_approval` with an approval, and that approval
  is in the state because a click put it there. A click replaces the answer of
  an earlier one before any route reads it;
- `RowsAreJustified`: a reference in a row was issued for that invoice, and a
  session that has seen one finds it still there, because no UPDATE clears the
  column. This is what keeps `status = "paid"` and the reference together when a
  stale session writes.

The proof has one lemma per action; `AdvanceKeepsIInv` holds the
common part of all steps of the graph.

For `StatusChangesAreAudited` that is not enough: the worker's last branch,
`auto_approved`, writes no entry. `AuditInv` adds that a job's run which has left
`decide` for anything but `execute` has a decision other than `auto_approve` or an
error, and one that has ended has that or a reference (`OutcomesAreKnown`); so the
branch is never reached, and every other COMMIT that changes a status appends
exactly the entry that names it.

*One job per invoice.* `ReviewIsResumable` and `RowTellsItsThread` relate a row to a
checkpoint, and both are written by others. `OneJobInv` says who may write them
when: at most one job has an invoice (`JobsAreApart`); a thread gets into a row, or
into what a press has read, only when its try is over (`ThreadsArePublishedLate`),
so until then its checkpoint is the job's run (`JobRunsAreSaved`), and no press
resumes it; a job's run is the first pass through its graph, so it stops in front of
`human_approval` exactly when a review is needed (`JobsPassOnce`); every run of a
press has an answer (`ClicksAnswer`), which an interrupted thread will then have
too. `RowsFollowTheJob` is the hard part: while a job is in its `try` its row is
`extracting` or has an answer of a press, on a thread or without one, and what the job
loads for its last UPDATE is one of these; in the `except` clause the row has anything
but a status the guard lets through. Without it a late UPDATE
could leave the status of someone else over its own thread, as it does with three
jobs. That much holds with every fault. `RowsShowTheirPayment` is the part that takes
answered COMMITs: no row a job still works on has a reference, a row with one is `paid`
or has an answer (`PaymentsRest`), and the reference is the one of its thread
(`RowTellsItsThread`). `ClicksFindThePayment` is for presses that overlap: one that resumes the
thread whose payment the row shows has loaded that payment, so it pays no second
time and keeps the reference in the thread. `PaymentsAreKept` follows, since a job
that commits meets a row without a reference, and a press writes an answer and
leaves the reference alone.

*The trail.* With presses in review only, `TrailInv` adds that a press has loaded
`pending_review` (`PressesSawAReview`)
and keeps the trail and the status together. Each COMMIT then assigns a status its session had not loaded: a claim
loaded `received` or `failed`, a save `extracting` or an answer, a press
`pending_review`, and the handler anything but `failed`. So the UPDATE always writes the
column its entry speaks of, whatever was lost before it.

*One payment.* With one press at a time and crashes as the only fault, `PaymentInv`
adds that no node loses its checkpoint: a press's run is what its thread holds
(`ClickRunsAreSaved`; a press without a thread may raise at any step and has nothing to
lose), no `except` clause runs (`NothingFails`), and the graph is
started once per invoice, because from then on the row has a status the guard
keeps out (`GraphsStartOnce`). Then each new reference goes into the one thread that was
ever started for its invoice; references stay there (`PaymentIsRemembered`), and one
thread holds one. That step, from `PaymentIsRemembered` to
`Cardinality(issued[i]) <= 1`, is where `PaymentIsSingle` uses the finite-set library.

*All promises.* `ReviewInv` says that from its SELECT to its COMMIT each session
sees the row as it is (`SessionsSeeTheRow`); a press has `pending_review`, a job a status the
guard lets through or `extracting` (`RowsFollowTheirSession`); for the handler this
takes a save whose COMMIT was answered. Two processes at work
on an invoice would need two of these at once (`BusyApart`). So no UPDATE leaves out a
column another session has changed, and each COMMIT takes an edge of `InvoiceLifecycle`: the
refinement maps `status` and `ref` to the row's, the commits of claim, save,
failure and press each to an action of the abstract specification, everything else to
a stutter.

*A worker behind every extraction.* `WorkerInv` strengthens `ExtractingHasAWorker` by
what its session has loaded (`Held`): a job about to save has seen `extracting` itself,
so its UPDATE does not leave out the status. This holds for overlapping jobs without a
promise, because a row that says `extracting` when a second job reads it keeps that
job out, and one that is claimed twice is held by the job whose claim commits last.

Each of these invariants was first checked by TLC on instances of its own.

`IngestionProofs` proves, for all sets of requests, documents and names, all
inputs and all faults:

| Theorem | |
|---|---|
| `Invariance`, `TypeCorrectness` | `Spec => []IInv`, `Spec => []TypeOK` |
| `DocumentsAreBookedOnce` | `Spec => []OneRowPerContent` |
| `DuplicatesAreFound` | `Spec => []DuplicateIsFound` |
| `FilesPrecedeRows` | `Spec => []FileBeforeRow` |
| `RequestsDoNotWaitInCircles` | `Spec => []NoCircularWait` |
| `IntakeIsImplemented` | `Spec => ImplementsIntake` (the refinement, safety part) |

The assumptions are in `IngestionAssumption`. The invariant (module
`IngestionInvariant`) says of the unique index that rows differ in their content
whether committed or not (`ContentsAreUnique`); which request a row belongs to and
how far that one has come (`RowsAreOwn`); and that a handler which hit the index
hit a committed row, which stays (`EvidenceIsKept`). The refinement maps `book` to
the id of the committed row and `asked` to the content submitted. The commit is
`Book`, the two responses are `Accept` and `Conflict`, anything unanswered is
`Break`, and files, inserts and failing inserts are stutters. `NoCircularWait` holds
for every size of the pool: a request that waits for a connection waits for those
that hold one, and among them is one that does not wait, because whoever waits at the
index waits for a request that has inserted, holds its connection and only has to
commit (`BlockerMovesOn`).

`ExtractionProofs` proves, for any number of attempts and any replies:

| Theorem | |
|---|---|
| `Invariance`, `TypeCorrectness` | `ESpec => []LoopInv`, `ESpec => []TypeOK` |
| `ConversationsAreWellFormed` | `ESpec => []CorrectionsFollowReplies` |
| `ValidRepliesAreReturned` | `ESpec => []ValidReplyIsReturned` |
| `AmountsThatAddUp` | `ESpec => []AmountsAddUp` |
| `ExtractNodeIsImplemented` | `ESpec => []ImplementsExtractNode` |
| `FailuresAreDeadLettered` | `ESpec => []FailureIsDeadLettered` |

The assumptions are in `ExtractionAssumption`; `ExtractNodeIsImplemented` also assumes that
the pipeline's `Data` holds what valid replies say. `LoopInv` (module
`ExtractionInvariant`) ties the position in the loop to the history: how many calls
were made and how long the conversation is at each point (`CallsAreCounted`), that
the bound `raw_response` is the last text any call returned and `last_error` the
attempt before (`LastOutcomesAreKept`), that no valid reply has been passed over
(`NothingIsReturnedEarly`), and that a result without an error has a valid reply
behind it (`SuccessIsValid`), without which `None, None` could be returned and taken
for a success. `AmountsAddUp` then follows from a lemma on `RoundHalfEven`: rounding
moves a number by at most half a unit.

Only model-checked: liveness (`ExtractionEnds`, `JobsEnd`, `ClicksEnd`, `RequestsEnd`,
`ExtractionReturns`), which is out of the prover's reach. What two of them rest on is
proved: `ExtractionEnds` needs somebody who will write the row
(`ExtractingHasAWorker`), and `RequestsEnd` that among requests that wait there is
always one that does not (`NoCircularWait`); fairness does the rest. Every safety
property of a passing run is proved.

## 5. What is not modelled

- The signature check and the payload parsing of the callback, unknown actions,
  the GET endpoints: no state changes.
- `update_approval_message`, `services/audit.py`, `dead_letter_invoice`: never run.
- `created_at`: the trail is in commit order. `created_at` is the start of the
  transaction, so the audit endpoint shows the same order as long as sessions do not
  overlap (`SessionsDoNotOverlap`); without the promises a press that overlaps a
  job's session can be listed before an entry that was committed earlier.
- The pool of connections for worker and callback: no session of theirs waits for
  another one while it holds a connection.
- The provider's message formats, page images and prompts. `get_langchain_llm`: called
  by nobody.
- Payment amounts, messages, logging, tracing, metrics, settings, migrations.
- Deployment faults that keep the program from starting at all: the checkpointer's
  package missing from `requirements.txt`, `await` on a context manager
  (`graph.py:137`), the enum labels of the migration, `redis_settings` never built,
  an upload directory the worker does not share. The model is of the program with
  these in order.

## 6. Plan

Done: the pipeline, the intake, the extraction, the lifecycle, and the theorems of
section 4, which cover every safety property of the passing runs. An audit module with
both orders of the trail was planned and dropped: what it would say is
`SessionsDoNotOverlap`. What is left, in order:

1. A graph run only goes forward: a rank of its nodes that each step lowers, the
   part of `JobsEnd` and `ClicksEnd` that can be proved.
2. The model's `RiskPolicy` against the rules as the documentation lists them, and
   its monotonicity in the amount.
