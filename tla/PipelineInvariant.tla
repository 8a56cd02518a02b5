------------------------- MODULE PipelineInvariant -------------------------
(***************************************************************************)
(* The inductive invariant of the pipeline behind PaymentIsAuthorised,     *)
(* ThreadIsOwn and ReferencesAreIssued, and what StatusChangesAreAudited   *)
(* needs on top of it.                                                     *)
(***************************************************************************)
EXTENDS PipelineProperties

\* A process that has not been called has touched nothing.
Started ==
    \A p \in Procs :
        /\ pc[p] = "idle" => inv[p] = None /\ seen[p] = NoRow
        /\ pc[p] # "idle" => inv[p] \in Invoices /\ (p \in Clicks => act[p] # None)

(***************************************************************************)
(* A graph state belongs to one invoice for good: a job's to the job's, a  *)
(* thread's to that of the job that made it, a click's to the one its      *)
(* button names, or to none when the row had no thread.                    *)
(***************************************************************************)
RunsAreOwn ==
    /\ \A p \in Procs : run[p].st.inv \in {None, inv[p]}
    /\ \A j \in Jobs : pc[j] \in {"graph", "returned", "saving"} =>
            /\ run[j].st.inv = inv[j]
            /\ ckpt[<<j, try[j]>>].st.inv = inv[j]
    /\ \A c \in Clicks :
            pc[c] \in {"graph", "returned"} /\ seen[c].thread # None =>
                run[c].st.inv = inv[c]

ThreadsAreOwn ==
    /\ \A j \in Jobs, k \in 1..MaxTries : ckpt[<<j, k>>].st.inv \in {None, inv[j]}
    /\ ThreadIsOwn

(***************************************************************************)
(* What every checkpoint, saved or in a run, says of its state: data and a *)
(* reference only come with an invoice, the reference was made for it, an  *)
(* approval was pressed for it, and the node it waits for was reached with *)
(* the evidence that node needs.                                           *)
(***************************************************************************)
Justified(cp, refs, approved) ==
    /\ cp.st.data # None => cp.st.inv # None
    /\ cp.st.ref # None => cp.st.inv # None /\ cp.st.ref \in refs[cp.st.inv]
    /\ cp.st.human = "approve" /\ cp.st.inv # None => cp.st.inv \in approved
    /\ cp.next \in {"notify", "human_approval", "execute"} => cp.st.data # None
    /\ cp.next = "execute" =>
            \/ RiskDecision(cp.st.data) = "auto_approve"
            \/ cp.st.human = "approve"

CheckpointsAreJustified ==
    /\ \A p \in Procs : Justified(run[p], issued, Approved)
    /\ \A t \in Threads : Justified(ckpt[t], issued, Approved)

\* The payment columns of a row; a session that saw a reference keeps seeing
\* one, because no UPDATE takes it away.
RowsAreJustified ==
    /\ \A i \in Invoices :
            /\ row[i].ref # None => row[i].ref \in issued[i]
            /\ row[i].status = "paid" => row[i].ref # None
    /\ \A p \in Procs : seen[p].ref # None =>
            inv[p] \in Invoices /\ row[inv[p]].ref # None

IInv ==
    /\ TypeOK
    /\ Started
    /\ RunsAreOwn
    /\ ThreadsAreOwn
    /\ CheckpointsAreJustified
    /\ RowsAreJustified
-----------------------------------------------------------------------------
(***************************************************************************)
(* A job's run that has left decide knows its outcome: Save never falls    *)
(* through to auto_approved, the one status without an audit entry.        *)
(***************************************************************************)
Settled(st) == st.decision \in {"needs_review", "reject"} \/ Truthy(st.error)

OutcomeIsKnown(cp, at) ==
    /\ cp.next \in {"notify", "human_approval", "dead_letter"} => Settled(cp.st)
    /\ cp.next = END => Settled(cp.st) \/ cp.st.ref # None
    /\ at \in {"returned", "saving"} => cp.next \in {"human_approval", END}

OutcomesAreKnown == \A j \in Jobs : OutcomeIsKnown(run[j], pc[j])

AuditInv == IInv /\ OutcomesAreKnown
-----------------------------------------------------------------------------
(***************************************************************************)
(* Behind ExtractingHasAWorker: that worker has not loaded, in the session *)
(* it will commit, a status another one had put in between.  Its UPDATE    *)
(* would leave out the column if the outcome were the same.                *)
(***************************************************************************)
Held(j) ==
    /\ pc[j] \in Working
    /\ pc[j] \in {"saving", "failing"} => seen[j].status = "extracting"

ExtractingIsHeld ==
    \A i \in Invoices : row[i].status = "extracting" =>
        \E j \in Jobs : inv[j] = i /\ Held(j)

WorkerInv == IInv /\ ExtractingIsHeld
-----------------------------------------------------------------------------
(***************************************************************************)
(* What holds for any presses as long as an invoice is enqueued once       *)
(* ("one_job"): behind ReviewIsResumable with every fault, and behind      *)
(* RowTellsItsThread and PaymentIsKept when no COMMIT loses its answer.    *)
(***************************************************************************)
AnswersArrive == "lost_answer" \notin Faults

JobsAreApart ==
    \A j, k \in Jobs : j # k /\ inv[j] # None => inv[j] # inv[k]

\* A press, or a row, knows a thread only when the graph of its try is over:
\* until then nobody but the job writes its checkpoints.
Published(t) ==
    \/ \E i \in Invoices : row[i].thread = t
    \/ \E p \in Procs : seen[p].thread = t

GraphOver == {"fail", "failing", "raised", "done"}

ThreadsArePublishedLate ==
    \A j \in Jobs, k \in 1..MaxTries : Published(<<j, k>>) =>
        /\ k <= try[j]
        /\ pc[j] \notin GraphOver => k # try[j]

JobRunsAreSaved ==
    \A j \in Jobs : pc[j] \in {"graph", "returned", "saving"} =>
        ckpt[<<j, try[j]>>] = run[j]

\* A job's own run is the first pass through its graph: it stops in front of
\* human_approval when a review is needed, and nowhere else.
IsFirstPass(cp, at) ==
    /\ at = "graph" => cp.next # "human_approval"
    /\ cp.next \in {"extract", "decide"} => cp.st.decision = None
    /\ cp.next \in {"dead_letter", END} =>
            cp.st.decision # "needs_review" \/ cp.st.ref # None

JobsPassOnce == \A j \in Jobs : IsFirstPass(run[j], pc[j])

ClicksAnswer ==
    \A c \in Clicks : pc[c] \in {"graph", "returned"} => run[c].st.human # None

(***************************************************************************)
(* The row while its job is at work: presses may answer it.  The handler   *)
(* may also find the outcome of a save whose COMMIT has lost its answer.   *)
(***************************************************************************)
Answers == {"approved", "rejected"}
Unclaimed == {None, "received", "failed"}

RowsFollowTheJob ==
    \A j \in Jobs :
        /\ pc[j] = "claim" =>
                /\ row[inv[j]].status \in {"received", "failed"} \cup Answers
                /\ MayClaim(seen[j])
        /\ pc[j] \in GuardedByTry =>
                row[inv[j]].status \in {"extracting"} \cup Answers
        /\ pc[j] = "saving" => seen[j].status \in {"extracting"} \cup Answers
        /\ pc[j] \in {"fail", "failing"} => row[inv[j]].status \notin Unclaimed
        /\ pc[j] = "failing" => seen[j].status \notin Unclaimed

\* With all answers, nothing is paid that a job still works on.
PaymentsRest ==
    /\ \A j \in Jobs :
        /\ pc[j] \in Working \cup {"claim"} => row[inv[j]].ref = None
        /\ pc[j] \in {"fail", "failing"} =>
                row[inv[j]].status \in {"extracting"} \cup Answers
        /\ pc[j] = "failing" => seen[j].status \in {"extracting"} \cup Answers
    /\ \A i \in Invoices : row[i].ref # None =>
            row[i].status \in {"paid"} \cup Answers

\* A press on a thread whose payment is in the row has found that payment.
ClicksFindThePayment ==
    \A c \in Clicks :
        /\ pc[c] \in {"graph", "returned"}
        /\ seen[c].thread # None /\ seen[c].thread = row[inv[c]].thread
        /\ row[inv[c]].ref # None
        => run[c].st.ref = row[inv[c]].ref

RowsShowTheirPayment == PaymentsRest /\ ClicksFindThePayment /\ RowTellsItsThread

OneJobInv ==
    /\ AuditInv
    /\ JobsAreApart
    /\ ThreadsArePublishedLate
    /\ JobRunsAreSaved
    /\ JobsPassOnce
    /\ ClicksAnswer
    /\ RowsFollowTheJob
    /\ ReviewIsResumable
    /\ AnswersArrive => RowsShowTheirPayment
-----------------------------------------------------------------------------
(***************************************************************************)
(* Behind AuditEndsInStatus when buttons are pressed only in review, with  *)
(* every fault: each commit assigns a status its session had not loaded,   *)
(* so that the UPDATE writes the column its audit entry speaks of.         *)
(***************************************************************************)
PressesSawAReview ==
    \A c \in Clicks : InSession(c) => seen[c].status = "pending_review"

TrailInv ==
    /\ OneJobInv
    /\ PressesSawAReview
    /\ AuditEndsInStatus
-----------------------------------------------------------------------------
(***************************************************************************)
(* What holds on top of OneJobInv when presses come one at a time and only *)
(* in review, and no COMMIT loses its answer, behind SessionsDoNotOverlap  *)
(* and the refinement of InvoiceLifecycle.                                 *)
(***************************************************************************)
ClicksAreSerial ==
    \A c, d \in Clicks : c # d => ~(InSession(c) /\ InSession(d))

\* No commit has come between a session's SELECT and where it is now.
SessionsSeeTheRow ==
    \A p \in Procs : InSession(p) => seen[p] = row[inv[p]]

RowsFollowTheirSession ==
    /\ \A j \in Jobs :
        /\ pc[j] = "claim" => MayClaim(row[inv[j]])
        /\ pc[j] \in Working => row[inv[j]].status = "extracting"
    /\ \A c \in Clicks :
            InSession(c) => row[inv[c]].status = "pending_review"

ReviewInv ==
    /\ OneJobInv
    /\ ClicksAreSerial
    /\ SessionsSeeTheRow
    /\ RowsFollowTheirSession
-----------------------------------------------------------------------------
(***************************************************************************)
(* What holds on top of OneJobInv when presses come one at a time, at any  *)
(* moment, and crashes between two steps are the only faults, behind       *)
(* PaymentIsRemembered and SinglePayment.                                  *)
(***************************************************************************)
\* Some try has started the graph on this thread.
Touched(t) == ckpt[t].st.inv # None

\* The graph is started once: after it the row can never be claimed again.
GraphsStartOnce ==
    \A j \in Jobs, k \in 1..MaxTries : Touched(<<j, k>>) =>
        /\ pc[j] \notin {"claim", "setup"}
        /\ row[inv[j]].status \notin {None, "received", "failed"}
        /\ \A l \in 1..MaxTries : Touched(<<j, l>>) => k = l

NothingFails == \A j \in Jobs : pc[j] \notin {"fail", "failing"}

\* A press runs what its thread holds; without a thread it runs no invoice.
ClickRunsAreSaved ==
    \A c \in Clicks : pc[c] \in {"graph", "returned"} =>
        IF seen[c].thread = None THEN run[c].st.inv = None
        ELSE ckpt[seen[c].thread] = run[c]

PaymentInv ==
    /\ OneJobInv
    /\ ClicksAreSerial
    /\ NothingFails
    /\ GraphsStartOnce
    /\ ClickRunsAreSaved
    /\ PaymentIsRemembered
=============================================================================
