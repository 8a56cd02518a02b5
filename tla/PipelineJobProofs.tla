-------------------------- MODULE PipelineJobProofs --------------------------
(***************************************************************************)
(* What one job per invoice gives, whatever fails and whenever a button is *)
(* pressed, also several at once: an invoice in review can be resumed; and *)
(* if no COMMIT loses its answer, the row and its thread tell of the same  *)
(* payment, and that payment is kept.  At the end, what holds of the audit *)
(* trail when buttons are pressed only in review.                          *)
(***************************************************************************)
EXTENDS PipelineAuditProofs

OneJob == "one_job" \in Discipline

\* OneJobInv without the invariant it stands on.
JobParts ==
    /\ JobsAreApart
    /\ ThreadsArePublishedLate
    /\ JobRunsAreSaved
    /\ JobsPassOnce
    /\ ClicksAnswer
    /\ RowsFollowTheJob
    /\ ReviewIsResumable
    /\ AnswersArrive => RowsShowTheirPayment

-----------------------------------------------------------------------------
(***************************************************************************)
(* The kinds of steps.                                                     *)
(***************************************************************************)
\* A superstep whose checkpoint is saved.
Saved(p, cp, to) ==
    /\ SaveCheckpoint(p, cp)
    /\ run' = [run EXCEPT ![p] = cp]
    /\ pc' = [pc EXCEPT ![p] = to]
    /\ UNCHANGED <<seen, db, task>>

\* A process that leaves its session and its graph, and commits nothing.
Left(p, to) == Leave(p, to) /\ UNCHANGED <<db, ckpt, task>>

\* Where a process that leaves may have been, and where it goes.
LeavesFrom(p, to) ==
    /\ pc[p] \notin Stopped
    /\ p \in Jobs => /\ to \in {"done", "raised", "fail"}
                     /\ to = "fail" => pc[p] \in GuardedByTry
    /\ p \in Clicks => to = "done"

LEMMA AdvanceKinds ==
    ASSUME NEW p \in Procs, pc[p] \notin Stopped, NEW cp, NEW to, Advance(p, cp, to)
    PROVE  Saved(p, cp, to) \/ \E lost : Left(p, lost) /\ LeavesFrom(p, lost)
<1>1. CASE \E lost \in AfterLostStep(p) : Leave(p, lost) /\ UNCHANGED ckpt
  <2>1. PICK lost \in AfterLostStep(p) : Leave(p, lost) /\ UNCHANGED ckpt
      BY <1>1
  <2>2. LeavesFrom(p, lost)
      BY PipelineAssumption
         DEF AfterLostStep, AfterException, AfterCrash, LeavesFrom
  <2> QED
      BY <2>1, <2>2 DEF Advance, Left
<1>2. CASE Saved(p, cp, to)
    BY <1>2
<1> QED
    BY <1>1, <1>2 DEF Advance, Saved

LEMMA FaultLeaves ==
    ASSUME NEW p \in Procs, StepRaises(p) \/ Crash(p)
    PROVE  \E to : Left(p, to) /\ LeavesFrom(p, to)
<1>1. CASE StepRaises(p)
    BY <1>1, PipelineAssumption DEF StepRaises, AfterException, Left, LeavesFrom
<1>2. CASE Crash(p)
    BY <1>2, PipelineAssumption DEF Crash, AfterCrash, Left, LeavesFrom
<1> QED
    BY <1>1, <1>2

(***************************************************************************)
(* What a node makes of the state: it keeps the person's answer and a      *)
(* reference, and a job's first pass stays one.                            *)
(***************************************************************************)
GoesOn(old, cp, to) ==
    /\ cp \in Checkpoint /\ to \in {"graph", "returned"}
    /\ cp.st.human = old.st.human
    /\ cp.st.inv = old.st.inv
    /\ old.st.ref # None => cp.st.ref = old.st.ref
    /\ IsFirstPass(old, "graph") => IsFirstPass(cp, to)

LEMMA StepToGoesOn ==
    ASSUME NEW p \in Procs, NEW old \in Checkpoint,
           NEW st \in State, NEW next \in Nodes \cup {END},
           st.human = old.st.human, st.inv = old.st.inv,
           old.st.ref # None => st.ref = old.st.ref,
           IsFirstPass(old, "graph") =>
               /\ next \in {"extract", "decide"} => st.decision = None
               /\ next \in {"dead_letter", END} =>
                       st.decision # "needs_review" \/ st.ref # None,
           StepTo(p, st, next)
    PROVE  \E cp, to : Advance(p, cp, to) /\ GoesOn(old, cp, to)
<1> DEFINE cp == [st |-> st, next |-> next, asked |-> FALSE]
           to == IF next \in InterruptBefore \cup {END} THEN "returned" ELSE "graph"
<1>1. Advance(p, cp, to)
    BY DEF StepTo
<1>2. cp \in Checkpoint
    BY DEF Checkpoint, State
<1>3. GoesOn(old, cp, to)
    BY <1>2 DEF GoesOn, IsFirstPass, InterruptBefore
<1> HIDE DEF cp, to
<1> QED
    BY <1>1, <1>3

LEMMA GraphStepGoesOn ==
    ASSUME IInv, NEW p \in Procs, GraphStep(p)
    PROVE  /\ pc[p] = "graph"
           /\ \E cp, to : Advance(p, cp, to) /\ GoesOn(run[p], cp, to)
<1> DEFINE s == run[p].st
<1>1. pc[p] = "graph"
    BY DEF GraphStep, Extract, Decide, Notify, HumanApproval, Execute,
           DeadLetter, At
<1>2. run[p] \in Checkpoint /\ s \in State
    BY DEF IInv, TypeOK, Checkpoint, State
<1> HIDE DEF s
<1>3. CASE Extract(p)
  <2>1. PICK st \in ExtractNode(s) : StepTo(p, st, RouteAfterExtract(st))
      BY <1>3 DEF Extract, s
  <2>2. st.decision = s.decision
      BY <1>2 DEF ExtractNode, State, InvoiceState
  <2>3. /\ st \in State
        /\ st.human = s.human /\ st.inv = s.inv /\ st.ref = s.ref
        /\ RouteAfterExtract(st) \in {"decide", "dead_letter"}
      BY <1>2, ExtractNodeFacts
  <2>4. IsFirstPass(run[p], "graph") => st.decision = None
      BY <1>3, <2>2 DEF Extract, At, IsFirstPass, s
  <2>5. None # "needs_review"
      BY GraphAssumption DEF DecisionOutcome
  <2> QED
      BY <1>1, <1>2, <2>1, <2>3, <2>4, <2>5, StepToGoesOn DEF Nodes, END, s
<1>4. CASE Decide(p)
  <2>1. PICK st : st = DecideNode(s) /\ StepTo(p, st, RouteAfterDecide(st))
      BY <1>4 DEF Decide, s
  <2>2. /\ st \in State
        /\ st.human = s.human /\ st.inv = s.inv /\ st.ref = s.ref
        /\ RouteAfterDecide(st) \in {"notify", "dead_letter", "execute"}
      BY <1>2, <2>1, DecideNodeFacts
  <2>3. RouteAfterDecide(st) = "dead_letter" => st.decision # "needs_review"
      BY DEF RouteAfterDecide
  <2> QED
      BY <1>1, <1>2, <2>1, <2>2, <2>3, StepToGoesOn DEF Nodes, END, s
<1>5. CASE Notify(p)
  <2>1. PICK st \in NotifyNode(s) : StepTo(p, st, "human_approval")
      BY <1>5 DEF Notify, s
  <2>2. st \in State /\ st.human = s.human /\ st.inv = s.inv /\ st.ref = s.ref
      BY <1>2, <2>1, NotifyNodeFacts
  <2> QED
      BY <1>1, <1>2, <2>1, <2>2, StepToGoesOn DEF Nodes, END, s
<1>6. CASE HumanApproval(p)
  <2>1. ~IsFirstPass(run[p], "graph")
      BY <1>6 DEF HumanApproval, At, IsFirstPass
  <2>2. CASE StepTo(p, s, RouteAfterHuman(s))
    <3>1. RouteAfterHuman(s) \in Nodes \cup {END}
        BY RouteAfterHumanFacts DEF Nodes
    <3> QED
        BY <1>1, <1>2, <2>1, <2>2, <3>1, StepToGoesOn DEF s
  <2>3. CASE Advance(p, [run[p] EXCEPT !.asked = TRUE], "returned")
    <3> DEFINE cp == [run[p] EXCEPT !.asked = TRUE]
    <3>1. Advance(p, cp, "returned")
        BY <2>3
    <3>2. GoesOn(run[p], cp, "returned")
        BY <1>2, <2>1 DEF GoesOn, Checkpoint
    <3> HIDE DEF cp
    <3> QED
        BY <1>1, <3>1, <3>2
  <2> QED
      BY <1>6, <2>2, <2>3 DEF HumanApproval, s
<1>7. CASE Execute(p)
  <2>1. PICK st : st = ExecuteNode(s, NewRef(p)) /\ StepTo(p, st, END)
      BY <1>7 DEF Execute, s
  <2>2. NewRef(p) \in Refs
      BY DEF NewRef, Refs, Threads, Procs, IInv, TypeOK
  <2>3. st \in State /\ st.human = s.human /\ st.inv = s.inv /\ st.ref # None
      BY <1>2, <2>1, <2>2, ExecuteNodeFacts, PipelineAssumption
  <2>4. s.ref # None => st.ref = s.ref
      BY <1>2, <2>1 DEF ExecuteNode, State, InvoiceState
  <2> QED
      BY <1>1, <1>2, <2>1, <2>3, <2>4, StepToGoesOn DEF Nodes, END, s
<1>8. CASE DeadLetter(p)
  <2>1. StepTo(p, s, END)
      BY <1>8 DEF DeadLetter, s
  <2>2. IsFirstPass(run[p], "graph") => s.decision # "needs_review" \/ s.ref # None
      BY <1>8 DEF DeadLetter, At, IsFirstPass, s
  <2> QED
      BY <1>1, <1>2, <2>1, <2>2, StepToGoesOn DEF Nodes, END, s
<1> QED
    BY <1>3, <1>4, <1>5, <1>6, <1>7, <1>8 DEF GraphStep
-----------------------------------------------------------------------------
(***************************************************************************)
(* The invariant, by kind of step.                                         *)
(***************************************************************************)
LEMMA AnswersAreClaimed ==
    \A s \in {"extracting"} \cup Answers : s \notin Unclaimed
BY GraphAssumption DEF Answers, Unclaimed, InvoiceStatus

\* Where no row and no session gets a thread it had not.
LEMMA NoNewThreads ==
    ASSUME ThreadsArePublishedLate, UNCHANGED try,
           \A t \in Threads : Published(t)' => Published(t),
           \A j \in Jobs : pc[j] \in GraphOver => pc'[j] \in GraphOver
    PROVE  ThreadsArePublishedLate'
BY DEF ThreadsArePublishedLate, Threads

\* A press on the row's thread has the payment of the row, if there is one.
PaymentFound(c, cp) ==
    seen[c].thread # None /\ seen[c].thread = row[inv[c]].thread
            /\ row[inv[c]].ref # None
        => cp.st.ref = row[inv[c]].ref

LEMMA SavedKeepsJobParts ==
    ASSUME OneJobInv, NEW p \in Procs, NEW cp \in Checkpoint,
           NEW to \in {"graph", "returned"}, Saved(p, cp, to),
           p \in Jobs => pc[p] \in {"setup", "graph"} /\ IsFirstPass(cp, to),
           p \in Clicks =>
               /\ pc[p] \in {"open", "graph"}
               /\ cp.st.human # None
               /\ AnswersArrive => PaymentFound(p, cp)
    PROVE  JobParts'
<1> USE DEF OneJobInv, AuditInv, IInv
<1>1. /\ pc \in [Procs -> JobPC \cup ClickPC] /\ try \in [Jobs -> 1..MaxTries]
      /\ run \in [Procs -> Checkpoint] /\ ckpt \in [Threads -> Checkpoint]
      /\ seen \in [Procs -> Row] /\ row \in [Invoices -> Row]
    BY DEF TypeOK, Row
<1>2. UNCHANGED <<row, seen, inv, try>>
    BY DEF Saved, db, task
<1>3. /\ pc'[p] = to /\ run'[p] = cp
      /\ \A q \in Procs \ {p} : pc'[q] = pc[q] /\ run'[q] = run[q]
    BY <1>1 DEF Saved
<1>4. /\ p \in Jobs => /\ ThreadOf(p) = <<p, try[p]>> /\ ThreadOf(p) \in Threads
                       /\ p \notin Clicks
      /\ p \in Clicks => ThreadOf(p) = seen[p].thread /\ p \notin Jobs
      /\ ThreadOf(p) # None => ThreadOf(p) \in Threads
      /\ None \notin Threads
    BY <1>1, PipelineAssumption DEF ThreadOf, Threads, Refs, Procs, Row, InvoiceRow
<1>5. /\ \A t \in Threads : t # ThreadOf(p) => ckpt'[t] = ckpt[t]
      /\ ThreadOf(p) # None => ckpt'[ThreadOf(p)] = cp
    BY <1>1, <1>4 DEF Saved, SaveCheckpoint
\* Nobody else writes the thread of a job's try before it is over.
<1>6. ASSUME NEW j \in Jobs, pc[j] \notin GraphOver
      PROVE  ~Published(<<j, try[j]>>)
    BY <1>1, <1>6 DEF ThreadsArePublishedLate
<1>7. JobsAreApart'
    BY <1>2 DEF JobsAreApart
<1>8. ThreadsArePublishedLate'
  <2>1. \A t \in Threads : Published(t)' => Published(t)
      BY <1>2 DEF Published
  <2>2. \A j \in Jobs : pc[j] \in GraphOver => pc'[j] = pc[j]
      BY <1>3, <1>4 DEF Procs, GraphOver
  <2> QED
      BY <1>2, <2>1, <2>2, NoNewThreads
<1>9. JobRunsAreSaved'
  <2> SUFFICES ASSUME NEW j \in Jobs, pc'[j] \in {"graph", "returned", "saving"}
               PROVE  ckpt'[<<j, try[j]>>] = run'[j]
      BY <1>2 DEF JobRunsAreSaved
  <2>1. <<j, try[j]>> \in Threads /\ j \in Procs
      BY <1>1 DEF Threads, Procs
  <2>2. CASE j = p
      BY <1>3, <1>4, <1>5, <2>1, <2>2
  <2>3. CASE j # p
    <3>1. pc[j] = pc'[j] /\ run'[j] = run[j] /\ ckpt[<<j, try[j]>>] = run[j]
        BY <1>3, <2>1, <2>3 DEF JobRunsAreSaved
    <3>2. <<j, try[j]>> # ThreadOf(p)
        BY <1>4, <1>6, <2>3, <3>1 DEF Published, Procs, GraphOver
    <3> QED
        BY <1>5, <2>1, <3>1, <3>2
  <2> QED
      BY <2>2, <2>3
<1>10. JobsPassOnce' /\ ClicksAnswer'
    BY <1>2, <1>3, <1>4 DEF JobsPassOnce, ClicksAnswer, Procs
<1>11. RowsFollowTheJob'
  <2>1. \A j \in Jobs : pc'[j] = pc[j]
            \/ (pc[j] \in GuardedByTry /\ pc'[j] \in {"graph", "returned"})
      BY <1>3, <1>4 DEF Procs, GuardedByTry
  <2> QED
      BY <1>2, <2>1 DEF RowsFollowTheJob, GuardedByTry
<1>12. ASSUME AnswersArrive PROVE PaymentsRest' /\ ClicksFindThePayment'
  <2>1. \A j \in Jobs : pc'[j] = pc[j]
            \/ (pc[j] \in Working /\ pc'[j] \in {"graph", "returned"})
      BY <1>3, <1>4 DEF Procs, Working
  <2>2. PaymentsRest'
      BY <1>2, <1>12, <2>1 DEF RowsShowTheirPayment, PaymentsRest, Working
  <2>3. ClicksFindThePayment'
      BY <1>2, <1>3, <1>4, <1>12
         DEF RowsShowTheirPayment, ClicksFindThePayment, PaymentFound, Procs
  <2> QED
      BY <2>2, <2>3
<1>13. \A i \in Invoices : row[i].thread # None =>
            \/ ckpt'[row[i].thread] = ckpt[row[i].thread]
            \/ /\ p \in Clicks /\ i = inv[p] /\ seen[p].thread = row[i].thread
               /\ ckpt'[row[i].thread] = cp
  <2> SUFFICES ASSUME NEW i \in Invoices, row[i].thread # None,
                      row[i].thread = ThreadOf(p)
               PROVE  /\ p \in Clicks /\ i = inv[p]
                      /\ seen[p].thread = row[i].thread
                      /\ ckpt'[row[i].thread] = cp
      BY <1>1, <1>5 DEF Row, InvoiceRow
  <2>1. p \notin Jobs
      BY <1>4, <1>6 DEF Published, GraphOver
  <2>2. p \in Clicks /\ seen[p].thread = row[i].thread
      BY <1>4, <2>1 DEF Procs
  <2>3. i = inv[p]
      BY <2>2 DEF ThreadsAreOwn, ThreadIsOwn
  <2> QED
      BY <1>5, <2>2, <2>3
<1>14. ReviewIsResumable'
    BY <1>2, <1>13 DEF ReviewIsResumable
<1>15. ASSUME AnswersArrive PROVE RowTellsItsThread'
  <2>1. ASSUME NEW i \in Invoices, row[i].ref # None, p \in Clicks, i = inv[p],
               seen[p].thread = row[i].thread, row[i].thread # None
        PROVE  cp.st.ref = row[i].ref
      BY <1>15, <2>1 DEF PaymentFound
  <2> QED
      BY <1>2, <1>13, <1>15, <2>1 DEF RowsShowTheirPayment, RowTellsItsThread
<1> QED
    BY <1>7, <1>8, <1>9, <1>10, <1>11, <1>12, <1>14, <1>15
       DEF JobParts, AnswersArrive, RowsShowTheirPayment

LEMMA LeftKeepsJobParts ==
    ASSUME OneJobInv, NEW p \in Procs, NEW to, Left(p, to), LeavesFrom(p, to)
    PROVE  JobParts'
<1> USE DEF OneJobInv, AuditInv, IInv
<1>1. /\ pc \in [Procs -> JobPC \cup ClickPC] /\ run \in [Procs -> Checkpoint]
      /\ seen \in [Procs -> Row] /\ row \in [Invoices -> Row]
      /\ Jobs \cap Clicks = {} /\ None \notin Threads
    BY PipelineAssumption DEF TypeOK, Row, Refs
<1>2. UNCHANGED <<row, ckpt, inv, try>>
    BY DEF Left, db, task
<1>3. /\ pc'[p] = to /\ run'[p] = Fresh /\ seen'[p] = NoRow
      /\ \A q \in Procs \ {p} :
            pc'[q] = pc[q] /\ run'[q] = run[q] /\ seen'[q] = seen[q]
    BY <1>1 DEF Left, Leave
<1>4. /\ p \in Jobs => to \in {"done", "raised", "fail"}
      /\ p \in Jobs /\ to = "fail" => pc[p] \in GuardedByTry
      /\ p \in Clicks => to = "done"
    BY DEF LeavesFrom
<1>5. ThreadsArePublishedLate'
  <2>1. \A t \in Threads : Published(t)' => Published(t)
      BY <1>1, <1>2, <1>3 DEF Published, NoRow
  <2>2. \A j \in Jobs : pc[j] \in GraphOver => pc'[j] \in GraphOver
      BY <1>3, <1>4 DEF Procs, GraphOver
  <2> QED
      BY <1>2, <2>1, <2>2, NoNewThreads
<1>6. JobsAreApart' /\ ReviewIsResumable'
    BY <1>2 DEF JobsAreApart, ReviewIsResumable
<1>7. JobRunsAreSaved'
    BY <1>2, <1>3, <1>4 DEF JobRunsAreSaved, Procs
<1>8. JobsPassOnce'
  <2>1. p \in Jobs => IsFirstPass(Fresh, to)
      BY <1>4 DEF IsFirstPass, Fresh, EmptyState, END
  <2> QED
      BY <1>3, <2>1 DEF JobsPassOnce, Procs
<1>9. ClicksAnswer'
    BY <1>1, <1>2, <1>3, <1>4 DEF ClicksAnswer, Procs
<1>10. \A j \in Jobs :
            \/ pc'[j] = pc[j] /\ seen'[j] = seen[j]
            \/ pc'[j] \in {"done", "raised"}
            \/ /\ pc'[j] = "fail" /\ pc[j] \in GuardedByTry
               /\ row[inv[j]].status \in {"extracting"} \cup Answers
    BY <1>3, <1>4 DEF Procs, RowsFollowTheJob
<1>11. RowsFollowTheJob'
    BY <1>2, <1>10, AnswersAreClaimed DEF RowsFollowTheJob, GuardedByTry
<1>12. ASSUME AnswersArrive PROVE RowsShowTheirPayment'
  <2>1. PaymentsRest'
      BY <1>2, <1>10, <1>12
         DEF RowsShowTheirPayment, PaymentsRest, Working, GuardedByTry
  <2>2. ClicksFindThePayment' /\ RowTellsItsThread'
      BY <1>1, <1>2, <1>3, <1>4, <1>12
         DEF RowsShowTheirPayment, ClicksFindThePayment, RowTellsItsThread, Procs
  <2> QED
      BY <2>1, <2>2 DEF RowsShowTheirPayment
<1> QED
    BY <1>5, <1>6, <1>7, <1>8, <1>9, <1>11, <1>12 DEF JobParts, AnswersArrive

\* A commit that assigns the status only.
LEMMA StatusCommitFacts ==
    ASSUME IInv, NEW p \in Procs, pc[p] # "idle", NEW s, NEW entries,
           Commit(inv[p], seen[p], [seen[p] EXCEPT !.status = s], entries)
    PROVE  /\ inv[p] \in Invoices
           /\ \A i \in Invoices :
                /\ row'[i].thread = row[i].thread /\ row'[i].ref = row[i].ref
                /\ \/ row'[i].status = row[i].status
                   \/ i = inv[p] /\ row'[i].status = s
           /\ s # seen[p].status => row'[inv[p]].status = s
<1>1. /\ row \in [Invoices -> Row] /\ seen[p] \in Row /\ inv[p] \in Invoices
    BY DEF IInv, TypeOK, Started, Row
<1>2. PICK new : /\ new = [seen[p] EXCEPT !.status = s]
                 /\ row' = [row EXCEPT ![inv[p]] =
                                FlushedRow(row[inv[p]], seen[p], new)]
    BY DEF Commit
<1>3. new.status = s /\ new.thread = seen[p].thread /\ new.ref = seen[p].ref
    BY <1>1, <1>2 DEF Row, InvoiceRow
<1>4. /\ \A i \in Invoices \ {inv[p]} : row'[i] = row[i]
      /\ row'[inv[p]] = FlushedRow(row[inv[p]], seen[p], new)
    BY <1>1, <1>2
<1>5. /\ row'[inv[p]].thread = row[inv[p]].thread
      /\ row'[inv[p]].ref = row[inv[p]].ref
      /\ row'[inv[p]].status = IF s = seen[p].status THEN row[inv[p]].status ELSE s
    BY <1>3, <1>4 DEF FlushedRow, Flushed
<1> QED
    BY <1>1, <1>4, <1>5

\* What the three commits of a status are.
StatusCommit(p, s, to) ==
    /\ \E entries :
          Commit(inv[p], seen[p], [seen[p] EXCEPT !.status = s], entries)
    /\ Leave(p, to) /\ UNCHANGED <<ckpt, task>>
    /\ \/ /\ p \in Jobs /\ pc[p] = "claim" /\ s = "extracting"
          /\ to \in {"setup", "raised"}
       \/ p \in Jobs /\ pc[p] = "failing" /\ s = "failed" /\ to = "raised"
       \/ p \in Clicks /\ pc[p] = "returned" /\ s \in Answers /\ to = "done"

LEMMA ClaimCommits ==
    ASSUME NEW j \in Jobs, Claim(j)
    PROVE  \E to \in {"setup", "raised"} : StatusCommit(j, "extracting", to)
<1>1. PICK to \in AfterCommit(j, "setup") : Leave(j, to)
    BY DEF Claim
<1>2. to \in {"setup", "raised"}
    BY <1>1, AfterCommitFacts DEF Claim, GuardedByTry
<1> QED
    BY <1>1, <1>2 DEF Claim, StatusCommit

LEMMA StatusCommitKeepsJobParts ==
    ASSUME OneJobInv, NEW p \in Procs, NEW s, NEW to, StatusCommit(p, s, to)
    PROVE  JobParts'
<1> USE DEF OneJobInv, AuditInv, IInv
<1>1. /\ pc \in [Procs -> JobPC \cup ClickPC] /\ run \in [Procs -> Checkpoint]
      /\ seen \in [Procs -> Row] /\ row \in [Invoices -> Row]
      /\ Jobs \cap Clicks = {} /\ None \notin Threads
    BY PipelineAssumption DEF TypeOK, Row, Refs
<1>2. UNCHANGED <<ckpt, inv, try>>
    BY DEF StatusCommit, task
<1>3. /\ pc'[p] = to /\ run'[p] = Fresh /\ seen'[p] = NoRow
      /\ \A q \in Procs \ {p} :
            pc'[q] = pc[q] /\ run'[q] = run[q] /\ seen'[q] = seen[q]
    BY <1>1 DEF StatusCommit, Leave
<1>4. \/ /\ p \in Jobs /\ pc[p] = "claim" /\ s = "extracting"
         /\ to \in {"setup", "raised"}
      \/ p \in Jobs /\ pc[p] = "failing" /\ s = "failed" /\ to = "raised"
      \/ p \in Clicks /\ pc[p] = "returned" /\ s \in Answers /\ to = "done"
    BY DEF StatusCommit
<1>5. PICK entries :
        Commit(inv[p], seen[p], [seen[p] EXCEPT !.status = s], entries)
    BY DEF StatusCommit
<1>6. /\ inv[p] \in Invoices
      /\ \A i \in Invoices :
            /\ row'[i].thread = row[i].thread /\ row'[i].ref = row[i].ref
            /\ \/ row'[i].status = row[i].status
               \/ i = inv[p] /\ row'[i].status = s
      /\ s # seen[p].status => row'[inv[p]].status = s
    BY <1>4, <1>5, StatusCommitFacts
<1>7. ThreadsArePublishedLate'
  <2>1. \A t \in Threads : Published(t)' => Published(t)
      BY <1>1, <1>3, <1>6 DEF Published, NoRow
  <2>2. \A j \in Jobs : pc[j] \in GraphOver => pc'[j] \in GraphOver
      BY <1>1, <1>3, <1>4 DEF Procs, GraphOver
  <2> QED
      BY <1>2, <2>1, <2>2, NoNewThreads
<1>8. JobsAreApart'
    BY <1>2 DEF JobsAreApart
<1>9. JobRunsAreSaved'
    BY <1>2, <1>3, <1>4 DEF JobRunsAreSaved, Procs
<1>10. JobsPassOnce'
  <2>1. p \in Jobs => IsFirstPass(Fresh, to)
      BY <1>1, <1>4 DEF IsFirstPass, Fresh, EmptyState, END
  <2> QED
      BY <1>3, <2>1 DEF JobsPassOnce, Procs
<1>11. ClicksAnswer'
    BY <1>1, <1>3, <1>4 DEF ClicksAnswer, Procs
<1>12. ReviewIsResumable'
  <2>1. s # "pending_review"
      BY <1>4 DEF Answers
  <2> QED
      BY <1>2, <1>6, <2>1 DEF ReviewIsResumable
<1>13. ASSUME NEW j \in Jobs, j # p, pc'[j] \in Working \cup {"claim"}
       PROVE  /\ pc'[j] = pc[j] /\ seen'[j] = seen[j]
              /\ row'[inv[j]].ref = row[inv[j]].ref
              /\ \/ row'[inv[j]].status = row[inv[j]].status
                 \/ row'[inv[j]].status \in Answers
  <2>1. j \in Procs /\ pc'[j] = pc[j] /\ seen'[j] = seen[j]
      BY <1>3, <1>13 DEF Procs
  <2>2. inv[j] \in Invoices /\ inv[j] # None
      BY <1>13, <2>1, GraphAssumption DEF Started, Working
  <2>3. p \in Jobs => inv[j] # inv[p]
      BY <1>13, <2>2 DEF JobsAreApart
  <2> QED
      BY <1>4, <1>6, <2>1, <2>2, <2>3
<1>14. p \in Jobs =>
            \/ pc'[p] \in {"raised", "done"}
            \/ /\ pc'[p] = "setup" /\ pc[p] = "claim"
               /\ row'[inv[p]].status = "extracting"
               /\ row'[inv[p]].ref = row[inv[p]].ref
  <2>1. p \in Jobs /\ pc[p] = "claim" => s # seen[p].status
      BY <1>1, <1>4 DEF RowsFollowTheJob, MayClaim
  <2> QED
      BY <1>1, <1>3, <1>4, <1>6, <2>1
<1>15. RowsFollowTheJob'
    BY <1>2, <1>13, <1>14, AnswersAreClaimed
       DEF RowsFollowTheJob, Working, GuardedByTry
<1>16. ASSUME AnswersArrive PROVE RowsShowTheirPayment'
  <2> USE <1>16 DEF RowsShowTheirPayment
  <2>1. p \in Jobs => row[inv[p]].ref = None
      BY <1>1, <1>4 DEF PaymentsRest, Working
  <2>2. \A i \in Invoices : row'[i].ref # None =>
            row'[i].status \in {"paid"} \cup Answers
      BY <1>4, <1>6, <2>1 DEF PaymentsRest
  <2>3. PaymentsRest'
      BY <1>2, <1>13, <1>14, <2>1, <2>2 DEF PaymentsRest, Working
  <2>4. \A c \in Clicks : pc'[c] \in {"graph", "returned"} =>
            /\ c # p /\ pc[c] = pc'[c] /\ seen'[c] = seen[c] /\ run'[c] = run[c]
            /\ inv[c] \in Invoices
      BY <1>1, <1>3, <1>4 DEF Procs, Started
  <2>5. ClicksFindThePayment'
      BY <1>2, <1>6, <2>4 DEF ClicksFindThePayment
  <2>6. RowTellsItsThread'
      BY <1>2, <1>6 DEF RowTellsItsThread
  <2> QED
      BY <2>3, <2>5, <2>6
<1> QED
    BY <1>7, <1>8, <1>9, <1>10, <1>11, <1>12, <1>15, <1>16
       DEF JobParts, AnswersArrive

\* The job's last commit: the outcome of its own run, into a row that no other
\* job works on and that, with all answers, shows no payment yet.
LEMMA SaveFacts ==
    ASSUME OneJobInv, NEW j \in Jobs, Save(j)
    PROVE  /\ pc[j] = "saving" /\ inv[j] \in Invoices
           /\ \A i \in Invoices \ {inv[j]} : row'[i] = row[i]
           /\ row[inv[j]].status \in {"extracting"} \cup Answers
           /\ row'[inv[j]].thread = <<j, try[j]>>
           /\ AnswersArrive =>
                row[inv[j]].ref = None /\ row'[inv[j]].ref = run[j].st.ref
           /\ row'[inv[j]].status =
                IF run[j].st.ref # None THEN "paid"
                ELSE IF run[j].st.decision = "needs_review" THEN "pending_review"
                ELSE "dead_lettered"
<1> USE DEF OneJobInv, AuditInv, IInv
<1>1. /\ j \in Procs /\ pc[j] = "saving" /\ inv[j] \in Invoices
      /\ row \in [Invoices -> Row] /\ seen[j] \in Row /\ try[j] \in 1..MaxTries
      /\ ThreadOf(j) = <<j, try[j]>>
    BY DEF Save, TypeOK, Started, Procs, Row, ThreadOf
<1>2. /\ row[inv[j]].status \in {"extracting"} \cup Answers
      /\ seen[j].status \in {"extracting"} \cup Answers
    BY <1>1 DEF RowsFollowTheJob, GuardedByTry
<1>3. AnswersArrive => row[inv[j]].ref = None /\ seen[j].ref = None
    BY <1>1 DEF RowsShowTheirPayment, PaymentsRest, Working, RowsAreJustified
<1>4. seen[j].thread # <<j, try[j]>>
    BY <1>1 DEF ThreadsArePublishedLate, Published, GraphOver
<1>5. PICK new : /\ new = Outcome(seen[j], run[j].st, <<j, try[j]>>)
                 /\ row' = [row EXCEPT ![inv[j]] =
                                FlushedRow(row[inv[j]], seen[j], new)]
    BY <1>1 DEF Save, Commit
<1>6. /\ \A i \in Invoices \ {inv[j]} : row'[i] = row[i]
      /\ row'[inv[j]] = FlushedRow(row[inv[j]], seen[j], new)
    BY <1>1, <1>5
<1>7. Settled(run[j].st) \/ run[j].st.ref # None
    BY <1>1 DEF OutcomesAreKnown, OutcomeIsKnown
<1>8. /\ new.thread = <<j, try[j]>>
      /\ AnswersArrive => new.ref = run[j].st.ref
      /\ new.status =
                IF run[j].st.ref # None THEN "paid"
                ELSE IF run[j].st.decision = "needs_review" THEN "pending_review"
                ELSE "dead_lettered"
    BY <1>3, <1>5, <1>7 DEF Outcome, Settled
<1>9. new.status # seen[j].status
    BY <1>2, <1>8 DEF Answers
<1>10. /\ row'[inv[j]].thread = new.thread
       /\ AnswersArrive => row'[inv[j]].ref = new.ref
       /\ row'[inv[j]].status = new.status
    BY <1>2, <1>3, <1>4, <1>6, <1>8, <1>9 DEF FlushedRow, Flushed
<1> QED
    BY <1>1, <1>2, <1>3, <1>6, <1>8, <1>10

LEMMA SaveKeepsJobParts ==
    ASSUME OneJobInv, NEW j \in Jobs, Save(j)
    PROVE  JobParts'
<1> USE DEF OneJobInv, AuditInv, IInv
<1> DEFINE i == inv[j]
           t == <<j, try[j]>>
<1>1. /\ pc \in [Procs -> JobPC \cup ClickPC] /\ run \in [Procs -> Checkpoint]
      /\ seen \in [Procs -> Row] /\ row \in [Invoices -> Row]
      /\ try \in [Jobs -> 1..MaxTries]
      /\ Jobs \cap Clicks = {} /\ None \notin Threads
      /\ j \in Procs /\ t \in Threads
    BY PipelineAssumption DEF TypeOK, Row, Refs, Procs, Threads
<1>2. PICK to \in AfterCommit(j, "done") : Leave(j, to) /\ UNCHANGED <<ckpt, task>>
    BY DEF Save
<1>3. /\ UNCHANGED <<ckpt, inv, try>>
      /\ pc'[j] = to /\ run'[j] = Fresh /\ seen'[j] = NoRow
      /\ \A q \in Procs \ {j} :
            pc'[q] = pc[q] /\ run'[q] = run[q] /\ seen'[q] = seen[q]
    BY <1>1, <1>2 DEF Leave, task
<1>4. /\ pc[j] = "saving" /\ i \in Invoices
      /\ \A k \in Invoices \ {i} : row'[k] = row[k]
      /\ row'[i].thread = t
      /\ AnswersArrive => row[i].ref = None /\ row'[i].ref = run[j].st.ref
      /\ row'[i].status =
                IF run[j].st.ref # None THEN "paid"
                ELSE IF run[j].st.decision = "needs_review" THEN "pending_review"
                ELSE "dead_lettered"
    BY SaveFacts
<1>5. /\ ~Published(t) /\ ckpt[t] = run[j]
      /\ to \in {"done", "raised", "fail"}
      /\ AnswersArrive => to # "fail"
  <2>1. to \in {"done", "raised", "fail"}
      BY <1>2, AfterCommitFacts
  <2>2. AnswersArrive => to # "fail"
      BY <1>2, PipelineAssumption DEF AfterCommit, AfterCrash, AnswersArrive
  <2> QED
      BY <1>1, <1>4, <2>1, <2>2
         DEF ThreadsArePublishedLate, JobRunsAreSaved, GraphOver
<1> HIDE DEF i, t
<1>6. JobsAreApart'
    BY <1>3 DEF JobsAreApart
<1>7. ThreadsArePublishedLate'
  <2>1. \A s \in Threads : Published(s)' => Published(s) \/ s = t
      BY <1>1, <1>3, <1>4 DEF Published, NoRow
  <2> SUFFICES ASSUME NEW k \in Jobs, NEW n \in 1..MaxTries, Published(<<k, n>>)'
               PROVE  /\ n <= try[k]
                      /\ pc'[k] \notin GraphOver => n # try[k]
      BY <1>3 DEF ThreadsArePublishedLate
  <2>2. Published(<<k, n>>) \/ <<k, n>> = t
      BY <2>1 DEF Threads
  <2>3. CASE <<k, n>> = t
      BY <1>1, <1>3, <1>5, <2>3 DEF t, GraphOver
  <2>4. CASE Published(<<k, n>>)
      BY <1>3, <1>4, <1>5, <2>4 DEF ThreadsArePublishedLate, Procs, GraphOver
  <2> QED
      BY <2>2, <2>3, <2>4
<1>8. JobRunsAreSaved'
    BY <1>3, <1>5 DEF JobRunsAreSaved, Procs
<1>9. JobsPassOnce'
  <2>1. IsFirstPass(Fresh, to)
      BY <1>5 DEF IsFirstPass, Fresh, EmptyState, END
  <2> QED
      BY <1>3, <2>1 DEF JobsPassOnce, Procs
<1>10. ClicksAnswer'
    BY <1>1, <1>3 DEF ClicksAnswer, Procs
<1>11. ASSUME NEW k \in Jobs, k # j
       PROVE  /\ pc'[k] = pc[k] /\ seen'[k] = seen[k]
              /\ pc[k] \in Working \cup {"claim"} => row'[inv[k]] = row[inv[k]]
  <2>1. k \in Procs /\ pc'[k] = pc[k] /\ seen'[k] = seen[k]
      BY <1>3, <1>11 DEF Procs
  <2>2. pc[k] # "idle" => inv[k] \in Invoices /\ inv[k] # None
      BY <2>1, GraphAssumption DEF Started
  <2> QED
      BY <1>4, <1>11, <2>1, <2>2 DEF JobsAreApart, Working, i
<1>12. RowsFollowTheJob'
  <2>1. row'[i].status \notin Unclaimed
      BY <1>4, GraphAssumption DEF Unclaimed, InvoiceStatus
  <2> QED
      BY <1>3, <1>5, <1>11, <2>1
         DEF RowsFollowTheJob, Working, GuardedByTry, i
<1>13. ReviewIsResumable'
  <2>1. run[j].st.ref = None /\ run[j].st.decision = "needs_review"
            => run[j].next = "human_approval"
      BY <1>4 DEF JobsPassOnce, IsFirstPass, OutcomesAreKnown, OutcomeIsKnown
  <2>2. row'[i].status = "pending_review" => ckpt[t].next = "human_approval"
      BY <1>4, <1>5, <2>1
  <2> QED
      BY <1>1, <1>3, <1>4, <2>2 DEF ReviewIsResumable
<1>14. ASSUME AnswersArrive PROVE RowsShowTheirPayment'
  <2> USE <1>14 DEF RowsShowTheirPayment
  <2>1. \A k \in Invoices : row'[k].ref # None =>
            row'[k].status \in {"paid"} \cup Answers
      BY <1>4 DEF PaymentsRest
  <2>2. PaymentsRest'
      BY <1>3, <1>5, <1>11, <2>1 DEF PaymentsRest, Working
  <2>3. ClicksFindThePayment'
    <3> SUFFICES ASSUME NEW c \in Clicks, pc'[c] \in {"graph", "returned"},
                        seen'[c].thread # None,
                        seen'[c].thread = row'[inv[c]].thread,
                        row'[inv[c]].ref # None
                 PROVE  run'[c].st.ref = row'[inv[c]].ref
        BY <1>3 DEF ClicksFindThePayment
    <3>1. /\ c \in Procs \ {j} /\ pc[c] = pc'[c] /\ seen'[c] = seen[c]
          /\ run'[c] = run[c]
        BY <1>1, <1>3 DEF Procs
    <3>2. inv[c] \in Invoices
        BY <3>1 DEF Started
    <3>3. inv[c] # i
        BY <1>4, <1>5, <3>1 DEF Published
    <3> QED
        BY <1>4, <3>1, <3>2, <3>3 DEF ClicksFindThePayment
  <2>4. RowTellsItsThread'
      BY <1>1, <1>3, <1>4, <1>5 DEF RowTellsItsThread
  <2> QED
      BY <2>2, <2>3, <2>4
<1> QED
    BY <1>6, <1>7, <1>8, <1>9, <1>10, <1>12, <1>13, <1>14
       DEF JobParts, AnswersArrive

\* A session's SELECT, for the three that a job makes.
LEMMA JobLoadKeepsJobParts ==
    ASSUME OneJobInv, NEW j \in Jobs, NEW to,
           \/ pc[j] = "queued" /\ to = "claim" /\ MayClaim(row[inv[j]])
           \/ pc[j] = "returned" /\ to = "saving"
           \/ pc[j] = "fail" /\ to = "failing",
           Load(j, inv[j], to), UNCHANGED <<db, ckpt, task, run>>
    PROVE  JobParts'
<1> USE DEF OneJobInv, AuditInv, IInv
<1>1. /\ pc \in [Procs -> JobPC \cup ClickPC] /\ seen \in [Procs -> Row]
      /\ j \in Procs /\ j \notin Clicks /\ inv[j] \in Invoices
    BY PipelineAssumption DEF TypeOK, Row, Procs, Started
<1>2. /\ UNCHANGED <<row, ckpt, inv, try, run>>
      /\ pc'[j] = to /\ seen'[j] = row[inv[j]]
      /\ \A q \in Procs \ {j} : pc'[q] = pc[q] /\ seen'[q] = seen[q]
    BY <1>1 DEF Load, db, task
<1>3. ThreadsArePublishedLate'
  <2>1. \A t \in Threads : Published(t)' => Published(t)
      BY <1>1, <1>2 DEF Published
  <2>2. \A k \in Jobs : pc[k] \in GraphOver => pc'[k] \in GraphOver
      BY <1>2 DEF Procs, GraphOver
  <2> QED
      BY <1>2, <2>1, <2>2, NoNewThreads
<1>4. JobsAreApart' /\ ReviewIsResumable'
    BY <1>2 DEF JobsAreApart, ReviewIsResumable
<1>5. JobRunsAreSaved'
    BY <1>2 DEF JobRunsAreSaved, Procs
<1>6. JobsPassOnce'
    BY <1>2 DEF JobsPassOnce, IsFirstPass, Procs
<1>7. ClicksAnswer'
    BY <1>1, <1>2 DEF ClicksAnswer, Procs
<1>8. \A k \in Jobs \ {j} : pc'[k] = pc[k] /\ seen'[k] = seen[k]
    BY <1>2 DEF Procs
<1>9. RowsFollowTheJob'
  <2>1. MayClaim(row[inv[j]]) => row[inv[j]].status \in {"received", "failed"}
      BY DEF MayClaim
  <2> QED
      BY <1>2, <1>8, <2>1 DEF RowsFollowTheJob, GuardedByTry
<1>10. ASSUME AnswersArrive PROVE RowsShowTheirPayment'
  <2> USE <1>10 DEF RowsShowTheirPayment
  <2>1. MayClaim(row[inv[j]]) => row[inv[j]].ref = None
      BY <1>1 DEF PaymentsRest, MayClaim, Answers
  <2>2. PaymentsRest'
      BY <1>2, <1>8, <2>1 DEF PaymentsRest, Working
  <2>3. ClicksFindThePayment' /\ RowTellsItsThread'
      BY <1>1, <1>2 DEF ClicksFindThePayment, RowTellsItsThread, Procs
  <2> QED
      BY <2>2, <2>3
<1> QED
    BY <1>3, <1>4, <1>5, <1>6, <1>7, <1>9, <1>10 DEF JobParts, AnswersArrive
-----------------------------------------------------------------------------
(***************************************************************************)
(* The invariant, by process.                                              *)
(***************************************************************************)
LEMMA GraphStepKeepsJobParts ==
    ASSUME OneJobInv, NEW p \in Procs, GraphStep(p)
    PROVE  JobParts'
<1> USE DEF OneJobInv, AuditInv
<1>1. /\ pc[p] = "graph"
      /\ \E cp, to : Advance(p, cp, to) /\ GoesOn(run[p], cp, to)
    BY GraphStepGoesOn
<1>2. PICK cp, to : Advance(p, cp, to) /\ GoesOn(run[p], cp, to)
    BY <1>1
<1>3. CASE Saved(p, cp, to)
  <2>1. cp \in Checkpoint /\ to \in {"graph", "returned"}
      BY <1>2 DEF GoesOn
  <2>2. p \in Jobs => IsFirstPass(cp, to)
      BY <1>1, <1>2 DEF GoesOn, JobsPassOnce
  <2>3. p \in Clicks => cp.st.human # None
      BY <1>1, <1>2 DEF GoesOn, ClicksAnswer
  <2>4. p \in Clicks /\ AnswersArrive => PaymentFound(p, cp)
      BY <1>1, <1>2
         DEF GoesOn, PaymentFound, RowsShowTheirPayment, ClicksFindThePayment
  <2> QED
      BY <1>1, <1>3, <2>1, <2>2, <2>3, <2>4, SavedKeepsJobParts
<1>4. CASE \E lost : Left(p, lost) /\ LeavesFrom(p, lost)
    BY <1>4, LeftKeepsJobParts
<1>5. pc[p] \notin Stopped
    BY <1>1 DEF Stopped
<1> QED
    BY <1>2, <1>3, <1>4, <1>5, AdvanceKinds

LEMMA StartGraphKeepsJobParts ==
    ASSUME OneJobInv, NEW j \in Jobs, StartGraph(j)
    PROVE  JobParts'
<1> DEFINE st == [EmptyState EXCEPT !.inv = inv[j]]
           cp == [st |-> st, next |-> "extract", asked |-> FALSE]
<1>1. /\ j \in Procs /\ j \notin Clicks /\ pc[j] = "setup" /\ inv[j] \in Invoices
      /\ Advance(j, cp, "graph")
    BY PipelineAssumption DEF StartGraph, StepTo, InterruptBefore, END, Procs,
           OneJobInv, AuditInv, IInv, Started
<1>2. st \in State /\ st.decision = None
    BY <1>1 DEF EmptyState, State, InvoiceState, Errors
<1>3. cp \in Checkpoint
    BY <1>2 DEF Checkpoint, State, Nodes
<1>4. IsFirstPass(cp, "graph")
    BY <1>2 DEF IsFirstPass, END
<1> HIDE DEF cp
<1>5. CASE Saved(j, cp, "graph")
    BY <1>1, <1>3, <1>4, <1>5, SavedKeepsJobParts
<1>6. CASE \E lost : Left(j, lost) /\ LeavesFrom(j, lost)
    BY <1>1, <1>6, LeftKeepsJobParts
<1>7. pc[j] \notin Stopped
    BY <1>1 DEF Stopped
<1> QED
    BY <1>1, <1>5, <1>6, <1>7, AdvanceKinds

LEMMA JobStepKeepsJobParts ==
    ASSUME OneJobInv, NEW j \in Jobs, JobStep(j)
    PROVE  JobParts'
<1>1. j \in Procs
    BY DEF Procs
<1>2. CASE ClaimRead(j)
  <2>1. CASE MayClaim(row[inv[j]])
      BY <1>2, <2>1, JobLoadKeepsJobParts DEF ClaimRead
  <2>2. CASE ~MayClaim(row[inv[j]])
    <3>1. Left(j, "done") /\ LeavesFrom(j, "done")
        BY <1>2, <2>2, PipelineAssumption
           DEF ClaimRead, Left, LeavesFrom, Stopped
    <3> QED
        BY <1>1, <3>1, LeftKeepsJobParts
  <2> QED
      BY <2>1, <2>2
<1>3. CASE Claim(j)
  <2>1. PICK to \in {"setup", "raised"} : StatusCommit(j, "extracting", to)
      BY <1>3, ClaimCommits
  <2> QED
      BY <1>1, <2>1, StatusCommitKeepsJobParts
<1>4. CASE StartGraph(j)
    BY <1>4, StartGraphKeepsJobParts
<1>5. CASE SaveRead(j) \/ FailRead(j)
    BY <1>5, JobLoadKeepsJobParts DEF SaveRead, FailRead
<1>6. CASE Save(j)
    BY <1>6, SaveKeepsJobParts
<1>7. CASE Fail(j)
  <2>1. StatusCommit(j, "failed", "raised")
      BY <1>7 DEF Fail, StatusCommit
  <2> QED
      BY <1>1, <2>1, StatusCommitKeepsJobParts
<1> QED
    BY <1>2, <1>3, <1>4, <1>5, <1>6, <1>7 DEF JobStep

LEMMA ResumeKeepsJobParts ==
    ASSUME OneJobInv, NEW c \in Clicks, Resume(c)
    PROVE  JobParts'
<1> USE DEF OneJobInv, AuditInv, IInv
<1> DEFINE saved == IF seen[c].thread = None THEN Fresh ELSE ckpt[seen[c].thread]
<1>1. /\ c \in Procs /\ c \notin Jobs /\ pc[c] = "open"
      /\ act[c] \in HumanActions /\ None \notin HumanActions
      /\ inv[c] \in Invoices
      /\ seen[c].thread # None => seen[c].thread \in Threads
    BY PipelineAssumption, GraphAssumption
       DEF Resume, Procs, TypeOK, Started, InvoiceRow
<1>2. saved \in Checkpoint /\ saved.st \in State
    BY <1>1, InitialValues DEF TypeOK, Checkpoint, State
<1>3. seen[c].thread # None => saved = ckpt[seen[c].thread]
    OBVIOUS
<1> DEFINE st == ResumeInput(saved, act[c])
<1>4. PICK entry \in IF saved.next = "human_approval" THEN ResumeAt ELSE {"extract"} :
            Advance(c, [st |-> st, next |-> entry,
                        asked |-> saved.asked /\ entry = "human_approval"],
                    "graph")
    BY DEF Resume
<1>5. /\ st \in State /\ st.human = act[c] /\ st.ref = saved.st.ref
      /\ entry \in {"extract", "human_approval"}
    BY <1>1, <1>2, <1>4, PipelineAssumption DEF ResumeInput, State, InvoiceState
<1> HIDE DEF saved, st
<1>6. PICK cp : /\ cp = [st |-> st, next |-> entry,
                         asked |-> saved.asked /\ entry = "human_approval"]
                /\ Advance(c, cp, "graph")
    BY <1>4
<1>7. cp \in Checkpoint /\ cp.st = st
    BY <1>2, <1>5, <1>6 DEF Checkpoint, State, Nodes
<1>8. CASE Saved(c, cp, "graph")
  <2>1. cp.st.human # None
      BY <1>1, <1>5, <1>7
  <2>2. AnswersArrive => PaymentFound(c, cp)
      BY <1>1, <1>3, <1>5, <1>7
         DEF PaymentFound, RowsShowTheirPayment, RowTellsItsThread
  <2> QED
      BY <1>1, <1>7, <1>8, <2>1, <2>2, SavedKeepsJobParts
<1>9. CASE \E lost : Left(c, lost) /\ LeavesFrom(c, lost)
    BY <1>1, <1>9, LeftKeepsJobParts
<1>10. pc[c] \notin Stopped
    BY <1>1 DEF Stopped
<1> QED
    BY <1>1, <1>6, <1>8, <1>9, <1>10, AdvanceKinds

LEMMA ClickStepKeepsJobParts ==
    ASSUME OneJobInv, NEW c \in Clicks, ClickStep(c)
    PROVE  JobParts'
<1>1. CASE Resume(c)
    BY <1>1, ResumeKeepsJobParts
<1>2. CASE ClickCommit(c)
  <2>1. c \in Procs
      BY DEF Procs
  <2>2. StatusCommit(c, StatusAfterClick(act[c]), "done")
      BY <1>2 DEF ClickCommit, StatusCommit, StatusAfterClick, Answers
  <2> QED
      BY <2>1, <2>2, StatusCommitKeepsJobParts
<1> QED
    BY <1>1, <1>2 DEF ClickStep
-----------------------------------------------------------------------------
LEMMA ReceiveKeepsJobParts ==
    ASSUME OneJobInv, NEW i \in Invoices, Receive(i)
    PROVE  JobParts'
<1> USE DEF OneJobInv, AuditInv, IInv
<1>1. /\ row \in [Invoices -> Row] /\ row[i] = NoRow
      /\ row' = [row EXCEPT ![i].status = "received"]
      /\ UNCHANGED <<ckpt, pc, inv, try, seen, run>>
    BY DEF Receive, TypeOK, Row, task
<1>2. /\ \A k \in Invoices : row'[k].thread = row[k].thread
                             /\ row'[k].ref = row[k].ref
      /\ \A k \in Invoices \ {i} : row'[k] = row[k]
      /\ row[i].ref = None /\ row[i].status = None
      /\ row'[i].status = "received"
    BY <1>1 DEF Row, InvoiceRow, NoRow
<1>3. JobsAreApart' /\ JobRunsAreSaved' /\ JobsPassOnce' /\ ClicksAnswer'
    BY <1>1 DEF JobsAreApart, JobRunsAreSaved, JobsPassOnce, ClicksAnswer
<1>4. ThreadsArePublishedLate'
    BY <1>1, <1>2, NoNewThreads DEF Published
<1>5. ReviewIsResumable'
    BY <1>1, <1>2 DEF ReviewIsResumable
<1>6. \A j \in Jobs : pc[j] \in Working \cup {"claim"} =>
            inv[j] \in Invoices /\ inv[j] # i
  <2> SUFFICES ASSUME NEW j \in Jobs, pc[j] \in Working \cup {"claim"}
               PROVE  inv[j] \in Invoices /\ inv[j] # i
      OBVIOUS
  <2>1. inv[j] \in Invoices
      BY DEF Started, Procs, Working
  <2>2. row[inv[j]].status # None
      BY GraphAssumption DEF RowsFollowTheJob, Working, GuardedByTry, Answers,
                             Unclaimed, InvoiceStatus
  <2> QED
      BY <1>2, <2>1, <2>2
<1>7. RowsFollowTheJob'
    BY <1>1, <1>2, <1>6 DEF RowsFollowTheJob, Working, GuardedByTry
<1>8. ASSUME AnswersArrive PROVE RowsShowTheirPayment'
  <2> USE <1>8 DEF RowsShowTheirPayment
  <2>1. PaymentsRest'
      BY <1>1, <1>2, <1>6 DEF PaymentsRest, Working
  <2>2. \A c \in Clicks : pc[c] \in {"graph", "returned"} => inv[c] \in Invoices
      BY DEF Started, Procs
  <2>3. ClicksFindThePayment' /\ RowTellsItsThread'
      BY <1>1, <1>2, <2>2 DEF ClicksFindThePayment, RowTellsItsThread
  <2> QED
      BY <2>1, <2>3
<1> QED
    BY <1>3, <1>4, <1>5, <1>7, <1>8 DEF JobParts, AnswersArrive

LEMMA EnqueueKeepsJobParts ==
    ASSUME OneJob, OneJobInv, NEW j \in Jobs, NEW i \in Invoices, Enqueue(j, i)
    PROVE  JobParts'
<1> USE DEF OneJobInv, AuditInv, IInv
<1>1. /\ j \in Procs /\ j \notin Clicks /\ pc[j] = "idle"
      /\ \A k \in Jobs : inv[k] # i
      /\ UNCHANGED <<row, ckpt, try, seen, run>>
    BY PipelineAssumption DEF Enqueue, OneJob, Procs, db
<1>2. /\ pc'[j] = "queued" /\ inv'[j] = i
      /\ \A q \in Procs \ {j} : pc'[q] = pc[q] /\ inv'[q] = inv[q]
    BY <1>1 DEF Enqueue, TypeOK
<1>3. JobsAreApart'
    BY <1>1, <1>2 DEF JobsAreApart, Procs
<1>4. ThreadsArePublishedLate'
  <2>1. \A t \in Threads : Published(t)' => Published(t)
      BY <1>1 DEF Published
  <2>2. \A k \in Jobs : pc[k] \in GraphOver => pc'[k] = pc[k]
      BY <1>1, <1>2 DEF Procs, GraphOver
  <2> QED
      BY <1>1, <2>1, <2>2, NoNewThreads
<1>5. ReviewIsResumable'
    BY <1>1 DEF ReviewIsResumable
<1>6. JobRunsAreSaved' /\ JobsPassOnce'
  <2>1. \A k \in Jobs : pc'[k] = pc[k] \/ pc'[k] = "queued"
      BY <1>2 DEF Procs
  <2> QED
      BY <1>1, <2>1 DEF JobRunsAreSaved, JobsPassOnce, IsFirstPass
<1>7. ClicksAnswer'
    BY <1>1, <1>2 DEF ClicksAnswer, Procs
<1>8. RowsFollowTheJob'
    BY <1>1, <1>2 DEF RowsFollowTheJob, GuardedByTry, Procs
<1>9. AnswersArrive => RowsShowTheirPayment'
    BY <1>1, <1>2 DEF RowsShowTheirPayment, PaymentsRest, ClicksFindThePayment,
                      RowTellsItsThread, Working, Procs
<1> QED
    BY <1>3, <1>4, <1>5, <1>6, <1>7, <1>8, <1>9 DEF JobParts, AnswersArrive

LEMMA RedeliveryKeepsJobParts ==
    ASSUME OneJobInv, NEW j \in Jobs, Retry(j) \/ GiveUp(j)
    PROVE  JobParts'
<1> USE DEF OneJobInv, AuditInv, IInv
<1>1. PICK to \in {"queued", "done"} :
        /\ pc' = [pc EXCEPT ![j] = to] /\ pc[j] = "raised"
        /\ UNCHANGED <<row, ckpt, inv, seen, run>>
    BY DEF Retry, GiveUp, db, task
<1>2. /\ j \in Procs /\ j \notin Clicks /\ try \in [Jobs -> 1..MaxTries]
      /\ pc'[j] = to /\ \A q \in Procs \ {j} : pc'[q] = pc[q]
      /\ MaxTries \in Nat
    BY <1>1, PipelineAssumption DEF TypeOK, Procs
<1>3. /\ \A k \in Jobs \ {j} : try'[k] = try[k]
      /\ \/ to = "queued" /\ try'[j] = try[j] + 1
         \/ to = "done" /\ try'[j] = try[j]
  <2>1. CASE Retry(j)
    <3>1. pc'[j] = "queued"
        BY <1>1, <1>2, <2>1 DEF Retry, TypeOK
    <3> QED
        BY <1>2, <2>1, <3>1 DEF Retry
  <2>2. CASE GiveUp(j)
    <3>1. pc'[j] = "done"
        BY <1>1, <1>2, <2>2 DEF GiveUp, TypeOK
    <3> QED
        BY <1>2, <2>2, <3>1 DEF GiveUp, task
  <2> QED
      BY <2>1, <2>2
<1>4. ThreadsArePublishedLate'
  <2> SUFFICES ASSUME NEW k \in Jobs, NEW n \in 1..MaxTries, Published(<<k, n>>)'
               PROVE  /\ n <= try'[k]
                      /\ pc'[k] \notin GraphOver => n # try'[k]
      BY DEF ThreadsArePublishedLate
  <2>1. /\ n <= try[k] /\ try[k] \in 1..MaxTries
        /\ pc[k] \notin GraphOver => n # try[k]
      BY <1>1, <1>2 DEF ThreadsArePublishedLate, Published
  <2>2. CASE k = j
      BY <1>2, <1>3, <2>1, <2>2 DEF GraphOver
  <2>3. CASE k # j
      BY <1>2, <1>3, <2>1, <2>3 DEF Procs
  <2> QED
      BY <2>2, <2>3
<1>5. JobsAreApart' /\ ReviewIsResumable'
    BY <1>1 DEF JobsAreApart, ReviewIsResumable
<1>6. JobRunsAreSaved' /\ JobsPassOnce'
    BY <1>1, <1>2, <1>3 DEF JobRunsAreSaved, JobsPassOnce, IsFirstPass, Procs
<1>7. ClicksAnswer'
    BY <1>1, <1>2 DEF ClicksAnswer, Procs
<1>8. RowsFollowTheJob'
    BY <1>1, <1>2 DEF RowsFollowTheJob, GuardedByTry, Procs
<1>9. AnswersArrive => RowsShowTheirPayment'
    BY <1>1, <1>2 DEF RowsShowTheirPayment, PaymentsRest, ClicksFindThePayment,
                      RowTellsItsThread, Working, Procs
<1> QED
    BY <1>4, <1>5, <1>6, <1>7, <1>8, <1>9 DEF JobParts, AnswersArrive

LEMMA ClickReadKeepsJobParts ==
    ASSUME OneJobInv, NEW c \in Clicks, NEW i \in Invoices, NEW a \in HumanActions,
           ClickRead(c, i, a)
    PROVE  JobParts'
<1> USE DEF OneJobInv, AuditInv, IInv
<1>1. PICK to \in {"done", "open"} :
        /\ pc' = [pc EXCEPT ![c] = to] /\ seen' = [seen EXCEPT ![c] = row[i]]
        /\ inv' = [inv EXCEPT ![c] = i]
        /\ UNCHANGED <<row, ckpt, try, run>>
    BY DEF ClickRead, Load, db
<1>2. /\ c \in Procs /\ c \notin Jobs
      /\ pc'[c] = to /\ seen'[c] = row[i]
      /\ \A q \in Procs \ {c} :
            pc'[q] = pc[q] /\ seen'[q] = seen[q] /\ inv'[q] = inv[q]
    BY <1>1, PipelineAssumption DEF TypeOK, Procs
<1>3. \A j \in Jobs : pc'[j] = pc[j] /\ seen'[j] = seen[j] /\ inv'[j] = inv[j]
    BY <1>2 DEF Procs
<1>4. ThreadsArePublishedLate'
  <2>1. \A t \in Threads : Published(t)' => Published(t)
      BY <1>1, <1>2 DEF Published
  <2> QED
      BY <1>1, <1>3, <2>1, NoNewThreads
<1>5. JobsAreApart' /\ JobRunsAreSaved' /\ JobsPassOnce' /\ RowsFollowTheJob'
    BY <1>1, <1>3 DEF JobsAreApart, JobRunsAreSaved, JobsPassOnce, RowsFollowTheJob
<1>6. ClicksAnswer'
    BY <1>1, <1>2 DEF ClicksAnswer, Procs
<1>7. ReviewIsResumable'
    BY <1>1 DEF ReviewIsResumable
<1>8. AnswersArrive => RowsShowTheirPayment'
    BY <1>1, <1>2, <1>3
       DEF RowsShowTheirPayment, PaymentsRest, ClicksFindThePayment,
           RowTellsItsThread, Procs
<1> QED
    BY <1>4, <1>5, <1>6, <1>7, <1>8 DEF JobParts, AnswersArrive

LEMMA FaultKeepsJobParts ==
    ASSUME OneJobInv, NEW p \in Procs, StepRaises(p) \/ Crash(p)
    PROVE  JobParts'
BY FaultLeaves, LeftKeepsJobParts
-----------------------------------------------------------------------------
LEMMA NextKeepsOneJobInv == OneJob /\ OneJobInv /\ [Next]_vars => OneJobInv'
<1> SUFFICES ASSUME OneJob, OneJobInv, [Next]_vars PROVE JobParts'
    BY NextKeepsAuditInv DEF OneJobInv, JobParts
<1>1. CASE Environment
  <2>1. CASE \E i \in Invoices : Receive(i)
      BY <2>1, ReceiveKeepsJobParts
  <2>2. CASE \E j \in Jobs, i \in Invoices : Enqueue(j, i)
      BY <2>2, EnqueueKeepsJobParts
  <2>3. CASE \E j \in Jobs : Retry(j) \/ GiveUp(j)
      BY <2>3, RedeliveryKeepsJobParts
  <2>4. CASE \E c \in Clicks, i \in Invoices, a \in HumanActions :
                ClickRead(c, i, a)
      BY <2>4, ClickReadKeepsJobParts
  <2>5. CASE \E p \in Procs : StepRaises(p) \/ Crash(p)
      BY <2>5, FaultKeepsJobParts
  <2> QED
      BY <1>1, <2>1, <2>2, <2>3, <2>4, <2>5 DEF Environment
<1>2. CASE \E p \in Procs : GraphStep(p)
    BY <1>2, GraphStepKeepsJobParts
<1>3. CASE \E j \in Jobs : JobStep(j)
    BY <1>3, JobStepKeepsJobParts
<1>4. CASE \E c \in Clicks : ClickStep(c)
    BY <1>4, ClickStepKeepsJobParts
<1>5. CASE UNCHANGED vars
  <2>1. UNCHANGED <<row, ckpt, pc, inv, try, seen, run>>
      BY <1>5 DEF vars
  <2> QED
      BY <2>1 DEF OneJobInv, JobParts, JobsAreApart, ThreadsArePublishedLate,
                  Published, JobRunsAreSaved, JobsPassOnce, ClicksAnswer,
                  RowsFollowTheJob, ReviewIsResumable, AnswersArrive,
                  RowsShowTheirPayment, PaymentsRest, ClicksFindThePayment,
                  RowTellsItsThread
<1> QED
    BY <1>1, <1>2, <1>3, <1>4, <1>5 DEF Next

LEMMA InitEstablishesOneJobInv == Init => OneJobInv
<1> SUFFICES ASSUME Init PROVE JobParts
    BY InitEstablishesAuditInv DEF OneJobInv, JobParts
<1>1. /\ \A i \in Invoices : row[i] = NoRow
      /\ \A p \in Procs : pc[p] = "idle" /\ inv[p] = None /\ seen[p] = NoRow
                          /\ run[p] = Fresh
      /\ None \notin Threads /\ None # "pending_review"
    BY PipelineAssumption, GraphAssumption DEF Init, Refs, InvoiceStatus
<1>2. \A t \in Threads : ~Published(t)
    BY <1>1 DEF Published, NoRow
<1>3. JobsAreApart /\ ThreadsArePublishedLate /\ JobRunsAreSaved
    BY <1>1, <1>2 DEF JobsAreApart, ThreadsArePublishedLate, JobRunsAreSaved,
                      Procs, Threads
<1>4. JobsPassOnce
    BY <1>1 DEF JobsPassOnce, IsFirstPass, Fresh, EmptyState, END, Procs
<1>5. ClicksAnswer
    BY <1>1 DEF ClicksAnswer, Procs
<1>6. RowsFollowTheJob /\ ReviewIsResumable
    BY <1>1 DEF RowsFollowTheJob, ReviewIsResumable, GuardedByTry, NoRow, Procs
<1>7. RowsShowTheirPayment
    BY <1>1 DEF RowsShowTheirPayment, PaymentsRest, ClicksFindThePayment,
                RowTellsItsThread, Working, NoRow, Procs
<1> QED
    BY <1>3, <1>4, <1>5, <1>6, <1>7 DEF JobParts

(***************************************************************************)
(* The inductive invariant of one job per invoice.                         *)
(***************************************************************************)
THEOREM OneJobInvariance ==
    ASSUME OneJob
    PROVE  Spec => []OneJobInv
<1>1. OneJobInv /\ [Next]_vars => OneJobInv'
    BY NextKeepsOneJobInv
<1> QED
    BY <1>1, InitEstablishesOneJobInv, PTL DEF Spec

(***************************************************************************)
(* An invoice that waits for a person can be resumed, whatever failed      *)
(* between the graph's checkpoint and the worker's commit, and whoever     *)
(* pressed in between: its row names a thread that waits or was answered.  *)
(***************************************************************************)
THEOREM ReviewsStayResumable ==
    ASSUME OneJob
    PROVE  Spec => []ReviewIsResumable
<1>1. OneJobInv => ReviewIsResumable
    BY DEF OneJobInv
<1> QED
    BY <1>1, OneJobInvariance, PTL

(***************************************************************************)
(* The reference in a row is the one its thread ended with, even when      *)
(* presses overlap on that thread, a step raises or stops and the          *)
(* checkpointer fails, as long as every COMMIT is answered.                *)
(***************************************************************************)
THEOREM RowsTellTheirThread ==
    ASSUME OneJob, AnswersArrive
    PROVE  Spec => []RowTellsItsThread
<1>1. OneJobInv => RowTellsItsThread
    BY DEF OneJobInv, RowsShowTheirPayment
<1> QED
    BY <1>1, OneJobInvariance, PTL
-----------------------------------------------------------------------------
\* No step takes a reference out of a row or puts another in its place.
LEMMA ReferencesStay ==
    ASSUME AnswersArrive, OneJobInv, [Next]_vars, NEW i \in Invoices, row[i].ref # None
    PROVE  row'[i].ref = row[i].ref
<1> USE DEF OneJobInv, AuditInv, IInv
<1>1. ASSUME UNCHANGED row PROVE row'[i].ref = row[i].ref
    BY <1>1
<1>2. ASSUME NEW p \in Procs, NEW s, NEW to, StatusCommit(p, s, to)
      PROVE  row'[i].ref = row[i].ref
    BY <1>2, StatusCommitFacts DEF StatusCommit
<1>3. CASE Environment
  <2>1. CASE \E k \in Invoices : Receive(k)
    <3>1. PICK k \in Invoices : Receive(k)
        BY <2>1
    <3>2. row \in [Invoices -> Row] /\ i # k
        BY <3>1 DEF Receive, TypeOK, Row, NoRow
    <3> QED
        BY <3>1, <3>2 DEF Receive
  <2>2. CASE ~\E k \in Invoices : Receive(k)
      BY <1>1, <1>3, <2>2 DEF Environment, Enqueue, Retry, GiveUp, ClickRead,
                              StepRaises, Crash, db
  <2> QED
      BY <2>1, <2>2
<1>4. CASE \E p \in Procs : GraphStep(p)
    BY <1>1, <1>4 DEF GraphStep, Extract, Decide, Notify, HumanApproval, Execute,
                      DeadLetter, StepTo, Advance, db
<1>5. CASE \E j \in Jobs : JobStep(j)
  <2>1. PICK j \in Jobs : JobStep(j)
      BY <1>5
  <2>2. CASE Save(j)
      BY <2>2, SaveFacts
  <2>3. CASE Claim(j)
    <3>1. PICK to \in {"setup", "raised"} : StatusCommit(j, "extracting", to)
        BY <2>3, ClaimCommits
    <3> QED
        BY <1>2, <3>1 DEF Procs
  <2>4. CASE Fail(j)
    <3>1. StatusCommit(j, "failed", "raised")
        BY <2>4 DEF Fail, StatusCommit
    <3> QED
        BY <1>2, <3>1 DEF Procs
  <2>5. CASE ClaimRead(j) \/ StartGraph(j) \/ SaveRead(j) \/ FailRead(j)
      BY <1>1, <2>5 DEF ClaimRead, StartGraph, StepTo, Advance, SaveRead,
                        FailRead, db
  <2> QED
      BY <2>1, <2>2, <2>3, <2>4, <2>5 DEF JobStep
<1>6. CASE \E c \in Clicks : ClickStep(c)
  <2>1. PICK c \in Clicks : ClickStep(c)
      BY <1>6
  <2>2. CASE Resume(c)
      BY <1>1, <2>2 DEF Resume, Advance, db
  <2>3. CASE ClickCommit(c)
    <3>1. StatusCommit(c, StatusAfterClick(act[c]), "done")
        BY <2>3 DEF ClickCommit, StatusCommit, StatusAfterClick, Answers
    <3> QED
        BY <1>2, <3>1 DEF Procs
  <2> QED
      BY <2>1, <2>2, <2>3 DEF ClickStep
<1>7. CASE UNCHANGED vars
    BY <1>1, <1>7 DEF vars
<1> QED
    BY <1>3, <1>4, <1>5, <1>6, <1>7 DEF Next

(***************************************************************************)
(* A payment the row shows is never lost to a redelivered job, a late      *)
(* commit or a failure handler, and only a press moves the row out of      *)
(* paid, as long as every COMMIT is answered.                              *)
(***************************************************************************)
THEOREM PaymentsAreKept ==
    ASSUME OneJob, AnswersArrive
    PROVE  Spec => PaymentIsKept
<1>1. OneJobInv /\ OneJobInv' /\ [Next]_vars =>
        [\A i \in Invoices : row[i].ref # None =>
            /\ row'[i].ref = row[i].ref
            /\ row'[i].status \in {"paid", "approved", "rejected"}]_vars
  <2> SUFFICES ASSUME OneJobInv, OneJobInv', [Next]_vars,
                      NEW i \in Invoices, row[i].ref # None
               PROVE  /\ row'[i].ref = row[i].ref
                      /\ row'[i].status \in {"paid", "approved", "rejected"}
      OBVIOUS
  <2>1. row'[i].ref = row[i].ref
      BY ReferencesStay
  <2>2. row'[i].status \in {"paid"} \cup Answers
      BY <2>1 DEF OneJobInv, AnswersArrive, RowsShowTheirPayment, PaymentsRest
  <2> QED
      BY <2>1, <2>2 DEF Answers
<1> QED
    BY <1>1, OneJobInvariance, PTL DEF Spec, PaymentIsKept
-----------------------------------------------------------------------------
(***************************************************************************)
(* The audit trail, when buttons are pressed only in review.  Every commit *)
(* assigns a status that its session had not loaded, so the row gets it,   *)
(* whatever was committed in between, and the entry names it.              *)
(***************************************************************************)
InReviewOnly == "click_in_review" \in Discipline

\* A commit whose one entry names the status the row has after it.
LEMMA NamedCommit ==
    ASSUME IInv, AuditEndsInStatus, NEW k \in Invoices,
           NEW loaded, NEW assigned, NEW entry \in InvoiceAuditLog,
           Commit(k, loaded, assigned, <<entry>>), row'[k].status = entry.to
    PROVE  AuditEndsInStatus'
<1>1. /\ \A i \in Invoices \ {k} : row'[i] = row[i] /\ audit'[i] = audit[i]
      /\ audit'[k] = audit[k] \o <<entry>> /\ audit[k] \in Seq(InvoiceAuditLog)
    BY DEF Commit, IInv, TypeOK
<1>2. audit'[k][Len(audit'[k])] = entry
    BY <1>1, AppendedTrail
<1> QED
    BY <1>1, <1>2 DEF AuditEndsInStatus

LEMMA StatusCommitIsNamed ==
    ASSUME IInv, AuditEndsInStatus, NEW p \in Procs, pc[p] # "idle",
           NEW s \in InvoiceStatus, s # seen[p].status,
           NEW entry \in InvoiceAuditLog, entry.to = s,
           Commit(inv[p], seen[p], [seen[p] EXCEPT !.status = s], <<entry>>)
    PROVE  AuditEndsInStatus'
<1>1. inv[p] \in Invoices /\ row'[inv[p]].status = s
    BY StatusCommitFacts
<1>2. PICK new : new = [seen[p] EXCEPT !.status = s]
    OBVIOUS
<1> QED
    BY <1>1, <1>2, NamedCommit

LEMMA JobCommitIsNamed ==
    ASSUME OneJobInv, AuditEndsInStatus, NEW j \in Jobs,
           Claim(j) \/ Save(j) \/ Fail(j)
    PROVE  AuditEndsInStatus'
<1> USE DEF OneJobInv, AuditInv
<1>1. j \in Procs /\ pc[j] # "idle"
    BY DEF Claim, Save, Fail, Procs
<1>2. CASE Claim(j)
  <2>1. PICK entry :
            /\ entry = AuditEntry("received", "extracting", "extraction_started")
            /\ Commit(inv[j], seen[j], [seen[j] EXCEPT !.status = "extracting"],
                      <<entry>>)
      BY <1>2 DEF Claim
  <2>2. entry \in InvoiceAuditLog /\ entry.to = "extracting"
      BY <2>1 DEF AuditEntry, InvoiceAuditLog, InvoiceStatus, AuditEvent
  <2>3. seen[j].status # "extracting" /\ "extracting" \in InvoiceStatus
      BY <1>2 DEF Claim, RowsFollowTheJob, MayClaim, InvoiceStatus
  <2> QED
      BY <1>1, <2>1, <2>2, <2>3, StatusCommitIsNamed
<1>3. CASE Fail(j)
  <2>1. PICK entry :
            /\ entry = AuditEntry("failed", "failed", "processing_failed")
            /\ Commit(inv[j], seen[j], [seen[j] EXCEPT !.status = "failed"],
                      <<entry>>)
      BY <1>3 DEF Fail
  <2>2. entry \in InvoiceAuditLog /\ entry.to = "failed"
      BY <2>1 DEF AuditEntry, InvoiceAuditLog, InvoiceStatus, AuditEvent
  <2>3. seen[j].status # "failed" /\ "failed" \in InvoiceStatus
      BY <1>3 DEF Fail, RowsFollowTheJob, Unclaimed, InvoiceStatus
  <2> QED
      BY <1>1, <2>1, <2>2, <2>3, StatusCommitIsNamed
<1>4. CASE Save(j)
  <2>1. PICK new :
            /\ new = Outcome(seen[j], run[j].st, ThreadOf(j))
            /\ Commit(inv[j], seen[j], new, SaveAudit(new.status))
      BY <1>4 DEF Save
  <2>2. /\ inv[j] \in Invoices
        /\ row'[inv[j]].status =
                IF run[j].st.ref # None THEN "paid"
                ELSE IF run[j].st.decision = "needs_review" THEN "pending_review"
                ELSE "dead_lettered"
      BY <1>4, SaveFacts
  <2>3. Settled(run[j].st) \/ run[j].st.ref # None
      BY <1>4 DEF Save, OutcomesAreKnown, OutcomeIsKnown
  <2>4. /\ new.status = row'[inv[j]].status
        /\ new.status \in {"paid", "pending_review", "dead_lettered"}
      BY <2>1, <2>2, <2>3 DEF Outcome, Settled
  <2>5. PICK entry \in InvoiceAuditLog :
            SaveAudit(new.status) = <<entry>> /\ entry.to = new.status
      BY <2>4 DEF SaveAudit, AuditEntry, InvoiceAuditLog, InvoiceStatus, AuditEvent
  <2> QED
      BY <2>1, <2>2, <2>4, <2>5, NamedCommit
<1> QED
    BY <1>2, <1>3, <1>4

LEMMA ClickCommitIsNamed ==
    ASSUME IInv, PressesSawAReview, AuditEndsInStatus, NEW c \in Clicks,
           ClickCommit(c)
    PROVE  AuditEndsInStatus'
<1>1. /\ c \in Procs /\ pc[c] # "idle" /\ seen[c] \in Row
      /\ seen[c].status = "pending_review"
    BY PipelineAssumption
       DEF ClickCommit, Procs, IInv, TypeOK, Row, PressesSawAReview, InSession
<1>2. PICK to, event, entry :
            /\ to = StatusAfterClick(act[c])
            /\ event = IF act[c] = "approve" THEN "human_approve" ELSE "human_reject"
            /\ entry = AuditEntry(seen[c].status, to, event)
            /\ Commit(inv[c], seen[c], [seen[c] EXCEPT !.status = to], <<entry>>)
    BY DEF ClickCommit
<1>3. to \in {"approved", "rejected"}
    BY <1>2 DEF StatusAfterClick
<1>4. /\ entry \in InvoiceAuditLog /\ entry.to = to
      /\ to \in InvoiceStatus /\ to # seen[c].status
    BY <1>1, <1>2, <1>3
       DEF AuditEntry, InvoiceAuditLog, InvoiceStatus, AuditEvent
<1> QED
    BY <1>1, <1>2, <1>4, StatusCommitIsNamed

LEMMA NextKeepsTrail ==
    ASSUME OneJobInv, PressesSawAReview, AuditEndsInStatus, [Next]_vars
    PROVE  AuditEndsInStatus'
<1> USE DEF OneJobInv, AuditInv
<1>1. ASSUME UNCHANGED db PROVE AuditEndsInStatus'
    BY <1>1 DEF AuditEndsInStatus, db
<1>2. CASE Environment
  <2>1. CASE \E k \in Invoices : Receive(k)
    <3>1. PICK k \in Invoices : Receive(k)
        BY <2>1
    <3>2. row[k].status # row'[k].status
      <4>1. row[k] \in InvoiceRow(Threads, Refs, Data) /\ row'[k].status = "received"
          BY <3>1 DEF Receive, IInv, TypeOK, InvoiceRow
      <4> QED
          BY <3>1, <4>1, GraphAssumption DEF Receive, NoRow, InvoiceStatus
    <3>3. audit'[k][Len(audit'[k])].to = row'[k].status
        BY <3>1, <3>2, ReceiveIsAudited DEF Audited
    <3>4. \A i \in Invoices \ {k} : row'[i] = row[i] /\ audit'[i] = audit[i]
        BY <3>1 DEF Receive, IInv, TypeOK
    <3> QED
        BY <3>3, <3>4 DEF AuditEndsInStatus
  <2>2. CASE ~\E k \in Invoices : Receive(k)
      BY <1>1, <1>2, <2>2
         DEF Environment, Enqueue, Retry, GiveUp, ClickRead, StepRaises, Crash
  <2> QED
      BY <2>1, <2>2
<1>3. CASE \E p \in Procs : GraphStep(p)
    BY <1>1, <1>3 DEF GraphStep, Extract, Decide, Notify, HumanApproval, Execute,
                      DeadLetter, StepTo, Advance
<1>4. CASE \E j \in Jobs : JobStep(j)
  <2>1. PICK j \in Jobs : JobStep(j)
      BY <1>4
  <2>2. CASE Claim(j) \/ Save(j) \/ Fail(j)
      BY <2>2, JobCommitIsNamed
  <2>3. CASE ClaimRead(j) \/ StartGraph(j) \/ SaveRead(j) \/ FailRead(j)
      BY <1>1, <2>3 DEF ClaimRead, StartGraph, StepTo, Advance, SaveRead, FailRead
  <2> QED
      BY <2>1, <2>2, <2>3 DEF JobStep
<1>5. CASE \E c \in Clicks : ClickStep(c)
    BY <1>1, <1>5, ClickCommitIsNamed DEF ClickStep, Resume, Advance
<1>6. CASE UNCHANGED vars
    BY <1>1, <1>6 DEF vars, db
<1> QED
    BY <1>2, <1>3, <1>4, <1>5, <1>6 DEF Next

\* A press opens its session in review, and keeps what it has loaded.
LEMMA NextKeepsPresses ==
    ASSUME InReviewOnly, OneJobInv, PressesSawAReview, [Next]_vars
    PROVE  PressesSawAReview'
<1> USE DEF OneJobInv, AuditInv, IInv
<1> SUFFICES ASSUME NEW c \in Clicks, InSession(c)'
             PROVE  seen'[c].status = "pending_review"
    BY DEF PressesSawAReview
<1>1. /\ c \in Procs /\ c \notin Jobs /\ pc'[c] \in {"open", "graph", "returned"}
      /\ pc \in [Procs -> JobPC \cup ClickPC] /\ seen \in [Procs -> Row]
    BY PipelineAssumption DEF InSession, Procs, TypeOK, Row
<1>2. ASSUME pc[c] \in {"open", "graph", "returned"}, seen'[c] = seen[c]
      PROVE  seen'[c].status = "pending_review"
    BY <1>1, <1>2 DEF PressesSawAReview, InSession
<1>3. ASSUME NEW p \in Procs, NEW to, Leave(p, to),
             p = c => to \notin {"open", "graph", "returned"}
      PROVE  seen'[c].status = "pending_review"
  <2>1. c # p /\ pc'[c] = pc[c] /\ seen'[c] = seen[c]
      BY <1>1, <1>3 DEF Leave
  <2> QED
      BY <1>1, <1>2, <2>1
<1>4. ASSUME NEW p \in Procs, NEW cp, NEW to, Advance(p, cp, to),
             pc[p] \in {"open", "setup", "graph"}
      PROVE  seen'[c].status = "pending_review"
  <2>1. CASE \E lost \in AfterLostStep(p) : Leave(p, lost)
      BY <1>1, <1>3, <2>1, AfterExceptionFacts DEF AfterLostStep
  <2>2. CASE pc' = [pc EXCEPT ![p] = to] /\ UNCHANGED seen
    <3>1. pc[c] \in {"open", "graph", "returned"}
      <4>1. CASE c = p
          BY <1>4, <4>1, PipelineAssumption DEF TypeOK, ClickPC
      <4>2. CASE c # p
          BY <1>1, <2>2, <4>2
      <4> QED
          BY <4>1, <4>2
    <3> QED
        BY <1>2, <2>2, <3>1
  <2> QED
      BY <1>4, <2>1, <2>2 DEF Advance
<1>5. CASE Environment
  <2>1. CASE \E i \in Invoices : Receive(i)
      BY <1>1, <1>2, <2>1 DEF Receive
  <2>2. CASE \E j \in Jobs, i \in Invoices : Enqueue(j, i)
      BY <1>1, <1>2, <2>2 DEF Enqueue
  <2>3. CASE \E j \in Jobs : Retry(j) \/ GiveUp(j)
      BY <1>1, <1>2, <2>3 DEF Retry, GiveUp
  <2>4. CASE \E d \in Clicks, i \in Invoices, a \in HumanActions : ClickRead(d, i, a)
    <3>1. PICK d \in Clicks, i \in Invoices, a \in HumanActions : ClickRead(d, i, a)
        BY <2>4
    <3>2. row[i].status = "pending_review"
        BY <3>1 DEF ClickRead, ClickAllowed, InReviewOnly
    <3>3. CASE c = d
        BY <1>1, <3>1, <3>2, <3>3 DEF ClickRead, Load
    <3>4. CASE c # d
        BY <1>1, <1>2, <3>1, <3>4 DEF ClickRead, Load
    <3> QED
        BY <3>3, <3>4
  <2>5. CASE \E p \in Procs : StepRaises(p) \/ Crash(p)
      BY <1>1, <1>3, <2>5, AfterExceptionFacts DEF StepRaises, Crash
  <2> QED
      BY <1>5, <2>1, <2>2, <2>3, <2>4, <2>5 DEF Environment
<1>6. CASE \E p \in Procs : GraphStep(p)
  <2>1. PICK p \in Procs : GraphStep(p)
      BY <1>6
  <2> QED
      BY <1>4, <2>1, GraphStepGoesOn
<1>7. CASE \E j \in Jobs : JobStep(j)
  <2>1. PICK j \in Jobs : JobStep(j) /\ j \in Procs
      BY <1>7 DEF Procs
  <2>2. CASE StartGraph(j)
      BY <1>4, <2>1, <2>2 DEF StartGraph, StepTo
  <2>3. CASE ~StartGraph(j)
    <3>1. pc'[c] = pc[c] /\ seen'[c] = seen[c]
        BY <1>1, <2>1, <2>3
           DEF JobStep, ClaimRead, Claim, SaveRead, Save, FailRead, Fail, Load, Leave
    <3> QED
        BY <1>1, <1>2, <3>1
  <2> QED
      BY <2>2, <2>3
<1>8. CASE \E d \in Clicks : ClickStep(d)
  <2>1. PICK d \in Clicks : ClickStep(d) /\ d \in Procs
      BY <1>8 DEF Procs
  <2>2. CASE Resume(d)
      BY <1>4, <2>1, <2>2 DEF Resume
  <2>3. CASE ClickCommit(d)
      BY <1>3, <2>1, <2>3 DEF ClickCommit
  <2> QED
      BY <2>1, <2>2, <2>3 DEF ClickStep
<1>9. CASE UNCHANGED vars
    BY <1>1, <1>2, <1>9 DEF vars
<1> QED
    BY <1>5, <1>6, <1>7, <1>8, <1>9 DEF Next

(***************************************************************************)
(* The last audit entry of an invoice names the status its row has, with   *)
(* every fault, also when the failure handler overwrites an outcome or an  *)
(* answer, as long as an invoice is enqueued once and buttons are pressed  *)
(* only in review.                                                         *)
(***************************************************************************)
THEOREM TrailsEndInStatus ==
    ASSUME OneJob, InReviewOnly
    PROVE  Spec => []AuditEndsInStatus
<1>1. Init => TrailInv
  <2>1. Init => PressesSawAReview /\ AuditEndsInStatus
      BY PipelineAssumption
         DEF Init, PressesSawAReview, AuditEndsInStatus, InSession, Procs
  <2> QED
      BY <2>1, InitEstablishesOneJobInv DEF TrailInv
<1>2. TrailInv /\ [Next]_vars => TrailInv'
    BY NextKeepsOneJobInv, NextKeepsPresses, NextKeepsTrail DEF TrailInv
<1>3. TrailInv => AuditEndsInStatus
    BY DEF TrailInv
<1> QED
    BY <1>1, <1>2, <1>3, PTL DEF Spec
=============================================================================
