------------------------ MODULE PipelineWorkerProofs ------------------------
(***************************************************************************)
(* A row in extracting has a job that works on it, for any number of jobs  *)
(* for one invoice and any presses, as long as nothing but the             *)
(* checkpointer fails.  This is what ExtractionEnds rests on: the rest is  *)
(* that the job goes on, which is fairness.                                *)
(***************************************************************************)
EXTENDS PipelineJobProofs

OnlyCheckpointsFail == Faults \subseteq {"checkpoint"}

-----------------------------------------------------------------------------
(***************************************************************************)
(* A row keeps the job that holds it, or gets one with the status.         *)
(***************************************************************************)
LEMMA HeldStays ==
    ASSUME ExtractingIsHeld,
           \A i \in Invoices : row'[i].status = "extracting" =>
                \/ row[i].status = "extracting"
                \/ \E j \in Jobs : inv'[j] = i /\ Held(j)',
           \A j \in Jobs :
                /\ Held(j) /\ inv[j] \in Invoices
                /\ row[inv[j]].status = "extracting"
                /\ row'[inv[j]].status = "extracting"
                => inv'[j] = inv[j] /\ Held(j)'
    PROVE  ExtractingIsHeld'
BY DEF ExtractingIsHeld

\* Where no row changes, the jobs that hold one have to stay.
LEMMA HoldersStay ==
    ASSUME ExtractingIsHeld, UNCHANGED row,
           \A j \in Jobs :
                Held(j) /\ row[inv[j]].status = "extracting" =>
                    inv'[j] = inv[j] /\ Held(j)'
    PROVE  ExtractingIsHeld'
BY HeldStays

\* A superstep, whether its checkpoint is saved or the handler takes over.
LEMMA AdvanceKeepsHolders ==
    ASSUME OnlyCheckpointsFail, WorkerInv, NEW p \in Procs,
           p \in Jobs => pc[p] \in {"setup", "graph"},
           NEW cp, NEW to \in {"graph", "returned"}, Advance(p, cp, to)
    PROVE  ExtractingIsHeld'
<1> USE DEF WorkerInv, IInv
<1>1. /\ pc \in [Procs -> JobPC \cup ClickPC] /\ seen \in [Procs -> Row]
      /\ UNCHANGED <<row, inv>>
    BY DEF TypeOK, Row, Advance, db, task
<1>2. \A q \in Procs \ {p} : pc'[q] = pc[q] /\ seen'[q] = seen[q]
    BY <1>1 DEF Advance, Leave
<1>3. p \in Jobs => pc'[p] \in {"graph", "returned", "fail"}
  <2> SUFFICES ASSUME p \in Jobs PROVE pc'[p] \in {"graph", "returned", "fail"}
      OBVIOUS
  <2>1. AfterLostStep(p) \subseteq {"fail"}
      BY PipelineAssumption
         DEF AfterLostStep, AfterException, GuardedByTry, OnlyCheckpointsFail
  <2>2. CASE pc' = [pc EXCEPT ![p] = to]
      BY <1>1, <2>2
  <2>3. CASE \E lost \in AfterLostStep(p) : Leave(p, lost)
      BY <1>1, <2>1, <2>3 DEF Leave
  <2> QED
      BY <2>2, <2>3 DEF Advance
<1>4. \A j \in Jobs : Held(j) => Held(j)'
    BY <1>2, <1>3 DEF Held, Working, Procs
<1> QED
    BY <1>1, <1>4, HoldersStay

LEMMA GraphStepKeepsHolders ==
    ASSUME OnlyCheckpointsFail, WorkerInv, NEW p \in Procs, GraphStep(p)
    PROVE  ExtractingIsHeld'
<1>1. pc[p] = "graph" /\ \E cp, to : Advance(p, cp, to) /\ GoesOn(run[p], cp, to)
    BY GraphStepGoesOn DEF WorkerInv
<1> QED
    BY <1>1, AdvanceKeepsHolders DEF GoesOn

(***************************************************************************)
(* The commits.                                                            *)
(***************************************************************************)
\* A commit of the status only.  Fail writes over what it has loaded, so a job
\* that holds the row gives it up with the status.
LEMMA StatusCommitKeepsHolders ==
    ASSUME WorkerInv, NEW p \in Procs, NEW s, NEW to, StatusCommit(p, s, to),
           pc[p] = "claim" => to = "setup"
    PROVE  ExtractingIsHeld'
<1> USE DEF WorkerInv, IInv
<1>1. /\ UNCHANGED inv /\ pc'[p] = to
      /\ \A q \in Procs \ {p} : pc'[q] = pc[q] /\ seen'[q] = seen[q]
      /\ Jobs \cap Clicks = {}
    BY PipelineAssumption DEF TypeOK, StatusCommit, Leave, task
<1>2. /\ inv[p] \in Invoices
      /\ \A i \in Invoices :
            row'[i].status = row[i].status \/ (i = inv[p] /\ row'[i].status = s)
      /\ s # seen[p].status => row'[inv[p]].status = s
  <2>1. pc[p] # "idle"
      BY DEF StatusCommit
  <2>2. PICK entries :
          Commit(inv[p], seen[p], [seen[p] EXCEPT !.status = s], entries)
      BY DEF StatusCommit
  <2> QED
      BY <2>1, <2>2, StatusCommitFacts
<1>3. \A j \in Jobs \ {p} : Held(j) => Held(j)'
    BY <1>1 DEF Held, Procs
<1>4. CASE p \in Jobs /\ pc[p] = "claim" /\ s = "extracting" /\ to = "setup"
  <2>1. inv'[p] = inv[p] /\ Held(p)'
      BY <1>1, <1>4 DEF Held, Working
  <2>2. ~Held(p)
      BY <1>4 DEF Held, Working
  <2> QED
      BY <1>1, <1>2, <1>3, <1>4, <2>1, <2>2, HeldStays
<1>5. CASE p \in Jobs /\ pc[p] = "failing" /\ s = "failed"
  <2>1. Held(p) => row'[inv[p]].status # "extracting"
      BY <1>2, <1>5 DEF Held
  <2>2. \A i \in Invoices : row'[i].status = "extracting" =>
                                row[i].status = "extracting"
      BY <1>2, <1>5
  <2> QED
      BY <1>1, <1>3, <2>1, <2>2, HeldStays
<1>6. CASE p \in Clicks /\ s \in Answers
  <2>1. \A i \in Invoices : row'[i].status = "extracting" =>
                                row[i].status = "extracting"
      BY <1>2, <1>6 DEF Answers
  <2>2. p \notin Jobs
      BY <1>1, <1>6
  <2> QED
      BY <1>1, <1>3, <2>1, <2>2, HeldStays
<1> QED
    BY <1>4, <1>5, <1>6 DEF StatusCommit

\* The outcome is never extracting, so the job that has loaded extracting
\* takes the row out of it.
LEMMA SaveKeepsHolders ==
    ASSUME WorkerInv, NEW j \in Jobs, Save(j)
    PROVE  ExtractingIsHeld'
<1> USE DEF WorkerInv, IInv
<1>1. /\ j \in Procs /\ pc[j] = "saving" /\ inv[j] \in Invoices
      /\ row \in [Invoices -> Row] /\ UNCHANGED inv
      /\ \A q \in Procs \ {j} : pc'[q] = pc[q] /\ seen'[q] = seen[q]
    BY DEF Save, Leave, task, TypeOK, Started, Procs, Row
<1>2. PICK new : /\ new = Outcome(seen[j], run[j].st, ThreadOf(j))
                 /\ row' = [row EXCEPT ![inv[j]] =
                                FlushedRow(row[inv[j]], seen[j], new)]
    BY DEF Save, Commit
<1>3. new.status # "extracting"
    BY <1>2 DEF Outcome
<1>4. /\ \A i \in Invoices \ {inv[j]} : row'[i] = row[i]
      /\ row'[inv[j]].status =
            IF new.status = seen[j].status THEN row[inv[j]].status ELSE new.status
    BY <1>1, <1>2 DEF FlushedRow, Flushed
<1>5. Held(j) => row'[inv[j]].status # "extracting"
    BY <1>1, <1>3, <1>4 DEF Held
<1>6. \A i \in Invoices : row'[i].status = "extracting" =>
                              row[i].status = "extracting"
    BY <1>3, <1>4
<1>7. \A k \in Jobs \ {j} : Held(k) => Held(k)'
    BY <1>1 DEF Held, Procs
<1> QED
    BY <1>1, <1>5, <1>6, <1>7, HeldStays
-----------------------------------------------------------------------------
(***************************************************************************)
(* The invariant, by process.                                              *)
(***************************************************************************)
LEMMA JobStepKeepsHolders ==
    ASSUME OnlyCheckpointsFail, WorkerInv, NEW j \in Jobs, JobStep(j)
    PROVE  ExtractingIsHeld'
<1> USE DEF WorkerInv, IInv
<1>1. /\ j \in Procs /\ pc \in [Procs -> JobPC \cup ClickPC]
      /\ seen \in [Procs -> Row]
    BY DEF Procs, TypeOK, Row
<1>2. CASE ClaimRead(j)
  <2>1. /\ UNCHANGED <<row, inv>> /\ pc[j] = "queued"
        /\ \A q \in Procs \ {j} : pc'[q] = pc[q] /\ seen'[q] = seen[q]
      BY <1>1, <1>2 DEF ClaimRead, Load, Leave, db, task
  <2>2. \A k \in Jobs : Held(k) => Held(k)'
      BY <2>1 DEF Held, Working, Procs
  <2> QED
      BY <2>1, <2>2, HoldersStay
<1>3. CASE Claim(j)
  <2>1. AfterCommit(j, "setup") = {"setup"}
      BY DEF AfterCommit, OnlyCheckpointsFail
  <2>2. StatusCommit(j, "extracting", "setup")
      BY <1>3, <2>1 DEF Claim, StatusCommit
  <2> QED
      BY <1>1, <2>2, StatusCommitKeepsHolders
<1>4. CASE StartGraph(j)
  <2>1. \E cp : Advance(j, cp, "graph")
      BY <1>4 DEF StartGraph, StepTo, InterruptBefore, END
  <2> QED
      BY <1>1, <1>4, <2>1, AdvanceKeepsHolders DEF StartGraph
<1>5. CASE SaveRead(j) \/ FailRead(j)
  <2>1. /\ UNCHANGED <<row, inv>> /\ seen'[j] = row[inv[j]]
        /\ pc'[j] \in {"saving", "failing"}
        /\ \A q \in Procs \ {j} : pc'[q] = pc[q] /\ seen'[q] = seen[q]
      BY <1>1, <1>5 DEF SaveRead, FailRead, Load, db, task
  <2>2. \A k \in Jobs : Held(k) /\ row[inv[k]].status = "extracting" => Held(k)'
      BY <2>1 DEF Held, Working, Procs
  <2> QED
      BY <2>1, <2>2, HoldersStay
<1>6. CASE Save(j)
    BY <1>6, SaveKeepsHolders
<1>7. CASE Fail(j)
  <2>1. StatusCommit(j, "failed", "raised")
      BY <1>7 DEF Fail, StatusCommit
  <2>2. pc[j] # "claim"
      BY <1>7 DEF Fail
  <2> QED
      BY <1>1, <2>1, <2>2, StatusCommitKeepsHolders
<1> QED
    BY <1>2, <1>3, <1>4, <1>5, <1>6, <1>7 DEF JobStep

LEMMA ClickStepKeepsHolders ==
    ASSUME OnlyCheckpointsFail, WorkerInv, NEW c \in Clicks, ClickStep(c)
    PROVE  ExtractingIsHeld'
<1>1. c \in Procs /\ c \notin Jobs
    BY PipelineAssumption DEF Procs
<1>2. CASE Resume(c)
  <2>1. \E cp : Advance(c, cp, "graph")
      BY <1>2 DEF Resume
  <2> QED
      BY <1>1, <2>1, AdvanceKeepsHolders
<1>3. CASE ClickCommit(c)
  <2>1. StatusCommit(c, StatusAfterClick(act[c]), "done")
      BY <1>3 DEF ClickCommit, StatusCommit, StatusAfterClick, Answers
  <2>2. pc[c] # "claim"
      BY <1>3 DEF ClickCommit
  <2> QED
      BY <1>1, <2>1, <2>2, StatusCommitKeepsHolders
<1> QED
    BY <1>2, <1>3 DEF ClickStep

\* The callers touch no job that is under way.
LEMMA EnvironmentKeepsHolders ==
    ASSUME OnlyCheckpointsFail, WorkerInv, Environment
    PROVE  ExtractingIsHeld'
<1> USE DEF WorkerInv, IInv
<1>1. /\ pc \in [Procs -> JobPC \cup ClickPC] /\ inv \in [Procs -> Invoices \cup {None}]
      /\ seen \in [Procs -> Row] /\ row \in [Invoices -> Row]
      /\ Jobs \cap Clicks = {} /\ Jobs \subseteq Procs /\ Clicks \subseteq Procs
    BY PipelineAssumption DEF TypeOK, Row, Procs
<1>2. ASSUME NEW i \in Invoices, Receive(i) PROVE ExtractingIsHeld'
  <2>1. /\ UNCHANGED <<pc, inv, seen>>
        /\ \A k \in Invoices \ {i} : row'[k] = row[k]
        /\ row'[i].status = "received"
      BY <1>1, <1>2 DEF Receive, task, Row, InvoiceRow
  <2>2. \A k \in Invoices : row'[k].status = "extracting" =>
                                row[k].status = "extracting"
      BY <2>1
  <2>3. \A j \in Jobs : Held(j) => Held(j)'
      BY <2>1 DEF Held
  <2> QED
      BY <2>1, <2>2, <2>3, HeldStays
<1>3. ASSUME NEW j \in Jobs, NEW i \in Invoices, Enqueue(j, i)
      PROVE  ExtractingIsHeld'
  <2>1. /\ UNCHANGED <<row, seen>> /\ pc[j] = "idle"
        /\ \A q \in Procs \ {j} : pc'[q] = pc[q] /\ inv'[q] = inv[q]
      BY <1>1, <1>3 DEF Enqueue, db
  <2>2. \A k \in Jobs : Held(k) => inv'[k] = inv[k] /\ Held(k)'
      BY <1>1, <2>1 DEF Held, Working
  <2> QED
      BY <2>1, <2>2, HoldersStay
<1>4. ASSUME NEW j \in Jobs, Retry(j) \/ GiveUp(j) PROVE ExtractingIsHeld'
  <2>1. /\ UNCHANGED <<row, inv, seen>> /\ pc[j] = "raised"
        /\ \A q \in Procs \ {j} : pc'[q] = pc[q]
      BY <1>1, <1>4 DEF Retry, GiveUp, db, task
  <2>2. \A k \in Jobs : Held(k) => Held(k)'
      BY <1>1, <2>1 DEF Held, Working
  <2> QED
      BY <2>1, <2>2, HoldersStay
<1>5. ASSUME NEW c \in Clicks, NEW i \in Invoices, NEW a \in HumanActions,
             ClickRead(c, i, a)
      PROVE  ExtractingIsHeld'
  <2>1. /\ UNCHANGED row
        /\ \A q \in Procs \ {c} :
              pc'[q] = pc[q] /\ inv'[q] = inv[q] /\ seen'[q] = seen[q]
      BY <1>1, <1>5 DEF ClickRead, Load, db
  <2>2. \A k \in Jobs : inv'[k] = inv[k] /\ (Held(k) => Held(k)')
      BY <1>1, <2>1 DEF Held
  <2> QED
      BY <2>1, <2>2, HoldersStay
<1>6. ~\E p \in Procs : StepRaises(p) \/ Crash(p)
    BY DEF StepRaises, Crash, OnlyCheckpointsFail
<1> QED
    BY <1>2, <1>3, <1>4, <1>5, <1>6 DEF Environment
-----------------------------------------------------------------------------
LEMMA NextKeepsWorkerInv ==
    OnlyCheckpointsFail /\ WorkerInv /\ [Next]_vars => WorkerInv'
<1> SUFFICES ASSUME OnlyCheckpointsFail, WorkerInv, [Next]_vars
             PROVE  ExtractingIsHeld'
    BY NextKeepsIInv DEF WorkerInv
<1>1. CASE Environment
    BY <1>1, EnvironmentKeepsHolders
<1>2. CASE \E p \in Procs : GraphStep(p)
    BY <1>2, GraphStepKeepsHolders
<1>3. CASE \E j \in Jobs : JobStep(j)
    BY <1>3, JobStepKeepsHolders
<1>4. CASE \E c \in Clicks : ClickStep(c)
    BY <1>4, ClickStepKeepsHolders
<1>5. CASE UNCHANGED vars
    BY <1>5 DEF vars, WorkerInv, ExtractingIsHeld, Held
<1> QED
    BY <1>1, <1>2, <1>3, <1>4, <1>5 DEF Next

LEMMA InitEstablishesWorkerInv == Init => WorkerInv
<1> SUFFICES ASSUME Init PROVE ExtractingIsHeld
    BY InitEstablishesIInv DEF WorkerInv
<1>1. None # "extracting"
    BY GraphAssumption DEF InvoiceStatus
<1> QED
    BY <1>1 DEF Init, ExtractingIsHeld, NoRow

(***************************************************************************)
(* Whatever the checkpointer does, and however many jobs and presses       *)
(* overlap on an invoice: as long as its row says extracting, some job is  *)
(* between its claim and its last commit and will write another status.    *)
(***************************************************************************)
THEOREM ExtractingRowsHaveAWorker ==
    ASSUME OnlyCheckpointsFail
    PROVE  Spec => []ExtractingHasAWorker
<1>1. WorkerInv /\ [Next]_vars => WorkerInv'
    BY NextKeepsWorkerInv
<1>2. WorkerInv => ExtractingHasAWorker
    BY DEF WorkerInv, ExtractingIsHeld, Held, ExtractingHasAWorker
<1> QED
    BY <1>1, <1>2, InitEstablishesWorkerInv, PTL DEF Spec
=============================================================================
