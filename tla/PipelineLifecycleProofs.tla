----------------------- MODULE PipelineLifecycleProofs -----------------------
(***************************************************************************)
(* What an environment gets that keeps all its promises, one job per       *)
(* invoice and buttons pressed one at a time and only in review: sessions  *)
(* on one row never overlap, and the row lives the life of module          *)
(* InvoiceLifecycle, whatever fails but the answer to a COMMIT: a handler  *)
(* that overwrites an outcome does neither.                                *)
(***************************************************************************)
EXTENDS PipelineJobProofs

AllPromises == Discipline = Promises

\* ReviewInv without OneJobInv.
SessionParts == ClicksAreSerial /\ SessionsSeeTheRow /\ RowsFollowTheirSession

\* A process with a session, or with the row in extracting.
Busy(p) == pc[p] \in Working \cup {"claim", "open"}

-----------------------------------------------------------------------------
(***************************************************************************)
(* No two processes are at work on one invoice: jobs have one each, presses*)
(* follow each other, and a job's row is not in review.                    *)
(***************************************************************************)
LEMMA BusyApart ==
    ASSUME OneJobInv, SessionParts, NEW p \in Procs, NEW q \in Procs, p # q,
           Busy(p), Busy(q)
    PROVE  inv[p] # inv[q]
<1> USE DEF OneJobInv, AuditInv, IInv, SessionParts
<1>1. inv[p] # None /\ inv[q] # None
    BY GraphAssumption DEF Started, Busy, Working
<1>2. CASE p \in Jobs /\ q \in Jobs
    BY <1>1, <1>2 DEF JobsAreApart
<1>3. ASSUME NEW c \in Clicks, Busy(c)
      PROVE  InSession(c) /\ row[inv[c]].status = "pending_review"
  <2>1. pc[c] \in ClickPC /\ c \notin Jobs
      BY PipelineAssumption DEF TypeOK
  <2>2. InSession(c)
      BY <1>3, <2>1 DEF Busy, Working, ClickPC, InSession
  <2> QED
      BY <2>2 DEF RowsFollowTheirSession
<1>4. ASSUME NEW j \in Jobs, Busy(j)
      PROVE  row[inv[j]].status # "pending_review"
  <2>1. pc[j] \in JobPC
      BY DEF TypeOK
  <2> QED
      BY <1>4, <2>1 DEF Busy, JobPC, RowsFollowTheirSession, MayClaim
<1>5. CASE p \in Clicks /\ q \in Clicks
    BY <1>3, <1>5 DEF ClicksAreSerial
<1> QED
    BY <1>2, <1>3, <1>4, <1>5 DEF Procs

LEMMA SessionIsBusy ==
    ASSUME TypeOK, NEW p \in Procs, InSession(p)
    PROVE  Busy(p)
BY DEF InSession, Busy, Working

(***************************************************************************)
(* One process moves, and the rows of the others stay what they are.       *)
(***************************************************************************)
LEMMA OneSessionMoves ==
    ASSUME OneJobInv, TypeOK', SessionParts, NEW p \in Procs,
           \A q \in Procs \ {p} :
                /\ pc'[q] = pc[q] /\ seen'[q] = seen[q] /\ inv'[q] = inv[q]
                /\ Busy(q) => row'[inv[q]] = row[inv[q]],
           p \in Jobs =>
                /\ pc'[p] \in {"claim", "saving", "failing"} =>
                        seen'[p] = row'[inv'[p]]
                /\ pc'[p] = "claim" => MayClaim(row'[inv'[p]])
                /\ pc'[p] \in Working => row'[inv'[p]].status = "extracting",
           p \in Clicks /\ pc'[p] \in {"open", "graph", "returned"} =>
                /\ seen'[p] = row'[inv'[p]]
                /\ row'[inv'[p]].status = "pending_review"
                /\ pc[p] \in {"open", "graph", "returned"}
                       \/ \A c \in Clicks : pc[c] \in {"idle", "done"}
    PROVE  SessionParts'
<1> USE DEF OneJobInv, AuditInv, IInv, SessionParts
<1>1. /\ Jobs \cap Clicks = {}
      /\ \A j \in Jobs : pc[j] \in JobPC /\ j \notin Clicks /\ j \in Procs
      /\ \A c \in Clicks : pc[c] \in ClickPC /\ c \notin Jobs /\ c \in Procs
    BY PipelineAssumption DEF TypeOK, Procs
<1>2. ClicksAreSerial'
  <2> SUFFICES ASSUME NEW c \in Clicks, NEW d \in Clicks, c # d,
                      pc'[c] \in {"open", "graph", "returned"},
                      pc'[d] \in {"open", "graph", "returned"}
               PROVE  FALSE
      BY <1>1 DEF ClicksAreSerial, InSession
  <2>1. CASE c # p /\ d # p
      BY <1>1, <2>1 DEF ClicksAreSerial, InSession
  <2>2. ASSUME NEW e \in Clicks, e # p, p \in Clicks,
               pc'[p] \in {"open", "graph", "returned"},
               pc'[e] \in {"open", "graph", "returned"}
        PROVE  FALSE
    <3>1. pc[e] \in {"open", "graph", "returned"}
        BY <1>1, <2>2
    <3>2. pc[p] \in {"open", "graph", "returned"}
        BY <2>2, <3>1
    <3> QED
        BY <1>1, <2>2, <3>1, <3>2 DEF ClicksAreSerial, InSession
  <2> QED
      BY <2>1, <2>2
<1>3. ASSUME NEW q \in Procs \ {p}, pc'[q] \in Working \cup {"claim", "open"}
      PROVE  /\ pc[q] = pc'[q] /\ seen'[q] = seen[q] /\ inv'[q] = inv[q]
             /\ row'[inv'[q]] = row[inv[q]]
    BY <1>3 DEF Busy
<1>4. SessionsSeeTheRow'
  <2> SUFFICES ASSUME NEW q \in Procs, InSession(q)'
               PROVE  seen'[q] = row'[inv'[q]]
      BY DEF SessionsSeeTheRow
  <2>1. CASE q = p
      BY <1>1, <2>1 DEF InSession, Procs
  <2>2. CASE q # p
    <3>1. pc'[q] \in Working \cup {"claim", "open"}
        BY DEF InSession, Working
    <3>2. pc[q] = pc'[q] /\ seen'[q] = seen[q] /\ row'[inv'[q]] = row[inv[q]]
        BY <1>3, <2>2, <3>1
    <3>3. InSession(q)
        BY <3>2 DEF InSession
    <3> QED
        BY <3>2, <3>3 DEF SessionsSeeTheRow
  <2> QED
      BY <2>1, <2>2
<1>5. RowsFollowTheirSession'
  <2>1. ASSUME NEW j \in Jobs
        PROVE  /\ pc'[j] = "claim" => MayClaim(row'[inv'[j]])
               /\ pc'[j] \in Working => row'[inv'[j]].status = "extracting"
    <3>1. CASE j = p
        BY <3>1
    <3>2. CASE j # p
        BY <1>1, <1>3, <3>2 DEF RowsFollowTheirSession
    <3> QED
        BY <3>1, <3>2
  <2>2. ASSUME NEW c \in Clicks, InSession(c)'
        PROVE  row'[inv'[c]].status = "pending_review"
    <3>1. pc'[c] \in {"open", "graph", "returned"}
        BY <1>1, <2>2 DEF InSession
    <3>2. CASE c = p
        BY <3>1, <3>2
    <3>3. CASE c # p
      <4>1. pc[c] = pc'[c] /\ row'[inv'[c]] = row[inv[c]]
          BY <1>1, <1>3, <3>1, <3>3 DEF Working
      <4>2. InSession(c)
          BY <1>1, <3>1, <4>1 DEF InSession
      <4> QED
          BY <4>1, <4>2 DEF RowsFollowTheirSession
    <3> QED
        BY <3>2, <3>3
  <2> QED
      BY <2>1, <2>2 DEF RowsFollowTheirSession
<1> QED
    BY <1>2, <1>4, <1>5
-----------------------------------------------------------------------------
(***************************************************************************)
(* The kinds of steps.                                                     *)
(***************************************************************************)
LEMMA SavedKeepsSessions ==
    ASSUME OneJobInv, TypeOK', SessionParts, NEW p \in Procs, NEW cp,
           NEW to \in {"graph", "returned"}, Saved(p, cp, to),
           p \in Jobs => pc[p] \in {"setup", "graph"},
           p \in Clicks => pc[p] \in {"open", "graph"}
    PROVE  SessionParts'
<1> USE DEF OneJobInv, AuditInv, IInv, SessionParts
<1>1. /\ Jobs \cap Clicks = {} /\ UNCHANGED <<row, seen, inv>> /\ pc'[p] = to
      /\ \A q \in Procs \ {p} : pc'[q] = pc[q]
    BY PipelineAssumption DEF TypeOK, Saved, db, task
<1>2. p \in Jobs => row[inv[p]].status = "extracting"
    BY DEF RowsFollowTheirSession, Working
<1>3. p \in Clicks => /\ seen[p] = row[inv[p]]
                      /\ row[inv[p]].status = "pending_review"
    BY <1>1 DEF RowsFollowTheirSession, SessionsSeeTheRow, InSession
<1> QED
    BY <1>1, <1>2, <1>3, OneSessionMoves

LEMMA LeftKeepsSessions ==
    ASSUME OneJobInv, TypeOK', SessionParts, NEW p \in Procs, NEW to,
           Left(p, to), LeavesFrom(p, to)
    PROVE  SessionParts'
<1> USE DEF OneJobInv, AuditInv, IInv, SessionParts
<1>1. /\ UNCHANGED <<row, inv>> /\ pc'[p] = to
      /\ \A q \in Procs \ {p} : pc'[q] = pc[q] /\ seen'[q] = seen[q]
    BY DEF TypeOK, Left, Leave, db, task
<1>2. p \in Jobs => to \in {"done", "raised", "fail"}
      /\ (to = "fail" => row[inv[p]].status = "extracting")
    BY DEF LeavesFrom, GuardedByTry, RowsFollowTheirSession, Working
<1>3. p \in Clicks => to = "done"
    BY DEF LeavesFrom
<1> QED
    BY <1>1, <1>2, <1>3, OneSessionMoves DEF Working

\* A superstep of anybody's graph.
LEMMA AdvanceKeepsSessions ==
    ASSUME OneJobInv, TypeOK', SessionParts, NEW p \in Procs, NEW cp,
           NEW to \in {"graph", "returned"}, Advance(p, cp, to),
           p \in Jobs => pc[p] \in {"setup", "graph"},
           p \in Clicks => pc[p] \in {"open", "graph"}
    PROVE  SessionParts'
<1>1. pc[p] \notin Stopped
    BY DEF Stopped, Procs
<1> QED
    BY <1>1, AdvanceKinds, SavedKeepsSessions, LeftKeepsSessions

LEMMA JobLoadKeepsSessions ==
    ASSUME OneJobInv, TypeOK', SessionParts, NEW j \in Jobs, NEW to,
           \/ pc[j] = "queued" /\ to = "claim" /\ MayClaim(row[inv[j]])
           \/ pc[j] = "returned" /\ to = "saving"
           \/ pc[j] = "fail" /\ to = "failing",
           Load(j, inv[j], to), UNCHANGED <<db, task>>
    PROVE  SessionParts'
<1> USE DEF OneJobInv, AuditInv, IInv, SessionParts
<1>1. /\ j \in Procs /\ j \notin Clicks /\ UNCHANGED <<row, inv>>
      /\ pc'[j] = to /\ seen'[j] = row[inv[j]]
      /\ \A q \in Procs \ {j} : pc'[q] = pc[q] /\ seen'[q] = seen[q]
    BY PipelineAssumption DEF TypeOK, Load, Procs, db, task
<1>2. to # "claim" => row[inv[j]].status = "extracting"
    BY DEF RowsFollowTheirSession, Working
<1> QED
    BY <1>1, <1>2, OneSessionMoves DEF Working
-----------------------------------------------------------------------------
(***************************************************************************)
(* The steps that change a row: they change one, and its status.           *)
(***************************************************************************)
RowMoves(i, from, to) ==
    /\ i \in Invoices
    /\ row[i].status \in from /\ row'[i].status \in to
    /\ \A k \in Invoices \ {i} : row'[k] = row[k] /\ audit'[k] = audit[k]

\* Where a status goes in a session that sees the row.
LEMMA StatusCommitMoves ==
    ASSUME OneJobInv, SessionParts, NEW p \in Procs, NEW s, NEW to,
           StatusCommit(p, s, to)
    PROVE  /\ RowMoves(inv[p], {row[inv[p]].status}, {s})
           /\ row'[inv[p]].ref = row[inv[p]].ref
           /\ p \in Jobs /\ s = "extracting" =>
                    row[inv[p]].status \in {"received", "failed"}
           /\ p \in Jobs /\ s = "failed" => row[inv[p]].status = "extracting"
           /\ p \in Clicks => row[inv[p]].status = "pending_review"
<1> USE DEF OneJobInv, AuditInv, IInv, SessionParts
<1>1. \/ /\ p \in Jobs /\ pc[p] = "claim" /\ s = "extracting"
         /\ to \in {"setup", "raised"}
      \/ p \in Jobs /\ pc[p] = "failing" /\ s = "failed" /\ to = "raised"
      \/ p \in Clicks /\ pc[p] = "returned" /\ s \in Answers /\ to = "done"
    BY DEF StatusCommit
<1>2. Jobs \cap Clicks = {}
    BY PipelineAssumption
<1>3. /\ seen[p] = row[inv[p]]
      /\ p \in Jobs /\ s = "extracting" =>
                row[inv[p]].status \in {"received", "failed"}
      /\ p \in Jobs /\ s = "failed" => row[inv[p]].status = "extracting"
      /\ p \in Clicks => row[inv[p]].status = "pending_review"
    BY <1>1, <1>2 DEF SessionsSeeTheRow, RowsFollowTheirSession, InSession,
                      MayClaim, Working
<1>4. s # seen[p].status
    BY <1>1, <1>2, <1>3 DEF Answers
<1>5. PICK entries :
        Commit(inv[p], seen[p], [seen[p] EXCEPT !.status = s], entries)
    BY DEF StatusCommit
<1>6. /\ inv[p] \in Invoices
      /\ row'[inv[p]].ref = row[inv[p]].ref
      /\ row'[inv[p]].status = s
    BY <1>1, <1>4, <1>5, StatusCommitFacts
<1>7. \A k \in Invoices \ {inv[p]} : row'[k] = row[k] /\ audit'[k] = audit[k]
    BY <1>5, <1>6 DEF Commit, TypeOK
<1> QED
    BY <1>3, <1>6, <1>7 DEF RowMoves

LEMMA StatusCommitKeepsSessions ==
    ASSUME OneJobInv, TypeOK', SessionParts, NEW p \in Procs, NEW s, NEW to,
           StatusCommit(p, s, to)
    PROVE  SessionParts'
<1> USE DEF OneJobInv, AuditInv, IInv
<1>1. /\ UNCHANGED inv /\ pc'[p] = to
      /\ \A q \in Procs \ {p} : pc'[q] = pc[q] /\ seen'[q] = seen[q]
    BY DEF TypeOK, StatusCommit, Leave, task
<1>2. /\ RowMoves(inv[p], {row[inv[p]].status}, {s})
      /\ \/ /\ p \in Jobs /\ pc[p] = "claim" /\ s = "extracting"
            /\ to \in {"setup", "raised"}
         \/ p \in Jobs /\ pc[p] = "failing" /\ s = "failed" /\ to = "raised"
         \/ p \in Clicks /\ pc[p] = "returned" /\ s \in Answers /\ to = "done"
    BY StatusCommitMoves DEF StatusCommit
<1>3. Busy(p) /\ Jobs \cap Clicks = {}
    BY <1>2, PipelineAssumption DEF Busy, Working
<1>4. ASSUME NEW q \in Procs \ {p}, Busy(q)
      PROVE  row'[inv[q]] = row[inv[q]]
  <2>1. inv[q] # inv[p]
      BY <1>3, <1>4, BusyApart
  <2>2. inv[q] \in Invoices
      BY <1>4 DEF Started, Busy, Working
  <2> QED
      BY <1>2, <2>1, <2>2 DEF RowMoves
<1> QED
    BY <1>1, <1>2, <1>3, <1>4, OneSessionMoves DEF RowMoves, Working

LEMMA SaveMoves ==
    ASSUME AnswersArrive, OneJobInv, SessionParts, NEW j \in Jobs, Save(j)
    PROVE  /\ RowMoves(inv[j], {"extracting"},
                       {"paid", "pending_review", "dead_lettered"})
           /\ row[inv[j]].ref = None
           /\ row'[inv[j]].ref \in Refs \cup {None}
           /\ row'[inv[j]].status = "paid" <=> row'[inv[j]].ref # None
<1> USE DEF OneJobInv, AuditInv, IInv, SessionParts
<1>1. /\ pc[j] = "saving" /\ inv[j] \in Invoices
      /\ \A i \in Invoices \ {inv[j]} : row'[i] = row[i]
      /\ row[inv[j]].ref = None
      /\ row'[inv[j]].ref = run[j].st.ref
      /\ row'[inv[j]].status =
                IF run[j].st.ref # None THEN "paid"
                ELSE IF run[j].st.decision = "needs_review" THEN "pending_review"
                ELSE "dead_lettered"
    BY SaveFacts
<1>2. row[inv[j]].status = "extracting"
    BY <1>1 DEF RowsFollowTheirSession, Working
<1>3. run[j].st.ref \in Refs \cup {None}
    BY DEF TypeOK, Procs, Checkpoint, InvoiceState
<1>4. \A k \in Invoices \ {inv[j]} : audit'[k] = audit[k]
    BY <1>1 DEF Save, Commit, TypeOK
<1> QED
    BY <1>1, <1>2, <1>3, <1>4 DEF RowMoves

LEMMA SaveKeepsSessions ==
    ASSUME AnswersArrive, OneJobInv, TypeOK', SessionParts, NEW j \in Jobs, Save(j)
    PROVE  SessionParts'
<1> USE DEF OneJobInv, AuditInv, IInv
<1>1. /\ UNCHANGED inv /\ pc'[j] \in {"done", "raised"}
      /\ \A q \in Procs \ {j} : pc'[q] = pc[q] /\ seen'[q] = seen[q]
      /\ j \in Procs /\ j \notin Clicks
    BY PipelineAssumption
       DEF TypeOK, Save, Leave, task, Procs, AfterCommit, AfterCrash, AnswersArrive
<1>2. Busy(j)
    BY DEF Save, Busy, Working
<1>3. ASSUME NEW q \in Procs \ {j}, Busy(q)
      PROVE  row'[inv[q]] = row[inv[q]]
  <2>1. inv[q] # inv[j]
      BY <1>1, <1>2, <1>3, BusyApart
  <2>2. inv[q] \in Invoices
      BY <1>3 DEF Started, Busy, Working
  <2> QED
      BY <2>1, <2>2, SaveMoves DEF RowMoves
<1> QED
    BY <1>1, <1>3, OneSessionMoves DEF Working

LEMMA ReceiveMoves ==
    ASSUME IInv, NEW i \in Invoices, Receive(i)
    PROVE  /\ RowMoves(i, {None}, {"received"})
           /\ row'[i].ref = row[i].ref
<1>1. /\ row \in [Invoices -> Row] /\ row[i] = NoRow
      /\ row' = [row EXCEPT ![i].status = "received"]
      /\ audit \in [Invoices -> Seq(InvoiceAuditLog)]
    BY DEF Receive, IInv, TypeOK, Row
<1>2. \A k \in Invoices \ {i} : row'[k] = row[k] /\ audit'[k] = audit[k]
    BY <1>1 DEF Receive
<1>3. row'[i].status = "received" /\ row'[i].ref = row[i].ref
    BY <1>1 DEF Row, InvoiceRow
<1> QED
    BY <1>1, <1>2, <1>3 DEF RowMoves, NoRow
-----------------------------------------------------------------------------
(***************************************************************************)
(* Every step leaves the database as it is, or takes one row along one     *)
(* edge of the lifecycle.                                                  *)
(***************************************************************************)
KeepsReference(i) == row'[i].ref = row[i].ref

Edge(i) ==
    \/ RowMoves(i, {None}, {"received"}) /\ KeepsReference(i)
    \/ RowMoves(i, {"received", "failed"}, {"extracting"}) /\ KeepsReference(i)
    \/ RowMoves(i, {"extracting"}, {"failed"}) /\ KeepsReference(i)
    \/ RowMoves(i, {"extracting"}, {"paid"}) /\ row'[i].ref \in Refs
    \/ /\ RowMoves(i, {"extracting"}, {"pending_review", "dead_lettered"})
       /\ KeepsReference(i)
    \/ RowMoves(i, {"pending_review"}, Answers) /\ KeepsReference(i)

LEMMA StepTakesAnEdge ==
    ASSUME AnswersArrive, OneJobInv, SessionParts, [Next]_vars
    PROVE  UNCHANGED db \/ \E i \in Invoices : Edge(i)
<1> USE DEF OneJobInv, AuditInv
<1>1. CASE Environment
  <2>1. CASE \E k \in Invoices : Receive(k)
      BY <2>1, ReceiveMoves DEF Edge, KeepsReference
  <2>2. CASE ~\E k \in Invoices : Receive(k)
      BY <1>1, <2>2 DEF Environment, Enqueue, Retry, GiveUp, ClickRead,
                        StepRaises, Crash
  <2> QED
      BY <2>1, <2>2
<1>2. CASE \E p \in Procs : GraphStep(p)
    BY <1>2 DEF GraphStep, Extract, Decide, Notify, HumanApproval, Execute,
                DeadLetter, StepTo, Advance
<1>3. CASE \E j \in Jobs : JobStep(j)
  <2>1. PICK j \in Jobs : JobStep(j)
      BY <1>3
  <2>2. CASE Claim(j)
    <3>1. PICK to \in {"setup", "raised"} : StatusCommit(j, "extracting", to)
        BY <2>2, ClaimCommits
    <3>2. RowMoves(inv[j], {"received", "failed"}, {"extracting"})
          /\ KeepsReference(inv[j])
        BY <3>1, StatusCommitMoves DEF RowMoves, KeepsReference, Procs
    <3> QED
        BY <3>2 DEF Edge, RowMoves
  <2>3. CASE Fail(j)
    <3>1. StatusCommit(j, "failed", "raised")
        BY <2>3 DEF Fail, StatusCommit
    <3>2. RowMoves(inv[j], {"extracting"}, {"failed"}) /\ KeepsReference(inv[j])
        BY <3>1, StatusCommitMoves DEF RowMoves, KeepsReference, Procs
    <3> QED
        BY <3>2 DEF Edge, RowMoves
  <2>4. CASE Save(j)
    <3>1. /\ RowMoves(inv[j], {"extracting"},
                      {"paid", "pending_review", "dead_lettered"})
          /\ row[inv[j]].ref = None
          /\ row'[inv[j]].ref \in Refs \cup {None}
          /\ row'[inv[j]].status = "paid" <=> row'[inv[j]].ref # None
        BY <2>4, SaveMoves
    <3> QED
        BY <3>1 DEF Edge, RowMoves, KeepsReference
  <2>5. CASE ClaimRead(j) \/ StartGraph(j) \/ SaveRead(j) \/ FailRead(j)
      BY <2>5 DEF ClaimRead, StartGraph, StepTo, Advance, SaveRead, FailRead
  <2> QED
      BY <2>1, <2>2, <2>3, <2>4, <2>5 DEF JobStep
<1>4. CASE \E c \in Clicks : ClickStep(c)
  <2>1. PICK c \in Clicks : ClickStep(c)
      BY <1>4
  <2>2. CASE Resume(c)
      BY <2>2 DEF Resume, Advance
  <2>3. CASE ClickCommit(c)
    <3>1. PICK s \in Answers : StatusCommit(c, s, "done")
        BY <2>3 DEF ClickCommit, StatusCommit, StatusAfterClick, Answers
    <3>2. RowMoves(inv[c], {"pending_review"}, Answers) /\ KeepsReference(inv[c])
        BY <3>1, StatusCommitMoves DEF RowMoves, KeepsReference, Procs
    <3> QED
        BY <3>2 DEF Edge, RowMoves
  <2> QED
      BY <2>1, <2>2, <2>3 DEF ClickStep
<1>5. CASE UNCHANGED vars
    BY <1>5 DEF vars, db
<1> QED
    BY <1>1, <1>2, <1>3, <1>4, <1>5 DEF Next
-----------------------------------------------------------------------------
(***************************************************************************)
(* The invariant, by process.                                              *)
(***************************************************************************)
LEMMA GraphStepKeepsSessions ==
    ASSUME OneJobInv, TypeOK', SessionParts, NEW p \in Procs, GraphStep(p)
    PROVE  SessionParts'
<1>1. /\ pc[p] = "graph"
      /\ \E cp, to : Advance(p, cp, to) /\ GoesOn(run[p], cp, to)
    BY GraphStepGoesOn DEF OneJobInv, AuditInv
<1>2. PICK cp, to : Advance(p, cp, to) /\ to \in {"graph", "returned"}
    BY <1>1 DEF GoesOn
<1> QED
    BY <1>1, <1>2, AdvanceKeepsSessions

LEMMA JobStepKeepsSessions ==
    ASSUME AnswersArrive, OneJobInv, TypeOK', SessionParts, NEW j \in Jobs, JobStep(j)
    PROVE  SessionParts'
<1>1. j \in Procs /\ j \notin Clicks
    BY PipelineAssumption DEF Procs
<1>2. CASE ClaimRead(j)
  <2>1. CASE MayClaim(row[inv[j]])
      BY <1>2, <2>1, JobLoadKeepsSessions DEF ClaimRead
  <2>2. CASE ~MayClaim(row[inv[j]])
    <3>1. Left(j, "done") /\ LeavesFrom(j, "done")
        BY <1>1, <1>2, <2>2 DEF ClaimRead, Left, LeavesFrom, Stopped
    <3> QED
        BY <1>1, <3>1, LeftKeepsSessions
  <2> QED
      BY <2>1, <2>2
<1>3. CASE Claim(j)
  <2>1. PICK to \in {"setup", "raised"} : StatusCommit(j, "extracting", to)
      BY <1>3, ClaimCommits
  <2> QED
      BY <1>1, <2>1, StatusCommitKeepsSessions
<1>4. CASE StartGraph(j)
  <2>1. PICK cp : Advance(j, cp, "graph")
      BY <1>4 DEF StartGraph, StepTo, InterruptBefore, END
  <2> QED
      BY <1>1, <1>4, <2>1, AdvanceKeepsSessions DEF StartGraph
<1>5. CASE SaveRead(j) \/ FailRead(j)
    BY <1>5, JobLoadKeepsSessions DEF SaveRead, FailRead
<1>6. CASE Save(j)
    BY <1>6, SaveKeepsSessions
<1>7. CASE Fail(j)
  <2>1. StatusCommit(j, "failed", "raised")
      BY <1>7 DEF Fail, StatusCommit
  <2> QED
      BY <1>1, <2>1, StatusCommitKeepsSessions
<1> QED
    BY <1>2, <1>3, <1>4, <1>5, <1>6, <1>7 DEF JobStep

LEMMA ClickStepKeepsSessions ==
    ASSUME OneJobInv, TypeOK', SessionParts, NEW c \in Clicks, ClickStep(c)
    PROVE  SessionParts'
<1>1. c \in Procs /\ c \notin Jobs
    BY PipelineAssumption DEF Procs
<1>2. CASE Resume(c)
  <2>1. PICK cp : Advance(c, cp, "graph")
      BY <1>2 DEF Resume
  <2> QED
      BY <1>1, <1>2, <2>1, AdvanceKeepsSessions DEF Resume
<1>3. CASE ClickCommit(c)
  <2>1. StatusCommit(c, StatusAfterClick(act[c]), "done")
      BY <1>3 DEF ClickCommit, StatusCommit, StatusAfterClick, Answers
  <2> QED
      BY <1>1, <2>1, StatusCommitKeepsSessions
<1> QED
    BY <1>2, <1>3 DEF ClickStep

LEMMA EnvironmentKeepsSessions ==
    ASSUME AllPromises, OneJobInv, TypeOK', SessionParts, Environment
    PROVE  SessionParts'
<1> USE DEF OneJobInv, AuditInv, IInv
<1>1. CASE \E i \in Invoices : Receive(i)
  <2>1. PICK i \in Invoices : Receive(i)
      BY <1>1
  <2>2. /\ RowMoves(i, {None}, {"received"})
        /\ UNCHANGED <<pc, inv, seen>>
      BY <2>1, ReceiveMoves DEF Receive, task
  <2>3. ASSUME NEW p \in Procs, Busy(p)
        PROVE  row'[inv[p]] = row[inv[p]]
    <3>1. inv[p] \in Invoices
        BY <2>3 DEF Busy, Working, Started
    <3>2. row[inv[p]].status # None
      <4>1. CASE p \in Jobs
          BY <2>3, <4>1, GraphAssumption DEF Busy, RowsFollowTheirSession,
             SessionParts, MayClaim, InvoiceStatus, TypeOK, JobPC
      <4>2. CASE p \in Clicks
        <5>1. InSession(p)
            BY <2>3, <4>2, PipelineAssumption
               DEF Busy, Working, InSession, TypeOK, ClickPC
        <5> QED
            BY <4>2, <5>1, GraphAssumption DEF RowsFollowTheirSession,
               SessionParts, InvoiceStatus
      <4> QED
          BY <4>1, <4>2 DEF Procs
    <3> QED
        BY <2>2, <3>1, <3>2 DEF RowMoves
  <2> QED
      BY <2>2, <2>3 DEF SessionParts, ClicksAreSerial, SessionsSeeTheRow,
         RowsFollowTheirSession, InSession, Busy, Working, Procs
<1>2. CASE \E j \in Jobs, i \in Invoices : Enqueue(j, i)
  <2>1. PICK j \in Jobs, i \in Invoices : Enqueue(j, i)
      BY <1>2
  <2>2. /\ j \in Procs /\ j \notin Clicks /\ UNCHANGED <<row, seen>>
        /\ pc'[j] = "queued"
        /\ \A q \in Procs \ {j} : pc'[q] = pc[q] /\ inv'[q] = inv[q]
      BY <2>1, PipelineAssumption DEF Enqueue, TypeOK, Procs, db
  <2> QED
      BY <2>2, OneSessionMoves DEF Working
<1>3. CASE \E j \in Jobs : Retry(j) \/ GiveUp(j)
  <2>1. PICK j \in Jobs : Retry(j) \/ GiveUp(j)
      BY <1>3
  <2>2. /\ j \in Procs /\ j \notin Clicks /\ UNCHANGED <<row, seen, inv>>
        /\ pc'[j] \in {"queued", "done"}
        /\ \A q \in Procs \ {j} : pc'[q] = pc[q]
      BY <2>1, PipelineAssumption DEF Retry, GiveUp, TypeOK, Procs, db, task
  <2> QED
      BY <2>2, OneSessionMoves DEF Working
<1>4. CASE \E c \in Clicks, i \in Invoices, a \in HumanActions : ClickRead(c, i, a)
  <2>1. PICK c \in Clicks, i \in Invoices, a \in HumanActions : ClickRead(c, i, a)
      BY <1>4
  <2>2. /\ c \in Procs /\ c \notin Jobs /\ UNCHANGED row
        /\ inv'[c] = i /\ seen'[c] = row[i]
        /\ \A q \in Procs \ {c} :
              pc'[q] = pc[q] /\ seen'[q] = seen[q] /\ inv'[q] = inv[q]
      BY <2>1, PipelineAssumption DEF ClickRead, Load, TypeOK, Procs, db
  <2>3. /\ row[i].status = "pending_review"
        /\ \A d \in Clicks : pc[d] \in {"idle", "done"}
      BY <2>1 DEF ClickRead, ClickAllowed, AllPromises, Promises
  <2> QED
      BY <2>2, <2>3, OneSessionMoves
<1>5. CASE \E p \in Procs : StepRaises(p) \/ Crash(p)
    BY <1>5, FaultLeaves, LeftKeepsSessions
<1> QED
    BY <1>1, <1>2, <1>3, <1>4, <1>5 DEF Environment

LEMMA NextKeepsReviewInv ==
    ASSUME AllPromises, AnswersArrive, ReviewInv, [Next]_vars
    PROVE  ReviewInv'
<1> SUFFICES ASSUME OneJobInv, SessionParts PROVE OneJobInv' /\ SessionParts'
    BY DEF ReviewInv, SessionParts
<1>1. OneJobInv' /\ TypeOK'
  <2>1. OneJob
      BY DEF OneJob, AllPromises, Promises
  <2> QED
      BY <2>1, NextKeepsOneJobInv DEF OneJobInv, AuditInv, IInv
<1>2. SessionParts'
  <2>1. CASE Environment
      BY <1>1, <2>1, EnvironmentKeepsSessions
  <2>2. CASE \E p \in Procs : GraphStep(p)
      BY <1>1, <2>2, GraphStepKeepsSessions
  <2>3. CASE \E j \in Jobs : JobStep(j)
      BY <1>1, <2>3, JobStepKeepsSessions
  <2>4. CASE \E c \in Clicks : ClickStep(c)
      BY <1>1, <2>4, ClickStepKeepsSessions
  <2>5. CASE UNCHANGED vars
    <3>1. UNCHANGED <<row, pc, inv, seen>>
        BY <2>5 DEF vars
    <3> QED
        BY <3>1 DEF SessionParts, ClicksAreSerial, SessionsSeeTheRow,
                    RowsFollowTheirSession, InSession
  <2> QED
      BY <2>1, <2>2, <2>3, <2>4, <2>5 DEF Next
<1> QED
    BY <1>1, <1>2

LEMMA InitEstablishesReviewInv == Init => ReviewInv
<1> SUFFICES ASSUME Init PROVE SessionParts
    BY InitEstablishesOneJobInv DEF ReviewInv, SessionParts
<1>1. \A p \in Procs : pc[p] = "idle"
    BY DEF Init
<1>2. SessionParts
    BY <1>1 DEF SessionParts, ClicksAreSerial, SessionsSeeTheRow,
                RowsFollowTheirSession, InSession, Working, Procs
<1> QED
    BY <1>2

(***************************************************************************)
(* The inductive invariant of an environment that keeps its promises,      *)
(* while every COMMIT is answered.                                         *)
(***************************************************************************)
THEOREM ReviewInvariance ==
    ASSUME AllPromises, AnswersArrive
    PROVE  Spec => []ReviewInv
<1>1. ReviewInv /\ [Next]_vars => ReviewInv'
    BY NextKeepsReviewInv
<1> QED
    BY <1>1, InitEstablishesReviewInv, PTL DEF Spec

(***************************************************************************)
(* No worker and no callback commits values it read before another's       *)
(* commit, however often a job is redelivered and whatever else fails,     *)
(* while every COMMIT is answered: the handler of a save that was not      *)
(* works beside the presses on the review it has asked for.                *)
(***************************************************************************)
THEOREM SessionsStayApart ==
    ASSUME AllPromises, AnswersArrive
    PROVE  Spec => []SessionsDoNotOverlap
<1>1. ReviewInv => SessionsDoNotOverlap
    BY BusyApart, SessionIsBusy DEF ReviewInv, SessionParts, OneJobInv, AuditInv,
       IInv, SessionsDoNotOverlap
<1> QED
    BY <1>1, ReviewInvariance, PTL
-----------------------------------------------------------------------------
(***************************************************************************)
(* The refinement of InvoiceLifecycle: an edge of the row is a step of it. *)
(***************************************************************************)
LEMMA RowMovesAlongTheLifecycle ==
    ASSUME NEW i \in Invoices, NEW from, NEW to, RowMoves(i, from, to)
    PROVE  Lifecycle!Move(i, from, to)
<1>1. [k \in Invoices |-> row'[k].status] =
        [[k \in Invoices |-> row[k].status] EXCEPT ![i] = row'[i].status]
    BY DEF RowMoves
<1>2. row[i].status \in from /\ row'[i].status \in to
    BY DEF RowMoves
<1> QED
    BY <1>1, <1>2 DEF Lifecycle!Move

LEMMA ReferencesKept ==
    ASSUME NEW i \in Invoices, KeepsReference(i),
           \A k \in Invoices \ {i} : row'[k] = row[k]
    PROVE  [k \in Invoices |-> row'[k].ref] = [k \in Invoices |-> row[k].ref]
BY DEF KeepsReference

LEMMA EdgeIsALifecycleStep ==
    ASSUME NEW i \in Invoices, Edge(i)
    PROVE  Lifecycle!LNext
<1>1. \A k \in Invoices \ {i} : row'[k] = row[k]
    BY DEF Edge, RowMoves
<1>2. CASE RowMoves(i, {None}, {"received"}) /\ KeepsReference(i)
  <2>1. Lifecycle!Arrive(i)
      BY <1>1, <1>2, RowMovesAlongTheLifecycle, ReferencesKept
         DEF Lifecycle!Arrive
  <2> QED
      BY <2>1 DEF Lifecycle!LNext
<1>3. CASE RowMoves(i, {"received", "failed"}, {"extracting"}) /\ KeepsReference(i)
  <2>1. Lifecycle!Begin(i)
      BY <1>1, <1>3, RowMovesAlongTheLifecycle, ReferencesKept
         DEF Lifecycle!Begin
  <2> QED
      BY <2>1 DEF Lifecycle!LNext
<1>4. CASE RowMoves(i, {"extracting"}, {"failed"}) /\ KeepsReference(i)
  <2>1. Lifecycle!Fail(i)
      BY <1>1, <1>4, RowMovesAlongTheLifecycle, ReferencesKept
         DEF Lifecycle!Fail
  <2> QED
      BY <2>1 DEF Lifecycle!LNext
<1>5. CASE RowMoves(i, {"extracting"}, {"paid"}) /\ row'[i].ref \in Refs
  <2>1. [k \in Invoices |-> row'[k].ref] =
            [[k \in Invoices |-> row[k].ref] EXCEPT ![i] = row'[i].ref]
      BY <1>1
  <2>2. Lifecycle!Pay(i)
      BY <1>5, <2>1, RowMovesAlongTheLifecycle DEF Lifecycle!Pay
  <2> QED
      BY <2>2 DEF Lifecycle!LNext
<1>6. CASE RowMoves(i, {"extracting"}, {"pending_review", "dead_lettered"})
           /\ KeepsReference(i)
  <2>1. Lifecycle!Stop(i)
      BY <1>1, <1>6, RowMovesAlongTheLifecycle, ReferencesKept
         DEF Lifecycle!Stop
  <2> QED
      BY <2>1 DEF Lifecycle!LNext
<1>7. CASE RowMoves(i, {"pending_review"}, Answers) /\ KeepsReference(i)
  <2>1. Lifecycle!Answer(i)
      BY <1>1, <1>7, RowMovesAlongTheLifecycle, ReferencesKept
         DEF Lifecycle!Answer, Answers
  <2> QED
      BY <2>1 DEF Lifecycle!LNext
<1> QED
    BY <1>2, <1>3, <1>4, <1>5, <1>6, <1>7 DEF Edge

LEMMA InitIsALifecycleStart == Init => Lifecycle!LInit
BY DEF Init, Lifecycle!LInit, NoRow

LEMMA StepFollowsLifecycle ==
    ASSUME AnswersArrive, ReviewInv, [Next]_vars
    PROVE  [Lifecycle!LNext]_(Lifecycle!lvars)
<1>1. UNCHANGED db \/ \E i \in Invoices : Edge(i)
    BY StepTakesAnEdge DEF ReviewInv, SessionParts
<1>2. ASSUME UNCHANGED db PROVE UNCHANGED Lifecycle!lvars
    BY <1>2 DEF db, Lifecycle!lvars
<1> QED
    BY <1>1, <1>2, EdgeIsALifecycleStep

(***************************************************************************)
(* Worker, redeliveries and callbacks implement the life of an invoice     *)
(* while every COMMIT is answered: no row takes an edge the lifecycle does *)
(* not have.  A save whose answer is lost takes a row out of paid.         *)
(***************************************************************************)
THEOREM LifecycleIsImplemented ==
    ASSUME AllPromises, AnswersArrive
    PROVE  Spec => FollowsLifecycle
<1>1. ReviewInv /\ [Next]_vars => [Lifecycle!LNext]_(Lifecycle!lvars)
    BY StepFollowsLifecycle
<1>2. Spec => Lifecycle!LInit /\ [][Lifecycle!LNext]_(Lifecycle!lvars)
    BY <1>1, InitIsALifecycleStart, ReviewInvariance, PTL DEF Spec
<1> QED
    BY <1>2 DEF FollowsLifecycle, Lifecycle!LSpec
=============================================================================
