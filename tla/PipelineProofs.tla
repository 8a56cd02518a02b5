--------------------------- MODULE PipelineProofs ---------------------------
(***************************************************************************)
(* Proofs about the pipeline, for every set of invoices, jobs and clicks,  *)
(* every number of tries, every extraction result, every fault and every   *)
(* promise of the environment.                                             *)
(***************************************************************************)
EXTENDS PipelineInvariant, TLAPS

Row == InvoiceRow(Threads, Refs, Data)
State == InvoiceState(Refs)

-----------------------------------------------------------------------------
(***************************************************************************)
(* The operators of the model.                                             *)
(***************************************************************************)
\* The values the variables start from have their types.
LEMMA InitialValues ==
    NoRow \in Row /\ EmptyState \in State /\ Fresh \in Checkpoint
BY DEF Row, State, NoRow, InvoiceRow, EmptyState, InvoiceState, Fresh,
       Checkpoint, Errors, Nodes

\* The unit of work writes a row of the table.
LEMMA FlushedRowType ==
    ASSUME NEW stored \in Row, NEW loaded \in Row, NEW assigned \in Row
    PROVE  FlushedRow(stored, loaded, assigned) \in Row
BY DEF Row, InvoiceRow, FlushedRow, Flushed

\* extract_node keeps what it does not set, and finds no data without a file.
LEMMA ExtractNodeFacts ==
    ASSUME NEW s \in State, NEW st \in ExtractNode(s)
    PROVE  /\ st \in State
           /\ st.inv = s.inv /\ st.ref = s.ref /\ st.human = s.human
           /\ st.data # None => st.inv # None
           /\ RouteAfterExtract(st) \in {"decide", "dead_letter"}
<1>1. CASE \E d \in Data : s.inv # None
                           /\ st = [s EXCEPT !.data = d, !.error = None]
    BY <1>1 DEF State, InvoiceState, Errors, RouteAfterExtract
<1>2. CASE \E e \in Texts : st = [s EXCEPT !.data = None, !.error = e]
    BY <1>2 DEF State, InvoiceState, Errors, Texts, RouteAfterExtract
<1> QED
    BY <1>1, <1>2 DEF ExtractNode, Texts

\* decide_node lets nothing on to execute that the rules object to.
LEMMA DecideNodeFacts ==
    ASSUME NEW s \in State, NEW st, st = DecideNode(s)
    PROVE  /\ st \in State
           /\ st.inv = s.inv /\ st.ref = s.ref /\ st.human = s.human
           /\ st.data = s.data
           /\ RouteAfterDecide(st) \in {"notify", "dead_letter", "execute"}
           /\ RouteAfterDecide(st) # "dead_letter" => st.data # None
           /\ RouteAfterDecide(st) = "execute" =>
                    RiskDecision(st.data) = "auto_approve"
<1>1. RiskDecision(s.data) \in {"auto_approve", "needs_review"}
    BY DEF RiskDecision
<1>2. st = [s EXCEPT !.decision =
                IF Truthy(s.error) \/ s.data = None THEN "reject"
                ELSE RiskDecision(s.data)]
    BY DEF DecideNode
<1>3. /\ st \in State /\ st.inv = s.inv /\ st.ref = s.ref
      /\ st.human = s.human /\ st.data = s.data
    BY <1>1, <1>2 DEF State, InvoiceState, DecisionOutcome
<1>4. st.decision = IF Truthy(s.error) \/ s.data = None THEN "reject"
                    ELSE RiskDecision(s.data)
    BY <1>2 DEF State, InvoiceState
<1> QED
    BY <1>1, <1>3, <1>4 DEF RouteAfterDecide

\* notify_node changes the message timestamp only.
LEMMA NotifyNodeFacts ==
    ASSUME NEW s \in State, NEW st \in NotifyNode(s)
    PROVE  /\ st \in State
           /\ st.inv = s.inv /\ st.ref = s.ref /\ st.human = s.human
           /\ st.data = s.data
<1>1. PICK ts \in {None, "mock", "posted"} : st = [s EXCEPT !.ts = ts]
    BY DEF NotifyNode, SendApprovalRequest
<1> QED
    BY <1>1 DEF State, InvoiceState

\* execute_node leaves a reference behind, the old one or the new one.
LEMMA ExecuteNodeFacts ==
    ASSUME NEW s \in State, NEW new \in Refs, NEW st, st = ExecuteNode(s, new)
    PROVE  /\ st \in State
           /\ st.inv = s.inv /\ st.human = s.human /\ st.data = s.data
           /\ st.ref \in Refs
BY DEF ExecuteNode, State, InvoiceState

\* Only an approval leads from human_approval to execute.
LEMMA RouteAfterHumanFacts ==
    ASSUME NEW s
    PROVE  /\ RouteAfterHuman(s) \in {"execute", "dead_letter"}
           /\ RouteAfterHuman(s) = "execute" => s.human = "approve"
BY DEF RouteAfterHuman
-----------------------------------------------------------------------------
(***************************************************************************)
(* The invariant, step by step.  Each lemma covers the steps of one kind.  *)
(***************************************************************************)
\* What was justified stays so: references and approvals are never taken back.
LEMMA StaysJustified ==
    ASSUME NEW cp \in Checkpoint, NEW refs1, NEW refs2, NEW ok1, NEW ok2,
           \A i \in Invoices : refs1[i] \subseteq refs2[i],
           ok1 \subseteq ok2,
           Justified(cp, refs1, ok1)
    PROVE  Justified(cp, refs2, ok2)
BY DEF Justified, Checkpoint, InvoiceState

\* What a commit, or none, may do to the rows.
RowsStep ==
    /\ row' \in [Invoices -> Row]
    /\ audit' \in [Invoices -> Seq(InvoiceAuditLog)]
    /\ \A i \in Invoices :
        /\ row'[i].thread = row[i].thread
               \/ (row'[i].thread # None /\ ckpt[row'[i].thread].st.inv = i)
        /\ row[i].ref # None => row'[i].ref # None
        /\ row'[i].ref # None => row'[i].ref \in issued[i]
        /\ row'[i].status = "paid" => row'[i].ref # None

LEMMA NoCommit ==
    ASSUME IInv, UNCHANGED db
    PROVE  RowsStep
BY DEF IInv, TypeOK, RowsAreJustified, RowsStep, db, Row

\* A commit of a session that assigns the status, and a thread and a
\* reference only if they are the invoice's own.
LEMMA CommitStep ==
    ASSUME IInv, NEW p \in Procs, pc[p] # "idle",
           NEW new \in Row, NEW entries \in Seq(InvoiceAuditLog),
           new.thread = seen[p].thread
               \/ (new.thread # None /\ ckpt[new.thread].st.inv = inv[p]),
           new.ref = seen[p].ref
               \/ (new.ref # None /\ new.ref \in issued[inv[p]]),
           new.status = "paid" => new.ref # None,
           Commit(inv[p], seen[p], new, entries)
    PROVE  RowsStep
<1> DEFINE i == inv[p]
<1>1. i \in Invoices /\ seen[p] \in Row /\ row \in [Invoices -> Row]
      /\ audit \in [Invoices -> Seq(InvoiceAuditLog)]
    BY DEF IInv, Started, TypeOK, Row
<1>2. row' = [row EXCEPT ![i] = FlushedRow(row[i], seen[p], new)]
      /\ audit' = [audit EXCEPT ![i] = audit[i] \o entries]
    BY DEF Commit
<1>3. FlushedRow(row[i], seen[p], new) \in Row
    BY <1>1, FlushedRowType
<1>4. row' \in [Invoices -> Row]
    BY <1>1, <1>2, <1>3
<1>5. audit' \in [Invoices -> Seq(InvoiceAuditLog)]
    BY <1>1, <1>2
<1>6. \A k \in Invoices \ {i} : row'[k] = row[k]
    BY <1>1, <1>2
<1>7. row'[i] = FlushedRow(row[i], seen[p], new)
    BY <1>1, <1>2
<1>8. /\ row'[i].status = Flushed(row[i].status, seen[p].status, new.status)
      /\ row'[i].thread = Flushed(row[i].thread, seen[p].thread, new.thread)
      /\ row'[i].ref = Flushed(row[i].ref, seen[p].ref, new.ref)
    BY <1>7 DEF FlushedRow
<1>9. /\ row[i].ref # None => row[i].ref \in issued[i]
      /\ row[i].status = "paid" => row[i].ref # None
      /\ seen[p].ref # None => row[i].ref # None
    BY <1>1 DEF IInv, RowsAreJustified
<1>10. /\ row'[i].thread = row[i].thread
              \/ (row'[i].thread # None /\ ckpt[row'[i].thread].st.inv = i)
       /\ row[i].ref # None => row'[i].ref # None
       /\ row'[i].ref # None => row'[i].ref \in issued[i]
       /\ row'[i].status = "paid" => row'[i].ref # None
    BY <1>8, <1>9 DEF Flushed
<1>11. \A k \in Invoices : /\ row[k].ref # None => row[k].ref \in issued[k]
                           /\ row[k].status = "paid" => row[k].ref # None
    BY DEF IInv, RowsAreJustified
<1> QED
    BY <1>4, <1>5, <1>6, <1>10, <1>11 DEF RowsStep

\* References are only ever added.
IssuedStep ==
    /\ issued' \in [Invoices -> SUBSET Refs]
    /\ \A i \in Invoices : issued[i] \subseteq issued'[i]

\* A process ends, fails, or starts over without session and graph.
LEMMA LeaveStep ==
    ASSUME IInv, NEW p \in Procs, pc[p] # "idle", NEW to,
           p \in Jobs => to \in JobPC \ {"idle", "graph", "returned", "saving"},
           p \in Clicks => to = "done",
           RowsStep, IssuedStep, Leave(p, to), UNCHANGED <<ckpt, task>>
    PROVE  IInv'
<1> USE DEF IInv
<1>1. pc' = [pc EXCEPT ![p] = to] /\ seen' = [seen EXCEPT ![p] = NoRow]
      /\ run' = [run EXCEPT ![p] = Fresh] /\ UNCHANGED <<ckpt, inv, try, act>>
    BY DEF Leave, task
<1>2. /\ pc \in [Procs -> JobPC \cup ClickPC]
      /\ seen \in [Procs -> Row] /\ run \in [Procs -> Checkpoint]
    BY DEF TypeOK, Row
<1>3. TypeOK'
  <2>1. /\ pc' \in [Procs -> JobPC \cup ClickPC]
        /\ \A j \in Jobs : pc'[j] \in JobPC
        /\ \A c \in Clicks : pc'[c] \in ClickPC
    BY <1>1, <1>2, PipelineAssumption DEF TypeOK, Procs, JobPC, ClickPC
  <2>2. seen' \in [Procs -> Row] /\ run' \in [Procs -> Checkpoint]
    BY <1>1, <1>2, InitialValues
  <2> QED
    BY <1>1, <2>1, <2>2 DEF TypeOK, RowsStep, IssuedStep, Row
<1>4. Started'
    BY <1>1, <1>2 DEF Started, JobPC, Procs
<1>5. /\ \A q \in Procs : run'[q] = run[q] \/ (q = p /\ run'[q] = Fresh)
      /\ \A q \in Procs : seen'[q] = seen[q] \/ (q = p /\ seen'[q] = NoRow)
      /\ \A q \in Procs \ {p} : run'[q] = run[q] /\ seen'[q] = seen[q]
                                 /\ pc'[q] = pc[q]
      /\ pc'[p] \notin {"graph", "returned", "saving"}
    BY <1>1, <1>2 DEF JobPC, Procs
<1>6. /\ Fresh.st.inv = None /\ Fresh.st.data = None /\ Fresh.st.ref = None
      /\ Fresh.st.human = None /\ Fresh.next = "extract"
      /\ NoRow.thread = None /\ NoRow.ref = None
    BY DEF Fresh, EmptyState, NoRow
<1>7. RunsAreOwn'
    BY <1>1, <1>5, <1>6 DEF RunsAreOwn, Procs
<1>8. ThreadsAreOwn'
    BY <1>1, <1>5, <1>6 DEF ThreadsAreOwn, ThreadIsOwn, RowsStep
<1>9. CheckpointsAreJustified'
  <2>1. Approved' = Approved
    BY <1>1 DEF Approved
  <2>2. \A cp \in Checkpoint : Justified(cp, issued, Approved)
                                 => Justified(cp, issued', Approved')
    BY <2>1, StaysJustified DEF IssuedStep
  <2>3. Justified(Fresh, issued', Approved')
    BY <1>6 DEF Justified
  <2>4. \A q \in Procs : run[q] \in Checkpoint
    BY <1>2
  <2>5. \A t \in Threads : ckpt[t] \in Checkpoint
    BY DEF TypeOK
  <2> QED
    BY <1>1, <1>5, <2>2, <2>3, <2>4, <2>5 DEF CheckpointsAreJustified
<1>10. RowsAreJustified'
    BY <1>1, <1>5, <1>6 DEF RowsAreJustified, RowsStep, IssuedStep
<1> QED
    BY <1>3, <1>4, <1>7, <1>8, <1>9, <1>10

\* The AfterException of a job or a click that is under way.
LEMMA AfterExceptionFacts ==
    ASSUME NEW p \in Procs
    PROVE  /\ p \in Jobs => AfterException(p)
                                \in JobPC \ {"idle", "graph", "returned", "saving"}
           /\ p \in Clicks => AfterException(p) = "done"
           /\ p \in Jobs => AfterCrash(p) = "raised"
           /\ p \in Clicks => AfterCrash(p) = "done"
BY PipelineAssumption DEF AfterException, AfterCrash, JobPC

\* A job's commit leaves it on its way, in its handler or raised.
LEMMA AfterCommitFacts ==
    ASSUME NEW j \in Jobs, NEW to, NEW next \in AfterCommit(j, to)
    PROVE  /\ next \in {to, "raised", "fail"}
           /\ next = "fail" => to = "fail" \/ pc[j] \in GuardedByTry
BY PipelineAssumption DEF AfterCommit, AfterException, AfterCrash

\* A superstep of the graph, on a checkpoint that is justified and its own.
LEMMA AdvanceStep ==
    ASSUME IInv, NEW p \in Procs, pc[p] # "idle",
           NEW cp \in Checkpoint, NEW to \in {"graph", "returned"},
           Justified(cp, issued', Approved),
           p \in Jobs => cp.st.inv = inv[p],
           p \in Clicks => /\ cp.st.inv \in {None, inv[p]}
                           /\ seen[p].thread # None => cp.st.inv = inv[p],
           IssuedStep, Advance(p, cp, to)
    PROVE  IInv'
<1> USE DEF IInv
<1>1. UNCHANGED db /\ UNCHANGED task
    BY DEF Advance
<1>2. CASE (\E lost \in AfterLostStep(p) : Leave(p, lost)) /\ UNCHANGED ckpt
  <2>1. PICK lost \in AfterLostStep(p) : Leave(p, lost)
    BY <1>2
  <2>2. /\ p \in Jobs => lost \in JobPC \ {"idle", "graph", "returned", "saving"}
        /\ p \in Clicks => lost = "done"
    BY <2>1, AfterExceptionFacts DEF AfterLostStep, JobPC
  <2> QED
    BY <1>1, <1>2, <2>1, <2>2, LeaveStep, NoCommit
<1>3. CASE /\ SaveCheckpoint(p, cp)
           /\ run' = [run EXCEPT ![p] = cp]
           /\ pc' = [pc EXCEPT ![p] = to]
           /\ UNCHANGED seen
  <2>1. UNCHANGED <<row, audit, inv, try, act, seen>>
    BY <1>1, <1>3 DEF db, task
  <2>2. /\ pc \in [Procs -> JobPC \cup ClickPC] /\ try \in [Jobs -> 1..MaxTries]
        /\ run \in [Procs -> Checkpoint] /\ ckpt \in [Threads -> Checkpoint]
        /\ seen \in [Procs -> Row]
    BY DEF TypeOK, Row
  <2>3. /\ p \in Jobs => ThreadOf(p) = <<p, try[p]>> /\ ThreadOf(p) \in Threads
                         /\ ThreadOf(p) # None
        /\ p \in Clicks => ThreadOf(p) = seen[p].thread
        /\ ThreadOf(p) # None => ThreadOf(p) \in Threads
        /\ None \notin Threads
    BY <2>2, PipelineAssumption DEF ThreadOf, Threads, Refs, Procs, Row, InvoiceRow
  <2>4. /\ ThreadOf(p) = None => ckpt' = ckpt
        /\ ThreadOf(p) # None => ckpt' = [ckpt EXCEPT ![ThreadOf(p)] = cp]
    BY <1>3 DEF SaveCheckpoint
  <2>5. /\ ckpt' \in [Threads -> Checkpoint]
        /\ \A t \in Threads : t # ThreadOf(p) => ckpt'[t] = ckpt[t]
        /\ ThreadOf(p) # None => ckpt'[ThreadOf(p)] = cp
    BY <2>2, <2>3, <2>4
  <2>6. /\ run' \in [Procs -> Checkpoint] /\ run'[p] = cp /\ pc'[p] = to
        /\ \A q \in Procs \ {p} : run'[q] = run[q] /\ pc'[q] = pc[q]
    BY <1>3, <2>2
  <2>7. TypeOK'
    <3>1. /\ pc' \in [Procs -> JobPC \cup ClickPC]
          /\ \A j \in Jobs : pc'[j] \in JobPC
          /\ \A c \in Clicks : pc'[c] \in ClickPC
      BY <1>3, <2>2 DEF TypeOK, Procs, JobPC, ClickPC
    <3> QED
      BY <2>1, <2>5, <2>6, <3>1 DEF TypeOK, IssuedStep
  <2>8. Started'
    BY <2>1, <2>6 DEF Started
  \* The thread that is written belonged to the process's invoice before, if
  \* it belonged to any.
  <2>9. ThreadOf(p) # None =>
            /\ cp.st.inv = inv[p]
            /\ ckpt[ThreadOf(p)].st.inv \in {None, inv[p]}
    <3>1. CASE p \in Jobs
      BY <2>2, <2>3, <3>1 DEF ThreadsAreOwn
    <3>2. CASE p \in Clicks
      BY <2>3, <3>2 DEF ThreadsAreOwn, ThreadIsOwn
    <3> QED
      BY <3>1, <3>2 DEF Procs
  <2>10. \A t \in Threads : ckpt[t].st.inv # None => ckpt'[t].st.inv = ckpt[t].st.inv
    BY <2>3, <2>5, <2>9
  <2>11. /\ \A i \in Invoices : row[i].thread # None => row[i].thread \in Threads
         /\ \A q \in Procs : seen[q].thread # None => seen[q].thread \in Threads
    BY DEF TypeOK, InvoiceRow
  <2>12. \A q \in Procs : seen[q].thread # None => inv[q] # None
    BY PipelineAssumption, GraphAssumption DEF Started, NoRow
  <2>13. ThreadIsOwn'
    BY <2>1, <2>10, <2>11, <2>12, GraphAssumption DEF ThreadsAreOwn, ThreadIsOwn
  <2>14. ThreadsAreOwn'
    <3>1. ASSUME NEW j \in Jobs, NEW k \in 1..MaxTries
          PROVE  ckpt'[<<j, k>>].st.inv \in {None, inv[j]}
      <4>1. <<j, k>> \in Threads /\ ckpt[<<j, k>>].st.inv \in {None, inv[j]}
        BY DEF Threads, ThreadsAreOwn
      <4>2. CASE <<j, k>> # ThreadOf(p)
        BY <2>5, <4>1, <4>2
      <4>3. CASE <<j, k>> = ThreadOf(p) /\ p \in Jobs
        BY <2>3, <2>5, <2>9, <4>1, <4>3
      <4>4. CASE <<j, k>> = ThreadOf(p) /\ p \in Clicks
        <5>1. seen[p].thread = <<j, k>> /\ seen[p].thread # None
          BY <2>3, <4>1, <4>4, PipelineAssumption DEF Refs
        <5>2. ckpt[<<j, k>>].st.inv = inv[p] /\ inv[p] # None
          BY <2>12, <4>4, <5>1 DEF ThreadsAreOwn, ThreadIsOwn
        <5> QED
          BY <2>10, <4>1, <5>2
      <4> QED
        BY <4>2, <4>3, <4>4 DEF Procs
    <3> QED
      BY <2>1, <2>13, <3>1 DEF ThreadsAreOwn
  <2>15. RunsAreOwn'
    <3>1. \A q \in Procs : run'[q].st.inv \in {None, inv'[q]}
      BY <2>1, <2>6 DEF RunsAreOwn, Procs
    <3>2. ASSUME NEW j \in Jobs, pc'[j] \in {"graph", "returned", "saving"}
          PROVE  run'[j].st.inv = inv[j] /\ ckpt'[<<j, try[j]>>].st.inv = inv[j]
      <4>1. CASE j = p
        BY <2>3, <2>5, <2>6, <4>1
      <4>2. CASE j # p
        <5>1. /\ run[j].st.inv = inv[j] /\ ckpt[<<j, try[j]>>].st.inv = inv[j]
              /\ run'[j] = run[j] /\ pc[j] = pc'[j]
          BY <2>6, <3>2, <4>2 DEF RunsAreOwn, Procs
        <5>2. pc[j] # "idle" /\ j \in Procs
          BY <3>2, <5>1 DEF Procs
        <5>3. inv[j] # None
          BY <5>2, GraphAssumption DEF Started
        <5>4. <<j, try[j]>> \in Threads
          BY <2>2 DEF Threads
        <5> QED
          BY <2>10, <5>1, <5>3, <5>4
      <4> QED
        BY <4>1, <4>2
    <3>3. \A c \in Clicks :
            pc'[c] \in {"graph", "returned"} /\ seen'[c].thread # None =>
                run'[c].st.inv = inv'[c]
      BY <2>1, <2>6 DEF RunsAreOwn, Procs
    <3> QED
      BY <2>1, <3>1, <3>2, <3>3 DEF RunsAreOwn
  <2>16. CheckpointsAreJustified'
    <3>1. Approved' = Approved
      BY <2>1 DEF Approved
    <3>2. \A k \in Checkpoint : Justified(k, issued, Approved)
                                    => Justified(k, issued', Approved')
      BY <3>1, StaysJustified DEF IssuedStep
    <3>3. \A q \in Procs : Justified(run'[q], issued', Approved')
      BY <2>2, <2>6, <3>1, <3>2 DEF CheckpointsAreJustified
    <3>4. \A t \in Threads : Justified(ckpt'[t], issued', Approved')
      BY <2>2, <2>5, <2>3, <3>1, <3>2 DEF CheckpointsAreJustified
    <3> QED
      BY <3>3, <3>4 DEF CheckpointsAreJustified
  <2>17. RowsAreJustified'
    BY <2>1 DEF RowsAreJustified, IssuedStep
  <2> QED
    BY <2>7, <2>8, <2>14, <2>15, <2>16, <2>17
<1> QED
    BY <1>2, <1>3 DEF Advance

\* The same for a step that StepTo takes.
LEMMA StepToStep ==
    ASSUME IInv, NEW p \in Procs, pc[p] # "idle",
           NEW st \in State, NEW next \in Nodes \cup {END},
           Justified([st |-> st, next |-> next, asked |-> FALSE],
                     issued', Approved),
           p \in Jobs => st.inv = inv[p],
           p \in Clicks => /\ st.inv \in {None, inv[p]}
                           /\ seen[p].thread # None => st.inv = inv[p],
           IssuedStep, StepTo(p, st, next)
    PROVE  IInv'
<1> DEFINE cp == [st |-> st, next |-> next, asked |-> FALSE]
<1> DEFINE to == IF next \in InterruptBefore \cup {END} THEN "returned" ELSE "graph"
<1>1. cp \in Checkpoint /\ cp.st = st /\ to \in {"graph", "returned"}
    BY DEF Checkpoint, State
<1>2. Advance(p, cp, to) /\ Justified(cp, issued', Approved)
    BY DEF StepTo
<1> HIDE DEF cp, to
<1> QED
    BY <1>1, <1>2, AdvanceStep

\* Where no reference is made the history stays as it is.
LEMMA NothingIssued ==
    ASSUME IInv, UNCHANGED issued
    PROVE  IssuedStep
BY DEF IInv, TypeOK, IssuedStep

\* A process inside ainvoke runs a state of its own invoice.
LEMMA InsideGraph ==
    ASSUME IInv, NEW p \in Procs, pc[p] = "graph"
    PROVE  /\ run[p] \in Checkpoint /\ run[p].st \in State
           /\ Justified(run[p], issued, Approved)
           /\ inv[p] \in Invoices
           /\ p \in Jobs => run[p].st.inv = inv[p]
           /\ p \in Clicks => /\ run[p].st.inv \in {None, inv[p]}
                              /\ seen[p].thread # None => run[p].st.inv = inv[p]
<1>1. run[p] \in Checkpoint /\ run[p].st \in State
    BY DEF IInv, TypeOK, Checkpoint, State
<1> QED
    BY <1>1 DEF IInv, CheckpointsAreJustified, Started, RunsAreOwn

LEMMA GraphStepKeepsIInv ==
    ASSUME IInv, NEW p \in Procs, GraphStep(p)
    PROVE  IInv'
<1> DEFINE s == run[p].st
<1>1. pc[p] = "graph"
    BY DEF GraphStep, Extract, Decide, Notify, HumanApproval, Execute,
           DeadLetter, At
<1>2. /\ run[p] \in Checkpoint /\ s \in State
      /\ Justified(run[p], issued, Approved)
      /\ inv[p] \in Invoices
      /\ p \in Jobs => s.inv = inv[p]
      /\ p \in Clicks => /\ s.inv \in {None, inv[p]}
                         /\ seen[p].thread # None => s.inv = inv[p]
    BY <1>1, InsideGraph
<1>3. Nodes = {"extract", "decide", "notify", "human_approval", "execute",
               "dead_letter"}
    BY DEF Nodes
<1>4. CASE Extract(p)
  <2>1. PICK st \in ExtractNode(s) : StepTo(p, st, RouteAfterExtract(st))
    BY <1>4 DEF Extract
  <2>2. IssuedStep /\ issued' = issued
    BY <1>4, NothingIssued DEF Extract
  <2>3. /\ st \in State /\ st.inv = s.inv /\ st.ref = s.ref /\ st.human = s.human
        /\ st.data # None => st.inv # None
        /\ RouteAfterExtract(st) \in {"decide", "dead_letter"}
    BY <1>2, <2>1, ExtractNodeFacts
  <2>4. Justified([st |-> st, next |-> RouteAfterExtract(st), asked |-> FALSE],
                  issued', Approved)
    BY <1>2, <2>2, <2>3 DEF Justified
  <2> QED
    BY <1>1, <1>2, <1>3, <2>1, <2>2, <2>3, <2>4, StepToStep
<1>5. CASE Decide(p)
  <2>1. PICK st : st = DecideNode(s) /\ StepTo(p, st, RouteAfterDecide(st))
    BY <1>5 DEF Decide
  <2>2. IssuedStep /\ issued' = issued
    BY <1>5, NothingIssued DEF Decide
  <2>3. /\ st \in State /\ st.inv = s.inv /\ st.ref = s.ref /\ st.human = s.human
        /\ st.data = s.data
        /\ RouteAfterDecide(st) \in {"notify", "dead_letter", "execute"}
        /\ RouteAfterDecide(st) # "dead_letter" => st.data # None
        /\ RouteAfterDecide(st) = "execute" =>
                RiskDecision(st.data) = "auto_approve"
    BY <1>2, <2>1, DecideNodeFacts
  <2>4. Justified([st |-> st, next |-> RouteAfterDecide(st), asked |-> FALSE],
                  issued', Approved)
    BY <1>2, <2>2, <2>3 DEF Justified
  <2> QED
    BY <1>1, <1>2, <1>3, <2>1, <2>2, <2>3, <2>4, StepToStep
<1>6. CASE Notify(p)
  <2>1. PICK st \in NotifyNode(s) : StepTo(p, st, "human_approval")
    BY <1>6 DEF Notify
  <2>2. IssuedStep /\ issued' = issued
    BY <1>6, NothingIssued DEF Notify
  <2>3. /\ st \in State /\ st.inv = s.inv /\ st.ref = s.ref /\ st.human = s.human
        /\ st.data = s.data
    BY <1>2, <2>1, NotifyNodeFacts
  <2>4. s.data # None
    BY <1>2, <1>6 DEF Notify, At, Justified
  <2>5. Justified([st |-> st, next |-> "human_approval", asked |-> FALSE],
                  issued', Approved)
    BY <1>2, <2>2, <2>3, <2>4 DEF Justified
  <2> QED
    BY <1>1, <1>2, <1>3, <2>1, <2>2, <2>3, <2>5, StepToStep
<1>7. CASE HumanApproval(p)
  <2>1. IssuedStep /\ issued' = issued /\ s.data # None
    BY <1>2, <1>7, NothingIssued DEF HumanApproval, At, Justified
  <2>2. CASE StepTo(p, s, RouteAfterHuman(s))
    <3>1. /\ RouteAfterHuman(s) \in {"execute", "dead_letter"}
          /\ RouteAfterHuman(s) = "execute" => s.human = "approve"
      BY RouteAfterHumanFacts
    <3>2. Justified([st |-> s, next |-> RouteAfterHuman(s), asked |-> FALSE],
                    issued', Approved)
      BY <1>2, <2>1, <3>1 DEF Justified
    <3> QED
      BY <1>1, <1>2, <1>3, <2>1, <2>2, <3>1, <3>2, StepToStep
  <2>3. CASE Advance(p, [run[p] EXCEPT !.asked = TRUE], "returned")
    <3>1. PICK cp : /\ cp = [run[p] EXCEPT !.asked = TRUE]
                    /\ Advance(p, cp, "returned")
      BY <2>3
    <3>2. cp \in Checkpoint /\ cp.st = s /\ cp.next = run[p].next
      BY <1>2, <3>1 DEF Checkpoint
    <3>3. Justified(cp, issued', Approved)
      BY <1>2, <2>1, <3>2 DEF Justified
    <3> QED
      BY <1>1, <1>2, <2>1, <3>1, <3>2, <3>3, AdvanceStep
  <2> QED
    BY <1>7, <2>2, <2>3 DEF HumanApproval
<1>8. CASE Execute(p)
  <2>1. NewRef(p) \in Refs
    BY DEF IInv, TypeOK, NewRef, Refs, Threads, Procs
  <2>2. PICK st : /\ st = ExecuteNode(s, NewRef(p))
                  /\ issued' = [issued EXCEPT ![st.inv] = issued[st.inv] \cup {st.ref}]
                  /\ StepTo(p, st, END)
    BY <1>8 DEF Execute
  <2>3. /\ st \in State /\ st.inv = s.inv /\ st.human = s.human /\ st.data = s.data
        /\ st.ref \in Refs
    BY <1>2, <2>1, <2>2, ExecuteNodeFacts
  <2>4. s.inv # None /\ s.inv = inv[p]
    BY <1>2, <1>8 DEF Execute, At, Justified, Procs
  <2>5. IssuedStep /\ st.ref \in issued'[st.inv]
    BY <1>2, <2>2, <2>3, <2>4 DEF IInv, TypeOK, IssuedStep
  <2>6. Justified([st |-> st, next |-> END, asked |-> FALSE], issued', Approved)
    BY <1>2, <2>3, <2>4, <2>5 DEF Justified, END
  <2> QED
    BY <1>1, <1>2, <2>2, <2>3, <2>5, <2>6, StepToStep
<1>9. CASE DeadLetter(p)
  <2>1. StepTo(p, s, END) /\ IssuedStep /\ issued' = issued
    BY <1>9, NothingIssued DEF DeadLetter
  <2>2. Justified([st |-> s, next |-> END, asked |-> FALSE], issued', Approved)
    BY <1>2, <2>1 DEF Justified, END
  <2> QED
    BY <1>1, <1>2, <2>1, <2>2, StepToStep
<1> QED
    BY <1>4, <1>5, <1>6, <1>7, <1>8, <1>9 DEF GraphStep
-----------------------------------------------------------------------------
\* ainvoke with a dict: the worker's first, and a click's on the row's thread.
LEMMA StartGraphKeepsIInv ==
    ASSUME IInv, NEW j \in Jobs, StartGraph(j)
    PROVE  IInv'
<1>1. j \in Procs /\ pc[j] = "setup" /\ inv[j] \in Invoices /\ j \notin Clicks
    BY PipelineAssumption DEF StartGraph, Procs, IInv, Started
<1>2. PICK st : /\ st = [EmptyState EXCEPT !.inv = inv[j]]
                /\ StepTo(j, st, "extract")
    BY DEF StartGraph
<1>3. /\ st \in State /\ st.inv = inv[j] /\ st.data = None /\ st.ref = None
      /\ st.human = None
    BY <1>1, <1>2, InitialValues DEF EmptyState, State, InvoiceState
<1>4. IssuedStep
    BY NothingIssued DEF StartGraph
<1>5. Justified([st |-> st, next |-> "extract", asked |-> FALSE], issued', Approved)
  <2>1. st.human # "approve"
    BY <1>3, GraphAssumption DEF HumanActions
  <2> QED
    BY <1>3, <2>1 DEF Justified
<1> QED
    BY <1>1, <1>2, <1>3, <1>4, <1>5, StepToStep DEF Nodes

LEMMA ResumeKeepsIInv ==
    ASSUME IInv, NEW c \in Clicks, Resume(c)
    PROVE  IInv'
<1> DEFINE t == seen[c].thread
<1> DEFINE saved == IF t = None THEN Fresh ELSE ckpt[t]
<1> DEFINE st == ResumeInput(saved, act[c])
<1>1. /\ c \in Procs /\ pc[c] = "open" /\ inv[c] \in Invoices
      /\ act[c] \in HumanActions /\ c \notin Jobs
      /\ t # None => t \in Threads
    BY PipelineAssumption
    DEF Resume, Procs, IInv, Started, TypeOK, InvoiceRow
<1>2. /\ saved \in Checkpoint
      /\ Justified(saved, issued, Approved)
      /\ t = None => saved.st.inv = None
      /\ t # None => saved.st.inv = inv[c]
  <2>1. CASE t = None
    <3>1. saved = Fresh
      BY <2>1
    <3>2. Justified(Fresh, issued, Approved) /\ Fresh.st.inv = None
      BY GraphAssumption DEF Justified, Fresh, EmptyState
    <3> QED
      BY <2>1, <3>1, <3>2, InitialValues
  <2>2. CASE t # None
    <3>1. saved = ckpt[t] /\ t \in Threads
      BY <1>1, <2>2
    <3> QED
      BY <1>1, <2>2, <3>1 DEF IInv, TypeOK, CheckpointsAreJustified,
                             ThreadsAreOwn, ThreadIsOwn
  <2> QED
    BY <2>1, <2>2
<1>3. PICK entry \in IF saved.next = "human_approval" THEN ResumeAt ELSE {"extract"} :
            Advance(c, [st |-> st, next |-> entry,
                        asked |-> saved.asked /\ entry = "human_approval"], "graph")
    BY DEF Resume
<1> DEFINE cp == [st |-> st, next |-> entry,
                  asked |-> saved.asked /\ entry = "human_approval"]
<1>4. /\ entry \in {"extract", "human_approval"}
      /\ entry = "human_approval" => saved.next = "human_approval"
    BY <1>3, PipelineAssumption
<1>5. saved.st \in State /\ saved.asked \in BOOLEAN
    BY <1>2 DEF Checkpoint, State
<1> HIDE DEF saved
<1>6. /\ st \in State /\ st.inv = saved.st.inv /\ st.data = saved.st.data
      /\ st.ref = saved.st.ref /\ st.human = act[c]
    BY <1>1, <1>5 DEF ResumeInput, State, InvoiceState
<1> HIDE DEF st
<1>7. (saved.asked /\ entry = "human_approval") \in BOOLEAN
    OBVIOUS
<1>8. cp \in Checkpoint /\ cp.st = st /\ cp.next = entry
    BY <1>4, <1>6, <1>7 DEF Checkpoint, State, Nodes
<1>9. IssuedStep /\ issued' = issued
    BY NothingIssued DEF Resume
<1>10. st.human = "approve" /\ st.inv # None => st.inv \in Approved
    BY <1>1, <1>2, <1>6 DEF Approved
<1>11. Advance(c, cp, "graph")
    BY <1>3
<1> HIDE DEF cp
<1>12. Justified(cp, issued', Approved)
    BY <1>2, <1>4, <1>6, <1>8, <1>9, <1>10 DEF Justified
<1>13. cp.st.inv \in {None, inv[c]} /\ (t # None => cp.st.inv = inv[c])
    BY <1>2, <1>6, <1>8
<1> QED
    BY <1>1, <1>8, <1>9, <1>11, <1>12, <1>13, AdvanceStep
-----------------------------------------------------------------------------
\* The worker writes at most one audit row with the outcome.
LEMMA SaveAuditFacts ==
    ASSUME NEW status PROVE SaveAudit(status) \in Seq(InvoiceAuditLog)
<1>1. /\ AuditEntry("executing", "paid", "payment_executed") \in InvoiceAuditLog
      /\ AuditEntry("deciding", "pending_review", "sent_for_review")
            \in InvoiceAuditLog
      /\ AuditEntry("dead_lettered", "dead_lettered", "dead_lettered")
            \in InvoiceAuditLog
    BY DEF AuditEntry, InvoiceAuditLog, InvoiceStatus, AuditEvent
<1>2. CASE status = "paid"
    BY <1>1, <1>2 DEF SaveAudit
<1>3. CASE status = "pending_review"
    BY <1>1, <1>3 DEF SaveAudit
<1>4. CASE status = "dead_lettered"
    BY <1>1, <1>4 DEF SaveAudit
<1>5. CASE status \notin {"paid", "pending_review", "dead_lettered"}
    BY <1>5 DEF SaveAudit
<1> QED
    BY <1>2, <1>3, <1>4, <1>5

\* The four commits of the two handlers.
LEMMA JobCommitKeepsIInv ==
    ASSUME IInv, NEW j \in Jobs, Claim(j) \/ Save(j) \/ Fail(j)
    PROVE  IInv'
<1>1. /\ j \in Procs /\ j \notin Clicks /\ pc[j] # "idle"
      /\ inv[j] \in Invoices /\ seen[j] \in Row
      /\ run[j] \in Checkpoint /\ try[j] \in 1..MaxTries
    BY PipelineAssumption
    DEF Claim, Save, Fail, Procs, IInv, Started, TypeOK, Row
<1>2. IssuedStep /\ UNCHANGED <<ckpt, task>>
    BY NothingIssued DEF Claim, Save, Fail
<1>3. CASE Claim(j)
  <2>1. PICK new, entries :
            /\ new = [seen[j] EXCEPT !.status = "extracting"]
            /\ entries = <<AuditEntry("received", "extracting", "extraction_started")>>
            /\ Commit(inv[j], seen[j], new, entries)
    BY <1>3 DEF Claim
  <2>2. /\ new \in Row /\ new.thread = seen[j].thread /\ new.ref = seen[j].ref
        /\ new.status = "extracting"
    BY <1>1, <2>1 DEF Row, InvoiceRow, InvoiceStatus
  <2>3. entries \in Seq(InvoiceAuditLog)
    BY <2>1 DEF AuditEntry, InvoiceAuditLog, InvoiceStatus, AuditEvent
  <2>4. RowsStep
    BY <1>1, <2>1, <2>2, <2>3, CommitStep
  <2>5. PICK to \in AfterCommit(j, "setup") : Leave(j, to)
    BY <1>3 DEF Claim
  <2>6. to \in JobPC \ {"idle", "graph", "returned", "saving"}
    BY <2>5, AfterCommitFacts DEF JobPC
  <2> QED
    BY <1>1, <1>2, <2>4, <2>5, <2>6, LeaveStep
<1>4. CASE Fail(j)
  <2>1. PICK new, entries :
            /\ new = [seen[j] EXCEPT !.status = "failed"]
            /\ entries = <<AuditEntry("failed", "failed", "processing_failed")>>
            /\ Commit(inv[j], seen[j], new, entries)
    BY <1>4 DEF Fail
  <2>2. /\ new \in Row /\ new.thread = seen[j].thread /\ new.ref = seen[j].ref
        /\ new.status = "failed"
    BY <1>1, <2>1 DEF Row, InvoiceRow, InvoiceStatus
  <2>3. entries \in Seq(InvoiceAuditLog)
    BY <2>1 DEF AuditEntry, InvoiceAuditLog, InvoiceStatus, AuditEvent
  <2>4. RowsStep
    BY <1>1, <2>1, <2>2, <2>3, CommitStep
  <2>5. Leave(j, "raised") /\ "raised" \in JobPC \ {"idle", "graph", "returned", "saving"}
    BY <1>4 DEF Fail, JobPC
  <2> QED
    BY <1>1, <1>2, <2>4, <2>5, LeaveStep
<1>5. CASE Save(j)
  <2> DEFINE st == run[j].st
  <2>1. PICK new, entries :
            /\ new = Outcome(seen[j], st, ThreadOf(j))
            /\ entries = SaveAudit(new.status)
            /\ Commit(inv[j], seen[j], new, entries)
    BY <1>5 DEF Save
  <2>2. st \in State /\ ThreadOf(j) = <<j, try[j]>> /\ ThreadOf(j) \in Threads
        /\ ThreadOf(j) # None
    BY <1>1, PipelineAssumption DEF State, Checkpoint, ThreadOf, Threads, Refs
  <2>3. /\ new.thread = ThreadOf(j)
        /\ new.ref = IF st.ref # None THEN st.ref ELSE seen[j].ref
        /\ new.status = "paid" => st.ref # None
    BY <2>1 DEF Outcome
  <2>4. new \in Row
    BY <1>1, <2>1, <2>2 DEF Outcome, Row, InvoiceRow, InvoiceStatus, State,
                            InvoiceState
  <2>5. entries \in Seq(InvoiceAuditLog)
    BY <2>1, SaveAuditFacts
  <2>6. ckpt[ThreadOf(j)].st.inv = inv[j] /\ st.inv = inv[j]
    BY <1>5, <2>2 DEF Save, IInv, RunsAreOwn
  <2>7. st.ref # None => st.ref \in issued[inv[j]]
    BY <1>1, <2>6 DEF IInv, CheckpointsAreJustified, Justified
  <2>8. RowsStep
    BY <1>1, <2>1, <2>2, <2>3, <2>4, <2>5, <2>6, <2>7, CommitStep
  <2>9. PICK to \in AfterCommit(j, "done") : Leave(j, to)
    BY <1>5 DEF Save
  <2>10. to \in JobPC \ {"idle", "graph", "returned", "saving"}
    BY <2>9, AfterCommitFacts DEF JobPC
  <2> QED
    BY <1>1, <1>2, <2>8, <2>9, <2>10, LeaveStep
<1> QED
    BY <1>3, <1>4, <1>5

LEMMA ClickCommitKeepsIInv ==
    ASSUME IInv, NEW c \in Clicks, ClickCommit(c)
    PROVE  IInv'
<1>1. /\ c \in Procs /\ c \notin Jobs /\ pc[c] # "idle"
      /\ inv[c] \in Invoices /\ seen[c] \in Row
    BY PipelineAssumption DEF ClickCommit, Procs, IInv, Started, TypeOK, Row
<1>2. IssuedStep /\ UNCHANGED <<ckpt, task>> /\ Leave(c, "done")
    BY NothingIssued DEF ClickCommit
<1>3. PICK to, event, new, entries :
            /\ to = StatusAfterClick(act[c])
            /\ event = IF act[c] = "approve" THEN "human_approve" ELSE "human_reject"
            /\ new = [seen[c] EXCEPT !.status = to]
            /\ entries = <<AuditEntry(seen[c].status, to, event)>>
            /\ Commit(inv[c], seen[c], new, entries)
    BY DEF ClickCommit
<1>4. to \in {"approved", "rejected"}
    BY <1>3 DEF StatusAfterClick
<1>5. /\ new \in Row /\ new.thread = seen[c].thread /\ new.ref = seen[c].ref
      /\ new.status # "paid"
    BY <1>1, <1>3, <1>4 DEF Row, InvoiceRow, InvoiceStatus
<1>6. AuditEntry(seen[c].status, to, event) \in InvoiceAuditLog
    BY <1>1, <1>3, <1>4 DEF AuditEntry, InvoiceAuditLog, InvoiceStatus,
                            AuditEvent, Row, InvoiceRow
<1>7. entries \in Seq(InvoiceAuditLog)
    BY <1>3, <1>6
<1>8. RowsStep
    BY <1>1, <1>3, <1>5, <1>7, CommitStep
<1> QED
    BY <1>1, <1>2, <1>8, LeaveStep

-----------------------------------------------------------------------------
(***************************************************************************)
(* A session's SELECT, for the three that a job makes.                     *)
(***************************************************************************)
LEMMA JobLoadKeepsIInv ==
    ASSUME IInv, NEW j \in Jobs, pc[j] # "idle",
           NEW to \in {"claim", "saving", "failing"},
           to = "saving" => pc[j] = "returned",
           Load(j, inv[j], to), UNCHANGED <<db, ckpt, issued, task, run>>
    PROVE  IInv'
<1> USE DEF IInv
<1>1. /\ j \in Procs /\ j \notin Clicks /\ inv[j] \in Invoices
      /\ pc \in [Procs -> JobPC \cup ClickPC] /\ seen \in [Procs -> Row]
      /\ row \in [Invoices -> Row]
    BY PipelineAssumption DEF Procs, Started, TypeOK, Row
<1>2. /\ pc' = [pc EXCEPT ![j] = to] /\ seen' = [seen EXCEPT ![j] = row[inv[j]]]
      /\ UNCHANGED <<row, audit, ckpt, issued, inv, try, act, run>>
    BY DEF Load, db, task
<1>3. /\ pc'[j] = to /\ seen'[j] = row[inv[j]]
      /\ \A q \in Procs \ {j} : pc'[q] = pc[q] /\ seen'[q] = seen[q]
    BY <1>1, <1>2
<1>4. TypeOK'
  <2>1. /\ pc' \in [Procs -> JobPC \cup ClickPC]
        /\ \A k \in Jobs : pc'[k] \in JobPC
        /\ \A c \in Clicks : pc'[c] \in ClickPC
    BY <1>1, <1>2 DEF TypeOK, Procs, JobPC, ClickPC
  <2>2. seen' \in [Procs -> Row]
    BY <1>1, <1>2
  <2> QED
    BY <1>2, <2>1, <2>2 DEF TypeOK, Row
<1>5. Started'
    BY <1>1, <1>2, <1>3 DEF Started
<1>6. RunsAreOwn'
    BY <1>1, <1>2, <1>3 DEF RunsAreOwn, Procs
<1>7. ThreadsAreOwn'
    BY <1>1, <1>2, <1>3 DEF ThreadsAreOwn, ThreadIsOwn
<1>8. CheckpointsAreJustified'
    BY <1>2 DEF CheckpointsAreJustified, Approved
<1>9. RowsAreJustified'
    BY <1>1, <1>2, <1>3 DEF RowsAreJustified
<1> QED
    BY <1>4, <1>5, <1>6, <1>7, <1>8, <1>9

\* Every step of a job outside the graph.
LEMMA JobStepKeepsIInv ==
    ASSUME IInv, NEW j \in Jobs, JobStep(j)
    PROVE  IInv'
<1>1. CASE ClaimRead(j)
  <2>1. CASE MayClaim(row[inv[j]])
    BY <1>1, <2>1, JobLoadKeepsIInv DEF ClaimRead
  <2>2. CASE ~MayClaim(row[inv[j]])
    <3>1. /\ Leave(j, "done") /\ UNCHANGED <<db, ckpt, issued, task>>
          /\ pc[j] = "queued"
      BY <1>1, <2>2 DEF ClaimRead
    <3>2. RowsStep /\ IssuedStep
      BY <3>1, NoCommit, NothingIssued
    <3> QED
      BY <3>1, <3>2, LeaveStep, PipelineAssumption DEF Procs, JobPC
  <2> QED
    BY <2>1, <2>2
<1>2. CASE StartGraph(j)
    BY <1>2, StartGraphKeepsIInv
<1>3. CASE SaveRead(j) \/ FailRead(j)
    BY <1>3, JobLoadKeepsIInv DEF SaveRead, FailRead
<1>4. CASE Claim(j) \/ Save(j) \/ Fail(j)
    BY <1>4, JobCommitKeepsIInv
<1> QED
    BY <1>1, <1>2, <1>3, <1>4 DEF JobStep

-----------------------------------------------------------------------------
(***************************************************************************)
(* The steps of the environment.                                           *)
(***************************************************************************)
LEMMA ReceiveKeepsIInv ==
    ASSUME IInv, NEW i \in Invoices, Receive(i)
    PROVE  IInv'
<1> USE DEF IInv
<1>1. /\ row \in [Invoices -> Row] /\ row[i] = NoRow
      /\ row' = [row EXCEPT ![i].status = "received"]
      /\ UNCHANGED <<ckpt, issued, pc, inv, try, act, seen, run>>
    BY DEF Receive, TypeOK, Row, task
<1>2. /\ row'[i] = [NoRow EXCEPT !.status = "received"]
      /\ \A k \in Invoices \ {i} : row'[k] = row[k]
    BY <1>1
<1>3. /\ row'[i].status = "received" /\ row'[i].thread = row[i].thread
      /\ row'[i].ref = row[i].ref /\ row'[i] \in Row
    BY <1>1, <1>2 DEF NoRow, Row, InvoiceRow, InvoiceStatus
<1>4. TypeOK'
  <2>1. row' \in [Invoices -> Row]
    BY <1>1, <1>3
  <2>2. AuditEntry(None, "received", "invoice_received") \in InvoiceAuditLog
    BY DEF AuditEntry, InvoiceAuditLog, InvoiceStatus, AuditEvent
  <2>3. audit' \in [Invoices -> Seq(InvoiceAuditLog)]
    BY <2>2 DEF Receive, TypeOK
  <2> QED
    BY <1>1, <2>1, <2>3 DEF TypeOK, Row
<1>5. Started' /\ RunsAreOwn'
    BY <1>1 DEF Started, RunsAreOwn
<1>6. ThreadsAreOwn'
    BY <1>1, <1>2, <1>3 DEF ThreadsAreOwn, ThreadIsOwn
<1>7. CheckpointsAreJustified'
    BY <1>1 DEF CheckpointsAreJustified, Approved
<1>8. RowsAreJustified'
    BY <1>1, <1>2, <1>3 DEF RowsAreJustified
<1> QED
    BY <1>4, <1>5, <1>6, <1>7, <1>8

LEMMA EnqueueKeepsIInv ==
    ASSUME IInv, NEW j \in Jobs, NEW i \in Invoices, Enqueue(j, i)
    PROVE  IInv'
<1> USE DEF IInv
<1>1. /\ j \in Procs /\ j \notin Clicks /\ pc[j] = "idle"
      /\ inv[j] = None /\ seen[j] = NoRow
      /\ pc' = [pc EXCEPT ![j] = "queued"] /\ inv' = [inv EXCEPT ![j] = i]
      /\ UNCHANGED <<row, audit, ckpt, issued, try, act, seen, run>>
    BY PipelineAssumption DEF Enqueue, Procs, Started, db
<1>2. /\ pc \in [Procs -> JobPC \cup ClickPC]
      /\ inv \in [Procs -> Invoices \cup {None}]
    BY DEF TypeOK
<1>3. /\ pc'[j] = "queued" /\ inv'[j] = i
      /\ \A q \in Procs \ {j} : pc'[q] = pc[q] /\ inv'[q] = inv[q]
    BY <1>1, <1>2
<1>4. TypeOK'
    BY <1>1, <1>2, <1>3 DEF TypeOK, Procs, JobPC, ClickPC
<1>5. Started'
    BY <1>1, <1>3 DEF Started
<1>6. RunsAreOwn'
    BY <1>1, <1>3 DEF RunsAreOwn, Procs
<1>7. ThreadsAreOwn'
  <2>1. NoRow.thread = None
    BY DEF NoRow
  <2>2. \A k \in Jobs, n \in 1..MaxTries :
            ckpt[<<k, n>>].st.inv \in {None, inv'[k]}
    BY <1>1, <1>3 DEF ThreadsAreOwn, Procs
  <2> QED
    BY <1>1, <1>3, <2>1, <2>2 DEF ThreadsAreOwn, ThreadIsOwn
<1>8. CheckpointsAreJustified'
  <2>1. Approved' = Approved
    BY <1>1, <1>3 DEF Approved, Procs
  <2> QED
    BY <1>1, <2>1 DEF CheckpointsAreJustified
<1>9. RowsAreJustified'
  <2>1. NoRow.ref = None
    BY DEF NoRow
  <2> QED
    BY <1>1, <1>3, <2>1 DEF RowsAreJustified
<1> QED
    BY <1>4, <1>5, <1>6, <1>7, <1>8, <1>9

LEMMA RedeliveryKeepsIInv ==
    ASSUME IInv, NEW j \in Jobs, Retry(j) \/ GiveUp(j)
    PROVE  IInv'
<1> USE DEF IInv
<1>1. PICK to \in {"queued", "done"} :
        /\ pc' = [pc EXCEPT ![j] = to] /\ pc[j] = "raised"
        /\ UNCHANGED <<row, audit, ckpt, issued, inv, act, seen, run>>
    BY DEF Retry, GiveUp, db, task
<1>2. /\ j \in Procs /\ j \notin Clicks
      /\ pc \in [Procs -> JobPC \cup ClickPC] /\ try \in [Jobs -> 1..MaxTries]
      /\ MaxTries \in Nat
    BY PipelineAssumption DEF TypeOK, Procs
<1>3. pc'[j] = to /\ \A q \in Procs \ {j} : pc'[q] = pc[q]
    BY <1>1, <1>2
<1>4. try' \in [Jobs -> 1..MaxTries] /\ \A k \in Jobs \ {j} : try'[k] = try[k]
  <2>1. CASE Retry(j)
    BY <1>2, <2>1 DEF Retry
  <2>2. CASE GiveUp(j)
    BY <1>2, <2>2 DEF GiveUp, task
  <2> QED
    BY <2>1, <2>2
<1>5. TypeOK'
    BY <1>1, <1>2, <1>3, <1>4 DEF TypeOK, Procs, JobPC, ClickPC
<1>6. Started'
    BY <1>1, <1>2, <1>3 DEF Started
<1>7. RunsAreOwn'
    BY <1>1, <1>2, <1>3, <1>4 DEF RunsAreOwn, Procs
<1>8. ThreadsAreOwn' /\ RowsAreJustified'
    BY <1>1 DEF ThreadsAreOwn, ThreadIsOwn, RowsAreJustified
<1>9. CheckpointsAreJustified'
    BY <1>1 DEF CheckpointsAreJustified, Approved
<1> QED
    BY <1>5, <1>6, <1>7, <1>8, <1>9

LEMMA ClickReadKeepsIInv ==
    ASSUME IInv, NEW c \in Clicks, NEW i \in Invoices, NEW a \in HumanActions,
           ClickRead(c, i, a)
    PROVE  IInv'
<1> USE DEF IInv
<1>1. PICK to \in {"done", "open"} :
        /\ pc[c] = "idle"
        /\ pc' = [pc EXCEPT ![c] = to] /\ seen' = [seen EXCEPT ![c] = row[i]]
        /\ inv' = [inv EXCEPT ![c] = i] /\ act' = [act EXCEPT ![c] = a]
        /\ UNCHANGED <<row, audit, ckpt, issued, try, run>>
    BY DEF ClickRead, Load, db
<1>2. /\ c \in Procs /\ c \notin Jobs /\ inv[c] = None
      /\ pc \in [Procs -> JobPC \cup ClickPC]
      /\ inv \in [Procs -> Invoices \cup {None}]
      /\ act \in [Clicks -> HumanActions \cup {None}]
      /\ seen \in [Procs -> Row] /\ row \in [Invoices -> Row]
    BY <1>1, PipelineAssumption DEF Procs, Started, TypeOK, Row
<1>3. /\ pc'[c] = to /\ seen'[c] = row[i] /\ inv'[c] = i /\ act'[c] = a
      /\ \A q \in Procs \ {c} :
            pc'[q] = pc[q] /\ seen'[q] = seen[q] /\ inv'[q] = inv[q]
      /\ \A d \in Clicks \ {c} : act'[d] = act[d]
    BY <1>1, <1>2
<1>4. TypeOK'
  <2>1. /\ pc' \in [Procs -> JobPC \cup ClickPC]
        /\ \A j \in Jobs : pc'[j] \in JobPC
        /\ \A d \in Clicks : pc'[d] \in ClickPC
    BY <1>1, <1>2, <1>3 DEF TypeOK, Procs, JobPC, ClickPC
  <2>2. /\ seen' \in [Procs -> Row]
        /\ inv' \in [Procs -> Invoices \cup {None}]
        /\ act' \in [Clicks -> HumanActions \cup {None}]
    BY <1>1, <1>2
  <2> QED
    BY <1>1, <2>1, <2>2 DEF TypeOK, Row
<1>5. Started'
    BY <1>2, <1>3, GraphAssumption DEF Started
<1>6. RunsAreOwn'
    BY <1>1, <1>2, <1>3 DEF RunsAreOwn, Procs
<1>7. ThreadsAreOwn'
    BY <1>1, <1>2, <1>3 DEF ThreadsAreOwn, ThreadIsOwn, Procs
<1>8. CheckpointsAreJustified'
  <2>1. Approved \subseteq Approved'
    BY <1>2, <1>3, GraphAssumption DEF Approved, Procs
  <2>2. /\ \A q \in Procs : run[q] \in Checkpoint
        /\ \A t \in Threads : ckpt[t] \in Checkpoint
    BY DEF TypeOK
  <2>3. \A cp \in Checkpoint : Justified(cp, issued, Approved)
                                    => Justified(cp, issued', Approved')
    BY <1>1, <2>1, StaysJustified
  <2> QED
    BY <1>1, <2>2, <2>3 DEF CheckpointsAreJustified
<1>9. RowsAreJustified'
    BY <1>1, <1>2, <1>3 DEF RowsAreJustified
<1> QED
    BY <1>4, <1>5, <1>6, <1>7, <1>8, <1>9

\* An exception or a crash, anywhere.
LEMMA FaultKeepsIInv ==
    ASSUME IInv, NEW p \in Procs, StepRaises(p) \/ Crash(p)
    PROVE  IInv'
<1>1. PICK to : /\ Leave(p, to)
                /\ to \in {AfterException(p), AfterCrash(p)}
                /\ UNCHANGED <<db, ckpt, issued, task>>
                /\ pc[p] # "idle"
    BY DEF StepRaises, Crash, Stopped
<1>2. /\ p \in Jobs => to \in JobPC \ {"idle", "graph", "returned", "saving"}
      /\ p \in Clicks => to = "done"
    BY <1>1, AfterExceptionFacts, PipelineAssumption DEF JobPC
<1>3. RowsStep /\ IssuedStep
    BY <1>1, NoCommit, NothingIssued
<1> QED
    BY <1>1, <1>2, <1>3, LeaveStep
-----------------------------------------------------------------------------
LEMMA InitEstablishesIInv == Init => IInv
<1> SUFFICES ASSUME Init PROVE IInv
    OBVIOUS
<1>1. /\ NoRow \in Row /\ Fresh \in Checkpoint
      /\ Fresh.st.inv = None /\ Fresh.st.data = None /\ Fresh.st.ref = None
      /\ Fresh.next = "extract" /\ NoRow.thread = None /\ NoRow.ref = None
      /\ NoRow.status = None
    BY InitialValues DEF Fresh, EmptyState, NoRow
<1>2. MaxTries \in Nat \ {0}
    BY PipelineAssumption
<1>3. TypeOK
    BY <1>1, <1>2 DEF Init, TypeOK, Row, Procs, JobPC, ClickPC
<1>4. Started
    BY DEF Init, Started
<1>5. RunsAreOwn /\ ThreadsAreOwn
    BY <1>1 DEF Init, RunsAreOwn, ThreadsAreOwn, ThreadIsOwn, Procs, Threads
<1>6. CheckpointsAreJustified
    BY <1>1 DEF Init, CheckpointsAreJustified, Justified
<1>7. RowsAreJustified
  <2>1. \A i \in Invoices : row[i].ref = None /\ row[i].status # "paid"
    BY <1>1, GraphAssumption DEF Init, NoRow, InvoiceStatus
  <2> QED
    BY <1>1, <2>1 DEF Init, RowsAreJustified
<1> QED
    BY <1>3, <1>4, <1>5, <1>6, <1>7 DEF IInv

LEMMA NextKeepsIInv == IInv /\ [Next]_vars => IInv'
<1> SUFFICES ASSUME IInv, [Next]_vars PROVE IInv'
    OBVIOUS
<1>1. CASE Environment
  <2>1. CASE \E i \in Invoices : Receive(i)
    BY <2>1, ReceiveKeepsIInv
  <2>2. CASE \E j \in Jobs, i \in Invoices : Enqueue(j, i)
    BY <2>2, EnqueueKeepsIInv
  <2>3. CASE \E j \in Jobs : Retry(j) \/ GiveUp(j)
    BY <2>3, RedeliveryKeepsIInv
  <2>4. CASE \E c \in Clicks, i \in Invoices, a \in HumanActions :
                ClickRead(c, i, a)
    BY <2>4, ClickReadKeepsIInv
  <2>5. CASE \E p \in Procs : StepRaises(p) \/ Crash(p)
    BY <2>5, FaultKeepsIInv
  <2> QED
    BY <1>1, <2>1, <2>2, <2>3, <2>4, <2>5 DEF Environment
<1>2. CASE \E p \in Procs : GraphStep(p)
    BY <1>2, GraphStepKeepsIInv
<1>3. CASE \E j \in Jobs : JobStep(j)
    BY <1>3, JobStepKeepsIInv
<1>4. CASE \E c \in Clicks : ClickStep(c)
    BY <1>4, ResumeKeepsIInv, ClickCommitKeepsIInv DEF ClickStep
<1>5. CASE UNCHANGED vars
  <2>1. /\ UNCHANGED <<row, audit, ckpt, issued>>
        /\ UNCHANGED <<pc, inv, try, act, seen, run>>
    BY <1>5 DEF vars
  <2> QED
    BY <2>1 DEF IInv, TypeOK, Started, RunsAreOwn, ThreadsAreOwn, ThreadIsOwn,
                CheckpointsAreJustified, Approved, RowsAreJustified
<1> QED
    BY <1>1, <1>2, <1>3, <1>4, <1>5 DEF Next

(***************************************************************************)
(* The inductive invariant holds in every reachable state.                 *)
(***************************************************************************)
THEOREM Invariance == Spec => []IInv
BY InitEstablishesIInv, NextKeepsIInv, PTL DEF Spec

(***************************************************************************)
(* Rows, audit entries, checkpoints and sessions keep their types: no      *)
(* status outside the enum, no thread that no job made.                    *)
(***************************************************************************)
THEOREM TypeCorrectness == Spec => []TypeOK
<1>1. IInv => TypeOK
    BY DEF IInv
<1> QED
    BY Invariance, <1>1, PTL

(***************************************************************************)
(* No payment without the policy's or a person's consent, for any number   *)
(* of jobs, tries and clicks and with every fault.                         *)
(***************************************************************************)
THEOREM PaymentsAreAuthorised == Spec => []PaymentIsAuthorised
<1>1. IInv => PaymentIsAuthorised
  <2> SUFFICES ASSUME IInv, NEW p \in Procs, run[p].next = "execute"
               PROVE  /\ run[p].st.inv = inv[p]
                      /\ run[p].st.data # None
                      /\ \/ RiskDecision(run[p].st.data) = "auto_approve"
                         \/ inv[p] \in Approved
    BY DEF PaymentIsAuthorised
  <2>1. Justified(run[p], issued, Approved) /\ run[p].st.inv \in {None, inv[p]}
    BY DEF IInv, CheckpointsAreJustified, RunsAreOwn
  <2> QED
    BY <2>1 DEF Justified
<1> QED
    BY Invariance, <1>1, PTL

(***************************************************************************)
(* No callback and no worker ever reaches another invoice's thread.        *)
(***************************************************************************)
THEOREM ThreadsStayOwn == Spec => []ThreadIsOwn
<1>1. IInv => ThreadIsOwn
    BY DEF IInv, ThreadsAreOwn
<1> QED
    BY Invariance, <1>1, PTL

(***************************************************************************)
(* Every stored reference was made for the invoice it is stored for, and a *)
(* paid row has one.                                                       *)
(***************************************************************************)
THEOREM ReferencesStayIssued == Spec => []ReferencesAreIssued
<1>1. IInv => ReferencesAreIssued
    BY DEF IInv, CheckpointsAreJustified, RowsAreJustified, Justified,
           ReferencesAreIssued
<1> QED
    BY Invariance, <1>1, PTL
=============================================================================
