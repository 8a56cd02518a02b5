------------------------ MODULE PipelineAuditProofs ------------------------
(***************************************************************************)
(* The proof that no status changes without its audit entry, for any       *)
(* number of jobs and clicks that overlap in any way, and every fault.     *)
(***************************************************************************)
EXTENDS PipelineProofs, SequenceTheorems

-----------------------------------------------------------------------------
(***************************************************************************)
(* OutcomesAreKnown: only a job's own step changes its run.                *)
(***************************************************************************)
LEMMA OneProcessMoves ==
    ASSUME OutcomesAreKnown, NEW p \in Procs,
           \A q \in Procs \ {p} : run'[q] = run[q] /\ pc'[q] = pc[q],
           p \in Jobs => OutcomeIsKnown(run'[p], pc'[p])
    PROVE  OutcomesAreKnown'
BY DEF OutcomesAreKnown, Procs

\* A process that leaves its graph has nothing to know.
LEMMA LeaveKeepsOutcomes ==
    ASSUME IInv, OutcomesAreKnown, NEW p \in Procs,
           NEW to, to \notin {"returned", "saving"}, Leave(p, to)
    PROVE  OutcomesAreKnown'
<1>1. /\ run' = [run EXCEPT ![p] = Fresh] /\ run \in [Procs -> Checkpoint]
      /\ pc' = [pc EXCEPT ![p] = to] /\ pc \in [Procs -> JobPC \cup ClickPC]
    BY DEF Leave, IInv, TypeOK
<1>2. OutcomeIsKnown(Fresh, to)
    BY DEF OutcomeIsKnown, Fresh, END
<1> QED
    BY <1>1, <1>2, OneProcessMoves

\* So has one that keeps its graph and only goes on, but not to the save.
LEMMA GoingOnKeepsOutcomes ==
    ASSUME IInv, OutcomesAreKnown, NEW p \in Procs,
           NEW to, to = "saving" => pc[p] = "returned", to # "returned",
           pc' = [pc EXCEPT ![p] = to], UNCHANGED run
    PROVE  OutcomesAreKnown'
<1>1. pc \in [Procs -> JobPC \cup ClickPC]
    BY DEF IInv, TypeOK
<1>2. p \in Jobs => OutcomeIsKnown(run[p], to)
    BY DEF OutcomesAreKnown, OutcomeIsKnown
<1> QED
    BY <1>1, <1>2, OneProcessMoves

\* A superstep ends in a checkpoint that knows its outcome, or is lost.
LEMMA AdvanceKeepsOutcomes ==
    ASSUME IInv, OutcomesAreKnown, NEW p \in Procs, NEW cp, NEW to,
           p \in Jobs => OutcomeIsKnown(cp, to), Advance(p, cp, to)
    PROVE  OutcomesAreKnown'
<1>1. CASE run' = [run EXCEPT ![p] = cp] /\ pc' = [pc EXCEPT ![p] = to]
    BY <1>1, OneProcessMoves DEF IInv, TypeOK
<1>2. CASE \E lost \in AfterLostStep(p) : Leave(p, lost)
  <2>1. PICK lost \in AfterLostStep(p) : Leave(p, lost)
      BY <1>2
  <2>2. lost \notin {"returned", "saving"}
      BY <2>1, AfterExceptionFacts DEF AfterLostStep, Procs
  <2> QED
      BY <2>1, <2>2, LeaveKeepsOutcomes
<1> QED
    BY <1>1, <1>2 DEF Advance

LEMMA StepToKeepsOutcomes ==
    ASSUME IInv, OutcomesAreKnown, NEW p \in Procs, NEW st, NEW next,
           p \in Jobs => /\ next \in {"notify", "human_approval", "dead_letter"}
                                => Settled(st)
                         /\ next = END => Settled(st) \/ st.ref # None,
           StepTo(p, st, next)
    PROVE  OutcomesAreKnown'
<1> DEFINE cp == [st |-> st, next |-> next, asked |-> FALSE]
           to == IF next \in InterruptBefore \cup {END} THEN "returned" ELSE "graph"
<1>1. p \in Jobs => OutcomeIsKnown(cp, to)
    BY DEF OutcomeIsKnown, InterruptBefore
<1>2. Advance(p, cp, to)
    BY DEF StepTo
<1> HIDE DEF cp, to
<1> QED
    BY <1>1, <1>2, AdvanceKeepsOutcomes

LEMMA GraphStepKeepsOutcomes ==
    ASSUME IInv, OutcomesAreKnown, NEW p \in Procs, GraphStep(p)
    PROVE  OutcomesAreKnown'
<1> DEFINE s == run[p].st
<1>1. p \in Jobs => OutcomeIsKnown(run[p], pc[p])
    BY DEF OutcomesAreKnown
<1>2. CASE Extract(p)
  <2>1. PICK st \in ExtractNode(s) : StepTo(p, st, RouteAfterExtract(st))
      BY <1>2 DEF Extract
  <2>2. /\ RouteAfterExtract(st) \in {"decide", "dead_letter"}
        /\ RouteAfterExtract(st) = "dead_letter" => Settled(st)
      BY DEF RouteAfterExtract, Settled
  <2> QED
      BY <2>1, <2>2, StepToKeepsOutcomes DEF END
<1>3. CASE Decide(p)
  <2>1. PICK st : st = DecideNode(s) /\ StepTo(p, st, RouteAfterDecide(st))
      BY <1>3 DEF Decide
  <2>2. /\ RouteAfterDecide(st) \in {"notify", "dead_letter", "execute"}
        /\ RouteAfterDecide(st) # "execute" => Settled(st)
      BY DEF RouteAfterDecide, Settled
  <2> QED
      BY <2>1, <2>2, StepToKeepsOutcomes DEF END
<1>4. CASE Notify(p)
  <2>1. PICK st \in NotifyNode(s) : StepTo(p, st, "human_approval")
      BY <1>4 DEF Notify
  <2>2. s \in State
      BY DEF IInv, TypeOK, Checkpoint, State
  <2>3. st.decision = s.decision /\ st.error = s.error
      BY <2>1, <2>2 DEF NotifyNode, State, InvoiceState
  <2>4. p \in Jobs => Settled(st)
      BY <1>1, <1>4, <2>3 DEF Notify, At, OutcomeIsKnown, Settled
  <2> QED
      BY <2>1, <2>4, StepToKeepsOutcomes DEF END
<1>5. CASE HumanApproval(p)
  <2>1. p \in Jobs => Settled(s)
      BY <1>1, <1>5 DEF HumanApproval, At, OutcomeIsKnown
  <2>2. CASE StepTo(p, s, RouteAfterHuman(s))
      BY <2>1, <2>2, StepToKeepsOutcomes
  <2>3. CASE Advance(p, [run[p] EXCEPT !.asked = TRUE], "returned")
    <3> DEFINE cp == [run[p] EXCEPT !.asked = TRUE]
    <3>1. Advance(p, cp, "returned")
        BY <2>3
    <3>2. cp.st = s /\ cp.next = "human_approval"
        BY <1>5 DEF HumanApproval, At, IInv, TypeOK, Checkpoint
    <3>3. p \in Jobs => OutcomeIsKnown(cp, "returned")
        BY <2>1, <3>2 DEF OutcomeIsKnown
    <3> HIDE DEF cp
    <3> QED
        BY <3>1, <3>3, AdvanceKeepsOutcomes
  <2> QED
      BY <1>5, <2>2, <2>3 DEF HumanApproval
<1>6. CASE Execute(p)
  <2>1. PICK st : st = ExecuteNode(s, NewRef(p)) /\ StepTo(p, st, END)
      BY <1>6 DEF Execute
  <2>2. s \in State
      BY DEF IInv, TypeOK, Checkpoint, State
  <2>3. p \in Jobs => NewRef(p) \in Refs
      BY DEF NewRef, Refs, Threads, IInv, TypeOK
  <2>4. p \in Jobs => st.ref \in Refs
      BY <2>1, <2>2, <2>3, ExecuteNodeFacts
  <2>5. p \in Jobs => st.ref # None
      BY <2>4, PipelineAssumption
  <2> QED
      BY <2>1, <2>5, StepToKeepsOutcomes DEF END
<1>7. CASE DeadLetter(p)
  <2>1. p \in Jobs => Settled(s)
      BY <1>1, <1>7 DEF DeadLetter, At, OutcomeIsKnown
  <2>2. StepTo(p, s, END)
      BY <1>7 DEF DeadLetter
  <2> QED
      BY <2>1, <2>2, StepToKeepsOutcomes
<1> QED
    BY <1>2, <1>3, <1>4, <1>5, <1>6, <1>7 DEF GraphStep

LEMMA JobStepKeepsOutcomes ==
    ASSUME IInv, OutcomesAreKnown, NEW j \in Jobs, JobStep(j)
    PROVE  OutcomesAreKnown'
<1>1. j \in Procs
    BY DEF Procs
<1>2. CASE ClaimRead(j)
  <2>1. CASE MayClaim(row[inv[j]])
      BY <1>1, <1>2, <2>1, GoingOnKeepsOutcomes DEF ClaimRead, Load
  <2>2. CASE ~MayClaim(row[inv[j]])
      BY <1>1, <1>2, <2>2, LeaveKeepsOutcomes DEF ClaimRead
  <2> QED
      BY <2>1, <2>2
<1>3. CASE Claim(j)
  <2>1. PICK to \in AfterCommit(j, "setup") : Leave(j, to)
      BY <1>3 DEF Claim
  <2>2. to \in {"setup", "raised", "fail"}
      BY <2>1, AfterCommitFacts
  <2> QED
      BY <1>1, <2>1, <2>2, LeaveKeepsOutcomes
<1>4. CASE StartGraph(j)
    BY <1>1, <1>4, StepToKeepsOutcomes DEF StartGraph, END
<1>5. CASE SaveRead(j) \/ FailRead(j)
    BY <1>1, <1>5, GoingOnKeepsOutcomes DEF SaveRead, FailRead, Load
<1>6. CASE Save(j)
  <2>1. PICK to \in AfterCommit(j, "done") : Leave(j, to)
      BY <1>6 DEF Save
  <2>2. to \in {"done", "raised", "fail"}
      BY <2>1, AfterCommitFacts
  <2> QED
      BY <1>1, <2>1, <2>2, LeaveKeepsOutcomes
<1>7. CASE Fail(j)
    BY <1>1, <1>7, LeaveKeepsOutcomes DEF Fail
<1> QED
    BY <1>2, <1>3, <1>4, <1>5, <1>6, <1>7 DEF JobStep

LEMMA ClickStepKeepsOutcomes ==
    ASSUME IInv, OutcomesAreKnown, NEW c \in Clicks, ClickStep(c)
    PROVE  OutcomesAreKnown'
<1>1. c \in Procs /\ c \notin Jobs
    BY PipelineAssumption DEF Procs
<1>2. CASE Resume(c)
  <2>1. PICK cp : Advance(c, cp, "graph")
      BY <1>2 DEF Resume
  <2> QED
      BY <1>1, <2>1, AdvanceKeepsOutcomes
<1>3. CASE ClickCommit(c)
    BY <1>1, <1>3, LeaveKeepsOutcomes DEF ClickCommit
<1> QED
    BY <1>2, <1>3 DEF ClickStep

LEMMA EnvironmentKeepsOutcomes ==
    ASSUME IInv, OutcomesAreKnown, Environment
    PROVE  OutcomesAreKnown'
<1>1. CASE \E i \in Invoices : Receive(i)
    BY <1>1 DEF Receive, OutcomesAreKnown
<1>2. CASE \E j \in Jobs, i \in Invoices : Enqueue(j, i)
    BY <1>2, GoingOnKeepsOutcomes DEF Enqueue, Procs
<1>3. CASE \E j \in Jobs : Retry(j) \/ GiveUp(j)
    BY <1>3, GoingOnKeepsOutcomes DEF Retry, GiveUp, Procs
<1>4. CASE \E c \in Clicks, i \in Invoices, a \in HumanActions : ClickRead(c, i, a)
  <2>1. PICK c \in Clicks, i \in Invoices, a \in HumanActions : ClickRead(c, i, a)
      BY <1>4
  <2>2. PICK to \in {"done", "open"} : pc' = [pc EXCEPT ![c] = to] /\ UNCHANGED run
      BY <2>1 DEF ClickRead, Load
  <2> QED
      BY <2>2, GoingOnKeepsOutcomes DEF Procs
<1>5. CASE \E p \in Procs : StepRaises(p) \/ Crash(p)
  <2>1. PICK p \in Procs : \E to \in {AfterException(p), AfterCrash(p)} : Leave(p, to)
      BY <1>5 DEF StepRaises, Crash
  <2>2. PICK to \in {AfterException(p), AfterCrash(p)} : Leave(p, to)
      BY <2>1
  <2>3. to \notin {"returned", "saving"}
      BY <2>2, AfterExceptionFacts DEF Procs
  <2> QED
      BY <2>2, <2>3, LeaveKeepsOutcomes
<1> QED
    BY <1>1, <1>2, <1>3, <1>4, <1>5 DEF Environment

LEMMA NextKeepsAuditInv == AuditInv /\ [Next]_vars => AuditInv'
<1> SUFFICES ASSUME IInv, OutcomesAreKnown, [Next]_vars
             PROVE  OutcomesAreKnown'
    BY NextKeepsIInv DEF AuditInv
<1>1. CASE Environment
    BY <1>1, EnvironmentKeepsOutcomes
<1>2. CASE \E p \in Procs : GraphStep(p)
    BY <1>2, GraphStepKeepsOutcomes
<1>3. CASE \E j \in Jobs : JobStep(j)
    BY <1>3, JobStepKeepsOutcomes
<1>4. CASE \E c \in Clicks : ClickStep(c)
    BY <1>4, ClickStepKeepsOutcomes
<1>5. CASE UNCHANGED vars
  <2>1. run' = run /\ pc' = pc
      BY <1>5 DEF vars
  <2> QED
      BY <2>1 DEF OutcomesAreKnown
<1> QED
    BY <1>1, <1>2, <1>3, <1>4, <1>5 DEF Next

LEMMA InitEstablishesAuditInv == Init => AuditInv
<1> SUFFICES ASSUME Init PROVE IInv /\ OutcomesAreKnown
    BY DEF AuditInv
<1>1. \A j \in Jobs : run[j] = Fresh /\ pc[j] = "idle"
    BY DEF Init, Procs
<1>2. OutcomesAreKnown
    BY <1>1 DEF OutcomesAreKnown, OutcomeIsKnown, Fresh, END
<1> QED
    BY <1>2, InitEstablishesIInv

\* In every reachable state a run that returned knows its outcome.
THEOREM OutcomesStayKnown == Spec => []AuditInv
BY InitEstablishesAuditInv, NextKeepsAuditInv, PTL DEF Spec
-----------------------------------------------------------------------------
(***************************************************************************)
(* What one step does to the row and the trail of one invoice.             *)
(***************************************************************************)
Audited(i) ==
    /\ Len(audit'[i]) \in {Len(audit[i]), Len(audit[i]) + 1}
    /\ SubSeq(audit'[i], 1, Len(audit[i])) = audit[i]
    /\ row'[i].status # row[i].status =>
          /\ Len(audit'[i]) = Len(audit[i]) + 1
          /\ audit'[i][Len(audit'[i])].to = row'[i].status

LEMMA UntouchedIsAudited ==
    ASSUME IInv, NEW i \in Invoices, row'[i] = row[i], audit'[i] = audit[i]
    PROVE  Audited(i)
<1>1. audit[i] \in Seq(InvoiceAuditLog)
    BY DEF IInv, TypeOK
<1>2. SubSeq(audit[i], 1, Len(audit[i])) = audit[i]
    BY <1>1, SubSeqFull
<1> QED
    BY <1>1, <1>2 DEF Audited

\* A trail with one more entry still begins with the trail there was.
LEMMA AppendedTrail ==
    ASSUME NEW trail \in Seq(InvoiceAuditLog), NEW entry \in InvoiceAuditLog
    PROVE  /\ Len(trail \o <<entry>>) = Len(trail) + 1
           /\ SubSeq(trail \o <<entry>>, 1, Len(trail)) = trail
           /\ (trail \o <<entry>>)[Len(trail) + 1] = entry
<1>1. CASE trail = <<>>
  <2>1. SubSeq(trail \o <<entry>>, 1, 0) = <<>>
      BY SubSeqEmpty
  <2> QED
      BY <1>1, <2>1
<1>2. CASE trail # <<>>
  <2>1. 1 \in 1..Len(trail) /\ Len(trail) \in 1..Len(trail)
      BY <1>2
  <2>2. SubSeq(trail \o <<entry>>, 1, Len(trail)) = SubSeq(trail, 1, Len(trail))
      BY <2>1, SubSeqOfConcat1
  <2> QED
      BY <2>2, SubSeqFull
<1> QED
    BY <1>1, <1>2

\* A commit that assigns a status, and names it in its one entry.
LEMMA CommitIsAudited ==
    ASSUME IInv, NEW i \in Invoices, NEW k \in Invoices,
           NEW loaded, NEW assigned, NEW entry \in InvoiceAuditLog,
           entry.to = assigned.status,
           Commit(k, loaded, assigned, <<entry>>)
    PROVE  Audited(i)
<1>1. /\ row \in [Invoices -> InvoiceRow(Threads, Refs, Data)]
      /\ audit \in [Invoices -> Seq(InvoiceAuditLog)]
    BY DEF IInv, TypeOK
<1>2. CASE i # k
    BY <1>1, <1>2, UntouchedIsAudited DEF Commit
<1>3. CASE i = k
  <2>1. /\ audit'[i] = audit[i] \o <<entry>>
        /\ row'[i].status = Flushed(row[i].status, loaded.status, assigned.status)
      BY <1>1, <1>3 DEF Commit, FlushedRow
  <2>2. row'[i].status # row[i].status => row'[i].status = entry.to
      BY <2>1 DEF Flushed
  <2>3. audit[i] \in Seq(InvoiceAuditLog)
      BY <1>1
  <2> QED
      BY <2>1, <2>2, <2>3, AppendedTrail DEF Audited
<1> QED
    BY <1>2, <1>3

\* The commits of a job: the status of the outcome is never auto_approved.
LEMMA JobCommitIsAudited ==
    ASSUME AuditInv, NEW i \in Invoices, NEW j \in Jobs,
           Claim(j) \/ Save(j) \/ Fail(j)
    PROVE  Audited(i)
<1>1. /\ IInv /\ j \in Procs /\ inv[j] \in Invoices /\ seen[j] \in Row
      /\ run[j].st \in State /\ OutcomeIsKnown(run[j], pc[j])
    BY DEF AuditInv, OutcomesAreKnown, Claim, Save, Fail, IInv, TypeOK, Started,
           Procs, Row, State, Checkpoint
<1>2. CASE Claim(j)
  <2>1. PICK entry, new :
            /\ entry = AuditEntry("received", "extracting", "extraction_started")
            /\ new = [seen[j] EXCEPT !.status = "extracting"]
            /\ Commit(inv[j], seen[j], new, <<entry>>)
      BY <1>2 DEF Claim
  <2>2. entry \in InvoiceAuditLog /\ entry.to = new.status
      BY <1>1, <2>1 DEF AuditEntry, InvoiceAuditLog, InvoiceStatus, AuditEvent,
                        Row, InvoiceRow
  <2> QED
      BY <1>1, <2>1, <2>2, CommitIsAudited
<1>3. CASE Fail(j)
  <2>1. PICK entry, new :
            /\ entry = AuditEntry("failed", "failed", "processing_failed")
            /\ new = [seen[j] EXCEPT !.status = "failed"]
            /\ Commit(inv[j], seen[j], new, <<entry>>)
      BY <1>3 DEF Fail
  <2>2. entry \in InvoiceAuditLog /\ entry.to = new.status
      BY <1>1, <2>1 DEF AuditEntry, InvoiceAuditLog, InvoiceStatus, AuditEvent,
                        Row, InvoiceRow
  <2> QED
      BY <1>1, <2>1, <2>2, CommitIsAudited
<1>4. CASE Save(j)
  <2>1. PICK new :
            /\ new = Outcome(seen[j], run[j].st, ThreadOf(j))
            /\ Commit(inv[j], seen[j], new, SaveAudit(new.status))
      BY <1>4 DEF Save
  <2>2. Settled(run[j].st) \/ run[j].st.ref # None
      BY <1>1, <1>4 DEF Save, OutcomeIsKnown
  <2>3. new.status \in {"paid", "pending_review", "dead_lettered"}
      BY <2>1, <2>2 DEF Outcome, Settled
  <2>4. PICK entry \in InvoiceAuditLog :
            SaveAudit(new.status) = <<entry>> /\ entry.to = new.status
      BY <2>3 DEF SaveAudit, AuditEntry, InvoiceAuditLog, InvoiceStatus, AuditEvent
  <2> QED
      BY <1>1, <2>1, <2>4, CommitIsAudited
<1> QED
    BY <1>2, <1>3, <1>4

LEMMA ClickCommitIsAudited ==
    ASSUME IInv, NEW i \in Invoices, NEW c \in Clicks, ClickCommit(c)
    PROVE  Audited(i)
<1>1. inv[c] \in Invoices /\ seen[c] \in Row
    BY DEF ClickCommit, IInv, TypeOK, Started, Procs, Row
<1>2. PICK to, event, new, entry :
            /\ to = StatusAfterClick(act[c])
            /\ event = IF act[c] = "approve" THEN "human_approve" ELSE "human_reject"
            /\ new = [seen[c] EXCEPT !.status = to]
            /\ entry = AuditEntry(seen[c].status, to, event)
            /\ Commit(inv[c], seen[c], new, <<entry>>)
    BY DEF ClickCommit
<1>3. to \in {"approved", "rejected"}
    BY <1>2 DEF StatusAfterClick
<1>4. entry \in InvoiceAuditLog /\ entry.to = new.status
    BY <1>1, <1>2, <1>3 DEF AuditEntry, InvoiceAuditLog, InvoiceStatus,
                            AuditEvent, Row, InvoiceRow
<1> QED
    BY <1>1, <1>2, <1>4, CommitIsAudited

LEMMA ReceiveIsAudited ==
    ASSUME IInv, NEW i \in Invoices, NEW k \in Invoices, Receive(k)
    PROVE  Audited(i)
<1>1. /\ row \in [Invoices -> InvoiceRow(Threads, Refs, Data)]
      /\ audit \in [Invoices -> Seq(InvoiceAuditLog)]
    BY DEF IInv, TypeOK
<1>2. PICK entry :
            /\ entry = AuditEntry(None, "received", "invoice_received")
            /\ audit' = [audit EXCEPT ![k] = audit[k] \o <<entry>>]
            /\ row' = [row EXCEPT ![k].status = "received"]
    BY DEF Receive
<1>3. entry \in InvoiceAuditLog /\ entry.to = "received"
    BY <1>2 DEF AuditEntry, InvoiceAuditLog, InvoiceStatus, AuditEvent
<1>4. CASE i # k
    BY <1>1, <1>2, <1>4, UntouchedIsAudited
<1>5. CASE i = k
  <2>1. /\ audit'[i] = audit[i] \o <<entry>> /\ row'[i].status = "received"
        /\ audit[i] \in Seq(InvoiceAuditLog)
      BY <1>1, <1>2, <1>5 DEF InvoiceRow
  <2> QED
      BY <1>3, <2>1, AppendedTrail DEF Audited
<1> QED
    BY <1>4, <1>5

LEMMA StepIsAudited ==
    ASSUME AuditInv, [Next]_vars, NEW i \in Invoices
    PROVE  Audited(i)
<1>1. IInv
    BY DEF AuditInv
<1>2. ASSUME UNCHANGED db PROVE Audited(i)
    BY <1>1, <1>2, UntouchedIsAudited DEF db
<1>3. CASE Environment
  <2>1. CASE \E k \in Invoices : Receive(k)
      BY <1>1, <2>1, ReceiveIsAudited
  <2>2. CASE ~\E k \in Invoices : Receive(k)
      BY <1>2, <1>3, <2>2
         DEF Environment, Enqueue, Retry, GiveUp, ClickRead, StepRaises, Crash
  <2> QED
      BY <2>1, <2>2
<1>4. CASE \E p \in Procs : GraphStep(p)
    BY <1>2, <1>4 DEF GraphStep, Extract, Decide, Notify, HumanApproval, Execute,
                      DeadLetter, StepTo, Advance
<1>5. CASE \E j \in Jobs : JobStep(j)
  <2>1. PICK j \in Jobs : JobStep(j)
      BY <1>5
  <2>2. CASE Claim(j) \/ Save(j) \/ Fail(j)
      BY <2>2, JobCommitIsAudited
  <2>3. CASE ClaimRead(j) \/ StartGraph(j) \/ SaveRead(j) \/ FailRead(j)
      BY <1>2, <2>3 DEF ClaimRead, StartGraph, StepTo, Advance, SaveRead, FailRead
  <2> QED
      BY <2>1, <2>2, <2>3 DEF JobStep
<1>6. CASE \E c \in Clicks : ClickStep(c)
    BY <1>1, <1>2, <1>6, ClickCommitIsAudited DEF ClickStep, Resume, Advance
<1>7. CASE UNCHANGED vars
    BY <1>2, <1>7 DEF vars, db
<1> QED
    BY <1>3, <1>4, <1>5, <1>6, <1>7 DEF Next

(***************************************************************************)
(* No row changes its status without exactly one audit entry that names    *)
(* the new one, and no entry is ever touched again, however worker,        *)
(* retries and presses overlap and whatever fails.                         *)
(***************************************************************************)
THEOREM StatusChangesStayAudited == Spec => StatusChangesAreAudited
<1>1. AuditInv /\ [Next]_vars => [\A i \in Invoices : Audited(i)]_vars
    BY StepIsAudited
<1>2. (\A i \in Invoices : Audited(i)) <=>
          \A i \in Invoices :
              /\ Len(audit'[i]) \in {Len(audit[i]), Len(audit[i]) + 1}
              /\ SubSeq(audit'[i], 1, Len(audit[i])) = audit[i]
              /\ row'[i].status # row[i].status =>
                    /\ Len(audit'[i]) = Len(audit[i]) + 1
                    /\ audit'[i][Len(audit'[i])].to = row'[i].status
    BY DEF Audited
<1> QED
    BY <1>1, <1>2, OutcomesStayKnown, PTL DEF Spec, StatusChangesAreAudited
=============================================================================
