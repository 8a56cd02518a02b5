------------------------ MODULE PipelinePaymentProofs ------------------------
(***************************************************************************)
(* No second payment: with one job per invoice, presses one at a time (at  *)
(* any moment, on any status) and no faults but crashes between two steps, *)
(* every reference ever made is still in a thread, and an invoice has at   *)
(* most one.                                                               *)
(***************************************************************************)
EXTENDS PipelineJobProofs, FiniteSetTheorems

OneAtATime == OneJob /\ "serial_clicks" \in Discipline
OnlyCrashes == Faults \subseteq {"crash"}

\* PaymentInv without OneJobInv.
PayParts ==
    /\ ClicksAreSerial
    /\ NothingFails
    /\ GraphsStartOnce
    /\ ClickRunsAreSaved
    /\ PaymentIsRemembered

-----------------------------------------------------------------------------
\* With these faults no superstep loses its checkpoint, but that of a press on
\* a row without a thread, which has none to lose.
LEMMA NothingLost ==
    ASSUME OnlyCrashes, TypeOK, NEW p \in Procs, NEW cp, NEW to, Advance(p, cp, to)
    PROVE  \/ Saved(p, cp, to)
           \/ p \in Clicks /\ ThreadOf(p) = None /\ Left(p, "done")
<1>1. AfterLostStep(p) \subseteq {AfterException(p)}
      /\ (AfterLostStep(p) # {} => ThreadOf(p) = None)
    BY DEF AfterLostStep, OnlyCrashes
<1>2. p \in Jobs => ThreadOf(p) # None
  <2>1. p \in Jobs => ThreadOf(p) \in Threads
      BY DEF ThreadOf, Threads, TypeOK
  <2> QED
      BY <2>1, PipelineAssumption DEF Refs
<1>3. p \in Clicks => AfterException(p) = "done"
    BY DEF AfterException
<1> QED
    BY <1>1, <1>2, <1>3 DEF Advance, Saved, Left, Procs

\* A thread with a run in it is the job's own, and the run began after the
\* last claim of the invoice.
LEMMA TouchedFacts ==
    ASSUME OneJobInv, GraphsStartOnce, NEW j \in Jobs, NEW k \in 1..MaxTries,
           Touched(<<j, k>>)
    PROVE  /\ inv[j] \in Invoices /\ ckpt[<<j, k>>].st.inv = inv[j]
           /\ pc[j] \notin {"idle", "claim", "setup"}
           /\ row[inv[j]].status \notin {None, "received", "failed"}
           /\ \A l \in 1..MaxTries : Touched(<<j, l>>) => l = k
<1> USE DEF OneJobInv, AuditInv, IInv
<1>1. ckpt[<<j, k>>].st.inv = inv[j] /\ inv[j] # None
    BY DEF ThreadsAreOwn, Touched
<1>2. pc[j] # "idle" /\ inv[j] \in Invoices
    BY <1>1 DEF Started, Procs
<1> QED
    BY <1>1, <1>2 DEF GraphsStartOnce

\* A step that saves no checkpoint and makes no reference.
LEMMA QuietKeepsPayParts ==
    ASSUME OneJobInv, PayParts, UNCHANGED <<ckpt, issued>>,
           \A j \in Jobs : pc'[j] = pc[j] \/ pc'[j] \notin {"fail", "failing"},
           \A j \in Jobs : (\E k \in 1..MaxTries : Touched(<<j, k>>)) =>
                /\ pc'[j] \notin {"claim", "setup"}
                /\ row'[inv'[j]].status \notin {None, "received", "failed"},
           \A c \in Clicks :
                \/ pc'[c] = pc[c] /\ seen'[c] = seen[c] /\ run'[c] = run[c]
                \/ pc'[c] = "done"
                \/ /\ pc'[c] = "open"
                   /\ \A d \in Clicks \ {c} : pc'[d] \in {"idle", "done"}
    PROVE  PayParts'
<1> USE DEF PayParts
<1>1. \A c \in Clicks : c \notin Jobs
    BY PipelineAssumption
<1>2. ClicksAreSerial'
    BY <1>1 DEF ClicksAreSerial, InSession
<1>3. NothingFails'
    BY DEF NothingFails
<1>4. GraphsStartOnce'
    BY DEF GraphsStartOnce, Touched
<1>5. ClickRunsAreSaved'
    BY DEF ClickRunsAreSaved
<1>6. PaymentIsRemembered'
    BY DEF PaymentIsRemembered
<1> QED
    BY <1>2, <1>3, <1>4, <1>5, <1>6

(***************************************************************************)
(* A superstep that is saved: the checkpoint keeps what its thread said of *)
(* the invoice and of the payment, and has the reference that was made.    *)
(***************************************************************************)
LEMMA SavedKeepsPayParts ==
    ASSUME OneJobInv, PayParts, NEW p \in Procs, NEW cp \in Checkpoint,
           NEW to \in {"graph", "returned"}, Saved(p, cp, to),
           p \in Jobs => pc[p] \in {"setup", "graph"} /\ cp.st.inv = inv[p],
           p \in Clicks =>
                /\ pc[p] \in {"open", "graph"}
                /\ seen[p].thread = None => cp.st.inv = None,
           pc[p] # "setup" /\ ThreadOf(p) # None =>
                /\ cp.st.inv = ckpt[ThreadOf(p)].st.inv
                /\ ckpt[ThreadOf(p)].st.ref # None =>
                        cp.st.ref = ckpt[ThreadOf(p)].st.ref,
           \A i \in Invoices : \A ref \in issued'[i] :
                \/ ref \in issued[i]
                \/ ThreadOf(p) # None /\ cp.st.inv = i /\ cp.st.ref = ref
    PROVE  PayParts'
<1> USE DEF OneJobInv, AuditInv, IInv, PayParts
<1>1. /\ pc \in [Procs -> JobPC \cup ClickPC] /\ try \in [Jobs -> 1..MaxTries]
      /\ run \in [Procs -> Checkpoint] /\ ckpt \in [Threads -> Checkpoint]
      /\ seen \in [Procs -> Row] /\ row \in [Invoices -> Row]
      /\ issued \in [Invoices -> SUBSET Refs]
      /\ Jobs \cap Clicks = {} /\ None \notin Threads /\ None \notin Refs
    BY PipelineAssumption DEF TypeOK, Row, Refs
<1>2. UNCHANGED <<row, seen, inv, try>>
    BY DEF Saved, db, task
<1>3. /\ pc'[p] = to /\ run'[p] = cp
      /\ \A q \in Procs \ {p} : pc'[q] = pc[q] /\ run'[q] = run[q]
    BY <1>1 DEF Saved
<1>4. /\ p \in Jobs => ThreadOf(p) = <<p, try[p]>> /\ ThreadOf(p) \in Threads
      /\ p \in Clicks => ThreadOf(p) = seen[p].thread
      /\ ThreadOf(p) # None => ThreadOf(p) \in Threads
    BY <1>1 DEF ThreadOf, Threads, Procs, Row, InvoiceRow
<1>5. /\ \A t \in Threads : t # ThreadOf(p) => ckpt'[t] = ckpt[t]
      /\ ThreadOf(p) # None => ckpt'[ThreadOf(p)] = cp
    BY <1>1, <1>4 DEF Saved, SaveCheckpoint
<1>6. ASSUME pc[p] = "setup"
      PROVE  /\ p \in Jobs
             /\ \A k \in 1..MaxTries : ~Touched(<<p, k>>)
  <2>1. p \in Jobs
      BY <1>6 DEF Procs
  <2> QED
      BY <1>6, <2>1, TouchedFacts
<1>7. ClicksAreSerial'
  <2>1. \A c \in Clicks : InSession(c)' => InSession(c)
      BY <1>1, <1>3 DEF InSession, Procs
  <2> QED
      BY <2>1 DEF ClicksAreSerial
<1>8. NothingFails'
    BY <1>3 DEF NothingFails, Procs
<1>9. GraphsStartOnce'
  <2> SUFFICES ASSUME NEW j \in Jobs, NEW k \in 1..MaxTries, Touched(<<j, k>>)'
               PROVE  /\ pc'[j] \notin {"claim", "setup"}
                      /\ row[inv[j]].status \notin {None, "received", "failed"}
                      /\ \A l \in 1..MaxTries : Touched(<<j, l>>)' => k = l
      BY <1>2 DEF GraphsStartOnce
  <2>1. \A n \in 1..MaxTries : <<j, n>> \in Threads
      BY DEF Threads
  <2>2. CASE pc[p] = "setup" /\ j = p
    <3>1. \A n \in 1..MaxTries : Touched(<<j, n>>)' => n = try[j]
        BY <1>4, <1>5, <1>6, <2>1, <2>2 DEF Touched
    <3>2. row[inv[j]].status \in {"extracting"} \cup Answers
        BY <2>2 DEF RowsFollowTheJob, GuardedByTry
    <3> QED
        BY <1>3, <2>2, <3>1, <3>2, GraphAssumption DEF Answers, InvoiceStatus
  <2>3. CASE ~(pc[p] = "setup" /\ j = p)
    <3>1. \A n \in 1..MaxTries : Touched(<<j, n>>)' => Touched(<<j, n>>)
      <4> SUFFICES ASSUME NEW n \in 1..MaxTries, Touched(<<j, n>>)'
                   PROVE  Touched(<<j, n>>)
          OBVIOUS
      <4>1. CASE <<j, n>> # ThreadOf(p)
          BY <1>5, <2>1, <4>1 DEF Touched
      <4>2. CASE <<j, n>> = ThreadOf(p)
        <5>1. pc[p] # "setup"
            BY <1>4, <1>6, <2>3, <4>2
        <5> QED
            BY <1>1, <1>5, <2>1, <4>2, <5>1 DEF Touched
      <4> QED
          BY <4>1, <4>2
    <3>2. pc'[j] = pc[j] \/ pc'[j] \in {"graph", "returned"}
        BY <1>3 DEF Procs
    <3> QED
        BY <3>1, <3>2, TouchedFacts
  <2> QED
      BY <2>2, <2>3
<1>10. ClickRunsAreSaved'
  <2> SUFFICES ASSUME NEW c \in Clicks, pc'[c] \in {"graph", "returned"}
               PROVE  IF seen[c].thread = None THEN run'[c].st.inv = None
                      ELSE ckpt'[seen[c].thread] = run'[c]
      BY <1>2 DEF ClickRunsAreSaved
  <2>1. c \in Procs /\ c \notin Jobs
      BY <1>1 DEF Procs
  <2>2. CASE c = p
      BY <1>3, <1>4, <1>5, <2>1, <2>2
  <2>3. CASE c # p
    <3>1. pc[c] = pc'[c] /\ run'[c] = run[c]
        BY <1>3, <2>1, <2>3
    <3>2. p \in Jobs
      <4>1. InSession(c)
          BY <2>1, <3>1 DEF InSession
      <4>2. p \in Clicks => InSession(p)
          BY <1>1 DEF InSession
      <4> QED
          BY <2>3, <4>1, <4>2 DEF ClicksAreSerial, Procs
    <3>3. seen[c].thread # ThreadOf(p)
        BY <1>1, <1>4, <2>1, <3>2 DEF ThreadsArePublishedLate, Published, GraphOver
    <3>4. seen[c].thread # None => seen[c].thread \in Threads
        BY <1>1, <2>1 DEF Row, InvoiceRow
    <3> QED
        BY <1>5, <3>1, <3>3, <3>4 DEF ClickRunsAreSaved
  <2> QED
      BY <2>2, <2>3
<1>11. PaymentIsRemembered'
  <2> SUFFICES ASSUME NEW i \in Invoices, NEW ref \in issued'[i]
               PROVE  \E t \in Threads : ckpt'[t].st.inv = i /\ ckpt'[t].st.ref = ref
      BY DEF PaymentIsRemembered
  <2>1. CASE ThreadOf(p) # None /\ cp.st.inv = i /\ cp.st.ref = ref
      BY <1>4, <1>5, <2>1
  <2>2. CASE ref \in issued[i]
    <3>1. PICK t \in Threads : ckpt[t].st.inv = i /\ ckpt[t].st.ref = ref
        BY <2>2 DEF PaymentIsRemembered
    <3>2. ref # None /\ i # None
        BY <1>1, <2>2, GraphAssumption
    <3>3. CASE t # ThreadOf(p)
        BY <1>5, <3>1, <3>3
    <3>4. CASE t = ThreadOf(p)
      <4>1. pc[p] # "setup"
          BY <1>1, <1>4, <1>6, <3>1, <3>2, <3>4 DEF Touched
      <4>2. cp.st.inv = i /\ cp.st.ref = ref
          BY <1>1, <3>1, <3>2, <3>4, <4>1
      <4> QED
          BY <1>1, <1>5, <3>4, <4>2
    <3> QED
        BY <3>3, <3>4
  <2> QED
      BY <2>1, <2>2
<1> QED
    BY <1>7, <1>8, <1>9, <1>10, <1>11

\* A process that ends, or that a fault ends.
LEMMA LeftKeepsPayParts ==
    ASSUME OneJobInv, PayParts, NEW p \in Procs, NEW to \in {"done", "raised"},
           p \in Clicks => to = "done",
           Left(p, to), UNCHANGED issued
    PROVE  PayParts'
<1> USE DEF OneJobInv, AuditInv, IInv
<1>1. /\ UNCHANGED <<row, ckpt, inv, issued>> /\ pc'[p] = to
      /\ \A q \in Procs \ {p} :
            pc'[q] = pc[q] /\ seen'[q] = seen[q] /\ run'[q] = run[q]
    BY DEF TypeOK, Left, Leave, db, task
<1>2. ASSUME NEW k \in Jobs, NEW n \in 1..MaxTries, Touched(<<k, n>>)
      PROVE  /\ pc'[k] \notin {"claim", "setup"}
             /\ row'[inv'[k]].status \notin {None, "received", "failed"}
  <2>1. /\ pc[k] \notin {"claim", "setup"}
        /\ row[inv[k]].status \notin {None, "received", "failed"}
      BY <1>2, TouchedFacts DEF PayParts
  <2> QED
      BY <1>1, <2>1 DEF Procs
<1>3. /\ \A k \in Jobs : pc'[k] = pc[k] \/ pc'[k] \notin {"fail", "failing"}
      /\ \A c \in Clicks :
            \/ pc'[c] = pc[c] /\ seen'[c] = seen[c] /\ run'[c] = run[c]
            \/ pc'[c] = "done"
    BY <1>1 DEF Procs
<1> QED
    BY <1>1, <1>2, <1>3, QuietKeepsPayParts
-----------------------------------------------------------------------------
(***************************************************************************)
(* The invariant, by process.                                              *)
(***************************************************************************)
\* The only step that makes a reference leaves it in the state it saves.
LEMMA GraphStepPays ==
    ASSUME IInv, NEW p \in Procs, GraphStep(p)
    PROVE  \E cp, to :
            /\ Advance(p, cp, to) /\ GoesOn(run[p], cp, to)
            /\ \/ UNCHANGED issued
               \/ /\ run[p].next = "execute"
                  /\ issued' = [issued EXCEPT ![cp.st.inv] =
                                    issued[cp.st.inv] \cup {cp.st.ref}]
<1>1. CASE Execute(p)
  <2>1. PICK st : /\ st = ExecuteNode(run[p].st, NewRef(p))
                  /\ issued' = [issued EXCEPT ![st.inv] =
                                    issued[st.inv] \cup {st.ref}]
                  /\ StepTo(p, st, END)
      BY <1>1 DEF Execute
  <2>2. /\ run[p] \in Checkpoint /\ run[p].st \in State
        /\ NewRef(p) \in Refs
      BY DEF IInv, TypeOK, Checkpoint, State, NewRef, Refs, Threads, Procs
  <2>3. st \in State /\ st.human = run[p].st.human /\ st.inv = run[p].st.inv
        /\ st.ref # None
      BY <2>1, <2>2, ExecuteNodeFacts, PipelineAssumption
  <2>4. run[p].st.ref # None => st.ref = run[p].st.ref
      BY <2>1, <2>2 DEF ExecuteNode, State, InvoiceState
  <2> DEFINE cp == [st |-> st, next |-> END, asked |-> FALSE]
  <2>5. Advance(p, cp, "returned") /\ cp.st = st
      BY <2>1 DEF StepTo, InterruptBefore
  <2>6. GoesOn(run[p], cp, "returned")
    <3>1. cp \in Checkpoint
        BY <2>3 DEF Checkpoint, State
    <3>2. IsFirstPass(cp, "returned")
        BY <2>3 DEF IsFirstPass, END
    <3> QED
        BY <2>3, <2>4, <3>1, <3>2 DEF GoesOn
  <2>7. run[p].next = "execute"
      BY <1>1 DEF Execute, At
  <2> HIDE DEF cp
  <2> QED
      BY <2>1, <2>5, <2>6, <2>7
<1>2. CASE ~Execute(p)
  <2>1. UNCHANGED issued
      BY <1>2 DEF GraphStep, Extract, Decide, Notify, HumanApproval, DeadLetter
  <2> QED
      BY <2>1, GraphStepGoesOn
<1> QED
    BY <1>1, <1>2

LEMMA GraphStepKeepsPayParts ==
    ASSUME OnlyCrashes, OneJobInv, PayParts, NEW p \in Procs, GraphStep(p)
    PROVE  PayParts'
<1> USE DEF OneJobInv, AuditInv
<1>1. PICK cp, to :
            /\ Advance(p, cp, to) /\ GoesOn(run[p], cp, to)
            /\ \/ UNCHANGED issued
               \/ /\ run[p].next = "execute"
                  /\ issued' = [issued EXCEPT ![cp.st.inv] =
                                    issued[cp.st.inv] \cup {cp.st.ref}]
    BY GraphStepPays
<1>2. /\ pc[p] = "graph"
      /\ run[p] \in Checkpoint
      /\ Justified(run[p], issued, Approved)
      /\ p \in Jobs => run[p].st.inv = inv[p]
    BY InsideGraph DEF GraphStep, Extract, Decide, Notify, HumanApproval, Execute,
                       DeadLetter, At
<1>3. \/ Saved(p, cp, to)
      \/ p \in Clicks /\ ThreadOf(p) = None /\ Left(p, "done")
    BY <1>1, NothingLost DEF IInv
<1>4. /\ cp \in Checkpoint /\ to \in {"graph", "returned"}
      /\ cp.st.inv = run[p].st.inv
      /\ run[p].st.ref # None => cp.st.ref = run[p].st.ref
    BY <1>1 DEF GoesOn
\* What the process runs is what its thread holds.
<1>5. /\ p \in Jobs => ThreadOf(p) # None /\ ckpt[ThreadOf(p)] = run[p]
      /\ p \in Clicks =>
            IF ThreadOf(p) = None
            THEN seen[p].thread = None /\ run[p].st.inv = None
            ELSE seen[p].thread # None /\ ckpt[ThreadOf(p)] = run[p]
  <2>1. CASE p \in Jobs
    <3>1. ThreadOf(p) = <<p, try[p]>> /\ <<p, try[p]>> \in Threads
        BY <2>1 DEF ThreadOf, Threads, IInv, TypeOK
    <3>2. None \notin Threads /\ p \notin Clicks
        BY <2>1, PipelineAssumption DEF Refs
    <3>3. ckpt[<<p, try[p]>>] = run[p]
        BY <1>2, <2>1 DEF JobRunsAreSaved
    <3> QED
        BY <3>1, <3>2, <3>3
  <2>2. CASE p \in Clicks
    <3>1. p \notin Jobs /\ ThreadOf(p) = seen[p].thread
        BY <2>2, PipelineAssumption DEF ThreadOf
    <3> QED
        BY <1>2, <2>2, <3>1 DEF PayParts, ClickRunsAreSaved
  <2> QED
      BY <2>1, <2>2 DEF Procs
<1>6. ThreadOf(p) # None => ckpt[ThreadOf(p)] = run[p]
    BY <1>5 DEF Procs
\* A run without an invoice never gets to the payment.
<1>7. run[p].next = "execute" => ThreadOf(p) # None
  <2>1. run[p].next = "execute" => run[p].st.inv # None
      BY <1>2 DEF Justified
  <2> QED
      BY <1>5, <2>1 DEF Procs
<1>8. \A i \in Invoices : \A ref \in issued'[i] :
                \/ ref \in issued[i]
                \/ ThreadOf(p) # None /\ cp.st.inv = i /\ cp.st.ref = ref
  <2>1. issued \in [Invoices -> SUBSET Refs]
      BY DEF IInv, TypeOK
  <2> QED
      BY <1>1, <1>7, <2>1
<1>9. CASE Saved(p, cp, to)
    BY <1>2, <1>4, <1>5, <1>6, <1>8, <1>9, SavedKeepsPayParts
<1>10. CASE p \in Clicks /\ ThreadOf(p) = None /\ Left(p, "done")
    BY <1>1, <1>7, <1>10, LeftKeepsPayParts
<1> QED
    BY <1>3, <1>9, <1>10

LEMMA StartGraphKeepsPayParts ==
    ASSUME OnlyCrashes, OneJobInv, PayParts, NEW j \in Jobs, StartGraph(j)
    PROVE  PayParts'
<1> DEFINE st == [EmptyState EXCEPT !.inv = inv[j]]
           cp == [st |-> st, next |-> "extract", asked |-> FALSE]
<1>1. /\ j \in Procs /\ j \notin Clicks /\ pc[j] = "setup" /\ inv[j] \in Invoices
      /\ Advance(j, cp, "graph") /\ UNCHANGED issued
    BY PipelineAssumption DEF StartGraph, StepTo, InterruptBefore, END, Procs,
           OneJobInv, AuditInv, IInv, Started
<1>2. st \in State /\ st.inv = inv[j]
    BY <1>1 DEF EmptyState, State, InvoiceState, Errors
<1>3. cp \in Checkpoint /\ cp.st.inv = inv[j]
    BY <1>2 DEF Checkpoint, State, Nodes
<1> HIDE DEF cp
<1>4. Saved(j, cp, "graph")
    BY <1>1, NothingLost DEF OneJobInv, AuditInv, IInv
<1> QED
    BY <1>1, <1>3, <1>4, SavedKeepsPayParts

LEMMA ResumeKeepsPayParts ==
    ASSUME OnlyCrashes, OneJobInv, PayParts, NEW c \in Clicks, Resume(c)
    PROVE  PayParts'
<1> USE DEF OneJobInv, AuditInv, IInv
<1> DEFINE saved == IF seen[c].thread = None THEN Fresh ELSE ckpt[seen[c].thread]
           st == ResumeInput(saved, act[c])
<1>1. /\ c \in Procs /\ c \notin Jobs /\ pc[c] = "open"
      /\ act[c] \in HumanActions /\ UNCHANGED issued
      /\ seen[c].thread # None => seen[c].thread \in Threads
      /\ ThreadOf(c) = seen[c].thread
    BY PipelineAssumption, GraphAssumption
       DEF Resume, Procs, TypeOK, Started, InvoiceRow, ThreadOf
<1>2. saved \in Checkpoint /\ saved.st \in State
    BY <1>1, InitialValues DEF TypeOK, Checkpoint, State
<1>3. /\ seen[c].thread # None => saved = ckpt[seen[c].thread]
      /\ seen[c].thread = None => saved.st.inv = None
    BY DEF Fresh, EmptyState
<1>4. PICK entry \in IF saved.next = "human_approval" THEN ResumeAt ELSE {"extract"} :
            Advance(c, [st |-> st, next |-> entry,
                        asked |-> saved.asked /\ entry = "human_approval"],
                    "graph")
    BY DEF Resume
<1>5. /\ st \in State /\ st.inv = saved.st.inv /\ st.ref = saved.st.ref
      /\ entry \in {"extract", "human_approval"}
    BY <1>1, <1>2, <1>4, PipelineAssumption DEF ResumeInput, State, InvoiceState
<1> HIDE DEF saved, st
<1>6. PICK cp : /\ cp = [st |-> st, next |-> entry,
                         asked |-> saved.asked /\ entry = "human_approval"]
                /\ Advance(c, cp, "graph")
    BY <1>4
<1>7. cp \in Checkpoint /\ cp.st = st
    BY <1>2, <1>5, <1>6 DEF Checkpoint, State, Nodes
<1>8. Saved(c, cp, "graph") \/ Left(c, "done")
    BY <1>1, <1>6, NothingLost
<1>9. CASE Saved(c, cp, "graph")
    BY <1>1, <1>3, <1>5, <1>7, <1>9, SavedKeepsPayParts
<1>10. CASE Left(c, "done")
    BY <1>1, <1>10, LeftKeepsPayParts
<1> QED
    BY <1>8, <1>9, <1>10

\* A commit of a status: only a job that has not started its graph, or never
\* will, makes a row claimable.
LEMMA StatusCommitKeepsPayParts ==
    ASSUME OneJobInv, PayParts, NEW p \in Procs, NEW s, NEW to,
           StatusCommit(p, s, to), UNCHANGED issued
    PROVE  PayParts'
<1> USE DEF OneJobInv, AuditInv, IInv
<1>1. /\ UNCHANGED <<ckpt, inv>> /\ pc'[p] = to
      /\ \A q \in Procs \ {p} :
            pc'[q] = pc[q] /\ seen'[q] = seen[q] /\ run'[q] = run[q]
      /\ Jobs \cap Clicks = {}
    BY PipelineAssumption DEF TypeOK, StatusCommit, Leave, task
<1>2. \/ /\ p \in Jobs /\ pc[p] = "claim" /\ s = "extracting"
         /\ to \in {"setup", "raised"}
      \/ p \in Clicks /\ s \in Answers /\ to = "done"
    BY DEF StatusCommit, PayParts, NothingFails
<1>3. \A i \in Invoices : row'[i].status = row[i].status \/ row'[i].status = s
  <2>1. IInv /\ pc[p] # "idle"
      BY DEF StatusCommit
  <2>2. PICK entries :
          Commit(inv[p], seen[p], [seen[p] EXCEPT !.status = s], entries)
      BY DEF StatusCommit
  <2>3. /\ inv[p] \in Invoices
        /\ \A i \in Invoices :
              /\ row'[i].thread = row[i].thread /\ row'[i].ref = row[i].ref
              /\ \/ row'[i].status = row[i].status
                 \/ i = inv[p] /\ row'[i].status = s
        /\ s # seen[p].status => row'[inv[p]].status = s
      BY <2>1, <2>2, StatusCommitFacts
  <2> QED
      BY <2>3
<1>4. s \notin {None, "received", "failed"}
    BY <1>2, GraphAssumption DEF Answers, InvoiceStatus
<1>5. ASSUME NEW j \in Jobs, NEW k \in 1..MaxTries, Touched(<<j, k>>)
      PROVE  /\ pc'[j] \notin {"claim", "setup"}
             /\ row'[inv'[j]].status \notin {None, "received", "failed"}
  <2>1. /\ inv[j] \in Invoices /\ pc[j] \notin {"claim", "setup"}
        /\ row[inv[j]].status \notin {None, "received", "failed"}
      BY <1>5, TouchedFacts DEF PayParts
  <2>2. j # p
      BY <1>1, <1>2, <2>1
  <2> QED
      BY <1>1, <1>3, <1>4, <2>1, <2>2 DEF Procs
<1>6. \A j \in Jobs : pc'[j] = pc[j] \/ pc'[j] \notin {"fail", "failing"}
    BY <1>1, <1>2 DEF Procs
<1>7. \A c \in Clicks :
                \/ pc'[c] = pc[c] /\ seen'[c] = seen[c] /\ run'[c] = run[c]
                \/ pc'[c] = "done"
    BY <1>1, <1>2 DEF Procs
<1> QED
    BY <1>1, <1>5, <1>6, <1>7, QuietKeepsPayParts

LEMMA SaveKeepsPayParts ==
    ASSUME OnlyCrashes, OneJobInv, PayParts, NEW j \in Jobs, Save(j)
    PROVE  PayParts'
<1> USE DEF OneJobInv, AuditInv, IInv
<1>1. /\ UNCHANGED <<ckpt, inv, issued>> /\ pc'[j] \in {"done", "raised"}
      /\ \A q \in Procs \ {j} :
            pc'[q] = pc[q] /\ seen'[q] = seen[q] /\ run'[q] = run[q]
      /\ j \in Procs /\ j \notin Clicks
    BY PipelineAssumption
       DEF TypeOK, Save, Leave, task, Procs, AfterCommit, AfterCrash, OnlyCrashes
<1>2. /\ inv[j] \in Invoices
      /\ \A i \in Invoices \ {inv[j]} : row'[i] = row[i]
      /\ row'[inv[j]].status \in {"paid", "pending_review", "dead_lettered"}
    BY SaveFacts DEF OneJobInv
<1>3. ASSUME NEW k \in Jobs, NEW n \in 1..MaxTries, Touched(<<k, n>>)
      PROVE  /\ pc'[k] \notin {"claim", "setup"}
             /\ row'[inv'[k]].status \notin {None, "received", "failed"}
  <2>1. /\ inv[k] \in Invoices /\ pc[k] \notin {"claim", "setup"}
        /\ row[inv[k]].status \notin {None, "received", "failed"}
      BY <1>3, TouchedFacts DEF PayParts
  <2>2. row'[inv[k]].status \notin {None, "received", "failed"}
      BY <1>2, <2>1, GraphAssumption DEF InvoiceStatus
  <2> QED
      BY <1>1, <2>1, <2>2 DEF Procs
<1>4. /\ \A k \in Jobs : pc'[k] = pc[k] \/ pc'[k] \notin {"fail", "failing"}
      /\ \A c \in Clicks : pc'[c] = pc[c] /\ seen'[c] = seen[c] /\ run'[c] = run[c]
    BY <1>1 DEF Procs
<1> QED
    BY <1>1, <1>3, <1>4, QuietKeepsPayParts

\* A job's SELECT: one that may claim finds a row whose graph never started.
LEMMA JobLoadKeepsPayParts ==
    ASSUME OneJobInv, PayParts, NEW j \in Jobs, NEW to,
           \/ pc[j] = "queued" /\ to = "claim" /\ MayClaim(row[inv[j]])
           \/ pc[j] = "returned" /\ to = "saving",
           Load(j, inv[j], to), UNCHANGED <<db, ckpt, issued, task, run>>
    PROVE  PayParts'
<1> USE DEF OneJobInv, AuditInv, IInv
<1>1. /\ j \in Procs /\ j \notin Clicks /\ UNCHANGED <<row, ckpt, inv, issued, run>>
      /\ pc'[j] = to
      /\ \A q \in Procs \ {j} : pc'[q] = pc[q] /\ seen'[q] = seen[q]
    BY PipelineAssumption DEF TypeOK, Load, Procs, db, task
<1>2. ASSUME NEW k \in Jobs, NEW n \in 1..MaxTries, Touched(<<k, n>>)
      PROVE  /\ pc'[k] \notin {"claim", "setup"}
             /\ row'[inv'[k]].status \notin {None, "received", "failed"}
  <2>1. /\ pc[k] \notin {"claim", "setup"}
        /\ row[inv[k]].status \notin {None, "received", "failed"}
      BY <1>2, TouchedFacts DEF PayParts
  <2> QED
      BY <1>1, <2>1 DEF MayClaim, Procs
<1>3. /\ \A k \in Jobs : pc'[k] = pc[k] \/ pc'[k] \notin {"fail", "failing"}
      /\ \A c \in Clicks : pc'[c] = pc[c] /\ seen'[c] = seen[c] /\ run'[c] = run[c]
    BY <1>1 DEF Procs
<1> QED
    BY <1>1, <1>2, <1>3, QuietKeepsPayParts

LEMMA JobStepKeepsPayParts ==
    ASSUME OnlyCrashes, OneJobInv, PayParts, NEW j \in Jobs, JobStep(j)
    PROVE  PayParts'
<1>1. j \in Procs /\ j \notin Clicks
    BY PipelineAssumption DEF Procs
<1>2. CASE ClaimRead(j)
  <2>1. CASE MayClaim(row[inv[j]])
      BY <1>2, <2>1, JobLoadKeepsPayParts DEF ClaimRead
  <2>2. CASE ~MayClaim(row[inv[j]])
    <3>1. Left(j, "done") /\ UNCHANGED issued
        BY <1>2, <2>2 DEF ClaimRead, Left
    <3> QED
        BY <1>1, <3>1, LeftKeepsPayParts
  <2> QED
      BY <2>1, <2>2
<1>3. CASE Claim(j)
  <2>1. PICK to : StatusCommit(j, "extracting", to) /\ UNCHANGED issued
      BY <1>3, ClaimCommits DEF Claim
  <2> QED
      BY <1>1, <2>1, StatusCommitKeepsPayParts
<1>4. CASE StartGraph(j)
    BY <1>4, StartGraphKeepsPayParts
<1>5. CASE SaveRead(j)
    BY <1>5, JobLoadKeepsPayParts DEF SaveRead
<1>6. CASE Save(j)
    BY <1>6, SaveKeepsPayParts
<1>7. ~FailRead(j) /\ ~Fail(j)
    BY DEF FailRead, Fail, PayParts, NothingFails
<1> QED
    BY <1>2, <1>3, <1>4, <1>5, <1>6, <1>7 DEF JobStep

LEMMA ClickStepKeepsPayParts ==
    ASSUME OnlyCrashes, OneJobInv, PayParts, NEW c \in Clicks, ClickStep(c)
    PROVE  PayParts'
<1>1. CASE Resume(c)
    BY <1>1, ResumeKeepsPayParts
<1>2. CASE ClickCommit(c)
  <2>1. StatusCommit(c, StatusAfterClick(act[c]), "done") /\ UNCHANGED issued
      BY <1>2 DEF ClickCommit, StatusCommit, StatusAfterClick, Answers
  <2> QED
      BY <2>1, StatusCommitKeepsPayParts DEF Procs
<1> QED
    BY <1>1, <1>2 DEF ClickStep

\* What the callers do, and the crashes: this is where the promises and the
\* restriction on the faults are used.
LEMMA EnvironmentKeepsPayParts ==
    ASSUME OneAtATime, OnlyCrashes, OneJobInv, PayParts, Environment
    PROVE  PayParts'
<1> USE DEF OneJobInv, AuditInv, IInv
<1>1. /\ pc \in [Procs -> JobPC \cup ClickPC] /\ inv \in [Procs -> Invoices \cup {None}]
      /\ seen \in [Procs -> Row] /\ row \in [Invoices -> Row]
      /\ Jobs \cap Clicks = {} /\ Jobs \subseteq Procs /\ Clicks \subseteq Procs
    BY PipelineAssumption DEF TypeOK, Row, Procs
<1>2. ASSUME NEW j \in Jobs, \E k \in 1..MaxTries : Touched(<<j, k>>)
      PROVE  /\ inv[j] \in Invoices /\ pc[j] \notin {"idle", "claim", "setup"}
             /\ row[inv[j]].status \notin {None, "received", "failed"}
    BY <1>2, TouchedFacts DEF PayParts
<1>3. ASSUME NEW i \in Invoices, Receive(i) PROVE PayParts'
  <2>1. /\ UNCHANGED <<ckpt, issued, pc, inv, seen, run>>
        /\ row[i].status = None
        /\ \A k \in Invoices \ {i} : row'[k] = row[k]
      BY <1>1, <1>3 DEF Receive, task, NoRow
  <2>2. ASSUME NEW j \in Jobs, \E k \in 1..MaxTries : Touched(<<j, k>>)
        PROVE  /\ pc'[j] \notin {"claim", "setup"}
               /\ row'[inv'[j]].status \notin {None, "received", "failed"}
      BY <1>2, <2>1, <2>2
  <2> QED
      BY <2>1, <2>2, QuietKeepsPayParts
<1>4. ASSUME NEW j \in Jobs, NEW i \in Invoices, Enqueue(j, i) PROVE PayParts'
  <2>1. /\ UNCHANGED <<row, ckpt, issued, seen, run>>
        /\ pc[j] = "idle" /\ pc'[j] = "queued"
        /\ \A q \in Procs \ {j} : pc'[q] = pc[q] /\ inv'[q] = inv[q]
      BY <1>1, <1>4 DEF Enqueue, db
  <2>2. ASSUME NEW k \in Jobs, \E n \in 1..MaxTries : Touched(<<k, n>>)
        PROVE  /\ pc'[k] \notin {"claim", "setup"}
               /\ row'[inv'[k]].status \notin {None, "received", "failed"}
      BY <1>1, <1>2, <2>1, <2>2
  <2>3. /\ \A k \in Jobs : pc'[k] = pc[k] \/ pc'[k] \notin {"fail", "failing"}
        /\ \A c \in Clicks : pc'[c] = pc[c] /\ seen'[c] = seen[c] /\ run'[c] = run[c]
      BY <1>1, <2>1
  <2> QED
      BY <2>1, <2>2, <2>3, QuietKeepsPayParts
<1>5. ASSUME NEW j \in Jobs, Retry(j) \/ GiveUp(j) PROVE PayParts'
  <2>1. /\ UNCHANGED <<row, ckpt, issued, inv, seen, run>>
        /\ pc'[j] \in {"queued", "done"}
        /\ \A q \in Procs \ {j} : pc'[q] = pc[q]
      BY <1>1, <1>5 DEF Retry, GiveUp, db, task
  <2>2. ASSUME NEW k \in Jobs, \E n \in 1..MaxTries : Touched(<<k, n>>)
        PROVE  /\ pc'[k] \notin {"claim", "setup"}
               /\ row'[inv'[k]].status \notin {None, "received", "failed"}
      BY <1>1, <1>2, <2>1, <2>2
  <2>3. /\ \A k \in Jobs : pc'[k] = pc[k] \/ pc'[k] \notin {"fail", "failing"}
        /\ \A c \in Clicks : pc'[c] = pc[c] /\ seen'[c] = seen[c] /\ run'[c] = run[c]
      BY <1>1, <2>1
  <2> QED
      BY <2>1, <2>2, <2>3, QuietKeepsPayParts
<1>6. ASSUME NEW c \in Clicks, NEW i \in Invoices, NEW a \in HumanActions,
             ClickRead(c, i, a)
      PROVE  PayParts'
  <2>1. /\ UNCHANGED <<row, ckpt, issued, run>>
        /\ pc'[c] \in {"done", "open"}
        /\ \A q \in Procs \ {c} :
              pc'[q] = pc[q] /\ inv'[q] = inv[q] /\ seen'[q] = seen[q]
      BY <1>1, <1>6 DEF ClickRead, Load, db
  \* the promise that a press is answered before the next one
  <2>2. \A d \in Clicks : pc[d] \in {"idle", "done"}
      BY <1>6 DEF ClickRead, ClickAllowed, OneAtATime
  <2>3. ASSUME NEW k \in Jobs, \E n \in 1..MaxTries : Touched(<<k, n>>)
        PROVE  /\ pc'[k] \notin {"claim", "setup"}
               /\ row'[inv'[k]].status \notin {None, "received", "failed"}
    <3>1. k # c /\ k \in Procs
        BY <1>1
    <3> QED
        BY <1>2, <2>1, <2>3, <3>1
  <2>4. \A k \in Jobs : pc'[k] = pc[k]
      BY <1>1, <2>1
  <2>5. \A d \in Clicks :
            \/ pc'[d] = pc[d] /\ seen'[d] = seen[d] /\ run'[d] = run[d]
            \/ pc'[d] = "done"
            \/ /\ pc'[d] = "open"
               /\ \A e \in Clicks \ {d} : pc'[e] \in {"idle", "done"}
      BY <1>1, <2>1, <2>2
  <2> QED
      BY <2>1, <2>3, <2>4, <2>5, QuietKeepsPayParts
<1>7. ASSUME NEW p \in Procs, StepRaises(p) \/ Crash(p) PROVE PayParts'
  <2>1. Crash(p)
      BY <1>7 DEF StepRaises, OnlyCrashes
  <2>2. /\ AfterCrash(p) \in {"done", "raised"}
        /\ p \in Clicks => AfterCrash(p) = "done"
        /\ Left(p, AfterCrash(p)) /\ UNCHANGED issued
      BY <2>1 DEF Crash, AfterCrash, Left
  <2> QED
      BY <2>2, LeftKeepsPayParts
<1> QED
    BY <1>3, <1>4, <1>5, <1>6, <1>7 DEF Environment
-----------------------------------------------------------------------------
LEMMA NextKeepsPaymentInv ==
    OneAtATime /\ OnlyCrashes /\ PaymentInv /\ [Next]_vars => PaymentInv'
<1> SUFFICES ASSUME OneAtATime, OnlyCrashes, OneJobInv, PayParts, [Next]_vars
             PROVE  PayParts'
    BY NextKeepsOneJobInv DEF PaymentInv, PayParts, OneAtATime
<1>1. CASE Environment
    BY <1>1, EnvironmentKeepsPayParts
<1>2. CASE \E p \in Procs : GraphStep(p)
    BY <1>2, GraphStepKeepsPayParts
<1>3. CASE \E j \in Jobs : JobStep(j)
    BY <1>3, JobStepKeepsPayParts
<1>4. CASE \E c \in Clicks : ClickStep(c)
    BY <1>4, ClickStepKeepsPayParts
<1>5. CASE UNCHANGED vars
  <2>1. UNCHANGED <<row, ckpt, issued, pc, inv, seen, run>>
      BY <1>5 DEF vars
  <2> QED
      BY <2>1 DEF PayParts, ClicksAreSerial, InSession, NothingFails,
                  GraphsStartOnce, Touched, ClickRunsAreSaved, PaymentIsRemembered
<1> QED
    BY <1>1, <1>2, <1>3, <1>4, <1>5 DEF Next

LEMMA InitEstablishesPaymentInv == Init => PaymentInv
<1> SUFFICES ASSUME Init PROVE PayParts
    BY InitEstablishesOneJobInv DEF PaymentInv, PayParts
<1>1. /\ \A p \in Procs : pc[p] = "idle"
      /\ \A t \in Threads : ckpt[t].st.inv = None
      /\ \A i \in Invoices : issued[i] = {}
    BY DEF Init, Fresh, EmptyState
<1>2. ClicksAreSerial /\ NothingFails /\ ClickRunsAreSaved
    BY <1>1, PipelineAssumption
       DEF ClicksAreSerial, InSession, NothingFails, ClickRunsAreSaved, Procs
<1>3. GraphsStartOnce
    BY <1>1 DEF GraphsStartOnce, Touched, Threads
<1>4. PaymentIsRemembered
    BY <1>1 DEF PaymentIsRemembered
<1> QED
    BY <1>2, <1>3, <1>4 DEF PayParts

(***************************************************************************)
(* The inductive invariant of presses that come one at a time.             *)
(***************************************************************************)
THEOREM PaymentInvariance ==
    ASSUME OneAtATime, OnlyCrashes
    PROVE  Spec => []PaymentInv
<1>1. PaymentInv /\ [Next]_vars => PaymentInv'
    BY NextKeepsPaymentInv
<1> QED
    BY <1>1, InitEstablishesPaymentInv, PTL DEF Spec

(***************************************************************************)
(* A payment is never forgotten: each reference ever made stays in a       *)
(* thread of its invoice, also the one of a resumed run, which no row      *)
(* shows, however often the thread is resumed after it.                    *)
(***************************************************************************)
THEOREM PaymentsAreRemembered ==
    ASSUME OneAtATime, OnlyCrashes
    PROVE  Spec => []PaymentIsRemembered
<1>1. PaymentInv => PaymentIsRemembered
    BY DEF PaymentInv
<1> QED
    BY <1>1, PaymentInvariance, PTL

(***************************************************************************)
(* Remembering is what makes it one: all references of an invoice are in   *)
(* the threads of its only job, only one of those was ever started, and a  *)
(* thread holds one reference.                                             *)
(***************************************************************************)
LEMMA OneReference ==
    ASSUME PaymentInv, NEW i \in Invoices, NEW r \in issued[i], NEW s \in issued[i]
    PROVE  r = s
<1> USE DEF PaymentInv, OneJobInv, AuditInv, IInv
<1>1. PICK t \in Threads : ckpt[t].st.inv = i /\ ckpt[t].st.ref = r
    BY DEF PaymentIsRemembered
<1>2. PICK u \in Threads : ckpt[u].st.inv = i /\ ckpt[u].st.ref = s
    BY DEF PaymentIsRemembered
<1>3. PICK j \in Jobs, k \in 1..MaxTries : t = <<j, k>>
    BY DEF Threads
<1>4. PICK l \in Jobs, n \in 1..MaxTries : u = <<l, n>>
    BY DEF Threads
<1>5. i # None
    BY GraphAssumption
<1>6. inv[j] = i /\ inv[l] = i /\ Touched(<<j, k>>) /\ Touched(<<l, n>>)
    BY <1>1, <1>2, <1>3, <1>4, <1>5 DEF ThreadsAreOwn, Touched
<1>7. j = l
    BY <1>5, <1>6 DEF JobsAreApart
<1>8. k = n
    BY <1>6, <1>7 DEF GraphsStartOnce
<1> QED
    BY <1>1, <1>2, <1>3, <1>4, <1>7, <1>8

(***************************************************************************)
(* "Never creating a duplicate payment" (README.md): whatever crashes and  *)
(* however often the buttons are pressed, at whatever status of the row,   *)
(* execute_node makes at most one reference for an invoice, as long as an  *)
(* invoice is enqueued once and a press is answered before the next.       *)
(***************************************************************************)
THEOREM PaymentIsSingle ==
    ASSUME OneAtATime, OnlyCrashes
    PROVE  Spec => []SinglePayment
<1>1. PaymentInv => SinglePayment
  <2> SUFFICES ASSUME PaymentInv, NEW i \in Invoices
               PROVE  Cardinality(issued[i]) <= 1
      BY DEF SinglePayment
  <2>1. CASE issued[i] = {}
      BY <2>1, FS_EmptySet
  <2>2. CASE issued[i] # {}
    <3>1. PICK r : r \in issued[i]
        BY <2>2
    <3>2. issued[i] = {r}
        BY <3>1, OneReference
    <3>3. Cardinality({r}) = 1
        BY FS_Singleton
    <3> QED
        BY <3>2, <3>3
  <2> QED
      BY <2>1, <2>2
<1> QED
    BY <1>1, PaymentInvariance, PTL
=============================================================================
