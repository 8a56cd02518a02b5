--------------------------- MODULE IngestionProofs ---------------------------
(***************************************************************************)
(* Proofs about the intake, for every set of requests, documents and       *)
(* names, everything callers may submit and every fault: its safety        *)
(* properties, and that it implements IdempotentIntake.                    *)
(***************************************************************************)
EXTENDS IngestionInvariant, FiniteSetTheorems, TLAPS

-----------------------------------------------------------------------------
(***************************************************************************)
(* Rows and paths.                                                         *)
(***************************************************************************)
\* A request's row and path are made of what it submitted.
LEMMA RowFacts ==
    ASSUME NEW r \in Requests, request[r] \in Request
    PROVE  /\ RowOf(r) \in Row /\ PathOf(r) \in Paths
           /\ RowOf(r).id = r /\ RowOf(r).content = request[r].content
           /\ PathOf(r) = <<RowOf(r).content, RowOf(r).name>>
BY DEF RowOf, PathOf, Row, Paths, Request

\* A refusal is one of three codes.
LEMMA RefusalFacts ==
    ASSUME NEW req, Refusal(req) # 0
    PROVE  Refusal(req) \in {400, 413, 415}
BY DEF Refusal

-----------------------------------------------------------------------------
(***************************************************************************)
(* The invariant is kept by every action.                                  *)
(***************************************************************************)
LEMMA InitEstablishesIInv == Init => IInv
<1> SUFFICES ASSUME Init PROVE IInv
    OBVIOUS
<1>1. TypeOK
    BY DEF Init, TypeOK, RequestPC, AnswerCodes, Silent, Respond
<1>2. HandlersAreOpen /\ RowsAreOwn /\ EvidenceIsKept
    BY DEF Init, HandlersAreOpen, RowsAreOwn, EvidenceIsKept, InDatabase
<1>3. ContentsAreUnique /\ FileBeforeRow /\ received = {row.id : row \in invoices}
    BY DEF Init, ContentsAreUnique, FileBeforeRow
<1> QED
    BY <1>1, <1>2, <1>3 DEF IInv

\* A new request has no rows and no answer.
LEMMA SubmitKeepsIInv ==
    ASSUME IInv, NEW r \in Requests, NEW req \in Inputs, Submit(r, req)
    PROVE  IInv'
<1> USE DEF Submit, Finish, Goto, tables
<1>2. TypeOK'
    BY IngestionAssumption
       DEF IInv, TypeOK, Row, RequestPC, AnswerCodes, Respond
<1>3. HandlersAreOpen'
    BY IngestionAssumption DEF IInv, TypeOK, HandlersAreOpen
<1>4. ContentsAreUnique'
    BY DEF IInv, TypeOK, ContentsAreUnique
<1>5. RowsAreOwn'
    BY DEF IInv, TypeOK, HandlersAreOpen, RowsAreOwn, RowOf, Row
<1>6. EvidenceIsKept'
    BY DEF IInv, TypeOK, EvidenceIsKept, InDatabase, PathOf
<1>7. (received = {row.id : row \in invoices})'
    BY DEF IInv
<1>8. FileBeforeRow'
    BY DEF IInv, TypeOK, FileBeforeRow, EvidenceIsKept, InDatabase, Row, Paths
<1> QED
    BY <1>2, <1>3, <1>4, <1>5, <1>6, <1>7, <1>8 DEF IInv

\* A refused request has touched nothing.
LEMMA RefuseKeepsIInv ==
    ASSUME IInv, NEW r \in Requests, Refuse(r)
    PROVE  IInv'
<1> USE DEF Refuse, Finish, Goto, tables
<1>1. /\ pc[r] # "idle" /\ request[r] \in Request
      /\ RowOf(r) \in Row /\ PathOf(r) \in Paths
      /\ RowOf(r).id = r /\ RowOf(r).content = request[r].content
      /\ PathOf(r) = <<RowOf(r).content, RowOf(r).name>>
    BY RowFacts DEF IInv, HandlersAreOpen
<1>2. TypeOK'
    BY <1>1, RefusalFacts, IngestionAssumption
       DEF IInv, TypeOK, Row, RequestPC, AnswerCodes, Respond
<1>3. HandlersAreOpen'
    BY <1>1 DEF IInv, TypeOK, HandlersAreOpen
<1>4. ContentsAreUnique'
    BY <1>1 DEF IInv, TypeOK, ContentsAreUnique
<1>5. RowsAreOwn'
    BY <1>1 DEF IInv, TypeOK, HandlersAreOpen, RowsAreOwn, RowOf, Row
<1>6. EvidenceIsKept'
    BY <1>1 DEF IInv, TypeOK, EvidenceIsKept, InDatabase, PathOf
<1>7. (received = {row.id : row \in invoices})'
    BY <1>1 DEF IInv
<1>8. FileBeforeRow'
    BY <1>1 DEF IInv, TypeOK, FileBeforeRow, EvidenceIsKept, InDatabase, Row, Paths
<1> QED
    BY <1>2, <1>3, <1>4, <1>5, <1>6, <1>7, <1>8 DEF IInv

\* A file that was there stays there.
LEMMA WriteFileKeepsIInv ==
    ASSUME IInv, NEW r \in Requests, WriteFile(r)
    PROVE  IInv'
<1> USE DEF WriteFile, Stored, Finish, Goto, tables
<1>1. /\ pc[r] # "idle" /\ request[r] \in Request
      /\ RowOf(r) \in Row /\ PathOf(r) \in Paths
      /\ RowOf(r).id = r /\ RowOf(r).content = request[r].content
      /\ PathOf(r) = <<RowOf(r).content, RowOf(r).name>>
    BY RowFacts DEF IInv, HandlersAreOpen
<1>2. TypeOK'
    BY <1>1, IngestionAssumption
       DEF IInv, TypeOK, Row, RequestPC, AnswerCodes, Respond
<1>3. HandlersAreOpen'
    BY <1>1 DEF IInv, TypeOK, HandlersAreOpen
<1>4. ContentsAreUnique'
    BY <1>1 DEF IInv, TypeOK, ContentsAreUnique
<1>5. RowsAreOwn'
    BY <1>1 DEF IInv, TypeOK, HandlersAreOpen, RowsAreOwn, RowOf, Row
<1>6. EvidenceIsKept'
    BY <1>1 DEF IInv, TypeOK, EvidenceIsKept, InDatabase, PathOf
<1>7. (received = {row.id : row \in invoices})'
    BY <1>1 DEF IInv
<1>8. FileBeforeRow'
    BY <1>1 DEF IInv, TypeOK, FileBeforeRow, EvidenceIsKept, InDatabase, Row, Paths
<1> QED
    BY <1>2, <1>3, <1>4, <1>5, <1>6, <1>7, <1>8 DEF IInv

\* A torn write only touches a path that nothing points at.
LEMMA TornWriteKeepsIInv ==
    ASSUME IInv, NEW r \in Requests, TornWrite(r)
    PROVE  IInv'
<1> USE DEF TornWrite, Stored, Finish, Goto, tables
<1>1. /\ pc[r] # "idle" /\ request[r] \in Request
      /\ RowOf(r) \in Row /\ PathOf(r) \in Paths
      /\ RowOf(r).id = r /\ RowOf(r).content = request[r].content
      /\ PathOf(r) = <<RowOf(r).content, RowOf(r).name>>
    BY RowFacts DEF IInv, HandlersAreOpen
<1>2. TypeOK'
    BY <1>1, IngestionAssumption
       DEF IInv, TypeOK, Row, RequestPC, AnswerCodes, Respond
<1>3. HandlersAreOpen'
    BY <1>1 DEF IInv, TypeOK, HandlersAreOpen
<1>4. ContentsAreUnique'
    BY <1>1 DEF IInv, TypeOK, ContentsAreUnique
<1>5. RowsAreOwn'
    BY <1>1 DEF IInv, TypeOK, HandlersAreOpen, RowsAreOwn, RowOf, Row
<1>6. EvidenceIsKept'
    BY <1>1 DEF IInv, TypeOK, EvidenceIsKept, InDatabase, PathOf
<1>7. (received = {row.id : row \in invoices})'
    BY <1>1 DEF IInv
<1>8. FileBeforeRow'
    BY <1>1 DEF IInv, TypeOK, FileBeforeRow, EvidenceIsKept, InDatabase, Row, Paths
<1> QED
    BY <1>2, <1>3, <1>4, <1>5, <1>6, <1>7, <1>8 DEF IInv

\* A request with a connection has its file.
LEMMA ConnectKeepsIInv ==
    ASSUME IInv, NEW r \in Requests, Connect(r)
    PROVE  IInv'
<1> USE DEF Connect, Finish, Goto, tables
<1>1. /\ pc[r] # "idle" /\ request[r] \in Request
      /\ RowOf(r) \in Row /\ PathOf(r) \in Paths
      /\ RowOf(r).id = r /\ RowOf(r).content = request[r].content
      /\ PathOf(r) = <<RowOf(r).content, RowOf(r).name>>
    BY RowFacts DEF IInv, HandlersAreOpen
<1>2. TypeOK'
    BY <1>1, IngestionAssumption
       DEF IInv, TypeOK, Row, RequestPC, AnswerCodes, Respond
<1>3. HandlersAreOpen'
    BY <1>1 DEF IInv, TypeOK, HandlersAreOpen
<1>4. ContentsAreUnique'
    BY <1>1 DEF IInv, TypeOK, ContentsAreUnique
<1>5. RowsAreOwn'
    BY <1>1 DEF IInv, TypeOK, HandlersAreOpen, RowsAreOwn, RowOf, Row
<1>6. EvidenceIsKept'
    BY <1>1 DEF IInv, TypeOK, EvidenceIsKept, InDatabase, PathOf
<1>7. (received = {row.id : row \in invoices})'
    BY <1>1 DEF IInv
<1>8. FileBeforeRow'
    BY <1>1 DEF IInv, TypeOK, FileBeforeRow, EvidenceIsKept, InDatabase, Row, Paths
<1> QED
    BY <1>2, <1>3, <1>4, <1>5, <1>6, <1>7, <1>8 DEF IInv

\* An insert that goes through is the only one with its content.
LEMMA FlushKeepsIInv ==
    ASSUME IInv, NEW r \in Requests, Flush(r)
    PROVE  IInv'
<1> USE DEF Flush, Blocking, Duplicates, SameContent, Finish, Goto, tables
<1>1. /\ pc[r] # "idle" /\ request[r] \in Request
      /\ RowOf(r) \in Row /\ PathOf(r) \in Paths
      /\ RowOf(r).id = r /\ RowOf(r).content = request[r].content
      /\ PathOf(r) = <<RowOf(r).content, RowOf(r).name>>
    BY RowFacts DEF IInv, HandlersAreOpen
<1>2. TypeOK'
    BY <1>1, IngestionAssumption
       DEF IInv, TypeOK, Row, RequestPC, AnswerCodes, Respond
<1>3. HandlersAreOpen'
    BY <1>1 DEF IInv, TypeOK, HandlersAreOpen
<1>4. ContentsAreUnique'
    BY <1>1 DEF IInv, TypeOK, ContentsAreUnique
<1>5. RowsAreOwn'
    BY <1>1 DEF IInv, TypeOK, HandlersAreOpen, RowsAreOwn, RowOf, Row
<1>6. EvidenceIsKept'
    BY <1>1 DEF IInv, TypeOK, EvidenceIsKept, InDatabase, PathOf
<1>7. (received = {row.id : row \in invoices})'
    BY <1>1 DEF IInv
<1>8. FileBeforeRow'
    BY <1>1 DEF IInv, TypeOK, FileBeforeRow, EvidenceIsKept, InDatabase, Row, Paths
<1> QED
    BY <1>2, <1>3, <1>4, <1>5, <1>6, <1>7, <1>8 DEF IInv

\* An insert that fails has met a committed row.
LEMMA FlushFailsKeepsIInv ==
    ASSUME IInv, NEW r \in Requests, FlushFails(r)
    PROVE  IInv'
<1> USE DEF FlushFails, Blocking, Duplicates, SameContent, Finish, Goto, tables
<1>1. /\ pc[r] # "idle" /\ request[r] \in Request
      /\ RowOf(r) \in Row /\ PathOf(r) \in Paths
      /\ RowOf(r).id = r /\ RowOf(r).content = request[r].content
      /\ PathOf(r) = <<RowOf(r).content, RowOf(r).name>>
    BY RowFacts DEF IInv, HandlersAreOpen
<1>2. TypeOK'
    BY <1>1, IngestionAssumption
       DEF IInv, TypeOK, Row, RequestPC, AnswerCodes, Respond
<1>3. HandlersAreOpen'
    BY <1>1 DEF IInv, TypeOK, HandlersAreOpen
<1>4. ContentsAreUnique'
    BY <1>1 DEF IInv, TypeOK, ContentsAreUnique
<1>5. RowsAreOwn'
    BY <1>1 DEF IInv, TypeOK, HandlersAreOpen, RowsAreOwn, RowOf, Row
<1>6. EvidenceIsKept'
    BY <1>1 DEF IInv, TypeOK, EvidenceIsKept, InDatabase, PathOf
<1>7. (received = {row.id : row \in invoices})'
    BY <1>1 DEF IInv
<1>8. FileBeforeRow'
    BY <1>1 DEF IInv, TypeOK, FileBeforeRow, EvidenceIsKept, InDatabase, Row, Paths
<1> QED
    BY <1>2, <1>3, <1>4, <1>5, <1>6, <1>7, <1>8 DEF IInv

\* A commit moves one row and its audit entry.
LEMMA CommitKeepsIInv ==
    ASSUME IInv, NEW r \in Requests, Commit(r)
    PROVE  IInv'
<1> USE DEF Commit, Finish, Goto, tables
<1>1. /\ pc[r] # "idle" /\ request[r] \in Request
      /\ RowOf(r) \in Row /\ PathOf(r) \in Paths
      /\ RowOf(r).id = r /\ RowOf(r).content = request[r].content
      /\ PathOf(r) = <<RowOf(r).content, RowOf(r).name>>
    BY RowFacts DEF IInv, HandlersAreOpen
<1>2. TypeOK'
    BY <1>1, IngestionAssumption
       DEF IInv, TypeOK, Row, RequestPC, AnswerCodes, Respond
<1>3. HandlersAreOpen'
    BY <1>1 DEF IInv, TypeOK, HandlersAreOpen
<1>4. ContentsAreUnique'
  <2>1. invoices' \cup pending' = invoices \cup pending
      BY DEF IInv, RowsAreOwn
  <2> QED
      BY <2>1 DEF IInv, ContentsAreUnique
<1>5. RowsAreOwn'
    BY <1>1 DEF IInv, TypeOK, HandlersAreOpen, RowsAreOwn, RowOf, Row
<1>6. EvidenceIsKept'
    BY <1>1 DEF IInv, TypeOK, EvidenceIsKept, InDatabase, PathOf
<1>7. (received = {row.id : row \in invoices})'
    BY <1>1 DEF IInv
<1>8. FileBeforeRow'
    BY <1>1 DEF IInv, TypeOK, FileBeforeRow, EvidenceIsKept, InDatabase, Row, Paths
<1> QED
    BY <1>2, <1>3, <1>4, <1>5, <1>6, <1>7, <1>8 DEF IInv

\* The answer 202.
LEMMA RefreshKeepsIInv ==
    ASSUME IInv, NEW r \in Requests, Refresh(r)
    PROVE  IInv'
<1> USE DEF Refresh, Finish, Goto, tables
<1>1. /\ pc[r] # "idle" /\ request[r] \in Request
      /\ RowOf(r) \in Row /\ PathOf(r) \in Paths
      /\ RowOf(r).id = r /\ RowOf(r).content = request[r].content
      /\ PathOf(r) = <<RowOf(r).content, RowOf(r).name>>
    BY RowFacts DEF IInv, HandlersAreOpen
<1>2. TypeOK'
    BY <1>1, IngestionAssumption
       DEF IInv, TypeOK, Row, RequestPC, AnswerCodes, Respond
<1>3. HandlersAreOpen'
    BY <1>1 DEF IInv, TypeOK, HandlersAreOpen
<1>4. ContentsAreUnique'
    BY <1>1 DEF IInv, TypeOK, ContentsAreUnique
<1>5. RowsAreOwn'
    BY <1>1 DEF IInv, TypeOK, HandlersAreOpen, RowsAreOwn, RowOf, Row
<1>6. EvidenceIsKept'
    BY <1>1 DEF IInv, TypeOK, EvidenceIsKept, InDatabase, PathOf
<1>7. (received = {row.id : row \in invoices})'
    BY <1>1 DEF IInv
<1>8. FileBeforeRow'
    BY <1>1 DEF IInv, TypeOK, FileBeforeRow, EvidenceIsKept, InDatabase, Row, Paths
<1> QED
    BY <1>2, <1>3, <1>4, <1>5, <1>6, <1>7, <1>8 DEF IInv

\* The answer 409, or 500.
LEMMA SelectExistingKeepsIInv ==
    ASSUME IInv, NEW r \in Requests, SelectExisting(r)
    PROVE  IInv'
<1> USE DEF SelectExisting, Duplicates, SameContent, Finish, Goto, tables
<1>1. /\ pc[r] # "idle" /\ request[r] \in Request
      /\ RowOf(r) \in Row /\ PathOf(r) \in Paths
      /\ RowOf(r).id = r /\ RowOf(r).content = request[r].content
      /\ PathOf(r) = <<RowOf(r).content, RowOf(r).name>>
    BY RowFacts DEF IInv, HandlersAreOpen
<1>2. TypeOK'
    BY <1>1, IngestionAssumption
       DEF IInv, TypeOK, Row, RequestPC, AnswerCodes, Respond
<1>3. HandlersAreOpen'
    BY <1>1 DEF IInv, TypeOK, HandlersAreOpen
<1>4. ContentsAreUnique'
    BY <1>1 DEF IInv, TypeOK, ContentsAreUnique
<1>5. RowsAreOwn'
    BY <1>1 DEF IInv, TypeOK, HandlersAreOpen, RowsAreOwn, RowOf, Row
<1>6. EvidenceIsKept'
    BY <1>1 DEF IInv, TypeOK, EvidenceIsKept, InDatabase, PathOf
<1>7. (received = {row.id : row \in invoices})'
    BY <1>1 DEF IInv
<1>8. FileBeforeRow'
    BY <1>1 DEF IInv, TypeOK, FileBeforeRow, EvidenceIsKept, InDatabase, Row, Paths
<1> QED
    BY <1>2, <1>3, <1>4, <1>5, <1>6, <1>7, <1>8 DEF IInv

\* A rollback takes back the request's own row only.
LEMMA DatabaseErrorKeepsIInv ==
    ASSUME IInv, NEW r \in Requests, DatabaseError(r)
    PROVE  IInv'
<1> USE DEF DatabaseError, Finish, Goto, tables
<1>1. /\ pc[r] # "idle" /\ request[r] \in Request
      /\ RowOf(r) \in Row /\ PathOf(r) \in Paths
      /\ RowOf(r).id = r /\ RowOf(r).content = request[r].content
      /\ PathOf(r) = <<RowOf(r).content, RowOf(r).name>>
    BY RowFacts DEF IInv, HandlersAreOpen, InDatabase
<1>2. TypeOK'
    BY <1>1, IngestionAssumption
       DEF IInv, TypeOK, Row, RequestPC, AnswerCodes, Respond
<1>3. HandlersAreOpen'
    BY <1>1 DEF IInv, TypeOK, HandlersAreOpen, InDatabase
<1>4. ContentsAreUnique'
    BY <1>1 DEF IInv, TypeOK, ContentsAreUnique
<1>5. RowsAreOwn'
    BY <1>1 DEF IInv, TypeOK, HandlersAreOpen, RowsAreOwn, RowOf, Row
<1>6. EvidenceIsKept'
    BY <1>1 DEF IInv, TypeOK, EvidenceIsKept, InDatabase, PathOf
<1>7. (received = {row.id : row \in invoices})'
    BY <1>1 DEF IInv
<1>8. FileBeforeRow'
    BY <1>1 DEF IInv, TypeOK, FileBeforeRow, EvidenceIsKept, InDatabase, Row, Paths
<1> QED
    BY <1>2, <1>3, <1>4, <1>5, <1>6, <1>7, <1>8 DEF IInv

\* A crash takes back what was not committed.
LEMMA CrashKeepsIInv ==
    ASSUME IInv, Crash
    PROVE  IInv'
<1> USE DEF Crash
<1>2. TypeOK'
    BY IngestionAssumption
       DEF IInv, TypeOK, Row, RequestPC, AnswerCodes, Respond
<1>3. HandlersAreOpen'
    BY IngestionAssumption DEF IInv, TypeOK, HandlersAreOpen
<1>4. ContentsAreUnique'
    BY DEF IInv, TypeOK, ContentsAreUnique
<1>5. RowsAreOwn'
    BY DEF IInv, TypeOK, HandlersAreOpen, RowsAreOwn, RowOf, Row
<1>6. EvidenceIsKept'
    BY DEF IInv, TypeOK, EvidenceIsKept, InDatabase, PathOf
<1>7. (received = {row.id : row \in invoices})'
    BY DEF IInv
<1>8. FileBeforeRow'
    BY DEF IInv, TypeOK, FileBeforeRow, EvidenceIsKept, InDatabase, Row, Paths
<1> QED
    BY <1>2, <1>3, <1>4, <1>5, <1>6, <1>7, <1>8 DEF IInv

LEMMA NextKeepsIInv == IInv /\ [Next]_vars => IInv'
<1> SUFFICES ASSUME IInv, [Next]_vars PROVE IInv'
    OBVIOUS
<1>1. CASE \E r \in Requests, req \in Inputs : Submit(r, req)
    BY <1>1, SubmitKeepsIInv
<1>2. CASE \E r \in Requests : Step(r)
    BY <1>2, RefuseKeepsIInv, WriteFileKeepsIInv, ConnectKeepsIInv,
       FlushKeepsIInv,
       FlushFailsKeepsIInv, CommitKeepsIInv, RefreshKeepsIInv,
       SelectExistingKeepsIInv DEF Step
<1>3. CASE \E r \in Requests : TornWrite(r) \/ DatabaseError(r)
    BY <1>3, TornWriteKeepsIInv, DatabaseErrorKeepsIInv
<1>4. CASE Crash
    BY <1>4, CrashKeepsIInv
<1>5. CASE UNCHANGED vars
    BY <1>5 DEF vars, tables, IInv, TypeOK, HandlersAreOpen, ContentsAreUnique,
                RowsAreOwn, RowOf, EvidenceIsKept, PathOf, FileBeforeRow
<1> QED
    BY <1>1, <1>2, <1>3, <1>4, <1>5 DEF Next

(***************************************************************************)
(* The invariant of the intake holds in every reachable state.             *)
(***************************************************************************)
THEOREM Invariance == Spec => []IInv
BY InitEstablishesIInv, NextKeepsIInv, PTL DEF Spec

-----------------------------------------------------------------------------
(***************************************************************************)
(* Safety.                                                                 *)
(***************************************************************************)
\* At most one committed row has a given content.
LEMMA AtMostOneRow ==
    ASSUME IInv, NEW c, NEW row \in SameContent(invoices, c)
    PROVE  /\ SameContent(invoices, c) = {row}
           /\ Cardinality(SameContent(invoices, c)) = 1
<1>1. SameContent(invoices, c) = {row}
    BY DEF IInv, ContentsAreUnique, SameContent
<1>2. Cardinality({row}) = 1
    BY FS_Singleton
<1> QED
    BY <1>1, <1>2

(***************************************************************************)
(* Intake state keeps its types: no answer that is not one of the codes.   *)
(***************************************************************************)
THEOREM TypeCorrectness == Spec => []TypeOK
<1>1. IInv => TypeOK
    BY DEF IInv
<1> QED
    BY Invariance, <1>1, PTL

(***************************************************************************)
(* However many requests send a document, over whichever endpoint, and     *)
(* whatever fails, at most one row is committed for it, and exactly the    *)
(* committed rows have their first audit entry.                            *)
(***************************************************************************)
THEOREM DocumentsAreBookedOnce == Spec => []OneRowPerContent
<1>1. IInv => OneRowPerContent
  <2> SUFFICES ASSUME IInv, NEW c \in Contents
               PROVE  Cardinality(SameContent(invoices, c)) <= 1
      BY DEF IInv, OneRowPerContent
  <2>1. CASE SameContent(invoices, c) = {}
      BY <2>1, FS_EmptySet
  <2>2. CASE \E row : row \in SameContent(invoices, c)
      BY <2>2, AtMostOneRow
  <2> QED
      BY <2>1, <2>2
<1> QED
    BY Invariance, <1>1, PTL

(***************************************************************************)
(* A request that hit the unique index finds exactly one row, another      *)
(* request's, so scalar_one() never raises on a duplicate.                 *)
(***************************************************************************)
THEOREM DuplicatesAreFound == Spec => []DuplicateIsFound
<1>1. IInv => DuplicateIsFound
  <2> SUFFICES ASSUME IInv, NEW r \in Requests, pc[r] = "select"
               PROVE  /\ Cardinality(Duplicates(r)) = 1
                      /\ \A row \in Duplicates(r) : row.id # r
      BY DEF DuplicateIsFound
  <2>1. PICK row \in invoices : row.content = request[r].content
      BY DEF IInv, EvidenceIsKept
  <2>2. row \in Duplicates(r)
      BY <2>1 DEF Duplicates, SameContent
  <2>3. \A found \in Duplicates(r) : found.id # r
      BY DEF IInv, RowsAreOwn, Duplicates, SameContent
  <2> QED
      BY <2>2, <2>3, AtMostOneRow DEF Duplicates
<1> QED
    BY Invariance, <1>1, PTL

(***************************************************************************)
(* The file is written before the row that points at it, and never goes.   *)
(***************************************************************************)
THEOREM FilesPrecedeRows == Spec => []FileBeforeRow
<1>1. IInv => FileBeforeRow
    BY DEF IInv
<1> QED
    BY Invariance, <1>1, PTL

\* An open transaction that an insert waits for is about to commit.
LEMMA BlockerMovesOn ==
    ASSUME IInv, NEW r \in Requests, Blocking(r) # {}
    PROVE  \E q \in Holding : ~Waits(q) /\ RowOf(q) \in Blocking(r)
<1>1. PICK row \in Blocking(r) : row \in pending
    BY DEF Blocking, SameContent
<1>2. row.id \in Requests /\ pc[row.id] = "commit" /\ row = RowOf(row.id)
    BY <1>1 DEF IInv, TypeOK, Row, RowsAreOwn
<1> QED
    BY <1>1, <1>2 DEF Holding, Waits

(***************************************************************************)
(* With every pool, however small, and any number of requests: a request   *)
(* that waits, for a connection or at the unique index, has another one    *)
(* before it that holds a connection and waits for nobody.                 *)
(***************************************************************************)
THEOREM RequestsDoNotWaitInCircles == Spec => []NoCircularWait
<1>1. IInv => NoCircularWait
  <2> SUFFICES ASSUME IInv, NEW r \in Requests, Waits(r)
               PROVE  \E q \in Holding :
                        /\ ~Waits(q)
                        /\ pc[r] = "insert" => RowOf(q) \in Blocking(r)
      BY DEF NoCircularWait
  <2>1. CASE Blocking(r) # {}
      BY <2>1, BlockerMovesOn
  <2>2. CASE Blocking(r) = {}
    <3>1. pc[r] # "insert" /\ ~ConnectionFree
        BY <2>2 DEF Waits
    <3>2. Holding # {}
        BY <3>1, FS_EmptySet, IngestionAssumption DEF ConnectionFree
    <3>3. PICK q \in Holding : TRUE
        BY <3>2
    <3>4. q \in Requests /\ pc[q] \in {"insert", "commit"}
        BY DEF Holding
    <3>5. CASE Waits(q)
        BY <3>1, <3>4, <3>5, BlockerMovesOn DEF Waits
    <3> QED
        BY <3>1, <3>3, <3>5
  <2> QED
      BY <2>1, <2>2
<1> QED
    BY Invariance, <1>1, PTL

-----------------------------------------------------------------------------
(***************************************************************************)
(* Refinement.                                                             *)
(***************************************************************************)
asked == [r \in Requests |-> request[r].content]
book == [c \in Contents |-> BookedBy(c)]

\* A document is booked by the request whose row is committed.
LEMMA BookedByFacts ==
    ASSUME IInv, NEW c \in Contents
    PROVE  /\ \A row \in invoices : row.content = c => book[c] = row.id
           /\ (\A row \in invoices : row.content # c) => book[c] = None
<1>1. ASSUME NEW row \in invoices, row.content = c
      PROVE  book[c] = row.id
  <2>1. SameContent(invoices, c) = {row}
      BY <1>1, AtMostOneRow DEF SameContent
  <2> QED
      BY <2>1 DEF book, BookedBy, Booker
<1>2. ASSUME \A row \in invoices : row.content # c
      PROVE  book[c] = None
    BY <1>2 DEF book, BookedBy, Booker, SameContent
<1> QED
    BY <1>1, <1>2

\* A handler under way is a question that is open.
LEMMA HandlersAsk ==
    ASSUME IInv, NEW r \in Requests, pc[r] \notin {"idle", "done"}
    PROVE  /\ request[r].content \in Contents
           /\ asked[r] = request[r].content
           /\ asked[r] # None
           /\ answer[r] = Silent
           /\ Intake!Open(r)
<1>1. request[r].content \in Contents /\ answer[r] = Silent
    BY DEF IInv, HandlersAreOpen, Request
<1> QED
    BY <1>1, IngestionAssumption
       DEF asked, Intake!Open, Intake!NoAnswer, Intake!Answer, Silent, Respond

\* The initial states are initial states of IdempotentIntake.
LEMMA InitRefines == Init => Intake!AInit
<1> SUFFICES ASSUME Init PROVE Intake!AInit
    OBVIOUS
<1>1. \A r \in Requests : request[r].content = None
    BY DEF Init, NoRequest
<1>2. \A c \in Contents : BookedBy(c) = None
    BY DEF Init, BookedBy, Booker, SameContent
<1> QED
    BY <1>1, <1>2 DEF Init, Intake!AInit, Intake!NoAnswer, Intake!Answer,
                      Silent, Respond

\* A step that leaves requests, committed rows and answers is a stutter.
LEMMA Stutters ==
    ASSUME UNCHANGED <<request, invoices, answer>>
    PROVE  UNCHANGED Intake!avars
BY DEF Intake!avars, BookedBy, SameContent

\* An answer of 500 is a broken request, whatever was booked.
LEMMA BreakRefines ==
    ASSUME IInv, NEW r \in Requests, pc[r] \notin {"idle", "done"},
           UNCHANGED <<request, invoices>>, Finish(r, 500, None)
    PROVE  Intake!ANext
<1>1. Intake!Open(r)
    BY HandlersAsk
<1>2. /\ asked' = asked /\ book' = book
    BY DEF asked, book, BookedBy, SameContent
<1>3. answer' = [q \in Requests |->
                    IF q \in {r} THEN [code |-> 500, id |-> None] ELSE answer[q]]
    BY DEF Finish, Respond, IInv, TypeOK
<1>4. Intake!Break({r})
    BY <1>1, <1>2, <1>3 DEF Intake!Break, Intake!Answer, asked, book
<1> QED
    BY <1>4 DEF Intake!ANext

\* Submit asks.
LEMMA SubmitRefines ==
    ASSUME IInv, NEW r \in Requests, NEW req \in Inputs, Submit(r, req)
    PROVE  Intake!ANext
<1>1. pc[r] = "idle" /\ request[r] = NoRequest /\ req.content \in Contents
    BY IngestionAssumption DEF Submit, IInv, HandlersAreOpen, Request
<1>2. asked[r] = None /\ asked' = [asked EXCEPT ![r] = req.content]
  <2>1. request' = [request EXCEPT ![r] = req]
      BY DEF Submit
  <2>2. \A q \in Requests : request'[q] = IF q = r THEN req ELSE request[q]
      BY <2>1 DEF IInv, TypeOK
  <2>3. asked' = [q \in Requests |-> IF q = r THEN req.content ELSE asked[q]]
      BY <2>2 DEF asked
  <2>4. asked' = [asked EXCEPT ![r] = req.content]
      BY <2>3 DEF asked
  <2>5. asked[r] = None
      BY <1>1 DEF asked, NoRequest
  <2> QED
      BY <2>4, <2>5
<1>3. book' = book /\ answer' = answer
    BY DEF Submit, Goto, tables, book, BookedBy, SameContent
<1>4. Intake!Ask(r, req.content)
    BY <1>2, <1>3 DEF Intake!Ask, asked, book
<1> QED
    BY <1>1, <1>4 DEF Intake!ANext

\* The endpoint's refusals come before anything is booked.
LEMMA RefuseRefines ==
    ASSUME IInv, NEW r \in Requests, Refuse(r)
    PROVE  Intake!ANext
<1>1. Intake!Open(r) /\ asked[r] \in Contents
    BY HandlersAsk DEF Refuse
<1>2. book[asked[r]] # r
  <2>1. \A row \in invoices : row.id # r
      BY DEF IInv, RowsAreOwn, Refuse
  <2>2. None # r
      BY IngestionAssumption
  <2> QED
      BY <1>1, <2>1, <2>2, BookedByFacts
<1>3. asked' = asked /\ book' = book
    BY DEF Refuse, tables, asked, book, BookedBy, SameContent
<1> DEFINE Refused(code) == answer' = [answer EXCEPT ![r] = Intake!Answer(code, None)]
<1>4. Refused(Refusal(request[r]))
    BY DEF Refuse, Finish, Respond, Intake!Answer
<1>5. Refusal(request[r]) \in {400, 413, 415}
    BY RefusalFacts DEF Refuse
<1>6. \E code \in {400, 413, 415} : Refused(code)
  <2> HIDE DEF Refused
  <2> QED
      BY <1>4, <1>5
<1>7. Intake!Refuse(r)
    BY <1>1, <1>2, <1>3, <1>6 DEF Intake!Refuse, asked, book
<1> QED
    BY <1>7 DEF Intake!ANext

\* The commit books.
LEMMA CommitRefines ==
    ASSUME IInv, NEW r \in Requests, Commit(r)
    PROVE  Intake!ANext
<1>1. Intake!Open(r) /\ asked[r] = request[r].content /\ asked[r] \in Contents
    BY HandlersAsk DEF Commit
<1>2. RowOf(r) \in pending /\ RowOf(r).content = asked[r] /\ RowOf(r).id = r
    BY <1>1 DEF IInv, RowsAreOwn, Commit, RowOf
<1>3. RowOf(r) \notin invoices
    BY <1>2 DEF IInv, RowsAreOwn, Commit
<1>4. \A row \in invoices : row.content # asked[r]
    BY <1>2, <1>3 DEF IInv, ContentsAreUnique
<1>5. book[asked[r]] = None
    BY <1>1, <1>4, BookedByFacts
<1>6. asked' = asked /\ answer' = answer
    BY DEF Commit, Goto, asked
<1>7. book' = [book EXCEPT ![asked[r]] = r]
  <2>1. SameContent(invoices', asked[r]) = {RowOf(r)}
      BY <1>2, <1>4 DEF Commit, SameContent
  <2>2. ASSUME NEW c \in Contents, c # asked[r]
        PROVE  SameContent(invoices', c) = SameContent(invoices, c)
      BY <1>2, <2>2 DEF Commit, SameContent
  <2>3. BookedBy(asked[r])' = r
      BY <1>2, <2>1, <1>6 DEF BookedBy, Booker
  <2>4. ASSUME NEW c \in Contents, c # asked[r]
        PROVE  BookedBy(c)' = BookedBy(c)
      BY <2>2, <2>4 DEF BookedBy
  <2>5. book' = [c \in Contents |-> IF c = asked[r] THEN r ELSE BookedBy(c)]
      BY <2>3, <2>4, <1>6 DEF book
  <2> QED
      BY <1>1, <2>5 DEF book
<1>8. Intake!Book(r)
    BY <1>1, <1>5, <1>6, <1>7 DEF Intake!Book, asked, book
<1> QED
    BY <1>8 DEF Intake!ANext

\* 202 goes to the request that booked the document.
LEMMA RefreshRefines ==
    ASSUME IInv, NEW r \in Requests, Refresh(r)
    PROVE  Intake!ANext
<1>1. Intake!Open(r) /\ asked[r] = request[r].content /\ asked[r] \in Contents
    BY HandlersAsk DEF Refresh
<1>2. RowOf(r) \in invoices /\ RowOf(r).content = asked[r] /\ RowOf(r).id = r
    BY <1>1 DEF IInv, RowsAreOwn, Refresh, RowOf
<1>3. book[asked[r]] = r
    BY <1>1, <1>2, BookedByFacts
<1>4. asked' = asked /\ book' = book
    BY DEF Refresh, tables, asked, book, BookedBy, SameContent
<1>5. Intake!Accept(r)
    BY <1>1, <1>3, <1>4
       DEF Intake!Accept, Intake!Answer, Refresh, Finish, Respond, asked, book
<1> QED
    BY <1>5 DEF Intake!ANext

\* 409 names the request that did.
LEMMA SelectExistingRefines ==
    ASSUME IInv, NEW r \in Requests, SelectExisting(r)
    PROVE  Intake!ANext
<1>1. Intake!Open(r) /\ asked[r] = request[r].content /\ asked[r] \in Contents
    BY HandlersAsk DEF SelectExisting
<1>2. PICK row \in invoices : row.content = asked[r]
    BY <1>1 DEF IInv, EvidenceIsKept, SelectExisting
<1>3. Duplicates(r) = {row} /\ Cardinality(Duplicates(r)) = 1
    BY <1>1, <1>2, AtMostOneRow DEF Duplicates, SameContent
<1>4. Finish(r, 409, row.id)
    BY <1>3 DEF SelectExisting
<1>5. book[asked[r]] = row.id
    BY <1>1, <1>2, BookedByFacts
<1>6. row.id \in Requests /\ row.id # r
    BY DEF IInv, TypeOK, Row, RowsAreOwn, SelectExisting
<1>7. asked' = asked /\ book' = book
    BY DEF SelectExisting, tables, asked, book, BookedBy, SameContent
<1>8. Intake!Conflict(r)
    BY <1>1, <1>4, <1>5, <1>6, <1>7, IngestionAssumption
       DEF Intake!Conflict, Intake!Answer, Finish, Respond, asked, book
<1> QED
    BY <1>8 DEF Intake!ANext

\* A crash breaks every open request at once.
LEMMA CrashRefines ==
    ASSUME IInv, Crash
    PROVE  Intake!ANext
<1> DEFINE broken == {r \in Requests : pc[r] \notin {"idle", "done"}}
<1>1. \A r \in broken : Intake!Open(r)
    BY HandlersAsk
<1>2. asked' = asked /\ book' = book
    BY DEF Crash, asked, book, BookedBy, SameContent
<1>3. answer' = [r \in Requests |->
                    IF r \in broken THEN Intake!Answer(500, None) ELSE answer[r]]
    BY DEF Crash, Respond, Intake!Answer
<1>4. Intake!Break(broken)
    BY <1>1, <1>2, <1>3 DEF Intake!Break, asked, book
<1>5. broken \in SUBSET Requests
    OBVIOUS
<1> QED
    BY <1>4, <1>5 DEF Intake!ANext

LEMMA StepRefines == IInv /\ [Next]_vars => [Intake!ANext]_(Intake!avars)
<1> SUFFICES ASSUME IInv, [Next]_vars
             PROVE  Intake!ANext \/ UNCHANGED Intake!avars
    OBVIOUS
<1>1. CASE \E r \in Requests, req \in Inputs : Submit(r, req)
    BY <1>1, SubmitRefines
<1>2. ASSUME NEW r \in Requests, Step(r)
      PROVE  Intake!ANext \/ UNCHANGED Intake!avars
  <2>1. CASE WriteFile(r) \/ Connect(r) \/ Flush(r) \/ FlushFails(r)
      BY <2>1, Stutters DEF WriteFile, Connect, Flush, FlushFails, Goto, tables
  <2>2. CASE Refuse(r) \/ Commit(r) \/ Refresh(r) \/ SelectExisting(r)
      BY <2>2, RefuseRefines, CommitRefines, RefreshRefines,
         SelectExistingRefines
  <2> QED
      BY <1>2, <2>1, <2>2 DEF Step
<1>3. CASE \E r \in Requests : TornWrite(r) \/ DatabaseError(r)
    BY <1>3, BreakRefines DEF TornWrite, DatabaseError, InDatabase, tables
<1>4. CASE Crash
    BY <1>4, CrashRefines
<1>5. CASE UNCHANGED vars
    BY <1>5, Stutters DEF vars
<1> QED
    BY <1>1, <1>2, <1>3, <1>4, <1>5 DEF Next

(***************************************************************************)
(* The endpoints implement the idempotent intake: every answer about a     *)
(* document names the one request that booked it.                          *)
(***************************************************************************)
THEOREM IntakeIsImplemented == Spec => ImplementsIntake
<1>1. Spec => Intake!AInit /\ [][Intake!ANext]_(Intake!avars)
    BY InitRefines, Invariance, StepRefines, PTL DEF Spec
<1> QED
    BY <1>1 DEF ImplementsIntake, Intake!ASpec
=============================================================================
