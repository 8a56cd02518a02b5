-------------------------- MODULE IdempotentIntake --------------------------
(***************************************************************************)
(* What the intake of invoices promises its callers (the docstrings of     *)
(* app/services/ingestion.py and app/models/invoice.py), without files,    *)
(* sessions or locks: a document is booked once, by one request; every     *)
(* answer about a document names the request that booked it.               *)
(***************************************************************************)
CONSTANTS Requests, Contents, None

VARIABLES
    asked,    \* the document of each request, None before it is submitted
    book,     \* the request that booked each document, None if there is none
    answer    \* what each request was told

avars == <<asked, book, answer>>

Answer(code, id) == [code |-> code, id |-> id]
NoAnswer == Answer(0, None)

AInit ==
    /\ asked = [r \in Requests |-> None]
    /\ book = [c \in Contents |-> None]
    /\ answer = [r \in Requests |-> NoAnswer]

Open(r) == asked[r] # None /\ answer[r] = NoAnswer

Ask(r, c) ==
    /\ asked[r] = None
    /\ asked' = [asked EXCEPT ![r] = c]
    /\ UNCHANGED <<book, answer>>

Book(r) ==
    /\ Open(r) /\ book[asked[r]] = None
    /\ book' = [book EXCEPT ![asked[r]] = r]
    /\ UNCHANGED <<asked, answer>>

\* 202 is for the request that booked the document.
Accept(r) ==
    /\ Open(r) /\ book[asked[r]] = r
    /\ answer' = [answer EXCEPT ![r] = Answer(202, r)]
    /\ UNCHANGED <<asked, book>>

\* 409 names the one that did.
Conflict(r) ==
    /\ Open(r) /\ book[asked[r]] \notin {None, r}
    /\ answer' = [answer EXCEPT ![r] = Answer(409, book[asked[r]])]
    /\ UNCHANGED <<asked, book>>

\* Refused before anything was booked for the request.
Refuse(r) ==
    /\ Open(r) /\ book[asked[r]] # r
    /\ \E code \in {400, 413, 415} :
            answer' = [answer EXCEPT ![r] = Answer(code, None)]
    /\ UNCHANGED <<asked, book>>

\* No usable answer for some requests at once: their callers do not learn
\* whether the document is booked.
Break(broken) ==
    /\ \A r \in broken : Open(r)
    /\ answer' = [r \in Requests |->
                    IF r \in broken THEN Answer(500, None) ELSE answer[r]]
    /\ UNCHANGED <<asked, book>>

ANext ==
    \/ \E r \in Requests :
          \/ \E c \in Contents : Ask(r, c)
          \/ Book(r) \/ Accept(r) \/ Conflict(r) \/ Refuse(r)
    \/ \E broken \in SUBSET Requests : Break(broken)

ASpec == AInit /\ [][ANext]_avars
=============================================================================
