------------------------ MODULE ExtractionProperties ------------------------
(***************************************************************************)
(* What the extraction loop promises, about the definitions of Extraction. *)
(***************************************************************************)
EXTENDS Extraction

ExtractionPC == {"prepare", "compose", "call", "done"}
Attempts == 1..MAX_RETRIES
Message == [role : {"user", "assistant"}, about : {0} \cup Attempts]

TypeOK ==
    /\ pc \in ExtractionPC
    /\ attempt \in Attempts
    /\ messages \in Seq(Message)
    /\ raw_response \in Attempts \cup {None}
    /\ last_error \in Attempts \cup {None}
    /\ returned \in Update \cup {None}
    /\ calls \in Seq(Replies \cup {NoReply})
-----------------------------------------------------------------------------
\* The calls up to the k-th that came back with a text.
Replied(k) == {n \in 1..k : calls[n] # NoReply}

(***************************************************************************)
(* The conversation a retry sends is one the providers accept and the      *)
(* model can act on: the user's document first, then a reply and a         *)
(* correction by turns.  The k-th correction is about the error of the     *)
(* k-th attempt, and the reply above it is the last one there was by then: *)
(* that attempt's own, unless its call raised before there was a text.     *)
(***************************************************************************)
CorrectionsFollowReplies ==
    /\ messages # <<>> => messages[1] = Image
    /\ pc = "call" => Len(messages) = 2 * attempt - 1
    /\ \A k \in Attempts : 2 * k <= Len(messages) =>
          /\ \E n \in Replied(k) :
                /\ messages[2 * k] = Assistant(n)
                /\ \A m \in Replied(k) : m <= n
          /\ messages[2 * k + 1] = Correction(k)

(***************************************************************************)
(* "Retry up to MAX_RETRIES times": the model is called at most so often,  *)
(* and not again after a reply that is valid, which is what is returned;   *)
(* the loop gives up early only on an exception it does not catch.         *)
(***************************************************************************)
\* An object the schemas take, however it is wrapped.
IsValid(reply) == reply.form \in ObjectForms /\ ValidInvoice(reply.fields)

ValidReplyIsReturned ==
    /\ Len(calls) <= MAX_RETRIES
    /\ \A n \in 1..Len(calls) : IsValid(calls[n]) =>
          /\ n = Len(calls)
          /\ returned = [data |-> ToData(calls[n].fields), error |-> None]
    /\ returned # None /\ returned.data # None =>
          calls # <<>> /\ IsValid(calls[Len(calls)])

(***************************************************************************)
(* The amounts that go on to the risk policy add up, exactly and not only  *)
(* after rounding: the total is within 5.5 cents of subtotal and tax, and  *)
(* each item's within 2.5 cents of quantity times price.                   *)
(***************************************************************************)
AmountsAddUp ==
    returned # None /\ returned.data # None =>
        LET fields == calls[Len(calls)].fields
        IN  /\ 10 * Distance(fields.total, fields.subtotal + fields.tax) <= 55 * Cent
            /\ \A item \in fields.line_items :
                  Distance(10 * item.total, item.quantity * item.unit_price) <= 25 * Cent

(***************************************************************************)
(* An extraction that failed never leads to a payment or to a review: with *)
(* a message the graph goes to dead_letter, and with an exception that has *)
(* none it takes the edge to decide, which has to reject it.               *)
(***************************************************************************)
Extracted(i) ==
    [EmptyState EXCEPT !.inv = i, !.data = returned.data, !.error = returned.error]

FailureIsDeadLettered ==
    \A i \in Invoices : returned # None /\ returned.data = None =>
        \/ RouteAfterExtract(Extracted(i)) = "dead_letter"
        \/ RouteAfterDecide(DecideNode(Extracted(i))) = "dead_letter"

\* The loop implements the extract node the pipeline is checked with.
ImplementsExtractNode ==
    \A i \in Invoices : returned # None =>
        Extracted(i) \in ExtractNode([EmptyState EXCEPT !.inv = i])

\* Every extraction ends, whatever the model says.
ExtractionReturns == <>(pc = "done")
=============================================================================
