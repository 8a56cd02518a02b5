------------------------------ MODULE Extraction ------------------------------
(***************************************************************************)
(* One run of extract_node over extract_invoice (app/graph/nodes.py,       *)
(* app/services/extraction.py): the conversation with the model, which is  *)
(* asked again, with its last reply and the error it caused, until a reply *)
(* is valid or MAX_RETRIES attempts have failed.                           *)
(*                                                                         *)
(* Replies and errors are known by the attempt they came from.  The run    *)
(* shares no state with any other, so it is a process of its own; Pipeline *)
(* sees its result as GraphNodes!ExtractNode.                              *)
(***************************************************************************)
EXTENDS GraphNodes, InvoiceSchema, Sequences

CONSTANTS
    MAX_RETRIES,
    Replies        \* what the model may say, of Reply

(***************************************************************************)
(* A reply by what the code makes of its text.  "bare", "fenced": a JSON   *)
(* object, perhaps in a code fence, of the right shape.  "prose": other    *)
(* text around it, which json.loads does not take.  "shapeless": an object *)
(* that lacks a field or has one of a wrong type.  "array": JSON but no    *)
(* object.  "huge": an amount beyond the decimal context's precision.      *)
(* "empty": the SDK's content is None.                                     *)
(***************************************************************************)
ObjectForms == {"bare", "fenced"}
OtherForms == {"prose", "shapeless", "array", "huge", "empty"}
Reply ==
    [form : ObjectForms, fields : Fields] \cup [form : OtherForms, fields : {None}]

\* A call that raised: there is no text.
NoReply == [form |-> "raised", fields |-> None]

ASSUME ExtractionAssumption ==
    /\ MAX_RETRIES \in Nat \ {0}
    /\ Replies \subseteq Reply
    /\ None \notin Int \cup Texts

VARIABLES
    pc,
    attempt,
    messages,        \* the conversation as the next call sends it
    raw_response,    \* the attempt whose text is bound; None when unbound
    last_error,      \* the attempt whose exception was caught last
    returned,        \* the update extract_node returns, None before
    calls            \* history: how each call to the model ended

evars == <<pc, attempt, messages, raw_response, last_error, returned, calls>>
loop == <<attempt, messages, raw_response, last_error>>

Update == [data : InvoiceData \cup {None}, error : Errors]
Image == [role |-> "user", about |-> 0]
Assistant(n) == [role |-> "assistant", about |-> n]
Correction(n) == [role |-> "user", about |-> n]   \* CORRECTION_PROMPT_TEMPLATE

EInit ==
    /\ pc = "prepare" /\ attempt = 1
    /\ messages = <<>> /\ raw_response = None /\ last_error = None
    /\ returned = None /\ calls = <<>>
-----------------------------------------------------------------------------
ToData(fields) ==
    [total |-> fields.total, vendor |-> fields.vendor, po |-> fields.po]

Return(data, error) ==
    /\ returned' = [data |-> data, error |-> error]
    /\ pc' = "done"

\* An exception leaves extract_invoice; extract_node keeps str(e), which may
\* be empty.
Raise(error) == Return(None, error)

\* The client is made and the document is read and rendered; a PDF that
\* cannot be rendered is sent as it is.
Prepare ==
    /\ pc = "prepare"
    /\ pc' = "compose"
    /\ UNCHANGED <<loop, returned, calls>>

\* No API key, an unknown provider, an unreadable file.
PrepareFails ==
    /\ pc = "prepare"
    /\ \E error \in Texts : Raise(error)
    /\ UNCHANGED <<loop, calls>>

\* Faulty variant: the correction is added, the reply it is about is not.
ComposeWithoutReply ==
    /\ pc = "compose"
    /\ messages' = IF attempt = 1 THEN <<Image>>
                   ELSE messages \o <<Correction(last_error)>>
    /\ pc' = "call"
    /\ UNCHANGED <<attempt, raw_response, last_error, returned, calls>>

\* The first attempt starts the conversation, a later one goes on with it.
Compose ==
    /\ pc = "compose"
    /\ attempt = 1 \/ raw_response # None
    /\ messages' = IF attempt = 1 THEN <<Image>>
                   ELSE messages \o <<Assistant(raw_response), Correction(last_error)>>
    /\ pc' = "call"
    /\ UNCHANGED <<attempt, raw_response, last_error, returned, calls>>

\* Faulty variant: the loop swallows the error and comes back.
ComposeTriesAgain ==
    /\ pc = "compose"
    /\ attempt > 1 /\ raw_response = None
    /\ UNCHANGED evars

\* raw_response is not bound yet: UnboundLocalError, outside the try.
ComposeFails ==
    /\ pc = "compose"
    /\ attempt > 1 /\ raw_response = None
    /\ Raise("message")
    /\ UNCHANGED <<loop, calls>>
-----------------------------------------------------------------------------
\* Faulty variant: the loop ends without the raise behind it.
GoOnSilently ==
    /\ last_error' = attempt
    /\ IF attempt < MAX_RETRIES
       THEN /\ attempt' = attempt + 1
            /\ pc' = "compose"
            /\ UNCHANGED returned
       ELSE Return(None, None) /\ UNCHANGED attempt

\* Faulty variant: one attempt too many.
GoOnOnceMore ==
    /\ last_error' = attempt
    /\ IF attempt <= MAX_RETRIES
       THEN /\ attempt' = attempt + 1
            /\ pc' = "compose"
            /\ UNCHANGED returned
       ELSE Raise("message") /\ UNCHANGED attempt

\* The except clause, and the ValueError after the last attempt.
GoOn ==
    /\ last_error' = attempt
    /\ IF attempt < MAX_RETRIES
       THEN /\ attempt' = attempt + 1
            /\ pc' = "compose"
            /\ UNCHANGED returned
       ELSE Raise("message") /\ UNCHANGED attempt

Called(reply) ==
    /\ pc = "call"
    /\ calls' = Append(calls, reply)

\* The model answers; the text is bound before it is parsed.
Answer(reply) == Called(reply) /\ raw_response' = attempt

\* Faulty variant: code fences are not stripped.
AcceptedBare(reply) == reply.form = "bare" /\ ValidInvoice(reply.fields)

Accepted(reply) == reply.form \in ObjectForms /\ ValidInvoice(reply.fields)

Accept(reply) ==
    /\ Answer(reply)
    /\ Accepted(reply)
    /\ Return(ToData(reply.fields), None)
    /\ UNCHANGED <<attempt, messages, last_error>>

\* JSONDecodeError or ValidationError.
Reject(reply) ==
    /\ Answer(reply)
    /\ reply.form \in ObjectForms \cup {"prose", "shapeless"} /\ ~Accepted(reply)
    /\ GoOn
    /\ UNCHANGED messages

\* TypeError of InvoiceExtracted(**list), InvalidOperation of quantize,
\* AttributeError of None.strip(): not among the exceptions that are caught.
Choke(reply) ==
    /\ Answer(reply)
    /\ reply.form \in {"array", "huge", "empty"}
    /\ Raise("message")
    /\ UNCHANGED <<attempt, messages, last_error>>

\* The call raises one of the exceptions the loop catches, before a text is
\* bound: json.JSONDecodeError or ValueError out of the SDK.
Break ==
    /\ Called(NoReply)
    /\ GoOn
    /\ UNCHANGED <<messages, raw_response>>

\* The call raises anything else: rate limit, timeout, no content.
Refuse ==
    /\ Called(NoReply)
    /\ \E error \in Texts : Raise(error)
    /\ UNCHANGED loop

ENext ==
    \/ Prepare \/ PrepareFails \/ Compose \/ ComposeFails
    \/ \E reply \in Replies : Accept(reply) \/ Reject(reply) \/ Choke(reply)
    \/ Break \/ Refuse

ESpec == EInit /\ [][ENext]_evars

\* The thread goes on; a call ends, if only by the SDK's timeout.
EFairSpec == ESpec /\ WF_evars(ENext)
=============================================================================
