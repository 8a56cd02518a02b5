------------------------- MODULE ExtractionInvariant -------------------------
(***************************************************************************)
(* The inductive invariant of the extraction loop behind its safety        *)
(* properties.                                                             *)
(***************************************************************************)
EXTENDS ExtractionProperties

Looping == pc \in {"compose", "call"}

\* Where the loop is says how often the model was called and how long the
\* conversation has become.
CallsAreCounted ==
    /\ pc = "prepare" => /\ attempt = 1 /\ messages = <<>> /\ calls = <<>>
                         /\ raw_response = None
    /\ Looping => Len(calls) = attempt - 1
    /\ pc = "compose" /\ attempt = 1 => messages = <<>>
    /\ pc = "compose" /\ attempt > 1 => Len(messages) = 2 * attempt - 3
    /\ Len(messages) <= 2 * Len(calls) + 1

\* In the loop, the text that is bound is the last one a call returned, and
\* the error is the last attempt's.
LastOutcomesAreKept ==
    Looping =>
        /\ attempt > 1 => last_error = attempt - 1
        /\ raw_response # None =>
              /\ raw_response \in Replied(Len(calls))
              /\ \A m \in Replied(Len(calls)) : m <= raw_response

\* The loop has nothing to return as long as no reply was valid.
NothingIsReturnedEarly ==
    pc # "done" =>
        /\ returned = None
        /\ \A n \in 1..Len(calls) : ~IsValid(calls[n])

\* What is returned without an error is what a valid reply said.
SuccessIsValid ==
    returned # None /\ returned.error = None =>
        calls # <<>> /\ IsValid(calls[Len(calls)])

LoopInv ==
    /\ TypeOK
    /\ CallsAreCounted
    /\ LastOutcomesAreKept
    /\ NothingIsReturnedEarly
    /\ SuccessIsValid
    /\ CorrectionsFollowReplies
    /\ ValidReplyIsReturned
=============================================================================
