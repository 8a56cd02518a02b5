-------------------------- MODULE ExtractionProofs --------------------------
(***************************************************************************)
(* Proofs about the extraction loop, for every number of attempts and      *)
(* everything the model may say.                                           *)
(***************************************************************************)
EXTENDS ExtractionInvariant, TLAPS

-----------------------------------------------------------------------------
(***************************************************************************)
(* Replies, messages and what is returned.                                 *)
(***************************************************************************)
\* An object that is accepted carries fields, and amounts that are not negative.
LEMMA ReplyFacts ==
    ASSUME NEW reply \in Replies
    PROVE  /\ reply # NoReply
           /\ Accepted(reply) <=> IsValid(reply)
           /\ IsValid(reply) => /\ reply.fields \in Fields
                                /\ ToData(reply.fields) \in InvoiceData
<1>1. reply \in Reply
    BY ExtractionAssumption
<1>2. reply # NoReply
    BY <1>1 DEF Reply, NoReply, ObjectForms, OtherForms
<1>3. Accepted(reply) <=> IsValid(reply)
    BY DEF Accepted, IsValid
<1>4. ASSUME IsValid(reply)
      PROVE  reply.fields \in Fields
    BY <1>1, <1>4 DEF IsValid, Reply, ObjectForms, OtherForms
<1>5. ASSUME IsValid(reply)
      PROVE  ToData(reply.fields) \in InvoiceData
    BY <1>4, <1>5 DEF IsValid, ValidInvoice, Fields, ToData, InvoiceData
<1> QED
    BY <1>2, <1>3, <1>4, <1>5

LEMMA NoReplyIsInvalid == ~IsValid(NoReply)
BY DEF IsValid, NoReply, ObjectForms

\* A call adds one outcome and leaves the ones before it alone.
LEMMA CalledFacts ==
    ASSUME TypeOK, NEW reply \in Replies \cup {NoReply}, Called(reply)
    PROVE  /\ calls' \in Seq(Replies \cup {NoReply})
           /\ Len(calls') = Len(calls) + 1
           /\ calls' # <<>>
           /\ calls'[Len(calls) + 1] = reply
           /\ \A n \in 1..Len(calls) : calls'[n] = calls[n]
BY DEF TypeOK, Called

\* The outcomes of earlier calls stay what they were.
LEMMA RepliedIsKept ==
    ASSUME TypeOK, NEW reply \in Replies \cup {NoReply}, Called(reply),
           NEW k \in Nat, k <= Len(calls)
    PROVE  Replied(k)' = Replied(k)
<1>1. \A n \in 1..k : calls'[n] = calls[n]
    BY CalledFacts DEF TypeOK
<1> QED
    BY <1>1 DEF Replied
-----------------------------------------------------------------------------
(***************************************************************************)
(* The invariant is kept by every action.                                  *)
(***************************************************************************)
LEMMA InitEstablishesLoopInv == EInit => LoopInv
<1> SUFFICES ASSUME EInit PROVE LoopInv
    OBVIOUS
<1>1. TypeOK
    BY ExtractionAssumption DEF EInit, TypeOK, ExtractionPC, Attempts
<1>2. CallsAreCounted /\ LastOutcomesAreKept /\ NothingIsReturnedEarly
    BY DEF EInit, CallsAreCounted, LastOutcomesAreKept,
           NothingIsReturnedEarly, Looping
<1>3. SuccessIsValid /\ CorrectionsFollowReplies /\ ValidReplyIsReturned
    BY ExtractionAssumption
       DEF EInit, SuccessIsValid, CorrectionsFollowReplies,
           ValidReplyIsReturned, Attempts
<1> QED
    BY <1>1, <1>2, <1>3 DEF LoopInv

LEMMA PrepareKeepsLoopInv == ASSUME LoopInv, Prepare PROVE LoopInv'
<1> USE DEF Prepare, loop
<1>1. TypeOK'
    BY DEF LoopInv, TypeOK, ExtractionPC
<1>2. CallsAreCounted' /\ LastOutcomesAreKept' /\ NothingIsReturnedEarly'
    BY DEF LoopInv, TypeOK, CallsAreCounted, LastOutcomesAreKept,
           NothingIsReturnedEarly, Looping
<1>3. SuccessIsValid' /\ CorrectionsFollowReplies' /\ ValidReplyIsReturned'
    BY DEF LoopInv, SuccessIsValid, CorrectionsFollowReplies,
           ValidReplyIsReturned, Replied
<1> QED
    BY <1>1, <1>2, <1>3 DEF LoopInv

\* Before the first call, or between two, an exception returns its message.
LEMMA RaiseKeepsLoopInv ==
    ASSUME LoopInv, pc # "done", pc # "call", NEW error \in Texts,
           Raise(error), UNCHANGED <<loop, calls>>
    PROVE  LoopInv'
<1> USE DEF Raise, Return, loop
<1>0. returned' = [data |-> None, error |-> error] /\ error # None
    BY ExtractionAssumption
<1>1. TypeOK'
    BY DEF LoopInv, TypeOK, ExtractionPC, Update, Errors
<1>2. CallsAreCounted' /\ LastOutcomesAreKept' /\ NothingIsReturnedEarly'
    BY DEF LoopInv, CallsAreCounted, LastOutcomesAreKept,
           NothingIsReturnedEarly, Looping
<1>3. SuccessIsValid'
    BY <1>0 DEF SuccessIsValid
<1>4. CorrectionsFollowReplies'
  <2>1. \A k : Replied(k)' = Replied(k)
      BY DEF Replied
  <2> QED
      BY <2>1 DEF LoopInv, CorrectionsFollowReplies
<1>5. ValidReplyIsReturned'
  <2>1. \A n \in 1..Len(calls) : ~IsValid(calls[n])
      BY DEF LoopInv, NothingIsReturnedEarly
  <2>2. Len(calls) <= MAX_RETRIES
      BY DEF LoopInv, ValidReplyIsReturned
  <2>3. calls' = calls /\ returned'.data = None
      BY <1>0
  <2> QED
      BY <2>1, <2>2, <2>3 DEF ValidReplyIsReturned
<1> QED
    BY <1>1, <1>2, <1>3, <1>4, <1>5 DEF LoopInv

\* The conversation grows by the last reply there was and the last error.
LEMMA ComposeKeepsLoopInv == ASSUME LoopInv, Compose PROVE LoopInv'
<1> USE DEF Compose
<1>1. /\ calls' = calls /\ attempt' = attempt /\ raw_response' = raw_response
      /\ last_error' = last_error /\ returned' = returned
      /\ pc = "compose" /\ pc' = "call"
      /\ \A k : Replied(k)' = Replied(k)
    BY DEF Replied
<1>2. /\ messages' \in Seq(Message)
      /\ Len(messages') = 2 * attempt - 1
      /\ messages'[1] = Image
  <2>1. CASE attempt = 1
      BY <2>1 DEF Message, Image
  <2>2. CASE attempt # 1
    <3>1. /\ messages \in Seq(Message) /\ Len(messages) = 2 * attempt - 3
          /\ messages[1] = Image
          /\ attempt \in Attempts /\ attempt > 1
        BY <2>2 DEF LoopInv, TypeOK, CallsAreCounted, CorrectionsFollowReplies,
                    Attempts
    <3>2. /\ Assistant(raw_response) \in Message
          /\ Correction(last_error) \in Message
      <4>1. raw_response \in Attempts /\ last_error \in Attempts
          BY <2>2, <3>1, ExtractionAssumption
             DEF LoopInv, TypeOK, LastOutcomesAreKept, Looping, Attempts
      <4> QED
          BY <4>1 DEF Message, Assistant, Correction
    <3>3. messages' = messages \o <<Assistant(raw_response), Correction(last_error)>>
        BY <2>2
    <3>4. messages' \in Seq(Message)
        BY <3>1, <3>2, <3>3
    <3>5. Len(messages') = 2 * attempt - 1 /\ messages'[1] = Image
        BY <3>1, <3>3 DEF Attempts
    <3> QED
        BY <3>4, <3>5
  <2> QED
      BY <2>1, <2>2
<1>3. TypeOK'
    BY <1>1, <1>2 DEF LoopInv, TypeOK, ExtractionPC
<1>4. CallsAreCounted' /\ LastOutcomesAreKept'
    BY <1>1, <1>2 DEF LoopInv, TypeOK, CallsAreCounted, LastOutcomesAreKept,
                      Looping, Attempts
<1>5. NothingIsReturnedEarly' /\ SuccessIsValid' /\ ValidReplyIsReturned'
    BY <1>1 DEF LoopInv, NothingIsReturnedEarly, SuccessIsValid,
                ValidReplyIsReturned
<1>6. CorrectionsFollowReplies'
  <2> SUFFICES ASSUME NEW k \in Attempts, 2 * k <= Len(messages')
               PROVE  /\ \E n \in Replied(k) :
                            /\ messages'[2 * k] = Assistant(n)
                            /\ \A m \in Replied(k) : m <= n
                      /\ messages'[2 * k + 1] = Correction(k)
      BY <1>1, <1>2 DEF CorrectionsFollowReplies, Attempts
  <2>1. /\ attempt > 1 /\ attempt \in Nat /\ k \in Nat /\ k >= 1
        /\ messages \in Seq(Message) /\ Len(messages) = 2 * attempt - 3
        /\ messages' = messages \o <<Assistant(raw_response), Correction(last_error)>>
        /\ raw_response # None /\ last_error = attempt - 1
        /\ Len(calls) = attempt - 1
      BY <1>2 DEF LoopInv, TypeOK, CallsAreCounted, LastOutcomesAreKept,
                  Looping, Attempts
  <2>2. CASE k = attempt - 1
    <3>1. /\ raw_response \in Replied(k)
          /\ \A m \in Replied(k) : m <= raw_response
        BY <1>1, <2>1, <2>2 DEF LoopInv, LastOutcomesAreKept, Looping
    <3>2. /\ messages'[2 * k] = Assistant(raw_response)
          /\ messages'[2 * k + 1] = Correction(k)
        BY <2>1, <2>2
    <3> QED
        BY <3>1, <3>2
  <2>3. CASE k < attempt - 1
    <3>1. /\ messages'[2 * k] = messages[2 * k]
          /\ messages'[2 * k + 1] = messages[2 * k + 1]
          /\ 2 * k <= Len(messages)
        BY <2>1, <2>3
    <3> QED
        BY <3>1 DEF LoopInv, CorrectionsFollowReplies
  <2> QED
      BY <1>2, <2>1, <2>2, <2>3
<1> QED
    BY <1>3, <1>4, <1>5, <1>6 DEF LoopInv

(***************************************************************************)
(* What a call adds, whatever the loop does next: the conversation stays   *)
(* as it is, and what was replied before is as it was.                     *)
(***************************************************************************)
LEMMA CallKeepsConversation ==
    ASSUME LoopInv, NEW reply \in Replies \cup {NoReply}, Called(reply),
           messages' = messages, pc' # "call"
    PROVE  CorrectionsFollowReplies'
<1>1. \A k \in Attempts : 2 * k <= Len(messages) => Replied(k)' = Replied(k)
    BY RepliedIsKept DEF LoopInv, TypeOK, CallsAreCounted, Attempts
<1> QED
    BY <1>1 DEF LoopInv, CorrectionsFollowReplies

\* A call that settled nothing leads to the next attempt or to the ValueError.
LEMMA GoOnKeepsLoopInv ==
    ASSUME LoopInv, NEW reply \in Replies \cup {NoReply}, Called(reply),
           ~IsValid(reply), GoOn, messages' = messages,
           \/ reply = NoReply /\ raw_response' = raw_response
           \/ reply # NoReply /\ raw_response' = attempt
    PROVE  LoopInv'
<1> USE DEF Called, GoOn, Raise, Return
<1>1. /\ Len(calls) = attempt - 1 /\ Len(messages) = 2 * attempt - 1
      /\ attempt \in 1..MAX_RETRIES /\ MAX_RETRIES \in Nat /\ returned = None
      /\ \A n \in 1..Len(calls) : ~IsValid(calls[n])
      /\ Len(messages) <= 2 * Len(calls) + 1
    BY ExtractionAssumption
       DEF LoopInv, TypeOK, CallsAreCounted, NothingIsReturnedEarly, Looping,
           CorrectionsFollowReplies, Attempts
<1>2. /\ calls' \in Seq(Replies \cup {NoReply}) /\ Len(calls') = attempt
      /\ calls'[attempt] = reply
      /\ \A n \in 1..Len(calls) : calls'[n] = calls[n]
    BY <1>1, CalledFacts DEF LoopInv
<1>3. \A n \in 1..Len(calls') : ~IsValid(calls'[n])
    BY <1>1, <1>2
<1>4. /\ last_error' = attempt
      /\ \/ attempt < MAX_RETRIES /\ attempt' = attempt + 1
            /\ pc' = "compose" /\ returned' = None
         \/ attempt' = attempt /\ pc' = "done"
            /\ returned' = [data |-> None, error |-> "message"]
    BY <1>1
<1>5. "message" \in Texts /\ "message" # None
    BY ExtractionAssumption DEF Texts
<1>6. TypeOK'
  <2>1. pc' \in ExtractionPC /\ attempt' \in Attempts /\ last_error' \in Attempts
      BY <1>1, <1>4 DEF ExtractionPC, Attempts
  <2>2. returned' \in Update \cup {None}
      BY <1>4, <1>5 DEF Update, Errors
  <2> QED
      BY <1>1, <1>2, <2>1, <2>2 DEF LoopInv, TypeOK, Attempts
<1>7. CallsAreCounted'
  <2>1. CASE pc' = "compose" /\ attempt' = attempt + 1
      BY <1>1, <1>2, <2>1 DEF CallsAreCounted, Looping
  <2>2. CASE pc' = "done"
      BY <1>1, <1>2, <2>2 DEF CallsAreCounted, Looping
  <2> QED
      BY <1>4, <2>1, <2>2
<1>8. LastOutcomesAreKept'
  <2>1. \A n : n \in Replied(Len(calls))' <=>
               \/ n \in Replied(Len(calls))
               \/ n = attempt /\ reply # NoReply
      BY <1>1, <1>2 DEF Replied
  <2>2. \A n \in Replied(Len(calls)) : n \in Int /\ n <= attempt
      BY <1>1 DEF Replied
  <2>3. ASSUME reply = NoReply, raw_response # None
        PROVE  /\ raw_response \in Replied(Len(calls))'
               /\ \A m \in Replied(Len(calls))' : m <= raw_response
      BY <2>1, <2>3 DEF LoopInv, LastOutcomesAreKept, Looping, Called
  <2>4. ASSUME reply # NoReply
        PROVE  /\ attempt \in Replied(Len(calls))'
               /\ \A m \in Replied(Len(calls))' : m <= attempt
      BY <1>1, <2>1, <2>2, <2>4
  <2>5. Len(calls') = attempt /\ (Looping' => last_error' = attempt' - 1)
      BY <1>1, <1>2, <1>4 DEF Looping
  <2> QED
      BY <1>1, <2>3, <2>4, <2>5 DEF LastOutcomesAreKept
<1>9. NothingIsReturnedEarly' /\ SuccessIsValid'
    BY <1>3, <1>4, <1>5 DEF NothingIsReturnedEarly, SuccessIsValid
<1>10. CorrectionsFollowReplies'
    BY <1>4, CallKeepsConversation
<1>11. ValidReplyIsReturned'
    BY <1>1, <1>2, <1>3, <1>4 DEF ValidReplyIsReturned
<1> QED
    BY <1>6, <1>7, <1>8, <1>9, <1>10, <1>11 DEF LoopInv

\* A call that settles the run: a valid reply, or an exception that leaves.
LEMMA LastCallKeepsLoopInv ==
    ASSUME LoopInv, NEW reply \in Replies \cup {NoReply}, Called(reply),
           NEW data, NEW error, Return(data, error),
           \/ IsValid(reply) /\ data = ToData(reply.fields) /\ error = None
           \/ ~IsValid(reply) /\ data = None /\ error \in Texts,
           UNCHANGED <<attempt, messages, last_error>>,
           raw_response' \in {attempt, raw_response}
    PROVE  LoopInv'
<1> USE DEF Called, Return
<1>1. /\ Len(calls) = attempt - 1 /\ Len(messages) <= 2 * Len(calls) + 1
      /\ attempt \in 1..MAX_RETRIES /\ MAX_RETRIES \in Nat
      /\ Len(messages) \in Nat
      /\ \A n \in 1..Len(calls) : ~IsValid(calls[n])
    BY ExtractionAssumption
       DEF LoopInv, TypeOK, CallsAreCounted, NothingIsReturnedEarly, Looping,
           Attempts
<1>2. /\ calls' \in Seq(Replies \cup {NoReply}) /\ Len(calls') = attempt
      /\ calls'[attempt] = reply /\ calls' # <<>>
      /\ \A n \in 1..Len(calls) : calls'[n] = calls[n]
    BY <1>1, CalledFacts DEF LoopInv
<1>3. pc' = "done" /\ returned' = [data |-> data, error |-> error]
    OBVIOUS
<1>4. IsValid(reply) => data \in InvoiceData
    BY ReplyFacts, NoReplyIsInvalid
<1>5. TypeOK'
  <2>1. returned' \in Update
      BY <1>3, <1>4 DEF Update, Errors
  <2> QED
      BY <1>2, <1>3, <2>1 DEF LoopInv, TypeOK, ExtractionPC
<1>6. CallsAreCounted' /\ LastOutcomesAreKept' /\ NothingIsReturnedEarly'
    BY <1>1, <1>2, <1>3
       DEF CallsAreCounted, LastOutcomesAreKept, NothingIsReturnedEarly, Looping
<1>7. SuccessIsValid'
  <2>1. error = None => IsValid(reply)
      BY ExtractionAssumption
  <2> QED
      BY <1>1, <1>2, <1>3, <2>1 DEF SuccessIsValid
<1>8. CorrectionsFollowReplies'
    BY <1>3, CallKeepsConversation
<1>9. ValidReplyIsReturned'
  <2>1. \A n \in 1..Len(calls') : IsValid(calls'[n]) => n = attempt
      BY <1>1, <1>2
  <2> QED
      BY <1>1, <1>2, <1>3, <2>1 DEF ValidReplyIsReturned
<1> QED
    BY <1>5, <1>6, <1>7, <1>8, <1>9 DEF LoopInv

\* Each way a call can end is one of the two above.
LEMMA AnswerKeepsLoopInv ==
    ASSUME LoopInv, NEW reply \in Replies,
           Accept(reply) \/ Reject(reply) \/ Choke(reply)
    PROVE  LoopInv'
<1> USE DEF Answer
<1>1. CASE Accept(reply)
    BY <1>1, ReplyFacts, LastCallKeepsLoopInv DEF Accept
<1>2. CASE Reject(reply)
    BY <1>2, ReplyFacts, GoOnKeepsLoopInv DEF Reject
<1>3. CASE Choke(reply)
  <2>1. ~IsValid(reply) /\ "message" \in Texts
      BY <1>3 DEF Choke, IsValid, ObjectForms, Texts
  <2> QED
      BY <1>3, <2>1, LastCallKeepsLoopInv DEF Choke, Raise
<1> QED
    BY <1>1, <1>2, <1>3

LEMMA RaisingCallKeepsLoopInv == ASSUME LoopInv, Break \/ Refuse PROVE LoopInv'
<1>1. CASE Break
    BY <1>1, NoReplyIsInvalid, GoOnKeepsLoopInv DEF Break
<1>2. CASE Refuse
    BY <1>2, NoReplyIsInvalid, LastCallKeepsLoopInv DEF Refuse, Raise, loop
<1> QED
    BY <1>1, <1>2

LEMMA StutterKeepsLoopInv == ASSUME LoopInv, UNCHANGED evars PROVE LoopInv'
<1> USE DEF evars
<1>1. TypeOK' /\ CallsAreCounted' /\ NothingIsReturnedEarly'
    BY DEF LoopInv, TypeOK, CallsAreCounted, NothingIsReturnedEarly, Looping
<1>2. \A k : Replied(k)' = Replied(k)
    BY DEF Replied
<1>3. LastOutcomesAreKept' /\ CorrectionsFollowReplies'
    BY <1>2 DEF LoopInv, LastOutcomesAreKept, CorrectionsFollowReplies, Looping
<1>4. SuccessIsValid' /\ ValidReplyIsReturned'
    BY DEF LoopInv, SuccessIsValid, ValidReplyIsReturned
<1> QED
    BY <1>1, <1>3, <1>4 DEF LoopInv

LEMMA NextKeepsLoopInv == LoopInv /\ [ENext]_evars => LoopInv'
<1> SUFFICES ASSUME LoopInv, [ENext]_evars PROVE LoopInv'
    OBVIOUS
<1>1. CASE Prepare
    BY <1>1, PrepareKeepsLoopInv
<1>2. CASE PrepareFails \/ ComposeFails
  <2>1. "message" \in Texts
      BY DEF Texts
  <2> QED
      BY <1>2, <2>1, RaiseKeepsLoopInv DEF PrepareFails, ComposeFails
<1>3. CASE Compose
    BY <1>3, ComposeKeepsLoopInv
<1>4. CASE \E reply \in Replies : Accept(reply) \/ Reject(reply) \/ Choke(reply)
    BY <1>4, AnswerKeepsLoopInv
<1>5. CASE Break \/ Refuse
    BY <1>5, RaisingCallKeepsLoopInv
<1>6. CASE UNCHANGED evars
    BY <1>6, StutterKeepsLoopInv
<1> QED
    BY <1>1, <1>2, <1>3, <1>4, <1>5, <1>6 DEF ENext
-----------------------------------------------------------------------------
(***************************************************************************)
(* The extraction's invariant holds in every reachable state.              *)
(***************************************************************************)
THEOREM Invariance == ESpec => []LoopInv
BY InitEstablishesLoopInv, NextKeepsLoopInv, PTL DEF ESpec

\* The loop's variables keep their types, whatever the model says.
THEOREM TypeCorrectness == ESpec => []TypeOK
<1>1. LoopInv => TypeOK
    BY DEF LoopInv
<1> QED
    BY <1>1, Invariance, PTL

(***************************************************************************)
(* The conversation is the document, then a reply and a correction by      *)
(* turns, each correction about its own attempt.                           *)
(***************************************************************************)
THEOREM ConversationsAreWellFormed == ESpec => []CorrectionsFollowReplies
<1>1. LoopInv => CorrectionsFollowReplies
    BY DEF LoopInv
<1> QED
    BY <1>1, Invariance, PTL

(***************************************************************************)
(* The model is called at most MAX_RETRIES times, the first valid reply is *)
(* what is returned, and nothing else is.                                  *)
(***************************************************************************)
THEOREM ValidRepliesAreReturned == ESpec => []ValidReplyIsReturned
<1>1. LoopInv => ValidReplyIsReturned
    BY DEF LoopInv
<1> QED
    BY <1>1, Invariance, PTL
-----------------------------------------------------------------------------
(***************************************************************************)
(* Rounding and tolerance: what the validators let through is right within *)
(* the tolerance and half a cent, for every amount.                        *)
(***************************************************************************)
LEMMA RoundedToCents ==
    ASSUME NEW n \in Int, NEW m \in Int,
           Distance(m, Cent * RoundHalfEven(n, Cent)) <= 5 * Cent
    PROVE  10 * Distance(m, n) <= 55 * Cent
BY DEF RoundHalfEven, Distance, Cent

LEMMA RoundedProduct ==
    ASSUME NEW n \in Int, NEW m \in Int,
           Distance(m, Cent * RoundHalfEven(n, 10 * Cent)) <= 2 * Cent
    PROVE  Distance(10 * m, n) <= 25 * Cent
BY DEF RoundHalfEven, Distance, Cent

\* What the schemas accept adds up.
LEMMA ValidAmounts ==
    ASSUME NEW fields \in Fields, ValidInvoice(fields)
    PROVE  /\ 10 * Distance(fields.total, fields.subtotal + fields.tax) <= 55 * Cent
           /\ \A item \in fields.line_items :
                 Distance(10 * item.total, item.quantity * item.unit_price) <= 25 * Cent
<1>1. /\ fields.total \in Int /\ fields.subtotal + fields.tax \in Int
      /\ fields.line_items \subseteq LineItem
    BY DEF Fields
<1>2. 10 * Distance(fields.total, fields.subtotal + fields.tax) <= 55 * Cent
    BY <1>1, RoundedToCents DEF ValidInvoice
<1>3. ASSUME NEW item \in fields.line_items
      PROVE  Distance(10 * item.total, item.quantity * item.unit_price) <= 25 * Cent
  <2>1. item.total \in Int /\ item.quantity * item.unit_price \in Int
      BY <1>1 DEF LineItem
  <2>2. Distance(item.total,
                 Cent * RoundHalfEven(item.quantity * item.unit_price, 10 * Cent))
            <= 2 * Cent
      BY <1>3 DEF ValidInvoice, CheckTotal
  <2> QED
      BY <2>1, <2>2, RoundedProduct
<1> QED
    BY <1>2, <1>3

(***************************************************************************)
(* Amounts that go on to the risk policy add up, for every reply and with  *)
(* everything the validators round.                                        *)
(***************************************************************************)
THEOREM AmountsThatAddUp == ESpec => []AmountsAddUp
<1>1. LoopInv => AmountsAddUp
  <2> SUFFICES ASSUME LoopInv, returned # None /\ returned.data # None
               PROVE  AmountsAddUp
      BY DEF AmountsAddUp
  <2> DEFINE reply == calls[Len(calls)]
  <2>1. reply \in Replies \cup {NoReply} /\ IsValid(reply)
      BY DEF LoopInv, TypeOK, ValidReplyIsReturned
  <2>2. reply.fields \in Fields /\ ValidInvoice(reply.fields)
      BY <2>1, ReplyFacts, NoReplyIsInvalid DEF IsValid
  <2> QED
      BY <2>2, ValidAmounts DEF AmountsAddUp
<1> QED
    BY <1>1, Invariance, PTL

(***************************************************************************)
(* The loop implements the extract node the pipeline is proved with,       *)
(* provided that the pipeline's Data holds what the replies say.           *)
(***************************************************************************)
THEOREM ExtractNodeIsImplemented ==
    ASSUME \A reply \in Replies : IsValid(reply) => ToData(reply.fields) \in Data
    PROVE  ESpec => []ImplementsExtractNode
<1>1. LoopInv => ImplementsExtractNode
  <2> SUFFICES ASSUME LoopInv, returned # None, NEW i \in Invoices
               PROVE  Extracted(i) \in ExtractNode([EmptyState EXCEPT !.inv = i])
      BY DEF ImplementsExtractNode
  <2> DEFINE reply == calls[Len(calls)]
             begun == [EmptyState EXCEPT !.inv = i]
  <2>1. begun.inv # None
      BY GraphAssumption DEF EmptyState
  <2>2. Extracted(i) =
            [begun EXCEPT !.data = returned.data, !.error = returned.error]
      BY DEF Extracted, EmptyState
  <2>3. returned.error \in Errors
      BY DEF LoopInv, TypeOK, Update
  <2>4. CASE returned.error = None
    <3>1. reply \in Replies \cup {NoReply} /\ IsValid(reply)
        BY <2>4 DEF LoopInv, TypeOK, SuccessIsValid
    <3>2. returned.data = ToData(reply.fields) /\ reply \in Replies
        BY <2>4, <3>1, NoReplyIsInvalid
           DEF LoopInv, TypeOK, SuccessIsValid, ValidReplyIsReturned
    <3> QED
        BY <2>1, <2>2, <2>4, <3>1, <3>2 DEF ExtractNode
  <2>5. CASE returned.error # None
    <3>1. returned.data = None
        BY <2>5 DEF LoopInv, TypeOK, ValidReplyIsReturned
    <3>2. returned.error \in Texts
        BY <2>3, <2>5 DEF Errors
    <3> QED
        BY <2>1, <2>2, <3>1, <3>2 DEF ExtractNode
  <2> QED
      BY <2>4, <2>5
<1> QED
    BY <1>1, Invariance, PTL

(***************************************************************************)
(* A failed extraction goes to dead_letter, whatever exception ended it:   *)
(* the empty message of an exception is falsy, so such a failure passes    *)
(* route_after_extract as a success would, and only the missing data makes *)
(* decide_node reject it.                                                  *)
(***************************************************************************)
THEOREM FailuresAreDeadLettered == ESpec => []FailureIsDeadLettered
<1>1. FailureIsDeadLettered
  <2> SUFFICES ASSUME NEW i \in Invoices, returned # None, returned.data = None
               PROVE  \/ RouteAfterExtract(Extracted(i)) = "dead_letter"
                      \/ RouteAfterDecide(DecideNode(Extracted(i))) = "dead_letter"
      BY DEF FailureIsDeadLettered
  <2>1. CASE Truthy(returned.error)
    <3>1. Extracted(i).error = returned.error
        BY DEF Extracted, EmptyState
    <3> QED
        BY <2>1, <3>1 DEF RouteAfterExtract
  <2>2. CASE ~Truthy(returned.error)
    <3>1. Extracted(i).data = None
        BY DEF Extracted, EmptyState
    <3>2. DecideNode(Extracted(i)).decision = "reject"
        BY <3>1 DEF DecideNode, Extracted, EmptyState
    <3> QED
        BY <3>2 DEF RouteAfterDecide
  <2> QED
      BY <2>1, <2>2
<1> QED
    BY <1>1, PTL
=============================================================================
