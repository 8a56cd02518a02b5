----------------------------- MODULE GraphNodes -----------------------------
(***************************************************************************)
(* The nodes and routing functions of the LangGraph pipeline               *)
(* (app/graph/nodes.py, app/graph/graph.py, app/graph/state.py) as         *)
(* operators on the graph state.  A node that depends on the outside world *)
(* (the LLM, Slack) is the set of states it can return.                    *)
(*                                                                         *)
(*            extract --> decide --> notify --> human_approval             *)
(*               |          |  \                  |        |               *)
(*               v          v   `---> execute <---'        |               *)
(*            dead_letter <-+---------------(rejected)-----'               *)
(***************************************************************************)
EXTENDS InvoiceModel, RiskPolicy

CONSTANTS
    Invoices,          \* invoice ids
    Data,              \* what a successful extraction can return
    SlackConfigured    \* settings.slack_bot_token is set

END == "END"
Nodes == {"extract", "decide", "notify", "human_approval", "execute",
          "dead_letter"}
HumanActions == {"approve", "reject"}

ASSUME GraphAssumption ==
    /\ Data \subseteq InvoiceData
    /\ None \notin Data
    /\ None \notin Invoices \cup HumanActions \cup InvoiceStatus \cup DecisionOutcome
    /\ SlackConfigured \in BOOLEAN

(***************************************************************************)
(* InvoiceState, the fields control depends on.  The worker's input sets   *)
(* invoice_id and file_path together, so `inv' stands for both; a missing  *)
(* key is None.  An error is None, the empty string (str(e) of an          *)
(* exception without a message) or a message.                              *)
(***************************************************************************)
Texts == {"", "message"}
Errors == {None} \cup Texts
InvoiceState(Refs) ==
    [inv      : Invoices \cup {None},
     data     : Data \cup {None},
     error    : Errors,
     decision : DecisionOutcome \cup {None},
     ts       : {None, "mock", "posted"},
     human    : HumanActions \cup {None},
     ref      : Refs \cup {None}]

EmptyState ==
    [inv |-> None, data |-> None, error |-> None, decision |-> None,
     ts |-> None, human |-> None, ref |-> None]

Truthy(error) == error \notin {None, ""}
-----------------------------------------------------------------------------
(***************************************************************************)
(* extract_node: every exception of the extraction ends up in the state.   *)
(* Without a file path the KeyError is such an exception.                  *)
(***************************************************************************)
ExtractNode(st) ==
    LET read   == IF st.inv = None THEN {} ELSE Data
        failed == IF st.inv = None THEN {"message"} ELSE Texts
    IN  {[st EXCEPT !.data = d, !.error = None] : d \in read}
        \cup {[st EXCEPT !.data = None, !.error = e] : e \in failed}

\* Faulty variant: missing data read as {}, without a total and a vendor.
DecideNodeWithDefaults(st) ==
    [st EXCEPT !.decision =
        IF Truthy(st.error) THEN "reject"
        ELSE IF st.data = None THEN "auto_approve"
        ELSE RiskDecision(st.data)]

DecideNode(st) ==
    [st EXCEPT !.decision =
        IF Truthy(st.error) \/ st.data = None
        THEN "reject"
        ELSE RiskDecision(st.data)]

(***************************************************************************)
(* send_approval_request.  extract_node stored the amount with             *)
(* model_dump(mode="json"), which turns a Decimal into a string, and the   *)
(* message formats it with ",.2f", which raises ValueError on a string.    *)
(***************************************************************************)
AmountIsString(data) == data # None
SendApprovalRequest(data) ==
    IF ~SlackConfigured THEN {"mock"}
    ELSE IF AmountIsString(data) THEN {None}
    ELSE {None, "posted"}

\* notify_node swallows the exception; nothing downstream looks at `error'.
NotifyNode(st) == {[st EXCEPT !.ts = ts] : ts \in SendApprovalRequest(st.data)}

\* Faulty variant: pays without looking for a reference in the state.
ExecuteNodeAgain(st, new) == [st EXCEPT !.ref = new]

\* execute_node reuses the reference in the state, else it pays under `new'.
ExecuteNode(st, new) == [st EXCEPT !.ref = IF st.ref = None THEN new ELSE st.ref]
-----------------------------------------------------------------------------
RouteAfterExtract(st) == IF Truthy(st.error) THEN "dead_letter" ELSE "decide"

\* Faulty variant: a rejected extraction is tried again in the same run.
RouteAfterDecideRetries(st) ==
    IF st.decision = "needs_review" THEN "notify"
    ELSE IF st.decision = "reject" THEN "extract"
    ELSE "execute"

RouteAfterDecide(st) ==
    IF st.decision = "needs_review" THEN "notify"
    ELSE IF st.decision = "reject" THEN "dead_letter"
    ELSE "execute"

\* Faulty variant: any answer counts as an approval.
RouteAfterAnyAnswer(st) == IF st.human # None THEN "execute" ELSE "dead_letter"

RouteAfterHuman(st) == IF st.human = "approve" THEN "execute" ELSE "dead_letter"

\* interrupt_before: the run returns to its caller in front of these nodes.
InterruptBefore == {"human_approval"}
=============================================================================
