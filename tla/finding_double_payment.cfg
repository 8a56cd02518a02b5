CONSTANTS
    None = None
    Invoices = {i1}
    Jobs = {j1}
    Clicks = {}
    MaxTries = 2
    Faults = {"lost_answer"}
    Discipline = {"one_job"}
    ResumeAt = {"extract", "human_approval"}
    SlackConfigured = FALSE
    Data <- PlainOnly
    RiskAmountThreshold = 500000
SPECIFICATION Spec
CHECK_DEADLOCK FALSE
INVARIANT SinglePayment
