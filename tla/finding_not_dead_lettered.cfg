CONSTANTS
    None = None
    Invoices = {i1}
    Jobs = {j1}
    Clicks = {}
    MaxTries = 3
    Faults = {"exception"}
    Discipline = {"one_job"}
    ResumeAt = {"extract", "human_approval"}
    SlackConfigured = FALSE
    Data <- PlainOnly
    RiskAmountThreshold = 500000
SPECIFICATION FairSpec
CHECK_DEADLOCK FALSE
PROPERTY ExhaustedIsDeadLettered
