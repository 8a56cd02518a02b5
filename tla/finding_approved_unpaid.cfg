CONSTANTS
    None = None
    Invoices = {i1}
    Jobs = {j1}
    Clicks = {c1}
    MaxTries = 1
    Faults = {}
    Discipline = {"one_job", "serial_clicks", "click_in_review"}
    ResumeAt = {"extract"}
    SlackConfigured = FALSE
    Data <- RiskyOnly
    RiskAmountThreshold = 500000
SPECIFICATION Spec
CHECK_DEADLOCK FALSE
INVARIANT ApprovedIsPaid
