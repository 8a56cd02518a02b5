CONSTANTS
    None = None
    Invoices = {i1}
    Jobs = {j1, j2}
    Clicks = {}
    MaxTries = 1
    Faults = {}
    Discipline = {}
    ResumeAt = {"extract", "human_approval"}
    SlackConfigured = FALSE
    Data <- PlainOnly
    RiskAmountThreshold = 500000
SPECIFICATION Spec
CHECK_DEADLOCK FALSE
INVARIANT ClaimIsExclusive
