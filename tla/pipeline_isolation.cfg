CONSTANTS
    None = None
    Invoices = {i1, i2}
    Jobs = {j1, j2}
    Clicks = {c1, c2}
    MaxTries = 1
    Faults = {}
    Discipline = {"one_job"}
    ResumeAt = {"extract", "human_approval"}
    SlackConfigured = TRUE
    Data <- PlainOrRisky
    RiskAmountThreshold = 500000
SPECIFICATION Spec
SYMMETRY Symmetry
CHECK_DEADLOCK FALSE
INVARIANTS PaymentIsAuthorised ThreadIsOwn ReferencesAreIssued
