CONSTANTS
    None = None
    Invoices = {i1}
    Jobs = {j1}
    Clicks = {c1, c2}
    MaxTries = 2
    Faults = {"crash", "half_step", "exception", "checkpoint"}
    Discipline = {"one_job", "serial_clicks"}
    ResumeAt = {"extract", "human_approval"}
    SlackConfigured = FALSE
    Data <- PlainOrRisky
    RiskAmountThreshold = 500000
SPECIFICATION Spec
SYMMETRY Symmetry
CHECK_DEADLOCK FALSE
INVARIANTS TypeOK ReviewIsResumable RowTellsItsThread
PROPERTIES StatusChangesAreAudited PaymentIsKept
