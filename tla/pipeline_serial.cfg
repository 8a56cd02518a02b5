CONSTANTS
    None = None
    Invoices = {i1}
    Jobs = {j1}
    Clicks = {c1, c2, c3}
    MaxTries = 2
    Faults = {"crash"}
    Discipline = {"one_job", "serial_clicks"}
    ResumeAt = {"extract", "human_approval"}
    SlackConfigured = FALSE
    Data <- PlainOrRisky
    RiskAmountThreshold = 500000
SPECIFICATION Spec
SYMMETRY Symmetry
CHECK_DEADLOCK FALSE
INVARIANTS SinglePayment PaymentIsRemembered
