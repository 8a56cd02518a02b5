CONSTANTS
    None = None
    Invoices = {i1}
    Jobs = {j1}
    Clicks = {c1, c2, c3}
    MaxTries = 2
    Faults = {"checkpoint"}
    Discipline = {"one_job", "serial_clicks", "click_in_review"}
    ResumeAt = {"extract", "human_approval"}
    SlackConfigured = FALSE
    Data <- PlainOrRisky
    RiskAmountThreshold = 500000
SPECIFICATION FairSpec
CHECK_DEADLOCK FALSE
INVARIANTS SessionsDoNotOverlap AuditEndsInStatus ExtractingHasAWorker
PROPERTIES FollowsLifecycle ExtractionEnds JobsEnd ClicksEnd
