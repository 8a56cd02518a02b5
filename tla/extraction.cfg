CONSTANTS
    None = None
    i1 = i1
    Invoices = {i1}
    MAX_RETRIES = 3
    Replies <- AllReplies
    Data <- ExactData
    SlackConfigured = FALSE
    RiskAmountThreshold = 10000000
SPECIFICATION EFairSpec
CHECK_DEADLOCK FALSE
INVARIANTS TypeOK CorrectionsFollowReplies ValidReplyIsReturned AmountsAddUp FailureIsDeadLettered ImplementsExtractNode
PROPERTY ExtractionReturns
