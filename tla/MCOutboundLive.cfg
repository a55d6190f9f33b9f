SPECIFICATION FairSpec
CONSTANTS
    d1 = d1
    d2 = d2
    p1 = p1
    Nobody = Nobody
    Drainers = {d1, d2}
    Rows = {1, 2}
    Recipients = {p1}
    Recipient <- OneRecipient
    Linked = {1}
    Bypass = {1, 2}
    ClaimBatch = 2
    RatePerHour = 1
    MaxRecipientFailures = 1
    MaxSendAttempts = 2
    MaxCrashes = 1
PROPERTIES
    KeepsDeliveryPromise
    NoStrandedRow
    ApprovedIsAnswered
