SPECIFICATION Spec
CONSTANTS
    d1 = d1
    d2 = d2
    p1 = p1
    Nobody = Nobody
    Drainers = {d1, d2}
    Rows = {1, 2, 3}
    Recipients = {p1}
    Recipient <- OneRecipient
    Linked = {1}
    Bypass = {1}
    ClaimBatch = 2
    RatePerHour = 2
    MaxRecipientFailures = 1
    MaxSendAttempts = 2
    MaxCrashes = 0
SYMMETRY Replicas
INVARIANTS
    TypeOK
    AtMostOneDelivery
    CancelledNeverReached
    PacedSends
    DeliveryRecorded
    ActionFollowsRow
