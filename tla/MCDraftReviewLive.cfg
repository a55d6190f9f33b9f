SPECIFICATION FairSpec
CONSTANTS
    w1 = w1
    w2 = w2
    v1 = v1
    v2 = v2
    o1 = o1
    NoReply = NoReply
    Workers = {w1}
    Reviewers = {}
    Inboxes = {1}
    Drafts = {1, 2}
    Decisions = {1, 2}
    Replies = {o1}
    Answers <- OneAnswer
    ClaimBatch = 1
    MaxAttempts = 2
    MaxIntents = 2
    MaxRevises = 0
    MaxRequeues = 1
INVARIANTS
    OneOpenDraft
PROPERTIES
    ClaimedIsSettled
    LoneAnswerIsShown
