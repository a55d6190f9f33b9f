SPECIFICATION Spec
CONSTANTS
    w1 = w1
    w2 = w2
    v1 = v1
    v2 = v2
    o1 = o1
    NoReply = NoReply
    Workers = {w1}
    Reviewers = {v1}
    Inboxes = {1}
    Drafts = {1}
    Decisions = {1, 2}
    Replies = {o1}
    Answers <- OneAnswer
    ClaimBatch = 1
    MaxAttempts = 1
    MaxIntents = 1
    MaxRevises = 1
    MaxRequeues = 0
INVARIANTS
    AnsweredHasNoOpenDraft
