SPECIFICATION FounderFairSpec

CONSTANTS
    Parts = {"meeting", "schedule", "surface", "feed"}
\* Meeting
    Meetings = {m1}
    Callers = {w1, w2}
    Slots = {s1, s2}
    NoSlot = NoSlot
    MaxFaults = 2
    MaxAnswers = 4
\* ScheduleWorker
    Replicas = {w1}
    OneShots = {}
    Recurring = {series}
    CustomerMessages = {mail}
    Attempts = 2
    MaxTurns = 2
    MaxMishaps = 1
\* FounderSurface
    Questions = {q1}
    Drafts = {draft}
    TypedAnswers = {"yes"}
    Buttons = {"edit", "revise"}
    NoCard = NoCard
    MaxUpdates = 2
    MaxTroubles = 1
\* AppFeed
    Phones = {"phone"}
    FeedCards = {"ask"}
    FeedOptions = {"yes"}
    KindOf <- PKindOf
    RefOf <- PRefOf
    MaxTaps = 1
    MaxAway = 1
    MaxAnswered = 1

INVARIANTS
    
    StoresFollowEffects

PROPERTIES
    GiveUpSettles
    DueIsDecided
    UpdateIsHandled
    AppCatchesUp

CHECK_DEADLOCK FALSE
