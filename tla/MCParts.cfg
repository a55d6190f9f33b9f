SPECIFICATION PartsSpec

CONSTANTS
    Parts = {"triage", "backfill", "lessons", "commitments", "notices", "ingestion", "meeting", "booking", "calendar", "schedule", "dialog", "surface", "gateway", "knowledge", "onboarding", "runtime", "feed", "chat"}
    c1 = c1
    c2 = c2
    d1 = d1
    d2 = d2
    d3 = d3
    n1 = n1
    n2 = n2
    e1 = e1
    e2 = e2
    r1 = r1
    r2 = r2
    th1 = th1
    th2 = th2
    w1 = w1
    w2 = w2
    w3 = w3
\* Meeting
    Meetings = {m1}
    Callers = {w1, w2}
    Slots = {s1, s2}
    NoSlot = NoSlot
    MaxFaults = 2
    MaxAnswers = 4
\* MeetingDraft
    Invitees = {i1}
    Taskers = {w1, w2}
    LastHour = 1
    MaxAsks = 3
    MaxMisses = 1
\* DayView
    Entries = {e1, e2}
    Standing <- PStanding
    Horizon = 2
    DayLength = 1
    Lengths = {1}
    Handlers = {w1}
    MaxOutside = 1
    MaxDrops = 1
\* ScheduleWorker
    Replicas = {w1, w2}
    OneShots = {}
    Recurring = {series}
    CustomerMessages = {mail}
    Attempts = 2
    MaxTurns = 2
    MaxMishaps = 1
\* ScheduleDialog
    MaxClarifyTurns = 2
    Founded = 4
    MaxNonce = 2
    MaxThrows = 1
\* FounderSurface
    Questions = {q1}
    Drafts = {draft}
    TypedAnswers = {"yes"}
    Buttons = {"approve", "edit"}
    NoCard = NoCard
    MaxUpdates = 1
    MaxTroubles = 1
\* Triage
    Inbound = {r1, r2}
    Threads = {th1, th2}
    ThreadOf <- PThreadOf
    IntentsOf <- PIntentsOf
    FateOf <- PFateOf
    Hands = {w1, w2}
    MaxTries = 2
    MaxSlips = 1
\* Backfill
    Convs = {v1, v2}
    Starred = {v1}
    Blank = {v2}
    Sweeps = {w1, w2}
    Taps = {telegram, console}
    MaxSweeps = 2
    MaxSnags = 1
\* Lessons
    Pupils = {c1, c2}
    Everybody = Everybody
    Rows = 2
    Resolved = 2
    Batch = 1
    Answers <- PAnswers
\* Commitments
    Sent = 3
    Promisee <- PPromisee
    BatchLimit = 2
    MaxOutages = 1
\* Notices
    Items = {n1, n2}
    SweepOf <- PSweepOf
    Sweepers = {w1, w2}
    MaxFailures = 1
\* Ingestion
    Sources = {"wa", "mail"}
    Posts = {x1, x2, x3}
    Voice = {x1}
    Pollers = {w1}
    MaxPages = 2
    Lookback = 1
    PromptWalks = TRUE
    MaxChanges = 1
    MaxBlips = 1
\* LlmGateway
    Clients = {w1, w2}
    Unlocked = Unlocked
    DailyCap = 2
    Prices = {1}
    ChainLength = 2
    MaxModelTurns = 2
    QueryCeiling = 1
    MaxCalls = 2
    MaxEmbeddings = 1
    MaxDeaths = 1
\* Knowledge
    Docs = {d1, d2, d3}
    DocSources = {"guides", "inventory"}
    SourceOf <- PSourceOf
    KeeperOf <- PKeeperOf
    Owners = {c1, Shared}
    Shared = Shared
    Unresolved = Unresolved
    TombstoneHalves = 2
    MaxVersion = 2
    MaxEdits = 1
    MaxBreaks = 1
\* Onboarding
    Partners = {c1, c2}
    Addresses = {"mail", "phone"}
    AddressesOf <- PAddressesOf
    Listed = {"phone"}
    Writers = {c1}
    Operated = {c1}
    Modules = {"x"}
    Observable <- PObservable
    Onboarders = {w1, w2, w3}
    EntryOf <- PEntryOf
    MaxRuns = 2
    MaxHitches = 1
\* Runtime
    Hosts = {w1, w2}
    Chores = {"sync", "drain"}
    Singletons = {"sync"}
    Releases <- PReleases
    MaxBoots = 3
    MaxCuts = 1
\* AppFeed
    Phones = {"phone"}
    FeedCards = {"note"}
    FeedOptions = {"yes"}
    KindOf <- PKindOf
    RefOf <- PRefOf
    MaxTaps = 1
    MaxAway = 1
    MaxAnswered = 1
\* AppChat
    Handsets = {"a", "b"}
    PageTurns = 1
    MaxQuestions = 2
    MaxResets = 1
    MaxFetches = 1

CONSTRAINT PartsBound

INVARIANTS
    PartsTypeOK
    
    
    ActsAsShown
    
    LessonsStayHome
    NoticesAreOnce
    
    NothingIsDropped
    
    BlockedTimeWasFree
    BookedHasEvent
    ReplicasAreOrderly
    FreshStart

PROPERTIES
    OnboardsOnce
    WatermarkPassesNothing

CHECK_DEADLOCK FALSE
