------------------------------ MODULE MCParts ------------------------------
(* One instance of every component that shares no state with the outbound   *)
(* queue, for TLC. The components below do not share a variable either, so   *)
(* a behaviour of this module is a behaviour of one of them, the one "part"  *)
(* names: the others stay where they start. One run then checks them all,    *)
(* which is the same as one run each.                                        *)
EXTENDS
    Meeting, MeetingDraft, DayView, ScheduleWorker, ScheduleDialog, FounderSurface,
    Triage, Backfill, Lessons, Commitments, Notices, Ingestion,
    LlmGateway, Knowledge, Onboarding, Runtime, AppFeed, AppChat, TLC

CONSTANTS
    Parts,                          \* the components of the run
    c1, c2,                         \* customers
    d1, d2, d3,                     \* documents
    n1, n2,                         \* notices
    e1, e2,                         \* calendar entries
    r1, r2, th1, th2,               \* inbound rows and their threads
    w1, w2, w3                      \* processes and runs

ASSUME PartsAssumption ==
    Parts \subseteq {"triage", "backfill", "lessons", "commitments", "notices", "ingestion",
                     "meeting", "booking", "calendar", "schedule", "dialog", "surface",
                     "gateway", "knowledge", "onboarding", "runtime", "feed", "chat"}

VARIABLE part

-----------------------------------------------------------------------------
\* Values of the functions among the constants
PSourceOf == [d \in Docs |-> IF d = d3 THEN "guides" ELSE "inventory"]
PKeeperOf == "guides" :> "docs" @@ "inventory" :> "tasks"
PAnswers == [d \in 1..Resolved |-> IF d = 1 THEN "rejected" ELSE "chatter"]
PSweepOf == n1 :> "event" @@ n2 :> "note"
PPromisee == [m \in 1..Sent |-> IF m % 2 = 1 THEN c1 ELSE c2]
PThreadOf == r1 :> th1 @@ r2 :> th1
PIntentsOf == r1 :> <<"question", "work">> @@ r2 :> <<"unclear", "work">>
PFateOf == r1 :> "known" @@ r2 :> "mention"
PAddressesOf == c1 :> {"mail"} @@ c2 :> {"phone"}
PObservable == c1 :> {"x"} @@ c2 :> {}
PEntryOf == w1 :> "cli" @@ w2 :> "console" @@ w3 :> "seed"
PStanding == e1 :> [from |-> 0, to |-> 1]
PReleases == {1 :> "a", 1 :> "a" @@ 2 :> "a", 1 :> "a" @@ 3 :> "a", 1 :> "b" @@ 2 :> "a" @@ 3 :> "a"}
PKindOf == [c \in FeedCards |-> IF c = "ask" THEN "question" ELSE "notification"]
PRefOf == [c \in FeedCards |-> "thing"]

-----------------------------------------------------------------------------
conversation == <<triageVars, backfillVars, lessonVars, commitVars, noticeVars, ingestionVars>>
planning == <<meetingVars, draftVars, dayVars, scheduleVars, dialogVars, surfaceVars>>
service == <<gatewayVars, knowVars, onboardingVars, runtimeVars, feedVars, chatVars>>
partsVars == <<part, conversation, planning, service>>

-----------------------------------------------------------------------------
\* Where a component has several initial states, the others see one of them.
PartsInit ==
    /\ part \in Parts
    /\ TriageInit /\ BackfillInit /\ LessonsInit /\ CommitmentsInit /\ NoticesInit
    /\ IngestionInit
    /\ part # "ingestion" => source = CHOOSE s \in Sources : TRUE
    /\ MeetingInit /\ MeetingDraftInit /\ DayViewInit /\ ScheduleInit /\ DialogInit
    /\ SurfaceInit /\ LlmInit
    /\ KnowledgeInit
    /\ part # "knowledge" => disk = [d \in Docs |-> 0]
    /\ OnboardingInit
    /\ RuntimeInit
    /\ part # "runtime" => release = [h \in Hosts |-> CHOOSE r \in Releases : TRUE]
    /\ AppFeedInit /\ AppChatInit

ConversationStep ==
    /\ part \in {"triage", "backfill", "lessons", "commitments", "notices", "ingestion"}
    /\ UNCHANGED <<planning, service>>
    /\ \/ /\ part = "triage" /\ TriageNext
          /\ UNCHANGED <<backfillVars, lessonVars, commitVars, noticeVars, ingestionVars>>
       \/ /\ part = "backfill" /\ BackfillNext
          /\ UNCHANGED <<triageVars, lessonVars, commitVars, noticeVars, ingestionVars>>
       \/ /\ part = "lessons" /\ LessonsNext
          /\ UNCHANGED <<triageVars, backfillVars, commitVars, noticeVars, ingestionVars>>
       \/ /\ part = "commitments" /\ CommitmentsNext
          /\ UNCHANGED <<triageVars, backfillVars, lessonVars, noticeVars, ingestionVars>>
       \/ /\ part = "notices" /\ NoticesNext
          /\ UNCHANGED <<triageVars, backfillVars, lessonVars, commitVars, ingestionVars>>
       \/ /\ part = "ingestion" /\ IngestionNext
          /\ UNCHANGED <<triageVars, backfillVars, lessonVars, commitVars, noticeVars>>

PlanningStep ==
    /\ part \in {"meeting", "booking", "calendar", "schedule", "dialog", "surface"}
    /\ UNCHANGED <<conversation, service>>
    /\ \/ /\ part = "meeting" /\ MeetingNext
          /\ UNCHANGED <<draftVars, dayVars, scheduleVars, dialogVars, surfaceVars>>
       \/ /\ part = "booking" /\ MeetingDraftNext
          /\ UNCHANGED <<meetingVars, dayVars, scheduleVars, dialogVars, surfaceVars>>
       \/ /\ part = "calendar" /\ DayViewNext
          /\ UNCHANGED <<meetingVars, draftVars, scheduleVars, dialogVars, surfaceVars>>
       \/ /\ part = "schedule" /\ ScheduleNext
          /\ UNCHANGED <<meetingVars, draftVars, dayVars, dialogVars, surfaceVars>>
       \/ /\ part = "dialog" /\ DialogNext
          /\ UNCHANGED <<meetingVars, draftVars, dayVars, scheduleVars, surfaceVars>>
       \/ /\ part = "surface" /\ SurfaceNext
          /\ UNCHANGED <<meetingVars, draftVars, dayVars, scheduleVars, dialogVars>>

ServiceStep ==
    /\ part \in {"gateway", "knowledge", "onboarding", "runtime", "feed", "chat"}
    /\ UNCHANGED <<conversation, planning>>
    /\ \/ /\ part = "gateway" /\ LlmNext
          /\ UNCHANGED <<knowVars, onboardingVars, runtimeVars, feedVars, chatVars>>
       \/ /\ part = "knowledge" /\ KnowledgeNext
          /\ UNCHANGED <<gatewayVars, onboardingVars, runtimeVars, feedVars, chatVars>>
       \/ /\ part = "onboarding" /\ OnboardingNext
          /\ UNCHANGED <<gatewayVars, knowVars, runtimeVars, feedVars, chatVars>>
       \/ /\ part = "runtime" /\ RuntimeNext
          /\ UNCHANGED <<gatewayVars, knowVars, onboardingVars, feedVars, chatVars>>
       \/ /\ part = "feed" /\ AppFeedNext
          /\ UNCHANGED <<gatewayVars, knowVars, onboardingVars, runtimeVars, chatVars>>
       \/ /\ part = "chat" /\ AppChatNext
          /\ UNCHANGED <<gatewayVars, knowVars, onboardingVars, runtimeVars, feedVars>>

PartsNext == part' = part /\ (ConversationStep \/ PlanningStep \/ ServiceStep)

PartsSpec == PartsInit /\ [][PartsNext]_partsVars

\* Bounds of the run: the calendar is disturbed from one side, and at most two
\* corrections are being inserted at a time.
PartsBound == outside + drops <= 1 /\ Cardinality(inserting) <= 2

-----------------------------------------------------------------------------
\* The state of the component that moves stays within its types.
PartsTypeOK ==
    CASE part = "triage" -> TriageTypeOK
      [] part = "backfill" -> BackfillTypeOK
      [] part = "lessons" -> LessonsTypeOK
      [] part = "commitments" -> CommitmentsTypeOK
      [] part = "notices" -> NoticesTypeOK
      [] part = "ingestion" -> IngestionTypeOK
      [] part = "meeting" -> MeetingTypeOK
      [] part = "booking" -> MeetingDraftTypeOK
      [] part = "calendar" -> DayViewTypeOK
      [] part = "schedule" -> ScheduleTypeOK
      [] part = "dialog" -> DialogTypeOK
      [] part = "surface" -> SurfaceTypeOK
      [] part = "gateway" -> LlmTypeOK
      [] part = "knowledge" -> KnowledgeTypeOK
      [] part = "onboarding" -> OnboardingTypeOK
      [] part = "runtime" -> RuntimeTypeOK
      [] part = "feed" -> AppFeedTypeOK
      [] part = "chat" -> AppChatTypeOK

=============================================================================
