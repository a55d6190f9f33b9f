----------------------------- MODULE PartsProofs ------------------------------
(***************************************************************************)
(* Theorems about MCParts, the composition that one run checks. Each       *)
(* component keeps to its own specification in it, so what is proved of a  *)
(* component holds of the composition, whatever its constants are.         *)
(***************************************************************************)
EXTENDS MCParts, MeetingProofs, ScheduleProofs, CustomerProofs, FounderProofs, ServiceProofs

\* A step of the composition is a step of one component and changes no other.
LEMMA StepOfOne ==
    ASSUME [PartsNext]_partsVars
    PROVE  /\ [TriageNext]_triageVars /\ [BackfillNext]_backfillVars /\ [LessonsNext]_lessonVars
           /\ [CommitmentsNext]_commitVars /\ [NoticesNext]_noticeVars /\ [IngestionNext]_ingestionVars
           /\ [MeetingNext]_meetingVars /\ [MeetingDraftNext]_draftVars /\ [DayViewNext]_dayVars
           /\ [ScheduleNext]_scheduleVars /\ [DialogNext]_dialogVars /\ [SurfaceNext]_surfaceVars
           /\ [LlmNext]_gatewayVars /\ [KnowledgeNext]_knowVars /\ [OnboardingNext]_onboardingVars
           /\ [RuntimeNext]_runtimeVars /\ [AppFeedNext]_feedVars /\ [AppChatNext]_chatVars
<1>1. CASE ConversationStep
  BY <1>1 DEF ConversationStep, planning, service
<1>2. CASE PlanningStep
  BY <1>2 DEF PlanningStep, conversation, service
<1>3. CASE ServiceStep
  BY <1>3 DEF ServiceStep, conversation, planning
<1>4. CASE UNCHANGED partsVars
  BY <1>4 DEF partsVars, conversation, planning, service
<1> QED
  BY <1>1, <1>2, <1>3, <1>4 DEF PartsNext

LEMMA StartOfAll ==
    ASSUME PartsInit
    PROVE  /\ TriageInit /\ BackfillInit /\ LessonsInit
           /\ CommitmentsInit /\ NoticesInit /\ IngestionInit
           /\ MeetingInit /\ MeetingDraftInit /\ DayViewInit
           /\ ScheduleInit /\ DialogInit /\ SurfaceInit
           /\ LlmInit /\ KnowledgeInit /\ OnboardingInit
           /\ RuntimeInit /\ AppFeedInit /\ AppChatInit
BY DEF PartsInit

\* In the composition every component behaves as its own specification says.
THEOREM PartsKeepTheirSpecs ==
    PartsSpec => /\ TriageSpec /\ BackfillSpec /\ LessonsSpec
                 /\ CommitmentsSpec /\ NoticesSpec /\ IngestionSpec
                 /\ MeetingSpec /\ MeetingDraftSpec /\ DayViewSpec
                 /\ ScheduleSpec /\ DialogSpec /\ SurfaceSpec
                 /\ LlmSpec /\ KnowledgeSpec /\ OnboardingSpec
                 /\ RuntimeSpec /\ AppFeedSpec /\ AppChatSpec
<1>1. PartsInit => /\ TriageInit /\ BackfillInit /\ LessonsInit
                   /\ CommitmentsInit /\ NoticesInit /\ IngestionInit
                   /\ MeetingInit /\ MeetingDraftInit /\ DayViewInit
                   /\ ScheduleInit /\ DialogInit /\ SurfaceInit
                   /\ LlmInit /\ KnowledgeInit /\ OnboardingInit
                   /\ RuntimeInit /\ AppFeedInit /\ AppChatInit
  BY StartOfAll
<1>2. [PartsNext]_partsVars => /\ [TriageNext]_triageVars /\ [BackfillNext]_backfillVars /\ [LessonsNext]_lessonVars
                               /\ [CommitmentsNext]_commitVars /\ [NoticesNext]_noticeVars /\ [IngestionNext]_ingestionVars
                               /\ [MeetingNext]_meetingVars /\ [MeetingDraftNext]_draftVars /\ [DayViewNext]_dayVars
                               /\ [ScheduleNext]_scheduleVars /\ [DialogNext]_dialogVars /\ [SurfaceNext]_surfaceVars
                               /\ [LlmNext]_gatewayVars /\ [KnowledgeNext]_knowVars /\ [OnboardingNext]_onboardingVars
                               /\ [RuntimeNext]_runtimeVars /\ [AppFeedNext]_feedVars /\ [AppChatNext]_chatVars
  BY StepOfOne
<1> QED
  BY <1>1, <1>2, PTL
     DEF PartsSpec, TriageSpec, BackfillSpec, LessonsSpec, CommitmentsSpec,
         NoticesSpec, IngestionSpec, MeetingSpec, MeetingDraftSpec,
         DayViewSpec, ScheduleSpec, DialogSpec, SurfaceSpec,
         LlmSpec, KnowledgeSpec, OnboardingSpec, RuntimeSpec,
         AppFeedSpec, AppChatSpec

\* The component that moves stays within its types: PartsTypeOK, the types of all of them.
THEOREM PartsTypes == PartsSpec => []PartsTypeOK
<1>1. PartsInit => part \in Parts
  BY DEF PartsInit
<1>2. part \in Parts /\ [PartsNext]_partsVars => (part \in Parts)'
  BY DEF PartsNext, partsVars
<1>3. part \in Parts /\ TriageTypeOK /\ BackfillTypeOK /\ LessonsTypeOK
      /\ CommitmentsTypeOK /\ NoticesTypeOK /\ IngestionTypeOK
      /\ MeetingTypeOK /\ MeetingDraftTypeOK /\ DayViewTypeOK
      /\ ScheduleTypeOK /\ DialogTypeOK /\ SurfaceTypeOK
      /\ LlmTypeOK /\ KnowledgeTypeOK /\ OnboardingTypeOK
      /\ RuntimeTypeOK /\ AppFeedTypeOK /\ AppChatTypeOK
      => PartsTypeOK
  BY PartsAssumption DEF PartsTypeOK
<1>4. ScheduleInv => ScheduleTypeOK
  BY DEF ScheduleInv
<1> QED
  BY <1>1, <1>2, <1>3, <1>4, PTL, PartsKeepTheirSpecs, ScheduleInductive, MeetingTypes, DialogTypesHold,
     IngestionTypesHold, TriageTypesHold, NoticeTypesHold, BackfillTypesHold, OnboardingTypesHold,
     LessonsTypesHold, KnowledgeTypesHold, CommitmentTypes, AppChatTypes, MeetingDraftTypes, DayViewTypes,
     SurfaceTypesHold, AppFeedTypes, GatewayTypes, RuntimeTypes
     DEF PartsSpec

\* The composition has the properties its run checks, each by the theorem of its component:
\* the budget, the reminders, what reaches the calendar or a customer, the documents, the
\* lessons, the notices, the retries, the proposals, the calendar of the app, the bookings,
\* the replicas, the chats, the onboarding and the promises.
THEOREM PartsAreSound ==
    PartsSpec =>
        /\ [](BudgetIsSound /\ OnceOrSilent /\ ActsAsShown /\ TombstonedWasGone /\ LessonsStayHome)
        /\ [](NoticesAreOnce /\ RetryIsHarmless /\ NothingIsDropped /\ BlockedTimeWasFree)
        /\ [](BookedHasEvent /\ ReplicasAreOrderly /\ FreshStart)
        /\ OnboardsOnce /\ WatermarkPassesNothing
BY PartsKeepTheirSpecs, BudgetHolds, RemindersAreOnce, NothingUnseenIsSent, NoDocumentIsLost, LessonsAreKept,
   NoticesAreGivenOnce, RetriesAreHarmless, NothingDropped, BlocksLandOnFreeTime, BookingsHaveEvents,
   ReplicasStayOrderly, ChatsStayFresh, TakenOnOnce, NoPromiseIsPassed, PTL

\* ... and no cursor passes a message, as long as a walk ends within the lookback.
THEOREM PartsPassNothing ==
    ASSUME PromptWalks \/ "wa" \notin Sources
    PROVE  PartsSpec => []NothingIsPassed
BY PartsKeepTheirSpecs, NothingPassedOver, PTL

===============================================================================
