---------------------------- MODULE MCFounderLive ----------------------------
(* What the founder waits for, with its liveness, for TLC: the meetings,     *)
(* the schedule worker, the topic and the app's cards. They share no         *)
(* variable, and a behaviour of this module is a behaviour of the one        *)
(* "part" names.                                                             *)
EXTENDS Meeting, ScheduleWorker, FounderSurface, AppFeed

CONSTANT Parts      \* the components of the run

VARIABLE part

PKindOf == [c \in FeedCards |-> IF c = "ask" THEN "question" ELSE "notification"]
PRefOf == [c \in FeedCards |-> "thing"]

founderVars == <<part, meetingVars, scheduleVars, surfaceVars, feedVars>>

FounderInit ==
    part \in Parts /\ MeetingInit /\ ScheduleInit /\ SurfaceInit /\ AppFeedInit

FounderNext ==
    /\ part' = part
    /\ \/ /\ part = "meeting" /\ MeetingNext
          /\ UNCHANGED <<scheduleVars, surfaceVars, feedVars>>
       \/ /\ part = "schedule" /\ ScheduleNext
          /\ UNCHANGED <<meetingVars, surfaceVars, feedVars>>
       \/ /\ part = "surface" /\ SurfaceNext
          /\ UNCHANGED <<meetingVars, scheduleVars, feedVars>>
       \/ /\ part = "feed" /\ AppFeedNext
          /\ UNCHANGED <<meetingVars, scheduleVars, surfaceVars>>

\* Each component's own fairness, where it is the one that moves.
FounderFairness ==
    /\ \A c \in Callers : WF_meetingVars(part = "meeting" /\ AdvanceCall(c))
    /\ \A m \in Meetings : WF_meetingVars(part = "meeting" /\ FallbackWorker(m))
    /\ \A w \in Replicas : WF_scheduleVars(part = "schedule" /\ ScheduleTick(w))
    /\ \A a \in Actions :
        /\ WF_scheduleVars(part = "schedule" /\ GraceExpires(a))
        /\ WF_scheduleVars(part = "schedule" /\ RunsLong(a))
    /\ WF_surfaceVars(part = "surface" /\ Poll)
    /\ WF_feedVars(part = "feed" /\ Publish)
    /\ \A d \in Phones :
        /\ WF_feedVars(part = "feed" /\ Deliver(d))
        /\ WF_feedVars(part = "feed" /\ Reconnect(d))
        /\ \A kind \in {"list", "queue"} :
            /\ WF_feedVars(part = "feed" /\ ServeRead(d, kind))
            /\ WF_feedVars(part = "feed" /\ ReadReturns(d, kind))
        /\ WF_feedVars(part = "feed" /\ ServeTap(d))
        /\ WF_feedVars(part = "feed" /\ TapDone(d))
        /\ WF_feedVars(part = "feed" /\ TapRefused(d))

FounderFairSpec == FounderInit /\ [][FounderNext]_founderVars /\ FounderFairness

=============================================================================
