------------------------------- MODULE Meeting -------------------------------
(***************************************************************************)
(* A meeting request (agent_meeting_requests), from the message that asks   *)
(* for one to an event in the founder's calendar, a fallback task in the    *)
(* portal, or a dismissal: src/src/triage/meeting-scheduler.ts,             *)
(* meeting-repo.ts, meeting-decision-handler.ts, meeting-free-text.ts and   *)
(* meeting-fallback.worker.ts.                                              *)
(*                                                                         *)
(* Callers run the scheduler: the triage worker, the Telegram dispatcher,   *)
(* the app's requests and the fallback worker.  Two of them interleave at   *)
(* every await.  The calendar and the portal answer, refuse, or fail with   *)
(* or without having done what they were asked.  A tap is delivered as      *)
(* often as it likes (the Telegram poller redelivers whole batches).        *)
(***************************************************************************)
EXTENDS Naturals, FiniteSets

CONSTANTS
    Meetings,       \* requests: one per inbound message that asks for one
    Callers,        \* concurrent runs of the scheduler
    Slots,          \* instants a meeting can start at
    NoSlot,
    MaxFaults,      \* bound of the model: failed portal calls and dead callers
    MaxAnswers      \* bound of the model: answers of the founder

ASSUME SlotsAssumption == NoSlot \notin Slots /\ Slots # {}
ASSUME MeetingBounds == MaxFaults \in Nat /\ MaxAnswers \in Nat

VARIABLES
    meeting,    \* agent_meeting_requests.status; "none" before the INSERT
    linked,     \* decision_id is set
    asked,      \* the founder has the duration card
    outcomeOf,    \* what became of the inbound row: "open", "meeting" or "task"
    offered,    \* the slots column
    slotCard,   \* the founder has a card with the slots
    booked,     \* the calendar's event with the request's deterministic id
    confirmed,  \* the start named in the queued confirmation (unique row)
    minted,     \* portal tasks with the request as their source
    call,       \* where each caller is, with which request and which slot
    faults, answers

requests == <<meeting, linked, offered>>
world == <<asked, outcomeOf, slotCard, booked, confirmed, minted>>
bounds == <<faults, answers>>
meetingVars == <<requests, world, call, bounds>>

MeetingStatus == {"none", "awaiting_duration", "awaiting_slot", "creating",
    "scheduled", "fallback_pending", "fallback_creating", "failed", "abandoned"}
OpenStatus == {"awaiting_duration", "awaiting_slot", "creating"}
Initiating == {"link", "ask"}
CallStage == {"idle", "propose", "offer", "recheck", "typed", "book", "create",
    "release", "mark", "confirm", "giveUp", "mint", "complete", "queue"}
             \cup Initiating
NoCall == [at |-> "idle", on |-> "none", slot |-> NoSlot]

MeetingTypeOK ==
    /\ meeting \in [Meetings -> MeetingStatus]
    /\ linked \in [Meetings -> BOOLEAN]
    /\ asked \in [Meetings -> BOOLEAN]
    /\ outcomeOf \in [Meetings -> {"open", "meeting", "task"}]
    /\ offered \in [Meetings -> SUBSET Slots]
    /\ slotCard \in [Meetings -> BOOLEAN]
    /\ booked \in [Meetings -> Slots \cup {NoSlot}]
    /\ confirmed \in [Meetings -> Slots \cup {NoSlot}]
    /\ minted \in [Meetings -> Nat]
    /\ call \in [Callers -> [at : CallStage, on : Meetings \cup {"none"},
                             slot : Slots \cup {NoSlot}]]
    /\ faults \in 0..MaxFaults /\ answers \in 0..MaxAnswers

MeetingInit ==
    /\ meeting = [m \in Meetings |-> "none"]
    /\ linked = [m \in Meetings |-> FALSE]
    /\ asked = [m \in Meetings |-> FALSE]
    /\ outcomeOf = [m \in Meetings |-> "open"]
    /\ offered = [m \in Meetings |-> {}]
    /\ slotCard = [m \in Meetings |-> FALSE]
    /\ booked = [m \in Meetings |-> NoSlot]
    /\ confirmed = [m \in Meetings |-> NoSlot]
    /\ minted = [m \in Meetings |-> 0]
    /\ call = [c \in Callers |-> NoCall]
    /\ faults = 0 /\ answers = 0

-----------------------------------------------------------------------------
CallAt(c, stage) == call[c].at = stage
On(c) == call[c].on
CallGoes(c, stage) == call' = [call EXCEPT ![c].at = stage]
Return(c) == call' = [call EXCEPT ![c] = NoCall]
Begin(c, stage, m, s) ==
    /\ CallAt(c, "idle")
    /\ call' = [call EXCEPT ![c] = [at |-> stage, on |-> m, slot |-> s]]

\* A guarded UPDATE of meeting-repo.ts: the caller goes on only with rowCount 1.
Guarded(c, from, to, stage) ==
    \/ /\ meeting[On(c)] \in from
       /\ meeting' = [meeting EXCEPT ![On(c)] = to]
       /\ CallGoes(c, stage)
    \/ /\ meeting[On(c)] \notin from
       /\ Return(c)
       /\ UNCHANGED meeting

\* A guarded UPDATE whose result the code does not look at.
SettleRow(c, from, to) ==
    meeting' = [meeting EXCEPT ![On(c)] = IF @ = from THEN to ELSE @]

-----------------------------------------------------------------------------
(* tryInitiate, called by triage for a row nobody else has claimed          *)

Untouched(m) ==
    /\ outcomeOf[m] = "open"
    /\ \A c \in Callers : call[c].at \in Initiating => call[c].on # m

\* No usable host calendar: FALSE, and triage goes on to its own task.
CannotStart(m) ==
    /\ Untouched(m)
    /\ outcomeOf' = [outcomeOf EXCEPT ![m] = "task"]
    /\ UNCHANGED <<requests, asked, slotCard, booked, confirmed, minted, call,
                   bounds>>

ClaimRequest(c, m) ==
    /\ Untouched(m)
    /\ meeting[m] = "none"
    /\ meeting' = [meeting EXCEPT ![m] = "awaiting_duration"]
    /\ Begin(c, "link", m, NoSlot)
    /\ UNCHANGED <<linked, offered, world, bounds>>

\* ON CONFLICT DO NOTHING: an earlier attempt has claimed it, so it is handled.
ReplayClaim(m) ==
    /\ Untouched(m)
    /\ meeting[m] # "none"
    /\ outcomeOf' = [outcomeOf EXCEPT ![m] = "meeting"]
    /\ UNCHANGED <<requests, asked, slotCard, booked, confirmed, minted, call,
                   bounds>>

\* recordDecision and setMeetingDecisionId
LinkDecision(c) ==
    /\ CallAt(c, "link")
    /\ linked' = [linked EXCEPT ![On(c)] = TRUE]
    /\ CallGoes(c, "ask")
    /\ UNCHANGED <<meeting, offered, world, bounds>>

AskForDuration(c) ==
    /\ CallAt(c, "ask")
    /\ asked' = [asked EXCEPT ![On(c)] = TRUE]
    /\ outcomeOf' = [outcomeOf EXCEPT ![On(c)] = "meeting"]
    /\ Return(c)
    /\ UNCHANGED <<requests, slotCard, booked, confirmed, minted, bounds>>

\* A statement or the notifier throws, or the process dies: the row is
\* reclaimed and triage tries again.
InitiateFails(c) ==
    /\ call[c].at \in Initiating
    /\ Return(c)
    /\ UNCHANGED <<requests, world, bounds>>

-----------------------------------------------------------------------------
(* The founder's answers                                                    *)

Answer(c, stage, m, s) ==
    /\ answers < MaxAnswers
    /\ answers' = answers + 1
    /\ Begin(c, stage, m, s)
    /\ UNCHANGED <<requests, world, faults>>

OnDuration(c, m) ==
    /\ asked[m] /\ meeting[m] = "awaiting_duration"
    /\ Answer(c, "propose", m, NoSlot)

\* free/busy unreadable or no room: give up; else the slots are stored
ProposeSlots(c) ==
    /\ CallAt(c, "propose")
    /\ \/ CallGoes(c, "giveUp") /\ UNCHANGED requests
       \/ \E S \in SUBSET Slots \ {{}} :
            /\ Guarded(c, {"awaiting_duration", "awaiting_slot"},
                       "awaiting_slot", "offer")
            /\ offered' = IF meeting[On(c)] \in {"awaiting_duration", "awaiting_slot"}
                          THEN [offered EXCEPT ![On(c)] = S] ELSE offered
            /\ UNCHANGED linked
    /\ UNCHANGED <<world, bounds>>

AskForSlot(c) ==
    /\ CallAt(c, "offer")
    /\ \/ slotCard' = [slotCard EXCEPT ![On(c)] = TRUE]
       \/ UNCHANGED slotCard
    /\ Return(c)
    /\ UNCHANGED <<requests, asked, outcomeOf, booked, confirmed, minted, bounds>>

OnSlot(c, m) ==
    /\ slotCard[m] /\ meeting[m] = "awaiting_slot"
    /\ \E s \in offered[m] : Answer(c, "recheck", m, s)

\* The tapped slot is checked against fresh free/busy: unreadable, taken with
\* nothing else to offer, taken with a fresh slate, or free
Recheck(c) ==
    /\ CallAt(c, "recheck")
    /\ \/ Return(c) /\ UNCHANGED offered
       \/ CallGoes(c, "giveUp") /\ UNCHANGED offered
       \/ CallGoes(c, "book") /\ UNCHANGED offered
       \/ \E S \in SUBSET Slots \ {{}} :
            \/ /\ meeting[On(c)] = "awaiting_slot"
               /\ offered' = [offered EXCEPT ![On(c)] = S]
               /\ CallGoes(c, "offer")
            \/ /\ meeting[On(c)] # "awaiting_slot"
               /\ Return(c) /\ UNCHANGED offered
    /\ UNCHANGED <<meeting, linked, world, bounds>>

OnTypedTime(c, m) ==
    /\ slotCard[m] /\ meeting[m] = "awaiting_slot"
    /\ \E s \in Slots : Answer(c, "typed", m, s)

\* past, busy or unreadable: the question stays; else book
CheckTypedTime(c) ==
    /\ CallAt(c, "typed")
    /\ Return(c) \/ CallGoes(c, "book")
    /\ UNCHANGED <<requests, world, bounds>>

OnDecline(c, m) ==
    /\ asked[m]
    /\ Answer(c, "giveUp", m, NoSlot)

\* POST /api/meeting/:id/dismiss: abandonOpenMeeting
Dismiss(m) ==
    /\ asked[m] /\ meeting[m] \in OpenStatus
    /\ meeting' = [meeting EXCEPT ![m] = "abandoned"]
    /\ UNCHANGED <<linked, offered, world, call, bounds>>

-----------------------------------------------------------------------------
(* bookSlot                                                                 *)

ClaimForCreating(c) ==
    /\ CallAt(c, "book")
    /\ Guarded(c, {"awaiting_slot"}, "creating", "create")
    /\ UNCHANGED <<linked, offered, world, bounds>>

\* events.insert with the request's deterministic id: a second insert answers
\* 409, which is success; a failure may come after the event was created
CreateEvent(c) ==
    /\ CallAt(c, "create")
    /\ \/ /\ booked' = [booked EXCEPT ![On(c)] = IF @ = NoSlot THEN call[c].slot ELSE @]
          /\ CallGoes(c, "mark") \/ CallGoes(c, "release")
       \/ /\ UNCHANGED booked
          /\ CallGoes(c, "giveUp") \/ CallGoes(c, "release")
    /\ UNCHANGED <<requests, asked, outcomeOf, slotCard, confirmed, minted, bounds>>

ReleaseToAwaitingSlot(c) ==
    /\ CallAt(c, "release")
    /\ SettleRow(c, "creating", "awaiting_slot")
    /\ Return(c)
    /\ UNCHANGED <<linked, offered, world, bounds>>

MarkScheduled(c) ==
    /\ CallAt(c, "mark")
    /\ SettleRow(c, "creating", "scheduled")
    /\ CallGoes(c, "confirm")
    /\ UNCHANGED <<linked, offered, world, bounds>>

\* enqueueMeetingConfirmation: whatever the status is, once per request
EnqueueConfirmation(c) ==
    /\ CallAt(c, "confirm")
    /\ confirmed' = [confirmed EXCEPT ![On(c)] =
                        IF @ = NoSlot THEN call[c].slot ELSE @]
    /\ Return(c)
    /\ UNCHANGED <<requests, asked, outcomeOf, slotCard, booked, minted, bounds>>

-----------------------------------------------------------------------------
(* giveUpToTask and the fallback worker                                     *)

ClaimGiveUp(c) ==
    /\ CallAt(c, "giveUp")
    /\ Guarded(c, OpenStatus \cup {"fallback_pending"}, "fallback_creating", "mint")
    /\ UNCHANGED <<linked, offered, world, bounds>>

\* findTasksBySource, then createTask when there is none
FallbackToTask(c) ==
    /\ CallAt(c, "mint") /\ linked[On(c)]
    /\ minted' = [minted EXCEPT ![On(c)] = IF @ = 0 THEN 1 ELSE @]
    /\ \/ CallGoes(c, "complete") /\ UNCHANGED faults
       \/ /\ faults < MaxFaults
          /\ faults' = faults + 1
          /\ CallGoes(c, "queue")
    /\ UNCHANGED <<requests, asked, outcomeOf, slotCard, booked, confirmed, answers>>

\* nothing was created: the portal could not be reached
FallbackFails(c) ==
    /\ CallAt(c, "mint")
    /\ faults < MaxFaults
    /\ faults' = faults + 1
    /\ CallGoes(c, "queue")
    /\ UNCHANGED <<requests, world, answers>>

\* no decision to rebuild the task from, or no project it could go to by now:
\* the founder is told to see to it
NothingToMint(c) ==
    /\ CallAt(c, "mint")
    /\ CallGoes(c, "complete")
    /\ UNCHANGED <<requests, world, bounds>>

\* Mutant of ReleaseGiveUp: the release is forgotten.
ForgetGiveUp(c) ==
    /\ CallAt(c, "queue")
    /\ SettleRow(c, "fallback_creating", "awaiting_duration")
    /\ Return(c)
    /\ UNCHANGED <<linked, offered, world, bounds>>

ReleaseGiveUp(c) ==
    /\ CallAt(c, "queue")
    /\ SettleRow(c, "fallback_creating", "fallback_pending")
    /\ Return(c)
    /\ UNCHANGED <<linked, offered, world, bounds>>

CompleteGiveUp(c) ==
    /\ CallAt(c, "complete")
    /\ SettleRow(c, "fallback_creating", "failed")
    /\ Return(c)
    /\ UNCHANGED <<linked, offered, world, bounds>>

\* Minutes pass: the caller that held the claim is dead, since a call to the
\* portal times out long before.
ReclaimStuckFallback(m) ==
    /\ meeting[m] = "fallback_creating"
    /\ \A c \in Callers : call[c].at \in {"mint", "complete", "queue"} => On(c) # m
    /\ meeting' = [meeting EXCEPT ![m] = "fallback_pending"]
    /\ UNCHANGED <<linked, offered, world, call, bounds>>

RetryFallback(c, m) ==
    /\ meeting[m] = "fallback_pending"
    /\ Begin(c, "giveUp", m, NoSlot)
    /\ UNCHANGED <<requests, world, bounds>>

\* A query throws or the process dies between two awaits.
MeetingCallDies(c) ==
    /\ call[c].at \notin {"idle"} \cup Initiating
    /\ faults < MaxFaults
    /\ faults' = faults + 1
    /\ Return(c)
    /\ UNCHANGED <<requests, world, answers>>

-----------------------------------------------------------------------------
AdvanceCall(c) ==
    \/ LinkDecision(c) \/ AskForDuration(c) \/ InitiateFails(c)
    \/ ProposeSlots(c) \/ AskForSlot(c) \/ Recheck(c) \/ CheckTypedTime(c)
    \/ ClaimForCreating(c) \/ CreateEvent(c) \/ ReleaseToAwaitingSlot(c)
    \/ MarkScheduled(c) \/ EnqueueConfirmation(c)
    \/ ClaimGiveUp(c) \/ FallbackToTask(c) \/ FallbackFails(c) \/ NothingToMint(c)
    \/ ReleaseGiveUp(c) \/ CompleteGiveUp(c)

FallbackWorker(m) ==
    \/ ReclaimStuckFallback(m)
    \/ \E c \in Callers : RetryFallback(c, m)

FounderDecides(c, m) ==
    OnDuration(c, m) \/ OnSlot(c, m) \/ OnTypedTime(c, m) \/ OnDecline(c, m)

MeetingNext ==
    \/ \E c \in Callers : AdvanceCall(c) \/ MeetingCallDies(c)
    \/ \E m \in Meetings :
        \/ CannotStart(m) \/ ReplayClaim(m) \/ Dismiss(m) \/ FallbackWorker(m)
        \/ \E c \in Callers : ClaimRequest(c, m) \/ FounderDecides(c, m)

MeetingSpec == MeetingInit /\ [][MeetingNext]_meetingVars

\* Awaits return, and the fallback worker's tick comes again.
MeetingFairness ==
    /\ \A c \in Callers : WF_meetingVars(AdvanceCall(c))
    /\ \A m \in Meetings : WF_meetingVars(FallbackWorker(m))

MeetingFairSpec == MeetingSpec /\ MeetingFairness

-----------------------------------------------------------------------------
\* A give-up is retried after a failure of the portal, a reclaim and a crash,
\* and the portal may have made the task before it failed; there is one task.
OneFallbackTask == \A m \in Meetings : minted[m] <= 1

\* A scheduled request has its event and no fallback task, and the customer
\* gets a confirmation only of a meeting that is in the calendar: of two taps,
\* a tap and a give-up, or a late answer of the calendar, one wins.
ScheduledIsBooked ==
    \A m \in Meetings :
        /\ meeting[m] = "scheduled" => booked[m] # NoSlot /\ minted[m] = 0
        /\ confirmed[m] # NoSlot => booked[m] # NoSlot

\* A request ends in one way, whatever taps, give-ups, replays and late answers
\* of the calendar meet on it: a booked meeting or one task.
OneOutcome == OneFallbackTask /\ ScheduledIsBooked

\* A request that was given up ends as a task (or with the founder told to see
\* to it), over failures of the portal and deaths of the process in between.
GiveUpSettles ==
    \A m \in Meetings :
        meeting[m] \in {"fallback_pending", "fallback_creating"} ~>
            meeting[m] = "failed"

=============================================================================
