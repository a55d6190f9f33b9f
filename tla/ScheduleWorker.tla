--------------------------- MODULE ScheduleWorker ---------------------------
(***************************************************************************)
(* The schedule:due worker                                                  *)
(* (src/src/adapters/scheduling/schedule.worker.ts) over the table          *)
(* scheduled_actions (src/src/scheduling/scheduling-repo.ts): one-shot      *)
(* reminders, recurring reminders re-armed in place, and customer messages  *)
(* handed to the outbound queue, against the founder's cancel, a second     *)
(* replica, a crash, lost answers of PostgreSQL and the Telegram client's   *)
(* own retries.                                                            *)
(*                                                                         *)
(* Time is three marks on an action: it is due, its grace has expired, and  *)
(* it has been running for longer than the stuck window.                    *)
(***************************************************************************)
EXTENDS Naturals

CONSTANTS
    Replicas,      \* processes that run the worker
    OneShots,      \* reminders without recurrence
    Recurring,     \* reminders with recurrence_kind
    CustomerMessages,      \* customer messages
    Attempts,      \* DEFAULT_RETRY.attempts of the Telegram client
    MaxTurns,      \* bound of the model: occurrences of a series that fall due
    MaxMishaps     \* bound of the model: crashes and lost answers

Reminders == OneShots \cup Recurring
Actions == Reminders \cup CustomerMessages

ASSUME ScheduleKinds ==
    /\ OneShots \cap Recurring = {} /\ Reminders \cap CustomerMessages = {}
ASSUME ScheduleLimits ==
    Attempts \in Nat \ {0} /\ MaxTurns \in Nat \ {0} /\ MaxMishaps \in Nat

VARIABLES
    action,    \* the rows of scheduled_actions
    row,       \* the outbound row of a customer message, or "none"
    replica,   \* where each replica's tick is
    fired,     \* history: sends of an occurrence that were not cleanly rejected
    mishaps

scheduleVars == <<action, row, replica, fired, mishaps>>

ActionStatus == {"pending", "running", "dispatched", "completed", "cancelled",
                 "missed", "failed"}
SendResult == {"none", "sent", "rejected", "unavailable", "unknown"}
Between == [at |-> "idle", batch |-> {}, hand |-> {}, tried |-> 0, got |-> "none"]

Turns == 1..(MaxTurns + 1)

ScheduleTypeOK ==
    /\ action \in [Actions -> [status : ActionStatus, due : BOOLEAN, late : BOOLEAN,
                               stuck : BOOLEAN, turn : Turns]]
    /\ row \in [CustomerMessages -> {"none", "approved", "sent", "cancelled"}]
    /\ replica \in [Replicas ->
          [at : {"idle", "claim", "next", "send", "settle", "caught"},
           batch : SUBSET Actions, hand : SUBSET Reminders,
           tried : 0..Attempts, got : SendResult]]
    /\ fired \in [Reminders -> [Turns -> 0..2]]
    /\ mishaps \in 0..MaxMishaps
    /\ \A a \in Actions : action[a].turn > 1 => a \in Recurring

ScheduleInit ==
    /\ action = [a \in Actions |-> [status |-> "pending", due |-> FALSE, late |-> FALSE,
                                    stuck |-> FALSE, turn |-> 1]]
    /\ row = [m \in CustomerMessages |-> "none"]
    /\ replica = [w \in Replicas |-> Between]
    /\ fired = [a \in Reminders |-> [t \in Turns |-> 0]]
    /\ mishaps = 0

Status(a) == action[a].status

\* An UPDATE moves updated_at: the row is no longer stuck.
MarkTurn(a, status) ==
    action' = [action EXCEPT ![a].status = status, ![a].stuck = FALSE]

-----------------------------------------------------------------------------
(* A tick: reclaim, claim, then the claimed actions one after the other.    *)

\* Mutant of Reclaimed: interrupted reminders are left alone.
ReclaimedMessages(a) == IF a \in CustomerMessages THEN "pending" ELSE "running"

\* A message has no side effect before its dispatch commits; a reminder may
\* have been delivered.
Reclaimed(a) == IF a \in CustomerMessages THEN "pending" ELSE "failed"

ReclaimStuckActions(w) ==
    /\ replica[w].at = "idle"
    /\ action' = [a \in Actions |->
                    IF Status(a) = "running" /\ action[a].stuck
                    THEN [action[a] EXCEPT !.status = Reclaimed(a), !.stuck = FALSE]
                    ELSE action[a]]
    /\ replica' = [replica EXCEPT ![w].at = "claim"]
    /\ UNCHANGED <<row, fired, mishaps>>

Due == {a \in Actions : Status(a) = "pending" /\ action[a].due}

ClaimDueActions(w) ==
    /\ replica[w].at = "claim"
    /\ replica' = [replica EXCEPT ![w].batch = Due,
                                  ![w].at = IF Due = {} THEN "idle" ELSE "next"]
    /\ action' = [a \in Actions |-> IF a \in Due
                                    THEN [action[a] EXCEPT !.status = "running"]
                                    ELSE action[a]]
    /\ UNCHANGED <<row, fired, mishaps>>

\* The tick is done with a and goes on with the rest of its batch.
AdvanceTurn(w, a) ==
    replica' = [replica EXCEPT ![w] =
        [Between EXCEPT !.batch = replica[w].batch \ {a},
                        !.at = IF replica[w].batch = {a} THEN "idle" ELSE "next"]]

Picks(w, a) == replica[w].at = "next" /\ a \in replica[w].batch
Handles(w, a, stage) == replica[w].at = stage /\ a \in replica[w].hand

\* markActionTerminal, by status alone: the row may have been released meanwhile
MarkTerminal(a, status) ==
    IF Status(a) \in {"pending", "running"} THEN MarkTurn(a, status) ELSE UNCHANGED action

\* releaseActionForRetry
ReleaseForRetry(a) ==
    IF Status(a) = "running" THEN MarkTurn(a, "pending") ELSE UNCHANGED action

MissAction(w, a) ==
    /\ Picks(w, a) /\ action[a].late
    /\ MarkTerminal(a, "missed")
    /\ AdvanceTurn(w, a)
    /\ UNCHANGED <<row, fired, mishaps>>

\* dispatchCustomerMessage: the queue row and the status in one transaction; a
\* refused precondition is thrown, and the release that follows finds no
\* running row.
DispatchMessage(w, a) ==
    /\ Picks(w, a) /\ ~action[a].late /\ a \in CustomerMessages
    /\ IF Status(a) = "running"
       THEN /\ row' = [row EXCEPT ![a] = IF row[a] = "none" THEN "approved" ELSE row[a]]
            /\ MarkTurn(a, "dispatched")
       ELSE UNCHANGED <<row, action>>
    /\ AdvanceTurn(w, a)
    /\ UNCHANGED <<fired, mishaps>>

\* the transaction rolls back, or its answer is lost after the commit
DispatchThrows(w, a) ==
    /\ Picks(w, a) /\ ~action[a].late /\ a \in CustomerMessages
    /\ mishaps < MaxMishaps /\ mishaps' = mishaps + 1
    /\ \/ ReleaseForRetry(a) /\ UNCHANGED row
       \/ /\ Status(a) = "running"
          /\ row' = [row EXCEPT ![a] = IF row[a] = "none" THEN "approved" ELSE row[a]]
          /\ MarkTurn(a, "dispatched")
    /\ AdvanceTurn(w, a)
    /\ UNCHANGED fired

\* deliverReminder, over the primary surface: the mirrors swallow their errors.
StartReminder(w, a) ==
    /\ Picks(w, a) /\ ~action[a].late /\ a \in Reminders
    /\ replica' = [replica EXCEPT ![w].at = "send", ![w].hand = {a}]
    /\ UNCHANGED <<action, row, fired, mishaps>>

\* one more, and two stands for more than one
OneMore(n) == IF n = 0 THEN 1 ELSE 2

Fires(a) == fired' = [fired EXCEPT ![a][action[a].turn] = OneMore(@)]

SendAccepted(w, a) ==
    /\ Handles(w, a, "send")
    /\ Fires(a)
    /\ replica' = [replica EXCEPT ![w].at = "settle"]
    /\ UNCHANGED <<action, row, mishaps>>

\* withRetry: 429, 5xx, timeouts and connection errors are sent again while
\* attempts are left; the last error is the one the worker classifies.
SendAgain(w, a) ==
    /\ Handles(w, a, "send") /\ replica[w].tried + 1 < Attempts
    /\ replica' = [replica EXCEPT ![w].tried = @ + 1]
    /\ UNCHANGED <<action, row, fired, mishaps>>

SendThrows(w, a) ==
    /\ Handles(w, a, "send")
    /\ \E got \in {"rejected", "unavailable", "unknown"} :
        /\ got # "rejected" => replica[w].tried + 1 = Attempts
        /\ replica' = [replica EXCEPT ![w].at = "caught", ![w].got = got]
        /\ IF got = "unknown" THEN Fires(a) ELSE UNCHANGED fired
    /\ UNCHANGED <<action, row, mishaps>>

\* settleFiredReminder: complete, or re-arm in place to the next occurrence.
SettleFired(a) ==
    IF Status(a) # "running" THEN UNCHANGED action
    ELSE IF a \in OneShots THEN MarkTurn(a, "completed")
    ELSE action' = [action EXCEPT ![a] =
            [@ EXCEPT !.status = "pending", !.due = FALSE, !.late = FALSE,
                      !.stuck = FALSE, !.turn = action[a].turn + 1]]

SettleReminder(w, a) ==
    /\ Handles(w, a, "settle")
    /\ SettleFired(a)
    /\ AdvanceTurn(w, a)
    /\ UNCHANGED <<row, fired, mishaps>>

\* the UPDATE fails, or its answer is lost after the commit
SettleThrows(w, a) ==
    /\ Handles(w, a, "settle")
    /\ mishaps < MaxMishaps /\ mishaps' = mishaps + 1
    /\ SettleFired(a) \/ UNCHANGED action
    /\ replica' = [replica EXCEPT ![w].at = "caught", ![w].got = "unknown"]
    /\ UNCHANGED <<row, fired>>

\* Mutant of Classify: every failed reminder is released for a retry.
ClassifyAsRetry(w, a) == ReleaseForRetry(a)

\* Only a retryable error of Telegram within the grace is tried again.
Classify(w, a) ==
    IF replica[w].got = "unavailable" /\ ~action[a].late
    THEN ReleaseForRetry(a) ELSE MarkTerminal(a, "failed")

CatchReminder(w, a) ==
    /\ Handles(w, a, "caught")
    /\ Classify(w, a)
    /\ AdvanceTurn(w, a)
    /\ UNCHANGED <<row, fired, mishaps>>

\* The process dies, or the database throws outside the try: the tick is over.
ReplicaDies(w) ==
    /\ replica[w].at # "idle"
    /\ mishaps < MaxMishaps /\ mishaps' = mishaps + 1
    /\ replica' = [replica EXCEPT ![w] = Between]
    /\ UNCHANGED <<action, row, fired>>

-----------------------------------------------------------------------------
(* The founder, the drainer and the clock                                   *)

\* cancelScheduledAction; in every other status the tap is "already" or "too late"
CancelScheduled(a) ==
    /\ \/ Status(a) = "pending" /\ UNCHANGED row
       \/ /\ Status(a) = "dispatched" /\ row[a] = "approved"
          /\ row' = [row EXCEPT ![a] = "cancelled"]
    /\ MarkTurn(a, "cancelled")
    /\ UNCHANGED <<replica, fired, mishaps>>

\* the outbound drainer, whose own protocol is the module Outbound
Drain(m) ==
    /\ row[m] = "approved"
    /\ row' = [row EXCEPT ![m] = "sent"]
    /\ MarkTurn(m, "completed")
    /\ UNCHANGED <<replica, fired, mishaps>>

FallsDue(a) ==
    /\ ~action[a].due /\ action[a].turn <= MaxTurns
    /\ action' = [action EXCEPT ![a].due = TRUE]
    /\ UNCHANGED <<row, replica, fired, mishaps>>

GraceExpires(a) ==
    /\ action[a].due /\ ~action[a].late
    /\ action' = [action EXCEPT ![a].late = TRUE]
    /\ UNCHANGED <<row, replica, fired, mishaps>>

RunsLong(a) ==
    /\ Status(a) = "running" /\ ~action[a].stuck
    /\ action' = [action EXCEPT ![a].stuck = TRUE]
    /\ UNCHANGED <<row, replica, fired, mishaps>>

-----------------------------------------------------------------------------
HandleAction(w, a) ==
    \/ MissAction(w, a) \/ DispatchMessage(w, a) \/ StartReminder(w, a)
    \/ SendAccepted(w, a) \/ SendAgain(w, a) \/ SendThrows(w, a)
    \/ SettleReminder(w, a) \/ CatchReminder(w, a)

ScheduleTick(w) ==
    \/ ReclaimStuckActions(w) \/ ClaimDueActions(w)
    \/ \E a \in Actions : HandleAction(w, a)

ScheduleNext ==
    \/ \E w \in Replicas :
        \/ ScheduleTick(w) \/ ReplicaDies(w)
        \/ \E a \in Actions : DispatchThrows(w, a) \/ SettleThrows(w, a)
    \/ \E a \in Actions : CancelScheduled(a) \/ FallsDue(a) \/ GraceExpires(a) \/ RunsLong(a)
    \/ \E m \in CustomerMessages : Drain(m)

ScheduleSpec == ScheduleInit /\ [][ScheduleNext]_scheduleVars

\* startWorker runs a tick after the other for ever; time passes.
ScheduleFairness ==
    /\ \A w \in Replicas : WF_scheduleVars(ScheduleTick(w))
    /\ \A a \in Actions : WF_scheduleVars(GraceExpires(a)) /\ WF_scheduleVars(RunsLong(a))

ScheduleFairSpec == ScheduleSpec /\ ScheduleFairness

-----------------------------------------------------------------------------
\* "the series stops, never double-fires": over replicas, reclaims, releases and
\* lost commits, the worker makes at most one call for an occurrence that may
\* have delivered it.
FiresOnce == \A a \in Reminders, t \in Turns : fired[a][t] <= 1

\* A cancelled action stays silent: no reminder of it is sent afterwards, and no
\* outbound row of it is, or gets, ready to send.
CancelledIsSilent ==
    \A a \in Actions : Status(a) = "cancelled" =>
        IF a \in CustomerMessages THEN row[a] \in {"none", "cancelled"}
        ELSE \A w \in Replicas : ~Handles(w, a, "send")

\* An occurrence that falls due is sent once at most, and not at all after a
\* cancel.
OnceOrSilent == FiresOnce /\ CancelledIsSilent

\* A due occurrence is decided even if processes die and answers are lost: it
\* fires, is handed over, or ends, and none is left running for ever.
DueIsDecided ==
    \A a \in Actions, t \in 1..MaxTurns :
        (action[a].due /\ action[a].turn = t /\ Status(a) \in {"pending", "running"})
            ~> (action[a].turn > t \/ Status(a) \notin {"pending", "running"})

=============================================================================
