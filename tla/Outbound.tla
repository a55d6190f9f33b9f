------------------------------ MODULE Outbound ------------------------------
(***************************************************************************)
(* The outbound queue (agent_outbound_queue) and the drainer workers that   *)
(* send its rows: src/src/outbound/outbound-repo.ts and                     *)
(* src/src/adapters/outbound/outbound-drainer.factory.ts, with the          *)
(* scheduled actions whose messages travel through the queue                *)
(* (src/src/scheduling/scheduling-repo.ts) and the console's cancel.        *)
(*                                                                         *)
(* A drainer is one replica of the service: inside a process ticks never    *)
(* overlap.  Every step below is what happens between two awaits; two       *)
(* replicas interleave at every await.  Time is abstracted to the classes   *)
(* the code compares against: `due` says that send_after has passed, and    *)
(* `age` in which window updated_at lies.                                   *)
(***************************************************************************)
EXTENDS Integers, FiniteSets

CONSTANTS
    Drainers,             \* replicas of the outbound:drainer worker
    Nobody,               \* the holder of a free lease
    Rows,                 \* queue ids (BIGSERIAL), claimed in ascending order
    Recipients,           \* (channel_instance_id, recipient_address) pairs
    Recipient,            \* Recipient[r]: where row r goes
    Linked,               \* rows inserted by a scheduled action
    Bypass,               \* rows with bypass_send_window
    ClaimBatch,           \* CLAIM_BATCH
    RatePerHour,          \* OUTBOUND_RATE_PER_HOUR
    MaxRecipientFailures, \* the circuit breaker's threshold
    MaxSendAttempts,      \* MAX_SEND_ATTEMPTS
    MaxCrashes            \* bound of the model: crashes of drainers

ASSUME NobodyAssumption == Nobody \notin Drainers
ASSUME RowsAssumption == Rows \subseteq Nat /\ IsFiniteSet(Rows)
ASSUME RecipientAssumption == Recipient \in [Rows -> Recipients]
ASSUME LinkedAssumption == Linked \subseteq Bypass /\ Bypass \subseteq Rows
ASSUME LimitsAssumption ==
    /\ ClaimBatch \in Nat \ {0}
    /\ RatePerHour \in Nat
    /\ MaxRecipientFailures \in Nat
    /\ MaxSendAttempts \in Nat \ {0}
    /\ MaxCrashes \in Nat

VARIABLES
    status,     \* agent_outbound_queue.status; "none" before the INSERT
    retries,    \* retry_count
    due,        \* send_after IS NULL OR send_after <= now()
    age,        \* updated_at: 0 within the min gap, 1 within the status's
                \* window (stuck minutes, hour, failure window), 2 beyond it
    ambiguous,  \* last_error has the possibly-delivered prefix
    sched,      \* scheduled_actions.status of the linked action
    lease,      \* advisory lock per recipient: its holder or Nobody
    pc,         \* where drainer d is in its tick
    todo,       \* the rows of d's claimed batch it has not finished with
    outcome,    \* what adapter.send of d's current row came back with
    reached,    \* history: sends of r that may have reached the customer
    crashes     \* bound of the model: crashes so far

queue == <<status, retries, due, age, ambiguous>>
control == <<lease, pc, todo, outcome>>
vars == <<queue, sched, control, reached, crashes>>

RowStatus == {"none", "approved", "sending", "sent", "failed", "cancelled"}
ActionStatus == {"none", "pending", "running", "dispatched", "completed",
                 "cancelled", "failed"}
Outcomes == {"none", "ok", "possibly", "retriable", "permanent"}
Stages == {"idle", "claim", "config", "row", "lease", "send", "settle"}

TypeOK ==
    /\ status \in [Rows -> RowStatus]
    /\ retries \in [Rows -> 0..MaxSendAttempts]
    /\ due \in [Rows -> BOOLEAN]
    /\ age \in [Rows -> 0..2]
    /\ ambiguous \in [Rows -> BOOLEAN]
    /\ sched \in [Rows -> ActionStatus]
    /\ lease \in [Recipients -> Drainers \cup {Nobody}]
    /\ pc \in [Drainers -> Stages]
    /\ todo \in [Drainers -> SUBSET Rows]
    /\ outcome \in [Drainers -> Outcomes]
    /\ reached \in [Rows -> Nat]
    /\ crashes \in Nat

Init ==
    /\ status = [r \in Rows |-> "none"]
    /\ retries = [r \in Rows |-> 0]
    /\ due = [r \in Rows |-> FALSE]
    /\ age = [r \in Rows |-> 0]
    /\ ambiguous = [r \in Rows |-> FALSE]
    /\ sched = [r \in Rows |-> IF r \in Linked THEN "pending" ELSE "none"]
    /\ lease = [p \in Recipients |-> Nobody]
    /\ pc = [d \in Drainers |-> "idle"]
    /\ todo = [d \in Drainers |-> {}]
    /\ outcome = [d \in Drainers |-> "none"]
    /\ reached = [r \in Rows |-> 0]
    /\ crashes = 0

-----------------------------------------------------------------------------
(* The statements of outbound-repo.ts.  Each is one UPDATE by id, without a *)
(* condition on the row's status; the set_updated_at trigger makes the row  *)
(* fresh.  A linked scheduled action is updated in the same statement.      *)

Touch(S) == age' = [r \in Rows |-> IF r \in S THEN 0 ELSE age[r]]

SyncAction(S, s) ==
    sched' = [r \in Rows |-> IF r \in S \cap Linked THEN s ELSE sched[r]]

\* Mutant of MarkSent: the linked action is not completed.
MarkSentAlone(r) ==
    /\ status' = [status EXCEPT ![r] = "sent"]
    /\ ambiguous' = [ambiguous EXCEPT ![r] = FALSE]
    /\ Touch({r})
    /\ UNCHANGED <<retries, due, sched>>

MarkSent(r) ==
    /\ status' = [status EXCEPT ![r] = "sent"]
    /\ ambiguous' = [ambiguous EXCEPT ![r] = FALSE]
    /\ Touch({r})
    /\ SyncAction({r}, "completed")
    /\ UNCHANGED <<retries, due>>

DeferUntil(r) ==
    /\ status' = [status EXCEPT ![r] = "approved"]
    /\ due' = [due EXCEPT ![r] = FALSE]
    /\ Touch({r})
    /\ UNCHANGED <<retries, ambiguous, sched>>

\* Mutant of FailReview: the possibly-delivered prefix is dropped.
FailReviewClean(r, possiblyDelivered) ==
    /\ status' = [status EXCEPT ![r] = "failed"]
    /\ ambiguous' = [ambiguous EXCEPT ![r] = FALSE]
    /\ Touch({r})
    /\ SyncAction({r}, "failed")
    /\ UNCHANGED <<retries, due>>

FailReview(r, possiblyDelivered) ==
    /\ status' = [status EXCEPT ![r] = "failed"]
    /\ ambiguous' = [ambiguous EXCEPT ![r] = possiblyDelivered]
    /\ Touch({r})
    /\ SyncAction({r}, "failed")
    /\ UNCHANGED <<retries, due>>

\* Mutant of RetryLater: the budget is checked before the increment.
RetryOnceMore(r) ==
    /\ retries' = [retries EXCEPT ![r] = @ + 1]
    /\ ambiguous' = [ambiguous EXCEPT ![r] = FALSE]
    /\ Touch({r})
    /\ \/ /\ retries[r] >= MaxSendAttempts
          /\ status' = [status EXCEPT ![r] = "failed"]
          /\ SyncAction({r}, "failed")
          /\ UNCHANGED due
       \/ /\ retries[r] < MaxSendAttempts
          /\ status' = [status EXCEPT ![r] = "approved"]
          /\ due' = [due EXCEPT ![r] = FALSE]
          /\ UNCHANGED sched

RetryLater(r) ==
    /\ retries' = [retries EXCEPT ![r] = @ + 1]
    /\ ambiguous' = [ambiguous EXCEPT ![r] = FALSE]
    /\ Touch({r})
    /\ \/ /\ retries[r] + 1 >= MaxSendAttempts
          /\ status' = [status EXCEPT ![r] = "failed"]
          /\ SyncAction({r}, "failed")
          /\ UNCHANGED due
       \/ /\ retries[r] + 1 < MaxSendAttempts
          /\ status' = [status EXCEPT ![r] = "approved"]
          /\ due' = [due EXCEPT ![r] = FALSE]
          /\ UNCHANGED sched

\* What the drainer reads before it dispatches to recipient p.
RecentlySent(p) ==
    {r \in Rows : Recipient[r] = p /\ status[r] = "sent" /\ age[r] < 2}
WithinGap(p) ==
    {r \in Rows : Recipient[r] = p /\ status[r] = "sent" /\ age[r] = 0}
RecentFailures(p) ==
    {r \in Rows : /\ Recipient[r] = p /\ status[r] = "failed"
                  /\ age[r] < 2 /\ ~ambiguous[r]}

-----------------------------------------------------------------------------
(* One tick of drainer d: reclaim, claim a batch, then row after row.       *)

Goto(d, stage) == pc' = [pc EXCEPT ![d] = stage]

\* The first ClaimBatch of the rows in S, by id.
FirstBatch(S) == {r \in S : Cardinality({s \in S : s < r}) < ClaimBatch}

Claimable == {r \in Rows : status[r] = "approved" /\ due[r]}
\* Mutant of Stuck: only rows that were retried before are looked for.
StuckRetried ==
    {r \in Rows : status[r] = "sending" /\ age[r] = 2 /\ retries[r] > 0}
Stuck == {r \in Rows : status[r] = "sending" /\ age[r] = 2}

Current(d, r) == r \in todo[d] /\ \A s \in todo[d] : r <= s

\* Mutant of ReclaimStuck: stuck rows go back to be sent.
ReclaimResends(d) ==
    /\ pc[d] = "idle"
    /\ status' = [r \in Rows |-> IF r \in Stuck THEN "approved" ELSE status[r]]
    /\ Touch(Stuck)
    /\ Goto(d, "claim")
    /\ UNCHANGED <<retries, due, ambiguous, sched, lease, todo, outcome, reached,
                   crashes>>

ReclaimStuck(d) ==
    /\ pc[d] = "idle"
    /\ status' = [r \in Rows |-> IF r \in Stuck THEN "failed" ELSE status[r]]
    /\ ambiguous' = [r \in Rows |-> r \in Stuck \/ ambiguous[r]]
    /\ Touch(Stuck)
    /\ SyncAction(Stuck, "failed")
    /\ Goto(d, "claim")
    /\ UNCHANGED <<retries, due, lease, todo, outcome, reached, crashes>>

ClaimDue(d) ==
    /\ pc[d] = "claim"
    /\ LET batch == FirstBatch(Claimable) IN
        /\ status' = [r \in Rows |->
                        IF r \in batch THEN "sending" ELSE status[r]]
        /\ Touch(batch)
        /\ todo' = [todo EXCEPT ![d] = batch]
        /\ Goto(d, IF batch = {} THEN "idle" ELSE "config")
    /\ UNCHANGED <<retries, due, ambiguous, sched, lease, outcome, reached,
                   crashes>>

\* Business hours and holidays are read once per tick, after the claim; when
\* that fails the tick is over and the whole batch stays "sending".
LoadConfig(d) ==
    /\ pc[d] = "config"
    /\ \/ Goto(d, "row") /\ UNCHANGED todo
       \/ Goto(d, "idle") /\ todo' = [todo EXCEPT ![d] = {}]
    /\ UNCHANGED <<queue, sched, lease, outcome, reached, crashes>>

\* Mutant of Finish: the advisory lock is not released.
FinishKeepsLease(d, r) ==
    /\ todo' = [todo EXCEPT ![d] = @ \ {r}]
    /\ Goto(d, IF todo[d] = {r} THEN "idle" ELSE "row")
    /\ outcome' = [outcome EXCEPT ![d] = "none"]
    /\ UNCHANGED <<lease, reached, crashes>>

\* The row leaves d's hands; the recipient's lease, if d has it, is freed.
Finish(d, r) ==
    /\ todo' = [todo EXCEPT ![d] = @ \ {r}]
    /\ Goto(d, IF todo[d] = {r} THEN "idle" ELSE "row")
    /\ outcome' = [outcome EXCEPT ![d] = "none"]
    /\ lease' = [p \in Recipients |-> IF lease[p] = d THEN Nobody ELSE lease[p]]
    /\ UNCHANGED <<reached, crashes>>

\* (a, a2) no send-capable adapter, or one of another instance or channel
RefuseAdapter(d, r) ==
    /\ pc[d] = "row" /\ Current(d, r)
    /\ FailReview(r, FALSE)
    /\ Finish(d, r)

\* (b) the recipient's failure circuit breaker
PauseRecipient(d, r) ==
    /\ pc[d] = "row" /\ Current(d, r)
    /\ Cardinality(RecentFailures(Recipient[r])) >= MaxRecipientFailures
    /\ DeferUntil(r)
    /\ Finish(d, r)

\* (c) outside business hours or on a holiday
OutsideWindow(d, r) ==
    /\ pc[d] = "row" /\ Current(d, r)
    /\ Cardinality(RecentFailures(Recipient[r])) < MaxRecipientFailures
    /\ r \notin Bypass
    /\ DeferUntil(r)
    /\ Finish(d, r)

Admit(d, r) ==
    /\ pc[d] = "row" /\ Current(d, r)
    /\ Cardinality(RecentFailures(Recipient[r])) < MaxRecipientFailures
    /\ Goto(d, "lease")
    /\ UNCHANGED <<queue, sched, lease, todo, outcome, reached, crashes>>

\* (d, e) pg_try_advisory_lock, then the rate checks under the lock
LeaseBusy(d, r) ==
    /\ pc[d] = "lease" /\ Current(d, r)
    /\ lease[Recipient[r]] # Nobody
    /\ DeferUntil(r)
    /\ Finish(d, r)

RateOrGapDefer(d, r) ==
    /\ pc[d] = "lease" /\ Current(d, r)
    /\ lease[Recipient[r]] = Nobody
    /\ \/ Cardinality(RecentlySent(Recipient[r])) >= RatePerHour
       \/ WithinGap(Recipient[r]) # {}
    /\ DeferUntil(r)
    /\ Finish(d, r)

\* Mutant of TakeLease: the rate checks run without the lock.
TakeNoLease(d, r) ==
    /\ pc[d] = "lease" /\ Current(d, r)
    /\ Cardinality(RecentlySent(Recipient[r])) < RatePerHour
    /\ WithinGap(Recipient[r]) = {}
    /\ lease' = [lease EXCEPT ![Recipient[r]] = d]
    /\ Goto(d, "send")
    /\ UNCHANGED <<queue, sched, todo, outcome, reached, crashes>>

TakeLease(d, r) ==
    /\ pc[d] = "lease" /\ Current(d, r)
    /\ lease[Recipient[r]] = Nobody
    /\ Cardinality(RecentlySent(Recipient[r])) < RatePerHour
    /\ WithinGap(Recipient[r]) = {}
    /\ lease' = [lease EXCEPT ![Recipient[r]] = d]
    /\ Goto(d, "send")
    /\ UNCHANGED <<queue, sched, todo, outcome, reached, crashes>>

\* adapter.send: only "ok" and an ambiguous error can have reached anyone
Send(d, r) ==
    /\ pc[d] = "send" /\ Current(d, r)
    /\ \E o \in Outcomes \ {"none"} :
        /\ outcome' = [outcome EXCEPT ![d] = o]
        /\ reached' = IF o \in {"ok", "possibly"}
                      THEN [reached EXCEPT ![r] = @ + 1] ELSE reached
    /\ Goto(d, "settle")
    /\ UNCHANGED <<queue, sched, lease, todo, crashes>>

Sent(d, r) ==
    /\ pc[d] = "settle" /\ Current(d, r)
    /\ outcome[d] = "ok"
    /\ MarkSent(r)
    /\ Finish(d, r)

\* markSent threw inside the same try: an unclassified error
MarkSentThrows(d, r) ==
    /\ pc[d] = "settle" /\ Current(d, r)
    /\ outcome[d] = "ok"
    /\ outcome' = [outcome EXCEPT ![d] = "possibly"]
    /\ UNCHANGED <<queue, sched, lease, pc, todo, reached, crashes>>

Classify(d, r) ==
    /\ pc[d] = "settle" /\ Current(d, r)
    /\ \/ outcome[d] = "possibly" /\ FailReview(r, TRUE)
       \/ outcome[d] = "retriable" /\ RetryLater(r)
       \/ outcome[d] = "permanent" /\ FailReview(r, FALSE)
    /\ Finish(d, r)

\* A query throws outside the send: the row stays as it is and the batch
\* goes on; after a send this is the failure of classify's own UPDATE.
RowError(d, r) ==
    /\ pc[d] \in {"row", "lease", "settle"} /\ Current(d, r)
    /\ outcome[d] # "ok"
    /\ Finish(d, r)
    /\ UNCHANGED <<queue, sched>>

\* The process dies: its memory is gone, the session's lock is released.
Crash(d) ==
    /\ crashes < MaxCrashes
    /\ pc[d] # "idle"
    /\ crashes' = crashes + 1
    /\ Goto(d, "idle")
    /\ todo' = [todo EXCEPT ![d] = {}]
    /\ outcome' = [outcome EXCEPT ![d] = "none"]
    /\ lease' = [p \in Recipients |-> IF lease[p] = d THEN Nobody ELSE lease[p]]
    /\ UNCHANGED <<queue, sched, reached>>

-----------------------------------------------------------------------------
(* Everyone else: producers, the schedule worker, cancels, and time.        *)

\* enqueueOutbound, enqueueMeetingConfirmation, the approval of a draft
Enqueue(r) ==
    /\ r \notin Linked /\ status[r] = "none"
    /\ status' = [status EXCEPT ![r] = "approved"]
    /\ due' = [due EXCEPT ![r] = TRUE]
    /\ UNCHANGED <<retries, age, ambiguous, sched, control, reached, crashes>>

ClaimAction(r) ==
    /\ sched[r] = "pending"
    /\ sched' = [sched EXCEPT ![r] = "running"]
    /\ UNCHANGED <<queue, control, reached, crashes>>

\* the schedule worker's reclaim of a customer_message left running
ReclaimAction(r) ==
    /\ sched[r] = "running"
    /\ sched' = [sched EXCEPT ![r] = "pending"]
    /\ UNCHANGED <<queue, control, reached, crashes>>

\* dispatchCustomerMessage: ON CONFLICT (scheduled_action_id) DO NOTHING
Dispatch(r) ==
    /\ sched[r] = "running"
    /\ sched' = [sched EXCEPT ![r] = "dispatched"]
    /\ status' = IF status[r] = "none" THEN [status EXCEPT ![r] = "approved"]
                                       ELSE status
    /\ due' = IF status[r] = "none" THEN [due EXCEPT ![r] = TRUE] ELSE due
    /\ UNCHANGED <<retries, age, ambiguous, control, reached, crashes>>

CancelAction(r) ==
    /\ \/ sched[r] = "pending" /\ UNCHANGED <<status, age>>
       \/ /\ sched[r] = "dispatched" /\ status[r] = "approved"
          /\ status' = [status EXCEPT ![r] = "cancelled"]
          /\ Touch({r})
    /\ sched' = [sched EXCEPT ![r] = "cancelled"]
    /\ UNCHANGED <<retries, due, ambiguous, control, reached, crashes>>

\* Mutant of CancelOutbound: a row that is being sent can be cancelled too.
CancelInFlight(r) ==
    /\ status[r] \in {"approved", "sending"}
    /\ status' = [status EXCEPT ![r] = "cancelled"]
    /\ Touch({r})
    /\ UNCHANGED <<retries, due, ambiguous, sched, control, reached, crashes>>

\* Mutant of CancelOutbound: a row that has failed can be cancelled too.
CancelFailed(r) ==
    /\ status[r] \in {"approved", "failed"}
    /\ status' = [status EXCEPT ![r] = "cancelled"]
    /\ Touch({r})
    /\ UNCHANGED <<retries, due, ambiguous, sched, control, reached, crashes>>

\* the console's cancelOutbound: the linked action is not told
CancelOutbound(r) ==
    /\ status[r] = "approved"
    /\ status' = [status EXCEPT ![r] = "cancelled"]
    /\ Touch({r})
    /\ UNCHANGED <<retries, due, ambiguous, sched, control, reached, crashes>>

SendAfterPasses(r) ==
    /\ status[r] = "approved" /\ ~due[r]
    /\ due' = [due EXCEPT ![r] = TRUE]
    /\ UNCHANGED <<status, retries, age, ambiguous, sched, control, reached,
                   crashes>>

\* Only the ages some query compares: stuck rows, sent rows, genuine failures;
\* the minimum gap matters for sent rows alone.
TimePasses(r) ==
    /\ status[r] \in {"sending", "sent"} \/ (status[r] = "failed" /\ ~ambiguous[r])
    /\ age[r] < 2
    /\ age' = [age EXCEPT ![r] = IF status[r] = "sent" THEN @ + 1 ELSE 2]
    /\ UNCHANGED <<status, retries, due, ambiguous, sched, control, reached,
                   crashes>>

-----------------------------------------------------------------------------
ProcessRow(d, r) ==
    \/ RefuseAdapter(d, r) \/ PauseRecipient(d, r) \/ OutsideWindow(d, r)
    \/ Admit(d, r) \/ LeaseBusy(d, r) \/ RateOrGapDefer(d, r)
    \/ TakeLease(d, r) \/ Send(d, r) \/ Sent(d, r) \/ MarkSentThrows(d, r)
    \/ Classify(d, r) \/ RowError(d, r)

Tick(d) ==
    \/ ReclaimStuck(d) \/ ClaimDue(d) \/ LoadConfig(d)
    \/ \E r \in Rows : ProcessRow(d, r)

Others(r) ==
    \/ Enqueue(r) \/ ClaimAction(r) \/ ReclaimAction(r) \/ Dispatch(r)
    \/ CancelAction(r) \/ CancelOutbound(r)

Clock(r) == SendAfterPasses(r) \/ TimePasses(r)

Next ==
    \/ \E d \in Drainers : Tick(d) \/ Crash(d)
    \/ \E r \in Rows : Others(r) \/ Clock(r)

Spec == Init /\ [][Next]_vars

\* The worker runner ticks for ever, awaits return, and time passes.
Fairness ==
    /\ \A d \in Drainers : WF_vars(Tick(d))
    /\ \A r \in Rows : WF_vars(SendAfterPasses(r)) /\ WF_vars(TimePasses(r))

FairSpec == Spec /\ Fairness

-----------------------------------------------------------------------------
(* What the queue promises.                                                 *)

\* whatsapp_manager has no idempotency key, so a message that may have
\* reached the customer is never sent again: not by a retry, a reclaim, a
\* restart or the other replica.
AtMostOneDelivery == \A r \in Rows : reached[r] <= 1

\* A message the founder cancelled, in the console or through its scheduled
\* action, never reaches the customer, whatever a drainer was doing with it.
CancelledNeverReached ==
    \A r \in Rows :
        status[r] = "cancelled" \/ sched[r] = "cancelled" => reached[r] = 0

\* Over all replicas a recipient gets at most RatePerHour recorded sends an
\* hour, and no two within the minimum gap: the lease makes the reads of the
\* rate checks and the send they admit one critical section.
PacedSends ==
    \A p \in Recipients : /\ Cardinality(RecentlySent(p)) <= RatePerHour
                          /\ Cardinality(WithinGap(p)) <= 1

\* A message that may have reached the customer is recorded as sent or as a
\* possibly-delivered failure, once nobody is sending it: never as a clean
\* failure, which would count against the recipient, nor as still to send.
DeliveryRecorded ==
    \A r \in Rows :
        reached[r] > 0 => \/ status[r] \in {"sending", "sent"}
                          \/ status[r] = "failed" /\ ambiguous[r]

\* What /scheduled shows of a customer message is what became of its row:
\* completed exactly when it was sent, failed when it failed, and a
\* cancelled action leaves nothing in the queue to send.
ActionFollowsRow ==
    \A r \in Linked :
        /\ status[r] = "sent" <=> sched[r] = "completed"
        /\ status[r] = "failed" => sched[r] = "failed"
        /\ sched[r] = "cancelled" => status[r] \in {"none", "cancelled"}

\* A claimed row does not stay "sending": its drainer settles it, or the
\* age-based reclaim does after a crash, a failed query or a failed tick.
NoStrandedRow ==
    \A r \in Rows : status[r] = "sending" ~> status[r] # "sending"

\* A row exempt from the send window gets an answer: pauses, rate deferrals,
\* busy leases, retries and bounded crashes postpone it, never for ever.
ApprovedIsAnswered ==
    \A r \in Bypass :
        status[r] = "approved" ~> status[r] \in {"sent", "failed", "cancelled"}

\* "-> 'failed' (possibly delivered - NO resend) ... reclaiming by AGE (never
\* a status flip back to 'approved')": a failed row stays failed.
FailedIsTerminal ==
    [][\A r \in Rows : status[r] = "failed" => status'[r] = "failed"]_vars

=============================================================================
