--------------------------- MODULE OutboundProofs ---------------------------
(***************************************************************************)
(* Theorems about Outbound for every number of replicas, rows, recipients   *)
(* and every value of the limits.                                           *)
(***************************************************************************)
EXTENDS OutboundDelivery, FiniteSetTheorems, TLAPS

\* A row is in the hands of one drainer at most.  While it is, it is
\* "sending", or a replica's reclaim has already failed it.
HeldInv ==
    /\ \A d \in Drainers : pc[d] \in {"idle", "claim"} => todo[d] = {}
    /\ \A d, e \in Drainers : d # e => todo[d] \cap todo[e] = {}
    /\ \A d \in Drainers : \A r \in todo[d] :
        \/ status[r] = "sending"
        \/ status[r] = "failed" /\ ambiguous[r]

\* A row that can still be sent has an attempt left.
RetryInv ==
    /\ \A r \in Rows : status[r] = "none" => retries[r] = 0
    /\ \A r \in Rows : status[r] = "approved" => retries[r] < MaxSendAttempts
    /\ \A d \in Drainers : \A r \in todo[d] : retries[r] < MaxSendAttempts

\* Whoever sends holds the recipient's lease.
LeaseInv ==
    \A d \in Drainers : \A r \in Rows :
        pc[d] \in {"send", "settle"} /\ Current(d, r) => lease[Recipient[r]] = d

\* Nothing that may have reached the customer is left to be sent: only the
\* row whose send has just returned can be both held and delivered.
ReachedInv ==
    /\ \A r \in Rows :
        status[r] \in {"none", "approved", "cancelled"} => reached[r] = 0
    /\ \A d \in Drainers : \A r \in todo[d] :
        pc[d] # "settle" \/ ~Current(d, r) => reached[r] = 0
    /\ \A d \in Drainers : \A r \in Rows :
        pc[d] = "settle" /\ Current(d, r) =>
            reached[r] = IF outcome[d] \in {"ok", "possibly"} THEN 1 ELSE 0

\* The linked action's status against its row's.
ActionInv ==
    /\ \A r \in Rows \ Linked : sched[r] = "none"
    /\ \A r \in Linked : sched[r] \in {"pending", "running"} => status[r] = "none"

\* The whole inductive invariant but for the pacing.
IInv ==
    /\ TypeOK /\ HeldInv /\ RetryInv /\ LeaseInv /\ ReachedInv /\ ActionInv
    /\ AtMostOneDelivery /\ DeliveryRecorded /\ ActionFollowsRow

-----------------------------------------------------------------------------
USE RowsAssumption, NobodyAssumption, RecipientAssumption, LinkedAssumption,
    LimitsAssumption

\* The empty queue satisfies the invariant.
LEMMA InitIInv == Init => IInv
BY SMT DEF Init, IInv, TypeOK, HeldInv, RetryInv, LeaseInv, ReachedInv,
    ActionInv, AtMostOneDelivery, DeliveryRecorded, ActionFollowsRow, Current,
    RowStatus, ActionStatus, Outcomes, Stages

\* retry_count + 1 stays within the budget while the row has an attempt left.
LEMMA OneMoreTry ==
    ASSUME NEW f \in [Rows -> 0..MaxSendAttempts], NEW r \in Rows,
           f[r] < MaxSendAttempts
    PROVE  [f EXCEPT ![r] = f[r] + 1] \in [Rows -> 0..MaxSendAttempts]
OBVIOUS

\* Every step keeps the types; RetryInv keeps retry_count within the budget.
LEMMA TypeStep == IInv /\ [Next]_vars => TypeOK'
<1> SUFFICES ASSUME IInv, [Next]_vars PROVE TypeOK'
  OBVIOUS
<1> USE DEF IInv, TypeOK, RowStatus, ActionStatus, Outcomes, Stages, queue,
    control, Goto, Touch, SyncAction, Finish
<1>1. ASSUME NEW d \in Drainers, ReclaimStuck(d) PROVE TypeOK'
  BY <1>1 DEF ReclaimStuck
<1>2. ASSUME NEW d \in Drainers, ClaimDue(d) PROVE TypeOK'
  BY <1>2 DEF ClaimDue, FirstBatch, Claimable
<1>3. ASSUME NEW d \in Drainers, LoadConfig(d) PROVE TypeOK'
  BY <1>3 DEF LoadConfig
<1>4. ASSUME NEW d \in Drainers, Crash(d) PROVE TypeOK'
  BY <1>4 DEF Crash
<1>5. ASSUME NEW d \in Drainers, NEW r \in Rows, ProcessRow(d, r) PROVE TypeOK'
  <2>1. CASE RefuseAdapter(d, r)
    BY <2>1 DEF RefuseAdapter, FailReview
  <2>2. CASE PauseRecipient(d, r) \/ OutsideWindow(d, r) \/ LeaseBusy(d, r)
             \/ RateOrGapDefer(d, r)
    <3>1. DeferUntil(r) /\ Finish(d, r)
      BY <2>2 DEF PauseRecipient, OutsideWindow, LeaseBusy, RateOrGapDefer
    <3> QED
      BY <3>1 DEF DeferUntil
  <2>3. CASE Admit(d, r) \/ TakeLease(d, r)
    BY <2>3 DEF Admit, TakeLease
  <2>4. CASE Send(d, r)
    BY <2>4 DEF Send
  <2>5. CASE Sent(d, r)
    BY <2>5 DEF Sent, MarkSent
  <2>6. CASE MarkSentThrows(d, r)
    BY <2>6 DEF MarkSentThrows
  <2>7. CASE Classify(d, r)
    <3>1. r \in todo[d] /\ Finish(d, r)
      BY <2>7 DEF Classify, Current
    <3>2. CASE RetryLater(r)
      <4>1. retries[r] \in Nat /\ retries[r] < MaxSendAttempts
        BY <3>1 DEF RetryInv
      <4>2. retries' \in [Rows -> 0..MaxSendAttempts]
        <5>1. retries \in [Rows -> 0..MaxSendAttempts]
          OBVIOUS
        <5>2. retries' = [retries EXCEPT ![r] = retries[r] + 1]
          BY <3>2 DEF RetryLater
        <5> QED
          BY <4>1, <5>1, <5>2, OneMoreTry
      <4>3. /\ status' \in [Rows -> RowStatus] /\ due' \in [Rows -> BOOLEAN]
            /\ sched' \in [Rows -> ActionStatus]
        <5>1. CASE retries[r] + 1 >= MaxSendAttempts
          <6>1. /\ status' = [status EXCEPT ![r] = "failed"]
                /\ SyncAction({r}, "failed") /\ UNCHANGED due
            BY <3>2, <4>1, <5>1 DEF RetryLater
          <6> QED
            BY <6>1
        <5>2. CASE retries[r] + 1 < MaxSendAttempts
          <6>1. /\ status' = [status EXCEPT ![r] = "approved"]
                /\ due' = [due EXCEPT ![r] = FALSE] /\ UNCHANGED sched
            BY <3>2, <4>1, <5>2 DEF RetryLater
          <6> QED
            BY <6>1
        <5> QED
          BY <4>1, <5>1, <5>2
      <4>4. /\ age' \in [Rows -> 0..2] /\ ambiguous' \in [Rows -> BOOLEAN]
        BY <3>2 DEF RetryLater
      <4> QED
        BY <3>1, <4>2, <4>3, <4>4
    <3>3. CASE FailReview(r, TRUE)
      BY <3>1, <3>3 DEF FailReview
    <3>4. CASE FailReview(r, FALSE)
      BY <3>1, <3>4 DEF FailReview
    <3> QED
      BY <2>7, <3>2, <3>3, <3>4 DEF Classify
  <2>8. CASE RowError(d, r)
    BY <2>8 DEF RowError
  <2> QED
    BY <1>5, <2>1, <2>2, <2>3, <2>4, <2>5, <2>6, <2>7, <2>8 DEF ProcessRow
<1>6. ASSUME NEW r \in Rows, Others(r) PROVE TypeOK'
  <2>1. CASE Enqueue(r)
    BY <2>1 DEF Enqueue
  <2>2. CASE ClaimAction(r) \/ ReclaimAction(r)
    BY <2>2 DEF ClaimAction, ReclaimAction
  <2>3. CASE Dispatch(r)
    BY <2>3 DEF Dispatch
  <2>4. CASE CancelAction(r)
    BY <2>4 DEF CancelAction
  <2>5. CASE CancelOutbound(r)
    BY <2>5 DEF CancelOutbound
  <2> QED
    BY <1>6, <2>1, <2>2, <2>3, <2>4, <2>5 DEF Others
<1>7. ASSUME NEW r \in Rows, Clock(r) PROVE TypeOK'
  <2>1. CASE SendAfterPasses(r)
    BY <2>1 DEF SendAfterPasses
  <2>2. CASE TimePasses(r)
    BY <2>2 DEF TimePasses
  <2> QED
    BY <1>7, <2>1, <2>2 DEF Clock
<1>8. CASE UNCHANGED vars
  BY <1>8 DEF vars
<1> QED
  BY <1>1, <1>2, <1>3, <1>4, <1>5, <1>6, <1>7, <1>8 DEF Next, Tick

-----------------------------------------------------------------------------
(* What the actions do to a row, in the shape the invariants need.           *)

Same(x) ==
    /\ status'[x] = status[x] /\ ambiguous'[x] = ambiguous[x]
    /\ retries'[x] = retries[x] /\ sched'[x] = sched[x]
    /\ reached'[x] = reached[x] /\ age'[x] = age[x]

OnlyRow(r) == \A x \in Rows \ {r} : Same(x)

Becomes(r, s, a) ==
    /\ status'[r] = s
    /\ sched'[r] = IF r \in Linked THEN a ELSE sched[r]

\* The row leaves the drainer's hands in one of six ways.
Settled(d, r) ==
    /\ pc[d] \in {"row", "lease", "settle"} /\ Current(d, r)
    /\ Finish(d, r) /\ OnlyRow(r) /\ reached'[r] = reached[r]
    /\ \/ /\ pc[d] \in {"row", "lease"} /\ status'[r] = "approved"
          /\ sched'[r] = sched[r] /\ retries'[r] = retries[r]
       \/ /\ pc[d] = "row" \/ outcome[d] = "permanent"
          /\ Becomes(r, "failed", "failed") /\ retries'[r] = retries[r]
       \/ /\ pc[d] = "settle" /\ outcome[d] = "possibly"
          /\ Becomes(r, "failed", "failed") /\ ambiguous'[r]
          /\ retries'[r] = retries[r]
       \/ /\ pc[d] = "settle" /\ outcome[d] = "retriable"
          /\ \/ Becomes(r, "failed", "failed")
             \/ /\ status'[r] = "approved" /\ sched'[r] = sched[r]
                /\ retries'[r] < MaxSendAttempts
       \/ /\ pc[d] = "settle" /\ outcome[d] = "ok"
          /\ Becomes(r, "sent", "completed") /\ retries'[r] = retries[r]
       \/ outcome[d] # "ok" /\ Same(r)

\* A pause, a closed window, a busy lease or a rate limit settles the row.
LEMMA DeferSettles ==
    ASSUME TypeOK, NEW d \in Drainers, NEW r \in Rows,
           pc[d] \in {"row", "lease"}, Current(d, r), DeferUntil(r),
           Finish(d, r)
    PROVE  Settled(d, r)
BY DEF TypeOK, DeferUntil, Finish, Settled, OnlyRow, Same, Touch

\* A refusal or a failed send settles the row.
LEMMA FailSettles ==
    ASSUME TypeOK, NEW d \in Drainers, NEW r \in Rows, Current(d, r),
           NEW b \in BOOLEAN, FailReview(r, b), Finish(d, r),
           \/ pc[d] = "row"
           \/ pc[d] = "settle" /\ outcome[d] = "permanent"
           \/ pc[d] = "settle" /\ outcome[d] = "possibly" /\ b
    PROVE  Settled(d, r)
<1>1. OnlyRow(r) /\ reached'[r] = reached[r]
  BY DEF TypeOK, FailReview, SyncAction, Finish, OnlyRow, Same, Touch
<1>2. /\ Becomes(r, "failed", "failed") /\ ambiguous'[r] = b
      /\ retries'[r] = retries[r]
  BY DEF TypeOK, FailReview, SyncAction, Becomes
<1> QED
  BY <1>1, <1>2 DEF Settled

\* A retriable failure settles the row, as approved or, exhausted, as failed.
LEMMA RetrySettles ==
    ASSUME TypeOK, NEW d \in Drainers, NEW r \in Rows, Current(d, r),
           RetryLater(r), Finish(d, r), pc[d] = "settle",
           outcome[d] = "retriable"
    PROVE  Settled(d, r)
<1>1. OnlyRow(r) /\ reached'[r] = reached[r]
  BY DEF TypeOK, RetryLater, SyncAction, Finish, OnlyRow, Same, Touch
<1>2. retries'[r] = retries[r] + 1 /\ retries[r] \in Nat
  BY DEF TypeOK, RetryLater
<1>3. \/ Becomes(r, "failed", "failed")
      \/ /\ status'[r] = "approved" /\ sched'[r] = sched[r]
         /\ retries'[r] < MaxSendAttempts
  BY <1>2 DEF TypeOK, RetryLater, SyncAction, Becomes
<1> QED
  BY <1>1, <1>3 DEF Settled

\* A recorded send settles the row.
LEMMA SentSettles ==
    ASSUME TypeOK, NEW d \in Drainers, NEW r \in Rows, Sent(d, r)
    PROVE  Settled(d, r)
<1>1. OnlyRow(r) /\ reached'[r] = reached[r]
  BY DEF TypeOK, Sent, MarkSent, SyncAction, Finish, OnlyRow, Same, Touch
<1>2. Becomes(r, "sent", "completed") /\ retries'[r] = retries[r]
  BY DEF TypeOK, Sent, MarkSent, SyncAction, Becomes
<1> QED
  BY <1>1, <1>2 DEF Settled, Sent

\* Every step of a drainer on a row either settles it or goes on with it.
LEMMA RowSteps ==
    ASSUME TypeOK, NEW d \in Drainers, NEW r \in Rows, ProcessRow(d, r)
    PROVE  \/ Settled(d, r)
           \/ Admit(d, r) \/ TakeLease(d, r) \/ Send(d, r)
           \/ MarkSentThrows(d, r)
<1>1. CASE RefuseAdapter(d, r)
  BY <1>1, FailSettles DEF RefuseAdapter
<1>2. CASE PauseRecipient(d, r) \/ OutsideWindow(d, r) \/ LeaseBusy(d, r)
           \/ RateOrGapDefer(d, r)
  <2>1. /\ pc[d] \in {"row", "lease"} /\ Current(d, r) /\ DeferUntil(r)
        /\ Finish(d, r)
    BY <1>2 DEF PauseRecipient, OutsideWindow, LeaseBusy, RateOrGapDefer
  <2> QED
    BY <2>1, DeferSettles
<1>3. CASE Sent(d, r)
  BY <1>3, SentSettles
<1>4. CASE Classify(d, r)
  <2>1. CASE outcome[d] = "possibly" /\ FailReview(r, TRUE)
    BY <1>4, <2>1, FailSettles DEF Classify
  <2>2. CASE outcome[d] = "retriable" /\ RetryLater(r)
    BY <1>4, <2>2, RetrySettles DEF Classify
  <2>3. CASE outcome[d] = "permanent" /\ FailReview(r, FALSE)
    BY <1>4, <2>3, FailSettles DEF Classify
  <2> QED
    BY <1>4, <2>1, <2>2, <2>3 DEF Classify
<1>5. CASE RowError(d, r)
  BY <1>5 DEF TypeOK, RowError, Finish, Settled, OnlyRow, Same, queue
<1> QED
  BY <1>1, <1>2, <1>3, <1>4, <1>5 DEF ProcessRow

\* Everyone but the drainers touches one row, in one of five ways.
Touched(r) ==
    /\ UNCHANGED control /\ OnlyRow(r)
    /\ retries'[r] = retries[r] /\ reached'[r] = reached[r]
    /\ ambiguous'[r] = ambiguous[r]
    /\ status'[r] = "sent" => age'[r] >= age[r]
    /\ \/ /\ r \notin Linked /\ status[r] = "none"
          /\ status'[r] = "approved" /\ sched'[r] = sched[r]
       \/ /\ sched[r] \in {"pending", "running"}
          /\ sched'[r] \in {"pending", "running", "cancelled"}
          /\ status'[r] = status[r]
       \/ /\ sched[r] = "running" /\ sched'[r] = "dispatched"
          /\ status'[r] = IF status[r] = "none" THEN "approved" ELSE status[r]
       \/ /\ status[r] = "approved" /\ status'[r] = "cancelled"
          /\ \/ sched'[r] = sched[r]
             \/ sched[r] = "dispatched" /\ sched'[r] = "cancelled"
       \/ status'[r] = status[r] /\ sched'[r] = sched[r]

\* What producers, the schedule worker and cancels do to the rows.
LEMMA OtherSteps ==
    ASSUME TypeOK, NEW r \in Rows, Others(r) \/ Clock(r)
    PROVE  Touched(r)
<1> USE DEF TypeOK, Touched, OnlyRow, Same, control, queue, Touch
<1>1. CASE Enqueue(r)
  BY <1>1 DEF Enqueue
<1>2. CASE ClaimAction(r) \/ ReclaimAction(r)
  BY <1>2 DEF ClaimAction, ReclaimAction
<1>3. CASE Dispatch(r)
  BY <1>3 DEF Dispatch
<1>4. CASE CancelAction(r)
  BY <1>4 DEF CancelAction
<1>5. CASE CancelOutbound(r)
  BY <1>5 DEF CancelOutbound
<1>6. CASE Clock(r)
  BY <1>6 DEF Clock, SendAfterPasses, TimePasses
<1> QED
  BY <1>1, <1>2, <1>3, <1>4, <1>5, <1>6 DEF Others

-----------------------------------------------------------------------------
(* Every step preserves each part of the invariant.                          *)

\* A row is in the hands of one drainer at most, and one that is to be sent
\* again is in nobody's.
LEMMA HeldStep == IInv /\ [Next]_vars => HeldInv'
<1> SUFFICES ASSUME IInv, [Next]_vars PROVE HeldInv'
  OBVIOUS
<1> USE DEF IInv, HeldInv
<1>1. ASSUME NEW d \in Drainers, ReclaimStuck(d) PROVE HeldInv'
  BY <1>1 DEF TypeOK, ReclaimStuck, Stuck, Goto, Touch
<1>2. ASSUME NEW d \in Drainers, ClaimDue(d) PROVE HeldInv'
  BY <1>2 DEF TypeOK, ClaimDue, Claimable, FirstBatch, Goto, Touch
<1>3. ASSUME NEW d \in Drainers, LoadConfig(d) \/ Crash(d) PROVE HeldInv'
  <2>1. todo'[d] \in {todo[d], {}}
    BY <1>3 DEF TypeOK, LoadConfig, Crash
  <2>2. pc'[d] = "idle" => todo'[d] = {}
    BY <1>3 DEF TypeOK, LoadConfig, Crash, Goto
  <2>3. pc'[d] # "claim"
    BY <1>3 DEF TypeOK, LoadConfig, Crash, Goto
  <2>4. /\ UNCHANGED queue
        /\ \A e \in Drainers \ {d} : pc'[e] = pc[e] /\ todo'[e] = todo[e]
    BY <1>3 DEF TypeOK, LoadConfig, Crash, Goto
  <2> QED
    BY <2>1, <2>2, <2>3, <2>4 DEF queue
<1>4. ASSUME NEW d \in Drainers, NEW r \in Rows, Settled(d, r) PROVE HeldInv'
  BY <1>4 DEF TypeOK, Settled, OnlyRow, Same, Becomes, Finish, Goto, Current
<1>5. ASSUME NEW d \in Drainers, NEW r \in Rows,
             \/ Admit(d, r) \/ TakeLease(d, r) \/ Send(d, r)
             \/ MarkSentThrows(d, r)
      PROVE  HeldInv'
  <2>1. CASE Admit(d, r)
    BY <2>1 DEF TypeOK, Admit, Goto, queue, Current
  <2>2. CASE TakeLease(d, r)
    BY <2>2 DEF TypeOK, TakeLease, Goto, queue, Current
  <2>3. CASE Send(d, r)
    BY <2>3 DEF TypeOK, Send, Goto, queue, Current
  <2>4. CASE MarkSentThrows(d, r)
    BY <2>4 DEF TypeOK, MarkSentThrows, Goto, queue, Current
  <2> QED
    BY <1>5, <2>1, <2>2, <2>3, <2>4
<1>6. ASSUME NEW r \in Rows, Others(r) \/ Clock(r) PROVE HeldInv'
  <2>0. Touched(r)
    BY <1>6, OtherSteps
  <2>1. UNCHANGED <<pc, todo>>
    BY <2>0 DEF Touched, control
  <2>2. \A x \in Rows : status'[x] # status[x] =>
            status[x] \in {"none", "approved"}
    BY <2>0 DEF TypeOK, Touched, OnlyRow, Same
  <2>3. \A x \in Rows : ambiguous'[x] = ambiguous[x]
    BY <2>0 DEF TypeOK, Touched, OnlyRow, Same
  <2> QED
    BY <2>1, <2>2, <2>3 DEF TypeOK
<1>7. CASE UNCHANGED vars
  BY <1>7 DEF vars, queue, control
<1> QED
  BY <1>1, <1>2, <1>3, <1>4, <1>5, <1>6, <1>7, RowSteps DEF Next, Tick

\* A row that can still be claimed has an attempt left.
LEMMA RetryStep == IInv /\ [Next]_vars => RetryInv'
<1> SUFFICES ASSUME IInv, [Next]_vars PROVE RetryInv'
  OBVIOUS
<1> USE DEF IInv, RetryInv
<1>1. ASSUME NEW d \in Drainers, ReclaimStuck(d) PROVE RetryInv'
  BY <1>1 DEF TypeOK, ReclaimStuck, Stuck, Goto, Touch
<1>2. ASSUME NEW d \in Drainers, ClaimDue(d) PROVE RetryInv'
  BY <1>2 DEF TypeOK, ClaimDue, Claimable, FirstBatch, Goto, Touch
<1>3. ASSUME NEW d \in Drainers, LoadConfig(d) \/ Crash(d) PROVE RetryInv'
  BY <1>3 DEF TypeOK, LoadConfig, Crash, Goto, queue
<1>4. ASSUME NEW d \in Drainers, NEW r \in Rows, Settled(d, r) PROVE RetryInv'
  BY <1>4 DEF TypeOK, Settled, OnlyRow, Same, Becomes, Finish, Goto, Current, HeldInv
<1>5. ASSUME NEW d \in Drainers, NEW r \in Rows,
             \/ Admit(d, r) \/ TakeLease(d, r) \/ Send(d, r)
             \/ MarkSentThrows(d, r)
      PROVE  RetryInv'
  BY <1>5 DEF TypeOK, Admit, TakeLease, Send, MarkSentThrows, Goto, queue, Current
<1>6. ASSUME NEW r \in Rows, Others(r) \/ Clock(r) PROVE RetryInv'
  <2>0. Touched(r)
    BY <1>6, OtherSteps
  <2>1. UNCHANGED todo /\ \A x \in Rows : retries'[x] = retries[x]
    BY <2>0 DEF Touched, control, OnlyRow, Same
  <2>2. /\ \A x \in Rows : status'[x] = "none" => status[x] = "none"
        /\ \A x \in Rows :
            status'[x] = "approved" => status[x] \in {"none", "approved"}
    BY <2>0 DEF TypeOK, Touched, ActionInv, OnlyRow, Same
  <2>3. 0 < MaxSendAttempts
    OBVIOUS
  <2>4. \A x \in Rows : status'[x] = "none" => retries'[x] = 0
    BY <2>1, <2>2
  <2>5. \A x \in Rows : status'[x] = "approved" => retries'[x] < MaxSendAttempts
    <3> SUFFICES ASSUME NEW x \in Rows, status'[x] = "approved"
                 PROVE  retries'[x] < MaxSendAttempts
      OBVIOUS
    <3>0. retries'[x] = retries[x]
      BY <2>1
    <3>1. CASE status[x] = "approved"
      BY <3>0, <3>1
    <3>2. CASE status[x] = "none"
      <4>1. retries[x] = 0
        BY <3>2
      <4> QED
        BY <3>0, <4>1, <2>3
    <3> QED
      BY <2>2, <3>1, <3>2
  <2>6. \A d \in Drainers : \A x \in todo'[d] : retries'[x] < MaxSendAttempts
    BY <2>1 DEF TypeOK
  <2> QED
    BY <2>4, <2>5, <2>6
<1>7. CASE UNCHANGED vars
  BY <1>7 DEF vars, queue, control
<1> QED
  BY <1>1, <1>2, <1>3, <1>4, <1>5, <1>6, <1>7, RowSteps DEF Next, Tick

\* Who is about to send, or has sent, holds the recipient's lease.
LEMMA LeaseStep == IInv /\ [Next]_vars => LeaseInv'
<1> SUFFICES ASSUME IInv, [Next]_vars PROVE LeaseInv'
  OBVIOUS
<1> USE DEF IInv, LeaseInv
<1>1. ASSUME NEW d \in Drainers, ReclaimStuck(d) PROVE LeaseInv'
  BY <1>1 DEF TypeOK, ReclaimStuck, Stuck, Goto, Touch, Current
<1>2. ASSUME NEW d \in Drainers, ClaimDue(d) PROVE LeaseInv'
  BY <1>2 DEF TypeOK, ClaimDue, Claimable, FirstBatch, Goto, Touch, Current
<1>3. ASSUME NEW d \in Drainers, LoadConfig(d) \/ Crash(d) PROVE LeaseInv'
  BY <1>3 DEF TypeOK, LoadConfig, Crash, Goto, queue, Current, HeldInv
<1>4. ASSUME NEW d \in Drainers, NEW r \in Rows, Settled(d, r) PROVE LeaseInv'
  BY <1>4 DEF TypeOK, Settled, OnlyRow, Same, Becomes, Finish, Goto, Current
<1>5. ASSUME NEW d \in Drainers, NEW r \in Rows,
             \/ Admit(d, r) \/ TakeLease(d, r) \/ Send(d, r)
             \/ MarkSentThrows(d, r)
      PROVE  LeaseInv'
  <2>1. CASE Admit(d, r)
    BY <2>1 DEF TypeOK, Admit, Goto, queue, Current
  <2>2. CASE TakeLease(d, r)
    <3>1. /\ lease[Recipient[r]] = Nobody /\ Current(d, r)
          /\ lease' = [lease EXCEPT ![Recipient[r]] = d]
          /\ pc' = [pc EXCEPT ![d] = "send"] /\ todo' = todo
      BY <2>2 DEF TakeLease, Goto
    <3>2. ASSUME NEW e \in Drainers, NEW x \in Rows,
                 pc'[e] \in {"send", "settle"}, Current(e, x)'
          PROVE  lease'[Recipient[x]] = e
      <4>1. Current(e, x)
        BY <3>1, <3>2 DEF Current
      <4>2. CASE e = d
        <5>1. x = r
          <6>1. x <= r /\ r <= x
            BY <3>1, <4>1, <4>2 DEF Current
          <6> QED
            BY <6>1
        <5> QED
          BY <3>1, <4>2, <5>1 DEF TypeOK
      <4>3. CASE e # d
        <5>1. lease[Recipient[x]] = e
          BY <3>1, <3>2, <4>1, <4>3 DEF TypeOK
        <5>2. e # Nobody
          OBVIOUS
        <5> QED
          BY <3>1, <5>1, <5>2 DEF TypeOK
      <4> QED
        BY <4>2, <4>3
    <3> QED
      BY <3>2
  <2>3. CASE Send(d, r)
    BY <2>3 DEF TypeOK, Send, Goto, queue, Current
  <2>4. CASE MarkSentThrows(d, r)
    BY <2>4 DEF TypeOK, MarkSentThrows, Goto, queue, Current
  <2> QED
    BY <1>5, <2>1, <2>2, <2>3, <2>4
<1>6. ASSUME NEW r \in Rows, Others(r) \/ Clock(r) PROVE LeaseInv'
  <2>1. Touched(r)
    BY <1>6, OtherSteps
  <2> QED
    BY <2>1 DEF TypeOK, Touched, OnlyRow, Same, control, Current
<1>7. CASE UNCHANGED vars
  BY <1>7 DEF vars, queue, control, Current
<1> QED
  BY <1>1, <1>2, <1>3, <1>4, <1>5, <1>6, <1>7, RowSteps DEF Next, Tick

\* A linked action has been dispatched when its row exists.
LEMMA ActionStep == IInv /\ [Next]_vars => ActionInv'
<1> SUFFICES ASSUME IInv, [Next]_vars PROVE ActionInv'
  OBVIOUS
<1> USE DEF IInv, ActionInv
<1>1. ASSUME NEW d \in Drainers, ReclaimStuck(d) PROVE ActionInv'
  BY <1>1 DEF TypeOK, ReclaimStuck, Stuck, Goto, Touch, SyncAction
<1>2. ASSUME NEW d \in Drainers, ClaimDue(d) PROVE ActionInv'
  BY <1>2 DEF TypeOK, ClaimDue, Claimable, FirstBatch, Goto, Touch
<1>3. ASSUME NEW d \in Drainers, LoadConfig(d) \/ Crash(d) PROVE ActionInv'
  BY <1>3 DEF TypeOK, LoadConfig, Crash, Goto, queue
<1>4. ASSUME NEW d \in Drainers, NEW r \in Rows, Settled(d, r) PROVE ActionInv'
  BY <1>4 DEF TypeOK, Settled, OnlyRow, Same, Becomes, Finish, Goto, Current, HeldInv
<1>5. ASSUME NEW d \in Drainers, NEW r \in Rows,
             \/ Admit(d, r) \/ TakeLease(d, r) \/ Send(d, r)
             \/ MarkSentThrows(d, r)
      PROVE  ActionInv'
  BY <1>5 DEF TypeOK, Admit, TakeLease, Send, MarkSentThrows, Goto, queue
<1>6. ASSUME NEW r \in Rows, Others(r) \/ Clock(r) PROVE ActionInv'
  <2>1. Touched(r)
    BY <1>6, OtherSteps
  <2> QED
    BY <2>1 DEF TypeOK, Touched, OnlyRow, Same, control
<1>7. CASE UNCHANGED vars
  BY <1>7 DEF vars, queue, control
<1> QED
  BY <1>1, <1>2, <1>3, <1>4, <1>5, <1>6, <1>7, RowSteps DEF Next, Tick

\* The linked action follows its row through every settlement.
LEMMA FollowStep == IInv /\ [Next]_vars => ActionFollowsRow'
<1> SUFFICES ASSUME IInv, [Next]_vars PROVE ActionFollowsRow'
  OBVIOUS
<1> USE DEF IInv, ActionFollowsRow
<1>1. ASSUME NEW d \in Drainers, ReclaimStuck(d) PROVE ActionFollowsRow'
  BY <1>1 DEF TypeOK, ReclaimStuck, Stuck, Goto, Touch, SyncAction
<1>2. ASSUME NEW d \in Drainers, ClaimDue(d) PROVE ActionFollowsRow'
  BY <1>2 DEF TypeOK, ClaimDue, Claimable, FirstBatch, Goto, Touch
<1>3. ASSUME NEW d \in Drainers, LoadConfig(d) \/ Crash(d) PROVE ActionFollowsRow'
  BY <1>3 DEF TypeOK, LoadConfig, Crash, Goto, queue
<1>4. ASSUME NEW d \in Drainers, NEW r \in Rows, Settled(d, r) PROVE ActionFollowsRow'
  BY <1>4 DEF TypeOK, Settled, OnlyRow, Same, Becomes, Finish, Goto, Current, HeldInv
<1>5. ASSUME NEW d \in Drainers, NEW r \in Rows,
             \/ Admit(d, r) \/ TakeLease(d, r) \/ Send(d, r)
             \/ MarkSentThrows(d, r)
      PROVE  ActionFollowsRow'
  BY <1>5 DEF TypeOK, Admit, TakeLease, Send, MarkSentThrows, Goto, queue
<1>6. ASSUME NEW r \in Rows, Others(r) \/ Clock(r) PROVE ActionFollowsRow'
  <2>1. Touched(r)
    BY <1>6, OtherSteps
  <2> QED
    BY <2>1 DEF TypeOK, Touched, OnlyRow, Same, control, ActionInv
<1>7. CASE UNCHANGED vars
  BY <1>7 DEF vars, queue, control
<1> QED
  BY <1>1, <1>2, <1>3, <1>4, <1>5, <1>6, <1>7, RowSteps DEF Next, Tick

\* A row that may have reached the customer is settled or being settled.
LEMMA ReachedStep == IInv /\ [Next]_vars => ReachedInv'
<1> SUFFICES ASSUME IInv, [Next]_vars PROVE ReachedInv'
  OBVIOUS
<1> USE DEF IInv, ReachedInv
<1>1. ASSUME NEW d \in Drainers, ReclaimStuck(d) PROVE ReachedInv'
  BY <1>1 DEF TypeOK, ReclaimStuck, Stuck, Goto, Touch, Current
<1>2. ASSUME NEW d \in Drainers, ClaimDue(d) PROVE ReachedInv'
  <2>1. \A x \in todo'[d] : status[x] = "approved" /\ reached[x] = 0
    BY <1>2 DEF TypeOK, ClaimDue, Claimable, FirstBatch
  <2>2. reached' = reached /\ pc'[d] # "settle" /\ outcome' = outcome
    BY <1>2 DEF TypeOK, ClaimDue, Goto
  <2>3. \A e \in Drainers \ {d} : pc'[e] = pc[e] /\ todo'[e] = todo[e]
    BY <1>2 DEF TypeOK, ClaimDue, Goto
  <2>4. \A x \in Rows : status'[x] \in {status[x], "sending"}
    BY <1>2 DEF TypeOK, ClaimDue
  <2> QED
    BY <2>1, <2>2, <2>3, <2>4 DEF TypeOK, Current
<1>3. ASSUME NEW d \in Drainers, LoadConfig(d) \/ Crash(d) PROVE ReachedInv'
  <2>1. UNCHANGED <<status, reached>>
    BY <1>3 DEF LoadConfig, Crash, queue
  <2>2. \A e \in Drainers \ {d} :
            /\ pc'[e] = pc[e] /\ todo'[e] = todo[e]
            /\ outcome'[e] = outcome[e]
    BY <1>3 DEF TypeOK, LoadConfig, Crash, Goto
  <2>3. \/ todo'[d] = {}
        \/ pc[d] = "config" /\ pc'[d] = "row" /\ todo'[d] = todo[d]
    BY <1>3 DEF TypeOK, LoadConfig, Crash, Goto
  <2>4. ASSUME NEW e \in Drainers, NEW r \in todo'[e]
        PROVE  /\ pc'[e] # "settle" \/ ~Current(e, r)' => reached'[r] = 0
               /\ pc'[e] = "settle" /\ Current(e, r)' =>
                    reached'[r] = IF outcome'[e] \in {"ok", "possibly"}
                                  THEN 1 ELSE 0
    <3>1. CASE e = d
      BY <2>1, <2>3, <2>4, <3>1 DEF TypeOK
    <3>2. CASE e # d
      <4>1. /\ pc'[e] = pc[e] /\ todo'[e] = todo[e]
            /\ outcome'[e] = outcome[e]
        BY <2>2, <3>2
      <4>2. r \in todo[e] /\ reached'[r] = reached[r]
        BY <2>1, <2>4, <4>1
      <4>3. Current(e, r)' <=> Current(e, r)
        BY <4>1 DEF Current
      <4>4. r \in Rows
        BY <4>2 DEF TypeOK
      <4>5. pc[e] # "settle" \/ ~Current(e, r) => reached[r] = 0
        BY <4>2
      <4>6. pc[e] = "settle" /\ Current(e, r) =>
              reached[r] = IF outcome[e] \in {"ok", "possibly"} THEN 1 ELSE 0
        BY <4>4
      <4> QED
        BY <4>1, <4>2, <4>3, <4>5, <4>6
    <3> QED
      BY <3>1, <3>2
  <2> QED
    BY <2>1, <2>4 DEF Current
<1>4. ASSUME NEW d \in Drainers, NEW r \in Rows, Settled(d, r) PROVE ReachedInv'
  <2>1. /\ r \in todo[d] /\ Current(d, r)
        /\ todo' = [todo EXCEPT ![d] = @ \ {r}]
        /\ pc' = [pc EXCEPT ![d] = IF todo[d] = {r} THEN "idle" ELSE "row"]
        /\ outcome' = [outcome EXCEPT ![d] = "none"]
        /\ reached' = reached
    BY <1>4 DEF Settled, Current, Finish, Goto
  <2>2. \A x \in Rows \ {r} : status'[x] = status[x]
    BY <1>4 DEF Settled, OnlyRow, Same
  <2>3. status'[r] \in {"none", "approved", "cancelled"} => reached[r] = 0
    BY <1>4, <2>1 DEF TypeOK, Settled, Becomes, Same, HeldInv
  <2>4. ASSUME NEW e \in Drainers, NEW x \in todo'[e]
        PROVE  /\ pc'[e] # "settle" \/ ~Current(e, x)' => reached'[x] = 0
               /\ pc'[e] = "settle" /\ Current(e, x)' =>
                    reached'[x] = IF outcome'[e] \in {"ok", "possibly"}
                                  THEN 1 ELSE 0
    <3>1. CASE e = d
      <4>1. x \in todo[d] /\ x # r /\ pc'[d] # "settle"
        BY <2>1, <2>4, <3>1 DEF TypeOK
      <4>2. ~Current(d, x)
        BY <2>1, <4>1 DEF TypeOK, Current
      <4> QED
        BY <2>1, <3>1, <4>1, <4>2
    <3>2. CASE e # d
      BY <2>1, <2>4, <3>2 DEF TypeOK, Current
    <3> QED
      BY <3>1, <3>2
  <2>5. \A x \in Rows :
            status'[x] \in {"none", "approved", "cancelled"} => reached'[x] = 0
    BY <2>1, <2>2, <2>3
  <2> QED
    BY <2>4, <2>5 DEF Current
<1>5. ASSUME NEW d \in Drainers, NEW r \in Rows,
             \/ Admit(d, r) \/ TakeLease(d, r) \/ Send(d, r)
             \/ MarkSentThrows(d, r)
      PROVE  ReachedInv'
  <2>1. CASE Admit(d, r) \/ TakeLease(d, r)
    BY <2>1 DEF TypeOK, Admit, TakeLease, Goto, queue, Current
  <2>2. CASE Send(d, r)
    <3>1. reached[r] = 0 /\ r \in todo[d]
      BY <2>2 DEF Send, Current
    <3>2. /\ UNCHANGED <<status, todo>> /\ pc'[d] = "settle"
          /\ outcome'[d] \in Outcomes
          /\ reached'[r] = IF outcome'[d] \in {"ok", "possibly"} THEN 1 ELSE 0
          /\ \A x \in Rows \ {r} : reached'[x] = reached[x]
          /\ \A e \in Drainers \ {d} :
                pc'[e] = pc[e] /\ outcome'[e] = outcome[e]
      BY <2>2, <3>1 DEF TypeOK, Send, Goto, queue
    <3>3. Current(d, r) /\ pc[d] = "send"
      BY <2>2 DEF Send
    <3>4. \A x \in todo[d] : x # r => ~Current(d, x)
      BY <3>3 DEF TypeOK, Current
    <3>5. status[r] \in {"sending", "failed"}
      BY <3>1 DEF HeldInv
    <3> QED
      BY <3>1, <3>2, <3>3, <3>4, <3>5 DEF TypeOK, Current, HeldInv
  <2>3. CASE MarkSentThrows(d, r)
    BY <2>3 DEF TypeOK, MarkSentThrows, queue, Current
  <2> QED
    BY <1>5, <2>1, <2>2, <2>3
<1>6. ASSUME NEW r \in Rows, Others(r) \/ Clock(r) PROVE ReachedInv'
  <2>1. Touched(r)
    BY <1>6, OtherSteps
  <2> QED
    BY <2>1 DEF TypeOK, Touched, OnlyRow, Same, control, Current
<1>7. CASE UNCHANGED vars
  BY <1>7 DEF vars, queue, control, Current
<1> QED
  BY <1>1, <1>2, <1>3, <1>4, <1>5, <1>6, <1>7, RowSteps DEF Next, Tick

\* No step sends a row a second time.
LEMMA AtMostOneStep == IInv /\ [Next]_vars => AtMostOneDelivery'
<1> SUFFICES ASSUME IInv, [Next]_vars PROVE AtMostOneDelivery'
  OBVIOUS
<1> USE DEF IInv, AtMostOneDelivery
<1>1. ASSUME NEW d \in Drainers, ReclaimStuck(d) PROVE AtMostOneDelivery'
  BY <1>1 DEF TypeOK, ReclaimStuck, Stuck, Goto, Touch
<1>2. ASSUME NEW d \in Drainers, ClaimDue(d) PROVE AtMostOneDelivery'
  BY <1>2 DEF TypeOK, ClaimDue, Claimable, FirstBatch, Goto, Touch
<1>3. ASSUME NEW d \in Drainers, LoadConfig(d) \/ Crash(d) PROVE AtMostOneDelivery'
  BY <1>3 DEF TypeOK, LoadConfig, Crash, Goto, queue
<1>4. ASSUME NEW d \in Drainers, NEW r \in Rows, Settled(d, r) PROVE AtMostOneDelivery'
  BY <1>4 DEF TypeOK, Settled, OnlyRow, Same, Becomes, Finish, Goto
<1>5. ASSUME NEW d \in Drainers, NEW r \in Rows,
             \/ Admit(d, r) \/ TakeLease(d, r) \/ Send(d, r)
             \/ MarkSentThrows(d, r)
      PROVE  AtMostOneDelivery'
  BY <1>5 DEF TypeOK, Admit, TakeLease, Send, MarkSentThrows, Goto, queue, Current, ReachedInv
<1>6. ASSUME NEW r \in Rows, Others(r) \/ Clock(r) PROVE AtMostOneDelivery'
  <2>1. Touched(r)
    BY <1>6, OtherSteps
  <2> QED
    BY <2>1 DEF TypeOK, Touched, OnlyRow, Same, control
<1>7. CASE UNCHANGED vars
  BY <1>7 DEF vars, queue, control
<1> QED
  BY <1>1, <1>2, <1>3, <1>4, <1>5, <1>6, <1>7, RowSteps DEF Next, Tick

\* No step forgets that a row may have reached the customer.
LEMMA RecordedStep == IInv /\ [Next]_vars => DeliveryRecorded'
<1> SUFFICES ASSUME IInv, [Next]_vars PROVE DeliveryRecorded'
  OBVIOUS
<1> USE DEF IInv, DeliveryRecorded
<1>1. ASSUME NEW d \in Drainers, ReclaimStuck(d) PROVE DeliveryRecorded'
  BY <1>1 DEF TypeOK, ReclaimStuck, Stuck, Goto, Touch
<1>2. ASSUME NEW d \in Drainers, ClaimDue(d) PROVE DeliveryRecorded'
  BY <1>2 DEF TypeOK, ClaimDue, Claimable, FirstBatch, Goto, Touch, ReachedInv
<1>3. ASSUME NEW d \in Drainers, LoadConfig(d) \/ Crash(d) PROVE DeliveryRecorded'
  BY <1>3 DEF TypeOK, LoadConfig, Crash, Goto, queue
<1>4. ASSUME NEW d \in Drainers, NEW r \in Rows, Settled(d, r) PROVE DeliveryRecorded'
  BY <1>4 DEF TypeOK, Settled, OnlyRow, Same, Becomes, Finish, Goto, Current, HeldInv, ReachedInv
<1>5. ASSUME NEW d \in Drainers, NEW r \in Rows,
             \/ Admit(d, r) \/ TakeLease(d, r) \/ Send(d, r)
             \/ MarkSentThrows(d, r)
      PROVE  DeliveryRecorded'
  BY <1>5 DEF TypeOK, Admit, TakeLease, Send, MarkSentThrows, Goto, queue, Current, HeldInv
<1>6. ASSUME NEW r \in Rows, Others(r) \/ Clock(r) PROVE DeliveryRecorded'
  <2>1. Touched(r)
    BY <1>6, OtherSteps
  <2> QED
    BY <2>1 DEF TypeOK, Touched, OnlyRow, Same, control, ReachedInv
<1>7. CASE UNCHANGED vars
  BY <1>7 DEF vars, queue, control
<1> QED
  BY <1>1, <1>2, <1>3, <1>4, <1>5, <1>6, <1>7, RowSteps DEF Next, Tick

\* The inductive invariant holds: who holds a row, what the row says of itself
\* and what its scheduled action says stay consistent over every interleaving
\* of the replicas' ticks, the reclaim, the cancels and crashes.
THEOREM Inductive == Spec => []IInv
<1>1. IInv /\ [Next]_vars => IInv'
  BY TypeStep, HeldStep, RetryStep, LeaseStep, ReachedStep, ActionStep,
      AtMostOneStep, RecordedStep, FollowStep DEF IInv
<1> QED
  BY InitIInv, <1>1, PTL DEF Spec

\* Every variable keeps its type; above all retryLater never takes retry_count
\* beyond MAX_SEND_ATTEMPTS.
THEOREM OutboundTypes == Spec => []TypeOK
BY Inductive, PTL DEF IInv

\* A message that may have reached the customer is never sent again, whatever
\* reclaimStuck, retryLater, a crash or the other replica does to its row.
THEOREM NeverResent == Spec => []AtMostOneDelivery
BY Inductive, PTL DEF IInv

\* A message cancelled in the console or through its scheduled action never
\* reaches the customer.
THEOREM CancelHolds == Spec => []CancelledNeverReached
<1>1. IInv => CancelledNeverReached
  BY DEF IInv, TypeOK, CancelledNeverReached, ReachedInv, ActionInv,
      ActionFollowsRow
<1> QED
  BY Inductive, <1>1, PTL

\* A row that may have reached the customer ends as sent or as a
\* possibly-delivered failure: classify and reclaimStuck lose no delivery.
THEOREM Recorded == Spec => []DeliveryRecorded
BY Inductive, PTL DEF IInv

\* The scheduled action says what became of its row: the syncs inside markSent,
\* failReview, retryLater and reclaimStuck keep the two tables in step.
THEOREM ActionsFollow == Spec => []ActionFollowsRow
BY Inductive, PTL DEF IInv

-----------------------------------------------------------------------------
(* Pacing: the rate checks and the send they admit are one critical section. *)

\* While a drainer sends, nothing else is recorded for its recipient.
QuietInv ==
    \A d \in Drainers : \A r \in Rows :
        pc[d] \in {"send", "settle"} /\ Current(d, r) =>
            /\ WithinGap(Recipient[r]) = {}
            /\ Cardinality(RecentlySent(Recipient[r])) < RatePerHour

\* A step that records no new send.
NoNewSend ==
    \A x \in Rows : status'[x] = "sent" => status[x] = "sent" /\ age'[x] >= age[x]

\* What the rate checks count is finite.
LEMMA SentFinite ==
    ASSUME NEW p \in Recipients
    PROVE  /\ IsFiniteSet(RecentlySent(p)) /\ IsFiniteSet(WithinGap(p))
           /\ Cardinality(RecentlySent(p)) \in Nat
           /\ Cardinality(WithinGap(p)) \in Nat
<1>1. RecentlySent(p) \subseteq Rows /\ WithinGap(p) \subseteq Rows
  BY DEF RecentlySent, WithinGap
<1> QED
  BY <1>1, FS_Subset, FS_CardinalityType

\* A step that records no send adds nothing to what the rate checks count.
LEMMA Shrinks ==
    ASSUME TypeOK, TypeOK', NoNewSend, NEW p \in Recipients
    PROVE  /\ RecentlySent(p)' \subseteq RecentlySent(p)
           /\ WithinGap(p)' \subseteq WithinGap(p)
           /\ Cardinality(RecentlySent(p)') <= Cardinality(RecentlySent(p))
           /\ Cardinality(WithinGap(p)') <= Cardinality(WithinGap(p))
<1>0. \A x \in Rows : age[x] \in 0..2 /\ age'[x] \in 0..2
  BY DEF TypeOK
<1>1. ASSUME NEW x \in RecentlySent(p)' PROVE x \in RecentlySent(p)
  <2>1. /\ x \in Rows /\ Recipient[x] = p /\ status'[x] = "sent"
        /\ age'[x] < 2
    BY <1>1 DEF RecentlySent
  <2>2. status[x] = "sent" /\ age[x] < 2
    BY <1>0, <2>1 DEF NoNewSend
  <2> QED
    BY <2>1, <2>2 DEF RecentlySent
<1>2. ASSUME NEW x \in WithinGap(p)' PROVE x \in WithinGap(p)
  <2>1. /\ x \in Rows /\ Recipient[x] = p /\ status'[x] = "sent"
        /\ age'[x] = 0
    BY <1>2 DEF WithinGap
  <2>2. status[x] = "sent" /\ age[x] = 0
    BY <1>0, <2>1 DEF NoNewSend
  <2> QED
    BY <2>1, <2>2 DEF WithinGap
<1> QED
  BY <1>1, <1>2, SentFinite, FS_Subset

\* Only Sent records a send.
LEMMA OnlySentSends ==
    ASSUME IInv, TypeOK', [Next]_vars,
           ~ \E d \in Drainers, r \in Rows : Sent(d, r)
    PROVE  NoNewSend
<1> USE DEF IInv, NoNewSend
<1>1. ASSUME NEW d \in Drainers, ReclaimStuck(d) PROVE NoNewSend
  BY <1>1 DEF TypeOK, ReclaimStuck, Touch, Stuck
<1>2. ASSUME NEW d \in Drainers, ClaimDue(d) PROVE NoNewSend
  BY <1>2 DEF TypeOK, ClaimDue, Touch, Claimable, FirstBatch
<1>3. ASSUME NEW d \in Drainers, LoadConfig(d) \/ Crash(d) PROVE NoNewSend
  BY <1>3 DEF TypeOK, LoadConfig, Crash, queue
<1>4. ASSUME NEW d \in Drainers, NEW r \in Rows, ProcessRow(d, r)
      PROVE  NoNewSend
  <2> USE DEF TypeOK, Touch
  <2>1. CASE RefuseAdapter(d, r)
    BY <2>1 DEF RefuseAdapter, FailReview
  <2>2. CASE PauseRecipient(d, r) \/ OutsideWindow(d, r) \/ LeaseBusy(d, r)
             \/ RateOrGapDefer(d, r)
    <3>1. DeferUntil(r)
      BY <2>2 DEF PauseRecipient, OutsideWindow, LeaseBusy, RateOrGapDefer
    <3> QED
      BY <3>1 DEF DeferUntil
  <2>3. CASE Admit(d, r) \/ TakeLease(d, r) \/ Send(d, r)
             \/ MarkSentThrows(d, r) \/ RowError(d, r)
    BY <2>3 DEF Admit, TakeLease, Send, MarkSentThrows, RowError, queue
  <2>4. CASE Classify(d, r)
    BY <2>4 DEF Classify, FailReview, RetryLater
  <2> QED
    BY <1>4, <2>1, <2>2, <2>3, <2>4 DEF ProcessRow
<1>5. ASSUME NEW r \in Rows, Others(r) \/ Clock(r) PROVE NoNewSend
  <2>1. Touched(r)
    BY <1>5, OtherSteps
  <2> QED
    BY <2>1 DEF TypeOK, Touched, OnlyRow, Same
<1>6. CASE UNCHANGED vars
  BY <1>6 DEF TypeOK, vars, queue
<1> QED
  BY <1>1, <1>2, <1>3, <1>4, <1>5, <1>6 DEF Next, Tick

\* A drainer has one current row.
LEMMA OneCurrent ==
    ASSUME NEW d \in Drainers, NEW r \in Rows, NEW x \in Rows,
           Current(d, r), Current(d, x)
    PROVE  x = r
<1>1. r <= x /\ x <= r /\ r \in Nat /\ x \in Nat
  BY DEF Current
<1> QED
  BY <1>1

\* Who sends after a step sent before it, or has just taken the lease.
LEMMA SendersStay ==
    ASSUME IInv, [Next]_vars, NEW d \in Drainers, NEW r \in Rows,
           pc'[d] \in {"send", "settle"}, Current(d, r)'
    PROVE  \/ pc[d] \in {"send", "settle"} /\ Current(d, r)
           \/ TakeLease(d, r)
<1> SUFFICES ASSUME ~(pc[d] \in {"send", "settle"} /\ Current(d, r)),
                    ~TakeLease(d, r)
             PROVE  FALSE
  OBVIOUS
<1> USE DEF IInv, TypeOK, Current
<1>1. ASSUME NEW e \in Drainers, ReclaimStuck(e) \/ ClaimDue(e) PROVE FALSE
  BY <1>1 DEF ReclaimStuck, ClaimDue, Goto
<1>2. ASSUME NEW e \in Drainers, LoadConfig(e) \/ Crash(e) PROVE FALSE
  BY <1>2 DEF LoadConfig, Crash, Goto
<1>3. ASSUME NEW e \in Drainers, NEW x \in Rows, Settled(e, x) PROVE FALSE
  BY <1>3 DEF Settled, Finish, Goto
<1>4. ASSUME NEW e \in Drainers, NEW x \in Rows,
             \/ Admit(e, x) \/ TakeLease(e, x) \/ Send(e, x)
             \/ MarkSentThrows(e, x)
      PROVE  FALSE
  <2>1. CASE Admit(e, x)
    BY <2>1 DEF Admit, Goto
  <2>2. CASE TakeLease(e, x)
    <3>1. CASE e = d
      <4>1. Current(d, x) /\ Current(d, r)
        BY <2>2, <3>1 DEF TakeLease
      <4>2. x = r
        BY <4>1, OneCurrent
      <4> QED
        BY <2>2, <3>1, <4>2
    <3>2. CASE e # d
      BY <2>2, <3>2 DEF TakeLease, Goto
    <3> QED
      BY <3>1, <3>2
  <2>3. CASE Send(e, x)
    BY <2>3 DEF Send, Goto
  <2>4. CASE MarkSentThrows(e, x)
    BY <2>4 DEF MarkSentThrows, Goto
  <2> QED
    BY <1>4, <2>1, <2>2, <2>3, <2>4
<1>5. ASSUME NEW x \in Rows, Others(x) \/ Clock(x) PROVE FALSE
  BY <1>5, OtherSteps DEF Touched, control
<1>6. CASE UNCHANGED vars
  BY <1>6 DEF vars, control
<1> HIDE DEF TypeOK, IInv, Current
<1>0. TypeOK
  BY DEF IInv
<1>7. ASSUME NEW e \in Drainers, NEW x \in Rows, ProcessRow(e, x) PROVE FALSE
  <2>1. \/ Settled(e, x)
        \/ Admit(e, x) \/ TakeLease(e, x) \/ Send(e, x) \/ MarkSentThrows(e, x)
    BY <1>0, <1>7, RowSteps
  <2> QED
    BY <2>1, <1>3, <1>4
<1>8. ASSUME NEW e \in Drainers, Tick(e) \/ Crash(e) PROVE FALSE
  BY <1>1, <1>2, <1>7, <1>8 DEF Tick
<1>9. Next \/ UNCHANGED vars
  OBVIOUS
<1> QED
  BY <1>5, <1>6, <1>8, <1>9 DEF Next

\* What Sent adds to the sets the rate checks read.
LEMMA SentAdds ==
    ASSUME TypeOK, NEW d \in Drainers, NEW r \in Rows, Sent(d, r),
           NEW p \in Recipients
    PROVE  /\ p # Recipient[r] => /\ RecentlySent(p)' = RecentlySent(p)
                                  /\ WithinGap(p)' = WithinGap(p)
           /\ RecentlySent(Recipient[r])' =
                RecentlySent(Recipient[r]) \cup {r}
           /\ WithinGap(Recipient[r])' = WithinGap(Recipient[r]) \cup {r}
<1>1. /\ status' = [status EXCEPT ![r] = "sent"]
      /\ age' = [x \in Rows |-> IF x = r THEN 0 ELSE age[x]]
  BY DEF TypeOK, Sent, MarkSent, Touch
<1>2. status'[r] = "sent" /\ age'[r] = 0
  BY <1>1 DEF TypeOK
<1>3. \A x \in Rows \ {r} : status'[x] = status[x] /\ age'[x] = age[x]
  BY <1>1 DEF TypeOK
<1>4. Recipient[r] \in Recipients
  OBVIOUS
<1>5. p # Recipient[r] => /\ RecentlySent(p)' = RecentlySent(p)
                          /\ WithinGap(p)' = WithinGap(p)
  BY <1>3 DEF RecentlySent, WithinGap
<1>6. RecentlySent(Recipient[r])' = RecentlySent(Recipient[r]) \cup {r}
  <2> DEFINE q == Recipient[r]
  <2>1. ASSUME NEW x \in Rows
        PROVE  x \in RecentlySent(q)' <=> x \in RecentlySent(q) \cup {r}
    BY <1>2, <1>3 DEF RecentlySent
  <2> QED
    BY <2>1 DEF RecentlySent
<1>7. WithinGap(Recipient[r])' = WithinGap(Recipient[r]) \cup {r}
  <2> DEFINE q == Recipient[r]
  <2>1. ASSUME NEW x \in Rows
        PROVE  x \in WithinGap(q)' <=> x \in WithinGap(q) \cup {r}
    BY <1>2, <1>3 DEF WithinGap
  <2> QED
    BY <2>1 DEF WithinGap
<1> QED
  BY <1>5, <1>6, <1>7

\* Whoever is past the rate checks finds them still true when it records the
\* send: nobody else can send to the recipient under its lease.
LEMMA QuietStep ==
    IInv /\ TypeOK' /\ QuietInv /\ PacedSends /\ [Next]_vars =>
        QuietInv' /\ PacedSends'
<1> SUFFICES ASSUME IInv, TypeOK', QuietInv, PacedSends, [Next]_vars
             PROVE  QuietInv' /\ PacedSends'
  OBVIOUS
<1>0. RatePerHour \in Nat /\ \A r \in Rows : Recipient[r] \in Recipients
  OBVIOUS
<1>1. CASE ~ \E d \in Drainers, r \in Rows : Sent(d, r)
  <2>0. NoNewSend /\ TypeOK
    BY <1>1, OnlySentSends DEF IInv
  <2>1. ASSUME NEW p \in Recipients
        PROVE  /\ WithinGap(p)' \subseteq WithinGap(p)
               /\ Cardinality(RecentlySent(p)') <= Cardinality(RecentlySent(p))
               /\ Cardinality(WithinGap(p)') <= Cardinality(WithinGap(p))
               /\ Cardinality(RecentlySent(p)) \in Nat
               /\ Cardinality(WithinGap(p)) \in Nat
               /\ Cardinality(RecentlySent(p)') \in Nat
               /\ Cardinality(WithinGap(p)') \in Nat
    <3>1. RecentlySent(p)' \subseteq RecentlySent(p)
      BY <2>0, Shrinks
    <3>2. WithinGap(p)' \subseteq WithinGap(p)
      BY <2>0, Shrinks
    <3> QED
      BY <2>0, <3>1, <3>2, Shrinks, SentFinite, FS_Subset, FS_CardinalityType
  <2>2. ASSUME NEW p \in Recipients
        PROVE  /\ Cardinality(RecentlySent(p)') <= RatePerHour
               /\ Cardinality(WithinGap(p)') <= 1
    <3>1. /\ Cardinality(RecentlySent(p)) <= RatePerHour
          /\ Cardinality(WithinGap(p)) <= 1
      BY DEF PacedSends
    <3> QED
      BY <1>0, <2>1, <3>1
  <2>3. ASSUME NEW d \in Drainers, NEW r \in Rows,
               pc'[d] \in {"send", "settle"}, Current(d, r)'
        PROVE  /\ WithinGap(Recipient[r])' = {}
               /\ Cardinality(RecentlySent(Recipient[r])') < RatePerHour
    <3>1. /\ WithinGap(Recipient[r]) = {}
          /\ Cardinality(RecentlySent(Recipient[r])) < RatePerHour
      BY <2>3, SendersStay DEF QuietInv, TakeLease
    <3> QED
      BY <1>0, <2>1, <3>1
  <2>4. PacedSends'
    BY <2>2 DEF PacedSends
  <2>5. QuietInv'
    BY <2>3 DEF QuietInv
  <2> QED
    BY <2>4, <2>5
<1>2. ASSUME NEW d \in Drainers, NEW r \in Rows, Sent(d, r)
      PROVE  QuietInv' /\ PacedSends'
  <2>1. /\ pc[d] = "settle" /\ Current(d, r) /\ TypeOK
        /\ lease[Recipient[r]] = d
    BY <1>2 DEF Sent, IInv, LeaseInv
  <2>2. /\ WithinGap(Recipient[r]) = {}
        /\ Cardinality(RecentlySent(Recipient[r])) < RatePerHour
    BY <2>1 DEF QuietInv
  <2>3. ASSUME NEW p \in Recipients
        PROVE  /\ Cardinality(RecentlySent(p)') <= RatePerHour
               /\ Cardinality(WithinGap(p)') <= 1
    <3>1. CASE p # Recipient[r]
      BY <1>2, <2>1, <3>1, SentAdds DEF PacedSends
    <3>2. CASE p = Recipient[r]
      <4>1. /\ RecentlySent(p)' = RecentlySent(p) \cup {r}
            /\ WithinGap(p)' = {r}
        BY <1>2, <2>1, <2>2, <3>2, SentAdds
      <4>2. Cardinality(RecentlySent(p) \cup {r})
                \in {Cardinality(RecentlySent(p)),
                     Cardinality(RecentlySent(p)) + 1}
        BY SentFinite, FS_AddElement
      <4>3. Cardinality({r}) = 1
        BY FS_Singleton
      <4>4. Cardinality(RecentlySent(p)) \in Nat
        BY SentFinite
      <4> QED
        BY <1>0, <2>2, <3>2, <4>1, <4>2, <4>3, <4>4
    <3> QED
      BY <3>1, <3>2
  <2>4. ASSUME NEW e \in Drainers, NEW x \in Rows,
               pc'[e] \in {"send", "settle"}, Current(e, x)'
        PROVE  /\ WithinGap(Recipient[x])' = {}
               /\ Cardinality(RecentlySent(Recipient[x])') < RatePerHour
    <3>1. pc[e] \in {"send", "settle"} /\ Current(e, x)
      BY <1>2, <2>1, <2>4, SendersStay DEF TakeLease, Sent, Finish, Goto, TypeOK
    <3>2. e # d
      BY <1>2, <2>1, <2>4 DEF Sent, Finish, Goto, TypeOK
    <3>3. Recipient[x] # Recipient[r]
      BY <2>1, <3>1, <3>2 DEF IInv, LeaseInv
    <3>4. /\ WithinGap(Recipient[x]) = {}
          /\ Cardinality(RecentlySent(Recipient[x])) < RatePerHour
      BY <3>1 DEF QuietInv
    <3> QED
      BY <1>0, <1>2, <2>1, <3>3, <3>4, SentAdds
  <2>5. PacedSends'
    BY <2>3 DEF PacedSends
  <2>6. QuietInv'
    BY <2>4 DEF QuietInv
  <2> QED
    BY <2>5, <2>6
<1> QED
  BY <1>1, <1>2

\* Nothing has been sent at first.
LEMMA InitQuiet == Init => QuietInv /\ PacedSends
<1> SUFFICES ASSUME Init PROVE QuietInv /\ PacedSends
  OBVIOUS
<1>1. QuietInv
  BY DEF Init, QuietInv
<1>2. \A p \in Recipients : RecentlySent(p) = {} /\ WithinGap(p) = {}
  BY DEF Init, RecentlySent, WithinGap
<1> QED
  BY <1>1, <1>2, FS_EmptySet DEF PacedSends

\* Over any number of replicas a recipient gets at most RatePerHour recorded
\* sends an hour and no two within the minimum gap: the reads of the rate
\* checks, the send and markSent are one critical section of the lease.
THEOREM SendsArePaced == Spec => []PacedSends
<1>1. Spec => []IInv
  BY Inductive
<1>2. IInv => TypeOK
  BY DEF IInv
<1> QED
  BY <1>1, <1>2, InitQuiet, QuietStep, PTL DEF Spec

-----------------------------------------------------------------------------
(* The queue and its drainers implement Delivery, for every number of        *)
(* replicas, rows and recipients: the initial state maps to its initial      *)
(* state, and every step to a step of one message, to doubt about several,   *)
(* or to a stutter.                                                          *)

promiseVars == <<Record, Gone>>

\* What a row says changes as its status and its prefix do.
LEMMA RecordOfRow ==
    ASSUME NEW r \in Rows
    PROVE  /\ Record[r] = IF status[r] \in {"approved", "sending"} THEN "open"
                          ELSE IF status[r] = "failed"
                               THEN IF ambiguous[r] THEN "doubtful" ELSE "refused"
                               ELSE status[r]
           /\ Record'[r] = IF status'[r] \in {"approved", "sending"} THEN "open"
                           ELSE IF status'[r] = "failed"
                                THEN IF ambiguous'[r] THEN "doubtful" ELSE "refused"
                                ELSE status'[r]
BY DEF Record

\* What has gone is what was sent at least once.
LEMMA GoneOfRow ==
    ASSUME NEW r \in Rows
    PROVE  /\ reached[r] = 0 => Gone[r] = FALSE
           /\ reached[r] = 1 => Gone[r] = TRUE
           /\ reached'[r] = 0 => Gone'[r] = FALSE
           /\ reached'[r] = 1 => Gone'[r] = TRUE
           /\ reached'[r] = reached[r] => Gone'[r] = Gone[r]
<1>1. Gone[r] = (reached[r] > 0) /\ Gone'[r] = (reached'[r] > 0)
  BY DEF Gone
<1>2. /\ reached[r] = 0 => (reached[r] > 0) = FALSE
      /\ reached[r] = 1 => (reached[r] > 0) = TRUE
      /\ reached'[r] = 0 => (reached'[r] > 0) = FALSE
      /\ reached'[r] = 1 => (reached'[r] > 0) = TRUE
  OBVIOUS
<1> QED
  BY <1>1, <1>2, Zenon

\* The rows that keep their status, prefix and sends keep what they say.
LEMMA SameRowSame ==
    ASSUME NEW r \in Rows,
           status'[r] = status[r], ambiguous'[r] = ambiguous[r], reached'[r] = reached[r]
    PROVE  Record'[r] = Record[r] /\ Gone'[r] = Gone[r]
BY RecordOfRow, GoneOfRow

\* A step that leaves all rows but r alone moves the record of r alone.
LEMMA OneRecordMoves ==
    ASSUME NEW r \in Rows,
           \A x \in Rows \ {r} : /\ status'[x] = status[x] /\ ambiguous'[x] = ambiguous[x]
                                 /\ reached'[x] = reached[x]
    PROVE  /\ Record' = [Record EXCEPT ![r] = Record'[r]]
           /\ Gone' = [Gone EXCEPT ![r] = Gone'[r]]
<1>1. \A x \in Rows \ {r} : Record'[x] = Record[x] /\ Gone'[x] = Gone[x]
  BY SameRowSame
<1>2. /\ DOMAIN Record = Rows /\ DOMAIN Record' = Rows
      /\ DOMAIN Gone = Rows /\ DOMAIN Gone' = Rows
  BY DEF Record, Gone
<1>3. Record = [x \in Rows |-> Record[x]] /\ Record' = [x \in Rows |-> Record'[x]]
  BY DEF Record
<1>4. Gone = [x \in Rows |-> Gone[x]] /\ Gone' = [x \in Rows |-> Gone'[x]]
  BY DEF Gone
<1>5. Record' = [Record EXCEPT ![r] = Record'[r]]
  BY <1>1, <1>2, <1>3
<1>6. Gone' = [Gone EXCEPT ![r] = Gone'[r]]
  BY <1>1, <1>2, <1>4
<1> QED
  BY <1>5, <1>6

\* The moves of one message that Delivery allows: its record or whether it has
\* gone, never both, and none of what is final.
Moves(r) ==
    \/ Record'[r] = Record[r] /\ Gone'[r] = Gone[r]
    \/ Record'[r] = Record[r] /\ Record[r] \in {"open", "doubtful"} /\ Gone[r] = FALSE /\ Gone'[r] = TRUE
    \/ /\ Gone'[r] = Gone[r]
       /\ \/ Record[r] = "none" /\ Record'[r] = "open" /\ Gone[r] = FALSE
          \/ Record[r] \in {"open", "doubtful"} /\ Record'[r] = "sent" /\ Gone[r] = TRUE
          \/ Record[r] = "open" /\ Record'[r] = "doubtful"
          \/ Record[r] = "doubtful" /\ Record'[r] = "open" /\ Gone[r] = FALSE
          \/ Record[r] \in {"open", "doubtful"} /\ Record'[r] = "refused" /\ Gone[r] = FALSE
          \/ Record[r] = "open" /\ Record'[r] = "cancelled" /\ Gone[r] = FALSE

\* A step that makes one of these moves is a step of Delivery or a stutter.
LEMMA MovesAreDelivery ==
    ASSUME NEW r \in Rows, Moves(r),
           \A x \in Rows \ {r} : /\ status'[x] = status[x] /\ ambiguous'[x] = ambiguous[x]
                                 /\ reached'[x] = reached[x]
    PROVE  Promise!DeliveryNext \/ UNCHANGED promiseVars
<1>1. /\ Record' = [Record EXCEPT ![r] = Record'[r]]
      /\ Gone' = [Gone EXCEPT ![r] = Gone'[r]]
  BY OneRecordMoves
<1>2. /\ Record = [x \in Rows |-> Record[x]] /\ DOMAIN Record = Rows
      /\ Gone = [x \in Rows |-> Gone[x]] /\ DOMAIN Gone = Rows
  BY DEF Record, Gone
<1>3. Record'[r] = Record[r] => Record' = Record
  BY <1>1, <1>2
<1>4. Gone'[r] = Gone[r] => Gone' = Gone
  BY <1>1, <1>2
<1>5. CASE Record'[r] = Record[r] /\ Gone'[r] = Gone[r]
  BY <1>3, <1>4, <1>5 DEF promiseVars
<1>6. CASE Record'[r] = Record[r] /\ Record[r] \in {"open", "doubtful"}
           /\ Gone[r] = FALSE /\ Gone'[r] = TRUE
  <2>1. Promise!HandOver(r)
    BY <1>1, <1>3, <1>6 DEF Promise!HandOver
  <2> QED
    BY <2>1 DEF Promise!DeliveryNext
<1>7. CASE Gone'[r] = Gone[r] /\ Record[r] = "open" /\ Record'[r] = "doubtful"
  <2>1. Record' = [x \in Rows |-> IF x \in {r} THEN "doubtful" ELSE Record[x]]
    BY <1>1, <1>2, <1>7
  <2>2. Promise!Doubt({r})
    BY <1>4, <1>7, <2>1 DEF Promise!Doubt
  <2> QED
    BY <2>2 DEF Promise!DeliveryNext
<1>8. CASE /\ Gone'[r] = Gone[r]
           /\ \/ Record[r] = "none" /\ Record'[r] = "open" /\ Gone[r] = FALSE
              \/ Record[r] \in {"open", "doubtful"} /\ Record'[r] = "sent" /\ Gone[r] = TRUE
              \/ Record[r] = "doubtful" /\ Record'[r] = "open" /\ Gone[r] = FALSE
              \/ Record[r] \in {"open", "doubtful"} /\ Record'[r] = "refused" /\ Gone[r] = FALSE
              \/ Record[r] = "open" /\ Record'[r] = "cancelled" /\ Gone[r] = FALSE
  <2>1. \/ Promise!Accept(r) \/ Promise!Confirm(r) \/ Promise!Reopen(r)
        \/ Promise!Refuse(r) \/ Promise!Cancel(r)
    BY <1>1, <1>4, <1>8 DEF Promise!Accept, Promise!Confirm, Promise!Reopen,
        Promise!Refuse, Promise!Cancel, Promise!Says
  <2> QED
    BY <2>1 DEF Promise!DeliveryNext
<1> QED
  BY <1>5, <1>6, <1>7, <1>8 DEF Moves

-----------------------------------------------------------------------------
\* The empty queue is Delivery's initial state.
LEMMA InitMaps == Init => Promise!DeliveryInit
<1> SUFFICES ASSUME Init PROVE Promise!DeliveryInit
  OBVIOUS
<1>1. \A r \in Rows : status[r] = "none" /\ ~(reached[r] > 0)
  BY DEF Init
<1>2. Record = [r \in Rows |-> "none"]
  BY <1>1 DEF Record
<1>3. Gone = [r \in Rows |-> FALSE]
  <2>1. \A r \in Rows : (reached[r] > 0) = FALSE
    BY <1>1
  <2> QED
    BY <2>1, Zenon DEF Gone
<1> QED
  BY <1>2, <1>3 DEF Promise!DeliveryInit

\* reclaimStuck makes the rows it fails doubtful, all at once.
LEMMA ReclaimDoubts ==
    ASSUME TypeOK, NEW d \in Drainers, ReclaimStuck(d)
    PROVE  Promise!DeliveryNext
<1>1. Stuck \subseteq Rows
  BY DEF Stuck
<1>2. \A r \in Stuck : Record[r] = "open"
  BY <1>1, RecordOfRow DEF Stuck
<1>3. ASSUME NEW r \in Rows
      PROVE  Record'[r] = IF r \in Stuck THEN "doubtful" ELSE Record[r]
  <2>1. /\ status'[r] = IF r \in Stuck THEN "failed" ELSE status[r]
        /\ ambiguous'[r] = (r \in Stuck \/ ambiguous[r])
    BY DEF ReclaimStuck
  <2>2. ambiguous[r] \in BOOLEAN
    BY DEF TypeOK
  <2>3. CASE r \in Stuck
    BY <2>1, <2>3, RecordOfRow
  <2>4. CASE r \notin Stuck
    BY <2>1, <2>2, <2>4, RecordOfRow
  <2> QED
    BY <2>3, <2>4
<1>4. Record' = [r \in Rows |-> IF r \in Stuck THEN "doubtful" ELSE Record[r]]
  <2>1. Record' = [r \in Rows |-> Record'[r]]
    BY DEF Record
  <2> QED
    BY <1>3, <2>1
<1>5. Gone' = Gone
  BY DEF ReclaimStuck, Gone
<1>6. Promise!Doubt(Stuck)
  BY <1>2, <1>4, <1>5 DEF Promise!Doubt
<1> QED
  BY <1>1, <1>6 DEF Promise!DeliveryNext

\* A settlement is one move of its row: only what has not gone becomes refused or
\* open again, and what is recorded as sent has gone.
LEMMA SettledMoves ==
    ASSUME IInv, NEW d \in Drainers, NEW r \in Rows, Settled(d, r)
    PROVE  Moves(r)
<1>1. /\ r \in todo[d] /\ Current(d, r)
      /\ \/ status[r] = "sending"
         \/ status[r] = "failed" /\ ambiguous[r]
  BY DEF IInv, TypeOK, HeldInv, Settled, Current
<1>2. Record[r] \in {"open", "doubtful"}
  BY <1>1, RecordOfRow
<1>3. Gone'[r] = Gone[r]
  BY GoneOfRow DEF Settled
<1>4. ~(pc[d] = "settle" /\ outcome[d] \in {"ok", "possibly"}) => Gone[r] = FALSE
  <2>1. pc[d] # "settle" => reached[r] = 0
    BY <1>1 DEF IInv, ReachedInv
  <2>2. pc[d] = "settle" /\ outcome[d] \notin {"ok", "possibly"} => reached[r] = 0
    BY <1>1 DEF IInv, ReachedInv
  <2> QED
    BY <2>1, <2>2, GoneOfRow
<1>5. CASE status'[r] = "approved" /\ ~(pc[d] = "settle" /\ outcome[d] \in {"ok", "possibly"})
  BY <1>2, <1>3, <1>4, <1>5, RecordOfRow DEF Moves
<1>6. CASE status'[r] = "failed" /\ ~(pc[d] = "settle" /\ outcome[d] \in {"ok", "possibly"})
  BY <1>2, <1>3, <1>4, <1>6, RecordOfRow DEF Moves
<1>7. CASE status'[r] = "failed" /\ ambiguous'[r]
  BY <1>2, <1>3, <1>7, RecordOfRow DEF Moves
<1>8. CASE pc[d] = "settle" /\ outcome[d] = "ok" /\ status'[r] = "sent"
  <2>1. reached[r] = 1
    BY <1>1, <1>8 DEF IInv, ReachedInv
  <2>2. Gone[r] = TRUE
    BY <2>1, GoneOfRow
  <2>3. Record'[r] = "sent"
    BY <1>8, RecordOfRow
  <2> QED
    BY <1>2, <1>3, <2>2, <2>3 DEF Moves
<1>9. CASE Same(r)
  BY <1>9, SameRowSame DEF Moves, Same
<1> QED
  BY <1>5, <1>6, <1>7, <1>8, <1>9 DEF Settled, Becomes

\* adapter.send hands the message over, or nothing leaves.
LEMMA SendMoves ==
    ASSUME IInv, NEW d \in Drainers, NEW r \in Rows, Send(d, r)
    PROVE  Moves(r) /\ OnlyRow(r)
<1>1. /\ r \in todo[d] /\ reached[r] = 0
      /\ \/ status[r] = "sending"
         \/ status[r] = "failed" /\ ambiguous[r]
  BY DEF IInv, TypeOK, HeldInv, ReachedInv, Send, Current
<1>2. Record[r] \in {"open", "doubtful"} /\ Gone[r] = FALSE
  BY <1>1, RecordOfRow, GoneOfRow
<1>3. UNCHANGED <<queue, sched>> /\ reached \in [Rows -> Nat]
  BY DEF Send, IInv, TypeOK
<1>4. /\ reached'[r] \in {reached[r], reached[r] + 1}
      /\ \A x \in Rows \ {r} : reached'[x] = reached[x]
  BY <1>3 DEF Send
<1>5. OnlyRow(r)
  BY <1>3, <1>4 DEF OnlyRow, Same, queue
<1>6. Record'[r] = Record[r]
  BY <1>3, RecordOfRow DEF queue
<1>7. reached'[r] \in {0, 1}
  BY <1>1, <1>4
<1>8. Gone'[r] = Gone[r] \/ Gone'[r] = TRUE
  BY <1>1, <1>7, GoneOfRow
<1> QED
  BY <1>2, <1>5, <1>6, <1>8 DEF Moves

\* Producers accept, cancels cancel what has not gone; nothing else is heard of.
LEMMA TouchedMoves ==
    ASSUME IInv, NEW r \in Rows, Touched(r)
    PROVE  Moves(r)
<1>1. /\ reached'[r] = reached[r] /\ ambiguous'[r] = ambiguous[r]
  BY DEF Touched
<1>2. Gone'[r] = Gone[r]
  BY <1>1, GoneOfRow
<1>3. status[r] \in {"none", "approved"} => Gone[r] = FALSE
  BY GoneOfRow DEF IInv, ReachedInv
<1>4. CASE status'[r] = status[r]
  BY <1>1, <1>4, SameRowSame DEF Moves
<1>5. CASE status[r] = "none" /\ status'[r] = "approved"
  BY <1>2, <1>3, <1>5, RecordOfRow DEF Moves
<1>6. CASE status[r] = "approved" /\ status'[r] = "cancelled"
  BY <1>2, <1>3, <1>6, RecordOfRow DEF Moves
<1> QED
  BY <1>4, <1>5, <1>6 DEF Touched

-----------------------------------------------------------------------------
\* Every step of the queue is a step of Delivery or a stutter.
LEMMA StepMaps ==
    ASSUME IInv, [Next]_vars
    PROVE  Promise!DeliveryNext \/ UNCHANGED promiseVars
<1>1. ASSUME NEW d \in Drainers, ReclaimStuck(d) PROVE Promise!DeliveryNext
  BY <1>1, ReclaimDoubts DEF IInv
<1>2. ASSUME NEW d \in Drainers, ClaimDue(d) PROVE UNCHANGED promiseVars
  <2>1. \A r \in Rows : /\ \/ status'[r] = status[r]
                           \/ status[r] = "approved" /\ status'[r] = "sending"
                        /\ ambiguous'[r] = ambiguous[r] /\ reached'[r] = reached[r]
    BY <1>2 DEF ClaimDue, Claimable, FirstBatch
  <2>2. \A r \in Rows : Record'[r] = Record[r] /\ Gone'[r] = Gone[r]
    BY <2>1, RecordOfRow, GoneOfRow
  <2>3. /\ Record = [r \in Rows |-> Record[r]] /\ Record' = [r \in Rows |-> Record'[r]]
        /\ Gone = [r \in Rows |-> Gone[r]] /\ Gone' = [r \in Rows |-> Gone'[r]]
    BY DEF Record, Gone
  <2> QED
    BY <2>2, <2>3 DEF promiseVars
<1>3. ASSUME NEW d \in Drainers, NEW r \in Rows,
             \/ LoadConfig(d) \/ Crash(d) \/ Admit(d, r) \/ TakeLease(d, r)
             \/ MarkSentThrows(d, r) \/ UNCHANGED vars
      PROVE  UNCHANGED promiseVars
  <2>1. UNCHANGED <<status, ambiguous, reached>>
    BY <1>3 DEF LoadConfig, Crash, Admit, TakeLease, MarkSentThrows, queue, vars
  <2> QED
    BY <2>1 DEF promiseVars, Record, Gone
<1>4. ASSUME NEW d \in Drainers, NEW r \in Rows, Settled(d, r) \/ Send(d, r)
      PROVE  Promise!DeliveryNext \/ UNCHANGED promiseVars
  <2>1. Moves(r) /\ OnlyRow(r)
    BY <1>4, SettledMoves, SendMoves DEF Settled
  <2> QED
    BY <2>1, MovesAreDelivery DEF OnlyRow, Same
<1>5. ASSUME NEW r \in Rows, Others(r) \/ Clock(r)
      PROVE  Promise!DeliveryNext \/ UNCHANGED promiseVars
  <2>1. Touched(r)
    BY <1>5, OtherSteps DEF IInv
  <2>2. Moves(r) /\ OnlyRow(r)
    BY <2>1, TouchedMoves DEF Touched
  <2> QED
    BY <2>2, MovesAreDelivery DEF OnlyRow, Same
<1>6. CASE UNCHANGED vars
  BY <1>6 DEF promiseVars, Record, Gone, vars, queue
<1>7. ASSUME NEW d \in Drainers, LoadConfig(d) \/ Crash(d) PROVE UNCHANGED promiseVars
  BY <1>7 DEF promiseVars, Record, Gone, LoadConfig, Crash, queue
<1> QED
  BY <1>1, <1>2, <1>3, <1>4, <1>5, <1>6, <1>7, RowSteps DEF IInv, Next, Tick

\* The queue implements Delivery: with any number of replicas, reclaims, crashes,
\* retries and cancels a message is handed over at most once, "sent", "refused" and
\* "cancelled" are final, and only what certainly stayed is refused or cancelled.
THEOREM QueueDelivers == Spec => KeepsDeliveryPromise
<1>1. IInv /\ [Next]_vars => [Promise!DeliveryNext]_promiseVars
  BY StepMaps
<1> QED
  BY InitMaps, <1>1, Inductive, PTL DEF Spec, KeepsDeliveryPromise,
      Promise!DeliverySpec, Promise!deliveryVars, promiseVars

=============================================================================
