----------------------------- MODULE DraftReview -----------------------------
(***************************************************************************)
(* The draft of a reply to a customer, from the inbound message it answers  *)
(* to the founder's verdict: the claim and reclaim of agent_inbox rows by    *)
(* the inbox:processor workers (src/src/inbox/inbox-repo.ts), the drafter    *)
(* (src/src/triage/response-drafter.ts, needs-info-draft.ts), the draft rows *)
(* and their audit decisions (src/src/outbound/outbound-repo.ts,             *)
(* src/src/decisions/decisions.ts), the founder's approve, reject, edit and  *)
(* revise, and the reply he sends himself on WhatsApp                        *)
(* (src/src/inbox/founder-whatsapp-reply.ts).                                *)
(*                                                                         *)
(* A step is what runs between two awaits.  A transaction is one step at its *)
(* commit unless it reads before it writes what another one may change: the  *)
(* insert of a draft and the reconciliation of a direct reply are two steps, *)
(* since READ COMMITTED takes a snapshot per statement.                      *)
(***************************************************************************)
EXTENDS Integers, FiniteSets

CONSTANTS
    Workers,      \* replicas of the inbox:processor worker
    Reviewers,    \* revises that can be under way at a time
    Inboxes,      \* ids of inbound agent_inbox rows
    Drafts,       \* ids of agent_outbound_queue draft rows
    Decisions,    \* ids of draft_reply agent_decisions
    Replies,      \* outbound agent_inbox rows: the founder's own replies
    NoReply,
    Answers,      \* Answers[o]: candidateInboundIds of reply o
    ClaimBatch,   \* BATCH
    MaxAttempts,  \* MAX_ATTEMPTS
    MaxIntents,   \* bound of the model: intents extracted from a message
    MaxRevises,   \* bound of the model: revises committed
    MaxRequeues   \* bound of the model: requeues from the console

ASSUME IdsAssumption ==
    Inboxes \subseteq Nat \ {0} /\ Drafts \subseteq Nat \ {0}
        /\ Decisions \subseteq Nat \ {0}
ASSUME FiniteAssumption == IsFiniteSet(Inboxes) /\ IsFiniteSet(Workers)
ASSUME ReplyAssumption ==
    NoReply \notin Replies /\ Answers \in [Replies -> SUBSET Inboxes]
ASSUME BoundsAssumption ==
    /\ ClaimBatch \in Nat \ {0} /\ MaxAttempts \in Nat \ {0}
    /\ MaxIntents \in Nat /\ MaxRevises \in Nat /\ MaxRequeues \in Nat

VARIABLES
    inbox,        \* agent_inbox.status
    attempts,     \* retry_count
    stale,        \* updated_at is older than STUCK
    answeredBy,   \* answered_by_inbox_id
    bridged,      \* agent_tasks has a row of the message: a task, a comment
    queue,        \* agent_outbound_queue.status; "none" before the INSERT
    decisionOf,   \* decision_id of the queue row
    shown,        \* a card of the draft was posted to the founder
    outcome,      \* agent_decisions.outcome; "none" before the INSERT
    about,        \* inbox_message_id of the decision
    kind,         \* what the decision's draft is: an answer or a clarification
    pc, todo,     \* where worker w is, and the rest of its claimed batch
    saw,          \* answered_by_inbox_id as claimed, by row of the batch
    job,          \* w's local variables while it handles a row
    revising,     \* the draft reviewer v regenerates, 0 when it does not
    reply,        \* where the reconciliation of reply o is
    found,        \* the drafts that reconciliation selected
    revises, requeues

rows == <<inbox, attempts, stale, answeredBy, bridged>>
drafts == <<queue, decisionOf, shown, outcome, about, kind>>
workers == <<pc, todo, saw, job>>
founder == <<revising, reply, found, revises, requeues>>
vars == <<rows, drafts, workers, founder>>

\* "processed" stands for "skipped" too.
InboxStatus == {"pending", "processing", "processed", "failed"}
QueueStatus == {"none", "pending", "approved", "cancelled"}
DecisionOutcome == {"none", "pending", "accepted", "modified", "rejected", "revised"}
Kinds == {"question", "unclear"}
Stages == {"idle", "claim", "reconfirm", "extract", "act", "record", "check",
           "insert", "present", "finish"}
Jobs == [left : 0..MaxIntents + 1, kind : Kinds, decision : Decisions \cup {0},
         direct : BOOLEAN, draft : Drafts \cup {0}]
NoJob == [left |-> 0, kind |-> "question", decision |-> 0, direct |-> FALSE,
          draft |-> 0]

TypeOK ==
    /\ inbox \in [Inboxes -> InboxStatus]
    /\ attempts \in [Inboxes -> 0..MaxAttempts]
    /\ stale \in [Inboxes -> BOOLEAN]
    /\ answeredBy \in [Inboxes -> Replies \cup {NoReply}]
    /\ bridged \in [Inboxes -> BOOLEAN]
    /\ queue \in [Drafts -> QueueStatus]
    /\ decisionOf \in [Drafts -> Decisions \cup {0}]
    /\ shown \in [Drafts -> BOOLEAN]
    /\ outcome \in [Decisions -> DecisionOutcome]
    /\ about \in [Decisions -> Inboxes \cup {0}]
    /\ kind \in [Decisions -> Kinds]
    /\ pc \in [Workers -> Stages]
    /\ todo \in [Workers -> SUBSET Inboxes]
    /\ saw \in [Workers -> SUBSET Inboxes]
    /\ job \in [Workers -> Jobs]
    /\ revising \in [Reviewers -> Drafts \cup {0}]
    /\ reply \in [Replies -> {"absent", "stored", "matching", "reconciled"}]
    /\ found \in [Replies -> SUBSET (Drafts \X Decisions)]
    /\ revises \in 0..MaxRevises /\ requeues \in 0..MaxRequeues

Init ==
    /\ inbox = [i \in Inboxes |-> "pending"]
    /\ attempts = [i \in Inboxes |-> 0]
    /\ stale = [i \in Inboxes |-> FALSE]
    /\ answeredBy = [i \in Inboxes |-> NoReply]
    /\ bridged = [i \in Inboxes |-> FALSE]
    /\ queue = [q \in Drafts |-> "none"]
    /\ decisionOf = [q \in Drafts |-> 0]
    /\ shown = [q \in Drafts |-> FALSE]
    /\ outcome = [e \in Decisions |-> "none"]
    /\ about = [e \in Decisions |-> 0]
    /\ kind = [e \in Decisions |-> "question"]
    /\ pc = [w \in Workers |-> "idle"]
    /\ todo = [w \in Workers |-> {}]
    /\ saw = [w \in Workers |-> {}]
    /\ job = [w \in Workers |-> NoJob]
    /\ revising = [v \in Reviewers |-> 0]
    /\ reply = [o \in Replies |-> "absent"]
    /\ found = [o \in Replies |-> {}]
    /\ revises = 0 /\ requeues = 0

-----------------------------------------------------------------------------
(* Statements of inbox-repo.ts, outbound-repo.ts and decisions.ts.          *)

\* Ids are assigned in ascending order.
IsNext(x, S) == x \in S /\ \A y \in S : x <= y
NewDraft(q) == IsNext(q, {x \in Drafts : queue[x] = "none"})
NewDecision(e) == IsNext(e, {x \in Decisions : outcome[x] = "none"})

DraftsAbout(i) == {q \in Drafts : queue[q] # "none" /\ about[decisionOf[q]] = i}
OpenDrafts(i) == {q \in DraftsAbout(i) : queue[q] = "pending"}

\* findOpenDraftByInbox: the newest open draft of the message
OpenDraft(i, q) == q \in OpenDrafts(i) /\ \A x \in OpenDrafts(i) : x <= q

\* Row locks that a reconciliation holds until it commits: its UPDATE has linked
\* the inbound rows nobody had answered.
Locked(i) ==
    answeredBy[i] = NoReply
        /\ \E o \in Replies : reply[o] = "matching" /\ i \in Answers[o]

\* Mutant of Flip: a draft that was resolved before is flipped again.
FlipAnyway(q, status, verdict) ==
    /\ queue[q] # "none"
    /\ queue' = [queue EXCEPT ![q] = status]
    /\ outcome' = [outcome EXCEPT ![decisionOf[q]] = verdict]
    /\ UNCHANGED <<decisionOf, shown, about, kind>>

\* flipDraftAndResolve: the guarded flip and the decision, in one transaction
Flip(q, status, verdict) ==
    /\ queue[q] = "pending"
    /\ queue' = [queue EXCEPT ![q] = status]
    /\ outcome' = [outcome EXCEPT ![decisionOf[q]] =
                      IF @ = "pending" THEN verdict ELSE @]
    /\ UNCHANGED <<decisionOf, shown, about, kind>>

-----------------------------------------------------------------------------
(* One tick of worker w: fail what is stuck, claim a batch, row by row.      *)

Goto(w, stage) == pc' = [pc EXCEPT ![w] = stage]
Set(w, change) == job' = [job EXCEPT ![w] = change]

Current(w, i) == IsNext(i, todo[w])

\* Mutant of FailStuck: one attempt more than ClaimRows grants.
FailStuckLate(w) ==
    /\ pc[w] = "idle"
    /\ LET stuck == {i \in Inboxes : /\ inbox[i] = "processing" /\ stale[i]
                                     /\ attempts[i] > MaxAttempts}
       IN  /\ \A i \in stuck : ~Locked(i)
           /\ inbox' = [i \in Inboxes |-> IF i \in stuck THEN "failed" ELSE inbox[i]]
           /\ stale' = [i \in Inboxes |-> stale[i] /\ i \notin stuck]
    /\ Goto(w, "claim")
    /\ UNCHANGED <<attempts, answeredBy, bridged, drafts, todo, saw, job, founder>>

FailStuck(w) ==
    /\ pc[w] = "idle"
    /\ LET stuck == {i \in Inboxes : /\ inbox[i] = "processing" /\ stale[i]
                                     /\ attempts[i] >= MaxAttempts}
       IN  /\ \A i \in stuck : ~Locked(i)
           /\ inbox' = [i \in Inboxes |-> IF i \in stuck THEN "failed" ELSE inbox[i]]
           /\ stale' = [i \in Inboxes |-> stale[i] /\ i \notin stuck]
    /\ Goto(w, "claim")
    /\ UNCHANGED <<attempts, answeredBy, bridged, drafts, todo, saw, job, founder>>

\* Mutant of Claimable: a reclaim ignores the cap.
ClaimableForEver ==
    {i \in Inboxes \ {j \in Inboxes : Locked(j)} :
                     \/ inbox[i] = "pending" /\ attempts[i] < MaxAttempts
                     \/ inbox[i] = "processing" /\ stale[i]}

\* FOR UPDATE SKIP LOCKED
Claimable ==
    {i \in Inboxes : /\ attempts[i] < MaxAttempts /\ ~Locked(i)
                     /\ \/ inbox[i] = "pending"
                        \/ inbox[i] = "processing" /\ stale[i]}

ClaimRows(w) ==
    /\ pc[w] = "claim"
    /\ LET batch == {i \in Claimable :
                        Cardinality({j \in Claimable : j < i}) < ClaimBatch}
       IN  /\ inbox' = [i \in Inboxes |->
                            IF i \in batch THEN "processing" ELSE inbox[i]]
           /\ attempts' = [i \in Inboxes |->
                            IF i \in batch THEN attempts[i] + 1 ELSE attempts[i]]
           /\ stale' = [i \in Inboxes |-> stale[i] /\ i \notin batch]
           /\ todo' = [todo EXCEPT ![w] = batch]
           /\ saw' = [saw EXCEPT ![w] = {i \in batch : answeredBy[i] # NoReply}]
           /\ Goto(w, IF batch = {} THEN "idle" ELSE "reconfirm")
    /\ UNCHANGED <<answeredBy, bridged, drafts, job, founder>>

\* w is done with row i, whatever became of it.
Leave(w, i) ==
    /\ todo' = [todo EXCEPT ![w] = @ \ {i}]
    /\ Goto(w, IF todo[w] = {i} THEN "idle" ELSE "reconfirm")
    /\ Set(w, NoJob)
    /\ saw' = [saw EXCEPT ![w] = @ \ {i}]

\* tryR49Reconfirm: a task is notified again, or else an open draft presented
\* again, and the row is finished
Reconfirm(w, i) ==
    /\ pc[w] = "reconfirm" /\ Current(w, i)
    /\ \/ /\ bridged[i]
          /\ Goto(w, "act") /\ UNCHANGED job
       \/ /\ ~bridged[i] /\ OpenDrafts(i) = {}
          /\ Goto(w, "extract") /\ UNCHANGED job
       \/ \E q \in Drafts :
            /\ ~bridged[i] /\ OpenDraft(i, q)
            /\ Set(w, [NoJob EXCEPT !.left = 1, !.draft = q])
            /\ Goto(w, "present")
    /\ UNCHANGED <<rows, drafts, todo, saw, founder>>

\* The contact is known and the model extracts the intents; setInboxCustomer
\* refreshes the row.
Extract(w, i) ==
    /\ pc[w] = "extract" /\ Current(w, i) /\ ~Locked(i)
    /\ stale' = [stale EXCEPT ![i] = FALSE]
    /\ \E n \in 0..MaxIntents : Set(w, [NoJob EXCEPT !.left = n])
    /\ Goto(w, "act")
    /\ UNCHANGED <<inbox, attempts, answeredBy, bridged, drafts, todo, saw, founder>>

\* An intent that makes a task, or a comment on one: recordTaskBridge
BridgeTask(w, i) ==
    /\ pc[w] = "act" /\ Current(w, i) /\ job[w].left > 0
    /\ bridged' = [bridged EXCEPT ![i] = TRUE]
    /\ Set(w, [NoJob EXCEPT !.left = job[w].left - 1])
    /\ UNCHANGED <<inbox, attempts, stale, answeredBy, drafts, pc, todo, saw, founder>>

\* An intent that drafts nothing and makes no task: a meeting, an audit row, a
\* reply suppressed because the claimed row was already answered.
ActWithoutDraft(w, i) ==
    /\ pc[w] = "act" /\ Current(w, i) /\ job[w].left > 0
    /\ Set(w, [NoJob EXCEPT !.left = job[w].left - 1])
    /\ UNCHANGED <<rows, drafts, pc, todo, saw, founder>>

\* Mutant of Draft: no lookup of a draft that is open already.
DraftAgain(w, i) ==
    /\ pc[w] = "act" /\ Current(w, i) /\ job[w].left > 0
    /\ i \notin saw[w]
    /\ \E k \in Kinds : Set(w, [job[w] EXCEPT !.kind = k])
    /\ Goto(w, "record")
    /\ UNCHANGED <<rows, drafts, todo, saw, founder>>

\* draftAndPresent and draftClarification, up to the draft's text
Draft(w, i) ==
    /\ pc[w] = "act" /\ Current(w, i) /\ job[w].left > 0
    /\ i \notin saw[w]
    /\ \E k \in Kinds :
        \/ /\ OpenDrafts(i) = {}
           /\ Set(w, [job[w] EXCEPT !.kind = k])
           /\ Goto(w, "record")
        \/ \E q \in Drafts :
            /\ OpenDraft(i, q)
            /\ Set(w, [job[w] EXCEPT !.kind = k, !.draft = q])
            /\ Goto(w, "present")
    /\ UNCHANGED <<rows, drafts, todo, saw, founder>>

RecordDraftDecision(w, i) ==
    /\ pc[w] = "record" /\ Current(w, i)
    /\ \E e \in Decisions :
        /\ NewDecision(e)
        /\ outcome' = [outcome EXCEPT ![e] = "pending"]
        /\ about' = [about EXCEPT ![e] = i]
        /\ kind' = [kind EXCEPT ![e] = job[w].kind]
        /\ Set(w, [job[w] EXCEPT !.decision = e])
    /\ Goto(w, "check")
    /\ UNCHANGED <<rows, queue, decisionOf, shown, todo, saw, founder>>

\* enqueueDraft's first statement: was the message answered directly by now?
CheckAnswered(w, i) ==
    /\ pc[w] = "check" /\ Current(w, i)
    /\ Set(w, [job[w] EXCEPT !.direct = answeredBy[i] # NoReply])
    /\ Goto(w, "insert")
    /\ UNCHANGED <<rows, drafts, todo, saw, founder>>

\* Its INSERT and commit; a superseded draft is kept as cancelled evidence.
InsertDraft(w, i) ==
    /\ pc[w] = "insert" /\ Current(w, i)
    /\ \E q \in Drafts :
        /\ NewDraft(q)
        /\ queue' = [queue EXCEPT ![q] =
                        IF job[w].direct THEN "cancelled" ELSE "pending"]
        /\ decisionOf' = [decisionOf EXCEPT ![q] = job[w].decision]
        /\ Set(w, [job[w] EXCEPT !.draft = q, !.decision = 0, !.direct = FALSE])
    /\ outcome' = IF job[w].direct
                  THEN [outcome EXCEPT ![job[w].decision] = "modified"]
                  ELSE outcome
    /\ Goto(w, "present")
    /\ UNCHANGED <<rows, shown, about, kind, todo, saw, founder>>

Present(w, i) ==
    /\ pc[w] = "present" /\ Current(w, i)
    /\ shown' = [shown EXCEPT ![job[w].draft] = TRUE]
    /\ Set(w, [NoJob EXCEPT !.left = job[w].left - 1])
    /\ Goto(w, "act")
    /\ UNCHANGED <<rows, queue, decisionOf, outcome, about, kind, todo, saw, founder>>

\* markProcessed, without a condition on the row's status
MarkProcessed(w, i) ==
    /\ pc[w] = "act" /\ Current(w, i) /\ job[w].left = 0 /\ ~Locked(i)
    /\ inbox' = [inbox EXCEPT ![i] = "processed"]
    /\ stale' = [stale EXCEPT ![i] = FALSE]
    /\ Leave(w, i)
    /\ UNCHANGED <<attempts, answeredBy, bridged, drafts, founder>>

\* Mutant of Throw: an answer that could not be shown is swallowed too.
ThrowSwallowed(w, i) ==
    /\ pc[w] \notin {"idle", "claim"} /\ Current(w, i)
    /\ \/ /\ pc[w] \in {"record", "check", "insert", "present"}
          /\ Set(w, [NoJob EXCEPT !.left = job[w].left - 1])
          /\ Goto(w, "act")
          /\ UNCHANGED <<todo, saw>>
       \/ /\ pc[w] \in {"reconfirm", "extract", "act"}
          /\ Leave(w, i)
    /\ UNCHANGED <<rows, drafts, founder>>

\* A query, the model or the notifier throws.  What draftClarification throws
\* is swallowed; anything else leaves the row "processing".
Throw(w, i) ==
    /\ pc[w] \notin {"idle", "claim"} /\ Current(w, i)
    /\ \/ /\ pc[w] \in {"record", "check", "insert", "present"}
          /\ job[w].kind = "unclear"
          /\ Set(w, [NoJob EXCEPT !.left = job[w].left - 1])
          /\ Goto(w, "act")
          /\ UNCHANGED <<todo, saw>>
       \/ /\ \/ pc[w] \in {"reconfirm", "extract", "act"}
             \/ job[w].kind = "question"
          /\ Leave(w, i)
    /\ UNCHANGED <<rows, drafts, founder>>

\* The process dies with its batch; between batches it has nothing to lose.
Crash(w) ==
    /\ todo[w] # {}
    /\ Goto(w, "idle")
    /\ todo' = [todo EXCEPT ![w] = {}]
    /\ saw' = [saw EXCEPT ![w] = {}]
    /\ Set(w, NoJob)
    /\ UNCHANGED <<rows, drafts, founder>>

-----------------------------------------------------------------------------
(* The founder, on Telegram, in the app or in the console.                  *)

Approve(q) ==
    /\ Flip(q, "approved", "accepted")
    /\ UNCHANGED <<rows, workers, founder>>

\* replaceDraftBodyAndApprove
Edit(q) ==
    /\ Flip(q, "approved", "modified")
    /\ UNCHANGED <<rows, workers, founder>>

\* cancelDraft
Reject(q) ==
    /\ Flip(q, "cancelled", "rejected")
    /\ UNCHANGED <<rows, workers, founder>>

\* reviseFromInstruction reads the open draft, then asks the model.
StartRevise(v, q) ==
    /\ revising[v] = 0 /\ queue[q] = "pending"
    /\ revising' = [revising EXCEPT ![v] = q]
    /\ UNCHANGED <<rows, drafts, workers, reply, found, revises, requeues>>

\* Mutant of Revise: the queue row keeps its old decision.
ReviseKeepsLink(v) ==
    /\ revising[v] # 0 /\ revises < MaxRevises
    /\ queue[revising[v]] = "pending"
    /\ \E e \in Decisions :
        LET old == decisionOf[revising[v]] IN
        /\ NewDecision(e)
        /\ outcome' = [outcome EXCEPT
                          ![old] = IF @ = "pending" THEN "revised" ELSE @,
                          ![e] = "pending"]
        /\ about' = [about EXCEPT ![e] = about[old]]
        /\ kind' = [kind EXCEPT ![e] = kind[old]]
    /\ revising' = [revising EXCEPT ![v] = 0]
    /\ revises' = revises + 1
    /\ UNCHANGED <<rows, queue, decisionOf, shown, workers, reply, found, requeues>>

\* reviseDraft: the old decision is revised, a new one opened in its place
Revise(v) ==
    /\ revising[v] # 0 /\ revises < MaxRevises
    /\ queue[revising[v]] = "pending"
    /\ \E e \in Decisions :
        LET old == decisionOf[revising[v]] IN
        /\ NewDecision(e)
        /\ outcome' = [outcome EXCEPT
                          ![old] = IF @ = "pending" THEN "revised" ELSE @,
                          ![e] = "pending"]
        /\ about' = [about EXCEPT ![e] = about[old]]
        /\ kind' = [kind EXCEPT ![e] = kind[old]]
        /\ decisionOf' = [decisionOf EXCEPT ![revising[v]] = e]
    /\ revising' = [revising EXCEPT ![v] = 0]
    /\ revises' = revises + 1
    /\ UNCHANGED <<rows, queue, shown, workers, reply, found, requeues>>

\* The draft was resolved meanwhile, or the regeneration failed.
ReviseNothing(v) ==
    /\ revising[v] # 0
    /\ revising' = [revising EXCEPT ![v] = 0]
    /\ UNCHANGED <<rows, drafts, workers, reply, found, revises, requeues>>

\* The founder's own WhatsApp reply is ingested as an outbound row.
StoreReply(o) ==
    /\ reply[o] = "absent"
    /\ reply' = [reply EXCEPT ![o] = "stored"]
    /\ UNCHANGED <<rows, drafts, workers, revising, found, revises, requeues>>

\* reconcileFounderWhatsappReply up to its SELECT of the open drafts: it has
\* locked the reply, and linked the inbound rows (committed by ReconcileReply).
MatchReply(o) ==
    /\ reply[o] = "stored"
    /\ \A i \in Answers[o] : ~Locked(i)
    /\ reply' = [reply EXCEPT ![o] = "matching"]
    /\ found' = [found EXCEPT ![o] =
                    {<<q, decisionOf[q]>> :
                        q \in {x \in UNION {OpenDrafts(i) : i \in Answers[o]} :
                                  outcome[decisionOf[x]] = "pending"}}]
    /\ UNCHANGED <<rows, drafts, workers, revising, revises, requeues>>

\* FOR UPDATE checks the selected pairs again once it has their locks.
StillOpen(o) ==
    {q \in Drafts : /\ <<q, decisionOf[q]>> \in found[o]
                    /\ queue[q] = "pending" /\ outcome[decisionOf[q]] = "pending"}

ReconcileReply(o) ==
    /\ reply[o] = "matching"
    /\ answeredBy' = [i \in Inboxes |->
                        IF i \in Answers[o] /\ answeredBy[i] = NoReply
                        THEN o ELSE answeredBy[i]]
    /\ stale' = [i \in Inboxes |->
                    stale[i] /\ ~(i \in Answers[o] /\ answeredBy[i] = NoReply)]
    /\ queue' = [q \in Drafts |-> IF q \in StillOpen(o) THEN "cancelled" ELSE queue[q]]
    /\ outcome' = [e \in Decisions |->
                      IF \E q \in StillOpen(o) : decisionOf[q] = e
                      THEN "modified" ELSE outcome[e]]
    /\ reply' = [reply EXCEPT ![o] = "reconciled"]
    /\ found' = [found EXCEPT ![o] = {}]
    /\ UNCHANGED <<inbox, attempts, bridged, decisionOf, shown, about, kind, workers,
                   revising, revises, requeues>>

\* ROLLBACK; the founder-reply worker tries again
ReconcileThrows(o) ==
    /\ reply[o] = "matching"
    /\ reply' = [reply EXCEPT ![o] = "stored"]
    /\ found' = [found EXCEPT ![o] = {}]
    /\ UNCHANGED <<rows, drafts, workers, revising, revises, requeues>>

\* the console's requeueInbox
RequeueInbox(i) ==
    /\ inbox[i] = "failed" /\ ~Locked(i) /\ requeues < MaxRequeues
    /\ inbox' = [inbox EXCEPT ![i] = "pending"]
    /\ attempts' = [attempts EXCEPT ![i] = 0]
    /\ requeues' = requeues + 1
    /\ UNCHANGED <<stale, answeredBy, bridged, drafts, workers, revising, reply, found, revises>>

StuckPasses(i) ==
    /\ inbox[i] = "processing" /\ ~stale[i]
    /\ stale' = [stale EXCEPT ![i] = TRUE]
    /\ UNCHANGED <<inbox, attempts, answeredBy, bridged, drafts, workers, founder>>

-----------------------------------------------------------------------------
HandleRow(w, i) ==
    \/ Reconfirm(w, i) \/ Extract(w, i)
    \/ BridgeTask(w, i) \/ ActWithoutDraft(w, i) \/ Draft(w, i)
    \/ RecordDraftDecision(w, i) \/ CheckAnswered(w, i) \/ InsertDraft(w, i)
    \/ Present(w, i) \/ MarkProcessed(w, i) \/ Throw(w, i)

Tick(w) == FailStuck(w) \/ ClaimRows(w) \/ \E i \in Inboxes : HandleRow(w, i)

Verdict(q) == Approve(q) \/ Edit(q) \/ Reject(q)

Next ==
    \/ \E w \in Workers : Tick(w) \/ Crash(w)
    \/ \E q \in Drafts : Verdict(q) \/ \E v \in Reviewers : StartRevise(v, q)
    \/ \E v \in Reviewers : Revise(v) \/ ReviseNothing(v)
    \/ \E o \in Replies : StoreReply(o) \/ MatchReply(o) \/ ReconcileReply(o)
                              \/ ReconcileThrows(o)
    \/ \E i \in Inboxes : RequeueInbox(i) \/ StuckPasses(i)

Spec == Init /\ [][Next]_vars

\* The worker runner ticks for ever, awaits return, and time passes.  A reply is
\* retried for seven days only, so its reconciliation does not lock the rows over
\* and over without an end.
Fairness ==
    /\ \A w \in Workers : WF_vars(Tick(w))
    /\ \A o \in Replies :
        /\ WF_vars(ReconcileReply(o) \/ ReconcileThrows(o))
        /\ SF_vars(ReconcileReply(o))
    /\ \A i \in Inboxes : WF_vars(StuckPasses(i))

FairSpec == Spec /\ Fairness

-----------------------------------------------------------------------------
(* What the review of drafts promises.                                      *)

\* The audit follows the queue: an open draft's decision is pending, a sent one's
\* accepted or modified, a cancelled one's rejected - or modified, and then the
\* founder did answer.  Every other decision was superseded or never enqueued.
AuditFollowsQueue ==
    /\ \A q \in Drafts :
        /\ queue[q] = "pending" => outcome[decisionOf[q]] = "pending"
        /\ queue[q] = "approved" => outcome[decisionOf[q]] \in {"accepted", "modified"}
        /\ queue[q] = "cancelled" =>
            \/ outcome[decisionOf[q]] = "rejected"
            \/ /\ outcome[decisionOf[q]] = "modified"
               /\ answeredBy[about[decisionOf[q]]] # NoReply
    /\ \A e \in Decisions :
        (\A q \in Drafts : decisionOf[q] # e) =>
            outcome[e] \in {"none", "pending", "revised"}

\* The founder's word is final: no late revise, replayed tap, reclaimed message
\* or reconciliation reopens or overturns a draft he approved or cancelled.
VerdictIsFinal ==
    [][\A q \in Drafts : queue[q] \in {"approved", "cancelled"} =>
            /\ queue'[q] = queue[q] /\ decisionOf'[q] = decisionOf[q]
            /\ outcome'[decisionOf[q]] = outcome[decisionOf[q]]]_vars

\* With one replica a message has one open draft at a time, over throws, crashes,
\* reclaims, several intents and requeues: an attempt ends before the next begins.
OneOpenDraft ==
    Cardinality(Workers) = 1 => \A i \in Inboxes : Cardinality(OpenDrafts(i)) <= 1

\* A message that was claimed is processed in the end, or given up after
\* MAX_ATTEMPTS: none stays "processing".
ClaimedIsSettled ==
    \A i \in Inboxes : inbox[i] = "processing" ~> inbox[i] \in {"processed", "failed"}

\* The founder sees the answer drafted for him, or is told that the message failed,
\* over throws and crashes at any await - unless the message also led to a task.
LoneAnswerIsShown ==
    \A q \in Drafts :
        LET i == about[decisionOf[q]] IN
        queue[q] = "pending" /\ kind[decisionOf[q]] = "question" /\ ~bridged[i] ~>
            shown[q] \/ queue[q] # "pending" \/ bridged[i] \/ inbox[i] = "failed"

\* "Close the narrow race ... re-check the durable link while creating the queue
\* row": a message the founder answered himself has no draft left to approve.
AnsweredHasNoOpenDraft ==
    \A i \in Inboxes : answeredBy[i] # NoReply => OpenDrafts(i) = {}

\* "so a reclaimed answerable question never mints a second draft"
OneDraftPerMessage ==
    \A i \in Inboxes : Cardinality(DraftsAbout(i)) <= 1

=============================================================================
