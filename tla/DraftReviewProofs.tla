-------------------------- MODULE DraftReviewProofs --------------------------
(***************************************************************************)
(* Theorems about DraftReview for any number of workers, reviewers,         *)
(* messages, drafts, decisions and replies.                                 *)
(***************************************************************************)
EXTENDS DraftReview, FiniteSetTheorems, TLAPS

\* A draft row has a decision of its own, which has been recorded.
LinkInv ==
    /\ \A q \in Drafts : queue[q] = "none" <=> decisionOf[q] = 0
    /\ \A q \in Drafts : queue[q] # "none" => outcome[decisionOf[q]] # "none"
    /\ \A p, q \in Drafts : p # q /\ decisionOf[p] = decisionOf[q] => decisionOf[p] = 0

\* Between the record of a decision and the insert of its draft the decision is
\* one worker's, is about the row it handles, and is pending and without a draft;
\* a superseded draft is on the way only after the message was answered.
JobInv ==
    /\ \A w \in Workers :
        /\ pc[w] \notin {"check", "insert"} => job[w].decision = 0
        /\ pc[w] \in {"check", "insert"} =>
            /\ job[w].decision # 0 /\ outcome[job[w].decision] = "pending"
            /\ \A q \in Drafts : decisionOf[q] # job[w].decision
            /\ \A i \in Inboxes : Current(w, i) => about[job[w].decision] = i
        /\ pc[w] = "insert" /\ job[w].direct = TRUE =>
            /\ about[job[w].decision] \in Inboxes
            /\ answeredBy[about[job[w].decision]] # NoReply
    /\ \A w, x \in Workers :
        w # x /\ job[w].decision = job[x].decision => job[w].decision = 0

\* An intent is under way while its draft is being made.
LeftInv ==
    \A w \in Workers :
        pc[w] \in {"record", "check", "insert", "present"} => job[w].left > 0

\* What a reconciliation has selected are decisions about messages it answers.
FoundInv ==
    \A o \in Replies : \A q \in Drafts : \A e \in Decisions :
        <<q, e>> \in found[o] => outcome[e] # "none" /\ about[e] \in Answers[o]

\* A recorded decision is about a message.
AboutInv == \A e \in Decisions : outcome[e] # "none" => about[e] \in Inboxes

\* The whole inductive invariant.
IInv ==
    /\ TypeOK /\ LinkInv /\ JobInv /\ LeftInv /\ FoundInv /\ AboutInv
    /\ AuditFollowsQueue

-----------------------------------------------------------------------------
USE IdsAssumption, FiniteAssumption, ReplyAssumption, BoundsAssumption

\* No message, no draft and no decision: the invariant holds at the start.
LEMMA InitIInv == Init => IInv
<1> SUFFICES ASSUME Init PROVE IInv
  OBVIOUS
<1> USE DEF Init
<1>1. TypeOK
  <2>1. NoJob \in Jobs
    BY DEF NoJob, Jobs, Kinds
  <2> QED
    BY <2>1 DEF TypeOK, InboxStatus, QueueStatus, DecisionOutcome, Kinds, Stages
<1>2. LinkInv /\ FoundInv /\ AboutInv
  BY DEF LinkInv, FoundInv, AboutInv
<1>3. JobInv /\ LeftInv
  BY DEF JobInv, LeftInv, NoJob
<1>4. AuditFollowsQueue
  BY DEF AuditFollowsQueue
<1> QED
  BY <1>1, <1>2, <1>3, <1>4 DEF IInv

-----------------------------------------------------------------------------
(* What the steps do, in the shape the invariants need.                      *)

AuditVars == <<queue, decisionOf, outcome, about, kind, answeredBy>>

OthersSame(w) ==
    \A x \in Workers \ {w} :
        /\ pc'[x] = pc[x] /\ todo'[x] = todo[x] /\ saw'[x] = saw[x]
        /\ job'[x] = job[x]

\* A worker goes on without a decision of its own in hand.
Aside(w) ==
    /\ UNCHANGED <<AuditVars, found>> /\ OthersSame(w)
    /\ job'[w].decision = 0
    /\ pc'[w] \notin {"check", "insert"}
    /\ pc'[w] \in {"record", "present"} => job'[w].left > 0
    /\ pc'[w] = "record" =>
        /\ todo'[w] = todo[w]
        /\ \E i \in Inboxes : Current(w, i) /\ OpenDrafts(i) = {}

\* Nothing that the audit is about happens.
Silent ==
    /\ UNCHANGED <<AuditVars, workers>>
    /\ \A o \in Replies : found'[o] \subseteq found[o]

\* The stages at which a worker may be without one.
LEMMA EmptyHanded ==
    ASSUME JobInv, TypeOK, NEW w \in Workers, pc[w] \notin {"check", "insert"}
    PROVE  job[w].decision = 0
BY DEF JobInv

\* The head of a tick, and a crash.
LEMMA TickSteps ==
    ASSUME IInv, NEW w \in Workers, FailStuck(w) \/ ClaimRows(w) \/ Crash(w)
    PROVE  Aside(w)
<1> USE DEF IInv, TypeOK, Aside, OthersSame, AuditVars, drafts, founder, rows, Goto, Set
<1>1. CASE FailStuck(w)
  BY <1>1, EmptyHanded DEF FailStuck
<1>2. CASE ClaimRows(w)
  BY <1>2, EmptyHanded DEF ClaimRows
<1>3. CASE Crash(w)
  BY <1>3 DEF Crash, NoJob
<1> QED
  BY <1>1, <1>2, <1>3

\* Every step of a worker on a row, but for the three that make a draft.
LEMMA RowSteps ==
    ASSUME IInv, NEW w \in Workers, NEW i \in Inboxes, HandleRow(w, i)
    PROVE  \/ Aside(w)
           \/ RecordDraftDecision(w, i) \/ CheckAnswered(w, i) \/ InsertDraft(w, i)
<1> USE DEF IInv, TypeOK, Aside, OthersSame, AuditVars, drafts, founder, rows, Goto, Set
<1>1. CASE Reconfirm(w, i)
  <2>1. /\ UNCHANGED <<AuditVars, found, todo, saw>> /\ pc[w] = "reconfirm"
        /\ \A x \in Workers \ {w} : pc'[x] = pc[x] /\ job'[x] = job[x]
    BY <1>1 DEF Reconfirm
  <2>2. CASE job' = job /\ pc' = [pc EXCEPT ![w] = "act"]
    BY <2>1, <2>2, EmptyHanded
  <2>3. CASE job' = job /\ pc' = [pc EXCEPT ![w] = "extract"]
    BY <2>1, <2>3, EmptyHanded
  <2>4. ASSUME NEW q \in Drafts, pc' = [pc EXCEPT ![w] = "present"],
               job' = [job EXCEPT ![w] = [NoJob EXCEPT !.left = 1, !.draft = q]]
        PROVE  Aside(w)
    <3>1. job'[w].decision = 0 /\ job'[w].left = 1
      BY <2>4 DEF NoJob
    <3> QED
      BY <2>1, <2>4, <3>1
  <2> QED
    BY <1>1, <2>2, <2>3, <2>4 DEF Reconfirm
<1>2. CASE Extract(w, i)
  BY <1>2 DEF Extract, NoJob
<1>3. CASE BridgeTask(w, i)
  BY <1>3 DEF BridgeTask, NoJob
<1>4. CASE ActWithoutDraft(w, i)
  BY <1>4 DEF ActWithoutDraft, NoJob
<1>5. CASE Draft(w, i)
  <2>1. /\ UNCHANGED <<AuditVars, found, todo, saw>> /\ pc[w] = "act"
        /\ job[w].left > 0 /\ job[w].decision = 0
    BY <1>5, EmptyHanded DEF Draft
  <2>2. \/ pc' = [pc EXCEPT ![w] = "record"] /\ Current(w, i) /\ OpenDrafts(i) = {}
        \/ pc' = [pc EXCEPT ![w] = "present"]
    BY <1>5 DEF Draft
  <2>3. /\ job'[w].left = job[w].left /\ job'[w].decision = job[w].decision
        /\ \A x \in Workers \ {w} : job'[x] = job[x]
    <3>1. PICK k \in Kinds :
              \/ job' = [job EXCEPT ![w] = [job[w] EXCEPT !.kind = k]]
              \/ \E q \in Drafts :
                    job' = [job EXCEPT ![w] = [job[w] EXCEPT !.kind = k, !.draft = q]]
      BY <1>5 DEF Draft
    <3>2. job[w] \in Jobs
      OBVIOUS
    <3>3. CASE job' = [job EXCEPT ![w] = [job[w] EXCEPT !.kind = k]]
      BY <3>2, <3>3 DEF Jobs
    <3>4. ASSUME NEW q \in Drafts,
                 job' = [job EXCEPT ![w] = [job[w] EXCEPT !.kind = k, !.draft = q]]
          PROVE  /\ job'[w].left = job[w].left /\ job'[w].decision = job[w].decision
                 /\ \A x \in Workers \ {w} : job'[x] = job[x]
      BY <3>2, <3>4 DEF Jobs
    <3> QED
      BY <3>1, <3>3, <3>4
  <2> QED
    BY <2>1, <2>2, <2>3
<1>6. CASE Present(w, i)
  BY <1>6 DEF Present, NoJob
<1>7. CASE MarkProcessed(w, i)
  BY <1>7 DEF MarkProcessed, Leave, NoJob
<1>8. CASE Throw(w, i)
  BY <1>8 DEF Throw, Leave, NoJob
<1> QED
  BY <1>1, <1>2, <1>3, <1>4, <1>5, <1>6, <1>7, <1>8 DEF HandleRow

\* The clock, the console's requeue, and the reads of the founder's requests.
LEMMA SilentSteps ==
    ASSUME IInv,
           \/ \E v \in Reviewers : \E q \in Drafts : StartRevise(v, q)
           \/ \E v \in Reviewers : ReviseNothing(v)
           \/ \E o \in Replies : StoreReply(o) \/ ReconcileThrows(o)
           \/ \E i \in Inboxes : RequeueInbox(i) \/ StuckPasses(i)
           \/ UNCHANGED vars
    PROVE  Silent
BY DEF IInv, TypeOK, Silent, AuditVars, StartRevise, ReviseNothing, StoreReply,
    ReconcileThrows, RequeueInbox, StuckPasses, vars, rows, drafts, workers, founder

-----------------------------------------------------------------------------
(* Every step preserves each part of the invariant.                          *)

\* A worker's variables after a change of its job.
LEMMA SetJob ==
    ASSUME TypeOK, NEW w \in Workers, NEW j \in Jobs, Set(w, j)
    PROVE  job' \in [Workers -> Jobs]
BY DEF TypeOK, Set

\* A job stays one when a field takes another value.
LEMMA JobFields ==
    ASSUME NEW j \in Jobs
    PROVE  /\ \A n \in 0..MaxIntents + 1 : [j EXCEPT !.left = n] \in Jobs
           /\ \A k \in Kinds : [j EXCEPT !.kind = k] \in Jobs
           /\ \A q \in Drafts : [j EXCEPT !.draft = q] \in Jobs
           /\ \A e \in Decisions \cup {0} : [j EXCEPT !.decision = e] \in Jobs
           /\ \A b \in BOOLEAN : [j EXCEPT !.direct = b] \in Jobs
           /\ \A k \in Kinds : \A q \in Drafts :
                [j EXCEPT !.kind = k, !.draft = q] \in Jobs
           /\ \A q \in Drafts :
                [j EXCEPT !.draft = q, !.decision = 0, !.direct = FALSE] \in Jobs
           /\ j.left \in 0..MaxIntents + 1 /\ j.kind \in Kinds
           /\ j.decision \in Decisions \cup {0}
BY DEF Jobs

\* No job is a job.
LEMMA NoJobIsAJob == NoJob \in Jobs
BY DEF NoJob, Jobs, Kinds

\* An intent is one fewer.
LEMMA OneIntentLess ==
    ASSUME TypeOK, NEW w \in Workers, job[w].left > 0
    PROVE  [NoJob EXCEPT !.left = job[w].left - 1] \in Jobs
<1>1. job[w].left \in 0..MaxIntents + 1
  BY JobFields DEF TypeOK
<1>2. job[w].left - 1 \in 0..MaxIntents + 1
  BY <1>1
<1> QED
  BY <1>2, NoJobIsAJob, JobFields

\* The steps of a worker on a row keep the types; LeftInv keeps the count of the
\* intents from falling below nothing.
LEMMA RowTypes ==
    ASSUME IInv, NEW w \in Workers, NEW i \in Inboxes, HandleRow(w, i)
    PROVE  TypeOK'
<1>0. TypeOK /\ LeftInv
  BY DEF IInv
<1> USE <1>0 DEF InboxStatus, QueueStatus, DecisionOutcome, Kinds, Stages,
    rows, drafts, workers, founder, Goto
<1>1. CASE Reconfirm(w, i)
  <2>1. job' \in [Workers -> Jobs]
    <3>1. job' = job \/ \E q \in Drafts : Set(w, [NoJob EXCEPT !.left = 1, !.draft = q])
      BY <1>1 DEF Reconfirm
    <3>2. \A q \in Drafts : [NoJob EXCEPT !.left = 1, !.draft = q] \in Jobs
      <4>1. 1 \in 0..MaxIntents + 1
        OBVIOUS
      <4> QED
        BY <4>1 DEF NoJob, Jobs, Kinds
    <3> QED
      BY <3>1, <3>2, SetJob DEF TypeOK
  <2>2. pc' \in [Workers -> Stages]
    <3>1. \E g \in {"act", "extract", "present"} : pc' = [pc EXCEPT ![w] = g]
      BY <1>1 DEF Reconfirm
    <3> QED
      BY <3>1 DEF TypeOK
  <2> QED
    BY <1>1, <2>1, <2>2 DEF Reconfirm, TypeOK
<1>2. CASE Extract(w, i)
  <2>1. PICK n \in 0..MaxIntents : Set(w, [NoJob EXCEPT !.left = n])
    BY <1>2 DEF Extract
  <2>2. job' \in [Workers -> Jobs]
    <3>1. n \in 0..MaxIntents + 1
      OBVIOUS
    <3> QED
      BY <2>1, <3>1, NoJobIsAJob, JobFields, SetJob
  <2> QED
    BY <1>2, <2>2 DEF Extract, TypeOK
<1>3. CASE BridgeTask(w, i)
  <2>1. job' \in [Workers -> Jobs]
    BY <1>3, OneIntentLess, SetJob DEF BridgeTask
  <2> QED
    BY <1>3, <2>1 DEF BridgeTask, TypeOK
<1>4. CASE ActWithoutDraft(w, i)
  <2>1. job' \in [Workers -> Jobs]
    BY <1>4, OneIntentLess, SetJob DEF ActWithoutDraft
  <2> QED
    BY <1>4, <2>1 DEF ActWithoutDraft, TypeOK
<1>5. CASE Draft(w, i)
  <2>1. PICK k \in Kinds :
            \/ Set(w, [job[w] EXCEPT !.kind = k])
            \/ \E q \in Drafts : Set(w, [job[w] EXCEPT !.kind = k, !.draft = q])
    BY <1>5 DEF Draft
  <2>2. /\ [job[w] EXCEPT !.kind = k] \in Jobs
        /\ \A q \in Drafts : [job[w] EXCEPT !.kind = k, !.draft = q] \in Jobs
    BY JobFields DEF TypeOK
  <2>3. job' \in [Workers -> Jobs]
    BY <2>1, <2>2, SetJob
  <2>4. pc' \in [Workers -> Stages]
    <3>1. \E g \in {"record", "present"} : pc' = [pc EXCEPT ![w] = g]
      BY <1>5 DEF Draft
    <3> QED
      BY <3>1 DEF TypeOK
  <2> QED
    BY <1>5, <2>3, <2>4 DEF Draft, TypeOK
<1>6. CASE RecordDraftDecision(w, i)
  <2>1. PICK e \in Decisions :
            /\ outcome' = [outcome EXCEPT ![e] = "pending"]
            /\ about' = [about EXCEPT ![e] = i]
            /\ kind' = [kind EXCEPT ![e] = job[w].kind]
            /\ Set(w, [job[w] EXCEPT !.decision = e])
    BY <1>6 DEF RecordDraftDecision
  <2>2. job[w].kind \in Kinds /\ [job[w] EXCEPT !.decision = e] \in Jobs
    BY JobFields DEF TypeOK
  <2>3. job' \in [Workers -> Jobs]
    BY <2>1, <2>2, SetJob
  <2> QED
    BY <1>6, <2>1, <2>2, <2>3 DEF RecordDraftDecision, TypeOK
<1>7. CASE CheckAnswered(w, i)
  <2>1. [job[w] EXCEPT !.direct = (answeredBy[i] # NoReply)] \in Jobs
    BY JobFields DEF TypeOK
  <2>2. job' \in [Workers -> Jobs]
    BY <1>7, <2>1, SetJob DEF CheckAnswered
  <2> QED
    BY <1>7, <2>2 DEF CheckAnswered, TypeOK
<1>8. CASE InsertDraft(w, i)
  <2>1. PICK q \in Drafts :
            /\ queue' = [queue EXCEPT ![q] =
                            IF job[w].direct THEN "cancelled" ELSE "pending"]
            /\ decisionOf' = [decisionOf EXCEPT ![q] = job[w].decision]
            /\ Set(w, [job[w] EXCEPT !.draft = q, !.decision = 0, !.direct = FALSE])
    BY <1>8 DEF InsertDraft
  <2>2. /\ job[w].decision \in Decisions \cup {0}
        /\ [job[w] EXCEPT !.draft = q, !.decision = 0, !.direct = FALSE] \in Jobs
    BY JobFields DEF TypeOK
  <2>3. job' \in [Workers -> Jobs]
    BY <2>1, <2>2, SetJob
  <2>4. outcome' \in [Decisions -> DecisionOutcome]
    BY <1>8 DEF InsertDraft, TypeOK
  <2>5. queue' \in [Drafts -> QueueStatus]
    BY <2>1 DEF TypeOK
  <2> QED
    BY <1>8, <2>1, <2>2, <2>3, <2>4, <2>5 DEF InsertDraft, TypeOK
<1>9. CASE Present(w, i)
  <2>1. job' \in [Workers -> Jobs]
    BY <1>9, OneIntentLess, SetJob DEF Present, LeftInv
  <2> QED
    BY <1>9, <2>1 DEF Present, TypeOK
<1>10. CASE MarkProcessed(w, i)
  <2>1. job' \in [Workers -> Jobs]
    BY <1>10, NoJobIsAJob, SetJob DEF MarkProcessed, Leave
  <2> QED
    BY <1>10, <2>1 DEF MarkProcessed, Leave, TypeOK
<1>11. CASE Throw(w, i)
  <2>1. job' \in [Workers -> Jobs]
    BY <1>11, NoJobIsAJob, OneIntentLess, SetJob DEF Throw, Leave, LeftInv
  <2>2. /\ pc' \in [Workers -> Stages] /\ todo' \in [Workers -> SUBSET Inboxes]
        /\ saw' \in [Workers -> SUBSET Inboxes]
    <3>1. /\ \E g \in {"act", "idle", "reconfirm"} : pc' = [pc EXCEPT ![w] = g]
          /\ todo' \in {todo, [todo EXCEPT ![w] = @ \ {i}]}
          /\ saw' \in {saw, [saw EXCEPT ![w] = @ \ {i}]}
      BY <1>11 DEF Throw, Leave
    <3> QED
      BY <3>1 DEF TypeOK
  <2> QED
    BY <1>11, <2>1, <2>2 DEF Throw, TypeOK
<1> QED
  BY <1>1, <1>2, <1>3, <1>4, <1>5, <1>6, <1>7, <1>8, <1>9, <1>10, <1>11 DEF HandleRow

\* So do all other steps; a draft under revision has a decision to copy.
LEMMA TypeStep == IInv /\ [Next]_vars => TypeOK'
<1> SUFFICES ASSUME IInv, [Next]_vars PROVE TypeOK'
  OBVIOUS
<1>0. TypeOK /\ LinkInv
  BY DEF IInv
<1> USE <1>0 DEF InboxStatus, QueueStatus, DecisionOutcome, Kinds, Stages,
    rows, drafts, workers, founder, Goto
<1>1. ASSUME NEW w \in Workers, FailStuck(w) PROVE TypeOK'
  BY <1>1 DEF FailStuck, TypeOK
<1>2. ASSUME NEW w \in Workers, ClaimRows(w) PROVE TypeOK'
  <2>1. attempts' \in [Inboxes -> 0..MaxAttempts]
    BY <1>2 DEF ClaimRows, Claimable, TypeOK
  <2>2. /\ todo' \in [Workers -> SUBSET Inboxes] /\ saw' \in [Workers -> SUBSET Inboxes]
        /\ pc' \in [Workers -> Stages]
    BY <1>2 DEF ClaimRows, Claimable, TypeOK
  <2>3. inbox' \in [Inboxes -> InboxStatus] /\ stale' \in [Inboxes -> BOOLEAN]
    BY <1>2 DEF ClaimRows, TypeOK
  <2> QED
    BY <1>2, <2>1, <2>2, <2>3 DEF ClaimRows, TypeOK
<1>3. ASSUME NEW w \in Workers, Crash(w) PROVE TypeOK'
  <2>1. job' \in [Workers -> Jobs]
    BY <1>3, NoJobIsAJob, SetJob DEF Crash
  <2> QED
    BY <1>3, <2>1 DEF Crash, TypeOK
<1>4. ASSUME NEW q \in Drafts, Verdict(q) PROVE TypeOK'
  BY <1>4 DEF Verdict, Approve, Edit, Reject, Flip, TypeOK
<1>5. ASSUME NEW v \in Reviewers, NEW q \in Drafts, StartRevise(v, q) PROVE TypeOK'
  BY <1>5 DEF StartRevise, TypeOK
<1>6. ASSUME NEW v \in Reviewers, Revise(v) PROVE TypeOK'
  <2>1. PICK e \in Decisions :
            LET old == decisionOf[revising[v]] IN
            /\ outcome' = [outcome EXCEPT
                              ![old] = IF @ = "pending" THEN "revised" ELSE @,
                              ![e] = "pending"]
            /\ about' = [about EXCEPT ![e] = about[old]]
            /\ kind' = [kind EXCEPT ![e] = kind[old]]
            /\ decisionOf' = [decisionOf EXCEPT ![revising[v]] = e]
    BY <1>6 DEF Revise
  <2>2. decisionOf[revising[v]] \in Decisions
    <3>1. revising[v] \in Drafts /\ queue[revising[v]] = "pending"
      BY <1>6 DEF Revise, TypeOK
    <3>2. decisionOf[revising[v]] # 0
      BY <3>1 DEF LinkInv
    <3> QED
      BY <3>1, <3>2 DEF TypeOK
  <2>3. revises' \in 0..MaxRevises
    BY <1>6 DEF Revise, TypeOK
  <2>4. /\ outcome' \in [Decisions -> DecisionOutcome]
        /\ about' \in [Decisions -> Inboxes \cup {0}] /\ kind' \in [Decisions -> Kinds]
        /\ decisionOf' \in [Drafts -> Decisions \cup {0}]
    BY <2>1, <2>2 DEF TypeOK
  <2> QED
    BY <1>6, <2>3, <2>4 DEF Revise, TypeOK
<1>7. ASSUME NEW v \in Reviewers, ReviseNothing(v) PROVE TypeOK'
  BY <1>7 DEF ReviseNothing, TypeOK
<1>8. ASSUME NEW o \in Replies, StoreReply(o) \/ ReconcileThrows(o) PROVE TypeOK'
  BY <1>8 DEF StoreReply, ReconcileThrows, TypeOK
<1>9. ASSUME NEW o \in Replies, MatchReply(o) PROVE TypeOK'
  <2>1. {<<q, decisionOf[q]>> :
            q \in {x \in UNION {OpenDrafts(i) : i \in Answers[o]} :
                      outcome[decisionOf[x]] = "pending"}} \subseteq Drafts \X Decisions
    <3>1. ASSUME NEW q \in UNION {OpenDrafts(i) : i \in Answers[o]}
          PROVE  q \in Drafts /\ queue[q] # "none"
      BY DEF OpenDrafts, DraftsAbout
    <3>2. \A q \in Drafts : queue[q] # "none" => decisionOf[q] \in Decisions
      BY DEF LinkInv, TypeOK
    <3>3. \A q \in UNION {OpenDrafts(i) : i \in Answers[o]} :
              <<q, decisionOf[q]>> \in Drafts \X Decisions
      BY <3>1, <3>2
    <3> QED
      BY <3>3
  <2> QED
    BY <1>9, <2>1 DEF MatchReply, TypeOK
<1>10. ASSUME NEW o \in Replies, ReconcileReply(o) PROVE TypeOK'
  BY <1>10 DEF ReconcileReply, TypeOK
<1>11. ASSUME NEW i \in Inboxes, RequeueInbox(i) \/ StuckPasses(i) PROVE TypeOK'
  <2>1. CASE RequeueInbox(i)
    <3>1. requeues + 1 \in 0..MaxRequeues
      BY <2>1 DEF RequeueInbox, TypeOK
    <3> QED
      BY <2>1, <3>1 DEF RequeueInbox, TypeOK
  <2>2. CASE StuckPasses(i)
    BY <2>2 DEF StuckPasses, TypeOK
  <2> QED
    BY <1>11, <2>1, <2>2
<1>12. CASE UNCHANGED vars
  BY <1>12 DEF vars, TypeOK
<1> QED
  BY <1>1, <1>2, <1>3, <1>4, <1>5, <1>6, <1>7, <1>8, <1>9, <1>10, <1>11, <1>12,
      RowTypes DEF Next, Tick

-----------------------------------------------------------------------------
(* The steps that make, resolve or revise a draft, in the same shape.        *)

\* A decision that did not exist is recorded for the row in hand.
Recorded(w, i, e) ==
    /\ pc[w] = "record" /\ Current(w, i) /\ outcome[e] = "none"
    /\ outcome' = [outcome EXCEPT ![e] = "pending"]
    /\ about' = [about EXCEPT ![e] = i]
    /\ UNCHANGED <<queue, decisionOf, answeredBy, found>> /\ OthersSame(w)
    /\ pc'[w] = "check" /\ todo'[w] = todo[w]
    /\ job'[w].decision = e /\ job'[w].left = job[w].left

\* The link is read; the decision in hand stays the same.
Checked(w, i) ==
    /\ pc[w] = "check" /\ Current(w, i)
    /\ UNCHANGED <<AuditVars, found>> /\ OthersSame(w)
    /\ pc'[w] = "insert" /\ todo'[w] = todo[w]
    /\ job'[w].decision = job[w].decision /\ job'[w].left = job[w].left
    /\ job'[w].direct = TRUE => answeredBy[i] # NoReply

\* The decision in hand becomes the one of a draft that did not exist.
Inserted(w, i, q) ==
    /\ pc[w] = "insert" /\ Current(w, i) /\ queue[q] = "none"
    /\ decisionOf' = [decisionOf EXCEPT ![q] = job[w].decision]
    /\ \/ /\ job[w].direct = TRUE /\ queue' = [queue EXCEPT ![q] = "cancelled"]
          /\ outcome' = [outcome EXCEPT ![job[w].decision] = "modified"]
       \/ /\ job[w].direct = FALSE /\ queue' = [queue EXCEPT ![q] = "pending"]
          /\ outcome' = outcome
    /\ UNCHANGED <<about, answeredBy, found>> /\ OthersSame(w)
    /\ pc'[w] = "present" /\ job'[w].decision = 0 /\ job'[w].left = job[w].left

\* The founder decides on an open draft.
Resolved(q, status, verdict) ==
    /\ queue[q] = "pending" /\ outcome[decisionOf[q]] = "pending"
    /\ \/ status = "approved" /\ verdict \in {"accepted", "modified"}
       \/ status = "cancelled" /\ verdict = "rejected"
    /\ queue' = [queue EXCEPT ![q] = status]
    /\ outcome' = [outcome EXCEPT ![decisionOf[q]] = verdict]
    /\ UNCHANGED <<decisionOf, about, answeredBy, found, workers>>

\* An open draft gets a decision that did not exist.
Revised(q, e) ==
    /\ queue[q] = "pending" /\ outcome[decisionOf[q]] = "pending" /\ outcome[e] = "none"
    /\ outcome' = [outcome EXCEPT ![decisionOf[q]] = "revised", ![e] = "pending"]
    /\ about' = [about EXCEPT ![e] = about[decisionOf[q]]]
    /\ decisionOf' = [decisionOf EXCEPT ![q] = e]
    /\ UNCHANGED <<queue, answeredBy, found, workers>>

\* A reconciliation selects pending decisions about messages it answers.
Matched(o) ==
    /\ UNCHANGED <<AuditVars, workers>>
    /\ \A p \in Replies \ {o} : found'[p] = found[p]
    /\ \A q \in Drafts : \A e \in Decisions : <<q, e>> \in found'[o] =>
            outcome[e] # "none" /\ about[e] \in Answers[o]

\* It commits: the drafts it found and still finds open are withdrawn, the
\* messages answered.
Withdrawn(o, S) ==
    /\ \A q \in S : /\ q \in Drafts /\ queue[q] = "pending"
                    /\ outcome[decisionOf[q]] = "pending"
                    /\ about[decisionOf[q]] \in Answers[o]
    /\ \A q \in Drafts : queue'[q] = IF q \in S THEN "cancelled" ELSE queue[q]
    /\ \A e \in Decisions :
            outcome'[e] = IF \E q \in S : decisionOf[q] = e THEN "modified" ELSE outcome[e]
    /\ \A i \in Inboxes : /\ answeredBy[i] # NoReply => answeredBy'[i] = answeredBy[i]
                          /\ i \in Answers[o] => answeredBy'[i] # NoReply
    /\ UNCHANGED <<decisionOf, about, workers>>
    /\ \A p \in Replies : found'[p] \subseteq found[p]

\* The steps of a worker and of the founder have these shapes.
LEMMA RecordIs ==
    ASSUME IInv, NEW w \in Workers, NEW i \in Inboxes, RecordDraftDecision(w, i)
    PROVE  \E e \in Decisions : Recorded(w, i, e)
<1>1. PICK e \in Decisions :
          /\ NewDecision(e)
          /\ outcome' = [outcome EXCEPT ![e] = "pending"]
          /\ about' = [about EXCEPT ![e] = i]
          /\ Set(w, [job[w] EXCEPT !.decision = e])
  BY DEF RecordDraftDecision
<1>2. /\ job[w] \in Jobs /\ job \in [Workers -> Jobs] /\ pc \in [Workers -> Stages]
  BY DEF IInv, TypeOK
<1>3. /\ job'[w] = [job[w] EXCEPT !.decision = e]
      /\ \A x \in Workers \ {w} : job'[x] = job[x]
  BY <1>1, <1>2 DEF Set
<1>4. job'[w].decision = e /\ job'[w].left = job[w].left
  BY <1>2, <1>3 DEF Jobs
<1>5. OthersSame(w) /\ pc'[w] = "check" /\ todo'[w] = todo[w]
  BY <1>2, <1>3 DEF RecordDraftDecision, OthersSame, Goto
<1>6. outcome[e] = "none"
  BY <1>1 DEF NewDecision, IsNext
<1> QED
  BY <1>1, <1>4, <1>5, <1>6 DEF Recorded, RecordDraftDecision, rows, founder

\* A check of the answered link, a draft's insert, a verdict, a revise, the two halves of a
\* reconciliation: each changes what its description below PROVE says.
LEMMA CheckIs ==
    ASSUME IInv, NEW w \in Workers, NEW i \in Inboxes, CheckAnswered(w, i)
    PROVE  Checked(w, i)
<1>1. job[w] \in Jobs /\ job \in [Workers -> Jobs] /\ pc \in [Workers -> Stages]
  BY DEF IInv, TypeOK
<1>2. /\ job'[w] = [job[w] EXCEPT !.direct = (answeredBy[i] # NoReply)]
      /\ \A x \in Workers \ {w} : job'[x] = job[x]
  BY <1>1 DEF CheckAnswered, Set
<1>3. /\ job'[w].decision = job[w].decision /\ job'[w].left = job[w].left
      /\ job'[w].direct = (answeredBy[i] # NoReply)
  BY <1>1, <1>2 DEF Jobs
<1>4. OthersSame(w) /\ pc'[w] = "insert" /\ todo'[w] = todo[w]
  BY <1>1, <1>2 DEF CheckAnswered, OthersSame, Goto
<1> QED
  BY <1>3, <1>4 DEF Checked, CheckAnswered, AuditVars, rows, drafts, founder

LEMMA InsertIs ==
    ASSUME IInv, NEW w \in Workers, NEW i \in Inboxes, InsertDraft(w, i)
    PROVE  \E q \in Drafts : Inserted(w, i, q)
<1>1. PICK q \in Drafts :
          /\ NewDraft(q)
          /\ queue' = [queue EXCEPT ![q] =
                          IF job[w].direct THEN "cancelled" ELSE "pending"]
          /\ decisionOf' = [decisionOf EXCEPT ![q] = job[w].decision]
          /\ Set(w, [job[w] EXCEPT !.draft = q, !.decision = 0, !.direct = FALSE])
  BY DEF InsertDraft
<1>2. /\ job[w] \in Jobs /\ job \in [Workers -> Jobs] /\ pc \in [Workers -> Stages]
  BY DEF IInv, TypeOK
<1>3. /\ job'[w] = [job[w] EXCEPT !.draft = q, !.decision = 0, !.direct = FALSE]
      /\ \A x \in Workers \ {w} : job'[x] = job[x]
  BY <1>1, <1>2 DEF Set
<1>4. job'[w].decision = 0 /\ job'[w].left = job[w].left /\ job[w].direct \in BOOLEAN
  BY <1>2, <1>3 DEF Jobs
<1>5. OthersSame(w) /\ pc'[w] = "present"
  BY <1>2, <1>3 DEF InsertDraft, OthersSame, Goto
<1>6. queue[q] = "none"
  BY <1>1 DEF NewDraft, IsNext
<1>7. \/ /\ job[w].direct = TRUE /\ queue' = [queue EXCEPT ![q] = "cancelled"]
         /\ outcome' = [outcome EXCEPT ![job[w].decision] = "modified"]
      \/ /\ job[w].direct = FALSE /\ queue' = [queue EXCEPT ![q] = "pending"]
         /\ outcome' = outcome
  BY <1>1, <1>4 DEF InsertDraft
<1> QED
  BY <1>1, <1>4, <1>5, <1>6, <1>7 DEF Inserted, InsertDraft, rows, founder

LEMMA VerdictIs ==
    ASSUME IInv, NEW q \in Drafts, Verdict(q)
    PROVE  \E status \in QueueStatus : \E verdict \in DecisionOutcome : Resolved(q, status, verdict)
<1>1. outcome[decisionOf[q]] = "pending" /\ queue[q] = "pending"
  BY DEF IInv, AuditFollowsQueue, Verdict, Approve, Edit, Reject, Flip
<1>2. outcome \in [Decisions -> DecisionOutcome]
  BY DEF IInv, TypeOK
<1>3. ASSUME NEW s \in QueueStatus, NEW u \in DecisionOutcome, Flip(q, s, u)
      PROVE  /\ queue' = [queue EXCEPT ![q] = s]
             /\ outcome' = [outcome EXCEPT ![decisionOf[q]] = u]
             /\ UNCHANGED <<decisionOf, about>>
  BY <1>1, <1>2, <1>3 DEF Flip
<1>4. CASE Approve(q)
  <2>1. Resolved(q, "approved", "accepted")
    BY <1>1, <1>3, <1>4 DEF Approve, Resolved, rows, founder,
        QueueStatus, DecisionOutcome
  <2> QED
    BY <2>1 DEF QueueStatus, DecisionOutcome
<1>5. CASE Edit(q)
  <2>1. Resolved(q, "approved", "modified")
    BY <1>1, <1>3, <1>5 DEF Edit, Resolved, rows, founder,
        QueueStatus, DecisionOutcome
  <2> QED
    BY <2>1 DEF QueueStatus, DecisionOutcome
<1>6. CASE Reject(q)
  <2>1. Resolved(q, "cancelled", "rejected")
    BY <1>1, <1>3, <1>6 DEF Reject, Resolved, rows, founder,
        QueueStatus, DecisionOutcome
  <2> QED
    BY <2>1 DEF QueueStatus, DecisionOutcome
<1> QED
  BY <1>4, <1>5, <1>6 DEF Verdict

LEMMA ReviseIs ==
    ASSUME IInv, NEW v \in Reviewers, Revise(v)
    PROVE  \E q \in Drafts : \E e \in Decisions : Revised(q, e)
<1> DEFINE q == revising[v]
<1>1. q \in Drafts /\ queue[q] = "pending"
  BY DEF IInv, TypeOK, Revise
<1>2. outcome[decisionOf[q]] = "pending" /\ outcome \in [Decisions -> DecisionOutcome]
  BY <1>1 DEF IInv, TypeOK, AuditFollowsQueue
<1>3. PICK e \in Decisions :
          /\ NewDecision(e)
          /\ outcome' = [outcome EXCEPT
                            ![decisionOf[q]] = IF @ = "pending" THEN "revised" ELSE @,
                            ![e] = "pending"]
          /\ about' = [about EXCEPT ![e] = about[decisionOf[q]]]
          /\ decisionOf' = [decisionOf EXCEPT ![q] = e]
  BY DEF Revise
<1>4. outcome[e] = "none"
  BY <1>3 DEF NewDecision, IsNext
<1>5. outcome' = [outcome EXCEPT ![decisionOf[q]] = "revised", ![e] = "pending"]
  BY <1>2, <1>3
<1>6. Revised(q, e)
  BY <1>1, <1>2, <1>3, <1>4, <1>5 DEF Revised, Revise, rows
<1> QED
  BY <1>1, <1>6

\* A draft that exists has a recorded decision.
LEMMA LinkedDraft ==
    ASSUME TypeOK, LinkInv, NEW q \in Drafts, queue[q] # "none"
    PROVE  decisionOf[q] \in Decisions /\ outcome[decisionOf[q]] # "none"
<1>1. decisionOf[q] # 0 /\ decisionOf[q] \in Decisions \cup {0}
  BY DEF TypeOK, LinkInv
<1> QED
  BY <1>1 DEF LinkInv

\* Two drafts do not share one.
LEMMA OwnDecision ==
    ASSUME TypeOK, LinkInv, NEW p \in Drafts, NEW q \in Drafts, queue[q] # "none",
           decisionOf[p] = decisionOf[q]
    PROVE  p = q
BY LinkedDraft DEF LinkInv

LEMMA MatchIs ==
    ASSUME IInv, NEW o \in Replies, MatchReply(o)
    PROVE  Matched(o)
<1>1. UNCHANGED <<AuditVars, workers>>
  BY DEF MatchReply, AuditVars, rows, drafts
<1>2. found' = [found EXCEPT ![o] = found'[o]] /\ DOMAIN found = Replies
  BY DEF MatchReply, IInv, TypeOK
<1>3. ASSUME NEW q \in Drafts, NEW e \in Decisions, <<q, e>> \in found'[o]
      PROVE  outcome[e] # "none" /\ about[e] \in Answers[o]
  <2>1. found'[o] = {<<x, decisionOf[x]>> :
                        x \in {y \in UNION {OpenDrafts(i) : i \in Answers[o]} :
                                  outcome[decisionOf[y]] = "pending"}}
    BY DEF MatchReply, IInv, TypeOK
  <2>2. PICK x \in UNION {OpenDrafts(i) : i \in Answers[o]} :
            outcome[decisionOf[x]] = "pending" /\ <<q, e>> = <<x, decisionOf[x]>>
    BY <1>3, <2>1
  <2>3. PICK i \in Answers[o] : x \in OpenDrafts(i)
    BY <2>2
  <2>4. about[decisionOf[x]] = i /\ decisionOf[x] = e
    BY <2>2, <2>3 DEF OpenDrafts, DraftsAbout
  <2> QED
    BY <2>2, <2>4
<1> QED
  BY <1>1, <1>2, <1>3 DEF Matched

LEMMA ReconcileIs ==
    ASSUME IInv, NEW o \in Replies, ReconcileReply(o)
    PROVE  Withdrawn(o, StillOpen(o))
<1> DEFINE S == StillOpen(o)
<1>1. \A q \in S : /\ q \in Drafts /\ queue[q] = "pending"
                   /\ outcome[decisionOf[q]] = "pending"
                   /\ <<q, decisionOf[q]>> \in found[o]
  BY DEF StillOpen
<1>2. \A q \in S : about[decisionOf[q]] \in Answers[o]
  <2>1. \A q \in S : decisionOf[q] \in Decisions
    BY <1>1, LinkedDraft DEF IInv
  <2> QED
    BY <1>1, <2>1 DEF IInv, FoundInv
<1>3. \A q \in Drafts : queue'[q] = IF q \in S THEN "cancelled" ELSE queue[q]
  BY DEF ReconcileReply
<1>4. \A e \in Decisions :
          outcome'[e] = IF \E q \in S : decisionOf[q] = e THEN "modified" ELSE outcome[e]
  BY DEF ReconcileReply
<1>5. \A i \in Inboxes : /\ answeredBy[i] # NoReply => answeredBy'[i] = answeredBy[i]
                         /\ i \in Answers[o] => answeredBy'[i] # NoReply
  BY DEF ReconcileReply
<1>6. UNCHANGED <<decisionOf, about, workers>>
  BY DEF ReconcileReply
<1>7. \A p \in Replies : found'[p] \subseteq found[p]
  BY DEF ReconcileReply, IInv, TypeOK
<1> QED
  BY <1>1, <1>2, <1>3, <1>4, <1>5, <1>6, <1>7 DEF Withdrawn

\* Every step has one of these shapes.
LEMMA Shapes ==
    ASSUME IInv, [Next]_vars
    PROVE  \/ \E w \in Workers : Aside(w)
           \/ \E w \in Workers : \E i \in Inboxes :
                \/ \E e \in Decisions : Recorded(w, i, e)
                \/ Checked(w, i)
                \/ \E q \in Drafts : Inserted(w, i, q)
           \/ \E q \in Drafts : \E status \in QueueStatus : \E verdict \in DecisionOutcome :
                Resolved(q, status, verdict)
           \/ \E q \in Drafts : \E e \in Decisions : Revised(q, e)
           \/ \E o \in Replies : Matched(o) \/ Withdrawn(o, StillOpen(o))
           \/ Silent
<1>1. ASSUME NEW w \in Workers, Tick(w) \/ Crash(w)
      PROVE  \/ Aside(w)
             \/ \E i \in Inboxes :
                \/ \E e \in Decisions : Recorded(w, i, e)
                \/ Checked(w, i)
                \/ \E q \in Drafts : Inserted(w, i, q)
  BY <1>1, TickSteps, RowSteps, RecordIs, CheckIs, InsertIs DEF Tick
<1>2. ASSUME NEW q \in Drafts, Verdict(q)
      PROVE  \E status \in QueueStatus : \E verdict \in DecisionOutcome :
                Resolved(q, status, verdict)
  BY <1>2, VerdictIs
<1>3. ASSUME NEW v \in Reviewers, Revise(v)
      PROVE  \E q \in Drafts : \E e \in Decisions : Revised(q, e)
  BY <1>3, ReviseIs
<1>4. \/ \E w \in Workers : Tick(w) \/ Crash(w)
      \/ \E q \in Drafts : Verdict(q)
      \/ \E v \in Reviewers : Revise(v)
      \/ \E o \in Replies : MatchReply(o) \/ ReconcileReply(o)
      \/ Silent
  BY SilentSteps DEF Next
<1> QED
  BY <1>1, <1>2, <1>3, <1>4, MatchIs, ReconcileIs

-----------------------------------------------------------------------------
(* Every step preserves each part of the invariant, shape by shape.          *)

\* A draft keeps a recorded decision of its own.
LEMMA LinkStep == IInv /\ [Next]_vars => LinkInv'
<1> SUFFICES ASSUME IInv, [Next]_vars PROVE LinkInv'
  OBVIOUS
<1>0. TypeOK /\ LinkInv /\ JobInv
  BY DEF IInv
<1>a. /\ queue \in [Drafts -> QueueStatus] /\ decisionOf \in [Drafts -> Decisions \cup {0}]
      /\ outcome \in [Decisions -> DecisionOutcome]
  BY <1>0 DEF TypeOK
<1>c. /\ \A q \in Drafts : queue[q] = "none" <=> decisionOf[q] = 0
      /\ \A q \in Drafts : queue[q] # "none" =>
            decisionOf[q] \in Decisions /\ outcome[decisionOf[q]] # "none"
      /\ \A p, q \in Drafts : p # q /\ decisionOf[p] = decisionOf[q] => decisionOf[p] = 0
  BY <1>0, LinkedDraft DEF LinkInv
<1>1. CASE UNCHANGED <<queue, decisionOf, outcome>>
  BY <1>c, <1>1 DEF LinkInv
<1>2. CASE \E w \in Workers : \E i \in Inboxes : \E e \in Decisions : Recorded(w, i, e)
  <2>1. /\ UNCHANGED <<queue, decisionOf>>
        /\ \A e \in Decisions : outcome[e] # "none" => outcome'[e] # "none"
    BY <1>a, <1>2 DEF Recorded
  <2> QED
    BY <1>c, <2>1 DEF LinkInv
<1>3. ASSUME NEW w \in Workers, NEW i \in Inboxes, NEW q \in Drafts, Inserted(w, i, q)
      PROVE  LinkInv'
  <2>1. /\ job[w].decision # 0 /\ outcome[job[w].decision] = "pending"
        /\ \A x \in Drafts : decisionOf[x] # job[w].decision
    BY <1>0, <1>3 DEF Inserted, JobInv
  <2>2. job[w].decision \in Decisions
    BY <1>0, <2>1, JobFields DEF TypeOK
  <2>3. /\ decisionOf'[q] = job[w].decision /\ queue'[q] # "none"
        /\ \A x \in Drafts \ {q} : decisionOf'[x] = decisionOf[x] /\ queue'[x] = queue[x]
        /\ \A e \in Decisions : outcome[e] # "none" => outcome'[e] # "none"
    BY <1>a, <1>3 DEF Inserted
  <2> QED
    <3>1. \A x \in Drafts : queue'[x] = "none" <=> decisionOf'[x] = 0
      BY <1>c, <2>1, <2>2, <2>3
    <3>2. \A x \in Drafts : queue'[x] # "none" => outcome'[decisionOf'[x]] # "none"
      BY <1>c, <2>1, <2>2, <2>3
    <3>3. \A x, y \in Drafts : x # y /\ decisionOf'[x] = decisionOf'[y] => decisionOf'[x] = 0
      BY <1>c, <2>1, <2>2, <2>3
    <3> QED
      BY <3>1, <3>2, <3>3 DEF LinkInv
<1>4. CASE \E q \in Drafts : \E s \in QueueStatus : \E u \in DecisionOutcome :
                Resolved(q, s, u)
  <2>1. PICK q \in Drafts, s \in QueueStatus, u \in DecisionOutcome : Resolved(q, s, u)
    BY <1>4
  <2>2. /\ queue[q] # "none" /\ queue'[q] # "none" /\ decisionOf' = decisionOf
        /\ \A x \in Drafts \ {q} : queue'[x] = queue[x]
        /\ \A e \in Decisions : outcome[e] # "none" => outcome'[e] # "none"
    BY <1>a, <2>1 DEF Resolved
  <2> QED
    BY <1>c, <2>2 DEF LinkInv
<1>5. ASSUME NEW q \in Drafts, NEW e \in Decisions, Revised(q, e)
      PROVE  LinkInv'
  <2>1. queue[q] # "none" /\ outcome[e] = "none" /\ e # 0
    BY <1>5 DEF Revised
  <2>2. \A x \in Drafts : decisionOf[x] # e
    BY <1>c, <2>1
  <2>3. /\ queue' = queue /\ decisionOf'[q] = e
        /\ \A x \in Drafts \ {q} : decisionOf'[x] = decisionOf[x]
        /\ outcome'[e] # "none"
        /\ \A d \in Decisions : outcome[d] # "none" => outcome'[d] # "none"
    BY <1>a, <1>5 DEF Revised
  <2> QED
    <3>1. \A x \in Drafts : queue'[x] = "none" <=> decisionOf'[x] = 0
      BY <1>c, <2>1, <2>2, <2>3
    <3>2. \A x \in Drafts : queue'[x] # "none" => outcome'[decisionOf'[x]] # "none"
      BY <1>c, <2>1, <2>2, <2>3
    <3>3. \A x, y \in Drafts : x # y /\ decisionOf'[x] = decisionOf'[y] => decisionOf'[x] = 0
      BY <1>c, <2>1, <2>2, <2>3
    <3> QED
      BY <3>1, <3>2, <3>3 DEF LinkInv
<1>6. ASSUME NEW o \in Replies, NEW S, Withdrawn(o, S)
      PROVE  LinkInv'
  <2>1. /\ decisionOf' = decisionOf
        /\ \A q \in Drafts : queue'[q] = "none" <=> queue[q] = "none"
        /\ \A e \in Decisions : outcome[e] # "none" => outcome'[e] # "none"
    BY <1>6 DEF Withdrawn
  <2> QED
    BY <1>c, <2>1 DEF LinkInv
<1> QED
  BY <1>1, <1>2, <1>3, <1>4, <1>5, <1>6, Shapes
      DEF Aside, Checked, Silent, Matched, AuditVars

\* What JobInv says of one worker.
JobOf(w) ==
    /\ pc[w] \notin {"check", "insert"} => job[w].decision = 0
    /\ pc[w] \in {"check", "insert"} =>
        /\ job[w].decision # 0 /\ outcome[job[w].decision] = "pending"
        /\ \A q \in Drafts : decisionOf[q] # job[w].decision
        /\ \A i \in Inboxes : Current(w, i) => about[job[w].decision] = i
    /\ pc[w] = "insert" /\ job[w].direct = TRUE =>
        /\ about[job[w].decision] \in Inboxes
        /\ answeredBy[about[job[w].decision]] # NoReply

\* Both invariants, taken apart into what they say of one worker, one draft, one decision.
LEMMA JobParts ==
    /\ JobInv <=> /\ \A w \in Workers : JobOf(w)
                  /\ \A w, x \in Workers :
                        w # x /\ job[w].decision = job[x].decision => job[w].decision = 0
    /\ JobInv' <=> /\ \A w \in Workers : JobOf(w)'
                   /\ \A w, x \in Workers :
                        w # x /\ job'[w].decision = job'[x].decision => job'[w].decision = 0
BY DEF JobInv, JobOf

\* A worker that does not move keeps its decision in hand, unless the decision
\* changes under it.
LEMMA JobStays ==
    ASSUME TypeOK, JobInv, NEW w \in Workers,
           pc'[w] = pc[w], todo'[w] = todo[w], job'[w] = job[w],
           pc[w] \in {"check", "insert"} =>
                /\ outcome'[job[w].decision] = "pending"
                /\ about'[job[w].decision] = about[job[w].decision]
                /\ \A q \in Drafts : decisionOf'[q] # job[w].decision,
           \A i \in Inboxes : answeredBy[i] # NoReply => answeredBy'[i] = answeredBy[i]
    PROVE  JobOf(w)'
<1>1. JobOf(w)
  BY JobParts
<1>2. \A i \in Inboxes : Current(w, i)' <=> Current(w, i)
  BY DEF Current, IsNext
<1>3. pc'[w] \notin {"check", "insert"} => job'[w].decision = 0
  BY <1>1 DEF JobOf
<1>4. pc'[w] \in {"check", "insert"} =>
        /\ job'[w].decision # 0 /\ outcome'[job'[w].decision] = "pending"
        /\ \A q \in Drafts : decisionOf'[q] # job'[w].decision
        /\ \A i \in Inboxes : Current(w, i)' => about'[job'[w].decision] = i
  BY <1>1, <1>2 DEF JobOf
<1>5. ASSUME pc'[w] = "insert", job'[w].direct = TRUE
      PROVE  /\ about'[job'[w].decision] \in Inboxes
             /\ answeredBy'[about'[job'[w].decision]] # NoReply
  <2>1. /\ about[job[w].decision] \in Inboxes
        /\ answeredBy[about[job[w].decision]] # NoReply
        /\ about'[job[w].decision] = about[job[w].decision]
    BY <1>1, <1>5 DEF JobOf
  <2> QED
    BY <2>1, <1>5
<1> QED
  BY <1>3, <1>4, <1>5 DEF JobOf

\* A decision in hand is a recorded one, pending and without a draft.
LEMMA InHand ==
    ASSUME TypeOK, JobInv, NEW w \in Workers, pc[w] \in {"check", "insert"}
    PROVE  /\ job[w].decision \in Decisions /\ job[w].decision # 0
           /\ outcome[job[w].decision] = "pending"
           /\ \A q \in Drafts : decisionOf[q] # job[w].decision
<1>1. job[w].decision # 0 /\ job[w] \in Jobs
  BY DEF JobInv, TypeOK
<1>2. job[w].decision \in Decisions
  BY <1>1, JobFields
<1> QED
  BY <1>1, <1>2 DEF JobInv

\* The row in hand is one.
LEMMA OneCurrent ==
    ASSUME TypeOK, NEW w \in Workers, NEW i \in Inboxes, NEW j \in Inboxes,
           Current(w, i), Current(w, j)
    PROVE  i = j
<1>1. i <= j /\ j <= i
  BY DEF Current, IsNext
<1>2. i \in Nat /\ j \in Nat
  OBVIOUS
<1> QED
  BY <1>1, <1>2

\* A decision in hand stays one worker's, pending and without a draft.
LEMMA JobStep == IInv /\ [Next]_vars => JobInv'
<1> SUFFICES ASSUME IInv, [Next]_vars PROVE JobInv'
  OBVIOUS
<1>0. TypeOK /\ LinkInv /\ JobInv
  BY DEF IInv
<1>a. /\ queue \in [Drafts -> QueueStatus] /\ decisionOf \in [Drafts -> Decisions \cup {0}]
      /\ outcome \in [Decisions -> DecisionOutcome] /\ about \in [Decisions -> Inboxes \cup {0}]
  BY <1>0 DEF TypeOK
<1>b. ASSUME UNCHANGED workers,
             \A w \in Workers : pc[w] \in {"check", "insert"} =>
                /\ outcome'[job[w].decision] = "pending"
                /\ about'[job[w].decision] = about[job[w].decision]
                /\ \A q \in Drafts : decisionOf'[q] # job[w].decision,
             \A i \in Inboxes : answeredBy[i] # NoReply => answeredBy'[i] = answeredBy[i]
      PROVE  JobInv'
  <2>1. \A w \in Workers : JobOf(w)'
    BY <1>0, <1>b, JobStays DEF workers
  <2> QED
    BY <1>0, <1>b, <2>1, JobParts DEF workers
<1>1. CASE UNCHANGED <<AuditVars, workers>>
  BY <1>0, <1>1, <1>b, InHand DEF AuditVars
<1>2. ASSUME NEW w \in Workers, Aside(w)
      PROVE  JobInv'
  <2>1. JobOf(w)'
    BY <1>2 DEF Aside, JobOf
  <2>2. \A x \in Workers \ {w} : JobOf(x)'
    BY <1>0, <1>2, JobStays, InHand DEF Aside, OthersSame, AuditVars
  <2>3. \A x, y \in Workers :
            x # y /\ job'[x].decision = job'[y].decision => job'[x].decision = 0
    BY <1>0, <1>2, JobParts DEF Aside, OthersSame
  <2> QED
    BY <2>1, <2>2, <2>3, JobParts
<1>3. ASSUME NEW w \in Workers, NEW i \in Inboxes, NEW e \in Decisions, Recorded(w, i, e)
      PROVE  JobInv'
  <2>1. \A q \in Drafts : decisionOf[q] # e
    BY <1>0, <1>3, LinkedDraft DEF Recorded, LinkInv
  <2>2. /\ outcome' = [outcome EXCEPT ![e] = "pending"] /\ about' = [about EXCEPT ![e] = i]
        /\ UNCHANGED <<decisionOf, answeredBy>> /\ OthersSame(w) /\ outcome[e] = "none"
        /\ pc'[w] = "check" /\ todo'[w] = todo[w] /\ job'[w].decision = e /\ Current(w, i)
    BY <1>3 DEF Recorded
  <2>3. \A x \in Workers : pc[x] \in {"check", "insert"} => job[x].decision # e
    BY <1>0, <2>2, InHand
  <2>4. ASSUME NEW x \in Workers \ {w} PROVE JobOf(x)'
    <3>1. pc[x] \in {"check", "insert"} =>
            /\ outcome'[job[x].decision] = "pending"
            /\ about'[job[x].decision] = about[job[x].decision]
            /\ \A q \in Drafts : decisionOf'[q] # job[x].decision
      BY <1>0, <1>a, <2>2, <2>3, InHand
    <3> QED
      BY <1>0, <2>2, <3>1, JobStays DEF OthersSame
  <2>5. JobOf(w)'
    <3>1. outcome'[e] = "pending" /\ about'[e] = i /\ e # 0
      BY <1>a, <2>2
    <3>2. \A j \in Inboxes : Current(w, j)' => j = i
      BY <1>0, <2>2, OneCurrent DEF Current
    <3> QED
      BY <2>1, <2>2, <3>1, <3>2 DEF JobOf
  <2>6. \A x \in Workers \ {w} : job'[x].decision # e
    <3> SUFFICES ASSUME NEW x \in Workers \ {w} PROVE job'[x].decision # e
      OBVIOUS
    <3>1. job'[x] = job[x]
      BY <2>2 DEF OthersSame
    <3>2. pc[x] \notin {"check", "insert"} => job[x].decision = 0
      BY <1>0, EmptyHanded
    <3> QED
      BY <2>3, <3>1, <3>2
  <2>7. \A x, y \in Workers :
            x # y /\ job'[x].decision = job'[y].decision => job'[x].decision = 0
    BY <1>0, <2>2, <2>6, JobParts DEF OthersSame
  <2> QED
    BY <2>4, <2>5, <2>7, JobParts
<1>4. ASSUME NEW w \in Workers, NEW i \in Inboxes, Checked(w, i)
      PROVE  JobInv'
  <2>1. /\ UNCHANGED AuditVars /\ OthersSame(w) /\ pc'[w] = "insert" /\ todo'[w] = todo[w]
        /\ job'[w].decision = job[w].decision /\ pc[w] = "check" /\ Current(w, i)
        /\ job'[w].direct = TRUE => answeredBy[i] # NoReply
    BY <1>4 DEF Checked
  <2>2. \A x \in Workers \ {w} : JobOf(x)'
    BY <1>0, <2>1, JobStays, InHand DEF OthersSame, AuditVars
  <2>3. JobOf(w)'
    <3>1. JobOf(w) /\ \A j \in Inboxes : Current(w, j)' <=> Current(w, j)
      BY <1>0, <2>1, JobParts DEF Current
    <3>2. about[job[w].decision] = i
      BY <2>1, <3>1 DEF JobOf
    <3> QED
      BY <2>1, <3>1, <3>2 DEF JobOf, AuditVars
  <2>4. \A x, y \in Workers :
            x # y /\ job'[x].decision = job'[y].decision => job'[x].decision = 0
    BY <1>0, <2>1, JobParts DEF OthersSame
  <2> QED
    BY <2>2, <2>3, <2>4, JobParts
<1>5. ASSUME NEW w \in Workers, NEW i \in Inboxes, NEW q \in Drafts, Inserted(w, i, q)
      PROVE  JobInv'
  <2>1. /\ decisionOf' = [decisionOf EXCEPT ![q] = job[w].decision]
        /\ outcome' \in {outcome, [outcome EXCEPT ![job[w].decision] = "modified"]}
        /\ UNCHANGED <<about, answeredBy>> /\ OthersSame(w)
        /\ pc[w] = "insert" /\ pc'[w] = "present" /\ job'[w].decision = 0
    BY <1>5 DEF Inserted
  <2>2. \A x \in Workers \ {w} :
            pc[x] \in {"check", "insert"} => job[x].decision # job[w].decision
    BY <1>0, <2>1, JobParts, InHand
  <2>3. ASSUME NEW x \in Workers \ {w} PROVE JobOf(x)'
    <3>1. pc[x] \in {"check", "insert"} =>
            /\ outcome'[job[x].decision] = "pending"
            /\ about'[job[x].decision] = about[job[x].decision]
            /\ \A p \in Drafts : decisionOf'[p] # job[x].decision
      BY <1>0, <1>a, <2>1, <2>2, InHand
    <3> QED
      BY <1>0, <2>1, <3>1, JobStays DEF OthersSame
  <2>4. JobOf(w)'
    BY <2>1 DEF JobOf
  <2>5. \A x, y \in Workers :
            x # y /\ job'[x].decision = job'[y].decision => job'[x].decision = 0
    BY <1>0, <2>1, JobParts DEF OthersSame
  <2> QED
    BY <2>3, <2>4, <2>5, JobParts
<1>6. ASSUME NEW q \in Drafts, NEW s \in QueueStatus, NEW u \in DecisionOutcome,
             Resolved(q, s, u)
      PROVE  JobInv'
  <2>1. /\ outcome' = [outcome EXCEPT ![decisionOf[q]] = u]
        /\ UNCHANGED <<decisionOf, about, answeredBy, workers>>
    BY <1>6 DEF Resolved
  <2>2. \A w \in Workers : pc[w] \in {"check", "insert"} =>
            outcome'[job[w].decision] = "pending"
    BY <1>0, <1>a, <2>1, InHand
  <2> QED
    BY <1>0, <1>b, <2>1, <2>2, InHand
<1>7. ASSUME NEW q \in Drafts, NEW e \in Decisions, Revised(q, e)
      PROVE  JobInv'
  <2>1. /\ outcome' = [outcome EXCEPT ![decisionOf[q]] = "revised", ![e] = "pending"]
        /\ about' = [about EXCEPT ![e] = about[decisionOf[q]]]
        /\ decisionOf' = [decisionOf EXCEPT ![q] = e]
        /\ UNCHANGED <<answeredBy, workers>> /\ outcome[e] = "none"
    BY <1>7 DEF Revised
  <2>2. \A w \in Workers : pc[w] \in {"check", "insert"} => job[w].decision # e
    BY <1>0, <2>1, InHand
  <2>3. \A w \in Workers : pc[w] \in {"check", "insert"} =>
            /\ outcome'[job[w].decision] = "pending"
            /\ about'[job[w].decision] = about[job[w].decision]
            /\ \A p \in Drafts : decisionOf'[p] # job[w].decision
    BY <1>0, <1>a, <2>1, <2>2, InHand
  <2> QED
    BY <1>b, <2>1, <2>3
<1>8. ASSUME NEW o \in Replies, Withdrawn(o, StillOpen(o))
      PROVE  JobInv'
  <2>1. /\ \A e \in Decisions : (\A q \in Drafts : decisionOf[q] # e) => outcome'[e] = outcome[e]
        /\ UNCHANGED <<decisionOf, about, workers>>
        /\ \A i \in Inboxes : answeredBy[i] # NoReply => answeredBy'[i] = answeredBy[i]
    BY <1>8 DEF Withdrawn
  <2>2. \A w \in Workers : pc[w] \in {"check", "insert"} =>
            outcome'[job[w].decision] = "pending"
    BY <1>0, <2>1, InHand
  <2> QED
    BY <1>0, <1>b, <2>1, <2>2, InHand
<1> QED
  BY <1>1, <1>2, <1>3, <1>4, <1>5, <1>6, <1>7, <1>8, Shapes DEF Silent, Matched

\* The count of intents is positive while a draft is being made.
LEMMA LeftStep == IInv /\ [Next]_vars => LeftInv'
<1> SUFFICES ASSUME IInv, [Next]_vars PROVE LeftInv'
  OBVIOUS
<1>0. LeftInv
  BY DEF IInv
<1>1. ASSUME NEW w \in Workers, OthersSame(w),
             pc'[w] \in {"record", "check", "insert", "present"} => job'[w].left > 0
      PROVE  LeftInv'
  BY <1>0, <1>1 DEF LeftInv, OthersSame
<1>2. ASSUME NEW w \in Workers, Aside(w) PROVE LeftInv'
  BY <1>1, <1>2 DEF Aside
<1>3. ASSUME NEW w \in Workers, NEW i \in Inboxes,
             \/ \E e \in Decisions : Recorded(w, i, e)
             \/ Checked(w, i)
             \/ \E q \in Drafts : Inserted(w, i, q)
      PROVE  LeftInv'
  <2>1. /\ OthersSame(w) /\ job'[w].left = job[w].left
        /\ pc[w] \in {"record", "check", "insert"}
    BY <1>3 DEF Recorded, Checked, Inserted
  <2> QED
    BY <1>0, <1>1, <2>1 DEF LeftInv
<1>4. CASE UNCHANGED workers
  BY <1>0, <1>4 DEF LeftInv, workers
<1> QED
  BY <1>2, <1>3, <1>4, Shapes DEF Resolved, Revised, Matched, Withdrawn, Silent

\* A selected decision stays one about a message the reply answers.
LEMMA FoundStep == IInv /\ [Next]_vars => FoundInv'
<1> SUFFICES ASSUME IInv, [Next]_vars PROVE FoundInv'
  OBVIOUS
<1>0. TypeOK /\ FoundInv
  BY DEF IInv
<1>a. /\ outcome \in [Decisions -> DecisionOutcome] /\ about \in [Decisions -> Inboxes \cup {0}]
  BY <1>0 DEF TypeOK
<1>b. ASSUME \A o \in Replies : found'[o] \subseteq found[o],
             \A e \in Decisions : outcome[e] # "none" =>
                outcome'[e] # "none" /\ about'[e] = about[e]
      PROVE  FoundInv'
  BY <1>0, <1>b DEF FoundInv
<1>1. ASSUME NEW w \in Workers, Aside(w) PROVE FoundInv'
  BY <1>1, <1>b DEF Aside, AuditVars
<1>2. ASSUME NEW w \in Workers, NEW i \in Inboxes, Checked(w, i) PROVE FoundInv'
  BY <1>2, <1>b DEF Checked, AuditVars
<1>3. ASSUME NEW w \in Workers, NEW i \in Inboxes, NEW e \in Decisions, Recorded(w, i, e)
      PROVE  FoundInv'
  BY <1>3, <1>a, <1>b DEF Recorded
<1>4. ASSUME NEW w \in Workers, NEW i \in Inboxes, NEW q \in Drafts, Inserted(w, i, q)
      PROVE  FoundInv'
  BY <1>4, <1>a, <1>b DEF Inserted
<1>5. ASSUME NEW q \in Drafts, NEW s \in QueueStatus, NEW u \in DecisionOutcome,
             Resolved(q, s, u)
      PROVE  FoundInv'
  BY <1>5, <1>a, <1>b DEF Resolved
<1>6. ASSUME NEW q \in Drafts, NEW e \in Decisions, Revised(q, e) PROVE FoundInv'
  BY <1>6, <1>a, <1>b DEF Revised
<1>7. ASSUME NEW o \in Replies, Matched(o) PROVE FoundInv'
  BY <1>0, <1>7 DEF Matched, FoundInv, AuditVars
<1>8. ASSUME NEW o \in Replies, Withdrawn(o, StillOpen(o)) PROVE FoundInv'
  BY <1>8, <1>b DEF Withdrawn
<1>9. CASE Silent
  BY <1>9, <1>b DEF Silent, AuditVars
<1> QED
  BY <1>1, <1>2, <1>3, <1>4, <1>5, <1>6, <1>7, <1>8, <1>9, Shapes

\* A recorded decision stays about its message.
LEMMA AboutStep == IInv /\ [Next]_vars => AboutInv'
<1> SUFFICES ASSUME IInv, [Next]_vars PROVE AboutInv'
  OBVIOUS
<1>0. TypeOK /\ LinkInv /\ AboutInv /\ JobInv
  BY DEF IInv
<1>a. /\ outcome \in [Decisions -> DecisionOutcome] /\ about \in [Decisions -> Inboxes \cup {0}]
  BY <1>0 DEF TypeOK
<1>b. ASSUME about' = about,
             \A e \in Decisions : outcome[e] = "none" => outcome'[e] = "none"
      PROVE  AboutInv'
  BY <1>0, <1>b DEF AboutInv
<1>1. ASSUME NEW w \in Workers, Aside(w) PROVE AboutInv'
  BY <1>1, <1>b DEF Aside, AuditVars
<1>2. ASSUME NEW w \in Workers, NEW i \in Inboxes, Checked(w, i) PROVE AboutInv'
  BY <1>2, <1>b DEF Checked, AuditVars
<1>3. ASSUME NEW w \in Workers, NEW i \in Inboxes, NEW e \in Decisions, Recorded(w, i, e)
      PROVE  AboutInv'
  BY <1>0, <1>3, <1>a DEF Recorded, AboutInv
<1>4. ASSUME NEW w \in Workers, NEW i \in Inboxes, NEW q \in Drafts, Inserted(w, i, q)
      PROVE  AboutInv'
  <2>1. outcome[job[w].decision] = "pending" /\ about' = about
    BY <1>0, <1>4, InHand DEF Inserted
  <2>2. outcome' \in {outcome, [outcome EXCEPT ![job[w].decision] = "modified"]}
    BY <1>4 DEF Inserted
  <2> QED
    BY <1>a, <1>b, <2>1, <2>2
<1>5. ASSUME NEW q \in Drafts, NEW s \in QueueStatus, NEW u \in DecisionOutcome,
             Resolved(q, s, u)
      PROVE  AboutInv'
  BY <1>5, <1>a, <1>b DEF Resolved
<1>6. ASSUME NEW q \in Drafts, NEW e \in Decisions, Revised(q, e) PROVE AboutInv'
  <2>1. decisionOf[q] \in Decisions /\ outcome[decisionOf[q]] # "none"
    BY <1>0, <1>6, LinkedDraft DEF Revised
  <2> QED
    BY <1>0, <1>a, <1>6, <2>1 DEF Revised, AboutInv
<1>7. ASSUME NEW o \in Replies, Matched(o) PROVE AboutInv'
  BY <1>7, <1>b DEF Matched, AuditVars
<1>8. ASSUME NEW o \in Replies, Withdrawn(o, StillOpen(o)) PROVE AboutInv'
  BY <1>8, <1>b DEF Withdrawn
<1>9. CASE Silent
  BY <1>9, <1>b DEF Silent, AuditVars
<1> QED
  BY <1>1, <1>2, <1>3, <1>4, <1>5, <1>6, <1>7, <1>8, <1>9, Shapes

-----------------------------------------------------------------------------
(* The audit follows the queue.                                              *)

\* What AuditFollowsQueue says of a draft, and of a decision.
AuditOf(q) ==
    /\ queue[q] = "pending" => outcome[decisionOf[q]] = "pending"
    /\ queue[q] = "approved" => outcome[decisionOf[q]] \in {"accepted", "modified"}
    /\ queue[q] = "cancelled" =>
        \/ outcome[decisionOf[q]] = "rejected"
        \/ /\ outcome[decisionOf[q]] = "modified"
           /\ answeredBy[about[decisionOf[q]]] # NoReply
LooseOf(e) ==
    (\A q \in Drafts : decisionOf[q] # e) => outcome[e] \in {"none", "pending", "revised"}

LEMMA AuditParts ==
    /\ AuditFollowsQueue <=> /\ \A q \in Drafts : AuditOf(q)
                             /\ \A e \in Decisions : LooseOf(e)
    /\ AuditFollowsQueue' <=> /\ \A q \in Drafts : AuditOf(q)'
                              /\ \A e \in Decisions : LooseOf(e)'
BY DEF AuditFollowsQueue, AuditOf, LooseOf

\* A draft whose row and decision stay keeps its place in the audit: an answered
\* message stays answered.
LEMMA AuditStays ==
    ASSUME TypeOK, LinkInv, AboutInv, NEW q \in Drafts, AuditOf(q),
           queue'[q] = queue[q], decisionOf'[q] = decisionOf[q],
           queue[q] # "none" => /\ outcome'[decisionOf[q]] = outcome[decisionOf[q]]
                                /\ about'[decisionOf[q]] = about[decisionOf[q]],
           \A i \in Inboxes : answeredBy[i] # NoReply => answeredBy'[i] = answeredBy[i]
    PROVE  AuditOf(q)'
<1>1. CASE queue[q] = "none"
  BY <1>1 DEF AuditOf
<1>2. CASE queue[q] # "none"
  <2>1. about[decisionOf[q]] \in Inboxes
    BY <1>2, LinkedDraft DEF AboutInv
  <2>2. answeredBy[about[decisionOf[q]]] # NoReply =>
            answeredBy'[about[decisionOf[q]]] # NoReply
    BY <2>1
  <2>3. /\ queue'[q] = queue[q] /\ outcome'[decisionOf'[q]] = outcome[decisionOf[q]]
        /\ about'[decisionOf'[q]] = about[decisionOf[q]]
    BY <1>2
  <2>4. queue'[q] = "cancelled" =>
            \/ outcome'[decisionOf'[q]] = "rejected"
            \/ /\ outcome'[decisionOf'[q]] = "modified"
               /\ answeredBy'[about'[decisionOf'[q]]] # NoReply
    BY <2>2, <2>3 DEF AuditOf
  <2> QED
    BY <2>3, <2>4 DEF AuditOf
<1> QED
  BY <1>1, <1>2

\* Every step keeps the audit in step with the queue.
LEMMA AuditStep == IInv /\ [Next]_vars => AuditFollowsQueue'
<1> SUFFICES ASSUME IInv, [Next]_vars PROVE AuditFollowsQueue'
  OBVIOUS
<1>0. /\ TypeOK /\ LinkInv /\ JobInv /\ AboutInv
      /\ \A q \in Drafts : AuditOf(q)
      /\ \A e \in Decisions : LooseOf(e)
  BY AuditParts DEF IInv
<1>a. /\ queue \in [Drafts -> QueueStatus] /\ decisionOf \in [Drafts -> Decisions \cup {0}]
      /\ outcome \in [Decisions -> DecisionOutcome] /\ about \in [Decisions -> Inboxes \cup {0}]
  BY <1>0 DEF TypeOK
<1>1. CASE UNCHANGED AuditVars
  <2>1. (\A q \in Drafts : AuditOf(q)') /\ \A e \in Decisions : LooseOf(e)'
    BY <1>0, <1>1 DEF AuditVars, AuditOf, LooseOf
  <2> QED
    BY <2>1, AuditParts
<1>2. ASSUME NEW w \in Workers, NEW i \in Inboxes, NEW e \in Decisions, Recorded(w, i, e)
      PROVE  AuditFollowsQueue'
  <2>1. /\ outcome' = [outcome EXCEPT ![e] = "pending"] /\ about' = [about EXCEPT ![e] = i]
        /\ UNCHANGED <<queue, decisionOf, answeredBy>> /\ outcome[e] = "none"
    BY <1>2 DEF Recorded
  <2>2. ASSUME NEW q \in Drafts PROVE AuditOf(q)'
    <3>1. queue[q] # "none" => decisionOf[q] # e /\ decisionOf[q] \in Decisions
      BY <1>0, <2>1, LinkedDraft
    <3>2. queue[q] # "none" => /\ outcome'[decisionOf[q]] = outcome[decisionOf[q]]
                               /\ about'[decisionOf[q]] = about[decisionOf[q]]
      BY <1>a, <2>1, <3>1
    <3> QED
      BY <1>0, <2>1, <3>2, AuditStays
  <2>3. \A d \in Decisions : LooseOf(d)'
    BY <1>0, <1>a, <2>1 DEF LooseOf
  <2> QED
    BY <2>2, <2>3, AuditParts
<1>3. ASSUME NEW w \in Workers, NEW i \in Inboxes, NEW q \in Drafts, Inserted(w, i, q)
      PROVE  AuditFollowsQueue'
  <2> DEFINE e == job[w].decision
  <2>1. /\ decisionOf' = [decisionOf EXCEPT ![q] = e] /\ queue[q] = "none"
        /\ \/ /\ job[w].direct = TRUE /\ queue' = [queue EXCEPT ![q] = "cancelled"]
              /\ outcome' = [outcome EXCEPT ![e] = "modified"]
           \/ /\ queue' = [queue EXCEPT ![q] = "pending"] /\ outcome' = outcome
        /\ UNCHANGED <<about, answeredBy>> /\ pc[w] = "insert"
    BY <1>3 DEF Inserted
  <2>2. /\ e \in Decisions /\ outcome[e] = "pending"
        /\ \A p \in Drafts : decisionOf[p] # e
    BY <1>0, <2>1, InHand
  <2>3. ASSUME NEW p \in Drafts \ {q} PROVE AuditOf(p)'
    <3>1. queue'[p] = queue[p] /\ decisionOf'[p] = decisionOf[p]
      BY <1>a, <2>1
    <3>2. queue[p] # "none" => decisionOf[p] # e /\ decisionOf[p] \in Decisions
      BY <1>0, <2>2, LinkedDraft
    <3>3. queue[p] # "none" => /\ outcome'[decisionOf[p]] = outcome[decisionOf[p]]
                               /\ about'[decisionOf[p]] = about[decisionOf[p]]
      BY <1>a, <2>1, <3>2
    <3> QED
      BY <1>0, <2>1, <3>1, <3>3, AuditStays
  <2>4. AuditOf(q)'
    <3>1. decisionOf'[q] = e
      BY <1>a, <2>1
    <3>2. CASE /\ job[w].direct = TRUE /\ queue' = [queue EXCEPT ![q] = "cancelled"]
               /\ outcome' = [outcome EXCEPT ![e] = "modified"]
      <4>1. answeredBy[about[e]] # NoReply
        BY <1>0, <2>1, <3>2 DEF JobInv
      <4>2. answeredBy'[about'[e]] # NoReply
        BY <2>1, <4>1
      <4>3. outcome'[e] = "modified" /\ queue'[q] = "cancelled"
        BY <1>a, <2>2, <3>2
      <4> QED
        BY <3>1, <4>2, <4>3 DEF AuditOf
    <3>3. CASE queue' = [queue EXCEPT ![q] = "pending"] /\ outcome' = outcome
      <4>1. outcome'[e] = "pending" /\ queue'[q] = "pending"
        BY <1>a, <2>2, <3>3
      <4> QED
        BY <3>1, <4>1 DEF AuditOf
    <3> QED
      BY <2>1, <3>2, <3>3
  <2>5. ASSUME NEW d \in Decisions PROVE LooseOf(d)'
    <3>1. decisionOf'[q] = e /\ \A p \in Drafts \ {q} : decisionOf'[p] = decisionOf[p]
      BY <1>a, <2>1
    <3>2. d # e => outcome'[d] = outcome[d]
      BY <2>1, <1>a
    <3>3. decisionOf[q] \in {0}
      BY <1>0, <2>1 DEF LinkInv
    <3>4. 0 \notin Decisions
      OBVIOUS
    <3>5. CASE d = e
      BY <3>1, <3>5 DEF LooseOf
    <3>6. CASE d # e
      <4>1. (\A p \in Drafts : decisionOf'[p] # d) => \A p \in Drafts : decisionOf[p] # d
        BY <3>1, <3>3, <3>4
      <4> QED
        BY <1>0, <3>2, <3>6, <4>1 DEF LooseOf
    <3> QED
      BY <3>5, <3>6
  <2> QED
    BY <2>3, <2>4, <2>5, AuditParts
<1>4. ASSUME NEW q \in Drafts, NEW s \in QueueStatus, NEW u \in DecisionOutcome,
             Resolved(q, s, u)
      PROVE  AuditFollowsQueue'
  <2>1. /\ queue[q] = "pending" /\ outcome[decisionOf[q]] = "pending"
        /\ \/ s = "approved" /\ u \in {"accepted", "modified"}
           \/ s = "cancelled" /\ u = "rejected"
        /\ queue' = [queue EXCEPT ![q] = s]
        /\ outcome' = [outcome EXCEPT ![decisionOf[q]] = u]
        /\ UNCHANGED <<decisionOf, about, answeredBy>>
    BY <1>4 DEF Resolved
  <2>2. decisionOf[q] \in Decisions
    BY <1>0, <2>1, LinkedDraft
  <2>3. AuditOf(q)'
    <3>1. queue'[q] = s /\ outcome'[decisionOf'[q]] = u
      BY <1>a, <2>1, <2>2
    <3> QED
      BY <2>1, <3>1 DEF AuditOf
  <2>4. ASSUME NEW p \in Drafts \ {q} PROVE AuditOf(p)'
    <3>1. queue[p] # "none" => decisionOf[p] # decisionOf[q] /\ decisionOf[p] \in Decisions
      BY <1>0, <2>1, OwnDecision, LinkedDraft
    <3>2. queue'[p] = queue[p]
          /\ (queue[p] # "none" => outcome'[decisionOf[p]] = outcome[decisionOf[p]])
      BY <1>a, <2>1, <3>1
    <3> QED
      BY <1>0, <2>1, <3>2, AuditStays
  <2>5. \A d \in Decisions : LooseOf(d)'
    BY <1>0, <1>a, <2>1 DEF LooseOf
  <2> QED
    BY <2>3, <2>4, <2>5, AuditParts
<1>5. ASSUME NEW q \in Drafts, NEW e \in Decisions, Revised(q, e)
      PROVE  AuditFollowsQueue'
  <2> DEFINE old == decisionOf[q]
  <2>1. /\ queue[q] = "pending" /\ outcome[old] = "pending" /\ outcome[e] = "none"
        /\ outcome' = [outcome EXCEPT ![old] = "revised", ![e] = "pending"]
        /\ about' = [about EXCEPT ![e] = about[old]]
        /\ decisionOf' = [decisionOf EXCEPT ![q] = e]
        /\ UNCHANGED <<queue, answeredBy>>
    BY <1>5 DEF Revised
  <2>2. old \in Decisions /\ old # e
    BY <1>0, <2>1, LinkedDraft
  <2>3. AuditOf(q)'
    <3>1. queue'[q] = "pending" /\ outcome'[e] = "pending" /\ decisionOf'[q] = e
      BY <1>a, <2>1
    <3> QED
      BY <3>1 DEF AuditOf
  <2>4. ASSUME NEW p \in Drafts \ {q} PROVE AuditOf(p)'
    <3>1. queue[p] # "none" =>
            decisionOf[p] # old /\ decisionOf[p] # e /\ decisionOf[p] \in Decisions
      BY <1>0, <2>1, OwnDecision, LinkedDraft
    <3>2. queue[p] # "none" => /\ outcome'[decisionOf[p]] = outcome[decisionOf[p]]
                               /\ about'[decisionOf[p]] = about[decisionOf[p]]
      BY <1>a, <2>1, <3>1
    <3>3. decisionOf'[p] = decisionOf[p]
      BY <1>a, <2>1
    <3> QED
      BY <1>0, <2>1, <3>2, <3>3, AuditStays
  <2>5. ASSUME NEW d \in Decisions PROVE LooseOf(d)'
    <3>1. CASE d \in {old, e}
      <4>1. outcome'[d] \in {"pending", "revised"}
        BY <1>a, <2>1, <2>2, <3>1
      <4> QED
        BY <4>1 DEF LooseOf
    <3>2. CASE d \notin {old, e}
      <4>1. outcome'[d] = outcome[d]
        BY <1>a, <2>1, <3>2
      <4>2. decisionOf'[q] = e /\ \A p \in Drafts \ {q} : decisionOf'[p] = decisionOf[p]
        BY <1>a, <2>1
      <4>3. (\A p \in Drafts : decisionOf'[p] # d) => \A p \in Drafts : decisionOf[p] # d
        BY <3>2, <4>2
      <4> QED
        BY <1>0, <4>1, <4>3 DEF LooseOf
    <3> QED
      BY <3>1, <3>2
  <2> QED
    BY <2>3, <2>4, <2>5, AuditParts
<1>6. ASSUME NEW o \in Replies, Withdrawn(o, StillOpen(o))
      PROVE  AuditFollowsQueue'
  <2> DEFINE S == StillOpen(o)
  <2>1. /\ \A q \in S : /\ q \in Drafts /\ queue[q] = "pending"
                        /\ outcome[decisionOf[q]] = "pending"
                        /\ about[decisionOf[q]] \in Answers[o]
        /\ \A q \in Drafts : queue'[q] = IF q \in S THEN "cancelled" ELSE queue[q]
        /\ \A e \in Decisions :
              outcome'[e] = IF \E q \in S : decisionOf[q] = e THEN "modified" ELSE outcome[e]
        /\ UNCHANGED <<decisionOf, about>>
    BY <1>6 DEF Withdrawn
  <2>2. \A i \in Inboxes : /\ answeredBy[i] # NoReply => answeredBy'[i] = answeredBy[i]
                           /\ i \in Answers[o] => answeredBy'[i] # NoReply
    BY <1>6 DEF Withdrawn
  <2> HIDE DEF S
  <2>3. ASSUME NEW q \in Drafts, q \in S PROVE AuditOf(q)'
    <3>1. decisionOf[q] \in Decisions
      BY <1>0, <2>1, <2>3, LinkedDraft
    <3>2. queue'[q] = "cancelled" /\ outcome'[decisionOf[q]] = "modified"
      BY <2>1, <2>3, <3>1
    <3>3. about[decisionOf[q]] \in Inboxes /\ about[decisionOf[q]] \in Answers[o]
      BY <1>0, <2>1, <2>3, <3>1 DEF AboutInv
    <3>4. answeredBy'[about[decisionOf[q]]] # NoReply
      BY <2>2, <3>3
    <3> QED
      BY <2>1, <3>2, <3>4 DEF AuditOf
  <2>4. ASSUME NEW q \in Drafts, q \notin S PROVE AuditOf(q)'
    <3>1. queue[q] # "none" => decisionOf[q] \in Decisions
      BY <1>0, LinkedDraft
    <3>2. queue[q] # "none" => ~ \E p \in S : decisionOf[p] = decisionOf[q]
      BY <1>0, <2>1, <2>4, OwnDecision
    <3>3. queue'[q] = queue[q]
          /\ (queue[q] # "none" => outcome'[decisionOf[q]] = outcome[decisionOf[q]])
      BY <2>1, <2>4, <3>1, <3>2
    <3> QED
      BY <1>0, <2>1, <2>2, <3>3, AuditStays
  <2>5. ASSUME NEW d \in Decisions PROVE LooseOf(d)'
    <3>1. (\A p \in Drafts : decisionOf[p] # d) => outcome'[d] = outcome[d]
      BY <2>1
    <3> QED
      BY <1>0, <2>1, <3>1 DEF LooseOf
  <2> QED
    BY <2>3, <2>4, <2>5, AuditParts
<1> QED
  BY <1>1, <1>2, <1>3, <1>4, <1>5, <1>6, Shapes DEF Aside, Checked, Silent, Matched

-----------------------------------------------------------------------------
(* The theorems.                                                             *)

\* The inductive invariant holds in every reachable state.
THEOREM ReviewInductive == Spec => []IInv
<1>1. IInv /\ [Next]_vars => IInv'
  BY TypeStep, LinkStep, JobStep, LeftStep, FoundStep, AboutStep, AuditStep DEF IInv
<1> QED
  BY InitIInv, <1>1, PTL DEF Spec

\* Every variable stays in its type: no attempt beyond the cap, no draft linked to
\* what is not a decision.
THEOREM ReviewTypes == Spec => []TypeOK
<1>1. IInv => TypeOK
  BY DEF IInv
<1> QED
  BY ReviewInductive, <1>1, PTL

\* The audit of the decisions follows the queue of the drafts, for any number of
\* replicas, reviewers, messages and replies, over the race of a direct reply.
THEOREM AuditIsTrue == Spec => []AuditFollowsQueue
<1>1. IInv => AuditFollowsQueue
  BY DEF IInv
<1> QED
  BY ReviewInductive, <1>1, PTL

\* A draft the founder decided on is as he left it after every step.
LEMMA FinalStep ==
    ASSUME IInv, [Next]_vars, NEW q \in Drafts, queue[q] \in {"approved", "cancelled"}
    PROVE  /\ queue'[q] = queue[q] /\ decisionOf'[q] = decisionOf[q]
           /\ outcome'[decisionOf[q]] = outcome[decisionOf[q]]
<1> DEFINE Same == /\ queue'[q] = queue[q] /\ decisionOf'[q] = decisionOf[q]
                   /\ outcome'[decisionOf[q]] = outcome[decisionOf[q]]
<1>0. /\ TypeOK /\ LinkInv /\ JobInv
      /\ decisionOf[q] \in Decisions /\ outcome[decisionOf[q]] \notin {"none", "pending"}
  <2>1. TypeOK /\ LinkInv /\ JobInv /\ AuditFollowsQueue
    BY DEF IInv
  <2> QED
    BY <2>1, LinkedDraft DEF AuditFollowsQueue
<1>a. /\ queue \in [Drafts -> QueueStatus] /\ decisionOf \in [Drafts -> Decisions \cup {0}]
      /\ outcome \in [Decisions -> DecisionOutcome]
  BY <1>0 DEF TypeOK
<1>1. CASE UNCHANGED <<queue, decisionOf, outcome>>
  BY <1>1
<1>2. ASSUME NEW w \in Workers, NEW i \in Inboxes, NEW e \in Decisions, Recorded(w, i, e)
      PROVE  Same
  BY <1>0, <1>a, <1>2 DEF Recorded
<1>3. ASSUME NEW w \in Workers, NEW i \in Inboxes, NEW p \in Drafts, Inserted(w, i, p)
      PROVE  Same
  <2>1. outcome[job[w].decision] = "pending" /\ queue[p] = "none"
    BY <1>0, <1>3, InHand DEF Inserted
  <2>2. p # q /\ decisionOf[q] # job[w].decision
    BY <1>0, <2>1
  <2>3. /\ \E s \in QueueStatus : queue' = [queue EXCEPT ![p] = s]
        /\ outcome' \in {outcome, [outcome EXCEPT ![job[w].decision] = "modified"]}
        /\ decisionOf' = [decisionOf EXCEPT ![p] = job[w].decision]
    BY <1>3 DEF Inserted, QueueStatus
  <2>4. queue'[q] = queue[q] /\ decisionOf'[q] = decisionOf[q]
    BY <1>a, <2>2, <2>3
  <2>5. outcome'[decisionOf[q]] = outcome[decisionOf[q]]
    BY <1>0, <1>a, <2>1, <2>2, <2>3
  <2> QED
    BY <2>4, <2>5
<1>4. ASSUME NEW p \in Drafts, NEW s \in QueueStatus, NEW u \in DecisionOutcome,
             Resolved(p, s, u)
      PROVE  Same
  BY <1>0, <1>a, <1>4 DEF Resolved
<1>5. ASSUME NEW p \in Drafts, NEW e \in Decisions, Revised(p, e) PROVE Same
  BY <1>0, <1>a, <1>5 DEF Revised
<1>6. ASSUME NEW o \in Replies, Withdrawn(o, StillOpen(o)) PROVE Same
  <2>1. q \notin StillOpen(o) /\ ~ \E p \in StillOpen(o) : decisionOf[p] = decisionOf[q]
    BY <1>0, <1>6 DEF Withdrawn
  <2> QED
    BY <1>0, <1>6, <2>1 DEF Withdrawn
<1> QED
  BY <1>1, <1>2, <1>3, <1>4, <1>5, <1>6, Shapes
      DEF Aside, Checked, Silent, Matched, AuditVars

\* No late revise, replayed tap, reclaimed message or reconciliation reopens or
\* overturns a draft that was approved or cancelled.
THEOREM VerdictStands == Spec => VerdictIsFinal
<1>1. IInv /\ [Next]_vars =>
        [\A q \in Drafts : queue[q] \in {"approved", "cancelled"} =>
            /\ queue'[q] = queue[q] /\ decisionOf'[q] = decisionOf[q]
            /\ outcome'[decisionOf[q]] = outcome[decisionOf[q]]]_vars
  BY FinalStep
<1> QED
  BY ReviewInductive, <1>1, PTL DEF Spec, VerdictIsFinal

-----------------------------------------------------------------------------
(* One replica keeps one open draft per message.                             *)

\* The draft on the way of the one worker is for a message that has none open.
OneInv ==
    \A w \in Workers : Workers = {w} =>
        /\ \A i \in Inboxes : \A p, q \in OpenDrafts(i) : p = q
        /\ pc[w] \in {"record", "check", "insert"} =>
            \A i \in Inboxes : Current(w, i) => OpenDrafts(i) = {}

\* No step but an insert opens a draft.
LEMMA OpenOnly ==
    ASSUME IInv, [Next]_vars, NEW i \in Inboxes, NEW q \in OpenDrafts(i)',
           q \notin OpenDrafts(i)
    PROVE  \E w \in Workers : \E j \in Inboxes :
                Inserted(w, j, q) /\ about[job[w].decision] = i
<1>0. /\ TypeOK /\ LinkInv /\ JobInv /\ AuditFollowsQueue
      /\ q \in Drafts /\ queue'[q] = "pending" /\ about'[decisionOf'[q]] = i
  BY DEF IInv, OpenDrafts, DraftsAbout
<1>a. /\ queue \in [Drafts -> QueueStatus] /\ decisionOf \in [Drafts -> Decisions \cup {0}]
      /\ outcome \in [Decisions -> DecisionOutcome] /\ about \in [Decisions -> Inboxes \cup {0}]
  BY <1>0 DEF TypeOK
<1>b. queue[q] = "pending" /\ about[decisionOf[q]] = i => FALSE
  BY <1>0 DEF OpenDrafts, DraftsAbout
<1>1. CASE UNCHANGED <<queue, decisionOf, about>>
  BY <1>0, <1>1, <1>b
<1>2. ASSUME NEW w \in Workers, NEW j \in Inboxes, NEW e \in Decisions, Recorded(w, j, e)
      PROVE  FALSE
  <2>1. /\ queue' = queue /\ decisionOf' = decisionOf /\ outcome[e] = "none"
        /\ about' = [about EXCEPT ![e] = j]
    BY <1>2 DEF Recorded
  <2>2. decisionOf[q] \in Decisions /\ decisionOf[q] # e
    BY <1>0, <2>1, LinkedDraft
  <2> QED
    BY <1>0, <1>a, <1>b, <2>1, <2>2
<1>3. ASSUME NEW w \in Workers, NEW j \in Inboxes, NEW p \in Drafts, Inserted(w, j, p)
      PROVE  p = q /\ about[job[w].decision] = i
  <2>1. /\ \E s \in QueueStatus : queue' = [queue EXCEPT ![p] = s]
        /\ decisionOf' = [decisionOf EXCEPT ![p] = job[w].decision] /\ about' = about
    BY <1>3 DEF Inserted, QueueStatus
  <2>2. p # q => queue'[q] = queue[q] /\ decisionOf'[q] = decisionOf[q]
    BY <1>a, <2>1
  <2>3. p = q
    BY <1>0, <1>b, <2>1, <2>2
  <2> QED
    BY <1>0, <1>a, <2>1, <2>3
<1>4. ASSUME NEW p \in Drafts, NEW s \in QueueStatus, NEW u \in DecisionOutcome,
             Resolved(p, s, u)
      PROVE  FALSE
  <2>1. /\ queue' = [queue EXCEPT ![p] = s] /\ s # "pending"
        /\ UNCHANGED <<decisionOf, about>>
    BY <1>4 DEF Resolved
  <2> QED
    BY <1>0, <1>a, <1>b, <2>1
<1>5. ASSUME NEW p \in Drafts, NEW e \in Decisions, Revised(p, e) PROVE FALSE
  <2>1. /\ queue' = queue /\ outcome[e] = "none" /\ queue[p] = "pending"
        /\ about' = [about EXCEPT ![e] = about[decisionOf[p]]]
        /\ decisionOf' = [decisionOf EXCEPT ![p] = e]
    BY <1>5 DEF Revised
  <2>2. decisionOf[q] \in Decisions /\ decisionOf[q] # e
    BY <1>0, <2>1, LinkedDraft
  <2>3. CASE p = q
    BY <1>0, <1>a, <1>b, <2>1, <2>3
  <2>4. CASE p # q
    BY <1>0, <1>a, <1>b, <2>1, <2>2, <2>4
  <2> QED
    BY <2>3, <2>4
<1>6. ASSUME NEW o \in Replies, Withdrawn(o, StillOpen(o)) PROVE FALSE
  <2>1. queue[q] = "pending" /\ UNCHANGED <<decisionOf, about>>
    BY <1>0, <1>6 DEF Withdrawn
  <2> QED
    BY <1>0, <1>b, <2>1
<1> QED
  BY <1>1, <1>2, <1>3, <1>4, <1>5, <1>6, Shapes
      DEF Aside, Checked, Silent, Matched, AuditVars

\* No step opens a second draft about the message.
LEMMA OneStep == IInv /\ OneInv /\ [Next]_vars => OneInv'
<1> SUFFICES ASSUME IInv, OneInv, [Next]_vars, NEW w \in Workers, Workers = {w}
             PROVE  /\ \A i \in Inboxes : \A p, q \in OpenDrafts(i)' : p = q
                    /\ pc'[w] \in {"record", "check", "insert"} =>
                        \A i \in Inboxes : Current(w, i)' => OpenDrafts(i)' = {}
  BY DEF OneInv
<1>0. TypeOK /\ JobInv
  BY DEF IInv
<1>a. /\ \A i \in Inboxes : \A p, q \in OpenDrafts(i) : p = q
      /\ pc[w] \in {"record", "check", "insert"} =>
            \A i \in Inboxes : Current(w, i) => OpenDrafts(i) = {}
  BY DEF OneInv
<1>1. CASE \E i \in Inboxes : \E q \in Drafts : Inserted(w, i, q)
  <2>1. PICK j \in Inboxes, d \in Drafts : Inserted(w, j, d)
    BY <1>1
  <2>2. /\ pc[w] = "insert" /\ Current(w, j) /\ pc'[w] = "present"
        /\ \A i \in Inboxes, q \in Drafts : Inserted(w, i, q) => i = j /\ q = d
    <3>1. pc[w] = "insert" /\ Current(w, j) /\ pc'[w] = "present"
      BY <2>1 DEF Inserted
    <3>2. ASSUME NEW i \in Inboxes, NEW q \in Drafts, Inserted(w, i, q)
          PROVE  i = j /\ q = d
      <4>1. i = j
        BY <1>0, <2>1, <3>2, OneCurrent DEF Inserted
      <4>2. queue[d] = "none" /\ queue'[d] # "none" /\ DOMAIN queue = Drafts
        BY <1>0, <2>1 DEF Inserted, TypeOK
      <4>3. \E s \in QueueStatus : queue' = [queue EXCEPT ![q] = s]
        BY <3>2 DEF Inserted, QueueStatus
      <4>4. q = d
        BY <4>2, <4>3
      <4> QED
        BY <4>1, <4>4
    <3> QED
      BY <3>1, <3>2
  <2>3. about[job[w].decision] = j
    BY <1>0, <2>2 DEF JobInv
  <2>4. OpenDrafts(j) = {}
    BY <1>a, <2>2
  <2>5. ASSUME NEW i \in Inboxes, NEW q \in OpenDrafts(i)' PROVE q \in OpenDrafts(i) \/ (q = d /\ i = j)
    <3>1. q \in Drafts
      BY DEF OpenDrafts, DraftsAbout
    <3>2. q \notin OpenDrafts(i) =>
            \E k \in Inboxes : Inserted(w, k, q) /\ about[job[w].decision] = i
      <4> SUFFICES ASSUME q \notin OpenDrafts(i)
                   PROVE  \E k \in Inboxes : Inserted(w, k, q) /\ about[job[w].decision] = i
        OBVIOUS
      <4>1. PICK x \in Workers, k \in Inboxes :
                Inserted(x, k, q) /\ about[job[x].decision] = i
        BY OpenOnly
      <4>2. x = w
        OBVIOUS
      <4> QED
        BY <4>1, <4>2
    <3> QED
      BY <2>2, <2>3, <3>1, <3>2
  <2>6. \A i \in Inboxes : \A p, q \in OpenDrafts(i)' : p = q
    BY <1>a, <2>4, <2>5
  <2> QED
    BY <2>2, <2>6
<1>2. CASE ~ \E i \in Inboxes : \E q \in Drafts : Inserted(w, i, q)
  <2>1. \A i \in Inboxes : OpenDrafts(i)' \subseteq OpenDrafts(i)
    <3> SUFFICES ASSUME NEW i \in Inboxes, NEW q \in OpenDrafts(i)' PROVE q \in OpenDrafts(i)
      OBVIOUS
    <3>1. q \in Drafts
      BY DEF OpenDrafts, DraftsAbout
    <3> QED
      BY <1>2, <3>1, OpenOnly
  <2>2. ASSUME pc'[w] \in {"record", "check", "insert"}, NEW i \in Inboxes, Current(w, i)'
        PROVE  OpenDrafts(i) = {}
    <3>1. CASE Aside(w)
      <4>1. todo'[w] = todo[w] /\ \E j \in Inboxes : Current(w, j) /\ OpenDrafts(j) = {}
        BY <2>2, <3>1 DEF Aside
      <4> QED
        BY <1>0, <2>2, <4>1, OneCurrent DEF Current
    <3>2. CASE \E j \in Inboxes : Checked(w, j) \/ \E e \in Decisions : Recorded(w, j, e)
      <4>1. pc[w] \in {"record", "check"} /\ todo'[w] = todo[w]
        BY <3>2 DEF Checked, Recorded
      <4> QED
        BY <1>a, <2>2, <4>1 DEF Current
    <3>3. CASE UNCHANGED workers
      BY <1>a, <2>2, <3>3 DEF Current, workers
    <3> QED
      BY <1>2, <3>1, <3>2, <3>3, Shapes DEF Resolved, Revised, Matched, Withdrawn, Silent
  <2> QED
    BY <1>a, <2>1, <2>2
<1> QED
  BY <1>1, <1>2

\* With one replica a message never has two open drafts, over throws, crashes,
\* reclaims, several intents and requeues.
THEOREM OneDraftIsOpen == Spec => []OneOpenDraft
<1>1. Init => OneInv
  BY DEF Init, OneInv, OpenDrafts, DraftsAbout
<1>2. IInv /\ OneInv => OneOpenDraft
  <2> SUFFICES ASSUME OneInv, Cardinality(Workers) = 1, NEW i \in Inboxes
               PROVE  Cardinality(OpenDrafts(i)) <= 1
    BY DEF OneOpenDraft
  <2>1. PICK w : Workers = {w}
    BY FS_Singleton
  <2>2. \A p, q \in OpenDrafts(i) : p = q
    BY <2>1 DEF OneInv
  <2>3. CASE OpenDrafts(i) = {}
    BY <2>3, FS_EmptySet
  <2>4. CASE OpenDrafts(i) # {}
    <3>1. PICK q : q \in OpenDrafts(i)
      BY <2>4
    <3>2. OpenDrafts(i) = {q}
      BY <2>2, <3>1
    <3> QED
      BY <3>2, FS_Singleton
  <2> QED
    BY <2>3, <2>4
<1> QED
  BY <1>1, <1>2, OneStep, ReviewInductive, PTL DEF Spec

=============================================================================
