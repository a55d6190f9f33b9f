------------------------------- MODULE Triage -------------------------------
(***************************************************************************)
(* What triage does to the customer's project with one inbound message:    *)
(* triage/triage.service.ts run by the inbox worker of                     *)
(* adapters/triage/inbox-processor.factory.ts, with the task button of     *)
(* triage/decision-handler.ts.  The extractor reads several intents out of *)
(* one message and each is filed on its own: as a comment when the portal  *)
(* already has a task of the message's thread, or a task about the same    *)
(* thing, and else as a new task.  The portal lets one task own a thread   *)
(* for ever, a closed one included, and refuses a second.                  *)
(*                                                                         *)
(* What is modelled is the order of the writes (portal, bridge, decision,  *)
(* notice, inbox row) and what a retry makes of the writes of an attempt   *)
(* that stopped between two of them.  Replies are the subject of           *)
(* DraftReview and meetings of Meeting; here they are one step.            *)
(***************************************************************************)
EXTENDS Naturals, Sequences, FiniteSets

CONSTANTS
    Inbound,          \* inbound rows of agent_inbox
    Threads,        \* the source triples they come from
    ThreadOf,       \* the thread of each row
    IntentsOf,      \* what the extractor reads out of each row, in order
    FateOf,         \* "known" | "quiet" | "mention": how the row is routed
    Hands,          \* replicas that run the inbox worker
    MaxTries,       \* MAX_ATTEMPTS of inbox-repo.ts
    MaxSlips        \* bound: calls that throw and processes that die

ASSUME TriageAssumption ==
    /\ "none" \notin Inbound
    /\ ThreadOf \in [Inbound -> Threads]
    /\ \A m \in Inbound : IntentsOf[m] \in Seq({"work", "question", "unclear", "context"})
    /\ FateOf \in [Inbound -> {"known", "quiet", "mention"}]
    /\ MaxTries \in Nat \ {0} /\ MaxSlips \in Nat

VARIABLES
    mailbox,    \* agent_inbox: [status, tries] per row
    portal,     \* the project's task of each thread, or NoTask
    bridges,    \* agent_tasks, in the order of its ids
    verdicts,   \* triage rows of agent_decisions: <<row, intent>>
    answered,   \* rows an open reply draft was made for
    told,       \* what the founder was told: <<row, thread of the task>>
    pictured,   \* rows whose pictures were put on a task
    hand,       \* what each replica is doing, or Unbusy
    slips       \* calls that threw and deaths, per row

triageVars == <<mailbox, portal, bridges, verdicts, answered, told, pictured, hand, slips>>

NoTask == [by |-> <<>>, closed |-> FALSE, comments |-> {}]
Earlier == [NoTask EXCEPT !.by = <<"portal", 0, 0>>]
Unbusy == [mail |-> "none", at |-> "idle", intent |-> 0, made |-> {}, target |-> "none"]

\* A row whose processing broke off keeps the status 'processing' until a later
\* claim; ten minutes are far more than one tick takes.
Unheld(m) == \A h \in Hands : hand[h].mail # m

\* The rows of agent_tasks that a message has; findTaskByInbox takes the one of least id.
BridgesOf(m) == {k \in DOMAIN bridges : bridges[k].mail = m}
FirstBridge(m) == bridges[CHOOSE k \in BridgesOf(m) : \A l \in BridgesOf(m) : k <= l]

(***************************************************************************)
(* The worker: claim, route, extract.                                      *)
(***************************************************************************)
ClaimMail(h, m) ==
    /\ hand[h] = Unbusy /\ Unheld(m)
    /\ mailbox[m].status \in {"pending", "processing"} /\ mailbox[m].tries < MaxTries
    /\ mailbox' = [mailbox EXCEPT ![m] = [status |-> "processing", tries |-> @.tries + 1]]
    /\ hand' = [hand EXCEPT ![h] = [Unbusy EXCEPT !.mail = m, !.at = "resume"]]
    /\ UNCHANGED <<portal, bridges, verdicts, answered, told, pictured, slips>>

FailStuckMail(m) ==
    /\ Unheld(m) /\ mailbox[m].status = "processing" /\ mailbox[m].tries >= MaxTries
    /\ mailbox' = [mailbox EXCEPT ![m].status = "failed"]
    /\ UNCHANGED <<portal, bridges, verdicts, answered, told, pictured, hand, slips>>

\* Mutant of ResumeAt: the bridge of an earlier attempt is not looked at.
ResumeAfresh(m) == IF BridgesOf(m) = {} /\ m \in answered THEN "close" ELSE "route"

\* What an earlier attempt left decides where this one starts.
ResumeAt(m) == IF BridgesOf(m) # {} THEN "retell"
               ELSE IF m \in answered THEN "close" ELSE "route"

Reconfirm(h) ==
    /\ hand[h].at = "resume"
    /\ hand' = [hand EXCEPT ![h].at = ResumeAt(hand[h].mail)]
    /\ UNCHANGED <<mailbox, portal, bridges, verdicts, answered, told, pictured, slips>>

\* The earlier attempt may have died before its notice: the first task of the
\* row is announced again.
Retell(h) ==
    /\ hand[h].at = "retell"
    /\ told' = told \cup {<<hand[h].mail, FirstBridge(hand[h].mail).thread>>}
    /\ hand' = [hand EXCEPT ![h].at = "close"]
    /\ UNCHANGED <<mailbox, portal, bridges, verdicts, answered, pictured, slips>>

\* Unknown senders, muted groups, customers without a project and messages from
\* before the cutoff are skipped; so is a mention whose group has no summary or
\* no customer.
Skip(h) ==
    /\ hand[h].at = "route" /\ FateOf[hand[h].mail] # "known"
    /\ mailbox' = [mailbox EXCEPT ![hand[h].mail].status = "skipped"]
    /\ hand' = [hand EXCEPT ![h] = Unbusy]
    /\ UNCHANGED <<portal, bridges, verdicts, answered, told, pictured, slips>>

RunMoneyLoop(h) ==
    LET m == hand[h].mail IN
    /\ hand[h].at = "route" /\ FateOf[m] # "quiet"
    /\ hand' = [hand EXCEPT ![h].at = IF IntentsOf[m] = <<>> THEN "close" ELSE "gate",
                            ![h].intent = 1]
    /\ verdicts' = IF IntentsOf[m] = <<>> THEN verdicts \cup {<<m, 0>>} ELSE verdicts
    /\ UNCHANGED <<mailbox, portal, bridges, answered, told, pictured, slips>>

(***************************************************************************)
(* act: one intent.                                                        *)
(***************************************************************************)
Kind(h) == IntentsOf[hand[h].mail][hand[h].intent]
Onward(w) == IF w.intent < Len(IntentsOf[w.mail])
               THEN [w EXCEPT !.at = "gate", !.intent = @ + 1, !.target = "none"]
               ELSE [w EXCEPT !.at = "close", !.target = "none"]

\* Context is recorded and nothing more; an unclear ask is recorded as pending
\* before the founder is told of it.
GateTalk(h) ==
    /\ hand[h].at = "gate" /\ Kind(h) \in {"context", "unclear"}
    /\ verdicts' = verdicts \cup {<<hand[h].mail, hand[h].intent>>}
    /\ hand' = [hand EXCEPT ![h] = IF Kind(h) = "context" THEN Onward(@)
                                   ELSE [@ EXCEPT !.at = "announce"]]
    /\ UNCHANGED <<mailbox, portal, bridges, answered, told, pictured, slips>>

\* An answerable question becomes a reply draft, with a decision of its own.
GateQuestion(h) ==
    /\ hand[h].at = "gate" /\ Kind(h) = "question"
    /\ answered' = answered \cup {hand[h].mail}
    /\ verdicts' = verdicts \cup {<<hand[h].mail, hand[h].intent>>}
    /\ hand' = [hand EXCEPT ![h] = Onward(@)]
    /\ UNCHANGED <<mailbox, portal, bridges, told, pictured, slips>>

\* The task that owns the thread, whatever its status.
FindTasksBySource(t) == {u \in {t} : portal[u] # NoTask}

\* Tasks that may be about the same thing, by the fingerprint of a message on
\* another channel or by title; which of them it finds, if any, is the model's.
Alike(w) == {u \in Threads : portal[u] # NoTask} \ w.made

\* decideDedup: the thread's own task, unless this very attempt made it; else
\* one about the same thing; else a new one.
Search(h) ==
    LET w == hand[h]  t == ThreadOf[w.mail]
        owners == FindTasksBySource(t) \ w.made
    IN
    /\ w.at = "gate" /\ Kind(h) = "work"
    /\ \/ /\ owners # {}
          /\ hand' = [hand EXCEPT ![h].at = "comment", ![h].target = t]
       \/ /\ owners = {}
          /\ \E u \in Alike(w) : hand' = [hand EXCEPT ![h].at = "comment", ![h].target = u]
       \/ /\ owners = {}
          /\ hand' = [hand EXCEPT ![h].at = "create", ![h].target = t]
    /\ UNCHANGED <<mailbox, portal, bridges, verdicts, answered, told, pictured, slips>>

MarkRow(h) == <<hand[h].mail, hand[h].intent, mailbox[hand[h].mail].tries>>

AddComment(h) ==
    /\ hand[h].at = "comment"
    /\ portal' = [portal EXCEPT ![hand[h].target].comments = @ \cup {MarkRow(h)}]
    /\ hand' = [hand EXCEPT ![h].at = "bridge"]
    /\ UNCHANGED <<mailbox, bridges, verdicts, answered, told, pictured, slips>>

CreateTask(h) ==
    /\ hand[h].at = "create" /\ portal[hand[h].target] = NoTask
    /\ portal' = [portal EXCEPT ![hand[h].target] = [NoTask EXCEPT !.by = MarkRow(h)]]
    /\ hand' = [hand EXCEPT ![h].at = "bridge", ![h].made = @ \cup {hand[h].target}]
    /\ UNCHANGED <<mailbox, bridges, verdicts, answered, told, pictured, slips>>

\* The portal answers 400: another message of the thread was faster, or an
\* earlier intent of this one.  process throws and the row waits to be claimed.
CreateRefused(h) ==
    /\ hand[h].at = "create" /\ portal[hand[h].target] # NoTask
    /\ hand' = [hand EXCEPT ![h] = Unbusy]
    /\ UNCHANGED <<mailbox, portal, bridges, verdicts, answered, told, pictured, slips>>

RecordBridge(h) ==
    /\ hand[h].at = "bridge"
    /\ bridges' = Append(bridges, [mail |-> hand[h].mail, thread |-> hand[h].target,
                                   try |-> mailbox[hand[h].mail].tries])
    /\ hand' = [hand EXCEPT ![h].at = "record"]
    /\ UNCHANGED <<mailbox, portal, verdicts, answered, told, pictured, slips>>

RecordDecision(h) ==
    /\ hand[h].at = "record"
    /\ verdicts' = verdicts \cup {<<hand[h].mail, hand[h].intent>>}
    /\ hand' = [hand EXCEPT ![h].at = "announce"]
    /\ UNCHANGED <<mailbox, portal, bridges, answered, told, pictured, slips>>

Announce(h) ==
    /\ hand[h].at = "announce"
    /\ told' = told \cup {<<hand[h].mail, hand[h].target>>}
    /\ hand' = [hand EXCEPT ![h] = Onward(@)]
    /\ UNCHANGED <<mailbox, portal, bridges, verdicts, answered, pictured, slips>>

Close(h) ==
    LET m == hand[h].mail IN
    /\ hand[h].at = "close"
    /\ mailbox' = [mailbox EXCEPT ![m].status = "processed"]
    /\ hand' = [hand EXCEPT ![h] = IF FateOf[m] = "mention" /\ @.intent > 0
                                     THEN [Unbusy EXCEPT !.mail = m, !.at = "attach"]
                                     ELSE Unbusy]
    /\ UNCHANGED <<portal, bridges, verdicts, answered, told, pictured, slips>>

\* attachGroupImages: after the row is closed, and only as far as it goes.
AttachPictures(h) ==
    LET m == hand[h].mail IN
    /\ hand[h].at = "attach"
    /\ pictured' = IF BridgesOf(m) = {} THEN pictured ELSE pictured \cup {m}
    /\ hand' = [hand EXCEPT ![h] = Unbusy]
    /\ UNCHANGED <<mailbox, portal, bridges, verdicts, answered, told, slips>>

\* A call throws, its answer is lost, or the process dies: the row stays as it
\* is and the next claim starts from the top.
Slip(h) ==
    /\ hand[h] # Unbusy /\ slips[hand[h].mail] < MaxSlips
    /\ slips' = [slips EXCEPT ![hand[h].mail] = @ + 1]
    /\ hand' = [hand EXCEPT ![h] = Unbusy]
    /\ UNCHANGED <<mailbox, portal, bridges, verdicts, answered, told, pictured>>

\* The button of the card cancels the task; a cancelled task keeps its thread.
CancelTask(t) ==
    /\ portal[t] # NoTask /\ ~portal[t].closed
    /\ \E m \in Inbound : <<m, t>> \in told
    /\ portal' = [portal EXCEPT ![t].closed = TRUE]
    /\ UNCHANGED <<mailbox, bridges, verdicts, answered, told, pictured, hand, slips>>

\* A thread that no row comes from stands for a task the project had before.
TriageInit ==
    /\ mailbox = [m \in Inbound |-> [status |-> "pending", tries |-> 0]]
    /\ portal = [t \in Threads |-> IF \E m \in Inbound : ThreadOf[m] = t THEN NoTask ELSE Earlier]
    /\ bridges = <<>> /\ verdicts = {} /\ answered = {} /\ told = {} /\ pictured = {}
    /\ hand = [h \in Hands |-> Unbusy]
    /\ slips = [m \in Inbound |-> 0]

TriageNext ==
    \/ \E h \in Hands, m \in Inbound : ClaimMail(h, m)
    \/ \E m \in Inbound : FailStuckMail(m)
    \/ \E h \in Hands :
         \/ Reconfirm(h) \/ Retell(h) \/ Skip(h) \/ RunMoneyLoop(h)
         \/ GateTalk(h) \/ GateQuestion(h) \/ Search(h)
         \/ AddComment(h) \/ CreateTask(h) \/ CreateRefused(h)
         \/ RecordBridge(h) \/ RecordDecision(h) \/ Announce(h)
         \/ Close(h) \/ AttachPictures(h) \/ Slip(h)
    \/ \E t \in Threads : CancelTask(t)

TriageSpec == TriageInit /\ [][TriageNext]_triageVars

(***************************************************************************)
(* Properties.                                                             *)
(***************************************************************************)

\* The values the tables and the workers' memory may hold.
TriageTypeOK ==
    /\ mailbox \in [Inbound -> [status : {"pending", "processing", "processed", "skipped", "failed"},
                              tries : 0..MaxTries]]
    /\ DOMAIN portal = Threads /\ answered \subseteq Inbound /\ pictured \subseteq Inbound
    /\ \A k \in DOMAIN bridges : bridges[k].mail \in Inbound /\ bridges[k].thread \in Threads
    /\ \A h \in Hands : hand[h].mail \in Inbound \cup {"none"}
    /\ slips \in [Inbound -> 0..MaxSlips]

\* Once an attempt has bridged its message to a task, no later attempt writes
\* to the project for that message: neither a second task nor a comment on its
\* own first one (tryR49Reconfirm before everything else).
RetryLeavesPortalAlone ==
    \A k \in DOMAIN bridges, t \in Threads :
        \A mark \in portal[t].comments \cup ({portal[t].by} \ {<<>>}) :
            mark[1] = bridges[k].mail => mark[3] <= bridges[k].try

\* A message that is done and has a task has had its task announced, however
\* often the attempts on it broke off.
FirstTaskIsAnnounced ==
    \A m \in Inbound :
        mailbox[m].status = "processed" /\ BridgesOf(m) # {}
            => <<m, FirstBridge(m).thread>> \in told

\* A refused create costs a row at most one of its attempts: a row is given up
\* only when at least MaxTries - 1 of them broke off for another reason.
RefusalIsSurvived ==
    \A m \in Inbound : mailbox[m].status = "failed" => slips[m] >= MaxTries - 1

\* A row that is taken up again does not write twice, does not lose its notice,
\* and is not used up by the portal's refusals.
RetryIsHarmless == RetryLeavesPortalAlone /\ FirstTaskIsAnnounced /\ RefusalIsSurvived

=============================================================================
