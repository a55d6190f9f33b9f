------------------------------- MODULE Notices -------------------------------
(***************************************************************************)
(* The proactive workers: notices of tasks that are done                    *)
(* (src/src/adapters/proactive/task-event.worker.ts), status updates of     *)
(* stale tasks and nudges of silent threads (stale-task.worker.ts,          *)
(* awaiting-reply.worker.ts), packs for coming meetings                     *)
(* (meeting-prep.worker.ts) and release notes (release-note-notifier.ts).   *)
(* Each looks at the same items again and again; a row claimed in a ledger  *)
(* (task-transition-ledger.ts, chaser-ledger.ts, release-note-repo.ts)      *)
(* before the draft is what keeps a notice from being written twice.        *)
(*                                                                         *)
(* One customer.  An item is a task's transition, an episode of a stale     *)
(* task or a silent thread, an event or a release note; it ripens once, in  *)
(* the order of its updatedAt.  No lock keeps two replicas apart.           *)
(***************************************************************************)
EXTENDS Naturals, Sequences, FiniteSets, SequencesExt

CONSTANTS
    Items,         \* things there is something to say about
    SweepOf,       \* the worker of an item
    Sweepers,      \* replicas of the service
    MaxFailures    \* bound of the model: failing steps and dead processes

NoticeSweeps == {"event", "scan", "prep", "note"}

ASSUME NoticesAssumption ==
    SweepOf \in [Items -> NoticeSweeps] /\ MaxFailures \in Nat

VARIABLES
    ripe,       \* the items there is something to say about, in order
    seeded,     \* sweeps whose cursor or seed marker is in app_state
    cursor,     \* the task events' cursor, as a position in ripe
    claims,     \* the ledgers' rows
    tick,       \* the tick each replica runs, with the places of its items in ripe
    drafts,     \* outbound drafts (or packs) made for an item
    shown,      \* items the founder has been shown
    unshown,    \* history: presentations that failed after the draft was made
    settled,    \* history: skipped by design, or claimed by a process that died
    backlog,    \* history: what was ripe when a sweep first ran
    failures

ledgerVars == <<seeded, cursor, claims>>
notedVars == <<drafts, shown, unshown, settled, backlog>>
noticeVars == <<ripe, ledgerVars, tick, notedVars, failures>>

NoTick == [at |-> "idle", sweep |-> "none", todo |-> {}, upto |-> 0]

NoticesTypeOK ==
    /\ ripe \in Seq(Items) /\ Len(ripe) = Cardinality(ToSet(ripe))
    /\ seeded \subseteq NoticeSweeps
    /\ cursor \in 0..Len(ripe)
    /\ claims \subseteq Items
    /\ tick \in [Sweepers -> [at : {"idle", "seed", "claim", "draft", "present", "release"},
                              sweep : NoticeSweeps \cup {"none"}, todo : SUBSET (1..Len(ripe)), upto : Nat]]
    /\ drafts \in [Items -> Nat] /\ unshown \in [Items -> Nat]
    /\ shown \cup settled \cup backlog \subseteq Items
    /\ failures \in 0..MaxFailures

NoticesInit ==
    /\ ripe = <<>>
    /\ seeded = {"prep", "note"} /\ cursor = 0 /\ claims = {}
    /\ tick = [w \in Sweepers |-> NoTick]
    /\ drafts = [i \in Items |-> 0] /\ unshown = [i \in Items |-> 0]
    /\ shown = {} /\ settled = {} /\ backlog = {}
    /\ failures = 0

-----------------------------------------------------------------------------
Ripens ==
    /\ \E i \in Items \ ToSet(ripe) : ripe' = Append(ripe, i)
    /\ UNCHANGED <<ledgerVars, tick, notedVars, failures>>

\* The events' sweep reads from the cursor on (the portal's filter includes it),
\* the others read everything that is ripe; the places of the items in ripe.
Observed(s) ==
    {n \in 1..Len(ripe) : SweepOf[ripe[n]] = s /\ (s = "event" /\ s \in seeded => n > cursor)}

StartNoticeSweep(w, s) ==
    /\ tick[w].at = "idle"
    /\ tick' = [tick EXCEPT ![w] = [at |-> IF s \in seeded THEN "claim" ELSE "seed",
                                    sweep |-> s, todo |-> Observed(s), upto |-> Len(ripe)]]
    /\ backlog' = IF s \in seeded \/ \E v \in Sweepers : tick[v].at = "seed" /\ tick[v].sweep = s
                  THEN backlog ELSE backlog \cup {ripe[n] : n \in Observed(s)}
    /\ UNCHANGED <<ripe, ledgerVars, drafts, shown, unshown, settled, failures>>

\* the items are gone through in their order
Item(w) == ripe[Min(tick[w].todo)]
Left(w) == tick[w].todo \ {Min(tick[w].todo)}
InHand(w, stage) == tick[w].at = stage /\ tick[w].todo # {}
Stage(w, stage) == tick' = [tick EXCEPT ![w].at = stage]
NextItem(w) == tick' = [tick EXCEPT ![w].at = "claim", ![w].todo = Left(w)]

\* the first run claims all there is, and says nothing
SeedItem(w) ==
    /\ InHand(w, "seed")
    /\ claims' = claims \cup {Item(w)}
    /\ tick' = [tick EXCEPT ![w].todo = Left(w)]
    /\ UNCHANGED <<ripe, seeded, cursor, notedVars, failures>>

\* the cursor or the marker is set, with a seed's last claim or behind a full sweep
EndNoticeSweep(w) ==
    /\ tick[w].at \in {"seed", "claim"} /\ tick[w].todo = {}
    /\ seeded' = seeded \cup {tick[w].sweep}
    /\ cursor' = IF tick[w].sweep = "event" THEN tick[w].upto ELSE cursor
    /\ tick' = [tick EXCEPT ![w] = NoTick]
    /\ UNCHANGED <<ripe, claims, notedVars, failures>>

\* Mutant of ClaimItem: the conflict with an earlier claim is not looked at.
ClaimAnyway(w) ==
    /\ InHand(w, "claim")
    /\ claims' = claims \cup {Item(w)}
    /\ Stage(w, "draft")
    /\ UNCHANGED <<ripe, seeded, cursor, notedVars, failures>>

\* claimTransition, claimChase, claimReleaseNoteNotification
ClaimItem(w) ==
    /\ InHand(w, "claim")
    /\ IF Item(w) \in claims
       THEN NextItem(w) /\ UNCHANGED claims
       ELSE claims' = claims \cup {Item(w)} /\ Stage(w, "draft")
    /\ UNCHANGED <<ripe, seeded, cursor, notedVars, failures>>

\* no conversation of a customer behind it, or no configuration: stays claimed
SkipItem(w) ==
    /\ InHand(w, "draft")
    /\ settled' = settled \cup {Item(w)}
    /\ NextItem(w)
    /\ UNCHANGED <<ripe, ledgerVars, drafts, shown, unshown, backlog, failures>>

\* compose, recordDraftDecision, enqueueDraft
DraftNotice(w) ==
    /\ InHand(w, "draft")
    /\ drafts' = [drafts EXCEPT ![Item(w)] = @ + 1]
    /\ Stage(w, "present")
    /\ UNCHANGED <<ripe, ledgerVars, shown, unshown, settled, backlog, failures>>

\* notifyCustomerEvent
PresentNotice(w) ==
    /\ InHand(w, "present")
    /\ shown' = shown \cup {Item(w)}
    /\ NextItem(w)
    /\ UNCHANGED <<ripe, ledgerVars, drafts, unshown, settled, backlog, failures>>

\* A release note that fails for a customer keeps its claim and the loop goes on.
Dropped(w) == tick[w].sweep = "note"

DraftingFails(w) ==
    /\ InHand(w, "draft")
    /\ failures < MaxFailures /\ failures' = failures + 1
    /\ IF Dropped(w) THEN NextItem(w) /\ settled' = settled \cup {Item(w)}
                     ELSE Stage(w, "release") /\ UNCHANGED settled
    /\ UNCHANGED <<ripe, ledgerVars, drafts, shown, unshown, backlog>>

\* the card may have been delivered all the same
PresentingFails(w) ==
    /\ InHand(w, "present")
    /\ failures < MaxFailures /\ failures' = failures + 1
    /\ unshown' = [unshown EXCEPT ![Item(w)] = @ + 1]
    /\ shown' \in {shown, shown \cup {Item(w)}}
    /\ IF Dropped(w) THEN NextItem(w) /\ settled' = settled \cup {Item(w)}
                     ELSE Stage(w, "release") /\ UNCHANGED settled
    /\ UNCHANGED <<ripe, ledgerVars, drafts, backlog>>

\* Mutant of ReleaseItem: the claim stays.
HoldItem(w) ==
    /\ InHand(w, "release")
    /\ tick' = [tick EXCEPT ![w] = NoTick]
    /\ UNCHANGED <<ripe, ledgerVars, notedVars, failures>>

\* The claim is given back and the tick is over, with the cursor where it was;
\* a pack whose facts cannot be read leaves the tick to its other events.
ReleaseItem(w) ==
    /\ InHand(w, "release")
    /\ claims' = claims \ {Item(w)}
    /\ \/ tick' = [tick EXCEPT ![w] = NoTick]
       \/ tick[w].sweep = "prep" /\ NextItem(w)
    /\ UNCHANGED <<ripe, seeded, cursor, notedVars, failures>>

\* A crash, or a statement of the ledger that throws: the claim stays.
SweeperDies(w) ==
    /\ tick[w].at # "idle"
    /\ failures < MaxFailures /\ failures' = failures + 1
    /\ settled' = IF tick[w].at \in {"draft", "present", "release"}
                  THEN settled \cup {Item(w)} ELSE settled
    /\ tick' = [tick EXCEPT ![w] = NoTick]
    /\ UNCHANGED <<ripe, ledgerVars, drafts, shown, unshown, backlog>>

-----------------------------------------------------------------------------
SweepStep(w) ==
    \/ SeedItem(w) \/ EndNoticeSweep(w) \/ ClaimItem(w) \/ SkipItem(w)
    \/ DraftNotice(w) \/ PresentNotice(w) \/ ReleaseItem(w)

NoticesNext ==
    \/ Ripens
    \/ \E w \in Sweepers :
        \/ \E s \in NoticeSweeps : StartNoticeSweep(w, s)
        \/ SweepStep(w) \/ DraftingFails(w) \/ PresentingFails(w) \/ SweeperDies(w)

NoticesSpec == NoticesInit /\ [][NoticesNext]_noticeVars

\* Every worker has its timer.
NoticesFairness ==
    /\ \A w \in Sweepers : WF_noticeVars(SweepStep(w))
    /\ \A s \in NoticeSweeps : SF_noticeVars(\E w \in Sweepers : StartNoticeSweep(w, s))
NoticesFairSpec == NoticesSpec /\ NoticesFairness

-----------------------------------------------------------------------------
\* The go-live backlog is silent: what was ripe when its sweep first ran is never
\* drafted, over a seed that is interrupted, two replicas that seed or sweep at
\* once, and claims that are released.
BacklogIsSilent == \A i \in backlog : drafts[i] = 0

\* A forever repeated look at an item makes one draft, whichever replica looks,
\* but for drafts whose presentation failed; a release note makes one in any case.
OneDraftPerClaim ==
    \A i \in Items :
        /\ drafts[i] <= 1 + unshown[i]
        /\ SweepOf[i] = "note" => drafts[i] <= 1

\* Polling for ever neither repeats a notice nor digs up what was ripe before
\* the go-live.
NoticesAreOnce == OneDraftPerClaim /\ BacklogIsSilent

\* What ripens after the go-live is put before the founder in the end, over
\* failing models, portals and notifiers; only a skip by design, a release note
\* that failed and a claim whose process died stay silent.  (One replica: with
\* two, one may pass its cursor over a claim the other then gives back.)
NoticeIsGiven ==
    \A i \in Items :
        i \in ToSet(ripe) ~> i \in shown \cup settled \cup backlog

=============================================================================
