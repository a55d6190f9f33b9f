------------------------------- MODULE Ingestion -------------------------------
(***************************************************************************)
(* How messages get into agent_inbox: the WhatsApp webhook and the three   *)
(* pollers that catch up with what it loses (adapters/whatsapp-manager/    *)
(* reconcile.worker.ts, adapters/reconcile-worker.ts over Gmail and over   *)
(* the service desk), and the writer they share (inbox/ingestion.ts).      *)
(* A provider's list changes while a poller walks it page by page, and the *)
(* cursor a poller leaves behind decides what is never asked for again.    *)
(*                                                                         *)
(* The provider's clock counts its events: every new message, transcript   *)
(* and ticket change gets the next value as its updated_at.                *)
(***************************************************************************)
EXTENDS Naturals, FiniteSets

CONSTANTS
    Sources,       \* the kinds of channel instance, of "wa", "mail" and "desk"
    Posts,         \* its messages, mails or tickets
    Voice,         \* messages that, on WhatsApp, get their text later
    Pollers,       \* the instance's reconcile worker, in each replica
    MaxPages,      \* pages of one walk, one row each
    Lookback,      \* WHATSAPP_RECONCILE_LOOKBACK_MS, in events
    PromptWalks,   \* assumption: no walk outlasts the lookback
    MaxChanges,    \* bound: later changes of a post
    MaxBlips       \* bound: failures of the webhook, the provider, a tick

ASSUME IngestionAssumption ==
    /\ Sources \subseteq {"wa", "mail", "desk"}
    /\ Voice \subseteq Posts
    /\ IsFiniteSet(Posts)
    /\ MaxPages \in Nat \ {0} /\ Lookback \in Nat /\ PromptWalks \in BOOLEAN
    /\ MaxChanges \in Nat /\ MaxBlips \in Nat

VARIABLES
    source,     \* the kind of the channel instance
    clock,      \* provider events so far
    feed,       \* the providers' rows: [born, stamp, changes] (0: not there)
    rows,       \* agent_inbox: what each post's row shows
    bookmark,   \* sync_cursor: [at, since], at = 0 is NULL
    started,    \* history: the cursor it began with
    poll,       \* what each poller is doing
    blips

ingestionVars == <<source, clock, feed, rows, bookmark, started, poll, blips>>

Unset == [at |-> 0, since |-> 0]
Asleep == [at |-> "idle", from |-> 0, since |-> 0, offset |-> 0, next |-> 0,
           batch |-> {}, capped |-> FALSE]
Minus(x, y) == IF x < y THEN 0 ELSE x - y
There(m) == feed[m].born > 0
\* What a row can show: nothing, an empty body, or a post with its changes so far.
NoRow == 0
Empty == 1
TextOf(m) == IF source = "wa" /\ m \in Voice /\ feed[m].changes = 0 THEN Empty ELSE 2 + feed[m].changes

-----------------------------------------------------------------------------
(* The writer: INSERT, or fill a body that is NULL; never the status.       *)

\* Mutant of Upsert: the conflict keeps the row as it is.
UpsertOrKeep(m, text) ==
    rows' = [rows EXCEPT ![m] = IF @ = NoRow THEN text ELSE @]

\* A service-desk ticket is a row for the ticket and one for each entry.
Upsert(m, text) ==
    rows' = [rows EXCEPT ![m] =
          IF @ <= Empty \/ (source = "desk" /\ text > @) THEN text ELSE @]

\* The webhook of a new WhatsApp message: delivered once, lost, or answered 500
\* and not sent again.
Post(m) ==
    /\ ~There(m)
    /\ PromptWalks => \A p \in Pollers :
          poll[p].at = "page" /\ source = "wa" => clock < poll[p].since + Lookback
    /\ clock' = clock + 1
    /\ feed' = [feed EXCEPT ![m] = [born |-> clock', stamp |-> clock', changes |-> 0]]
    /\ \/ source = "wa" /\ Upsert(m, TextOf(m)) /\ UNCHANGED blips
       \/ /\ \/ source = "wa" /\ blips < MaxBlips /\ blips' = blips + 1
             \/ source # "wa" /\ UNCHANGED blips
          /\ UNCHANGED rows
    /\ UNCHANGED <<source, bookmark, started, poll>>

\* The transcript of a voice message, or another entry of a ticket.
Change(m) ==
    /\ There(m) /\ feed[m].changes < MaxChanges
    /\ (source = "wa" /\ m \in Voice) \/ source = "desk"
    /\ PromptWalks => \A p \in Pollers :
          poll[p].at = "page" /\ source = "wa" => clock < poll[p].since + Lookback
    /\ clock' = clock + 1
    /\ feed' = [feed EXCEPT ![m].stamp = clock', ![m].changes = @ + 1]
    /\ UNCHANGED <<source, rows, bookmark, started, poll, blips>>

-----------------------------------------------------------------------------
(* WhatsApp and the service desk: pages of a list that may move.            *)

\* WhatsApp lists the newest message first, after an exclusive bound; the desk
\* the oldest change first, from an inclusive one.
Listing(from) == {m \in Posts : /\ There(m)
                                /\ \/ feed[m].stamp > from
                                   \/ source = "desk" /\ feed[m].stamp = from}
Before(m, n) == IF source = "wa" THEN feed[m].born > feed[n].born
                                 ELSE feed[m].stamp < feed[n].stamp
Rank(m, from) == Cardinality({n \in Listing(from) : n = m \/ Before(n, m)})

\* The first run of the WhatsApp worker only sets the cursor; the desk begins
\* with what changed in the last days.
StartWalk(p) ==
    /\ poll[p] = Asleep /\ source # "mail"
    /\ \/ /\ source = "wa" /\ bookmark = Unset
          /\ bookmark' = [bookmark EXCEPT !.at = clock]
          /\ started' = clock
          /\ UNCHANGED poll
       \/ /\ source = "desk" \/ bookmark # Unset
          /\ poll' = [poll EXCEPT ![p] = [Asleep EXCEPT
                !.at = "page", !.since = clock, !.next = bookmark.at,
                !.from = IF source = "wa" THEN Minus(bookmark.at, Lookback) ELSE bookmark.at]]
          /\ UNCHANGED <<bookmark, started>>
    /\ UNCHANGED <<source, clock, feed, rows, blips>>

\* One page; a short page ends the walk, and so does the page cap of WhatsApp.
FetchPage(p) ==
    /\ poll[p].at = "page"
    /\ LET k == poll[p].offset + 1
           cap == source = "wa" /\ k = MaxPages
       IN \/ /\ k > Cardinality(Listing(poll[p].from))
             /\ poll' = [poll EXCEPT ![p].at = "ingest"]
          \/ \E m \in Listing(poll[p].from) :
             /\ Rank(m, poll[p].from) = k
             /\ poll' = [poll EXCEPT
                   ![p].offset = k,
                   ![p].batch = @ \cup {<<m, TextOf(m)>>},
                   ![p].next = IF feed[m].stamp > @ THEN feed[m].stamp ELSE @,
                   ![p].capped = cap,
                   ![p].at = IF cap THEN "ingest" ELSE "page"]
    /\ UNCHANGED <<source, clock, feed, rows, bookmark, started, blips>>

-----------------------------------------------------------------------------
(* Gmail: the history since the cursor or, where it has expired or there is *)
(* none, the profile's history id first and then the list since the last    *)
(* poll.                                                                    *)

StartMail(p) ==
    /\ poll[p] = Asleep /\ source = "mail"
    /\ \E at \in {"history", "profile"} :
       /\ bookmark = Unset => at = "profile"
       /\ bookmark # Unset /\ at = "profile" => blips < MaxBlips
       /\ blips' = IF bookmark # Unset /\ at = "profile" THEN blips + 1 ELSE blips
       /\ poll' = [poll EXCEPT ![p] = [Asleep EXCEPT !.at = at, !.since = clock,
             !.from = IF at = "history" THEN bookmark.at ELSE bookmark.since]]
    /\ UNCHANGED <<source, clock, feed, rows, bookmark, started>>

Mails(from) == {m \in Posts : feed[m].stamp > from}
ReadOf(S) == {<<m, TextOf(m)>> : m \in S}

ReadProfile(p) ==
    /\ poll[p].at = "profile"
    /\ poll' = [poll EXCEPT ![p].at = "list", ![p].next = clock]
    /\ UNCHANGED <<source, clock, feed, rows, bookmark, started, blips>>

ListMail(p) ==
    /\ poll[p].at \in {"history", "list", "late"}
    /\ poll' = [poll EXCEPT ![p].at = "ingest",
          ![p].batch = IF poll[p].at = "late" THEN @ ELSE ReadOf(Mails(poll[p].from)),
          ![p].next = IF poll[p].at = "list" THEN @ ELSE clock]
    /\ UNCHANGED <<source, clock, feed, rows, bookmark, started, blips>>

-----------------------------------------------------------------------------
(* The end of a tick: every message first, then the cursor.                 *)

\* The entries of a ticket are read after the list.
IngestNext(p) ==
    /\ poll[p].at = "ingest"
    /\ \E b \in poll[p].batch :
       /\ Upsert(b[1], IF source = "desk" THEN TextOf(b[1]) ELSE b[2])
       /\ poll' = [poll EXCEPT ![p].batch = @ \ {b}]
    /\ UNCHANGED <<source, clock, feed, bookmark, started, blips>>

\* WhatsApp: forward only, and not after a capped walk.
AdvanceCursor(p) ==
    \/ source = "wa" /\ ~poll[p].capped /\ poll[p].next > poll[p].from + Lookback
    \/ source # "wa"

SaveBookmark(p) ==
    /\ poll[p].at = "ingest" /\ poll[p].batch = {}
    /\ bookmark' = IF AdvanceCursor(p)
          THEN [at |-> poll[p].next, since |-> IF source = "mail" THEN poll[p].since ELSE 0]
          ELSE bookmark
    /\ poll' = [poll EXCEPT ![p] = Asleep]
    /\ UNCHANGED <<source, clock, feed, rows, started, blips>>

\* Mutant of FailTick: what was fetched is taken as read.
FailForward(p) ==
    /\ poll[p] # Asleep /\ blips < MaxBlips
    /\ blips' = blips + 1
    /\ poll' = [poll EXCEPT ![p] = Asleep]
    /\ bookmark' = [bookmark EXCEPT !.at = IF poll[p].next > @ THEN poll[p].next ELSE @]
    /\ UNCHANGED <<source, clock, feed, rows, started>>

\* A call throws or the process dies: the cursor stays.
FailTick(p) ==
    /\ poll[p] # Asleep /\ blips < MaxBlips
    /\ blips' = blips + 1
    /\ poll' = [poll EXCEPT ![p] = Asleep]
    /\ UNCHANGED <<source, clock, feed, rows, bookmark, started>>

-----------------------------------------------------------------------------
IngestionInit ==
    /\ source \in Sources
    /\ clock = 1 /\ blips = 0
    /\ feed = [m \in Posts |-> [born |-> 0, stamp |-> 0, changes |-> 0]]
    /\ rows = [m \in Posts |-> NoRow]
    /\ bookmark = Unset
    /\ started = 0
    /\ poll = [p \in Pollers |-> Asleep]

PollStep(p) ==
    \/ StartWalk(p) \/ FetchPage(p) \/ StartMail(p) \/ ReadProfile(p) \/ ListMail(p)
    \/ IngestNext(p) \/ SaveBookmark(p)

IngestionNext ==
    \/ \E m \in Posts : Post(m) \/ Change(m)
    \/ \E p \in Pollers : PollStep(p) \/ FailTick(p)

IngestionSpec == IngestionInit /\ [][IngestionNext]_ingestionVars

\* Each worker's next tick starts after the last one ended, failed or not.
IngestionFairSpec ==
    IngestionSpec /\ \A p \in Pollers : WF_ingestionVars(PollStep(p))

-----------------------------------------------------------------------------
\* Types of the state.
IngestionTypeOK ==
    /\ clock \in Nat /\ blips \in 0..MaxBlips
    /\ rows \in [Posts -> 0..2 + MaxChanges] /\ started \in Nat

\* The row shows the post, and its text where the provider has one.
Shown(m) == rows[m] # NoRow /\ (TextOf(m) # Empty => rows[m] # Empty)

\* No cursor passes a message, a transcript or a mail that is not in the inbox:
\* what a poller will never ask for again has been written, whatever failed on
\* the way and however the list moved while it was walked.
NothingIsPassed ==
    \A m \in Posts : There(m) =>
        /\ source = "wa" /\ feed[m].stamp > started /\ started > 0
              /\ feed[m].stamp <= Minus(bookmark.at, Lookback) => Shown(m)
        /\ source = "mail" /\ feed[m].stamp <= bookmark.at => Shown(m)

\* Everything posted after the first poll comes into the inbox, a voice message
\* with its text, although webhooks get lost and ticks fail.
EverythingComesIn ==
    \A m \in Posts :
        There(m) /\ (source = "wa" => started > 0 /\ feed[m].stamp > started)
          ~> Shown(m)
===============================================================================
