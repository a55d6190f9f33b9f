--------------------------- MODULE FounderSurface ---------------------------
(***************************************************************************)
(* One customer topic of the founder's Telegram group and its mirror in the *)
(* founder app: the poller and its offset                                   *)
(* (src/src/adapters/telegram/telegram-notifier.ts, callback-poller.factory *)
(* .ts), the armed captures (src/src/triage/thread-markers.ts), the chain   *)
(* of the founder's messages (founder-message-router.ts, pending-ask.ts,    *)
(* draft-review.ts) and the app's taps (founder-app.router.ts).             *)
(*                                                                         *)
(* A card is a question of askFounder or a draft.  The core handlers of a   *)
(* verdict are one guarded step here; the module DraftReview has them in    *)
(* detail.  Scheduling's capture belongs to the module ScheduleDialog.      *)
(***************************************************************************)
EXTENDS Naturals, Sequences

CONSTANTS
    Questions,    \* cards of askFounder
    Drafts,       \* cards of drafts
    TypedAnswers,      \* the options of a question
    Buttons,      \* the options of a draft
    NoCard,
    MaxUpdates,   \* bound of the model: taps and messages in the topic
    MaxTroubles   \* bound of the model: throws, crashes

Cards == Questions \cup Drafts

ASSUME CardKinds == Questions \cap Drafts = {} /\ NoCard \notin Cards
ASSUME CardOptions ==
    /\ Buttons \subseteq {"approve", "reject", "edit", "revise"}
    /\ TypedAnswers \cap {"approve", "reject", "edit", "revise", "none", "text"} = {}
ASSUME SurfaceLimits == MaxUpdates \in Nat /\ MaxTroubles \in Nat

VARIABLES
    updates,   \* what Telegram holds for getUpdates, from 1
    offset,    \* app_state telegram_update_offset: updates below it are acknowledged
    poller,    \* the poll under way
    marker,    \* app_state: the armed captures of the topic
    asker,     \* the inbox worker in askFounder
    posted,    \* questions and drafts the topic shows
    outcome,   \* what took effect on a card, or "none"
    mirrored,  \* decided_option_id of the card in the app, or "none"
    tap,       \* the app's request under way
    handled,   \* history: updates that were handled, or refused for good
    troubles

surfaceVars == <<updates, offset, poller, marker, asker, posted, outcome, mirrored,
                 tap, handled, troubles>>

CaptureKinds == {"ask_founder", "draft_edit", "draft_revise"}
Verdicts == TypedAnswers \cup {"approve", "reject"}
Options == TypedAnswers \cup Buttons
OptionsOf(c) == IF c \in Questions THEN TypedAnswers ELSE Buttons

Unarmed == [card |-> NoCard, expired |-> FALSE]
SurfaceResting == [at |-> "rest", next |-> 0, kind |-> "none", card |-> NoCard, option |-> "none"]
AtRest == [at |-> "rest", card |-> NoCard]
NoTap == [at |-> "rest", card |-> NoCard, option |-> "none"]

SurfaceTypeOK ==
    /\ updates \in Seq([card : Cards \cup {NoCard}, option : Options \cup {"text"}])
    /\ Len(updates) <= MaxUpdates
    /\ offset \in 1..(MaxUpdates + 1)
    /\ poller \in [at : {"rest", "handle", "route", "disarm", "arm", "mirror", "clear",
                         "dispatch", "work", "save"},
                   next : 0..(MaxUpdates + 1), kind : CaptureKinds \cup {"none"},
                   card : Cards \cup {NoCard}, option : Options \cup {"none", "text"}]
    /\ marker \in [CaptureKinds -> [card : Cards \cup {NoCard}, expired : BOOLEAN]]
    /\ asker \in [at : {"rest", "clear", "arm"}, card : Questions \cup {NoCard}]
    /\ posted \in SUBSET Cards
    /\ outcome \in [Cards -> Verdicts \cup {"edit", "none"}]
    /\ mirrored \in [Cards -> Options \cup {"none"}]
    /\ tap \in [at : {"rest", "route", "mirror"}, card : Cards \cup {NoCard},
                option : Options \cup {"none"}]
    /\ handled \in SUBSET (1..MaxUpdates)
    /\ troubles \in 0..MaxTroubles

SurfaceInit ==
    /\ updates = <<>> /\ offset = 1
    /\ poller = SurfaceResting /\ asker = AtRest /\ tap = NoTap
    /\ marker = [k \in CaptureKinds |-> Unarmed]
    /\ posted = Drafts
    /\ outcome = [c \in Cards |-> "none"] /\ mirrored = [c \in Cards |-> "none"]
    /\ handled = {} /\ troubles = 0

Armed(k) == marker[k].card # NoCard
Clear(k) == marker' = [marker EXCEPT ![k] = Unarmed]

\* the guarded flip or INSERT of a verdict: the first one stands
Resolve(c, option) ==
    outcome' = [outcome EXCEPT ![c] = IF @ = "none" THEN option ELSE @]

\* onDecided: the app's cards with this ref that offer this option, undecided
Mirror(c, option) ==
    mirrored' = [mirrored EXCEPT ![c] = IF @ = "none" THEN option ELSE @]

-----------------------------------------------------------------------------
(* arm: clear the other kinds, then set.  The clears are single writes in    *)
(* the code; each only disarms, so they are one step here.                   *)

ClearOthers(kind) ==
    marker' = [k \in CaptureKinds |-> IF k = kind THEN marker[k] ELSE Unarmed]

SetMarker(k, c) == marker' = [marker EXCEPT ![k] = [card |-> c, expired |-> FALSE]]

\* askFounder: the question is sent, and only then armed; a send that fails is
\* the caller's to retry.
PostQuestion(c) ==
    /\ asker.at = "rest" /\ c \notin posted
    /\ posted' = posted \cup {c}
    /\ asker' = [at |-> "clear", card |-> c]
    /\ UNCHANGED <<updates, offset, poller, marker, outcome, mirrored, tap, handled,
                   troubles>>

AskerClears ==
    /\ asker.at = "clear"
    /\ ClearOthers("ask_founder")
    /\ asker' = [asker EXCEPT !.at = "arm"]
    /\ UNCHANGED <<updates, offset, poller, posted, outcome, mirrored, tap, handled,
                   troubles>>

AskerSets ==
    /\ asker.at = "arm"
    /\ SetMarker("ask_founder", asker.card)
    /\ asker' = AtRest
    /\ UNCHANGED <<updates, offset, poller, posted, outcome, mirrored, tap, handled,
                   troubles>>

\* read: after MARKER_TTL_MS a marker is as good as absent
Expire(k) ==
    /\ Armed(k) /\ ~marker[k].expired
    /\ marker' = [marker EXCEPT ![k].expired = TRUE]
    /\ UNCHANGED <<updates, offset, poller, asker, posted, outcome, mirrored, tap,
                   handled, troubles>>

-----------------------------------------------------------------------------
(* The founder                                                              *)

TapInTelegram(c) ==
    /\ c \in posted /\ Len(updates) < MaxUpdates
    /\ \E o \in OptionsOf(c) : updates' = Append(updates, [card |-> c, option |-> o])
    /\ UNCHANGED <<offset, poller, marker, asker, posted, outcome, mirrored, tap, handled,
                   troubles>>

WriteInTopic ==
    /\ Len(updates) < MaxUpdates
    /\ updates' = Append(updates, [card |-> NoCard, option |-> "text"])
    /\ UNCHANGED <<offset, poller, marker, asker, posted, outcome, mirrored, tap, handled,
                   troubles>>

\* /api/decisions, and /api/drafts/:id/edit with its text: the row is read, a
\* decided card is refused
TapInApp(c) ==
    /\ tap.at = "rest" /\ c \in posted /\ mirrored[c] = "none"
    /\ \E o \in OptionsOf(c) \ {"revise"} : tap' = [at |-> "route", card |-> c, option |-> o]
    /\ UNCHANGED <<updates, offset, poller, marker, asker, posted, outcome, mirrored,
                   handled, troubles>>

\* dispatchDecision's handler; an edit of a resolved draft answers 409
AppRoutes ==
    /\ tap.at = "route"
    /\ Resolve(tap.card, tap.option)
    /\ tap' = IF tap.option = "edit" /\ outcome[tap.card] # "none" THEN NoTap
              ELSE [tap EXCEPT !.at = "mirror"]
    /\ UNCHANGED <<updates, offset, poller, marker, asker, posted, mirrored, handled,
                   troubles>>

AppMirrors ==
    /\ tap.at = "mirror"
    /\ Mirror(tap.card, tap.option)
    /\ tap' = NoTap
    /\ UNCHANGED <<updates, offset, poller, marker, asker, posted, outcome, handled,
                   troubles>>

-----------------------------------------------------------------------------
(* The poll: the updates from the offset on, one after the other.  An update *)
(* that comes in meanwhile is taken along instead of in the next poll.       *)

Fetch ==
    /\ poller.at = "rest" /\ offset <= Len(updates)
    /\ poller' = [SurfaceResting EXCEPT !.at = "handle", !.next = offset]
    /\ UNCHANGED <<updates, offset, marker, asker, posted, outcome, mirrored, tap,
                   handled, troubles>>

\* the update is fully handled, the poll goes on behind it
Finish ==
    /\ handled' = handled \cup {poller.next}
    /\ poller' = [SurfaceResting EXCEPT !.at = "handle", !.next = poller.next + 1]

UpdateAt(stage) == poller.at = stage
UpdateGoes(stage) == poller' = [poller EXCEPT !.at = stage]
Update == updates[poller.next]

TakeTap ==
    /\ UpdateAt("handle") /\ poller.next <= Len(updates) /\ Update.option # "text"
    /\ poller' = [poller EXCEPT !.at = "route", !.card = Update.card,
                                !.option = Update.option]
    /\ UNCHANGED <<updates, offset, marker, asker, posted, outcome, mirrored, tap,
                   handled, troubles>>

\* An edit or revise of an open draft arms its capture, every other verdict is
\* the handler's; onDecided follows in each case.
RouteTap ==
    /\ UpdateAt("route")
    /\ IF poller.option \in Verdicts
       THEN Resolve(poller.card, poller.option) /\ UpdateGoes("mirror")
       ELSE /\ UNCHANGED outcome
            /\ LET kind == IF poller.option = "edit" THEN "draft_edit" ELSE "draft_revise"
               IN  IF outcome[poller.card] = "none"
                   THEN poller' = [poller EXCEPT !.at = "disarm", !.kind = kind]
                   ELSE UpdateGoes("mirror")
    /\ UNCHANGED <<updates, offset, marker, asker, posted, mirrored, tap, handled,
                   troubles>>

PollerClears ==
    /\ UpdateAt("disarm")
    /\ ClearOthers(poller.kind)
    /\ UpdateGoes("arm")
    /\ UNCHANGED <<updates, offset, asker, posted, outcome, mirrored, tap, handled,
                   troubles>>

PollerSets ==
    /\ UpdateAt("arm")
    /\ SetMarker(poller.kind, poller.card)
    /\ UpdateGoes("mirror")
    /\ UNCHANGED <<updates, offset, asker, posted, outcome, mirrored, tap, handled,
                   troubles>>

MirrorTap ==
    /\ UpdateAt("mirror")
    /\ Mirror(poller.card, poller.option)
    /\ Finish
    /\ UNCHANGED <<updates, offset, marker, asker, posted, outcome, tap, troubles>>

\* The captures in the router's order; an expired one is cleared as it is read.
Live(k) == Armed(k) /\ ~marker[k].expired
FirstCapture ==
    IF Live("ask_founder") THEN "ask_founder"
    ELSE IF Live("draft_revise") THEN "draft_revise"
    ELSE IF Live("draft_edit") THEN "draft_edit" ELSE "none"

\* A typed answer that matches an option, an instruction, a replacement text.
TakeText ==
    /\ UpdateAt("handle") /\ poller.next <= Len(updates) /\ Update.option = "text"
    /\ FirstCapture # "none"
    /\ \E o \in TypedAnswers :
        poller' = [poller EXCEPT !.at = IF FirstCapture = "draft_edit" THEN "work" ELSE "clear",
                                 !.kind = FirstCapture, !.card = marker[FirstCapture].card,
                                 !.option = IF FirstCapture = "ask_founder" THEN o ELSE "text"]
    /\ marker' = [k \in CaptureKinds |-> IF marker[k].expired THEN Unarmed ELSE marker[k]]
    /\ UNCHANGED <<updates, offset, asker, posted, outcome, mirrored, tap, handled, troubles>>

\* An answer that matches no option is asked again and stays armed; an empty text
\* is held; a command or, with nothing armed, a query is answered.
PassText ==
    /\ UpdateAt("handle") /\ poller.next <= Len(updates) /\ Update.option = "text"
    /\ Finish
    /\ marker' = [k \in CaptureKinds |-> IF marker[k].expired THEN Unarmed ELSE marker[k]]
    /\ UNCHANGED <<updates, offset, asker, posted, outcome, mirrored, tap, troubles>>

ClearCapture ==
    /\ UpdateAt("clear")
    /\ Clear(poller.kind)
    /\ IF poller.kind = "draft_edit" THEN Finish
       ELSE UpdateGoes(IF poller.kind = "ask_founder" THEN "dispatch" ELSE "work") /\ UNCHANGED handled
    /\ UNCHANGED <<updates, offset, asker, posted, outcome, mirrored, tap, troubles>>

\* A typed answer goes to routeDecision itself, which tells no mirror.
DispatchAnswer ==
    /\ UpdateAt("dispatch")
    /\ Resolve(poller.card, poller.option)
    /\ Finish
    /\ UNCHANGED <<updates, offset, marker, asker, posted, mirrored, tap, troubles>>

\* replaceDraftBodyAndApprove, then the capture is cleared; a revise is done here.
WorkOnDraft ==
    /\ UpdateAt("work")
    /\ IF poller.kind = "draft_edit"
       THEN Resolve(poller.card, "edit") /\ UpdateGoes("clear") /\ UNCHANGED handled
       ELSE Finish /\ UNCHANGED outcome
    /\ UNCHANGED <<updates, offset, marker, asker, posted, mirrored, tap, troubles>>

\* Mutant of Hold: the poll goes on behind the failed update.
SkipFailed ==
    poller' = [SurfaceResting EXCEPT !.at = "save", !.next = poller.next + 1]

\* A failed dispatch holds the offset: the poll ends here and saves it.
Hold == poller' = [SurfaceResting EXCEPT !.at = "save", !.next = poller.next]

\* Mutant of Throw: a tap whose handler throws closes the app's card all the same.
ThrowAfterMirror ==
    /\ poller.at \in {"route", "disarm", "arm", "mirror", "dispatch", "work", "clear"}
    /\ troubles < MaxTroubles /\ troubles' = troubles + 1
    /\ Hold
    /\ IF poller.at = "route" THEN Mirror(poller.card, poller.option) ELSE UNCHANGED mirrored
    /\ UNCHANGED <<updates, offset, marker, asker, posted, outcome, tap, handled>>

Throw ==
    /\ poller.at \in {"route", "disarm", "arm", "mirror", "dispatch", "work", "clear"}
    /\ troubles < MaxTroubles /\ troubles' = troubles + 1
    /\ Hold
    /\ UNCHANGED <<updates, offset, marker, asker, posted, outcome, mirrored, tap, handled>>

\* A text refused by Telegram or the transcription for good is skipped.
RefuseText ==
    /\ poller.at \in {"dispatch", "work"} \/ (UpdateAt("handle") /\ poller.next <= Len(updates))
    /\ Update.option = "text"
    /\ Finish
    /\ UNCHANGED <<updates, offset, marker, asker, posted, outcome, mirrored, tap, troubles>>

EndOfBatch ==
    /\ UpdateAt("handle") /\ poller.next > Len(updates)
    /\ UpdateGoes("save")
    /\ UNCHANGED <<updates, offset, marker, asker, posted, outcome, mirrored, tap,
                   handled, troubles>>

SaveOffset ==
    /\ UpdateAt("save")
    /\ offset' = poller.next
    /\ poller' = SurfaceResting
    /\ UNCHANGED <<updates, marker, asker, posted, outcome, mirrored, tap, handled, troubles>>

\* Arming is best-effort: its failure is swallowed and the question stays.
ArmFails ==
    /\ asker.at # "rest"
    /\ troubles < MaxTroubles /\ troubles' = troubles + 1
    /\ asker' = AtRest
    /\ UNCHANGED <<updates, offset, poller, marker, posted, outcome, mirrored, tap, handled>>

\* The process dies: the poller, the inbox worker and the app's request are gone.
SurfaceCrash ==
    /\ troubles < MaxTroubles /\ troubles' = troubles + 1
    /\ poller' = SurfaceResting /\ asker' = AtRest /\ tap' = NoTap
    /\ UNCHANGED <<updates, offset, marker, posted, outcome, mirrored, handled>>

-----------------------------------------------------------------------------
Poll ==
    \/ Fetch \/ TakeTap \/ RouteTap \/ PollerClears \/ PollerSets \/ MirrorTap
    \/ TakeText \/ PassText \/ ClearCapture \/ DispatchAnswer \/ WorkOnDraft
    \/ EndOfBatch \/ SaveOffset

FounderActs ==
    \/ \E c \in Cards : TapInTelegram(c) \/ TapInApp(c)
    \/ WriteInTopic \/ AppRoutes \/ AppMirrors

Worker ==
    \/ \E c \in Questions : PostQuestion(c)
    \/ AskerClears \/ AskerSets

SurfaceNext ==
    \/ Poll \/ Throw \/ RefuseText
    \/ FounderActs \/ Worker \/ ArmFails \/ SurfaceCrash
    \/ \E k \in CaptureKinds : Expire(k)

SurfaceSpec == SurfaceInit /\ [][SurfaceNext]_surfaceVars

\* The worker polls every three seconds for ever.
SurfaceFairness == WF_surfaceVars(Poll)
SurfaceFairSpec == SurfaceSpec /\ SurfaceFairness

-----------------------------------------------------------------------------
\* "Advancing would SILENTLY LOSE the founder's" tap: over throws, crashes and
\* redeliveries the stored offset never passes an update that was not handled.
OffsetIsHandled == \A u \in 1..MaxUpdates : u < offset => u \in handled

\* "a handler that throws neither marks the mirror": a card the app shows as
\* decided by a verdict has taken effect, that verdict or an earlier one.
ClosedIsDecided == \A c \in Cards : mirrored[c] \in Verdicts => outcome[c] # "none"

\* "a marker for a question that failed to post would capture the founder's next
\* message as the answer to something they never saw": what is armed was posted.
ArmedIsPosted == \A k \in CaptureKinds : Armed(k) => marker[k].card \in posted

\* Three stores are written in an order a crash may cut anywhere: the offset
\* follows the handling, the app's card the effect, the marker the card.
StoresFollowEffects == OffsetIsHandled /\ ClosedIsDecided /\ ArmedIsPosted

\* Every tap and message is handled, over crashes and held offsets.
UpdateIsHandled == \A u \in 1..MaxUpdates : u <= Len(updates) ~> u \in handled

=============================================================================
