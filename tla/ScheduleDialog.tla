--------------------------- MODULE ScheduleDialog ---------------------------
(***************************************************************************)
(* The founder schedules by conversation                                    *)
(* (src/src/scheduling/schedule-handler.ts): in a customer's topic a        *)
(* command is interpreted by the model, each question arms the topic's      *)
(* pending record (pending-clarification.ts), and an answer, a tap or a     *)
(* replacement text completes it into a scheduled action or a calendar      *)
(* event.  The poller hands over one update after the other; an update      *)
(* whose handler throws is handed over again, with what it had already done *)
(* left in place.                                                          *)
(*                                                                         *)
(* A body or an attendee list is known by the number (the nonce) of the     *)
(* card that shows it; 0 stands for the founder's own words.                *)
(***************************************************************************)
EXTENDS Naturals, Sequences

CONSTANTS
    MaxClarifyTurns,   \* MAX_CLARIFY_TURNS
    Founded,           \* bound of the model: the founder's messages and taps
    MaxNonce,          \* bound of the model: cards with buttons
    MaxThrows          \* bound of the model: handlers that throw

ASSUME DialogLimits ==
    /\ MaxClarifyTurns \in Nat \ {0} /\ Founded \in Nat
    /\ MaxNonce \in Nat /\ MaxThrows \in Nat

VARIABLES
    inputs,     \* the founder's messages and taps, in order
    current,    \* the update the poller hands over
    pending,    \* the topic's 'schedule' marker
    nonces,     \* nonces given out so far
    offeredCards,      \* the cards that have reached the topic
    scheduled,  \* scheduled_actions by anchor: the body, or none
    events,     \* calendar events by idempotency key: the attendee list, or none
    throws

dialogVars == <<inputs, current, pending, nonces, offeredCards, scheduled, events, throws>>

Anchors == 1..Founded
Nonces == 1..MaxNonce
CardTaps == {"approve", "channel", "edit", "book", "cancel"}
None == [made |-> FALSE, body |-> 0]

\* body: 0 the founder's words, or the nonce of the composed draft or meeting
NoPending == [ask |-> "none", turns |-> 0, anchor |-> 0, nonce |-> 0, body |-> 0,
              channel |-> FALSE]

DialogTypeOK ==
    /\ inputs \in Seq([tap : CardTaps \cup {"text"}, nonce : 0..MaxNonce])
    /\ Len(inputs) <= Founded
    /\ current \in 1..(Founded + 1)
    /\ pending \in [ask : {"none", "free", "channel", "draft", "edit", "meeting"},
                    turns : 0..MaxClarifyTurns, anchor : 0..Founded, nonce : 0..MaxNonce,
                    body : 0..MaxNonce, channel : BOOLEAN]
    /\ nonces \in 0..MaxNonce
    /\ offeredCards \subseteq Nonces
    /\ scheduled \in [Anchors -> [made : BOOLEAN, body : 0..MaxNonce]]
    /\ events \in [Anchors -> [made : BOOLEAN, body : 0..MaxNonce]]
    /\ throws \in 0..MaxThrows

DialogInit ==
    /\ inputs = <<>> /\ current = 1
    /\ pending = NoPending
    /\ nonces = 0 /\ offeredCards = {}
    /\ scheduled = [a \in Anchors |-> None] /\ events = [a \in Anchors |-> None]
    /\ throws = 0

-----------------------------------------------------------------------------
(* What the founder does                                                    *)

Writes ==
    /\ Len(inputs) < Founded
    /\ inputs' = Append(inputs, [tap |-> "text", nonce |-> 0])
    /\ UNCHANGED <<current, pending, nonces, offeredCards, scheduled, events, throws>>

\* A keyboard stays tappable for ever.
Presses ==
    /\ Len(inputs) < Founded
    /\ \E n \in offeredCards, t \in CardTaps : inputs' = Append(inputs, [tap |-> t, nonce |-> n])
    /\ UNCHANGED <<current, pending, nonces, offeredCards, scheduled, events, throws>>

\* The marker's TTL, or another capture armed in the topic
PendingLapses ==
    /\ pending # NoPending
    /\ pending' = NoPending
    /\ UNCHANGED <<inputs, current, nonces, offeredCards, scheduled, events, throws>>

-----------------------------------------------------------------------------
(* The handler's parts                                                      *)

Handling(kind) == current <= Len(inputs) /\ (inputs[current].tap = "text") = (kind = "text")

\* originCommand: the conversation's first message
Anchor == IF pending = NoPending THEN current ELSE pending.anchor

\* The reply is sent; or something throws, and the update comes again, or is
\* skipped if it is a text that Telegram refuses for good.
Replies(card) ==
    /\ current' = current + 1
    /\ offeredCards' = IF card = 0 THEN offeredCards ELSE offeredCards \cup {card}
    /\ UNCHANGED throws

ReplyThrows(card) ==
    /\ throws < MaxThrows /\ throws' = throws + 1
    /\ offeredCards' \in {offeredCards, IF card = 0 THEN offeredCards ELSE offeredCards \cup {card}}
    /\ \/ UNCHANGED current
       \/ inputs[current].tap = "text" /\ current' = current + 1

Ends(card) == Replies(card) \/ ReplyThrows(card)

\* armPending mints a nonce; Free asks without one that matters
NewNonce == nonces + 1
Arm(record) == pending' = record

\* askAndArm: past the cap the conversation is given up
AskAndArm ==
    LET turns == pending.turns + 1 IN
    /\ pending' = IF turns > MaxClarifyTurns THEN NoPending
                  ELSE [NoPending EXCEPT !.ask = "free", !.turns = turns, !.anchor = Anchor]
    /\ Ends(0)
    /\ UNCHANGED <<nonces, scheduled, events>>

\* a refusal: nothing is scheduled and the record is cleared
Refuse ==
    /\ pending' = NoPending
    /\ Ends(0)
    /\ UNCHANGED <<nonces, scheduled, events>>

\* A card with buttons: its record is armed first.
AskWithCard(ask, body, channel) ==
    /\ nonces < MaxNonce /\ nonces' = NewNonce
    /\ Arm([ask |-> ask, turns |-> pending.turns, anchor |-> Anchor, nonce |-> NewNonce,
            body |-> body, channel |-> channel])
    /\ Ends(NewNonce)
    /\ UNCHANGED <<scheduled, events>>

\* INSERT .. ON CONFLICT (source_chat_id, source_message_id) DO NOTHING
Create(body) ==
    scheduled' = [scheduled EXCEPT ![Anchor] =
                    IF @.made THEN @ ELSE [made |-> TRUE, body |-> body]]

\* finalize, once a route is there: create, clear, confirm; it may throw after
\* each of them.
Finalize(body) ==
    /\ UNCHANGED <<nonces, events>>
    /\ \/ Create(body) /\ pending' = NoPending /\ Ends(0)
       \/ /\ Create(body) \/ UNCHANGED scheduled
          /\ UNCHANGED pending
          /\ ReplyThrows(0)

\* resolveChannel: the explicit or only channel, a choice of two, or no contact
ResolveChannel ==
    Finalize(0) \/ AskWithCard("channel", 0, FALSE) \/ Refuse

-----------------------------------------------------------------------------
(* onMessage                                                                *)

\* The text after an edit tap is the body; without a channel it is asked for.
TakesReplacement ==
    /\ Handling("text") /\ pending.ask = "edit"
    /\ \/ pending.channel /\ (Finalize(0) \/ Refuse)
       \/ ~pending.channel /\ ResolveChannel
    /\ UNCHANGED <<inputs, events>>

\* An empty text is held, ordinary chatter passes on, and a failed
\* interpretation is only answered.
PassesOn ==
    /\ Handling("text")
    /\ Ends(0)
    /\ UNCHANGED <<inputs, pending, nonces, scheduled, events>>

\* The model's reading: a question, a refusal, the founder's own words, a meeting
\* to confirm, or a body to compose, which needs a card for one channel or for two.
Interprets ==
    /\ Handling("text") /\ pending.ask # "edit"
    /\ \/ AskAndArm
       \/ Refuse
       \/ ResolveChannel
       \/ AskWithCard("meeting", NewNonce, FALSE)
       \/ \E one \in BOOLEAN : AskWithCard("draft", NewNonce, one)
    /\ UNCHANGED <<inputs, events>>

-----------------------------------------------------------------------------
(* onDecision                                                               *)

\* Mutant of Asked: any card of the topic answers what is pending.
AskedByAnyCard == pending # NoPending

\* A tap is honoured for the question it was rendered on.
Asked == pending # NoPending /\ pending.nonce = inputs[current].nonce

TapExpires ==
    /\ Handling("tap") /\ ~Asked
    /\ Ends(0)
    /\ UNCHANGED <<inputs, pending, nonces, scheduled, events>>

CardTapped(t) == Handling("tap") /\ Asked /\ inputs[current].tap = t

TapsCancel ==
    /\ CardTapped("cancel")
    /\ Refuse
    /\ UNCHANGED <<inputs>>

TapsEdit ==
    /\ CardTapped("edit") /\ pending.ask \notin {"meeting", "free"}
    /\ pending' = [pending EXCEPT !.ask = "edit"]
    /\ Ends(0)
    /\ UNCHANGED <<inputs, nonces, scheduled, events>>

\* Approve sends over the draft's channel, a channel's button names one; a time
\* that has lapsed, a lost channel or a group for a composed body is refused.
TapsApprove ==
    /\ CardTapped("approve") \/ CardTapped("channel")
    /\ pending.ask \notin {"meeting", "free"}
    /\ \/ (pending.channel \/ inputs[current].tap = "channel") /\ Finalize(pending.body)
       \/ Refuse
    /\ UNCHANGED <<inputs, events>>

\* createEvent under the anchor's id: a second one answers 409
Book(a) ==
    events' = [events EXCEPT ![a] =
                IF @.made THEN @ ELSE [made |-> TRUE, body |-> pending.body]]

\* The event is created, the record cleared, the founder told.  An error of the
\* calendar, before or after it has created the event, clears the record too.
TapsBook ==
    /\ CardTapped("book") /\ pending.ask = "meeting"
    /\ Book(pending.anchor) \/ UNCHANGED events
    /\ \/ pending' = NoPending /\ Ends(0)
       \/ UNCHANGED pending /\ ReplyThrows(0)
    /\ UNCHANGED <<inputs, nonces, scheduled>>

\* another option than the question offers
TapsOther ==
    /\ Handling("tap") /\ Asked
    /\ \/ pending.ask = "meeting" /\ inputs[current].tap \notin {"book", "cancel"}
       \/ pending.ask \in {"draft", "channel", "edit"} /\ inputs[current].tap = "book"
    /\ Ends(0)
    /\ UNCHANGED <<inputs, pending, nonces, scheduled, events>>

-----------------------------------------------------------------------------
DialogNext ==
    \/ Writes \/ Presses \/ PendingLapses
    \/ TakesReplacement \/ PassesOn \/ Interprets
    \/ TapExpires \/ TapsCancel \/ TapsEdit \/ TapsApprove \/ TapsBook \/ TapsOther

DialogSpec == DialogInit /\ [][DialogNext]_dialogVars

-----------------------------------------------------------------------------
TappedOn(n, taps) ==
    \E u \in 1..Len(inputs) : inputs[u].nonce = n /\ inputs[u].tap \in taps

\* "THE FOUNDER'S WORDS ARE PREFERRED, AND ANYTHING ELSE IS GATED": a body the
\* model wrote is scheduled, and people are invited, only as shown on a card the
\* founder has tapped for exactly that, whatever has been asked, edited, replayed
\* or tapped late in between.
ActsAsShown ==
    \A a \in Anchors :
        /\ scheduled[a].body # 0 => TappedOn(scheduled[a].body, {"approve", "channel"})
        /\ events[a].made => TappedOn(events[a].body, {"book"})

=============================================================================
