----------------------------- MODULE MeetingDraft -----------------------------
(***************************************************************************)
(* A meeting that is agreed on turn by turn in the app's chat with one      *)
(* customer: scheduling/app-meeting-draft.ts over                           *)
(* adapters/founder-app/meeting-draft-repo.ts, with the card it keeps up to  *)
(* date (meeting-draft.factory.ts) and the routes of                        *)
(* founder-app.router.ts.                                                   *)
(*                                                                         *)
(* Every request reads a row, waits for a model, the contacts or Google,    *)
(* and writes.  No lock and no version holds two of them apart: a partial   *)
(* unique index keeps one row in drafting, and the calendar's event id is   *)
(* made of the draft's id.                                                  *)
(***************************************************************************)
EXTENDS Naturals, Sequences

CONSTANTS
    Invitees,      \* email contacts of the customer
    Taskers,       \* requests the server can have in hand
    LastHour,      \* bound of the model: the clock and the times run to here
    MaxAsks,       \* bound of the model: requests made
    MaxMisses      \* bound of the model: requests that throw or die

ASSUME MeetingDraftAssumption == LastHour \in Nat /\ MaxAsks \in Nat /\ MaxMisses \in Nat

VARIABLES
    rounds,     \* founder_app_meeting_drafts of the session, by id
    meets,      \* Google: the event of each draft, by draft id
    cards,      \* founder_app_messages: the draft of each card and what it says
    ask,        \* each request in hand
    hour,       \* the clock
    asks, misses

draftVars == <<rounds, meets, cards, ask, hour, asks, misses>>

Blankly == [time |-> 0, who |-> {}, guess |-> FALSE]
NoAsk == [at |-> "free", kind |-> "none", id |-> 0, plan |-> Blankly, card |-> 0, says |-> "drafting"]
NoMeet == [time |-> 0, who |-> {}]
RoundIds == 1..Len(rounds)
Open(d) == rounds[d].status = "drafting"

MeetingDraftInit ==
    /\ rounds = <<>> /\ meets = <<>> /\ cards = <<>>
    /\ ask = [h \in Taskers |-> NoAsk]
    /\ hour = 0 /\ asks = 0 /\ misses = 0

\* computeNeeds: a time, no name in question, somebody to invite
Ready(plan) == plan.time # 0 /\ ~plan.guess /\ plan.who # {}

-----------------------------------------------------------------------------
(* The routes.  A card's buttons stay valid when its draft has moved on.    *)

AskRefine(h) ==
    /\ ask[h] = NoAsk /\ asks < MaxAsks /\ asks' = asks + 1
    /\ ask' = [ask EXCEPT ![h].kind = "refine", ![h].at = "read"]
    /\ UNCHANGED <<rounds, meets, cards, hour, misses>>

AskOn(h, kind) ==
    /\ ask[h] = NoAsk /\ asks < MaxAsks /\ asks' = asks + 1
    /\ \E k \in DOMAIN cards :
        /\ ~cards[k].gone
        /\ ask' = [ask EXCEPT ![h].kind = kind, ![h].at = "load", ![h].id = cards[k].id]
    /\ UNCHANGED <<rounds, meets, cards, hour, misses>>

-----------------------------------------------------------------------------
(* proposeOrRefine                                                          *)

\* contacts are placed, and a name in question is left open or is one of them
WithContacts(plan, group, guess) ==
    [plan EXCEPT !.who = plan.who \cup group, !.guess = guess]

\* mergeAttendees: nobody named, "everyone", a contact, or a name in question;
\* a contact may be the one a name in question stood for.
MergedPlans(plan) ==
    {plan, WithContacts(plan, Invitees, FALSE), WithContacts(plan, {}, TRUE)}
      \cup {WithContacts(plan, {g}, plan.guess) : g \in Invitees}
      \cup {WithContacts(plan, {g}, FALSE) : g \in Invitees}

\* validatedExecution: a time to come, or the one there was
Timed(plan) == {plan} \cup {[plan EXCEPT !.time = t] : t \in hour + 1 .. LastHour}

\* getActive, then the model's reading of the utterance patched onto the row
ReadActive(h) ==
    /\ ask[h].at = "read"
    /\ LET active == {d \in RoundIds : Open(d)}
           prior == IF active = {} THEN Blankly ELSE rounds[CHOOSE d \in active : TRUE].plan
       IN \E p \in UNION {Timed(m) : m \in MergedPlans(prior)} :
            ask' = [ask EXCEPT ![h].plan = p, ![h].at = "upsert"]
    /\ UNCHANGED <<rounds, meets, cards, hour, asks, misses>>

Landed(h, d) == ask' = [ask EXCEPT ![h].id = d, ![h].says = "drafting", ![h].at = "card",
                                   ![h].card = IF d \in RoundIds THEN rounds[d].card ELSE 0]

\* INSERT ... ON CONFLICT (chat_session_id) WHERE status = 'drafting' DO UPDATE:
\* the session's open row, whichever it is by now, or a new one
UpsertActive(h) ==
    /\ ask[h].at = "upsert"
    /\ \/ \E d \in RoundIds :
            /\ Open(d)
            /\ rounds' = [rounds EXCEPT ![d].plan = ask[h].plan]
            /\ meets' = meets
            /\ Landed(h, d)
       \/ /\ \A d \in RoundIds : ~Open(d)
          /\ rounds' = Append(rounds, [status |-> "drafting", plan |-> ask[h].plan, card |-> 0])
          /\ meets' = Append(meets, NoMeet)
          /\ Landed(h, Len(rounds) + 1)
    /\ UNCHANGED <<cards, hour, asks, misses>>

-----------------------------------------------------------------------------
(* book, resolveAttendee and cancel read the row of their card              *)

Loads(h, kind) == ask[h].at = "load" /\ ask[h].kind = kind
DraftRow(h) == rounds[ask[h].id]
\* the card is drawn from the row that was read, or as a cancelled one
ToCard(h, says) == ask' = [ask EXCEPT ![h].card = DraftRow(h).card, ![h].says = says, ![h].at = "card"]

LoadToBook(h) ==
    /\ Loads(h, "book")
    /\ IF Open(ask[h].id) /\ Ready(DraftRow(h).plan) /\ DraftRow(h).plan.time > hour
       THEN ask' = [ask EXCEPT ![h].plan = DraftRow(h).plan, ![h].card = DraftRow(h).card, ![h].at = "calendar"]
       ELSE ToCard(h, DraftRow(h).status)
    /\ UNCHANGED <<rounds, meets, cards, hour, asks, misses>>

\* the pick replaces the name in question in the copy that was read
LoadToPick(h) ==
    /\ Loads(h, "pick")
    /\ \/ /\ Open(ask[h].id) /\ DraftRow(h).plan.guess
          /\ \E g \in Invitees :
               ask' = [ask EXCEPT ![h].at = "upsert",
                         ![h].plan = WithContacts(DraftRow(h).plan, {g}, FALSE)]
       \/ ToCard(h, DraftRow(h).status)
    /\ UNCHANGED <<rounds, meets, cards, hour, asks, misses>>

LoadToCancel(h) ==
    /\ Loads(h, "cancel")
    /\ IF Open(ask[h].id)
       THEN ask' = [ask EXCEPT ![h].card = DraftRow(h).card, ![h].at = "drop"]
       ELSE ToCard(h, "cancelled")
    /\ UNCHANGED <<rounds, meets, cards, hour, asks, misses>>

\* Mutant of CallCalendar: a call that throws is taken for a booking.
CallAndBelieve(h) ==
    /\ ask[h].at = "calendar"
    /\ \/ meets' = [meets EXCEPT ![ask[h].id] =
                IF @ = NoMeet THEN [time |-> ask[h].plan.time, who |-> ask[h].plan.who] ELSE @]
       \/ UNCHANGED meets
    /\ ask' = [ask EXCEPT ![h].at = "mark"]
    /\ UNCHANGED <<rounds, cards, hour, asks, misses>>

\* events.insert under the draft's id: the first call makes the event, a later
\* one meets 409 and takes it as it is
CallCalendar(h) ==
    /\ ask[h].at = "calendar"
    /\ meets' = [meets EXCEPT ![ask[h].id] =
            IF @ = NoMeet THEN [time |-> ask[h].plan.time, who |-> ask[h].plan.who] ELSE @]
    /\ ask' = [ask EXCEPT ![h].at = "mark"]
    /\ UNCHANGED <<rounds, cards, hour, asks, misses>>

\* the answer of an insert that went through is lost
LoseCalendar(h) ==
    /\ ask[h].at = "calendar" /\ meets[ask[h].id] = NoMeet
    /\ misses < MaxMisses /\ misses' = misses + 1
    /\ meets' = [meets EXCEPT ![ask[h].id] = [time |-> ask[h].plan.time, who |-> ask[h].plan.who]]
    /\ ask' = [ask EXCEPT ![h] = NoAsk]
    /\ UNCHANGED <<rounds, cards, hour, asks>>

\* neither UPDATE looks at the status it finds
MarkBooked(h) ==
    /\ ask[h].at = "mark"
    /\ rounds' = [rounds EXCEPT ![ask[h].id].status = "booked"]
    /\ ask' = [ask EXCEPT ![h].says = "booked", ![h].at = "card"]
    /\ UNCHANGED <<meets, cards, hour, asks, misses>>

MarkCancelled(h) ==
    /\ ask[h].at = "drop"
    /\ rounds' = [rounds EXCEPT ![ask[h].id].status = "cancelled"]
    /\ ask' = [ask EXCEPT ![h].says = "cancelled", ![h].at = "card"]
    /\ UNCHANGED <<meets, cards, hour, asks, misses>>

-----------------------------------------------------------------------------
(* The card                                                                 *)

\* The first turn inserts it and every later one redraws it; only a turn of the
\* chat inserts.  A cancelled card is dismissed.
SyncCard(h) ==
    /\ ask[h].at = "card"
    /\ \/ /\ ask[h].card # 0
          /\ cards' = [cards EXCEPT ![ask[h].card].says = ask[h].says,
                         ![ask[h].card].gone = @ \/ ask[h].kind = "cancel"]
          /\ ask' = [ask EXCEPT ![h] = NoAsk]
       \/ /\ ask[h].card = 0 /\ ask[h].kind = "refine"
          /\ cards' = Append(cards, [id |-> ask[h].id, says |-> ask[h].says, gone |-> FALSE])
          /\ ask' = [ask EXCEPT ![h].card = Len(cards) + 1, ![h].at = "attach"]
       \/ /\ ask[h].card = 0 /\ ask[h].kind # "refine"
          /\ ask' = [ask EXCEPT ![h] = NoAsk] /\ UNCHANGED cards
    /\ UNCHANGED <<rounds, meets, hour, asks, misses>>

AttachCard(h) ==
    /\ ask[h].at = "attach"
    /\ rounds' = [rounds EXCEPT ![ask[h].id].card = ask[h].card]
    /\ ask' = [ask EXCEPT ![h] = NoAsk]
    /\ UNCHANGED <<meets, cards, hour, asks, misses>>

AskFails(h) ==
    /\ ask[h] # NoAsk
    /\ misses < MaxMisses /\ misses' = misses + 1
    /\ ask' = [ask EXCEPT ![h] = NoAsk]
    /\ UNCHANGED <<rounds, meets, cards, hour, asks>>

HourPasses ==
    /\ hour < LastHour /\ hour' = hour + 1
    /\ UNCHANGED <<rounds, meets, cards, ask, asks, misses>>

-----------------------------------------------------------------------------
MeetingDraftNext ==
    \/ \E h \in Taskers :
        \/ AskRefine(h) \/ \E kind \in {"book", "pick", "cancel"} : AskOn(h, kind)
        \/ ReadActive(h) \/ UpsertActive(h)
        \/ LoadToBook(h) \/ LoadToPick(h) \/ LoadToCancel(h)
        \/ CallCalendar(h) \/ LoseCalendar(h) \/ MarkBooked(h) \/ MarkCancelled(h)
        \/ SyncCard(h) \/ AttachCard(h) \/ AskFails(h)
    \/ HourPasses

MeetingDraftSpec == MeetingDraftInit /\ [][MeetingDraftNext]_draftVars

-----------------------------------------------------------------------------
\* The values the tables and the requests may hold.
MeetingDraftTypeOK ==
    /\ \A d \in RoundIds : /\ rounds[d].status \in {"drafting", "booked", "cancelled"}
                           /\ rounds[d].plan.who \subseteq Invitees
                           /\ rounds[d].card \in 0..Len(cards)
    /\ Len(meets) = Len(rounds)
    /\ \A h \in Taskers : ask[h].id \in 0..Len(rounds) /\ ask[h].card \in 0..Len(cards)

\* Neither a row nor a card says that a meeting is booked before the calendar has
\* it, with a time and with somebody to meet, whatever taps, turns, cancels and
\* lost answers meet.
BookedHasEvent ==
    /\ \A d \in RoundIds : rounds[d].status = "booked" => meets[d].time # 0 /\ meets[d].who # {}
    /\ \A k \in DOMAIN cards : cards[k].says = "booked" => meets[cards[k].id] # NoMeet

===============================================================================
