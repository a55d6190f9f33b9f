-------------------------------- MODULE AppFeed --------------------------------
(***************************************************************************)
(* The cards of the founder's app and what a phone shows of them: the rows   *)
(* of adapters/founder-app/founder-app-repo.ts, the stream that announces    *)
(* them (founder-app-feed.ts), and the client's list and queue               *)
(* (app/src/useFeed.ts, AppData.tsx, useOptimisticDecide.ts).                 *)
(*                                                                         *)
(* A row is published after it is written, answers overtake one another, a   *)
(* stream that broke is not replayed, and the client paints a tap before it  *)
(* has been heard.  Pages beyond the first are left out.                     *)
(***************************************************************************)
EXTENDS Naturals, Sequences, FiniteSets

CONSTANTS
    Phones,     \* devices with the app open
    FeedCards,      \* rows of founder_app_messages with buttons
    FeedOptions,    \* ids of their buttons
    KindOf,     \* "question" or "notification"
    RefOf,      \* notification_ref: the thing a card is about
    MaxTaps,    \* bound of the model: taps made on the phones
    MaxAway,    \* bound of the model: broken streams and lost answers
    MaxAnswered \* bound of the model: answers of a kind under way to a phone

ASSUME AppFeedAssumption ==
    KindOf \in [FeedCards -> {"question", "notification"}] /\ MaxTaps \in Nat /\ MaxAway \in Nat

VARIABLES
    rowOf,      \* each row: absent, or its decided option and whether it was dismissed
    news,       \* rows written and not yet published
    stream,     \* the frames under way to each phone
    online,     \* whether its EventSource is open
    feedList,      \* its list of rows
    listed,     \* its queue
    reads,      \* its GETs in flight: asked, or answered with the rows of then
    feedTap,        \* its tap in flight
    taps, away

feedVars == <<rowOf, news, stream, online, feedList, listed, reads, feedTap, taps, away>>

Absent == [decided |-> "none", gone |-> FALSE, here |-> FALSE]
FreshRow == [decided |-> "none", gone |-> FALSE, here |-> TRUE]
NoRows == [c \in FeedCards |-> Absent]
NoFeedTap == [at |-> "none", kind |-> "none", card |-> "none", option |-> "none",
          kept |-> {}, row |-> Absent]

\* questions of a kind that the server has not heard yet count as one
Get(kind) == [kind |-> kind, served |-> FALSE, body |-> NoRows]

\* listAttentionDecisions: undecided and not dismissed
Pending(rows) == {c \in FeedCards : rows[c].here /\ rows[c].decided = "none" /\ ~rows[c].gone}

\* the first mount asks for the list and for the queue
AppFeedInit ==
    /\ rowOf = NoRows /\ news = {}
    /\ stream = [d \in Phones |-> <<>>] /\ online = [d \in Phones |-> TRUE]
    /\ feedList = [d \in Phones |-> NoRows] /\ listed = [d \in Phones |-> {}]
    /\ reads = [d \in Phones |-> {Get("list"), Get("queue")}]
    /\ feedTap = [d \in Phones |-> NoFeedTap]
    /\ taps = 0 /\ away = 0

-----------------------------------------------------------------------------
(* The rows                                                                 *)

\* the rows an INSERT or an UPDATE ... RETURNING changed wait to be published
Write(rows) ==
    /\ rowOf' = rows
    /\ news' = news \cup {[card |-> c, row |-> rows[c]] : c \in {e \in FeedCards : rows[e] # rowOf[e]}}

\* AppFounderNotifier.record: a notification about a message the founder has answered
\* is dismissed from the start
PostRow(c) ==
    /\ ~rowOf[c].here
    /\ \/ Write([rowOf EXCEPT ![c] = FreshRow])
       \/ KindOf[c] = "notification" /\ Write([rowOf EXCEPT ![c] = [FreshRow EXCEPT !.gone = TRUE]])
    /\ UNCHANGED <<stream, online, feedList, listed, reads, feedTap, taps, away>>

\* markDecidedByRef: every undecided row of the thing that offers the option (here
\* all of them do); the first answer stands
MarkDecided(ref, o) ==
    Write([c \in FeedCards |->
              IF rowOf[c].here /\ RefOf[c] = ref /\ rowOf[c].decided = "none"
              THEN [rowOf[c] EXCEPT !.decided = o] ELSE rowOf[c]])

\* a tap in Telegram reaches the same hook
DecideElsewhere(c, o) ==
    /\ rowOf[c].here /\ rowOf[c].decided = "none"
    /\ MarkDecided(RefOf[c], o)
    /\ UNCHANGED <<stream, online, feedList, listed, reads, feedTap, taps, away>>

\* dismissMessage: the notifications of the thing, never a question
MarkDismissed(ref) ==
    Write([c \in FeedCards |->
              IF rowOf[c].here /\ RefOf[c] = ref /\ KindOf[c] = "notification"
              THEN [rowOf[c] EXCEPT !.gone = TRUE] ELSE rowOf[c]])

Publish ==
    \E n \in news :
        /\ news' = news \ {n}
        /\ stream' = [d \in Phones |-> IF online[d] THEN Append(stream[d], n) ELSE stream[d]]
        /\ UNCHANGED <<rowOf, online, feedList, listed, reads, feedTap, taps, away>>

-----------------------------------------------------------------------------
(* The phone: rows that arrive                                              *)

\* a frame is merged into the list and has the queue asked for again
Deliver(d) ==
    /\ stream[d] # <<>>
    /\ LET n == Head(stream[d]) IN feedList' = [feedList EXCEPT ![d][n.card] = n.row]
    /\ stream' = [stream EXCEPT ![d] = Tail(@)]
    /\ reads' = [reads EXCEPT ![d] = @ \cup {Get("queue")}]
    /\ UNCHANGED <<rowOf, news, online, listed, feedTap, taps, away>>

StreamBreaks(d) ==
    /\ online[d] /\ away < MaxAway /\ away' = away + 1
    /\ online' = [online EXCEPT ![d] = FALSE] /\ stream' = [stream EXCEPT ![d] = <<>>]
    /\ UNCHANGED <<rowOf, news, feedList, listed, reads, feedTap, taps>>

\* connect, after a delay; what was missed is not asked for
Reconnect(d) ==
    /\ ~online[d] /\ online' = [online EXCEPT ![d] = TRUE]
    /\ UNCHANGED <<rowOf, news, stream, feedList, listed, reads, feedTap, taps, away>>

\* Mutant of Foreground: an app that was away counts on its stream for the list.
ForegroundQueueOnly(d) ==
    /\ reads' = [reads EXCEPT ![d] = @ \cup {Get("queue")}]
    /\ UNCHANGED <<rowOf, news, stream, online, feedList, listed, feedTap, taps, away>>

\* onVisible
Foreground(d) ==
    /\ reads' = [reads EXCEPT ![d] = @ \cup {Get("list"), Get("queue")}]
    /\ UNCHANGED <<rowOf, news, stream, online, feedList, listed, feedTap, taps, away>>

ServeRead(d, kind) ==
    \E r \in reads[d] :
        /\ ~r.served /\ r.kind = kind
        /\ Cardinality({q \in reads[d] : q.served /\ q.kind = kind}) < MaxAnswered
        /\ reads' = [reads EXCEPT ![d] = (@ \ {r}) \cup {[r EXCEPT !.served = TRUE, !.body = rowOf]}]
        /\ UNCHANGED <<rowOf, news, stream, online, feedList, listed, feedTap, taps, away>>

\* loadFirst replaces the list, loadAttention the queue, with whatever was read
ReadReturns(d, kind) ==
    \E r \in reads[d] :
        /\ r.served /\ r.kind = kind
        /\ reads' = [reads EXCEPT ![d] = @ \ {r}]
        /\ IF kind = "list"
           THEN feedList' = [feedList EXCEPT ![d] = r.body] /\ UNCHANGED listed
           ELSE listed' = [listed EXCEPT ![d] = Pending(r.body)] /\ UNCHANGED feedList
        /\ UNCHANGED <<rowOf, news, stream, online, feedTap, taps, away>>

LoseRead(d) ==
    \E r \in reads[d] :
        /\ away < MaxAway /\ away' = away + 1
        /\ reads' = [reads EXCEPT ![d] = @ \ {r}]
        /\ UNCHANGED <<rowOf, news, stream, online, feedList, listed, feedTap, taps>>

-----------------------------------------------------------------------------
(* The phone: taps                                                          *)

OnScreen(d, c) == c \in listed[d] \/ feedList[d][c].here

\* the choice is painted at once
TapDecide(d, c, o) ==
    /\ feedTap[d] = NoFeedTap /\ taps < MaxTaps /\ taps' = taps + 1
    /\ OnScreen(d, c) /\ feedList[d][c].decided = "none"
    /\ feedList' = IF feedList[d][c].here THEN [feedList EXCEPT ![d][c].decided = o] ELSE feedList
    /\ feedTap' = [feedTap EXCEPT ![d] =
           [NoFeedTap EXCEPT !.at = "sent", !.kind = "decide", !.card = c, !.option = o]]
    /\ UNCHANGED <<rowOf, news, stream, online, listed, reads, away>>

\* removeFromQueue: the cards about the same thing leave at once
TapDismiss(d, c) ==
    /\ feedTap[d] = NoFeedTap /\ taps < MaxTaps /\ taps' = taps + 1
    /\ c \in listed[d] /\ KindOf[c] = "notification"
    /\ listed' = [listed EXCEPT ![d] = {k \in @ : RefOf[k] # RefOf[c]}]
    /\ feedTap' = [feedTap EXCEPT ![d] =
           [NoFeedTap EXCEPT !.at = "sent", !.kind = "dismiss", !.card = c, !.kept = listed[d]]]
    /\ UNCHANGED <<rowOf, news, stream, online, feedList, reads, away>>

Heard(d, at) == feedTap' = [feedTap EXCEPT ![d].at = at, ![d].row = rowOf'[feedTap[d].card]]

\* POST /api/decisions: a card decided before takes the same option again and
\* refuses another; POST /api/dismiss dismisses whatever is left
ServeTap(d) ==
    /\ feedTap[d].at = "sent"
    /\ LET c == feedTap[d].card
           o == feedTap[d].option
       IN \/ /\ feedTap[d].kind = "decide" /\ rowOf[c].decided # "none"
             /\ UNCHANGED <<rowOf, news>>
             /\ Heard(d, IF rowOf[c].decided = o THEN "done" ELSE "refused")
          \/ /\ feedTap[d].kind = "decide" /\ rowOf[c].decided = "none"
             /\ MarkDecided(RefOf[c], o) /\ Heard(d, "done")
          \/ /\ feedTap[d].kind = "dismiss"
             /\ MarkDismissed(RefOf[c]) /\ Heard(d, "done")
    /\ UNCHANGED <<stream, online, feedList, listed, reads, taps, away>>

\* the request, or its answer, is lost
LoseTap(d) ==
    /\ feedTap[d].at \in {"sent", "done"} /\ away < MaxAway /\ away' = away + 1
    /\ feedTap' = [feedTap EXCEPT ![d].at = "refused"]
    /\ UNCHANGED <<rowOf, news, stream, online, feedList, listed, reads, taps>>

TapDone(d) ==
    /\ feedTap[d].at = "done"
    /\ feedTap' = [feedTap EXCEPT ![d] = NoFeedTap]
    /\ feedList' = IF feedTap[d].kind = "decide"
                   THEN [feedList EXCEPT ![d][feedTap[d].card] = feedTap[d].row] ELSE feedList
    /\ reads' = [reads EXCEPT ![d] = @ \cup {Get("queue")}]
    /\ UNCHANGED <<rowOf, news, stream, online, listed, taps, away>>

\* what was there before the tap is put back, whatever has arrived since
TapRefused(d) ==
    /\ feedTap[d].at = "refused"
    /\ feedTap' = [feedTap EXCEPT ![d] = NoFeedTap]
    /\ \/ /\ feedTap[d].kind = "decide" /\ UNCHANGED listed
          /\ feedList' = IF feedList[d][feedTap[d].card].here
                      THEN [feedList EXCEPT ![d][feedTap[d].card].decided = "none"] ELSE feedList
       \/ /\ feedTap[d].kind = "dismiss" /\ UNCHANGED feedList
          /\ listed' = [listed EXCEPT ![d] = feedTap[d].kept]
    /\ UNCHANGED <<rowOf, news, stream, online, reads, taps, away>>

-----------------------------------------------------------------------------
AppFeedNext ==
    \/ \E c \in FeedCards : PostRow(c) \/ \E o \in FeedOptions : DecideElsewhere(c, o)
    \/ Publish
    \/ \E d \in Phones :
        \/ Deliver(d) \/ StreamBreaks(d) \/ Reconnect(d) \/ Foreground(d)
        \/ (\E kind \in {"list", "queue"} : ServeRead(d, kind) \/ ReadReturns(d, kind))
        \/ LoseRead(d)
        \/ (\E c \in FeedCards : TapDismiss(d, c) \/ \E o \in FeedOptions : TapDecide(d, c, o))
        \/ ServeTap(d) \/ LoseTap(d) \/ TapDone(d) \/ TapRefused(d)

AppFeedFairness ==
    /\ WF_feedVars(Publish)
    /\ \A d \in Phones :
        /\ WF_feedVars(Deliver(d)) /\ WF_feedVars(Reconnect(d))
        /\ \A kind \in {"list", "queue"} :
            WF_feedVars(ServeRead(d, kind)) /\ WF_feedVars(ReadReturns(d, kind))
        /\ WF_feedVars(ServeTap(d)) /\ WF_feedVars(TapDone(d)) /\ WF_feedVars(TapRefused(d))

AppFeedSpec == AppFeedInit /\ [][AppFeedNext]_feedVars
AppFeedFairSpec == AppFeedSpec /\ AppFeedFairness

-----------------------------------------------------------------------------
\* The values the rows and the phones may hold.
FeedRows == [decided : FeedOptions \cup {"none"}, gone : BOOLEAN, here : BOOLEAN]
Frames == [card : FeedCards, row : FeedRows]
AppFeedTypeOK ==
    /\ rowOf \in [FeedCards -> FeedRows] /\ news \subseteq Frames
    /\ stream \in [Phones -> Seq(Frames)] /\ online \in [Phones -> BOOLEAN]
    /\ feedList \in [Phones -> [FeedCards -> FeedRows]] /\ listed \in [Phones -> SUBSET FeedCards]
    /\ reads \in [Phones -> SUBSET [kind : {"list", "queue"}, served : BOOLEAN,
                                   body : [FeedCards -> FeedRows]]]
    /\ feedTap \in [Phones -> [at : {"none", "sent", "done", "refused"},
                              kind : {"none", "decide", "dismiss"}, card : FeedCards \cup {"none"},
                              option : FeedOptions \cup {"none"}, kept : SUBSET FeedCards, row : FeedRows]]
    /\ taps \in 0..MaxTaps /\ away \in 0..MaxAway

\* A phone that is taken out again and again ends up showing what the server has,
\* in its list and in its queue, whatever streams broke, answers came late and
\* taps were put back in between.
Agrees(d) == feedList[d] = rowOf /\ listed[d] = Pending(rowOf)
AppCatchesUp ==
    (\A d \in Phones : []<><<Foreground(d)>>_feedVars) => <>[](\A d \in Phones : Agrees(d))

================================================================================
