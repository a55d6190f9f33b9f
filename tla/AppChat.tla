-------------------------------- MODULE AppChat --------------------------------
(***************************************************************************)
(* The founder's chat about one customer: the sessions of                    *)
(* adapters/founder-app/founder-app-repo.ts, the routes that answer a        *)
(* question and start afresh (founder-app.router.ts), and the thread a phone *)
(* shows (app/src/ConversationChat.tsx).                                     *)
(*                                                                         *)
(* One session of a scope is active at a time.  A question is answered by a  *)
(* model between the reading of the session's turns and the writing of the   *)
(* exchange; "New chat" may be tapped on any phone meanwhile.                *)
(***************************************************************************)
EXTENDS Naturals, Sequences, FiniteSets

CONSTANTS
    Handsets,      \* phones
    PageTurns,     \* exchanges in a page
    MaxQuestions,  \* bound of the model
    MaxResets,     \* bound of the model: "New chat" tapped
    MaxFetches     \* bound of the model: pages asked for by live rows

ASSUME AppChatAssumption == PageTurns \in Nat \ {0} /\ MaxQuestions \in Nat

VARIABLES
    sessions,   \* founder_app_chat_sessions, the last one active; each the
                \* exchanges stored in it, with the session whose turns they drew on
    thread,     \* each phone: the session, the rows and the cursor it has
    pages,      \* its GETs in flight
    asking,     \* its question in flight
    fresh,      \* its reset in flight
    counts      \* questions, resets and fetches so far

chatVars == <<sessions, thread, pages, asking, fresh, counts>>

NoCursor == <<0, 0>>
NoThread == [session |-> 0, rows |-> {}, cursor |-> NoCursor]
NoQuestion == [at |-> "none", session |-> 0, drew |-> 0, rows |-> {}]
NoPage == NoThread

\* the session is there from the first use on
AppChatInit ==
    /\ sessions = << <<>> >>
    /\ thread = [d \in Handsets |-> NoThread]
    /\ pages = [d \in Handsets |->
            {[kind |-> "mount", from |-> 0, before |-> NoCursor, served |-> FALSE, page |-> NoPage]}]
    /\ asking = [d \in Handsets |-> NoQuestion]
    /\ fresh = [d \in Handsets |-> 0]
    /\ counts = [questions |-> 0, resets |-> 0, fetches |-> 0]

\* getOrCreateChatSession
Active == Len(sessions)

\* listChatMessages: the page of a session's exchanges before a cursor, and the cursor
\* of the next one.  A cursor is a time: one of an earlier session precedes them all.
PageOf(s, before) ==
    LET top == IF before = NoCursor \/ before[1] > s THEN Len(sessions[s])
               ELSE IF before[1] = s THEN before[2] - 1 ELSE 0
        low == IF top > PageTurns THEN top - PageTurns + 1 ELSE 1
    IN [session |-> s, rows |-> {<<s, i>> : i \in low..top},
        cursor |-> IF low > 1 THEN <<s, low>> ELSE NoCursor]

-----------------------------------------------------------------------------
(* The routes                                                               *)

\* GET /api/chat: the active session's page, whatever session the cursor is of
ServePage(d) ==
    \E p \in pages[d] :
        /\ ~p.served
        /\ pages' = [pages EXCEPT ![d] = (@ \ {p}) \cup
              {[p EXCEPT !.served = TRUE, !.page = PageOf(Active, p.before)]}]
        /\ UNCHANGED <<sessions, thread, asking, fresh, counts>>

\* POST /api/messages: the active session and its recent turns are read
ReadTurns(d) ==
    /\ asking[d].at = "sent"
    /\ asking' = [asking EXCEPT ![d].session = Active, ![d].drew = Active, ![d].at = "answering"]
    /\ UNCHANGED <<sessions, thread, pages, fresh, counts>>

\* Mutant of StoreExchange: the exchange goes where the chat is by now.
StoreInActive(d) ==
    /\ asking[d].at = "answering"
    /\ sessions' = [sessions EXCEPT ![Active] = Append(@, asking[d].drew)]
    /\ asking' = [asking EXCEPT ![d].at = "stored", ![d].rows = {<<Active, Len(sessions'[Active])>>}]
    /\ UNCHANGED <<thread, pages, fresh, counts>>

\* insertChatExchange: question and answer together, in the session they were read
\* from, ended or not
StoreExchange(d) ==
    /\ asking[d].at = "answering"
    /\ LET s == asking[d].session IN
        /\ sessions' = [sessions EXCEPT ![s] = Append(@, asking[d].drew)]
        /\ asking' = [asking EXCEPT ![d].at = "stored", ![d].rows = {<<s, Len(sessions'[s])>>}]
    /\ UNCHANGED <<thread, pages, fresh, counts>>

\* the model fails, or the answer is lost: the row stays, no longer pending
QuestionFails(d) ==
    /\ asking[d].at \in {"sent", "answering", "stored"}
    /\ asking' = [asking EXCEPT ![d] = NoQuestion]
    /\ UNCHANGED <<sessions, thread, pages, fresh, counts>>

\* resetChatSession
ServeReset(d) ==
    /\ fresh[d] = 1
    /\ sessions' = Append(sessions, <<>>)
    /\ fresh' = [fresh EXCEPT ![d] = Len(sessions) + 1]
    /\ UNCHANGED <<thread, pages, asking, counts>>

-----------------------------------------------------------------------------
(* The phone                                                                *)

\* a live row has the first page asked for again
Refetch(d) ==
    /\ counts.fetches < MaxFetches /\ counts' = [counts EXCEPT !.fetches = @ + 1]
    /\ pages' = [pages EXCEPT ![d] = @ \cup
          {[kind |-> "first", from |-> 0, before |-> NoCursor, served |-> FALSE, page |-> NoPage]}]
    /\ UNCHANGED <<sessions, thread, asking, fresh>>

\* loadOlder remembers the conversation of the screen it was tapped on
LoadOlder(d) ==
    /\ thread[d].cursor # NoCursor /\ \A p \in pages[d] : p.kind # "older"
    /\ pages' = [pages EXCEPT ![d] = @ \cup
          {[kind |-> "older", from |-> thread[d].session, before |-> thread[d].cursor,
            served |-> FALSE, page |-> NoPage]}]
    /\ UNCHANGED <<sessions, thread, asking, fresh, counts>>

Loading(d) == \E p \in pages[d] : p.kind = "mount"

Send(d) ==
    /\ asking[d] = NoQuestion /\ fresh[d] = 0 /\ ~Loading(d)
    /\ counts.questions < MaxQuestions /\ counts' = [counts EXCEPT !.questions = @ + 1]
    /\ asking' = [asking EXCEPT ![d].at = "sent"]
    /\ UNCHANGED <<sessions, thread, pages, fresh>>

NewChat(d) ==
    /\ asking[d] = NoQuestion /\ fresh[d] = 0
    /\ counts.resets < MaxResets /\ counts' = [counts EXCEPT !.resets = @ + 1]
    /\ fresh' = [fresh EXCEPT ![d] = 1]
    /\ UNCHANGED <<sessions, thread, pages, asking>>

\* merge: what is on the screen stays, what has arrived is added
Merged(d, page, cursor) ==
    [session |-> thread[d].session, rows |-> thread[d].rows \cup page.rows, cursor |-> cursor]

\* applyFirstPage replaces when asked to or when the conversation has changed and
\* else merges under the cursor there is; loadOlder merges under the page's
PageArrives(d) ==
    \E p \in pages[d] :
        /\ p.served
        /\ pages' = [pages EXCEPT ![d] = @ \ {p}]
        /\ thread' = [thread EXCEPT ![d] =
              IF p.kind = "mount" THEN p.page
              ELSE IF p.kind = "first"
              THEN IF thread[d].session \in {0, p.page.session}
                   THEN [Merged(d, p.page, thread[d].cursor) EXCEPT !.session = p.page.session]
                   ELSE p.page
              ELSE IF p.page.session # p.from THEN p.page
                   ELSE Merged(d, p.page, p.page.cursor)]
        /\ UNCHANGED <<sessions, asking, fresh, counts>>

PageFails(d) ==
    \E p \in pages[d] :
        /\ pages' = [pages EXCEPT ![d] = @ \ {p}]
        /\ thread' = IF p.kind = "mount"
                     THEN [thread EXCEPT ![d].rows = {}, ![d].cursor = NoCursor] ELSE thread
        /\ UNCHANGED <<sessions, asking, fresh, counts>>

\* the rows are merged into their own conversation and replace another one
AnswerShown(d) ==
    /\ asking[d].at = "stored"
    /\ LET s == asking[d].session IN
       thread' = [thread EXCEPT ![d] =
            IF @.session = s THEN [thread[d] EXCEPT !.rows = @ \cup asking[d].rows]
            ELSE [session |-> s, rows |-> asking[d].rows, cursor |-> NoCursor]]
    /\ asking' = [asking EXCEPT ![d] = NoQuestion]
    /\ UNCHANGED <<sessions, pages, fresh, counts>>

ResetShown(d) ==
    /\ fresh[d] > 1
    /\ thread' = [thread EXCEPT ![d] = [session |-> fresh[d], rows |-> {}, cursor |-> NoCursor]]
    /\ fresh' = [fresh EXCEPT ![d] = 0]
    /\ UNCHANGED <<sessions, pages, asking, counts>>

\* the request, or its answer, is lost
ResetFails(d) ==
    /\ fresh[d] # 0 /\ fresh' = [fresh EXCEPT ![d] = 0]
    /\ UNCHANGED <<sessions, thread, pages, asking, counts>>

-----------------------------------------------------------------------------
AppChatNext ==
    \E d \in Handsets :
        \/ ServePage(d) \/ ReadTurns(d) \/ StoreExchange(d) \/ QuestionFails(d) \/ ServeReset(d)
        \/ Refetch(d) \/ LoadOlder(d) \/ Send(d) \/ NewChat(d)
        \/ PageArrives(d) \/ PageFails(d) \/ AnswerShown(d)
        \/ ResetShown(d) \/ ResetFails(d)

AppChatSpec == AppChatInit /\ [][AppChatNext]_chatVars

-----------------------------------------------------------------------------
\* The values the threads and the requests may hold.
AppChatTypeOK ==
    \A d \in Handsets : /\ thread[d].session \in 0..Len(sessions)
                        /\ fresh[d] \in 0..Len(sessions) + 1
                        /\ asking[d].session \in 0..Len(sessions)

\* A fresh chat is fresh: no exchange stored in it drew on the turns of another
\* session, whichever phone started it while a question was being answered.
FreshStart ==
    \A s \in DOMAIN sessions : \A i \in DOMAIN sessions[s] : sessions[s][i] = s

================================================================================
