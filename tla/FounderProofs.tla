---------------------------- MODULE FounderProofs -----------------------------
(***************************************************************************)
(* Theorems about the founder's side, of which MCParts and MCFounderLive   *)
(* check the properties: the chats of the app and their meeting drafts     *)
(* (AppChat, MeetingDraft), its calendar (DayView), its feed (AppFeed), and *)
(* the stores that the Telegram bot and the app share (FounderSurface).    *)
(* The parts share no variable, and each has its own invariant below.      *)
(***************************************************************************)
EXTENDS
    AppChat, MeetingDraft, DayView, FounderSurface, AppFeed,
    FiniteSetTheorems, WellFoundedInduction, TLAPS

-----------------------------------------------------------------------------
(* AppChat.                                                                  *)

Asks == [at : {"none", "sent", "answering", "stored"}, session : Nat, drew : Nat,
         rows : SUBSET (Nat \X Nat)]

\* The inductive invariant: an exchange that is on its way was read from the session
\* it will be stored in, and that session is there.
ChatInv ==
    /\ sessions \in Seq(Seq(Nat)) /\ Len(sessions) > 0
    /\ asking \in [Handsets -> Asks]
    /\ \A d \in Handsets : asking[d].at = "answering" =>
            asking[d].session \in DOMAIN sessions /\ asking[d].drew = asking[d].session
    /\ FreshStart

\* Every step keeps the chats apart.
LEMMA ChatStep ==
    ASSUME ChatInv, AppChatNext
    PROVE  ChatInv'
<1>0. /\ sessions \in Seq(Seq(Nat)) /\ Len(sessions) \in Nat \ {0}
      /\ DOMAIN sessions = 1..Len(sessions) /\ asking \in [Handsets -> Asks]
      /\ Active \in DOMAIN sessions /\ Active \in Nat
  BY DEF ChatInv, Active
<1>1. ASSUME UNCHANGED <<sessions, asking>> PROVE ChatInv'
  BY <1>1 DEF ChatInv, FreshStart
\* A question that is not being answered.
<1>2. ASSUME UNCHANGED sessions, NEW d \in Handsets, NEW q \in Asks, q.at # "answering",
             asking' = [asking EXCEPT ![d] = q]
      PROVE  ChatInv'
  <2>1. /\ asking' \in [Handsets -> Asks] /\ asking'[d] = q
        /\ \A e \in Handsets \ {d} : asking'[e] = asking[e]
    BY <1>0, <1>2
  <2> QED
    BY <1>2, <2>1 DEF ChatInv, FreshStart
<1>3. NoQuestion \in Asks /\ NoQuestion.at = "none"
  BY DEF NoQuestion, Asks
<1>4. ASSUME NEW d \in Handsets,
             \/ ServePage(d) \/ Refetch(d) \/ LoadOlder(d) \/ NewChat(d) \/ PageArrives(d)
             \/ PageFails(d) \/ ResetShown(d) \/ ResetFails(d)
      PROVE  ChatInv'
  BY <1>1, <1>4 DEF ServePage, Refetch, LoadOlder, NewChat, PageArrives, PageFails,
                    ResetShown, ResetFails
<1>5. ASSUME NEW d \in Handsets, QuestionFails(d) \/ AnswerShown(d)
      PROVE  ChatInv'
  BY <1>2, <1>3, <1>5 DEF QuestionFails, AnswerShown
<1>6. ASSUME NEW d \in Handsets, Send(d)
      PROVE  ChatInv'
  <2> DEFINE q == [asking[d] EXCEPT !.at = "sent"]
  <2>1. q \in Asks /\ q.at = "sent"
    BY <1>0 DEF Asks
  <2>2. asking' = [asking EXCEPT ![d] = q] /\ UNCHANGED sessions
    BY <1>0, <1>6 DEF Send
  <2> HIDE DEF q
  <2> QED
    BY <1>2, <2>1, <2>2
<1>7. ASSUME NEW d \in Handsets, ReadTurns(d)
      PROVE  ChatInv'
  <2> DEFINE q == [asking[d] EXCEPT !.session = Active, !.drew = Active, !.at = "answering"]
  <2>1. q \in Asks /\ q.session = Active /\ q.drew = Active
    BY <1>0 DEF Asks
  <2>2. asking' = [asking EXCEPT ![d] = q] /\ UNCHANGED sessions
    BY <1>0, <1>7 DEF ReadTurns
  <2> HIDE DEF q
  <2>3. /\ asking' \in [Handsets -> Asks] /\ asking'[d] = q
        /\ \A e \in Handsets \ {d} : asking'[e] = asking[e]
    BY <1>0, <2>1, <2>2
  <2> QED
    BY <1>0, <2>1, <2>2, <2>3 DEF ChatInv, FreshStart
<1>8. ASSUME NEW d \in Handsets, StoreExchange(d)
      PROVE  ChatInv'
  <2> DEFINE s == asking[d].session
             told == Append(sessions[s], asking[d].drew)
             i == Len(sessions'[s])
             q == [asking[d] EXCEPT !.at = "stored", !.rows = {<<s, i>>}]
  <2>1. s \in DOMAIN sessions /\ asking[d].drew = s /\ s \in Nat
    BY <1>0, <1>8 DEF StoreExchange, ChatInv
  <2>2. sessions[s] \in Seq(Nat) /\ told \in Seq(Nat) /\ sessions' = [sessions EXCEPT ![s] = told]
    BY <1>0, <1>8, <2>1 DEF StoreExchange
  <2>3. /\ sessions' \in Seq(Seq(Nat)) /\ DOMAIN sessions' = DOMAIN sessions
        /\ Len(sessions') = Len(sessions) /\ sessions'[s] = told
        /\ \A r \in DOMAIN sessions \ {s} : sessions'[r] = sessions[r]
    BY <1>0, <2>1, <2>2
  <2>4. \A r \in DOMAIN sessions' : \A n \in DOMAIN sessions'[r] : sessions'[r][n] = r
    <3>1. \A n \in DOMAIN sessions[s] : sessions[s][n] = s
      BY <2>1 DEF ChatInv, FreshStart
    <3>2. \A n \in DOMAIN told : told[n] = s
      BY <2>1, <2>2, <3>1
    <3> QED
      BY <2>3, <3>2 DEF ChatInv, FreshStart
  <2>5. i \in Nat
    BY <2>2, <2>3
  <2>6. asking' = [asking EXCEPT ![d] = q]
    BY <1>0, <1>8 DEF StoreExchange
  <2> HIDE DEF i
  <2> DEFINE rows == {<<s, i>>}
  <2>7. q \in Asks /\ q.at = "stored"
    <3>1. rows \in SUBSET (Nat \X Nat)
      BY <2>1, <2>5
    <3> HIDE DEF rows
    <3>2. [asking[d] EXCEPT !.at = "stored", !.rows = rows] \in Asks
      BY <1>0, <3>1 DEF Asks
    <3>3. [asking[d] EXCEPT !.at = "stored", !.rows = rows].at = "stored"
      BY <1>0 DEF Asks
    <3> QED
      BY <3>2, <3>3 DEF rows
  <2> HIDE DEF s, q, told
  <2>8. /\ asking' \in [Handsets -> Asks] /\ asking'[d] = q
        /\ \A e \in Handsets \ {d} : asking'[e] = asking[e]
    BY <1>0, <2>6, <2>7
  <2> QED
    BY <2>3, <2>4, <2>7, <2>8 DEF ChatInv, FreshStart
<1>9. ASSUME NEW d \in Handsets, ServeReset(d)
      PROVE  ChatInv'
  <2>1. sessions' = Append(sessions, <<>>) /\ UNCHANGED asking
    BY <1>9 DEF ServeReset
  <2>2. /\ sessions' \in Seq(Seq(Nat)) /\ DOMAIN sessions' = 1..(Len(sessions) + 1)
        /\ Len(sessions') = Len(sessions) + 1 /\ sessions'[Len(sessions) + 1] = <<>>
        /\ \A r \in DOMAIN sessions : sessions'[r] = sessions[r]
    BY <1>0, <2>1
  <2>3. FreshStart'
    <3> SUFFICES ASSUME NEW r \in DOMAIN sessions', NEW n \in DOMAIN sessions'[r]
                 PROVE  sessions'[r][n] = r
      BY DEF FreshStart
    <3>1. r \in DOMAIN sessions
      BY <1>0, <2>2
    <3> QED
      BY <2>2, <3>1 DEF ChatInv, FreshStart
  <2> QED
    BY <1>0, <2>1, <2>2, <2>3 DEF ChatInv
<1> QED
  BY <1>4, <1>5, <1>6, <1>7, <1>8, <1>9 DEF AppChatNext

\* ChatInv is an invariant.
LEMMA ChatInductive == AppChatSpec => []ChatInv
<1>1. AppChatInit => ChatInv
  <2> SUFFICES ASSUME AppChatInit PROVE ChatInv
    OBVIOUS
  <2>1. NoQuestion \in Asks /\ NoQuestion.at = "none"
    BY DEF NoQuestion, Asks
  <2>2. sessions = << <<>> >> /\ <<>> \in Seq(Nat)
    BY DEF AppChatInit
  <2>3. sessions \in Seq(Seq(Nat)) /\ Len(sessions) = 1 /\ sessions[1] = <<>>
    BY <2>2
  <2> QED
    BY <2>1, <2>2, <2>3 DEF AppChatInit, ChatInv, FreshStart
<1>2. ChatInv /\ [AppChatNext]_chatVars => ChatInv'
  <2>1. CASE AppChatNext
    BY <2>1, ChatStep
  <2>2. CASE UNCHANGED chatVars
    BY <2>2 DEF chatVars, ChatInv, FreshStart
  <2> QED
    BY <2>1, <2>2
<1> QED
  BY <1>1, <1>2, PTL DEF AppChatSpec

\* No exchange of a chat drew on another chat's turns, however many phones ask, start
\* afresh and lose answers at once.
THEOREM ChatsStayFresh ==
    AppChatSpec => []FreshStart
<1>1. ChatInv => FreshStart
  BY DEF ChatInv
<1> QED
  BY <1>1, ChatInductive, PTL

Pages == [session : Nat, rows : SUBSET (Nat \X Int), cursor : Nat \X Nat]
PageReads == [kind : {"mount", "first", "older"}, from : Nat, before : Nat \X Nat,
              served : BOOLEAN, page : Pages]

\* The threads on the screens, the pages on their way, the questions and the new chats are
\* of sessions that are there.
ThreadsSound == thread \in [Handsets -> Pages] /\ \A d \in Handsets : thread[d].session <= Len(sessions)
PagesSound == /\ pages \in [Handsets -> SUBSET PageReads]
              /\ \A d \in Handsets : \A p \in pages[d] : p.page.session <= Len(sessions)
AskingSound == \A d \in Handsets : asking[d].session <= Len(sessions)
FreshSound == fresh \in [Handsets -> Nat] /\ \A d \in Handsets : fresh[d] <= Len(sessions)
ThreadInv == ThreadsSound /\ PagesSound /\ AskingSound /\ FreshSound

\* A page is of the session that was asked for.
LEMMA PageIs ==
    ASSUME ChatInv, NEW before \in Nat \X Nat
    PROVE  PageOf(Active, before) \in Pages /\ PageOf(Active, before).session = Active
<1> DEFINE top == IF before = NoCursor \/ before[1] > Active THEN Len(sessions[Active])
                  ELSE IF before[1] = Active THEN before[2] - 1 ELSE 0
           low == IF top > PageTurns THEN top - PageTurns + 1 ELSE 1
           cursor == IF low > 1 THEN <<Active, low>> ELSE NoCursor
           page == [session |-> Active, rows |-> {<<Active, i>> : i \in low..top}, cursor |-> cursor]
<1>1. Active \in Nat /\ Active \in DOMAIN sessions
  BY DEF ChatInv, Active
<1>2. Len(sessions[Active]) \in Nat
  BY <1>1 DEF ChatInv
<1>3. top \in Int
  BY <1>2
<1> HIDE DEF top
<1>4. low \in Nat
  BY <1>3, AppChatAssumption
<1> HIDE DEF low
<1>5. cursor \in Nat \X Nat /\ {<<Active, i>> : i \in low..top} \in SUBSET (Nat \X Int)
  BY <1>1, <1>3, <1>4 DEF NoCursor
<1> HIDE DEF cursor
<1>6. page \in Pages /\ page.session = Active
  BY <1>1, <1>5 DEF Pages
<1>7. PageOf(Active, before) = page
  BY DEF PageOf, page, cursor, low, top
<1> QED
  BY <1>6, <1>7

\* What a step puts on one phone's screen or on its way.
LEMMA ThreadMoves ==
    ASSUME ChatInv, ThreadInv, NEW d \in Handsets, Len(sessions') = Len(sessions)
    PROVE  /\ UNCHANGED thread => ThreadsSound'
           /\ UNCHANGED pages => PagesSound'
           /\ UNCHANGED asking => AskingSound'
           /\ UNCHANGED fresh => FreshSound'
           /\ \A t \in Pages : /\ t.session <= Len(sessions) /\ thread' = [thread EXCEPT ![d] = t]
                               => ThreadsSound'
           /\ \A p \in PageReads : /\ p.page.session <= Len(sessions)
                                   /\ pages' = [pages EXCEPT ![d] = @ \cup {p}]
                                   => PagesSound'
           /\ \A p : pages' = [pages EXCEPT ![d] = @ \ {p}] => PagesSound'
           /\ \A q \in Asks : /\ q.session <= Len(sessions) /\ asking' = [asking EXCEPT ![d] = q]
                              => AskingSound'
           /\ \A f \in Nat : /\ f <= Len(sessions) /\ fresh' = [fresh EXCEPT ![d] = f]
                             => FreshSound'
<1>1. \A t \in Pages : /\ t.session <= Len(sessions) /\ thread' = [thread EXCEPT ![d] = t]
                      => ThreadsSound'
  BY DEF ThreadInv, ThreadsSound
<1>2. ASSUME NEW P \in SUBSET PageReads, \A p \in P : p.page.session <= Len(sessions),
             pages' = [pages EXCEPT ![d] = P]
      PROVE  PagesSound'
  BY <1>2 DEF ThreadInv, PagesSound
<1>3. \A p \in PageReads : /\ p.page.session <= Len(sessions) /\ pages' = [pages EXCEPT ![d] = @ \cup {p}]
                          => PagesSound'
  BY <1>2 DEF ThreadInv, PagesSound
<1>4. \A p : pages' = [pages EXCEPT ![d] = @ \ {p}] => PagesSound'
  BY <1>2 DEF ThreadInv, PagesSound
<1>5. \A q \in Asks : /\ q.session <= Len(sessions) /\ asking' = [asking EXCEPT ![d] = q]
                     => AskingSound'
  BY DEF ThreadInv, AskingSound, ChatInv
<1>6. \A f \in Nat : /\ f <= Len(sessions) /\ fresh' = [fresh EXCEPT ![d] = f] => FreshSound'
  BY DEF ThreadInv, FreshSound
<1>7. /\ UNCHANGED thread => ThreadsSound'
      /\ UNCHANGED pages => PagesSound'
      /\ UNCHANGED asking => AskingSound'
      /\ UNCHANGED fresh => FreshSound'
  BY DEF ThreadInv, ThreadsSound, PagesSound, AskingSound, FreshSound
<1> QED
  BY <1>1, <1>3, <1>4, <1>5, <1>6, <1>7

LEMMA ThreadFacts ==
    ASSUME ChatInv, ThreadInv, NEW d \in Handsets
    PROVE  /\ Len(sessions) \in Nat \ {0}
           /\ thread[d] \in Pages /\ thread[d].session <= Len(sessions)
           /\ asking[d] \in Asks /\ asking[d].session <= Len(sessions)
           /\ fresh[d] \in Nat /\ fresh[d] <= Len(sessions)
           /\ \A p \in pages[d] : /\ p \in PageReads /\ p.page \in Pages /\ p.before \in Nat \X Nat
                                  /\ p.page.session <= Len(sessions)
           /\ NoThread \in Pages /\ NoThread.session = 0 /\ NoCursor \in Nat \X Nat
           /\ NoQuestion \in Asks /\ NoQuestion.session = 0
<1>1. /\ NoThread \in Pages /\ NoThread.session = 0 /\ NoCursor \in Nat \X Nat
      /\ NoQuestion \in Asks /\ NoQuestion.session = 0
  BY DEF NoThread, NoQuestion, NoCursor, Pages, Asks
<1>2. Len(sessions) \in Nat \ {0} /\ asking[d] \in Asks
  BY DEF ChatInv
<1>3. \A p \in pages[d] : p \in PageReads /\ p.page.session <= Len(sessions)
  BY DEF ThreadInv, PagesSound
<1>4. \A p \in PageReads : p.page \in Pages /\ p.before \in Nat \X Nat
  BY DEF PageReads
<1> QED
  BY <1>1, <1>2, <1>3, <1>4 DEF ThreadInv, ThreadsSound, AskingSound, FreshSound

\* The pages: asked for, served and shown.
LEMMA PageSteps ==
    ASSUME ChatInv, ThreadInv, NEW d \in Handsets,
           ServePage(d) \/ Refetch(d) \/ LoadOlder(d) \/ PageArrives(d) \/ PageFails(d)
    PROVE  ThreadInv'
<1>0. UNCHANGED <<sessions, asking, fresh>>
  BY DEF ServePage, Refetch, LoadOlder, PageArrives, PageFails
<1>1. AskingSound' /\ FreshSound'
  BY <1>0, ThreadMoves
<1>2. CASE ServePage(d)
  <2>1. PICK p \in pages[d] :
            pages' = [pages EXCEPT ![d] = (@ \ {p}) \cup
                {[p EXCEPT !.served = TRUE, !.page = PageOf(Active, p.before)]}]
    BY <1>2 DEF ServePage
  <2>2. p \in PageReads
    BY ThreadFacts
  <2>3. PICK t \in Pages : t = PageOf(Active, p.before) /\ t.session = Len(sessions)
    BY ThreadFacts, PageIs DEF Active
  <2> DEFINE r == [p EXCEPT !.served = TRUE, !.page = t]
  <2>4. r \in PageReads /\ r.page = t
    BY <2>2 DEF PageReads
  <2>5. pages' = [pages EXCEPT ![d] = (pages[d] \ {p}) \cup {r}]
    BY <2>1, <2>3
  <2> HIDE DEF r
  <2>6. r.page.session <= Len(sessions)
    BY <2>3, <2>4, ThreadFacts
  <2>7. PagesSound'
    BY <1>0, <2>4, <2>5, <2>6 DEF ThreadInv, PagesSound
  <2>8. ThreadsSound'
    BY <1>0, <1>2, ThreadMoves DEF ServePage
  <2> QED
    BY <1>1, <2>7, <2>8 DEF ThreadInv
<1>3. CASE Refetch(d)
  <2> DEFINE r == [kind |-> "first", from |-> 0, before |-> NoCursor, served |-> FALSE, page |-> NoPage]
  <2>0. NoThread \in Pages /\ NoThread.session = 0 /\ NoCursor \in Nat \X Nat /\ 0 <= Len(sessions)
    BY ThreadFacts
  <2>1. r \in PageReads /\ r.page.session = 0 /\ r.page.session <= Len(sessions)
    BY <2>0 DEF PageReads, NoPage
  <2>2. pages' = [pages EXCEPT ![d] = @ \cup {r}]
    BY <1>3 DEF Refetch
  <2> HIDE DEF r
  <2>3. PagesSound' /\ ThreadsSound'
    BY <1>0, <1>3, <2>1, <2>2, ThreadMoves DEF Refetch
  <2> QED
    BY <1>1, <2>3 DEF ThreadInv
<1>4. CASE LoadOlder(d)
  <2>0. NoThread \in Pages /\ NoThread.session = 0 /\ 0 <= Len(sessions) /\ thread[d] \in Pages
    BY ThreadFacts
  <2>1. thread[d].session \in Nat /\ thread[d].cursor \in Nat \X Nat
    BY <2>0 DEF Pages
  <2> DEFINE r == [kind |-> "older", from |-> thread[d].session, before |-> thread[d].cursor,
                   served |-> FALSE, page |-> NoPage]
  <2>2. r \in PageReads /\ r.page.session = 0 /\ r.page.session <= Len(sessions)
    BY <2>0, <2>1 DEF PageReads, NoPage
  <2>3. pages' = [pages EXCEPT ![d] = @ \cup {r}]
    BY <1>4 DEF LoadOlder
  <2> HIDE DEF r
  <2>4. PagesSound' /\ ThreadsSound'
    BY <1>0, <1>4, <2>2, <2>3, ThreadMoves DEF LoadOlder
  <2> QED
    BY <1>1, <2>4 DEF ThreadInv
<1>5. CASE PageArrives(d)
  <2>1. PICK p \in pages[d] :
          /\ pages' = [pages EXCEPT ![d] = @ \ {p}]
          /\ thread' = [thread EXCEPT ![d] =
                IF p.kind = "mount" THEN p.page
                ELSE IF p.kind = "first"
                THEN IF thread[d].session \in {0, p.page.session}
                     THEN [Merged(d, p.page, thread[d].cursor) EXCEPT !.session = p.page.session]
                     ELSE p.page
                ELSE IF p.page.session # p.from THEN p.page
                     ELSE Merged(d, p.page, p.page.cursor)]
    BY <1>5 DEF PageArrives
  <2> DEFINE Good(t) == t \in Pages /\ t.session <= Len(sessions)
  <2>2. Good(p.page) /\ Good(thread[d])
    BY ThreadFacts
  <2>3. Good(Merged(d, p.page, p.page.cursor)) /\ Good(Merged(d, p.page, thread[d].cursor))
    BY <2>2 DEF Merged, Pages
  <2>4. Good([Merged(d, p.page, thread[d].cursor) EXCEPT !.session = p.page.session])
    <3>1. ASSUME NEW x \in Pages, NEW y \in Nat, y <= Len(sessions) PROVE Good([x EXCEPT !.session = y])
      BY <3>1 DEF Pages
    <3>2. p.page.session \in Nat /\ p.page.session <= Len(sessions)
      BY <2>2 DEF Pages
    <3> QED
      BY <2>3, <3>1, <3>2
  <2> HIDE DEF Good
  <2>5. PICK t : Good(t) /\ thread' = [thread EXCEPT ![d] = t]
    BY <2>1, <2>2, <2>3, <2>4
  <2>6. PagesSound' /\ ThreadsSound'
    BY <1>0, <2>1, <2>5, ThreadMoves DEF Good
  <2> QED
    BY <1>1, <2>6 DEF ThreadInv
<1>6. CASE PageFails(d)
  <2>1. PICK p \in pages[d] :
          /\ pages' = [pages EXCEPT ![d] = @ \ {p}]
          /\ thread' = IF p.kind = "mount"
                       THEN [thread EXCEPT ![d].rows = {}, ![d].cursor = NoCursor] ELSE thread
    BY <1>6 DEF PageFails
  <2> DEFINE t == [thread[d] EXCEPT !.rows = {}, !.cursor = NoCursor]
  <2>0. thread[d] \in Pages /\ thread[d].session <= Len(sessions) /\ NoCursor \in Nat \X Nat
    BY ThreadFacts
  <2>2. t \in Pages /\ t.session = thread[d].session
    BY <2>0 DEF Pages
  <2>3. thread' = [thread EXCEPT ![d] = t] \/ UNCHANGED thread
    BY <2>0, <2>1 DEF ThreadInv, ThreadsSound, Pages
  <2> HIDE DEF t
  <2>4. PagesSound' /\ ThreadsSound'
    BY <1>0, <2>0, <2>1, <2>2, <2>3, ThreadMoves
  <2> QED
    BY <1>1, <2>4 DEF ThreadInv
<1> QED
  BY <1>2, <1>3, <1>4, <1>5, <1>6

\* Questions, answers and new chats.
LEMMA QuestionSteps ==
    ASSUME ChatInv, ThreadInv, NEW d \in Handsets,
           \/ ReadTurns(d) \/ StoreExchange(d) \/ QuestionFails(d) \/ Send(d) \/ AnswerShown(d)
           \/ ServeReset(d) \/ NewChat(d) \/ ResetShown(d) \/ ResetFails(d)
    PROVE  ThreadInv'
<1>0. UNCHANGED pages
  BY DEF ReadTurns, StoreExchange, QuestionFails, Send, AnswerShown, ServeReset, NewChat, ResetShown,
         ResetFails
<1>1. CASE ReadTurns(d) \/ Send(d) \/ QuestionFails(d)
  <2>1. UNCHANGED <<sessions, thread, fresh>>
    BY <1>1 DEF ReadTurns, Send, QuestionFails
  <2>2. PICK q \in Asks : asking' = [asking EXCEPT ![d] = q] /\ q.session <= Len(sessions)
    <3>1. CASE ReadTurns(d)
      <4>1. PICK n \in Nat : n = Active /\ n = Len(sessions)
        BY ThreadFacts DEF Active
      <4>0. asking[d] \in Asks
        BY ThreadFacts
      <4> DEFINE q == [asking[d] EXCEPT !.session = n, !.drew = n, !.at = "answering"]
      <4>2. q \in Asks /\ q.session = n
        BY <4>0, <4>1 DEF Asks
      <4>3. asking' = [asking EXCEPT ![d] = q]
        BY <3>1, <4>0, <4>1 DEF ReadTurns, ChatInv, Asks
      <4> HIDE DEF q
      <4>4. q.session <= Len(sessions)
        BY <4>1, <4>2
      <4> QED
        BY <4>2, <4>3, <4>4
    <3>2. CASE Send(d)
      <4>0. asking[d] \in Asks /\ asking[d].session <= Len(sessions)
        BY ThreadFacts
      <4> DEFINE q == [asking[d] EXCEPT !.at = "sent"]
      <4>1. q \in Asks /\ q.session = asking[d].session
        BY <4>0 DEF Asks
      <4>2. asking' = [asking EXCEPT ![d] = q]
        BY <3>2, <4>0 DEF Send, ChatInv, Asks
      <4> HIDE DEF q
      <4> QED
        BY <4>0, <4>1, <4>2
    <3>3. CASE QuestionFails(d)
      <4>1. NoQuestion \in Asks /\ NoQuestion.session <= Len(sessions)
        BY ThreadFacts
      <4> QED
        BY <3>3, <4>1 DEF QuestionFails
    <3> QED
      BY <1>1, <3>1, <3>2, <3>3
  <2>3. AskingSound'
    BY <2>1, <2>2, ThreadMoves
  <2> QED
    BY <1>0, <2>1, <2>3, ThreadMoves DEF ThreadInv
<1>2. CASE StoreExchange(d)
  <2>1. Len(sessions') = Len(sessions)
    BY <1>2 DEF StoreExchange, ChatInv
  <2>2. \A e \in Handsets : asking'[e].session = asking[e].session
    BY <1>2 DEF StoreExchange, ChatInv, Asks
  <2>3. AskingSound'
    BY <2>1, <2>2 DEF ThreadInv, AskingSound
  <2> QED
    BY <1>0, <1>2, <2>1, <2>3, ThreadMoves DEF ThreadInv, StoreExchange
<1>3. CASE AnswerShown(d)
  <2>1. UNCHANGED <<sessions, fresh>> /\ asking' = [asking EXCEPT ![d] = NoQuestion]
    BY <1>3 DEF AnswerShown
  <2>0. /\ thread[d] \in Pages /\ thread[d].session <= Len(sessions) /\ NoCursor \in Nat \X Nat
        /\ asking[d] \in Asks /\ asking[d].session <= Len(sessions)
        /\ NoQuestion \in Asks /\ NoQuestion.session <= Len(sessions)
    BY ThreadFacts
  <2> DEFINE kept == [thread[d] EXCEPT !.rows = @ \cup asking[d].rows]
             new == [session |-> asking[d].session, rows |-> asking[d].rows, cursor |-> NoCursor]
  <2>2. asking[d].session \in Nat /\ asking[d].rows \in SUBSET (Nat \X Int)
    BY <2>0 DEF Asks
  <2>3. thread' = [thread EXCEPT ![d] = kept] \/ thread' = [thread EXCEPT ![d] = new]
    <3>1. CASE thread[d].session = asking[d].session
      BY <1>3, <3>1 DEF AnswerShown
    <3>2. CASE thread[d].session # asking[d].session
      BY <1>3, <3>2 DEF AnswerShown
    <3> QED
      BY <3>1, <3>2
  <2>4. kept \in Pages /\ kept.session <= Len(sessions)
    BY <2>0, <2>2 DEF Pages
  <2>5. new \in Pages /\ new.session <= Len(sessions)
    BY <2>0, <2>2 DEF Pages
  <2> HIDE DEF kept, new
  <2>7. ThreadsSound' /\ AskingSound' /\ FreshSound' /\ PagesSound'
    BY <1>0, <2>0, <2>1, <2>3, <2>4, <2>5, ThreadMoves
  <2> QED
    BY <2>7 DEF ThreadInv
<1>4. CASE ServeReset(d)
  <2>1. Len(sessions') = Len(sessions) + 1
    BY <1>4 DEF ServeReset, ChatInv
  <2>2. FreshSound'
    BY <1>4, <2>1, ThreadFacts DEF ServeReset, ThreadInv, FreshSound
  <2>3. \A x \in Nat : x <= Len(sessions) => x <= Len(sessions')
    BY <2>1, ThreadFacts
  <2>4. \A e \in Handsets : /\ thread[e].session \in Nat /\ asking[e].session \in Nat
                            /\ \A p \in pages[e] : p.page.session \in Nat
    <3>1. \A t \in Pages : t.session \in Nat
      BY DEF Pages
    <3>2. \A q \in Asks : q.session \in Nat
      BY DEF Asks
    <3> QED
      BY <3>1, <3>2, ThreadFacts
  <2>5. ThreadsSound'
    BY <1>4, <2>3, <2>4 DEF ServeReset, ThreadInv, ThreadsSound
  <2>6. PagesSound'
    BY <1>4, <2>3, <2>4 DEF ServeReset, ThreadInv, PagesSound
  <2>7. AskingSound'
    BY <1>4, <2>3, <2>4 DEF ServeReset, ThreadInv, AskingSound
  <2> QED
    BY <2>2, <2>5, <2>6, <2>7 DEF ThreadInv
<1>5. CASE NewChat(d) \/ ResetFails(d)
  <2>1. UNCHANGED <<sessions, thread, asking>>
        /\ (fresh' = [fresh EXCEPT ![d] = 1] \/ fresh' = [fresh EXCEPT ![d] = 0])
    BY <1>5 DEF NewChat, ResetFails
  <2>2. 0 <= Len(sessions) /\ 1 <= Len(sessions)
    BY ThreadFacts
  <2>3. FreshSound'
    BY <2>1, <2>2, ThreadMoves
  <2> QED
    BY <1>0, <2>1, <2>3, ThreadMoves DEF ThreadInv
<1>6. CASE ResetShown(d)
  <2>1. UNCHANGED <<sessions, asking>> /\ fresh' = [fresh EXCEPT ![d] = 0]
    BY <1>6 DEF ResetShown
  <2> DEFINE t == [session |-> fresh[d], rows |-> {}, cursor |-> NoCursor]
  <2>0. fresh[d] \in Nat /\ fresh[d] <= Len(sessions) /\ NoCursor \in Nat \X Nat /\ 0 <= Len(sessions)
    BY ThreadFacts
  <2>2. t \in Pages
    BY <2>0 DEF Pages
  <2>3. thread' = [thread EXCEPT ![d] = t]
    BY <1>6 DEF ResetShown
  <2>4. 0 <= Len(sessions) /\ t.session <= Len(sessions)
    BY <2>0
  <2> HIDE DEF t
  <2>5. ThreadsSound' /\ FreshSound'
    BY <2>1, <2>2, <2>3, <2>4, ThreadMoves
  <2> QED
    BY <1>0, <2>1, <2>5, ThreadMoves DEF ThreadInv
<1> QED
  BY <1>1, <1>2, <1>3, <1>4, <1>5, <1>6

\* The screens, the pages and the questions on their way are about sessions that are there.
THEOREM AppChatTypes == AppChatSpec => []AppChatTypeOK
<1>1. AppChatInit => ThreadInv
  <2> SUFFICES ASSUME AppChatInit PROVE ThreadInv
    OBVIOUS
  <2>1. NoThread \in Pages /\ NoThread.session = 0 /\ NoQuestion.session = 0
    BY DEF NoThread, NoCursor, Pages, NoQuestion
  <2>2. [kind |-> "mount", from |-> 0, before |-> NoCursor, served |-> FALSE, page |-> NoPage] \in PageReads
    BY <2>1 DEF PageReads, NoPage, NoCursor
  <2> QED
    BY <2>1, <2>2 DEF AppChatInit, ThreadInv, ThreadsSound, PagesSound, AskingSound, FreshSound, NoPage
<1>2. ChatInv /\ ThreadInv /\ [AppChatNext]_chatVars => ThreadInv'
  <2> SUFFICES ASSUME ChatInv, ThreadInv, [AppChatNext]_chatVars PROVE ThreadInv'
    OBVIOUS
  <2>1. CASE UNCHANGED chatVars
    BY <2>1 DEF chatVars, ThreadInv, ThreadsSound, PagesSound, AskingSound, FreshSound
  <2>2. CASE AppChatNext
    BY <2>2, PageSteps, QuestionSteps DEF AppChatNext
  <2> QED
    BY <2>1, <2>2
<1>3. ChatInv /\ ThreadInv => AppChatTypeOK
  <2> SUFFICES ASSUME ChatInv, ThreadInv, NEW d \in Handsets
               PROVE  /\ thread[d].session \in 0..Len(sessions) /\ fresh[d] \in 0..Len(sessions) + 1
                      /\ asking[d].session \in 0..Len(sessions)
    BY DEF AppChatTypeOK
  <2> QED
    BY ThreadFacts DEF Pages, Asks
<1> QED
  BY <1>1, <1>2, <1>3, ChatInductive, PTL DEF AppChatSpec

-----------------------------------------------------------------------------
(* MeetingDraft.                                                             *)

Plans == [time : Nat, who : SUBSET Invitees, guess : BOOLEAN]
Says == {"drafting", "booked", "cancelled"}
RoundRows == [status : Says, plan : Plans, card : Nat]
MeetRows == [time : Nat, who : SUBSET Invitees]
CardRows == [id : Nat, says : Says, gone : BOOLEAN]
AskRows == [at : {"free", "read", "upsert", "load", "calendar", "mark", "drop", "card", "attach"},
            kind : {"none", "refine", "book", "pick", "cancel"}, id : Nat, plan : Plans,
            card : Nat, says : Says]

DraftTypes ==
    /\ rounds \in Seq(RoundRows) /\ meets \in Seq(MeetRows) /\ cards \in Seq(CardRows)
    /\ ask \in [Taskers -> AskRows] /\ hour \in Nat
    /\ Len(meets) = Len(rounds)

\* The calendar has an event of the draft, with a time and with somebody to meet.
Made(d) == meets[d].time # 0 /\ meets[d].who # {}

\* A draft's event is whole or not there; a row that says booked has one, and the
\* card a row points to is of that row.
RoundSound(d) ==
    /\ meets[d] = NoMeet \/ Made(d)
    /\ rounds[d].status = "booked" => Made(d)
    /\ rounds[d].card # 0 => /\ rounds[d].card \in DOMAIN cards
                             /\ cards[rounds[d].card].id = d

CardSound(k) ==
    /\ cards[k].id \in RoundIds
    /\ cards[k].says = "booked" => Made(cards[k].id)

\* What a request has in hand: its row, the card of that row, a plan that was ready
\* when it went to the calendar, and word of a booking only after the calendar's.
AskSound(h) ==
    /\ ask[h].at \in {"load", "calendar", "mark", "drop", "card", "attach"} =>
            ask[h].id \in RoundIds
    /\ ask[h].at \in {"calendar", "mark", "drop", "card", "attach"} /\ ask[h].card # 0 =>
            ask[h].card \in DOMAIN cards /\ cards[ask[h].card].id = ask[h].id
    /\ ask[h].at = "calendar" => ask[h].plan.time # 0 /\ ask[h].plan.who # {}
    /\ ask[h].at = "mark" => Made(ask[h].id)
    /\ ask[h].at \in {"card", "attach"} /\ ask[h].says = "booked" => Made(ask[h].id)

DraftInv ==
    /\ DraftTypes
    /\ \A d \in RoundIds : RoundSound(d)
    /\ \A k \in DOMAIN cards : CardSound(k)
    /\ \A h \in Taskers : AskSound(h)

\* No row, event or card is lost.
TablesGrow ==
    /\ RoundIds \subseteq RoundIds'
    /\ \A d \in RoundIds : Made(d) => Made(d)'
    /\ \A k \in DOMAIN cards : k \in DOMAIN cards' /\ cards'[k].id = cards[k].id

\* A step of one request leaves the others as sound as they were.
LEMMA DraftMoves ==
    ASSUME DraftInv, DraftTypes', NEW h \in Taskers,
           \A g \in Taskers \ {h} : ask'[g] = ask[g], AskSound(h)', TablesGrow,
           \A d \in RoundIds' : RoundSound(d)', \A k \in DOMAIN cards' : CardSound(k)'
    PROVE  DraftInv'
<1>1. ASSUME NEW g \in Taskers \ {h} PROVE AskSound(g)'
  <2>1. AskSound(g) /\ ask'[g] = ask[g]
    BY DEF DraftInv
  <2> QED
    BY <2>1 DEF AskSound, TablesGrow
<1> QED
  BY <1>1 DEF DraftInv

\* ... and one that writes no table needs to answer for itself only.
LEMMA AskMoves ==
    ASSUME DraftInv, UNCHANGED <<rounds, meets, cards, hour>>, NEW h \in Taskers,
           NEW q \in AskRows, ask' = [ask EXCEPT ![h] = q], AskSound(h)'
    PROVE  DraftInv'
<1>1. DraftTypes' /\ \A g \in Taskers \ {h} : ask'[g] = ask[g]
  BY DEF DraftInv, DraftTypes
<1>2. TablesGrow
  BY DEF TablesGrow, RoundIds, Made
<1>3. /\ \A d \in RoundIds' : RoundSound(d)'
      /\ \A k \in DOMAIN cards' : CardSound(k)'
  BY DEF DraftInv, RoundSound, CardSound, RoundIds, Made
<1> QED
  BY <1>1, <1>2, <1>3, DraftMoves

\* What the tables and the requests hold, field by field.
LEMMA DraftFacts ==
    ASSUME DraftInv
    PROVE  /\ rounds \in Seq(RoundRows) /\ meets \in Seq(MeetRows) /\ cards \in Seq(CardRows)
           /\ ask \in [Taskers -> AskRows] /\ hour \in Nat
           /\ Len(rounds) \in Nat /\ Len(cards) \in Nat /\ Len(meets) = Len(rounds)
           /\ DOMAIN rounds = RoundIds /\ DOMAIN meets = RoundIds
           /\ DOMAIN cards = 1..Len(cards) /\ RoundIds = 1..Len(rounds)
           /\ \A d \in RoundIds : rounds[d] \in RoundRows /\ d \in Nat
           /\ \A k \in DOMAIN cards : cards[k] \in CardRows /\ k \in Nat
           /\ NoAsk \in AskRows /\ NoAsk.at = "free"
           /\ Blankly \in Plans
<1>1. Blankly \in Plans
  BY DEF Blankly, Plans
<1>2. NoAsk \in AskRows /\ NoAsk.at = "free"
  BY <1>1 DEF NoAsk, AskRows, Says
<1> QED
  BY <1>1, <1>2 DEF DraftInv, DraftTypes, RoundIds

LEMMA FieldTypes ==
    /\ \A r \in RoundRows : r.status \in Says /\ r.plan \in Plans /\ r.card \in Nat
    /\ \A r \in AskRows : r.id \in Nat /\ r.plan \in Plans /\ r.card \in Nat /\ r.says \in Says
    /\ \A r \in CardRows : r.id \in Nat
    /\ \A r \in Plans : r.time \in Nat /\ r.who \in SUBSET Invitees
BY DEF RoundRows, AskRows, CardRows, Plans

\* The reading of an utterance is a plan again.
LEMMA PlansStay ==
    ASSUME NEW plan \in Plans, hour \in Nat, NEW m \in MergedPlans(plan), NEW p \in Timed(m)
    PROVE  p \in Plans
<1>1. m \in Plans
  <2>1. ASSUME NEW group \in SUBSET Invitees, NEW guess \in BOOLEAN
        PROVE  WithContacts(plan, group, guess) \in Plans
    BY DEF WithContacts, Plans
  <2>2. plan.guess \in BOOLEAN
    BY DEF Plans
  <2>3. \/ m = plan \/ m = WithContacts(plan, Invitees, FALSE) \/ m = WithContacts(plan, {}, TRUE)
        \/ \E g \in Invitees : m = WithContacts(plan, {g}, plan.guess)
        \/ \E g \in Invitees : m = WithContacts(plan, {g}, FALSE)
    BY DEF MergedPlans
  <2> QED
    BY <2>1, <2>2, <2>3
<1> QED
  BY <1>1, MeetingDraftAssumption DEF Timed, Plans

\* A request is made, fails, or reads.
LEMMA AskSteps ==
    ASSUME DraftInv, NEW h \in Taskers,
           \/ AskRefine(h) \/ \E kind \in {"book", "pick", "cancel"} : AskOn(h, kind)
           \/ ReadActive(h) \/ AskFails(h)
    PROVE  DraftInv'
<1>0. UNCHANGED <<rounds, meets, cards, hour>> /\ ask \in [Taskers -> AskRows] /\ ask[h] \in AskRows
  BY DraftFacts DEF AskRefine, AskOn, ReadActive, AskFails
<1>1. CASE AskFails(h)
  <2>1. ask' = [ask EXCEPT ![h] = NoAsk] /\ ask'[h].at = "free"
    BY <1>0, <1>1, DraftFacts DEF AskFails
  <2>2. AskSound(h)'
    BY <2>1 DEF AskSound
  <2> QED
    BY <1>0, <2>1, <2>2, DraftFacts, AskMoves
<1>2. CASE AskRefine(h)
  <2> DEFINE q == [ask[h] EXCEPT !.kind = "refine", !.at = "read"]
  <2>1. q \in AskRows /\ q.at = "read"
    BY <1>0 DEF AskRows
  <2>2. ask' = [ask EXCEPT ![h] = q]
    BY <1>0, <1>2 DEF AskRefine
  <2> HIDE DEF q
  <2>3. AskSound(h)'
    BY <1>0, <2>1, <2>2 DEF AskSound
  <2> QED
    BY <1>0, <2>1, <2>2, <2>3, AskMoves
<1>3. ASSUME NEW kind \in {"book", "pick", "cancel"}, AskOn(h, kind) PROVE DraftInv'
  <2>1. PICK k \in DOMAIN cards :
            ask' = [ask EXCEPT ![h].kind = kind, ![h].at = "load", ![h].id = cards[k].id]
    BY <1>3 DEF AskOn
  <2>2. cards[k].id \in RoundIds /\ cards[k].id \in Nat
    BY DraftFacts DEF DraftInv, CardSound
  <2> DEFINE n == cards[k].id
             q == [ask[h] EXCEPT !.kind = kind, !.at = "load", !.id = n]
  <2>3. ask' = [ask EXCEPT ![h] = q]
    BY <1>0, <2>1
  <2> HIDE DEF n
  <2>4. q \in AskRows /\ q.at = "load" /\ q.id = n
    BY <1>0, <2>2 DEF AskRows, n
  <2> HIDE DEF q
  <2>5. AskSound(h)'
    BY <1>0, <2>2, <2>3, <2>4 DEF AskSound, n, RoundIds
  <2> QED
    BY <1>0, <2>3, <2>4, <2>5, AskMoves
<1>4. CASE ReadActive(h)
  <2> DEFINE active == {d \in RoundIds : Open(d)}
             prior == IF active = {} THEN Blankly ELSE rounds[CHOOSE d \in active : TRUE].plan
  <2>0. \E p \in UNION {Timed(m) : m \in MergedPlans(prior)} :
          ask' = [ask EXCEPT ![h].plan = p, ![h].at = "upsert"]
    BY <1>4, Zenon DEF ReadActive
  <2>1. PICK p \in UNION {Timed(m) : m \in MergedPlans(prior)} :
          ask' = [ask EXCEPT ![h].plan = p, ![h].at = "upsert"]
    BY <2>0
  <2>2. prior \in Plans
    <3>1. CASE active = {}
      BY <3>1, DraftFacts
    <3>2. CASE active # {}
      <4>1. (CHOOSE d \in active : TRUE) \in RoundIds
        BY <3>2
      <4> QED
        BY <3>2, <4>1, DraftFacts, FieldTypes
    <3> QED
      BY <3>1, <3>2
  <2> HIDE DEF prior
  <2>3. p \in Plans
    <3>1. PICK m \in MergedPlans(prior) : p \in Timed(m)
      OBVIOUS
    <3> QED
      BY <2>2, <3>1, DraftFacts, PlansStay
  <2> DEFINE q == [ask[h] EXCEPT !.plan = p, !.at = "upsert"]
  <2>4. q \in AskRows /\ q.at = "upsert"
    BY <1>0, <2>3 DEF AskRows
  <2>5. ask' = [ask EXCEPT ![h] = q]
    BY <1>0, <2>1
  <2> HIDE DEF q
  <2>6. AskSound(h)'
    BY <1>0, <2>4, <2>5 DEF AskSound
  <2> QED
    BY <1>0, <2>4, <2>5, <2>6, AskMoves
<1> QED
  BY <1>1, <1>2, <1>3, <1>4

\* A button's request reads the row of its card.
LEMMA LoadSteps ==
    ASSUME DraftInv, NEW h \in Taskers, LoadToBook(h) \/ LoadToPick(h) \/ LoadToCancel(h)
    PROVE  DraftInv'
<1> DEFINE d == ask[h].id
           row == DraftRow(h)
<1>0. /\ UNCHANGED <<rounds, meets, cards, hour>> /\ ask \in [Taskers -> AskRows]
      /\ ask[h] \in AskRows /\ ask[h].at = "load" /\ d \in RoundIds /\ row \in RoundRows
      /\ row.card \in Nat /\ row.plan \in Plans /\ row.status \in Says
  <2>1. UNCHANGED <<rounds, meets, cards, hour>> /\ ask[h].at = "load"
    BY DEF LoadToBook, LoadToPick, LoadToCancel, Loads
  <2>2. d \in RoundIds
    BY <2>1 DEF DraftInv, AskSound
  <2> QED
    BY <2>1, <2>2, DraftFacts, FieldTypes DEF DraftRow
<1>1. /\ row.card # 0 => row.card \in DOMAIN cards /\ cards[row.card].id = d
      /\ row.status = "booked" => Made(d)
  BY <1>0 DEF DraftInv, RoundSound, DraftRow
<1>2. ASSUME NEW says \in Says, ToCard(h, says), says = "booked" => Made(d)
      PROVE  DraftInv'
  <2> DEFINE c == row.card
             q == [ask[h] EXCEPT !.card = c, !.says = says, !.at = "card"]
  <2>1. ask' = [ask EXCEPT ![h] = q]
    BY <1>0, <1>2 DEF ToCard
  <2>2. c \in Nat
    BY <1>0
  <2> HIDE DEF c
  <2>3. q \in AskRows /\ q.at = "card" /\ q.id = d /\ q.card = c /\ q.says = says
    BY <1>0, <2>2 DEF AskRows
  <2> HIDE DEF q
  <2>4. AskSound(h)'
    BY <1>0, <1>1, <1>2, <2>1, <2>3 DEF AskSound, RoundIds, Made, c
  <2> QED
    BY <1>0, <2>1, <2>3, <2>4, AskMoves
<1>3. ASSUME LoadToBook(h), Ready(row.plan),
             ask' = [ask EXCEPT ![h].plan = row.plan, ![h].card = row.card, ![h].at = "calendar"]
      PROVE  DraftInv'
  <2> DEFINE c == row.card
             p == row.plan
             q == [ask[h] EXCEPT !.plan = p, !.card = c, !.at = "calendar"]
  <2>1. ask' = [ask EXCEPT ![h] = q]
    BY <1>0, <1>3
  <2>2. c \in Nat /\ p \in Plans
    BY <1>0
  <2>3. p.time # 0 /\ p.who # {}
    BY <1>3 DEF Ready
  <2> HIDE DEF c, p
  <2>4. q \in AskRows /\ q.at = "calendar" /\ q.id = d /\ q.card = c /\ q.plan = p
    BY <1>0, <2>2 DEF AskRows
  <2> HIDE DEF q
  <2>5. AskSound(h)'
    BY <1>0, <1>1, <2>1, <2>3, <2>4 DEF AskSound, RoundIds, c
  <2> QED
    BY <1>0, <2>1, <2>4, <2>5, AskMoves
<1>4. ASSUME NEW g \in Invitees,
             ask' = [ask EXCEPT ![h].at = "upsert",
                       ![h].plan = WithContacts(row.plan, {g}, FALSE)]
      PROVE  DraftInv'
  <2> DEFINE p == WithContacts(row.plan, {g}, FALSE)
             q == [ask[h] EXCEPT !.at = "upsert", !.plan = p]
  <2>1. ask' = [ask EXCEPT ![h] = q]
    BY <1>0, <1>4
  <2>2. p \in Plans
    BY <1>0 DEF Plans, WithContacts
  <2> HIDE DEF p
  <2>3. q \in AskRows /\ q.at = "upsert"
    BY <1>0, <2>2 DEF AskRows
  <2> HIDE DEF q
  <2>4. AskSound(h)'
    BY <1>0, <2>1, <2>3 DEF AskSound
  <2> QED
    BY <1>0, <2>1, <2>3, <2>4, AskMoves
<1>5. ASSUME ask' = [ask EXCEPT ![h].card = row.card, ![h].at = "drop"]
      PROVE  DraftInv'
  <2> DEFINE c == row.card
             q == [ask[h] EXCEPT !.card = c, !.at = "drop"]
  <2>1. ask' = [ask EXCEPT ![h] = q]
    BY <1>0, <1>5
  <2>2. c \in Nat
    BY <1>0
  <2> HIDE DEF c
  <2>3. q \in AskRows /\ q.at = "drop" /\ q.id = d /\ q.card = c
    BY <1>0, <2>2 DEF AskRows
  <2> HIDE DEF q
  <2>4. AskSound(h)'
    BY <1>0, <1>1, <2>1, <2>3 DEF AskSound, RoundIds, c
  <2> QED
    BY <1>0, <2>1, <2>3, <2>4, AskMoves
<1> HIDE DEF d
<1>6. "cancelled" \in Says
  BY DEF Says
<1>7. CASE LoadToBook(h)
  BY <1>0, <1>1, <1>2, <1>3, <1>7 DEF LoadToBook
<1>8. CASE LoadToPick(h)
  BY <1>0, <1>1, <1>2, <1>4, <1>8 DEF LoadToPick
<1>9. CASE LoadToCancel(h)
  BY <1>2, <1>5, <1>6, <1>9 DEF LoadToCancel
<1> QED
  BY <1>7, <1>8, <1>9

\* A step that replaces one row, with the event and the card its status and its card
\* number call for.
LEMMA RoundMoves ==
    ASSUME DraftInv, UNCHANGED <<meets, cards, hour>>, NEW d \in RoundIds, NEW row \in RoundRows,
           rounds' = [rounds EXCEPT ![d] = row],
           row.status = "booked" => Made(d),
           row.card # 0 => row.card \in DOMAIN cards /\ cards[row.card].id = d,
           NEW h \in Taskers, NEW q \in AskRows, ask' = [ask EXCEPT ![h] = q], AskSound(h)'
    PROVE  DraftInv'
<1>0. /\ rounds \in Seq(RoundRows) /\ Len(rounds) \in Nat /\ DOMAIN rounds = RoundIds
      /\ RoundIds = 1..Len(rounds) /\ ask \in [Taskers -> AskRows]
  BY DraftFacts
<1>1. /\ rounds' \in Seq(RoundRows) /\ Len(rounds') = Len(rounds) /\ rounds'[d] = row
      /\ \A e \in RoundIds \ {d} : rounds'[e] = rounds[e]
  BY <1>0
<1>2. RoundIds' = RoundIds
  BY <1>1 DEF RoundIds
<1>3. DraftTypes' /\ \A g \in Taskers \ {h} : ask'[g] = ask[g]
  BY <1>0, <1>1 DEF DraftInv, DraftTypes
<1>4. \A e \in RoundIds' : RoundSound(e)'
  BY <1>1, <1>2 DEF DraftInv, RoundSound, Made
<1>5. TablesGrow
  BY <1>2 DEF TablesGrow, Made
<1>6. \A k \in DOMAIN cards' : CardSound(k)'
  BY <1>2 DEF DraftInv, CardSound, Made
<1> QED
  BY <1>3, <1>4, <1>5, <1>6, DraftMoves

\* A turn writes the session's open row, or makes it.
LEMMA UpsertStep ==
    ASSUME DraftInv, NEW h \in Taskers, UpsertActive(h)
    PROVE  DraftInv'
<1>0. /\ ask \in [Taskers -> AskRows] /\ ask[h] \in AskRows /\ ask[h].plan \in Plans
      /\ rounds \in Seq(RoundRows) /\ meets \in Seq(MeetRows) /\ Len(meets) = Len(rounds)
      /\ Len(rounds) \in Nat /\ RoundIds = 1..Len(rounds) /\ DOMAIN rounds = RoundIds
      /\ DOMAIN meets = RoundIds /\ UNCHANGED <<cards, hour>>
  BY DraftFacts, FieldTypes DEF UpsertActive
<1>1. ASSUME NEW d \in RoundIds, rounds' = [rounds EXCEPT ![d].plan = ask[h].plan],
             meets' = meets, Landed(h, d)
      PROVE  DraftInv'
  <2> DEFINE p == ask[h].plan
             row == [rounds[d] EXCEPT !.plan = p]
             c == rounds[d].card
             q == [ask[h] EXCEPT !.id = d, !.says = "drafting", !.at = "card", !.card = c]
  <2>1. rounds' = [rounds EXCEPT ![d] = row]
    BY <1>0, <1>1
  <2>2. ask' = [ask EXCEPT ![h] = q]
    BY <1>0, <1>1 DEF Landed
  <2>3. rounds[d] \in RoundRows /\ c \in Nat /\ p \in Plans /\ d \in Nat
    BY <1>0, DraftFacts, FieldTypes
  <2>4. RoundSound(d)
    BY DEF DraftInv
  <2> HIDE DEF p, c
  <2>5. row \in RoundRows /\ row.status = rounds[d].status /\ row.card = rounds[d].card
    BY <2>3 DEF RoundRows
  <2>6. q \in AskRows /\ q.at = "card" /\ q.id = d /\ q.card = c /\ q.says = "drafting"
    BY <1>0, <2>3 DEF AskRows, Says
  <2> HIDE DEF row, q
  <2>7. Len(rounds') = Len(rounds)
    BY <1>0, <2>1
  <2>8. AskSound(h)'
    BY <1>0, <2>2, <2>4, <2>6, <2>7 DEF AskSound, RoundSound, RoundIds, c
  <2> QED
    <3>1. row.status = "booked" => Made(d)
      BY <2>4, <2>5 DEF RoundSound
    <3>2. row.card # 0 => row.card \in DOMAIN cards /\ cards[row.card].id = d
      BY <2>4, <2>5 DEF RoundSound
    <3> QED
      BY <1>0, <1>1, <2>1, <2>2, <2>5, <2>6, <2>8, <3>1, <3>2, RoundMoves
<1>2. ASSUME rounds' = Append(rounds, [status |-> "drafting", plan |-> ask[h].plan, card |-> 0]),
             meets' = Append(meets, NoMeet), Landed(h, Len(rounds) + 1)
      PROVE  DraftInv'
  <2> DEFINE n == Len(rounds) + 1
             row == [status |-> "drafting", plan |-> ask[h].plan, card |-> 0]
             q == [ask[h] EXCEPT !.id = n, !.says = "drafting", !.at = "card", !.card = 0]
  <2>1. n \in Nat /\ n \notin RoundIds
    BY <1>0
  <2>2. row \in RoundRows /\ row.status = "drafting" /\ row.card = 0 /\ NoMeet \in MeetRows
    BY <1>0 DEF RoundRows, Says, NoMeet, MeetRows
  <2>3. ask' = [ask EXCEPT ![h] = q]
    BY <1>0, <1>2, <2>1 DEF Landed
  <2>4. q \in AskRows /\ q.at = "card" /\ q.id = n /\ q.card = 0 /\ q.says = "drafting"
    BY <1>0, <2>1 DEF AskRows, Says
  <2> HIDE DEF row, q
  <2>5. /\ rounds' \in Seq(RoundRows) /\ Len(rounds') = n /\ rounds'[n] = row
        /\ \A e \in RoundIds : rounds'[e] = rounds[e]
    BY <1>0, <1>2, <2>2 DEF row
  <2>6. /\ meets' \in Seq(MeetRows) /\ Len(meets') = n /\ meets'[n] = NoMeet
        /\ \A e \in RoundIds : meets'[e] = meets[e]
    BY <1>0, <1>2, <2>2
  <2>7. RoundIds' = RoundIds \cup {n}
    BY <1>0, <2>5 DEF RoundIds
  <2> HIDE DEF n
  <2>8. DraftTypes' /\ \A g \in Taskers \ {h} : ask'[g] = ask[g]
    BY <1>0, <2>3, <2>4, <2>5, <2>6, DraftFacts DEF DraftTypes
  <2>9. \A e \in RoundIds' : RoundSound(e)'
    BY <1>0, <2>2, <2>5, <2>6, <2>7 DEF DraftInv, RoundSound, Made
  <2>10. TablesGrow
    BY <1>0, <2>6, <2>7 DEF TablesGrow, Made
  <2>11. \A k \in DOMAIN cards' : CardSound(k)'
    BY <1>0, <2>6, <2>7 DEF DraftInv, CardSound, Made
  <2>12. AskSound(h)'
    BY <1>0, <2>3, <2>4, <2>7 DEF AskSound
  <2> QED
    BY <2>8, <2>9, <2>10, <2>11, <2>12, DraftMoves
<1> QED
  BY <1>1, <1>2 DEF UpsertActive

\* The calendar makes an event of a plan that was ready, or has one already.
LEMMA CalendarSteps ==
    ASSUME DraftInv, NEW h \in Taskers, CallCalendar(h) \/ LoseCalendar(h)
    PROVE  DraftInv'
<1>0. /\ ask \in [Taskers -> AskRows] /\ ask[h] \in AskRows /\ ask[h].plan \in Plans
      /\ meets \in Seq(MeetRows) /\ Len(rounds) \in Nat /\ RoundIds = 1..Len(rounds)
      /\ DOMAIN meets = RoundIds /\ UNCHANGED <<rounds, cards, hour>>
      /\ ask[h].at = "calendar" /\ Len(meets) = Len(rounds)
  BY DraftFacts, FieldTypes DEF CallCalendar, LoseCalendar
<1>1. PICK d \in RoundIds : d = ask[h].id
  BY <1>0 DEF DraftInv, AskSound
<1> DEFINE made == [time |-> ask[h].plan.time, who |-> ask[h].plan.who]
           meet == IF meets[d] = NoMeet THEN made ELSE meets[d]
<1>2. /\ ask[h].plan.time # 0 /\ ask[h].plan.who # {}
      /\ ask[h].card # 0 => ask[h].card \in DOMAIN cards /\ cards[ask[h].card].id = d
  BY <1>0, <1>1 DEF DraftInv, AskSound
<1>3. made \in MeetRows /\ made.time # 0 /\ made.who # {}
  BY <1>0, <1>2, FieldTypes DEF MeetRows
<1>4. meets[d] \in MeetRows /\ (meets[d] = NoMeet \/ Made(d))
  BY <1>0, <1>1 DEF DraftInv, RoundSound
<1>5. meet \in MeetRows /\ meet.time # 0 /\ meet.who # {}
  BY <1>3, <1>4 DEF Made
<1>6. meets' = [meets EXCEPT ![d] = meet]
  BY <1>0, <1>1 DEF CallCalendar, LoseCalendar
<1>7. meets[d] # NoMeet => meet = meets[d]
  OBVIOUS
<1> HIDE DEF made, meet
<1>8. PICK w \in MeetRows : w = meet
  BY <1>5
<1>9. /\ meets' \in Seq(MeetRows) /\ Len(meets') = Len(meets) /\ meets'[d] = w
      /\ \A e \in RoundIds \ {d} : meets'[e] = meets[e]
  BY <1>0, <1>1, <1>6, <1>8
<1>10. RoundIds' = RoundIds
  BY <1>0 DEF RoundIds
<1>11. Made(d)' /\ \A e \in RoundIds : Made(e) => Made(e)'
  BY <1>5, <1>8, <1>9 DEF Made
<1>12. \A e \in RoundIds' : RoundSound(e)'
  BY <1>0, <1>9, <1>10, <1>11 DEF DraftInv, RoundSound
<1>13. TablesGrow /\ \A k \in DOMAIN cards' : CardSound(k)'
  BY <1>0, <1>10, <1>11 DEF DraftInv, CardSound, TablesGrow
<1>14. ASSUME NEW q \in AskRows, ask' = [ask EXCEPT ![h] = q], AskSound(h)'
       PROVE  DraftInv'
  <2>1. DraftTypes' /\ \A g \in Taskers \ {h} : ask'[g] = ask[g]
    BY <1>0, <1>9, <1>14, DraftFacts DEF DraftTypes
  <2> QED
    BY <1>12, <1>13, <1>14, <2>1, DraftMoves
<1>15. CASE CallCalendar(h)
  <2> DEFINE q == [ask[h] EXCEPT !.at = "mark"]
  <2>1. ask' = [ask EXCEPT ![h] = q]
    BY <1>0, <1>15 DEF CallCalendar
  <2>2. q \in AskRows /\ q.at = "mark" /\ q.id = d /\ q.card = ask[h].card
    BY <1>0, <1>1 DEF AskRows
  <2> HIDE DEF q
  <2>3. AskSound(h)'
    BY <1>0, <1>2, <1>10, <1>11, <2>1, <2>2 DEF AskSound
  <2> QED
    BY <1>14, <2>1, <2>2, <2>3
<1>16. CASE LoseCalendar(h)
  <2>1. ask' = [ask EXCEPT ![h] = NoAsk] /\ ask'[h].at = "free"
    BY <1>0, <1>16, DraftFacts DEF LoseCalendar
  <2>2. AskSound(h)'
    BY <2>1 DEF AskSound
  <2> QED
    BY <1>14, <2>1, <2>2, DraftFacts
<1> QED
  BY <1>15, <1>16

\* The row is closed, and its card is about to say so.
LEMMA MarkSteps ==
    ASSUME DraftInv, NEW h \in Taskers, MarkBooked(h) \/ MarkCancelled(h)
    PROVE  DraftInv'
<1>0. /\ ask \in [Taskers -> AskRows] /\ ask[h] \in AskRows /\ DOMAIN rounds = RoundIds
      /\ rounds \in Seq(RoundRows) /\ UNCHANGED <<meets, cards, hour>>
      /\ ask[h].at \in {"mark", "drop"}
  BY DraftFacts DEF MarkBooked, MarkCancelled
<1>1. PICK d \in RoundIds : d = ask[h].id
  BY <1>0 DEF DraftInv, AskSound
<1>2. /\ ask[h].card # 0 => ask[h].card \in DOMAIN cards /\ cards[ask[h].card].id = d
      /\ ask[h].at = "mark" => Made(d)
  BY <1>0, <1>1 DEF DraftInv, AskSound
<1>3. rounds[d] \in RoundRows /\ RoundSound(d)
  BY <1>0, <1>1 DEF DraftInv
<1>4. ASSUME NEW says \in Says, says = "booked" => Made(d),
             rounds' = [rounds EXCEPT ![d].status = says],
             ask' = [ask EXCEPT ![h].says = says, ![h].at = "card"]
      PROVE  DraftInv'
  <2> DEFINE row == [rounds[d] EXCEPT !.status = says]
             q == [ask[h] EXCEPT !.says = says, !.at = "card"]
  <2>1. rounds' = [rounds EXCEPT ![d] = row] /\ ask' = [ask EXCEPT ![h] = q]
    BY <1>0, <1>4
  <2>2. row \in RoundRows /\ row.status = says /\ row.card = rounds[d].card
    BY <1>3 DEF RoundRows
  <2>3. /\ q \in AskRows /\ q.at = "card" /\ q.id = d /\ q.card = ask[h].card
        /\ q.says = says
    BY <1>0, <1>1 DEF AskRows
  <2> HIDE DEF row, q
  <2>4. Len(rounds') = Len(rounds)
    BY <1>0, <2>1
  <2>5. ask'[h] = q
    BY <1>0, <2>1
  <2>6. RoundIds' = RoundIds
    BY <2>4 DEF RoundIds
  <2>7. AskSound(h)'
    BY <1>0, <1>2, <1>4, <2>3, <2>5, <2>6 DEF AskSound, Made
  <2>8. row.card # 0 => row.card \in DOMAIN cards /\ cards[row.card].id = d
    BY <1>3, <2>2 DEF RoundSound
  <2> QED
    BY <1>0, <1>4, <2>1, <2>2, <2>3, <2>7, <2>8, RoundMoves
<1>5. CASE MarkBooked(h)
  <2>1. "booked" \in Says
    BY DEF Says
  <2> QED
    BY <1>1, <1>2, <1>4, <1>5, <2>1 DEF MarkBooked
<1>6. CASE MarkCancelled(h)
  <2>1. "cancelled" \in Says
    BY DEF Says
  <2> QED
    BY <1>1, <1>4, <1>6, <2>1 DEF MarkCancelled
<1> QED
  BY <1>5, <1>6

\* The row learns of its card.
LEMMA AttachStep ==
    ASSUME DraftInv, NEW h \in Taskers, AttachCard(h)
    PROVE  DraftInv'
<1>0. /\ ask \in [Taskers -> AskRows] /\ ask[h] \in AskRows /\ DOMAIN rounds = RoundIds
      /\ rounds \in Seq(RoundRows) /\ UNCHANGED <<meets, cards, hour>>
      /\ ask[h].at = "attach" /\ ask[h].card \in Nat
  BY DraftFacts, FieldTypes DEF AttachCard
<1>1. PICK d \in RoundIds : d = ask[h].id
  BY <1>0 DEF DraftInv, AskSound
<1>2. ask[h].card # 0 => ask[h].card \in DOMAIN cards /\ cards[ask[h].card].id = d
  BY <1>0, <1>1 DEF DraftInv, AskSound
<1>3. rounds[d] \in RoundRows /\ RoundSound(d)
  BY <1>0, <1>1 DEF DraftInv
<1> DEFINE c == ask[h].card
           row == [rounds[d] EXCEPT !.card = c]
<1>4. rounds' = [rounds EXCEPT ![d] = row] /\ ask' = [ask EXCEPT ![h] = NoAsk]
  BY <1>0, <1>1 DEF AttachCard
<1>5. c \in Nat
  BY <1>0
<1> HIDE DEF c
<1>6. row \in RoundRows /\ row.status = rounds[d].status /\ row.card = c
  BY <1>3, <1>5 DEF RoundRows
<1> HIDE DEF row
<1>7. ask'[h].at = "free"
  BY <1>0, <1>4, DraftFacts
<1>8. AskSound(h)'
  BY <1>7 DEF AskSound
<1>9. row.card # 0 => row.card \in DOMAIN cards /\ cards[row.card].id = d
  BY <1>2, <1>6 DEF c
<1>10. row.status = "booked" => Made(d)
  BY <1>3, <1>6 DEF RoundSound
<1> QED
  BY <1>0, <1>4, <1>6, <1>8, <1>9, <1>10, DraftFacts, RoundMoves

\* A card is drawn from what its row was seen to say, or inserted.
LEMMA SyncStep ==
    ASSUME DraftInv, NEW h \in Taskers, SyncCard(h)
    PROVE  DraftInv'
<1>0. /\ ask \in [Taskers -> AskRows] /\ ask[h] \in AskRows /\ cards \in Seq(CardRows)
      /\ Len(cards) \in Nat /\ DOMAIN cards = 1..Len(cards)
      /\ UNCHANGED <<rounds, meets, hour>> /\ ask[h].at = "card"
      /\ ask[h].card \in Nat /\ ask[h].id \in Nat /\ ask[h].says \in Says
  BY DraftFacts, FieldTypes DEF SyncCard
<1>1. PICK d \in RoundIds : d = ask[h].id
  BY <1>0 DEF DraftInv, AskSound
<1>2. /\ ask[h].card # 0 => ask[h].card \in DOMAIN cards /\ cards[ask[h].card].id = d
      /\ ask[h].says = "booked" => Made(d)
  BY <1>0, <1>1 DEF DraftInv, AskSound
<1>3. RoundIds' = RoundIds /\ \A e \in RoundIds : Made(e)' <=> Made(e)
  BY <1>0 DEF RoundIds, Made
<1>4. ASSUME NEW k \in Nat, NEW card \in CardRows, cards' \in Seq(CardRows),
             DOMAIN cards' = DOMAIN cards \cup {k}, cards'[k] = card,
             \A j \in DOMAIN cards \ {k} : cards'[j] = cards[j],
             k \in DOMAIN cards => cards[k].id = d,
             card.id = d, card.says = "booked" => Made(d),
             NEW q \in AskRows, ask' = [ask EXCEPT ![h] = q],
             q.at = "free" \/ (q.at = "attach" /\ q.id = d /\ q.card = k /\ q.says = card.says)
      PROVE  DraftInv'
  <2>1. DraftTypes' /\ \A g \in Taskers \ {h} : ask'[g] = ask[g]
    BY <1>0, <1>4 DEF DraftInv, DraftTypes
  <2>2. ask'[h] = q
    BY <1>0, <1>4
  <2>3. TablesGrow
    BY <1>3, <1>4 DEF TablesGrow
  <2>4. \A e \in RoundIds' : RoundSound(e)'
    BY <1>0, <1>3, <2>3 DEF DraftInv, RoundSound, TablesGrow
  <2>5. \A j \in DOMAIN cards' : CardSound(j)'
    <3> SUFFICES ASSUME NEW j \in DOMAIN cards' PROVE CardSound(j)'
      OBVIOUS
    <3>1. CASE j = k
      BY <1>3, <1>4, <3>1 DEF CardSound
    <3>2. CASE j # k
      BY <1>3, <1>4, <3>2 DEF DraftInv, CardSound
    <3> QED
      BY <3>1, <3>2
  <2>6. AskSound(h)'
    BY <1>3, <1>4, <2>2 DEF AskSound
  <2> QED
    BY <2>1, <2>3, <2>4, <2>5, <2>6, DraftMoves
<1>5. CASE /\ ask[h].card # 0 /\ ask' = [ask EXCEPT ![h] = NoAsk]
           /\ cards' = [cards EXCEPT ![ask[h].card].says = ask[h].says,
                          ![ask[h].card].gone = @ \/ ask[h].kind = "cancel"]
  <2> DEFINE k == ask[h].card
             gone == cards[k].gone \/ ask[h].kind = "cancel"
             says == ask[h].says
             card == [cards[k] EXCEPT !.says = says, !.gone = gone]
  <2>1. k \in DOMAIN cards /\ cards[k] \in CardRows /\ cards[k].id = d /\ k \in Nat
    BY <1>0, <1>2, <1>5
  <2>2. cards' = [cards EXCEPT ![k] = card]
    BY <1>0, <1>5, <2>1
  <2>3. gone \in BOOLEAN /\ says \in Says
    BY <1>0, <2>1 DEF CardRows
  <2> HIDE DEF gone, says
  <2>4. card \in CardRows /\ card.id = d /\ card.says = says
    BY <2>1, <2>3 DEF CardRows
  <2>5. says = "booked" => Made(d)
    BY <1>2 DEF says
  <2> HIDE DEF k, card
  <2>6. /\ cards' \in Seq(CardRows) /\ DOMAIN cards' = DOMAIN cards \cup {k} /\ cards'[k] = card
        /\ \A j \in DOMAIN cards \ {k} : cards'[j] = cards[j]
    BY <1>0, <2>1, <2>2, <2>4
  <2> QED
    BY <1>4, <1>5, <2>1, <2>4, <2>5, <2>6, DraftFacts
<1>6. CASE /\ ask[h].card = 0 /\ ask' = [ask EXCEPT ![h].card = Len(cards) + 1, ![h].at = "attach"]
           /\ cards' = Append(cards, [id |-> ask[h].id, says |-> ask[h].says, gone |-> FALSE])
  <2> DEFINE k == Len(cards) + 1
             says == ask[h].says
             card == [id |-> d, says |-> says, gone |-> FALSE]
             q == [ask[h] EXCEPT !.card = k, !.at = "attach"]
  <2>1. k \in Nat /\ k \notin DOMAIN cards /\ DOMAIN cards \cup {k} = 1..k
    BY <1>0
  <2>2. says \in Says /\ (says = "booked" => Made(d)) /\ d \in Nat
    BY <1>0, <1>1, <1>2
  <2>3. cards' = Append(cards, card) /\ ask' = [ask EXCEPT ![h] = q]
    BY <1>0, <1>1, <1>6
  <2>4. card \in CardRows /\ card.id = d /\ card.says = says
    BY <2>2 DEF CardRows
  <2> HIDE DEF card
  <2>5. /\ cards' \in Seq(CardRows) /\ DOMAIN cards' = 1..k /\ cards'[k] = card
        /\ \A j \in DOMAIN cards \ {k} : cards'[j] = cards[j]
    BY <1>0, <2>3, <2>4
  <2> HIDE DEF k
  <2>6. q \in AskRows /\ q.at = "attach" /\ q.id = d /\ q.card = k /\ q.says = says
    BY <1>0, <1>1, <2>1 DEF AskRows
  <2> HIDE DEF q, says
  <2> QED
    BY <1>4, <2>1, <2>2, <2>3, <2>4, <2>5, <2>6
<1>7. CASE ask' = [ask EXCEPT ![h] = NoAsk] /\ UNCHANGED cards
  <2>1. ask'[h].at = "free"
    BY <1>0, <1>7, DraftFacts
  <2>2. AskSound(h)'
    BY <2>1 DEF AskSound
  <2> QED
    BY <1>0, <1>7, <2>2, DraftFacts, AskMoves
<1> QED
  BY <1>5, <1>6, <1>7 DEF SyncCard

\* DraftInv is an invariant.
LEMMA DraftInductive == MeetingDraftSpec => []DraftInv
<1>1. MeetingDraftInit => DraftInv
  <2> SUFFICES ASSUME MeetingDraftInit PROVE DraftInv
    OBVIOUS
  <2>1. Blankly \in Plans
    BY DEF Blankly, Plans
  <2>2. NoAsk \in AskRows /\ NoAsk.at = "free"
    BY <2>1 DEF NoAsk, AskRows, Says
  <2>3. DraftTypes /\ RoundIds = {} /\ DOMAIN cards = {}
    BY <2>2 DEF MeetingDraftInit, DraftTypes, RoundIds
  <2>4. \A h \in Taskers : AskSound(h)
    BY <2>2 DEF MeetingDraftInit, AskSound
  <2> QED
    BY <2>3, <2>4 DEF DraftInv
<1>2. DraftInv /\ [MeetingDraftNext]_draftVars => DraftInv'
  <2> SUFFICES ASSUME DraftInv, [MeetingDraftNext]_draftVars PROVE DraftInv'
    OBVIOUS
  <2>1. CASE UNCHANGED <<rounds, meets, cards, ask>> /\ hour' \in Nat
    BY <2>1 DEF DraftInv, DraftTypes, RoundSound, CardSound, AskSound, RoundIds, Made
  <2>2. CASE HourPasses
    BY <2>1, <2>2, DraftFacts DEF HourPasses
  <2>3. CASE UNCHANGED draftVars
    BY <2>1, <2>3, DraftFacts DEF draftVars
  <2>4. ASSUME NEW h \in Taskers,
               \/ AskRefine(h) \/ \E kind \in {"book", "pick", "cancel"} : AskOn(h, kind)
               \/ ReadActive(h) \/ AskFails(h)
        PROVE  DraftInv'
    BY <2>4, AskSteps
  <2>5. ASSUME NEW h \in Taskers, LoadToBook(h) \/ LoadToPick(h) \/ LoadToCancel(h)
        PROVE  DraftInv'
    BY <2>5, LoadSteps
  <2>6. ASSUME NEW h \in Taskers, CallCalendar(h) \/ LoseCalendar(h) PROVE DraftInv'
    BY <2>6, CalendarSteps
  <2>7. ASSUME NEW h \in Taskers, MarkBooked(h) \/ MarkCancelled(h) PROVE DraftInv'
    BY <2>7, MarkSteps
  <2>8. ASSUME NEW h \in Taskers, UpsertActive(h) \/ SyncCard(h) \/ AttachCard(h) PROVE DraftInv'
    BY <2>8, UpsertStep, SyncStep, AttachStep
  <2> QED
    BY <2>2, <2>3, <2>4, <2>5, <2>6, <2>7, <2>8 DEF MeetingDraftNext
<1> QED
  BY <1>1, <1>2, PTL DEF MeetingDraftSpec

\* Neither a row nor a card says that a meeting is booked before the calendar has it,
\* whatever taps, turns, cancels and lost answers meet, for every number of requests.
THEOREM BookingsHaveEvents ==
    MeetingDraftSpec => []BookedHasEvent
<1>1. DraftInv => BookedHasEvent
  <2> SUFFICES ASSUME DraftInv PROVE BookedHasEvent
    OBVIOUS
  <2>1. \A d \in RoundIds : Made(d) => meets[d] # NoMeet
    BY DEF Made, NoMeet
  <2> QED
    BY <2>1 DEF DraftInv, RoundSound, CardSound, BookedHasEvent, Made
<1> QED
  BY <1>1, DraftInductive, PTL

\* A request that has not been at its row yet has no card, and no row to come.
EarlyAsk(h) == ask[h].at \in {"free", "read", "load", "upsert"} => ask[h].card = 0 /\ ask[h].id <= Len(rounds)

LEMMA EarlyAskStep ==
    ASSUME DraftInv, DraftInv', \A h \in Taskers : EarlyAsk(h), [MeetingDraftNext]_draftVars
    PROVE  \A h \in Taskers : EarlyAsk(h)'
<1> DEFINE Early == {"free", "read", "load", "upsert"}
           Kept(h) == ask'[h].at \in Early =>
                        \/ ask'[h] = NoAsk
                        \/ ask'[h].at = "load" /\ ask'[h].card = ask[h].card /\ ask[h].at \in Early
                        \/ ask'[h].id = ask[h].id /\ ask'[h].card = ask[h].card /\ ask[h].at \in Early
<1>0. ask \in [Taskers -> AskRows] /\ NoAsk \in AskRows /\ NoAsk.at = "free" /\ NoAsk.id = 0 /\ NoAsk.card = 0
  BY DraftFacts DEF NoAsk
<1>1. Len(rounds) \in Nat /\ Len(rounds') \in Nat /\ Len(rounds') >= Len(rounds)
  <2>1. rounds \in Seq(RoundRows) /\ rounds' \in Seq(RoundRows)
    BY DEF DraftInv, DraftTypes
  <2>2. rounds' = rounds \/ (\E i, r : rounds' = [rounds EXCEPT ![i] = r]) \/ (\E r : rounds' = Append(rounds, r))
    BY DEF MeetingDraftNext, draftVars, AskRefine, AskOn, ReadActive, UpsertActive, LoadToBook, LoadToPick,
           LoadToCancel, CallCalendar, LoseCalendar, MarkBooked, MarkCancelled, SyncCard, AttachCard,
           AskFails, HourPasses
  <2> QED
    BY <2>1, <2>2
<1>2. ASSUME NEW h \in Taskers, AskRefine(h) \/ AskFails(h) \/ ReadActive(h) PROVE Kept(h)
  <2>1. CASE AskRefine(h) \/ AskFails(h)
    BY <1>0, <2>1 DEF AskRefine, AskFails, AskRows
  <2>2. ASSUME NEW p, ask[h].at = "read", ask' = [ask EXCEPT ![h].plan = p, ![h].at = "upsert"] PROVE Kept(h)
    BY <1>0, <2>2 DEF AskRows
  <2> QED
    BY <1>2, <2>1, <2>2 DEF ReadActive
<1>3. ASSUME NEW h \in Taskers, NEW kind \in {"book", "pick", "cancel"}, AskOn(h, kind) PROVE Kept(h)
  BY <1>0, <1>3 DEF AskOn, AskRows
<1>4. ASSUME NEW h \in Taskers, LoadToBook(h) \/ LoadToCancel(h) PROVE Kept(h)
  BY <1>0, <1>4 DEF LoadToBook, LoadToCancel, ToCard, Loads, AskRows
<1>5. ASSUME NEW h \in Taskers, LoadToPick(h) PROVE Kept(h)
  <2>1. CASE \E g \in Invitees :
               ask' = [ask EXCEPT ![h].at = "upsert", ![h].plan = WithContacts(DraftRow(h).plan, {g}, FALSE)]
    BY <1>0, <1>5, <2>1 DEF LoadToPick, Loads, AskRows
  <2>2. CASE ToCard(h, DraftRow(h).status)
    BY <1>0, <2>2 DEF ToCard, AskRows
  <2> QED
    BY <1>5, <2>1, <2>2 DEF LoadToPick
<1>6. ASSUME NEW h \in Taskers, CallCalendar(h) \/ LoseCalendar(h) \/ MarkBooked(h) \/ MarkCancelled(h)
      PROVE  Kept(h)
  BY <1>0, <1>6 DEF CallCalendar, LoseCalendar, MarkBooked, MarkCancelled, AskRows
<1>7. ASSUME NEW h \in Taskers, UpsertActive(h) PROVE Kept(h)
  <2>1. ASSUME NEW d, Landed(h, d) PROVE Kept(h)
    BY <1>0, <2>1 DEF Landed, AskRows
  <2> QED
    BY <1>7, <2>1 DEF UpsertActive
<1>8. ASSUME NEW h \in Taskers, SyncCard(h) \/ AttachCard(h) PROVE Kept(h)
  BY <1>0, <1>8 DEF SyncCard, AttachCard, AskRows
<1>9. ASSUME NEW g \in Taskers,
             \/ AskRefine(g) \/ \E kind \in {"book", "pick", "cancel"} : AskOn(g, kind)
             \/ ReadActive(g) \/ UpsertActive(g)
             \/ LoadToBook(g) \/ LoadToPick(g) \/ LoadToCancel(g)
             \/ CallCalendar(g) \/ LoseCalendar(g) \/ MarkBooked(g) \/ MarkCancelled(g)
             \/ SyncCard(g) \/ AttachCard(g) \/ AskFails(g)
      PROVE  \A h \in Taskers \ {g} : ask'[h] = ask[h]
  BY <1>0, <1>9 DEF AskRefine, AskOn, ReadActive, UpsertActive, Landed, LoadToBook, LoadToPick,
         LoadToCancel, ToCard, CallCalendar, LoseCalendar, MarkBooked, MarkCancelled, SyncCard, AttachCard, AskFails
<1>10. ASSUME NEW h \in Taskers, ask'[h] = ask[h] PROVE Kept(h)
  BY <1>10
<1> HIDE DEF Kept
<1>11. \A h \in Taskers : Kept(h)
  BY <1>2, <1>3, <1>4, <1>5, <1>6, <1>7, <1>8, <1>9, <1>10 DEF MeetingDraftNext, draftVars, HourPasses
<1> SUFFICES ASSUME NEW h \in Taskers, ask'[h].at \in Early PROVE ask'[h].card = 0 /\ ask'[h].id <= Len(rounds')
  BY DEF EarlyAsk
<1>12. ask[h].id \in Nat /\ ask'[h].id \in Nat
  BY <1>0, DraftFacts, FieldTypes DEF DraftInv, DraftTypes
<1>13. ask'[h].at = "load" => ask'[h].id \in 1..Len(rounds')
  BY DEF DraftInv, AskSound, RoundIds
<1>14. Kept(h) /\ EarlyAsk(h)
  BY <1>11
<1> QED
  BY <1>0, <1>1, <1>12, <1>13, <1>14 DEF EarlyAsk, Kept

\* The rows, the events and the requests of the app's meetings are whole, and no request
\* points beyond the tables.
THEOREM MeetingDraftTypes == MeetingDraftSpec => []MeetingDraftTypeOK
<1>1. MeetingDraftInit => \A h \in Taskers : EarlyAsk(h)
  BY DEF MeetingDraftInit, EarlyAsk, NoAsk
<1>2. DraftInv /\ (\A h \in Taskers : EarlyAsk(h)) => MeetingDraftTypeOK
  <2> SUFFICES ASSUME DraftInv, \A h \in Taskers : EarlyAsk(h) PROVE MeetingDraftTypeOK
    OBVIOUS
  <2>1. ASSUME NEW d \in RoundIds
        PROVE  /\ rounds[d].status \in {"drafting", "booked", "cancelled"}
               /\ rounds[d].plan.who \subseteq Invitees /\ rounds[d].card \in 0..Len(cards)
    <3>1. rounds[d] \in RoundRows /\ Len(cards) \in Nat /\ DOMAIN cards = 1..Len(cards)
      BY DraftFacts
    <3>2. rounds[d].status \in Says /\ rounds[d].plan.who \subseteq Invitees /\ rounds[d].card \in Nat
      BY <3>1, FieldTypes
    <3> QED
      BY <3>1, <3>2 DEF DraftInv, RoundSound, Says
  <2>2. ASSUME NEW h \in Taskers PROVE ask[h].id \in 0..Len(rounds) /\ ask[h].card \in 0..Len(cards)
    <3>1. ask[h] \in AskRows /\ Len(cards) \in Nat /\ Len(rounds) \in Nat /\ DOMAIN cards = 1..Len(cards)
          /\ RoundIds = 1..Len(rounds)
      BY DraftFacts
    <3>2. ask[h].id \in Nat /\ ask[h].card \in Nat
      BY <3>1, FieldTypes
    <3>3. ask[h].at \in {"free", "read", "upsert", "load", "calendar", "mark", "drop", "card", "attach"}
      BY <3>1 DEF AskRows
    <3>4. AskSound(h) /\ EarlyAsk(h)
      BY DEF DraftInv
    <3> QED
      BY <3>1, <3>2, <3>3, <3>4 DEF AskSound, EarlyAsk
  <2> QED
    BY <2>1, <2>2 DEF MeetingDraftTypeOK, DraftInv, DraftTypes
<1>3. /\ DraftInv /\ DraftInv' /\ (\A h \in Taskers : EarlyAsk(h)) /\ [MeetingDraftNext]_draftVars
      => (\A h \in Taskers : EarlyAsk(h))'
  BY EarlyAskStep
<1> QED
  BY <1>1, <1>2, <1>3, DraftInductive, PTL DEF MeetingDraftSpec

-----------------------------------------------------------------------------
(* DayView.                                                                  *)

Spans == Windows \cup {Gone}
SheetRows == [mode : {"none", "block", "edit"}, entry : Entries \cup {"none"}, was : Spans,
              window : Spans, warned : BOOLEAN, by : Handlers \cup {"none"}]
EventReplies == {"none", "invalid", "unavailable", "unnamed", "conflict", "booked", "failed",
                 "not_found", "updated", "deleted"}
CallRows == [at : {"free", "read", "list", "judge", "write", "answer"},
             kind : {"none", "block", "edit", "delete"}, entry : Entries \cup {"none"},
             window : Spans, moved : BOOLEAN, resized : BOOLEAN, confirmed : BOOLEAN,
             busy : SUBSET Windows, listed : SUBSET Entries, before : SUBSET Entries,
             answer : EventReplies]

\* A block that is still to be checked knows of events that are in the calendar, one
\* that was checked has seen something busy if any were, and one that will be written
\* knows of none.
BlockSound(h) == request[h].kind = "block" =>
    /\ request[h].at = "read" => request[h].before \subseteq Meets(request[h].window)
    /\ request[h].at = "judge" /\ request[h].before # {} => request[h].busy # {}
    /\ request[h].at = "write" => request[h].before = {}

DayInv ==
    /\ agenda \in [Entries -> Spans] /\ sheet \in SheetRows
    /\ request \in [Handlers -> CallRows]
    /\ \A h \in Handlers : BlockSound(h)

\* The least of a set of numbers.
LEMMA LeastOfStamps ==
    ASSUME NEW S \in SUBSET Nat, S # {}
    PROVE  \E v \in S : \A u \in S : v <= u
<1> DEFINE Below(v) == 1..v
           T == {Below(v) : v \in S}
<1>1. ASSUME NEW v \in S PROVE Below(v) \in FiniteSubsetsOf(Nat)
  BY FS_Interval DEF FiniteSubsetsOf
<1>2. T \subseteq FiniteSubsetsOf(Nat) /\ T # {}
  BY <1>1
<1> HIDE DEF T
<1>3. PICK x \in T : \A y \in T : <<y, x>> \notin StrictSubsetOrdering(Nat)
  BY <1>2, WFMin, FS_StrictSubsetOrderingWellFounded
<1>4. PICK v \in S : x = Below(v)
  BY DEF T
<1>5. ASSUME NEW u \in S PROVE v <= u
  <2>1. Below(u) \in T /\ Below(u) \in SUBSET Nat /\ Below(v) \in SUBSET Nat
    BY DEF T
  <2>2. ~(Below(u) \subseteq Below(v) /\ Below(u) # Below(v))
    BY <1>3, <1>4, <2>1 DEF StrictSubsetOrdering
  <2>3. ASSUME u < v PROVE FALSE
    <3>1. Below(u) \subseteq Below(v) /\ v \in Below(v) /\ v \notin Below(u)
      BY <2>3
    <3> QED
      BY <2>2, <3>1
  <2> QED
    BY <2>3
<1> QED
  BY <1>5

\* Where anything is busy there is a busy run, free before its start and at its end.
LEMMA SomethingIsBusy ==
    ASSUME NEW cells \in SUBSET (0 .. Horizon - 1), NEW c \in cells
    PROVE  \E w \in Windows : Held(w) \subseteq cells /\ w.from - 1 \notin cells /\ w.to \notin cells
<1> DEFINE Ends == {y \in Nat : y > c /\ y \notin cells}
           Starts == {x \in Nat : x <= c /\ x .. c \subseteq cells}
<1>0. Horizon \in Nat /\ c \in Nat /\ c < Horizon
  BY StandingAssumption
<1>1. Horizon \in Ends /\ c \in Starts
  BY <1>0
<1>2. Ends \in SUBSET Nat /\ Starts \in SUBSET Nat
  OBVIOUS
<1>3. PICK to \in Ends : \A y \in Ends : to <= y
  BY <1>1, <1>2, LeastOfStamps
<1>4. PICK from \in Starts : \A x \in Starts : from <= x
  BY <1>1, <1>2, LeastOfStamps
<1>5. to \in Nat /\ from \in Nat /\ from <= c /\ c < to /\ to <= Horizon
  BY <1>0, <1>1, <1>3
<1>6. from - 1 \notin cells
  <2> SUFFICES ASSUME from - 1 \in cells PROVE FALSE
    OBVIOUS
  <2>1. from - 1 \in Nat
    BY <1>0
  <2>2. from - 1 .. c \subseteq cells
    <3>1. \A x \in from - 1 .. c : x = from - 1 \/ x \in from .. c
      BY <1>5
    <3> QED
      BY <3>1
  <2>3. from - 1 \in Starts
    BY <1>5, <2>1, <2>2
  <2> QED
    BY <1>4, <1>5, <2>3
<1>7. \A x \in from .. to - 1 : x \in cells
  <2> SUFFICES ASSUME NEW x \in from .. to - 1 PROVE x \in cells
    OBVIOUS
  <2>1. CASE x <= c
    BY <1>5, <2>1
  <2>2. CASE x > c
    BY <1>3, <1>5, <2>2
  <2> QED
    BY <1>5, <2>1, <2>2
<1> DEFINE w == [from |-> from, to |-> to]
<1>8. w \in Windows /\ w.from = from /\ w.to = to
  BY <1>0, <1>5 DEF Windows
<1>9. to \notin cells
  BY <1>3
<1> HIDE DEF w
<1> QED
  BY <1>6, <1>7, <1>8, <1>9 DEF Held

\* The busy times of events that are in the calendar are not empty.
LEMMA BusyIsSeen ==
    ASSUME agenda \in [Entries -> Spans], NEW w, Meets(w) # {}
    PROVE  BusyRuns(Meets(w)) # {}
<1>1. PICK e \in Meets(w) : TRUE
  OBVIOUS
<1>2. \A f \in Meets(w) : agenda[f] \in Windows
  BY DEF Meets, Present, Spans
<1> DEFINE cells == UNION {Held(agenda[f]) : f \in Meets(w)}
<1>3. \A f \in Meets(w) : \A x \in Held(agenda[f]) : x \in 0 .. Horizon - 1
  <2> SUFFICES ASSUME NEW v \in Windows, NEW x \in Held(v) PROVE x \in 0 .. Horizon - 1
    BY <1>2
  <2> QED
    BY StandingAssumption DEF Windows, Held
<1>4. cells \in SUBSET (0 .. Horizon - 1)
  BY <1>3
<1>5. agenda[e].from \in Held(agenda[e])
  <2> SUFFICES ASSUME NEW v \in Windows PROVE v.from \in Held(v)
    BY <1>1, <1>2
  <2> QED
    BY StandingAssumption DEF Windows, Held
<1>6. agenda[e].from \in cells
  BY <1>1, <1>5
<1> HIDE DEF cells
<1>7. \E v \in Windows : Held(v) \subseteq cells /\ v.from - 1 \notin cells /\ v.to \notin cells
  BY <1>4, <1>6, SomethingIsBusy
<1> QED
  BY <1>7 DEF BusyRuns, cells

\* A request that keeps what it is about, and whose events stay where they are while it
\* is to be checked, stays sound.
LEMMA BlockStays ==
    ASSUME NEW g \in Handlers, BlockSound(g),
           request'[g].kind = request[g].kind, request'[g].window = request[g].window,
           request'[g].at = request[g].at \/ request'[g].at = "answer",
           request'[g].busy = request[g].busy, request'[g].before \subseteq request[g].before,
           \A f \in request'[g].before :
                request[g].at = "read" /\ request[g].kind = "block" => agenda'[f] = agenda[f]
    PROVE  BlockSound(g)'
BY DEF BlockSound, Meets, Present

\* A step that gives one request another record.
LEMMA CallMoves ==
    ASSUME DayInv, agenda' = agenda, sheet' \in SheetRows, NEW h \in Handlers,
           NEW q \in CallRows, request' = [request EXCEPT ![h] = q],
           q.kind = "block" =>
                /\ q.at = "read" => q.before \subseteq Meets(q.window)
                /\ q.at = "judge" /\ q.before # {} => q.busy # {}
                /\ q.at = "write" => q.before = {}
    PROVE  DayInv'
<1>1. /\ request' \in [Handlers -> CallRows] /\ request'[h] = q
      /\ \A g \in Handlers \ {h} : request'[g] = request[g]
  BY DEF DayInv
<1>2. BlockSound(h)'
  BY <1>1 DEF BlockSound, Meets, Present
<1>3. ASSUME NEW g \in Handlers \ {h} PROVE BlockSound(g)'
  BY <1>1 DEF DayInv, BlockSound, Meets, Present
<1> QED
  BY <1>1, <1>2, <1>3 DEF DayInv

LEMMA CallTypesOf ==
    ASSUME DayInv
    PROVE  /\ FreeHandler \in CallRows /\ NoSheet \in SheetRows /\ Gone \in Spans
           /\ FreeHandler.kind = "none" /\ FreeHandler.before = {}
           /\ request \in [Handlers -> CallRows] /\ sheet \in SheetRows
           /\ agenda \in [Entries -> Spans]
           /\ \A r \in CallRows : /\ r.window \in Spans /\ r.before \subseteq Entries
                                  /\ r.entry \in Entries \cup {"none"}
                                  /\ r.kind \in {"none", "block", "edit", "delete"}
           /\ \A r \in SheetRows : /\ r.window \in Spans /\ r.was \in Spans /\ r.warned \in BOOLEAN
                                   /\ r.entry \in Entries \cup {"none"}
                                   /\ r.mode \in {"none", "block", "edit"}
<1>1. Gone \in Spans
  BY DEF Spans
<1>2. FreeHandler \in CallRows /\ FreeHandler.kind = "none" /\ FreeHandler.before = {}
  BY <1>1 DEF FreeHandler, CallRows, EventReplies
<1>3. NoSheet \in SheetRows
  BY <1>1 DEF NoSheet, SheetRows
<1> QED
  BY <1>1, <1>2, <1>3 DEF DayInv, CallRows, SheetRows

\* The screen and its sheet, as long as nothing is sent.
LEMMA ScreenSteps ==
    ASSUME DayInv, UNCHANGED <<agenda, request>>, sheet' \in SheetRows
    PROVE  DayInv'
BY DEF DayInv, BlockSound, Meets, Present

LEMMA SheetStays ==
    ASSUME DayInv,
           \/ \E d \in DaysOf : ShowDay(d) \/ DayArrives(d)
           \/ PickGap \/ ChangeFields \/ CloseSheet \/ ConnectionBreaks
           \/ \E e \in Entries : OpenEvent(e)
    PROVE  UNCHANGED <<agenda, request>> /\ sheet' \in SheetRows
<1>0. NoSheet \in SheetRows /\ sheet \in SheetRows /\ agenda \in [Entries -> Spans]
  BY CallTypesOf
<1>1. ASSUME NEW t \in 0 .. Horizon - 1, NEW n \in Lengths, t + n <= Horizon
      PROVE  [from |-> t, to |-> t + n] \in Spans
  <2>1. n \in Nat /\ n > 0 /\ t \in Nat /\ t + n \in 0..Horizon /\ t \in 0..Horizon /\ t < t + n
    BY <1>1, StandingAssumption
  <2> QED
    BY <2>1 DEF Spans, Windows
<1>2. CASE PickGap
  <2>1. PICK t \in 0 .. Horizon - 1, n \in Lengths :
            /\ t + n <= Horizon
            /\ sheet' = [NoSheet EXCEPT !.mode = "block", !.window = [from |-> t, to |-> t + n]]
    BY <1>2 DEF PickGap
  <2> DEFINE w == [from |-> t, to |-> t + n]
  <2>2. w \in Spans
    BY <1>1, <2>1
  <2> HIDE DEF w
  <2>3. [NoSheet EXCEPT !.mode = "block", !.window = w] \in SheetRows
    BY <1>0, <2>2 DEF SheetRows
  <2> QED
    BY <1>2, <2>1, <2>3 DEF PickGap, w
<1>3. CASE ChangeFields
  <2>1. PICK t \in 0 .. Horizon - 1, n \in Lengths :
            /\ t + n <= Horizon
            /\ sheet' = [sheet EXCEPT !.window = [from |-> t, to |-> t + n]]
    BY <1>3 DEF ChangeFields
  <2> DEFINE w == [from |-> t, to |-> t + n]
  <2>2. w \in Spans
    BY <1>1, <2>1
  <2> HIDE DEF w
  <2>3. [sheet EXCEPT !.window = w] \in SheetRows
    BY <1>0, <2>2 DEF SheetRows
  <2> QED
    BY <1>3, <2>1, <2>3 DEF ChangeFields, w
<1>4. CASE ConnectionBreaks
  <2>1. [sheet EXCEPT !.by = "none"] \in SheetRows
    BY <1>0 DEF SheetRows
  <2> QED
    BY <1>4, <2>1 DEF ConnectionBreaks
<1>5. ASSUME NEW e \in Entries, OpenEvent(e) PROVE UNCHANGED <<agenda, request>> /\ sheet' \in SheetRows
  <2> DEFINE w == agenda[e]
  <2>1. w \in Spans
    BY <1>0
  <2> HIDE DEF w
  <2>2. [NoSheet EXCEPT !.mode = "edit", !.entry = e, !.was = w, !.window = w] \in SheetRows
    BY <1>0, <2>1 DEF SheetRows
  <2> QED
    BY <1>5, <2>2 DEF OpenEvent, w
<1> QED
  BY <1>0, <1>2, <1>3, <1>4, <1>5 DEF ShowDay, DayArrives, CloseSheet

\* A request is sent with what the founder saw.
LEMMA SendSteps ==
    ASSUME DayInv, NEW h \in Handlers, SendBlock(h) \/ SendSave(h) \/ SendDelete(h)
    PROVE  DayInv'
<1>0. /\ NoSheet \in SheetRows /\ sheet \in SheetRows /\ FreeHandler \in CallRows
      /\ sheet.window \in Spans /\ sheet.warned \in BOOLEAN /\ sheet.entry \in Entries \cup {"none"}
  BY CallTypesOf
<1>1. [sheet EXCEPT !.by = h, !.warned = FALSE] \in SheetRows
  BY <1>0 DEF SheetRows
<1>2. CASE SendBlock(h)
  <2> DEFINE w == sheet.window
             m == Meets(w)
             q == [FreeHandler EXCEPT !.at = "read", !.kind = "block", !.window = w, !.before = m]
  <2>1. request' = [request EXCEPT ![h] = q] /\ sheet' \in SheetRows /\ agenda' = agenda
    BY <1>1, <1>2 DEF SendBlock, Submit
  <2>2. w \in Spans /\ m \subseteq Entries
    BY <1>0 DEF Meets
  <2> HIDE DEF w, m
  <2>3. q \in CallRows /\ q.at = "read" /\ q.before = m /\ q.window = w
    BY <1>0, <2>2 DEF CallRows
  <2> HIDE DEF q
  <2> QED
    BY <2>1, <2>3, CallMoves DEF m
<1>3. ASSUME NEW q \in CallRows, q.kind # "block", Submit(h, q) PROVE DayInv'
  BY <1>1, <1>3, CallMoves DEF Submit
<1>4. CASE SendDelete(h)
  <2> DEFINE e == sheet.entry
             q == [FreeHandler EXCEPT !.at = "write", !.kind = "delete", !.entry = e]
  <2>1. Submit(h, q) /\ e \in Entries \cup {"none"}
    BY <1>0, <1>4 DEF SendDelete
  <2> HIDE DEF e
  <2>2. q \in CallRows /\ q.kind = "delete"
    BY <1>0, <2>1 DEF CallRows
  <2> HIDE DEF q
  <2> QED
    BY <1>3, <2>1, <2>2
<1>5. CASE SendSave(h)
  <2> DEFINE startMoved == sheet.window.from # sheet.was.from
             lengthMoved == sheet.window.to - sheet.window.from # sheet.was.to - sheet.was.from
             stage == IF startMoved /\ lengthMoved THEN "read"
                      ELSE IF lengthMoved THEN "answer" ELSE "write"
             text == IF lengthMoved /\ ~startMoved THEN "invalid" ELSE "none"
             e == sheet.entry
             w == sheet.window
  <2>1. PICK anyway \in {FALSE, sheet.warned} :
            Submit(h, [FreeHandler EXCEPT !.at = stage, !.answer = text, !.kind = "edit",
                        !.entry = e, !.window = w, !.moved = startMoved,
                        !.resized = lengthMoved, !.confirmed = anyway])
    BY <1>5, Zenon DEF SendSave
  <2>2. /\ anyway \in BOOLEAN /\ e \in Entries \cup {"none"} /\ w \in Spans
        /\ startMoved \in BOOLEAN /\ lengthMoved \in BOOLEAN
    BY <1>0, Zenon
  <2>3. stage \in {"read", "answer", "write"} /\ text \in EventReplies
    BY DEF EventReplies
  <2> HIDE DEF startMoved, lengthMoved, stage, text, e, w
  <2> DEFINE q == [FreeHandler EXCEPT !.at = stage, !.answer = text, !.kind = "edit",
                        !.entry = e, !.window = w, !.moved = startMoved,
                        !.resized = lengthMoved, !.confirmed = anyway]
  <2>4. q \in CallRows /\ q.kind = "edit"
    BY <1>0, <2>2, <2>3 DEF CallRows
  <2>5. Submit(h, q)
    BY <2>1
  <2> HIDE DEF q
  <2> QED
    BY <1>3, <2>4, <2>5
<1> QED
  BY <1>2, <1>4, <1>5

\* The server answers.
LEMMA ReplyStep ==
    ASSUME DayInv, agenda' = agenda, sheet' \in SheetRows, NEW h \in Handlers,
           NEW text \in EventReplies, Replied(h, text)
    PROVE  DayInv'
<1> DEFINE k == request[h].kind
           q == [FreeHandler EXCEPT !.at = "answer", !.kind = k, !.answer = text]
<1>1. FreeHandler \in CallRows /\ k \in {"none", "block", "edit", "delete"}
  BY CallTypesOf
<1>2. request' = [request EXCEPT ![h] = q]
  BY DEF Replied
<1> HIDE DEF k
<1>3. q \in CallRows /\ q.at = "answer"
  BY <1>1 DEF CallRows
<1> HIDE DEF q
<1> QED
  BY <1>2, <1>3, CallMoves

\* The server reads and judges, and nothing it read was missed.
LEMMA ReadSteps ==
    ASSUME DayInv, NEW h \in Handlers,
           RefuseTime(h) \/ ReadFreeBusy(h) \/ ReadRange(h) \/ JudgeBlock(h) \/ JudgeEdit(h)
    PROVE  DayInv'
<1>0. /\ request \in [Handlers -> CallRows] /\ request[h] \in CallRows /\ BlockSound(h)
      /\ agenda \in [Entries -> Spans] /\ agenda' = agenda /\ sheet' \in SheetRows
  BY CallTypesOf DEF DayInv, RefuseTime, ReadFreeBusy, ReadRange, JudgeBlock, JudgeEdit, QuietServer
<1>1. "unavailable" \in EventReplies /\ "unnamed" \in EventReplies /\ "conflict" \in EventReplies
  BY DEF EventReplies
<1>2. ASSUME ToWrite(h), request[h].kind # "block" \/ request[h].before = {}
      PROVE  DayInv'
  <2> DEFINE q == [request[h] EXCEPT !.at = "write", !.busy = {}, !.listed = {}]
  <2>1. request' = [request EXCEPT ![h] = q]
    BY <1>0, <1>2 DEF ToWrite
  <2>2. q \in CallRows /\ q.at = "write" /\ q.kind = request[h].kind /\ q.before = request[h].before
    BY <1>0 DEF CallRows
  <2> HIDE DEF q
  <2> QED
    BY <1>0, <1>2, <2>1, <2>2, CallMoves
<1>3. CASE RefuseTime(h)
  BY <1>0, <1>1, <1>3, ReplyStep DEF RefuseTime
<1>4. CASE ReadFreeBusy(h)
  <2> DEFINE w == request[h].window
             busy == BusyRuns(Meets(w))
             stage == AfterRead(h)
             q == [request[h] EXCEPT !.busy = busy, !.at = stage]
  <2>1. request' = [request EXCEPT ![h] = q]
    BY <1>0, <1>4 DEF ReadFreeBusy
  <2>2. busy \subseteq Windows /\ stage \in {"judge", "list"}
    BY DEF BusyRuns, AfterRead
  <2>3. Meets(w) # {} => busy # {}
    BY <1>0, BusyIsSeen
  <2>4. request[h].kind = "block" => request[h].before \subseteq Meets(w) /\ stage = "judge"
    BY <1>0, <1>4 DEF ReadFreeBusy, Serving, BlockSound, AfterRead
  <2> HIDE DEF w, busy, stage
  <2>5. /\ q \in CallRows /\ q.at = stage /\ q.kind = request[h].kind
        /\ q.before = request[h].before /\ q.busy = busy
    BY <1>0, <2>2 DEF CallRows
  <2> HIDE DEF q
  <2>6. q.kind = "block" =>
                /\ q.at = "read" => q.before \subseteq Meets(q.window)
                /\ q.at = "judge" /\ q.before # {} => q.busy # {}
                /\ q.at = "write" => q.before = {}
    BY <2>2, <2>3, <2>4, <2>5
  <2> QED
    BY <1>0, <2>1, <2>5, <2>6, CallMoves
<1>5. CASE ReadRange(h)
  <2>1. PICK found \in SUBSET Meets(request[h].window) :
          request' = [request EXCEPT ![h].listed = found, ![h].at = "judge"]
    BY <1>5 DEF ReadRange
  <2>2. request[h].kind # "block" /\ found \subseteq Entries
    BY <1>5 DEF ReadRange, Serving, Meets
  <2> DEFINE q == [request[h] EXCEPT !.listed = found, !.at = "judge"]
  <2>3. request' = [request EXCEPT ![h] = q]
    BY <1>0, <2>1
  <2>4. q \in CallRows /\ q.kind = request[h].kind
    BY <1>0, <2>2 DEF CallRows
  <2> HIDE DEF q
  <2> QED
    BY <1>0, <2>2, <2>3, <2>4, CallMoves
<1>6. CASE JudgeBlock(h)
  <2>1. CASE request[h].busy # {}
    BY <1>0, <1>1, <1>6, <2>1, ReplyStep DEF JudgeBlock
  <2>2. CASE request[h].busy = {}
    <3>1. request[h].before = {}
      BY <1>0, <1>6, <2>2 DEF JudgeBlock, Serving, BlockSound
    <3> QED
      BY <1>2, <1>6, <2>2, <3>1 DEF JudgeBlock
  <2> QED
    BY <2>1, <2>2
<1>7. CASE JudgeEdit(h)
  <2>1. request[h].kind # "block"
    BY <1>7 DEF JudgeEdit, Serving
  <2>2. ToWrite(h) \/ Replied(h, "unnamed") \/ Replied(h, "conflict")
    BY <1>7 DEF JudgeEdit
  <2> QED
    BY <1>0, <1>1, <1>2, <2>1, <2>2, ReplyStep
<1> QED
  BY <1>3, <1>4, <1>5, <1>6, <1>7

\* An event that changes is one that no request to be checked still counts on.
LEMMA AgendaMoves ==
    ASSUME DayInv, agenda' \in [Entries -> Spans], sheet' \in SheetRows,
           request' \in [Handlers -> CallRows],
           \A g \in Handlers :
                /\ request'[g].kind = request[g].kind /\ request'[g].window = request[g].window
                /\ request'[g].at = request[g].at \/ request'[g].at = "answer"
                /\ request'[g].busy = request[g].busy
                /\ request'[g].before \subseteq request[g].before
                /\ \A f \in request'[g].before :
                    request[g].at = "read" /\ request[g].kind = "block" => agenda'[f] = agenda[f]
    PROVE  DayInv'
<1>1. ASSUME NEW g \in Handlers PROVE BlockSound(g)'
  <2>1. BlockSound(g)
    BY DEF DayInv
  <2> QED
    BY <2>1, BlockStays
<1> QED
  BY <1>1 DEF DayInv

\* ... and so it is for a change that takes the event out of what the requests saw.
LEMMA DisturbMoves ==
    ASSUME DayInv, sheet' \in SheetRows, NEW e, NEW w \in Spans,
           agenda' = [agenda EXCEPT ![e] = w], NEW R \in [Handlers -> CallRows], Disturb(e, R),
           \A g \in Handlers :
                /\ R[g].kind = request[g].kind /\ R[g].window = request[g].window
                /\ R[g].at = request[g].at \/ R[g].at = "answer"
                /\ R[g].busy = request[g].busy /\ R[g].before = request[g].before
    PROVE  DayInv'
<1>0. agenda \in [Entries -> Spans] /\ \A r \in CallRows : r.before \subseteq Entries
  BY CallTypesOf
<1>1. agenda' \in [Entries -> Spans] /\ \A f \in Entries : f # e => agenda'[f] = agenda[f]
  BY <1>0
<1>2. ASSUME NEW g \in Handlers
      PROVE  /\ request'[g] \in CallRows
             /\ request'[g].kind = R[g].kind /\ request'[g].window = R[g].window
             /\ request'[g].at = R[g].at /\ request'[g].busy = R[g].busy
             /\ request'[g].before = R[g].before \ {e}
  <2> DEFINE b == R[g].before \ {e}
             q == [R[g] EXCEPT !.before = b]
  <2>1. request'[g] = q
    BY DEF Disturb
  <2>2. b \subseteq Entries
    BY <1>0
  <2> HIDE DEF b
  <2>3. /\ q \in CallRows /\ q.kind = R[g].kind /\ q.window = R[g].window
        /\ q.at = R[g].at /\ q.busy = R[g].busy /\ q.before = b
    BY <2>2 DEF CallRows
  <2> QED
    BY <2>1, <2>3 DEF b
<1>3. request' \in [Handlers -> CallRows]
  <2>1. request' = [g \in Handlers |-> [R[g] EXCEPT !.before = @ \ {e}]]
    BY DEF Disturb
  <2>2. DOMAIN request' = Handlers /\ request' = [g \in Handlers |-> request'[g]]
    BY <2>1
  <2> QED
    BY <1>2, <2>2
<1>4. ASSUME NEW g \in Handlers
      PROVE  /\ request'[g].kind = request[g].kind /\ request'[g].window = request[g].window
             /\ request'[g].at = request[g].at \/ request'[g].at = "answer"
             /\ request'[g].busy = request[g].busy
             /\ request'[g].before \subseteq request[g].before
             /\ \A f \in request'[g].before : agenda'[f] = agenda[f]
  BY <1>0, <1>1, <1>2
<1> QED
  BY <1>1, <1>3, <1>4, AgendaMoves

\* The server writes, and others change the calendar.
LEMMA DayWrites ==
    ASSUME DayInv, NEW h \in Handlers, InsertBlock(h) \/ PatchEvent(h) \/ RemoveEvent(h)
    PROVE  DayInv'
<1>0. /\ request \in [Handlers -> CallRows] /\ request[h] \in CallRows /\ sheet' \in SheetRows
      /\ agenda \in [Entries -> Spans] /\ request[h].window \in Spans /\ Gone \in Spans
      /\ \A g \in Handlers : BlockSound(g)
  BY CallTypesOf DEF DayInv, InsertBlock, PatchEvent, RemoveEvent, QuietServer
<1>1. \A text \in {"booked", "failed", "unavailable", "not_found", "updated", "deleted"} :
        text \in EventReplies
  BY DEF EventReplies
<1>2. ASSUME NEW text \in {"booked", "failed", "unavailable", "not_found"}, Replied(h, text),
             agenda' = agenda
      PROVE  DayInv'
  BY <1>0, <1>1, <1>2, ReplyStep
<1>3. ASSUME NEW text \in {"updated", "not_found", "deleted"}, NEW e, NEW w \in Spans,
             agenda' = [agenda EXCEPT ![e] = w],
             Disturb(e, [request EXCEPT ![h].at = "answer", ![h].answer = text])
      PROVE  DayInv'
  <2> DEFINE q == [request[h] EXCEPT !.at = "answer", !.answer = text]
             R == [request EXCEPT ![h] = q]
  <2>1. Disturb(e, R)
    BY <1>0, <1>3
  <2>2. /\ q \in CallRows /\ q.at = "answer" /\ q.kind = request[h].kind
        /\ q.window = request[h].window /\ q.busy = request[h].busy
        /\ q.before = request[h].before
    BY <1>0, <1>1 DEF CallRows
  <2> HIDE DEF q
  <2>3. R \in [Handlers -> CallRows] /\ R[h] = q /\ \A g \in Handlers \ {h} : R[g] = request[g]
    BY <1>0, <2>2
  <2> HIDE DEF R
  <2>4. \A g \in Handlers :
                /\ R[g].kind = request[g].kind /\ R[g].window = request[g].window
                /\ R[g].at = request[g].at \/ R[g].at = "answer"
                /\ R[g].busy = request[g].busy /\ R[g].before = request[g].before
    BY <2>2, <2>3
  <2> QED
    BY <1>0, <1>3, <2>1, <2>3, <2>4, DisturbMoves
<1>4. CASE InsertBlock(h)
  <2>1. CASE Replied(h, "failed") /\ agenda' = agenda
    BY <1>2, <2>1
  <2>2. ASSUME NEW e \in Entries, ~Present(e),
               agenda' = [agenda EXCEPT ![e] = request[h].window],
               Replied(h, "booked") \/ UNCHANGED request
        PROVE  DayInv'
    <3> DEFINE k == request[h].kind
               w == request[h].window
               q == [FreeHandler EXCEPT !.at = "answer", !.kind = k, !.answer = "booked"]
    <3>1. agenda' \in [Entries -> Spans] /\ \A f \in Entries : f # e => agenda'[f] = agenda[f]
      BY <1>0, <2>2
    <3>2. ASSUME NEW g \in Handlers, NEW f \in request[g].before,
                 request[g].at = "read", request[g].kind = "block"
          PROVE  agenda'[f] = agenda[f]
      <4>1. f \in Meets(request[g].window)
        BY <1>0, <3>2 DEF BlockSound
      <4> QED
        BY <2>2, <3>1, <4>1 DEF Meets
    <3>3. CASE UNCHANGED request
      BY <1>0, <3>1, <3>2, <3>3, AgendaMoves
    <3>4. CASE Replied(h, "booked")
      <4>1. FreeHandler \in CallRows /\ k \in {"none", "block", "edit", "delete"}
        BY CallTypesOf
      <4>2. request' = [request EXCEPT ![h] = q]
        BY <3>4 DEF Replied
      <4> HIDE DEF k
      <4>3. q \in CallRows /\ q.at = "answer"
        BY <1>1, <4>1 DEF CallRows
      <4> HIDE DEF q
      <4>4. /\ request' \in [Handlers -> CallRows] /\ request'[h] = q
            /\ \A g \in Handlers \ {h} : request'[g] = request[g]
        BY <1>0, <4>2, <4>3
      <4>5. BlockSound(h)'
        BY <4>3, <4>4 DEF BlockSound
      <4>6. ASSUME NEW g \in Handlers \ {h} PROVE BlockSound(g)'
        <5>1. /\ request'[g] = request[g] /\ BlockSound(g)
              /\ \A f \in request'[g].before :
                    request[g].at = "read" /\ request[g].kind = "block" => agenda'[f] = agenda[f]
          BY <1>0, <3>2, <4>4
        <5> QED
          BY <5>1, BlockStays
      <4> QED
        BY <1>0, <3>1, <4>4, <4>5, <4>6 DEF DayInv
    <3> QED
      BY <2>2, <3>3, <3>4
  <2> QED
    BY <1>4, <2>1, <2>2 DEF InsertBlock
<1>5. CASE PatchEvent(h)
  <2> DEFINE e == request[h].entry
             new == [from |-> IF request[h].moved THEN request[h].window.from ELSE agenda[e].from,
                     to |-> IF request[h].moved /\ request[h].resized
                            THEN request[h].window.to ELSE agenda[e].to]
  <2>1. CASE \/ Replied(h, "not_found") /\ agenda' = agenda
             \/ Replied(h, "unavailable") /\ agenda' = agenda
    BY <1>2, <2>1
  <2>2. ASSUME new.from < new.to, agenda' = [agenda EXCEPT ![e] = new],
               Disturb(e, [request EXCEPT ![h].at = "answer", ![h].answer = "updated"])
        PROVE  DayInv'
    <3>1. CASE e \in Entries
      <4>1. \A v \in Spans : v.from \in 0..Horizon /\ v.to \in 0..Horizon
        BY StandingAssumption DEF Spans, Windows, Gone
      <4>2. new.from \in 0..Horizon /\ new.to \in 0..Horizon
        BY <1>0, <3>1, <4>1
      <4>3. new \in Windows
        BY <2>2, <4>2 DEF Windows
      <4>4. new \in Spans
        BY <4>3 DEF Spans
      <4> QED
        BY <1>3, <2>2, <4>4
    <3>2. CASE e \notin Entries
      <4>1. agenda' = [agenda EXCEPT ![e] = Gone]
        BY <1>0, <2>2, <3>2
      <4> QED
        BY <1>0, <1>3, <2>2, <4>1
    <3> QED
      BY <3>1, <3>2
  <2> QED
    BY <1>5, <2>1, <2>2 DEF PatchEvent
<1>6. CASE RemoveEvent(h)
  <2> DEFINE text == IF Present(request[h].entry) THEN "deleted" ELSE "not_found"
  <2>1. text \in {"updated", "not_found", "deleted"}
    OBVIOUS
  <2>2. CASE Replied(h, "unavailable") /\ agenda' = agenda
    BY <1>2, <2>2
  <2>3. CASE /\ agenda' = [agenda EXCEPT ![request[h].entry] = Gone]
             /\ Disturb(request[h].entry, [request EXCEPT ![h].at = "answer", ![h].answer = text])
    <3> HIDE DEF text
    <3> QED
      BY <1>0, <1>3, <2>1, <2>3
  <2> QED
    BY <1>6, <2>2, <2>3 DEF RemoveEvent
<1> QED
  BY <1>4, <1>5, <1>6

LEMMA OthersStep ==
    ASSUME DayInv, NEW e \in Entries, OthersChange(e)
    PROVE  DayInv'
<1>1. PICK w \in Spans : agenda' = [agenda EXCEPT ![e] = w]
  BY DEF OthersChange, Spans
<1>2. Disturb(e, request) /\ sheet' \in SheetRows /\ request \in [Handlers -> CallRows]
  BY CallTypesOf DEF OthersChange
<1> QED
  BY <1>1, <1>2, DisturbMoves

\* The answer closes the sheet or leaves it open.
LEMMA AnswerSteps ==
    ASSUME DayInv, NEW h \in Handlers, AnswerArrives(h) \/ AnswerIgnored(h)
    PROVE  DayInv'
<1>0. /\ FreeHandler \in CallRows /\ FreeHandler.kind = "none" /\ NoSheet \in SheetRows
      /\ sheet \in SheetRows
  BY CallTypesOf
<1>1. request' = [request EXCEPT ![h] = FreeHandler] /\ agenda' = agenda
  BY DEF AnswerArrives, AnswerIgnored
<1> DEFINE warn == (request[h].answer = "conflict")
<1>2. sheet' = sheet \/ sheet' = NoSheet \/ sheet' = [sheet EXCEPT !.by = "none", !.warned = warn]
  BY Zenon DEF AnswerArrives, AnswerIgnored
<1>3. warn \in BOOLEAN
  OBVIOUS
<1> HIDE DEF warn
<1>4. sheet' \in SheetRows
  <2>1. [sheet EXCEPT !.by = "none", !.warned = warn] \in SheetRows
    BY <1>0, <1>3 DEF SheetRows
  <2> QED
    BY <1>0, <1>2, <2>1
<1> QED
  BY <1>0, <1>1, <1>4, CallMoves

\* DayInv is an invariant.
LEMMA DayViewInductive == DayViewSpec => []DayInv
<1>1. DayViewInit => DayInv
  <2> SUFFICES ASSUME DayViewInit PROVE DayInv
    OBVIOUS
  <2>1. Gone \in Spans /\ \A e \in DOMAIN Standing : Standing[e] \in Spans
    BY StandingWindows DEF Spans
  <2>2. FreeHandler \in CallRows /\ FreeHandler.kind = "none"
    BY <2>1 DEF FreeHandler, CallRows, EventReplies
  <2>3. NoSheet \in SheetRows
    BY <2>1 DEF NoSheet, SheetRows
  <2>4. agenda \in [Entries -> Spans]
    BY <2>1 DEF DayViewInit
  <2> QED
    BY <2>2, <2>3, <2>4 DEF DayViewInit, DayInv, BlockSound
<1>2. DayInv /\ [DayViewNext]_dayVars => DayInv'
  <2> SUFFICES ASSUME DayInv, [DayViewNext]_dayVars PROVE DayInv'
    OBVIOUS
  <2>1. CASE UNCHANGED dayVars
    BY <2>1, ScreenSteps, CallTypesOf DEF dayVars
  <2>2. CASE \/ \E d \in DaysOf : ShowDay(d) \/ DayArrives(d)
             \/ PickGap \/ ChangeFields \/ CloseSheet \/ ConnectionBreaks
             \/ \E e \in Entries : OpenEvent(e)
    BY <2>2, SheetStays, ScreenSteps
  <2>3. ASSUME NEW e \in Entries, OthersChange(e) PROVE DayInv'
    BY <2>3, OthersStep
  <2>4. ASSUME NEW h \in Handlers, SendBlock(h) \/ SendSave(h) \/ SendDelete(h) PROVE DayInv'
    BY <2>4, SendSteps
  <2>5. ASSUME NEW h \in Handlers, Serve(h) PROVE DayInv'
    BY <2>5, ReadSteps, DayWrites, AnswerSteps DEF Serve
  <2> QED
    BY <2>1, <2>2, <2>3, <2>4, <2>5 DEF DayViewNext
<1> QED
  BY <1>1, <1>2, PTL DEF DayViewSpec

\* A block never lands on an event that was in the calendar when the founder tapped and
\* has stayed where it was, whatever fails to answer and whoever else changes what.
THEOREM BlocksLandOnFreeTime ==
    DayViewSpec => []BlockedTimeWasFree
<1>1. DayInv => BlockedTimeWasFree
  BY DEF DayInv, BlockSound, BlockedTimeWasFree, Serving
<1> QED
  BY <1>1, DayViewInductive, PTL

\* The days the screen asks for, and what others and broken connections may still do.
ScreenBounds ==
    /\ header \in DaysOf /\ grid \in DaysOf /\ loads \subseteq DaysOf
    /\ outside \in 0..MaxOutside /\ drops \in 0..MaxDrops

LEMMA ScreenBoundsStep ==
    ASSUME ScreenBounds, [DayViewNext]_dayVars
    PROVE  ScreenBounds'
<1>1. CASE UNCHANGED dayVars
  BY <1>1 DEF dayVars, ScreenBounds
<1>2. CASE \E d \in DaysOf : ShowDay(d) \/ DayArrives(d)
  BY <1>2 DEF ShowDay, DayArrives, ScreenBounds
<1>3. CASE PickGap \/ ChangeFields \/ CloseSheet \/ ConnectionBreaks
  <2>1. CASE PickGap \/ ChangeFields \/ CloseSheet
    <3>1. UNCHANGED <<header, grid, loads, outside, drops>>
      BY <2>1 DEF PickGap, ChangeFields, CloseSheet
    <3> QED
      BY <3>1 DEF ScreenBounds, DaysOf
  <2>2. CASE ConnectionBreaks
    BY <2>2, StandingAssumption DEF ConnectionBreaks, ScreenBounds
  <2> QED
    BY <1>3, <2>1, <2>2
<1>4. CASE \E e \in Entries : OpenEvent(e) \/ OthersChange(e)
  BY <1>4, StandingAssumption DEF OpenEvent, OthersChange, ScreenBounds
<1>5. CASE \E h \in Handlers : SendBlock(h) \/ SendSave(h) \/ SendDelete(h)
  BY <1>5 DEF SendBlock, SendSave, SendDelete, Submit, ScreenBounds
<1>6. ASSUME NEW h \in Handlers, Serve(h) PROVE ScreenBounds'
  <2>1. CASE AnswerArrives(h)
    BY <2>1 DEF AnswerArrives, ScreenBounds
  <2>2. CASE AnswerIgnored(h)
    BY <2>2 DEF AnswerIgnored, ScreenBounds
  <2>3. CASE ~AnswerArrives(h) /\ ~AnswerIgnored(h)
    <3>1. UNCHANGED <<header, grid, loads, outside>>
      BY <1>6, <2>3 DEF Serve, RefuseTime, ReadFreeBusy, ReadRange, JudgeBlock, JudgeEdit, InsertBlock,
                        PatchEvent, RemoveEvent, QuietServer
    <3>2. drops' = drops \/ (drops < MaxDrops /\ drops' = drops + 1)
      BY <1>6, <2>3 DEF Serve, RefuseTime, ReadFreeBusy, ReadRange, JudgeBlock, JudgeEdit, InsertBlock,
                        PatchEvent, RemoveEvent
    <3> QED
      BY <3>1, <3>2, StandingAssumption DEF ScreenBounds
  <2> QED
    BY <2>1, <2>2, <2>3
<1> QED
  BY <1>1, <1>2, <1>3, <1>4, <1>5, <1>6 DEF DayViewNext

\* The screen's days, its sheet, the requests and the calendar are within their types.
THEOREM DayViewTypes == DayViewSpec => []DayViewTypeOK
<1>1. DayViewInit => ScreenBounds
  <2>1. 0 \in DaysOf
    BY StandingAssumption DEF DaysOf
  <2> QED
    BY <2>1, StandingAssumption DEF DayViewInit, ScreenBounds
<1>2. DayInv /\ ScreenBounds => DayViewTypeOK
  <2> SUFFICES ASSUME DayInv, ScreenBounds PROVE DayViewTypeOK
    OBVIOUS
  <2>1. sheet.mode \in {"none", "block", "edit"} /\ sheet.by \in Handlers \cup {"none"}
    BY DEF DayInv, SheetRows
  <2>2. \A h \in Handlers : /\ request[h].at \in {"free", "read", "list", "judge", "write", "answer"}
                            /\ request[h].kind \in {"none", "block", "edit", "delete"}
                            /\ request[h].busy \subseteq Windows
    BY DEF DayInv, CallRows
  <2> QED
    BY <2>1, <2>2 DEF DayInv, ScreenBounds, DayViewTypeOK, Spans
<1> QED
  BY <1>1, <1>2, ScreenBoundsStep, DayViewInductive, PTL DEF DayViewSpec

-----------------------------------------------------------------------------
(* FounderSurface.                                                           *)

Updates == [card : Cards \cup {NoCard}, option : Options \cup {"text"}]
PollStages == {"rest", "handle", "route", "disarm", "arm", "mirror", "clear", "dispatch", "work", "save"}
Polls == [at : PollStages, next : Nat, kind : CaptureKinds \cup {"none"},
          card : Cards \cup {NoCard}, option : Options \cup {"none", "text"}]
Markers == [card : Cards \cup {NoCard}, expired : BOOLEAN]
Askers == [at : {"rest", "clear", "arm"}, card : Cards \cup {NoCard}]
Outcomes == Options \cup {"none", "text", "edit"}
AppTaps == [at : {"rest", "route", "mirror"}, card : Cards \cup {NoCard}, option : Options \cup {"none"}]

SurfaceTypes ==
    /\ updates \in Seq(Updates) /\ offset \in Nat \ {0} /\ poller \in Polls
    /\ marker \in [CaptureKinds -> Markers] /\ asker \in Askers /\ posted \subseteq Cards
    /\ outcome \in [Cards -> Outcomes]
    /\ mirrored \in [Cards -> Options \cup {"none", "text"}] /\ tap \in AppTaps

\* A poll has handled all that is before its update.
PollInv ==
    poller.at # "rest" =>
        /\ poller.next # 0
        /\ \A u \in 1..MaxUpdates : u < poller.next => u \in handled

\* What is tapped, or about to be armed, was posted.
PostedInv ==
    /\ \A n \in 1..Len(updates) : updates[n].option # "text" => updates[n].card \in posted
    /\ poller.at \in {"route", "disarm", "arm"} => poller.card \in posted
    /\ asker.at # "rest" => asker.card \in posted
    /\ tap.at # "rest" => tap.card \in Cards /\ tap.option \in Options

\* A verdict that is about to be mirrored took effect; what arms a capture is none.
MirrorInv ==
    /\ poller.at \in {"disarm", "arm"} => poller.option \notin Verdicts
    /\ poller.at = "mirror" /\ poller.option \in Verdicts =>
           poller.card \in Cards /\ outcome[poller.card] # "none"
    /\ tap.at = "mirror" /\ tap.option \in Verdicts => outcome[tap.card] # "none"

SurfaceInv == SurfaceTypes /\ PollInv /\ PostedInv /\ MirrorInv /\ StoresFollowEffects

\* A step of the poller, or of a marker.
LEMMA PollerMoves ==
    ASSUME SurfaceInv, UNCHANGED <<updates, posted, asker, tap>>,
           poller' \in Polls, marker' \in [CaptureKinds -> Markers], offset' \in Nat \ {0},
           outcome' \in [Cards -> Outcomes],
           mirrored' \in [Cards -> Options \cup {"none", "text"}],
           \A k \in CaptureKinds :
               marker'[k].card \in {marker[k].card, NoCard} \/ marker'[k].card \in posted,
           \A c \in Cards : outcome[c] # "none" => outcome'[c] # "none",
           \A c \in Cards : mirrored'[c] = mirrored[c] \/ (mirrored'[c] \in Verdicts => outcome'[c] # "none"),
           handled \subseteq handled',
           offset' = offset \/ \A u \in 1..MaxUpdates : u < offset' => u \in handled',
           PollInv',
           poller'.at \in {"route", "disarm", "arm"} => poller'.card \in posted,
           poller'.at \in {"disarm", "arm"} => poller'.option \notin Verdicts,
           poller'.at = "mirror" /\ poller'.option \in Verdicts =>
               poller'.card \in Cards /\ outcome'[poller'.card] # "none"
    PROVE  SurfaceInv'
<1>1. SurfaceTypes'
  BY DEF SurfaceInv, SurfaceTypes
<1>2. PostedInv'
  BY DEF SurfaceInv, PostedInv
<1>3. MirrorInv'
  BY DEF SurfaceInv, PostedInv, MirrorInv
<1>4. OffsetIsHandled'
  BY DEF SurfaceInv, StoresFollowEffects, OffsetIsHandled
<1>5. ClosedIsDecided'
  BY DEF SurfaceInv, StoresFollowEffects, ClosedIsDecided
<1>6. ArmedIsPosted'
  BY DEF SurfaceInv, StoresFollowEffects, ArmedIsPosted, Armed
<1> QED
  BY <1>1, <1>2, <1>3, <1>4, <1>5, <1>6 DEF SurfaceInv, StoresFollowEffects

\* What the surface is made of.
LEMMA SurfaceFacts ==
    ASSUME SurfaceInv
    PROVE  /\ poller \in Polls /\ poller.next \in Nat /\ poller.card \in Cards \cup {NoCard}
           /\ poller.option \in Options \cup {"none", "text"} /\ poller.kind \in CaptureKinds \cup {"none"}
           /\ marker \in [CaptureKinds -> Markers] /\ offset \in Nat \ {0} /\ posted \subseteq Cards
           /\ outcome \in [Cards -> Outcomes]
           /\ mirrored \in [Cards -> Options \cup {"none", "text"}]
           /\ SurfaceResting \in Polls /\ SurfaceResting.at = "rest" /\ NoCard \notin Cards
           /\ Unarmed \in Markers /\ Unarmed.card = NoCard
           /\ "none" \notin Verdicts /\ Verdicts \cup {"edit", "revise"} = Options \cup {"approve", "reject", "edit", "revise"}
<1>1. SurfaceResting \in Polls /\ SurfaceResting.at = "rest" /\ Unarmed \in Markers /\ Unarmed.card = NoCard
  BY DEF SurfaceResting, Polls, PollStages, Unarmed, Markers
<1>2. "none" \notin Verdicts /\ NoCard \notin Cards
  BY CardOptions, CardKinds DEF Verdicts
<1>3. Verdicts \cup {"edit", "revise"} = Options \cup {"approve", "reject", "edit", "revise"}
  BY CardOptions DEF Verdicts, Options
<1> QED
  BY <1>1, <1>2, <1>3 DEF SurfaceInv, SurfaceTypes, Polls

\* The poller goes to another stage with the same update.
LEMMA PollerGoes ==
    ASSUME SurfaceInv, poller.at # "rest", NEW stage \in PollStages, UpdateGoes(stage),
           handled \subseteq handled'
    PROVE  /\ poller' \in Polls /\ PollInv' /\ poller'.at = stage
           /\ poller'.card = poller.card /\ poller'.option = poller.option
<1> DEFINE q == [poller EXCEPT !.at = stage]
<1>1. /\ q \in Polls /\ q.at = stage /\ q.card = poller.card /\ q.option = poller.option
      /\ q.next = poller.next
  BY SurfaceFacts DEF Polls
<1>2. poller' = q
  BY DEF UpdateGoes
<1> HIDE DEF q
<1> QED
  BY <1>1, <1>2 DEF SurfaceInv, PollInv

\* The poller is through with an update.
LEMMA PollerFinishes ==
    ASSUME SurfaceInv, poller.at # "rest", Finish
    PROVE  /\ poller' \in Polls /\ PollInv' /\ poller'.at = "handle" /\ handled \subseteq handled'
<1> DEFINE q == [SurfaceResting EXCEPT !.at = "handle", !.next = poller.next + 1]
<1>1. /\ poller' = q /\ handled' = handled \cup {poller.next}
  BY DEF Finish
<1>2. q \in Polls /\ q.at = "handle" /\ q.next = poller.next + 1 /\ poller.next + 1 # 0
  <2>1. poller.next + 1 \in Nat \ {0}
    BY SurfaceFacts
  <2> QED
    BY <2>1, SurfaceFacts DEF SurfaceResting, Polls, PollStages
<1> HIDE DEF q
<1>3. ASSUME NEW u \in 1..MaxUpdates, u < poller.next + 1 PROVE u < poller.next \/ u = poller.next
  <2>1. u \in Nat
    BY SurfaceLimits
  <2> QED
    BY <1>3, <2>1, SurfaceFacts
<1> QED
  BY <1>1, <1>2, <1>3 DEF SurfaceInv, PollInv

\* The poll ends at the update it has in hand.
LEMMA PollerHolds ==
    ASSUME SurfaceInv, poller.at # "rest", Hold, UNCHANGED handled
    PROVE  poller' \in Polls /\ PollInv' /\ poller'.at = "save"
<1> DEFINE q == [SurfaceResting EXCEPT !.at = "save", !.next = poller.next]
<1>1. q \in Polls /\ q.at = "save" /\ q.next = poller.next
  BY SurfaceFacts DEF SurfaceResting, Polls, PollStages
<1>2. poller' = q
  BY DEF Hold
<1> HIDE DEF q
<1> QED
  BY <1>1, <1>2 DEF SurfaceInv, PollInv

\* A verdict takes effect, or stands.
LEMMA VerdictMoves ==
    ASSUME SurfaceInv, NEW c, NEW o \in Outcomes, Resolve(c, o)
    PROVE  /\ outcome' \in [Cards -> Outcomes]
           /\ \A d \in Cards : outcome[d] # "none" => outcome'[d] # "none"
           /\ c \in Cards /\ o # "none" => outcome'[c] # "none"
<1>1. outcome' = [outcome EXCEPT ![c] = IF outcome[c] = "none" THEN o ELSE outcome[c]]
  BY DEF Resolve
<1> HIDE DEF Outcomes
<1> QED
  BY <1>1, SurfaceFacts

\* The app's card shows it.
LEMMA MirrorMoves ==
    ASSUME SurfaceInv, NEW c, NEW o \in Options \cup {"none", "text"}, Mirror(c, o), UNCHANGED outcome,
           o \in Verdicts => outcome[c] # "none"
    PROVE  /\ mirrored' \in [Cards -> Options \cup {"none", "text"}]
           /\ \A d \in Cards : mirrored'[d] = mirrored[d] \/ (mirrored'[d] \in Verdicts => outcome'[d] # "none")
<1>1. mirrored' = [mirrored EXCEPT ![c] = IF mirrored[c] = "none" THEN o ELSE mirrored[c]]
  BY DEF Mirror
<1> QED
  BY <1>1, SurfaceFacts

\* The steps of a poll that follow an update that is a tap.
LEMMA PresserSteps ==
    ASSUME SurfaceInv, TakeTap \/ RouteTap \/ PollerClears \/ PollerSets \/ MirrorTap
    PROVE  SurfaceInv'
<1>0. UNCHANGED <<updates, posted, asker, tap, offset>>
  BY DEF TakeTap, RouteTap, PollerClears, PollerSets, MirrorTap
<1>1. CASE TakeTap
  <2>1. /\ poller.at = "handle" /\ poller.next <= Len(updates) /\ Update.option # "text"
        /\ poller' = [poller EXCEPT !.at = "route", !.card = Update.card, !.option = Update.option]
        /\ UNCHANGED <<marker, outcome, mirrored, handled>>
    BY <1>1 DEF TakeTap, UpdateAt
  <2>2. updates \in Seq(Updates) /\ poller.next \in 1..Len(updates)
    BY <2>1, SurfaceFacts DEF SurfaceInv, PollInv, SurfaceTypes
  <2>3. Update.card \in posted /\ Update.option \in Options
    <3>1. Update \in Updates /\ Update.card \in posted
      BY <2>1, <2>2 DEF Update, SurfaceInv, PostedInv
    <3> QED
      BY <2>1, <3>1 DEF Updates
  <2>4. PICK card \in posted, option \in Options :
            poller' = [poller EXCEPT !.at = "route", !.card = card, !.option = option]
    BY <2>1, <2>3
  <2> DEFINE q == [poller EXCEPT !.at = "route", !.card = card, !.option = option]
  <2>5. q \in Polls /\ q.at = "route" /\ q.card = card /\ q.next = poller.next
    BY SurfaceFacts DEF Polls, PollStages
  <2>6. poller' = q
    BY <2>4
  <2> HIDE DEF q
  <2>7. PollInv'
    BY <2>1, <2>5, <2>6 DEF PollInv, SurfaceInv
  <2> QED
    BY <1>0, <2>1, <2>5, <2>6, <2>7, SurfaceFacts, PollerMoves
<1>2. CASE RouteTap
  <2>1. poller.at = "route" /\ poller.card \in Cards /\ UNCHANGED <<marker, mirrored, handled>>
    BY <1>2, SurfaceFacts DEF RouteTap, UpdateAt, SurfaceInv, PostedInv
  <2>2. CASE poller.option \in Verdicts
    <3>1. Resolve(poller.card, poller.option) /\ UpdateGoes("mirror") /\ poller.option # "none"
      BY <1>2, <2>2, SurfaceFacts DEF RouteTap
    <3> QED
      BY <1>0, <2>1, <3>1, PollerGoes, VerdictMoves, SurfaceFacts, PollerMoves DEF Outcomes, PollStages
  <2>3. CASE poller.option \notin Verdicts /\ UpdateGoes("mirror")
    <3>1. UNCHANGED outcome
      BY <1>2, <2>3 DEF RouteTap
    <3> QED
      BY <1>0, <2>1, <2>3, <3>1, PollerGoes, SurfaceFacts, PollerMoves DEF PollStages
  <2>4. ASSUME poller.option \notin Verdicts, NEW kind \in CaptureKinds,
               poller' = [poller EXCEPT !.at = "disarm", !.kind = kind]
        PROVE  SurfaceInv'
    <3> DEFINE q == [poller EXCEPT !.at = "disarm", !.kind = kind]
    <3>1. /\ q \in Polls /\ q.at = "disarm" /\ q.card = poller.card /\ q.next = poller.next
          /\ q.option = poller.option
      BY SurfaceFacts DEF Polls, PollStages
    <3>2. poller' = q /\ UNCHANGED outcome
      BY <1>2, <2>4 DEF RouteTap
    <3> HIDE DEF q
    <3>3. PollInv'
      BY <2>1, <3>1, <3>2 DEF PollInv, SurfaceInv
    <3>4. poller.card \in posted
      BY <2>1 DEF SurfaceInv, PostedInv
    <3> QED
      BY <1>0, <2>1, <2>4, <3>1, <3>2, <3>3, <3>4, SurfaceFacts, PollerMoves
  <2> QED
    BY <1>2, <2>2, <2>3, <2>4 DEF RouteTap, CaptureKinds
<1>3. CASE PollerClears
  <2>1. /\ poller.at = "disarm" /\ ClearOthers(poller.kind) /\ UpdateGoes("arm")
        /\ UNCHANGED <<outcome, mirrored, handled>>
    BY <1>3 DEF PollerClears, UpdateAt
  <2>2. /\ marker' \in [CaptureKinds -> Markers]
        /\ \A k \in CaptureKinds : marker'[k].card \in {marker[k].card, NoCard}
    BY <2>1, SurfaceFacts DEF ClearOthers
  <2>3. poller.card \in posted /\ poller.option \notin Verdicts
    BY <2>1 DEF SurfaceInv, PostedInv, MirrorInv
  <2> QED
    BY <1>0, <2>1, <2>2, <2>3, PollerGoes, SurfaceFacts, PollerMoves DEF PollStages
<1>4. CASE PollerSets
  <2>1. /\ poller.at = "arm" /\ SetMarker(poller.kind, poller.card) /\ UpdateGoes("mirror")
        /\ UNCHANGED <<outcome, mirrored, handled>>
    BY <1>4 DEF PollerSets, UpdateAt
  <2>2. poller.card \in posted /\ poller.option \notin Verdicts
    BY <2>1 DEF SurfaceInv, PostedInv, MirrorInv
  <2>3. /\ marker' \in [CaptureKinds -> Markers]
        /\ \A k \in CaptureKinds : marker'[k].card \in {marker[k].card, poller.card}
    <3> DEFINE m == [card |-> poller.card, expired |-> FALSE]
    <3>1. m \in Markers /\ m.card = poller.card
      BY SurfaceFacts DEF Markers
    <3>2. marker' = [marker EXCEPT ![poller.kind] = m]
      BY <2>1 DEF SetMarker
    <3> HIDE DEF m
    <3> QED
      BY <3>1, <3>2, SurfaceFacts
  <2> QED
    BY <1>0, <2>1, <2>2, <2>3, PollerGoes, SurfaceFacts, PollerMoves DEF PollStages
<1>5. CASE MirrorTap
  <2>1. /\ poller.at = "mirror" /\ Mirror(poller.card, poller.option) /\ Finish
        /\ UNCHANGED <<marker, outcome>>
    BY <1>5 DEF MirrorTap, UpdateAt
  <2>2. poller.option \in Verdicts => outcome[poller.card] # "none"
    BY <2>1 DEF SurfaceInv, MirrorInv
  <2> QED
    BY <1>0, <2>1, <2>2, PollerFinishes, MirrorMoves, SurfaceFacts, PollerMoves
<1> QED
  BY <1>1, <1>2, <1>3, <1>4, <1>5

\* The steps of a poll that follow a text.
LEMMA WordSteps ==
    ASSUME SurfaceInv, TakeText \/ PassText \/ ClearCapture \/ DispatchAnswer \/ WorkOnDraft \/ RefuseText
    PROVE  SurfaceInv'
<1>0. UNCHANGED <<updates, posted, asker, tap, offset, mirrored>> /\ poller.at # "rest"
  BY DEF TakeText, PassText, ClearCapture, DispatchAnswer, WorkOnDraft, RefuseText, UpdateAt
<1>1. ASSUME marker' = [k \in CaptureKinds |-> IF marker[k].expired THEN Unarmed ELSE marker[k]]
      PROVE  /\ marker' \in [CaptureKinds -> Markers]
             /\ \A k \in CaptureKinds : marker'[k].card \in {marker[k].card, NoCard}
  BY <1>1, SurfaceFacts
<1>2. CASE TakeText
  <2>1. PICK at \in {"work", "clear"}, option \in TypedAnswers \cup {"text"} :
            poller' = [poller EXCEPT !.at = at, !.kind = FirstCapture,
                                     !.card = marker[FirstCapture].card, !.option = option]
    BY <1>2 DEF TakeText
  <2>2. FirstCapture \in CaptureKinds
    BY <1>2 DEF TakeText, FirstCapture, CaptureKinds
  <2>3. marker[FirstCapture].card \in Cards \cup {NoCard}
    <3> HIDE DEF FirstCapture
    <3> QED
      BY <2>2, SurfaceFacts DEF Markers
  <2>4. PICK kind \in CaptureKinds, card \in Cards \cup {NoCard} :
            poller' = [poller EXCEPT !.at = at, !.kind = kind, !.card = card, !.option = option]
    BY <2>1, <2>2, <2>3
  <2> DEFINE q == [poller EXCEPT !.at = at, !.kind = kind, !.card = card, !.option = option]
  <2>5. q \in Polls /\ q.at = at /\ q.next = poller.next
    BY SurfaceFacts DEF Polls, PollStages, Options
  <2>6. poller' = q
    BY <2>4
  <2> HIDE DEF q
  <2>7. UNCHANGED <<handled, outcome>>
    BY <1>2 DEF TakeText
  <2>8. PollInv'
    BY <1>0, <2>5, <2>6, <2>7 DEF PollInv, SurfaceInv
  <2>9. marker' = [k \in CaptureKinds |-> IF marker[k].expired THEN Unarmed ELSE marker[k]]
    BY <1>2 DEF TakeText
  <2> QED
    BY <1>0, <1>1, <2>5, <2>6, <2>7, <2>8, <2>9, SurfaceFacts, PollerMoves
<1>3. CASE PassText
  <2>1. Finish /\ UNCHANGED outcome
        /\ marker' = [k \in CaptureKinds |-> IF marker[k].expired THEN Unarmed ELSE marker[k]]
    BY <1>3 DEF PassText
  <2> QED
    BY <1>0, <1>1, <2>1, PollerFinishes, SurfaceFacts, PollerMoves
<1>4. CASE ClearCapture
  <2>1. Clear(poller.kind) /\ UNCHANGED outcome
    BY <1>4 DEF ClearCapture
  <2>2. /\ marker' \in [CaptureKinds -> Markers]
        /\ \A k \in CaptureKinds : marker'[k].card \in {marker[k].card, NoCard}
    BY <2>1, SurfaceFacts DEF Clear
  <2>3. Finish \/ (UNCHANGED handled /\ \E stage \in {"dispatch", "work"} : UpdateGoes(stage))
    BY <1>4 DEF ClearCapture
  <2>4. CASE Finish
    BY <1>0, <2>1, <2>2, <2>4, PollerFinishes, SurfaceFacts, PollerMoves
  <2>5. ASSUME UNCHANGED handled, NEW stage \in {"dispatch", "work"}, UpdateGoes(stage) PROVE SurfaceInv'
    BY <1>0, <2>1, <2>2, <2>5, PollerGoes, SurfaceFacts, PollerMoves DEF PollStages
  <2> QED
    BY <2>3, <2>4, <2>5
<1>5. CASE DispatchAnswer
  <2>1. Resolve(poller.card, poller.option) /\ Finish /\ UNCHANGED marker
    BY <1>5 DEF DispatchAnswer
  <2> QED
    BY <1>0, <2>1, PollerFinishes, VerdictMoves, SurfaceFacts, PollerMoves DEF Outcomes
<1>6. CASE WorkOnDraft
  <2>1. UNCHANGED marker
    BY <1>6 DEF WorkOnDraft
  <2>2. \/ Finish /\ UNCHANGED outcome
        \/ Resolve(poller.card, "edit") /\ UpdateGoes("clear") /\ UNCHANGED handled
    BY <1>6 DEF WorkOnDraft
  <2>3. CASE Finish /\ UNCHANGED outcome
    BY <1>0, <2>1, <2>3, PollerFinishes, SurfaceFacts, PollerMoves
  <2>4. CASE Resolve(poller.card, "edit") /\ UpdateGoes("clear") /\ UNCHANGED handled
    <3>1. outcome' = [outcome EXCEPT ![poller.card] = IF outcome[poller.card] = "none" THEN "edit"
                                                      ELSE outcome[poller.card]]
      BY <2>4 DEF Resolve
    <3>2. \A d \in Cards : outcome[d] # "none" => outcome'[d] # "none"
      BY <3>1, SurfaceFacts
    <3>3. outcome' \in [Cards -> Outcomes]
      <4>1. "edit" \in Outcomes
        BY DEF Outcomes
      <4> QED
        BY <3>1, <4>1, SurfaceFacts
    <3> QED
      BY <1>0, <2>1, <2>4, <3>2, <3>3, PollerGoes, SurfaceFacts, PollerMoves DEF PollStages
  <2> QED
    BY <2>2, <2>3, <2>4
<1>7. CASE RefuseText
  <2>1. Finish /\ UNCHANGED <<marker, outcome>>
    BY <1>7 DEF RefuseText
  <2> QED
    BY <1>0, <2>1, PollerFinishes, SurfaceFacts, PollerMoves
<1> QED
  BY <1>2, <1>3, <1>4, <1>5, <1>6, <1>7

\* The ends of a poll, and a marker that expires.
LEMMA BatchSteps ==
    ASSUME SurfaceInv,
           Fetch \/ EndOfBatch \/ SaveOffset \/ Throw \/ (\E k \in CaptureKinds : Expire(k))
    PROVE  SurfaceInv'
<1>0. UNCHANGED <<updates, posted, asker, tap, mirrored, outcome, handled>>
  BY DEF Fetch, EndOfBatch, SaveOffset, Throw, Expire
<1>1. CASE Fetch
  <2> DEFINE q == [SurfaceResting EXCEPT !.at = "handle", !.next = offset]
  <2>1. poller' = q /\ UNCHANGED <<offset, marker>>
    BY <1>1 DEF Fetch
  <2>2. q \in Polls /\ q.at = "handle" /\ q.next = offset
    BY SurfaceFacts DEF SurfaceResting, Polls, PollStages
  <2> HIDE DEF q
  <2>3. PollInv'
    BY <1>0, <2>1, <2>2, SurfaceFacts DEF SurfaceInv, PollInv, StoresFollowEffects, OffsetIsHandled
  <2> QED
    BY <1>0, <2>1, <2>2, <2>3, SurfaceFacts, PollerMoves
<1>2. CASE EndOfBatch
  <2>1. UpdateGoes("save") /\ poller.at # "rest" /\ UNCHANGED <<offset, marker>>
    BY <1>2 DEF EndOfBatch, UpdateAt
  <2> QED
    BY <1>0, <2>1, PollerGoes, SurfaceFacts, PollerMoves DEF PollStages
<1>3. CASE SaveOffset
  <2>1. poller.at = "save" /\ offset' = poller.next /\ poller' = SurfaceResting /\ UNCHANGED marker
    BY <1>3 DEF SaveOffset, UpdateAt
  <2>2. /\ offset' \in Nat \ {0} /\ \A u \in 1..MaxUpdates : u < offset' => u \in handled'
        /\ PollInv'
    BY <1>0, <2>1, SurfaceFacts DEF SurfaceInv, PollInv
  <2> QED
    BY <1>0, <2>1, <2>2, SurfaceFacts, PollerMoves
<1>4. CASE Throw
  <2>1. Hold /\ poller.at # "rest" /\ UNCHANGED <<offset, marker>>
    BY <1>4 DEF Throw
  <2> QED
    BY <1>0, <2>1, PollerHolds, SurfaceFacts, PollerMoves
<1>5. ASSUME NEW k \in CaptureKinds, Expire(k) PROVE SurfaceInv'
  <2> DEFINE m == [marker[k] EXCEPT !.expired = TRUE]
  <2>1. marker' = [marker EXCEPT ![k] = m] /\ UNCHANGED <<poller, offset>>
    BY <1>5 DEF Expire
  <2>2. m \in Markers /\ m.card = marker[k].card
    BY SurfaceFacts DEF Markers
  <2> HIDE DEF m
  <2>3. /\ marker' \in [CaptureKinds -> Markers]
        /\ \A j \in CaptureKinds : marker'[j].card = marker[j].card
    BY <2>1, <2>2, SurfaceFacts
  <2>4. /\ PollInv'
        /\ poller.at \in {"route", "disarm", "arm"} => poller.card \in posted
        /\ poller.at \in {"disarm", "arm"} => poller.option \notin Verdicts
        /\ poller.at = "mirror" /\ poller.option \in Verdicts =>
               poller.card \in Cards /\ outcome[poller.card] # "none"
    BY <1>0, <2>1 DEF SurfaceInv, PollInv, PostedInv, MirrorInv
  <2> QED
    BY <1>0, <2>1, <2>3, <2>4, SurfaceFacts, PollerMoves
<1> QED
  BY <1>1, <1>2, <1>3, <1>4, <1>5

\* A step of the founder, of a question or of the app: the poller stays, or is dead.
LEMMA OtherMoves ==
    ASSUME SurfaceInv, UNCHANGED <<offset, handled>>,
           UNCHANGED poller \/ poller' = SurfaceResting,
           updates' \in Seq(Updates), marker' \in [CaptureKinds -> Markers], asker' \in Askers,
           posted \subseteq posted', posted' \subseteq Cards, tap' \in AppTaps,
           outcome' \in [Cards -> Outcomes],
           mirrored' \in [Cards -> Options \cup {"none", "text"}],
           \A n \in 1..Len(updates') :
               (n \in 1..Len(updates) /\ updates'[n] = updates[n]) \/ updates'[n].option = "text"
               \/ updates'[n].card \in posted,
           \A k \in CaptureKinds :
               marker'[k].card \in {marker[k].card, NoCard} \/ marker'[k].card \in posted,
           \A c \in Cards : outcome[c] # "none" => outcome'[c] # "none",
           \A c \in Cards : mirrored'[c] = mirrored[c] \/ (mirrored'[c] \in Verdicts => outcome'[c] # "none"),
           asker'.at # "rest" => asker'.card \in posted',
           tap'.at # "rest" => tap'.card \in Cards /\ tap'.option \in Options,
           tap'.at = "mirror" /\ tap'.option \in Verdicts => outcome'[tap'.card] # "none"
    PROVE  SurfaceInv'
<1>1. /\ poller' \in Polls /\ PollInv'
      /\ poller'.at \in {"route", "disarm", "arm"} => poller'.card \in posted
      /\ poller'.at \in {"disarm", "arm"} => poller'.option \notin Verdicts
      /\ poller'.at = "mirror" /\ poller'.option \in Verdicts =>
             poller'.card \in Cards /\ outcome[poller'.card] # "none"
  BY SurfaceFacts DEF SurfaceInv, PollInv, PostedInv, MirrorInv
<1>2. SurfaceTypes'
  BY <1>1 DEF SurfaceInv, SurfaceTypes
<1>3. \A n \in 1..Len(updates') : updates'[n].option # "text" => updates'[n].card \in posted'
  BY DEF SurfaceInv, PostedInv
<1>4. PostedInv'
  BY <1>1, <1>3 DEF PostedInv
<1>5. MirrorInv'
  BY <1>1 DEF MirrorInv
<1>6. OffsetIsHandled'
  BY DEF SurfaceInv, StoresFollowEffects, OffsetIsHandled
<1>7. ClosedIsDecided'
  BY DEF SurfaceInv, StoresFollowEffects, ClosedIsDecided
<1>8. ArmedIsPosted'
  BY DEF SurfaceInv, StoresFollowEffects, ArmedIsPosted, Armed
<1> QED
  BY <1>1, <1>2, <1>4, <1>5, <1>6, <1>7, <1>8 DEF SurfaceInv, StoresFollowEffects

\* What is there besides the poller.
LEMMA OtherFacts ==
    ASSUME SurfaceInv
    PROVE  /\ updates \in Seq(Updates) /\ asker \in Askers /\ tap \in AppTaps
           /\ AtRest \in Askers /\ AtRest.at = "rest" /\ NoTap \in AppTaps /\ NoTap.at = "rest"
           /\ asker.at # "rest" => asker.card \in posted
           /\ tap.at # "rest" => tap.card \in Cards /\ tap.option \in Options
           /\ tap.at = "mirror" /\ tap.option \in Verdicts => outcome[tap.card] # "none"
<1>1. AtRest \in Askers /\ AtRest.at = "rest" /\ NoTap \in AppTaps /\ NoTap.at = "rest"
  BY DEF AtRest, Askers, NoTap, AppTaps
<1> QED
  BY <1>1 DEF SurfaceInv, SurfaceTypes, PostedInv, MirrorInv

LEMMA AskerSteps ==
    ASSUME SurfaceInv,
           (\E c \in Questions : PostQuestion(c)) \/ AskerClears \/ AskerSets \/ ArmFails \/ SurfaceCrash
    PROVE  SurfaceInv'
<1>1. ASSUME NEW c \in Questions, PostQuestion(c) PROVE SurfaceInv'
  <2> DEFINE q == [at |-> "clear", card |-> c]
  <2>1. /\ posted' = posted \cup {c} /\ asker' = q
        /\ UNCHANGED <<updates, offset, poller, marker, outcome, mirrored, tap, handled>>
    BY <1>1 DEF PostQuestion
  <2>2. c \in Cards /\ q \in Askers /\ q.card = c
    BY DEF Cards, Askers
  <2> HIDE DEF q
  <2>3. posted \subseteq posted' /\ posted' \subseteq Cards /\ c \in posted'
    BY <2>1, <2>2, SurfaceFacts
  <2> QED
    BY <2>1, <2>2, <2>3, SurfaceFacts, OtherFacts, OtherMoves
<1>2. CASE AskerClears
  <2> DEFINE q == [asker EXCEPT !.at = "arm"]
  <2>1. /\ ClearOthers("ask_founder") /\ asker' = q /\ asker.at = "clear"
        /\ UNCHANGED <<updates, offset, poller, posted, outcome, mirrored, tap, handled>>
    BY <1>2 DEF AskerClears
  <2>2. q \in Askers /\ q.card = asker.card
    BY OtherFacts DEF Askers
  <2> HIDE DEF q
  <2>3. /\ marker' \in [CaptureKinds -> Markers]
        /\ \A k \in CaptureKinds : marker'[k].card \in {marker[k].card, NoCard}
    BY <2>1, SurfaceFacts DEF ClearOthers
  <2> QED
    BY <2>1, <2>2, <2>3, SurfaceFacts, OtherFacts, OtherMoves
<1>3. CASE AskerSets
  <2> DEFINE m == [card |-> asker.card, expired |-> FALSE]
  <2>1. /\ marker' = [marker EXCEPT !["ask_founder"] = m] /\ asker' = AtRest /\ asker.at = "arm"
        /\ UNCHANGED <<updates, offset, poller, posted, outcome, mirrored, tap, handled>>
    BY <1>3 DEF AskerSets, SetMarker
  <2>2. m \in Markers /\ m.card \in posted
    BY <2>1, OtherFacts DEF Markers, Askers
  <2> HIDE DEF m
  <2>3. /\ marker' \in [CaptureKinds -> Markers]
        /\ \A k \in CaptureKinds : marker'[k].card = marker[k].card \/ marker'[k].card \in posted
    BY <2>1, <2>2, SurfaceFacts
  <2> QED
    BY <2>1, <2>3, SurfaceFacts, OtherFacts, OtherMoves
<1>4. CASE ArmFails
  <2>1. /\ asker' = AtRest
        /\ UNCHANGED <<updates, offset, poller, marker, posted, outcome, mirrored, tap, handled>>
    BY <1>4 DEF ArmFails
  <2> QED
    BY <2>1, SurfaceFacts, OtherFacts, OtherMoves
<1>5. CASE SurfaceCrash
  <2>1. /\ poller' = SurfaceResting /\ asker' = AtRest /\ tap' = NoTap
        /\ UNCHANGED <<updates, offset, marker, posted, outcome, mirrored, handled>>
    BY <1>5 DEF SurfaceCrash
  <2> QED
    BY <2>1, SurfaceFacts, OtherFacts, OtherMoves
<1> QED
  BY <1>1, <1>2, <1>3, <1>4, <1>5

LEMMA FounderSteps == ASSUME SurfaceInv, FounderActs PROVE SurfaceInv'
<1>1. ASSUME NEW u \in Updates, u.option = "text" \/ u.card \in posted, updates' = Append(updates, u),
             UNCHANGED <<offset, poller, marker, asker, posted, outcome, mirrored, tap, handled>>
      PROVE  SurfaceInv'
  <2>1. updates \in Seq(Updates)
    BY OtherFacts
  <2>2. /\ updates' \in Seq(Updates) /\ Len(updates') = Len(updates) + 1
        /\ \A n \in 1..Len(updates') : (n \in 1..Len(updates) /\ updates'[n] = updates[n]) \/ updates'[n] = u
    BY <1>1, <2>1
  <2>3. \A n \in 1..Len(updates') :
            (n \in 1..Len(updates) /\ updates'[n] = updates[n]) \/ updates'[n].option = "text"
            \/ updates'[n].card \in posted
    BY <1>1, <2>2
  <2> QED
    BY <1>1, <2>2, <2>3, SurfaceFacts, OtherFacts, OtherMoves
<1>2. CASE WriteInTopic
  <2> DEFINE u == [card |-> NoCard, option |-> "text"]
  <2>1. u \in Updates /\ u.option = "text"
    BY DEF Updates
  <2>2. /\ updates' = Append(updates, u)
        /\ UNCHANGED <<offset, poller, marker, asker, posted, outcome, mirrored, tap, handled>>
    BY <1>2 DEF WriteInTopic
  <2> HIDE DEF u
  <2> QED
    BY <1>1, <2>1, <2>2
<1>3. ASSUME NEW c \in Cards, TapInTelegram(c) PROVE SurfaceInv'
  <2>1. PICK o \in Options : updates' = Append(updates, [card |-> c, option |-> o])
    BY <1>3 DEF TapInTelegram, OptionsOf, Options
  <2> DEFINE u == [card |-> c, option |-> o]
  <2>2. u \in Updates /\ u.card = c
    BY DEF Updates
  <2>3. /\ updates' = Append(updates, u) /\ c \in posted
        /\ UNCHANGED <<offset, poller, marker, asker, posted, outcome, mirrored, tap, handled>>
    BY <1>3, <2>1 DEF TapInTelegram
  <2> HIDE DEF u
  <2> QED
    BY <1>1, <2>2, <2>3
<1>4. ASSUME NEW c \in Cards, TapInApp(c) PROVE SurfaceInv'
  <2>1. PICK o \in Options : tap' = [at |-> "route", card |-> c, option |-> o]
    BY <1>4 DEF TapInApp, OptionsOf, Options
  <2>2. tap' \in AppTaps /\ tap'.at = "route" /\ tap'.card = c /\ tap'.option = o
    BY <2>1 DEF AppTaps
  <2>3. UNCHANGED <<updates, offset, poller, marker, asker, posted, outcome, mirrored, handled>>
    BY <1>4 DEF TapInApp
  <2> QED
    BY <2>2, <2>3, SurfaceFacts, OtherFacts, OtherMoves
<1>5. CASE AppRoutes
  <2>1. /\ tap.at = "route" /\ Resolve(tap.card, tap.option)
        /\ UNCHANGED <<updates, offset, poller, marker, asker, posted, mirrored, handled>>
        /\ tap' = NoTap \/ tap' = [tap EXCEPT !.at = "mirror"]
    BY <1>5 DEF AppRoutes
  <2>2. tap.card \in Cards /\ tap.option \in Outcomes
    BY <2>1, OtherFacts DEF Outcomes
  <2>3. tap' \in AppTaps /\ (tap'.at # "rest" => tap'.card = tap.card /\ tap'.option = tap.option)
    BY <2>1, OtherFacts DEF AppTaps
  <2>4. tap'.at = "mirror" /\ tap'.option \in Verdicts => outcome'[tap'.card] # "none"
    BY <2>1, <2>2, <2>3, SurfaceFacts, VerdictMoves
  <2> QED
    BY <2>1, <2>2, <2>3, <2>4, VerdictMoves, SurfaceFacts, OtherFacts, OtherMoves
<1>6. CASE AppMirrors
  <2>1. /\ tap.at = "mirror" /\ Mirror(tap.card, tap.option) /\ tap' = NoTap
        /\ UNCHANGED <<updates, offset, poller, marker, asker, posted, outcome, handled>>
    BY <1>6 DEF AppMirrors
  <2> QED
    BY <2>1, MirrorMoves, SurfaceFacts, OtherFacts, OtherMoves
<1> QED
  BY <1>2, <1>3, <1>4, <1>5, <1>6 DEF FounderActs

\* SurfaceInv is an invariant.
LEMMA SurfaceInductive == SurfaceSpec => []SurfaceInv
<1>1. SurfaceInit => SurfaceInv
  <2> SUFFICES ASSUME SurfaceInit PROVE SurfaceInv
    OBVIOUS
  <2>1. SurfaceResting \in Polls /\ SurfaceResting.at = "rest" /\ Unarmed \in Markers /\ Unarmed.card = NoCard
    BY DEF SurfaceResting, Polls, PollStages, Unarmed, Markers
  <2>2. AtRest \in Askers /\ AtRest.at = "rest" /\ NoTap \in AppTaps /\ NoTap.at = "rest"
    BY DEF AtRest, Askers, NoTap, AppTaps
  <2>3. "none" \notin Verdicts
    BY CardOptions DEF Verdicts
  <2>4. SurfaceTypes
    BY <2>1, <2>2 DEF SurfaceInit, SurfaceTypes, Cards, Outcomes
  <2>5. PollInv /\ PostedInv /\ MirrorInv
    BY <2>1, <2>2 DEF SurfaceInit, PollInv, PostedInv, MirrorInv
  <2>6. OffsetIsHandled
    BY SurfaceLimits DEF SurfaceInit, OffsetIsHandled
  <2>7. ClosedIsDecided /\ ArmedIsPosted
    BY <2>1, <2>3 DEF SurfaceInit, ClosedIsDecided, ArmedIsPosted, Armed
  <2> QED
    BY <2>4, <2>5, <2>6, <2>7 DEF SurfaceInv, StoresFollowEffects
<1>2. SurfaceInv /\ [SurfaceNext]_surfaceVars => SurfaceInv'
  <2>1. CASE UNCHANGED surfaceVars
    BY <2>1 DEF surfaceVars, SurfaceInv, SurfaceTypes, PollInv, PostedInv, MirrorInv,
                StoresFollowEffects, OffsetIsHandled, ClosedIsDecided, ArmedIsPosted, Armed
  <2> QED
    BY <2>1, PresserSteps, WordSteps, BatchSteps, AskerSteps, FounderSteps DEF SurfaceNext, Poll, Worker
<1> QED
  BY <1>1, <1>2, PTL DEF SurfaceSpec

\* The offset follows the handling, the app's card the effect and the marker the card,
\* over throws, crashes and redeliveries: what is on its way from one store to the
\* next has passed the earlier one.
THEOREM StoresAreInOrder == SurfaceSpec => []StoresFollowEffects
<1>1. SurfaceInv => StoresFollowEffects
  BY DEF SurfaceInv
<1> QED
  BY <1>1, SurfaceInductive, PTL

InUpdate == {"route", "disarm", "arm", "mirror", "clear", "dispatch", "work"}

\* The poll stays within the updates there are, and so do the stored offset and what is handled.
PollBounds ==
    /\ Len(updates) <= MaxUpdates /\ offset <= Len(updates) + 1 /\ poller.next <= Len(updates) + 1
    /\ poller.at \in InUpdate => poller.next <= Len(updates)
    /\ handled \subseteq 1..MaxUpdates

\* What the poll and the app's request may still write on a card.
WordBounds ==
    /\ poller.at \in {"route", "disarm", "arm", "mirror"} => poller.option \in Options
    /\ poller.at \in {"clear", "dispatch"} /\ poller.kind = "ask_founder" => poller.option \in TypedAnswers
    /\ poller.at = "dispatch" => poller.kind = "ask_founder"
    /\ tap.option # "revise"

StoreBounds ==
    /\ asker.card \in Questions \cup {NoCard}
    /\ outcome \in [Cards -> Verdicts \cup {"edit", "none"}]
    /\ mirrored \in [Cards -> Options \cup {"none"}]
    /\ troubles \in 0..MaxTroubles

SurfaceBounds == PollBounds /\ WordBounds /\ StoreBounds

\* The poller's record, and the three ways it changes.
LEMMA PollerFields ==
    ASSUME SurfaceInv
    PROVE  /\ poller.next \in Nat /\ Len(updates) \in Nat /\ offset \in Nat \ {0} /\ MaxUpdates \in Nat
           /\ poller.at # "rest" => poller.next # 0
           /\ \A stage : LET q == [poller EXCEPT !.at = stage]
                         IN  q.at = stage /\ q.next = poller.next /\ q.kind = poller.kind /\ q.option = poller.option
           /\ \A stage, n : LET q == [SurfaceResting EXCEPT !.at = stage, !.next = n]
                            IN  q.at = stage /\ q.next = n
           /\ SurfaceResting.at = "rest" /\ SurfaceResting.next = 0
<1>1. poller \in Polls /\ updates \in Seq(Updates)
  BY SurfaceFacts, OtherFacts
<1>2. \A stage : LET q == [poller EXCEPT !.at = stage]
                 IN  q.at = stage /\ q.next = poller.next /\ q.kind = poller.kind /\ q.option = poller.option
  BY <1>1 DEF Polls
<1> QED
  BY <1>1, <1>2, SurfaceFacts, SurfaceLimits DEF SurfaceInv, PollInv, SurfaceResting

LEMMA PollWent ==
    ASSUME SurfaceInv, NEW stage, UpdateGoes(stage)
    PROVE  /\ poller'.at = stage /\ poller'.next = poller.next
           /\ poller'.kind = poller.kind /\ poller'.option = poller.option
BY SurfaceFacts DEF UpdateGoes, Polls

LEMMA PollFinished ==
    ASSUME SurfaceInv, Finish
    PROVE  poller'.at = "handle" /\ poller'.next = poller.next + 1 /\ handled' = handled \cup {poller.next}
BY DEF Finish, SurfaceResting

LEMMA PollBoundsStep ==
    ASSUME SurfaceInv, PollBounds, [SurfaceNext]_surfaceVars
    PROVE  PollBounds'
<1>0. /\ poller.next \in Nat /\ Len(updates) \in Nat /\ offset \in Nat \ {0} /\ MaxUpdates \in Nat
      /\ poller.at # "rest" => poller.next # 0
  BY PollerFields
<1>1. ASSUME NEW stage, UpdateGoes(stage), UNCHANGED <<updates, offset, handled>>,
             stage \in InUpdate => poller.at \in InUpdate
      PROVE  PollBounds'
  BY <1>1, PollerFields DEF UpdateGoes, PollBounds
<1>2. ASSUME Finish, UNCHANGED <<updates, offset>>, poller.next <= Len(updates), poller.at # "rest" PROVE PollBounds'
  <2>1. poller'.at = "handle" /\ poller'.next = poller.next + 1 /\ handled' = handled \cup {poller.next}
    BY <1>2, PollFinished
  <2>2. poller.next \in 1..MaxUpdates
    BY <1>0, <1>2 DEF PollBounds
  <2>3. handled' \subseteq 1..MaxUpdates
    BY <2>1, <2>2 DEF PollBounds
  <2>4. poller'.next <= Len(updates) + 1 /\ poller'.at \notin InUpdate
    BY <1>0, <1>2, <2>1 DEF InUpdate
  <2> QED
    BY <1>2, <2>3, <2>4 DEF PollBounds
<1>3. ASSUME UNCHANGED <<updates, offset, handled>>, UNCHANGED poller \/ poller' = SurfaceResting PROVE PollBounds'
  BY <1>0, <1>3, PollerFields DEF PollBounds, InUpdate
<1>4. ASSUME NEW u, updates' = Append(updates, u), Len(updates) < MaxUpdates, UNCHANGED <<offset, poller, handled>>
      PROVE  PollBounds'
  <2>1. Len(updates') = Len(updates) + 1
    BY <1>4, OtherFacts
  <2> QED
    BY <1>0, <1>4, <2>1 DEF PollBounds
<1>5. CASE Fetch
  <2>1. poller'.at = "handle" /\ poller'.next = offset /\ UNCHANGED <<updates, offset, handled>>
    BY <1>5, PollerFields DEF Fetch
  <2> QED
    BY <1>0, <1>5, <2>1 DEF Fetch, PollBounds, InUpdate
<1>6. CASE TakeTap \/ TakeText
  <2>1. poller \in Polls
    BY SurfaceFacts
  <2>2. poller'.next = poller.next /\ poller.next <= Len(updates) /\ UNCHANGED <<updates, offset, handled>>
    BY <1>6, <2>1 DEF TakeTap, TakeText, Polls
  <2> QED
    BY <1>0, <2>2 DEF PollBounds
<1>7. CASE RouteTap
  <2>1. poller.at \in InUpdate /\ UNCHANGED <<updates, offset, handled>> /\ poller'.next = poller.next
    <3>1. CASE UpdateGoes("mirror")
      BY <1>7, <3>1, PollWent DEF RouteTap, UpdateAt, InUpdate
    <3>2. ASSUME NEW k, poller' = [poller EXCEPT !.at = "disarm", !.kind = k] PROVE poller'.next = poller.next
      BY <3>2, SurfaceFacts DEF Polls
    <3> QED
      BY <1>7, <3>1, <3>2 DEF RouteTap, UpdateAt, InUpdate
  <2> QED
    BY <1>0, <2>1 DEF PollBounds
<1>8. CASE PollerClears \/ PollerSets
  BY <1>1, <1>8 DEF PollerClears, PollerSets, UpdateAt, InUpdate
<1>9. CASE MirrorTap \/ DispatchAnswer
  BY <1>2, <1>9 DEF MirrorTap, DispatchAnswer, UpdateAt, PollBounds, InUpdate
<1>10. CASE PassText \/ RefuseText
  BY <1>2, <1>10 DEF PassText, RefuseText, UpdateAt, PollBounds, InUpdate
<1>11. CASE ClearCapture \/ WorkOnDraft
  BY <1>1, <1>2, <1>11 DEF ClearCapture, WorkOnDraft, UpdateAt, PollBounds, InUpdate
<1>12. CASE EndOfBatch
  BY <1>1, <1>12 DEF EndOfBatch, InUpdate
<1>13. CASE SaveOffset
  BY <1>0, <1>13, PollerFields DEF SaveOffset, UpdateAt, PollBounds, InUpdate
<1>14. CASE Throw
  <2>1. poller'.at = "save" /\ poller'.next = poller.next /\ UNCHANGED <<updates, offset, handled>>
    BY <1>14, PollerFields DEF Throw, Hold
  <2> QED
    BY <2>1 DEF PollBounds, InUpdate
<1>15. CASE FounderActs
  BY <1>3, <1>4, <1>15 DEF FounderActs, TapInTelegram, TapInApp, WriteInTopic, AppRoutes, AppMirrors
<1>16. CASE Worker \/ ArmFails \/ SurfaceCrash \/ (\E k \in CaptureKinds : Expire(k)) \/ UNCHANGED surfaceVars
  BY <1>3, <1>16 DEF Worker, PostQuestion, AskerClears, AskerSets, ArmFails, SurfaceCrash, Expire, surfaceVars
<1> QED
  BY <1>5, <1>6, <1>7, <1>8, <1>9, <1>10, <1>11, <1>12, <1>13, <1>14, <1>15, <1>16 DEF SurfaceNext, Poll

LEMMA WordBoundsStep ==
    ASSUME SurfaceInv, WordBounds, [SurfaceNext]_surfaceVars
    PROVE  WordBounds'
<1> DEFINE Idle == {"rest", "handle", "save", "work"}
<1>1. CASE tap' \in {tap, NoTap} /\ (UNCHANGED poller \/ poller'.at \in Idle)
  BY <1>1 DEF WordBounds, NoTap
<1>2. ASSUME NEW stage, UpdateGoes(stage), UNCHANGED tap,
             stage \in {"arm", "mirror"} => poller.at \in {"route", "disarm", "arm", "mirror"},
             stage \in {"clear", "dispatch"} => poller.at = "clear" /\ poller.kind = "ask_founder",
             stage \notin {"route", "disarm"}
      PROVE  WordBounds'
  BY <1>2, PollerFields DEF UpdateGoes, WordBounds
<1>3. CASE Fetch \/ MirrorTap \/ PassText \/ DispatchAnswer \/ RefuseText \/ SaveOffset \/ Throw
  <2>1. UNCHANGED tap /\ poller'.at \in Idle
    <3>1. CASE MirrorTap \/ PassText \/ DispatchAnswer \/ RefuseText
      BY <3>1, PollFinished DEF MirrorTap, PassText, DispatchAnswer, RefuseText
    <3>2. CASE Fetch
      BY <3>2 DEF Fetch, SurfaceResting
    <3>3. CASE SaveOffset
      BY <3>3 DEF SaveOffset, SurfaceResting
    <3>4. CASE Throw
      BY <3>4 DEF Throw, Hold, SurfaceResting
    <3> QED
      BY <1>3, <3>1, <3>2, <3>3, <3>4
  <2> QED
    BY <1>1, <2>1
<1>4. CASE TakeTap
  <2>1. updates[poller.next] \in Updates /\ poller \in Polls
    BY <1>4, PollerFields, SurfaceFacts, OtherFacts DEF TakeTap, UpdateAt
  <2>2. Update.option \in Options
    BY <1>4, <2>1 DEF TakeTap, Update, Updates
  <2>3. poller'.at = "route" /\ poller'.option = Update.option /\ UNCHANGED tap
    BY <1>4, <2>1 DEF TakeTap, Polls
  <2> QED
    BY <2>2, <2>3 DEF WordBounds
<1>5. CASE RouteTap
  <2>1. poller.at = "route" /\ UNCHANGED tap /\ poller \in Polls
    BY <1>5, SurfaceFacts DEF RouteTap, UpdateAt
  <2>2. poller'.at \in {"mirror", "disarm"} /\ poller'.option = poller.option
    BY <1>5, <2>1 DEF RouteTap, UpdateGoes, Polls
  <2> QED
    BY <2>1, <2>2 DEF WordBounds
<1>6. CASE PollerClears \/ PollerSets
  BY <1>2, <1>6 DEF PollerClears, PollerSets, UpdateAt
<1>7. CASE TakeText
  <2>1. PICK o \in TypedAnswers :
          poller' = [poller EXCEPT !.at = IF FirstCapture = "draft_edit" THEN "work" ELSE "clear",
                                   !.kind = FirstCapture, !.card = marker[FirstCapture].card,
                                   !.option = IF FirstCapture = "ask_founder" THEN o ELSE "text"]
    BY <1>7 DEF TakeText
  <2>2. /\ poller'.at \in {"work", "clear"} /\ UNCHANGED tap
        /\ poller'.kind = "ask_founder" => poller'.option \in TypedAnswers
    BY <1>7, <2>1, SurfaceFacts DEF TakeText, Polls
  <2> QED
    BY <2>2 DEF WordBounds
<1>8. CASE ClearCapture
  <2>1. CASE poller.kind = "draft_edit"
    <3>1. UNCHANGED tap /\ poller'.at = "handle"
      BY <1>8, <2>1, PollFinished DEF ClearCapture
    <3> QED
      BY <1>1, <3>1
  <2>2. CASE poller.kind # "draft_edit"
    BY <1>2, <1>8, <2>2 DEF ClearCapture, UpdateAt
  <2> QED
    BY <2>1, <2>2
<1>9. CASE WorkOnDraft
  <2>1. CASE poller.kind = "draft_edit"
    <3>1. UNCHANGED tap /\ poller'.at = "clear" /\ poller'.kind = "draft_edit"
      BY <1>9, <2>1, PollWent DEF WorkOnDraft
    <3> QED
      BY <3>1 DEF WordBounds
  <2>2. CASE poller.kind # "draft_edit"
    <3>1. UNCHANGED tap /\ poller'.at = "handle"
      BY <1>9, <2>2, PollFinished DEF WorkOnDraft
    <3> QED
      BY <1>1, <3>1
  <2> QED
    BY <2>1, <2>2
<1>10. CASE EndOfBatch
  <2>1. UNCHANGED tap /\ poller'.at = "save"
    BY <1>10, PollerFields DEF EndOfBatch, UpdateGoes
  <2> QED
    BY <1>1, <2>1
<1>11. CASE FounderActs
  <2>1. UNCHANGED poller
    BY <1>11 DEF FounderActs, TapInTelegram, TapInApp, WriteInTopic, AppRoutes, AppMirrors
  <2>2. tap'.option # "revise"
    <3>1. CASE AppRoutes
      BY <3>1, OtherFacts DEF AppRoutes, AppTaps, NoTap, WordBounds
    <3>2. CASE WriteInTopic \/ AppMirrors \/ (\E c \in Cards : TapInTelegram(c) \/ TapInApp(c))
      BY <3>2 DEF WriteInTopic, AppMirrors, TapInTelegram, TapInApp, NoTap, WordBounds
    <3> QED
      BY <1>11, <3>1, <3>2 DEF FounderActs
  <2> QED
    BY <2>1, <2>2 DEF WordBounds
<1>12. CASE Worker \/ ArmFails \/ SurfaceCrash \/ (\E k \in CaptureKinds : Expire(k)) \/ UNCHANGED surfaceVars
  <2>1. tap' \in {tap, NoTap} /\ (UNCHANGED poller \/ poller'.at \in Idle)
    BY <1>12, PollerFields DEF Worker, PostQuestion, AskerClears, AskerSets, ArmFails, SurfaceCrash, Expire, surfaceVars
  <2> QED
    BY <1>1, <2>1
<1> QED
  BY <1>3, <1>4, <1>5, <1>6, <1>7, <1>8, <1>9, <1>10, <1>11, <1>12 DEF SurfaceNext, Poll

LEMMA StoreBoundsStep ==
    ASSUME SurfaceInv, WordBounds, StoreBounds, [SurfaceNext]_surfaceVars
    PROVE  StoreBounds'
<1>1. asker'.card \in Questions \cup {NoCard}
  <2>1. \/ UNCHANGED asker \/ asker' = AtRest \/ asker' = [asker EXCEPT !.at = "arm"]
        \/ \E c \in Questions : asker' = [at |-> "clear", card |-> c]
    BY DEF SurfaceNext, Poll, Fetch, TakeTap, RouteTap, PollerClears, PollerSets, MirrorTap, TakeText, PassText,
           ClearCapture, DispatchAnswer, WorkOnDraft, EndOfBatch, SaveOffset, Throw, RefuseText, FounderActs,
           TapInTelegram, TapInApp, WriteInTopic, AppRoutes, AppMirrors, Worker, PostQuestion, AskerClears,
           AskerSets, ArmFails, SurfaceCrash, Expire, surfaceVars
  <2>2. asker \in Askers
    BY OtherFacts
  <2> QED
    BY <2>1, <2>2 DEF StoreBounds, AtRest, Askers
<1>2. troubles' \in 0..MaxTroubles
  <2>1. UNCHANGED troubles \/ (troubles < MaxTroubles /\ troubles' = troubles + 1)
    BY DEF SurfaceNext, Poll, Fetch, TakeTap, RouteTap, PollerClears, PollerSets, MirrorTap, TakeText, PassText,
           ClearCapture, DispatchAnswer, WorkOnDraft, EndOfBatch, SaveOffset, Throw, RefuseText, FounderActs,
           TapInTelegram, TapInApp, WriteInTopic, AppRoutes, AppMirrors, Worker, PostQuestion, AskerClears,
           AskerSets, ArmFails, SurfaceCrash, Expire, surfaceVars
  <2> QED
    BY <2>1, SurfaceLimits DEF StoreBounds
<1>3. outcome' \in [Cards -> Verdicts \cup {"edit", "none"}]
  <2>1. \/ UNCHANGED outcome
        \/ poller.option \in Verdicts /\ Resolve(poller.card, poller.option)
        \/ poller.at = "dispatch" /\ Resolve(poller.card, poller.option)
        \/ Resolve(poller.card, "edit")
        \/ tap.at = "route" /\ Resolve(tap.card, tap.option)
    BY DEF SurfaceNext, Poll, Fetch, TakeTap, RouteTap, PollerClears, PollerSets, MirrorTap, TakeText, PassText,
           ClearCapture, DispatchAnswer, WorkOnDraft, EndOfBatch, SaveOffset, Throw, RefuseText, FounderActs,
           TapInTelegram, TapInApp, WriteInTopic, AppRoutes, AppMirrors, Worker, PostQuestion, AskerClears,
           AskerSets, ArmFails, SurfaceCrash, Expire, surfaceVars, UpdateAt
  <2>2. poller.at = "dispatch" => poller.option \in Verdicts
    BY DEF WordBounds, Verdicts
  <2>3. tap.at = "route" => tap.option \in Verdicts \cup {"edit"}
    BY OtherFacts, CardOptions DEF WordBounds, Verdicts, Options
  <2>4. ASSUME NEW c, NEW o \in Verdicts \cup {"edit"}, Resolve(c, o)
        PROVE  outcome' \in [Cards -> Verdicts \cup {"edit", "none"}]
    BY <2>4 DEF Resolve, StoreBounds
  <2> QED
    BY <2>1, <2>2, <2>3, <2>4 DEF StoreBounds
<1>4. mirrored' \in [Cards -> Options \cup {"none"}]
  <2>1. \/ UNCHANGED mirrored
        \/ poller.at = "mirror" /\ Mirror(poller.card, poller.option)
        \/ tap.at = "mirror" /\ Mirror(tap.card, tap.option)
    BY DEF SurfaceNext, Poll, Fetch, TakeTap, RouteTap, PollerClears, PollerSets, MirrorTap, TakeText, PassText,
           ClearCapture, DispatchAnswer, WorkOnDraft, EndOfBatch, SaveOffset, Throw, RefuseText, FounderActs,
           TapInTelegram, TapInApp, WriteInTopic, AppRoutes, AppMirrors, Worker, PostQuestion, AskerClears,
           AskerSets, ArmFails, SurfaceCrash, Expire, surfaceVars, UpdateAt
  <2>2. UNCHANGED mirrored \/ \E c, o : o \in Options /\ Mirror(c, o)
    BY <2>1, OtherFacts DEF WordBounds
  <2> QED
    BY <2>2 DEF Mirror, StoreBounds
<1> QED
  BY <1>1, <1>2, <1>3, <1>4 DEF StoreBounds

\* The updates, the poll, the captures and what the two stores show stay what they are.
THEOREM SurfaceTypesHold == SurfaceSpec => []SurfaceTypeOK
<1>1. SurfaceInit => SurfaceBounds
  <2> SUFFICES ASSUME SurfaceInit PROVE SurfaceBounds
    OBVIOUS
  <2> QED
    BY SurfaceLimits DEF SurfaceInit, SurfaceBounds, PollBounds, WordBounds, StoreBounds, SurfaceResting, AtRest, NoTap, InUpdate
<1>2. SurfaceInv /\ SurfaceBounds /\ [SurfaceNext]_surfaceVars => SurfaceBounds'
  BY PollBoundsStep, WordBoundsStep, StoreBoundsStep DEF SurfaceBounds
<1>3. SurfaceInv /\ SurfaceBounds => SurfaceTypeOK
  <2> SUFFICES ASSUME SurfaceInv, SurfaceBounds PROVE SurfaceTypeOK
    OBVIOUS
  <2>1. Len(updates) \in Nat /\ MaxUpdates \in Nat /\ offset \in Nat \ {0} /\ poller.next \in Nat
    BY PollerFields
  <2>2. offset \in 1..(MaxUpdates + 1) /\ poller.next \in 0..(MaxUpdates + 1) /\ handled \in SUBSET (1..MaxUpdates)
    BY <2>1 DEF SurfaceBounds, PollBounds
  <2>3. poller \in [at : PollStages, next : 0..(MaxUpdates + 1), kind : CaptureKinds \cup {"none"},
                    card : Cards \cup {NoCard}, option : Options \cup {"none", "text"}]
    BY <2>2, SurfaceFacts DEF Polls
  <2>4. asker \in [at : {"rest", "clear", "arm"}, card : Questions \cup {NoCard}]
    BY OtherFacts DEF Askers, SurfaceBounds, StoreBounds
  <2> QED
    BY <2>2, <2>3, <2>4 DEF SurfaceTypeOK, SurfaceInv, SurfaceTypes, SurfaceBounds, PollBounds, StoreBounds,
                            Updates, Markers, AppTaps, PollStages
<1> QED
  BY <1>1, <1>2, <1>3, SurfaceInductive, PTL DEF SurfaceSpec

-----------------------------------------------------------------------------
(* AppFeed.                                                                  *)

Reads == [kind : {"list", "queue"}, served : BOOLEAN, body : [FeedCards -> FeedRows]]
FeedTaps == [at : {"none", "sent", "done", "refused"}, kind : {"none", "decide", "dismiss"},
             card : FeedCards \cup {"none"}, option : FeedOptions \cup {"none"},
             kept : SUBSET FeedCards, row : FeedRows]

\* What a row has become: it never loses its place, its answer or its dismissal, and one
\* that is not there has no answer.
Later(old, new) ==
    /\ ~old.here => old.decided = "none"
    /\ old.here => new.here
    /\ old.gone => new.gone
    /\ old.decided # "none" => new.decided = old.decided

\* A phone shows of a row what it says, or said before, but for the choice it is sending.
ShowsTrue(d, c) ==
    LET shown == feedList[d][c]
    IN /\ shown.here => rowOf[c].here
       /\ shown.gone => rowOf[c].gone
       /\ ~shown.here => shown.decided = "none"
       /\ shown.decided # "none" =>
             \/ shown.decided = rowOf[c].decided
             \/ feedTap[d].kind = "decide" /\ feedTap[d].card = c /\ feedTap[d].option = shown.decided
ShownIsOnRecord == \A d \in Phones, c \in FeedCards : ShowsTrue(d, c)

\* What is under way to a phone was a row's state some time.
FramesSound ==
    /\ \A n \in news : Later(n.row, rowOf[n.card])
    /\ \A d \in Phones : \A i \in 1..Len(stream[d]) : Later(stream[d][i].row, rowOf[stream[d][i].card])
ReadsSound == \A d \in Phones : \A r \in reads[d] : \A c \in FeedCards : Later(r.body[c], rowOf[c])
TapSound(d) ==
    \/ feedTap[d] = NoFeedTap
    \/ /\ feedTap[d].at # "none" /\ feedTap[d].kind # "none" /\ feedTap[d].card \in FeedCards
       /\ feedTap[d].at = "done" => Later(feedTap[d].row, rowOf[feedTap[d].card])

AppFeedInv ==
    /\ AppFeedTypeOK /\ FramesSound /\ ReadsSound /\ ShownIsOnRecord
    /\ \A d \in Phones : TapSound(d)
    /\ \A c \in FeedCards : ~rowOf[c].here => rowOf[c] = Absent

LEMMA AppFeedFacts ==
    ASSUME AppFeedInv
    PROVE  /\ rowOf \in [FeedCards -> FeedRows] /\ news \subseteq Frames
           /\ stream \in [Phones -> Seq(Frames)] /\ online \in [Phones -> BOOLEAN]
           /\ feedList \in [Phones -> [FeedCards -> FeedRows]] /\ listed \in [Phones -> SUBSET FeedCards]
           /\ reads \in [Phones -> SUBSET Reads]
           /\ feedTap \in [Phones -> FeedTaps] /\ taps \in Nat /\ away \in Nat
           /\ MaxTaps \in Nat /\ MaxAway \in Nat /\ taps <= MaxTaps /\ away <= MaxAway
           /\ NoFeedTap \in FeedTaps /\ NoRows \in [FeedCards -> FeedRows] /\ Absent \in FeedRows
<1>1. Absent \in FeedRows
  BY DEF Absent, FeedRows
<1>2. NoFeedTap \in FeedTaps
  BY <1>1 DEF NoFeedTap, FeedTaps
<1>3. NoRows \in [FeedCards -> FeedRows]
  BY <1>1 DEF NoRows
<1>4. feedTap \in [Phones -> FeedTaps] /\ reads \in [Phones -> SUBSET Reads]
  BY DEF AppFeedInv, AppFeedTypeOK, FeedTaps, Reads
<1> QED
  BY <1>1, <1>2, <1>3, <1>4, AppFeedAssumption DEF AppFeedInv, AppFeedTypeOK

\* The types after a step, from those of what it changes.
LEMMA AppFeedMoves ==
    ASSUME AppFeedInv, rowOf' \in [FeedCards -> FeedRows], news' \subseteq Frames,
           stream' \in [Phones -> Seq(Frames)], online' \in [Phones -> BOOLEAN],
           feedList' \in [Phones -> [FeedCards -> FeedRows]], listed' \in [Phones -> SUBSET FeedCards],
           reads' \in [Phones -> SUBSET Reads], feedTap' \in [Phones -> FeedTaps],
           taps' \in 0..MaxTaps, away' \in 0..MaxAway
    PROVE  AppFeedTypeOK'
BY DEF AppFeedTypeOK, FeedTaps, Reads

\* A phone's requests in flight, but for one that is dropped, and one more.
LEMMA MoreReads ==
    ASSUME AppFeedInv, NEW d \in Phones, NEW R, NEW S, R \subseteq reads[d], S \subseteq Reads,
           reads' = [reads EXCEPT ![d] = R \cup S],
           \A r \in S, c \in FeedCards : Later(r.body[c], rowOf[c]), UNCHANGED rowOf
    PROVE  reads' \in [Phones -> SUBSET Reads] /\ ReadsSound'
<1>1. reads' \in [Phones -> SUBSET Reads]
  BY AppFeedFacts
<1>2. \A e \in Phones : reads'[e] = IF e = d THEN R \cup S ELSE reads[e]
  BY AppFeedFacts
<1>3. ReadsSound'
  BY <1>2 DEF AppFeedInv, ReadsSound
<1> QED
  BY <1>1, <1>3

LEMMA FewerReads ==
    ASSUME AppFeedInv, NEW d \in Phones, NEW r, reads' = [reads EXCEPT ![d] = reads[d] \ {r}], UNCHANGED rowOf
    PROVE  reads' \in [Phones -> SUBSET Reads] /\ ReadsSound'
<1>1. reads' \in [Phones -> SUBSET Reads]
  BY AppFeedFacts
<1>2. \A e \in Phones : reads'[e] \subseteq reads[e]
  BY AppFeedFacts
<1> QED
  BY <1>1, <1>2 DEF AppFeedInv, ReadsSound

\* A question that has just been asked says nothing yet.
LEMMA AskedReads ==
    ASSUME AppFeedInv, NEW kind \in {"list", "queue"}
    PROVE  /\ Get(kind) \in Reads
           /\ \A c \in FeedCards : Later(Get(kind).body[c], rowOf[c])
<1>1. Get(kind) \in Reads
  BY AppFeedFacts DEF Get, Reads
<1>2. \A c \in FeedCards : Get(kind).body[c] = Absent
  BY DEF Get, NoRows
<1> QED
  BY <1>1, <1>2 DEF Later, Absent

\* When the rows go on, what was said of them was still said.
LEMMA RowsGoOn ==
    ASSUME AppFeedInv, rowOf' \in [FeedCards -> FeedRows],
           \A c \in FeedCards : Later(rowOf[c], rowOf'[c]) /\ (~rowOf'[c].here => rowOf'[c] = Absent),
           news' \subseteq Frames, \A n \in news' : n \in news \/ Later(n.row, rowOf'[n.card]),
           UNCHANGED <<stream, online, feedList, listed, reads, taps>>, away' \in 0..MaxAway,
           feedTap' \in [Phones -> FeedTaps], \A d \in Phones : TapSound(d)',
           \A d \in Phones : /\ feedTap'[d].kind = feedTap[d].kind
                             /\ feedTap'[d].card = feedTap[d].card
                             /\ feedTap'[d].option = feedTap[d].option
    PROVE  AppFeedInv'
<1>1. \A c \in FeedCards : \A old : Later(old, rowOf[c]) => Later(old, rowOf'[c])
  BY DEF Later
<1>2. \A n \in Frames : n.card \in FeedCards
  BY DEF Frames
<1>3. FramesSound'
  <2>1. \A n \in news' : Later(n.row, rowOf'[n.card])
    BY <1>1, <1>2, AppFeedFacts DEF AppFeedInv, FramesSound
  <2>2. ASSUME NEW d \in Phones, NEW i \in 1..Len(stream[d])
        PROVE  Later(stream[d][i].row, rowOf'[stream[d][i].card])
    <3>1. stream[d] \in Seq(Frames) /\ stream[d][i] \in Frames
      BY AppFeedFacts
    <3> QED
      BY <1>1, <1>2, <3>1 DEF AppFeedInv, FramesSound
  <2> QED
    BY <2>1, <2>2 DEF FramesSound
<1>4. ReadsSound'
  BY <1>1 DEF AppFeedInv, ReadsSound
<1>5. ShownIsOnRecord'
  BY DEF AppFeedInv, ShownIsOnRecord, ShowsTrue, Later
<1>6. AppFeedTypeOK'
  BY AppFeedFacts, AppFeedMoves
<1> QED
  BY <1>3, <1>4, <1>5, <1>6 DEF AppFeedInv

\* The rows that are written are published as they are.
LEMMA Written ==
    ASSUME AppFeedInv, NEW rows \in [FeedCards -> FeedRows], Write(rows),
           \A c \in FeedCards : ~rows[c].here => rows[c] = Absent
    PROVE  /\ rowOf' = rows /\ news' \subseteq Frames
           /\ \A n \in news' : n \in news \/ Later(n.row, rowOf'[n.card])
<1>1. rowOf' = rows /\ news' = news \cup {[card |-> c, row |-> rows[c]] : c \in {e \in FeedCards : rows[e] # rowOf[e]}}
  BY DEF Write
<1>2. \A c \in FeedCards : [card |-> c, row |-> rows[c]] \in Frames
  BY DEF Frames
<1> QED
  BY <1>1, <1>2, AppFeedFacts DEF Later, Absent

LEMMA PostRowStep ==
    ASSUME AppFeedInv, NEW c \in FeedCards, PostRow(c)
    PROVE  AppFeedInv'
<1>1. PICK row \in FeedRows : row.here /\ Write([rowOf EXCEPT ![c] = row])
  <2>1. FreshRow \in FeedRows /\ [FreshRow EXCEPT !.gone = TRUE] \in FeedRows /\ FreshRow.here
        /\ [FreshRow EXCEPT !.gone = TRUE].here
    BY DEF FreshRow, FeedRows
  <2> QED
    BY <2>1 DEF PostRow
<1>2. ~rowOf[c].here /\ UNCHANGED <<stream, online, feedList, listed, reads, feedTap, taps, away>>
  BY DEF PostRow
<1>0. [rowOf EXCEPT ![c] = row] \in [FeedCards -> FeedRows]
  BY AppFeedFacts
<1>00. \A e \in FeedCards : ~[rowOf EXCEPT ![c] = row][e].here => [rowOf EXCEPT ![c] = row][e] = Absent
  BY <1>1, AppFeedFacts DEF AppFeedInv
<1>3. rowOf' = [rowOf EXCEPT ![c] = row] /\ rowOf' \in [FeedCards -> FeedRows]
  BY <1>0, <1>00, <1>1, Written
<1>4. rowOf[c] = Absent
  BY <1>2 DEF AppFeedInv
<1>5. \A e \in FeedCards : Later(rowOf[e], rowOf'[e]) /\ (~rowOf'[e].here => rowOf'[e] = Absent)
  <2>1. Later(rowOf[c], rowOf'[c]) /\ rowOf'[c].here
    BY <1>1, <1>3, <1>4, AppFeedFacts DEF Later, Absent
  <2>2. ASSUME NEW e \in FeedCards, e # c PROVE rowOf'[e] = rowOf[e]
    BY <1>3, <2>2, AppFeedFacts
  <2> QED
    BY <2>1, <2>2 DEF Later, AppFeedInv, Absent
<1>6. news' \subseteq Frames /\ \A n \in news' : n \in news \/ Later(n.row, rowOf'[n.card])
  BY <1>0, <1>00, <1>1, <1>3, Written
<1>7. \A d \in Phones : TapSound(d)'
  BY <1>2, <1>5 DEF AppFeedInv, TapSound, Later
<1> QED
  BY <1>2, <1>3, <1>5, <1>6, <1>7, AppFeedFacts, RowsGoOn

\* An answer, or a dismissal, is given to rows that are there.
LEMMA MarkRowSteps ==
    ASSUME AppFeedInv, NEW c \in FeedCards, NEW o \in FeedOptions \cup {"none"},
           MarkDecided(RefOf[c], o) \/ MarkDismissed(RefOf[c])
    PROVE  /\ rowOf' \in [FeedCards -> FeedRows] /\ news' \subseteq Frames
           /\ \A n \in news' : n \in news \/ Later(n.row, rowOf'[n.card])
           /\ \A e \in FeedCards : Later(rowOf[e], rowOf'[e]) /\ (~rowOf'[e].here => rowOf'[e] = Absent)
<1>1. ASSUME NEW rows \in [FeedCards -> FeedRows], Write(rows),
             \A e \in FeedCards :
                \/ rows[e] = rowOf[e]
                \/ rows[e].here /\ Later(rowOf[e], rows[e])
      PROVE  /\ rowOf' \in [FeedCards -> FeedRows] /\ news' \subseteq Frames
             /\ \A n \in news' : n \in news \/ Later(n.row, rowOf'[n.card])
             /\ \A e \in FeedCards : Later(rowOf[e], rowOf'[e]) /\ (~rowOf'[e].here => rowOf'[e] = Absent)
  <2>1. rowOf' = rows /\ news' \subseteq Frames /\ \A n \in news' : n \in news \/ Later(n.row, rowOf'[n.card])
    BY <1>1, Written DEF AppFeedInv
  <2> QED
    BY <1>1, <2>1 DEF Later, AppFeedInv, Absent
<1>2. CASE MarkDecided(RefOf[c], o)
  <2> DEFINE Marks(e) == rowOf[e].here /\ RefOf[e] = RefOf[c] /\ rowOf[e].decided = "none"
             rows == [e \in FeedCards |-> IF Marks(e) THEN [rowOf[e] EXCEPT !.decided = o] ELSE rowOf[e]]
  <2>1. Write(rows)
    BY <1>2 DEF MarkDecided
  <2>2. ASSUME NEW e \in FeedCards, rowOf[e].here, rowOf[e].decided = "none"
        PROVE  /\ [rowOf[e] EXCEPT !.decided = o] \in FeedRows
               /\ [rowOf[e] EXCEPT !.decided = o].here
               /\ Later(rowOf[e], [rowOf[e] EXCEPT !.decided = o])
    BY <2>2, AppFeedFacts DEF FeedRows, Later
  <2>3. rows \in [FeedCards -> FeedRows]
    BY <2>2, AppFeedFacts
  <2>4. \A e \in FeedCards : rows[e] = rowOf[e] \/ (rows[e].here /\ Later(rowOf[e], rows[e]))
    BY <2>2
  <2> HIDE DEF rows
  <2> QED
    BY <1>1, <2>1, <2>3, <2>4
<1>3. CASE MarkDismissed(RefOf[c])
  <2> DEFINE Marks(e) == rowOf[e].here /\ RefOf[e] = RefOf[c] /\ KindOf[e] = "notification"
             rows == [e \in FeedCards |-> IF Marks(e) THEN [rowOf[e] EXCEPT !.gone = TRUE] ELSE rowOf[e]]
  <2>1. Write(rows)
    BY <1>3 DEF MarkDismissed
  <2>2. ASSUME NEW e \in FeedCards, rowOf[e].here
        PROVE  /\ [rowOf[e] EXCEPT !.gone = TRUE] \in FeedRows
               /\ [rowOf[e] EXCEPT !.gone = TRUE].here
               /\ Later(rowOf[e], [rowOf[e] EXCEPT !.gone = TRUE])
    BY <2>2, AppFeedFacts DEF FeedRows, Later
  <2>3. rows \in [FeedCards -> FeedRows]
    BY <2>2, AppFeedFacts
  <2>4. \A e \in FeedCards : rows[e] = rowOf[e] \/ (rows[e].here /\ Later(rowOf[e], rows[e]))
    BY <2>2
  <2> HIDE DEF rows
  <2> QED
    BY <1>1, <2>1, <2>3, <2>4
<1> QED
  BY <1>2, <1>3

LEMMA DecideElsewhereStep ==
    ASSUME AppFeedInv, NEW c \in FeedCards, NEW o \in FeedOptions, DecideElsewhere(c, o)
    PROVE  AppFeedInv'
<1>1. MarkDecided(RefOf[c], o) /\ UNCHANGED <<stream, online, feedList, listed, reads, feedTap, taps, away>>
  BY DEF DecideElsewhere
<1>2. /\ rowOf' \in [FeedCards -> FeedRows] /\ news' \subseteq Frames
      /\ \A n \in news' : n \in news \/ Later(n.row, rowOf'[n.card])
      /\ \A e \in FeedCards : Later(rowOf[e], rowOf'[e]) /\ (~rowOf'[e].here => rowOf'[e] = Absent)
  BY <1>1, MarkRowSteps
<1>3. \A d \in Phones : TapSound(d)'
  BY <1>1, <1>2 DEF AppFeedInv, TapSound, Later
<1> QED
  BY <1>1, <1>2, <1>3, AppFeedFacts, RowsGoOn

\* A tap is heard, and its answer is the row as it is then.
LEMMA ServeTapStep ==
    ASSUME AppFeedInv, NEW d \in Phones, ServeTap(d)
    PROVE  AppFeedInv'
<1> DEFINE c == feedTap[d].card
           o == feedTap[d].option
<1>0. c \in FeedCards /\ o \in FeedOptions \cup {"none"} /\ feedTap[d] \in FeedTaps /\ feedTap[d].kind # "none"
      /\ UNCHANGED <<stream, online, feedList, listed, reads, taps, away>>
  BY AppFeedFacts DEF ServeTap, AppFeedInv, TapSound, NoFeedTap, FeedTaps
<1>1. PICK at \in {"done", "refused"} : Heard(d, at)
  BY DEF ServeTap
<1>2. \/ UNCHANGED <<rowOf, news>>
      \/ MarkDecided(RefOf[c], o)
      \/ MarkDismissed(RefOf[c])
  BY DEF ServeTap
<1>3. /\ rowOf' \in [FeedCards -> FeedRows] /\ news' \subseteq Frames
      /\ \A n \in news' : n \in news \/ Later(n.row, rowOf'[n.card])
      /\ \A e \in FeedCards : Later(rowOf[e], rowOf'[e]) /\ (~rowOf'[e].here => rowOf'[e] = Absent)
  <2>1. CASE UNCHANGED <<rowOf, news>>
    BY <2>1, AppFeedFacts DEF Later, AppFeedInv, Absent
  <2> QED
    BY <1>0, <1>2, <2>1, MarkRowSteps
<1>4. PICK row \in FeedRows : row = rowOf'[c]
  BY <1>0, <1>3
<1> DEFINE heard == [feedTap[d] EXCEPT !.at = at, !.row = row]
<1>5. feedTap' = [feedTap EXCEPT ![d] = heard]
  BY <1>1, <1>4, AppFeedFacts DEF Heard
<1>6. heard \in FeedTaps /\ heard.at = at /\ heard.row = row /\ heard.card = c /\ heard.option = o
      /\ heard.kind = feedTap[d].kind
  BY <1>0, <1>1, <1>4 DEF FeedTaps
<1> HIDE DEF heard
<1>7. feedTap' \in [Phones -> FeedTaps] /\ feedTap'[d] = heard /\ \A e \in Phones \ {d} : feedTap'[e] = feedTap[e]
  BY <1>5, <1>6, AppFeedFacts
<1>8. ASSUME NEW e \in Phones PROVE TapSound(e)'
  <2>1. CASE e = d
    BY <1>0, <1>1, <1>3, <1>4, <1>6, <1>7, <2>1 DEF TapSound, Later, Absent
  <2>2. CASE e # d
    BY <1>3, <1>7, <2>2 DEF AppFeedInv, TapSound, Later
  <2> QED
    BY <2>1, <2>2
<1>9. \A e \in Phones : /\ feedTap'[e].kind = feedTap[e].kind
                        /\ feedTap'[e].card = feedTap[e].card
                        /\ feedTap'[e].option = feedTap[e].option
  BY <1>6, <1>7
<1> QED
  BY <1>0, <1>3, <1>7, <1>8, <1>9, AppFeedFacts, RowsGoOn

\* What is published is under way to the phones that listen.
LEMMA PublishStep ==
    ASSUME AppFeedInv, Publish
    PROVE  AppFeedInv'
<1>1. PICK n \in news :
          /\ news' = news \ {n}
          /\ stream' = [d \in Phones |-> IF online[d] THEN Append(stream[d], n) ELSE stream[d]]
          /\ UNCHANGED <<rowOf, online, feedList, listed, reads, feedTap, taps, away>>
  BY DEF Publish
<1>2. n \in Frames /\ Later(n.row, rowOf[n.card])
  BY AppFeedFacts DEF AppFeedInv, FramesSound
<1>3. ASSUME NEW d \in Phones
      PROVE  /\ stream'[d] \in Seq(Frames)
             /\ \A i \in 1..Len(stream'[d]) : Later(stream'[d][i].row, rowOf[stream'[d][i].card])
  <2>1. stream[d] \in Seq(Frames) /\ \A i \in 1..Len(stream[d]) : Later(stream[d][i].row, rowOf[stream[d][i].card])
    BY AppFeedFacts DEF AppFeedInv, FramesSound
  <2>2. CASE online[d]
    <3>1. stream'[d] = Append(stream[d], n)
      BY <1>1, <2>2
    <3>2. \A i \in 1..Len(stream'[d]) : stream'[d][i] = n \/ (i \in 1..Len(stream[d]) /\ stream'[d][i] = stream[d][i])
      BY <1>2, <2>1, <3>1
    <3> QED
      BY <1>2, <2>1, <3>1, <3>2
  <2>3. CASE ~online[d]
    BY <1>1, <2>1, <2>3
  <2> QED
    BY <2>2, <2>3
<1>4. stream' \in [Phones -> Seq(Frames)]
  BY <1>1, <1>3
<1>5. FramesSound'
  BY <1>1, <1>3 DEF AppFeedInv, FramesSound
<1>6. AppFeedTypeOK'
  BY <1>1, <1>4, AppFeedFacts, AppFeedMoves
<1> QED
  BY <1>1, <1>5, <1>6 DEF AppFeedInv, ReadsSound, ShownIsOnRecord, ShowsTrue, TapSound

LEMMA DeliverStep ==
    ASSUME AppFeedInv, NEW d \in Phones, Deliver(d)
    PROVE  AppFeedInv'
<1> DEFINE n == Head(stream[d])
<1>1. /\ stream[d] # <<>> /\ feedList' = [feedList EXCEPT ![d][n.card] = n.row]
      /\ stream' = [stream EXCEPT ![d] = Tail(stream[d])]
      /\ reads' = [reads EXCEPT ![d] = reads[d] \cup {Get("queue")}]
      /\ UNCHANGED <<rowOf, news, online, listed, feedTap, taps, away>>
  BY DEF Deliver
<1>2. stream[d] \in Seq(Frames) /\ n = stream[d][1] /\ n \in Frames /\ Later(n.row, rowOf[n.card])
  <2>1. stream[d] \in Seq(Frames)
    BY AppFeedFacts
  <2>2. n = stream[d][1] /\ 1 \in 1..Len(stream[d]) /\ stream[d][1] \in Frames
    BY <1>1, <2>1
  <2> HIDE DEF n
  <2> QED
    BY <2>1, <2>2 DEF AppFeedInv, FramesSound
<1>3. n.card \in FeedCards /\ n.row \in FeedRows
  BY <1>2 DEF Frames
<1> HIDE DEF n
<1>4. Tail(stream[d]) \in Seq(Frames)
      /\ \A i \in 1..Len(Tail(stream[d])) : i + 1 \in 1..Len(stream[d]) /\ Tail(stream[d])[i] = stream[d][i + 1]
  BY <1>1, <1>2
<1>5. stream' \in [Phones -> Seq(Frames)] /\ stream'[d] = Tail(stream[d])
      /\ \A e \in Phones \ {d} : stream'[e] = stream[e]
  BY <1>1, <1>4, AppFeedFacts
<1>6. FramesSound'
  <2>1. ASSUME NEW e \in Phones, NEW i \in 1..Len(stream'[e])
        PROVE  Later(stream'[e][i].row, rowOf[stream'[e][i].card])
    <3>1. CASE e = d
      <4>1. i \in 1..Len(Tail(stream[d])) /\ stream'[e][i] = Tail(stream[d])[i]
        BY <1>5, <3>1
      <4>2. i + 1 \in 1..Len(stream[d]) /\ stream'[e][i] = stream[d][i + 1]
        BY <1>4, <4>1
      <4> QED
        BY <4>2 DEF AppFeedInv, FramesSound
    <3>2. CASE e # d
      BY <1>5, <3>2 DEF AppFeedInv, FramesSound
    <3> QED
      BY <3>1, <3>2
  <2> QED
    BY <1>1, <2>1 DEF AppFeedInv, FramesSound
<1>7. reads' \in [Phones -> SUBSET Reads] /\ ReadsSound'
  BY <1>1, AskedReads, MoreReads
<1>8. feedList' = [feedList EXCEPT ![d] = [feedList[d] EXCEPT ![n.card] = n.row]]
  BY <1>1
<1>9. feedList' \in [Phones -> [FeedCards -> FeedRows]] /\ feedList'[d][n.card] = n.row
      /\ \A e \in Phones, c \in FeedCards : e # d \/ c # n.card => feedList'[e][c] = feedList[e][c]
  BY <1>3, <1>8, AppFeedFacts
<1>10. ShownIsOnRecord'
  BY <1>1, <1>2, <1>9 DEF AppFeedInv, ShownIsOnRecord, ShowsTrue, Later
<1>11. AppFeedTypeOK'
  BY <1>1, <1>5, <1>7, <1>9, AppFeedFacts, AppFeedMoves
<1> QED
  BY <1>1, <1>6, <1>7, <1>10, <1>11 DEF AppFeedInv, TapSound

LEMMA ConnectionSteps ==
    ASSUME AppFeedInv, NEW d \in Phones, StreamBreaks(d) \/ Reconnect(d)
    PROVE  AppFeedInv'
<1>1. CASE StreamBreaks(d)
  <2>1. /\ online' = [online EXCEPT ![d] = FALSE] /\ stream' = [stream EXCEPT ![d] = <<>>]
        /\ UNCHANGED <<rowOf, news, feedList, listed, reads, feedTap, taps>>
    BY <1>1 DEF StreamBreaks
  <2>2. away' \in 0..MaxAway
    BY <1>1, AppFeedFacts DEF StreamBreaks
  <2>3. stream' \in [Phones -> Seq(Frames)] /\ online' \in [Phones -> BOOLEAN]
        /\ \A e \in Phones : stream'[e] = <<>> \/ stream'[e] = stream[e]
    BY <2>1, AppFeedFacts
  <2>4. FramesSound'
    BY <2>1, <2>3 DEF AppFeedInv, FramesSound
  <2>5. AppFeedTypeOK'
    BY <2>1, <2>2, <2>3, AppFeedFacts, AppFeedMoves
  <2> QED
    BY <2>1, <2>4, <2>5 DEF AppFeedInv, ReadsSound, ShownIsOnRecord, ShowsTrue, TapSound
<1>2. CASE Reconnect(d)
  <2>1. /\ online' = [online EXCEPT ![d] = TRUE]
        /\ UNCHANGED <<rowOf, news, stream, feedList, listed, reads, feedTap, taps, away>>
    BY <1>2 DEF Reconnect
  <2>2. online' \in [Phones -> BOOLEAN]
    BY <2>1, AppFeedFacts
  <2>3. AppFeedTypeOK'
    BY <2>1, <2>2, AppFeedFacts, AppFeedMoves
  <2> QED
    BY <2>1, <2>3 DEF AppFeedInv, FramesSound, ReadsSound, ShownIsOnRecord, ShowsTrue, TapSound
<1> QED
  BY <1>1, <1>2

\* A phone asks, is answered, and shows the answer, or never hears it.
LEMMA AppReadSteps ==
    ASSUME AppFeedInv, NEW d \in Phones, NEW kind \in {"list", "queue"},
           Foreground(d) \/ ServeRead(d, kind) \/ ReadReturns(d, kind) \/ LoseRead(d)
    PROVE  AppFeedInv'
<1>1. CASE Foreground(d)
  <2>1. /\ reads' = [reads EXCEPT ![d] = reads[d] \cup {Get("list"), Get("queue")}]
        /\ UNCHANGED <<rowOf, news, stream, online, feedList, listed, feedTap, taps, away>>
    BY <1>1 DEF Foreground
  <2>2. reads' \in [Phones -> SUBSET Reads] /\ ReadsSound'
    BY <2>1, AskedReads, MoreReads
  <2>3. AppFeedTypeOK'
    BY <2>1, <2>2, AppFeedFacts, AppFeedMoves
  <2> QED
    BY <2>1, <2>2, <2>3 DEF AppFeedInv, FramesSound, ShownIsOnRecord, ShowsTrue, TapSound
<1>2. CASE ServeRead(d, kind)
  <2>1. PICK r \in reads[d] :
            reads' = [reads EXCEPT ![d] = (reads[d] \ {r}) \cup {[r EXCEPT !.served = TRUE, !.body = rowOf]}]
    BY <1>2 DEF ServeRead
  <2>2. UNCHANGED <<rowOf, news, stream, online, feedList, listed, feedTap, taps, away>>
    BY <1>2 DEF ServeRead
  <2>3. [r EXCEPT !.served = TRUE, !.body = rowOf] \in Reads
        /\ [r EXCEPT !.served = TRUE, !.body = rowOf].body = rowOf
    <3>1. r \in Reads /\ rowOf \in [FeedCards -> FeedRows]
      BY <2>1, AppFeedFacts
    <3> QED
      BY <3>1 DEF Reads
  <2>4. reads' \in [Phones -> SUBSET Reads] /\ ReadsSound'
    <3> DEFINE S == {[r EXCEPT !.served = TRUE, !.body = rowOf]}
               R == reads[d] \ {r}
    <3>1. \A x \in S, c \in FeedCards : Later(x.body[c], rowOf[c])
      <4>1. \A c \in FeedCards : Later(rowOf[c], rowOf[c])
        BY DEF Later, AppFeedInv, Absent
      <4> QED
        BY <2>3, <4>1
    <3>2. S \subseteq Reads /\ R \subseteq reads[d] /\ reads' = [reads EXCEPT ![d] = R \cup S]
      BY <2>1, <2>3
    <3> HIDE DEF R, S
    <3> QED
      BY <2>2, <3>1, <3>2, MoreReads
  <2>5. AppFeedTypeOK'
    BY <2>2, <2>4, AppFeedFacts, AppFeedMoves
  <2> QED
    BY <2>2, <2>4, <2>5 DEF AppFeedInv, FramesSound, ShownIsOnRecord, ShowsTrue, TapSound
<1>3. CASE ReadReturns(d, kind)
  <2>1. PICK r \in reads[d] :
            /\ reads' = [reads EXCEPT ![d] = reads[d] \ {r}]
            /\ \/ feedList' = [feedList EXCEPT ![d] = r.body] /\ UNCHANGED listed
               \/ listed' = [listed EXCEPT ![d] = Pending(r.body)] /\ UNCHANGED feedList
    BY <1>3 DEF ReadReturns
  <2>2. UNCHANGED <<rowOf, news, stream, online, feedTap, taps, away>>
    BY <1>3 DEF ReadReturns
  <2>3. reads' \in [Phones -> SUBSET Reads] /\ ReadsSound'
    BY <2>1, <2>2, FewerReads
  <2>4. r.body \in [FeedCards -> FeedRows] /\ \A c \in FeedCards : Later(r.body[c], rowOf[c])
    BY <2>1, AppFeedFacts DEF Reads, AppFeedInv, ReadsSound
  <2>5. Pending(r.body) \subseteq FeedCards
    BY DEF Pending
  <2>6. feedList' \in [Phones -> [FeedCards -> FeedRows]] /\ listed' \in [Phones -> SUBSET FeedCards]
        /\ \A e \in Phones : feedList'[e] = feedList[e] \/ feedList'[e] = r.body
    BY <2>1, <2>4, <2>5, AppFeedFacts
  <2>7. ShownIsOnRecord'
    BY <2>2, <2>4, <2>6 DEF AppFeedInv, ShownIsOnRecord, ShowsTrue, Later
  <2>8. AppFeedTypeOK'
    BY <2>2, <2>3, <2>6, AppFeedFacts, AppFeedMoves
  <2> QED
    BY <2>2, <2>3, <2>7, <2>8 DEF AppFeedInv, FramesSound, TapSound
<1>4. CASE LoseRead(d)
  <2>1. PICK r \in reads[d] : reads' = [reads EXCEPT ![d] = reads[d] \ {r}]
    BY <1>4 DEF LoseRead
  <2>2. UNCHANGED <<rowOf, news, stream, online, feedList, listed, feedTap, taps>>
    BY <1>4 DEF LoseRead
  <2>3. away' \in 0..MaxAway
    BY <1>4, AppFeedFacts DEF LoseRead
  <2>4. reads' \in [Phones -> SUBSET Reads] /\ ReadsSound'
    BY <2>1, <2>2, FewerReads
  <2>5. AppFeedTypeOK'
    BY <2>2, <2>3, <2>4, AppFeedFacts, AppFeedMoves
  <2> QED
    BY <2>2, <2>4, <2>5 DEF AppFeedInv, FramesSound, ShownIsOnRecord, ShowsTrue, TapSound
<1> QED
  BY <1>1, <1>2, <1>3, <1>4

LEMMA FeedTapSteps ==
    ASSUME AppFeedInv, NEW d \in Phones, NEW c \in FeedCards, NEW o \in FeedOptions \cup {"none"},
           TapDecide(d, c, o) \/ TapDismiss(d, c)
    PROVE  AppFeedInv'
<1>1. feedTap[d] = NoFeedTap /\ UNCHANGED <<rowOf, news, stream, online, reads, away>>
  BY DEF TapDecide, TapDismiss
<1>2. taps' \in 0..MaxTaps
  BY AppFeedFacts DEF TapDecide, TapDismiss
<1>3. PICK q \in FeedTaps : /\ feedTap' = [feedTap EXCEPT ![d] = q]
                            /\ q.at = "sent" /\ q.kind # "none" /\ q.card = c
                            /\ TapDecide(d, c, o) => q.kind = "decide" /\ q.option = o
  <2>1. CASE TapDecide(d, c, o)
    <3> DEFINE q == [NoFeedTap EXCEPT !.at = "sent", !.kind = "decide", !.card = c, !.option = o]
    <3>1. q \in FeedTaps /\ q.at = "sent" /\ q.kind = "decide" /\ q.card = c /\ q.option = o
      BY AppFeedFacts DEF NoFeedTap, FeedTaps
    <3>2. feedTap' = [feedTap EXCEPT ![d] = q]
      BY <2>1 DEF TapDecide
    <3> HIDE DEF q
    <3> QED
      BY <3>1, <3>2
  <2>2. CASE TapDismiss(d, c) /\ ~TapDecide(d, c, o)
    <3> DEFINE q == [NoFeedTap EXCEPT !.at = "sent", !.kind = "dismiss", !.card = c, !.kept = listed[d]]
    <3>1. q \in FeedTaps /\ q.at = "sent" /\ q.kind = "dismiss" /\ q.card = c
      BY AppFeedFacts DEF NoFeedTap, FeedTaps
    <3>2. feedTap' = [feedTap EXCEPT ![d] = q]
      BY <2>2 DEF TapDismiss
    <3> HIDE DEF q
    <3> QED
      BY <2>2, <3>1, <3>2
  <2> QED
    BY <2>1, <2>2
<1>4. feedTap' \in [Phones -> FeedTaps] /\ feedTap'[d] = q /\ \A e \in Phones \ {d} : feedTap'[e] = feedTap[e]
  BY <1>3, AppFeedFacts
<1>5. \A e \in Phones : TapSound(e)'
  BY <1>1, <1>3, <1>4 DEF AppFeedInv, TapSound
<1>6. listed' \in [Phones -> SUBSET FeedCards]
  BY AppFeedFacts DEF TapDecide, TapDismiss
<1>7. feedList' = feedList \/ (TapDecide(d, c, o) /\ feedList[d][c].here /\ feedList' = [feedList EXCEPT ![d] = [feedList[d] EXCEPT ![c] = [feedList[d][c] EXCEPT !.decided = o]]])
  BY DEF TapDecide, TapDismiss
<1>8. feedList' \in [Phones -> [FeedCards -> FeedRows]] /\ ShownIsOnRecord'
  <2>1. CASE feedList' = feedList
    <3>1. ASSUME NEW e \in Phones, NEW k \in FeedCards PROVE ShowsTrue(e, k)'
      BY <1>1, <1>4, <2>1 DEF AppFeedInv, ShownIsOnRecord, ShowsTrue, NoFeedTap
    <3> QED
      BY <2>1, <3>1, AppFeedFacts DEF ShownIsOnRecord
  <2>2. CASE TapDecide(d, c, o) /\ feedList[d][c].here /\ feedList' = [feedList EXCEPT ![d] = [feedList[d] EXCEPT ![c] = [feedList[d][c] EXCEPT !.decided = o]]]
    <3> DEFINE row == [feedList[d][c] EXCEPT !.decided = o]
    <3>1. row \in FeedRows /\ row.decided = o /\ row.here = feedList[d][c].here /\ row.gone = feedList[d][c].gone
      <4>1. feedList[d][c] \in FeedRows
        BY AppFeedFacts
      <4> QED
        BY <4>1 DEF FeedRows
    <3>2. feedList' = [feedList EXCEPT ![d] = [feedList[d] EXCEPT ![c] = row]]
      BY <2>2
    <3> HIDE DEF row
    <3>3. feedList' \in [Phones -> [FeedCards -> FeedRows]] /\ feedList'[d][c] = row
          /\ \A e \in Phones, k \in FeedCards : e # d \/ k # c => feedList'[e][k] = feedList[e][k]
      BY <3>1, <3>2, AppFeedFacts
    <3>4. ShowsTrue(d, c)'
      BY <1>1, <1>3, <1>4, <2>2, <3>1, <3>3 DEF AppFeedInv, ShownIsOnRecord, ShowsTrue
    <3>5. ASSUME NEW e \in Phones, NEW k \in FeedCards, e # d \/ k # c PROVE ShowsTrue(e, k)'
      BY <1>1, <1>4, <3>3, <3>5 DEF AppFeedInv, ShownIsOnRecord, ShowsTrue, NoFeedTap
    <3> QED
      BY <3>3, <3>4, <3>5 DEF ShownIsOnRecord
  <2> QED
    BY <1>7, <2>1, <2>2
<1>9. AppFeedTypeOK'
  BY <1>1, <1>2, <1>4, <1>6, <1>8, AppFeedFacts, AppFeedMoves
<1> QED
  BY <1>1, <1>5, <1>8, <1>9 DEF AppFeedInv, FramesSound, ReadsSound

\* The end of a tap: what the row was when it was heard, or what there was before.
LEMMA FeedTapEnds ==
    ASSUME AppFeedInv, NEW d \in Phones, LoseTap(d) \/ TapDone(d) \/ TapRefused(d)
    PROVE  AppFeedInv'
<1>0. PICK c \in FeedCards :
          /\ c = feedTap[d].card /\ feedTap[d] \in FeedTaps /\ feedTap[d].kind # "none"
          /\ feedTap[d].at = "done" => Later(feedTap[d].row, rowOf[c])
          /\ UNCHANGED <<rowOf, news, stream, online, taps>>
  <2>1. feedTap[d].at # "none" /\ UNCHANGED <<rowOf, news, stream, online, taps>>
    BY DEF LoseTap, TapDone, TapRefused
  <2>2. feedTap[d] # NoFeedTap
    BY <2>1 DEF NoFeedTap
  <2> QED
    BY <2>1, <2>2, AppFeedFacts DEF AppFeedInv, TapSound
<1>1. CASE LoseTap(d)
  <2>1. feedTap' = [feedTap EXCEPT ![d] = [feedTap[d] EXCEPT !.at = "refused"]] /\ UNCHANGED <<feedList, listed, reads>>
    BY <1>1 DEF LoseTap
  <2>2. PICK q \in FeedTaps : q = [feedTap[d] EXCEPT !.at = "refused"]
    BY <1>0 DEF FeedTaps
  <2>3. q.at = "refused" /\ q.kind = feedTap[d].kind /\ q.card = c /\ q.option = feedTap[d].option
    BY <1>0, <2>2 DEF FeedTaps
  <2>4. feedTap' \in [Phones -> FeedTaps] /\ feedTap'[d] = q /\ \A e \in Phones \ {d} : feedTap'[e] = feedTap[e]
    BY <2>1, <2>2, AppFeedFacts
  <2>5. \A e \in Phones : TapSound(e)'
    BY <1>0, <2>3, <2>4 DEF AppFeedInv, TapSound
  <2>6. ShownIsOnRecord'
    BY <1>0, <2>1, <2>3, <2>4 DEF AppFeedInv, ShownIsOnRecord, ShowsTrue
  <2>7. away' \in 0..MaxAway
    BY <1>1, AppFeedFacts DEF LoseTap
  <2>8. AppFeedTypeOK'
    BY <1>0, <2>1, <2>4, <2>7, AppFeedFacts, AppFeedMoves
  <2> QED
    BY <1>0, <2>1, <2>5, <2>6, <2>8 DEF AppFeedInv, FramesSound, ReadsSound
<1>2. CASE TapDone(d) \/ TapRefused(d)
  <2>1. feedTap' = [feedTap EXCEPT ![d] = NoFeedTap] /\ UNCHANGED away
    BY <1>2 DEF TapDone, TapRefused
  <2>2. feedTap' \in [Phones -> FeedTaps] /\ feedTap'[d] = NoFeedTap
        /\ \A e \in Phones \ {d} : feedTap'[e] = feedTap[e]
    BY <2>1, AppFeedFacts
  <2>3. \A e \in Phones : TapSound(e)'
    BY <1>0, <2>2 DEF AppFeedInv, TapSound
  <2>4. reads' \in [Phones -> SUBSET Reads] /\ ReadsSound'
    <3>1. CASE TapDone(d)
      <4>1. reads' = [reads EXCEPT ![d] = reads[d] \cup {Get("queue")}]
        BY <3>1 DEF TapDone
      <4> QED
        BY <1>0, <4>1, AskedReads, MoreReads
    <3>2. CASE TapRefused(d)
      BY <1>0, <3>2, AppFeedFacts DEF TapRefused, AppFeedInv, ReadsSound
    <3> QED
      BY <1>2, <3>1, <3>2
  <2>5. listed' \in [Phones -> SUBSET FeedCards]
    <3>1. feedTap[d].kept \subseteq FeedCards
      BY <1>0 DEF FeedTaps
    <3> QED
      BY <1>2, <3>1, AppFeedFacts DEF TapDone, TapRefused
  <2>6. \/ UNCHANGED feedList /\ (feedTap[d].kind = "decide" => ~feedList[d][c].here)
        \/ \E row \in FeedRows :
              /\ feedList' = [feedList EXCEPT ![d] = [feedList[d] EXCEPT ![c] = row]]
              /\ \/ Later(row, rowOf[c])
                 \/ row.decided = "none" /\ row.here = feedList[d][c].here /\ row.gone = feedList[d][c].gone
    <3>1. CASE TapDone(d)
      <4>1. feedTap[d].row \in FeedRows
        BY <1>0 DEF FeedTaps
      <4> QED
        BY <1>0, <3>1, <4>1 DEF TapDone
    <3>2. CASE TapRefused(d)
      <4>1. PICK row \in FeedRows : row = [feedList[d][c] EXCEPT !.decided = "none"]
        <5>1. feedList[d][c] \in FeedRows
          BY <1>0, AppFeedFacts
        <5> QED
          BY <5>1 DEF FeedRows
      <4>2. row.decided = "none" /\ row.here = feedList[d][c].here /\ row.gone = feedList[d][c].gone
        <5>1. feedList[d][c] \in FeedRows
          BY <1>0, AppFeedFacts
        <5> QED
          BY <4>1, <5>1 DEF FeedRows
      <4> QED
        <5>1. \/ UNCHANGED feedList /\ (feedTap[d].kind = "decide" => ~feedList[d][c].here)
              \/ feedList' = [feedList EXCEPT ![d][c].decided = "none"]
          BY <1>0, <3>2 DEF TapRefused
        <5>2. [feedList EXCEPT ![d][c].decided = "none"] = [feedList EXCEPT ![d] = [feedList[d] EXCEPT ![c] = row]]
          BY <4>1
        <5> QED
          BY <4>2, <5>1, <5>2
    <3> QED
      BY <1>2, <3>1, <3>2
  <2>7. feedList' \in [Phones -> [FeedCards -> FeedRows]] /\ ShownIsOnRecord'
    <3>1. CASE UNCHANGED feedList /\ (feedTap[d].kind = "decide" => ~feedList[d][c].here)
      <4>1. ASSUME NEW e \in Phones, NEW k \in FeedCards PROVE ShowsTrue(e, k)'
        BY <1>0, <2>2, <3>1, <4>1 DEF AppFeedInv, ShownIsOnRecord, ShowsTrue
      <4> QED
        BY <3>1, <4>1, AppFeedFacts DEF ShownIsOnRecord
    <3>2. ASSUME NEW row \in FeedRows, feedList' = [feedList EXCEPT ![d] = [feedList[d] EXCEPT ![c] = row]],
                 Later(row, rowOf[c]) \/ (row.decided = "none" /\ row.here = feedList[d][c].here /\ row.gone = feedList[d][c].gone)
          PROVE  feedList' \in [Phones -> [FeedCards -> FeedRows]] /\ ShownIsOnRecord'
      <4>1. feedList' \in [Phones -> [FeedCards -> FeedRows]] /\ feedList'[d][c] = row
            /\ \A e \in Phones, k \in FeedCards : e # d \/ k # c => feedList'[e][k] = feedList[e][k]
        BY <1>0, <3>2, AppFeedFacts
      <4>2. ShowsTrue(d, c)'
        <5>1. ShowsTrue(d, c) /\ rowOf' = rowOf
          BY <1>0 DEF AppFeedInv, ShownIsOnRecord
        <5>2. CASE Later(row, rowOf[c])
          BY <4>1, <5>1, <5>2 DEF ShowsTrue, Later
        <5>3. CASE row.decided = "none" /\ row.here = feedList[d][c].here /\ row.gone = feedList[d][c].gone
          BY <4>1, <5>1, <5>3 DEF ShowsTrue
        <5> QED
          BY <3>2, <5>2, <5>3
      <4>3. ASSUME NEW e \in Phones, NEW k \in FeedCards, e # d \/ k # c PROVE ShowsTrue(e, k)'
        BY <1>0, <2>2, <4>1, <4>3 DEF AppFeedInv, ShownIsOnRecord, ShowsTrue
      <4> QED
        <5>1. \A e \in Phones, k \in FeedCards : ShowsTrue(e, k)'
          BY <4>2, <4>3
        <5> QED
          BY <4>1, <5>1 DEF ShownIsOnRecord
    <3> QED
      BY <2>6, <3>1, <3>2
  <2>8. AppFeedTypeOK'
    BY <1>0, <2>1, <2>2, <2>4, <2>5, <2>7, AppFeedFacts, AppFeedMoves
  <2> QED
    BY <1>0, <2>3, <2>4, <2>7, <2>8 DEF AppFeedInv, FramesSound
<1> QED
  BY <1>1, <1>2

LEMMA AppFeedInductive == AppFeedSpec => []AppFeedInv
<1>1. AppFeedInit => AppFeedInv
  <2> SUFFICES ASSUME AppFeedInit PROVE AppFeedInv
    OBVIOUS
  <2>1. Absent \in FeedRows /\ NoRows \in [FeedCards -> FeedRows] /\ \A c \in FeedCards : NoRows[c] = Absent
    BY DEF Absent, FeedRows, NoRows
  <2>2. NoFeedTap \in FeedTaps
    BY <2>1 DEF NoFeedTap, FeedTaps
  <2>3. \A kind \in {"list", "queue"} : Get(kind) \in Reads /\ Get(kind).body = NoRows
    BY <2>1 DEF Get, Reads
  <2>4. AppFeedTypeOK
    BY <2>1, <2>2, <2>3, AppFeedAssumption DEF AppFeedInit, AppFeedTypeOK, FeedTaps, Reads
  <2>5. FramesSound /\ ReadsSound /\ ShownIsOnRecord
    BY <2>1, <2>3 DEF AppFeedInit, FramesSound, ReadsSound, ShownIsOnRecord, ShowsTrue, Later, Absent
  <2> QED
    BY <2>1, <2>4, <2>5 DEF AppFeedInit, AppFeedInv, TapSound
<1>2. AppFeedInv /\ [AppFeedNext]_feedVars => AppFeedInv'
  <2> SUFFICES ASSUME AppFeedInv, [AppFeedNext]_feedVars PROVE AppFeedInv'
    OBVIOUS
  <2>1. CASE UNCHANGED feedVars
    BY <2>1 DEF feedVars, AppFeedInv, AppFeedTypeOK, FramesSound, ReadsSound, ShownIsOnRecord, ShowsTrue, TapSound
  <2>2. CASE AppFeedNext
    <3>1. ASSUME NEW c \in FeedCards, PostRow(c) \/ \E o \in FeedOptions : DecideElsewhere(c, o) PROVE AppFeedInv'
      BY <3>1, PostRowStep, DecideElsewhereStep
    <3>2. ASSUME NEW d \in Phones, Deliver(d) \/ StreamBreaks(d) \/ Reconnect(d) \/ ServeTap(d)
                                    \/ LoseTap(d) \/ TapDone(d) \/ TapRefused(d)
          PROVE  AppFeedInv'
      BY <3>2, DeliverStep, ConnectionSteps, ServeTapStep, FeedTapEnds
    <3>3. ASSUME NEW d \in Phones, NEW kind \in {"list", "queue"},
                 Foreground(d) \/ ServeRead(d, kind) \/ ReadReturns(d, kind) \/ LoseRead(d)
          PROVE  AppFeedInv'
      BY <3>3, AppReadSteps
    <3>4. ASSUME NEW d \in Phones, NEW c \in FeedCards, TapDismiss(d, c) PROVE AppFeedInv'
      BY <3>4, FeedTapSteps, "none" \in FeedOptions \cup {"none"}
    <3>5. ASSUME NEW d \in Phones, NEW c \in FeedCards, NEW o \in FeedOptions, TapDecide(d, c, o) PROVE AppFeedInv'
      BY <3>5, FeedTapSteps
    <3> QED
      BY <2>2, <3>1, <3>2, <3>3, <3>4, <3>5, PublishStep DEF AppFeedNext
  <2> QED
    BY <2>1, <2>2
<1> QED
  BY <1>1, <1>2, PTL DEF AppFeedSpec

\* The rows of the app, what is under way to the phones and what they show stay within
\* their types, for any number of phones and cards.
THEOREM AppFeedTypes == AppFeedSpec => []AppFeedTypeOK
<1>1. AppFeedInv => AppFeedTypeOK
  BY DEF AppFeedInv
<1> QED
  BY <1>1, AppFeedInductive, PTL

\* No phone shows a card as decided, or as dismissed, that is not so on record, but for the
\* choice it is sending, whatever frames and answers overtake one another, streams break and
\* taps are refused.
THEOREM NothingIsMadeUp == AppFeedSpec => []ShownIsOnRecord
<1>1. AppFeedInv => ShownIsOnRecord
  BY DEF AppFeedInv
<1> QED
  BY <1>1, AppFeedInductive, PTL

===============================================================================
