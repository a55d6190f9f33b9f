---------------------------- MODULE ScheduleProofs ----------------------------
(***************************************************************************)
(* Theorems about ScheduleWorker for any number of replicas and actions: an *)
(* occurrence of a reminder is sent once at most, and nothing of a cancelled *)
(* action goes out, whatever is reclaimed, released, settled late or killed; *)
(* and one about ScheduleDialog, which shares no variable with it: nothing   *)
(* reaches the calendar or a customer that the founder did not have before   *)
(* him.                                                                      *)
(***************************************************************************)
EXTENDS ScheduleWorker, ScheduleDialog, TLAPS

\* Replica w has a among the actions it claimed, and has not yet failed to learn
\* whether it was sent or settled.
Holds(w, a) ==
    /\ a \in replica[w].batch
    /\ ~(replica[w].at = "caught" /\ replica[w].got = "unknown" /\ a \in replica[w].hand)

\* ... and has not sent it.
MaySend(w, a) == Holds(w, a) /\ ~(replica[w].at = "settle" /\ a \in replica[w].hand)

\* A tick has one claimed reminder in its hand while it sends or settles it.
TickSound(w) ==
    /\ replica[w].at \in {"idle", "claim"} => replica[w].batch = {}
    /\ replica[w].at \in {"idle", "claim", "next"} => replica[w].hand = {}
    /\ replica[w].at \in {"send", "settle", "caught"} =>
        \E a \in Reminders : replica[w].hand = {a} /\ a \in replica[w].batch

\* An occurrence is due, and then running, only within the model's bound; only a
\* message is dispatched.
ActionSound(a) ==
    /\ action[a].due \/ Status(a) = "running" => action[a].turn <= MaxTurns
    /\ Status(a) = "dispatched" => a \in CustomerMessages

\* A pending or a cancelled reminder is in nobody's hands.
Quiet == {"pending", "cancelled"}

\* One replica at most holds a reminder; what is still to be sent was not sent, and
\* neither was a later occurrence.
ReminderSound(a) ==
    /\ \A w, v \in Replicas : Holds(w, a) /\ Holds(v, a) => w = v
    /\ \A w \in Replicas : Holds(w, a) => Status(a) \notin Quiet
    /\ \A t \in Turns : fired[a][t] <= 1 /\ (t > action[a].turn => fired[a][t] = 0)
    /\ \A w \in Replicas : MaySend(w, a) => fired[a][action[a].turn] = 0
    /\ Status(a) = "pending" => fired[a][action[a].turn] = 0

\* The outbound row of a message is where the status says.
MessageSound(m) ==
    /\ row[m] = "approved" => Status(m) = "dispatched"
    /\ row[m] = "sent" => Status(m) = "completed"
    /\ row[m] = "cancelled" => Status(m) = "cancelled"

\* The whole inductive invariant.
ScheduleInv ==
    /\ ScheduleTypeOK
    /\ \A w \in Replicas : TickSound(w)
    /\ \A a \in Actions : ActionSound(a)
    /\ \A a \in Reminders : ReminderSound(a)
    /\ \A m \in CustomerMessages : MessageSound(m)

USE ScheduleKinds, ScheduleLimits

-----------------------------------------------------------------------------
(* The records of the actions and of the replicas.                           *)

ActionRows == [status : ActionStatus, due : BOOLEAN, late : BOOLEAN, stuck : BOOLEAN,
               turn : Turns]
Ticks == [at : {"idle", "claim", "next", "send", "settle", "caught"},
          batch : SUBSET Actions, hand : SUBSET Reminders,
          tried : 0..Attempts, got : SendResult]

\* What an action and a replica's tick are made of.
LEMMA ScheduleTypes ==
    ASSUME ScheduleTypeOK
    PROVE  /\ action \in [Actions -> ActionRows] /\ replica \in [Replicas -> Ticks]
           /\ \A a \in Actions : action[a].status \in ActionStatus /\ action[a].turn \in Turns
           /\ \A w \in Replicas :
                /\ replica[w].at \in {"idle", "claim", "next", "send", "settle", "caught"}
                /\ replica[w].batch \in SUBSET Actions /\ replica[w].hand \in SUBSET Reminders
                /\ replica[w].tried \in 0..Attempts /\ replica[w].got \in SendResult
<1>1. action \in [Actions -> ActionRows] /\ replica \in [Replicas -> Ticks]
  BY DEF ScheduleTypeOK, ActionRows, Ticks
<1>2. \A r \in ActionRows : r.status \in ActionStatus /\ r.turn \in Turns
  BY DEF ActionRows
<1>3. \A r \in Ticks :
        /\ r.at \in {"idle", "claim", "next", "send", "settle", "caught"}
        /\ r.batch \in SUBSET Actions /\ r.hand \in SUBSET Reminders
        /\ r.tried \in 0..Attempts /\ r.got \in SendResult
  BY DEF Ticks
<1> QED
  BY <1>1, <1>2, <1>3

\* What an update of one row leaves.
LEMMA RowUpdates ==
    ASSUME NEW r \in ActionRows, NEW s \in ActionStatus
    PROVE  /\ LET q == [r EXCEPT !.status = s, !.stuck = FALSE]
              IN  q \in ActionRows /\ q.status = s /\ q.turn = r.turn /\ q.due = r.due
           /\ LET q == [r EXCEPT !.status = s]
              IN  q \in ActionRows /\ q.status = s /\ q.turn = r.turn /\ q.due = r.due
           /\ LET q == [r EXCEPT !.due = TRUE]
              IN  q \in ActionRows /\ q.status = r.status /\ q.turn = r.turn
           /\ LET q == [r EXCEPT !.late = TRUE]
              IN  q \in ActionRows /\ q.status = r.status /\ q.turn = r.turn /\ q.due = r.due
           /\ LET q == [r EXCEPT !.stuck = TRUE]
              IN  q \in ActionRows /\ q.status = r.status /\ q.turn = r.turn /\ q.due = r.due
BY DEF ActionRows

\* The next occurrence, in place.
LEMMA RearmUpdate ==
    ASSUME NEW r \in ActionRows, r.turn + 1 \in Turns
    PROVE  LET q == [r EXCEPT !.status = "pending", !.due = FALSE, !.late = FALSE,
                              !.stuck = FALSE, !.turn = r.turn + 1]
           IN  q \in ActionRows /\ q.status = "pending" /\ q.turn = r.turn + 1 /\ ~q.due
<1>1. "pending" \in ActionStatus
  BY DEF ActionStatus
<1> QED
  BY <1>1 DEF ActionRows

\* One action is left with a status and an occurrence; the others stay.
ActionLeft(a, s, t) ==
    /\ action' \in [Actions -> ActionRows]
    /\ action'[a].status = s /\ action'[a].turn = t
    /\ action'[a].due => t <= MaxTurns \/ (action[a].due /\ t = action[a].turn)
    /\ \A b \in Actions \ {a} : action'[b] = action[b]

\* A mark changes the status of its row and nothing else.
LEMMA MarkTurnIs ==
    ASSUME ScheduleTypeOK, NEW a \in Actions, NEW s \in ActionStatus, MarkTurn(a, s)
    PROVE  ActionLeft(a, s, action[a].turn)
<1>1. action \in [Actions -> ActionRows] /\ action[a] \in ActionRows
  BY ScheduleTypes
<1>2. action' = [action EXCEPT ![a] = [action[a] EXCEPT !.status = s, !.stuck = FALSE]]
  BY <1>1 DEF MarkTurn
<1> DEFINE q == [action[a] EXCEPT !.status = s, !.stuck = FALSE]
<1>3. q \in ActionRows /\ q.status = s /\ q.turn = action[a].turn /\ q.due = action[a].due
  BY <1>1, RowUpdates
<1> HIDE DEF q
<1> QED
  BY <1>1, <1>2, <1>3 DEF ActionLeft, q

\* A row that is not touched is left as it was.
LEMMA UntouchedIs ==
    ASSUME ScheduleTypeOK, NEW a \in Actions, UNCHANGED action
    PROVE  ActionLeft(a, Status(a), action[a].turn)
BY ScheduleTypes DEF ActionLeft, Status

\* A tick that is done with a has nothing in its hand, and the rest of its batch.
LEMMA AdvanceTurnIs ==
    ASSUME ScheduleTypeOK, NEW w \in Replicas, NEW a \in Actions, AdvanceTurn(w, a)
    PROVE  /\ replica' \in [Replicas -> Ticks]
           /\ \A v \in Replicas \ {w} : replica'[v] = replica[v]
           /\ replica'[w].batch = replica[w].batch \ {a} /\ replica'[w].hand = {}
           /\ replica'[w].at \in {"idle", "next"}
           /\ replica'[w].at = "idle" => replica'[w].batch = {}
<1>1. replica \in [Replicas -> Ticks] /\ replica[w].batch \in SUBSET Actions
  BY ScheduleTypes
<1> DEFINE at == IF replica[w].batch = {a} THEN "idle" ELSE "next"
           q == [Between EXCEPT !.batch = replica[w].batch \ {a}, !.at = at]
<1>2. q \in Ticks /\ q.batch = replica[w].batch \ {a} /\ q.hand = {} /\ q.at = at
  <2>1. 0 \in 0..Attempts
    OBVIOUS
  <2> QED
    BY <1>1, <2>1 DEF Between, Ticks, SendResult
<1>3. at \in {"idle", "next"} /\ (at = "idle" => replica[w].batch \ {a} = {})
  OBVIOUS
<1>4. replica' = [replica EXCEPT ![w] = q]
  BY DEF AdvanceTurn
<1> HIDE DEF at, q
<1> QED
  BY <1>1, <1>2, <1>3, <1>4

-----------------------------------------------------------------------------
(* What may happen to a reminder in a step.                                  *)

\* Nobody takes it, sends it or makes it pending again.
Stays(b) ==
    /\ \A v \in Replicas : (Holds(v, b)' => Holds(v, b)) /\ (MaySend(v, b)' => MaySend(v, b))
    /\ action'[b].turn = action[b].turn /\ fired'[b] = fired[b]
    /\ action'[b].status \in Quiet => Status(b) \in Quiet
    /\ action'[b].status = "pending" => Status(b) = "pending"

\* A replica claims it.
Taken(w, b) ==
    /\ Status(b) = "pending" /\ action'[b].status = "running"
    /\ action'[b].turn = action[b].turn /\ fired'[b] = fired[b]
    /\ \A v \in Replicas : Holds(v, b)' => v = w

\* The replica that holds it sends it.
SentOff(w, b) ==
    /\ MaySend(w, b) /\ action'[b].status = Status(b) /\ action'[b].turn = action[b].turn
    /\ fired'[b] = [fired[b] EXCEPT ![action[b].turn] = OneMore(@)]
    /\ \A v \in Replicas : (Holds(v, b)' => Holds(v, b)) /\ (MaySend(v, b)' => v # w)

\* The replica that holds it lets it go, not sent yet or for its next occurrence.
Freed(w, b) ==
    /\ Holds(w, b) /\ action'[b].status = "pending" /\ fired'[b] = fired[b]
    /\ \A v \in Replicas : Holds(v, b)' => Holds(v, b) /\ v # w
    /\ \/ MaySend(w, b) /\ action'[b].turn = action[b].turn
       \/ action'[b].turn = action[b].turn + 1

\* A reminder that stays, is taken, sent or freed stays sound.
LEMMA ReminderMoves ==
    ASSUME ScheduleInv, NEW b \in Reminders, action'[b].turn \in Turns,
           Stays(b) \/ \E w \in Replicas : Taken(w, b) \/ SentOff(w, b) \/ Freed(w, b)
    PROVE  ReminderSound(b)'
<1>0. /\ ReminderSound(b) /\ action[b].turn \in Turns /\ fired[b] \in [Turns -> 0..2]
      /\ Turns \subseteq Nat
  <2>1. ScheduleTypeOK /\ ReminderSound(b)
    BY DEF ScheduleInv
  <2>2. b \in Actions
    BY DEF Actions
  <2> QED
    BY <2>1, <2>2, ScheduleTypes DEF ScheduleTypeOK, Turns
<1>1. ASSUME NEW v \in Replicas PROVE MaySend(v, b)' => Holds(v, b)'
  BY DEF MaySend
<1>2. CASE Stays(b)
  BY <1>0, <1>2 DEF Stays, ReminderSound, Status
<1>3. CASE \E w \in Replicas : Taken(w, b)
  <2>1. PICK w \in Replicas : Taken(w, b)
    BY <1>3
  <2>2. fired[b][action[b].turn] = 0
    BY <1>0, <2>1 DEF Taken, ReminderSound
  <2> QED
    BY <1>0, <2>1, <2>2 DEF Taken, ReminderSound, Status, Quiet
<1>4. CASE \E w \in Replicas : SentOff(w, b)
  <2>1. PICK w \in Replicas : SentOff(w, b)
    BY <1>4
  <2>2. Holds(w, b) /\ fired[b][action[b].turn] = 0
    BY <1>0, <2>1 DEF SentOff, ReminderSound, MaySend
  <2>3. \A v \in Replicas : Holds(v, b) => v = w
    BY <1>0, <2>1, <2>2 DEF ReminderSound
  <2>4. \A v \in Replicas : ~MaySend(v, b)'
    BY <1>1, <2>1, <2>3 DEF SentOff
  <2>5. \A v \in Replicas : Holds(v, b)' => v = w
    BY <2>1, <2>3 DEF SentOff
  <2>6. Status(b) \notin Quiet
    BY <1>0, <2>2 DEF ReminderSound
  <2>7. /\ fired'[b][action[b].turn] = 1
        /\ \A t \in Turns \ {action[b].turn} : fired'[b][t] = fired[b][t]
    BY <1>0, <2>1, <2>2 DEF SentOff, OneMore
  <2>8. \A t \in Turns : fired'[b][t] <= 1 /\ (t > action[b].turn => fired'[b][t] = 0)
    <3>1. ASSUME NEW t \in Turns
          PROVE  fired'[b][t] <= 1 /\ (t > action[b].turn => fired'[b][t] = 0)
      <4>1. fired[b][t] <= 1 /\ (t > action[b].turn => fired[b][t] = 0)
        BY <1>0 DEF ReminderSound
      <4>2. CASE t = action[b].turn
        BY <1>0, <2>7, <4>2
      <4>3. CASE t # action[b].turn
        BY <2>7, <4>1, <4>3
      <4> QED
        BY <4>2, <4>3
    <3> QED
      BY <3>1
  <2> QED
    BY <2>1, <2>4, <2>5, <2>6, <2>8 DEF SentOff, ReminderSound, Status, Quiet
<1>5. CASE \E w \in Replicas : Freed(w, b)
  <2>1. PICK w \in Replicas : Freed(w, b)
    BY <1>5
  <2>2. \A v \in Replicas : ~Holds(v, b)'
    BY <1>0, <2>1 DEF Freed, ReminderSound
  <2>3. /\ \A t \in Turns : t > action[b].turn => fired[b][t] = 0
        /\ MaySend(w, b) => fired[b][action[b].turn] = 0
    BY <1>0 DEF ReminderSound
  <2>4. fired[b][action'[b].turn] = 0 /\ \A t \in Turns : t > action'[b].turn => fired[b][t] = 0
    <3>1. CASE MaySend(w, b) /\ action'[b].turn = action[b].turn
      BY <2>3, <3>1
    <3>2. CASE action'[b].turn = action[b].turn + 1
      <4>0. action[b].turn \in Nat /\ \A t \in Turns : t \in Nat
        BY <1>0
      <4>1. action'[b].turn > action[b].turn
        BY <3>2, <4>0
      <4>2. ASSUME NEW t \in Turns, t > action'[b].turn PROVE t > action[b].turn
        BY <3>2, <4>0, <4>2
      <4> QED
        BY <2>3, <4>1, <4>2
    <3> QED
      BY <2>1, <3>1, <3>2 DEF Freed
  <2> QED
    BY <1>0, <1>1, <2>1, <2>2, <2>4 DEF Freed, ReminderSound, Status
<1> QED
  BY <1>2, <1>3, <1>4, <1>5

\* What every step leaves right: the types, and each action for itself.
LEMMA ScheduleMoves ==
    ASSUME ScheduleInv,
           action' \in [Actions -> ActionRows], replica' \in [Replicas -> Ticks],
           row' \in [CustomerMessages -> {"none", "approved", "sent", "cancelled"}],
           fired' \in [Reminders -> [Turns -> 0..2]], mishaps' \in 0..MaxMishaps,
           \A a \in Actions : action'[a].turn > 1 => a \in Recurring,
           \A w \in Replicas : TickSound(w)',
           \A a \in Actions : ActionSound(a)',
           \A b \in Reminders :
                Stays(b) \/ \E w \in Replicas : Taken(w, b) \/ SentOff(w, b) \/ Freed(w, b),
           \A m \in CustomerMessages : MessageSound(m)'
    PROVE  ScheduleInv'
<1>1. ScheduleTypeOK'
  BY DEF ScheduleTypeOK, ActionRows, Ticks
<1>2. ASSUME NEW b \in Reminders PROVE ReminderSound(b)'
  <2>1. action'[b].turn \in Turns
    BY DEF Actions, ActionRows
  <2> QED
    BY <2>1, ReminderMoves
<1> QED
  BY <1>1, <1>2 DEF ScheduleInv

\* The steps that leave the replicas and the reminders' sends alone, and one action
\* with another mark, or with a status it may not come back to pending from.
LEMMA MarksKeep ==
    ASSUME ScheduleInv, NEW a \in Actions, NEW s \in ActionStatus,
           ActionLeft(a, s, action[a].turn), replica' = replica, fired' = fired,
           mishaps' \in 0..MaxMishaps,
           row' \in [CustomerMessages -> {"none", "approved", "sent", "cancelled"}],
           \/ s = Status(a) \/ s \notin Quiet \cup {"running"}
           \/ s = "cancelled" /\ (Status(a) \in Quiet \/ a \notin Reminders),
           s = "dispatched" => s = Status(a),
           \A m \in CustomerMessages : MessageSound(m)'
    PROVE  ScheduleInv'
<1>0. /\ ScheduleTypeOK /\ \A w \in Replicas : TickSound(w)
      /\ \A b \in Actions : ActionSound(b)
  BY DEF ScheduleInv
<1>1. /\ action' \in [Actions -> ActionRows] /\ action'[a].status = s
      /\ action'[a].turn = action[a].turn /\ \A b \in Actions \ {a} : action'[b] = action[b]
      /\ action'[a].due => action[a].due \/ action[a].turn <= MaxTurns
  BY DEF ActionLeft
<1>2. ASSUME NEW b \in Actions PROVE ActionSound(b)'
  <2>1. CASE b = a
    BY <1>0, <1>1, <2>1 DEF ActionSound, Status, Quiet
  <2>2. CASE b # a
    BY <1>0, <1>1, <2>2 DEF ActionSound, Status
  <2> QED
    BY <2>1, <2>2
<1>3. ASSUME NEW b \in Reminders PROVE Stays(b)
  <2>1. b \in Actions
    BY DEF Actions
  <2>2. \A v \in Replicas : (Holds(v, b)' <=> Holds(v, b)) /\ (MaySend(v, b)' <=> MaySend(v, b))
    BY DEF Holds, MaySend
  <2>3. CASE b = a
    BY <1>1, <2>2, <2>3 DEF Stays, Status, Quiet
  <2>4. CASE b # a
    BY <1>1, <2>1, <2>2, <2>4 DEF Stays, Status
  <2> QED
    BY <2>3, <2>4
<1>4. \A w \in Replicas : TickSound(w)'
  BY <1>0 DEF TickSound
<1>5. \A b \in Actions : action'[b].turn > 1 => b \in Recurring
  BY <1>0, <1>1 DEF ScheduleTypeOK
<1>6. replica' \in [Replicas -> Ticks] /\ fired' \in [Reminders -> [Turns -> 0..2]]
  BY <1>0, ScheduleTypes DEF ScheduleTypeOK
<1> QED
  BY <1>1, <1>2, <1>3, <1>4, <1>5, <1>6, ScheduleMoves

-----------------------------------------------------------------------------
(* The founder, the drainer and the clock.                                   *)

\* A row that only gets a mark is left with its status.
LEMMA MarkIs ==
    ASSUME ScheduleTypeOK, NEW a \in Actions,
           \/ FallsDue(a) \/ GraceExpires(a) \/ RunsLong(a)
    PROVE  ActionLeft(a, Status(a), action[a].turn) /\ UNCHANGED <<row, replica, fired, mishaps>>
<1>1. action \in [Actions -> ActionRows] /\ action[a] \in ActionRows /\ Status(a) \in ActionStatus
  BY ScheduleTypes DEF Status
<1>2. CASE FallsDue(a)
  <2> DEFINE q == [action[a] EXCEPT !.due = TRUE]
  <2>1. action' = [action EXCEPT ![a] = q] /\ action[a].turn <= MaxTurns
    BY <1>1, <1>2 DEF FallsDue
  <2>2. q \in ActionRows /\ q.status = action[a].status /\ q.turn = action[a].turn
    BY <1>1, RowUpdates DEF Status
  <2> HIDE DEF q
  <2> QED
    BY <1>1, <1>2, <2>1, <2>2 DEF ActionLeft, Status, FallsDue
<1>3. CASE GraceExpires(a)
  <2> DEFINE q == [action[a] EXCEPT !.late = TRUE]
  <2>1. action' = [action EXCEPT ![a] = q]
    BY <1>1, <1>3 DEF GraceExpires
  <2>2. /\ q \in ActionRows /\ q.status = action[a].status /\ q.turn = action[a].turn
        /\ q.due = action[a].due
    BY <1>1, RowUpdates DEF Status
  <2> HIDE DEF q
  <2> QED
    BY <1>1, <1>3, <2>1, <2>2 DEF ActionLeft, Status, GraceExpires
<1>4. CASE RunsLong(a)
  <2> DEFINE q == [action[a] EXCEPT !.stuck = TRUE]
  <2>1. action' = [action EXCEPT ![a] = q]
    BY <1>1, <1>4 DEF RunsLong
  <2>2. /\ q \in ActionRows /\ q.status = action[a].status /\ q.turn = action[a].turn
        /\ q.due = action[a].due
    BY <1>1, RowUpdates DEF Status
  <2> HIDE DEF q
  <2> QED
    BY <1>1, <1>4, <2>1, <2>2 DEF ActionLeft, Status, RunsLong
<1> QED
  BY <1>2, <1>3, <1>4

\* A message whose row and status stay is as sound as before.
LEMMA MessageStays ==
    ASSUME ScheduleInv, NEW m \in CustomerMessages, row'[m] = row[m],
           action'[m].status = Status(m)
    PROVE  MessageSound(m)'
<1>1. MessageSound(m)
  BY DEF ScheduleInv
<1> QED
  BY <1>1 DEF MessageSound, Status

\* Cancels, the passing of time, and the drainer.
LEMMA WorldSteps ==
    ASSUME ScheduleInv,
           \/ \E a \in Actions : CancelScheduled(a) \/ FallsDue(a) \/ GraceExpires(a) \/ RunsLong(a)
           \/ \E m \in CustomerMessages : Drain(m)
    PROVE  ScheduleInv'
<1>0. /\ ScheduleTypeOK /\ mishaps \in 0..MaxMishaps
      /\ \A m \in CustomerMessages : m \in Actions /\ m \notin Reminders
      /\ \A m \in CustomerMessages : MessageSound(m)
      /\ \A a \in Actions : Status(a) \in ActionStatus
      /\ row \in [CustomerMessages -> {"none", "approved", "sent", "cancelled"}]
  BY ScheduleTypes DEF ScheduleInv, ScheduleTypeOK, Actions, Status
<1>1. /\ "cancelled" \in ActionStatus /\ "completed" \in ActionStatus
      /\ "completed" \notin Quiet \cup {"running"} /\ "pending" \in Quiet
  BY DEF ActionStatus, Quiet
<1>2. ASSUME NEW a \in Actions, CancelScheduled(a)
      PROVE  ScheduleInv'
  <2>1. /\ ActionLeft(a, "cancelled", action[a].turn) /\ replica' = replica /\ fired' = fired
        /\ mishaps' = mishaps
    BY <1>0, <1>1, <1>2, MarkTurnIs DEF CancelScheduled
  <2>2. \/ Status(a) = "pending" /\ row' = row
        \/ /\ Status(a) = "dispatched" /\ row[a] = "approved"
           /\ row' = [row EXCEPT ![a] = "cancelled"]
    BY <1>2 DEF CancelScheduled
  <2>3. Status(a) \in Quiet \/ a \in CustomerMessages
    BY <1>1, <2>2 DEF ScheduleInv, ActionSound
  <2>4. row' \in [CustomerMessages -> {"none", "approved", "sent", "cancelled"}]
    BY <1>0, <2>2
  <2>5. ASSUME NEW m \in CustomerMessages PROVE MessageSound(m)'
    <3>1. CASE m = a
      <4>1. MessageSound(m)
        BY <1>0
      <4>2. row'[m] \in {"none", "cancelled"}
        BY <1>0, <2>2, <3>1, <4>1 DEF MessageSound
      <4> QED
        BY <2>1, <3>1, <4>2 DEF MessageSound, ActionLeft, Status
    <3>2. CASE m # a
      <4>1. row'[m] = row[m] /\ action'[m].status = Status(m)
        BY <1>0, <2>1, <2>2, <3>2 DEF ActionLeft, Status
      <4> QED
        BY <4>1, MessageStays
    <3> QED
      BY <3>1, <3>2
  <2> QED
    BY <1>0, <1>1, <2>1, <2>3, <2>4, <2>5, MarksKeep
<1>3. ASSUME NEW a \in Actions, FallsDue(a) \/ GraceExpires(a) \/ RunsLong(a)
      PROVE  ScheduleInv'
  <2>1. ActionLeft(a, Status(a), action[a].turn) /\ UNCHANGED <<row, replica, fired, mishaps>>
    BY <1>0, <1>3, MarkIs
  <2>2. ASSUME NEW m \in CustomerMessages PROVE MessageSound(m)'
    <3>1. action'[m].status = Status(m)
      BY <1>0, <2>1 DEF ActionLeft, Status
    <3> QED
      BY <2>1, <3>1, MessageStays
  <2> QED
    BY <1>0, <2>1, <2>2, MarksKeep
<1>4. ASSUME NEW d \in CustomerMessages, Drain(d)
      PROVE  ScheduleInv'
  <2>1. /\ row[d] = "approved" /\ row' = [row EXCEPT ![d] = "sent"]
        /\ ActionLeft(d, "completed", action[d].turn) /\ replica' = replica /\ fired' = fired
        /\ mishaps' = mishaps
    BY <1>0, <1>1, <1>4, MarkTurnIs DEF Drain
  <2>2. row' \in [CustomerMessages -> {"none", "approved", "sent", "cancelled"}]
    BY <1>0, <2>1
  <2>3. ASSUME NEW m \in CustomerMessages PROVE MessageSound(m)'
    <3>1. CASE m = d
      BY <1>0, <2>1, <3>1 DEF MessageSound, ActionLeft, Status
    <3>2. CASE m # d
      <4>1. row'[m] = row[m] /\ action'[m].status = Status(m)
        BY <1>0, <2>1, <3>2 DEF ActionLeft, Status
      <4> QED
        BY <4>1, MessageStays
    <3> QED
      BY <3>1, <3>2
  <2> QED
    BY <1>0, <1>1, <2>1, <2>2, <2>3, MarksKeep
<1> QED
  BY <1>2, <1>3, <1>4

-----------------------------------------------------------------------------
(* The ticks.                                                                *)

\* A step of replica w moves no other replica.
OnlyTick(w) == /\ replica' \in [Replicas -> Ticks]
               /\ \A v \in Replicas \ {w} : replica'[v] = replica[v]

\* A tick changes nothing of what the other replicas hold.
LEMMA OthersHold ==
    ASSUME NEW w \in Replicas, OnlyTick(w), NEW v \in Replicas \ {w}, NEW b
    PROVE  (Holds(v, b)' <=> Holds(v, b)) /\ (MaySend(v, b)' <=> MaySend(v, b))
BY DEF OnlyTick, Holds, MaySend

\* The other ticks stay sound.
LEMMA OthersSound ==
    ASSUME ScheduleInv, NEW w \in Replicas, OnlyTick(w), TickSound(w)'
    PROVE  \A v \in Replicas : TickSound(v)'
<1>1. ASSUME NEW v \in Replicas \ {w} PROVE TickSound(v)'
  <2>1. TickSound(v)
    BY DEF ScheduleInv
  <2> QED
    BY <2>1 DEF TickSound, OnlyTick
<1> QED
  BY <1>1

\* What an update of a tick leaves.
LEMMA TickUpdates ==
    ASSUME NEW r \in Ticks, NEW at \in {"idle", "claim", "next", "send", "settle", "caught"},
           NEW hand \in SUBSET Reminders, NEW batch \in SUBSET Actions,
           NEW got \in SendResult, NEW n \in 0..Attempts
    PROVE  /\ LET q == [r EXCEPT !.at = at]
              IN  q \in Ticks /\ q.at = at /\ q.batch = r.batch /\ q.hand = r.hand /\ q.got = r.got
           /\ LET q == [r EXCEPT !.batch = batch, !.at = at]
              IN  q \in Ticks /\ q.at = at /\ q.batch = batch /\ q.hand = r.hand
           /\ LET q == [r EXCEPT !.at = at, !.hand = hand]
              IN  q \in Ticks /\ q.at = at /\ q.batch = r.batch /\ q.hand = hand
           /\ LET q == [r EXCEPT !.at = at, !.got = got]
              IN  q \in Ticks /\ q.at = at /\ q.batch = r.batch /\ q.hand = r.hand /\ q.got = got
           /\ LET q == [r EXCEPT !.tried = n]
              IN  q \in Ticks /\ q.at = r.at /\ q.batch = r.batch /\ q.hand = r.hand /\ q.got = r.got
BY DEF Ticks

\* A tick that is done with one action: the action is left with a status its
\* reminder may have there, and the rest of the batch stays claimed.
LEMMA TurnEnds ==
    ASSUME ScheduleInv, NEW w \in Replicas, NEW a \in Actions, AdvanceTurn(w, a),
           replica[w].hand \subseteq {a}, a \in replica[w].batch,
           NEW s \in ActionStatus, NEW t \in Turns, ActionLeft(a, s, t), fired' = fired,
           mishaps' \in 0..MaxMishaps, t > 1 => a \in Recurring,
           row' \in [CustomerMessages -> {"none", "approved", "sent", "cancelled"}],
           s = "running" => Status(a) = "running" /\ t = action[a].turn,
           s = "dispatched" => a \in CustomerMessages,
           a \in Reminders =>
               \/ t = action[a].turn /\ (s = Status(a) \/ s \notin Quiet)
               \/ t = action[a].turn /\ s = "pending" /\ MaySend(w, a)
               \/ t = action[a].turn + 1 /\ s = "pending" /\ Holds(w, a),
           a \notin Reminders => t = action[a].turn,
           \A m \in CustomerMessages : MessageSound(m)'
    PROVE  ScheduleInv'
<1>0. /\ ScheduleTypeOK /\ \A b \in Actions : ActionSound(b)
      /\ action' \in [Actions -> ActionRows] /\ action'[a].status = s /\ action'[a].turn = t
      /\ \A b \in Actions \ {a} : action'[b] = action[b]
      /\ \A b \in Reminders : b \in Actions
  BY DEF ScheduleInv, ActionLeft, Actions
<1>1. /\ OnlyTick(w) /\ replica'[w].batch = replica[w].batch \ {a} /\ replica'[w].hand = {}
      /\ replica'[w].at \in {"idle", "next"}
      /\ replica'[w].at = "idle" => replica'[w].batch = {}
  BY <1>0, AdvanceTurnIs DEF OnlyTick
<1>2. \A v \in Replicas : TickSound(v)'
  <2>1. TickSound(w)'
    BY <1>1 DEF TickSound
  <2> QED
    BY <1>1, <2>1, OthersSound
<1>3. ASSUME NEW b \in Actions PROVE ActionSound(b)'
  <2>1. CASE b = a
    BY <1>0, <2>1 DEF ActionSound, ActionLeft, Status
  <2>2. CASE b # a
    BY <1>0, <2>2 DEF ActionSound, Status
  <2> QED
    BY <2>1, <2>2
<1>4. \A b \in Actions : action'[b].turn > 1 => b \in Recurring
  BY <1>0 DEF ScheduleTypeOK
<1>5. ASSUME NEW b \in Reminders PROVE Stays(b) \/ Freed(w, b)
  <2>1. b \in replica'[w].batch => Holds(w, b) /\ MaySend(w, b) /\ b # a
    BY <1>1 DEF Holds, MaySend
  <2>2. (Holds(w, b)' => Holds(w, b) /\ b # a) /\ (MaySend(w, b)' => MaySend(w, b))
    BY <2>1 DEF Holds, MaySend
  <2>3. \A v \in Replicas : (Holds(v, b)' => Holds(v, b)) /\ (MaySend(v, b)' => MaySend(v, b))
    BY <1>1, <2>2, OthersHold
  <2>4. CASE b # a
    BY <1>0, <2>3, <2>4 DEF Stays, Status
  <2>5. CASE b = a
    <3>1. CASE t = action[a].turn /\ (s = Status(a) \/ s \notin Quiet)
      BY <1>0, <2>3, <2>5, <3>1 DEF Stays, Quiet, Status
    <3>2. CASE /\ s = "pending"
               /\ \/ t = action[a].turn /\ MaySend(w, a)
                  \/ t = action[a].turn + 1 /\ Holds(w, a)
      BY <1>0, <2>2, <2>3, <2>5, <3>2 DEF Freed, MaySend
    <3> QED
      BY <2>5, <3>1, <3>2
  <2> QED
    BY <2>4, <2>5
<1>6. replica' \in [Replicas -> Ticks] /\ fired' \in [Reminders -> [Turns -> 0..2]]
  BY <1>0, <1>1 DEF OnlyTick, ScheduleTypeOK
<1> QED
  BY <1>0, <1>2, <1>3, <1>4, <1>5, <1>6, ScheduleMoves

\* A tick that goes on with the action it has, whose row it leaves or settles.
LEMMA TickGoesOn ==
    ASSUME ScheduleInv, NEW w \in Replicas, OnlyTick(w), TickSound(w)', row' = row,
           NEW a \in Reminders, NEW s \in ActionStatus, NEW t \in Turns, ActionLeft(a, s, t),
           fired' \in [Reminders -> [Turns -> 0..2]], mishaps' \in 0..MaxMishaps,
           t > 1 => a \in Recurring, s # "dispatched",
           s = "running" => Status(a) = "running" /\ t = action[a].turn,
           \A b \in Reminders \ {a} :
               /\ fired'[b] = fired[b] /\ (Holds(w, b)' => Holds(w, b))
               /\ MaySend(w, b)' => MaySend(w, b),
           Stays(a) \/ SentOff(w, a) \/ Freed(w, a)
    PROVE  ScheduleInv'
<1>0. /\ ScheduleTypeOK /\ \A b \in Actions : ActionSound(b)
      /\ action' \in [Actions -> ActionRows] /\ action'[a].status = s /\ action'[a].turn = t
      /\ \A b \in Actions \ {a} : action'[b] = action[b]
      /\ \A b \in Reminders : b \in Actions /\ b \notin CustomerMessages
      /\ \A m \in CustomerMessages : m \in Actions /\ m # a
  BY DEF ScheduleInv, ActionLeft, Actions
<1>1. \A v \in Replicas : TickSound(v)'
  BY OthersSound
<1>2. ASSUME NEW b \in Actions PROVE ActionSound(b)'
  <2>1. CASE b = a
    BY <1>0, <2>1 DEF ActionSound, ActionLeft, Status
  <2>2. CASE b # a
    BY <1>0, <2>2 DEF ActionSound, Status
  <2> QED
    BY <2>1, <2>2
<1>3. \A b \in Actions : action'[b].turn > 1 => b \in Recurring
  BY <1>0 DEF ScheduleTypeOK
<1>4. ASSUME NEW b \in Reminders \ {a} PROVE Stays(b)
  <2>1. \A v \in Replicas : (Holds(v, b)' => Holds(v, b)) /\ (MaySend(v, b)' => MaySend(v, b))
    BY OthersHold
  <2> QED
    BY <1>0, <2>1 DEF Stays, Status
<1>5. ASSUME NEW m \in CustomerMessages PROVE MessageSound(m)'
  <2>1. action'[m].status = Status(m)
    BY <1>0 DEF Status
  <2> QED
    BY <2>1, MessageStays
<1>6. replica' \in [Replicas -> Ticks]
  BY DEF OnlyTick
<1>7. row' \in [CustomerMessages -> {"none", "approved", "sent", "cancelled"}]
  BY <1>0 DEF ScheduleTypeOK
<1> QED
  BY <1>0, <1>1, <1>2, <1>3, <1>4, <1>5, <1>6, <1>7, ScheduleMoves

-----------------------------------------------------------------------------
(* What the statements of the worker leave.                                  *)

\* A row the worker may leave with status s and occurrence t.
LeavesRow(a, s, t) ==
    /\ s \in ActionStatus /\ t \in Turns /\ ActionLeft(a, s, t)
    /\ t > 1 => a \in Recurring
    /\ s = "running" => Status(a) = "running" /\ t = action[a].turn

\* What each statement at the end of a reminder's turn leaves of its row.
LEMMA MarkLeaves ==
    ASSUME ScheduleInv, NEW a \in Actions, NEW s \in ActionStatus \ {"running"},
           MarkTurn(a, s)
    PROVE  LeavesRow(a, s, action[a].turn)
BY MarkTurnIs, ScheduleTypes DEF LeavesRow, ScheduleInv, ScheduleTypeOK

LEMMA UntouchedLeaves ==
    ASSUME ScheduleInv, NEW a \in Actions, UNCHANGED action
    PROVE  LeavesRow(a, Status(a), action[a].turn)
BY UntouchedIs, ScheduleTypes DEF LeavesRow, ScheduleInv, ScheduleTypeOK, Status

LEMMA MarkTerminalLeaves ==
    ASSUME ScheduleInv, NEW a \in Actions, NEW s \in {"missed", "failed"}, MarkTerminal(a, s)
    PROVE  \/ Status(a) \in {"pending", "running"} /\ LeavesRow(a, s, action[a].turn)
           \/ LeavesRow(a, Status(a), action[a].turn)
<1>1. s \in ActionStatus \ {"running"}
  BY DEF ActionStatus
<1> QED
  BY <1>1, MarkLeaves, UntouchedLeaves DEF MarkTerminal

LEMMA ReleaseLeaves ==
    ASSUME ScheduleInv, NEW a \in Actions, ReleaseForRetry(a)
    PROVE  \/ Status(a) = "running" /\ LeavesRow(a, "pending", action[a].turn)
           \/ LeavesRow(a, Status(a), action[a].turn)
<1>1. "pending" \in ActionStatus \ {"running"}
  BY DEF ActionStatus
<1> QED
  BY <1>1, MarkLeaves, UntouchedLeaves DEF ReleaseForRetry

LEMMA SettleLeaves ==
    ASSUME ScheduleInv, NEW a \in Reminders, SettleFired(a)
    PROVE  \/ LeavesRow(a, "completed", action[a].turn)
           \/ LeavesRow(a, Status(a), action[a].turn)
           \/ LeavesRow(a, "pending", action[a].turn + 1)
<1>0. /\ ScheduleTypeOK /\ ActionSound(a) /\ a \in Actions /\ action[a] \in ActionRows
      /\ action \in [Actions -> ActionRows] /\ action[a].turn \in Turns
  BY ScheduleTypes DEF ScheduleInv, Actions
<1>1. CASE Status(a) # "running"
  BY <1>0, <1>1, UntouchedLeaves DEF SettleFired
<1>2. CASE Status(a) = "running" /\ a \in OneShots
  <2>1. "completed" \in ActionStatus \ {"running"}
    BY DEF ActionStatus
  <2> QED
    BY <1>0, <1>2, <2>1, MarkLeaves DEF SettleFired
<1>3. CASE Status(a) = "running" /\ a \notin OneShots
  <2> DEFINE q == [action[a] EXCEPT !.status = "pending", !.due = FALSE, !.late = FALSE,
                                    !.stuck = FALSE, !.turn = action[a].turn + 1]
  <2>1. action[a].turn + 1 \in Turns
    BY <1>0, <1>3 DEF ActionSound, Turns
  <2>2. q \in ActionRows /\ q.status = "pending" /\ q.turn = action[a].turn + 1 /\ ~q.due
    BY <1>0, <2>1, RearmUpdate
  <2>3. action' = [action EXCEPT ![a] = q]
    BY <1>0, <1>3 DEF SettleFired
  <2>4. a \in Recurring /\ "pending" \in ActionStatus
    BY <1>3 DEF Reminders, ActionStatus
  <2> HIDE DEF q
  <2>5. ActionLeft(a, "pending", action[a].turn + 1)
    BY <1>0, <2>2, <2>3 DEF ActionLeft
  <2> QED
    BY <2>1, <2>4, <2>5 DEF LeavesRow
<1> QED
  BY <1>1, <1>2, <1>3

-----------------------------------------------------------------------------
(* The steps of a tick that end an action's turn.                            *)

\* Such a step in terms of the row it leaves; the reminder of a row that comes back
\* to pending was in this tick's hands.
LEMMA TurnLeaves ==
    ASSUME ScheduleInv, NEW w \in Replicas, NEW a \in Actions, AdvanceTurn(w, a),
           replica[w].hand \subseteq {a}, a \in replica[w].batch, fired' = fired,
           mishaps' \in 0..MaxMishaps, NEW s, NEW t, LeavesRow(a, s, t),
           s = "dispatched" => a \in CustomerMessages,
           a \in Reminders =>
               \/ t = action[a].turn /\ (s = Status(a) \/ s \notin Quiet)
               \/ t = action[a].turn /\ s = "pending" /\ MaySend(w, a)
               \/ t = action[a].turn + 1 /\ s = "pending" /\ Holds(w, a),
           a \notin Reminders => t = action[a].turn,
           \/ a \in Reminders /\ row' = row
           \/ a \in CustomerMessages /\ row' = row /\ (s = Status(a) \/ row[a] = "none")
           \/ /\ a \in CustomerMessages /\ Status(a) = "running" /\ s = "dispatched"
              /\ row' = [row EXCEPT ![a] = IF row[a] = "none" THEN "approved" ELSE row[a]]
    PROVE  ScheduleInv'
<1>0. /\ row \in [CustomerMessages -> {"none", "approved", "sent", "cancelled"}]
      /\ ActionLeft(a, s, t) /\ \A m \in CustomerMessages : m \in Actions /\ MessageSound(m)
      /\ CustomerMessages \cap Reminders = {}
  BY DEF ScheduleInv, ScheduleTypeOK, LeavesRow, Actions
<1>1. ASSUME NEW m \in CustomerMessages PROVE MessageSound(m)'
  <2>1. CASE m # a
    <3>1. row'[m] = row[m] /\ action'[m].status = Status(m)
      BY <1>0, <2>1 DEF ActionLeft, Status
    <3> QED
      BY <3>1, MessageStays
  <2>2. CASE m = a
    <3>1. action'[m].status = s
      BY <1>0, <2>2 DEF ActionLeft
    <3>2. CASE row' = row /\ s = Status(a)
      BY <2>2, <3>1, <3>2, MessageStays
    <3>3. CASE row' = row /\ row[a] = "none"
      BY <2>2, <3>3 DEF MessageSound
    <3>4. CASE /\ Status(a) = "running" /\ s = "dispatched"
               /\ row' = [row EXCEPT ![a] = IF row[a] = "none" THEN "approved" ELSE row[a]]
      <4>1. row[a] = "none"
        BY <1>0, <2>2, <3>4 DEF MessageSound
      <4> QED
        BY <1>0, <2>2, <3>1, <3>4, <4>1 DEF MessageSound, Status
    <3> QED
      BY <1>0, <2>2, <3>2, <3>3, <3>4
  <2> QED
    BY <2>1, <2>2
<1>2. row' \in [CustomerMessages -> {"none", "approved", "sent", "cancelled"}]
  BY <1>0
<1> QED
  BY <1>0, <1>1, <1>2, TurnEnds DEF LeavesRow

\* A message with a live status has no row yet.
LEMMA LiveMessage ==
    ASSUME ScheduleInv, NEW m \in CustomerMessages, Status(m) \in {"pending", "running"}
    PROVE  row[m] = "none"
<1>1. MessageSound(m) /\ row[m] \in {"none", "approved", "sent", "cancelled"}
  BY DEF ScheduleInv, ScheduleTypeOK
<1> QED
  BY <1>1 DEF MessageSound

\* The steps of a tick, one by one.
LEMMA MissStep ==
    ASSUME ScheduleInv, NEW w \in Replicas, NEW a \in Actions, MissAction(w, a)
    PROVE  ScheduleInv'
<1>1. /\ AdvanceTurn(w, a) /\ row' = row /\ fired' = fired /\ mishaps' = mishaps
      /\ a \in replica[w].batch /\ replica[w].at = "next" /\ MarkTerminal(a, "missed")
  BY DEF MissAction, Picks
<1>2. /\ replica[w].hand = {} /\ mishaps \in 0..MaxMishaps /\ ActionSound(a)
      /\ a \in Reminders \/ a \in CustomerMessages
  BY <1>1 DEF ScheduleInv, TickSound, ScheduleTypeOK, Actions
<1>3. CASE Status(a) \in {"pending", "running"} /\ LeavesRow(a, "missed", action[a].turn)
  <2>1. "missed" \notin Quiet
    BY DEF Quiet
  <2> QED
    BY <1>1, <1>2, <1>3, <2>1, LiveMessage, TurnLeaves
<1>4. CASE LeavesRow(a, Status(a), action[a].turn)
  <2>1. Status(a) = "dispatched" => a \in CustomerMessages
    BY <1>2 DEF ActionSound
  <2> QED
    BY <1>1, <1>2, <1>4, <2>1, TurnLeaves
<1> QED
  BY <1>1, <1>3, <1>4, MarkTerminalLeaves

LEMMA DispatchStep ==
    ASSUME ScheduleInv, NEW w \in Replicas, NEW a \in Actions,
           DispatchMessage(w, a) \/ DispatchThrows(w, a)
    PROVE  ScheduleInv'
<1>1. /\ AdvanceTurn(w, a) /\ fired' = fired /\ a \in CustomerMessages
      /\ a \in replica[w].batch /\ replica[w].at = "next"
      /\ mishaps' = mishaps \/ (mishaps < MaxMishaps /\ mishaps' = mishaps + 1)
      /\ \/ /\ Status(a) = "running" /\ MarkTurn(a, "dispatched")
            /\ row' = [row EXCEPT ![a] = IF row[a] = "none" THEN "approved" ELSE row[a]]
         \/ action' = action /\ row' = row
         \/ ReleaseForRetry(a) /\ row' = row
  BY DEF DispatchMessage, DispatchThrows, Picks
<1>2. /\ replica[w].hand = {} /\ mishaps \in 0..MaxMishaps /\ a \notin Reminders
  BY <1>1 DEF ScheduleInv, TickSound, ScheduleTypeOK
<1>3. mishaps' \in 0..MaxMishaps
  BY <1>1, <1>2
<1>4. CASE /\ Status(a) = "running" /\ MarkTurn(a, "dispatched")
           /\ row' = [row EXCEPT ![a] = IF row[a] = "none" THEN "approved" ELSE row[a]]
  <2>1. "dispatched" \in ActionStatus \ {"running"}
    BY DEF ActionStatus
  <2>2. LeavesRow(a, "dispatched", action[a].turn)
    BY <1>4, <2>1, MarkLeaves
  <2> QED
    BY <1>1, <1>2, <1>3, <1>4, <2>2, TurnLeaves
<1>5. CASE LeavesRow(a, Status(a), action[a].turn) /\ row' = row
  BY <1>1, <1>2, <1>3, <1>5, TurnLeaves
<1>6. CASE Status(a) = "running" /\ LeavesRow(a, "pending", action[a].turn) /\ row' = row
  BY <1>1, <1>2, <1>3, <1>6, LiveMessage, TurnLeaves
<1> QED
  BY <1>1, <1>4, <1>5, <1>6, UntouchedLeaves, ReleaseLeaves

\* An action in the hand is the only one there, a reminder, and claimed.
LEMMA InHandFacts ==
    ASSUME ScheduleInv, NEW w \in Replicas, NEW a,
           NEW stage \in {"send", "settle", "caught"}, Handles(w, a, stage)
    PROVE  /\ a \in Reminders /\ a \in Actions /\ a \in replica[w].batch
           /\ replica[w].hand = {a} /\ replica[w].at = stage
           /\ ActionSound(a) /\ ScheduleTypeOK
<1>1. TickSound(w) /\ replica[w].at = stage /\ a \in replica[w].hand
  BY DEF ScheduleInv, Handles
<1>2. PICK b \in Reminders : replica[w].hand = {b} /\ b \in replica[w].batch
  BY <1>1 DEF TickSound
<1> QED
  BY <1>1, <1>2 DEF Actions, ScheduleInv

LEMMA SettleStep ==
    ASSUME ScheduleInv, NEW w \in Replicas, NEW a \in Actions, SettleReminder(w, a)
    PROVE  ScheduleInv'
<1>1. /\ AdvanceTurn(w, a) /\ row' = row /\ fired' = fired /\ mishaps' = mishaps
      /\ SettleFired(a) /\ Handles(w, a, "settle")
  BY DEF SettleReminder
<1>2. /\ a \in Reminders /\ a \in replica[w].batch /\ replica[w].hand = {a} /\ ActionSound(a)
      /\ replica[w].at = "settle" /\ mishaps \in 0..MaxMishaps
  BY <1>1, InHandFacts DEF ScheduleTypeOK
<1>3. Holds(w, a) /\ a \notin CustomerMessages /\ Status(a) # "dispatched"
  BY <1>2 DEF Holds, ActionSound
<1>4. "completed" \notin Quiet
  BY DEF Quiet
<1>5. CASE LeavesRow(a, "completed", action[a].turn)
  BY <1>1, <1>2, <1>3, <1>4, <1>5, TurnLeaves
<1>6. CASE LeavesRow(a, Status(a), action[a].turn)
  BY <1>1, <1>2, <1>3, <1>6, TurnLeaves
<1>7. CASE LeavesRow(a, "pending", action[a].turn + 1)
  BY <1>1, <1>2, <1>3, <1>7, TurnLeaves
<1> QED
  BY <1>1, <1>2, <1>5, <1>6, <1>7, SettleLeaves

LEMMA CatchStep ==
    ASSUME ScheduleInv, NEW w \in Replicas, NEW a \in Actions, CatchReminder(w, a)
    PROVE  ScheduleInv'
<1>1. /\ AdvanceTurn(w, a) /\ row' = row /\ fired' = fired /\ mishaps' = mishaps
      /\ Classify(w, a) /\ Handles(w, a, "caught")
  BY DEF CatchReminder
<1>2. /\ a \in Reminders /\ a \in replica[w].batch /\ replica[w].hand = {a} /\ ActionSound(a)
      /\ replica[w].at = "caught" /\ mishaps \in 0..MaxMishaps
  BY <1>1, InHandFacts DEF ScheduleTypeOK
<1>3. a \notin CustomerMessages /\ Status(a) # "dispatched" /\ "failed" \notin Quiet
  BY <1>2 DEF ActionSound, Quiet
<1>4. CASE LeavesRow(a, Status(a), action[a].turn)
  BY <1>1, <1>2, <1>3, <1>4, TurnLeaves
<1>5. CASE LeavesRow(a, "failed", action[a].turn)
  BY <1>1, <1>2, <1>3, <1>5, TurnLeaves
<1>6. CASE replica[w].got = "unavailable" /\ LeavesRow(a, "pending", action[a].turn)
  <2>1. MaySend(w, a)
    BY <1>2, <1>6 DEF MaySend, Holds
  <2> QED
    BY <1>1, <1>2, <1>3, <1>6, <2>1, TurnLeaves
<1> QED
  BY <1>1, <1>4, <1>5, <1>6, MarkTerminalLeaves, ReleaseLeaves DEF Classify

-----------------------------------------------------------------------------
(* The steps of a tick that keep the action in its hand.                     *)

\* Replica w's tick is replaced.
LEMMA TickIs ==
    ASSUME ScheduleTypeOK, NEW w \in Replicas, NEW q \in Ticks,
           replica' = [replica EXCEPT ![w] = q]
    PROVE  OnlyTick(w) /\ replica'[w] = q
BY ScheduleTypes DEF OnlyTick

\* A tick that keeps its batch holds what it held, but for the reminder in its hand.
LEMMA BatchStays ==
    ASSUME NEW w \in Replicas, NEW a, replica'[w].batch = replica[w].batch,
           replica'[w].hand = {a}, replica[w].hand \subseteq {a}
    PROVE  \A b \in Reminders \ {a} :
               (Holds(w, b)' => Holds(w, b)) /\ (MaySend(w, b)' => MaySend(w, b))
BY DEF Holds, MaySend

\* A step that leaves the row in the hand alone.
LEMMA HandLeavesRow ==
    ASSUME ScheduleInv, NEW w \in Replicas, NEW a \in Reminders, UNCHANGED <<action, row>>,
           OnlyTick(w), replica'[w].batch = replica[w].batch, a \in replica[w].batch,
           replica[w].hand \subseteq {a}, replica'[w].hand = {a},
           replica'[w].at \in {"send", "settle", "caught"}, mishaps' \in 0..MaxMishaps,
           fired' \in [Reminders -> [Turns -> 0..2]],
           \A b \in Reminders \ {a} : fired'[b] = fired[b],
           Stays(a) \/ SentOff(w, a)
    PROVE  ScheduleInv'
<1>1. TickSound(w)'
  BY DEF TickSound
<1>2. LeavesRow(a, Status(a), action[a].turn) /\ a \notin CustomerMessages /\ ActionSound(a)
  BY UntouchedLeaves DEF Actions, ScheduleInv
<1>3. Status(a) # "dispatched"
  BY <1>2 DEF ActionSound
<1> QED
  BY <1>1, <1>2, <1>3, BatchStays, TickGoesOn DEF LeavesRow

\* One more send of the occurrence is still in its range.
LEMMA FiresIs ==
    ASSUME ScheduleTypeOK, NEW a \in Reminders, Fires(a)
    PROVE  /\ fired' \in [Reminders -> [Turns -> 0..2]]
           /\ fired'[a] = [fired[a] EXCEPT ![action[a].turn] = OneMore(@)]
           /\ \A b \in Reminders \ {a} : fired'[b] = fired[b]
<1>1. fired \in [Reminders -> [Turns -> 0..2]] /\ action[a].turn \in Turns
  BY ScheduleTypes DEF ScheduleTypeOK, Actions
<1>2. OneMore(fired[a][action[a].turn]) \in 0..2
  BY DEF OneMore
<1> DEFINE f == [fired[a] EXCEPT ![action[a].turn] = OneMore(fired[a][action[a].turn])]
<1>3. f \in [Turns -> 0..2] /\ fired' = [fired EXCEPT ![a] = f]
  BY <1>1, <1>2 DEF Fires
<1> QED
  BY <1>1, <1>3

LEMMA StartReminderStep ==
    ASSUME ScheduleInv, NEW w \in Replicas, NEW a \in Actions, StartReminder(w, a)
    PROVE  ScheduleInv'
<1>0. /\ ScheduleTypeOK /\ TickSound(w) /\ replica \in [Replicas -> Ticks]
      /\ replica[w] \in Ticks /\ mishaps \in 0..MaxMishaps
      /\ fired \in [Reminders -> [Turns -> 0..2]]
  BY ScheduleTypes DEF ScheduleInv, ScheduleTypeOK
<1>1. /\ replica[w].at = "next" /\ a \in replica[w].batch /\ a \in Reminders
      /\ UNCHANGED <<action, row, fired, mishaps>>
  BY DEF StartReminder, Picks
<1> DEFINE q == [replica[w] EXCEPT !.at = "send", !.hand = {a}]
<1>2. /\ q \in Ticks /\ q.at = "send" /\ q.batch = replica[w].batch /\ q.hand = {a}
  BY <1>0, <1>1 DEF Ticks
<1>3. replica' = [replica EXCEPT ![w] = q]
  BY <1>0 DEF StartReminder
<1> HIDE DEF q
<1>4. OnlyTick(w) /\ replica'[w] = q
  BY <1>0, <1>2, <1>3, TickIs
<1>5. replica[w].hand = {}
  BY <1>0, <1>1 DEF TickSound
<1>6. (Holds(w, a)' => Holds(w, a)) /\ (MaySend(w, a)' => MaySend(w, a))
  BY <1>1, <1>5 DEF Holds, MaySend
<1>7. Stays(a)
  BY <1>1, <1>4, <1>6, OthersHold DEF Stays, Status
<1> QED
  BY <1>0, <1>1, <1>2, <1>4, <1>5, <1>7, HandLeavesRow

LEMMA SendStep ==
    ASSUME ScheduleInv, NEW w \in Replicas, NEW a \in Actions,
           SendAccepted(w, a) \/ SendAgain(w, a) \/ SendThrows(w, a)
    PROVE  ScheduleInv'
<1>0. /\ ScheduleTypeOK /\ replica \in [Replicas -> Ticks] /\ replica[w] \in Ticks
      /\ mishaps \in 0..MaxMishaps /\ fired \in [Reminders -> [Turns -> 0..2]]
      /\ replica[w].tried \in 0..Attempts
  BY ScheduleTypes DEF ScheduleInv, ScheduleTypeOK
<1>1. Handles(w, a, "send") /\ UNCHANGED <<action, row, mishaps>>
  BY DEF SendAccepted, SendAgain, SendThrows
<1>2. /\ a \in Reminders /\ a \in replica[w].batch /\ replica[w].hand = {a}
      /\ replica[w].at = "send" /\ MaySend(w, a)
  BY <1>1, InHandFacts DEF MaySend, Holds
\* The cases of a step: it sends, or it does not.
<1>3. ASSUME NEW q \in Ticks, replica' = [replica EXCEPT ![w] = q],
             q.batch = replica[w].batch, q.hand = {a}, q.at \in {"send", "settle", "caught"},
             \/ Fires(a) /\ (q.at = "settle" \/ (q.at = "caught" /\ q.got = "unknown"))
             \/ fired' = fired
      PROVE  ScheduleInv'
  <2>1. OnlyTick(w) /\ replica'[w] = q
    BY <1>0, <1>3, TickIs
  <2>2. MaySend(w, a)' => Holds(w, a)' /\ q.at # "settle"
    BY <1>3, <2>1 DEF MaySend
  <2>3. \A v \in Replicas : (Holds(v, a)' => Holds(v, a)) /\ (MaySend(v, a)' => MaySend(v, a))
    BY <1>2, <2>1, OthersHold DEF MaySend
  <2>4. Stays(a) \/ SentOff(w, a)
    <3>1. CASE fired' = fired
      BY <1>1, <2>3, <3>1 DEF Stays, Status
    <3>2. CASE Fires(a) /\ (q.at = "settle" \/ (q.at = "caught" /\ q.got = "unknown"))
      <4>1. ~MaySend(w, a)'
        BY <1>3, <2>1, <3>2 DEF MaySend, Holds
      <4> QED
        BY <1>0, <1>1, <1>2, <2>3, <3>2, <4>1, FiresIs DEF SentOff, Status
    <3> QED
      BY <1>3, <3>1, <3>2
  <2>5. /\ fired' \in [Reminders -> [Turns -> 0..2]]
        /\ \A b \in Reminders \ {a} : fired'[b] = fired[b]
    BY <1>0, <1>2, <1>3, FiresIs
  <2> QED
    BY <1>0, <1>1, <1>2, <1>3, <2>1, <2>4, <2>5, HandLeavesRow
<1>4. CASE SendAccepted(w, a)
  <2> DEFINE q == [replica[w] EXCEPT !.at = "settle"]
  <2>1. q \in Ticks /\ q.at = "settle" /\ q.batch = replica[w].batch /\ q.hand = replica[w].hand
    BY <1>0 DEF Ticks
  <2>2. replica' = [replica EXCEPT ![w] = q] /\ Fires(a)
    BY <1>0, <1>4 DEF SendAccepted
  <2> HIDE DEF q
  <2> QED
    BY <1>2, <1>3, <2>1, <2>2
<1>5. CASE SendAgain(w, a)
  <2> DEFINE q == [replica[w] EXCEPT !.tried = replica[w].tried + 1]
  <2>1. replica[w].tried + 1 \in 0..Attempts
    BY <1>0, <1>5 DEF SendAgain
  <2>2. q \in Ticks /\ q.at = replica[w].at /\ q.batch = replica[w].batch
        /\ q.hand = replica[w].hand
    BY <1>0, <2>1 DEF Ticks
  <2>3. replica' = [replica EXCEPT ![w] = q] /\ fired' = fired
    BY <1>0, <1>5 DEF SendAgain
  <2> HIDE DEF q
  <2> QED
    BY <1>2, <1>3, <2>2, <2>3
<1>6. CASE SendThrows(w, a)
  <2>1. PICK got \in {"rejected", "unavailable", "unknown"} :
            /\ replica' = [replica EXCEPT ![w].at = "caught", ![w].got = got]
            /\ IF got = "unknown" THEN Fires(a) ELSE UNCHANGED fired
    BY <1>6 DEF SendThrows
  <2> DEFINE q == [replica[w] EXCEPT !.at = "caught", !.got = got]
  <2>2. q \in Ticks /\ q.at = "caught" /\ q.batch = replica[w].batch
        /\ q.hand = replica[w].hand /\ q.got = got
    BY <1>0 DEF Ticks, SendResult
  <2>3. replica' = [replica EXCEPT ![w] = q]
    BY <1>0, <2>1
  <2> HIDE DEF q
  <2> QED
    BY <1>2, <1>3, <2>1, <2>2, <2>3
<1> QED
  BY <1>4, <1>5, <1>6

LEMMA SettleThrowsStep ==
    ASSUME ScheduleInv, NEW w \in Replicas, NEW a \in Actions, SettleThrows(w, a)
    PROVE  ScheduleInv'
<1>0. /\ ScheduleTypeOK /\ replica \in [Replicas -> Ticks] /\ replica[w] \in Ticks
      /\ mishaps \in 0..MaxMishaps /\ fired \in [Reminders -> [Turns -> 0..2]]
  BY ScheduleTypes DEF ScheduleInv, ScheduleTypeOK
<1>1. /\ Handles(w, a, "settle") /\ UNCHANGED <<row, fired>>
      /\ mishaps < MaxMishaps /\ mishaps' = mishaps + 1 /\ (SettleFired(a) \/ UNCHANGED action)
  BY DEF SettleThrows
<1>2. /\ a \in Reminders /\ a \in replica[w].batch /\ replica[w].hand = {a}
      /\ replica[w].at = "settle" /\ ActionSound(a) /\ a \notin CustomerMessages
  BY <1>1, InHandFacts
<1> DEFINE q == [replica[w] EXCEPT !.at = "caught", !.got = "unknown"]
<1>3. q \in Ticks /\ q.at = "caught" /\ q.batch = replica[w].batch
      /\ q.hand = replica[w].hand /\ q.got = "unknown"
  BY <1>0 DEF Ticks, SendResult
<1>4. replica' = [replica EXCEPT ![w] = q]
  BY <1>0 DEF SettleThrows
<1> HIDE DEF q
<1>5. OnlyTick(w) /\ replica'[w] = q
  BY <1>0, <1>3, <1>4, TickIs
<1>6. /\ Holds(w, a) /\ ~Holds(w, a)' /\ ~MaySend(w, a)' /\ mishaps' \in 0..MaxMishaps
  <2>1. Holds(w, a) /\ ~Holds(w, a)' /\ ~MaySend(w, a)'
    BY <1>2, <1>3, <1>5 DEF Holds, MaySend
  <2>2. mishaps' \in 0..MaxMishaps
    BY <1>0, <1>1
  <2> QED
    BY <2>1, <2>2
<1>7. TickSound(w)'
  BY <1>2, <1>3, <1>5 DEF TickSound
<1>8. \A v \in Replicas \ {w} :
          (Holds(v, a)' => Holds(v, a)) /\ (MaySend(v, a)' => MaySend(v, a))
  BY <1>5, OthersHold
<1>9. ASSUME NEW s, NEW t, LeavesRow(a, s, t), s # "dispatched",
             \/ t = action[a].turn /\ (s = Status(a) \/ s = "completed")
             \/ t = action[a].turn + 1 /\ s = "pending"
      PROVE  ScheduleInv'
  <2>1. action'[a].status = s /\ action'[a].turn = t
    BY <1>9 DEF LeavesRow, ActionLeft
  <2>2. Stays(a) \/ Freed(w, a)
    <3>1. CASE t = action[a].turn /\ (s = Status(a) \/ s = "completed")
      BY <1>1, <1>6, <1>8, <2>1, <3>1 DEF Stays, Quiet
    <3>2. CASE t = action[a].turn + 1 /\ s = "pending"
      BY <1>1, <1>6, <1>8, <2>1, <3>2 DEF Freed
    <3> QED
      BY <1>9, <3>1, <3>2
  <2> QED
    BY <1>0, <1>1, <1>2, <1>3, <1>5, <1>6, <1>7, <1>9, <2>2, BatchStays, TickGoesOn
       DEF LeavesRow
<1>10. Status(a) # "dispatched"
  BY <1>2 DEF ActionSound
<1> QED
  BY <1>1, <1>2, <1>9, <1>10, SettleLeaves, UntouchedLeaves

-----------------------------------------------------------------------------
(* The start and the end of a tick.                                          *)

\* The interrupted rows of a reclaim: messages are pending again, reminders failed.
LEMMA ReclaimedRows ==
    ASSUME ScheduleInv, NEW w \in Replicas, ReclaimStuckActions(w)
    PROVE  /\ action' \in [Actions -> ActionRows]
           /\ \A a \in Actions :
                /\ action'[a].turn = action[a].turn
                /\ action'[a].due => action[a].due
                /\ \/ action'[a].status = Status(a)
                   \/ /\ Status(a) = "running"
                      /\ action'[a].status = Reclaimed(a)
<1>0. action \in [Actions -> ActionRows]
  BY ScheduleTypes DEF ScheduleInv
<1> DEFINE q(a) == [action[a] EXCEPT !.status = Reclaimed(a), !.stuck = FALSE]
<1>1. ASSUME NEW a \in Actions
      PROVE  /\ q(a) \in ActionRows /\ q(a).status = Reclaimed(a) /\ q(a).turn = action[a].turn
             /\ q(a).due = action[a].due
  <2>1. Reclaimed(a) \in ActionStatus
    BY DEF Reclaimed, ActionStatus
  <2> QED
    BY <1>0, <2>1, RowUpdates
<1>2. action' = [a \in Actions |-> IF Status(a) = "running" /\ action[a].stuck
                                   THEN q(a) ELSE action[a]]
  BY DEF ReclaimStuckActions
<1> HIDE DEF q
<1> QED
  BY <1>0, <1>1, <1>2 DEF Status

LEMMA ReclaimStep ==
    ASSUME ScheduleInv, NEW w \in Replicas, ReclaimStuckActions(w)
    PROVE  ScheduleInv'
<1>0. /\ ScheduleTypeOK /\ replica \in [Replicas -> Ticks] /\ replica[w] \in Ticks
      /\ mishaps \in 0..MaxMishaps /\ fired \in [Reminders -> [Turns -> 0..2]]
      /\ row \in [CustomerMessages -> {"none", "approved", "sent", "cancelled"}]
      /\ \A a \in Actions : ActionSound(a)
      /\ \A b \in Reminders : b \in Actions
      /\ TickSound(w)
  BY ScheduleTypes DEF ScheduleInv, ScheduleTypeOK, Actions
<1>1. replica[w].at = "idle" /\ UNCHANGED <<row, fired, mishaps>>
  BY DEF ReclaimStuckActions
<1> DEFINE q == [replica[w] EXCEPT !.at = "claim"]
<1>2. q \in Ticks /\ q.at = "claim" /\ q.batch = replica[w].batch /\ q.hand = replica[w].hand
  BY <1>0 DEF Ticks
<1>3. replica' = [replica EXCEPT ![w] = q]
  BY <1>0 DEF ReclaimStuckActions
<1> HIDE DEF q
<1>4. OnlyTick(w) /\ replica'[w] = q
  BY <1>0, <1>2, <1>3, TickIs
<1>5. TickSound(w)' /\ replica'[w].batch = {}
  BY <1>0, <1>1, <1>2, <1>4 DEF TickSound
<1>6. \A v \in Replicas : TickSound(v)'
  BY <1>4, <1>5, OthersSound
<1>7. ASSUME NEW a \in Actions PROVE ActionSound(a)'
  <2>1. /\ action'[a].turn = action[a].turn /\ (action'[a].due => action[a].due)
        /\ action'[a].status = Status(a) \/ (Status(a) = "running" /\ action'[a].status = Reclaimed(a))
    BY ReclaimedRows
  <2>2. Reclaimed(a) \notin {"running", "dispatched"}
    BY DEF Reclaimed
  <2> QED
    BY <1>0, <2>1, <2>2 DEF ActionSound, Status
<1>8. ASSUME NEW b \in Reminders PROVE Stays(b)
  <2>1. Reclaimed(b) = "failed" /\ "failed" \notin Quiet
    BY DEF Reclaimed, Quiet
  <2>2. \A v \in Replicas : (Holds(v, b)' => Holds(v, b)) /\ (MaySend(v, b)' => MaySend(v, b))
    BY <1>4, <1>5, OthersHold DEF Holds, MaySend
  <2> QED
    BY <1>0, <1>1, <2>1, <2>2, ReclaimedRows DEF Stays
<1>9. ASSUME NEW m \in CustomerMessages PROVE MessageSound(m)'
  <2>1. m \in Actions /\ MessageSound(m)
    BY DEF Actions, ScheduleInv
  <2> QED
    BY <1>0, <1>1, <2>1, ReclaimedRows, LiveMessage DEF MessageSound, Status
<1>10. \A a \in Actions : action'[a].turn > 1 => a \in Recurring
  BY <1>0, ReclaimedRows DEF ScheduleTypeOK
<1> QED
  BY <1>0, <1>1, <1>4, <1>6, <1>7, <1>8, <1>9, <1>10, ReclaimedRows, ScheduleMoves DEF OnlyTick

\* The due rows of a claim run.
LEMMA ClaimedRows ==
    ASSUME ScheduleInv, NEW w \in Replicas, ClaimDueActions(w)
    PROVE  /\ action' \in [Actions -> ActionRows]
           /\ \A a \in Actions : action'[a].turn = action[a].turn
           /\ \A a \in Actions \ Due : action'[a] = action[a]
           /\ \A a \in Due : action'[a].status = "running" /\ action'[a].due = action[a].due
<1>0. action \in [Actions -> ActionRows]
  BY ScheduleTypes DEF ScheduleInv
<1> DEFINE q(a) == [action[a] EXCEPT !.status = "running"]
<1>1. ASSUME NEW a \in Actions
      PROVE  /\ q(a) \in ActionRows /\ q(a).status = "running" /\ q(a).turn = action[a].turn
             /\ q(a).due = action[a].due
  <2>1. "running" \in ActionStatus
    BY DEF ActionStatus
  <2> QED
    BY <1>0, <2>1, RowUpdates
<1>2. action' = [a \in Actions |-> IF a \in Due THEN q(a) ELSE action[a]]
  BY DEF ClaimDueActions
<1>3. Due \subseteq Actions
  BY DEF Due
<1> HIDE DEF q
<1> QED
  BY <1>0, <1>1, <1>2, <1>3

LEMMA ClaimActionsStep ==
    ASSUME ScheduleInv, NEW w \in Replicas, ClaimDueActions(w)
    PROVE  ScheduleInv'
<1>0. /\ ScheduleTypeOK /\ replica \in [Replicas -> Ticks] /\ replica[w] \in Ticks
      /\ mishaps \in 0..MaxMishaps /\ fired \in [Reminders -> [Turns -> 0..2]]
      /\ row \in [CustomerMessages -> {"none", "approved", "sent", "cancelled"}]
      /\ \A a \in Actions : ActionSound(a)
      /\ \A b \in Reminders : b \in Actions
      /\ TickSound(w)
  BY ScheduleTypes DEF ScheduleInv, ScheduleTypeOK, Actions
<1>1. replica[w].at = "claim" /\ UNCHANGED <<row, fired, mishaps>>
  BY DEF ClaimDueActions
<1> DEFINE at == IF Due = {} THEN "idle" ELSE "next"
           q == [replica[w] EXCEPT !.batch = Due, !.at = at]
<1>2. at \in {"idle", "next"} /\ (at = "idle" => Due = {})
  OBVIOUS
<1>3. replica' = [replica EXCEPT ![w] = q]
  BY <1>0 DEF ClaimDueActions
<1> HIDE DEF at
<1>4. q \in Ticks /\ q.at = at /\ q.batch = Due /\ q.hand = replica[w].hand
  BY <1>0, <1>2 DEF Ticks, Due
<1> HIDE DEF q
<1>5. OnlyTick(w) /\ replica'[w] = q /\ replica[w].hand = {} /\ replica[w].batch = {}
  BY <1>0, <1>1, <1>3, <1>4, TickIs DEF TickSound
<1>6. TickSound(w)'
  BY <1>2, <1>4, <1>5 DEF TickSound
<1>7. \A v \in Replicas : TickSound(v)'
  BY <1>5, <1>6, OthersSound
<1>8. ASSUME NEW a \in Actions PROVE ActionSound(a)'
  <2>1. CASE a \in Due
    BY <1>0, <2>1, ClaimedRows DEF ActionSound, Status, Due
  <2>2. CASE a \notin Due
    BY <1>0, <2>2, ClaimedRows DEF ActionSound, Status
  <2> QED
    BY <2>1, <2>2
<1>9. ASSUME NEW b \in Reminders PROVE Stays(b) \/ Taken(w, b)
  <2>1. b \in Actions
    BY <1>0
  <2>2. CASE b \in Due
    <3>1. Status(b) = "pending" /\ "pending" \in Quiet
      BY <2>2 DEF Due, Quiet
    <3>2. \A v \in Replicas : ~Holds(v, b)
      BY <3>1 DEF ScheduleInv, ReminderSound
    <3>3. \A v \in Replicas : Holds(v, b)' => v = w
      BY <1>5, <3>2, OthersHold
    <3> QED
      BY <1>1, <2>1, <2>2, <3>1, <3>3, ClaimedRows DEF Taken
  <2>3. CASE b \notin Due
    <3>1. ~Holds(w, b)' /\ ~MaySend(w, b)'
      BY <1>4, <1>5, <2>3 DEF Holds, MaySend
    <3>2. \A v \in Replicas : (Holds(v, b)' => Holds(v, b)) /\ (MaySend(v, b)' => MaySend(v, b))
      BY <1>5, <3>1, OthersHold
    <3> QED
      BY <1>1, <2>1, <2>3, <3>2, ClaimedRows DEF Stays, Status
  <2> QED
    BY <2>2, <2>3
<1>10. ASSUME NEW m \in CustomerMessages PROVE MessageSound(m)'
  <2>1. m \in Actions
    BY DEF Actions
  <2>2. CASE m \in Due
    BY <1>1, <2>2, LiveMessage DEF MessageSound, Due
  <2>3. CASE m \notin Due
    BY <1>1, <2>1, <2>3, ClaimedRows, MessageStays DEF Status
  <2> QED
    BY <2>2, <2>3
<1>11. \A a \in Actions : action'[a].turn > 1 => a \in Recurring
  BY <1>0, ClaimedRows DEF ScheduleTypeOK
<1> QED
  BY <1>0, <1>1, <1>5, <1>7, <1>8, <1>9, <1>10, <1>11, ClaimedRows, ScheduleMoves DEF OnlyTick

LEMMA DeathStep ==
    ASSUME ScheduleInv, NEW w \in Replicas, ReplicaDies(w)
    PROVE  ScheduleInv'
<1>0. /\ ScheduleTypeOK /\ replica \in [Replicas -> Ticks] /\ action \in [Actions -> ActionRows]
      /\ mishaps \in 0..MaxMishaps /\ fired \in [Reminders -> [Turns -> 0..2]]
      /\ row \in [CustomerMessages -> {"none", "approved", "sent", "cancelled"}]
  BY ScheduleTypes DEF ScheduleInv, ScheduleTypeOK
<1>1. UNCHANGED <<action, row, fired>> /\ replica' = [replica EXCEPT ![w] = Between]
  BY DEF ReplicaDies
<1>2. mishaps' \in 0..MaxMishaps
  BY <1>0 DEF ReplicaDies
<1>3. Between \in Ticks /\ Between.at = "idle" /\ Between.batch = {} /\ Between.hand = {}
  <2>1. 0 \in 0..Attempts
    OBVIOUS
  <2> QED
    BY <2>1 DEF Between, Ticks, SendResult
<1>4. OnlyTick(w) /\ replica'[w] = Between
  BY <1>0, <1>1, <1>3, TickIs
<1>5. \A v \in Replicas : TickSound(v)'
  BY <1>3, <1>4, OthersSound DEF TickSound
<1>6. ASSUME NEW b \in Reminders PROVE Stays(b)
  <2>1. \A v \in Replicas : (Holds(v, b)' => Holds(v, b)) /\ (MaySend(v, b)' => MaySend(v, b))
    BY <1>3, <1>4, OthersHold DEF Holds, MaySend
  <2> QED
    BY <1>1, <2>1 DEF Stays, Status
<1>7. /\ \A a \in Actions : ActionSound(a)'
      /\ \A m \in CustomerMessages : MessageSound(m)'
      /\ \A a \in Actions : action'[a].turn > 1 => a \in Recurring
  BY <1>1 DEF ScheduleInv, ScheduleTypeOK, ActionSound, MessageSound, Status
<1> QED
  BY <1>0, <1>1, <1>2, <1>4, <1>5, <1>6, <1>7, ScheduleMoves DEF OnlyTick

-----------------------------------------------------------------------------
(* The theorems.                                                             *)

\* No action was taken or sent yet.
LEMMA ScheduleStarts ==
    ScheduleInit => ScheduleInv
<1> SUFFICES ASSUME ScheduleInit PROVE ScheduleInv
  OBVIOUS
<1>1. 1 \in Turns /\ 0 \in 0..2 /\ 0 \in 0..Attempts /\ 0 \in 0..MaxMishaps /\ 1 <= MaxTurns
  BY DEF Turns
<1>2. Between \in Ticks /\ Between.at = "idle" /\ Between.batch = {} /\ Between.hand = {}
  BY <1>1 DEF Between, Ticks, SendResult
<1>3. \A a \in Actions : /\ action[a] \in ActionRows /\ action[a].status = "pending"
                         /\ action[a].turn = 1 /\ ~action[a].due
  BY <1>1 DEF ScheduleInit, ActionRows, ActionStatus
<1>4. \A w \in Replicas : replica[w] = Between
  BY DEF ScheduleInit
<1>5. ScheduleTypeOK
  <2>1. action \in [Actions -> ActionRows]
    BY <1>3 DEF ScheduleInit
  <2>2. replica \in [Replicas -> Ticks]
    BY <1>2 DEF ScheduleInit
  <2>3. fired \in [Reminders -> [Turns -> 0..2]]
    BY <1>1 DEF ScheduleInit
  <2>4. row \in [CustomerMessages -> {"none", "approved", "sent", "cancelled"}]
    BY DEF ScheduleInit
  <2>5. mishaps \in 0..MaxMishaps
    BY <1>1 DEF ScheduleInit
  <2>6. \A a \in Actions : ~(action[a].turn > 1)
    BY <1>3
  <2> QED
    BY <2>1, <2>2, <2>3, <2>4, <2>5, <2>6 DEF ScheduleTypeOK, ActionRows, Ticks
<1>6. \A w \in Replicas : TickSound(w)
  BY <1>2, <1>4 DEF TickSound
<1>7. \A a \in Actions : ActionSound(a)
  BY <1>3 DEF ActionSound, Status
<1>8. \A b \in Reminders : ReminderSound(b)
  <2>1. \A w \in Replicas, b \in Reminders : ~Holds(w, b) /\ ~MaySend(w, b)
    BY <1>2, <1>4 DEF Holds, MaySend
  <2>2. \A b \in Reminders, t \in Turns : fired[b][t] = 0
    BY DEF ScheduleInit
  <2> QED
    BY <1>1, <1>3, <2>1, <2>2 DEF ReminderSound, Actions
<1>9. \A m \in CustomerMessages : MessageSound(m)
  BY DEF ScheduleInit, MessageSound
<1> QED
  BY <1>5, <1>6, <1>7, <1>8, <1>9 DEF ScheduleInv

\* The invariant is kept by every step of the worker, of the founder, of the drainer
\* and of the clock, and by a crash of a process at any place of its tick.
THEOREM ScheduleInductive ==
    ScheduleSpec => []ScheduleInv
<1>1. ScheduleInit => ScheduleInv
  BY ScheduleStarts
<1>2. ScheduleInv /\ [ScheduleNext]_scheduleVars => ScheduleInv'
  <2> SUFFICES ASSUME ScheduleInv, [ScheduleNext]_scheduleVars PROVE ScheduleInv'
    OBVIOUS
  <2>1. ASSUME NEW w \in Replicas, ScheduleTick(w) PROVE ScheduleInv'
    <3>1. CASE ReclaimStuckActions(w)
      BY <3>1, ReclaimStep
    <3>2. CASE ClaimDueActions(w)
      BY <3>2, ClaimActionsStep
    <3>3. ASSUME NEW a \in Actions, HandleAction(w, a) PROVE ScheduleInv'
      BY <3>3, MissStep, DispatchStep, StartReminderStep, SendStep, SettleStep, CatchStep
         DEF HandleAction
    <3> QED
      BY <2>1, <3>1, <3>2, <3>3 DEF ScheduleTick
  <2>2. ASSUME NEW w \in Replicas, ReplicaDies(w) PROVE ScheduleInv'
    BY <2>2, DeathStep
  <2>3. ASSUME NEW w \in Replicas, NEW a \in Actions,
               DispatchThrows(w, a) \/ SettleThrows(w, a)
        PROVE  ScheduleInv'
    BY <2>3, DispatchStep, SettleThrowsStep
  <2>4. CASE \/ \E a \in Actions :
                   CancelScheduled(a) \/ FallsDue(a) \/ GraceExpires(a) \/ RunsLong(a)
             \/ \E m \in CustomerMessages : Drain(m)
    BY <2>4, WorldSteps
  <2>5. CASE UNCHANGED scheduleVars
    BY <2>5 DEF scheduleVars, ScheduleInv, ScheduleTypeOK, TickSound, ActionSound,
                ReminderSound, MessageSound, Holds, MaySend, Status
  <2> QED
    BY <2>1, <2>2, <2>3, <2>4, <2>5 DEF ScheduleNext
<1> QED
  BY <1>1, <1>2, PTL DEF ScheduleSpec

\* No occurrence of a reminder gets two calls that may have delivered it, and nothing
\* of a cancelled action is sent or left ready to send: over any number of replicas
\* that reclaim each other's work, of crashes, and of commits whose answer is lost.
THEOREM RemindersAreOnce ==
    ScheduleSpec => []OnceOrSilent
<1>1. ScheduleInv => OnceOrSilent
  <2> SUFFICES ASSUME ScheduleInv PROVE OnceOrSilent
    OBVIOUS
  <2>1. FiresOnce
    BY DEF ScheduleInv, ReminderSound, FiresOnce
  <2>2. ASSUME NEW a \in Actions, Status(a) = "cancelled", a \in CustomerMessages
        PROVE  row[a] \in {"none", "cancelled"}
    BY <2>2 DEF ScheduleInv, ScheduleTypeOK, MessageSound
  <2>3. ASSUME NEW a \in Actions, Status(a) = "cancelled", NEW w \in Replicas,
               Handles(w, a, "send")
        PROVE  FALSE
    <3>1. a \in Reminders /\ Holds(w, a)
      BY <2>3, InHandFacts DEF Holds
    <3> QED
      BY <2>3, <3>1 DEF ScheduleInv, ReminderSound, Quiet
  <2> QED
    BY <2>1, <2>2, <2>3 DEF OnceOrSilent, CancelledIsSilent
<1> QED
  BY <1>1, ScheduleInductive, PTL

-----------------------------------------------------------------------------
(* ScheduleDialog.                                                           *)

ShownBodies == [made : BOOLEAN, body : Nat]
Pendings == [ask : {"none", "free", "channel", "draft", "edit", "meeting"}, turns : Nat,
             anchor : Nat, nonce : Nat, body : Nat, channel : BOOLEAN]
Inputs == [tap : CardTaps \cup {"text"}, nonce : Nat]

DialogTypes ==
    /\ inputs \in Seq(Inputs) /\ current \in Nat \ {0} /\ nonces \in Nat /\ offeredCards \subseteq Nat
    /\ pending \in Pendings
    /\ scheduled \in [Anchors -> ShownBodies] /\ events \in [Anchors -> ShownBodies]

\* The body that waits for a tap is the founder's own or the one its own card shows,
\* and a meeting is always on a card.
PendingInv ==
    /\ pending.body \in {0, pending.nonce}
    /\ pending.ask = "meeting" => pending.body = pending.nonce

DialogInv == DialogTypes /\ PendingInv /\ ActsAsShown

\* What was tapped stays tapped.
LEMMA TapsStay ==
    ASSUME inputs \in Seq(Inputs), NEW i \in Inputs, inputs' = Append(inputs, i),
           NEW n, NEW taps, TappedOn(n, taps)
    PROVE  TappedOn(n, taps)'
<1>1. PICK u \in 1..Len(inputs) : inputs[u].nonce = n /\ inputs[u].tap \in taps
  BY DEF TappedOn
<1>2. u \in 1..Len(inputs') /\ inputs'[u] = inputs[u]
  OBVIOUS
<1> QED
  BY <1>1, <1>2 DEF TappedOn


\* A step that leaves the founder's inputs, and schedules and books as shown.
LEMMA DialogMoves ==
    ASSUME DialogInv, UNCHANGED inputs, current' \in Nat \ {0}, nonces' \in Nat,
           offeredCards' \subseteq Nat, pending' \in Pendings, PendingInv',
           scheduled' \in [Anchors -> ShownBodies], events' \in [Anchors -> ShownBodies],
           \A a \in Anchors : \/ scheduled'[a] = scheduled[a]
                              \/ scheduled'[a].body = 0
                              \/ TappedOn(scheduled'[a].body, {"approve", "channel"}),
           \A a \in Anchors : events'[a] = events[a] \/ TappedOn(events'[a].body, {"book"})
    PROVE  DialogInv'
<1>1. \A n, taps : TappedOn(n, taps) => TappedOn(n, taps)'
  BY DEF TappedOn
<1>2. DialogTypes'
  BY DEF DialogInv, DialogTypes
<1> HIDE DEF TappedOn
<1>3. ActsAsShown'
  BY <1>1 DEF DialogInv, ActsAsShown
<1> QED
  BY <1>2, <1>3 DEF DialogInv

\* The reply, sent or not.
LEMMA EndsMove ==
    ASSUME DialogInv, NEW card \in Nat, Ends(card) \/ ReplyThrows(card)
    PROVE  current' \in Nat \ {0} /\ offeredCards' \subseteq Nat
<1>1. current \in Nat \ {0} /\ offeredCards \subseteq Nat
  BY DEF DialogInv, DialogTypes
<1>2. current' \in {current, current + 1}
  BY DEF Ends, Replies, ReplyThrows
<1>3. \A c \in offeredCards' : c \in offeredCards \/ c = card
  BY DEF Ends, Replies, ReplyThrows
<1>4. current' \in Nat \ {0}
  BY <1>1, <1>2
<1> QED
  BY <1>1, <1>3, <1>4

\* The founder writes or presses a button.
LEMMA InputStep == ASSUME DialogInv, Writes \/ Presses PROVE DialogInv'
<1>1. PICK i \in Inputs : inputs' = Append(inputs, i)
  <2>1. CASE Writes
    <3>1. [tap |-> "text", nonce |-> 0] \in Inputs
      BY DEF Inputs
    <3> QED
      BY <2>1, <3>1 DEF Writes
  <2>2. CASE Presses
    <3>1. PICK n \in offeredCards, t \in CardTaps : inputs' = Append(inputs, [tap |-> t, nonce |-> n])
      BY <2>2 DEF Presses
    <3> QED
      BY <3>1 DEF Inputs, DialogInv, DialogTypes
  <2> QED
    BY <2>1, <2>2
<1>2. UNCHANGED <<current, pending, nonces, offeredCards, scheduled, events>>
  BY DEF Writes, Presses
<1>3. inputs \in Seq(Inputs) /\ inputs' \in Seq(Inputs)
  BY <1>1 DEF DialogInv, DialogTypes
<1>4. DialogTypes' /\ PendingInv'
  BY <1>2, <1>3 DEF DialogInv, DialogTypes, PendingInv
<1>5. \A n, taps : TappedOn(n, taps) => TappedOn(n, taps)'
  BY <1>1, <1>3, TapsStay
<1> HIDE DEF TappedOn
<1>6. ActsAsShown'
  BY <1>2, <1>5 DEF DialogInv, ActsAsShown
<1> QED
  BY <1>4, <1>6 DEF DialogInv

\* What is pending when a conversation is over, goes on or stays.
LEMMA PendingForms ==
    ASSUME DialogInv
    PROVE  /\ NoPending \in Pendings /\ NoPending.body = 0 /\ NoPending.ask = "none"
           /\ pending \in Pendings /\ PendingInv /\ nonces \in Nat /\ Anchor \in Nat
           /\ scheduled \in [Anchors -> ShownBodies] /\ events \in [Anchors -> ShownBodies]
<1>1. NoPending \in Pendings /\ NoPending.body = 0 /\ NoPending.ask = "none"
  BY DEF NoPending, Pendings
<1>2. pending \in Pendings /\ pending.anchor \in Nat /\ current \in Nat
  BY DEF DialogInv, DialogTypes, Pendings
<1> QED
  BY <1>1, <1>2 DEF DialogInv, DialogTypes, Anchor

\* A reply with the conversation left as it is, or over.
LEMMA RepliesStep ==
    ASSUME DialogInv, Ends(0) \/ ReplyThrows(0), pending' \in {pending, NoPending},
           UNCHANGED <<inputs, nonces, scheduled, events>>
    PROVE  DialogInv'
<1>1. current' \in Nat \ {0} /\ offeredCards' \subseteq Nat
  BY EndsMove
<1>2. pending' \in Pendings /\ PendingInv'
  BY PendingForms DEF PendingInv
<1> QED
  BY <1>1, <1>2, PendingForms, DialogMoves

LEMMA AskStep ==
    ASSUME DialogInv, UNCHANGED inputs,
           \/ AskAndArm
           \/ \E ask \in {"channel", "draft", "meeting"}, body \in {0, NewNonce}, one \in BOOLEAN :
                  (ask = "meeting" => body = NewNonce) /\ AskWithCard(ask, body, one)
    PROVE  DialogInv'
<1>1. CASE AskAndArm
  <2>1. /\ Ends(0) /\ UNCHANGED <<nonces, scheduled, events>>
        /\ \/ pending' = NoPending
           \/ /\ pending.turns + 1 <= MaxClarifyTurns
              /\ pending' = [NoPending EXCEPT !.ask = "free", !.turns = pending.turns + 1,
                                              !.anchor = Anchor]
    BY <1>1, DialogLimits, PendingForms DEF AskAndArm, Pendings
  <2>2. pending.turns + 1 \in Nat
    BY PendingForms DEF Pendings
  <2>3. pending' \in Pendings /\ PendingInv'
    <3>1. CASE pending' = NoPending
      BY <3>1, PendingForms DEF PendingInv
    <3>2. CASE pending' = [NoPending EXCEPT !.ask = "free", !.turns = pending.turns + 1,
                                            !.anchor = Anchor]
      BY <2>2, <3>2, PendingForms DEF PendingInv, Pendings, NoPending
    <3> QED
      BY <2>1, <3>1, <3>2
  <2> QED
    BY <2>1, <2>3, PendingForms, EndsMove, DialogMoves
<1>2. ASSUME NEW ask \in {"channel", "draft", "meeting"}, NEW body \in {0, NewNonce},
             NEW one \in BOOLEAN, ask = "meeting" => body = NewNonce, AskWithCard(ask, body, one)
      PROVE  DialogInv'
  <2>1. /\ nonces' = NewNonce /\ NewNonce \in Nat /\ Ends(NewNonce)
        /\ UNCHANGED <<scheduled, events>>
        /\ pending' = [ask |-> ask, turns |-> pending.turns, anchor |-> Anchor,
                       nonce |-> NewNonce, body |-> body, channel |-> one]
    BY <1>2, PendingForms DEF AskWithCard, Arm, NewNonce
  <2>2. pending.turns \in Nat /\ body \in Nat /\ Anchor \in Nat
    BY <2>1, PendingForms DEF Pendings
  <2> HIDE DEF NewNonce
  <2>3. pending' \in Pendings /\ PendingInv'
    BY <1>2, <2>1, <2>2 DEF PendingInv, Pendings
  <2> QED
    BY <2>1, <2>3, PendingForms, EndsMove, DialogMoves
<1> QED
  BY <1>1, <1>2

\* A reminder is made of words of the founder's or of a body that was tapped.
LEMMA FinalizeStep ==
    ASSUME DialogInv, UNCHANGED inputs, NEW body \in Nat, Finalize(body),
           body = 0 \/ TappedOn(body, {"approve", "channel"})
    PROVE  DialogInv'
<1>1. /\ UNCHANGED <<nonces, events>> /\ pending' \in {pending, NoPending}
      /\ Ends(0) \/ ReplyThrows(0)
      /\ Create(body) \/ UNCHANGED scheduled
  BY DEF Finalize, Ends
<1>2. pending' \in Pendings /\ PendingInv'
  BY <1>1, PendingForms DEF PendingInv
<1>3. current' \in Nat \ {0} /\ offeredCards' \subseteq Nat
  BY <1>1, EndsMove
<1>4. /\ scheduled' \in [Anchors -> ShownBodies]
      /\ \A a \in Anchors : scheduled'[a] = scheduled[a] \/ scheduled'[a].body = body
  <2>1. CASE UNCHANGED scheduled
    BY <2>1, PendingForms
  <2>2. CASE Create(body)
    <3> DEFINE entry == [made |-> TRUE, body |-> body]
    <3>1. entry \in ShownBodies /\ entry.body = body
      BY DEF ShownBodies
    <3> HIDE DEF entry
    <3>2. scheduled' = [scheduled EXCEPT ![Anchor] = IF scheduled[Anchor].made THEN scheduled[Anchor]
                                                     ELSE entry]
      BY <2>2 DEF Create, entry
    <3> HIDE DEF Anchor, Anchors
    <3> QED
      BY <3>1, <3>2, PendingForms
  <2> QED
    BY <1>1, <2>1, <2>2
<1> HIDE DEF TappedOn
<1>5. \A a \in Anchors : \/ scheduled'[a] = scheduled[a]
                         \/ scheduled'[a].body = 0
                         \/ TappedOn(scheduled'[a].body, {"approve", "channel"})
  BY <1>4
<1> QED
  BY <1>1, <1>2, <1>3, <1>4, <1>5, PendingForms, DialogMoves

LEMMA ChannelStep == ASSUME DialogInv, UNCHANGED inputs, ResolveChannel PROVE DialogInv'
<1>1. CASE Finalize(0)
  BY <1>1, FinalizeStep
<1>2. CASE AskWithCard("channel", 0, FALSE)
  BY <1>2, AskStep
<1>3. CASE Refuse
  <2>1. Ends(0) /\ pending' = NoPending /\ UNCHANGED <<nonces, scheduled, events>>
    BY <1>3 DEF Refuse
  <2> QED
    BY <2>1, RepliesStep
<1> QED
  BY <1>1, <1>2, <1>3 DEF ResolveChannel

LEMMA TextStep ==
    ASSUME DialogInv, TakesReplacement \/ PassesOn \/ Interprets
    PROVE  DialogInv'
<1>1. UNCHANGED inputs
  BY DEF TakesReplacement, PassesOn, Interprets
<1>2. ASSUME Refuse PROVE DialogInv'
  <2>1. Ends(0) /\ pending' = NoPending /\ UNCHANGED <<nonces, scheduled, events>>
    BY <1>2 DEF Refuse
  <2> QED
    BY <1>1, <2>1, RepliesStep
<1>3. CASE PassesOn
  BY <1>1, <1>3, RepliesStep DEF PassesOn
<1>4. CASE TakesReplacement
  BY <1>1, <1>2, <1>4, FinalizeStep, ChannelStep DEF TakesReplacement
<1>5. CASE Interprets
  <2>1. \/ AskAndArm \/ Refuse \/ ResolveChannel
        \/ AskWithCard("meeting", NewNonce, FALSE)
        \/ \E one \in BOOLEAN : AskWithCard("draft", NewNonce, one)
    BY <1>5 DEF Interprets
  <2>2. CASE AskWithCard("meeting", NewNonce, FALSE)
    BY <1>1, <2>2, AskStep
  <2>3. ASSUME NEW one \in BOOLEAN, AskWithCard("draft", NewNonce, one) PROVE DialogInv'
    BY <1>1, <2>3, AskStep
  <2> QED
    BY <1>1, <1>2, <2>1, <2>2, <2>3, AskStep, ChannelStep
<1> QED
  BY <1>3, <1>4, <1>5

\* A card is tapped, for what it shows.
LEMMA TapStep ==
    ASSUME DialogInv, TapExpires \/ TapsCancel \/ TapsEdit \/ TapsApprove \/ TapsBook \/ TapsOther
    PROVE  DialogInv'
<1>1. UNCHANGED inputs
  BY DEF TapExpires, TapsCancel, TapsEdit, TapsApprove, TapsBook, TapsOther
<1>2. ASSUME Refuse PROVE DialogInv'
  <2>1. Ends(0) /\ pending' = NoPending /\ UNCHANGED <<nonces, scheduled, events>>
    BY <1>2 DEF Refuse
  <2> QED
    BY <1>1, <2>1, RepliesStep
<1>3. ASSUME NEW t \in CardTaps, CardTapped(t), NEW taps, t \in taps, pending.body = pending.nonce
      PROVE  TappedOn(pending.body, taps)
  <2>1. current \in Nat \ {0} /\ inputs \in Seq(Inputs)
    BY DEF DialogInv, DialogTypes
  <2>2. current \in 1..Len(inputs) /\ inputs[current].nonce = pending.nonce /\ inputs[current].tap = t
    BY <1>3, <2>1 DEF CardTapped, Handling, Asked
  <2> QED
    BY <1>3, <2>2 DEF TappedOn
<1>4. CASE TapExpires \/ TapsOther
  BY <1>1, <1>4, RepliesStep DEF TapExpires, TapsOther
<1>5. CASE TapsCancel
  BY <1>2, <1>5 DEF TapsCancel
<1>6. CASE TapsEdit
  <2>1. pending' = [pending EXCEPT !.ask = "edit"] /\ Ends(0) /\ UNCHANGED <<nonces, scheduled, events>>
    BY <1>6 DEF TapsEdit
  <2>2. pending' \in Pendings /\ PendingInv'
    BY <2>1, PendingForms DEF PendingInv, Pendings
  <2> QED
    BY <1>1, <2>1, <2>2, PendingForms, EndsMove, DialogMoves
<1>7. CASE TapsApprove
  <2>1. CardTapped("approve") \/ CardTapped("channel")
    BY <1>7 DEF TapsApprove
  <2>2. CASE Finalize(pending.body)
    <3>1. pending.body = 0 \/ TappedOn(pending.body, {"approve", "channel"})
      BY <1>3, <2>1, PendingForms DEF PendingInv, CardTaps
    <3>2. pending.body \in Nat
      BY PendingForms DEF Pendings
    <3> QED
      BY <1>1, <2>2, <3>1, <3>2, FinalizeStep
  <2> QED
    BY <1>2, <1>7, <2>2 DEF TapsApprove
<1>8. CASE TapsBook
  <2>1. /\ CardTapped("book") /\ pending.ask = "meeting"
        /\ Book(pending.anchor) \/ UNCHANGED events
        /\ UNCHANGED <<nonces, scheduled>>
    BY <1>8 DEF TapsBook
  <2>2. pending' \in {pending, NoPending} /\ (Ends(0) \/ ReplyThrows(0))
    BY <1>8 DEF TapsBook, Ends
  <2>3. pending' \in Pendings /\ PendingInv'
    BY <2>2, PendingForms DEF PendingInv
  <2>4. TappedOn(pending.body, {"book"})
    BY <1>3, <2>1, PendingForms DEF PendingInv, CardTaps
  <2>5. /\ events' \in [Anchors -> ShownBodies]
        /\ \A a \in Anchors : events'[a] = events[a] \/ events'[a].body = pending.body
    <3>1. CASE UNCHANGED events
      BY <3>1, PendingForms
    <3>2. CASE Book(pending.anchor)
      <4> DEFINE entry == [made |-> TRUE, body |-> pending.body]
                 a0 == pending.anchor
      <4>1. entry \in ShownBodies /\ entry.body = pending.body
        BY PendingForms DEF ShownBodies, Pendings
      <4> HIDE DEF entry
      <4>2. events' = [events EXCEPT ![a0] = IF events[a0].made THEN events[a0] ELSE entry]
        BY <3>2 DEF Book, entry
      <4> HIDE DEF a0, Anchors
      <4> QED
        BY <4>1, <4>2, PendingForms
    <3> QED
      BY <2>1, <3>1, <3>2
  <2>6. current' \in Nat \ {0} /\ offeredCards' \subseteq Nat
    BY <2>2, EndsMove
  <2> HIDE DEF TappedOn
  <2>7. \A a \in Anchors : events'[a] = events[a] \/ TappedOn(events'[a].body, {"book"})
    BY <2>4, <2>5
  <2> QED
    BY <1>1, <2>1, <2>3, <2>5, <2>6, <2>7, PendingForms, DialogMoves
<1> QED
  BY <1>4, <1>5, <1>6, <1>7, <1>8

\* DialogInv is an invariant.
LEMMA DialogInductive == DialogSpec => []DialogInv
<1>1. DialogInit => DialogInv
  <2> SUFFICES ASSUME DialogInit PROVE DialogInv
    OBVIOUS
  <2>1. NoPending \in Pendings /\ NoPending.body = 0 /\ NoPending.ask = "none"
    BY DEF NoPending, Pendings
  <2>2. None \in ShownBodies /\ None.body = 0 /\ None.made = FALSE
    BY DEF None, ShownBodies
  <2>3. DialogTypes /\ PendingInv
    BY <2>1, <2>2 DEF DialogInit, DialogTypes, PendingInv
  <2>4. ActsAsShown
    BY <2>2 DEF DialogInit, ActsAsShown
  <2> QED
    BY <2>3, <2>4 DEF DialogInv
<1>2. DialogInv /\ [DialogNext]_dialogVars => DialogInv'
  <2> SUFFICES ASSUME DialogInv, [DialogNext]_dialogVars PROVE DialogInv'
    OBVIOUS
  <2>1. CASE PendingLapses
    <3>1. pending' = NoPending /\ UNCHANGED <<inputs, current, nonces, offeredCards, scheduled, events>>
      BY <2>1 DEF PendingLapses
    <3>2. pending' \in Pendings /\ PendingInv'
      BY <3>1, PendingForms DEF PendingInv
    <3>3. current \in Nat \ {0} /\ offeredCards \subseteq Nat
      BY DEF DialogInv, DialogTypes
    <3> QED
      BY <3>1, <3>2, <3>3, PendingForms, DialogMoves
  <2>2. CASE UNCHANGED dialogVars
    BY <2>2 DEF dialogVars, DialogInv, DialogTypes, PendingInv, ActsAsShown, TappedOn
  <2> QED
    BY <2>1, <2>2, InputStep, TextStep, TapStep DEF DialogNext
<1> QED
  BY <1>1, <1>2, PTL DEF DialogSpec

\* Nothing the model wrote is scheduled and nobody is invited but as shown on a card
\* the founder tapped for that: what is pending is the founder's own words or the body
\* of its own card, and a tap is honoured for the card it was made on.
THEOREM NothingUnseenIsSent == DialogSpec => []ActsAsShown
<1>1. DialogInv => ActsAsShown
  BY DEF DialogInv
<1> QED
  BY <1>1, DialogInductive, PTL

\* A sequence is of what its entries are.
LEMMA EntriesAre ==
    ASSUME NEW S, NEW T, NEW s \in Seq(S), \A i \in 1..Len(s) : s[i] \in T
    PROVE  s \in Seq(T)
OBVIOUS

\* What a conversation in hand may hold.
ToldBounds(p) ==
    /\ p.turns <= MaxClarifyTurns /\ p.anchor <= Founded
    /\ p.nonce <= MaxNonce /\ p.body <= MaxNonce

\* The inputs, what is answered and the cards that were offered.
ReplyBounds ==
    /\ Len(inputs) <= Founded /\ current <= Founded + 1
    /\ \A u \in 1..Len(inputs) : inputs[u].nonce <= MaxNonce
    /\ offeredCards \subseteq Nonces
    /\ throws \in 0..MaxThrows

MadeBounds ==
    /\ \A a \in Anchors : scheduled[a].body <= MaxNonce
    /\ \A a \in Anchors : events[a].body <= MaxNonce

DialogBounds == ReplyBounds /\ ToldBounds(pending) /\ nonces <= MaxNonce /\ MadeBounds

LEMMA DialogNumbers ==
    ASSUME DialogInv
    PROVE  /\ MaxClarifyTurns \in Nat \ {0} /\ Founded \in Nat /\ MaxNonce \in Nat /\ MaxThrows \in Nat
           /\ inputs \in Seq(Inputs) /\ Len(inputs) \in Nat /\ current \in Nat \ {0} /\ nonces \in Nat
           /\ pending \in Pendings /\ pending.turns \in Nat /\ pending.anchor \in Nat
           /\ pending.nonce \in Nat /\ pending.body \in Nat
           /\ ToldBounds(NoPending)
BY DialogLimits DEF DialogInv, DialogTypes, Pendings, ToldBounds, NoPending

LEMMA EndsBounds ==
    ASSUME DialogInv, DialogBounds, UNCHANGED inputs, current <= Len(inputs),
           NEW card \in 0..MaxNonce, Ends(card) \/ ReplyThrows(card)
    PROVE  ReplyBounds'
<1>0. /\ MaxNonce \in Nat /\ MaxThrows \in Nat /\ Founded \in Nat /\ Len(inputs) \in Nat /\ current \in Nat
  BY DialogNumbers
<1>1. current' \in {current, current + 1}
  BY DEF Ends, Replies, ReplyThrows
<1>2. offeredCards' \in {offeredCards, IF card = 0 THEN offeredCards ELSE offeredCards \cup {card}}
  BY DEF Ends, Replies, ReplyThrows
<1>3. UNCHANGED throws \/ (throws < MaxThrows /\ throws' = throws + 1)
  BY DEF Ends, Replies, ReplyThrows
<1>4. offeredCards' \subseteq Nonces
  BY <1>0, <1>2 DEF DialogBounds, ReplyBounds, Nonces
<1>5. throws' \in 0..MaxThrows
  BY <1>0, <1>3 DEF DialogBounds, ReplyBounds
<1>6. current' <= Founded + 1
  BY <1>0, <1>1 DEF DialogBounds, ReplyBounds
<1> QED
  BY <1>4, <1>5, <1>6 DEF DialogBounds, ReplyBounds

\* The conversation is over, stays, or is asked on.
LEMMA StaysBounds ==
    ASSUME DialogInv, DialogBounds, UNCHANGED <<inputs, nonces, scheduled, events>>, current <= Len(inputs),
           Ends(0) \/ ReplyThrows(0), ToldBounds(pending')
    PROVE  DialogBounds'
<1>1. ReplyBounds'
  BY EndsBounds, DialogNumbers
<1>2. MadeBounds'
  BY DEF DialogBounds, MadeBounds
<1>3. ToldBounds(pending)'
  BY DEF ToldBounds
<1> QED
  BY <1>1, <1>2, <1>3 DEF DialogBounds

LEMMA AnchorBounds ==
    ASSUME DialogInv, DialogBounds, current <= Len(inputs)
    PROVE  Anchor \in Nat /\ Anchor <= Founded
<1>1. current <= Founded
  BY DialogNumbers DEF DialogBounds, ReplyBounds
<1> QED
  BY <1>1, DialogNumbers DEF Anchor, DialogBounds, ToldBounds

LEMMA AskBounds ==
    ASSUME DialogInv, DialogBounds, UNCHANGED inputs, current <= Len(inputs),
           AskAndArm \/ Refuse \/ \E ask, one : \E body \in {0, NewNonce} : AskWithCard(ask, body, one)
    PROVE  DialogBounds'
<1>0. Anchor \in Nat /\ Anchor <= Founded
  BY AnchorBounds
<1>1. CASE AskAndArm
  <2>1. \/ pending' = NoPending
        \/ /\ pending.turns + 1 <= MaxClarifyTurns
           /\ pending' = [NoPending EXCEPT !.ask = "free", !.turns = pending.turns + 1, !.anchor = Anchor]
    BY <1>1, DialogNumbers DEF AskAndArm
  <2> DEFINE p == [NoPending EXCEPT !.ask = "free", !.turns = pending.turns + 1, !.anchor = Anchor]
  <2>2. p.turns = pending.turns + 1 /\ p.anchor = Anchor /\ p.nonce = 0 /\ p.body = 0
    BY DEF NoPending
  <2>3. pending.turns + 1 <= MaxClarifyTurns => ToldBounds(p)
    BY <1>0, <2>2, DialogNumbers DEF ToldBounds
  <2> HIDE DEF p
  <2>4. ToldBounds(pending')
    BY <2>1, <2>3, DialogNumbers DEF p
  <2> QED
    BY <1>1, <2>4, StaysBounds DEF AskAndArm
<1>2. CASE Refuse
  BY <1>2, DialogNumbers, StaysBounds DEF Refuse
<1>3. ASSUME NEW ask, NEW body \in {0, NewNonce}, NEW one, AskWithCard(ask, body, one)
      PROVE  DialogBounds'
  <2> DEFINE p == [ask |-> ask, turns |-> pending.turns, anchor |-> Anchor, nonce |-> NewNonce,
                   body |-> body, channel |-> one]
  <2>1. pending' = p /\ nonces < MaxNonce /\ nonces' = NewNonce /\ Ends(NewNonce) /\ UNCHANGED <<scheduled, events>>
    BY <1>3 DEF AskWithCard, Arm
  <2>2. NewNonce \in 0..MaxNonce /\ nonces' <= MaxNonce /\ 0 <= MaxNonce
    BY <2>1, DialogNumbers DEF NewNonce
  <2> HIDE DEF NewNonce
  <2>3. ToldBounds(p)
    BY <1>0, <1>3, <2>2, DialogNumbers DEF ToldBounds, DialogBounds
  <2> HIDE DEF p
  <2>4. ToldBounds(pending)'
    BY <2>1, <2>3 DEF ToldBounds
  <2>5. ReplyBounds'
    BY <2>1, <2>2, EndsBounds
  <2>6. MadeBounds'
    BY <2>1 DEF DialogBounds, MadeBounds
  <2> QED
    BY <2>2, <2>4, <2>5, <2>6 DEF DialogBounds
<1> QED
  BY <1>1, <1>2, <1>3

LEMMA FinalizeBounds ==
    ASSUME DialogInv, DialogBounds, UNCHANGED inputs, current <= Len(inputs),
           NEW body \in 0..MaxNonce, Finalize(body)
    PROVE  DialogBounds'
<1>1. /\ UNCHANGED <<nonces, events>> /\ pending' \in {pending, NoPending}
      /\ Ends(0) \/ ReplyThrows(0)
      /\ Create(body) \/ UNCHANGED scheduled
  BY DEF Finalize, Ends
<1>2. ReplyBounds'
  BY <1>1, EndsBounds, DialogNumbers
<1>3. ToldBounds(pending)'
  BY <1>1, DialogNumbers DEF DialogBounds, ToldBounds
<1>4. MadeBounds'
  <2> DEFINE entry == [made |-> TRUE, body |-> body]
  <2>1. entry.body <= MaxNonce
    BY DialogNumbers
  <2> HIDE DEF entry
  <2>2. \/ UNCHANGED scheduled
        \/ scheduled' = [scheduled EXCEPT ![Anchor] = IF scheduled[Anchor].made THEN scheduled[Anchor] ELSE entry]
    BY <1>1 DEF Create, entry
  <2> HIDE DEF Anchor, Anchors
  <2>3. \A a \in Anchors : scheduled'[a] = scheduled[a] \/ scheduled'[a] = entry
    BY <2>2, PendingForms
  <2> QED
    BY <1>1, <2>1, <2>3 DEF DialogBounds, MadeBounds
<1> QED
  BY <1>1, <1>2, <1>3, <1>4 DEF DialogBounds

LEMMA DialogBoundsStep ==
    ASSUME DialogInv, DialogBounds, [DialogNext]_dialogVars
    PROVE  DialogBounds'
<1>0. 0 \in 0..MaxNonce
  BY DialogNumbers
<1>1. CASE Writes \/ Presses
  <2>1. PICK n \in 0..MaxNonce, t \in CardTaps \cup {"text"} : inputs' = Append(inputs, [tap |-> t, nonce |-> n])
    <3>1. offeredCards \subseteq 0..MaxNonce
      BY DialogNumbers DEF DialogBounds, ReplyBounds, Nonces
    <3> QED
      BY <1>0, <1>1, <3>1 DEF Writes, Presses
  <2> DEFINE i == [tap |-> t, nonce |-> n]
  <2>2. i.nonce <= MaxNonce /\ i \in Inputs
    BY <2>1, DialogNumbers DEF Inputs
  <2>3. /\ inputs' = Append(inputs, i) /\ Len(inputs) < Founded
        /\ UNCHANGED <<current, pending, nonces, offeredCards, scheduled, events, throws>>
    BY <1>1, <2>1 DEF Writes, Presses
  <2> HIDE DEF i
  <2>4. /\ Len(inputs') = Len(inputs) + 1
        /\ \A u \in 1..Len(inputs') : (u \in 1..Len(inputs) /\ inputs'[u] = inputs[u]) \/ inputs'[u] = i
    BY <2>2, <2>3, DialogNumbers
  <2>5. ReplyBounds'
    BY <2>2, <2>3, <2>4, DialogNumbers DEF DialogBounds, ReplyBounds
  <2>6. MadeBounds' /\ ToldBounds(pending)'
    BY <2>3 DEF DialogBounds, MadeBounds, ToldBounds
  <2> QED
    BY <2>3, <2>5, <2>6 DEF DialogBounds
<1>2. CASE PendingLapses \/ UNCHANGED dialogVars
  <2>1. /\ pending' \in {pending, NoPending}
        /\ UNCHANGED <<inputs, current, nonces, offeredCards, scheduled, events, throws>>
    BY <1>2 DEF PendingLapses, dialogVars
  <2>2. ToldBounds(pending)'
    BY <2>1, DialogNumbers DEF DialogBounds, ToldBounds
  <2> QED
    BY <2>1, <2>2 DEF DialogBounds, ReplyBounds, MadeBounds
<1>3. ASSUME current <= Len(inputs), UNCHANGED inputs, ResolveChannel PROVE DialogBounds'
  <2>1. Finalize(0) \/ Refuse \/ \E ask, one : \E body \in {0, NewNonce} : AskWithCard(ask, body, one)
    BY <1>3, Zenon DEF ResolveChannel
  <2> QED
    BY <1>0, <1>3, <2>1, FinalizeBounds, AskBounds
<1>4. CASE TakesReplacement
  BY <1>0, <1>3, <1>4, FinalizeBounds, AskBounds DEF TakesReplacement, Handling
<1>5. CASE Interprets
  <2>1. \/ AskAndArm \/ Refuse \/ ResolveChannel
        \/ \E ask, one : \E body \in {0, NewNonce} : AskWithCard(ask, body, one)
    BY <1>5, Zenon DEF Interprets
  <2>2. current <= Len(inputs) /\ UNCHANGED inputs
    BY <1>5 DEF Interprets, Handling
  <2> QED
    BY <1>3, <2>1, <2>2, AskBounds
<1>6. ToldBounds(pending)
  BY DEF DialogBounds
<1>7. CASE PassesOn \/ TapExpires \/ TapsOther
  <2>1. pending' = pending /\ current <= Len(inputs) /\ Ends(0) /\ UNCHANGED <<inputs, nonces, scheduled, events>>
    BY <1>7 DEF PassesOn, TapExpires, TapsOther, Handling
  <2> QED
    BY <1>6, <2>1, StaysBounds
<1>8. CASE TapsCancel
  BY <1>8, AskBounds DEF TapsCancel, CardTapped, Handling
<1>9. CASE TapsEdit
  <2>1. ToldBounds([pending EXCEPT !.ask = "edit"])
    BY <1>6, DialogNumbers DEF ToldBounds, Pendings
  <2> QED
    BY <1>9, <2>1, StaysBounds DEF TapsEdit, CardTapped, Handling
<1>10. CASE TapsApprove
  <2>1. pending.body \in 0..MaxNonce
    BY <1>6, DialogNumbers DEF ToldBounds
  <2>2. current <= Len(inputs) /\ UNCHANGED inputs
    BY <1>10 DEF TapsApprove, CardTapped, Handling
  <2> QED
    BY <1>10, <2>1, <2>2, FinalizeBounds, AskBounds DEF TapsApprove
<1>11. CASE TapsBook
  <2>1. /\ current <= Len(inputs) /\ UNCHANGED <<inputs, nonces, scheduled>>
        /\ Book(pending.anchor) \/ UNCHANGED events
        /\ pending' \in {pending, NoPending} /\ (Ends(0) \/ ReplyThrows(0))
    BY <1>11 DEF TapsBook, CardTapped, Handling, Ends
  <2>2. ReplyBounds'
    BY <1>0, <2>1, EndsBounds
  <2>3. ToldBounds(pending)'
    BY <2>1, DialogNumbers DEF DialogBounds, ToldBounds
  <2>4. MadeBounds'
    <3> DEFINE entry == [made |-> TRUE, body |-> pending.body]
               a0 == pending.anchor
    <3>1. entry.body <= MaxNonce
      BY <1>6 DEF ToldBounds
    <3> HIDE DEF entry
    <3>2. \/ UNCHANGED events
          \/ events' = [events EXCEPT ![a0] = IF events[a0].made THEN events[a0] ELSE entry]
      BY <2>1 DEF Book, entry
    <3> HIDE DEF a0, Anchors
    <3>3. \A a \in Anchors : events'[a] = events[a] \/ events'[a] = entry
      BY <3>2, PendingForms
    <3> QED
      BY <2>1, <3>1, <3>3 DEF DialogBounds, MadeBounds
  <2> QED
    BY <2>1, <2>2, <2>3, <2>4 DEF DialogBounds
<1> QED
  BY <1>1, <1>2, <1>4, <1>5, <1>7, <1>8, <1>9, <1>10, <1>11 DEF DialogNext

\* What the founder taps and writes, what is pending of it and what comes of it stay what
\* they are, and no conversation goes past the clarifying questions it may ask.
THEOREM DialogTypesHold == DialogSpec => []DialogTypeOK
<1>1. DialogInit => DialogBounds
  <2>1. DialogInit => ToldBounds(NoPending) /\ 0 \in 0..MaxThrows
    BY DialogLimits DEF ToldBounds, NoPending
  <2> QED
    BY <2>1, DialogLimits DEF DialogInit, DialogBounds, ReplyBounds, MadeBounds, None
<1>2. DialogInv /\ DialogBounds /\ [DialogNext]_dialogVars => DialogBounds'
  BY DialogBoundsStep
<1>3. DialogInv /\ DialogBounds => DialogTypeOK
  <2> SUFFICES ASSUME DialogInv, DialogBounds PROVE DialogTypeOK
    OBVIOUS
  <2>1. inputs \in Seq([tap : CardTaps \cup {"text"}, nonce : 0..MaxNonce])
    <3>1. \A u \in 1..Len(inputs) : inputs[u] \in [tap : CardTaps \cup {"text"}, nonce : 0..MaxNonce]
      <4>1. \A i \in Inputs : i.nonce <= MaxNonce => i \in [tap : CardTaps \cup {"text"}, nonce : 0..MaxNonce]
        BY DialogNumbers DEF Inputs
      <4> QED
        BY <4>1, DialogNumbers DEF DialogBounds, ReplyBounds
    <3> DEFINE I == [tap : CardTaps \cup {"text"}, nonce : 0..MaxNonce]
    <3> HIDE DEF I
    <3>2. inputs \in Seq(I)
      BY <3>1, DialogNumbers, EntriesAre DEF I
    <3> QED
      BY <3>2 DEF I
  <2>2. pending \in [ask : {"none", "free", "channel", "draft", "edit", "meeting"},
                     turns : 0..MaxClarifyTurns, anchor : 0..Founded, nonce : 0..MaxNonce,
                     body : 0..MaxNonce, channel : BOOLEAN]
    BY DialogNumbers DEF DialogBounds, ToldBounds, Pendings
  <2>3. /\ scheduled \in [Anchors -> [made : BOOLEAN, body : 0..MaxNonce]]
        /\ events \in [Anchors -> [made : BOOLEAN, body : 0..MaxNonce]]
    <3>1. \A r \in ShownBodies : r.body <= MaxNonce => r \in [made : BOOLEAN, body : 0..MaxNonce]
      BY DialogNumbers DEF ShownBodies
    <3> QED
      BY <3>1, PendingForms DEF DialogBounds, MadeBounds
  <2> QED
    BY <2>1, <2>2, <2>3, DialogNumbers DEF DialogTypeOK, DialogBounds, ReplyBounds
<1> QED
  BY <1>1, <1>2, <1>3, DialogInductive, PTL DEF DialogSpec

===============================================================================
