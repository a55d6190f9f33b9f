----------------------------- MODULE MeetingProofs -----------------------------
(***************************************************************************)
(* Theorems about Meeting for any number of requests, callers and slots: a  *)
(* request ends as a booked meeting or as one task, whoever races for it.    *)
(***************************************************************************)
EXTENDS Meeting, TLAPS

\* The rows of a request that was given up stay so.
GivenUp == {"fallback_pending", "fallback_creating", "failed"}

\* Where a row can be while somebody is booking it: it was claimed, and perhaps
\* given up or dismissed since.
BeingBooked == GivenUp \cup {"creating", "abandoned"}

\* The stages of a caller that has claimed the row to book it, or to make its task,
\* and the ones that carry the slot to book.
Holding == {"create", "release", "mark"}
Minting == {"mint", "complete", "queue"}
WithSlot == {"recheck", "typed", "book", "confirm"} \cup Holding

\* A caller works on a request, with what its stage needs.
CallSound(c) == call[c].at # "idle" =>
    /\ call[c].on \in Meetings
    /\ call[c].at \in WithSlot => call[c].slot \in Slots
    /\ call[c].at \in Holding => meeting[On(c)] \in BeingBooked
    /\ call[c].at \in Minting => meeting[On(c)] \in GivenUp
    /\ call[c].at \in {"mark", "confirm"} => booked[On(c)] # NoSlot

\* Two callers never book the same request at a time.
OneHolder == \A c, d \in Callers :
    c # d /\ call[c].at \in Holding /\ call[d].at \in Holding => On(c) # On(d)

\* What a request's row says of the calendar, the portal and the customer.
RowSound(m) ==
    /\ minted[m] <= 1
    /\ minted[m] > 0 => meeting[m] \in GivenUp
    /\ meeting[m] = "scheduled" => booked[m] # NoSlot
    /\ confirmed[m] # NoSlot => booked[m] # NoSlot

\* The whole inductive invariant.
MeetingInv ==
    /\ MeetingTypeOK /\ OneHolder
    /\ \A c \in Callers : CallSound(c)
    /\ \A m \in Meetings : RowSound(m)

USE SlotsAssumption, MeetingBounds

-----------------------------------------------------------------------------
(* What a step does to the caller that takes it.                             *)

Calls == [at : CallStage, on : Meetings \cup {"none"}, slot : Slots \cup {NoSlot}]

\* What a run of the scheduler is made of, and what its steps leave of it.
LEMMA CallTypes ==
    ASSUME MeetingTypeOK
    PROVE  /\ call \in [Callers -> Calls]
           /\ \A c \in Callers : /\ call[c].at \in CallStage /\ call[c].on \in Meetings \cup {"none"}
                                 /\ call[c].slot \in Slots \cup {NoSlot}
<1>1. call \in [Callers -> Calls]
  BY DEF MeetingTypeOK, Calls
<1>2. \A k \in Calls : /\ k.at \in CallStage /\ k.on \in Meetings \cup {"none"}
                       /\ k.slot \in Slots \cup {NoSlot}
  BY DEF Calls
<1> QED
  BY <1>1, <1>2

\* Caller c is left at a stage with a request and a slot; nobody else moves.
CallLeft(c, stage, m, s) ==
    /\ call' \in [Callers -> Calls]
    /\ call'[c].at = stage /\ call'[c].on = m /\ call'[c].slot = s
    /\ \A d \in Callers \ {c} : call'[d] = call[d]

LEMMA GoesIs ==
    ASSUME MeetingTypeOK, NEW c \in Callers, NEW stage \in CallStage, CallGoes(c, stage)
    PROVE  CallLeft(c, stage, call[c].on, call[c].slot)
<1>1. call \in [Callers -> Calls]
  BY CallTypes
<1>2. \A k \in Calls : LET r == [k EXCEPT !.at = stage]
                       IN  r \in Calls /\ r.at = stage /\ r.on = k.on /\ r.slot = k.slot
  BY DEF Calls
<1>3. call' = [call EXCEPT ![c] = [call[c] EXCEPT !.at = stage]]
  BY <1>1 DEF CallGoes
<1> QED
  BY <1>1, <1>2, <1>3 DEF CallLeft

LEMMA ReturnIs ==
    ASSUME MeetingTypeOK, NEW c \in Callers, Return(c)
    PROVE  CallLeft(c, "idle", "none", NoSlot)
<1>1. call \in [Callers -> Calls]
  BY CallTypes
<1>2. NoCall \in Calls /\ NoCall.at = "idle" /\ NoCall.on = "none" /\ NoCall.slot = NoSlot
  BY DEF Calls, NoCall, CallStage
<1> QED
  BY <1>1, <1>2 DEF CallLeft, Return

LEMMA BeginIs ==
    ASSUME MeetingTypeOK, NEW c \in Callers, NEW stage \in CallStage, NEW m \in Meetings,
           NEW s \in Slots \cup {NoSlot}, Begin(c, stage, m, s)
    PROVE  CallLeft(c, stage, m, s)
<1>1. call \in [Callers -> Calls]
  BY CallTypes
<1> DEFINE k == [at |-> stage, on |-> m, slot |-> s]
<1>2. k \in Calls /\ k.at = stage /\ k.on = m /\ k.slot = s
  BY DEF Calls
<1>3. call' = [call EXCEPT ![c] = k]
  BY DEF Begin
<1> HIDE DEF k
<1> QED
  BY <1>1, <1>2, <1>3 DEF CallLeft

-----------------------------------------------------------------------------
(* What a step may do to the rows.                                           *)

\* The rows keep their types, a request that was given up stays given up, and an
\* event stays in the calendar.
RowsFollow ==
    /\ meeting' \in [Meetings -> MeetingStatus]
    /\ linked' \in [Meetings -> BOOLEAN]
    /\ asked' \in [Meetings -> BOOLEAN]
    /\ outcomeOf' \in [Meetings -> {"open", "meeting", "task"}]
    /\ offered' \in [Meetings -> SUBSET Slots]
    /\ slotCard' \in [Meetings -> BOOLEAN]
    /\ booked' \in [Meetings -> Slots \cup {NoSlot}]
    /\ confirmed' \in [Meetings -> Slots \cup {NoSlot}]
    /\ minted' \in [Meetings -> Nat]
    /\ faults' \in 0..MaxFaults /\ answers' \in 0..MaxAnswers
    /\ \A m \in Meetings : meeting[m] \in GivenUp => meeting'[m] \in GivenUp
    /\ \A m \in Meetings : booked[m] # NoSlot => booked'[m] # NoSlot
    /\ \A m \in Meetings : RowSound(m)'

\* The callers that did not move stay sound, as long as nobody else took away the
\* row they are booking.
LEMMA BystanderSound ==
    ASSUME MeetingInv, RowsFollow, NEW d \in Callers, call'[d] = call[d],
           call[d].at \in Holding /\ meeting[On(d)] \in BeingBooked => meeting'[On(d)] \in BeingBooked
    PROVE  CallSound(d)'
<1>1. CallSound(d)
  BY DEF MeetingInv
<1> QED
  BY <1>1 DEF CallSound, RowsFollow, On

\* A step of the world: no caller moves, and no claimed row is opened.
LEMMA WorldKeeps ==
    ASSUME MeetingInv, RowsFollow, call' = call,
           \A m \in Meetings : meeting[m] \in BeingBooked => meeting'[m] \in BeingBooked
    PROVE  MeetingInv'
<1>1. MeetingTypeOK'
  BY CallTypes DEF MeetingInv, MeetingTypeOK, RowsFollow, Calls
<1>2. OneHolder'
  BY DEF MeetingInv, OneHolder, On
<1>3. ASSUME NEW d \in Callers PROVE CallSound(d)'
  <2>1. call[d].at \in Holding => call[d].on \in Meetings
    BY DEF MeetingInv, CallSound, Holding
  <2> QED
    BY <2>1, BystanderSound DEF On
<1> QED
  BY <1>1, <1>2, <1>3 DEF MeetingInv, RowsFollow

\* A step of a caller: it opens no row another one has claimed, and claims one
\* that was open.
LEMMA CallerKeeps ==
    ASSUME MeetingInv, RowsFollow, NEW c \in Callers, NEW stage \in CallStage, NEW m, NEW s,
           CallLeft(c, stage, m, s), CallSound(c)',
           \A n \in Meetings : meeting[n] \in BeingBooked /\ meeting'[n] \notin BeingBooked =>
                call[c].at \in Holding /\ call[c].on = n,
           stage \in Holding =>
                \/ call[c].at \in Holding /\ call[c].on = m
                \/ m \in Meetings /\ meeting[m] \notin BeingBooked
    PROVE  MeetingInv'
<1>1. MeetingTypeOK'
  BY DEF CallLeft, MeetingTypeOK, RowsFollow, Calls
<1>2. ASSUME NEW d \in Callers \ {c}
      PROVE  /\ call'[d] = call[d]
             /\ call[d].at \in Holding => call[d].on \in Meetings /\ meeting[call[d].on] \in BeingBooked
  <2>1. CallSound(d) /\ call'[d] = call[d]
    BY DEF MeetingInv, CallLeft
  <2> QED
    BY <2>1 DEF CallSound, Holding, On
<1>3. ASSUME NEW d \in Callers \ {c}, call[d].at \in Holding
      PROVE  meeting'[call[d].on] \in BeingBooked /\ (call'[c].at \in Holding => call'[c].on # call[d].on)
  <2>1. call[c].at \in Holding => call[c].on # call[d].on
    BY <1>3 DEF MeetingInv, OneHolder, On
  <2> QED
    BY <1>2, <1>3, <2>1 DEF CallLeft
<1>4. ASSUME NEW d \in Callers PROVE CallSound(d)'
  <2>1. CASE d = c
    BY <2>1
  <2>2. CASE d # c
    BY <1>2, <1>3, <2>2, BystanderSound DEF On
  <2> QED
    BY <2>1, <2>2
<1>5. OneHolder'
  <2>1. ASSUME NEW d \in Callers, NEW e \in Callers, d # e,
               call'[d].at \in Holding, call'[e].at \in Holding
        PROVE  call'[d].on # call'[e].on
    <3>1. CASE d = c
      BY <1>2, <1>3, <2>1, <3>1
    <3>2. CASE e = c
      BY <1>2, <1>3, <2>1, <3>2
    <3>3. CASE d # c /\ e # c
      BY <1>2, <2>1, <3>3 DEF MeetingInv, OneHolder, On
    <3> QED
      BY <3>1, <3>2, <3>3
  <2> QED
    BY <2>1 DEF OneHolder, On
<1> QED
  BY <1>1, <1>4, <1>5 DEF MeetingInv, RowsFollow

\* Nothing but bounds changes.
LEMMA RowsStayFollowed ==
    ASSUME MeetingInv, UNCHANGED <<requests, world>>,
           faults' \in 0..MaxFaults, answers' \in 0..MaxAnswers
    PROVE  RowsFollow
<1>1. /\ meeting' = meeting /\ linked' = linked /\ offered' = offered /\ asked' = asked
      /\ outcomeOf' = outcomeOf /\ slotCard' = slotCard /\ booked' = booked
      /\ confirmed' = confirmed /\ minted' = minted
  BY DEF requests, world
<1>2. \A m \in Meetings : RowSound(m)'
  BY <1>1 DEF MeetingInv, RowSound
<1> QED
  BY <1>1, <1>2 DEF MeetingInv, MeetingTypeOK, RowsFollow

\* A caller that is done with its request.
LEMMA ReturnKeeps ==
    ASSUME MeetingInv, RowsFollow, NEW c \in Callers, Return(c),
           \A n \in Meetings : meeting[n] \in BeingBooked /\ meeting'[n] \notin BeingBooked =>
                call[c].at \in Holding /\ call[c].on = n
    PROVE  MeetingInv'
<1>1. CallLeft(c, "idle", "none", NoSlot)
  BY ReturnIs DEF MeetingInv
<1>2. CallSound(c)'
  BY <1>1 DEF CallLeft, CallSound
<1>3. "idle" \in CallStage /\ "idle" \notin Holding
  BY DEF CallStage, Holding
<1> QED
  BY <1>1, <1>2, <1>3, CallerKeeps

\* A caller that goes on with its request, at a stage that finds what it needs.
LEMMA GoesKeeps ==
    ASSUME MeetingInv, RowsFollow, NEW c \in Callers, NEW stage \in CallStage \ {"idle"},
           CallGoes(c, stage), call[c].at # "idle",
           stage \in WithSlot => call[c].at \in WithSlot,
           stage \in Holding =>
                /\ call[c].at \in Holding \/ meeting[On(c)] \notin BeingBooked
                /\ meeting'[On(c)] \in BeingBooked,
           stage \in Minting => meeting'[On(c)] \in GivenUp,
           stage \in {"mark", "confirm"} => booked'[On(c)] # NoSlot,
           \A n \in Meetings : meeting[n] \in BeingBooked /\ meeting'[n] \notin BeingBooked =>
                call[c].at \in Holding /\ call[c].on = n
    PROVE  MeetingInv'
<1>1. CallLeft(c, stage, call[c].on, call[c].slot)
  BY GoesIs DEF MeetingInv
<1>2. call[c].on \in Meetings /\ (call[c].at \in WithSlot => call[c].slot \in Slots)
  BY DEF MeetingInv, CallSound
<1>3. CallSound(c)'
  BY <1>1, <1>2 DEF CallLeft, CallSound, On
<1> QED
  BY <1>1, <1>2, <1>3, CallerKeeps DEF On

\* A caller that takes on a request, and has claimed nothing yet.
LEMMA BeginKeeps ==
    ASSUME MeetingInv, RowsFollow, NEW c \in Callers, NEW m \in Meetings,
           NEW s \in Slots \cup {NoSlot},
           NEW stage \in {"link", "propose", "recheck", "typed", "giveUp"}, Begin(c, stage, m, s),
           stage \in WithSlot => s \in Slots,
           \A n \in Meetings : meeting[n] \in BeingBooked => meeting'[n] \in BeingBooked
    PROVE  MeetingInv'
<1>1. stage \in CallStage /\ stage \notin Holding \cup Minting \cup {"mark", "confirm"}
  BY DEF CallStage, Holding, Minting, Initiating
<1>2. CallLeft(c, stage, m, s)
  BY <1>1, BeginIs DEF MeetingInv
<1>3. CallSound(c)'
  BY <1>1, <1>2 DEF CallLeft, CallSound, On
<1> QED
  BY <1>1, <1>2, <1>3, CallerKeeps

\* What an invariant says of one caller.
LEMMA CallerFacts ==
    ASSUME MeetingInv, NEW c \in Callers
    PROVE  /\ MeetingTypeOK /\ (call[c].at # "idle" => On(c) \in Meetings)
           /\ call[c].at \in WithSlot => call[c].slot \in Slots
           /\ call[c].at \in Holding => meeting[On(c)] \in BeingBooked
           /\ call[c].at \in Minting => meeting[On(c)] \in GivenUp
           /\ call[c].at \in {"mark", "confirm"} => booked[On(c)] # NoSlot
BY DEF MeetingInv, CallSound, On, WithSlot, Holding, Minting

-----------------------------------------------------------------------------
(* The steps of the world and of triage.                                     *)

\* Only the status of one request changes, and stays possible beside the rest.
LEMMA StatusMoves ==
    ASSUME MeetingInv, NEW m \in Meetings, NEW to \in MeetingStatus,
           meeting' = [meeting EXCEPT ![m] = to],
           linked' = linked, offered' \in [Meetings -> SUBSET Slots], UNCHANGED world,
           UNCHANGED bounds,
           meeting[m] \in GivenUp => to \in GivenUp,
           to = "scheduled" => booked[m] # NoSlot
    PROVE  RowsFollow
<1>1. /\ asked' = asked /\ outcomeOf' = outcomeOf /\ slotCard' = slotCard /\ booked' = booked
      /\ confirmed' = confirmed /\ minted' = minted /\ faults' = faults /\ answers' = answers
  BY DEF world, bounds
<1>2. MeetingTypeOK
  BY DEF MeetingInv
<1>3. /\ meeting' \in [Meetings -> MeetingStatus] /\ meeting'[m] = to
      /\ \A n \in Meetings \ {m} : meeting'[n] = meeting[n]
  BY <1>2 DEF MeetingTypeOK
<1>4. ASSUME NEW n \in Meetings PROVE RowSound(n)'
  <2>1. RowSound(n)
    BY DEF MeetingInv
  <2> QED
    BY <1>1, <1>3, <2>1 DEF RowSound
<1>5. \A n \in Meetings : meeting[n] \in GivenUp => meeting'[n] \in GivenUp
  BY <1>3
<1> QED
  BY <1>1, <1>2, <1>3, <1>4, <1>5 DEF MeetingTypeOK, RowsFollow

\* The request's row changes without a run of the scheduler.
LEMMA RequestSteps ==
    ASSUME MeetingInv, NEW m \in Meetings,
           CannotStart(m) \/ ReplayClaim(m) \/ Dismiss(m) \/ ReclaimStuckFallback(m)
    PROVE  MeetingInv'
<1>0. MeetingTypeOK
  BY DEF MeetingInv
<1>1. CASE CannotStart(m) \/ ReplayClaim(m)
  <2>1. /\ meeting' = meeting /\ linked' = linked /\ offered' = offered /\ asked' = asked
        /\ slotCard' = slotCard /\ booked' = booked /\ confirmed' = confirmed /\ minted' = minted
        /\ call' = call /\ faults' = faults /\ answers' = answers
    BY <1>1 DEF CannotStart, ReplayClaim, requests, bounds
  <2>2. outcomeOf' \in [Meetings -> {"open", "meeting", "task"}]
    BY <1>0, <1>1 DEF CannotStart, ReplayClaim, MeetingTypeOK
  <2>3. \A n \in Meetings : RowSound(n)'
    BY <2>1 DEF MeetingInv, RowSound
  <2>4. RowsFollow
    BY <1>0, <2>1, <2>2, <2>3 DEF MeetingTypeOK, RowsFollow
  <2> QED
    BY <2>1, <2>4, WorldKeeps
<1>2. CASE Dismiss(m)
  <2>1. /\ meeting' = [meeting EXCEPT ![m] = "abandoned"] /\ meeting[m] \in OpenStatus
        /\ linked' = linked /\ offered' = offered /\ call' = call
        /\ UNCHANGED world /\ UNCHANGED bounds
    BY <1>2 DEF Dismiss
  <2>2. "abandoned" \in MeetingStatus /\ meeting[m] \notin GivenUp /\ "abandoned" \in BeingBooked
    BY <2>1 DEF MeetingStatus, OpenStatus, GivenUp, BeingBooked
  <2>3. RowsFollow
    BY <1>0, <2>1, <2>2, StatusMoves DEF MeetingTypeOK
  <2>4. \A n \in Meetings : meeting[n] \in BeingBooked => meeting'[n] \in BeingBooked
    BY <1>0, <2>1, <2>2 DEF MeetingTypeOK
  <2> QED
    BY <2>1, <2>3, <2>4, WorldKeeps
<1>3. CASE ReclaimStuckFallback(m)
  <2>1. /\ meeting' = [meeting EXCEPT ![m] = "fallback_pending"]
        /\ linked' = linked /\ offered' = offered /\ call' = call
        /\ UNCHANGED world /\ UNCHANGED bounds
    BY <1>3 DEF ReclaimStuckFallback
  <2>2. "fallback_pending" \in MeetingStatus /\ "fallback_pending" \in GivenUp
        /\ "fallback_pending" \in BeingBooked
    BY DEF MeetingStatus, GivenUp, BeingBooked
  <2>3. RowsFollow
    BY <1>0, <2>1, <2>2, StatusMoves DEF MeetingTypeOK
  <2>4. \A n \in Meetings : meeting[n] \in BeingBooked => meeting'[n] \in BeingBooked
    BY <1>0, <2>1, <2>2 DEF MeetingTypeOK
  <2> QED
    BY <2>1, <2>3, <2>4, WorldKeeps
<1> QED
  BY <1>1, <1>2, <1>3

-----------------------------------------------------------------------------
(* The steps of the callers.                                                 *)

\* A step that leaves every row's status: no claim is opened.
LEMMA StillHeld ==
    ASSUME meeting' = meeting
    PROVE  \A n \in Meetings : meeting[n] \in BeingBooked => meeting'[n] \in BeingBooked
OBVIOUS

\* A run starts: it claims the row, links the decision, asks, or fails.
LEMMA InitiateSteps ==
    ASSUME MeetingInv, NEW c \in Callers,
           \/ \E m \in Meetings : ClaimRequest(c, m)
           \/ LinkDecision(c) \/ AskForDuration(c) \/ InitiateFails(c)
    PROVE  MeetingInv'
<1>0. MeetingTypeOK /\ faults \in 0..MaxFaults /\ answers \in 0..MaxAnswers
  BY DEF MeetingInv, MeetingTypeOK
<1>1. CASE \E m \in Meetings : ClaimRequest(c, m)
  <2>1. PICK m \in Meetings : ClaimRequest(c, m)
    BY <1>1
  <2>2. /\ meeting' = [meeting EXCEPT ![m] = "awaiting_duration"] /\ meeting[m] = "none"
        /\ linked' = linked /\ offered' = offered /\ UNCHANGED world /\ UNCHANGED bounds
        /\ Begin(c, "link", m, NoSlot)
    BY <2>1 DEF ClaimRequest
  <2>3. /\ "awaiting_duration" \in MeetingStatus /\ meeting[m] \notin GivenUp
        /\ meeting[m] \notin BeingBooked
    BY <2>2 DEF MeetingStatus, GivenUp, BeingBooked
  <2>4. RowsFollow
    BY <1>0, <2>2, <2>3, StatusMoves DEF MeetingTypeOK
  <2>5. \A n \in Meetings : meeting[n] \in BeingBooked => meeting'[n] \in BeingBooked
    BY <1>0, <2>2, <2>3 DEF MeetingTypeOK
  <2>6. "link" \notin WithSlot
    BY DEF WithSlot, Holding
  <2> QED
    BY <2>2, <2>4, <2>5, <2>6, BeginKeeps
<1>2. CASE LinkDecision(c)
  <2>1. /\ call[c].at = "link" /\ linked' = [linked EXCEPT ![On(c)] = TRUE] /\ CallGoes(c, "ask")
        /\ meeting' = meeting /\ offered' = offered /\ asked' = asked /\ outcomeOf' = outcomeOf
        /\ slotCard' = slotCard /\ booked' = booked /\ confirmed' = confirmed /\ minted' = minted
        /\ faults' = faults /\ answers' = answers
    BY <1>2 DEF LinkDecision, CallAt, world, bounds
  <2>2. linked' \in [Meetings -> BOOLEAN]
    BY <1>0, <2>1 DEF MeetingTypeOK
  <2>3. \A n \in Meetings : RowSound(n)'
    BY <2>1 DEF MeetingInv, RowSound
  <2>4. RowsFollow
    BY <1>0, <2>1, <2>2, <2>3 DEF MeetingTypeOK, RowsFollow
  <2>5. "ask" \in CallStage \ {"idle"} /\ "ask" \notin WithSlot \cup Holding \cup Minting \cup {"mark", "confirm"}
    BY DEF CallStage, Initiating, WithSlot, Holding, Minting
  <2> QED
    BY <2>1, <2>4, <2>5, GoesKeeps
<1>3. CASE AskForDuration(c)
  <2>1. /\ Return(c) /\ asked' = [asked EXCEPT ![On(c)] = TRUE]
        /\ outcomeOf' = [outcomeOf EXCEPT ![On(c)] = "meeting"]
        /\ meeting' = meeting /\ linked' = linked /\ offered' = offered
        /\ slotCard' = slotCard /\ booked' = booked /\ confirmed' = confirmed /\ minted' = minted
        /\ faults' = faults /\ answers' = answers
    BY <1>3 DEF AskForDuration, requests, bounds
  <2>2. asked' \in [Meetings -> BOOLEAN] /\ outcomeOf' \in [Meetings -> {"open", "meeting", "task"}]
    BY <1>0, <2>1 DEF MeetingTypeOK
  <2>3. \A n \in Meetings : RowSound(n)'
    BY <2>1 DEF MeetingInv, RowSound
  <2>4. RowsFollow
    BY <1>0, <2>1, <2>2, <2>3 DEF MeetingTypeOK, RowsFollow
  <2> QED
    BY <2>1, <2>4, ReturnKeeps
<1>4. CASE InitiateFails(c)
  <2>1. Return(c) /\ UNCHANGED <<requests, world>> /\ faults' = faults /\ answers' = answers
        /\ meeting' = meeting
    BY <1>4 DEF InitiateFails, bounds, requests
  <2> QED
    BY <1>0, <2>1, RowsStayFollowed, ReturnKeeps
<1> QED
  BY <1>1, <1>2, <1>3, <1>4

\* The founder's answers, each a call of its own.
LEMMA DecisionSteps ==
    ASSUME MeetingInv, NEW c \in Callers, NEW m \in Meetings, FounderDecides(c, m)
    PROVE  MeetingInv'
<1>0. MeetingTypeOK /\ faults \in 0..MaxFaults /\ answers \in 0..MaxAnswers
  BY DEF MeetingInv, MeetingTypeOK
<1>1. PICK stage \in {"propose", "recheck", "typed", "giveUp"}, s \in Slots \cup {NoSlot} :
          Answer(c, stage, m, s) /\ (stage \in WithSlot => s \in Slots)
  <2>1. CASE OnDuration(c, m)
    BY <2>1 DEF OnDuration, WithSlot, Holding
  <2>2. CASE OnSlot(c, m)
    <3>1. PICK s \in offered[m] : Answer(c, "recheck", m, s)
      BY <2>2 DEF OnSlot
    <3>2. s \in Slots
      BY <1>0 DEF MeetingTypeOK
    <3> QED
      BY <3>1, <3>2
  <2>3. CASE OnTypedTime(c, m)
    BY <2>3 DEF OnTypedTime
  <2>4. CASE OnDecline(c, m)
    BY <2>4 DEF OnDecline, WithSlot, Holding
  <2> QED
    BY <2>1, <2>2, <2>3, <2>4 DEF FounderDecides
<1>2. /\ Begin(c, stage, m, s) /\ UNCHANGED <<requests, world>> /\ faults' = faults
      /\ answers < MaxAnswers /\ answers' = answers + 1 /\ meeting' = meeting
  BY <1>1 DEF Answer, requests
<1>3. answers' \in 0..MaxAnswers
  BY <1>0, <1>2
<1>4. RowsFollow
  BY <1>0, <1>2, <1>3, RowsStayFollowed
<1> QED
  BY <1>1, <1>2, <1>4, StillHeld, BeginKeeps

\* Only the slots a request offers change.
LEMMA OffersMove ==
    ASSUME MeetingInv, meeting' = meeting, linked' = linked, UNCHANGED world, UNCHANGED bounds,
           offered' \in [Meetings -> SUBSET Slots]
    PROVE  RowsFollow
<1>1. /\ asked' = asked /\ outcomeOf' = outcomeOf /\ slotCard' = slotCard /\ booked' = booked
      /\ confirmed' = confirmed /\ minted' = minted /\ faults' = faults /\ answers' = answers
  BY DEF world, bounds
<1>2. \A n \in Meetings : RowSound(n)'
  BY <1>1 DEF MeetingInv, RowSound
<1> QED
  BY <1>1, <1>2 DEF MeetingInv, MeetingTypeOK, RowsFollow

\* A run proposes slots, or asks for one.
LEMMA ProposeSteps ==
    ASSUME MeetingInv, NEW c \in Callers, ProposeSlots(c)
    PROVE  MeetingInv'
<1>0. MeetingTypeOK /\ faults \in 0..MaxFaults /\ answers \in 0..MaxAnswers
  BY DEF MeetingInv, MeetingTypeOK
<1>1. /\ call[c].at = "propose" /\ On(c) \in Meetings /\ UNCHANGED world /\ UNCHANGED bounds
  BY CallerFacts DEF ProposeSlots, CallAt
<1>2. /\ {"giveUp", "offer"} \subseteq CallStage \ {"idle"}
      /\ {"giveUp", "offer"} \cap (WithSlot \cup Holding \cup Minting \cup {"mark", "confirm"}) = {}
  BY DEF CallStage, WithSlot, Holding, Minting
<1>3. CASE CallGoes(c, "giveUp") /\ UNCHANGED requests
  <2>1. RowsFollow /\ meeting' = meeting
    BY <1>0, <1>1, <1>3, RowsStayFollowed DEF bounds, requests
  <2> QED
    BY <1>1, <1>2, <1>3, <2>1, GoesKeeps
<1>4. ASSUME NEW S \in SUBSET Slots \ {{}},
             Guarded(c, {"awaiting_duration", "awaiting_slot"}, "awaiting_slot", "offer"),
             offered' = IF meeting[On(c)] \in {"awaiting_duration", "awaiting_slot"}
                        THEN [offered EXCEPT ![On(c)] = S] ELSE offered,
             UNCHANGED linked
      PROVE  MeetingInv'
  <2>1. offered' \in [Meetings -> SUBSET Slots]
    BY <1>0, <1>4 DEF MeetingTypeOK
  <2>2. CASE meeting[On(c)] \in {"awaiting_duration", "awaiting_slot"}
    <3>1. meeting' = [meeting EXCEPT ![On(c)] = "awaiting_slot"] /\ CallGoes(c, "offer")
      BY <1>4, <2>2 DEF Guarded
    <3>2. "awaiting_slot" \in MeetingStatus /\ meeting[On(c)] \notin BeingBooked /\ meeting[On(c)] \notin GivenUp
      BY <2>2 DEF MeetingStatus, BeingBooked, GivenUp
    <3>3. RowsFollow
      BY <1>1, <1>4, <2>1, <3>1, <3>2, StatusMoves
    <3>4. \A n \in Meetings : meeting[n] \in BeingBooked => meeting'[n] \in BeingBooked
      BY <1>0, <1>1, <3>1, <3>2 DEF MeetingTypeOK
    <3> QED
      BY <1>1, <1>2, <3>1, <3>3, <3>4, GoesKeeps
  <2>3. CASE meeting[On(c)] \notin {"awaiting_duration", "awaiting_slot"}
    <3>1. Return(c) /\ meeting' = meeting
      BY <1>4, <2>3 DEF Guarded
    <3>2. RowsFollow
      BY <1>1, <1>4, <2>1, <3>1, OffersMove
    <3> QED
      BY <3>1, <3>2, StillHeld, ReturnKeeps
  <2> QED
    BY <2>2, <2>3
<1> QED
  BY <1>3, <1>4 DEF ProposeSlots

LEMMA AskForSlotStep ==
    ASSUME MeetingInv, NEW c \in Callers, AskForSlot(c)
    PROVE  MeetingInv'
<1>0. MeetingTypeOK
  BY DEF MeetingInv
<1>1. /\ Return(c) /\ meeting' = meeting /\ linked' = linked /\ offered' = offered /\ asked' = asked
      /\ outcomeOf' = outcomeOf /\ booked' = booked /\ confirmed' = confirmed /\ minted' = minted
      /\ faults' = faults /\ answers' = answers
  BY DEF AskForSlot, requests, bounds
<1>2. slotCard' \in [Meetings -> BOOLEAN]
  BY <1>0 DEF AskForSlot, MeetingTypeOK
<1>3. \A n \in Meetings : RowSound(n)'
  BY <1>1 DEF MeetingInv, RowSound
<1>4. RowsFollow
  BY <1>0, <1>1, <1>2, <1>3 DEF MeetingTypeOK, RowsFollow
<1> QED
  BY <1>1, <1>4, StillHeld, ReturnKeeps

\* The tapped or typed time is looked at: the caller books, asks again or leaves.
LEMMA CheckSteps ==
    ASSUME MeetingInv, NEW c \in Callers, Recheck(c) \/ CheckTypedTime(c)
    PROVE  MeetingInv'
<1>0. MeetingTypeOK /\ faults \in 0..MaxFaults /\ answers \in 0..MaxAnswers
  BY DEF MeetingInv, MeetingTypeOK
<1>1. /\ call[c].at \in {"recheck", "typed"} /\ call[c].at # "idle" /\ On(c) \in Meetings
      /\ UNCHANGED world /\ UNCHANGED bounds /\ meeting' = meeting /\ linked' = linked
  BY CallerFacts DEF Recheck, CheckTypedTime, CallAt, requests
<1>2. offered' \in [Meetings -> SUBSET Slots]
  BY <1>0 DEF Recheck, CheckTypedTime, requests, MeetingTypeOK
<1>3. RowsFollow
  BY <1>1, <1>2, OffersMove
<1>4. /\ {"giveUp", "offer", "book"} \subseteq CallStage \ {"idle"}
      /\ {"giveUp", "offer", "book"} \cap (Holding \cup Minting \cup {"mark", "confirm"}) = {}
      /\ call[c].at \in WithSlot
  BY <1>1 DEF CallStage, WithSlot, Holding, Minting
<1>5. Return(c) \/ CallGoes(c, "giveUp") \/ CallGoes(c, "book") \/ CallGoes(c, "offer")
  BY DEF Recheck, CheckTypedTime
<1> QED
  BY <1>1, <1>3, <1>4, <1>5, StillHeld, ReturnKeeps, GoesKeeps

\* A guarded UPDATE that claims the row, for the status it is claimed with.
LEMMA GuardedKeeps ==
    ASSUME MeetingInv, NEW c \in Callers, call[c].at # "idle", NEW from, NEW to \in BeingBooked,
           NEW stage \in CallStage \ {"idle"}, Guarded(c, from, to, stage),
           from \subseteq MeetingStatus, linked' = linked, offered' = offered,
           UNCHANGED world, UNCHANGED bounds,
           from \cap GivenUp # {} => to \in GivenUp,
           stage \in WithSlot => call[c].at \in WithSlot,
           stage \in Holding => from \cap BeingBooked = {},
           stage \in Minting => to \in GivenUp,
           stage \notin {"mark", "confirm"}
    PROVE  MeetingInv'
<1>0. MeetingTypeOK /\ On(c) \in Meetings
  BY CallerFacts
<1>1. to \in MeetingStatus /\ to # "scheduled" /\ offered' \in [Meetings -> SUBSET Slots]
  BY <1>0 DEF BeingBooked, GivenUp, MeetingStatus, MeetingTypeOK
<1>2. CASE meeting[On(c)] \in from
  <2>1. meeting' = [meeting EXCEPT ![On(c)] = to] /\ CallGoes(c, stage)
    BY <1>2 DEF Guarded
  <2>2. meeting'[On(c)] = to
    BY <1>0, <2>1 DEF MeetingTypeOK
  <2>3. RowsFollow
    BY <1>0, <1>1, <1>2, <2>1, StatusMoves
  <2>4. \A n \in Meetings : meeting[n] \in BeingBooked => meeting'[n] \in BeingBooked
    BY <1>0, <2>1 DEF MeetingTypeOK
  <2>5. stage \in Holding => meeting[On(c)] \notin BeingBooked
    BY <1>2
  <2> QED
    BY <2>1, <2>2, <2>3, <2>4, <2>5, GoesKeeps
<1>3. CASE meeting[On(c)] \notin from
  <2>1. Return(c) /\ meeting' = meeting
    BY <1>3 DEF Guarded
  <2>2. RowsFollow
    BY <1>1, <2>1, OffersMove
  <2> QED
    BY <2>1, <2>2, StillHeld, ReturnKeeps
<1> QED
  BY <1>2, <1>3

\* An UPDATE the code does not look at, by a caller that then leaves or goes on
\* with nothing more to claim.
LEMMA SettlesRow ==
    ASSUME MeetingInv, NEW c \in Callers, On(c) \in Meetings, NEW from,
           NEW to \in MeetingStatus, SettleRow(c, from, to), linked' = linked,
           offered' = offered, UNCHANGED world, UNCHANGED bounds,
           from \in GivenUp => to \in GivenUp,
           to = "scheduled" => booked[On(c)] # NoSlot
    PROVE  /\ RowsFollow
           /\ \A n \in Meetings : meeting[n] \in BeingBooked /\ meeting'[n] \notin BeingBooked =>
                n = On(c) /\ from = meeting[n] /\ to \notin BeingBooked
<1>0. MeetingTypeOK /\ RowSound(On(c))
  BY DEF MeetingInv
<1> DEFINE s == IF meeting[On(c)] = from THEN to ELSE meeting[On(c)]
<1>1. meeting' = [meeting EXCEPT ![On(c)] = s]
  BY <1>0 DEF SettleRow
<1>2. /\ s \in MeetingStatus /\ (meeting[On(c)] \in GivenUp => s \in GivenUp)
      /\ s = "scheduled" => booked[On(c)] # NoSlot
      /\ meeting[On(c)] \in BeingBooked /\ s \notin BeingBooked => from = meeting[On(c)] /\ to \notin BeingBooked
  BY <1>0 DEF MeetingTypeOK, RowSound
<1> HIDE DEF s
<1>3. offered' \in [Meetings -> SUBSET Slots]
  BY <1>0 DEF MeetingTypeOK
<1>4. RowsFollow
  BY <1>1, <1>2, <1>3, StatusMoves
<1>5. \A n \in Meetings : meeting'[n] = IF n = On(c) THEN s ELSE meeting[n]
  BY <1>0, <1>1 DEF MeetingTypeOK
<1> QED
  BY <1>2, <1>4, <1>5

\* bookSlot: the claim, the calendar, the row and the confirmation.
LEMMA BookSteps ==
    ASSUME MeetingInv, NEW c \in Callers,
           \/ ClaimForCreating(c) \/ CreateEvent(c) \/ ReleaseToAwaitingSlot(c)
           \/ MarkScheduled(c) \/ EnqueueConfirmation(c)
    PROVE  MeetingInv'
<1>0. MeetingTypeOK
  BY DEF MeetingInv
<1>1. CASE ClaimForCreating(c)
  <2>1. /\ call[c].at = "book" /\ Guarded(c, {"awaiting_slot"}, "creating", "create")
        /\ linked' = linked /\ offered' = offered /\ UNCHANGED world /\ UNCHANGED bounds
    BY <1>1 DEF ClaimForCreating, CallAt
  <2>2. /\ "creating" \in BeingBooked /\ "create" \in CallStage \ {"idle"}
        /\ "create" \notin {"mark", "confirm"} \cup Minting /\ "book" \in WithSlot
        /\ {"awaiting_slot"} \subseteq MeetingStatus /\ {"awaiting_slot"} \cap BeingBooked = {}
        /\ {"awaiting_slot"} \cap GivenUp = {}
    BY DEF BeingBooked, GivenUp, CallStage, Minting, WithSlot, MeetingStatus
  <2>3. call[c].at # "idle" /\ call[c].at \in WithSlot
    BY <2>1, <2>2
  <2> QED
    BY <2>1, <2>2, <2>3, GuardedKeeps
<1>2. CASE CreateEvent(c)
  <2>1. /\ call[c].at = "create" /\ call[c].at \in Holding /\ call[c].at \in WithSlot
        /\ meeting' = meeting /\ linked' = linked /\ offered' = offered /\ asked' = asked
        /\ outcomeOf' = outcomeOf /\ slotCard' = slotCard /\ confirmed' = confirmed
        /\ minted' = minted /\ faults' = faults /\ answers' = answers
    BY <1>2 DEF CreateEvent, CallAt, requests, bounds, Holding, WithSlot
  <2>2. On(c) \in Meetings /\ call[c].slot \in Slots /\ meeting[On(c)] \in BeingBooked
    BY <2>1, CallerFacts
  <2>3. \/ booked' = [booked EXCEPT ![On(c)] = IF booked[On(c)] = NoSlot THEN call[c].slot
                                                ELSE booked[On(c)]]
        \/ booked' = booked
    BY <1>2 DEF CreateEvent
  <2>4. /\ booked' \in [Meetings -> Slots \cup {NoSlot}]
        /\ \A n \in Meetings : booked[n] # NoSlot => booked'[n] # NoSlot
    BY <1>0, <2>2, <2>3 DEF MeetingTypeOK
  <2>5. \A n \in Meetings : RowSound(n)'
    BY <2>1, <2>4 DEF MeetingInv, RowSound
  <2>6. RowsFollow
    BY <1>0, <2>1, <2>4, <2>5 DEF MeetingTypeOK, RowsFollow
  <2>7. \/ CallGoes(c, "mark") /\ booked'[On(c)] # NoSlot
        \/ CallGoes(c, "release")
        \/ CallGoes(c, "giveUp")
    BY <1>0, <1>2, <2>2 DEF CreateEvent, MeetingTypeOK
  <2>8. /\ {"mark", "release", "giveUp"} \subseteq CallStage \ {"idle"}
        /\ {"mark", "release", "giveUp"} \cap Minting = {}
        /\ {"release", "giveUp"} \cap {"mark", "confirm"} = {}
    BY DEF CallStage, Minting
  <2> QED
    BY <2>1, <2>2, <2>6, <2>7, <2>8, StillHeld, GoesKeeps
<1>3. CASE ReleaseToAwaitingSlot(c)
  <2>1. /\ call[c].at = "release" /\ SettleRow(c, "creating", "awaiting_slot") /\ Return(c)
        /\ linked' = linked /\ offered' = offered /\ UNCHANGED world /\ UNCHANGED bounds
    BY <1>3 DEF ReleaseToAwaitingSlot, CallAt
  <2>2. /\ "awaiting_slot" \in MeetingStatus /\ "creating" \notin GivenUp
        /\ call[c].at \in Holding
    BY <2>1 DEF MeetingStatus, GivenUp, Holding
  <2>3. On(c) \in Meetings
    BY <2>1, CallerFacts
  <2>4. /\ RowsFollow
        /\ \A n \in Meetings : meeting[n] \in BeingBooked /\ meeting'[n] \notin BeingBooked => n = On(c)
    BY <2>1, <2>2, <2>3, SettlesRow
  <2> QED
    BY <2>1, <2>2, <2>4, ReturnKeeps DEF On
<1>4. CASE MarkScheduled(c)
  <2>1. /\ call[c].at = "mark" /\ SettleRow(c, "creating", "scheduled") /\ CallGoes(c, "confirm")
        /\ linked' = linked /\ offered' = offered /\ UNCHANGED world /\ UNCHANGED bounds
    BY <1>4 DEF MarkScheduled, CallAt
  <2>2. /\ "scheduled" \in MeetingStatus /\ "creating" \notin GivenUp
        /\ call[c].at \in Holding /\ call[c].at \in WithSlot
        /\ "confirm" \in CallStage \ {"idle"} /\ "confirm" \notin Holding \cup Minting
    BY <2>1 DEF MeetingStatus, GivenUp, Holding, WithSlot, CallStage, Minting
  <2>3. On(c) \in Meetings /\ booked[On(c)] # NoSlot
    BY <2>1, CallerFacts
  <2>4. /\ RowsFollow
        /\ \A n \in Meetings : meeting[n] \in BeingBooked /\ meeting'[n] \notin BeingBooked => n = On(c)
    BY <2>1, <2>2, <2>3, SettlesRow
  <2>5. booked'[On(c)] # NoSlot
    BY <2>3, <2>4 DEF RowsFollow
  <2>6. call[c].at # "idle"
    BY <2>1
  <2>7. \A n \in Meetings : meeting[n] \in BeingBooked /\ meeting'[n] \notin BeingBooked =>
            call[c].at \in Holding /\ call[c].on = n
    BY <2>2, <2>4 DEF On
  <2> QED
    BY <2>1, <2>2, <2>4, <2>5, <2>6, <2>7, GoesKeeps
<1>5. CASE EnqueueConfirmation(c)
  <2>1. /\ call[c].at = "confirm" /\ Return(c)
        /\ confirmed' = [confirmed EXCEPT ![On(c)] =
                            IF confirmed[On(c)] = NoSlot THEN call[c].slot ELSE confirmed[On(c)]]
        /\ meeting' = meeting /\ linked' = linked /\ offered' = offered /\ asked' = asked
        /\ outcomeOf' = outcomeOf /\ slotCard' = slotCard /\ booked' = booked
        /\ minted' = minted /\ faults' = faults /\ answers' = answers
    BY <1>5 DEF EnqueueConfirmation, CallAt, requests, bounds
  <2>2. On(c) \in Meetings /\ call[c].slot \in Slots /\ booked[On(c)] # NoSlot
    BY <2>1, CallerFacts DEF WithSlot
  <2>3. /\ confirmed' \in [Meetings -> Slots \cup {NoSlot}]
        /\ \A n \in Meetings \ {On(c)} : confirmed'[n] = confirmed[n]
    BY <1>0, <2>1, <2>2 DEF MeetingTypeOK
  <2>4. \A n \in Meetings : RowSound(n)'
    BY <2>1, <2>2, <2>3 DEF MeetingInv, RowSound
  <2>5. RowsFollow
    BY <1>0, <2>1, <2>3, <2>4 DEF MeetingTypeOK, RowsFollow
  <2> QED
    BY <2>1, <2>5, StillHeld, ReturnKeeps
<1> QED
  BY <1>1, <1>2, <1>3, <1>4, <1>5

\* giveUpToTask and the fallback worker, and the callers that die.
LEMMA GiveUpSteps ==
    ASSUME MeetingInv, NEW c \in Callers,
           \/ ClaimGiveUp(c) \/ FallbackToTask(c) \/ FallbackFails(c) \/ NothingToMint(c)
           \/ ReleaseGiveUp(c) \/ CompleteGiveUp(c) \/ MeetingCallDies(c)
           \/ \E m \in Meetings : RetryFallback(c, m)
    PROVE  MeetingInv'
<1>0. MeetingTypeOK /\ faults \in 0..MaxFaults /\ answers \in 0..MaxAnswers
  BY DEF MeetingInv, MeetingTypeOK
<1>1. /\ {"mint", "complete", "queue"} \subseteq CallStage \ {"idle"}
      /\ {"mint", "complete", "queue"} \cap (WithSlot \cup Holding \cup {"mark", "confirm"}) = {}
  BY DEF CallStage, WithSlot, Holding
<1>2. CASE ClaimGiveUp(c)
  <2>1. /\ call[c].at = "giveUp"
        /\ Guarded(c, OpenStatus \cup {"fallback_pending"}, "fallback_creating", "mint")
        /\ linked' = linked /\ offered' = offered /\ UNCHANGED world /\ UNCHANGED bounds
    BY <1>2 DEF ClaimGiveUp, CallAt
  <2>2. /\ "fallback_creating" \in BeingBooked /\ "fallback_creating" \in GivenUp
        /\ OpenStatus \cup {"fallback_pending"} \subseteq MeetingStatus
    BY DEF BeingBooked, GivenUp, OpenStatus, MeetingStatus
  <2>3. call[c].at # "idle"
    BY <2>1
  <2> QED
    BY <1>1, <2>1, <2>2, <2>3, GuardedKeeps
<1>3. CASE FallbackToTask(c)
  <2>1. /\ call[c].at = "mint"
        /\ minted' = [minted EXCEPT ![On(c)] = IF minted[On(c)] = 0 THEN 1 ELSE minted[On(c)]]
        /\ CallGoes(c, "complete") \/ CallGoes(c, "queue")
        /\ meeting' = meeting /\ linked' = linked /\ offered' = offered /\ asked' = asked
        /\ outcomeOf' = outcomeOf /\ slotCard' = slotCard /\ booked' = booked
        /\ confirmed' = confirmed /\ answers' = answers
    BY <1>3 DEF FallbackToTask, CallAt, requests
  <2>2. faults' \in 0..MaxFaults
    BY <1>0, <1>3 DEF FallbackToTask
  <2>3. On(c) \in Meetings /\ meeting[On(c)] \in GivenUp
    BY <2>1, CallerFacts DEF Minting
  <2>4. minted' \in [Meetings -> Nat]
    BY <1>0, <2>1 DEF MeetingTypeOK
  <2>5. ASSUME NEW n \in Meetings PROVE RowSound(n)'
    <3>1. RowSound(n)
      BY DEF MeetingInv
    <3>2. CASE n = On(c)
      <4>1. minted'[n] = IF minted[n] = 0 THEN 1 ELSE minted[n]
        BY <1>0, <2>1, <3>2 DEF MeetingTypeOK
      <4> QED
        BY <2>1, <2>3, <3>1, <3>2, <4>1 DEF RowSound
    <3>3. CASE n # On(c)
      <4>1. minted'[n] = minted[n]
        BY <1>0, <2>1, <3>3 DEF MeetingTypeOK
      <4> QED
        BY <2>1, <3>1, <4>1 DEF RowSound
    <3> QED
      BY <3>2, <3>3
  <2>6. RowsFollow
    BY <1>0, <2>1, <2>2, <2>4, <2>5 DEF MeetingTypeOK, RowsFollow
  <2> QED
    BY <1>1, <2>1, <2>3, <2>6, StillHeld, GoesKeeps
<1>4. CASE FallbackFails(c) \/ NothingToMint(c)
  <2>1. /\ call[c].at = "mint" /\ (CallGoes(c, "complete") \/ CallGoes(c, "queue"))
        /\ UNCHANGED <<requests, world>> /\ answers' = answers /\ meeting' = meeting
    BY <1>4 DEF FallbackFails, NothingToMint, CallAt, requests, bounds
  <2>2. faults' \in 0..MaxFaults
    BY <1>0, <1>4 DEF FallbackFails, NothingToMint, bounds
  <2>3. RowsFollow
    BY <1>0, <2>1, <2>2, RowsStayFollowed
  <2>4. meeting[On(c)] \in GivenUp
    BY <2>1, CallerFacts DEF Minting
  <2> QED
    BY <1>1, <2>1, <2>3, <2>4, StillHeld, GoesKeeps
<1>5. CASE ReleaseGiveUp(c) \/ CompleteGiveUp(c)
  <2>1. /\ call[c].at \in Minting /\ Return(c) /\ linked' = linked /\ offered' = offered
        /\ UNCHANGED world /\ UNCHANGED bounds
        /\ SettleRow(c, "fallback_creating", "fallback_pending")
                \/ SettleRow(c, "fallback_creating", "failed")
    BY <1>5 DEF ReleaseGiveUp, CompleteGiveUp, CallAt, Minting
  <2>2. /\ {"fallback_pending", "failed"} \subseteq MeetingStatus
        /\ {"fallback_pending", "failed"} \subseteq GivenUp
        /\ {"fallback_pending", "failed"} \subseteq BeingBooked /\ "scheduled" \notin GivenUp
    BY DEF MeetingStatus, GivenUp, BeingBooked
  <2>3. On(c) \in Meetings
    BY <2>1, CallerFacts DEF Minting
  <2>4. /\ RowsFollow
        /\ \A n \in Meetings : meeting[n] \in BeingBooked => meeting'[n] \in BeingBooked
    BY <2>1, <2>2, <2>3, SettlesRow
  <2> QED
    BY <2>1, <2>4, ReturnKeeps
<1>6. CASE MeetingCallDies(c)
  <2>1. /\ Return(c) /\ UNCHANGED <<requests, world>> /\ answers' = answers /\ meeting' = meeting
        /\ faults < MaxFaults /\ faults' = faults + 1
    BY <1>6 DEF MeetingCallDies, requests
  <2>2. RowsFollow
    BY <1>0, <2>1, RowsStayFollowed
  <2> QED
    BY <2>1, <2>2, StillHeld, ReturnKeeps
<1>7. CASE \E m \in Meetings : RetryFallback(c, m)
  <2>1. PICK m \in Meetings : RetryFallback(c, m)
    BY <1>7
  <2>2. /\ Begin(c, "giveUp", m, NoSlot) /\ UNCHANGED <<requests, world>>
        /\ faults' = faults /\ answers' = answers /\ meeting' = meeting
    BY <2>1 DEF RetryFallback, bounds, requests
  <2>3. RowsFollow
    BY <1>0, <2>2, RowsStayFollowed
  <2>4. "giveUp" \notin WithSlot
    BY DEF WithSlot, Holding
  <2> QED
    BY <2>2, <2>3, <2>4, StillHeld, BeginKeeps
<1> QED
  BY <1>2, <1>3, <1>4, <1>5, <1>6, <1>7

-----------------------------------------------------------------------------
(* The theorems.                                                             *)

\* A request starts out with nothing booked, minted or confirmed.
LEMMA MeetingStarts == MeetingInit => MeetingInv
<1> SUFFICES ASSUME MeetingInit PROVE MeetingInv
  OBVIOUS
<1>1. \A c \in Callers : call[c] = NoCall /\ call[c].at = "idle"
  BY DEF MeetingInit, NoCall
<1>2. MeetingTypeOK
  <2>1. NoCall \in Calls /\ call \in [Callers -> Calls]
    BY DEF MeetingInit, NoCall, Calls, CallStage
  <2>2. meeting \in [Meetings -> MeetingStatus] /\ minted \in [Meetings -> Nat]
    BY DEF MeetingInit, MeetingStatus
  <2>3. /\ linked \in [Meetings -> BOOLEAN] /\ asked \in [Meetings -> BOOLEAN]
        /\ slotCard \in [Meetings -> BOOLEAN]
        /\ outcomeOf \in [Meetings -> {"open", "meeting", "task"}]
    BY DEF MeetingInit
  <2>4. /\ offered \in [Meetings -> SUBSET Slots]
        /\ booked \in [Meetings -> Slots \cup {NoSlot}]
        /\ confirmed \in [Meetings -> Slots \cup {NoSlot}]
    BY DEF MeetingInit
  <2>5. faults \in 0..MaxFaults /\ answers \in 0..MaxAnswers
    BY DEF MeetingInit
  <2> QED
    BY <2>1, <2>2, <2>3, <2>4, <2>5 DEF MeetingTypeOK, Calls
<1>3. OneHolder /\ \A c \in Callers : CallSound(c)
  BY <1>1 DEF OneHolder, CallSound, Holding
<1>4. \A m \in Meetings : RowSound(m)
  BY DEF MeetingInit, RowSound
<1> QED
  BY <1>2, <1>3, <1>4 DEF MeetingInv

\* Every step of triage, the founder, the callers and the fallback worker keeps
\* the invariant.
THEOREM MeetingInductive == MeetingSpec => []MeetingInv
<1>1. MeetingInv /\ [MeetingNext]_meetingVars => MeetingInv'
  <2> SUFFICES ASSUME MeetingInv, [MeetingNext]_meetingVars PROVE MeetingInv'
    OBVIOUS
  <2>1. CASE UNCHANGED meetingVars
    <3>1. UNCHANGED <<requests, world>> /\ meeting' = meeting /\ call' = call
          /\ faults' = faults /\ answers' = answers
      BY <2>1 DEF meetingVars, requests, bounds
    <3>2. RowsFollow
      BY <3>1, RowsStayFollowed DEF MeetingInv, MeetingTypeOK
    <3> QED
      BY <3>1, <3>2, StillHeld, WorldKeeps
  <2>2. ASSUME NEW c \in Callers, AdvanceCall(c) \/ MeetingCallDies(c) PROVE MeetingInv'
    BY <2>2, InitiateSteps, ProposeSteps, AskForSlotStep, CheckSteps, BookSteps, GiveUpSteps
       DEF AdvanceCall
  <2>3. ASSUME NEW m \in Meetings,
               \/ CannotStart(m) \/ ReplayClaim(m) \/ Dismiss(m) \/ FallbackWorker(m)
               \/ \E c \in Callers : ClaimRequest(c, m) \/ FounderDecides(c, m)
        PROVE  MeetingInv'
    BY <2>3, RequestSteps, InitiateSteps, DecisionSteps, GiveUpSteps DEF FallbackWorker
  <2> QED
    BY <2>1, <2>2, <2>3 DEF MeetingNext
<1> QED
  BY <1>1, MeetingStarts, PTL DEF MeetingSpec

\* The rows, the calendar and the callers keep their types.
THEOREM MeetingTypes == MeetingSpec => []MeetingTypeOK
<1>1. MeetingInv => MeetingTypeOK
  BY DEF MeetingInv
<1> QED
  BY <1>1, MeetingInductive, PTL

\* However taps, give-ups, replays, late answers of the calendar and crashes meet
\* on a request: at most one task is made of it, a scheduled request has its event
\* and no task, and the customer is told only of a meeting that is in the calendar.
THEOREM RequestEndsOnce == MeetingSpec => []OneOutcome
<1>1. MeetingInv => OneOutcome
  <2> SUFFICES ASSUME MeetingInv, NEW m \in Meetings
               PROVE  /\ minted[m] <= 1
                      /\ meeting[m] = "scheduled" => booked[m] # NoSlot /\ minted[m] = 0
                      /\ confirmed[m] # NoSlot => booked[m] # NoSlot
    BY DEF OneOutcome, OneFallbackTask, ScheduledIsBooked
  <2>1. RowSound(m) /\ minted[m] \in Nat
    BY DEF MeetingInv, MeetingTypeOK
  <2> QED
    BY <2>1 DEF RowSound, GivenUp
<1> QED
  BY <1>1, MeetingInductive, PTL

===============================================================================
