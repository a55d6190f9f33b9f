-------------------------------- MODULE DayView --------------------------------
(***************************************************************************)
(* The calendar's day view of the founder's app: the screen and its sheets  *)
(* (src/app/src/CalendarScreen.tsx), the routes                             *)
(* (src/src/adapters/founder-app/founder-app.router.ts,                     *)
(* founder-app-calendar.ts) and the requests they make of Google            *)
(* (src/src/adapters/calendar/).                                            *)
(*                                                                         *)
(* One screen, whose sheet sends one request at a time unless an answer is  *)
(* lost; handlers that run side by side; and other people, who change the   *)
(* calendar between any two reads.  Time is a number of cells; an event     *)
(* holds the cells of [from, to).                                           *)
(***************************************************************************)
EXTENDS Integers, FiniteSets

CONSTANTS
    Entries,        \* events, present or yet to be inserted
    Standing,       \* those in the calendar at the start, with their windows
    Horizon,        \* cells 0 .. Horizon-1
    DayLength,      \* cells of a day
    Lengths,        \* durations the sheet offers
    Handlers,       \* requests the server can have in hand
    MaxOutside,     \* bound of the model: changes made by others
    MaxDrops        \* bound of the model: lost answers of Google or the server

ASSUME StandingAssumption ==
    /\ DOMAIN Standing \subseteq Entries
    /\ Horizon \in Nat \ {0} /\ DayLength \in Nat \ {0} /\ Lengths \subseteq Nat \ {0}
    /\ MaxOutside \in Nat /\ MaxDrops \in Nat

VARIABLES
    agenda,     \* Google: the window of each event, or Gone
    header,     \* the day in the title
    grid,       \* the day the grid shows
    loads,      \* days asked for and not yet answered
    sheet,      \* the open sheet
    request,    \* each handler's request
    outside, drops

dayVars == <<agenda, header, grid, loads, sheet, request, outside, drops>>

Gone == [from |-> 0, to |-> 0]
DaysOf == 0 .. (Horizon - 1) \div DayLength
Windows == {w \in [from : 0..Horizon, to : 0..Horizon] : w.from < w.to}
ASSUME StandingWindows == \A e \in DOMAIN Standing : Standing[e] \in Windows
NoSheet == [mode |-> "none", entry |-> "none", was |-> Gone, window |-> Gone,
            warned |-> FALSE, by |-> "none"]
FreeHandler == [at |-> "free", kind |-> "none", entry |-> "none", window |-> Gone,
                moved |-> FALSE, resized |-> FALSE, confirmed |-> FALSE,
                busy |-> {}, listed |-> {}, before |-> {}, answer |-> "none"]

DayViewTypeOK ==
    /\ agenda \in [Entries -> Windows \cup {Gone}]
    /\ header \in DaysOf /\ grid \in DaysOf /\ loads \subseteq DaysOf
    /\ sheet.mode \in {"none", "block", "edit"} /\ sheet.by \in Handlers \cup {"none"}
    /\ \A h \in Handlers :
        /\ request[h].at \in {"free", "read", "list", "judge", "write", "answer"}
        /\ request[h].kind \in {"none", "block", "edit", "delete"}
        /\ request[h].busy \subseteq Windows
    /\ outside \in 0..MaxOutside /\ drops \in 0..MaxDrops

Held(w) == w.from .. (w.to - 1)
Overlap(v, w) == v.from < w.to /\ w.from < v.to
Present(e) == agenda[e] # Gone
Meets(w) == {e \in Entries : Present(e) /\ Overlap(agenda[e], w)}

\* mergeBusy: the maximal runs of busy cells
BusyRuns(events) ==
    LET cells == UNION {Held(agenda[e]) : e \in events}
    IN {w \in Windows : /\ Held(w) \subseteq cells
                        /\ w.from - 1 \notin cells /\ w.to \notin cells}

DayViewInit ==
    /\ agenda = [e \in Entries |-> IF e \in DOMAIN Standing THEN Standing[e] ELSE Gone]
    /\ header = 0 /\ grid = 0 /\ loads = {}
    /\ sheet = NoSheet
    /\ request = [h \in Handlers |-> FreeHandler]
    /\ outside = 0 /\ drops = 0

-----------------------------------------------------------------------------
(* The screen                                                               *)

\* the arrows and Today; the sheet over a free slot closes
ShowDay(d) ==
    /\ d # header
    /\ header' = d /\ loads' = loads \cup {d}
    /\ sheet' = IF sheet.mode = "block" THEN NoSheet ELSE sheet
    /\ UNCHANGED <<agenda, grid, request, outside, drops>>

\* answers come in any order and the last one is drawn; one may be an error
DayArrives(d) ==
    /\ d \in loads
    /\ loads' = loads \ {d}
    /\ grid' \in {d, grid}
    /\ UNCHANGED <<agenda, header, sheet, request, outside, drops>>

\* a tap on a gap of the grid, which may have been drawn long ago
PickGap ==
    /\ sheet.mode = "none"
    /\ \E t \in 0 .. Horizon - 1, n \in Lengths :
        /\ t \div DayLength = grid /\ t + n <= Horizon
        /\ sheet' = [NoSheet EXCEPT !.mode = "block", !.window = [from |-> t, to |-> t + n]]
    /\ UNCHANGED <<agenda, header, grid, loads, request, outside, drops>>

\* a tap on an event; the fields start as the copy the grid has of it, which is
\* as old as the sheet or older
OpenEvent(e) ==
    /\ sheet.mode = "none"
    /\ Present(e)
    /\ sheet' = [NoSheet EXCEPT !.mode = "edit", !.entry = e,
                  !.was = agenda[e], !.window = agenda[e]]
    /\ UNCHANGED <<agenda, header, grid, loads, request, outside, drops>>

\* The date, the start and the duration are fields of their own, and a list of
\* conflicts on the sheet stays when they change.
ChangeFields ==
    /\ sheet.mode = "edit" /\ sheet.by = "none"
    /\ \E t \in 0 .. Horizon - 1, n \in Lengths :
        /\ t + n <= Horizon
        /\ sheet' = [sheet EXCEPT !.window = [from |-> t, to |-> t + n]]
    /\ sheet' # sheet
    /\ UNCHANGED <<agenda, header, grid, loads, request, outside, drops>>

CloseSheet ==
    /\ sheet.mode # "none"
    /\ sheet' = NoSheet
    /\ UNCHANGED <<agenda, header, grid, loads, request, outside, drops>>

Submit(h, r) ==
    /\ request[h].at = "free" /\ sheet.by = "none"
    /\ request' = [request EXCEPT ![h] = r]
    /\ sheet' = [sheet EXCEPT !.by = h, !.warned = FALSE]
    /\ UNCHANGED <<agenda, header, grid, loads, outside, drops>>

\* POST /calendar/block
SendBlock(h) ==
    /\ sheet.mode = "block"
    /\ Submit(h, [FreeHandler EXCEPT !.at = "read", !.kind = "block", !.window = sheet.window,
                !.before = Meets(sheet.window)])

\* PUT /calendar/event with the fields that differ from what the sheet opened
\* with; "Save anyway" is offered under a list of conflicts only
SendSave(h) ==
    LET startMoved == sheet.window.from # sheet.was.from
        lengthMoved == sheet.window.to - sheet.window.from # sheet.was.to - sheet.was.from
    IN /\ sheet.mode = "edit"
       /\ \E anyway \in {FALSE, sheet.warned}, other \in BOOLEAN :
            /\ startMoved \/ lengthMoved \/ other
            /\ Submit(h, [FreeHandler EXCEPT
                    !.at = IF startMoved /\ lengthMoved THEN "read"
                           ELSE IF lengthMoved THEN "answer" ELSE "write",
                    !.answer = IF lengthMoved /\ ~startMoved THEN "invalid" ELSE "none",
                    !.kind = "edit", !.entry = sheet.entry, !.window = sheet.window,
                    !.moved = startMoved, !.resized = lengthMoved, !.confirmed = anyway])

SendDelete(h) ==
    /\ sheet.mode = "edit"
    /\ Submit(h, [FreeHandler EXCEPT !.at = "write", !.kind = "delete", !.entry = sheet.entry])

-----------------------------------------------------------------------------
(* The server                                                               *)

Replied(h, text) ==
    request' = [request EXCEPT ![h] = [FreeHandler EXCEPT
        !.at = "answer", !.kind = request[h].kind, !.answer = text]]
ToWrite(h) == request' = [request EXCEPT ![h].at = "write", ![h].busy = {}, ![h].listed = {}]
Serving(h, stage, kinds) == request[h].at = stage /\ request[h].kind \in kinds
AfterRead(h) == IF request[h].kind = "block" THEN "judge" ELSE "list"
\* The event is no longer what it was when another request was made.
Disturb(e, R) == request' = [h \in Handlers |-> [R[h] EXCEPT !.before = @ \ {e}]]
QuietServer == UNCHANGED <<header, grid, loads, sheet, outside>>

\* past, no account that can be written to, or a calendar that cannot be read
RefuseTime(h) ==
    /\ Serving(h, "read", {"block", "edit"})
    /\ Replied(h, "unavailable")
    /\ UNCHANGED <<agenda, drops>> /\ QuietServer

\* Mutant of ReadFreeBusy: a calendar that fails counts as free.
ReadWhatAnswers(h) ==
    /\ Serving(h, "read", {"block", "edit"})
    /\ \E answered \in SUBSET Meets(request[h].window) :
        request' = [request EXCEPT ![h].busy = BusyRuns(answered),
                    ![h].at = AfterRead(h)]
    /\ UNCHANGED <<agenda, drops>> /\ QuietServer

\* queryFreeBusy over every enabled calendar, merged; one that fails fails all
ReadFreeBusy(h) ==
    /\ Serving(h, "read", {"block", "edit"})
    /\ request' = [request EXCEPT ![h].busy = BusyRuns(Meets(request[h].window)),
                   ![h].at = AfterRead(h)]
    /\ UNCHANGED <<agenda, drops>> /\ QuietServer

\* listEventsInRange, to name the conflicts; a calendar that fails is skipped
ReadRange(h) ==
    /\ Serving(h, "list", {"edit"})
    /\ \E listed \in SUBSET Meets(request[h].window) :
        request' = [request EXCEPT ![h].listed = listed, ![h].at = "judge"]
    /\ UNCHANGED <<agenda, drops>> /\ QuietServer

JudgeBlock(h) ==
    /\ Serving(h, "judge", {"block"})
    /\ IF request[h].busy # {} THEN Replied(h, "unavailable")
       ELSE ToWrite(h)
    /\ UNCHANGED <<agenda, drops>> /\ QuietServer

\* excludeSelf drops a busy run that equals the new window
JudgeEdit(h) ==
    LET others == request[h].busy \ {request[h].window}
    IN /\ Serving(h, "judge", {"edit"})
       /\ IF others # {} /\ ~request[h].confirmed
          THEN Replied(h, IF request[h].listed \ {request[h].entry} = {}
                          THEN "unnamed" ELSE "conflict")
          ELSE ToWrite(h)
       /\ UNCHANGED <<agenda, drops>> /\ QuietServer

\* events.insert without an id; the client sends it again when no answer comes
InsertBlock(h) ==
    /\ Serving(h, "write", {"block"})
    /\ \/ /\ \E e \in Entries :
            /\ ~Present(e) /\ e \notin DOMAIN Standing
            /\ agenda' = [agenda EXCEPT ![e] = request[h].window]
          /\ \/ Replied(h, "booked") /\ UNCHANGED drops
             \/ /\ drops < MaxDrops /\ drops' = drops + 1
                /\ UNCHANGED request
       \/ Replied(h, "failed") /\ UNCHANGED <<agenda, drops>>
    /\ QuietServer

\* events.patch with the start, and with the end only when the duration was
\* sent; Google refuses an event that ends before it starts
PatchEvent(h) ==
    LET e == request[h].entry
        new == [from |-> IF request[h].moved THEN request[h].window.from ELSE agenda[e].from,
                to |-> IF request[h].moved /\ request[h].resized
                       THEN request[h].window.to ELSE agenda[e].to]
    IN /\ Serving(h, "write", {"edit"})
       /\ \/ ~Present(e) /\ Replied(h, "not_found") /\ UNCHANGED agenda
          \/ /\ Present(e) /\ new.from < new.to
             /\ agenda' = [agenda EXCEPT ![e] = new]
             /\ Disturb(e, [request EXCEPT ![h].at = "answer", ![h].answer = "updated"])
          \/ Replied(h, "unavailable") /\ UNCHANGED agenda
       /\ UNCHANGED drops /\ QuietServer

\* events.delete; sent again after a lost answer it meets 410
RemoveEvent(h) ==
    /\ Serving(h, "write", {"delete"})
    /\ \/ /\ agenda' = [agenda EXCEPT ![request[h].entry] = Gone]
          /\ Disturb(request[h].entry, [request EXCEPT ![h].at = "answer",
                ![h].answer = IF Present(request[h].entry) THEN "deleted" ELSE "not_found"])
       \/ Replied(h, "unavailable") /\ UNCHANGED agenda
    /\ UNCHANGED drops /\ QuietServer

-----------------------------------------------------------------------------
\* booked, updated and deleted close the sheet and load the day again; a
\* conflict is shown when the answer names one
AnswerArrives(h) ==
    LET text == request[h].answer
    IN /\ request[h].at = "answer" /\ sheet.by = h
       /\ request' = [request EXCEPT ![h] = FreeHandler]
       /\ sheet' = IF \/ text \in {"booked", "updated", "deleted"}
                      \/ text = "not_found" /\ request[h].kind = "delete" THEN NoSheet
                   ELSE [sheet EXCEPT !.by = "none", !.warned = (text = "conflict")]
       /\ loads' = IF text \in {"booked", "updated", "deleted"} THEN loads \cup {header} ELSE loads
       /\ UNCHANGED <<agenda, header, grid, outside, drops>>

\* the sheet was closed, or the connection broke: the server goes on alone
AnswerIgnored(h) ==
    /\ request[h].at = "answer" /\ sheet.by # h
    /\ request' = [request EXCEPT ![h] = FreeHandler]
    /\ UNCHANGED <<agenda, header, grid, loads, sheet, outside, drops>>

ConnectionBreaks ==
    /\ sheet.by # "none" /\ drops < MaxDrops
    /\ drops' = drops + 1
    /\ sheet' = [sheet EXCEPT !.by = "none"]
    /\ UNCHANGED <<agenda, header, grid, loads, request, outside>>

\* Somebody else moves, adds or deletes an event: what was there when a tap was
\* made is no longer there.
OthersChange(e) ==
    /\ outside < MaxOutside
    /\ outside' = outside + 1
    /\ \E w \in Windows \cup {Gone} : agenda' = [agenda EXCEPT ![e] = w]
    /\ Disturb(e, request)
    /\ UNCHANGED <<header, grid, loads, sheet, drops>>

Serve(h) ==
    \/ RefuseTime(h) \/ ReadFreeBusy(h) \/ ReadRange(h) \/ JudgeBlock(h) \/ JudgeEdit(h)
    \/ InsertBlock(h) \/ PatchEvent(h) \/ RemoveEvent(h)
    \/ AnswerArrives(h) \/ AnswerIgnored(h)

DayViewNext ==
    \/ \E d \in DaysOf : ShowDay(d) \/ DayArrives(d)
    \/ PickGap \/ ChangeFields \/ CloseSheet \/ ConnectionBreaks
    \/ \E e \in Entries : OpenEvent(e) \/ OthersChange(e)
    \/ \E h \in Handlers : SendBlock(h) \/ SendSave(h) \/ SendDelete(h) \/ Serve(h)

DayViewSpec == DayViewInit /\ [][DayViewNext]_dayVars

-----------------------------------------------------------------------------
\* A block never lands on an event that was in the calendar when the founder
\* tapped and has stayed where it was, whatever calendar fails to answer and
\* whatever else runs: only what came after the tap can lie under a block.
BlockedTimeWasFree ==
    \A h \in Handlers : Serving(h, "write", {"block"}) => request[h].before = {}

\* "Conflict-detected: when the new time overlaps another event AND
\* confirmConflict is false, returns 'conflict'": with nobody else at work, a
\* save that was not confirmed never puts an event over another.
OverlapIsWarned ==
    [][\A h \in Handlers, e \in Entries :
        Serving(h, "write", {"edit"}) /\ ~request[h].confirmed
            /\ request[h].entry = e /\ agenda'[e] \notin {agenda[e], Gone} =>
            \A f \in Entries \ {e} : Present(f) => ~Overlap(agenda'[e], agenda[f])]_dayVars

=============================================================================
