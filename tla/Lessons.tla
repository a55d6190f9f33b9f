------------------------------- MODULE Lessons -------------------------------
(***************************************************************************)
(* What the founder teaches: rows of agent_memory without a document.  A    *)
(* revise teaches a correction (knowledge/correction-learning.ts) whose      *)
(* confirmation carries a button that moves it between one customer and      *)
(* everybody; the console creates, supersedes and retires guidance          *)
(* (console-memory-repo.ts); a worker turns edited, rejected and directly   *)
(* answered drafts into feedback rows (decisions/feedback-learning.ts).      *)
(* Retrieval, the style lane and the customer brief read the rows.          *)
(***************************************************************************)
EXTENDS Naturals, FiniteSets

CONSTANTS
    Pupils,        \* customers
    Everybody,     \* customer_id NULL: a shared row
    Rows,          \* bound of the model: ids of agent_memory, 1..n
    Resolved,      \* bound of the model: resolved decisions, in the order resolved_at
    Batch,         \* decisions a tick fetches
    Answers        \* for each decision: "modified", "rejected" or "chatter"

ASSUME LessonsAssumption ==
    /\ Everybody \notin Pupils
    /\ Rows \in Nat /\ Resolved \in Nat /\ Batch \in Nat \ {0}
    /\ Answers \in [1..Resolved -> {"modified", "rejected", "chatter"}]

VARIABLES
    lessons,     \* agent_memory, Layer A, by id
    inserting,   \* corrections whose INSERT has found no twin and is not committed
    buttons,     \* flip buttons posted: the row and the absolute target
    resolved,    \* decisions resolved so far
    picked,     \* decisions of the feedback tick that is running
    briefs       \* the lessons each customer's brief was written from

lessonVars == <<lessons, inserting, buttons, resolved, picked, briefs>>

Ids == 1..Rows
Scopes == {"shared", "customer"}
Unused == [kind |-> "none", owner |-> Everybody, origin |-> Everybody, status |-> "active",
           heir |-> 0, decision |-> 0]

LessonsTypeOK ==
    /\ lessons \in [Ids -> [kind : {"none", "correction", "feedback"},
                            owner : Pupils \cup {Everybody}, origin : Pupils \cup {Everybody},
                            status : {"active", "superseded"}, heir : 0..Rows,
                            decision : 0..Resolved]]
    /\ inserting \subseteq [owner : Pupils \cup {Everybody}, origin : Pupils \cup {Everybody}]
    /\ buttons \subseteq (Ids \X Scopes)
    /\ resolved \in 0..Resolved
    /\ picked \subseteq 1..Resolved
    /\ briefs \in [Pupils -> SUBSET Ids]

LessonsInit ==
    /\ lessons = [r \in Ids |-> Unused]
    /\ inserting = {} /\ buttons = {}
    /\ resolved = 0 /\ picked = {}
    /\ briefs = [c \in Pupils |-> {}]

Used == {r \in Ids : lessons[r].kind # "none"}
Alive == {r \in Used : lessons[r].status = "active"}
Free(r) == r \in Ids \ Used /\ \A q \in Ids \ Used : r <= q

-----------------------------------------------------------------------------
(* A revise teaches                                                         *)

\* The classifier has read the instruction in the topic of one customer and
\* named its scope; the INSERT finds no active twin in that scope.
Learn ==
    /\ \E c \in Pupils, scope \in Scopes :
        LET lesson == [owner |-> IF scope = "shared" THEN Everybody ELSE c, origin |-> c] IN
        /\ ~\E r \in Alive : lessons[r].kind = "correction" /\ lessons[r].owner = lesson.owner
        /\ inserting' = inserting \cup {lesson}
    /\ UNCHANGED <<lessons, buttons, resolved, picked, briefs>>

\* It commits; the confirmation, which may not be delivered, offers the other scope.
Learned ==
    /\ \E lesson \in inserting, r \in Ids :
        /\ Free(r)
        /\ lessons' = [lessons EXCEPT ![r] =
                [Unused EXCEPT !.kind = "correction", !.owner = lesson.owner,
                               !.origin = lesson.origin]]
        /\ inserting' = inserting \ {lesson}
        /\ buttons' \in {buttons, buttons \cup
                {<<r, IF lesson.owner = Everybody THEN "customer" ELSE "shared">>}}
    /\ UNCHANGED <<resolved, picked, briefs>>

\* Mutant of FlippedOwner: back to the customer whose topic the tap came from.
FlippedAnywhere(r, target) ==
    IF target = "shared" THEN Everybody ELSE CHOOSE c \in Pupils : c # lessons[r].origin

FlippedOwner(r, target) ==
    IF target = "shared" THEN Everybody ELSE lessons[r].origin

\* A button can be tapped at any time and more than once: its target is absolute.
FlipScope ==
    /\ \E button \in buttons :
        LET r == button[1]  target == button[2] IN
        /\ r \in Alive /\ lessons[r].kind = "correction"
        /\ target = "shared" \/ lessons[r].origin # Everybody
        /\ lessons' = [lessons EXCEPT ![r].owner = FlippedOwner(r, target)]
        /\ buttons' \in {buttons, buttons \cup
                {<<r, IF target = "shared" THEN "customer" ELSE "shared">>}}
    /\ UNCHANGED <<inserting, resolved, picked, briefs>>

-----------------------------------------------------------------------------
(* The console                                                              *)

\* scope 'global' goes with no customer, scope 'customer' with one
CreateGuidance ==
    /\ \E c \in Pupils \cup {Everybody}, r \in Ids :
        /\ Free(r)
        /\ lessons' = [lessons EXCEPT ![r] =
                [Unused EXCEPT !.kind = "correction", !.owner = c, !.origin = c]]
    /\ UNCHANGED <<inserting, buttons, resolved, picked, briefs>>

\* "can be promoted to global, but never silently reattached to a different
\* customer".  The row is locked and checked in the transaction that replaces it.
SupersedeGuidance ==
    /\ \E r \in Alive, q \in Ids, c \in Pupils \cup {Everybody} :
        /\ Free(q)
        /\ c # Everybody => c = lessons[r].owner
        /\ lessons' = [lessons EXCEPT
                ![r].status = "superseded", ![r].heir = q,
                ![q] = [Unused EXCEPT !.kind = "correction", !.owner = c,
                            !.origin = IF lessons[r].owner = Everybody THEN c
                                       ELSE lessons[r].owner]]
    /\ UNCHANGED <<inserting, buttons, resolved, picked, briefs>>

RetireGuidance ==
    /\ \E r \in Alive : lessons' = [lessons EXCEPT ![r].status = "superseded"]
    /\ UNCHANGED <<inserting, buttons, resolved, picked, briefs>>

-----------------------------------------------------------------------------
(* The feedback tick                                                        *)

Resolves ==
    /\ resolved < Resolved /\ resolved' = resolved + 1
    /\ UNCHANGED <<lessons, inserting, buttons, picked, briefs>>

HasMemory(d) == \E r \in Used : lessons[r].kind = "feedback" /\ lessons[r].decision = d

Unlearned == {d \in 1..resolved : ~HasMemory(d)}

\* fetchUnprocessedFeedbackDecisions: the oldest that have no row
FetchDecisions ==
    /\ picked = {}
    /\ picked' = {d \in Unlearned : Cardinality({e \in Unlearned : e < d}) < Batch}
    /\ picked' # {}
    /\ UNCHANGED <<lessons, inserting, buttons, resolved, briefs>>

\* Chatter has nothing to learn from and is skipped, which leaves no trace.
SkipDecision ==
    /\ \E d \in picked : Answers[d] = "chatter" /\ picked' = picked \ {d}
    /\ UNCHANGED <<lessons, inserting, buttons, resolved, briefs>>

WriteFeedback ==
    /\ \E d \in picked, r \in Ids, c \in Pupils :
        /\ Answers[d] # "chatter" /\ Free(r)
        /\ lessons' = [lessons EXCEPT ![r] =
                [Unused EXCEPT !.kind = "feedback", !.owner = c, !.origin = c, !.decision = d]]
        /\ picked' = picked \ {d}
    /\ UNCHANGED <<inserting, buttons, resolved, briefs>>

\* An embedding that fails leaves the decision to the next tick, as a crash does.
DecisionFails ==
    /\ \E d \in picked : picked' = picked \ {d}
    /\ UNCHANGED <<lessons, inserting, buttons, resolved, briefs>>

-----------------------------------------------------------------------------
(* The readers                                                              *)

Rejected(r) == lessons[r].kind = "feedback" /\ Answers[lessons[r].decision] = "rejected"

\* search, hybridSearch and the style lane: the customer's leg and the shared
\* leg, active rows only; retrieval drops rejected drafts.
Retrieved(c) == {r \in Alive : lessons[r].owner \in {c, Everybody} /\ ~Rejected(r)}

\* assembleBriefFacts: the customer's own rows only
SweepBrief ==
    /\ \E c \in Pupils : briefs' = [briefs EXCEPT ![c] = {r \in Alive : lessons[r].owner = c}]
    /\ UNCHANGED <<lessons, inserting, buttons, resolved, picked>>

-----------------------------------------------------------------------------
FeedbackStep == FetchDecisions \/ SkipDecision \/ WriteFeedback

LessonsNext ==
    \/ Learn \/ Learned \/ FlipScope
    \/ CreateGuidance \/ SupersedeGuidance \/ RetireGuidance
    \/ Resolves \/ FeedbackStep \/ DecisionFails
    \/ SweepBrief

LessonsSpec == LessonsInit /\ [][LessonsNext]_lessonVars

-----------------------------------------------------------------------------
\* A lesson told in one customer's topic, or written for one in the console,
\* reaches another customer's drafts only while a founder's choice has it shared,
\* and its brief never, whatever taps, replacements and retirements follow; a
\* row that was replaced or retired, or that records a rejected draft, reaches
\* nobody's drafts.
LessonsStayHome ==
    \A c \in Pupils :
        /\ \A r \in Retrieved(c) :
            /\ lessons[r].owner = Everybody \/ lessons[r].origin = c
            /\ lessons[r].status = "active" /\ ~Rejected(r)
        /\ \A r \in briefs[c] : lessons[r].origin = c

=============================================================================
