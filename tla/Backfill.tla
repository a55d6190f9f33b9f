------------------------------- MODULE Backfill -------------------------------
(***************************************************************************)
(* The sweep of one customer's history into memory and task proposals, and  *)
(* what the founder's taps make of a proposal: knowledge/backfill.ts with    *)
(* the sinks of adapters/knowledge/backfill-run.factory.ts, and              *)
(* knowledge/backfill-approve.ts with its statements of                      *)
(* decisions/decisions.ts.                                                   *)
(*                                                                           *)
(* A conversation can be read by two legs, from agent_inbox and from the     *)
(* channel itself, under two thread keys.  Two sweeps of one customer may    *)
(* run at once: /backfill, the console and the script each keep a guard of   *)
(* their own.  An INSERT that guards itself by NOT EXISTS is one step.       *)
(***************************************************************************)
EXTENDS Naturals, FiniteSets

CONSTANTS
    Convs,          \* conversations of the customer
    Starred,        \* those the founder starred
    Blank,          \* those with nothing to read
    Sweeps,         \* processes that sweep
    Taps,           \* surfaces a proposal is decided on: Telegram, console
    MaxSweeps,      \* bound: sweeps started
    MaxSnags      \* bound: calls that fail and processes that die

ASSUME BackfillAssumption ==
    /\ Starred \cup Blank \subseteq Convs /\ "none" \notin Taps
    /\ MaxSweeps \in Nat /\ MaxSnags \in Nat

\* The thread keys the legs give a conversation; only the channel knows stars.
Histories == Convs \X {"inbox", "source"}
StarredThreads == Starred \X {"source"}

VARIABLES
    marks,      \* app_state: threads that need no other look
    memories,   \* conversation rows of agent_memory, by thread key
    proposals,  \* backfill_task_proposal rows: [outcome, token]
    carded,     \* proposals with an approval card
    tasks,      \* threads that own a task in the portal
    sweep,      \* [at, todo, now, pend, keep] of each sweep
    tapRun,        \* [at, thread] of each surface
    sweepRuns, snags

backfillVars == <<marks, memories, proposals, carded, tasks, sweep, tapRun, sweepRuns, snags>>

Nothing == <<"none", "none">>
Unswept == [at |-> "off", todo |-> {}, now |-> Nothing, pend |-> {}, keep |-> {}]
Untapped == [at |-> "off", thread |-> Nothing]
Unproposed == [outcome |-> "none", token |-> "none"]

Goes(s, r) == sweep' = [sweep EXCEPT ![s] = r]

(***************************************************************************)
(* The sweep.                                                              *)
(***************************************************************************)

\* readThreads: a leg that cannot be read returns nothing and covers nothing;
\* the inbox copy of a conversation is dropped when the channel returned it.
StartSweep(s) ==
    /\ sweep[s].at = "off" /\ sweepRuns < MaxSweeps
    /\ sweepRuns' = sweepRuns + 1
    /\ \E inbox, source \in SUBSET Convs :
         Goes(s, [Unswept EXCEPT !.at = "loop",
                    !.todo = ((inbox \ source) \X {"inbox"}) \cup (source \X {"source"})])
    /\ UNCHANGED <<marks, memories, proposals, carded, tasks, tapRun, snags>>

\* reconcileThread: a work request the founder starred and no open task covers
\* waits for the collapse; anything else that can be read becomes memory; an
\* empty thread is done with; a thread that could not be classified or embedded
\* is left for another sweep.
TakeThread(s, t) ==
    /\ sweep[s].at = "loop" /\ t \in sweep[s].todo
    /\ LET rest == [sweep[s] EXCEPT !.todo = @ \ {t}] IN
       \/ Goes(s, rest)
       \/ /\ t \notin marks
          /\ \/ /\ t \in StarredThreads /\ t[1] \notin Blank
                /\ Goes(s, [rest EXCEPT !.pend = @ \cup {t}])
             \/ t[1] \notin Blank /\ Goes(s, [rest EXCEPT !.at = "write", !.now = t])
             \/ t[1] \in Blank /\ Goes(s, [rest EXCEPT !.at = "mark", !.now = t])
    /\ UNCHANGED <<marks, memories, proposals, carded, tasks, tapRun, sweepRuns, snags>>

\* writeThen: the row lands and the thread is marked next, or the embedder is
\* down, the sink says so and the thread stays unmarked.
WriteMemory(s) ==
    /\ sweep[s].at = "write"
    /\ \/ /\ memories' = memories \cup {sweep[s].now}
          /\ Goes(s, [sweep[s] EXCEPT !.at = "mark"])
       \/ /\ UNCHANGED memories
          /\ Goes(s, [sweep[s] EXCEPT !.at = "loop", !.now = Nothing])
    /\ UNCHANGED <<marks, proposals, carded, tasks, tapRun, sweepRuns, snags>>

MarkThread(s) ==
    /\ sweep[s].at = "mark"
    /\ marks' = marks \cup {sweep[s].now}
    /\ Goes(s, [sweep[s] EXCEPT !.at = "loop", !.now = Nothing])
    /\ UNCHANGED <<memories, proposals, carded, tasks, tapRun, sweepRuns, snags>>

\* collapseProposals keeps the surest of each cluster and drops what an earlier
\* sweep has carded; every considered thread is marked in the end.
Collapse(s) ==
    /\ sweep[s].at = "loop" /\ sweep[s].todo = {}
    /\ \E keep \in SUBSET sweep[s].pend : Goes(s, [sweep[s] EXCEPT !.at = "emit", !.keep = keep])
    /\ UNCHANGED <<marks, memories, proposals, carded, tasks, tapRun, sweepRuns, snags>>

\* recordBackfillProposal: a thread that has a proposal gets no second one, and
\* no card either.
RecordProposal(s, t) ==
    /\ sweep[s].at = "emit" /\ t \in sweep[s].keep
    /\ IF proposals[t] = Unproposed
         THEN /\ proposals' = [proposals EXCEPT ![t].outcome = "pending"]
              /\ Goes(s, [sweep[s] EXCEPT !.at = "card", !.now = t, !.keep = @ \ {t}])
         ELSE /\ UNCHANGED proposals
              /\ Goes(s, [sweep[s] EXCEPT !.keep = @ \ {t}])
    /\ UNCHANGED <<marks, memories, carded, tasks, tapRun, sweepRuns, snags>>

PostCard(s) ==
    /\ sweep[s].at = "card"
    /\ carded' = carded \cup {sweep[s].now}
    /\ Goes(s, [sweep[s] EXCEPT !.at = "emit", !.now = Nothing])
    /\ UNCHANGED <<marks, memories, proposals, tasks, tapRun, sweepRuns, snags>>

MarkConsidered(s, t) ==
    /\ sweep[s].at = "emit" /\ sweep[s].keep = {} /\ t \in sweep[s].pend
    /\ marks' = marks \cup {t}
    /\ Goes(s, [sweep[s] EXCEPT !.pend = @ \ {t}])
    /\ UNCHANGED <<memories, proposals, carded, tasks, tapRun, sweepRuns, snags>>

EndSweep(s) ==
    /\ sweep[s].at = "emit" /\ sweep[s].keep = {} /\ sweep[s].pend = {}
    /\ Goes(s, Unswept)
    /\ UNCHANGED <<marks, memories, proposals, carded, tasks, tapRun, sweepRuns, snags>>

\* A statement or the card throws, or the process dies.
BreakSweep(s) ==
    /\ sweep[s].at # "off" /\ snags < MaxSnags
    /\ snags' = snags + 1
    /\ Goes(s, Unswept)
    /\ UNCHANGED <<marks, memories, proposals, carded, tasks, tapRun, sweepRuns>>

(***************************************************************************)
(* The founder's decision on a proposal.                                   *)
(***************************************************************************)
Tapped(u, at, t) == tapRun' = [tapRun EXCEPT ![u] = [at |-> at, thread |-> t]]
Unclaimed(t) == proposals[t] = [outcome |-> "pending", token |-> "none"]
Claimed(u) == proposals[tapRun[u].thread] = [outcome |-> "pending", token |-> u]

\* The claim of approveBackfillProposal; the loser is told it is resolved.
ClaimProposal(u, t) ==
    /\ tapRun[u] = Untapped /\ Unclaimed(t)
    /\ proposals' = [proposals EXCEPT ![t].token = u]
    /\ Tapped(u, "create", t)
    /\ UNCHANGED <<marks, memories, carded, tasks, sweep, sweepRuns, snags>>

CreateBackfillTask(u) ==
    /\ tapRun[u].at = "create" /\ tapRun[u].thread \notin tasks
    /\ tasks' = tasks \cup {tapRun[u].thread}
    /\ Tapped(u, "complete", tapRun[u].thread)
    /\ UNCHANGED <<marks, memories, proposals, carded, sweep, sweepRuns, snags>>

\* The customer has no project, or the portal refuses: a task of this thread
\* exists already.
RefuseBackfillTask(u) ==
    /\ tapRun[u].at = "create"
    /\ tapRun[u].thread \in tasks \/ snags < MaxSnags
    /\ snags' = IF tapRun[u].thread \in tasks THEN snags ELSE snags + 1
    /\ Tapped(u, "release", tapRun[u].thread)
    /\ UNCHANGED <<marks, memories, proposals, carded, tasks, sweep, sweepRuns>>

\* The portal made the task and its answer is lost: the call throws.
LoseBackfillTask(u) ==
    /\ tapRun[u].at = "create" /\ tapRun[u].thread \notin tasks /\ snags < MaxSnags
    /\ snags' = snags + 1
    /\ tasks' = tasks \cup {tapRun[u].thread}
    /\ Tapped(u, "release", tapRun[u].thread)
    /\ UNCHANGED <<marks, memories, proposals, carded, sweep, sweepRuns>>

CompleteProposal(u) ==
    /\ tapRun[u].at = "complete"
    /\ proposals' = IF Claimed(u)
                      THEN [proposals EXCEPT ![tapRun[u].thread] =
                                 [outcome |-> "accepted", token |-> "none"]]
                      ELSE proposals
    /\ tapRun' = [tapRun EXCEPT ![u] = Untapped]
    /\ UNCHANGED <<marks, memories, carded, tasks, sweep, sweepRuns, snags>>

ReleaseProposal(u) ==
    /\ tapRun[u].at = "release"
    /\ proposals' = IF Claimed(u) THEN [proposals EXCEPT ![tapRun[u].thread].token = "none"] ELSE proposals
    /\ tapRun' = [tapRun EXCEPT ![u] = Untapped]
    /\ UNCHANGED <<marks, memories, carded, tasks, sweep, sweepRuns, snags>>

\* A slip of the statement: the claim of the other surface is not looked at.
RejectClaimed(t) ==
    /\ proposals[t].outcome = "pending"
    /\ proposals' = [proposals EXCEPT ![t].outcome = "rejected"]
    /\ UNCHANGED <<marks, memories, carded, tasks, sweep, tapRun, sweepRuns, snags>>

RejectProposal(t) ==
    /\ Unclaimed(t)
    /\ proposals' = [proposals EXCEPT ![t].outcome = "rejected"]
    /\ UNCHANGED <<marks, memories, carded, tasks, sweep, tapRun, sweepRuns, snags>>

TapDies(u) ==
    /\ tapRun[u] # Untapped /\ snags < MaxSnags
    /\ snags' = snags + 1
    /\ tapRun' = [tapRun EXCEPT ![u] = Untapped]
    /\ UNCHANGED <<marks, memories, proposals, carded, tasks, sweep, sweepRuns>>

BackfillInit ==
    /\ marks = {} /\ memories = {} /\ carded = {} /\ tasks = {}
    /\ proposals = [t \in Histories |-> Unproposed]
    /\ sweep = [s \in Sweeps |-> Unswept]
    /\ tapRun = [u \in Taps |-> Untapped]
    /\ sweepRuns = 0 /\ snags = 0

BackfillNext ==
    \/ \E s \in Sweeps :
         \/ StartSweep(s) \/ WriteMemory(s) \/ MarkThread(s) \/ Collapse(s)
         \/ PostCard(s) \/ EndSweep(s) \/ BreakSweep(s)
         \/ \E t \in Histories : TakeThread(s, t) \/ RecordProposal(s, t) \/ MarkConsidered(s, t)
    \/ \E u \in Taps :
         \/ CreateBackfillTask(u) \/ RefuseBackfillTask(u) \/ LoseBackfillTask(u)
         \/ CompleteProposal(u) \/ ReleaseProposal(u) \/ TapDies(u)
         \/ \E t \in Histories : ClaimProposal(u, t)
    \/ \E t \in Histories : RejectProposal(t)

BackfillSpec == BackfillInit /\ [][BackfillNext]_backfillVars

(***************************************************************************)
(* Properties.                                                             *)
(***************************************************************************)

\* The values the tables may hold.
BackfillTypeOK ==
    /\ marks \subseteq Histories /\ memories \subseteq Histories /\ tasks \subseteq Histories
    /\ \A t \in Histories :
         /\ proposals[t].outcome \in {"none", "pending", "accepted", "rejected"}
         /\ proposals[t].token \in Taps \cup {"none"}
    /\ carded \subseteq {t \in Histories : proposals[t].outcome # "none"}

\* A proposal is rejected only while no surface works on it, so that nobody
\* makes a task of what the founder has skipped elsewhere (first action wins).
RejectedIsUnworked ==
    \A t \in Histories, u \in Taps :
        proposals[t].outcome = "rejected" => tapRun[u].thread # t

\* A thread no later sweep will look at has left what it was read for: a memory
\* row, or a place among the proposals that were considered (an empty one has
\* nothing to leave), whatever call failed and wherever the sweep broke off.
MarkedIsKept ==
    \A t \in marks : t \in memories \cup StarredThreads \/ t[1] \in Blank

\* A sweep that breaks off and two surfaces that are tapped lose nothing.
NothingIsDropped == RejectedIsUnworked /\ MarkedIsKept

===============================================================================
