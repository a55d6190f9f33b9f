---------------------------- MODULE MCIntakeLive ----------------------------
(* Liveness of what the service takes in, for TLC: the channels, the         *)
(* knowledge folders and the proactive notices. They share no variable, and  *)
(* a behaviour of this module is a behaviour of the one "part" names.        *)
EXTENDS Ingestion, Knowledge, Notices, TLC

CONSTANTS
    Parts,              \* the components of the run
    d1, d2, d3,         \* documents
    c1,                 \* a customer
    n1, n2              \* notices

VARIABLE part

PSourceOf == d1 :> "guides" @@ d2 :> "plans" @@ d3 :> "plans"
PKeeperOf == "guides" :> "docs" @@ "plans" :> "internal"
PSweepOf == n1 :> "event" @@ n2 :> "prep"

intakeVars == <<part, ingestionVars, knowVars, noticeVars>>

\* Where a component has several initial states, the others see one of them; d2
\* and d3, of one source, are interchangeable, so one order of them is enough.
IntakeInit ==
    /\ part \in Parts
    /\ IngestionInit
    /\ part # "ingestion" => source = CHOOSE s \in Sources : TRUE
    /\ KnowledgeInit
    /\ part # "knowledge" => disk = [d \in Docs |-> 0]
    /\ disk[d3] <= disk[d2]
    /\ NoticesInit

IntakeNext ==
    /\ part' = part
    /\ \/ /\ part = "ingestion" /\ IngestionNext
          /\ UNCHANGED <<knowVars, noticeVars>>
       \/ /\ part = "knowledge" /\ KnowledgeNext
          /\ UNCHANGED <<ingestionVars, noticeVars>>
       \/ /\ part = "notices" /\ NoticesNext
          /\ UNCHANGED <<ingestionVars, knowVars>>

\* Each component's own fairness, where it is the one that moves.
IntakeFairness ==
    /\ \A p \in Pollers : WF_ingestionVars(part = "ingestion" /\ PollStep(p))
    /\ \A w \in Keepers : WF_knowVars(part = "knowledge" /\ PassStep(w))
    /\ \A w \in Sweepers : WF_noticeVars(part = "notices" /\ SweepStep(w))
    /\ \A s \in NoticeSweeps :
        SF_noticeVars(part = "notices" /\ \E w \in Sweepers : StartNoticeSweep(w, s))

IntakeFairSpec == IntakeInit /\ [][IntakeNext]_intakeVars /\ IntakeFairness

=============================================================================
