----------------------------- MODULE Commitments -----------------------------
(***************************************************************************)
(* The founder's promises: the extraction worker                            *)
(* (src/src/adapters/proactive/commitment.worker.ts, commitment-extract.ts) *)
(* reads the sent messages behind a watermark and inserts what they promise *)
(* into agent_commitments (commitment-repo.ts), where the founder marks it   *)
(* done or dismisses it (commitment-decision-handler.ts).                   *)
(*                                                                         *)
(* A sent message is an id of agent_inbox.  Ids are given out in order, but *)
(* rows become visible when they commit.                                    *)
(***************************************************************************)
EXTENDS Naturals, FiniteSets

CONSTANTS
    Sent,          \* bound of the model: sent messages, by id
    Promisee,      \* the customer a message went to
    BatchLimit,    \* COMMITMENT_TRACKING_BATCH
    MaxOutages     \* bound of the model: failing extractions and crashes

SentMessages == 1..Sent
Promisees == {Promisee[m] : m \in SentMessages}

ASSUME CommitmentsAssumption ==
    /\ Sent \in Nat /\ DOMAIN Promisee = 1..Sent
    /\ BatchLimit \in Nat \ {0} /\ MaxOutages \in Nat

VARIABLES
    visible,    \* committed rows of agent_inbox
    watermark,  \* commitment:outbound-watermark; Sent + 1 stands for no watermark
    promises,   \* agent_commitments: customer and status, by row
    scan,       \* the tick: rows read, customers left, whether one has failed
    extracted,  \* history: messages whose promises were inserted or found open
    overtaken,  \* history: rows that committed after one with a higher id
    outages

commitVars == <<visible, watermark, promises, scan, extracted, overtaken, outages>>

NotSeeded == Sent + 1
NoScan == [at |-> "idle", rows |-> {}, left |-> {}, failed |-> FALSE]

CommitmentsTypeOK ==
    /\ visible \subseteq SentMessages
    /\ watermark \in 0..NotSeeded
    /\ \A p \in promises : p.who \in Promisees /\ p.from \subseteq SentMessages
                           /\ p.status \in {"open", "resolved"}
    /\ scan \in [at : {"idle", "extract", "save"}, rows : SUBSET SentMessages,
                 left : SUBSET Promisees, failed : BOOLEAN]
    /\ extracted \subseteq SentMessages /\ overtaken \subseteq SentMessages
    /\ outages \in 0..MaxOutages

CommitmentsInit ==
    /\ visible = {} /\ watermark = NotSeeded
    /\ promises = {} /\ scan = NoScan
    /\ extracted = {} /\ overtaken = {}
    /\ outages = 0

-----------------------------------------------------------------------------
MessageCommits ==
    /\ \E m \in SentMessages \ visible :
        /\ visible' = visible \cup {m}
        /\ overtaken' = IF \E k \in visible : k > m THEN overtaken \cup {m} ELSE overtaken
    /\ UNCHANGED <<watermark, promises, scan, extracted, outages>>

\* the first tick looks at nothing
SeedWatermark ==
    /\ scan = NoScan /\ watermark = NotSeeded
    /\ watermark' = CHOOSE n \in 0..Sent : (\A m \in visible : m <= n) /\ (n = 0 \/ n \in visible)
    /\ UNCHANGED <<visible, promises, scan, extracted, overtaken, outages>>

\* the next rows behind the watermark, by id
ReadSent ==
    /\ scan = NoScan /\ watermark # NotSeeded
    /\ LET fresh == {m \in visible : m > watermark}
           rows == {m \in fresh : Cardinality({k \in fresh : k < m}) < BatchLimit}
       IN /\ rows # {}
          /\ scan' = [at |-> "extract", rows |-> rows, left |-> {Promisee[m] : m \in rows},
                      failed |-> FALSE]
    /\ UNCHANGED <<visible, watermark, promises, extracted, overtaken, outages>>

RowsOf(c) == {m \in scan.rows : Promisee[m] = c}
OpenFor(c) == {p \in promises : p.who = c /\ p.status = "open"}

DoneWith(c, failed) ==
    scan' = [scan EXCEPT !.left = @ \ {c}, !.failed = @ \/ failed,
                         !.at = IF scan.left = {c} THEN "save" ELSE "extract"]

\* insertCommitmentIfNew: a promise that is open already is not inserted again.
\* (Every message of a customer promises the same; other texts do not meet.)
Promise(c) ==
    IF OpenFor(c) # {} THEN CHOOSE p \in OpenFor(c) : TRUE
    ELSE [who |-> c, from |-> RowsOf(c), status |-> "open"]

ExtractCustomer(c) ==
    /\ scan.at = "extract" /\ c \in scan.left
    /\ promises' = promises \cup {Promise(c)}
    /\ extracted' = extracted \cup RowsOf(c)
    /\ DoneWith(c, FALSE)
    /\ UNCHANGED <<visible, watermark, overtaken, outages>>

ExtractionFails(c) ==
    /\ scan.at = "extract" /\ c \in scan.left
    /\ outages < MaxOutages /\ outages' = outages + 1
    /\ DoneWith(c, TRUE)
    /\ UNCHANGED <<visible, watermark, promises, extracted, overtaken>>

\* Mutant of SaveWatermark: the watermark moves on over a failure.
SaveAnyway ==
    /\ scan.at = "save"
    /\ watermark' = CHOOSE m \in scan.rows : \A k \in scan.rows : k <= m
    /\ scan' = NoScan
    /\ UNCHANGED <<visible, promises, extracted, overtaken, outages>>

\* A failed batch holds the watermark: the next tick reads the same rows again.
SaveWatermark ==
    /\ scan.at = "save"
    /\ watermark' = IF scan.failed THEN watermark
                    ELSE CHOOSE m \in scan.rows : \A k \in scan.rows : k <= m
    /\ scan' = NoScan
    /\ UNCHANGED <<visible, promises, extracted, overtaken, outages>>

ExtractorDies ==
    /\ scan # NoScan
    /\ outages < MaxOutages /\ outages' = outages + 1
    /\ scan' = NoScan
    /\ UNCHANGED <<visible, watermark, promises, extracted, overtaken>>

\* setCommitmentStatus, guarded by status = 'open'
ResolvePromise ==
    /\ \E p \in promises :
        /\ p.status = "open"
        /\ promises' = (promises \ {p}) \cup {[p EXCEPT !.status = "resolved"]}
    /\ UNCHANGED <<visible, watermark, scan, extracted, overtaken, outages>>

-----------------------------------------------------------------------------
ScanStep ==
    \/ SeedWatermark \/ ReadSent \/ SaveWatermark
    \/ \E c \in Promisees : ExtractCustomer(c)

CommitmentsNext ==
    \/ MessageCommits \/ ScanStep \/ ExtractorDies \/ ResolvePromise
    \/ \E c \in Promisees : ExtractionFails(c)

CommitmentsSpec == CommitmentsInit /\ [][CommitmentsNext]_commitVars

-----------------------------------------------------------------------------
\* Once it is set, the watermark only moves on, and over nothing that was not asked
\* for: what lies between its old and its new place has been extracted, for each of
\* its customers, or committed after a row with a higher id.
WatermarkPassesNothing ==
    [][watermark # NotSeeded =>
        /\ watermark' >= watermark
        /\ \A m \in visible : m > watermark /\ m <= watermark' => m \in extracted \cup overtaken]_commitVars

=============================================================================
