------------------------------ MODULE Knowledge ------------------------------
(***************************************************************************)
(* The mirrors of the document folders: knowledge/sync.ts keeps the         *)
(* customer-facing guides and the portal's task inventory in                *)
(* knowledge_documents (the manifest) and agent_memory (the chunks that are  *)
(* searched), knowledge/internal-sync.ts keeps the internal documents in    *)
(* internal_knowledge, whose rows are chunk and manifest in one.  Each      *)
(* worker runs one pass at a time under its advisory lock; the guide and    *)
(* the task workers share one manifest under different locks.               *)
(*                                                                         *)
(* A document is a version number, 0 when it is not there; the version also *)
(* stands for its hash and its text.                                       *)
(***************************************************************************)
EXTENDS Naturals, FiniteSets

CONSTANTS
    Docs,           \* doc keys
    DocSources,        \* source ids
    SourceOf,       \* the source of a doc; the internal documents count as one source
    KeeperOf,       \* the worker that scans a source: "docs", "tasks" or "internal"
    Owners,         \* customers, and Shared
    Shared,         \* customer_id NULL
    Unresolved,     \* a bpRef without a customer
    TombstoneHalves,\* KNOWLEDGE_TOMBSTONE_MAX_RATIO in halves: 1 is its default 0.5, 2 its maximum
    MaxVersion,     \* bound of the model: versions of a doc
    MaxEdits,       \* bound of the model: changes of the folders and of the scopes
    MaxBreaks       \* bound of the model: failing calls, empty scans and crashes

ASSUME KnowledgeAssumption ==
    /\ SourceOf \in [Docs -> DocSources]
    /\ KeeperOf \in [DocSources -> {"docs", "tasks", "internal"}]
    /\ Shared \in Owners /\ Unresolved \notin Owners
    /\ TombstoneHalves \in 0..2
    /\ MaxVersion \in Nat \ {0} /\ MaxEdits \in Nat /\ MaxBreaks \in Nat

VARIABLES
    disk,        \* what the folders and the portal hold
    ownedBy,       \* the customer a source belongs to
    manifest,    \* knowledge_documents, and internal_knowledge folded by doc
    chunks,      \* the rows a search reaches
    pass,        \* the pass each worker is in
    removed,     \* history: docs that have been taken away at some time
    interrupted, \* history: docs whose manifest was written and chunks were not
    edits, breaks

knowVars == <<disk, ownedBy, manifest, chunks, pass, removed, interrupted, edits, breaks>>

Keepers == {"docs", "tasks", "internal"}
DocsOf(w) == {d \in Docs : KeeperOf[SourceOf[d]] = w}
Mates(d) == {e \in Docs : SourceOf[e] = SourceOf[d]}
NoEntry == [status |-> "none", hash |-> 0, customer |-> Shared]
NoChunks == [hash |-> 0, customer |-> Shared]
Versions == 0..MaxVersion
RestingPass == [at |-> "idle", seen |-> [d \in Docs |-> 0], known |-> [d \in Docs |-> NoEntry],
             owners |-> [s \in DocSources |-> Shared], todo |-> {}, gone |-> {}, doc |-> {}]

KnowledgeTypeOK ==
    /\ disk \in [Docs -> Versions]
    /\ ownedBy \in [DocSources -> Owners \cup {Unresolved}]
    /\ \A d \in Docs :
        /\ manifest[d].status \in {"none", "active", "tombstoned"}
        /\ manifest[d].hash \in Versions /\ manifest[d].customer \in Owners
        /\ chunks[d].hash \in Versions /\ chunks[d].customer \in Owners
    /\ \A w \in Keepers :
        /\ pass[w].at \in {"idle", "writing", "embedding", "deleting"}
        /\ pass[w].todo \cup pass[w].gone \cup pass[w].doc \subseteq Docs
        /\ (pass[w].at \in {"embedding", "deleting"}) <=> (Cardinality(pass[w].doc) = 1)
    /\ removed \subseteq Docs /\ interrupted \subseteq Docs
    /\ edits \in 0..MaxEdits /\ breaks \in 0..MaxBreaks

KnowledgeInit ==
    /\ disk \in [Docs -> {0, 1}]
    /\ ownedBy = [s \in DocSources |-> Shared]
    /\ manifest = [d \in Docs |-> NoEntry] /\ chunks = [d \in Docs |-> NoChunks]
    /\ pass = [w \in Keepers |-> RestingPass]
    /\ removed = {} /\ interrupted = {}
    /\ edits = 0 /\ breaks = 0

-----------------------------------------------------------------------------
(* Outside the workers                                                      *)

EditsFolder ==
    /\ edits < MaxEdits /\ edits' = edits + 1
    /\ \E d \in Docs : \E v \in Versions \ {disk[d]} :
        /\ disk' = [disk EXCEPT ![d] = v]
        /\ removed' = IF v = 0 THEN removed \cup {d} ELSE removed
    /\ UNCHANGED <<ownedBy, manifest, chunks, pass, interrupted, breaks>>

\* A source is registered for a customer, or its bpRef is given to another one;
\* the internal documents belong to nobody.
Rescope ==
    /\ edits < MaxEdits /\ edits' = edits + 1
    /\ \E s \in DocSources : \E c \in (Owners \cup {Unresolved}) \ {ownedBy[s]} :
        KeeperOf[s] # "internal" /\ ownedBy' = [ownedBy EXCEPT ![s] = c]
    /\ UNCHANGED <<disk, manifest, chunks, pass, removed, interrupted, breaks>>

-----------------------------------------------------------------------------
(* One pass of a worker                                                     *)

\* The sources a scan can find empty though they are not: a portal call that
\* fails leaves a customer's tasks out, an unmounted folder the internal docs.
\* The guides' scan throws instead, and that pass does nothing.
MayBlank(s) == KeeperOf[s] \in {"tasks", "internal"}

\* Mutant of Sweepable: an empty scan reads as "all removed".
SweepableWhenEmpty(d, seen) == TRUE

\* A source that scanned no document is unknown, never all-removed.
Sweepable(d, seen) == \E e \in Mates(d) : seen[e] # 0

\* the rows of the worker's own documents, which are all it compares
KnownOwner(w) == [d \in Docs |-> IF d \in DocsOf(w) THEN manifest[d] ELSE NoEntry]

\* The scan and the manifest are read before any write.  The manifest is read
\* whole, the other workers' documents with it.
Scan(w) ==
    /\ pass[w].at = "idle"
    /\ \E blank \in SUBSET {s \in DocSources : KeeperOf[s] = w /\ MayBlank(s)} :
        LET seen == [d \in Docs |-> IF d \in DocsOf(w) /\ SourceOf[d] \notin blank
                                    THEN disk[d] ELSE 0]
            \* every source of the manifest takes part, a fail-closed one does not
            taken == {d \in Docs : Sweepable(d, seen) /\ ownedBy[SourceOf[d]] # Unresolved}
            absent == {d \in taken : manifest[d].status = "active" /\ seen[d] = 0}
            \* too many of a source's documents gone at once is refused
            refused(d) == 2 * Cardinality({e \in absent : SourceOf[e] = SourceOf[d]})
                            > TombstoneHalves * Cardinality({e \in Mates(d) : manifest[e].status = "active"})
        IN /\ blank # {} => breaks < MaxBreaks
           /\ breaks' = IF blank # {} THEN breaks + 1 ELSE breaks
           /\ pass' = [pass EXCEPT ![w] =
                [at |-> "writing", seen |-> seen, known |-> KnownOwner(w), owners |-> ownedBy,
                 todo |-> {d \in taken : seen[d] # 0},
                 gone |-> {d \in absent : ~refused(d)}, doc |-> {}]]
    /\ UNCHANGED <<disk, ownedBy, manifest, chunks, removed, interrupted, edits>>

\* Same hash, active, same customer: nothing is embedded.
Fresh(w, d) ==
    LET row == pass[w].known[d] IN
    /\ row.status = "active" /\ row.hash = pass[w].seen[d]
    /\ row.customer = pass[w].owners[SourceOf[d]]

SkipDoc(w) ==
    \E d \in pass[w].todo :
        /\ pass[w].at = "writing" /\ Fresh(w, d)
        /\ pass' = [pass EXCEPT ![w].todo = @ \ {d}]
        /\ UNCHANGED <<disk, ownedBy, manifest, chunks, removed, interrupted, edits, breaks>>

Row(w, d) == [status |-> "active", hash |-> pass[w].seen[d],
              customer |-> pass[w].owners[SourceOf[d]]]
BodyOf(w, d) == [hash |-> pass[w].seen[d], customer |-> pass[w].owners[SourceOf[d]]]

\* writeDoc's first half: the manifest row is written and a tombstone revived.
UpsertDocument(w) ==
    \E d \in pass[w].todo :
        /\ pass[w].at = "writing" /\ w # "internal" /\ ~Fresh(w, d)
        /\ manifest' = [manifest EXCEPT ![d] = Row(w, d)]
        /\ pass' = [pass EXCEPT ![w].at = "embedding", ![w].doc = {d}, ![w].todo = @ \ {d}]
        /\ UNCHANGED <<disk, ownedBy, chunks, removed, interrupted, edits, breaks>>

\* its second half: the chunks are embedded and replaced in one transaction
ReplaceChunks(w) ==
    \E d \in pass[w].doc :
        /\ pass[w].at = "embedding"
        /\ chunks' = [chunks EXCEPT ![d] = BodyOf(w, d)]
        /\ pass' = [pass EXCEPT ![w].at = "writing", ![w].doc = {}]
        /\ interrupted' = interrupted \ {d}
        /\ UNCHANGED <<disk, ownedBy, manifest, removed, edits, breaks>>

\* Mutant of ReplaceDoc: a failed embedding leaves the hash behind.
ReplaceManifestOnly(d, w) ==
    /\ manifest' = [manifest EXCEPT ![d] = Row(w, d)]
    /\ UNCHANGED chunks

\* writeInternalDoc: rows and hash are replaced together, after the embedding.
ReplaceDoc(d, w) ==
    /\ manifest' = [manifest EXCEPT ![d] = Row(w, d)]
    /\ chunks' = [chunks EXCEPT ![d] = BodyOf(w, d)]

WriteInternalDoc ==
    \E d \in pass["internal"].todo :
        /\ pass["internal"].at = "writing" /\ ~Fresh("internal", d)
        /\ ReplaceDoc(d, "internal")
        /\ pass' = [pass EXCEPT !["internal"].todo = @ \ {d}]
        /\ UNCHANGED <<disk, ownedBy, removed, interrupted, edits, breaks>>

\* A document that fails is counted and the loop goes on.
DocFails(w) ==
    /\ breaks < MaxBreaks /\ breaks' = breaks + 1
    /\ \/ \E d \in pass[w].doc :
            /\ pass' = [pass EXCEPT ![w].at = "writing", ![w].doc = {}]
            /\ interrupted' = interrupted \cup {d}
       \/ \E d \in pass[w].todo :
            /\ pass[w].at = "writing" /\ ~Fresh(w, d)
            /\ pass' = [pass EXCEPT ![w].todo = @ \ {d}]
            /\ UNCHANGED interrupted
    /\ UNCHANGED <<disk, ownedBy, manifest, chunks, removed, edits>>

\* A document that is gone: the row is tombstoned, then its chunks are deleted;
\* an internal document's rows are hidden by the same UPDATE.
TombstoneDocument(w) ==
    \E d \in pass[w].gone :
        /\ pass[w].at = "writing" /\ pass[w].todo = {}
        /\ manifest' = [manifest EXCEPT ![d].status = "tombstoned"]
        /\ IF w = "internal"
           THEN /\ chunks' = [chunks EXCEPT ![d] = NoChunks]
                /\ pass' = [pass EXCEPT ![w].gone = @ \ {d}]
           ELSE /\ pass' = [pass EXCEPT ![w].at = "deleting", ![w].doc = {d}, ![w].gone = @ \ {d}]
                /\ UNCHANGED chunks
        /\ UNCHANGED <<disk, ownedBy, removed, interrupted, edits, breaks>>

DeleteChunks(w) ==
    \E d \in pass[w].doc :
        /\ pass[w].at = "deleting"
        /\ chunks' = [chunks EXCEPT ![d] = NoChunks]
        /\ pass' = [pass EXCEPT ![w].at = "writing", ![w].doc = {}]
        /\ UNCHANGED <<disk, ownedBy, manifest, removed, interrupted, edits, breaks>>

PassEnds(w) ==
    /\ pass[w].at = "writing" /\ pass[w].todo = {} /\ pass[w].gone = {}
    /\ pass' = [pass EXCEPT ![w] = RestingPass]
    /\ UNCHANGED <<disk, ownedBy, manifest, chunks, removed, interrupted, edits, breaks>>

\* The process dies, and with its session the lock is free.
PassDies(w) ==
    /\ breaks < MaxBreaks /\ breaks' = breaks + 1
    /\ pass[w].at # "idle"
    /\ pass' = [pass EXCEPT ![w] = RestingPass]
    /\ interrupted' = interrupted \cup pass[w].doc
    /\ UNCHANGED <<disk, ownedBy, manifest, chunks, removed, edits>>

PassStep(w) ==
    \/ Scan(w) \/ SkipDoc(w) \/ UpsertDocument(w) \/ ReplaceChunks(w)
    \/ (w = "internal" /\ WriteInternalDoc)
    \/ TombstoneDocument(w) \/ DeleteChunks(w) \/ PassEnds(w)

KnowledgeNext ==
    \/ EditsFolder \/ Rescope
    \/ \E w \in Keepers : PassStep(w) \/ DocFails(w) \/ PassDies(w)

KnowledgeSpec == KnowledgeInit /\ [][KnowledgeNext]_knowVars

\* A worker's timer starts one pass after the other.
KnowledgeFairSpec == KnowledgeSpec /\ \A w \in Keepers : WF_knowVars(PassStep(w))

-----------------------------------------------------------------------------
\* "a source that scanned 0 docs is "unknown/skip", NEVER "all-removed"": with
\* workers that share one manifest, scans that come back empty, failing writes
\* and crashes, a document is tombstoned only if it has really been taken away.
TombstonedWasGone ==
    \A d \in Docs : manifest[d].status = "tombstoned" => d \in removed

\* What lies in the folders ends up searchable as it lies there, whatever edits,
\* empty scans, failures and crashes came before; only a guide or a task whose
\* manifest row was written without its chunks may stay behind (the next pass
\* reads the hash and skips it), and so may one of a source without a customer.
FoldersAreMirrored ==
    \A d \in Docs :
        <>[](\/ disk[d] = 0 \/ d \in interrupted \/ ownedBy[SourceOf[d]] = Unresolved
             \/ chunks[d].hash = disk[d])

=============================================================================
