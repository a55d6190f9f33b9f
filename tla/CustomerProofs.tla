---------------------------- MODULE CustomerProofs ----------------------------
(***************************************************************************)
(* Theorems about the customers' side, of which MCParts checks the         *)
(* properties: how messages come in (Ingestion) and become work (Triage),  *)
(* what the service promises of itself (Commitments) and says unasked      *)
(* (Notices), the reading of old threads (Backfill), the taking on of      *)
(* customers (Onboarding), what was learned about them (Lessons) and the   *)
(* mirrors of their documents (Knowledge).                                 *)
(* The parts share no variable, and each has its own invariant below.      *)
(***************************************************************************)
EXTENDS
    Ingestion, Triage, Commitments, Notices, Backfill, Onboarding, Lessons, Knowledge,
    FiniteSetTheorems, WellFoundedInduction, TLAPS

-----------------------------------------------------------------------------
(* Numbers.                                                                  *)

\* The least of a set of numbers.
LEMMA LeastOf ==
    ASSUME NEW S \in SUBSET Nat, S # {}
    PROVE  \E v \in S : \A u \in S : v <= u
<1> DEFINE Below(v) == 1..v
           T == {Below(v) : v \in S}
<1>1. ASSUME NEW v \in S PROVE Below(v) \in FiniteSubsetsOf(Nat)
  BY FS_Interval DEF FiniteSubsetsOf
<1>2. T \subseteq FiniteSubsetsOf(Nat) /\ T # {}
  BY <1>1
<1> HIDE DEF T
<1>3. PICK x \in T : \A y \in T : <<y, x>> \notin StrictSubsetOrdering(Nat)
  BY <1>2, WFMin, FS_StrictSubsetOrderingWellFounded
<1>4. PICK v \in S : x = Below(v)
  BY DEF T
<1>5. ASSUME NEW u \in S PROVE v <= u
  <2>1. Below(u) \in T /\ Below(u) \in SUBSET Nat /\ Below(v) \in SUBSET Nat
    BY DEF T
  <2>2. ~(Below(u) \subseteq Below(v) /\ Below(u) # Below(v))
    BY <1>3, <1>4, <2>1 DEF StrictSubsetOrdering
  <2>3. ASSUME u < v PROVE FALSE
    <3>1. Below(u) \subseteq Below(v) /\ v \in Below(v) /\ v \notin Below(u)
      BY <2>3
    <3> QED
      BY <2>2, <3>1
  <2> QED
    BY <2>3
<1> QED
  BY <1>5

-----------------------------------------------------------------------------
(* Ingestion.                                                                *)

Feeds == [born : Nat, stamp : Nat, changes : Nat]
PollRows == [at : {"idle", "page", "history", "profile", "list", "ingest"}, from : Nat, since : Nat,
             offset : Nat, next : Nat, batch : SUBSET (Posts \X (Nat \ {0})), capped : BOOLEAN]

IngestionTypes ==
    /\ source \in Sources /\ clock \in Nat \ {0} /\ started \in Nat
    /\ feed \in [Posts -> Feeds] /\ rows \in [Posts -> Nat]
    /\ bookmark \in [at : Nat, since : Nat] /\ poll \in [Pollers -> PollRows]

\* The provider's clock names each of its posts.
FeedInv ==
    /\ \A m \in Posts : feed[m].stamp <= clock /\ feed[m].born <= feed[m].stamp
    /\ \A m \in Posts : feed[m].stamp > 0 => There(m)
    /\ \A m, n \in Posts : There(m) /\ There(n) /\ feed[m].born = feed[n].born => m = n

\* Everything is in the inbox that changed last at x or before, but on WhatsApp not before
\* the cursor began.
Floor == IF source = "wa" THEN started ELSE 0
DueIn(m, x) == There(m) /\ Floor < feed[m].stamp /\ feed[m].stamp <= x
Behind(x) == \A m \in Posts : DueIn(m, x) => Shown(m)

\* Whether walks are taken to end within the lookback.
Prompt == PromptWalks \/ "wa" \notin Sources

BookInv ==
    /\ bookmark.at <= clock /\ started <= clock
    /\ Prompt /\ source = "wa" => Behind(Minus(bookmark.at, Lookback))
    /\ source = "mail" => bookmark.since <= bookmark.at /\ Behind(bookmark.at)

\* A walk has at each page what had changed last before it began and lies on a page it
\* has read: what the list holds only moves towards its end.
InBatch(q, m) == Shown(m) \/ <<m, TextOf(m)>> \in q.batch
WalkSound(q) ==
    /\ q.at \in {"page", "ingest"}
    /\ Prompt => Behind(q.from) /\ q.next <= q.since + Lookback
    /\ q.at = "page" =>
          /\ Prompt => clock <= q.since + Lookback
          /\ \A m \in Posts : /\ DueIn(m, q.since) /\ q.from < feed[m].stamp
                              => InBatch(q, m) \/ Rank(m, q.from) > q.offset
    /\ q.at = "ingest" /\ ~q.capped =>
          \A m \in Posts : DueIn(m, q.since) /\ q.from < feed[m].stamp => InBatch(q, m)
MailSound(q) ==
    /\ q.at # "page"
    /\ q.at \in {"history", "profile", "list"} => Behind(q.from)
    /\ q.at \in {"list", "ingest"} => q.since <= q.next
    /\ q.at = "ingest" => \A m \in Posts : DueIn(m, q.next) => InBatch(q, m)
PollSound(q) ==
    /\ q.from <= clock /\ q.since <= clock /\ q.next <= clock
    /\ source = "wa" /\ q.at # "idle" => WalkSound(q)
    /\ source = "mail" => MailSound(q)

IngestionInv ==
    /\ IngestionTypes /\ FeedInv /\ BookInv
    /\ \A p \in Pollers : PollSound(poll[p])

\* What a step leaves of the past: a post that has not changed since is shown if it was,
\* and lies no nearer to the head of a list.
Remains ==
    /\ source' = source /\ clock <= clock' /\ started <= started'
    /\ \A n \in Posts : There(n)' /\ feed'[n].stamp <= clock =>
          /\ There(n) /\ feed'[n] = feed[n]
          /\ Shown(n) => Shown(n)'
          /\ source = "wa" => \A x \in Nat : Rank(n, x) <= Rank(n, x)'

LEMMA IngestionFacts ==
    ASSUME IngestionInv
    PROVE  /\ source \in {"wa", "mail", "desk"} /\ clock \in Nat \ {0} /\ started \in Nat
           /\ feed \in [Posts -> Feeds] /\ rows \in [Posts -> Nat]
           /\ bookmark \in [at : Nat, since : Nat] /\ bookmark.at \in Nat /\ bookmark.since \in Nat
           /\ poll \in [Pollers -> PollRows]
           /\ \A m \in Posts : /\ feed[m].born \in Nat /\ feed[m].stamp \in Nat /\ feed[m].changes \in Nat
                               /\ TextOf(m) \in Nat \ {0} /\ (source # "wa" => TextOf(m) # Empty)
           /\ Floor \in Nat
<1>1. \A m \in Posts : /\ feed[m].born \in Nat /\ feed[m].stamp \in Nat /\ feed[m].changes \in Nat
  BY DEF IngestionInv, IngestionTypes, Feeds
<1>2. \A m \in Posts : TextOf(m) \in Nat \ {0} /\ (source # "wa" => TextOf(m) # Empty)
  BY <1>1 DEF TextOf, Empty
<1> QED
  BY <1>1, <1>2, IngestionAssumption DEF IngestionInv, IngestionTypes, Floor

LEMMA PollFields ==
    ASSUME NEW q \in PollRows
    PROVE  /\ q.from \in Nat /\ q.since \in Nat /\ q.offset \in Nat /\ q.next \in Nat
           /\ q.batch \in SUBSET (Posts \X (Nat \ {0})) /\ q.capped \in BOOLEAN
           /\ q.at \in {"idle", "page", "history", "profile", "list", "ingest"}
BY DEF PollRows

\* A past that remains keeps what it was behind.
LEMMA BehindStays ==
    ASSUME IngestionInv, IngestionTypes', Remains, NEW x \in Nat, x <= clock
    PROVE  /\ \A m \in Posts : DueIn(m, x)' => DueIn(m, x) /\ feed'[m] = feed[m] /\ TextOf(m)' = TextOf(m)
                                               /\ (Shown(m) => Shown(m)')
           /\ Behind(x) => Behind(x)'
<1>1. ASSUME NEW m \in Posts, DueIn(m, x)'
      PROVE  /\ DueIn(m, x) /\ feed'[m] = feed[m] /\ TextOf(m)' = TextOf(m)
             /\ Shown(m) => Shown(m)'
  <2>1. There(m)' /\ Floor' < feed'[m].stamp /\ feed'[m].stamp <= x
    BY <1>1 DEF DueIn
  <2>2. feed'[m].stamp \in Nat /\ started \in Nat /\ started' \in Nat /\ clock \in Nat
    BY IngestionFacts DEF IngestionTypes, Feeds
  <2>3. feed'[m].stamp <= clock
    BY <2>1, <2>2
  <2>4. There(m) /\ feed'[m] = feed[m] /\ (Shown(m) => Shown(m)')
    BY <2>1, <2>3 DEF Remains
  <2>5. Floor <= Floor' /\ Floor \in Nat /\ Floor' \in Nat
    BY <2>2 DEF Remains, Floor
  <2>6. Floor < feed[m].stamp
    BY <2>1, <2>2, <2>4, <2>5
  <2> QED
    BY <2>1, <2>4, <2>6 DEF DueIn, TextOf, Remains
<1> QED
  BY <1>1 DEF Behind

LEMMA PollStays ==
    ASSUME IngestionInv, IngestionTypes', Remains, NEW q \in PollRows, PollSound(q),
           Prompt /\ source = "wa" /\ q.at = "page" => clock' <= q.since + Lookback
    PROVE  PollSound(q)'
<1>1. /\ q.from \in Nat /\ q.since \in Nat /\ q.next \in Nat /\ q.offset \in Nat
      /\ clock \in Nat /\ clock' \in Nat /\ source' = source /\ clock <= clock'
  BY PollFields, IngestionFacts DEF IngestionTypes, Remains
<1>2. q.from <= clock /\ q.since <= clock /\ q.next <= clock
  BY DEF PollSound
<1>3. q.from <= clock' /\ q.since <= clock' /\ q.next <= clock'
  BY <1>1, <1>2
<1>4. Behind(q.from) => Behind(q.from)'
  BY <1>1, <1>2, BehindStays
<1>5. \A m \in Posts : /\ DueIn(m, q.since)' => DueIn(m, q.since) /\ (InBatch(q, m) => InBatch(q, m)')
                                                /\ feed'[m] = feed[m]
                       /\ DueIn(m, q.next)' => DueIn(m, q.next) /\ (InBatch(q, m) => InBatch(q, m)')
  BY <1>1, <1>2, BehindStays DEF InBatch
<1>6. ASSUME source = "wa", q.at # "idle" PROVE WalkSound(q)'
  <2>1. WalkSound(q)
    BY <1>6 DEF PollSound
  <2>2. ASSUME NEW m \in Posts, q.at = "page", DueIn(m, q.since)', q.from < feed'[m].stamp
        PROVE  InBatch(q, m)' \/ Rank(m, q.from)' > q.offset
    <3>1. InBatch(q, m) \/ Rank(m, q.from) > q.offset
      BY <1>5, <2>1, <2>2 DEF WalkSound
    <3>2. Rank(m, q.from) <= Rank(m, q.from)'
      <4>1. There(m)' /\ feed'[m].stamp <= q.since
        BY <2>2 DEF DueIn
      <4>2. feed'[m].stamp <= clock
        BY <1>1, <1>2, <4>1, IngestionFacts DEF IngestionTypes, Feeds
      <4> QED
        BY <1>1, <1>6, <4>1, <4>2 DEF Remains
    <3>3. Rank(m, q.from) \in Nat /\ Rank(m, q.from)' \in Nat
      BY FS_Subset, FS_CardinalityType, IngestionAssumption DEF Rank, Listing
    <3> QED
      BY <1>1, <1>5, <2>2, <3>1, <3>2, <3>3
  <2> QED
    BY <1>4, <1>5, <1>6, <2>1, <2>2 DEF WalkSound
<1>7. ASSUME source = "mail" PROVE MailSound(q)'
  <2>1. MailSound(q)
    BY <1>7 DEF PollSound
  <2> QED
    BY <1>4, <1>5, <2>1 DEF MailSound
<1> QED
  BY <1>1, <1>3, <1>6, <1>7 DEF PollSound

\* A poller's step, or the end of it, while the provider's rows stay.
LEMMA PollMovesOn ==
    ASSUME IngestionInv, NEW p \in Pollers, NEW q \in PollRows, poll' = [poll EXCEPT ![p] = q],
           UNCHANGED <<source, clock, feed>>, rows' \in [Posts -> Nat],
           \A n \in Posts : Shown(n) => Shown(n)',
           bookmark' \in [at : Nat, since : Nat], started' \in Nat, started <= started',
           (bookmark' = bookmark /\ started' = started) \/ BookInv', PollSound(q) \/ PollSound(q)'
    PROVE  IngestionInv'
<1>1. /\ poll' \in [Pollers -> PollRows] /\ poll'[p] = q
      /\ \A o \in Pollers : o # p => poll'[o] = poll[o]
  BY IngestionFacts
<1>2. IngestionTypes'
  BY <1>1 DEF IngestionInv, IngestionTypes
<1>3. FeedInv'
  BY DEF IngestionInv, FeedInv, There
<1>4. Remains
  <2>1. \A n \in Posts, x \in Nat : Rank(n, x)' = Rank(n, x) /\ Rank(n, x) \in Nat
    BY FS_Subset, FS_CardinalityType, IngestionAssumption DEF Rank, Listing, Before, There
  <2>2. clock <= clock'
    BY IngestionFacts
  <2> QED
    BY <2>1, <2>2 DEF Remains, There
<1>5. BookInv'
  <2> SUFFICES ASSUME bookmark' = bookmark /\ started' = started PROVE BookInv'
    OBVIOUS
  <2>1. Minus(bookmark.at, Lookback) \in Nat /\ Minus(bookmark.at, Lookback) <= clock
        /\ bookmark.at \in Nat /\ bookmark.at <= clock
    BY IngestionFacts, IngestionAssumption DEF Minus, IngestionInv, BookInv
  <2>2. ASSUME NEW x \in Nat, x <= clock, Behind(x) PROVE Behind(x)'
    BY <1>2, <1>4, <2>2, BehindStays
  <2>3. PICK x \in Nat, y \in Nat :
            x = bookmark.at /\ y = Minus(bookmark.at, Lookback) /\ x <= clock /\ y <= clock
    BY <2>1
  <2>4. (Behind(x) => Behind(x)') /\ (Behind(y) => Behind(y)')
    BY <2>2, <2>3
  <2>5. Minus(bookmark'.at, Lookback) = y
    BY <2>3
  <2>6. /\ Prompt /\ source = "wa" => Behind(y)
        /\ source = "mail" => bookmark.since <= bookmark.at /\ Behind(x)
        /\ bookmark.at <= clock /\ started <= clock
    BY <2>3 DEF IngestionInv, BookInv
  <2> QED
    BY <2>3, <2>4, <2>5, <2>6 DEF BookInv
<1>6. ASSUME NEW o \in Pollers PROVE PollSound(poll[o])'
  <2>1. ASSUME NEW r \in PollRows, PollSound(r) PROVE PollSound(r)'
    <3>1. Prompt /\ source = "wa" /\ r.at = "page" => clock <= r.since + Lookback
      BY <2>1 DEF PollSound, WalkSound
    <3> QED
      BY <1>2, <1>4, <2>1, <3>1, PollStays
  <2>2. PICK r \in PollRows : r = poll[o] /\ PollSound(r)
    BY IngestionFacts DEF IngestionInv
  <2>3. CASE o = p
    <3>1. PollSound(q)'
      BY <2>1
    <3> QED
      BY <1>1, <2>3, <3>1
  <2>4. CASE o # p
    <3>1. PollSound(r)' /\ poll'[o] = r
      BY <1>1, <2>1, <2>2, <2>4
    <3> QED
      BY <3>1
  <2> QED
    BY <2>3, <2>4
<1> QED
  BY <1>2, <1>3, <1>5, <1>6 DEF IngestionInv

\* A post or a change of one comes after all that a cursor or a walk goes by.
LEMMA FeedSteps ==
    ASSUME IngestionInv, NEW m \in Posts, Post(m) \/ Change(m)
    PROVE  IngestionInv'
<1> DEFINE now == clock + 1
<1>0. UNCHANGED <<source, bookmark, started, poll>> /\ clock' = now
  BY DEF Post, Change
<1>1. PICK f \in Feeds : /\ feed' = [feed EXCEPT ![m] = f] /\ f.stamp = now
                         /\ f.born = (IF There(m) THEN feed[m].born ELSE now)
  <2>1. CASE Post(m)
    <3>1. feed' = [feed EXCEPT ![m] = [born |-> now, stamp |-> now, changes |-> 0]] /\ ~There(m)
      BY <2>1, <1>0 DEF Post
    <3>2. [born |-> now, stamp |-> now, changes |-> 0] \in Feeds
      BY IngestionFacts DEF Feeds
    <3> QED
      BY <3>1, <3>2
  <2>2. CASE Change(m)
    <3> DEFINE changes == feed[m].changes + 1
               f == [feed[m] EXCEPT !.stamp = now, !.changes = changes]
    <3>1. There(m) /\ feed' = [feed EXCEPT ![m].stamp = now, ![m].changes = feed[m].changes + 1]
      BY <2>2, <1>0 DEF Change
    <3>2. now \in Nat /\ changes \in Nat /\ feed[m] \in Feeds
      BY IngestionFacts
    <3>3. feed' = [feed EXCEPT ![m] = f]
      BY <3>1, IngestionFacts
    <3> HIDE DEF now, changes
    <3>4. f \in Feeds /\ f.stamp = now /\ f.born = feed[m].born
      BY <3>2 DEF Feeds
    <3> QED
      BY <3>1, <3>3, <3>4
  <2> QED
    BY <2>1, <2>2
<1>2. /\ feed' \in [Posts -> Feeds] /\ feed'[m] = f /\ \A n \in Posts : n # m => feed'[n] = feed[n]
  BY <1>1, IngestionFacts
<1>3. now \in Nat \ {0} /\ clock < now /\ clock <= now
  BY IngestionFacts
<1>4. rows' \in [Posts -> Nat] /\ \A n \in Posts : n # m => rows'[n] = rows[n]
  <2>1. rows' = [rows EXCEPT ![m] = IF rows[m] <= Empty \/ (source = "desk" /\ TextOf(m) > rows[m])
                                    THEN TextOf(m) ELSE rows[m]]
        \/ UNCHANGED rows
    BY DEF Post, Change, Upsert
  <2> QED
    BY <2>1, IngestionFacts
<1> HIDE DEF now
<1>5. IngestionTypes'
  BY <1>0, <1>2, <1>3, <1>4 DEF IngestionInv, IngestionTypes
<1>6. FeedInv'
  <2>1. \A n \in Posts : n # m => /\ feed[n].born <= clock /\ feed[n].born # now /\ feed[n].stamp <= now
                                  /\ feed[n].born <= feed[n].stamp
    BY <1>3, IngestionFacts DEF IngestionInv, FeedInv
  <2>2. f.born <= now /\ f.born \in Nat /\ f.born > 0
    BY <1>1, <1>3, IngestionFacts DEF IngestionInv, FeedInv, There
  <2>3. \A n \in Posts : n # m /\ There(n) => f.born # feed[n].born
    BY <1>1, <1>3, <2>1 DEF IngestionInv, FeedInv
  <2>4. ASSUME NEW n \in Posts PROVE feed'[n].stamp <= clock' /\ feed'[n].born <= feed'[n].stamp
    <3>1. CASE n = m
      BY <1>0, <1>1, <1>2, <1>3, <2>2, <3>1
    <3>2. CASE n # m
      BY <1>0, <1>2, <2>1, <3>2
    <3> QED
      BY <3>1, <3>2
  <2>5. \A n \in Posts : feed'[n].stamp > 0 => There(n)'
    BY <1>2, <2>2 DEF IngestionInv, FeedInv, There
  <2>6. \A n, o \in Posts : There(n)' /\ There(o)' /\ feed'[n].born = feed'[o].born => n = o
    BY <1>2, <2>3 DEF IngestionInv, FeedInv, There
  <2> QED
    BY <2>4, <2>5, <2>6 DEF FeedInv
<1>7. Remains
  <2>1. ASSUME NEW n \in Posts, There(n)', feed'[n].stamp <= clock
        PROVE  n # m /\ feed'[n] = feed[n] /\ There(n)
    BY <1>1, <1>2, <1>3, <2>1, IngestionFacts DEF There
  <2>2. ASSUME NEW n \in Posts, n # m, Shown(n) PROVE Shown(n)'
    BY <1>0, <1>2, <1>4, <2>2 DEF Shown, TextOf
  <2>3. ASSUME NEW n \in Posts, n # m, There(n), source = "wa", NEW x \in Nat
        PROVE  Rank(n, x) <= Rank(n, x)'
    <3> DEFINE S == {o \in Listing(x) : o = n \/ Before(o, n)}
               T == {o \in Posts : o \in Listing(x)' /\ (o = n \/ Before(o, n)')}
    <3>1. Rank(n, x) = Cardinality(S) /\ Rank(n, x)' = Cardinality(T)
      <4>1. {o \in Listing(x)' : o = n \/ Before(o, n)'} = T
        BY DEF Listing
      <4> QED
        BY <4>1 DEF Rank
    <3>2. ASSUME NEW o \in S PROVE o \in T
      <4>1. /\ o \in Posts /\ There(o) /\ feed[o].stamp > x
            /\ o = n \/ feed[o].born > feed[n].born
        BY <2>3, <3>2 DEF Listing, Before
      <4>2. There(o)' /\ feed'[o].born = feed[o].born /\ feed'[o].stamp > x
        <5>1. CASE o = m
          <6>1. feed[m].stamp <= clock /\ feed[m].stamp \in Nat
            BY IngestionFacts DEF IngestionInv, FeedInv
          <6>2. f.stamp > x
            BY <1>1, <1>3, <4>1, <5>1, <6>1, IngestionFacts
          <6> QED
            BY <1>1, <1>2, <4>1, <5>1, <6>2 DEF There
        <5>2. CASE o # m
          BY <1>2, <4>1, <5>2 DEF There
        <5> QED
          BY <5>1, <5>2
      <4>3. o \in Listing(x)'
        BY <1>0, <2>3, <4>1, <4>2 DEF Listing
      <4>4. o = n \/ Before(o, n)'
        BY <1>0, <1>2, <2>3, <4>1, <4>2 DEF Before
      <4> QED
        BY <4>1, <4>3, <4>4
    <3>3. IsFiniteSet(T)
      BY FS_Subset, IngestionAssumption
    <3> HIDE DEF S, T
    <3>4. Cardinality(S) <= Cardinality(T)
      BY <3>2, <3>3, FS_Subset
    <3> QED
      BY <3>1, <3>4
  <2>4. started <= started' /\ clock <= clock' /\ source' = source
    BY <1>0, <1>3, IngestionFacts
  <2> QED
    BY <2>1, <2>2, <2>3, <2>4 DEF Remains
<1>8. BookInv'
  <2>1. PICK x \in Nat, y \in Nat :
            x = bookmark.at /\ y = Minus(bookmark.at, Lookback) /\ x <= clock /\ y <= clock
    BY IngestionFacts, IngestionAssumption DEF Minus, IngestionInv, BookInv
  <2>2. (Behind(x) => Behind(x)') /\ (Behind(y) => Behind(y)')
    BY <1>5, <1>7, <2>1, BehindStays
  <2>3. Minus(bookmark'.at, Lookback) = y
    BY <1>0, <2>1
  <2>4. /\ Prompt /\ source = "wa" => Behind(y)
        /\ source = "mail" => bookmark.since <= bookmark.at /\ Behind(x)
    BY <2>1 DEF IngestionInv, BookInv
  <2>5. bookmark.at <= now /\ started <= now
    BY <1>3, IngestionFacts DEF IngestionInv, BookInv
  <2> QED
    BY <1>0, <2>1, <2>2, <2>3, <2>4, <2>5 DEF BookInv
<1>9. ASSUME NEW p \in Pollers PROVE PollSound(poll[p])'
  <2>1. PICK q \in PollRows : q = poll[p] /\ PollSound(q)
    BY IngestionFacts DEF IngestionInv
  <2>2. Prompt /\ source = "wa" /\ q.at = "page" => clock < q.since + Lookback
    BY <2>1 DEF Prompt, Post, Change, IngestionInv, IngestionTypes
  <2>3. Prompt /\ source = "wa" /\ q.at = "page" => clock' <= q.since + Lookback
    BY <1>0, <2>2, IngestionFacts, IngestionAssumption, PollFields DEF now
  <2>4. PollSound(q)'
    BY <1>5, <1>7, <2>1, <2>3, PollStays
  <2> QED
    BY <1>0, <2>1, <2>4
<1> QED
  BY <1>5, <1>6, <1>8, <1>9 DEF IngestionInv

\* On WhatsApp no two posts of a list lie on one place of it.
LEMMA RanksDiffer ==
    ASSUME IngestionInv, source = "wa", NEW x \in Nat, NEW m \in Listing(x), NEW n \in Listing(x),
           Rank(m, x) = Rank(n, x)
    PROVE  m = n
<1>1. ASSUME NEW a \in Listing(x), NEW b \in Listing(x), feed[a].born > feed[b].born
      PROVE  Rank(a, x) # Rank(b, x)
  <2> DEFINE S == {o \in Listing(x) : o = a \/ Before(o, a)}
             T == {o \in Listing(x) : o = b \/ Before(o, b)}
  <2>1. S \subseteq T /\ b \in T /\ b \notin S
    BY <1>1, IngestionFacts DEF Before, Listing
  <2>2. IsFiniteSet(T)
    BY FS_Subset, IngestionAssumption DEF Listing
  <2>3. Rank(a, x) = Cardinality(S) /\ Rank(b, x) = Cardinality(T)
    BY DEF Rank
  <2> HIDE DEF S, T
  <2> QED
    BY <2>1, <2>2, <2>3, FS_Subset
<1>2. m \in Posts /\ n \in Posts /\ There(m) /\ There(n)
  BY DEF Listing
<1>3. feed[m].born \in Nat /\ feed[n].born \in Nat
  BY <1>2, IngestionFacts
<1>4. ~(feed[m].born > feed[n].born) /\ ~(feed[n].born > feed[m].born)
  BY <1>1
<1> QED
  BY <1>2, <1>3, <1>4 DEF IngestionInv, FeedInv

\* A place on a list is one of 1 to the length of it.
LEMMA RankBounds ==
    ASSUME NEW x \in Nat, NEW m \in Listing(x)
    PROVE  /\ Rank(m, x) \in Nat /\ Cardinality(Listing(x)) \in Nat
           /\ 0 < Rank(m, x) /\ Rank(m, x) <= Cardinality(Listing(x))
<1> DEFINE S == {n \in Listing(x) : n = m \/ Before(n, m)}
<1>1. IsFiniteSet(Listing(x)) /\ S \subseteq Listing(x) /\ S # {}
  BY FS_Subset, IngestionAssumption DEF Listing
<1>2. Rank(m, x) = Cardinality(S)
  BY DEF Rank
<1> HIDE DEF S
<1> QED
  BY <1>1, <1>2, FS_Subset, FS_CardinalityType, FS_EmptySet

LEMMA AsleepSound ==
    ASSUME IngestionInv
    PROVE  Asleep \in PollRows /\ PollSound(Asleep)
<1>1. Asleep \in PollRows
  BY DEF Asleep, PollRows
<1>2. /\ Asleep.from = 0 /\ Asleep.since = 0 /\ Asleep.next = 0 /\ Asleep.at = "idle"
  BY DEF Asleep
<1> QED
  BY <1>1, <1>2, IngestionFacts DEF PollSound, MailSound

LEMMA StartWalkStep ==
    ASSUME IngestionInv, NEW p \in Pollers, StartWalk(p)
    PROVE  IngestionInv'
<1>1. UNCHANGED <<source, clock, feed, rows, blips>> /\ poll[p] = Asleep /\ source # "mail"
  BY DEF StartWalk
<1>2. rows' \in [Posts -> Nat] /\ \A n \in Posts : Shown(n) => Shown(n)'
  BY <1>1, IngestionFacts DEF Shown, TextOf
<1>3. CASE source = "wa" /\ bookmark' = [bookmark EXCEPT !.at = clock] /\ started' = clock /\ UNCHANGED poll
  <2>1. poll' = [poll EXCEPT ![p] = Asleep]
    BY <1>1, <1>3, IngestionFacts
  <2>2. bookmark' \in [at : Nat, since : Nat] /\ bookmark'.at = clock
    BY <1>3, IngestionFacts
  <2>3. started <= started' /\ started' \in Nat
    BY <1>3, IngestionFacts DEF IngestionInv, BookInv
  <2>4. PICK x \in Nat : x = Minus(clock, Lookback) /\ x <= clock
    BY IngestionFacts, IngestionAssumption DEF Minus
  <2>5. \A m \in Posts : ~DueIn(m, x)'
    BY <1>1, <1>3, <2>4, IngestionFacts DEF DueIn, Floor
  <2>6. BookInv'
    BY <1>1, <1>3, <2>2, <2>4, <2>5, IngestionFacts DEF BookInv, Behind
  <2> QED
    BY <1>1, <1>2, <2>1, <2>2, <2>3, <2>6, AsleepSound, PollMovesOn
<1>4. CASE /\ source = "desk" \/ bookmark # Unset
           /\ poll' = [poll EXCEPT ![p] = [Asleep EXCEPT
                !.at = "page", !.since = clock, !.next = bookmark.at,
                !.from = IF source = "wa" THEN Minus(bookmark.at, Lookback) ELSE bookmark.at]]
           /\ UNCHANGED <<bookmark, started>>
  <2>1. PICK x \in Nat : /\ x = (IF source = "wa" THEN Minus(bookmark.at, Lookback) ELSE bookmark.at)
                         /\ x <= clock
    BY IngestionFacts, IngestionAssumption DEF Minus, IngestionInv, BookInv
  <2>2. PICK q \in PollRows :
            /\ poll' = [poll EXCEPT ![p] = q] /\ q.at = "page" /\ q.since = clock
            /\ q.next = bookmark.at /\ q.from = x /\ q.offset = 0
    <3> DEFINE q == [Asleep EXCEPT !.at = "page", !.since = clock, !.next = bookmark.at, !.from = x]
    <3>1. Asleep \in PollRows /\ Asleep.offset = 0
      BY AsleepSound DEF Asleep
    <3>2. q \in PollRows /\ q.at = "page" /\ q.since = clock /\ q.next = bookmark.at /\ q.from = x
          /\ q.offset = 0
      BY <3>1, IngestionFacts DEF PollRows
    <3>3. poll' = [poll EXCEPT ![p] = q]
      BY <1>4, <2>1
    <3> HIDE DEF q
    <3> QED
      BY <3>2, <3>3
  <2>3. bookmark.at <= clock /\ clock <= clock + Lookback /\ bookmark.at <= clock + Lookback
    BY IngestionFacts, IngestionAssumption DEF IngestionInv, BookInv
  <2>4. ASSUME source = "wa" PROVE WalkSound(q)
    <3>1. Prompt => Behind(x)
      BY <2>1, <2>4 DEF IngestionInv, BookInv
    <3>2. ASSUME NEW m \in Posts, DueIn(m, clock), x < feed[m].stamp PROVE Rank(m, x) > 0
      <4>1. m \in Listing(x)
        BY <3>2, IngestionFacts DEF Listing, DueIn
      <4> QED
        BY <4>1, RankBounds
    <3> QED
      BY <2>2, <2>3, <3>1, <3>2 DEF WalkSound
  <2>5. PollSound(q)
    BY <1>1, <2>1, <2>2, <2>3, <2>4, IngestionFacts DEF PollSound
  <2>6. bookmark' \in [at : Nat, since : Nat] /\ started' \in Nat /\ started <= started'
    BY <1>4, IngestionFacts
  <2> QED
    BY <1>1, <1>2, <1>4, <2>2, <2>5, <2>6, PollMovesOn
<1> QED
  BY <1>3, <1>4 DEF StartWalk

\* A page takes the row at the place it asks for.
LEMMA FetchPageStep ==
    ASSUME IngestionInv, NEW p \in Pollers, FetchPage(p)
    PROVE  IngestionInv'
<1>1. UNCHANGED <<source, clock, feed, rows, bookmark, started, blips>>
  BY DEF FetchPage
<1>2. /\ rows' \in [Posts -> Nat] /\ \A n \in Posts : Shown(n) => Shown(n)'
      /\ bookmark' \in [at : Nat, since : Nat] /\ started' \in Nat /\ started <= started'
  BY <1>1, IngestionFacts DEF Shown, TextOf
<1>3. PICK r \in PollRows : r = poll[p] /\ PollSound(r) /\ r.at = "page"
  BY IngestionFacts DEF IngestionInv, FetchPage
<1>4. /\ r.from \in Nat /\ r.since \in Nat /\ r.offset \in Nat /\ r.next \in Nat
      /\ r.batch \in SUBSET (Posts \X (Nat \ {0})) /\ r.capped \in BOOLEAN
      /\ r.from <= clock /\ r.since <= clock /\ r.next <= clock
  BY <1>3, PollFields DEF PollSound
<1>5. ASSUME source = "wa"
      PROVE  /\ WalkSound(r) /\ (Prompt => Behind(r.from) /\ clock <= r.since + Lookback)
             /\ \A m \in Posts : DueIn(m, r.since) /\ r.from < feed[m].stamp /\ ~InBatch(r, m)
                    => m \in Listing(r.from) /\ Rank(m, r.from) > r.offset
  <2>1. WalkSound(r)
    BY <1>3, <1>5 DEF PollSound
  <2> QED
    BY <1>3, <2>1 DEF WalkSound, Listing, DueIn
<1>6. CASE r.offset + 1 > Cardinality(Listing(r.from)) /\ poll' = [poll EXCEPT ![p].at = "ingest"]
  <2>1. PICK q \in PollRows :
            /\ poll' = [poll EXCEPT ![p] = q] /\ q.at = "ingest" /\ q.from = r.from
            /\ q.since = r.since /\ q.next = r.next /\ q.batch = r.batch
    <3> DEFINE q == [r EXCEPT !.at = "ingest"]
    <3>1. q \in PollRows /\ q.at = "ingest" /\ q.from = r.from /\ q.since = r.since /\ q.next = r.next
          /\ q.batch = r.batch
      BY DEF PollRows
    <3>2. poll' = [poll EXCEPT ![p] = q]
      BY <1>3, <1>6, IngestionFacts
    <3> HIDE DEF q
    <3> QED
      BY <3>1, <3>2
  <2>2. ASSUME source = "wa" PROVE WalkSound(q)
    <3>1. ASSUME NEW m \in Posts, DueIn(m, r.since), r.from < feed[m].stamp PROVE InBatch(r, m)
      BY <1>4, <1>5, <1>6, <2>2, <3>1, RankBounds
    <3> QED
      BY <1>5, <2>1, <2>2, <3>1 DEF WalkSound, InBatch
  <2>3. source # "mail"
    BY <1>3 DEF PollSound, MailSound
  <2>4. PollSound(q)
    BY <1>4, <2>1, <2>2, <2>3 DEF PollSound
  <2> QED
    BY <1>1, <1>2, <2>1, <2>4, PollMovesOn
<1>7. ASSUME NEW m \in Listing(r.from), Rank(m, r.from) = r.offset + 1,
             LET k == r.offset + 1
                 cap == source = "wa" /\ k = MaxPages
             IN poll' = [poll EXCEPT
                   ![p].offset = k,
                   ![p].batch = @ \cup {<<m, TextOf(m)>>},
                   ![p].next = IF feed[m].stamp > @ THEN feed[m].stamp ELSE @,
                   ![p].capped = cap,
                   ![p].at = IF cap THEN "ingest" ELSE "page"]
      PROVE  IngestionInv'
  <2> DEFINE k == r.offset + 1
             cap == source = "wa" /\ k = MaxPages
             to == IF feed[m].stamp > r.next THEN feed[m].stamp ELSE r.next
             found == r.batch \cup {<<m, TextOf(m)>>}
             way == IF cap THEN "ingest" ELSE "page"
             q == [r EXCEPT !.offset = k, !.batch = found, !.next = to, !.capped = cap, !.at = way]
  <2>1. poll' = [poll EXCEPT ![p] = q]
    BY <1>3, <1>7, IngestionFacts
  <2>2. /\ m \in Posts /\ k \in Nat /\ cap \in BOOLEAN /\ to \in Nat /\ to <= clock
        /\ found \in SUBSET (Posts \X (Nat \ {0})) /\ way \in {"ingest", "page"}
        /\ (way = "ingest" <=> cap) /\ r.batch \subseteq found /\ <<m, TextOf(m)>> \in found
    BY <1>4, <1>7, IngestionFacts DEF Listing, IngestionInv, FeedInv
  <2> HIDE DEF cap, to, found, way
  <2>3. /\ q \in PollRows /\ q.offset = k /\ q.batch = found /\ q.next = to /\ q.capped = cap
        /\ q.at = way /\ q.from = r.from /\ q.since = r.since
    BY <2>2 DEF PollRows
  <2> HIDE DEF q
  <2>4. ASSUME source = "wa" PROVE WalkSound(q)
    <3>1. Prompt => q.next <= q.since + Lookback
      BY <1>4, <1>5, <2>2, <2>3, <2>4, IngestionFacts, IngestionAssumption
    <3>2. ASSUME NEW n \in Posts, DueIn(n, r.since), r.from < feed[n].stamp
          PROVE  InBatch(q, n) \/ Rank(n, r.from) > k
      <4>1. CASE InBatch(r, n)
        BY <2>2, <2>3, <4>1 DEF InBatch
      <4>2. CASE ~InBatch(r, n)
        <5>1. n \in Listing(r.from) /\ Rank(n, r.from) > r.offset /\ Rank(n, r.from) \in Nat
          BY <1>4, <1>5, <2>4, <3>2, <4>2, RankBounds
        <5>2. CASE Rank(n, r.from) = k
          <6>1. n = m
            BY <1>4, <1>7, <2>4, <5>1, <5>2, RanksDiffer
          <6> QED
            BY <2>2, <2>3, <6>1 DEF InBatch
        <5>3. CASE Rank(n, r.from) # k
          BY <1>4, <5>1, <5>3
        <5> QED
          BY <5>2, <5>3
      <4> QED
        BY <4>1, <4>2
    <3> QED
      BY <1>5, <2>2, <2>3, <2>4, <3>1, <3>2 DEF WalkSound
  <2>5. source # "mail"
    BY <1>3 DEF PollSound, MailSound
  <2>6. PollSound(q)
    BY <1>4, <2>2, <2>3, <2>4, <2>5 DEF PollSound
  <2> QED
    BY <1>1, <1>2, <2>1, <2>3, <2>6, PollMovesOn
<1> QED
  BY <1>3, <1>6, <1>7 DEF FetchPage

\* The history, or the list since the last poll, starts behind what the cursor stands for.
LEMMA StartMailStep ==
    ASSUME IngestionInv, NEW p \in Pollers, StartMail(p)
    PROVE  IngestionInv'
<1>1. UNCHANGED <<source, clock, feed, rows, bookmark, started>> /\ source = "mail"
  BY DEF StartMail
<1>2. /\ rows' \in [Posts -> Nat] /\ \A n \in Posts : Shown(n) => Shown(n)'
      /\ bookmark' \in [at : Nat, since : Nat] /\ started' \in Nat /\ started <= started'
  BY <1>1, IngestionFacts DEF Shown, TextOf
<1>3. PICK at \in {"history", "profile"} :
          poll' = [poll EXCEPT ![p] = [Asleep EXCEPT !.at = at, !.since = clock,
                     !.from = IF at = "history" THEN bookmark.at ELSE bookmark.since]]
  BY DEF StartMail
<1>4. /\ bookmark.at \in Nat /\ bookmark.since \in Nat /\ bookmark.since <= bookmark.at
      /\ bookmark.at <= clock /\ Behind(bookmark.at)
  BY <1>1, IngestionFacts DEF IngestionInv, BookInv
<1>5. PICK x \in Nat : /\ x = (IF at = "history" THEN bookmark.at ELSE bookmark.since)
                       /\ x <= clock /\ Behind(x)
  BY <1>4, IngestionFacts DEF Behind, DueIn
<1>6. PICK q \in PollRows : /\ poll' = [poll EXCEPT ![p] = q] /\ q.at = at /\ q.since = clock
                            /\ q.from = x /\ q.next = 0
  <2> DEFINE q == [Asleep EXCEPT !.at = at, !.since = clock, !.from = x]
  <2>1. Asleep \in PollRows /\ Asleep.next = 0
    BY AsleepSound DEF Asleep
  <2>2. q \in PollRows /\ q.at = at /\ q.since = clock /\ q.from = x /\ q.next = 0
    BY <2>1, IngestionFacts DEF PollRows
  <2>3. poll' = [poll EXCEPT ![p] = q]
    BY <1>3, <1>5
  <2> HIDE DEF q
  <2> QED
    BY <2>2, <2>3
<1>7. PollSound(q)
  BY <1>1, <1>5, <1>6, IngestionFacts DEF PollSound, MailSound
<1> QED
  BY <1>1, <1>2, <1>6, <1>7, PollMovesOn

\* The profile's history id is of before the list.
LEMMA ReadProfileStep ==
    ASSUME IngestionInv, NEW p \in Pollers, ReadProfile(p)
    PROVE  IngestionInv'
<1>1. UNCHANGED <<source, clock, feed, rows, bookmark, started, blips>>
  BY DEF ReadProfile
<1>2. /\ rows' \in [Posts -> Nat] /\ \A n \in Posts : Shown(n) => Shown(n)'
      /\ bookmark' \in [at : Nat, since : Nat] /\ started' \in Nat /\ started <= started'
  BY <1>1, IngestionFacts DEF Shown, TextOf
<1>3. PICK r \in PollRows : r = poll[p] /\ PollSound(r) /\ r.at = "profile"
  BY IngestionFacts DEF IngestionInv, ReadProfile
<1>4. PICK q \in PollRows : /\ poll' = [poll EXCEPT ![p] = q] /\ q.at = "list" /\ q.next = clock
                            /\ q.since = r.since /\ q.from = r.from
  <2> DEFINE q == [r EXCEPT !.at = "list", !.next = clock]
  <2>1. q \in PollRows /\ q.at = "list" /\ q.next = clock /\ q.since = r.since /\ q.from = r.from
    BY IngestionFacts DEF PollRows
  <2>2. poll' = [poll EXCEPT ![p] = q]
    BY <1>3, IngestionFacts DEF ReadProfile
  <2> HIDE DEF q
  <2> QED
    BY <2>1, <2>2
<1>5. source # "wa"
  BY <1>3 DEF PollSound, WalkSound
<1>6. PollSound(q)
  BY <1>3, <1>4, <1>5, IngestionFacts DEF PollSound, MailSound
<1> QED
  BY <1>1, <1>2, <1>4, <1>6, PollMovesOn

\* What changed last up to the new cursor was there before, or is in the batch.
LEMMA ListMailStep ==
    ASSUME IngestionInv, NEW p \in Pollers, ListMail(p)
    PROVE  IngestionInv'
<1>1. UNCHANGED <<source, clock, feed, rows, bookmark, started, blips>>
  BY DEF ListMail
<1>2. /\ rows' \in [Posts -> Nat] /\ \A n \in Posts : Shown(n) => Shown(n)'
      /\ bookmark' \in [at : Nat, since : Nat] /\ started' \in Nat /\ started <= started'
  BY <1>1, IngestionFacts DEF Shown, TextOf
<1>3. PICK r \in PollRows : r = poll[p] /\ PollSound(r) /\ r.at \in {"history", "list", "late"}
  BY IngestionFacts DEF IngestionInv, ListMail
<1>4. /\ r.from \in Nat /\ r.since \in Nat /\ r.next \in Nat /\ r.at \in {"history", "list"}
      /\ r.from <= clock /\ r.since <= clock /\ r.next <= clock
  BY <1>3, PollFields DEF PollSound
<1>5. PICK x \in Nat : x = (IF r.at = "list" THEN r.next ELSE clock) /\ x <= clock
  BY <1>4, IngestionFacts
<1>6. ReadOf(Mails(r.from)) \in SUBSET (Posts \X (Nat \ {0}))
  BY IngestionFacts DEF ReadOf, Mails
<1>7. PICK q \in PollRows : /\ poll' = [poll EXCEPT ![p] = q] /\ q.at = "ingest" /\ q.next = x
                            /\ q.batch = ReadOf(Mails(r.from)) /\ q.since = r.since /\ q.from = r.from
  <2> DEFINE read == ReadOf(Mails(r.from))
             q == [r EXCEPT !.at = "ingest", !.batch = read, !.next = x]
  <2>1. poll' = [poll EXCEPT ![p] = q]
    BY <1>3, <1>4, <1>5, IngestionFacts DEF ListMail
  <2> HIDE DEF read
  <2>2. /\ q \in PollRows /\ q.at = "ingest" /\ q.next = x /\ q.batch = read
        /\ q.since = r.since /\ q.from = r.from
    BY <1>6 DEF PollRows, read
  <2> HIDE DEF q
  <2> QED
    BY <2>1, <2>2 DEF read
<1>8. source # "wa"
  BY <1>3, <1>4 DEF PollSound, WalkSound
<1>9. ASSUME source = "mail" PROVE MailSound(q)
  <2>1. Behind(r.from)
    BY <1>3, <1>4, <1>9 DEF PollSound, MailSound
  <2>2. r.since <= x
    BY <1>3, <1>4, <1>5, <1>9 DEF PollSound, MailSound
  <2>3. ASSUME NEW m \in Posts, DueIn(m, x) PROVE InBatch(q, m)
    <3>1. CASE feed[m].stamp <= r.from
      BY <2>1, <2>3, <3>1 DEF Behind, DueIn, InBatch
    <3>2. CASE feed[m].stamp > r.from
      BY <1>7, <2>3, <3>2 DEF InBatch, ReadOf, Mails
    <3> QED
      BY <1>4, <3>1, <3>2, IngestionFacts
  <2> QED
    BY <1>7, <2>2, <2>3 DEF MailSound
<1>10. PollSound(q)
  BY <1>4, <1>5, <1>7, <1>8, <1>9 DEF PollSound
<1> QED
  BY <1>1, <1>2, <1>7, <1>10, PollMovesOn

\* What leaves the batch is in the inbox.
LEMMA IngestNextStep ==
    ASSUME IngestionInv, NEW p \in Pollers, IngestNext(p)
    PROVE  IngestionInv'
<1>1. UNCHANGED <<source, clock, feed, bookmark, started, blips>>
  BY DEF IngestNext
<1>2. PICK r \in PollRows : r = poll[p] /\ PollSound(r) /\ r.at = "ingest"
  BY IngestionFacts DEF IngestionInv, IngestNext
<1>3. /\ r.from \in Nat /\ r.since \in Nat /\ r.next \in Nat /\ r.batch \in SUBSET (Posts \X (Nat \ {0}))
      /\ r.from <= clock /\ r.since <= clock /\ r.next <= clock
  BY <1>2, PollFields DEF PollSound
<1>4. PICK b \in r.batch :
          /\ Upsert(b[1], IF source = "desk" THEN TextOf(b[1]) ELSE b[2])
          /\ poll' = [poll EXCEPT ![p].batch = @ \ {b}]
  BY <1>2 DEF IngestNext
<1>5. PICK m \in Posts, text \in Nat \ {0} : b = <<m, text>>
  <2>1. b[1] \in Posts /\ b[2] \in Nat \ {0} /\ b = <<b[1], b[2]>>
    BY <1>3, <1>4
  <2>2. \E w \in Nat \ {0} : b = <<b[1], w>>
    BY <2>1
  <2> QED
    BY <2>1, <2>2
<1>6. PICK t \in Nat \ {0} : /\ t = (IF source = "desk" THEN TextOf(m) ELSE text)
                             /\ Upsert(m, t) /\ (text = TextOf(m) => t = TextOf(m))
  BY <1>4, <1>5, IngestionFacts
<1>7. rows' = [rows EXCEPT ![m] = IF rows[m] <= Empty \/ (source = "desk" /\ t > rows[m]) THEN t ELSE rows[m]]
  BY <1>6 DEF Upsert
<1>8. /\ rows' \in [Posts -> Nat] /\ \A n \in Posts : n # m => rows'[n] = rows[n]
      /\ rows'[m] = IF rows[m] <= Empty \/ (source = "desk" /\ t > rows[m]) THEN t ELSE rows[m]
  BY <1>7, IngestionFacts
<1>9. /\ \A n \in Posts : Shown(n) => Shown(n)'
      /\ text = TextOf(m) => Shown(m)'
  <2>1. \A n \in Posts : TextOf(n)' = TextOf(n)
    BY <1>1 DEF TextOf
  <2>2. rows[m] \in Nat /\ t \in Nat \ {0} /\ TextOf(m) \in Nat \ {0}
    BY IngestionFacts
  <2>3. Shown(m) => Shown(m)'
    BY <1>8, <2>1, <2>2 DEF Shown, NoRow, Empty
  <2>4. text = TextOf(m) => Shown(m)'
    BY <1>6, <1>8, <2>1, <2>2 DEF Shown, NoRow, Empty
  <2>5. \A n \in Posts : n # m /\ Shown(n) => Shown(n)'
    BY <1>8, <2>1 DEF Shown
  <2> QED
    BY <2>3, <2>4, <2>5
<1>10. PICK q \in PollRows : /\ poll' = [poll EXCEPT ![p] = q] /\ q.at = "ingest" /\ q.next = r.next
                             /\ q.batch = r.batch \ {b} /\ q.since = r.since /\ q.from = r.from
                             /\ q.capped = r.capped
  <2> DEFINE left == r.batch \ {b}
             q == [r EXCEPT !.batch = left]
  <2>1. poll' = [poll EXCEPT ![p] = q]
    BY <1>2, <1>4, IngestionFacts
  <2>2. left \in SUBSET (Posts \X (Nat \ {0}))
    BY <1>3
  <2> HIDE DEF left
  <2>3. /\ q \in PollRows /\ q.at = "ingest" /\ q.next = r.next /\ q.batch = left
        /\ q.since = r.since /\ q.from = r.from /\ q.capped = r.capped
    BY <1>2, <2>2 DEF PollRows
  <2> HIDE DEF q
  <2> QED
    BY <2>1, <2>3 DEF left
<1>11. \A n \in Posts : InBatch(r, n) => InBatch(q, n)'
  <2>1. ASSUME NEW n \in Posts, <<n, TextOf(n)>> \in r.batch PROVE Shown(n)' \/ <<n, TextOf(n)>> \in q.batch
    BY <1>5, <1>9, <1>10, <2>1
  <2>2. \A n \in Posts : TextOf(n)' = TextOf(n)
    BY <1>1 DEF TextOf
  <2> QED
    BY <1>9, <2>1, <2>2 DEF InBatch
<1>12. /\ \A n \in Posts, x \in Nat : DueIn(n, x)' <=> DueIn(n, x)
       /\ \A x \in Nat : Behind(x) => Behind(x)'
  <2>1. \A n \in Posts, x \in Nat : DueIn(n, x)' <=> DueIn(n, x)
    BY <1>1 DEF DueIn, There, Floor
  <2> QED
    BY <1>9, <2>1 DEF Behind
<1>13. source = "wa" => WalkSound(q)'
  BY <1>1, <1>2, <1>3, <1>10, <1>11, <1>12 DEF PollSound, WalkSound
<1>14. source = "mail" => MailSound(q)'
  BY <1>1, <1>2, <1>3, <1>10, <1>11, <1>12 DEF PollSound, MailSound
<1>15. PollSound(q)'
  BY <1>1, <1>3, <1>10, <1>13, <1>14 DEF PollSound
<1> QED
  <2>1. /\ bookmark' \in [at : Nat, since : Nat] /\ started' \in Nat /\ started <= started'
        /\ bookmark' = bookmark /\ started' = started
    BY <1>1, IngestionFacts
  <2>2. rows' \in [Posts -> Nat]
    BY <1>8
  <2> QED
    BY <1>1, <1>9, <1>10, <1>15, <2>1, <2>2, PollMovesOn

\* The cursor goes on to what the whole batch was behind, less the lookback on WhatsApp.
LEMMA SaveBookmarkStep ==
    ASSUME IngestionInv, NEW p \in Pollers, SaveBookmark(p)
    PROVE  IngestionInv'
<1>1. UNCHANGED <<source, clock, feed, rows, started, blips>> /\ poll' = [poll EXCEPT ![p] = Asleep]
  BY DEF SaveBookmark
<1>2. rows' \in [Posts -> Nat] /\ \A n \in Posts : Shown(n) => Shown(n)'
  BY <1>1, IngestionFacts DEF Shown, TextOf
<1>3. PICK r \in PollRows : r = poll[p] /\ PollSound(r) /\ r.at = "ingest" /\ r.batch = {}
  BY IngestionFacts DEF IngestionInv, SaveBookmark
<1>4. /\ r.from \in Nat /\ r.since \in Nat /\ r.next \in Nat
      /\ r.from <= clock /\ r.since <= clock /\ r.next <= clock
  BY <1>3, PollFields DEF PollSound
<1>5. CASE UNCHANGED bookmark
  <2>1. /\ bookmark' \in [at : Nat, since : Nat] /\ started' \in Nat /\ started <= started'
        /\ bookmark' = bookmark /\ started' = started
    BY <1>1, <1>5, IngestionFacts
  <2> QED
    BY <1>1, <1>2, <2>1, AsleepSound, PollMovesOn
<1>6. CASE /\ AdvanceCursor(p)
           /\ bookmark' = [at |-> r.next, since |-> IF source = "mail" THEN r.since ELSE 0]
  <2>1. /\ bookmark' \in [at : Nat, since : Nat] /\ bookmark'.at = r.next
        /\ source = "mail" => bookmark'.since = r.since
    BY <1>4, <1>6
  <2>2. PICK y \in Nat : y = Minus(r.next, Lookback) /\ (Prompt /\ source = "wa" => y <= r.since)
    <3>1. Prompt /\ source = "wa" => r.next <= r.since + Lookback
      BY <1>3 DEF PollSound, WalkSound
    <3> QED
      BY <1>4, <3>1, IngestionAssumption DEF Minus
  <2>3. Prompt /\ source = "wa" => Behind(y)
    <3> SUFFICES ASSUME Prompt, source = "wa", NEW m \in Posts, DueIn(m, y) PROVE Shown(m)
      BY DEF Behind
    <3>1. WalkSound(r) /\ ~r.capped
      BY <1>3, <1>6 DEF PollSound, AdvanceCursor
    <3>2. DueIn(m, r.since)
      BY <1>4, <2>2, IngestionFacts DEF DueIn
    <3> QED
      BY <1>3, <1>4, <3>1, <3>2, IngestionFacts DEF WalkSound, InBatch, Behind, DueIn
  <2>4. source = "mail" => r.since <= r.next /\ Behind(r.next)
    BY <1>3 DEF PollSound, MailSound, Behind, InBatch
  <2>5. \A x \in Nat : Behind(x) => Behind(x)'
    BY <1>1, <1>2 DEF Behind, DueIn, There, Floor
  <2>6. Minus(bookmark'.at, Lookback) = y
    BY <2>1, <2>2
  <2>7. started <= clock
    BY DEF IngestionInv, BookInv
  <2>8. BookInv'
    BY <1>1, <1>4, <2>1, <2>2, <2>3, <2>4, <2>5, <2>6, <2>7 DEF BookInv
  <2>9. started' \in Nat /\ started <= started'
    BY <1>1, IngestionFacts
  <2> QED
    BY <1>1, <1>2, <2>1, <2>8, <2>9, AsleepSound, PollMovesOn
<1> QED
  BY <1>3, <1>5, <1>6 DEF SaveBookmark

LEMMA FailTickStep ==
    ASSUME IngestionInv, NEW p \in Pollers, FailTick(p)
    PROVE  IngestionInv'
<1>1. UNCHANGED <<source, clock, feed, rows, bookmark, started>> /\ poll' = [poll EXCEPT ![p] = Asleep]
  BY DEF FailTick
<1>2. /\ rows' \in [Posts -> Nat] /\ \A n \in Posts : Shown(n) => Shown(n)'
      /\ bookmark' \in [at : Nat, since : Nat] /\ started' \in Nat /\ started <= started'
  BY <1>1, IngestionFacts DEF Shown, TextOf
<1> QED
  BY <1>1, <1>2, AsleepSound, PollMovesOn

LEMMA IngestionInductive == IngestionSpec => []IngestionInv
<1>1. IngestionInit => IngestionInv
  <2> SUFFICES ASSUME IngestionInit PROVE IngestionInv
    OBVIOUS
  <2>1. IngestionTypes
    <3>1. Unset \in [at : Nat, since : Nat] /\ Asleep \in PollRows
      BY DEF Unset, Asleep, PollRows
    <3>2. [born |-> 0, stamp |-> 0, changes |-> 0] \in Feeds
      BY DEF Feeds
    <3> QED
      BY <3>1, <3>2 DEF IngestionTypes, IngestionInit, NoRow
  <2>2. \A m \in Posts : ~There(m) /\ feed[m].stamp = 0 /\ feed[m].born = 0
    BY DEF IngestionInit, There
  <2>3. FeedInv
    BY <2>2 DEF FeedInv, IngestionInit
  <2>4. BookInv
    BY <2>2 DEF BookInv, Behind, DueIn, IngestionInit, Unset
  <2>5. \A p \in Pollers : PollSound(poll[p])
    BY DEF IngestionInit, PollSound, MailSound, Asleep
  <2> QED
    BY <2>1, <2>3, <2>4, <2>5 DEF IngestionInv
<1>2. IngestionInv /\ [IngestionNext]_ingestionVars => IngestionInv'
  <2> SUFFICES ASSUME IngestionInv, [IngestionNext]_ingestionVars PROVE IngestionInv'
    OBVIOUS
  <2>1. CASE UNCHANGED ingestionVars
    <3>1. /\ IngestionTypes' /\ FeedInv' /\ BookInv'
      BY <2>1 DEF ingestionVars, IngestionInv, IngestionTypes, FeedInv, BookInv, There, Behind, DueIn,
                  Floor, Shown, TextOf
    <3>2. \A q \in PollRows : PollSound(q) => PollSound(q)'
      BY <2>1 DEF ingestionVars, PollSound, WalkSound, MailSound, InBatch, Behind, DueIn, Floor, Shown,
                  TextOf, There, Rank, Listing, Before
    <3> QED
      BY <2>1, <3>1, <3>2, IngestionFacts DEF ingestionVars, IngestionInv
  <2>2. CASE \E m \in Posts : Post(m) \/ Change(m)
    BY <2>2, FeedSteps
  <2>3. CASE \E p \in Pollers : PollStep(p) \/ FailTick(p)
    BY <2>3, StartWalkStep, FetchPageStep, StartMailStep, ReadProfileStep, ListMailStep,
       IngestNextStep, SaveBookmarkStep, FailTickStep DEF PollStep
  <2> QED
    BY <2>1, <2>2, <2>3 DEF IngestionNext
<1> QED
  BY <1>1, <1>2, PTL DEF IngestionSpec

\* No cursor passes a message, a transcript or a mail that is not in the inbox, whatever
\* fails and however the provider's list moves while it is walked, as long as no walk of the
\* WhatsApp list outlasts the lookback.
THEOREM NothingPassedOver ==
    ASSUME PromptWalks \/ "wa" \notin Sources
    PROVE  IngestionSpec => []NothingIsPassed
<1>1. IngestionInv => NothingIsPassed
  <2> SUFFICES ASSUME IngestionInv PROVE NothingIsPassed
    OBVIOUS
  <2>1. ASSUME NEW m \in Posts, There(m), source = "wa", feed[m].stamp > started,
               feed[m].stamp <= Minus(bookmark.at, Lookback)
        PROVE  Shown(m)
    <3>1. Floor = started /\ Behind(Minus(bookmark.at, Lookback))
      BY <2>1 DEF IngestionInv, BookInv, Floor, Prompt
    <3> QED
      BY <2>1, <3>1, IngestionFacts DEF Behind, DueIn
  <2>2. ASSUME NEW m \in Posts, There(m), source = "mail", feed[m].stamp <= bookmark.at
        PROVE  Shown(m)
    <3>1. Floor = 0 /\ Behind(bookmark.at)
      BY <2>2 DEF IngestionInv, BookInv, Floor
    <3>2. feed[m].stamp > 0
      BY <2>2, IngestionFacts DEF IngestionInv, FeedInv, There
    <3> QED
      BY <2>2, <3>1, <3>2 DEF Behind, DueIn
  <2> QED
    BY <2>1, <2>2 DEF NothingIsPassed
<1> QED
  BY <1>1, IngestionInductive, PTL

\* A walk of WhatsApp's list that no page cap cut has read its window: what had changed last
\* after its lower bound and before it began is in the inbox when it has written its batch,
\* however long it took and whatever came, changed or failed meanwhile.
WindowIsRead ==
    \A p \in Pollers :
        source = "wa" /\ poll[p].at = "ingest" /\ ~poll[p].capped /\ poll[p].batch = {} =>
            \A m \in Posts :
                /\ There(m) /\ feed[m].stamp > started
                /\ poll[p].from < feed[m].stamp /\ feed[m].stamp <= poll[p].since
                => Shown(m)

\* Without the assumption on walks: each walk reads its window, and no cursor of Gmail's
\* passes a mail that is not in the inbox.
THEOREM WindowsAreRead ==
    IngestionSpec => [](WindowIsRead /\ (source = "mail" => NothingIsPassed))
<1>1. IngestionInv => WindowIsRead
  <2> SUFFICES ASSUME IngestionInv, NEW p \in Pollers, source = "wa", poll[p].at = "ingest",
                      ~poll[p].capped, poll[p].batch = {}, NEW m \in Posts, There(m), feed[m].stamp > started,
                      poll[p].from < feed[m].stamp, feed[m].stamp <= poll[p].since
               PROVE  Shown(m)
    BY DEF WindowIsRead
  <2>1. WalkSound(poll[p])
    BY DEF IngestionInv, PollSound
  <2>2. DueIn(m, poll[p].since)
    BY DEF DueIn, Floor
  <2> QED
    BY <2>1, <2>2 DEF WalkSound, InBatch
<1>2. IngestionInv => (source = "mail" => NothingIsPassed)
  <2> SUFFICES ASSUME IngestionInv, source = "mail", NEW m \in Posts, There(m), feed[m].stamp <= bookmark.at
               PROVE  Shown(m)
    BY DEF NothingIsPassed
  <2>1. Floor = 0 /\ Behind(bookmark.at)
    BY DEF IngestionInv, BookInv, Floor
  <2>2. feed[m].stamp > 0
    BY IngestionFacts DEF IngestionInv, FeedInv, There
  <2> QED
    BY <2>1, <2>2 DEF Behind, DueIn
<1> QED
  BY <1>1, <1>2, IngestionInductive, PTL

\* No post has more changes, and no row or batch more of it, than the feed may bring.
Fullest == 2 + MaxChanges
FeedBounds ==
    /\ blips \in 0..MaxBlips
    /\ \A m \in Posts : feed[m].changes <= MaxChanges /\ rows[m] <= Fullest
    /\ \A p \in Pollers : \A b \in poll[p].batch : b[2] <= Fullest

LEMMA TextBounds ==
    ASSUME IngestionInv, FeedBounds, NEW m \in Posts
    PROVE  TextOf(m) \in Nat /\ TextOf(m) <= Fullest /\ Fullest \in Nat /\ rows[m] \in Nat
<1>1. feed[m].changes \in Nat /\ feed[m].changes <= MaxChanges /\ MaxChanges \in Nat
  BY IngestionFacts, IngestionAssumption DEF FeedBounds
<1>2. rows[m] \in Nat
  BY IngestionFacts
<1> QED
  BY <1>1, <1>2 DEF TextOf, Empty, Fullest

\* A poller's batch grows by what a row may show, shrinks or is emptied.
LEMMA BatchBounds ==
    ASSUME IngestionInv, FeedBounds, UNCHANGED <<feed, rows>>, blips' \in 0..MaxBlips,
           NEW p \in Pollers, \A q \in Pollers \ {p} : poll'[q] = poll[q],
           \A b \in poll'[p].batch : b \in poll[p].batch \/ b[2] <= Fullest
    PROVE  FeedBounds'
BY DEF FeedBounds

LEMMA FeedBoundsStep ==
    ASSUME IngestionInv, FeedBounds, [IngestionNext]_ingestionVars
    PROVE  FeedBounds'
<1>0. /\ blips \in 0..MaxBlips /\ MaxBlips \in Nat /\ MaxChanges \in Nat
      /\ feed \in [Posts -> Feeds] /\ rows \in [Posts -> Nat] /\ poll \in [Pollers -> PollRows]
  BY IngestionFacts, IngestionAssumption DEF FeedBounds
<1>1. ASSUME NEW m \in Posts, NEW t \in Nat, t <= Fullest, Upsert(m, t)
      PROVE  \A n \in Posts : rows'[n] <= Fullest
  <2>1. \A n \in Posts : rows'[n] = rows[n] \/ rows'[n] = t
    BY <1>0, <1>1 DEF Upsert
  <2> QED
    BY <1>1, <2>1 DEF FeedBounds
<1>2. ASSUME NEW m \in Posts, Post(m) PROVE FeedBounds'
  <2> DEFINE f == [born |-> clock + 1, stamp |-> clock + 1, changes |-> 0]
  <2>1. clock' = clock + 1 /\ UNCHANGED poll /\ feed' = [feed EXCEPT ![m] = f]
    BY <1>2 DEF Post
  <2>2. f.changes = 0
    OBVIOUS
  <2> HIDE DEF f
  <2>3. \A n \in Posts : feed'[n].changes <= MaxChanges
    BY <1>0, <2>1, <2>2 DEF FeedBounds
  <2>4. blips' \in 0..MaxBlips
    BY <1>0, <1>2 DEF Post
  <2>5. \A n \in Posts : rows'[n] <= Fullest
    BY <1>1, <1>2, TextBounds DEF Post, FeedBounds
  <2> QED
    BY <2>1, <2>3, <2>4, <2>5 DEF FeedBounds
<1>3. ASSUME NEW m \in Posts, Change(m) PROVE FeedBounds'
  <2> DEFINE f == [feed[m] EXCEPT !.stamp = clock + 1, !.changes = feed[m].changes + 1]
  <2>1. /\ clock' = clock + 1 /\ UNCHANGED <<rows, poll, blips>> /\ feed[m].changes < MaxChanges
        /\ feed' = [feed EXCEPT ![m] = f]
    BY <1>0, <1>3 DEF Change
  <2>2. f.changes = feed[m].changes + 1 /\ feed[m].changes \in Nat
    BY <1>0 DEF Feeds
  <2> HIDE DEF f
  <2>3. \A n \in Posts : feed'[n].changes <= MaxChanges
    BY <1>0, <2>1, <2>2 DEF FeedBounds
  <2> QED
    BY <2>1, <2>3 DEF FeedBounds
<1>4. ASSUME NEW p \in Pollers, NEW q \in PollRows, poll' = [poll EXCEPT ![p] = q],
             UNCHANGED <<feed, rows>>, blips' \in 0..MaxBlips,
             \A b \in q.batch : b \in poll[p].batch \/ b[2] <= Fullest
      PROVE  FeedBounds'
  BY <1>0, <1>4, BatchBounds
<1>5. ASSUME NEW p \in Pollers, SaveBookmark(p) \/ FailTick(p) PROVE FeedBounds'
  <2>1. /\ poll' = [poll EXCEPT ![p] = Asleep] /\ UNCHANGED <<feed, rows>>
        /\ (UNCHANGED blips \/ (blips < MaxBlips /\ blips' = blips + 1))
    BY <1>5 DEF SaveBookmark, FailTick
  <2>2. Asleep \in PollRows /\ Asleep.batch = {}
    BY DEF Asleep, PollRows
  <2>3. blips' \in 0..MaxBlips
    BY <1>0, <2>1
  <2> QED
    BY <1>4, <2>1, <2>2, <2>3
<1>6. ASSUME NEW p \in Pollers, StartWalk(p) \/ StartMail(p) PROVE FeedBounds'
  <2>1. UNCHANGED <<feed, rows>> /\ (UNCHANGED blips \/ (blips < MaxBlips /\ blips' = blips + 1))
    BY <1>6 DEF StartWalk, StartMail
  <2>2. blips' \in 0..MaxBlips
    BY <1>0, <2>1
  <2>3. /\ poll'[p].batch = {} \/ UNCHANGED poll
        /\ \A q \in Pollers \ {p} : poll'[q] = poll[q]
    <3>1. CASE StartWalk(p)
      <4>1. CASE UNCHANGED poll
        BY <4>1
      <4>2. CASE ~UNCHANGED poll
        <5> DEFINE f == IF source = "wa" THEN Minus(bookmark.at, Lookback) ELSE bookmark.at
                   r == [Asleep EXCEPT !.at = "page", !.since = clock, !.next = bookmark.at, !.from = f]
        <5>1. poll' = [poll EXCEPT ![p] = r]
          BY <3>1, <4>2 DEF StartWalk
        <5>2. r.batch = {}
          BY DEF Asleep
        <5> HIDE DEF r
        <5> QED
          BY <1>0, <5>1, <5>2
      <4> QED
        BY <4>1, <4>2
    <3>2. CASE StartMail(p)
      <4>1. PICK at \in {"history", "profile"} :
              poll' = [poll EXCEPT ![p] = [Asleep EXCEPT !.at = at, !.since = clock,
                         !.from = IF at = "history" THEN bookmark.at ELSE bookmark.since]]
        BY <3>2 DEF StartMail
      <4> DEFINE r == [Asleep EXCEPT !.at = at, !.since = clock,
                         !.from = IF at = "history" THEN bookmark.at ELSE bookmark.since]
      <4>2. r.batch = {} /\ poll' = [poll EXCEPT ![p] = r]
        BY <4>1 DEF Asleep
      <4> HIDE DEF r
      <4> QED
        BY <1>0, <4>2
    <3> QED
      BY <1>6, <3>1, <3>2
  <2> QED
    BY <2>1, <2>2, <2>3, BatchBounds
<1>7. ASSUME NEW p \in Pollers, FetchPage(p) \/ ReadProfile(p) PROVE FeedBounds'
  <2>1. \/ poll'[p].batch = poll[p].batch
        \/ \E m \in Posts : poll'[p].batch = poll[p].batch \cup {<<m, TextOf(m)>>}
    <3>1. CASE FetchPage(p)
      <4>1. CASE poll' = [poll EXCEPT ![p].at = "ingest"]
        BY <1>0, <4>1 DEF PollRows
      <4>2. CASE ~(poll' = [poll EXCEPT ![p].at = "ingest"])
        <5> DEFINE k == poll[p].offset + 1
                   cap == source = "wa" /\ k = MaxPages
        <5>1. PICK m \in Listing(poll[p].from) :
                poll' = [poll EXCEPT
                   ![p].offset = k,
                   ![p].batch = @ \cup {<<m, TextOf(m)>>},
                   ![p].next = IF feed[m].stamp > @ THEN feed[m].stamp ELSE @,
                   ![p].capped = cap,
                   ![p].at = IF cap THEN "ingest" ELSE "page"]
          BY <3>1, <4>2 DEF FetchPage
        <5>2. m \in Posts
          BY DEF Listing
        <5> HIDE DEF k, cap
        <5>3. poll'[p].batch = poll[p].batch \cup {<<m, TextOf(m)>>}
          BY <1>0, <5>1 DEF PollRows
        <5> QED
          BY <5>2, <5>3
      <4> QED
        BY <4>1, <4>2
    <3>2. CASE ReadProfile(p)
      BY <1>0, <3>2 DEF ReadProfile, PollRows
    <3> QED
      BY <1>7, <3>1, <3>2
  <2>2. UNCHANGED <<feed, rows, blips>>
    BY <1>7 DEF FetchPage, ReadProfile
  <2>3. \A q \in Pollers \ {p} : poll'[q] = poll[q]
    <3>1. CASE FetchPage(p)
      BY <1>0, <3>1 DEF FetchPage
    <3>2. CASE ReadProfile(p)
      BY <1>0, <3>2 DEF ReadProfile
    <3> QED
      BY <1>7, <3>1, <3>2
  <2> QED
    BY <1>0, <2>1, <2>2, <2>3, TextBounds, BatchBounds
<1>8. ASSUME NEW p \in Pollers, ListMail(p) PROVE FeedBounds'
  <2>1. poll'[p].batch \subseteq poll[p].batch \cup {<<m, TextOf(m)>> : m \in Posts}
    BY <1>0, <1>8 DEF ListMail, ReadOf, Mails, PollRows
  <2>2. UNCHANGED <<feed, rows, blips>> /\ \A q \in Pollers \ {p} : poll'[q] = poll[q]
    BY <1>0, <1>8 DEF ListMail
  <2>3. \A b \in poll'[p].batch : b \in poll[p].batch \/ b[2] <= Fullest
    BY <2>1, TextBounds
  <2> QED
    BY <1>0, <2>2, <2>3, BatchBounds
<1>9. ASSUME NEW p \in Pollers, IngestNext(p) PROVE FeedBounds'
  <2>1. PICK b \in poll[p].batch :
          /\ Upsert(b[1], IF source = "desk" THEN TextOf(b[1]) ELSE b[2])
          /\ poll' = [poll EXCEPT ![p].batch = @ \ {b}]
    BY <1>9 DEF IngestNext
  <2>2. poll[p].batch \in SUBSET (Posts \X (Nat \ {0}))
    BY <1>0, PollFields
  <2>3. b[1] \in Posts /\ b[2] \in Nat /\ b[2] <= Fullest
    BY <2>2 DEF FeedBounds
  <2>4. \A n \in Posts : rows'[n] <= Fullest
    BY <1>1, <2>1, <2>3, TextBounds
  <2>5. /\ poll'[p].batch \subseteq poll[p].batch /\ \A q \in Pollers \ {p} : poll'[q] = poll[q]
        /\ UNCHANGED <<feed, blips>>
    BY <1>0, <1>9, <2>1 DEF IngestNext, PollRows
  <2> QED
    BY <2>4, <2>5 DEF FeedBounds
<1>10. CASE UNCHANGED ingestionVars
  BY <1>10 DEF ingestionVars, FeedBounds
<1> QED
  BY <1>2, <1>3, <1>5, <1>6, <1>7, <1>8, <1>9, <1>10 DEF IngestionNext, PollStep

\* The feed, the rows and what a poller holds stay what they are.
THEOREM IngestionTypesHold == IngestionSpec => []IngestionTypeOK
<1>1. IngestionInit => FeedBounds
  BY IngestionAssumption DEF IngestionInit, FeedBounds, Asleep, NoRow, Fullest
<1>2. IngestionInv /\ FeedBounds /\ [IngestionNext]_ingestionVars => FeedBounds'
  BY FeedBoundsStep
<1>3. IngestionInv /\ FeedBounds => IngestionTypeOK
  <2> SUFFICES ASSUME IngestionInv, FeedBounds PROVE IngestionTypeOK
    OBVIOUS
  <2>1. rows \in [Posts -> 0..2 + MaxChanges]
    BY IngestionFacts, IngestionAssumption DEF FeedBounds, Fullest
  <2> QED
    BY <2>1, IngestionFacts DEF IngestionTypeOK, FeedBounds
<1> QED
  BY <1>1, <1>2, <1>3, IngestionInductive, PTL DEF IngestionSpec

-----------------------------------------------------------------------------
(* Triage.                                                                   *)

MailStates == {"pending", "processing", "processed", "skipped", "failed"}
HandStages == {"idle", "resume", "retell", "route", "gate", "comment", "create", "bridge",
               "record", "announce", "close", "attach"}
WorkStages == {"route", "gate", "comment", "create", "bridge", "record", "announce"}
ProjectMarks == (Inbound \cup {"portal"}) \X Nat \X Nat

MailRows == [status : MailStates, tries : Nat]
PortalRows == [by : {<<>>} \cup ProjectMarks, closed : BOOLEAN, comments : SUBSET ProjectMarks]
BridgeRows == [mail : Inbound, thread : Threads, try : Nat]
HandRows == [mail : Inbound \cup {"none"}, at : HandStages, intent : Nat, made : SUBSET Threads,
             target : Threads \cup {"none"}]

TriageTypes ==
    /\ mailbox \in [Inbound -> MailRows] /\ portal \in [Threads -> PortalRows]
    /\ bridges \in Seq(BridgeRows) /\ hand \in [Hands -> HandRows] /\ slips \in [Inbound -> Nat]

\* What was written to the project of a thread.
Marked(t) == portal[t].comments \cup ({portal[t].by} \ {<<>>})
FirstTold(m) == BridgesOf(m) # {} => <<m, FirstBridge(m).thread>> \in told

\* A replica at work: its row is in processing; what its row is bridged to was bridged by
\* this attempt and was announced, but for the task in hand; and an attempt beyond those
\* that slips account for comes after a refusal, so it finds the thread's task and makes
\* none.
WorkSound(w, m) ==
    /\ w.at # "idle"
    /\ w.at # "attach" => /\ mailbox[m].status = "processing"
                          /\ mailbox[m].tries <= slips[m] + 2
                          /\ mailbox[m].tries = slips[m] + 2 =>
                                /\ portal[ThreadOf[m]] # NoTask
                                /\ ThreadOf[m] \notin w.made /\ w.at # "create"
    /\ w.at = "attach" => mailbox[m].status = "processed"
    /\ w.at \in WorkStages => \A k \in BridgesOf(m) : bridges[k].try = mailbox[m].tries
    /\ w.at = "route" => BridgesOf(m) = {}
    /\ w.at \in {"gate", "comment", "create", "bridge", "close"} => FirstTold(m)
    /\ w.at \in {"record", "announce"} => FirstTold(m) \/ w.target = FirstBridge(m).thread
    /\ w.at \in {"comment", "create", "bridge", "record"} => w.target \in Threads
    /\ w.at = "create" => w.target = ThreadOf[m]

HandSound(h) == hand[h] = Unbusy \/ (hand[h].mail \in Inbound /\ WorkSound(hand[h], hand[h].mail))

OneHand == \A h, g \in Hands : hand[h].mail = hand[g].mail /\ hand[h].mail \in Inbound => h = g

\* A row that waits was tried as often as it slipped, and once more if it was refused;
\* one that is done has had its task announced.
MailWaits(m) ==
    /\ Unheld(m) /\ mailbox[m].status \in {"pending", "processing"} =>
          /\ mailbox[m].tries <= slips[m] + 1
          /\ mailbox[m].tries = slips[m] + 1 => portal[ThreadOf[m]] # NoTask
    /\ mailbox[m].status = "failed" => slips[m] >= MaxTries - 1
    /\ mailbox[m].status = "processed" => FirstTold(m)

\* What was written for a row was written by its attempts, none after one that bridged.
MarksSound(m) ==
    /\ \A k \in BridgesOf(m) : bridges[k].try <= mailbox[m].tries
    /\ \A t \in Threads : \A mark \in Marked(t) :
          mark[1] = m => /\ mark[3] <= mailbox[m].tries
                         /\ \A k \in BridgesOf(m) : mark[3] <= bridges[k].try

TriageInv ==
    /\ TriageTypes /\ OneHand
    /\ \A h \in Hands : HandSound(h)
    /\ \A m \in Inbound : MailWaits(m) /\ MarksSound(m)

LEMMA HandFacts ==
    ASSUME TriageInv, NEW h \in Hands
    PROVE  /\ hand \in [Hands -> HandRows] /\ hand[h] \in HandRows /\ HandSound(h)
           /\ Unbusy \in HandRows /\ Unbusy.mail \notin Inbound /\ Unbusy.at = "idle"
           /\ hand[h].at # "idle" => hand[h].mail \in Inbound
           /\ hand[h].mail \in Inbound \cup {"none"} /\ hand[h].intent \in Nat
           /\ hand[h].made \in SUBSET Threads
           /\ mailbox \in [Inbound -> MailRows] /\ portal \in [Threads -> PortalRows]
           /\ slips \in [Inbound -> Nat] /\ bridges \in Seq(BridgeRows)
           /\ \A m \in Inbound : mailbox[m].tries \in Nat /\ slips[m] \in Nat /\ ThreadOf[m] \in Threads
<1>1. Unbusy \in HandRows /\ Unbusy.mail \notin Inbound /\ Unbusy.at = "idle"
  BY TriageAssumption DEF Unbusy, HandRows, HandStages
<1>2. hand \in [Hands -> HandRows] /\ hand[h] \in HandRows /\ HandSound(h)
  BY DEF TriageInv, TriageTypes
<1>3. /\ hand[h].mail \in Inbound \cup {"none"} /\ hand[h].intent \in Nat
      /\ hand[h].made \in SUBSET Threads
  BY <1>2 DEF HandRows
<1>4. hand[h].at # "idle" => hand[h].mail \in Inbound
  BY <1>1, <1>2 DEF HandSound
<1>5. /\ mailbox \in [Inbound -> MailRows] /\ portal \in [Threads -> PortalRows]
      /\ slips \in [Inbound -> Nat] /\ bridges \in Seq(BridgeRows)
  BY DEF TriageInv, TriageTypes
<1>6. \A m \in Inbound : mailbox[m].tries \in Nat /\ slips[m] \in Nat /\ ThreadOf[m] \in Threads
  BY <1>5, TriageAssumption DEF MailRows
<1> QED
  BY <1>1, <1>2, <1>3, <1>4, <1>5, <1>6

\* A replica takes a step with a row that it holds or that nobody holds: what it leaves of
\* both has to be shown, and nothing else is disturbed.
LEMMA MailMoves ==
    ASSUME TriageInv, NEW h \in Hands, NEW m \in Inbound, NEW q \in HandRows,
           hand' = [hand EXCEPT ![h] = q],
           hand[h].mail = m \/ (hand[h] = Unbusy /\ Unheld(m)),
           q = Unbusy \/ q.mail = m,
           mailbox' \in [Inbound -> MailRows], slips' \in [Inbound -> Nat],
           portal' \in [Threads -> PortalRows], bridges' \in Seq(BridgeRows),
           \A n \in Inbound \ {m} : /\ mailbox'[n] = mailbox[n] /\ slips'[n] = slips[n]
                                    /\ BridgesOf(n)' = BridgesOf(n)
                                    /\ BridgesOf(n) # {} => FirstBridge(n)' = FirstBridge(n)
                                    /\ \A k \in BridgesOf(n) : bridges'[k] = bridges[k],
           \A t \in Threads : /\ portal[t] # NoTask => portal'[t] # NoTask
                              /\ \A mark \in Marked(t)' : mark \in Marked(t) \/ mark[1] = m,
           told \subseteq told',
           q = Unbusy \/ WorkSound(q, m)', MailWaits(m)', MarksSound(m)'
    PROVE  TriageInv'
<1>1. /\ hand' \in [Hands -> HandRows] /\ hand'[h] = q
      /\ \A g \in Hands \ {h} : hand'[g] = hand[g]
  BY HandFacts
<1>2. TriageTypes'
  BY <1>1 DEF TriageTypes
<1>3. \A g \in Hands \ {h} : hand[g].mail # m
  BY DEF TriageInv, OneHand, Unheld
<1>4. OneHand'
  <2>1. q.mail = m \/ q.mail \notin Inbound
    BY HandFacts
  <2> QED
    BY <1>1, <1>3, <2>1 DEF TriageInv, OneHand
<1>0. HandSound(h)'
  BY <1>1 DEF HandSound
<1>5. ASSUME NEW g \in Hands, g # h PROVE HandSound(g)'
  <2>1. hand'[g] = hand[g] /\ hand[g].mail # m /\ HandSound(g)
    BY <1>1, <1>3, <1>5 DEF TriageInv
  <2>2. CASE hand[g] = Unbusy
    BY <2>1, <2>2 DEF HandSound, Unbusy
  <2>3. CASE hand[g].mail \in Inbound
    <3>0. PICK w \in HandRows, n \in Inbound : w = hand[g] /\ n = w.mail /\ WorkSound(w, n)
      BY <2>1, <2>3, HandFacts DEF HandSound
    <3>1. n \in Inbound \ {m} /\ ThreadOf[n] \in Threads
      BY <2>1, <3>0, HandFacts
    <3>2. /\ mailbox'[n] = mailbox[n] /\ slips'[n] = slips[n]
          /\ BridgesOf(n)' = BridgesOf(n)
          /\ BridgesOf(n) # {} => FirstBridge(n)' = FirstBridge(n)
          /\ \A k \in BridgesOf(n) : bridges'[k] = bridges[k]
          /\ portal[ThreadOf[n]] # NoTask => portal'[ThreadOf[n]] # NoTask
      BY <3>1
    <3>3. FirstTold(n) => FirstTold(n)'
      BY <3>2 DEF FirstTold
    <3>4. FirstTold(n)' \/ FirstBridge(n)' = FirstBridge(n)
      BY <3>2 DEF FirstTold
    <3>5. WorkSound(w, n)'
      BY <3>0, <3>2, <3>3, <3>4 DEF WorkSound
    <3> QED
      BY <2>1, <3>0, <3>5 DEF HandSound
  <2> QED
    BY <2>1, <2>2, <2>3 DEF HandSound
<1>6. ASSUME NEW n \in Inbound, n # m PROVE MailWaits(n)' /\ MarksSound(n)'
  <2>1. /\ mailbox'[n] = mailbox[n] /\ slips'[n] = slips[n]
        /\ BridgesOf(n)' = BridgesOf(n)
        /\ BridgesOf(n) # {} => FirstBridge(n)' = FirstBridge(n)
        /\ \A k \in BridgesOf(n) : bridges'[k] = bridges[k]
        /\ portal[ThreadOf[n]] # NoTask => portal'[ThreadOf[n]] # NoTask
    BY <1>6, HandFacts
  <2>2. MailWaits(n) /\ MarksSound(n)
    BY DEF TriageInv
  <2>3. Unheld(n)' => Unheld(n)
    <3>1. hand[h].mail # n
      BY <1>6, HandFacts
    <3> QED
      BY <1>1, <3>1 DEF Unheld
  <2>4. MailWaits(n)'
    BY <2>1, <2>2, <2>3 DEF MailWaits, FirstTold
  <2>5. \A t \in Threads : \A mark \in Marked(t)' : mark[1] = n => mark \in Marked(t)
    BY <1>6
  <2>6. MarksSound(n)'
    BY <2>1, <2>2, <2>5 DEF MarksSound
  <2> QED
    BY <2>4, <2>6
<1> QED
  BY <1>0, <1>2, <1>4, <1>5, <1>6 DEF TriageInv

\* A replica at work writes to the project, tells the founder, or goes on.
LEMMA WorkMoves ==
    ASSUME TriageInv, NEW h \in Hands, NEW m \in Inbound, NEW q \in HandRows,
           hand' = [hand EXCEPT ![h] = q], hand[h].mail = m, q.mail = m,
           UNCHANGED <<mailbox, bridges, slips>>, portal' \in [Threads -> PortalRows],
           told \subseteq told',
           \A t \in Threads :
              /\ portal[t] # NoTask => portal'[t] # NoTask
              /\ \A mark \in Marked(t)' :
                    \/ mark \in Marked(t)
                    \/ /\ mark[1] = m /\ mark[3] = mailbox[m].tries
                       /\ \A k \in BridgesOf(m) : bridges[k].try = mailbox[m].tries,
           WorkSound(q, m)'
    PROVE  TriageInv'
<1>1. \A n \in Inbound : BridgesOf(n)' = BridgesOf(n) /\ FirstBridge(n)' = FirstBridge(n)
  BY DEF BridgesOf, FirstBridge
<1>2. MailWaits(m) /\ MarksSound(m)
  BY DEF TriageInv
<1>3. hand'[h] = q
  BY HandFacts
<1>4. MailWaits(m)'
  BY <1>1, <1>2, <1>3 DEF MailWaits, Unheld, FirstTold
<1>5. MarksSound(m)'
  <2>1. ASSUME NEW t \in Threads, NEW mark \in Marked(t)', mark[1] = m
        PROVE  mark[3] <= mailbox[m].tries /\ \A k \in BridgesOf(m) : mark[3] <= bridges[k].try
    <3>1. CASE mark \in Marked(t)
      BY <1>2, <2>1, <3>1 DEF MarksSound
    <3>2. CASE mark[3] = mailbox[m].tries /\ \A k \in BridgesOf(m) : bridges[k].try = mailbox[m].tries
      BY <3>2, HandFacts
    <3> QED
      BY <2>1, <3>1, <3>2
  <2> QED
    BY <1>1, <1>2, <2>1 DEF MarksSound
<1>6. mailbox' \in [Inbound -> MailRows] /\ slips' \in [Inbound -> Nat] /\ bridges' \in Seq(BridgeRows)
  BY HandFacts
<1> QED
  BY <1>1, <1>4, <1>5, <1>6, MailMoves

\* What holds of a replica at work, of whose row the status, the tries, the slips and the
\* bridges stay, in another stage of its attempt.
LEMMA WorkGoes ==
    ASSUME TriageInv, NEW m \in Inbound, NEW w \in HandRows, NEW q \in HandRows,
           WorkSound(w, m), w.at # "attach", q.at \notin {"idle", "attach"},
           UNCHANGED <<mailbox, bridges, slips>>, told \subseteq told',
           portal[ThreadOf[m]] # NoTask => portal'[ThreadOf[m]] # NoTask,
           \/ q.made = w.made
           \/ w.at = "create",
           q.at = "create" => q.target = ThreadOf[m] /\ (portal[ThreadOf[m]] = NoTask \/ ThreadOf[m] \in w.made),
           q.at \in WorkStages => w.at \in WorkStages \/ BridgesOf(m) = {},
           q.at = "route" => BridgesOf(m) = {},
           q.at \in {"gate", "comment", "create", "bridge", "close"} => FirstTold(m)',
           q.at \in {"record", "announce"} => FirstTold(m)' \/ q.target = FirstBridge(m).thread,
           q.at \in {"comment", "create", "bridge", "record"} => q.target \in Threads
    PROVE  WorkSound(q, m)'
<1>1. BridgesOf(m)' = BridgesOf(m) /\ FirstBridge(m)' = FirstBridge(m)
  BY DEF BridgesOf, FirstBridge
<1>2. \/ mailbox[m].tries # slips[m] + 2
      \/ portal'[ThreadOf[m]] # NoTask /\ ThreadOf[m] \notin q.made /\ q.at # "create"
  BY DEF WorkSound
<1>3. \A k \in BridgesOf(m) : q.at \in WorkStages => bridges[k].try = mailbox[m].tries
  BY DEF WorkSound
<1> QED
  BY <1>1, <1>2, <1>3 DEF WorkSound

LEMMA OnwardFacts ==
    ASSUME NEW w \in HandRows
    PROVE  /\ Onward(w) \in HandRows /\ Onward(w).at \in {"gate", "close"}
           /\ Onward(w).mail = w.mail /\ Onward(w).made = w.made
<1> DEFINE q == [w EXCEPT !.at = "gate", !.intent = w.intent + 1, !.target = "none"]
           r == [w EXCEPT !.at = "close", !.target = "none"]
<1>1. Onward(w) = q \/ Onward(w) = r
  BY DEF Onward
<1>2. q \in HandRows /\ q.at = "gate" /\ q.mail = w.mail /\ q.made = w.made
  <2> DEFINE next == w.intent + 1
  <2>1. next \in Nat
    BY DEF HandRows
  <2> HIDE DEF next
  <2>2. [w EXCEPT !.at = "gate", !.intent = next, !.target = "none"] \in HandRows
    BY <2>1 DEF HandRows, HandStages
  <2> QED
    BY <2>2 DEF HandRows, next
<1>3. r \in HandRows /\ r.at = "close" /\ r.mail = w.mail /\ r.made = w.made
  BY DEF HandRows, HandStages
<1> QED
  BY <1>1, <1>2, <1>3

\* What a replica at a stage of its attempt has in hand.
LEMMA AtWork ==
    ASSUME TriageInv, NEW h \in Hands, hand[h].at # "idle"
    PROVE  \E m \in Inbound : hand[h].mail = m /\ WorkSound(hand[h], m)
BY HandFacts DEF HandSound

\* The steps that leave the project as it is.
LEMMA TalkSteps ==
    ASSUME TriageInv, NEW h \in Hands,
           \/ Reconfirm(h) \/ Retell(h) \/ RunMoneyLoop(h) \/ GateTalk(h) \/ GateQuestion(h)
           \/ Search(h) \/ RecordDecision(h) \/ Announce(h)
    PROVE  TriageInv'
<1>0. UNCHANGED <<mailbox, bridges, slips, portal>> /\ told \subseteq told' /\ hand[h].at # "idle"
  BY DEF Reconfirm, Retell, RunMoneyLoop, GateTalk, GateQuestion, Search, RecordDecision, Announce
<1>1. PICK w \in HandRows, m \in Inbound : w = hand[h] /\ w.mail = m /\ WorkSound(w, m)
  BY <1>0, AtWork, HandFacts
<1>2. FirstTold(m) => FirstTold(m)'
  BY <1>0 DEF FirstTold, BridgesOf, FirstBridge
<1>3. ASSUME NEW q \in HandRows, hand' = [hand EXCEPT ![h] = q], q.mail = m, WorkSound(q, m)'
      PROVE  TriageInv'
  <2>1. \A t \in Threads : Marked(t)' = Marked(t)
    BY <1>0 DEF Marked
  <2>2. portal' \in [Threads -> PortalRows]
    BY <1>0, HandFacts
  <2> QED
    BY <1>0, <1>1, <1>3, <2>1, <2>2, WorkMoves
<1>4. CASE Reconfirm(h)
  <2>1. PICK at \in {"retell", "close", "route"} :
            at = ResumeAt(m) /\ (at \in {"close", "route"} => BridgesOf(m) = {})
    BY DEF ResumeAt
  <2> DEFINE q == [w EXCEPT !.at = at]
  <2>2. q \in HandRows /\ q.at = at /\ q.mail = m /\ q.made = w.made
    BY <1>1 DEF HandRows, HandStages
  <2>3. hand' = [hand EXCEPT ![h] = q] /\ w.at = "resume"
    BY <1>1, <1>4, <2>1 DEF Reconfirm
  <2> HIDE DEF q
  <2>4. at # "retell" => FirstTold(m)'
    BY <1>2, <2>1 DEF FirstTold
  <2>5. WorkSound(q, m)'
    BY <1>0, <1>1, <2>1, <2>2, <2>3, <2>4, WorkGoes DEF WorkStages
  <2> QED
    BY <1>3, <2>2, <2>3, <2>5
<1>5. CASE Retell(h)
  <2> DEFINE q == [w EXCEPT !.at = "close"]
  <2>2. q \in HandRows /\ q.at = "close" /\ q.mail = m /\ q.made = w.made
    BY <1>1 DEF HandRows, HandStages
  <2>3. hand' = [hand EXCEPT ![h] = q] /\ w.at = "retell" /\ <<m, FirstBridge(m).thread>> \in told'
    BY <1>1, <1>5 DEF Retell
  <2> HIDE DEF q
  <2>4. FirstTold(m)'
    BY <1>0, <2>3 DEF FirstTold, BridgesOf, FirstBridge
  <2>5. WorkSound(q, m)'
    BY <1>0, <1>1, <2>2, <2>3, <2>4, WorkGoes DEF WorkStages
  <2> QED
    BY <1>3, <2>2, <2>3, <2>5
<1>6. CASE RunMoneyLoop(h)
  <2>1. PICK at \in {"close", "gate"} : hand' = [hand EXCEPT ![h].at = at, ![h].intent = 1]
    BY <1>6 DEF RunMoneyLoop
  <2> DEFINE q == [w EXCEPT !.at = at, !.intent = 1]
  <2>2. q \in HandRows /\ q.at = at /\ q.mail = m /\ q.made = w.made
    BY <1>1 DEF HandRows, HandStages
  <2>3. hand' = [hand EXCEPT ![h] = q] /\ w.at = "route"
    BY <1>1, <1>6, <2>1, HandFacts DEF RunMoneyLoop
  <2> HIDE DEF q
  <2>4. BridgesOf(m) = {} /\ FirstTold(m)'
    BY <1>1, <1>2, <2>3 DEF WorkSound, FirstTold
  <2>5. WorkSound(q, m)'
    BY <1>0, <1>1, <2>2, <2>3, <2>4, WorkGoes
  <2> QED
    BY <1>3, <2>2, <2>3, <2>5
<1>7. ASSUME hand' = [hand EXCEPT ![h] = Onward(hand[h])], w.at \in {"gate", "announce"}, FirstTold(m)'
      PROVE  TriageInv'
  <2> DEFINE q == Onward(w)
  <2>1. /\ q \in HandRows /\ q.at \in {"gate", "close"} /\ q.mail = m /\ q.made = w.made
    BY <1>1, OnwardFacts
  <2>2. hand' = [hand EXCEPT ![h] = q]
    BY <1>1, <1>7
  <2> HIDE DEF q
  <2>3. WorkSound(q, m)'
    BY <1>0, <1>1, <1>7, <2>1, WorkGoes DEF WorkStages
  <2> QED
    BY <1>3, <2>1, <2>2, <2>3
<1>8. ASSUME NEW at \in {"announce", "comment", "create"}, NEW target \in Threads \cup {"none"},
             hand' = [hand EXCEPT ![h] = [w EXCEPT !.at = at, !.target = target]],
             w.at \in {"gate", "record"},
             at = "announce" => FirstTold(m) \/ target = FirstBridge(m).thread,
             at \in {"comment", "create"} => w.at = "gate" /\ target \in Threads,
             at = "create" => target = ThreadOf[m] /\ (portal[target] = NoTask \/ target \in w.made)
      PROVE  TriageInv'
  <2> DEFINE q == [w EXCEPT !.at = at, !.target = target]
  <2>1. q \in HandRows /\ q.at = at /\ q.mail = m /\ q.made = w.made /\ q.target = target
    BY <1>1 DEF HandRows, HandStages
  <2>2. hand' = [hand EXCEPT ![h] = q]
    BY <1>8
  <2> HIDE DEF q
  <2>3. w.at = "gate" => FirstTold(m)
    BY <1>1 DEF WorkSound
  <2>4. WorkSound(q, m)'
    BY <1>0, <1>1, <1>2, <1>8, <2>1, <2>3, WorkGoes DEF WorkStages
  <2> QED
    BY <1>3, <2>1, <2>2, <2>4
<1>9. CASE GateTalk(h)
  <2>1. w.at = "gate" /\ FirstTold(m)
    BY <1>1, <1>9 DEF GateTalk, WorkSound
  <2>2. CASE hand' = [hand EXCEPT ![h] = Onward(hand[h])]
    BY <1>2, <1>7, <2>1, <2>2
  <2>3. CASE hand' = [hand EXCEPT ![h] = [hand[h] EXCEPT !.at = "announce"]]
    <3>1. [w EXCEPT !.at = "announce"] = [w EXCEPT !.at = "announce", !.target = w.target]
          /\ w.target \in Threads \cup {"none"}
      BY DEF HandRows
    <3>2. hand' = [hand EXCEPT ![h] = [w EXCEPT !.at = "announce", !.target = w.target]]
      BY <1>1, <2>3, <3>1
    <3> QED
      BY <1>8, <2>1, <3>1, <3>2
  <2> QED
    BY <1>9, <2>2, <2>3 DEF GateTalk
<1>10. CASE GateQuestion(h)
  <2>1. w.at = "gate" /\ FirstTold(m) /\ hand' = [hand EXCEPT ![h] = Onward(hand[h])]
    BY <1>1, <1>10 DEF GateQuestion, WorkSound
  <2> QED
    BY <1>2, <1>7, <2>1
<1>11. CASE Announce(h)
  <2>1. w.at = "announce" /\ hand' = [hand EXCEPT ![h] = Onward(hand[h])] /\ <<m, w.target>> \in told'
    BY <1>1, <1>11 DEF Announce
  <2>2. FirstTold(m) \/ w.target = FirstBridge(m).thread
    BY <1>1, <2>1 DEF WorkSound
  <2>3. FirstTold(m)'
    BY <1>0, <1>2, <2>1, <2>2 DEF FirstTold, BridgesOf, FirstBridge
  <2> QED
    BY <1>7, <2>1, <2>3
<1>12. CASE RecordDecision(h)
  <2>1. w.at = "record" /\ hand' = [hand EXCEPT ![h] = [w EXCEPT !.at = "announce"]]
    BY <1>1, <1>12 DEF RecordDecision
  <2>2. FirstTold(m) \/ w.target = FirstBridge(m).thread
    BY <1>1, <2>1 DEF WorkSound
  <2>3. [w EXCEPT !.at = "announce"] = [w EXCEPT !.at = "announce", !.target = w.target]
        /\ w.target \in Threads \cup {"none"}
    BY DEF HandRows
  <2>4. hand' = [hand EXCEPT ![h] = [w EXCEPT !.at = "announce", !.target = w.target]]
    BY <2>1, <2>3
  <2> QED
    BY <1>8, <2>1, <2>2, <2>3, <2>4
<1>13. CASE Search(h)
  <2>1. w.at = "gate" /\ ThreadOf[m] \in Threads /\ FirstTold(m)
    BY <1>1, <1>13, HandFacts DEF Search, WorkSound
  <2>2. PICK at \in {"comment", "create"}, target \in Threads :
            /\ hand' = [hand EXCEPT ![h].at = at, ![h].target = target]
            /\ at = "create" => target = ThreadOf[m] /\ (portal[target] = NoTask \/ target \in w.made)
    BY <1>1, <1>13, <2>1 DEF Search, Alike, FindTasksBySource
  <2>3. hand' = [hand EXCEPT ![h] = [w EXCEPT !.at = at, !.target = target]]
    BY <1>1, <2>2, HandFacts
  <2> QED
    BY <1>8, <2>1, <2>2, <2>3
<1> QED
  BY <1>4, <1>5, <1>6, <1>9, <1>10, <1>11, <1>12, <1>13

\* The steps that write to the project.
LEMMA ProjectSteps ==
    ASSUME TriageInv, NEW h \in Hands, AddComment(h) \/ CreateTask(h)
    PROVE  TriageInv'
<1>0. UNCHANGED <<mailbox, bridges, slips, told>> /\ hand[h].at \in {"comment", "create"}
  BY DEF AddComment, CreateTask
<1>1. PICK w \in HandRows, m \in Inbound : w = hand[h] /\ w.mail = m /\ WorkSound(w, m)
  BY <1>0, AtWork, HandFacts
<1>2. PICK u \in Threads : u = w.target /\ FirstTold(m) /\ FirstTold(m)'
  <2>1. w.target \in Threads /\ FirstTold(m)
    BY <1>0, <1>1 DEF WorkSound
  <2>2. FirstTold(m)'
    BY <1>0, <2>1 DEF FirstTold, BridgesOf, FirstBridge
  <2> QED
    BY <2>1, <2>2
<1>3. \A k \in BridgesOf(m) : bridges[k].try = mailbox[m].tries
  BY <1>0, <1>1 DEF WorkSound, WorkStages
<1>4. PICK mark \in ProjectMarks : mark = MarkRow(h) /\ mark[1] = m /\ mark[3] = mailbox[m].tries
  <2>1. MarkRow(h) = <<m, w.intent, mailbox[m].tries>>
    BY <1>1 DEF MarkRow
  <2>2. w.intent \in Nat /\ mailbox[m].tries \in Nat
    BY <1>1, HandFacts
  <2> QED
    BY <2>1, <2>2 DEF ProjectMarks
<1>5. portal[u] \in PortalRows
  BY HandFacts
<1>6. ASSUME NEW row \in PortalRows, portal' = [portal EXCEPT ![u] = row], row # NoTask,
             row.comments \subseteq portal[u].comments \cup {mark},
             row.by \in {portal[u].by, mark},
             NEW q \in HandRows, hand' = [hand EXCEPT ![h] = q], q.mail = m, WorkSound(q, m)'
      PROVE  TriageInv'
  <2>1. portal' \in [Threads -> PortalRows] /\ portal'[u] = row
        /\ \A t \in Threads : t # u => portal'[t] = portal[t]
    BY <1>6, HandFacts
  <2>2. ASSUME NEW t \in Threads
        PROVE  /\ portal[t] # NoTask => portal'[t] # NoTask
               /\ \A p \in Marked(t)' : p \in Marked(t) \/ p = mark
    BY <1>6, <2>1 DEF Marked
  <2> QED
    BY <1>0, <1>1, <1>3, <1>4, <1>6, <2>1, <2>2, WorkMoves
<1>7. CASE AddComment(h)
  <2> DEFINE comments == portal[u].comments \cup {mark}
             row == [portal[u] EXCEPT !.comments = comments]
             q == [w EXCEPT !.at = "bridge"]
  <2>1. comments \in SUBSET ProjectMarks /\ comments # {}
    BY <1>5 DEF PortalRows
  <2>2. portal' = [portal EXCEPT ![u] = row]
    BY <1>1, <1>2, <1>4, <1>7 DEF AddComment
  <2> HIDE DEF comments
  <2>3. row \in PortalRows /\ row.comments = comments /\ row.by = portal[u].by
    BY <1>5, <2>1 DEF PortalRows
  <2> HIDE DEF row
  <2>4. row # NoTask
    BY <2>1, <2>3 DEF NoTask
  <2>5. q \in HandRows /\ q.at = "bridge" /\ q.mail = m /\ q.made = w.made /\ q.target = u
    BY <1>1, <1>2 DEF HandRows, HandStages
  <2>6. hand' = [hand EXCEPT ![h] = q] /\ w.at = "comment"
    BY <1>1, <1>7 DEF AddComment
  <2> HIDE DEF q
  <2>7. portal' \in [Threads -> PortalRows] /\ \A t \in Threads : portal[t] # NoTask => portal'[t] # NoTask
    BY <2>2, <2>3, <2>4, HandFacts
  <2>8. WorkSound(q, m)'
    BY <1>0, <1>1, <1>2, <2>5, <2>6, <2>7, WorkGoes, HandFacts DEF WorkStages
  <2>9. row.comments \subseteq portal[u].comments \cup {mark}
    BY <2>3 DEF comments
  <2> QED
    BY <1>6, <2>2, <2>3, <2>4, <2>5, <2>6, <2>8, <2>9
<1>8. CASE CreateTask(h)
  <2> DEFINE row == [NoTask EXCEPT !.by = mark]
             q == [w EXCEPT !.at = "bridge", !.made = w.made \cup {u}]
  <2>1. portal' = [portal EXCEPT ![u] = row] /\ portal[u] = NoTask
    BY <1>1, <1>2, <1>4, <1>8 DEF CreateTask
  <2>2. row \in PortalRows /\ row.comments = {} /\ row.by = mark
    BY DEF PortalRows, NoTask
  <2>3. row # NoTask
    <3>1. mark # <<>>
      <4>1. PICK x, y, z : mark = <<x, y, z>>
        BY DEF ProjectMarks
      <4> QED
        BY <4>1
    <3> QED
      BY <2>2, <3>1 DEF NoTask
  <2> HIDE DEF row
  <2>4. w.made \cup {u} \in SUBSET Threads
    BY <1>1, HandFacts
  <2>5. q \in HandRows /\ q.at = "bridge" /\ q.mail = m /\ q.target = u
    BY <1>1, <1>2, <2>4 DEF HandRows, HandStages
  <2>6. hand' = [hand EXCEPT ![h] = q] /\ w.at = "create"
    <3>1. hand' = [hand EXCEPT ![h].at = "bridge", ![h].made = w.made \cup {u}]
      BY <1>1, <1>2, <1>8 DEF CreateTask
    <3> QED
      BY <1>1, <1>8, <3>1, HandFacts DEF CreateTask
  <2> HIDE DEF q
  <2>7. portal' \in [Threads -> PortalRows] /\ \A t \in Threads : portal[t] # NoTask => portal'[t] # NoTask
    BY <2>1, <2>2, <2>3, HandFacts
  <2>8. WorkSound(q, m)'
    BY <1>0, <1>1, <1>2, <2>5, <2>6, <2>7, WorkGoes, HandFacts DEF WorkStages
  <2> QED
    BY <1>6, <2>1, <2>2, <2>3, <2>5, <2>6, <2>8
<1> QED
  BY <1>7, <1>8

\* The first row of a message is the one of least id, and it stays when others follow.
LEMMA FirstIs ==
    ASSUME bridges \in Seq(BridgeRows), NEW m, NEW j \in BridgesOf(m), \A l \in BridgesOf(m) : j <= l
    PROVE  FirstBridge(m) = bridges[j]
<1> DEFINE c == CHOOSE k \in BridgesOf(m) : \A l \in BridgesOf(m) : k <= l
<1>1. c \in BridgesOf(m) /\ \A l \in BridgesOf(m) : c <= l
  OBVIOUS
<1>2. BridgesOf(m) \subseteq Nat
  BY DEF BridgesOf
<1> HIDE DEF c
<1>3. c = j
  BY <1>1, <1>2
<1> QED
  BY <1>3 DEF FirstBridge, c

LEMMA BridgeSteps ==
    ASSUME TriageInv, NEW h \in Hands, RecordBridge(h)
    PROVE  TriageInv'
<1>0. UNCHANGED <<mailbox, slips, told, portal>> /\ hand[h].at = "bridge"
  BY DEF RecordBridge
<1>1. PICK w \in HandRows, m \in Inbound : w = hand[h] /\ w.mail = m /\ WorkSound(w, m)
  BY <1>0, AtWork, HandFacts
<1>2. w.target \in Threads /\ mailbox[m].tries \in Nat /\ FirstTold(m)
  BY <1>0, <1>1, HandFacts DEF WorkSound
<1> DEFINE b == [mail |-> m, thread |-> w.target, try |-> mailbox[m].tries]
           q == [w EXCEPT !.at = "record"]
           new == Len(bridges) + 1
<1>3. b \in BridgeRows /\ bridges' = Append(bridges, b)
  BY <1>1, <1>2 DEF BridgeRows, RecordBridge
<1>4. b.mail = m /\ b.thread = w.target /\ b.try = mailbox[m].tries
  OBVIOUS
<1> HIDE DEF b
<1>5. /\ bridges \in Seq(BridgeRows) /\ bridges' \in Seq(BridgeRows)
      /\ new \in Nat /\ DOMAIN bridges = 1 .. Len(bridges) /\ DOMAIN bridges' = 1 .. new
      /\ \A k \in DOMAIN bridges : k \in Nat /\ k < new /\ k # new /\ bridges'[k] = bridges[k]
      /\ bridges'[new] = b
  BY <1>3, HandFacts
<1>6. /\ BridgesOf(m)' = BridgesOf(m) \cup {new}
      /\ \A n \in Inbound \ {m} : BridgesOf(n)' = BridgesOf(n)
  <2>1. DOMAIN bridges' = DOMAIN bridges \cup {new}
    BY <1>5
  <2> HIDE DEF new
  <2> QED
    BY <1>4, <1>5, <2>1 DEF BridgesOf
<1>7. \A n \in Inbound : \A k \in BridgesOf(n) : k \in Nat /\ k < new /\ bridges'[k] = bridges[k]
  BY <1>5 DEF BridgesOf
<1>8. ASSUME NEW n \in Inbound, BridgesOf(n) # {} PROVE FirstBridge(n)' = FirstBridge(n)
  <2>1. BridgesOf(n) \in SUBSET Nat
    BY <1>7
  <2>2. PICK j \in BridgesOf(n) : \A l \in BridgesOf(n) : j <= l
    BY <1>8, <2>1, LeastOf
  <2>3. FirstBridge(n) = bridges[j]
    BY <1>5, <2>2, FirstIs
  <2>4. BridgesOf(n)' \subseteq BridgesOf(n) \cup {new} /\ BridgesOf(n) \subseteq BridgesOf(n)'
    BY <1>6
  <2>5. j \in BridgesOf(n)' /\ \A l \in BridgesOf(n)' : j <= l
    BY <1>7, <2>2, <2>4
  <2>6. bridges'[j] = FirstBridge(n)'
    <3> DEFINE c == CHOOSE k \in BridgesOf(n)' : \A l \in BridgesOf(n)' : k <= l
    <3>1. c \in BridgesOf(n)' /\ \A l \in BridgesOf(n)' : c <= l
      BY <2>5
    <3>2. BridgesOf(n)' \subseteq Nat
      BY <1>5, <1>7, <2>4
    <3>3. FirstBridge(n)' = bridges'[c]
      BY DEF FirstBridge
    <3> HIDE DEF c
    <3>4. c = j
      BY <2>5, <3>1, <3>2
    <3> QED
      BY <3>3, <3>4
  <2> QED
    BY <1>7, <2>2, <2>3, <2>6
<1>9. ASSUME BridgesOf(m) = {} PROVE FirstBridge(m)' = b
  <2>1. BridgesOf(m)' = {new}
    BY <1>6, <1>9
  <2>2. FirstBridge(m)' = bridges'[new]
    BY <2>1, <1>5 DEF FirstBridge
  <2> QED
    BY <1>5, <2>2
<1>10. q \in HandRows /\ q.at = "record" /\ q.mail = m /\ q.made = w.made /\ q.target = w.target
  BY <1>1 DEF HandRows, HandStages
<1>11. hand' = [hand EXCEPT ![h] = q]
  BY <1>1 DEF RecordBridge
<1> HIDE DEF q, new
<1>12. FirstTold(m)' \/ q.target = FirstBridge(m)'.thread
  BY <1>0, <1>2, <1>4, <1>6, <1>8, <1>9, <1>10 DEF FirstTold
<1>13. \A k \in BridgesOf(m)' : bridges'[k].try = mailbox[m].tries
  BY <1>0, <1>1, <1>4, <1>5, <1>6, <1>7 DEF WorkSound, WorkStages
<1>14. WorkSound(q, m)'
  BY <1>0, <1>1, <1>10, <1>12, <1>13 DEF WorkSound
<1>15. MailWaits(m)'
  <2>1. MailWaits(m) /\ hand'[h] = q /\ mailbox[m].status = "processing"
    BY <1>0, <1>1, <1>11, <1>10, HandFacts DEF TriageInv, WorkSound
  <2> QED
    BY <1>0, <1>10, <2>1 DEF MailWaits, Unheld
<1>16. MarksSound(m)'
  <2>1. MarksSound(m)
    BY DEF TriageInv
  <2>2. \A t \in Threads : Marked(t)' = Marked(t)
    BY <1>0 DEF Marked
  <2> QED
    BY <1>0, <1>2, <1>13, <2>1, <2>2 DEF MarksSound
<1>17. /\ mailbox' \in [Inbound -> MailRows] /\ slips' \in [Inbound -> Nat]
       /\ portal' \in [Threads -> PortalRows] /\ \A t \in Threads : Marked(t)' = Marked(t)
  BY <1>0, HandFacts DEF Marked
<1> QED
  BY <1>0, <1>1, <1>5, <1>6, <1>7, <1>8, <1>10, <1>11, <1>14, <1>15, <1>16, <1>17, MailMoves

\* A replica takes up a row, closes it, or lets go of it.
LEMMA RowChanges ==
    ASSUME TriageInv, NEW h \in Hands, NEW m \in Inbound, NEW q \in HandRows,
           hand' = [hand EXCEPT ![h] = q],
           hand[h].mail = m \/ (hand[h] = Unbusy /\ Unheld(m)),
           q = Unbusy \/ (q.mail = m /\ WorkSound(q, m)'),
           UNCHANGED <<portal, bridges, told>>,
           mailbox' \in [Inbound -> MailRows], slips' \in [Inbound -> Nat],
           \A n \in Inbound \ {m} : mailbox'[n] = mailbox[n] /\ slips'[n] = slips[n],
           mailbox[m].tries <= mailbox'[m].tries, MailWaits(m)'
    PROVE  TriageInv'
<1>1. \A n \in Inbound : BridgesOf(n)' = BridgesOf(n) /\ FirstBridge(n)' = FirstBridge(n)
  BY DEF BridgesOf, FirstBridge
<1>2. \A t \in Threads : Marked(t)' = Marked(t)
  BY DEF Marked
<1>3. /\ portal' \in [Threads -> PortalRows] /\ bridges' \in Seq(BridgeRows)
      /\ mailbox[m].tries \in Nat /\ mailbox'[m].tries \in Nat
  BY HandFacts DEF MailRows
<1>4. MarksSound(m)'
  <2>1. MarksSound(m) /\ \A k \in BridgesOf(m) : bridges[k].try \in Nat
    <3>1. \A k \in DOMAIN bridges : bridges[k] \in BridgeRows
      BY HandFacts
    <3> QED
      BY <3>1 DEF TriageInv, BridgesOf, BridgeRows
  <2>2. \A k \in BridgesOf(m) : bridges[k].try <= mailbox'[m].tries
    BY <1>3, <2>1 DEF MarksSound
  <2>3. \A t \in Threads : \A mark \in Marked(t) : mark[3] \in Nat
    BY HandFacts DEF Marked, PortalRows, ProjectMarks
  <2>4. \A t \in Threads : \A mark \in Marked(t) : mark[1] = m => mark[3] <= mailbox'[m].tries
    BY <1>3, <2>1, <2>3 DEF MarksSound
  <2> QED
    BY <1>1, <1>2, <2>1, <2>2, <2>4 DEF MarksSound
<1> QED
  BY <1>1, <1>2, <1>3, <1>4, MailMoves

\* One more try of a row that waits: beyond those that slips account for it is the one
\* after a refusal, and begins with no task made.
LEMMA ClaimMailSteps ==
    ASSUME TriageInv, NEW h \in Hands, NEW m \in Inbound, ClaimMail(h, m)
    PROVE  TriageInv'
<1>1. /\ hand[h] = Unbusy /\ Unheld(m) /\ mailbox[m].status \in {"pending", "processing"}
      /\ UNCHANGED <<portal, bridges, told, slips>>
  BY DEF ClaimMail
<1> DEFINE q == [Unbusy EXCEPT !.mail = m, !.at = "resume"]
           tries == mailbox[m].tries + 1
           r == [status |-> "processing", tries |-> tries]
<1>2. /\ q \in HandRows /\ q.mail = m /\ q.at = "resume" /\ q.made = {}
  BY HandFacts DEF Unbusy, HandRows, HandStages
<1>3. hand' = [hand EXCEPT ![h] = q]
  BY DEF ClaimMail
<1>4. mailbox' = [mailbox EXCEPT ![m] = r]
  BY DEF ClaimMail
<1>5. tries \in Nat /\ mailbox[m].tries \in Nat /\ slips[m] \in Nat /\ mailbox[m].tries <= tries
  BY HandFacts
<1>6. r \in MailRows /\ r.status = "processing" /\ r.tries = tries
  BY <1>5 DEF MailRows, MailStates
<1>7. /\ tries <= slips[m] + 2 /\ (tries = slips[m] + 2 => portal[ThreadOf[m]] # NoTask)
  BY <1>1, <1>5 DEF TriageInv, MailWaits
<1> HIDE DEF q, r, tries
<1>8. /\ mailbox' \in [Inbound -> MailRows] /\ mailbox'[m] = r
      /\ \A n \in Inbound \ {m} : mailbox'[n] = mailbox[n]
  BY <1>4, <1>6, HandFacts
<1>9. WorkSound(q, m)'
  BY <1>1, <1>2, <1>6, <1>7, <1>8 DEF WorkSound, WorkStages
<1>10. hand'[h] = q
  BY <1>2, <1>3, HandFacts
<1>11. MailWaits(m)'
  BY <1>2, <1>6, <1>8, <1>10 DEF MailWaits, Unheld
<1>12. slips' \in [Inbound -> Nat]
  BY <1>1, HandFacts
<1> QED
  BY <1>1, <1>2, <1>3, <1>5, <1>6, <1>8, <1>9, <1>11, <1>12, RowChanges

\* A row of which no attempt is left slipped as often, but for one refusal.
LEMMA FailStuckSteps ==
    ASSUME TriageInv, NEW m \in Inbound, FailStuckMail(m)
    PROVE  TriageInv'
<1>1. /\ Unheld(m) /\ mailbox[m].status = "processing" /\ mailbox[m].tries >= MaxTries
      /\ UNCHANGED <<portal, bridges, told, slips, hand>>
  BY DEF FailStuckMail
<1> DEFINE r == [mailbox[m] EXCEPT !.status = "failed"]
<1>2. mailbox \in [Inbound -> MailRows] /\ slips \in [Inbound -> Nat]
  BY DEF TriageInv, TriageTypes
<1>3. mailbox' = [mailbox EXCEPT ![m] = r]
  BY DEF FailStuckMail
<1>4. r \in MailRows /\ r.status = "failed" /\ r.tries = mailbox[m].tries
  BY <1>2 DEF MailRows, MailStates
<1> HIDE DEF r
<1>5. /\ mailbox' \in [Inbound -> MailRows] /\ mailbox'[m] = r
      /\ \A n \in Inbound \ {m} : mailbox'[n] = mailbox[n]
  BY <1>2, <1>3, <1>4
<1>6. /\ \A n \in Inbound : BridgesOf(n)' = BridgesOf(n) /\ FirstBridge(n)' = FirstBridge(n)
      /\ \A t \in Threads : Marked(t)' = Marked(t)
  BY <1>1 DEF BridgesOf, FirstBridge, Marked
<1>7. TriageTypes' /\ OneHand'
  BY <1>1, <1>5 DEF TriageInv, TriageTypes, OneHand
<1>8. ASSUME NEW h \in Hands PROVE HandSound(h)'
  <2>1. HandSound(h) /\ hand'[h] = hand[h] /\ hand[h].mail # m /\ hand[h] \in HandRows
    BY <1>1, HandFacts DEF TriageInv, Unheld
  <2>2. CASE hand[h] = Unbusy
    BY <2>1, <2>2 DEF HandSound, Unbusy
  <2>3. CASE hand[h] # Unbusy
    <3>1. PICK w \in HandRows, n \in Inbound \ {m} : w = hand[h] /\ n = w.mail /\ WorkSound(w, n)
      BY <2>1, <2>3 DEF HandSound
    <3>2. WorkSound(w, n)'
      BY <1>1, <1>5, <1>6, <3>1 DEF WorkSound, FirstTold
    <3> QED
      BY <2>1, <3>1, <3>2 DEF HandSound
  <2> QED
    BY <2>2, <2>3
<1>9. slips[m] >= MaxTries - 1
  BY <1>1, <1>2, TriageAssumption DEF TriageInv, MailWaits, MailRows
<1>10. ASSUME NEW n \in Inbound PROVE MailWaits(n)' /\ MarksSound(n)'
  <2>1. MailWaits(n) /\ MarksSound(n) /\ mailbox'[n].tries = mailbox[n].tries
    BY <1>4, <1>5 DEF TriageInv
  <2>2. MarksSound(n)'
    BY <1>1, <1>6, <2>1 DEF MarksSound
  <2>3. MailWaits(n)'
    <3>1. CASE n = m
      BY <1>1, <1>4, <1>5, <1>9, <3>1 DEF MailWaits
    <3>2. CASE n # m
      <4>1. mailbox'[n] = mailbox[n]
        BY <1>5, <3>2
      <4> QED
        BY <1>1, <1>6, <2>1, <4>1 DEF MailWaits, Unheld, FirstTold
    <3> QED
      BY <3>1, <3>2
  <2> QED
    BY <2>2, <2>3
<1> QED
  BY <1>7, <1>8, <1>10 DEF TriageInv

\* An attempt ends, with its row closed, refused, skipped or slipped.
LEMMA EndSteps ==
    ASSUME TriageInv, NEW h \in Hands,
           Skip(h) \/ CreateRefused(h) \/ Close(h) \/ AttachPictures(h) \/ Slip(h)
    PROVE  TriageInv'
<1>0. UNCHANGED <<portal, bridges, told>> /\ hand[h] # Unbusy
  BY HandFacts DEF Skip, CreateRefused, Close, AttachPictures, Slip
<1>1. PICK w \in HandRows, m \in Inbound : w = hand[h] /\ w.mail = m /\ WorkSound(w, m)
  BY <1>0, HandFacts DEF HandSound
<1>2. /\ mailbox \in [Inbound -> MailRows] /\ slips \in [Inbound -> Nat]
      /\ mailbox[m].tries \in Nat /\ slips[m] \in Nat
      /\ Unbusy \in HandRows /\ MailWaits(m)
  BY HandFacts DEF TriageInv
<1>3. FirstTold(m)' <=> FirstTold(m)
  BY <1>0 DEF FirstTold, BridgesOf, FirstBridge
<1>4. ASSUME NEW status \in MailStates, NEW q \in HandRows,
             mailbox' = [mailbox EXCEPT ![m].status = status], UNCHANGED slips,
             hand' = [hand EXCEPT ![h] = q],
             q = Unbusy \/ (q.mail = m /\ q.at = "attach" /\ status = "processed"),
             \/ status = "skipped"
             \/ status = "processed" /\ FirstTold(m)
      PROVE  TriageInv'
  <2> DEFINE r == [mailbox[m] EXCEPT !.status = status]
  <2>1. r \in MailRows /\ r.status = status /\ r.tries = mailbox[m].tries
    BY <1>2 DEF MailRows
  <2>2. mailbox' = [mailbox EXCEPT ![m] = r]
    BY <1>4
  <2> HIDE DEF r
  <2>3. /\ mailbox' \in [Inbound -> MailRows] /\ mailbox'[m] = r
        /\ \A n \in Inbound \ {m} : mailbox'[n] = mailbox[n]
    BY <1>2, <2>1, <2>2
  <2>4. MailWaits(m)'
    BY <1>3, <1>4, <2>1, <2>3 DEF MailWaits
  <2>5. q = Unbusy \/ (q.mail = m /\ WorkSound(q, m)')
    BY <1>4, <2>1, <2>3 DEF WorkSound, WorkStages
  <2>6. mailbox[m].tries <= mailbox'[m].tries /\ slips' \in [Inbound -> Nat]
    BY <1>2, <1>4, <2>1, <2>3
  <2> QED
    BY <1>0, <1>1, <1>2, <1>4, <2>3, <2>4, <2>5, <2>6, RowChanges
<1>5. CASE Skip(h)
  <2>1. mailbox' = [mailbox EXCEPT ![m].status = "skipped"] /\ hand' = [hand EXCEPT ![h] = Unbusy]
        /\ UNCHANGED slips
    BY <1>1, <1>5 DEF Skip
  <2> QED
    BY <1>2, <1>4, <2>1 DEF MailStates
<1>6. CASE Close(h)
  <2> DEFINE a == [Unbusy EXCEPT !.mail = m, !.at = "attach"]
  <2>1. a \in HandRows /\ a.mail = m /\ a.at = "attach"
    BY <1>2 DEF Unbusy, HandRows, HandStages
  <2>2. w.at = "close" /\ FirstTold(m) /\ mailbox' = [mailbox EXCEPT ![m].status = "processed"]
        /\ UNCHANGED slips
    BY <1>1, <1>6 DEF Close, WorkSound
  <2>3. hand' = [hand EXCEPT ![h] = a] \/ hand' = [hand EXCEPT ![h] = Unbusy]
    BY <1>1, <1>6 DEF Close
  <2> HIDE DEF a
  <2> QED
    BY <1>2, <1>4, <2>1, <2>2, <2>3 DEF MailStates
<1>7. ASSUME UNCHANGED mailbox, hand' = [hand EXCEPT ![h] = Unbusy], slips' \in [Inbound -> Nat],
             \A n \in Inbound \ {m} : slips'[n] = slips[n],
             \/ UNCHANGED slips /\ w.at = "create" /\ portal[ThreadOf[m]] # NoTask
             \/ UNCHANGED slips /\ w.at = "attach"
             \/ slips'[m] = slips[m] + 1
      PROVE  TriageInv'
  <2>1. \/ w.at = "attach"
        \/ /\ mailbox[m].tries <= slips'[m] + 1
           /\ mailbox[m].tries = slips'[m] + 1 => portal[ThreadOf[m]] # NoTask
    BY <1>1, <1>2, <1>7 DEF WorkSound
  <2>2. ~(w.at = "attach") => mailbox[m].status = "processing"
    BY <1>1 DEF WorkSound
  <2>3. mailbox[m].status = "failed" => slips'[m] >= MaxTries - 1
    BY <1>2, <1>7, TriageAssumption DEF MailWaits
  <2>4. w.at = "attach" => mailbox[m].status \notin {"pending", "processing"}
    BY <1>1 DEF WorkSound
  <2>5. MailWaits(m)'
    BY <1>0, <1>2, <1>3, <1>7, <2>1, <2>2, <2>3, <2>4 DEF MailWaits
  <2>6. mailbox' \in [Inbound -> MailRows] /\ mailbox[m].tries <= mailbox'[m].tries
    BY <1>2, <1>7
  <2> QED
    BY <1>0, <1>1, <1>2, <1>7, <2>5, <2>6, RowChanges
<1>8. CASE CreateRefused(h)
  <2>1. w.at = "create" /\ portal[ThreadOf[m]] # NoTask
    BY <1>1, <1>8 DEF CreateRefused, WorkSound
  <2> QED
    BY <1>2, <1>7, <1>8, <2>1 DEF CreateRefused
<1>9. CASE AttachPictures(h)
  BY <1>1, <1>2, <1>7, <1>9 DEF AttachPictures
<1>10. CASE Slip(h)
  <2>1. slips' = [slips EXCEPT ![m] = slips[m] + 1] /\ UNCHANGED mailbox
        /\ hand' = [hand EXCEPT ![h] = Unbusy]
    BY <1>1, <1>10 DEF Slip
  <2>2. slips' \in [Inbound -> Nat] /\ slips'[m] = slips[m] + 1
        /\ \A n \in Inbound \ {m} : slips'[n] = slips[n]
    BY <1>2, <2>1
  <2> QED
    BY <1>7, <2>1, <2>2
<1> QED
  BY <1>5, <1>6, <1>8, <1>9, <1>10

\* The founder's button closes a task, which keeps its thread.
LEMMA CancelSteps ==
    ASSUME TriageInv, NEW t \in Threads, CancelTask(t)
    PROVE  TriageInv'
<1> DEFINE row == [portal[t] EXCEPT !.closed = TRUE]
<1>1. UNCHANGED <<mailbox, bridges, told, hand, slips>> /\ portal[t] # NoTask
  BY DEF CancelTask
<1>2. portal \in [Threads -> PortalRows]
  BY DEF TriageInv, TriageTypes
<1>3. row \in PortalRows /\ row.by = portal[t].by /\ row.comments = portal[t].comments /\ row.closed
  BY <1>2 DEF PortalRows
<1>4. row # NoTask
  BY <1>3 DEF NoTask
<1>5. portal' = [portal EXCEPT ![t] = row]
  BY DEF CancelTask
<1> HIDE DEF row
<1>6. /\ portal' \in [Threads -> PortalRows]
      /\ \A u \in Threads : /\ portal[u] # NoTask => portal'[u] # NoTask
                            /\ Marked(u)' = Marked(u)
  BY <1>2, <1>3, <1>4, <1>5 DEF Marked
<1>7. \A n \in Inbound : BridgesOf(n)' = BridgesOf(n) /\ FirstBridge(n)' = FirstBridge(n)
  BY <1>1 DEF BridgesOf, FirstBridge
<1>8. TriageTypes' /\ OneHand'
  BY <1>1, <1>6 DEF TriageInv, TriageTypes, OneHand
<1>9. ASSUME NEW h \in Hands PROVE HandSound(h)'
  <2>1. HandSound(h) /\ hand'[h] = hand[h] /\ hand[h] \in HandRows
    BY <1>1, HandFacts DEF TriageInv
  <2>2. CASE hand[h] = Unbusy
    BY <2>1, <2>2 DEF HandSound, Unbusy
  <2>3. CASE hand[h] # Unbusy
    <3>1. PICK w \in HandRows, n \in Inbound : w = hand[h] /\ n = w.mail /\ WorkSound(w, n)
      BY <2>1, <2>3 DEF HandSound
    <3>2. ThreadOf[n] \in Threads
      BY TriageAssumption
    <3>3. WorkSound(w, n)'
      BY <1>1, <1>6, <1>7, <3>1, <3>2 DEF WorkSound, FirstTold
    <3> QED
      BY <2>1, <3>1, <3>3 DEF HandSound
  <2> QED
    BY <2>2, <2>3
<1>10. ASSUME NEW n \in Inbound PROVE MailWaits(n)' /\ MarksSound(n)'
  <2>1. MailWaits(n) /\ MarksSound(n) /\ ThreadOf[n] \in Threads
    BY TriageAssumption DEF TriageInv
  <2> QED
    BY <1>1, <1>6, <1>7, <2>1 DEF MailWaits, MarksSound, Unheld, FirstTold
<1> QED
  BY <1>8, <1>9, <1>10 DEF TriageInv

\* TriageInv is an invariant.
LEMMA TriageInductive == TriageSpec => []TriageInv
<1>1. ASSUME TriageInit PROVE TriageInv
  <2>1. Unbusy \in HandRows /\ Unbusy.mail \notin Inbound
    BY TriageAssumption DEF Unbusy, HandRows, HandStages
  <2>2. NoTask \in PortalRows /\ NoTask.by = <<>> /\ NoTask.comments = {}
    BY DEF NoTask, PortalRows
  <2>3. Earlier \in PortalRows /\ Earlier.by = <<"portal", 0, 0>> /\ Earlier.comments = {}
    <3>1. <<"portal", 0, 0>> \in ProjectMarks
      BY DEF ProjectMarks
    <3> QED
      BY <3>1 DEF Earlier, NoTask, PortalRows
  <2>4. portal \in [Threads -> PortalRows] /\ \A t \in Threads : portal[t] \in {NoTask, Earlier}
    BY <1>1, <2>2, <2>3 DEF TriageInit
  <2>5. mailbox \in [Inbound -> MailRows]
        /\ \A m \in Inbound : mailbox[m].tries = 0 /\ mailbox[m].status = "pending"
    BY <1>1 DEF TriageInit, MailRows, MailStates
  <2>6. \A h \in Hands : hand[h] = Unbusy
    BY <1>1 DEF TriageInit
  <2>7. TriageTypes
    BY <1>1, <2>1, <2>4, <2>5 DEF TriageInit, TriageTypes
  <2>8. bridges = <<>> /\ \A m \in Inbound : slips[m] = 0 /\ BridgesOf(m) = {}
    BY <1>1 DEF TriageInit, BridgesOf
  <2>9. OneHand /\ \A h \in Hands : HandSound(h)
    BY <2>1, <2>6 DEF OneHand, HandSound
  <2>10. ASSUME NEW t \in Threads, NEW mark \in Marked(t) PROVE mark[3] = 0
    BY <2>2, <2>3, <2>4 DEF Marked
  <2>11. ASSUME NEW m \in Inbound PROVE MailWaits(m) /\ MarksSound(m)
    <3>1. MailWaits(m)
      BY <2>5, <2>8 DEF MailWaits
    <3>2. MarksSound(m)
      BY <2>5, <2>8, <2>10 DEF MarksSound
    <3> QED
      BY <3>1, <3>2
  <2> QED
    BY <2>7, <2>9, <2>11 DEF TriageInv
<1>2. ASSUME TriageInv, [TriageNext]_triageVars PROVE TriageInv'
  <2>1. CASE UNCHANGED triageVars
    <3>1. UNCHANGED <<mailbox, portal, bridges, told, hand, slips>>
      BY <2>1 DEF triageVars
    <3>2. /\ \A m \in Inbound : BridgesOf(m)' = BridgesOf(m) /\ FirstBridge(m)' = FirstBridge(m)
          /\ \A t \in Threads : Marked(t)' = Marked(t)
      BY <3>1 DEF BridgesOf, FirstBridge, Marked
    <3>3. TriageTypes' /\ OneHand'
      BY <1>2, <3>1 DEF TriageInv, TriageTypes, OneHand
    <3>4. ASSUME NEW m \in Inbound PROVE MailWaits(m)' /\ MarksSound(m)'
      BY <1>2, <3>1, <3>2 DEF TriageInv, MailWaits, MarksSound, Unheld, FirstTold
    <3>5. ASSUME NEW h \in Hands PROVE HandSound(h)'
      <4>1. HandSound(h)
        BY <1>2 DEF TriageInv
      <4> QED
        BY <3>1, <4>1 DEF HandSound, WorkSound, FirstTold, FirstBridge, BridgesOf
    <3> QED
      BY <3>3, <3>4, <3>5 DEF TriageInv
  <2>2. CASE TriageNext
    BY <1>2, <2>2, ClaimMailSteps, FailStuckSteps, TalkSteps, ProjectSteps, BridgeSteps, EndSteps,
       CancelSteps
       DEF TriageNext
  <2> QED
    BY <1>2, <2>1, <2>2
<1> QED
  BY <1>1, <1>2, PTL DEF TriageSpec

\* A row that is taken up again, by whichever replica and after whatever broke off: no
\* attempt after one that bridged its message writes to the project for it (process asks
\* tryR49Reconfirm first), the first task of a closed row has been announced, and the
\* portal's refusals cost it one attempt at most.
THEOREM RetriesAreHarmless == TriageSpec => []RetryIsHarmless
<1>1. ASSUME TriageInv PROVE RetryIsHarmless
  <2>1. bridges \in Seq(BridgeRows) /\ \A m \in Inbound : MailWaits(m) /\ MarksSound(m)
    BY <1>1 DEF TriageInv, TriageTypes
  <2>2. RetryLeavesPortalAlone
    <3> SUFFICES ASSUME NEW k \in DOMAIN bridges, NEW t \in Threads, NEW mark \in Marked(t),
                        mark[1] = bridges[k].mail
                 PROVE  mark[3] <= bridges[k].try
      BY DEF RetryLeavesPortalAlone, Marked
    <3>1. bridges[k].mail \in Inbound
      <4>1. bridges[k] \in BridgeRows
        BY <2>1
      <4> QED
        BY <4>1 DEF BridgeRows
    <3>2. k \in BridgesOf(bridges[k].mail)
      BY DEF BridgesOf
    <3> QED
      BY <2>1, <3>1, <3>2 DEF MarksSound
  <2>3. FirstTaskIsAnnounced /\ RefusalIsSurvived
    BY <2>1 DEF FirstTaskIsAnnounced, RefusalIsSurvived, MailWaits, FirstTold
  <2> QED
    BY <2>2, <2>3 DEF RetryIsHarmless
<1> QED
  BY <1>1, TriageInductive, PTL

\* No row is tried or slips more often than it may, and what is answered or pictured is a row.
TriageBounds ==
    /\ \A m \in Inbound : mailbox[m].tries <= MaxTries /\ slips[m] <= MaxSlips
    /\ answered \subseteq Inbound /\ pictured \subseteq Inbound

LEMMA TriageBoundsStep ==
    ASSUME TriageInv, TriageBounds, [TriageNext]_triageVars
    PROVE  TriageBounds'
<1>0. mailbox \in [Inbound -> MailRows] /\ slips \in [Inbound -> Nat]
  BY DEF TriageInv, TriageTypes
<1>1. ASSUME NEW m \in Inbound, NEW row, mailbox' = [mailbox EXCEPT ![m] = row], row.tries <= MaxTries
      PROVE  \A n \in Inbound : mailbox'[n].tries <= MaxTries
  BY <1>0, <1>1 DEF TriageBounds
<1>2. ASSUME NEW m \in Inbound, NEW s, mailbox' = [mailbox EXCEPT ![m].status = s]
      PROVE  \A n \in Inbound : mailbox'[n].tries <= MaxTries
  <2> DEFINE row == [mailbox[m] EXCEPT !.status = s]
  <2>1. row.tries = mailbox[m].tries /\ mailbox' = [mailbox EXCEPT ![m] = row]
    BY <1>0, <1>2 DEF MailRows
  <2> HIDE DEF row
  <2> QED
    BY <1>1, <2>1 DEF TriageBounds
<1>3. ASSUME NEW h \in Hands, hand[h].at # "idle" PROVE hand[h].mail \in Inbound
  BY <1>3, HandFacts
<1>4. ASSUME NEW h \in Hands, NEW m \in Inbound, ClaimMail(h, m) PROVE TriageBounds'
  <2>1. /\ mailbox' = [mailbox EXCEPT ![m] = [status |-> "processing", tries |-> mailbox[m].tries + 1]]
        /\ mailbox[m].tries < MaxTries /\ UNCHANGED <<answered, pictured, slips>>
    BY <1>0, <1>4 DEF ClaimMail
  <2>2. mailbox[m].tries \in Nat
    BY <1>0 DEF MailRows
  <2>3. mailbox[m].tries + 1 <= MaxTries
    BY <2>1, <2>2, TriageAssumption
  <2>4. \A n \in Inbound : mailbox'[n].tries <= MaxTries
    BY <1>0, <2>1, <2>3 DEF TriageBounds
  <2> QED
    BY <2>1, <2>4 DEF TriageBounds
<1>5. ASSUME NEW m \in Inbound, FailStuckMail(m) PROVE TriageBounds'
  BY <1>2, <1>5 DEF FailStuckMail, TriageBounds
<1>6. ASSUME NEW h \in Hands, Skip(h) \/ Close(h) PROVE TriageBounds'
  <2>1. /\ \E s : mailbox' = [mailbox EXCEPT ![hand[h].mail].status = s]
        /\ UNCHANGED <<answered, pictured, slips>> /\ hand[h].at # "idle"
    BY <1>6, Zenon DEF Skip, Close
  <2>2. \A n \in Inbound : mailbox'[n].tries <= MaxTries
    BY <1>2, <1>3, <2>1
  <2> QED
    BY <2>1, <2>2 DEF TriageBounds
<1>7. ASSUME NEW h \in Hands, GateQuestion(h) \/ AttachPictures(h) PROVE TriageBounds'
  <2>1. hand[h].mail \in Inbound
    BY <1>3, <1>7 DEF GateQuestion, AttachPictures
  <2> QED
    BY <1>7, <2>1 DEF GateQuestion, AttachPictures, TriageBounds
<1>8. ASSUME NEW h \in Hands, Slip(h) PROVE TriageBounds'
  <2>1. \A m \in Inbound : slips'[m] = slips[m] \/ (slips[m] < MaxSlips /\ slips'[m] = slips[m] + 1)
    BY <1>0, <1>8 DEF Slip
  <2>2. \A m \in Inbound : slips[m] \in Nat
    BY <1>0
  <2>3. \A m \in Inbound : slips'[m] <= MaxSlips
    BY <2>1, <2>2, TriageAssumption DEF TriageBounds
  <2> QED
    BY <1>8, <2>3 DEF Slip, TriageBounds
<1>9. ASSUME UNCHANGED <<mailbox, answered, pictured, slips>> PROVE TriageBounds'
  BY <1>9 DEF TriageBounds
<1> QED
  BY <1>4, <1>5, <1>6, <1>7, <1>8, <1>9
     DEF TriageNext, Reconfirm, Retell, RunMoneyLoop, GateTalk, Search, AddComment, CreateTask,
         CreateRefused, RecordBridge, RecordDecision, Announce, CancelTask, triageVars

\* The rows, the project, the bridges and the replicas stay what they are, and no row is tried
\* more than MaxTries times.
THEOREM TriageTypesHold == TriageSpec => []TriageTypeOK
<1>1. TriageInit => TriageBounds
  BY TriageAssumption DEF TriageInit, TriageBounds
<1>2. TriageInv /\ TriageBounds /\ [TriageNext]_triageVars => TriageBounds'
  BY TriageBoundsStep
<1>3. TriageInv /\ TriageBounds => TriageTypeOK
  <2> SUFFICES ASSUME TriageInv, TriageBounds PROVE TriageTypeOK
    OBVIOUS
  <2>1. /\ mailbox \in [Inbound -> MailRows] /\ portal \in [Threads -> PortalRows]
        /\ bridges \in Seq(BridgeRows) /\ hand \in [Hands -> HandRows] /\ slips \in [Inbound -> Nat]
    BY DEF TriageInv, TriageTypes
  <2>2. mailbox \in [Inbound -> [status : {"pending", "processing", "processed", "skipped", "failed"},
                                 tries : 0..MaxTries]]
    <3>1. ASSUME NEW m \in Inbound
          PROVE  mailbox[m] \in [status : {"pending", "processing", "processed", "skipped", "failed"},
                                 tries : 0..MaxTries]
      <4>1. mailbox[m] \in MailRows
        BY <2>1
      <4>2. mailbox[m].tries \in 0..MaxTries
        BY <4>1, TriageAssumption DEF TriageBounds, MailRows
      <4> QED
        BY <4>1, <4>2 DEF MailRows, MailStates
    <3> QED
      BY <2>1, <3>1
  <2>3. \A k \in DOMAIN bridges : bridges[k].mail \in Inbound /\ bridges[k].thread \in Threads
    <3>1. \A k \in DOMAIN bridges : bridges[k] \in BridgeRows
      BY <2>1
    <3> QED
      BY <3>1 DEF BridgeRows
  <2>4. \A h \in Hands : hand[h].mail \in Inbound \cup {"none"}
    BY <2>1 DEF HandRows
  <2>5. slips \in [Inbound -> 0..MaxSlips]
    BY <2>1, TriageAssumption DEF TriageBounds
  <2> QED
    BY <2>1, <2>2, <2>3, <2>4, <2>5 DEF TriageTypeOK, TriageBounds
<1> QED
  BY <1>1, <1>2, <1>3, TriageInductive, PTL DEF TriageSpec

-----------------------------------------------------------------------------
(* Notices.                                                                  *)

SweepRows == [at : {"idle", "seed", "claim", "draft", "present", "release"},
              sweep : NoticeSweeps \cup {"none"}, todo : SUBSET Nat, upto : Nat]

\* Replica w has claimed item i and has not given it back or gone on.
Busy == {"draft", "present", "release"}
Has(w, i) == tick[w].at \in Busy /\ i = Item(w)

\* A tick goes through items of its sweep, drafts only once the sweep was seeded, and
\* a seed has claimed, or is going to, whatever was ripe at the go-live.
SweepSound(w) ==
    /\ \A n \in tick[w].todo : n \in 1..Len(ripe) /\ SweepOf[ripe[n]] = tick[w].sweep
    /\ tick[w].at \in Busy => tick[w].todo # {}
    /\ tick[w].at \in Busy \cup {"claim"} => tick[w].sweep \in seeded
    /\ tick[w].at = "release" => tick[w].sweep # "note"
    /\ tick[w].at = "seed" => /\ tick[w].sweep \in NoticeSweeps
                              /\ \A i \in backlog : SweepOf[i] = tick[w].sweep =>
                                    i \in claims \/ \E n \in tick[w].todo : ripe[n] = i

\* What the ledgers say of an item and its drafts: none but those that were not shown
\* before it is claimed, none before its sweep was seeded and none of the backlog.
ItemSound(i) ==
    /\ drafts[i] <= unshown[i] + 1
    /\ i \notin claims => drafts[i] <= unshown[i]
    /\ SweepOf[i] = "note" => drafts[i] <= 1 /\ (i \notin claims => drafts[i] = 0)
    /\ SweepOf[i] \notin seeded => drafts[i] = 0
    /\ i \in backlog => /\ drafts[i] = 0 /\ \E n \in 1..Len(ripe) : ripe[n] = i
                        /\ SweepOf[i] \in seeded => i \in claims
    /\ \A w \in Sweepers : Has(w, i) =>
        /\ i \in claims /\ i \notin backlog
        /\ tick[w].at \in {"draft", "release"} => drafts[i] <= unshown[i]
        /\ tick[w].at = "draft" /\ SweepOf[i] = "note" => drafts[i] = 0
    /\ \A w, v \in Sweepers : Has(w, i) /\ Has(v, i) => w = v

NoteTypes ==
    /\ ripe \in Seq(Items) /\ cursor \in Nat /\ claims \subseteq Items
    /\ tick \in [Sweepers -> SweepRows] /\ drafts \in [Items -> Nat] /\ unshown \in [Items -> Nat]

NotesInv ==
    /\ NoteTypes /\ backlog \subseteq Items
    /\ \A w \in Sweepers : SweepSound(w)
    /\ \A i \in Items : ItemSound(i)


\* What a tick and the item it is at are made of.
LEMMA NoteFacts ==
    ASSUME NotesInv, NEW w \in Sweepers
    PROVE  /\ tick \in [Sweepers -> SweepRows] /\ tick[w] \in SweepRows
           /\ NoTick \in SweepRows /\ NoTick.at = "idle" /\ NoTick.todo = {}
           /\ Len(ripe) \in Nat /\ ripe \in Seq(Items)
           /\ tick[w].todo \subseteq 1..Len(ripe)
           /\ \A n \in 1..Len(ripe) : ripe[n] \in Items
           /\ tick[w].todo # {} =>
                /\ Min(tick[w].todo) \in tick[w].todo
                /\ Item(w) \in Items /\ SweepOf[Item(w)] = tick[w].sweep
<1>1. NoTick \in SweepRows /\ NoTick.at = "idle" /\ NoTick.todo = {}
  BY DEF NoTick, SweepRows
<1>2. SweepSound(w) /\ NoteTypes /\ Len(ripe) \in Nat
  BY DEF NotesInv, NoteTypes
<1>3. tick[w].todo \in SUBSET Nat /\ tick[w].todo \subseteq 1..Len(ripe)
  BY <1>2 DEF SweepSound, NoteTypes
<1>4. tick[w].todo # {} => Min(tick[w].todo) \in tick[w].todo
  BY <1>3, LeastOf DEF Min
<1>5. \A n \in 1..Len(ripe) : ripe[n] \in Items
  BY <1>2 DEF NoteTypes
<1> QED
  BY <1>1, <1>2, <1>3, <1>4, <1>5 DEF SweepSound, Item, NoteTypes

\* A step of one tick that touches the items I only.
LEMMA NoteMoves ==
    ASSUME NotesInv, NEW w \in Sweepers, NEW q \in SweepRows, tick' = [tick EXCEPT ![w] = q],
           UNCHANGED <<ripe, seeded, backlog, cursor>>, claims' \subseteq Items,
           drafts' \in [Items -> Nat], unshown' \in [Items -> Nat], NEW I \in SUBSET Items,
           \A j \in Items \ I : /\ drafts'[j] = drafts[j] /\ unshown'[j] = unshown[j]
                                /\ j \in claims' <=> j \in claims
                                /\ ~Has(w, j)',
           \A j \in backlog : j \in claims => j \in claims',
           SweepSound(w)', \A i \in I : ItemSound(i)'
    PROVE  NotesInv'
<1>1. /\ tick \in [Sweepers -> SweepRows] /\ tick' \in [Sweepers -> SweepRows]
      /\ \A v \in Sweepers \ {w} : tick'[v] = tick[v]
  BY DEF NotesInv, NoteTypes
<1>2. NoteTypes' /\ backlog' \subseteq Items
  BY <1>1 DEF NotesInv, NoteTypes
<1>3. ASSUME NEW v \in Sweepers \ {w} PROVE SweepSound(v)'
  BY <1>1 DEF NotesInv, SweepSound
<1>4. \A v \in Sweepers \ {w}, j \in Items : Has(v, j)' <=> Has(v, j)
  BY <1>1 DEF Has, Item
<1>5. ASSUME NEW j \in Items \ I PROVE ItemSound(j)'
  <2>1. /\ ItemSound(j) /\ drafts'[j] = drafts[j] /\ unshown'[j] = unshown[j]
        /\ j \in claims' <=> j \in claims
    BY DEF NotesInv
  <2>2. \A v \in Sweepers : Has(v, j)' => v # w /\ Has(v, j) /\ tick'[v] = tick[v]
    BY <1>1, <1>4
  <2>3. \A v \in Sweepers : Has(v, j)' =>
            /\ j \in claims' /\ j \notin backlog'
            /\ tick'[v].at \in {"draft", "release"} => drafts'[j] <= unshown'[j]
            /\ tick'[v].at = "draft" /\ SweepOf[j] = "note" => drafts'[j] = 0
    BY <2>1, <2>2 DEF ItemSound
  <2>4. \A u, v \in Sweepers : Has(u, j)' /\ Has(v, j)' => u = v
    BY <2>1, <2>2 DEF ItemSound
  <2> HIDE DEF Has
  <2> QED
    BY <2>1, <2>3, <2>4 DEF ItemSound
<1> QED
  BY <1>2, <1>3, <1>5 DEF NotesInv


\* A tick that stays at its items, in another stage.
LEMMA StageMoves ==
    ASSUME NotesInv, NEW w \in Sweepers,
           NEW stage \in {"draft", "present", "release"}, Stage(w, stage),
           tick[w].at \in Busy \cup {"claim"}, tick[w].todo # {},
           stage = "release" => tick[w].sweep # "note", UNCHANGED <<ripe, seeded>>
    PROVE  /\ SweepSound(w)' /\ \A j \in Items : Has(w, j)' <=> j = Item(w)
           /\ tick'[w].at = stage
           /\ \E q \in SweepRows : tick' = [tick EXCEPT ![w] = q]
<1> DEFINE q == [tick[w] EXCEPT !.at = stage]
<1>0. tick[w] \in SweepRows /\ tick \in [Sweepers -> SweepRows] /\ SweepSound(w)
  BY NoteFacts DEF NotesInv
<1>1. tick' = [tick EXCEPT ![w] = q]
  BY <1>0 DEF Stage
<1>2. q \in SweepRows /\ q.at = stage /\ q.todo = tick[w].todo /\ q.sweep = tick[w].sweep
  BY <1>0 DEF SweepRows
<1> HIDE DEF q
<1>3. tick'[w] = q
  BY <1>0, <1>1
<1> QED
  BY <1>0, <1>1, <1>2, <1>3 DEF SweepSound, Has, Item, Busy

\* A tick that goes on to its next item.
LEMMA NextMoves ==
    ASSUME NotesInv, NEW w \in Sweepers, NextItem(w), tick[w].at \in Busy \cup {"claim"},
           UNCHANGED <<ripe, seeded>>
    PROVE  /\ SweepSound(w)' /\ \A j \in Items : ~Has(w, j)'
           /\ \E q \in SweepRows : tick' = [tick EXCEPT ![w] = q]
<1> DEFINE left == Left(w)
           q == [tick[w] EXCEPT !.at = "claim", !.todo = left]
<1>0. tick[w] \in SweepRows /\ tick \in [Sweepers -> SweepRows] /\ SweepSound(w)
  BY NoteFacts DEF NotesInv
<1>1. tick' = [tick EXCEPT ![w] = q]
  BY <1>0 DEF NextItem
<1>2. left \subseteq tick[w].todo /\ left \in SUBSET Nat
  BY <1>0 DEF Left, SweepRows
<1> HIDE DEF left
<1>3. q \in SweepRows /\ q.at = "claim" /\ q.todo = left /\ q.sweep = tick[w].sweep
  BY <1>0, <1>2 DEF SweepRows
<1> HIDE DEF q
<1>4. tick'[w] = q
  BY <1>0, <1>1
<1> QED
  BY <1>0, <1>1, <1>2, <1>3, <1>4 DEF SweepSound, Has, Busy

\* A tick that is over.
LEMMA NoticeTickEnds ==
    ASSUME NotesInv, NEW w \in Sweepers, tick' = [tick EXCEPT ![w] = NoTick]
    PROVE  SweepSound(w)' /\ \A j \in Items : ~Has(w, j)'
<1>1. tick'[w].at = "idle" /\ tick'[w].todo = {}
  BY NoteFacts
<1> QED
  BY <1>1 DEF SweepSound, Has, Busy

\* A step of a tick with the item in its hand, which no other tick has.
LEMMA HandMoves ==
    ASSUME NotesInv, NEW w \in Sweepers, NEW q \in SweepRows, tick' = [tick EXCEPT ![w] = q],
           UNCHANGED <<ripe, seeded, backlog, cursor>>, claims' \subseteq Items,
           drafts' \in [Items -> Nat], unshown' \in [Items -> Nat], NEW i, i = Item(w),
           tick[w].todo # {},
           tick[w].at \in Busy \/ (tick[w].at = "claim" /\ i \notin claims),
           \A j \in Items \ {i} : /\ drafts'[j] = drafts[j] /\ unshown'[j] = unshown[j]
                                  /\ j \in claims' <=> j \in claims
                                  /\ ~Has(w, j)',
           SweepSound(w)',
           drafts'[i] <= unshown'[i] + 1, i \notin claims' => drafts'[i] <= unshown'[i],
           SweepOf[i] = "note" => drafts'[i] <= 1 /\ (i \notin claims' => drafts'[i] = 0),
           Has(w, i)' => /\ i \in claims'
                         /\ tick'[w].at \in {"draft", "release"} => drafts'[i] <= unshown'[i]
                         /\ tick'[w].at = "draft" /\ SweepOf[i] = "note" => drafts'[i] = 0
    PROVE  NotesInv'
<1>1. i \in Items /\ SweepOf[i] = tick[w].sweep /\ ItemSound(i) /\ SweepSound(w)
  BY NoteFacts DEF NotesInv
<1>2. SweepOf[i] \in seeded
  BY <1>1 DEF SweepSound
<1>3. i \notin backlog
  BY <1>1, <1>2 DEF ItemSound, Has
<1>4. \A v \in Sweepers \ {w} : ~Has(v, i) /\ tick'[v] = tick[v]
  BY <1>1, NoteFacts DEF ItemSound, Has
<1>5. \A v \in Sweepers \ {w} : ~Has(v, i)'
  BY <1>4 DEF Has, Item
<1>6. ItemSound(i)'
  <2>1. \A v \in Sweepers : Has(v, i)' =>
            /\ i \in claims' /\ i \notin backlog'
            /\ tick'[v].at \in {"draft", "release"} => drafts'[i] <= unshown'[i]
            /\ tick'[v].at = "draft" /\ SweepOf[i] = "note" => drafts'[i] = 0
    BY <1>3, <1>5
  <2>2. \A u, v \in Sweepers : Has(u, i)' /\ Has(v, i)' => u = v
    BY <1>5
  <2> HIDE DEF Has
  <2> QED
    BY <1>2, <1>3, <2>1, <2>2 DEF ItemSound
<1>7. \A j \in backlog : j \in claims => j \in claims'
  BY <1>3 DEF NotesInv
<1> HIDE DEF Has
<1> DEFINE I == {i}
<1>8. I \in SUBSET Items /\ \A j \in I : ItemSound(j)'
  BY <1>1, <1>6
<1>9. \A j \in Items \ I : /\ drafts'[j] = drafts[j] /\ unshown'[j] = unshown[j]
                           /\ j \in claims' <=> j \in claims
                           /\ ~Has(w, j)'
  OBVIOUS
<1> HIDE DEF I
<1> QED
  BY <1>7, <1>8, <1>9, NoteMoves

\* A step of a tick that leaves the ledgers and the drafts alone and has no item.
LEMMA PlainMoves ==
    ASSUME NotesInv, NEW w \in Sweepers, NEW q \in SweepRows, tick' = [tick EXCEPT ![w] = q],
           UNCHANGED <<ripe, seeded, backlog, cursor, claims, drafts, unshown>>,
           SweepSound(w)', \A j \in Items : ~Has(w, j)'
    PROVE  NotesInv'
<1> DEFINE I == {}
<1>1. I \in SUBSET Items /\ \A j \in I : ItemSound(j)'
  OBVIOUS
<1>2. /\ claims' \subseteq Items /\ drafts' \in [Items -> Nat] /\ unshown' \in [Items -> Nat]
      /\ \A j \in backlog : j \in claims => j \in claims'
  BY DEF NotesInv, NoteTypes
<1> HIDE DEF Has
<1>3. \A j \in Items \ I : /\ drafts'[j] = drafts[j] /\ unshown'[j] = unshown[j]
                           /\ j \in claims' <=> j \in claims
                           /\ ~Has(w, j)'
  OBVIOUS
<1> HIDE DEF I
<1> QED
  BY <1>1, <1>2, <1>3, NoteMoves

LEMMA ClaimStep == ASSUME NotesInv, NEW w \in Sweepers, ClaimItem(w) PROVE NotesInv'
<1>0. /\ tick[w].at = "claim" /\ tick[w].todo # {} /\ NotesInv
      /\ UNCHANGED <<ripe, seeded, backlog, cursor, drafts, unshown>>
  BY DEF ClaimItem, InHand, notedVars
<1>1. CASE Item(w) \in claims
  <2>1. NextItem(w) /\ UNCHANGED claims
    BY <1>1 DEF ClaimItem
  <2>2. /\ SweepSound(w)' /\ \A j \in Items : ~Has(w, j)'
        /\ \E q \in SweepRows : tick' = [tick EXCEPT ![w] = q]
    BY <1>0, <2>1, NextMoves
  <2> QED
    BY <1>0, <2>1, <2>2, PlainMoves
<1>2. CASE Item(w) \notin claims
  <2>1. claims' = claims \cup {Item(w)} /\ Stage(w, "draft")
    BY <1>2 DEF ClaimItem
  <2>2. /\ SweepSound(w)' /\ \A j \in Items : Has(w, j)' <=> j = Item(w)
        /\ \E q \in SweepRows : tick' = [tick EXCEPT ![w] = q]
    BY <1>0, <2>1, StageMoves
  <2>3. PICK i \in Items : i = Item(w) /\ ItemSound(i)
    BY <1>0, NoteFacts DEF NotesInv
  <2>4. /\ drafts[i] <= unshown[i] /\ drafts[i] \in Nat /\ unshown[i] \in Nat
        /\ SweepOf[i] = "note" => drafts[i] = 0
    BY <1>2, <2>3 DEF ItemSound, NotesInv, NoteTypes
  <2>5. drafts[i] <= unshown[i] + 1 /\ (SweepOf[i] = "note" => drafts[i] <= 1)
    BY <2>4
  <2>6. /\ claims' \subseteq Items /\ i \in claims'
        /\ drafts' \in [Items -> Nat] /\ unshown' \in [Items -> Nat]
        /\ \A j \in Items \ {i} : j \in claims' <=> j \in claims
    BY <1>0, <2>1, <2>3 DEF NotesInv, NoteTypes
  <2> QED
    BY <1>0, <1>2, <2>2, <2>3, <2>4, <2>5, <2>6, HandMoves
<1> QED
  BY <1>1, <1>2

LEMMA SkipStep == ASSUME NotesInv, NEW w \in Sweepers, tick[w].at \in Busy, NextItem(w),
                         UNCHANGED <<ripe, ledgerVars, drafts, unshown, backlog>>
                  PROVE  NotesInv'
<1>1. UNCHANGED <<ripe, seeded, backlog, cursor, claims, drafts, unshown>>
  BY DEF ledgerVars
<1>2. /\ SweepSound(w)' /\ \A j \in Items : ~Has(w, j)'
      /\ \E q \in SweepRows : tick' = [tick EXCEPT ![w] = q]
  BY <1>1, NextMoves
<1> QED
  BY <1>1, <1>2, PlainMoves

LEMMA DraftStep == ASSUME NotesInv, NEW w \in Sweepers, DraftNotice(w) PROVE NotesInv'
<1>0. /\ tick[w].at = "draft" /\ tick[w].todo # {} /\ Stage(w, "present")
      /\ UNCHANGED <<ripe, seeded, backlog, cursor, claims, unshown>>
  BY DEF DraftNotice, InHand, ledgerVars
<1>1. /\ SweepSound(w)' /\ \A j \in Items : Has(w, j)' <=> j = Item(w)
      /\ tick'[w].at = "present"
      /\ \E q \in SweepRows : tick' = [tick EXCEPT ![w] = q]
  BY <1>0, StageMoves DEF Busy
<1>2. PICK i \in Items : i = Item(w) /\ ItemSound(i)
  BY <1>0, NoteFacts DEF NotesInv
<1>3. Has(w, i)
  BY <1>0, <1>2 DEF Has, Busy
<1>4. /\ drafts \in [Items -> Nat] /\ unshown \in [Items -> Nat] /\ claims \subseteq Items
      /\ i \in claims /\ drafts[i] <= unshown[i] /\ (SweepOf[i] = "note" => drafts[i] = 0)
  BY <1>0, <1>2, <1>3 DEF ItemSound, NotesInv, NoteTypes
<1>5. drafts' = [drafts EXCEPT ![i] = drafts[i] + 1]
  BY <1>2 DEF DraftNotice
<1>6. drafts' \in [Items -> Nat] /\ drafts'[i] = drafts[i] + 1
  BY <1>4, <1>5
<1>7. drafts[i] \in Nat /\ unshown[i] \in Nat
  BY <1>4
<1>8. drafts'[i] <= unshown[i] + 1 /\ (SweepOf[i] = "note" => drafts'[i] <= 1)
  BY <1>4, <1>6, <1>7
<1>9. \A j \in Items \ {i} : drafts'[j] = drafts[j]
  BY <1>4, <1>5
<1> QED
  BY <1>0, <1>1, <1>2, <1>4, <1>6, <1>8, <1>9, HandMoves DEF Busy

\* The item is put down until the claim is given back.
LEMMA ReleasingStep ==
    ASSUME NotesInv, NEW w \in Sweepers, tick[w].at \in Busy, tick[w].todo # {},
           tick[w].sweep # "note", Stage(w, "release"),
           UNCHANGED <<ripe, ledgerVars, drafts, backlog>>, unshown' \in [Items -> Nat],
           \A j \in Items \ {Item(w)} : unshown'[j] = unshown[j],
           drafts[Item(w)] <= unshown'[Item(w)]
    PROVE  NotesInv'
<1>0. UNCHANGED <<ripe, seeded, backlog, cursor, claims, drafts>>
  BY DEF ledgerVars
<1>1. /\ SweepSound(w)' /\ \A j \in Items : Has(w, j)' <=> j = Item(w)
      /\ tick'[w].at = "release"
      /\ \E q \in SweepRows : tick' = [tick EXCEPT ![w] = q]
  BY <1>0, StageMoves
<1>2. PICK i \in Items : i = Item(w) /\ ItemSound(i) /\ SweepOf[i] # "note"
  BY NoteFacts DEF NotesInv
<1>3. Has(w, i)
  BY <1>2 DEF Has
<1>4. /\ drafts \in [Items -> Nat] /\ claims \subseteq Items /\ i \in claims
      /\ drafts[i] \in Nat /\ unshown'[i] \in Nat
  BY <1>2, <1>3 DEF ItemSound, NotesInv, NoteTypes
<1>5. drafts[i] <= unshown'[i] + 1
  BY <1>2, <1>4
<1> QED
  BY <1>0, <1>1, <1>2, <1>4, <1>5, HandMoves

LEMMA DraftingFailsStep == ASSUME NotesInv, NEW w \in Sweepers, DraftingFails(w) PROVE NotesInv'
<1>0. /\ tick[w].at = "draft" /\ tick[w].at \in Busy /\ tick[w].todo # {} /\ NotesInv
      /\ UNCHANGED <<ripe, ledgerVars, drafts, unshown, backlog>>
  BY DEF DraftingFails, InHand, Busy
<1>1. CASE Dropped(w)
  <2>1. NextItem(w)
    BY <1>1 DEF DraftingFails
  <2> QED
    BY <1>0, <2>1, SkipStep
<1>2. CASE ~Dropped(w)
  <2>1. Stage(w, "release") /\ tick[w].sweep # "note"
    BY <1>2 DEF DraftingFails, Dropped
  <2>2. PICK i \in Items : i = Item(w) /\ ItemSound(i) /\ Has(w, i)
    BY <1>0, NoteFacts DEF NotesInv, Has
  <2>3. drafts[i] <= unshown[i] /\ unshown \in [Items -> Nat]
    BY <1>0, <2>2 DEF ItemSound, NotesInv, NoteTypes
  <2>4. drafts[i] <= unshown'[i] /\ unshown' \in [Items -> Nat]
        /\ \A j \in Items \ {i} : unshown'[j] = unshown[j]
    BY <1>0, <2>3
  <2> QED
    BY <1>0, <2>1, <2>2, <2>4, ReleasingStep
<1> QED
  BY <1>1, <1>2

LEMMA PresentingFailsStep == ASSUME NotesInv, NEW w \in Sweepers, PresentingFails(w) PROVE NotesInv'
<1>0. /\ tick[w].at = "present" /\ tick[w].at \in Busy /\ tick[w].todo # {} /\ NotesInv
      /\ UNCHANGED <<ripe, ledgerVars, drafts, backlog>>
      /\ UNCHANGED <<ripe, seeded, cursor, claims, drafts, backlog>>
  BY DEF PresentingFails, InHand, Busy, ledgerVars
<1>1. PICK i \in Items : i = Item(w) /\ ItemSound(i) /\ Has(w, i)
  BY <1>0, NoteFacts DEF NotesInv, Has
<1>2. /\ drafts \in [Items -> Nat] /\ unshown \in [Items -> Nat] /\ claims \subseteq Items
      /\ i \in claims /\ drafts[i] <= unshown[i] + 1 /\ (SweepOf[i] = "note" => drafts[i] <= 1)
  BY <1>1 DEF ItemSound, NotesInv, NoteTypes
<1>3. unshown' = [unshown EXCEPT ![i] = unshown[i] + 1]
  BY <1>1 DEF PresentingFails
<1>4. /\ unshown' \in [Items -> Nat] /\ unshown'[i] = unshown[i] + 1
      /\ \A j \in Items \ {i} : unshown'[j] = unshown[j]
  BY <1>2, <1>3
<1>5. drafts[i] \in Nat /\ unshown[i] \in Nat
  BY <1>2
<1>6. drafts[i] <= unshown'[i] /\ drafts[i] <= unshown'[i] + 1
  BY <1>2, <1>4, <1>5
<1>7. CASE Dropped(w)
  <2>1. NextItem(w)
    BY <1>7 DEF PresentingFails
  <2>2. /\ SweepSound(w)' /\ \A j \in Items : ~Has(w, j)'
        /\ \E q \in SweepRows : tick' = [tick EXCEPT ![w] = q]
    BY <1>0, <2>1, NextMoves
  <2> QED
    BY <1>0, <1>1, <1>2, <1>4, <1>6, <2>2, HandMoves
<1>8. CASE ~Dropped(w)
  <2>1. Stage(w, "release") /\ tick[w].sweep # "note"
    BY <1>8 DEF PresentingFails, Dropped
  <2> QED
    BY <1>0, <1>1, <1>4, <1>6, <2>1, ReleasingStep
<1> QED
  BY <1>7, <1>8

LEMMA ReleaseStep == ASSUME NotesInv, NEW w \in Sweepers, ReleaseItem(w) PROVE NotesInv'
<1>0. /\ tick[w].at = "release" /\ tick[w].at \in Busy /\ tick[w].todo # {} /\ NotesInv
      /\ UNCHANGED <<ripe, seeded, cursor, drafts, unshown, backlog>>
  BY DEF ReleaseItem, InHand, Busy, notedVars
<1>1. PICK i \in Items : i = Item(w) /\ ItemSound(i) /\ Has(w, i) /\ SweepOf[i] # "note"
  BY <1>0, NoteFacts DEF NotesInv, Has, SweepSound
<1>2. /\ drafts \in [Items -> Nat] /\ unshown \in [Items -> Nat] /\ claims \subseteq Items
      /\ drafts[i] <= unshown[i] + 1 /\ drafts[i] <= unshown[i]
  BY <1>0, <1>1 DEF ItemSound, NotesInv, NoteTypes
<1>3. claims' = claims \ {i}
  BY <1>1 DEF ReleaseItem
<1>4. claims' \subseteq Items /\ \A j \in Items \ {i} : j \in claims' <=> j \in claims
  BY <1>2, <1>3
<1>5. /\ SweepSound(w)' /\ \A j \in Items : ~Has(w, j)'
      /\ \E q \in SweepRows : tick' = [tick EXCEPT ![w] = q]
  <2>1. CASE NextItem(w)
    BY <1>0, <2>1, NextMoves
  <2>2. CASE tick' = [tick EXCEPT ![w] = NoTick]
    BY <1>0, <2>2, NoticeTickEnds, NoteFacts
  <2> QED
    BY <2>1, <2>2 DEF ReleaseItem
<1> QED
  BY <1>0, <1>1, <1>2, <1>4, <1>5, HandMoves

LEMMA DiesStep == ASSUME NotesInv, NEW w \in Sweepers, SweeperDies(w) PROVE NotesInv'
<1>1. /\ tick' = [tick EXCEPT ![w] = NoTick] /\ NotesInv
      /\ UNCHANGED <<ripe, seeded, cursor, claims, drafts, unshown, backlog>>
  BY DEF SweeperDies, ledgerVars
<1>2. SweepSound(w)' /\ (\A j \in Items : ~Has(w, j)') /\ NoTick \in SweepRows
  BY <1>1, NoticeTickEnds, NoteFacts
<1> QED
  BY <1>1, <1>2, PlainMoves

\* The seed claims what it finds.
LEMMA SeedStep == ASSUME NotesInv, NEW w \in Sweepers, SeedItem(w) PROVE NotesInv'
<1> DEFINE left == Left(w)
           q == [tick[w] EXCEPT !.todo = left]
<1>0. /\ tick[w].at = "seed" /\ tick[w].todo # {} /\ NotesInv
      /\ UNCHANGED <<ripe, seeded, cursor, drafts, unshown, backlog>>
  BY DEF SeedItem, InHand, notedVars
<1>1. PICK i \in Items : i = Item(w) /\ ItemSound(i)
  BY <1>0, NoteFacts DEF NotesInv
<1>2. /\ tick[w] \in SweepRows /\ tick \in [Sweepers -> SweepRows] /\ SweepSound(w)
      /\ drafts \in [Items -> Nat] /\ unshown \in [Items -> Nat] /\ claims \subseteq Items
  BY NoteFacts DEF NotesInv, NoteTypes
<1>3. tick' = [tick EXCEPT ![w] = q] /\ claims' = claims \cup {i}
  BY <1>1, <1>2 DEF SeedItem
<1>4. /\ left \subseteq tick[w].todo /\ left \in SUBSET Nat
      /\ \A n \in tick[w].todo : n \in left \/ ripe[n] = i
  BY <1>1, <1>2 DEF Left, SweepRows, Item
<1> HIDE DEF left
<1>5. q \in SweepRows /\ q.at = "seed" /\ q.todo = left /\ q.sweep = tick[w].sweep
  BY <1>0, <1>2, <1>4 DEF SweepRows
<1> HIDE DEF q
<1>6. tick'[w] = q /\ \A v \in Sweepers \ {w} : tick'[v] = tick[v]
  BY <1>2, <1>3
<1>7. SweepSound(w)'
  BY <1>0, <1>2, <1>3, <1>4, <1>5, <1>6 DEF SweepSound, Busy
<1>8. \A j \in Items : ~Has(w, j)'
  BY <1>5, <1>6 DEF Has, Busy
<1>9. ItemSound(i)'
  <2>1. \A v \in Sweepers : Has(v, i)' => v # w /\ Has(v, i) /\ tick'[v] = tick[v]
    BY <1>0, <1>6, <1>8 DEF Has, Item
  <2>2. \A v \in Sweepers : Has(v, i)' =>
            /\ i \in claims' /\ i \notin backlog'
            /\ tick'[v].at \in {"draft", "release"} => drafts'[i] <= unshown'[i]
            /\ tick'[v].at = "draft" /\ SweepOf[i] = "note" => drafts'[i] = 0
    BY <1>0, <1>1, <1>3, <2>1 DEF ItemSound
  <2>3. \A u, v \in Sweepers : Has(u, i)' /\ Has(v, i)' => u = v
    BY <1>1, <2>1 DEF ItemSound
  <2> HIDE DEF Has
  <2> QED
    BY <1>0, <1>1, <1>3, <2>2, <2>3 DEF ItemSound
<1> HIDE DEF Has
<1> DEFINE I == {i}
<1>10. I \in SUBSET Items /\ \A j \in I : ItemSound(j)'
  BY <1>9
<1>11. \A j \in Items \ I : /\ drafts'[j] = drafts[j] /\ unshown'[j] = unshown[j]
                            /\ j \in claims' <=> j \in claims
                            /\ ~Has(w, j)'
  BY <1>0, <1>3, <1>8
<1>12. /\ claims' \subseteq Items /\ drafts' \in [Items -> Nat] /\ unshown' \in [Items -> Nat]
       /\ \A j \in backlog : j \in claims => j \in claims'
  BY <1>0, <1>2, <1>3
<1> HIDE DEF I
<1> QED
  BY <1>0, <1>3, <1>5, <1>7, <1>10, <1>11, <1>12, NoteMoves

\* A sweep is seeded once its seed has claimed all it found.
LEMMA EndStep == ASSUME NotesInv, NEW w \in Sweepers, EndNoticeSweep(w) PROVE NotesInv'
<1>0. /\ tick[w].at \in {"seed", "claim"} /\ tick[w].todo = {}
      /\ tick' = [tick EXCEPT ![w] = NoTick] /\ seeded' = seeded \cup {tick[w].sweep}
      /\ UNCHANGED <<ripe, claims, drafts, unshown, backlog>>
  BY DEF EndNoticeSweep, notedVars
<1>1. /\ tick \in [Sweepers -> SweepRows] /\ tick[w].upto \in Nat /\ NoTick \in SweepRows
      /\ SweepSound(w)' /\ (\A j \in Items : ~Has(w, j)') /\ SweepSound(w)
  BY <1>0, NoteFacts, NoticeTickEnds DEF SweepRows, NotesInv
<1>2. tick' \in [Sweepers -> SweepRows] /\ \A v \in Sweepers \ {w} : tick'[v] = tick[v]
  BY <1>0, <1>1
<1>3. NoteTypes' /\ backlog' \subseteq Items
  <2>1. cursor' \in Nat
    BY <1>1 DEF EndNoticeSweep, NotesInv, NoteTypes
  <2> QED
    BY <1>0, <1>2, <2>1 DEF NotesInv, NoteTypes
<1>4. ASSUME NEW v \in Sweepers \ {w} PROVE SweepSound(v)'
  BY <1>0, <1>2 DEF NotesInv, SweepSound
<1>5. ASSUME NEW j \in backlog, SweepOf[j] \in seeded' PROVE j \in claims
  <2>1. j \in Items /\ ItemSound(j)
    BY DEF NotesInv
  <2> QED
    BY <1>0, <1>1, <1>5, <2>1 DEF SweepSound, ItemSound, Busy
<1>6. ASSUME NEW j \in Items PROVE ItemSound(j)'
  <2>1. ItemSound(j)
    BY DEF NotesInv
  <2>2. \A v \in Sweepers : Has(v, j)' => v # w /\ Has(v, j) /\ tick'[v] = tick[v]
    BY <1>0, <1>1, <1>2 DEF Has, Item
  <2>3. \A v \in Sweepers : Has(v, j)' =>
            /\ j \in claims' /\ j \notin backlog'
            /\ tick'[v].at \in {"draft", "release"} => drafts'[j] <= unshown'[j]
            /\ tick'[v].at = "draft" /\ SweepOf[j] = "note" => drafts'[j] = 0
    BY <1>0, <2>1, <2>2 DEF ItemSound
  <2>4. \A u, v \in Sweepers : Has(u, j)' /\ Has(v, j)' => u = v
    BY <2>1, <2>2 DEF ItemSound
  <2> HIDE DEF Has
  <2> QED
    BY <1>0, <1>5, <2>1, <2>3, <2>4 DEF ItemSound
<1> QED
  BY <1>1, <1>3, <1>4, <1>6 DEF NotesInv

\* A tick begins; the first of its sweep finds the backlog, of which nothing is drafted.
LEMMA StartStep ==
    ASSUME NotesInv, NEW w \in Sweepers, NEW s \in NoticeSweeps, StartNoticeSweep(w, s)
    PROVE  NotesInv'
<1> DEFINE found == Observed(s)
           stage == IF s \in seeded THEN "claim" ELSE "seed"
           q == [at |-> stage, sweep |-> s, todo |-> found, upto |-> Len(ripe)]
           First == s \notin seeded /\ \A v \in Sweepers : ~(tick[v].at = "seed" /\ tick[v].sweep = s)
           news == {ripe[n] : n \in found}
<1>0. /\ tick' = [tick EXCEPT ![w] = q]
      /\ backlog' = IF First THEN backlog \cup news ELSE backlog
      /\ UNCHANGED <<ripe, seeded, cursor, claims, drafts, unshown>>
  BY DEF StartNoticeSweep, ledgerVars
<1>1. /\ tick \in [Sweepers -> SweepRows] /\ Len(ripe) \in Nat
      /\ \A n \in 1..Len(ripe) : ripe[n] \in Items
  BY NoteFacts
<1>2. /\ found \subseteq 1..Len(ripe) /\ \A n \in found : SweepOf[ripe[n]] = s
      /\ s \notin seeded => \A n \in 1..Len(ripe) : SweepOf[ripe[n]] = s => n \in found
  BY DEF Observed
<1> HIDE DEF found
<1>3. /\ q \in SweepRows /\ q.at = stage /\ q.sweep = s /\ q.todo = found
      /\ q.at \notin Busy /\ (q.at = "claim" => s \in seeded) /\ (q.at = "seed" => s \notin seeded)
  <2>1. found \in SUBSET Nat
    BY <1>1, <1>2
  <2> QED
    BY <1>1, <2>1 DEF SweepRows, Busy
<1> HIDE DEF q
<1>4. /\ tick' \in [Sweepers -> SweepRows] /\ tick'[w] = q
      /\ \A v \in Sweepers \ {w} : tick'[v] = tick[v]
  BY <1>0, <1>1, <1>3
<1>5. \A j \in backlog' : j \in backlog \/ (First /\ j \in news)
  BY <1>0
<1>6. \A j \in news : /\ j \in Items /\ SweepOf[j] = s /\ \E n \in found : ripe[n] = j
                      /\ \E n \in 1..Len(ripe) : ripe[n] = j
  BY <1>1, <1>2
<1> HIDE DEF news
<1>7. NoteTypes' /\ backlog' \subseteq Items
  BY <1>0, <1>4, <1>5, <1>6 DEF NotesInv, NoteTypes
<1>8. ASSUME NEW v \in Sweepers \ {w} PROVE SweepSound(v)'
  <2>1. SweepSound(v) /\ tick'[v] = tick[v] /\ v \in Sweepers
    BY <1>4 DEF NotesInv
  <2>2. ASSUME tick[v].at = "seed", NEW j \in backlog', SweepOf[j] = tick[v].sweep
        PROVE  j \in backlog
    BY <1>5, <1>6, <2>1, <2>2
  <2> HIDE DEF First
  <2> QED
    BY <1>0, <2>1, <2>2 DEF SweepSound
<1>9. SweepSound(w)'
  <2>1. \A n \in q.todo : n \in 1..Len(ripe) /\ SweepOf[ripe[n]] = q.sweep
    BY <1>2, <1>3
  <2>2. ASSUME q.at = "seed", NEW j \in backlog', SweepOf[j] = s
        PROVE  \E n \in found : ripe[n] = j
    <3>1. CASE j \in backlog
      <4>1. j \in Items /\ ItemSound(j) /\ s \notin seeded
        BY <1>3, <2>2, <3>1 DEF NotesInv
      <4>2. PICK n \in 1..Len(ripe) : ripe[n] = j
        BY <3>1, <4>1 DEF ItemSound
      <4> QED
        BY <1>2, <2>2, <4>1, <4>2
    <3>2. CASE j \in news
      BY <1>6, <3>2
    <3> QED
      BY <1>5, <3>1, <3>2
  <2> HIDE DEF First, stage
  <2> QED
    BY <1>0, <1>3, <1>4, <2>1, <2>2 DEF SweepSound, Busy
<1>10. ASSUME NEW j \in Items PROVE ItemSound(j)'
  <2>1. ItemSound(j)
    BY DEF NotesInv
  <2>2. \A v \in Sweepers : Has(v, j)' => v # w /\ Has(v, j) /\ tick'[v] = tick[v]
    BY <1>0, <1>3, <1>4 DEF Has, Item
  <2>3. ASSUME NEW v \in Sweepers, Has(v, j) PROVE j \notin backlog'
    <3>1. /\ tick[v].at \in Busy /\ SweepOf[j] = tick[v].sweep /\ j \notin backlog
          /\ SweepOf[j] \in seeded
      BY <2>1, <2>3, NoteFacts DEF NotesInv, SweepSound, ItemSound, Has
    <3> QED
      BY <1>5, <1>6, <3>1
  <2>4. \A v \in Sweepers : Has(v, j)' =>
            /\ j \in claims' /\ j \notin backlog'
            /\ tick'[v].at \in {"draft", "release"} => drafts'[j] <= unshown'[j]
            /\ tick'[v].at = "draft" /\ SweepOf[j] = "note" => drafts'[j] = 0
    BY <1>0, <2>1, <2>2, <2>3 DEF ItemSound
  <2>5. \A u, v \in Sweepers : Has(u, j)' /\ Has(v, j)' => u = v
    BY <2>1, <2>2 DEF ItemSound
  <2>6. ASSUME j \in backlog'
        PROVE  /\ drafts[j] = 0 /\ \E n \in 1..Len(ripe) : ripe[n] = j
               /\ SweepOf[j] \in seeded => j \in claims
    <3>1. CASE j \in backlog
      BY <2>1, <3>1 DEF ItemSound
    <3>2. CASE First /\ j \in news
      BY <1>6, <2>1, <3>2 DEF ItemSound
    <3> QED
      BY <1>5, <2>6, <3>1, <3>2
  <2> HIDE DEF Has, First, stage
  <2> QED
    BY <1>0, <2>1, <2>4, <2>5, <2>6 DEF ItemSound
<1> QED
  BY <1>7, <1>8, <1>9, <1>10 DEF NotesInv

LEMMA RipensStep == ASSUME NotesInv, Ripens PROVE NotesInv'
<1>1. PICK i \in Items \ ToSet(ripe) : ripe' = Append(ripe, i)
  BY DEF Ripens
<1>2. UNCHANGED <<seeded, cursor, claims, tick, drafts, unshown, backlog>>
  BY DEF Ripens, ledgerVars, notedVars
<1>3. ripe \in Seq(Items) /\ Len(ripe) \in Nat
  BY DEF NotesInv, NoteTypes
<1>4. /\ ripe' \in Seq(Items) /\ Len(ripe') = Len(ripe) + 1
      /\ \A n \in 1..Len(ripe) : ripe'[n] = ripe[n]
  BY <1>1, <1>3
<1>5. \A n \in 1..Len(ripe) : n \in 1..Len(ripe')
  BY <1>3, <1>4
<1>6. \A w \in Sweepers : tick[w].todo # {} => Item(w)' = Item(w)
  <2> SUFFICES ASSUME NEW w \in Sweepers, tick[w].todo # {} PROVE Item(w)' = Item(w)
    OBVIOUS
  <2>1. Min(tick[w].todo) \in 1..Len(ripe)
    BY NoteFacts
  <2> DEFINE m == Min(tick[w].todo)
  <2>2. Min(tick'[w].todo) = m
    BY <1>2
  <2>3. m \in 1..Len(ripe) /\ Item(w) = ripe[m] /\ Item(w)' = ripe'[m]
    BY <2>1, <2>2 DEF Item
  <2> QED
    BY <1>4, <2>3
<1>7. \A w \in Sweepers, j \in Items : Has(w, j)' <=> Has(w, j)
  <2>1. \A w \in Sweepers : tick[w].at \in Busy => tick[w].todo # {}
    BY DEF NotesInv, SweepSound
  <2> QED
    BY <1>2, <1>6, <2>1 DEF Has
<1>8. NoteTypes' /\ backlog' \subseteq Items
  BY <1>2, <1>4 DEF NotesInv, NoteTypes
<1>9. ASSUME NEW w \in Sweepers PROVE SweepSound(w)'
  <2>1. /\ SweepSound(w) /\ tick'[w] = tick[w]
        /\ \A n \in tick[w].todo : n \in 1..Len(ripe)
    BY <1>2 DEF NotesInv, SweepSound
  <2>2. \A n \in tick[w].todo : n \in 1..Len(ripe') /\ ripe'[n] = ripe[n]
    BY <1>4, <1>5, <2>1
  <2> QED
    BY <1>2, <2>1, <2>2 DEF SweepSound
<1>10. ASSUME NEW j \in Items PROVE ItemSound(j)'
  <2>1. ItemSound(j)
    BY DEF NotesInv
  <2>2. (\E n \in 1..Len(ripe) : ripe[n] = j) => \E n \in 1..Len(ripe') : ripe'[n] = j
    BY <1>4, <1>5
  <2> HIDE DEF Has
  <2> QED
    BY <1>2, <1>7, <2>1, <2>2 DEF ItemSound
<1> QED
  BY <1>8, <1>9, <1>10 DEF NotesInv

\* NotesInv is an invariant.
LEMMA NoticesInductive == NoticesSpec => []NotesInv
<1>1. NoticesInit => NotesInv
  <2> SUFFICES ASSUME NoticesInit PROVE NotesInv
    OBVIOUS
  <2>1. \A w \in Sweepers : tick[w] = NoTick
    BY DEF NoticesInit
  <2>2. NoTick \in SweepRows /\ NoTick.at = "idle" /\ NoTick.todo = {}
    BY DEF NoTick, SweepRows
  <2>3. tick \in [Sweepers -> SweepRows]
    BY <2>1, <2>2 DEF NoticesInit
  <2>4. \A w \in Sweepers : SweepSound(w)
    BY <2>1, <2>2 DEF SweepSound, Busy
  <2>5. \A w \in Sweepers, i \in Items : ~Has(w, i)
    BY <2>1, <2>2 DEF Has, Busy
  <2>6. \A i \in Items : ItemSound(i)
    BY <2>5 DEF ItemSound, NoticesInit
  <2> QED
    BY <2>3, <2>4, <2>6 DEF NotesInv, NoteTypes, NoticesInit
<1>2. NotesInv /\ [NoticesNext]_noticeVars => NotesInv'
  <2> SUFFICES ASSUME NotesInv, [NoticesNext]_noticeVars PROVE NotesInv'
    OBVIOUS
  <2>1. CASE Ripens
    BY <2>1, RipensStep
  <2>2. ASSUME NEW w \in Sweepers, NEW s \in NoticeSweeps, StartNoticeSweep(w, s) PROVE NotesInv'
    BY <2>2, StartStep
  <2>3. ASSUME NEW w \in Sweepers, SweepStep(w) PROVE NotesInv'
    <3>1. CASE SkipItem(w)
      BY <3>1, SkipStep DEF SkipItem, InHand, Busy
    <3>2. CASE PresentNotice(w)
      BY <3>2, SkipStep DEF PresentNotice, InHand, Busy
    <3> QED
      BY <2>3, <3>1, <3>2, SeedStep, EndStep, ClaimStep, DraftStep, ReleaseStep DEF SweepStep
  <2>4. ASSUME NEW w \in Sweepers, DraftingFails(w) \/ PresentingFails(w) \/ SweeperDies(w)
        PROVE  NotesInv'
    BY <2>4, DraftingFailsStep, PresentingFailsStep, DiesStep
  <2>5. CASE UNCHANGED noticeVars
    BY <2>5 DEF noticeVars, ledgerVars, notedVars, NotesInv, NoteTypes, SweepSound, ItemSound,
                Has, Item
  <2> QED
    BY <2>1, <2>2, <2>3, <2>4, <2>5 DEF NoticesNext
<1> QED
  BY <1>1, <1>2, PTL DEF NoticesSpec

\* Polling for ever neither repeats a notice nor digs up what was ripe before the
\* go-live: a row of the ledger is one claim, an item under it is in one tick's hand,
\* and a claim goes back only with its draft not shown.
THEOREM NoticesAreGivenOnce == NoticesSpec => []NoticesAreOnce
<1>1. NotesInv => NoticesAreOnce
  <2> SUFFICES ASSUME NotesInv PROVE NoticesAreOnce
    OBVIOUS
  <2>1. ASSUME NEW i \in Items
        PROVE  drafts[i] <= 1 + unshown[i] /\ (SweepOf[i] = "note" => drafts[i] <= 1)
    <3>1. ItemSound(i) /\ drafts[i] \in Nat /\ unshown[i] \in Nat
      BY DEF NotesInv, NoteTypes
    <3> QED
      BY <3>1 DEF ItemSound
  <2>2. \A i \in backlog : drafts[i] = 0
    BY DEF NotesInv, ItemSound
  <2> QED
    BY <2>1, <2>2 DEF NoticesAreOnce, OneDraftPerClaim, BacklogIsSilent
<1> QED
  BY <1>1, NoticesInductive, PTL

\* No item is ripe twice, no tick looks beyond what is ripe, and the ledgers and the histories
\* are about sweeps and items there are.
NoteBounds ==
    /\ IsFiniteSet(ToSet(ripe)) /\ Len(ripe) = Cardinality(ToSet(ripe))
    /\ seeded \subseteq NoticeSweeps /\ cursor <= Len(ripe)
    /\ \A w \in Sweepers : tick[w].upto <= Len(ripe)
    /\ shown \subseteq Items /\ settled \subseteq Items /\ failures \in 0..MaxFailures

\* A step of a tick, with the list as it is.
LEMMA TickBounds ==
    ASSUME NotesInv, NoteBounds, NEW w \in Sweepers, UNCHANGED ripe,
           NEW q, tick' = [tick EXCEPT ![w] = q], q.upto <= Len(ripe),
           cursor' <= Len(ripe), seeded' \subseteq NoticeSweeps,
           shown' \subseteq Items, settled' \subseteq Items, failures' \in 0..MaxFailures
    PROVE  NoteBounds'
<1>1. \A v \in Sweepers : tick'[v] = tick[v] \/ tick'[v] = q
  BY DEF NotesInv, NoteTypes
<1> QED
  BY <1>1 DEF NoteBounds

\* The steps a tick takes with its record changed, but for the mark it set out with.
LEMMA UptoStays ==
    ASSUME NotesInv, NoteBounds, NEW w \in Sweepers,
           \/ tick' = [tick EXCEPT ![w] = NoTick] \/ NextItem(w)
           \/ \E stage : Stage(w, stage)
           \/ tick' = [tick EXCEPT ![w].todo = Left(w)]
    PROVE  \E q : tick' = [tick EXCEPT ![w] = q] /\ q.upto <= Len(ripe)
<1>0. /\ tick \in [Sweepers -> SweepRows] /\ tick[w] \in SweepRows /\ tick[w].upto <= Len(ripe)
      /\ Len(ripe) \in Nat
  BY NoteFacts DEF NoteBounds
<1>1. CASE tick' = [tick EXCEPT ![w] = NoTick]
  <2>1. NoTick.upto <= Len(ripe)
    BY <1>0 DEF NoTick
  <2> QED
    BY <1>1, <2>1
<1>2. CASE NextItem(w)
  <2> DEFINE q == [tick[w] EXCEPT !.at = "claim", !.todo = Left(w)]
  <2>1. tick' = [tick EXCEPT ![w] = q]
    BY <1>0, <1>2 DEF NextItem
  <2>2. q.upto = tick[w].upto
    BY <1>0 DEF SweepRows
  <2> HIDE DEF q
  <2> QED
    BY <1>0, <2>1, <2>2
<1>3. CASE \E stage : Stage(w, stage)
  <2>1. PICK stage : Stage(w, stage)
    BY <1>3
  <2> DEFINE q == [tick[w] EXCEPT !.at = stage]
  <2>2. tick' = [tick EXCEPT ![w] = q]
    BY <1>0, <2>1 DEF Stage
  <2>3. q.upto = tick[w].upto
    BY <1>0 DEF SweepRows
  <2> HIDE DEF q
  <2> QED
    BY <1>0, <2>2, <2>3
<1>4. CASE tick' = [tick EXCEPT ![w].todo = Left(w)]
  <2> DEFINE q == [tick[w] EXCEPT !.todo = Left(w)]
  <2>1. tick' = [tick EXCEPT ![w] = q]
    BY <1>0, <1>4
  <2>2. q.upto = tick[w].upto
    BY <1>0 DEF SweepRows
  <2> HIDE DEF q
  <2> QED
    BY <1>0, <2>1, <2>2
<1> QED
  BY <1>1, <1>2, <1>3, <1>4

LEMMA NoteBoundsStep ==
    ASSUME NotesInv, NoteBounds, [NoticesNext]_noticeVars
    PROVE  NoteBounds'
<1>0. /\ ripe \in Seq(Items) /\ Len(ripe) \in Nat /\ MaxFailures \in Nat /\ cursor \in Nat
      /\ tick \in [Sweepers -> SweepRows] /\ failures \in 0..MaxFailures
  BY NoticesAssumption DEF NotesInv, NoteTypes, NoteBounds
<1>1. CASE Ripens
  <2>1. PICK i \in Items \ ToSet(ripe) : ripe' = Append(ripe, i)
    BY <1>1 DEF Ripens
  <2>2. Len(ripe') = Len(ripe) + 1 /\ ToSet(ripe') = ToSet(ripe) \cup {i}
    BY <1>0, <2>1 DEF ToSet
  <2>3. IsFiniteSet(ToSet(ripe')) /\ Cardinality(ToSet(ripe')) = Cardinality(ToSet(ripe)) + 1
    BY <2>1, <2>2, FS_AddElement DEF NoteBounds
  <2>4. cursor <= Len(ripe') /\ \A w \in Sweepers : tick[w].upto <= Len(ripe')
    BY <1>0, <2>2 DEF NoteBounds, SweepRows
  <2> QED
    BY <1>1, <2>2, <2>3, <2>4 DEF Ripens, NoteBounds, ledgerVars, notedVars
<1>2. ASSUME NEW w \in Sweepers, NEW s \in NoticeSweeps, StartNoticeSweep(w, s) PROVE NoteBounds'
  <2> DEFINE q == [at |-> IF s \in seeded THEN "claim" ELSE "seed",
                   sweep |-> s, todo |-> Observed(s), upto |-> Len(ripe)]
  <2>1. tick' = [tick EXCEPT ![w] = q] /\ UNCHANGED <<ripe, seeded, cursor, shown, settled, failures>>
    BY <1>2 DEF StartNoticeSweep, ledgerVars
  <2>2. q.upto <= Len(ripe)
    BY <1>0
  <2> HIDE DEF q
  <2> QED
    BY <2>1, <2>2, TickBounds DEF NoteBounds
<1>3. ASSUME NEW w \in Sweepers
      PROVE  /\ tick[w].todo # {} => Item(w) \in Items
             /\ tick[w].at \in Busy => tick[w].todo # {}
             /\ tick[w].at \in {"seed", "claim"} => tick[w].sweep \in NoticeSweeps
             /\ tick[w].upto <= Len(ripe) /\ tick[w].upto \in Nat
  <2>1. SweepSound(w) /\ tick[w].upto <= Len(ripe) /\ tick[w] \in SweepRows
    BY <1>0 DEF NotesInv, NoteBounds
  <2> QED
    BY <2>1, NoteFacts DEF SweepSound, NoteBounds, SweepRows
<1>4. ASSUME NEW w \in Sweepers, EndNoticeSweep(w) PROVE NoteBounds'
  <2>1. /\ tick' = [tick EXCEPT ![w] = NoTick] /\ UNCHANGED <<ripe, shown, settled, failures>>
        /\ cursor' \in {cursor, tick[w].upto} /\ seeded' = seeded \cup {tick[w].sweep}
        /\ tick[w].sweep \in NoticeSweeps
    BY <1>3, <1>4 DEF EndNoticeSweep, notedVars
  <2>2. cursor' <= Len(ripe) /\ seeded' \subseteq NoticeSweeps
    BY <1>3, <2>1 DEF NoteBounds
  <2>3. NoTick.upto <= Len(ripe)
    BY <1>0 DEF NoTick
  <2> QED
    BY <2>1, <2>2, <2>3, TickBounds DEF NoteBounds
<1>5. ASSUME NEW w \in Sweepers,
             \/ SeedItem(w) \/ ClaimItem(w) \/ SkipItem(w) \/ DraftNotice(w) \/ PresentNotice(w)
             \/ ReleaseItem(w) \/ DraftingFails(w) \/ PresentingFails(w) \/ SweeperDies(w)
      PROVE  NoteBounds'
  <2>1. UNCHANGED <<ripe, seeded, cursor>>
    BY <1>5 DEF SeedItem, ClaimItem, SkipItem, DraftNotice, PresentNotice, ReleaseItem, DraftingFails,
                PresentingFails, SweeperDies, ledgerVars
  <2>2. UNCHANGED failures \/ (failures < MaxFailures /\ failures' = failures + 1)
    BY <1>5 DEF SeedItem, ClaimItem, SkipItem, DraftNotice, PresentNotice, ReleaseItem, DraftingFails,
                PresentingFails, SweeperDies
  <2>3. failures' \in 0..MaxFailures
    BY <1>0, <2>2
  <2>4. /\ shown' \in {shown, shown \cup {Item(w)}} /\ settled' \in {settled, settled \cup {Item(w)}}
        /\ shown' # shown \/ settled' # settled => tick[w].todo # {}
    <3>1. CASE SeedItem(w) \/ ClaimItem(w) \/ DraftNotice(w) \/ ReleaseItem(w)
      BY <3>1 DEF SeedItem, ClaimItem, DraftNotice, ReleaseItem, notedVars
    <3>2. CASE SkipItem(w) \/ PresentNotice(w)
      BY <3>2 DEF SkipItem, PresentNotice, InHand
    <3>3. CASE DraftingFails(w) \/ PresentingFails(w)
      BY <3>3 DEF DraftingFails, PresentingFails, InHand
    <3>4. CASE SweeperDies(w)
      BY <1>3, <3>4 DEF SweeperDies, Busy
    <3> QED
      BY <1>5, <3>1, <3>2, <3>3, <3>4
  <2>5. shown' \subseteq Items /\ settled' \subseteq Items
    BY <1>3, <2>4 DEF NoteBounds
  <2>6. \/ tick' = [tick EXCEPT ![w] = NoTick] \/ NextItem(w)
        \/ \E stage : Stage(w, stage)
        \/ tick' = [tick EXCEPT ![w].todo = Left(w)]
    <3>1. CASE SeedItem(w) \/ SweeperDies(w) \/ ReleaseItem(w)
      BY <3>1 DEF SeedItem, SweeperDies, ReleaseItem
    <3>2. CASE ClaimItem(w) \/ DraftNotice(w)
      BY <3>2 DEF ClaimItem, DraftNotice
    <3>3. CASE SkipItem(w) \/ PresentNotice(w)
      BY <3>3 DEF SkipItem, PresentNotice
    <3>4. CASE DraftingFails(w) \/ PresentingFails(w)
      BY <3>4 DEF DraftingFails, PresentingFails
    <3> QED
      BY <1>5, <3>1, <3>2, <3>3, <3>4
  <2>7. PICK q : tick' = [tick EXCEPT ![w] = q] /\ q.upto <= Len(ripe)
    BY <2>6, UptoStays
  <2> QED
    BY <2>1, <2>3, <2>5, <2>7, TickBounds DEF NoteBounds
<1>6. CASE UNCHANGED noticeVars
  BY <1>6 DEF noticeVars, ledgerVars, notedVars, NoteBounds
<1> QED
  BY <1>1, <1>2, <1>4, <1>5, <1>6 DEF NoticesNext, SweepStep

\* The list, the ledgers and the ticks stay what they are: nothing is ripe twice and no tick and
\* no cursor gets beyond the list.
THEOREM NoticeTypesHold == NoticesSpec => []NoticesTypeOK
<1>1. NoticesInit => NoteBounds
  <2> SUFFICES ASSUME NoticesInit PROVE NoteBounds
    OBVIOUS
  <2>1. ToSet(ripe) = {} /\ Len(ripe) = 0
    BY DEF NoticesInit, ToSet
  <2>2. IsFiniteSet(ToSet(ripe)) /\ Cardinality(ToSet(ripe)) = 0
    BY <2>1, FS_EmptySet
  <2> QED
    BY <2>1, <2>2, NoticesAssumption DEF NoticesInit, NoteBounds, NoTick, NoticeSweeps
<1>2. NotesInv /\ NoteBounds /\ [NoticesNext]_noticeVars => NoteBounds'
  BY NoteBoundsStep
<1>3. NotesInv /\ NoteBounds => NoticesTypeOK
  <2> SUFFICES ASSUME NotesInv, NoteBounds PROVE NoticesTypeOK
    OBVIOUS
  <2>1. tick \in [Sweepers -> [at : {"idle", "seed", "claim", "draft", "present", "release"},
                               sweep : NoticeSweeps \cup {"none"}, todo : SUBSET (1..Len(ripe)), upto : Nat]]
    <3>1. ASSUME NEW w \in Sweepers
          PROVE  tick[w] \in [at : {"idle", "seed", "claim", "draft", "present", "release"},
                              sweep : NoticeSweeps \cup {"none"}, todo : SUBSET (1..Len(ripe)), upto : Nat]
      <4>1. tick[w] \in SweepRows /\ tick[w].todo \subseteq 1..Len(ripe)
        BY NoteFacts
      <4> QED
        BY <4>1 DEF SweepRows
    <3> QED
      BY <3>1 DEF NotesInv, NoteTypes
  <2>2. cursor \in 0..Len(ripe)
    BY DEF NotesInv, NoteTypes, NoteBounds
  <2> QED
    BY <2>1, <2>2 DEF NotesInv, NoteTypes, NoteBounds, NoticesTypeOK
<1> QED
  BY <1>1, <1>2, <1>3, NoticesInductive, PTL DEF NoticesSpec

-----------------------------------------------------------------------------
(* Backfill.                                                                 *)

SweepStates == [at : {"off", "loop", "write", "mark", "emit", "card"}, todo : SUBSET Histories,
                now : Histories \cup {Nothing}, pend : SUBSET Histories, keep : SUBSET Histories]
TapStates == [at : {"off", "create", "complete", "release"}, thread : Histories \cup {Nothing}]
ProposalRows == [outcome : {"none", "pending", "accepted", "rejected"}, token : Taps \cup {"none"}]

\* A thread that left what it was read for, among the memories m.
LeftIn(t, m) == t \in m \cup StarredThreads \/ t[1] \in Blank
Kept(t) == LeftIn(t, memories)

\* What a sweep marks next has been kept, and what waits for the collapse is starred.
SweepKeeps(s) ==
    /\ sweep[s].at = "mark" => Kept(sweep[s].now)
    /\ sweep[s].pend \subseteq StarredThreads

\* A surface at work on a proposal holds its claim, and an undecided proposal
\* with a claim stays undecided for everybody else.
TapHolds(u) ==
    tapRun[u].thread # Nothing => proposals[tapRun[u].thread] = [outcome |-> "pending", token |-> u]

BackfillInv ==
    /\ sweep \in [Sweeps -> SweepStates] /\ tapRun \in [Taps -> TapStates]
    /\ proposals \in [Histories -> ProposalRows]
    /\ \A s \in Sweeps : SweepKeeps(s)
    /\ \A u \in Taps : TapHolds(u)
    /\ MarkedIsKept

\* A step of a sweep: memories stay, what it marks was kept, and a proposal that is
\* pending is left alone.
LEMMA SweepGoes ==
    ASSUME BackfillInv, NEW s \in Sweeps, NEW q \in SweepStates, Goes(s, q),
           memories \subseteq memories', UNCHANGED tapRun,
           proposals' \in [Histories -> ProposalRows],
           \A t \in Histories : proposals'[t] = proposals[t] \/ proposals[t].outcome # "pending",
           \A t \in marks' : t \in marks \/ LeftIn(t, memories'),
           q.at = "mark" => LeftIn(q.now, memories'), q.pend \subseteq StarredThreads
    PROVE  BackfillInv'
<1>1. sweep' = [sweep EXCEPT ![s] = q] /\ sweep \in [Sweeps -> SweepStates]
  BY DEF Goes, BackfillInv
<1>2. /\ sweep' \in [Sweeps -> SweepStates] /\ sweep'[s] = q
      /\ \A r \in Sweeps \ {s} : sweep'[r] = sweep[r]
  BY <1>1
<1>3. \A t : Kept(t) => Kept(t)'
  BY DEF Kept, LeftIn
<1> USE DEF Kept
<1>4. ASSUME NEW r \in Sweeps PROVE SweepKeeps(r)'
  <2>1. SweepKeeps(r)
    BY DEF BackfillInv
  <2> QED
    BY <1>2, <1>3, <2>1 DEF SweepKeeps
<1>5. MarkedIsKept'
  <2>1. \A t \in marks : Kept(t)
    BY DEF BackfillInv, MarkedIsKept, LeftIn
  <2>2. \A t \in marks' : Kept(t)'
    BY <1>3, <2>1
  <2> QED
    BY <2>2 DEF MarkedIsKept, LeftIn
<1>6. ASSUME NEW u \in Taps PROVE TapHolds(u)'
  <2>1. TapHolds(u) /\ tapRun[u].thread \in Histories \cup {Nothing}
    BY DEF BackfillInv, TapStates
  <2> QED
    BY <2>1 DEF TapHolds
<1> QED
  BY <1>2, <1>4, <1>5, <1>6 DEF BackfillInv

\* The proposals as they are.
LEMMA SweepMoves ==
    ASSUME BackfillInv, NEW s \in Sweeps, NEW q \in SweepStates, Goes(s, q),
           memories \subseteq memories', UNCHANGED <<proposals, tapRun>>,
           \A t \in marks' : t \in marks \/ LeftIn(t, memories'),
           q.at = "mark" => LeftIn(q.now, memories'), q.pend \subseteq StarredThreads
    PROVE  BackfillInv'
<1>1. proposals \in [Histories -> ProposalRows]
  BY DEF BackfillInv
<1> QED
  BY <1>1, SweepGoes

\* What a sweep is made of.
LEMMA SweepFacts ==
    ASSUME BackfillInv, NEW s \in Sweeps
    PROVE  /\ sweep[s] \in SweepStates /\ sweep[s].now \in Histories \cup {Nothing}
           /\ sweep[s].todo \subseteq Histories /\ sweep[s].pend \subseteq StarredThreads
           /\ sweep[s].keep \subseteq Histories
           /\ Unswept \in SweepStates /\ Unswept.at = "off" /\ Unswept.pend = {}
           /\ sweep[s].at = "mark" => Kept(sweep[s].now)
           /\ proposals \in [Histories -> ProposalRows]
<1>1. Unswept \in SweepStates /\ Unswept.at = "off" /\ Unswept.pend = {}
  BY DEF Unswept, SweepStates
<1>2. sweep[s] \in SweepStates /\ SweepKeeps(s) /\ proposals \in [Histories -> ProposalRows]
  BY DEF BackfillInv
<1> QED
  BY <1>1, <1>2 DEF SweepKeeps, SweepStates

\* The steps of a sweep up to the collapse of its proposals.
LEMMA SweepReads ==
    ASSUME BackfillInv, NEW s \in Sweeps,
           \/ StartSweep(s) \/ WriteMemory(s) \/ MarkThread(s) \/ Collapse(s)
           \/ \E t \in Histories : TakeThread(s, t)
    PROVE  BackfillInv'
<1> DEFINE r == sweep[s]
<1>0. /\ r \in SweepStates /\ r.now \in Histories \cup {Nothing}
      /\ r.todo \subseteq Histories /\ r.pend \subseteq StarredThreads
  BY SweepFacts
<1>1. CASE StartSweep(s)
  <2>1. PICK inbox \in SUBSET Convs, starred \in SUBSET Convs :
            Goes(s, [Unswept EXCEPT !.at = "loop",
                       !.todo = ((inbox \ starred) \X {"inbox"}) \cup (starred \X {"source"})])
    BY <1>1 DEF StartSweep
  <2> DEFINE todo == ((inbox \ starred) \X {"inbox"}) \cup (starred \X {"source"})
             q == [Unswept EXCEPT !.at = "loop", !.todo = todo]
  <2>2. todo \subseteq Histories
    BY DEF Histories
  <2>3. Goes(s, q)
    BY <2>1
  <2> HIDE DEF todo
  <2>4. q \in SweepStates /\ q.at = "loop" /\ q.pend = {}
    BY <2>2 DEF SweepStates, Unswept
  <2> HIDE DEF q
  <2>5. UNCHANGED <<marks, memories, proposals, tapRun>>
    BY <1>1 DEF StartSweep
  <2> QED
    BY <2>3, <2>4, <2>5, SweepMoves
<1>2. ASSUME NEW t \in Histories, TakeThread(s, t) PROVE BackfillInv'
  <2> DEFINE rest == [r EXCEPT !.todo = r.todo \ {t}]
  <2>1. UNCHANGED <<marks, memories, proposals, tapRun>>
    BY <1>2 DEF TakeThread
  <2>2. /\ rest \in SweepStates /\ rest.at = "loop" /\ rest.pend = r.pend
    BY <1>0, <1>2 DEF SweepStates, TakeThread
  <2>3. CASE Goes(s, rest)
    BY <1>0, <2>1, <2>2, <2>3, SweepMoves
  <2>4. ASSUME t \in StarredThreads, Goes(s, [rest EXCEPT !.pend = rest.pend \cup {t}])
        PROVE  BackfillInv'
    <3> DEFINE pend == r.pend \cup {t}
               q == [rest EXCEPT !.pend = pend]
    <3>1. pend \subseteq StarredThreads /\ pend \subseteq Histories
      BY <1>0, <2>4 DEF SweepStates
    <3>2. Goes(s, q)
      BY <2>2, <2>4
    <3> HIDE DEF pend, rest
    <3>3. q \in SweepStates /\ q.at = "loop" /\ q.pend = pend
      BY <2>2, <3>1 DEF SweepStates
    <3> HIDE DEF q
    <3> QED
      BY <2>1, <3>1, <3>2, <3>3, SweepMoves
  <2>5. ASSUME Goes(s, [rest EXCEPT !.at = "write", !.now = t]) PROVE BackfillInv'
    <3> DEFINE q == [rest EXCEPT !.at = "write", !.now = t]
    <3> HIDE DEF rest
    <3>1. q \in SweepStates /\ q.at = "write" /\ q.pend = r.pend
      BY <2>2 DEF SweepStates
    <3>2. Goes(s, q)
      BY <2>5
    <3> HIDE DEF q
    <3> QED
      BY <1>0, <2>1, <3>1, <3>2, SweepMoves
  <2>6. ASSUME t[1] \in Blank, Goes(s, [rest EXCEPT !.at = "mark", !.now = t]) PROVE BackfillInv'
    <3> DEFINE q == [rest EXCEPT !.at = "mark", !.now = t]
    <3> HIDE DEF rest
    <3>1. q \in SweepStates /\ q.now = t /\ q.pend = r.pend
      BY <2>2 DEF SweepStates
    <3>2. Goes(s, q)
      BY <2>6
    <3> HIDE DEF q
    <3>3. LeftIn(q.now, memories')
      BY <2>6, <3>1 DEF LeftIn
    <3> QED
      BY <1>0, <2>1, <3>1, <3>2, <3>3, SweepMoves
  <2> HIDE DEF rest
  <2>7. \/ Goes(s, rest)
        \/ t \in StarredThreads /\ Goes(s, [rest EXCEPT !.pend = rest.pend \cup {t}])
        \/ Goes(s, [rest EXCEPT !.at = "write", !.now = t])
        \/ t[1] \in Blank /\ Goes(s, [rest EXCEPT !.at = "mark", !.now = t])
    BY <1>2 DEF TakeThread, rest
  <2> QED
    BY <2>3, <2>4, <2>5, <2>6, <2>7
<1>3. CASE WriteMemory(s)
  <2>1. /\ r.at = "write" /\ UNCHANGED <<marks, proposals, tapRun>>
        /\ \/ /\ memories' = memories \cup {r.now}
              /\ Goes(s, [r EXCEPT !.at = "mark"])
           \/ UNCHANGED memories /\ Goes(s, [r EXCEPT !.at = "loop", !.now = Nothing])
    BY <1>3 DEF WriteMemory
  <2>2. CASE memories' = memories \cup {r.now} /\ Goes(s, [r EXCEPT !.at = "mark"])
    <3> DEFINE q == [r EXCEPT !.at = "mark"]
    <3> HIDE DEF r
    <3>1. q \in SweepStates /\ q.now = r.now /\ q.pend = r.pend
      BY <1>0 DEF SweepStates
    <3>2. Goes(s, q)
      BY <2>2
    <3> HIDE DEF q
    <3>3. LeftIn(q.now, memories')
      BY <2>2, <3>1 DEF LeftIn
    <3> QED
      BY <1>0, <2>1, <2>2, <3>1, <3>2, <3>3, SweepMoves
  <2>3. CASE UNCHANGED memories /\ Goes(s, [r EXCEPT !.at = "loop", !.now = Nothing])
    <3> DEFINE q == [r EXCEPT !.at = "loop", !.now = Nothing]
    <3> HIDE DEF r
    <3>1. q \in SweepStates /\ q.at = "loop" /\ q.pend = r.pend
      BY <1>0 DEF SweepStates
    <3>2. Goes(s, q)
      BY <2>3
    <3> HIDE DEF q
    <3> QED
      BY <1>0, <2>1, <2>3, <3>1, <3>2, SweepMoves
  <2> QED
    BY <2>1, <2>2, <2>3
<1>4. CASE MarkThread(s)
  <2> DEFINE q == [r EXCEPT !.at = "loop", !.now = Nothing]
  <2>1. /\ r.at = "mark" /\ marks' = marks \cup {r.now} /\ Goes(s, q)
        /\ UNCHANGED <<memories, proposals, tapRun>>
    BY <1>4 DEF MarkThread
  <2>2. LeftIn(r.now, memories')
    BY <2>1, SweepFacts DEF Kept
  <2> HIDE DEF r
  <2>3. q \in SweepStates /\ q.at = "loop" /\ q.pend = r.pend
    BY <1>0 DEF SweepStates
  <2> HIDE DEF q
  <2>4. \A t \in marks' : t \in marks \/ LeftIn(t, memories')
    BY <2>1, <2>2
  <2> QED
    BY <1>0, <2>1, <2>3, <2>4, SweepMoves
<1>5. CASE Collapse(s)
  <2>1. PICK keep \in SUBSET r.pend : Goes(s, [r EXCEPT !.at = "emit", !.keep = keep])
    BY <1>5 DEF Collapse
  <2> DEFINE q == [r EXCEPT !.at = "emit", !.keep = keep]
  <2>2. keep \subseteq Histories /\ Goes(s, q)
    BY <1>0, <2>1 DEF SweepStates
  <2>3. UNCHANGED <<marks, memories, proposals, tapRun>>
    BY <1>5 DEF Collapse
  <2> HIDE DEF r
  <2>4. q \in SweepStates /\ q.at = "emit" /\ q.pend = r.pend
    BY <1>0, <2>2 DEF SweepStates
  <2> HIDE DEF q
  <2> QED
    BY <1>0, <2>2, <2>3, <2>4, SweepMoves
<1> QED
  BY <1>1, <1>2, <1>3, <1>4, <1>5

\* The steps of a sweep after the collapse, but for the record of a proposal.
LEMMA EmitSteps ==
    ASSUME BackfillInv, NEW s \in Sweeps,
           \/ PostCard(s) \/ EndSweep(s) \/ BreakSweep(s)
           \/ \E t \in Histories : MarkConsidered(s, t)
    PROVE  BackfillInv'
<1> DEFINE r == sweep[s]
<1>0. /\ r \in SweepStates /\ r.pend \subseteq StarredThreads
  BY SweepFacts
<1>1. CASE PostCard(s)
  <2> DEFINE q == [r EXCEPT !.at = "emit", !.now = Nothing]
  <2>1. Goes(s, q) /\ UNCHANGED <<marks, memories, proposals, tapRun>>
    BY <1>1 DEF PostCard
  <2> HIDE DEF r
  <2>2. q \in SweepStates /\ q.at = "emit" /\ q.pend = r.pend
    BY <1>0 DEF SweepStates
  <2> HIDE DEF q
  <2> QED
    BY <1>0, <2>1, <2>2, SweepMoves
<1>2. CASE EndSweep(s) \/ BreakSweep(s)
  <2>1. Goes(s, Unswept) /\ UNCHANGED <<marks, memories, proposals, tapRun>>
    BY <1>2 DEF EndSweep, BreakSweep
  <2> QED
    BY <2>1, SweepFacts, SweepMoves
<1>3. ASSUME NEW t \in Histories, MarkConsidered(s, t) PROVE BackfillInv'
  <2> DEFINE pend == r.pend \ {t}
             q == [r EXCEPT !.pend = pend]
  <2>1. /\ t \in r.pend /\ r.at = "emit" /\ marks' = marks \cup {t} /\ Goes(s, q)
        /\ UNCHANGED <<memories, proposals, tapRun>>
    BY <1>3 DEF MarkConsidered
  <2>2. \A u \in marks' : u \in marks \/ LeftIn(u, memories')
    BY <1>0, <2>1 DEF LeftIn
  <2>3. pend \subseteq StarredThreads /\ pend \in SUBSET Histories
    BY <1>0 DEF SweepStates
  <2> HIDE DEF pend, r
  <2>4. q \in SweepStates /\ q.at = r.at /\ q.pend = pend
    BY <1>0, <2>3 DEF SweepStates
  <2> HIDE DEF q
  <2> QED
    BY <2>1, <2>2, <2>3, <2>4, SweepMoves
<1> QED
  BY <1>1, <1>2, <1>3

\* A thread that has no proposal gets one.
LEMMA RecordStep ==
    ASSUME BackfillInv, NEW s \in Sweeps, NEW t \in Histories, RecordProposal(s, t)
    PROVE  BackfillInv'
<1> DEFINE r == sweep[s]
           keep == r.keep \ {t}
<1>0. /\ r \in SweepStates /\ r.pend \subseteq StarredThreads /\ r.at = "emit"
      /\ keep \in SUBSET Histories /\ proposals \in [Histories -> ProposalRows]
      /\ UNCHANGED <<marks, memories, tapRun>>
  BY SweepFacts DEF RecordProposal, SweepStates
<1>1. CASE proposals[t] = Unproposed
  <2> DEFINE q == [r EXCEPT !.at = "card", !.now = t, !.keep = keep]
             p == [proposals[t] EXCEPT !.outcome = "pending"]
  <2>1. Goes(s, q) /\ proposals' = [proposals EXCEPT ![t] = p]
    BY <1>0, <1>1 DEF RecordProposal
  <2>2. p \in ProposalRows /\ proposals[t].outcome = "none"
    BY <1>0, <1>1 DEF ProposalRows, Unproposed
  <2> HIDE DEF p, keep, r
  <2>3. q \in SweepStates /\ q.at = "card" /\ q.pend = r.pend
    BY <1>0 DEF SweepStates
  <2> HIDE DEF q
  <2>4. /\ proposals' \in [Histories -> ProposalRows]
        /\ \A u \in Histories : proposals'[u] = proposals[u] \/ proposals[u].outcome # "pending"
    BY <1>0, <2>1, <2>2
  <2> QED
    BY <1>0, <2>1, <2>3, <2>4, SweepGoes
<1>2. CASE proposals[t] # Unproposed
  <2> DEFINE q == [r EXCEPT !.keep = keep]
  <2>1. Goes(s, q) /\ UNCHANGED proposals
    BY <1>2 DEF RecordProposal
  <2> HIDE DEF keep, r
  <2>2. q \in SweepStates /\ q.at = "emit" /\ q.pend = r.pend
    BY <1>0 DEF SweepStates
  <2> HIDE DEF q
  <2> QED
    BY <1>0, <2>1, <2>2, SweepMoves
<1> QED
  BY <1>1, <1>2

\* A step of a surface, or the founder's rejection, that leaves alone what others hold.
LEMMA TapMoves ==
    ASSUME BackfillInv, tapRun' \in [Taps -> TapStates], UNCHANGED <<marks, memories, sweep>>,
           proposals' \in [Histories -> ProposalRows], \A u \in Taps : TapHolds(u)'
    PROVE  BackfillInv'
<1>1. MarkedIsKept'
  BY DEF BackfillInv, MarkedIsKept
<1>2. \A s \in Sweeps : SweepKeeps(s)'
  BY DEF BackfillInv, SweepKeeps, Kept, LeftIn
<1> QED
  BY <1>1, <1>2 DEF BackfillInv

\* What a surface is made of, and who holds what.
LEMMA TapFacts ==
    ASSUME BackfillInv
    PROVE  /\ tapRun \in [Taps -> TapStates] /\ Untapped \in TapStates /\ Untapped.thread = Nothing
           /\ proposals \in [Histories -> ProposalRows] /\ Nothing \notin Histories
           /\ \A u \in Taps : /\ TapHolds(u) /\ u # "none"
                              /\ tapRun[u].thread \in Histories \cup {Nothing}
<1>1. Untapped \in TapStates /\ Untapped.thread = Nothing
  BY DEF Untapped, TapStates
<1>2. Nothing \notin Histories
  BY DEF Nothing, Histories
<1>3. \A u \in Taps : TapHolds(u) /\ tapRun[u].thread \in Histories \cup {Nothing}
  BY DEF BackfillInv, TapStates
<1> QED
  BY <1>1, <1>2, <1>3, BackfillAssumption DEF BackfillInv

\* A surface lets go of its proposal, whose row it may change.
LEMMA TapEnds ==
    ASSUME BackfillInv, NEW u \in Taps, tapRun' = [tapRun EXCEPT ![u] = Untapped],
           UNCHANGED <<marks, memories, sweep>>, proposals' \in [Histories -> ProposalRows],
           \A t \in Histories : proposals'[t] = proposals[t] \/ proposals[t].token = u
    PROVE  BackfillInv'
<1>1. tapRun' \in [Taps -> TapStates]
  BY TapFacts
<1>2. ASSUME NEW v \in Taps PROVE TapHolds(v)'
  <2>1. CASE v = u
    BY <2>1, TapFacts DEF TapHolds
  <2>2. CASE v # u
    <3>1. tapRun'[v] = tapRun[v] /\ TapHolds(v) /\ tapRun[v].thread \in Histories \cup {Nothing}
      BY <2>2, TapFacts
    <3> QED
      BY <2>2, <3>1 DEF TapHolds
  <2> QED
    BY <2>1, <2>2
<1> QED
  BY <1>1, <1>2, TapMoves

LEMMA TapSteps ==
    ASSUME BackfillInv, NEW u \in Taps,
           \/ CreateBackfillTask(u) \/ RefuseBackfillTask(u) \/ LoseBackfillTask(u)
           \/ CompleteProposal(u) \/ ReleaseProposal(u) \/ TapDies(u)
    PROVE  BackfillInv'
<1> DEFINE its == tapRun[u].thread
<1>0. UNCHANGED <<marks, memories, sweep>> /\ its \in Histories \cup {Nothing}
      /\ proposals \in [Histories -> ProposalRows]
  BY TapFacts DEF CreateBackfillTask, RefuseBackfillTask, LoseBackfillTask, CompleteProposal,
                  ReleaseProposal, TapDies
<1>1. ASSUME NEW at \in {"complete", "release"}, Tapped(u, at, its), UNCHANGED proposals
      PROVE  BackfillInv'
  <2> DEFINE q == [at |-> at, thread |-> its]
  <2>1. q \in TapStates /\ q.thread = its /\ tapRun' = [tapRun EXCEPT ![u] = q]
    BY <1>0, <1>1 DEF TapStates, Tapped
  <2> HIDE DEF q
  <2>2. tapRun' \in [Taps -> TapStates] /\ \A v \in Taps : tapRun'[v].thread = tapRun[v].thread
    BY <2>1, TapFacts
  <2>3. \A v \in Taps : TapHolds(v)'
    BY <1>1, <2>2, TapFacts DEF TapHolds
  <2> QED
    BY <1>0, <1>1, <2>2, <2>3, TapMoves
<1>2. CASE CreateBackfillTask(u)
  BY <1>1, <1>2 DEF CreateBackfillTask
<1>3. CASE RefuseBackfillTask(u) \/ LoseBackfillTask(u)
  BY <1>1, <1>3 DEF RefuseBackfillTask, LoseBackfillTask
<1>4. CASE TapDies(u)
  BY <1>0, <1>4, TapEnds DEF TapDies
<1>5. CASE CompleteProposal(u) \/ ReleaseProposal(u)
  <2>1. tapRun' = [tapRun EXCEPT ![u] = Untapped]
    BY <1>5 DEF CompleteProposal, ReleaseProposal
  <2>2. CASE ~Claimed(u)
    BY <1>0, <1>5, <2>1, <2>2, TapEnds DEF CompleteProposal, ReleaseProposal
  <2>3. CASE Claimed(u)
    <3>1. proposals[its].token = u
      BY <2>3 DEF Claimed
    <3>2. PICK p : p \in {[outcome |-> "accepted", token |-> "none"],
                          [proposals[its] EXCEPT !.token = "none"]}
                   /\ proposals' = [proposals EXCEPT ![its] = p]
      BY <1>5, <2>3 DEF CompleteProposal, ReleaseProposal
    <3>3. its \in Histories => p \in ProposalRows
      BY <1>0, <3>2 DEF ProposalRows
    <3>4. /\ proposals' \in [Histories -> ProposalRows]
          /\ \A t \in Histories : proposals'[t] = proposals[t] \/ proposals[t].token = u
      BY <1>0, <3>1, <3>2, <3>3
    <3> QED
      BY <1>0, <2>1, <3>4, TapEnds
  <2> QED
    BY <2>2, <2>3
<1> QED
  BY <1>2, <1>3, <1>4, <1>5

\* A proposal nobody has claimed is claimed or rejected.
LEMMA DecideSteps ==
    ASSUME BackfillInv, NEW t \in Histories,
           RejectProposal(t) \/ \E u \in Taps : ClaimProposal(u, t)
    PROVE  BackfillInv'
<1>0. proposals[t] = [outcome |-> "pending", token |-> "none"] /\ UNCHANGED <<marks, memories, sweep>>
  BY DEF RejectProposal, ClaimProposal, Unclaimed
<1>1. ASSUME NEW v \in Taps, tapRun[v].thread = t PROVE FALSE
  <2>1. TapHolds(v) /\ t # Nothing /\ v # "none"
    BY TapFacts
  <2>2. proposals[t] = [outcome |-> "pending", token |-> v]
    BY <1>1, <2>1 DEF TapHolds
  <2>3. proposals[t].token = v /\ proposals[t].token = "none"
    BY <1>0, <2>2
  <2> QED
    BY <2>1, <2>3
<1>2. CASE RejectProposal(t)
  <2> DEFINE p == [proposals[t] EXCEPT !.outcome = "rejected"]
  <2>0. p \in ProposalRows
    BY TapFacts DEF ProposalRows
  <2>1. proposals' = [proposals EXCEPT ![t] = p] /\ UNCHANGED tapRun
    BY <1>2 DEF RejectProposal
  <2> HIDE DEF p
  <2>2. proposals' \in [Histories -> ProposalRows]
        /\ \A u \in Histories \ {t} : proposals'[u] = proposals[u]
    BY <2>0, <2>1, TapFacts
  <2>3. \A v \in Taps : TapHolds(v)'
    BY <1>1, <2>1, <2>2, TapFacts DEF TapHolds
  <2> QED
    BY <1>0, <2>1, <2>2, <2>3, TapFacts, TapMoves
<1>3. ASSUME NEW u \in Taps, ClaimProposal(u, t) PROVE BackfillInv'
  <2> DEFINE q == [at |-> "create", thread |-> t]
             p == [outcome |-> "pending", token |-> u]
  <2>0. [[outcome |-> "pending", token |-> "none"] EXCEPT !.token = u] = p
    OBVIOUS
  <2>1. proposals' = [proposals EXCEPT ![t] = p] /\ tapRun' = [tapRun EXCEPT ![u] = q]
    <3>1. /\ proposals' = [proposals EXCEPT ![t] = [proposals[t] EXCEPT !.token = u]]
          /\ tapRun' = [tapRun EXCEPT ![u] = q]
      BY <1>3 DEF ClaimProposal, Tapped
    <3> HIDE DEF p, q
    <3> QED
      BY <1>0, <2>0, <3>1
  <2>2. p \in ProposalRows /\ q \in TapStates /\ q.thread = t
    BY DEF ProposalRows, TapStates
  <2> HIDE DEF q
  <2>3. /\ tapRun' \in [Taps -> TapStates] /\ tapRun'[u] = q
        /\ \A v \in Taps \ {u} : tapRun'[v] = tapRun[v]
    BY <2>1, <2>2, TapFacts
  <2>4. /\ proposals' \in [Histories -> ProposalRows] /\ proposals'[t] = p
        /\ \A h \in Histories \ {t} : proposals'[h] = proposals[h]
    BY <2>1, <2>2, TapFacts
  <2> HIDE DEF p
  <2>5. ASSUME NEW v \in Taps PROVE TapHolds(v)'
    <3>1. CASE v = u
      BY <2>2, <2>3, <2>4, <3>1 DEF TapHolds, p
    <3>2. CASE v # u
      BY <1>1, <2>3, <2>4, <3>2, TapFacts DEF TapHolds
    <3> QED
      BY <3>1, <3>2
  <2> QED
    BY <1>0, <2>3, <2>4, <2>5, TapMoves
<1> QED
  BY <1>2, <1>3

\* BackfillInv is an invariant.
LEMMA BackfillInductive == BackfillSpec => []BackfillInv
<1>1. BackfillInit => BackfillInv
  <2> SUFFICES ASSUME BackfillInit PROVE BackfillInv
    OBVIOUS
  <2>1. Unswept \in SweepStates /\ Unswept.at = "off" /\ Unswept.pend = {}
    BY DEF Unswept, SweepStates
  <2>2. Untapped \in TapStates /\ Untapped.thread = Nothing
    BY DEF Untapped, TapStates
  <2>3. Unproposed \in ProposalRows
    BY DEF Unproposed, ProposalRows
  <2>4. \A s \in Sweeps : SweepKeeps(s)
    BY <2>1 DEF BackfillInit, SweepKeeps
  <2>5. \A u \in Taps : TapHolds(u)
    BY <2>2 DEF BackfillInit, TapHolds
  <2> QED
    BY <2>1, <2>2, <2>3, <2>4, <2>5 DEF BackfillInit, BackfillInv, MarkedIsKept
<1>2. BackfillInv /\ [BackfillNext]_backfillVars => BackfillInv'
  <2> SUFFICES ASSUME BackfillInv, [BackfillNext]_backfillVars PROVE BackfillInv'
    OBVIOUS
  <2>1. ASSUME NEW s \in Sweeps,
               \/ StartSweep(s) \/ WriteMemory(s) \/ MarkThread(s) \/ Collapse(s)
               \/ PostCard(s) \/ EndSweep(s) \/ BreakSweep(s)
               \/ \E t \in Histories : TakeThread(s, t) \/ RecordProposal(s, t) \/ MarkConsidered(s, t)
        PROVE  BackfillInv'
    BY <2>1, SweepReads, EmitSteps, RecordStep
  <2>2. ASSUME NEW u \in Taps,
               \/ CreateBackfillTask(u) \/ RefuseBackfillTask(u) \/ LoseBackfillTask(u)
               \/ CompleteProposal(u) \/ ReleaseProposal(u) \/ TapDies(u)
               \/ \E t \in Histories : ClaimProposal(u, t)
        PROVE  BackfillInv'
    BY <2>2, TapSteps, DecideSteps
  <2>3. ASSUME NEW t \in Histories, RejectProposal(t) PROVE BackfillInv'
    BY <2>3, DecideSteps
  <2>4. CASE UNCHANGED backfillVars
    BY <2>4 DEF backfillVars, BackfillInv, SweepKeeps, TapHolds, MarkedIsKept, Kept, LeftIn
  <2> QED
    BY <2>1, <2>2, <2>3, <2>4 DEF BackfillNext
<1> QED
  BY <1>1, <1>2, PTL DEF BackfillSpec

\* A sweep that breaks off and two surfaces that are tapped lose nothing: a sweep
\* marks a thread only once it is kept, and a surface at work holds the claim.
THEOREM NothingDropped == BackfillSpec => []NothingIsDropped
<1>1. BackfillInv => NothingIsDropped
  <2> SUFFICES ASSUME BackfillInv PROVE NothingIsDropped
    OBVIOUS
  <2>1. RejectedIsUnworked
    <3> SUFFICES ASSUME NEW t \in Histories, NEW u \in Taps, tapRun[u].thread = t
                 PROVE  proposals[t].outcome = "pending"
      BY DEF RejectedIsUnworked
    <3>1. TapHolds(u) /\ t # Nothing
      BY TapFacts
    <3>2. proposals[t] = [outcome |-> "pending", token |-> u]
      BY <3>1 DEF TapHolds
    <3> QED
      BY <3>2
  <2> QED
    BY <2>1 DEF NothingIsDropped, BackfillInv
<1> QED
  BY <1>1, BackfillInductive, PTL

\* What a sweep is about to write is a conversation, what it cards has been proposed, and a
\* surface at work has a conversation at hand.
BackfillBounds ==
    /\ marks \subseteq Histories /\ memories \subseteq Histories /\ tasks \subseteq Histories
    /\ \A s \in Sweeps : sweep[s].at \in {"write", "mark", "card"} => sweep[s].now \in Histories
    /\ \A s \in Sweeps : sweep[s].at = "card" => proposals[sweep[s].now].outcome # "none"
    /\ \A u \in Taps : tapRun[u].at # "off" => tapRun[u].thread \in Histories
    /\ carded \subseteq {t \in Histories : proposals[t].outcome # "none"}

\* A proposal that is there stays there.
LEMMA ProposalsStay ==
    ASSUME BackfillInv, [BackfillNext]_backfillVars
    PROVE  \A t \in Histories : proposals[t].outcome # "none" => proposals'[t].outcome # "none"
<1>0. proposals \in [Histories -> ProposalRows]
  BY DEF BackfillInv
<1>1. ASSUME NEW t \in Histories, NEW o \in {"pending", "rejected"}, proposals' = [proposals EXCEPT ![t].outcome = o]
      PROVE  \A x \in Histories : proposals[x].outcome # "none" => proposals'[x].outcome # "none"
  BY <1>0, <1>1 DEF ProposalRows
<1>2. ASSUME NEW t, NEW k, proposals' = [proposals EXCEPT ![t].token = k]
      PROVE  \A x \in Histories : proposals[x].outcome # "none" => proposals'[x].outcome # "none"
  BY <1>0, <1>2 DEF ProposalRows
<1>3. ASSUME NEW t, proposals' = [proposals EXCEPT ![t] = [outcome |-> "accepted", token |-> "none"]]
      PROVE  \A x \in Histories : proposals[x].outcome # "none" => proposals'[x].outcome # "none"
  BY <1>0, <1>3
<1> QED
  BY <1>1, <1>2, <1>3
     DEF BackfillNext, StartSweep, WriteMemory, MarkThread, Collapse, PostCard, EndSweep, BreakSweep, TakeThread,
         RecordProposal, MarkConsidered, CreateBackfillTask, RefuseBackfillTask, LoseBackfillTask,
         CompleteProposal, ReleaseProposal, TapDies, ClaimProposal, RejectProposal, backfillVars

\* The step of one sweep.
LEMMA SweepBounds ==
    ASSUME BackfillInv, BackfillBounds, NEW s \in Sweeps, [BackfillNext]_backfillVars,
           NEW r, Goes(s, r), UNCHANGED <<tasks, tapRun>>,
           marks' \subseteq Histories, memories' \subseteq Histories,
           carded' \subseteq {t \in Histories : proposals'[t].outcome # "none"},
           r.at \in {"write", "mark", "card"} => r.now \in Histories,
           r.at = "card" => proposals'[r.now].outcome # "none"
    PROVE  BackfillBounds'
<1>1. \A x \in Sweeps \ {s} : sweep'[x] = sweep[x]
  BY DEF Goes, BackfillInv
<1>2. sweep'[s] = r
  BY DEF Goes, BackfillInv
<1>3. \A t \in Histories : proposals[t].outcome # "none" => proposals'[t].outcome # "none"
  BY ProposalsStay
<1> QED
  BY <1>1, <1>2, <1>3 DEF BackfillBounds

\* The step of a surface.
LEMMA TapBounds ==
    ASSUME BackfillInv, BackfillBounds, NEW u \in Taps, [BackfillNext]_backfillVars,
           UNCHANGED <<marks, memories, carded, sweep>>, tasks' \subseteq Histories,
           NEW r, tapRun' = [tapRun EXCEPT ![u] = r], r.at # "off" => r.thread \in Histories
    PROVE  BackfillBounds'
<1>1. tapRun'[u] = r /\ \A v \in Taps \ {u} : tapRun'[v] = tapRun[v]
  BY DEF BackfillInv
<1>2. \A t \in Histories : proposals[t].outcome # "none" => proposals'[t].outcome # "none"
  BY ProposalsStay
<1> QED
  BY <1>1, <1>2 DEF BackfillBounds

LEMMA BackfillBoundsStep ==
    ASSUME BackfillInv, BackfillBounds, [BackfillNext]_backfillVars
    PROVE  BackfillBounds'
<1>0. \A t \in Histories : proposals[t].outcome # "none" => proposals'[t].outcome # "none"
  BY ProposalsStay
<1>1. carded \subseteq {t \in Histories : proposals'[t].outcome # "none"}
  BY <1>0 DEF BackfillBounds
<1>2. marks \subseteq Histories /\ memories \subseteq Histories /\ tasks \subseteq Histories
  BY DEF BackfillBounds
<1>3. ASSUME NEW s \in Sweeps
      PROVE  /\ sweep[s] \in SweepStates
             /\ sweep[s].at \in {"write", "mark", "card"} => sweep[s].now \in Histories
             /\ sweep[s].at = "card" => proposals[sweep[s].now].outcome # "none"
             /\ sweep[s].pend \subseteq Histories
  BY DEF BackfillBounds, BackfillInv, SweepStates
<1>4. ASSUME NEW s \in Sweeps, StartSweep(s) \/ Collapse(s) \/ EndSweep(s) \/ BreakSweep(s)
      PROVE  BackfillBounds'
  <2>1. UNCHANGED <<marks, memories, proposals, carded, tasks, tapRun>>
    BY <1>4 DEF StartSweep, Collapse, EndSweep, BreakSweep
  <2>2. PICK r : Goes(s, r) /\ r.at \notin {"write", "mark", "card"}
    <3>1. CASE StartSweep(s)
      <4>1. PICK todo : Goes(s, [Unswept EXCEPT !.at = "loop", !.todo = todo])
        BY <3>1 DEF StartSweep
      <4> DEFINE r == [Unswept EXCEPT !.at = "loop", !.todo = todo]
      <4>2. r.at = "loop" /\ Goes(s, r)
        BY <4>1 DEF Unswept
      <4> HIDE DEF r
      <4> QED
        BY <4>2
    <3>2. CASE Collapse(s)
      <4>1. PICK keep : Goes(s, [sweep[s] EXCEPT !.at = "emit", !.keep = keep])
        BY <3>2 DEF Collapse
      <4> DEFINE r == [sweep[s] EXCEPT !.at = "emit", !.keep = keep]
      <4>2. r.at = "emit" /\ Goes(s, r)
        BY <1>3, <4>1 DEF SweepStates
      <4> HIDE DEF r
      <4> QED
        BY <4>2
    <3>3. CASE EndSweep(s) \/ BreakSweep(s)
      <4>1. Goes(s, Unswept) /\ Unswept.at = "off"
        BY <3>3 DEF EndSweep, BreakSweep, Unswept
      <4> QED
        BY <4>1
    <3> QED
      BY <1>4, <3>1, <3>2, <3>3
  <2> QED
    BY <1>1, <1>2, <2>1, <2>2, SweepBounds
<1>5. ASSUME NEW s \in Sweeps, NEW t \in Histories, TakeThread(s, t) PROVE BackfillBounds'
  <2> DEFINE rest == [sweep[s] EXCEPT !.todo = sweep[s].todo \ {t}]
             pended == [rest EXCEPT !.pend = rest.pend \cup {t}]
             written == [rest EXCEPT !.at = "write", !.now = t]
             marked == [rest EXCEPT !.at = "mark", !.now = t]
  <2>1. /\ UNCHANGED <<marks, memories, proposals, carded, tasks, tapRun>>
        /\ Goes(s, rest) \/ Goes(s, pended) \/ Goes(s, written) \/ Goes(s, marked)
    BY <1>5 DEF TakeThread
  <2>2. rest.at = "loop" /\ pended.at = "loop"
    BY <1>3, <1>5 DEF TakeThread, SweepStates
  <2>3. written.at = "write" /\ marked.at = "mark" /\ written.now = t /\ marked.now = t
    BY <1>3 DEF SweepStates
  <2> HIDE DEF rest, pended, written, marked
  <2>4. PICK r \in {rest, pended, written, marked} : Goes(s, r)
    BY <2>1
  <2>5. r.at # "card" /\ (r.at \in {"write", "mark", "card"} => r.now \in Histories)
    BY <2>2, <2>3, <2>4
  <2> QED
    BY <1>1, <1>2, <2>1, <2>4, <2>5, SweepBounds
<1>6. ASSUME NEW s \in Sweeps, WriteMemory(s) PROVE BackfillBounds'
  <2> DEFINE kept == [sweep[s] EXCEPT !.at = "mark"]
             left == [sweep[s] EXCEPT !.at = "loop", !.now = Nothing]
  <2>1. /\ UNCHANGED <<marks, proposals, carded, tasks, tapRun>> /\ sweep[s].at = "write"
        /\ memories' \in {memories, memories \cup {sweep[s].now}}
        /\ Goes(s, kept) \/ Goes(s, left)
    BY <1>6 DEF WriteMemory
  <2>2. kept.at = "mark" /\ kept.now = sweep[s].now /\ left.at = "loop"
    BY <1>3 DEF SweepStates
  <2> HIDE DEF kept, left
  <2>3. PICK r \in {kept, left} : Goes(s, r)
    BY <2>1
  <2>4. sweep[s].now \in Histories
    BY <1>3, <2>1
  <2>5. r.at # "card" /\ (r.at \in {"write", "mark", "card"} => r.now \in Histories)
    BY <2>2, <2>3, <2>4
  <2>6. memories' \subseteq Histories
    BY <1>2, <2>1, <2>4
  <2> QED
    BY <1>1, <1>2, <2>1, <2>3, <2>5, <2>6, SweepBounds
<1>7. ASSUME NEW s \in Sweeps, MarkThread(s) \/ PostCard(s) PROVE BackfillBounds'
  <2> DEFINE looped == [sweep[s] EXCEPT !.at = "loop", !.now = Nothing]
             carding == [sweep[s] EXCEPT !.at = "emit", !.now = Nothing]
  <2>1. /\ UNCHANGED <<memories, proposals, tasks, tapRun>> /\ sweep[s].at \in {"mark", "card"}
        /\ marks' \in {marks, marks \cup {sweep[s].now}}
        /\ UNCHANGED carded \/ (sweep[s].at = "card" /\ carded' = carded \cup {sweep[s].now})
        /\ Goes(s, looped) \/ Goes(s, carding)
    BY <1>7 DEF MarkThread, PostCard
  <2>2. looped.at = "loop" /\ carding.at = "emit"
    BY <1>3 DEF SweepStates
  <2> HIDE DEF looped, carding
  <2>3. PICK r \in {looped, carding} : Goes(s, r)
    BY <2>1
  <2>4. r.at \notin {"write", "mark", "card"}
    BY <2>2, <2>3
  <2>5. sweep[s].now \in Histories /\ (sweep[s].at = "card" => proposals[sweep[s].now].outcome # "none")
    BY <1>3, <2>1
  <2>6. marks' \subseteq Histories
    BY <1>2, <2>1, <2>5
  <2>7. carded' \subseteq {t \in Histories : proposals'[t].outcome # "none"}
    BY <1>0, <1>1, <2>1, <2>5
  <2> QED
    BY <1>1, <1>2, <2>1, <2>3, <2>4, <2>6, <2>7, SweepBounds
<1>8. ASSUME NEW s \in Sweeps, NEW t \in Histories, RecordProposal(s, t) PROVE BackfillBounds'
  <2> DEFINE card == [sweep[s] EXCEPT !.at = "card", !.now = t, !.keep = sweep[s].keep \ {t}]
             skip == [sweep[s] EXCEPT !.keep = sweep[s].keep \ {t}]
  <2>1. /\ UNCHANGED <<marks, memories, carded, tasks, tapRun>> /\ sweep[s].at = "emit"
        /\ \/ proposals' = [proposals EXCEPT ![t].outcome = "pending"] /\ Goes(s, card)
           \/ Goes(s, skip)
    BY <1>8 DEF RecordProposal
  <2>2. card.at = "card" /\ card.now = t /\ skip.at = "emit"
    BY <1>3, <2>1 DEF SweepStates
  <2> HIDE DEF card, skip
  <2>3. CASE Goes(s, skip)
    BY <1>1, <1>2, <2>1, <2>2, <2>3, SweepBounds
  <2>4. CASE proposals' = [proposals EXCEPT ![t].outcome = "pending"] /\ Goes(s, card)
    <3>1. proposals'[t].outcome = "pending"
      BY <2>4 DEF BackfillInv, ProposalRows
    <3> QED
      BY <1>1, <1>2, <2>1, <2>2, <2>4, <3>1, SweepBounds
  <2> QED
    BY <2>1, <2>3, <2>4
<1>9. ASSUME NEW s \in Sweeps, NEW t \in Histories, MarkConsidered(s, t) PROVE BackfillBounds'
  <2> DEFINE r == [sweep[s] EXCEPT !.pend = sweep[s].pend \ {t}]
  <2>1. /\ UNCHANGED <<memories, proposals, carded, tasks, tapRun>> /\ sweep[s].at = "emit"
        /\ marks' = marks \cup {t} /\ Goes(s, r)
    BY <1>9 DEF MarkConsidered
  <2>2. r.at = "emit"
    BY <1>3, <2>1 DEF SweepStates
  <2> HIDE DEF r
  <2>3. marks' \subseteq Histories
    BY <1>2, <2>1
  <2> QED
    BY <1>1, <1>2, <2>1, <2>2, <2>3, SweepBounds
<1>10. ASSUME NEW u \in Taps,
              \/ CreateBackfillTask(u) \/ RefuseBackfillTask(u) \/ LoseBackfillTask(u)
              \/ CompleteProposal(u) \/ ReleaseProposal(u) \/ TapDies(u)
              \/ \E t \in Histories : ClaimProposal(u, t)
       PROVE  BackfillBounds'
  <2>1. tapRun[u].at # "off" => tapRun[u].thread \in Histories
    BY DEF BackfillBounds
  <2>2. /\ UNCHANGED <<marks, memories, carded, sweep>>
        /\ tasks' \in {tasks, tasks \cup {tapRun[u].thread}}
        /\ tasks' # tasks => tapRun[u].at = "create"
    BY <1>10 DEF CreateBackfillTask, RefuseBackfillTask, LoseBackfillTask, CompleteProposal,
                 ReleaseProposal, TapDies, ClaimProposal
  <2>3. tasks' \subseteq Histories
    BY <1>2, <2>1, <2>2
  <2>4. \/ tapRun' = [tapRun EXCEPT ![u] = Untapped]
        \/ \E at, t : t \in Histories /\ tapRun' = [tapRun EXCEPT ![u] = [at |-> at, thread |-> t]]
    <3>1. CASE CreateBackfillTask(u) \/ RefuseBackfillTask(u) \/ LoseBackfillTask(u)
      <4>1. tapRun[u].thread \in Histories
        BY <2>1, <3>1 DEF CreateBackfillTask, RefuseBackfillTask, LoseBackfillTask
      <4> QED
        BY <3>1, <4>1 DEF CreateBackfillTask, RefuseBackfillTask, LoseBackfillTask, Tapped
    <3>2. CASE CompleteProposal(u) \/ ReleaseProposal(u) \/ TapDies(u)
      BY <3>2 DEF CompleteProposal, ReleaseProposal, TapDies
    <3>3. CASE \E t \in Histories : ClaimProposal(u, t)
      BY <3>3 DEF ClaimProposal, Tapped
    <3> QED
      BY <1>10, <3>1, <3>2, <3>3
  <2>5. CASE tapRun' = [tapRun EXCEPT ![u] = Untapped]
    BY <2>2, <2>3, <2>5, TapBounds DEF Untapped
  <2>6. CASE \E at, t : t \in Histories /\ tapRun' = [tapRun EXCEPT ![u] = [at |-> at, thread |-> t]]
    <3>1. PICK at, t : t \in Histories /\ tapRun' = [tapRun EXCEPT ![u] = [at |-> at, thread |-> t]]
      BY <2>6
    <3> QED
      BY <2>2, <2>3, <3>1, TapBounds
  <2> QED
    BY <2>4, <2>5, <2>6
<1>11. CASE UNCHANGED backfillVars \/ \E t \in Histories : RejectProposal(t)
  <2>1. UNCHANGED <<marks, memories, carded, tasks, sweep, tapRun>>
    BY <1>11 DEF RejectProposal, backfillVars
  <2> QED
    BY <1>0, <1>1, <2>1 DEF BackfillBounds
<1> QED
  BY <1>4, <1>5, <1>6, <1>7, <1>8, <1>9, <1>10, <1>11 DEF BackfillNext

\* The marks, the memories, the proposals and the cards stay what they are, and a card always
\* has its proposal.
THEOREM BackfillTypesHold == BackfillSpec => []BackfillTypeOK
<1>1. BackfillInit => BackfillBounds
  BY DEF BackfillInit, BackfillBounds, Unswept, Untapped
<1>2. BackfillInv /\ BackfillBounds /\ [BackfillNext]_backfillVars => BackfillBounds'
  BY BackfillBoundsStep
<1>3. BackfillInv /\ BackfillBounds => BackfillTypeOK
  BY DEF BackfillInv, ProposalRows, BackfillBounds, BackfillTypeOK
<1> QED
  BY <1>1, <1>2, <1>3, BackfillInductive, PTL DEF BackfillSpec

-----------------------------------------------------------------------------
(* Onboarding.                                                               *)

Profiles == [known : BOOLEAN, topic : Nat, cutoff : BOOLEAN, scoped : BOOLEAN]
ModuleRows == [Modules -> {"absent", "on", "off"}]
ModuleChoices == [chosen : SUBSET Modules, among : SUBSET Modules]
Letters == [at : {"none", "waiting", "early", "muted", "triaged"}, afterGoLive : BOOLEAN]
Archives == [running : BOOLEAN, error : BOOLEAN, covers : SUBSET Partners]
RunSteps == {"rest", "upsert", "contacts", "topic", "claim", "welcome", "stamp", "gate",
             "trigger", "wait", "mark"}
Onboardings == [at : RunSteps, partner : Partners \cup {"none"}, left : SUBSET Addresses, topic : Nat]

OnboardingTypes ==
    /\ profile \in [Partners -> Profiles] /\ modules \in [Partners -> ModuleRows]
    /\ picks \in [Partners -> ModuleChoices] /\ letter \in [Partners -> Letters]
    /\ archive \in Archives /\ pulled \subseteq Partners /\ fetched \subseteq Partners
    /\ greetings \in [Partners -> 0..1] /\ topics \in Nat
    /\ run \in [Onboarders -> Onboardings]

\* A run works on a partner that is known once it has a row; it claims with a topic
\* at hand, welcomes where nobody has, and marks what a pull of its time fetched.
RunSound(w) ==
    LET c == run[w].partner IN
    /\ run[w].at # "rest" => c \in Partners
    /\ run[w].at \notin {"rest", "upsert"} => profile[c].known
    /\ run[w].at = "claim" => run[w].topic # 0
    /\ run[w].at = "welcome" => profile[c].topic # 0 /\ greetings[c] = 0
    /\ run[w].at = "wait" => IF archive.running THEN c \in archive.covers
                             ELSE archive.error \/ c \in fetched
    /\ run[w].at = "mark" => c \in fetched

OneWelcomes ==
    \A w, v \in Onboarders :
        run[w].at = "welcome" /\ run[v].at = "welcome" /\ run[w].partner = run[v].partner => w = v

\* No welcome without a topic; no message is after a go-live that was not; and what the
\* operator chose among is there and as he chose.
PartnerSound(c) ==
    /\ profile[c].topic = 0 => greetings[c] = 0
    /\ ~profile[c].cutoff => ~letter[c].afterGoLive
    /\ letter[c].at \in {"early", "muted"} => ~letter[c].afterGoLive
    /\ profile[c].scoped =>
          \A k \in picks[c].among : /\ modules[c][k] # "absent"
                                    /\ modules[c][k] = "on" <=> k \in picks[c].chosen

OnboardingInv ==
    /\ OnboardingTypes /\ OneWelcomes /\ PulledIsFetched
    /\ \A w \in Onboarders : RunSound(w)
    /\ \A c \in Partners : PartnerSound(c)

\* A step of a run that changes the run only (or an address's owner, or opens a topic).
LEMMA RunMoves ==
    ASSUME OnboardingInv, NEW w \in Onboarders, NEW q \in Onboardings, run' = [run EXCEPT ![w] = q],
           UNCHANGED <<profile, modules, picks, letter, archive, pulled, fetched, greetings>>,
           topics' \in Nat, q.at # "welcome", q.at # "rest" => q.partner \in Partners,
           q.at \notin {"rest", "upsert"} => profile[q.partner].known,
           q.at = "claim" => q.topic # 0,
           q.at = "wait" => IF archive.running THEN q.partner \in archive.covers
                            ELSE archive.error \/ q.partner \in fetched,
           q.at = "mark" => q.partner \in fetched
    PROVE  OnboardingInv'
<1>1. run \in [Onboarders -> Onboardings]
  BY DEF OnboardingInv, OnboardingTypes
<1>2. /\ run' \in [Onboarders -> Onboardings] /\ run'[w] = q
      /\ \A v \in Onboarders \ {w} : run'[v] = run[v]
  BY <1>1
<1>3. OnboardingTypes'
  BY <1>2 DEF OnboardingInv, OnboardingTypes
<1>4. OneWelcomes'
  BY <1>2 DEF OnboardingInv, OneWelcomes
<1>5. ASSUME NEW v \in Onboarders PROVE RunSound(v)'
  <2>1. CASE v = w
    BY <1>2, <2>1 DEF RunSound
  <2>2. CASE v # w
    BY <1>2, <2>2 DEF OnboardingInv, RunSound
  <2> QED
    BY <2>1, <2>2
<1>6. PulledIsFetched' /\ \A c \in Partners : PartnerSound(c)'
  BY DEF OnboardingInv, PulledIsFetched, PartnerSound
<1> QED
  BY <1>3, <1>4, <1>5, <1>6 DEF OnboardingInv

\* What a run is made of.
LEMMA RunFacts ==
    ASSUME OnboardingInv, NEW w \in Onboarders
    PROVE  /\ run \in [Onboarders -> Onboardings] /\ run[w] \in Onboardings /\ RunSound(w)
           /\ Idle \in Onboardings /\ Idle.at = "rest"
           /\ run[w].left \subseteq Addresses /\ run[w].topic \in Nat /\ topics \in Nat
           /\ profile \in [Partners -> Profiles] /\ greetings \in [Partners -> 0..1]
           /\ \A c \in Partners : profile[c].topic \in Nat
<1>1. Idle \in Onboardings /\ Idle.at = "rest"
  BY DEF Idle, Onboardings, RunSteps
<1>2. run \in [Onboarders -> Onboardings] /\ run[w] \in Onboardings /\ RunSound(w) /\ topics \in Nat
  BY DEF OnboardingInv, OnboardingTypes
<1>3. profile \in [Partners -> Profiles] /\ greetings \in [Partners -> 0..1]
  BY DEF OnboardingInv, OnboardingTypes
<1> QED
  BY <1>1, <1>2, <1>3 DEF Onboardings, Profiles

\* A run goes to another step of its own.
LEMMA StepMoves ==
    ASSUME OnboardingInv, NEW w \in Onboarders, NEW step \in RunSteps, StepTo(w, step)
    PROVE  \E q \in Onboardings :
               /\ run' = [run EXCEPT ![w] = q] /\ q.at = step
               /\ q.partner = run[w].partner /\ q.topic = run[w].topic /\ run'[w] = q
<1> DEFINE q == [run[w] EXCEPT !.at = step]
<1>1. run' = [run EXCEPT ![w] = q]
  BY DEF StepTo
<1>2. q \in Onboardings /\ q.at = step /\ q.partner = run[w].partner /\ q.topic = run[w].topic
  BY RunFacts DEF Onboardings
<1> HIDE DEF q
<1>3. run'[w] = q
  BY <1>1, RunFacts
<1> QED
  BY <1>1, <1>2, <1>3

\* The steps of a run that write nothing but an address's owner.
LEMMA QuietSteps ==
    ASSUME OnboardingInv, NEW w \in Onboarders,
           \/ ImportContact(w) \/ EnsureTopic(w) \/ EndRun(w) \/ BreakOff(w) \/ GatePull(w) \/ AwaitPull(w)
           \/ \E c \in Partners : StartRun(w, c)
    PROVE  OnboardingInv'
<1> DEFINE r == run[w]
<1>0. UNCHANGED <<profile, modules, picks, letter, archive, pulled, fetched, greetings>>
  BY DEF ImportContact, EnsureTopic, EndRun, BreakOff, GatePull, AwaitPull, StartRun, ledgers
<1>1. CASE EndRun(w) \/ BreakOff(w)
  <2>1. run' = [run EXCEPT ![w] = Idle] /\ UNCHANGED topics
    BY <1>1 DEF EndRun, BreakOff, Done
  <2> QED
    BY <1>0, <2>1, RunFacts, RunMoves
<1>2. CASE GatePull(w)
  <2>1. PICK step \in {"rest", "trigger"} : StepTo(w, step)
    BY <1>2 DEF GatePull
  <2>2. r.at = "gate" /\ UNCHANGED topics
    BY <1>2 DEF GatePull, AtStep
  <2>3. r.partner \in Partners /\ profile[r.partner].known
    BY <2>2, RunFacts DEF RunSound
  <2> QED
    BY <1>0, <2>1, <2>2, <2>3, StepMoves, RunFacts, RunMoves DEF RunSteps
<1>3. CASE AwaitPull(w)
  <2>1. r.at = "wait" /\ UNCHANGED topics
    BY <1>3 DEF AwaitPull, AtStep
  <2>2. r.partner \in Partners /\ profile[r.partner].known
    BY <2>1, RunFacts DEF RunSound
  <2>3. CASE ~archive.running /\ ~archive.error /\ StepTo(w, "mark")
    <3>1. r.partner \in fetched
      BY <2>1, <2>3, RunFacts DEF RunSound
    <3> QED
      BY <1>0, <2>1, <2>2, <2>3, <3>1, StepMoves, RunFacts, RunMoves DEF RunSteps
  <2>4. CASE StepTo(w, "rest")
    BY <1>0, <2>1, <2>2, <2>4, StepMoves, RunFacts, RunMoves DEF RunSteps
  <2> QED
    BY <1>3, <2>3, <2>4 DEF AwaitPull
<1>4. CASE EnsureTopic(w)
  <2>1. r.at = "topic" /\ r.partner \in Partners /\ profile[r.partner].known
    BY <1>4, RunFacts DEF EnsureTopic, AtStep, RunSound
  <2>2. topics' \in {topics, topics + 1}
    BY <1>4 DEF EnsureTopic
  <2>3. PICK t \in Nat \ {0} : run' = [run EXCEPT ![w] = [run[w] EXCEPT !.at = "claim", !.topic = t]]
    <3> DEFINE kept == profile[run[w].partner].topic
               t == IF kept = 0 THEN topics + 1 ELSE kept
    <3>1. kept \in Nat /\ topics + 1 \in Nat \ {0}
      BY <2>1, RunFacts
    <3>2. t \in Nat \ {0}
      BY <3>1
    <3>3. run' = [run EXCEPT ![w].at = "claim", ![w].topic = t]
      BY <1>4 DEF EnsureTopic
    <3> HIDE DEF t
    <3>4. run' = [run EXCEPT ![w] = [run[w] EXCEPT !.at = "claim", !.topic = t]]
      BY <3>3, RunFacts
    <3> QED
      BY <3>2, <3>4
  <2> DEFINE q == [run[w] EXCEPT !.at = "claim", !.topic = t]
  <2>4. q \in Onboardings /\ q.at = "claim" /\ q.partner = r.partner /\ q.topic = t
    BY RunFacts DEF Onboardings, RunSteps
  <2>5. run' = [run EXCEPT ![w] = q]
    BY <2>3
  <2> HIDE DEF q
  <2>6. topics' \in Nat
    BY <2>2, RunFacts
  <2> QED
    BY <1>0, <2>1, <2>4, <2>5, <2>6, RunMoves
<1>5. CASE ImportContact(w)
  <2>1. r.at = "contacts" /\ UNCHANGED topics /\ r.partner \in Partners /\ profile[r.partner].known
    BY <1>5, RunFacts DEF ImportContact, AtStep, RunSound
  <2>2. PICK S \in SUBSET r.left, step \in {"contacts", "topic", "stamp", "rest"} :
            run' = [run EXCEPT ![w] = [run[w] EXCEPT !.left = run[w].left \ S, !.at = step]]
    <3>1. PICK S \in SUBSET r.left :
              run' = [run EXCEPT ![w].left = @ \ S,
                                 ![w].at = IF run[w].left # S THEN "contacts"
                                           ELSE IF run[w].topic = 0 THEN "topic" ELSE Onwards(w)]
      BY <1>5 DEF ImportContact
    <3> DEFINE step == IF run[w].left # S THEN "contacts"
                       ELSE IF run[w].topic = 0 THEN "topic" ELSE Onwards(w)
    <3>2. step \in {"contacts", "topic", "stamp", "rest"}
      BY DEF Onwards
    <3>3. run' = [run EXCEPT ![w].left = @ \ S, ![w].at = step]
      BY <3>1
    <3> HIDE DEF step
    <3>4. run' = [run EXCEPT ![w] = [run[w] EXCEPT !.left = run[w].left \ S, !.at = step]]
      BY <3>3, RunFacts
    <3> QED
      BY <3>2, <3>4
  <2> DEFINE left == run[w].left \ S
             q == [run[w] EXCEPT !.left = left, !.at = step]
  <2>3. left \in SUBSET Addresses
    BY RunFacts
  <2>4. run' = [run EXCEPT ![w] = q]
    BY <2>2
  <2> HIDE DEF left
  <2>5. q \in Onboardings /\ q.at = step /\ q.partner = r.partner
    BY <2>3, RunFacts DEF Onboardings, RunSteps
  <2> HIDE DEF q
  <2> QED
    BY <1>0, <2>1, <2>4, <2>5, RunFacts, RunMoves
<1>6. ASSUME NEW c \in Partners, StartRun(w, c) PROVE OnboardingInv'
  <2>1. PICK step \in {"stamp", "upsert"} :
            /\ run' = [run EXCEPT ![w] = [run[w] EXCEPT !.partner = c, !.at = step]]
            /\ step = "stamp" => profile[c].known
    BY <1>6 DEF StartRun, Known
  <2> DEFINE q == [run[w] EXCEPT !.partner = c, !.at = step]
  <2>2. q \in Onboardings /\ q.at = step /\ q.partner = c
    BY RunFacts DEF Onboardings, RunSteps
  <2>3. run' = [run EXCEPT ![w] = q] /\ UNCHANGED topics
    BY <1>6, <2>1 DEF StartRun
  <2> HIDE DEF q
  <2> QED
    BY <1>0, <2>1, <2>2, <2>3, RunFacts, RunMoves
<1> QED
  BY <1>1, <1>2, <1>3, <1>4, <1>5, <1>6

\* A run takes its step while its customer's row is written over: what the row's topic
\* was, if there was one, it stays.
LEMMA RowMoves ==
    ASSUME OnboardingInv, NEW c \in Partners, NEW p \in Profiles, profile' = [profile EXCEPT ![c] = p],
           profile[c].known => p.known, profile[c].topic # 0 => p.topic = profile[c].topic
    PROVE  /\ profile' \in [Partners -> Profiles] /\ profile'[c] = p
           /\ \A d \in Partners \ {c} : profile'[d] = profile[d]
           /\ \A d \in Partners : /\ profile[d].known => profile'[d].known
                                  /\ profile[d].topic # 0 => profile'[d].topic = profile[d].topic
<1>1. profile \in [Partners -> Profiles]
  BY DEF OnboardingInv, OnboardingTypes
<1> QED
  BY <1>1

LEMMA UpsertSteps ==
    ASSUME OnboardingInv, NEW w \in Onboarders, UpsertCustomer(w)
    PROVE  OnboardingInv'
<1> DEFINE c == run[w].partner
           p == [profile[c] EXCEPT !.known = TRUE]
           q == [run[w] EXCEPT !.at = "contacts", !.left = AddressesOf[c], !.topic = profile[c].topic]
<1>1. run[w].at = "upsert" /\ c \in Partners
  BY RunFacts DEF UpsertCustomer, AtStep, RunSound
<1>2. /\ p \in Profiles /\ p.known /\ p.topic = profile[c].topic
      /\ p.cutoff = profile[c].cutoff /\ p.scoped = profile[c].scoped
  BY <1>1, RunFacts DEF Profiles
<1>3. profile' = [profile EXCEPT ![c] = p]
  BY DEF UpsertCustomer
<1>4. q \in Onboardings /\ q.at = "contacts" /\ q.partner = c
  <2>1. AddressesOf[c] \in SUBSET Addresses /\ profile[c].topic \in Nat
    BY <1>1, RunFacts, OnboardingAssumption
  <2> QED
    BY <2>1, RunFacts DEF Onboardings, RunSteps
<1>5. run' = [run EXCEPT ![w] = q]
  <2>1. run' = [run EXCEPT ![w].at = "contacts", ![w].left = AddressesOf[c],
                           ![w].topic = profile[c].topic]
    BY DEF UpsertCustomer
  <2> QED
    BY <2>1, RunFacts
<1> HIDE DEF p, q
<1>6. /\ run' \in [Onboarders -> Onboardings] /\ run'[w] = q
      /\ \A v \in Onboarders \ {w} : run'[v] = run[v]
  BY <1>4, <1>5, RunFacts
<1>7. /\ profile' \in [Partners -> Profiles] /\ profile'[c] = p
      /\ \A d \in Partners \ {c} : profile'[d] = profile[d]
      /\ \A d \in Partners : /\ profile[d].known => profile'[d].known
                             /\ profile[d].topic # 0 => profile'[d].topic = profile[d].topic
  BY <1>1, <1>2, <1>3, RowMoves
<1>8. UNCHANGED <<modules, picks, letter, archive, pulled, fetched, greetings, topics>>
  BY DEF UpsertCustomer, ledgers
<1>9. OnboardingTypes'
  BY <1>6, <1>7, <1>8 DEF OnboardingInv, OnboardingTypes
<1>10. OneWelcomes'
  BY <1>4, <1>6 DEF OnboardingInv, OneWelcomes
<1>11. ASSUME NEW v \in Onboarders PROVE RunSound(v)'
  <2>1. CASE v = w
    BY <1>1, <1>2, <1>4, <1>6, <1>7, <2>1 DEF RunSound
  <2>2. CASE v # w
    <3>1. RunSound(v) /\ run'[v] = run[v]
      BY <1>6, <2>2 DEF OnboardingInv
    <3> QED
      BY <1>7, <1>8, <3>1 DEF RunSound
  <2> QED
    BY <2>1, <2>2
<1>12. PulledIsFetched' /\ \A d \in Partners : PartnerSound(d)'
  <2>1. \A d \in Partners : /\ profile'[d].topic = profile[d].topic
                            /\ profile'[d].cutoff = profile[d].cutoff
                            /\ profile'[d].scoped = profile[d].scoped
    BY <1>1, <1>2, <1>7
  <2> QED
    BY <1>8, <2>1 DEF OnboardingInv, PulledIsFetched, PartnerSound
<1> QED
  BY <1>9, <1>10, <1>11, <1>12 DEF OnboardingInv

\* The topic is claimed where none is recorded, so nobody welcomes there yet.
LEMMA ClaimSteps ==
    ASSUME OnboardingInv, NEW w \in Onboarders, ClaimTopic(w)
    PROVE  OnboardingInv'
<1> DEFINE c == run[w].partner
<1>1. /\ run[w].at = "claim" /\ c \in Partners /\ profile[c].known /\ run[w].topic \in Nat \ {0}
  BY RunFacts DEF ClaimTopic, AtStep, RunSound
<1>2. UNCHANGED <<modules, picks, letter, archive, pulled, fetched, greetings, topics>>
  BY DEF ClaimTopic, ledgers
<1>3. CASE profile[c].topic # 0
  <2>1. StepTo(w, Onwards(w)) /\ UNCHANGED profile /\ Onwards(w) \in {"stamp", "rest"}
    BY <1>3 DEF ClaimTopic, Onwards
  <2> QED
    BY <1>1, <1>2, <2>1, StepMoves, RunFacts, RunMoves DEF RunSteps
<1>4. CASE profile[c].topic = 0
  <2> DEFINE p == [profile[c] EXCEPT !.topic = run[w].topic]
  <2>1. profile' = [profile EXCEPT ![c] = p] /\ StepTo(w, "welcome")
    BY <1>4 DEF ClaimTopic
  <2>2. /\ p \in Profiles /\ p.known /\ p.topic # 0
        /\ p.cutoff = profile[c].cutoff /\ p.scoped = profile[c].scoped
    BY <1>1, RunFacts DEF Profiles
  <2> HIDE DEF p
  <2>3. PICK q \in Onboardings :
            /\ run' = [run EXCEPT ![w] = q] /\ q.at = "welcome" /\ q.partner = c /\ run'[w] = q
    BY <2>1, StepMoves DEF RunSteps
  <2>4. /\ run' \in [Onboarders -> Onboardings]
        /\ \A v \in Onboarders \ {w} : run'[v] = run[v]
    BY <2>3, RunFacts
  <2>5. /\ profile' \in [Partners -> Profiles] /\ profile'[c] = p
        /\ \A d \in Partners \ {c} : profile'[d] = profile[d]
        /\ \A d \in Partners : /\ profile[d].known => profile'[d].known
                               /\ profile[d].topic # 0 => profile'[d].topic = profile[d].topic
    BY <1>1, <1>4, <2>1, <2>2, RowMoves
  <2>6. greetings[c] = 0
    BY <1>1, <1>4 DEF OnboardingInv, PartnerSound
  <2>7. \A v \in Onboarders : ~(run[v].at = "welcome" /\ run[v].partner = c)
    BY <1>4 DEF OnboardingInv, RunSound
  <2>8. OnboardingTypes'
    BY <1>2, <2>4, <2>5 DEF OnboardingInv, OnboardingTypes
  <2>9. OneWelcomes'
    BY <2>3, <2>4, <2>7 DEF OnboardingInv, OneWelcomes
  <2>10. ASSUME NEW v \in Onboarders PROVE RunSound(v)'
    <3>1. CASE v = w
      BY <1>1, <1>2, <2>2, <2>3, <2>5, <2>6, <3>1 DEF RunSound
    <3>2. CASE v # w
      <4>1. RunSound(v) /\ run'[v] = run[v]
        BY <2>4, <3>2 DEF OnboardingInv
      <4> QED
        BY <1>2, <2>5, <4>1 DEF RunSound
    <3> QED
      BY <3>1, <3>2
  <2>11. PulledIsFetched' /\ \A d \in Partners : PartnerSound(d)'
    <3>1. \A d \in Partners : /\ profile'[d].topic = 0 => profile[d].topic = 0
                              /\ profile'[d].cutoff = profile[d].cutoff
                              /\ profile'[d].scoped = profile[d].scoped
      BY <1>4, <2>2, <2>5
    <3> QED
      BY <1>2, <3>1 DEF OnboardingInv, PulledIsFetched, PartnerSound
  <2> QED
    BY <2>8, <2>9, <2>10, <2>11 DEF OnboardingInv
<1> QED
  BY <1>3, <1>4

\* The run that welcomes is the only one, in a topic without a welcome.
LEMMA WelcomeSteps ==
    ASSUME OnboardingInv, NEW w \in Onboarders, Welcome(w)
    PROVE  OnboardingInv'
<1> DEFINE c == run[w].partner
<1>1. /\ run[w].at = "welcome" /\ c \in Partners /\ profile[c].known
      /\ profile[c].topic # 0 /\ greetings[c] = 0
  BY RunFacts DEF Welcome, AtStep, RunSound
<1>2. UNCHANGED <<profile, modules, picks, letter, archive, pulled, fetched, topics>>
  BY DEF Welcome, ledgers
<1>3. /\ greetings' \in [Partners -> 0..1] /\ \A d \in Partners \ {c} : greetings'[d] = greetings[d]
  <2>1. greetings' = [greetings EXCEPT ![c] = 1]
    BY <1>1, RunFacts DEF Welcome
  <2> QED
    BY <1>1, <2>1, RunFacts
<1>4. PICK q \in Onboardings :
          /\ run' = [run EXCEPT ![w] = q] /\ q.at \in {"stamp", "rest"} /\ q.partner = c /\ run'[w] = q
  BY StepMoves DEF RunSteps, Welcome, Onwards
<1>5. /\ run' \in [Onboarders -> Onboardings]
      /\ \A v \in Onboarders \ {w} : run'[v] = run[v]
  BY <1>4, RunFacts
<1>6. OnboardingTypes'
  BY <1>2, <1>3, <1>5 DEF OnboardingInv, OnboardingTypes
<1>7. OneWelcomes'
  BY <1>4, <1>5 DEF OnboardingInv, OneWelcomes
<1>8. ASSUME NEW v \in Onboarders PROVE RunSound(v)'
  <2>1. CASE v = w
    BY <1>1, <1>2, <1>4, <2>1 DEF RunSound
  <2>2. CASE v # w
    <3>1. RunSound(v) /\ run'[v] = run[v]
      BY <1>5, <2>2 DEF OnboardingInv
    <3>2. run[v].at = "welcome" => run[v].partner \in Partners \ {c}
      BY <1>1, <2>2, <3>1 DEF OnboardingInv, OneWelcomes, RunSound
    <3> QED
      BY <1>2, <1>3, <3>1, <3>2 DEF RunSound
  <2> QED
    BY <2>1, <2>2
<1>9. PulledIsFetched' /\ \A d \in Partners : PartnerSound(d)'
  BY <1>1, <1>2, <1>3 DEF OnboardingInv, PulledIsFetched, PartnerSound
<1> QED
  BY <1>6, <1>7, <1>8, <1>9 DEF OnboardingInv

\* The watermark and the module set are written once and put nothing back.
LEMMA StampSteps ==
    ASSUME OnboardingInv, NEW w \in Onboarders, StampCutoff(w)
    PROVE  OnboardingInv'
<1> DEFINE c == run[w].partner
<1>1. run[w].at = "stamp" /\ c \in Partners /\ profile[c].known /\ PartnerSound(c)
  BY RunFacts DEF OnboardingInv, StampCutoff, AtStep, RunSound
<1>2. UNCHANGED <<picks, archive, pulled, fetched, greetings, topics>>
  BY DEF StampCutoff
<1>3. letter \in [Partners -> Letters] /\ modules \in [Partners -> ModuleRows]
  BY DEF OnboardingInv, OnboardingTypes
<1>4. PICK q \in Onboardings :
          /\ run' = [run EXCEPT ![w] = q] /\ q.at = "gate" /\ q.partner = c /\ run'[w] = q
  BY StepMoves DEF RunSteps, StampCutoff
<1>5. /\ run' \in [Onboarders -> Onboardings]
      /\ \A v \in Onboarders \ {w} : run'[v] = run[v]
  BY <1>4, RunFacts
<1>6. /\ profile' \in [Partners -> Profiles]
      /\ \A d \in Partners : /\ profile'[d].known = profile[d].known
                             /\ profile'[d].topic = profile[d].topic
                             /\ profile'[d].scoped = profile[d].scoped
                             /\ profile[d].cutoff => profile'[d].cutoff
      /\ letter' \in [Partners -> Letters]
      /\ \A d \in Partners \ {c} : letter'[d] = letter[d]
      /\ letter'[c].afterGoLive = letter[c].afterGoLive
      /\ letter'[c].at \in {"early", "muted"} =>
            letter[c].at \in {"early", "muted"} \/ ~profile[c].cutoff
  <2>1. CASE profile[c].cutoff /\ UNCHANGED <<profile, letter>>
    BY <1>3, <2>1, RunFacts
  <2>2. CASE ~profile[c].cutoff /\ SetCutoff(c)
    <3> DEFINE p == [profile[c] EXCEPT !.cutoff = TRUE]
               at == IF letter[c].at = "waiting" THEN "early" ELSE letter[c].at
               l == [letter[c] EXCEPT !.at = at]
    <3>1. profile' = [profile EXCEPT ![c] = p]
      BY <2>2 DEF SetCutoff
    <3>2. letter' = [letter EXCEPT ![c] = l]
      BY <2>2 DEF SetCutoff
    <3>3. /\ p \in Profiles /\ p.known = profile[c].known /\ p.topic = profile[c].topic
          /\ p.scoped = profile[c].scoped /\ p.cutoff
      BY <1>1, RunFacts DEF Profiles
    <3>4. l \in Letters /\ l.afterGoLive = letter[c].afterGoLive
      BY <1>1, <1>3 DEF Letters
    <3> HIDE DEF p, l
    <3>5. profile' \in [Partners -> Profiles] /\ profile'[c] = p
          /\ \A d \in Partners \ {c} : profile'[d] = profile[d]
      BY <1>1, <3>1, <3>3, RunFacts
    <3>6. letter' \in [Partners -> Letters] /\ letter'[c] = l
          /\ \A d \in Partners \ {c} : letter'[d] = letter[d]
      BY <1>1, <1>3, <3>2, <3>4
    <3> QED
      BY <2>2, <3>3, <3>4, <3>5, <3>6
  <2> QED
    BY <2>1, <2>2 DEF StampCutoff, SetCutoff
<1>7. /\ modules' \in [Partners -> ModuleRows]
      /\ \A d \in Partners, k \in Modules :
            modules[d][k] # "absent" => modules'[d][k] = modules[d][k]
  <2>1. CASE UNCHANGED modules
    BY <1>3, <2>1
  <2>2. CASE modules' = [modules EXCEPT ![c] = [k \in Modules |->
                IF k \in Observable[c] /\ modules[c][k] = "absent" THEN "on" ELSE modules[c][k]]]
    <3> DEFINE m == [k \in Modules |->
                IF k \in Observable[c] /\ modules[c][k] = "absent" THEN "on" ELSE modules[c][k]]
    <3>1. m \in ModuleRows /\ \A k \in Modules : modules[c][k] # "absent" => m[k] = modules[c][k]
      BY <1>1, <1>3 DEF ModuleRows
    <3>2. modules' = [modules EXCEPT ![c] = m]
      BY <2>2
    <3> HIDE DEF m
    <3>3. /\ modules' \in [Partners -> ModuleRows] /\ modules'[c] = m
          /\ \A d \in Partners \ {c} : modules'[d] = modules[d]
      BY <1>1, <1>3, <3>1, <3>2
    <3> QED
      BY <3>1, <3>3
  <2> QED
    BY <2>1, <2>2 DEF StampCutoff, SeedModules
<1>8. OnboardingTypes'
  BY <1>2, <1>5, <1>6, <1>7 DEF OnboardingInv, OnboardingTypes
<1>9. OneWelcomes'
  BY <1>4, <1>5 DEF OnboardingInv, OneWelcomes
<1>10. ASSUME NEW v \in Onboarders PROVE RunSound(v)'
  <2>1. CASE v = w
    BY <1>1, <1>4, <1>6, <2>1 DEF RunSound
  <2>2. CASE v # w
    <3>1. RunSound(v) /\ run'[v] = run[v]
      BY <1>5, <2>2 DEF OnboardingInv
    <3> QED
      BY <1>2, <1>6, <3>1 DEF RunSound
  <2> QED
    BY <2>1, <2>2
<1>11. ASSUME NEW d \in Partners PROVE PartnerSound(d)'
  <2>1. PartnerSound(d) /\ picks[d].among \in SUBSET Modules
    BY DEF OnboardingInv, OnboardingTypes, ModuleChoices
  <2>2. /\ ~profile'[d].cutoff => ~letter'[d].afterGoLive
        /\ letter'[d].at \in {"early", "muted"} => ~letter'[d].afterGoLive
    BY <1>1, <1>6, <2>1 DEF PartnerSound
  <2>3. profile'[d].scoped =>
            \A k \in picks'[d].among : /\ modules'[d][k] # "absent"
                                       /\ modules'[d][k] = "on" <=> k \in picks'[d].chosen
    BY <1>2, <1>6, <1>7, <2>1 DEF PartnerSound
  <2>4. profile'[d].topic = 0 => greetings'[d] = 0
    BY <1>2, <1>6, <2>1 DEF PartnerSound
  <2> QED
    BY <2>2, <2>3, <2>4 DEF PartnerSound
<1>12. PulledIsFetched'
  BY <1>2 DEF OnboardingInv, PulledIsFetched
<1> QED
  BY <1>8, <1>9, <1>10, <1>11, <1>12 DEF OnboardingInv

\* A pull that starts covers every customer that is known; one that ends cleanly has
\* fetched them, and only what was fetched is marked.
LEMMA PullSteps ==
    ASSUME OnboardingInv,
           \/ \E w \in Onboarders : TriggerPull(w) \/ MarkPulled(w)
           \/ \E error \in BOOLEAN : FinishPull(error)
    PROVE  OnboardingInv'
<1>1. ASSUME NEW w \in Onboarders, TriggerPull(w) PROVE OnboardingInv'
  <2> DEFINE c == run[w].partner
  <2>1. run[w].at = "trigger" /\ c \in Partners /\ profile[c].known
    BY <1>1, RunFacts DEF TriggerPull, AtStep, RunSound
  <2>2. UNCHANGED <<profile, modules, picks, letter, pulled, fetched, greetings, topics>>
    BY <1>1 DEF TriggerPull
  <2>3. CASE StepTo(w, "rest") /\ UNCHANGED archive
    BY <2>1, <2>2, <2>3, StepMoves, RunFacts, RunMoves DEF RunSteps
  <2>4. CASE archive' = [running |-> TRUE, error |-> FALSE, covers |-> Known] /\ StepTo(w, "wait")
    <3>1. archive' \in Archives /\ archive'.running /\ archive'.covers = Known
      BY <2>4 DEF Archives, Known
    <3>2. PICK q \in Onboardings :
              /\ run' = [run EXCEPT ![w] = q] /\ q.at = "wait" /\ q.partner = c /\ run'[w] = q
      BY <2>4, StepMoves DEF RunSteps
    <3>3. /\ run' \in [Onboarders -> Onboardings]
          /\ \A v \in Onboarders \ {w} : run'[v] = run[v]
      BY <3>2, RunFacts
    <3>4. OnboardingTypes'
      BY <2>2, <3>1, <3>3 DEF OnboardingInv, OnboardingTypes
    <3>5. OneWelcomes'
      BY <3>2, <3>3 DEF OnboardingInv, OneWelcomes
    <3>6. ASSUME NEW v \in Onboarders PROVE RunSound(v)'
      <4>1. CASE v = w
        BY <2>1, <2>2, <3>1, <3>2, <4>1 DEF RunSound, Known
      <4>2. CASE v # w
        <5>1. RunSound(v) /\ run'[v] = run[v]
          BY <3>3, <4>2 DEF OnboardingInv
        <5> QED
          BY <2>2, <3>1, <5>1 DEF RunSound, Known
      <4> QED
        BY <4>1, <4>2
    <3>7. PulledIsFetched' /\ \A d \in Partners : PartnerSound(d)'
      BY <2>2 DEF OnboardingInv, PulledIsFetched, PartnerSound
    <3> QED
      BY <3>4, <3>5, <3>6, <3>7 DEF OnboardingInv
  <2> QED
    BY <1>1, <2>3, <2>4 DEF TriggerPull
<1>2. ASSUME NEW w \in Onboarders, MarkPulled(w) PROVE OnboardingInv'
  <2> DEFINE c == run[w].partner
  <2>1. /\ run[w].at = "mark" /\ c \in Partners /\ profile[c].known /\ c \in fetched
    BY <1>2, RunFacts DEF MarkPulled, AtStep, RunSound
  <2>2. /\ UNCHANGED <<profile, modules, picks, letter, archive, fetched, greetings, topics>>
        /\ pulled' = pulled \cup {c}
    BY <1>2 DEF MarkPulled
  <2>3. PICK q \in Onboardings :
            /\ run' = [run EXCEPT ![w] = q] /\ q.at = "rest" /\ run'[w] = q
    BY <1>2, StepMoves DEF RunSteps, MarkPulled
  <2>4. /\ run' \in [Onboarders -> Onboardings]
        /\ \A v \in Onboarders \ {w} : run'[v] = run[v]
    BY <2>3, RunFacts
  <2>5. OnboardingTypes'
    BY <2>1, <2>2, <2>4 DEF OnboardingInv, OnboardingTypes
  <2>6. OneWelcomes'
    BY <2>3, <2>4 DEF OnboardingInv, OneWelcomes
  <2>7. ASSUME NEW v \in Onboarders PROVE RunSound(v)'
    <3>1. CASE v = w
      BY <2>3, <3>1 DEF RunSound
    <3>2. CASE v # w
      <4>1. RunSound(v) /\ run'[v] = run[v]
        BY <2>4, <3>2 DEF OnboardingInv
      <4> QED
        BY <2>2, <4>1 DEF RunSound
    <3> QED
      BY <3>1, <3>2
  <2>8. PulledIsFetched' /\ \A d \in Partners : PartnerSound(d)'
    BY <2>1, <2>2 DEF OnboardingInv, PulledIsFetched, PartnerSound
  <2> QED
    BY <2>5, <2>6, <2>7, <2>8 DEF OnboardingInv
<1>3. ASSUME NEW error \in BOOLEAN, FinishPull(error) PROVE OnboardingInv'
  <2>1. /\ UNCHANGED <<profile, modules, picks, letter, pulled, greetings, topics, run>>
        /\ archive.running /\ fetched' = IF error THEN fetched ELSE fetched \cup archive.covers
    BY <1>3 DEF FinishPull
  <2>2. archive \in Archives
    BY DEF OnboardingInv, OnboardingTypes
  <2>3. /\ archive' \in Archives /\ ~archive'.running /\ archive'.error = error
        /\ archive.covers \in SUBSET Partners
    BY <1>3, <2>2 DEF FinishPull, Archives
  <2>4. OnboardingTypes'
    BY <2>1, <2>3 DEF OnboardingInv, OnboardingTypes
  <2>5. ASSUME NEW v \in Onboarders PROVE RunSound(v)'
    <3>1. RunSound(v)
      BY DEF OnboardingInv
    <3> QED
      BY <2>1, <2>3, <3>1 DEF RunSound
  <2>6. OneWelcomes' /\ PulledIsFetched' /\ \A d \in Partners : PartnerSound(d)'
    BY <2>1 DEF OnboardingInv, OneWelcomes, PulledIsFetched, PartnerSound
  <2> QED
    BY <2>4, <2>5, <2>6 DEF OnboardingInv
<1> QED
  BY <1>1, <1>2, <1>3

\* The operator's choice and the customer's message.
LEMMA OutsideSteps ==
    ASSUME OnboardingInv, NEW c \in Partners,
           \/ LetterComes(c) \/ TriageLetter(c)
           \/ \E chosen \in SUBSET Modules : DeclareModules(c, chosen)
    PROVE  OnboardingInv'
<1>1. UNCHANGED <<archive, pulled, fetched, greetings, topics, run>>
  BY DEF LetterComes, TriageLetter, DeclareModules
<1>2. /\ letter \in [Partners -> Letters] /\ modules \in [Partners -> ModuleRows]
      /\ picks \in [Partners -> ModuleChoices] /\ profile \in [Partners -> Profiles] /\ PartnerSound(c)
  BY DEF OnboardingInv, OnboardingTypes
<1>3. OneWelcomes' /\ PulledIsFetched'
  BY <1>1 DEF OnboardingInv, OneWelcomes, PulledIsFetched
<1>4. CASE LetterComes(c) \/ TriageLetter(c)
  <2>1. UNCHANGED <<profile, modules, picks>>
    BY <1>4 DEF LetterComes, TriageLetter
  <2>2. PICK l \in Letters :
            /\ letter' = [letter EXCEPT ![c] = l]
            /\ l.at \in {"early", "muted"} => letter[c].at \in {"early", "muted"}
                                              /\ l.afterGoLive = letter[c].afterGoLive
            /\ l.afterGoLive => letter[c].afterGoLive \/ profile[c].cutoff
    <3>1. CASE LetterComes(c)
      <4> DEFINE l == [at |-> "waiting", afterGoLive |-> profile[c].cutoff]
      <4>1. l \in Letters
        BY <1>2 DEF Letters, Profiles
      <4>2. letter' = [letter EXCEPT ![c] = l]
        BY <3>1 DEF LetterComes
      <4>3. l.at = "waiting" /\ l.afterGoLive = profile[c].cutoff
        OBVIOUS
      <4> HIDE DEF l
      <4> QED
        BY <4>1, <4>2, <4>3
    <3>2. CASE TriageLetter(c)
      <4> DEFINE at == IF letter[c].at = "early" THEN "muted" ELSE "triaged"
                 l == [letter[c] EXCEPT !.at = at]
      <4>1. l \in Letters /\ l.at = at /\ l.afterGoLive = letter[c].afterGoLive
        BY <1>2 DEF Letters
      <4>2. letter' = [letter EXCEPT ![c] = l]
        BY <3>2 DEF TriageLetter
      <4> HIDE DEF l
      <4> QED
        BY <4>1, <4>2
    <3> QED
      BY <1>4, <3>1, <3>2
  <2>3. /\ letter' \in [Partners -> Letters] /\ letter'[c] = l
        /\ \A d \in Partners \ {c} : letter'[d] = letter[d]
    BY <1>2, <2>2
  <2>4. OnboardingTypes'
    BY <1>1, <2>1, <2>3 DEF OnboardingInv, OnboardingTypes
  <2>5. \A v \in Onboarders : RunSound(v)'
    BY <1>1, <2>1 DEF OnboardingInv, RunSound
  <2>6. ASSUME NEW d \in Partners PROVE PartnerSound(d)'
    <3>1. PartnerSound(d)
      BY DEF OnboardingInv
    <3>2. /\ ~profile[d].cutoff => ~letter'[d].afterGoLive
          /\ letter'[d].at \in {"early", "muted"} => ~letter'[d].afterGoLive
      BY <1>2, <2>2, <2>3, <3>1 DEF PartnerSound, Letters, Profiles
    <3> QED
      BY <1>1, <2>1, <3>1, <3>2 DEF PartnerSound
  <2> QED
    BY <1>3, <2>4, <2>5, <2>6 DEF OnboardingInv
<1>5. ASSUME NEW chosen \in SUBSET Modules, DeclareModules(c, chosen) PROVE OnboardingInv'
  <2> DEFINE p == [profile[c] EXCEPT !.scoped = TRUE]
             m == [k \in Modules |-> IF k \in chosen THEN "on"
                                     ELSE IF modules[c][k] = "on" THEN "off" ELSE modules[c][k]]
             y == [chosen |-> chosen,
                   among |-> chosen \cup {k \in Modules : modules[c][k] # "absent"}]
  <2>1. profile' = [profile EXCEPT ![c] = p] /\ UNCHANGED letter
    BY <1>5 DEF DeclareModules
  <2>2. modules' = [modules EXCEPT ![c] = m]
    BY <1>5 DEF DeclareModules
  <2>3. picks' = [picks EXCEPT ![c] = y]
    BY <1>5 DEF DeclareModules
  <2>4. /\ p \in Profiles /\ p.known = profile[c].known /\ p.topic = profile[c].topic
        /\ p.cutoff = profile[c].cutoff
    BY <1>2 DEF Profiles
  <2>5. m \in ModuleRows
    BY <1>2 DEF ModuleRows
  <2>6. y \in ModuleChoices
    BY DEF ModuleChoices
  <2>7. \A k \in y.among : m[k] # "absent" /\ (m[k] = "on" <=> k \in y.chosen)
    BY <1>2 DEF ModuleRows
  <2> HIDE DEF p, m, y
  <2>8. /\ profile' \in [Partners -> Profiles] /\ profile'[c] = p
        /\ \A d \in Partners \ {c} : profile'[d] = profile[d]
    BY <1>2, <2>1, <2>4
  <2>9. /\ modules' \in [Partners -> ModuleRows] /\ modules'[c] = m
        /\ \A d \in Partners \ {c} : modules'[d] = modules[d]
    BY <1>2, <2>2, <2>5
  <2>10. /\ picks' \in [Partners -> ModuleChoices] /\ picks'[c] = y
         /\ \A d \in Partners \ {c} : picks'[d] = picks[d]
    BY <1>2, <2>3, <2>6
  <2>11. OnboardingTypes'
    BY <1>1, <2>1, <2>8, <2>9, <2>10 DEF OnboardingInv, OnboardingTypes
  <2>12. \A d \in Partners : /\ profile'[d].known = profile[d].known
                             /\ profile'[d].topic = profile[d].topic
                             /\ profile'[d].cutoff = profile[d].cutoff
    BY <2>4, <2>8
  <2>13. ASSUME NEW v \in Onboarders PROVE RunSound(v)'
    <3>1. RunSound(v)
      BY DEF OnboardingInv
    <3> QED
      BY <1>1, <2>12, <3>1 DEF RunSound
  <2>14. ASSUME NEW d \in Partners PROVE PartnerSound(d)'
    <3>1. PartnerSound(d)
      BY DEF OnboardingInv
    <3>2. \A k \in picks'[c].among : modules'[c][k] # "absent"
                                     /\ (modules'[c][k] = "on" <=> k \in picks'[c].chosen)
      BY <2>7, <2>9, <2>10
    <3> QED
      BY <1>1, <2>1, <2>8, <2>9, <2>10, <2>12, <3>1, <3>2 DEF PartnerSound
  <2> QED
    BY <1>3, <2>11, <2>13, <2>14 DEF OnboardingInv
<1> QED
  BY <1>4, <1>5

LEMMA OnboardingInvHolds == OnboardingSpec => []OnboardingInv
<1>1. ASSUME OnboardingInit PROVE OnboardingInv
  <2>1. \A w \in Onboarders : run[w] = Idle
    BY <1>1 DEF OnboardingInit
  <2>2. OnboardingTypes
    <3>1. Idle \in Onboardings
      BY DEF Idle, Onboardings, RunSteps
    <3>2. run \in [Onboarders -> Onboardings]
      BY <1>1, <3>1 DEF OnboardingInit
    <3>3. profile \in [Partners -> Profiles] /\ modules \in [Partners -> ModuleRows]
      BY <1>1 DEF OnboardingInit, Profiles, ModuleRows
    <3>4. picks \in [Partners -> ModuleChoices] /\ letter \in [Partners -> Letters] /\ archive \in Archives
      BY <1>1 DEF OnboardingInit, ModuleChoices, Letters, Archives
    <3> QED
      BY <1>1, <3>2, <3>3, <3>4 DEF OnboardingInit, OnboardingTypes
  <2>3. OneWelcomes /\ \A w \in Onboarders : RunSound(w)
    BY <2>1 DEF OneWelcomes, RunSound, Idle
  <2>4. PulledIsFetched /\ \A c \in Partners : PartnerSound(c)
    BY <1>1 DEF OnboardingInit, PulledIsFetched, PartnerSound
  <2> QED
    BY <2>2, <2>3, <2>4 DEF OnboardingInv
<1>2. ASSUME OnboardingInv, [OnboardingNext]_onboardingVars PROVE OnboardingInv'
  <2>1. CASE UNCHANGED onboardingVars
    BY <1>2, <2>1 DEF onboardingVars, OnboardingInv, OnboardingTypes, RunSound, OneWelcomes,
                      PulledIsFetched, PartnerSound
  <2>2. CASE OnboardingNext
    <3>1. ASSUME NEW w \in Onboarders, RunStep(w) PROVE OnboardingInv'
      BY <1>2, <3>1, QuietSteps, UpsertSteps, ClaimSteps, WelcomeSteps, StampSteps, PullSteps
         DEF RunStep
    <3>2. ASSUME NEW w \in Onboarders, BreakOff(w) \/ \E c \in Partners : StartRun(w, c)
          PROVE OnboardingInv'
      BY <1>2, <3>2, QuietSteps
    <3>3. ASSUME NEW error \in BOOLEAN, FinishPull(error) PROVE OnboardingInv'
      BY <1>2, <3>3, PullSteps
    <3>4. ASSUME NEW c \in Partners,
                 \/ LetterComes(c) \/ TriageLetter(c)
                 \/ \E chosen \in SUBSET Modules : DeclareModules(c, chosen)
          PROVE OnboardingInv'
      BY <1>2, <3>4, OutsideSteps
    <3> QED
      BY <2>2, <3>1, <3>2, <3>3, <3>4 DEF OnboardingNext
  <2> QED
    BY <1>2, <2>1, <2>2
<1> QED
  BY <1>1, <1>2, PTL DEF OnboardingSpec

\* No step writes a topic over one that is recorded.
LEMMA TopicsStay ==
    ASSUME OnboardingInv, OnboardingNext, NEW c \in Partners, profile[c].topic # 0
    PROVE  profile'[c].topic = profile[c].topic
<1>1. profile \in [Partners -> Profiles]
  BY DEF OnboardingInv, OnboardingTypes
<1>2. ASSUME NEW d \in Partners, NEW b, 
             \/ profile' = [profile EXCEPT ![d].known = b]
             \/ profile' = [profile EXCEPT ![d].cutoff = b]
             \/ profile' = [profile EXCEPT ![d].scoped = b]
      PROVE profile'[c].topic = profile[c].topic
  BY <1>1, <1>2 DEF Profiles
<1>3. ASSUME NEW w \in Onboarders, RunStep(w) PROVE profile'[c].topic = profile[c].topic
  <2>1. run[w].at # "rest" => run[w].partner \in Partners
    BY RunFacts DEF RunSound
  <2>2. CASE UpsertCustomer(w)
    BY <1>2, <2>1, <2>2 DEF UpsertCustomer, AtStep
  <2>3. CASE ClaimTopic(w)
    BY <1>1, <2>1, <2>3 DEF ClaimTopic, AtStep
  <2>4. CASE StampCutoff(w)
    BY <1>2, <2>1, <2>4 DEF StampCutoff, SetCutoff, AtStep
  <2>5. CASE UNCHANGED profile
    BY <2>5
  <2> QED
    BY <1>3, <2>2, <2>3, <2>4, <2>5
       DEF RunStep, ImportContact, EnsureTopic, Welcome, EndRun, GatePull, TriggerPull, AwaitPull, MarkPulled
<1>4. ASSUME NEW d \in Partners, NEW chosen \in SUBSET Modules, DeclareModules(d, chosen)
      PROVE profile'[c].topic = profile[c].topic
  BY <1>2, <1>4 DEF DeclareModules
<1> QED
  BY <1>3, <1>4 DEF OnboardingNext, BreakOff, StartRun, LetterComes, TriageLetter, FinishPull

\* However many runs take a customer on, by the command, the console or its seed, and
\* wherever they break off: a recorded topic is never written over and the customer is
\* welcomed once (claimTelegramTopic); a customer whose history is marked pulled had it
\* fetched (ensureWaHistoryPull); and a seed undoes neither the go-live nor the
\* operator's modules (stampBackfillCutoff, seedActiveModulesFromMemory).
THEOREM TakenOnOnce == OnboardingSpec => OnboardsOnce
<1>1. OnboardingInv => PulledIsFetched /\ SeedKeepsDecisions
  BY DEF OnboardingInv, PartnerSound, SeedKeepsDecisions
<1>2. ASSUME OnboardingInv, OnboardingInv', [OnboardingNext]_onboardingVars
      PROVE [\A c \in Partners :
                /\ profile[c].topic # 0 => profile'[c].topic = profile[c].topic
                /\ greetings'[c] <= 1]_onboardingVars
  <2>1. \A c \in Partners : greetings'[c] \in 0..1
    BY <1>2 DEF OnboardingInv, OnboardingTypes
  <2> QED
    BY <1>2, <2>1, TopicsStay
<1> QED
  BY <1>1, <1>2, OnboardingInvHolds, PTL DEF OnboardingSpec, OnboardsOnce, OneTopicPerCustomer

\* An address is somebody's or nobody's, and the runs and hitches are the bound's at most.
RunBounds ==
    owner \in [Addresses -> SUBSET Partners] /\ runs \in 0..MaxRuns /\ hitches \in 0..MaxHitches

LEMMA RunBoundsStep ==
    ASSUME OnboardingInv, RunBounds, [OnboardingNext]_onboardingVars
    PROVE  RunBounds'
<1>1. /\ UNCHANGED runs \/ (runs < MaxRuns /\ runs' = runs + 1)
      /\ UNCHANGED hitches \/ (hitches < MaxHitches /\ hitches' = hitches + 1)
  BY DEF OnboardingNext, RunStep, StartRun, UpsertCustomer, ImportContact, EnsureTopic, ClaimTopic, Welcome,
         EndRun, BreakOff, StampCutoff, GatePull, TriggerPull, AwaitPull, MarkPulled, DeclareModules,
         FinishPull, LetterComes, TriageLetter, onboardingVars
<1>2. \/ UNCHANGED owner
      \/ \E w \in Onboarders : ImportContact(w)
  BY DEF OnboardingNext, RunStep, StartRun, UpsertCustomer, EnsureTopic, ClaimTopic, Welcome,
         EndRun, BreakOff, StampCutoff, GatePull, TriggerPull, AwaitPull, MarkPulled, DeclareModules,
         FinishPull, LetterComes, TriageLetter, onboardingVars, ledgers
<1>3. ASSUME NEW w \in Onboarders, ImportContact(w) PROVE owner' \in [Addresses -> SUBSET Partners]
  <2>1. run[w].partner \in Partners
    BY <1>3, RunFacts DEF ImportContact, AtStep, RunSound
  <2>2. UNCHANGED owner \/ \E S : owner' = [a \in Addresses |-> IF a \in S THEN {run[w].partner} ELSE owner[a]]
    BY <1>3 DEF ImportContact
  <2> QED
    BY <2>1, <2>2 DEF RunBounds
<1> QED
  BY <1>1, <1>2, <1>3, OnboardingAssumption DEF RunBounds

\* The tables and the runs of the onboarding stay what they are.
THEOREM OnboardingTypesHold == OnboardingSpec => []OnboardingTypeOK
<1>1. OnboardingInit => RunBounds
  BY OnboardingAssumption DEF OnboardingInit, RunBounds
<1>2. OnboardingInv /\ RunBounds /\ [OnboardingNext]_onboardingVars => RunBounds'
  BY RunBoundsStep
<1>3. OnboardingInv /\ RunBounds => OnboardingTypeOK
  BY DEF OnboardingInv, OnboardingTypes, RunBounds, OnboardingTypeOK, ModuleRows
<1> QED
  BY <1>1, <1>2, <1>3, OnboardingInvHolds, PTL DEF OnboardingSpec

-----------------------------------------------------------------------------
(* Lessons.                                                                  *)

Holders == Pupils \cup {Everybody}
LessonRows == [kind : {"none", "correction", "feedback"}, owner : Holders, origin : Holders,
               status : {"active", "superseded"}, heir : 0..Rows, decision : 0..Resolved]

\* A row belongs to everybody or to the customer it came from.
AtHome(lesson) == lesson.owner = Everybody \/ lesson.owner = lesson.origin

\* The inductive invariant: rows and rows on their way are at home, and a brief was
\* written from rows that came from its customer and are still there.
LessonsInv ==
    /\ lessons \in [Ids -> LessonRows]
    /\ inserting \subseteq [owner : Holders, origin : Holders]
    /\ briefs \in [Pupils -> SUBSET Ids]
    /\ picked \subseteq 1..Resolved /\ resolved \in 0..Resolved
    /\ \A r \in Ids : AtHome(lessons[r])
    /\ \A lesson \in inserting : AtHome(lesson)
    /\ \A c \in Pupils : \A r \in briefs[c] : r \in Used /\ lessons[r].origin = c

\* The owner and the status of a row that is there.
LEMMA OldLesson ==
    ASSUME NEW r \in LessonRows, NEW o \in Holders, NEW h \in 0..Rows
    PROVE  /\ LET q == [r EXCEPT !.owner = o]
              IN  q \in LessonRows /\ q.kind = r.kind /\ q.owner = o /\ q.origin = r.origin
           /\ LET q == [r EXCEPT !.status = "superseded"]
              IN  /\ q \in LessonRows /\ q.kind = r.kind /\ q.owner = r.owner
                  /\ q.origin = r.origin
           /\ LET q == [r EXCEPT !.status = "superseded", !.heir = h]
              IN  /\ q \in LessonRows /\ q.kind = r.kind /\ q.owner = r.owner
                  /\ q.origin = r.origin
BY DEF LessonRows

\* A step that replaces one row, which keeps its origin if it was in use.
LEMMA RowStep ==
    ASSUME LessonsInv, NEW r \in Ids, NEW q \in LessonRows,
           lessons' = [lessons EXCEPT ![r] = q], AtHome(q),
           r \in Used => q.kind # "none" /\ q.origin = lessons[r].origin,
           inserting' \subseteq inserting, briefs' = briefs,
           picked' \subseteq 1..Resolved, resolved' \in 0..Resolved
    PROVE  LessonsInv'
<1>1. lessons' \in [Ids -> LessonRows] /\ lessons'[r] = q
      /\ \A p \in Ids \ {r} : lessons'[p] = lessons[p]
  BY DEF LessonsInv
<1>2. ASSUME NEW p \in Ids PROVE AtHome(lessons[p])'
  BY <1>1 DEF LessonsInv, AtHome
<1>3. ASSUME NEW c \in Pupils, NEW p \in briefs'[c]
      PROVE  p \in Used' /\ lessons'[p].origin = c
  <2>1. p \in Used /\ p \in Ids /\ lessons[p].origin = c
    BY <1>3 DEF LessonsInv, Used
  <2> QED
    BY <1>1, <2>1 DEF Used
<1> QED
  BY <1>1, <1>2, <1>3 DEF LessonsInv, AtHome

\* A step that leaves the rows alone.
LEMMA RowsStay ==
    ASSUME LessonsInv, lessons' = lessons,
           inserting' \subseteq [owner : Holders, origin : Holders],
           \A lesson \in inserting' : AtHome(lesson),
           briefs' \in [Pupils -> SUBSET Ids],
           \A c \in Pupils : \A r \in briefs'[c] : r \in Used /\ lessons[r].origin = c,
           picked' \subseteq 1..Resolved, resolved' \in 0..Resolved
    PROVE  LessonsInv'
BY DEF LessonsInv, AtHome, Used

\* Every step keeps the lessons where they belong.
LEMMA LessonsStep ==
    ASSUME LessonsInv, LessonsNext
    PROVE  LessonsInv'
<1>0. /\ lessons \in [Ids -> LessonRows] /\ \A r \in LessonRows : r.owner \in Holders
      /\ \A r \in LessonRows : r.origin \in Holders
      /\ picked \subseteq 1..Resolved /\ resolved \in 0..Resolved /\ Resolved \in Nat
      /\ Alive \subseteq Used /\ Used \subseteq Ids /\ Ids \subseteq 0..Rows
      /\ Pupils \subseteq Holders /\ Everybody \in Holders
      /\ 0 \in 0..Rows /\ 0 \in 0..Resolved
  BY LessonsAssumption DEF LessonsInv, LessonRows, Alive, Used, Ids, Holders
<1>1. CASE Learn
  <2>1. PICK c \in Pupils, scope \in Scopes :
            inserting' = inserting \cup
                {[owner |-> IF scope = "shared" THEN Everybody ELSE c, origin |-> c]}
    BY <1>1 DEF Learn
  <2>2. \A lesson \in inserting' :
            lesson \in [owner : Holders, origin : Holders] /\ AtHome(lesson)
    BY <1>0, <2>1 DEF LessonsInv, AtHome
  <2> QED
    BY <1>0, <1>1, <2>2, RowsStay DEF Learn, LessonsInv
<1>2. CASE Learned
  <2>1. PICK lesson \in inserting, r \in Ids :
            /\ Free(r) /\ inserting' = inserting \ {lesson}
            /\ lessons' = [lessons EXCEPT ![r] =
                 [Unused EXCEPT !.kind = "correction", !.owner = lesson.owner,
                                !.origin = lesson.origin]]
    BY <1>2 DEF Learned
  <2> DEFINE q == [Unused EXCEPT !.kind = "correction", !.owner = lesson.owner,
                                 !.origin = lesson.origin]
  <2>2. lesson.owner \in Holders /\ lesson.origin \in Holders /\ AtHome(lesson)
    BY DEF LessonsInv
  <2>3. q \in LessonRows /\ AtHome(q) /\ lessons' = [lessons EXCEPT ![r] = q]
    BY <1>0, <2>1, <2>2 DEF AtHome, Unused, LessonRows
  <2>4. r \notin Used
    BY <2>1 DEF Free
  <2> HIDE DEF q
  <2> QED
    BY <1>0, <1>2, <2>1, <2>3, <2>4, RowStep DEF Learned
<1>3. CASE FlipScope
  <2>1. PICK button \in buttons :
            /\ button[1] \in Alive
            /\ lessons' = [lessons EXCEPT ![button[1]].owner = FlippedOwner(button[1], button[2])]
    BY <1>3 DEF FlipScope
  <2> DEFINE r == button[1]
             o == FlippedOwner(button[1], button[2])
             q == [lessons[r] EXCEPT !.owner = o]
  <2>2. r \in Ids /\ r \in Used /\ lessons[r] \in LessonRows
    BY <1>0, <2>1
  <2>3. o \in Holders /\ (o = Everybody \/ o = lessons[r].origin)
    BY <1>0, <2>2 DEF FlippedOwner
  <2>4. /\ q \in LessonRows /\ q.kind = lessons[r].kind /\ q.owner = o
        /\ q.origin = lessons[r].origin
    BY <1>0, <2>2, <2>3, OldLesson
  <2>5. lessons' = [lessons EXCEPT ![r] = q]
    BY <1>0, <2>1, <2>2
  <2> HIDE DEF r, o, q
  <2>6. AtHome(q) /\ q.kind # "none"
    BY <2>2, <2>3, <2>4 DEF AtHome, Used
  <2> QED
    BY <1>0, <1>3, <2>2, <2>4, <2>5, <2>6, RowStep DEF FlipScope
<1>4. CASE CreateGuidance
  <2>1. PICK c \in Pupils \cup {Everybody}, r \in Ids :
            /\ Free(r)
            /\ lessons' = [lessons EXCEPT ![r] =
                    [Unused EXCEPT !.kind = "correction", !.owner = c, !.origin = c]]
    BY <1>4 DEF CreateGuidance
  <2> DEFINE q == [Unused EXCEPT !.kind = "correction", !.owner = c, !.origin = c]
  <2>2. q \in LessonRows /\ AtHome(q) /\ lessons' = [lessons EXCEPT ![r] = q]
    BY <1>0, <2>1 DEF AtHome, Unused, LessonRows, Holders
  <2>3. r \notin Used
    BY <2>1 DEF Free
  <2> HIDE DEF q
  <2> QED
    BY <1>0, <1>4, <2>2, <2>3, RowStep DEF CreateGuidance
<1>5. CASE SupersedeGuidance
  <2>1. PICK r \in Alive, p \in Ids, c \in Pupils \cup {Everybody} :
            /\ Free(p) /\ (c # Everybody => c = lessons[r].owner)
            /\ lessons' = [lessons EXCEPT
                   ![r].status = "superseded", ![r].heir = p,
                   ![p] = [Unused EXCEPT !.kind = "correction", !.owner = c,
                               !.origin = IF lessons[r].owner = Everybody THEN c
                                          ELSE lessons[r].owner]]
    BY <1>5 DEF SupersedeGuidance
  <2> DEFINE g == IF lessons[r].owner = Everybody THEN c ELSE lessons[r].owner
             q == [Unused EXCEPT !.kind = "correction", !.owner = c, !.origin = g]
             old == [lessons[r] EXCEPT !.status = "superseded", !.heir = p]
             between == [lessons EXCEPT ![r] = old]
  <2>2. /\ r \in Ids /\ r \in Used /\ p \in Ids \ Used /\ r # p /\ p \in 0..Rows
        /\ lessons[r] \in LessonRows
    BY <1>0, <2>1 DEF Free
  <2>3. g \in Holders /\ c \in Holders /\ (c = Everybody \/ c = g)
    BY <1>0, <2>1, <2>2 DEF Holders
  <2>4. q \in LessonRows /\ q.owner = c /\ q.origin = g
    BY <1>0, <2>3 DEF Unused, LessonRows
  <2>5. /\ old \in LessonRows /\ old.kind = lessons[r].kind /\ old.owner = lessons[r].owner
        /\ old.origin = lessons[r].origin
    BY <1>0, <2>2, OldLesson
  <2>6. lessons' = [between EXCEPT ![p] = q]
    BY <1>0, <2>1, <2>2
  <2> HIDE DEF g, q, old
  <2>7. /\ lessons' \in [Ids -> LessonRows] /\ lessons'[p] = q /\ lessons'[r] = old
        /\ \A x \in Ids \ {p, r} : lessons'[x] = lessons[x]
    BY <1>0, <2>2, <2>4, <2>5, <2>6
  <2>8. ASSUME NEW x \in Ids PROVE AtHome(lessons[x])'
    <3>1. AtHome(q) /\ AtHome(old)
      BY <2>2, <2>3, <2>4, <2>5 DEF AtHome, LessonsInv
    <3> QED
      BY <2>7, <3>1 DEF LessonsInv, AtHome
  <2>9. ASSUME NEW d \in Pupils, NEW x \in briefs'[d]
        PROVE  x \in Used' /\ lessons'[x].origin = d
    <3>1. x \in Used /\ x \in Ids /\ lessons[x].origin = d
      BY <1>5, <2>9 DEF LessonsInv, Used, SupersedeGuidance
    <3> QED
      BY <2>2, <2>5, <2>7, <3>1 DEF Used
  <2> QED
    BY <1>5, <2>7, <2>8, <2>9 DEF LessonsInv, AtHome, SupersedeGuidance
<1>6. CASE RetireGuidance
  <2>1. PICK r \in Alive : lessons' = [lessons EXCEPT ![r].status = "superseded"]
    BY <1>6 DEF RetireGuidance
  <2> DEFINE q == [lessons[r] EXCEPT !.status = "superseded"]
  <2>2. r \in Ids /\ r \in Used /\ lessons[r] \in LessonRows
    BY <1>0, <2>1
  <2>3. /\ q \in LessonRows /\ q.kind = lessons[r].kind /\ q.owner = lessons[r].owner
        /\ q.origin = lessons[r].origin /\ lessons' = [lessons EXCEPT ![r] = q]
    BY <1>0, <2>1, <2>2, OldLesson
  <2> HIDE DEF q
  <2>4. AtHome(q) /\ q.kind # "none"
    BY <2>2, <2>3 DEF AtHome, Used, LessonsInv
  <2> QED
    BY <1>0, <1>6, <2>2, <2>3, <2>4, RowStep DEF RetireGuidance
<1>7. CASE WriteFeedback
  <2>1. PICK d \in picked, r \in Ids, c \in Pupils :
            /\ Free(r) /\ picked' = picked \ {d}
            /\ lessons' = [lessons EXCEPT ![r] =
                 [Unused EXCEPT !.kind = "feedback", !.owner = c, !.origin = c, !.decision = d]]
    BY <1>7 DEF WriteFeedback
  <2> DEFINE q == [Unused EXCEPT !.kind = "feedback", !.owner = c, !.origin = c, !.decision = d]
  <2>2. d \in 0..Resolved /\ c \in Holders
    BY <1>0
  <2>3. q \in LessonRows /\ AtHome(q) /\ lessons' = [lessons EXCEPT ![r] = q]
    BY <1>0, <2>1, <2>2 DEF AtHome, Unused, LessonRows
  <2>4. r \notin Used
    BY <2>1 DEF Free
  <2> HIDE DEF q
  <2> QED
    BY <1>0, <1>7, <2>1, <2>3, <2>4, RowStep DEF WriteFeedback
<1>8. CASE Resolves \/ FetchDecisions \/ SkipDecision \/ DecisionFails
  <2>1. /\ lessons' = lessons /\ inserting' = inserting /\ briefs' = briefs
        /\ resolved' = resolved \/ (resolved < Resolved /\ resolved' = resolved + 1)
        /\ picked' \subseteq picked \cup Unlearned
    BY <1>8 DEF Resolves, FetchDecisions, SkipDecision, DecisionFails
  <2>2. Unlearned \subseteq 1..Resolved /\ resolved' \in 0..Resolved
    BY <1>0, <2>1 DEF Unlearned
  <2> QED
    BY <1>0, <2>1, <2>2, RowsStay DEF LessonsInv
<1>9. CASE SweepBrief
  <2>1. PICK c \in Pupils : briefs' = [briefs EXCEPT ![c] = {r \in Alive : lessons[r].owner = c}]
    BY <1>9 DEF SweepBrief
  <2>2. ASSUME NEW d \in Pupils, NEW r \in briefs'[d]
        PROVE  r \in Used /\ lessons[r].origin = d
    <3>1. CASE d = c
      <4>1. r \in Used /\ r \in Ids /\ lessons[r].owner = c
        BY <1>0, <2>1, <2>2, <3>1 DEF LessonsInv
      <4> QED
        BY <3>1, <4>1, LessonsAssumption DEF LessonsInv, AtHome
    <3>2. CASE d # c
      BY <2>1, <2>2, <3>2 DEF LessonsInv
    <3> QED
      BY <3>1, <3>2
  <2>3. briefs' \in [Pupils -> SUBSET Ids]
    BY <1>0, <2>1 DEF LessonsInv
  <2> QED
    BY <1>0, <1>9, <2>2, <2>3, RowsStay DEF SweepBrief, LessonsInv
<1> QED
  BY <1>1, <1>2, <1>3, <1>4, <1>5, <1>6, <1>7, <1>8, <1>9 DEF LessonsNext, FeedbackStep

\* LessonsInv is an invariant.
LEMMA LessonsInductive == LessonsSpec => []LessonsInv
<1>1. LessonsInit => LessonsInv
  BY LessonsAssumption
     DEF LessonsInit, LessonsInv, Unused, LessonRows, Holders, AtHome
<1>2. LessonsInv /\ [LessonsNext]_lessonVars => LessonsInv'
  <2>1. CASE LessonsNext
    BY <2>1, LessonsStep
  <2>2. CASE UNCHANGED lessonVars
    BY <2>2 DEF lessonVars, LessonsInv, AtHome, Used
  <2> QED
    BY <2>1, <2>2
<1> QED
  BY <1>1, <1>2, PTL DEF LessonsSpec

\* A lesson stays with the customer it came from unless it is shared by a choice, in
\* drafts as in briefs, over flips of old buttons, replacements and retirements in
\* any order and any number.
THEOREM LessonsAreKept ==
    LessonsSpec => []LessonsStayHome
<1>1. LessonsInv => LessonsStayHome
  <2> SUFFICES ASSUME LessonsInv, NEW c \in Pupils
               PROVE  /\ \A r \in Retrieved(c) :
                            /\ lessons[r].owner = Everybody \/ lessons[r].origin = c
                            /\ lessons[r].status = "active" /\ ~Rejected(r)
                      /\ \A r \in briefs[c] : lessons[r].origin = c
    BY DEF LessonsStayHome
  <2>1. ASSUME NEW r \in Retrieved(c)
        PROVE  /\ lessons[r].owner = Everybody \/ lessons[r].origin = c
               /\ lessons[r].status = "active" /\ ~Rejected(r)
    BY DEF Retrieved, Alive, Used, LessonsInv, AtHome
  <2> QED
    BY <2>1 DEF LessonsInv
<1> QED
  BY <1>1, LessonsInductive, PTL

\* A button flips a row there is.
LEMMA ButtonsStep ==
    ASSUME LessonsInv, buttons \subseteq Ids \X Scopes, [LessonsNext]_lessonVars
    PROVE  buttons' \subseteq Ids \X Scopes
<1>1. ASSUME NEW r \in Ids, NEW target \in Scopes, buttons' \in {buttons, buttons \cup {<<r, target>>}}
      PROVE  buttons' \subseteq Ids \X Scopes
  BY <1>1
<1>2. CASE Learned
  BY <1>1, <1>2 DEF Learned, Scopes
<1>3. CASE FlipScope
  <2>1. PICK button \in buttons :
          buttons' \in {buttons, buttons \cup {<<button[1], IF button[2] = "shared" THEN "customer" ELSE "shared">>}}
    BY <1>3 DEF FlipScope
  <2>2. button[1] \in Ids
    OBVIOUS
  <2> QED
    BY <1>1, <2>1, <2>2 DEF Scopes
<1>4. CASE Learn \/ CreateGuidance \/ SupersedeGuidance \/ RetireGuidance \/ Resolves \/ FeedbackStep
           \/ DecisionFails \/ SweepBrief \/ UNCHANGED lessonVars
  BY <1>4 DEF Learn, CreateGuidance, SupersedeGuidance, RetireGuidance, Resolves, FeedbackStep, FetchDecisions,
              SkipDecision, WriteFeedback, DecisionFails, SweepBrief, lessonVars
<1> QED
  BY <1>2, <1>3, <1>4 DEF LessonsNext

\* The lessons, the buttons and the briefs stay what they are.
THEOREM LessonsTypesHold == LessonsSpec => []LessonsTypeOK
<1>1. LessonsInit => buttons \subseteq Ids \X Scopes
  BY DEF LessonsInit
<1>2. LessonsInv /\ buttons \subseteq Ids \X Scopes /\ [LessonsNext]_lessonVars => (buttons \subseteq Ids \X Scopes)'
  BY ButtonsStep
<1>3. LessonsInv /\ buttons \subseteq Ids \X Scopes => LessonsTypeOK
  BY DEF LessonsInv, LessonsTypeOK, LessonRows, Holders
<1> QED
  BY <1>1, <1>2, <1>3, LessonsInductive, PTL DEF LessonsSpec

-----------------------------------------------------------------------------
(* Knowledge.                                                                *)

Landlords == Owners \cup {Unresolved}
DocRows == [status : {"none", "active", "tombstoned"}, hash : Versions, customer : Landlords]
PassRows == [at : {"idle", "writing", "embedding", "deleting"}, seen : [Docs -> Versions],
             known : [Docs -> DocRows], owners : [DocSources -> Landlords],
             todo : SUBSET Docs, gone : SUBSET Docs, doc : SUBSET Docs]

\* The document is in its folder, or has been taken away.
WasThere(d) == disk[d] # 0 \/ d \in removed

\* What a pass will write was there, and what it will tombstone has been taken away:
\* the folders may move on under it, the history may not.
PassSound(w) ==
    /\ pass[w].gone \subseteq removed
    /\ \A d \in pass[w].todo : WasThere(d)

\* A document with a row was there; TombstonedWasGone for one document.
DocSound(d) ==
    /\ manifest[d].status # "none" => WasThere(d)
    /\ manifest[d].status = "tombstoned" => d \in removed

KnowledgeInv ==
    /\ disk \in [Docs -> Versions] /\ ownedBy \in [DocSources -> Landlords]
    /\ manifest \in [Docs -> DocRows] /\ pass \in [Keepers -> PassRows]
    /\ removed \subseteq Docs
    /\ \A w \in Keepers : PassSound(w)
    /\ \A d \in Docs : DocSound(d)

\* What a pass has in hand.
LEMMA PassTypes ==
    ASSUME NEW r \in PassRows
    PROVE  /\ r.seen \in [Docs -> Versions] /\ r.owners \in [DocSources -> Landlords]
           /\ r.todo \subseteq Docs /\ r.gone \subseteq Docs /\ r.doc \subseteq Docs
BY DEF PassRows

\* A step of one pass, which leaves the folders alone.
LEMMA PassMoves ==
    ASSUME KnowledgeInv, NEW w \in Keepers, NEW q \in PassRows,
           pass' = [pass EXCEPT ![w] = q],
           q.gone \subseteq removed, \A d \in q.todo : WasThere(d),
           UNCHANGED <<disk, ownedBy, removed>>,
           manifest' \in [Docs -> DocRows], \A d \in Docs : DocSound(d)'
    PROVE  KnowledgeInv'
<1>1. pass' \in [Keepers -> PassRows] /\ pass'[w] = q
      /\ \A v \in Keepers \ {w} : pass'[v] = pass[v]
  BY DEF KnowledgeInv
<1>2. \A v \in Keepers : PassSound(v)'
  BY <1>1 DEF KnowledgeInv, PassSound, WasThere
<1> QED
  BY <1>1, <1>2 DEF KnowledgeInv

\* ... and whose lists only get shorter, with the manifest as it is.
LEMMA PassGoesOn ==
    ASSUME KnowledgeInv, NEW w \in Keepers, NEW q \in PassRows,
           pass' = [pass EXCEPT ![w] = q],
           q.todo \subseteq pass[w].todo, q.gone \subseteq pass[w].gone,
           UNCHANGED <<disk, ownedBy, manifest, removed>>
    PROVE  KnowledgeInv'
<1>1. q.gone \subseteq removed /\ \A d \in q.todo : WasThere(d)
  BY DEF KnowledgeInv, PassSound
<1>2. manifest' \in [Docs -> DocRows] /\ \A d \in Docs : DocSound(d)'
  BY DEF KnowledgeInv, DocSound, WasThere
<1> QED
  BY <1>1, <1>2, PassMoves

\* ... and that writes the row of a document it had to do.
LEMMA PassWrites ==
    ASSUME KnowledgeInv, NEW w \in Keepers, NEW q \in PassRows,
           pass' = [pass EXCEPT ![w] = q],
           q.todo \subseteq pass[w].todo, q.gone \subseteq pass[w].gone,
           UNCHANGED <<disk, ownedBy, removed>>,
           NEW d \in pass[w].todo, manifest' = [manifest EXCEPT ![d] = Row(w, d)]
    PROVE  KnowledgeInv'
<1>1. /\ q.gone \subseteq removed /\ \A e \in q.todo : WasThere(e)
      /\ WasThere(d) /\ d \in Docs /\ pass[w] \in PassRows
  BY PassTypes DEF KnowledgeInv, PassSound
<1>2. Row(w, d) \in DocRows /\ Row(w, d).status = "active"
  <2>1. pass[w].seen[d] \in Versions /\ pass[w].owners[SourceOf[d]] \in Landlords
    BY <1>1, PassTypes, KnowledgeAssumption
  <2> QED
    BY <2>1 DEF Row, DocRows
<1>3. manifest' \in [Docs -> DocRows]
  BY <1>1, <1>2 DEF KnowledgeInv
<1>4. \A e \in Docs : DocSound(e)'
  BY <1>1, <1>2 DEF KnowledgeInv, DocSound, WasThere
<1> QED
  BY <1>1, <1>3, <1>4, PassMoves

\* The folders move: what was there is there or has been taken away.
LEMMA FolderStep ==
    ASSUME KnowledgeInv, EditsFolder \/ Rescope
    PROVE  KnowledgeInv'
<1>1. /\ UNCHANGED <<manifest, pass>> /\ ownedBy' \in [DocSources -> Landlords]
      /\ disk' \in [Docs -> Versions] /\ removed \subseteq removed' /\ removed' \subseteq Docs
      /\ \A d \in Docs : WasThere(d) => WasThere(d)'
  <2>1. CASE EditsFolder
    <3>1. PICK d \in Docs, v \in Versions :
              /\ disk' = [disk EXCEPT ![d] = v]
              /\ removed' = IF v = 0 THEN removed \cup {d} ELSE removed
      BY <2>1 DEF EditsFolder
    <3> QED
      BY <2>1, <3>1 DEF EditsFolder, KnowledgeInv, WasThere
  <2>2. CASE Rescope
    <3>1. PICK s \in DocSources, c \in Landlords : ownedBy' = [ownedBy EXCEPT ![s] = c]
      BY <2>2 DEF Rescope, Landlords
    <3> QED
      BY <2>2, <3>1 DEF Rescope, KnowledgeInv, WasThere
  <2> QED
    BY <2>1, <2>2
<1>2. ASSUME NEW w \in Keepers PROVE PassSound(w)'
  <2>1. pass[w].todo \subseteq Docs
    BY PassTypes DEF KnowledgeInv
  <2> QED
    BY <1>1, <2>1 DEF KnowledgeInv, PassSound
<1> QED
  BY <1>1, <1>2 DEF KnowledgeInv, DocSound

\* A scan that saw something of a source saw all of it.
LEMMA FolderScanStep ==
    ASSUME KnowledgeInv, NEW w \in Keepers, Scan(w)
    PROVE  KnowledgeInv'
<1>1. PICK blank \in SUBSET {s \in DocSources : KeeperOf[s] = w /\ MayBlank(s)} :
        LET seen == [d \in Docs |-> IF d \in DocsOf(w) /\ SourceOf[d] \notin blank
                                    THEN disk[d] ELSE 0]
            taken == {d \in Docs : Sweepable(d, seen) /\ ownedBy[SourceOf[d]] # Unresolved}
            absent == {d \in taken : manifest[d].status = "active" /\ seen[d] = 0}
            refused(d) == 2 * Cardinality({e \in absent : SourceOf[e] = SourceOf[d]})
                            > TombstoneHalves * Cardinality({e \in Mates(d) : manifest[e].status = "active"})
        IN  pass' = [pass EXCEPT ![w] =
                [at |-> "writing", seen |-> seen, known |-> KnownOwner(w), owners |-> ownedBy,
                 todo |-> {d \in taken : seen[d] # 0},
                 gone |-> {d \in absent : ~refused(d)}, doc |-> {}]]
  BY DEF Scan
<1> DEFINE seen == [d \in Docs |-> IF d \in DocsOf(w) /\ SourceOf[d] \notin blank
                                   THEN disk[d] ELSE 0]
           taken == {d \in Docs : Sweepable(d, seen) /\ ownedBy[SourceOf[d]] # Unresolved}
           absent == {d \in taken : manifest[d].status = "active" /\ seen[d] = 0}
           refused(d) == 2 * Cardinality({e \in absent : SourceOf[e] = SourceOf[d]})
                           > TombstoneHalves * Cardinality({e \in Mates(d) : manifest[e].status = "active"})
           todo == {d \in taken : seen[d] # 0}
           gone == {d \in absent : ~refused(d)}
           q == [at |-> "writing", seen |-> seen, known |-> KnownOwner(w), owners |-> ownedBy,
                 todo |-> todo, gone |-> gone, doc |-> {}]
<1>2. pass' = [pass EXCEPT ![w] = q]
  BY <1>1
<1>3. seen \in [Docs -> Versions]
  BY KnowledgeAssumption DEF KnowledgeInv, Versions
<1>4. ASSUME NEW d \in Docs, seen[d] # 0 PROVE WasThere(d)
  BY <1>4 DEF WasThere
<1>5. ASSUME NEW d \in absent PROVE d \in removed
  <2>1. d \in Docs /\ manifest[d].status = "active" /\ seen[d] = 0 /\ Sweepable(d, seen)
    OBVIOUS
  <2>2. PICK e \in Mates(d) : seen[e] # 0
    BY <2>1 DEF Sweepable
  <2>3. e \in Docs /\ e \in DocsOf(w) /\ SourceOf[e] \notin blank /\ SourceOf[e] = SourceOf[d]
    BY <2>2 DEF Mates
  <2>4. d \in DocsOf(w) /\ SourceOf[d] \notin blank
    BY <2>1, <2>3 DEF DocsOf
  <2>5. disk[d] = 0
    BY <2>1, <2>4
  <2> QED
    BY <2>1, <2>5 DEF KnowledgeInv, DocSound, WasThere
<1>6. KnownOwner(w) \in [Docs -> DocRows]
  <2>1. NoEntry \in DocRows
    BY KnowledgeAssumption DEF NoEntry, DocRows, Versions, Landlords
  <2> QED
    BY <2>1 DEF KnownOwner, KnowledgeInv
<1>7. todo \subseteq Docs /\ gone \subseteq absent /\ absent \subseteq Docs
  OBVIOUS
<1>8. \A d \in todo : WasThere(d)
  BY <1>4
<1> HIDE DEF seen, taken, absent, refused, todo, gone
<1>9. q \in PassRows /\ q.todo = todo /\ q.gone = gone
  BY <1>3, <1>6, <1>7 DEF PassRows, KnowledgeInv
<1>10. q.gone \subseteq removed /\ \A d \in q.todo : WasThere(d)
  BY <1>5, <1>7, <1>8, <1>9
<1> HIDE DEF q
<1>11. UNCHANGED <<disk, ownedBy, manifest, removed>>
  BY DEF Scan
<1>12. manifest' \in [Docs -> DocRows] /\ \A d \in Docs : DocSound(d)'
  BY <1>11 DEF KnowledgeInv, DocSound, WasThere
<1> QED
  BY <1>2, <1>9, <1>10, <1>11, <1>12, PassMoves

\* A document is skipped, fails, or has its chunks replaced or deleted; the pass ends.
LEMMA PassSteps ==
    ASSUME KnowledgeInv, NEW w \in Keepers,
           \/ SkipDoc(w) \/ ReplaceChunks(w) \/ DeleteChunks(w) \/ DocFails(w)
           \/ PassEnds(w) \/ PassDies(w)
    PROVE  KnowledgeInv'
<1>1. /\ pass[w] \in PassRows /\ pass \in [Keepers -> PassRows]
      /\ pass[w].todo \subseteq Docs /\ {} \subseteq Docs
      /\ UNCHANGED <<disk, ownedBy, manifest, removed>>
  BY PassTypes
     DEF KnowledgeInv, SkipDoc, ReplaceChunks, DeleteChunks, DocFails, PassEnds, PassDies
<1>2. ASSUME NEW d \in pass[w].todo, pass' = [pass EXCEPT ![w].todo = @ \ {d}]
      PROVE  KnowledgeInv'
  <2> DEFINE todo == pass[w].todo \ {d}
             q == [pass[w] EXCEPT !.todo = todo]
  <2>1. pass' = [pass EXCEPT ![w] = q]
    BY <1>1, <1>2
  <2>2. todo \in SUBSET Docs /\ todo \subseteq pass[w].todo
    BY <1>1
  <2> HIDE DEF todo
  <2>3. q \in PassRows /\ q.todo = todo /\ q.gone = pass[w].gone
    BY <1>1, <2>2 DEF PassRows
  <2> HIDE DEF q
  <2> QED
    BY <1>1, <2>1, <2>2, <2>3, PassGoesOn
<1>3. ASSUME pass' = [pass EXCEPT ![w].at = "writing", ![w].doc = {}]
      PROVE  KnowledgeInv'
  <2> DEFINE q == [pass[w] EXCEPT !.at = "writing", !.doc = {}]
  <2>1. pass' = [pass EXCEPT ![w] = q]
    BY <1>1, <1>3
  <2>2. q \in PassRows /\ q.todo = pass[w].todo /\ q.gone = pass[w].gone
    BY <1>1 DEF PassRows
  <2> HIDE DEF q
  <2> QED
    BY <1>1, <2>1, <2>2, PassGoesOn
<1>4. ASSUME pass' = [pass EXCEPT ![w] = RestingPass]
      PROVE  KnowledgeInv'
  <2>1. NoEntry \in DocRows
    BY KnowledgeAssumption DEF NoEntry, DocRows, Versions, Landlords
  <2>2. RestingPass \in PassRows /\ RestingPass.todo = {} /\ RestingPass.gone = {}
    BY <2>1, KnowledgeAssumption DEF RestingPass, PassRows, Versions, Landlords
  <2> QED
    BY <1>1, <1>4, <2>2, PassGoesOn
<1> QED
  BY <1>2, <1>3, <1>4
     DEF SkipDoc, ReplaceChunks, DeleteChunks, DocFails, PassEnds, PassDies

\* A document is written: its row and its chunks at once, or one after the other.
LEMMA WriteSteps ==
    ASSUME KnowledgeInv, NEW w \in Keepers,
           UpsertDocument(w) \/ (w = "internal" /\ WriteInternalDoc)
    PROVE  KnowledgeInv'
<1>1. /\ pass[w] \in PassRows /\ pass \in [Keepers -> PassRows]
      /\ pass[w].todo \subseteq Docs /\ UNCHANGED <<disk, ownedBy, removed>>
  BY PassTypes DEF KnowledgeInv, UpsertDocument, WriteInternalDoc
<1>2. PICK d \in pass[w].todo :
        /\ manifest' = [manifest EXCEPT ![d] = Row(w, d)]
        /\ \/ pass' = [pass EXCEPT ![w].at = "embedding", ![w].doc = {d}, ![w].todo = @ \ {d}]
           \/ pass' = [pass EXCEPT ![w].todo = @ \ {d}]
  BY DEF UpsertDocument, WriteInternalDoc, ReplaceDoc
<1> DEFINE todo == pass[w].todo \ {d}
           p == [pass[w] EXCEPT !.at = "embedding", !.doc = {d}, !.todo = todo]
           q == [pass[w] EXCEPT !.todo = todo]
<1>3. pass' = [pass EXCEPT ![w] = p] \/ pass' = [pass EXCEPT ![w] = q]
  BY <1>1, <1>2
<1>4. todo \in SUBSET Docs /\ todo \subseteq pass[w].todo /\ {d} \in SUBSET Docs
  BY <1>1
<1> HIDE DEF todo
<1>5. /\ p \in PassRows /\ p.todo = todo /\ p.gone = pass[w].gone
      /\ q \in PassRows /\ q.todo = todo /\ q.gone = pass[w].gone
  BY <1>1, <1>4 DEF PassRows
<1> HIDE DEF p, q
<1> QED
  BY <1>1, <1>2, <1>3, <1>4, <1>5, PassWrites

\* A pass tombstones a document it has found gone.
LEMMA TombstoneStep ==
    ASSUME KnowledgeInv, NEW w \in Keepers, TombstoneDocument(w)
    PROVE  KnowledgeInv'
<1>1. /\ pass[w] \in PassRows /\ pass \in [Keepers -> PassRows] /\ PassSound(w)
      /\ pass[w].todo \subseteq Docs /\ pass[w].gone \subseteq Docs
      /\ UNCHANGED <<disk, ownedBy, removed>>
  BY PassTypes DEF KnowledgeInv, TombstoneDocument
<1>2. PICK d \in pass[w].gone :
        /\ manifest' = [manifest EXCEPT ![d].status = "tombstoned"]
        /\ \/ pass' = [pass EXCEPT ![w].at = "deleting", ![w].doc = {d}, ![w].gone = @ \ {d}]
           \/ pass' = [pass EXCEPT ![w].gone = @ \ {d}]
  BY DEF TombstoneDocument
<1> DEFINE gone == pass[w].gone \ {d}
           p == [pass[w] EXCEPT !.at = "deleting", !.doc = {d}, !.gone = gone]
           q == [pass[w] EXCEPT !.gone = gone]
           row == [manifest[d] EXCEPT !.status = "tombstoned"]
<1>3. pass' = [pass EXCEPT ![w] = p] \/ pass' = [pass EXCEPT ![w] = q]
  BY <1>1, <1>2
<1>4. gone \in SUBSET Docs /\ gone \subseteq removed /\ {d} \in SUBSET Docs /\ d \in removed
  BY <1>1 DEF PassSound
<1>5. row \in DocRows /\ row.status = "tombstoned" /\ manifest' = [manifest EXCEPT ![d] = row]
  BY <1>2, <1>4 DEF KnowledgeInv, DocRows
<1> HIDE DEF gone, row
<1>6. /\ p \in PassRows /\ p.todo = pass[w].todo /\ p.gone = gone
      /\ q \in PassRows /\ q.todo = pass[w].todo /\ q.gone = gone
  BY <1>1, <1>4 DEF PassRows
<1> HIDE DEF p, q
<1>7. manifest' \in [Docs -> DocRows] /\ \A e \in Docs : DocSound(e)'
  BY <1>1, <1>4, <1>5 DEF KnowledgeInv, DocSound, WasThere
<1>8. \A e \in pass[w].todo : WasThere(e)
  BY <1>1 DEF PassSound
<1> QED
  BY <1>1, <1>3, <1>4, <1>6, <1>7, <1>8, PassMoves

\* KnowledgeInv is an invariant.
LEMMA KnowledgeInductive == KnowledgeSpec => []KnowledgeInv
<1>1. KnowledgeInit => KnowledgeInv
  <2> SUFFICES ASSUME KnowledgeInit PROVE KnowledgeInv
    OBVIOUS
  <2>1. NoEntry \in DocRows /\ NoEntry.status = "none"
    BY KnowledgeAssumption DEF NoEntry, DocRows, Versions, Landlords
  <2>2. RestingPass \in PassRows /\ RestingPass.todo = {} /\ RestingPass.gone = {}
    BY <2>1, KnowledgeAssumption DEF RestingPass, PassRows, Versions, Landlords
  <2>3. {0, 1} \subseteq Versions
    BY KnowledgeAssumption DEF Versions
  <2>4. ownedBy \in [DocSources -> Landlords] /\ disk \in [Docs -> Versions]
    BY <2>3, KnowledgeAssumption DEF KnowledgeInit, Landlords
  <2> QED
    BY <2>1, <2>2, <2>4 DEF KnowledgeInit, KnowledgeInv, PassSound, DocSound
<1>2. KnowledgeInv /\ [KnowledgeNext]_knowVars => KnowledgeInv'
  <2> SUFFICES ASSUME KnowledgeInv, [KnowledgeNext]_knowVars PROVE KnowledgeInv'
    OBVIOUS
  <2>1. CASE EditsFolder \/ Rescope
    BY <2>1, FolderStep
  <2>2. ASSUME NEW w \in Keepers, PassStep(w) \/ DocFails(w) \/ PassDies(w)
        PROVE  KnowledgeInv'
    BY <2>2, FolderScanStep, PassSteps, WriteSteps, TombstoneStep DEF PassStep
  <2>3. CASE UNCHANGED knowVars
    BY <2>3 DEF knowVars, KnowledgeInv, PassSound, DocSound, WasThere
  <2> QED
    BY <2>1, <2>2, <2>3 DEF KnowledgeNext
<1> QED
  BY <1>1, <1>2, PTL DEF KnowledgeSpec

\* Only what has been taken away is tombstoned: whatever scans come back empty or
\* short, whichever workers share the manifest, wherever a pass breaks off, and for
\* every ratio of the tombstone guard.
THEOREM NoDocumentIsLost ==
    KnowledgeSpec => []TombstonedWasGone
<1>1. KnowledgeInv => TombstonedWasGone
  BY DEF KnowledgeInv, DocSound, TombstonedWasGone
<1> QED
  BY <1>1, KnowledgeInductive, PTL

\* A pass has one document between its two halves and none else, and neither it nor what is
\* still to be written belongs to a customer that cannot be told.
PassHolds(q) ==
    /\ q.doc = {} \/ \E d \in Docs : q.doc = {d}
    /\ q.doc # {} <=> q.at \in {"embedding", "deleting"}
    /\ \A d \in q.todo : q.owners[SourceOf[d]] # Unresolved
    /\ q.at = "embedding" => \A d \in q.doc : q.owners[SourceOf[d]] # Unresolved

ChunkRows == [hash : Versions, customer : Owners]
KnowledgeBounds ==
    /\ \A d \in Docs : manifest[d].customer \in Owners
    /\ chunks \in [Docs -> ChunkRows]
    /\ \A w \in Keepers : PassHolds(pass[w])
    /\ interrupted \subseteq Docs /\ edits \in 0..MaxEdits /\ breaks \in 0..MaxBreaks

\* A pass whose lists get shorter and that lets go of its document, or stays where it is.
LEMMA PassShorter ==
    ASSUME NEW p, NEW q, PassHolds(p), q.todo \subseteq p.todo, q.owners = p.owners,
           \/ q.doc = p.doc /\ q.at = p.at
           \/ q.doc = {} /\ q.at = "writing"
    PROVE  PassHolds(q)
BY DEF PassHolds

\* What a pass writes of a document it may write.
LEMMA WrittenRows ==
    ASSUME KnowledgeInv, NEW w \in Keepers, NEW d \in Docs, pass[w].owners[SourceOf[d]] # Unresolved
    PROVE  BodyOf(w, d) \in ChunkRows /\ Row(w, d) \in DocRows /\ Row(w, d).customer \in Owners
<1>1. pass[w] \in PassRows
  BY DEF KnowledgeInv
<1>2. pass[w].seen[d] \in Versions /\ pass[w].owners[SourceOf[d]] \in Owners
  BY <1>1, PassTypes, KnowledgeAssumption DEF Landlords
<1> QED
  BY <1>2 DEF BodyOf, Row, ChunkRows, DocRows, Landlords

\* The step of one pass.
LEMMA KnowledgeGoes ==
    ASSUME KnowledgeInv, KnowledgeBounds, NEW w \in Keepers, NEW q, pass' = [pass EXCEPT ![w] = q],
           PassHolds(q), UNCHANGED edits, breaks' \in 0..MaxBreaks, interrupted' \subseteq Docs,
           \A d \in Docs : manifest'[d].customer \in Owners, chunks' \in [Docs -> ChunkRows]
    PROVE  KnowledgeBounds'
<1>1. \A v \in Keepers : pass'[v] = pass[v] \/ pass'[v] = q
  BY DEF KnowledgeInv
<1> QED
  BY <1>1 DEF KnowledgeBounds

LEMMA KnowledgeBoundsStep ==
    ASSUME KnowledgeInv, KnowledgeBounds, [KnowledgeNext]_knowVars
    PROVE  KnowledgeBounds'
<1>0. /\ manifest \in [Docs -> DocRows] /\ pass \in [Keepers -> PassRows] /\ chunks \in [Docs -> ChunkRows]
      /\ \A d \in Docs : manifest[d].customer \in Owners
      /\ MaxEdits \in Nat /\ MaxBreaks \in Nat /\ breaks \in 0..MaxBreaks /\ edits \in 0..MaxEdits
      /\ interrupted \subseteq Docs /\ ownedBy \in [DocSources -> Landlords]
  BY KnowledgeAssumption DEF KnowledgeInv, KnowledgeBounds
<1>1. ASSUME NEW w \in Keepers
      PROVE  /\ pass[w] \in PassRows /\ PassHolds(pass[w]) /\ pass[w].doc \subseteq Docs
             /\ pass[w].todo \subseteq Docs /\ pass[w].gone \subseteq Docs
  BY <1>0, PassTypes DEF KnowledgeBounds
<1>2. RestingPass.at = "idle" /\ PassHolds(RestingPass)
  BY DEF RestingPass, PassHolds
<1>3. NoChunks \in ChunkRows
  BY KnowledgeAssumption DEF NoChunks, ChunkRows, Versions
<1>4. CASE EditsFolder \/ Rescope
  <2>1. UNCHANGED <<manifest, chunks, pass, interrupted, breaks>> /\ edits < MaxEdits /\ edits' = edits + 1
    BY <1>4 DEF EditsFolder, Rescope
  <2> QED
    BY <1>0, <2>1 DEF KnowledgeBounds
<1>5. ASSUME NEW w \in Keepers, Scan(w) PROVE KnowledgeBounds'
  <2>1. /\ UNCHANGED <<manifest, chunks, interrupted, edits>>
        /\ UNCHANGED breaks \/ (breaks < MaxBreaks /\ breaks' = breaks + 1)
    BY <1>5 DEF Scan
  <2>2. PICK blank \in SUBSET {s \in DocSources : KeeperOf[s] = w /\ MayBlank(s)} :
        LET seen == [d \in Docs |-> IF d \in DocsOf(w) /\ SourceOf[d] \notin blank
                                    THEN disk[d] ELSE 0]
            taken == {d \in Docs : Sweepable(d, seen) /\ ownedBy[SourceOf[d]] # Unresolved}
            absent == {d \in taken : manifest[d].status = "active" /\ seen[d] = 0}
            refused(d) == 2 * Cardinality({e \in absent : SourceOf[e] = SourceOf[d]})
                            > TombstoneHalves * Cardinality({e \in Mates(d) : manifest[e].status = "active"})
        IN pass' = [pass EXCEPT ![w] =
                [at |-> "writing", seen |-> seen, known |-> KnownOwner(w), owners |-> ownedBy,
                 todo |-> {d \in taken : seen[d] # 0},
                 gone |-> {d \in absent : ~refused(d)}, doc |-> {}]]
    BY <1>5 DEF Scan
  <2> DEFINE seen == [d \in Docs |-> IF d \in DocsOf(w) /\ SourceOf[d] \notin blank
                                    THEN disk[d] ELSE 0]
             taken == {d \in Docs : Sweepable(d, seen) /\ ownedBy[SourceOf[d]] # Unresolved}
             absent == {d \in taken : manifest[d].status = "active" /\ seen[d] = 0}
             refused(d) == 2 * Cardinality({e \in absent : SourceOf[e] = SourceOf[d]})
                            > TombstoneHalves * Cardinality({e \in Mates(d) : manifest[e].status = "active"})
             todo == {d \in taken : seen[d] # 0}
             gone == {d \in absent : ~refused(d)}
  <2>3. pass' = [pass EXCEPT ![w] = [at |-> "writing", seen |-> seen, known |-> KnownOwner(w),
                                     owners |-> ownedBy, todo |-> todo, gone |-> gone, doc |-> {}]]
    BY <2>2
  <2>4. \A d \in todo : ownedBy[SourceOf[d]] # Unresolved
    OBVIOUS
  <2> HIDE DEF seen, todo, gone
  <2> DEFINE q == [at |-> "writing", seen |-> seen, known |-> KnownOwner(w),
                   owners |-> ownedBy, todo |-> todo, gone |-> gone, doc |-> {}]
  <2>5. PassHolds(q)
    BY <2>4 DEF PassHolds
  <2>6. pass' = [pass EXCEPT ![w] = q]
    BY <2>3
  <2> HIDE DEF q
  <2>7. breaks' \in 0..MaxBreaks
    BY <1>0, <2>1
  <2> QED
    BY <1>0, <2>1, <2>5, <2>6, <2>7, KnowledgeGoes
<1>6. ASSUME NEW w \in Keepers, SkipDoc(w) PROVE KnowledgeBounds'
  <2>1. PICK d \in pass[w].todo :
          pass' = [pass EXCEPT ![w].todo = @ \ {d}] /\ UNCHANGED <<manifest, chunks, interrupted, edits, breaks>>
    BY <1>6 DEF SkipDoc
  <2> DEFINE q == [pass[w] EXCEPT !.todo = pass[w].todo \ {d}]
  <2>2. pass' = [pass EXCEPT ![w] = q]
    BY <1>0, <2>1
  <2>3. q.todo \subseteq pass[w].todo /\ q.owners = pass[w].owners /\ q.doc = pass[w].doc /\ q.at = pass[w].at
    BY <1>1 DEF PassRows
  <2> HIDE DEF q
  <2>4. PassHolds(q)
    BY <1>1, <2>3, PassShorter
  <2> QED
    BY <1>0, <2>1, <2>2, <2>4, KnowledgeGoes
<1>7. ASSUME NEW w \in Keepers, UpsertDocument(w) PROVE KnowledgeBounds'
  <2>1. PICK d \in pass[w].todo :
          /\ manifest' = [manifest EXCEPT ![d] = Row(w, d)]
          /\ pass' = [pass EXCEPT ![w].at = "embedding", ![w].doc = {d}, ![w].todo = @ \ {d}]
          /\ UNCHANGED <<chunks, interrupted, edits, breaks>>
    BY <1>7 DEF UpsertDocument
  <2>2. d \in Docs /\ pass[w].owners[SourceOf[d]] # Unresolved
    BY <1>1 DEF PassHolds
  <2> DEFINE q == [pass[w] EXCEPT !.at = "embedding", !.doc = {d}, !.todo = pass[w].todo \ {d}]
  <2>3. pass' = [pass EXCEPT ![w] = q]
    BY <1>0, <2>1
  <2>4. q.todo \subseteq pass[w].todo /\ q.owners = pass[w].owners /\ q.doc = {d} /\ q.at = "embedding"
    BY <1>1 DEF PassRows
  <2> HIDE DEF q
  <2>5. PassHolds(q)
    BY <1>1, <2>2, <2>4 DEF PassHolds
  <2>6. \A e \in Docs : manifest'[e].customer \in Owners
    BY <1>0, <2>1, <2>2, WrittenRows
  <2> QED
    BY <1>0, <2>1, <2>3, <2>5, <2>6, KnowledgeGoes
<1>8. ASSUME NEW w \in Keepers, ReplaceChunks(w) \/ DeleteChunks(w) PROVE KnowledgeBounds'
  <2>1. PICK d \in pass[w].doc :
          /\ pass' = [pass EXCEPT ![w].at = "writing", ![w].doc = {}]
          /\ \/ pass[w].at = "embedding" /\ chunks' = [chunks EXCEPT ![d] = BodyOf(w, d)]
             \/ chunks' = [chunks EXCEPT ![d] = NoChunks]
          /\ interrupted' \subseteq interrupted /\ UNCHANGED <<manifest, edits, breaks>>
    BY <1>8 DEF ReplaceChunks, DeleteChunks
  <2>2. d \in Docs /\ (pass[w].at = "embedding" => pass[w].owners[SourceOf[d]] # Unresolved)
    BY <1>1 DEF PassHolds
  <2> DEFINE q == [pass[w] EXCEPT !.at = "writing", !.doc = {}]
  <2>3. pass' = [pass EXCEPT ![w] = q]
    BY <1>0, <2>1
  <2>4. q.todo = pass[w].todo /\ q.owners = pass[w].owners /\ q.doc = {} /\ q.at = "writing"
    BY <1>1 DEF PassRows
  <2> HIDE DEF q
  <2>5. PassHolds(q)
    BY <1>1, <2>4, PassShorter
  <2>6. chunks' \in [Docs -> ChunkRows]
    BY <1>0, <1>3, <2>1, <2>2, WrittenRows
  <2> QED
    BY <1>0, <2>1, <2>3, <2>5, <2>6, KnowledgeGoes
<1>9. CASE WriteInternalDoc
  <2> DEFINE w == "internal"
  <2>1. PICK d \in pass[w].todo :
          /\ manifest' = [manifest EXCEPT ![d] = Row(w, d)] /\ chunks' = [chunks EXCEPT ![d] = BodyOf(w, d)]
          /\ pass' = [pass EXCEPT ![w].todo = @ \ {d}] /\ UNCHANGED <<interrupted, edits, breaks>>
    BY <1>9 DEF WriteInternalDoc, ReplaceDoc
  <2>2. w \in Keepers
    BY DEF Keepers
  <2> HIDE DEF w
  <2>3. d \in Docs /\ pass[w].owners[SourceOf[d]] # Unresolved
    BY <1>1, <2>2 DEF PassHolds
  <2> DEFINE q == [pass[w] EXCEPT !.todo = pass[w].todo \ {d}]
  <2>4. pass' = [pass EXCEPT ![w] = q]
    BY <1>0, <2>1
  <2>5. q.todo \subseteq pass[w].todo /\ q.owners = pass[w].owners /\ q.doc = pass[w].doc /\ q.at = pass[w].at
    BY <1>1, <2>2 DEF PassRows
  <2> HIDE DEF q
  <2>6. PassHolds(q)
    BY <1>1, <2>2, <2>5, PassShorter
  <2>7. BodyOf(w, d) \in ChunkRows /\ Row(w, d).customer \in Owners
    BY <2>2, <2>3, WrittenRows
  <2>8. (\A e \in Docs : manifest'[e].customer \in Owners) /\ chunks' \in [Docs -> ChunkRows]
    BY <1>0, <2>1, <2>3, <2>7
  <2> QED
    BY <1>0, <2>1, <2>2, <2>4, <2>6, <2>8, KnowledgeGoes
<1>10. ASSUME NEW w \in Keepers, DocFails(w) PROVE KnowledgeBounds'
  <2>1. /\ UNCHANGED <<manifest, chunks, edits>> /\ breaks < MaxBreaks /\ breaks' = breaks + 1
        /\ \E d \in pass[w].doc \cup pass[w].todo :
             /\ interrupted' \subseteq interrupted \cup {d}
             /\ \/ pass' = [pass EXCEPT ![w].at = "writing", ![w].doc = {}]
                \/ pass' = [pass EXCEPT ![w].todo = @ \ {d}]
    BY <1>10 DEF DocFails
  <2>2. PICK d \in pass[w].doc \cup pass[w].todo :
             /\ interrupted' \subseteq interrupted \cup {d}
             /\ \/ pass' = [pass EXCEPT ![w].at = "writing", ![w].doc = {}]
                \/ pass' = [pass EXCEPT ![w].todo = @ \ {d}]
    BY <2>1
  <2> DEFINE back == [pass[w] EXCEPT !.at = "writing", !.doc = {}]
             less == [pass[w] EXCEPT !.todo = pass[w].todo \ {d}]
  <2>3. pass' = [pass EXCEPT ![w] = back] \/ pass' = [pass EXCEPT ![w] = less]
    BY <1>0, <2>2
  <2>4. /\ back.todo = pass[w].todo /\ back.owners = pass[w].owners /\ back.doc = {} /\ back.at = "writing"
        /\ less.todo \subseteq pass[w].todo /\ less.owners = pass[w].owners
        /\ less.doc = pass[w].doc /\ less.at = pass[w].at
    BY <1>1 DEF PassRows
  <2> HIDE DEF back, less
  <2>5. PassHolds(back) /\ PassHolds(less)
    BY <1>1, <2>4, PassShorter
  <2>6. d \in Docs /\ breaks' \in 0..MaxBreaks
    BY <1>0, <1>1, <2>1
  <2>7. interrupted' \subseteq Docs
    BY <1>0, <2>2, <2>6
  <2> QED
    BY <1>0, <2>1, <2>3, <2>5, <2>6, <2>7, KnowledgeGoes
<1>11. ASSUME NEW w \in Keepers, TombstoneDocument(w) PROVE KnowledgeBounds'
  <2>1. PICK d \in pass[w].gone :
          /\ pass[w].at = "writing" /\ manifest' = [manifest EXCEPT ![d].status = "tombstoned"]
          /\ \/ /\ chunks' = [chunks EXCEPT ![d] = NoChunks]
                /\ pass' = [pass EXCEPT ![w].gone = @ \ {d}]
             \/ /\ pass' = [pass EXCEPT ![w].at = "deleting", ![w].doc = {d}, ![w].gone = @ \ {d}]
                /\ UNCHANGED chunks
          /\ UNCHANGED <<interrupted, edits, breaks>>
    BY <1>11 DEF TombstoneDocument
  <2>2. d \in Docs
    BY <1>1
  <2> DEFINE less == [pass[w] EXCEPT !.gone = pass[w].gone \ {d}]
             del == [pass[w] EXCEPT !.at = "deleting", !.doc = {d}, !.gone = pass[w].gone \ {d}]
  <2>3. pass' = [pass EXCEPT ![w] = less] \/ pass' = [pass EXCEPT ![w] = del]
    BY <1>0, <2>1
  <2>4. /\ less.todo = pass[w].todo /\ less.owners = pass[w].owners
        /\ less.doc = pass[w].doc /\ less.at = pass[w].at
        /\ del.todo = pass[w].todo /\ del.owners = pass[w].owners /\ del.doc = {d} /\ del.at = "deleting"
    BY <1>1 DEF PassRows
  <2> HIDE DEF less, del
  <2>5. PassHolds(less)
    BY <1>1, <2>4, PassShorter
  <2>6. PassHolds(del)
    BY <1>1, <2>2, <2>4 DEF PassHolds
  <2>7. \A e \in Docs : manifest'[e].customer \in Owners
    BY <1>0, <2>1 DEF DocRows
  <2>8. chunks' \in [Docs -> ChunkRows]
    BY <1>0, <1>3, <2>1
  <2> QED
    BY <1>0, <2>1, <2>3, <2>5, <2>6, <2>7, <2>8, KnowledgeGoes
<1>12. ASSUME NEW w \in Keepers, PassEnds(w) \/ PassDies(w) PROVE KnowledgeBounds'
  <2>1. /\ pass' = [pass EXCEPT ![w] = RestingPass] /\ UNCHANGED <<manifest, chunks, edits>>
        /\ interrupted' \in {interrupted, interrupted \cup pass[w].doc}
        /\ UNCHANGED breaks \/ (breaks < MaxBreaks /\ breaks' = breaks + 1)
    BY <1>12 DEF PassEnds, PassDies
  <2>2. breaks' \in 0..MaxBreaks /\ interrupted' \subseteq Docs
    BY <1>0, <1>1, <2>1
  <2> QED
    BY <1>0, <1>2, <2>1, <2>2, KnowledgeGoes
<1>13. CASE UNCHANGED knowVars
  BY <1>13 DEF knowVars, KnowledgeBounds
<1> QED
  BY <1>4, <1>5, <1>6, <1>7, <1>8, <1>9, <1>10, <1>11, <1>12, <1>13 DEF KnowledgeNext, PassStep

\* The folders, the manifest, the chunks and the passes stay what they are; in particular no row
\* and no chunk is ever written for a customer that cannot be told.
THEOREM KnowledgeTypesHold == KnowledgeSpec => []KnowledgeTypeOK
<1>1. KnowledgeInit => KnowledgeBounds
  BY KnowledgeAssumption DEF KnowledgeInit, KnowledgeBounds, PassHolds, RestingPass, NoChunks, NoEntry,
                             ChunkRows, Versions
<1>2. KnowledgeInv /\ KnowledgeBounds /\ [KnowledgeNext]_knowVars => KnowledgeBounds'
  BY KnowledgeBoundsStep
<1>3. KnowledgeInv /\ KnowledgeBounds => KnowledgeTypeOK
  <2> SUFFICES ASSUME KnowledgeInv, KnowledgeBounds PROVE KnowledgeTypeOK
    OBVIOUS
  <2>1. ASSUME NEW w \in Keepers
        PROVE  /\ pass[w].at \in {"idle", "writing", "embedding", "deleting"}
               /\ pass[w].todo \cup pass[w].gone \cup pass[w].doc \subseteq Docs
               /\ (pass[w].at \in {"embedding", "deleting"}) <=> (Cardinality(pass[w].doc) = 1)
    <3>1. pass[w] \in PassRows /\ PassHolds(pass[w])
      BY DEF KnowledgeInv, KnowledgeBounds
    <3>2. Cardinality({}) = 0 /\ \A d \in Docs : Cardinality({d}) = 1
      BY FS_EmptySet, FS_Singleton
    <3>3. (pass[w].doc # {}) <=> (Cardinality(pass[w].doc) = 1)
      BY <3>1, <3>2 DEF PassHolds
    <3> QED
      BY <3>1, <3>3, PassTypes DEF PassHolds, PassRows
  <2>2. ASSUME NEW d \in Docs
        PROVE  /\ manifest[d].status \in {"none", "active", "tombstoned"}
               /\ manifest[d].hash \in Versions /\ manifest[d].customer \in Owners
               /\ chunks[d].hash \in Versions /\ chunks[d].customer \in Owners
    BY DEF KnowledgeInv, KnowledgeBounds, DocRows, ChunkRows
  <2> QED
    BY <2>1, <2>2 DEF KnowledgeInv, KnowledgeBounds, KnowledgeTypeOK, Landlords
<1> QED
  BY <1>1, <1>2, <1>3, KnowledgeInductive, PTL DEF KnowledgeSpec

-----------------------------------------------------------------------------
(* Commitments.                                                              *)

PromiseRows == [who : Promisees, from : SUBSET SentMessages, status : {"open", "resolved"}]
Scans == [at : {"idle", "extract", "save"}, rows : SUBSET SentMessages, left : SUBSET Promisees,
          failed : BOOLEAN]

\* A scan has the first rows behind the watermark, but for those that committed too late
\* for it, and has extracted those of the customers it is done with, unless one failed.
ScanSound ==
    /\ scan.rows \subseteq visible
    /\ scan.at = "save" => scan.left = {}
    /\ scan.at # "idle" =>
          /\ watermark # NotSeeded /\ scan.rows # {}
          /\ \A m \in scan.rows : m > watermark
          /\ \A m \in visible, k \in scan.rows :
                m > watermark /\ m <= k => m \in scan.rows \cup overtaken
          /\ ~scan.failed => \A m \in scan.rows : Promisee[m] \in scan.left \/ m \in extracted

CommitmentsInv ==
    /\ CommitmentsTypeOK /\ promises \subseteq PromiseRows /\ ScanSound

LEMMA CommitmentFacts ==
    ASSUME CommitmentsInv
    PROVE  /\ visible \subseteq SentMessages /\ watermark \in Nat /\ watermark <= NotSeeded
           /\ promises \subseteq PromiseRows /\ scan \in Scans
           /\ scan.at \in {"idle", "extract", "save"} /\ scan.rows \subseteq SentMessages
           /\ scan.left \subseteq Promisees /\ scan.failed \in BOOLEAN
           /\ extracted \subseteq SentMessages /\ overtaken \subseteq SentMessages
           /\ outages \in 0..MaxOutages /\ SentMessages \subseteq Nat \ {0} /\ Sent \in Nat
           /\ MaxOutages \in Nat /\ NotSeeded = Sent + 1 /\ NotSeeded \in Nat
<1>1. scan \in Scans
  BY DEF CommitmentsInv, CommitmentsTypeOK, Scans
<1> QED
  BY <1>1, CommitmentsAssumption DEF CommitmentsInv, CommitmentsTypeOK, Scans, NotSeeded, SentMessages

\* The greatest of a set of messages.
LEMMA LatestOf ==
    ASSUME NEW S \in SUBSET SentMessages, S # {}
    PROVE  \E m \in S : \A k \in S : k <= m
<1> DEFINE T == {Sent - m : m \in S}
<1>1. T \in SUBSET Nat /\ T # {}
  <2>1. Sent \in Nat
    BY CommitmentsAssumption
  <2>2. \A m \in 1..Sent : Sent - m \in Nat
    BY <2>1
  <2>3. S \subseteq 1..Sent
    BY DEF SentMessages
  <2>4. \A m \in S : Sent - m \in Nat
    BY <2>2, <2>3
  <2>5. T \in SUBSET Nat
    BY <2>4
  <2>6. T # {}
    OBVIOUS
  <2> QED
    BY <2>5, <2>6
<1> HIDE DEF T
<1>2. PICK t \in T : \A u \in T : t <= u
  BY <1>1, LeastOf
<1>3. PICK m \in S : t = Sent - m
  BY DEF T
<1>4. ASSUME NEW k \in S PROVE k <= m
  <2>1. Sent - k \in T
    BY DEF T
  <2>2. Sent - m <= Sent - k
    BY <1>2, <1>3, <2>1
  <2> QED
    BY <2>2, CommitmentsAssumption DEF SentMessages
<1> QED
  BY <1>4

LEMMA CommitStep ==
    ASSUME CommitmentsInv, MessageCommits
    PROVE  CommitmentsInv'
<1>1. PICK m \in SentMessages \ visible :
          /\ visible' = visible \cup {m}
          /\ overtaken' = IF \E k \in visible : k > m THEN overtaken \cup {m} ELSE overtaken
  BY DEF MessageCommits
<1>2. UNCHANGED <<watermark, promises, scan, extracted, outages>>
  BY DEF MessageCommits
<1>3. overtaken \subseteq overtaken' /\ overtaken' \subseteq SentMessages
  BY <1>1, CommitmentFacts
<1>4. \A k \in scan.rows : m <= k => m \in overtaken'
  <2>1. ASSUME NEW k \in scan.rows, m <= k PROVE m \in overtaken'
    <3>1. k \in visible /\ k # m /\ k \in Nat /\ m \in Nat
      BY <1>1, CommitmentFacts DEF CommitmentsInv, ScanSound
    <3> QED
      BY <1>1, <2>1, <3>1
  <2> QED
    BY <2>1
<1>5. ScanSound'
  BY <1>1, <1>2, <1>3, <1>4 DEF CommitmentsInv, ScanSound, NotSeeded
<1>6. CommitmentsTypeOK' /\ promises' \subseteq PromiseRows
  BY <1>1, <1>2, <1>3 DEF CommitmentsInv, CommitmentsTypeOK
<1> QED
  BY <1>5, <1>6 DEF CommitmentsInv

\* What follows from the fields of a scan for its type.
LEMMA ScanTypes ==
    ASSUME CommitmentsInv, scan' \in Scans, watermark' \in 0..NotSeeded, promises' \subseteq PromiseRows,
           extracted' \subseteq SentMessages, outages' \in 0..MaxOutages, UNCHANGED <<visible, overtaken>>
    PROVE  CommitmentsTypeOK'
<1>1. \A p \in promises' : p.who \in Promisees /\ p.from \subseteq SentMessages /\ p.status \in {"open", "resolved"}
  BY DEF PromiseRows
<1> QED
  BY <1>1 DEF CommitmentsInv, CommitmentsTypeOK, Scans

LEMMA SeedMarkStep ==
    ASSUME CommitmentsInv, SeedWatermark
    PROVE  CommitmentsInv'
<1> DEFINE P(n) == (\A m \in visible : m <= n) /\ (n = 0 \/ n \in visible)
<1>1. \E n \in 0..Sent : P(n)
  <2>1. CASE visible = {}
    <3>1. 0 \in 0..Sent /\ P(0)
      BY <2>1, CommitmentFacts
    <3> QED
      BY <3>1
  <2>2. CASE visible # {}
    <3>1. PICK m \in visible : \A k \in visible : k <= m
      BY <2>2, CommitmentFacts, LatestOf
    <3>2. m \in 0..Sent /\ P(m)
      BY <3>1, CommitmentFacts DEF SentMessages
    <3> QED
      BY <3>2
  <2> QED
    BY <2>1, <2>2
<1>2. UNCHANGED <<visible, promises, scan, extracted, overtaken, outages>> /\ scan = NoScan
      /\ watermark' = CHOOSE n \in 0..Sent : P(n)
  BY DEF SeedWatermark
<1> HIDE DEF P
<1>3. watermark' \in 0..Sent
  BY <1>1, <1>2
<1>4. watermark' \in 0..NotSeeded
  BY <1>3, CommitmentFacts
<1>5. CommitmentsTypeOK'
  BY <1>2, <1>4, CommitmentFacts, ScanTypes
<1>6. ScanSound'
  BY <1>2 DEF ScanSound, NoScan, CommitmentsInv
<1> QED
  BY <1>2, <1>5, <1>6 DEF CommitmentsInv

LEMMA ReadSentStep ==
    ASSUME CommitmentsInv, ReadSent
    PROVE  CommitmentsInv'
<1> DEFINE fresh == {m \in visible : m > watermark}
           Place(m) == {k \in fresh : k < m}
           first == {m \in fresh : Cardinality(Place(m)) < BatchLimit}
           left == {Promisee[m] : m \in first}
<1>1. /\ scan' = [at |-> "extract", rows |-> first, left |-> left, failed |-> FALSE]
      /\ first # {} /\ watermark # NotSeeded /\ UNCHANGED <<visible, watermark, promises, extracted, overtaken, outages>>
  BY DEF ReadSent
<1>2. fresh \subseteq SentMessages /\ first \subseteq fresh /\ IsFiniteSet(SentMessages) /\ IsFiniteSet(fresh)
  <2>1. IsFiniteSet(SentMessages)
    BY FS_Interval, CommitmentsAssumption DEF SentMessages
  <2> QED
    BY <2>1, FS_Subset, CommitmentFacts
<1>3. ASSUME NEW m \in visible, NEW k \in first, m > watermark, m <= k PROVE m \in first
  <2>1. m \in fresh /\ k \in fresh /\ m \in Nat /\ k \in Nat
    BY <1>3, CommitmentFacts
  <2>2. Place(m) \subseteq Place(k)
    <3>1. ASSUME NEW j \in fresh, j < m PROVE j < k
      BY <1>2, <1>3, <2>1, <3>1, CommitmentFacts
    <3> QED
      BY <3>1
  <2>3. IsFiniteSet(Place(k))
    BY <1>2, FS_Subset
  <2>4. Cardinality(Place(k)) < BatchLimit
    OBVIOUS
  <2> HIDE DEF Place
  <2>5. Cardinality(Place(m)) <= Cardinality(Place(k)) /\ Cardinality(Place(m)) \in Nat
        /\ Cardinality(Place(k)) \in Nat
    BY <2>2, <2>3, FS_Subset, FS_CardinalityType
  <2>6. Cardinality(Place(m)) < BatchLimit
    BY <2>4, <2>5, CommitmentsAssumption
  <2> QED
    BY <2>1, <2>6
<1>4. \A m \in first : m \in visible /\ m > watermark /\ Promisee[m] \in left
  OBVIOUS
<1>5. left \subseteq Promisees /\ first \subseteq SentMessages
  BY <1>2 DEF Promisees
<1> HIDE DEF first, left, fresh
<1>6. scan' \in Scans
  BY <1>1, <1>5 DEF Scans
<1>7. CommitmentsTypeOK'
  BY <1>1, <1>6, CommitmentFacts, ScanTypes
<1>8. ScanSound'
  BY <1>1, <1>3, <1>4 DEF ScanSound, NotSeeded
<1> QED
  BY <1>1, <1>7, <1>8 DEF CommitmentsInv

\* A customer is done with, extracted or not.
LEMMA DoneWithStep ==
    ASSUME CommitmentsInv, NEW c \in Promisees, NEW failed \in BOOLEAN, DoneWith(c, failed),
           scan.at = "extract", UNCHANGED <<visible, watermark, overtaken>>,
           promises' \subseteq PromiseRows, extracted \subseteq extracted', extracted' \subseteq SentMessages,
           ~failed => RowsOf(c) \subseteq extracted', outages' \in 0..MaxOutages
    PROVE  CommitmentsInv'
<1> DEFINE left == scan.left \ {c}
           bad == scan.failed \/ failed
           at == IF scan.left = {c} THEN "save" ELSE "extract"
<1>1. scan' = [scan EXCEPT !.left = left, !.failed = bad, !.at = at]
  BY DEF DoneWith
<1>2. left \subseteq Promisees /\ bad \in BOOLEAN /\ at \in {"save", "extract"} /\ (at = "save" => left = {})
  BY CommitmentFacts
<1>3. ASSUME ~bad, NEW m \in scan.rows PROVE Promisee[m] \in left \/ m \in extracted'
  BY <1>3 DEF CommitmentsInv, ScanSound, RowsOf
<1> HIDE DEF left, bad, at
<1>4. scan' \in Scans /\ scan'.at = at /\ scan'.rows = scan.rows /\ scan'.left = left /\ scan'.failed = bad
  BY <1>1, <1>2, CommitmentFacts DEF Scans
<1>5. CommitmentsTypeOK'
  BY <1>4, CommitmentFacts, ScanTypes
<1>6. ScanSound'
  BY <1>2, <1>3, <1>4 DEF CommitmentsInv, ScanSound, NotSeeded
<1> QED
  BY <1>5, <1>6 DEF CommitmentsInv

LEMMA ExtractStep ==
    ASSUME CommitmentsInv, NEW c \in Promisees, ExtractCustomer(c) \/ ExtractionFails(c)
    PROVE  CommitmentsInv'
<1>1. RowsOf(c) \subseteq SentMessages
  BY CommitmentFacts DEF RowsOf
<1>2. CASE ExtractCustomer(c)
  <2>1. Promise(c) \in PromiseRows
    BY <1>1, CommitmentFacts DEF Promise, OpenFor, PromiseRows
  <2>2. promises' \subseteq PromiseRows
    BY <1>2, <2>1, CommitmentFacts DEF ExtractCustomer
  <2> QED
    BY <1>1, <1>2, <2>2, CommitmentFacts, DoneWithStep DEF ExtractCustomer
<1>3. CASE ExtractionFails(c)
  <2>1. /\ DoneWith(c, TRUE) /\ scan.at = "extract" /\ outages < MaxOutages /\ outages' = outages + 1
        /\ UNCHANGED <<visible, watermark, promises, extracted, overtaken>>
    BY <1>3 DEF ExtractionFails
  <2>2. outages' \in 0..MaxOutages
    BY <2>1, CommitmentFacts
  <2> QED
    BY <2>1, <2>2, CommitmentFacts, DoneWithStep
<1> QED
  BY <1>2, <1>3

\* The save of a watermark, which the whole batch stands behind.
LEMMA SaveStep ==
    ASSUME CommitmentsInv, SaveWatermark
    PROVE  /\ CommitmentsInv'
           /\ watermark' >= watermark
           /\ \A m \in visible : m > watermark /\ m <= watermark' => m \in extracted \cup overtaken
<1>1. /\ scan.at = "save" /\ scan' = NoScan /\ UNCHANGED <<visible, promises, extracted, overtaken, outages>>
      /\ watermark' = IF scan.failed THEN watermark
                      ELSE CHOOSE m \in scan.rows : \A k \in scan.rows : k <= m
  BY DEF SaveWatermark
<1>2. PICK x \in scan.rows : \A k \in scan.rows : k <= x
  BY <1>1, CommitmentFacts, LatestOf DEF CommitmentsInv, ScanSound
<1>3. CASE ~scan.failed
  <2>1. watermark' \in scan.rows
    BY <1>1, <1>2, <1>3
  <2>2. watermark' > watermark /\ watermark' \in SentMessages
    BY <1>1, <2>1, CommitmentFacts DEF CommitmentsInv, ScanSound
  <2>3. \A m \in scan.rows : m \in extracted
    BY <1>1, <1>3 DEF CommitmentsInv, ScanSound
  <2>4. \A m \in visible : m > watermark /\ m <= watermark' => m \in extracted \cup overtaken
    BY <1>1, <2>1, <2>3 DEF CommitmentsInv, ScanSound
  <2>5. watermark' \in 0..NotSeeded /\ watermark' >= watermark
    BY <2>2, CommitmentFacts DEF SentMessages
  <2> QED
    BY <1>1, <2>4, <2>5 DEF CommitmentsInv, CommitmentsTypeOK, ScanSound, NoScan
<1>4. CASE scan.failed
  BY <1>1, <1>4, CommitmentFacts DEF CommitmentsInv, CommitmentsTypeOK, ScanSound, NoScan
<1> QED
  BY <1>3, <1>4, CommitmentFacts

LEMMA OtherCommitmentSteps ==
    ASSUME CommitmentsInv, ExtractorDies \/ ResolvePromise
    PROVE  CommitmentsInv'
<1>1. CASE ExtractorDies
  <2>1. scan' = NoScan /\ UNCHANGED <<visible, watermark, promises, extracted, overtaken>>
        /\ outages' \in 0..MaxOutages
    BY <1>1, CommitmentFacts DEF ExtractorDies
  <2> QED
    BY <2>1 DEF CommitmentsInv, CommitmentsTypeOK, ScanSound, NoScan
<1>2. CASE ResolvePromise
  <2>1. PICK p \in promises : promises' = (promises \ {p}) \cup {[p EXCEPT !.status = "resolved"]}
    BY <1>2 DEF ResolvePromise
  <2>2. [p EXCEPT !.status = "resolved"] \in PromiseRows
    BY CommitmentFacts DEF PromiseRows
  <2>3. promises' \subseteq PromiseRows
    BY <2>1, <2>2, CommitmentFacts
  <2>4. UNCHANGED <<visible, watermark, scan, extracted, overtaken, outages>>
    BY <1>2 DEF ResolvePromise
  <2>5. CommitmentsTypeOK'
    BY <2>3, <2>4, CommitmentFacts, ScanTypes
  <2> QED
    BY <2>3, <2>4, <2>5 DEF CommitmentsInv, ScanSound, NotSeeded
<1> QED
  BY <1>1, <1>2

LEMMA CommitmentsInductive == CommitmentsSpec => []CommitmentsInv
<1>1. CommitmentsInit => CommitmentsInv
  <2>1. NoScan \in Scans
    BY DEF NoScan, Scans
  <2> QED
    BY <2>1, CommitmentsAssumption DEF CommitmentsInit, CommitmentsInv, CommitmentsTypeOK, ScanSound, NoScan, NotSeeded, Scans
<1>2. CommitmentsInv /\ [CommitmentsNext]_commitVars => CommitmentsInv'
  <2> SUFFICES ASSUME CommitmentsInv, [CommitmentsNext]_commitVars PROVE CommitmentsInv'
    OBVIOUS
  <2>1. CASE UNCHANGED commitVars
    BY <2>1 DEF commitVars, CommitmentsInv, CommitmentsTypeOK, ScanSound, NotSeeded
  <2>2. CASE CommitmentsNext
    BY <2>2, CommitStep, SeedMarkStep, ReadSentStep, SaveStep, ExtractStep, OtherCommitmentSteps
       DEF CommitmentsNext, ScanStep
  <2> QED
    BY <2>1, <2>2
<1> QED
  BY <1>1, <1>2, PTL DEF CommitmentsSpec

\* The ledger of promises stays within its types, for any customers, batches and failures.
THEOREM CommitmentTypes == CommitmentsSpec => []CommitmentsTypeOK
<1>1. CommitmentsInv => CommitmentsTypeOK
  BY DEF CommitmentsInv
<1> QED
  BY <1>1, CommitmentsInductive, PTL

\* The watermark passes over no message whose promises were not asked for, but for one that
\* committed after a row with a higher id, whatever fails, and never goes back.
THEOREM NoPromiseIsPassed == CommitmentsSpec => WatermarkPassesNothing
<1> DEFINE Passes == watermark # NotSeeded =>
              /\ watermark' >= watermark
              /\ \A m \in visible : m > watermark /\ m <= watermark' => m \in extracted \cup overtaken
<1>1. ASSUME CommitmentsInv, CommitmentsNext PROVE Passes
  <2>1. CASE UNCHANGED watermark
    BY <1>1, <2>1, CommitmentFacts
  <2>2. CASE SeedWatermark
    BY <2>2 DEF SeedWatermark
  <2>3. CASE SaveWatermark
    BY <1>1, <2>3, SaveStep
  <2> QED
    BY <1>1, <2>1, <2>2, <2>3 DEF CommitmentsNext, ScanStep, MessageCommits, ReadSent, ExtractCustomer,
                                  ExtractionFails, ExtractorDies, ResolvePromise
<1>2. CommitmentsInv /\ [CommitmentsNext]_commitVars => [Passes]_commitVars
  BY <1>1
<1> QED
  BY <1>2, CommitmentsInductive, PTL DEF CommitmentsSpec, WatermarkPassesNothing

===============================================================================
