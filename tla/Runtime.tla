-------------------------------- MODULE Runtime --------------------------------
(***************************************************************************)
(* The life of a process of the service: it migrates the schema             *)
(* (db/migrate.ts), starts its workers (workers/worker-runner.ts, some of   *)
(* them under a lease of runtime/advisory-worker.ts), answers requests, and  *)
(* stops (runtime/graceful-shutdown.ts).  Several processes, of different    *)
(* releases, share one database.                                            *)
(*                                                                         *)
(* Delays are left out: a timer that is armed may fire.  So are the         *)
(* statuses the health report draws from the ticks.                         *)
(***************************************************************************)
EXTENDS Naturals, Sequences, FiniteSets

CONSTANTS
    Hosts,       \* processes
    Chores,      \* workers
    Singletons,  \* the ones under an advisory lease
    Releases,    \* each a function from migration versions to texts
    MaxBoots,    \* bound of the model: starts of a process
    MaxCuts      \* bound of the model: connections that break under a lease

ASSUME RuntimeAssumption == Singletons \subseteq Chores /\ MaxBoots \in Nat /\ MaxCuts \in Nat
ASSUME ReleaseVersions == \A r \in Releases : DOMAIN r \subseteq Nat

VARIABLES
    migrated,      \* schema_migrations: the text of each applied version
    effects,     \* what was done to the schema, in order
    turnkey,     \* who holds the migration lock
    lease,       \* who holds the lease of each singleton
    stage,       \* off, locking, reading, applying, up, stopping, closed
    release,     \* the release each process runs
    applied,     \* the versions a process found in the ledger
    working,        \* each worker: idle, armed, busy
    serving,     \* whether a request is being answered
    boots, cuts

runtimeVars == <<migrated, effects, turnkey, lease, stage, release, applied, working, serving, boots, cuts>>

Nobody == "nobody"

ASSUME NobodyAssumption == Nobody \notin Hosts

RuntimeInit ==
    /\ migrated = <<>> /\ effects = <<>> /\ turnkey = Nobody
    /\ lease = [w \in Singletons |-> Nobody]
    /\ stage = [h \in Hosts |-> "off"] /\ release \in [Hosts -> Releases]
    /\ applied = [h \in Hosts |-> {}]
    /\ working = [h \in Hosts |-> [w \in Chores |-> "idle"]]
    /\ serving = [h \in Hosts |-> FALSE]
    /\ boots = 0 /\ cuts = 0

\* A process that ends takes its sessions, hence its locks, its timers and its ticks along.
EndsProcess(h) ==
    /\ stage' = [stage EXCEPT ![h] = "off"]
    /\ turnkey' = IF turnkey = h THEN Nobody ELSE turnkey
    /\ lease' = [w \in Singletons |-> IF lease[w] = h THEN Nobody ELSE lease[w]]
    /\ working' = [working EXCEPT ![h] = [w \in Chores |-> "idle"]]
    /\ serving' = [serving EXCEPT ![h] = FALSE]

-----------------------------------------------------------------------------
(* runMigrations                                                            *)

Boot(h) ==
    /\ stage[h] = "off" /\ boots < MaxBoots /\ boots' = boots + 1
    /\ \E r \in Releases : release' = [release EXCEPT ![h] = r]
    /\ stage' = [stage EXCEPT ![h] = "locking"]
    /\ UNCHANGED <<migrated, effects, turnkey, lease, applied, working, serving, cuts>>

TakeTurn(h) ==
    /\ stage[h] = "locking" /\ turnkey = Nobody
    /\ turnkey' = h /\ stage' = [stage EXCEPT ![h] = "reading"]
    /\ UNCHANGED <<migrated, effects, lease, release, applied, working, serving, boots, cuts>>

\* every applied migration is in this release, as it was when it was applied
MatchesRecord(h) == \A v \in DOMAIN migrated : v \in DOMAIN release[h] /\ migrated[v] = release[h][v]

ReadLedger(h) ==
    /\ stage[h] = "reading"
    /\ \/ /\ MatchesRecord(h)
          /\ applied' = [applied EXCEPT ![h] = DOMAIN migrated]
          /\ stage' = [stage EXCEPT ![h] = "applying"]
          /\ UNCHANGED <<turnkey, lease, working, serving>>
       \/ /\ ~MatchesRecord(h)
          /\ EndsProcess(h) /\ UNCHANGED applied
    /\ UNCHANGED <<migrated, effects, release, boots, cuts>>

Todo(h) == DOMAIN release[h] \ applied[h]
First(S) == CHOOSE v \in S : \A u \in S : v <= u
InOrder(v, S) == \A u \in S : u <= v

\* Mutant of ApplyNext: the file is committed before it is recorded, and the
\* process may die in between.
ApplyThenRecord(h) ==
    /\ stage[h] = "applying" /\ Todo(h) # {}
    /\ LET v == First(Todo(h)) IN
        /\ v \notin DOMAIN migrated /\ InOrder(v, applied[h])
        /\ effects' = Append(effects, v)
        /\ \/ /\ migrated' = [u \in DOMAIN migrated \cup {v} |-> release[h][u]]
              /\ applied' = [applied EXCEPT ![h] = @ \cup {v}]
              /\ UNCHANGED <<turnkey, lease, stage, working, serving>>
           \/ EndsProcess(h) /\ UNCHANGED <<migrated, applied>>
    /\ UNCHANGED <<release, boots, cuts>>

\* The next file and its row of the ledger, in one transaction.  A version below
\* the highest one there, a row that is there by now, or SQL that fails: the
\* transaction is rolled back, the lock let go, and the process exits.
ApplyNext(h) ==
    /\ stage[h] = "applying" /\ Todo(h) # {}
    /\ LET v == First(Todo(h)) IN
        \/ /\ v \notin DOMAIN migrated /\ InOrder(v, applied[h])
           /\ effects' = Append(effects, v)
           /\ migrated' = [u \in DOMAIN migrated \cup {v} |->
                            IF u = v THEN release[h][v] ELSE migrated[u]]
           /\ applied' = [applied EXCEPT ![h] = @ \cup {v}]
           /\ UNCHANGED <<turnkey, lease, stage, working, serving>>
        \/ EndsProcess(h) /\ UNCHANGED <<migrated, effects, applied>>
    /\ UNCHANGED <<release, boots, cuts>>

\* the lock is let go, the workers are started and the signals are listened for
StartUp(h) ==
    /\ stage[h] = "applying" /\ Todo(h) = {}
    /\ turnkey' = IF turnkey = h THEN Nobody ELSE turnkey
    /\ stage' = [stage EXCEPT ![h] = "up"]
    /\ working' = [working EXCEPT ![h] = [w \in Chores |-> "armed"]]
    /\ UNCHANGED <<migrated, effects, lease, release, applied, serving, boots, cuts>>

-----------------------------------------------------------------------------
(* startWorker, withAdvisoryWorkerLock                                      *)

\* the timer fires; a singleton somebody holds is left for the next time
TickStarts(h, w) ==
    /\ working[h][w] = "armed"
    /\ \/ /\ w \in Singletons /\ lease[w] = Nobody
          /\ lease' = [lease EXCEPT ![w] = h]
          /\ working' = [working EXCEPT ![h][w] = "busy"]
       \/ /\ w \notin Singletons
          /\ working' = [working EXCEPT ![h][w] = "busy"] /\ UNCHANGED lease
    /\ UNCHANGED <<migrated, effects, turnkey, stage, release, applied, serving, boots, cuts>>

\* well, badly or aborted: the lease goes, and only a worker that was not stopped goes on
TickEnds(h, w) ==
    /\ working[h][w] = "busy"
    /\ working' = [working EXCEPT ![h][w] = IF stage[h] = "up" THEN "armed" ELSE "idle"]
    /\ lease' = IF w \in Singletons /\ lease[w] = h THEN [lease EXCEPT ![w] = Nobody] ELSE lease
    /\ UNCHANGED <<migrated, effects, turnkey, stage, release, applied, serving, boots, cuts>>

\* the connection that holds the lease breaks, and the tick does not learn of it
LeaseBreaks(h, w) ==
    /\ working[h][w] = "busy" /\ lease[w] = h
    /\ cuts < MaxCuts /\ cuts' = cuts + 1
    /\ lease' = [lease EXCEPT ![w] = Nobody]
    /\ UNCHANGED <<migrated, effects, turnkey, stage, release, applied, working, serving, boots>>

RequestComes(h) ==
    /\ stage[h] = "up" /\ ~serving[h]
    /\ serving' = [serving EXCEPT ![h] = TRUE]
    /\ UNCHANGED <<migrated, effects, turnkey, lease, stage, release, applied, working, boots, cuts>>

RequestGoes(h) ==
    /\ serving[h]
    /\ serving' = [serving EXCEPT ![h] = FALSE]
    /\ UNCHANGED <<migrated, effects, turnkey, lease, stage, release, applied, working, boots, cuts>>

-----------------------------------------------------------------------------
(* installGracefulShutdown                                                  *)

\* every worker is stopped: its timer is cleared, its tick asked to abort
Signal(h) ==
    /\ stage[h] = "up"
    /\ stage' = [stage EXCEPT ![h] = "stopping"]
    /\ working' = [working EXCEPT ![h] = [w \in Chores |-> IF @[w] = "armed" THEN "idle" ELSE @[w]]]
    /\ UNCHANGED <<migrated, effects, turnkey, lease, release, applied, serving, boots, cuts>>

\* the server and every active tick have settled: the pool is closed
CloseResources(h) ==
    /\ stage[h] = "stopping" /\ ~serving[h]
    /\ \A w \in Chores : working[h][w] # "busy"
    /\ stage' = [stage EXCEPT ![h] = "closed"]
    /\ UNCHANGED <<migrated, effects, turnkey, lease, release, applied, working, serving, boots, cuts>>

\* the process exits when all is closed or the grace period is over, and may die
\* at any moment: a second signal finds no handler
Exit(h) ==
    /\ stage[h] # "off" /\ EndsProcess(h)
    /\ UNCHANGED <<migrated, effects, release, applied, boots, cuts>>

-----------------------------------------------------------------------------
RuntimeNext ==
    \E h \in Hosts :
        \/ Boot(h) \/ TakeTurn(h) \/ ReadLedger(h) \/ ApplyNext(h) \/ StartUp(h)
        \/ RequestComes(h) \/ RequestGoes(h)
        \/ Signal(h) \/ CloseResources(h) \/ Exit(h)
        \/ \E w \in Chores : TickStarts(h, w) \/ TickEnds(h, w)
        \/ \E w \in Singletons : LeaseBreaks(h, w)

RuntimeSpec == RuntimeInit /\ [][RuntimeNext]_runtimeVars

-----------------------------------------------------------------------------
\* The values the ledger, the locks and the processes may hold.
RuntimeTypeOK ==
    /\ stage \in [Hosts -> {"off", "locking", "reading", "applying", "up", "stopping", "closed"}]
    /\ release \in [Hosts -> Releases]
    /\ working \in [Hosts -> [Chores -> {"idle", "armed", "busy"}]]
    /\ turnkey \in Hosts \cup {Nobody}
    /\ lease \in [Singletons -> Hosts \cup {Nobody}]
    /\ serving \in [Hosts -> BOOLEAN]

\* Whatever releases boot together, die on the way and come back, each migration
\* takes effect once, in the order of the versions, and is in the ledger.
AppliedInOrder ==
    /\ \A i, j \in DOMAIN effects : i < j => effects[i] < effects[j]
    /\ DOMAIN migrated = {effects[i] : i \in DOMAIN effects}

\* The database of a process is closed under no tick and no request of its own,
\* and none starts afterwards.
ClosedIsIdle ==
    \A h \in Hosts : stage[h] = "closed" =>
        ~serving[h] /\ \A w \in Chores : working[h][w] = "idle"

\* advisory-worker.ts: no two processes run a singleton at a time, while no
\* connection broke under its lease.
AloneUntilCut ==
    cuts = 0 => \A w \in Singletons : Cardinality({h \in Hosts : working[h][w] = "busy"}) <= 1

\* Replicas that boot, run and stop side by side stay out of each other's way.
ReplicasAreOrderly == AppliedInOrder /\ ClosedIsIdle /\ AloneUntilCut

================================================================================
