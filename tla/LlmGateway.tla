----------------------------- MODULE LlmGateway -----------------------------
(***************************************************************************)
(* The model gateway: the daily budget in PostgreSQL                        *)
(* (src/src/adapters/llm/llm-budget.ts), the provider chain of a structured *)
(* call (llm-router.ts) and the agentic query loop (agentic-loop.ts).       *)
(*                                                                         *)
(* A client is one call of the router in one process of the service.        *)
(* Transactions run under READ COMMITTED: an UPDATE that has to wait for    *)
(* the budget row sees the newest version of that row, but its subqueries   *)
(* keep the snapshot the statement began with.  Money is counted in whole   *)
(* units, and the day does not change.                                      *)
(***************************************************************************)
EXTENDS Naturals

CONSTANTS
    Clients,        \* concurrent calls of the router
    Unlocked,       \* the holder of a budget row nobody has locked
    DailyCap,       \* LLM_DAILY_COST_CAP_USD
    Prices,         \* maximumCostUsd of a request
    ChainLength,    \* providers in the fallback chain
    MaxModelTurns,       \* agentic.maxIterations
    QueryCeiling,   \* agentic.maxCostUsd
    MaxCalls,       \* bound of the model: calls of the router
    MaxEmbeddings,  \* bound of the model: costs recorded by the embedder
    MaxDeaths       \* bound of the model: processes that die in a call

ASSUME UnlockedAssumption == Unlocked \notin Clients
ASSUME GatewayLimits ==
    /\ DailyCap \in Nat /\ Prices \subseteq Nat \ {0} /\ ChainLength \in Nat \ {0}
    /\ MaxModelTurns \in Nat /\ QueryCeiling \in Nat
    /\ MaxCalls \in Nat /\ MaxEmbeddings \in Nat /\ MaxDeaths \in Nat

VARIABLES
    spent,      \* llm_daily_budgets.spent_usd of today
    reserved,   \* llm_daily_budgets.reserved_usd of today
    rowLock,    \* the transaction that has updated the budget row
    costs,      \* sum of today's llm_costs rows
    forfeited,  \* sum of the forfeited reservations
    open,       \* sum of the reservations with status 'reserved'
    client,     \* where each call is
    burned,     \* history: what the providers have really charged to calls
    raced,      \* history: a reservation had to wait for the row
    calls, embeddings, deaths

budgetRow == <<spent, reserved, rowLock>>
ledger == <<costs, forfeited, open>>
gatewayBounds == <<calls, embeddings, deaths>>
gatewayVars == <<budgetRow, ledger, client, burned, raced, gatewayBounds>>

GatewayStage == {"idle", "reserve", "await", "check", "provider", "bill", "commit"}
Purpose == {"none", "structured", "gather", "close"}
ClientResting == [at |-> "idle", for |-> "none", left |-> 0, price |-> 0, cost |-> 0,
            seen |-> 0, total |-> 0, ok |-> FALSE]

LlmTypeOK ==
    /\ spent \in Nat /\ reserved \in Nat
    /\ rowLock \in Clients \cup {Unlocked}
    /\ costs \in Nat /\ forfeited \in Nat /\ open \in Nat
    /\ client \in [Clients -> [at : GatewayStage, for : Purpose,
                               left : 0..(ChainLength + MaxModelTurns),
                               price : Prices \cup {0}, cost : Nat, seen : Nat,
                               total : Nat, ok : BOOLEAN]]
    /\ \A c \in Clients : client[c].for = "structured" => client[c].left <= ChainLength
    /\ burned \in Nat /\ raced \in BOOLEAN
    /\ calls \in 0..MaxCalls /\ embeddings \in 0..MaxEmbeddings
    /\ deaths \in 0..MaxDeaths

LlmInit ==
    /\ spent = 0 /\ reserved = 0 /\ rowLock = Unlocked
    /\ costs = 0 /\ forfeited = 0 /\ open = 0
    /\ client = [c \in Clients |-> ClientResting]
    /\ burned = 0 /\ raced = FALSE
    /\ calls = 0 /\ embeddings = 0 /\ deaths = 0

-----------------------------------------------------------------------------
Is(c, stage) == client[c].at = stage
Move(c, stage) == client' = [client EXCEPT ![c].at = stage]
Rest(c) == client' = [client EXCEPT ![c] = ClientResting]

\* Mutant of ChainFor: the preferred provider comes again in the fallbacks.
ChainTwice == ChainLength + 1

\* The preferred provider and the fallback chain, without duplicates.
ChainFor == ChainLength

\* The next budgeted call of client c: another provider, turn or purpose.
Ask(c, purpose, left, total) ==
    \E p \in Prices :
        client' = [client EXCEPT ![c] =
            [ClientResting EXCEPT !.at = "reserve", !.for = purpose, !.left = left,
                            !.price = p, !.total = total]]

\* callStructured: extractIntents, draftReply, synthesizeAnswer and the others
StartStructured(c) ==
    /\ Is(c, "idle") /\ calls < MaxCalls
    /\ calls' = calls + 1
    /\ Ask(c, "structured", ChainFor, 0)
    /\ UNCHANGED <<budgetRow, ledger, burned, raced, embeddings, deaths>>

\* The loop's turns on the first provider of the chain that has tools; with no
\* turn to take it closes at once.
StartAgentic(c) ==
    /\ Is(c, "idle") /\ calls < MaxCalls
    /\ calls' = calls + 1
    /\ \/ MaxModelTurns > 0 /\ Ask(c, "gather", MaxModelTurns, 0)
       \/ MaxModelTurns = 0 /\ Ask(c, "close", 1, 0)
    /\ UNCHANGED <<budgetRow, ledger, burned, raced, embeddings, deaths>>

-----------------------------------------------------------------------------
(* reserve                                                                  *)

\* Mutant of Recompute: the transaction's own reading of the committed spend
\* leaves the forfeited reservations out.
RecomputeCosts == costs

\* The sources the spend is rebuilt from, as the statement's snapshot has them
Recompute == costs + forfeited

\* the UPDATE gets the row
ReserveAtOnce(c) ==
    /\ Is(c, "reserve") /\ rowLock = Unlocked
    /\ rowLock' = c
    /\ client' = [client EXCEPT ![c].at = "check", ![c].seen = Recompute]
    /\ UNCHANGED <<spent, reserved, ledger, burned, raced, gatewayBounds>>

\* the UPDATE waits, with the snapshot it began with
ReserveWaits(c) ==
    /\ Is(c, "reserve") /\ rowLock # Unlocked
    /\ client' = [client EXCEPT ![c].at = "await", ![c].seen = Recompute]
    /\ raced' = TRUE
    /\ UNCHANGED <<budgetRow, ledger, burned, gatewayBounds>>

ReserveResumes(c) ==
    /\ Is(c, "await") /\ rowLock = Unlocked
    /\ rowLock' = c
    /\ Move(c, "check")
    /\ UNCHANGED <<spent, reserved, ledger, burned, raced, gatewayBounds>>

Fits(c) == client[c].seen + reserved + client[c].price <= DailyCap

Reserve(c) ==
    /\ Is(c, "check") /\ Fits(c)
    /\ spent' = client[c].seen
    /\ reserved' = reserved + client[c].price
    /\ open' = open + client[c].price
    /\ rowLock' = Unlocked
    /\ Move(c, "provider")
    /\ UNCHANGED <<costs, forfeited, burned, raced, gatewayBounds>>

\* A budgeted call that throws: a structured call of the cap or of accounting
\* is over, and the agentic loop turns every throw into the single-shot engine.
Thrown(c) ==
    \/ client[c].for = "structured" /\ Rest(c)
    \/ client[c].for \in {"gather", "close"} /\ Ask(c, "structured", ChainFor, 0)

\* ROLLBACK, CostCapExceeded
OverCap(c) ==
    /\ Is(c, "check") /\ ~Fits(c)
    /\ rowLock' = Unlocked
    /\ Thrown(c)
    /\ UNCHANGED <<spent, reserved, ledger, burned, raced, gatewayBounds>>

-----------------------------------------------------------------------------
(* The provider, then settle or forfeit                                     *)

\* An answer, or an error or timeout after which the provider may still charge.
ProviderReturns(c) ==
    /\ Is(c, "provider")
    /\ \E cost \in 0..client[c].price, ok \in BOOLEAN :
        /\ client' = [client EXCEPT ![c].at = "bill", ![c].cost = cost, ![c].ok = ok]
        /\ burned' = burned + cost
    /\ UNCHANGED <<budgetRow, ledger, raced, gatewayBounds>>

\* the reservation's own row, then the budget row
Bill(c) ==
    /\ Is(c, "bill") /\ rowLock = Unlocked
    /\ rowLock' = c
    /\ Move(c, "commit")
    /\ UNCHANGED <<spent, reserved, ledger, burned, raced, gatewayBounds>>

\* After settle: a valid answer ends a structured call, an invalid one goes on
\* to the next provider; a turn goes on while the model asks for tools, turns
\* are left and the query's ceiling is not reached, and then closes.
Settled(c) ==
    LET total == client[c].total + client[c].cost IN
    \/ client[c].for \in {"structured", "close"} /\ Rest(c)
    \/ /\ client[c].for = "structured" /\ client[c].left > 1
       /\ Ask(c, "structured", client[c].left - 1, 0)
    \/ client[c].for = "close" /\ Ask(c, "structured", ChainFor, 0)
    \/ /\ client[c].for = "gather" /\ client[c].left > 1 /\ total < QueryCeiling
       /\ Ask(c, "gather", client[c].left - 1, total)
    \/ client[c].for = "gather" /\ Ask(c, "close", 1, total)

\* After forfeit: the next provider, or every provider has failed.
Failed(c) ==
    \/ /\ client[c].for = "structured" /\ client[c].left > 1
       /\ Ask(c, "structured", client[c].left - 1, 0)
    \/ client[c].for = "structured" /\ client[c].left = 1 /\ Rest(c)
    \/ client[c].for \in {"gather", "close"} /\ Ask(c, "structured", ChainFor, 0)

Release(c) ==
    /\ reserved' = IF reserved < client[c].price THEN 0 ELSE reserved - client[c].price
    /\ open' = open - client[c].price
    /\ rowLock' = Unlocked

SettleCall(c) ==
    /\ Is(c, "commit") /\ client[c].ok
    /\ Release(c)
    /\ spent' = spent + client[c].cost
    /\ costs' = costs + client[c].cost
    /\ Settled(c)
    /\ UNCHANGED <<forfeited, burned, raced, gatewayBounds>>

Forfeit(c) ==
    /\ Is(c, "commit") /\ ~client[c].ok
    /\ Release(c)
    /\ spent' = spent + client[c].price
    /\ forfeited' = forfeited + client[c].price
    /\ Failed(c)
    /\ UNCHANGED <<costs, burned, raced, gatewayBounds>>

\* settle or forfeit throws and rolls back: the reservation stays charged
AccountingFails(c) ==
    /\ client[c].at \in {"bill", "commit"}
    /\ deaths < MaxDeaths
    /\ deaths' = deaths + 1
    /\ rowLock' = IF rowLock = c THEN Unlocked ELSE rowLock
    /\ Thrown(c)
    /\ UNCHANGED <<spent, reserved, ledger, burned, raced, calls, embeddings>>

\* The process dies, its session's transaction is rolled back.
ClientDies(c) ==
    /\ ~Is(c, "idle")
    /\ deaths < MaxDeaths
    /\ deaths' = deaths + 1
    /\ rowLock' = IF rowLock = c THEN Unlocked ELSE rowLock
    /\ Rest(c)
    /\ UNCHANGED <<spent, reserved, ledger, burned, raced, calls, embeddings>>

\* The embeddings client writes its cost with no reservation.
RecordEmbedding ==
    /\ embeddings < MaxEmbeddings
    /\ embeddings' = embeddings + 1
    /\ costs' = costs + 1
    /\ UNCHANGED <<budgetRow, forfeited, open, client, burned, raced, calls, deaths>>

-----------------------------------------------------------------------------
Proceed(c) ==
    \/ ReserveAtOnce(c) \/ ReserveWaits(c) \/ ReserveResumes(c)
    \/ Reserve(c) \/ OverCap(c) \/ ProviderReturns(c) \/ Bill(c)
    \/ SettleCall(c) \/ Forfeit(c)

LlmNext ==
    \/ \E c \in Clients :
        \/ StartStructured(c) \/ StartAgentic(c) \/ Proceed(c)
        \/ AccountingFails(c) \/ ClientDies(c)
    \/ RecordEmbedding

LlmSpec == LlmInit /\ [][LlmNext]_gatewayVars

-----------------------------------------------------------------------------
\* What today's calls have cost or may still cost
Charged == (costs - embeddings) + forfeited + open

\* reserved_usd is kept by relative updates of a row that reserve rewrites
\* after a wait: over crashes, rollbacks and waits it is the sum of the
\* reservations that are open.
ReservedIsOpen == reserved = open

\* "a process crash leaves the reservation charged; ambiguous failures forfeit":
\* whatever a provider has charged for a call is covered by a usage row, a
\* forfeited or an open reservation, so a failure never hides money from the cap.
SpendIsCovered == burned <= Charged

\* As long as no reservation had to wait for the row the cap is hard: spend,
\* forfeits and open reservations together stay under it.
CapHoldsUnraced == raced \/ Charged <= DailyCap

\* The books of the day are right: nothing open is forgotten, nothing charged is
\* hidden, and the cap binds whoever reads the row at once.
BudgetIsSound == ReservedIsOpen /\ SpendIsCovered /\ CapHoldsUnraced

\* "PostgreSQL-backed hard cap. The budget row is locked while reserve/settle
\* mutates it": what the day's calls may cost never exceeds the cap.
HardCap == Charged <= DailyCap

=============================================================================
