---------------------------- MODULE ServiceProofs ----------------------------
(***************************************************************************)
(* Theorems about what serves the rest: the gateway to the models           *)
(* (LlmGateway), for any number of concurrent calls and any prices, and the *)
(* processes (Runtime), for any number of them, of workers and of releases. *)
(* The two share no variable.                                               *)
(***************************************************************************)
EXTENDS LlmGateway, Runtime, FiniteSetTheorems, WellFoundedInduction, TLAPS

-----------------------------------------------------------------------------
(* LlmGateway.  What the calls hold of the budget together is a sum over    *)
(* the calls; it is counted here as a set of units, one for each unit of    *)
(* money a call holds, so that a step adds or removes the units of one call.*)

\* The units of the amounts f: the pairs of a call and a number up to its amount.
Units(f) == {u \in Clients \X (Nat \ {0}) : u[2] <= f[u[1]]}

\* What a call has reserved, and what it was charged and has not settled yet.
held == [c \in Clients |->
    IF client[c].at \in {"provider", "bill", "commit"} THEN client[c].price ELSE 0]
owed == [c \in Clients |->
    IF client[c].at \in {"bill", "commit"} THEN client[c].cost ELSE 0]

\* One transaction has updated the budget row: the one that holds its lock.
LockInv == \A c \in Clients : client[c].at \in {"check", "commit"} <=> rowLock = c

\* No provider charges more than the reservation.
CostInv == \A c \in Clients : client[c].at \in {"bill", "commit"} => client[c].cost <= client[c].price

\* What the calls hold is part of the open reservations - the rest was left by
\* calls that died - and what was charged and is on no row yet is held.
HeldInv ==
    /\ IsFiniteSet(Units(held)) /\ IsFiniteSet(Units(owed))
    /\ Cardinality(Units(held)) <= open
    /\ burned + embeddings + Cardinality(Units(held))
            <= costs + forfeited + open + Cardinality(Units(owed))

\* Unless a call waited for the row, the spend it goes by is today's.
SeenInv ==
    /\ embeddings <= costs
    /\ ~raced => \A c \in Clients :
        /\ client[c].at # "await"
        /\ client[c].at = "check" => costs + forfeited <= client[c].seen + embeddings

\* The whole inductive invariant.
BudgetInv ==
    LlmTypeOK /\ LockInv /\ CostInv /\ HeldInv /\ SeenInv /\ ReservedIsOpen /\ CapHoldsUnraced

-----------------------------------------------------------------------------
(* Lemmas about the units.                                                   *)

\* Giving a call another amount trades its units for as many as the amount has.
LEMMA UnitsMove ==
    ASSUME NEW f \in [Clients -> Nat], NEW c \in Clients, NEW n \in Nat,
           IsFiniteSet(Units(f))
    PROVE  /\ IsFiniteSet(Units([f EXCEPT ![c] = n]))
           /\ Cardinality(Units([f EXCEPT ![c] = n])) = Cardinality(Units(f)) - f[c] + n
           /\ Cardinality(Units(f)) >= f[c]
           /\ Cardinality(Units(f)) \in Nat
<1> DEFINE g == [f EXCEPT ![c] = n]
           Mine(k) == {c} \X (1..k)
<1>1. ASSUME NEW k \in Nat
      PROVE  IsFiniteSet(Mine(k)) /\ Cardinality(Mine(k)) = k
  <2>1. IsFiniteSet({c}) /\ Cardinality({c}) = 1
    BY FS_Singleton
  <2>2. IsFiniteSet(1..k) /\ Cardinality(1..k) = k
    BY FS_Interval
  <2>3. IsFiniteSet(Mine(k)) /\ Cardinality(Mine(k)) = 1 * k
    BY <2>1, <2>2, FS_Product
  <2> QED
    BY <2>3
<1> DEFINE Others == Units(f) \ Mine(f[c])
<1>2. f[c] \in Nat
  OBVIOUS
<1>3. Mine(f[c]) \subseteq Units(f)
  BY <1>2 DEF Units
<1>4. Units(f) \cap Mine(f[c]) = Mine(f[c])
  BY <1>3
<1>5. /\ IsFiniteSet(Others) /\ Cardinality(Others) = Cardinality(Units(f)) - f[c]
      /\ Cardinality(Units(f)) \in Nat /\ Cardinality(Others) \in Nat
  <2> HIDE DEF Mine
  <2>1. IsFiniteSet(Others) /\ Cardinality(Others) = Cardinality(Units(f)) - Cardinality(Mine(f[c]))
    BY <1>4, FS_Difference
  <2>2. Cardinality(Others) \in Nat /\ Cardinality(Units(f)) \in Nat
    BY <2>1, FS_CardinalityType
  <2> QED
    BY <1>1, <1>2, <2>1, <2>2
<1>6. Units(g) = Others \cup Mine(n)
  <2>1. ASSUME NEW x \in Clients, NEW k \in Nat \ {0}
        PROVE  <<x, k>> \in Units(g) <=> <<x, k>> \in Others \cup Mine(n)
    <3>1. <<x, k>> \in Units(g) <=> k <= g[x]
      BY DEF Units
    <3>2. <<x, k>> \in Units(f) <=> k <= f[x]
      BY DEF Units
    <3>3. \A m \in Nat : <<x, k>> \in Mine(m) <=> x = c /\ k <= m
      OBVIOUS
    <3> QED
      BY <1>2, <3>1, <3>2, <3>3
  <2>2. Units(g) \subseteq Clients \X (Nat \ {0})
    BY DEF Units
  <2>3. Others \cup Mine(n) \subseteq Clients \X (Nat \ {0})
    BY DEF Units
  <2> HIDE DEF Others, Mine, g
  <2>4. ASSUME NEW u \in Clients \X (Nat \ {0})
        PROVE  u \in Units(g) <=> u \in Others \cup Mine(n)
    <3>1. PICK x \in Clients, k \in Nat \ {0} : u = <<x, k>>
      OBVIOUS
    <3> QED
      BY <2>1, <3>1
  <2> QED
    BY <2>2, <2>3, <2>4
<1>7. Others \cap Mine(n) = {}
  BY <1>2 DEF Units
<1>8. IsFiniteSet(Mine(n)) /\ Cardinality(Mine(n)) = n
  BY <1>1
<1> HIDE DEF Others, Mine
<1>9. /\ IsFiniteSet(Others \cup Mine(n))
      /\ Cardinality(Others \cup Mine(n)) = Cardinality(Others) + n
  <2>1. /\ IsFiniteSet(Others \cup Mine(n))
        /\ Cardinality(Others \cup Mine(n))
              = Cardinality(Others) + Cardinality(Mine(n)) - Cardinality(Others \cap Mine(n))
    BY <1>5, <1>8, FS_Union
  <2>2. Cardinality(Others \cap Mine(n)) = 0
    BY <1>7, FS_EmptySet
  <2> QED
    BY <1>5, <1>8, <2>1, <2>2
<1>10. /\ IsFiniteSet(Units(g))
       /\ Cardinality(Units(g)) = Cardinality(Units(f)) - f[c] + n
  <2>1. IsFiniteSet(Units(g)) /\ Cardinality(Units(g)) = Cardinality(Others) + n
    BY <1>6, <1>9
  <2> QED
    BY <1>5, <2>1
<1>11. Cardinality(Units(f)) >= f[c]
  BY <1>2, <1>5
<1> QED
  BY <1>5, <1>10, <1>11

\* Lower amounts have no more units.
LEMMA UnitsFewer ==
    ASSUME NEW f \in [Clients -> Nat], NEW g \in [Clients -> Nat],
           \A c \in Clients : f[c] <= g[c], IsFiniteSet(Units(g))
    PROVE  Cardinality(Units(f)) <= Cardinality(Units(g))
<1>1. Units(f) \subseteq Units(g)
  BY DEF Units
<1> QED
  BY <1>1, FS_Subset

\* No amounts, no units.
LEMMA NoUnits ==
    ASSUME NEW f \in [Clients -> {0}]
    PROVE  IsFiniteSet(Units(f)) /\ Cardinality(Units(f)) = 0
<1>1. Units(f) = {}
  BY DEF Units
<1> QED
  BY <1>1, FS_EmptySet

-----------------------------------------------------------------------------
(* What the steps do to the call that takes them.                            *)

USE GatewayLimits, UnlockedAssumption

CallRecords == [at : GatewayStage, for : Purpose, left : 0..(ChainLength + MaxModelTurns),
                price : Prices \cup {0}, cost : Nat, seen : Nat, total : Nat, ok : BOOLEAN]

\* What a call in progress is made of.
LEMMA CallsTyped == LlmTypeOK => client \in [Clients -> CallRecords]
BY DEF LlmTypeOK, CallRecords

LEMMA CallFields ==
    ASSUME NEW r \in CallRecords
    PROVE  /\ r.at \in GatewayStage /\ r.for \in Purpose
           /\ r.left \in 0..(ChainLength + MaxModelTurns)
           /\ r.price \in Nat /\ r.price \in Prices \cup {0}
           /\ r.cost \in Nat /\ r.seen \in Nat /\ r.total \in Nat /\ r.ok \in BOOLEAN
<1>1. /\ r.at \in GatewayStage /\ r.for \in Purpose
      /\ r.left \in 0..(ChainLength + MaxModelTurns) /\ r.price \in Prices \cup {0}
      /\ r.cost \in Nat /\ r.seen \in Nat /\ r.total \in Nat /\ r.ok \in BOOLEAN
  BY DEF CallRecords
<1>2. ASSUME NEW p \in Prices \cup {0} PROVE p \in Nat
  OBVIOUS
<1> QED
  BY <1>1, <1>2

\* A call is left as a record that the types allow, and no other call moves.
CallTurns(c, r) ==
    /\ r \in CallRecords /\ (r.for = "structured" => r.left <= ChainLength)
    /\ client' = [client EXCEPT ![c] = r]

\* The record a call starts from.
LEMMA RestingRecord ==
    ClientResting \in CallRecords /\ ClientResting.at = "idle" /\ ClientResting.for = "none"
<1>1. 0 \in 0..(ChainLength + MaxModelTurns)
  OBVIOUS
<1> QED
  BY <1>1 DEF ClientResting, CallRecords, GatewayStage, Purpose

\* A call ends, or goes on to ask for the next reservation.
Away(c) == \E r : CallTurns(c, r) /\ r.at \in {"idle", "reserve"}

\* Resting, asking for an attempt, and what follows an attempt lead to one of the two.
LEMMA RestIs ==
    ASSUME NEW c \in Clients, Rest(c)
    PROVE  Away(c)
BY RestingRecord DEF Rest, Away, CallTurns

LEMMA AskIs ==
    ASSUME NEW c \in Clients, NEW purpose \in Purpose, NEW total \in Nat,
           NEW left \in 0..(ChainLength + MaxModelTurns),
           purpose = "structured" => left <= ChainLength, Ask(c, purpose, left, total)
    PROVE  Away(c)
<1>1. PICK p \in Prices :
          client' = [client EXCEPT ![c] =
            [ClientResting EXCEPT !.at = "reserve", !.for = purpose, !.left = left,
                            !.price = p, !.total = total]]
  BY DEF Ask
<1> DEFINE r == [ClientResting EXCEPT !.at = "reserve", !.for = purpose, !.left = left,
                                      !.price = p, !.total = total]
<1>2. r \in CallRecords /\ r.at = "reserve" /\ r.for = purpose /\ r.left = left
  <2>1. ClientResting \in CallRecords /\ "reserve" \in GatewayStage
    BY RestingRecord DEF GatewayStage
  <2> QED
    BY <2>1 DEF CallRecords
<1> HIDE DEF r
<1> QED
  BY <1>1, <1>2 DEF Away, CallTurns, r

LEMMA StartIs ==
    ASSUME NEW c \in Clients, StartStructured(c) \/ StartAgentic(c)
    PROVE  Away(c)
<1>1. /\ ChainLength \in 0..(ChainLength + MaxModelTurns) /\ 1 \in 0..(ChainLength + MaxModelTurns)
      /\ MaxModelTurns \in 0..(ChainLength + MaxModelTurns)
      /\ "structured" \in Purpose /\ "gather" \in Purpose /\ "close" \in Purpose
  BY DEF Purpose
<1>2. CASE StartStructured(c)
  BY <1>1, <1>2, AskIs DEF StartStructured, ChainFor
<1>3. CASE StartAgentic(c)
  BY <1>1, <1>3, AskIs DEF StartAgentic
<1> QED
  BY <1>2, <1>3

LEMMA OnwardIs ==
    ASSUME LlmTypeOK, NEW c \in Clients, Thrown(c) \/ Settled(c) \/ Failed(c)
    PROVE  Away(c)
<1>1. /\ ChainLength \in 0..(ChainLength + MaxModelTurns) /\ 1 \in 0..(ChainLength + MaxModelTurns)
      /\ "structured" \in Purpose /\ "gather" \in Purpose /\ "close" \in Purpose
  BY DEF Purpose
<1>2. /\ client[c].left \in 0..(ChainLength + MaxModelTurns)
      /\ client[c].total + client[c].cost \in Nat
      /\ client[c].for = "structured" => client[c].left <= ChainLength
  BY CallsTyped, CallFields DEF LlmTypeOK
<1>3. client[c].left > 1 => /\ client[c].left - 1 \in 0..(ChainLength + MaxModelTurns)
                            /\ client[c].left - 1 <= client[c].left
                            /\ client[c].for = "structured" => client[c].left - 1 <= ChainLength
  BY <1>2
<1>4. CASE Thrown(c)
  BY <1>1, <1>4, AskIs, RestIs DEF Thrown, ChainFor
<1>5. CASE Settled(c)
  BY <1>1, <1>2, <1>3, <1>5, AskIs, RestIs DEF Settled, ChainFor
<1>6. CASE Failed(c)
  BY <1>1, <1>2, <1>3, <1>6, AskIs, RestIs DEF Failed, ChainFor
<1> QED
  BY <1>4, <1>5, <1>6

\* The types of the calls after a turn.
LEMMA TurnTypes ==
    ASSUME LlmTypeOK, NEW c \in Clients, NEW r, CallTurns(c, r)
    PROVE  /\ client' \in [Clients -> CallRecords] /\ client'[c] = r
           /\ \A x \in Clients \ {c} : client'[x] = client[x]
           /\ \A x \in Clients : client'[x].for = "structured" => client'[x].left <= ChainLength
<1>1. client \in [Clients -> CallRecords]
  BY CallsTyped
<1>2. /\ client' \in [Clients -> CallRecords] /\ client'[c] = r
      /\ \A x \in Clients \ {c} : client'[x] = client[x]
  BY <1>1 DEF CallTurns
<1> QED
  BY <1>2 DEF CallTurns, LlmTypeOK

\* The steps that do not end a call.
LEMMA StageTurns ==
    ASSUME LlmTypeOK, NEW c \in Clients, NEW next \in GatewayStage, NEW n \in Nat,
           NEW b \in BOOLEAN
    PROVE  /\ Move(c, next) => CallTurns(c, [client[c] EXCEPT !.at = next])
           /\ client' = [client EXCEPT ![c].at = next, ![c].seen = n] =>
                CallTurns(c, [client[c] EXCEPT !.at = next, !.seen = n])
           /\ client' = [client EXCEPT ![c].at = next, ![c].cost = n, ![c].ok = b] =>
                CallTurns(c, [client[c] EXCEPT !.at = next, !.cost = n, !.ok = b])
<1>1. client \in [Clients -> CallRecords] /\ client[c] \in CallRecords
  BY CallsTyped
<1>2. client[c].for = "structured" => client[c].left <= ChainLength
  BY DEF LlmTypeOK
<1>3. ASSUME NEW r \in CallRecords, r = client[c]
      PROVE  /\ [r EXCEPT !.at = next] \in CallRecords
             /\ [r EXCEPT !.at = next, !.seen = n] \in CallRecords
             /\ [r EXCEPT !.at = next, !.cost = n, !.ok = b] \in CallRecords
  BY DEF CallRecords
<1>4. ASSUME NEW r \in CallRecords
      PROVE  /\ [r EXCEPT !.at = next].for = r.for /\ [r EXCEPT !.at = next].left = r.left
             /\ [r EXCEPT !.at = next, !.seen = n].for = r.for
             /\ [r EXCEPT !.at = next, !.seen = n].left = r.left
             /\ [r EXCEPT !.at = next, !.cost = n, !.ok = b].for = r.for
             /\ [r EXCEPT !.at = next, !.cost = n, !.ok = b].left = r.left
  BY DEF CallRecords
<1> QED
  BY <1>1, <1>2, <1>3, <1>4 DEF CallTurns, Move

\* A call goes on to a stage with this cost and this reading of the spend.
CallGoesOn(c, next, cost, seen) ==
    \E r : /\ CallTurns(c, r) /\ r.at = next
           /\ r.price = client[c].price /\ r.cost = cost /\ r.seen = seen

\* The three forms in which the actions write it.
LEMMA StageIs ==
    ASSUME LlmTypeOK, NEW c \in Clients, NEW next \in GatewayStage, NEW n \in Nat,
           NEW b \in BOOLEAN
    PROVE  /\ Move(c, next) => CallGoesOn(c, next, client[c].cost, client[c].seen)
           /\ client' = [client EXCEPT ![c].at = next, ![c].seen = n] =>
                CallGoesOn(c, next, client[c].cost, n)
           /\ client' = [client EXCEPT ![c].at = next, ![c].cost = n, ![c].ok = b] =>
                CallGoesOn(c, next, n, client[c].seen)
<1>1. client[c] \in CallRecords
  BY CallsTyped
<1>2. ASSUME Move(c, next)
      PROVE  CallGoesOn(c, next, client[c].cost, client[c].seen)
  <2> DEFINE r == [client[c] EXCEPT !.at = next]
  <2>1. CallTurns(c, r)
    BY <1>2, StageTurns
  <2> HIDE DEF r
  <2>2. r = [client[c] EXCEPT !.at = next]
    BY DEF r
  <2>3. r.at = next /\ r.price = client[c].price /\ r.cost = client[c].cost /\ r.seen = client[c].seen
    BY <1>1, <2>2 DEF CallRecords
  <2> QED
    BY <2>1, <2>3 DEF CallGoesOn
<1>3. ASSUME client' = [client EXCEPT ![c].at = next, ![c].seen = n]
      PROVE  CallGoesOn(c, next, client[c].cost, n)
  <2> DEFINE r == [client[c] EXCEPT !.at = next, !.seen = n]
  <2>1. CallTurns(c, r)
    BY <1>3, StageTurns
  <2> HIDE DEF r
  <2>2. r = [client[c] EXCEPT !.at = next, !.seen = n]
    BY DEF r
  <2>3. r.at = next /\ r.price = client[c].price /\ r.cost = client[c].cost /\ r.seen = n
    BY <1>1, <2>2 DEF CallRecords
  <2> QED
    BY <2>1, <2>3 DEF CallGoesOn
<1>4. ASSUME client' = [client EXCEPT ![c].at = next, ![c].cost = n, ![c].ok = b]
      PROVE  CallGoesOn(c, next, n, client[c].seen)
  <2> DEFINE r == [client[c] EXCEPT !.at = next, !.cost = n, !.ok = b]
  <2>1. CallTurns(c, r)
    BY <1>4, StageTurns
  <2> HIDE DEF r
  <2>2. r = [client[c] EXCEPT !.at = next, !.cost = n, !.ok = b]
    BY DEF r
  <2>3. r.at = next /\ r.price = client[c].price /\ r.cost = n /\ r.seen = client[c].seen
    BY <1>1, <2>2 DEF CallRecords
  <2> QED
    BY <2>1, <2>3 DEF CallGoesOn
<1> QED
  BY <1>2, <1>3, <1>4

LEMMA MoveIs ==
    ASSUME LlmTypeOK, NEW c \in Clients, NEW next \in GatewayStage, Move(c, next)
    PROVE  CallGoesOn(c, next, client[c].cost, client[c].seen)
<1>1. ASSUME NEW n \in Nat, NEW b \in BOOLEAN
      PROVE  CallGoesOn(c, next, client[c].cost, client[c].seen)
  BY StageIs
<1> QED
  BY <1>1

-----------------------------------------------------------------------------
(* The books after a turn of a call.                                         *)

\* What is held and what is owed are amounts.
LEMMA AmountTypes ==
    LlmTypeOK => held \in [Clients -> Nat] /\ owed \in [Clients -> Nat]
<1> SUFFICES ASSUME LlmTypeOK PROVE held \in [Clients -> Nat] /\ owed \in [Clients -> Nat]
  OBVIOUS
<1>1. \A c \in Clients : client[c].price \in Nat /\ client[c].cost \in Nat
  BY CallsTyped, CallFields
<1> QED
  BY <1>1 DEF held, owed

\* Only the amounts of the call that turns change.
LEMMA AmountsMove ==
    ASSUME LlmTypeOK, NEW c \in Clients, NEW r, CallTurns(c, r)
    PROVE  LET h == IF r.at \in {"provider", "bill", "commit"} THEN r.price ELSE 0
               o == IF r.at \in {"bill", "commit"} THEN r.cost ELSE 0
           IN  /\ h \in Nat /\ o \in Nat
               /\ held' = [held EXCEPT ![c] = h] /\ owed' = [owed EXCEPT ![c] = o]
<1> DEFINE h == IF r.at \in {"provider", "bill", "commit"} THEN r.price ELSE 0
           o == IF r.at \in {"bill", "commit"} THEN r.cost ELSE 0
<1>1. /\ client' \in [Clients -> CallRecords] /\ client'[c] = r
      /\ \A x \in Clients \ {c} : client'[x] = client[x]
  BY TurnTypes
<1>2. h \in Nat /\ o \in Nat
  BY <1>1, CallFields
<1>3. held' = [held EXCEPT ![c] = h] /\ owed' = [owed EXCEPT ![c] = o]
  BY <1>1 DEF held, owed
<1> QED
  BY <1>2, <1>3

\* The units follow the ledger as long as the amounts of the call do.
LEMMA HeldMoves ==
    ASSUME LlmTypeOK, HeldInv, NEW c \in Clients, NEW h \in Nat, NEW o \in Nat,
           held' = [held EXCEPT ![c] = h], owed' = [owed EXCEPT ![c] = o],
           burned' \in Nat, embeddings' \in Nat, costs' \in Nat, forfeited' \in Nat, open' \in Nat,
           open + h <= open' + held[c],
           burned' + embeddings' + costs + forfeited + open + h + owed[c]
                <= burned + embeddings + costs' + forfeited' + open' + held[c] + o
    PROVE  HeldInv'
<1>1. /\ held \in [Clients -> Nat] /\ owed \in [Clients -> Nat]
      /\ burned \in Nat /\ embeddings \in Nat /\ costs \in Nat /\ forfeited \in Nat
      /\ open \in Nat
  BY AmountTypes DEF LlmTypeOK
<1>2. /\ IsFiniteSet(Units(held')) /\ Cardinality(Units(held)) \in Nat
      /\ Cardinality(Units(held')) = Cardinality(Units(held)) - held[c] + h
  BY <1>1, UnitsMove DEF HeldInv
<1>3. /\ IsFiniteSet(Units(owed')) /\ Cardinality(Units(owed)) \in Nat
      /\ Cardinality(Units(owed')) = Cardinality(Units(owed)) - owed[c] + o
  BY <1>1, UnitsMove DEF HeldInv
<1>4. held[c] \in Nat /\ owed[c] \in Nat
  BY <1>1
<1>5. Cardinality(Units(held')) <= open'
  BY <1>1, <1>2, <1>4 DEF HeldInv
<1>6. burned' + embeddings' + Cardinality(Units(held'))
            <= costs' + forfeited' + open' + Cardinality(Units(owed'))
  BY <1>1, <1>2, <1>3, <1>4 DEF HeldInv
<1>7. Units(held)' = Units(held') /\ Units(owed)' = Units(owed')
  BY DEF Units
<1> QED
  BY <1>2, <1>3, <1>5, <1>6, <1>7 DEF HeldInv

HeldAt(r) == IF r.at \in {"provider", "bill", "commit"} THEN r.price ELSE 0
OwedAt(r) == IF r.at \in {"bill", "commit"} THEN r.cost ELSE 0

\* What a turn of a call has to leave right, for the books to stay right: it gives
\* back the row or takes it from nobody, lets no cost exceed the price, and moves
\* the ledger by as much as the call's own amounts.
Booked(c, r) ==
    /\ CallTurns(c, r)
    /\ spent' \in Nat /\ reserved' = open' /\ open' \in Nat
    /\ costs' \in Nat /\ forfeited' \in Nat /\ burned' \in Nat
    /\ embeddings' = embeddings /\ raced' \in BOOLEAN
    /\ calls' \in 0..MaxCalls /\ deaths' \in 0..MaxDeaths
    /\ IF r.at \in {"check", "commit"}
       THEN rowLock \in {Unlocked, c} /\ rowLock' = c
       ELSE rowLock' = IF rowLock = c THEN Unlocked ELSE rowLock
    /\ r.at \in {"bill", "commit"} => r.cost <= r.price
    /\ open + HeldAt(r) <= open' + held[c]
    /\ burned' + costs + forfeited + open + HeldAt(r) + owed[c]
            <= burned + costs' + forfeited' + open' + held[c] + OwedAt(r)

\* Writing a settlement into the ledger keeps everything but the sum, whose step is separate.
LEMMA BookedStep ==
    ASSUME BudgetInv, NEW c \in Clients, NEW r, Booked(c, r)
    PROVE  LlmTypeOK' /\ LockInv' /\ CostInv' /\ HeldInv' /\ ReservedIsOpen'
<1>0. LlmTypeOK /\ LockInv /\ CostInv /\ HeldInv
  BY DEF BudgetInv
<1>1. /\ client' \in [Clients -> CallRecords] /\ client'[c] = r
      /\ \A x \in Clients \ {c} : client'[x] = client[x]
      /\ \A x \in Clients : client'[x].for = "structured" => client'[x].left <= ChainLength
  BY <1>0, TurnTypes DEF Booked
<1>2. LlmTypeOK'
  <2>1. rowLock' \in Clients \cup {Unlocked}
    BY <1>0 DEF LlmTypeOK, Booked
  <2> QED
    BY <1>0, <1>1, <2>1 DEF LlmTypeOK, Booked, CallRecords
<1>3. LockInv'
  <2>1. ASSUME NEW x \in Clients \ {c}
        PROVE  client'[x].at \in {"check", "commit"} <=> rowLock' = x
    <3>1. client[x].at \in {"check", "commit"} <=> rowLock = x
      BY <1>0 DEF LockInv
    <3> QED
      BY <1>1, <3>1 DEF Booked
  <2>2. client'[c].at \in {"check", "commit"} <=> rowLock' = c
    BY <1>1 DEF Booked
  <2> QED
    BY <2>1, <2>2 DEF LockInv
<1>4. CostInv'
  BY <1>0, <1>1 DEF CostInv, Booked
<1>5. HeldInv'
  <2>1. /\ HeldAt(r) \in Nat /\ OwedAt(r) \in Nat
        /\ held' = [held EXCEPT ![c] = HeldAt(r)] /\ owed' = [owed EXCEPT ![c] = OwedAt(r)]
    BY <1>0, AmountsMove DEF Booked, HeldAt, OwedAt
  <2>2. /\ embeddings \in Nat /\ burned \in Nat /\ costs \in Nat /\ forfeited \in Nat
        /\ open \in Nat /\ held[c] \in Nat /\ owed[c] \in Nat
    BY <1>0, AmountTypes DEF LlmTypeOK
  <2>3. /\ burned' \in Nat /\ costs' \in Nat /\ forfeited' \in Nat /\ open' \in Nat
        /\ embeddings' \in Nat /\ embeddings' = embeddings
        /\ open + HeldAt(r) <= open' + held[c]
        /\ burned' + costs + forfeited + open + HeldAt(r) + owed[c]
              <= burned + costs' + forfeited' + open' + held[c] + OwedAt(r)
    BY <2>2 DEF Booked
  <2>4. burned' + embeddings' + costs + forfeited + open + HeldAt(r) + owed[c]
            <= burned + embeddings + costs' + forfeited' + open' + held[c] + OwedAt(r)
    BY <2>1, <2>2, <2>3
  <2> QED
    BY <1>0, <2>1, <2>2, <2>3, <2>4, HeldMoves
<1> QED
  BY <1>2, <1>3, <1>4, <1>5 DEF Booked, ReservedIsOpen

\* What a call holds is open, and it owes no more than it holds.
LEMMA AmountBounds ==
    ASSUME BudgetInv, NEW c \in Clients
    PROVE  /\ held[c] = HeldAt(client[c]) /\ owed[c] = OwedAt(client[c])
           /\ held[c] \in Nat /\ owed[c] \in Nat /\ held[c] <= open /\ owed[c] <= held[c]
           /\ client[c].price \in Nat /\ client[c].cost \in Nat /\ client[c].seen \in Nat
<1>0. LlmTypeOK /\ CostInv /\ HeldInv
  BY DEF BudgetInv
<1>1. client[c].price \in Nat /\ client[c].cost \in Nat /\ client[c].seen \in Nat
  BY <1>0, CallsTyped, CallFields
<1>2. held[c] = HeldAt(client[c]) /\ owed[c] = OwedAt(client[c])
  BY DEF held, owed, HeldAt, OwedAt
<1>3. held[c] \in Nat /\ owed[c] \in Nat
  BY <1>0, AmountTypes
<1>4. owed[c] <= held[c]
  BY <1>0, <1>1, <1>2 DEF CostInv, HeldAt, OwedAt
<1>5. Cardinality(Units(held)) >= held[c] /\ Cardinality(Units(held)) \in Nat
  BY <1>0, AmountTypes, UnitsMove DEF HeldInv
<1>6. held[c] <= open
  BY <1>0, <1>3, <1>5 DEF HeldInv, LlmTypeOK
<1> QED
  BY <1>1, <1>2, <1>3, <1>4, <1>6

\* The reading of the spend a call goes by stays good while it holds the row.
LEMMA SeenMoves ==
    ASSUME BudgetInv, NEW c \in Clients, NEW r, CallTurns(c, r),
           embeddings' = embeddings, embeddings <= costs',
           ~raced' => /\ ~raced /\ r.at # "await"
                      /\ r.at = "check" => costs' + forfeited' <= r.seen + embeddings,
           (costs' = costs /\ forfeited' = forfeited) \/ rowLock = c
    PROVE  SeenInv'
<1>0. LlmTypeOK /\ LockInv /\ SeenInv
  BY DEF BudgetInv
<1>1. client'[c] = r /\ \A x \in Clients \ {c} : client'[x] = client[x]
  BY <1>0, TurnTypes
<1>2. ASSUME ~raced', NEW x \in Clients
      PROVE  /\ client'[x].at # "await"
             /\ client'[x].at = "check" => costs' + forfeited' <= client'[x].seen + embeddings'
  <2>1. CASE x = c
    BY <1>1, <1>2, <2>1
  <2>2. CASE x # c
    <3>1. /\ client[x].at # "await"
          /\ client[x].at = "check" => costs + forfeited <= client[x].seen + embeddings
      BY <1>0, <1>2 DEF SeenInv
    <3>2. client[x].at = "check" => rowLock # c
      BY <1>0, <2>2 DEF LockInv
    <3> QED
      BY <1>1, <2>2, <3>1, <3>2
  <2> QED
    BY <2>1, <2>2
<1> QED
  BY <1>2 DEF SeenInv

\* A call that ends or asks again without a word in the ledger: it begins, was
\* refused, threw or died.
LEMMA LeavesBooks ==
    ASSUME BudgetInv, NEW c \in Clients, Away(c), UNCHANGED <<spent, reserved, ledger, burned>>,
           embeddings' = embeddings, raced' = raced, calls' \in 0..MaxCalls, deaths' \in 0..MaxDeaths,
           rowLock' = IF rowLock = c THEN Unlocked ELSE rowLock
    PROVE  BudgetInv'
<1>1. PICK r : CallTurns(c, r) /\ r.at \in {"idle", "reserve"}
  BY DEF Away
<1>2. HeldAt(r) = 0 /\ OwedAt(r) = 0
  BY <1>1 DEF HeldAt, OwedAt
<1>3. /\ spent \in Nat /\ open \in Nat /\ costs \in Nat /\ forfeited \in Nat /\ burned \in Nat
      /\ raced \in BOOLEAN /\ reserved = open /\ SeenInv /\ CapHoldsUnraced
  BY DEF BudgetInv, LlmTypeOK, ReservedIsOpen
<1>4. Booked(c, r)
  <2>1. /\ open + HeldAt(r) <= open' + held[c]
        /\ burned' + costs + forfeited + open + HeldAt(r) + owed[c]
              <= burned + costs' + forfeited' + open' + held[c] + OwedAt(r)
    BY <1>2, <1>3, AmountBounds DEF ledger
  <2> QED
    BY <1>1, <1>3, <2>1 DEF Booked, ledger
<1>5. LlmTypeOK' /\ LockInv' /\ CostInv' /\ HeldInv' /\ ReservedIsOpen'
  BY <1>4, BookedStep
<1>6. SeenInv'
  BY <1>1, <1>3, SeenMoves DEF ledger, SeenInv
<1>7. CapHoldsUnraced'
  BY <1>3 DEF CapHoldsUnraced, Charged, ledger
<1> QED
  BY <1>5, <1>6, <1>7 DEF BudgetInv

\* Settlement and forfeit: the reservation is replaced by what the call has cost,
\* or by all it may have cost.
LEMMA ClosesBooks ==
    ASSUME BudgetInv, NEW c \in Clients, SettleCall(c) \/ Forfeit(c)
    PROVE  BudgetInv'
<1>0. /\ LlmTypeOK /\ LockInv /\ CostInv /\ SeenInv /\ reserved = open /\ CapHoldsUnraced
      /\ open \in Nat /\ costs \in Nat /\ forfeited \in Nat /\ burned \in Nat /\ spent \in Nat
      /\ raced \in BOOLEAN /\ embeddings \in Nat /\ embeddings <= costs
  BY DEF BudgetInv, LlmTypeOK, ReservedIsOpen, SeenInv
<1> DEFINE price == client[c].price
           cost == client[c].cost
<1>1. /\ client[c].at = "commit" /\ rowLock = c
      /\ held[c] = price /\ owed[c] = cost /\ price \in Nat /\ cost \in Nat
      /\ cost <= price /\ price <= open
  <2>1. client[c].at = "commit"
    BY DEF SettleCall, Forfeit, Is
  <2> QED
    BY <1>0, <2>1, AmountBounds DEF LockInv, HeldAt, OwedAt, CostInv
<1>2. PICK r : CallTurns(c, r) /\ r.at \in {"idle", "reserve"}
  BY <1>0, OnwardIs DEF SettleCall, Forfeit, Away
<1>3. HeldAt(r) = 0 /\ OwedAt(r) = 0
  BY <1>2 DEF HeldAt, OwedAt
<1> HIDE DEF price, cost
<1>4. /\ reserved' = open - price /\ open' = open - price /\ rowLock' = Unlocked
      /\ burned' = burned /\ embeddings' = embeddings /\ raced' = raced
      /\ calls' = calls /\ deaths' = deaths
      /\ \/ /\ spent' = spent + cost /\ costs' = costs + cost /\ forfeited' = forfeited
         \/ /\ spent' = spent + price /\ costs' = costs /\ forfeited' = forfeited + price
  BY <1>0, <1>1 DEF SettleCall, Forfeit, Release, gatewayBounds, price, cost
<1>5. /\ open' \in Nat /\ costs' \in Nat /\ forfeited' \in Nat /\ spent' \in Nat /\ embeddings <= costs'
  BY <1>0, <1>1, <1>4
<1>6. /\ open + HeldAt(r) <= open' + held[c]
      /\ burned' + costs + forfeited + open + HeldAt(r) + owed[c]
            <= burned + costs' + forfeited' + open' + held[c] + OwedAt(r)
  BY <1>0, <1>1, <1>3, <1>4
<1>7. Booked(c, r)
  BY <1>0, <1>1, <1>2, <1>4, <1>5, <1>6 DEF Booked, LlmTypeOK
<1>8. LlmTypeOK' /\ LockInv' /\ CostInv' /\ HeldInv' /\ ReservedIsOpen'
  BY <1>7, BookedStep
<1>9. SeenInv'
  BY <1>0, <1>1, <1>2, <1>4, <1>5, SeenMoves
<1>10. CapHoldsUnraced'
  BY <1>0, <1>1, <1>4 DEF CapHoldsUnraced, Charged
<1> QED
  BY <1>8, <1>9, <1>10 DEF BudgetInv

\* The steps that take a call from its reservation to its bill.
LEMMA KeepsBooks ==
    ASSUME BudgetInv, NEW c \in Clients,
           \/ ReserveAtOnce(c) \/ ReserveWaits(c) \/ ReserveResumes(c) \/ Reserve(c)
           \/ ProviderReturns(c) \/ Bill(c)
    PROVE  BudgetInv'
<1>0. /\ LlmTypeOK /\ LockInv /\ CostInv /\ SeenInv /\ reserved = open /\ CapHoldsUnraced
      /\ open \in Nat /\ costs \in Nat /\ forfeited \in Nat /\ burned \in Nat /\ spent \in Nat
      /\ raced \in BOOLEAN /\ embeddings \in Nat /\ embeddings <= costs
      /\ calls \in 0..MaxCalls /\ deaths \in 0..MaxDeaths
  BY DEF BudgetInv, LlmTypeOK, ReservedIsOpen, SeenInv
<1>1. /\ client[c].price \in Nat /\ client[c].cost \in Nat /\ client[c].seen \in Nat
      /\ held[c] = HeldAt(client[c]) /\ owed[c] = OwedAt(client[c])
      /\ held[c] \in Nat /\ owed[c] \in Nat
  BY AmountBounds
<1>2. /\ "check" \in GatewayStage /\ "await" \in GatewayStage /\ "provider" \in GatewayStage
      /\ "bill" \in GatewayStage /\ "commit" \in GatewayStage
  BY DEF GatewayStage
<1>3. ASSUME NEW r, Booked(c, r), costs' = costs, forfeited' = forfeited,
             ~raced' => /\ ~raced /\ r.at # "await"
                        /\ r.at = "check" => costs + forfeited <= r.seen + embeddings,
             raced' \/ Charged' <= DailyCap
      PROVE  BudgetInv'
  <2>1. LlmTypeOK' /\ LockInv' /\ CostInv' /\ HeldInv' /\ ReservedIsOpen'
    BY <1>3, BookedStep
  <2>2. SeenInv'
    BY <1>0, <1>3, SeenMoves DEF Booked
  <2> QED
    BY <1>3, <2>1, <2>2 DEF BudgetInv, CapHoldsUnraced
<1>4. CASE ReserveAtOnce(c)
  <2>1. costs + forfeited \in Nat
    BY <1>0
  <2>2. CallGoesOn(c, "check", client[c].cost, costs + forfeited)
    BY <1>0, <1>2, <1>4, <2>1, StageIs DEF ReserveAtOnce, Recompute
  <2>3. PICK r : /\ CallTurns(c, r) /\ r.at = "check" /\ r.price = client[c].price
                 /\ r.cost = client[c].cost /\ r.seen = costs + forfeited
    BY <2>2 DEF CallGoesOn
  <2>4. /\ HeldAt(r) = 0 /\ OwedAt(r) = 0 /\ held[c] = 0 /\ owed[c] = 0 /\ rowLock = Unlocked
        /\ rowLock' = c /\ UNCHANGED <<spent, reserved, ledger, burned, raced, gatewayBounds>>
    BY <1>1, <1>4, <2>3 DEF ReserveAtOnce, HeldAt, OwedAt, Is
  <2>5. Booked(c, r)
    BY <1>0, <2>3, <2>4 DEF Booked, ledger, gatewayBounds
  <2>6. Charged' = Charged
    BY <2>4 DEF Charged, ledger, gatewayBounds
  <2> QED
    BY <1>0, <1>3, <2>3, <2>4, <2>5, <2>6 DEF ledger, CapHoldsUnraced
<1>5. CASE ReserveWaits(c)
  <2>1. costs + forfeited \in Nat
    BY <1>0
  <2>2. CallGoesOn(c, "await", client[c].cost, costs + forfeited)
    BY <1>0, <1>2, <1>5, <2>1, StageIs DEF ReserveWaits, Recompute
  <2>3. PICK r : /\ CallTurns(c, r) /\ r.at = "await" /\ r.price = client[c].price
                 /\ r.cost = client[c].cost
    BY <2>2 DEF CallGoesOn
  <2>4. /\ HeldAt(r) = 0 /\ OwedAt(r) = 0 /\ held[c] = 0 /\ owed[c] = 0 /\ rowLock # c
        /\ raced' = TRUE /\ UNCHANGED <<budgetRow, ledger, burned, gatewayBounds>>
    BY <1>0, <1>1, <1>5, <2>3 DEF ReserveWaits, HeldAt, OwedAt, Is, LockInv
  <2>5. Booked(c, r)
    BY <1>0, <2>3, <2>4 DEF Booked, budgetRow, ledger, gatewayBounds
  <2> QED
    BY <1>3, <2>4, <2>5 DEF ledger
<1>6. CASE ReserveResumes(c)
  <2>1. PICK r : /\ CallTurns(c, r) /\ r.at = "check" /\ r.price = client[c].price
                 /\ r.cost = client[c].cost
    BY <1>0, <1>2, <1>6, MoveIs DEF ReserveResumes, CallGoesOn
  <2>2. raced
    BY <1>0, <1>6 DEF SeenInv, ReserveResumes, Is
  <2>3. /\ HeldAt(r) = 0 /\ OwedAt(r) = 0 /\ held[c] = 0 /\ owed[c] = 0 /\ rowLock = Unlocked
        /\ rowLock' = c /\ UNCHANGED <<spent, reserved, ledger, burned, raced, gatewayBounds>>
    BY <1>1, <1>6, <2>1 DEF ReserveResumes, HeldAt, OwedAt, Is
  <2>4. Booked(c, r)
    BY <1>0, <2>1, <2>3 DEF Booked, ledger, gatewayBounds
  <2> QED
    BY <1>3, <2>2, <2>3, <2>4 DEF ledger
<1>7. CASE Reserve(c)
  <2>1. PICK r : /\ CallTurns(c, r) /\ r.at = "provider" /\ r.price = client[c].price
                 /\ r.cost = client[c].cost
    BY <1>0, <1>2, <1>7, MoveIs DEF Reserve, CallGoesOn
  <2>2. /\ HeldAt(r) = client[c].price /\ OwedAt(r) = 0 /\ held[c] = 0 /\ owed[c] = 0
        /\ client[c].at = "check" /\ rowLock = c /\ rowLock' = Unlocked /\ spent' = client[c].seen
        /\ reserved' = open + client[c].price /\ open' = open + client[c].price
        /\ UNCHANGED <<costs, forfeited, burned, raced, gatewayBounds>>
    BY <1>0, <1>1, <1>7, <2>1 DEF Reserve, HeldAt, OwedAt, Is, LockInv
  <2>3. /\ open + HeldAt(r) <= open' + held[c]
        /\ burned' + costs + forfeited + open + HeldAt(r) + owed[c]
              <= burned + costs' + forfeited' + open' + held[c] + OwedAt(r)
        /\ open' \in Nat
    BY <1>0, <1>1, <2>2
  <2>4. Booked(c, r)
    BY <1>0, <1>1, <2>1, <2>2, <2>3 DEF Booked, gatewayBounds
  <2>5. raced' \/ Charged' <= DailyCap
    <3>1. CASE raced
      BY <2>2, <3>1
    <3>2. CASE ~raced
      <4>1. costs + forfeited <= client[c].seen + embeddings
        BY <1>0, <2>2, <3>2 DEF SeenInv
      <4>2. client[c].seen + open + client[c].price <= DailyCap
        BY <1>0, <1>7 DEF Reserve, Fits
      <4> QED
        BY <1>0, <1>1, <2>2, <4>1, <4>2 DEF Charged, gatewayBounds
    <3> QED
      BY <3>1, <3>2
  <2> QED
    BY <1>3, <2>1, <2>2, <2>4, <2>5
<1>8. CASE ProviderReturns(c)
  <2>1. PICK cost \in 0..client[c].price, ok \in BOOLEAN :
            /\ client' = [client EXCEPT ![c].at = "bill", ![c].cost = cost, ![c].ok = ok]
            /\ burned' = burned + cost
    BY <1>8 DEF ProviderReturns
  <2>2. cost \in Nat /\ cost <= client[c].price
    BY <1>1
  <2>3. PICK r : CallTurns(c, r) /\ r.at = "bill" /\ r.price = client[c].price /\ r.cost = cost
    <3>1. CallGoesOn(c, "bill", cost, client[c].seen)
      BY <1>0, <1>2, <2>1, <2>2, StageIs
    <3> QED
      BY <3>1 DEF CallGoesOn
  <2>4. /\ HeldAt(r) = client[c].price /\ OwedAt(r) = cost /\ held[c] = client[c].price
        /\ owed[c] = 0 /\ rowLock # c
        /\ UNCHANGED <<budgetRow, ledger, raced, gatewayBounds>>
    BY <1>0, <1>1, <1>8, <2>3 DEF ProviderReturns, HeldAt, OwedAt, Is, LockInv
  <2>5. /\ open + HeldAt(r) <= open' + held[c]
        /\ burned' + costs + forfeited + open + HeldAt(r) + owed[c]
              <= burned + costs' + forfeited' + open' + held[c] + OwedAt(r)
        /\ burned' \in Nat
    BY <1>0, <1>1, <2>1, <2>2, <2>4 DEF ledger
  <2>6. Booked(c, r)
    BY <1>0, <2>2, <2>3, <2>4, <2>5 DEF Booked, budgetRow, ledger, gatewayBounds
  <2>7. Charged' = Charged
    BY <2>4 DEF Charged, ledger, gatewayBounds
  <2> QED
    BY <1>0, <1>3, <2>3, <2>4, <2>6, <2>7 DEF ledger, CapHoldsUnraced
<1>9. CASE Bill(c)
  <2>1. PICK r : /\ CallTurns(c, r) /\ r.at = "commit" /\ r.price = client[c].price
                 /\ r.cost = client[c].cost
    BY <1>0, <1>2, <1>9, MoveIs DEF Bill, CallGoesOn
  <2>2. /\ HeldAt(r) = held[c] /\ OwedAt(r) = owed[c] /\ r.cost <= r.price /\ rowLock = Unlocked
        /\ rowLock' = c /\ UNCHANGED <<spent, reserved, ledger, burned, raced, gatewayBounds>>
    BY <1>0, <1>1, <1>9, <2>1 DEF Bill, HeldAt, OwedAt, Is, CostInv
  <2>3. Booked(c, r)
    BY <1>0, <1>1, <2>1, <2>2 DEF Booked, ledger, gatewayBounds
  <2>4. Charged' = Charged
    BY <2>2 DEF Charged, ledger, gatewayBounds
  <2> QED
    BY <1>0, <1>3, <2>1, <2>2, <2>3, <2>4 DEF ledger, CapHoldsUnraced
<1> QED
  BY <1>4, <1>5, <1>6, <1>7, <1>8, <1>9

-----------------------------------------------------------------------------
(* The invariant.                                                            *)

\* At first nothing is held and nothing is owed.
LEMMA BudgetInit == LlmInit => BudgetInv
<1> SUFFICES ASSUME LlmInit PROVE BudgetInv
  OBVIOUS
<1>1. \A c \in Clients : client[c] = ClientResting
  BY DEF LlmInit
<1>2. \A c \in Clients : client[c].at = "idle" /\ client[c].for = "none"
  BY <1>1, RestingRecord
<1>3. LlmTypeOK
  <2>1. client \in [Clients -> CallRecords]
    BY RestingRecord DEF LlmInit
  <2>2. /\ 0 \in 0..MaxCalls /\ 0 \in 0..MaxEmbeddings /\ 0 \in 0..MaxDeaths
        /\ FALSE \in BOOLEAN /\ 0 \in Nat /\ rowLock \in Clients \cup {Unlocked}
    BY DEF LlmInit
  <2>3. \A c \in Clients : client[c].for = "structured" => client[c].left <= ChainLength
    BY <1>2
  <2> HIDE GatewayLimits, UnlockedAssumption
  <2> QED
    BY <2>1, <2>2, <2>3 DEF LlmInit, LlmTypeOK, CallRecords
<1>4. LockInv
  BY <1>2 DEF LlmInit, LockInv
<1>5. CostInv
  BY <1>2 DEF CostInv
<1>6. held \in [Clients -> {0}] /\ owed \in [Clients -> {0}]
  BY <1>2 DEF held, owed
<1>7. HeldInv
  <2>1. /\ IsFiniteSet(Units(held)) /\ Cardinality(Units(held)) = 0
        /\ IsFiniteSet(Units(owed)) /\ Cardinality(Units(owed)) = 0
    BY <1>6, NoUnits
  <2> QED
    BY <2>1 DEF LlmInit, HeldInv
<1>8. SeenInv
  BY <1>2 DEF LlmInit, SeenInv
<1>9. ReservedIsOpen /\ CapHoldsUnraced
  BY DEF LlmInit, ReservedIsOpen, CapHoldsUnraced, Charged
<1> QED
  BY <1>3, <1>4, <1>5, <1>7, <1>8, <1>9 DEF BudgetInv

\* A cost the embedder records is on a usage row and on nobody's reservation.
LEMMA EmbedsBooks ==
    ASSUME BudgetInv, RecordEmbedding
    PROVE  BudgetInv'
<1>0. /\ LlmTypeOK /\ LockInv /\ CostInv /\ HeldInv /\ SeenInv /\ ReservedIsOpen /\ CapHoldsUnraced
      /\ open \in Nat /\ costs \in Nat /\ forfeited \in Nat /\ burned \in Nat /\ spent \in Nat
      /\ embeddings \in 0..MaxEmbeddings
  BY DEF BudgetInv, LlmTypeOK
<1>1. /\ client' = client /\ costs' = costs + 1 /\ embeddings' = embeddings + 1
      /\ embeddings < MaxEmbeddings
      /\ UNCHANGED <<spent, reserved, rowLock, forfeited, open, burned, raced, calls, deaths>>
  BY DEF RecordEmbedding, budgetRow
<1>2. LlmTypeOK'
  BY <1>0, <1>1 DEF LlmTypeOK
<1>3. LockInv' /\ CostInv' /\ ReservedIsOpen'
  BY <1>0, <1>1 DEF LockInv, CostInv, ReservedIsOpen
<1>4. held' = held /\ owed' = owed
  BY <1>1 DEF held, owed
<1>5. Units(held') = Units(held) /\ Units(owed') = Units(owed)
  BY <1>4
<1>6. Cardinality(Units(held)) \in Nat /\ Cardinality(Units(owed)) \in Nat
  BY <1>0, FS_CardinalityType DEF HeldInv
<1>7. HeldInv'
  <2>1. /\ IsFiniteSet(Units(held')) /\ IsFiniteSet(Units(owed'))
        /\ Cardinality(Units(held')) <= open'
        /\ burned' + embeddings' + Cardinality(Units(held'))
              <= costs' + forfeited' + open' + Cardinality(Units(owed'))
    BY <1>0, <1>1, <1>5, <1>6 DEF HeldInv
  <2> QED
    BY <2>1 DEF HeldInv, Units
<1>8. SeenInv'
  <2>1. ASSUME ~raced', NEW x \in Clients
        PROVE  /\ client'[x].at # "await"
               /\ client'[x].at = "check" =>
                    costs' + forfeited' <= client'[x].seen + embeddings'
    <3>1. client[x].seen \in Nat
      BY <1>0, CallsTyped, CallFields
    <3> QED
      BY <1>0, <1>1, <2>1, <3>1 DEF SeenInv
  <2>2. embeddings' <= costs'
    BY <1>0, <1>1 DEF SeenInv
  <2> QED
    BY <2>1, <2>2 DEF SeenInv
<1>9. CapHoldsUnraced'
  BY <1>0, <1>1 DEF CapHoldsUnraced, Charged, SeenInv
<1> QED
  BY <1>2, <1>3, <1>7, <1>8, <1>9 DEF BudgetInv

\* One step of the gateway, by the kind of account it makes.
LEMMA BudgetStep == BudgetInv /\ [LlmNext]_gatewayVars => BudgetInv'
<1> SUFFICES ASSUME BudgetInv, [LlmNext]_gatewayVars PROVE BudgetInv'
  OBVIOUS
<1>0. LlmTypeOK /\ LockInv /\ calls \in 0..MaxCalls /\ deaths \in 0..MaxDeaths
  BY DEF BudgetInv, LlmTypeOK
<1>1. ASSUME NEW c \in Clients, StartStructured(c) \/ StartAgentic(c)
      PROVE  BudgetInv'
  <2>1. Away(c)
    BY <1>1, StartIs
  <2>2. /\ client[c].at = "idle" /\ calls < MaxCalls /\ calls' = calls + 1
        /\ UNCHANGED <<budgetRow, ledger, burned, raced, embeddings, deaths>>
    BY <1>1 DEF StartStructured, StartAgentic, Is
  <2>3. rowLock # c
    BY <1>0, <2>2 DEF LockInv
  <2>4. calls' \in 0..MaxCalls
    BY <1>0, <2>2
  <2> QED
    BY <1>0, <2>1, <2>2, <2>3, <2>4, LeavesBooks DEF budgetRow
<1>2. ASSUME NEW c \in Clients, OverCap(c)
      PROVE  BudgetInv'
  <2>1. Away(c)
    BY <1>0, <1>2, OnwardIs DEF OverCap
  <2>2. /\ client[c].at = "check" /\ rowLock' = Unlocked
        /\ UNCHANGED <<spent, reserved, ledger, burned, raced, gatewayBounds>>
    BY <1>2 DEF OverCap, Is
  <2>3. rowLock = c
    BY <1>0, <2>2 DEF LockInv
  <2> QED
    BY <1>0, <2>1, <2>2, <2>3, LeavesBooks DEF gatewayBounds
<1>3. ASSUME NEW c \in Clients, AccountingFails(c) \/ ClientDies(c)
      PROVE  BudgetInv'
  <2>1. Away(c)
    BY <1>0, <1>3, OnwardIs, RestIs DEF AccountingFails, ClientDies
  <2>2. /\ deaths < MaxDeaths /\ deaths' = deaths + 1
        /\ rowLock' = IF rowLock = c THEN Unlocked ELSE rowLock
        /\ UNCHANGED <<spent, reserved, ledger, burned, raced, calls, embeddings>>
    BY <1>3 DEF AccountingFails, ClientDies
  <2>3. deaths' \in 0..MaxDeaths
    BY <1>0, <2>2
  <2> QED
    BY <1>0, <2>1, <2>2, <2>3, LeavesBooks
<1>4. ASSUME NEW c \in Clients, Proceed(c)
      PROVE  BudgetInv'
  BY <1>2, <1>4, ClosesBooks, KeepsBooks DEF Proceed
<1>5. CASE UNCHANGED gatewayVars
  <2>1. /\ client' = client /\ held' = held /\ owed' = owed
        /\ UNCHANGED <<spent, reserved, rowLock, costs, forfeited, open, burned, raced,
                       calls, embeddings, deaths>>
    BY <1>5 DEF gatewayVars, budgetRow, ledger, gatewayBounds, held, owed
  <2> QED
    BY <2>1 DEF BudgetInv, LlmTypeOK, LockInv, CostInv, HeldInv, SeenInv, ReservedIsOpen,
                CapHoldsUnraced, Charged, Units
<1> QED
  BY <1>1, <1>2, <1>3, <1>4, <1>5, EmbedsBooks DEF LlmNext

\* The books are kept by every call, whatever it is interrupted by.
THEOREM BudgetInductive == LlmSpec => []BudgetInv
<1>1. LlmInit => BudgetInv
  BY BudgetInit
<1>2. BudgetInv /\ [LlmNext]_gatewayVars => BudgetInv'
  BY BudgetStep
<1> QED
  BY <1>1, <1>2, PTL DEF LlmSpec

\* The types: every reservation, cost and reading of the spend is a natural
\* number, so no release takes the reserved sum below zero.
THEOREM GatewayTypes == LlmSpec => []LlmTypeOK
<1>1. BudgetInv => LlmTypeOK
  BY DEF BudgetInv
<1> QED
  BY <1>1, BudgetInductive, PTL

\* What the invariant says of the sums: the open reservations cover what was
\* charged and is on no row yet.
LEMMA BudgetCovers == BudgetInv => BudgetIsSound
<1> SUFFICES ASSUME BudgetInv PROVE BudgetIsSound
  OBVIOUS
<1>1. /\ LlmTypeOK /\ HeldInv /\ ReservedIsOpen /\ CapHoldsUnraced /\ embeddings <= costs
      /\ open \in Nat /\ costs \in Nat /\ forfeited \in Nat /\ burned \in Nat /\ embeddings \in Nat
  BY DEF BudgetInv, LlmTypeOK, SeenInv
<1>2. held \in [Clients -> Nat] /\ owed \in [Clients -> Nat]
  BY <1>1, AmountTypes
<1>3. \A c \in Clients : owed[c] <= held[c]
  BY AmountBounds
<1>4. Cardinality(Units(owed)) <= Cardinality(Units(held))
  BY <1>1, <1>2, <1>3, UnitsFewer DEF HeldInv
<1>5. Cardinality(Units(owed)) \in Nat /\ Cardinality(Units(held)) \in Nat
  BY <1>1, FS_CardinalityType DEF HeldInv
<1>6. burned <= (costs - embeddings) + forfeited + open
  BY <1>1, <1>4, <1>5 DEF HeldInv
<1> QED
  BY <1>1, <1>6 DEF BudgetIsSound, SpendIsCovered, Charged

\* Whatever calls interleave, wait, throw or die: reserved_usd is the sum of the
\* open reservations, what a provider charged is covered by a usage row, a
\* forfeit or a reservation, and the cap holds until a reservation waits.
THEOREM BudgetHolds == LlmSpec => []BudgetIsSound
BY BudgetCovers, BudgetInductive, PTL

-----------------------------------------------------------------------------
(* Runtime.  The migrations are applied once and in order, a closed process *)
(* is idle, and a singleton runs in one process as long as no lease was cut.*)

\* Only the process that holds the migration lock reads and applies, and while
\* it applies it knows the whole ledger.
TurnInv ==
    /\ \A h \in Hosts : stage[h] \in {"reading", "applying"} => turnkey = h
    /\ \A h \in Hosts : stage[h] = "applying" => applied[h] = DOMAIN migrated

\* What was applied is the ledger, in the order of its versions.
LedgerInv == effects \in Seq(Nat) /\ AppliedInOrder

\* The timer of a process that does not run is cleared.
ArmedInv == \A h \in Hosts, w \in Chores : working[h][w] = "armed" => stage[h] = "up"

\* A tick of a singleton has its lease, as long as no connection broke.
LeaseInv ==
    cuts = 0 => \A w \in Singletons, h \in Hosts : working[h][w] = "busy" => lease[w] = h

\* The whole inductive invariant.
RuntimeInv ==
    /\ RuntimeTypeOK /\ cuts \in Nat /\ applied \in [Hosts -> SUBSET Nat]
    /\ TurnInv /\ LedgerInv /\ ArmedInv /\ ClosedIsIdle /\ LeaseInv

USE RuntimeAssumption, ReleaseVersions, NobodyAssumption

-----------------------------------------------------------------------------
(* The order of the versions.                                                *)

\* The least of a nonempty set of versions is one of them.
LEMMA FirstIsOne ==
    ASSUME NEW S \in SUBSET Nat, S # {}
    PROVE  First(S) \in S
<1> DEFINE Below(v) == 1..v
           T == {Below(v) : v \in S}
<1>1. ASSUME NEW v \in S PROVE Below(v) \in FiniteSubsetsOf(Nat)
  BY FS_Interval DEF FiniteSubsetsOf
<1>2. T \subseteq FiniteSubsetsOf(Nat) /\ T # {}
  BY <1>1
<1> HIDE DEF T
<1>3. PICK x \in T : \A y \in T : <<y, x>> \notin StrictSubsetOrdering(Nat)
  BY <1>2, WFMin, FS_StrictSubsetOrderingWellFounded
<1>4. PICK v \in S : x = Below(v)
  BY DEF T
<1>5. ASSUME NEW u \in S PROVE v <= u
  <2>1. <<Below(u), x>> \notin StrictSubsetOrdering(Nat)
    BY <1>3 DEF T
  <2>2. Below(u) \in SUBSET Nat /\ Below(v) \in SUBSET Nat
    OBVIOUS
  <2>3. ~(Below(u) \subseteq Below(v) /\ Below(u) # Below(v))
    BY <1>4, <2>1, <2>2 DEF StrictSubsetOrdering
  <2>4. CASE u < v
    <3>1. Below(u) \subseteq Below(v) /\ v \in Below(v) /\ v \notin Below(u)
      BY <2>4
    <3> QED
      BY <2>3, <3>1
  <2> QED
    BY <2>4
<1> QED
  BY <1>5 DEF First

Rising(s) == \A i, j \in DOMAIN s : i < j => s[i] < s[j]
Elements(s) == {s[i] : i \in DOMAIN s}
Above(s, v) == \A i \in DOMAIN s : s[i] < v

\* A version above all that were applied goes to the end of the order.
LEMMA AppendKeepsOrder ==
    ASSUME NEW s \in Seq(Nat), Rising(s), NEW v \in Nat, Above(s, v)
    PROVE  /\ Append(s, v) \in Seq(Nat) /\ Rising(Append(s, v))
           /\ Elements(Append(s, v)) = Elements(s) \cup {v}
<1> DEFINE t == Append(s, v)
<1>1. /\ t \in Seq(Nat) /\ DOMAIN s = 1..Len(s) /\ Len(s) \in Nat
      /\ DOMAIN t = 1..(Len(s) + 1) /\ t[Len(s) + 1] = v
      /\ \A i \in 1..Len(s) : t[i] = s[i]
  OBVIOUS
<1> HIDE DEF t
<1>2. ASSUME NEW i \in DOMAIN t, NEW j \in DOMAIN t, i < j
      PROVE  t[i] < t[j]
  <2>1. i \in 1..Len(s) /\ t[i] = s[i]
    BY <1>1, <1>2
  <2>2. CASE j \in 1..Len(s)
    BY <1>1, <1>2, <2>1, <2>2 DEF Rising
  <2>3. CASE j = Len(s) + 1
    BY <1>1, <2>1, <2>3 DEF Above
  <2> QED
    BY <1>1, <2>2, <2>3
<1>3. {t[i] : i \in DOMAIN t} = {s[i] : i \in DOMAIN s} \cup {v}
  <2>1. \A i \in DOMAIN t : i \in DOMAIN s \/ i = Len(s) + 1
    BY <1>1
  <2>2. \A i \in DOMAIN s : i \in DOMAIN t
    BY <1>1
  <2>3. Len(s) + 1 \in DOMAIN t
    BY <1>1
  <2> QED
    BY <1>1, <2>1, <2>2, <2>3
<1> QED
  BY <1>1, <1>2, <1>3 DEF t, Rising, Elements

\* Whoever applies a migration adds its version above all the others.
LEMMA AppliesNext ==
    ASSUME RuntimeInv, NEW h \in Hosts, stage[h] = "applying", Todo(h) # {},
           First(Todo(h)) \notin DOMAIN migrated, InOrder(First(Todo(h)), applied[h]),
           effects' = Append(effects, First(Todo(h))),
           DOMAIN migrated' = DOMAIN migrated \cup {First(Todo(h))}
    PROVE  LedgerInv' /\ First(Todo(h)) \in Nat
<1> DEFINE v == First(Todo(h))
<1>1. release[h] \in Releases /\ applied[h] = DOMAIN migrated /\ LedgerInv
  BY DEF RuntimeInv, RuntimeTypeOK, TurnInv
<1>2. Todo(h) \subseteq Nat
  BY <1>1 DEF Todo
<1>3. v \in Nat
  BY <1>2, FirstIsOne
<1> HIDE DEF v
<1>4. \A i \in DOMAIN effects : effects[i] < v
  <2>1. ASSUME NEW i \in DOMAIN effects PROVE effects[i] < v
    <3>1. effects[i] \in DOMAIN migrated /\ effects[i] \in Nat
      BY <1>1 DEF LedgerInv, AppliedInOrder
    <3>2. effects[i] <= v /\ effects[i] # v
      BY <1>1, <3>1 DEF v, InOrder
    <3> QED
      BY <1>3, <3>1, <3>2
  <2> QED
    BY <2>1
<1>5. effects \in Seq(Nat) /\ Rising(effects) /\ Above(effects, v)
  BY <1>1, <1>4 DEF LedgerInv, AppliedInOrder, Rising, Above
<1>6. effects' = Append(effects, v)
  BY DEF v
<1>7. effects' \in Seq(Nat) /\ Rising(effects') /\ Elements(effects') = Elements(effects) \cup {v}
  BY <1>3, <1>5, <1>6, AppendKeepsOrder
<1>8. DOMAIN migrated' = Elements(effects')
  BY <1>1, <1>7 DEF LedgerInv, AppliedInOrder, Elements, v
<1> QED
  BY <1>3, <1>7, <1>8 DEF LedgerInv, AppliedInOrder, Rising, Elements, v

-----------------------------------------------------------------------------
(* One lemma for what ends a process, then one step per action.              *)

\* A process that ends leaves no lock, lease, tick or request behind.
LEMMA EndsCleanly ==
    ASSUME RuntimeInv, NEW h \in Hosts, EndsProcess(h),
           UNCHANGED <<migrated, effects, release, applied, boots, cuts>>
    PROVE  RuntimeInv'
<1>0. /\ RuntimeTypeOK /\ cuts \in Nat /\ TurnInv /\ LedgerInv /\ ArmedInv /\ ClosedIsIdle
      /\ LeaseInv
  BY DEF RuntimeInv
<1>1. /\ stage'[h] = "off" /\ \A g \in Hosts \ {h} : stage'[g] = stage[g]
      /\ serving'[h] = FALSE /\ \A g \in Hosts \ {h} : serving'[g] = serving[g]
      /\ working'[h] = [w \in Chores |-> "idle"]
      /\ \A g \in Hosts \ {h} : working'[g] = working[g]
  BY <1>0 DEF RuntimeTypeOK, EndsProcess
<1>2. RuntimeTypeOK'
  BY <1>0 DEF RuntimeTypeOK, EndsProcess
<1>3. TurnInv'
  BY <1>0, <1>1 DEF TurnInv, EndsProcess
<1>4. LedgerInv'
  BY <1>0 DEF LedgerInv, AppliedInOrder
<1>5. ArmedInv'
  BY <1>0, <1>1 DEF ArmedInv
<1>6. ClosedIsIdle'
  BY <1>0, <1>1 DEF ClosedIsIdle
<1>7. LeaseInv'
  BY <1>0, <1>1 DEF LeaseInv, EndsProcess
<1> QED
  BY <1>2, <1>3, <1>4, <1>5, <1>6, <1>7 DEF RuntimeInv

\* The steps of a start: the lock, the ledger, the migrations, the workers.
LEMMA StartKeeps ==
    ASSUME RuntimeInv, NEW h \in Hosts,
           \/ Boot(h) \/ TakeTurn(h) \/ ReadLedger(h) \/ ApplyNext(h) \/ StartUp(h)
    PROVE  RuntimeInv'
<1>0. /\ RuntimeTypeOK /\ cuts \in Nat /\ TurnInv /\ LedgerInv /\ ArmedInv /\ ClosedIsIdle
      /\ LeaseInv /\ applied \in [Hosts -> SUBSET Nat]
  BY DEF RuntimeInv
<1>1. CASE Boot(h)
  <2>1. /\ UNCHANGED <<migrated, effects, turnkey, lease, applied, working, serving, cuts>>
        /\ stage' = [stage EXCEPT ![h] = "locking"] /\ stage[h] = "off"
    BY <1>1 DEF Boot
  <2>2. RuntimeTypeOK'
    BY <1>0, <1>1 DEF Boot, RuntimeTypeOK
  <2>3. TurnInv' /\ ArmedInv' /\ ClosedIsIdle'
    BY <1>0, <2>1 DEF RuntimeTypeOK, TurnInv, ArmedInv, ClosedIsIdle
  <2>4. LedgerInv' /\ LeaseInv'
    BY <1>0, <2>1 DEF LedgerInv, AppliedInOrder, LeaseInv
  <2> QED
    BY <1>0, <2>1, <2>2, <2>3, <2>4 DEF RuntimeInv
<1>2. CASE TakeTurn(h)
  <2>1. /\ UNCHANGED <<migrated, effects, lease, release, applied, working, serving, cuts>>
        /\ stage' = [stage EXCEPT ![h] = "reading"] /\ stage[h] = "locking"
        /\ turnkey = Nobody /\ turnkey' = h
    BY <1>2 DEF TakeTurn
  <2>2. RuntimeTypeOK'
    BY <1>0, <2>1 DEF RuntimeTypeOK
  <2>3. TurnInv' /\ ArmedInv' /\ ClosedIsIdle'
    BY <1>0, <2>1 DEF RuntimeTypeOK, TurnInv, ArmedInv, ClosedIsIdle
  <2>4. LedgerInv' /\ LeaseInv'
    BY <1>0, <2>1 DEF LedgerInv, AppliedInOrder, LeaseInv
  <2> QED
    BY <1>0, <2>1, <2>2, <2>3, <2>4 DEF RuntimeInv
<1>3. CASE ReadLedger(h)
  <2>1. CASE MatchesRecord(h)
    <3>1. CASE applied' = [applied EXCEPT ![h] = DOMAIN migrated]
               /\ stage' = [stage EXCEPT ![h] = "applying"] /\ UNCHANGED <<turnkey, lease, working, serving>>
      <4>1. /\ UNCHANGED <<migrated, effects, release, cuts>> /\ stage[h] = "reading"
        BY <1>3 DEF ReadLedger
      <4>2. DOMAIN migrated \subseteq Nat
        BY <1>0 DEF LedgerInv, AppliedInOrder
      <4>3. RuntimeTypeOK' /\ applied' \in [Hosts -> SUBSET Nat]
        BY <1>0, <3>1, <4>1, <4>2 DEF RuntimeTypeOK
      <4>4. TurnInv' /\ ArmedInv' /\ ClosedIsIdle'
        BY <1>0, <3>1, <4>1 DEF RuntimeTypeOK, TurnInv, ArmedInv, ClosedIsIdle
      <4>5. LedgerInv' /\ LeaseInv'
        BY <1>0, <3>1, <4>1 DEF LedgerInv, AppliedInOrder, LeaseInv
      <4> QED
        BY <1>0, <4>1, <4>3, <4>4, <4>5 DEF RuntimeInv
    <3> QED
      BY <1>3, <2>1, <3>1 DEF ReadLedger
  <2>2. CASE ~MatchesRecord(h)
    BY <1>3, <2>2, EndsCleanly DEF ReadLedger
  <2> QED
    BY <2>1, <2>2
<1>4. CASE ApplyNext(h)
  <2> DEFINE v == First(Todo(h))
  <2>1. CASE EndsProcess(h) /\ UNCHANGED <<migrated, effects, applied>>
    BY <1>4, <2>1, EndsCleanly DEF ApplyNext
  <2>2. CASE /\ v \notin DOMAIN migrated /\ InOrder(v, applied[h])
             /\ effects' = Append(effects, v)
             /\ migrated' = [u \in DOMAIN migrated \cup {v} |->
                               IF u = v THEN release[h][v] ELSE migrated[u]]
             /\ applied' = [applied EXCEPT ![h] = @ \cup {v}]
             /\ UNCHANGED <<turnkey, lease, stage, working, serving>>
    <3>1. stage[h] = "applying" /\ Todo(h) # {} /\ UNCHANGED <<release, cuts>>
      BY <1>4 DEF ApplyNext
    <3>2. DOMAIN migrated' = DOMAIN migrated \cup {v}
      BY <2>2
    <3>3. LedgerInv' /\ v \in Nat
      BY <2>2, <3>1, <3>2, AppliesNext
    <3> HIDE DEF v
    <3>4. RuntimeTypeOK' /\ ArmedInv' /\ ClosedIsIdle' /\ LeaseInv'
      BY <1>0, <2>2, <3>1 DEF RuntimeTypeOK, ArmedInv, ClosedIsIdle, LeaseInv
    <3>5. applied' \in [Hosts -> SUBSET Nat]
      BY <1>0, <2>2, <3>3
    <3>6. TurnInv'
      BY <1>0, <2>2, <3>1, <3>2 DEF TurnInv
    <3> QED
      BY <1>0, <3>1, <3>3, <3>4, <3>5, <3>6 DEF RuntimeInv
  <2> QED
    BY <1>4, <2>1, <2>2 DEF ApplyNext
<1>5. CASE StartUp(h)
  <2>1. /\ UNCHANGED <<migrated, effects, lease, release, applied, serving, cuts>>
        /\ stage' = [stage EXCEPT ![h] = "up"] /\ stage[h] = "applying"
        /\ turnkey' = IF turnkey = h THEN Nobody ELSE turnkey
        /\ working' = [working EXCEPT ![h] = [w \in Chores |-> "armed"]]
    BY <1>5 DEF StartUp
  <2>2. RuntimeTypeOK'
    BY <1>0, <2>1 DEF RuntimeTypeOK
  <2>3. TurnInv' /\ ArmedInv' /\ ClosedIsIdle'
    BY <1>0, <2>1 DEF RuntimeTypeOK, TurnInv, ArmedInv, ClosedIsIdle
  <2>4. LedgerInv' /\ LeaseInv'
    BY <1>0, <2>1 DEF RuntimeTypeOK, LedgerInv, AppliedInOrder, LeaseInv
  <2> QED
    BY <1>0, <2>1, <2>2, <2>3, <2>4 DEF RuntimeInv
<1> QED
  BY <1>1, <1>2, <1>3, <1>4, <1>5

\* The ticks of the workers and the leases of the singletons.
LEMMA TicksKeep ==
    ASSUME RuntimeInv, NEW h \in Hosts, NEW w \in Chores,
           TickStarts(h, w) \/ TickEnds(h, w) \/ (w \in Singletons /\ LeaseBreaks(h, w))
    PROVE  RuntimeInv'
<1>0. /\ RuntimeTypeOK /\ cuts \in Nat /\ TurnInv /\ LedgerInv /\ ArmedInv /\ ClosedIsIdle
      /\ LeaseInv /\ applied \in [Hosts -> SUBSET Nat]
  BY DEF RuntimeInv
<1>1. CASE TickStarts(h, w)
  <2>1. /\ UNCHANGED <<migrated, effects, turnkey, stage, release, applied, serving, boots, cuts>>
        /\ working[h][w] = "armed" /\ working' = [working EXCEPT ![h][w] = "busy"]
        /\ \/ w \in Singletons /\ lease[w] = Nobody /\ lease' = [lease EXCEPT ![w] = h]
           \/ w \notin Singletons /\ lease' = lease
    BY <1>1 DEF TickStarts
  <2>2. stage[h] = "up"
    BY <1>0, <2>1 DEF ArmedInv
  <2>3. RuntimeTypeOK'
    BY <1>0, <2>1 DEF RuntimeTypeOK
  <2>4. ArmedInv' /\ ClosedIsIdle'
    BY <1>0, <2>1, <2>2 DEF RuntimeTypeOK, ArmedInv, ClosedIsIdle
  <2>5. TurnInv' /\ LedgerInv'
    BY <1>0, <2>1 DEF TurnInv, LedgerInv, AppliedInOrder
  <2>6. LeaseInv'
    BY <1>0, <2>1 DEF RuntimeTypeOK, LeaseInv
  <2> QED
    BY <1>0, <2>1, <2>3, <2>4, <2>5, <2>6 DEF RuntimeInv
<1>2. CASE TickEnds(h, w)
  <2>1. /\ UNCHANGED <<migrated, effects, turnkey, stage, release, applied, serving, boots, cuts>>
        /\ working' = [working EXCEPT ![h][w] = IF stage[h] = "up" THEN "armed" ELSE "idle"]
        /\ lease' = IF w \in Singletons /\ lease[w] = h THEN [lease EXCEPT ![w] = Nobody] ELSE lease
    BY <1>2 DEF TickEnds
  <2>2. RuntimeTypeOK'
    BY <1>0, <2>1 DEF RuntimeTypeOK
  <2>3. ArmedInv' /\ ClosedIsIdle'
    BY <1>0, <2>1 DEF RuntimeTypeOK, ArmedInv, ClosedIsIdle
  <2>4. TurnInv' /\ LedgerInv'
    BY <1>0, <2>1 DEF TurnInv, LedgerInv, AppliedInOrder
  <2>5. LeaseInv'
    <3>1. ASSUME cuts = 0, NEW x \in Singletons, NEW g \in Hosts, working'[g][x] = "busy"
          PROVE  lease'[x] = g
      <4>1. working[g][x] = "busy" /\ (g # h \/ x # w)
        BY <1>0, <2>1, <3>1 DEF RuntimeTypeOK
      <4>2. lease[x] = g
        BY <1>0, <3>1, <4>1 DEF LeaseInv
      <4> QED
        BY <1>0, <2>1, <4>1, <4>2 DEF RuntimeTypeOK
    <3> QED
      BY <2>1, <3>1 DEF LeaseInv
  <2> QED
    BY <1>0, <2>1, <2>2, <2>3, <2>4, <2>5 DEF RuntimeInv
<1>3. CASE w \in Singletons /\ LeaseBreaks(h, w)
  <2>1. /\ UNCHANGED <<migrated, effects, turnkey, stage, release, applied, working, serving>>
        /\ cuts' = cuts + 1 /\ lease' = [lease EXCEPT ![w] = Nobody]
    BY <1>3 DEF LeaseBreaks
  <2>2. RuntimeTypeOK'
    BY <1>0, <2>1 DEF RuntimeTypeOK
  <2>3. ArmedInv' /\ ClosedIsIdle' /\ TurnInv' /\ LedgerInv'
    BY <1>0, <2>1 DEF ArmedInv, ClosedIsIdle, TurnInv, LedgerInv, AppliedInOrder
  <2>4. cuts' \in Nat /\ cuts' # 0
    BY <1>0, <2>1
  <2>5. LeaseInv'
    BY <2>4 DEF LeaseInv
  <2> QED
    BY <1>0, <2>1, <2>2, <2>3, <2>4, <2>5 DEF RuntimeInv
<1> QED
  BY <1>1, <1>2, <1>3

\* The requests and the steps of a shutdown.
LEMMA StopKeeps ==
    ASSUME RuntimeInv, NEW h \in Hosts,
           RequestComes(h) \/ RequestGoes(h) \/ Signal(h) \/ CloseResources(h) \/ Exit(h)
    PROVE  RuntimeInv'
<1>0. /\ RuntimeTypeOK /\ cuts \in Nat /\ TurnInv /\ LedgerInv /\ ArmedInv /\ ClosedIsIdle
      /\ LeaseInv /\ applied \in [Hosts -> SUBSET Nat]
  BY DEF RuntimeInv
<1>1. CASE RequestComes(h) \/ RequestGoes(h)
  <2>1. UNCHANGED <<migrated, effects, turnkey, lease, stage, release, applied, working, boots, cuts>>
    BY <1>1 DEF RequestComes, RequestGoes
  <2>2. /\ serving' \in [Hosts -> BOOLEAN]
        /\ \A g \in Hosts : serving'[g] => serving[g] \/ stage[g] = "up"
    <3>1. serving \in [Hosts -> BOOLEAN]
      BY <1>0 DEF RuntimeTypeOK
    <3>2. CASE RequestComes(h)
      BY <3>1, <3>2 DEF RequestComes
    <3>3. CASE RequestGoes(h)
      BY <3>1, <3>3 DEF RequestGoes
    <3> QED
      BY <1>1, <3>2, <3>3
  <2>3. RuntimeTypeOK'
    BY <1>0, <2>1, <2>2 DEF RuntimeTypeOK
  <2>4. ClosedIsIdle'
    BY <1>0, <2>1, <2>2 DEF ClosedIsIdle
  <2>5. TurnInv' /\ LedgerInv' /\ ArmedInv' /\ LeaseInv'
    BY <1>0, <2>1 DEF TurnInv, LedgerInv, AppliedInOrder, ArmedInv, LeaseInv
  <2> QED
    BY <1>0, <2>1, <2>3, <2>4, <2>5 DEF RuntimeInv
<1>2. CASE Signal(h)
  <2>1. /\ UNCHANGED <<migrated, effects, turnkey, lease, release, applied, serving, boots, cuts>>
        /\ stage[h] = "up" /\ stage' = [stage EXCEPT ![h] = "stopping"]
        /\ working' = [working EXCEPT ![h] =
                [w \in Chores |-> IF @[w] = "armed" THEN "idle" ELSE @[w]]]
    BY <1>2 DEF Signal
  <2>2. RuntimeTypeOK'
    <3>1. [w \in Chores |-> IF working[h][w] = "armed" THEN "idle" ELSE working[h][w]]
              \in [Chores -> {"idle", "armed", "busy"}]
      BY <1>0 DEF RuntimeTypeOK
    <3> QED
      BY <1>0, <2>1, <3>1 DEF RuntimeTypeOK
  <2>3. /\ \A w \in Chores : working'[h][w] = IF working[h][w] = "armed" THEN "idle" ELSE working[h][w]
        /\ \A g \in Hosts \ {h} : working'[g] = working[g]
        /\ stage'[h] = "stopping" /\ \A g \in Hosts \ {h} : stage'[g] = stage[g]
    BY <1>0, <2>1 DEF RuntimeTypeOK
  <2>4. TurnInv'
    BY <1>0, <2>1, <2>3 DEF TurnInv
  <2>5. ArmedInv'
    BY <1>0, <2>3 DEF ArmedInv
  <2>6. ClosedIsIdle'
    BY <1>0, <2>1, <2>3 DEF ClosedIsIdle
  <2>7. LedgerInv' /\ LeaseInv'
    <3>1. \A g \in Hosts, w \in Chores : working'[g][w] = "busy" => working[g][w] = "busy"
      BY <2>3
    <3> QED
      BY <1>0, <2>1, <3>1 DEF LedgerInv, AppliedInOrder, LeaseInv
  <2> QED
    BY <1>0, <2>1, <2>2, <2>4, <2>5, <2>6, <2>7 DEF RuntimeInv
<1>3. CASE CloseResources(h)
  <2>1. /\ UNCHANGED <<migrated, effects, turnkey, lease, release, applied, working, serving, boots, cuts>>
        /\ stage[h] = "stopping" /\ stage' = [stage EXCEPT ![h] = "closed"]
        /\ ~serving[h] /\ \A w \in Chores : working[h][w] # "busy"
    BY <1>3 DEF CloseResources
  <2>2. \A w \in Chores : working[h][w] = "idle"
    BY <1>0, <2>1 DEF RuntimeTypeOK, ArmedInv
  <2>3. RuntimeTypeOK'
    BY <1>0, <2>1 DEF RuntimeTypeOK
  <2>4. TurnInv' /\ ArmedInv' /\ ClosedIsIdle'
    BY <1>0, <2>1, <2>2 DEF RuntimeTypeOK, TurnInv, ArmedInv, ClosedIsIdle
  <2>5. LedgerInv' /\ LeaseInv'
    BY <1>0, <2>1 DEF LedgerInv, AppliedInOrder, LeaseInv
  <2> QED
    BY <1>0, <2>1, <2>3, <2>4, <2>5 DEF RuntimeInv
<1>4. CASE Exit(h)
  BY <1>4, EndsCleanly DEF Exit
<1> QED
  BY <1>1, <1>2, <1>3, <1>4

-----------------------------------------------------------------------------
(* The theorems.                                                             *)

\* No process has started, and nothing is in the ledger.
LEMMA RuntimeStarts == RuntimeInit => RuntimeInv
<1> SUFFICES ASSUME RuntimeInit PROVE RuntimeInv
  OBVIOUS
<1>1. RuntimeTypeOK /\ cuts \in Nat /\ applied \in [Hosts -> SUBSET Nat]
  BY DEF RuntimeInit, RuntimeTypeOK
<1>2. TurnInv /\ ArmedInv /\ ClosedIsIdle /\ LeaseInv
  BY DEF RuntimeInit, TurnInv, ArmedInv, ClosedIsIdle, LeaseInv
<1>3. LedgerInv
  <2>1. effects = <<>> /\ effects \in Seq(Nat) /\ DOMAIN effects = {} /\ DOMAIN migrated = {}
    BY DEF RuntimeInit
  <2> QED
    BY <2>1 DEF LedgerInv, AppliedInOrder
<1> QED
  BY <1>1, <1>2, <1>3 DEF RuntimeInv

\* Every step of every process keeps the invariant.
THEOREM RuntimeInductive == RuntimeSpec => []RuntimeInv
<1>1. RuntimeInv /\ [RuntimeNext]_runtimeVars => RuntimeInv'
  <2> SUFFICES ASSUME RuntimeInv, [RuntimeNext]_runtimeVars PROVE RuntimeInv'
    OBVIOUS
  <2>1. CASE UNCHANGED runtimeVars
    <3>1. /\ RuntimeTypeOK /\ cuts \in Nat /\ TurnInv /\ LedgerInv /\ ArmedInv /\ ClosedIsIdle
          /\ LeaseInv /\ applied \in [Hosts -> SUBSET Nat]
      BY DEF RuntimeInv
    <3>2. RuntimeTypeOK' /\ cuts' \in Nat /\ applied' \in [Hosts -> SUBSET Nat]
      BY <2>1, <3>1 DEF runtimeVars, RuntimeTypeOK
    <3>3. TurnInv' /\ LedgerInv' /\ ArmedInv'
      BY <2>1, <3>1 DEF runtimeVars, TurnInv, LedgerInv, AppliedInOrder, ArmedInv
    <3>4. ClosedIsIdle' /\ LeaseInv'
      BY <2>1, <3>1 DEF runtimeVars, ClosedIsIdle, LeaseInv
    <3> QED
      BY <3>2, <3>3, <3>4 DEF RuntimeInv
  <2>2. CASE RuntimeNext
    <3>1. PICK h \in Hosts :
              \/ Boot(h) \/ TakeTurn(h) \/ ReadLedger(h) \/ ApplyNext(h) \/ StartUp(h)
              \/ RequestComes(h) \/ RequestGoes(h)
              \/ Signal(h) \/ CloseResources(h) \/ Exit(h)
              \/ \E w \in Chores : TickStarts(h, w) \/ TickEnds(h, w)
              \/ \E w \in Singletons : LeaseBreaks(h, w)
      BY <2>2 DEF RuntimeNext
    <3>2. \A w \in Singletons : w \in Chores
      OBVIOUS
    <3>3. ASSUME \E w \in Chores : TickStarts(h, w) \/ TickEnds(h, w) PROVE RuntimeInv'
      BY <3>3, TicksKeep
    <3>4. ASSUME \E w \in Singletons : LeaseBreaks(h, w) PROVE RuntimeInv'
      BY <3>2, <3>4, TicksKeep
    <3> QED
      BY <3>1, <3>3, <3>4, StartKeeps, StopKeeps
  <2> QED
    BY <2>1, <2>2
<1> QED
  BY <1>1, RuntimeStarts, PTL DEF RuntimeSpec

\* The processes, the locks and the leases keep their types.
THEOREM RuntimeTypes == RuntimeSpec => []RuntimeTypeOK
<1>1. RuntimeInv => RuntimeTypeOK
  BY DEF RuntimeInv
<1> QED
  BY <1>1, RuntimeInductive, PTL

\* The processes that run a singleton are at most the one that holds its lease.
LEMMA LeaseIsForOne == LeaseInv => AloneUntilCut
<1> SUFFICES ASSUME LeaseInv, cuts = 0, NEW w \in Singletons
             PROVE  Cardinality({h \in Hosts : working[h][w] = "busy"}) <= 1
  BY DEF AloneUntilCut
<1> DEFINE Busy == {h \in Hosts : working[h][w] = "busy"}
<1>1. Busy \in SUBSET {lease[w]}
  BY DEF LeaseInv
<1>2. IsFiniteSet({lease[w]}) /\ Cardinality({lease[w]}) = 1
  BY FS_Singleton
<1> QED
  BY <1>1, <1>2, FS_Subset

\* Replicas of any releases, started, stopped and killed in any order: each
\* migration takes effect once and in order, a closed process runs nothing, and a
\* singleton runs in one process while no connection broke under its lease.
THEOREM ReplicasStayOrderly == RuntimeSpec => []ReplicasAreOrderly
<1>1. RuntimeInv => ReplicasAreOrderly
  BY LeaseIsForOne DEF RuntimeInv, ReplicasAreOrderly, LedgerInv
<1> QED
  BY <1>1, RuntimeInductive, PTL

=============================================================================
