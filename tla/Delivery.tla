------------------------------ MODULE Delivery ------------------------------
(***************************************************************************)
(* What the outbound queue promises of the messages handed to it, without   *)
(* drainers, leases, retries or scheduled actions: a message is accepted,   *)
(* may reach the customer once, and is in the end on record as sent, as     *)
(* refused, as cancelled, or as one nobody knows about.                     *)
(***************************************************************************)
EXTENDS FiniteSets

CONSTANT Messages

VARIABLES
    record,     \* what the service says of each message
    gone        \* whether it may have reached the customer

deliveryVars == <<record, gone>>

Records == {"none", "open", "doubtful", "sent", "refused", "cancelled"}

DeliveryInit ==
    /\ record = [m \in Messages |-> "none"]
    /\ gone = [m \in Messages |-> FALSE]

Says(m, from, to) == record[m] \in from /\ record' = [record EXCEPT ![m] = to]

Accept(m) == Says(m, {"none"}, "open") /\ ~gone[m] /\ UNCHANGED gone

\* The one hand-over: a message that may have left is never handed over again,
\* and none is that was refused or cancelled.
HandOver(m) ==
    /\ record[m] \in {"open", "doubtful"} /\ ~gone[m]
    /\ gone' = [gone EXCEPT ![m] = TRUE] /\ UNCHANGED record

Confirm(m) == gone[m] /\ Says(m, {"open", "doubtful"}, "sent") /\ UNCHANGED gone

\* Several at once are given up on; one of them may still turn out unsent.
Doubt(S) ==
    /\ \A m \in S : record[m] = "open"
    /\ record' = [m \in Messages |-> IF m \in S THEN "doubtful" ELSE record[m]]
    /\ UNCHANGED gone

Reopen(m) == ~gone[m] /\ Says(m, {"doubtful"}, "open") /\ UNCHANGED gone

\* Only what certainly stayed here is on record as refused or cancelled.
Refuse(m) == ~gone[m] /\ Says(m, {"open", "doubtful"}, "refused") /\ UNCHANGED gone
Cancel(m) == ~gone[m] /\ Says(m, {"open"}, "cancelled") /\ UNCHANGED gone

DeliveryNext ==
    \/ \E m \in Messages : \/ Accept(m) \/ HandOver(m) \/ Confirm(m)
                           \/ Reopen(m) \/ Refuse(m) \/ Cancel(m)
    \/ \E S \in SUBSET Messages : Doubt(S)

DeliverySpec == DeliveryInit /\ [][DeliveryNext]_deliveryVars
=============================================================================
