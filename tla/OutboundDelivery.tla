-------------------------- MODULE OutboundDelivery --------------------------
(***************************************************************************)
(* The queue and its drainers implement Delivery.                           *)
(***************************************************************************)
EXTENDS Outbound

\* A row that is queued or being sent is open; a failure with the
\* possibly-delivered prefix is a doubt, one without it a refusal.
Record ==
    [r \in Rows |->
        IF status[r] \in {"approved", "sending"} THEN "open"
        ELSE IF status[r] = "failed" THEN IF ambiguous[r] THEN "doubtful" ELSE "refused"
        ELSE status[r]]

Gone == [r \in Rows |-> reached[r] > 0]

Promise == INSTANCE Delivery WITH Messages <- Rows, record <- Record, gone <- Gone

\* The queue keeps its promise whatever replicas, reclaims, crashes, retries and
\* cancels do: a message is handed over at most once, "sent", "refused" and
\* "cancelled" are final, only a message that cannot have reached the customer
\* becomes refused, cancelled or open again, and a doubt is never forgotten.
KeepsDeliveryPromise == Promise!DeliverySpec
=============================================================================
