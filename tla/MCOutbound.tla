----------------------------- MODULE MCOutbound -----------------------------
(* Instances of Outbound, and of its promise, for TLC.                      *)
EXTENDS OutboundDelivery, TLC

CONSTANTS d1, d2, p1

OneRecipient == [r \in Rows |-> p1]

Replicas == Permutations(Drainers)

=============================================================================
