---------------------------- MODULE MCDraftReview ----------------------------
(* Instances of DraftReview for TLC.                                        *)
EXTENDS DraftReview, TLC

CONSTANTS w1, w2, v1, v2, o1

OneAnswer == [o \in Replies |-> {1}]

Symmetries == Permutations(Workers) \cup Permutations(Reviewers)

=============================================================================
