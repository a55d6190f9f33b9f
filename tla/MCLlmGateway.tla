---------------------------- MODULE MCLlmGateway ----------------------------
(* Instances of LlmGateway for TLC.                                         *)
EXTENDS LlmGateway

=============================================================================
