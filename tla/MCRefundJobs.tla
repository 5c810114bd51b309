---------------------------- MODULE MCRefundJobs ----------------------------
(* Instances of RefundJobs for TLC.                                        *)
EXTENDS RefundJobs

PromptFairSpec == PromptSpec /\ Fairness
=============================================================================
