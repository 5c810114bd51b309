-------------------------- MODULE MCQuotaDuplicates -------------------------
(* QuotaLease with calls delivered twice: two charges and two refunds of the  *)
(* same order, as redelivered messages and repeated failures make them.       *)
EXTENDS QuotaLease

MCPrice   == <<2>>
MCOrderOf == <<1, 1, 1, 1>>
MCAdjustments == {}
=============================================================================
